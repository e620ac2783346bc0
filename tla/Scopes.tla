------------------------------- MODULE Scopes -------------------------------
(***************************************************************************)
(* The permissions of a member-tied key (crates/matter-sdk-key/scopes.rs). *)
(* A ScopeSet is a u32 bitmask: here the set of its one bits, of which the *)
(* upper twelve are undefined.  Its text is a sequence of entries, each    *)
(* the part before and the letters after the colon; names and letters are  *)
(* compared without regard to case.                                        *)
(***************************************************************************)
EXTENDS Integers, Sequences

NAMES == <<"deployments", "collaborations", "secrets", "volumes", "datasets",
           "networking", "resources", "organization", "billing",
           "communities">>

Scope  == {NAMES[i] : i \in DOMAIN NAMES}
Access == {"r", "w"}
Width  == 32
COUNT  == Len(NAMES)

\* The bit of (scope, access): twice the scope's discriminant, plus one for Write.
bit(scope, access) ==
  LET discriminant == (CHOOSE i \in DOMAIN NAMES : NAMES[i] = scope) - 1
  IN  discriminant * 2 + (IF access = "w" THEN 1 ELSE 0)

EMPTY    == {}
ALL      == 0 .. (COUNT * 2 - 1)
ScopeSet == SUBSET (0 .. Width - 1)

\* Mutant: the mask is read as a u16.
from_bits_Short(word) == {i \in 0 .. 15 : word[i] = 1}

\* On the wire the mask is a binary word, lowest bit first; what is read of it
\* is not validated.
bits(set)       == [i \in 0 .. Width - 1 |-> IF i \in set THEN 1 ELSE 0]
from_bits(word) == {i \in 0 .. Width - 1 : word[i] = 1}

single(scope, access)        == {bit(scope, access)}
contains(set, scope, access) == bit(scope, access) \in set
is_superset(set, other)      == other \subseteq set
is_valid(set)                == set \subseteq ALL

-----------------------------------------------------------------------------
Entry(name, colon, access) == [name |-> name, colon |-> colon, letters |-> access]

\* Display: the granted scopes in discriminant order.  Undefined bits show nothing.
letters(set, s) == (IF contains(set, s, "r") THEN <<"r">> ELSE <<>>)
                     \o (IF contains(set, s, "w") THEN <<"w">> ELSE <<>>)
to_text(set) ==
  LET granted(s) == IF letters(set, s) = <<>> THEN <<>>
                    ELSE <<Entry(s, TRUE, letters(set, s))>>
      text[n \in 0..COUNT] == IF n = 0 THEN <<>> ELSE text[n - 1] \o granted(NAMES[n])
  IN  text[COUNT]

\* What is wrong with one entry; a repeated letter is refused, not folded.
entry_error(e) ==
  IF ~e.colon THEN "MissingAccess"
  ELSE IF e.name \notin Scope THEN "UnknownScope"
  ELSE IF e.letters \notin {<<"r">>, <<"w">>, <<"r", "w">>, <<"w", "r">>}
         THEN "InvalidAccess"
  ELSE "none"

\* FromStr: the union of the entries, or the error of the first bad one.
from_text(text) ==
  LET bad == {i \in DOMAIN text : entry_error(text[i]) # "none"}
      first == CHOOSE i \in bad : \A j \in bad : i <= j
  IN  IF bad # {}
        THEN [ok |-> FALSE, error |-> entry_error(text[first]), set |-> EMPTY]
        ELSE [ok |-> TRUE, error |-> "none",
              set |-> UNION {{bit(text[i].name, text[i].letters[j]) :
                                j \in DOMAIN text[i].letters} : i \in DOMAIN text}]
=============================================================================

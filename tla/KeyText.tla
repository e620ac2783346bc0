------------------------------ MODULE KeyText ------------------------------
(***************************************************************************)
(* The text of an API key (crates/matter-sdk-key): an optional scheme, a   *)
(* phrase, derivation junctions and a password (apikey.rs, suri.rs,        *)
(* scheme.rs).  A text is a sequence of symbols: "/", ":", space, newline, *)
(* "m" a mnemonic, "0" a 0x mini-secret, "s" the token sr25519, "e" a      *)
(* reserved scheme, "p" another word, "?" any character of none of these.  *)
(***************************************************************************)
EXTENDS Integers, Sequences, FiniteSets, SequencesExt

Symbol == {"/", ":", " ", "\n", "m", "0", "s", "e", "p", "?"}

NoPassword == <<"none">>
Derived(root, password, junctions) ==
  [root |-> root, password |-> password, junctions |-> junctions]
NoAccount        == Derived("none", NoPassword, <<>>)
KeyError(error)  == [ok |-> FALSE, error |-> error, account |-> NoAccount]
Account(account) == [ok |-> TRUE, error |-> "none", account |-> account]

trim(s) ==
  LET solid == {i \in DOMAIN s : s[i] \notin {" ", "\n"}}
  IN  IF solid = {} THEN <<>> ELSE SubSeq(s, Min(solid), Max(solid))

upto(s, i) == SubSeq(s, 1, i)
from(s, i) == SubSeq(s, i, Len(s))

\* The first of a set of positions, or one past the end of s.
find(s, positions) == IF positions = {} THEN Len(s) + 1 ELSE Min(positions)

-----------------------------------------------------------------------------
\* Only words and digits, and no 0x seed, before the first colon are a scheme;
\* a mnemonic has spaces in it.
is_scheme_token(t) == t # <<>> /\ \A i \in DOMAIN t : t[i] \in {"s", "e", "p"}

\* The key without its scheme, or the error of an unusable one.
split_scheme(input) ==
  LET colon == find(input, {i \in DOMAIN input : input[i] = ":"})
      scheme == upto(input, colon - 1)
  IN  IF colon > Len(input) \/ ~is_scheme_token(scheme) THEN [error |-> "none", body |-> input]
      ELSE IF scheme = <<"s">> THEN [error |-> "none", body |-> from(input, colon + 1)]
      ELSE [error |-> IF scheme = <<"e">> THEN "UnsupportedScheme" ELSE "Malformed",
            body |-> <<>>]

-----------------------------------------------------------------------------
PASSWORD_SEPARATOR == <<"/", "/", "/">>

\* A segment begins at a slash that does not follow one; `head` has at most two
\* in a row.  Its token, to the next segment, keeps the second slash of a hard
\* junction.
segments(path) == {i \in DOMAIN path : path[i] = "/" /\ (i = 1 \/ path[i - 1] # "/")}
token_end(path, i) == find(path, {j \in segments(path) : j > i}) - 1
token(path, i) == SubSeq(path, i + 1, token_end(path, i))
in_order(S) == CHOOSE order \in [1..Cardinality(S) -> S] :
                 \A i, j \in DOMAIN order : i < j => order[i] < order[j]

parse_junctions(path) ==
  LET empty(t) == \A j \in DOMAIN t : t[j] = "/"
      order    == in_order(segments(path))
  IN  [ok |-> \A i \in segments(path) : ~empty(token(path, i)),
       junctions |-> [k \in DOMAIN order |-> token(path, order[k])]]

is_valid_phrase(phrase) ==
  \A i \in DOMAIN phrase : phrase[i] \in {"m", "0", "s", "e", "p", " "}

\* Mutant: the last /// starts the password.
split_LastSeparator(input) ==
  LET seps  == {i \in 1..(Len(input) - 2) : SubSeq(input, i, i + 2) = PASSWORD_SEPARATOR}
      at    == IF seps = {} THEN Len(input) + 1 ELSE Max(seps)
      head  == upto(input, at - 1)
      slash == find(head, {i \in DOMAIN head : head[i] = "/"})
      path  == parse_junctions(from(head, slash))
  IN  [ok |-> is_valid_phrase(upto(head, slash - 1)) /\ path.ok,
       phrase    |-> upto(head, slash - 1),
       junctions |-> path.junctions,
       password  |-> IF at > Len(input) THEN NoPassword ELSE from(input, at + 3)]

\* The first /// starts the password, the first slash before it the path.
split(input) ==
  LET at == find(input, {i \in 1..(Len(input) - 2) :
                            SubSeq(input, i, i + 2) = PASSWORD_SEPARATOR})
      head  == upto(input, at - 1)
      slash == find(head, {i \in DOMAIN head : head[i] = "/"})
      path  == parse_junctions(from(head, slash))
  IN  [ok |-> is_valid_phrase(upto(head, slash - 1)) /\ path.ok,
       phrase    |-> upto(head, slash - 1),
       junctions |-> path.junctions,
       password  |-> IF at > Len(input) THEN NoPassword ELSE from(input, at + 3)]

-----------------------------------------------------------------------------
\* A mnemonic, whose spaces are normalised.
is_mnemonic(phrase) ==
  \E i \in DOMAIN phrase : phrase[i] = "m" /\ \A j \in DOMAIN phrase \ {i} : phrase[j] = " "

\* The account a key derives: a seed ignores the password.
seed_account(uri)     == Derived("seed", NoPassword, uri.junctions)
mnemonic_account(uri) == Derived("mnemonic", uri.password, uri.junctions)

\* A missing phrase is refused: upstream would fill in the public dev phrase.
parse_sr25519(body) ==
  LET uri == split(body)
  IN  IF ~uri.ok \/ uri.phrase = <<>> THEN KeyError("Malformed")
      ELSE IF uri.phrase = <<"0">> THEN Account(seed_account(uri))
      ELSE IF is_mnemonic(uri.phrase) THEN Account(mnemonic_account(uri))
      ELSE KeyError("Malformed")

\* ApiKey::parse.
parse(input) ==
  LET scheme == split_scheme(trim(input))
  IN  IF trim(input) = <<>> THEN KeyError("Empty")
      ELSE IF scheme.error # "none" THEN KeyError(scheme.error)
      ELSE IF trim(scheme.body) = <<>> THEN KeyError("Empty")
      ELSE parse_sr25519(scheme.body)

-----------------------------------------------------------------------------
\* The grammar of sp_core, ^([\d\w ]+)?((//?[^/]+)*)(///(.*))?$, read backwards:
\* the parts of a URI, put together again.
Spelled(uri) ==
  uri.phrase \o FlattenSeq([k \in DOMAIN uri.junctions |-> <<"/">> \o uri.junctions[k]])
    \o (IF uri.password = NoPassword THEN <<>> ELSE PASSWORD_SEPARATOR \o uri.password)

\* The texts the grammar accepts.  Its dot matches no newline.
Upstream(s) ==
  \E n \in 0..Len(s), k \in 0..Len(s) :
    LET phrase == upto(s, n)
        path   == SubSeq(s, n + 1, k)
        tail   == from(s, k + 1)
    IN  /\ n <= k /\ is_valid_phrase(phrase)
        /\ path = <<>> \/ (path[1] = "/" /\ path[Len(path)] # "/")
        /\ \A i \in 1..(Len(path) - 2) : SubSeq(path, i, i + 2) # PASSWORD_SEPARATOR
        /\ tail = <<>> \/ IsPrefix(PASSWORD_SEPARATOR, tail)
        /\ \A i \in DOMAIN tail : tail[i] # "\n"
=============================================================================

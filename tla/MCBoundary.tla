----------------------------- MODULE MCBoundary -----------------------------
(***************************************************************************)
(* Values for TLC: two goroutines, and arguments with at most one defect.  *)
(* The goroutines are alike.                                               *)
(***************************************************************************)
EXTENDS CBoundary, TLC

Symmetry == Permutations(Goroutine)

MCSeals ==
  LET S(pk, text, id) == [joint_pk |-> pk, plaintext |-> text, binding_id |-> id,
                          capsule |-> "good", proof |-> "good"]
  IN  {S(pk, "good", "good") : pk \in {"good", "trailing", "garbage", "empty"}}
      \cup {S("good", text, "good") : text \in {"oversized", "empty"}}
      \cup {S("good", "good", id) : id \in {"oversized", "empty"}}
      \cup {[S("good", "good", "good") EXCEPT !.capsule = "oversized"],
            [S("good", "good", "good") EXCEPT !.proof = "oversized"]}

MCOpens ==
  LET O(points, partial, shared_a, honest, bound_) ==
        [points |-> points, partial |-> partial, shared_a |-> shared_a,
         honest |-> honest, bound |-> bound_]
  IN  {O(<<1, 2>>, "good", "good", h, b) : h \in BOOLEAN, b \in BOOLEAN}
      \cup {O(p, "garbage", "good", TRUE, TRUE) : p \in {<<2, 1>>, <<>>, <<0, 1>>, <<1, 1>>}}
      \cup {O(<<1, 2>>, "good", b, TRUE, TRUE) : b \in {"oversized", "trailing"}}
=============================================================================

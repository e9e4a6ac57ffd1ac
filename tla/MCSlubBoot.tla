----------------------------- MODULE MCSlubBoot -----------------------------
(* All small sizes, and the neighbours of every power of two. *)
EXTENDS SlubBoot

Around(k) == {2 ^ k - 1, 2 ^ k, 2 ^ k + 1}
MCSizes == 0 .. 300 \cup UNION {Around(k) : k \in 8 .. 15}
MCObjSizes == 1 .. 700 \cup {700 + 97 * i : i \in 1 .. 350} \cup UNION {Around(k) : k \in 10 .. 22}
=============================================================================

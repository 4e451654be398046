---------------------------- MODULE MCLifecycle ----------------------------
(* A small instance of Lifecycle: one connection of each family.           *)
EXTENDS Lifecycle, TLC

CONSTANTS u, k, w, t1, t2

AllKinds == (u :> "unix") @@ (k :> "ktls") @@ (w :> "ws")
Used == {AllKinds[c] : c \in Conns}
UsedKinds == [c \in Conns |-> AllKinds[c]]

=============================================================================

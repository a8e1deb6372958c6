--------------------------- MODULE MCMotorControl ---------------------------
(* Small instances of MotorControl: one probe, a run and a stop for it.     *)
EXTENDS MotorControl

CONSTANTS c1, c2, c3, n1, p1

MCCommand == {c1, c2}
MCCanonical == (c1 :> c1) @@ (c2 :> c2)
MCDevice == {p1}
MCNode == {n1}
MCNodeIds == (p1 :> {n1})
MCNodeOf == (c1 :> n1) @@ (c2 :> n1)
MCAction == (c1 :> "run") @@ (c2 :> "stop")
MCCreated == (c1 :> 0) @@ (c2 :> 1)
MCExpires == (c1 :> 3) @@ (c2 :> 3)
MCStatus == 3..7

(* A run with a negative duration, which the hub refuses, a command whose   *)
(* id is no UUID, which it cannot encode, and an ordinary one.              *)
OddCommand == {c1, c2, c3}
OddCanonical == (c1 :> c1) @@ (c2 :> NotUuid) @@ (c3 :> c3)
OddAction == (c1 :> "negative") @@ (c2 :> "run") @@ (c3 :> "stop")
OddNodeOf == [c \in OddCommand |-> n1]
OddCreated == [c \in OddCommand |-> 0]
OddExpires == [c \in OddCommand |-> 2]

(* The second command has no TTL (expires_at = 0).                          *)
NoTtlExpires == (c1 :> 1) @@ (c2 :> 0)
NoTtlAction == (c1 :> "run") @@ (c2 :> "run")
============================================================================

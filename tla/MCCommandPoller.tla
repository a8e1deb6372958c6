-------------------------- MODULE MCCommandPoller --------------------------
(* Small instances of CommandPoller: two nodes, three commands of which two *)
(* wait for the same probe, and one id whose UUID is spelled differently    *)
(* from the form expand_command_id gives back.  An id is the text that the  *)
(* backend uses, of a UUID that has two bytes.                              *)
EXTENDS CommandPoller, CommandIds

CONSTANTS n1, n2, addr, p1, p2

c1 == <<48, 48, 45, 48, 49>>        \* 00-01
c2 == <<48, 48, 45, 48, 50>>        \* 00-02
c3 == <<48, 48, 48, 65>>            \* 000A
none == <<48, 48, 45, 48>>          \* 00-0

MCCommand == {c1, c2, c3}
MCCanonical == [c \in MCCommand |-> Expand(Pack(c))]
MCId == MCCommand \cup {MCCanonical[c] : c \in MCCommand}
MCDevice == {p1, p2}
MCNode == {n1, n2, addr}
MCNodeIds == (p1 :> {n1, addr}) @@ (p2 :> {n2})
MCNodeOf == (c1 :> n1) @@ (c2 :> n1) @@ (c3 :> n2)
MCAction == (c1 :> "run") @@ (c2 :> "stop") @@ (c3 :> "run")
MCCreated == (c1 :> 0) @@ (c2 :> 0) @@ (c3 :> 1)
MCExpires == (c1 :> 1) @@ (c2 :> 2) @@ (c3 :> 3)
MCStatus == {3, 4, 5}

(* A smaller instance for liveness: one command is refused, one id is no    *)
(* UUID.                                                                    *)
LiveCommand == {c1, none, c3}
LiveCanonical == [c \in LiveCommand |-> IF IsUuid(c) THEN Expand(Pack(c)) ELSE NotUuid]
LiveId == LiveCommand \cup {LiveCanonical[c] : c \in {c1, c3}}
LiveDevice == {p1}
LiveNode == {n1, addr}
LiveNodeIds == (p1 :> {n1, addr})
LiveNodeOf == (c1 :> n1) @@ (none :> n1) @@ (c3 :> n1)
LiveAction == (c1 :> "run") @@ (none :> "stop") @@ (c3 :> "negative")
LiveCreated == (c1 :> 0) @@ (none :> 1) @@ (c3 :> 1)
LiveExpires == (c1 :> 2) @@ (none :> 3) @@ (c3 :> 3)
LiveStatus == {3, 4, 5}

ASSUME MCBoundedTTL == BoundedTTL

(* Hyphens, digits of both cases and letters that are none, in every order. *)
SmallTexts == UNION {[1..n -> {45, 49, 70, 97, 103}] : n \in 0..6}

ASSUME MCPacking == \A text \in SmallTexts : UuidIs(text) /\ PackIs(text)
ASSUME MCComesBack == \A id \in [0..1 -> Byte] : ComesBack(id)
============================================================================

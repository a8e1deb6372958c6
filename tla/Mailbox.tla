------------------------------- MODULE Mailbox -------------------------------
(***************************************************************************)
(* What the hub's command list promises, whoever looks at it: commands     *)
(* that wait stay in the order in which they were accepted, each waits at  *)
(* most once, a new one goes to the end, and they leave one at a time,     *)
(* except when the hub loses its memory.                                   *)
(***************************************************************************)
EXTENDS Naturals, Sequences, SequencesExt

CONSTANT Command

VARIABLE held

Init == held = <<>>

Accept(c) ==
    /\ c \notin ToSet(held)
    /\ held' = Append(held, c)

Release(i) == held' = RemoveAt(held, i)

Forget == held' = <<>>

Next ==
    \/ \E c \in Command : Accept(c)
    \/ \E i \in DOMAIN held : Release(i)
    \/ Forget

Spec == Init /\ [][Next]_held

==============================================================================

---------------------------- MODULE MotorPromise ----------------------------
(***************************************************************************)
(* What hub, backend and probes promise together about motor commands, for *)
(* somebody who looks at the motors and at what the backend is told, and   *)
(* sees no queue, session, lease, retry or restart: a command acts once,   *)
(* in its time, and what is told of it is true.                            *)
(*                                                                         *)
(* Nothing is promised about how often something is told, nor that only    *)
(* one of the terminal statuses is.                                        *)
(***************************************************************************)
EXTENDS Naturals

CONSTANTS
    Command,
    Run,        \* the commands that start a motor
    Sendable,   \* the commands that may be sent to a probe at all
    Created, Expires,
    WriteTime,  \* how long a command may be on its way to the probe
    SENT, EXECUTING, SUCCEEDED, FAILED, EXPIRED

VARIABLES
    now,
    written,    \* commands a probe is known to have been given
    starts,     \* how often the motor was started for each command
    told        \* the statuses the backend was told of each command

vars == <<now, written, starts, told>>

Init ==
    /\ now = 0
    /\ written = {}
    /\ starts = [c \in Command |-> 0]
    /\ told = [c \in Command |-> {}]

TimePasses ==
    /\ now' = now + 1
    /\ UNCHANGED <<written, starts, told>>

(* A command acts after its creation, and not after its expiry but for the *)
(* time it was on its way.                                                 *)
InTime(c) == Created[c] <= now /\ now < Expires[c] + WriteTime

Give(c) ==
    /\ c \in Sendable /\ InTime(c)
    /\ written' = written \cup {c}
    /\ UNCHANGED <<now, starts, told>>

Start(c) ==
    /\ c \in Run \cap Sendable /\ InTime(c)
    /\ starts[c] = 0
    /\ starts' = [starts EXCEPT ![c] = 1]
    /\ UNCHANGED <<now, written, told>>

IsTrue(c, status) ==
    /\ status = SENT => c \in written
    /\ status = EXECUTING => starts[c] > 0
    /\ status \in {SUCCEEDED, FAILED} /\ c \in Run => starts[c] > 0
    /\ status = SUCCEEDED => c \in Sendable
    /\ status = EXPIRED => Expires[c] <= now

Tell(c, status) ==
    /\ IsTrue(c, status)
    /\ told' = [told EXCEPT ![c] = @ \cup {status}]
    /\ UNCHANGED <<now, written, starts>>

Next ==
    \/ TimePasses
    \/ \E c \in Command :
          \/ Give(c) \/ Start(c)
          \/ \E status \in {SENT, EXECUTING, SUCCEEDED, FAILED, EXPIRED} : Tell(c, status)

Spec == Init /\ [][Next]_vars
=============================================================================

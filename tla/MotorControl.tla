---------------------------- MODULE MotorControl ----------------------------
(***************************************************************************)
(* The command path end to end: the hub of CommandPoller between a backend *)
(* that leases commands and collects acknowledgements, and probes that run *)
(* motors.  Backend and probes are not in this repository; they are        *)
(* modelled from what the hub's code relies on:                            *)
(*   - PullPendingMotorCommands leases what it hands out (config.rs:67),   *)
(*     and hands a command out again when the lease is over, as long as it *)
(*     has had no terminal acknowledgement;                                *)
(*   - a probe runs one command at a time, ignores a command id it has     *)
(*     seen in the last Retention, and ignores expired commands            *)
(*     (config.rs:30-34); it keeps its last result for the hub to read.    *)
(* An RPC may be lost on the way, or served and its answer lost; a BLE     *)
(* write that fails may have reached the probe.                            *)
(***************************************************************************)
EXTENDS CommandPoller, FiniteSets

CONSTANTS
    Lease,      \* MOTOR_COMMAND_POLL_LEASE_DURATION_MS
    ScanTime,   \* BLE_SCAN_MS
    MaxTtl,     \* u32::MAX, the widest remaining expiry a payload can carry
    WriteTime,  \* how long a BLE write takes at most
    LossEnd     \* bound of HearingSpec: when losses and restarts end

(* No two probes answer under the same node id, probes report every status *)
(* the hub acts on, and no command's UUID is the id of another command.    *)
ASSUME ExternalAssumption ==
    /\ Lease \in Nat /\ ScanTime \in Nat /\ MaxTtl \in Nat
    /\ WriteTime \in Nat /\ LossEnd \in Nat
    /\ \A d, e \in Device : d # e => NodeIds[d] \cap NodeIds[e] = {}
    /\ Reported \subseteq Status
    /\ \A c, e \in Command : Canonical[c] = e => c = e
    /\ None \notin Nat \cup [at : Nat, left : Nat]

VARIABLES
    began,      \* when the scan in progress began
    payload,    \* the payload being written: when it was encoded, the TTL in it
    leased,     \* backend: until when each command is leased
    acked,      \* backend: the statuses acknowledged for each command
    active,     \* probe: the command it works on
    running,    \* probe: whether the motor turns for it
    deadline,   \* probe: when the active command's remaining expiry is over
    last,       \* probe: the last motor result
    seen,       \* probe: command id |-> when it was accepted
    written,    \* history: commands whose write the hub saw acknowledged
    starts      \* history: how often the motor was started for each command

radio == <<began, payload>>
backend == <<leased, acked>>
probe == <<active, running, deadline, last, seen>>
history == <<written, starts>>
sysVars == <<vars, radio, backend, probe, history>>

SENT == 3  EXECUTING == 4  SUCCEEDED == 5  FAILED == 6  EXPIRED == 7
Terminal == {SUCCEEDED, FAILED, EXPIRED}

SysInit ==
    /\ Init
    /\ began = None /\ payload = None
    /\ leased = [c \in Command |-> 0]
    /\ acked = [c \in Command |-> {}]
    /\ active = [d \in Device |-> None]
    /\ running = [d \in Device |-> FALSE]
    /\ deadline = [d \in Device |-> 0]
    /\ last = [d \in Device |-> None]
    /\ seen = [d \in Device |-> [i \in {} |-> 0]]
    /\ written = {}
    /\ starts = [c \in Command |-> 0]

----------------------------------------------------------------------------
(* Backend *)

CanLease(c) ==
    /\ Created[c] <= now
    /\ leased[c] <= now
    /\ acked[c] \cap Terminal = {}

(* PullPendingMotorCommands served: what it answers is leased. *)
ServePull(batch) ==
    /\ \A i \in DOMAIN batch : CanLease(batch[i])
    /\ leased' = [c \in Command |->
                    IF c \in ToSet(batch) THEN now + Lease ELSE leased[c]]
    /\ UNCHANGED acked

(* AckMotorCommandEvent served; an id the backend does not know is refused *)
(* or ignored.                                                             *)
ServeAck(id, status) ==
    /\ acked' = [c \in Command |->
                    IF c = id THEN acked[c] \cup {status} ELSE acked[c]]
    /\ UNCHANGED leased

(* An ack the hub sees fail, or does not care about, may have been served. *)
MayServeAck(id, status) == ServeAck(id, status) \/ UNCHANGED backend

----------------------------------------------------------------------------
(* Probes *)

(* Faulty: every payload carries the default expiry. *)
RemainingExpiry_Default(c) == Retention

(* build_motor_command_payload: the remaining expiry, clamped to a u32.    *)
RemainingExpiry(c) ==
    LET left == Expires[c] - now
    IN  (IF left > MaxTtl THEN MaxTtl ELSE left) % (MaxTtl + 1)

Remembers(d, id) == id \in DOMAIN seen[d] /\ now - seen[d][id] <= Retention

(* A payload reaches probe d: a repeated id is ignored, and so is a run    *)
(* while another one is active; a stop ends the active one.                *)
Ignored(d, c) ==
    \/ Remembers(d, Canonical[c])
    \/ Action[c] = "run" /\ active[d] # None

PayloadArrives(d, c) ==
    \/ Ignored(d, c) /\ UNCHANGED probe
    \/ /\ ~Ignored(d, c)
       /\ seen' = [seen EXCEPT ![d] =
                      [i \in DOMAIN seen[d] \cup {Canonical[c]} |->
                          IF i = Canonical[c] THEN now ELSE seen[d][i]]]
       /\ running' = [running EXCEPT ![d] = FALSE]
       /\ \/ /\ Action[c] = "run"
             /\ active' = [active EXCEPT ![d] = c]
             /\ deadline' = [deadline EXCEPT ![d] = now + payload.left]
             /\ UNCHANGED last
          \/ /\ Action[c] = "stop"
             /\ active' = [active EXCEPT ![d] = None]
             /\ last' = [last EXCEPT ![d] = [id |-> Canonical[c], status |-> SUCCEEDED]]
             /\ UNCHANGED deadline

Report(d, status) ==
    last' = [last EXCEPT ![d] = [id |-> Canonical[active[d]], status |-> status]]

ProbeStarts(d) ==
    /\ active[d] # None /\ ~running[d] /\ now < deadline[d]
    /\ running' = [running EXCEPT ![d] = TRUE]
    /\ starts' = [starts EXCEPT ![active[d]] = @ + 1]
    /\ Report(d, EXECUTING)
    /\ UNCHANGED <<vars, radio, backend, active, deadline, seen, written>>

ProbeFinishes(d) ==
    /\ running[d]
    /\ running' = [running EXCEPT ![d] = FALSE]
    /\ active' = [active EXCEPT ![d] = None]
    /\ \E status \in {SUCCEEDED, FAILED} : Report(d, status)
    /\ UNCHANGED <<vars, radio, backend, history, deadline, seen>>

ProbeExpires(d) ==
    /\ active[d] # None /\ ~running[d] /\ now >= deadline[d]
    /\ active' = [active EXCEPT ![d] = None]
    /\ Report(d, EXPIRED)
    /\ UNCHANGED <<vars, radio, backend, history, running, deadline, seen>>

----------------------------------------------------------------------------
(* The hub's steps with their effect outside *)

Outside == <<radio, backend, probe, history>>

SysPull ==
    \/ \E batch \in BoundedSeq(Command, BatchSize) :
          /\ PullOk(batch)
          /\ ServePull(batch)
          /\ UNCHANGED <<radio, probe, history>>
    \/ /\ PullFails
       /\ began' = now
       /\ UNCHANGED <<payload, acked, probe, history>>
       /\ \/ UNCHANGED leased
          \/ \E batch \in BoundedSeq(Command, BatchSize) : ServePull(batch)

SysExpire ==
    /\ ExpireDrop
    /\ MayServeAck(Head(expiring), EXPIRED)
    /\ UNCHANGED <<radio, probe, history>>

SysStore ==
    /\ \/ StoreExpired /\ MayServeAck(Head(pulled), EXPIRED)
       \/ StoreRejected /\ MayServeAck(Head(pulled), FAILED)
    /\ UNCHANGED <<radio, probe, history>>

(* The scan lasts ScanTime, unless it fails, which finds nothing.          *)
SysBeginScan ==
    /\ StoreDone
    /\ began' = now
    /\ UNCHANGED <<payload, backend, probe, history>>

SysScan(found) ==
    /\ Scan(found)
    /\ found # {} => now >= began + ScanTime
    /\ began' = None
    /\ UNCHANGED <<payload, backend, probe, history>>

(* Steps of the hub that nobody outside takes part in. *)
SysLocal ==
    /\ \/ BeginPoll \/ ExpireKeep
       \/ StoreDuplicate \/ StorePending
       \/ \E d \in Device : SkipCandidate(d)
       \/ CycleDone
       \/ \E d \in Device : \E n \in NodeIds[d] : OpenSession(d, n)
       \/ DispatchExpired
       \/ ReadNothing
       \/ ApplySkipped
       \/ CompleteFailed
    /\ UNCHANGED Outside

(* The probe the session is with; node ids are not shared. *)
Peer(d) == session.node \in NodeIds[d]

SysEncode ==
    /\ Encode
    /\ payload' = [at |-> now, left |-> RemainingExpiry(session.req)]
    /\ UNCHANGED <<began, backend, probe, history>>

(* The payload being written gets to the probe of the session. *)
Deliver == pc = "write" /\ \E d \in Device : Peer(d) /\ PayloadArrives(d, session.req)

SysDispatch ==
    /\ payload' = None
    /\ \/ /\ DispatchOk /\ Deliver
          /\ written' = written \cup {session.req}
          /\ UNCHANGED <<began, backend, starts>>
       \/ /\ DispatchFailed
          /\ Deliver \/ UNCHANGED probe
          /\ UNCHANGED <<began, backend, history>>

SysRead ==
    /\ \E d \in Device : Peer(d) /\ last[d] # None /\ ReadResult(last[d])
    /\ UNCHANGED Outside

(* Faulty: the ack names the command of this session, not the result's. *)
SysApply_AcksRequest ==
    /\ \/ ApplyAcked /\ ServeAck(session.req, session.res.status)
       \/ ApplyUnacked /\ MayServeAck(session.res.id, session.res.status)
    /\ UNCHANGED <<radio, probe, history>>

SysApply ==
    /\ \/ ApplyAcked /\ ServeAck(session.res.id, session.res.status)
       \/ ApplyUnacked /\ MayServeAck(session.res.id, session.res.status)
    /\ UNCHANGED <<radio, probe, history>>

(* The ack names the command that is taken off the list. *)
IsCompleted(c) ==
    \E i \in DOMAIN pending : IsFirstFor(i, session.node) /\ pending[i] = c

SysComplete ==
    /\ \E c \in Command :
          /\ IsCompleted(c)
          /\ \/ CompleteSentAcked /\ ServeAck(c, SENT)
             \/ CompleteSentUnacked /\ MayServeAck(c, SENT)
             \/ CompleteExpired /\ MayServeAck(c, EXPIRED)
    /\ UNCHANGED <<radio, probe, history>>

SysHub ==
    \/ SysPull \/ SysExpire \/ SysStore \/ SysBeginScan
    \/ (\E found \in SUBSET Device : SysScan(found))
    \/ SysLocal
    \/ SysEncode \/ SysDispatch \/ SysRead \/ SysApply \/ SysComplete

(* A write that a reset cuts off may have got through. *)
SysRestart ==
    /\ Restart
    /\ began' = None /\ payload' = None
    /\ Deliver \/ UNCHANGED probe
    /\ UNCHANGED <<backend, history>>

SysTick ==
    /\ Tick
    /\ payload # None => now < payload.at + WriteTime
    /\ UNCHANGED Outside

SysProbe ==
    \E d \in Device : ProbeStarts(d) \/ ProbeFinishes(d) \/ ProbeExpires(d)

SysNext == SysHub \/ SysRestart \/ SysTick \/ SysProbe

SysSpec == SysInit /\ [][SysNext]_sysVars

(* Fairness: the hub's thread and the probes keep going, time passes, and  *)
(* the probes stay available: again and again scans find them all, a       *)
(* session opens, gets past the write, and reads the result, and acks get  *)
(* through.                                                                *)
Opens(d) == (\E n \in NodeIds[d] : OpenSession(d, n)) /\ UNCHANGED Outside

SysFairSpec ==
    /\ SysSpec
    /\ WF_sysVars(SysHub) /\ WF_sysVars(SysTick) /\ WF_sysVars(SysProbe)
    /\ SF_sysVars(SysScan(Device))
    /\ \A d \in Device : SF_sysVars(Opens(d))
    /\ SF_sysVars(SysEncode)
    /\ SF_sysVars(DispatchOk /\ SysDispatch)
    /\ SF_sysVars(DispatchExpired /\ UNCHANGED Outside)
    /\ SF_sysVars(SysRead)
    /\ SF_sysVars(ApplyAcked /\ SysApply)
    /\ SF_sysVars(CompleteSentAcked /\ SysComplete)

(* What the backend may not get to know or hand out: a pull that fails or  *)
(* leaves out what could be leased, a best-effort ack that is lost, and a  *)
(* restart of the hub, which forgets all it holds.                         *)
Unheard(id) == acked'[id] = {}

Loss ==
    \/ PullFails
    \/ /\ SysPull /\ Len(pulled') < BatchSize
       /\ \E c \in Command : CanLease(c) /\ c \notin ToSet(pulled')
    \/ SysExpire /\ Unheard(Head(expiring))
    \/ SysStore /\ Unheard(Head(pulled))
    \/ CompleteExpired /\ \E c \in Command : IsCompleted(c) /\ Unheard(c)
    \/ SysRestart /\ ~SysHub

(* Time passes and the hub's thread keeps going; losses and restarts end   *)
(* at LossEnd.  Nothing is assumed of the probes: they may be out of range *)
(* for good.                                                               *)
HearingSpec ==
    /\ SysInit /\ [][SysNext /\ (Loss => now <= LossEnd)]_sysVars
    /\ WF_sysVars(SysHub) /\ SF_sysVars(SysTick)

----------------------------------------------------------------------------
SysTypeOK ==
    /\ TypeOK
    /\ began \in Nat \cup {None}
    /\ pc = "scan" <=> began # None
    /\ payload \in [at : Nat, left : Nat] \cup {None}
    /\ pc = "write" <=> payload # None
    /\ leased \in [Command -> Nat]
    /\ acked \in [Command -> SUBSET {SENT, EXECUTING, SUCCEEDED, FAILED, EXPIRED}]
    /\ active \in [Device -> Command \cup {None}]
    /\ running \in [Device -> BOOLEAN]
    /\ \A d \in Device : running[d] => active[d] # None
    /\ deadline \in [Device -> Nat]
    /\ last \in [Device -> Result \cup {None}]
    /\ DOMAIN seen = Device
    /\ \A d \in Device : DOMAIN seen[d] \subseteq Id
    /\ \A d \in Device : \A i \in DOMAIN seen[d] : seen[d][i] \in 0..now
    /\ written \subseteq Command
    /\ starts \in [Command -> Nat]

(* The motor is started at most once for a command, although the backend   *)
(* may hand it out again, acks and write confirmations may be lost and the *)
(* hub may restart and forget it: the hub never begins to write a command  *)
(* past its expiry (ble.rs:482), and the probe, which got it a scan after  *)
(* its creation at the earliest, forgets it later (config.rs:49).          *)
StartsAtMostOnce == \A c \in Command : starts[c] <= 1

(* No motor starts for a command after its expires_at, whatever delays the *)
(* hub's checks, the start and every retry (ble.rs:311-315).  The payload  *)
(* carries a time to live, not a time: what the write takes comes on top.  *)
StartsInTime ==
    [][\A c \in Command :
          starts'[c] # starts[c] => now < Expires[c] + WriteTime]_sysVars

(* What the backend is told is true: SENT_TO_PROBE only of a command whose *)
(* write a probe confirmed, EXECUTING and SUCCEEDED of a run only if the   *)
(* motor was started for it, FAILED only of such a run or of a command no  *)
(* probe can be sent, EXPIRED only once the time is over (main.rs:234-259  *)
(* reports this session's write and an older command's result together).   *)
AcksAreTrue ==
    \A c \in Command :
        LET run == Action[c] = "run" IN
        /\ SENT \in acked[c] => c \in written
        /\ EXECUTING \in acked[c] => starts[c] > 0
        /\ SUCCEEDED \in acked[c] /\ run => starts[c] > 0
        /\ FAILED \in acked[c] /\ run => starts[c] > 0
        /\ EXPIRED \in acked[c] => Expires[c] <= now

(* What the hub refuses (a negative duration, an unknown action) or cannot *)
(* put into a payload (an id that is no UUID) never gets to a probe: the   *)
(* backend hears FAILED or EXPIRED of it, and no motor turns.              *)
RefusedIsNeverSent ==
    \A c \in Command :
        IsRefused(c) \/ Canonical[c] = NotUuid =>
            acked[c] \subseteq {FAILED, EXPIRED} /\ starts[c] = 0

(* The backend hears of each command that has a TTL, although the hub      *)
(* tells it of a refused or expired command only once, forgets the command *)
(* whether or not the ack got through (polling.rs:405-415), and then takes *)
(* it for a duplicate until the id is forgotten too.                       *)
EveryCommandIsHeardOf ==
    <>(\A c \in Command : Expires[c] > 0 => acked[c] # {})

(* For whoever looks at the motors and at what the backend is told, the    *)
(* whole is MotorPromise: a command acts once, between its creation and    *)
(* its expiry, and nothing false is told of it, whatever is queued, leased *)
(* again, retried, lost and forgotten in between.                          *)
Promise == INSTANCE MotorPromise WITH
    Run <- {c \in Command : Action[c] = "run"},
    Sendable <- {c \in Command : ~IsRefused(c) /\ Canonical[c] # NotUuid},
    told <- acked

KeepsPromise == Promise!Spec

(* README.md:82: EXPIRED means "Command TTL elapsed before delivery or     *)
(* execution": no command is reported expired that is reported succeeded.  *)
SucceededIsNotExpired ==
    \A c \in Command : ~({SUCCEEDED, EXPIRED} \subseteq acked[c])

(* A terminal result that is read from a probe is passed on: it is dropped *)
(* only when the backend has been told a terminal outcome of that command  *)
(* (polling.rs:179, "keeping local retry path alive").                     *)
TerminalResultPassedOn ==
    [][ApplySkipped /\ IsTerminal(session.res) /\ session.res.id \in Command
        => acked[session.res.id] \cap Terminal # {}]_sysVars

(* polling.rs:291: a stored command is "pending until probe availability": *)
(* with its probe available it does not wait forever.                      *)
PendingUntilAvailable == \A c \in Command : IsWaiting(c) ~> ~IsWaiting(c)

=============================================================================

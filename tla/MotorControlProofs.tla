------------------------ MODULE MotorControlProofs ------------------------
(***************************************************************************)
(* Theorems about MotorControl: the hub of CommandPoller, composed with a  *)
(* backend and probes, for every set of commands and probes, every lease,  *)
(* retention and time a BLE write may take.                                *)
(***************************************************************************)
EXTENDS MotorControl, CommandPollerProofs

----------------------------------------------------------------------------
(* The strengthening, part by part.                                        *)

(* Commands no probe can be sent. *)
Odd(c) == IsRefused(c) \/ Canonical[c] = NotUuid

(* The payload being written was encoded from a command that had arrived   *)
(* and had not expired, no more than WriteTime ago.                        *)
Encoded ==
    pc = "write" =>
        /\ Canonical[session.req] \in Id
        /\ Created[session.req] <= payload.at
        /\ payload.at < Expires[session.req]
        /\ payload.at + payload.left <= Expires[session.req]
        /\ payload.at <= now /\ now <= payload.at + WriteTime

(* What the hub holds, has written and takes to be written or expired.     *)
Dispatched ==
    /\ \A c \in Command : IsWaiting(c) => ~IsRefused(c)
    /\ \A c \in written : ~Odd(c)
    /\ session.disp = "ok" => session.req \in written
    /\ session.disp = "expired" => Expires[session.req] <= now

(* What a probe works on. *)
Working ==
    \A d \in Device : active[d] # None =>
        /\ Action[active[d]] = "run"
        /\ Canonical[active[d]] \in Id
        /\ NodeOf[active[d]] \in NodeIds[d]
        /\ deadline[d] <= Expires[active[d]] + WriteTime
        /\ running[d] => starts[active[d]] > 0

(* Where the cycle is when its scan is over. *)
Scanned == {"cycle", "dispatch", "write", "result", "apply", "complete"}

(* What waits was created before the scan began: when the scan has found a *)
(* probe, it is as old as the scan took.                                   *)
Aged ==
    /\ pc = "scan" =>
          /\ began <= now
          /\ \A c \in Command : IsWaiting(c) => Created[c] <= began
    /\ pc \in Scanned =>
          \A c \in Command : IsWaiting(c) => Created[c] + ScanTime <= now

SysInv ==
    /\ Inv /\ Arrived
    /\ SysTypeOK /\ Encoded /\ Dispatched /\ Working /\ Aged

(* The results there are: on the probes and in the session. *)
Results == {last[d] : d \in Device} \cup {session.res}

(* Nothing odd has come back from a probe, been started or been            *)
(* acknowledged as sent.                                                   *)
NothingOdd ==
    /\ \A r \in Results : r # None => \A c \in Command : r.id = c => ~Odd(c)
    /\ RefusedIsNeverSent

(* What it takes for a status of a command to be true. *)
TrueOf(c, s) ==
    /\ s = SENT => c \in written
    /\ s = EXECUTING => starts[c] > 0
    /\ s = SUCCEEDED /\ Action[c] = "run" => starts[c] > 0
    /\ s = FAILED /\ Action[c] = "run" => starts[c] > 0
    /\ s = EXPIRED => Expires[c] <= now

(* A payload carries all of the time that is left. *)
TtlFits == \A c \in Command : Expires[c] <= Created[c] + MaxTtl

ExactTtl ==
    /\ pc = "write" => payload.at + payload.left = Expires[session.req]
    /\ \A d \in Device : active[d] # None => Expires[active[d]] <= deadline[d]

Truth ==
    /\ ExactTtl
    /\ \A r \in Results : r # None =>
          \A c \in Command : r.id = c /\ r.status # SENT => TrueOf(c, r.status)
    /\ \A c \in Command : \A s \in acked[c] : TrueOf(c, s)

(* A command expires, and the write that was begun before is over, before  *)
(* the probe forgets the id, which it cannot get before a scan found it.   *)
(* With the defaults (config.rs:48-49, ble.rs:33) an expiry is as long as  *)
(* the retention, which leaves a write the 8 s of a scan: a link that is   *)
(* silent for 600 ms is given up (update_conn_params).                     *)
TtlLeavesWriteTime ==
    \A c \in Command : Expires[c] + WriteTime <= Created[c] + ScanTime + Retention + 1

(* A probe remembers what it has started, and has not started what it is   *)
(* still waiting to start.                                                 *)
Remembered(d, c) ==
    /\ Canonical[c] \in DOMAIN seen[d]
    /\ Created[c] + ScanTime <= seen[d][Canonical[c]]

StartsInv ==
    /\ \A c \in Command : \A d \in Device :
          NodeOf[c] \in NodeIds[d] /\ starts[c] > 0 => Remembered(d, c)
    /\ \A d \in Device : active[d] # None =>
          /\ Remembered(d, active[d])
          /\ ~running[d] => starts[active[d]] = 0
    /\ StartsAtMostOnce

(* A scan begins or ends. *)
SysScans == SysBeginScan \/ \E found \in SUBSET Device : SysScan(found)

----------------------------------------------------------------------------
(* Every step of the whole is a step of the hub alone, or none.            *)
LEMMA SysStepIsStep ==
    ASSUME SysTypeOK, [SysNext]_sysVars
    PROVE  [Next]_vars
<1>1. CASE SysPull
  BY <1>1 DEF SysPull, Next, HubStep, Poll
<1>2. CASE SysExpire \/ SysStore
  BY <1>2 DEF SysExpire, SysStore, Next, HubStep, Poll
<1>3. CASE SysLocal
  BY <1>3 DEF SysLocal, Next, HubStep, Poll, Cycle
<1>4. CASE SysEncode \/ SysDispatch
  BY <1>4 DEF SysEncode, SysDispatch, Next, HubStep, Cycle
<1>5. CASE SysRead
  <2>1. PICK d \in Device : last[d] # None /\ ReadResult(last[d])
    BY <1>5 DEF SysRead
  <2>2. last[d] \in Result
    BY <2>1 DEF SysTypeOK
  <2>3. QED
    BY <2>1, <2>2 DEF Next, HubStep, Cycle
<1>6. CASE SysApply \/ SysComplete
  BY <1>6 DEF SysApply, SysComplete, Next, HubStep, Cycle
<1>7. CASE SysRestart \/ SysTick
  BY <1>7 DEF SysRestart, SysTick, Next
<1>8. CASE SysProbe \/ UNCHANGED sysVars
  BY <1>8 DEF SysProbe, ProbeStarts, ProbeFinishes, ProbeExpires, sysVars
<1>9. CASE SysScans
  BY <1>9 DEF SysScans, SysBeginScan, SysScan, Next, HubStep, Poll, Cycle
<1>10. QED
  BY <1>1, <1>2, <1>3, <1>4, <1>5, <1>6, <1>7, <1>8, <1>9 DEF SysNext, SysHub, SysScans

(* What changes on a probe: a payload that is being written is accepted,   *)
(* or the probe takes a step of its own.                                   *)
Accepts(d, c) == PayloadArrives(d, c) /\ ~Ignored(d, c)

Accepted ==
    /\ pc = "write" /\ payload # None
    /\ UNCHANGED <<now, starts>>
    /\ \E d \in Device : Peer(d) /\ Accepts(d, session.req)

(* A write reaches no probe, or one that takes it in.                      *)
LEMMA DeliverKinds ==
    ASSUME Deliver
    PROVE  \/ UNCHANGED probe
           \/ pc = "write" /\ \E d \in Device : Peer(d) /\ Accepts(d, session.req)
BY DEF Deliver, PayloadArrives, Accepts

(* A probe changes by taking a command in or by a step of its own.         *)
LEMMA ProbeKinds ==
    ASSUME SysTypeOK, [SysNext]_sysVars
    PROVE  UNCHANGED <<probe, starts>> \/ Accepted \/ SysProbe
<1>1. CASE SysPull \/ SysExpire \/ SysStore \/ SysLocal \/ SysEncode
  BY <1>1 DEF SysPull, SysExpire, SysStore, SysLocal, SysEncode, Outside, history
<1>2. CASE SysRead \/ SysApply \/ SysComplete \/ SysTick \/ UNCHANGED sysVars
  BY <1>2 DEF SysRead, SysApply, SysComplete, SysTick, sysVars, Outside, history
<1>3. CASE SysDispatch
  <2>1. UNCHANGED <<now, starts>>
    BY <1>3 DEF SysDispatch, DispatchOk, DispatchFailed, Dispatch, history
  <2>2. UNCHANGED probe \/ Deliver
    BY <1>3 DEF SysDispatch
  <2>3. QED
    BY <2>1, <2>2, DeliverKinds DEF Accepted, SysTypeOK
<1>4. CASE SysRestart
  <2>1. UNCHANGED <<now, starts>>
    BY <1>4 DEF SysRestart, Restart, history
  <2>2. UNCHANGED probe \/ Deliver
    BY <1>4 DEF SysRestart
  <2>3. QED
    BY <2>1, <2>2, DeliverKinds DEF Accepted, SysTypeOK
<1>5. CASE SysScans
  BY <1>5 DEF SysScans, SysBeginScan, SysScan, history
<1>6. QED
  BY <1>1, <1>2, <1>3, <1>4, <1>5 DEF SysNext, SysHub, SysScans

(* Which results appear: one that was there before, one a probe reports of *)
(* the command it works on, or the success of a stop that is accepted.     *)
LEMMA SessionResult ==
    ASSUME TypeOK, [Next]_vars
    PROVE  \/ session'.res = session.res
           \/ session'.res = None
           \/ \E r \in Result : ReadResult(r)
<1>1. CASE Poll
  BY <1>1 DEF Poll, BeginPoll, ExpireDrop, ExpireKeep, PullFails, PullOk,
     StoreDuplicate, StoreExpired, StoreRejected, StorePending, StoreDone, loop
<1>2. CASE DispatchOk \/ DispatchExpired \/ DispatchFailed
  BY <1>2 DEF TypeOK, DispatchOk, DispatchExpired, DispatchFailed, Dispatch
<1>3. ASSUME NEW d \in Device, NEW n \in NodeIds[d], OpenSession(d, n)
      PROVE  session'.res = None
  BY <1>3 DEF OpenSession, NoSession
<1>4. CASE ReadNothing \/ ApplySkipped \/ ApplyUnacked \/ ApplyAcked
  BY <1>4 DEF ReadNothing, ApplySkipped, ApplyUnacked, ApplyAcked, Proceed, NoSession
<1>5. ASSUME NEW o, EndSession(o) PROVE session'.res = None
  BY <1>5 DEF EndSession, NoSession
<1>6. CASE Cycle
  BY <1>2, <1>3, <1>4, <1>5, <1>6 DEF Cycle, Scan, SkipCandidate, CycleDone, Encode,
     CompleteSentAcked, CompleteSentUnacked, CompleteExpired, CompleteFailed
<1>7. CASE Tick \/ Restart \/ UNCHANGED vars
  BY <1>7 DEF Tick, Restart, vars, loop, NoSession
<1>8. QED
  BY <1>1, <1>6, <1>7 DEF Next, HubStep

(* What the backend can be told in a step: the expiry of a command, the    *)
(* refusal of one, the result read in this session, and what became of the *)
(* command that was written in it.                                         *)
AckOf(id, s) ==
    \/ id \in Command /\ IsExpired(id) /\ s = EXPIRED
    \/ id \in Command /\ IsRefused(id) /\ s = FAILED
    \/ session.res # None /\ id = session.res.id /\ s = session.res.status /\ s \in Reported
    \/ id = session.req /\ id \in Command /\ session.disp = "ok" /\ s = SENT
    \/ id = session.req /\ id \in Command /\ session.disp = "expired" /\ s = EXPIRED

(* The command taken off the list is the one written in the session. *)
LEMMA CompletedIsRequested ==
    ASSUME Inv, NEW c \in Command, IsCompleted(c), session.disp # None
    PROVE  c = session.req
<1>1. session.req # None
  BY DEF Inv, Stage
<1>2. PICK i \in DOMAIN pending : IsFirstFor(i, session.node) /\ pending[i] = session.req
  BY <1>1 DEF Inv, CompletesWhatWasWritten
<1>3. PICK j \in DOMAIN pending : IsFirstFor(j, session.node) /\ pending[j] = c
  BY DEF IsCompleted
<1>4. DOMAIN pending = 1..Len(pending) /\ Len(pending) \in Nat
  BY LenProperties DEF Inv, TypeOK
<1>5. i = j
  <2>1. i \in Int /\ j \in Int /\ i >= 1 /\ j >= 1
    BY <1>4
  <2>2. ~(i < j) /\ ~(j < i)
    BY <1>2, <1>3, <2>1 DEF IsFirstFor
  <2>3. QED
    BY <2>1, <2>2
<1>6. QED
  BY <1>2, <1>3, <1>5

Told(id, s) ==
    acked' = [c \in Command |-> IF c = id THEN acked[c] \cup {s} ELSE acked[c]]

(* The backend hears at most one status in a step, and one the hub has     *)
(* cause to tell.                                                          *)
LEMMA AckKinds ==
    ASSUME SysTypeOK, Inv, [SysNext]_sysVars
    PROVE  UNCHANGED acked \/ \E id, s : AckOf(id, s) /\ Told(id, s)
<1>1. CASE SysPull \/ SysLocal \/ SysEncode \/ SysDispatch \/ SysRead
  BY <1>1 DEF SysPull, ServePull, SysLocal, SysEncode, SysDispatch, SysRead, Outside, backend
<1>2. CASE SysRestart \/ SysTick \/ SysProbe \/ UNCHANGED sysVars
  BY <1>2 DEF SysRestart, SysTick, SysProbe, ProbeStarts, ProbeFinishes, ProbeExpires,
     sysVars, Outside, backend
<1>3. ASSUME NEW id, NEW s, MayServeAck(id, s), AckOf(id, s)
      PROVE  UNCHANGED acked \/ \E i, t : AckOf(i, t) /\ Told(i, t)
  BY <1>3 DEF MayServeAck, ServeAck, Told, backend
<1>4. CASE SysExpire
  <2>1. Head(expiring) \in Command
    BY <1>4, SetOfTail DEF SysExpire, ExpireDrop, SysTypeOK, TypeOK
  <2>2. AckOf(Head(expiring), EXPIRED) /\ MayServeAck(Head(expiring), EXPIRED)
    BY <1>4, <2>1 DEF SysExpire, ExpireDrop, AckOf
  <2>3. QED
    BY <1>3, <2>2
<1>5. CASE SysStore
  <2>1. Head(pulled) \in Command
    BY <1>5, SetOfTail DEF SysStore, StoreExpired, StoreRejected, Storing, SysTypeOK, TypeOK
  <2>2. \E s : AckOf(Head(pulled), s) /\ MayServeAck(Head(pulled), s)
    BY <1>5, <2>1 DEF SysStore, StoreExpired, StoreRejected, AckOf
  <2>3. QED
    BY <1>3, <2>2
<1>6. CASE SysApply
  <2>1. pc = "apply" /\ IsNews(session.res)
    BY <1>6 DEF SysApply, ApplyAcked, ApplyUnacked
  <2>2. AckOf(session.res.id, session.res.status)
    BY <2>1 DEF AckOf, IsNews, SysTypeOK, TypeOK
  <2>3. MayServeAck(session.res.id, session.res.status)
    BY <1>6 DEF SysApply, MayServeAck
  <2>4. QED
    BY <1>3, <2>2, <2>3
<1>7. CASE SysComplete
  <2>1. PICK c \in Command :
          /\ IsCompleted(c)
          /\ \/ CompleteSentAcked /\ ServeAck(c, SENT)
             \/ CompleteSentUnacked /\ MayServeAck(c, SENT)
             \/ CompleteExpired /\ MayServeAck(c, EXPIRED)
    BY <1>7 DEF SysComplete
  <2>2. pc = "complete" /\ session.disp # None
    BY <2>1 DEF CompleteSentAcked, CompleteSentUnacked, CompleteExpired, EndSession,
       SysTypeOK, TypeOK
  <2>3. c = session.req
    BY <2>1, <2>2, CompletedIsRequested
  <2>4. \E s : AckOf(c, s) /\ MayServeAck(c, s)
    BY <2>1, <2>3 DEF CompleteSentAcked, CompleteSentUnacked, CompleteExpired,
       EndSession, MayServeAck, AckOf
  <2>5. QED
    BY <1>3, <2>4
<1>8. CASE SysScans
  BY <1>8 DEF SysScans, SysBeginScan, SysScan, backend
<1>9. QED
  BY <1>1, <1>2, <1>4, <1>5, <1>6, <1>7, <1>8 DEF SysNext, SysHub, SysScans

----------------------------------------------------------------------------
(* The clamp to a u32 and its cast change nothing of a time that is left   *)
(* but to cut it at MaxTtl.                                                *)
LEMMA RemainingExpiryIs ==
    ASSUME NEW c \in Command, now \in Nat, now < Expires[c]
    PROVE  /\ RemainingExpiry(c) \in Nat
           /\ now + RemainingExpiry(c) <= Expires[c]
           /\ Expires[c] <= now + MaxTtl => now + RemainingExpiry(c) = Expires[c]
<1>1. MaxTtl \in Nat /\ Expires[c] \in Nat
  BY ExternalAssumption, TimeAssumption
<1>2. ASSUME NEW x \in Nat, x <= MaxTtl PROVE x % (MaxTtl + 1) = x
  BY <1>1, <1>2
<1>3. Expires[c] - now \in Nat
  BY <1>1
<1>4. CASE Expires[c] - now > MaxTtl
  BY <1>1, <1>2, <1>3, <1>4 DEF RemainingExpiry
<1>5. CASE Expires[c] - now <= MaxTtl
  <2>1. RemainingExpiry(c) = Expires[c] - now
    BY <1>1, <1>2, <1>3, <1>5 DEF RemainingExpiry
  <2>2. QED
    BY <1>1, <1>3, <2>1
<1>6. QED
  BY <1>1, <1>4, <1>5

(* A write is begun by Encode, and lasts while time passes. *)
LEMMA WriteKinds ==
    ASSUME TypeOK, [SysNext]_sysVars
    PROVE  \/ SysEncode
           \/ /\ UNCHANGED <<pc, payload, session>>
              /\ UNCHANGED now \/ SysTick
           \/ pc' # "write" /\ payload' = payload /\ pc # "write"
           \/ pc' # "write" /\ payload' = None
<1>1. CASE SysPull \/ SysExpire \/ SysStore
  BY <1>1 DEF SysPull, PullOk, PullFails, SysExpire, ExpireDrop, SysStore, StoreExpired,
     StoreRejected, Storing, loop, radio
<1>2. CASE SysLocal
  <2>1. payload' = payload
    BY <1>2 DEF SysLocal, Outside, radio
  <2>2. CASE \E d \in Device : \E n \in NodeIds[d] : OpenSession(d, n)
    BY <2>1, <2>2 DEF OpenSession
  <2>3. CASE \/ BeginPoll \/ ExpireKeep \/ StoreDuplicate \/ StorePending
             \/ \E d \in Device : SkipCandidate(d)
             \/ CycleDone
    BY <2>1, <2>3 DEF BeginPoll, ExpireKeep, StoreDuplicate, StorePending,
       Storing, SkipCandidate, CycleDone, loop
  <2>4. CASE DispatchExpired \/ ReadNothing \/ ApplySkipped \/ CompleteFailed
    BY <2>1, <2>4 DEF DispatchExpired, Dispatch, ReadNothing, ApplySkipped, Proceed,
       CompleteFailed, EndSession
  <2>5. QED
    BY <1>2, <2>2, <2>3, <2>4 DEF SysLocal
<1>3. CASE SysDispatch \/ SysRestart
  BY <1>3 DEF SysDispatch, DispatchOk, DispatchFailed, Dispatch, SysRestart, Restart
<1>4. CASE SysRead \/ SysApply
  BY <1>4 DEF SysRead, ReadResult, SysApply, ApplyAcked, ApplyUnacked, Proceed, Outside, radio
<1>5. CASE SysComplete
  BY <1>5 DEF SysComplete, CompleteSentAcked, CompleteSentUnacked, CompleteExpired,
     EndSession, radio
<1>6. CASE SysTick
  BY <1>6 DEF SysTick, Tick, loop, Outside, radio
<1>7. CASE SysProbe \/ UNCHANGED sysVars
  BY <1>7 DEF SysProbe, ProbeStarts, ProbeFinishes, ProbeExpires, sysVars, vars, radio
<1>8. CASE SysScans
  BY <1>8 DEF SysScans, SysBeginScan, StoreDone, SysScan, Scan
<1>9. QED
  BY <1>1, <1>2, <1>3, <1>4, <1>5, <1>6, <1>7, <1>8 DEF SysNext, SysHub, SysScans

(* How a scan begins, goes on and ends: one that finds something has taken *)
(* its time.                                                               *)
LEMMA ScanKinds ==
    ASSUME TypeOK, [SysNext]_sysVars
    PROVE  \/ pc' = "scan" /\ began' = now /\ now' = now
           \/ pc' = "poll" /\ began' = None
           \/ /\ pc = "scan" /\ pc' = "cycle" /\ began' = None
              /\ now >= began + ScanTime /\ now' = now
           \/ pc = "scan" /\ pc' = "scan" /\ began' = began
           \/ /\ pc # "scan" /\ pc' # "scan" /\ began' = began
              /\ pc' \in Scanned => pc \in Scanned
<1> USE DEF Scanned
<1>1. CASE SysPull
  BY <1>1 DEF SysPull, PullOk, PullFails, radio
<1>2. CASE SysExpire \/ SysStore
  BY <1>2 DEF SysExpire, ExpireDrop, SysStore, StoreExpired, StoreRejected, Storing, loop, radio
<1>3. CASE SysScans
  BY <1>3 DEF SysScans, SysBeginScan, StoreDone, SysScan, Scan
<1>4. CASE SysLocal
  <2>1. began' = began
    BY <1>4 DEF SysLocal, Outside, radio
  <2>2. CASE \E d \in Device : \E n \in NodeIds[d] : OpenSession(d, n)
    BY <2>1, <2>2 DEF OpenSession
  <2>3. CASE \/ BeginPoll \/ ExpireKeep \/ StoreDuplicate \/ StorePending
             \/ \E d \in Device : SkipCandidate(d)
             \/ CycleDone
    BY <2>1, <2>3 DEF BeginPoll, ExpireKeep, StoreDuplicate, StorePending,
       Storing, SkipCandidate, CycleDone, loop
  <2>4. CASE DispatchExpired \/ ReadNothing \/ ApplySkipped \/ CompleteFailed
    BY <2>1, <2>4 DEF DispatchExpired, Dispatch, ReadNothing, ApplySkipped, Proceed,
       CompleteFailed, EndSession
  <2>5. QED
    BY <1>4, <2>2, <2>3, <2>4 DEF SysLocal
<1>5. CASE SysEncode \/ SysDispatch \/ SysRead
  BY <1>5 DEF SysEncode, Encode, SysDispatch, DispatchOk, DispatchFailed, Dispatch,
     SysRead, ReadResult, Outside, radio
<1>6. CASE SysApply \/ SysComplete
  BY <1>6 DEF SysApply, ApplyAcked, ApplyUnacked, Proceed, SysComplete, CompleteSentAcked,
     CompleteSentUnacked, CompleteExpired, EndSession, radio
<1>7. CASE SysRestart
  BY <1>7 DEF SysRestart, Restart
<1>8. CASE SysTick \/ SysProbe \/ UNCHANGED sysVars
  BY <1>8 DEF SysTick, Tick, SysProbe, ProbeStarts, ProbeFinishes, ProbeExpires, sysVars,
     vars, loop, Outside, radio
<1>9. QED
  BY <1>1, <1>2, <1>3, <1>4, <1>5, <1>6, <1>7, <1>8 DEF SysNext, SysHub, SysScans

(* A payload is there exactly while it is written (ble.rs:486-502).        *)
LEMMA PayloadStep ==
    ASSUME SysTypeOK, [SysNext]_sysVars
    PROVE  /\ payload' \in [at : Nat, left : Nat] \cup {None}
           /\ pc' = "write" <=> payload' # None
<1>1. CASE SysEncode
  <2>1. pc = "dispatch" /\ session.req \in Command /\ now \in Nat /\ now < Expires[session.req]
    BY <1>1, TimeAssumption DEF SysEncode, Encode, CanEncode, SysTypeOK, TypeOK
  <2>2. RemainingExpiry(session.req) \in Nat
    BY <2>1, RemainingExpiryIs
  <2>3. payload' \in [at : Nat, left : Nat] /\ pc' = "write"
    BY <1>1, <2>1, <2>2 DEF SysEncode, Encode
  <2>4. QED
    BY <2>3, ExternalAssumption
<1>2. QED
  BY <1>1, WriteKinds DEF SysTypeOK

(* A payload on its way carries no more time than its command had left     *)
(* (ble.rs:311-327).                                                       *)
LEMMA EncodedStep ==
    ASSUME SysTypeOK, Inv, Arrived, Encoded, [SysNext]_sysVars
    PROVE  Encoded'
<1>1. now \in Nat /\ WriteTime \in Nat
  BY ExternalAssumption DEF SysTypeOK, TypeOK
<1>2. CASE SysEncode
  <2>1. /\ pc = "dispatch" /\ session.req \in Command /\ now < Expires[session.req]
        /\ Canonical[session.req] # NotUuid
        /\ payload' = [at |-> now, left |-> RemainingExpiry(session.req)]
        /\ session' = session /\ now' = now
    BY <1>2, TimeAssumption DEF SysEncode, Encode, CanEncode, SysTypeOK, TypeOK
  <2>2. session.req # None
    BY <2>1, DomainAssumption
  <2>3. IsWaiting(session.req)
    BY <2>2 DEF Inv, CompletesWhatWasWritten, IsWaiting, ToSet
  <2>4. Created[session.req] <= now
    BY <2>1, <2>3 DEF Arrived
  <2>5. Canonical[session.req] \in Id
    BY <2>1, DomainAssumption
  <2>6. RemainingExpiry(session.req) \in Nat /\ now + RemainingExpiry(session.req) <= Expires[session.req]
    BY <1>1, <2>1, RemainingExpiryIs
  <2>7. QED
    BY <1>1, <2>1, <2>4, <2>5, <2>6 DEF Encoded
<1>3. CASE pc' = "write" /\ UNCHANGED <<pc, payload, session, now>>
  BY <1>3 DEF Encoded
<1>4. CASE pc' = "write" /\ UNCHANGED <<pc, payload, session>> /\ SysTick
  <2>1. payload # None /\ payload.at \in Nat
    BY <1>4 DEF SysTypeOK
  <2>2. now' = now + 1 /\ now < payload.at + WriteTime
    BY <1>4, <2>1 DEF SysTick, Tick
  <2>3. QED
    BY <1>1, <1>4, <2>1, <2>2 DEF Encoded
<1>5. QED
  BY <1>2, <1>3, <1>4, WriteKinds DEF Encoded, SysTypeOK

----------------------------------------------------------------------------
(* What an accepted payload leaves behind on the probe: the motor is off,  *)
(* the id is remembered from now on, and a run, which is only accepted by  *)
(* an idle probe, is worked on until its remaining expiry is over.         *)
LEMMA AcceptedLeaves ==
    ASSUME SysTypeOK, NEW d \in Device, NEW c \in Command, Accepts(d, c)
    PROVE  /\ running' = [running EXCEPT ![d] = FALSE]
           /\ seen' = [seen EXCEPT ![d] = seen'[d]]
           /\ DOMAIN seen'[d] = DOMAIN seen[d] \cup {Canonical[c]}
           /\ \A i \in DOMAIN seen'[d] :
                 seen'[d][i] = IF i = Canonical[c] THEN now ELSE seen[d][i]
           /\ \/ /\ Action[c] = "run" /\ active[d] = None
                 /\ active' = [active EXCEPT ![d] = c]
                 /\ deadline' = [deadline EXCEPT ![d] = now + payload.left]
                 /\ last' = last
              \/ /\ Action[c] = "stop"
                 /\ active' = [active EXCEPT ![d] = None]
                 /\ deadline' = deadline
                 /\ last' = [last EXCEPT ![d] = [id |-> Canonical[c], status |-> SUCCEEDED]]
<1> DEFINE S == [i \in DOMAIN seen[d] \cup {Canonical[c]} |->
                    IF i = Canonical[c] THEN now ELSE seen[d][i]]
<1>1. running' = [running EXCEPT ![d] = FALSE] /\ seen' = [seen EXCEPT ![d] = S]
  BY DEF Accepts, PayloadArrives
<1>2. d \in DOMAIN seen
  BY DEF SysTypeOK
<1>3. seen'[d] = S
  BY <1>1, <1>2
<1>4. /\ DOMAIN seen'[d] = DOMAIN seen[d] \cup {Canonical[c]}
      /\ \A i \in DOMAIN seen'[d] :
            seen'[d][i] = IF i = Canonical[c] THEN now ELSE seen[d][i]
  BY <1>3
<1>5. \/ /\ Action[c] = "run" /\ active[d] = None
         /\ active' = [active EXCEPT ![d] = c]
         /\ deadline' = [deadline EXCEPT ![d] = now + payload.left]
         /\ last' = last
      \/ /\ Action[c] = "stop"
         /\ active' = [active EXCEPT ![d] = None]
         /\ deadline' = deadline
         /\ last' = [last EXCEPT ![d] = [id |-> Canonical[c], status |-> SUCCEEDED]]
  BY DEF Accepts, PayloadArrives, Ignored
<1>6. QED
  BY <1>1, <1>3, <1>4, <1>5

(* The types of the probes' state. *)
ProbeType ==
    /\ active \in [Device -> Command \cup {None}]
    /\ running \in [Device -> BOOLEAN]
    /\ \A d \in Device : running[d] => active[d] # None
    /\ deadline \in [Device -> Nat]
    /\ last \in [Device -> Result \cup {None}]
    /\ starts \in [Command -> Nat]

Stamps(t) ==
    /\ DOMAIN seen = Device
    /\ \A d \in Device : DOMAIN seen[d] \subseteq Id
    /\ \A d \in Device : \A i \in DOMAIN seen[d] : seen[d][i] \in 0..t

(* A probe that takes a command in stays well-formed, and remembers the id *)
(* from now.                                                               *)
LEMMA AcceptedType ==
    ASSUME SysTypeOK, Encoded, Accepted
    PROVE  ProbeType' /\ Stamps(now)'
<1>1. PICK d \in Device : Accepts(d, session.req)
  BY DEF Accepted
<1>2. now \in Nat /\ now' = now /\ starts' = starts /\ starts \in [Command -> Nat]
  BY DEF Accepted, SysTypeOK, TypeOK
<1>3. session.req \in Command /\ Canonical[session.req] \in Id /\ payload.left \in Nat
  BY DEF Accepted, Encoded, SysTypeOK, TypeOK
<1>4. [id |-> Canonical[session.req], status |-> SUCCEEDED] \in Result
  BY <1>3, ExternalAssumption DEF Result, SUCCEEDED, Reported
<1>5. ProbeType
  BY DEF SysTypeOK, ProbeType
<1>6. \/ /\ active' = [active EXCEPT ![d] = session.req]
         /\ deadline' = [deadline EXCEPT ![d] = now + payload.left]
         /\ last' = last
      \/ /\ active' = [active EXCEPT ![d] = None]
         /\ deadline' = deadline
         /\ last' = [last EXCEPT ![d] = [id |-> Canonical[session.req], status |-> SUCCEEDED]]
  BY <1>1, <1>3, AcceptedLeaves
<1>7. running' = [running EXCEPT ![d] = FALSE]
  BY <1>1, <1>3, AcceptedLeaves
<1>8. /\ active' \in [Device -> Command \cup {None}]
      /\ running' \in [Device -> BOOLEAN]
      /\ deadline' \in [Device -> Nat]
      /\ last' \in [Device -> Result \cup {None}]
  BY <1>2, <1>3, <1>4, <1>5, <1>6, <1>7 DEF ProbeType
<1>9. \A e \in Device : running'[e] => active'[e] # None
  BY <1>5, <1>6, <1>7 DEF ProbeType
<1>10. ProbeType'
  BY <1>2, <1>8, <1>9 DEF ProbeType
<1>11. /\ seen' = [seen EXCEPT ![d] = seen'[d]]
       /\ DOMAIN seen'[d] = DOMAIN seen[d] \cup {Canonical[session.req]}
       /\ \A i \in DOMAIN seen'[d] :
             seen'[d][i] = IF i = Canonical[session.req] THEN now ELSE seen[d][i]
  BY <1>1, <1>3, AcceptedLeaves
<1>12. Stamps(now)
  BY DEF SysTypeOK, Stamps
<1>13. DOMAIN seen' = DOMAIN seen /\ \A e \in Device : e # d => seen'[e] = seen[e]
  BY <1>11, <1>12 DEF Stamps
<1>14. DOMAIN seen'[d] \subseteq Id /\ \A i \in DOMAIN seen'[d] : seen'[d][i] \in 0..now
  BY <1>2, <1>3, <1>11, <1>12 DEF Stamps
<1>15. Stamps(now)'
  BY <1>2, <1>12, <1>13, <1>14 DEF Stamps
<1>16. QED
  BY <1>10, <1>15

(* So does one that starts, ends or forgets a command.                     *)
LEMMA OwnStepType ==
    ASSUME SysTypeOK, Working, SysProbe
    PROVE  ProbeType' /\ UNCHANGED <<seen, now>>
<1>1. PICK d \in Device : ProbeStarts(d) \/ ProbeFinishes(d) \/ ProbeExpires(d)
  BY DEF SysProbe
<1>2. ProbeType
  BY DEF SysTypeOK, ProbeType
<1>3. active[d] # None
  BY <1>1, <1>2 DEF ProbeStarts, ProbeFinishes, ProbeExpires, ProbeType
<1>4. active[d] \in Command /\ Canonical[active[d]] \in Id
  BY <1>2, <1>3 DEF ProbeType, Working
<1>5. \A s \in Reported : [id |-> Canonical[active[d]], status |-> s] \in Result
  BY <1>4, ExternalAssumption DEF Result
<1>6. CASE ProbeStarts(d)
  BY <1>2, <1>3, <1>4, <1>5, <1>6
     DEF ProbeStarts, Report, ProbeType, EXECUTING, Reported, vars
<1>7. CASE ProbeFinishes(d)
  BY <1>2, <1>5, <1>7
     DEF ProbeFinishes, Report, ProbeType, SUCCEEDED, FAILED, Reported, vars, history
<1>8. CASE ProbeExpires(d)
  BY <1>2, <1>5, <1>8
     DEF ProbeExpires, Report, ProbeType, EXPIRED, Reported, vars, history
<1>9. QED
  BY <1>1, <1>6, <1>7, <1>8

(* Probes stay well-formed, and what they remember is of the past.         *)
LEMMA ProbeTypeStep ==
    ASSUME SysTypeOK, Encoded, Working, now' \in Nat, now <= now', [SysNext]_sysVars
    PROVE  ProbeType' /\ Stamps(now)'
<1>1. ProbeType /\ Stamps(now) /\ now \in Nat
  BY DEF SysTypeOK, TypeOK, ProbeType, Stamps
<1>2. CASE UNCHANGED <<probe, starts>>
  <2>1. ProbeType'
    BY <1>1, <1>2 DEF ProbeType, probe
  <2>2. Stamps(now)'
    BY <1>1, <1>2 DEF Stamps, probe
  <2>3. QED
    BY <2>1, <2>2
<1>3. CASE SysProbe
  BY <1>1, <1>3, OwnStepType DEF Stamps
<1>4. QED
  BY <1>2, <1>3, AcceptedType, ProbeKinds

(* Leases stay times, and acks the statuses of the protocol.               *)
LEMMA BackendTypeStep ==
    ASSUME SysTypeOK, Inv, [SysNext]_sysVars
    PROVE  /\ leased' \in [Command -> Nat]
           /\ acked' \in [Command -> SUBSET {SENT, EXECUTING, SUCCEEDED, FAILED, EXPIRED}]
<1>1. leased' \in [Command -> Nat]
  <2>1. now + Lease \in Nat /\ leased \in [Command -> Nat]
    BY ExternalAssumption DEF SysTypeOK, TypeOK
  <2>2. CASE SysPull
    BY <2>1, <2>2 DEF SysPull, ServePull
  <2>3. CASE SysExpire \/ SysStore \/ SysApply \/ SysComplete
    BY <2>1, <2>3 DEF SysExpire, SysStore, SysApply, SysComplete, MayServeAck, ServeAck, backend
  <2>4. CASE ~SysPull /\ ~(SysExpire \/ SysStore \/ SysApply \/ SysComplete)
    BY <2>1, <2>4 DEF SysNext, SysHub, SysBeginScan, SysScan, SysLocal, SysEncode, SysDispatch, SysRead, SysRestart,
       SysTick, SysProbe, ProbeStarts, ProbeFinishes, ProbeExpires, Outside, backend, sysVars
  <2>5. QED
    BY <2>2, <2>3, <2>4
<1>2. ASSUME NEW id, NEW s, AckOf(id, s), Told(id, s)
      PROVE  acked' \in [Command -> SUBSET {SENT, EXECUTING, SUCCEEDED, FAILED, EXPIRED}]
  <2>1. s \in {SENT, EXECUTING, SUCCEEDED, FAILED, EXPIRED}
    BY <1>2 DEF AckOf, Reported, SENT, EXECUTING, SUCCEEDED, FAILED, EXPIRED
  <2>2. QED
    BY <1>2, <2>1 DEF Told, SysTypeOK
<1>3. QED
  BY <1>1, <1>2, AckKinds DEF SysTypeOK

(* Of what has been written, only an acknowledged write adds to it. *)
LEMMA WrittenStep ==
    ASSUME [SysNext]_sysVars
    PROVE  \/ written' = written
           \/ pc = "write" /\ DispatchOk /\ written' = written \cup {session.req}
<1>1. CASE SysPull \/ SysExpire \/ SysStore \/ SysLocal \/ SysEncode \/ SysRead \/ SysApply \/ SysComplete
  BY <1>1 DEF SysPull, SysExpire, SysStore, SysLocal, SysEncode, SysRead, SysApply,
     SysComplete, Outside, history
<1>2. CASE SysDispatch
  BY <1>2 DEF SysDispatch, DispatchOk, history
<1>3. CASE SysRestart \/ SysTick \/ SysProbe \/ UNCHANGED sysVars
  BY <1>3 DEF SysRestart, SysTick, SysProbe, ProbeStarts, ProbeFinishes, ProbeExpires,
     Outside, history, sysVars
<1>4. CASE SysScans
  BY <1>4 DEF SysScans, SysBeginScan, SysScan, history
<1>5. QED
  BY <1>1, <1>2, <1>3, <1>4 DEF SysNext, SysHub, SysScans

(* Every step keeps the types. *)
LEMMA SysTypeStep ==
    ASSUME SysTypeOK, Inv, Encoded, Working, [SysNext]_sysVars
    PROVE  SysTypeOK'
<1>1. [Next]_vars
  BY SysStepIsStep
<1>2. TypeOK'
  BY <1>1, TypeStep DEF Inv
<1>3. now' \in Nat /\ now <= now'
  BY <1>1, ClockStep
<1>4. written' \subseteq Command
  <2>1. pc = "write" => session.req \in Command
    BY DomainAssumption DEF SysTypeOK, TypeOK
  <2>2. QED
    BY <2>1, WrittenStep DEF SysTypeOK
<1>5. began' \in Nat \cup {None} /\ (pc' = "scan" <=> began' # None)
  BY ScanKinds, ExternalAssumption DEF SysTypeOK, TypeOK
<1>6. QED
  BY <1>2, <1>3, <1>4, <1>5, PayloadStep, ProbeTypeStep, BackendTypeStep
     DEF SysTypeOK, ProbeType, Stamps

----------------------------------------------------------------------------
(* What a session may come to know of its dispatch in a step. *)
LEMMA SessionDispatch ==
    ASSUME TypeOK, [SysNext]_sysVars
    PROVE  \/ session'.disp = session.disp /\ session'.req = session.req
           \/ session'.disp \in {None, "failed"}
           \/ /\ session'.disp = "ok" /\ session'.req = session.req
              /\ written' = written \cup {session.req}
           \/ /\ session'.disp = "expired" /\ session'.req = session.req
              /\ Expires[session.req] <= now /\ session.req # None
<1>1. CASE SysPull \/ SysExpire \/ SysStore
  BY <1>1 DEF SysPull, PullOk, PullFails, SysExpire, ExpireDrop, SysStore, StoreExpired,
     StoreRejected, loop
<1>2. ASSUME NEW o, Dispatch(o)
      PROVE  session'.disp = o /\ session'.req = session.req
  BY <1>2 DEF TypeOK, Dispatch
<1>3. ASSUME NEW d \in Device, NEW n \in NodeIds[d], OpenSession(d, n)
      PROVE  session'.disp = None
  BY <1>3 DEF OpenSession, NoSession
<1>4. ASSUME NEW o, EndSession(o) PROVE session'.disp = None
  BY <1>4 DEF EndSession, NoSession
<1>5. ASSUME Proceed(session) PROVE session' = session \/ session'.disp = None
  BY <1>5 DEF Proceed, NoSession
<1>6. CASE SysLocal
  BY <1>2, <1>3, <1>4, <1>5, <1>6
     DEF SysLocal, BeginPoll, ExpireKeep, StoreDuplicate, StorePending,
         SkipCandidate, CycleDone, DispatchExpired, ReadNothing, ApplySkipped,
         CompleteFailed, loop, TypeOK
<1>7. CASE SysDispatch
  BY <1>2, <1>7 DEF SysDispatch, DispatchOk, DispatchFailed
<1>8. CASE SysRead
  BY <1>8 DEF SysRead, ReadResult, TypeOK
<1>9. CASE SysEncode \/ SysApply \/ SysComplete
  BY <1>4, <1>5, <1>9 DEF SysEncode, Encode, SysApply, ApplyAcked, ApplyUnacked, SysComplete,
     CompleteSentAcked, CompleteSentUnacked, CompleteExpired
<1>10. CASE SysRestart \/ SysTick \/ SysProbe \/ UNCHANGED sysVars
  BY <1>10 DEF SysRestart, Restart, SysTick, Tick, SysProbe, ProbeStarts, ProbeFinishes,
     ProbeExpires, sysVars, vars, loop, NoSession
<1>11. CASE SysScans
  BY <1>11 DEF SysScans, SysBeginScan, StoreDone, SysScan, Scan
<1>12. QED
  BY <1>1, <1>6, <1>7, <1>8, <1>9, <1>10, <1>11 DEF SysNext, SysHub, SysScans

(* What is being written waits at the hub, is for the probe the session is *)
(* with, and is nothing odd.                                               *)
LEMMA WrittenIsSound ==
    ASSUME SysInv, pc = "write"
    PROVE  /\ session.req \in Command /\ session.req # None
           /\ NodeOf[session.req] = session.node
           /\ Created[session.req] <= now
           /\ Created[session.req] + ScanTime <= now
           /\ ~Odd(session.req)
<1>1. session.req \in Command /\ session.req # None
  BY DEF SysInv, Inv, TypeOK
<1>2. PICK i \in DOMAIN pending : IsFirstFor(i, session.node) /\ pending[i] = session.req
  BY <1>1 DEF SysInv, Inv, CompletesWhatWasWritten
<1>3. IsWaiting(session.req)
  BY <1>2 DEF IsWaiting, ToSet
<1>4. Canonical[session.req] # NotUuid
  BY DomainAssumption DEF SysInv, Encoded
<1>5. Created[session.req] + ScanTime <= now
  BY <1>1, <1>3 DEF SysInv, Aged, Scanned
<1>6. QED
  BY <1>1, <1>2, <1>3, <1>4, <1>5 DEF IsFirstFor, SysInv, Arrived, Dispatched, Odd

(* What a session takes to be written or expired stays so until it is      *)
(* settled (main.rs:234-271).                                              *)
LEMMA DispatchedStep ==
    ASSUME SysInv, [SysNext]_sysVars
    PROVE  Dispatched'
<1>1. [Next]_vars
  BY SysStepIsStep DEF SysInv
<1>2. ASSUME NEW c \in Command, IsWaiting(c)' PROVE ~IsRefused(c)
  BY <1>1, <1>2, WaitingStep DEF SysInv, Dispatched, StorePending
<1>3. \A c \in written' : ~Odd(c)
  BY WrittenStep, WrittenIsSound DEF SysInv, Dispatched
<1>4. now \in Nat /\ now' \in Nat /\ now <= now'
  BY <1>1, ClockStep DEF SysInv
<1>5. session.disp # None => session.req \in Command
  BY DEF SysInv, Inv, Stage, TypeOK
<1>6. session'.disp = "ok" => session'.req \in written'
  <2>1. written \subseteq written'
    BY WrittenStep
  <2>2. \/ session'.disp = session.disp /\ session'.req = session.req
        \/ session'.disp \in {None, "failed"}
        \/ session'.req = session.req /\ written' = written \cup {session.req}
        \/ session'.disp = "expired"
    BY SessionDispatch DEF SysInv, SysTypeOK
  <2>3. QED
    BY <1>5, <2>1, <2>2, DomainAssumption DEF SysInv, Dispatched
<1>7. session'.disp = "expired" => Expires[session'.req] <= now'
  <2>1. ASSUME session'.disp = "expired"
        PROVE  /\ session'.req = session.req /\ Expires[session.req] <= now
               /\ session.req \in Command
    BY <1>5, <2>1, SessionDispatch, DomainAssumption
       DEF SysInv, SysTypeOK, Dispatched, TypeOK
  <2>2. QED
    BY <1>4, <2>1, TimeAssumption
<1>8. QED
  BY <1>2, <1>3, <1>6, <1>7 DEF Dispatched, IsRefused

(* The motor is only ever started for the command a probe works on. *)
LEMMA StartsStep ==
    ASSUME SysTypeOK, [SysNext]_sysVars
    PROVE  \/ starts' = starts
           \/ \E d \in Device :
                /\ ProbeStarts(d) /\ active[d] \in Command
                /\ starts' = [starts EXCEPT ![active[d]] = @ + 1]
<1>1. CASE SysProbe
  BY <1>1 DEF SysProbe, ProbeStarts, ProbeFinishes, ProbeExpires, history, SysTypeOK
<1>2. QED
  BY <1>1, ProbeKinds DEF Accepted

(* Starts are counted, never taken back.                                   *)
LEMMA StartsGrow ==
    ASSUME SysTypeOK, [SysNext]_sysVars, NEW c \in Command
    PROVE  starts[c] \in Nat /\ starts'[c] \in Nat /\ starts[c] <= starts'[c]
BY StartsStep DEF SysTypeOK

(* A probe at work stays at a run of its own, within its time.             *)
LEMMA WorkingStep ==
    ASSUME SysInv, [SysNext]_sysVars
    PROVE  Working'
<1>1. SysTypeOK /\ Working
  BY DEF SysInv
<1>2. \A c \in Command : starts[c] \in Nat /\ starts[c] <= starts'[c] /\ starts'[c] \in Nat
  BY <1>1, StartsGrow
<1>3. CASE UNCHANGED <<probe, starts>>
  BY <1>1, <1>3 DEF Working, probe
<1>4. CASE Accepted
  <2>1. PICK d \in Device : Peer(d) /\ Accepts(d, session.req)
    BY <1>4 DEF Accepted
  <2>2. /\ session.req \in Command /\ session.req # None
        /\ NodeOf[session.req] \in NodeIds[d]
        /\ Canonical[session.req] \in Id
    BY <1>4, <2>1, WrittenIsSound DEF Accepted, Peer, SysInv, Encoded
  <2>3. now + payload.left <= Expires[session.req] + WriteTime
    <3>1. /\ payload.at \in Nat /\ payload.left \in Nat /\ now \in Nat
          /\ now <= payload.at + WriteTime
          /\ payload.at + payload.left <= Expires[session.req]
      BY <1>1, <1>4 DEF Accepted, SysInv, Encoded, SysTypeOK, TypeOK
    <3>2. WriteTime \in Nat /\ Expires[session.req] \in Nat
      BY <2>2, ExternalAssumption, TimeAssumption
    <3>3. QED
      BY <3>1, <3>2
  <2>4. running' = [running EXCEPT ![d] = FALSE] /\ starts' = starts
    BY <1>1, <1>4, <2>1, <2>2, AcceptedLeaves DEF Accepted
  <2>5. \/ /\ Action[session.req] = "run"
           /\ active' = [active EXCEPT ![d] = session.req]
           /\ deadline' = [deadline EXCEPT ![d] = now + payload.left]
        \/ /\ active' = [active EXCEPT ![d] = None]
           /\ deadline' = deadline
    BY <1>1, <2>1, <2>2, AcceptedLeaves
  <2>6. QED
    BY <1>1, <2>2, <2>3, <2>4, <2>5 DEF Working, SysTypeOK
<1>5. ASSUME NEW d \in Device, ProbeStarts(d) PROVE Working'
  <2>1. /\ active' = active /\ deadline' = deadline /\ active[d] # None
        /\ running' = [running EXCEPT ![d] = TRUE]
        /\ starts' = [starts EXCEPT ![active[d]] = @ + 1]
    BY <1>5 DEF ProbeStarts
  <2>2. active[d] \in Command /\ starts'[active[d]] > 0
    BY <1>1, <2>1 DEF SysTypeOK
  <2>3. ASSUME NEW e \in Device, active[e] # None, running'[e] PROVE starts'[active[e]] > 0
    <3>1. active[e] \in Command
      BY <1>1, <2>3 DEF SysTypeOK
    <3>2. CASE e = d
      BY <2>2, <3>2
    <3>3. CASE e # d
      BY <1>1, <1>2, <2>1, <2>3, <3>1, <3>3 DEF Working, SysTypeOK
    <3>4. QED
      BY <3>2, <3>3
  <2>4. QED
    BY <1>1, <2>1, <2>3 DEF Working
<1>6. ASSUME NEW d \in Device, ProbeFinishes(d) \/ ProbeExpires(d) PROVE Working'
  <2>1. /\ active' = [active EXCEPT ![d] = None]
        /\ deadline' = deadline /\ starts' = starts
        /\ \A e \in Device : running'[e] => running[e]
    BY <1>1, <1>6 DEF ProbeFinishes, ProbeExpires, history, SysTypeOK
  <2>2. QED
    BY <1>1, <2>1 DEF Working, SysTypeOK
<1>7. QED
  BY <1>1, <1>3, <1>4, <1>5, <1>6, ProbeKinds DEF SysProbe

(* Nothing is stored while a scan or a visit goes on, and time passes.     *)
LEMMA AgedStep ==
    ASSUME SysInv, [SysNext]_sysVars
    PROVE  Aged'
<1>1. [Next]_vars /\ TypeOK /\ SysTypeOK /\ Arrived /\ Aged
  BY SysStepIsStep DEF SysInv, SysTypeOK
<1>2. now \in Nat /\ now' \in Nat /\ now <= now' /\ ScanTime \in Nat
  BY <1>1, ClockStep, ExternalAssumption DEF SysInv
<1>3. ASSUME NEW c \in Command, IsWaiting(c)', pc' = "scan" \/ pc' \in Scanned
      PROVE  IsWaiting(c) /\ Created[c] <= now /\ Created[c] \in Nat
  <2>1. ~StorePending
    BY <1>3 DEF StorePending, Storing, loop, Scanned
  <2>2. IsWaiting(c)
    BY <1>1, <1>3, <2>1, WaitingStep DEF SysInv
  <2>3. QED
    BY <1>1, <2>2, TimeAssumption DEF Arrived
<1>4. CASE pc' = "scan" /\ began' = now /\ now' = now
  BY <1>2, <1>3, <1>4 DEF Aged, Scanned
<1>5. CASE pc' = "poll"
  BY <1>5 DEF Aged, Scanned
<1>6. CASE pc = "scan" /\ pc' = "cycle" /\ now >= began + ScanTime /\ now' = now
  <2>1. began \in Nat
    BY <1>1, <1>6 DEF SysTypeOK
  <2>2. ASSUME NEW c \in Command, IsWaiting(c)'
        PROVE  Created[c] + ScanTime <= now'
    <3>1. Created[c] <= began /\ Created[c] \in Nat
      BY <1>1, <1>3, <1>6, <2>2 DEF Aged, Scanned
    <3>2. QED
      BY <1>2, <1>6, <2>1, <3>1
  <2>3. QED
    BY <1>6, <2>2 DEF Aged, Scanned
<1>7. CASE pc = "scan" /\ pc' = "scan" /\ began' = began
  <2>1. began \in Nat /\ began <= now
    BY <1>1, <1>7 DEF SysTypeOK, Aged
  <2>2. began' <= now'
    BY <1>2, <1>7, <2>1
  <2>3. QED
    BY <1>1, <1>3, <1>7, <2>2 DEF Aged, Scanned
<1>8. CASE pc # "scan" /\ pc' # "scan" /\ (pc' \in Scanned => pc \in Scanned)
  <2>1. ASSUME NEW c \in Command, IsWaiting(c)', pc' \in Scanned
        PROVE  Created[c] + ScanTime <= now'
    <3>1. Created[c] + ScanTime <= now /\ Created[c] \in Nat
      BY <1>1, <1>3, <1>8, <2>1 DEF Aged
    <3>2. QED
      BY <1>2, <3>1
  <2>2. QED
    BY <1>8, <2>1 DEF Aged
<1>9. QED
  BY <1>1, <1>4, <1>5, <1>6, <1>7, <1>8, ScanKinds

----------------------------------------------------------------------------
(* At power-on nothing is on its way, and no motor turns.                  *)
LEMMA SysInvInit == SysInit => SysInv
<1> SUFFICES ASSUME SysInit PROVE SysInv
  OBVIOUS
<1>1. Init /\ Inv
  BY InvInit DEF SysInit
<1>2. Arrived
  BY <1>1 DEF Init, Arrived, IsWaiting, ToSet
<1>3. SysTypeOK
  BY <1>1 DEF SysInit, Init, Inv, SysTypeOK
<1>4. Encoded /\ Dispatched /\ Working /\ Aged
  BY <1>1, DomainAssumption
     DEF SysInit, Init, Encoded, Dispatched, Working, NoSession, IsWaiting, ToSet, Aged, Scanned
<1>5. QED
  BY <1>1, <1>2, <1>3, <1>4 DEF SysInv

(* Each side keeps what the others rely on.                                *)
LEMMA SysInvStep == SysInv /\ [SysNext]_sysVars => SysInv'
<1> SUFFICES ASSUME SysInv, [SysNext]_sysVars PROVE SysInv'
  OBVIOUS
<1>1. [Next]_vars
  BY SysStepIsStep DEF SysInv
<1>2. Inv'
  BY <1>1, TypeStep, StageStep, ProcessingStep, CompletesStep DEF SysInv, Inv
<1>3. Arrived'
  BY <1>1, ArrivedStep DEF SysInv
<1>4. SysTypeOK' /\ Encoded'
  BY SysTypeStep, EncodedStep DEF SysInv
<1>5. Dispatched' /\ Working' /\ Aged'
  BY DispatchedStep, WorkingStep, AgedStep
<1>6. QED
  BY <1>2, <1>3, <1>4, <1>5 DEF SysInv

(* At all times the payload, the session and the probes' work belong to    *)
(* commands that may act (ble.rs:371-502, config.rs:30-34).                *)
THEOREM SysInvCorrect == SysSpec => []SysInv
BY SysInvInit, SysInvStep, PTL DEF SysSpec

(* The state of the whole is well-typed, a payload is there exactly while  *)
(* it is written, and a motor that turns turns for a command.              *)
THEOREM SysTypeCorrect == SysSpec => []SysTypeOK
<1>1. SysInv => SysTypeOK
  BY DEF SysInv
<1>2. QED
  BY SysInvCorrect, <1>1, PTL

(* The hub among its backend and probes is the hub of CommandPoller, whose *)
(* environment is free: everything proved of that module holds here too.   *)
THEOREM SysImplementsPoller == SysSpec => Spec
<1>1. SysInit => Init
  BY DEF SysInit
<1>2. SysInv /\ [SysNext]_sysVars => [Next]_vars
  BY SysStepIsStep DEF SysInv
<1>3. QED
  BY SysInvCorrect, <1>1, <1>2, PTL DEF SysSpec, Spec

(* A motor that starts is started before the payload's time is over.       *)
LEMMA StartsBefore ==
    ASSUME SysInv, [SysNext]_sysVars, NEW c \in Command, starts'[c] # starts[c]
    PROVE  now < Expires[c] + WriteTime
<1>1. PICK d \in Device : /\ ProbeStarts(d) /\ active[d] \in Command
                          /\ starts' = [starts EXCEPT ![active[d]] = @ + 1]
  BY StartsStep DEF SysInv
<1>2. c = active[d]
  BY <1>1 DEF SysInv, SysTypeOK
<1>3. now < deadline[d] /\ deadline[d] <= Expires[c] + WriteTime
  BY <1>1, <1>2 DEF ProbeStarts, SysInv, Working
<1>4. now \in Nat /\ deadline[d] \in Nat /\ Expires[c] \in Nat /\ WriteTime \in Nat
  BY TimeAssumption, ExternalAssumption DEF SysInv, SysTypeOK, TypeOK
<1>5. QED
  BY <1>3, <1>4

(* No motor starts for a command later than the time of a write after its  *)
(* expires_at, however long the command waited, was leased or was retried. *)
THEOREM StartsInTimeCorrect == SysSpec => StartsInTime
<1> DEFINE A == \A c \in Command :
                  starts'[c] # starts[c] => now < Expires[c] + WriteTime
<1>1. SysInv /\ [SysNext]_sysVars => A
  BY StartsBefore
<1>2. SysInv /\ [SysNext]_sysVars => [A]_sysVars
  BY <1>1
<1>3. QED
  BY <1>2, SysInvCorrect, PTL DEF SysSpec, StartsInTime

----------------------------------------------------------------------------
(* Which results there are after a step: those there were, a report of a   *)
(* probe on the command it works on, and the success of a stop.            *)
LEMMA ResultKinds ==
    ASSUME SysInv, [SysNext]_sysVars, NEW r \in Results', r # None
    PROVE  \/ r \in Results
           \/ \E d \in Device : \E s \in {EXECUTING, SUCCEEDED, FAILED, EXPIRED} :
                 /\ active[d] \in Command /\ r = [id |-> Canonical[active[d]], status |-> s]
                 /\ s = EXECUTING => starts'[active[d]] > 0
                 /\ s \in {SUCCEEDED, FAILED} => starts[active[d]] > 0
                 /\ s = EXPIRED => deadline[d] <= now
           \/ /\ pc = "write" /\ Action[session.req] = "stop"
              /\ r = [id |-> Canonical[session.req], status |-> SUCCEEDED]
<1>1. SysTypeOK /\ Working /\ [Next]_vars
  BY SysStepIsStep DEF SysInv
<1>2. CASE r = session'.res
  <2>1. CASE session'.res = session.res
    BY <1>2, <2>1 DEF Results
  <2>2. CASE SysRead
    <3>1. PICK d \in Device : ReadResult(last[d])
      BY <2>2 DEF SysRead
    <3>2. session'.res = last[d]
      BY <1>1, <3>1 DEF ReadResult, SysTypeOK, TypeOK
    <3>3. QED
      BY <1>2, <3>2 DEF Results
  <2>3. ASSUME NEW t \in Result, ReadResult(t), ~SysRead PROVE FALSE
    <3>1. pc = "result" /\ pc' = "apply"
      BY <2>3 DEF ReadResult
    <3>2. ~(SysPull \/ SysExpire \/ SysStore \/ SysScans \/ SysEncode \/ SysDispatch \/ SysApply \/ SysComplete)
      BY <3>1 DEF SysPull, PullOk, PullFails, SysExpire, ExpireDrop, SysStore, StoreExpired,
         StoreRejected, Storing, SysScans, SysBeginScan, StoreDone, SysScan, Scan,
         SysEncode, Encode, SysDispatch, DispatchOk, DispatchFailed,
         SysApply, ApplyAcked, ApplyUnacked, SysComplete, CompleteSentAcked,
         CompleteSentUnacked, CompleteExpired, EndSession
    <3>3. ~(SysRestart \/ SysTick \/ SysProbe \/ UNCHANGED sysVars)
      BY <3>1 DEF SysRestart, Restart, SysTick, Tick, SysProbe, ProbeStarts, ProbeFinishes,
         ProbeExpires, sysVars, vars, loop
    <3>4. ~SysLocal
      BY <3>1 DEF SysLocal, BeginPoll, ExpireKeep, StoreDuplicate, StorePending,
         Storing, SkipCandidate, CycleDone, OpenSession, DispatchExpired, ReadNothing,
         Proceed, ApplySkipped, CompleteFailed, EndSession
    <3>5. QED
      BY <2>3, <3>2, <3>3, <3>4 DEF SysNext, SysHub, SysScans
  <2>4. QED
    BY <1>1, <1>2, <2>1, <2>2, <2>3, SessionResult DEF SysTypeOK
<1>3. CASE \E d \in Device : r = last'[d]
  <2>1. PICK d \in Device : r = last'[d]
    BY <1>3
  <2>2. CASE last'[d] = last[d]
    BY <2>1, <2>2 DEF Results
  <2>3. CASE Accepted
    <3>1. pc = "write" /\ session.req \in Command
      BY <2>3, WrittenIsSound DEF Accepted
    <3>2. PICK e \in Device : Accepts(e, session.req)
      BY <2>3 DEF Accepted
    <3>3. \/ last' = last
          \/ /\ Action[session.req] = "stop"
             /\ last' = [last EXCEPT ![e] = [id |-> Canonical[session.req], status |-> SUCCEEDED]]
      BY <1>1, <3>1, <3>2, AcceptedLeaves
    <3>4. QED
      BY <1>1, <2>1, <2>2, <3>1, <3>3 DEF SysTypeOK
  <2>4. ASSUME NEW e \in Device, ProbeStarts(e) \/ ProbeFinishes(e) \/ ProbeExpires(e),
               last'[d] # last[d]
        PROVE  /\ e = d /\ active[d] \in Command
               /\ \E s \in {EXECUTING, SUCCEEDED, FAILED, EXPIRED} :
                    /\ last'[d] = [id |-> Canonical[active[d]], status |-> s]
                    /\ s = EXECUTING => starts'[active[d]] > 0
                    /\ s \in {SUCCEEDED, FAILED} => starts[active[d]] > 0
                    /\ s = EXPIRED => deadline[d] <= now
    <3>1. e = d
      BY <1>1, <2>4 DEF ProbeStarts, ProbeFinishes, ProbeExpires, Report, SysTypeOK
    <3>2. active[d] # None /\ active[d] \in Command /\ starts[active[d]] \in Nat
      BY <1>1, <2>4, <3>1 DEF ProbeStarts, ProbeFinishes, ProbeExpires, SysTypeOK
    <3>3. CASE ProbeStarts(d)
      BY <1>1, <3>1, <3>2, <3>3 DEF ProbeStarts, Report, SysTypeOK, EXECUTING, SUCCEEDED, FAILED, EXPIRED
    <3>4. CASE ProbeFinishes(d)
      BY <1>1, <3>1, <3>2, <3>4
         DEF ProbeFinishes, Report, SysTypeOK, Working, EXECUTING, SUCCEEDED, FAILED, EXPIRED
    <3>5. CASE ProbeExpires(d)
      <4>1. now \in Nat /\ deadline[d] \in Nat
        BY <1>1 DEF SysTypeOK, TypeOK
      <4>2. QED
        BY <1>1, <3>1, <3>2, <3>5, <4>1
           DEF ProbeExpires, Report, SysTypeOK, EXECUTING, SUCCEEDED, FAILED, EXPIRED
    <3>6. QED
      BY <2>4, <3>1, <3>2, <3>3, <3>4, <3>5
  <2>5. CASE UNCHANGED probe
    BY <2>2, <2>5 DEF probe
  <2>6. QED
    BY <1>1, <2>1, <2>2, <2>3, <2>4, <2>5, ProbeKinds DEF SysProbe
<1>4. QED
  BY <1>2, <1>3 DEF Results

----------------------------------------------------------------------------
(* A status that is new with the backend is one the hub could tell it. *)
LEMMA NewlyAcked ==
    ASSUME SysTypeOK, Inv, [SysNext]_sysVars, NEW c \in Command, NEW s \in acked'[c]
    PROVE  s \in acked[c] \/ AckOf(c, s)
<1>1. CASE UNCHANGED acked
  BY <1>1
<1>2. CASE ~UNCHANGED acked
  <2>1. PICK id, t : AckOf(id, t) /\ Told(id, t)
    BY <1>2, AckKinds
  <2>2. acked'[c] = IF c = id THEN acked[c] \cup {t} ELSE acked[c]
    BY <2>1 DEF Told
  <2>3. QED
    BY <2>1, <2>2
<1>3. QED
  BY <1>1, <1>2

(* Nothing refused or unencodable gets anywhere (polling.rs:474-490,       *)
(* ble.rs:482-493).                                                        *)
LEMMA NothingOddStep ==
    ASSUME SysInv, NothingOdd, [SysNext]_sysVars
    PROVE  NothingOdd'
<1>1. SysTypeOK /\ Working /\ Dispatched /\ Inv
  BY DEF SysInv
<1>2. ASSUME NEW d \in Device, active[d] # None PROVE ~Odd(active[d]) /\ active[d] \in Command
  BY <1>1, <1>2, DomainAssumption DEF Working, SysTypeOK, Odd, IsRefused
<1>3. ASSUME NEW r \in Results', r # None, NEW c \in Command, r.id = c PROVE ~Odd(c)
  <2>1. CASE r \in Results
    BY <1>3, <2>1 DEF NothingOdd
  <2>2. ASSUME NEW d \in Device, NEW s, active[d] \in Command,
               r = [id |-> Canonical[active[d]], status |-> s]
        PROVE  ~Odd(c)
    <3>1. Canonical[active[d]] = c
      BY <1>3, <2>2
    <3>2. active[d] = c
      BY <2>2, <3>1, ExternalAssumption
    <3>3. active[d] # None
      BY <2>2, DomainAssumption
    <3>4. QED
      BY <1>2, <3>2, <3>3
  <2>3. ASSUME pc = "write", r = [id |-> Canonical[session.req], status |-> SUCCEEDED]
        PROVE  ~Odd(c)
    <3>1. session.req \in Command /\ ~Odd(session.req)
      BY <2>3, WrittenIsSound
    <3>2. session.req = c
      BY <1>3, <2>3, <3>1, ExternalAssumption
    <3>3. QED
      BY <3>1, <3>2
  <2>4. QED
    BY <1>3, <2>1, <2>2, <2>3, ResultKinds
<1>4. ASSUME NEW c \in Command, Odd(c) PROVE acked'[c] \subseteq {FAILED, EXPIRED}
  <2>1. acked[c] \subseteq {FAILED, EXPIRED}
    BY <1>4 DEF NothingOdd, RefusedIsNeverSent, Odd
  <2>2. ASSUME NEW s, AckOf(c, s) PROVE s \in {FAILED, EXPIRED}
    <3>1. CASE session.res # None /\ c = session.res.id
      <4>1. session.res \in Results
        BY DEF Results
      <4>2. QED
        BY <1>4, <2>2, <3>1, <4>1 DEF NothingOdd
    <3>2. CASE c = session.req /\ session.disp = "ok"
      BY <1>1, <1>4, <2>2, <3>2 DEF Dispatched
    <3>3. QED
      BY <2>2, <3>1, <3>2 DEF AckOf
  <2>3. QED
    BY <1>1, <2>1, <2>2, NewlyAcked
<1>5. ASSUME NEW c \in Command, Odd(c) PROVE starts'[c] = 0
  <2>1. starts[c] = 0
    BY <1>5 DEF NothingOdd, RefusedIsNeverSent, Odd
  <2>2. ASSUME NEW d \in Device, ProbeStarts(d), starts' = [starts EXCEPT ![active[d]] = @ + 1]
        PROVE  starts'[c] = starts[c]
    <3>1. active[d] # c
      BY <1>2, <1>5, <2>2 DEF ProbeStarts
    <3>2. QED
      BY <1>1, <2>2, <3>1 DEF SysTypeOK
  <2>3. QED
    BY <1>1, <2>1, <2>2, StartsStep
<1>6. \A c \in Command : Odd(c)' = Odd(c)
  BY DEF Odd, IsRefused
<1>7. RefusedIsNeverSent'
  BY <1>4, <1>5 DEF RefusedIsNeverSent, Odd, IsRefused
<1>8. QED
  BY <1>3, <1>6, <1>7 DEF NothingOdd

(* So it is at all times.                                                  *)
LEMMA NothingOddCorrect == SysSpec => []NothingOdd
<1>1. SysInit => NothingOdd
  <2> SUFFICES ASSUME SysInit PROVE NothingOdd
    OBVIOUS
  <2>1. Results \subseteq {None}
    BY DEF SysInit, Init, NoSession, Results
  <2>2. QED
    BY <2>1 DEF SysInit, NothingOdd, RefusedIsNeverSent
<1>2. SysInv /\ NothingOdd /\ [SysNext]_sysVars => NothingOdd'
  BY NothingOddStep
<1>3. QED
  BY <1>1, <1>2, SysInvCorrect, PTL DEF SysSpec

(* A command that is refused or cannot be encoded is never written or run, *)
(* and the backend hears nothing of it but FAILED and EXPIRED, although    *)
(* results of older commands are acknowledged in every session.            *)
THEOREM RefusedCorrect == SysSpec => []RefusedIsNeverSent
<1>1. NothingOdd => RefusedIsNeverSent
  BY DEF NothingOdd
<1>2. QED
  BY <1>1, NothingOddCorrect, PTL

----------------------------------------------------------------------------
(* The payload carries all of the time that is left, so a probe that waits *)
(* until it is over reports EXPIRED of a command that is expired.          *)
LEMMA ExactTtlStep ==
    ASSUME TtlFits, SysInv, ExactTtl, [SysNext]_sysVars
    PROVE  ExactTtl'
<1>1. SysTypeOK /\ Working /\ now \in Nat /\ TypeOK
  BY DEF SysInv, SysTypeOK, TypeOK
<1>2. pc' = "write" => payload'.at + payload'.left = Expires[session'.req]
  <2>1. CASE SysEncode
    <3>1. /\ pc = "dispatch" /\ session.req \in Command /\ now < Expires[session.req]
          /\ payload' = [at |-> now, left |-> RemainingExpiry(session.req)]
          /\ session' = session
      BY <1>1, <2>1, TimeAssumption DEF SysEncode, Encode, CanEncode, TypeOK
    <3>2. session.req # None
      BY <3>1, DomainAssumption
    <3>3. IsWaiting(session.req)
      BY <3>2 DEF SysInv, Inv, CompletesWhatWasWritten, IsWaiting, ToSet
    <3>4. Created[session.req] <= now /\ Expires[session.req] <= Created[session.req] + MaxTtl
      BY <3>1, <3>3 DEF SysInv, Arrived, TtlFits
    <3>5. Expires[session.req] <= now + MaxTtl
      BY <1>1, <3>1, <3>4, TimeAssumption, ExternalAssumption
    <3>6. QED
      BY <1>1, <3>1, <3>5, RemainingExpiryIs
  <2>2. QED
    BY <1>1, <2>1, WriteKinds DEF ExactTtl
<1>3. ASSUME NEW d \in Device, active'[d] # None PROVE Expires[active'[d]] <= deadline'[d]
  <2>1. CASE active'[d] = active[d] /\ deadline'[d] = deadline[d]
    BY <1>3, <2>1 DEF ExactTtl
  <2>2. CASE Accepted
    <3>1. pc = "write" /\ session.req \in Command /\ payload # None
      BY <2>2, WrittenIsSound DEF Accepted
    <3>2. PICK e \in Device : Accepts(e, session.req)
      BY <2>2 DEF Accepted
    <3>3. /\ payload.at + payload.left = Expires[session.req] /\ payload.at <= now
          /\ payload.at \in Nat /\ payload.left \in Nat
      BY <1>1, <3>1 DEF ExactTtl, SysInv, Encoded, SysTypeOK
    <3>4. Expires[session.req] <= now + payload.left
      BY <1>1, <3>1, <3>3, TimeAssumption
    <3>5. \/ /\ active' = [active EXCEPT ![e] = session.req]
             /\ deadline' = [deadline EXCEPT ![e] = now + payload.left]
          \/ active' = [active EXCEPT ![e] = None] /\ deadline' = deadline
      BY <1>1, <3>1, <3>2, AcceptedLeaves
    <3>6. QED
      BY <1>1, <1>3, <2>1, <3>4, <3>5 DEF SysTypeOK
  <2>3. CASE UNCHANGED probe
    BY <2>1, <2>3 DEF probe
  <2>4. CASE SysProbe
    <3>1. PICK e \in Device : ProbeStarts(e) \/ ProbeFinishes(e) \/ ProbeExpires(e)
      BY <2>4 DEF SysProbe
    <3>2. deadline' = deadline /\ (active' = active \/ active' = [active EXCEPT ![e] = None])
      BY <3>1 DEF ProbeStarts, ProbeFinishes, ProbeExpires
    <3>3. QED
      BY <1>1, <1>3, <2>1, <3>2 DEF SysTypeOK
  <2>5. QED
    BY <1>1, <2>2, <2>3, <2>4, ProbeKinds
<1>4. QED
  BY <1>2, <1>3 DEF ExactTtl

(* What was true stays true. *)
LEMMA TrueStays ==
    ASSUME SysInv, [SysNext]_sysVars, NEW c \in Command, NEW s, TrueOf(c, s)
    PROVE  TrueOf(c, s)'
<1>1. written \subseteq written'
  BY WrittenStep
<1>2. starts[c] \in Nat /\ starts'[c] \in Nat /\ starts[c] <= starts'[c]
  BY StartsGrow DEF SysInv
<1>3. now \in Nat /\ now' \in Nat /\ now <= now' /\ Expires[c] \in Nat
  BY SysStepIsStep, ClockStep, TimeAssumption DEF SysInv
<1>4. QED
  BY <1>1, <1>2, <1>3 DEF TrueOf

(* A result that waits on a probe, in a session or in an ack stays true of *)
(* its command.                                                            *)
LEMMA TruthStep ==
    ASSUME TtlFits, SysInv, Truth, [SysNext]_sysVars
    PROVE  Truth'
<1>1. SysTypeOK /\ Working /\ Dispatched /\ Inv /\ ExactTtl
  BY DEF SysInv, Truth
<1>2. /\ SENT = 3 /\ EXECUTING = 4 /\ SUCCEEDED = 5 /\ FAILED = 6 /\ EXPIRED = 7
  BY DEF SENT, EXECUTING, SUCCEEDED, FAILED, EXPIRED
<1>3. now \in Nat /\ now' \in Nat /\ now <= now'
  BY SysStepIsStep, ClockStep DEF SysInv
<1>4. ASSUME NEW r \in Results', r # None, NEW c \in Command, r.id = c, r.status # SENT
      PROVE  TrueOf(c, r.status)'
  <2>1. CASE r \in Results
    BY <1>4, <2>1, TrueStays DEF Truth
  <2>2. ASSUME NEW d \in Device, NEW s \in {EXECUTING, SUCCEEDED, FAILED, EXPIRED},
               active[d] \in Command, r = [id |-> Canonical[active[d]], status |-> s],
               s = EXECUTING => starts'[active[d]] > 0,
               s \in {SUCCEEDED, FAILED} => starts[active[d]] > 0,
               s = EXPIRED => deadline[d] <= now
        PROVE  TrueOf(c, r.status)'
    <3>1. active[d] = c /\ active[d] # None /\ r.status = s
      BY <1>4, <2>2, ExternalAssumption, DomainAssumption
    <3>2. starts[c] \in Nat /\ starts'[c] \in Nat /\ starts[c] <= starts'[c]
      BY <1>1, StartsGrow
    <3>3. s = EXPIRED => Expires[c] <= now'
      <4>1. Expires[c] <= deadline[d] /\ Expires[c] \in Nat /\ deadline[d] \in Nat
        BY <1>1, <3>1, TimeAssumption DEF ExactTtl, SysTypeOK
      <4>2. QED
        BY <1>3, <2>2, <4>1
    <3>4. QED
      BY <1>2, <2>2, <3>1, <3>2, <3>3 DEF TrueOf
  <2>3. ASSUME pc = "write", Action[session.req] = "stop",
               r = [id |-> Canonical[session.req], status |-> SUCCEEDED]
        PROVE  TrueOf(c, r.status)'
    <3>1. session.req = c /\ r.status = SUCCEEDED
      BY <1>4, <2>3, WrittenIsSound, ExternalAssumption
    <3>2. QED
      BY <1>2, <2>3, <3>1 DEF TrueOf
  <2>4. QED
    BY <1>4, <2>1, <2>2, <2>3, ResultKinds
<1>5. ASSUME NEW c \in Command, NEW s \in acked'[c] PROVE TrueOf(c, s)'
  <2>1. CASE s \in acked[c]
    BY <2>1, TrueStays DEF Truth
  <2>2. ASSUME AckOf(c, s) PROVE TrueOf(c, s)
    <3>1. CASE session.res # None /\ c = session.res.id /\ s = session.res.status /\ s \in Reported
      <4>1. session.res \in Results /\ s # SENT
        BY <1>2, <3>1 DEF Results, Reported
      <4>2. QED
        BY <3>1, <4>1 DEF Truth
    <3>2. CASE IsExpired(c) /\ s = EXPIRED
      BY <1>2, <3>2 DEF TrueOf, IsExpired
    <3>3. CASE IsRefused(c) /\ s = FAILED
      BY <1>2, <3>3 DEF TrueOf, IsRefused
    <3>4. CASE c = session.req /\ (\/ session.disp = "ok" /\ s = SENT
                                   \/ session.disp = "expired" /\ s = EXPIRED)
      BY <1>1, <1>2, <3>4 DEF TrueOf, Dispatched
    <3>5. QED
      BY <2>2, <3>1, <3>2, <3>3, <3>4 DEF AckOf
  <2>3. s \in acked[c] \/ AckOf(c, s)
    BY <1>1, NewlyAcked
  <2>4. QED
    BY <2>1, <2>2, <2>3, TrueStays
<1>6. QED
  BY <1>4, <1>5, ExactTtlStep DEF Truth

(* So it is at all times, if times to live fit into a payload.             *)
LEMMA TruthCorrect == ASSUME TtlFits PROVE SysSpec => []Truth
<1>1. SysInit => Truth
  <2> SUFFICES ASSUME SysInit PROVE Truth
    OBVIOUS
  <2>1. Results \subseteq {None}
    BY DEF SysInit, Init, NoSession, Results
  <2>2. QED
    BY <2>1 DEF SysInit, Init, Truth, ExactTtl
<1>2. SysInv /\ Truth /\ [SysNext]_sysVars => Truth'
  BY TruthStep
<1>3. QED
  BY <1>1, <1>2, SysInvCorrect, PTL DEF SysSpec

(* As long as the time a command has to live fits into a payload, what the *)
(* backend is told is true, in whatever session a result is read and       *)
(* whatever acks and confirmations get lost.                               *)
THEOREM AcksCorrect == ASSUME TtlFits PROVE SysSpec => []AcksAreTrue
<1>1. Truth => AcksAreTrue
  BY DEF Truth, AcksAreTrue, TrueOf
<1>2. QED
  BY <1>1, TruthCorrect, PTL

----------------------------------------------------------------------------
(* What a probe has remembered it goes on remembering, at a later time or  *)
(* the same.                                                               *)
LEMMA RememberedStays ==
    ASSUME SysInv, [SysNext]_sysVars, NEW d \in Device, NEW c \in Command, Remembered(d, c)
    PROVE  Remembered(d, c)'
<1>1. SysTypeOK /\ now \in Nat /\ Created[c] \in Nat /\ ScanTime \in Nat
  BY TimeAssumption, ExternalAssumption DEF SysInv, SysTypeOK, TypeOK
<1>2. CASE seen' = seen
  BY <1>2 DEF Remembered
<1>3. CASE Accepted
  <2>1. PICK e \in Device : Accepts(e, session.req)
    BY <1>3 DEF Accepted
  <2>2. session.req \in Command
    BY <1>3, WrittenIsSound DEF Accepted
  <2>3. /\ seen' = [seen EXCEPT ![e] = seen'[e]]
        /\ DOMAIN seen'[e] = DOMAIN seen[e] \cup {Canonical[session.req]}
        /\ \A i \in DOMAIN seen'[e] :
              seen'[e][i] = IF i = Canonical[session.req] THEN now ELSE seen[e][i]
    BY <1>1, <2>1, <2>2, AcceptedLeaves
  <2>4. CASE d = e
    <3>1. Canonical[c] \in DOMAIN seen[d] /\ Created[c] + ScanTime <= seen[d][Canonical[c]]
      BY DEF Remembered
    <3>2. seen[d][Canonical[c]] \in Nat /\ seen[d][Canonical[c]] <= now
      BY <1>1, <3>1 DEF SysTypeOK
    <3>3. Created[c] + ScanTime <= now
      BY <1>1, <3>1, <3>2
    <3>4. QED
      BY <2>3, <2>4, <3>1, <3>3 DEF Remembered
  <2>5. CASE d # e
    <3>1. seen'[d] = seen[d]
      BY <1>1, <2>3, <2>5 DEF SysTypeOK
    <3>2. QED
      BY <3>1 DEF Remembered
  <2>6. QED
    BY <2>4, <2>5
<1>4. CASE SysProbe
  BY <1>2, <1>4 DEF SysProbe, ProbeStarts, ProbeFinishes, ProbeExpires
<1>5. QED
  BY <1>1, <1>2, <1>3, <1>4, ProbeKinds DEF probe

(* A probe does not accept a command it has started: the command's write   *)
(* was begun before it expired, so the probe, which got it no earlier than *)
(* a scan after its creation, has not forgotten its id.                    *)
LEMMA StartedIsIgnored ==
    ASSUME TtlLeavesWriteTime, SysInv, pc = "write", NEW d \in Device,
           Accepts(d, session.req)
    PROVE  ~Remembered(d, session.req)
<1> SUFFICES ASSUME Remembered(d, session.req) PROVE FALSE
  OBVIOUS
<1>1. session.req \in Command
  BY WrittenIsSound
<1> DEFINE t == seen[d][Canonical[session.req]]
<1>2. /\ Canonical[session.req] \in DOMAIN seen[d]
      /\ Created[session.req] + ScanTime <= t
  BY DEF Remembered
<1>3. t \in Nat /\ now \in Nat /\ payload.at \in Nat
  BY <1>2 DEF SysInv, SysTypeOK, TypeOK
<1>4. payload.at < Expires[session.req] /\ now <= payload.at + WriteTime
  BY DEF SysInv, Encoded
<1>5. Expires[session.req] + WriteTime <= Created[session.req] + ScanTime + Retention + 1
  BY <1>1 DEF TtlLeavesWriteTime
<1>6. /\ Expires[session.req] \in Nat /\ Created[session.req] \in Nat
      /\ Retention \in Nat /\ WriteTime \in Nat /\ ScanTime \in Nat
  BY <1>1, TimeAssumption, ExternalAssumption
<1>7. now - t <= Retention
  <2> HIDE DEF t
  <2>1. now + 1 <= Expires[session.req] + WriteTime
    BY <1>3, <1>4, <1>6
  <2>2. now <= t + Retention
    BY <1>2, <1>3, <1>5, <1>6, <2>1
  <2>3. QED
    BY <1>3, <1>6, <2>2
<1>8. Ignored(d, session.req)
  BY <1>2, <1>7 DEF Ignored, Remembers
<1>9. QED
  BY <1>8 DEF Accepts

(* What was started is remembered until no payload of it can arrive        *)
(* (config.rs:30-34).                                                      *)
LEMMA StartsInvStep ==
    ASSUME TtlLeavesWriteTime, SysInv, StartsInv, [SysNext]_sysVars
    PROVE  StartsInv'
<1>1. SysTypeOK /\ Working
  BY DEF SysInv
<1>2. CASE UNCHANGED <<probe, starts>>
  BY <1>2 DEF StartsInv, Remembered, StartsAtMostOnce, probe
<1>3. CASE Accepted
  <2>1. /\ pc = "write" /\ starts' = starts /\ now' = now
        /\ session.req \in Command /\ session.req # None
        /\ NodeOf[session.req] = session.node /\ Created[session.req] + ScanTime <= now
    BY <1>3, WrittenIsSound DEF Accepted
  <2>2. PICK d \in Device : Peer(d) /\ Accepts(d, session.req)
    BY <1>3 DEF Accepted
  <2>3. \A c \in Command : \A e \in Device :
           NodeOf[c] \in NodeIds[e] /\ starts'[c] > 0 => Remembered(e, c)'
    BY <2>1, RememberedStays DEF StartsInv
  <2>4. StartsAtMostOnce'
    BY <2>1 DEF StartsInv, StartsAtMostOnce
  <2>5. starts[session.req] = 0
    <3>1. starts[session.req] \in Nat
      BY <1>1, <2>1 DEF SysTypeOK
    <3>2. ~(starts[session.req] > 0)
      BY <2>1, <2>2, StartedIsIgnored DEF StartsInv, Peer
    <3>3. QED
      BY <3>1, <3>2
  <2>6. /\ Canonical[session.req] \in DOMAIN seen'[d]
        /\ Created[session.req] + ScanTime <= seen'[d][Canonical[session.req]]
    BY <1>1, <2>1, <2>2, AcceptedLeaves
  <2>7. active' = [active EXCEPT ![d] = session.req] \/ active' = [active EXCEPT ![d] = None]
    BY <1>1, <2>1, <2>2, AcceptedLeaves
  <2>8. running' = [running EXCEPT ![d] = FALSE]
    BY <1>1, <2>1, <2>2, AcceptedLeaves
  <2>9. ASSUME NEW e \in Device, active'[e] # None
        PROVE  Remembered(e, active[e])' /\ (~running'[e] => starts'[active'[e]] = 0)
    <3>1. CASE e = d
      <4>1. active'[e] = session.req
        BY <1>1, <2>7, <2>9, <3>1 DEF SysTypeOK
      <4>2. QED
        BY <2>1, <2>5, <2>6, <3>1, <4>1 DEF Remembered
    <3>2. CASE e # d
      <4>1. active'[e] = active[e] /\ running'[e] = running[e]
        BY <1>1, <2>7, <2>8, <3>2 DEF SysTypeOK
      <4>2. active[e] \in Command /\ active[e] # None
        BY <1>1, <2>9, <4>1 DEF SysTypeOK
      <4>3. Remembered(e, active[e]) /\ (~running[e] => starts[active[e]] = 0)
        BY <4>2 DEF StartsInv
      <4>4. /\ Canonical[active[e]] \in DOMAIN seen'[e]
            /\ Created[active[e]] + ScanTime <= seen'[e][Canonical[active[e]]]
        BY <4>2, <4>3, RememberedStays DEF Remembered
      <4>5. QED
        BY <2>1, <4>1, <4>3, <4>4 DEF Remembered
    <3>3. QED
      BY <3>1, <3>2
  <2>10. QED
    BY <2>3, <2>4, <2>9 DEF StartsInv
<1>4. ASSUME NEW d \in Device, ProbeStarts(d) PROVE StartsInv'
  <2>1. /\ active' = active /\ seen' = seen /\ active[d] # None /\ ~running[d]
        /\ running' = [running EXCEPT ![d] = TRUE]
        /\ starts' = [starts EXCEPT ![active[d]] = @ + 1]
    BY <1>4 DEF ProbeStarts
  <2>2. active[d] \in Command /\ NodeOf[active[d]] \in NodeIds[d]
    BY <1>1, <2>1 DEF SysTypeOK, Working
  <2>3. starts[active[d]] = 0 /\ Remembered(d, active[d])
    BY <2>1 DEF StartsInv
  <2>4. \A c \in Command : starts'[c] = IF c = active[d] THEN 1 ELSE starts[c]
    BY <1>1, <2>1, <2>2, <2>3 DEF SysTypeOK
  <2>5. ASSUME NEW e \in Device, NodeOf[active[d]] \in NodeIds[e] PROVE e = d
    BY <2>2, <2>5, ExternalAssumption
  <2>6. \A c \in Command : \A e \in Device :
           NodeOf[c] \in NodeIds[e] /\ starts'[c] > 0 => Remembered(e, c)'
    <3> SUFFICES ASSUME NEW c \in Command, NEW e \in Device,
                        NodeOf[c] \in NodeIds[e], starts'[c] > 0
                 PROVE  Remembered(e, c)
      BY <2>1 DEF Remembered
    <3>1. CASE c = active[d]
      BY <2>3, <2>5, <3>1
    <3>2. CASE c # active[d]
      BY <2>4, <3>2 DEF StartsInv
    <3>3. QED
      BY <3>1, <3>2
  <2>7. ASSUME NEW e \in Device, active[e] # None
        PROVE  Remembered(e, active[e])' /\ (~running'[e] => starts'[active[e]] = 0)
    <3>1. Remembered(e, active[e]) /\ (~running[e] => starts[active[e]] = 0)
      BY <2>7 DEF StartsInv
    <3>2. Remembered(e, active[e])'
      BY <2>1, <3>1 DEF Remembered
    <3>3. CASE e = d
      BY <1>1, <2>1, <3>2, <3>3 DEF SysTypeOK
    <3>4. CASE e # d
      <4>1. active[e] \in Command /\ NodeOf[active[e]] \in NodeIds[e]
        BY <1>1, <2>7 DEF SysTypeOK, Working
      <4>2. active[e] # active[d]
        BY <2>5, <3>4, <4>1
      <4>3. running'[e] = running[e]
        BY <1>1, <2>1, <3>4 DEF SysTypeOK
      <4>4. QED
        BY <2>4, <3>1, <3>2, <4>1, <4>2, <4>3
    <3>5. QED
      BY <3>3, <3>4
  <2>8. StartsAtMostOnce'
    BY <2>4 DEF StartsInv, StartsAtMostOnce
  <2>9. QED
    BY <2>1, <2>6, <2>7, <2>8 DEF StartsInv
<1>5. ASSUME NEW d \in Device, ProbeFinishes(d) \/ ProbeExpires(d) PROVE StartsInv'
  <2>1. /\ active' = [active EXCEPT ![d] = None] /\ seen' = seen /\ starts' = starts
        /\ \A e \in Device : e # d => running'[e] = running[e]
    BY <1>1, <1>5 DEF ProbeFinishes, ProbeExpires, history, SysTypeOK
  <2>2. \A e \in Device : active'[e] # None => e # d /\ active'[e] = active[e]
    BY <1>1, <2>1 DEF SysTypeOK
  <2>3. QED
    BY <2>1, <2>2 DEF StartsInv, Remembered, StartsAtMostOnce
<1>6. QED
  BY <1>1, <1>2, <1>3, <1>4, <1>5, ProbeKinds DEF SysProbe

(* So it is at all times, if a write's time is left before the probe       *)
(* forgets.                                                                *)
LEMMA StartsInvCorrect == ASSUME TtlLeavesWriteTime PROVE SysSpec => []StartsInv
<1>1. SysInit => StartsInv
  BY DEF SysInit, StartsInv, StartsAtMostOnce
<1>2. SysInv /\ StartsInv /\ [SysNext]_sysVars => StartsInv'
  BY StartsInvStep
<1>3. QED
  BY <1>1, <1>2, SysInvCorrect, PTL DEF SysSpec

(* If every command expires early enough for a write that was begun before *)
(* to be over before the probe forgets the id, as the defaults do, the     *)
(* motor is started at most once for a command, whatever is lost,          *)
(* repeated, leased again or forgotten in a restart.                       *)
THEOREM StartsAtMostOnceCorrect ==
    ASSUME TtlLeavesWriteTime PROVE SysSpec => []StartsAtMostOnce
<1>1. StartsInv => StartsAtMostOnce
  BY DEF StartsInv
<1>2. QED
  BY <1>1, StartsInvCorrect, PTL


----------------------------------------------------------------------------
(* The refinement: what an onlooker sees changes one piece at a time.      *)
LEMMA OneAtATime ==
    ASSUME [SysNext]_sysVars
    PROVE  \/ UNCHANGED <<now, written, starts>>
           \/ UNCHANGED <<now, written, acked>>
           \/ UNCHANGED <<now, starts, acked>>
           \/ now' = now + 1 /\ UNCHANGED <<written, starts, acked>>
<1>1. CASE SysPull \/ SysExpire \/ SysStore
  BY <1>1 DEF SysPull, SysExpire, SysStore, PullOk, PullFails, ExpireDrop, StoreExpired,
     StoreRejected, history
<1>2. CASE SysLocal
  BY <1>2 DEF SysLocal, BeginPoll, ExpireKeep, StoreDuplicate, StorePending,
     SkipCandidate, CycleDone, OpenSession, DispatchExpired, Dispatch, ReadNothing,
     ApplySkipped, CompleteFailed, EndSession, Outside, history
<1>3. CASE SysEncode \/ SysRead
  BY <1>3 DEF SysEncode, Encode, SysRead, ReadResult, Outside, history
<1>4. CASE SysApply \/ SysComplete
  BY <1>4 DEF SysApply, SysComplete, ApplyAcked, ApplyUnacked, CompleteSentAcked,
     CompleteSentUnacked, CompleteExpired, EndSession, history
<1>5. CASE SysDispatch
  BY <1>5 DEF SysDispatch, DispatchOk, DispatchFailed, Dispatch, history, backend
<1>6. CASE SysRestart \/ SysTick
  BY <1>6 DEF SysRestart, SysTick, Restart, Tick, Outside, history, backend
<1>7. CASE SysProbe \/ UNCHANGED sysVars
  BY <1>7 DEF SysProbe, ProbeStarts, ProbeFinishes, ProbeExpires, sysVars, vars, history,
     backend
<1>8. CASE SysScans
  BY <1>8 DEF SysScans, SysBeginScan, StoreDone, SysScan, Scan, history, backend
<1>9. QED
  BY <1>1, <1>2, <1>3, <1>4, <1>5, <1>6, <1>7, <1>8 DEF SysNext, SysHub, SysScans

(* What a step of the system is to the onlooker.                           *)
LEMMA PromiseStep ==
    ASSUME SysInv, Truth, Truth', NothingOdd', StartsInv, StartsInv', SysInv',
           [SysNext]_sysVars
    PROVE  [Promise!Next]_Promise!vars
<1>0. SysTypeOK /\ Inv /\ now \in Nat /\ SysTypeOK'
  BY DEF SysInv, SysTypeOK, TypeOK
<1>1. CASE now' = now + 1 /\ UNCHANGED <<written, starts, acked>>
  BY <1>1 DEF Promise!Next, Promise!TimePasses
<1>2. ASSUME UNCHANGED <<now, written, acked>>, starts' # starts
      PROVE  \E c \in Command : Promise!Start(c)
  <2>1. PICK d \in Device : /\ ProbeStarts(d) /\ active[d] \in Command
                            /\ starts' = [starts EXCEPT ![active[d]] = @ + 1]
    BY <1>0, <1>2, StartsStep
  <2> DEFINE c == active[d]
  <2>2. active[d] # None /\ ~running[d]
    BY <2>1 DEF ProbeStarts
  <2>3. Action[c] = "run" /\ Remembered(d, c) /\ starts[c] = 0
    BY <2>2 DEF SysInv, Working, StartsInv
  <2>4. starts' = [starts EXCEPT ![c] = 1] /\ starts'[c] = 1
    BY <1>0, <2>1, <2>3 DEF SysTypeOK
  <2>5. ~IsRefused(c) /\ Canonical[c] # NotUuid
    BY <2>1, <2>4 DEF NothingOdd, RefusedIsNeverSent
  <2>6. Created[c] <= now
    <3>1. seen[d][Canonical[c]] \in 0..now /\ Created[c] + ScanTime <= seen[d][Canonical[c]]
      BY <1>0, <2>3 DEF Remembered, SysTypeOK
    <3>2. Created[c] \in Nat /\ ScanTime \in Nat
      BY <2>1, TimeAssumption, ExternalAssumption
    <3>3. QED
      BY <1>0, <3>1, <3>2
  <2>7. now < Expires[c] + WriteTime
    BY <2>1, <2>3, <2>4, StartsBefore
  <2>8. Promise!Start(c)
    BY <1>2, <2>1, <2>3, <2>4, <2>5, <2>6, <2>7 DEF Promise!Start, Promise!InTime
  <2>9. QED
    BY <2>1, <2>8
<1>3. ASSUME UNCHANGED <<now, starts, acked>>, written' # written
      PROVE  \E c \in Command : Promise!Give(c)
  <2>1. pc = "write" /\ written' = written \cup {session.req}
    BY <1>3, WrittenStep
  <2>2. /\ session.req \in Command /\ Created[session.req] <= now
        /\ ~IsRefused(session.req) /\ Canonical[session.req] # NotUuid
    BY <2>1, WrittenIsSound DEF Odd
  <2>3. now < Expires[session.req] + WriteTime
    <3>1. payload.at < Expires[session.req] /\ now <= payload.at + WriteTime
      BY <2>1 DEF SysInv, Encoded
    <3>2. payload.at \in Nat /\ Expires[session.req] \in Nat /\ WriteTime \in Nat
      BY <1>0, <2>1, <2>2, TimeAssumption, ExternalAssumption DEF SysTypeOK
    <3>3. QED
      BY <1>0, <3>1, <3>2
  <2>4. Promise!Give(session.req)
    BY <1>3, <2>1, <2>2, <2>3 DEF Promise!Give, Promise!InTime
  <2>5. QED
    BY <2>2, <2>4
<1>4. ASSUME UNCHANGED <<now, written, starts>>, acked' # acked
      PROVE  \E c \in Command : \E s \in {SENT, EXECUTING, SUCCEEDED, FAILED, EXPIRED} :
                Promise!Tell(c, s)
  <2>1. PICK c, s : AckOf(c, s) /\ Told(c, s)
    BY <1>0, <1>4, AckKinds
  <2>2. c \in Command
    BY <1>0, <1>4, <2>1 DEF Told, SysTypeOK
  <2>3. acked' = [acked EXCEPT ![c] = @ \cup {s}]
    BY <1>0, <2>1, <2>2 DEF Told, SysTypeOK
  <2>4. s \in acked'[c]
    BY <1>0, <2>2, <2>3 DEF SysTypeOK
  <2>5. s \in {SENT, EXECUTING, SUCCEEDED, FAILED, EXPIRED}
    BY <1>0, <2>2, <2>4 DEF SysTypeOK
  <2>6. TrueOf(c, s)
    BY <1>4, <2>2, <2>4 DEF Truth, TrueOf
  <2>7. s = SUCCEEDED => ~IsRefused(c) /\ Canonical[c] # NotUuid
    BY <2>2, <2>4 DEF NothingOdd, RefusedIsNeverSent, SUCCEEDED, FAILED, EXPIRED
  <2>8. Promise!IsTrue(c, s)
    BY <2>2, <2>6, <2>7 DEF TrueOf, Promise!IsTrue
  <2>9. Promise!Tell(c, s)
    BY <1>4, <2>3, <2>8 DEF Promise!Tell
  <2>10. QED
    BY <2>2, <2>5, <2>9
<1>5. QED
  BY <1>1, <1>2, <1>3, <1>4, OneAtATime DEF Promise!Next, Promise!vars

(* If times to live fit into a payload, and leave the time of a write      *)
(* before the probe forgets, the system keeps MotorPromise: however        *)
(* queues, leases, sessions, losses and restarts interleave, an onlooker   *)
(* sees each command act at most once, in its time, and nothing false told *)
(* of it.                                                                  *)
THEOREM PromiseCorrect ==
    ASSUME TtlFits, TtlLeavesWriteTime PROVE SysSpec => KeepsPromise
<1>1. SysInit => Promise!Init
  BY DEF SysInit, Init, Promise!Init
<1>2. SysInv /\ SysInv' /\ Truth /\ Truth' /\ NothingOdd' /\ StartsInv /\ StartsInv'
        /\ [SysNext]_sysVars => [Promise!Next]_Promise!vars
  BY PromiseStep
<1>3. QED
  BY <1>1, <1>2, SysInvCorrect, TruthCorrect, NothingOddCorrect, StartsInvCorrect, PTL
     DEF SysSpec, KeepsPromise, Promise!Spec
============================================================================

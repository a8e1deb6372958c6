--------------------------- MODULE CommandPoller ---------------------------
(***************************************************************************)
(* The hub's motor-command poller (src/src/polling.rs) together with the   *)
(* main loop that drives it (src/src/main.rs): one thread that polls the   *)
(* backend, scans for probes, and holds one BLE session per probe it finds.*)
(*                                                                         *)
(* The environment is open: the backend may hand out any command that      *)
(* already exists, any RPC may fail, a probe may report any result.  The   *)
(* module MotorControl closes it with a backend and probes.                *)
(*                                                                         *)
(* One step is one piece of the thread's work that ends in a radio or      *)
(* network operation; the clock may advance between any two of them.       *)
(***************************************************************************)
EXTENDS Integers, Sequences, SequencesExt, Functions

CONSTANTS
    Command,    \* command ids, as the backend spells them
    Id,         \* every command id the hub can hold: Command and canonical UUIDs
    NotUuid,    \* what Canonical maps a command id that is no UUID to
    Canonical,  \* the id the probe's result reads back as, for each command
    Device,     \* the probes a scan may find
    Node,       \* node ids (probe UUIDs, or the BLE address standing in for one)
    NodeIds,    \* the node ids a device may be read under
    NodeOf,     \* the node a command is for
    Action,     \* "run", "negative" (run with a negative duration), "stop", "unknown"
    Created,    \* when the backend created a command
    Expires,    \* its expires_at; 0 stands for every value that is not positive
    Status,     \* status bytes a probe may report
    Retention,  \* MOTOR_COMMAND_DUPLICATE_RETENTION_MS
    BatchSize,  \* MOTOR_COMMAND_POLL_BATCH_SIZE
    MaxTime,    \* bound on the clock
    None

ASSUME DomainAssumption ==
    /\ Command \subseteq Id
    /\ NotUuid \notin Id
    /\ Canonical \in [Command -> Id \cup {NotUuid}]
    /\ NodeIds \in [Device -> SUBSET Node]
    /\ NodeOf \in [Command -> Node]
    /\ Action \in [Command -> {"run", "negative", "stop", "unknown"}]
    /\ None \notin Id \cup Node \cup {NotUuid} \cup [id : Id, status : Status]
    /\ None \notin {"ok", "expired", "failed"}

ASSUME TimeAssumption ==
    /\ Created \in [Command -> Nat]
    /\ Expires \in [Command -> Nat]
    /\ Status \subseteq Nat
    /\ Retention \in Nat
    /\ BatchSize \in Nat
    /\ MaxTime \in Nat

VARIABLES
    now,        \* the hub's clock
    pc,         \* where the main loop is
    pending,    \* CommandPoller.pending
    expiring,   \* what expire_pending_commands still has to look at
    pulled,     \* what poll_once still has to store
    processing, \* CommandDedupSet.processing
    processed,  \* CommandDedupSet.processed: id |-> when it was finished
    applied,    \* CommandPoller.applied_probe_results
    todo,       \* candidates of this cycle not visited yet
    session     \* the BLE session in progress

poller == <<pending, expiring, pulled, processing, processed, applied>>
loop == <<pc, todo, session>>
vars == <<now, pc, pending, expiring, pulled, processing, processed, applied,
          todo, session>>

----------------------------------------------------------------------------
(* A probe's last motor result, after expand_command_id. *)
Result == [id : Id, status : Status]

IsTerminal(r) == r # None /\ r.status \in 5..7

(* The status bytes apply_probe_motor_result acts on. *)
Reported == 4..7

NoSession == [node |-> None, req |-> None, disp |-> None, res |-> None]

IsExpired(c) == Expires[c] > 0 /\ Expires[c] <= now

(* Commands store_polled_command turns down, by parse_command_action.       *)
IsRefused(c) == Action[c] \in {"negative", "unknown"}

(* CommandDedupSet: the finished ids prune() keeps, and finish_processed,  *)
(* which is called with the ids begun in progress.                         *)
Recent == {i \in DOMAIN processed : now - processed[i] <= Retention}

Prune == processed' = [i \in Recent |-> processed[i]]

(* Faulty: the time to forget is stored where the time seen is read. *)
FinishProcessed_StampsForgetTime(begun, id) ==
    /\ processing' = begun \ {id}
    /\ processed' = [i \in Recent \cup {id} |->
                        IF i = id THEN now + Retention ELSE processed[i]]

FinishProcessed(begun, id) ==
    /\ processing' = begun \ {id}
    /\ processed' = [i \in Recent \cup {id} |->
                        IF i = id THEN now ELSE processed[i]]

(* Faulty: finished ids are not looked up. *)
IsNew_ForgetsFinished(c) == c \notin processing

(* try_begin answers New, and takes the id among those in progress.        *)
IsNew(c) == c \notin Recent /\ c \notin processing

TryBegin(c) == processing \cup {c}

(* peek_pending_for_probe_uuid: position i holds the first command for n. *)
IsFirstFor(i, n) ==
    /\ NodeOf[pending[i]] = n
    /\ \A j \in 1..(i-1) : NodeOf[pending[j]] # n

NoneFor(n) == \A i \in DOMAIN pending : NodeOf[pending[i]] # n

----------------------------------------------------------------------------
Init ==
    /\ now = 0
    /\ pc = "poll"
    /\ pending = <<>> /\ expiring = <<>> /\ pulled = <<>>
    /\ processing = {}
    /\ processed = [i \in {} |-> 0]
    /\ applied = {}
    /\ todo = {}
    /\ session = NoSession

Tick ==
    /\ now < MaxTime
    /\ now' = now + 1
    /\ UNCHANGED <<poller, loop>>

(* The hub loses power or panics: everything above lives in RAM. *)
Restart ==
    /\ pc' = "poll"
    /\ pending' = <<>> /\ expiring' = <<>> /\ pulled' = <<>>
    /\ processing' = {}
    /\ processed' = [i \in {} |-> 0]
    /\ applied' = {}
    /\ todo' = {}
    /\ session' = NoSession
    /\ UNCHANGED now

----------------------------------------------------------------------------
(* poll_once *)

(* expire_pending_commands takes the whole list, then puts back what lives. *)
BeginPoll ==
    /\ pc = "poll"
    /\ pc' = "expire"
    /\ expiring' = pending
    /\ pending' = <<>>
    /\ UNCHANGED <<now, pulled, processing, processed, applied, todo, session>>

(* An expired command is acknowledged EXPIRED, whatever becomes of the ack. *)
ExpireDrop ==
    /\ pc = "expire" /\ expiring # <<>>
    /\ IsExpired(Head(expiring))
    /\ FinishProcessed(processing, Head(expiring))
    /\ expiring' = Tail(expiring)
    /\ UNCHANGED <<now, loop, pending, pulled, applied>>

(* Faulty: what lives is put back in front. *)
ExpireKeep_Reverses ==
    /\ pc = "expire" /\ expiring # <<>>
    /\ ~IsExpired(Head(expiring))
    /\ pending' = <<Head(expiring)>> \o pending
    /\ expiring' = Tail(expiring)
    /\ UNCHANGED <<now, loop, pulled, processing, processed, applied>>

ExpireKeep ==
    /\ pc = "expire" /\ expiring # <<>>
    /\ ~IsExpired(Head(expiring))
    /\ pending' = Append(pending, Head(expiring))
    /\ expiring' = Tail(expiring)
    /\ UNCHANGED <<now, loop, pulled, processing, processed, applied>>

PullFails ==
    /\ pc = "expire" /\ expiring = <<>>
    /\ pc' = "scan"
    /\ UNCHANGED <<now, poller, todo, session>>

PullOk(batch) ==
    /\ pc = "expire" /\ expiring = <<>>
    /\ \A i \in DOMAIN batch : Created[batch[i]] <= now
    /\ pulled' = batch
    /\ pc' = "store"
    /\ UNCHANGED <<now, pending, expiring, processing, processed, applied,
                   todo, session>>

(* store_polled_command on the next pulled command. *)
Storing == pc = "store" /\ pulled # <<>>

(* Faulty: meeting the id again renews the time it is remembered from. *)
StoreDuplicate_Renews ==
    /\ Storing
    /\ ~IsNew(Head(pulled))
    /\ processed' = [i \in Recent |->
                        IF i = Head(pulled) THEN now ELSE processed[i]]
    /\ pulled' = Tail(pulled)
    /\ UNCHANGED <<now, loop, pending, expiring, processing, applied>>

StoreDuplicate ==
    /\ Storing
    /\ ~IsNew(Head(pulled))
    /\ Prune
    /\ pulled' = Tail(pulled)
    /\ UNCHANGED <<now, loop, pending, expiring, processing, applied>>

(* Faulty: the call returns when the ack is sent; the id stays in progress. *)
StoreExpired_ReturnsEarly ==
    /\ Storing
    /\ IsNew(Head(pulled))
    /\ IsExpired(Head(pulled))
    /\ Prune
    /\ processing' = TryBegin(Head(pulled))
    /\ pulled' = Tail(pulled)
    /\ UNCHANGED <<now, loop, pending, expiring, applied>>

(* Acknowledged EXPIRED, whatever becomes of the ack. *)
StoreExpired ==
    /\ Storing
    /\ IsNew(Head(pulled))
    /\ IsExpired(Head(pulled))
    /\ FinishProcessed(TryBegin(Head(pulled)), Head(pulled))
    /\ pulled' = Tail(pulled)
    /\ UNCHANGED <<now, loop, pending, expiring, applied>>

(* Acknowledged FAILED, whatever becomes of the ack. *)
StoreRejected ==
    /\ Storing
    /\ IsNew(Head(pulled))
    /\ ~IsExpired(Head(pulled))
    /\ IsRefused(Head(pulled))
    /\ FinishProcessed(TryBegin(Head(pulled)), Head(pulled))
    /\ pulled' = Tail(pulled)
    /\ UNCHANGED <<now, loop, pending, expiring, applied>>

StorePending ==
    /\ Storing
    /\ IsNew(Head(pulled))
    /\ ~IsExpired(Head(pulled))
    /\ ~IsRefused(Head(pulled))
    /\ Prune
    /\ processing' = TryBegin(Head(pulled))
    /\ pending' = Append(pending, Head(pulled))
    /\ pulled' = Tail(pulled)
    /\ UNCHANGED <<now, loop, expiring, applied>>

StoreDone ==
    /\ pc = "store" /\ pulled = <<>>
    /\ pc' = "scan"
    /\ UNCHANGED <<now, poller, todo, session>>

----------------------------------------------------------------------------
(* The cycle of main's loop *)

(* Faulty: an empty scan is repeated without a poll. *)
Scan_NoPoll(found) ==
    /\ pc = "scan"
    /\ todo' = found
    /\ pc' = IF found = {} THEN "scan" ELSE "cycle"
    /\ UNCHANGED <<now, poller, session>>

(* A scan that finds nothing, or fails, leads straight to the next poll. *)
Scan(found) ==
    /\ pc = "scan"
    /\ todo' = found
    /\ pc' = IF found = {} THEN "poll" ELSE "cycle"
    /\ UNCHANGED <<now, poller, session>>

(* A Setup probe, an unreadable one, or a session that fails before the    *)
(* pending commands are looked at.                                         *)
SkipCandidate(d) ==
    /\ pc = "cycle" /\ d \in todo
    /\ todo' = todo \ {d}
    /\ UNCHANGED <<now, poller, pc, session>>

CycleDone ==
    /\ pc = "cycle" /\ todo = {}
    /\ pc' = "poll"
    /\ UNCHANGED <<now, poller, todo, session>>

(* Faulty: the command that waits last is looked up. *)
OpenSession_PeeksLast(d, n) ==
    /\ pc = "cycle" /\ d \in todo /\ n \in NodeIds[d]
    /\ todo' = todo \ {d}
    /\ \/ /\ NoneFor(n)
          /\ session' = [NoSession EXCEPT !.node = n]
          /\ pc' = "result"
       \/ \E i \in DOMAIN pending :
             /\ NodeOf[pending[i]] = n
             /\ \A j \in (i+1)..Len(pending) : NodeOf[pending[j]] # n
             /\ session' = [NoSession EXCEPT !.node = n, !.req = pending[i]]
             /\ pc' = "dispatch"
    /\ UNCHANGED <<now, poller>>

(* read_probe_and_maybe_dispatch_motor reads the probe, then asks for the   *)
(* command that waits for the node id it read.                             *)
OpenSession(d, n) ==
    /\ pc = "cycle" /\ d \in todo /\ n \in NodeIds[d]
    /\ todo' = todo \ {d}
    /\ \/ /\ NoneFor(n)
          /\ session' = [NoSession EXCEPT !.node = n]
          /\ pc' = "result"
       \/ \E i \in DOMAIN pending :
             /\ IsFirstFor(i, n)
             /\ session' = [NoSession EXCEPT !.node = n, !.req = pending[i]]
             /\ pc' = "dispatch"
    /\ UNCHANGED <<now, poller>>

(* write_motor_payload_to_service: the payload is encoded, then written,   *)
(* and the write takes its time.  Here expires_at = 0 counts as expired.   *)

(* Faulty: the expiry is not looked at before the write. *)
CanEncode_IgnoresExpiry(c) == Canonical[c] # NotUuid

(* Faulty: the command id is not checked to be a UUID. *)
CanEncode_AnyId(c) == Expires[c] > now

CanEncode(c) == Expires[c] > now /\ Canonical[c] # NotUuid

Encode ==
    /\ pc = "dispatch"
    /\ CanEncode(session.req)
    /\ pc' = "write"
    /\ UNCHANGED <<now, poller, todo, session>>

Dispatch(outcome) ==
    /\ session' = [session EXCEPT !.disp = outcome]
    /\ pc' = "result"
    /\ UNCHANGED <<now, poller, todo>>

DispatchOk == pc = "write" /\ Dispatch("ok")

DispatchExpired ==
    pc = "dispatch" /\ Expires[session.req] <= now /\ Dispatch("expired")

(* Characteristic missing, command id no UUID, or the write itself fails. *)
DispatchFailed == pc \in {"dispatch", "write"} /\ Dispatch("failed")

(* The session ends with whatever result the probe holds, and the reading  *)
(* is uploaded.  main then applies the result and, unless that result is   *)
(* terminal, completes the dispatch.                                       *)
ToComplete(s) == s.disp # None /\ ~IsTerminal(s.res)

Proceed(s) ==
    \/ ToComplete(s) /\ pc' = "complete" /\ session' = s
    \/ ~ToComplete(s) /\ pc' = "cycle" /\ session' = NoSession

ReadNothing ==
    /\ pc = "result"
    /\ Proceed(session)
    /\ UNCHANGED <<now, poller, todo>>

ReadResult(r) ==
    /\ pc = "result"
    /\ session' = [session EXCEPT !.res = r]
    /\ pc' = "apply"
    /\ UNCHANGED <<now, poller, todo>>

(* apply_probe_motor_result *)
IsNews(r) == r.status \in Reported /\ r.id \notin applied

ApplySkipped ==
    /\ pc = "apply"
    /\ ~IsNews(session.res)
    /\ Proceed(session)
    /\ UNCHANGED <<now, poller, todo>>

ApplyAcked ==
    /\ pc = "apply"
    /\ IsNews(session.res)
    /\ FinishProcessed(processing, session.res.id)
    /\ applied' = applied \cup {session.res.id}
    /\ Proceed(session)
    /\ UNCHANGED <<now, pending, expiring, pulled, todo>>

ApplyUnacked ==
    /\ pc = "apply"
    /\ IsNews(session.res)
    /\ Proceed(session)
    /\ UNCHANGED <<now, poller, todo>>

(* complete_dispatched_for_probe: the first command for the session's node *)
(* is taken to be the one that was written.                                *)
EndSession(disp) ==
    /\ pc = "complete" /\ session.disp = disp
    /\ pc' = "cycle" /\ session' = NoSession
    /\ UNCHANGED <<now, expiring, pulled, applied, todo>>

(* Faulty: every command of the node is taken off the list. *)
Settle_WholeNode(i) ==
    /\ FinishProcessed(processing, pending[i])
    /\ pending' = SelectSeq(pending, LAMBDA c : NodeOf[c] # NodeOf[pending[i]])

Settle(i) ==
    /\ FinishProcessed(processing, pending[i])
    /\ pending' = RemoveAt(pending, i)

SettleFirst == \E i \in DOMAIN pending : IsFirstFor(i, session.node) /\ Settle(i)

Retain == UNCHANGED <<pending, processing, processed>>

CompleteSentAcked == EndSession("ok") /\ SettleFirst

CompleteSentUnacked == EndSession("ok") /\ Retain

(* Acknowledged EXPIRED, whatever becomes of the ack. *)
CompleteExpired == EndSession("expired") /\ SettleFirst

CompleteFailed == EndSession("failed") /\ Retain

----------------------------------------------------------------------------
Poll ==
    \/ BeginPoll \/ ExpireDrop \/ ExpireKeep
    \/ PullFails \/ (\E batch \in BoundedSeq(Command, BatchSize) : PullOk(batch))
    \/ StoreDuplicate \/ StoreExpired \/ StoreRejected \/ StorePending \/ StoreDone

Cycle ==
    \/ \E found \in SUBSET Device : Scan(found)
    \/ \E d \in Device : SkipCandidate(d)
    \/ CycleDone
    \/ \E d \in Device : \E n \in NodeIds[d] : OpenSession(d, n)
    \/ Encode \/ DispatchOk \/ DispatchExpired \/ DispatchFailed
    \/ ReadNothing \/ (\E r \in Result : ReadResult(r))
    \/ ApplySkipped \/ ApplyAcked \/ ApplyUnacked
    \/ CompleteSentAcked \/ CompleteSentUnacked \/ CompleteExpired \/ CompleteFailed

HubStep == Poll \/ Cycle

Next == HubStep \/ Tick \/ Restart

Spec == Init /\ [][Next]_vars

(* The thread keeps running (every RPC and BLE operation ends, by answer   *)
(* or by timeout) and time passes.  Nothing is assumed of the environment, *)
(* not even that a scan ever finds a probe.                                *)
KeepsRunning == HubStep /\ (pc = "scan" => todo' = {})

FairSpec == Spec /\ WF_vars(KeepsRunning) /\ WF_vars(Tick)

----------------------------------------------------------------------------
(* The list a command waits in: while expire_pending_commands runs it is   *)
(* what was already put back, then what is still to be looked at.          *)
Waiting == pending \o expiring

IsWaiting(c) == c \in ToSet(pending) \cup ToSet(expiring)

(* Types of the whole state, and what must be there at each place of the   *)
(* loop: something to write at "dispatch", a result at "apply", a dispatch *)
(* outcome at "complete".                                                  *)
TypeOK ==
    /\ now \in Nat
    /\ pc \in {"poll", "expire", "store", "scan", "cycle", "dispatch",
               "write", "result", "apply", "complete"}
    /\ pending \in Seq(Command)
    /\ expiring \in Seq(Command)
    /\ pulled \in Seq(Command)
    /\ processing \subseteq Command
    /\ DOMAIN processed \subseteq Id
    /\ \A i \in DOMAIN processed : processed[i] \in 0..now
    /\ applied \subseteq Id
    /\ todo \subseteq Device
    /\ session \in [node : Node \cup {None}, req : Command \cup {None},
                    disp : {None, "ok", "expired", "failed"},
                    res : Result \cup {None}]
    /\ pc \in {"dispatch", "write"} => session.req # None
    /\ pc = "apply" => session.res # None
    /\ pc = "complete" => session.disp # None

(* The dedup set never black-holes a command: an id it answers             *)
(* AlreadyProcessing for (polling.rs:208, "already pending in-memory") is  *)
(* one the hub still holds, so every copy it skips has one that can still  *)
(* be dispatched or expired; and no id is both in progress and finished.   *)
ProcessingIsWaiting ==
    /\ \A c \in processing : IsWaiting(c)
    /\ processing \cap DOMAIN processed = {}

(* complete_dispatched_for_probe never sees the request that was written,  *)
(* it takes the first pending command of the node (polling.rs:97-103): from*)
(* the peek inside the BLE session to the completion after the upload and  *)
(* the probe-result ack, that is the same command.                         *)
CompletesWhatWasWritten ==
    session.req # None =>
        \E i \in DOMAIN pending :
            IsFirstFor(i, session.node) /\ pending[i] = session.req

(* Commands live at most as long as finished ids are remembered            *)
(* (config.rs:49: the default expiry is the retention).                    *)
BoundedTTL ==
    \A c \in Command : Expires[c] > 0 /\ Expires[c] <= Created[c] + Retention

(* However often the backend hands a command out again, the hub holds it   *)
(* once: no second run of the motor is queued behind the first.            *)
HeldOnce ==
    \A i, j \in DOMAIN Waiting : Waiting[i] = Waiting[j] => i = j

(* A command leaves the hub's list only because its TTL is over, because   *)
(* the request it was peeked as was written or found expired, or in a      *)
(* restart: no other command's completion ever takes it away.              *)
LeavesForCause ==
    [][\A c \in Command : IsWaiting(c) /\ ~IsWaiting(c)' =>
            \/ IsExpired(c)
            \/ pc = "complete" /\ session.req = c /\ session.disp # "failed"
            \/ Restart]_vars

(* The list behaves as a mailbox: what waits keeps its order (a STOP stays *)
(* behind the RUN it follows) and waits once, across the rebuilding of the *)
(* Vec by every poll and every completion, by expiries halfway through it  *)
(* and by duplicates from the backend.                                     *)
Box == INSTANCE Mailbox WITH held <- Waiting

IsMailbox == Box!Spec

(* A command with a TTL never stays: it is written, expired or lost in a   *)
(* restart, whatever probes report and RPCs answer (polling.rs:345,        *)
(* "keeping command retryable until TTL expiry").                          *)
NothingStaysForever ==
    \A c \in Command : IsWaiting(c) /\ Expires[c] > 0 ~> ~IsWaiting(c)

============================================================================

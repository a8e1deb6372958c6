------------------------- MODULE CommandPollerProofs -------------------------
(***************************************************************************)
(* Theorems about CommandPoller, for every set of commands, probes and     *)
(* nodes and every retention, batch size and clock bound.                  *)
(***************************************************************************)
EXTENDS CommandPoller, QueueLemmas

----------------------------------------------------------------------------
(* finish_processed and prune keep the dedup set well-formed: the new      *)
(* stamp is not in the future, and every id is one the hub can hold.       *)
LEMMA FinishProcessedType ==
    ASSUME TypeOK, NEW id \in Id, NEW begun, FinishProcessed(begun, id), now' = now,
           begun \ {id} \subseteq Command
    PROVE  /\ processing' \subseteq Command
           /\ DOMAIN processed' \subseteq Id
           /\ \A i \in DOMAIN processed' : processed'[i] \in 0..now'
<1>1. now \in Nat /\ Recent \subseteq DOMAIN processed
  BY DEF TypeOK, Recent
<1>2. DOMAIN processed' = Recent \cup {id}
  BY DEF FinishProcessed
<1>3. \A i \in DOMAIN processed' : processed'[i] = IF i = id THEN now ELSE processed[i]
  BY <1>2 DEF FinishProcessed
<1>4. QED
  BY <1>1, <1>2, <1>3 DEF TypeOK, FinishProcessed

(* Pruning (polling.rs:615-620) leaves finished ids with times that have   *)
(* passed.                                                                 *)
LEMMA PruneType ==
    ASSUME TypeOK, Prune, now' = now
    PROVE  /\ DOMAIN processed' \subseteq Id
           /\ \A i \in DOMAIN processed' : processed'[i] \in 0..now'
BY DEF TypeOK, Prune, Recent

(* Ending or going on with a session keeps it well-formed. *)
LEMMA ProceedType ==
    ASSUME TypeOK, Proceed(session), pc \in {"result", "apply"}
    PROVE  /\ pc' \in {"complete", "cycle"}
           /\ session' \in [node : Node \cup {None}, req : Command \cup {None},
                            disp : {None, "ok", "expired", "failed"},
                            res : Result \cup {None}]
           /\ pc' = "complete" => session'.disp # None
BY DEF TypeOK, Proceed, ToComplete, NoSession

----------------------------------------------------------------------------
(* Every step keeps the types. *)
LEMMA TypeStep == TypeOK /\ [Next]_vars => TypeOK'
<1> SUFFICES ASSUME TypeOK, [Next]_vars PROVE TypeOK'
  OBVIOUS
<1> USE DomainAssumption, TimeAssumption
<1> DEFINE SessionType == [node : Node \cup {None}, req : Command \cup {None},
                           disp : {None, "ok", "expired", "failed"},
                           res : Result \cup {None}]
<1>1. CASE Tick
  BY <1>1 DEF TypeOK, Tick, poller, loop
<1>2. CASE Restart
  <2>1. /\ <<>> \in Seq(Command)
        /\ DOMAIN processed' = {}
        /\ NoSession \in SessionType
    BY <1>2 DEF Restart, NoSession
  <2>2. QED
    BY <1>2, <2>1 DEF TypeOK, Restart
<1>3. CASE BeginPoll
  BY <1>3 DEF TypeOK, BeginPoll
<1>4. CASE ExpireDrop
  <2>1. Head(expiring) \in Command /\ Tail(expiring) \in Seq(Command)
    BY <1>4, SetOfTail DEF ExpireDrop, TypeOK
  <2>2. QED
    BY <1>4, <2>1, FinishProcessedType DEF TypeOK, ExpireDrop, loop
<1>5. CASE ExpireKeep
  <2>1. Head(expiring) \in Command /\ Tail(expiring) \in Seq(Command)
    BY <1>5, SetOfTail DEF ExpireKeep, TypeOK
  <2>2. Append(pending, Head(expiring)) \in Seq(Command)
    BY <2>1, SetOfAppend DEF TypeOK
  <2>3. QED
    BY <1>5, <2>1, <2>2 DEF TypeOK, ExpireKeep, loop
<1>6. CASE PullFails
  BY <1>6 DEF TypeOK, PullFails, poller
<1>7. ASSUME NEW batch \in BoundedSeq(Command, BatchSize), PullOk(batch)
      PROVE  TypeOK'
  <2>1. batch \in Seq(Command)
    BY BoundedSeqIsSeq
  <2>2. QED
    BY <1>7, <2>1 DEF TypeOK, PullOk
<1>8. ASSUME Storing PROVE Head(pulled) \in Command /\ Tail(pulled) \in Seq(Command)
  BY <1>8, SetOfTail DEF Storing, TypeOK
<1>9. CASE StoreDuplicate
  BY <1>8, <1>9, PruneType DEF TypeOK, StoreDuplicate, loop
<1>10. CASE StoreExpired
  <2>1. Head(pulled) \in Id /\ Tail(pulled) \in Seq(Command)
    BY <1>8, <1>10, DomainAssumption DEF StoreExpired
  <2>2. /\ processing' \subseteq Command /\ DOMAIN processed' \subseteq Id
        /\ \A i \in DOMAIN processed' : processed'[i] \in 0..now
    BY <1>10, <2>1, FinishProcessedType DEF TypeOK, StoreExpired, TryBegin
  <2>3. QED
    BY <1>10, <2>1, <2>2 DEF TypeOK, StoreExpired, loop
<1>11. CASE StoreRejected
  <2>1. Head(pulled) \in Id /\ Tail(pulled) \in Seq(Command)
    BY <1>8, <1>11, DomainAssumption DEF StoreRejected
  <2>2. /\ processing' \subseteq Command /\ DOMAIN processed' \subseteq Id
        /\ \A i \in DOMAIN processed' : processed'[i] \in 0..now
    BY <1>11, <2>1, FinishProcessedType DEF TypeOK, StoreRejected, TryBegin
  <2>3. QED
    BY <1>11, <2>1, <2>2 DEF TypeOK, StoreRejected, loop
<1>12. CASE StorePending
  <2>1. Head(pulled) \in Command /\ Tail(pulled) \in Seq(Command)
    BY <1>8, <1>12 DEF StorePending
  <2>2. Append(pending, Head(pulled)) \in Seq(Command)
    BY <2>1, SetOfAppend DEF TypeOK
  <2>3. QED
    BY <1>12, <2>1, <2>2, PruneType DEF TypeOK, StorePending, TryBegin, loop
<1>13. CASE StoreDone
  BY <1>13 DEF TypeOK, StoreDone, poller
<1>14. ASSUME NEW found \in SUBSET Device, Scan(found) PROVE TypeOK'
  BY <1>14 DEF TypeOK, Scan, poller
<1>15. ASSUME NEW d \in Device, SkipCandidate(d) PROVE TypeOK'
  BY <1>15 DEF TypeOK, SkipCandidate, poller
<1>16. CASE CycleDone
  BY <1>16 DEF TypeOK, CycleDone, poller
<1>17. ASSUME NEW d \in Device, NEW n \in NodeIds[d], OpenSession(d, n)
       PROVE  TypeOK'
  <2>1. n \in Node
    OBVIOUS
  <2>2. \A i \in DOMAIN pending : pending[i] \in Command
    BY ElementOfSeq, LenProperties DEF TypeOK
  <2>3. /\ session' \in SessionType
        /\ pc' \in {"result", "dispatch"}
        /\ pc' = "dispatch" => session'.req # None
    BY <1>17, <2>1, <2>2 DEF OpenSession, NoSession
  <2>4. QED
    BY <1>17, <2>3 DEF TypeOK, OpenSession, poller
<1>18. ASSUME NEW o \in {"ok", "expired", "failed"}, Dispatch(o),
              pc \in {"dispatch", "write"}
       PROVE  TypeOK'
  BY <1>18 DEF TypeOK, Dispatch, poller
<1>27. CASE Encode
  BY <1>27 DEF TypeOK, Encode, poller
<1>19. CASE ReadNothing
  BY <1>19, ProceedType DEF TypeOK, ReadNothing, poller
<1>20. ASSUME NEW r \in Result, ReadResult(r) PROVE TypeOK'
  <2>1. r # None
    BY DEF DomainAssumption, Result
  <2>2. QED
    BY <1>20, <2>1 DEF TypeOK, ReadResult, poller
<1>21. CASE ApplySkipped \/ ApplyUnacked
  BY <1>21, ProceedType DEF TypeOK, ApplySkipped, ApplyUnacked, poller
<1>22. CASE ApplyAcked
  <2>1. session.res.id \in Id
    BY <1>22 DEF TypeOK, ApplyAcked, Result
  <2>2. QED
    BY <1>22, <2>1, ProceedType, FinishProcessedType DEF TypeOK, ApplyAcked
<1>23. ASSUME NEW o, EndSession(o), Retain PROVE TypeOK'
  BY <1>23 DEF TypeOK, EndSession, Retain, NoSession
<1>24. ASSUME NEW o, EndSession(o), SettleFirst PROVE TypeOK'
  <2>1. PICK i \in DOMAIN pending : Settle(i)
    BY <1>24 DEF SettleFirst
  <2>2. pending[i] \in Command /\ RemoveAt(pending, i) \in Seq(Command)
    BY SetOfRemoveAt, ElementOfSeq, LenProperties DEF TypeOK
  <2>3. /\ processing' \subseteq Command
        /\ DOMAIN processed' \subseteq Id
        /\ \A j \in DOMAIN processed' : processed'[j] \in 0..now'
    BY <1>24, <2>1, <2>2, FinishProcessedType DEF TypeOK, Settle, EndSession
  <2>4. QED
    BY <1>24, <2>1, <2>2, <2>3 DEF TypeOK, EndSession, Settle, NoSession
<1>25. CASE UNCHANGED vars
  BY <1>25 DEF TypeOK, vars
<1>26. QED
  BY <1>1, <1>2, <1>3, <1>4, <1>5, <1>6, <1>7, <1>9, <1>10, <1>11, <1>12,
     <1>13, <1>14, <1>15, <1>16, <1>17, <1>18, <1>19, <1>20, <1>21, <1>22,
     <1>23, <1>24, <1>25, <1>27
     DEF Next, HubStep, Poll, Cycle, DispatchOk, DispatchExpired, DispatchFailed,
         CompleteSentAcked, CompleteSentUnacked, CompleteExpired, CompleteFailed

(* The state of the poller and of the main loop is always well-typed, and  *)
(* the main loop finds at each place what that place needs.                *)
THEOREM TypeCorrect == Spec => []TypeOK
<1>1. Init => TypeOK
  <2>1. <<>> \in Seq(Command)
    OBVIOUS
  <2>2. QED
    BY <2>1 DEF Init, TypeOK, NoSession
<1>2. QED
  BY <1>1, TypeStep, PTL DEF Spec

----------------------------------------------------------------------------
(* The strengthening.  Stage: what is local to a function of the code is   *)
(* empty outside it.                                                       *)
Stage ==
    /\ pc # "expire" => expiring = <<>>
    /\ pc \in {"poll", "expire", "store", "scan", "cycle"} => session = NoSession
    /\ session.disp # None => session.req # None

Inv == TypeOK /\ Stage /\ ProcessingIsWaiting /\ CompletesWhatWasWritten

(* The steps that touch the poller's own state; every other step leaves    *)
(* the lists and the dedup set alone.                                      *)
Keeps == UNCHANGED <<pending, expiring, processing, processed>>

Settles == \E o \in {"ok", "expired"} : EndSession(o) /\ SettleFirst

(* Every step leaves the lists alone or is one of the few that do not.     *)
LEMMA StepKinds ==
    ASSUME [Next]_vars
    PROVE  \/ Keeps \/ Restart \/ BeginPoll \/ ExpireDrop \/ ExpireKeep
           \/ StoreDuplicate \/ StoreExpired \/ StoreRejected \/ StorePending
           \/ ApplyAcked \/ Settles
<1>1. CASE Poll
  BY <1>1 DEF Poll, Keeps, PullFails, PullOk, StoreDone, poller
<1>2. CASE Cycle
  BY <1>2 DEF Cycle, Keeps, Scan, SkipCandidate, CycleDone, OpenSession, Encode, DispatchOk,
              DispatchExpired, DispatchFailed, Dispatch, ReadNothing, ReadResult,
              ApplySkipped, ApplyUnacked, CompleteSentAcked, CompleteSentUnacked,
              CompleteExpired, CompleteFailed, EndSession, Retain, Settles, poller
<1>3. CASE Tick \/ UNCHANGED vars
  BY <1>3 DEF Tick, vars, Keeps, poller
<1>4. QED
  BY <1>1, <1>2, <1>3 DEF Next, HubStep

(* The local vectors are empty, and a session is open, where the loop says *)
(* so.                                                                     *)
LEMMA StageStep == TypeOK /\ Stage /\ [Next]_vars => Stage'
<1> SUFFICES ASSUME TypeOK, Stage, [Next]_vars PROVE Stage'
  OBVIOUS
<1>1. CASE Poll
  BY <1>1 DEF Stage, Poll, BeginPoll, ExpireDrop, ExpireKeep, PullFails, PullOk,
              StoreDuplicate, StoreExpired, StoreRejected, StorePending, StoreDone,
              Storing, poller, loop
<1>2. CASE \/ \E found \in SUBSET Device : Scan(found)
           \/ \E d \in Device : SkipCandidate(d)
           \/ CycleDone
  BY <1>2 DEF Stage, Scan, SkipCandidate, CycleDone, poller
<1>3. ASSUME NEW d \in Device, NEW n \in NodeIds[d], OpenSession(d, n) PROVE Stage'
  BY <1>3 DEF Stage, OpenSession, NoSession, poller
<1>4. ASSUME NEW o, Dispatch(o), pc \in {"dispatch", "write"} PROVE Stage'
  BY <1>4 DEF Stage, TypeOK, Dispatch, poller
<1>5. CASE ReadNothing \/ ApplySkipped \/ ApplyUnacked \/ ApplyAcked
  BY <1>5 DEF Stage, ReadNothing, ApplySkipped, ApplyUnacked, ApplyAcked, Proceed,
              NoSession, poller
<1>6. ASSUME NEW r \in Result, ReadResult(r) PROVE Stage'
  BY <1>6 DEF Stage, TypeOK, ReadResult, poller
<1>7. ASSUME NEW o, EndSession(o) PROVE Stage'
  BY <1>7 DEF Stage, EndSession, NoSession
<1>8. CASE Encode \/ Tick \/ Restart \/ UNCHANGED vars
  BY <1>8 DEF Stage, Encode, Tick, Restart, vars, NoSession, poller, loop
<1>9. QED
  BY <1>1, <1>2, <1>3, <1>4, <1>5, <1>6, <1>7, <1>8
     DEF Next, HubStep, Cycle, DispatchOk, DispatchExpired, DispatchFailed,
         CompleteSentAcked, CompleteSentUnacked, CompleteExpired, CompleteFailed

----------------------------------------------------------------------------
(* An id that is finished leaves processing and enters processed; nothing  *)
(* else enters processed.                                                  *)
LEMMA FinishProcessedMoves ==
    ASSUME NEW id, NEW begun \in {processing, TryBegin(id)}, FinishProcessed(begun, id),
           processing \cap DOMAIN processed = {}
    PROVE  /\ processing' = processing \ {id}
           /\ processing' \cap DOMAIN processed' = {}
BY DEF FinishProcessed, TryBegin, Recent

(* An id in progress stays one of a command at the hub                     *)
(* (polling.rs:588-640).                                                   *)
LEMMA ProcessingStep ==
    TypeOK /\ Stage /\ ProcessingIsWaiting /\ [Next]_vars => ProcessingIsWaiting'
<1> SUFFICES ASSUME TypeOK, Stage, ProcessingIsWaiting, [Next]_vars
             PROVE  ProcessingIsWaiting'
  OBVIOUS
<1> USE DEF ProcessingIsWaiting, IsWaiting
<1>1. CASE Keeps
  BY <1>1 DEF Keeps
<1>2. CASE Restart
  BY <1>2 DEF Restart
<1>3. CASE BeginPoll
  <2>1. expiring = <<>> /\ expiring' = pending
    BY <1>3 DEF BeginPoll, Stage
  <2>2. ToSet(expiring) = {}
    BY <2>1 DEF ToSet
  <2>3. \A c \in processing : c \in ToSet(expiring')
    BY <2>1, <2>2
  <2>4. QED
    BY <1>3, <2>3 DEF BeginPoll
<1>4. CASE ExpireDrop
  <2>1. ToSet(expiring) = ToSet(expiring') \cup {Head(expiring)} /\ pending' = pending
    BY <1>4, SetOfTail DEF ExpireDrop, TypeOK
  <2>2. QED
    BY <1>4, <2>1, FinishProcessedMoves DEF ExpireDrop
<1>5. CASE ExpireKeep
  <2>1. ToSet(expiring) = ToSet(expiring') \cup {Head(expiring)} /\ Head(expiring) \in Command
    BY <1>5, SetOfTail DEF ExpireKeep, TypeOK
  <2>2. ToSet(pending') = ToSet(pending) \cup {Head(expiring)}
    BY <1>5, <2>1, SetOfAppend DEF ExpireKeep, TypeOK
  <2>3. QED
    BY <1>5, <2>1, <2>2 DEF ExpireKeep
<1>6. CASE StoreDuplicate
  BY <1>6 DEF StoreDuplicate, Prune, Recent
<1>7. CASE StoreExpired \/ StoreRejected
  BY <1>7, FinishProcessedMoves DEF StoreExpired, StoreRejected
<1>8. CASE StorePending
  <2>1. Head(pulled) \in Command
    BY <1>8, SetOfTail DEF StorePending, Storing, TypeOK
  <2>2. ToSet(pending') = ToSet(pending) \cup {Head(pulled)} /\ expiring' = expiring
    BY <1>8, <2>1, SetOfAppend DEF StorePending, TypeOK
  <2>3. DOMAIN processed' = Recent /\ Recent \subseteq DOMAIN processed
    BY <1>8 DEF StorePending, Prune, Recent
  <2>4. QED
    BY <1>8, <2>2, <2>3 DEF StorePending, IsNew, TryBegin
<1>9. CASE ApplyAcked
  BY <1>9, FinishProcessedMoves DEF ApplyAcked
<1>10. CASE Settles
  <2>1. PICK i \in DOMAIN pending : Settle(i)
    BY <1>10 DEF Settles, SettleFirst
  <2>2. ToSet(pending) = ToSet(pending') \cup {pending[i]} /\ expiring' = expiring
    BY <1>10, <2>1, SetOfRemoveAt DEF Settles, EndSession, Settle, TypeOK
  <2>3. QED
    BY <2>1, <2>2, FinishProcessedMoves DEF Settle
<1>11. QED
  BY <1>1, <1>2, <1>3, <1>4, <1>5, <1>6, <1>7, <1>8, <1>9, <1>10, StepKinds

----------------------------------------------------------------------------
(* Nothing gets in front of the written command while its session is open  *)
(* (main.rs:177-271).                                                      *)
LEMMA CompletesStep ==
    TypeOK /\ Stage /\ CompletesWhatWasWritten /\ [Next]_vars
        => CompletesWhatWasWritten'
<1> SUFFICES ASSUME TypeOK, Stage, CompletesWhatWasWritten, [Next]_vars,
                    session'.req # None
             PROVE  \E i \in DOMAIN pending' :
                        IsFirstFor(i, session.node)' /\ pending'[i] = session'.req
  BY DEF CompletesWhatWasWritten
<1>1. session' # NoSession
  BY DEF NoSession
<1>2. ASSUME NEW d \in Device, NEW n \in NodeIds[d], OpenSession(d, n)
      PROVE  \E i \in DOMAIN pending' :
                IsFirstFor(i, session.node)' /\ pending'[i] = session'.req
  <2>1. pending' = pending
    BY <1>2 DEF OpenSession, poller
  <2>2. PICK i \in DOMAIN pending :
            /\ IsFirstFor(i, n)
            /\ session' = [NoSession EXCEPT !.node = n, !.req = pending[i]]
    BY <1>2 DEF OpenSession, NoSession
  <2>3. session'.node = n /\ session'.req = pending[i]
    BY <2>2 DEF NoSession
  <2>4. QED
    BY <2>1, <2>2, <2>3 DEF IsFirstFor
<1>3. ASSUME pending' = pending, session'.req = session.req, session'.node = session.node
      PROVE  \E i \in DOMAIN pending' :
                IsFirstFor(i, session.node)' /\ pending'[i] = session'.req
  BY <1>3 DEF CompletesWhatWasWritten, IsFirstFor
<1>4. CASE Poll
  BY <1>1, <1>4 DEF Stage, Poll, BeginPoll, ExpireDrop, ExpireKeep, PullFails, PullOk,
              StoreDuplicate, StoreExpired, StoreRejected, StorePending, StoreDone,
              Storing, loop
<1>5. CASE \/ \E found \in SUBSET Device : Scan(found)
           \/ \E d \in Device : SkipCandidate(d)
           \/ CycleDone
           \/ Encode \/ Tick \/ UNCHANGED vars
  BY <1>3, <1>5 DEF Scan, SkipCandidate, CycleDone, Encode, Tick, vars, poller, loop
<1>6. ASSUME NEW o, Dispatch(o)
      PROVE  pending' = pending /\ session'.req = session.req /\ session'.node = session.node
  BY <1>6 DEF Dispatch, TypeOK, poller
<1>7. ASSUME NEW r, ReadResult(r)
      PROVE  pending' = pending /\ session'.req = session.req /\ session'.node = session.node
  BY <1>7 DEF ReadResult, TypeOK, poller
<1>8. CASE ReadNothing \/ ApplySkipped \/ ApplyUnacked \/ ApplyAcked
  <2>1. pending' = pending /\ session' = session
    BY <1>1, <1>8 DEF ReadNothing, ApplySkipped, ApplyUnacked, ApplyAcked, Proceed, poller
  <2>2. QED
    BY <1>3, <2>1
<1>9. ASSUME NEW o, EndSession(o) PROVE FALSE
  BY <1>1, <1>9 DEF EndSession
<1>10. CASE Restart
  BY <1>1, <1>10 DEF Restart
<1>11. QED
  BY <1>2, <1>3, <1>4, <1>5, <1>6, <1>7, <1>8, <1>9, <1>10
     DEF Next, HubStep, Cycle, DispatchOk, DispatchExpired, DispatchFailed,
         CompleteSentAcked, CompleteSentUnacked, CompleteExpired, CompleteFailed

----------------------------------------------------------------------------
(* At power-on nothing is held.                                            *)
LEMMA InvInit == Init => Inv
<1> SUFFICES ASSUME Init PROVE Inv
  OBVIOUS
<1>1. TypeOK
  BY DEF Init, TypeOK, NoSession
<1>2. Stage
  BY DEF Init, Stage, NoSession
<1>3. ProcessingIsWaiting
  BY DEF Init, ProcessingIsWaiting
<1>4. CompletesWhatWasWritten
  BY DEF Init, CompletesWhatWasWritten, NoSession
<1>5. QED
  BY <1>1, <1>2, <1>3, <1>4 DEF Inv

(* Types, places of the loop, the dedup set and the session are right at   *)
(* all times (polling.rs, main.rs:106-282).                                *)
THEOREM InvCorrect == Spec => []Inv
<1>1. Inv /\ [Next]_vars => Inv'
  BY TypeStep, StageStep, ProcessingStep, CompletesStep DEF Inv
<1>2. QED
  BY InvInit, <1>1, PTL DEF Spec

(* Whatever the backend, the probes and the network do, every id the hub   *)
(* refuses as AlreadyProcessing is one it still holds.                     *)
THEOREM ProcessingCorrect == Spec => []ProcessingIsWaiting
<1>1. Inv => ProcessingIsWaiting
  BY DEF Inv
<1>2. QED
  BY InvCorrect, <1>1, PTL

(* The command completed after a session is the one written in it.         *)
THEOREM CompletionCorrect == Spec => []CompletesWhatWasWritten
<1>1. Inv => CompletesWhatWasWritten
  BY DEF Inv
<1>2. QED
  BY InvCorrect, <1>1, PTL

----------------------------------------------------------------------------
(* Only an expiry, the completion of the written command and a restart     *)
(* take a command off the hub's list.                                      *)
LEMMA LeavesStep ==
    ASSUME Inv, [Next]_vars, NEW c \in Command, IsWaiting(c), ~IsWaiting(c)'
    PROVE  \/ IsExpired(c)
           \/ pc = "complete" /\ session.req = c /\ session.disp # "failed"
           \/ Restart
<1> USE DEF IsWaiting
<1>1. CASE Keeps \/ StoreDuplicate \/ StoreExpired \/ StoreRejected \/ ApplyAcked
  BY <1>1 DEF Keeps, StoreDuplicate, StoreExpired, StoreRejected, ApplyAcked
<1>2. CASE BeginPoll
  <2>1. expiring = <<>> /\ expiring' = pending
    BY <1>2 DEF BeginPoll, Inv, Stage
  <2>2. QED
    BY <2>1 DEF ToSet
<1>3. CASE ExpireDrop
  <2>1. /\ ToSet(expiring) = ToSet(expiring') \cup {Head(expiring)}
        /\ pending' = pending /\ IsExpired(Head(expiring))
    BY <1>3, SetOfTail DEF ExpireDrop, Inv, TypeOK
  <2>2. QED
    BY <2>1
<1>4. CASE ExpireKeep
  <2>1. ToSet(expiring) = ToSet(expiring') \cup {Head(expiring)} /\ Head(expiring) \in Command
    BY <1>4, SetOfTail DEF ExpireKeep, Inv, TypeOK
  <2>2. ToSet(pending') = ToSet(pending) \cup {Head(expiring)}
    BY <1>4, <2>1, SetOfAppend DEF ExpireKeep, Inv, TypeOK
  <2>3. QED
    BY <2>1, <2>2
<1>5. CASE StorePending
  <2>1. Head(pulled) \in Command
    BY <1>5, SetOfTail DEF StorePending, Storing, Inv, TypeOK
  <2>2. ToSet(pending') = ToSet(pending) \cup {Head(pulled)} /\ expiring' = expiring
    BY <1>5, <2>1, SetOfAppend DEF StorePending, Inv, TypeOK
  <2>3. QED
    BY <2>2
<1>6. CASE Settles
  <2>1. PICK i \in DOMAIN pending : IsFirstFor(i, session.node) /\ Settle(i)
    BY <1>6 DEF Settles, SettleFirst
  <2>2. ToSet(pending) = ToSet(pending') \cup {pending[i]} /\ expiring' = expiring
    BY <1>6, <2>1, SetOfRemoveAt DEF Settles, EndSession, Settle, Inv, TypeOK
  <2>3. pc = "complete" /\ session.disp \in {"ok", "expired"} /\ session.req # None
    BY <1>6 DEF Settles, EndSession, Inv, TypeOK, Stage
  <2>4. PICK j \in DOMAIN pending :
            IsFirstFor(j, session.node) /\ pending[j] = session.req
    BY <2>3 DEF Inv, CompletesWhatWasWritten
  <2>5. i \in Nat /\ j \in Nat /\ i >= 1 /\ j >= 1
    BY LenProperties DEF Inv, TypeOK
  <2>6. i = j
    BY <2>1, <2>4, <2>5 DEF IsFirstFor
  <2>7. QED
    BY <2>2, <2>3, <2>4, <2>6
<1>7. QED
  BY <1>1, <1>2, <1>3, <1>4, <1>5, <1>6, StepKinds

(* No command ever disappears from the hub's list without a cause, however *)
(* sessions, polls and failures interleave.                                *)
THEOREM LeavesForCauseCorrect == Spec => LeavesForCause
<1> DEFINE A == \A c \in Command : IsWaiting(c) /\ ~IsWaiting(c)' =>
                    \/ IsExpired(c)
                    \/ pc = "complete" /\ session.req = c /\ session.disp # "failed"
                    \/ Restart
<1>1. Inv /\ [Next]_vars => A
  BY LeavesStep
<1>2. Inv /\ [Next]_vars => [A]_vars
  BY <1>1
<1>3. QED
  BY <1>2, InvCorrect, PTL DEF Spec, LeavesForCause

----------------------------------------------------------------------------
(* Why a command is held once: as long as it waits it is shielded from a   *)
(* second try_begin by processing, or, once a probe result has finished it *)
(* (apply_probe_motor_result leaves it on the list), by processed, which   *)
(* prune keeps until the command has expired.                              *)
Shielded(c) ==
    \/ c \in processing
    \/ Expires[c] <= now
    \/ c \in DOMAIN processed /\ Expires[c] <= processed[c] + Retention

Arrived ==
    \A c \in Command : IsWaiting(c) \/ c \in ToSet(pulled) => Created[c] <= now

AllShielded == \A c \in Command : IsWaiting(c) => Shielded(c)

Once ==
    /\ Distinct(pending) /\ Distinct(expiring)
    /\ ToSet(pending) \cap ToSet(expiring) = {}

OnceInv == Inv /\ Arrived /\ AllShielded /\ Once

(* The waiting commands of a step are those of before, and at most the one *)
(* that is stored.                                                         *)
LEMMA WaitingStep ==
    ASSUME Inv, [Next]_vars, NEW c \in Command, IsWaiting(c)'
    PROVE  IsWaiting(c) \/ (StorePending /\ c = Head(pulled))
<1> USE DEF IsWaiting
<1>1. CASE Keeps \/ StoreDuplicate \/ StoreExpired \/ StoreRejected \/ ApplyAcked
  BY <1>1 DEF Keeps, StoreDuplicate, StoreExpired, StoreRejected, ApplyAcked
<1>2. CASE BeginPoll \/ Restart
  BY <1>2 DEF BeginPoll, Restart, ToSet
<1>3. CASE ExpireDrop
  <2>1. ToSet(expiring) = ToSet(expiring') \cup {Head(expiring)} /\ pending' = pending
    BY <1>3, SetOfTail DEF ExpireDrop, Inv, TypeOK
  <2>2. QED
    BY <2>1
<1>4. CASE ExpireKeep
  <2>1. ToSet(expiring) = ToSet(expiring') \cup {Head(expiring)} /\ Head(expiring) \in Command
    BY <1>4, SetOfTail DEF ExpireKeep, Inv, TypeOK
  <2>2. ToSet(pending') = ToSet(pending) \cup {Head(expiring)}
    BY <1>4, <2>1, SetOfAppend DEF ExpireKeep, Inv, TypeOK
  <2>3. QED
    BY <2>1, <2>2
<1>5. CASE StorePending
  <2>1. Head(pulled) \in Command
    BY <1>5, SetOfTail DEF StorePending, Storing, Inv, TypeOK
  <2>2. ToSet(pending') = ToSet(pending) \cup {Head(pulled)} /\ expiring' = expiring
    BY <1>5, <2>1, SetOfAppend DEF StorePending, Inv, TypeOK
  <2>3. QED
    BY <1>5, <2>2
<1>6. CASE Settles
  <2>1. PICK i \in DOMAIN pending : Settle(i)
    BY <1>6 DEF Settles, SettleFirst
  <2>2. ToSet(pending) = ToSet(pending') \cup {pending[i]} /\ expiring' = expiring
    BY <1>6, <2>1, SetOfRemoveAt DEF Settles, EndSession, Settle, Inv, TypeOK
  <2>3. QED
    BY <2>2
<1>7. QED
  BY <1>1, <1>2, <1>3, <1>4, <1>5, <1>6, StepKinds

(* The clock never runs back. *)
LEMMA ClockStep == Inv /\ [Next]_vars => now \in Nat /\ now' \in Nat /\ now <= now'
<1> SUFFICES ASSUME Inv, [Next]_vars PROVE now' \in Nat /\ now <= now'
  BY DEF Inv, TypeOK
<1>1. now \in Nat
  BY DEF Inv, TypeOK
<1>2. CASE Poll
  BY <1>1, <1>2 DEF Poll, BeginPoll, ExpireDrop, ExpireKeep, PullFails, PullOk,
     StoreDuplicate, StoreExpired, StoreRejected, StorePending, StoreDone
<1>3. CASE Cycle
  <2>1. now' = now
    BY <1>3 DEF Cycle, Scan, SkipCandidate, CycleDone, OpenSession, Encode, DispatchOk,
       DispatchExpired, DispatchFailed, Dispatch, ReadNothing, ReadResult,
       ApplySkipped, ApplyUnacked, ApplyAcked, CompleteSentAcked, CompleteSentUnacked,
       CompleteExpired, CompleteFailed, EndSession
  <2>2. QED
    BY <1>1, <2>1
<1>4. CASE Tick \/ Restart \/ UNCHANGED vars
  BY <1>1, <1>4 DEF Tick, Restart, vars
<1>5. QED
  BY <1>2, <1>3, <1>4 DEF Next, HubStep

(* A command at the hub was created before now: the clock goes on only.    *)
LEMMA ArrivedStep == Inv /\ Arrived /\ [Next]_vars => Arrived'
<1> SUFFICES ASSUME Inv, Arrived, [Next]_vars, NEW c \in Command,
                    IsWaiting(c)' \/ c \in ToSet(pulled')
             PROVE  Created[c] <= now'
  BY DEF Arrived, IsWaiting
<1>1. now \in Nat /\ now' \in Nat /\ now <= now' /\ Created[c] \in Nat
  BY ClockStep, TimeAssumption
<1>2. ASSUME pulled # <<>> PROVE Head(pulled) \in ToSet(pulled) /\ ToSet(Tail(pulled)) \subseteq ToSet(pulled)
  BY <1>2, SetOfTail DEF Inv, TypeOK
<1>3. CASE IsWaiting(c)'
  <2>1. IsWaiting(c) \/ c \in ToSet(pulled)
    BY <1>2, <1>3, WaitingStep DEF StorePending, Storing
  <2>2. QED
    BY <1>1, <2>1 DEF Arrived
<1>4. ASSUME NEW batch, PullOk(batch), c \in ToSet(pulled') PROVE Created[c] <= now'
  BY <1>1, <1>4 DEF PullOk, ToSet
<1>5. CASE c \in ToSet(pulled)
  BY <1>1, <1>5 DEF Arrived
<1>6. CASE c \in ToSet(pulled') /\ ~\E batch \in BoundedSeq(Command, BatchSize) : PullOk(batch)
  <2>1. \/ pulled' = pulled \/ pulled' = <<>>
        \/ pulled # <<>> /\ pulled' = Tail(pulled)
    BY <1>6 DEF Next, HubStep, Poll, Cycle, BeginPoll, ExpireDrop, ExpireKeep, PullFails,
       StoreDuplicate, StoreExpired, StoreRejected, StorePending, StoreDone, Storing,
       Scan, SkipCandidate, CycleDone, OpenSession, Encode, DispatchOk,
       DispatchExpired, DispatchFailed, Dispatch, ReadNothing, ReadResult,
       ApplySkipped, ApplyUnacked, ApplyAcked, CompleteSentAcked, CompleteSentUnacked,
       CompleteExpired, CompleteFailed, EndSession, Tick, Restart, vars, poller
  <2>2. pulled' # <<>>
    BY <1>6 DEF ToSet
  <2>3. c \in ToSet(pulled)
    BY <1>2, <1>6, <2>1, <2>2
  <2>4. QED
    BY <1>5, <2>3
<1>7. QED
  BY <1>3, <1>4, <1>6

(* Finishing any id leaves every command that arrived shielded.            *)
LEMMA FinishProcessedShields ==
    ASSUME BoundedTTL, Inv, NEW id, NEW begun \in {processing, TryBegin(id)},
           FinishProcessed(begun, id), now' = now,
           NEW c \in Command, Created[c] <= now, Shielded(c)
    PROVE  Shielded(c)'
<1>1. /\ now \in Nat /\ Created[c] \in Nat /\ Expires[c] \in Nat /\ Retention \in Nat
      /\ Expires[c] <= Created[c] + Retention
      /\ c \in DOMAIN processed => processed[c] \in 0..now
  BY TimeAssumption DEF BoundedTTL, Inv, TypeOK
<1>2. /\ DOMAIN processed' = Recent \cup {id}
      /\ \A i \in Recent \cup {id} : processed'[i] = IF i = id THEN now ELSE processed[i]
      /\ processing' = processing \ {id}
  BY DEF FinishProcessed, TryBegin
<1>3. CASE c = id
  <2>1. c \in DOMAIN processed' /\ processed'[c] = now
    BY <1>2, <1>3
  <2>2. Expires[c] <= processed'[c] + Retention
    BY <1>1, <2>1
  <2>3. QED
    BY <2>1, <2>2 DEF Shielded
<1>4. CASE c # id /\ c \in processing
  BY <1>2, <1>4 DEF Shielded
<1>5. CASE Expires[c] <= now
  BY <1>5 DEF Shielded
<1>6. CASE /\ c # id /\ c \in DOMAIN processed /\ ~(Expires[c] <= now)
           /\ Expires[c] <= processed[c] + Retention
  <2>1. now - processed[c] <= Retention
    BY <1>1, <1>6
  <2>2. c \in DOMAIN processed' /\ processed'[c] = processed[c]
    BY <1>2, <1>6, <2>1 DEF Recent
  <2>3. QED
    BY <1>6, <2>2 DEF Shielded
<1>7. QED
  BY <1>3, <1>4, <1>5, <1>6 DEF Shielded

(* A command that lives has not outlived the retention of its id           *)
(* (config.rs:48-49).                                                      *)
LEMMA PruneShields ==
    ASSUME BoundedTTL, Inv, Prune, now' = now, processing \subseteq processing',
           NEW c \in Command, Shielded(c)
    PROVE  Shielded(c)'
<1>1. /\ now \in Nat /\ Expires[c] \in Nat /\ Retention \in Nat
      /\ c \in DOMAIN processed => processed[c] \in 0..now
  BY TimeAssumption DEF Inv, TypeOK
<1>2. CASE /\ c \in DOMAIN processed /\ ~(Expires[c] <= now)
           /\ Expires[c] <= processed[c] + Retention
  <2>1. now - processed[c] <= Retention
    BY <1>1, <1>2
  <2>2. c \in DOMAIN processed' /\ processed'[c] = processed[c]
    BY <1>2, <2>1 DEF Prune, Recent
  <2>3. QED
    BY <1>2, <2>2 DEF Shielded
<1>3. CASE c \in processing \/ Expires[c] <= now
  BY <1>3 DEF Shielded
<1>4. QED
  BY <1>2, <1>3 DEF Shielded

(* A command at the hub keeps its id in the dedup set, in progress or      *)
(* finished.                                                               *)
LEMMA ShieldedStep ==
    ASSUME BoundedTTL PROVE OnceInv /\ [Next]_vars => AllShielded'
<1> SUFFICES ASSUME OnceInv, [Next]_vars, NEW c \in Command, IsWaiting(c)'
             PROVE  Shielded(c)'
  BY DEF AllShielded, IsWaiting
<1>1. Inv
  BY DEF OnceInv
<1>2. CASE StorePending /\ c = Head(pulled)
  BY <1>2 DEF StorePending, TryBegin, Shielded
<1>3. ASSUME ~(StorePending /\ c = Head(pulled))
      PROVE  Shielded(c) /\ Created[c] <= now /\ IsWaiting(c)
  BY <1>1, <1>3, WaitingStep DEF OnceInv, AllShielded, Arrived
<1> SUFFICES ASSUME Shielded(c), Created[c] <= now, IsWaiting(c) PROVE Shielded(c)'
  BY <1>2, <1>3
<1>4. now \in Nat /\ now' \in Nat /\ now <= now' /\ Expires[c] \in Nat
  BY <1>1, ClockStep, TimeAssumption
<1>5. CASE Keeps
  BY <1>4, <1>5 DEF Keeps, Shielded
<1>6. CASE ExpireDrop
  BY <1>1, <1>6, FinishProcessedShields DEF ExpireDrop
<1>7. CASE StoreExpired \/ StoreRejected
  BY <1>1, <1>7, FinishProcessedShields DEF StoreExpired, StoreRejected
<1>8. CASE ApplyAcked
  BY <1>1, <1>8, FinishProcessedShields DEF ApplyAcked
<1>9. CASE Settles
  <2>1. PICK i \in DOMAIN pending : FinishProcessed(processing, pending[i])
    BY <1>9 DEF Settles, SettleFirst, Settle
  <2>2. now' = now
    BY <1>9 DEF Settles, EndSession
  <2>3. QED
    BY <1>1, <2>1, <2>2, FinishProcessedShields
<1>10. CASE StoreDuplicate \/ StorePending
  <2>1. Prune /\ now' = now /\ processing \subseteq processing'
    BY <1>10 DEF StoreDuplicate, StorePending, TryBegin
  <2>2. QED
    BY <1>1, <2>1, PruneShields
<1>11. CASE BeginPoll \/ ExpireKeep
  BY <1>11 DEF BeginPoll, ExpireKeep, Shielded
<1>12. CASE Restart
  <2>1. ~IsWaiting(c)'
    BY <1>12 DEF Restart, IsWaiting, ToSet
  <2>2. QED
    BY <2>1
<1>13. QED
  BY <1>5, <1>6, <1>7, <1>8, <1>9, <1>10, <1>11, <1>12, StepKinds

(* What try_begin answers New to, and is not expired, does not wait.       *)
LEMMA NewIsNotWaiting ==
    ASSUME BoundedTTL, Inv, AllShielded, NEW c \in Command,
           IsNew(c), ~IsExpired(c)
    PROVE  ~IsWaiting(c)
<1>1. /\ now \in Nat /\ Expires[c] \in Nat /\ Retention \in Nat /\ Expires[c] > 0
      /\ c \in DOMAIN processed => processed[c] \in 0..now
  BY TimeAssumption DEF BoundedTTL, Inv, TypeOK
<1>2. ~(Expires[c] <= now)
  BY <1>1 DEF IsExpired
<1>3. c \notin processing /\ ~(c \in DOMAIN processed /\ now - processed[c] <= Retention)
  BY DEF IsNew, Recent
<1>4. ~Shielded(c)
  BY <1>1, <1>2, <1>3 DEF Shielded
<1>5. QED
  BY <1>4 DEF AllShielded

(* What the dedup set has not forgotten is not stored again                *)
(* (polling.rs:199-212).                                                   *)
LEMMA OnceStep ==
    ASSUME BoundedTTL PROVE OnceInv /\ [Next]_vars => Once'
<1> SUFFICES ASSUME OnceInv, [Next]_vars PROVE Once'
  OBVIOUS
<1>1. /\ Inv /\ AllShielded
      /\ pending \in Seq(Command) /\ expiring \in Seq(Command) /\ pulled \in Seq(Command)
      /\ Distinct(pending) /\ Distinct(expiring)
      /\ ToSet(pending) \cap ToSet(expiring) = {}
  BY DEF OnceInv, Once, Inv, TypeOK
<1>2. CASE Keeps \/ StoreDuplicate \/ StoreExpired \/ StoreRejected \/ ApplyAcked
  BY <1>1, <1>2 DEF Once, Keeps, StoreDuplicate, StoreExpired, StoreRejected, ApplyAcked
<1>3. ToSet(<<>>) = {} /\ Distinct(<<>>)
  BY DEF ToSet, Distinct
<1>4. CASE BeginPoll \/ Restart
  <2>1. pending' = <<>> /\ Distinct(expiring')
    BY <1>1, <1>3, <1>4 DEF BeginPoll, Restart
  <2>2. QED
    BY <1>3, <2>1 DEF Once
<1>5. CASE ExpireDrop
  <2>1. /\ Distinct(Tail(expiring))
        /\ ToSet(expiring) = ToSet(Tail(expiring)) \cup {Head(expiring)}
    BY <1>1, <1>5, DistinctTail, SetOfTail DEF ExpireDrop
  <2>2. QED
    BY <1>1, <1>5, <2>1 DEF Once, ExpireDrop
<1>6. CASE ExpireKeep
  <2>1. /\ Distinct(Tail(expiring)) /\ Head(expiring) \notin ToSet(Tail(expiring))
        /\ ToSet(expiring) = ToSet(Tail(expiring)) \cup {Head(expiring)}
        /\ Head(expiring) \in Command
    BY <1>1, <1>6, DistinctTail, SetOfTail DEF ExpireKeep
  <2>2. Head(expiring) \notin ToSet(pending)
    BY <1>1, <2>1
  <2>3. /\ Distinct(Append(pending, Head(expiring)))
        /\ ToSet(Append(pending, Head(expiring))) = ToSet(pending) \cup {Head(expiring)}
    BY <1>1, <2>1, <2>2, DistinctAppend, SetOfAppend
  <2>4. QED
    BY <1>1, <1>6, <2>1, <2>3 DEF Once, ExpireKeep
<1>7. CASE StorePending
  <2>1. Head(pulled) \in Command /\ IsNew(Head(pulled)) /\ ~IsExpired(Head(pulled))
    BY <1>1, <1>7, SetOfTail DEF StorePending, Storing
  <2>2. ~IsWaiting(Head(pulled))
    BY <1>1, <2>1, NewIsNotWaiting
  <2>3. /\ Distinct(Append(pending, Head(pulled)))
        /\ ToSet(Append(pending, Head(pulled))) = ToSet(pending) \cup {Head(pulled)}
    BY <1>1, <2>1, <2>2, DistinctAppend, SetOfAppend DEF IsWaiting
  <2>4. QED
    BY <1>1, <1>7, <2>2, <2>3 DEF Once, StorePending, IsWaiting
<1>8. CASE Settles
  <2>1. PICK i \in DOMAIN pending : Settle(i)
    BY <1>8 DEF Settles, SettleFirst
  <2>2. /\ Distinct(RemoveAt(pending, i))
        /\ ToSet(pending) = ToSet(RemoveAt(pending, i)) \cup {pending[i]}
    BY <1>1, DistinctRemoveAt, SetOfRemoveAt
  <2>3. pending' = RemoveAt(pending, i) /\ expiring' = expiring
    BY <1>8, <2>1 DEF Settles, Settle, EndSession
  <2>4. QED
    BY <1>1, <2>2, <2>3 DEF Once
<1>9. QED
  BY <1>2, <1>4, <1>5, <1>6, <1>7, <1>8, StepKinds

(* A command at the hub has its id in the dedup set and is there once      *)
(* (polling.rs:216-288), if commands expire within the retention.          *)
THEOREM OnceCorrect == ASSUME BoundedTTL PROVE Spec => []OnceInv
<1>1. Init => OnceInv
  <2> SUFFICES ASSUME Init PROVE OnceInv
    OBVIOUS
  <2>1. ToSet(<<>>) = {} /\ Distinct(<<>>)
    BY DEF ToSet, Distinct
  <2>2. QED
    BY <2>1, InvInit DEF Init, OnceInv, Arrived, AllShielded, Once, IsWaiting
<1>2. Inv /\ [Next]_vars => Inv'
  BY TypeStep, StageStep, ProcessingStep, CompletesStep DEF Inv
<1>3. OnceInv /\ [Next]_vars => OnceInv'
  BY <1>2, ArrivedStep, ShieldedStep, OnceStep DEF OnceInv
<1>4. QED
  BY <1>1, <1>3, PTL DEF Spec

(* As long as commands expire within the retention of finished ids, the    *)
(* hub holds every command at most once.                                   *)
THEOREM HeldOnceCorrect == ASSUME BoundedTTL PROVE Spec => []HeldOnce
<1>1. OnceInv => HeldOnce
  <2> SUFFICES ASSUME OnceInv PROVE HeldOnce
    OBVIOUS
  <2>1. Distinct(pending \o expiring)
    BY DistinctConcat DEF OnceInv, Once, Inv, TypeOK
  <2>2. QED
    BY <2>1 DEF HeldOnce, Distinct, Waiting
<1>2. QED
  BY OnceCorrect, <1>1, PTL

----------------------------------------------------------------------------
(* Refinement: every step of the hub is a step of the mailbox or none.     *)
LEMMA MailboxStep ==
    ASSUME BoundedTTL PROVE OnceInv /\ [Next]_vars => [Box!Next]_Waiting
<1> SUFFICES ASSUME OnceInv, [Next]_vars PROVE Box!Next \/ Waiting' = Waiting
  OBVIOUS
<1>1. /\ Inv /\ AllShielded /\ Stage
      /\ pending \in Seq(Command) /\ expiring \in Seq(Command) /\ pulled \in Seq(Command)
  BY DEF OnceInv, Inv, TypeOK
<1>2. CASE Keeps \/ StoreDuplicate \/ StoreExpired \/ StoreRejected \/ ApplyAcked
  BY <1>2 DEF Waiting, Keeps, StoreDuplicate, StoreExpired, StoreRejected, ApplyAcked
<1>3. CASE BeginPoll
  <2>1. expiring = <<>> /\ expiring' = pending /\ pending' = <<>>
    BY <1>1, <1>3 DEF BeginPoll, Stage
  <2>2. pending \o <<>> = pending /\ <<>> \o pending = pending
    BY <1>1, ConcatEmptySeq
  <2>3. QED
    BY <2>1, <2>2 DEF Waiting
<1>4. CASE ExpireKeep
  <2>1. Append(pending, Head(expiring)) \o Tail(expiring) = pending \o expiring
    BY <1>1, <1>4, MoveHead DEF ExpireKeep
  <2>2. QED
    BY <1>4, <2>1 DEF ExpireKeep, Waiting
<1>5. CASE ExpireDrop
  <2>1. /\ Len(pending) + 1 \in DOMAIN (pending \o expiring)
        /\ pending \o Tail(expiring) = RemoveAt(pending \o expiring, Len(pending) + 1)
    BY <1>1, <1>5, DropHead DEF ExpireDrop
  <2>2. Box!Release(Len(pending) + 1)
    BY <1>5, <2>1 DEF ExpireDrop, Waiting, Box!Release, Box!RemoveAt, RemoveAt
  <2>3. QED
    BY <2>1, <2>2 DEF Box!Next, Waiting
<1>6. CASE Restart
  <2>1. pending' = <<>> /\ expiring' = <<>>
    BY <1>6 DEF Restart
  <2>2. <<>> \o <<>> = <<>>
    BY EmptySeq, ConcatEmptySeq
  <2>3. QED
    BY <2>1, <2>2 DEF Waiting, Box!Next, Box!Forget
<1>7. ASSUME pc # "expire" PROVE expiring = <<>> /\ Waiting = pending
  <2>1. expiring = <<>>
    BY <1>1, <1>7 DEF Stage
  <2>2. QED
    BY <1>1, <2>1, ConcatEmptySeq DEF Waiting
<1>8. CASE StorePending
  <2>1. /\ pc = "store" /\ Head(pulled) \in Command
        /\ IsNew(Head(pulled)) /\ ~IsExpired(Head(pulled))
        /\ pending' = Append(pending, Head(pulled)) /\ expiring' = expiring
    BY <1>1, <1>8, SetOfTail DEF StorePending, Storing
  <2>2. Head(pulled) \notin ToSet(pending)
    BY <1>1, <2>1, NewIsNotWaiting DEF IsWaiting
  <2>3. Append(pending, Head(pulled)) \o <<>> = Append(pending, Head(pulled))
    BY <1>1, <2>1, AppendProperties, ConcatEmptySeq
  <2>4. Waiting = pending /\ Waiting' = Append(pending, Head(pulled))
    BY <1>7, <2>1, <2>3 DEF Waiting
  <2>5. Box!Accept(Head(pulled))
    BY <2>2, <2>4 DEF Box!Accept, Box!ToSet, ToSet
  <2>6. QED
    BY <2>1, <2>5 DEF Box!Next
<1>9. CASE Settles
  <2>1. PICK i \in DOMAIN pending : Settle(i)
    BY <1>9 DEF Settles, SettleFirst
  <2>2. pc = "complete" /\ expiring' = expiring /\ pending' = RemoveAt(pending, i)
    BY <1>9, <2>1 DEF Settles, EndSession, Settle
  <2>3. RemoveAt(pending, i) \o <<>> = RemoveAt(pending, i)
    BY <1>1, SetOfRemoveAt, ConcatEmptySeq
  <2>4. Waiting = pending /\ Waiting' = RemoveAt(pending, i)
    BY <1>7, <2>2, <2>3 DEF Waiting
  <2>5. Box!Release(i)
    BY <2>4 DEF Box!Release, Box!RemoveAt, RemoveAt
  <2>6. QED
    BY <2>4, <2>5 DEF Box!Next
<1>10. QED
  BY <1>2, <1>3, <1>4, <1>5, <1>6, <1>8, <1>9, StepKinds

(* The command list is a mailbox: it keeps the order of what waits, holds  *)
(* each command once and gives commands up one by one.                     *)
THEOREM MailboxCorrect == ASSUME BoundedTTL PROVE Spec => IsMailbox
<1>1. Init => Box!Init
  BY EmptySeq, ConcatEmptySeq DEF Init, Box!Init, Waiting
<1>2. QED
  BY <1>1, MailboxStep, OnceCorrect, PTL DEF Spec, IsMailbox, Box!Spec

==============================================================================

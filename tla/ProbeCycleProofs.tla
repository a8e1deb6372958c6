-------------------------- MODULE ProbeCycleProofs --------------------------
(***************************************************************************)
(* Theorems about ProbeScan and ProbeCycle, for any addresses, packets,    *)
(* node ids and number of upload attempts.                                 *)
(***************************************************************************)
EXTENDS ProbeCycle, Induction, TLAPS

ScanInv == ScanTypeOK /\ SetupIsNotLost /\ MetaWasHeard

(* What a packet says of its sender is well-formed. *)
LEMMA MetaType ==
    ASSUME NEW k \in Packet, MetaOf(k) # None
    PROVE  MetaOf(k) \in Meta
<1> USE ScanAssumption
<1>1. k.mfg \in Manufacturer \cup {None} /\ k.name \in Name \cup {None}
  OBVIOUS
<1>2. \A m : MarkerMode(m) \in {"Normal", "Setup"}
  BY DEF MarkerMode
<1>3. \A m, n : ModeOf(m, n) \in {"Normal", "Setup"}
  BY <1>2 DEF ModeOf
<1>4. CASE IsProbePayload(k.mfg)
  <2>1. k.mfg \in Manufacturer
    BY <1>1, <1>4 DEF IsProbePayload
  <2>2. k.mfg.name \in Name /\ k.mfg.version \in Version
    BY <2>1 DEF Manufacturer
  <2>3. NameOf(k) \in Name
    BY <1>1, <2>2 DEF NameOf, DefaultName
  <2>4. QED
    BY <1>3, <1>4, <2>2, <2>3 DEF MetaOf, Meta
<1>5. CASE ~IsProbePayload(k.mfg)
  <2>1. k.name \in {SETUP_PROBE_NAME, PROBE_NAME}
    BY <1>5 DEF MetaOf
  <2>2. MetaOf(k) = [mode |-> ModeOf("none", k.name), name |-> k.name,
                     version |-> ZeroVersion]
    BY <1>5, <2>1 DEF MetaOf
  <2>3. QED
    BY <1>3, <2>1, <2>2 DEF Meta
<1>6. QED
  BY <1>4, <1>5

(* A scan begins with nothing heard and no candidate.                      *)
LEMMA ScanStarts ==
    ASSUME seen = <<>>, heard = [a \in Address |-> {}]
    PROVE  ScanInv
<1>1. DOMAIN seen = {}
  OBVIOUS
<1>2. QED
  BY <1>1 DEF ScanInv, ScanTypeOK, SetupIsNotLost, MetaWasHeard, IsSeen

(* The callback, with a probe's packet: a new address ... *)
LEMMA NewCandidate ==
    ASSUME ScanInv, NEW a \in Address, NEW m \in Meta,
           ~IsSeen(a),
           seen' = Append(seen, [addr |-> a, meta |-> m]),
           heard' = [heard EXCEPT ![a] = @ \cup {m}]
    PROVE  ScanInv'
<1> DEFINE c == [addr |-> a, meta |-> m]
           n == Len(seen)
<1>0. /\ seen \in Seq(Candidate) /\ heard \in [Address -> SUBSET Meta]
      /\ c \in Candidate /\ n \in Nat
      /\ c.addr = a /\ c.meta = m
  BY DEF ScanInv, ScanTypeOK, Candidate
<1>1. /\ seen' \in Seq(Candidate)
      /\ DOMAIN seen = 1..n /\ DOMAIN seen' = 1..(n+1)
      /\ \A i \in 1..n : seen'[i] = seen[i]
      /\ seen'[n+1] = c
  BY <1>0
<1>2. /\ heard'[a] = heard[a] \cup {m}
      /\ \A b \in Address \ {a} : heard'[b] = heard[b]
      /\ heard' \in [Address -> SUBSET Meta]
  BY <1>0
<1>3. \A i \in 1..n : seen[i].addr \in Address \ {a}
  <2>1. \A i \in 1..n : seen[i] \in Candidate
    BY <1>0
  <2>2. QED
    BY <1>1, <2>1 DEF IsSeen, Candidate
<1>4. heard[a] = {}
  BY DEF ScanInv, SetupIsNotLost
<1>5. ScanTypeOK'
  BY <1>1, <1>2 DEF ScanTypeOK
<1>6. MetaWasHeard'
  <2> SUFFICES ASSUME NEW i \in 1..(n+1)
               PROVE  seen'[i].meta \in heard'[seen'[i].addr]
    BY <1>1 DEF MetaWasHeard
  <2>1. CASE i \in 1..n
    <3>1. seen[i].meta \in heard[seen[i].addr]
      BY <1>1, <2>1 DEF ScanInv, MetaWasHeard
    <3>2. QED
      BY <1>1, <1>2, <1>3, <2>1, <3>1
  <2>2. CASE i = n + 1
    BY <1>0, <1>1, <1>2, <2>2
  <2>3. QED
    BY <1>0, <2>1, <2>2
<1>7. \A b \in Address : heard'[b] # {} => IsSeen(b)'
  <2> SUFFICES ASSUME NEW b \in Address, heard'[b] # {}
               PROVE  IsSeen(b)'
    OBVIOUS
  <2>1. CASE b = a
    BY <1>0, <1>1, <2>1 DEF IsSeen
  <2>2. CASE b # a
    <3>1. IsSeen(b)
      BY <1>2, <2>2 DEF ScanInv, SetupIsNotLost
    <3>2. PICK i \in 1..n : seen[i].addr = b
      BY <1>1, <3>1 DEF IsSeen
    <3>3. i \in 1..(n+1) /\ seen'[i].addr = b
      BY <1>0, <1>1, <3>2
    <3>4. QED
      BY <1>1, <3>3 DEF IsSeen
  <2>3. QED
    BY <2>1, <2>2
<1>8. \A i, j \in 1..(n+1) : seen'[i].addr = seen'[j].addr => i = j
  <2>1. \A i, j \in 1..n : seen[i].addr = seen[j].addr => i = j
    BY <1>1 DEF ScanInv, SetupIsNotLost
  <2>2. \A i \in 1..(n+1) : i \in 1..n \/ i = n + 1
    BY <1>0
  <2>3. QED
    BY <1>0, <1>1, <1>3, <2>1, <2>2
<1>9. \A i \in 1..(n+1) :
         seen'[i].meta.mode = "Setup"
            <=> \E x \in heard'[seen'[i].addr] : x.mode = "Setup"
  <2> TAKE i \in 1..(n+1)
  <2>1. CASE i \in 1..n
    <3>1. seen[i].meta.mode = "Setup"
             <=> \E x \in heard[seen[i].addr] : x.mode = "Setup"
      BY <1>1, <2>1 DEF ScanInv, SetupIsNotLost
    <3>2. seen'[i] = seen[i] /\ heard'[seen[i].addr] = heard[seen[i].addr]
      BY <1>1, <1>2, <1>3, <2>1
    <3>3. QED
      BY <3>1, <3>2
  <2>2. CASE i = n + 1
    BY <1>0, <1>1, <1>2, <1>4, <2>2
  <2>3. QED
    BY <1>0, <2>1, <2>2
<1>10. SetupIsNotLost'
  BY <1>1, <1>7, <1>8, <1>9 DEF SetupIsNotLost
<1>11. QED
  BY <1>5, <1>6, <1>10 DEF ScanInv

(* ... or a known one, whose candidate is upgraded or kept. *)
LEMMA KnownCandidate ==
    ASSUME ScanInv, NEW a \in Address, NEW m \in Meta,
           NEW i \in DOMAIN seen, seen[i].addr = a,
           \/ Upgrades(m, seen[i].meta) /\ seen' = [seen EXCEPT ![i].meta = m]
           \/ ~Upgrades(m, seen[i].meta) /\ UNCHANGED seen,
           heard' = [heard EXCEPT ![a] = @ \cup {m}]
    PROVE  ScanInv'
<1> DEFINE n == Len(seen)
<1>0. /\ seen \in Seq(Candidate) /\ heard \in [Address -> SUBSET Meta]
      /\ n \in Nat /\ DOMAIN seen = 1..n
      /\ \A j \in 1..n : seen[j] \in Candidate
  BY DEF ScanInv, ScanTypeOK
<1>1. /\ heard'[a] = heard[a] \cup {m}
      /\ \A b \in Address \ {a} : heard'[b] = heard[b]
      /\ heard' \in [Address -> SUBSET Meta]
  BY <1>0
<1>2. /\ seen' \in Seq(Candidate) /\ DOMAIN seen' = 1..n
      /\ \A j \in 1..n : seen'[j].addr = seen[j].addr
      /\ \A j \in 1..n : j # i => seen'[j] = seen[j]
      /\ seen'[i].meta = IF Upgrades(m, seen[i].meta) THEN m ELSE seen[i].meta
  <2>1. CASE seen' = [seen EXCEPT ![i].meta = m] /\ Upgrades(m, seen[i].meta)
    <3>1. [seen[i] EXCEPT !.meta = m] \in Candidate
      BY <1>0 DEF Candidate
    <3>2. /\ [seen[i] EXCEPT !.meta = m].addr = seen[i].addr
          /\ [seen[i] EXCEPT !.meta = m].meta = m
      BY <1>0 DEF Candidate
    <3>3. seen' = [seen EXCEPT ![i] = [seen[i] EXCEPT !.meta = m]]
      BY <2>1
    <3>4. seen' \in Seq(Candidate) /\ DOMAIN seen' = 1..n
      BY <1>0, <3>1, <3>3
    <3>5. /\ seen'[i] = [seen[i] EXCEPT !.meta = m]
          /\ \A j \in 1..n : j # i => seen'[j] = seen[j]
      BY <1>0, <3>3
    <3>6. QED
      BY <2>1, <3>2, <3>4, <3>5
  <2>2. CASE UNCHANGED seen /\ ~Upgrades(m, seen[i].meta)
    BY <1>0, <2>2
  <2>3. QED
    BY <2>1, <2>2
<1>3. \A j \in 1..n : j # i => seen[j].addr \in Address \ {a}
  <2>1. \A j \in 1..n : seen[j].addr = seen[i].addr => j = i
    BY <1>0 DEF ScanInv, SetupIsNotLost
  <2>2. QED
    BY <1>0, <2>1 DEF Candidate
<1>4. ScanTypeOK'
  BY <1>1, <1>2 DEF ScanTypeOK
<1>5. seen[i].meta \in heard[a]
  BY DEF ScanInv, MetaWasHeard
<1>6. MetaWasHeard'
  <2> SUFFICES ASSUME NEW j \in 1..n
               PROVE  seen'[j].meta \in heard'[seen'[j].addr]
    BY <1>2 DEF MetaWasHeard
  <2>1. CASE j = i
    BY <1>1, <1>2, <1>5, <2>1
  <2>2. CASE j # i
    <3>1. seen[j].meta \in heard[seen[j].addr]
      BY <1>0 DEF ScanInv, MetaWasHeard
    <3>2. QED
      BY <1>1, <1>2, <1>3, <2>2, <3>1
  <2>3. QED
    BY <2>1, <2>2
<1>7. \A b \in Address : heard'[b] # {} => IsSeen(b)'
  <2> SUFFICES ASSUME NEW b \in Address, heard'[b] # {}
               PROVE  \E j \in 1..n : seen'[j].addr = b
    BY <1>2 DEF IsSeen
  <2>1. CASE b = a
    BY <1>0, <1>2, <2>1
  <2>2. CASE b # a
    <3>1. \E j \in 1..n : seen[j].addr = b
      BY <1>0, <1>1, <2>2 DEF ScanInv, SetupIsNotLost, IsSeen
    <3>2. QED
      BY <1>2, <3>1
  <2>3. QED
    BY <2>1, <2>2
<1>8. \A j, l \in 1..n : seen'[j].addr = seen'[l].addr => j = l
  <2>1. \A j, l \in 1..n : seen[j].addr = seen[l].addr => j = l
    BY <1>0 DEF ScanInv, SetupIsNotLost
  <2>2. QED
    BY <1>2, <2>1
<1>9. \A j \in 1..n :
         seen'[j].meta.mode = "Setup"
            <=> \E x \in heard'[seen'[j].addr] : x.mode = "Setup"
  <2> TAKE j \in 1..n
  <2>0. seen[j].meta.mode = "Setup"
           <=> \E x \in heard[seen[j].addr] : x.mode = "Setup"
    BY <1>0 DEF ScanInv, SetupIsNotLost
  <2>1. CASE j = i
    <3>1. seen'[i].meta.mode = "Setup"
             <=> seen[i].meta.mode = "Setup" \/ m.mode = "Setup"
      BY <1>2 DEF Upgrades
    <3>2. QED
      BY <1>1, <1>2, <2>0, <2>1, <3>1
  <2>2. CASE j # i
    <3>1. seen'[j] = seen[j] /\ heard'[seen[j].addr] = heard[seen[j].addr]
      BY <1>1, <1>2, <1>3, <2>2
    <3>2. QED
      BY <2>0, <3>1
  <2>3. QED
    BY <2>1, <2>2
<1>10. SetupIsNotLost'
  BY <1>2, <1>7, <1>8, <1>9 DEF SetupIsNotLost
<1>11. QED
  BY <1>4, <1>6, <1>10 DEF ScanInv

(* A packet merged into the list leaves it as what was heard               *)
(* (ble.rs:146-226).                                                       *)
LEMMA ScanStep ==
    ASSUME ScanInv, [ScanNext]_scanVars
    PROVE  ScanInv'
<1>1. CASE UNCHANGED scanVars
  BY <1>1 DEF ScanInv, ScanTypeOK, SetupIsNotLost, MetaWasHeard, IsSeen, scanVars
<1>2. ASSUME NEW a \in Address, NEW k \in Packet, Hear(a, k)
      PROVE  ScanInv'
  <2>1. CASE MetaOf(k) = None
    BY <1>1, <1>2, <2>1 DEF Hear
  <2>2. CASE MetaOf(k) # None
    <3>1. MetaOf(k) \in Meta
      BY <2>2, MetaType
    <3>2. /\ Merge(a, MetaOf(k))
          /\ heard' = [heard EXCEPT ![a] = @ \cup {MetaOf(k)}]
      BY <1>2, <2>2 DEF Hear
    <3>3. CASE /\ ~IsSeen(a)
               /\ seen' = Append(seen, [addr |-> a, meta |-> MetaOf(k)])
      BY <3>1, <3>2, <3>3, NewCandidate
    <3>4. ASSUME NEW i \in DOMAIN seen, seen[i].addr = a,
                 \/ /\ Upgrades(MetaOf(k), seen[i].meta)
                    /\ seen' = [seen EXCEPT ![i].meta = MetaOf(k)]
                 \/ ~Upgrades(MetaOf(k), seen[i].meta) /\ UNCHANGED seen
          PROVE  ScanInv'
      BY <3>1, <3>2, <3>4, KnownCandidate
    <3>5. QED
      BY <3>2, <3>3, <3>4 DEF Merge
  <2>3. QED
    BY <2>1, <2>2
<1>3. CASE ScanEnds
  <2>1. DOMAIN seen' = {}
    BY <1>3 DEF ScanEnds
  <2>2. QED
    BY <1>3, <2>1 DEF ScanEnds, ScanInv, ScanTypeOK, SetupIsNotLost, MetaWasHeard, IsSeen
<1>4. QED
  BY <1>1, <1>2, <1>3 DEF ScanNext

(* One scan after the other, of any devices, keeps the invariant of the    *)
(* merged list.                                                            *)
THEOREM ScanCorrect == ScanSpec => []ScanInv
<1>1. ScanInit => ScanInv
  BY ScanStarts DEF ScanInit
<1>2. ScanInv /\ [ScanNext]_scanVars => ScanInv'
  BY ScanStep
<1>3. QED
  BY <1>1, <1>2, PTL DEF ScanSpec

----------------------------------------------------------------------------
(* The scans of ProbeCycle are scans of ProbeScan. *)
LEMMA CycleScans ==
    ASSUME CycleTypeOK, [CycleNext]_cycleVars
    PROVE  [ScanNext]_scanVars
<1>1. CASE HearsSome
  <2>1. PICK a \in Address : \E k \in Sends[a][mode[a]] : Hears(a, k)
    BY <1>1 DEF HearsSome
  <2>2. PICK k \in Sends[a][mode[a]] : Hears(a, k)
    BY <2>1
  <2>3. mode[a] \in {"Normal", "Setup"}
    BY DEF CycleTypeOK
  <2>4. Sends[a] \in [{"Normal", "Setup"} -> SUBSET Packet]
    BY CycleAssumption
  <2>5. Sends[a][mode[a]] \in SUBSET Packet
    BY <2>3, <2>4
  <2>6. k \in Packet
    BY <2>5
  <2>7. Hear(a, k)
    BY <2>2 DEF Hears
  <2>8. QED
    BY <2>6, <2>7 DEF ScanNext
<1>2. CASE HubStep
  <2>1. CASE ScanDone \/ ScanFails \/ RestartAfterProvisioning
    BY <2>1 DEF ScanDone, ScanFails, ScanGives, RestartAfterProvisioning, Reset, ScanNext
  <2>2. CASE ~(ScanDone \/ ScanFails \/ RestartAfterProvisioning)
    <3>1. CASE BeginScan \/ PassNormal \/ PickUpFails \/ VisitBegins
      BY <3>1 DEF BeginScan, PassNormal, PickUpFails, VisitBegins, scanVars
    <3>2. CASE Acknowledge \/ AcknowledgeFails \/ SessionFails \/ Dispatch
      BY <3>2 DEF Acknowledge, AcknowledgeFails, SessionFails, VisitEnds, Dispatch, scanVars
    <3>3. CASE \/ \E a \in Address : \E n \in NodeIds[a] : SessionReads(a, n)
               \/ \E c \in ToSet(todo) : \E n \in NodeIds[c.addr] : PickUp(c, n)
      BY <3>3 DEF SessionReads, PickUp, scanVars
    <3>4. CASE UploadBegins \/ UploadOk \/ UploadRejected \/ UploadUnanswered
      BY <3>4 DEF UploadBegins, UploadOk, UploadRejected, UploadUnanswered, Uploaded,
                  AttemptFails, scanVars
    <3>5. CASE \/ \E q \in Acking : AckBegins(q) \/ AckEnds(q)
               \/ ResultTold \/ DispatchTold \/ CycleEnds \/ ExpiryTold
               \/ PullBegins \/ PullEnds \/ RefusalTold
      BY <3>5 DEF AckBegins, AckEnds, ResultTold, DispatchTold, CycleEnds, ExpiryTold,
                  PullBegins, PullEnds, RefusalTold, scanVars
    <3>6. CASE ConnectDatabase \/ SendDummy \/ ShowProbes
      BY <3>6 DEF ConnectDatabase, SendDummy, ShowProbes, scanVars
    <3>7. QED
      BY <1>2, <2>2, <3>1, <3>2, <3>3, <3>4, <3>5, <3>6 DEF HubStep
  <2>3. QED
    BY <2>1, <2>2
<1>3. CASE (\E a \in Address : EntersSetup(a)) \/ PowerLoss
  BY <1>3 DEF EntersSetup, PowerLoss, Reset, ScanNext, scanVars
<1>4. CASE UNCHANGED cycleVars
  BY <1>4 DEF cycleVars, scanVars
<1>5. QED
  BY <1>1, <1>2, <1>3, <1>4 DEF CycleNext

(* The gate is held in critical sections alone: each of them, also a       *)
(* session that goes on in the closure, lets go of it on every way out.    *)
Held == gate => pc \in Inside

(* While a reading is uploaded there is an attempt left, and something to  *)
(* tell while an ack is sent.                                              *)
Uploading ==
    /\ pc \in {"dispatch", "upload", "attempt"} => logged = None /\ tries < MaxAttempts
    /\ pc \in {AckOf[p] : p \in Acking} => acks > 0

CycleInv == ScanInv /\ CycleTypeOK /\ Held /\ Uploading /\ UploadIsHonest

(* The parts of CycleInv that are not about the scan. *)
Rest == CycleTypeOK /\ Held /\ Uploading /\ UploadIsHonest

(* A confirmation, arrived or not, leaves probes and database well-typed.  *)
LEMMA ConfirmType ==
    ASSUME CycleTypeOK, NEW a \in Address, Confirm(a)
    PROVE  mode' \in [Address -> {"Normal", "Setup"}] /\ known' \subseteq Node
BY DEF Confirm, CycleTypeOK

(* The candidate at hand. *)
LEMMA TodoType ==
    ASSUME CycleTypeOK, todo # <<>>
    PROVE  /\ Head(todo) \in Candidate /\ Head(todo).addr \in Address
           /\ Tail(todo) \in Seq(Candidate)
<1>1. Head(todo) \in Candidate /\ Tail(todo) \in Seq(Candidate)
  BY DEF CycleTypeOK
<1>2. QED
  BY <1>1 DEF Candidate

(* The places in front of an ack and inside of it, and all places.         *)
LEMMA AckPlaces ==
    /\ Acking = {"apply", "complete", "expire", "store"}
    /\ AckOf["apply"] = "ack result" /\ AckOf["complete"] = "ack dispatch"
    /\ AckOf["expire"] = "ack expiry" /\ AckOf["store"] = "ack refusal"
    /\ {AckOf[p] : p \in Acking} =
           {"ack result", "ack dispatch", "ack expiry", "ack refusal"}
    /\ Inside = {"scan", "confirm", "session", "dispatch", "attempt", "pulling",
                 "ack result", "ack dispatch", "ack expiry", "ack refusal"}
    /\ Places = {"scan", "confirm", "session", "dispatch", "attempt", "pulling",
                 "ack result", "ack dispatch", "ack expiry", "ack refusal",
                 "apply", "complete", "expire", "store",
                 "begin", "next", "upload", "pull", "send", "done"}
<1>1. Acking = {"apply", "complete", "expire", "store"}
  BY DEF Acking, AckOf
<1>2. /\ AckOf["apply"] = "ack result" /\ AckOf["complete"] = "ack dispatch"
      /\ AckOf["expire"] = "ack expiry" /\ AckOf["store"] = "ack refusal"
  BY DEF AckOf
<1>3. {AckOf[p] : p \in Acking} = {"ack result", "ack dispatch", "ack expiry", "ack refusal"}
  BY <1>1, <1>2
<1>4. QED
  BY <1>1, <1>2, <1>3 DEF Inside, Places

(* The scan, and whoever interrupts it, disturb nothing else               *)
(* (main.rs:92-153).                                                       *)
LEMMA ScanningStep ==
    ASSUME ScanInv, ScanInv', Rest,
           \/ BeginScan \/ ScanDone \/ ScanFails \/ HearsSome
           \/ PowerLoss \/ RestartAfterProvisioning
           \/ \E a \in Address : EntersSetup(a)
    PROVE  Rest'
<1>0. /\ ScanTypeOK' /\ seen \in Seq(Candidate)
      /\ <<>> \in Seq(Candidate) /\ <<>> \in Seq(Found)
  BY DEF ScanInv, ScanTypeOK
<1> USE <1>0, CycleAssumption
    DEF Rest, CycleTypeOK, Held, Uploading, UploadIsHonest, Lock, Unlock
<1>1. CASE BeginScan
  <2>1. CycleTypeOK'
    BY AckPlaces, <1>1 DEF BeginScan, world, upload, setup
  <2>2. Held' /\ Uploading' /\ UploadIsHonest'
    BY AckPlaces, <1>1 DEF BeginScan, upload
  <2>3. QED
    BY <2>1, <2>2
<1>2. CASE ScanDone \/ ScanFails
  <2>1. CycleTypeOK'
    BY AckPlaces, <1>2 DEF ScanDone, ScanFails, ScanGives, world, upload, setup
  <2>2. Held' /\ Uploading' /\ UploadIsHonest'
    BY AckPlaces, <1>2 DEF ScanDone, ScanFails, ScanGives, upload
  <2>3. QED
    BY <2>1, <2>2
<1>3. CASE HearsSome
  <2>1. pc = "scan" /\ UNCHANGED <<world, pc, prov, gate, acks, todo, setup, upload>>
    BY <1>3 DEF HearsSome, Hears
  <2>2. CycleTypeOK'
    BY AckPlaces, <2>1 DEF world, upload, setup
  <2>3. Held' /\ Uploading' /\ UploadIsHonest'
    BY AckPlaces, <2>1 DEF upload
  <2>4. QED
    BY <2>2, <2>3
<1>4. CASE PowerLoss \/ RestartAfterProvisioning
  <2>1. Reset
    BY <1>4 DEF PowerLoss, RestartAfterProvisioning
  <2>2. CycleTypeOK'
    <3>1. 0 \in 0..MaxAttempts /\ 0 \in Nat
      OBVIOUS
    <3>2. UNCHANGED <<mode, known>>
      BY <2>1 DEF Reset, world
    <3>3. QED
      BY <2>1, <3>1, <3>2, AckPlaces DEF Reset
  <2>3. Held' /\ Uploading' /\ UploadIsHonest'
    BY AckPlaces, <2>1 DEF Reset
  <2>4. QED
    BY <2>2, <2>3
<1>5. ASSUME NEW a \in Address, EntersSetup(a)
      PROVE  Rest'
  <2>1. CycleTypeOK'
    BY AckPlaces, <1>5 DEF EntersSetup, upload, setup
  <2>2. Held' /\ Uploading' /\ UploadIsHonest'
    BY AckPlaces, <1>5 DEF EntersSetup, upload
  <2>3. QED
    BY <2>1, <2>2
<1>6. QED
  BY <1>1, <1>2, <1>3, <1>4, <1>5

(* Passing a candidate by, or visiting it without a reading, disturbs      *)
(* nothing else (ble.rs:234-292).                                          *)
LEMMA VisitStep ==
    ASSUME ScanInv', Rest,
           \/ PassNormal \/ PickUpFails \/ VisitBegins \/ Acknowledge
           \/ AcknowledgeFails \/ SessionFails \/ Dispatch
    PROVE  Rest'
<1>0. ScanTypeOK' /\ (todo # <<>> => Tail(todo) \in Seq(Candidate))
  BY TodoType DEF ScanInv, Rest
<1> USE <1>0 DEF Rest, Lock, Unlock
<1>1. CASE PassNormal \/ PickUpFails \/ Acknowledge \/ AcknowledgeFails \/ SessionFails
  <2>1. /\ pc \in {"next", "confirm", "session"} /\ pc' = "next"
        /\ todo # <<>> /\ todo' = Tail(todo)
        /\ Confirm(Head(todo).addr) \/ UNCHANGED world
        /\ UNCHANGED <<prov, acks, setup, upload>>
    BY <1>1 DEF PassNormal, PickUpFails, Acknowledge, AcknowledgeFails, SessionFails,
                VisitEnds, Visiting, CycleTypeOK
  <2>2. gate' = FALSE
    <3>1. CASE PassNormal \/ PickUpFails
      BY <3>1, AckPlaces DEF PassNormal, PickUpFails, Visiting, Held, CycleTypeOK
    <3>2. CASE Acknowledge \/ AcknowledgeFails \/ SessionFails
      BY <3>2 DEF Acknowledge, AcknowledgeFails, SessionFails, VisitEnds
    <3>3. QED
      BY <1>1, <3>1, <3>2
  <2>3. mode' \in [Address -> {"Normal", "Setup"}] /\ known' \subseteq Node
    <3>1. CASE Confirm(Head(todo).addr)
      BY <2>1, <3>1, TodoType, ConfirmType
    <3>2. CASE UNCHANGED world
      BY <3>2 DEF world, CycleTypeOK
    <3>3. QED
      BY <2>1, <3>1, <3>2
  <2>4. CycleTypeOK'
    BY AckPlaces, <2>1, <2>2, <2>3 DEF CycleTypeOK, setup, upload
  <2>5. Held' /\ Uploading' /\ UploadIsHonest'
    BY AckPlaces, <2>1, <2>2 DEF Held, Uploading, UploadIsHonest, upload
  <2>6. QED
    BY <2>4, <2>5
<1>2. CASE VisitBegins
  <2>1. CycleTypeOK'
    BY AckPlaces, <1>2 DEF VisitBegins, Visiting, CycleTypeOK, world, setup, upload
  <2>2. Held' /\ Uploading' /\ UploadIsHonest'
    BY AckPlaces, <1>2 DEF VisitBegins, Held, Uploading, UploadIsHonest, upload
  <2>3. QED
    BY <2>1, <2>2
<1>3. CASE Dispatch
  <2>1. CycleTypeOK'
    BY AckPlaces, <1>3 DEF Dispatch, CycleTypeOK, world, setup, upload
  <2>2. Held' /\ Uploading' /\ UploadIsHonest'
    BY AckPlaces, <1>3 DEF Dispatch, Held, Uploading, UploadIsHonest, upload
  <2>3. QED
    BY <2>1, <2>2
<1>4. QED
  BY <1>1, <1>2, <1>3

(* Acks and pulls take the gate and let go of it, and disturb nothing else *)
(* (polling.rs:49-82, main.rs:234-293).                                    *)
LEMMA PollerStep ==
    ASSUME ScanInv', Rest,
           \/ \E q \in Acking : AckBegins(q) \/ AckEnds(q)
           \/ ResultTold \/ DispatchTold \/ CycleEnds
           \/ ExpiryTold \/ PullBegins \/ PullEnds \/ RefusalTold
    PROVE  Rest'
<1>0. ScanTypeOK' /\ (todo # <<>> => Tail(todo) \in Seq(Candidate))
  BY TodoType DEF ScanInv, Rest
<1>1. UNCHANGED <<world, prov, setup, upload>>
  BY DEF AckBegins, AckEnds, ResultTold, DispatchTold, CycleEnds, ExpiryTold,
         PullBegins, PullEnds, RefusalTold
<1> USE <1>0, <1>1, CycleAssumption
    DEF Rest, Lock, Unlock, CycleTypeOK, Held, Uploading, UploadIsHonest,
        world, setup, upload
<1>2. ASSUME NEW q \in Acking, AckBegins(q) \/ AckEnds(q)
      PROVE  Rest'
  <2>1. CASE AckBegins(q)
    <3>1. /\ UNCHANGED <<acks, todo>> /\ acks > 0 /\ gate' = TRUE
          /\ pc = q /\ pc' = AckOf[q]
      BY <2>1 DEF AckBegins
    <3>2. CycleTypeOK'
      BY <3>1, AckPlaces
    <3>3. Held' /\ Uploading' /\ UploadIsHonest'
      BY <3>1, AckPlaces
    <3>4. QED
      BY <3>2, <3>3
  <2>2. CASE AckEnds(q)
    <3>1. /\ UNCHANGED todo /\ acks > 0 /\ acks' = acks - 1 /\ gate' = FALSE
          /\ pc = AckOf[q] /\ pc' = q
      BY <2>2 DEF AckEnds
    <3>2. acks' \in Nat
      BY <3>1
    <3>3. CycleTypeOK'
      BY <3>1, <3>2, AckPlaces
    <3>4. Held' /\ Uploading' /\ UploadIsHonest'
      BY <3>1, AckPlaces
    <3>5. QED
      BY <3>3, <3>4
  <2>3. QED
    BY <1>2, <2>1, <2>2
<1>3. ASSUME \/ ResultTold \/ DispatchTold \/ CycleEnds
             \/ ExpiryTold \/ PullBegins \/ PullEnds \/ RefusalTold
      PROVE  Rest'
  <2>1. /\ acks' \in Nat /\ todo' \in Seq(Candidate)
        /\ pc' \in {"complete", "next", "expire", "pull", "pulling", "store", "begin"}
        /\ gate' => pc' = "pulling"
        /\ pc' = "complete" => reading # None /\ todo' # <<>>
    <3>1. CASE PullBegins \/ PullEnds
      BY <3>1 DEF PullBegins, PullEnds
    <3>2. CASE CycleEnds
      <4>1. 0..MaxPending \subseteq Nat
        OBVIOUS
      <4>2. ~gate
        BY <3>2, AckPlaces DEF CycleEnds
      <4>3. QED
        BY <3>2, <4>1, <4>2 DEF CycleEnds
    <3>3. CASE ResultTold \/ DispatchTold \/ ExpiryTold \/ RefusalTold
      <4>1. ~gate
        BY <3>3, AckPlaces DEF ResultTold, DispatchTold, ExpiryTold, RefusalTold, AcksDone
      <4>2. CASE ResultTold
        <5>1. pc = "apply" /\ reading # None /\ todo # <<>>
          BY <4>2 DEF ResultTold, AcksDone
        <5>2. QED
          BY <4>1, <4>2, <5>1 DEF ResultTold
      <4>3. CASE DispatchTold
        <5>1. pc = "complete" /\ todo # <<>>
          BY <4>3 DEF DispatchTold, AcksDone
        <5>2. QED
          BY <4>1, <4>3, <5>1 DEF DispatchTold
      <4>4. CASE ExpiryTold \/ RefusalTold
        BY <4>1, <4>4 DEF ExpiryTold, RefusalTold
      <4>5. QED
        BY <3>3, <4>2, <4>3, <4>4
    <3>4. QED
      BY <1>3, <3>1, <3>2, <3>3
  <2>2. UNCHANGED <<mode, known, prov, found, unsent, reading, tries, copies, logged>>
    BY <1>1
  <2>3. gate' \in BOOLEAN
    BY <1>3 DEF ResultTold, DispatchTold, CycleEnds, ExpiryTold, PullBegins, PullEnds,
                RefusalTold
  <2>4. /\ pc' \in Places
        /\ pc' \in {"confirm", "session"} => todo' # <<>>
        /\ pc' \in {"dispatch", "upload", "attempt", "apply",
                   AckOf["apply"], "complete", AckOf["complete"]}
             => reading' # None /\ todo' # <<>>
    BY <2>1, <2>2, AckPlaces
  <2>5. CycleTypeOK'
    BY <2>1, <2>2, <2>3, <2>4
  <2>6. Held' /\ Uploading' /\ UploadIsHonest'
    BY <2>1, <2>2, AckPlaces
  <2>7. QED
    BY <2>5, <2>6
<1>4. QED
  BY <1>2, <1>3

(* Of a reading the log and the attempt counter tell the truth             *)
(* (main.rs:296-371).                                                      *)
LEMMA UploadStep ==
    ASSUME ScanInv', Rest,
           \/ UploadBegins \/ UploadOk \/ UploadRejected \/ UploadUnanswered
           \/ \E a \in Address : \E n \in NodeIds[a] : SessionReads(a, n)
    PROVE  Rest'
<1> USE CycleAssumption DEF Lock, Unlock
<1>0. ScanTypeOK'
  BY DEF ScanInv
<1>1. ASSUME NEW a \in Address, NEW n \in NodeIds[a], SessionReads(a, n)
      PROVE  Rest'
  <2>1. n \in Node
    OBVIOUS
  <2>2. reading' \in Found /\ reading' # None
    BY <1>1, <2>1 DEF SessionReads, Found
  <2>3. CycleTypeOK'
    <3>1. 0 \in 0..MaxAttempts /\ 0 \in Nat
      OBVIOUS
    <3>2. QED
      BY AckPlaces, <1>0, <1>1, <2>2, <3>1 DEF SessionReads, Rest, CycleTypeOK, world, setup
  <2>4. Held' /\ Uploading' /\ UploadIsHonest'
    <3>1. 0 < MaxAttempts
      OBVIOUS
    <3>2. QED
      BY AckPlaces, <1>1, <3>1 DEF SessionReads, Rest, Held, Uploading, UploadIsHonest
  <2>5. QED
    BY <2>3, <2>4 DEF Rest
<1>2. CASE UploadBegins
  <2>1. CycleTypeOK'
    BY AckPlaces, <1>0, <1>2 DEF UploadBegins, Rest, CycleTypeOK, world, setup, upload
  <2>2. Held' /\ Uploading' /\ UploadIsHonest'
    BY AckPlaces, <1>2 DEF UploadBegins, Rest, Held, Uploading, UploadIsHonest, upload
  <2>3. QED
    BY <2>1, <2>2 DEF Rest
<1>3. ASSUME UploadOk \/ UploadRejected \/ UploadUnanswered
      PROVE  Rest'
  <2>1. /\ pc = "attempt" /\ gate' = FALSE /\ logged = None
        /\ tries \in Nat /\ tries < MaxAttempts /\ tries' = tries + 1
        /\ reading \in Found /\ reading # None /\ todo # <<>> /\ copies \in Nat
    BY <1>3 DEF UploadOk, UploadRejected, UploadUnanswered, Attempt, Rest,
                Uploading, CycleTypeOK
  <2>2. /\ UNCHANGED <<prov, todo, setup, reading>>
        /\ \/ Uploaded /\ copies' = copies + 1
           \/ AttemptFails
    BY <1>3 DEF UploadOk, UploadRejected, UploadUnanswered, Uploaded, AttemptFails,
                IsStored
  <2>3. UNCHANGED mode /\ known' \subseteq Node /\ copies' \in Nat
    <3>1. CASE IsStored
      BY <2>1, <3>1 DEF IsStored, Store, Found, Rest, CycleTypeOK
    <3>2. CASE NotStored
      BY <2>1, <3>2 DEF NotStored, world, Rest, CycleTypeOK
    <3>3. QED
      BY <1>3, <3>1, <3>2 DEF UploadOk, UploadRejected, UploadUnanswered
  <2>4. /\ pc' \in {"upload", "apply"} /\ logged' \in {None, "ok", "dropped"}
        /\ acks' \in Nat
        /\ pc' = "upload" => logged' = None /\ tries' < MaxAttempts
        /\ UploadIsHonest'
    <3>1. CASE Uploaded /\ copies' = copies + 1
      BY <2>1, <3>1 DEF Uploaded, Settles, UploadIsHonest
    <3>2. CASE AttemptFails /\ tries' < MaxAttempts
      BY <2>1, <3>2 DEF AttemptFails, UploadIsHonest, Rest, CycleTypeOK
    <3>3. CASE AttemptFails /\ ~(tries' < MaxAttempts)
      BY <2>1, <3>3 DEF AttemptFails, Settles, UploadIsHonest
    <3>4. QED
      BY <2>2, <3>1, <3>2, <3>3
  <2>5. CycleTypeOK'
    <3>1. tries' \in 0..MaxAttempts
      BY <2>1
    <3>2. QED
      BY <1>0, <2>1, <2>2, <2>3, <2>4, <3>1, AckPlaces DEF Rest, CycleTypeOK, setup
  <2>6. Held' /\ Uploading'
    BY AckPlaces, <2>1, <2>4 DEF Held, Uploading
  <2>7. QED
    BY <2>4, <2>5, <2>6 DEF Rest
<1>4. QED
  BY <1>1, <1>2, <1>3

(* Provisioning takes no gate, and uploads nothing (wifi_prov.rs:202-239). *)
LEMMA ProvisioningStep ==
    ASSUME ScanInv', Rest,
           \/ ConnectDatabase \/ SendDummy \/ ShowProbes
           \/ \E c \in ToSet(todo) : \E n \in NodeIds[c.addr] : PickUp(c, n)
    PROVE  Rest'
<1> USE CycleAssumption
<1>0. ScanTypeOK'
  BY DEF ScanInv
<1>1. ASSUME NEW c, NEW n \in NodeIds[c.addr], PickUp(c, n)
      PROVE  Rest'
  <2>1. /\ pc = "next" /\ todo # <<>> /\ todo' = Tail(todo) /\ c = Head(todo)
        /\ Confirm(c.addr)
        /\ found' = Append(found, [addr |-> c.addr, node |-> n])
        /\ UNCHANGED <<pc, prov, gate, acks, unsent, shown, upload>>
    BY <1>1 DEF PickUp, Visiting
  <2>2. c.addr \in Address /\ Tail(todo) \in Seq(Candidate)
    BY <2>1, TodoType DEF Rest
  <2>3. mode' \in [Address -> {"Normal", "Setup"}] /\ known' \subseteq Node
    BY <2>1, <2>2, ConfirmType DEF Rest
  <2>4. found' \in Seq(Found)
    BY <2>1, <2>2 DEF Found, Rest, CycleTypeOK
  <2>5. CycleTypeOK'
    BY AckPlaces, <1>0, <2>1, <2>2, <2>3, <2>4 DEF Rest, CycleTypeOK, upload
  <2>6. Held' /\ Uploading' /\ UploadIsHonest'
    BY AckPlaces, <2>1 DEF Rest, Held, Uploading, UploadIsHonest, upload
  <2>7. QED
    BY <2>5, <2>6 DEF Rest
<1>2. CASE ConnectDatabase
  <2>0. unsent' \in Seq(Found)
    <3>1. found \in Seq(Found) /\ <<>> \in Seq(Found)
      BY DEF Rest, CycleTypeOK
    <3>2. unsent' = found \/ unsent' = <<>>
      BY <1>2 DEF ConnectDatabase
    <3>3. QED
      BY <3>1, <3>2
  <2>1. CycleTypeOK'
    BY AckPlaces, <1>0, <1>2, <2>0 DEF ConnectDatabase, Rest, CycleTypeOK, world, upload
  <2>2. Held' /\ Uploading' /\ UploadIsHonest'
    BY AckPlaces, <1>2 DEF ConnectDatabase, Rest, Held, Uploading, UploadIsHonest, upload
  <2>3. QED
    BY <2>1, <2>2 DEF Rest
<1>3. CASE SendDummy
  <2>1. Head(unsent) \in Found /\ Tail(unsent) \in Seq(Found)
    BY <1>3 DEF SendDummy, Rest, CycleTypeOK
  <2>2. UNCHANGED mode /\ known' \subseteq Node
    BY <1>3, <2>1 DEF SendDummy, Store, world, Found, Rest, CycleTypeOK
  <2>3. CycleTypeOK'
    BY AckPlaces, <1>0, <1>3, <2>1, <2>2 DEF SendDummy, Rest, CycleTypeOK, upload
  <2>4. Held' /\ Uploading' /\ UploadIsHonest'
    BY AckPlaces, <1>3 DEF SendDummy, Rest, Held, Uploading, UploadIsHonest, upload
  <2>5. QED
    BY <2>3, <2>4 DEF Rest
<1>4. CASE ShowProbes
  <2>1. CycleTypeOK'
    BY AckPlaces, <1>0, <1>4 DEF ShowProbes, Rest, CycleTypeOK, world, upload
  <2>2. Held' /\ Uploading' /\ UploadIsHonest'
    BY AckPlaces, <1>4 DEF ShowProbes, Rest, Held, Uploading, UploadIsHonest, upload
  <2>3. QED
    BY <2>1, <2>2 DEF Rest
<1>5. QED
  BY <1>1, <1>2, <1>3, <1>4

(* No step of the loop or of provisioning breaks what the others rely on.  *)
LEMMA CycleStep ==
    ASSUME CycleInv, [CycleNext]_cycleVars
    PROVE  CycleInv'
<1>1. ScanInv'
  BY CycleScans, ScanStep DEF CycleInv
<1>2. Rest
  BY DEF CycleInv, Rest
<1>3. ASSUME CycleNext
      PROVE  Rest'
  <2>1. CASE \/ BeginScan \/ ScanDone \/ ScanFails \/ HearsSome
             \/ PowerLoss \/ RestartAfterProvisioning
             \/ \E a \in Address : EntersSetup(a)
    <3>1. ScanInv
      BY DEF CycleInv
    <3>2. QED
      BY <1>1, <1>2, <2>1, <3>1, ScanningStep
  <2>2. CASE \/ PassNormal \/ PickUpFails \/ VisitBegins \/ Acknowledge
             \/ AcknowledgeFails \/ SessionFails \/ Dispatch
    BY <1>1, <1>2, <2>2, VisitStep
  <2>3. CASE \/ \E q \in Acking : AckBegins(q) \/ AckEnds(q)
             \/ ResultTold \/ DispatchTold \/ CycleEnds
             \/ ExpiryTold \/ PullBegins \/ PullEnds \/ RefusalTold
    BY <1>1, <1>2, <2>3, PollerStep
  <2>4. CASE \/ UploadBegins \/ UploadOk \/ UploadRejected \/ UploadUnanswered
             \/ \E a \in Address : \E n \in NodeIds[a] : SessionReads(a, n)
    BY <1>1, <1>2, <2>4, UploadStep
  <2>5. CASE \/ ConnectDatabase \/ SendDummy \/ ShowProbes
             \/ \E c \in ToSet(todo) : \E n \in NodeIds[c.addr] : PickUp(c, n)
    BY <1>1, <1>2, <2>5, ProvisioningStep
  <2>6. QED
    BY <1>3, <2>1, <2>2, <2>3, <2>4, <2>5 DEF CycleNext, HubStep
<1>4. ASSUME UNCHANGED cycleVars
      PROVE  Rest'
  <2>1. UNCHANGED <<mode, known, pc, prov, gate, acks, todo, found, unsent,
                    reading, tries, copies, logged>>
    BY <1>4 DEF cycleVars, world, setup, upload
  <2>2. CycleTypeOK'
    BY AckPlaces, <1>1, <1>2, <2>1 DEF ScanInv, Rest, CycleTypeOK
  <2>3. Held' /\ Uploading' /\ UploadIsHonest'
    BY AckPlaces, <1>2, <2>1 DEF Rest, Held, Uploading, UploadIsHonest
  <2>4. QED
    BY <2>2, <2>3 DEF Rest
<1>5. Rest'
  BY <1>3, <1>4
<1>6. QED
  BY <1>1, <1>5 DEF CycleInv, Rest

(* Provisioning begins with an empty list, and nobody holds the gate.      *)
LEMMA CycleStarts ==
    ASSUME CycleInit
    PROVE  CycleInv
<1> USE CycleAssumption
<1>1. ScanInv
  BY ScanStarts DEF CycleInit, ScanInit
<1>2. CycleTypeOK
  <2>1. <<>> \in Seq(Candidate) /\ <<>> \in Seq(Found)
    OBVIOUS
  <2>2. 0 \in 0..MaxAttempts /\ 0 \in Nat
    OBVIOUS
  <2>3. QED
    BY <1>1, <2>1, <2>2, AckPlaces DEF CycleInit, CycleTypeOK, ScanInv
<1>3. Held /\ Uploading /\ UploadIsHonest
  BY AckPlaces DEF CycleInit, Held, Uploading, UploadIsHonest
<1>4. QED
  BY <1>1, <1>2, <1>3 DEF CycleInv

(* List, gate and upload are right at all times                            *)
(* (main.rs:106-371, wifi_prov.rs:202-344).                                *)
THEOREM CycleCorrect == CycleSpec => []CycleInv
<1>1. CycleInit => CycleInv
  BY CycleStarts
<1>2. CycleInv /\ [CycleNext]_cycleVars => CycleInv'
  BY CycleStep
<1>3. QED
  BY <1>1, <1>2, PTL DEF CycleSpec

----------------------------------------------------------------------------
(* The state of hub, probes and database is well-typed.                    *)
THEOREM CycleTypeCorrect == CycleSpec => []CycleTypeOK
<1>1. CycleInv => CycleTypeOK
  BY DEF CycleInv
<1>2. QED
  BY <1>1, CycleCorrect, PTL

(* Setup mode is neither missed nor lost, in whatever order packets come.  *)
THEOREM SetupCorrect == CycleSpec => []SetupIsNotLost
<1>1. CycleInv => SetupIsNotLost
  BY DEF CycleInv, ScanInv
<1>2. QED
  BY <1>1, CycleCorrect, PTL

(* Candidates are as one of their packets described them.                  *)
THEOREM MetaCorrect == CycleSpec => []MetaWasHeard
<1>1. CycleInv => MetaWasHeard
  BY DEF CycleInv, ScanInv
<1>2. QED
  BY <1>1, CycleCorrect, PTL

(* "uplink ok" is only logged of what is stored.                           *)
THEOREM UploadCorrect == CycleSpec => []UploadIsHonest
<1>1. CycleInv => UploadIsHonest
  BY DEF CycleInv
<1>2. QED
  BY <1>1, CycleCorrect, PTL

(* polling.rs RadioMemoryGate: the thread never asks for the gate while it *)
(* holds it, wherever in scan, session, upload, ack or poll it is.         *)
THEOREM GateCorrect == CycleSpec => []NoSelfDeadlock
<1>1. CycleInv => NoSelfDeadlock
  BY AckPlaces DEF CycleInv, Held, NoSelfDeadlock, Asks
<1>2. QED
  BY <1>1, CycleCorrect, PTL

----------------------------------------------------------------------------
(* The list shown to the app.  encode_setup_probes is a loop; what it      *)
(* computes is proved by induction over the probes it has seen.            *)

(* What the loop over the Setup probes has taken.                          *)
Taken == [lines : Seq(Found), bytes : Nat, full : BOOLEAN]

(* The loop's body takes what the loop carries to such                     *)
(* (wifi_prov.rs:350-364).                                                 *)
LEMMA AddLineType ==
    ASSUME NEW acc \in Taken, NEW p \in Found
    PROVE  AddLine(acc, p) \in Taken
<1>1. LineLength[p.node] \in Nat
  BY CycleAssumption DEF Found
<1>2. acc.bytes + Separator(acc.bytes) + LineLength[p.node] \in Nat
  BY <1>1 DEF Taken, Separator
<1>3. Append(acc.lines, p) \in Seq(Found)
  BY DEF Taken
<1> QED
  BY <1>2, <1>3 DEF AddLine, Taken

(* The loop computes: its accumulator is defined after every probe.        *)
LEMMA EncodingDef ==
    ASSUME NEW probes \in Seq(Found)
    PROVE  /\ Encoding(probes) \in [0..Len(probes) -> Taken]
           /\ Encoding(probes)[0] = [lines |-> <<>>, bytes |-> 0, full |-> FALSE]
           /\ \A k \in 1..Len(probes) :
                 Encoding(probes)[k] = AddLine(Encoding(probes)[k - 1], probes[k])
<1> DEFINE N == Len(probes)
           base == [lines |-> <<>>, bytes |-> 0, full |-> FALSE]
           step == [k \in 1..N |-> [a \in Taken |-> AddLine(a, probes[k])]]
           Is(f) == f = [k \in 0..N |-> IF k = 0 THEN base ELSE AddLine(f[k - 1], probes[k])]
<1>1. N \in Nat /\ base \in Taken /\ \A k \in 1..N : probes[k] \in Found
  BY DEF Taken
<1>2. step \in [1..N -> [Taken -> Taken]]
  BY <1>1, AddLineType
<1>3. PICK f \in [0..N -> Taken] : f[0] = base /\ \A k \in 1..N : f[k] = step[k][f[k - 1]]
  <2>1. N \in Nat /\ base \in Taken
    BY <1>1
  <2> HIDE DEF N, base, step
  <2> QED
    BY <2>1, <1>2, LoopRuns
<1>4. \A k \in 1..N : f[k] = AddLine(f[k - 1], probes[k])
  <2> HIDE DEF base
  <2> SUFFICES ASSUME NEW k \in 1..N PROVE f[k] = AddLine(f[k - 1], probes[k])
    OBVIOUS
  <2>1. f[k - 1] \in Taken
    BY <1>1
  <2> QED
    BY <1>3, <2>1
<1>5. Is(f)
  <2> HIDE DEF N, base
  <2>1. \A k \in 0..N : f[k] = IF k = 0 THEN base ELSE AddLine(f[k - 1], probes[k])
    BY <1>1, <1>3, <1>4
  <2> QED
    BY <2>1
<1>6. Is(Encoding(probes))
  <2>1. Encoding(probes) = CHOOSE g : Is(g)
    BY Zenon DEF Encoding
  <2> HIDE DEF Is
  <2> QED
    BY <1>5, <2>1
<1>7. \A k \in 0..N : Encoding(probes)[k] =
         IF k = 0 THEN base ELSE AddLine(Encoding(probes)[k - 1], probes[k])
  <2> DEFINE e == Encoding(probes)
  <2> HIDE DEF base, N, e
  <2>1. Is(e)
    BY <1>6 DEF e
  <2> QED
    BY <2>1 DEF e
<1>8. \A k \in 0..N : k \in {j \in 0..N : Encoding(probes)[j] \in Taken}
  <2> DEFINE S == {j \in 0..N : Encoding(probes)[j] \in Taken}
  <2>1. 0 \in S
    BY <1>1, <1>7
  <2>2. ASSUME NEW k \in 0..(N - 1), k \in S
        PROVE  k + 1 \in S
    <3>1. k + 1 \in 0..N /\ k + 1 # 0 /\ (k + 1) - 1 = k /\ probes[k + 1] \in Found
      BY <1>1
    <3>2. Encoding(probes)[k + 1] = AddLine(Encoding(probes)[k], probes[k + 1])
      <4> HIDE DEF N, base
      <4> QED
        BY <3>1, <1>7
    <3>3. Encoding(probes)[k] \in Taken
      BY <2>2
    <3> QED
      BY <3>1, <3>2, <3>3, AddLineType
  <2> HIDE DEF S, N
  <2>3. 0..N \subseteq S
    BY <1>1, <2>1, <2>2, UpTo
  <2> QED
    BY <2>3 DEF S
<1>9. Encoding(probes) = [k \in 0..N |-> Encoding(probes)[k]]
  <2> DEFINE e == Encoding(probes)
  <2> HIDE DEF base, N, e
  <2>1. Is(e)
    BY <1>6 DEF e
  <2>2. e = [k \in 0..N |-> e[k]]
    BY <2>1
  <2> QED
    BY <2>2 DEF e
<1> QED
  <2> DEFINE e == Encoding(probes)
  <2> HIDE DEF base, e
  <2>1. e = [k \in 0..N |-> e[k]] /\ \A k \in 0..N : e[k] \in Taken
    BY <1>8, <1>9 DEF e
  <2>2. e[0] = base /\ \A k \in 1..N : e[k] = AddLine(e[k - 1], probes[k])
    BY <1>1, <1>7 DEF e
  <2>3. e \in [0..N -> Taken]
    BY <2>1
  <2> QED
    BY <2>2, <2>3 DEF e, base

(* The lengths of the first lines of a list. *)
LEMMA LengthsDef ==
    ASSUME NEW lines \in Seq(Found)
    PROVE  /\ Lengths(lines) \in [0..Len(lines) -> Nat]
           /\ Lengths(lines)[0] = 0
           /\ \A k \in 1..Len(lines) :
                 Lengths(lines)[k] = Lengths(lines)[k - 1] + LineLength[lines[k].node]
<1> DEFINE N == Len(lines)
           L == [k \in 1..N |-> LineLength[lines[k].node]]
           Is(f) == f = [k \in 0..N |-> IF k = 0 THEN 0 ELSE f[k - 1] + LineLength[lines[k].node]]
           e == Lengths(lines)
<1>1. N \in Nat /\ \A k \in 1..N : L[k] = LineLength[lines[k].node] /\ L[k] \in Nat
  <2>1. \A p \in Found : LineLength[p.node] \in Nat
    BY CycleAssumption DEF Found
  <2>2. N \in Nat /\ \A k \in 1..N : lines[k] \in Found
    OBVIOUS
  <2> QED
    BY <2>1, <2>2
<1>2. PICK f \in [0..N -> Nat] : f[0] = 0 /\ \A k \in 1..N : f[k] = f[k - 1] + L[k]
  <2>1. N \in Nat /\ L \in [1..N -> Nat]
    BY <1>1
  <2> HIDE DEF N, L
  <2> QED
    BY <2>1, SumRuns
<1>5. Is(f)
  <2> HIDE DEF N
  <2> QED
    BY <1>1, <1>2
<1>6. Is(e)
  <2>1. e = CHOOSE g : Is(g)
    BY Zenon DEF Lengths
  <2> HIDE DEF Is, e
  <2> QED
    BY <1>5, <2>1
<1> HIDE DEF e, N
<1>7. /\ e = [k \in 0..N |-> e[k]]
      /\ \A k \in 0..N : e[k] = IF k = 0 THEN 0 ELSE e[k - 1] + LineLength[lines[k].node]
  <2> DEFINE G == [k \in 0..N |-> IF k = 0 THEN 0 ELSE e[k - 1] + LineLength[lines[k].node]]
  <2>1. e = G
    BY <1>6
  <2>2. /\ G = [k \in 0..N |-> G[k]]
        /\ \A k \in 0..N : G[k] = IF k = 0 THEN 0 ELSE e[k - 1] + LineLength[lines[k].node]
    OBVIOUS
  <2> HIDE DEF G
  <2> QED
    BY <2>1, <2>2
<1>8. e[0] = 0 /\ \A k \in 1..N : e[k] = e[k - 1] + LineLength[lines[k].node]
  <2>1. N \in Nat
    BY <1>1
  <2> QED
    BY <2>1, <1>7
<1>9. \A k \in 0..N : e[k] \in Nat
  <2> DEFINE S == {j \in 0..N : e[j] \in Nat}
  <2>1. 0 \in S
    BY <1>1, <1>8
  <2>2. ASSUME NEW k \in 0..(N - 1), k \in S
        PROVE  k + 1 \in S
    <3>1. k + 1 \in 1..N /\ k + 1 \in 0..N /\ (k + 1) - 1 = k
      BY <1>1
    <3>2. e[k + 1] = e[k] + LineLength[lines[k + 1].node] /\ e[k] \in Nat
      BY <1>8, <2>2, <3>1
    <3>3. LineLength[lines[k + 1].node] \in Nat
      BY <1>1, <3>1
    <3> QED
      BY <3>1, <3>2, <3>3
  <2>3. 0..N \subseteq S
    <3>1. N \in Nat
      BY <1>1
    <3> HIDE DEF S
    <3> QED
      BY <3>1, <2>1, <2>2, UpTo
  <2> QED
    BY <2>3
<1>10. e \in [0..N -> Nat]
  BY <1>7, <1>9
<1> QED
  BY <1>8, <1>10 DEF e, N

(* The bytes of the first m lines. *)
Size(lines, m) == Lengths(lines)[m] + (IF m = 0 THEN 0 ELSE m - 1)

(* The lengths of the lines of a beginning of the list are the first ones. *)
LEMMA BytesOfBeginning ==
    ASSUME NEW lines \in Seq(Found), NEW m \in 0..Len(lines)
    PROVE  Bytes(SubSeq(lines, 1, m)) = Size(lines, m)
<1> DEFINE sub == SubSeq(lines, 1, m)
           a == Lengths(sub)
           b == Lengths(lines)
           S == {k \in 0..m : a[k] = b[k]}
<1>1. /\ sub \in Seq(Found) /\ Len(sub) = m /\ m \in Nat /\ m <= Len(lines)
      /\ \A k \in 1..m : sub[k] = lines[k]
  OBVIOUS
<1>2. a[0] = 0 /\ \A k \in 1..m : a[k] = a[k - 1] + LineLength[lines[k].node]
  <2> HIDE DEF sub
  <2> QED
    BY <1>1, LengthsDef
<1>3. b[0] = 0 /\ \A k \in 1..m : b[k] = b[k - 1] + LineLength[lines[k].node]
  BY <1>1, LengthsDef
<1>4. 0..m \subseteq S
  <2> HIDE DEF a, b
  <2>1. 0 \in S
    BY <1>1, <1>2, <1>3
  <2>2. ASSUME NEW k \in 0..(m - 1), k \in S
        PROVE  k + 1 \in S
    <3>1. k + 1 \in 1..m /\ (k + 1) - 1 = k
      BY <1>1
    <3> QED
      BY <1>2, <1>3, <2>2, <3>1
  <2> HIDE DEF S
  <2> QED
    BY <1>1, <2>1, <2>2, UpTo
<1>5. a[m] = b[m]
  BY <1>1, <1>4
<1>6. sub = <<>> <=> m = 0
  <2> HIDE DEF sub
  <2> QED
    BY <1>1
<1> QED
  BY <1>1, <1>5, <1>6 DEF Bytes, Size

(* A line takes a separator unless it is the first; no line is empty.      *)
LEMMA NextSize ==
    ASSUME NEW lines \in Seq(Found)
    PROVE  /\ Size(lines, 0) = 0
           /\ \A m \in 0..Len(lines) : Size(lines, m) \in Nat
           /\ \A m \in 0..(Len(lines) - 1) :
                 Size(lines, m + 1) = Size(lines, m) + Separator(Size(lines, m))
                                        + LineLength[lines[m + 1].node]
<1> DEFINE N == Len(lines)
           b == Lengths(lines)
           S == {k \in 0..N : b[k] >= k}
<1>1. /\ N \in Nat
      /\ \A k \in 1..N : LineLength[lines[k].node] \in Nat /\ LineLength[lines[k].node] >= 1
  <2>1. \A p \in Found : LineLength[p.node] \in Nat /\ LineLength[p.node] >= 1
    BY CycleAssumption DEF Found
  <2>2. N \in Nat /\ \A k \in 1..N : lines[k] \in Found
    OBVIOUS
  <2> QED
    BY <2>1, <2>2
<1>2. /\ b \in [0..N -> Nat] /\ b[0] = 0
      /\ \A k \in 1..N : b[k] = b[k - 1] + LineLength[lines[k].node]
  BY LengthsDef
<1>3. 0..N \subseteq S
  <2> HIDE DEF b, N
  <2>1. 0 \in S
    BY <1>1, <1>2
  <2>2. ASSUME NEW k \in 0..(N - 1), k \in S
        PROVE  k + 1 \in S
    <3>1. k + 1 \in 1..N /\ k + 1 \in 0..N /\ (k + 1) - 1 = k /\ k \in 0..N
      BY <1>1
    <3>2. b[k] \in Nat /\ b[k] >= k
      BY <1>2, <2>2, <3>1
    <3>3. b[k + 1] = b[k] + LineLength[lines[k + 1].node]
      BY <1>2, <3>1
    <3> QED
      BY <1>1, <3>1, <3>2, <3>3
  <2> HIDE DEF S
  <2> QED
    BY <1>1, <2>1, <2>2, UpTo
<1>4. \A m \in 0..N : Size(lines, m) = b[m] + (IF m = 0 THEN 0 ELSE m - 1)
  BY DEF Size
<1>5. ASSUME NEW m \in 0..(N - 1)
      PROVE  Size(lines, m + 1) = Size(lines, m) + Separator(Size(lines, m))
                                        + LineLength[lines[m + 1].node]
  <2> HIDE DEF b, N
  <2>1. m \in 0..N /\ m + 1 \in 1..N /\ (m + 1) - 1 = m /\ m + 1 \in 0..N
    BY <1>1
  <2>2. b[m + 1] = b[m] + LineLength[lines[m + 1].node] /\ b[m] \in Nat /\ b[m] >= m
    BY <1>2, <1>3, <2>1
  <2>3. LineLength[lines[m + 1].node] \in Nat
    BY <1>1, <2>1
  <2>4. CASE m = 0
    <3>1. b[m] = 0 /\ Size(lines, m) = 0 /\ Size(lines, m + 1) = b[m + 1]
      BY <1>2, <1>4, <2>1, <2>4
    <3> QED
      BY <2>2, <2>3, <3>1 DEF Separator
  <2>5. CASE m # 0
    <3>1. Size(lines, m) = b[m] + (m - 1) /\ Size(lines, m + 1) = b[m + 1] + m
      BY <1>4, <2>1, <2>5
    <3>2. Size(lines, m) # 0
      BY <2>1, <2>2, <2>5, <3>1
    <3> QED
      BY <2>1, <2>2, <2>3, <3>1, <3>2 DEF Separator
  <2> QED
    BY <2>4, <2>5
<1>6. Size(lines, 0) = 0 /\ \A m \in 0..N : Size(lines, m) \in Nat
  <2> HIDE DEF b, N
  <2>1. 0 \in 0..N
    BY <1>1
  <2>2. ASSUME NEW m \in 0..N
        PROVE  Size(lines, m) \in Nat
    <3>1. b[m] \in Nat
      BY <1>2
    <3> QED
      BY <1>1, <1>4, <3>1
  <2> QED
    BY <1>2, <1>4, <2>1, <2>2
<1> QED
  BY <1>5, <1>6

(* After k probes the loop has taken the lines that fit: all of them, or,  *)
(* once one did not, those before it.                                      *)
Fits(probes, k, acc) ==
    /\ acc.lines = SubSeq(probes, 1, Len(acc.lines))
    /\ Len(acc.lines) <= k
    /\ acc.bytes = Size(probes, Len(acc.lines))
    /\ acc.bytes <= MaxBytes
    /\ ~acc.full => Len(acc.lines) = k
    /\ acc.full => Len(acc.lines) < k /\ Size(probes, Len(acc.lines) + 1) > MaxBytes

(* One round of the loop keeps what the rounds before have reached.        *)
LEMMA FitsStep ==
    ASSUME NEW probes \in Seq(Found), NEW k \in 0..(Len(probes) - 1),
           NEW acc \in Taken, Fits(probes, k, acc)
    PROVE  Fits(probes, k + 1, AddLine(acc, probes[k + 1]))
<1> DEFINE m == Len(acc.lines)
           p == probes[k + 1]
           size == acc.bytes + Separator(acc.bytes) + LineLength[p.node]
<1>1. m \in Nat /\ k \in Nat /\ k + 1 <= Len(probes) /\ p \in Found /\ acc.bytes \in Nat
  BY DEF Taken
<1>2. CASE acc.full
  <2>1. AddLine(acc, p) = [acc EXCEPT !.full = TRUE]
    BY <1>2 DEF AddLine
  <2>2. acc.full = TRUE
    BY <1>2 DEF Taken
  <2>3. AddLine(acc, p) = acc
    BY <2>1, <2>2 DEF Taken
  <2> QED
    BY <1>1, <1>2, <2>3 DEF Fits
<1>3. CASE ~acc.full
  <2>1. m = k /\ acc.bytes = Size(probes, k) /\ acc.lines = SubSeq(probes, 1, k)
    BY <1>3 DEF Fits
  <2>2. Size(probes, k + 1) = size /\ size \in Nat
    BY <2>1, NextSize
  <2>3. CASE size > MaxBytes
    <3>1. AddLine(acc, p) = [acc EXCEPT !.full = TRUE]
      BY <2>3 DEF AddLine
    <3>2. AddLine(acc, p).lines = acc.lines /\ AddLine(acc, p).bytes = acc.bytes
          /\ AddLine(acc, p).full = TRUE
      BY <3>1 DEF Taken
    <3> QED
      BY <1>1, <2>1, <2>2, <2>3, <3>2 DEF Fits
  <2>4. CASE ~(size > MaxBytes)
    <3>1. AddLine(acc, p) = [lines |-> Append(acc.lines, p), bytes |-> size, full |-> FALSE]
      BY <1>3, <2>4 DEF AddLine
    <3>2. Append(acc.lines, p) = SubSeq(probes, 1, k + 1)
      BY <1>1, <2>1
    <3>3. Len(Append(acc.lines, p)) = k + 1
      BY <1>1, <2>1 DEF Taken
    <3>4. size <= MaxBytes
      BY <2>2, <2>4, CycleAssumption
    <3> QED
      BY <2>2, <3>1, <3>2, <3>3, <3>4 DEF Fits
  <2> QED
    BY <2>3, <2>4
<1> QED
  BY <1>2, <1>3

(* What is shown is the longest beginning of the list that fits.           *)
LEMMA EncodeFits ==
    ASSUME NEW probes \in Seq(Found)
    PROVE  LET out == Encode(probes)
           IN  /\ out = SubSeq(probes, 1, Len(out))
               /\ Bytes(out) <= MaxBytes
               /\ Len(out) < Len(probes) =>
                     Bytes(SubSeq(probes, 1, Len(out) + 1)) > MaxBytes
<1> DEFINE N == Len(probes)
           e == Encoding(probes)
           S == {k \in 0..N : Fits(probes, k, e[k])}
<1>1. /\ N \in Nat /\ e \in [0..N -> Taken]
      /\ e[0] = [lines |-> <<>>, bytes |-> 0, full |-> FALSE]
      /\ \A k \in 1..N : e[k] = AddLine(e[k - 1], probes[k])
  BY EncodingDef
<1>2. 0..N \subseteq S
  <2>1. 0 \in S
    <3>1. Fits(probes, 0, e[0])
      <4> HIDE DEF e
      <4>1. SubSeq(probes, 1, 0) = <<>> /\ Len(<<>>) = 0
        OBVIOUS
      <4>2. Size(probes, 0) = 0 /\ MaxBytes \in Nat
        BY NextSize, CycleAssumption
      <4> QED
        BY <1>1, <4>1, <4>2 DEF Fits
    <3> QED
      BY <1>1, <3>1
  <2>2. ASSUME NEW k \in 0..(N - 1), k \in S
        PROVE  k + 1 \in S
    <3>1. k + 1 \in 1..N /\ k + 1 \in 0..N /\ k \in 0..N /\ (k + 1) - 1 = k
      BY <1>1
    <3>2. e[k] \in Taken /\ Fits(probes, k, e[k])
      BY <1>1, <2>2, <3>1
    <3>3. e[k + 1] = AddLine(e[k], probes[k + 1])
      <4> HIDE DEF e, N
      <4> QED
        BY <1>1, <3>1
    <3>4. Fits(probes, k + 1, AddLine(e[k], probes[k + 1]))
      <4> HIDE DEF e
      <4> QED
        BY <3>2, FitsStep
    <3> QED
      BY <3>1, <3>3, <3>4
  <2> HIDE DEF S, N
  <2> QED
    BY <1>1, <2>1, <2>2, UpTo
<1> DEFINE out == Encode(probes)
           m == Len(out)
<1>3. Fits(probes, N, e[N]) /\ e[N] \in Taken /\ out = e[N].lines
  BY <1>1, <1>2 DEF Encode
<1>4. out = SubSeq(probes, 1, m) /\ m \in 0..N /\ Size(probes, m) <= MaxBytes
  <2> HIDE DEF e
  <2> QED
    BY <1>1, <1>3 DEF Fits, Taken
<1>5. Bytes(SubSeq(probes, 1, m)) <= MaxBytes
  <2> HIDE DEF m, out
  <2> QED
    BY <1>4, BytesOfBeginning
<1>6. ASSUME m < N
      PROVE  Bytes(SubSeq(probes, 1, m + 1)) > MaxBytes
  <2>1. Size(probes, m + 1) > MaxBytes
    <3> HIDE DEF e
    <3> QED
      BY <1>1, <1>3, <1>6 DEF Fits, Taken
  <2>2. m + 1 \in 0..N
    BY <1>1, <1>4, <1>6
  <2> HIDE DEF m, out
  <2> QED
    BY <2>1, <2>2, BytesOfBeginning
<1>7. Bytes(out) <= MaxBytes
  <2> HIDE DEF out
  <2> QED
    BY <1>4, <1>5
<1> QED
  <2> HIDE DEF N
  <2> QED
    BY <1>4, <1>6, <1>7 DEF N

(* The list is shown when it has been encoded, and stays while it is shown *)
(* (wifi_prov.rs:226-239).                                                 *)
LEMMA ShownStep ==
    ASSUME CycleTypeOK, ShownFits, [CycleNext]_cycleVars
    PROVE  ShownFits'
<1>1. CASE ShowProbes
  <2>1. found \in Seq(Found) /\ shown' = Encode(found) /\ found' = found
    BY <1>1 DEF ShowProbes, CycleTypeOK
  <2>2. LET out == Encode(found)
        IN  /\ out = SubSeq(found, 1, Len(out))
            /\ Bytes(out) <= MaxBytes
            /\ Len(out) < Len(found) => Bytes(SubSeq(found, 1, Len(out) + 1)) > MaxBytes
    BY <2>1, EncodeFits
  <2> QED
    BY <2>1, <2>2 DEF ShownFits
<1>2. CASE UNCHANGED <<pc, found, shown>>
  BY <1>2 DEF ShownFits
<1>3. ASSUME ~ShowProbes, pc' = "done"
      PROVE  UNCHANGED <<pc, found, shown>>
  <2>1. CASE HubStep
    <3>1. CASE \/ BeginScan \/ ScanDone \/ ScanFails \/ PassNormal \/ PickUpFails
               \/ VisitBegins \/ Acknowledge \/ AcknowledgeFails \/ SessionFails
               \/ Dispatch
      BY <1>3, <3>1 DEF BeginScan, ScanDone, ScanFails, ScanGives, PassNormal, PickUpFails,
                  VisitBegins, Visiting, Acknowledge, AcknowledgeFails, SessionFails,
                  VisitEnds, Dispatch
    <3>2. CASE \/ \E a \in Address : \E n \in NodeIds[a] : SessionReads(a, n)
               \/ \E c \in ToSet(todo) : \E n \in NodeIds[c.addr] : PickUp(c, n)
      BY <1>3, <3>2 DEF SessionReads, PickUp, Visiting
    <3>3. CASE UploadBegins \/ UploadOk \/ UploadRejected \/ UploadUnanswered
      BY <1>3, <3>3 DEF UploadBegins, UploadOk, UploadRejected, UploadUnanswered, Attempt,
                        Uploaded, AttemptFails, Settles
    <3>4. CASE \E p \in Acking : AckBegins(p) \/ AckEnds(p)
      BY <1>3, <3>4, AckPlaces DEF AckBegins, AckEnds
    <3>5. CASE \/ ResultTold \/ DispatchTold \/ CycleEnds
               \/ ExpiryTold \/ PullBegins \/ PullEnds \/ RefusalTold
               \/ ConnectDatabase \/ SendDummy \/ RestartAfterProvisioning
      BY <1>3, <3>5 DEF ResultTold, DispatchTold, CycleEnds, ExpiryTold, PullBegins,
                        PullEnds, RefusalTold, AcksDone, ConnectDatabase, SendDummy,
                        RestartAfterProvisioning, Reset
    <3> QED
      BY <1>3, <2>1, <3>1, <3>2, <3>3, <3>4, <3>5 DEF HubStep
  <2>2. CASE HearsSome \/ PowerLoss \/ \E a \in Address : EntersSetup(a)
    BY <1>3, <2>2 DEF HearsSome, Hears, PowerLoss, Reset, EntersSetup, setup
  <2>3. CASE UNCHANGED cycleVars
    BY <2>3 DEF cycleVars, setup
  <2> QED
    BY <2>1, <2>2, <2>3 DEF CycleNext
<1>4. CASE pc' # "done"
  BY <1>4 DEF ShownFits
<1> QED
  BY <1>1, <1>2, <1>3, <1>4

(* The app is shown as many of the probes as fit into the characteristic.  *)
THEOREM FitsCorrect == CycleSpec => []ShownFits
<1>1. CycleInit => ShownFits
  BY DEF CycleInit, ShownFits
<1>2. CycleInv => CycleTypeOK
  BY DEF CycleInv
<1>3. CycleTypeOK /\ ShownFits /\ [CycleNext]_cycleVars => ShownFits'
  BY ShownStep
<1>4. QED
  BY <1>1, <1>2, <1>3, CycleCorrect, PTL DEF CycleSpec

----------------------------------------------------------------------------
(* ProbeCycle implements ProbeScan: its probes, sessions and uploads add   *)
(* nothing to what the merged list may do.                                 *)
THEOREM CycleImplementsScan == CycleSpec => ScanSpec
<1>1. CycleInit => ScanInit
  BY DEF CycleInit
<1>2. CycleInv /\ [CycleNext]_cycleVars => [ScanNext]_scanVars
  BY CycleScans DEF CycleInv
<1>3. QED
  BY <1>1, <1>2, CycleCorrect, PTL DEF CycleSpec, ScanSpec

=============================================================================

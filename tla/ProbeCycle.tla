----------------------------- MODULE ProbeCycle -----------------------------
(***************************************************************************)
(* What the hub does with the probes a scan of ProbeScan finds, and what   *)
(* the database gets to know of them: in provisioning (wifi_prov.rs) and   *)
(* in the main loop (main.rs).                                             *)
(*                                                                         *)
(* A probe in Setup mode leaves it when it is sent the confirmation.       *)
(* Provisioning confirms the Setup probes it finds, sends the database one *)
(* dummy reading of each, and shows the app a list of them.  The main loop *)
(* only confirms Setup probes; of the others it uploads a reading.         *)
(*                                                                         *)
(* The motor commands of a session are the subject of CommandPoller; here  *)
(* they are pulls and acks that take the radio/memory gate.  The main loop *)
(* asks for the gate at one place and is inside the critical section at    *)
(* the next, so that what is done there is done with the gate held.        *)
(***************************************************************************)
EXTENDS ProbeScan, SequencesExt

CONSTANTS
    Node,           \* node ids (probe UUIDs, or the BLE address standing in)
    NodeIds,        \* the node ids a probe may be read under
    Sends,          \* the packets a probe sends in each mode
    MaxAttempts,    \* GRPC_SEND_MAX_ATTEMPTS
    LineLength,     \* bytes of a node's line in the list shown to the app
    MaxBytes,       \* MAX_PROBE_RESULT_BYTES
    MaxPending      \* bound: motor commands that expire in one poll

ASSUME CycleAssumption ==
    /\ NodeIds \in [Address -> (SUBSET Node) \ {{}}]
    /\ Sends \in [Address -> [{"Normal", "Setup"} -> SUBSET Packet]]
    /\ MaxAttempts \in Nat \ {0}
    /\ LineLength \in [Node -> Nat \ {0}]
    /\ MaxBytes \in Nat /\ MaxPending \in Nat
    /\ None \notin Node \cup [addr : Address, node : Node] \cup {"ok", "dropped"}

VARIABLES
    mode,       \* the mode each probe is in
    known,      \* the nodes the database has a reading of
    pc,         \* where the program is
    prov,       \* whether this is provisioning
    gate,       \* whether the radio/memory gate is held
    acks,       \* acks of motor commands still to be sent at this place
    todo,       \* candidates still to be visited
    found,      \* provisioning: the Setup probes picked up
    unsent,     \* provisioning: those the database is still to be told of
    shown,      \* provisioning: the list shown to the app
    reading,    \* the reading being uploaded, or uploaded last
    tries,      \* how often its upload was attempted
    copies,     \* history: how often the database has stored it
    logged      \* history: what upload_reading says has become of it

world == <<mode, known>>
upload == <<reading, tries, copies, logged>>
setup == <<found, unsent, shown>>
cycleVars == <<scanVars, world, pc, prov, gate, acks, todo, setup, upload>>

Found == [addr : Address, node : Node]

CycleInit ==
    /\ ScanInit
    /\ mode \in [Address -> {"Normal", "Setup"}]
    /\ known = {}
    /\ pc = "begin" /\ prov = TRUE /\ gate = FALSE /\ acks = 0
    /\ todo = <<>> /\ found = <<>> /\ unsent = <<>> /\ shown = <<>>
    /\ reading = None /\ tries = 0 /\ copies = 0 /\ logged = None

----------------------------------------------------------------------------
(* polling.rs RadioMemoryGate: a mutex, not re-entrant.                    *)
Lock == ~gate /\ gate' = TRUE

Unlock == gate' = FALSE

(* The scan.  The main loop holds the gate for all of it; provisioning     *)
(* never takes the gate.                                                   *)
BeginScan ==
    /\ pc = "begin"
    /\ \/ prov /\ UNCHANGED gate
       \/ ~prov /\ Lock
    /\ pc' = "scan"
    /\ UNCHANGED <<scanVars, world, prov, acks, todo, setup, upload>>

Hears(a, k) ==
    /\ pc = "scan"
    /\ k \in Sends[a][mode[a]]
    /\ Hear(a, k)
    /\ UNCHANGED <<world, pc, prov, gate, acks, todo, setup, upload>>

IsSetup(c) == c.meta.mode = "Setup"

ScanGives(candidates) ==
    /\ pc = "scan"
    /\ todo' = candidates
    /\ ScanEnds
    /\ Unlock
    /\ pc' = "next"
    /\ UNCHANGED <<world, prov, acks, setup, upload>>

ScanDone == ScanGives(seen)

ScanFails == ScanGives(<<>>)

----------------------------------------------------------------------------
(* Candidates *)

Visiting == pc = "next" /\ todo # <<>>

(* The confirmation gets to the probe.                                     *)
Confirm(a) ==
    /\ mode' = [mode EXCEPT ![a] = "Normal"]
    /\ UNCHANGED known

(* discover_setup_probes looks at Setup candidates only.                   *)
PassNormal ==
    /\ prov /\ Visiting /\ ~IsSetup(Head(todo))
    /\ todo' = Tail(todo)
    /\ UNCHANGED <<scanVars, world, pc, prov, gate, acks, setup, upload>>

(* read_setup_probe_identity: the id is read, the confirmation written.        *)
PickUp(c, n) ==
    /\ prov /\ Visiting
    /\ c = Head(todo) /\ IsSetup(c)
    /\ n \in NodeIds[c.addr]
    /\ Confirm(c.addr)
    /\ found' = Append(found, [addr |-> c.addr, node |-> n])
    /\ todo' = Tail(todo)
    /\ UNCHANGED <<scanVars, pc, prov, gate, acks, unsent, shown, upload>>

(* A failed pickup is logged only.  A write reported as failed may have    *)
(* got to the probe.                                                       *)
PickUpFails ==
    /\ prov /\ Visiting /\ IsSetup(Head(todo))
    /\ Confirm(Head(todo).addr) \/ UNCHANGED world
    /\ todo' = Tail(todo)
    /\ UNCHANGED <<scanVars, pc, prov, gate, acks, setup, upload>>

(* The main loop visits each under the gate, Setup probes and others.      *)
VisitBegins ==
    /\ ~prov /\ Visiting
    /\ Lock
    /\ pc' = IF IsSetup(Head(todo)) THEN "confirm" ELSE "session"
    /\ UNCHANGED <<scanVars, world, prov, acks, todo, setup, upload>>

VisitEnds ==
    /\ Unlock
    /\ pc' = "next"
    /\ todo' = Tail(todo)
    /\ UNCHANGED <<scanVars, prov, acks, setup, upload>>

(* main's acknowledge_setup_probe; whether it failed is logged only.       *)
Acknowledge == pc = "confirm" /\ Confirm(Head(todo).addr) /\ VisitEnds

AcknowledgeFails == pc = "confirm" /\ UNCHANGED world /\ VisitEnds

(* Not connected, a characteristic missing, unreadable or out of range.    *)
SessionFails == pc = "session" /\ UNCHANGED world /\ VisitEnds

SessionReads(a, n) ==
    /\ pc = "session"
    /\ a = Head(todo).addr /\ n \in NodeIds[a]
    /\ reading' = [addr |-> a, node |-> n]
    /\ tries' = 0 /\ copies' = 0 /\ logged' = None
    /\ pc' = "dispatch"
    /\ UNCHANGED <<scanVars, world, prov, gate, acks, todo, setup>>

(* Still in the session: the closure peeks at the list of commands, the    *)
(* command is written, the last result read, and the probe let go.         *)

(* Faulty: the closure acknowledges a command it finds expired. *)
Dispatch_Acks ==
    /\ pc = "dispatch"
    /\ pc' = "expire" /\ acks' = 1
    /\ UNCHANGED <<scanVars, world, prov, gate, todo, setup, upload>>

(* Faulty: the guard lives until the session's result has been used. *)
Dispatch_KeepsGuard ==
    /\ pc = "dispatch"
    /\ pc' = "upload"
    /\ UNCHANGED <<scanVars, world, prov, gate, acks, todo, setup, upload>>

Dispatch ==
    /\ pc = "dispatch"
    /\ Unlock
    /\ pc' = "upload"
    /\ UNCHANGED <<scanVars, world, prov, acks, todo, setup, upload>>

----------------------------------------------------------------------------
(* upload_reading: an attempt takes the gate and lets go of it.  A request *)
(* that is stored may still time out, or its answer be lost; one that is   *)
(* answered is stored exactly if the answer says so.                       *)
UploadBegins ==
    /\ pc = "upload"
    /\ Lock
    /\ pc' = "attempt"
    /\ UNCHANGED <<scanVars, world, prov, acks, todo, setup, upload>>

Attempt == pc = "attempt" /\ Unlock /\ tries' = tries + 1

Store(n) == known' = known \cup {n} /\ UNCHANGED mode

IsStored ==
    /\ copies' = copies + 1
    /\ Store(reading.node)

NotStored == UNCHANGED <<world, copies>>

(* What the session has found out of motor commands is told next: its      *)
(* result, if any is new, then its dispatch.                               *)
Settles == pc' = "apply" /\ acks' \in {0, 1}

Uploaded ==
    /\ logged' = "ok"
    /\ Settles
    /\ UNCHANGED <<scanVars, prov, todo, setup, reading>>

(* Faulty: one attempt more than the limit. *)
AttemptFails_OnceMore ==
    /\ \/ tries <= MaxAttempts /\ pc' = "upload" /\ UNCHANGED <<acks, logged>>
       \/ tries > MaxAttempts /\ Settles /\ logged' = "dropped"
    /\ UNCHANGED <<scanVars, prov, todo, setup, reading>>

AttemptFails ==
    /\ \/ tries' < MaxAttempts /\ pc' = "upload" /\ UNCHANGED <<acks, logged>>
       \/ tries' >= MaxAttempts /\ Settles /\ logged' = "dropped"
    /\ UNCHANGED <<scanVars, prov, todo, setup, reading>>

UploadOk == Attempt /\ IsStored /\ Uploaded

(* Faulty: an answer is taken for a success, whatever it says. *)
UploadRejected_IsOk == Attempt /\ NotStored /\ Uploaded

UploadRejected == Attempt /\ NotStored /\ AttemptFails

(* No runtime, no connection, a lost request, a lost or late answer.       *)
UploadUnanswered == Attempt /\ (IsStored \/ NotStored) /\ AttemptFails

----------------------------------------------------------------------------
(* Acks and pulls of the command poller.  The places in front of an ack,   *)
(* and those inside of it.                                                 *)
AckOf == [apply |-> "ack result", complete |-> "ack dispatch",
          expire |-> "ack expiry", store |-> "ack refusal"]

Acking == DOMAIN AckOf

(* ack_best_effort *)
AckBegins(p) ==
    /\ pc = p /\ acks > 0
    /\ Lock
    /\ pc' = AckOf[p]
    /\ UNCHANGED <<scanVars, world, prov, acks, todo, setup, upload>>

AckEnds(p) ==
    /\ pc = AckOf[p]
    /\ Unlock
    /\ acks' = acks - 1
    /\ pc' = p
    /\ UNCHANGED <<scanVars, world, prov, todo, setup, upload>>

(* Nothing more to tell at place p.                                        *)
AcksDone(p) == pc = p /\ acks = 0

ResultTold ==
    /\ AcksDone("apply")
    /\ pc' = "complete" /\ acks' \in {0, 1}
    /\ UNCHANGED <<scanVars, world, prov, gate, todo, setup, upload>>

DispatchTold ==
    /\ AcksDone("complete")
    /\ todo' = Tail(todo)
    /\ pc' = "next"
    /\ UNCHANGED <<scanVars, world, prov, gate, acks, setup, upload>>

(* poll_commands_in_quiet_window: every command that has expired is told.  *)
CycleEnds ==
    /\ ~prov /\ pc = "next" /\ todo = <<>>
    /\ pc' = "expire" /\ acks' \in 0..MaxPending
    /\ UNCHANGED <<scanVars, world, prov, gate, todo, setup, upload>>

ExpiryTold ==
    /\ AcksDone("expire")
    /\ pc' = "pull"
    /\ UNCHANGED <<scanVars, world, prov, gate, acks, todo, setup, upload>>

PullBegins ==
    /\ pc = "pull"
    /\ Lock
    /\ pc' = "pulling"
    /\ UNCHANGED <<scanVars, world, prov, acks, todo, setup, upload>>

(* What was pulled, one command or none, may be refused.                   *)
PullEnds ==
    /\ pc = "pulling"
    /\ Unlock
    /\ pc' = "store" /\ acks' \in {0, 1}
    /\ UNCHANGED <<scanVars, world, prov, todo, setup, upload>>

(* Then the wait for the next cycle.                                       *)
RefusalTold ==
    /\ AcksDone("store")
    /\ pc' = "begin"
    /\ UNCHANGED <<scanVars, world, prov, gate, acks, todo, setup, upload>>

----------------------------------------------------------------------------
(* Provisioning: acknowledge_setup_probes_in_database                      *)

(* One connection for all of them; without it none is sent.                *)
ConnectDatabase ==
    /\ prov /\ pc = "next" /\ todo = <<>>
    /\ unsent' \in {found, <<>>}
    /\ pc' = "send"
    /\ UNCHANGED <<scanVars, world, prov, gate, acks, todo, found, shown, upload>>

(* Every probe gets one attempt; failures are counted and logged.          *)
SendDummy ==
    /\ pc = "send" /\ unsent # <<>>
    /\ Store(Head(unsent).node) \/ UNCHANGED world
    /\ unsent' = Tail(unsent)
    /\ UNCHANGED <<scanVars, pc, prov, gate, acks, todo, found, shown, upload>>

(* encode_setup_probes: line by line, until one does not fit.              *)

(* Faulty: the newline between two lines is not counted. *)
Separator_Free(bytes) == 0

Separator(bytes) == IF bytes = 0 THEN 0 ELSE 1

AddLine(acc, p) ==
    LET size == acc.bytes + Separator(acc.bytes) + LineLength[p.node]
    IN  IF acc.full \/ size > MaxBytes
        THEN [acc EXCEPT !.full = TRUE]
        ELSE [lines |-> Append(acc.lines, p), bytes |-> size, full |-> FALSE]

Encoding(probes) ==
    LET loop[k \in 0..Len(probes)] ==
            IF k = 0 THEN [lines |-> <<>>, bytes |-> 0, full |-> FALSE]
                     ELSE AddLine(loop[k - 1], probes[k])
    IN  loop

Encode(probes) == Encoding(probes)[Len(probes)].lines

ShowProbes ==
    /\ pc = "send" /\ unsent = <<>>
    /\ shown' = Encode(found)
    /\ pc' = "done"
    /\ UNCHANGED <<scanVars, world, prov, gate, acks, todo, found, unsent, upload>>

(* The restart after provisioning, or a loss of power: credentials and     *)
(* token are in flash by then (see HubSetup), so the main loop follows,    *)
(* with a poll before it; no command waits yet.                            *)
Reset ==
    /\ ScanEnds
    /\ pc' = "pull" /\ prov' = FALSE /\ gate' = FALSE /\ acks' = 0
    /\ todo' = <<>> /\ found' = <<>> /\ unsent' = <<>> /\ shown' = <<>>
    /\ reading' = None /\ tries' = 0 /\ copies' = 0 /\ logged' = None
    /\ UNCHANGED world

RestartAfterProvisioning == pc = "done" /\ Reset

PowerLoss == Reset

(* Somebody puts a probe into Setup mode.                                  *)
EntersSetup(a) ==
    /\ mode[a] = "Normal"
    /\ mode' = [mode EXCEPT ![a] = "Setup"]
    /\ UNCHANGED <<scanVars, known, pc, prov, gate, acks, todo, setup, upload>>

----------------------------------------------------------------------------
HubStep ==
    \/ BeginScan \/ ScanDone \/ ScanFails
    \/ (\E a \in Address : \E n \in NodeIds[a] : SessionReads(a, n))
    \/ (\E c \in ToSet(todo) : \E n \in NodeIds[c.addr] : PickUp(c, n))
    \/ PassNormal \/ PickUpFails
    \/ VisitBegins \/ Acknowledge \/ AcknowledgeFails \/ SessionFails \/ Dispatch
    \/ UploadBegins \/ UploadOk \/ UploadRejected \/ UploadUnanswered
    \/ (\E p \in Acking : AckBegins(p) \/ AckEnds(p))
    \/ ResultTold \/ DispatchTold \/ CycleEnds
    \/ ExpiryTold \/ PullBegins \/ PullEnds \/ RefusalTold
    \/ ConnectDatabase \/ SendDummy \/ ShowProbes \/ RestartAfterProvisioning

HearsSome == \E a \in Address : \E k \in Sends[a][mode[a]] : Hears(a, k)

CycleNext ==
    \/ HubStep
    \/ HearsSome
    \/ \E a \in Address : EntersSetup(a)
    \/ PowerLoss

CycleSpec == CycleInit /\ [][CycleNext]_cycleVars

(* A probe is missed by the scan if one of its packets is.                 *)
Misses ==
    \E a \in Address : \E k \in Sends[a][mode[a]] :
        MetaOf(k) # None /\ MetaOf(k) \notin heard[a]

Unlucky ==
    \/ PowerLoss /\ ~RestartAfterProvisioning
    \/ \E a \in Address : EntersSetup(a)
    \/ ScanFails /\ ~prov /\ seen # <<>>
    \/ ScanDone /\ Misses
    \/ AcknowledgeFails /\ mode[Head(todo).addr] = "Setup"
    \/ SessionFails \/ UploadRejected \/ UploadUnanswered

(* The hub's thread keeps going: every scan, session and RPC ends.         *)
(* Failures, resets and people putting probes into Setup mode end at a     *)
(* moment nobody knows, in whatever state they leave hub, probes and       *)
(* database; from then on every packet of a probe is heard in every scan,  *)
(* in any order.  Nothing is assumed to succeed in provisioning.           *)
CycleFairSpec ==
    /\ CycleSpec
    /\ <>[][~Unlucky]_cycleVars
    /\ WF_cycleVars(HubStep \/ HearsSome)

----------------------------------------------------------------------------
(* The places inside a critical section of the main loop.                  *)
Inside == {"scan", "confirm", "session", "dispatch", "attempt", "pulling"}
              \cup {AckOf[p] : p \in Acking}

Places == Inside \cup Acking \cup {"begin", "next", "upload", "pull", "send", "done"}

(* Types of the state, but for shown, whose value ShownFits describes, and *)
(* that a reading is there to be uploaded, and its candidate to be left.   *)
CycleTypeOK ==
    /\ ScanTypeOK
    /\ mode \in [Address -> {"Normal", "Setup"}]
    /\ known \subseteq Node
    /\ pc \in Places
    /\ prov \in BOOLEAN /\ gate \in BOOLEAN /\ acks \in Nat
    /\ todo \in Seq(Candidate)
    /\ found \in Seq(Found) /\ unsent \in Seq(Found)
    /\ reading \in Found \cup {None}
    /\ tries \in 0..MaxAttempts
    /\ copies \in Nat
    /\ logged \in {None, "ok", "dropped"}
    /\ pc \in {"confirm", "session"} => todo # <<>>
    /\ pc \in {"dispatch", "upload", "attempt", "apply", AckOf["apply"],
               "complete", AckOf["complete"]} => reading # None /\ todo # <<>>

(* What upload_reading logs is true although requests and answers may be   *)
(* lost (main.rs:296-343): "uplink ok" only of a reading that is stored,   *)
(* a drop only after the last attempt, however often it was stored then,   *)
(* and every reading ends as one of the two.                               *)
UploadIsHonest ==
    /\ logged = "ok" => copies > 0
    /\ logged = "dropped" => tries = MaxAttempts
    /\ tries = MaxAttempts => logged # None

(* Where the main loop waits for the gate if it is held.                   *)
Asks ==
    \/ pc = "begin" /\ ~prov
    \/ pc = "next" /\ ~prov /\ todo # <<>>
    \/ pc \in {"upload", "pull"}
    \/ pc \in Acking /\ acks > 0

(* The one thread never asks for the gate while it holds it (polling.rs:29 *)
(* and main.rs:177): no scan, session, attempt, pull or ack is begun in a  *)
(* critical section of another, or after one that was not left.            *)
NoSelfDeadlock == Asks => ~gate

(* The bytes of a list of lines with a newline between any two.            *)
Lengths(lines) ==
    LET sum[k \in 0..Len(lines)] ==
            IF k = 0 THEN 0 ELSE sum[k - 1] + LineLength[lines[k].node]
    IN  sum

Bytes(lines) ==
    Lengths(lines)[Len(lines)] + (IF lines = <<>> THEN 0 ELSE Len(lines) - 1)

(* The app gets the longest beginning of the list that fits into the       *)
(* characteristic: whole lines, none skipped, not one byte too many        *)
(* (wifi_prov.rs:350-364).                                                 *)
ShownFits ==
    pc = "done" =>
        /\ shown = SubSeq(found, 1, Len(shown))
        /\ Bytes(shown) <= MaxBytes
        /\ Len(shown) < Len(found) =>
              Bytes(SubSeq(found, 1, Len(shown) + 1)) > MaxBytes

(* The main loop goes round and round, whatever fails: no retry, ack or    *)
(* poll, and no wait for the gate, keeps it from the next scan.            *)
KeepsCycling == []<>(pc = "begin" /\ ~prov)

(* A probe in Setup mode is confirmed in the end, whatever order its       *)
(* packets come in and also when provisioning missed it.                   *)
SetupIsTakenUp == \A a \in Address : mode[a] = "Setup" ~> mode[a] = "Normal"

(* A probe that has left Setup mode gets known to the database, also when  *)
(* the confirmation seemed to fail, the dummy reading was lost, its line   *)
(* did not fit or the hub was reset in between (wifi_prov.rs:212-232).     *)
NormalGetsKnown ==
    \A a \in Address : mode[a] = "Normal" ~> NodeIds[a] \cap known # {}

=============================================================================

# HarvestHub hub-core: specifications, model checking and proofs

This directory holds TLA+ specifications of the hub firmware in `src/` (Rust on an
ESP32): one single-threaded main loop that scans for soil probes over BLE, uploads their
readings, and carries motor commands from a backend to the probes; before that, a boot
path that gets the hub onto Wi-Fi, gives it an identity and claims its token.

Source lines are cited as `file.rs:line`, relative to `src/src/`; `build.rs`,
`README.md` and `FIX_GRPC.md` are in `src/`.

## 1. The system

| Component | State | Operations | What makes it hard | Correct when |
| --- | --- | --- | --- | --- |
| **Command poller** `polling.rs` | `pending` list, `CommandDedupSet` (ids in progress; finished ids with a time), ids of applied probe results | `poll_once` (expire, pull, store), `peek_pending_for_probe_uuid`, `apply_probe_motor_result`, `complete_dispatched_for_probe` | The backend hands a command out again; acks are lost; a result read now may be of an older command; time passes inside every operation | A command is held once, in order, leaves for a reason, and never stays past its TTL |
| **Main loop** `main.rs:106-282` | none of its own between cycles | scan, one session per probe, upload, apply the result, complete the dispatch, poll | Peek and completion are seconds apart, with two RPCs between them | What is completed is what was written |
| **BLE session** `ble.rs:295-551` | the session in progress | read the probe, write a motor payload, read the last motor result | A write reported failed may have arrived; a payload carries a time to live | No motor starts after its command's expiry, or twice |
| **BLE scan, setup acknowledgement** `ble.rs:134-292` | candidates of one scan | collect advertisements, confirm Setup probes | Advertisement and scan response in any order | No Setup marker is lost |
| **gRPC client** `grpc.rs` | a connection per call | pull, ack, send data | Request or answer lost | See the command path |
| **Uplink** `main.rs:296-371` | attempt counter | upload a reading, up to three times | A stored reading whose answer is lost is sent again | A reading is stored at least once, or reported dropped |
| **Radio/memory gate** `polling.rs:29` | one mutex | lock around every radio or network operation | Not re-entrant | Never locked twice by the one thread |
| **Wi-Fi provisioning** `wifi_prov.rs`, `wifi.rs`, `nvs_store.rs` | pending SSID and password; SSID and password in flash; status | BLE write callbacks on another thread; take a complete pair, try it, save it, claim, scan, restart | Callbacks interleave with the loop, and ignore what is not UTF-8; two flash writes; power loss | No password is older than its SSID; no state of flash is a trap |
| **Identity and token** `persist.rs`, `auth.rs`, `main.rs:430-469`, `build.rs` | device id, secret and token in flash | seed from the build, read, claim once, store | The token can be claimed once; any step may fail or be cut off; firmware of another build | Id, secret and token belong together, and survive |
| **Clock** `time.rs` | system clock | SNTP at boot | The hub goes on only when it is set | - |
| **Payload layout** `config.rs`, parsers in `ble.rs:640-826` | - | pure functions | Widths, signs, lengths | Decoding inverts encoding |

Everything runs on one thread except the BLE write callbacks of provisioning. The parts
meet as follows: the main loop calls the poller and the BLE module, the BLE session calls
back into the poller (`peek_pending_for_probe_uuid`, `main.rs:181-192`), poller and main
call the gRPC client; provisioning calls back into `claim_hub_after_time_sync`.

The hazards of this code, each with the line where it bites and the properties aimed at
it, are in `PROJECT.json` under `hazards`.

## 2. The modules

| Module | What it is |
| --- | --- |
| `CommandPoller` | Poller and main loop, in an open environment (any pull, any ack outcome, any probe result) |
| `Mailbox` | What the list of waiting commands promises, abstractly |
| `MotorControl` | `CommandPoller` composed with a leasing backend and probes that run motors |
| `MotorPromise` | What hub, backend and probes promise together about motor commands, abstractly |
| `ProbeScan` | One BLE scan: advertisements and scan responses merged into candidates |
| `ProbeCycle` | What becomes of the candidates, in provisioning and in the main loop: setup acknowledgement, database, list for the app, upload, radio/memory gate; extends `ProbeScan` |
| `HubSetup` | Boot, BLE provisioning, flash, identity and token, with power loss and reflashing |
| `HubIdentity` | What a hub's flash promises about identity and token, abstractly |
| `CommandIds` | A command id packed into a payload and made text again |
| `Induction` | Induction over the natural numbers, over sets and over functions that a loop computes |
| `QueueLemmas` | Lemmas about sequences: append, tail, removal, concatenation of duplicate-free lists |
| `CommandPollerProofs` | Theorems about `CommandPoller` |
| `CommandIdsProofs` | Theorems about `CommandIds` |
| `HubSetupProofs` | Theorems about `HubSetup`, and that it implements `HubIdentity` |
| `MotorControlProofs` | Theorems about `MotorControl`, and that it implements `CommandPoller` and `MotorPromise` |
| `ProbeCycleProofs` | Theorems about `ProbeScan` and `ProbeCycle`, and that `ProbeCycle` implements `ProbeScan` |
| `MCCommandPoller`, `MCMotorControl`, `MCProbeCycle`, `MCHubSetup` | Small instances for TLC |

Operators whose comment begins with "Faulty:" (`OpenSession_PeeksLast`,
`WriteSsid_KeepsPassword`, ...) take part in no specification. Each is the operator below
it with one plausible bug; put in its place, it makes TLC find the property named with it
in `PROJECT.json` (`mutants`) violated, which shows that the property looks at that code.

### CommandPoller

State: `pending`, `processing`, `processed` and `applied` are the fields of
`CommandPoller` and `CommandDedupSet`. `expiring` and `pulled` are the local vectors of
`expire_pending_commands` and `poll_once` that are half worked off while an ack is on its
way; `todo` is the rest of the loop over candidates, `session` what a BLE session has found
out so far, `pc` the place in the loop.

Actions cut the thread's work at its radio and network operations, because the clock moves
there. In the order of the code:

| Code | Actions |
| --- | --- |
| `expire_pending_commands` | `BeginPoll`, `ExpireDrop`, `ExpireKeep` |
| `pull_commands_once` | `PullOk`, `PullFails` |
| `store_polled_command` | `StoreDuplicate`, `StoreExpired`, `StoreRejected`, `StorePending`, `StoreDone` |
| `main.rs:107-175` | `Scan`, `SkipCandidate`, `CycleDone` |
| `read_probe_and_maybe_dispatch_motor` | `OpenSession` (connect, read, peek), `Encode`, `DispatchOk`, `DispatchExpired`, `DispatchFailed`, `ReadResult`, `ReadNothing` |
| `apply_probe_motor_result` | `ApplySkipped`, `ApplyAcked`, `ApplyUnacked` |
| `complete_dispatched_for_probe` | `CompleteSentAcked`, `CompleteSentUnacked`, `CompleteExpired`, `CompleteFailed` |
| reset, time | `Restart`, `Tick` |

`StoreExpired` and `StoreRejected` end as the code does, with an id that `try_begin` has put into
progress (`TryBegin`) and `finish_processed` takes out of it; an early return between the two
would block the id, which is the mutant of `ProcessingIsWaiting`.

Data that no property tells apart is abstracted: a command is a value with constant node,
action, creation time and expiry; an ack is its outcome; a reading is left out.
`Canonical` is a conversion kept on purpose: a command id goes to the probe as 16 bytes and
comes back as a canonical UUID (`expand_command_id`), which need not be the spelling the
backend used, and an id that is no UUID cannot be encoded at all. It is a constant of
`CommandPoller`, which needs nothing of the texts; the instances of the poller compute it with
`CommandIds`. `NodeIds` gives a probe
more than one node id, since the BLE address stands in for an unreadable UUID
(`ble.rs:606-615`).

### CommandIds

Two loops as recursive functions of the number of rounds, over text that is a sequence of
bytes: `Packing` is `parse_uuid_compact_bytes` (one byte of text is `Take`; `ok` ends with the
first error), `Expanding` is `expand_command_id` (one byte of the id is `Put`). `Width` is 16
and `Breaks` is {4, 6, 8, 10} in the code. `Digits` is no code: it is what the first loop is
compared with, the digits of a text in their order.

### MotorControl

Backend and probe are not in this repository and are modelled from what the hub relies on:
leases (`config.rs:67`), no further delivery after a terminal ack, and the probe's rules in
`config.rs:30-34` (one active command, duplicates ignored for the retention, expired
commands ignored). A pull or an ack is a hub step with its effect at the backend, or one
that fails although the backend may have acted. A write takes up to `WriteTime`, may reach
the probe although the hub sees it fail, and may get through although the hub is reset.
`written` and `starts` are history.

A scan runs for `BLE_SCAN_MS` (`ble.rs:33`) before it gives the loop any candidate, so
`SysBeginScan` notes the time (`began`) and `SysScan` finds something only `ScanTime` later; one
that fails may end at once, with nothing. This is the one place where a duration matters: a
command is never written sooner than a scan after it was pulled.

`MotorPromise` is the whole as somebody sees it who looks at the motors and at what the
backend is told, and knows of no queue, session, lease, retry or restart: a command is given
to a probe, and started at most once, between its creation and its expiry (and the time of a
write); a status is told only if it is so. `KeepsPromise` maps `told` to the acks that have
reached the backend; everything else the system does is a stutter.

### ProbeScan and ProbeCycle

A packet is what `parse_probe_meta` looks at: manufacturer data by company, marker and how
far it goes (too short for a version, without a name, with one, cut), and the advertised
name. `MetaOf` says what the hub makes of it. `seen` is the vector the scan callback fills,
`heard` the history of what each address has said; `Hear` is the callback, `ScanEnds` the
hand-over of the candidates.

In `ProbeCycle` a probe has a mode, which decides the packets it sends (`Sends`), and which
it leaves when a confirmation gets to it. `todo` is the rest of the loop over candidates,
`found` and `unsent` the local vectors of provisioning, `shown` the value of the probes
characteristic, `known` the nodes the database has a reading of; `gate` is the mutex, and `acks`
the number of motor acks still to be sent where the program is.

| Code | Actions |
| --- | --- |
| `scan_probe_candidates` | `BeginScan`, `Hears`, `ScanDone`, `ScanFails` |
| `discover_setup_probes`, `read_setup_probe_identity` | `PassNormal`, `PickUp`, `PickUpFails` |
| `acknowledge_setup_probes_in_database` | `ConnectDatabase`, `SendDummy` |
| `encode_setup_probes` | `ShowProbes` (`Encode`: the loop, as a function of the number of probes taken) |
| `main.rs:155-175`, `acknowledge_setup_probe` | `VisitBegins`, `Acknowledge`, `AcknowledgeFails` |
| `read_probe_and_maybe_dispatch_motor` | `VisitBegins`, `SessionReads`, `SessionFails`, `Dispatch` (peek, write and result, still in the session) |
| `upload_reading`, `send_data` | `UploadBegins`, `UploadOk`, `UploadRejected`, `UploadUnanswered` |
| `ack_best_effort`, `ack_once` | `AckBegins(p)`, `AckEnds(p)`, for each place `p` that acknowledges |
| `main.rs:234-259` | `ResultTold`, `DispatchTold` |
| `poll_once` | `CycleEnds`, `ExpiryTold`, `PullBegins`, `PullEnds`, `RefusalTold` |
| restart, reset | `RestartAfterProvisioning`, `PowerLoss` |

A write or a request that the hub sees fail may have been carried out.

The gate is in the state over every section that holds it: a scan, a confirmation, a session
with the peek and the write inside of it, one upload attempt, one pull, one ack. The step that
enters a section needs the gate (`Lock`), a later one lets go of it (`Unlock`). `Asks` is where
the thread wants the gate; a section begun inside another would show there. Provisioning does
not use the gate. `CommandPoller` and `ProbeCycle` are two views of one loop: a reading has no
effect on the commands, and of a command nothing is left here but the pulls and acks it costs.

### HubSetup

`flash[h]` is the hub's NVS, `ram[h]` the program's state: its place `pc`, whether the
provisioning service is up, the pending pair, the pair being tried, the token, and the last
lasting status shown to the app. Every flash write is a step of its own. A password is
`[net, after]`: the network it is right for, and the SSID that waited at the hub when it came
in. `WriteSsid` and `WritePassword` are the BLE callbacks and may run at any moment once the
service exists; bytes that are not UTF-8 are ignored, and the client, who goes on from what it
has typed (`typed`), is not told. `PowerLoss`, `Reflash` (an image of any build) and `EraseFlash`
may strike between any two steps.

`restart` is `esp_restart` after provisioning. `halt` is where the program is when `main` has
returned an error: nothing in the code leads on from there, and the comments of `auth.rs` and
`FIX_GRPC.md:87-89` expect somebody to reboot the hub. That is `Reboot`, a step of the
environment without fairness. NVS commits each `set_str` before it returns, so a completed write
survives a reset.

`HubIdentity` is what is left when boot, provisioning and all failures are out of sight: a hub
without an identity adopts, in one step, that of the firmware it runs; one without a token
gets the token of its identity, once; a development build puts its own in place; new firmware
changes neither; erasing the flash removes both. In the mapping (`Store`) a hub without a
secret has no identity, which makes the second write of `load_or_generate_creds` the moment
of adoption, and the first one a stutter.

## 3. What is checked

| Run | Question | Shows |
| --- | --- | --- |
| `command_poller` | Is the poller right whatever backend and probes do? | The dedup set never blocks a command the hub does not hold (`ProcessingIsWaiting`); the command completed is the one written (`CompletesWhatWasWritten`); one copy per command (`HeldOnce`); nothing leaves without cause (`LeavesForCause`); the list refines `Mailbox` (`IsMailbox`) |
| `command_poller_live` | Does every command with a TTL leave the list? | `NothingStaysForever`, from a running thread and clock alone |
| `motor_control` | Do leases, lost messages, failed writes and resets hurt? | At most one start per command, none past its expiry plus the time a write takes, and only true acks (`StartsAtMostOnce`, `StartsInTime`, `AcksAreTrue`); the whole refines `MotorPromise` (`KeepsPromise`) |
| `motor_heard` | And commands that cannot be carried out? Does the backend hear of every command? | They reach no probe, and the backend hears FAILED or EXPIRED only (`RefusedIsNeverSent`). When losses end it hears of each command, although the hub acknowledges a dropped one once and then skips it as a duplicate (`EveryCommandIsHeardOf`) |
| `probe_cycle` | What becomes of probes whose packets come in any order, and of readings and confirmations that get lost? | No Setup marker is lost and no candidate made up (`SetupIsNotLost`, `MetaWasHeard`); the log is true (`UploadIsHonest`); the app's list is the longest that fits (`ShownFits`); the thread never asks for the gate while it holds it (`NoSelfDeadlock`) and goes round and round (`KeepsCycling`); a Setup probe is confirmed in the end (`SetupIsTakenUp`), and every confirmed one gets known to the database (`NormalGetsKnown`) |
| `hub_setup` | Can failures between flash writes, reflashing or a fast client leave a hub inconsistent? | Id, secret and token always belong together (`IdentityOfOneBuild`, `TokenOfIdentity`), no SSID is tried with a password that was there before it (`NeverMixed`), CLAIM_OK is durable (`ClaimOkIsStored`), the loop can be entered again after a reset (`LoopIsRepeatable`); the flash refines `HubIdentity` (`KeepsIdentity`) |
| `hub_setup_live` | Is any state of flash a trap? | Once disturbances end, a hub that is not left halted gets into the main loop and stays (`GetsToMain`). A halted one is a trap until somebody reboots it: nobody has to, so the property says it of the others only |

Runs that show a disagreement between the code and what it says of itself:

| Run | Finding |
| --- | --- |
| `expired_after_succeeded` | A probe's SUCCEEDED is acknowledged, but the command stays on the list (`polling.rs:174`, `main.rs:248`) and is acknowledged EXPIRED when its TTL is over. Until then it is written in every session and blocks the next command for that probe. |
| `result_dropped` | `applied_probe_results` remembers ids, not statuses: after EXECUTING has been acknowledged, SUCCEEDED or FAILED of the same command is dropped. |
| `no_ttl_stuck` | A terminal result of an older command, which the probe keeps, suppresses the completion of this session's dispatch, session after session. A command with `expires_at = 0` is never written at all, being judged expired at `ble.rs:482`; that outcome is dropped with the completion, and the command waits forever, in front of later ones. |
| `hub_mixed` | An SSID write that is not UTF-8 is ignored (`wifi_prov.rs:141`) and starts no new pair, against `wifi_prov.rs:133`: the hub tries the SSID before it with the password typed for the ignored one. |
| `hub_revoked` | A stored token is used unconditionally (`main.rs:445-448`): the re-claim after `RevokeHub` that `FIX_GRPC.md:293-294` expects never happens. Only erasing the flash leads to a new claim. |

Seen on the way, without a run: the identity is made by `build.rs`, not at first boot as
`FIX_GRPC.md:77-79` says, so that two hubs flashed with one image are one hub to the backend; a command without expiry (`expires_at <= 0`) is kept by the
poller (`polling.rs:633`) but reported EXPIRED by the first write (`ble.rs:482`); a failed
save of the credentials is logged, and the hub restarts as if they were saved
(`wifi_prov.rs:192`, against `main.rs:410`); a refused claim during provisioning waits for
credentials instead of halting (`wifi_prov.rs:241`, against `FIX_GRPC.md:87-89`); `FIX_GRPC.md` §3 describes an uplink thread
with a bounded channel behind a scan that never stops, while `upload_reading` blocks the
loop for up to three attempts; `README.md:69` calls the UUID characteristic the probe's node
id, but a probe without it is known to the backend by its BLE address (`ble.rs:606-615`).

### Bounds

- **`command_poller`**: three commands. Two wait for one probe, which is what makes order,
  peek and completion interesting; the third's id reads back differently. Two probes, one
  of which may appear under its address. `MaxTime = 4` with `Retention = 2`: a finished id
  can be forgotten and its command still be handed out again. Expiries equal the retention
  after creation, as the defaults do (`config.rs:48-49`), so the boundary itself is hit.
  `BatchSize = 1` is the code's value (`config.rs:68`). Ids have two bytes (`Width = 2`), and
  a hyphen before the second (`Breaks = {1}`); the live instance has an id of three digits,
  which is no UUID. Both assume what `CommandIdsProofs` proves, and so check it first:
  of all texts of up to six hyphens, digits of both kinds and other letters, and of every id.
- **`motor_control`**: a run and a stop for one probe. `Lease = 1` is shorter than the
  TTLs, so that commands are handed out again while they live. (The code's lease equals the
  default TTL, which would hide redelivery.) `MaxTtl = 7` is the width of the payload's
  field, wide enough for every live command and narrow enough for a wrapped difference to be
  seen. Expiry and retention are both 3, as the code's defaults are equal, a scan lasts 1 and a
  write 2, which is the most that `TtlLeavesWriteTime` allows: with `WriteTime = 3` TLC finds a
  second start. `MaxTime = 5` is late enough for a probe to forget.
- **`motor_heard`**: a refused, an unencodable and an ordinary command, all of which expire
  at 2, so that a scan lies between a pull and the expiry and there is a session to write in.
  Losses end at `LossEnd = 2`, so that an EXPIRED can be among them; with `Retention = 1` the id
  is forgotten at 4, which is `MaxTime`. `BatchSize = 1` as in the code.
- **`probe_cycle`**: two probes. In Setup mode the first sends an advertisement that looks
  Normal and a scan response with the setup name, the second a Setup marker without a name of
  the setup probe and packets of another vendor; in Normal mode one sends a payload without a
  name, the other one that is cut. The first may be read under its address.
  `MaxAttempts = 3` is the code's value (`main.rs:24`); up to `MaxPending = 2` commands expire in
  one poll, so that an ack follows an ack. Lines of 2 (1 for the address) and
  `MaxBytes = 4` make two lines one byte too long by their newline alone, and two others fit
  exactly.
- **`no_ttl_stuck`, `expired_after_succeeded`, `result_dropped`**: as small as the
  behaviour allows.
- **`hub_setup`**: one hub, since hubs meet only in the backend; three images with two
  identities and a development build; two networks. **`hub_mixed`, `hub_revoked`**: one
  image. `hub_setup_live` has one image and two networks, so that a torn
  pair of credentials can occur.
- Time stops at `MaxTime`, so nothing is claimed of what would happen later; every command
  of the liveness runs expires before that, except the one without TTL.
- Symmetry is not used: commands and images differ in their attributes.

### Fairness

- `FairSpec` of `CommandPoller`: weak fairness of the hub's thread and of the clock. Every
  RPC and BLE operation has a timeout or ends with the connection, and the loop has no exit.
  Nothing is assumed of backend, probes or acks, not even that a scan ever finds a probe:
  the fairness is of `KeepsRunning`, a step of the thread which finds none if it scans.
- `SysFairSpec` of `MotorControl`, used only to show that `no_ttl_stuck` is not a matter of
  bad luck: strong fairness of every success - the probe is found, a session opens, gets
  past the write and reads the result, acks get through. The command waits all the same.
- `HearingSpec` of `MotorControl`, for `EveryCommandIsHeardOf`: the hub's thread and the clock
  keep going, and from `LossEnd` on pulls answer what there is, acks of dropped commands get
  through, and the hub is not reset. Without an end to losses nothing could be heard. Probes
  may fail for ever. The end is a time, since with a bounded clock the retention must still
  fit behind it.
- `CycleFairSpec` of `ProbeCycle`: the thread goes on (every scan, session and RPC ends), and
  failures, resets and people end at some moment (`<>[][~Unlucky]_cycleVars`); from then on
  each scan hears every packet of a probe at least once, in any order. Provisioning may fail
  for ever: the main loop alone has to make up for it.
- `FairSpec` of `HubSetup`: weak fairness of the hub; disturbances, failures and mistakes
  end at some moment (`<>[][~Misled(h)]_vars`), without which nothing could be promised of a
  hub whose power fails for ever. The client enters the right pair until it has been taken,
  and the user associates the hub and, when told that it has been claimed already, revokes
  it: the two things `auth.rs:28-29` and `FIX_GRPC.md:60-64` ask of the user. Nobody has to reboot a
  halted hub, so `GetsToMain` says nothing of one that is left like that.

### Assumptions

- The hub's clock does not run backwards after it was set, and backend expiries are in the
  same time.
- `BoundedTTL` (for `HeldOnce`, `IsMailbox`): a command expires at most one retention after
  it was created. Backends that use the default expiry satisfy it; without it a finished id
  is forgotten while its command may still be on the list.
- `ExternalAssumption`: no two probes share a node id; no command's UUID is the id of another
  command; probes report every status the hub acts on. A probe keeps its dedup memory while
  the hub restarts.
- `TtlFits` (for `AcksCorrect`, `PromiseCorrect`): a command lives at most `MaxTtl`, the u32 of the payload
  (49 days). A longer one would be cut, and a probe would report it EXPIRED too early.
- `TtlLeavesWriteTime` (for `StartsAtMostOnceCorrect`, `PromiseCorrect`):
  `Expires[c] + WriteTime <= Created[c] + ScanTime + Retention + 1`. A payload carries a time to
  live, so one that is encoded in the last moment and arrives `WriteTime` later is still live;
  the probe must not have forgotten the id by then, which it got at the earliest a scan after the
  command was created. The code's defaults meet it: expiry and retention are the same number
  (`config.rs:48-49`), so a write may last as long as a scan, 8 s (`ble.rs:33`), and a link that
  is silent for its supervision timeout of 600 ms (`ble.rs:340`) is given up. A probe that sits on
  a write for longer over a live link is outside of the assumption. The bound is exact: the instance
  of `motor_control` satisfies it with equality.

## 4. What is proved

For every value of the constants that satisfies the named assumptions
(`DomainAssumption`, `TimeAssumption`), TLAPS proves in `CommandPollerProofs`:

| Theorem | States |
| --- | --- |
| `TypeCorrect` | `Spec => []TypeOK` |
| `ProcessingCorrect` | `Spec => []ProcessingIsWaiting` |
| `CompletionCorrect` | `Spec => []CompletesWhatWasWritten` |
| `LeavesForCauseCorrect` | `Spec => LeavesForCause` |
| `HeldOnceCorrect` | `BoundedTTL` implies `Spec => []HeldOnce` |
| `MailboxCorrect` | `BoundedTTL` implies that `CommandPoller` refines `Mailbox` |

The argument. The first inductive invariant is

    Inv == TypeOK /\ Stage /\ ProcessingIsWaiting /\ CompletesWhatWasWritten

`Stage` says when the local vectors are empty and when a session is open. It is what makes
the others inductive: `CompletesWhatWasWritten` survives a poll only because no session is
open during one, and `ProcessingIsWaiting` survives the rebuilding of the list only because
`expiring` is empty outside `expire_pending_commands`.

`HeldOnce` is not inductive, not even with `Inv`: that `store_polled_command` cannot append
a command which already waits depends on the dedup set still remembering it. The second
invariant

    OnceInv == Inv /\ Arrived /\ AllShielded /\ Once

adds that every waiting command has been created (`Arrived`), and that each is `Shielded`:
in progress, or finished at a time that keeps it in the dedup set for as long as it can
live. The latter is where `BoundedTTL` is needed: a probe's result finishes a command that
stays on the list (`polling.rs:174`), so nothing but the retention keeps a second copy out.
`Once` is `HeldOnce` in the form the lemmas about sequences use.

`MailboxCorrect` maps `held` to `pending \o expiring`, so that the loop in
`expire_pending_commands` is a stutter where it keeps a command (`MoveHead` in
`QueueLemmas`) and a release where it drops one (`DropHead`). `LeavesForCauseCorrect`
follows from `Inv` step by step.

From `SetupAssumption` and the assumptions that `None` is neither a password nor a pair of
credentials, `HubSetupProofs` proves every invariant of `HubSetup`, for any number of hubs,
images, identities and networks:

| Theorem | States |
| --- | --- |
| `SetupTypeCorrect` | `Spec => []TypeOK` |
| `IdentityCorrect` | `Spec => []IdentityOfOneBuild` |
| `TokenCorrect` | `Spec => []TokenOfIdentity` |
| `NeverMixedCorrect` | `Spec => []NeverMixed` |
| `ClaimOkCorrect` | `Spec => []ClaimOkIsStored` |
| `LoopCorrect` | `Spec => []LoopIsRepeatable` |
| `KeepsIdentityCorrect` | `Spec => KeepsIdentity`: `HubSetup` refines `HubIdentity` |

Its inductive invariant says of each hub alone, as predicates of that hub's records
(`Good`), what the code relies on without writing it down; a step of one hub then is a step
from records to records, which `Framed` carries over to all hubs.

- `IdentityInv`: between the two writes of `load_or_generate_creds` there is no secret in
  flash. Hence a torn seeding is seeded over entirely, and an identity that is seeded over
  has no token. A token about to be stored is that of the id in flash, where there is none yet.
- `PairInv`: a password that waits with an SSID came in while that SSID waited, and still did
  when both have been taken: a new SSID drops the password before it. It does not say that the
  password is the one of that network (`hub_mixed`).
- `StatusInv`: `CLAIM_OK` is shown only on the way to the restart, with the token in flash.
- `BootInv`: outside provisioning the program runs on the credentials in flash, which
  nothing writes there, so it finds them again after a reset.

`KeepsIdentityCorrect` goes through the steps that write to flash. Credentials and an id
without a secret change nothing that `HubIdentity` sees (`SavesAreUnseen`); the secret adopts
(`SeedAdopts`), because `IdentityInv` knows that there was none and that the id before it is
that of the image that still runs; a token is put in place or is the first (`TokenIsClaimed`).
That the claimed token is the first is no invariant of a state that a run checks: a hub which
claimed although it had a token would satisfy `TokenOfIdentity`, and break the refinement.

From `ScanAssumption`, `NoneAssumption` and `CycleAssumption`, `ProbeCycleProofs` proves, for
any addresses, packets, node ids and number of attempts:

| Theorem | States |
| --- | --- |
| `ScanCorrect` | `ScanSpec => []ScanInv`, of the merged list alone |
| `CycleImplementsScan` | `CycleSpec => ScanSpec` |
| `SetupCorrect`, `MetaCorrect` | `CycleSpec => []SetupIsNotLost`, `CycleSpec => []MetaWasHeard` |
| `UploadCorrect` | `CycleSpec => []UploadIsHonest` |
| `GateCorrect` | `CycleSpec => []NoSelfDeadlock`: no scan, session, attempt, pull or ack is begun while the gate is held |
| `CycleTypeCorrect` | `CycleSpec => []CycleTypeOK` |
| `FitsCorrect` | `CycleSpec => []ShownFits` |

`ScanInv` (types, `SetupIsNotLost`, `MetaWasHeard`) is inductive: a new address appends
(`NewCandidate`), a known one is upgraded or kept (`KnownCandidate`), and that an upgrade
touches one candidate only needs that addresses occur once. `CycleInv` adds
that the gate is held inside the critical sections alone (`Held`), which is what every way out
of a section, a failure too, must see to, and that an upload in progress has an attempt left and
an ack in progress something to tell (`Uploading`), without which neither `UploadIsHonest` nor
the count of acks is inductive. None of the places where the thread asks for the gate is inside,
which gives `NoSelfDeadlock`.

`FitsCorrect` is about a loop over a list of any length, so it needs an induction over the
rounds of that loop, and the library's induction theorems cannot be instantiated here (their
parameter is an operator). `Induction` gets it from the well-foundedness of finite sets
instead: a nonempty set of numbers has a least one (`LeastNat`, from `UpTo` ordered by
inclusion), hence a set that contains 0 and what follows each of its members contains them all
(`UpTo`), hence the function that a loop computes exists (`LoopRuns`). With it `EncodingDef` and
`LengthsDef` give the recursive functions of the model their equations, `Fits` says what the
first `k` rounds of `encode_setup_probes` have reached (the lines taken, their bytes, and, if
the loop has been left, that the next line was too long), and `FitsStep` is one round.

`MotorControlProofs` adds `ExternalAssumption`, and proves of the whole command path, for any
commands, probes, leases, retentions and write times:

| Theorem | States |
| --- | --- |
| `SysTypeCorrect` | `SysSpec => []SysTypeOK` |
| `SysImplementsPoller` | `SysSpec => Spec`: every theorem about `CommandPoller` holds here too |
| `StartsInTimeCorrect` | `SysSpec => StartsInTime` |
| `RefusedCorrect` | `SysSpec => []RefusedIsNeverSent` |
| `AcksCorrect` | `TtlFits` implies `SysSpec => []AcksAreTrue` |
| `StartsAtMostOnceCorrect` | `TtlLeavesWriteTime` implies `SysSpec => []StartsAtMostOnce` |
| `PromiseCorrect` | `TtlFits` and `TtlLeavesWriteTime` imply `SysSpec => KeepsPromise`: the whole refines `MotorPromise` |

`SysInv` is the poller's invariant and, of the three sides, what each relies on of the other:

- `Encoded`, of a payload on its way: it was made from a command that had arrived and had not
  expired, at most `WriteTime` ago, and carries no more than the time that was left. That the
  command had arrived comes from `CompletesWhatWasWritten` and `Arrived`: what a session
  writes still waits at the hub.
- `Dispatched`, of the hub: nothing refused waits, nothing odd was written, and what a session
  takes to be written or expired is.
- `Working`, of a probe: it works on a run for one of its own node ids, up to at most
  `WriteTime` after the command's expiry, and a motor that turns was started.

`AcksAreTrue` is not inductive, since a result waits on a probe and then in a session before
it is acknowledged: `Truth` says the same of every result there is (`Results`), and `ExactTtl`
that a probe's deadline is not before the expiry. `NothingOdd` does this for
`RefusedIsNeverSent`. `StartsInv` is the retention argument: what was started is remembered
since a scan's time after its creation at the earliest (`Remembered`), so a payload that arrives
again, at most at `Expires[c] - 1 + WriteTime`, meets a probe that still remembers it
(`StartedIsIgnored`). The scan's time comes from `Aged`: what waits when a scan begins has been
created, nothing is stored during it, and a session follows only on a scan that took its time.

`PromiseCorrect` draws on all of them: a start is the first (`StartsInv`) and in time
(`StartsBefore`, from `Working`), a command given is one that had arrived and not expired
(`Encoded`) and can be sent (`NothingOdd`), and what the backend is told is so (`Truth`). At
most one of these happens in a step of the system (`OneAtATime`), so that each step is one of
`MotorPromise` or none.

From `IdAssumption` alone (the width is a natural number), `CommandIdsProofs` proves:

| Theorem | States |
| --- | --- |
| `PackingCorrect` | A text is accepted exactly if it has `2 * Width` digits and otherwise hyphens, wherever they are; each byte is made of the two digits at its place |
| `ComesBackCorrect` | Expanding an id gives a UUID, and packing that gives the id |
| `SpellingCorrect` | A result is reported under a UUID of the command's bytes, in a spelling that a second pass keeps, and that two commands share only if their bytes are the same |

Both loops get their equations as above (`PackingDef`, `ExpandingDef`). `Found` says what the
first `k` bytes of a text have shown: without an error so far, they were clean, and the loop
holds the bytes that are complete and the first digit of one that is not (`Agree`); with one,
there was another letter among them or a digit too many, neither of which can be made good.
`Written` says that packing what `k` rounds of the other loop have written reads `k` bytes of
the id, since what is written later does not change what was read (`PackingPrefix`).

Only model-checked: liveness (`NothingStaysForever`, `EveryCommandIsHeardOf`, `KeepsCycling`,
`SetupIsTakenUp`, `NormalGetsKnown`, `GetsToMain`), which is out of the proof system's reach
together with `ENABLED`. Every invariant, action property and refinement that a passing run
checks is proved.

## 5. What is not modelled

- **Byte layouts and conversions of values** (`ble.rs:295-330` beyond the remaining expiry,
  `ble.rs:523-551`, `ble.rs:737-787`), except command ids: planned as pure operators. A value out of range is a
  session that fails.
- **What a reading says**: a reading is the node it is of.
- **Names and versions in the app's list**: a line is its length.
- **Reading and printing of the build's identity** beyond `IdentityOf`, heap statistics,
  logging, the `fake-probe` feature.
- **An empty SSID** in flash, which `nvs_store.rs:47` treats as absent; **token renewal**,
  which does not exist yet; **the token's expiry**, which the hub never looks at.

## 6. Plan

Written so far, in this order: `CommandPoller`, `Mailbox`, `QueueLemmas`,
`CommandPollerProofs`, `MotorControl`, `HubSetup`, `HubSetupProofs`, `ProbeScan`,
`ProbeCycle`, `ProbeCycleProofs`, the liveness of the command path (`HearingSpec`),
`MotorControlProofs`, `Induction`, and the abstract specifications of the command path
(`MotorPromise`) and of a hub's flash (`HubIdentity`) with their refinements, `CommandIds` and
its theorems. To come: `Codecs`, that is the other fields of motor payload and motor result and
the sensor conversions, as functions on small widths against reference definitions (round trip,
clamping).

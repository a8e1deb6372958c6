------------------------------ MODULE HubSetup ------------------------------
(***************************************************************************)
(* How a hub gets from power-on to the main loop: Wi-Fi credentials and    *)
(* identity in flash (src/src/nvs_store.rs, src/src/persist.rs), BLE       *)
(* provisioning (src/src/wifi_prov.rs), the claim-once token (src/src/     *)
(* auth.rs) and the boot path that ties them together (src/src/main.rs).   *)
(*                                                                         *)
(* Every write to flash is a step of its own, because power may be lost    *)
(* between any two, and any of them may fail.  The client that sends       *)
(* credentials writes at any moment: its writes run as callbacks on the    *)
(* BLE stack's thread.  The backend, the user who associates and revokes   *)
(* hubs, and whoever flashes firmware are not in this repository.          *)
(***************************************************************************)
EXTENDS Naturals

CONSTANTS
    Hub,
    Image,      \* firmware images
    Identity,   \* build identities: a device_id with its hub_secret
    IdentityOf, \* the identity build.rs put into an image
    DevImage,   \* images built with HUB_TOKEN
    DevToken,
    Ssid,
    None

ASSUME SetupAssumption ==
    /\ IdentityOf \in [Image -> Identity]
    /\ DevImage \subseteq Image
    /\ DevToken \notin Identity
    /\ None \notin Identity \cup Ssid \cup {DevToken}

(* A password is known by the network it is right for (that of the SSID    *)
(* its client had written last, or none if it was mistyped) and by the     *)
(* SSID that waited at the hub when it came in.                            *)
Password == [net : Ssid \cup {None}, after : Ssid \cup {None}]

ASSUME PasswordAssumption == None \notin Password

Credentials == [ssid : Ssid, pass : Password]

ASSUME CredentialsAssumption == None \notin Credentials

VARIABLES
    image,      \* firmware of each hub
    flash,      \* NVS of each hub: namespaces "harvesthub" and "hub"
    ram,        \* the state of each hub's program
    typed,      \* client: the SSID it wrote last to each hub
    associated, \* backend: identities a user has associated
    claimed,    \* backend: identities whose token has been claimed
    revoked,    \* backend: hubs that hold a token which has been revoked
    told        \* hubs that have logged "this device has already been claimed"

backend == <<associated, claimed, revoked, told>>
vars == <<image, flash, ram, typed, backend>>

EmptyFlash == [ssid |-> None, pass |-> None, id |-> None, secret |-> None, jwt |-> None]

Fresh == [pc |-> "boot", prov |-> FALSE, ssid |-> None, pass |-> None,
          creds |-> None, token |-> None, status |-> "waiting"]

Init ==
    /\ image \in [Hub -> Image]
    /\ flash = [h \in Hub |-> EmptyFlash]
    /\ ram = [h \in Hub |-> Fresh]
    /\ typed = [h \in Hub |-> None]
    /\ associated = {} /\ claimed = {} /\ revoked = {} /\ told = {}

----------------------------------------------------------------------------
At(h, place) == ram[h].pc = place

Become(h, r) == ram' = [ram EXCEPT ![h] = r]

Goto(h, place) == Become(h, [ram[h] EXCEPT !.pc = place])

(* Right for the network and in range; a connection may fail nevertheless. *)
Works(c) == c.pass.net = c.ssid

(* wifi_prov::run: the service is set up afresh; when advertising cannot   *)
(* be started, run returns Err, which ends main.                           *)
Provision(h) ==
    \E place \in {"prov", "halt"} :
        Become(h, [Fresh EXCEPT !.pc = place, !.prov = TRUE])

(* claim_hub_after_time_sync returns Err: provisioning waits for the next  *)
(* credentials, a normal boot ends main.                                   *)
GiveUp(h) ==
    Become(h, [ram[h] EXCEPT !.pc = IF ram[h].prov THEN "prov" ELSE "halt",
                             !.status = "waiting",
                             !.creds = IF ram[h].prov THEN None ELSE @,
                             !.token = None])

(* It returns a token: provisioning tells the client, a boot enters the loop. *)
Claimed(h, token) ==
    Become(h, [ram[h] EXCEPT !.pc = IF ram[h].prov THEN "scan" ELSE "main",
                             !.status = IF ram[h].prov THEN "claim_ok" ELSE @,
                             !.token = token])

----------------------------------------------------------------------------
(* Boot *)

BootWithCredentials(h) ==
    /\ At(h, "boot")
    /\ flash[h].ssid # None /\ flash[h].pass # None
    /\ Become(h, [ram[h] EXCEPT !.pc = "connect",
                                !.creds = [ssid |-> flash[h].ssid, pass |-> flash[h].pass]])
    /\ UNCHANGED <<image, flash, typed, backend>>

(* No credentials, or they cannot be read. *)
BootWithout(h) ==
    /\ At(h, "boot")
    /\ Provision(h)
    /\ UNCHANGED <<image, flash, typed, backend>>

Connects(h) ==
    /\ At(h, "connect") /\ Works(ram[h].creds)
    /\ Goto(h, "sync")
    /\ UNCHANGED <<image, flash, typed, backend>>

(* Faulty: a hub that has credentials is not provisioned again. *)
ConnectFails_Halts(h) ==
    /\ At(h, "connect")
    /\ Goto(h, "halt")
    /\ UNCHANGED <<image, flash, typed, backend>>

ConnectFails(h) ==
    /\ At(h, "connect")
    /\ Provision(h)
    /\ UNCHANGED <<image, flash, typed, backend>>

----------------------------------------------------------------------------
(* Provisioning *)

(* The characteristics exist, and the callbacks run, from here to restart. *)
Served(h) == ram[h].prov

(* Bytes that are not UTF-8 are ignored, which the client cannot tell. *)

(* Faulty: a password written earlier stays. *)
WriteSsid_KeepsPassword(h, s, utf8) ==
    /\ Served(h)
    /\ \/ utf8 /\ Become(h, [ram[h] EXCEPT !.ssid = s])
       \/ ~utf8 /\ UNCHANGED ram
    /\ typed' = [typed EXCEPT ![h] = s]
    /\ UNCHANGED <<image, flash, backend>>

WriteSsid(h, s, utf8) ==
    /\ Served(h)
    /\ \/ utf8 /\ Become(h, [ram[h] EXCEPT !.ssid = s, !.pass = None])
       \/ ~utf8 /\ UNCHANGED ram
    /\ typed' = [typed EXCEPT ![h] = s]
    /\ UNCHANGED <<image, flash, backend>>

Typed(h, right) == [net |-> IF right THEN typed[h] ELSE None, after |-> ram[h].ssid]

WritePassword(h, right, utf8) ==
    /\ Served(h)
    /\ \/ utf8 /\ Become(h, [ram[h] EXCEPT !.pass = Typed(h, right)])
       \/ ~utf8 /\ UNCHANGED ram
    /\ UNCHANGED <<image, flash, typed, backend>>

(* Faulty: the SSID alone is taken. *)
TakeComplete_SsidOnly(h) ==
    /\ At(h, "prov")
    /\ ram[h].ssid # None
    /\ Become(h, [ram[h] EXCEPT !.pc = "try",
                                !.creds = [ssid |-> ram[h].ssid, pass |-> ram[h].pass],
                                !.ssid = None,
                                !.pass = None])
    /\ UNCHANGED <<image, flash, typed, backend>>

TakeComplete(h) ==
    /\ At(h, "prov")
    /\ ram[h].ssid # None /\ ram[h].pass # None
    /\ Become(h, [ram[h] EXCEPT !.pc = "try",
                                !.creds = [ssid |-> ram[h].ssid, pass |-> ram[h].pass],
                                !.ssid = None,
                                !.pass = None])
    /\ UNCHANGED <<image, flash, typed, backend>>

TryConnects(h) ==
    /\ At(h, "try") /\ Works(ram[h].creds)
    /\ Become(h, [ram[h] EXCEPT !.pc = "save_ssid", !.status = "wifi_ok"])
    /\ UNCHANGED <<image, flash, typed, backend>>

TryFails(h) ==
    /\ At(h, "try")
    /\ Become(h, [ram[h] EXCEPT !.pc = "prov", !.creds = None])
    /\ UNCHANGED <<image, flash, typed, backend>>

(* Nor can advertising be started again. *)
AdvertisingFails(h) ==
    /\ At(h, "try")
    /\ Become(h, [ram[h] EXCEPT !.pc = "halt", !.creds = None])
    /\ UNCHANGED <<image, flash, typed, backend>>

SaveSsid(h) ==
    /\ At(h, "save_ssid")
    /\ flash' = [flash EXCEPT ![h].ssid = ram[h].creds.ssid]
    /\ Goto(h, "save_pass")
    /\ UNCHANGED <<image, typed, backend>>

SavePassword(h) ==
    /\ At(h, "save_pass")
    /\ flash' = [flash EXCEPT ![h].pass = ram[h].creds.pass]
    /\ Goto(h, "sync")
    /\ UNCHANGED <<image, typed, backend>>

(* A failed save is only logged. *)
SaveFails(h) ==
    /\ At(h, "save_ssid") \/ At(h, "save_pass")
    /\ Goto(h, "sync")
    /\ UNCHANGED <<image, flash, typed, backend>>

(* The scan for Setup probes, whose failures are only logged. *)
SetupScan(h) ==
    /\ At(h, "scan")
    /\ Become(h, [ram[h] EXCEPT !.pc = "restart", !.status = "scan_done"])
    /\ UNCHANGED <<image, flash, typed, backend>>

----------------------------------------------------------------------------
(* claim_hub_after_time_sync *)

(* Faulty: only what is missing is seeded. *)
Identify_SeedsMissing(h) ==
    /\ At(h, "sync")
    /\ Goto(h, IF flash[h].id = None THEN "seed_id"
               ELSE IF flash[h].secret = None THEN "seed_secret" ELSE "token")
    /\ UNCHANGED <<image, flash, typed, backend>>

(* Faulty: the identity of the build wins over the one in flash. *)
Identify_TrustsBuild(h) ==
    /\ At(h, "sync")
    /\ Goto(h, IF flash[h].secret = IdentityOf[image[h]] THEN "token" ELSE "seed_id")
    /\ UNCHANGED <<image, flash, typed, backend>>

(* The clock is set; load_or_generate_creds looks for both keys. *)
Identify(h) ==
    /\ At(h, "sync")
    /\ Goto(h, IF flash[h].id # None /\ flash[h].secret # None
               THEN "token" ELSE "seed_id")
    /\ UNCHANGED <<image, flash, typed, backend>>

SeedId(h) ==
    /\ At(h, "seed_id")
    /\ flash' = [flash EXCEPT ![h].id = IdentityOf[image[h]]]
    /\ Goto(h, "seed_secret")
    /\ UNCHANGED <<image, typed, backend>>

SeedSecret(h) ==
    /\ At(h, "seed_secret")
    /\ flash' = [flash EXCEPT ![h].secret = IdentityOf[image[h]]]
    /\ Goto(h, "token")
    /\ UNCHANGED <<image, typed, backend>>

UseDevToken(h) ==
    /\ At(h, "token")
    /\ image[h] \in DevImage
    /\ flash' = [flash EXCEPT ![h].jwt = DevToken]
    /\ Claimed(h, DevToken)
    /\ UNCHANGED <<image, typed, backend>>

UseStoredToken(h) ==
    /\ At(h, "token")
    /\ image[h] \notin DevImage /\ flash[h].jwt # None
    /\ Claimed(h, flash[h].jwt)
    /\ UNCHANGED <<image, flash, typed, backend>>

(* Faulty: a stored token is not trusted but claimed anew. *)
NoToken_ClaimsAgain(h) ==
    /\ At(h, "token")
    /\ image[h] \notin DevImage
    /\ Goto(h, "claim")
    /\ UNCHANGED <<image, flash, typed, backend>>

NoToken(h) ==
    /\ At(h, "token")
    /\ image[h] \notin DevImage /\ flash[h].jwt = None
    /\ Goto(h, "claim")
    /\ UNCHANGED <<image, flash, typed, backend>>

(* ClaimHubToken: the backend hands a token out once per identity. *)
CanClaim(i) == i \in associated \ claimed

ClaimAnswered(h) ==
    /\ At(h, "claim")
    /\ CanClaim(flash[h].id) /\ flash[h].secret = flash[h].id
    /\ claimed' = claimed \cup {flash[h].id}
    /\ revoked' = revoked \ {h}
    /\ Become(h, [ram[h] EXCEPT !.pc = "store", !.token = flash[h].id])
    /\ UNCHANGED <<image, flash, typed, associated, told>>

ClaimLost(h) ==
    /\ At(h, "claim")
    /\ CanClaim(flash[h].id) /\ flash[h].secret = flash[h].id
    /\ claimed' = claimed \cup {flash[h].id}
    /\ GiveUp(h)
    /\ UNCHANGED <<image, flash, typed, associated, revoked, told>>

(* FAILED_PRECONDITION *)
ClaimRefused(h) ==
    /\ At(h, "claim")
    /\ flash[h].id \in claimed
    /\ told' = told \cup {h}
    /\ GiveUp(h)
    /\ UNCHANGED <<image, flash, typed, associated, claimed, revoked>>

(* Faulty: the token is used although it could not be stored. *)
StoreToken_BestEffort(h) ==
    /\ At(h, "store")
    /\ \/ flash' = [flash EXCEPT ![h].jwt = ram[h].token]
       \/ UNCHANGED flash
    /\ Claimed(h, ram[h].token)
    /\ UNCHANGED <<image, typed, backend>>

StoreToken(h) ==
    /\ At(h, "store")
    /\ flash' = [flash EXCEPT ![h].jwt = ram[h].token]
    /\ Claimed(h, ram[h].token)
    /\ UNCHANGED <<image, typed, backend>>

(* No time, no flash, no backend, not associated: any of the steps may     *)
(* return Err without having done anything.                                *)
StepFails(h) ==
    /\ ram[h].pc \in {"sync", "seed_id", "seed_secret", "token", "claim", "store"}
    /\ GiveUp(h)
    /\ UNCHANGED <<image, flash, typed, backend>>

----------------------------------------------------------------------------
(* esp_restart after provisioning *)
Restart(h) ==
    /\ At(h, "restart")
    /\ Become(h, Fresh)
    /\ UNCHANGED <<image, flash, typed, backend>>

(* main has returned an error, and no code runs any more: only somebody    *)
(* who takes the power off and on gets the hub out of it.                  *)
Reboot(h) ==
    /\ At(h, "halt")
    /\ Become(h, Fresh)
    /\ UNCHANGED <<image, flash, typed, backend>>

PowerLoss(h) ==
    /\ Become(h, Fresh)
    /\ UNCHANGED <<image, flash, typed, backend>>

Reflash(h, i) ==
    /\ image' = [image EXCEPT ![h] = i]
    /\ Become(h, Fresh)
    /\ UNCHANGED <<flash, typed, backend>>

EraseFlash(h) ==
    /\ flash' = [flash EXCEPT ![h] = EmptyFlash]
    /\ Become(h, Fresh)
    /\ revoked' = revoked \ {h}
    /\ UNCHANGED <<image, typed, associated, claimed, told>>

(* The user's app *)
Associate(i) ==
    /\ associated' = associated \cup {i}
    /\ UNCHANGED <<image, flash, ram, typed, claimed, revoked, told>>

Revoke(i) ==
    /\ associated' = associated \ {i} /\ claimed' = claimed \ {i}
    /\ revoked' = revoked \cup {h \in Hub : i \in {flash[h].jwt, ram[h].token}}
    /\ told' = {h \in told : flash[h].id # i}
    /\ UNCHANGED <<image, flash, ram, typed>>

----------------------------------------------------------------------------
Step(h) ==
    \/ BootWithCredentials(h) \/ BootWithout(h) \/ Connects(h) \/ ConnectFails(h)
    \/ TakeComplete(h) \/ TryConnects(h) \/ TryFails(h) \/ AdvertisingFails(h)
    \/ SaveSsid(h) \/ SavePassword(h) \/ SaveFails(h)
    \/ Identify(h) \/ SeedId(h) \/ SeedSecret(h)
    \/ UseDevToken(h) \/ UseStoredToken(h) \/ NoToken(h)
    \/ ClaimAnswered(h) \/ ClaimLost(h) \/ ClaimRefused(h)
    \/ StoreToken(h) \/ StepFails(h)
    \/ SetupScan(h) \/ Restart(h)

Disturb(h) == PowerLoss(h) \/ EraseFlash(h) \/ \E i \in Image : Reflash(h, i)

Client(h) ==
    \E utf8 \in BOOLEAN :
        \/ \E s \in Ssid : WriteSsid(h, s, utf8)
        \/ \E right \in BOOLEAN : WritePassword(h, right, utf8)

User == \E i \in Identity : Associate(i) \/ Revoke(i)

Next == User \/ \E h \in Hub : Step(h) \/ Reboot(h) \/ Disturb(h) \/ Client(h)

Spec == Init /\ [][Next]_vars

(* What goes wrong although it might have gone right.  A claim for a hub   *)
(* nobody has associated is bound to fail, and so is a connection with the *)
(* wrong password; a save of what is in flash already cannot go wrong.     *)
Fails(h) ==
    \/ flash[h].ssid # None /\ flash[h].pass # None /\ BootWithout(h)
    \/ ram[h].creds # None /\ Works(ram[h].creds) /\ (ConnectFails(h) \/ TryFails(h))
    \/ SaveFails(h) /\ ~SavePassword(h)
    \/ ~Served(h) /\ Served(h)' /\ At(h, "halt")'
    \/ AdvertisingFails(h) \/ ClaimLost(h)
    \/ /\ At(h, "claim") => flash[h].id \in associated /\ h \notin told
       /\ StepFails(h)

Misled(h) == \/ Disturb(h) /\ ~Restart(h) /\ ~Reboot(h)
             \/ Fails(h)
             \/ \E s \in Ssid : WriteSsid(h, s, FALSE)
             \/ WritePassword(h, FALSE, TRUE)
             \/ h \notin told /\ Revoke(flash[h].id)

(* Disturbances, failures and mistakes end, at a moment nobody knows and   *)
(* in whatever state they leave the hub; from then on the program keeps    *)
(* going, the client enters the right pair until it has been taken, and    *)
(* the user associates the hub, and revokes it when it says that it has    *)
(* been claimed already.  Nobody has to reboot a hub.                      *)
FairSpec ==
    /\ Spec
    /\ \A h \in Hub :
        /\ <>[][~Misled(h)]_vars
        /\ WF_vars(Step(h))
        /\ SF_vars(\E s \in Ssid : WriteSsid(h, s, TRUE))
        /\ SF_vars(ram[h].ssid # None /\ WritePassword(h, TRUE, TRUE))
        /\ SF_vars(TakeComplete(h))
        /\ WF_vars(h \in told /\ Revoke(flash[h].id))
    /\ \A i \in Identity : WF_vars(Associate(i))

----------------------------------------------------------------------------
Places == {"boot", "connect", "prov", "try", "save_ssid", "save_pass", "sync",
           "seed_id", "seed_secret", "token", "claim", "store", "scan",
           "restart", "main", "halt"}

Token == Identity \cup {DevToken}

FlashType == [ssid : Ssid \cup {None}, pass : Password \cup {None},
              id : Identity \cup {None}, secret : Identity \cup {None},
              jwt : Token \cup {None}]

RamType == [pc : Places, prov : BOOLEAN,
            ssid : Ssid \cup {None}, pass : Password \cup {None},
            creds : Credentials \cup {None}, token : Token \cup {None},
            status : {"waiting", "wifi_ok", "claim_ok", "scan_done"}]

(* Types of the whole state; credentials and token are there where the     *)
(* code uses them.                                                         *)
TypeOK ==
    /\ image \in [Hub -> Image]
    /\ flash \in [Hub -> FlashType]
    /\ ram \in [Hub -> RamType]
    /\ typed \in [Hub -> Ssid \cup {None}]
    /\ associated \subseteq Identity /\ claimed \subseteq Identity
    /\ revoked \subseteq Hub /\ told \subseteq Hub
    /\ \A h \in Hub :
        /\ ram[h].pc \in {"connect", "try", "save_ssid", "save_pass"} => ram[h].creds # None
        /\ ram[h].pc \in {"store", "scan", "restart", "main"} => ram[h].token # None

(* persist.rs:34, "seed the build-time pair atomically": although id and   *)
(* secret are two writes, a stored secret is never that of another build's *)
(* identity than the stored device id, across power losses and failed      *)
(* writes between the two and firmware of another build in between.        *)
IdentityOfOneBuild ==
    \A h \in Hub : flash[h].secret # None => flash[h].id = flash[h].secret

(* A claimed token in flash is the token of the device id in flash: the    *)
(* hub never talks to the backend under one id with the token of another,  *)
(* whatever firmware it was flashed with since (main.rs:430-463).          *)
TokenOfIdentity ==
    \A h \in Hub : flash[h].jwt \in Identity =>
        flash[h].jwt = flash[h].id /\ flash[h].jwt = flash[h].secret

(* wifi_prov.rs:132-134, "the password must follow, which avoids mixing a  *)
(* new SSID with an old password": the password an SSID is tried with came *)
(* in while that SSID waited at the hub, so none that was there before it, *)
(* however the client's writes and the loop interleave.                    *)
NeverMixed ==
    \A h \in Hub : ram[h].pc \in {"try", "save_ssid", "save_pass"} =>
        ram[h].creds.pass.after = ram[h].creds.ssid

(* What the app is shown survives a loss of power: CLAIM_OK, and the scan  *)
(* that follows, mean that the token is in flash and the identity with it  *)
(* (wifi_prov.rs:196-232): no revocation is needed to claim again.         *)
ClaimOkIsStored ==
    \A h \in Hub : ram[h].status \in {"claim_ok", "scan_done"} =>
        flash[h].jwt = ram[h].token /\ flash[h].secret # None

(* The main loop runs on what the next boot will find: a reset in the loop *)
(* leads back into it without the client, the user or a claim.             *)
LoopIsRepeatable ==
    \A h \in Hub : ram[h].pc = "main" =>
        /\ flash[h].jwt = ram[h].token /\ flash[h].secret # None
        /\ ram[h].creds = [ssid |-> flash[h].ssid, pass |-> flash[h].pass]
        /\ Works(ram[h].creds)

(* persist.rs:36-50, main.rs:430-463 and auth.rs: id and secret are two    *)
(* writes, and claiming and storing a token are steps of two machines, yet *)
(* as a whole they are HubIdentity, for which a hub without a secret has   *)
(* no identity yet.                                                        *)
Store == INSTANCE HubIdentity WITH
    identity <- [h \in Hub |-> IF flash[h].secret = None THEN None ELSE flash[h].id],
    token <- [h \in Hub |-> flash[h].jwt]

KeepsIdentity == Store!Spec

(* A hub that is not left halted gets into the main loop in the end, and   *)
(* stays there: no torn pair of credentials or identity, no lost claim and *)
(* no failed save is a trap for a hub that somebody reboots.  No step of   *)
(* the program leads out of a halt (main.rs:88, auth.rs:28-29).            *)
GetsToMain ==
    \A h \in Hub : []<>(ram[h].pc # "halt") => <>[](ram[h].pc = "main")

----------------------------------------------------------------------------
(* wifi_prov.rs:133, "Chaque write SSID demarre une nouvelle paire" (each  *)
(* SSID write starts a new pair): an SSID is never tried with the password *)
(* that was typed for another one.                                         *)
EachWriteStartsAPair ==
    \A h \in Hub : ram[h].pc = "try" => ram[h].creds.pass.net \in {None, ram[h].creds.ssid}

(* FIX_GRPC.md:293-294, "expect to either re-claim (after the user calls   *)
(* RevokeHub) or add a refresh RPC": a hub that boots after a revocation   *)
(* does not take the revoked token for its own.                            *)
NoRevokedTokenReused ==
    [][\A h \in Hub : UseStoredToken(h) => h \notin revoked]_vars

=============================================================================

--------------------------- MODULE HubSetupProofs ---------------------------
(***************************************************************************)
(* Theorems about HubSetup, for every number of hubs, images, identities   *)
(* and networks, and wherever power is lost.                               *)
(*                                                                         *)
(* What has to be remembered is said of one hub at a time, as predicates   *)
(* of its image i, its flash f, its program's state r and the SSID t that  *)
(* its client wrote last, so that a step is about the records of one hub   *)
(* and Framed carries it over to the functions of all of them.             *)
(***************************************************************************)
EXTENDS HubSetup, TLAPS

RowType(i, f, r, t) ==
    /\ i \in Image /\ f \in FlashType /\ r \in RamType /\ t \in Ssid \cup {None}
    /\ r.pc \in {"connect", "try", "save_ssid", "save_pass"} => r.creds # None
    /\ r.pc \in {"store", "scan", "restart", "main"} => r.token # None

(* Id and secret.  While they are being seeded there is no secret, so that *)
(* a torn seeding leaves none behind, and an id that is seeded over had no *)
(* token; a token about to be stored is that of the id in flash, and the   *)
(* first of it.                                                            *)
IdentityInv(i, f, r) ==
    /\ f.secret # None => f.id = f.secret
    /\ r.pc \in {"seed_id", "seed_secret"} => f.secret = None
    /\ r.pc = "seed_secret" => f.id = IdentityOf[i]
    /\ r.pc \in {"token", "claim", "store"} => f.secret # None
    /\ f.jwt \in Identity => f.jwt = f.id /\ f.jwt = f.secret
    /\ r.pc = "store" => r.token = f.id
    /\ f.jwt # None => f.secret # None
    /\ r.pc \in {"claim", "store"} => f.jwt = None

(* The pending pair: a password that waits with an SSID came in after it,  *)
(* and still does when both have been taken.                               *)
PairInv(r) ==
    /\ r.ssid # None /\ r.pass # None => r.pass.after = r.ssid
    /\ r.pc \in {"try", "save_ssid", "save_pass"} => r.creds.pass.after = r.creds.ssid

(* What the status shows is so for as long as it is shown. *)
StatusInv(f, r) ==
    /\ r.pc = "scan" => r.status = "claim_ok"
    /\ r.status \in {"claim_ok", "scan_done"} =>
          /\ r.pc \in {"scan", "restart"}
          /\ f.jwt = r.token /\ f.secret # None

(* A boot that is not provisioning runs on the credentials in flash, with  *)
(* which it has connected; it has left the token and the identity there.   *)
BootInv(f, r) ==
    /\ r.pc \in {"boot", "connect", "main"} => ~r.prov
    /\ r.pc \in {"prov", "try", "save_ssid", "save_pass"} => r.prov
    /\ r.pc \in {"connect", "sync", "seed_id", "seed_secret", "token",
                 "claim", "store", "main"} /\ ~r.prov =>
          /\ r.creds = [ssid |-> f.ssid, pass |-> f.pass] /\ r.creds # None
          /\ r.pc # "connect" => Works(r.creds)
    /\ r.pc = "main" => f.jwt = r.token /\ f.secret # None

Good(i, f, r, t) ==
    RowType(i, f, r, t) /\ IdentityInv(i, f, r) /\ PairInv(r)
        /\ StatusInv(f, r) /\ BootInv(f, r)

State ==
    /\ image \in [Hub -> Image] /\ flash \in [Hub -> FlashType]
    /\ ram \in [Hub -> RamType] /\ typed \in [Hub -> Ssid \cup {None}]
    /\ associated \subseteq Identity /\ claimed \subseteq Identity
    /\ revoked \subseteq Hub /\ told \subseteq Hub

GoodHub(h) == Good(image[h], flash[h], ram[h], typed[h])

Inv == State /\ \A h \in Hub : GoodHub(h)

----------------------------------------------------------------------------
(* A step that changes hub g alone, and leaves it good, keeps the invariant. *)
LEMMA Framed ==
    ASSUME Inv, State', NEW g \in Hub, GoodHub(g)',
           \A h \in Hub \ {g} : UNCHANGED <<image[h], flash[h], ram[h], typed[h]>>
    PROVE  Inv'
<1>1. ASSUME NEW h \in Hub PROVE GoodHub(h)'
  <2>1. CASE h = g
    BY <2>1
  <2>2. CASE h # g
    BY <2>2 DEF Inv, GoodHub
  <2>3. QED
    BY <2>1, <2>2
<1>2. QED
  BY <1>1 DEF Inv

(* Most steps change the program's state only. *)
LEMMA RamFramed ==
    ASSUME Inv, NEW g \in Hub, NEW r, Become(g, r),
           UNCHANGED <<image, flash, typed, backend>>,
           Good(image[g], flash[g], r, typed[g])
    PROVE  Inv'
<1>1. r \in RamType
  BY DEF Good, RowType
<1>2. State'
  BY <1>1 DEF Inv, State, Become, backend
<1>3. ram'[g] = r /\ \A h \in Hub \ {g} : UNCHANGED ram[h]
  BY DEF Become, Inv, State
<1>4. GoodHub(g)'
  BY <1>3 DEF GoodHub
<1>5. QED
  BY <1>2, <1>3, <1>4, Framed

(* Others write to the hub's flash, or are about the backend besides. *)
LEMMA FlashFramed ==
    ASSUME Inv, NEW g \in Hub, NEW f, NEW r,
           flash' = [flash EXCEPT ![g] = f], Become(g, r),
           UNCHANGED <<image, typed>>,
           associated' \subseteq Identity, claimed' \subseteq Identity,
           revoked' \subseteq Hub, told' \subseteq Hub,
           Good(image[g], f, r, typed[g])
    PROVE  Inv'
<1>1. r \in RamType /\ f \in FlashType
  BY DEF Good, RowType
<1>2. State'
  BY <1>1 DEF Inv, State, Become
<1>3. /\ ram'[g] = r /\ \A h \in Hub \ {g} : UNCHANGED ram[h]
      /\ flash'[g] = f /\ \A h \in Hub \ {g} : UNCHANGED flash[h]
  BY DEF Become, Inv, State
<1>4. GoodHub(g)'
  BY <1>3 DEF GoodHub
<1>5. QED
  BY <1>2, <1>3, <1>4, Framed

----------------------------------------------------------------------------
(* From power-on to a connection or to provisioning. *)
LEMMA BootStep ==
    ASSUME Inv, NEW g \in Hub,
           BootWithCredentials(g) \/ BootWithout(g) \/ Connects(g) \/
           ConnectFails(g) \/ Restart(g) \/ Reboot(g) \/ PowerLoss(g)
    PROVE  Inv'
<1> USE SetupAssumption, PasswordAssumption, CredentialsAssumption
<1>0. Good(image[g], flash[g], ram[g], typed[g])
  BY DEF Inv, GoodHub
<1>1. CASE BootWithCredentials(g)
  <2> DEFINE r == [ram[g] EXCEPT !.pc = "connect",
                             !.creds = [ssid |-> flash[g].ssid, pass |-> flash[g].pass]]
  <2>1. Become(g, r) /\ UNCHANGED <<image, flash, typed, backend>>
    BY <1>1 DEF BootWithCredentials
  <2>2. [ssid |-> flash[g].ssid, pass |-> flash[g].pass] \in Credentials
    BY <1>0, <1>1 DEF BootWithCredentials, Good, RowType, FlashType, RamType, Credentials
  <2>3. Good(image[g], flash[g], r, typed[g])
    <3>1. RowType(image[g], flash[g], r, typed[g])
      <4>1. r \in RamType
        BY <1>0, <2>2 DEF Good, RowType, RamType, Places
      <4>2. r.pc = "connect" /\ r.creds # None
        BY <1>0, <2>2 DEF Good, RowType, RamType
      <4>3. QED
        BY <1>0, <4>1, <4>2 DEF Good, RowType
    <3>2. IdentityInv(image[g], flash[g], r)
      BY <1>0, <1>1, <2>2 DEF BootWithCredentials, At, Good, RowType, RamType, FlashType, IdentityInv
    <3>3. PairInv(r)
      BY <1>0, <1>1, <2>2 DEF BootWithCredentials, At, Good, RowType, RamType, PairInv
    <3>4. StatusInv(flash[g], r)
      BY <1>0, <1>1, <2>2 DEF BootWithCredentials, At, Good, RowType, RamType, IdentityInv, StatusInv
    <3>5. BootInv(flash[g], r)
      BY <1>0, <1>1, <2>2 DEF BootWithCredentials, At, Good, RowType, RamType, IdentityInv, StatusInv, BootInv, Works
    <3>6. QED
      BY <3>1, <3>2, <3>3, <3>4, <3>5 DEF Good
  <2> HIDE DEF r
  <2>4. QED
    BY <2>1, <2>3, RamFramed
<1>2. CASE BootWithout(g)
  <2>1. PICK place \in {"prov", "halt"} : Become(g, [Fresh EXCEPT !.pc = place, !.prov = TRUE])
    BY <1>2 DEF BootWithout, Provision
  <2> DEFINE r == [Fresh EXCEPT !.pc = place, !.prov = TRUE]
  <2>2. Become(g, r) /\ UNCHANGED <<image, flash, typed, backend>>
    BY <1>2, <2>1 DEF BootWithout
  <2>3. Good(image[g], flash[g], r, typed[g])
    <3>1. RowType(image[g], flash[g], r, typed[g])
      BY <1>0 DEF Fresh, Good, RowType, RamType, Places
    <3>2. /\ IdentityInv(image[g], flash[g], r) /\ PairInv(r)
          /\ StatusInv(flash[g], r) /\ BootInv(flash[g], r)
      BY <1>0 DEF Fresh, Good, RowType, IdentityInv, PairInv, StatusInv, BootInv
    <3>3. QED
      BY <3>1, <3>2 DEF Good
  <2> HIDE DEF r
  <2>4. QED
    BY <2>2, <2>3, RamFramed
<1>3. CASE Connects(g)
  <2> DEFINE r == [ram[g] EXCEPT !.pc = "sync"]
  <2>1. Become(g, r) /\ UNCHANGED <<image, flash, typed, backend>>
    BY <1>3 DEF Connects, Goto
  <2>2. Good(image[g], flash[g], r, typed[g])
    BY <1>0, <1>3 DEF Connects, At, Good, RowType, FlashType, RamType, Places,
          IdentityInv, PairInv, StatusInv, BootInv, Credentials, Password, Works
  <2> HIDE DEF r
  <2>3. QED
    BY <2>1, <2>2, RamFramed
<1>4. CASE ConnectFails(g)
  <2>1. PICK place \in {"prov", "halt"} : Become(g, [Fresh EXCEPT !.pc = place, !.prov = TRUE])
    BY <1>4 DEF ConnectFails, Provision
  <2> DEFINE r == [Fresh EXCEPT !.pc = place, !.prov = TRUE]
  <2>2. Become(g, r) /\ UNCHANGED <<image, flash, typed, backend>>
    BY <1>4, <2>1 DEF ConnectFails
  <2>3. Good(image[g], flash[g], r, typed[g])
    <3>1. RowType(image[g], flash[g], r, typed[g])
      BY <1>0 DEF Fresh, Good, RowType, RamType, Places
    <3>2. /\ IdentityInv(image[g], flash[g], r) /\ PairInv(r)
          /\ StatusInv(flash[g], r) /\ BootInv(flash[g], r)
      BY <1>0 DEF Fresh, Good, RowType, IdentityInv, PairInv, StatusInv, BootInv
    <3>3. QED
      BY <3>1, <3>2 DEF Good
  <2> HIDE DEF r
  <2>4. QED
    BY <2>2, <2>3, RamFramed
<1>5. CASE Restart(g)
  <2> DEFINE r == Fresh
  <2>1. Become(g, r) /\ UNCHANGED <<image, flash, typed, backend>>
    BY <1>5 DEF Restart
  <2>2. Good(image[g], flash[g], r, typed[g])
    BY <1>0, <1>5 DEF Restart, At, Fresh, Good, RowType, FlashType, RamType, Places,
          IdentityInv, PairInv, StatusInv, BootInv, Credentials, Password, Works
  <2> HIDE DEF r
  <2>3. QED
    BY <2>1, <2>2, RamFramed
<1>6. CASE PowerLoss(g)
  <2> DEFINE r == Fresh
  <2>1. Become(g, r) /\ UNCHANGED <<image, flash, typed, backend>>
    BY <1>6 DEF PowerLoss
  <2>2. Good(image[g], flash[g], r, typed[g])
    BY <1>0, <1>6 DEF PowerLoss, At, Fresh, Good, RowType, FlashType, RamType, Places,
          IdentityInv, PairInv, StatusInv, BootInv, Credentials, Password, Works
  <2> HIDE DEF r
  <2>3. QED
    BY <2>1, <2>2, RamFramed
<1>7. CASE Reboot(g)
  <2> DEFINE r == Fresh
  <2>1. Become(g, r) /\ UNCHANGED <<image, flash, typed, backend>>
    BY <1>7 DEF Reboot
  <2>2. Good(image[g], flash[g], r, typed[g])
    BY <1>0, <1>7 DEF Reboot, At, Fresh, Good, RowType, FlashType, RamType, Places,
          IdentityInv, PairInv, StatusInv, BootInv, Credentials, Password, Works
  <2> HIDE DEF r
  <2>3. QED
    BY <2>1, <2>2, RamFramed
<1>8. QED
  BY <1>1, <1>2, <1>3, <1>4, <1>5, <1>6, <1>7

(* Credentials are taken, tried and saved; the scan for Setup probes. *)
LEMMA ProvisioningStep ==
    ASSUME Inv, NEW g \in Hub,
           TakeComplete(g) \/ TryConnects(g) \/ TryFails(g) \/
           AdvertisingFails(g) \/ SaveSsid(g) \/ SavePassword(g) \/
           SaveFails(g) \/ SetupScan(g)
    PROVE  Inv'
<1> USE SetupAssumption, PasswordAssumption, CredentialsAssumption
<1>0. Good(image[g], flash[g], ram[g], typed[g])
  BY DEF Inv, GoodHub
<1>1. CASE TakeComplete(g)
  <2> DEFINE r == [ram[g] EXCEPT !.pc = "try",
                             !.creds = [ssid |-> ram[g].ssid, pass |-> ram[g].pass],
                             !.ssid = None, !.pass = None]
  <2>1. Become(g, r) /\ UNCHANGED <<image, flash, typed, backend>>
    BY <1>1 DEF TakeComplete
  <2>2. [ssid |-> ram[g].ssid, pass |-> ram[g].pass] \in Credentials
    BY <1>0, <1>1 DEF TakeComplete, Good, RowType, FlashType, RamType, Credentials
  <2>3. Good(image[g], flash[g], r, typed[g])
    <3>1. RowType(image[g], flash[g], r, typed[g])
      BY <1>0, <1>1, <2>2 DEF TakeComplete, At, Good, RowType, RamType, Places, Credentials
    <3>2. IdentityInv(image[g], flash[g], r)
      BY <1>0, <1>1, <2>2 DEF TakeComplete, At, Good, RowType, RamType, FlashType, IdentityInv
    <3>3. PairInv(r)
      BY <1>0, <1>1, <2>2 DEF TakeComplete, At, Good, RowType, RamType, PairInv
    <3>4. StatusInv(flash[g], r)
      BY <1>0, <1>1, <2>2 DEF TakeComplete, At, Good, RowType, RamType, IdentityInv, StatusInv
    <3>5. BootInv(flash[g], r)
      BY <1>0, <1>1, <2>2 DEF TakeComplete, At, Good, RowType, RamType, IdentityInv, StatusInv, BootInv, Works
    <3>6. QED
      BY <3>1, <3>2, <3>3, <3>4, <3>5 DEF Good
  <2> HIDE DEF r
  <2>4. QED
    BY <2>1, <2>3, RamFramed
<1>2. CASE TryConnects(g)
  <2> DEFINE r == [ram[g] EXCEPT !.pc = "save_ssid", !.status = "wifi_ok"]
  <2>1. Become(g, r) /\ UNCHANGED <<image, flash, typed, backend>>
    BY <1>2 DEF TryConnects
  <2>2. Good(image[g], flash[g], r, typed[g])
    <3>1. RowType(image[g], flash[g], r, typed[g])
      BY <1>0, <1>2 DEF TryConnects, At, Good, RowType, RamType, Places, Credentials
    <3>2. IdentityInv(image[g], flash[g], r)
      BY <1>0, <1>2 DEF TryConnects, At, Good, RowType, RamType, FlashType, IdentityInv
    <3>3. PairInv(r)
      BY <1>0, <1>2 DEF TryConnects, At, Good, RowType, RamType, PairInv
    <3>4. StatusInv(flash[g], r)
      BY <1>0, <1>2 DEF TryConnects, At, Good, RowType, RamType, IdentityInv, StatusInv
    <3>5. BootInv(flash[g], r)
      BY <1>0, <1>2 DEF TryConnects, At, Good, RowType, RamType, IdentityInv, StatusInv, BootInv, Works
    <3>6. QED
      BY <3>1, <3>2, <3>3, <3>4, <3>5 DEF Good
  <2> HIDE DEF r
  <2>3. QED
    BY <2>1, <2>2, RamFramed
<1>3. CASE TryFails(g)
  <2> DEFINE r == [ram[g] EXCEPT !.pc = "prov", !.creds = None]
  <2>1. Become(g, r) /\ UNCHANGED <<image, flash, typed, backend>>
    BY <1>3 DEF TryFails
  <2>2. Good(image[g], flash[g], r, typed[g])
    <3>1. RowType(image[g], flash[g], r, typed[g])
      BY <1>0, <1>3 DEF TryFails, At, Good, RowType, RamType, Places, Credentials
    <3>2. IdentityInv(image[g], flash[g], r)
      BY <1>0, <1>3 DEF TryFails, At, Good, RowType, RamType, FlashType, IdentityInv
    <3>3. PairInv(r)
      BY <1>0, <1>3 DEF TryFails, At, Good, RowType, RamType, PairInv
    <3>4. StatusInv(flash[g], r)
      BY <1>0, <1>3 DEF TryFails, At, Good, RowType, RamType, IdentityInv, StatusInv
    <3>5. BootInv(flash[g], r)
      BY <1>0, <1>3 DEF TryFails, At, Good, RowType, RamType, IdentityInv, StatusInv, BootInv, Works
    <3>6. QED
      BY <3>1, <3>2, <3>3, <3>4, <3>5 DEF Good
  <2> HIDE DEF r
  <2>3. QED
    BY <2>1, <2>2, RamFramed
<1>4. CASE AdvertisingFails(g)
  <2> DEFINE r == [ram[g] EXCEPT !.pc = "halt", !.creds = None]
  <2>1. Become(g, r) /\ UNCHANGED <<image, flash, typed, backend>>
    BY <1>4 DEF AdvertisingFails
  <2>2. Good(image[g], flash[g], r, typed[g])
    <3>1. RowType(image[g], flash[g], r, typed[g])
      BY <1>0, <1>4 DEF AdvertisingFails, At, Good, RowType, RamType, Places, Credentials
    <3>2. IdentityInv(image[g], flash[g], r)
      BY <1>0, <1>4 DEF AdvertisingFails, At, Good, RowType, RamType, FlashType, IdentityInv
    <3>3. PairInv(r)
      BY <1>0, <1>4 DEF AdvertisingFails, At, Good, RowType, RamType, PairInv
    <3>4. StatusInv(flash[g], r)
      BY <1>0, <1>4 DEF AdvertisingFails, At, Good, RowType, RamType, IdentityInv, StatusInv
    <3>5. BootInv(flash[g], r)
      BY <1>0, <1>4 DEF AdvertisingFails, At, Good, RowType, RamType, IdentityInv, StatusInv, BootInv, Works
    <3>6. QED
      BY <3>1, <3>2, <3>3, <3>4, <3>5 DEF Good
  <2> HIDE DEF r
  <2>3. QED
    BY <2>1, <2>2, RamFramed
<1>5. CASE SaveSsid(g)
  <2> DEFINE f == [flash[g] EXCEPT !.ssid = ram[g].creds.ssid]
  <2> DEFINE r == [ram[g] EXCEPT !.pc = "save_pass"]
  <2>1. /\ flash' = [flash EXCEPT ![g] = f] /\ Become(g, r) /\ UNCHANGED <<image, typed, backend>>
    BY <1>5 DEF SaveSsid, Inv, State, Goto
  <2>2. Good(image[g], f, r, typed[g])
    BY <1>0, <1>5 DEF SaveSsid, At, Good, RowType, FlashType, RamType, Places,
          IdentityInv, PairInv, StatusInv, BootInv, Credentials, Password, Works
  <2>3. /\ associated' \subseteq Identity /\ claimed' \subseteq Identity
        /\ revoked' \subseteq Hub /\ told' \subseteq Hub
    BY <2>1 DEF Inv, State, backend
  <2> HIDE DEF f, r
  <2>4. QED
    BY <2>1, <2>2, <2>3, FlashFramed
<1>6. CASE SavePassword(g)
  <2> DEFINE f == [flash[g] EXCEPT !.pass = ram[g].creds.pass]
  <2> DEFINE r == [ram[g] EXCEPT !.pc = "sync"]
  <2>1. /\ flash' = [flash EXCEPT ![g] = f] /\ Become(g, r) /\ UNCHANGED <<image, typed, backend>>
    BY <1>6 DEF SavePassword, Inv, State, Goto
  <2>2. Good(image[g], f, r, typed[g])
    BY <1>0, <1>6 DEF SavePassword, At, Good, RowType, FlashType, RamType, Places,
          IdentityInv, PairInv, StatusInv, BootInv, Credentials, Password, Works
  <2>3. /\ associated' \subseteq Identity /\ claimed' \subseteq Identity
        /\ revoked' \subseteq Hub /\ told' \subseteq Hub
    BY <2>1 DEF Inv, State, backend
  <2> HIDE DEF f, r
  <2>4. QED
    BY <2>1, <2>2, <2>3, FlashFramed
<1>7. CASE SaveFails(g)
  <2> DEFINE r == [ram[g] EXCEPT !.pc = "sync"]
  <2>1. Become(g, r) /\ UNCHANGED <<image, flash, typed, backend>>
    BY <1>7 DEF SaveFails, Goto
  <2>2. Good(image[g], flash[g], r, typed[g])
    BY <1>0, <1>7 DEF SaveFails, At, Good, RowType, FlashType, RamType, Places,
          IdentityInv, PairInv, StatusInv, BootInv, Credentials, Password, Works
  <2> HIDE DEF r
  <2>3. QED
    BY <2>1, <2>2, RamFramed
<1>8. CASE SetupScan(g)
  <2> DEFINE r == [ram[g] EXCEPT !.pc = "restart", !.status = "scan_done"]
  <2>1. Become(g, r) /\ UNCHANGED <<image, flash, typed, backend>>
    BY <1>8 DEF SetupScan
  <2>2. Good(image[g], flash[g], r, typed[g])
    <3>1. RowType(image[g], flash[g], r, typed[g])
      BY <1>0, <1>8 DEF SetupScan, At, Good, RowType, RamType, Places, Credentials
    <3>2. IdentityInv(image[g], flash[g], r)
      BY <1>0, <1>8 DEF SetupScan, At, Good, RowType, RamType, FlashType, IdentityInv
    <3>3. PairInv(r)
      BY <1>0, <1>8 DEF SetupScan, At, Good, RowType, RamType, PairInv
    <3>4. StatusInv(flash[g], r)
      BY <1>0, <1>8 DEF SetupScan, At, Good, RowType, RamType, IdentityInv, StatusInv
    <3>5. BootInv(flash[g], r)
      BY <1>0, <1>8 DEF SetupScan, At, Good, RowType, RamType, IdentityInv, StatusInv, BootInv, Works
    <3>6. QED
      BY <3>1, <3>2, <3>3, <3>4, <3>5 DEF Good
  <2> HIDE DEF r
  <2>3. QED
    BY <2>1, <2>2, RamFramed
<1>9. QED
  BY <1>1, <1>2, <1>3, <1>4, <1>5, <1>6, <1>7, <1>8

(* The identity is looked for and seeded. *)
LEMMA IdentityStep ==
    ASSUME Inv, NEW g \in Hub,
           Identify(g) \/ SeedId(g) \/ SeedSecret(g)
    PROVE  Inv'
<1> USE SetupAssumption, PasswordAssumption, CredentialsAssumption
<1>0. Good(image[g], flash[g], ram[g], typed[g])
  BY DEF Inv, GoodHub
<1>1. CASE Identify(g)
  <2> DEFINE r == [ram[g] EXCEPT !.pc = IF flash[g].id # None /\ flash[g].secret # None
                                       THEN "token" ELSE "seed_id"]
  <2>1. Become(g, r) /\ UNCHANGED <<image, flash, typed, backend>>
    BY <1>1 DEF Identify, Goto
  <2>2. Good(image[g], flash[g], r, typed[g])
    BY <1>0, <1>1 DEF Identify, At, Good, RowType, FlashType, RamType, Places,
          IdentityInv, PairInv, StatusInv, BootInv, Credentials, Password, Works
  <2> HIDE DEF r
  <2>3. QED
    BY <2>1, <2>2, RamFramed
<1>2. CASE SeedId(g)
  <2> DEFINE f == [flash[g] EXCEPT !.id = IdentityOf[image[g]]]
  <2> DEFINE r == [ram[g] EXCEPT !.pc = "seed_secret"]
  <2>1. /\ flash' = [flash EXCEPT ![g] = f] /\ Become(g, r) /\ UNCHANGED <<image, typed, backend>>
    BY <1>2 DEF SeedId, Inv, State, Goto
  <2>2. Good(image[g], f, r, typed[g])
    BY <1>0, <1>2 DEF SeedId, At, Good, RowType, FlashType, RamType, Places,
          IdentityInv, PairInv, StatusInv, BootInv, Credentials, Password, Works
  <2>3. /\ associated' \subseteq Identity /\ claimed' \subseteq Identity
        /\ revoked' \subseteq Hub /\ told' \subseteq Hub
    BY <2>1 DEF Inv, State, backend
  <2> HIDE DEF f, r
  <2>4. QED
    BY <2>1, <2>2, <2>3, FlashFramed
<1>3. CASE SeedSecret(g)
  <2> DEFINE f == [flash[g] EXCEPT !.secret = IdentityOf[image[g]]]
  <2> DEFINE r == [ram[g] EXCEPT !.pc = "token"]
  <2>1. /\ flash' = [flash EXCEPT ![g] = f] /\ Become(g, r) /\ UNCHANGED <<image, typed, backend>>
    BY <1>3 DEF SeedSecret, Inv, State, Goto
  <2>2. Good(image[g], f, r, typed[g])
    BY <1>0, <1>3 DEF SeedSecret, At, Good, RowType, FlashType, RamType, Places,
          IdentityInv, PairInv, StatusInv, BootInv, Credentials, Password, Works
  <2>3. /\ associated' \subseteq Identity /\ claimed' \subseteq Identity
        /\ revoked' \subseteq Hub /\ told' \subseteq Hub
    BY <2>1 DEF Inv, State, backend
  <2> HIDE DEF f, r
  <2>4. QED
    BY <2>1, <2>2, <2>3, FlashFramed
<1>4. QED
  BY <1>1, <1>2, <1>3

(* The records that GiveUp and Claimed leave. *)
GivenUp(r) == [r EXCEPT !.pc = IF r.prov THEN "prov" ELSE "halt", !.status = "waiting",
                        !.creds = IF r.prov THEN None ELSE @, !.token = None]

WithToken(r, token) ==
    [r EXCEPT !.pc = IF r.prov THEN "scan" ELSE "main",
              !.status = IF r.prov THEN "claim_ok" ELSE @, !.token = token]

(* GiveUp leaves a hub good: nothing is shown or held that is not so. *)
LEMMA GivenUpIsGood ==
    ASSUME NEW i, NEW f, NEW r, NEW t, Good(i, f, r, t)
    PROVE  Good(i, f, GivenUp(r), t)
<1> USE SetupAssumption, PasswordAssumption, CredentialsAssumption
<1>1. CASE r.prov
  <2>1. GivenUp(r) = [r EXCEPT !.pc = "prov", !.status = "waiting", !.creds = None, !.token = None]
    BY <1>1 DEF GivenUp, Good, RowType, RamType
  <2>2. RowType(i, f, GivenUp(r), t)
    BY <1>1, <2>1 DEF Good, RowType, RamType, Places
  <2>3. IdentityInv(i, f, GivenUp(r)) /\ PairInv(GivenUp(r))
    BY <1>1, <2>1 DEF Good, RowType, RamType, IdentityInv, PairInv
  <2>4. StatusInv(f, GivenUp(r)) /\ BootInv(f, GivenUp(r))
    BY <1>1, <2>1 DEF Good, RowType, RamType, StatusInv, BootInv
  <2>5. QED
    BY <2>2, <2>3, <2>4 DEF Good
<1>2. CASE ~r.prov
  <2>1. GivenUp(r) = [r EXCEPT !.pc = "halt", !.status = "waiting", !.token = None]
    BY <1>2 DEF GivenUp, Good, RowType, RamType
  <2>2. RowType(i, f, GivenUp(r), t)
    BY <1>2, <2>1 DEF Good, RowType, RamType, Places
  <2>3. IdentityInv(i, f, GivenUp(r)) /\ PairInv(GivenUp(r))
    BY <1>2, <2>1 DEF Good, RowType, RamType, IdentityInv, PairInv
  <2>4. StatusInv(f, GivenUp(r)) /\ BootInv(f, GivenUp(r))
    BY <1>2, <2>1 DEF Good, RowType, RamType, StatusInv, BootInv
  <2>5. QED
    BY <2>2, <2>3, <2>4 DEF Good
<1>3. QED
  BY <1>1, <1>2

(* So does Claimed, with a token that is that of the id in flash. *)
LEMMA WithTokenIsGood ==
    ASSUME NEW i, NEW f, NEW r, NEW t, NEW token \in Token, Good(i, f, r, t),
           r.pc \in {"token", "store"}, token \in Identity => token = f.id
    PROVE  Good(i, [f EXCEPT !.jwt = token], WithToken(r, token), t)
<1> USE SetupAssumption, PasswordAssumption, CredentialsAssumption
<1> DEFINE e == [f EXCEPT !.jwt = token]
<1>0. /\ e \in FlashType /\ e.jwt = token
      /\ e.ssid = f.ssid /\ e.pass = f.pass /\ e.id = f.id /\ e.secret = f.secret
  BY DEF Good, RowType, FlashType
<1>1. CASE r.prov
  <2>1. WithToken(r, token) = [r EXCEPT !.pc = "scan", !.status = "claim_ok", !.token = token]
    BY <1>1 DEF WithToken, Good, RowType, RamType
  <2> HIDE DEF e
  <2>2. Good(i, e, WithToken(r, token), t)
    <3> DEFINE q == WithToken(r, token)
    <3>1. q \in RamType
      BY <2>1 DEF Good, RowType, RamType, Places
    <3>2. q.token # None /\ q.pc \in {"scan", "main"}
      BY <2>1 DEF Good, RowType, RamType, Token
    <3>3. RowType(i, e, q, t)
      BY <1>0, <3>1, <3>2 DEF Good, RowType
    <3>4. IdentityInv(i, e, q)
      BY <1>0, <2>1 DEF Good, RowType, Token, RamType, IdentityInv
    <3>5. PairInv(q)
      BY <1>0, <2>1 DEF Good, RowType, RamType, PairInv
    <3>6. StatusInv(e, q)
      BY <1>0, <1>1, <2>1 DEF Good, RowType, RamType, IdentityInv, StatusInv
    <3>7. BootInv(e, q)
      BY <1>0, <1>1, <2>1 DEF Good, RowType, RamType, IdentityInv, BootInv
    <3>8. QED
      BY <3>3, <3>4, <3>5, <3>6, <3>7 DEF Good
  <2>3. QED
    BY <2>2 DEF e
<1>2. CASE ~r.prov
  <2>1. WithToken(r, token) = [r EXCEPT !.pc = "main", !.token = token]
    BY <1>2 DEF WithToken, Good, RowType, RamType
  <2> HIDE DEF e
  <2>2. Good(i, e, WithToken(r, token), t)
    <3> DEFINE q == WithToken(r, token)
    <3>1. q \in RamType
      BY <2>1 DEF Good, RowType, RamType, Places
    <3>2. q.token # None /\ q.pc \in {"scan", "main"}
      BY <2>1 DEF Good, RowType, RamType, Token
    <3>3. RowType(i, e, q, t)
      BY <1>0, <3>1, <3>2 DEF Good, RowType
    <3>4. IdentityInv(i, e, q)
      BY <1>0, <2>1 DEF Good, RowType, Token, RamType, IdentityInv
    <3>5. PairInv(q)
      BY <1>0, <2>1 DEF Good, RowType, RamType, PairInv
    <3>6. StatusInv(e, q)
      BY <1>0, <1>2, <2>1 DEF Good, RowType, RamType, IdentityInv, StatusInv
    <3>7. BootInv(e, q)
      BY <1>0, <1>2, <2>1 DEF Good, RowType, RamType, IdentityInv, BootInv
    <3>8. QED
      BY <3>3, <3>4, <3>5, <3>6, <3>7 DEF Good
  <2>3. QED
    BY <2>2 DEF e
<1>3. QED
  BY <1>1, <1>2

(* A token is found, claimed and stored, or the attempt is given up. *)
LEMMA TokenStep ==
    ASSUME Inv, NEW g \in Hub,
           UseDevToken(g) \/ UseStoredToken(g) \/ NoToken(g) \/
           ClaimAnswered(g) \/ ClaimLost(g) \/ ClaimRefused(g) \/
           StoreToken(g) \/ StepFails(g)
    PROVE  Inv'
<1> USE SetupAssumption, PasswordAssumption, CredentialsAssumption
<1>0. Good(image[g], flash[g], ram[g], typed[g])
  BY DEF Inv, GoodHub
<1>1. CASE UseDevToken(g)
  <2>1. DevToken \in Token /\ (DevToken \in Identity => DevToken = flash[g].id)
    BY <1>0, <1>1 DEF UseDevToken, At, Token, Good, RowType, FlashType, RamType, IdentityInv
  <2> DEFINE f == [flash[g] EXCEPT !.jwt = DevToken]
  <2> DEFINE r == WithToken(ram[g], DevToken)
  <2>2. Good(image[g], f, r, typed[g])
    BY <1>0, <1>1, <2>1, WithTokenIsGood DEF UseDevToken, At
  <2>3. /\ flash' = [flash EXCEPT ![g] = f] /\ Become(g, r)
        /\ UNCHANGED <<image, typed, backend>>
    BY <1>0, <1>1 DEF UseDevToken, Claimed, WithToken, Inv, State, Good, RowType, FlashType
  <2>4. /\ associated' \subseteq Identity /\ claimed' \subseteq Identity
        /\ revoked' \subseteq Hub /\ told' \subseteq Hub
    BY <2>3 DEF Inv, State, backend
  <2> HIDE DEF f, r
  <2>5. QED
    BY <2>2, <2>3, <2>4, FlashFramed
<1>2. CASE UseStoredToken(g)
  <2>1. flash[g].jwt \in Token /\ (flash[g].jwt \in Identity => flash[g].jwt = flash[g].id)
    BY <1>0, <1>2 DEF UseStoredToken, At, Token, Good, RowType, FlashType, RamType, IdentityInv
  <2> DEFINE f == [flash[g] EXCEPT !.jwt = flash[g].jwt]
  <2> DEFINE r == WithToken(ram[g], flash[g].jwt)
  <2>2. Good(image[g], f, r, typed[g])
    BY <1>0, <1>2, <2>1, WithTokenIsGood DEF UseStoredToken, At
  <2>3. /\ flash' = [flash EXCEPT ![g] = f] /\ Become(g, r)
        /\ UNCHANGED <<image, typed, backend>>
    BY <1>0, <1>2 DEF UseStoredToken, Claimed, WithToken, Inv, State, Good, RowType, FlashType
  <2>4. /\ associated' \subseteq Identity /\ claimed' \subseteq Identity
        /\ revoked' \subseteq Hub /\ told' \subseteq Hub
    BY <2>3 DEF Inv, State, backend
  <2> HIDE DEF f, r
  <2>5. QED
    BY <2>2, <2>3, <2>4, FlashFramed
<1>3. CASE NoToken(g)
  <2> DEFINE r == [ram[g] EXCEPT !.pc = "claim"]
  <2>1. Become(g, r) /\ UNCHANGED <<image, flash, typed, backend>>
    BY <1>3 DEF NoToken, Goto
  <2>2. Good(image[g], flash[g], r, typed[g])
    BY <1>0, <1>3 DEF NoToken, At, Good, RowType, FlashType, RamType, Places,
          IdentityInv, PairInv, StatusInv, BootInv, Credentials, Password, Works
  <2> HIDE DEF r
  <2>3. QED
    BY <2>1, <2>2, RamFramed
<1>4. CASE ClaimAnswered(g)
  <2> DEFINE r == [ram[g] EXCEPT !.pc = "store", !.token = flash[g].id]
  <2>1. /\ flash' = [flash EXCEPT ![g] = flash[g]] /\ Become(g, r) /\ UNCHANGED <<image, typed>>
    BY <1>4 DEF ClaimAnswered, Inv, State
  <2>2. Good(image[g], flash[g], r, typed[g])
    <3>1. RowType(image[g], flash[g], r, typed[g])
      <4>1. flash[g].id \in Identity
        BY <1>0, <1>4 DEF ClaimAnswered, At, Good, RowType, FlashType, IdentityInv
      <4>2. r \in RamType
        BY <1>0, <4>1 DEF Good, RowType, RamType, Places, Token
      <4>3. r.token # None /\ r.pc = "store"
        BY <1>0, <4>1 DEF Good, RowType, RamType
      <4>4. QED
        BY <1>0, <4>2, <4>3 DEF Good, RowType
    <3>2. IdentityInv(image[g], flash[g], r)
      BY <1>0, <1>4 DEF ClaimAnswered, At, Token, CanClaim, Good, RowType, RamType, FlashType, IdentityInv
    <3>3. PairInv(r)
      BY <1>0, <1>4 DEF ClaimAnswered, At, Token, CanClaim, Good, RowType, RamType, PairInv
    <3>4. StatusInv(flash[g], r)
      BY <1>0, <1>4 DEF ClaimAnswered, At, Token, CanClaim, Good, RowType, RamType, IdentityInv, StatusInv
    <3>5. BootInv(flash[g], r)
      BY <1>0, <1>4 DEF ClaimAnswered, At, Token, CanClaim, Good, RowType, RamType, IdentityInv, StatusInv, BootInv, Works
    <3>6. QED
      BY <3>1, <3>2, <3>3, <3>4, <3>5 DEF Good
  <2>3. /\ associated' \subseteq Identity /\ claimed' \subseteq Identity
        /\ revoked' \subseteq Hub /\ told' \subseteq Hub
    BY <1>0, <1>4 DEF ClaimAnswered, CanClaim, Inv, State
  <2> HIDE DEF r
  <2>4. QED
    BY <2>1, <2>2, <2>3, FlashFramed
<1>5. CASE ClaimLost(g)
  <2>1. Good(image[g], flash[g], GivenUp(ram[g]), typed[g])
    BY <1>0, GivenUpIsGood
  <2>2. /\ flash' = [flash EXCEPT ![g] = flash[g]] /\ Become(g, GivenUp(ram[g]))
        /\ UNCHANGED <<image, typed>>
    BY <1>5 DEF ClaimLost, GiveUp, GivenUp, Inv, State
  <2>3. /\ associated' \subseteq Identity /\ claimed' \subseteq Identity
        /\ revoked' \subseteq Hub /\ told' \subseteq Hub
    BY <1>5 DEF ClaimLost, CanClaim, Inv, State, backend
  <2>4. QED
    BY <2>1, <2>2, <2>3, FlashFramed
<1>6. CASE ClaimRefused(g)
  <2>1. Good(image[g], flash[g], GivenUp(ram[g]), typed[g])
    BY <1>0, GivenUpIsGood
  <2>2. /\ flash' = [flash EXCEPT ![g] = flash[g]] /\ Become(g, GivenUp(ram[g]))
        /\ UNCHANGED <<image, typed>>
    BY <1>6 DEF ClaimRefused, GiveUp, GivenUp, Inv, State
  <2>3. /\ associated' \subseteq Identity /\ claimed' \subseteq Identity
        /\ revoked' \subseteq Hub /\ told' \subseteq Hub
    BY <1>6 DEF ClaimRefused, CanClaim, Inv, State, backend
  <2>4. QED
    BY <2>1, <2>2, <2>3, FlashFramed
<1>7. CASE StoreToken(g)
  <2>1. ram[g].token \in Token /\ (ram[g].token \in Identity => ram[g].token = flash[g].id)
    BY <1>0, <1>7 DEF StoreToken, At, Token, Good, RowType, FlashType, RamType, IdentityInv
  <2> DEFINE f == [flash[g] EXCEPT !.jwt = ram[g].token]
  <2> DEFINE r == WithToken(ram[g], ram[g].token)
  <2>2. Good(image[g], f, r, typed[g])
    BY <1>0, <1>7, <2>1, WithTokenIsGood DEF StoreToken, At
  <2>3. /\ flash' = [flash EXCEPT ![g] = f] /\ Become(g, r)
        /\ UNCHANGED <<image, typed, backend>>
    BY <1>0, <1>7 DEF StoreToken, Claimed, WithToken, Inv, State, Good, RowType, FlashType
  <2>4. /\ associated' \subseteq Identity /\ claimed' \subseteq Identity
        /\ revoked' \subseteq Hub /\ told' \subseteq Hub
    BY <2>3 DEF Inv, State, backend
  <2> HIDE DEF f, r
  <2>5. QED
    BY <2>2, <2>3, <2>4, FlashFramed
<1>8. CASE StepFails(g)
  <2>1. Good(image[g], flash[g], GivenUp(ram[g]), typed[g])
    BY <1>0, GivenUpIsGood
  <2>2. /\ flash' = [flash EXCEPT ![g] = flash[g]] /\ Become(g, GivenUp(ram[g]))
        /\ UNCHANGED <<image, typed>>
    BY <1>8 DEF StepFails, GiveUp, GivenUp, Inv, State
  <2>3. /\ associated' \subseteq Identity /\ claimed' \subseteq Identity
        /\ revoked' \subseteq Hub /\ told' \subseteq Hub
    BY <1>8 DEF StepFails, CanClaim, Inv, State, backend
  <2>4. QED
    BY <2>1, <2>2, <2>3, FlashFramed
<1>9. QED
  BY <1>1, <1>2, <1>3, <1>4, <1>5, <1>6, <1>7, <1>8

(* The client writes, and whoever flashes firmware. *)
LEMMA OutsideStep ==
    ASSUME Inv, NEW g \in Hub, Client(g) \/ Disturb(g)
    PROVE  Inv'
<1> USE SetupAssumption, PasswordAssumption, CredentialsAssumption
<1>0. Good(image[g], flash[g], ram[g], typed[g]) /\ State
  BY DEF Inv, GoodHub
<1>1. ASSUME NEW x \in Ssid, NEW utf8 \in BOOLEAN, WriteSsid(g, x, utf8) PROVE Inv'
  <2>1. PICK r : /\ ram' = [ram EXCEPT ![g] = r]
                 /\ r = ram[g] \/ r = [ram[g] EXCEPT !.ssid = x, !.pass = None]
    BY <1>0, <1>1 DEF WriteSsid, Become, State
  <2>2. Good(image[g], flash[g], r, x)
    <3>1. CASE r = ram[g]
      BY <1>0, <3>1 DEF Good, RowType
    <3>2. CASE r = [ram[g] EXCEPT !.ssid = x, !.pass = None]
      <4>1. RowType(image[g], flash[g], r, x)
        BY <1>0, <3>2 DEF Good, RowType, RamType
      <4>2. PairInv(r)
        BY <1>0, <3>2 DEF Good, RowType, RamType, PairInv
      <4>3. IdentityInv(image[g], flash[g], r) /\ StatusInv(flash[g], r) /\ BootInv(flash[g], r)
        BY <1>0, <3>2 DEF Good, RowType, RamType, IdentityInv, StatusInv, BootInv
      <4>4. QED
        BY <4>1, <4>2, <4>3 DEF Good
    <3>3. QED
      BY <2>1, <3>1, <3>2
  <2>3. /\ ram'[g] = r /\ typed'[g] = x
        /\ \A h \in Hub \ {g} : UNCHANGED <<image[h], flash[h], ram[h], typed[h]>>
    BY <1>0, <1>1, <2>1 DEF WriteSsid, State
  <2>4. State'
    BY <1>0, <1>1, <2>1, <2>2 DEF WriteSsid, State, Good, RowType, backend
  <2>5. GoodHub(g)'
    BY <1>1, <2>2, <2>3 DEF GoodHub, WriteSsid
  <2>6. QED
    BY <2>3, <2>4, <2>5, Framed
<1>2. ASSUME NEW right \in BOOLEAN, NEW utf8 \in BOOLEAN, WritePassword(g, right, utf8) PROVE Inv'
  <2>1. PICK r : /\ Become(g, r)
                 /\ r = ram[g] \/ r = [ram[g] EXCEPT !.pass = Typed(g, right)]
    BY <1>0, <1>2 DEF WritePassword, Become, State
  <2>2. Good(image[g], flash[g], r, typed[g])
    <3>1. CASE r = ram[g]
      BY <1>0, <3>1
    <3>2. CASE r = [ram[g] EXCEPT !.pass = Typed(g, right)]
      <4>1. Typed(g, right) \in Password /\ Typed(g, right).after = ram[g].ssid
        BY <1>0 DEF Typed, Good, RowType, RamType, Password
      <4>2. RowType(image[g], flash[g], r, typed[g])
        BY <1>0, <3>2, <4>1 DEF Good, RowType, RamType
      <4>3. PairInv(r)
        BY <1>0, <3>2, <4>1 DEF Good, RowType, RamType, PairInv
      <4>4. IdentityInv(image[g], flash[g], r) /\ StatusInv(flash[g], r) /\ BootInv(flash[g], r)
        BY <1>0, <3>2 DEF Good, RowType, RamType, IdentityInv, StatusInv, BootInv
      <4>5. QED
        BY <4>2, <4>3, <4>4 DEF Good
    <3>3. QED
      BY <2>1, <3>1, <3>2
  <2>3. UNCHANGED <<image, flash, typed, backend>>
    BY <1>2 DEF WritePassword
  <2>4. QED
    BY <2>1, <2>2, <2>3, RamFramed
<1>3. CASE PowerLoss(g)
  BY <1>3, BootStep
<1>4. CASE EraseFlash(g)
  <2>1. Good(image[g], EmptyFlash, Fresh, typed[g])
    BY <1>0 DEF EmptyFlash, Fresh, Good, RowType, FlashType, RamType, Places,
          IdentityInv, PairInv, StatusInv, BootInv, Credentials, Password, Works
  <2>2. /\ associated' \subseteq Identity /\ claimed' \subseteq Identity
        /\ revoked' \subseteq Hub /\ told' \subseteq Hub
    BY <1>0, <1>4 DEF EraseFlash, State
  <2>3. QED
    BY <1>4, <2>1, <2>2, FlashFramed DEF EraseFlash
<1>5. ASSUME NEW i \in Image, Reflash(g, i) PROVE Inv'
  <2>1. Good(i, flash[g], Fresh, typed[g])
    BY <1>0 DEF Fresh, Good, RowType, FlashType, RamType, Places,
          IdentityInv, PairInv, StatusInv, BootInv, Credentials, Password, Works
  <2>2. /\ image'[g] = i /\ ram'[g] = Fresh
        /\ \A h \in Hub \ {g} : UNCHANGED <<image[h], flash[h], ram[h], typed[h]>>
    BY <1>0, <1>5 DEF Reflash, Become, State
  <2>3. State'
    BY <1>0, <1>5, <2>1 DEF Reflash, Become, State, Good, RowType, backend
  <2>4. GoodHub(g)'
    BY <1>5, <2>1, <2>2 DEF GoodHub, Reflash
  <2>5. QED
    BY <2>2, <2>3, <2>4, Framed
<1>6. QED
  BY <1>1, <1>2, <1>3, <1>4, <1>5 DEF Client, Disturb

(* The user acts on the backend only. *)
LEMMA UserStep == ASSUME Inv, User PROVE Inv'
<1>1. State' /\ UNCHANGED <<image, flash, ram, typed>>
  BY DEF User, Associate, Revoke, Inv, State
<1>2. QED
  BY <1>1 DEF Inv, GoodHub

(* Whatever happens next keeps the invariant. *)
LEMMA InvStep == Inv /\ [Next]_vars => Inv'
<1> SUFFICES ASSUME Inv, [Next]_vars PROVE Inv'
  OBVIOUS
<1>1. ASSUME NEW g \in Hub, Step(g) PROVE Inv'
  BY <1>1, BootStep, ProvisioningStep, IdentityStep, TokenStep DEF Step
<1>2. CASE UNCHANGED vars
  BY <1>2 DEF vars, backend, Inv, State, GoodHub
<1>3. ASSUME NEW g \in Hub, Reboot(g) PROVE Inv'
  BY <1>3, BootStep
<1>4. QED
  BY <1>1, <1>2, <1>3, OutsideStep, UserStep DEF Next

(* An erased hub before its first boot is good. *)
LEMMA InvInit == Init => Inv
<1> USE SetupAssumption, PasswordAssumption, CredentialsAssumption
<1> SUFFICES ASSUME Init PROVE Inv
  OBVIOUS
<1>1. EmptyFlash \in FlashType /\ Fresh \in RamType
  BY DEF EmptyFlash, Fresh, FlashType, RamType, Places
<1>2. State
  BY <1>1 DEF Init, State
<1>3. ASSUME NEW h \in Hub PROVE GoodHub(h)
  <2>1. /\ image[h] \in Image /\ flash[h] = EmptyFlash /\ ram[h] = Fresh /\ typed[h] = None
    BY DEF Init
  <2>2. Good(image[h], EmptyFlash, Fresh, None)
    BY <2>1 DEF EmptyFlash, Fresh, Good, RowType, FlashType, RamType, Places,
          IdentityInv, PairInv, StatusInv, BootInv, Credentials, Password, Works
  <2>3. QED
    BY <2>1, <2>2 DEF GoodHub
<1>4. QED
  BY <1>2, <1>3 DEF Inv

(* Every hub is good at all times, whenever power is lost (main.rs, persist.rs). *)
THEOREM Invariance == Spec => []Inv
<1>1. QED
  BY InvInit, InvStep, PTL DEF Spec

----------------------------------------------------------------------------
(* The state is well-typed, and the program has credentials and a token    *)
(* wherever the code uses them.                                            *)
THEOREM SetupTypeCorrect == Spec => []TypeOK
<1>1. Inv => TypeOK
  BY DEF Inv, State, GoodHub, Good, RowType, TypeOK
<1>2. QED
  BY <1>1, Invariance, PTL

(* persist.rs: the secret in flash is that of the id in flash, whatever    *)
(* power losses and firmware come between the two writes.                  *)
THEOREM IdentityCorrect == Spec => []IdentityOfOneBuild
<1>1. Inv => IdentityOfOneBuild
  BY DEF Inv, GoodHub, Good, IdentityInv, IdentityOfOneBuild
<1>2. QED
  BY <1>1, Invariance, PTL

(* main.rs claim_hub_after_time_sync: a claimed token in flash is that of  *)
(* the identity in flash.                                                  *)
THEOREM TokenCorrect == Spec => []TokenOfIdentity
<1>1. Inv => TokenOfIdentity
  BY DEF Inv, GoodHub, Good, IdentityInv, TokenOfIdentity
<1>2. QED
  BY <1>1, Invariance, PTL

(* wifi_prov.rs: a new SSID is never tried with an old password.           *)
THEOREM NeverMixedCorrect == Spec => []NeverMixed
<1>1. Inv => NeverMixed
  BY DEF Inv, GoodHub, Good, PairInv, NeverMixed
<1>2. QED
  BY <1>1, Invariance, PTL

(* wifi_prov.rs: CLAIM_OK is shown only when the token is in flash.        *)
THEOREM ClaimOkCorrect == Spec => []ClaimOkIsStored
<1>1. Inv => ClaimOkIsStored
  BY DEF Inv, GoodHub, Good, StatusInv, ClaimOkIsStored
<1>2. QED
  BY <1>1, Invariance, PTL

(* main.rs: the loop runs on the credentials, identity and token that the  *)
(* next boot will find in flash.                                           *)
THEOREM LoopCorrect == Spec => []LoopIsRepeatable
<1>1. Inv => LoopIsRepeatable
  BY DEF Inv, GoodHub, Good, BootInv, LoopIsRepeatable
<1>2. QED
  BY <1>1, Invariance, PTL

----------------------------------------------------------------------------
(* HubSetup implements HubIdentity. *)

(* The identity that a flash gives; identity and token of every hub. *)
IdOf(f) == IF f.secret = None THEN None ELSE f.id

Identities == [h \in Hub |-> IdOf(flash[h])]

Tokens == [h \in Hub |-> flash[h].jwt]

(* HubIdentity sees of a hub its image, its identity and its token. *)
LEMMA StoreVars ==
    ASSUME UNCHANGED <<image, Identities, Tokens>> PROVE UNCHANGED Store!vars
  BY DEF Store!vars, Identities, IdOf, Tokens

(* A step that writes to the flash of one hub is one about the identity    *)
(* and the token of that hub.                                              *)
LEMMA StoreFramed ==
    ASSUME Inv, NEW g \in Hub, NEW f, flash' = [flash EXCEPT ![g] = f]
    PROVE  /\ Identities' = [Identities EXCEPT ![g] = IdOf(f)]
           /\ Tokens' = [Tokens EXCEPT ![g] = f.jwt]
<1>1. flash'[g] = f /\ \A h \in Hub \ {g} : flash'[h] = flash[h]
  BY DEF Inv, State
<1>2. \A h \in Hub :
        /\ Identities'[h] = IF h = g THEN IdOf(f) ELSE Identities[h]
        /\ Tokens'[h] = IF h = g THEN f.jwt ELSE Tokens[h]
  BY <1>1 DEF Identities, Tokens, IdOf
<1>3. QED
  BY <1>2 DEF Identities, Tokens

(* One that leaves both as they are does nothing that the backend or the   *)
(* owner of the hub could see.                                             *)
LEMMA StoreStutters ==
    ASSUME Inv, NEW g \in Hub, NEW f, flash' = [flash EXCEPT ![g] = f],
           UNCHANGED image, IdOf(f) = IdOf(flash[g]), f.jwt = flash[g].jwt
    PROVE  UNCHANGED Store!vars
<1>1. /\ Identities' = [Identities EXCEPT ![g] = IdOf(f)]
      /\ Tokens' = [Tokens EXCEPT ![g] = f.jwt]
  BY StoreFramed
<1>2. Identities' = Identities /\ Tokens' = Tokens
  BY <1>1 DEF Identities, Tokens
<1>3. QED
  BY <1>2, StoreVars

(* nvs_store.rs and persist.rs: Wi-Fi credentials, and an id without its   *)
(* secret, are no identity.                                                *)
LEMMA SavesAreUnseen ==
    ASSUME Inv, NEW g \in Hub, SaveSsid(g) \/ SavePassword(g) \/ SeedId(g)
    PROVE  UNCHANGED Store!vars
<1>0. Good(image[g], flash[g], ram[g], typed[g])
  BY DEF Inv, GoodHub
<1>1. PICK f : /\ flash' = [flash EXCEPT ![g] = f]
               /\ f.jwt = flash[g].jwt /\ f.secret = flash[g].secret
               /\ f.id = flash[g].id \/ f.secret = None
  <2>1. CASE SaveSsid(g)
    <3> DEFINE f == [flash[g] EXCEPT !.ssid = ram[g].creds.ssid]
    <3>1. flash' = [flash EXCEPT ![g] = f]
      BY <2>1 DEF SaveSsid, Inv, State
    <3>2. f.jwt = flash[g].jwt /\ f.secret = flash[g].secret /\ f.id = flash[g].id
      BY <1>0 DEF Good, RowType, FlashType
    <3> HIDE DEF f
    <3>3. QED
      BY <3>1, <3>2
  <2>2. CASE SavePassword(g)
    <3> DEFINE f == [flash[g] EXCEPT !.pass = ram[g].creds.pass]
    <3>1. flash' = [flash EXCEPT ![g] = f]
      BY <2>2 DEF SavePassword, Inv, State
    <3>2. f.jwt = flash[g].jwt /\ f.secret = flash[g].secret /\ f.id = flash[g].id
      BY <1>0 DEF Good, RowType, FlashType
    <3> HIDE DEF f
    <3>3. QED
      BY <3>1, <3>2
  <2>3. CASE SeedId(g)
    <3> DEFINE f == [flash[g] EXCEPT !.id = IdentityOf[image[g]]]
    <3>1. flash' = [flash EXCEPT ![g] = f]
      BY <2>3 DEF SeedId, Inv, State
    <3>2. f.jwt = flash[g].jwt /\ f.secret = flash[g].secret /\ f.secret = None
      BY <1>0, <2>3 DEF SeedId, At, Good, RowType, FlashType, IdentityInv
    <3> HIDE DEF f
    <3>3. QED
      BY <3>1, <3>2
  <2>4. QED
    BY <2>1, <2>2, <2>3
<1>2. UNCHANGED image
  BY DEF SaveSsid, SavePassword, SeedId
<1>3. IdOf(f) = IdOf(flash[g])
  BY <1>1 DEF IdOf
<1>4. QED
  BY <1>1, <1>2, <1>3, StoreStutters

(* persist.rs: with the secret the hub has the identity of the firmware    *)
(* that runs, and had none before.                                         *)
LEMMA SeedAdopts ==
    ASSUME Inv, NEW g \in Hub, SeedSecret(g)
    PROVE  Store!Adopt(g)
<1>0. Good(image[g], flash[g], ram[g], typed[g])
  BY DEF Inv, GoodHub
<1> DEFINE f == [flash[g] EXCEPT !.secret = IdentityOf[image[g]]]
<1>1. flash' = [flash EXCEPT ![g] = f] /\ UNCHANGED image
  BY DEF SeedSecret, Inv, State
<1>2. IdOf(flash[g]) = None
  BY <1>0 DEF SeedSecret, At, Good, IdentityInv, IdOf
<1>3. IdOf(f) = IdentityOf[image[g]] /\ f.jwt = flash[g].jwt
  BY <1>0, SetupAssumption DEF SeedSecret, At, Good, RowType, FlashType, IdentityInv, IdOf
<1> HIDE DEF f
<1>4. /\ Identities' = [Identities EXCEPT ![g] = IdOf(f)]
      /\ Tokens' = [Tokens EXCEPT ![g] = f.jwt]
  BY <1>1, StoreFramed
<1>5. Tokens' = Tokens
  BY <1>3, <1>4 DEF Tokens
<1>6. Identities[g] = None
  BY <1>2 DEF Identities
<1>7. QED
  BY <1>1, <1>3, <1>4, <1>5, <1>6 DEF Store!Adopt, Identities, Tokens, IdOf

(* main.rs claim_hub_after_time_sync: a token is stored by a hub that has  *)
(* an identity, and a claimed one only where there was none.               *)
LEMMA TokenIsClaimed ==
    ASSUME Inv, NEW g \in Hub, UseDevToken(g) \/ StoreToken(g)
    PROVE  Store!Override(g) \/ Store!Claim(g)
<1>0. Good(image[g], flash[g], ram[g], typed[g])
  BY DEF Inv, GoodHub
<1>1. Identities[g] = flash[g].id /\ Tokens[g] = flash[g].jwt
  BY <1>0 DEF UseDevToken, StoreToken, At, Good, IdentityInv, Identities, Tokens, IdOf
<1>2. flash[g].id # None
  BY <1>0, SetupAssumption DEF UseDevToken, StoreToken, At, Good, RowType, FlashType, IdentityInv
<1>3. ASSUME NEW token, flash' = [flash EXCEPT ![g].jwt = token]
      PROVE  /\ Identities' = Identities
             /\ Tokens' = [Tokens EXCEPT ![g] = token]
  <2> DEFINE f == [flash[g] EXCEPT !.jwt = token]
  <2>1. flash' = [flash EXCEPT ![g] = f]
    BY <1>3 DEF Inv, State
  <2>2. f.jwt = token /\ IdOf(f) = IdOf(flash[g])
    BY <1>0 DEF Good, RowType, FlashType, IdOf
  <2> HIDE DEF f
  <2>3. /\ Identities' = [Identities EXCEPT ![g] = IdOf(f)]
        /\ Tokens' = [Tokens EXCEPT ![g] = f.jwt]
    BY <2>1, StoreFramed
  <2>4. QED
    BY <2>2, <2>3 DEF Identities
<1>4. CASE UseDevToken(g)
  <2>1. /\ Identities' = Identities
        /\ Tokens' = [Tokens EXCEPT ![g] = DevToken]
    BY <1>3, <1>4 DEF UseDevToken
  <2>2. QED
    BY <1>1, <1>2, <1>4, <2>1 DEF UseDevToken, Store!Override, Identities, Tokens, IdOf
<1>5. CASE StoreToken(g)
  <2>1. flash[g].jwt = None /\ ram[g].token = flash[g].id
    BY <1>0, <1>5 DEF StoreToken, At, Good, IdentityInv
  <2>2. /\ Identities' = Identities
        /\ Tokens' = [Tokens EXCEPT ![g] = Identities[g]]
    BY <1>1, <1>3, <1>5, <2>1 DEF StoreToken
  <2>3. QED
    BY <1>1, <1>2, <1>5, <2>1, <2>2 DEF StoreToken, Store!Claim, Identities, Tokens, IdOf
<1>6. QED
  BY <1>4, <1>5

(* Whoever flashes or erases a hub does what HubIdentity says of it. *)
LEMMA FlasherStep ==
    ASSUME Inv, NEW g \in Hub, Disturb(g)
    PROVE  Store!Erase(g) \/ (\E i \in Image : Store!Flash(g, i)) \/ UNCHANGED Store!vars
<1>1. CASE PowerLoss(g)
  BY <1>1, StoreVars DEF PowerLoss, Identities, Tokens
<1>2. CASE EraseFlash(g)
  <2>1. /\ Identities' = [Identities EXCEPT ![g] = IdOf(EmptyFlash)]
        /\ Tokens' = [Tokens EXCEPT ![g] = EmptyFlash.jwt]
    BY <1>2, StoreFramed DEF EraseFlash
  <2>2. IdOf(EmptyFlash) = None /\ EmptyFlash.jwt = None
    BY DEF EmptyFlash, IdOf
  <2>3. QED
    BY <1>2, <2>1, <2>2 DEF EraseFlash, Store!Erase, Identities, Tokens, IdOf
<1>3. ASSUME NEW i \in Image, Reflash(g, i) PROVE Store!Flash(g, i)
  BY <1>3 DEF Reflash, Store!Flash
<1>4. QED
  BY <1>1, <1>2, <1>3 DEF Disturb

(* Every step is one of HubIdentity, or none. *)
LEMMA StoreStep == ASSUME Inv, [Next]_vars PROVE [Store!Next]_Store!vars
<1>1. ASSUME UNCHANGED <<image, flash>> PROVE UNCHANGED Store!vars
  BY <1>1, StoreVars DEF Identities, Tokens
<1>2. ASSUME NEW g \in Hub, Step(g) PROVE [Store!Next]_Store!vars
  <2>1. CASE UNCHANGED <<image, flash>>
    BY <1>1, <2>1
  <2>2. CASE SaveSsid(g) \/ SavePassword(g) \/ SeedId(g)
    BY <2>2, SavesAreUnseen
  <2>3. CASE SeedSecret(g)
    BY <2>3, SeedAdopts DEF Store!Next
  <2>4. CASE UseDevToken(g) \/ StoreToken(g)
    BY <2>4, TokenIsClaimed DEF Store!Next
  <2>5. QED
    BY <1>2, <2>1, <2>2, <2>3, <2>4
       DEF Step, BootWithCredentials, BootWithout, Connects, ConnectFails, TakeComplete,
           TryConnects, TryFails, AdvertisingFails, SaveFails, Identify, UseStoredToken,
           NoToken, ClaimAnswered, ClaimLost, ClaimRefused, StepFails, SetupScan, Restart
<1>3. ASSUME NEW g \in Hub, Disturb(g) PROVE [Store!Next]_Store!vars
  BY <1>3, FlasherStep DEF Store!Next
<1>4. CASE User \/ (\E g \in Hub : Client(g) \/ Reboot(g)) \/ UNCHANGED vars
  BY <1>1, <1>4 DEF User, Associate, Revoke, Client, WriteSsid, WritePassword, Reboot, vars
<1>5. QED
  BY <1>2, <1>3, <1>4 DEF Next

(* persist.rs, auth.rs and main.rs together keep HubIdentity: whatever is  *)
(* flashed, lost, refused or interrupted, identity and token are each      *)
(* taken once and whole, and stay until the flash is erased.               *)
THEOREM KeepsIdentityCorrect == Spec => KeepsIdentity
<1>1. Init => Store!Init
  BY DEF Init, EmptyFlash, Store!Init
<1>2. Inv /\ [Next]_vars => [Store!Next]_Store!vars
  BY StoreStep
<1>3. QED
  BY <1>1, <1>2, Invariance, PTL DEF Spec, KeepsIdentity, Store!Spec

=============================================================================

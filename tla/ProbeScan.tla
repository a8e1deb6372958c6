------------------------------ MODULE ProbeScan ------------------------------
(***************************************************************************)
(* One BLE scan of the hub (src/src/ble.rs, scan_probe_candidates): the    *)
(* scan callback is called for every advertisement and every scan response *)
(* that comes in, in any order and any number of times, and merges them    *)
(* into a list with one candidate per address.                             *)
(*                                                                         *)
(* A packet is what parse_probe_meta and parse_probe_meta_from_name look   *)
(* at: its manufacturer data, if there is any, and the name it advertises. *)
(***************************************************************************)
EXTENDS Integers, Sequences

CONSTANTS
    Address,            \* BLE addresses
    Name,               \* names a device may advertise or embed
    SETUP_PROBE_NAME,   \* "HH-PROBE-SETUP"
    PROBE_NAME,         \* "HH-PROBE-A"
    Version,            \* major and minor version
    ZeroVersion,        \* 0.0, recorded for a probe recognised by its name alone
    Packet,             \* the packets that may come in
    None

(* Manufacturer data: whether it carries COMPANY_ID, the marker it starts  *)
(* with, and how it goes on: "stub" ends before the two bytes of the       *)
(* version, "short" right after them, "named" has a name behind them, and  *)
(* "cut" is shorter than its name length says.                             *)
Manufacturer ==
    [company : BOOLEAN,
     marker : {"HH-PROBE", "HH-SETUP", "TEST", "other"},
     form : {"stub", "short", "named", "cut"},
     version : Version,
     name : Name]

ASSUME ScanAssumption ==
    /\ {SETUP_PROBE_NAME, PROBE_NAME} \subseteq Name
    /\ SETUP_PROBE_NAME # PROBE_NAME
    /\ ZeroVersion \in Version
    /\ Packet \subseteq [mfg : Manufacturer \cup {None}, name : Name \cup {None}]

Meta == [mode : {"Normal", "Setup"}, name : Name, version : Version]

ASSUME NoneAssumption == None \notin Name \cup Meta \cup Manufacturer

VARIABLES
    seen,   \* the candidates so far
    heard   \* history: for each address, what its packets said

scanVars == <<seen, heard>>

----------------------------------------------------------------------------
(* matching_marker, the company check and the length check of              *)
(* parse_probe_meta; a packet that fails them is judged by its name alone. *)
IsProbePayload(mfg) ==
    /\ mfg # None
    /\ mfg.company
    /\ mfg.marker # "other"
    /\ mfg.form \in {"short", "named"}

MarkerMode(marker) == IF marker = "HH-SETUP" THEN "Setup" ELSE "Normal"

(* Faulty: a probe without a name is taken for one in Setup mode. *)
DefaultName_Setup(mode) == SETUP_PROBE_NAME

DefaultName(mode) == IF mode = "Setup" THEN SETUP_PROBE_NAME ELSE PROBE_NAME

(* The name in a payload hides the advertised one.                         *)
NameOf(k) ==
    IF k.mfg.form = "named" THEN k.mfg.name
    ELSE IF k.name # None THEN k.name
    ELSE DefaultName(MarkerMode(k.mfg.marker))

(* Faulty: the setup name does not count. *)
ModeOf_MarkerOnly(marker, name) == MarkerMode(marker)

ModeOf(marker, name) ==
    IF name = SETUP_PROBE_NAME THEN "Setup" ELSE MarkerMode(marker)

(* What a packet says of its sender; None if it is no probe's.             *)
MetaOf(k) ==
    IF IsProbePayload(k.mfg)
    THEN [mode |-> ModeOf(k.mfg.marker, NameOf(k)),
          name |-> NameOf(k),
          version |-> k.mfg.version]
    ELSE IF k.name \in {SETUP_PROBE_NAME, PROBE_NAME}
    THEN [mode |-> ModeOf("none", k.name), name |-> k.name, version |-> ZeroVersion]
    ELSE None

Candidate == [addr : Address, meta : Meta]

IsSeen(a) == \E i \in DOMAIN seen : seen[i].addr = a

(* Faulty: the first packet of an address wins. *)
Upgrades_Never(new, old) == FALSE

(* Only from Normal to Setup: what is known of a Setup probe is kept.      *)
Upgrades(new, old) == new.mode = "Setup" /\ old.mode # "Setup"

----------------------------------------------------------------------------
ScanInit ==
    /\ seen = <<>>
    /\ heard = [a \in Address |-> {}]

(* Faulty: an upgrade takes over the mode and keeps the rest. *)
Merge_ModeOnly(a, meta) ==
    \/ ~IsSeen(a) /\ seen' = Append(seen, [addr |-> a, meta |-> meta])
    \/ \E i \in DOMAIN seen :
          /\ seen[i].addr = a
          /\ \/ /\ Upgrades(meta, seen[i].meta)
                /\ seen' = [seen EXCEPT ![i].meta.mode = meta.mode]
             \/ ~Upgrades(meta, seen[i].meta) /\ UNCHANGED seen

(* The scan callback with a packet of a probe.                             *)
Merge(a, meta) ==
    \/ ~IsSeen(a) /\ seen' = Append(seen, [addr |-> a, meta |-> meta])
    \/ \E i \in DOMAIN seen :
          /\ seen[i].addr = a
          /\ \/ Upgrades(meta, seen[i].meta) /\ seen' = [seen EXCEPT ![i].meta = meta]
             \/ ~Upgrades(meta, seen[i].meta) /\ UNCHANGED seen

Hear(a, k) ==
    \/ MetaOf(k) = None /\ UNCHANGED scanVars
    \/ /\ MetaOf(k) # None
       /\ Merge(a, MetaOf(k))
       /\ heard' = [heard EXCEPT ![a] = @ \cup {MetaOf(k)}]

(* The candidates are handed over; the next scan starts with none.         *)
ScanEnds ==
    /\ seen' = <<>>
    /\ heard' = [a \in Address |-> {}]

ScanNext == (\E a \in Address, k \in Packet : Hear(a, k)) \/ ScanEnds

ScanSpec == ScanInit /\ [][ScanNext]_scanVars

----------------------------------------------------------------------------
ScanTypeOK ==
    /\ seen \in Seq(Candidate)
    /\ heard \in [Address -> SUBSET Meta]

(* Whatever the order in which advertisements and scan responses come in   *)
(* (ble.rs:162-176), a candidate is a Setup probe exactly if one of its    *)
(* packets said so: the marker is neither missed nor lost to a later       *)
(* Normal packet.  Every device that said it was a probe is a candidate,   *)
(* once.                                                                   *)
SetupIsNotLost ==
    /\ \A a \in Address : heard[a] # {} => IsSeen(a)
    /\ \A i, j \in DOMAIN seen : seen[i].addr = seen[j].addr => i = j
    /\ \A i \in DOMAIN seen :
          seen[i].meta.mode = "Setup"
             <=> \E m \in heard[seen[i].addr] : m.mode = "Setup"

(* Name, version and mode of a candidate are from one packet of that very  *)
(* address: merging never makes up a probe nobody advertised.              *)
MetaWasHeard ==
    \A i \in DOMAIN seen : seen[i].meta \in heard[seen[i].addr]

=============================================================================

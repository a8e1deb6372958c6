---------------------------- MODULE MCProbeCycle ----------------------------
(* Two probes.  In Setup mode the first one sends an advertisement that     *)
(* looks Normal and a scan response with the setup name; it may be read     *)
(* under its address.  The second one's packets are a Setup marker, and a   *)
(* payload that is cut, with a name that is known.  It also answers with    *)
(* the data of another vendor.                                              *)
EXTENDS ProbeCycle

CONSTANTS p1, p2, n1, n2, a1, setupName, probeName, other, v0, v1

MCAddress == {p1, p2}
MCName == {setupName, probeName, other}
MCVersion == {v0, v1}

Payload(marker, form, name) ==
    [company |-> TRUE, marker |-> marker, form |-> form, version |-> v1, name |-> name]

NoName == [mfg |-> Payload("HH-PROBE", "short", other), name |-> None]
SetupName == [mfg |-> None, name |-> setupName]
ProbeName == [mfg |-> None, name |-> probeName]
SetupMarker == [mfg |-> Payload("HH-SETUP", "named", other), name |-> None]
CutPayload == [mfg |-> Payload("TEST", "cut", other), name |-> probeName]
OtherVendor == [mfg |-> [Payload("HH-PROBE", "named", other) EXCEPT !.company = FALSE],
                name |-> other]

MCPacket == {NoName, SetupName, ProbeName, SetupMarker, CutPayload, OtherVendor}

MCSends ==
    (p1 :> ("Setup" :> {NoName, SetupName} @@ "Normal" :> {NoName, ProbeName})) @@
    (p2 :> ("Setup" :> {SetupMarker, OtherVendor} @@ "Normal" :> {CutPayload}))

MCNode == {n1, a1, n2}
MCNodeIds == (p1 :> {n1, a1}) @@ (p2 :> {n2})

(* The lines of n1 and n2 together are one byte too long, by the newline.   *)
MCLineLength == (n1 :> 2) @@ (a1 :> 1) @@ (n2 :> 2)
=============================================================================

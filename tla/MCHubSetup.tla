----------------------------- MODULE MCHubSetup -----------------------------
(* Small instances of HubSetup: one hub that may be flashed with builds of  *)
(* two identities and with a development build, and two networks.           *)
EXTENDS HubSetup, TLC

CONSTANTS h1, m1, m2, dev, i1, i2, s1, s2

OneHub == {h1}
AllImages == {m1, m2, dev}
OneImage == {m1}
TwoIdentities == {i1, i2}
OneIdentity == {i1}
AllIdentityOf == (m1 :> i1) @@ (m2 :> i2) @@ (dev :> i1)
NoImages == {}
DevImages == {dev}
OneIdentityOf == (m1 :> i1)
TwoSsids == {s1, s2}
OneSsid == {s1}
=============================================================================

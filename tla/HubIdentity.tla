---------------------------- MODULE HubIdentity ----------------------------
(***************************************************************************)
(* What a hub's flash promises to the backend and to whoever owns the hub: *)
(* a hub takes an identity once, whole, from the firmware it runs then,    *)
(* and a token for that identity once.  Neither is lost or exchanged by    *)
(* other firmware, by a loss of power, by a failed write or by a refused   *)
(* claim; only a development build puts its own token in place, and only   *)
(* erasing the flash gives both up.                                        *)
(***************************************************************************)
CONSTANTS
    Hub,
    Image,
    IdentityOf, \* the identity built into an image
    DevImage,   \* images that bring a token of their own,
    DevToken,   \* this one
    None

VARIABLES
    image,      \* firmware of each hub
    identity,   \* identity of each hub
    token       \* token of each hub

vars == <<image, identity, token>>

Init ==
    /\ image \in [Hub -> Image]
    /\ identity = [h \in Hub |-> None]
    /\ token = [h \in Hub |-> None]

Flash(h, i) ==
    /\ image' = [image EXCEPT ![h] = i]
    /\ UNCHANGED <<identity, token>>

Adopt(h) ==
    /\ identity[h] = None
    /\ identity' = [identity EXCEPT ![h] = IdentityOf[image[h]]]
    /\ UNCHANGED <<image, token>>

Claim(h) ==
    /\ identity[h] # None /\ token[h] = None
    /\ token' = [token EXCEPT ![h] = identity[h]]
    /\ UNCHANGED <<image, identity>>

Override(h) ==
    /\ identity[h] # None /\ image[h] \in DevImage
    /\ token' = [token EXCEPT ![h] = DevToken]
    /\ UNCHANGED <<image, identity>>

Erase(h) ==
    /\ identity' = [identity EXCEPT ![h] = None]
    /\ token' = [token EXCEPT ![h] = None]
    /\ UNCHANGED image

Next ==
    \E h \in Hub :
        \/ Adopt(h) \/ Claim(h) \/ Override(h) \/ Erase(h)
        \/ \E i \in Image : Flash(h, i)

Spec == Init /\ [][Next]_vars
=============================================================================

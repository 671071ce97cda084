---------------------------- MODULE ContentStore ----------------------------
(***************************************************************************)
(* What an immutable content-addressed store promises (the class comment of *)
(* src/apar/storage/artifacts.py: "Persist payloads once under their        *)
(* SHA-256 digest"): a payload is stored at most once, the reference made   *)
(* with it is the one every caller gets, and what has been secured survives *)
(* a power loss.  ArtifactStore implements it.                              *)
(***************************************************************************)
EXTENDS Functions

CONSTANTS
    Payloads,   \* a payload stands for its digest
    MediaTypes

VARIABLES
    stored,    \* payload -> the media type of its reference
    safe,      \* payloads that survive a power loss
    returned   \* <<payload, media type>> of the references handed out

storeVars == <<stored, safe, returned>>

StoreInit == stored = <<>> /\ safe = {} /\ returned = {}

(* The first caller's media type is the one that is kept. *)
Add(payload, media) ==
    /\ payload \notin DOMAIN stored
    /\ stored' = [p \in DOMAIN stored \cup {payload} |->
                    IF p = payload THEN media ELSE stored[p]]
    /\ UNCHANGED <<safe, returned>>

Secure ==
    /\ safe' = DOMAIN stored
    /\ UNCHANGED <<stored, returned>>

Return(payload) ==
    /\ payload \in DOMAIN stored
    /\ returned' = returned \cup {<<payload, stored[payload]>>}
    /\ UNCHANGED <<stored, safe>>

(* A power loss may take what is not safe, and the references to it. *)
Lose(kept) ==
    /\ safe \subseteq kept /\ kept \subseteq DOMAIN stored
    /\ stored' = Restrict(stored, kept)
    /\ safe' = kept
    /\ returned' = {ref \in returned : ref[1] \in kept}

StoreNext ==
    \/ \E p \in Payloads, m \in MediaTypes : Add(p, m)
    \/ Secure
    \/ \E p \in Payloads : Return(p)
    \/ \E kept \in SUBSET Payloads : Lose(kept)

StoreSpec == StoreInit /\ [][StoreNext]_storeVars
=============================================================================

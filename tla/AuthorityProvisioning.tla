------------------------ MODULE AuthorityProvisioning ------------------------
(***************************************************************************)
(* provision_defense_authorities of src/apar/defense/orchestration.py: the  *)
(* command that creates the signing keys of the four authorities and the    *)
(* public key of one of them, once.  It looks for every file, publishes     *)
(* them one after the other by a rename that never replaces, and syncs the  *)
(* directory; on a failure it removes those it published.  Nothing stops    *)
(* two operators from running it at once, and each draws its own seeds.     *)
(*                                                                          *)
(* A file's content is the command that made it.  The temporary files have  *)
(* random names and are synced before the rename; a power loss may drop or  *)
(* bring back a name, as far as the directory has not been synced since.    *)
(***************************************************************************)
EXTENDS Integers

CONSTANTS
    Provisioners,         \* commands
    KeyFiles,             \* number of files, in the order they are published
    MaxProvisionFaults,   \* bound: failing steps, kills and power losses
    NoOwner

ASSUME ProvisioningConstants ==
    KeyFiles \in Nat \ {0} /\ MaxProvisionFaults \in Nat /\ NoOwner \notin Provisioners

Files == 1..KeyFiles
Owners == Provisioners \union {NoOwner}

VARIABLES
    owner,    \* file -> the command that made it, as processes see it
    maybe,    \* file -> the owners it may have after a power loss
    phase,    \* command -> what it is doing
    place,    \* command -> the file it has come to
    created,  \* command -> how many files it has recorded as created
    provisionFaults

provisionVars == <<owner, maybe, phase, place, created, provisionFaults>>

Phases == {"checking", "publishing", "undoing", "provisioned", "failed"}

ProvisionInit ==
    /\ owner = [f \in Files |-> NoOwner] /\ maybe = [f \in Files |-> {NoOwner}]
    /\ phase = [p \in Provisioners |-> "checking"]
    /\ place = [p \in Provisioners |-> 1] /\ created = [p \in Provisioners |-> 0]
    /\ provisionFaults = 0

Turn(p, next, f) ==
    phase' = [phase EXCEPT ![p] = next] /\ place' = [place EXCEPT ![p] = f]

Link(f, o) ==
    /\ owner' = [owner EXCEPT ![f] = o]
    /\ maybe' = [maybe EXCEPT ![f] = @ \union {o}]

ProvisionFault ==
    provisionFaults < MaxProvisionFaults /\ provisionFaults' = provisionFaults + 1

(* The preflight, name by name. *)
CheckName(p) ==
    /\ phase[p] = "checking" /\ place[p] \in Files
    /\ IF owner[place[p]] = NoOwner THEN Turn(p, "checking", place[p] + 1)
       ELSE Turn(p, "failed", place[p])
    /\ UNCHANGED <<owner, maybe, created, provisionFaults>>

DrawSeeds(p) ==
    /\ phase[p] = "checking" /\ place[p] \notin Files
    /\ Turn(p, "publishing", 1)
    /\ UNCHANGED <<owner, maybe, created, provisionFaults>>

(* The rename that never replaces: a file that is there is a failure. *)
PublishKeyFile(p) ==
    /\ phase[p] = "publishing" /\ place[p] \in Files
    /\ IF owner[place[p]] = NoOwner
       THEN /\ Link(place[p], p)
            /\ created' = [created EXCEPT ![p] = place[p]]
            /\ Turn(p, "publishing", place[p] + 1)
       ELSE /\ Turn(p, "undoing", 1)
            /\ UNCHANGED <<owner, maybe, created>>
    /\ UNCHANGED provisionFaults

SyncKeyFiles(p) ==
    /\ phase[p] = "publishing" /\ place[p] \notin Files
    /\ maybe' = [f \in Files |-> {owner[f]}]
    /\ Turn(p, "provisioned", place[p])
    /\ UNCHANGED <<owner, created, provisionFaults>>

(* Writing or syncing fails, or the command is interrupted: before the rename,
   or after it and before the name is recorded as created, so that the file is
   not among those removed. *)
PublishFails(p) ==
    /\ phase[p] = "publishing"
    /\ ProvisionFault
    /\ Turn(p, "undoing", 1)
    /\ \/ UNCHANGED <<owner, maybe>>
       \/ place[p] \in Files /\ owner[place[p]] = NoOwner /\ Link(place[p], p)
    /\ UNCHANGED created

(* Mutant: every name is removed, not only those this command created. *)
RemoveEveryFile(p) ==
    /\ phase[p] = "undoing" /\ place[p] \in Files
    /\ Link(place[p], NoOwner)
    /\ Turn(p, "undoing", place[p] + 1)
    /\ UNCHANGED <<created, provisionFaults>>

(* The names it created are removed, in the order they were published. *)
RemoveCreated(p) ==
    /\ phase[p] = "undoing" /\ place[p] \in Files /\ place[p] <= created[p]
    /\ Link(place[p], NoOwner)
    /\ Turn(p, "undoing", place[p] + 1)
    /\ UNCHANGED <<created, provisionFaults>>

SyncRemoval(p) ==
    /\ phase[p] = "undoing" /\ place[p] > created[p]
    /\ maybe' = [f \in Files |-> {owner[f]}]
    /\ Turn(p, "failed", place[p])
    /\ UNCHANGED <<owner, created, provisionFaults>>

(* The command is killed, or removing or syncing fails. *)
ProvisionerEnds(p) ==
    /\ phase[p] \in {"checking", "publishing", "undoing"}
    /\ ProvisionFault
    /\ Turn(p, "failed", place[p])
    /\ UNCHANGED <<owner, maybe, created>>

(* Each name is as it was synced or as it was changed since. *)
MachineFails ==
    /\ ProvisionFault
    /\ \E left \in [Files -> Owners] :
           /\ \A f \in Files : left[f] \in maybe[f]
           /\ owner' = left
           /\ maybe' = [f \in Files |-> {left[f]}]
    /\ phase' = [p \in Provisioners |->
           IF phase[p] = "provisioned" THEN "provisioned" ELSE "failed"]
    /\ UNCHANGED <<place, created>>

Provisioner(p) ==
    \/ CheckName(p) \/ DrawSeeds(p) \/ PublishKeyFile(p) \/ SyncKeyFiles(p)
    \/ PublishFails(p) \/ RemoveCreated(p) \/ SyncRemoval(p) \/ ProvisionerEnds(p)

ProvisionNext == (\E p \in Provisioners : Provisioner(p)) \/ MachineFails

ProvisionSpec == ProvisionInit /\ [][ProvisionNext]_provisionVars

(* Once a command has returned its identities, every file is its own, and is on
   disk: no other command that raced it replaces or removes one, whatever fails. *)
ProvisionedOnce ==
    \A p \in Provisioners : phase[p] = "provisioned" =>
        \A f \in Files : owner[f] = p /\ maybe[f] = {p}
=============================================================================

---------------------------- MODULE ArtifactStore ----------------------------
(***************************************************************************)
(* The content-addressed store of src/apar/storage/artifacts.py over a      *)
(* POSIX directory: several processes stage a payload and its manifest in a *)
(* temporary directory, sync it, and publish it under the digest with one   *)
(* rename that never replaces.                                              *)
(*                                                                          *)
(* A payload stands for its digest.  What is not synced may be lost or torn *)
(* by a power loss; a rename is atomic on disk, but is there for certain    *)
(* only when the root directory has been synced.  Any system call may fail, *)
(* and a process may be killed at any point.  Temporary names never collide *)
(* (they carry 96 random bits and are created exclusively).                 *)
(***************************************************************************)
EXTENDS Integers, FiniteSets, Functions

CONSTANTS
    Writers,    \* processes that call put_bytes
    Payloads,
    MediaTypes,
    Calls(_),   \* writer -> the <<payload, media type>> pairs it stores
    MaxDirs,    \* bound: directories created in all
    MaxFaults,  \* bound: failing calls and killed processes
    MaxLosses,  \* bound: power losses
    NoDir

ASSUME StoreConstants ==
    /\ MaxDirs \in Nat /\ MaxFaults \in Nat /\ MaxLosses \in Nat
    /\ NoDir \notin Nat
    /\ \A w \in Writers : Calls(w) \subseteq Payloads \X MediaTypes

Files == {"payload", "manifest"}

VARIABLES
    dirs,      \* directory -> what it holds
    made,      \* directories created so far
    name,      \* directory -> its name under the root, as processes see it
    onDisk,    \* directory -> its name under the root, as last synced
    writer,    \* writer -> what its put_bytes call is doing
    returned,  \* references handed out
    secured,   \* those handed out by the writer that published them
    faults, losses

diskVars == <<dirs, made, name, onDisk>>
boundVars == <<faults, losses>>
artifactVars == <<diskVars, writer, returned, secured, boundVars>>

(* A directory holds files of the payload and the media type it was made for:
   each absent, torn or whole; synced files keep their bytes, and a listed
   directory keeps its entries. *)
NewDir(payload, media) ==
    [digest |-> payload, media |-> media,
     files |-> [f \in Files |-> "absent"], synced |-> {}, listed |-> FALSE]

(* _load_verified: both files are there and hash to what the name says. *)
Whole(d) == \A f \in Files : dirs[d].files[f] = "whole"

Published(payload) == {d \in 1..made : name[d] = "digest" /\ dirs[d].digest = payload}

IdleWriter == [pc |-> "idle", payload |-> NoDir, media |-> NoDir, dir |-> NoDir, ref |-> NoDir]

(* Fault is one more failing call. *)
Fault == faults < MaxFaults /\ faults' = faults + 1 /\ UNCHANGED losses

Goto(w, pc) == writer' = [writer EXCEPT ![w].pc = pc]
-----------------------------------------------------------------------------
ArtifactInit ==
    /\ dirs = <<>>
    /\ made = 0
    /\ name = <<>>
    /\ onDisk = <<>>
    /\ writer = [w \in Writers |-> IdleWriter]
    /\ returned = {}
    /\ secured = {}
    /\ faults = 0
    /\ losses = 0

(* put_bytes is called. *)
PutBytes(w, payload, media) ==
    /\ writer[w].pc = "idle"
    /\ writer' = [writer EXCEPT ![w] = [IdleWriter EXCEPT !.pc = "probe", !.payload = payload,
                                                          !.media = media]]
    /\ UNCHANGED <<diskVars, returned, secured, boundVars>>

(* What loading a published directory comes to: a reference, or an exception
   if it is not whole. *)
LoadPublished(w, d, next) ==
    writer' = [writer EXCEPT ![w].pc = next,
                             ![w].ref = IF Whole(d) THEN <<dirs[d].digest, dirs[d].media>>
                                        ELSE NoDir]

(* _load_if_present: the payload is there already, with the media type of
   whoever stored it. *)
ProbeFinds(w) ==
    /\ writer[w].pc = "probe"
    /\ \E d \in Published(writer[w].payload) : LoadPublished(w, d, "return")
    /\ UNCHANGED <<diskVars, returned, secured, boundVars>>

(* _create_temporary_directory *)
Stage(w) ==
    /\ writer[w].pc = "probe"
    /\ Published(writer[w].payload) = {}
    /\ made < MaxDirs
    /\ made' = made + 1
    /\ dirs' = [d \in 1..made' |-> IF d = made' THEN NewDir(writer[w].payload, writer[w].media)
                                   ELSE dirs[d]]
    /\ name' = [d \in 1..made' |-> IF d = made' THEN "temp" ELSE name[d]]
    /\ onDisk' = [d \in 1..made' |-> IF d = made' THEN "none" ELSE onDisk[d]]
    /\ writer' = [writer EXCEPT ![w].pc = "payload", ![w].dir = made']
    /\ UNCHANGED <<returned, secured, boundVars>>

(* Mutant: the file is written but not synced. *)
WriteFileUnsynced(w, file, next) ==
    /\ writer[w].pc = file
    /\ dirs' = [dirs EXCEPT ![writer[w].dir].files[file] = "whole"]
    /\ Goto(w, next)
    /\ UNCHANGED <<made, name, onDisk, returned, secured, boundVars>>

(* _write_durable_file_at: all the bytes, then fsync. *)
WriteFile(w, file, next) ==
    /\ writer[w].pc = file
    /\ dirs' = [dirs EXCEPT ![writer[w].dir].files[file] = "whole",
                            ![writer[w].dir].synced = @ \cup {file}]
    /\ Goto(w, next)
    /\ UNCHANGED <<made, name, onDisk, returned, secured, boundVars>>

(* Part of the file is written, then the call raises. *)
WriteFails(w, file) ==
    /\ writer[w].pc = file
    /\ Fault
    /\ dirs' = [dirs EXCEPT ![writer[w].dir].files[file] = "torn"]
    /\ Goto(w, "cleanup")
    /\ UNCHANGED <<made, name, onDisk, returned, secured>>

(* fsync of the temporary directory. *)
SyncStaging(w) ==
    /\ writer[w].pc = "sync"
    /\ dirs' = [dirs EXCEPT ![writer[w].dir].listed = TRUE]
    /\ Goto(w, "publish")
    /\ UNCHANGED <<made, name, onDisk, returned, secured, boundVars>>

(* Mutant: the rename replaces a directory that got there first. *)
PublishReplacing(w) ==
    /\ writer[w].pc = "publish"
    /\ name' = [d \in 1..made |-> IF d = writer[w].dir THEN "digest"
                                  ELSE IF d \in Published(writer[w].payload) THEN "none"
                                  ELSE name[d]]
    /\ Goto(w, "syncRoot")
    /\ UNCHANGED <<dirs, made, onDisk, returned, secured, boundVars>>

(* Mutant: a writer that finds the name taken tries again. *)
PublishRetrying(w) ==
    /\ writer[w].pc = "publish"
    /\ Published(writer[w].payload) = {}
    /\ name' = [name EXCEPT ![writer[w].dir] = "digest"]
    /\ Goto(w, "syncRoot")
    /\ UNCHANGED <<dirs, made, onDisk, returned, secured, boundVars>>

(* publish_no_replace_at: one exclusive rename. *)
Publish(w) ==
    /\ writer[w].pc = "publish"
    /\ IF Published(writer[w].payload) = {}
       THEN name' = [name EXCEPT ![writer[w].dir] = "digest"] /\ Goto(w, "syncRoot")
       ELSE UNCHANGED name /\ Goto(w, "reuse")
    /\ UNCHANGED <<dirs, made, onDisk, returned, secured, boundVars>>

(* Mutant: the loser of the race returns the reference it made itself. *)
ReuseOwn(w) ==
    /\ writer[w].pc = "reuse"
    /\ writer' = [writer EXCEPT ![w].pc = "cleanup",
                                ![w].ref = <<writer[w].payload, writer[w].media>>]
    /\ UNCHANGED <<diskVars, returned, secured, boundVars>>

(* _reuse_verified_artifact after a lost race. *)
Reuse(w) ==
    /\ writer[w].pc = "reuse"
    /\ \E d \in Published(writer[w].payload) : LoadPublished(w, d, "cleanup")
    /\ UNCHANGED <<diskVars, returned, secured, boundVars>>

(* Mutant: the root directory is not synced after the rename. *)
SyncRootSkipped(w) ==
    /\ writer[w].pc = "syncRoot"
    /\ writer' = [writer EXCEPT ![w].pc = "cleanup",
                                ![w].ref = <<writer[w].payload, writer[w].media>>]
    /\ secured' = secured \cup {<<writer[w].payload, writer[w].media>>}
    /\ UNCHANGED <<diskVars, returned, boundVars>>

(* fsync of the root: every name under it is on disk, whoever made it. *)
SyncRoot(w) ==
    /\ writer[w].pc = "syncRoot"
    /\ onDisk' = name
    /\ writer' = [writer EXCEPT ![w].pc = "cleanup",
                                ![w].ref = <<writer[w].payload, writer[w].media>>]
    /\ secured' = secured \cup {<<writer[w].payload, writer[w].media>>}
    /\ UNCHANGED <<dirs, made, name, returned, boundVars>>

(* Any other call raises: one of the syncs, or the rename. *)
StepFails(w) ==
    /\ writer[w].pc \in {"sync", "publish", "syncRoot"}
    /\ Fault
    /\ Goto(w, "cleanup")
    /\ UNCHANGED <<diskVars, returned, secured>>

(* _remove_temporary_directory: by its temporary name, which a published
   directory no longer has. *)
Cleanup(w) ==
    /\ writer[w].pc = "cleanup"
    /\ IF name[writer[w].dir] = "temp"
       THEN /\ name' = [name EXCEPT ![writer[w].dir] = "none"]
            /\ dirs' = [dirs EXCEPT ![writer[w].dir].files = [f \in Files |-> "absent"]]
       ELSE UNCHANGED <<name, dirs>>
    /\ Goto(w, "return")
    /\ UNCHANGED <<made, onDisk, returned, secured, boundVars>>

(* It suppresses what unlink and rmdir raise; files may be gone or not. *)
CleanupFails(w) ==
    /\ writer[w].pc = "cleanup"
    /\ name[writer[w].dir] = "temp"
    /\ Fault
    /\ \E gone \in SUBSET Files :
          dirs' = [dirs EXCEPT ![writer[w].dir].files =
                     [f \in Files |-> IF f \in gone THEN "absent" ELSE @[f]]]
    /\ Goto(w, "return")
    /\ UNCHANGED <<made, name, onDisk, returned, secured>>

(* The call returns its reference, or raises when it has none. *)
PutReturns(w) ==
    /\ writer[w].pc = "return"
    /\ returned' = IF writer[w].ref = NoDir THEN returned ELSE returned \cup {writer[w].ref}
    /\ writer' = [writer EXCEPT ![w] = IdleWriter]
    /\ UNCHANGED <<diskVars, secured, boundVars>>

(* A process dies where it stands. *)
Kill(w) ==
    /\ writer[w].pc # "idle"
    /\ Fault
    /\ writer' = [writer EXCEPT ![w] = IdleWriter]
    /\ UNCHANGED <<diskVars, returned, secured>>

(* What a power loss can make of a directory's contents. *)
Survives(d, f) ==
    {dirs[d].files[f]} \cup (IF dirs[d].listed THEN {} ELSE {"absent"})
                       \cup (IF f \in dirs[d].synced THEN {} ELSE {"torn"})

(* The power fails: every process is gone, every directory is found under its
   present or its synced name or not at all, and what is found is on disk from
   then on. *)
PowerLoss ==
    /\ losses < MaxLosses
    /\ losses' = losses + 1
    /\ name' \in {n \in [1..made -> {"none", "temp", "digest"}] :
                    \A d \in 1..made : n[d] \in {name[d], onDisk[d]}}
    /\ onDisk' = name'
    /\ \E found \in [1..made -> [Files -> {"absent", "torn", "whole"}]] :
          /\ \A d \in 1..made, f \in Files :
                found[d][f] \in IF name'[d] = "none" THEN {"absent"} ELSE Survives(d, f)
          /\ dirs' = [d \in 1..made |->
                        [dirs[d] EXCEPT !.files = found[d], !.synced = Files, !.listed = TRUE]]
    /\ writer' = [w \in Writers |-> IdleWriter]
    /\ returned' = {ref \in returned : \E d \in 1..made :
                       name'[d] = "digest" /\ dirs[d].digest = ref[1]}
    /\ UNCHANGED <<made, secured, faults>>

PutStep(w) ==
    \/ ProbeFinds(w) \/ Stage(w)
    \/ WriteFile(w, "payload", "manifest") \/ WriteFile(w, "manifest", "sync")
    \/ SyncStaging(w) \/ Publish(w) \/ Reuse(w) \/ SyncRoot(w) \/ Cleanup(w)
    \/ PutReturns(w)

ArtifactNext ==
    \/ \E w \in Writers :
          \/ \E call \in Calls(w) : PutBytes(w, call[1], call[2])
          \/ PutStep(w)
          \/ \E f \in Files : WriteFails(w, f)
          \/ StepFails(w) \/ CleanupFails(w) \/ Kill(w)
    \/ PowerLoss

ArtifactSpec == ArtifactInit /\ [][ArtifactNext]_artifactVars

(* A process that is in put_bytes keeps running. *)
FairArtifactSpec == ArtifactSpec /\ \A w \in Writers : WF_artifactVars(PutStep(w))
-----------------------------------------------------------------------------
(* A directory under a digest holds both files whole, at every instant and
   after every power loss: staging is synced before it is published. *)
PublishedWhole ==
    \A p \in Payloads : Cardinality(Published(p)) <= 1 /\ \A d \in Published(p) : Whole(d)

(* A reference from the writer that published the artifact survives any power
   loss.  (A writer that found the artifact there has not synced the root.) *)
SecuredSurvive ==
    \A ref \in secured : \E d \in Published(ref[1]) :
        dirs[d].media = ref[2] /\ onDisk[d] = "digest"

(* What is published is whole, and what was secured stays. *)
ArtifactsDurable == PublishedWhole /\ SecuredSurvive

(* A put_bytes that has begun to stage ends, whatever the other writers of the payload are doing. *)
PutEnds == \A w \in Writers : writer[w].dir # NoDir ~> writer[w].pc = "idle"

(* The directory tree implements the abstract store. *)
PublishedDirs == {d \in 1..made : name[d] = "digest"}

Store == INSTANCE ContentStore WITH
    stored <- [p \in {dirs[d].digest : d \in PublishedDirs} |->
                 dirs[CHOOSE d \in PublishedDirs : dirs[d].digest = p].media],
    safe   <- {dirs[d].digest : d \in {e \in 1..made : onDisk[e] = "digest"}}

(* Every step of the file system is a step of the content-addressed store or
   none: publication adds, syncing the root secures, a call's return hands out
   what is stored, and a power loss takes only what was not secured. *)
ImplementsStore == Store!StoreSpec
=============================================================================

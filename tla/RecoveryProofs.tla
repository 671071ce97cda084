--------------------------- MODULE RecoveryProofs ---------------------------
(***************************************************************************)
(* Theorems about what outlives an interruption, and what is built anew     *)
(* from what is kept.                                                       *)
(*                                                                          *)
(* The artifact store, for any processes, payloads, calls and numbers of    *)
(* failures, kills and power losses: what is published is whole, what was   *)
(* secured stays, and the directory tree implements the abstract            *)
(* content-addressed store.                                                 *)
(*                                                                          *)
(* The feature state, for any set of observations, finite or not, and any   *)
(* calls and restarts: its rows are those of one call with everything, and  *)
(* no restart can be seen in them.                                          *)
(*                                                                          *)
(* The case queue and the case grouping, for any observations and alerts:   *)
(* the queue is fair, the components are exact, every alert is in one case, *)
(* and a later call keeps, extends or merges the cases of an earlier one.   *)
(***************************************************************************)
EXTENDS ArtifactStore, FeatureState, CaseQueue, Foundations

(***************************************************************************)
(* ARTIFACT STORE                                                           *)
(***************************************************************************)
States == {"absent", "torn", "whole"}
NamesOf == {"none", "temp", "digest"}
Directory ==
    [digest : Payloads, media : MediaTypes, files : [Files -> States],
     synced : SUBSET Files, listed : BOOLEAN]

(* Where a call owns a directory that has its temporary name. *)
Filling == {"payload", "manifest", "sync", "publish", "reuse"}
Owning == Filling \cup {"syncRoot", "cleanup"}
Calling == [pc : {"idle", "probe", "return"} \cup Owning,
            payload : Payloads \cup {NoDir}, media : MediaTypes \cup {NoDir},
            dir : Nat \cup {NoDir}, ref : (Payloads \X MediaTypes) \cup {NoDir}]

Typed ==
    /\ made \in Nat
    /\ dirs \in [1..made -> Directory]
    /\ name \in [1..made -> NamesOf]
    /\ onDisk \in [1..made -> NamesOf]
    /\ writer \in [Writers -> Calling]
    /\ secured \subseteq Payloads \X MediaTypes

PublishedOnce ==
    \A d, e \in PublishedDirs : dirs[d].digest = dirs[e].digest => d = e

(* Publication comes after both files and the directory have been synced. *)
PublishedSynced ==
    \A d \in PublishedDirs : Whole(d) /\ dirs[d].synced = Files /\ dirs[d].listed

DiskFollows == \A d \in 1..made : onDisk[d] = "digest" => name[d] = "digest"

(* A call that stages has a directory for its own payload and media type, and
   its place tells what is in it. *)
OwnDir(w) ==
    LET d == writer[w].dir
        at == writer[w].pc
    IN  /\ at # "idle" => <<writer[w].payload, writer[w].media>> \in Payloads \X MediaTypes
        /\ at \in {"idle", "probe"} => d = NoDir
        /\ d # NoDir => d \in 1..made
        /\ at \in Owning =>
              /\ d \in 1..made
              /\ dirs[d].digest = writer[w].payload /\ dirs[d].media = writer[w].media
        /\ at \in Filling => name[d] = "temp"
        /\ at = "syncRoot" => name[d] = "digest"
        /\ at \in {"manifest", "sync", "publish"} =>
              dirs[d].files["payload"] = "whole" /\ "payload" \in dirs[d].synced
        /\ at \in {"sync", "publish"} =>
              dirs[d].files["manifest"] = "whole" /\ "manifest" \in dirs[d].synced
        /\ at = "publish" => dirs[d].listed

OwnDirs == \A w \in Writers : OwnDir(w)

(* No two calls have one directory. *)
Apart ==
    \A v, w \in Writers : v # w /\ writer[v].dir # NoDir => writer[v].dir # writer[w].dir

(* A reference that a call is about to return is that of what is stored. *)
References ==
    \A w \in Writers : writer[w].ref # NoDir =>
        \E d \in PublishedDirs : writer[w].ref = <<dirs[d].digest, dirs[d].media>>

IInv ==
    /\ Typed
    /\ PublishedOnce /\ PublishedSynced /\ DiskFollows
    /\ OwnDirs /\ Apart /\ References
    /\ SecuredSurvive

-----------------------------------------------------------------------------
LEMMA InitIInv ==
  ASSUME ArtifactInit
  PROVE  IInv
<1>1. Typed
  BY DEF ArtifactInit, Typed, IdleWriter, Calling
<1>2. PublishedDirs = {}
  BY DEF ArtifactInit, PublishedDirs
<1>3. PublishedOnce /\ PublishedSynced /\ DiskFollows /\ SecuredSurvive
  BY <1>2 DEF ArtifactInit, PublishedOnce, PublishedSynced, DiskFollows, SecuredSurvive
<1>4. OwnDirs /\ Apart /\ References
  BY DEF ArtifactInit, OwnDirs, OwnDir, Apart, References, IdleWriter, Owning, Filling
<1>5. QED
  BY <1>1, <1>3, <1>4 DEF IInv

(* What leaves the tree alone and only moves one call. *)
LEMMA CallMoves ==
  ASSUME IInv, NEW w \in Writers, UNCHANGED <<diskVars, secured>>,
         NEW to \in Calling, writer' = [writer EXCEPT ![w] = to],
         to.dir = writer[w].dir \/ to.dir = NoDir,
         OwnDir(w)',
         to.ref # NoDir => \E d \in PublishedDirs : to.ref = <<dirs[d].digest, dirs[d].media>>
  PROVE  IInv'
<1>1. /\ writer \in [Writers -> Calling] /\ writer'[w] = to
      /\ \A v \in Writers : v # w => writer'[v] = writer[v]
  BY DEF IInv, Typed
<1>2. Typed'
  BY <1>1 DEF IInv, Typed, diskVars
<1>3. PublishedOnce' /\ PublishedSynced' /\ DiskFollows' /\ SecuredSurvive'
  BY DEF IInv, PublishedOnce, PublishedSynced, DiskFollows, SecuredSurvive, PublishedDirs, Published,
         Whole, diskVars
<1>4. OwnDirs'
  <2>1. ASSUME NEW v \in Writers, v # w
        PROVE  OwnDir(v)'
    BY <1>1, <2>1 DEF IInv, OwnDirs, OwnDir, diskVars
  <2>2. QED
    BY <2>1 DEF OwnDirs
<1>5. Apart'
  BY <1>1 DEF IInv, Apart
<1>6. References'
  BY <1>1 DEF IInv, References, PublishedDirs, diskVars
<1>7. QED
  BY <1>2, <1>3, <1>4, <1>5, <1>6 DEF IInv

LEMMA PutBytesInv ==
  ASSUME IInv, NEW w \in Writers, NEW call \in Calls(w), PutBytes(w, call[1], call[2])
  PROVE  IInv'
<1> DEFINE to == [IdleWriter EXCEPT !.pc = "probe", !.payload = call[1], !.media = call[2]]
<1>1. call \in Payloads \X MediaTypes
  BY StoreConstants
<1>2. /\ to \in Calling /\ to.pc = "probe" /\ to.dir = NoDir /\ to.ref = NoDir
      /\ <<to.payload, to.media>> \in Payloads \X MediaTypes
  BY <1>1 DEF IdleWriter, Calling
<1>3. writer' = [writer EXCEPT ![w] = to] /\ UNCHANGED <<diskVars, secured>>
  BY DEF PutBytes
<1> HIDE DEF to
<1>4. writer'[w] = to
  BY <1>3 DEF IInv, Typed
<1>5. OwnDir(w)'
  BY <1>2, <1>4 DEF OwnDir, Owning, Filling
<1>6. QED
  BY <1>2, <1>3, <1>5, CallMoves

(* A reference is read from a published directory. *)
LEMMA LoadInv ==
  ASSUME IInv, NEW w \in Writers, NEW d \in Published(writer[w].payload), NEW next,
         \/ writer[w].pc = "probe" /\ next = "return"
         \/ writer[w].pc = "reuse" /\ next = "cleanup",
         LoadPublished(w, d, next), UNCHANGED <<diskVars, secured>>
  PROVE  IInv'
<1> DEFINE ref == IF Whole(d) THEN <<dirs[d].digest, dirs[d].media>> ELSE NoDir
           to == [writer[w] EXCEPT !.pc = next, !.ref = ref]
<1>1. d \in PublishedDirs /\ d \in 1..made
  BY DEF Published, PublishedDirs
<1>2. ref \in (Payloads \X MediaTypes) \cup {NoDir}
  BY <1>1 DEF IInv, Typed, Directory
<1>3. writer[w] \in Calling /\ writer[w].pc \notin {"idle"}
  BY DEF IInv, Typed
<1> HIDE DEF ref
<1>4. /\ to \in Calling /\ to.pc = next /\ to.dir = writer[w].dir /\ to.ref = ref
      /\ to.payload = writer[w].payload /\ to.media = writer[w].media
  BY <1>2, <1>3 DEF Calling, Owning, Filling
<1>5. writer' = [writer EXCEPT ![w] = to]
  BY DEF LoadPublished, ref, IInv, Typed
<1> HIDE DEF to
<1>6. writer'[w] = to
  BY <1>5 DEF IInv, Typed
<1>7. OwnDir(w)'
  BY <1>4, <1>6 DEF IInv, OwnDirs, OwnDir, Owning, Filling, diskVars
<1>8. to.ref # NoDir => \E e \in PublishedDirs : to.ref = <<dirs[e].digest, dirs[e].media>>
  BY <1>1, <1>4 DEF ref
<1>9. QED
  BY <1>4, <1>5, <1>7, <1>8, CallMoves

(* A call that fails in front of its cleaning up. *)
LEMMA StepFailsInv ==
  ASSUME IInv, NEW w \in Writers, StepFails(w)
  PROVE  IInv'
<1> DEFINE to == [writer[w] EXCEPT !.pc = "cleanup"]
<1>1. writer[w] \in Calling
  BY DEF IInv, Typed
<1>2. /\ to \in Calling /\ to.pc = "cleanup" /\ to.dir = writer[w].dir /\ to.ref = writer[w].ref
      /\ to.payload = writer[w].payload /\ to.media = writer[w].media
  BY <1>1 DEF Calling, Owning, Filling
<1>3. writer' = [writer EXCEPT ![w] = to] /\ UNCHANGED <<diskVars, secured>>
  BY DEF StepFails, Goto, IInv, Typed
<1> HIDE DEF to
<1>4. writer'[w] = to
  BY <1>3 DEF IInv, Typed
<1>5. OwnDir(w)'
  BY <1>2, <1>3, <1>4 DEF IInv, OwnDirs, OwnDir, Owning, Filling, StepFails, diskVars
<1>6. QED
  BY <1>2, <1>3, <1>5, CallMoves DEF IInv, References

LEMMA GoneInv ==
  ASSUME IInv, NEW w \in Writers, writer' = [writer EXCEPT ![w] = IdleWriter],
         UNCHANGED <<diskVars, secured>>
  PROVE  IInv'
<1>1. IdleWriter \in Calling /\ IdleWriter.dir = NoDir /\ IdleWriter.ref = NoDir
      /\ IdleWriter.pc = "idle"
  BY DEF IdleWriter, Calling
<1>2. writer'[w] = IdleWriter
  BY DEF IInv, Typed
<1>3. OwnDir(w)'
  BY <1>1, <1>2 DEF OwnDir, Owning, Filling
<1>4. QED
  BY <1>1, <1>3, CallMoves
-----------------------------------------------------------------------------
(* What a call does to its own directory d while that has its temporary name:
   the directory becomes content under the given name, or its entry goes. *)
Fills(w, d, named, content, pc) ==
    /\ writer[w].pc \in Owning
    /\ d = writer[w].dir /\ name[d] = "temp"
    /\ named \in {"temp", "none"} /\ name' = [name EXCEPT ![d] = named]
    /\ content \in Directory /\ dirs' = [dirs EXCEPT ![d] = content]
    /\ content.digest = dirs[d].digest /\ content.media = dirs[d].media
    /\ pc \in {"manifest", "sync", "publish", "cleanup", "return"}
    /\ writer' = [writer EXCEPT ![w].pc = pc]
    /\ UNCHANGED <<made, onDisk, secured>>

(* Nothing published, and no other call, is concerned. *)
LEMMA FillInv ==
  ASSUME IInv, NEW w \in Writers, NEW d, NEW named, NEW content, NEW pc,
         Fills(w, d, named, content, pc), OwnDir(w)'
  PROVE  IInv'
<1> USE DEF Fills
<1>1. /\ d \in 1..made /\ d # NoDir
      /\ dirs'[d] = content /\ \A e \in 1..made : e # d => dirs'[e] = dirs[e]
      /\ name'[d] = named /\ \A e \in 1..made : e # d => name'[e] = name[e]
      /\ d \notin PublishedDirs /\ onDisk[d] # "digest"
  BY StoreConstants DEF IInv, OwnDirs, OwnDir, Typed, PublishedDirs, DiskFollows
<1>2. \A v \in Writers : v # w => writer'[v] = writer[v] /\ writer[v].dir # d
  BY <1>1 DEF IInv, Typed, Apart
<1>3. /\ writer'[w].dir = d /\ writer'[w].ref = writer[w].ref /\ writer'[w].pc = pc
  BY DEF IInv, Typed, Calling
<1>4. /\ PublishedDirs' = PublishedDirs
      /\ \A e \in PublishedDirs : e # d /\ dirs'[e] = dirs[e] /\ name'[e] = name[e]
  BY <1>1 DEF PublishedDirs
<1>5. Typed'
  <2>1. writer' \in [Writers -> Calling]
    <3>1. writer[w] \in Calling /\ writer \in [Writers -> Calling]
      BY DEF IInv, Typed
    <3>2. [writer[w] EXCEPT !.pc = pc] \in Calling
      BY <3>1 DEF Calling, Owning, Filling
    <3>3. QED
      BY <3>1, <3>2
  <2>2. dirs' \in [1..made -> Directory] /\ name' \in [1..made -> NamesOf]
    BY DEF IInv, Typed, NamesOf
  <2>3. QED
    BY <2>1, <2>2 DEF IInv, Typed
<1>6. PublishedOnce' /\ PublishedSynced'
  BY <1>4 DEF IInv, PublishedOnce, PublishedSynced, Whole
<1>7. DiskFollows'
  BY <1>1 DEF IInv, DiskFollows
<1>8. SecuredSurvive'
  BY <1>1 DEF IInv, SecuredSurvive, Published, PublishedDirs
<1>9. OwnDirs'
  <2>1. ASSUME NEW v \in Writers, v # w
        PROVE  OwnDir(v)'
    <3>1. writer'[v] = writer[v] /\ OwnDir(v)
      BY <1>2, <2>1 DEF IInv, OwnDirs
    <3>2. writer[v].dir \in 1..made => /\ dirs'[writer[v].dir] = dirs[writer[v].dir]
                                       /\ name'[writer[v].dir] = name[writer[v].dir]
      BY <1>1, <1>2, <2>1
    <3>3. QED
      BY <3>1, <3>2 DEF OwnDir, Owning, Filling
  <2>2. QED
    BY <2>1 DEF OwnDirs
<1>10. Apart'
  BY <1>2, <1>3 DEF IInv, Apart
<1>11. References'
  BY <1>2, <1>3, <1>4 DEF IInv, References
<1>12. QED
  BY <1>5, <1>6, <1>7, <1>8, <1>9, <1>10, <1>11 DEF IInv

(* A file is written, whole and synced or partly. *)
LEMMA WriteFileInv ==
  ASSUME IInv, NEW w \in Writers, NEW file \in Files, NEW next,
         WriteFile(w, file, next),
         \/ file = "payload" /\ next = "manifest"
         \/ file = "manifest" /\ next = "sync"
  PROVE  IInv'
<1> DEFINE d == writer[w].dir
           content == [dirs[d] EXCEPT !.files[file] = "whole", !.synced = @ \cup {file}]
<1>1. /\ writer[w].pc = file /\ file \in Filling /\ d \in 1..made /\ name[d] = "temp"
      /\ dirs[d].digest = writer[w].payload /\ dirs[d].media = writer[w].media
      /\ writer[w] \in Calling /\ dirs[d] \in Directory
      /\ file = "manifest" => dirs[d].files["payload"] = "whole" /\ "payload" \in dirs[d].synced
      /\ <<writer[w].payload, writer[w].media>> \in Payloads \X MediaTypes
  BY DEF WriteFile, IInv, OwnDirs, OwnDir, Typed, Files, Filling, Owning
<1>2. /\ dirs' = [dirs EXCEPT ![d] = content] /\ name' = [name EXCEPT ![d] = "temp"]
      /\ writer' = [writer EXCEPT ![w].pc = next]
      /\ UNCHANGED <<made, onDisk, secured>>
  BY <1>1 DEF WriteFile, Goto, IInv, Typed
<1>3. /\ content \in Directory /\ content.digest = dirs[d].digest /\ content.media = dirs[d].media
      /\ content.files[file] = "whole" /\ file \in content.synced
      /\ \A f \in Files : f # file => content.files[f] = dirs[d].files[f]
      /\ dirs[d].synced \subseteq content.synced
  BY <1>1 DEF Directory, States, Files
<1> HIDE DEF content
<1>4. /\ writer'[w].pc = next /\ writer'[w].dir = d
      /\ writer'[w].payload = writer[w].payload /\ writer'[w].media = writer[w].media
      /\ dirs'[d] = content /\ name'[d] = "temp"
  BY <1>1, <1>2 DEF IInv, Typed, Calling
<1>5. OwnDir(w)'
  BY <1>1, <1>2, <1>3, <1>4 DEF OwnDir, Owning, Filling, Files
<1>6. Fills(w, d, "temp", content, next)
  BY <1>1, <1>2, <1>3 DEF Fills, Owning
<1>7. QED
  BY <1>5, <1>6, FillInv

LEMMA ContentsInv ==
  ASSUME IInv, NEW w \in Writers, writer[w].pc \in Owning, name[writer[w].dir] = "temp",
         NEW files \in [Files -> States], NEW named \in {"temp", "none"},
         NEW pc \in {"cleanup", "return"}, named = "none" => pc = "return",
         dirs' = [dirs EXCEPT ![writer[w].dir].files = files],
         name' = [name EXCEPT ![writer[w].dir] = named],
         Goto(w, pc), UNCHANGED <<made, onDisk, secured>>
  PROVE  IInv'
<1> DEFINE d == writer[w].dir
           content == [dirs[d] EXCEPT !.files = files]
<1>1. /\ d \in 1..made /\ dirs[d] \in Directory /\ writer[w] \in Calling
      /\ dirs[d].digest = writer[w].payload /\ dirs[d].media = writer[w].media
      /\ <<writer[w].payload, writer[w].media>> \in Payloads \X MediaTypes
  BY DEF IInv, OwnDirs, OwnDir, Typed, Owning, Filling
<1>2. dirs' = [dirs EXCEPT ![d] = content] /\ writer' = [writer EXCEPT ![w].pc = pc]
  BY <1>1 DEF Goto, IInv, Typed
<1>3. content \in Directory /\ content.digest = dirs[d].digest /\ content.media = dirs[d].media
  BY <1>1 DEF Directory
<1> HIDE DEF content
<1>4. /\ writer'[w].pc = pc /\ writer'[w].dir = d
      /\ writer'[w].payload = writer[w].payload /\ writer'[w].media = writer[w].media
      /\ dirs'[d] = content
  BY <1>1, <1>2 DEF IInv, Typed, Calling
<1>5. OwnDir(w)'
  <2>1. CASE pc = "return"
    BY <1>1, <1>4, <2>1 DEF OwnDir, Owning, Filling
  <2>2. CASE pc = "cleanup"
    BY <1>1, <1>3, <1>4, <2>2 DEF OwnDir, Owning, Filling
  <2>3. QED
    BY <2>1, <2>2
<1>6. Fills(w, d, named, content, pc)
  BY <1>2, <1>3 DEF Fills
<1>7. QED
  BY <1>5, <1>6, FillInv

LEMMA WriteFailsInv ==
  ASSUME IInv, NEW w \in Writers, NEW file \in Files, WriteFails(w, file)
  PROVE  IInv'
<1> DEFINE d == writer[w].dir
           files == [dirs[d].files EXCEPT ![file] = "torn"]
<1>1. /\ writer[w].pc \in Owning /\ d \in 1..made /\ name[d] = "temp"
      /\ dirs[d] \in Directory
  BY DEF WriteFails, IInv, OwnDirs, OwnDir, Typed, Files, Filling, Owning
<1>2. /\ files \in [Files -> States]
      /\ dirs' = [dirs EXCEPT ![d].files = files]
      /\ name' = [name EXCEPT ![d] = "temp"]
  BY <1>1 DEF WriteFails, Directory, States, IInv, Typed
<1>3. QED
  BY <1>1, <1>2, ContentsInv DEF WriteFails

LEMMA CleanupFailsInv ==
  ASSUME IInv, NEW w \in Writers, CleanupFails(w)
  PROVE  IInv'
<1> DEFINE d == writer[w].dir
<1>1. /\ writer[w].pc \in Owning /\ d \in 1..made /\ name[d] = "temp" /\ dirs[d] \in Directory
  BY DEF CleanupFails, IInv, OwnDirs, OwnDir, Typed, Owning
<1>2. PICK gone \in SUBSET Files :
        dirs' = [dirs EXCEPT ![d].files = [f \in Files |-> IF f \in gone THEN "absent" ELSE @[f]]]
  BY DEF CleanupFails
<1> DEFINE files == [f \in Files |-> IF f \in gone THEN "absent" ELSE dirs[d].files[f]]
<1>3. /\ files \in [Files -> States]
      /\ dirs' = [dirs EXCEPT ![d].files = files]
      /\ name' = [name EXCEPT ![d] = "temp"]
  BY <1>1, <1>2 DEF CleanupFails, Directory, States, IInv, Typed
<1>4. QED
  BY <1>1, <1>3, ContentsInv DEF CleanupFails

LEMMA CleanupInv ==
  ASSUME IInv, NEW w \in Writers, Cleanup(w)
  PROVE  IInv'
<1> DEFINE d == writer[w].dir
<1>1. /\ writer[w].pc = "cleanup" /\ writer[w].pc \in Owning /\ d \in 1..made
      /\ writer[w] \in Calling
      /\ Goto(w, "return") /\ UNCHANGED <<made, onDisk, secured>>
  BY DEF Cleanup, IInv, OwnDirs, OwnDir, Typed, Owning
<1>2. CASE name[d] = "temp"
  <2>1. [f \in Files |-> "absent"] \in [Files -> States]
    BY DEF States
  <2>2. QED
    BY <1>1, <1>2, <2>1, ContentsInv DEF Cleanup
<1>3. CASE name[d] # "temp"
  <2> DEFINE to == [writer[w] EXCEPT !.pc = "return"]
  <2>1. /\ to \in Calling /\ to.pc = "return" /\ to.dir = d /\ to.ref = writer[w].ref
        /\ to.payload = writer[w].payload /\ to.media = writer[w].media
    BY <1>1 DEF Calling
  <2>2. writer' = [writer EXCEPT ![w] = to] /\ UNCHANGED <<diskVars, secured>>
    BY <1>1, <1>3 DEF Cleanup, Goto, IInv, Typed, diskVars
  <2> HIDE DEF to
  <2>3. writer'[w] = to
    BY <2>2 DEF IInv, Typed
  <2>4. OwnDir(w)'
    BY <1>1, <2>1, <2>2, <2>3 DEF IInv, OwnDirs, OwnDir, Owning, Filling, diskVars
  <2>5. QED
    BY <2>1, <2>2, <2>4, CallMoves DEF IInv, References
<1>4. QED
  BY <1>2, <1>3

(* The directory itself is synced. *)
LEMMA SyncStagingInv ==
  ASSUME IInv, NEW w \in Writers, SyncStaging(w)
  PROVE  IInv'
<1> DEFINE d == writer[w].dir
           content == [dirs[d] EXCEPT !.listed = TRUE]
<1>1. /\ writer[w].pc = "sync" /\ d \in 1..made /\ name[d] = "temp"
      /\ dirs[d].digest = writer[w].payload /\ dirs[d].media = writer[w].media
      /\ writer[w] \in Calling /\ dirs[d] \in Directory
      /\ \A f \in Files : dirs[d].files[f] = "whole" /\ f \in dirs[d].synced
      /\ <<writer[w].payload, writer[w].media>> \in Payloads \X MediaTypes
  BY DEF SyncStaging, IInv, OwnDirs, OwnDir, Typed, Files, Filling, Owning
<1>2. /\ dirs' = [dirs EXCEPT ![d] = content] /\ name' = [name EXCEPT ![d] = "temp"]
      /\ writer' = [writer EXCEPT ![w].pc = "publish"]
      /\ UNCHANGED <<made, onDisk, secured>>
  BY <1>1 DEF SyncStaging, Goto, IInv, Typed
<1>3. /\ content \in Directory /\ content.digest = dirs[d].digest /\ content.media = dirs[d].media
      /\ content.listed /\ content.files = dirs[d].files /\ content.synced = dirs[d].synced
  BY <1>1 DEF Directory
<1> HIDE DEF content
<1>4. /\ writer'[w].pc = "publish" /\ writer'[w].dir = d
      /\ writer'[w].payload = writer[w].payload /\ writer'[w].media = writer[w].media
      /\ dirs'[d] = content /\ name'[d] = "temp"
  BY <1>1, <1>2 DEF IInv, Typed, Calling
<1>5. OwnDir(w)'
  BY <1>1, <1>2, <1>3, <1>4 DEF OwnDir, Owning, Filling, Files
<1>6. Fills(w, d, "temp", content, "publish")
  BY <1>1, <1>2, <1>3 DEF Fills, Owning, Filling
<1>7. QED
  BY <1>5, <1>6, FillInv

-----------------------------------------------------------------------------
(* A new directory is nobody's but its maker's. *)
LEMMA StageInv ==
  ASSUME IInv, NEW w \in Writers, Stage(w)
  PROVE  IInv'
<1> DEFINE new == NewDir(writer[w].payload, writer[w].media)
           to == [writer[w] EXCEPT !.pc = "payload", !.dir = made + 1]
<1>1. /\ writer[w] \in Calling /\ writer[w].pc = "probe" /\ made \in Nat
      /\ <<writer[w].payload, writer[w].media>> \in Payloads \X MediaTypes
  BY DEF Stage, IInv, OwnDirs, OwnDir, Typed
<1>2. new \in Directory /\ new.digest = writer[w].payload /\ new.media = writer[w].media
  BY <1>1 DEF NewDir, Directory, States, Files
<1>3. /\ to \in Calling /\ to.pc = "payload" /\ to.dir = made + 1 /\ to.ref = writer[w].ref
      /\ to.payload = writer[w].payload /\ to.media = writer[w].media
  <2>1. "payload" \in Owning /\ made + 1 \in Nat
    BY <1>1 DEF Owning, Filling
  <2>2. QED
    BY <1>1, <2>1 DEF Calling
<1>4. /\ made' = made + 1 /\ writer' = [writer EXCEPT ![w] = to]
      /\ dirs' = [d \in 1..made' |-> IF d = made' THEN new ELSE dirs[d]]
      /\ name' = [d \in 1..made' |-> IF d = made' THEN "temp" ELSE name[d]]
      /\ onDisk' = [d \in 1..made' |-> IF d = made' THEN "none" ELSE onDisk[d]]
      /\ secured' = secured
  BY DEF Stage, IInv, Typed
<1> HIDE DEF new, to
<1>5. /\ writer \in [Writers -> Calling] /\ writer'[w] = to
      /\ \A v \in Writers : v # w => writer'[v] = writer[v]
  BY <1>4 DEF IInv, Typed
<1>6. \A d \in 1..made : /\ d \in 1..made' /\ d # made'
                         /\ dirs'[d] = dirs[d] /\ name'[d] = name[d] /\ onDisk'[d] = onDisk[d]
  BY <1>1, <1>4
<1>7. /\ made' \in 1..made' /\ dirs'[made'] = new /\ name'[made'] = "temp"
      /\ onDisk'[made'] = "none" /\ 1..made' = 1..made \cup {made'}
  BY <1>1, <1>4
<1>8. PublishedDirs' = PublishedDirs
  BY <1>6, <1>7 DEF PublishedDirs
<1>9. Typed'
  <2>1. dirs' \in [1..made' -> Directory] /\ name' \in [1..made' -> NamesOf]
        /\ onDisk' \in [1..made' -> NamesOf]
    BY <1>1, <1>2, <1>4 DEF IInv, Typed, NamesOf
  <2>2. writer' \in [Writers -> Calling]
    BY <1>3, <1>4, <1>5
  <2>3. QED
    BY <1>1, <1>4, <2>1, <2>2 DEF IInv, Typed
<1>10. PublishedOnce' /\ PublishedSynced'
  BY <1>6, <1>8 DEF IInv, PublishedOnce, PublishedSynced, Whole, PublishedDirs
<1>11. DiskFollows'
  BY <1>6, <1>7 DEF IInv, DiskFollows
<1>12. SecuredSurvive'
  BY <1>4, <1>6 DEF IInv, SecuredSurvive, Published
<1>13. OwnDirs'
  <2>1. ASSUME NEW v \in Writers, v # w
        PROVE  OwnDir(v)'
    <3>1. writer'[v] = writer[v] /\ OwnDir(v)
      BY <1>5, <2>1 DEF IInv, OwnDirs
    <3>2. QED
      BY <1>6, <3>1 DEF OwnDir, Owning, Filling
  <2>2. OwnDir(w)'
    BY <1>1, <1>2, <1>3, <1>4, <1>5, <1>7, StoreConstants DEF OwnDir, Owning, Filling
  <2>3. QED
    BY <2>1, <2>2 DEF OwnDirs
<1>14. Apart'
  <2>1. \A v \in Writers : writer[v].dir # NoDir => writer[v].dir \in 1..made
    BY DEF IInv, OwnDirs, OwnDir
  <2>2. \A v \in Writers : v # w => writer'[v].dir = writer[v].dir
    BY <1>5
  <2>3. writer'[w].dir = made + 1 /\ made + 1 \notin 1..made
    BY <1>1, <1>3, <1>5
  <2>4. made + 1 # NoDir
    BY <1>1, StoreConstants
  <2>5. QED
    BY <2>1, <2>2, <2>3, <2>4 DEF IInv, Apart
<1>15. References'
  BY <1>3, <1>5, <1>6, <1>8 DEF IInv, References, PublishedDirs
<1>16. QED
  BY <1>9, <1>10, <1>11, <1>12, <1>13, <1>14, <1>15 DEF IInv

(* The exclusive rename: the name is given once, to a synced directory. *)
LEMMA PublishInv ==
  ASSUME IInv, NEW w \in Writers, Publish(w)
  PROVE  IInv'
<1> DEFINE d == writer[w].dir
<1>1. /\ writer[w].pc = "publish" /\ d \in 1..made /\ name[d] = "temp" /\ writer[w] \in Calling
      /\ dirs[d].digest = writer[w].payload /\ dirs[d].media = writer[w].media
      /\ dirs[d] \in Directory /\ dirs[d].listed /\ d # NoDir
      /\ \A f \in Files : dirs[d].files[f] = "whole" /\ f \in dirs[d].synced
      /\ <<writer[w].payload, writer[w].media>> \in Payloads \X MediaTypes
  BY StoreConstants DEF Publish, IInv, OwnDirs, OwnDir, Typed, Files, Filling, Owning
<1>2. UNCHANGED <<dirs, made, onDisk, secured>>
  BY DEF Publish
<1>3. CASE Published(writer[w].payload) = {}
  <2> DEFINE to == [writer[w] EXCEPT !.pc = "syncRoot"]
  <2>1. /\ to \in Calling /\ to.pc = "syncRoot" /\ to.dir = d /\ to.ref = writer[w].ref
        /\ to.payload = writer[w].payload /\ to.media = writer[w].media
    BY <1>1 DEF Calling, Owning
  <2>2. name' = [name EXCEPT ![d] = "digest"] /\ writer' = [writer EXCEPT ![w] = to]
    BY <1>3 DEF Publish, Goto, IInv, Typed
  <2> HIDE DEF to
  <2>3. /\ writer \in [Writers -> Calling] /\ writer'[w] = to
        /\ \A v \in Writers : v # w => writer'[v] = writer[v] /\ writer[v].dir # d
        /\ name'[d] = "digest" /\ \A e \in 1..made : e # d => name'[e] = name[e]
    BY <1>1, <2>2 DEF IInv, Typed, Apart
  <2>4. /\ PublishedDirs' = PublishedDirs \cup {d} /\ d \notin PublishedDirs
        /\ \A e \in PublishedDirs : dirs[e].digest # dirs[d].digest
    BY <1>1, <1>2, <1>3, <2>3 DEF PublishedDirs, Published
  <2>5. Typed'
    <3>1. writer' \in [Writers -> Calling]
      BY <2>1, <2>2, <2>3
    <3>2. name' \in [1..made -> NamesOf]
      BY <2>2 DEF IInv, Typed, NamesOf
    <3>3. QED
      BY <1>2, <3>1, <3>2 DEF IInv, Typed
  <2>6. PublishedOnce'
    BY <1>2, <2>4 DEF IInv, PublishedOnce
  <2>7. PublishedSynced'
    <3>1. Whole(d) /\ dirs[d].synced = Files /\ dirs[d].listed
      BY <1>1 DEF Whole, Directory
    <3>2. QED
      BY <1>2, <2>4, <3>1 DEF IInv, PublishedSynced, Whole
  <2>8. DiskFollows'
    BY <1>2, <2>3 DEF IInv, DiskFollows
  <2>9. SecuredSurvive'
    BY <1>2, <2>3 DEF IInv, SecuredSurvive, Published
  <2>10. OwnDirs'
    <3>1. ASSUME NEW v \in Writers, v # w
          PROVE  OwnDir(v)'
      BY <1>2, <2>3, <3>1 DEF IInv, OwnDirs, OwnDir, Owning, Filling
    <3>2. OwnDir(w)'
      BY <1>1, <1>2, <2>1, <2>3 DEF OwnDir, Owning, Filling
    <3>3. QED
      BY <3>1, <3>2 DEF OwnDirs
  <2>11. Apart'
    BY <2>1, <2>3 DEF IInv, Apart
  <2>12. References'
    BY <1>2, <2>1, <2>3, <2>4 DEF IInv, References
  <2>13. QED
    BY <2>5, <2>6, <2>7, <2>8, <2>9, <2>10, <2>11, <2>12 DEF IInv
<1>4. CASE Published(writer[w].payload) # {}
  <2> DEFINE to == [writer[w] EXCEPT !.pc = "reuse"]
  <2>1. /\ to \in Calling /\ to.pc = "reuse" /\ to.dir = d /\ to.ref = writer[w].ref
        /\ to.payload = writer[w].payload /\ to.media = writer[w].media
    BY <1>1 DEF Calling, Owning, Filling
  <2>2. writer' = [writer EXCEPT ![w] = to] /\ UNCHANGED <<diskVars, secured>>
    BY <1>2, <1>4 DEF Publish, Goto, IInv, Typed, diskVars
  <2> HIDE DEF to
  <2>3. writer'[w] = to
    BY <2>2 DEF IInv, Typed
  <2>4. OwnDir(w)'
    BY <1>1, <2>1, <2>2, <2>3 DEF OwnDir, Owning, Filling, diskVars
  <2>5. QED
    BY <2>1, <2>2, <2>4, CallMoves DEF IInv, References
<1>5. QED
  BY <1>3, <1>4

(* Everything that has a name is on disk now, the call's own directory too. *)
LEMMA SyncRootInv ==
  ASSUME IInv, NEW w \in Writers, SyncRoot(w)
  PROVE  IInv'
<1> DEFINE d == writer[w].dir
           ref == <<writer[w].payload, writer[w].media>>
           to == [writer[w] EXCEPT !.pc = "cleanup", !.ref = ref]
<1>1. /\ writer[w].pc = "syncRoot" /\ d \in 1..made /\ name[d] = "digest" /\ writer[w] \in Calling
      /\ dirs[d].digest = writer[w].payload /\ dirs[d].media = writer[w].media
      /\ ref \in Payloads \X MediaTypes
  BY DEF SyncRoot, IInv, OwnDirs, OwnDir, Typed, Owning
<1>2. /\ to \in Calling /\ to.pc = "cleanup" /\ to.dir = d /\ to.ref = ref
      /\ to.payload = writer[w].payload /\ to.media = writer[w].media
  BY <1>1 DEF Calling, Owning
<1>3. /\ UNCHANGED <<dirs, made, name>> /\ onDisk' = name /\ secured' = secured \cup {ref}
      /\ writer' = [writer EXCEPT ![w] = to]
  BY DEF SyncRoot, IInv, Typed
<1> HIDE DEF to
<1>4. /\ writer \in [Writers -> Calling] /\ writer'[w] = to
      /\ \A v \in Writers : v # w => writer'[v] = writer[v]
  BY <1>3 DEF IInv, Typed
<1>5. d \in PublishedDirs /\ PublishedDirs' = PublishedDirs
  BY <1>1, <1>3 DEF PublishedDirs
<1>6. Typed'
  <2>1. writer' \in [Writers -> Calling]
    BY <1>2, <1>3, <1>4
  <2>2. QED
    BY <1>1, <1>3, <2>1 DEF IInv, Typed
<1>7. PublishedOnce' /\ PublishedSynced' /\ DiskFollows'
  BY <1>3, <1>5 DEF IInv, PublishedOnce, PublishedSynced, DiskFollows, Whole
<1>8. SecuredSurvive'
  <2>1. ASSUME NEW r \in secured
        PROVE  \E e \in Published(r[1])' : dirs'[e].media = r[2] /\ onDisk'[e] = "digest"
    <3>1. PICK e \in Published(r[1]) : dirs[e].media = r[2] /\ onDisk[e] = "digest"
      BY DEF IInv, SecuredSurvive
    <3>2. QED
      BY <1>3, <3>1 DEF Published
  <2>2. ASSUME NEW r, r = ref
        PROVE  \E e \in Published(r[1])' : dirs'[e].media = r[2] /\ onDisk'[e] = "digest"
    <3>1. r[1] = writer[w].payload /\ r[2] = writer[w].media
      BY <2>2
    <3>2. d \in Published(r[1])' /\ dirs'[d].media = r[2] /\ onDisk'[d] = "digest"
      BY <1>1, <1>3, <3>1 DEF Published
    <3>3. QED
      BY <3>2
  <2> HIDE DEF ref
  <2>3. \A r \in secured' : r \in secured \/ r = ref
    BY <1>3
  <2>4. QED
    BY <2>1, <2>2, <2>3 DEF SecuredSurvive
<1>9. OwnDirs'
  <2>1. ASSUME NEW v \in Writers, v # w
        PROVE  OwnDir(v)'
    BY <1>3, <1>4, <2>1 DEF IInv, OwnDirs, OwnDir, Owning, Filling
  <2>2. OwnDir(w)'
    BY <1>1, <1>2, <1>3, <1>4 DEF IInv, OwnDirs, OwnDir, Owning, Filling
  <2>3. QED
    BY <2>1, <2>2 DEF OwnDirs
<1>10. Apart'
  BY <1>2, <1>4 DEF IInv, Apart
<1>11. References'
  <2>1. ref = <<dirs[d].digest, dirs[d].media>>
    BY <1>1
  <2> HIDE DEF ref
  <2>2. QED
    BY <1>2, <1>3, <1>4, <1>5, <2>1 DEF IInv, References
<1>12. QED
  BY <1>6, <1>7, <1>8, <1>9, <1>10, <1>11 DEF IInv

-----------------------------------------------------------------------------
(* A power loss takes names that were not on disk; what is found under a digest
   was synced before it got its name, and is found whole. *)
LEMMA PowerLossInv ==
  ASSUME IInv, PowerLoss
  PROVE  IInv'
<1>1. /\ name' \in [1..made -> NamesOf]
      /\ \A d \in 1..made : name'[d] \in {name[d], onDisk[d]}
      /\ onDisk' = name' /\ made' = made /\ secured' = secured
      /\ writer' = [w \in Writers |-> IdleWriter]
  BY DEF PowerLoss, NamesOf
<1>2. PICK found \in [1..made -> [Files -> States]] :
        /\ \A d \in 1..made, f \in Files :
              found[d][f] \in IF name'[d] = "none" THEN {"absent"} ELSE Survives(d, f)
        /\ dirs' = [d \in 1..made |->
                      [dirs[d] EXCEPT !.files = found[d], !.synced = Files, !.listed = TRUE]]
  BY DEF PowerLoss, States
<1>3. \A d \in 1..made :
        /\ dirs'[d] \in Directory
        /\ dirs'[d].digest = dirs[d].digest /\ dirs'[d].media = dirs[d].media
        /\ dirs'[d].files = found[d] /\ dirs'[d].synced = Files /\ dirs'[d].listed
  <2> SUFFICES ASSUME NEW d \in 1..made
               PROVE  /\ dirs'[d] \in Directory
                      /\ dirs'[d].digest = dirs[d].digest /\ dirs'[d].media = dirs[d].media
                      /\ dirs'[d].files = found[d] /\ dirs'[d].synced = Files /\ dirs'[d].listed
    OBVIOUS
  <2>1. dirs[d] \in Directory /\ found[d] \in [Files -> States]
    BY DEF IInv, Typed
  <2>2. dirs'[d] = [dirs[d] EXCEPT !.files = found[d], !.synced = Files, !.listed = TRUE]
    BY <1>2
  <2>3. QED
    BY <2>1, <2>2 DEF Directory
<1>4. PublishedDirs' \subseteq PublishedDirs
  BY <1>1 DEF PublishedDirs, IInv, DiskFollows
<1>5. \A d \in PublishedDirs', f \in Files : found[d][f] = "whole"
  <2> SUFFICES ASSUME NEW d \in PublishedDirs', NEW f \in Files
               PROVE  found[d][f] = "whole"
    OBVIOUS
  <2>1. dirs[d].files[f] = "whole" /\ f \in dirs[d].synced /\ dirs[d].listed
    BY <1>4 DEF IInv, PublishedSynced, Whole
  <2>2. found[d][f] \in Survives(d, f)
    BY <1>1, <1>2 DEF PublishedDirs
  <2>3. QED
    BY <2>1, <2>2 DEF Survives
<1>6. Typed'
  <2>1. writer' \in [Writers -> Calling]
    BY <1>1 DEF IdleWriter, Calling
  <2>2. dirs' \in [1..made -> Directory]
    BY <1>2, <1>3
  <2>3. QED
    BY <1>1, <2>1, <2>2 DEF IInv, Typed
<1>7. PublishedOnce'
  BY <1>3, <1>4 DEF IInv, PublishedOnce, PublishedDirs
<1>8. PublishedSynced'
  <2>1. \A d \in PublishedDirs' : d \in PublishedDirs /\ d \in 1..made
    BY <1>4 DEF PublishedDirs
  <2>2. QED
    BY <1>3, <1>5, <2>1 DEF PublishedSynced, Whole
<1>9. DiskFollows'
  BY <1>1 DEF DiskFollows
<1>10. SecuredSurvive'
  <2> SUFFICES ASSUME NEW ref \in secured
               PROVE  \E d \in Published(ref[1])' : dirs'[d].media = ref[2] /\ onDisk'[d] = "digest"
    BY <1>1 DEF SecuredSurvive
  <2>1. PICK d \in Published(ref[1]) : dirs[d].media = ref[2] /\ onDisk[d] = "digest"
    BY DEF IInv, SecuredSurvive
  <2>2. d \in 1..made /\ name'[d] = "digest" /\ dirs'[d].digest = ref[1] /\ dirs'[d].media = ref[2]
    BY <1>1, <1>3, <2>1 DEF Published
  <2>3. QED
    BY <1>1, <2>2 DEF Published
<1>11. OwnDirs' /\ Apart' /\ References'
  BY <1>1 DEF OwnDirs, OwnDir, Apart, References, IdleWriter, Owning, Filling
<1>12. QED
  BY <1>6, <1>7, <1>8, <1>9, <1>10, <1>11 DEF IInv

LEMMA PutReturnsInv ==
  ASSUME IInv, NEW w \in Writers, PutReturns(w)
  PROVE  IInv'
  BY GoneInv DEF PutReturns

LEMMA StepIInv ==
  ASSUME IInv, [ArtifactNext]_artifactVars
  PROVE  IInv'
<1>1. CASE UNCHANGED artifactVars
  <2>1. UNCHANGED <<dirs, made, name, onDisk, writer, returned, secured, faults, losses>>
    BY <1>1 DEF artifactVars, diskVars, boundVars
  <2>2. Typed' /\ PublishedOnce' /\ PublishedSynced' /\ DiskFollows'
    BY <2>1 DEF IInv, Typed, PublishedOnce, PublishedSynced, DiskFollows, PublishedDirs, Published,
                Whole
  <2>3. OwnDirs' /\ Apart' /\ References'
    BY <2>1 DEF IInv, OwnDirs, OwnDir, Apart, References, PublishedDirs, Published, Whole
  <2>4. SecuredSurvive'
    BY <2>1 DEF IInv, SecuredSurvive, PublishedDirs, Published, Whole
  <2> QED  BY <2>2, <2>3, <2>4 DEF IInv
<1>2. ASSUME NEW w \in Writers, PutStep(w)
      PROVE  IInv'
  <2>1. CASE ProbeFinds(w)
    BY <2>1, LoadInv DEF ProbeFinds
  <2>2. CASE Reuse(w)
    BY <2>2, LoadInv DEF Reuse
  <2>3. CASE WriteFile(w, "payload", "manifest") \/ WriteFile(w, "manifest", "sync")
    BY <2>3, WriteFileInv DEF Files
  <2>4. QED
    BY <1>2, <2>1, <2>2, <2>3, StageInv, SyncStagingInv, PublishInv, SyncRootInv, CleanupInv,
       PutReturnsInv
       DEF PutStep
<1>3. ASSUME NEW w \in Writers, Kill(w)
      PROVE  IInv'
  BY <1>3, GoneInv DEF Kill
<1>4. QED
  BY <1>1, <1>2, <1>3, PutBytesInv, WriteFailsInv, StepFailsInv, CleanupFailsInv, PowerLossInv
     DEF ArtifactNext

LEMMA StoreInvariant == ArtifactSpec => []IInv
<1>1. ArtifactInit => IInv
  BY InitIInv
<1>2. IInv /\ [ArtifactNext]_artifactVars => IInv'
  BY StepIInv
<1>3. QED
  BY <1>1, <1>2, PTL DEF ArtifactSpec

(* Staging is synced before it is published, and published without replacing:
   a digest names one whole artifact at every instant and after every power
   loss, and what was secured is there. *)
THEOREM ArtifactsAlwaysDurable == ArtifactSpec => []ArtifactsDurable
<1>1. IInv => PublishedWhole
  <2> SUFFICES ASSUME IInv, NEW p \in Payloads
               PROVE  Cardinality(Published(p)) <= 1 /\ \A d \in Published(p) : Whole(d)
    BY DEF PublishedWhole
  <2>1. \A d \in Published(p) : d \in PublishedDirs /\ dirs[d].digest = p
    BY DEF Published, PublishedDirs
  <2>2. Published(p) = {} \/ \E d : Published(p) = {d}
    BY <2>1 DEF IInv, PublishedOnce
  <2>3. Cardinality(Published(p)) <= 1
    <3>1. CASE Published(p) = {}
      BY <3>1, FS_EmptySet
    <3>2. ASSUME NEW d, Published(p) = {d}
          PROVE  Cardinality(Published(p)) <= 1
      <4>1. Cardinality({d}) = 1
        BY FS_Singleton, Zenon
      <4>2. QED
        BY <3>2, <4>1
    <3>3. QED
      BY <2>2, <3>1, <3>2
  <2>4. QED
    BY <2>1, <2>3 DEF IInv, PublishedSynced
<1>2. IInv => ArtifactsDurable
  BY <1>1 DEF IInv, ArtifactsDurable
<1>3. QED
  BY <1>2, StoreInvariant, PTL

-----------------------------------------------------------------------------
(* The abstract store, as the refinement mapping reads it off the tree: f is
   what the directories hold, D those that have a digest for a name. *)
DigestsOf(f, D) == {f[d].digest : d \in D}
StoredOf(f, D) ==
    [p \in DigestsOf(f, D) |-> f[CHOOSE d \in D : f[d].digest = p].media]
SyncedDirs == {d \in 1..made : onDisk[d] = "digest"}

LEMMA StoredMedia ==
  ASSUME NEW f, NEW D, \A d, e \in D : f[d].digest = f[e].digest => d = e
  PROVE  /\ DOMAIN StoredOf(f, D) = DigestsOf(f, D)
         /\ \A d \in D : StoredOf(f, D)[f[d].digest] = f[d].media
         /\ StoredOf(f, D) = [p \in DigestsOf(f, D) |-> StoredOf(f, D)[p]]
<1>1. ASSUME NEW d \in D
      PROVE  (CHOOSE e \in D : f[e].digest = f[d].digest) = d
  OBVIOUS
<1>2. QED
  BY <1>1 DEF StoredOf, DigestsOf

(* Directories that keep their name, payload and media type. *)
LEMMA StoredSame ==
  ASSUME NEW f, NEW g, NEW D,
         \A d, e \in D : f[d].digest = f[e].digest => d = e,
         \A d \in D : g[d].digest = f[d].digest /\ g[d].media = f[d].media
  PROVE  StoredOf(g, D) = StoredOf(f, D) /\ DigestsOf(g, D) = DigestsOf(f, D)
<1>1. DigestsOf(g, D) = DigestsOf(f, D)
  BY DEF DigestsOf
<1>2. ASSUME NEW p \in DigestsOf(f, D)
      PROVE  StoredOf(g, D)[p] = StoredOf(f, D)[p]
  <2>1. PICK d \in D : f[d].digest = p
    BY DEF DigestsOf
  <2>2. StoredOf(f, D)[p] = f[d].media /\ StoredOf(g, D)[p] = g[d].media
    BY <2>1, StoredMedia
  <2>3. QED
    BY <2>2
<1>3. QED
  BY <1>1, <1>2 DEF StoredOf

Quiet == UNCHANGED <<StoredOf(dirs, PublishedDirs), DigestsOf(dirs, SyncedDirs), returned>>

LEMMA QuietStutters ==
  ASSUME Quiet
  PROVE  [Store!StoreNext]_(Store!storeVars)
  BY DEF Quiet, Store!storeVars, StoredOf, DigestsOf, SyncedDirs

(* A step that gives no digest to a directory and takes none. *)
LEMMA TreeQuiet ==
  ASSUME IInv, UNCHANGED <<PublishedDirs, SyncedDirs, returned>>,
         \A d \in PublishedDirs : dirs'[d].digest = dirs[d].digest /\ dirs'[d].media = dirs[d].media
  PROVE  Quiet
<1>1. SyncedDirs \subseteq PublishedDirs
  BY DEF SyncedDirs, PublishedDirs, IInv, DiskFollows
<1>2. DigestsOf(dirs', SyncedDirs) = DigestsOf(dirs, SyncedDirs)
  BY <1>1 DEF DigestsOf
<1>3. StoredOf(dirs', PublishedDirs) = StoredOf(dirs, PublishedDirs)
  BY StoredSame DEF IInv, PublishedOnce
<1>4. QED
  BY <1>2, <1>3 DEF Quiet

(* A step that writes into a directory or removes one, under its temporary
   name. *)
LEMMA OwnQuiet ==
  ASSUME IInv, NEW d, name[d] # "digest" \/ d \notin 1..made,
         UNCHANGED <<made, onDisk, returned>>,
         \A e \in 1..made : e # d => dirs'[e] = dirs[e] /\ name'[e] = name[e],
         d \in 1..made => name'[d] # "digest"
  PROVE  Quiet
<1>1. PublishedDirs' = PublishedDirs /\ \A e \in PublishedDirs : e # d /\ dirs'[e] = dirs[e]
  BY DEF PublishedDirs
<1>2. SyncedDirs' = SyncedDirs
  BY DEF SyncedDirs
<1>3. QED
  BY <1>1, <1>2, TreeQuiet

LEMMA FillQuiet ==
  ASSUME IInv, NEW w \in Writers,
         \/ \E file \in Files, next \in {"manifest", "sync"} : WriteFile(w, file, next)
         \/ \E file \in Files : WriteFails(w, file)
         \/ SyncStaging(w)
         \/ Cleanup(w)
         \/ CleanupFails(w)
  PROVE  Quiet
<1> DEFINE d == writer[w].dir
<1>1. CASE Cleanup(w) /\ name[d] # "temp"
  <2>1. UNCHANGED <<PublishedDirs, SyncedDirs, returned, dirs>>
    BY <1>1 DEF Cleanup, PublishedDirs, SyncedDirs
  <2>2. QED
    BY <2>1, TreeQuiet
<1>2. CASE ~(Cleanup(w) /\ name[d] # "temp")
  <2>1. writer[w].pc \in Owning /\ name[d] = "temp"
    BY <1>2 DEF WriteFile, WriteFails, SyncStaging, Cleanup, CleanupFails, Files, Owning, Filling,
                IInv, OwnDirs, OwnDir
  <2>2. d \in 1..made
    BY <2>1 DEF IInv, OwnDirs, OwnDir
  <2>3. UNCHANGED <<made, onDisk, returned>>
    BY <1>2 DEF WriteFile, WriteFails, SyncStaging, Cleanup, CleanupFails
  <2>4. \A e \in 1..made : e # d => dirs'[e] = dirs[e] /\ name'[e] = name[e]
    BY <1>2, <2>1, <2>2 DEF WriteFile, WriteFails, SyncStaging, Cleanup, CleanupFails, IInv, Typed
  <2>5. name'[d] # "digest"
    BY <1>2, <2>1, <2>2 DEF WriteFile, WriteFails, SyncStaging, Cleanup, CleanupFails, IInv, Typed
  <2>6. name[d] # "digest"
    BY <2>1
  <2> HIDE DEF d
  <2>7. QED
    BY <2>3, <2>4, <2>5, <2>6, SMTT(30), OwnQuiet
<1>3. QED
  BY <1>1, <1>2

LEMMA StageQuiet ==
  ASSUME IInv, NEW w \in Writers, Stage(w)
  PROVE  Quiet
<1>1. made' = made + 1 /\ made \in Nat
  BY DEF Stage, IInv, Typed
<1>2. \A e \in 1..made : /\ e \in 1..made' /\ e # made'
                         /\ dirs'[e] = dirs[e] /\ name'[e] = name[e] /\ onDisk'[e] = onDisk[e]
  BY <1>1 DEF Stage
<1>3. 1..made' = 1..made \cup {made'} /\ name'[made'] = "temp" /\ onDisk'[made'] = "none"
  BY <1>1 DEF Stage
<1>4. PublishedDirs' = PublishedDirs /\ SyncedDirs' = SyncedDirs
  BY <1>2, <1>3 DEF PublishedDirs, SyncedDirs
<1>5. \A d \in PublishedDirs : dirs'[d] = dirs[d]
  BY <1>2 DEF PublishedDirs
<1>6. QED
  BY <1>4, <1>5, TreeQuiet DEF Stage

(* The exclusive rename is the abstract addition, when it succeeds. *)
LEMMA PublishRefines ==
  ASSUME IInv, NEW w \in Writers, Publish(w)
  PROVE  [Store!StoreNext]_(Store!storeVars)
<1> DEFINE d == writer[w].dir
<1>0. PICK p \in Payloads, m \in MediaTypes : p = writer[w].payload /\ m = writer[w].media
  BY DEF Publish, IInv, OwnDirs, OwnDir
<1>1. /\ d \in 1..made /\ name[d] = "temp" /\ dirs[d].digest = p /\ dirs[d].media = m
      /\ UNCHANGED <<dirs, made, onDisk, returned>>
  BY <1>0 DEF Publish, IInv, OwnDirs, OwnDir, Owning, Filling
<1>2. CASE Published(p) # {}
  <2>1. Quiet
    BY <1>0, <1>1, <1>2, TreeQuiet DEF Publish, PublishedDirs, SyncedDirs
  <2>2. QED
    BY <2>1, QuietStutters
<1>3. CASE Published(p) = {}
  <2>1. name' = [name EXCEPT ![d] = "digest"]
    BY <1>0, <1>3 DEF Publish
  <2>2. PublishedDirs' = PublishedDirs \cup {d} /\ \A e \in PublishedDirs : dirs[e].digest # p
    BY <1>1, <1>3, <2>1 DEF PublishedDirs, Published, IInv, Typed
  <2>3. SyncedDirs' = SyncedDirs
    BY <1>1 DEF SyncedDirs
  <2> DEFINE D == PublishedDirs
             E == PublishedDirs \cup {d}
  <2>4. /\ \A a, b \in D : dirs[a].digest = dirs[b].digest => a = b
        /\ \A a, b \in E : dirs[a].digest = dirs[b].digest => a = b
    BY <1>1, <2>2 DEF IInv, PublishedOnce
  <2>5. DigestsOf(dirs, E) = DigestsOf(dirs, D) \cup {p} /\ p \notin DigestsOf(dirs, D)
    BY <1>1, <2>2 DEF DigestsOf
  <2>6. /\ DOMAIN StoredOf(dirs, D) = DigestsOf(dirs, D)
        /\ \A e \in D : StoredOf(dirs, D)[dirs[e].digest] = dirs[e].media
        /\ \A e \in E : StoredOf(dirs, E)[dirs[e].digest] = dirs[e].media
        /\ StoredOf(dirs, E) = [q \in DigestsOf(dirs, E) |-> StoredOf(dirs, E)[q]]
    <3> HIDE DEF D, E
    <3>1. QED
      BY <2>4, StoredMedia
  <2> HIDE DEF D, E
  <2>7. \A q \in DigestsOf(dirs, E) :
           StoredOf(dirs, E)[q] = IF q = p THEN m ELSE StoredOf(dirs, D)[q]
    <3> SUFFICES ASSUME NEW q \in DigestsOf(dirs, E)
                 PROVE  StoredOf(dirs, E)[q] = IF q = p THEN m ELSE StoredOf(dirs, D)[q]
      OBVIOUS
    <3>1. PICK e \in E : dirs[e].digest = q
      BY DEF DigestsOf
    <3>2. CASE e = d
      BY <1>1, <2>6, <3>1, <3>2
    <3>3. CASE e # d
      BY <2>2, <2>6, <3>1, <3>3 DEF D, E
    <3>4. QED
      BY <3>2, <3>3
  <2>8. StoredOf(dirs, E) = [q \in DOMAIN StoredOf(dirs, D) \cup {p} |->
                               IF q = p THEN m ELSE StoredOf(dirs, D)[q]]
    BY <2>5, <2>6, <2>7
  <2>9. /\ StoredOf(dirs, PublishedDirs)' = StoredOf(dirs, E)
        /\ DigestsOf(dirs, SyncedDirs)' = DigestsOf(dirs, SyncedDirs)
    BY <1>1, <2>2, <2>3 DEF StoredOf, DigestsOf, E
  <2>10. Store!Add(p, m)
    BY <1>1, <2>5, <2>6, <2>8, <2>9 DEF Store!Add, StoredOf, DigestsOf, SyncedDirs, D
  <2>11. QED
    BY <2>10 DEF Store!StoreNext
<1>4. QED
  BY <1>2, <1>3

(* Syncing the root secures all that is stored. *)
LEMMA SyncRootRefines ==
  ASSUME IInv, NEW w \in Writers, SyncRoot(w)
  PROVE  [Store!StoreNext]_(Store!storeVars)
<1>1. UNCHANGED <<dirs, made, name, returned>> /\ onDisk' = name
  BY DEF SyncRoot
<1>2. PublishedDirs' = PublishedDirs /\ SyncedDirs' = PublishedDirs
  BY <1>1 DEF PublishedDirs, SyncedDirs
<1>3. /\ StoredOf(dirs, PublishedDirs)' = StoredOf(dirs, PublishedDirs)
      /\ DigestsOf(dirs, SyncedDirs)' = DOMAIN StoredOf(dirs, PublishedDirs)
  BY <1>1, <1>2 DEF StoredOf, DigestsOf
<1>4. Store!Secure
  BY <1>1, <1>3 DEF Store!Secure, StoredOf, DigestsOf, SyncedDirs
<1>5. QED
  BY <1>4 DEF Store!StoreNext

(* A call hands out the reference of what is stored. *)
LEMMA PutReturnsRefines ==
  ASSUME IInv, NEW w \in Writers, PutReturns(w)
  PROVE  [Store!StoreNext]_(Store!storeVars)
<1>1. UNCHANGED <<dirs, made, name, onDisk>>
  BY DEF PutReturns, diskVars
<1>2. UNCHANGED <<PublishedDirs, SyncedDirs>>
  BY <1>1 DEF PublishedDirs, SyncedDirs
<1>3. CASE writer[w].ref = NoDir
  <2>1. Quiet
    BY <1>1, <1>2, <1>3, TreeQuiet DEF PutReturns
  <2>2. QED
    BY <2>1, QuietStutters
<1>4. CASE writer[w].ref # NoDir
  <2>1. PICK d \in PublishedDirs : writer[w].ref = <<dirs[d].digest, dirs[d].media>>
    BY <1>4 DEF IInv, References
  <2>2. /\ dirs[d].digest \in DOMAIN StoredOf(dirs, PublishedDirs)
        /\ StoredOf(dirs, PublishedDirs)[dirs[d].digest] = dirs[d].media
        /\ dirs[d].digest \in Payloads
    <3>1. \A e, f \in PublishedDirs : dirs[e].digest = dirs[f].digest => e = f
      BY DEF IInv, PublishedOnce
    <3>2. dirs[d].digest \in DigestsOf(dirs, PublishedDirs)
      BY DEF DigestsOf
    <3>3. dirs[d].digest \in Payloads
      BY DEF IInv, Typed, Directory, PublishedDirs
    <3>4. QED
      BY <3>1, <3>2, <3>3, StoredMedia
  <2>3. returned' = returned \cup
          {<<dirs[d].digest, StoredOf(dirs, PublishedDirs)[dirs[d].digest]>>}
    BY <1>4, <2>1, <2>2 DEF PutReturns
  <2>4. UNCHANGED <<StoredOf(dirs, PublishedDirs), DigestsOf(dirs, SyncedDirs)>>
    BY <1>1, <1>2 DEF StoredOf, DigestsOf
  <2>5. Store!Return(dirs[d].digest)
    BY <2>2, <2>3, <2>4 DEF Store!Return, StoredOf, DigestsOf, SyncedDirs
  <2>6. QED
    BY <2>2, <2>5 DEF Store!StoreNext
<1>5. QED
  BY <1>3, <1>4

(* A power loss keeps at least what was secured, and is the abstract loss of
   the rest. *)
LEMMA PowerLossRefines ==
  ASSUME IInv, PowerLoss
  PROVE  [Store!StoreNext]_(Store!storeVars)
<1> DEFINE D == PublishedDirs
           E == PublishedDirs'
<1>0. PICK kept : kept = DigestsOf(dirs, E)
  OBVIOUS
<1>1. /\ \A d \in 1..made : name'[d] \in {name[d], onDisk[d]}
      /\ onDisk' = name' /\ made' = made
      /\ returned' = {ref \in returned : \E d \in 1..made :
                        name'[d] = "digest" /\ dirs[d].digest = ref[1]}
  BY DEF PowerLoss
<1>2. \A d \in 1..made : dirs'[d].digest = dirs[d].digest /\ dirs'[d].media = dirs[d].media
  <2>1. PICK found \in [1..made -> [Files -> States]] :
          dirs' = [d \in 1..made |->
                     [dirs[d] EXCEPT !.files = found[d], !.synced = Files, !.listed = TRUE]]
    BY DEF PowerLoss, States
  <2>2. \A d \in 1..made : dirs[d] \in Directory
    BY DEF IInv, Typed
  <2>3. QED
    BY <2>1, <2>2 DEF Directory
<1>3. /\ E = {d \in 1..made : name'[d] = "digest"}
      /\ E \subseteq D /\ SyncedDirs \subseteq E /\ SyncedDirs' = E /\ D \subseteq 1..made
  BY <1>1 DEF PublishedDirs, SyncedDirs, IInv, DiskFollows
<1> HIDE DEF D, E
<1>4. /\ \A d, e \in D : dirs[d].digest = dirs[e].digest => d = e
      /\ \A d, e \in E : dirs[d].digest = dirs[e].digest => d = e
      /\ \A d \in E : dirs'[d].digest = dirs[d].digest /\ dirs'[d].media = dirs[d].media
  BY <1>2, <1>3 DEF IInv, PublishedOnce, D
<1>5. StoredOf(dirs', E) = StoredOf(dirs, E) /\ DigestsOf(dirs', E) = kept
  BY <1>0, <1>4, StoredSame
<1>6. StoredOf(dirs, E) = [p \in kept |-> StoredOf(dirs, D)[p]]
  <2>1. ASSUME NEW p \in kept
        PROVE  StoredOf(dirs, E)[p] = StoredOf(dirs, D)[p]
    <3>1. PICK d \in E : dirs[d].digest = p
      BY <1>0 DEF DigestsOf
    <3>2. StoredOf(dirs, E)[p] = dirs[d].media
      BY <1>4, <3>1, StoredMedia
    <3>3. StoredOf(dirs, D)[p] = dirs[d].media
      BY <1>3, <1>4, <3>1, StoredMedia
    <3>4. QED
      BY <3>2, <3>3
  <2>2. StoredOf(dirs, E) = [p \in kept |-> StoredOf(dirs, E)[p]]
    BY <1>0, <1>4, StoredMedia
  <2>3. QED
    BY <2>1, <2>2
<1>7. /\ DigestsOf(dirs, SyncedDirs) \subseteq kept
      /\ kept \subseteq DigestsOf(dirs, D)
      /\ DOMAIN StoredOf(dirs, D) = DigestsOf(dirs, D)
  BY <1>0, <1>3 DEF DigestsOf, StoredOf
<1>8. kept \in SUBSET Payloads
  <2>1. \A d \in 1..made : dirs[d] \in Directory
    BY DEF IInv, Typed
  <2>2. QED
    BY <1>0, <1>3, <2>1 DEF DigestsOf, Directory
<1>9. returned' = {ref \in returned : ref[1] \in kept}
  BY <1>0, <1>1, <1>3 DEF DigestsOf
<1>10. /\ StoredOf(dirs, PublishedDirs)' = Restrict(StoredOf(dirs, PublishedDirs), kept)
       /\ DigestsOf(dirs, SyncedDirs)' = kept
  <2>1. StoredOf(dirs, PublishedDirs)' = StoredOf(dirs', E)
    BY DEF StoredOf, DigestsOf, E
  <2>2. DigestsOf(dirs, SyncedDirs)' = DigestsOf(dirs', E)
    BY <1>3 DEF DigestsOf
  <2>3. QED
    BY <1>5, <1>6, <2>1, <2>2 DEF Restrict, D
<1>11. Store!Lose(kept)
  BY <1>7, <1>9, <1>10
     DEF Store!Lose, Store!Restrict, Restrict, StoredOf, DigestsOf, SyncedDirs, D
<1>12. QED
  BY <1>8, <1>11 DEF Store!StoreNext

(* "Persist payloads once under their SHA-256 digest": whatever the processes
   do, and whatever fails, is killed or loses power, the directory tree is a
   content-addressed store. *)
THEOREM TreeIsStore == ArtifactSpec => ImplementsStore
<1>1. ArtifactInit => Store!StoreInit
  <2> SUFFICES ASSUME ArtifactInit
               PROVE  Store!StoreInit
    OBVIOUS
  <2>1. PublishedDirs = {} /\ SyncedDirs = {} /\ returned = {}
    BY DEF ArtifactInit, PublishedDirs, SyncedDirs
  <2>2. StoredOf(dirs, PublishedDirs) = <<>> /\ DigestsOf(dirs, SyncedDirs) = {}
    BY <2>1 DEF StoredOf, DigestsOf
  <2>3. QED
    BY <2>1, <2>2 DEF Store!StoreInit, StoredOf, DigestsOf, SyncedDirs
<1>2. IInv /\ [ArtifactNext]_artifactVars => [Store!StoreNext]_(Store!storeVars)
  <2> SUFFICES ASSUME IInv, [ArtifactNext]_artifactVars
               PROVE  [Store!StoreNext]_(Store!storeVars)
    OBVIOUS
  <2>1. CASE UNCHANGED <<diskVars, returned>>
    <3>1. UNCHANGED <<PublishedDirs, SyncedDirs, dirs, returned>>
      BY <2>1 DEF PublishedDirs, SyncedDirs, diskVars
    <3>2. QED
      BY <3>1, TreeQuiet, QuietStutters
  <2>2. ASSUME NEW w \in Writers, PutStep(w)
        PROVE  [Store!StoreNext]_(Store!storeVars)
    <3>1. CASE ProbeFinds(w) \/ Reuse(w)
      BY <2>1, <3>1 DEF ProbeFinds, Reuse
    <3>2. CASE \/ WriteFile(w, "payload", "manifest") \/ WriteFile(w, "manifest", "sync")
               \/ SyncStaging(w) \/ Cleanup(w)
      BY <3>2, FillQuiet, QuietStutters DEF Files
    <3>3. CASE Stage(w)
      BY <3>3, StageQuiet, QuietStutters
    <3>4. QED
      BY <2>2, <3>1, <3>2, <3>3, PublishRefines, SyncRootRefines, PutReturnsRefines DEF PutStep
  <2>3. ASSUME NEW w \in Writers,
               \/ \E call \in Calls(w) : PutBytes(w, call[1], call[2])
               \/ StepFails(w) \/ Kill(w)
        PROVE  [Store!StoreNext]_(Store!storeVars)
    BY <2>1, <2>3 DEF PutBytes, StepFails, Kill
  <2>4. ASSUME NEW w \in Writers, CleanupFails(w) \/ \E f \in Files : WriteFails(w, f)
        PROVE  [Store!StoreNext]_(Store!storeVars)
    BY <2>4, FillQuiet, QuietStutters
  <2>5. CASE UNCHANGED artifactVars
    BY <2>1, <2>5 DEF artifactVars
  <2>6. QED
    BY <2>2, <2>3, <2>4, <2>5, PowerLossRefines DEF ArtifactNext
<1>3. QED
  BY <1>1, <1>2, StoreInvariant, PTL DEF ArtifactSpec, ImplementsStore, Store!StoreSpec
-----------------------------------------------------------------------------
(***************************************************************************)
(* FEATURE STATE                                                            *)
(*                                                                          *)
(* What one cohort, one call and one restart make of a state.               *)
(***************************************************************************)
(* The three orders the feature state sorts by. *)
InTime(S) == {p \in S \X S : p[1] < p[2]}
InBefore(S) == {p \in S \X S : Before(p[1], p[2])}
InId(S) == {p \in S \X S : ById(p[1], p[2])}

(* Observations under ids of their own. *)
Identified(S) ==
    /\ S \subseteq Events /\ IsFiniteSet(S)
    /\ \A e, f \in S : e.id = f.id => e = f

LEMMA SortedTimes ==
    ASSUME NEW S \in SUBSET Nat, IsFiniteSet(S)
    PROVE  Lists(Sorted(S, <), S, InTime(S))
<1> DEFINE R == InTime(S)
           q == Sorted(S, <)
<1>1. \A e, f \in S : <<e, f>> \in R <=> e < f
  BY DEF InTime
<1> HIDE DEF R
<1>2. Orders(R, S)
  BY <1>1 DEF Orders
<1>3. \A e \in S : {f \in S : f < e} = Below(R, S, e)
  BY <1>1 DEF Below
<1>4. q = [i \in 1..Cardinality(S) |-> CHOOSE e \in S : Cardinality({f \in S : f < e}) = i - 1]
  BY DEF Sorted
<1>5. ASSUME NEW i \in 1..Cardinality(S), \E e \in S : Rank(R, S, e) = i - 1
      PROVE  q[i] \in S /\ Rank(R, S, q[i]) = i - 1
  <2>1. \E e \in S : Cardinality({f \in S : f < e}) = i - 1
    BY <1>3, <1>5 DEF Rank
  <2>2. q[i] = CHOOSE e \in S : Cardinality({f \in S : f < e}) = i - 1
    BY <1>4
  <2>3. q[i] \in S /\ Cardinality({f \in S : f < q[i]}) = i - 1
    BY <2>1, <2>2, Zenon
  <2> QED  BY <1>3, <2>3 DEF Rank
<1>6. q = [i \in 1..Cardinality(S) |-> q[i]]
  BY <1>4
<1> HIDE DEF q
<1>7. Lists(q, S, R)
  BY <1>2, <1>5, <1>6, ListsAll
<1> QED  BY <1>7 DEF q, R

LEMMA SortedBefore ==
    ASSUME NEW S, Identified(S)
    PROVE  Orders(InBefore(S), S) /\ Lists(Sorted(S, Before), S, InBefore(S))
<1> DEFINE R == InBefore(S)
           q == Sorted(S, Before)
<1>1. \A e, f \in S : <<e, f>> \in R <=> Before(e, f)
  BY DEF InBefore
<1> HIDE DEF R
<1>2. Orders(R, S)
  <2>1. \A e \in S : e.at \in Nat /\ e.id \in Nat
    BY EventsTyped DEF Identified
  <2>2. \A e, f \in S : Before(e, f) <=> e.at < f.at \/ (e.at = f.at /\ e.id < f.id)
    BY DEF Before
  <2>3. \A e, f \in S : e.id = f.id => e = f
    BY DEF Identified
  <2>4. \A e, f \in S : Before(e, f) => ~Before(f, e)
    BY <2>1, <2>2
  <2>5. \A e, f, g \in S : Before(e, f) /\ Before(f, g) => Before(e, g)
    BY <2>1, <2>2
  <2>6. \A e, f \in S : e = f \/ Before(e, f) \/ Before(f, e)
    BY <2>1, <2>2, <2>3
  <2> QED  BY <1>1, <2>4, <2>5, <2>6 DEF Orders
<1>3. \A e \in S : {f \in S : Before(f, e)} = Below(R, S, e)
  BY <1>1 DEF Below
<1>4. q = [i \in 1..Cardinality(S) |-> CHOOSE e \in S : Cardinality({f \in S : Before(f, e)}) = i - 1]
  BY DEF Sorted
<1>5. ASSUME NEW i \in 1..Cardinality(S), \E e \in S : Rank(R, S, e) = i - 1
      PROVE  q[i] \in S /\ Rank(R, S, q[i]) = i - 1
  <2>1. \E e \in S : Cardinality({f \in S : Before(f, e)}) = i - 1
    BY <1>3, <1>5 DEF Rank
  <2>2. q[i] = CHOOSE e \in S : Cardinality({f \in S : Before(f, e)}) = i - 1
    BY <1>4
  <2>3. q[i] \in S /\ Cardinality({f \in S : Before(f, q[i])}) = i - 1
    BY <2>1, <2>2, Zenon
  <2> QED  BY <1>3, <2>3 DEF Rank
<1>6. q = [i \in 1..Cardinality(S) |-> q[i]]
  BY <1>4
<1> HIDE DEF q
<1>7. Lists(q, S, R)
  BY <1>2, <1>5, <1>6, ListsAll DEF Identified
<1> QED  BY <1>2, <1>7 DEF q, R

LEMMA SortedById ==
    ASSUME NEW S, Identified(S)
    PROVE  Lists(Sorted(S, ById), S, InId(S))
<1> DEFINE R == InId(S)
           q == Sorted(S, ById)
<1>1. \A e, f \in S : <<e, f>> \in R <=> ById(e, f)
  BY DEF InId
<1> HIDE DEF R
<1>2. Orders(R, S)
  <2>1. \A e \in S : e.id \in Nat
    BY EventsTyped DEF Identified
  <2>2. \A e, f \in S : e.id = f.id => e = f
    BY DEF Identified
  <2> QED  BY <1>1, <2>1, <2>2 DEF Orders, ById
<1>3. \A e \in S : {f \in S : ById(f, e)} = Below(R, S, e)
  BY <1>1 DEF Below
<1>4. q = [i \in 1..Cardinality(S) |-> CHOOSE e \in S : Cardinality({f \in S : ById(f, e)}) = i - 1]
  BY DEF Sorted
<1>5. ASSUME NEW i \in 1..Cardinality(S), \E e \in S : Rank(R, S, e) = i - 1
      PROVE  q[i] \in S /\ Rank(R, S, q[i]) = i - 1
  <2>1. \E e \in S : Cardinality({f \in S : ById(f, e)}) = i - 1
    BY <1>3, <1>5 DEF Rank
  <2>2. q[i] = CHOOSE e \in S : Cardinality({f \in S : ById(f, e)}) = i - 1
    BY <1>4
  <2>3. q[i] \in S /\ Cardinality({f \in S : ById(f, q[i])}) = i - 1
    BY <2>1, <2>2, Zenon
  <2> QED  BY <1>3, <2>3 DEF Rank
<1>6. q = [i \in 1..Cardinality(S) |-> q[i]]
  BY <1>4
<1> HIDE DEF q
<1>7. Lists(q, S, R)
  BY <1>2, <1>5, <1>6, ListsAll DEF Identified
<1> QED  BY <1>7 DEF q, R

LEMMA Joined ==
    ASSUME NEW p, IsSequence(p), NEW q, IsSequence(q)
    PROVE  /\ Len(p) \in Nat /\ Len(q) \in Nat
           /\ DOMAIN p = 1..Len(p) /\ DOMAIN q = 1..Len(q)
           /\ IsSequence(p \o q)
           /\ DOMAIN (p \o q) = 1..(Len(p) + Len(q))
           /\ \A i \in 1..Len(p) : (p \o q)[i] = p[i]
           /\ \A i \in 1..Len(q) : (p \o q)[Len(p) + i] = q[i]
           /\ ToSet(p \o q) = ToSet(p) \cup ToSet(q)
<1>1. PICK S : p \in Seq(S)
  BY DEF IsSequence
<1>2. PICK T : q \in Seq(T)
  BY DEF IsSequence
<1> DEFINE U == S \cup T
<1>3. p \in Seq(U) /\ q \in Seq(U)
  <2>1. S \subseteq U /\ T \subseteq U
    OBVIOUS
  <2> HIDE DEF U
  <2> QED  BY <1>1, <1>2, <2>1, SeqMonotonic
<1> HIDE DEF U
<1>4. /\ Len(p) \in Nat /\ Len(q) \in Nat
      /\ DOMAIN p = 1..Len(p) /\ DOMAIN q = 1..Len(q)
  BY <1>3, LenProperties
<1>5. /\ p \o q \in Seq(U) /\ Len(p \o q) = Len(p) + Len(q)
      /\ \A i \in 1..(Len(p) + Len(q)) :
            (p \o q)[i] = IF i <= Len(p) THEN p[i] ELSE q[i - Len(p)]
  BY <1>3, ConcatProperties
<1>6. DOMAIN (p \o q) = 1..(Len(p) + Len(q))
  BY <1>5, LenProperties
<1>7. \A i \in 1..Len(p) : (p \o q)[i] = p[i]
  BY <1>4, <1>5
<1>8. \A i \in 1..Len(q) : (p \o q)[Len(p) + i] = q[i]
  <2> SUFFICES ASSUME NEW i \in 1..Len(q) PROVE (p \o q)[Len(p) + i] = q[i]
    OBVIOUS
  <2>1. Len(p) + i \in 1..(Len(p) + Len(q)) /\ ~(Len(p) + i <= Len(p)) /\ (Len(p) + i) - Len(p) = i
    BY <1>4
  <2> QED  BY <1>5, <2>1
<1>9. \A i \in 1..(Len(p) + Len(q)) : i \in 1..Len(p) \/ \E k \in 1..Len(q) : i = Len(p) + k
  <2> SUFFICES ASSUME NEW i \in 1..(Len(p) + Len(q)), i \notin 1..Len(p)
               PROVE  \E k \in 1..Len(q) : i = Len(p) + k
    OBVIOUS
  <2>1. i - Len(p) \in 1..Len(q) /\ i = Len(p) + (i - Len(p))
    BY <1>4
  <2> QED  BY <2>1
<1>10. \A i \in 1..Len(p) : i \in 1..(Len(p) + Len(q))
  BY <1>4
<1>11. \A i \in 1..Len(q) : Len(p) + i \in 1..(Len(p) + Len(q))
  BY <1>4
<1>12. ToSet(p \o q) = ToSet(p) \cup ToSet(q)
  <2>1. \A x : x \in ToSet(p \o q) <=> \E i \in 1..(Len(p) + Len(q)) : (p \o q)[i] = x
    BY <1>6 DEF ToSet
  <2>2. \A x : x \in ToSet(p) <=> \E i \in 1..Len(p) : p[i] = x
    BY <1>4 DEF ToSet
  <2>3. \A x : x \in ToSet(q) <=> \E i \in 1..Len(q) : q[i] = x
    BY <1>4 DEF ToSet
  <2>4. \A x : x \in ToSet(p \o q) <=> x \in ToSet(p) \/ x \in ToSet(q)
    <3>1. ASSUME NEW x, x \in ToSet(p \o q) PROVE x \in ToSet(p) \/ x \in ToSet(q)
      <4>1. PICK i \in 1..(Len(p) + Len(q)) : (p \o q)[i] = x
        BY <2>1, <3>1
      <4>2. CASE i \in 1..Len(p)
        BY <1>7, <2>2, <4>1, <4>2
      <4>3. CASE i \notin 1..Len(p)
        <5>1. PICK k \in 1..Len(q) : i = Len(p) + k
          BY <1>9, <4>3
        <5> QED  BY <1>8, <2>3, <4>1, <5>1
      <4> QED  BY <4>2, <4>3
    <3>2. ASSUME NEW x, x \in ToSet(p) PROVE x \in ToSet(p \o q)
      BY <1>7, <1>10, <2>1, <2>2, <3>2
    <3>3. ASSUME NEW x, x \in ToSet(q) PROVE x \in ToSet(p \o q)
      BY <1>8, <1>11, <2>1, <2>3, <3>3
    <3> QED  BY <3>1, <3>2, <3>3
  <2> QED  BY <2>4
<1> QED  BY <1>4, <1>5, <1>6, <1>7, <1>8, <1>12 DEF IsSequence
-----------------------------------------------------------------------------
IsState(s) ==
    s = [known |-> s.known, admitted |-> s.admitted, emitted |-> s.emitted,
         late |-> s.late, watermark |-> s.watermark, rows |-> s.rows]

(* The cohorts, as a function that gives the state after each. *)
Runs(s, times, n, after) ==
    after = [i \in 0..n |-> IF i = 0 THEN s ELSE Cohort(after[i - 1], times[i])]

LEMMA RunsExist ==
    ASSUME NEW s, NEW times
    PROVE  \A n \in Nat : \E after : Runs(s, times, n, after)
<1> DEFINE G == {n \in Nat : \E after : Runs(s, times, n, after)}
<1>1. 0 \in G
  <2> DEFINE h == [i \in 0..0 |-> s]
  <2>1. Runs(s, times, 0, h)
    BY DEF Runs
  <2> QED  BY <2>1
<1>2. ASSUME NEW n \in Nat, n \in G
      PROVE  n + 1 \in G
  <2>1. PICK h : Runs(s, times, n, h)
    BY <1>2
  <2> DEFINE g == [i \in 0..(n + 1) |-> IF i = n + 1 THEN Cohort(h[n], times[n + 1]) ELSE h[i]]
  <2>2. \A i \in 0..n : h[i] = IF i = 0 THEN s ELSE Cohort(h[i - 1], times[i])
    BY <2>1 DEF Runs
  <2>3. \A i \in 0..n : g[i] = h[i]
    OBVIOUS
  <2>4. \A i \in 0..(n + 1) : g[i] = IF i = 0 THEN s ELSE Cohort(g[i - 1], times[i])
    <3> SUFFICES ASSUME NEW i \in 0..(n + 1)
                 PROVE  g[i] = IF i = 0 THEN s ELSE Cohort(g[i - 1], times[i])
      OBVIOUS
    <3>1. CASE i = n + 1
      <4>1. i # 0 /\ i - 1 = n /\ n \in 0..n
        BY <3>1
      <4>2. g[n] = h[n] /\ g[i] = Cohort(h[n], times[i])
        BY <2>3, <3>1, <4>1
      <4> HIDE DEF g
      <4> QED  BY <4>1, <4>2
    <3>2. CASE i # n + 1
      <4>1. i \in 0..n /\ (i # 0 => i - 1 \in 0..n)
        BY <3>2
      <4> QED  BY <2>2, <2>3, <4>1
    <3> QED  BY <3>1, <3>2
  <2>5. g = [i \in 0..(n + 1) |-> g[i]]
    OBVIOUS
  <2> HIDE DEF g
  <2>6. Runs(s, times, n + 1, g)
    BY <2>4, <2>5 DEF Runs
  <2> QED  BY <2>6
<1> HIDE DEF G
<1>3. Nat \subseteq G
  BY <1>1, <1>2, UpwardInduction
<1> QED  BY <1>3 DEF G

LEMMA CohortsRun ==
    ASSUME NEW s, NEW times, Len(times) \in Nat
    PROVE  \E after : /\ after[0] = s
                      /\ \A i \in 1..Len(times) : after[i] = Cohort(after[i - 1], times[i])
                      /\ Cohorts(s, times) = after[Len(times)]
<1> DEFINE n == Len(times)
           a == CHOOSE after : Runs(s, times, n, after)
<1>1. Runs(s, times, n, a)
  BY RunsExist
<1>2. Cohorts(s, times) = a[n]
  BY DEF Cohorts, Runs
<1> HIDE DEF a
<1>3. \A i \in 0..n : a[i] = IF i = 0 THEN s ELSE Cohort(a[i - 1], times[i])
  BY <1>1 DEF Runs
<1>4. a[0] = s /\ \A i \in 1..n : a[i] = Cohort(a[i - 1], times[i])
  BY <1>3
<1> QED  BY <1>2, <1>4

-----------------------------------------------------------------------------
(* Decisions about the same payment. *)
Rivals(d, e) == IsDecision(e) /\ e.payment = d.payment

LEMMA OpeningsOf ==
    ASSUME NEW q, NEW d
    PROVE  d \in Openings(q) <=>
             \E j \in DOMAIN q : /\ q[j] = d /\ IsDecision(d)
                                 /\ \A k \in 1..(j - 1) : ~Rivals(d, q[k])
BY DEF Openings, Rivals

(* Who opened a payment opened it, whatever is admitted later. *)
LEMMA OpeningsJoined ==
    ASSUME NEW p, IsSequence(p), NEW q, IsSequence(q)
    PROVE  Openings(p \o q) =
             Openings(p) \cup {d \in Openings(q) : \A e \in ToSet(p) : ~Rivals(d, e)}
<1>1. /\ Len(p) \in Nat /\ Len(q) \in Nat
      /\ DOMAIN p = 1..Len(p) /\ DOMAIN q = 1..Len(q)
      /\ DOMAIN (p \o q) = 1..(Len(p) + Len(q))
      /\ \A i \in 1..Len(p) : (p \o q)[i] = p[i]
      /\ \A i \in 1..Len(q) : (p \o q)[Len(p) + i] = q[i]
  BY Joined
<1>2. \A e : e \in ToSet(p) <=> \E i \in 1..Len(p) : p[i] = e
  BY <1>1 DEF ToSet
<1>3. ASSUME NEW d, d \in Openings(p \o q)
      PROVE  \/ d \in Openings(p)
             \/ d \in Openings(q) /\ \A e \in ToSet(p) : ~Rivals(d, e)
  <2>1. PICK j \in 1..(Len(p) + Len(q)) :
           /\ (p \o q)[j] = d /\ IsDecision(d)
           /\ \A k \in 1..(j - 1) : ~Rivals(d, (p \o q)[k])
    BY <1>1, <1>3, OpeningsOf
  <2>2. CASE j \in 1..Len(p)
    <3>1. p[j] = d /\ \A k \in 1..(j - 1) : k \in 1..Len(p)
      BY <1>1, <2>1, <2>2
    <3>2. \A k \in 1..(j - 1) : ~Rivals(d, p[k])
      BY <1>1, <2>1, <3>1
    <3> QED  BY <1>1, <2>1, <2>2, <3>1, <3>2, OpeningsOf
  <2>3. CASE j \notin 1..Len(p)
    <3> DEFINE m == j - Len(p)
    <3>1. m \in 1..Len(q) /\ j = Len(p) + m
      BY <1>1, <2>3
    <3>2. q[m] = d
      BY <1>1, <2>1, <3>1
    <3>3. \A k \in 1..(m - 1) : Len(p) + k \in 1..(j - 1) /\ k \in 1..Len(q)
      BY <1>1, <3>1
    <3>4. \A k \in 1..Len(p) : k \in 1..(j - 1)
      BY <1>1, <3>1
    <3> HIDE DEF m
    <3>5. \A k \in 1..(m - 1) : ~Rivals(d, q[k])
      BY <1>1, <2>1, <3>3
    <3>6. \A k \in 1..Len(p) : ~Rivals(d, p[k])
      BY <1>1, <2>1, <3>4
    <3>7. \A e \in ToSet(p) : ~Rivals(d, e)
      BY <1>2, <3>6
    <3>8. d \in Openings(q)
      BY <1>1, <2>1, <3>1, <3>2, <3>5, OpeningsOf
    <3> QED  BY <3>7, <3>8
  <2> QED  BY <2>2, <2>3
<1>4. ASSUME NEW d, d \in Openings(p)
      PROVE  d \in Openings(p \o q)
  <2>1. PICK j \in 1..Len(p) : /\ p[j] = d /\ IsDecision(d)
                               /\ \A k \in 1..(j - 1) : ~Rivals(d, p[k])
    BY <1>1, <1>4, OpeningsOf
  <2>2. j \in 1..(Len(p) + Len(q)) /\ \A k \in 1..(j - 1) : k \in 1..Len(p)
    BY <1>1
  <2>3. (p \o q)[j] = d /\ \A k \in 1..(j - 1) : ~Rivals(d, (p \o q)[k])
    BY <1>1, <2>1, <2>2
  <2> QED  BY <1>1, <2>1, <2>2, <2>3, OpeningsOf
<1>5. ASSUME NEW d, d \in Openings(q), \A e \in ToSet(p) : ~Rivals(d, e)
      PROVE  d \in Openings(p \o q)
  <2>1. PICK j \in 1..Len(q) : /\ q[j] = d /\ IsDecision(d)
                               /\ \A k \in 1..(j - 1) : ~Rivals(d, q[k])
    BY <1>1, <1>5, OpeningsOf
  <2> DEFINE i == Len(p) + j
  <2>2. i \in 1..(Len(p) + Len(q)) /\ (p \o q)[i] = d
    BY <1>1, <2>1
  <2>3. ASSUME NEW k \in 1..(i - 1)
        PROVE  ~Rivals(d, (p \o q)[k])
    <3>1. CASE k \in 1..Len(p)
      BY <1>1, <1>2, <1>5, <3>1
    <3>2. CASE k \notin 1..Len(p)
      <4>1. k - Len(p) \in 1..(j - 1) /\ k - Len(p) \in 1..Len(q) /\ k = Len(p) + (k - Len(p))
        BY <1>1, <3>2
      <4> QED  BY <1>1, <2>1, <4>1
    <3> QED  BY <3>1, <3>2
  <2> HIDE DEF i
  <2> QED  BY <1>1, <2>1, <2>2, <2>3, OpeningsOf
<1> QED  BY <1>3, <1>4, <1>5

(* In a list, whoever is before all its rivals. *)
LEMMA OpeningsListed ==
    ASSUME NEW S, NEW R, Orders(R, S), NEW q, Lists(q, S, R)
    PROVE  Openings(q) = {d \in S : /\ IsDecision(d)
                                    /\ \A e \in S : Rivals(d, e) => e = d \/ <<d, e>> \in R}
<1>1. /\ Len(q) \in Nat /\ DOMAIN q = 1..Len(q)
      /\ \A i \in 1..Len(q) : q[i] \in S
      /\ \A e \in S : \E i \in 1..Len(q) : q[i] = e
      /\ \A i, j \in 1..Len(q) : i < j => <<q[i], q[j]>> \in R
  BY RankInList DEF Lists
<1>2. ASSUME NEW d, d \in Openings(q)
      PROVE  d \in S /\ IsDecision(d) /\ \A e \in S : Rivals(d, e) => e = d \/ <<d, e>> \in R
  <2>1. PICK j \in 1..Len(q) : /\ q[j] = d /\ IsDecision(d)
                               /\ \A k \in 1..(j - 1) : ~Rivals(d, q[k])
    BY <1>1, <1>2, OpeningsOf
  <2>2. ASSUME NEW e \in S, Rivals(d, e)
        PROVE  e = d \/ <<d, e>> \in R
    <3>1. PICK k \in 1..Len(q) : q[k] = e
      BY <1>1
    <3>2. k \notin 1..(j - 1)
      BY <2>1, <2>2, <3>1
    <3>3. k = j \/ j < k
      BY <1>1, <3>2
    <3> QED  BY <1>1, <2>1, <3>1, <3>3
  <2> QED  BY <1>1, <2>1, <2>2
<1>3. ASSUME NEW d \in S, IsDecision(d), \A e \in S : Rivals(d, e) => e = d \/ <<d, e>> \in R
      PROVE  d \in Openings(q)
  <2>1. PICK j \in 1..Len(q) : q[j] = d
    BY <1>1
  <2>2. ASSUME NEW k \in 1..(j - 1), Rivals(d, q[k])
        PROVE  FALSE
    <3>1. k \in 1..Len(q) /\ k < j
      BY <1>1
    <3>2. q[k] \in S /\ <<q[k], d>> \in R
      BY <1>1, <2>1, <3>1
    <3>3. q[k] = d \/ <<d, q[k]>> \in R
      BY <1>3, <2>2, <3>2
    <3> QED  BY <3>2, <3>3 DEF Orders
  <2> QED  BY <1>1, <1>3, <2>1, <2>2, OpeningsOf
<1> QED  BY <1>2, <1>3

-----------------------------------------------------------------------------
(* What a cohort makes of a state. *)
Candidates(s, t) == {e \in s.known \ Admitted(s) : e.at < t /\ e.decide # t}

Due(s, t) == {e \in s.known \ s.emitted : e.decide = t}

Given(s, t) ==
    [i \in DOMAIN Sorted(Due(s, t), ById) |->
        [event |-> Sorted(Due(s, t), ById)[i], admitted |-> ToSet(Admit(s, t)),
         openings |-> Openings(Admit(s, t)), late |-> DOMAIN s.late]]

LEMMA CohortIs ==
    ASSUME NEW s, IsState(s), NEW t
    PROVE  Cohort(s, t) = [known |-> s.known, admitted |-> Admit(s, t),
                           emitted |-> s.emitted \cup Due(s, t), late |-> s.late,
                           watermark |-> t, rows |-> s.rows \o Given(s, t)]
<1> DEFINE opened == [known |-> s.known, admitted |-> Admit(s, t), emitted |-> s.emitted,
                      late |-> s.late, watermark |-> s.watermark, rows |-> s.rows]
           order == Sorted(Due(s, t), ById)
<1>1. [s EXCEPT !.admitted = Admit(s, t)] = opened
  BY DEF IsState
<1>2. Given(s, t) = [i \in DOMAIN order |-> Row(opened, order[i])]
  <2>1. /\ opened.admitted = Admit(s, t) /\ opened.late = s.late
    OBVIOUS
  <2> HIDE DEF opened, order
  <2>2. \A e : Row(opened, e) = [event |-> e, admitted |-> ToSet(Admit(s, t)),
                                openings |-> Openings(Admit(s, t)), late |-> DOMAIN s.late]
    BY <2>1 DEF Row, Admitted
  <2> QED  BY <2>2 DEF Given, order
<1>3. Cohort(s, t) = [opened EXCEPT !.rows = @ \o Given(s, t),
                                    !.emitted = @ \cup Due(s, t),
                                    !.watermark = t]
  BY <1>1, <1>2 DEF Cohort, Due
<1> QED  BY <1>3

(* Strictly before: by the time of the decision, then by its id. *)
Ordered(rows) ==
    \A i, j \in DOMAIN rows : i < j =>
        LET e == rows[i].event
            f == rows[j].event
        IN  e.decide < f.decide \/ (e.decide = f.decide /\ e.id < f.id)

(* Nothing is admitted twice. *)
Unrepeated(q) == \A i, j \in DOMAIN q : q[i] = q[j] => i = j

(* A state in the middle of process(): what it knows, it knows for good; the
   decisions up to the watermark have their rows. *)
Sound(s) ==
    /\ IsState(s)
    /\ Identified(s.known)
    /\ s.watermark \in Nat
    /\ s.emitted = {e \in s.known : IsDecision(e) /\ e.decide <= s.watermark}
    /\ IsSequence(s.admitted) /\ Unrepeated(s.admitted)
    /\ Admitted(s) \cup DOMAIN s.late \subseteq s.known
    /\ \A e \in Admitted(s) \cup DOMAIN s.late : e.at < s.watermark
    /\ IsSequence(s.rows)
    /\ {s.rows[i].event : i \in DOMAIN s.rows} = s.emitted
    /\ Ordered(s.rows)
    /\ \A i \in DOMAIN s.rows : \A e \in s.rows[i].admitted \cup s.rows[i].late :
          e.at < s.rows[i].event.decide

LEMMA ListIsSequence ==
    ASSUME NEW S, NEW R, NEW q, Lists(q, S, R)
    PROVE  /\ IsSequence(q) /\ Len(q) \in Nat /\ DOMAIN q = 1..Len(q)
           /\ ToSet(q) = S
           /\ \A i \in DOMAIN q : q[i] \in S
<1>1. q \in Seq(S)
  BY DEF Lists
<1>2. Len(q) \in Nat /\ DOMAIN q = 1..Len(q) /\ \A i \in 1..Len(q) : q[i] \in S
  BY <1>1, LenProperties, ElementOfSeq
<1>3. \A e \in S : \E i \in 1..Len(q) : q[i] = e
  BY DEF Lists
<1>4. ToSet(q) = S
  BY <1>2, <1>3 DEF ToSet
<1>5. IsSequence(q)
  BY <1>1 DEF IsSequence
<1> QED  BY <1>2, <1>4, <1>5

LEMMA PartIdentified ==
    ASSUME NEW S, Identified(S), NEW T \in SUBSET S
    PROVE  Identified(T)
BY FS_Subset DEF Identified

LEMMA JoinedUnrepeated ==
    ASSUME NEW p, IsSequence(p), Unrepeated(p), NEW q, IsSequence(q), Unrepeated(q),
           \A i \in DOMAIN q : q[i] \notin ToSet(p)
    PROVE  Unrepeated(p \o q)
<1>1. /\ Len(p) \in Nat /\ Len(q) \in Nat
      /\ DOMAIN p = 1..Len(p) /\ DOMAIN q = 1..Len(q)
      /\ DOMAIN (p \o q) = 1..(Len(p) + Len(q))
      /\ \A i \in 1..Len(p) : (p \o q)[i] = p[i]
      /\ \A i \in 1..Len(q) : (p \o q)[Len(p) + i] = q[i]
  BY Joined
<1> DEFINE c == p \o q
<1>2. ASSUME NEW i \in DOMAIN c
      PROVE  \/ i \in DOMAIN p /\ c[i] = p[i] /\ c[i] \in ToSet(p)
             \/ i - Len(p) \in DOMAIN q /\ c[i] = q[i - Len(p)] /\ c[i] \notin ToSet(p)
  <2>1. CASE i <= Len(p)
    <3>1. i \in 1..Len(p)
      BY <1>1, <2>1
    <3> QED  BY <1>1, <3>1 DEF ToSet
  <2>2. CASE ~(i <= Len(p))
    <3>1. i - Len(p) \in 1..Len(q) /\ i = Len(p) + (i - Len(p))
      BY <1>1, <2>2
    <3> QED  BY <1>1, <3>1
  <2> QED  BY <2>1, <2>2
<1>3. DOMAIN c \subseteq Nat
  BY <1>1
<1> HIDE DEF c
<1>4. ASSUME NEW i \in DOMAIN c, NEW j \in DOMAIN c, c[i] = c[j]
      PROVE  i = j
  <2>1. CASE c[i] \in ToSet(p)
    BY <1>2, <1>4, <2>1 DEF Unrepeated
  <2>2. CASE c[i] \notin ToSet(p)
    <3>1. i - Len(p) = j - Len(p)
      BY <1>2, <1>4, <2>2 DEF Unrepeated
    <3> QED  BY <1>1, <1>3, <3>1
  <2> QED  BY <2>1, <2>2
<1> QED  BY <1>4 DEF Unrepeated, c

LEMMA AdmitIs ==
    ASSUME NEW s, Sound(s), NEW t
    PROVE  /\ Identified(Candidates(s, t))
           /\ Lists(Sorted(Candidates(s, t), Before), Candidates(s, t), InBefore(Candidates(s, t)))
           /\ Admit(s, t) = s.admitted \o Sorted(Candidates(s, t), Before)
           /\ IsSequence(Admit(s, t)) /\ Unrepeated(Admit(s, t))
           /\ ToSet(Admit(s, t)) = Admitted(s) \cup Candidates(s, t)
<1>1. Identified(Candidates(s, t))
  BY PartIdentified DEF Sound, Candidates
<1> DEFINE q == Sorted(Candidates(s, t), Before)
<1>2. Lists(q, Candidates(s, t), InBefore(Candidates(s, t)))
  BY <1>1, SortedBefore
<1>3. Admit(s, t) = s.admitted \o q
  BY DEF Admit, Candidates
<1> HIDE DEF q
<1>4. IsSequence(q) /\ ToSet(q) = Candidates(s, t)
  BY <1>2, ListIsSequence
<1>5. IsSequence(s.admitted \o q) /\ ToSet(s.admitted \o q) = ToSet(s.admitted) \cup ToSet(q)
  BY <1>4, Joined DEF Sound
<1>6. Unrepeated(q)
  <2>1. Orders(InBefore(Candidates(s, t)), Candidates(s, t))
    BY <1>1, SortedBefore
  <2> QED  BY <1>2, <2>1, RankInList, ListIsSequence DEF Unrepeated
<1>7. Unrepeated(s.admitted \o q)
  <2>1. \A i \in DOMAIN q : q[i] \notin ToSet(s.admitted)
    BY <1>4 DEF ToSet, Candidates, Admitted
  <2> QED  BY <1>4, <1>6, <2>1, JoinedUnrepeated DEF Sound
<1> QED  BY <1>1, <1>2, <1>3, <1>4, <1>5, <1>7 DEF q, Admitted

(* t is the time of the next decisions. *)
NextTime(s, t) ==
    /\ t \in Nat /\ s.watermark < t
    /\ \A e \in s.known : IsDecision(e) => e.decide <= s.watermark \/ t <= e.decide

LEMMA DueIs ==
    ASSUME NEW s, Sound(s), NEW t, NextTime(s, t)
    PROVE  /\ Due(s, t) = {e \in s.known : e.decide = t}
           /\ \A e \in Due(s, t) : IsDecision(e)
           /\ Lists(Sorted(Due(s, t), ById), Due(s, t), InId(Due(s, t)))
<1>1. \A e \in s.known : e.decide = t => e \notin s.emitted /\ IsDecision(e)
  BY DEF Sound, NextTime, IsDecision
<1>2. Due(s, t) = {e \in s.known : e.decide = t}
  BY <1>1 DEF Due
<1>3. Identified(Due(s, t))
  BY PartIdentified DEF Sound, Due
<1> QED  BY <1>1, <1>2, <1>3, SortedById

LEMMA GivenIs ==
    ASSUME NEW s, Sound(s), NEW t, NextTime(s, t)
    PROVE  /\ IsSequence(Given(s, t))
           /\ Len(Given(s, t)) \in Nat /\ DOMAIN Given(s, t) = 1..Len(Given(s, t))
           /\ {Given(s, t)[i].event : i \in DOMAIN Given(s, t)} = Due(s, t)
           /\ \A i, j \in DOMAIN Given(s, t) : i < j =>
                  Given(s, t)[i].event.id < Given(s, t)[j].event.id
           /\ \A i \in DOMAIN Given(s, t) :
                  Given(s, t)[i] = [event |-> Given(s, t)[i].event,
                                    admitted |-> Admitted(s) \cup Candidates(s, t),
                                    openings |-> Openings(Admit(s, t)),
                                    late |-> DOMAIN s.late]
<1> DEFINE q == Sorted(Due(s, t), ById)
           g == Given(s, t)
           row(e) == [event |-> e, admitted |-> Admitted(s) \cup Candidates(s, t),
                      openings |-> Openings(Admit(s, t)), late |-> DOMAIN s.late]
<1>1. Lists(q, Due(s, t), InId(Due(s, t)))
  BY DueIs
<1>2. g = [i \in DOMAIN q |-> row(q[i])]
  BY AdmitIs DEF Given
<1> HIDE DEF q, g
<1>3. /\ Len(q) \in Nat /\ DOMAIN q = 1..Len(q) /\ ToSet(q) = Due(s, t)
      /\ \A i \in DOMAIN q : q[i] \in Due(s, t)
  BY <1>1, ListIsSequence
<1>4. \A i \in DOMAIN q : g[i].event = q[i] /\ g[i] = row(g[i].event)
  BY <1>2
<1>5. DOMAIN g = DOMAIN q
  BY <1>2
<1>6. g \in Seq({row(e) : e \in Due(s, t)}) /\ Len(g) = Len(q)
  <2>1. g \in [1..Len(q) -> {row(e) : e \in Due(s, t)}]
    BY <1>2, <1>3
  <2> HIDE DEF row
  <2> QED  BY <1>3, <2>1, SeqDef, LenProperties
<1>7. IsSequence(g)
  BY <1>6 DEF IsSequence
<1>8. {g[i].event : i \in DOMAIN g} = Due(s, t)
  <2> HIDE DEF row
  <2>1. {g[i].event : i \in DOMAIN g} = {q[i] : i \in DOMAIN q}
    BY <1>4, <1>5
  <2> QED  BY <1>3, <2>1 DEF ToSet
<1>9. \A i, j \in DOMAIN g : i < j => g[i].event.id < g[j].event.id
  <2> HIDE DEF row
  <2> SUFFICES ASSUME NEW i \in DOMAIN q, NEW j \in DOMAIN q, i < j
               PROVE  g[i].event.id < g[j].event.id
    BY <1>5
  <2>1. <<q[i], q[j]>> \in InId(Due(s, t))
    BY <1>1, <1>3 DEF Lists
  <2>2. ById(q[i], q[j])
    BY <2>1 DEF InId
  <2> QED  BY <1>4, <2>2 DEF ById
<1>10. \A i \in DOMAIN g : g[i] = row(g[i].event)
  BY <1>4, <1>5
<1>11. Len(g) \in Nat /\ DOMAIN g = 1..Len(g)
  BY <1>3, <1>5, <1>6
<1> QED  BY <1>7, <1>8, <1>9, <1>10, <1>11 DEF g

LEMMA CohortSound ==
    ASSUME NEW s, Sound(s), NEW t, NextTime(s, t)
    PROVE  /\ Sound(Cohort(s, t))
           /\ Cohort(s, t).known = s.known
           /\ Cohort(s, t).late = s.late
           /\ Cohort(s, t).watermark = t
<1> DEFINE c == Cohort(s, t)
           g == Given(s, t)
<1>1. c = [known |-> s.known, admitted |-> Admit(s, t),
           emitted |-> s.emitted \cup Due(s, t), late |-> s.late,
           watermark |-> t, rows |-> s.rows \o g]
  BY CohortIs DEF Sound
<1> HIDE DEF c
<1>2. /\ IsState(c) /\ c.known = s.known /\ c.admitted = Admit(s, t) /\ c.late = s.late
      /\ c.emitted = s.emitted \cup Due(s, t) /\ c.watermark = t /\ c.rows = s.rows \o g
  BY <1>1 DEF IsState
<1>3. Identified(c.known) /\ c.watermark \in Nat
  BY <1>2 DEF Sound, NextTime
<1>4. \A e \in s.known : e.decide \in Nat /\ e.id \in Nat /\ e.at \in Nat
  BY EventsTyped DEF Sound, Identified
<1>5. c.emitted = {e \in c.known : IsDecision(e) /\ e.decide <= c.watermark}
  <2>1. /\ \A e \in s.known : e \in Due(s, t) <=> e.decide = t
        /\ \A e \in Due(s, t) : e \in s.known /\ IsDecision(e)
    BY DueIs
  <2>2. s.emitted = {e \in s.known : IsDecision(e) /\ e.decide <= s.watermark}
    BY DEF Sound
  <2>3. /\ t \in Nat /\ s.watermark \in Nat /\ s.watermark < t
        /\ \A e \in s.known : IsDecision(e) => e.decide <= s.watermark \/ t <= e.decide
    BY DEF Sound, NextTime
  <2>4. \A e \in s.known : e \in s.emitted \cup Due(s, t) <=> IsDecision(e) /\ e.decide <= t
    BY <1>4, <2>1, <2>2, <2>3
  <2>5. s.emitted \cup Due(s, t) \subseteq s.known
    BY <2>1, <2>2
  <2>6. s.emitted \cup Due(s, t) = {e \in s.known : IsDecision(e) /\ e.decide <= t}
    BY <2>4, <2>5
  <2> QED  BY <1>2, <2>6
<1>6. /\ IsSequence(c.admitted) /\ Unrepeated(c.admitted)
      /\ Admitted(c) = Admitted(s) \cup Candidates(s, t)
  BY <1>2, AdmitIs DEF Admitted
<1>7. Admitted(c) \cup DOMAIN c.late \subseteq c.known
  BY <1>2, <1>6 DEF Sound, Candidates
<1>8. \A e \in Admitted(s) \cup DOMAIN s.late : e.at < t
  <2> SUFFICES ASSUME NEW e \in Admitted(s) \cup DOMAIN s.late PROVE e.at < t
    OBVIOUS
  <2>1. e.at < s.watermark /\ e \in s.known
    BY DEF Sound
  <2> QED  BY <1>4, <2>1 DEF Sound, NextTime
<1>9. \A e \in Admitted(c) \cup DOMAIN c.late : e.at < t
  BY <1>2, <1>6, <1>8 DEF Candidates
<1>10. /\ Len(s.rows) \in Nat /\ Len(g) \in Nat
       /\ DOMAIN s.rows = 1..Len(s.rows) /\ DOMAIN g = 1..Len(g)
       /\ IsSequence(c.rows)
       /\ DOMAIN c.rows = 1..(Len(s.rows) + Len(g))
       /\ \A i \in 1..Len(s.rows) : c.rows[i] = s.rows[i]
       /\ \A i \in 1..Len(g) : c.rows[Len(s.rows) + i] = g[i]
  <2> HIDE DEF g
  <2> DEFINE p == s.rows
             q == p \o g
  <2>1. IsSequence(p) /\ IsSequence(g)
    BY GivenIs DEF Sound, g
  <2>2. c.rows = q
    BY <1>2
  <2> HIDE DEF p
  <2>3. /\ Len(p) \in Nat /\ Len(g) \in Nat
        /\ DOMAIN p = 1..Len(p) /\ DOMAIN g = 1..Len(g)
        /\ IsSequence(q)
        /\ DOMAIN q = 1..(Len(p) + Len(g))
        /\ \A i \in 1..Len(p) : q[i] = p[i]
        /\ \A i \in 1..Len(g) : q[Len(p) + i] = g[i]
    BY <2>1, Joined
  <2> HIDE DEF q
  <2> QED  BY <2>2, <2>3 DEF p
<1>11. ASSUME NEW i \in DOMAIN c.rows
       PROVE  \/ i \in DOMAIN s.rows /\ c.rows[i] = s.rows[i]
              \/ i - Len(s.rows) \in DOMAIN g /\ c.rows[i] = g[i - Len(s.rows)] /\ i > Len(s.rows)
  <2> HIDE DEF g
  <2>1. CASE i <= Len(s.rows)
    BY <1>10, <2>1
  <2>2. CASE ~(i <= Len(s.rows))
    <3>1. i - Len(s.rows) \in 1..Len(g) /\ i = Len(s.rows) + (i - Len(s.rows)) /\ i > Len(s.rows)
      BY <1>10, <2>2
    <3> QED  BY <1>10, <3>1
  <2> QED  BY <2>1, <2>2
<1>12. /\ {g[i].event : i \in DOMAIN g} = Due(s, t)
       /\ \A i \in DOMAIN g : g[i].event \in Due(s, t) /\ g[i].event.decide = t
       /\ \A i, j \in DOMAIN g : i < j => g[i].event.id < g[j].event.id
       /\ \A i \in DOMAIN g : g[i].admitted = Admitted(c) /\ g[i].late = DOMAIN s.late
  BY <1>6, GivenIs, DueIs
<1>13. \A i \in DOMAIN s.rows :
          /\ s.rows[i].event \in s.emitted
          /\ s.rows[i].event \in s.known /\ s.rows[i].event.decide <= s.watermark
  BY DEF Sound
<1>14. {c.rows[i].event : i \in DOMAIN c.rows} = c.emitted
  <2>1. ASSUME NEW i \in DOMAIN c.rows
        PROVE  c.rows[i].event \in c.emitted
    BY <1>2, <1>11, <1>12, <1>13
  <2>2. ASSUME NEW e \in c.emitted
        PROVE  \E i \in DOMAIN c.rows : c.rows[i].event = e
    <3>1. CASE e \in s.emitted
      <4>1. PICK i \in DOMAIN s.rows : s.rows[i].event = e
        BY <3>1 DEF Sound
      <4>2. i \in DOMAIN c.rows /\ c.rows[i] = s.rows[i]
        BY <1>10
      <4> QED  BY <4>1, <4>2
    <3>2. CASE e \in Due(s, t)
      <4>1. PICK i \in DOMAIN g : g[i].event = e
        BY <1>12, <3>2
      <4>2. Len(s.rows) + i \in DOMAIN c.rows /\ c.rows[Len(s.rows) + i] = g[i]
        BY <1>10
      <4> QED  BY <4>1, <4>2
    <3> QED  BY <1>2, <3>1, <3>2
  <2> QED  BY <2>1, <2>2
<1>15. Ordered(c.rows)
  <2> SUFFICES ASSUME NEW i \in DOMAIN c.rows, NEW j \in DOMAIN c.rows, i < j
               PROVE  \/ c.rows[i].event.decide < c.rows[j].event.decide
                      \/ /\ c.rows[i].event.decide = c.rows[j].event.decide
                         /\ c.rows[i].event.id < c.rows[j].event.id
    BY DEF Ordered
  <2> HIDE DEF g
  <2>0. i \in Nat /\ j \in Nat
    BY <1>10
  <2>1. CASE j \in DOMAIN s.rows /\ c.rows[j] = s.rows[j]
    <3>1. i \in DOMAIN s.rows /\ c.rows[i] = s.rows[i]
      BY <1>10, <2>1
    <3> QED  BY <2>1, <3>1 DEF Sound, Ordered
  <2>2. CASE j - Len(s.rows) \in DOMAIN g /\ c.rows[j] = g[j - Len(s.rows)]
    <3>1. CASE i \in DOMAIN s.rows /\ c.rows[i] = s.rows[i]
      BY <1>4, <1>12, <1>13, <2>2, <3>1 DEF NextTime, Sound
    <3>2. CASE i - Len(s.rows) \in DOMAIN g /\ c.rows[i] = g[i - Len(s.rows)]
      <4>1. i - Len(s.rows) < j - Len(s.rows)
        BY <1>10, <2>0
      <4> QED  BY <1>12, <2>2, <3>2, <4>1
    <3> QED  BY <1>11, <3>1, <3>2
  <2> QED  BY <1>11, <2>1, <2>2
<1>16. ASSUME NEW i \in DOMAIN c.rows, NEW e \in c.rows[i].admitted \cup c.rows[i].late
       PROVE  e.at < c.rows[i].event.decide
  <2>1. CASE i \in DOMAIN s.rows /\ c.rows[i] = s.rows[i]
    BY <1>16, <2>1 DEF Sound
  <2>2. CASE i - Len(s.rows) \in DOMAIN g /\ c.rows[i] = g[i - Len(s.rows)]
    <3>1. e \in Admitted(c) \cup DOMAIN c.late
      BY <1>2, <1>12, <1>16, <2>2
    <3> QED  BY <1>9, <1>12, <2>2, <3>1
  <2> QED  BY <1>11, <2>1, <2>2
<1>17. Sound(c)
  BY <1>2, <1>3, <1>5, <1>6, <1>7, <1>9, <1>10, <1>14, <1>15, <1>16 DEF Sound
<1> QED  BY <1>2, <1>17 DEF c

-----------------------------------------------------------------------------
(* Between two calls of process(): every decision has its row. *)
Settled(s) ==
    /\ Sound(s)
    /\ s.emitted = {e \in s.known : IsDecision(e)}

New(s, events) == {e \in events \ s.known : e.at < s.watermark}

Call(s, events) ==
    /\ Settled(s)
    /\ events \subseteq Events /\ IsFiniteSet(events)
    /\ ~Refused(s, events)

LEMMA RememberIs ==
    ASSUME NEW s, IsState(s), NEW events
    PROVE  /\ IsState(Remember(s, events))
           /\ Remember(s, events).known = s.known \cup events
           /\ Remember(s, events).admitted = s.admitted
           /\ Remember(s, events).emitted = s.emitted
           /\ Remember(s, events).watermark = s.watermark
           /\ Remember(s, events).rows = s.rows
           /\ DOMAIN Remember(s, events).late = New(s, events) \cup DOMAIN s.late
<1> DEFINE late == [e \in New(s, events) \cup DOMAIN s.late |->
                       IF e \in New(s, events) THEN s.watermark ELSE s.late[e]]
           r == [known |-> s.known \cup events, admitted |-> s.admitted, emitted |-> s.emitted,
                 late |-> late, watermark |-> s.watermark, rows |-> s.rows]
<1>1. Remember(s, events) = [s EXCEPT !.known = s.known \cup events, !.late = late]
  BY DEF Remember, New
<1>2. DOMAIN late = New(s, events) \cup DOMAIN s.late
  OBVIOUS
<1> HIDE DEF late
<1> DEFINE m == [known |-> s.known \cup events, admitted |-> s.admitted, emitted |-> s.emitted,
                 late |-> s.late, watermark |-> s.watermark, rows |-> s.rows]
<1>3. [s EXCEPT !.known = s.known \cup events, !.late = late] = r
  <2>1. [s EXCEPT !.known = s.known \cup events] = m
    BY DEF IsState
  <2>2. [m EXCEPT !.late = late] = r
    OBVIOUS
  <2>3. [s EXCEPT !.known = s.known \cup events, !.late = late] =
        [[s EXCEPT !.known = s.known \cup events] EXCEPT !.late = late]
    OBVIOUS
  <2> QED  BY <2>1, <2>2, <2>3
<1>4. Remember(s, events) = r
  BY <1>1, <1>3
<1> QED  BY <1>2, <1>4 DEF IsState

LEMMA RememberSound ==
    ASSUME NEW s, NEW events, Call(s, events)
    PROVE  Sound(Remember(s, events))
<1> DEFINE r == Remember(s, events)
<1>1. /\ IsState(r)
      /\ r.known = s.known \cup events /\ r.admitted = s.admitted /\ r.emitted = s.emitted
      /\ r.watermark = s.watermark /\ r.rows = s.rows
      /\ DOMAIN r.late = New(s, events) \cup DOMAIN s.late
  BY RememberIs DEF Call, Settled, Sound
<1> HIDE DEF r
<1>2. /\ \A e \in events, f \in events \cup s.known : e.id = f.id => e = f
      /\ \A e \in events \ s.known : IsDecision(e) => ~(e.decide <= s.watermark)
  BY DEF Call, Refused
<1>3. Identified(r.known)
  <2>1. \A e, f \in s.known : e.id = f.id => e = f
    BY DEF Call, Settled, Sound, Identified
  <2>2. IsFiniteSet(s.known \cup events)
    BY FS_Union DEF Call, Settled, Sound, Identified
  <2>3. s.known \cup events \subseteq Events
    BY DEF Call, Settled, Sound, Identified
  <2>4. \A e, f \in s.known \cup events : e.id = f.id => e = f
    BY <1>2, <2>1
  <2> QED  BY <1>1, <2>2, <2>3, <2>4 DEF Identified
<1>4. r.emitted = {e \in r.known : IsDecision(e) /\ e.decide <= r.watermark}
  <2>1. /\ s.emitted = {e \in s.known : IsDecision(e)}
        /\ s.emitted = {e \in s.known : IsDecision(e) /\ e.decide <= s.watermark}
    BY DEF Call, Settled, Sound
  <2>2. \A e \in s.known \cup events :
           e \in s.emitted <=> IsDecision(e) /\ e.decide <= s.watermark
    BY <1>2, <2>1
  <2>3. s.emitted \subseteq s.known \cup events
    BY <2>1
  <2>4. s.emitted = {e \in s.known \cup events : IsDecision(e) /\ e.decide <= s.watermark}
    BY <2>2, <2>3
  <2> QED  BY <1>1, <2>4
<1>5. Admitted(r) = Admitted(s)
  BY <1>1 DEF Admitted
<1>6. /\ Admitted(r) \cup DOMAIN r.late \subseteq r.known
      /\ \A e \in Admitted(r) \cup DOMAIN r.late : e.at < r.watermark
  <2>1. /\ Admitted(s) \cup DOMAIN s.late \subseteq s.known
        /\ \A e \in Admitted(s) \cup DOMAIN s.late : e.at < s.watermark
    BY DEF Call, Settled, Sound
  <2> QED  BY <1>1, <1>5, <2>1 DEF New
<1>7. Sound(s) /\ s.emitted = r.emitted
  BY <1>1 DEF Call, Settled
<1>8. /\ r.watermark \in Nat /\ IsSequence(r.admitted) /\ Unrepeated(r.admitted)
      /\ IsSequence(r.rows)
      /\ {r.rows[i].event : i \in DOMAIN r.rows} = r.emitted
      /\ Ordered(r.rows)
      /\ \A i \in DOMAIN r.rows : \A e \in r.rows[i].admitted \cup r.rows[i].late :
            e.at < r.rows[i].event.decide
  BY <1>1, <1>7 DEF Sound
<1>9. Sound(r)
  BY <1>1, <1>3, <1>4, <1>6, <1>8 DEF Sound
<1> QED  BY <1>9 DEF r

(* The decisions that process() has to make. *)
Pending(s) == {e \in s.known \ s.emitted : IsDecision(e)}

(* The states of a call: after the events are remembered, and after each
   cohort of the times in q. *)
Path(r, q, after) ==
    /\ Len(q) \in Nat
    /\ after[0] = r
    /\ \A i \in 1..Len(q) :
          /\ Sound(after[i - 1])
          /\ NextTime(after[i - 1], q[i])
          /\ \E e \in r.known : IsDecision(e) /\ e.decide = q[i]
          /\ after[i] = Cohort(after[i - 1], q[i])
    /\ \A i \in 0..Len(q) :
          Sound(after[i]) /\ after[i].known = r.known /\ after[i].late = r.late

LEMMA TimesListed ==
    ASSUME NEW s, Sound(s)
    PROVE  /\ Times(Pending(s)) \in SUBSET Nat
           /\ Lists(Sorted(Times(Pending(s)), <), Times(Pending(s)), InTime(Times(Pending(s))))
           /\ \A t \in Times(Pending(s)) : s.watermark < t
<1> DEFINE D == Pending(s)
           f == [e \in D |-> e.decide]
           T == Times(D)
<1>1. D \subseteq s.known /\ IsFiniteSet(D)
  BY FS_Subset DEF Sound, Identified, Pending
<1>2. \A e \in D : e.decide \in Nat
  BY <1>1, EventsTyped DEF Sound, Identified
<1>3. T = {e.decide : e \in D}
  BY DEF Times
<1> HIDE DEF D, T
<1>4. f \in Surjection(D, T)
  BY <1>3 DEF Surjection
<1> HIDE DEF f
<1>5. IsFiniteSet(T)
  BY <1>1, <1>4, FS_Surjection
<1>6. T \in SUBSET Nat
  BY <1>2, <1>3
<1>7. \A t \in T : s.watermark < t
  <2> SUFFICES ASSUME NEW e \in D PROVE s.watermark < e.decide
    BY <1>3
  <2>1. e \in s.known /\ e \notin s.emitted /\ IsDecision(e)
    BY DEF D, Pending
  <2>2. ~(e.decide <= s.watermark)
    BY <2>1 DEF Sound
  <2> QED  BY <1>2, <2>2 DEF Sound
<1> QED  BY <1>5, <1>6, <1>7, SortedTimes DEF D, T

LEMMA ProcessedPath ==
    ASSUME NEW s, NEW events, Call(s, events)
    PROVE  \E q, after : /\ q = Sorted(Times(Pending(Remember(s, events))), <)
                         /\ Path(Remember(s, events), q, after)
                         /\ Processed(s, events) = after[Len(q)]
                         /\ Settled(Processed(s, events))
<1> DEFINE r == Remember(s, events)
           T == Times(Pending(r))
           q == Sorted(T, <)
<1>1. Sound(r)
  BY RememberSound
<1>2. /\ T \in SUBSET Nat /\ Lists(q, T, InTime(T))
      /\ \A t \in T : r.watermark < t
  BY <1>1, TimesListed
<1>3. Processed(s, events) = Cohorts(r, q)
  <2>1. ~\E t \in T : t <= r.watermark
    <3> HIDE DEF T, r
    <3> SUFFICES ASSUME NEW t \in T, t <= r.watermark PROVE FALSE
      OBVIOUS
    <3>1. r.watermark < t /\ t \in Nat /\ r.watermark \in Nat
      BY <1>1, <1>2 DEF Sound
    <3> QED  BY <3>1
  <2>2. {e.decide : e \in {f \in r.known \ r.emitted : IsDecision(f)}} = T
    BY DEF Times, Pending
  <2> HIDE DEF T
  <2> QED  BY <2>1, <2>2 DEF Processed
<1> HIDE DEF r, q
<1>4. /\ Len(q) \in Nat /\ DOMAIN q = 1..Len(q)
      /\ \A i \in 1..Len(q) : q[i] \in T
      /\ \A t \in T : \E i \in 1..Len(q) : q[i] = t
      /\ \A i, j \in 1..Len(q) : i < j => q[i] < q[j]
  <2>1. \A i, j \in 1..Len(q) : i < j => <<q[i], q[j]>> \in InTime(T)
    BY <1>2 DEF Lists
  <2> HIDE DEF T
  <2>2. \A i, j \in 1..Len(q) : i < j => q[i] < q[j]
    BY <2>1 DEF InTime
  <2>3. Len(q) \in Nat /\ DOMAIN q = 1..Len(q) /\ \A i \in DOMAIN q : q[i] \in T
    BY <1>2, ListIsSequence
  <2> QED  BY <1>2, <2>2, <2>3 DEF Lists
<1>5. PICK after : /\ after[0] = r
                   /\ \A i \in 1..Len(q) : after[i] = Cohort(after[i - 1], q[i])
                   /\ Cohorts(r, q) = after[Len(q)]
  BY <1>4, CohortsRun
<1>6. \A e \in r.known : IsDecision(e) => e.decide \in Nat /\ (e.decide <= r.watermark \/ e.decide \in T)
  <2> SUFFICES ASSUME NEW e \in r.known, IsDecision(e)
               PROVE  e.decide \in Nat /\ (e.decide <= r.watermark \/ e.decide \in T)
    OBVIOUS
  <2>1. e.decide \in Nat
    BY <1>1, EventsTyped DEF Sound, Identified
  <2>2. CASE e \in r.emitted
    BY <1>1, <2>1, <2>2 DEF Sound
  <2>3. CASE e \notin r.emitted
    BY <2>1, <2>3 DEF Pending, Times
  <2> QED  BY <2>2, <2>3
<1>7. \A t \in T : \E e \in r.known : IsDecision(e) /\ e.decide = t
  BY DEF Pending, Times
<1> HIDE DEF T
<1> DEFINE Upto(i) == IF i = 0 THEN r.watermark ELSE q[i]
           Fine(i) == /\ Sound(after[i]) /\ after[i].known = r.known
                      /\ after[i].late = r.late /\ after[i].watermark = Upto(i)
           G == {i \in Nat : i \in 0..Len(q) => Fine(i)}
<1>8. \A i \in 0..(Len(q) - 1) : Fine(i) => NextTime(after[i], q[i + 1])
  <2> SUFFICES ASSUME NEW i \in 0..(Len(q) - 1), Fine(i)
               PROVE  NextTime(after[i], q[i + 1])
    OBVIOUS
  <2>1. i \in Nat /\ i + 1 \in 1..Len(q) /\ (i # 0 => i \in 1..Len(q))
    BY <1>4
  <2>2. q[i + 1] \in Nat /\ q[i + 1] \in T
    BY <1>2, <1>4, <2>1
  <2>3. Upto(i) < q[i + 1]
    BY <1>2, <1>4, <2>1, <2>2
  <2>4. ASSUME NEW e \in r.known, IsDecision(e), ~(e.decide <= Upto(i))
        PROVE  q[i + 1] <= e.decide
    <3>1. Upto(i) \in Nat
      BY <1>1, <1>2, <1>4, <2>1 DEF Sound
    <3>2. r.watermark <= Upto(i)
      BY <1>1, <1>2, <1>4, <2>1 DEF Sound
    <3>3. e.decide \in T
      BY <1>1, <1>6, <2>4, <3>1, <3>2 DEF Sound
    <3>4. PICK j \in 1..Len(q) : q[j] = e.decide
      BY <1>4, <3>3
    <3>5. q[j] \in Nat /\ ~(q[j] <= Upto(i))
      BY <1>6, <2>4, <3>4
    <3>6. ~(j < i) /\ j # i
      BY <1>4, <2>1, <3>1, <3>4, <3>5
    <3>7. j = i + 1 \/ i + 1 < j
      BY <2>1, <3>6
    <3> QED  BY <1>4, <2>1, <2>2, <3>4, <3>5, <3>7
  <2> HIDE DEF Upto
  <2> QED  BY <2>2, <2>3, <2>4 DEF NextTime
<1>9. 0 \in G
  BY <1>1, <1>5
<1>10. ASSUME NEW n \in Nat, n \in G
       PROVE  n + 1 \in G
  <2> SUFFICES ASSUME n + 1 \in 0..Len(q)
               PROVE  Fine(n + 1)
    OBVIOUS
  <2>1. n \in 0..(Len(q) - 1) /\ n \in 0..Len(q) /\ n + 1 \in 1..Len(q) /\ (n + 1) - 1 = n /\ n + 1 # 0
    BY <1>4
  <2>2. Fine(n)
    BY <1>10, <2>1
  <2>3. NextTime(after[n], q[n + 1])
    BY <1>8, <2>1, <2>2
  <2>4. after[n + 1] = Cohort(after[n], q[n + 1])
    BY <1>5, <2>1
  <2>5. Sound(after[n])
    BY <2>2
  <2>6. /\ Sound(after[n + 1]) /\ after[n + 1].known = after[n].known
        /\ after[n + 1].late = after[n].late /\ after[n + 1].watermark = q[n + 1]
    BY <2>3, <2>4, <2>5, CohortSound
  <2> QED  BY <2>1, <2>2, <2>6
<1>11. \A i \in 0..Len(q) : Fine(i)
  <2> HIDE DEF Fine
  <2>1. Nat \subseteq G
    <3> HIDE DEF G
    <3> QED  BY <1>9, <1>10, UpwardInduction
  <2> QED  BY <1>4, <2>1
<1>12. \A i \in 1..Len(q) : i - 1 \in 0..(Len(q) - 1) /\ (i - 1) + 1 = i /\ i - 1 \in 0..Len(q)
  BY <1>4
<1>13. Path(r, q, after)
  <2>1. ASSUME NEW i \in 1..Len(q)
        PROVE  /\ Sound(after[i - 1])
               /\ NextTime(after[i - 1], q[i])
               /\ \E e \in r.known : IsDecision(e) /\ e.decide = q[i]
               /\ after[i] = Cohort(after[i - 1], q[i])
    BY <1>4, <1>5, <1>7, <1>8, <1>11, <1>12
  <2> QED  BY <1>4, <1>5, <1>11, <2>1 DEF Path
<1>14. Settled(after[Len(q)])
  <2> DEFINE z == after[Len(q)]
  <2>1. Fine(Len(q))
    BY <1>4, <1>11
  <2>2. ASSUME NEW e \in r.known, IsDecision(e)
        PROVE  e.decide <= Upto(Len(q))
    <3>1. CASE e.decide \in T
      <4>1. PICK j \in 1..Len(q) : q[j] = e.decide
        BY <1>4, <3>1
      <4>2. Len(q) \in Nat /\ j \in 1..Len(q)
        BY <1>4
      <4> HIDE DEF z, Fine
      <4>3. Len(q) # 0 /\ Len(q) \in 1..Len(q) /\ (j = Len(q) \/ j < Len(q))
        BY <4>2, SMTT(30)
      <4> DEFINE l == Len(q)
      <4>4. q[j] \in Nat /\ q[l] \in Nat
        BY <1>2, <1>4, <4>2, <4>3
      <4>5. j = l \/ q[j] < q[l]
        BY <1>4, <4>2, <4>3
      <4>6. q[j] <= q[l]
        <5> HIDE DEF l
        <5> QED  BY <4>4, <4>5
      <4> QED  BY <4>1, <4>3, <4>6
    <3>2. CASE e.decide <= r.watermark
      <4>1. CASE Len(q) = 0
        BY <3>2, <4>1
      <4>2. CASE Len(q) # 0
        <5>1. Len(q) \in 1..Len(q) /\ q[Len(q)] \in T
          BY <1>4, <4>2
        <5>2. r.watermark < q[Len(q)] /\ q[Len(q)] \in Nat
          BY <1>2, <5>1
        <5>3. e.decide \in Nat /\ r.watermark \in Nat
          BY <1>1, <1>6, <2>2 DEF Sound
        <5> QED  BY <3>2, <4>2, <5>2, <5>3
      <4> QED  BY <4>1, <4>2
    <3> QED  BY <1>6, <2>2, <3>1, <3>2
  <2>3. Sound(z) /\ z.known = r.known /\ z.watermark = Upto(Len(q))
    BY <2>1
  <2> HIDE DEF z, Upto, Fine
  <2>4. z.emitted = {e \in z.known : IsDecision(e)}
    BY <2>2, <2>3 DEF Sound
  <2> QED  BY <2>3, <2>4 DEF Settled, z
<1> QED  BY <1>3, <1>5, <1>13, <1>14 DEF r, q, T

-----------------------------------------------------------------------------
(* What the rows would be if everything known had been known from the start. *)
In(e, t) == e.at < t /\ e.decide # t

TimesUpto(K, w) == {e.decide : e \in {f \in K : IsDecision(f) /\ f.decide <= w}}

AdmittedBy(K, w) == {e \in K : \E t \in TimesUpto(K, w) : In(e, t)}

(* d is admitted before e: at an earlier time, or at the same one and listed
   before it. *)
Precedes(T, d, e) ==
    \E t \in T : /\ In(d, t)
                 /\ \A u \in T : In(e, u) => t <= u
                 /\ Before(d, e) \/ ~In(e, t)

OpenedBy(K, w) ==
    {d \in AdmittedBy(K, w) :
        /\ IsDecision(d)
        /\ \A e \in AdmittedBy(K, w) :
              Rivals(d, e) => e = d \/ Precedes(TimesUpto(K, w), d, e)}

RowOf(K, e) ==
    [event |-> e, admitted |-> AdmittedBy(K, e.decide), openings |-> OpenedBy(K, e.decide),
     late |-> {}]

Exact(s) ==
    /\ Admitted(s) = AdmittedBy(s.known, s.watermark)
    /\ Openings(s.admitted) = OpenedBy(s.known, s.watermark)
    /\ \A i \in DOMAIN s.rows : s.rows[i] = RowOf(s.known, s.rows[i].event)

(* What comes in time changes nothing of the past. *)
LEMMA PastKept ==
    ASSUME NEW K, NEW L, NEW w \in Nat,
           \A e \in K \cup L : e.at \in Nat /\ e.decide \in Nat,
           \A e \in L \ K : w <= e.at,
           \A e \in L \ K : IsDecision(e) => ~(e.decide <= w),
           NEW v \in Nat, v <= w
    PROVE  /\ AdmittedBy(K \cup L, v) = AdmittedBy(K, v)
           /\ OpenedBy(K \cup L, v) = OpenedBy(K, v)
<1>1. TimesUpto(K \cup L, v) = TimesUpto(K, v)
  <2>1. \A e \in K \cup L : IsDecision(e) /\ e.decide <= v => e \in K
    OBVIOUS
  <2>2. {f \in K \cup L : IsDecision(f) /\ f.decide <= v} = {f \in K : IsDecision(f) /\ f.decide <= v}
    BY <2>1
  <2> QED  BY <2>2 DEF TimesUpto
<1>2. \A t \in TimesUpto(K, v) : t \in Nat /\ t <= v
  BY DEF TimesUpto
<1>3. \A e \in L \ K : \A t \in TimesUpto(K, v) : ~In(e, t)
  BY <1>2 DEF In
<1>4. AdmittedBy(K \cup L, v) = AdmittedBy(K, v)
  BY <1>1, <1>3 DEF AdmittedBy
<1> QED  BY <1>1, <1>4 DEF OpenedBy

(* A cohort keeps the closed form, as long as nothing is late. *)
LEMMA NextPast ==
    ASSUME NEW s, Sound(s), NEW t, NextTime(s, t),
           \E e \in s.known : IsDecision(e) /\ e.decide = t
    PROVE  /\ TimesUpto(s.known, t) = TimesUpto(s.known, s.watermark) \cup {t}
           /\ \A u \in TimesUpto(s.known, s.watermark) : u \in Nat /\ u < t
<1>1. /\ t \in Nat /\ s.watermark \in Nat /\ s.watermark < t
      /\ \A e \in s.known : IsDecision(e) => e.decide <= s.watermark \/ t <= e.decide
      /\ \A e \in s.known : e.decide \in Nat
  BY EventsTyped DEF Sound, NextTime, Identified
<1>2. \A e \in s.known : IsDecision(e) =>
         (e.decide <= t <=> e.decide <= s.watermark \/ e.decide = t)
  BY <1>1
<1>3. \A u \in TimesUpto(s.known, s.watermark) : u \in Nat /\ u < t
  BY <1>1 DEF TimesUpto
<1>4. \A u : u \in TimesUpto(s.known, t) <=>
               \E e \in s.known : IsDecision(e) /\ e.decide <= t /\ e.decide = u
  BY DEF TimesUpto
<1>5. \A u : u \in TimesUpto(s.known, s.watermark) <=>
               \E e \in s.known : IsDecision(e) /\ e.decide <= s.watermark /\ e.decide = u
  BY DEF TimesUpto
<1>6. \A u : u \in TimesUpto(s.known, t) <=> u \in TimesUpto(s.known, s.watermark) \cup {t}
  BY <1>1, <1>2, <1>4, <1>5
<1> QED  BY <1>3, <1>6

(* Who is admitted before whom, when the cohort of t comes last. *)
LEMMA PrecedesNext ==
    ASSUME NEW T, NEW t \in Nat, \A u \in T : u \in Nat /\ u < t,
           NEW d, NEW e
    PROVE  /\ (\E u \in T : In(d, u)) /\ (\E u \in T : In(e, u)) =>
                 (Precedes(T \cup {t}, d, e) <=> Precedes(T, d, e))
           /\ (\E u \in T : In(d, u)) /\ ~(\E u \in T : In(e, u)) => Precedes(T \cup {t}, d, e)
           /\ ~(\E u \in T : In(d, u)) /\ (\E u \in T : In(e, u)) => ~Precedes(T \cup {t}, d, e)
           /\ ~(\E u \in T : In(d, u)) /\ In(d, t) /\ ~(\E u \in T : In(e, u)) /\ In(e, t) =>
                 (Precedes(T \cup {t}, d, e) <=> Before(d, e))
<1>1. ASSUME NEW u \in T, In(d, u), NEW v \in T, In(e, v)
      PROVE  Precedes(T \cup {t}, d, e) <=> Precedes(T, d, e)
  <2>1. ASSUME Precedes(T \cup {t}, d, e) PROVE Precedes(T, d, e)
    <3>1. PICK w \in T \cup {t} : /\ In(d, w)
                                  /\ \A x \in T \cup {t} : In(e, x) => w <= x
                                  /\ Before(d, e) \/ ~In(e, w)
      BY <2>1 DEF Precedes
    <3>2. w <= v /\ v < t /\ v \in Nat
      BY <1>1, <3>1
    <3>3. w \in T
      BY <3>1, <3>2
    <3> QED  BY <3>1, <3>3 DEF Precedes
  <2>2. ASSUME Precedes(T, d, e) PROVE Precedes(T \cup {t}, d, e)
    <3>1. PICK w \in T : /\ In(d, w)
                         /\ \A x \in T : In(e, x) => w <= x
                         /\ Before(d, e) \/ ~In(e, w)
      BY <2>2 DEF Precedes
    <3>2. w <= t
      BY <3>1
    <3> QED  BY <3>1, <3>2 DEF Precedes
  <2> QED  BY <2>1, <2>2
<1>2. ASSUME NEW u \in T, In(d, u), \A v \in T : ~In(e, v)
      PROVE  Precedes(T \cup {t}, d, e)
  <2>1. u <= t
    OBVIOUS
  <2> QED  BY <1>2, <2>1 DEF Precedes
<1>3. ASSUME \A u \in T : ~In(d, u), NEW v \in T, In(e, v), Precedes(T \cup {t}, d, e)
      PROVE  FALSE
  <2>1. PICK w \in T \cup {t} : In(d, w) /\ \A x \in T \cup {t} : In(e, x) => w <= x
    BY <1>3 DEF Precedes
  <2>2. w = t /\ w <= v /\ v < t /\ v \in Nat
    BY <1>3, <2>1
  <2> QED  BY <2>2
<1>4. ASSUME \A u \in T : ~In(d, u), In(d, t), \A u \in T : ~In(e, u), In(e, t)
      PROVE  Precedes(T \cup {t}, d, e) <=> Before(d, e)
  <2>1. t <= t
    OBVIOUS
  <2> QED  BY <1>4, <2>1 DEF Precedes
<1> QED  BY <1>1, <1>2, <1>3, <1>4

LEMMA CohortExact ==
    ASSUME NEW s, Sound(s), NEW t, NextTime(s, t),
           \E e \in s.known : IsDecision(e) /\ e.decide = t,
           Exact(s), DOMAIN s.late = {}
    PROVE  Exact(Cohort(s, t))
<1> DEFINE c == Cohort(s, t)
           K == s.known
           T == TimesUpto(K, s.watermark)
           A == Admitted(s)
           C == Candidates(s, t)
<1>1. /\ TimesUpto(K, t) = T \cup {t}
      /\ \A u \in T : u \in Nat /\ u < t
      /\ t \in Nat
  BY NextPast DEF NextTime
<1>2. \A e \in K : e \in A <=> \E u \in T : In(e, u)
  BY DEF Exact, AdmittedBy
<1>3. A \subseteq K
  BY DEF Sound
<1>4. \A e : e \in C <=> e \in K /\ e \notin A /\ In(e, t)
  BY DEF Candidates, In
<1> HIDE DEF A, C
<1>5. AdmittedBy(K, t) = A \cup C
  <2>1. \A e \in K : e \in AdmittedBy(K, t) <=> (\E u \in T : In(e, u)) \/ In(e, t)
    BY <1>1 DEF AdmittedBy
  <2>2. AdmittedBy(K, t) \subseteq K
    BY DEF AdmittedBy
  <2> QED  BY <1>2, <1>3, <1>4, <2>1, <2>2
<1>6. OpenedBy(K, s.watermark) =
        {d \in A : IsDecision(d) /\ \A e \in A : Rivals(d, e) => e = d \/ Precedes(T, d, e)}
  BY DEF OpenedBy, Exact, A
<1>7. OpenedBy(K, t) =
        {d \in A \cup C : IsDecision(d) /\ \A e \in A \cup C :
                             Rivals(d, e) => e = d \/ Precedes(T \cup {t}, d, e)}
  BY <1>1, <1>5 DEF OpenedBy
<1>8. Openings(Admit(s, t)) = OpenedBy(K, t)
  <2> DEFINE q == Sorted(C, Before)
             O == {d \in C : IsDecision(d) /\ \A e \in C : Rivals(d, e) => e = d \/ Before(d, e)}
  <2>1. /\ Identified(C) /\ Lists(q, C, InBefore(C)) /\ Admit(s, t) = s.admitted \o q
    BY AdmitIs DEF C
  <2> HIDE DEF q
  <2>2. Openings(q) = O
    <3>1. \A d, e \in C : <<d, e>> \in InBefore(C) <=> Before(d, e)
      BY DEF InBefore
    <3>2. Openings(q) = {d \in C : IsDecision(d) /\ \A e \in C : Rivals(d, e) => e = d \/ <<d, e>> \in InBefore(C)}
      BY <2>1, SortedBefore, OpeningsListed
    <3> QED  BY <3>1, <3>2
  <2>3. Openings(Admit(s, t)) = OpenedBy(K, s.watermark) \cup {d \in O : \A e \in A : ~Rivals(d, e)}
    <3>1. IsSequence(q) /\ IsSequence(s.admitted) /\ ToSet(s.admitted) = A
      BY <2>1, ListIsSequence DEF Sound, Admitted, A
    <3>2. Openings(s.admitted) = OpenedBy(K, s.watermark)
      BY DEF Exact
    <3> QED  BY <2>1, <2>2, <3>1, <3>2, OpeningsJoined
  <2>4. ASSUME NEW d \in A
        PROVE  d \in OpenedBy(K, s.watermark) <=> d \in OpenedBy(K, t)
    <3>1. \E u \in T : In(d, u)
      BY <1>2, <1>3
    <3>2. \A e \in A : Precedes(T \cup {t}, d, e) <=> Precedes(T, d, e)
      BY <1>1, <1>2, <1>3, <3>1, PrecedesNext
    <3>3. \A e \in C : Precedes(T \cup {t}, d, e)
      BY <1>1, <1>2, <1>4, <3>1, PrecedesNext
    <3> HIDE DEF T, K
    <3> QED  BY <1>6, <1>7, <3>2, <3>3
  <2>5. ASSUME NEW d \in C
        PROVE  d \in O /\ (\A e \in A : ~Rivals(d, e)) <=> d \in OpenedBy(K, t)
    <3>1. ~(\E u \in T : In(d, u)) /\ In(d, t) /\ d \notin A
      BY <1>2, <1>4
    <3> HIDE DEF O, T, K, c
    <3>2. ASSUME NEW e \in A PROVE ~Precedes(T \cup {t}, d, e)
      <4>1. \E u \in T : In(e, u)
        BY <1>2, <1>3
      <4> QED  BY <1>1, <3>1, <4>1, PrecedesNext
    <3>3. ASSUME NEW e \in C PROVE Precedes(T \cup {t}, d, e) <=> Before(d, e)
      <4>1. ~(\E u \in T : In(e, u)) /\ In(e, t)
        BY <1>2, <1>4
      <4>2. ~(\E u \in T : In(d, u)) /\ In(d, t) /\ ~(\E u \in T : In(e, u)) /\ In(e, t) =>
               (Precedes(T \cup {t}, d, e) <=> Before(d, e))
        <5>1. t \in Nat /\ \A u \in T : u \in Nat /\ u < t
          BY <1>1
        <5> QED  BY ONLY <5>1, PrecedesNext, Zenon
      <4> QED  BY <3>1, <4>1, <4>2, Zenon
    <3> QED  BY <1>7, <3>1, <3>2, <3>3 DEF O
  <2>6. OpenedBy(K, s.watermark) \subseteq A /\ O \subseteq C /\ OpenedBy(K, t) \subseteq A \cup C
    BY <1>6, <1>7
  <2>7. \A d \in C : d \notin A
    BY <1>4
  <2> HIDE DEF O, K
  <2> QED  BY <2>3, <2>4, <2>5, <2>6, <2>7
<1>9. /\ c.known = K /\ c.watermark = t /\ c.admitted = Admit(s, t) /\ c.rows = s.rows \o Given(s, t)
  BY CohortIs DEF Sound
<1>10. Admitted(c) = AdmittedBy(K, t)
  <2>1. ToSet(Admit(s, t)) = A \cup C
    BY AdmitIs DEF A, C
  <2> HIDE DEF c
  <2> QED  BY <1>5, <1>9, <2>1 DEF Admitted
<1>11. \A i \in DOMAIN Given(s, t) : Given(s, t)[i] = RowOf(K, Given(s, t)[i].event)
  <2>1. \A i \in DOMAIN Given(s, t) :
           /\ Given(s, t)[i] = [event |-> Given(s, t)[i].event, admitted |-> A \cup C,
                                openings |-> Openings(Admit(s, t)), late |-> {}]
           /\ Given(s, t)[i].event \in Due(s, t)
    BY GivenIs DEF A, C
  <2>2. \A e \in Due(s, t) : e.decide = t
    BY DEF Due
  <2> QED  BY <1>5, <1>8, <2>1, <2>2 DEF RowOf
<1>12. \A i \in DOMAIN c.rows : c.rows[i] = RowOf(K, c.rows[i].event)
  <2> HIDE DEF c, K
  <2> DEFINE p == s.rows
             g == Given(s, t)
             r == c.rows
  <2>1. \A i \in DOMAIN p : p[i] = RowOf(K, p[i].event)
    BY DEF Exact, K
  <2>2. r = p \o g /\ IsSequence(p) /\ IsSequence(g)
    BY <1>9, GivenIs DEF Sound
  <2>3. \A i \in DOMAIN g : g[i] = RowOf(K, g[i].event)
    BY <1>11
  <2> HIDE DEF p, g, r
  <2>4. ToSet(r) = ToSet(p) \cup ToSet(g)
    BY <2>2, Joined
  <2>5. \A x \in ToSet(r) : x = RowOf(K, x.event)
    BY <2>1, <2>3, <2>4 DEF ToSet
  <2>6. \A i \in DOMAIN r : r[i] \in ToSet(r)
    BY DEF ToSet
  <2>7. \A i \in DOMAIN r : r[i] = RowOf(K, r[i].event)
    BY <2>5, <2>6
  <2> QED  BY <2>7 DEF r
<1> HIDE DEF c
<1>13. Exact(c)
  BY <1>8, <1>9, <1>10, <1>12 DEF Exact, K
<1> QED  BY <1>13 DEF c

LEMMA RememberExact ==
    ASSUME NEW s, NEW events, Call(s, events), Exact(s), DOMAIN Remember(s, events).late = {}
    PROVE  Exact(Remember(s, events))
<1> DEFINE r == Remember(s, events)
           K == s.known
           w == s.watermark
<1>1. /\ r.known = K \cup events /\ r.admitted = s.admitted /\ r.watermark = w
      /\ r.rows = s.rows /\ DOMAIN r.late = New(s, events) \cup DOMAIN s.late
  BY RememberIs DEF Call, Settled, Sound
<1>2. DOMAIN r.late = {}
  OBVIOUS
<1> HIDE DEF r
<1>3. /\ w \in Nat
      /\ \A e \in K \cup events : e.at \in Nat /\ e.decide \in Nat
  BY EventsTyped DEF Call, Settled, Sound, Identified
<1>4. \A e \in events \ K : w <= e.at
  <2> SUFFICES ASSUME NEW e \in events \ K PROVE w <= e.at
    OBVIOUS
  <2>1. ~(e.at < w)
    BY <1>1, <1>2 DEF New
  <2> QED  BY <1>3, <2>1
<1>5. \A e \in events \ K : IsDecision(e) => ~(e.decide <= w)
  BY DEF Call, Refused
<1> HIDE DEF K, w
<1>6. \A v \in Nat : v <= w => /\ AdmittedBy(K \cup events, v) = AdmittedBy(K, v)
                              /\ OpenedBy(K \cup events, v) = OpenedBy(K, v)
  BY <1>3, <1>4, <1>5, PastKept
<1>7. \A i \in DOMAIN r.rows : r.rows[i] = RowOf(r.known, r.rows[i].event)
  <2> SUFFICES ASSUME NEW i \in DOMAIN s.rows
               PROVE  s.rows[i] = RowOf(K \cup events, s.rows[i].event)
    BY <1>1
  <2>1. s.rows[i] = RowOf(K, s.rows[i].event)
    BY DEF Exact, K
  <2> DEFINE e == s.rows[i].event
  <2>2. e \in K /\ e.decide <= w
    BY DEF Call, Settled, Sound, K, w
  <2> HIDE DEF e
  <2>3. e.decide \in Nat
    BY <1>3, <2>2
  <2>4. RowOf(K \cup events, e) = RowOf(K, e)
    BY <1>6, <2>2, <2>3 DEF RowOf
  <2> QED  BY <2>1, <2>4 DEF e
<1>8. /\ Admitted(s) = AdmittedBy(K, w) /\ Openings(s.admitted) = OpenedBy(K, w)
  BY DEF Exact, K, w
<1>9. w <= w
  BY <1>3
<1>10. /\ Admitted(r) = AdmittedBy(r.known, r.watermark)
       /\ Openings(r.admitted) = OpenedBy(r.known, r.watermark)
  BY <1>1, <1>3, <1>6, <1>8, <1>9 DEF Admitted
<1>11. Exact(r)
  BY <1>7, <1>10 DEF Exact
<1> QED  BY <1>11 DEF r

LEMMA ProcessedIs ==
    ASSUME NEW s, NEW events, Call(s, events)
    PROVE  /\ Settled(Processed(s, events))
           /\ Processed(s, events).known = s.known \cup events
           /\ DOMAIN Processed(s, events).late = New(s, events) \cup DOMAIN s.late
<1>1. PICK q, after : /\ Path(Remember(s, events), q, after)
                      /\ Processed(s, events) = after[Len(q)]
                      /\ Settled(Processed(s, events))
  BY ProcessedPath
<1>2. Len(q) \in 0..Len(q)
  BY <1>1 DEF Path
<1>3. /\ after[Len(q)].known = Remember(s, events).known
      /\ after[Len(q)].late = Remember(s, events).late
  BY <1>1, <1>2 DEF Path
<1>4. /\ Remember(s, events).known = s.known \cup events
      /\ DOMAIN Remember(s, events).late = New(s, events) \cup DOMAIN s.late
  BY RememberIs DEF Call, Settled, Sound
<1> QED  BY <1>1, <1>3, <1>4

LEMMA ProcessedExact ==
    ASSUME NEW s, NEW events, Call(s, events), Exact(s), DOMAIN Processed(s, events).late = {}
    PROVE  Exact(Processed(s, events))
<1> DEFINE r == Remember(s, events)
<1>1. PICK q, after : Path(r, q, after) /\ Processed(s, events) = after[Len(q)]
  BY ProcessedPath
<1>2. Len(q) \in Nat /\ Len(q) \in 0..Len(q)
  BY <1>1 DEF Path
<1>3. DOMAIN r.late = {}
  BY <1>1, <1>2 DEF Path
<1>4. Exact(r)
  BY <1>3, RememberExact
<1> HIDE DEF r
<1> DEFINE G == {i \in Nat : i \in 0..Len(q) => Exact(after[i])}
<1>5. 0 \in G
  BY <1>1, <1>4 DEF Path
<1>6. ASSUME NEW n \in Nat, n \in G
      PROVE  n + 1 \in G
  <2> SUFFICES ASSUME n + 1 \in 0..Len(q) PROVE Exact(after[n + 1])
    OBVIOUS
  <2>1. n \in 0..Len(q) /\ n + 1 \in 1..Len(q) /\ (n + 1) - 1 = n
    BY <1>2
  <2>2. /\ Exact(after[n]) /\ Sound(after[n]) /\ after[n].known = r.known /\ after[n].late = r.late
    BY <1>1, <1>6, <2>1 DEF Path
  <2>3. /\ NextTime(after[n], q[n + 1])
        /\ \E e \in r.known : IsDecision(e) /\ e.decide = q[n + 1]
        /\ after[n + 1] = Cohort(after[n], q[n + 1])
    BY <1>1, <2>1 DEF Path
  <2> QED  BY <1>3, <2>2, <2>3, CohortExact
<1> HIDE DEF G
<1>7. Nat \subseteq G
  BY <1>5, <1>6, UpwardInduction
<1> QED  BY <1>1, <1>2, <1>7 DEF G

(* Nothing has happened. *)
LEMMA FreshIs == Settled(Fresh) /\ Exact(Fresh) /\ DOMAIN Fresh.late = {}
<1>1. /\ IsState(Fresh) /\ Fresh.known = {} /\ Fresh.admitted = <<>> /\ Fresh.emitted = {}
      /\ Fresh.late = <<>> /\ Fresh.watermark = 0 /\ Fresh.rows = <<>>
  BY DEF Fresh, IsState
<1>2. DOMAIN <<>> = {}
  OBVIOUS
<1>3. Admitted(Fresh) = {} /\ Openings(<<>>) = {}
  BY <1>1, <1>2 DEF Admitted, ToSet, Openings
<1>4. Identified({}) /\ 0 \in Nat /\ IsSequence(<<>>) /\ Unrepeated(<<>>) /\ Ordered(<<>>)
  BY <1>2, FS_EmptySet, EmptyIsSequence DEF Identified, Unrepeated, Ordered
<1> HIDE DEF Fresh
<1>5. Sound(Fresh)
  BY <1>1, <1>2, <1>3, <1>4 DEF Sound
<1>6. AdmittedBy({}, 0) = {} /\ OpenedBy({}, 0) = {}
  BY DEF AdmittedBy, OpenedBy
<1>7. Exact(Fresh)
  BY <1>1, <1>2, <1>3, <1>6 DEF Exact
<1> QED  BY <1>1, <1>2, <1>5, <1>7 DEF Settled

(* One call with everything. *)
LEMMA OneShotIs ==
    ASSUME NEW K, Identified(K)
    PROVE  /\ Settled(OneShot(K)) /\ OneShot(K).known = K
           /\ Exact(OneShot(K))
<1>1. \A e \in K : e.at \in Nat /\ e.decide \in Nat
  BY EventsTyped DEF Identified
<1>2. ~Refused(Fresh, K)
  BY <1>1 DEF Refused, Fresh, IsDecision, Identified
<1>3. Call(Fresh, K)
  BY <1>2, FreshIs DEF Call, Identified
<1>4. New(Fresh, K) = {}
  BY <1>1 DEF New, Fresh
<1>5. /\ Settled(OneShot(K)) /\ OneShot(K).known = Fresh.known \cup K
      /\ DOMAIN OneShot(K).late = {}
  BY <1>3, <1>4, FreshIs, ProcessedIs DEF OneShot
<1>6. Exact(OneShot(K))
  BY <1>3, <1>5, FreshIs, ProcessedExact DEF OneShot
<1>7. Fresh.known = {}
  BY DEF Fresh
<1> QED  BY <1>5, <1>6, <1>7

InRow(S) == {p \in S \X S :
               \/ p[1].event.decide < p[2].event.decide
               \/ p[1].event.decide = p[2].event.decide /\ p[1].event.id < p[2].event.id}

(* What is known determines the rows. *)
LEMMA RowsListed ==
    ASSUME NEW s, Settled(s), Exact(s)
    PROVE  LET S == {RowOf(s.known, e) : e \in {f \in s.known : IsDecision(f)}}
           IN  IsFiniteSet(S) /\ Orders(InRow(S), S) /\ Lists(s.rows, S, InRow(S))
<1> DEFINE K == s.known
           D == {f \in K : IsDecision(f)}
           S == {RowOf(K, e) : e \in D}
           q == s.rows
<1>1. \A e \in D : e.decide \in Nat /\ e.id \in Nat
  BY EventsTyped DEF Settled, Sound, Identified
<1>2. \A e, f \in D : e.id = f.id => e = f
  BY DEF Settled, Sound, Identified
<1>3. IsFiniteSet(S)
  <2> DEFINE g == [e \in D |-> RowOf(K, e)]
  <2>1. IsFiniteSet(D)
    BY FS_Subset DEF Settled, Sound, Identified
  <2> HIDE DEF D
  <2>2. g \in Surjection(D, S)
    BY DEF Surjection
  <2> HIDE DEF g, S
  <2> QED  BY <2>1, <2>2, FS_Surjection
<1>4. \A e : RowOf(K, e).event = e
  BY DEF RowOf
<1>5. \A x \in S : x.event \in D /\ x = RowOf(K, x.event)
  BY <1>4
<1>6. /\ IsSequence(q)
      /\ \A i \in DOMAIN q : q[i].event \in D
      /\ \A e \in D : \E i \in DOMAIN q : q[i].event = e
      /\ \A i \in DOMAIN q : q[i] = RowOf(K, q[i].event)
      /\ \A i, j \in DOMAIN q : i < j =>
            \/ q[i].event.decide < q[j].event.decide
            \/ q[i].event.decide = q[j].event.decide /\ q[i].event.id < q[j].event.id
  BY DEF Settled, Sound, Exact, Ordered
<1>7. \A i \in DOMAIN q : q[i] \in S
  BY <1>6
<1>8. \A x \in S : \E i \in DOMAIN q : q[i] = x
  BY <1>5, <1>6
<1> HIDE DEF S, q, D, K
<1>9. \A x, y \in S : <<x, y>> \in InRow(S) <=>
                        \/ x.event.decide < y.event.decide
                        \/ x.event.decide = y.event.decide /\ x.event.id < y.event.id
  BY DEF InRow
<1>10. Orders(InRow(S), S)
  <2>1. \A x \in S : x.event \in D /\ x.event.decide \in Nat /\ x.event.id \in Nat
    BY <1>1, <1>5
  <2>2. \A x, y \in S : <<x, y>> \in InRow(S) => <<y, x>> \notin InRow(S)
    BY <1>9, <2>1
  <2>3. \A x, y, z \in S : <<x, y>> \in InRow(S) /\ <<y, z>> \in InRow(S) => <<x, z>> \in InRow(S)
    BY <1>9, <2>1
  <2>4. ASSUME NEW x \in S, NEW y \in S, <<x, y>> \notin InRow(S), <<y, x>> \notin InRow(S)
        PROVE  x = y
    <3>1. x.event.id = y.event.id
      BY <1>9, <2>1, <2>4
    <3>2. x.event = y.event
      BY <1>2, <2>1, <3>1
    <3> QED  BY <1>5, <3>2
  <2> QED  BY <2>2, <2>3, <2>4 DEF Orders
<1>11. Lists(q, S, InRow(S))
  <2>1. PICK X : q \in Seq(X)
    BY <1>6 DEF IsSequence
  <2>2. Len(q) \in Nat /\ DOMAIN q = 1..Len(q) /\ q \in [1..Len(q) -> X]
    BY <2>1, LenProperties
  <2>3. q \in [1..Len(q) -> S]
    BY <1>7, <2>2
  <2>4. q \in Seq(S)
    BY <2>2, <2>3, SeqDef
  <2>5. \A i, j \in DOMAIN q : i < j => <<q[i], q[j]>> \in InRow(S)
    BY <1>6, <1>7, <1>9
  <2> QED  BY <1>8, <2>2, <2>4, <2>5 DEF Lists
<1> QED  BY <1>3, <1>10, <1>11 DEF S, q, D, K

LEMMA RowsDetermined ==
    ASSUME NEW s, Settled(s), Exact(s)
    PROVE  s.rows = OneShot(s.known).rows
<1> DEFINE o == OneShot(s.known)
           S == {RowOf(s.known, e) : e \in {f \in s.known : IsDecision(f)}}
<1>1. Settled(o) /\ o.known = s.known /\ Exact(o)
  BY OneShotIs DEF Settled, Sound
<1> HIDE DEF o
<1>2. IsFiniteSet(S) /\ Orders(InRow(S), S) /\ Lists(s.rows, S, InRow(S))
  BY RowsListed
<1>3. Lists(o.rows, S, InRow(S))
  BY <1>1, RowsListed
<1> HIDE DEF S
<1> QED  BY <1>2, <1>3, SameList DEF o

-----------------------------------------------------------------------------
(* Two states that no row can tell apart. *)
Same(a, b) ==
    /\ a.known = b.known /\ a.emitted = b.emitted /\ a.late = b.late
    /\ a.watermark = b.watermark /\ a.rows = b.rows
    /\ Admitted(a) = Admitted(b)
    /\ Openings(a.admitted) = Openings(b.admitted)

LEMMA CohortSame ==
    ASSUME NEW a, NEW b, Sound(a), Sound(b), Same(a, b), NEW t
    PROVE  Same(Cohort(a, t), Cohort(b, t))
<1> DEFINE C == Candidates(a, t)
           q == Sorted(C, Before)
<1>1. Candidates(b, t) = C /\ Due(a, t) = Due(b, t)
  BY DEF Same, Candidates, Due
<1>2. /\ Admit(a, t) = a.admitted \o q /\ Admit(b, t) = b.admitted \o q
      /\ ToSet(Admit(a, t)) = Admitted(a) \cup C /\ ToSet(Admit(b, t)) = Admitted(b) \cup C
      /\ Lists(q, C, InBefore(C))
  BY <1>1, AdmitIs
<1> HIDE DEF C, q
<1>3. ToSet(Admit(a, t)) = ToSet(Admit(b, t))
  BY <1>2 DEF Same
<1>4. Openings(Admit(a, t)) = Openings(Admit(b, t))
  <2>1. IsSequence(q) /\ IsSequence(a.admitted) /\ IsSequence(b.admitted)
    BY <1>2, ListIsSequence DEF Sound
  <2>2. Openings(Admit(a, t)) =
           Openings(a.admitted) \cup {d \in Openings(q) : \A e \in ToSet(a.admitted) : ~Rivals(d, e)}
    BY <1>2, <2>1, OpeningsJoined
  <2>3. Openings(Admit(b, t)) =
           Openings(b.admitted) \cup {d \in Openings(q) : \A e \in ToSet(b.admitted) : ~Rivals(d, e)}
    BY <1>2, <2>1, OpeningsJoined
  <2>4. ToSet(a.admitted) = ToSet(b.admitted) /\ Openings(a.admitted) = Openings(b.admitted)
    BY DEF Same, Admitted
  <2> QED  BY <2>2, <2>3, <2>4
<1>5. Given(a, t) = Given(b, t)
  BY <1>1, <1>3, <1>4 DEF Given, Same
<1>6. ASSUME NEW s, Sound(s)
      PROVE  /\ Cohort(s, t).known = s.known /\ Cohort(s, t).admitted = Admit(s, t)
             /\ Cohort(s, t).emitted = s.emitted \cup Due(s, t) /\ Cohort(s, t).late = s.late
             /\ Cohort(s, t).watermark = t /\ Cohort(s, t).rows = s.rows \o Given(s, t)
  BY <1>6, CohortIs DEF Sound
<1> QED  BY <1>1, <1>3, <1>4, <1>5, <1>6 DEF Same, Admitted

LEMMA RememberSame ==
    ASSUME NEW a, NEW b, Sound(a), Sound(b), Same(a, b), NEW events
    PROVE  /\ Same(Remember(a, events), Remember(b, events))
           /\ Refused(a, events) <=> Refused(b, events)
<1>1. Refused(a, events) <=> Refused(b, events)
  BY DEF Refused, Same
<1>2. ASSUME NEW s, Sound(s)
      PROVE  /\ Remember(s, events).known = s.known \cup events
             /\ Remember(s, events).admitted = s.admitted
             /\ Remember(s, events).emitted = s.emitted
             /\ Remember(s, events).watermark = s.watermark
             /\ Remember(s, events).rows = s.rows
             /\ Remember(s, events).late =
                   [e \in New(s, events) \cup DOMAIN s.late |->
                       IF e \in New(s, events) THEN s.watermark ELSE s.late[e]]
  <2>1. IsState(s)
    BY <1>2 DEF Sound
  <2>2. IsState(s) => Remember(s, events).late =
                   [e \in New(s, events) \cup DOMAIN s.late |->
                       IF e \in New(s, events) THEN s.watermark ELSE s.late[e]]
    BY DEF IsState, Remember, New
  <2> QED  BY <2>1, <2>2, RememberIs
<1> DEFINE m(s) == [e \in New(s, events) \cup DOMAIN s.late |->
                       IF e \in New(s, events) THEN s.watermark ELSE s.late[e]]
           ra == Remember(a, events)
           rb == Remember(b, events)
<1>3. m(a) = m(b)
  BY DEF New, Same
<1>4. /\ ra.known = a.known \cup events /\ ra.admitted = a.admitted /\ ra.emitted = a.emitted
      /\ ra.watermark = a.watermark /\ ra.rows = a.rows /\ ra.late = m(a)
  BY <1>2
<1>5. /\ rb.known = b.known \cup events /\ rb.admitted = b.admitted /\ rb.emitted = b.emitted
      /\ rb.watermark = b.watermark /\ rb.rows = b.rows /\ rb.late = m(b)
  BY <1>2
<1> HIDE DEF m, ra, rb
<1>6. Same(ra, rb)
  BY <1>3, <1>4, <1>5 DEF Same, Admitted
<1> QED  BY <1>1, <1>6 DEF ra, rb

LEMMA ProcessedSame ==
    ASSUME NEW a, NEW b, NEW events, Call(a, events), Call(b, events), Same(a, b)
    PROVE  Same(Processed(a, events), Processed(b, events))
<1> DEFINE ra == Remember(a, events)
           rb == Remember(b, events)
<1>1. PICK q, f : /\ q = Sorted(Times(Pending(ra)), <)
                  /\ Path(ra, q, f) /\ Processed(a, events) = f[Len(q)]
  BY ProcessedPath
<1>2. PICK r, g : /\ r = Sorted(Times(Pending(rb)), <)
                  /\ Path(rb, r, g) /\ Processed(b, events) = g[Len(r)]
  BY ProcessedPath
<1>3. Same(ra, rb)
  BY RememberSame DEF Call, Settled
<1> HIDE DEF ra, rb
<1>4. Pending(ra) = Pending(rb)
  BY <1>3 DEF Same, Pending
<1>5. r = q
  BY <1>1, <1>2, <1>4
<1>6. Len(q) \in Nat
  BY <1>1 DEF Path
<1> DEFINE G == {i \in Nat : i \in 0..Len(q) => Same(f[i], g[i])}
<1>7. 0 \in G
  BY <1>1, <1>2, <1>3 DEF Path
<1>8. ASSUME NEW n \in Nat, n \in G
      PROVE  n + 1 \in G
  <2> SUFFICES ASSUME n + 1 \in 0..Len(q) PROVE Same(f[n + 1], g[n + 1])
    OBVIOUS
  <2>1. n \in 0..Len(q) /\ n + 1 \in 1..Len(q) /\ (n + 1) - 1 = n
    BY <1>6
  <2>2. Same(f[n], g[n]) /\ Sound(f[n]) /\ f[n + 1] = Cohort(f[n], q[n + 1])
    BY <1>1, <1>8, <2>1 DEF Path
  <2>3. Sound(g[n]) /\ g[n + 1] = Cohort(g[n], q[n + 1])
    BY <1>2, <1>5, <2>1 DEF Path
  <2> QED  BY <2>2, <2>3, CohortSame
<1> HIDE DEF G
<1>9. Nat \subseteq G
  BY <1>7, <1>8, UpwardInduction
<1>10. Len(q) \in 0..Len(q)
  BY <1>6
<1> QED  BY <1>1, <1>2, <1>5, <1>6, <1>9, <1>10 DEF G

-----------------------------------------------------------------------------
(* The positions of a key in a history, and who is at them. *)
PositionsOf(q, by, key) == {i \in DOMAIN q : q[i][by] = key}

LEMMA HistoryIs ==
    ASSUME NEW q, NEW by \in {"actor", "counterparty", "kind"},
           NEW i \in DOMAIN q
    PROVE  /\ q[i][by] \in DOMAIN Histories(q)[by]
           /\ Histories(q)[by][q[i][by]] =
                {<<q[j], Place(PositionsOf(q, by, q[i][by]), j)>> : j \in PositionsOf(q, by, q[i][by])}
<1>1. Histories(q)[by] =
        [key \in {q[j][by] : j \in DOMAIN q} |->
            {<<q[j], Place(PositionsOf(q, by, key), j)>> : j \in PositionsOf(q, by, key)}]
  BY DEF Histories, PositionsOf
<1> QED  BY <1>1

(* The places are in the order of the positions. *)
LEMMA PlacesRise ==
    ASSUME NEW n \in Nat, NEW P \in SUBSET (1..n), NEW i \in P, NEW j \in P
    PROVE  /\ Place(P, i) \in Nat
           /\ i < j <=> Place(P, i) < Place(P, j)
<1> DEFINE U(k) == {m \in P : m <= k}
<1>0. \A m \in P : m \in Nat
  OBVIOUS
<1>1. IsFiniteSet(P)
  <2>1. IsFiniteSet(1..n)
    BY FS_Interval
  <2> QED  BY <2>1, FS_Subset
<1>2. \A k \in P : IsFiniteSet(U(k)) /\ Cardinality(U(k)) \in Nat
  BY <1>1, FS_Subset, FS_CardinalityType
<1>3. \A k, m \in P : k <= m => Cardinality(U(k)) <= Cardinality(U(m))
  <2> SUFFICES ASSUME NEW k \in P, NEW m \in P, k <= m
               PROVE  Cardinality(U(k)) <= Cardinality(U(m))
    OBVIOUS
  <2>1. U(k) \in SUBSET U(m)
    <3>1. \A x \in P : x <= k => x <= m
      BY <1>0
    <3> QED  BY <3>1
  <2> HIDE DEF U
  <2> QED  BY <1>2, <2>1, FS_Subset
<1>4. \A k, m \in P : k < m => Cardinality(U(k)) < Cardinality(U(m))
  <2> SUFFICES ASSUME NEW k \in P, NEW m \in P, k < m
               PROVE  Cardinality(U(k)) < Cardinality(U(m))
    OBVIOUS
  <2>1. m \notin U(k) /\ U(k) \cup {m} \in SUBSET U(m)
    <3>1. /\ \A x \in P : x <= k => x <= m
          /\ ~(m <= k) /\ m <= m
      BY <1>0
    <3> QED  BY <3>1
  <2> HIDE DEF U
  <2>2. Cardinality(U(k) \cup {m}) = Cardinality(U(k)) + 1
    BY <1>2, <2>1, FS_AddElement
  <2>3. Cardinality(U(k) \cup {m}) <= Cardinality(U(m))
    BY <1>2, <2>1, FS_Subset
  <2> QED  BY <1>2, <2>2, <2>3
<1>5. Place(P, i) = Cardinality(U(i)) /\ Place(P, j) = Cardinality(U(j))
  BY DEF Place
<1> HIDE DEF U
<1> QED  BY <1>2, <1>3, <1>4, <1>5

(* The histories keep the order of any two admitted events that have something
   in common. *)
LEMMA HistoriesOrder ==
    ASSUME NEW p, IsSequence(p), Unrepeated(p), NEW q, IsSequence(q), Unrepeated(q),
           Histories(p) = Histories(q),
           NEW by \in {"actor", "counterparty", "kind"},
           NEW i \in DOMAIN p, NEW j \in DOMAIN p, NEW k \in DOMAIN q, NEW m \in DOMAIN q,
           p[i] = q[k], p[j] = q[m], p[i][by] = p[j][by]
    PROVE  i < j <=> k < m
<1> DEFINE key == p[i][by]
           P == PositionsOf(p, by, key)
           Q == PositionsOf(q, by, key)
<1>1. /\ i \in P /\ j \in P /\ k \in Q /\ m \in Q
  BY DEF PositionsOf
<1>2. \E n \in Nat : DOMAIN p = 1..n
  BY LenProperties DEF IsSequence
<1>3. \E n \in Nat : DOMAIN q = 1..n
  BY LenProperties DEF IsSequence
<1>4. P \subseteq DOMAIN p /\ Q \subseteq DOMAIN q
  BY DEF PositionsOf
<1>5. {<<p[x], Place(P, x)>> : x \in P} = {<<q[x], Place(Q, x)>> : x \in Q}
  <2>1. Histories(p)[by][p[i][by]] = {<<p[x], Place(P, x)>> : x \in P}
    BY HistoryIs
  <2>2. Histories(q)[by][q[k][by]] = {<<q[x], Place(Q, x)>> : x \in Q}
    <3>1. q[k][by] = key
      OBVIOUS
    <3> HIDE DEF key
    <3> QED  BY <3>1, HistoryIs
  <2> QED  BY <2>1, <2>2
<1> HIDE DEF P, Q, key
<1>6. ASSUME NEW x \in P, NEW y \in Q, p[x] = q[y]
      PROVE  Place(P, x) = Place(Q, y)
  <2>1. PICK z \in Q : <<p[x], Place(P, x)>> = <<q[z], Place(Q, z)>>
    BY <1>5
  <2>2. q[z] = q[y]
    BY <1>6, <2>1
  <2>3. z = y
    BY <1>4, <2>2 DEF Unrepeated
  <2> QED  BY <2>1, <2>3
<1>7. Place(P, i) = Place(Q, k) /\ Place(P, j) = Place(Q, m)
  BY <1>1, <1>6
<1>8. i < j <=> Place(P, i) < Place(P, j)
  BY <1>1, <1>2, <1>4, PlacesRise
<1>9. k < m <=> Place(Q, k) < Place(Q, m)
  BY <1>1, <1>3, <1>4, PlacesRise
<1> QED  BY <1>7, <1>8, <1>9

LEMMA HistoriesOpen ==
    ASSUME NEW p, IsSequence(p), Unrepeated(p), NEW q, IsSequence(q), Unrepeated(q),
           Histories(p) = Histories(q), ToSet(p) = ToSet(q), ToSet(p) \subseteq Events
    PROVE  Openings(p) \subseteq Openings(q)
<1> SUFFICES ASSUME NEW d, d \in Openings(p)
             PROVE  d \in Openings(q)
  OBVIOUS
<1>1. PICK i \in DOMAIN p : /\ p[i] = d /\ IsDecision(d)
                            /\ \A k \in 1..(i - 1) : ~Rivals(d, p[k])
  BY OpeningsOf
<1>2. \E n \in Nat : DOMAIN p = 1..n
  BY LenProperties DEF IsSequence
<1>3. \E n \in Nat : DOMAIN q = 1..n
  BY LenProperties DEF IsSequence
<1>4. /\ \A x \in DOMAIN p : p[x] \in Events /\ \E y \in DOMAIN q : q[y] = p[x]
      /\ \A y \in DOMAIN q : \E x \in DOMAIN p : p[x] = q[y]
  BY DEF ToSet
<1>5. PICK k \in DOMAIN q : q[k] = d
  BY <1>1, <1>4
<1>6. ASSUME NEW m \in 1..(k - 1), Rivals(d, q[m])
      PROVE  FALSE
  <2>1. m \in DOMAIN q /\ m < k /\ m # k
    BY <1>3
  <2>2. PICK j \in DOMAIN p : p[j] = q[m]
    BY <1>4, <2>1
  <2>3. q[m] # d
    BY <1>5, <2>1 DEF Unrepeated
  <2>4. ~(j < i) /\ j # i
    BY <1>1, <1>2, <1>6, <2>2, <2>3
  <2>5. i < j
    BY <1>2, <2>4
  <2>6. d \in Events /\ q[m] \in Events /\ IsDecision(q[m]) /\ d.payment = q[m].payment
    BY <1>1, <1>4, <1>6, <2>2 DEF Rivals
  <2>7. PICK by \in {"actor", "counterparty", "kind"} : d[by] = q[m][by]
    BY <1>1, <2>6, PaymentsRecognisable DEF IsDecision
  <2>8. i < j <=> k < m
    BY <1>1, <1>5, <2>1, <2>2, <2>7, HistoriesOrder
  <2> QED  BY <1>3, <2>1, <2>5, <2>8
<1> QED  BY <1>1, <1>5, <1>6, OpeningsOf

LEMMA RestoredIs ==
    ASSUME NEW s, Settled(s), Restorable(s)
    PROVE  Settled(Restored(s)) /\ Same(Restored(s), s)
<1> DEFINE r == Restored(s)
           q == Readmitted(s)
<1>1. /\ IsState(r) /\ r.known = s.known /\ r.admitted = q /\ r.emitted = s.emitted
      /\ r.late = s.late /\ r.watermark = s.watermark /\ r.rows = s.rows
  BY DEF Restored, IsState, Settled, Sound
<1> HIDE DEF r
<1>2. Identified(Admitted(s))
  BY PartIdentified DEF Settled, Sound
<1>3. /\ Orders(InBefore(Admitted(s)), Admitted(s))
      /\ Lists(q, Admitted(s), InBefore(Admitted(s)))
  BY <1>2, SortedBefore DEF Readmitted
<1> HIDE DEF q
<1>4. IsSequence(q) /\ ToSet(q) = Admitted(s) /\ Unrepeated(q)
  BY <1>3, ListIsSequence, RankInList DEF Unrepeated
<1>5. Admitted(r) = Admitted(s)
  BY <1>1, <1>4 DEF Admitted
<1>6. Openings(q) = Openings(s.admitted)
  <2>1. Histories(q) = Histories(s.admitted)
    BY DEF Restorable, q
  <2>2. IsSequence(s.admitted) /\ Unrepeated(s.admitted) /\ ToSet(s.admitted) = Admitted(s)
    BY DEF Settled, Sound, Admitted
  <2>3. Admitted(s) \subseteq Events
    BY <1>2 DEF Identified
  <2> DEFINE p == s.admitted
  <2>4. /\ IsSequence(p) /\ Unrepeated(p) /\ IsSequence(q) /\ Unrepeated(q)
        /\ Histories(q) = Histories(p) /\ ToSet(q) = ToSet(p) /\ ToSet(p) \subseteq Events
    BY <1>4, <2>1, <2>2, <2>3
  <2> HIDE DEF p
  <2>5. Openings(q) \subseteq Openings(p)
    BY <2>4, HistoriesOpen
  <2>6. Openings(p) \subseteq Openings(q)
    BY <2>4, HistoriesOpen
  <2> QED  BY <2>5, <2>6 DEF p
<1>7. Same(r, s)
  BY <1>1, <1>5, <1>6 DEF Same
<1>8. Sound(s) /\ s.emitted = {e \in s.known : IsDecision(e)}
  BY DEF Settled
<1>9. Sound(r)
  BY <1>1, <1>4, <1>5, <1>8 DEF Sound
<1>10. Settled(r)
  BY <1>1, <1>8, <1>9 DEF Settled
<1> QED  BY <1>7, <1>10 DEF r

LEMMA SameExact ==
    ASSUME NEW a, NEW b, Same(a, b), Exact(b)
    PROVE  Exact(a)
BY DEF Same, Exact

(* Every decision has its row; as long as nothing came late, what has been
   admitted and what opened the payments is what the known events determine;
   and no row can tell the restored state from the other. *)
FeatureIInv ==
    /\ Settled(live) /\ Settled(twin)
    /\ Punctual => Exact(live)
    /\ Same(live, twin)

LEMMA FeatureStep ==
    ASSUME FeatureIInv, [FeatureNext]_featureVars
    PROVE  FeatureIInv'
<1>1. ASSUME NEW events \in SUBSET Events, IsFiniteSet(events), Process(events)
      PROVE  FeatureIInv'
  <2>1. Refused(live, events) <=> Refused(twin, events)
    BY RememberSame DEF FeatureIInv, Settled
  <2>2. CASE Refused(live, events)
    <3>1. live' = live /\ twin' = twin
      BY <1>1, <2>1, <2>2 DEF Process
    <3> QED  BY <3>1 DEF FeatureIInv, Punctual
  <2>3. CASE ~Refused(live, events)
    <3>1. live' = Processed(live, events) /\ twin' = Processed(twin, events)
      BY <1>1, <2>1, <2>3 DEF Process
    <3>2. Call(live, events) /\ Call(twin, events)
      BY <1>1, <2>1, <2>3 DEF Call, FeatureIInv
    <3>3. Settled(live') /\ Settled(twin') /\ DOMAIN live'.late = New(live, events) \cup DOMAIN live.late
      BY <3>1, <3>2, ProcessedIs
    <3>4. Same(live', twin')
      BY <3>1, <3>2, ProcessedSame DEF FeatureIInv
    <3>5. ASSUME DOMAIN live'.late = {} PROVE Exact(live')
      <4>1. Exact(live)
        BY <3>3, <3>5 DEF FeatureIInv, Punctual
      <4> QED  BY <3>1, <3>2, <3>5, <4>1, ProcessedExact
    <3> QED  BY <3>3, <3>4, <3>5 DEF FeatureIInv, Punctual
  <2> QED  BY <2>2, <2>3
<1>2. ASSUME Restart
      PROVE  FeatureIInv'
  <2>1. /\ live' = Restored(live) /\ twin' = twin /\ Settled(live) /\ Restorable(live)
    BY <1>2 DEF Restart, FeatureIInv
  <2>2. Settled(live') /\ Same(live', live)
    BY <2>1, RestoredIs
  <2>3. Same(live', twin)
    BY <2>2 DEF FeatureIInv, Same
  <2>4. DOMAIN live'.late = {} => Exact(live')
    BY <2>2, SameExact DEF FeatureIInv, Punctual, Same
  <2> QED  BY <2>1, <2>2, <2>3, <2>4 DEF FeatureIInv, Punctual
<1>3. CASE UNCHANGED featureVars
  BY <1>3 DEF featureVars, FeatureIInv, Punctual
<1> QED  BY <1>1, <1>2, <1>3 DEF FeatureNext

THEOREM FeatureInvariant == FeatureSpec => []FeatureIInv
<1>1. FeatureInit => FeatureIInv
  <2>1. Same(Fresh, Fresh)
    BY DEF Same
  <2> QED  BY <2>1, FreshIs DEF FeatureInit, FeatureIInv
<1> QED  BY <1>1, FeatureStep, PTL DEF FeatureSpec

(* However the events are cut into calls, repeated, refused or interrupted by
   restarts, every decision accepted has one row, in order and made of what was
   available before it; and until something comes late, the rows are those of
   one call with everything. *)
THEOREM StreamIsExact == FeatureSpec => []StreamExact
<1>1. FeatureIInv => StreamExact
  <2> SUFFICES ASSUME FeatureIInv PROVE StreamExact
    OBVIOUS
  <2>1. RowsOnceInOrder
    BY DEF FeatureIInv, Settled, Sound, Ordered, RowsOnceInOrder
  <2>2. OnlineIsOffline
    BY RowsDetermined DEF FeatureIInv, OnlineIsOffline
  <2> QED  BY <2>1, <2>2 DEF StreamExact
<1> QED  BY <1>1, FeatureInvariant, PTL

(* Wherever restore accepts a checkpoint, every later row is the one an
   uninterrupted state would have given, late events or not. *)
THEOREM RestartsInvisible == FeatureSpec => []RestartInvisible
<1>1. FeatureIInv => RestartInvisible
  BY DEF FeatureIInv, Same, RestartInvisible
<1> QED  BY <1>1, FeatureInvariant, PTL
-----------------------------------------------------------------------------
(***************************************************************************)
(* CASE QUEUE                                                               *)
(*                                                                          *)
(* For any cases with times and priorities.  The queue remembers one slot;  *)
(* Fair says what that slot stands for after some of the cases.             *)
(***************************************************************************)
LEMMA Divided ==
    ASSUME NEW a \in Nat, NEW v \in Nat \ {0}
    PROVE  /\ a \div v \in Nat /\ a % v \in 0..(v - 1)
           /\ a = v * (a \div v) + (a % v)
  OBVIOUS

LEMMA ProductLess ==
    ASSUME NEW v \in Nat \ {0}, NEW j \in Int, NEW k \in Int
    PROVE  /\ j < k <=> v * j < v * k
           /\ v * j \in Int
           /\ v * (k - 1) = v * k - v
           /\ v * (k + 1) = v * k + v
           /\ v * (j + k) = v * j + v * k
  OBVIOUS
LEMMA FirstSlotIs ==
    ASSUME NEW c \in Configs, NEW o \in Nat
    PROVE  \E k \in 0..o : /\ FirstSlot(o, c) = c.service * k
                          /\ o <= c.service * k /\ c.service * k < o + c.service
<1> DEFINE v == c.service
           B == c.bucket
           q == B \div v
           s == o \div B
           d == o - s * B
           w == (d + v - 1) \div v
           k == s * q + w
<1>1. v \in Nat \ {0} /\ B \in Nat \ {0} /\ B % v = 0
  <2>1. v \in Nat \ {0} /\ v <= B /\ B % v = 0 /\ B \in Nat
    BY ConfigsValid
  <2> QED  BY <2>1
<1>2. FirstSlot(o, c) = IF w >= q THEN s * B + B ELSE s * B + w * v
  BY DEF FirstSlot
<1> HIDE DEF v, B
<1>3. q \in Nat /\ B = v * q
  BY <1>1, Divided
<1>4. s \in Nat /\ o = B * s + (o % B) /\ o % B \in 0..(B - 1)
  BY <1>1, Divided
<1>5. d \in 0..(B - 1) /\ o = s * B + d
  BY <1>1, <1>4
<1> HIDE DEF q, s, d
<1>6. w \in Nat /\ d + v - 1 = v * w + ((d + v - 1) % v) /\ (d + v - 1) % v \in 0..(v - 1)
  <2>1. d + v - 1 \in Nat
    BY <1>1, <1>5
  <2> QED  BY <1>1, <2>1, Divided
<1> HIDE DEF w
<1>7. d <= v * w /\ v * w < d + v /\ v * w \in Nat
  BY <1>1, <1>5, <1>6
<1>8. k \in Nat /\ v * k = s * B + v * w /\ w * v = v * w
  <2>1. s * q \in Nat /\ v * (s * q) = s * B
    BY <1>1, <1>3, <1>4
  <2>2. k \in Nat
    BY <1>6, <2>1
  <2>3. v * (s * q + w) = v * (s * q) + v * w
    BY <1>1, <1>6, <2>1, ProductLess
  <2>4. w * v = v * w
    BY <1>1, <1>6
  <2> QED  BY <2>1, <2>2, <2>3, <2>4
<1> HIDE DEF k
<1>9. w >= q => v * w = B
  <2> SUFFICES ASSUME w >= q PROVE v * w = B
    OBVIOUS
  <2>1. v * w < v * (q + 1)
    <3>1. v * (q + 1) = v * q + v
      BY <1>1, <1>3, ProductLess
    <3>2. v * q \in Int
      BY <1>1, <1>3
    <3> QED  BY <1>1, <1>3, <1>5, <1>7, <3>1, <3>2
  <2>2. w < q + 1
    <3>1. q + 1 \in Int /\ w \in Int
      BY <1>3, <1>6
    <3> QED  BY <1>1, <2>1, <3>1, ProductLess
  <2>3. w = q
    BY <1>3, <1>6, <2>2
  <2> QED  BY <1>3, <2>3
<1>10. s * B \in Nat
  BY <1>1, <1>4
<1>11. FirstSlot(o, c) = v * k
  BY <1>2, <1>8, <1>9
<1>12. o <= v * k /\ v * k < o + v
  BY <1>1, <1>5, <1>7, <1>8, <1>10
<1>13. k <= o
  <2> SUFFICES ASSUME k > o PROVE FALSE
    BY <1>8
  <2>1. v * (o + 1) = v * o + v /\ v * o \in Int /\ o <= v * o
    BY <1>1
  <2>2. v * (o + 1) <= v * k
    BY <1>1, <1>8
  <2> QED  BY <1>1, <1>8, <1>10, <1>7, <1>12, <2>1, <2>2
<1>14. k \in 0..o
  BY <1>8, <1>13
<1> QED  BY <1>11, <1>12, <1>14 DEF v
-----------------------------------------------------------------------------
(* The cases a queue may be given. *)
Queueable(S) ==
    /\ IsFiniteSet(S)
    /\ \A a \in S : a.opened \in Nat /\ a.priority \in Int /\ DigestRank[a.id] \in Nat
    /\ \A a, b \in S : DigestRank[a.id] = DigestRank[b.id] => a = b

InAhead(S) == {p \in S \X S : Ahead(p[1], p[2])}

LEMMA SortedAhead ==
    ASSUME NEW S, Queueable(S)
    PROVE  Lists(Sorted(S, Ahead), S, InAhead(S))
<1> DEFINE R == InAhead(S)
           q == Sorted(S, Ahead)
<1>1. \A e, f \in S : <<e, f>> \in R <=> Ahead(e, f)
  BY DEF InAhead
<1> HIDE DEF R
<1>2. Orders(R, S)
  <2>1. \A a \in S : a.opened \in Nat /\ a.priority \in Int /\ DigestRank[a.id] \in Nat
    BY DEF Queueable
  <2>2. \A e, f \in S : DigestRank[e.id] = DigestRank[f.id] => e = f
    BY DEF Queueable
  <2>3. \A e, f \in S :
           Ahead(e, f) <=>
              \/ e.opened < f.opened
              \/ e.opened = f.opened /\ e.priority > f.priority
              \/ /\ e.opened = f.opened /\ e.priority = f.priority
                 /\ DigestRank[e.id] < DigestRank[f.id]
    BY DEF Ahead
  <2>4. \A e, f \in S : Ahead(e, f) => ~Ahead(f, e)
    BY <2>1, <2>3
  <2>5. \A e, f, g \in S : Ahead(e, f) /\ Ahead(f, g) => Ahead(e, g)
    BY <2>1, <2>3
  <2>6. \A e, f \in S : e = f \/ Ahead(e, f) \/ Ahead(f, e)
    BY <2>1, <2>2, <2>3
  <2> QED  BY <1>1, <2>4, <2>5, <2>6 DEF Orders
<1>3. \A e \in S : {f \in S : Ahead(f, e)} = Below(R, S, e)
  BY <1>1 DEF Below
<1>4. q = [i \in 1..Cardinality(S) |-> CHOOSE e \in S : Cardinality({f \in S : Ahead(f, e)}) = i - 1]
  BY DEF Sorted
<1>5. ASSUME NEW i \in 1..Cardinality(S), \E e \in S : Rank(R, S, e) = i - 1
      PROVE  q[i] \in S /\ Rank(R, S, q[i]) = i - 1
  <2>1. \E e \in S : Cardinality({f \in S : Ahead(f, e)}) = i - 1
    BY <1>3, <1>5 DEF Rank
  <2>2. q[i] = CHOOSE e \in S : Cardinality({f \in S : Ahead(f, e)}) = i - 1
    BY <1>4
  <2>3. q[i] \in S /\ Cardinality({f \in S : Ahead(f, q[i])}) = i - 1
    BY <2>1, <2>2, Zenon
  <2> QED  BY <1>3, <2>3 DEF Rank
<1>6. q = [i \in 1..Cardinality(S) |-> q[i]]
  BY <1>4
<1> HIDE DEF q
<1>7. Lists(q, S, R)
  BY <1>2, <1>5, <1>6, ListsAll DEF Queueable
<1> QED  BY <1>7 DEF q, R
EmptyQueue == [slot |-> -1, uses |-> 0, started |-> <<>>]

(* The cases of a list, allocated one after the other. *)
Queueing(order, c, n, after) ==
    after = [i \in 0..n |-> IF i = 0 THEN EmptyQueue ELSE Allocate(after[i - 1], order[i], c)]

LEMMA QueueingExists ==
    ASSUME NEW order, NEW c
    PROVE  \A n \in Nat : \E after : Queueing(order, c, n, after)
<1> DEFINE G == {n \in Nat : \E after : Queueing(order, c, n, after)}
<1>1. 0 \in G
  <2> DEFINE h == [i \in 0..0 |-> EmptyQueue]
  <2>1. Queueing(order, c, 0, h)
    BY DEF Queueing
  <2> QED  BY <2>1
<1>2. ASSUME NEW n \in Nat, n \in G
      PROVE  n + 1 \in G
  <2>1. PICK h : Queueing(order, c, n, h)
    BY <1>2
  <2> DEFINE next == Allocate(h[n], order[(n + 1)], c)
             g == [i \in 0..(n + 1) |-> IF i = n + 1 THEN next ELSE h[i]]
  <2>2. \A i \in 0..n : h[i] = IF i = 0 THEN EmptyQueue ELSE Allocate(h[i - 1], order[i], c)
    BY <2>1 DEF Queueing
  <2>3. \A i \in 0..n : g[i] = h[i]
    OBVIOUS
  <2>4. g[n + 1] = next
    OBVIOUS
  <2>5. g = [i \in 0..(n + 1) |-> g[i]]
    OBVIOUS
  <2> HIDE DEF g
  <2>6. \A i \in 0..(n + 1) : g[i] = IF i = 0 THEN EmptyQueue ELSE Allocate(g[i - 1], order[i], c)
    <3> SUFFICES ASSUME NEW i \in 0..(n + 1)
                 PROVE  g[i] = IF i = 0 THEN EmptyQueue ELSE Allocate(g[i - 1], order[i], c)
      OBVIOUS
    <3>1. CASE i = n + 1
      <4>1. i # 0 /\ i - 1 = n /\ n \in 0..n
        BY <3>1
      <4> QED  BY <2>3, <2>4, <3>1, <4>1
    <3>2. CASE i # n + 1
      <4>1. i \in 0..n /\ (i # 0 => i - 1 \in 0..n)
        BY <3>2
      <4> QED  BY <2>2, <2>3, <4>1
    <3> QED  BY <3>1, <3>2
  <2>7. Queueing(order, c, n + 1, g)
    BY <2>5, <2>6 DEF Queueing
  <2> QED  BY <2>7
<1> HIDE DEF G
<1>3. Nat \subseteq G
  BY <1>1, <1>2, UpwardInduction
<1> QED  BY <1>3 DEF G

LEMMA SnapshotsRun ==
    ASSUME NEW S, NEW c, Len(Sorted(S, Ahead)) \in Nat
    PROVE  \E after :
              /\ after[0] = EmptyQueue
              /\ \A i \in 1..Len(Sorted(S, Ahead)) :
                    after[i] = Allocate(after[i - 1], Sorted(S, Ahead)[i], c)
              /\ Snapshots(S, c) = after[Len(Sorted(S, Ahead))].started
<1> DEFINE q == Sorted(S, Ahead)
           n == Len(q)
           a == CHOOSE after : Queueing(q, c, n, after)
<1>1. Queueing(q, c, n, a)
  BY QueueingExists
<1>2. Snapshots(S, c) = a[n].started
  BY DEF Snapshots, Queueing, EmptyQueue
<1> HIDE DEF a
<1>3. \A i \in 0..n : a[i] = IF i = 0 THEN EmptyQueue ELSE Allocate(a[i - 1], q[i], c)
  BY <1>1 DEF Queueing
<1>4. a[0] = EmptyQueue /\ \A i \in 1..n : a[i] = Allocate(a[i - 1], q[i], c)
  BY <1>3
<1> QED  BY <1>2, <1>4
-----------------------------------------------------------------------------
(* Of the first i that were started, those in one slot. *)
Taken(started, i, t) == {j \in 1..i : started[j].at = t}

(* What is true of a queue after the first i cases of q: the slots before the
   last are full from the arrival of its case on, so that no other slot has to
   be remembered. *)
Fair(queue, q, c, i) ==
    LET s == queue.started
    IN  /\ IsSequence(s) /\ Len(s) = i
        /\ \A j \in 1..i : s[j].case = q[j]
        /\ i = 0 => queue.slot = -1
        /\ i > 0 => /\ queue.slot = s[i].at
                    /\ queue.uses = Cardinality(Taken(s, i, queue.slot))
                    /\ queue.uses <= c.analysts
        /\ \A j \in 1..i : /\ \E k \in 0..(MaxTime + j) : s[j].at = c.service * k
                           /\ q[j].opened <= s[j].at /\ s[j].at <= queue.slot
                           /\ Cardinality(Taken(s, j - 1, s[j].at)) < c.analysts
        /\ \A j \in 1..i : \A k \in Nat :
              q[j].opened <= c.service * k /\ c.service * k < s[j].at =>
                 Cardinality(Taken(s, j - 1, c.service * k)) >= c.analysts

LEMMA TakenFinite ==
    ASSUME NEW s, NEW i \in Nat, NEW t
    PROVE  /\ IsFiniteSet(Taken(s, i, t)) /\ Cardinality(Taken(s, i, t)) \in Nat
           /\ s[i + 1].at = t => Taken(s, i + 1, t) = Taken(s, i, t) \cup {i + 1}
           /\ s[i + 1].at # t => Taken(s, i + 1, t) = Taken(s, i, t)
           /\ i + 1 \notin Taken(s, i, t)
<1>1. IsFiniteSet(1..i)
  BY FS_Interval
<1>2. Taken(s, i, t) \subseteq 1..i
  BY DEF Taken
<1>3. 1..(i + 1) = (1..i) \cup {i + 1} /\ i + 1 \notin 1..i
  OBVIOUS
<1>4. /\ s[i + 1].at = t => Taken(s, i + 1, t) = Taken(s, i, t) \cup {i + 1}
      /\ s[i + 1].at # t => Taken(s, i + 1, t) = Taken(s, i, t)
  BY <1>3 DEF Taken
<1> QED  BY <1>1, <1>2, <1>3, <1>4, FS_Subset, FS_CardinalityType

LEMMA TakenPasses ==
    ASSUME NEW s, NEW i \in Nat, NEW t, s[i + 1].at # t
    PROVE  Taken(s, i + 1, t) = Taken(s, i, t)
  BY TakenFinite

LEMMA EmptyFair == ASSUME NEW q, NEW c PROVE Fair(EmptyQueue, q, c, 0)
  BY EmptyIsSequence DEF Fair, EmptyQueue

LEMMA AllocateFair ==
    ASSUME NEW c \in Configs, NEW queue, NEW q, NEW i \in Nat, Fair(queue, q, c, i),
           \A j \in 1..(i + 1) : q[j].opened \in 0..MaxTime,
           i > 0 => q[i].opened <= q[i + 1].opened
    PROVE  Fair(Allocate(queue, q[i + 1], c), q, c, i + 1)
<1> DEFINE v == c.service
           A == c.analysts
           case == q[i + 1]
           o == case.opened
           s == queue.started
           next == IF queue.slot < 0 THEN 0 ELSE queue.slot + v
           earliest == FirstSlot(o, c)
           begin == IF queue.slot >= 0 /\ o <= queue.slot /\ queue.uses < A THEN queue.slot
                    ELSE IF earliest >= next THEN earliest ELSE next
           new == Allocate(queue, case, c)
           r == new.started
<1>1. v \in Nat \ {0} /\ A \in Nat \ {0} /\ MaxTime \in Nat /\ o \in 0..MaxTime
  BY ConfigsValid, RowsTyped
<1>2. /\ IsSequence(s) /\ Len(s) = i
      /\ \A j \in 1..i : s[j].case = q[j]
      /\ i = 0 => queue.slot = -1
      /\ i > 0 => /\ queue.slot = s[i].at
                  /\ queue.uses = Cardinality(Taken(s, i, queue.slot))
                  /\ queue.uses <= A
      /\ \A j \in 1..i : /\ \E k \in 0..(MaxTime + j) : s[j].at = v * k
                         /\ q[j].opened <= s[j].at /\ s[j].at <= queue.slot
                         /\ Cardinality(Taken(s, j - 1, s[j].at)) < A
      /\ \A j \in 1..i : \A k \in Nat :
            q[j].opened <= v * k /\ v * k < s[j].at => Cardinality(Taken(s, j - 1, v * k)) >= A
  BY DEF Fair
<1>3. /\ new.slot = begin
      /\ new.uses = IF begin = queue.slot THEN queue.uses + 1 ELSE 1
      /\ r = Append(s, [case |-> case, at |-> begin])
  BY DEF Allocate
<1>4. PICK e \in 0..o : earliest = v * e /\ o <= v * e /\ v * e < o + v
  <2>1. o \in Nat
    BY <1>1
  <2> HIDE DEF o
  <2> QED  BY <2>1, FirstSlotIs
<1> HIDE DEF earliest, v, A, case, o, s
<1>5. IsSequence(r) /\ Len(r) = i + 1 /\ r[i + 1] = [case |-> case, at |-> begin]
      /\ \A j \in 1..i : r[j] = s[j]
  <2> HIDE DEF begin, r
  <2> QED  BY <1>2, <1>3, Extended
<1> HIDE DEF new, r
<1>6. \A j \in 0..i : \A t : Taken(r, j, t) = Taken(s, j, t)
  BY <1>5 DEF Taken
<1>7. i > 0 => \E k \in 0..(MaxTime + i) : queue.slot = v * k
  BY <1>2
<1>8. i > 0 => queue.slot \in Nat
  BY <1>1, <1>7
<1>9. \E k \in 0..(MaxTime + i + 1) : begin = v * k
  <2>1. CASE begin = earliest
    <3>1. e \in 0..(MaxTime + i + 1)
      BY <1>1, <1>4
    <3> QED  BY <1>4, <2>1, <3>1
  <2>2. CASE begin = queue.slot /\ i > 0
    <3>1. PICK k \in 0..(MaxTime + i) : queue.slot = v * k
      BY <1>7, <2>2
    <3>2. k \in 0..(MaxTime + i + 1)
      BY <1>1
    <3> QED  BY <2>2, <3>1, <3>2
  <2>3. CASE begin = next /\ i > 0
    <3>1. PICK k \in 0..(MaxTime + i) : queue.slot = v * k
      BY <1>7, <2>3
    <3>2. k + 1 \in 0..(MaxTime + i + 1) /\ v * (k + 1) = v * k + v
      BY <1>1, ProductLess
    <3>3. next = v * (k + 1)
      BY <1>8, <2>3, <3>1, <3>2
    <3> QED  BY <2>3, <3>2, <3>3
  <2>4. CASE i = 0
    <3>1. queue.slot = -1 /\ begin = earliest
      <4>1. queue.slot = -1
        BY <1>2, <2>4
      <4>2. earliest \in Nat
        BY <1>1, <1>4
      <4> QED  BY <4>1, <4>2
    <3> QED  BY <2>1, <3>1
  <2> QED  BY <2>1, <2>2, <2>3, <2>4
<1>10. begin \in Nat /\ o <= begin /\ queue.slot <= begin
  <2>1. begin \in Nat
    BY <1>1, <1>9
  <2>2. earliest \in Nat /\ o <= earliest /\ queue.slot \in Int
    BY <1>1, <1>2, <1>4, <1>8
  <2> QED  BY <1>1, <2>1, <2>2
<1>11. \A j \in 1..i : s[j].at \in Nat /\ s[j].at <= queue.slot
  <2> SUFFICES ASSUME NEW j \in 1..i PROVE s[j].at \in Nat /\ s[j].at <= queue.slot
    OBVIOUS
  <2>1. \E k \in 0..(MaxTime + j) : s[j].at = v * k
    BY <1>2
  <2> QED  BY <1>1, <1>2, <2>1
<1>12. begin # queue.slot => Taken(r, i, begin) = {} /\ Cardinality(Taken(r, i, begin)) = 0
  <2> SUFFICES ASSUME begin # queue.slot, NEW j \in 1..i PROVE s[j].at # begin
    <3>1. (\A j \in 1..i : s[j].at # begin) => Taken(s, i, begin) = {}
      BY DEF Taken
    <3> QED  BY <1>6, <3>1, FS_EmptySet
  <2>1. queue.slot < begin /\ i > 0
    BY <1>8, <1>10
  <2> QED  BY <1>8, <1>10, <1>11, <2>1
<1>13. begin = queue.slot => /\ i > 0 /\ queue.uses < A
                             /\ Cardinality(Taken(r, i, begin)) = queue.uses
  <2> SUFFICES ASSUME begin = queue.slot
               PROVE  i > 0 /\ queue.uses < A /\ Cardinality(Taken(r, i, begin)) = queue.uses
    OBVIOUS
  <2>1. i > 0
    BY <1>2, <1>10
  <2>2. queue.uses < A
    <3> SUFFICES ASSUME ~(queue.uses < A) PROVE FALSE
      OBVIOUS
    <3>1. next = queue.slot + v
      BY <1>8, <2>1
    <3>2. earliest \in Nat
      BY <1>1, <1>4
    <3> QED  BY <1>1, <1>8, <2>1, <3>1, <3>2
  <2> QED  BY <1>2, <1>6, <2>1, <2>2
<1>14. Cardinality(Taken(r, i, begin)) < A
  BY <1>1, <1>12, <1>13
<1>15. new.uses = Cardinality(Taken(r, i + 1, begin)) /\ new.uses <= A
  <2>1. Taken(r, i + 1, begin) = Taken(r, i, begin) \cup {i + 1} /\ i + 1 \notin Taken(r, i, begin)
    <3>1. r[i + 1].at = begin
      BY <1>5
    <3> HIDE DEF begin
    <3> QED  BY <3>1, TakenFinite
  <2>2. Cardinality(Taken(r, i + 1, begin)) = Cardinality(Taken(r, i, begin)) + 1
    <3>1. IsFiniteSet(Taken(r, i, begin))
      <4> HIDE DEF begin
      <4> QED  BY TakenFinite
    <3> QED  BY <2>1, <3>1, FS_AddElement
  <2>3. Cardinality(Taken(r, i, begin)) \in Nat
    BY TakenFinite
  <2>4. CASE begin = queue.slot
    BY <1>1, <1>3, <1>13, <2>2, <2>3, <2>4
  <2>5. CASE begin # queue.slot
    BY <1>1, <1>3, <1>12, <2>2, <2>3, <2>5
  <2> QED  BY <2>4, <2>5
(* The slots from the arrival of this case on. *)
<1>16. ASSUME NEW k \in Nat, o <= v * k, v * k < begin
       PROVE  Cardinality(Taken(r, i, v * k)) >= A
  <2> DEFINE t == v * k
  <2>1. t \in Nat
    BY <1>1
  <2>2. t < earliest => FALSE
    <3> SUFFICES ASSUME t < earliest PROVE FALSE
      OBVIOUS
    <3>1. k < e
      BY <1>1, <1>4, ProductLess
    <3>2. v * k <= v * (e - 1)
      <4>1. k <= e - 1
        BY <1>4, <3>1
      <4>2. k < e - 1 => v * k < v * (e - 1)
        BY <1>1, <1>4, ProductLess
      <4>3. v * k \in Int /\ v * (e - 1) \in Int
        BY <1>1, <1>4
      <4> QED  BY <1>4, <4>1, <4>2, <4>3
    <3>3. v * (e - 1) = v * e - v /\ v * e \in Int
      BY <1>1, <1>4, ProductLess
    <3> QED  BY <1>1, <1>4, <1>16, <2>1, <3>2, <3>3
  <2>3. earliest \in Nat
    BY <1>1, <1>4
  <2>4. i > 0 /\ earliest <= t
    <3>1. earliest <= t
      BY <2>1, <2>2, <2>3
    <3>2. i = 0 => begin = earliest
      BY <1>2, <2>3
    <3> QED  BY <1>10, <1>16, <2>1, <2>3, <3>1, <3>2
  <2>5. q[i].opened <= t /\ q[i].opened \in Int
    <3>1. q[i].opened \in 0..MaxTime /\ q[i].opened <= o
      BY <2>4 DEF case, o
    <3> QED  BY <1>1, <1>16, <2>1, <3>1
  <2>6. CASE t < queue.slot
    <3>1. Cardinality(Taken(s, i - 1, t)) >= A
      <4>1. i \in 1..i
        BY <2>4
      <4> QED  BY <1>2, <2>4, <2>5, <2>6, <4>1
    <3>2. Taken(s, i, t) = Taken(s, i - 1, t)
      <4>1. s[i].at # t
        BY <1>2, <1>8, <2>1, <2>4, <2>6
      <4>2. PICK h \in Nat : h = i - 1 /\ i = h + 1
        <5>1. i - 1 \in Nat /\ i = (i - 1) + 1
          BY <2>4
        <5> QED  BY <5>1
      <4> HIDE DEF t, s
      <4>3. s[h + 1].at # t
        BY <4>1, <4>2
      <4>4. Taken(s, h + 1, t) = Taken(s, h, t)
        BY <4>3, TakenPasses
      <4> QED  BY <4>2, <4>4
    <3> QED  BY <1>6, <3>1, <3>2
  <2>7. CASE t >= queue.slot
    <3>1. begin # queue.slot
      BY <1>8, <1>10, <1>16, <2>1, <2>4, <2>7
    <3>2. begin = next /\ next = queue.slot + v
      BY <1>8, <1>10, <1>16, <2>1, <2>3, <2>4, <3>1
    <3>3. PICK m \in 0..(MaxTime + i) : queue.slot = v * m
      BY <1>7, <2>4
    <3>4. v * (m + 1) = v * m + v
      BY <1>1, ProductLess
    <3>5. k < m + 1
      <4>1. v * k < v * (m + 1)
        BY <1>16, <3>2, <3>3, <3>4
      <4>2. k \in Int /\ m + 1 \in Int
        BY <1>1
      <4> QED  BY <1>1, <4>1, <4>2, ProductLess
    <3>6. ~(k < m)
      <4>1. k < m => v * k < v * m
        BY <1>1, ProductLess
      <4> QED  BY <1>8, <2>1, <2>4, <2>7, <3>3, <4>1
    <3>7. t = queue.slot
      <4>1. k = m
        BY <3>5, <3>6
      <4> QED  BY <3>3, <4>1
    <3>8. ~(queue.uses < A)
      <4>1. o <= queue.slot /\ queue.slot >= 0
        BY <1>8, <1>16, <2>4, <3>7
      <4> QED  BY <3>1, <4>1
    <3>9. Cardinality(Taken(s, i, t)) \in Nat /\ queue.uses = Cardinality(Taken(s, i, t))
      BY <1>2, <2>4, <3>7, TakenFinite
    <3> QED  BY <1>1, <1>6, <3>8, <3>9
  <2> QED  BY <1>8, <2>1, <2>4, <2>6, <2>7
<1> HIDE DEF begin
<1>17. ASSUME NEW j \in 1..(i + 1)
       PROVE  /\ r[j].case = q[j]
              /\ \E k \in 0..(MaxTime + j) : r[j].at = v * k
              /\ q[j].opened <= r[j].at /\ r[j].at <= new.slot
              /\ Cardinality(Taken(r, j - 1, r[j].at)) < A
              /\ \A k \in Nat : q[j].opened <= v * k /\ v * k < r[j].at =>
                                   Cardinality(Taken(r, j - 1, v * k)) >= A
  <2>1. CASE j = i + 1
    <3>1. r[j].at = begin /\ r[j].case = q[j] /\ j - 1 = i
      BY <1>5, <2>1 DEF case
    <3>2. q[j].opened = o
      BY <2>1 DEF case, o
    <3>3. \E k \in 0..(MaxTime + j) : r[j].at = v * k
      <4>1. MaxTime + j = MaxTime + i + 1
        BY <1>1, <2>1
      <4> QED  BY <1>9, <3>1, <4>1
    <3>4. \A k \in Nat : q[j].opened <= v * k /\ v * k < r[j].at =>
                            Cardinality(Taken(r, j - 1, v * k)) >= A
      BY <1>16, <3>1, <3>2
    <3>5. begin <= begin
      BY <1>10
    <3> QED  BY <1>3, <1>10, <1>14, <3>1, <3>2, <3>3, <3>4, <3>5
  <2>2. CASE j # i + 1
    <3>1. j \in 1..i /\ j - 1 \in 0..i /\ i > 0
      BY <2>2
    <3>2. r[j] = s[j] /\ \A t : Taken(r, j - 1, t) = Taken(s, j - 1, t)
      BY <1>5, <1>6, <3>1
    <3>3. s[j].at <= new.slot
      BY <1>3, <1>8, <1>10, <1>11, <3>1
    <3>4. /\ s[j].case = q[j]
          /\ \E k \in 0..(MaxTime + j) : s[j].at = v * k
          /\ q[j].opened <= s[j].at
          /\ Cardinality(Taken(s, j - 1, s[j].at)) < A
          /\ \A k \in Nat : q[j].opened <= v * k /\ v * k < s[j].at =>
                               Cardinality(Taken(s, j - 1, v * k)) >= A
      BY <1>2, <3>1
    <3> QED  BY <3>2, <3>3, <3>4
  <2> QED  BY <2>1, <2>2
<1>18. new.slot = r[i + 1].at /\ new.uses = Cardinality(Taken(r, i + 1, new.slot))
  BY <1>3, <1>5, <1>15
<1>19. Fair(new, q, c, i + 1)
  <2>1. i + 1 # 0
    OBVIOUS
  <2> QED  BY <1>5, <1>15, <1>17, <1>18, <2>1 DEF Fair, r, v, A
<1> QED  BY <1>19 DEF new, case
(* Every queue is fair to the end. *)
LEMMA SnapshotsFair ==
    ASSUME NEW c \in Configs, NEW S, Queueable(S), \A a \in S : a.opened <= MaxTime
    PROVE  \E queue, q : /\ Lists(q, S, InAhead(S)) /\ Len(q) \in Nat
                         /\ Fair(queue, q, c, Len(q))
                         /\ Snapshots(S, c) = queue.started
<1> DEFINE q == Sorted(S, Ahead)
           n == Len(q)
<1>1. Lists(q, S, InAhead(S))
  BY SortedAhead
<1> HIDE DEF q
<1>2. n \in Nat /\ \A i \in 1..n : q[i] \in S
  BY <1>1, LenProperties, ElementOfSeq DEF Lists
<1>3. \A i \in 1..n : q[i].opened \in 0..MaxTime
  BY <1>2, RowsTyped DEF Queueable
<1>4. \A i, j \in 1..n : i < j => q[i].opened <= q[j].opened
  <2> SUFFICES ASSUME NEW i \in 1..n, NEW j \in 1..n, i < j PROVE q[i].opened <= q[j].opened
    OBVIOUS
  <2>1. <<q[i], q[j]>> \in InAhead(S)
    BY <1>1 DEF Lists
  <2>2. Ahead(q[i], q[j])
    BY <2>1 DEF InAhead
  <2>3. q[i].opened \in Nat /\ q[j].opened \in Nat
    BY <1>3
  <2> QED  BY <2>2, <2>3 DEF Ahead
<1>5. PICK after : /\ after[0] = EmptyQueue
                   /\ \A i \in 1..n : after[i] = Allocate(after[i - 1], q[i], c)
                   /\ Snapshots(S, c) = after[n].started
  BY <1>2, SnapshotsRun DEF q
<1> DEFINE G == {i \in Nat : i <= n => Fair(after[i], q, c, i)}
<1>6. 0 \in G
  BY <1>5, EmptyFair
<1>7. ASSUME NEW i \in Nat, i \in G PROVE i + 1 \in G
  <2> SUFFICES ASSUME i + 1 <= n PROVE Fair(after[i + 1], q, c, i + 1)
    OBVIOUS
  <2>1. Fair(after[i], q, c, i)
    BY <1>2, <1>7
  <2>2. i + 1 \in 1..n /\ (i + 1) - 1 = i
    BY <1>2
  <2>3. after[i + 1] = Allocate(after[i], q[i + 1], c)
    BY <1>5, <2>2
  <2>4. i > 0 => q[i].opened <= q[i + 1].opened
    <3>1. i > 0 => i \in 1..n /\ i < i + 1
      BY <2>2
    <3> QED  BY <1>4, <2>2, <3>1
  <2>5. \A j \in 1..(i + 1) : q[j].opened \in 0..MaxTime
    <3>1. \A j \in 1..(i + 1) : j \in 1..n
      BY <2>2
    <3> QED  BY <1>3, <3>1
  <2>6. Fair(Allocate(after[i], q[i + 1], c), q, c, i + 1)
    BY <2>1, <2>4, <2>5, AllocateFair
  <2> QED  BY <2>3, <2>6
<1> HIDE DEF G
<1>8. Nat \subseteq G
  BY <1>6, <1>7, UpwardInduction
<1>9. Fair(after[n], q, c, n)
  BY <1>2, <1>8 DEF G
<1> QED  BY <1>1, <1>2, <1>5, <1>9

LEMMA FairNoneIdle ==
    ASSUME NEW c \in Configs, NEW queue, NEW q, NEW n \in Nat, Fair(queue, q, c, n),
           \A i \in 1..n : q[i].opened \in 0..MaxTime
    PROVE  NoneIdle(queue.started, c)
<1> DEFINE s == queue.started
           v == c.service
           Slots == {v * k : k \in 0..(MaxTime + Len(s))}
<1>1. v \in Nat \ {0} /\ c.analysts \in Nat \ {0} /\ MaxTime \in Nat
  BY ConfigsValid, RowsTyped
<1>2. Len(s) = n /\ DOMAIN s = 1..n
  BY Extended DEF Fair
<1>3. ASSUME NEW i \in 1..n
      PROVE  /\ s[i].at \in Slots /\ s[i].at >= s[i].case.opened
             /\ Cardinality({j \in 1..(i - 1) : s[j].at = s[i].at}) < c.analysts
             /\ \A t \in Slots : s[i].case.opened <= t /\ t < s[i].at =>
                   ~(Cardinality({j \in 1..(i - 1) : s[j].at = t}) < c.analysts)
  <2>1. PICK k \in 0..(MaxTime + i) : s[i].at = v * k
    BY DEF Fair
  <2>2. k \in 0..(MaxTime + Len(s))
    BY <1>1, <1>2
  <2>3. /\ s[i].case = q[i] /\ q[i].opened <= s[i].at
        /\ Cardinality(Taken(s, i - 1, s[i].at)) < c.analysts
        /\ \A m \in Nat : q[i].opened <= v * m /\ v * m < s[i].at =>
              Cardinality(Taken(s, i - 1, v * m)) >= c.analysts
    BY DEF Fair
  <2>4. q[i].opened \in Nat /\ s[i].at \in Nat
    BY <1>1, <2>1
  <2>5. ASSUME NEW t \in Slots, s[i].case.opened <= t, t < s[i].at
        PROVE  ~(Cardinality(Taken(s, i - 1, t)) < c.analysts)
    <3>1. PICK m \in 0..(MaxTime + Len(s)) : t = v * m
      OBVIOUS
    <3>2. m \in Nat
      BY <1>1, <1>2
    <3>3. Cardinality(Taken(s, i - 1, t)) >= c.analysts
      BY <2>3, <2>5, <3>1, <3>2
    <3>4. Cardinality(Taken(s, i - 1, t)) \in Nat
      <4> i - 1 \in Nat
        OBVIOUS
      <4> HIDE DEF Slots
      <4> QED  BY TakenFinite
    <3> QED  BY <1>1, <3>3, <3>4
  <2>6. s[i].at \in Slots
    BY <2>1, <2>2
  <2> HIDE DEF Slots, s
  <2> QED  BY <2>3, <2>4, <2>5, <2>6 DEF Taken
<1> QED  BY <1>2, <1>3 DEF NoneIdle
LEMMA ImageFinite ==
    ASSUME NEW S, IsFiniteSet(S), NEW f
    PROVE  /\ IsFiniteSet({f[x] : x \in S})
           /\ Cardinality({f[x] : x \in S}) <= Cardinality(S)
<1> DEFINE T == {f[x] : x \in S}
           g == [x \in S |-> f[x]]
<1>1. g \in [S -> T] /\ \A t \in T : \E x \in S : g[x] = t
  OBVIOUS
<1> HIDE DEF g, T
<1>2. g \in Surjection(S, T)
  BY <1>1 DEF Surjection
<1>3. IsFiniteSet(T) /\ Cardinality(T) <= Cardinality(S)
  BY <1>2, FS_Surjection
<1> QED  BY <1>3 DEF T

LEMMA Largest ==
    ASSUME NEW D, IsFiniteSet(D), D # {}, D \subseteq Int
    PROVE  \E m \in D : \A x \in D : x <= m
<1> DEFINE G == {s \in SUBSET D : s = {} \/ \E m \in s : \A x \in s : x <= m}
<1>1. {} \in G
  OBVIOUS
<1>2. ASSUME NEW s \in SUBSET D, s \in G, NEW x \in D \ s
      PROVE  s \cup {x} \in G
  <2>1. CASE s = {}
    <3>1. \A y \in s \cup {x} : y <= x
      BY <2>1
    <3> QED  BY <3>1
  <2>2. CASE s # {}
    <3>1. PICK m \in s : \A y \in s : y <= m
      BY <1>2, <2>2
    <3>2. CASE x <= m
      <4>1. \A y \in s \cup {x} : y <= m
        BY <3>1, <3>2
      <4> QED  BY <4>1
    <3>3. CASE ~(x <= m)
      <4>1. \A y \in s \cup {x} : y <= x
        BY <3>1, <3>3
      <4> QED  BY <4>1
    <3> QED  BY <3>2, <3>3
  <2> QED  BY <2>1, <2>2
<1> HIDE DEF G
<1>3. D \in G
  BY <1>1, <1>2, SetInduction
<1> QED  BY <1>3 DEF G

LEMMA MaxIs ==
    ASSUME NEW D, IsFiniteSet(D), D # {}, D \subseteq Int
    PROVE  Max(D) \in D /\ \A x \in D : x <= Max(D)
<1>1. \E m \in D : \A x \in D : m >= x
  BY Largest
<1>2. Max(D) = CHOOSE m \in D : \A x \in D : m >= x
  BY DEF Max
<1>3. Max(D) \in D /\ \A x \in D : Max(D) >= x
  BY <1>1, <1>2, Zenon
<1> QED  BY <1>3

(* The backlog is the largest at an arrival: between two it only shrinks. *)
LEMMA PeakReached ==
    ASSUME NEW s, NEW n \in Nat, DOMAIN s = 1..n, NEW c,
           \A i \in 1..n : s[i].case.opened \in Nat /\ s[i].at \in Nat /\ s[i].case.opened <= s[i].at
    PROVE  PeakIsPeak(s, c)
<1> DEFINE Came(t) == {i \in DOMAIN s : s[i].case.opened <= t}
           Began(t) == {i \in DOMAIN s : s[i].at <= t}
           Waits(t) == {i \in DOMAIN s : s[i].case.opened <= t /\ t < s[i].at}
           Peaks == {0} \cup {Cardinality(Came(s[i].case.opened)) - Cardinality(Began(s[i].case.opened)) :
                                 i \in DOMAIN s}
<1>1. IsFiniteSet(DOMAIN s)
  BY FS_Interval
<1>2. \A t : /\ IsFiniteSet(Came(t)) /\ IsFiniteSet(Began(t)) /\ IsFiniteSet(Waits(t))
             /\ Cardinality(Came(t)) \in Nat /\ Cardinality(Began(t)) \in Nat
             /\ Cardinality(Waits(t)) \in Nat
  <2> TAKE t
  <2>1. Came(t) \subseteq DOMAIN s /\ Began(t) \subseteq DOMAIN s /\ Waits(t) \subseteq DOMAIN s
    OBVIOUS
  <2> HIDE DEF Came, Began, Waits
  <2> QED  BY <1>1, <2>1, FS_Subset, FS_CardinalityType
<1>3. \A t \in Int : Cardinality(Waits(t)) = Cardinality(Came(t)) - Cardinality(Began(t))
  <2> TAKE t \in Int
  <2>1. Came(t) = Waits(t) \cup Began(t) /\ Waits(t) \cap Began(t) = {}
    OBVIOUS
  <2> HIDE DEF Came, Began, Waits
  <2>2. Cardinality(Came(t)) = Cardinality(Waits(t)) + Cardinality(Began(t))
                                 - Cardinality(Waits(t) \cap Began(t))
    BY <1>2, <2>1, FS_Union
  <2>3. Cardinality(Waits(t) \cap Began(t)) = 0
    BY <2>1, FS_EmptySet
  <2> QED  BY <1>2, <2>2, <2>3
<1>4. PeakBacklog(s) = Max(Peaks)
  BY DEF PeakBacklog
<1> DEFINE W == [i \in DOMAIN s |->
                    Cardinality(Came(s[i].case.opened)) - Cardinality(Began(s[i].case.opened))]
<1>5. Peaks = {0} \cup {W[i] : i \in DOMAIN s} /\ \A i \in DOMAIN s : W[i] \in Int
  <2>1. \A i \in DOMAIN s :
           W[i] = Cardinality(Came(s[i].case.opened)) - Cardinality(Began(s[i].case.opened))
    OBVIOUS
  <2>2. Peaks = {0} \cup {W[i] : i \in DOMAIN s}
    <3> HIDE DEF W, Came, Began
    <3> QED  BY <2>1
  <2>3. \A i \in DOMAIN s : W[i] \in Int
    <3> SUFFICES ASSUME NEW i \in DOMAIN s PROVE W[i] \in Int
      OBVIOUS
    <3>1. /\ Cardinality(Came(s[i].case.opened)) \in Nat
          /\ Cardinality(Began(s[i].case.opened)) \in Nat
      <4> HIDE DEF W, Came, Began
      <4> QED  BY <1>2
    <3> HIDE DEF W, Came, Began
    <3> QED  BY <2>1, <3>1
  <2> QED  BY <2>2, <2>3
<1>6. IsFiniteSet(Peaks) /\ Peaks \subseteq Int /\ Peaks # {}
  <2> HIDE DEF Peaks, W
  <2>1. IsFiniteSet({W[i] : i \in DOMAIN s})
    BY <1>1, ImageFinite
  <2>2. IsFiniteSet({W[i] : i \in DOMAIN s} \cup {0})
    BY <2>1, FS_AddElement
  <2>3. Peaks = {W[i] : i \in DOMAIN s} \cup {0}
    <3> DEFINE Ws == {W[i] : i \in DOMAIN s}
    <3>1. Peaks = {0} \cup Ws
      BY <1>5
    <3> HIDE DEF Ws
    <3>2. Peaks = Ws \cup {0}
      BY <3>1
    <3> QED  BY <3>2 DEF Ws
  <2>4. \A x \in Peaks : x \in Int
    <3>1. \A x \in Peaks : x = 0 \/ \E i \in DOMAIN s : x = W[i]
      BY <1>5
    <3> QED  BY <1>5, <3>1
  <2>5. 0 \in Peaks
    BY <1>5
  <2> QED  BY <2>2, <2>3, <2>4, <2>5
<1>7. Max(Peaks) \in Int /\ \A x \in Peaks : x <= Max(Peaks)
  <2> HIDE DEF Peaks
  <2> QED  BY <1>6, MaxIs
<1>8. ASSUME NEW t \in Int
      PROVE  Cardinality(Waits(t)) <= Max(Peaks)
  <2>1. CASE Came(t) = {}
    <3>1. Waits(t) = {}
      BY <2>1
    <3>2. Cardinality(Waits(t)) = 0
      BY <3>1, FS_EmptySet
    <3>3. 0 \in Peaks
      OBVIOUS
    <3> QED  BY <1>7, <3>2, <3>3
  <2>2. CASE Came(t) # {}
    <3> DEFINE Opened == {s[i].case.opened : i \in Came(t)}
               O == [i \in Came(t) |-> s[i].case.opened]
    <3>1. Opened = {O[i] : i \in Came(t)} /\ Opened # {} /\ Opened \subseteq Int
      <4>1. \A i \in Came(t) : O[i] = s[i].case.opened
        OBVIOUS
      <4>2. Opened = {O[i] : i \in Came(t)}
        <5> HIDE DEF O, Came
        <5> QED  BY <4>1
      <4>3. Opened \subseteq Int
        OBVIOUS
      <4>4. Opened # {}
        <5> HIDE DEF Came
        <5> QED  BY <2>2
      <4> QED  BY <4>2, <4>3, <4>4
    <3>2. IsFiniteSet({O[i] : i \in Came(t)})
      <4> HIDE DEF Came, O
      <4> QED  BY <1>2, ImageFinite
    <3>3. PICK o \in Opened : \A x \in Opened : x <= o
      <4> HIDE DEF Opened
      <4> QED  BY <3>1, <3>2, Largest
    <3>4. PICK i \in Came(t) : s[i].case.opened = o
      OBVIOUS
    <3>5. i \in DOMAIN s /\ o \in Int /\ o <= t
      BY <3>4
    <3>6. Came(t) = Came(o)
      <4>1. \A j \in DOMAIN s : s[j].case.opened <= t => s[j].case.opened <= o
        BY <3>3
      <4>2. \A j \in DOMAIN s : s[j].case.opened <= o => s[j].case.opened <= t
        BY <3>5
      <4> QED  BY <4>1, <4>2
    <3>7. Began(o) \subseteq Began(t)
      BY <3>5
    <3>8. Cardinality(Began(o)) <= Cardinality(Began(t))
      <4> HIDE DEF Began
      <4> QED  BY <1>2, <3>7, FS_Subset
    <3>9. Cardinality(Came(o)) - Cardinality(Began(o)) \in Peaks
      BY <3>4, <3>5
    <3>10. Cardinality(Waits(t)) <= Cardinality(Came(o)) - Cardinality(Began(o))
      <4> HIDE DEF Began, Came, Waits
      <4> QED  BY <1>2, <1>3, <3>6, <3>8
    <3>11. /\ Cardinality(Came(o)) - Cardinality(Began(o)) \in Int
           /\ Cardinality(Waits(t)) \in Int
      <4> HIDE DEF Began, Came, Waits
      <4> QED  BY <1>2
    <3> HIDE DEF Began, Came, Waits, Peaks
    <3> QED  BY <1>7, <3>9, <3>10, <3>11
  <2> QED  BY <2>1, <2>2
<1>9. 0..(MaxTime + c.service * Len(s)) \subseteq Int
  OBVIOUS
<1> HIDE DEF Peaks
<1> QED  BY <1>4, <1>8, <1>9 DEF PeakIsPeak

LEMMA ServedInOrder ==
    ASSUME NEW S, Queueable(S), \A a \in S : a.opened <= MaxTime, NEW c \in Configs
    PROVE  NoneIdle(Snapshots(S, c), c) /\ PeakIsPeak(Snapshots(S, c), c)
<1>1. PICK queue, q : /\ Lists(q, S, InAhead(S)) /\ Len(q) \in Nat
                      /\ Fair(queue, q, c, Len(q))
                      /\ Snapshots(S, c) = queue.started
  BY SnapshotsFair
<1> DEFINE n == Len(q)
           s == queue.started
<1>2. \A i \in 1..n : q[i].opened \in 0..MaxTime
  <2>1. \A i \in 1..n : q[i] \in S
    BY <1>1, ElementOfSeq DEF Lists
  <2> QED  BY <2>1, RowsTyped DEF Queueable
<1>3. NoneIdle(s, c)
  BY <1>1, <1>2, FairNoneIdle
<1>4. DOMAIN s = 1..n
  BY <1>1, Extended DEF Fair
<1>5. c.service \in Nat
  BY ConfigsValid
<1>6. ASSUME NEW i \in 1..n
      PROVE  s[i].case.opened \in Nat /\ s[i].at \in Nat /\ s[i].case.opened <= s[i].at
  <2>1. /\ s[i].case = q[i]
        /\ \E k \in 0..(MaxTime + i) : s[i].at = c.service * k
        /\ q[i].opened <= s[i].at
    BY <1>1 DEF Fair
  <2>2. MaxTime + i \in Nat
    BY <1>1, RowsTyped
  <2>3. s[i].at \in Nat
    BY <1>5, <2>1, <2>2
  <2>4. q[i].opened \in Nat
    BY <1>2
  <2> QED  BY <2>1, <2>3, <2>4
<1>7. PeakIsPeak(s, c)
  <2> HIDE DEF s
  <2> QED  BY <1>1, <1>4, <1>6, PeakReached
<1> QED  BY <1>1, <1>3, <1>7
-----------------------------------------------------------------------------
(***************************************************************************)
(* CASE GROUPING                                                            *)
(*                                                                          *)
(* The lists that everything is read from, and the intervals of a row.      *)
(***************************************************************************)
InEarlier(S) == {p \in S \X S : Earlier(p[1], p[2])}

LEMMA SortedEarlier ==
    ASSUME NEW S, S \subseteq Rows, IsFiniteSet(S)
    PROVE  /\ Orders(InEarlier(S), S) /\ Lists(Sorted(S, Earlier), S, InEarlier(S))
           /\ Len(Sorted(S, Earlier)) = Cardinality(S)
<1> DEFINE R == InEarlier(S)
           q == Sorted(S, Earlier)
<1>1. \A e, f \in S : <<e, f>> \in R <=> Earlier(e, f)
  BY DEF InEarlier
<1> HIDE DEF R
<1>2. Orders(R, S)
  <2>1. \A e \in S : e.decide \in Nat /\ e.at \in Nat /\ e.id \in Nat
    BY RowsTyped
  <2>2. \A e, f \in S : e.id = f.id => e = f
    BY RowsTyped
  <2>3. \A e, f \in S : Earlier(e, f) <=> e.decide < f.decide \/ (e.decide = f.decide /\ e.id < f.id)
    BY DEF Earlier
  <2>4. \A e, f \in S : Earlier(e, f) => ~Earlier(f, e)
    BY <2>1, <2>3
  <2>5. \A e, f, g \in S : Earlier(e, f) /\ Earlier(f, g) => Earlier(e, g)
    BY <2>1, <2>3
  <2>6. \A e, f \in S : e = f \/ Earlier(e, f) \/ Earlier(f, e)
    BY <2>1, <2>2, <2>3
  <2> QED  BY <1>1, <2>4, <2>5, <2>6 DEF Orders
<1>3. \A e \in S : {f \in S : Earlier(f, e)} = Below(R, S, e)
  BY <1>1 DEF Below
<1>4. q = [i \in 1..Cardinality(S) |-> CHOOSE e \in S : Cardinality({f \in S : Earlier(f, e)}) = i - 1]
  BY DEF Sorted
<1>5. ASSUME NEW i \in 1..Cardinality(S), \E e \in S : Rank(R, S, e) = i - 1
      PROVE  q[i] \in S /\ Rank(R, S, q[i]) = i - 1
  <2>1. \E e \in S : Cardinality({f \in S : Earlier(f, e)}) = i - 1
    BY <1>3, <1>5 DEF Rank
  <2>2. q[i] = CHOOSE e \in S : Cardinality({f \in S : Earlier(f, e)}) = i - 1
    BY <1>4
  <2>3. q[i] \in S /\ Cardinality({f \in S : Earlier(f, q[i])}) = i - 1
    BY <2>1, <2>2, Zenon
  <2> QED  BY <1>3, <2>3 DEF Rank
<1>6. q = [i \in 1..Cardinality(S) |-> q[i]]
  BY <1>4
<1> HIDE DEF q
<1>7. Lists(q, S, R) /\ Len(q) = Cardinality(S)
  BY <1>2, <1>5, <1>6, ListsAll
<1> QED  BY <1>2, <1>7 DEF q, R

InAvailable(S) == {p \in S \X S : Available(p[1], p[2])}

LEMMA SortedAvailable ==
    ASSUME NEW S, S \subseteq Rows, IsFiniteSet(S)
    PROVE  Lists(Sorted(S, Available), S, InAvailable(S)) /\ Len(Sorted(S, Available)) = Cardinality(S)
<1> DEFINE R == InAvailable(S)
           q == Sorted(S, Available)
<1>1. \A e, f \in S : <<e, f>> \in R <=> Available(e, f)
  BY DEF InAvailable
<1> HIDE DEF R
<1>2. Orders(R, S)
  <2>1. \A e \in S : e.decide \in Nat /\ e.at \in Nat /\ e.id \in Nat
    BY RowsTyped
  <2>2. \A e, f \in S : e.id = f.id => e = f
    BY RowsTyped
  <2>3. \A e, f \in S : Available(e, f) <=> e.at < f.at \/ (e.at = f.at /\ e.id < f.id)
    BY DEF Available
  <2>4. \A e, f \in S : Available(e, f) => ~Available(f, e)
    BY <2>1, <2>3
  <2>5. \A e, f, g \in S : Available(e, f) /\ Available(f, g) => Available(e, g)
    BY <2>1, <2>3
  <2>6. \A e, f \in S : e = f \/ Available(e, f) \/ Available(f, e)
    BY <2>1, <2>2, <2>3
  <2> QED  BY <1>1, <2>4, <2>5, <2>6 DEF Orders
<1>3. \A e \in S : {f \in S : Available(f, e)} = Below(R, S, e)
  BY <1>1 DEF Below
<1>4. q = [i \in 1..Cardinality(S) |-> CHOOSE e \in S : Cardinality({f \in S : Available(f, e)}) = i - 1]
  BY DEF Sorted
<1>5. ASSUME NEW i \in 1..Cardinality(S), \E e \in S : Rank(R, S, e) = i - 1
      PROVE  q[i] \in S /\ Rank(R, S, q[i]) = i - 1
  <2>1. \E e \in S : Cardinality({f \in S : Available(f, e)}) = i - 1
    BY <1>3, <1>5 DEF Rank
  <2>2. q[i] = CHOOSE e \in S : Cardinality({f \in S : Available(f, e)}) = i - 1
    BY <1>4
  <2>3. q[i] \in S /\ Cardinality({f \in S : Available(f, q[i])}) = i - 1
    BY <2>1, <2>2, Zenon
  <2> QED  BY <1>3, <2>3 DEF Rank
<1>6. q = [i \in 1..Cardinality(S) |-> q[i]]
  BY <1>4
<1> HIDE DEF q
<1>7. Lists(q, S, R) /\ Len(q) = Cardinality(S)
  BY <1>2, <1>5, <1>6, ListsAll
<1> QED  BY <1>7 DEF q, R

Known(rows) == rows \subseteq Rows /\ IsFiniteSet(rows)

Decided(rows) == {r \in rows : r.decide # 0}

(* The decisions in their order, by position. *)
LEMMA DecisionsListed ==
    ASSUME NEW rows, Known(rows)
    PROVE  /\ Len(Decisions(rows)) \in Nat
           /\ DOMAIN Decisions(rows) = 1..Len(Decisions(rows))
           /\ \A p \in DOMAIN Decisions(rows) : Decisions(rows)[p] \in Decided(rows)
           /\ \A r \in Decided(rows) : \E p \in DOMAIN Decisions(rows) : Decisions(rows)[p] = r
           /\ \A p, q \in DOMAIN Decisions(rows) :
                 p < q => Earlier(Decisions(rows)[p], Decisions(rows)[q])
           /\ \A p, q \in DOMAIN Decisions(rows) :
                 Decisions(rows)[p] = Decisions(rows)[q] => p = q
<1> DEFINE S == Decided(rows)
           d == Decisions(rows)
<1>1. d = Sorted(S, Earlier)
  BY DEF Decisions, Decided
<1>2. S \subseteq Rows /\ IsFiniteSet(S)
  <2>1. S \subseteq rows
    BY DEF Decided
  <2> HIDE DEF S
  <2> QED  BY <2>1, FS_Subset DEF Known
<1> HIDE DEF S, d
<1>3. Lists(d, S, InEarlier(S))
  BY <1>1, <1>2, SortedEarlier
<1>4. /\ Len(d) \in Nat /\ DOMAIN d = 1..Len(d)
      /\ \A p \in DOMAIN d : d[p] \in S
      /\ \A r \in S : \E p \in DOMAIN d : d[p] = r
      /\ \A p, q \in DOMAIN d : p < q => <<d[p], d[q]>> \in InEarlier(S)
  BY <1>3, LenProperties, ElementOfSeq DEF Lists
<1>5. \A p, q \in DOMAIN d : p < q => Earlier(d[p], d[q])
  BY <1>4 DEF InEarlier
<1>6. \A p, q \in DOMAIN d : d[p] = d[q] => p = q
  <2> SUFFICES ASSUME NEW p \in DOMAIN d, NEW q \in DOMAIN d, d[p] = d[q], p # q
               PROVE  FALSE
    OBVIOUS
  <2>1. p < q \/ q < p
    BY <1>4
  <2>2. Earlier(d[p], d[p])
    BY <1>5, <2>1
  <2>3. d[p].decide \in Nat /\ d[p].id \in Nat
    BY <1>2, <1>4, RowsTyped
  <2> QED  BY <2>2, <2>3 DEF Earlier
<1> QED  BY <1>4, <1>5, <1>6 DEF S, d

LEMMA TimesListedUp ==
    ASSUME NEW rows, Known(rows)
    PROVE  /\ Len(BatchTimes(rows)) \in Nat
           /\ DOMAIN BatchTimes(rows) = 1..Len(BatchTimes(rows))
           /\ \A i \in DOMAIN BatchTimes(rows) : BatchTimes(rows)[i] \in Nat \ {0}
           /\ \A i \in DOMAIN BatchTimes(rows) : \E r \in Decided(rows) : r.decide = BatchTimes(rows)[i]
           /\ \A r \in Decided(rows) : \E i \in DOMAIN BatchTimes(rows) : BatchTimes(rows)[i] = r.decide
           /\ \A i, j \in DOMAIN BatchTimes(rows) : i < j => BatchTimes(rows)[i] < BatchTimes(rows)[j]
<1> DEFINE T == {r.decide : r \in Decided(rows)}
           f == [r \in Decided(rows) |-> r.decide]
           t == BatchTimes(rows)
<1>1. t = Sorted(T, <)
  BY DEF BatchTimes, Decided
<1>2. T = {f[r] : r \in Decided(rows)}
  <2>1. \A r \in Decided(rows) : f[r] = r.decide
    OBVIOUS
  <2> HIDE DEF f
  <2> QED  BY <2>1
<1>3. IsFiniteSet(Decided(rows))
  <2>1. Decided(rows) \subseteq rows
    BY DEF Decided
  <2> QED  BY <2>1, FS_Subset DEF Known
<1>4. IsFiniteSet(T)
  <2> HIDE DEF T, f
  <2> QED  BY <1>2, <1>3, ImageFinite
<1>5. T \in SUBSET Nat /\ \A x \in T : x # 0 /\ \E r \in Decided(rows) : r.decide = x
  BY RowsTyped DEF Decided, Known
<1>6. \A r \in Decided(rows) : r.decide \in T
  OBVIOUS
<1> HIDE DEF T, t
<1>7. Lists(t, T, InTime(T))
  BY <1>1, <1>4, <1>5, SortedTimes
<1>8. /\ Len(t) \in Nat /\ DOMAIN t = 1..Len(t)
      /\ \A i \in DOMAIN t : t[i] \in T
      /\ \A x \in T : \E i \in DOMAIN t : t[i] = x
      /\ \A i, j \in DOMAIN t : i < j => <<t[i], t[j]>> \in InTime(T)
  BY <1>7, LenProperties, ElementOfSeq DEF Lists
<1>9. \A i, j \in DOMAIN t : i < j => t[i] < t[j]
  BY <1>8 DEF InTime
<1> QED  BY <1>5, <1>6, <1>8, <1>9 DEF t
-----------------------------------------------------------------------------
(* The positions of one batch follow each other, from its first. *)
Here(rows, time) == {p \in DOMAIN Decisions(rows) : Decisions(rows)[p].decide = time}

FirstOf(rows, time) == CHOOSE p \in Here(rows, time) : \A q \in Here(rows, time) : p <= q

LEMMA BatchSpan ==
    ASSUME NEW rows, Known(rows), NEW time, Here(rows, time) # {}
    PROVE  /\ Cardinality(Here(rows, time)) \in Nat \ {0}
           /\ FirstOf(rows, time) \in Nat \ {0}
           /\ Here(rows, time) =
                 FirstOf(rows, time)..(FirstOf(rows, time) + Cardinality(Here(rows, time)) - 1)
           /\ \A p \in DOMAIN Decisions(rows) :
                 p < FirstOf(rows, time) <=> Decisions(rows)[p].decide < time
<1> DEFINE d == Decisions(rows)
           n == Len(d)
           H == Here(rows, time)
           a == FirstOf(rows, time)
<1>1. /\ n \in Nat /\ DOMAIN d = 1..n
      /\ \A p \in 1..n : d[p].decide \in Nat
      /\ \A p, q \in 1..n : p < q => d[p].decide <= d[q].decide
  <2>1. n \in Nat /\ DOMAIN d = 1..n /\ \A p \in 1..n : d[p] \in Decided(rows)
    BY DecisionsListed
  <2>2. \A p \in 1..n : d[p].decide \in Nat
    BY <2>1, RowsTyped DEF Decided, Known
  <2>3. \A p, q \in 1..n : p < q => Earlier(d[p], d[q])
    BY <2>1, DecisionsListed
  <2> HIDE DEF d
  <2>4. \A p, q \in 1..n : p < q => d[p].decide <= d[q].decide
    BY <2>2, <2>3 DEF Earlier
  <2> QED  BY <2>1, <2>2, <2>4
<1>2. H = {p \in 1..n : d[p].decide = time}
  BY <1>1 DEF Here
<1> HIDE DEF d, n
<1>3. H \subseteq 1..n /\ H # {}
  BY <1>2
<1>4. \E p \in H : \A q \in H : p <= q
  BY <1>1, <1>3, LeastNat
<1>5. a \in H /\ \A q \in H : a <= q
  <2> HIDE DEF H
  <2>1. a = CHOOSE p \in H : \A q \in H : p <= q
    BY DEF FirstOf, H
  <2> QED  BY <1>4, <2>1, Zenon
<1> HIDE DEF a
<1>6. PICK b \in H : \A q \in H : q <= b
  BY <1>1, <1>3, LastPosition
<1> HIDE DEF H
<1>7. a \in 1..n /\ b \in 1..n /\ d[a].decide = time /\ d[b].decide = time /\ a <= b
  BY <1>2, <1>5, <1>6
<1>8. H = a..b
  <2>1. H \subseteq a..b
    BY <1>3, <1>5, <1>6, <1>7
  <2>2. ASSUME NEW p \in a..b PROVE p \in H
    <3>1. p \in 1..n /\ (p = a \/ a < p) /\ (p = b \/ p < b)
      BY <1>1, <1>7
    <3>2. d[p].decide = time
      BY <1>1, <1>7, <3>1
    <3> QED  BY <1>2, <3>1, <3>2
  <2> QED  BY <2>1, <2>2
<1>9. Cardinality(H) = b - a + 1
  BY <1>7, <1>8, FS_Interval
<1>10. \A p \in 1..n : p < a <=> d[p].decide < time
  <2> SUFFICES ASSUME NEW p \in 1..n PROVE p < a <=> d[p].decide < time
    OBVIOUS
  <2>1. p < a => d[p].decide < time
    <3> SUFFICES ASSUME p < a PROVE d[p].decide < time
      OBVIOUS
    <3>1. p \notin H
      BY <1>5, <1>7
    <3>2. d[p].decide <= time /\ d[p].decide # time
      BY <1>1, <1>2, <1>7, <3>1
    <3> QED  BY <1>1, <1>7, <3>2
  <2>2. ~(p < a) => ~(d[p].decide < time)
    <3>1. ~(p < a) => p = a \/ a < p
      BY <1>7
    <3> QED  BY <1>1, <1>7, <3>1
  <2> QED  BY <2>1, <2>2
<1>11. /\ Cardinality(H) \in Nat \ {0} /\ a \in Nat \ {0}
       /\ H = a..(a + Cardinality(H) - 1)
  <2>1. a + Cardinality(H) - 1 = b
    BY <1>7, <1>9
  <2> QED  BY <1>7, <1>8, <1>9, <2>1
<1> QED  BY <1>1, <1>10, <1>11 DEF H, a, d, n
-----------------------------------------------------------------------------
(* The intervals of a row hold the batches that it connects something for. *)
LEMMA VisibleIs ==
    ASSUME NEW rows, Known(rows), NEW row \in rows
    PROVE  /\ VisibleFrom(BatchTimes(rows), row) \in 0..Len(BatchTimes(rows))
           /\ \A i \in DOMAIN BatchTimes(rows) :
                 i <= VisibleFrom(BatchTimes(rows), row) <=> BatchTimes(rows)[i] <= row.at
<1> DEFINE times == BatchTimes(rows)
           n == Len(times)
           S == {i \in DOMAIN times : times[i] <= row.at}
<1>1. /\ n \in Nat /\ DOMAIN times = 1..n
      /\ \A i \in 1..n : times[i] \in Nat
      /\ \A i, j \in 1..n : i < j => times[i] < times[j]
  BY TimesListedUp
<1>2. row.at \in Nat
  BY RowsTyped DEF Known
<1>3. VisibleFrom(times, row) = Cardinality(S)
  BY DEF VisibleFrom
<1> HIDE DEF times, n
<1>4. CASE S = {}
  <2>1. Cardinality(S) = 0
    BY <1>4, FS_EmptySet
  <2>2. \A i \in 1..n : ~(times[i] <= row.at) /\ ~(i <= 0)
    BY <1>1, <1>4
  <2>3. 0 \in 0..n
    BY <1>1
  <2> QED  BY <1>1, <1>3, <2>1, <2>2, <2>3 DEF times, n
<1>5. CASE S # {}
  <2>1. S \subseteq 1..n
    BY <1>1
  <2>2. PICK m \in S : \A j \in S : j <= m
    <3> HIDE DEF S
    <3> QED  BY <1>1, <1>5, <2>1, LastPosition
  <2>3. m \in 1..n /\ times[m] <= row.at
    BY <2>1, <2>2
  <2>4. \A i \in 1..n : i <= m <=> i \in S
    <3> SUFFICES ASSUME NEW i \in 1..n PROVE i <= m <=> i \in S
      OBVIOUS
    <3>1. ASSUME i <= m PROVE i \in S
      <4>1. i = m \/ i < m
        BY <1>1, <2>3, <3>1
      <4>2. times[i] <= times[m]
        BY <1>1, <2>3, <4>1
      <4>3. times[i] <= row.at
        BY <1>1, <1>2, <2>3, <4>2
      <4> QED  BY <1>1, <4>3
    <3> QED  BY <2>2, <3>1
  <2>5. S = 1..m
    <3>1. \A i \in 1..m : i \in 1..n /\ i <= m
      BY <1>1, <2>3
    <3>2. \A i \in S : i \in 1..m
      BY <1>1, <2>1, <2>2, <2>3
    <3> HIDE DEF S
    <3> QED  BY <2>4, <3>1, <3>2
  <2>6. Cardinality(S) = m
    <3>1. Cardinality(1..m) = m
      BY <1>1, <2>3, FS_Interval
    <3> HIDE DEF S
    <3> QED  BY <2>5, <3>1
  <2>7. \A i \in 1..n : i \in S <=> times[i] <= row.at
    BY <1>1
  <2> HIDE DEF S
  <2>8. m \in 0..n
    BY <1>1, <2>3
  <2> QED  BY <1>1, <1>3, <2>4, <2>6, <2>7, <2>8 DEF times, n
<1> QED  BY <1>4, <1>5

LEMMA IntervalsAre ==
    ASSUME NEW rows, Known(rows), NEW row \in rows
    PROVE  /\ \A v \in Intervals(BatchTimes(rows), row) :
                 v[1] \in Nat /\ v[2] \in Nat /\ v[2] <= Len(BatchTimes(rows))
           /\ \A i \in DOMAIN BatchTimes(rows) :
                 (\E v \in Intervals(BatchTimes(rows), row) : v[1] <= i - 1 /\ i - 1 < v[2]) <=>
                    row \in Visible(rows, BatchTimes(rows)[i])
<1> DEFINE times == BatchTimes(rows)
           n == Len(times)
           from == VisibleFrom(times, row)
           own == (CHOOSE i \in DOMAIN times : times[i] = row.decide) - 1
           next == IF from > own + 1 THEN from ELSE own + 1
<1>1. /\ n \in Nat /\ DOMAIN times = 1..n
      /\ \A i \in 1..n : times[i] \in Nat \ {0}
      /\ \A i, j \in 1..n : i < j => times[i] < times[j]
  BY TimesListedUp
<1>2. row.at \in Nat /\ row.decide \in Nat /\ row \in rows
  BY RowsTyped DEF Known
<1>3. from \in 0..n /\ \A i \in 1..n : i <= from <=> times[i] <= row.at
  BY <1>1, VisibleIs
<1>4. \A i \in 1..n : row \in Visible(rows, times[i]) <=> from <= i - 1 /\ row.decide # times[i]
  <2> SUFFICES ASSUME NEW i \in 1..n
               PROVE  row \in Visible(rows, times[i]) <=> from <= i - 1 /\ row.decide # times[i]
    OBVIOUS
  <2>1. row \in Visible(rows, times[i]) <=> row.at < times[i] /\ row.decide # times[i]
    BY <1>2 DEF Visible
  <2> HIDE DEF times, from, n
  <2>2. row.at < times[i] <=> ~(i <= from)
    BY <1>1, <1>2, <1>3
  <2>3. ~(i <= from) <=> from <= i - 1
    BY <1>1, <1>3
  <2> QED  BY <2>1, <2>2, <2>3
<1>5. CASE row.decide = 0
  <2>1. Intervals(times, row) = {<<from, n>>}
    BY <1>5 DEF Intervals
  <2> HIDE DEF times, from, n
  <2>2. ASSUME NEW i \in 1..n
        PROVE  (\E v \in {<<from, n>>} : v[1] <= i - 1 /\ i - 1 < v[2]) <=> row \in Visible(rows, times[i])
    <3>1. row.decide # times[i] /\ i - 1 < n
      BY <1>1, <1>5
    <3> QED  BY <1>4, <3>1
  <2>3. \A v \in {<<from, n>>} : v[1] \in Nat /\ v[2] \in Nat /\ v[2] <= n
    BY <1>1, <1>3
  <2> QED  BY <1>1, <2>1, <2>2, <2>3 DEF times, n
<1>6. CASE row.decide # 0
  <2>1. Intervals(times, row) = {<<from, own>>, <<next, n>>}
    BY <1>6 DEF Intervals
  <2>2. own \in Int /\ own + 1 \in 1..n /\ times[own + 1] = row.decide
    <3>1. \E i \in DOMAIN times : times[i] = row.decide
      <4>1. row \in Decided(rows)
        BY <1>6 DEF Decided
      <4> QED  BY <4>1, TimesListedUp
    <3> DEFINE c == CHOOSE i \in DOMAIN times : times[i] = row.decide
    <3>2. c \in DOMAIN times /\ times[c] = row.decide
      <4> HIDE DEF times
      <4> QED  BY <3>1, Zenon
    <3> HIDE DEF c, times, n
    <3>3. c \in 1..n /\ (c - 1) + 1 = c /\ c - 1 \in Int
      BY <1>1, <3>2
    <3>4. own = c - 1
      BY DEF c
    <3> HIDE DEF own
    <3> QED  BY <3>2, <3>3, <3>4
  <2> HIDE DEF times, from, n, own
  <2>3. \A i \in 1..n : times[i] = row.decide <=> i = own + 1
    <3> SUFFICES ASSUME NEW i \in 1..n, times[i] = row.decide, i # own + 1 PROVE FALSE
      BY <2>2
    <3>1. i < own + 1 \/ own + 1 < i
      BY <1>1, <2>2
    <3> QED  BY <1>1, <2>2, <3>1
  <2>4. own \in Nat /\ own < n
    BY <1>1, <2>2
  <2>5. ASSUME NEW i \in 1..n
        PROVE  (\E v \in {<<from, own>>, <<next, n>>} : v[1] <= i - 1 /\ i - 1 < v[2])
                  <=> row \in Visible(rows, times[i])
    <3>1. row.decide # times[i] <=> i # own + 1
      BY <2>3
    <3>2. (from <= i - 1 /\ i - 1 < own) \/ (next <= i - 1 /\ i - 1 < n) <=> from <= i - 1 /\ i # own + 1
      BY <1>1, <1>3, <2>4
    <3>3. (\E v \in {<<from, own>>, <<next, n>>} : v[1] <= i - 1 /\ i - 1 < v[2])
             <=> (from <= i - 1 /\ i - 1 < own) \/ (next <= i - 1 /\ i - 1 < n)
      <4> HIDE DEF next
      <4> QED  OBVIOUS
    <3> QED  BY <1>4, <3>1, <3>2, <3>3
  <2>6. \A v \in {<<from, own>>, <<next, n>>} : v[1] \in Nat /\ v[2] \in Nat /\ v[2] <= n
    BY <1>1, <1>3, <2>4
  <2> HIDE DEF next
  <2> QED  BY <1>1, <2>1, <2>5, <2>6 DEF times, n
<1> QED  BY <1>5, <1>6
-----------------------------------------------------------------------------
(* THE TREE OF INTERVALS: its powers of two, its height, and what covers.    *)
(* The powers of two up to n. *)
Doubling(n, after) ==
    after = [i \in 0..n |-> IF i = 0 THEN 1 ELSE 2 * after[i - 1]]

LEMMA DoublingExists ==
    \A n \in Nat : \E after : Doubling(n, after)
<1> DEFINE G == {n \in Nat : \E after : Doubling(n, after)}
<1>1. 0 \in G
  <2> DEFINE h == [i \in 0..0 |-> 1]
  <2>1. Doubling(0, h)
    BY DEF Doubling
  <2> QED  BY <2>1
<1>2. ASSUME NEW n \in Nat, n \in G
      PROVE  n + 1 \in G
  <2>1. PICK h : Doubling(n, h)
    BY <1>2
  <2> DEFINE next == 2 * h[n]
             g == [i \in 0..(n + 1) |-> IF i = n + 1 THEN next ELSE h[i]]
  <2>2. \A i \in 0..n : h[i] = IF i = 0 THEN 1 ELSE 2 * h[i - 1]
    BY <2>1 DEF Doubling
  <2>3. \A i \in 0..n : g[i] = h[i]
    OBVIOUS
  <2>4. g[n + 1] = next
    OBVIOUS
  <2>5. g = [i \in 0..(n + 1) |-> g[i]]
    OBVIOUS
  <2> HIDE DEF g
  <2>6. \A i \in 0..(n + 1) : g[i] = IF i = 0 THEN 1 ELSE 2 * g[i - 1]
    <3> SUFFICES ASSUME NEW i \in 0..(n + 1)
                 PROVE  g[i] = IF i = 0 THEN 1 ELSE 2 * g[i - 1]
      OBVIOUS
    <3>1. CASE i = n + 1
      <4>1. i # 0 /\ i - 1 = n /\ n \in 0..n
        BY <3>1
      <4> QED  BY <2>3, <2>4, <3>1, <4>1
    <3>2. CASE i # n + 1
      <4>1. i \in 0..n /\ (i # 0 => i - 1 \in 0..n)
        BY <3>2
      <4> QED  BY <2>2, <2>3, <4>1
    <3> QED  BY <3>1, <3>2
  <2>7. Doubling(n + 1, g)
    BY <2>5, <2>6 DEF Doubling
  <2> QED  BY <2>7
<1> HIDE DEF G
<1>3. Nat \subseteq G
  BY <1>1, <1>2, UpwardInduction
<1> QED  BY <1>3 DEF G

LEMMA PowersAre ==
    PowerOfTwo = [i \in Nat |-> IF i = 0 THEN 1 ELSE 2 * PowerOfTwo[i - 1]]
<1> DEFINE a(n) == CHOOSE after : Doubling(n, after)
           f == [n \in Nat |-> a(n)[n]]
<1>1. \A n \in Nat : Doubling(n, a(n))
  BY DoublingExists
<1> HIDE DEF a
<1>2. \A n \in Nat : \A i \in 0..n : a(n)[i] = IF i = 0 THEN 1 ELSE 2 * a(n)[i - 1]
  BY <1>1 DEF Doubling
<1> DEFINE G == {i \in Nat : \A n \in Nat : i <= n => a(n)[i] = a(i)[i]}
<1>3. 0 \in G
  BY <1>2
<1>4. ASSUME NEW i \in Nat, i \in G
      PROVE  i + 1 \in G
  <2> SUFFICES ASSUME NEW n \in Nat, i + 1 <= n PROVE a(n)[i + 1] = a(i + 1)[i + 1]
    OBVIOUS
  <2>1. a(n)[i] = a(i)[i] /\ a(i + 1)[i] = a(i)[i]
    BY <1>4
  <2>2. i + 1 \in 0..n /\ i + 1 \in 0..(i + 1) /\ i + 1 # 0 /\ (i + 1) - 1 = i
    OBVIOUS
  <2>3. a(n)[i + 1] = 2 * a(n)[i]
    BY <1>2, <2>2
  <2>4. a(i + 1)[i + 1] = 2 * a(i + 1)[i]
    BY <1>2, <2>2
  <2> QED  BY <2>1, <2>3, <2>4
<1> HIDE DEF G
<1>5. Nat \subseteq G
  BY <1>3, <1>4, UpwardInduction
<1>6. \A n \in Nat : f[n] = a(n)[n]
  OBVIOUS
<1>7. f = [n \in Nat |-> f[n]]
  OBVIOUS
<1> HIDE DEF f
<1>8. ASSUME NEW i \in Nat
      PROVE  f[i] = IF i = 0 THEN 1 ELSE 2 * f[i - 1]
  <2>1. CASE i = 0
    BY <1>2, <1>6, <2>1
  <2>2. CASE i # 0
    <3>1. i - 1 \in Nat /\ i - 1 <= i /\ i \in 0..i
      BY <2>2
    <3>2. a(i)[i - 1] = f[i - 1]
      BY <1>5, <1>6, <3>1 DEF G
    <3> QED  BY <1>2, <1>6, <2>2, <3>1, <3>2
  <2> QED  BY <2>1, <2>2
<1>9. f = [i \in Nat |-> IF i = 0 THEN 1 ELSE 2 * f[i - 1]]
  BY <1>7, <1>8
<1> QED  BY <1>9 DEF PowerOfTwo

(* The visits of the leaves, and those of the trees a level higher. *)
OfLeaves == [p \in Nat |-> <<p, 0>>]
OfHigher(visits) ==
    [p \in Nat |-> <<p>> \o visits[2 * p] \o visits[2 * p + 1] \o <<0>>]

(* The visits of the trees up to a height of n. *)
Visiting(n, after) ==
    after = [i \in 0..n |-> IF i = 0 THEN OfLeaves ELSE OfHigher(after[i - 1])]

LEMMA VisitingExists ==
    \A n \in Nat : \E after : Visiting(n, after)
<1> DEFINE G == {n \in Nat : \E after : Visiting(n, after)}
<1>1. 0 \in G
  <2> DEFINE h == [i \in 0..0 |-> OfLeaves]
  <2>1. Visiting(0, h)
    BY DEF Visiting
  <2> QED  BY <2>1
<1>2. ASSUME NEW n \in Nat, n \in G
      PROVE  n + 1 \in G
  <2>1. PICK h : Visiting(n, h)
    BY <1>2
  <2> DEFINE next == OfHigher(h[n])
             g == [i \in 0..(n + 1) |-> IF i = n + 1 THEN next ELSE h[i]]
  <2>2. \A i \in 0..n : h[i] = IF i = 0 THEN OfLeaves ELSE OfHigher(h[i - 1])
    BY <2>1 DEF Visiting
  <2>3. \A i \in 0..n : g[i] = h[i]
    OBVIOUS
  <2>4. g[n + 1] = next
    OBVIOUS
  <2>5. g = [i \in 0..(n + 1) |-> g[i]]
    OBVIOUS
  <2> HIDE DEF g
  <2>6. \A i \in 0..(n + 1) : g[i] = IF i = 0 THEN OfLeaves ELSE OfHigher(g[i - 1])
    <3> SUFFICES ASSUME NEW i \in 0..(n + 1)
                 PROVE  g[i] = IF i = 0 THEN OfLeaves ELSE OfHigher(g[i - 1])
      OBVIOUS
    <3>1. CASE i = n + 1
      <4>1. i # 0 /\ i - 1 = n /\ n \in 0..n
        BY <3>1
      <4> QED  BY <2>3, <2>4, <3>1, <4>1
    <3>2. CASE i # n + 1
      <4>1. i \in 0..n /\ (i # 0 => i - 1 \in 0..n)
        BY <3>2
      <4> QED  BY <2>2, <2>3, <4>1
    <3> QED  BY <3>1, <3>2
  <2>7. Visiting(n + 1, g)
    BY <2>5, <2>6 DEF Visiting
  <2> QED  BY <2>7
<1> HIDE DEF G
<1>3. Nat \subseteq G
  BY <1>1, <1>2, UpwardInduction
<1> QED  BY <1>3 DEF G

LEMMA VisitsAre ==
    Visits = [i \in Nat |-> IF i = 0 THEN OfLeaves ELSE OfHigher(Visits[i - 1])]
<1> DEFINE a(n) == CHOOSE after : Visiting(n, after)
           f == [n \in Nat |-> a(n)[n]]
<1>1. \A n \in Nat : Visiting(n, a(n))
  BY VisitingExists
<1> HIDE DEF a
<1>2. \A n \in Nat : \A i \in 0..n : a(n)[i] = IF i = 0 THEN OfLeaves ELSE OfHigher(a(n)[i - 1])
  BY <1>1 DEF Visiting
<1> DEFINE G == {i \in Nat : \A n \in Nat : i <= n => a(n)[i] = a(i)[i]}
<1>3. 0 \in G
  BY <1>2
<1>4. ASSUME NEW i \in Nat, i \in G
      PROVE  i + 1 \in G
  <2> SUFFICES ASSUME NEW n \in Nat, i + 1 <= n PROVE a(n)[i + 1] = a(i + 1)[i + 1]
    OBVIOUS
  <2>1. a(n)[i] = a(i)[i] /\ a(i + 1)[i] = a(i)[i]
    BY <1>4
  <2>2. i + 1 \in 0..n /\ i + 1 \in 0..(i + 1) /\ i + 1 # 0 /\ (i + 1) - 1 = i
    OBVIOUS
  <2>3. a(n)[i + 1] = OfHigher(a(n)[i])
    BY <1>2, <2>2
  <2>4. a(i + 1)[i + 1] = OfHigher(a(i + 1)[i])
    BY <1>2, <2>2
  <2> QED  BY <2>1, <2>3, <2>4
<1> HIDE DEF G
<1>5. Nat \subseteq G
  BY <1>3, <1>4, UpwardInduction
<1>6. \A n \in Nat : f[n] = a(n)[n]
  OBVIOUS
<1>7. f = [n \in Nat |-> f[n]]
  OBVIOUS
<1> HIDE DEF f
<1>8. ASSUME NEW i \in Nat
      PROVE  f[i] = IF i = 0 THEN OfLeaves ELSE OfHigher(f[i - 1])
  <2>1. CASE i = 0
    BY <1>2, <1>6, <2>1
  <2>2. CASE i # 0
    <3>1. i - 1 \in Nat /\ i - 1 <= i /\ i \in 0..i
      BY <2>2
    <3>2. a(i)[i - 1] = f[i - 1]
      BY <1>5, <1>6, <3>1 DEF G
    <3> QED  BY <1>2, <1>6, <2>2, <3>1, <3>2
  <2> QED  BY <2>1, <2>2
<1>9. f = [i \in Nat |-> IF i = 0 THEN OfLeaves ELSE OfHigher(f[i - 1])]
  BY <1>7, <1>8
<1> QED  BY <1>9 DEF Visits, OfLeaves, OfHigher
LEMMA Powers ==
    /\ PowerOfTwo[0] = 1
    /\ \A k \in Nat : PowerOfTwo[k] \in Nat \ {0} /\ PowerOfTwo[k + 1] = 2 * PowerOfTwo[k]
<1> DEFINE G == {k \in Nat : PowerOfTwo[k] \in Nat \ {0}}
<1>1. \A k \in Nat : PowerOfTwo[k] = IF k = 0 THEN 1 ELSE 2 * PowerOfTwo[k - 1]
  BY PowersAre
<1>2. PowerOfTwo[0] = 1
  BY <1>1
<1>3. \A k \in Nat : PowerOfTwo[k + 1] = 2 * PowerOfTwo[k]
  <2> TAKE k \in Nat
  <2>1. k + 1 \in Nat /\ k + 1 # 0 /\ (k + 1) - 1 = k
    OBVIOUS
  <2> QED  BY <1>1, <2>1
<1>4. 0 \in G
  BY <1>2
<1>5. ASSUME NEW k \in Nat, k \in G PROVE k + 1 \in G
  BY <1>3, <1>5
<1> HIDE DEF G
<1>6. Nat \subseteq G
  BY <1>4, <1>5, UpwardInduction
<1> QED  BY <1>2, <1>3, <1>6 DEF G

LEMMA PowersApart ==
    ASSUME NEW k \in Nat, NEW j \in Nat, k < j
    PROVE  2 * PowerOfTwo[k] <= PowerOfTwo[j]
<1> DEFINE G == {d \in Nat : 2 * PowerOfTwo[k] <= PowerOfTwo[k + d + 1]}
<1>1. 0 \in G
  <2>1. PowerOfTwo[k + 1] = 2 * PowerOfTwo[k] /\ PowerOfTwo[k] \in Nat
    BY Powers
  <2>2. k + 0 + 1 = k + 1
    OBVIOUS
  <2> QED  BY <2>1, <2>2
<1>2. ASSUME NEW d \in Nat, d \in G PROVE d + 1 \in G
  <2>1. k + d + 1 \in Nat /\ k + (d + 1) + 1 = (k + d + 1) + 1
    OBVIOUS
  <2>2. /\ PowerOfTwo[(k + d + 1) + 1] = 2 * PowerOfTwo[k + d + 1]
        /\ PowerOfTwo[k + d + 1] \in Nat /\ PowerOfTwo[k] \in Nat
    BY <2>1, Powers
  <2> QED  BY <1>2, <2>1, <2>2
<1> HIDE DEF G
<1>3. Nat \subseteq G
  BY <1>1, <1>2, UpwardInduction
<1>4. j - k - 1 \in Nat /\ k + (j - k - 1) + 1 = j
  OBVIOUS
<1> QED  BY <1>3, <1>4 DEF G

LEMMA HeightIs ==
    ASSUME NEW n \in Nat
    PROVE  Height(n) \in Nat /\ PowerOfTwo[Height(n)] >= n
<1> DEFINE G == {k \in Nat : PowerOfTwo[k] >= k}
           S == {h \in 0..n : PowerOfTwo[h] >= n}
<1>1. 0 \in G
  BY Powers
<1>2. ASSUME NEW k \in Nat, k \in G PROVE k + 1 \in G
  BY <1>2, Powers
<1>3. n \in G
  <2> HIDE DEF G
  <2> QED  BY <1>1, <1>2, UpwardInduction
<1>4. S \in SUBSET Nat /\ n \in S
  BY <1>3
<1>5. PICK h \in S : \A g \in S : h <= g
  <2> HIDE DEF S
  <2> QED  BY <1>4, LeastNat
<1>6. h \in 0..n /\ PowerOfTwo[h] >= n /\ \A g \in 0..(h - 1) : PowerOfTwo[g] < n
  <2> SUFFICES ASSUME NEW g \in 0..(h - 1) PROVE PowerOfTwo[g] < n
    OBVIOUS
  <2>1. g \in 0..n /\ ~(h <= g) /\ g \in Nat
    OBVIOUS
  <2>2. g \notin S
    BY <1>5, <2>1
  <2>3. PowerOfTwo[g] \in Nat
    BY <2>1, Powers
  <2> QED  BY <2>1, <2>2, <2>3
<1>7. Height(n) \in 0..n /\ PowerOfTwo[Height(n)] >= n
  <2>1. Height(n) = CHOOSE k \in 0..n : /\ PowerOfTwo[k] >= n
                                       /\ \A g \in 0..(k - 1) : PowerOfTwo[g] < n
    BY DEF Height
  <2> QED  BY <1>6, <2>1, Zenon
<1> QED  BY <1>7

(* Half of a quotient. *)
LEMMA DividedTwice ==
    ASSUME NEW q \in Nat, NEW v \in Nat \ {0}
    PROVE  q \div v \in Nat /\ q \div (2 * v) = (q \div v) \div 2
<1> DEFINE a == q \div v
           r == q % v
           b == a \div 2
           c == a % 2
<1>1. a \in Nat /\ r \in 0..(v - 1) /\ q = v * a + r
  BY Divided
<1>2. b \in Nat /\ c \in 0..1 /\ a = 2 * b + c
  BY <1>1
<1> HIDE DEF a, r, b, c
<1>3. q = (2 * v) * b + (v * c + r)
  <2>1. v * a = v * (2 * b) + v * c
    BY <1>1, <1>2, ProductLess
  <2>2. v * (2 * b) = (2 * v) * b
    BY <1>2
  <2> QED  BY <1>1, <1>2, <2>1, <2>2
<1>4. v * c + r \in 0..(2 * v - 1)
  <2>1. v * c = 0 \/ v * c = v
    BY <1>2
  <2> QED  BY <1>1, <2>1
<1>5. q \div (2 * v) = b
  <2> DEFINE w == 2 * v
             m == q \div w
             s == q % w
             t == v * c + r
  <2>1. w \in Nat \ {0} /\ m \in Nat /\ s \in 0..(w - 1) /\ q = w * m + s
    <3>1. w \in Nat \ {0}
      OBVIOUS
    <3> HIDE DEF w
    <3> QED  BY <3>1, Divided
  <2>2. q = w * b + t /\ t \in 0..(w - 1)
    BY <1>3, <1>4
  <2> HIDE DEF w, m, s, t
  <2>3. ~(m < b)
    <3> SUFFICES ASSUME m < b PROVE FALSE
      OBVIOUS
    <3>1. w * (m + 1) <= w * b
      <4>1. m + 1 = b \/ m + 1 < b
        BY <1>2, <2>1
      <4>2. m + 1 < b => w * (m + 1) < w * b
        BY <1>2, <2>1, ProductLess
      <4> QED  BY <1>2, <2>1, <4>1, <4>2
    <3>2. w * (m + 1) = w * m + w /\ w * m \in Int /\ w * b \in Int
      BY <1>2, <2>1, ProductLess
    <3> QED  BY <2>1, <2>2, <3>1, <3>2
  <2>4. ~(b < m)
    <3> SUFFICES ASSUME b < m PROVE FALSE
      OBVIOUS
    <3>1. w * (b + 1) <= w * m
      <4>1. b + 1 = m \/ b + 1 < m
        BY <1>2, <2>1
      <4>2. b + 1 < m => w * (b + 1) < w * m
        BY <1>2, <2>1, ProductLess
      <4> QED  BY <1>2, <2>1, <4>1, <4>2
    <3>2. w * (b + 1) = w * b + w /\ w * m \in Int /\ w * b \in Int
      BY <1>2, <2>1, ProductLess
    <3> QED  BY <2>1, <2>2, <3>1, <3>2
  <2>5. m = b
    BY <1>2, <2>1, <2>3, <2>4
  <2> QED  BY <2>5 DEF m, w
<1> QED  BY <1>1, <1>5 DEF a, b
-----------------------------------------------------------------------------
(* The ends of what is left to cover, level by level. *)
Rising(left, right, n, after) ==
    after = [i \in 0..n |-> IF i = 0 THEN <<left, right>>
                    ELSE <<(after[i - 1][1] + 1) \div 2, after[i - 1][2] \div 2>>]

LEMMA RisingExists ==
    ASSUME NEW left, NEW right
    PROVE  \A n \in Nat : \E after : Rising(left, right, n, after)
<1> DEFINE G == {n \in Nat : \E after : Rising(left, right, n, after)}
<1>1. 0 \in G
  <2> DEFINE h == [i \in 0..0 |-> <<left, right>>]
  <2>1. Rising(left, right, 0, h)
    BY SMTT(30) DEF Rising
  <2> QED  BY <2>1
<1>2. ASSUME NEW n \in Nat, n \in G
      PROVE  n + 1 \in G
  <2>1. PICK h : Rising(left, right, n, h)
    BY <1>2
  <2> DEFINE next == <<(h[n][1] + 1) \div 2, h[n][2] \div 2>>
             g == [i \in 0..(n + 1) |-> IF i = n + 1 THEN next ELSE h[i]]
  <2>2. \A i \in 0..n : h[i] = IF i = 0 THEN <<left, right>>
                    ELSE <<(h[i - 1][1] + 1) \div 2, h[i - 1][2] \div 2>>
    BY <2>1 DEF Rising
  <2>3. \A i \in 0..n : g[i] = h[i]
    OBVIOUS
  <2>4. g[n + 1] = next
    OBVIOUS
  <2>5. g = [i \in 0..(n + 1) |-> g[i]]
    OBVIOUS
  <2> HIDE DEF g
  <2>6. \A i \in 0..(n + 1) : g[i] = IF i = 0 THEN <<left, right>>
                    ELSE <<(g[i - 1][1] + 1) \div 2, g[i - 1][2] \div 2>>
    <3> SUFFICES ASSUME NEW i \in 0..(n + 1)
                 PROVE  g[i] = IF i = 0 THEN <<left, right>>
                    ELSE <<(g[i - 1][1] + 1) \div 2, g[i - 1][2] \div 2>>
      OBVIOUS
    <3>1. CASE i = n + 1
      <4>1. i # 0 /\ i - 1 = n /\ n \in 0..n
        BY <3>1
      <4> QED  BY <2>3, <2>4, <3>1, <4>1
    <3>2. CASE i # n + 1
      <4>1. i \in 0..n /\ (i # 0 => i - 1 \in 0..n)
        BY <3>2
      <4> QED  BY <2>2, <2>3, <4>1
    <3> QED  BY <3>1, <3>2
  <2>7. Rising(left, right, n + 1, g)
    BY <2>5, <2>6 DEF Rising
  <2> QED  BY <2>7
<1> HIDE DEF G
<1>3. Nat \subseteq G
  BY <1>1, <1>2, UpwardInduction
<1> QED  BY <1>3 DEF G

(* What one level covers: an end that is no child of the level above. *)
EndsOf(ends) ==
    {p \in {ends[1]} : p % 2 = 1} \cup {p - 1 : p \in {q \in {ends[2]} : q % 2 = 1}}

CoverLevels(left, right, h, level) ==
    /\ \A k \in 0..h : level[k][1] \in Nat /\ level[k][2] \in Nat
    /\ level[0] = <<left, right>>
    /\ \A k \in 0..(h - 1) : level[k + 1] = <<(level[k][1] + 1) \div 2, level[k][2] \div 2>>
    /\ Cover(left, right, h) =
          UNION {EndsOf(level[k]) : k \in {l \in 0..h : level[l][1] < level[l][2]}}

LEMMA CoverUnfolds ==
    ASSUME NEW left \in Nat, NEW right \in Nat, NEW h \in Nat
    PROVE  \E level : CoverLevels(left, right, h, level)
<1> DEFINE level == CHOOSE after : Rising(left, right, h, after)
<1>1. Rising(left, right, h, level)
  BY RisingExists
<1>2. Cover(left, right, h) =
         UNION {EndsOf(level[k]) : k \in {l \in 0..h : level[l][1] < level[l][2]}}
  BY DEF Cover, Rising, EndsOf
<1> HIDE DEF level
<1>3. \A k \in 0..h : level[k] = IF k = 0 THEN <<left, right>>
                                 ELSE <<(level[k - 1][1] + 1) \div 2, level[k - 1][2] \div 2>>
  BY <1>1 DEF Rising
<1>4. level[0] = <<left, right>>
  <2>1. 0 \in 0..h
    OBVIOUS
  <2> QED  BY <1>3, <2>1
<1>5. \A k \in 0..(h - 1) : level[k + 1] = <<(level[k][1] + 1) \div 2, level[k][2] \div 2>>
  <2> TAKE k \in 0..(h - 1)
  <2>1. k + 1 \in 0..h /\ k + 1 # 0 /\ (k + 1) - 1 = k
    OBVIOUS
  <2> QED  BY <1>3, <2>1
<1> DEFINE G == {k \in Nat : k <= h => level[k][1] \in Nat /\ level[k][2] \in Nat}
<1>6. 0 \in G
  BY <1>4
<1>7. ASSUME NEW k \in Nat, k \in G PROVE k + 1 \in G
  <2> SUFFICES ASSUME k + 1 <= h PROVE level[k + 1][1] \in Nat /\ level[k + 1][2] \in Nat
    OBVIOUS
  <2>1. k \in 0..(h - 1)
    OBVIOUS
  <2>2. level[k][1] \in Nat /\ level[k][2] \in Nat
    BY <1>7
  <2>3. (level[k][1] + 1) \div 2 \in Nat /\ level[k][2] \div 2 \in Nat
    BY <2>2
  <2> QED  BY <1>5, <2>1, <2>3
<1> HIDE DEF G
<1>8. Nat \subseteq G
  BY <1>6, <1>7, UpwardInduction
<1>9. \A k \in 0..h : level[k][1] \in Nat /\ level[k][2] \in Nat
  BY <1>8 DEF G
<1> QED  BY <1>2, <1>4, <1>5, <1>9 DEF CoverLevels

(* One level: an end is covered, and the rest is covered by the levels above. *)
LEMMA LevelCovers ==
    ASSUME NEW l \in Nat, NEW r \in Nat, NEW a \in Nat
    PROVE  l <= a /\ a < r <=> \/ l < r /\ a \in EndsOf(<<l, r>>)
                               \/ (l + 1) \div 2 <= a \div 2 /\ a \div 2 < r \div 2
<1>1. a \in EndsOf(<<l, r>>) <=> (a = l /\ l % 2 = 1) \/ (a = r - 1 /\ r % 2 = 1)
  BY DEF EndsOf
<1>2. PICK m \in Nat : l = 2 * m \/ l = 2 * m + 1
  <2>1. l = 2 * (l \div 2) \/ l = 2 * (l \div 2) + 1
    OBVIOUS
  <2> QED  BY <2>1
<1>3. PICK n \in Nat : r = 2 * n \/ r = 2 * n + 1
  <2>1. r = 2 * (r \div 2) \/ r = 2 * (r \div 2) + 1
    OBVIOUS
  <2> QED  BY <2>1
<1>4. PICK b \in Nat : a = 2 * b \/ a = 2 * b + 1
  <2>1. a = 2 * (a \div 2) \/ a = 2 * (a \div 2) + 1
    OBVIOUS
  <2> QED  BY <2>1
<1>5. a \div 2 = b /\ r \div 2 = n
  BY <1>3, <1>4
<1>6. (l = 2 * m /\ l % 2 = 0 /\ (l + 1) \div 2 = m) \/ (l = 2 * m + 1 /\ l % 2 = 1 /\ (l + 1) \div 2 = m + 1)
  BY <1>2
<1>7. (r = 2 * n /\ r % 2 = 0) \/ (r = 2 * n + 1 /\ r % 2 = 1)
  BY <1>3
<1> QED  BY <1>1, <1>4, <1>5, <1>6, <1>7
(* The levels cover a leaf, through one of its ancestors or itself, if and only
   if it is one of the leaves to cover. *)
LEMMA CoverIs ==
    ASSUME NEW h \in Nat, NEW left \in Nat, NEW right \in Nat, NEW q \in Nat,
           PowerOfTwo[h] <= left, right <= 2 * PowerOfTwo[h],
           PowerOfTwo[h] <= q, q < 2 * PowerOfTwo[h]
    PROVE  (\E j \in 0..h : q \div PowerOfTwo[j] \in Cover(left, right, h))
              <=> left <= q /\ q < right
<1>0. PICK level : CoverLevels(left, right, h, level)
  BY CoverUnfolds
<1>1. /\ \A k \in 0..h : level[k][1] \in Nat /\ level[k][2] \in Nat
      /\ level[0] = <<left, right>>
      /\ \A k \in 0..(h - 1) :
            level[k + 1] = <<(level[k][1] + 1) \div 2, level[k][2] \div 2>>
      /\ Cover(left, right, h) =
            UNION {EndsOf(level[k]) : k \in {l \in 0..h : level[l][1] < level[l][2]}}
  BY <1>0 DEF CoverLevels
<1> DEFINE L(k) == level[k][1]
           R(k) == level[k][2]
           A(k) == q \div PowerOfTwo[k]
           P(k) == PowerOfTwo[k]
           At(k) == L(k) < R(k) /\ A(k) \in EndsOf(level[k])
           Inside(k) == L(k) <= A(k) /\ A(k) < R(k)
<1>2. \A k \in Nat : P(k) \in Nat \ {0} /\ P(k + 1) = 2 * P(k) /\ P(0) = 1
  BY Powers
<1>3. A(0) = q /\ \A k \in Nat : A(k) \in Nat /\ A(k + 1) = A(k) \div 2
  <2>1. A(0) = q
    BY <1>2
  <2>2. \A k \in Nat : q \div P(k) \in Nat /\ q \div (2 * P(k)) = (q \div P(k)) \div 2
    <3> HIDE DEF P
    <3> QED  BY <1>2, DividedTwice
  <2> QED  BY <1>2, <2>1, <2>2
<1>4. ASSUME NEW k \in 0..(h - 1)
      PROVE  L(k + 1) = (L(k) + 1) \div 2 /\ R(k + 1) = R(k) \div 2
  BY <1>1
<1>5. \A k \in 0..h : L(k) \in Nat /\ R(k) \in Nat
  BY <1>1
<1>6. \A k \in 0..h : A(k) \in EndsOf(level[k]) <=>
         (A(k) = L(k) /\ L(k) % 2 = 1) \/ (A(k) = R(k) - 1 /\ R(k) % 2 = 1)
  BY DEF EndsOf
<1>7. \A k \in 0..(h - 1) : Inside(k) <=> At(k) \/ Inside(k + 1)
  <2> SUFFICES ASSUME NEW k \in 0..(h - 1) PROVE Inside(k) <=> At(k) \/ Inside(k + 1)
    OBVIOUS
  <2> DEFINE l == L(k)
             r == R(k)
             a == A(k)
  <2>1. l \in Nat /\ r \in Nat /\ a \in Nat
    <3>1. k \in 0..h /\ k \in Nat
      OBVIOUS
    <3> HIDE DEF L, R, A
    <3> QED  BY <1>3, <1>5, <3>1
  <2>2. a \in EndsOf(<<l, r>>) <=> a \in EndsOf(level[k])
    BY DEF EndsOf
  <2>3. A(k + 1) = a \div 2 /\ L(k + 1) = (l + 1) \div 2 /\ R(k + 1) = r \div 2
    BY <1>3, <1>4
  <2>4. l <= a /\ a < r <=> \/ l < r /\ a \in EndsOf(<<l, r>>)
                            \/ (l + 1) \div 2 <= a \div 2 /\ a \div 2 < r \div 2
    <3> HIDE DEF l, r, a
    <3> QED  BY <2>1, LevelCovers
  <2>5. Inside(k) <=> l <= a /\ a < r
    OBVIOUS
  <2>6. At(k) <=> l < r /\ a \in EndsOf(<<l, r>>)
    BY <2>2
  <2>7. Inside(k + 1) <=> (l + 1) \div 2 <= a \div 2 /\ a \div 2 < r \div 2
    BY <2>3
  <2> HIDE DEF Inside, At, l, r, a
  <2> QED  BY <2>4, <2>5, <2>6, <2>7
(* Where the ends and the ancestors are on each level. *)
<1>8. \A k \in 0..h : P(h - k) <= L(k) /\ R(k) <= 2 * P(h - k)
                      /\ P(h - k) <= A(k) /\ A(k) < 2 * P(h - k)
  <2> DEFINE G == {k \in Nat : k <= h =>
                     P(h - k) <= L(k) /\ R(k) <= 2 * P(h - k)
                     /\ P(h - k) <= A(k) /\ A(k) < 2 * P(h - k)}
  <2>1. 0 \in G
    <3>1. L(0) = left /\ R(0) = right /\ A(0) = q /\ h - 0 = h
      BY <1>1, <1>3
    <3> QED  BY <3>1
  <2>2. ASSUME NEW k \in Nat, k \in G PROVE k + 1 \in G
    <3> SUFFICES ASSUME k + 1 <= h
                 PROVE  P(h - (k + 1)) <= L(k + 1) /\ R(k + 1) <= 2 * P(h - (k + 1))
                        /\ P(h - (k + 1)) <= A(k + 1) /\ A(k + 1) < 2 * P(h - (k + 1))
      OBVIOUS
    <3> DEFINE p == P(h - (k + 1))
    <3>1. h - (k + 1) \in Nat /\ (h - (k + 1)) + 1 = h - k /\ k \in 0..(h - 1) /\ k \in 0..h
      OBVIOUS
    <3>2. p \in Nat \ {0} /\ P(h - k) = 2 * p
      BY <1>2, <3>1
    <3>3. 2 * p <= L(k) /\ R(k) <= 2 * (2 * p) /\ 2 * p <= A(k) /\ A(k) < 2 * (2 * p)
      BY <2>2, <3>1, <3>2
    <3>4. /\ L(k + 1) = (L(k) + 1) \div 2 /\ R(k + 1) = R(k) \div 2
          /\ A(k + 1) = A(k) \div 2
      BY <1>3, <1>4, <3>1
    <3>5. L(k) \in Nat /\ R(k) \in Nat /\ A(k) \in Nat
      BY <1>3, <1>5, <3>1
    <3> HIDE DEF p, L, R, A, P
    <3>6. p <= L(k + 1) /\ R(k + 1) <= 2 * p /\ p <= A(k + 1) /\ A(k + 1) < 2 * p
      BY <3>2, <3>3, <3>4, <3>5
    <3> QED  BY <3>6 DEF p
  <2> HIDE DEF G
  <2>3. Nat \subseteq G
    BY <2>1, <2>2, UpwardInduction
  <2> QED  BY <2>3 DEF G
<1>9. Inside(h) => At(h)
  <2> SUFFICES ASSUME Inside(h) PROVE At(h)
    OBVIOUS
  <2>1. h - h = 0 /\ h \in 0..h /\ P(0) = 1
    BY <1>2
  <2>2. L(h) = 1 /\ A(h) = 1 /\ L(h) % 2 = 1
    <3>1. /\ L(h) \in Nat /\ R(h) \in Nat /\ A(h) \in Nat
          /\ P(0) <= L(h) /\ R(h) <= 2 * P(0) /\ P(0) <= A(h) /\ A(h) < 2 * P(0)
      <4> HIDE DEF L, R, A, P
      <4> QED  BY <1>3, <1>5, <1>8, <2>1
    <3>2. L(h) <= A(h) /\ A(h) < R(h)
      OBVIOUS
    <3> HIDE DEF L, R, A, P
    <3> QED  BY <2>1, <3>1, <3>2
  <2>3. A(h) \in EndsOf(level[h])
    BY <1>6, <2>1, <2>2
  <2>4. L(h) < R(h)
    BY <1>5, <2>1, <2>2
  <2> QED  BY <2>3, <2>4
<1>10. Inside(0) => \E k \in 0..h : At(k)
  <2> DEFINE G == {k \in Nat : k <= h => (Inside(h - k) => \E j \in 0..h : At(j))}
  <2>1. 0 \in G
    <3>1. h - 0 = h /\ h \in 0..h
      OBVIOUS
    <3> HIDE DEF Inside, At
    <3> QED  BY <1>9, <3>1
  <2>2. ASSUME NEW k \in Nat, k \in G PROVE k + 1 \in G
    <3> SUFFICES ASSUME k + 1 <= h, Inside(h - (k + 1)) PROVE \E j \in 0..h : At(j)
      OBVIOUS
    <3>1. h - (k + 1) \in 0..(h - 1) /\ (h - (k + 1)) + 1 = h - k /\ h - (k + 1) \in 0..h
      OBVIOUS
    <3> HIDE DEF Inside, At
    <3>2. At(h - (k + 1)) \/ Inside(h - k)
      BY <1>7, <3>1
    <3> QED  BY <2>2, <3>1, <3>2
  <2> HIDE DEF G
  <2>3. Nat \subseteq G
    BY <2>1, <2>2, UpwardInduction
  <2>4. h \in G /\ h - h = 0
    BY <2>3
  <2> HIDE DEF Inside, At
  <2> QED  BY <2>4 DEF G
<1>11. ASSUME NEW k \in 0..h, At(k) PROVE Inside(0)
  <2> DEFINE G == {d \in Nat : d <= k => Inside(k - d)}
  <2>1. 0 \in G
    <3>1. k - 0 = k
      OBVIOUS
    <3>2. k \in 0..(h - 1) \/ k = h
      OBVIOUS
    <3>3. At(h) => Inside(h)
      <4>1. h \in 0..h
        OBVIOUS
      <4>2. /\ L(h) \in Nat /\ R(h) \in Nat /\ A(h) \in Nat
            /\ A(h) \in EndsOf(level[h]) =>
                  (A(h) = L(h) /\ L(h) % 2 = 1) \/ (A(h) = R(h) - 1 /\ R(h) % 2 = 1)
        <5> HIDE DEF L, R, A
        <5> QED  BY <1>3, <1>5, <1>6, <4>1
      <4>3. L(h) < R(h) /\ A(h) \in EndsOf(level[h]) => L(h) <= A(h) /\ A(h) < R(h)
        <5> HIDE DEF L, R, A
        <5> QED  BY <4>2
      <4> QED  BY <4>3
    <3> HIDE DEF At, Inside
    <3> QED  BY <1>7, <1>11, <3>1, <3>2, <3>3
  <2>2. ASSUME NEW d \in Nat, d \in G PROVE d + 1 \in G
    <3> SUFFICES ASSUME d + 1 <= k PROVE Inside(k - (d + 1))
      OBVIOUS
    <3>1. k - (d + 1) \in 0..(h - 1) /\ (k - (d + 1)) + 1 = k - d
      OBVIOUS
    <3> HIDE DEF At, Inside
    <3> QED  BY <1>7, <2>2, <3>1
  <2> HIDE DEF G
  <2>3. Nat \subseteq G
    BY <2>1, <2>2, UpwardInduction
  <2>4. k \in G /\ k - k = 0
    BY <2>3
  <2> HIDE DEF Inside
  <2> QED  BY <2>4 DEF G
<1>12. Inside(0) <=> left <= q /\ q < right
  BY <1>1, <1>3
<1>13. ASSUME NEW j \in 0..h, A(j) \in Cover(left, right, h)
       PROVE  At(j)
  <2>1. PICK k \in 0..h : L(k) < R(k) /\ A(j) \in EndsOf(level[k])
    BY <1>1, <1>13
  <2>2. L(k) <= A(j) /\ A(j) < R(k)
    <3>1. A(j) = L(k) \/ A(j) = R(k) - 1
      BY <2>1 DEF EndsOf
    <3> QED  BY <1>5, <2>1, <3>1
  <2>3. A(j) \in Nat /\ L(k) \in Nat /\ R(k) \in Nat
    BY <1>3, <1>5
  <2>4. P(h - k) <= A(j) /\ A(j) < 2 * P(h - k) /\ P(h - j) <= A(j) /\ A(j) < 2 * P(h - j)
    <3>1. /\ P(h - k) <= L(k) /\ R(k) <= 2 * P(h - k)
          /\ P(h - j) <= A(j) /\ A(j) < 2 * P(h - j)
      BY <1>8
    <3>2. P(h - k) \in Nat /\ P(h - j) \in Nat
      <4>1. h - k \in Nat /\ h - j \in Nat
        OBVIOUS
      <4> QED  BY <1>2, <4>1
    <3> HIDE DEF P, A, L, R
    <3> QED  BY <2>2, <2>3, <3>1, <3>2
  <2>5. k = j
    <3> SUFFICES ASSUME k # j PROVE FALSE
      OBVIOUS
    <3>1. h - k \in Nat /\ h - j \in Nat /\ (h - k < h - j \/ h - j < h - k)
      OBVIOUS
    <3>2. P(h - k) \in Nat /\ P(h - j) \in Nat
      BY <1>2, <3>1
    <3>3. 2 * P(h - k) <= P(h - j) \/ 2 * P(h - j) <= P(h - k)
      BY <3>1, PowersApart
    <3> HIDE DEF P, A
    <3> QED  BY <2>3, <2>4, <3>2, <3>3
  <2> QED  BY <2>1, <2>5
<1>14. ASSUME NEW k \in 0..h, At(k)
       PROVE  A(k) \in Cover(left, right, h)
  <2> HIDE DEF A
  <2> QED  BY <1>1, <1>14
<1>15. (\E j \in 0..h : A(j) \in Cover(left, right, h)) <=> Inside(0)
  <2> HIDE DEF A, At, Inside
  <2> QED  BY <1>10, <1>11, <1>13, <1>14
<1> QED  BY <1>12, <1>15

(* The rows at one position of the tree over the batches of rows. *)
CoveredAt(rows, position) ==
    LET times  == BatchTimes(rows)
        height == Height(Len(times))
        leaves == PowerOfTwo[height]
    IN  {r \in rows : \E i \in Intervals(times, r) :
            i[1] < i[2] /\ position \in Cover(i[1] + leaves, i[2] + leaves, height)}

LEMMA RowsAtListed ==
    ASSUME NEW rows, Known(rows), NEW p
    PROVE  LET s == RowsAt(rows, BatchTimes(rows), p)
           IN  Len(s) \in Nat /\ {s[i] : i \in 1..Len(s)} = CoveredAt(rows, p)
<1> DEFINE s == RowsAt(rows, BatchTimes(rows), p)
           S == CoveredAt(rows, p)
<1>1. s = Sorted(S, Available)
  BY DEF RowsAt, CoveredAt
<1>2. S \subseteq rows
  BY DEF CoveredAt
<1>3. S \subseteq Rows /\ IsFiniteSet(S)
  BY <1>2, FS_Subset DEF Known
<1> HIDE DEF s, S
<1>4. Lists(s, S, InAvailable(S))
  BY <1>1, <1>3, SortedAvailable
<1>5. /\ Len(s) \in Nat /\ DOMAIN s = 1..Len(s)
      /\ \A i \in DOMAIN s : s[i] \in S
      /\ \A r \in S : \E i \in DOMAIN s : s[i] = r
  BY <1>4, LenProperties, ElementOfSeq DEF Lists
<1> QED  BY <1>5 DEF s, S

(* What is covered at a position or above it, and strictly above it. *)
RootPath(rows, position, level) ==
    UNION {CoveredAt(rows, position \div PowerOfTwo[j]) : j \in 0..level}

Above(rows, position, level) ==
    UNION {CoveredAt(rows, position \div PowerOfTwo[j]) : j \in 1..level}

LEMMA PathSplits ==
    ASSUME NEW rows, NEW p \in Nat, NEW k \in Nat
    PROVE  RootPath(rows, p, k) = Above(rows, p, k) \cup CoveredAt(rows, p)
<1>1. p \div PowerOfTwo[0] = p
  BY Powers
<1>2. 0..k = {0} \cup (1..k)
  OBVIOUS
<1> QED  BY <1>1, <1>2 DEF RootPath, Above

(* Above a child is what is on the path of its parent. *)
LEMMA AboveChild ==
    ASSUME NEW rows, NEW p \in Nat, NEW k \in Nat, NEW c \in {2 * p, 2 * p + 1}
    PROVE  Above(rows, c, k + 1) = RootPath(rows, p, k)
<1> DEFINE G == {j \in Nat : c \div PowerOfTwo[j + 1] = p \div PowerOfTwo[j]}
<1>1. 0 \in G
  <2>1. PowerOfTwo[0 + 1] = 2 /\ PowerOfTwo[0] = 1
    BY Powers
  <2>2. c \div 2 = p /\ p \div 1 = p
    OBVIOUS
  <2> QED  BY <2>1, <2>2
<1>2. ASSUME NEW j \in Nat, j \in G PROVE j + 1 \in G
  <2>1. c \in Nat /\ j + 1 \in Nat
    OBVIOUS
  <2>2. /\ PowerOfTwo[(j + 1) + 1] = 2 * PowerOfTwo[j + 1] /\ PowerOfTwo[j + 1] = 2 * PowerOfTwo[j]
        /\ PowerOfTwo[j + 1] \in Nat \ {0} /\ PowerOfTwo[j] \in Nat \ {0}
    BY <2>1, Powers
  <2>3. c \div (2 * PowerOfTwo[j + 1]) = (c \div PowerOfTwo[j + 1]) \div 2
    BY <2>1, <2>2, DividedTwice
  <2>4. p \div (2 * PowerOfTwo[j]) = (p \div PowerOfTwo[j]) \div 2
    BY <2>2, DividedTwice
  <2> QED  BY <1>2, <2>1, <2>2, <2>3, <2>4
<1> HIDE DEF G
<1>3. Nat \subseteq G
  BY <1>1, <1>2, UpwardInduction
<1>4. \A j \in Nat : c \div PowerOfTwo[j + 1] = p \div PowerOfTwo[j]
  BY <1>3 DEF G
<1>5. ASSUME NEW r
      PROVE  r \in Above(rows, c, k + 1) <=> r \in RootPath(rows, p, k)
  <2>1. ASSUME NEW i \in 1..(k + 1), r \in CoveredAt(rows, c \div PowerOfTwo[i])
        PROVE  \E j \in 0..k : r \in CoveredAt(rows, p \div PowerOfTwo[j])
    <3>1. i - 1 \in 0..k /\ i - 1 \in Nat /\ (i - 1) + 1 = i
      OBVIOUS
    <3>2. c \div PowerOfTwo[i] = p \div PowerOfTwo[i - 1]
      BY <1>4, <3>1
    <3> QED  BY <2>1, <3>1, <3>2
  <2>2. ASSUME NEW j \in 0..k, r \in CoveredAt(rows, p \div PowerOfTwo[j])
        PROVE  \E i \in 1..(k + 1) : r \in CoveredAt(rows, c \div PowerOfTwo[i])
    <3>1. j + 1 \in 1..(k + 1) /\ j \in Nat
      OBVIOUS
    <3>2. c \div PowerOfTwo[j + 1] = p \div PowerOfTwo[j]
      BY <1>4, <3>1
    <3> QED  BY <2>2, <3>1, <3>2
  <2> QED  BY <2>1, <2>2 DEF Above, RootPath
<1> QED  BY <1>5

(* From the root to the leaf of a batch: what its alerts can see. *)
LEMMA PathIsVisible ==
    ASSUME NEW rows, Known(rows), NEW b \in DOMAIN BatchTimes(rows)
    PROVE  LET height == Height(Len(BatchTimes(rows)))
           IN  RootPath(rows, PowerOfTwo[height] + b - 1, height) = Visible(rows, BatchTimes(rows)[b])
<1> DEFINE times == BatchTimes(rows)
           n == Len(times)
           H == Height(n)
           L == PowerOfTwo[H]
           q == L + b - 1
<1>1. n \in Nat /\ b \in 1..n
  BY TimesListedUp
<1>2. H \in Nat /\ L >= n /\ L \in Nat \ {0}
  <2> HIDE DEF times, n
  <2> QED  BY <1>1, HeightIs, Powers
<1>3. q \in Nat /\ L <= q /\ q < 2 * L
  <2> HIDE DEF n, L
  <2> QED  BY <1>1, <1>2
<1>4. ASSUME NEW r \in rows
      PROVE  r \in Visible(rows, times[b]) <=>
                \E j \in 0..H : r \in CoveredAt(rows, q \div PowerOfTwo[j])
  <2>1. /\ \A v \in Intervals(times, r) : v[1] \in Nat /\ v[2] \in Nat /\ v[2] <= n
        /\ r \in Visible(rows, times[b]) <=>
              \E v \in Intervals(times, r) : v[1] <= b - 1 /\ b - 1 < v[2]
    BY IntervalsAre
  <2>2. \A p : r \in CoveredAt(rows, p) <=>
           \E v \in Intervals(times, r) : v[1] < v[2] /\ p \in Cover(v[1] + L, v[2] + L, H)
    BY DEF CoveredAt
  <2> HIDE DEF times, n, H, L, q
  <2>3. \A v \in Intervals(times, r) :
           (\E j \in 0..H : q \div PowerOfTwo[j] \in Cover(v[1] + L, v[2] + L, H)) <=>
              v[1] <= b - 1 /\ b - 1 < v[2]
    <3> TAKE v \in Intervals(times, r)
    <3>1. v[1] \in Nat /\ v[2] \in Nat /\ v[2] <= n
      BY <2>1
    <3>2. /\ v[1] + L \in Nat /\ v[2] + L \in Nat
          /\ PowerOfTwo[H] <= v[1] + L /\ v[2] + L <= 2 * PowerOfTwo[H]
          /\ PowerOfTwo[H] <= q /\ q < 2 * PowerOfTwo[H]
      BY <1>1, <1>2, <1>3, <3>1 DEF L
    <3>3. (\E j \in 0..H : q \div PowerOfTwo[j] \in Cover(v[1] + L, v[2] + L, H))
             <=> v[1] + L <= q /\ q < v[2] + L
      BY <1>2, <1>3, <3>2, CoverIs
    <3>4. (v[1] + L <= q /\ q < v[2] + L) <=> (v[1] <= b - 1 /\ b - 1 < v[2])
      BY <1>1, <1>2, <3>1 DEF q
    <3> QED  BY <3>3, <3>4
  <2>4. \A v \in Intervals(times, r) : v[1] <= b - 1 /\ b - 1 < v[2] => v[1] < v[2]
    BY <1>1, <2>1
  <2> QED  BY <2>1, <2>2, <2>3, <2>4
<1>5. \A p : CoveredAt(rows, p) \subseteq rows
  BY DEF CoveredAt
<1>6. Visible(rows, times[b]) \subseteq rows
  BY DEF Visible
<1> HIDE DEF times, n, H, L, q
<1>7. RootPath(rows, q, H) = Visible(rows, times[b])
  BY <1>4, <1>5, <1>6 DEF RootPath
<1> QED  BY <1>7 DEF times, n, H, L, q
-----------------------------------------------------------------------------
(***************************************************************************)
(* THE UNION-FIND.  Represents says that it stands for a set of edges: each *)
(* node has a root, a number falls along the parents, nodes with one root   *)
(* are those no closed set tells apart, and the root's part describes them. *)
(***************************************************************************)
(* A sequence after an element is appended and taken off again. *)
LEMMA AppendedOff ==
    ASSUME NEW s, IsSequence(s), NEW x
    PROVE  Front(Append(s, x)) = s /\ Last(Append(s, x)) = x
<1>1. PICK S : s \in Seq(S)
  BY DEF IsSequence
<1>2. s \in Seq(S \cup {x}) /\ x \in S \cup {x}
  <2>1. \A i \in 1..Len(s) : s[i] \in S \cup {x}
    BY <1>1, ElementOfSeq
  <2> QED  BY <1>1, <2>1, SeqDef
<1> HIDE <1>1
<1>3. SubSeq(Append(s, x), 1, Len(Append(s, x)) - 1) = s
  BY <1>2
<1>4. Append(s, x)[Len(Append(s, x))] = x
  BY <1>2
<1> QED  BY <1>3, <1>4 DEF Front, Last

(* The trees of a union-find: R is the root of each node, below which the depth
   only falls. *)
Rooted(d, N, R, depth) ==
    /\ d = [parent |-> d.parent, part |-> d.part, history |-> d.history]
    /\ d.parent \in [N -> N] /\ DOMAIN d.part = N /\ d.part = [n \in N |-> d.part[n]]
    /\ IsSequence(d.history)
    /\ R \in [N -> N] /\ depth \in [N -> Nat]
    /\ \A n \in N : d.parent[n] = n => R[n] = n
    /\ \A n \in N : d.parent[n] # n => R[n] = R[d.parent[n]] /\ depth[d.parent[n]] < depth[n]

(* Nodes have one root if and only if edges connect them. *)
Joins(N, E, R) ==
    /\ \A r \in E : R[r.actor] = R[r.counterparty]
    /\ \A S \in SUBSET N : (\A r \in E : r.actor \in S <=> r.counterparty \in S) =>
          \A x, y \in N : R[x] = R[y] => (x \in S <=> y \in S)

Smallest(S) == CHOOSE m \in S : \A k \in S : m <= k

(* What a root stands for. *)
PartOf(rows, E, R, x) ==
    [size |-> Cardinality({n \in Nodes(rows) : R[n] = x}),
     minimum |-> Smallest({n \in Nodes(rows) : R[n] = x}),
     evidence |-> {r \in E : R[r.actor] = x},
     members |-> {p \in DOMAIN Decisions(rows) :
                     x \in {R[Decisions(rows)[p].actor], R[Decisions(rows)[p].counterparty]}}]

(* The union-find after the edges E. *)
Holds(d, rows, E, R, depth) ==
    /\ E \subseteq rows
    /\ Rooted(d, Nodes(rows), R, depth)
    /\ Joins(Nodes(rows), E, R)
    /\ \A x \in Nodes(rows) : d.parent[x] = x => d.part[x] = PartOf(rows, E, R, x)

Represents(d, rows, E) == \E R, depth : Holds(d, rows, E, R, depth)

LEMMA RootsAre ==
    ASSUME NEW d, NEW N, NEW R, NEW depth, Rooted(d, N, R, depth)
    PROVE  \A n \in N : R[n] \in N /\ d.parent[R[n]] = R[n] /\ R[R[n]] = R[n]
<1>1. /\ d.parent \in [N -> N] /\ R \in [N -> N] /\ depth \in [N -> Nat]
      /\ \A n \in N : d.parent[n] = n => R[n] = n
      /\ \A n \in N : d.parent[n] # n => R[n] = R[d.parent[n]] /\ depth[d.parent[n]] < depth[n]
  BY DEF Rooted
<1> DEFINE G == {k \in Nat : \A n \in N : depth[n] < k => d.parent[R[n]] = R[n]}
<1>2. 0 \in G
  BY <1>1
<1>3. ASSUME NEW k \in Nat, k \in G PROVE k + 1 \in G
  <2> SUFFICES ASSUME NEW n \in N, depth[n] < k + 1 PROVE d.parent[R[n]] = R[n]
    OBVIOUS
  <2>1. CASE d.parent[n] = n
    BY <1>1, <2>1
  <2>2. CASE d.parent[n] # n
    <3>1. d.parent[n] \in N /\ depth[n] \in Nat /\ depth[d.parent[n]] \in Nat
      BY <1>1
    <3>2. R[n] = R[d.parent[n]] /\ depth[d.parent[n]] < k
      BY <1>1, <2>2, <3>1
    <3> QED  BY <1>3, <3>1, <3>2
  <2> QED  BY <2>1, <2>2
<1> HIDE DEF G
<1>4. Nat \subseteq G
  BY <1>2, <1>3, UpwardInduction
<1>5. \A n \in N : d.parent[R[n]] = R[n]
  <2> TAKE n \in N
  <2>1. depth[n] + 1 \in Nat /\ depth[n] < depth[n] + 1
    BY <1>1
  <2> QED  BY <1>4, <2>1 DEF G
<1> QED  BY <1>1, <1>5

(* find() follows the parents to the root. *)
LEMMA FindIs ==
    ASSUME NEW d, NEW N, NEW R, NEW depth, Rooted(d, N, R, depth)
    PROVE  \A n \in N : Find(d, n) = R[n]
<1> DEFINE Finds(f) == f = [m \in DOMAIN d.parent |->
                              IF d.parent[m] = m THEN m ELSE f[d.parent[m]]]
           f == CHOOSE g : Finds(g)
<1>1. /\ d.parent \in [N -> N] /\ R \in [N -> N] /\ depth \in [N -> Nat] /\ DOMAIN d.parent = N
      /\ \A n \in N : d.parent[n] = n => R[n] = n
      /\ \A n \in N : d.parent[n] # n => R[n] = R[d.parent[n]] /\ depth[d.parent[n]] < depth[n]
  BY DEF Rooted
<1>2. Finds(R)
  <2>1. R = [m \in N |-> R[m]]
    BY <1>1
  <2>2. \A m \in N : R[m] = IF d.parent[m] = m THEN m ELSE R[d.parent[m]]
    BY <1>1
  <2> QED  BY <1>1, <2>1, <2>2
<1>3. Finds(f)
  BY <1>2
<1>4. \A n \in N : Find(d, n) = f[n]
  BY DEF Find
<1> HIDE DEF f
<1>5. \A m \in N : f[m] = IF d.parent[m] = m THEN m ELSE f[d.parent[m]]
  BY <1>1, <1>3
<1> DEFINE G == {k \in Nat : \A n \in N : depth[n] < k => f[n] = R[n]}
<1>6. 0 \in G
  BY <1>1
<1>7. ASSUME NEW k \in Nat, k \in G PROVE k + 1 \in G
  <2> SUFFICES ASSUME NEW n \in N, depth[n] < k + 1 PROVE f[n] = R[n]
    OBVIOUS
  <2>1. CASE d.parent[n] = n
    BY <1>1, <1>5, <2>1
  <2>2. CASE d.parent[n] # n
    <3>1. d.parent[n] \in N /\ depth[n] \in Nat /\ depth[d.parent[n]] \in Nat
      BY <1>1
    <3>2. R[n] = R[d.parent[n]] /\ depth[d.parent[n]] < k
      BY <1>1, <2>2, <3>1
    <3>3. f[n] = f[d.parent[n]]
      BY <1>5, <2>2
    <3> QED  BY <1>7, <3>1, <3>2, <3>3
  <2> QED  BY <2>1, <2>2
<1> HIDE DEF G
<1>8. Nat \subseteq G
  BY <1>6, <1>7, UpwardInduction
<1>9. \A n \in N : f[n] = R[n]
  <2> TAKE n \in N
  <2>1. depth[n] + 1 \in Nat /\ depth[n] < depth[n] + 1
    BY <1>1
  <2> QED  BY <1>8, <2>1 DEF G
<1> QED  BY <1>4, <1>9

LEMMA NodesAre ==
    ASSUME NEW rows, Known(rows)
    PROVE  /\ IsFiniteSet(Nodes(rows)) /\ Nodes(rows) \subseteq Nat
           /\ \A r \in rows : r.actor \in Nodes(rows) /\ r.counterparty \in Nodes(rows)
           /\ \A p \in DOMAIN Decisions(rows) : Decisions(rows)[p] \in rows
<1> DEFINE f == [r \in rows |-> r.actor]
           g == [r \in rows |-> r.counterparty]
<1>1. Nodes(rows) = {f[r] : r \in rows} \cup {g[r] : r \in rows}
  <2>1. \A r \in rows : f[r] = r.actor /\ g[r] = r.counterparty
    OBVIOUS
  <2> HIDE DEF f, g
  <2> QED  BY <2>1 DEF Nodes
<1>2. IsFiniteSet({f[r] : r \in rows}) /\ IsFiniteSet({g[r] : r \in rows})
  <2> HIDE DEF f, g
  <2> QED  BY ImageFinite DEF Known
<1>3. IsFiniteSet(Nodes(rows))
  <2> HIDE DEF f, g
  <2> QED  BY <1>1, <1>2, FS_Union
<1>4. Nodes(rows) \subseteq Nat
  BY RowsTyped DEF Nodes, Known
<1>5. \A r \in rows : r.actor \in Nodes(rows) /\ r.counterparty \in Nodes(rows)
  BY DEF Nodes
<1>6. \A p \in DOMAIN Decisions(rows) : Decisions(rows)[p] \in rows
  BY DecisionsListed DEF Decided
<1> QED  BY <1>3, <1>4, <1>5, <1>6

(* What AddEdge does to the two roots. *)
BothParts(a, b, row, same) ==
    [size     |-> IF same THEN a.size ELSE a.size + b.size,
     minimum  |-> IF a.minimum < b.minimum THEN a.minimum ELSE b.minimum,
     evidence |-> a.evidence \cup b.evidence \cup {row},
     members  |-> a.members \cup b.members]

Added(d, row, root, gone) ==
    [parent  |-> [d.parent EXCEPT ![gone] = root],
     part    |-> [d.part EXCEPT ![root] = BothParts(d.part[root], d.part[gone], row, root = gone)],
     history |-> Append(d.history, [root |-> root, gone |-> gone, was |-> d.part[root]])]

LEMMA AddEdgeIs ==
    ASSUME NEW rows, Known(rows), NEW d, NEW R, NEW depth, Rooted(d, Nodes(rows), R, depth),
           NEW row \in rows
    PROVE  \E root, gone : /\ {root, gone} = {R[row.actor], R[row.counterparty]}
                           /\ AddEdge(d, row) = Added(d, row, root, gone)
<1>1. row.actor \in Nodes(rows) /\ row.counterparty \in Nodes(rows)
  BY NodesAre
<1>2. Find(d, row.actor) = R[row.actor] /\ Find(d, row.counterparty) = R[row.counterparty]
  BY <1>1, FindIs
<1> DEFINE left == Find(d, row.actor)
           right == Find(d, row.counterparty)
           root == IF Lighter(d.part[left], d.part[right]) THEN right ELSE left
           gone == IF root = left THEN right ELSE left
<1>3. AddEdge(d, row) = Added(d, row, root, gone)
  BY DEF AddEdge, Added, BothParts
<1>4. {root, gone} = {left, right}
  OBVIOUS
<1> HIDE DEF left, right, root, gone
<1> QED  BY <1>2, <1>3, <1>4 DEF left, right

(* undo() gives back exactly what was there. *)
LEMMA UndoAdded ==
    ASSUME NEW d, NEW N, NEW R, NEW depth, Rooted(d, N, R, depth), NEW row,
           NEW root \in N, NEW gone \in N, d.parent[gone] = gone
    PROVE  LET e == Added(d, row, root, gone)
           IN  /\ IsSequence(e.history) /\ Len(e.history) = Len(d.history) + 1
               /\ Undo(e, Last(e.history)) = d
<1> DEFINE h == Append(d.history, [root |-> root, gone |-> gone, was |-> d.part[root]])
           e == Added(d, row, root, gone)
           entry == [root |-> root, gone |-> gone, was |-> d.part[root]]
           P == [d.parent EXCEPT ![gone] = root]
           Q == [d.part EXCEPT ![root] = BothParts(d.part[root], d.part[gone], row, root = gone)]
<1>1. /\ d = [parent |-> d.parent, part |-> d.part, history |-> d.history]
      /\ d.parent \in [N -> N] /\ d.part = [n \in N |-> d.part[n]] /\ IsSequence(d.history)
  BY DEF Rooted
<1>2. IsSequence(h) /\ Len(h) = Len(d.history) + 1
  <2> HIDE DEF e
  <2> QED  BY <1>1, Extended
<1>3. Front(h) = d.history /\ Last(h) = entry
  BY <1>1, AppendedOff
<1>4. e = [parent |-> P, part |-> Q, history |-> h]
  BY DEF Added
<1> HIDE DEF h, e
<1>5. Undo(e, entry) = [parent |-> [P EXCEPT ![gone] = gone],
                        part |-> [Q EXCEPT ![root] = d.part[root]],
                        history |-> Front(h)]
  <2> HIDE DEF P, Q
  <2>1. entry.root = root /\ entry.gone = gone /\ entry.was = d.part[root]
    OBVIOUS
  <2> HIDE DEF entry
  <2>2. Undo(e, entry) = [e EXCEPT !.parent = [@ EXCEPT ![gone] = gone],
                                   !.part = [@ EXCEPT ![root] = d.part[root]],
                                   !.history = Front(@)]
    BY <2>1 DEF Undo
  <2>3. e.parent = P /\ e.part = Q /\ e.history = h
    BY <1>4
  <2> QED  BY <1>4, <2>2, <2>3
<1>6. [P EXCEPT ![gone] = gone] = d.parent
  BY <1>1
<1>7. [Q EXCEPT ![root] = d.part[root]] = d.part
  <2> DEFINE w == BothParts(d.part[root], d.part[gone], row, root = gone)
  <2> HIDE DEF w
  <2> QED  BY <1>1
<1> HIDE DEF P, Q, entry
<1>8. e.history = h
  BY <1>4
<1>9. Undo(e, Last(e.history)) = d
  BY <1>1, <1>3, <1>5, <1>6, <1>7, <1>8
<1> QED  BY <1>2, <1>8, <1>9 DEF e

NewRoots(N, R, root, gone) == [x \in N |-> IF R[x] = gone THEN root ELSE R[x]]

LEMMA AddedRooted ==
    ASSUME NEW d, NEW N, NEW R, NEW depth, Rooted(d, N, R, depth), NEW row,
           NEW root \in N, NEW gone \in N, d.parent[gone] = gone, d.parent[root] = root
    PROVE  \E deeper : Rooted(Added(d, row, root, gone), N, NewRoots(N, R, root, gone), deeper)
<1> DEFINE e == Added(d, row, root, gone)
           R2 == NewRoots(N, R, root, gone)
           D2 == [x \in N |-> IF R[x] = gone /\ gone # root THEN depth[x] + depth[root] + 1 ELSE depth[x]]
           w == BothParts(d.part[root], d.part[gone], row, root = gone)
<1>1. /\ d.parent \in [N -> N] /\ d.part = [n \in N |-> d.part[n]] /\ DOMAIN d.part = N
      /\ IsSequence(d.history)
      /\ R \in [N -> N] /\ depth \in [N -> Nat]
      /\ \A n \in N : d.parent[n] = n => R[n] = n
      /\ \A n \in N : d.parent[n] # n => R[n] = R[d.parent[n]] /\ depth[d.parent[n]] < depth[n]
  BY DEF Rooted
<1>2. /\ e.parent = [d.parent EXCEPT ![gone] = root]
      /\ e.part = [d.part EXCEPT ![root] = w]
      /\ e.history = Append(d.history, [root |-> root, gone |-> gone, was |-> d.part[root]])
      /\ e = [parent |-> e.parent, part |-> e.part, history |-> e.history]
  BY DEF Added
<1> HIDE DEF e, w
<1>3. IsSequence(e.history)
  BY <1>1, <1>2, Extended
<1>4. e.parent \in [N -> N] /\ e.part = [n \in N |-> e.part[n]] /\ DOMAIN e.part = N
  <2>1. e.parent \in [N -> N]
    BY <1>1, <1>2
  <2>2. e.part = [n \in N |-> IF n = root THEN w ELSE d.part[n]]
    BY <1>1, <1>2
  <2> QED  BY <2>1, <2>2
<1>5. R2 \in [N -> N] /\ D2 \in [N -> Nat]
  BY <1>1 DEF NewRoots
<1>6. \A n \in N : R2[n] = IF R[n] = gone THEN root ELSE R[n]
  BY DEF NewRoots
<1> HIDE DEF R2
<1>7. R[root] = root /\ R[gone] = gone
  BY <1>1
<1>8. ASSUME NEW n \in N, e.parent[n] = n PROVE R2[n] = n
  <2>1. CASE n = gone
    <3>1. root = gone
      BY <1>1, <1>2, <1>8, <2>1
    <3> QED  BY <1>6, <1>7, <2>1, <3>1
  <2>2. CASE n # gone
    <3>1. d.parent[n] = n
      BY <1>1, <1>2, <1>8, <2>2
    <3> QED  BY <1>1, <1>6, <2>2, <3>1
  <2> QED  BY <2>1, <2>2
<1>9. ASSUME NEW n \in N, e.parent[n] # n PROVE R2[n] = R2[e.parent[n]] /\ D2[e.parent[n]] < D2[n]
  <2>1. CASE n = gone
    <3>1. e.parent[n] = root /\ root # gone
      BY <1>1, <1>2, <1>9, <2>1
    <3>2. R2[n] = root /\ R2[root] = root
      BY <1>6, <1>7, <2>1, <3>1
    <3>3. D2[root] = depth[root] /\ D2[n] = depth[n] + depth[root] + 1
      BY <1>7, <2>1, <3>1
    <3> QED  BY <1>1, <3>1, <3>2, <3>3
  <2>2. CASE n # gone
    <3>1. e.parent[n] = d.parent[n] /\ d.parent[n] # n /\ d.parent[n] \in N
      BY <1>1, <1>2, <1>9, <2>2
    <3>2. R[n] = R[d.parent[n]] /\ depth[d.parent[n]] < depth[n]
      BY <1>1, <3>1
    <3>3. R2[n] = R2[d.parent[n]]
      BY <1>6, <3>1, <3>2
    <3>4. D2[d.parent[n]] < D2[n]
      BY <1>1, <3>1, <3>2
    <3> QED  BY <3>1, <3>3, <3>4
  <2> QED  BY <2>1, <2>2
<1> HIDE DEF D2
<1>10. Rooted(e, N, R2, D2)
  BY <1>2, <1>3, <1>4, <1>5, <1>8, <1>9 DEF Rooted
<1> QED  BY <1>10 DEF e, R2

LEMMA AddedJoins ==
    ASSUME NEW N, NEW E, NEW R, Joins(N, E, R), NEW row,
           row.actor \in N, row.counterparty \in N, \A r \in E : r.actor \in N /\ r.counterparty \in N,
           NEW root, NEW gone, {root, gone} = {R[row.actor], R[row.counterparty]}
    PROVE  Joins(N, E \cup {row}, NewRoots(N, R, root, gone))
<1> DEFINE R2 == NewRoots(N, R, root, gone)
<1>1. \A n \in N : R2[n] = IF R[n] = gone THEN root ELSE R[n]
  BY DEF NewRoots
<1> HIDE DEF R2
<1>2. \A r \in E : R[r.actor] = R[r.counterparty]
  BY DEF Joins
<1>3. \A r \in E \cup {row} : R2[r.actor] = R2[r.counterparty]
  <2>1. \A r \in E : R2[r.actor] = R2[r.counterparty]
    BY <1>1, <1>2
  <2>2. R2[row.actor] = root /\ R2[row.counterparty] = root
    BY <1>1
  <2> QED  BY <2>1, <2>2
<1>4. ASSUME NEW S \in SUBSET N,
             \A r \in E \cup {row} : r.actor \in S <=> r.counterparty \in S,
             NEW x \in N, NEW y \in N, R2[x] = R2[y]
      PROVE  x \in S <=> y \in S
  <2>1. \A u, v \in N : R[u] = R[v] => (u \in S <=> v \in S)
    BY <1>4 DEF Joins
  <2>2. row.actor \in S <=> row.counterparty \in S
    BY <1>4
  <2>3. R[x] = R[y] \/ {R[x], R[y]} = {R[row.actor], R[row.counterparty]}
    BY <1>1, <1>4
  <2> QED  BY <2>1, <2>2, <2>3
<1> QED  BY <1>3, <1>4 DEF Joins, R2

LEMMA SmallestIs ==
    ASSUME NEW S, S \subseteq Nat, S # {}
    PROVE  Smallest(S) \in S /\ \A k \in S : Smallest(S) <= k
<1>1. \E m \in S : \A k \in S : m <= k
  BY LeastNat
<1> QED  BY <1>1, Zenon DEF Smallest

LEMMA SmallestOf ==
    ASSUME NEW S, S \subseteq Nat, NEW m \in S, \A k \in S : m <= k
    PROVE  Smallest(S) = m
<1>1. Smallest(S) \in S /\ \A k \in S : Smallest(S) <= k
  BY SmallestIs
<1>2. Smallest(S) \in Nat /\ m \in Nat /\ Smallest(S) <= m /\ m <= Smallest(S)
  BY <1>1
<1> QED  BY <1>2

RootsOf(R, row, root, gone) == {root, gone} = {R[row.actor], R[row.counterparty]}

LEMMA AddedParts ==
    ASSUME NEW rows, Known(rows), NEW d, NEW E, NEW R, NEW depth, Holds(d, rows, E, R, depth),
           NEW row \in rows, NEW root, NEW gone, RootsOf(R, row, root, gone),
           NEW x \in Nodes(rows), Added(d, row, root, gone).parent[x] = x
    PROVE  Added(d, row, root, gone).part[x] =
              PartOf(rows, E \cup {row}, NewRoots(Nodes(rows), R, root, gone), x)
<1> DEFINE N == Nodes(rows)
           e == Added(d, row, root, gone)
           R2 == NewRoots(N, R, root, gone)
           a == d.part[root]
           b == d.part[gone]
           C(y) == {n \in N : R[n] = y}
           C2(y) == {n \in N : R2[n] = y}
           Met(y) == {p \in DOMAIN Decisions(rows) :
                        y \in {R[Decisions(rows)[p].actor], R[Decisions(rows)[p].counterparty]}}
           Met2(y) == {p \in DOMAIN Decisions(rows) :
                        y \in {R2[Decisions(rows)[p].actor], R2[Decisions(rows)[p].counterparty]}}
<1>1. /\ Rooted(d, N, R, depth) /\ E \subseteq rows
      /\ d.parent \in [N -> N] /\ DOMAIN d.part = N /\ R \in [N -> N]
      /\ \A y \in N : d.parent[y] = y => d.part[y] = PartOf(rows, E, R, y)
  BY DEF Holds, Rooted
<1>2. /\ IsFiniteSet(N) /\ N \subseteq Nat
      /\ \A r \in rows : r.actor \in N /\ r.counterparty \in N
      /\ \A p \in DOMAIN Decisions(rows) : Decisions(rows)[p] \in rows
  BY NodesAre
<1>3. \A n \in N : R[n] \in N /\ d.parent[R[n]] = R[n] /\ R[R[n]] = R[n]
  <2> HIDE DEF N
  <2> QED  BY <1>1, RootsAre
<1>4. \A n \in N : R2[n] = IF R[n] = gone THEN root ELSE R[n]
  BY DEF NewRoots
<1>0. x \in N /\ e.parent[x] = x /\ row.actor \in N /\ row.counterparty \in N
  BY <1>2
<1> HIDE DEF N, R2
<1>5. /\ root \in N /\ gone \in N /\ d.parent[root] = root /\ d.parent[gone] = gone
      /\ R[root] = root /\ R[gone] = gone
  <2>1. \A y \in {R[row.actor], R[row.counterparty]} : y \in N /\ d.parent[y] = y /\ R[y] = y
    BY <1>0, <1>3
  <2>2. root \in {R[row.actor], R[row.counterparty]} /\ gone \in {R[row.actor], R[row.counterparty]}
    BY DEF RootsOf
  <2> QED  BY <2>1, <2>2
<1>6. /\ e.parent = [d.parent EXCEPT ![gone] = root]
      /\ e.part = [d.part EXCEPT ![root] = BothParts(a, b, row, root = gone)]
  BY DEF Added
<1>7. a = PartOf(rows, E, R, root) /\ b = PartOf(rows, E, R, gone)
  BY <1>1, <1>5
<1> HIDE DEF e, a, b
<1>8. PartOf(rows, E \cup {row}, R2, x) =
         [size |-> Cardinality(C2(x)), minimum |-> Smallest(C2(x)),
          evidence |-> {r \in E \cup {row} : R2[r.actor] = x}, members |-> Met2(x)]
  BY DEF PartOf, N
<1>9. \A y : PartOf(rows, E, R, y) =
         [size |-> Cardinality(C(y)), minimum |-> Smallest(C(y)),
          evidence |-> {r \in E : R[r.actor] = y}, members |-> Met(y)]
  BY DEF PartOf, N
<1>10. x = root \/ (x # root /\ x # gone)
  BY <1>0, <1>1, <1>5, <1>6
<1>11. CASE x # root /\ x # gone
  <2>1. \A n \in N : R2[n] = x <=> R[n] = x
    BY <1>4, <1>11
  <2>2. C2(x) = C(x)
    BY <2>1
  <2>3. Met2(x) = Met(x)
    BY <1>2, <2>1
  <2>4. {r \in E \cup {row} : R2[r.actor] = x} = {r \in E : R[r.actor] = x}
    <3>1. R2[row.actor] = root
      BY <1>0, <1>4 DEF RootsOf
    <3>2. \A r \in E : R2[r.actor] = x <=> R[r.actor] = x
      BY <1>1, <1>2, <2>1
    <3> QED  BY <1>11, <3>1, <3>2
  <2>5. e.part[x] = d.part[x] /\ d.parent[x] = x
    BY <1>0, <1>1, <1>6, <1>11
  <2>6. d.part[x] = PartOf(rows, E, R, x)
    BY <1>0, <1>1, <2>5
  <2> HIDE DEF C, C2, Met, Met2
  <2>7. e.part[x] = PartOf(rows, E \cup {row}, R2, x)
    BY <1>8, <1>9, <2>2, <2>3, <2>4, <2>5, <2>6
  <2> QED  BY <2>7 DEF e, R2, N
<1>12. CASE x = root
  <2>1. \A n \in N : R2[n] = root <=> R[n] = root \/ R[n] = gone
    BY <1>4
  <2>2. C2(root) = C(root) \cup C(gone)
    BY <2>1
  <2>3. Met2(root) = Met(root) \cup Met(gone)
    BY <1>2, <2>1
  <2>4. {r \in E \cup {row} : R2[r.actor] = root} =
           {r \in E : R[r.actor] = root} \cup {r \in E : R[r.actor] = gone} \cup {row}
    <3>1. R2[row.actor] = root
      BY <1>0, <1>4 DEF RootsOf
    <3>2. \A r \in E : R2[r.actor] = root <=> R[r.actor] = root \/ R[r.actor] = gone
      BY <1>1, <1>2, <2>1
    <3> QED  BY <3>1, <3>2
  <2>5. /\ C(root) \subseteq N /\ C(gone) \subseteq N /\ root \in C(root) /\ gone \in C(gone)
        /\ root # gone => C(root) \cap C(gone) = {}
    BY <1>5
  <2> HIDE DEF C, C2, Met, Met2
  <2>6. IsFiniteSet(C(root)) /\ IsFiniteSet(C(gone))
    BY <1>2, <2>5, FS_Subset
  <2>7. Cardinality(C2(root)) = IF root = gone THEN Cardinality(C(root))
                                ELSE Cardinality(C(root)) + Cardinality(C(gone))
    <3>1. CASE root = gone
      <4>1. C2(root) = C(root)
        BY <2>2, <3>1
      <4> QED  BY <3>1, <4>1
    <3>2. CASE root # gone
      <4>1. Cardinality(C(root) \cup C(gone)) =
               Cardinality(C(root)) + Cardinality(C(gone)) - Cardinality(C(root) \cap C(gone))
        BY <2>6, FS_Union
      <4>2. Cardinality(C(root) \cap C(gone)) = 0
        BY <2>5, <3>2, FS_EmptySet
      <4>3. Cardinality(C(root)) \in Nat /\ Cardinality(C(gone)) \in Nat
        BY <2>6, FS_CardinalityType
      <4> QED  BY <2>2, <3>2, <4>1, <4>2, <4>3
    <3> QED  BY <3>1, <3>2
  <2> DEFINE k == Smallest(C(root))
             g == Smallest(C(gone))
             z == IF k < g THEN k ELSE g
  <2>8. Smallest(C2(root)) = z
    <3>1. k \in C(root) /\ (\A l \in C(root) : k <= l) /\ g \in C(gone) /\ \A l \in C(gone) : g <= l
      <4>1. C(root) \subseteq Nat /\ C(root) # {} /\ C(gone) \subseteq Nat /\ C(gone) # {}
        BY <1>2, <2>5
      <4> QED  BY <4>1, SmallestIs
    <3> HIDE DEF k, g
    <3>2. C2(root) \subseteq Nat
      BY <1>2, <2>2, <2>5
    <3>3. k \in Nat /\ g \in Nat
      BY <1>2, <2>5, <3>1
    <3>4. z \in C2(root)
      BY <2>2, <3>1
    <3>5. z \in Nat /\ z <= k /\ z <= g
      BY <3>3
    <3>6. \A l \in C2(root) : z <= l
      <4> SUFFICES ASSUME NEW l \in C2(root) PROVE z <= l
        OBVIOUS
      <4>1. l \in Nat
        BY <3>2
      <4>2. k <= l \/ g <= l
        BY <2>2, <3>1
      <4> QED  BY <3>3, <3>5, <4>1, <4>2
    <3> HIDE DEF z
    <3> QED  BY <3>2, <3>4, <3>6, SmallestOf
  <2>9. a.minimum = k /\ b.minimum = g
    BY <1>7, <1>9
  <2> HIDE DEF k, g
  <2>10. /\ a.size = Cardinality(C(root)) /\ b.size = Cardinality(C(gone))
         /\ a.evidence = {r \in E : R[r.actor] = root} /\ b.evidence = {r \in E : R[r.actor] = gone}
         /\ a.members = Met(root) /\ b.members = Met(gone)
    BY <1>7, <1>9
  <2>11. e.part[x] = BothParts(a, b, row, root = gone)
    BY <1>1, <1>5, <1>6, <1>12
  <2>12. e.part[x] = PartOf(rows, E \cup {row}, R2, x)
    BY <1>8, <1>12, <2>3, <2>4, <2>7, <2>8, <2>9, <2>10, <2>11, ZenonT(60) DEF BothParts
  <2> QED  BY <2>12 DEF e, R2, N
<1> QED  BY <1>10, <1>11, <1>12

LEMMA AddEdgeHolds ==
    ASSUME NEW rows, Known(rows), NEW d, NEW E, Represents(d, rows, E), NEW row \in rows
    PROVE  /\ Represents(AddEdge(d, row), rows, E \cup {row})
           /\ IsSequence(d.history) /\ IsSequence(AddEdge(d, row).history)
           /\ Len(AddEdge(d, row).history) = Len(d.history) + 1
           /\ Undo(AddEdge(d, row), Last(AddEdge(d, row).history)) = d
<1> DEFINE N == Nodes(rows)
<1>1. PICK R, depth : Holds(d, rows, E, R, depth)
  BY DEF Represents
<1>2. Rooted(d, N, R, depth) /\ E \subseteq rows /\ Joins(N, E, R) /\ IsSequence(d.history)
  BY <1>1 DEF Holds, Rooted
<1>3. PICK root, gone : /\ {root, gone} = {R[row.actor], R[row.counterparty]}
                        /\ AddEdge(d, row) = Added(d, row, root, gone)
  BY <1>2, AddEdgeIs
<1>4. \A r \in rows : r.actor \in N /\ r.counterparty \in N
  BY NodesAre
<1>5. root \in N /\ gone \in N /\ d.parent[root] = root /\ d.parent[gone] = gone
  BY <1>2, <1>3, <1>4, RootsAre
<1> DEFINE e == Added(d, row, root, gone)
           R2 == NewRoots(N, R, root, gone)
<1>6. PICK deeper : Rooted(e, N, R2, deeper)
  BY <1>2, <1>5, AddedRooted
<1>7. Joins(N, E \cup {row}, R2)
  BY <1>2, <1>3, <1>4, AddedJoins
<1>8. \A x \in N : e.parent[x] = x => e.part[x] = PartOf(rows, E \cup {row}, R2, x)
  <2> SUFFICES ASSUME NEW x \in Nodes(rows), e.parent[x] = x
               PROVE  e.part[x] = PartOf(rows, E \cup {row}, R2, x)
    OBVIOUS
  <2>1. Added(d, row, root, gone).parent[x] = x
    OBVIOUS
  <2>0. RootsOf(R, row, root, gone)
    BY <1>3 DEF RootsOf
  <2> HIDE DEF e, R2, N
  <2>2. Added(d, row, root, gone).part[x] =
           PartOf(rows, E \cup {row}, NewRoots(Nodes(rows), R, root, gone), x)
    BY <1>1, <2>0, <2>1, AddedParts
  <2> QED  BY <2>2 DEF e, R2, N
<1>9. /\ IsSequence(e.history) /\ Len(e.history) = Len(d.history) + 1
      /\ Undo(e, Last(e.history)) = d
  BY <1>2, <1>5, UndoAdded
<1> HIDE DEF e, R2
<1>10. Holds(e, rows, E \cup {row}, R2, deeper)
  BY <1>2, <1>6, <1>7, <1>8 DEF Holds
<1>11. AddEdge(d, row) = e
  BY <1>3 DEF e
<1> QED  BY <1>2, <1>9, <1>10, <1>11 DEF Represents

(* Edges added one after the other. *)
Adding(dsu, list, n, after) ==
    after = [i \in 0..n |-> IF i = 0 THEN dsu ELSE AddEdge(after[i - 1], list[i])]

LEMMA AddingExists ==
    ASSUME NEW dsu, NEW list
    PROVE  \A n \in Nat : \E after : Adding(dsu, list, n, after)
<1> DEFINE G == {n \in Nat : \E after : Adding(dsu, list, n, after)}
<1>1. 0 \in G
  <2> DEFINE h == [i \in 0..0 |-> dsu]
  <2>1. Adding(dsu, list, 0, h)
    BY DEF Adding
  <2> QED  BY <2>1
<1>2. ASSUME NEW n \in Nat, n \in G
      PROVE  n + 1 \in G
  <2>1. PICK h : Adding(dsu, list, n, h)
    BY <1>2
  <2> DEFINE next == AddEdge(h[n], list[(n + 1)])
             g == [i \in 0..(n + 1) |-> IF i = n + 1 THEN next ELSE h[i]]
  <2>2. \A i \in 0..n : h[i] = IF i = 0 THEN dsu ELSE AddEdge(h[i - 1], list[i])
    BY <2>1 DEF Adding
  <2>3. \A i \in 0..n : g[i] = h[i]
    OBVIOUS
  <2>4. g[n + 1] = next
    OBVIOUS
  <2>5. g = [i \in 0..(n + 1) |-> g[i]]
    OBVIOUS
  <2> HIDE DEF g
  <2>6. \A i \in 0..(n + 1) : g[i] = IF i = 0 THEN dsu ELSE AddEdge(g[i - 1], list[i])
    <3> SUFFICES ASSUME NEW i \in 0..(n + 1)
                 PROVE  g[i] = IF i = 0 THEN dsu ELSE AddEdge(g[i - 1], list[i])
      OBVIOUS
    <3>1. CASE i = n + 1
      <4>1. i # 0 /\ i - 1 = n /\ n \in 0..n
        BY <3>1
      <4> QED  BY <2>3, <2>4, <3>1, <4>1
    <3>2. CASE i # n + 1
      <4>1. i \in 0..n /\ (i # 0 => i - 1 \in 0..n)
        BY <3>2
      <4> QED  BY <2>2, <2>3, <4>1
    <3> QED  BY <3>1, <3>2
  <2>7. Adding(dsu, list, n + 1, g)
    BY <2>5, <2>6 DEF Adding
  <2> QED  BY <2>7
<1> HIDE DEF G
<1>3. Nat \subseteq G
  BY <1>1, <1>2, UpwardInduction
<1> QED  BY <1>3 DEF G

(* And taken back. *)
Undoing(dsu, n, after) ==
    after = [i \in 0..n |-> IF i = 0 THEN dsu ELSE Undo(after[i - 1], Last(after[i - 1].history))]

LEMMA UndoingExists ==
    ASSUME NEW dsu
    PROVE  \A n \in Nat : \E after : Undoing(dsu, n, after)
<1> DEFINE G == {n \in Nat : \E after : Undoing(dsu, n, after)}
<1>1. 0 \in G
  <2> DEFINE h == [i \in 0..0 |-> dsu]
  <2>1. Undoing(dsu, 0, h)
    BY DEF Undoing
  <2> QED  BY <2>1
<1>2. ASSUME NEW n \in Nat, n \in G
      PROVE  n + 1 \in G
  <2>1. PICK h : Undoing(dsu, n, h)
    BY <1>2
  <2> DEFINE next == Undo(h[n], Last(h[n].history))
             g == [i \in 0..(n + 1) |-> IF i = n + 1 THEN next ELSE h[i]]
  <2>2. \A i \in 0..n : h[i] = IF i = 0 THEN dsu ELSE Undo(h[i - 1], Last(h[i - 1].history))
    BY <2>1 DEF Undoing
  <2>3. \A i \in 0..n : g[i] = h[i]
    OBVIOUS
  <2>4. g[n + 1] = next
    OBVIOUS
  <2>5. g = [i \in 0..(n + 1) |-> g[i]]
    OBVIOUS
  <2> HIDE DEF g
  <2>6. \A i \in 0..(n + 1) : g[i] = IF i = 0 THEN dsu ELSE Undo(g[i - 1], Last(g[i - 1].history))
    <3> SUFFICES ASSUME NEW i \in 0..(n + 1)
                 PROVE  g[i] = IF i = 0 THEN dsu ELSE Undo(g[i - 1], Last(g[i - 1].history))
      OBVIOUS
    <3>1. CASE i = n + 1
      <4>1. i # 0 /\ i - 1 = n /\ n \in 0..n
        BY <3>1
      <4> QED  BY <2>3, <2>4, <3>1, <4>1
    <3>2. CASE i # n + 1
      <4>1. i \in 0..n /\ (i # 0 => i - 1 \in 0..n)
        BY <3>2
      <4> QED  BY <2>2, <2>3, <4>1
    <3> QED  BY <3>1, <3>2
  <2>7. Undoing(dsu, n + 1, g)
    BY <2>5, <2>6 DEF Undoing
  <2> QED  BY <2>7
<1> HIDE DEF G
<1>3. Nat \subseteq G
  BY <1>1, <1>2, UpwardInduction
<1> QED  BY <1>3 DEF G

(* A union-find without edges. *)
LEMMA NewDsuHolds ==
    ASSUME NEW rows, Known(rows)
    PROVE  Represents(NewDsu(rows), rows, {}) /\ IsSequence(NewDsu(rows).history)
<1> DEFINE N == Nodes(rows)
           d == NewDsu(rows)
           R == [n \in N |-> n]
           depth == [n \in N |-> 0]
           Touches(n) == {p \in DOMAIN Decisions(rows) :
                            n \in {Decisions(rows)[p].actor, Decisions(rows)[p].counterparty}}
<1>1. /\ N \subseteq Nat
      /\ \A r \in rows : r.actor \in N /\ r.counterparty \in N
      /\ \A p \in DOMAIN Decisions(rows) : Decisions(rows)[p] \in rows
  BY NodesAre
<1>2. d = [parent |-> [n \in N |-> n],
           part |-> [n \in N |-> [size |-> 1, minimum |-> n, evidence |-> {}, members |-> Touches(n)]],
           history |-> <<>>]
  BY DEF NewDsu
<1> HIDE DEF N, d
<1>3. Rooted(d, N, R, depth)
  <2>1. IsSequence(d.history)
    BY <1>2, EmptyIsSequence
  <2>2. /\ d = [parent |-> d.parent, part |-> d.part, history |-> d.history]
        /\ d.parent \in [N -> N] /\ DOMAIN d.part = N /\ d.part = [n \in N |-> d.part[n]]
        /\ \A n \in N : d.parent[n] = n
    <3> HIDE DEF Touches
    <3> QED  BY <1>2
  <2> QED  BY <2>1, <2>2 DEF Rooted
<1>4. Joins(N, {}, R)
  BY DEF Joins
<1>5. ASSUME NEW x \in N PROVE d.part[x] = PartOf(rows, {}, R, x)
  <2>1. d.part[x] = [size |-> 1, minimum |-> x, evidence |-> {}, members |-> Touches(x)]
    <3> HIDE DEF Touches
    <3> QED  BY <1>2
  <2>2. {n \in N : R[n] = x} = {x}
    OBVIOUS
  <2>3. Cardinality({x}) = 1
    BY FS_Singleton
  <2>4. Smallest({x}) = x
    <3>1. x \in {x} /\ {x} \subseteq Nat /\ \A k \in {x} : x <= k
      BY <1>1
    <3> QED  BY <3>1, SmallestOf
  <2>5. {p \in DOMAIN Decisions(rows) :
            x \in {R[Decisions(rows)[p].actor], R[Decisions(rows)[p].counterparty]}} = Touches(x)
    BY <1>1
  <2>6. {r \in {} : R[r.actor] = x} = {}
    OBVIOUS
  <2>7. PartOf(rows, {}, R, x) =
           [size |-> Cardinality({x}), minimum |-> Smallest({x}), evidence |-> {},
            members |-> Touches(x)]
    BY <2>2, <2>5, <2>6 DEF PartOf, N
  <2> QED  BY <2>1, <2>3, <2>4, <2>7
<1>6. Holds(d, rows, {}, R, depth)
  BY <1>3, <1>4, <1>5 DEF Holds, N
<1>7. IsSequence(d.history)
  BY <1>3 DEF Rooted
<1> HIDE DEF R, depth
<1> QED  BY <1>6, <1>7 DEF Represents, d

(* Rows are added to the edges, and rolling back to where they were takes them
   away again. *)
LEMMA AddEdgesHolds ==
    ASSUME NEW rows, Known(rows), NEW d, NEW E, Represents(d, rows, E), IsSequence(d.history),
           NEW list, Len(list) \in Nat, \A i \in 1..Len(list) : list[i] \in rows
    PROVE  /\ Represents(AddEdges(d, list), rows, E \cup {list[i] : i \in 1..Len(list)})
           /\ IsSequence(AddEdges(d, list).history)
           /\ Rollback(AddEdges(d, list), Len(d.history)) = d
<1> DEFINE n == Len(list)
           a == CHOOSE after : Adding(d, list, n, after)
<1>1. Adding(d, list, n, a)
  BY AddingExists
<1>2. AddEdges(d, list) = a[n]
  BY DEF AddEdges, Adding
<1> HIDE DEF a
<1>3. \A i \in 0..n : a[i] = IF i = 0 THEN d ELSE AddEdge(a[i - 1], list[i])
  BY <1>1 DEF Adding
<1>4. a[0] = d /\ \A i \in 0..(n - 1) : a[i + 1] = AddEdge(a[i], list[i + 1])
  <2>1. a[0] = d
    BY <1>3
  <2>2. ASSUME NEW i \in 0..(n - 1) PROVE a[i + 1] = AddEdge(a[i], list[i + 1])
    <3>1. i + 1 \in 0..n /\ i + 1 # 0 /\ (i + 1) - 1 = i
      OBVIOUS
    <3> QED  BY <1>3, <3>1
  <2> QED  BY <2>1, <2>2
<1>5. Len(d.history) \in Nat
  BY Extended
<1> DEFINE F(i) == E \cup {list[j] : j \in 1..i}
           G == {i \in Nat : i <= n => /\ Represents(a[i], rows, F(i))
                                       /\ IsSequence(a[i].history)
                                       /\ Len(a[i].history) = Len(d.history) + i
                                       /\ i > 0 => Undo(a[i], Last(a[i].history)) = a[i - 1]}
<1>6. 0 \in G
  <2>1. F(0) = E
    OBVIOUS
  <2> HIDE DEF F
  <2> QED  BY <1>4, <1>5, <2>1
<1>7. ASSUME NEW i \in Nat, i \in G PROVE i + 1 \in G
  <2> SUFFICES ASSUME i + 1 <= n
               PROVE  /\ Represents(a[i + 1], rows, F(i + 1))
                      /\ IsSequence(a[i + 1].history)
                      /\ Len(a[i + 1].history) = Len(d.history) + (i + 1)
                      /\ Undo(a[i + 1], Last(a[i + 1].history)) = a[(i + 1) - 1]
    <3>1. i + 1 \in Nat
      OBVIOUS
    <3> HIDE DEF F
    <3> QED  BY <3>1
  <2>1. i \in 0..(n - 1) /\ i + 1 \in 1..n /\ (i + 1) - 1 = i
    OBVIOUS
  <2>2. a[i + 1] = AddEdge(a[i], list[i + 1]) /\ list[i + 1] \in rows
    BY <1>4, <2>1
  <2>3. F(i + 1) = F(i) \cup {list[i + 1]}
    <3>1. 1..(i + 1) = (1..i) \cup {i + 1}
      OBVIOUS
    <3> QED  BY <3>1
  <2> HIDE DEF F
  <2>4. Represents(a[i], rows, F(i)) /\ Len(a[i].history) = Len(d.history) + i
    BY <1>7, <2>1
  <2>5. /\ Represents(AddEdge(a[i], list[i + 1]), rows, F(i) \cup {list[i + 1]})
        /\ IsSequence(AddEdge(a[i], list[i + 1]).history)
        /\ Len(AddEdge(a[i], list[i + 1]).history) = Len(a[i].history) + 1
        /\ Undo(AddEdge(a[i], list[i + 1]), Last(AddEdge(a[i], list[i + 1]).history)) = a[i]
    BY <2>2, <2>4, AddEdgeHolds
  <2>6. Len(a[i + 1].history) = Len(d.history) + (i + 1)
    <3>1. Len(a[i + 1].history) = Len(a[i].history) + 1
      BY <2>2, <2>5
    <3>2. \A x \in Nat : (x + i) + 1 = x + (i + 1)
      OBVIOUS
    <3>3. (Len(d.history) + i) + 1 = Len(d.history) + (i + 1)
      BY <1>5, <3>2, Zenon
    <3> QED  BY <2>4, <3>1, <3>3, Zenon
  <2>7. Represents(a[i + 1], rows, F(i + 1)) /\ IsSequence(a[i + 1].history)
    BY <2>2, <2>3, <2>5, Zenon
  <2>8. Undo(a[i + 1], Last(a[i + 1].history)) = a[(i + 1) - 1]
    <3>1. Undo(a[i + 1], Last(a[i + 1].history)) = a[i]
      BY <2>2, <2>5, Zenon
    <3> QED  BY <2>1, <3>1, Zenon
  <2> HIDE DEF G
  <2> QED  BY <2>6, <2>7, <2>8
<1> HIDE DEF G
<1>8. Nat \subseteq G
  BY <1>6, <1>7, UpwardInduction
<1>9. Represents(a[n], rows, F(n)) /\ IsSequence(a[n].history) /\ Len(a[n].history) = Len(d.history) + n
  <2>1. n \in G /\ n <= n
    BY <1>8
  <2> HIDE DEF F
  <2> QED  BY <2>1 DEF G
<1> DEFINE u == CHOOSE after : Undoing(a[n], n, after)
<1>10. Undoing(a[n], n, u)
  BY UndoingExists
<1>11. Rollback(a[n], Len(d.history)) = u[n]
  <2>1. Len(a[n].history) - Len(d.history) = n
    BY <1>5, <1>9
  <2>2. Rollback(a[n], Len(d.history)) =
           (CHOOSE after : Undoing(a[n], Len(a[n].history) - Len(d.history), after))
              [Len(a[n].history) - Len(d.history)]
    BY DEF Rollback, Undoing
  <2> QED  BY <2>1, <2>2
<1> HIDE DEF u
<1>12. \A k \in 0..n : u[k] = IF k = 0 THEN a[n] ELSE Undo(u[k - 1], Last(u[k - 1].history))
  BY <1>10 DEF Undoing
<1> DEFINE B == {k \in Nat : k <= n => u[k] = a[n - k]}
<1>13. 0 \in B
  BY <1>12
<1>14. ASSUME NEW k \in Nat, k \in B PROVE k + 1 \in B
  <2> SUFFICES ASSUME k + 1 <= n PROVE u[k + 1] = a[n - (k + 1)]
    OBVIOUS
  <2>1. k + 1 \in 0..n /\ k + 1 # 0 /\ (k + 1) - 1 = k /\ (n - k) - 1 = n - (k + 1)
        /\ n - k \in Nat /\ n - k <= n /\ n - k > 0
    OBVIOUS
  <2>2. u[k] = a[n - k]
    BY <1>14, <2>1
  <2>3. u[k + 1] = Undo(u[k], Last(u[k].history))
    BY <1>12, <2>1
  <2>4. Undo(a[n - k], Last(a[n - k].history)) = a[(n - k) - 1]
    <3>1. n - k \in G
      BY <1>8, <2>1
    <3> QED  BY <2>1, <3>1 DEF G
  <2> QED  BY <2>1, <2>2, <2>3, <2>4
<1> HIDE DEF B
<1>15. Nat \subseteq B
  BY <1>13, <1>14, UpwardInduction
<1>16. u[n] = a[0]
  <2>1. n \in B /\ n - n = 0
    BY <1>15
  <2> QED  BY <2>1 DEF B
<1> QED  BY <1>2, <1>4, <1>9, <1>11, <1>16
-----------------------------------------------------------------------------
(***************************************************************************)
(* THE WALK.  Ready says how the union-find stands when a position is       *)
(* entered, and that the walk has the batches of the leaves before it.      *)
(***************************************************************************)
(* A batch as it is when the union-find holds what its alerts can see. *)
GoodBatch(rows, b, batch) ==
    \E d : /\ Represents(d, rows, Visible(rows, BatchTimes(rows)[b]))
           /\ batch = Batch(d, rows, BatchTimes(rows)[b])

(* The walk with the batches of the first k leaves behind it. *)
Ready(w, rows, k, d, m) ==
    /\ w = [dsu |-> d, marks |-> m, batches |-> w.batches]
    /\ IsSequence(w.batches)
    /\ Len(w.batches) = IF k <= Len(BatchTimes(rows)) THEN k ELSE Len(BatchTimes(rows))
    /\ \A b \in 1..Len(w.batches) : GoodBatch(rows, b, w.batches[b])

(* A part of a walk, from its state after o visits. *)
Steps(after, o, V, rows) ==
    \A i \in 1..Len(V) :
       after[o + i] = IF V[i] = 0 THEN Leave(after[o + i - 1]) ELSE Enter(after[o + i - 1], rows, V[i])

Tops(rows) == PowerOfTwo[Height(Len(BatchTimes(rows)))]

(* What visit() makes of the walk on its way down. *)
Entered(w, rows, p, down, m, x) ==
    [dsu |-> down, marks |-> Append(m, x),
     batches |-> IF p - Tops(rows) + 1 \in DOMAIN BatchTimes(rows)
                 THEN Append(w.batches, Batch(down, rows, BatchTimes(rows)[p - Tops(rows) + 1]))
                 ELSE w.batches]

LEMMA EnterHolds ==
    ASSUME NEW rows, Known(rows), NEW w, NEW k, NEW d, NEW m, Ready(w, rows, k, d, m),
           NEW E, Represents(d, rows, E), IsSequence(d.history), NEW p \in Nat,
           NEW down, down = AddEdges(d, RowsAt(rows, BatchTimes(rows), p))
    PROVE  /\ Represents(down, rows, E \cup CoveredAt(rows, p))
           /\ IsSequence(down.history)
           /\ Rollback(down, Len(d.history)) = d
           /\ Enter(w, rows, p) = Entered(w, rows, p, down, m, Len(d.history))
<1> DEFINE list == RowsAt(rows, BatchTimes(rows), p)
<1>1. Len(list) \in Nat /\ {list[i] : i \in 1..Len(list)} = CoveredAt(rows, p)
  BY RowsAtListed
<1>2. CoveredAt(rows, p) \subseteq rows
  BY DEF CoveredAt
<1>3. \A i \in 1..Len(list) : list[i] \in rows
  <2> HIDE DEF list
  <2>1. \A i \in 1..Len(list) : list[i] \in {list[j] : j \in 1..Len(list)}
    OBVIOUS
  <2> QED  BY <1>1, <1>2, <2>1
<1>4. w.dsu = d /\ w.marks = m
  BY DEF Ready
<1>5. Enter(w, rows, p) = Entered(w, rows, p, down, m, Len(d.history))
  BY <1>4 DEF Enter, Tops, Entered
<1> HIDE DEF list
<1>6. /\ Represents(AddEdges(d, list), rows, E \cup {list[i] : i \in 1..Len(list)})
      /\ IsSequence(AddEdges(d, list).history)
      /\ Rollback(AddEdges(d, list), Len(d.history)) = d
  BY <1>1, <1>3, AddEdgesHolds
<1> QED  BY <1>1, <1>5, <1>6 DEF list

LEMMA LeaveReady ==
    ASSUME NEW rows, NEW w, NEW k, NEW down, NEW m, IsSequence(m), NEW x,
           Ready(w, rows, k, down, Append(m, x)), NEW d, Rollback(down, x) = d
    PROVE  Ready(Leave(w), rows, k, d, m)
<1>1. w = [dsu |-> down, marks |-> Append(m, x), batches |-> w.batches]
  BY DEF Ready
<1>2. Front(Append(m, x)) = m /\ Last(Append(m, x)) = x
  BY AppendedOff
<1> DEFINE l == Leave(w)
<1>3. l = [dsu |-> d, marks |-> m, batches |-> w.batches]
  <2>1. w.dsu = down /\ w.marks = Append(m, x)
    BY <1>1
  <2>2. l = [w EXCEPT !.dsu = Rollback(w.dsu, Last(w.marks)), !.marks = Front(w.marks)]
    BY DEF Leave
  <2>3. l = [w EXCEPT !.dsu = d, !.marks = m]
    BY <1>2, <2>1, <2>2
  <2> HIDE DEF l
  <2> QED  BY <1>1, <2>3
<1>4. l.batches = w.batches
  <2> HIDE DEF l
  <2> QED  BY <1>3
<1>5. Ready(l, rows, k, d, m)
  <2> HIDE DEF l
  <2> QED  BY <1>3, <1>4 DEF Ready
<1> QED  BY <1>5

LEMMA VisitsOf ==
    /\ \A p \in Nat : Visits[0][p] = <<p, 0>>
    /\ \A h, p \in Nat : /\ Visits[h][p] \in Seq(Nat)
                         /\ Visits[h + 1][p] =
                               <<p>> \o Visits[h][2 * p] \o Visits[h][2 * p + 1] \o <<0>>
<1>1. \A h \in Nat : Visits[h] = IF h = 0 THEN OfLeaves ELSE OfHigher(Visits[h - 1])
  BY VisitsAre
<1>2. \A p \in Nat : Visits[0][p] = <<p, 0>>
  BY <1>1 DEF OfLeaves
<1>3. \A h, p \in Nat : Visits[h + 1][p] =
                           <<p>> \o Visits[h][2 * p] \o Visits[h][2 * p + 1] \o <<0>>
  <2> TAKE h, p \in Nat
  <2>1. h + 1 \in Nat /\ h + 1 # 0 /\ (h + 1) - 1 = h
    OBVIOUS
  <2>2. Visits[h + 1] = OfHigher(Visits[h])
    BY <1>1, <2>1
  <2> QED  BY <2>2 DEF OfHigher
<1> DEFINE G == {h \in Nat : \A p \in Nat : Visits[h][p] \in Seq(Nat)}
<1>4. 0 \in G
  <2>1. \A p \in Nat : <<p, 0>> \in Seq(Nat)
    OBVIOUS
  <2> QED  BY <1>2, <2>1
<1>5. ASSUME NEW h \in Nat, h \in G PROVE h + 1 \in G
  <2> SUFFICES ASSUME NEW p \in Nat PROVE Visits[h + 1][p] \in Seq(Nat)
    OBVIOUS
  <2>1. Visits[h][2 * p] \in Seq(Nat) /\ Visits[h][2 * p + 1] \in Seq(Nat)
    BY <1>5
  <2>2. <<p>> \in Seq(Nat) /\ <<0>> \in Seq(Nat)
    OBVIOUS
  <2>3. <<p>> \o Visits[h][2 * p] \o Visits[h][2 * p + 1] \o <<0>> \in Seq(Nat)
    BY <2>1, <2>2, ConcatProperties
  <2> QED  BY <1>3, <2>3
<1> HIDE DEF G
<1>6. Nat \subseteq G
  BY <1>4, <1>5, UpwardInduction
<1>7. \A h, p \in Nat : Visits[h][p] \in Seq(Nat)
  BY <1>6 DEF G
<1> QED  BY <1>2, <1>3, <1>7

LEMMA Concatenated ==
    ASSUME NEW S, NEW s \in Seq(S), NEW t \in Seq(S)
    PROVE  /\ s \o t \in Seq(S) /\ Len(s \o t) = Len(s) + Len(t)
           /\ Len(s) \in Nat /\ Len(t) \in Nat
           /\ \A i \in 1..Len(s) : (s \o t)[i] = s[i]
           /\ \A i \in 1..Len(t) : (s \o t)[Len(s) + i] = t[i]
<1> DEFINE m == Len(s)
           n == Len(t)
           u == s \o t
<1>1. m \in Nat /\ n \in Nat
  BY LenProperties
<1>2. /\ u \in Seq(S) /\ Len(u) = m + n
      /\ \A i \in 1..(m + n) : u[i] = IF i <= m THEN s[i] ELSE t[i - m]
  BY ConcatProperties
<1> HIDE DEF m, n, u
<1>3. \A i \in 1..m : i \in 1..(m + n) /\ i <= m
  BY <1>1
<1>4. \A i \in 1..n : m + i \in 1..(m + n) /\ ~(m + i <= m) /\ (m + i) - m = i
  BY <1>1
<1>5. /\ \A i \in 1..m : u[i] = s[i]
      /\ \A i \in 1..n : u[m + i] = t[i]
  BY <1>1, <1>2, <1>3, <1>4
<1> QED  BY <1>1, <1>2, <1>5 DEF m, n, u

(* A walk over a position, what is below it on either side, and out of it. *)
Around(p, A, B) == <<p>> \o A \o B \o <<0>>

Crossed(after, o, p, A, B, rows) ==
    /\ Len(A) \in Nat /\ Len(B) \in Nat /\ Len(Around(p, A, B)) = Len(A) + Len(B) + 2
    /\ after[o + 1] = Enter(after[o], rows, p)
    /\ Steps(after, o + 1, A, rows)
    /\ Steps(after, o + 1 + Len(A), B, rows)
    /\ after[o + Len(Around(p, A, B))] = Leave(after[o + 1 + Len(A) + Len(B)])

LEMMA StepsSplit ==
    ASSUME NEW A \in Seq(Nat), NEW B \in Seq(Nat), NEW p \in Nat \ {0}, NEW o \in Nat,
           NEW after, NEW rows, Steps(after, o, Around(p, A, B), rows)
    PROVE  Crossed(after, o, p, A, B, rows)
<1> DEFINE V == Around(p, A, B)
<1> DEFINE a == Len(A)
           b == Len(B)
           X == <<p>> \o A
           Y == X \o B
<1>1. a \in Nat /\ b \in Nat
  BY LenProperties
<1>2. <<p>> \in Seq(Nat) /\ <<0>> \in Seq(Nat) /\ Len(<<p>>) = 1 /\ Len(<<0>>) = 1
      /\ <<p>>[1] = p /\ <<0>>[1] = 0
  OBVIOUS
<1>3. X \in Seq(Nat) /\ Len(X) = 1 + a /\ X[1] = p /\ \A i \in 1..a : X[1 + i] = A[i]
  <2>1. /\ X \in Seq(Nat) /\ Len(X) = 1 + a
        /\ \A i \in 1..1 : X[i] = <<p>>[i]
        /\ \A i \in 1..a : X[1 + i] = A[i]
    <3>1. /\ <<p>> \o A \in Seq(Nat) /\ Len(<<p>> \o A) = Len(<<p>>) + Len(A)
          /\ \A i \in 1..Len(<<p>>) : (<<p>> \o A)[i] = <<p>>[i]
          /\ \A i \in 1..Len(A) : (<<p>> \o A)[Len(<<p>>) + i] = A[i]
      BY <1>2, Concatenated
    <3> QED  BY <1>2, <3>1
  <2> HIDE DEF X
  <2>2. 1 \in 1..1
    OBVIOUS
  <2> QED  BY <1>2, <2>1, <2>2
<1> HIDE DEF X
<1>4. /\ Y \in Seq(Nat) /\ Len(Y) = (1 + a) + b
      /\ \A i \in 1..(1 + a) : Y[i] = X[i]
      /\ \A i \in 1..b : Y[(1 + a) + i] = B[i]
  <2>1. /\ X \o B \in Seq(Nat) /\ Len(X \o B) = Len(X) + Len(B)
        /\ \A i \in 1..Len(X) : (X \o B)[i] = X[i]
        /\ \A i \in 1..Len(B) : (X \o B)[Len(X) + i] = B[i]
    <3>1. X \in Seq(Nat)
      BY <1>3
    <3> QED  BY <3>1, Concatenated
  <2> QED  BY <1>3, <2>1
<1>5. V = Y \o <<0>>
  BY DEF X, Around
<1> HIDE DEF Y, V
<1>6. /\ Len(V) = 2 + a + b
      /\ \A i \in 1..(1 + a + b) : V[i] = Y[i]
      /\ V[2 + a + b] = 0
  <2>1. /\ Len(V) = ((1 + a) + b) + 1
        /\ \A i \in 1..((1 + a) + b) : V[i] = Y[i]
        /\ \A i \in 1..1 : V[((1 + a) + b) + i] = <<0>>[i]
    <3>1. /\ Len(Y \o <<0>>) = Len(Y) + Len(<<0>>)
          /\ \A i \in 1..Len(Y) : (Y \o <<0>>)[i] = Y[i]
          /\ \A i \in 1..Len(<<0>>) : (Y \o <<0>>)[Len(Y) + i] = <<0>>[i]
      <4>1. Y \in Seq(Nat) /\ <<0>> \in Seq(Nat)
        BY <1>2, <1>4
      <4> QED  BY <4>1, Concatenated
    <3> HIDE DEF a, b
    <3> QED  BY <1>2, <1>4, <1>5, <3>1
  <2>2. ((1 + a) + b) + 1 = 2 + a + b /\ 1 \in 1..1
    BY <1>1
  <2> HIDE DEF a, b
  <2> QED  BY <1>2, <2>1, <2>2
<1>7. \A i \in 1..(2 + a + b) :
         after[o + i] = IF V[i] = 0 THEN Leave(after[o + i - 1]) ELSE Enter(after[o + i - 1], rows, V[i])
  BY <1>6 DEF Steps, V
<1> HIDE DEF a, b
<1>8. after[o + 1] = Enter(after[o], rows, p)
  <2>1. 1 \in 1..(2 + a + b) /\ 1 \in 1..(1 + a) /\ 1 \in 1..(1 + a + b) /\ o + 1 - 1 = o
    BY <1>1
  <2>2. V[1] = p /\ p # 0
    BY <1>3, <1>4, <1>6, <2>1
  <2> QED  BY <1>7, <2>1, <2>2
<1>9. Steps(after, o + 1, A, rows)
  <2> SUFFICES ASSUME NEW i \in 1..a
               PROVE  after[o + 1 + i] = IF A[i] = 0 THEN Leave(after[o + 1 + i - 1])
                                         ELSE Enter(after[o + 1 + i - 1], rows, A[i])
    BY DEF Steps, a
  <2>1. 1 + i \in 1..(2 + a + b) /\ 1 + i \in 1..(1 + a) /\ 1 + i \in 1..(1 + a + b)
        /\ o + (1 + i) = o + 1 + i /\ o + (1 + i) - 1 = o + 1 + i - 1
    BY <1>1
  <2>2. V[1 + i] = A[i]
    BY <1>3, <1>4, <1>6, <2>1
  <2> QED  BY <1>7, <2>1, <2>2
<1>10. Steps(after, o + 1 + a, B, rows)
  <2> SUFFICES ASSUME NEW i \in 1..b
               PROVE  after[o + 1 + a + i] = IF B[i] = 0 THEN Leave(after[o + 1 + a + i - 1])
                                             ELSE Enter(after[o + 1 + a + i - 1], rows, B[i])
    BY DEF Steps, b
  <2>1. 1 + a + i \in 1..(2 + a + b) /\ 1 + a + i \in 1..(1 + a + b)
        /\ o + (1 + a + i) = o + 1 + a + i /\ o + (1 + a + i) - 1 = o + 1 + a + i - 1
    BY <1>1
  <2>2. V[1 + a + i] = B[i]
    BY <1>4, <1>6, <2>1
  <2> QED  BY <1>7, <2>1, <2>2
<1>11. after[o + (2 + a + b)] = Leave(after[o + 1 + a + b])
  <2>1. 2 + a + b \in 1..(2 + a + b) /\ o + (2 + a + b) - 1 = o + 1 + a + b
    BY <1>1
  <2> QED  BY <1>6, <1>7, <2>1
<1>12. Len(V) = a + b + 2
  BY <1>1, <1>6
<1> QED  BY <1>1, <1>6, <1>8, <1>9, <1>10, <1>11, <1>12 DEF a, b, V, Crossed

(* The walk goes over a leaf. *)
LEMMA LeafReady ==
    ASSUME NEW rows, Known(rows), NEW p \in Nat, Tops(rows) <= p, p < 2 * Tops(rows),
           NEW w, NEW d, NEW m, IsSequence(m), Ready(w, rows, p - Tops(rows), d, m),
           Represents(d, rows, Above(rows, p, Height(Len(BatchTimes(rows))))), IsSequence(d.history)
    PROVE  Ready(Leave(Enter(w, rows, p)), rows, p - Tops(rows) + 1, d, m)
<1> DEFINE times == BatchTimes(rows)
           n == Len(times)
           H == Height(n)
           L == Tops(rows)
           k == p - L
           E == Above(rows, p, H)
           down == AddEdges(d, RowsAt(rows, times, p))
           x == Len(d.history)
           e == Enter(w, rows, p)
<1>1. n \in Nat /\ DOMAIN times = 1..n
  BY TimesListedUp
<1>2. H \in Nat /\ L \in Nat \ {0} /\ L = PowerOfTwo[H] /\ n <= L
  <2>1. H \in Nat /\ PowerOfTwo[H] >= n
    BY <1>1, HeightIs
  <2> QED  BY <1>1, <2>1, Powers DEF Tops
<1>3. /\ Represents(down, rows, E \cup CoveredAt(rows, p))
      /\ Rollback(down, x) = d
      /\ e = Entered(w, rows, p, down, m, x)
  <2>1. down = AddEdges(d, RowsAt(rows, BatchTimes(rows), p)) /\ Represents(d, rows, E)
    OBVIOUS
  <2>2. Ready(w, rows, k, d, m)
    OBVIOUS
  <2> HIDE DEF E, down, x, k
  <2> QED  BY <2>1, <2>2, EnterHolds DEF x
<1>4. /\ IsSequence(w.batches)
      /\ Len(w.batches) = IF k <= n THEN k ELSE n
      /\ \A b \in 1..Len(w.batches) : GoodBatch(rows, b, w.batches[b])
  BY DEF Ready
<1>5. RootPath(rows, p, H) = E \cup CoveredAt(rows, p)
  BY <1>2, PathSplits
<1> HIDE DEF down, e, x, E
<1>6. CASE k + 1 \in 1..n
  <2> DEFINE new == Batch(down, rows, times[k + 1])
  <2>1. e = [dsu |-> down, marks |-> Append(m, x), batches |-> Append(w.batches, new)]
    BY <1>1, <1>3, <1>6 DEF Entered
  <2>2. RootPath(rows, p, H) = Visible(rows, times[k + 1])
    <3>1. RootPath(rows, PowerOfTwo[H] + (k + 1) - 1, H) = Visible(rows, times[k + 1])
      BY <1>1, <1>6, PathIsVisible
    <3>2. PowerOfTwo[H] + (k + 1) - 1 = p
      BY <1>2
    <3> QED  BY <3>1, <3>2
  <2>3. GoodBatch(rows, k + 1, new)
    BY <1>3, <1>5, <2>2 DEF GoodBatch
  <2> HIDE DEF new
  <2>4. Len(w.batches) = k
    BY <1>1, <1>2, <1>4, <1>6
  <2>5. /\ IsSequence(Append(w.batches, new)) /\ Len(Append(w.batches, new)) = k + 1
        /\ Append(w.batches, new)[k + 1] = new
        /\ \A i \in 1..k : Append(w.batches, new)[i] = w.batches[i]
    BY <1>4, <2>4, Extended
  <2>6. e.batches = Append(w.batches, new)
    BY <2>1
  <2>7. \A b \in 1..(k + 1) : GoodBatch(rows, b, e.batches[b])
    <3> SUFFICES ASSUME NEW b \in 1..(k + 1) PROVE GoodBatch(rows, b, e.batches[b])
      OBVIOUS
    <3>1. CASE b = k + 1
      BY <2>3, <2>5, <2>6, <3>1
    <3>2. CASE b # k + 1
      <4>1. b \in 1..k
        BY <1>2, <3>2
      <4> QED  BY <1>4, <2>4, <2>5, <2>6, <4>1
    <3> QED  BY <3>1, <3>2
  <2>8. k + 1 <= n
    BY <1>6
  <2>9. e = [dsu |-> down, marks |-> Append(m, x), batches |-> e.batches]
    BY <2>1, <2>6
  <2>10. Len(e.batches) = (IF k + 1 <= n THEN k + 1 ELSE n) /\ IsSequence(e.batches)
    BY <2>5, <2>6, <2>8
  <2>11. \A b \in 1..Len(e.batches) : GoodBatch(rows, b, e.batches[b])
    BY <2>5, <2>6, <2>7
  <2>12. Ready(e, rows, k + 1, down, Append(m, x))
    BY <2>9, <2>10, <2>11 DEF Ready
  <2> QED  BY <1>3, <2>12, LeaveReady DEF e
<1>7. CASE ~(k + 1 \in 1..n)
  <2>1. e = [dsu |-> down, marks |-> Append(m, x), batches |-> w.batches]
    BY <1>1, <1>3, <1>7 DEF Entered
  <2>2. e.batches = w.batches
    BY <2>1
  <2>3. Len(w.batches) = IF k + 1 <= n THEN k + 1 ELSE n
    BY <1>1, <1>2, <1>4, <1>7
  <2>4. Ready(e, rows, k + 1, down, Append(m, x))
    BY <1>4, <2>1, <2>2, <2>3 DEF Ready
  <2> QED  BY <1>3, <2>4, LeaveReady DEF e
<1> QED  BY <1>6, <1>7

(* Where the leaves below the two halves of a position are. *)
LEMMA Halves ==
    ASSUME NEW p \in Nat, NEW v \in Nat
    PROVE  /\ p * v \in Nat /\ p * (2 * v) = (2 * p) * v
           /\ (2 * p + 1) * v \in Nat
           /\ (2 * p + 1 + 1) * v = (p + 1) * (2 * v)
  OBVIOUS

(* What the walk over the position p, h levels above the leaves, does. *)
Walked(rows, h, p) ==
    \A after : \A o \in Nat : \A d, m :
       /\ Steps(after, o, Visits[h][p], rows)
       /\ Represents(d, rows, Above(rows, p, Height(Len(BatchTimes(rows))) - h))
       /\ IsSequence(d.history) /\ IsSequence(m)
       /\ Ready(after[o], rows, p * PowerOfTwo[h] - Tops(rows), d, m)
       => Ready(after[o + Len(Visits[h][p])], rows, (p + 1) * PowerOfTwo[h] - Tops(rows), d, m)

LEMMA LeafWalked ==
    ASSUME NEW rows, Known(rows), NEW p \in Nat, Tops(rows) <= p, p < 2 * Tops(rows)
    PROVE  Walked(rows, 0, p)
<1> DEFINE H == Height(Len(BatchTimes(rows)))
           L == Tops(rows)
<1> SUFFICES ASSUME NEW after, NEW o \in Nat, NEW d, NEW m,
                    Steps(after, o, Visits[0][p], rows),
                    Represents(d, rows, Above(rows, p, H - 0)),
                    IsSequence(d.history), IsSequence(m),
                    Ready(after[o], rows, p * PowerOfTwo[0] - L, d, m)
             PROVE  Ready(after[o + Len(Visits[0][p])], rows, (p + 1) * PowerOfTwo[0] - L, d, m)
  BY DEF Walked
<1>1. Visits[0][p] = <<p, 0>> /\ Len(<<p, 0>>) = 2 /\ <<p, 0>>[1] = p /\ <<p, 0>>[2] = 0
  BY VisitsOf
<1>2. H \in Nat /\ L \in Nat \ {0} /\ PowerOfTwo[0] = 1
  <2>1. Len(BatchTimes(rows)) \in Nat
    BY TimesListedUp
  <2> QED  BY <2>1, HeightIs, Powers DEF Tops
<1>3. after[o + 1] = Enter(after[o], rows, p) /\ after[o + 2] = Leave(after[o + 1])
  <2>1. \A i \in 1..2 : after[o + i] = IF <<p, 0>>[i] = 0 THEN Leave(after[o + i - 1])
                                       ELSE Enter(after[o + i - 1], rows, <<p, 0>>[i])
    BY <1>1 DEF Steps
  <2>2. 1 \in 1..2 /\ 2 \in 1..2 /\ o + 1 - 1 = o /\ o + 2 - 1 = o + 1 /\ p # 0
    BY <1>2
  <2> QED  BY <1>1, <2>1, <2>2
<1>4. p * PowerOfTwo[0] - L = p - L /\ (p + 1) * PowerOfTwo[0] - L = p - L + 1 /\ H - 0 = H
  <2> HIDE DEF H, L
  <2> QED  BY <1>2
<1>5. Ready(after[o], rows, p - L, d, m) /\ Represents(d, rows, Above(rows, p, H))
  BY <1>4
<1>6. Ready(Leave(Enter(after[o], rows, p)), rows, p - L + 1, d, m)
  BY <1>5, LeafReady
<1> QED  BY <1>1, <1>3, <1>4, <1>6

LEMMA HigherWalked ==
    ASSUME NEW rows, Known(rows), NEW h \in Nat, h + 1 <= Height(Len(BatchTimes(rows))),
           NEW p \in Nat \ {0}, p < Tops(rows),
           Walked(rows, h, 2 * p), Walked(rows, h, 2 * p + 1)
    PROVE  Walked(rows, h + 1, p)
<1> DEFINE times == BatchTimes(rows)
           H == Height(Len(times))
           L == Tops(rows)
           A == Visits[h][2 * p]
           B == Visits[h][2 * p + 1]
           V == Visits[h + 1][p]
           P == PowerOfTwo[h]
<1> SUFFICES ASSUME NEW after, NEW o \in Nat, NEW d, NEW m,
                    Steps(after, o, V, rows),
                    Represents(d, rows, Above(rows, p, H - (h + 1))),
                    IsSequence(d.history), IsSequence(m),
                    Ready(after[o], rows, p * PowerOfTwo[h + 1] - L, d, m)
             PROVE  Ready(after[o + Len(V)], rows, (p + 1) * PowerOfTwo[h + 1] - L, d, m)
  BY DEF Walked
<1>0. Len(times) \in Nat /\ DOMAIN times = 1..Len(times) /\ H \in Nat
  <2>1. Len(times) \in Nat /\ DOMAIN times = 1..Len(times)
    BY TimesListedUp
  <2> QED  BY <2>1, HeightIs
<1>1. L \in Nat \ {0} /\ P \in Nat \ {0} /\ PowerOfTwo[h + 1] = 2 * P
  BY <1>0, Powers DEF Tops
<1>2. A \in Seq(Nat) /\ B \in Seq(Nat) /\ V = Around(p, A, B)
  <2>1. p \in Nat /\ 2 * p \in Nat /\ 2 * p + 1 \in Nat
    OBVIOUS
  <2> QED  BY <2>1, VisitsOf DEF Around
<1> HIDE DEF A, B, V
<1>3. /\ Len(A) \in Nat /\ Len(B) \in Nat /\ Len(V) = Len(A) + Len(B) + 2
      /\ after[o + 1] = Enter(after[o], rows, p)
      /\ Steps(after, o + 1, A, rows)
      /\ Steps(after, o + 1 + Len(A), B, rows)
      /\ after[o + Len(V)] = Leave(after[o + 1 + Len(A) + Len(B)])
  <2>1. Steps(after, o, Around(p, A, B), rows)
    BY <1>2
  <2>2. Crossed(after, o, p, A, B, rows)
    BY <1>2, <2>1, StepsSplit
  <2> QED  BY <1>2, <2>2 DEF Crossed
<1> DEFINE E == Above(rows, p, H - (h + 1))
           down == AddEdges(d, RowsAt(rows, times, p))
           x == Len(d.history)
           e == Enter(after[o], rows, p)
           k == p * PowerOfTwo[h + 1] - L
<1>4. /\ Represents(down, rows, E \cup CoveredAt(rows, p))
      /\ IsSequence(down.history)
      /\ Rollback(down, x) = d
      /\ e = Entered(after[o], rows, p, down, m, x)
  <2>1. down = AddEdges(d, RowsAt(rows, BatchTimes(rows), p)) /\ Represents(d, rows, E) /\ p \in Nat
    OBVIOUS
  <2>2. Ready(after[o], rows, k, d, m)
    OBVIOUS
  <2> HIDE DEF E, down, x, k
  <2> QED  BY <2>1, <2>2, EnterHolds DEF x
<1>5. p - Tops(rows) + 1 \notin DOMAIN times
  BY <1>0, <1>1
<1>6. IsSequence(Append(m, x))
  BY Extended
<1>7. E \cup CoveredAt(rows, p) = RootPath(rows, p, H - (h + 1))
  <2>1. H - (h + 1) \in Nat
    BY <1>0
  <2> HIDE DEF H
  <2> QED  BY <2>1, PathSplits
<1>8. /\ Above(rows, 2 * p, H - h) = RootPath(rows, p, H - (h + 1))
      /\ Above(rows, 2 * p + 1, H - h) = RootPath(rows, p, H - (h + 1))
  <2>1. H - (h + 1) \in Nat /\ (H - (h + 1)) + 1 = H - h
    BY <1>0
  <2> HIDE DEF H
  <2>2. \A c \in {2 * p, 2 * p + 1} :
           Above(rows, c, (H - (h + 1)) + 1) = RootPath(rows, p, H - (h + 1))
    BY <2>1, AboveChild
  <2> QED  BY <2>1, <2>2
<1> HIDE DEF down, e, x, k, E
<1>9. Ready(e, rows, k, down, Append(m, x))
  <2>1. /\ e = [dsu |-> down, marks |-> Append(m, x), batches |-> after[o].batches]
        /\ e.batches = after[o].batches
    BY <1>4, <1>5 DEF Entered
  <2> QED  BY <2>1 DEF Ready, k
<1>10. /\ k = (2 * p) * P - L
       /\ (2 * p + 1) * P \in Nat
       /\ (2 * p + 1 + 1) * P - L = (p + 1) * PowerOfTwo[h + 1] - L
  <2>1. p * (2 * P) = (2 * p) * P /\ (2 * p + 1) * P \in Nat
        /\ (2 * p + 1 + 1) * P = (p + 1) * (2 * P)
    <3> HIDE DEF P
    <3> QED  BY <1>1, Halves
  <2> QED  BY <1>1, <2>1 DEF k
<1>11. Ready(after[o + 1 + Len(A)], rows, (2 * p + 1) * P - L, down, Append(m, x))
  <2>1. Represents(down, rows, Above(rows, 2 * p, H - h))
    BY <1>4, <1>7, <1>8
  <2>2. Ready(after[o + 1], rows, (2 * p) * P - L, down, Append(m, x))
    BY <1>3, <1>9, <1>10 DEF e
  <2>3. o + 1 \in Nat
    OBVIOUS
  <2> HIDE DEF P, H, L
  <2> QED  BY <1>3, <1>4, <1>6, <2>1, <2>2, <2>3 DEF Walked, P, H, L, A
<1>12. Ready(after[o + 1 + Len(A) + Len(B)], rows, (2 * p + 1 + 1) * P - L, down, Append(m, x))
  <2>1. Represents(down, rows, Above(rows, 2 * p + 1, H - h))
    BY <1>4, <1>7, <1>8
  <2>2. o + 1 + Len(A) \in Nat
    BY <1>3
  <2> HIDE DEF P, H, L
  <2> QED  BY <1>3, <1>4, <1>6, <1>11, <2>1, <2>2 DEF Walked, P, H, L, B
<1>13. Ready(Leave(after[o + 1 + Len(A) + Len(B)]), rows, (2 * p + 1 + 1) * P - L, d, m)
  BY <1>4, <1>12, LeaveReady
<1> QED  BY <1>3, <1>10, <1>13

(* The visits of a walk, one after the other. *)
Walking(walk, rows, visits, n, after) ==
    after = [i \in 0..n |-> IF i = 0 THEN walk
                    ELSE (IF visits[i] = 0 THEN Leave(after[i - 1])
                          ELSE Enter(after[i - 1], rows, visits[i]))]

LEMMA WalkingExists ==
    ASSUME NEW walk, NEW rows, NEW visits
    PROVE  \A n \in Nat : \E after : Walking(walk, rows, visits, n, after)
<1> DEFINE G == {n \in Nat : \E after : Walking(walk, rows, visits, n, after)}
<1>1. 0 \in G
  <2> DEFINE h == [i \in 0..0 |-> walk]
  <2>1. Walking(walk, rows, visits, 0, h)
    BY DEF Walking
  <2> QED  BY <2>1
<1>2. ASSUME NEW n \in Nat, n \in G
      PROVE  n + 1 \in G
  <2>1. PICK h : Walking(walk, rows, visits, n, h)
    BY <1>2
  <2> DEFINE next == (IF visits[(n + 1)] = 0 THEN Leave(h[n]) ELSE Enter(h[n], rows, visits[(n + 1)]))
             g == [i \in 0..(n + 1) |-> IF i = n + 1 THEN next ELSE h[i]]
  <2>2. \A i \in 0..n : h[i] = IF i = 0 THEN walk
                    ELSE (IF visits[i] = 0 THEN Leave(h[i - 1])
                          ELSE Enter(h[i - 1], rows, visits[i]))
    BY <2>1 DEF Walking
  <2>3. \A i \in 0..n : g[i] = h[i]
    OBVIOUS
  <2>4. g[n + 1] = next
    OBVIOUS
  <2>5. g = [i \in 0..(n + 1) |-> g[i]]
    OBVIOUS
  <2> HIDE DEF g
  <2>6. \A i \in 0..(n + 1) : g[i] = IF i = 0 THEN walk
                    ELSE (IF visits[i] = 0 THEN Leave(g[i - 1])
                          ELSE Enter(g[i - 1], rows, visits[i]))
    <3> SUFFICES ASSUME NEW i \in 0..(n + 1)
                 PROVE  g[i] = IF i = 0 THEN walk
                    ELSE (IF visits[i] = 0 THEN Leave(g[i - 1])
                          ELSE Enter(g[i - 1], rows, visits[i]))
      OBVIOUS
    <3>1. CASE i = n + 1
      <4>1. i # 0 /\ i - 1 = n /\ n \in 0..n
        BY <3>1
      <4> QED  BY <2>3, <2>4, <3>1, <4>1
    <3>2. CASE i # n + 1
      <4>1. i \in 0..n /\ (i # 0 => i - 1 \in 0..n)
        BY <3>2
      <4> QED  BY <2>2, <2>3, <4>1
    <3> QED  BY <3>1, <3>2
  <2>7. Walking(walk, rows, visits, n + 1, g)
    BY <2>5, <2>6 DEF Walking
  <2> QED  BY <2>7
<1> HIDE DEF G
<1>3. Nat \subseteq G
  BY <1>1, <1>2, UpwardInduction
<1> QED  BY <1>3 DEF G

LEMMA AllWalked ==
    ASSUME NEW rows, Known(rows)
    PROVE  Walked(rows, Height(Len(BatchTimes(rows))), 1)
<1> DEFINE H == Height(Len(BatchTimes(rows)))
           G == {h \in Nat : h <= H =>
                   \A p \in Nat : PowerOfTwo[H - h] <= p /\ p < 2 * PowerOfTwo[H - h] => Walked(rows, h, p)}
<1>1. H \in Nat /\ Tops(rows) = PowerOfTwo[H]
  <2>1. Len(BatchTimes(rows)) \in Nat
    BY TimesListedUp
  <2> QED  BY <2>1, HeightIs DEF Tops
<1> HIDE DEF H
<1>2. 0 \in G
  <2> SUFFICES ASSUME NEW p \in Nat, PowerOfTwo[H - 0] <= p, p < 2 * PowerOfTwo[H - 0]
               PROVE  Walked(rows, 0, p)
    OBVIOUS
  <2>1. H - 0 = H
    BY <1>1
  <2>2. Tops(rows) <= p /\ p < 2 * Tops(rows)
    BY <1>1, <2>1
  <2> QED  BY <2>2, LeafWalked
<1>3. ASSUME NEW h \in Nat, h \in G PROVE h + 1 \in G
  <2> SUFFICES ASSUME h + 1 <= H, NEW p \in Nat,
                      PowerOfTwo[H - (h + 1)] <= p, p < 2 * PowerOfTwo[H - (h + 1)]
               PROVE  Walked(rows, h + 1, p)
    OBVIOUS
  <2> DEFINE k == H - (h + 1)
  <2>1. k \in Nat /\ k < H /\ k + 1 = H - h /\ h <= H
    BY <1>1
  <2>2. PowerOfTwo[k] \in Nat \ {0} /\ PowerOfTwo[H - h] = 2 * PowerOfTwo[k]
    BY <2>1, Powers
  <2>3. 2 * PowerOfTwo[k] <= PowerOfTwo[H]
    BY <1>1, <2>1, PowersApart
  <2>4. PowerOfTwo[H] \in Nat
    BY <1>1, Powers
  <2> DEFINE P == PowerOfTwo[k]
             Q == PowerOfTwo[H]
             O == PowerOfTwo[H - h]
  <2>5. P <= p /\ p < 2 * P
    OBVIOUS
  <2>6. p \in Nat \ {0} /\ p < Tops(rows) /\ O <= 2 * p /\ 2 * p < 2 * O
        /\ O <= 2 * p + 1 /\ 2 * p + 1 < 2 * O /\ 2 * p \in Nat /\ 2 * p + 1 \in Nat
    <3>1. Tops(rows) = Q /\ P \in Nat \ {0} /\ O = 2 * P /\ 2 * P <= Q /\ Q \in Nat
      BY <1>1, <2>2, <2>3, <2>4
    <3> HIDE DEF P, Q, O
    <3> QED  BY <2>5, <3>1
  <2>7. \A q \in Nat : O <= q /\ q < 2 * O => Walked(rows, h, q)
    BY <1>3, <2>1
  <2> HIDE DEF O, P, Q, k
  <2>8. Walked(rows, h, 2 * p) /\ Walked(rows, h, 2 * p + 1)
    BY <2>6, <2>7
  <2> QED  BY <2>6, <2>8, HigherWalked DEF H
<1>4. Nat \subseteq G
  <2> HIDE DEF G
  <2> QED  BY <1>2, <1>3, UpwardInduction
<1>5. \A p \in Nat : PowerOfTwo[H - H] <= p /\ p < 2 * PowerOfTwo[H - H] => Walked(rows, H, p)
  BY <1>1, <1>4
<1>6. PowerOfTwo[H - H] = 1
  <2>1. H - H = 0
    BY <1>1
  <2> QED  BY <2>1, Powers
<1>7. Walked(rows, H, 1)
  BY <1>5, <1>6
<1> QED  BY <1>7 DEF H

(* The walk makes one batch of each time, and its union-find holds then what the
   alerts of the batch can see. *)
LEMMA TopologyIs ==
    ASSUME NEW rows, Known(rows)
    PROVE  /\ IsSequence(Topology(rows)) /\ Len(Topology(rows)) = Len(BatchTimes(rows))
           /\ \A b \in 1..Len(Topology(rows)) : GoodBatch(rows, b, Topology(rows)[b])
<1> DEFINE n == Len(BatchTimes(rows))
           H == Height(n)
           V == Visits[H][1]
           w == [dsu |-> NewDsu(rows), marks |-> <<>>, batches |-> <<>>]
           m == Len(V)
           a == CHOOSE after : Walking(w, rows, V, m, after)
           T == Topology(rows)
<1>1. n \in Nat /\ H \in Nat
  <2>1. n \in Nat
    BY TimesListedUp
  <2> QED  BY <2>1, HeightIs
<1>2. CASE n = 0
  <2>1. T = <<>>
    BY <1>2 DEF Topology
  <2>2. IsSequence(T) /\ Len(T) = 0
    BY <2>1, EmptyIsSequence
  <2>3. 1..0 = {}
    OBVIOUS
  <2> HIDE DEF T
  <2> QED  BY <1>2, <2>2, <2>3 DEF T
<1>3. CASE n # 0
  <2>1. m \in Nat
    <3>1. V \in Seq(Nat)
      BY <1>1, VisitsOf
    <3> HIDE DEF V
    <3> QED  BY <3>1, LenProperties
  <2>2. Walking(w, rows, V, m, a)
    BY <2>1, WalkingExists
  <2>3. Walk(w, rows, V) = a[m]
    BY DEF Walk, Walking
  <2>4. T = a[m].batches
    BY <1>3, <2>3 DEF Topology
  <2> HIDE DEF a
  <2>5. a[0] = w
    BY <2>1, <2>2 DEF Walking
  <2>6. Steps(a, 0, V, rows)
    <3> SUFFICES ASSUME NEW i \in 1..m
                 PROVE  a[0 + i] = IF V[i] = 0 THEN Leave(a[0 + i - 1]) ELSE Enter(a[0 + i - 1], rows, V[i])
      BY DEF Steps
    <3>1. 0 + i = i /\ 0 + i - 1 = i - 1 /\ i \in 0..m /\ i # 0
      BY <2>1
    <3>2. \A j \in 0..m : a[j] = IF j = 0 THEN w
                                 ELSE (IF V[j] = 0 THEN Leave(a[j - 1]) ELSE Enter(a[j - 1], rows, V[j]))
      BY <2>2 DEF Walking
    <3> HIDE DEF V, w, m
    <3> QED  BY <3>1, <3>2
  <2>7. Represents(w.dsu, rows, {}) /\ IsSequence(w.dsu.history) /\ IsSequence(w.marks)
        /\ IsSequence(w.batches) /\ Len(w.batches) = 0
    BY NewDsuHolds, EmptyIsSequence
  <2>8. Above(rows, 1, H - H) = {}
    <3>1. 1..(H - H) = {}
      BY <1>1
    <3> QED  BY <3>1 DEF Above
  <2>9. 1 * PowerOfTwo[H] - Tops(rows) = 0 /\ (1 + 1) * PowerOfTwo[H] - Tops(rows) = PowerOfTwo[H]
        /\ PowerOfTwo[H] >= n /\ PowerOfTwo[H] \in Nat
    <3>1. Tops(rows) = PowerOfTwo[H]
      BY DEF Tops
    <3>2. PowerOfTwo[H] >= n /\ PowerOfTwo[H] \in Nat
      BY <1>1, HeightIs, Powers
    <3> QED  BY <3>1, <3>2
  <2>10. Ready(w, rows, 0, w.dsu, w.marks)
    <3>1. w = [dsu |-> w.dsu, marks |-> w.marks, batches |-> w.batches]
      OBVIOUS
    <3>2. 0 <= n
      BY <1>1
    <3>3. \A b \in 1..Len(w.batches) : GoodBatch(rows, b, w.batches[b])
      <4>1. 1..Len(w.batches) = {}
        BY <2>7
      <4> QED  BY <4>1
    <3> HIDE DEF w
    <3> QED  BY <2>7, <3>1, <3>2, <3>3 DEF Ready
  <2>11. Ready(a[0 + m], rows, PowerOfTwo[H], w.dsu, w.marks)
    <3>1. Walked(rows, H, 1)
      BY AllWalked
    <3>2. Represents(w.dsu, rows, Above(rows, 1, H - H))
      BY <2>7, <2>8
    <3>3. Ready(a[0], rows, 1 * PowerOfTwo[H] - Tops(rows), w.dsu, w.marks)
      BY <2>5, <2>9, <2>10
    <3>4. \A d, q : /\ Represents(d, rows, Above(rows, 1, H - H))
                    /\ IsSequence(d.history) /\ IsSequence(q)
                    /\ Ready(a[0], rows, 1 * PowerOfTwo[H] - Tops(rows), d, q)
                    => Ready(a[0 + m], rows, (1 + 1) * PowerOfTwo[H] - Tops(rows), d, q)
      <4>1. 0 \in Nat
        OBVIOUS
      <4> HIDE DEF w
      <4> QED  BY <2>6, <3>1, <4>1 DEF Walked
    <3> HIDE DEF w
    <3> QED  BY <2>7, <2>9, <3>2, <3>3, <3>4
  <2>12. 0 + m = m
    BY <2>1
  <2> HIDE DEF w, m, V, H
  <2>13. /\ IsSequence(T) /\ Len(T) = (IF PowerOfTwo[H] <= n THEN PowerOfTwo[H] ELSE n)
         /\ \A b \in 1..Len(T) : GoodBatch(rows, b, T[b])
    <3>1. Ready(a[m], rows, PowerOfTwo[H], w.dsu, w.marks)
      BY <2>11, <2>12
    <3> QED  BY <2>4, <3>1 DEF Ready
  <2>14. Len(T) = n
    BY <1>1, <2>9, <2>13
  <2> QED  BY <2>13, <2>14 DEF T
<1> QED  BY <1>2, <1>3
-----------------------------------------------------------------------------
(* WHAT THE WALK BUILDS: components by a search, in batches by time.          *)
(* A root is that of what the edges connect, as it is declared. *)
LEMMA ConnectedIs ==
    ASSUME NEW rows, Known(rows), NEW E, E \subseteq rows, NEW R, Joins(Nodes(rows), E, R),
           NEW n \in Nodes(rows)
    PROVE  Connected(E, n) = {m \in Nodes(rows) : R[m] = R[n]}
<1> DEFINE N == Nodes(rows)
           M == Nodes(E) \cup {n}
           Closed(S) == \A r \in E : r.actor \in S <=> r.counterparty \in S
           around == {S \in SUBSET M : n \in S /\ Closed(S)}
<1>1. \A r \in E : r.actor \in Nodes(E) /\ r.counterparty \in Nodes(E)
  BY DEF Nodes
<1>2. M \subseteq N
  BY DEF Nodes
<1>3. Connected(E, n) = {m \in M : \A S \in around : m \in S}
  BY DEF Connected
<1>4. /\ \A r \in E : R[r.actor] = R[r.counterparty]
      /\ \A S \in SUBSET N : Closed(S) => \A x, y \in N : R[x] = R[y] => (x \in S <=> y \in S)
  BY DEF Joins
<1>5. Closed(M)
  BY <1>1
<1>6. Closed({m \in M : R[m] = R[n]})
  BY <1>1, <1>4
<1> HIDE DEF N, Closed
<1>7. {m \in M : R[m] = R[n]} \in around
  BY <1>6
<1>8. ASSUME NEW m \in M, \A S \in around : m \in S PROVE R[m] = R[n]
  BY <1>7, <1>8
<1>9. ASSUME NEW m \in N, R[m] = R[n] PROVE m \in M /\ \A S \in around : m \in S
  <2>1. M \in SUBSET N /\ n \in M /\ n \in N
    BY <1>2
  <2>2. m \in M
    BY <1>4, <1>5, <1>9, <2>1
  <2>3. ASSUME NEW S \in around PROVE m \in S
    <3>1. S \in SUBSET N /\ Closed(S) /\ n \in S
      BY <1>2
    <3> QED  BY <1>4, <1>9, <2>1, <3>1
  <2> QED  BY <2>2, <2>3
<1> HIDE DEF around, M
<1>10. {m \in M : \A S \in around : m \in S} = {m \in N : R[m] = R[n]}
  BY <1>2, <1>8, <1>9
<1> QED  BY <1>3, <1>10 DEF N

(* A snapshot before a batch is the component that is declared. *)
LEMMA SnapshotIs ==
    ASSUME NEW rows, Known(rows), NEW time, Here(rows, time) # {}, NEW d,
           Represents(d, rows, Visible(rows, time)), NEW n \in Nodes(rows)
    PROVE  Snapshot(d, n, FirstOf(rows, time)) = Component(rows, time, n)
<1> DEFINE E == Visible(rows, time)
           first == FirstOf(rows, time)
           D == Decisions(rows)
<1>1. PICK R, depth : Holds(d, rows, E, R, depth)
  BY DEF Represents
<1> DEFINE x == R[n]
           S == {m \in Nodes(rows) : R[m] = x}
<1>2. /\ Rooted(d, Nodes(rows), R, depth) /\ Joins(Nodes(rows), E, R) /\ E \subseteq rows
      /\ \A y \in Nodes(rows) : d.parent[y] = y => d.part[y] = PartOf(rows, E, R, y)
  BY <1>1 DEF Holds
<1>3. x \in Nodes(rows) /\ d.parent[x] = x
  BY <1>2, RootsAre
<1>4. Find(d, n) = x /\ Connected(E, n) = S
  <2>1. Find(d, n) = x
    BY <1>2, FindIs
  <2>2. Connected(E, n) = S
    BY <1>2, ConnectedIs
  <2> QED  BY <2>1, <2>2
<1> DEFINE members == {p \in DOMAIN D : x \in {R[D[p].actor], R[D[p].counterparty]}}
<1>5. d.part[x] = [size |-> Cardinality(S), minimum |-> Smallest(S),
                   evidence |-> {r \in E : R[r.actor] = x}, members |-> members]
  BY <1>2, <1>3 DEF PartOf
<1>6. Snapshot(d, n, first) =
         [size |-> Cardinality(S), minimum |-> Smallest(S),
          evidence |-> {r \in E : R[r.actor] = x}, members |-> {p \in members : p < first}]
  <2>1. Snapshot(d, n, first) = [d.part[x] EXCEPT !.members = {p \in d.part[x].members : p < first}]
    BY <1>4 DEF Snapshot
  <2> DEFINE part == d.part[x]
             evidence == {r \in E : R[r.actor] = x}
             before(M) == {p \in M : p < first}
  <2>2. part = [size |-> Cardinality(S), minimum |-> Smallest(S), evidence |-> evidence,
                members |-> members]
    BY <1>5
  <2>3. Snapshot(d, n, first) = [part EXCEPT !.members = before(part.members)]
    BY <2>1
  <2> HIDE DEF S, members, evidence, before, part
  <2>4. part.members = members
    BY <2>2
  <2>5. Snapshot(d, n, first) = [part EXCEPT !.members = before(members)]
    BY <2>3, <2>4
  <2>6. [part EXCEPT !.members = before(members)] =
           [size |-> Cardinality(S), minimum |-> Smallest(S), evidence |-> evidence,
            members |-> before(members)]
    BY <2>2
  <2> QED  BY <2>5, <2>6 DEF evidence, before
<1>7. Component(rows, time, n) =
         [size |-> Cardinality(S), minimum |-> Smallest(S),
          evidence |-> {r \in E : r.actor \in S},
          members |-> {p \in DOMAIN D : D[p].decide < time /\ {D[p].actor, D[p].counterparty} \cap S # {}}]
  BY <1>4 DEF Component, Smallest
<1>8. {r \in E : r.actor \in S} = {r \in E : R[r.actor] = x}
  <2>1. \A r \in E : r.actor \in Nodes(rows)
    BY <1>2, NodesAre
  <2> HIDE DEF E, x
  <2> QED  BY <2>1
<1>9. {p \in DOMAIN D : D[p].decide < time /\ {D[p].actor, D[p].counterparty} \cap S # {}}
         = {p \in members : p < first}
  <2>1. \A p \in DOMAIN D : D[p].actor \in Nodes(rows) /\ D[p].counterparty \in Nodes(rows)
    BY NodesAre
  <2>2. \A p \in DOMAIN D : p < first <=> D[p].decide < time
    BY BatchSpan
  <2>3. \A p \in DOMAIN D : {D[p].actor, D[p].counterparty} \cap S # {} <=>
                               x \in {R[D[p].actor], R[D[p].counterparty]}
    <3> HIDE DEF D, x
    <3> QED  BY <2>1
  <2> HIDE DEF D, S, first, x
  <2> QED  BY <2>2, <2>3
<1> HIDE DEF S, members, E, first, x, D
<1> QED  BY <1>6, <1>7, <1>8, <1>9 DEF first

(* The alerts of a batch are its positions, in order, with their components. *)
AlertOf(rows, time, p) ==
    [position |-> p, row |-> Decisions(rows)[p],
     components |-> {Component(rows, time, n) :
                        n \in {Decisions(rows)[p].actor, Decisions(rows)[p].counterparty}}]

BatchOf(rows, time) ==
    [at |-> time,
     alerts |-> [i \in 1..Cardinality(Here(rows, time)) |->
                    AlertOf(rows, time, FirstOf(rows, time) + i - 1)]]

LEMMA BatchIs ==
    ASSUME NEW rows, Known(rows), NEW b \in DOMAIN BatchTimes(rows), NEW batch,
           GoodBatch(rows, b, batch)
    PROVE  /\ Here(rows, BatchTimes(rows)[b]) # {}
           /\ batch = BatchOf(rows, BatchTimes(rows)[b])
<1> DEFINE t == BatchTimes(rows)[b]
           D == Decisions(rows)
           first == FirstOf(rows, t)
           c == Cardinality(Here(rows, t))
<1>1. Here(rows, t) # {}
  <2>1. PICK r \in Decided(rows) : r.decide = t
    BY TimesListedUp
  <2>2. PICK p \in DOMAIN D : D[p] = r
    BY DecisionsListed
  <2> QED  BY <2>1, <2>2 DEF Here
<1>2. PICK d : Represents(d, rows, Visible(rows, t)) /\ batch = Batch(d, rows, t)
  BY DEF GoodBatch
<1>3. batch = [at |-> t, alerts |-> [i \in 1..c |-> Alert(d, D, first + i - 1, first)]]
  BY <1>2 DEF Batch, Here, FirstOf
<1>4. c \in Nat /\ first \in Nat /\ Here(rows, t) = first..(first + c - 1)
  BY <1>1, BatchSpan
<1>5. ASSUME NEW i \in 1..c PROVE Alert(d, D, first + i - 1, first) = AlertOf(rows, t, first + i - 1)
  <2> DEFINE p == first + i - 1
             s == {D[p].actor, D[p].counterparty}
  <2>1. p \in Here(rows, t)
    <3> HIDE DEF first, c
    <3> QED  BY <1>4
  <2>2. p \in DOMAIN D
    BY <2>1 DEF Here
  <2>3. \A n \in s : n \in Nodes(rows)
    BY <2>2, NodesAre
  <2>4. \A n \in Nodes(rows) : Snapshot(d, n, first) = Component(rows, t, n)
    BY <1>1, <1>2, SnapshotIs
  <2>5. {Snapshot(d, n, first) : n \in s} = {Component(rows, t, n) : n \in s}
    <3> HIDE DEF s, first, t
    <3> QED  BY <2>3, <2>4
  <2>6. Alert(d, D, p, first) = [position |-> p, row |-> D[p],
                                 components |-> {Snapshot(d, n, first) : n \in s}]
    BY DEF Alert
  <2>7. AlertOf(rows, t, p) = [position |-> p, row |-> D[p],
                               components |-> {Component(rows, t, n) : n \in s}]
    BY DEF AlertOf
  <2> HIDE DEF s
  <2> QED  BY <2>5, <2>6, <2>7
<1>6. BatchOf(rows, t) = [at |-> t, alerts |-> [i \in 1..c |-> AlertOf(rows, t, first + i - 1)]]
  BY DEF BatchOf
<1> HIDE DEF c, first, D
<1>7. batch = BatchOf(rows, t)
  BY <1>3, <1>5, <1>6
<1> QED  BY <1>1, <1>7

(* The batches that the engine is given, one for each time. *)
LEMMA BatchesAre ==
    ASSUME NEW rows, Known(rows)
    PROVE  /\ Len(Topology(rows)) = Len(BatchTimes(rows))
           /\ DOMAIN Topology(rows) = DOMAIN BatchTimes(rows)
           /\ \A b \in DOMAIN BatchTimes(rows) :
                 /\ Here(rows, BatchTimes(rows)[b]) # {}
                 /\ Topology(rows)[b] = BatchOf(rows, BatchTimes(rows)[b])
<1> DEFINE T == Topology(rows)
           t == BatchTimes(rows)
<1>1. Len(T) = Len(t) /\ IsSequence(T) /\ \A b \in 1..Len(T) : GoodBatch(rows, b, T[b])
  BY TopologyIs
<1>2. DOMAIN t = 1..Len(t)
  BY TimesListedUp
<1>3. DOMAIN T = 1..Len(T)
  BY <1>1 DEF IsSequence
<1> HIDE DEF T
<1> QED  BY <1>1, <1>2, <1>3, BatchIs DEF T

LEMMA ComponentsAre ==
    ASSUME NEW rows, Known(rows)
    PROVE  LET topology == Topology(rows)
           IN  /\ [b \in DOMAIN topology |-> topology[b].at] = BatchTimes(rows)
               /\ \A b \in DOMAIN topology : \A i \in DOMAIN topology[b].alerts :
                     LET alert == topology[b].alerts[i]
                     IN  alert.components =
                           {Component(rows, topology[b].at, n) :
                               n \in {alert.row.actor, alert.row.counterparty}}
<1> DEFINE T == Topology(rows)
           t == BatchTimes(rows)
<1>1. DOMAIN T = DOMAIN t /\ \A b \in DOMAIN t : T[b] = BatchOf(rows, t[b])
  BY BatchesAre
<1>2. t = [i \in DOMAIN t |-> t[i]]
  <2> DEFINE U == {r.decide : r \in Decided(rows)}
  <2>1. t = Sorted(U, <)
    BY DEF BatchTimes, Decided
  <2> HIDE DEF U, t
  <2>2. Sorted(U, <) = [i \in 1..Cardinality(U) |->
                          CHOOSE e \in U : Cardinality({f \in U : f < e}) = i - 1]
    BY DEF Sorted
  <2> DEFINE rank(i) == CHOOSE e \in U : Cardinality({f \in U : f < e}) = i - 1
  <2>3. t = [i \in 1..Cardinality(U) |-> rank(i)]
    BY <2>1, <2>2
  <2> HIDE DEF rank
  <2> QED  BY <2>3
<1>3. \A time : /\ BatchOf(rows, time).at = time
                /\ \A i \in DOMAIN BatchOf(rows, time).alerts :
                      BatchOf(rows, time).alerts[i] = AlertOf(rows, time, FirstOf(rows, time) + i - 1)
  BY DEF BatchOf
<1>4. \A time, p : AlertOf(rows, time, p).components =
                      {Component(rows, time, n) : n \in {AlertOf(rows, time, p).row.actor,
                                                         AlertOf(rows, time, p).row.counterparty}}
  BY DEF AlertOf
<1> HIDE DEF T, t
<1>5. [b \in DOMAIN T |-> T[b].at] = t
  BY <1>1, <1>2, <1>3
<1>6. ASSUME NEW b \in DOMAIN T, NEW i \in DOMAIN T[b].alerts
      PROVE  T[b].alerts[i].components = {Component(rows, T[b].at, n) :
                   n \in {T[b].alerts[i].row.actor, T[b].alerts[i].row.counterparty}}
  <2>1. T[b] = BatchOf(rows, t[b])
    BY <1>1
  <2>2. T[b].at = t[b] /\ T[b].alerts[i] = AlertOf(rows, t[b], FirstOf(rows, t[b]) + i - 1)
    BY <1>3, <2>1
  <2> QED  BY <1>4, <2>2
<1> QED  BY <1>5, <1>6 DEF T, t
-----------------------------------------------------------------------------
(***************************************************************************)
(* THE CASE ENGINE.  SoundEngine names, for each case ever opened, the case *)
(* that is left of it, and what that one holds; Grown says what became of   *)
(* the cases an earlier engine had; Stands puts the two together.           *)
(***************************************************************************)
(* Every name that a case has had. *)
Named(e) == DOMAIN e.active \cup DOMAIN e.aliases

Function(f) == f = [x \in DOMAIN f |-> f[x]]

(* The engine is what group_cases builds, case by case. *)
Shaped(e) ==
    /\ e = [assigned |-> e.assigned, active |-> e.active, aliases |-> e.aliases]
    /\ Function(e.assigned) /\ Function(e.active) /\ Function(e.aliases)
    /\ \A c \in DOMAIN e.active :
          e.active[c] = [at |-> e.active[c].at, priority |-> e.active[c].priority,
                         members |-> e.active[c].members]

(* The aliases lead from every name, in a depth that falls, to the case it
   stands for. *)
Leads(e, Q, depth) ==
    /\ DOMAIN e.active \cap DOMAIN e.aliases = {}
    /\ Q \in [Named(e) -> DOMAIN e.active] /\ depth \in [Named(e) -> Nat]
    /\ \A c \in DOMAIN e.active : Q[c] = c
    /\ \A c \in DOMAIN e.aliases : /\ e.aliases[c] \in Named(e)
                                   /\ Q[c] = Q[e.aliases[c]]
                                   /\ depth[e.aliases[c]] < depth[c]

(* The engine after the positions P, of which those intervened are alerts. *)
SoundEngine(e, rows, intervened, P, Q, depth) ==
    /\ Shaped(e) /\ Leads(e, Q, depth) /\ IsFiniteSet(DOMAIN e.active)
    /\ P \subseteq DOMAIN Decisions(rows)
    /\ DOMAIN e.assigned = {p \in P : Decisions(rows)[p].id \in intervened}
    /\ \A p \in DOMAIN e.assigned : e.assigned[p] \in Named(e)
    /\ \A c \in Named(e) : \E p \in DOMAIN e.assigned : Decisions(rows)[p].id = c
    /\ \A c \in DOMAIN e.active :
          /\ e.active[c].members = {p \in DOMAIN e.assigned : Q[e.assigned[p]] = c}
          /\ \E r \in Decided(rows) : e.active[c].at = r.decide
          /\ e.active[c].priority \in Int

(* resolve() follows the aliases to the case. *)
LEMMA ResolveIs ==
    ASSUME NEW e, NEW Q, NEW depth, Leads(e, Q, depth), NEW case \in Named(e)
    PROVE  Resolve(e, case) = Q[case]
<1> DEFINE N == {case} \cup DOMAIN e.aliases \cup Range(e.aliases)
           Ends(f) == f = [c \in N |-> IF c \in DOMAIN e.aliases THEN f[e.aliases[c]] ELSE c]
           f == CHOOSE g : Ends(g)
           q == [c \in N |-> Q[c]]
<1>1. /\ Q \in [Named(e) -> DOMAIN e.active] /\ depth \in [Named(e) -> Nat]
      /\ \A c \in DOMAIN e.active : Q[c] = c
      /\ \A c \in DOMAIN e.aliases : /\ e.aliases[c] \in Named(e)
                                     /\ Q[c] = Q[e.aliases[c]]
                                     /\ depth[e.aliases[c]] < depth[c]
  BY DEF Leads
<1>2. /\ N \subseteq Named(e) /\ case \in N
      /\ \A c \in N : c \in DOMAIN e.aliases => e.aliases[c] \in N
      /\ \A c \in N : c \notin DOMAIN e.aliases => c \in DOMAIN e.active
  BY <1>1 DEF Named, Range
<1> HIDE DEF N
<1>3. Ends(q)
  <2>1. \A c \in N : q[c] = IF c \in DOMAIN e.aliases THEN q[e.aliases[c]] ELSE c
    BY <1>1, <1>2
  <2>2. q = [c \in N |-> q[c]]
    OBVIOUS
  <2> HIDE DEF q
  <2> QED  BY <2>1, <2>2
<1>4. Ends(f)
  <2> HIDE DEF q, Ends
  <2> QED  BY <1>3
<1>5. Resolve(e, case) = f[case]
  BY DEF Resolve, N
<1> HIDE DEF f
<1>6. \A c \in N : f[c] = IF c \in DOMAIN e.aliases THEN f[e.aliases[c]] ELSE c
  BY <1>4
<1> DEFINE G == {k \in Nat : \A c \in N : depth[c] < k => f[c] = Q[c]}
<1>7. 0 \in G
  BY <1>1, <1>2
<1>8. ASSUME NEW k \in Nat, k \in G PROVE k + 1 \in G
  <2> SUFFICES ASSUME NEW c \in N, depth[c] < k + 1 PROVE f[c] = Q[c]
    OBVIOUS
  <2>1. CASE c \notin DOMAIN e.aliases
    BY <1>1, <1>2, <1>6, <2>1
  <2>2. CASE c \in DOMAIN e.aliases
    <3>1. e.aliases[c] \in N /\ depth[c] \in Nat /\ depth[e.aliases[c]] \in Nat
      BY <1>1, <1>2, <2>2
    <3>2. Q[c] = Q[e.aliases[c]] /\ depth[e.aliases[c]] < k
      BY <1>1, <2>2, <3>1
    <3>3. f[c] = f[e.aliases[c]]
      BY <1>6, <2>2
    <3> QED  BY <1>8, <3>1, <3>2, <3>3
  <2> QED  BY <2>1, <2>2
<1> HIDE DEF G
<1>9. Nat \subseteq G
  BY <1>7, <1>8, UpwardInduction
<1>10. depth[case] + 1 \in Nat /\ depth[case] < depth[case] + 1
  BY <1>1
<1>11. f[case] = Q[case]
  BY <1>2, <1>9, <1>10 DEF G
<1> QED  BY <1>5, <1>11

(* One of several cases is before all the others. *)
LEMMA FirstCaseIs ==
    ASSUME NEW e, NEW S, IsFiniteSet(S), S # {},
           \A c \in S : e.active[c].at \in Nat /\ DigestRank[c] \in Nat,
           \A c, d \in S : DigestRank[c] = DigestRank[d] => c = d
    PROVE  FirstCase(e, S) \in S /\ \A d \in S \ {FirstCase(e, S)} : CaseBefore(e, FirstCase(e, S), d)
<1> DEFINE First(T, c) == \A d \in T \ {c} : CaseBefore(e, c, d)
           G == {T \in SUBSET S : T = {} \/ \E c \in T : First(T, c)}
<1>1. {} \in G
  OBVIOUS
<1>2. ASSUME NEW T \in SUBSET S, T \in G, NEW x \in S \ T
      PROVE  T \cup {x} \in G
  <2>1. CASE T = {}
    <3>1. First(T \cup {x}, x)
      BY <2>1
    <3> QED  BY <3>1
  <2>2. CASE T # {}
    <3>1. PICK c \in T : First(T, c)
      BY <1>2, <2>2
    <3>2. CASE CaseBefore(e, c, x)
      <4>1. First(T \cup {x}, c)
        BY <3>1, <3>2
      <4> QED  BY <4>1
    <3>3. CASE ~CaseBefore(e, c, x)
      <4>1. CaseBefore(e, x, c)
        BY <3>3 DEF CaseBefore
      <4>2. ASSUME NEW d \in T PROVE CaseBefore(e, x, d)
        <5>1. CASE d = c
          BY <4>1, <5>1
        <5>2. CASE d # c
          <6>1. CaseBefore(e, c, d)
            BY <3>1, <5>2
          <6> QED  BY <4>1, <6>1 DEF CaseBefore
        <5> QED  BY <5>1, <5>2
      <4>3. First(T \cup {x}, x)
        BY <4>2
      <4> QED  BY <4>3
    <3> QED  BY <3>2, <3>3
  <2> QED  BY <2>1, <2>2
<1> HIDE DEF G
<1>3. S \in G
  BY <1>1, <1>2, SetInduction
<1>4. \E c \in S : First(S, c)
  BY <1>3 DEF G
<1>5. FirstCase(e, S) = CHOOSE c \in S : First(S, c)
  BY DEF FirstCase
<1> DEFINE first == CHOOSE c \in S : First(S, c)
<1>6. first \in S /\ First(S, first)
  BY <1>4
<1> QED  BY <1>5, <1>6

-----------------------------------------------------------------------------
(* What an assignment makes of the engine: it opens a case, or joins one. *)
AssignedTo(e, p, case) ==
    [q \in DOMAIN e.assigned \cup {p} |-> IF q = p THEN case ELSE e.assigned[q]]

CaseOpened(e, p, case, time, priority) ==
    [assigned |-> AssignedTo(e, p, case),
     active   |-> [c \in DOMAIN e.active \cup {case} |->
                      IF c = case THEN [at |-> time, priority |-> priority, members |-> {p}]
                      ELSE e.active[c]],
     aliases  |-> e.aliases]

CaseJoined(e, p, case, others) ==
    [assigned |-> AssignedTo(e, p, case),
     active   |-> [c \in DOMAIN e.active \ others |->
                      IF c = case
                      THEN [at |-> e.active[c].at, priority |-> e.active[c].priority,
                            members |-> e.active[c].members \cup MembersOf(e, others) \cup {p}]
                      ELSE e.active[c]],
     aliases  |-> [c \in DOMAIN e.aliases \cup others |->
                      IF c \in others THEN case ELSE e.aliases[c]]]

Live(e, matched) == {Resolve(e, c) : c \in matched} \cap DOMAIN e.active

LEMMA AssignOpens ==
    ASSUME NEW e, Shaped(e), NEW time, NEW alert, NEW matched, Live(e, matched) = {}
    PROVE  Assign(e, time, alert, matched) =
              CaseOpened(e, alert.position, alert.row.id, time, Priority(alert, time))
<1> DEFINE case == alert.row.id
           p == alert.position
           opened == [at |-> time, priority |-> Priority(alert, time), members |-> {}]
           joined == [e EXCEPT !.active = [c \in DOMAIN @ \cup {case} |-> IF c = case THEN opened ELSE @[c]]]
           assigned == [q \in DOMAIN e.assigned \cup {p} |-> IF q = p THEN case ELSE e.assigned[q]]
<1>1. Assign(e, time, alert, matched) =
         [joined EXCEPT !.active[case].members = @ \cup {p},
                        !.assigned = [q \in DOMAIN @ \cup {p} |-> IF q = p THEN case ELSE @[q]]]
  BY DEF Assign, Live
<1>2. e = [assigned |-> e.assigned, active |-> e.active, aliases |-> e.aliases]
  BY DEF Shaped
<1> DEFINE active == [c \in DOMAIN e.active \cup {case} |-> IF c = case THEN opened ELSE e.active[c]]
<1>3. joined = [assigned |-> e.assigned, active |-> active, aliases |-> e.aliases]
  <2> HIDE DEF opened, case
  <2> QED  BY <1>2
<1>4. active[case] = opened /\ case \in DOMAIN active
  OBVIOUS
<1>5. Assign(e, time, alert, matched) =
         [assigned |-> assigned,
          active |-> [active EXCEPT ![case] = [opened EXCEPT !.members = @ \cup {p}]],
          aliases |-> e.aliases]
  <2> HIDE DEF active, joined, opened, case, p
  <2>1. joined.active = active /\ joined.assigned = e.assigned /\ joined.aliases = e.aliases
    BY <1>3
  <2>2. Assign(e, time, alert, matched) =
          [joined EXCEPT !.active = [active EXCEPT ![case] = [active[case] EXCEPT !.members = @ \cup {p}]],
                         !.assigned = assigned]
    BY <1>1, <2>1
  <2> HIDE DEF assigned
  <2> QED  BY <1>3, <1>4, <2>2
<1>6. [opened EXCEPT !.members = @ \cup {p}] = [at |-> time, priority |-> Priority(alert, time), members |-> {p}]
  OBVIOUS
<1>7. [active EXCEPT ![case] = [opened EXCEPT !.members = @ \cup {p}]] =
         [c \in DOMAIN e.active \cup {case} |->
             IF c = case THEN [at |-> time, priority |-> Priority(alert, time), members |-> {p}]
             ELSE e.active[c]]
  <2> DEFINE new == [opened EXCEPT !.members = @ \cup {p}]
  <2>1. new = [at |-> time, priority |-> Priority(alert, time), members |-> {p}]
    BY <1>6
  <2> HIDE DEF new, opened, case
  <2>2. [active EXCEPT ![case] = new] =
           [c \in DOMAIN e.active \cup {case} |-> IF c = case THEN new ELSE e.active[c]]
    OBVIOUS
  <2> QED  BY <2>1, <2>2 DEF new
<1> HIDE DEF active, opened, joined
<1> QED  BY <1>5, <1>7 DEF CaseOpened, AssignedTo

LEMMA AssignJoins ==
    ASSUME NEW e, Shaped(e), NEW time, NEW alert, NEW matched, Live(e, matched) # {},
           NEW case, case = FirstCase(e, Live(e, matched)), case \in Live(e, matched)
    PROVE  Assign(e, time, alert, matched) =
              CaseJoined(e, alert.position, case, Live(e, matched) \ {case})
<1> DEFINE living == Live(e, matched)
           others == living \ {case}
           p == alert.position
           taken == MembersOf(e, others)
           assigned == [q \in DOMAIN e.assigned \cup {p} |-> IF q = p THEN case ELSE e.assigned[q]]
           merged == Merge(e, case, others)
<1>1. Assign(e, time, alert, matched) =
         [merged EXCEPT !.active[case].members = @ \cup {p},
                        !.assigned = [q \in DOMAIN @ \cup {p} |-> IF q = p THEN case ELSE @[q]]]
  BY DEF Assign, Live
<1>2. /\ e = [assigned |-> e.assigned, active |-> e.active, aliases |-> e.aliases]
      /\ case \in DOMAIN e.active
      /\ e.active[case] = [at |-> e.active[case].at, priority |-> e.active[case].priority,
                           members |-> e.active[case].members]
  BY DEF Shaped, Live
<1> DEFINE active == [c \in DOMAIN e.active \ others |->
                        IF c = case THEN [e.active[c] EXCEPT !.members = @ \cup taken] ELSE e.active[c]]
           aliases == [c \in DOMAIN e.aliases \cup others |-> IF c \in others THEN case ELSE e.aliases[c]]
<1>3. merged = [assigned |-> e.assigned, active |-> active, aliases |-> aliases]
  <2> HIDE DEF others
  <2> QED  BY DEF Merge
<1> DEFINE was == [at |-> e.active[case].at, priority |-> e.active[case].priority,
                   members |-> e.active[case].members \cup taken]
           new == [at |-> e.active[case].at, priority |-> e.active[case].priority,
                   members |-> e.active[case].members \cup taken \cup {p}]
<1>4. active[case] = was /\ case \in DOMAIN active
  <2>1. active[case] = [e.active[case] EXCEPT !.members = @ \cup taken] /\ case \in DOMAIN active
    BY <1>2
  <2> HIDE DEF taken, active
  <2> QED  BY <1>2, <2>1
<1>5. Assign(e, time, alert, matched) =
         [assigned |-> assigned,
          active |-> [active EXCEPT ![case] = [was EXCEPT !.members = @ \cup {p}]],
          aliases |-> aliases]
  <2> HIDE DEF active, aliases, was, merged, p
  <2>1. merged.active = active /\ merged.assigned = e.assigned /\ merged.aliases = aliases
    BY <1>3
  <2>2. Assign(e, time, alert, matched) =
          [merged EXCEPT !.active = [active EXCEPT ![case] = [active[case] EXCEPT !.members = @ \cup {p}]],
                         !.assigned = assigned]
    BY <1>1, <2>1
  <2> HIDE DEF assigned
  <2> QED  BY <1>3, <1>4, <2>2
<1>6. [was EXCEPT !.members = @ \cup {p}] = new
  <2> DEFINE ours == e.active[case].members \cup taken
             a == e.active[case].at
             y == e.active[case].priority
  <2>1. was = [at |-> a, priority |-> y, members |-> ours]
    OBVIOUS
  <2>2. new = [at |-> a, priority |-> y, members |-> ours \cup {p}]
    OBVIOUS
  <2> HIDE DEF was, new, ours, a, y
  <2> QED  BY <2>1, <2>2
<1>7. [active EXCEPT ![case] = new] =
         [c \in DOMAIN e.active \ others |-> IF c = case THEN new ELSE e.active[c]]
  <2> HIDE DEF new, taken, others
  <2> QED  OBVIOUS
<1>8. [c \in DOMAIN e.active \ others |-> IF c = case THEN new ELSE e.active[c]] =
      [c \in DOMAIN e.active \ others |->
          IF c = case
          THEN [at |-> e.active[c].at, priority |-> e.active[c].priority,
                members |-> e.active[c].members \cup taken \cup {p}]
          ELSE e.active[c]]
  <2> HIDE DEF taken, others, p
  <2> QED  OBVIOUS
<1> HIDE DEF active, new, was
<1>9. Assign(e, time, alert, matched) =
         [assigned |-> assigned,
          active |-> [c \in DOMAIN e.active \ others |->
                        IF c = case
                        THEN [at |-> e.active[c].at, priority |-> e.active[c].priority,
                              members |-> e.active[c].members \cup taken \cup {p}]
                        ELSE e.active[c]],
          aliases |-> aliases]
  BY <1>5, <1>6, <1>7, <1>8
<1>10. Assign(e, time, alert, matched) = CaseJoined(e, p, case, others)
  <2> HIDE DEF others, p
  <2> QED  BY <1>9 DEF CaseJoined, AssignedTo
<1> QED  BY <1>10

AssignedFor(e, rows, I, P) == DOMAIN e.assigned = {q \in P : Decisions(rows)[q].id \in I}

Longer(f, e, rows, I, P, p, case) ==
    /\ DOMAIN f = {q \in P \cup {p} : Decisions(rows)[q].id \in I}
    /\ DOMAIN f = DOMAIN e.assigned \cup {p}
    /\ f[p] = case /\ \A q \in DOMAIN e.assigned : q # p => f[q] = e.assigned[q]
    /\ Function(f)

(* A position that is added to those an engine has been given. *)
LEMMA PositionAdded ==
    ASSUME NEW e, NEW I, NEW rows, NEW P, NEW p, NEW case,
           AssignedFor(e, rows, I, P), Decisions(rows)[p].id \in I
    PROVE  Longer(AssignedTo(e, p, case), e, rows, I, P, p, case)
<1> DEFINE f == AssignedTo(e, p, case)
<1>1. f = [q \in DOMAIN e.assigned \cup {p} |-> IF q = p THEN case ELSE e.assigned[q]]
  BY DEF AssignedTo
<1>2. DOMAIN f = DOMAIN e.assigned \cup {p}
  BY <1>1
<1>3. DOMAIN e.assigned \cup {p} = {q \in P \cup {p} : Decisions(rows)[q].id \in I}
  BY DEF AssignedFor
<1> HIDE DEF f
<1>4. Function(f)
  <2>1. f = [q \in DOMAIN f |-> f[q]]
    BY <1>1
  <2> QED  BY <2>1 DEF Function
<1>5. f[p] = case /\ \A q \in DOMAIN e.assigned : q # p => f[q] = e.assigned[q]
  BY <1>1
<1> QED  BY <1>2, <1>3, <1>4, <1>5 DEF f, Longer

(* A row decides at one position, and has its own id. *)
LEMMA OneRowEach ==
    ASSUME NEW rows, Known(rows)
    PROVE  /\ \A p, q \in DOMAIN Decisions(rows) :
                 Decisions(rows)[p].id = Decisions(rows)[q].id => p = q
           /\ \A p \in DOMAIN Decisions(rows) : Decisions(rows)[p] \in Decided(rows)
           /\ \A p \in DOMAIN Decisions(rows) : Decisions(rows)[p] \in Rows
<1>1. /\ \A p \in DOMAIN Decisions(rows) : Decisions(rows)[p] \in Decided(rows)
      /\ \A p, q \in DOMAIN Decisions(rows) :
            Decisions(rows)[p] = Decisions(rows)[q] => p = q
  BY DecisionsListed
<1>2. Decided(rows) \subseteq Rows
  BY DEF Decided, Known
<1> QED  BY <1>1, <1>2, RowsTyped

OpenedRoots(e, Q, case) == [c \in Named(e) \cup {case} |-> IF c = case THEN case ELSE Q[c]]
OpenedDepth(e, depth, case) == [c \in Named(e) \cup {case} |-> IF c = case THEN 0 ELSE depth[c]]

LEMMA OpenSound ==
    ASSUME NEW rows, Known(rows), NEW I, NEW P, NEW e, NEW Q, NEW depth,
           SoundEngine(e, rows, I, P, Q, depth),
           NEW p \in DOMAIN Decisions(rows) \ P, Decisions(rows)[p].id \in I,
           NEW case, case = Decisions(rows)[p].id,
           NEW time, \E r \in Decided(rows) : time = r.decide, NEW priority \in Int
    PROVE  /\ case \notin Named(e)
           /\ SoundEngine(CaseOpened(e, p, case, time, priority), rows, I, P \cup {p},
                    OpenedRoots(e, Q, case), OpenedDepth(e, depth, case))
<1> DEFINE D == Decisions(rows)
           a == AssignedTo(e, p, case)
           new == [at |-> time, priority |-> priority, members |-> {p}]
           f == CaseOpened(e, p, case, time, priority)
           R == OpenedRoots(e, Q, case)
           deeper == OpenedDepth(e, depth, case)
           N == Named(e)
           A == DOMAIN e.active
           L == DOMAIN e.aliases
<1>1. /\ Shaped(e) /\ IsFiniteSet(A) /\ P \subseteq DOMAIN D
      /\ DOMAIN e.assigned = {q \in P : D[q].id \in I}
      /\ \A q \in DOMAIN e.assigned : e.assigned[q] \in N
      /\ \A c \in N : \E q \in DOMAIN e.assigned : D[q].id = c
      /\ \A c \in A :
            /\ e.active[c].members = {q \in DOMAIN e.assigned : Q[e.assigned[q]] = c}
            /\ \E r \in Decided(rows) : e.active[c].at = r.decide
            /\ e.active[c].priority \in Int
  BY DEF SoundEngine
<1>2. /\ A \cap L = {} /\ N = A \cup L
      /\ Q \in [N -> A] /\ depth \in [N -> Nat]
      /\ \A c \in A : Q[c] = c
      /\ \A c \in L : e.aliases[c] \in N /\ Q[c] = Q[e.aliases[c]] /\ depth[e.aliases[c]] < depth[c]
  BY DEF SoundEngine, Leads, Named
<1>3. \A q \in DOMAIN D : D[q].id = D[p].id => q = p
  BY OneRowEach
<1>4. /\ DOMAIN a = {q \in P \cup {p} : D[q].id \in I} /\ DOMAIN a = DOMAIN e.assigned \cup {p}
      /\ a[p] = case /\ \A q \in DOMAIN e.assigned : q # p => a[q] = e.assigned[q]
      /\ Function(a)
  <2>1. AssignedFor(e, rows, I, P)
    BY <1>1 DEF AssignedFor
  <2>2. Longer(a, e, rows, I, P, p, case)
    BY <2>1, PositionAdded
  <2> HIDE DEF a
  <2> QED  BY <2>2 DEF Longer
<1>5. /\ f = [assigned |-> f.assigned, active |-> f.active, aliases |-> f.aliases]
      /\ f.assigned = a /\ f.aliases = e.aliases
      /\ f.active = [c \in A \cup {case} |-> IF c = case THEN new ELSE e.active[c]]
  <2> HIDE DEF new, a
  <2> QED  BY DEF CaseOpened, new, a
<1>6. p \notin DOMAIN e.assigned
  BY <1>1
<1>7. case \notin N
  <2> HIDE DEF N
  <2> QED  BY <1>1, <1>3
<1> HIDE DEF D, a, f, N, A, L
<1>8. DOMAIN f.active = A \cup {case} /\ f.active[case] = new
      /\ \A c \in A : f.active[c] = e.active[c] /\ c # case
  <2> HIDE DEF new
  <2> QED  BY <1>2, <1>5, <1>7
<1>9. Named(f) = N \cup {case} /\ DOMAIN f.aliases = L
  BY <1>2, <1>5, <1>8 DEF Named, L
<1>10. R = [c \in N \cup {case} |-> IF c = case THEN case ELSE Q[c]]
       /\ deeper = [c \in N \cup {case} |-> IF c = case THEN 0 ELSE depth[c]]
  BY DEF OpenedRoots, OpenedDepth, N
<1> HIDE DEF R, deeper
<1>11. /\ R \in [N \cup {case} -> A \cup {case}] /\ deeper \in [N \cup {case} -> Nat]
       /\ R[case] = case
       /\ \A c \in N : R[c] = Q[c] /\ deeper[c] = depth[c]
  BY <1>2, <1>7, <1>10
<1>12. Leads(f, R, deeper)
  <2>1. (A \cup {case}) \cap L = {}
    BY <1>2, <1>7
  <2>2. \A c \in A \cup {case} : R[c] = c
    BY <1>2, <1>11
  <2>3. \A c \in L : /\ e.aliases[c] \in N \cup {case}
                     /\ R[c] = R[e.aliases[c]]
                     /\ deeper[e.aliases[c]] < deeper[c]
    BY <1>2, <1>11
  <2> QED  BY <1>5, <1>8, <1>9, <1>11, <2>1, <2>2, <2>3 DEF Leads
<1>13. Shaped(f)
  <2>1. /\ Function(e.aliases)
        /\ \A c \in A : e.active[c] = [at |-> e.active[c].at, priority |-> e.active[c].priority,
                                       members |-> e.active[c].members]
    BY <1>1 DEF Shaped, A
  <2>2. Function(f.active)
    <3>1. f.active = [c \in DOMAIN f.active |-> f.active[c]]
      <4> HIDE DEF new
      <4> QED  BY <1>5
    <3> QED  BY <3>1 DEF Function
  <2>3. new = [at |-> new.at, priority |-> new.priority, members |-> new.members]
    OBVIOUS
  <2> HIDE DEF new
  <2>4. \A c \in A \cup {case} : f.active[c] = [at |-> f.active[c].at, priority |-> f.active[c].priority,
                                                 members |-> f.active[c].members]
    BY <1>8, <2>1, <2>3
  <2> QED  BY <1>4, <1>5, <1>8, <2>1, <2>2, <2>4 DEF Shaped
<1>14. IsFiniteSet(A \cup {case})
  BY <1>1, FS_AddElement
<1>15. P \cup {p} \subseteq DOMAIN D
  BY <1>1 DEF D
<1>16. \A q \in DOMAIN a : a[q] \in N \cup {case}
  BY <1>1, <1>4
<1>17. \A c \in N \cup {case} : \E q \in DOMAIN a : D[q].id = c
  BY <1>1, <1>4 DEF D
<1>18. \A c \in A \cup {case} : f.active[c].members = {q \in DOMAIN a : R[a[q]] = c}
  <2>1. \A q \in DOMAIN e.assigned : a[q] = e.assigned[q] /\ R[a[q]] = Q[e.assigned[q]] /\ R[a[q]] \in A
    BY <1>1, <1>2, <1>4, <1>6, <1>11
  <2>2. R[a[p]] = case /\ case \notin A /\ new.members = {p}
    BY <1>2, <1>4, <1>7, <1>11
  <2>3. {q \in DOMAIN a : R[a[q]] = case} = {p}
    BY <1>4, <2>1, <2>2
  <2>4. \A c \in A : {q \in DOMAIN a : R[a[q]] = c} = {q \in DOMAIN e.assigned : Q[e.assigned[q]] = c}
    BY <1>4, <1>6, <2>1, <2>2
  <2>5. \A c \in A : f.active[c].members = {q \in DOMAIN a : R[a[q]] = c}
    BY <1>1, <1>8, <2>4
  <2>6. f.active[case].members = {q \in DOMAIN a : R[a[q]] = case}
    <3> HIDE DEF new
    <3> QED  BY <1>8, <2>2, <2>3
  <2> QED  BY <2>5, <2>6
<1>19. \A c \in A \cup {case} : /\ \E r \in Decided(rows) : f.active[c].at = r.decide
                                /\ f.active[c].priority \in Int
  <2>1. new.at = time /\ new.priority \in Int
    OBVIOUS
  <2> HIDE DEF new
  <2> QED  BY <1>1, <1>8, <2>1
<1>20. SoundEngine(f, rows, I, P \cup {p}, R, deeper)
  BY <1>4, <1>5, <1>8, <1>9, <1>12, <1>13, <1>14, <1>15, <1>16, <1>17, <1>18, <1>19 DEF SoundEngine, D
<1> QED  BY <1>7, <1>20 DEF f, N, R, deeper

JoinedRoots(e, Q, case, others) == [c \in Named(e) |-> IF Q[c] \in others THEN case ELSE Q[c]]
JoinedDepth(e, Q, depth, case, others) ==
    [c \in Named(e) |-> IF Q[c] \in others THEN depth[c] + depth[case] + 1 ELSE depth[c]]

LEMMA JoinSound ==
    ASSUME NEW rows, Known(rows), NEW I, NEW P, NEW e, NEW Q, NEW depth,
           SoundEngine(e, rows, I, P, Q, depth),
           NEW p \in DOMAIN Decisions(rows) \ P, Decisions(rows)[p].id \in I,
           NEW case \in DOMAIN e.active, NEW others, others \subseteq DOMAIN e.active \ {case}
    PROVE  SoundEngine(CaseJoined(e, p, case, others), rows, I, P \cup {p},
                 JoinedRoots(e, Q, case, others), JoinedDepth(e, Q, depth, case, others))
<1> DEFINE D == Decisions(rows)
           a == AssignedTo(e, p, case)
           joined == e.active[case].members \cup MembersOf(e, others) \cup {p}
           new == [at |-> e.active[case].at, priority |-> e.active[case].priority, members |-> joined]
           f == CaseJoined(e, p, case, others)
           R == JoinedRoots(e, Q, case, others)
           deeper == JoinedDepth(e, Q, depth, case, others)
           N == Named(e)
           A == DOMAIN e.active
           L == DOMAIN e.aliases
<1>1. /\ Shaped(e) /\ IsFiniteSet(A) /\ P \subseteq DOMAIN D
      /\ DOMAIN e.assigned = {q \in P : D[q].id \in I}
      /\ \A q \in DOMAIN e.assigned : e.assigned[q] \in N
      /\ \A c \in N : \E q \in DOMAIN e.assigned : D[q].id = c
      /\ \A c \in A :
            /\ e.active[c].members = {q \in DOMAIN e.assigned : Q[e.assigned[q]] = c}
            /\ \E r \in Decided(rows) : e.active[c].at = r.decide
            /\ e.active[c].priority \in Int
  BY DEF SoundEngine
<1>2. /\ A \cap L = {} /\ N = A \cup L
      /\ Q \in [N -> A] /\ depth \in [N -> Nat]
      /\ \A c \in A : Q[c] = c
      /\ \A c \in L : e.aliases[c] \in N /\ Q[c] = Q[e.aliases[c]] /\ depth[e.aliases[c]] < depth[c]
  BY DEF SoundEngine, Leads, Named
<1>3. case \in A /\ others \subseteq A /\ case \notin others
  OBVIOUS
<1>4. /\ DOMAIN a = {q \in P \cup {p} : D[q].id \in I} /\ DOMAIN a = DOMAIN e.assigned \cup {p}
      /\ a[p] = case /\ \A q \in DOMAIN e.assigned : q # p => a[q] = e.assigned[q]
      /\ Function(a)
  <2>1. AssignedFor(e, rows, I, P)
    BY <1>1 DEF AssignedFor
  <2>2. Longer(a, e, rows, I, P, p, case)
    BY <2>1, PositionAdded
  <2> HIDE DEF a
  <2> QED  BY <2>2 DEF Longer
<1>5. /\ f = [assigned |-> f.assigned, active |-> f.active, aliases |-> f.aliases]
      /\ f.assigned = a
      /\ f.aliases = [c \in L \cup others |-> IF c \in others THEN case ELSE e.aliases[c]]
      /\ f.active = [c \in A \ others |->
                        IF c = case THEN [at |-> e.active[c].at, priority |-> e.active[c].priority,
                                          members |-> e.active[c].members \cup MembersOf(e, others) \cup {p}]
                        ELSE e.active[c]]
  <2> HIDE DEF a
  <2> QED  BY DEF CaseJoined, a
<1>6. p \notin DOMAIN e.assigned
  BY <1>1
<1>7. joined = {q \in DOMAIN e.assigned : Q[e.assigned[q]] \in others \cup {case}} \cup {p}
  <2>1. \A d \in others \cup {case} : e.active[d].members = {q \in DOMAIN e.assigned : Q[e.assigned[q]] = d}
    BY <1>1, <1>3
  <2>2. MembersOf(e, others) = UNION {e.active[d].members : d \in others}
    BY DEF MembersOf
  <2>3. \A q : q \in MembersOf(e, others) <=> \E d \in others : q \in e.active[d].members
    BY <2>2
  <2>4. \A q : q \in joined <=> q = p \/ \E d \in others \cup {case} : q \in e.active[d].members
    BY <2>3
  <2> HIDE DEF joined
  <2> QED  BY <2>1, <2>4
<1> HIDE DEF D, a, f, N, A, L, joined
<1>8. DOMAIN f.active = A \ others /\ f.active[case] = new
      /\ \A c \in A \ others : c # case => f.active[c] = e.active[c]
  <2>1. f.active[case] = new
    BY <1>3, <1>5 DEF joined
  <2> HIDE DEF new
  <2> QED  BY <1>5, <2>1
<1>9. Named(f) = N /\ DOMAIN f.aliases = L \cup others
  BY <1>2, <1>3, <1>5, <1>8 DEF Named
<1>10. /\ R = [c \in N |-> IF Q[c] \in others THEN case ELSE Q[c]]
       /\ deeper = [c \in N |-> IF Q[c] \in others THEN depth[c] + depth[case] + 1 ELSE depth[c]]
  BY DEF JoinedRoots, JoinedDepth, N
<1> HIDE DEF R, deeper
<1>11. R \in [N -> A \ others]
  BY <1>2, <1>3, <1>10
<1>12. deeper \in [N -> Nat]
  BY <1>2, <1>3, <1>10
<1>13. \A c \in A \ others : R[c] = c
  BY <1>2, <1>10
<1>14. ASSUME NEW c \in L \cup others
       PROVE  f.aliases[c] \in N /\ R[c] = R[f.aliases[c]] /\ deeper[f.aliases[c]] < deeper[c]
  <2>1. CASE c \in others
    <3>1. f.aliases[c] = case /\ c \in N /\ case \in N /\ Q[c] = c /\ Q[case] = case
      BY <1>2, <1>3, <1>5, <2>1
    <3>2. R[c] = case /\ R[case] = case
      BY <1>3, <1>10, <2>1, <3>1
    <3>3. deeper[c] = depth[c] + depth[case] + 1 /\ deeper[case] = depth[case]
      BY <1>3, <1>10, <2>1, <3>1
    <3>4. depth[c] \in Nat /\ depth[case] \in Nat
      BY <1>2, <3>1
    <3> QED  BY <3>1, <3>2, <3>3, <3>4
  <2>2. CASE c \notin others
    <3>1. c \in L /\ c \in N /\ f.aliases[c] = e.aliases[c] /\ e.aliases[c] \in N
      BY <1>2, <1>5, <2>2
    <3>2. Q[c] = Q[e.aliases[c]] /\ depth[e.aliases[c]] < depth[c]
      BY <1>2, <3>1
    <3>3. R[c] = R[e.aliases[c]]
      BY <1>10, <3>1, <3>2
    <3>4. depth[c] \in Nat /\ depth[case] \in Nat /\ depth[e.aliases[c]] \in Nat
      BY <1>2, <1>3, <3>1
    <3>5. deeper[e.aliases[c]] < deeper[c]
      BY <1>10, <3>1, <3>2, <3>4
    <3> QED  BY <3>1, <3>3, <3>5
  <2> QED  BY <2>1, <2>2
<1>15. Leads(f, R, deeper)
  <2>1. (A \ others) \cap (L \cup others) = {}
    BY <1>2
  <2> QED  BY <1>8, <1>9, <1>11, <1>12, <1>13, <1>14, <2>1 DEF Leads
<1>16. Shaped(f)
  <2>1. \A c \in A : e.active[c] = [at |-> e.active[c].at, priority |-> e.active[c].priority,
                                     members |-> e.active[c].members]
    BY <1>1 DEF Shaped, A
  <2>2. Function(f.active)
    <3>1. f.active = [c \in DOMAIN f.active |-> f.active[c]]
      BY <1>5
    <3> QED  BY <3>1 DEF Function
  <2>3. Function(f.aliases)
    <3>1. f.aliases = [c \in DOMAIN f.aliases |-> f.aliases[c]]
      BY <1>5
    <3> QED  BY <3>1 DEF Function
  <2>4. new = [at |-> new.at, priority |-> new.priority, members |-> new.members]
    OBVIOUS
  <2> HIDE DEF new
  <2>5. \A c \in A \ others :
           f.active[c] = [at |-> f.active[c].at, priority |-> f.active[c].priority,
                          members |-> f.active[c].members]
    BY <1>8, <2>1, <2>4
  <2> QED  BY <1>4, <1>5, <1>8, <2>2, <2>3, <2>5 DEF Shaped
<1>17. IsFiniteSet(A \ others)
  BY <1>1, FS_Subset
<1>18. P \cup {p} \subseteq DOMAIN D
  BY <1>1 DEF D
<1>19. \A q \in DOMAIN a : a[q] \in N
  BY <1>1, <1>2, <1>3, <1>4
<1>20. \A c \in N : \E q \in DOMAIN a : D[q].id = c
  BY <1>1, <1>4
<1>21. \A c \in A \ others : f.active[c].members = {q \in DOMAIN a : R[a[q]] = c}
  <2>1. \A q \in DOMAIN e.assigned :
           a[q] = e.assigned[q] /\ R[a[q]] = IF Q[e.assigned[q]] \in others THEN case ELSE Q[e.assigned[q]]
    BY <1>1, <1>4, <1>6, <1>10
  <2>2. R[a[p]] = case
    BY <1>2, <1>3, <1>4, <1>13
  <2>3. {q \in DOMAIN a : R[a[q]] = case} = joined
    BY <1>4, <1>7, <2>1, <2>2
  <2>4. \A c \in A \ others : c # case =>
           {q \in DOMAIN a : R[a[q]] = c} = {q \in DOMAIN e.assigned : Q[e.assigned[q]] = c}
    BY <1>4, <2>1, <2>2
  <2>5. \A c \in A \ others : c # case => f.active[c].members = {q \in DOMAIN a : R[a[q]] = c}
    BY <1>1, <1>8, <2>4
  <2>6. new.members = joined
    OBVIOUS
  <2> HIDE DEF new
  <2> QED  BY <1>8, <2>3, <2>5, <2>6
<1>22. \A c \in A \ others : /\ \E r \in Decided(rows) : f.active[c].at = r.decide
                             /\ f.active[c].priority \in Int
  <2>1. new.at = e.active[case].at /\ new.priority = e.active[case].priority
    OBVIOUS
  <2> HIDE DEF new
  <2> QED  BY <1>1, <1>3, <1>8, <2>1
<1>23. SoundEngine(f, rows, I, P \cup {p}, R, deeper)
  BY <1>4, <1>5, <1>8, <1>9, <1>15, <1>16, <1>17, <1>18, <1>19, <1>20, <1>21, <1>22 DEF SoundEngine, D
<1> QED  BY <1>23 DEF f, R, deeper

LEMMA ComponentTyped ==
    ASSUME NEW rows, Known(rows), NEW time, NEW n
    PROVE  /\ Component(rows, time, n).size \in Nat
           /\ Component(rows, time, n).evidence \subseteq Visible(rows, time)
<1> DEFINE E == Visible(rows, time)
           C == Connected(E, n)
           M == Nodes(E) \cup {n}
<1>1. E \subseteq rows
  BY DEF Visible
<1>2. Nodes(E) \subseteq Nodes(rows)
  BY <1>1 DEF Nodes
<1>3. IsFiniteSet(M)
  <2>1. IsFiniteSet(Nodes(E))
    BY <1>2, NodesAre, FS_Subset
  <2> QED  BY <2>1, FS_AddElement
<1>4. C \subseteq M
  BY DEF Connected
<1>5. Cardinality(C) \in Nat
  <2> HIDE DEF C, M
  <2> QED  BY <1>3, <1>4, FS_Subset, FS_CardinalityType
<1>6. /\ Component(rows, time, n).size = Cardinality(C)
      /\ Component(rows, time, n).evidence = {r \in E : r.actor \in C}
  BY DEF Component
<1> HIDE DEF C
<1> QED  BY <1>5, <1>6

(* The priority of a case is a number. *)
LEMMA PriorityIsInt ==
    ASSUME NEW rows, Known(rows), NEW time \in Nat, NEW p \in DOMAIN Decisions(rows)
    PROVE  Priority(AlertOf(rows, time, p), time) \in Int
<1> DEFINE row == Decisions(rows)[p]
           C == {Component(rows, time, n) : n \in {row.actor, row.counterparty}}
           alert == AlertOf(rows, time, p)
           sizes == [k \in C |-> k.size]
           entities == SumFunctionOnSet(sizes, C)
           spread == IF entities < 2 THEN 0 ELSE IF entities > 10 THEN 8 ELSE entities - 2
           times == {r.at : r \in UNION {k.evidence : k \in C}}
           recency == IF times = {} THEN 0 ELSE 1200 \div (1 + time - Max(times))
<1>1. alert.components = C /\ alert.row = row
  BY DEF AlertOf
<1>2. Priority(alert, time) = 5400 * row.score + 225 * spread + recency
  <2> HIDE DEF alert, C, row
  <2> QED  BY <1>1 DEF Priority
<1>3. C = {Component(rows, time, row.actor), Component(rows, time, row.counterparty)}
  <2> HIDE DEF row
  <2> QED  OBVIOUS
<1>4. IsFiniteSet(C)
  <2> DEFINE k == Component(rows, time, row.actor)
             l == Component(rows, time, row.counterparty)
  <2>1. C = {k} \cup {l} /\ C = {k, l}
    BY <1>3
  <2> HIDE DEF C, k, l
  <2>2. IsFiniteSet({k})
    BY FS_Singleton
  <2>3. IsFiniteSet({k} \cup {l})
    BY <2>2, FS_AddElement
  <2> QED  BY <2>1, <2>3
<1>5. \A k \in C : k.size \in Nat /\ k.evidence \subseteq Visible(rows, time)
  <2> HIDE DEF C, row
  <2> QED  BY <1>3, ComponentTyped
<1> HIDE DEF C
<1>6. entities \in Int
  <2>1. \A k \in C : sizes[k] \in Int
    BY <1>5
  <2> HIDE DEF sizes
  <2> QED  BY <1>4, <2>1, SumIsInt
<1>7. row.score \in Nat
  <2>1. row \in Rows
    BY OneRowEach
  <2> HIDE DEF row
  <2> QED  BY <2>1, RowsTyped
<1>8. recency \in Int
  <2>1. CASE times = {}
    BY <2>1
  <2>2. CASE times # {}
    <3>1. Visible(rows, time) \subseteq Rows /\ IsFiniteSet(Visible(rows, time))
      <4>1. Visible(rows, time) \subseteq rows
        BY DEF Visible
      <4> QED  BY <4>1, FS_Subset DEF Known
    <3>2. \A r \in Visible(rows, time) : r.at \in Nat /\ r.at < time
      <4>1. \A r \in Visible(rows, time) : r.at < time
        BY DEF Visible
      <4> QED  BY <3>1, <4>1, RowsTyped
    <3> DEFINE B == UNION {k.evidence : k \in C}
               at == [r \in Visible(rows, time) |-> r.at]
    <3>3. B \subseteq Visible(rows, time)
      BY <1>5
    <3>4. \A x \in times : x \in Nat /\ x < time
      <4> HIDE DEF B
      <4> QED  BY <3>2, <3>3 DEF B
    <3>5. IsFiniteSet(times)
      <4>1. IsFiniteSet({at[r] : r \in Visible(rows, time)})
        <5> HIDE DEF at
        <5> QED  BY <3>1, ImageFinite
      <4>2. times \subseteq {at[r] : r \in Visible(rows, time)}
        <5>1. times = {r.at : r \in B}
          OBVIOUS
        <5>2. \A r \in Visible(rows, time) : at[r] = r.at
          OBVIOUS
        <5> HIDE DEF B, times, at
        <5> QED  BY <3>3, <5>1, <5>2
      <4> QED  BY <4>1, <4>2, FS_Subset
    <3> HIDE DEF times
    <3>6. Max(times) \in times
      <4>1. times \subseteq Int
        BY <3>4
      <4> QED  BY <2>2, <3>5, <4>1, MaxIs
    <3>7. 1 + time - Max(times) \in Nat \ {0}
      BY <3>4, <3>6
    <3>8. 1200 \div (1 + time - Max(times)) \in Nat
      <4> DEFINE v == 1 + time - Max(times)
      <4>1. v \in Nat \ {0} /\ 1200 \in Nat
        BY <3>7
      <4> HIDE DEF v
      <4>2. 1200 \div v \in Nat
        BY <4>1, Divided
      <4> QED  BY <4>2 DEF v
    <3> QED  BY <2>2, <3>8
  <2> HIDE DEF times, recency
  <2> QED  BY <2>1, <2>2
<1>9. spread \in Int
  <2> HIDE DEF entities
  <2> QED  BY <1>6
<1> HIDE DEF spread, recency, row, entities, times
<1> QED  BY <1>2, <1>7, <1>8, <1>9 DEF alert

-----------------------------------------------------------------------------
(* What became of the cases of an earlier engine, none opened after T: each is
   itself still, or is part of one of them that was before it. *)
Grown(was, T, e, Q) ==
    /\ T \in Nat
    /\ \A c \in DOMAIN was.active : was.active[c].at \in 0..T /\ DigestRank[c] \in Nat
    /\ \A c \in DOMAIN was.active :
          /\ c \in Named(e) /\ Q[c] \in DOMAIN was.active
          /\ e.active[Q[c]].at = was.active[Q[c]].at
          /\ e.active[Q[c]].priority = was.active[Q[c]].priority
          /\ Q[c] = c \/ CaseBefore(was, Q[c], c)
          /\ was.active[c].members \subseteq e.active[Q[c]].members
    /\ \A c \in DOMAIN e.active \ DOMAIN was.active : e.active[c].at > T

(* How an engine stands after the positions P, against an earlier one. *)
Stands(was, T, e, rows, I, P) ==
    \E Q, depth : SoundEngine(e, rows, I, P, Q, depth) /\ Grown(was, T, e, Q)

LEMMA OpenGrown ==
    ASSUME NEW was, NEW T, NEW e, NEW Q, NEW depth, Grown(was, T, e, Q), Leads(e, Q, depth),
           NEW case, case \notin Named(e), NEW p, NEW time \in Nat, T < time, NEW priority
    PROVE  Grown(was, T, CaseOpened(e, p, case, time, priority), OpenedRoots(e, Q, case))
<1> DEFINE f == CaseOpened(e, p, case, time, priority)
           R == OpenedRoots(e, Q, case)
           new == [at |-> time, priority |-> priority, members |-> {p}]
           A == DOMAIN e.active
           W == DOMAIN was.active
<1>1. /\ f.active = [c \in A \cup {case} |-> IF c = case THEN new ELSE e.active[c]]
      /\ f.aliases = e.aliases
  <2> HIDE DEF new
  <2> QED  BY DEF CaseOpened, new
<1>2. case \notin A /\ \A c \in Named(e) : c # case
  BY DEF Named
<1>3. Q \in [Named(e) -> A]
  BY DEF Leads
<1>4. \A c \in Named(e) : R[c] = Q[c]
  BY <1>2 DEF OpenedRoots
<1> HIDE DEF f, R, A
<1>5. DOMAIN f.active = A \cup {case} /\ f.active[case].at = time
      /\ \A c \in A : f.active[c] = e.active[c]
  <2>1. new.at = time
    OBVIOUS
  <2> HIDE DEF new
  <2> QED  BY <1>1, <1>2, <2>1
<1>6. Named(e) \subseteq Named(f)
  BY <1>1, <1>5 DEF Named, A
<1>7. /\ T \in Nat
      /\ \A c \in W : was.active[c].at \in 0..T /\ DigestRank[c] \in Nat
      /\ \A c \in W : /\ c \in Named(e) /\ Q[c] \in W
                      /\ e.active[Q[c]].at = was.active[Q[c]].at
                      /\ e.active[Q[c]].priority = was.active[Q[c]].priority
                      /\ Q[c] = c \/ CaseBefore(was, Q[c], c)
                      /\ was.active[c].members \subseteq e.active[Q[c]].members
      /\ \A c \in A \ W : e.active[c].at > T
  BY DEF Grown, A
<1> HIDE DEF W
<1>8. \A c \in W : /\ c \in Named(f) /\ R[c] \in W
                   /\ f.active[R[c]].at = was.active[R[c]].at
                   /\ f.active[R[c]].priority = was.active[R[c]].priority
                   /\ R[c] = c \/ CaseBefore(was, R[c], c)
                   /\ was.active[c].members \subseteq f.active[R[c]].members
  BY <1>3, <1>4, <1>5, <1>6, <1>7
<1>9. \A c \in DOMAIN f.active \ W : f.active[c].at > T
  <2>1. time > T
    BY <1>7
  <2> QED  BY <1>5, <1>7, <2>1
<1> QED  BY <1>7, <1>8, <1>9 DEF Grown, W, f, R

LEMMA JoinGrown ==
    ASSUME NEW was, NEW T, NEW e, NEW Q, NEW depth, Grown(was, T, e, Q), Leads(e, Q, depth),
           NEW case \in DOMAIN e.active, NEW others, others \subseteq DOMAIN e.active \ {case},
           \A d \in others : CaseBefore(e, case, d), NEW p,
           \A c \in DOMAIN e.active : e.active[c].at \in Nat /\ DigestRank[c] \in Nat
    PROVE  Grown(was, T, CaseJoined(e, p, case, others), JoinedRoots(e, Q, case, others))
<1> DEFINE f == CaseJoined(e, p, case, others)
           R == JoinedRoots(e, Q, case, others)
           new == [at |-> e.active[case].at, priority |-> e.active[case].priority,
                   members |-> e.active[case].members \cup MembersOf(e, others) \cup {p}]
           A == DOMAIN e.active
           W == DOMAIN was.active
<1>1. /\ f.active = [c \in A \ others |->
                       IF c = case THEN [at |-> e.active[c].at, priority |-> e.active[c].priority,
                                         members |-> e.active[c].members \cup MembersOf(e, others) \cup {p}]
                       ELSE e.active[c]]
      /\ f.aliases = [c \in DOMAIN e.aliases \cup others |->
                        IF c \in others THEN case ELSE e.aliases[c]]
  BY DEF CaseJoined
<1>2. Q \in [Named(e) -> A] /\ \A c \in A : Q[c] = c
  BY DEF Leads
<1>3. \A c \in Named(e) : R[c] = IF Q[c] \in others THEN case ELSE Q[c]
  BY DEF JoinedRoots
<1>4. A \subseteq Named(e)
  BY DEF Named
<1> HIDE DEF f, R
<1>5. DOMAIN f.active = A \ others /\ f.active[case] = new
      /\ \A c \in A \ others : c # case => f.active[c] = e.active[c]
  <2> HIDE DEF A
  <2>1. case \in A \ others
    BY DEF A
  <2>2. f.active[case] = new
    BY <1>1, <2>1
  <2> HIDE DEF new
  <2> QED  BY <1>1, <2>2
<1>6. Named(e) \subseteq Named(f)
  <2>1. DOMAIN f.aliases = DOMAIN e.aliases \cup others
    BY <1>1
  <2> QED  BY <1>5, <2>1 DEF Named
<1>7. /\ T \in Nat
      /\ \A c \in W : was.active[c].at \in 0..T /\ DigestRank[c] \in Nat
      /\ \A c \in W : /\ c \in Named(e) /\ Q[c] \in W
                      /\ e.active[Q[c]].at = was.active[Q[c]].at
                      /\ e.active[Q[c]].priority = was.active[Q[c]].priority
                      /\ Q[c] = c \/ CaseBefore(was, Q[c], c)
                      /\ was.active[c].members \subseteq e.active[Q[c]].members
      /\ \A c \in A \ W : e.active[c].at > T
  BY DEF Grown
<1>8. case \in A /\ others \subseteq A /\ case \notin others
      /\ \A c \in A : e.active[c].at \in Nat /\ DigestRank[c] \in Nat
  OBVIOUS
<1> HIDE DEF A, W
<1>9. \A c \in A \ others : /\ f.active[c].at = e.active[c].at
                            /\ f.active[c].priority = e.active[c].priority
                            /\ e.active[c].members \subseteq f.active[c].members
  <2>1. /\ new.at = e.active[case].at /\ new.priority = e.active[case].priority
        /\ e.active[case].members \subseteq new.members
    OBVIOUS
  <2> HIDE DEF new
  <2> QED  BY <1>5, <2>1
<1>10. \A d \in others : e.active[d].members \subseteq f.active[case].members
  <2>1. new.members = e.active[case].members \cup MembersOf(e, others) \cup {p}
    OBVIOUS
  <2>2. \A d \in others : e.active[d].members \subseteq MembersOf(e, others)
    BY DEF MembersOf
  <2> HIDE DEF new
  <2> QED  BY <1>5, <2>1, <2>2
<1>11. ASSUME NEW c \in W
       PROVE  /\ c \in Named(f) /\ R[c] \in W
              /\ f.active[R[c]].at = was.active[R[c]].at
              /\ f.active[R[c]].priority = was.active[R[c]].priority
              /\ R[c] = c \/ CaseBefore(was, R[c], c)
              /\ was.active[c].members \subseteq f.active[R[c]].members
  <2> DEFINE d == Q[c]
  <2>1. c \in Named(e) /\ d \in W /\ d \in A /\ d \in Named(e)
    BY <1>2, <1>4, <1>7
  <2>2. /\ e.active[d].at = was.active[d].at /\ e.active[d].priority = was.active[d].priority
        /\ d = c \/ CaseBefore(was, d, c)
        /\ was.active[c].members \subseteq e.active[d].members
    BY <1>7
  <2>3. R[c] = IF d \in others THEN case ELSE d
    BY <1>3, <2>1
  <2> HIDE DEF d
  <2>4. CASE d \notin others
    <3>1. R[c] = d /\ d \in A \ others
      BY <2>1, <2>3, <2>4
    <3> QED  BY <1>6, <1>9, <2>1, <2>2, <3>1
  <2>5. CASE d \in others
    <3>1. CaseBefore(e, case, d)
      BY <2>5
    <3>2. e.active[case].at <= e.active[d].at
      BY <1>8, <2>1, <3>1 DEF CaseBefore
    <3>3. case \in W
      <4>1. SUFFICES ASSUME case \notin W PROVE FALSE
        OBVIOUS
      <4>2. e.active[case].at > T
        BY <1>7, <1>8, <4>1
      <4>3. was.active[d].at \in 0..T
        BY <1>7, <2>1
      <4> QED  BY <1>7, <1>8, <2>2, <3>2, <4>2, <4>3
    <3>4. /\ Q[case] = case /\ e.active[case].at = was.active[case].at
          /\ e.active[case].priority = was.active[case].priority
      <4>1. Q[case] = case
        BY <1>2, <1>8
      <4> QED  BY <1>7, <3>3, <4>1
    <3>5. CaseBefore(was, case, d)
      BY <2>2, <3>1, <3>4 DEF CaseBefore
    <3>6. CaseBefore(was, case, c)
      <4>1. CASE d = c
        BY <3>5, <4>1
      <4>2. CASE CaseBefore(was, d, c)
        <5>1. /\ was.active[case].at \in Nat /\ was.active[d].at \in Nat /\ was.active[c].at \in Nat
              /\ DigestRank[case] \in Nat /\ DigestRank[d] \in Nat /\ DigestRank[c] \in Nat
          BY <1>7, <2>1, <3>3
        <5> QED  BY <3>5, <4>2, <5>1 DEF CaseBefore
      <4> QED  BY <2>2, <4>1, <4>2
    <3>7. R[c] = case /\ case \in A \ others
      BY <1>8, <2>3, <2>5
    <3>8. was.active[c].members \subseteq f.active[case].members
      BY <1>10, <2>2, <2>5
    <3> QED  BY <1>6, <1>9, <2>1, <3>3, <3>4, <3>6, <3>7, <3>8
  <2> QED  BY <2>4, <2>5
<1>12. \A c \in DOMAIN f.active \ W : f.active[c].at > T
  BY <1>5, <1>7, <1>9
<1> QED  BY <1>7, <1>11, <1>12 DEF Grown, W, f, R

LEMMA AssignStands ==
    ASSUME NEW rows, Known(rows), NEW was, NEW T, NEW e, NEW I, NEW P, Stands(was, T, e, rows, I, P),
           NEW p \in DOMAIN Decisions(rows) \ P, Decisions(rows)[p].id \in I,
           NEW time \in Nat, T < time, \E r \in Decided(rows) : time = r.decide, NEW matched
    PROVE  Stands(was, T, Assign(e, time, AlertOf(rows, time, p), matched), rows, I, P \cup {p})
<1> DEFINE alert == AlertOf(rows, time, p)
           id == Decisions(rows)[p].id
           living == Live(e, matched)
           f == Assign(e, time, alert, matched)
<1>1. PICK Q, depth : SoundEngine(e, rows, I, P, Q, depth) /\ Grown(was, T, e, Q)
  BY DEF Stands
<1>2. /\ Shaped(e) /\ Leads(e, Q, depth) /\ IsFiniteSet(DOMAIN e.active)
      /\ P \subseteq DOMAIN Decisions(rows)
      /\ DOMAIN e.assigned \subseteq P
      /\ \A c \in Named(e) : \E q \in DOMAIN e.assigned : Decisions(rows)[q].id = c
      /\ \A c \in DOMAIN e.active : \E r \in Decided(rows) : e.active[c].at = r.decide
  BY <1>1 DEF SoundEngine
<1>3. alert.position = p /\ alert.row.id = id
  BY DEF AlertOf
<1>4. \A c \in DOMAIN e.active : e.active[c].at \in Nat
  <2>1. \A r \in Decided(rows) : r.decide \in Nat
    BY RowsTyped DEF Decided, Known
  <2> QED  BY <1>2, <2>1
<1>5. /\ \A c \in DOMAIN e.active : DigestRank[c] \in Nat
      /\ \A c, d \in DOMAIN e.active : DigestRank[c] = DigestRank[d] => c = d
  <2>1. \A c \in DOMAIN e.active : \E r \in Rows : r.id = c
    BY <1>2, OneRowEach DEF Named
  <2> QED  BY <2>1, DigestsInjective
<1> HIDE DEF alert
<1>6. CASE living = {}
  <2>1. Priority(alert, time) \in Int
    BY PriorityIsInt DEF alert
  <2> DEFINE y == Priority(alert, time)
  <2>2. f = CaseOpened(e, p, id, time, y)
    <3>1. f = CaseOpened(e, alert.position, alert.row.id, time, y)
      BY <1>2, <1>6, AssignOpens
    <3> QED  BY <1>3, <3>1
  <2> HIDE DEF f, y, id
  <2>3. y \in Int
    BY <2>1 DEF y
  <2>4. /\ id \notin Named(e)
        /\ SoundEngine(CaseOpened(e, p, id, time, y), rows, I, P \cup {p},
                 OpenedRoots(e, Q, id), OpenedDepth(e, depth, id))
    <3>1. id = Decisions(rows)[p].id
      BY DEF id
    <3> QED  BY <1>1, <2>3, <3>1, OpenSound
  <2>5. Grown(was, T, CaseOpened(e, p, id, time, y), OpenedRoots(e, Q, id))
    BY <1>1, <1>2, <2>4, OpenGrown
  <2>6. Stands(was, T, CaseOpened(e, p, id, time, y), rows, I, P \cup {p})
    BY <2>4, <2>5 DEF Stands
  <2> QED  BY <2>2, <2>6 DEF f, alert
<1>7. CASE living # {}
  <2> DEFINE case == FirstCase(e, living)
             others == living \ {case}
  <2>1. living \subseteq DOMAIN e.active
    BY DEF Live
  <2>2. IsFiniteSet(living)
    <3> HIDE DEF living
    <3> QED  BY <1>2, <2>1, FS_Subset
  <2>3. case \in living /\ \A d \in others : CaseBefore(e, case, d)
    <3>1. \A c \in living : e.active[c].at \in Nat /\ DigestRank[c] \in Nat
      BY <1>4, <1>5, <2>1
    <3>2. \A c, d \in living : DigestRank[c] = DigestRank[d] => c = d
      BY <1>5, <2>1
    <3> HIDE DEF living
    <3> QED  BY <1>7, <2>2, <3>1, <3>2, FirstCaseIs
  <2>4. f = CaseJoined(e, p, case, others)
    <3>1. case = FirstCase(e, Live(e, matched)) /\ case \in Live(e, matched)
      BY <2>3
    <3>2. Live(e, matched) # {}
      BY <1>7
    <3>3. \A c : c = FirstCase(e, Live(e, matched)) /\ c \in Live(e, matched) =>
             Assign(e, time, alert, matched) =
               CaseJoined(e, alert.position, c, Live(e, matched) \ {c})
      BY <1>2, <3>2, AssignJoins
    <3> HIDE DEF case
    <3> QED  BY <1>3, <3>1, <3>3
  <2>5. case \in DOMAIN e.active /\ others \subseteq DOMAIN e.active \ {case}
    BY <2>1, <2>3
  <2> HIDE DEF f, case, others, living
  <2>6. SoundEngine(CaseJoined(e, p, case, others), rows, I, P \cup {p},
              JoinedRoots(e, Q, case, others), JoinedDepth(e, Q, depth, case, others))
    BY <1>1, <2>5, JoinSound
  <2>7. Grown(was, T, CaseJoined(e, p, case, others), JoinedRoots(e, Q, case, others))
    BY <1>1, <1>2, <1>4, <1>5, <2>3, <2>5, JoinGrown
  <2>8. Stands(was, T, CaseJoined(e, p, case, others), rows, I, P \cup {p})
    BY <2>6, <2>7 DEF Stands
  <2> QED  BY <2>4, <2>8 DEF f, alert
<1> QED  BY <1>6, <1>7 DEF alert

(* A decision that is no alert is passed over. *)
LEMMA PassStands ==
    ASSUME NEW rows, NEW was, NEW T, NEW e, NEW I, NEW P, Stands(was, T, e, rows, I, P),
           NEW p \in DOMAIN Decisions(rows), Decisions(rows)[p].id \notin I
    PROVE  Stands(was, T, e, rows, I, P \cup {p})
<1>1. PICK Q, depth : SoundEngine(e, rows, I, P, Q, depth) /\ Grown(was, T, e, Q)
  BY DEF Stands
<1>2. {q \in P \cup {p} : Decisions(rows)[q].id \in I} = {q \in P : Decisions(rows)[q].id \in I}
  OBVIOUS
<1>3. P \cup {p} \subseteq DOMAIN Decisions(rows)
  BY <1>1 DEF SoundEngine
<1>4. SoundEngine(e, rows, I, P \cup {p}, Q, depth)
  BY <1>1, <1>2, <1>3 DEF SoundEngine
<1> QED  BY <1>1, <1>4 DEF Stands

(* The alerts of a batch, one after the other. *)
Assigning(e, batch, intervened, n, after) ==
    after = [i \in 0..n |-> IF i = 0 THEN e
                    ELSE (IF batch.alerts[i].row.id \notin intervened THEN after[i - 1]
                          ELSE Assign(after[i - 1], batch.at, batch.alerts[i], Plan(e, batch.alerts[i])))]

LEMMA AssigningExists ==
    ASSUME NEW e, NEW batch, NEW intervened
    PROVE  \A n \in Nat : \E after : Assigning(e, batch, intervened, n, after)
<1> DEFINE G == {n \in Nat : \E after : Assigning(e, batch, intervened, n, after)}
<1>1. 0 \in G
  <2> DEFINE h == [i \in 0..0 |-> e]
  <2>1. Assigning(e, batch, intervened, 0, h)
    BY DEF Assigning
  <2> QED  BY <2>1
<1>2. ASSUME NEW n \in Nat, n \in G
      PROVE  n + 1 \in G
  <2>1. PICK h : Assigning(e, batch, intervened, n, h)
    BY <1>2
  <2> DEFINE next == (IF batch.alerts[(n + 1)].row.id \notin intervened THEN h[n]
                    ELSE Assign(h[n], batch.at, batch.alerts[(n + 1)], Plan(e, batch.alerts[(n + 1)])))
             g == [i \in 0..(n + 1) |-> IF i = n + 1 THEN next ELSE h[i]]
  <2>2. \A i \in 0..n : h[i] = IF i = 0 THEN e
                    ELSE (IF batch.alerts[i].row.id \notin intervened THEN h[i - 1]
                          ELSE Assign(h[i - 1], batch.at, batch.alerts[i], Plan(e, batch.alerts[i])))
    BY <2>1 DEF Assigning
  <2>3. \A i \in 0..n : g[i] = h[i]
    OBVIOUS
  <2>4. g[n + 1] = next
    OBVIOUS
  <2>5. g = [i \in 0..(n + 1) |-> g[i]]
    OBVIOUS
  <2> HIDE DEF g
  <2>6. \A i \in 0..(n + 1) : g[i] = IF i = 0 THEN e
                    ELSE (IF batch.alerts[i].row.id \notin intervened THEN g[i - 1]
                          ELSE Assign(g[i - 1], batch.at, batch.alerts[i], Plan(e, batch.alerts[i])))
    <3> SUFFICES ASSUME NEW i \in 0..(n + 1)
                 PROVE  g[i] = IF i = 0 THEN e
                    ELSE (IF batch.alerts[i].row.id \notin intervened THEN g[i - 1]
                          ELSE Assign(g[i - 1], batch.at, batch.alerts[i], Plan(e, batch.alerts[i])))
      OBVIOUS
    <3>1. CASE i = n + 1
      <4>1. i # 0 /\ i - 1 = n /\ n \in 0..n
        BY <3>1
      <4> QED  BY <2>3, <2>4, <3>1, <4>1
    <3>2. CASE i # n + 1
      <4>1. i \in 0..n /\ (i # 0 => i - 1 \in 0..n)
        BY <3>2
      <4> QED  BY <2>2, <2>3, <4>1
    <3> QED  BY <3>1, <3>2
  <2>7. Assigning(e, batch, intervened, n + 1, g)
    BY <2>5, <2>6 DEF Assigning
  <2> QED  BY <2>7
<1> HIDE DEF G
<1>3. Nat \subseteq G
  BY <1>1, <1>2, UpwardInduction
<1> QED  BY <1>3 DEF G

LEMMA BatchStands ==
    ASSUME NEW rows, Known(rows), NEW was, NEW T, NEW e, NEW I, NEW P, Stands(was, T, e, rows, I, P),
           NEW time \in Nat, T < time, Here(rows, time) # {}, P \cap Here(rows, time) = {}
    PROVE  Stands(was, T, RunBatch(e, BatchOf(rows, time), I), rows, I, P \cup Here(rows, time))
<1> DEFINE D == Decisions(rows)
           H == Here(rows, time)
           n == Cardinality(H)
           first == FirstOf(rows, time)
           batch == BatchOf(rows, time)
           a == CHOOSE after : Assigning(e, batch, I, n, after)
           F(i) == P \cup {first + j - 1 : j \in 1..i}
<1>1. /\ n \in Nat \ {0} /\ first \in Nat \ {0} /\ H = first..(first + n - 1)
  BY BatchSpan
<1>2. /\ batch.at = time /\ batch.alerts = [i \in 1..n |-> AlertOf(rows, time, first + i - 1)]
  BY DEF BatchOf
<1>3. /\ Len(batch.alerts) = n
      /\ \A i \in 1..n : batch.alerts[i] = AlertOf(rows, time, first + i - 1)
                         /\ batch.alerts[i].row.id = D[first + i - 1].id
  <2>1. \A p : AlertOf(rows, time, p).row.id = D[p].id
    BY DEF AlertOf
  <2> HIDE DEF n, first, batch, D
  <2> QED  BY <1>1, <1>2, <2>1
<1>4. Assigning(e, batch, I, n, a)
  BY <1>1, AssigningExists
<1>5. RunBatch(e, batch, I) = a[n]
  <2>1. RunBatch(e, batch, I) = (CHOOSE after : Assigning(e, batch, I, Len(batch.alerts), after))[Len(batch.alerts)]
    BY DEF RunBatch, Assigning
  <2> HIDE DEF batch, n
  <2> QED  BY <1>3, <2>1
<1>6. H \subseteq DOMAIN D /\ \A p \in H : D[p].decide = time /\ D[p] \in Decided(rows)
  BY OneRowEach DEF Here
<1>7. \E r \in Decided(rows) : time = r.decide
  <2>1. H # {}
    OBVIOUS
  <2> HIDE DEF H, D
  <2> QED  BY <1>6, <2>1
<1> HIDE DEF a, n, first, batch, H
<1>8. /\ a[0] = e
      /\ \A i \in 1..n : a[i] = IF D[first + i - 1].id \notin I THEN a[i - 1]
                                ELSE Assign(a[i - 1], time, AlertOf(rows, time, first + i - 1),
                                            Plan(e, batch.alerts[i]))
  <2>1. \A i \in 0..n : a[i] = IF i = 0 THEN e
            ELSE (IF batch.alerts[i].row.id \notin I THEN a[i - 1]
                  ELSE Assign(a[i - 1], batch.at, batch.alerts[i], Plan(e, batch.alerts[i])))
    BY <1>4 DEF Assigning
  <2>2. a[0] = e
    BY <1>1, <2>1
  <2>3. \A i \in 1..n : i \in 0..n /\ i # 0
    BY <1>1
  <2> HIDE DEF D
  <2> QED  BY <1>2, <1>3, <2>1, <2>2, <2>3
<1> DEFINE G == {i \in Nat : i <= n => Stands(was, T, a[i], rows, I, F(i))}
<1>9. 0 \in G
  <2>1. F(0) = P
    OBVIOUS
  <2> HIDE DEF F
  <2> QED  BY <1>8, <2>1
<1>10. ASSUME NEW i \in Nat, i \in G PROVE i + 1 \in G
  <2> SUFFICES ASSUME i + 1 <= n PROVE Stands(was, T, a[i + 1], rows, I, F(i + 1))
    OBVIOUS
  <2> DEFINE p == first + (i + 1) - 1
  <2>1. i + 1 \in 1..n /\ i <= n /\ (i + 1) - 1 = i /\ p \in H /\ p = first + i
    BY <1>1
  <2>2. F(i + 1) = F(i) \cup {p}
    <3>1. 1..(i + 1) = (1..i) \cup {i + 1}
      OBVIOUS
    <3> HIDE DEF H, n
    <3> QED  BY <3>1
  <2>3. p \notin F(i)
    <3>1. p \notin P
      BY <2>1 DEF H
    <3>2. \A j \in 1..i : first + j - 1 # p
      BY <1>1, <2>1
    <3> QED  BY <3>1, <3>2
  <2>4. Stands(was, T, a[i], rows, I, F(i))
    BY <1>10, <2>1
  <2>5. p \in DOMAIN Decisions(rows) \ F(i)
    BY <1>6, <2>1, <2>3 DEF D
  <2>6. a[i + 1] = IF D[p].id \notin I THEN a[i]
                   ELSE Assign(a[i], time, AlertOf(rows, time, p), Plan(e, batch.alerts[i + 1]))
    BY <1>8, <2>1
  <2> HIDE DEF F, p
  <2>7. CASE D[p].id \notin I
    <3>1. Stands(was, T, a[i], rows, I, F(i) \cup {p})
      BY <2>4, <2>5, <2>7, PassStands
    <3> QED  BY <2>2, <2>6, <2>7, <3>1
  <2>8. CASE D[p].id \in I
    <3> DEFINE plan == Plan(e, batch.alerts[i + 1])
    <3>1. Decisions(rows)[p].id \in I
      BY <2>8
    <3> HIDE DEF plan, D
    <3>2. Stands(was, T, Assign(a[i], time, AlertOf(rows, time, p), plan), rows, I, F(i) \cup {p})
      BY <1>7, <2>4, <2>5, <3>1, AssignStands
    <3> QED  BY <2>2, <2>6, <2>8, <3>2 DEF plan
  <2> QED  BY <2>7, <2>8
<1> HIDE DEF G
<1>11. Nat \subseteq G
  BY <1>9, <1>10, UpwardInduction
<1>12. Stands(was, T, a[n], rows, I, F(n))
  <2>1. n \in G /\ n <= n
    BY <1>1, <1>11
  <2> HIDE DEF F
  <2> QED  BY <2>1 DEF G
<1>13. {first + j - 1 : j \in 1..n} = H
  <2>1. \A q \in first..(first + n - 1) : q - first + 1 \in 1..n /\ q = first + (q - first + 1) - 1
    BY <1>1
  <2>2. \A j \in 1..n : first + j - 1 \in first..(first + n - 1)
    BY <1>1
  <2> QED  BY <1>1, <2>1, <2>2
<1>14. Stands(was, T, a[n], rows, I, P \cup H)
  BY <1>12, <1>13
<1> QED  BY <1>5, <1>14 DEF batch, H

(* The batches of rows, one after the other. *)
Batching(rows, intervened, n, after) ==
    after = [i \in 0..n |-> IF i = 0 THEN NewEngine
                    ELSE RunBatch(after[i - 1], Topology(rows)[i], intervened)]

LEMMA BatchingExists ==
    ASSUME NEW rows, NEW intervened
    PROVE  \A n \in Nat : \E after : Batching(rows, intervened, n, after)
<1> DEFINE G == {n \in Nat : \E after : Batching(rows, intervened, n, after)}
<1>1. 0 \in G
  <2> DEFINE h == [i \in 0..0 |-> NewEngine]
  <2>1. Batching(rows, intervened, 0, h)
    BY DEF Batching
  <2> QED  BY <2>1
<1>2. ASSUME NEW n \in Nat, n \in G
      PROVE  n + 1 \in G
  <2>1. PICK h : Batching(rows, intervened, n, h)
    BY <1>2
  <2> DEFINE next == RunBatch(h[n], Topology(rows)[(n + 1)], intervened)
             g == [i \in 0..(n + 1) |-> IF i = n + 1 THEN next ELSE h[i]]
  <2>2. \A i \in 0..n : h[i] = IF i = 0 THEN NewEngine
                    ELSE RunBatch(h[i - 1], Topology(rows)[i], intervened)
    BY <2>1 DEF Batching
  <2>3. \A i \in 0..n : g[i] = h[i]
    OBVIOUS
  <2>4. g[n + 1] = next
    OBVIOUS
  <2>5. g = [i \in 0..(n + 1) |-> g[i]]
    OBVIOUS
  <2> HIDE DEF g
  <2>6. \A i \in 0..(n + 1) : g[i] = IF i = 0 THEN NewEngine
                    ELSE RunBatch(g[i - 1], Topology(rows)[i], intervened)
    <3> SUFFICES ASSUME NEW i \in 0..(n + 1)
                 PROVE  g[i] = IF i = 0 THEN NewEngine
                    ELSE RunBatch(g[i - 1], Topology(rows)[i], intervened)
      OBVIOUS
    <3>1. CASE i = n + 1
      <4>1. i # 0 /\ i - 1 = n /\ n \in 0..n
        BY <3>1
      <4> QED  BY <2>3, <2>4, <3>1, <4>1
    <3>2. CASE i # n + 1
      <4>1. i \in 0..n /\ (i # 0 => i - 1 \in 0..n)
        BY <3>2
      <4> QED  BY <2>2, <2>3, <4>1
    <3> QED  BY <3>1, <3>2
  <2>7. Batching(rows, intervened, n + 1, g)
    BY <2>5, <2>6 DEF Batching
  <2> QED  BY <2>7
<1> HIDE DEF G
<1>3. Nat \subseteq G
  BY <1>1, <1>2, UpwardInduction
<1> QED  BY <1>3 DEF G

(* The engine after each of the batches. *)
Grouped(rows, I, a) ==
    /\ a[0] = NewEngine
    /\ \A b \in DOMAIN BatchTimes(rows) : a[b] = RunBatch(a[b - 1], BatchOf(rows, BatchTimes(rows)[b]), I)
    /\ Group(rows, I) = a[Len(BatchTimes(rows))]

LEMMA GroupRuns ==
    ASSUME NEW rows, Known(rows), NEW I
    PROVE  \E a : Grouped(rows, I, a)
<1> DEFINE n == Len(Topology(rows))
           t == BatchTimes(rows)
           a == CHOOSE after : Batching(rows, I, n, after)
<1>1. /\ n = Len(t) /\ n \in Nat /\ DOMAIN t = 1..n
      /\ \A b \in DOMAIN t : Topology(rows)[b] = BatchOf(rows, t[b])
  BY BatchesAre, TimesListedUp
<1>2. Batching(rows, I, n, a)
  BY <1>1, BatchingExists
<1>3. Group(rows, I) = a[n]
  BY DEF Group, Batching
<1> HIDE DEF a, n, t
<1>4. \A b \in 0..n : a[b] = IF b = 0 THEN NewEngine ELSE RunBatch(a[b - 1], Topology(rows)[b], I)
  BY <1>2 DEF Batching
<1>5. a[0] = NewEngine
  BY <1>1, <1>4
<1>6. ASSUME NEW b \in DOMAIN t PROVE a[b] = RunBatch(a[b - 1], BatchOf(rows, t[b]), I)
  <2>1. b \in 0..n /\ b # 0
    BY <1>1
  <2> QED  BY <1>1, <1>4, <2>1
<1> QED  BY <1>1, <1>3, <1>5, <1>6 DEF Grouped, t

(* The positions in the first of the batches. *)
UpTo(rows, k) ==
    {p \in DOMAIN Decisions(rows) : \E j \in 1..k : Decisions(rows)[p].decide = BatchTimes(rows)[j]}

LEMMA BeforeNext ==
    ASSUME NEW rows, Known(rows), NEW k \in Nat, k + 1 \in DOMAIN BatchTimes(rows)
    PROVE  /\ UpTo(rows, k + 1) = UpTo(rows, k) \cup Here(rows, BatchTimes(rows)[k + 1])
           /\ UpTo(rows, k) \cap Here(rows, BatchTimes(rows)[k + 1]) = {}
<1> DEFINE D == Decisions(rows)
           t == BatchTimes(rows)
<1>1. Here(rows, t[k + 1]) = {p \in DOMAIN D : D[p].decide = t[k + 1]}
  BY DEF Here
<1>2. \A m \in Nat : UpTo(rows, m) = {p \in DOMAIN D : \E j \in 1..m : D[p].decide = t[j]}
  BY DEF UpTo
<1>3. k + 1 \in Nat /\ 1..(k + 1) = (1..k) \cup {k + 1}
  OBVIOUS
<1>4. \A j \in 1..k : j \in DOMAIN t /\ j < k + 1
  BY TimesListedUp
<1>5. \A j \in 1..k : t[j] # t[k + 1]
  <2>1. \A i, j \in DOMAIN t : i < j => t[i] < t[j]
    BY TimesListedUp
  <2>2. \A i \in DOMAIN t : t[i] \in Nat
    BY TimesListedUp
  <2> HIDE DEF t
  <2> QED  BY <1>4, <2>1, <2>2 DEF t
<1> HIDE DEF D, t
<1>6. UpTo(rows, k + 1) = UpTo(rows, k) \cup Here(rows, t[k + 1])
  BY <1>1, <1>2, <1>3
<1>7. UpTo(rows, k) \cap Here(rows, t[k + 1]) = {}
  BY <1>1, <1>2, <1>5
<1> QED  BY <1>6, <1>7 DEF t

LEMMA BeforeAll ==
    ASSUME NEW rows, Known(rows)
    PROVE  /\ UpTo(rows, 0) = {}
           /\ UpTo(rows, Len(BatchTimes(rows))) = DOMAIN Decisions(rows)
<1> DEFINE D == Decisions(rows)
           t == BatchTimes(rows)
<1>1. UpTo(rows, 0) = {}
  BY DEF UpTo
<1>2. \A p \in DOMAIN D : \E j \in 1..Len(t) : D[p].decide = t[j]
  <2>1. \A p \in DOMAIN D : D[p] \in Decided(rows)
    BY OneRowEach
  <2>2. DOMAIN t = 1..Len(t) /\ \A r \in Decided(rows) : \E j \in DOMAIN t : t[j] = r.decide
    BY TimesListedUp
  <2> HIDE DEF D, t
  <2> QED  BY <2>1, <2>2
<1> QED  BY <1>1, <1>2 DEF UpTo

LEMMA NewStands ==
    ASSUME NEW rows, NEW I
    PROVE  Stands(NewEngine, 0, NewEngine, rows, I, {})
<1> DEFINE e == NewEngine
           Q == [c \in {} |-> c]
           depth == [c \in {} |-> 0]
<1>1. e = [assigned |-> <<>>, active |-> <<>>, aliases |-> <<>>] /\ DOMAIN <<>> = {}
  BY DEF NewEngine
<1>2. Function(<<>>)
  <2>1. <<>> = [x \in {} |-> x]
    OBVIOUS
  <2> QED  BY <1>1, <2>1 DEF Function
<1> HIDE DEF e
<1>3. e.assigned = <<>> /\ e.active = <<>> /\ e.aliases = <<>>
  BY <1>1
<1>4. Named(e) = {}
  BY <1>1, <1>3 DEF Named
<1>5. Shaped(e)
  BY <1>1, <1>2, <1>3 DEF Shaped
<1>6. Leads(e, Q, depth)
  BY <1>1, <1>3, <1>4 DEF Leads
<1>7. SoundEngine(e, rows, I, {}, Q, depth)
  BY <1>1, <1>3, <1>4, <1>5, <1>6, FS_EmptySet DEF SoundEngine
<1>8. Grown(e, 0, e, Q)
  BY <1>1, <1>3 DEF Grown
<1> QED  BY <1>7, <1>8 DEF Stands, e

LEMMA RunStands ==
    ASSUME NEW rows, Known(rows), NEW I, NEW a, Grouped(rows, I, a), NEW was, NEW T \in Nat,
           NEW k \in 0..Len(BatchTimes(rows)), Stands(was, T, a[k], rows, I, UpTo(rows, k)),
           NEW m \in k..Len(BatchTimes(rows)), \A j \in (k + 1)..m : T < BatchTimes(rows)[j]
    PROVE  Stands(was, T, a[m], rows, I, UpTo(rows, m))
<1> DEFINE t == BatchTimes(rows)
           n == Len(t)
           G == {i \in Nat : k + i <= m => Stands(was, T, a[k + i], rows, I, UpTo(rows, k + i))}
<1>1. n \in Nat /\ DOMAIN t = 1..n /\ \A j \in DOMAIN t : t[j] \in Nat
  BY TimesListedUp
<1> HIDE DEF t, n
<1>2. k \in Nat /\ m \in Nat /\ k <= m /\ m <= n
  BY <1>1 DEF n, t
<1>3. 0 \in G
  <2>1. k + 0 = k
    BY <1>2
  <2> QED  BY <2>1
<1>4. ASSUME NEW i \in Nat, i \in G PROVE i + 1 \in G
  <2> SUFFICES ASSUME k + (i + 1) <= m
               PROVE  Stands(was, T, a[k + (i + 1)], rows, I, UpTo(rows, k + (i + 1)))
    OBVIOUS
  <2> DEFINE b == k + i
             time == t[b + 1]
  <2>1. b \in Nat /\ b <= m /\ k + (i + 1) = b + 1 /\ b + 1 \in 1..n /\ b + 1 \in (k + 1)..m /\ (b + 1) - 1 = b
    BY <1>1, <1>2
  <2>2. Stands(was, T, a[b], rows, I, UpTo(rows, b))
    BY <1>4, <2>1
  <2> HIDE DEF b
  <2>3. b + 1 \in DOMAIN t
    BY <1>1, <2>1
  <2>4. time \in Nat /\ T < time
    BY <1>1, <2>1, <2>3 DEF n, t
  <2>5. a[b + 1] = RunBatch(a[b], BatchOf(rows, time), I)
    BY <2>1, <2>3 DEF Grouped, t
  <2>6. Here(rows, time) # {}
    BY <2>3, BatchesAre DEF t
  <2>7. /\ UpTo(rows, b + 1) = UpTo(rows, b) \cup Here(rows, time)
        /\ UpTo(rows, b) \cap Here(rows, time) = {}
    BY <2>1, <2>3, BeforeNext DEF t
  <2> HIDE DEF time
  <2>8. Stands(was, T, RunBatch(a[b], BatchOf(rows, time), I), rows, I, UpTo(rows, b) \cup Here(rows, time))
    BY <2>2, <2>4, <2>6, <2>7, BatchStands
  <2> QED  BY <2>1, <2>5, <2>7, <2>8
<1> HIDE DEF G
<1>5. Nat \subseteq G
  BY <1>3, <1>4, UpwardInduction
<1>6. m - k \in Nat /\ k + (m - k) = m /\ m <= m
  BY <1>2
<1>7. m - k \in G
  BY <1>5, <1>6
<1> QED  BY <1>6, <1>7 DEF G

LEMMA GroupStands ==
    ASSUME NEW rows, Known(rows), NEW I
    PROVE  Stands(NewEngine, 0, Group(rows, I), rows, I, DOMAIN Decisions(rows))
<1>1. PICK a : Grouped(rows, I, a)
  BY GroupRuns
<1> DEFINE n == Len(BatchTimes(rows))
<1>2. n \in Nat /\ DOMAIN BatchTimes(rows) = 1..n /\ \A j \in DOMAIN BatchTimes(rows) : BatchTimes(rows)[j] \in Nat \ {0}
  BY TimesListedUp
<1>3. Stands(NewEngine, 0, a[0], rows, I, UpTo(rows, 0))
  BY <1>1, NewStands, BeforeAll DEF Grouped
<1>4. 0 \in 0..n /\ 0 \in Nat
  BY <1>2
<1>5. \A j \in (0 + 1)..n : 0 < BatchTimes(rows)[j]
  BY <1>2
<1>6. n \in 0..n
  BY <1>2
<1> HIDE DEF n
<1>7. Stands(NewEngine, 0, a[n], rows, I, UpTo(rows, n))
  BY <1>1, <1>3, <1>4, <1>5, <1>6, RunStands DEF n
<1>8. UpTo(rows, n) = DOMAIN Decisions(rows) /\ Group(rows, I) = a[n]
  BY <1>1, BeforeAll DEF Grouped, n
<1> QED  BY <1>7, <1>8

(* Every alert is in one case. *)
LEMMA OnceIn ==
    ASSUME NEW rows, NEW I, NEW was, NEW T, NEW e, Stands(was, T, e, rows, I, DOMAIN Decisions(rows))
    PROVE  /\ DOMAIN e.assigned = {p \in DOMAIN Decisions(rows) : Decisions(rows)[p].id \in I}
           /\ \A p \in DOMAIN e.assigned, c \in DOMAIN e.active :
                 p \in e.active[c].members <=> Resolve(e, e.assigned[p]) = c
           /\ \A p \in DOMAIN e.assigned : Resolve(e, e.assigned[p]) \in DOMAIN e.active
<1>1. PICK Q, depth : SoundEngine(e, rows, I, DOMAIN Decisions(rows), Q, depth)
  BY DEF Stands
<1>2. /\ DOMAIN e.assigned = {p \in DOMAIN Decisions(rows) : Decisions(rows)[p].id \in I}
      /\ Leads(e, Q, depth)
      /\ \A p \in DOMAIN e.assigned : e.assigned[p] \in Named(e)
      /\ \A c \in DOMAIN e.active :
            e.active[c].members = {p \in DOMAIN e.assigned : Q[e.assigned[p]] = c}
  BY <1>1 DEF SoundEngine
<1>3. \A p \in DOMAIN e.assigned : Resolve(e, e.assigned[p]) = Q[e.assigned[p]]
  BY <1>2, ResolveIs
<1>4. \A p \in DOMAIN e.assigned : Q[e.assigned[p]] \in DOMAIN e.active
  BY <1>2 DEF Leads
<1> QED  BY <1>2, <1>3, <1>4

(* The cases can be queued. *)
LEMMA ArrivalQueueable ==
    ASSUME NEW rows, Known(rows), \A r \in rows : r.decide <= MaxTime,
           NEW I, NEW was, NEW T, NEW e, Stands(was, T, e, rows, I, DOMAIN Decisions(rows))
    PROVE  Queueable(Arrival(e)) /\ \A a \in Arrival(e) : a.opened <= MaxTime
<1> DEFINE A == DOMAIN e.active
           f == [c \in A |-> [id |-> c, opened |-> e.active[c].at, priority |-> e.active[c].priority]]
           S == Arrival(e)
<1>1. PICK Q, depth : SoundEngine(e, rows, I, DOMAIN Decisions(rows), Q, depth)
  BY DEF Stands
<1>2. /\ IsFiniteSet(A) /\ DOMAIN e.assigned \subseteq DOMAIN Decisions(rows)
      /\ \A c \in Named(e) : \E p \in DOMAIN e.assigned : Decisions(rows)[p].id = c
      /\ \A c \in A : (\E r \in Decided(rows) : e.active[c].at = r.decide) /\ e.active[c].priority \in Int
  BY <1>1 DEF SoundEngine
<1>3. S = {f[c] : c \in A}
  <2>1. \A c \in A : f[c] = [id |-> c, opened |-> e.active[c].at, priority |-> e.active[c].priority]
    OBVIOUS
  <2>2. S = {[id |-> c, opened |-> e.active[c].at, priority |-> e.active[c].priority] : c \in A}
    BY DEF Arrival
  <2> HIDE DEF f, S, A
  <2> QED  BY <2>1, <2>2
<1>4. IsFiniteSet(S)
  <2> HIDE DEF f, S, A
  <2> QED  BY <1>2, <1>3, ImageFinite
<1>5. \A c \in A : e.active[c].at \in Nat /\ e.active[c].at <= MaxTime
  <2>1. \A r \in Decided(rows) : r.decide \in Nat /\ r.decide <= MaxTime
    BY RowsTyped DEF Decided, Known
  <2> QED  BY <1>2, <2>1
<1>6. /\ \A c \in A : DigestRank[c] \in Nat
      /\ \A c, d \in A : DigestRank[c] = DigestRank[d] => c = d
  <2>1. \A c \in A : \E r \in Rows : r.id = c
    BY <1>2, OneRowEach DEF Named
  <2> QED  BY <2>1, DigestsInjective
<1>7. ASSUME NEW s \in S
      PROVE  \E c \in A : s = f[c] /\ s.id = c /\ s.opened = e.active[c].at /\ s.priority = e.active[c].priority
  <2>1. PICK c \in A : s = f[c]
    <3> HIDE DEF f, S, A
    <3> QED  BY <1>3
  <2>2. s.id = c /\ s.opened = e.active[c].at /\ s.priority = e.active[c].priority
    BY <2>1
  <2> HIDE DEF f
  <2> QED  BY <2>1, <2>2
<1> HIDE DEF S, A, f
<1>8. \A s \in S : s.opened \in Nat /\ s.priority \in Int /\ DigestRank[s.id] \in Nat /\ s.opened <= MaxTime
  BY <1>2, <1>5, <1>6, <1>7
<1>9. \A s, u \in S : DigestRank[s.id] = DigestRank[u.id] => s = u
  <2> SUFFICES ASSUME NEW s \in S, NEW u \in S, DigestRank[s.id] = DigestRank[u.id] PROVE s = u
    OBVIOUS
  <2>1. PICK c \in A : s = f[c] /\ s.id = c
    BY <1>7
  <2>2. PICK d \in A : u = f[d] /\ u.id = d
    BY <1>7
  <2> QED  BY <1>6, <2>1, <2>2
<1> QED  BY <1>4, <1>8, <1>9 DEF Queueable, S
-----------------------------------------------------------------------------
(* THE CALLS of group_cases. *)
(* What holds between two calls of group_cases. *)
CaseInv ==
    /\ now \in Nat /\ now <= MaxTime
    /\ Known(seen) /\ \A r \in seen : KnownAt(r) <= now
    /\ engine = Group(seen, alerts)

LEMMA GroupOfNothing ==
    ASSUME NEW I
    PROVE  Known({}) /\ Group({}, I) = NewEngine
<1>1. Known({})
  BY FS_EmptySet DEF Known
<1>2. Len(BatchTimes({})) = 0
  <2>1. Len(BatchTimes({})) \in Nat /\ DOMAIN BatchTimes({}) = 1..Len(BatchTimes({}))
        /\ \A i \in DOMAIN BatchTimes({}) : \E r \in Decided({}) : r.decide = BatchTimes({})[i]
    BY <1>1, TimesListedUp
  <2>2. Decided({}) = {}
    BY DEF Decided
  <2>3. DOMAIN BatchTimes({}) = {}
    BY <2>1, <2>2
  <2> QED  BY <2>1, <2>3
<1>3. PICK a : Grouped({}, I, a)
  BY <1>1, GroupRuns
<1> QED  BY <1>1, <1>2, <1>3 DEF Grouped

LEMMA CaseInvStart == CaseInit => CaseInv
<1> SUFFICES ASSUME CaseInit PROVE CaseInv
  OBVIOUS
<1>1. Known({}) /\ Group({}, {}) = NewEngine
  BY GroupOfNothing
<1> QED  BY <1>1, RowsTyped DEF CaseInit, CaseInv

(* What an advance knows next. *)
LEMMA Learned ==
    ASSUME CaseInv, CaseNext
    PROVE  \E new, raised :
              /\ seen' = seen \cup new /\ alerts' = alerts \cup raised
              /\ \A r \in new : r \in Rows /\ KnownAt(r) = now + 1
              /\ \A i \in raised : \E r \in new : r.id = i
              /\ IsFiniteSet(new) /\ now' = now + 1 /\ engine' = Group(seen', alerts')
<1>1. PICK new \in SUBSET {r \in Rows : KnownAt(r) = now + 1} :
      \E raised \in SUBSET {r.id : r \in {s \in new : s.decide # 0}} :
            /\ IsFiniteSet(new) /\ now' = now + 1 /\ seen' = seen \cup new
            /\ alerts' = alerts \cup raised /\ engine' = Group(seen', alerts')
  BY DEF CaseNext, Advance
<1>2. PICK raised \in SUBSET {r.id : r \in {s \in new : s.decide # 0}} :
            /\ IsFiniteSet(new) /\ now' = now + 1 /\ seen' = seen \cup new
            /\ alerts' = alerts \cup raised /\ engine' = Group(seen', alerts')
  BY <1>1
<1>3. \A r \in new : r \in Rows /\ KnownAt(r) = now + 1
  OBVIOUS
<1>4. \A i \in raised : \E r \in new : r.id = i
  OBVIOUS
<1> QED  BY <1>2, <1>3, <1>4

LEMMA CaseInvKept == CaseInv /\ [CaseNext]_caseVars => CaseInv'
<1> SUFFICES ASSUME CaseInv, [CaseNext]_caseVars PROVE CaseInv'
  OBVIOUS
<1>1. CASE CaseNext
  <2>1. PICK new, raised :
              /\ seen' = seen \cup new /\ alerts' = alerts \cup raised
              /\ \A r \in new : r \in Rows /\ KnownAt(r) = now + 1
              /\ \A i \in raised : \E r \in new : r.id = i
              /\ IsFiniteSet(new) /\ now' = now + 1 /\ engine' = Group(seen', alerts')
    BY <1>1, Learned
  <2>2. now' \in Nat /\ now' <= MaxTime
    BY <1>1, <2>1, RowsTyped DEF CaseNext, CaseInv
  <2>3. Known(seen')
    BY <2>1, FS_Union DEF CaseInv, Known
  <2>4. \A r \in seen' : KnownAt(r) <= now'
    <3>1. \A r \in seen : KnownAt(r) \in Nat
      BY RowsTyped DEF CaseInv, Known, KnownAt
    <3> QED  BY <2>1, <3>1 DEF CaseInv
  <2> QED  BY <2>1, <2>2, <2>3, <2>4 DEF CaseInv
<1>2. CASE UNCHANGED caseVars
  BY <1>2 DEF caseVars, CaseInv
<1> QED  BY <1>1, <1>2

(* group_cases, called again whenever something has become known: the engine is
   the one that a call with everything known builds, whatever was known before. *)
THEOREM CaseInvHolds == CaseSpec => []CaseInv
<1>1. CaseInit => CaseInv
  BY CaseInvStart
<1>2. CaseInv /\ [CaseNext]_caseVars => CaseInv'
  BY CaseInvKept
<1> QED  BY <1>1, <1>2, PTL DEF CaseSpec

(* ComponentsExact, for any observations: one union-find, carried down a tree of
   intervals and rolled back on the way up (_build_causal_topology), finds at
   every decision the components that a search of the graph of all that was
   available before it would find, without its own batch. *)
THEOREM ComponentsAlwaysExact == CaseSpec => []ComponentsExact
<1>1. CaseInv => ComponentsExact
  <2> SUFFICES ASSUME CaseInv PROVE ComponentsExact
    OBVIOUS
  <2>1. Known(seen)
    BY DEF CaseInv
  <2> QED  BY <2>1, ComponentsAre DEF ComponentsExact
<1> QED  BY <1>1, CaseInvHolds, PTL

(* AssignedOnce, for any observations: an alert is a member of one case, the one
   that resolve() leads to through all merges since, so that matching_ids may go
   through the members or through the cases. *)
THEOREM AlertsAssignedOnce == CaseSpec => []AssignedOnce
<1>1. CaseInv => AssignedOnce
  <2> SUFFICES ASSUME CaseInv PROVE AssignedOnce
    OBVIOUS
  <2>1. Stands(NewEngine, 0, engine, seen, alerts, DOMAIN Decisions(seen))
    BY GroupStands DEF CaseInv
  <2>2. /\ DOMAIN engine.assigned = {p \in DOMAIN Decisions(seen) : Decisions(seen)[p].id \in alerts}
        /\ \A p \in DOMAIN engine.assigned, c \in DOMAIN engine.active :
              p \in engine.active[c].members <=> Resolve(engine, engine.assigned[p]) = c
        /\ \A p \in DOMAIN engine.assigned : Resolve(engine, engine.assigned[p]) \in DOMAIN engine.active
    BY <2>1, OnceIn
  <2> QED  BY <2>2 DEF AssignedOnce
<1> QED  BY <1>1, CaseInvHolds, PTL

(* FirstComeFirstServed, for any observations and configurations: though
   _allocate_snapshots remembers one slot only, no analyst is idle next to a case
   that waits, and _peak_backlog, which looks at arrivals only, finds the peak. *)
THEOREM AlwaysServedInOrder == CaseSpec => []FirstComeFirstServed
<1>1. CaseInv => FirstComeFirstServed
  <2> SUFFICES ASSUME CaseInv PROVE FirstComeFirstServed
    OBVIOUS
  <2>1. Stands(NewEngine, 0, engine, seen, alerts, DOMAIN Decisions(seen))
    BY GroupStands DEF CaseInv
  <2>2. Known(seen) /\ \A r \in seen : r.decide <= MaxTime
    <3>1. \A r \in seen : r.decide \in Nat /\ KnownAt(r) <= now
      BY RowsTyped DEF CaseInv, Known
    <3> QED  BY <3>1, RowsTyped DEF CaseInv, KnownAt
  <2>3. Queueable(Arrival(engine)) /\ \A a \in Arrival(engine) : a.opened <= MaxTime
    BY <2>1, <2>2, ArrivalQueueable
  <2>4. \A config \in Configs : /\ NoneIdle(Snapshots(Arrival(engine), config), config)
                                /\ PeakIsPeak(Snapshots(Arrival(engine), config), config)
    BY <2>3, ServedInOrder
  <2> QED  BY <2>4 DEF FirstComeFirstServed
<1> QED  BY <1>1, CaseInvHolds, PTL

(* What sorts behind a list only makes it longer. *)
LEMMA ListPrefix ==
    ASSUME NEW S, NEW R, Orders(R, S), NEW q, Lists(q, S, R),
           NEW S2, NEW R2, Orders(R2, S2), NEW q2, Lists(q2, S2, R2), S \subseteq S2,
           \A x, y \in S : <<x, y>> \in R <=> <<x, y>> \in R2,
           \A x \in S : \A y \in S2 \ S : <<x, y>> \in R2
    PROVE  /\ Len(q) <= Len(q2)
           /\ \A i \in 1..Len(q) : q2[i] = q[i]
           /\ \A i \in 1..Len(q2) : i > Len(q) => q2[i] \in S2 \ S
<1>1. /\ Len(q) \in Nat
      /\ \A i \in 1..Len(q) : q[i] \in S /\ Rank(R, S, q[i]) = i - 1
      /\ \A e \in S : \E i \in 1..Len(q) : q[i] = e
  <2>1. \A e \in S : \E i \in 1..Len(q) : q[i] = e
    BY DEF Lists
  <2> QED  BY <2>1, RankInList
<1>2. /\ Len(q2) \in Nat
      /\ \A i \in 1..Len(q2) : q2[i] \in S2 /\ Rank(R2, S2, q2[i]) = i - 1
      /\ \A i, j \in 1..Len(q2) : q2[i] = q2[j] => i = j
      /\ \A e \in S2 : \E i \in 1..Len(q2) : q2[i] = e
  <2>1. \A e \in S2 : \E i \in 1..Len(q2) : q2[i] = e
    BY DEF Lists
  <2> QED  BY <2>1, RankInList
<1>3. \A e \in S : Rank(R2, S2, e) = Rank(R, S, e)
  <2> SUFFICES ASSUME NEW e \in S PROVE Below(R2, S2, e) = Below(R, S, e)
    BY DEF Rank
  <2>1. \A f \in S2 \ S : <<f, e>> \notin R2
    BY DEF Orders
  <2>2. \A f \in S : <<f, e>> \in R <=> <<f, e>> \in R2
    OBVIOUS
  <2> QED  BY <2>1, <2>2 DEF Below
<1>4. ASSUME NEW i \in 1..Len(q) PROVE i \in 1..Len(q2) /\ q2[i] = q[i]
  <2>1. q[i] \in S /\ q[i] \in S2 /\ Rank(R, S, q[i]) = i - 1
    BY <1>1
  <2>2. PICK j \in 1..Len(q2) : q2[j] = q[i]
    BY <1>2, <2>1
  <2>3. Rank(R2, S2, q[i]) = j - 1 /\ Rank(R2, S2, q[i]) = i - 1
    BY <1>2, <1>3, <2>1, <2>2
  <2>4. j = i
    BY <1>1, <1>2, <2>3
  <2> QED  BY <2>2, <2>4
<1>5. Len(q) <= Len(q2)
  <2>1. CASE Len(q) = 0
    BY <1>2, <2>1
  <2>2. CASE Len(q) # 0
    <3>1. Len(q) \in 1..Len(q)
      BY <1>1, <2>2
    <3>2. Len(q) \in 1..Len(q2)
      BY <1>4, <3>1
    <3> QED  BY <1>2, <3>2
  <2> QED  BY <2>1, <2>2
<1>6. ASSUME NEW i \in 1..Len(q2), i > Len(q), q2[i] \in S PROVE FALSE
  <2>1. PICK j \in 1..Len(q) : q[j] = q2[i]
    BY <1>1, <1>6
  <2>2. j \in 1..Len(q2) /\ q2[j] = q2[i]
    BY <1>4, <2>1
  <2>3. j = i
    BY <1>2, <2>2
  <2> QED  BY <1>1, <1>6, <2>3
<1> QED  BY <1>2, <1>4, <1>5, <1>6

(* more is what is known when all decisions of rows lie before those added, and
   nothing added was available before one of them. *)
Extends(rows, more, T) ==
    /\ Known(rows) /\ Known(more) /\ rows \subseteq more /\ T \in Nat
    /\ \A s \in rows : s.decide <= T
    /\ \A r \in more \ rows : r.decide = 0 \/ r.decide > T
    /\ \A r \in more \ rows : \A s \in rows : r.at >= s.decide

LEMMA DecisionsKept ==
    ASSUME NEW rows, NEW more, NEW T, Extends(rows, more, T)
    PROVE  /\ DOMAIN Decisions(rows) \subseteq DOMAIN Decisions(more)
           /\ \A p \in DOMAIN Decisions(rows) : Decisions(more)[p] = Decisions(rows)[p]
           /\ \A p \in DOMAIN Decisions(more) \ DOMAIN Decisions(rows) : Decisions(more)[p].decide > T
<1> DEFINE S == Decided(rows)
           S2 == Decided(more)
           R == InEarlier(S)
           R2 == InEarlier(S2)
           q == Decisions(rows)
           q2 == Decisions(more)
<1>1. /\ rows \subseteq more /\ more \subseteq Rows /\ T \in Nat
      /\ IsFiniteSet(rows) /\ IsFiniteSet(more)
      /\ \A s \in rows : s.decide <= T
      /\ \A r \in more \ rows : r.decide = 0 \/ r.decide > T
  BY DEF Extends, Known
<1>2. /\ S \subseteq S2 /\ S2 \subseteq Rows /\ IsFiniteSet(S) /\ IsFiniteSet(S2)
      /\ \A x \in S : x.decide <= T
      /\ \A y \in S2 \ S : y.decide > T
  <2>1. S \subseteq rows /\ S2 \subseteq more
    BY DEF Decided
  <2>2. IsFiniteSet(S) /\ IsFiniteSet(S2)
    BY <1>1, <2>1, FS_Subset
  <2> QED  BY <1>1, <2>1, <2>2 DEF Decided
<1>3. q = Sorted(S, Earlier) /\ q2 = Sorted(S2, Earlier)
  BY DEF Decisions, Decided
<1> HIDE DEF S, S2, q, q2
<1>4. /\ \A x, y \in S : <<x, y>> \in R <=> Earlier(x, y)
      /\ \A x, y \in S2 : <<x, y>> \in R2 <=> Earlier(x, y)
  BY DEF InEarlier
<1> HIDE DEF R, R2
<1>5. Lists(q, S, R) /\ Orders(R, S)
  BY <1>1, <1>2, <1>3, SortedEarlier DEF R
<1>6. Lists(q2, S2, R2) /\ Orders(R2, S2)
  BY <1>1, <1>2, <1>3, SortedEarlier DEF R2
<1>7. \A x, y \in S : <<x, y>> \in R <=> <<x, y>> \in R2
  BY <1>2, <1>4
<1>8. \A x \in S : \A y \in S2 \ S : <<x, y>> \in R2
  <2>1. \A x \in S2 : x.decide \in Nat
    BY <1>2, RowsTyped
  <2>2. \A x \in S : \A y \in S2 \ S : x.decide < y.decide
    BY <1>1, <1>2, <2>1
  <2> QED  BY <1>2, <1>4, <2>2 DEF Earlier
<1>9. /\ Len(q) <= Len(q2)
      /\ \A i \in 1..Len(q) : q2[i] = q[i]
      /\ \A i \in 1..Len(q2) : i > Len(q) => q2[i] \in S2 \ S
  BY <1>2, <1>5, <1>6, <1>7, <1>8, ListPrefix
<1>10. DOMAIN q = 1..Len(q) /\ DOMAIN q2 = 1..Len(q2) /\ Len(q) \in Nat /\ Len(q2) \in Nat
  BY DecisionsListed DEF Extends, q, q2
<1>11. /\ DOMAIN q \subseteq DOMAIN q2
       /\ \A p \in DOMAIN q : q2[p] = q[p]
       /\ \A p \in DOMAIN q2 \ DOMAIN q : q2[p].decide > T
  BY <1>2, <1>9, <1>10
<1> QED  BY <1>11 DEF q, q2

LEMMA TimesKept ==
    ASSUME NEW rows, NEW more, NEW T, Extends(rows, more, T)
    PROVE  /\ Len(BatchTimes(rows)) <= Len(BatchTimes(more))
           /\ \A i \in DOMAIN BatchTimes(rows) : BatchTimes(more)[i] = BatchTimes(rows)[i]
           /\ \A i \in DOMAIN BatchTimes(more) : i > Len(BatchTimes(rows)) => BatchTimes(more)[i] > T
<1> DEFINE S == {r.decide : r \in Decided(rows)}
           S2 == {r.decide : r \in Decided(more)}
           R == InTime(S)
           R2 == InTime(S2)
           q == BatchTimes(rows)
           q2 == BatchTimes(more)
<1>1. /\ rows \subseteq more /\ more \subseteq Rows /\ T \in Nat
      /\ IsFiniteSet(rows) /\ IsFiniteSet(more)
      /\ \A s \in rows : s.decide <= T
      /\ \A r \in more \ rows : r.decide = 0 \/ r.decide > T
  BY DEF Extends, Known
<1>2. /\ S \subseteq S2 /\ S2 \subseteq Nat
      /\ \A x \in S : x <= T
      /\ \A y \in S2 \ S : y > T
  BY <1>1, RowsTyped DEF Decided
<1>3. q = Sorted(S, <) /\ q2 = Sorted(S2, <) /\ IsFiniteSet(S) /\ IsFiniteSet(S2)
  <2>1. IsFiniteSet(Decided(rows)) /\ IsFiniteSet(Decided(more))
    <3>1. Decided(rows) \subseteq rows /\ Decided(more) \subseteq more
      BY DEF Decided
    <3> QED  BY <1>1, <3>1, FS_Subset
  <2>2. \A rs : IsFiniteSet(Decided(rs)) => IsFiniteSet({r.decide : r \in Decided(rs)})
    <3> SUFFICES ASSUME NEW rs, IsFiniteSet(Decided(rs))
                 PROVE  IsFiniteSet({r.decide : r \in Decided(rs)})
      OBVIOUS
    <3> DEFINE f == [r \in Decided(rs) |-> r.decide]
    <3>1. {r.decide : r \in Decided(rs)} = {f[r] : r \in Decided(rs)}
      <4>1. \A r \in Decided(rs) : f[r] = r.decide
        OBVIOUS
      <4> HIDE DEF f
      <4> QED  BY <4>1
    <3> HIDE DEF f
    <3> QED  BY <3>1, ImageFinite
  <2> QED  BY <2>1, <2>2 DEF BatchTimes, Decided
<1> HIDE DEF S, S2, q, q2
<1>4. /\ \A x, y \in S : <<x, y>> \in R <=> x < y
      /\ \A x, y \in S2 : <<x, y>> \in R2 <=> x < y
  BY DEF InTime
<1> HIDE DEF R, R2
<1>5. Lists(q, S, R) /\ Orders(R, S)
  <2>1. Orders(R, S)
    BY <1>2, <1>4 DEF Orders
  <2> QED  BY <1>2, <1>3, <2>1, SortedTimes DEF R
<1>6. Lists(q2, S2, R2) /\ Orders(R2, S2)
  <2>1. Orders(R2, S2)
    BY <1>2, <1>4 DEF Orders
  <2> QED  BY <1>2, <1>3, <2>1, SortedTimes DEF R2
<1>7. \A x, y \in S : <<x, y>> \in R <=> <<x, y>> \in R2
  BY <1>2, <1>4
<1>8. \A x \in S : \A y \in S2 \ S : <<x, y>> \in R2
  <2> SUFFICES ASSUME NEW x \in S, NEW y \in S2 \ S PROVE <<x, y>> \in R2
    OBVIOUS
  <2>1. x \in S2 /\ y \in S2 /\ x \in Nat /\ y \in Nat /\ x <= T /\ y > T /\ T \in Nat
    BY <1>1, <1>2
  <2>2. x < y
    BY <2>1
  <2> QED  BY <1>4, <2>1, <2>2
<1>9. /\ Len(q) <= Len(q2)
      /\ \A i \in 1..Len(q) : q2[i] = q[i]
      /\ \A i \in 1..Len(q2) : i > Len(q) => q2[i] \in S2 \ S
  <2>1. S \subseteq S2
    BY <1>2
  <2> QED  BY <2>1, <1>5, <1>6, <1>7, <1>8, ListPrefix
<1>10. DOMAIN q = 1..Len(q) /\ DOMAIN q2 = 1..Len(q2)
  BY TimesListedUp DEF Extends, q, q2
<1>11. /\ Len(q) <= Len(q2)
       /\ \A i \in DOMAIN q : q2[i] = q[i]
       /\ \A i \in DOMAIN q2 : i > Len(q) => q2[i] > T
  BY <1>2, <1>9, <1>10
<1> QED  BY <1>11 DEF q, q2

(* A batch that was built before is built again. *)
LEMMA BatchKept ==
    ASSUME NEW rows, NEW more, NEW T, Extends(rows, more, T),
           NEW time, \E s \in Decided(rows) : s.decide = time
    PROVE  /\ Here(more, time) = Here(rows, time)
           /\ BatchOf(more, time) = BatchOf(rows, time)
<1> DEFINE D == Decisions(rows)
           D2 == Decisions(more)
<1>1. /\ rows \subseteq more /\ more \subseteq Rows /\ T \in Nat
      /\ \A s \in rows : s.decide <= T
      /\ \A r \in more \ rows : \A s \in rows : r.at >= s.decide
  BY DEF Extends, Known
<1>2. PICK s \in rows : s.decide = time
  BY DEF Decided
<1>3. time \in Nat /\ time <= T
  BY <1>1, <1>2, RowsTyped
<1>4. \A p \in DOMAIN D2 : D2[p].decide \in Nat
  BY <1>1, DecisionsListed, RowsTyped DEF Extends, Decided
<1>5. /\ DOMAIN D \subseteq DOMAIN D2
      /\ \A p \in DOMAIN D : D2[p] = D[p]
      /\ \A p \in DOMAIN D2 \ DOMAIN D : D2[p].decide > T
  BY DecisionsKept
<1>6. \A p \in DOMAIN D2 : D2[p].decide <= time => p \in DOMAIN D
  <2> HIDE DEF D, D2
  <2> QED  BY <1>1, <1>3, <1>4, <1>5
<1>7. Here(more, time) = Here(rows, time)
  <2>1. Here(more, time) = {p \in DOMAIN D2 : D2[p].decide = time}
    BY DEF Here
  <2>2. Here(rows, time) = {p \in DOMAIN D : D[p].decide = time}
    BY DEF Here
  <2> HIDE DEF D, D2
  <2> QED  BY <1>3, <1>5, <1>6, <2>1, <2>2
<1>8. Visible(more, time) = Visible(rows, time)
  <2>1. \A r \in more \ rows : ~(r.at < time)
    <3>1. \A r \in more : r.at \in Nat
      BY <1>1, RowsTyped
    <3> QED  BY <1>1, <1>2, <1>3, <3>1
  <2> QED  BY <1>1, <2>1 DEF Visible
<1>9. \A n : Component(more, time, n) = Component(rows, time, n)
  <2> SUFFICES ASSUME NEW n PROVE Component(more, time, n) = Component(rows, time, n)
    OBVIOUS
  <2> DEFINE nodes == Connected(Visible(rows, time), n)
             Met(E) == {p \in DOMAIN E : /\ E[p].decide < time
                                         /\ {E[p].actor, E[p].counterparty} \cap nodes # {}}
             Is(E, members) == [size     |-> Cardinality(nodes),
                                minimum  |-> CHOOSE m \in nodes : \A k \in nodes : m <= k,
                                evidence |-> {r \in Visible(rows, time) : r.actor \in nodes},
                                members  |-> members]
  <2>1. Component(rows, time, n) = Is(D, Met(D))
    BY DEF Component
  <2>2. Component(more, time, n) = Is(D2, Met(D2))
    BY <1>8 DEF Component
  <2>3. Met(D2) = Met(D)
    <3> HIDE DEF nodes, D, D2
    <3>1. \A p \in DOMAIN D2 : D2[p].decide < time => p \in DOMAIN D
      BY <1>3, <1>4, <1>6
    <3> QED  BY <1>5, <3>1
  <2> HIDE DEF Met
  <2>4. Is(D2, Met(D2)) = Is(D, Met(D))
    BY <2>3
  <2> HIDE DEF Is
  <2> QED  BY <2>1, <2>2, <2>4
<1>10. \A p \in Here(rows, time) : AlertOf(more, time, p) = AlertOf(rows, time, p)
  <2> SUFFICES ASSUME NEW p \in Here(rows, time) PROVE AlertOf(more, time, p) = AlertOf(rows, time, p)
    OBVIOUS
  <2> DEFINE parties == {D[p].actor, D[p].counterparty}
  <2>1. D2[p] = D[p]
    BY <1>5 DEF Here
  <2>2. AlertOf(rows, time, p) = [position |-> p, row |-> D[p],
                                  components |-> {Component(rows, time, n) : n \in parties}]
    BY DEF AlertOf
  <2>3. AlertOf(more, time, p) = [position |-> p, row |-> D[p],
                                  components |-> {Component(more, time, n) : n \in parties}]
    BY <2>1 DEF AlertOf
  <2> HIDE DEF parties, D, D2
  <2>4. {Component(more, time, n) : n \in parties} = {Component(rows, time, n) : n \in parties}
    BY <1>9
  <2> QED  BY <2>2, <2>3, <2>4
<1>11. FirstOf(more, time) = FirstOf(rows, time)
  BY <1>7 DEF FirstOf
<1> HIDE DEF D, D2
<1>12. BatchOf(more, time) = BatchOf(rows, time)
  <2> DEFINE c == Cardinality(Here(rows, time))
             first == FirstOf(rows, time)
             Alerts(rs) == [i \in 1..c |-> AlertOf(rs, time, first + i - 1)]
  <2>1. \E p \in DOMAIN Decisions(rows) : Decisions(rows)[p].decide = time
    BY DecisionsListed DEF Extends
  <2>2. Here(rows, time) # {}
    BY <2>1 DEF Here
  <2>3. c \in Nat /\ first \in Nat /\ Here(rows, time) = first..(first + c - 1)
    BY <2>2, BatchSpan DEF Extends
  <2>4. BatchOf(rows, time) = [at |-> time, alerts |-> Alerts(rows)]
    BY DEF BatchOf
  <2>5. BatchOf(more, time) = [at |-> time, alerts |-> Alerts(more)]
    BY <1>7, <1>11 DEF BatchOf
  <2>6. \A i \in 1..c : first + i - 1 \in Here(rows, time)
    <3> HIDE DEF c, first
    <3> QED  BY <2>3
  <2> HIDE DEF c, first
  <2>7. Alerts(more) = Alerts(rows)
    BY <1>10, <2>6
  <2> HIDE DEF Alerts
  <2> QED  BY <2>4, <2>5, <2>7
<1> QED  BY <1>7, <1>12

(* The batch is run again with the same alerts in it. *)
LEMMA RunKept ==
    ASSUME NEW e, NEW batch, NEW I, NEW J, Len(batch.alerts) \in Nat,
           \A i \in 1..Len(batch.alerts) : batch.alerts[i].row.id \in I <=> batch.alerts[i].row.id \in J
    PROVE  RunBatch(e, batch, I) = RunBatch(e, batch, J)
<1> DEFINE n == Len(batch.alerts)
           a == CHOOSE after : Assigning(e, batch, I, n, after)
           b == CHOOSE after : Assigning(e, batch, J, n, after)
           Then(f, i) == Assign(f[i - 1], batch.at, batch.alerts[i], Plan(e, batch.alerts[i]))
<1>1. RunBatch(e, batch, I) = a[n] /\ RunBatch(e, batch, J) = b[n]
  BY DEF RunBatch, Assigning
<1>2. Assigning(e, batch, I, n, a) /\ Assigning(e, batch, J, n, b)
  BY AssigningExists
<1> HIDE DEF a, b, n
<1>3. /\ \A i \in 0..n : a[i] = IF i = 0 THEN e
                              ELSE IF batch.alerts[i].row.id \notin I THEN a[i - 1] ELSE Then(a, i)
      /\ \A i \in 0..n : b[i] = IF i = 0 THEN e
                              ELSE IF batch.alerts[i].row.id \notin J THEN b[i - 1] ELSE Then(b, i)
  BY <1>2 DEF Assigning
<1>4. \A i : a[i - 1] = b[i - 1] => Then(a, i) = Then(b, i)
  OBVIOUS
<1> HIDE DEF Then
<1> DEFINE G == {i \in Nat : i <= n => a[i] = b[i]}
<1>5. 0 \in G
  <2>1. n \in Nat /\ 0 \in 0..n
    BY DEF n
  <2> QED  BY <1>3, <2>1
<1>6. ASSUME NEW i \in Nat, i \in G PROVE i + 1 \in G
  <2> SUFFICES ASSUME i + 1 <= n PROVE a[i + 1] = b[i + 1]
    OBVIOUS
  <2>1. i + 1 \in 0..n /\ i + 1 # 0 /\ (i + 1) - 1 = i /\ i + 1 \in 1..n /\ i <= n
    BY DEF n
  <2>2. a[i] = b[i]
    BY <1>6, <2>1
  <2>3. batch.alerts[i + 1].row.id \in I <=> batch.alerts[i + 1].row.id \in J
    BY <2>1 DEF n
  <2>4. Then(a, i + 1) = Then(b, i + 1)
    BY <1>4, <2>1, <2>2
  <2> HIDE DEF G
  <2> QED  BY <1>3, <2>1, <2>2, <2>3, <2>4
<1> HIDE DEF G
<1>7. Nat \subseteq G
  BY <1>5, <1>6, UpwardInduction
<1>8. n \in Nat /\ n <= n
  BY DEF n
<1>9. n \in G
  BY <1>7, <1>8
<1> QED  BY <1>1, <1>8, <1>9 DEF G

(* What was grouped before is grouped again on the way. *)
LEMMA GroupKept ==
    ASSUME NEW rows, NEW more, NEW T, Extends(rows, more, T), NEW I, NEW J,
           \A r \in rows : r.id \in I <=> r.id \in J,
           NEW a, Grouped(rows, I, a), NEW b, Grouped(more, J, b)
    PROVE  b[Len(BatchTimes(rows))] = Group(rows, I)
<1> DEFINE t == BatchTimes(rows)
           t2 == BatchTimes(more)
           n == Len(t)
<1>1. /\ n \in Nat /\ DOMAIN t = 1..n
      /\ \A i \in DOMAIN t : \E r \in Decided(rows) : r.decide = t[i]
  BY TimesListedUp DEF Extends
<1>2. /\ Len(t2) \in Nat /\ DOMAIN t2 = 1..Len(t2)
      /\ n <= Len(t2) /\ \A i \in DOMAIN t : t2[i] = t[i]
  <2>1. Known(more)
    BY DEF Extends
  <2>2. Len(t2) \in Nat /\ DOMAIN t2 = 1..Len(t2)
    BY <2>1, TimesListedUp
  <2>3. n <= Len(t2) /\ \A i \in DOMAIN t : t2[i] = t[i]
    BY TimesKept
  <2> HIDE DEF t, t2, n
  <2> QED  BY <2>2, <2>3
<1>3. DOMAIN t \subseteq DOMAIN t2
  <2> HIDE DEF t, t2, n
  <2> QED  BY <1>1, <1>2
<1>4. /\ a[0] = NewEngine /\ Group(rows, I) = a[n]
      /\ \A i \in DOMAIN t : a[i] = RunBatch(a[i - 1], BatchOf(rows, t[i]), I)
      /\ b[0] = NewEngine
      /\ \A i \in DOMAIN t : b[i] = RunBatch(b[i - 1], BatchOf(rows, t[i]), J)
  <2>1. \A i \in DOMAIN t : BatchOf(more, t[i]) = BatchOf(rows, t[i])
    BY <1>1, BatchKept
  <2>2. \A i \in DOMAIN t : b[i] = RunBatch(b[i - 1], BatchOf(more, t[i]), J)
    <3>1. \A i \in DOMAIN t2 : b[i] = RunBatch(b[i - 1], BatchOf(more, t2[i]), J)
      BY DEF Grouped
    <3> HIDE DEF t, t2, n
    <3> QED  BY <1>2, <1>3, <3>1
  <2>3. /\ a[0] = NewEngine /\ Group(rows, I) = a[n] /\ b[0] = NewEngine
        /\ \A i \in DOMAIN t : a[i] = RunBatch(a[i - 1], BatchOf(rows, t[i]), I)
    BY DEF Grouped
  <2> HIDE DEF t, t2, n
  <2> QED  BY <2>1, <2>2, <2>3
<1>5. \A i \in DOMAIN t : \A e :
         RunBatch(e, BatchOf(rows, t[i]), I) = RunBatch(e, BatchOf(rows, t[i]), J)
  <2> SUFFICES ASSUME NEW i \in DOMAIN t, NEW e
               PROVE  RunBatch(e, BatchOf(rows, t[i]), I) = RunBatch(e, BatchOf(rows, t[i]), J)
    OBVIOUS
  <2> DEFINE B == BatchOf(rows, t[i])
             c == Cardinality(Here(rows, t[i]))
             first == FirstOf(rows, t[i])
  <2>1. Here(rows, t[i]) # {}
    BY BatchesAre DEF Extends
  <2>2. c \in Nat /\ first \in Nat /\ Here(rows, t[i]) = first..(first + c - 1)
    BY <2>1, BatchSpan DEF Extends
  <2>3. B.alerts = [k \in 1..c |-> AlertOf(rows, t[i], first + k - 1)]
    BY DEF BatchOf
  <2>4. \A p \in Here(rows, t[i]) : AlertOf(rows, t[i], p).row \in rows
    <3>1. \A p \in Here(rows, t[i]) : Decisions(rows)[p] \in rows
      BY DecisionsListed DEF Here, Extends, Decided
    <3>2. \A p : AlertOf(rows, t[i], p).row = Decisions(rows)[p]
      BY DEF AlertOf
    <3> QED  BY <3>1, <3>2
  <2> HIDE DEF B, c, first
  <2>5. Len(B.alerts) = c
    BY <2>2, <2>3
  <2>6. \A k \in 1..c : B.alerts[k].row \in rows
    <3> SUFFICES ASSUME NEW k \in 1..c PROVE B.alerts[k].row \in rows
      OBVIOUS
    <3>1. first + k - 1 \in Here(rows, t[i])
      BY <2>2
    <3>2. B.alerts[k] = AlertOf(rows, t[i], first + k - 1)
      BY <2>3
    <3> QED  BY <2>4, <3>1, <3>2
  <2>7. \A k \in 1..Len(B.alerts) : B.alerts[k].row.id \in I <=> B.alerts[k].row.id \in J
    BY <2>5, <2>6
  <2>8. RunBatch(e, B, I) = RunBatch(e, B, J)
    BY <2>2, <2>5, <2>7, RunKept
  <2> QED  BY <2>8 DEF B
<1> HIDE DEF t, t2, n
<1> DEFINE G == {i \in Nat : i <= n => b[i] = a[i]}
<1>6. 0 \in G
  BY <1>4
<1>7. ASSUME NEW i \in Nat, i \in G PROVE i + 1 \in G
  <2> SUFFICES ASSUME i + 1 <= n PROVE b[i + 1] = a[i + 1]
    OBVIOUS
  <2>1. i + 1 \in DOMAIN t /\ (i + 1) - 1 = i /\ i <= n
    BY <1>1
  <2>2. b[i] = a[i]
    BY <1>7, <2>1
  <2> HIDE DEF G
  <2> QED  BY <1>4, <1>5, <2>1, <2>2
<1> HIDE DEF G
<1>8. Nat \subseteq G
  BY <1>6, <1>7, UpwardInduction
<1>9. n \in G
  BY <1>1, <1>8
<1>10. n <= n
  BY <1>1
<1> QED  BY <1>4, <1>9, <1>10 DEF G, n, t

(* An engine against itself. *)
LEMMA GrownNone ==
    ASSUME NEW e, NEW rows, NEW I, NEW P, NEW Q, NEW depth, SoundEngine(e, rows, I, P, Q, depth),
           Known(rows), NEW T \in Nat, \A c \in DOMAIN e.active : e.active[c].at \in 0..T
    PROVE  Grown(e, T, e, Q)
<1>1. /\ \A c \in DOMAIN e.active : Q[c] = c
      /\ \A c \in Named(e) : \E p \in DOMAIN e.assigned : Decisions(rows)[p].id = c
      /\ DOMAIN e.assigned \subseteq DOMAIN Decisions(rows)
  BY DEF SoundEngine, Leads
<1>2. DOMAIN e.active \subseteq Named(e)
  BY DEF Named
<1>3. \A c \in DOMAIN e.active : DigestRank[c] \in Nat
  <2>1. \A p \in DOMAIN Decisions(rows) : Decisions(rows)[p] \in Rows
    BY DecisionsListed DEF Decided, Known
  <2> QED  BY <1>1, <1>2, <2>1, DigestsInjective
<1> QED  BY <1>1, <1>2, <1>3 DEF Grown

LEMMA GroupGrows ==
    ASSUME NEW rows, NEW more, NEW T, Extends(rows, more, T), NEW I, NEW J,
           \A r \in rows : r.id \in I <=> r.id \in J
    PROVE  Stands(Group(rows, I), T, Group(more, J), more, J, DOMAIN Decisions(more))
<1> DEFINE n == Len(BatchTimes(rows))
           n2 == Len(BatchTimes(more))
           e == Group(rows, I)
<1>1. Known(rows) /\ Known(more) /\ T \in Nat /\ rows \subseteq more
  BY DEF Extends
<1>2. PICK a : Grouped(rows, I, a)
  BY <1>1, GroupRuns
<1>3. PICK b : Grouped(more, J, b)
  BY <1>1, GroupRuns
<1>4. e = b[n]
  BY <1>2, <1>3, GroupKept
<1>5. /\ n \in Nat /\ n2 \in Nat /\ n <= n2
      /\ DOMAIN BatchTimes(more) = 1..n2
      /\ \A j \in DOMAIN BatchTimes(more) : BatchTimes(more)[j] \in Nat \ {0}
      /\ \A j \in DOMAIN BatchTimes(more) : j > n => BatchTimes(more)[j] > T
  BY <1>1, TimesListedUp, TimesKept
<1>6. \A c \in DOMAIN e.active : e.active[c].at \in 0..T
  <2>1. Stands(NewEngine, 0, e, rows, I, DOMAIN Decisions(rows))
    BY <1>1, GroupStands
  <2>2. \A c \in DOMAIN e.active : \E r \in Decided(rows) : e.active[c].at = r.decide
    BY <2>1 DEF Stands, SoundEngine
  <2>3. \A r \in Decided(rows) : r.decide \in 0..T
    <3>1. \A r \in rows : r.decide \in Nat /\ r.decide <= T
      BY RowsTyped DEF Extends, Known
    <3> QED  BY <1>1, <3>1 DEF Decided
  <2> HIDE DEF e
  <2> QED  BY <2>2, <2>3
<1> HIDE DEF e, n, n2
<1>7. Stands(NewEngine, 0, b[n], more, J, UpTo(more, n))
  <2>1. Stands(NewEngine, 0, b[0], more, J, UpTo(more, 0))
    BY <1>1, <1>3, NewStands, BeforeAll DEF Grouped
  <2>2. 0 \in Nat /\ 0 \in 0..n2 /\ n \in 0..n2
    BY <1>5
  <2>3. \A j \in (0 + 1)..n : 0 < BatchTimes(more)[j]
    BY <1>5
  <2> QED  BY <1>1, <1>3, <2>1, <2>2, <2>3, RunStands DEF n2
<1>8. Stands(e, T, e, more, J, UpTo(more, n))
  <2>1. PICK Q, depth : SoundEngine(e, more, J, UpTo(more, n), Q, depth)
    BY <1>4, <1>7 DEF Stands
  <2>2. Grown(e, T, e, Q)
    BY <1>1, <1>6, <2>1, GrownNone
  <2> QED  BY <2>1, <2>2 DEF Stands
<1>9. Stands(e, T, b[n2], more, J, UpTo(more, n2))
  <2>1. n \in 0..n2 /\ n2 \in n..n2
    BY <1>5
  <2>2. \A j \in (n + 1)..n2 : T < BatchTimes(more)[j]
    <3> SUFFICES ASSUME NEW j \in (n + 1)..n2 PROVE T < BatchTimes(more)[j]
      OBVIOUS
    <3>1. j \in DOMAIN BatchTimes(more) /\ j > n
      BY <1>5
    <3>2. BatchTimes(more)[j] \in Nat /\ BatchTimes(more)[j] > T
      BY <1>5, <3>1
    <3> QED  BY <1>1, <3>2
  <2>3. Stands(e, T, b[n], more, J, UpTo(more, n))
    BY <1>4, <1>8
  <2> QED  BY <1>1, <1>3, <2>1, <2>2, <2>3, RunStands DEF n2
<1>10. UpTo(more, n2) = DOMAIN Decisions(more) /\ Group(more, J) = b[n2]
  BY <1>1, <1>3, BeforeAll DEF Grouped, n2
<1> QED  BY <1>9, <1>10 DEF e

(* What group_cases returns of a case. *)
CaseOf(e, rows, c) ==
    [id |-> c, opened |-> e.active[c].at, priority |-> e.active[c].priority,
     events |-> {Decisions(rows)[p].id : p \in e.active[c].members}]

LEMMA CasesGrow ==
    ASSUME NEW rows, NEW more, NEW T, Extends(rows, more, T), NEW e, NEW f, NEW J,
           Stands(e, T, f, more, J, DOMAIN Decisions(more)),
           \A c \in DOMAIN e.active : e.active[c].members \subseteq DOMAIN Decisions(rows),
           NEW case \in Cases(e, rows)
    PROVE  \E d \in Cases(f, more) :
              /\ case.events \subseteq d.events
              /\ \E b \in Cases(e, rows) :
                    /\ b.id = d.id /\ b.opened = d.opened /\ b.priority = d.priority
                    /\ b = case \/ CaseBefore(e, b.id, case.id)
<1>1. /\ Cases(e, rows) = {CaseOf(e, rows, c) : c \in DOMAIN e.active}
      /\ Cases(f, more) = {CaseOf(f, more, c) : c \in DOMAIN f.active}
  BY DEF Cases, CaseOf
<1>2. PICK c \in DOMAIN e.active : case = CaseOf(e, rows, c)
  BY <1>1
<1>3. PICK Q, depth : SoundEngine(f, more, J, DOMAIN Decisions(more), Q, depth) /\ Grown(e, T, f, Q)
  BY DEF Stands
<1>4. /\ c \in Named(f) /\ Q[c] \in DOMAIN e.active
      /\ f.active[Q[c]].at = e.active[Q[c]].at
      /\ f.active[Q[c]].priority = e.active[Q[c]].priority
      /\ Q[c] = c \/ CaseBefore(e, Q[c], c)
      /\ e.active[c].members \subseteq f.active[Q[c]].members
  BY <1>3 DEF Grown
<1>5. Q[c] \in DOMAIN f.active
  BY <1>3, <1>4 DEF SoundEngine, Leads
<1> DEFINE d == CaseOf(f, more, Q[c])
           b == CaseOf(e, rows, Q[c])
<1>6. d \in Cases(f, more) /\ b \in Cases(e, rows)
  BY <1>1, <1>4, <1>5
<1>7. \A g, rs, k : /\ CaseOf(g, rs, k).id = k
                    /\ CaseOf(g, rs, k).opened = g.active[k].at
                    /\ CaseOf(g, rs, k).priority = g.active[k].priority
                    /\ CaseOf(g, rs, k).events = {Decisions(rs)[p].id : p \in g.active[k].members}
  BY DEF CaseOf
<1>8. case.events \subseteq d.events
  <2>1. \A p \in e.active[c].members : Decisions(more)[p] = Decisions(rows)[p]
    BY DecisionsKept
  <2>2. case.events = {Decisions(rows)[p].id : p \in e.active[c].members}
    BY <1>2, <1>7
  <2>3. d.events = {Decisions(more)[p].id : p \in f.active[Q[c]].members}
    BY <1>7
  <2> HIDE DEF d
  <2> QED  BY <1>4, <2>1, <2>2, <2>3
<1>9. b.id = d.id /\ b.opened = d.opened /\ b.priority = d.priority
  BY <1>4, <1>7
<1>10. b = case \/ CaseBefore(e, b.id, case.id)
  <2>1. b.id = Q[c] /\ case.id = c
    BY <1>2, <1>7
  <2> QED  BY <1>2, <1>4, <2>1
<1> HIDE DEF b, d
<1> QED  BY <1>6, <1>8, <1>9, <1>10

(* One call of group_cases after another. *)
LEMMA AdvanceExtends ==
    ASSUME CaseInv, CaseNext, \A r \in seen' \ seen : \A s \in seen : r.at >= s.decide
    PROVE  /\ Extends(seen, seen', now)
           /\ \A r \in seen : r.id \in alerts <=> r.id \in alerts'
           /\ engine = Group(seen, alerts) /\ engine' = Group(seen', alerts')
<1>1. PICK new, raised :
              /\ seen' = seen \cup new /\ alerts' = alerts \cup raised
              /\ \A r \in new : r \in Rows /\ KnownAt(r) = now + 1
              /\ \A i \in raised : \E r \in new : r.id = i
              /\ IsFiniteSet(new) /\ now' = now + 1 /\ engine' = Group(seen', alerts')
  BY Learned
<1>2. /\ now \in Nat /\ Known(seen) /\ \A r \in seen : KnownAt(r) <= now
      /\ engine = Group(seen, alerts)
  BY DEF CaseInv
<1>3. Known(seen')
  BY <1>1, <1>2, FS_Union DEF Known
<1>4. \A r \in seen : r \in Rows /\ r.decide \in Nat /\ KnownAt(r) \in Nat
  BY <1>2, RowsTyped DEF Known, KnownAt
<1>5. \A s \in seen : s.decide <= now
  BY <1>2, <1>4 DEF KnownAt
<1>6. \A r \in seen' \ seen : r.decide = 0 \/ r.decide > now
  BY <1>1, <1>2 DEF KnownAt
<1>7. Extends(seen, seen', now)
  BY <1>1, <1>2, <1>3, <1>5, <1>6 DEF Extends
<1>8. \A r \in seen : r.id \notin raised
  <2> SUFFICES ASSUME NEW r \in seen, r.id \in raised PROVE FALSE
    OBVIOUS
  <2>1. PICK s \in new : s.id = r.id
    BY <1>1
  <2>2. s = r
    BY <1>1, <1>4, <2>1, RowsTyped
  <2> QED  BY <1>1, <1>2, <1>4, <2>2
<1> QED  BY <1>1, <1>2, <1>7, <1>8

(* CasesOnlyGrow, for any observations: "Later alerts may extend or merge a case,
   but the canonical first-evidence ID and priority of the earliest case remain
   unchanged" (group_cases).  It starts from nothing at every call, and yet what
   becomes available later leaves it the cases it had, extended, or merged into
   one that was opened before. *)
THEOREM CasesAlwaysGrow == CaseSpec => CasesOnlyGrow
<1> DEFINE Later == \A r \in seen' \ seen : \A s \in seen : r.at >= s.decide
           Kept == \A c \in Cases(engine, seen) : \E d \in Cases(engine', seen') :
                      /\ c.events \subseteq d.events
                      /\ \E b \in Cases(engine, seen) :
                            /\ b.id = d.id /\ b.opened = d.opened /\ b.priority = d.priority
                            /\ b = c \/ CaseBefore(engine, b.id, c.id)
<1>1. ASSUME CaseInv, CaseNext, Later PROVE Kept
  <2>1. /\ Extends(seen, seen', now)
        /\ \A r \in seen : r.id \in alerts <=> r.id \in alerts'
        /\ engine = Group(seen, alerts) /\ engine' = Group(seen', alerts')
    BY <1>1, AdvanceExtends
  <2>2. Stands(engine, now, engine', seen', alerts', DOMAIN Decisions(seen'))
    BY <2>1, GroupGrows
  <2>3. \A c \in DOMAIN engine.active : engine.active[c].members \subseteq DOMAIN Decisions(seen)
    <3>1. Stands(NewEngine, 0, engine, seen, alerts, DOMAIN Decisions(seen))
      BY <1>1, GroupStands DEF CaseInv
    <3>2. PICK Q, depth : SoundEngine(engine, seen, alerts, DOMAIN Decisions(seen), Q, depth)
      BY <3>1 DEF Stands
    <3> QED  BY <3>2 DEF SoundEngine
  <2> QED  BY <2>1, <2>2, <2>3, CasesGrow
<1>2. CaseInv /\ [CaseNext]_caseVars => [Later => Kept]_caseVars
  BY <1>1
<1>3. CaseSpec => [][Later => Kept]_caseVars
  <2> HIDE DEF Later, Kept
  <2> QED  BY <1>2, CaseInvHolds, PTL DEF CaseSpec
<1> QED  BY <1>3 DEF CasesOnlyGrow
=============================================================================

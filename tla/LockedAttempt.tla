---------------------------- MODULE LockedAttempt ----------------------------
(***************************************************************************)
(* The one-time locked run of scripts/run_defense_v5_locked_development.py  *)
(* over the file protocol of evaluation/v5_evidence_storage.py: a receipt   *)
(* that consumes the attempt, chunks, a manifest published last, a summary. *)
(*                                                                          *)
(* Several processes may be told to run it, again and again; any step may   *)
(* raise, any process may be killed, the power may fail.  All four names    *)
(* live in one directory: what is not synced may be lost, name by name.     *)
(* Every file carries the number of the call that made it, 0 for none; the  *)
(* digests that bind files to one another make these numbers comparable.    *)
(***************************************************************************)
EXTENDS Integers, FiniteSets

CONSTANTS
    Processes,
    Chunks,       \* the number of chunks of the payload
    MaxAttempts,  \* bound: calls of the runner
    MaxFaults,    \* bound: raising steps and killed processes
    MaxLosses     \* bound: power losses

ASSUME AttemptConstants ==
    /\ Chunks \in Nat \ {0} /\ MaxAttempts \in Nat
    /\ MaxFaults \in Nat /\ MaxLosses \in Nat

Attempts == 1..MaxAttempts
Names == {"receipt", "chunks", "manifest", "summary"}
Linked == {"receipt", "manifest"}   \* published by linking a temporary file

VARIABLES
    pc,         \* process -> where its call is
    attempt,    \* process -> the number of its call
    started,    \* calls so far
    at,         \* name -> the call whose file it is, as processes see it
    temps,      \* name -> calls whose temporary file for it is there
    atDisk, tempsDisk,   \* the same, as last synced
    parts,      \* call -> whole chunks in the chunk directory it made
    written,    \* calls whose summary file is complete
    executed,   \* calls that have begun to execute
    faults, losses

dirVars == <<at, temps, atDisk, tempsDisk>>
callVars == <<pc, attempt, started>>
vars == <<callVars, dirVars, parts, written, executed, faults, losses>>

Absent(name) == at[name] = 0

(* _regular_single_link: no temporary name still points to the file. *)
SingleLink(name) == at[name] \notin temps[name]

Goto(p, label) == pc' = [pc EXCEPT ![p] = label]

Fault == faults < MaxFaults /\ faults' = faults + 1
-----------------------------------------------------------------------------
(* _execute_locked_development_once, authorized and past its preflight: none
   of the four names may exist. *)
Start(p) ==
    /\ pc[p] = "idle"
    /\ started < MaxAttempts
    /\ \A name \in Names : Absent(name)
    /\ started' = started + 1
    /\ attempt' = [attempt EXCEPT ![p] = started + 1]
    /\ Goto(p, "receipt")
    /\ UNCHANGED <<dirVars, parts, written, executed, faults, losses>>

(* A temporary file, written and synced.  For the receipt the name is looked
   up once more first; for the manifest that was done before the chunks. *)
WriteTemp(p, name, next) ==
    /\ pc[p] = name
    /\ IF name = "receipt" /\ ~Absent(name)
       THEN Goto(p, "idle") /\ UNCHANGED temps
       ELSE Goto(p, next) /\ temps' = [temps EXCEPT ![name] = @ \cup {attempt[p]}]
    /\ UNCHANGED <<attempt, started, at, atDisk, tempsDisk, parts, written, executed,
                   faults, losses>>

(* Mutant: the file is moved over whatever is there. *)
LinkReplacing(p, name, label, next) ==
    /\ pc[p] = label
    /\ at' = [at EXCEPT ![name] = attempt[p]]
    /\ Goto(p, next)
    /\ UNCHANGED <<attempt, started, temps, atDisk, tempsDisk, parts, written, executed,
                   faults, losses>>

(* os.link: the name is taken if it is free; a call that comes too late
   removes its temporary file and raises. *)
Link(p, name, label, next) ==
    /\ pc[p] = label
    /\ IF Absent(name)
       THEN /\ at' = [at EXCEPT ![name] = attempt[p]]
            /\ Goto(p, next)
            /\ UNCHANGED temps
       ELSE /\ temps' = [temps EXCEPT ![name] = @ \ {attempt[p]}]
            /\ Goto(p, "idle")
            /\ UNCHANGED at
    /\ UNCHANGED <<attempt, started, atDisk, tempsDisk, parts, written, executed,
                   faults, losses>>

UnlinkTemp(p, name, label, next) ==
    /\ pc[p] = label
    /\ temps' = [temps EXCEPT ![name] = @ \ {attempt[p]}]
    /\ Goto(p, next)
    /\ UNCHANGED <<attempt, started, at, atDisk, tempsDisk, parts, written, executed,
                   faults, losses>>

(* Mutant: the directory is not synced. *)
SyncSkipped(p, label, next) ==
    /\ pc[p] = label
    /\ Goto(p, next)
    /\ UNCHANGED <<attempt, started, dirVars, parts, written, executed, faults, losses>>

(* _fsync_directory: every name in it is on disk, whoever made it. *)
Sync(p, label, next) ==
    /\ pc[p] = label
    /\ atDisk' = at
    /\ tempsDisk' = temps
    /\ Goto(p, next)
    /\ UNCHANGED <<attempt, started, at, temps, parts, written, executed, faults, losses>>

(* build_payload: the population is built and the arms are run. *)
Execute(p) ==
    /\ pc[p] = "execute"
    /\ executed' = executed \cup {attempt[p]}
    /\ Goto(p, "publish")
    /\ UNCHANGED <<attempt, started, dirVars, parts, written, faults, losses>>

(* publish_v5_chunked_evidence begins: the receipt on disk must be this
   call's own, and nothing may be published yet. *)
BeginChunks(p) ==
    /\ pc[p] = "publish"
    /\ IF /\ at["receipt"] = attempt[p] /\ SingleLink("receipt")
          /\ Absent("manifest") /\ Absent("chunks")
       THEN at' = [at EXCEPT !["chunks"] = attempt[p]] /\ Goto(p, "chunks")
       ELSE Goto(p, "idle") /\ UNCHANGED at
    /\ UNCHANGED <<attempt, started, temps, atDisk, tempsDisk, parts, written, executed,
                   faults, losses>>

(* Mutant: the manifest is published when the last chunk is still missing. *)
WriteChunkEarly(p) ==
    /\ pc[p] = "chunks"
    /\ LET index == Cardinality(parts[attempt[p]]) + 1
       IN  /\ parts' = [parts EXCEPT ![attempt[p]] = @ \cup {index}]
           /\ IF index >= Chunks - 1 THEN Goto(p, "manifest") ELSE UNCHANGED pc
    /\ UNCHANGED <<attempt, started, dirVars, written, executed, faults, losses>>

(* One chunk, created exclusively, written and synced; the chunk directory
   itself is never synced. *)
WriteChunk(p) ==
    /\ pc[p] = "chunks"
    /\ LET index == Cardinality(parts[attempt[p]]) + 1
       IN  /\ parts' = [parts EXCEPT ![attempt[p]] = @ \cup {index}]
           /\ IF index = Chunks THEN Goto(p, "manifest") ELSE UNCHANGED pc
    /\ UNCHANGED <<attempt, started, dirVars, written, executed, faults, losses>>

(* reconstruct_v5_chunked_evidence and the check of the receipt: the chunks the
   manifest lists, no others, and the receipt it names. *)
Readable(a) ==
    /\ at["manifest"] = a /\ SingleLink("manifest")
    /\ at["receipt"] = a /\ SingleLink("receipt")
    /\ at["chunks"] = a /\ parts[a] = 1..Chunks

VerifyPublished(p) ==
    /\ pc[p] = "verify"
    /\ Goto(p, IF Readable(attempt[p]) THEN "summary" ELSE "idle")
    /\ UNCHANGED <<attempt, started, dirVars, parts, written, executed, faults, losses>>

(* _write_summary_exclusive: created in place, then written and synced. *)
CreateSummary(p) ==
    /\ pc[p] = "summary"
    /\ IF Absent("summary")
       THEN at' = [at EXCEPT !["summary"] = attempt[p]] /\ Goto(p, "writeSummary")
       ELSE Goto(p, "idle") /\ UNCHANGED at
    /\ UNCHANGED <<attempt, started, temps, atDisk, tempsDisk, parts, written, executed,
                   faults, losses>>

WriteSummary(p) ==
    /\ pc[p] = "writeSummary"
    /\ written' = written \cup {attempt[p]}
    /\ Goto(p, "syncSummary")
    /\ UNCHANGED <<attempt, started, dirVars, parts, executed, faults, losses>>

(* Any other exception: a link that raises removes its temporary file. *)
Raise(p) ==
    /\ pc[p] # "idle"
    /\ Fault
    /\ temps' = CASE pc[p] = "linkReceipt" -> [temps EXCEPT !["receipt"] = @ \ {attempt[p]}]
                  [] pc[p] = "linkManifest" -> [temps EXCEPT !["manifest"] = @ \ {attempt[p]}]
                  [] OTHER -> temps
    /\ Goto(p, "idle")
    /\ UNCHANGED <<attempt, started, at, atDisk, tempsDisk, parts, written, executed, losses>>

Kill(p) ==
    /\ pc[p] # "idle"
    /\ Fault
    /\ Goto(p, "idle")
    /\ UNCHANGED <<attempt, started, dirVars, parts, written, executed, losses>>

(* The power fails: every name is found as it was or as last synced, a
   temporary name may be back, and any chunk may be gone. *)
PowerLoss ==
    /\ losses < MaxLosses
    /\ losses' = losses + 1
    /\ pc' = [p \in Processes |-> "idle"]
    /\ at' \in {found \in [Names -> 0..MaxAttempts] :
                  \A name \in Names : found[name] \in {at[name], atDisk[name]}}
    /\ temps' \in {found \in [Linked -> SUBSET Attempts] :
                     \A name \in Linked :
                        /\ temps[name] \cap tempsDisk[name] \subseteq found[name]
                        /\ found[name] \subseteq temps[name] \cup tempsDisk[name]}
    /\ atDisk' = at' /\ tempsDisk' = temps'
    /\ parts' \in {found \in [Attempts -> SUBSET (1..Chunks)] :
                     \A a \in Attempts : found[a] \subseteq parts[a]}
    /\ UNCHANGED <<attempt, started, written, executed, faults>>

Step(p) ==
    \/ WriteTemp(p, "receipt", "linkReceipt")
    \/ Link(p, "receipt", "linkReceipt", "unlinkReceipt")
    \/ UnlinkTemp(p, "receipt", "unlinkReceipt", "syncReceipt")
    \/ Sync(p, "syncReceipt", "execute")
    \/ Execute(p)
    \/ BeginChunks(p)
    \/ WriteChunk(p)
    \/ WriteTemp(p, "manifest", "linkManifest")
    \/ Link(p, "manifest", "linkManifest", "unlinkManifest")
    \/ UnlinkTemp(p, "manifest", "unlinkManifest", "syncManifest")
    \/ Sync(p, "syncManifest", "verify")
    \/ VerifyPublished(p)
    \/ CreateSummary(p)
    \/ WriteSummary(p)
    \/ Sync(p, "syncSummary", "idle")

Init ==
    /\ pc = [p \in Processes |-> "idle"]
    /\ attempt = [p \in Processes |-> 0]
    /\ started = 0
    /\ at = [name \in Names |-> 0]
    /\ temps = [name \in Linked |-> {}]
    /\ atDisk = at
    /\ tempsDisk = temps
    /\ parts = [a \in Attempts |-> {}]
    /\ written = {}
    /\ executed = {}
    /\ faults = 0
    /\ losses = 0

Next ==
    \/ \E p \in Processes : Start(p) \/ Step(p) \/ Raise(p) \/ Kill(p)
    \/ PowerLoss

Spec == Init /\ [][Next]_vars
-----------------------------------------------------------------------------
Once == INSTANCE OneAttempt WITH NoAttempt <- 0, consumed <- at["receipt"]

(* "Execute one authorized run": whatever is started, raised, killed or lost,
   the receipt is consumed before the population is built, only the call that
   consumed it executes, and an executed attempt is never given back. *)
ExecutedOnce == Once!AttemptSpec

(* Whatever of the evidence is visible belongs to the call of the receipt, and
   that call has executed; also after a power loss, which never takes the
   receipt away from under what it covers. *)
EvidenceHasReceipt ==
    \A name \in Names \ {"receipt"} :
        at[name] # 0 => at[name] = at["receipt"] /\ at[name] \in executed

(* "Publish one exclusive manifest last": until the power fails, a visible
   manifest has all its chunks, and a complete summary stands for evidence that
   the verifier accepts.  (The chunk directory is never synced, so that after a
   power loss the verifier may have to refuse.) *)
PublishedComplete ==
    losses = 0 =>
        \A a \in Attempts :
            /\ at["manifest"] = a => at["chunks"] = a /\ parts[a] = 1..Chunks
            /\ a \in written => Readable(a)
=============================================================================

-------------------------- MODULE EvaluationService --------------------------
(***************************************************************************)
(* The defense evaluation service of evaluation/service.py: processes that  *)
(* share an artifact root bind the evaluator's capability when they start,  *)
(* and answer create and get over one signed index, a file per input pair,  *)
(* under a file lock.                                                       *)
(*                                                                          *)
(* Files are published by linking a synced temporary file and removing its  *)
(* name.  A name is lost with the power, or comes back, until the directory *)
(* is synced; locks go with the process.  Input pairs are numbered from 1,  *)
(* 0 is none; what an evaluation finds depends on its inputs alone.         *)
(***************************************************************************)
EXTENDS Integers, FiniteSets

CONSTANTS
    Processes,
    Keys,              \* input pairs
    EvaluationOf,      \* input pair -> the evaluation id its worker comes to
    MaxEvaluations,    \* entries the index may hold
    MaxKills, MaxLosses, MaxFaults    \* bounds: killed processes, power losses,
                                      \* calls of the file system that fail

ASSUME ServiceConstants ==
    /\ Keys \subseteq Nat \ {0} /\ IsFiniteSet(Keys)
    /\ MaxEvaluations \in Nat /\ MaxKills \in Nat /\ MaxLosses \in Nat
    /\ MaxFaults \in Nat

VARIABLES
    pc,            \* process -> where it is
    key,           \* process -> input pair of its call
    entry,         \* input pair -> its index file is there
    entryDisk,     \* the same as last synced
    temp,          \* input pairs that have a temporary name in the index
    tempDisk,
    config,        \* the capability binding: "absent", "double" (two names) or "single"
    configDisk,
    stray,         \* a temporary file of a binding may be there
    answered,      \* input pairs a create has been answered for
    completed,     \* those whose evaluation was published by a create that returned
    kills, losses, faults

indexVars == <<entry, entryDisk, temp, tempDisk>>
configVars == <<config, configDisk, stray>>
answerVars == <<answered, completed>>
boundVars == <<kills, losses, faults>>
vars == <<pc, key, indexVars, configVars, answerVars, boundVars>>

(* flock: the lock of the bindings, and the lock of the index, held by one
   writer or by readers. *)
BindLocked == {"bound?", "link binding", "sync binding", "unlink binding"}
Discarding == {"load sync", "read sync"}
Writing == {"load", "read", "execute", "publish", "link", "sync", "unlink"} \cup Discarding
BindFree == \A p \in Processes : pc[p] \notin BindLocked
IndexFree == \A p \in Processes : pc[p] \notin Writing

Goto(p, next) == pc' = [pc EXCEPT ![p] = next]

Return(p, next) == Goto(p, next) /\ key' = [key EXCEPT ![p] = 0]

Published == {k \in Keys : entry[k]}

(* A call of the file system fails; MaxKills bounds kills and failures together. *)
Fault ==
    /\ faults < MaxFaults /\ kills + faults < MaxKills
    /\ faults' = faults + 1
    /\ UNCHANGED <<kills, losses>>
-----------------------------------------------------------------------------
(* _ServiceConfigRepository.bind, when a process starts. *)
Start(p) ==
    /\ pc[p] = "down"
    /\ Goto(p, "bind")
    /\ UNCHANGED <<key, indexVars, configVars, answerVars, boundVars>>

LockBinding(p) ==
    /\ pc[p] = "bind" /\ BindFree
    /\ Goto(p, "bound?")
    /\ UNCHANGED <<key, indexVars, configVars, answerVars, boundVars>>

(* The binding is there.  A file with two names is refused, by every start;
   the process then runs without the service. *)
FindBinding(p) ==
    /\ pc[p] = "bound?" /\ config # "absent"
    /\ Goto(p, IF config = "single" THEN "wait load" ELSE "unavailable")
    /\ UNCHANGED <<key, indexVars, configVars, answerVars, boundVars>>

WriteBinding(p) ==
    /\ pc[p] = "bound?" /\ config = "absent"
    /\ stray' = TRUE
    /\ Goto(p, "link binding")
    /\ UNCHANGED <<key, indexVars, config, configDisk, answerVars, boundVars>>

(* The temporary name has the ids of a process and a thread, which are used
   again: O_EXCL fails, and the start with it. *)
BindingCollides(p) ==
    /\ pc[p] = "bound?" /\ config = "absent" /\ stray
    /\ Goto(p, "down")
    /\ UNCHANGED <<key, indexVars, configVars, answerVars, boundVars>>

LinkBinding(p) ==
    /\ pc[p] = "link binding"
    /\ config' = "double"
    /\ Goto(p, "sync binding")
    /\ UNCHANGED <<key, indexVars, configDisk, stray, answerVars, boundVars>>

SyncBinding(p) ==
    /\ pc[p] = "sync binding"
    /\ configDisk' = config
    /\ Goto(p, "unlink binding")
    /\ UNCHANGED <<key, indexVars, config, stray, answerVars, boundVars>>

UnlinkBinding(p) ==
    /\ pc[p] = "unlink binding"
    /\ config' = "single"
    /\ Goto(p, "wait load")
    /\ UNCHANGED <<key, indexVars, configDisk, stray, answerVars, boundVars>>

(* Writing, linking, syncing or unlinking fails, and the start with it; the
   temporary name goes when that can be. *)
BindingFails(p) ==
    /\ \/ /\ pc[p] = "bound?" /\ config = "absent"
          /\ stray' \in {stray, TRUE}
          /\ UNCHANGED config
       \/ /\ pc[p] \in {"link binding", "sync binding", "unlink binding"}
          /\ config' \in {config, IF config = "double" THEN "single" ELSE config}
          /\ UNCHANGED stray
    /\ Fault
    /\ Goto(p, "down")
    /\ UNCHANGED <<key, indexVars, configDisk, answerVars>>
-----------------------------------------------------------------------------
(* create and get are called. *)
Create(p, k) ==
    /\ pc[p] = "up"
    /\ key' = [key EXCEPT ![p] = k]
    /\ Goto(p, "wait create")
    /\ UNCHANGED <<indexVars, configVars, answerVars, boundVars>>

Get(p) ==
    /\ pc[p] = "up" /\ IndexFree
    /\ Goto(p, "get")
    /\ UNCHANGED <<key, indexVars, configVars, answerVars, boundVars>>

(* Whatever it finds: an entry with two names, or none, is refused. *)
EndGet(p) ==
    /\ pc[p] = "get"
    /\ Goto(p, "up")
    /\ UNCHANGED <<key, indexVars, configVars, answerVars, boundVars>>

LockIndex(p) ==
    /\ pc[p] \in {"wait load", "wait create"}
    /\ IndexFree /\ \A q \in Processes : pc[q] # "get"
    /\ Goto(p, IF pc[p] = "wait load" THEN "load" ELSE "read")
    /\ UNCHANGED <<key, indexVars, configVars, answerVars, boundVars>>

(* _discard_interrupted_temporary, for what a killed process left: the name
   goes, and then the directory is synced. *)
Discard(p) ==
    /\ pc[p] \in {"load", "read"}
    /\ \E k \in temp : temp' = temp \ {k}
    /\ Goto(p, IF pc[p] = "load" THEN "load sync" ELSE "read sync")
    /\ UNCHANGED <<key, entry, entryDisk, tempDisk, configVars, answerVars, boundVars>>

(* Mutant: the directory is not synced. *)
SyncDiscardedSkipped(p) ==
    /\ pc[p] \in Discarding
    /\ Goto(p, IF pc[p] = "load sync" THEN "load" ELSE "read")
    /\ UNCHANGED <<key, indexVars, configVars, answerVars, boundVars>>

SyncDiscarded(p) ==
    /\ pc[p] \in Discarding
    /\ entryDisk' = entry
    /\ tempDisk' = temp
    /\ Goto(p, IF pc[p] = "load sync" THEN "load" ELSE "read")
    /\ UNCHANGED <<key, entry, temp, configVars, answerVars, boundVars>>

(* The unlink fails, or the sync after it: the start fails, or the create. *)
DiscardFails(p) ==
    /\ pc[p] \in Discarding \/ (pc[p] \in {"load", "read"} /\ temp # {})
    /\ Fault
    /\ Return(p, IF pc[p] \in {"load", "load sync"} THEN "down" ELSE "up")
    /\ UNCHANGED <<indexVars, configVars, answerVars>>

(* All entries are read and validated. *)
Load(p) ==
    /\ pc[p] = "load" /\ temp = {}
    /\ Goto(p, "up")
    /\ UNCHANGED <<key, indexVars, configVars, answerVars, boundVars>>

(* The evaluation was published before. *)
ReadExisting(p) ==
    /\ pc[p] = "read" /\ temp = {} /\ entry[key[p]]
    /\ answered' = answered \cup {key[p]}
    /\ Return(p, "up")
    /\ UNCHANGED <<indexVars, configVars, completed, boundVars>>

(* It was not, and the index is full. *)
RefuseFull(p) ==
    /\ pc[p] = "read" /\ temp = {} /\ ~entry[key[p]]
    /\ Cardinality(Published) >= MaxEvaluations
    /\ Return(p, "up")
    /\ UNCHANGED <<indexVars, configVars, answerVars, boundVars>>

(* It was not, and the worker is started. *)
ReadNew(p) ==
    /\ pc[p] = "read" /\ temp = {} /\ ~entry[key[p]]
    /\ Cardinality(Published) < MaxEvaluations
    /\ Goto(p, "execute")
    /\ UNCHANGED <<key, indexVars, configVars, answerVars, boundVars>>

(* A result that passes the publication gates; artifacts and restricted receipt
   are stored. *)
WorkerAnswers(p) ==
    /\ pc[p] = "execute"
    /\ Goto(p, "publish")
    /\ UNCHANGED <<key, indexVars, configVars, answerVars, boundVars>>

(* Mutant: the worker may take for ever. *)
WorkerEndsNever(p) == FALSE /\ UNCHANGED vars

(* The worker fails, its result is refused, or its time is up. *)
WorkerEnds(p) ==
    /\ pc[p] = "execute"
    /\ Return(p, "up")
    /\ UNCHANGED <<indexVars, configVars, answerVars, boundVars>>

(* Mutant: the ids of the evaluations in the index are not looked at. *)
AmbiguousUnseen(k) == FALSE

(* The evaluation id is that of another input pair in the index. *)
Ambiguous(k) == \E other \in Published : EvaluationOf[other] = EvaluationOf[k]

PublishRefused(p) ==
    /\ pc[p] = "publish" /\ Ambiguous(key[p])
    /\ Return(p, "up")
    /\ UNCHANGED <<indexVars, configVars, answerVars, boundVars>>

(* _IndexRepository.publish: temporary file, link, sync, unlink. *)
WriteEntry(p) ==
    /\ pc[p] = "publish" /\ ~Ambiguous(key[p])
    /\ temp' = temp \cup {key[p]}
    /\ Goto(p, "link")
    /\ UNCHANGED <<key, entry, entryDisk, tempDisk, configVars, answerVars, boundVars>>

LinkEntry(p) ==
    /\ pc[p] = "link"
    /\ entry' = [entry EXCEPT ![key[p]] = TRUE]
    /\ Goto(p, "sync")
    /\ UNCHANGED <<key, entryDisk, temp, tempDisk, configVars, answerVars, boundVars>>

(* Mutant: the directory is not synced after the link. *)
SyncEntrySkipped(p) ==
    /\ pc[p] = "sync"
    /\ Goto(p, "unlink")
    /\ UNCHANGED <<key, indexVars, configVars, answerVars, boundVars>>

SyncEntry(p) ==
    /\ pc[p] = "sync"
    /\ entryDisk' = entry
    /\ tempDisk' = temp
    /\ Goto(p, "unlink")
    /\ UNCHANGED <<key, entry, temp, configVars, answerVars, boundVars>>

UnlinkEntry(p) ==
    /\ pc[p] = "unlink"
    /\ temp' = temp \ {key[p]}
    /\ answered' = answered \cup {key[p]}
    /\ completed' = completed \cup {key[p]}
    /\ Return(p, "up")
    /\ UNCHANGED <<entry, entryDisk, tempDisk, configVars, boundVars>>

(* Writing the temporary file, linking, syncing or unlinking fails, and the
   create with it.  A file that was written is removed, unless that fails too;
   an entry that was linked stays, synced or not. *)
PublishFails(p) ==
    /\ \/ /\ pc[p] = "publish" /\ ~Ambiguous(key[p])
          /\ temp' \in {temp, temp \cup {key[p]}}
       \/ /\ pc[p] \in {"link", "sync", "unlink"}
          /\ temp' \in {temp, temp \ {key[p]}}
    /\ Fault
    /\ Return(p, "up")
    /\ UNCHANGED <<entry, entryDisk, tempDisk, configVars, answerVars>>
-----------------------------------------------------------------------------
Kill(p) ==
    /\ pc[p] # "down" /\ kills + faults < MaxKills
    /\ kills' = kills + 1
    /\ Return(p, "down")
    /\ UNCHANGED <<indexVars, configVars, answerVars, losses, faults>>

(* Every name is as it was or as it was last synced. *)
PowerLoss ==
    /\ losses < MaxLosses
    /\ losses' = losses + 1
    /\ pc' = [p \in Processes |-> "down"] /\ key' = [p \in Processes |-> 0]
    /\ entry' \in {e \in [Keys -> BOOLEAN] : \A k \in Keys : e[k] \in {entry[k], entryDisk[k]}}
    /\ entryDisk' = entry'
    /\ temp' \in {t \in SUBSET (temp \cup tempDisk) : temp \cap tempDisk \subseteq t}
    /\ tempDisk' = temp'
    /\ config' \in {config, configDisk}
    /\ configDisk' = config'
    /\ stray' \in {stray, FALSE}
    /\ UNCHANGED <<answerVars, kills, faults>>

(* A process stops when it is told to, between two calls. *)
Shutdown(p) ==
    /\ pc[p] \in {"up", "unavailable"}
    /\ Goto(p, "down")
    /\ UNCHANGED <<key, indexVars, configVars, answerVars, boundVars>>

Init ==
    /\ pc = [p \in Processes |-> "down"]
    /\ key = [p \in Processes |-> 0]
    /\ entry = [k \in Keys |-> FALSE]
    /\ entryDisk = [k \in Keys |-> FALSE]
    /\ temp = {} /\ tempDisk = {}
    /\ config = "absent" /\ configDisk = "absent" /\ stray = FALSE
    /\ answered = {} /\ completed = {}
    /\ kills = 0 /\ losses = 0 /\ faults = 0

Binding(p) ==
    \/ LockBinding(p) \/ FindBinding(p) \/ WriteBinding(p) \/ BindingCollides(p)
    \/ LinkBinding(p) \/ SyncBinding(p) \/ UnlinkBinding(p)

(* What a process does while it holds the lock of the index, other than
   wait for its worker. *)
Holding(p) ==
    \/ Discard(p) \/ SyncDiscarded(p) \/ Load(p)
    \/ ReadExisting(p) \/ RefuseFull(p) \/ ReadNew(p) \/ WorkerEnds(p)
    \/ PublishRefused(p) \/ WriteEntry(p) \/ LinkEntry(p) \/ SyncEntry(p) \/ UnlinkEntry(p)

Failing(p) == BindingFails(p) \/ DiscardFails(p) \/ PublishFails(p)

Next ==
    \/ \E p \in Processes :
          \/ Start(p) \/ Binding(p)
          \/ Get(p) \/ EndGet(p) \/ LockIndex(p)
          \/ \E k \in Keys : Create(p, k)
          \/ Holding(p) \/ WorkerAnswers(p)
          \/ Failing(p) \/ Kill(p) \/ Shutdown(p)
    \/ PowerLoss

Spec == Init /\ [][Next]_vars

(* A process that has the lock goes on, and a worker's time runs out. *)
FairSpec == Spec /\ \A p \in Processes : WF_vars(Holding(p))
-----------------------------------------------------------------------------
TypeOK ==
    /\ pc \in [Processes -> {"down", "bind", "unavailable", "wait load", "up", "wait create", "get"}
                              \cup BindLocked \cup Writing]
    /\ key \in [Processes -> Keys \cup {0}]
    /\ entry \in [Keys -> BOOLEAN] /\ entryDisk \in [Keys -> BOOLEAN]
    /\ temp \subseteq Keys /\ tempDisk \subseteq Keys
    /\ config \in {"absent", "double", "single"}
    /\ configDisk \in {"absent", "double", "single"}
    /\ stray \in BOOLEAN
    /\ answered \subseteq Keys /\ completed \subseteq Keys
    /\ kills \in Nat /\ losses \in Nat /\ faults \in Nat

(* The service is "durable": an evaluation a create was answered with stays in
   the index.  It does not when the only sync its entry had to come was that of
   a cleanup which ended between the unlink and the sync, or when the sync of
   its own create failed: nothing syncs the entry then, and it is answered. *)
AnsweredKept == \A k \in answered : entry[k]

(* What the code does keep: the evaluation of a create that published it and
   returned, whatever fails, is killed or loses power later; and every answer, the
   answers from what a killed process left included, when no call of the file
   system fails and one process at most is killed. *)
AnswersStay ==
    /\ \A k \in completed : entry[k]
    /\ faults = 0 /\ kills <= 1 => AnsweredKept

(* The index always loads: a reader refuses it altogether when two input pairs
   share an evaluation id, and when there are more than MAX_EVALUATIONS. *)
IndexLoads ==
    /\ \A j, k \in Published : EvaluationOf[j] = EvaluationOf[k] => j = k
    /\ Cardinality(Published) <= MaxEvaluations

(* What a create was answered with can be had: it is in the index, and the index
   as a whole is never refused. *)
AnswersLoad == AnswersStay /\ IndexLoads

(* The lock is given back again and again, also when the worker hangs. *)
LockReleased == []<>IndexFree

(* A process that starts finds the durable binding it can use. *)
BindingUsable == \A p \in Processes : pc[p] # "unavailable"
=============================================================================

--------------------------- MODULE EvaluatorProofs ---------------------------
(***************************************************************************)
(* The two programs that hold an evaluator's capability, the evaluation     *)
(* service and then the authority of the hidden evaluation, and the search  *)
(* that asks its evaluators.                                                *)
(***************************************************************************)
EXTENDS EvaluationService, HiddenAuthority, SearchExperiment, Foundations
-----------------------------------------------------------------------------
(***************************************************************************)
(* For any number of processes, input pairs, kills, power losses and        *)
(* failing calls: the index of the evaluation service always loads; the     *)
(* evaluation of a create that published it and returned stays in it; and   *)
(* so does every other answer while nothing failed and one process at most  *)
(* was killed.                                                              *)
(*                                                                          *)
(* Why: at most one process is between taking and leaving the exclusive     *)
(* lock, and a create returns after its sync.  As long as nobody was killed *)
(* an entry that is not on disk is that of a publisher about to sync it;    *)
(* after one kill it still has its temporary name, or somebody who has just *)
(* removed that name is about to sync, and no create is answered meanwhile. *)
(***************************************************************************)

Labels == {"down", "bind", "unavailable", "wait load", "up", "wait create", "get"}
            \cup BindLocked \cup Writing

OneWriter ==
    \A p, q \in Processes : pc[p] \in Writing /\ pc[q] \in Writing => p = q

DiskFollows == \A k \in Keys : entryDisk[k] => entry[k]

Unsynced(k) == entry[k] /\ ~entryDisk[k]

UnsyncedIsPublishing ==
    faults = 0 /\ kills = 0 =>
        \A k \in Keys : Unsynced(k) => \E p \in Processes : pc[p] = "sync" /\ key[p] = k

UnsyncedIsFound ==
    faults = 0 /\ kills <= 1 =>
        \A k \in Keys : Unsynced(k) => k \in temp \/ \E p \in Processes : pc[p] \in Discarding

AnsweredOnDisk ==
    /\ \A k \in completed : entryDisk[k]
    /\ faults = 0 /\ kills <= 1 => \A k \in answered : entryDisk[k]

HasRoom == Cardinality(Published) < MaxEvaluations

CallKeys ==
    \A p \in Processes :
        pc[p] \in {"wait create", "read", "read sync", "execute", "publish", "link", "sync",
                   "unlink"} => key[p] \in Keys

(* What a process knows while it has the lock. *)
Claims ==
    \A p \in Processes :
        /\ pc[p] \in {"execute", "publish"} => temp = {}
        /\ pc[p] \in {"execute", "publish", "link"} => ~entry[key[p]] /\ HasRoom
        /\ pc[p] \in {"link", "sync", "unlink"} => temp = {key[p]}
        /\ pc[p] = "link" => ~Ambiguous(key[p])
        /\ pc[p] = "sync" => entry[key[p]]
        /\ pc[p] = "unlink" => entryDisk[key[p]]

TypeInv == TypeOK /\ CallKeys

IInv ==
    /\ TypeInv /\ OneWriter /\ DiskFollows /\ UnsyncedIsPublishing /\ UnsyncedIsFound
    /\ AnsweredOnDisk /\ Claims /\ IndexLoads
-----------------------------------------------------------------------------
(* Every step keeps the types. *)
LEMMA InitTypes == Init => TypeInv
<1> SUFFICES ASSUME Init PROVE TypeInv
  OBVIOUS
<1>1. entry \in [Keys -> BOOLEAN] /\ entryDisk \in [Keys -> BOOLEAN] /\ stray \in BOOLEAN
  BY Zenon DEF Init
<1> QED BY <1>1, ServiceConstants DEF Init, TypeInv, TypeOK, CallKeys

LEMMA StepTypes == TypeInv /\ [Next]_vars => TypeInv'
<1> SUFFICES ASSUME TypeInv, [Next]_vars PROVE TypeInv'
  OBVIOUS
<1> USE ServiceConstants DEF TypeInv, TypeOK, CallKeys, BindLocked, Writing, Discarding, Goto,
               Return, indexVars, configVars, answerVars, boundVars
<1>1. ASSUME NEW p \in Processes, Start(p) \/ Binding(p) PROVE TypeInv'
  <2>1. CASE Start(p) BY <2>1 DEF Start
  <2>2. CASE LockBinding(p) BY <2>2 DEF LockBinding
  <2>3. CASE FindBinding(p) BY <2>3 DEF FindBinding
  <2>4. CASE WriteBinding(p) BY <2>4 DEF WriteBinding
  <2>5. CASE BindingCollides(p) BY <2>5 DEF BindingCollides
  <2>6. CASE LinkBinding(p) BY <2>6 DEF LinkBinding
  <2>7. CASE SyncBinding(p) BY <2>7 DEF SyncBinding
  <2>8. CASE UnlinkBinding(p) BY <2>8 DEF UnlinkBinding
  <2> QED BY <1>1, <2>1, <2>2, <2>3, <2>4, <2>5, <2>6, <2>7, <2>8 DEF Binding
<1>2. ASSUME NEW p \in Processes, Get(p) \/ EndGet(p) \/ LockIndex(p) \/ WorkerAnswers(p)
                                  \/ Shutdown(p)
      PROVE TypeInv'
  <2>1. CASE Get(p) \/ EndGet(p) BY <2>1 DEF Get, EndGet
  <2>2. CASE LockIndex(p) BY <2>2 DEF LockIndex
  <2>3. CASE WorkerAnswers(p) \/ Shutdown(p) BY <2>3 DEF WorkerAnswers, Shutdown
  <2> QED BY <1>2, <2>1, <2>2, <2>3
<1>3. ASSUME NEW p \in Processes, NEW k \in Keys, Create(p, k) PROVE TypeInv'
  BY <1>3 DEF Create
<1>4. ASSUME NEW p \in Processes, Holding(p) PROVE TypeInv'
  <2>1. CASE Discard(p) BY <2>1 DEF Discard
  <2>2. CASE SyncDiscarded(p) BY <2>2 DEF SyncDiscarded
  <2>3. CASE Load(p) BY <2>3 DEF Load
  <2>4. CASE ReadExisting(p) BY <2>4 DEF ReadExisting
  <2>5. CASE RefuseFull(p) \/ ReadNew(p) BY <2>5 DEF RefuseFull, ReadNew
  <2>6. CASE WorkerEnds(p) BY <2>6 DEF WorkerEnds
  <2>7. CASE PublishRefused(p) BY <2>7 DEF PublishRefused
  <2>8. CASE WriteEntry(p) BY <2>8 DEF WriteEntry
  <2>9. CASE LinkEntry(p) BY <2>9 DEF LinkEntry
  <2>10. CASE SyncEntry(p) BY <2>10 DEF SyncEntry
  <2>11. CASE UnlinkEntry(p) BY <2>11 DEF UnlinkEntry
  <2> QED BY <1>4, <2>1, <2>2, <2>3, <2>4, <2>5, <2>6, <2>7, <2>8, <2>9, <2>10, <2>11
          DEF Holding
<1>5. ASSUME NEW p \in Processes, Kill(p) PROVE TypeInv'
  <2>1. kills' \in Nat /\ losses' = losses /\ faults' = faults
    <3>1. kills \in Nat
      OBVIOUS
    <3> HIDE DEF TypeInv, CallKeys, TypeOK
    <3> QED BY <1>5, <3>1, SMT DEF Kill
  <2>2. Return(p, "down") /\ UNCHANGED <<indexVars, configVars, answerVars>>
    BY <1>5 DEF Kill
  <2> QED BY <2>1, <2>2
<1>6. ASSUME NEW p \in Processes, Failing(p) PROVE TypeInv'
  <2>1. faults' \in Nat /\ UNCHANGED <<kills, losses>>
    <3>1. faults \in Nat
      OBVIOUS
    <3>2. Fault
      BY <1>6 DEF Failing, BindingFails, DiscardFails, PublishFails
    <3> HIDE DEF TypeInv, CallKeys, TypeOK
    <3> QED BY <3>1, <3>2, SMT DEF Fault
  <2>2. CASE BindingFails(p)
    <3>1. config' \in {"absent", "double", "single"} /\ stray' \in BOOLEAN
      BY <2>2 DEF BindingFails
    <3>2. /\ pc' = [pc EXCEPT ![p] = "down"] /\ configDisk' = configDisk
          /\ UNCHANGED <<key, indexVars, answerVars>>
      BY <2>2 DEF BindingFails
    <3> QED BY <2>1, <3>1, <3>2
  <2>3. CASE DiscardFails(p) BY <2>1, <2>3 DEF DiscardFails
  <2>4. CASE PublishFails(p)
    <3>1. key[p] \in Keys /\ temp \subseteq Keys
      BY <2>4 DEF PublishFails
    <3>2. temp' \in {temp, temp \cup {key[p]}, temp \ {key[p]}}
      BY <2>4 DEF PublishFails
    <3>3. temp' \subseteq Keys
      <4> HIDE DEF TypeInv, CallKeys, TypeOK
      <4> QED BY <3>1, <3>2
    <3>4. Return(p, "up") /\ UNCHANGED <<entry, entryDisk, tempDisk, configVars, answerVars>>
      BY <2>4 DEF PublishFails
    <3> QED BY <2>1, <3>3, <3>4
  <2> QED BY <1>6, <2>2, <2>3, <2>4 DEF Failing
<1>7. CASE PowerLoss
  <2>1. entry' \in [Keys -> BOOLEAN] /\ entryDisk' \in [Keys -> BOOLEAN]
    BY <1>7, Zenon DEF PowerLoss
  <2>2. stray' \in BOOLEAN
    BY <1>7, Zenon DEF PowerLoss
  <2>3. /\ temp' \subseteq Keys /\ tempDisk' \subseteq Keys
        /\ config' \in {"absent", "double", "single"}
        /\ configDisk' \in {"absent", "double", "single"}
    BY <1>7 DEF PowerLoss
  <2>4. /\ pc' = [p \in Processes |-> "down"] /\ key' = [p \in Processes |-> 0]
        /\ UNCHANGED answerVars
    BY <1>7 DEF PowerLoss
  <2>5. losses' \in Nat /\ UNCHANGED <<kills, faults>>
    <3>1. losses \in Nat
      OBVIOUS
    <3> HIDE DEF TypeInv, CallKeys, TypeOK
    <3> QED BY <1>7, <3>1, SMT DEF PowerLoss
  <2> QED BY <2>1, <2>2, <2>3, <2>4, <2>5
<1>8. CASE UNCHANGED vars
  BY <1>8 DEF vars
<1> QED BY <1>1, <1>2, <1>3, <1>4, <1>5, <1>6, <1>7, <1>8 DEF Next

(* Every step keeps the types: locks, index, binding and calls. *)
THEOREM TypeCorrect == FairSpec => []TypeOK
<1>1. TypeInv => TypeOK
  BY DEF TypeInv
<1> QED BY <1>1, InitTypes, StepTypes, PTL DEF FairSpec, Spec
-----------------------------------------------------------------------------
(* Some process moves, and the others stay where they are in their calls. *)
Moves(p) == \A q \in Processes : q # p => pc'[q] = pc[q] /\ key'[q] = key[q]

LEMMA GotoMoves ==
  ASSUME TypeOK, NEW p \in Processes, NEW label, Goto(p, label),
         key' = key \/ key' = [key EXCEPT ![p] = 0]
  PROVE  Moves(p) /\ pc'[p] = label
BY DEF TypeOK, Goto, Moves

(* While a process has the lock no other claims anything. *)
LEMMA Alone ==
  ASSUME IInv, NEW p \in Processes, pc[p] \in Writing, Moves(p)
  PROVE  OneWriter' /\ \A q \in Processes : q # p => pc'[q] \notin Writing
BY DEF IInv, OneWriter, Moves

(* A process that is outside the lock after its step claims nothing: if it
   did not touch the index, everything stays as it was. *)
LEMMA Outside ==
  ASSUME IInv, TypeInv', NEW p \in Processes, Moves(p), pc'[p] \notin Writing,
         pc[p] \notin Discarding \cup {"sync"},
         UNCHANGED <<entry, entryDisk, temp, answerVars, kills, faults>>
  PROVE  IInv'
<1>1. OneWriter'
  BY DEF IInv, OneWriter, Moves
<1>2. Published' = Published
  BY DEF Published
<1>3. Claims'
  BY <1>2 DEF IInv, Claims, Moves, Writing, HasRoom, Ambiguous
<1>4. DiskFollows' /\ AnsweredOnDisk' /\ IndexLoads'
  BY <1>2 DEF IInv, DiskFollows, AnsweredOnDisk, IndexLoads, answerVars
<1>5. UnsyncedIsPublishing'
  BY DEF IInv, UnsyncedIsPublishing, Unsynced, Moves
<1>6. UnsyncedIsFound'
  BY DEF IInv, UnsyncedIsFound, Unsynced, Moves
<1> QED BY <1>1, <1>3, <1>4, <1>5, <1>6 DEF IInv

LEMMA PublishedFinite == IsFiniteSet(Published) /\ Cardinality(Published) \in Nat
<1>1. Published \in SUBSET Keys
  BY DEF Published
<1>2. IsFiniteSet(Published)
  BY <1>1, ServiceConstants, FS_Subset
<1> QED BY <1>2, FS_CardinalityType

LEMMA InitInv == Init => IInv
<1> SUFFICES ASSUME Init PROVE IInv
  OBVIOUS
<1>1. TypeInv
  BY InitTypes
<1>2. Published = {}
  BY DEF Init, Published
<1>3. IndexLoads
  BY <1>2, FS_EmptySet, ServiceConstants DEF IndexLoads
<1>4. OneWriter /\ DiskFollows /\ AnsweredOnDisk /\ Claims
  BY DEF Init, OneWriter, DiskFollows, AnsweredOnDisk, Claims, Writing, Discarding
<1>5. UnsyncedIsPublishing /\ UnsyncedIsFound
  BY DEF Init, UnsyncedIsPublishing, UnsyncedIsFound, Unsynced
<1> QED BY <1>1, <1>3, <1>4, <1>5 DEF IInv

(* Steps of a process that leave it outside the lock. *)
LEMMA OutsideSteps ==
  ASSUME IInv, TypeInv', NEW p \in Processes,
         \/ Start(p) \/ Binding(p) \/ Get(p) \/ EndGet(p) \/ \E k \in Keys : Create(p, k)
         \/ Load(p) \/ RefuseFull(p) \/ WorkerEnds(p) \/ PublishRefused(p) \/ Shutdown(p)
  PROVE  IInv'
<1> USE DEF IInv, TypeInv, BindLocked, Writing, Discarding, indexVars, boundVars
<1>1. ASSUME NEW label, label \notin Writing, Goto(p, label),
             key' = key \/ key' = [key EXCEPT ![p] = 0],
             pc[p] \notin Discarding \cup {"sync"},
             UNCHANGED <<indexVars, answerVars, boundVars>>
      PROVE  IInv'
  BY <1>1, GotoMoves, Outside
<1>2. CASE Start(p) BY <1>1, <1>2 DEF Start
<1>3. CASE LockBinding(p) BY <1>1, <1>3 DEF LockBinding
<1>4. CASE FindBinding(p) BY <1>1, <1>4 DEF FindBinding
<1>5. CASE WriteBinding(p) BY <1>1, <1>5 DEF WriteBinding
<1>6. CASE BindingCollides(p) BY <1>1, <1>6 DEF BindingCollides
<1>7. CASE LinkBinding(p) BY <1>1, <1>7 DEF LinkBinding
<1>8. CASE SyncBinding(p) BY <1>1, <1>8 DEF SyncBinding
<1>9. CASE UnlinkBinding(p) BY <1>1, <1>9 DEF UnlinkBinding
<1>10. CASE Get(p) \/ EndGet(p) BY <1>1, <1>10 DEF Get, EndGet
<1>11. ASSUME NEW k \in Keys, Create(p, k) PROVE IInv'
  <2>1. Moves(p) /\ pc'[p] \notin Writing
    BY <1>11 DEF Create, Goto, Moves, TypeOK
  <2> QED BY <1>11, <2>1, Outside DEF Create
<1>12. CASE Load(p) BY <1>1, <1>12 DEF Load
<1>13. CASE RefuseFull(p) BY <1>1, <1>13 DEF RefuseFull, Return
<1>14. CASE WorkerEnds(p) BY <1>1, <1>14 DEF WorkerEnds, Return
<1>15. CASE PublishRefused(p) BY <1>1, <1>15 DEF PublishRefused, Return
<1>16. CASE Shutdown(p) BY <1>1, <1>16 DEF Shutdown
<1> QED BY <1>2, <1>3, <1>4, <1>5, <1>6, <1>7, <1>8, <1>9, <1>10, <1>11, <1>12, <1>13, <1>14,
           <1>15, <1>16 DEF Binding

(* A process that is killed or fails: what others claim stays, and it itself
   claims nothing any more. *)
LEMMA StoppedClaims ==
  ASSUME IInv, NEW p \in Processes, Moves(p), pc'[p] \notin Writing,
         UNCHANGED <<entry, entryDisk, completed>>,
         temp' = temp \/ pc[p] \in Writing
  PROVE  OneWriter' /\ Claims' /\ DiskFollows' /\ IndexLoads'
<1>1. OneWriter'
  BY DEF IInv, OneWriter, Moves
<1>2. Published' = Published
  BY DEF Published
<1>3. DiskFollows' /\ IndexLoads'
  BY <1>2 DEF IInv, DiskFollows, IndexLoads
<1>4. CASE pc[p] \in Writing
  <2>1. \A q \in Processes : pc'[q] \notin Writing
    BY <1>4, Alone
  <2> QED BY <1>1, <1>3, <2>1 DEF Claims, Writing
<1>5. CASE temp' = temp
  BY <1>1, <1>2, <1>3, <1>5 DEF IInv, Claims, Moves, Writing, HasRoom, Ambiguous
<1> QED BY <1>4, <1>5

LEMMA KillStep ==
  ASSUME IInv, TypeInv', NEW p \in Processes, Kill(p)
  PROVE  IInv'
<1>1. Moves(p) /\ pc'[p] = "down"
  BY GotoMoves DEF Kill, Return, IInv, TypeInv
<1>2. UNCHANGED <<entry, entryDisk, temp, answered, completed, faults>> /\ kills' = kills + 1
  BY DEF Kill, indexVars, answerVars
<1>3. kills \in Nat
  BY DEF IInv, TypeInv, TypeOK
<1>4. OneWriter' /\ Claims' /\ DiskFollows' /\ IndexLoads'
  BY <1>1, <1>2, StoppedClaims DEF Writing, Discarding
<1>5. kills' # 0 /\ (kills' <= 1 => kills = 0 /\ kills <= 1)
  BY <1>2, <1>3
<1>6. UnsyncedIsPublishing'
  BY <1>5 DEF UnsyncedIsPublishing
<1>7. UnsyncedIsFound'
  <2> SUFFICES ASSUME faults = 0, kills = 0, kills <= 1, NEW k \in Keys, Unsynced(k)
               PROVE  k \in temp
    BY <1>2, <1>5 DEF UnsyncedIsFound, Unsynced
  <2>1. PICK q \in Processes : pc[q] = "sync" /\ key[q] = k
    BY DEF IInv, UnsyncedIsPublishing
  <2> QED BY <2>1 DEF IInv, Claims
<1>8. AnsweredOnDisk'
  BY <1>2, <1>5 DEF IInv, AnsweredOnDisk
<1> QED BY <1>4, <1>6, <1>7, <1>8 DEF IInv

LEMMA FailingStep ==
  ASSUME IInv, TypeInv', NEW p \in Processes, Failing(p)
  PROVE  IInv'
<1> USE DEF Failing, BindingFails, DiscardFails, PublishFails
<1>1. Moves(p) /\ pc'[p] \in {"down", "up"}
  BY GotoMoves DEF Return, IInv, TypeInv
<1>2. UNCHANGED <<entry, entryDisk, completed>> /\ (temp' = temp \/ pc[p] \in Writing)
  BY DEF indexVars, answerVars, Writing
<1>3. faults' # 0
  <2>1. faults \in Nat
    BY DEF IInv, TypeInv, TypeOK
  <2>2. Fault
    OBVIOUS
  <2> HIDE DEF Failing, BindingFails, DiscardFails, PublishFails
  <2> QED BY <2>1, <2>2, SMT DEF Fault
<1>4. OneWriter' /\ Claims' /\ DiskFollows' /\ IndexLoads'
  BY <1>1, <1>2, StoppedClaims DEF Writing, Discarding
<1>5. UnsyncedIsPublishing' /\ UnsyncedIsFound' /\ AnsweredOnDisk'
  BY <1>2, <1>3 DEF UnsyncedIsPublishing, UnsyncedIsFound, AnsweredOnDisk, IInv
<1> QED BY <1>4, <1>5 DEF IInv

(* Steps that take the lock, and that use it without touching the index. *)
LEMMA ReadingSteps ==
  ASSUME IInv, TypeInv', NEW p \in Processes,
         LockIndex(p) \/ ReadExisting(p) \/ ReadNew(p) \/ WorkerAnswers(p)
  PROVE  IInv'
<1> USE DEF IInv, TypeInv, indexVars, boundVars
<1>0. /\ Moves(p) /\ pc[p] \notin Discarding \cup {"sync"}
      /\ UNCHANGED <<entry, entryDisk, temp, kills, faults, completed>>
  BY GotoMoves DEF LockIndex, ReadExisting, ReadNew, WorkerAnswers, Return, Discarding, answerVars
<1>1. Published' = Published
  BY <1>0 DEF Published
<1>2. /\ DiskFollows' /\ IndexLoads'
      /\ UNCHANGED <<entry, entryDisk, temp>>
  BY <1>0, <1>1 DEF DiskFollows, IndexLoads
<1>3. UnsyncedIsPublishing'
  BY <1>0 DEF UnsyncedIsPublishing, Unsynced, Moves
<1>4. UnsyncedIsFound'
  BY <1>0 DEF UnsyncedIsFound, Unsynced, Moves
<1>5. CASE LockIndex(p)
  <2>1. pc'[p] \in {"load", "read"}
    BY <1>5, GotoMoves DEF LockIndex
  <2>2. OneWriter'
    BY <1>0, <1>5, <2>1 DEF LockIndex, IndexFree, OneWriter, Moves
  <2>3. Claims'
    BY <1>0, <1>1, <1>2, <2>1 DEF Claims, Moves, HasRoom, Ambiguous
  <2>4. AnsweredOnDisk'
    BY <1>0, <1>5 DEF LockIndex, AnsweredOnDisk, answerVars
  <2> QED BY <1>2, <1>3, <1>4, <2>2, <2>3, <2>4
<1>6. CASE ReadExisting(p)
  <2>1. pc'[p] = "up" /\ pc[p] = "read"
    BY <1>6, GotoMoves DEF ReadExisting, Return
  <2>2. key[p] \in Keys /\ entry[key[p]] /\ temp = {}
    BY <1>6 DEF ReadExisting, CallKeys
  <2>3. \A q \in Processes : pc[q] \notin Discarding
    BY <2>1 DEF OneWriter, Writing, Discarding
  <2>4. faults = 0 /\ kills <= 1 => entryDisk[key[p]]
    BY <2>2, <2>3 DEF UnsyncedIsFound, Unsynced
  <2>5. AnsweredOnDisk'
    BY <1>0, <1>6, <2>4 DEF ReadExisting, AnsweredOnDisk
  <2>6. OneWriter' /\ Claims'
    BY <1>0, <1>1, <1>2, <2>1
       DEF OneWriter, Claims, Moves, HasRoom, Ambiguous, Writing, Discarding
  <2> QED BY <1>2, <1>3, <1>4, <2>5, <2>6
<1>7. CASE ReadNew(p)
  <2>1. pc'[p] = "execute" /\ pc[p] \in Writing /\ key' = key
    BY <1>7, GotoMoves DEF ReadNew, Writing
  <2>2. HasRoom /\ ~entry[key[p]] /\ temp = {}
    BY <1>7 DEF ReadNew, HasRoom
  <2>3. OneWriter' /\ \A q \in Processes : q # p => pc'[q] \notin Writing
    BY <1>0, <2>1, Alone
  <2>4. Claims' /\ AnsweredOnDisk'
    BY <1>0, <1>1, <1>2, <1>7, <2>1, <2>2, <2>3
       DEF ReadNew, Claims, AnsweredOnDisk, HasRoom, Ambiguous, Writing, answerVars
  <2> QED BY <1>2, <1>3, <1>4, <2>3, <2>4
<1>8. CASE WorkerAnswers(p)
  <2>1. pc'[p] = "publish" /\ pc[p] = "execute" /\ key' = key
    BY <1>8, GotoMoves DEF WorkerAnswers
  <2>2. OneWriter' /\ \A q \in Processes : q # p => pc'[q] \notin Writing
    BY <1>0, <2>1, Alone DEF Writing
  <2>3. Claims' /\ AnsweredOnDisk'
    BY <1>0, <1>1, <1>2, <1>8, <2>1, <2>2
       DEF WorkerAnswers, Claims, AnsweredOnDisk, HasRoom, Ambiguous, Writing, answerVars
  <2> QED BY <1>2, <1>3, <1>4, <2>2, <2>3
<1> QED BY <1>5, <1>6, <1>7, <1>8

(* Steps of the process that has the lock which change the index. *)
LEMMA WritingSteps ==
  ASSUME IInv, TypeInv', NEW p \in Processes,
         \/ Discard(p) \/ SyncDiscarded(p)
         \/ WriteEntry(p) \/ LinkEntry(p) \/ SyncEntry(p) \/ UnlinkEntry(p)
  PROVE  IInv'
<1> USE DEF IInv, TypeInv, boundVars
<1>1. Moves(p) /\ pc[p] \in Writing /\ UNCHANGED <<kills, faults>>
  BY GotoMoves
     DEF Discard, SyncDiscarded, WriteEntry, LinkEntry, SyncEntry, UnlinkEntry, Return, Writing,
         Discarding
<1>2. OneWriter' /\ \A q \in Processes : q # p => pc'[q] \notin Writing /\ pc[q] \notin Writing
  BY <1>1, Alone DEF OneWriter
<1>3. CASE Discard(p)
  <2>1. pc'[p] \in Discarding /\ pc[p] \in {"load", "read"}
    BY <1>3, GotoMoves DEF Discard, Discarding
  <2>2. UNCHANGED <<entry, entryDisk, answered, completed>>
    BY <1>3 DEF Discard, answerVars
  <2>3. DiskFollows' /\ AnsweredOnDisk' /\ UnsyncedIsFound'
    BY <1>1, <2>1, <2>2 DEF DiskFollows, AnsweredOnDisk, UnsyncedIsFound
  <2>4. UnsyncedIsPublishing'
    BY <1>1, <2>1, <2>2 DEF UnsyncedIsPublishing, Unsynced, Moves
  <2>5. Claims'
    BY <1>2, <2>1 DEF Claims, Writing, Discarding
  <2>6. IndexLoads'
    BY <2>2 DEF IndexLoads, Published
  <2> QED BY <1>2, <2>3, <2>4, <2>5, <2>6
<1>4. CASE SyncDiscarded(p)
  <2>1. pc'[p] \in {"load", "read"}
    BY <1>4, GotoMoves DEF SyncDiscarded
  <2>2. entry' = entry /\ entryDisk' = entry /\ UNCHANGED <<answered, completed>>
    BY <1>4 DEF SyncDiscarded, answerVars
  <2>3. DiskFollows' /\ AnsweredOnDisk' /\ UnsyncedIsFound' /\ UnsyncedIsPublishing'
    BY <1>1, <2>2
       DEF DiskFollows, AnsweredOnDisk, UnsyncedIsFound, UnsyncedIsPublishing, Unsynced, TypeOK
  <2>4. Claims'
    BY <1>2, <2>1 DEF Claims, Writing
  <2>5. IndexLoads'
    BY <2>2 DEF IndexLoads, Published
  <2> QED BY <1>2, <2>3, <2>4, <2>5
<1>5. CASE WriteEntry(p)
  <2>1. /\ pc[p] = "publish" /\ temp = {} /\ temp' = {key[p]} /\ pc'[p] = "link" /\ key' = key
        /\ UNCHANGED <<entry, entryDisk, answered, completed>>
    BY <1>5, GotoMoves DEF WriteEntry, Claims, answerVars
  <2>2. Published' = Published
    BY <2>1 DEF Published
  <2>3. DiskFollows' /\ AnsweredOnDisk'
    BY <1>1, <2>1 DEF DiskFollows, AnsweredOnDisk
  <2>4. UnsyncedIsPublishing'
    BY <1>1, <2>1 DEF UnsyncedIsPublishing, Unsynced, Moves
  <2>5. UnsyncedIsFound'
    BY <1>1, <2>1 DEF UnsyncedIsFound, Unsynced, Moves, Discarding
  <2>6. Claims'
    BY <1>1, <1>2, <1>5, <2>1, <2>2 DEF WriteEntry, Claims, Writing, HasRoom, Ambiguous
  <2>7. IndexLoads'
    BY <2>2 DEF IndexLoads
  <2> QED BY <1>2, <2>3, <2>4, <2>5, <2>6, <2>7
<1>6. CASE LinkEntry(p)
  <2>1. /\ key[p] \in Keys /\ temp = {key[p]} /\ temp' = temp
        /\ ~Ambiguous(key[p]) /\ HasRoom /\ key' = key
        /\ entry' = [entry EXCEPT ![key[p]] = TRUE]
        /\ UNCHANGED <<entryDisk, answered, completed>>
    BY <1>6 DEF LinkEntry, CallKeys, Claims, answerVars
  <2>2. pc'[p] = "sync" /\ pc[p] = "link" /\ entry'[key[p]]
    BY <1>6, <2>1, GotoMoves DEF LinkEntry, TypeOK
  <2>3. \A k \in Keys : k # key[p] => entry'[k] = entry[k]
    BY <2>1 DEF TypeOK
  <2>4. DiskFollows' /\ AnsweredOnDisk'
    BY <1>1, <2>1, <2>2, <2>3 DEF DiskFollows, AnsweredOnDisk
  <2>5. UnsyncedIsPublishing'
    BY <1>1, <2>1, <2>2, <2>3 DEF UnsyncedIsPublishing, Unsynced, Moves
  <2>6. UnsyncedIsFound'
    BY <1>1, <2>1, <2>2, <2>3 DEF UnsyncedIsFound, Unsynced, Moves, Discarding
  <2>7. Claims'
    BY <1>1, <1>2, <2>1, <2>2 DEF Claims, Writing
  <2>8. Published' = Published \cup {key[p]}
    BY <2>1 DEF Published, TypeOK
  <2>9. Cardinality(Published') <= MaxEvaluations
    <3>1. Cardinality(Published \cup {key[p]}) <= Cardinality(Published) + 1
      BY PublishedFinite, FS_AddElement
    <3>2. Cardinality(Published \cup {key[p]}) \in Nat
      BY PublishedFinite, FS_AddElement, FS_CardinalityType
    <3> QED BY <2>1, <2>8, <3>1, <3>2, PublishedFinite, ServiceConstants DEF HasRoom
  <2>10. IndexLoads'
    BY <2>1, <2>8, <2>9 DEF IndexLoads, Ambiguous
  <2> QED BY <1>2, <2>4, <2>5, <2>6, <2>7, <2>10
<1>7. CASE SyncEntry(p)
  <2>1. /\ pc'[p] = "unlink" /\ pc[p] = "sync" /\ key' = key /\ temp' = temp
        /\ entry' = entry /\ entryDisk' = entry /\ UNCHANGED <<answered, completed>>
    BY <1>7, GotoMoves DEF SyncEntry, answerVars
  <2>2. DiskFollows' /\ AnsweredOnDisk' /\ UnsyncedIsFound' /\ UnsyncedIsPublishing'
    BY <1>1, <2>1
       DEF DiskFollows, AnsweredOnDisk, UnsyncedIsFound, UnsyncedIsPublishing, Unsynced, TypeOK
  <2>3. IndexLoads'
    BY <2>1 DEF IndexLoads, Published
  <2>4. Claims'
    BY <1>1, <1>2, <2>1 DEF Claims, Writing
  <2> QED BY <1>2, <2>2, <2>3, <2>4
<1>8. CASE UnlinkEntry(p)
  <2>1. /\ pc'[p] = "up" /\ pc[p] = "unlink" /\ UNCHANGED <<entry, entryDisk>>
        /\ answered' = answered \cup {key[p]} /\ completed' = completed \cup {key[p]}
    BY <1>8, GotoMoves DEF UnlinkEntry, Return
  <2>2. entryDisk[key[p]] /\ temp = {key[p]}
    BY <2>1 DEF Claims
  <2>3. DiskFollows' /\ AnsweredOnDisk'
    BY <1>1, <2>1, <2>2 DEF DiskFollows, AnsweredOnDisk
  <2>4. UnsyncedIsPublishing'
    BY <1>1, <2>1 DEF UnsyncedIsPublishing, Unsynced, Moves
  <2>5. UnsyncedIsFound'
    BY <1>1, <1>2, <2>1, <2>2 DEF UnsyncedIsFound, Unsynced, Writing, Discarding
  <2>6. Claims' /\ IndexLoads'
    BY <1>2, <2>1 DEF Claims, IndexLoads, Published, Writing
  <2> QED BY <1>2, <2>3, <2>4, <2>5, <2>6
<1> QED BY <1>3, <1>4, <1>5, <1>6, <1>7, <1>8

LEMMA PowerLossStep == ASSUME IInv, TypeInv', PowerLoss PROVE IInv'
<1> USE DEF IInv, TypeInv
<1>1. /\ pc' = [p \in Processes |-> "down"] /\ entryDisk' = entry'
      /\ UNCHANGED <<answered, completed, kills, faults>>
  BY DEF PowerLoss, answerVars
<1>2. \A k \in Keys : entry'[k] \in {entry[k], entryDisk[k]}
  BY DEF PowerLoss
<1>3. DiskFollows' /\ UnsyncedIsPublishing' /\ UnsyncedIsFound'
  BY <1>1 DEF DiskFollows, UnsyncedIsPublishing, UnsyncedIsFound, Unsynced
<1>4. AnsweredOnDisk'
  BY <1>1, <1>2 DEF AnsweredOnDisk, DiskFollows, TypeOK
<1>5. Published' \in SUBSET Published
  BY <1>2 DEF Published, DiskFollows
<1>6. Cardinality(Published') <= Cardinality(Published) /\ Cardinality(Published') \in Nat
  BY <1>5, PublishedFinite, FS_Subset, FS_CardinalityType
<1>7. IndexLoads'
  BY <1>5, <1>6, PublishedFinite, ServiceConstants DEF IndexLoads
<1>8. OneWriter' /\ Claims'
  BY <1>1 DEF OneWriter, Claims, Writing, Discarding
<1> QED BY <1>3, <1>4, <1>7, <1>8

LEMMA StepInv == IInv /\ [Next]_vars => IInv'
<1> SUFFICES ASSUME IInv, [Next]_vars PROVE IInv'
  OBVIOUS
<1>1. TypeInv'
  BY StepTypes DEF IInv
<1>2. CASE UNCHANGED vars
  <2>1. UNCHANGED <<pc, key, entry, entryDisk, temp, answered, completed, kills, faults>>
    BY <1>2 DEF vars, indexVars, answerVars, boundVars
  <2>2. Published' = Published
    BY <2>1 DEF Published
  <2> QED BY <1>1, <2>1, <2>2
          DEF IInv, OneWriter, DiskFollows, AnsweredOnDisk, Claims, IndexLoads, HasRoom, Ambiguous,
              UnsyncedIsPublishing, UnsyncedIsFound, Unsynced
<1>3. CASE PowerLoss
  BY <1>1, <1>3, PowerLossStep
<1>4. ASSUME NEW p \in Processes, Holding(p) PROVE IInv'
  BY <1>1, <1>4, OutsideSteps, ReadingSteps, WritingSteps DEF Holding
<1> QED BY <1>1, <1>2, <1>3, <1>4, OutsideSteps, ReadingSteps, KillStep, FailingStep DEF Next

(* create and all: what a create published before it returned stays published,
   through failures, kills, power losses and the cleanup of what others left;
   every other answer does while nothing failed and one process at most was
   killed; and no reader ever refuses the index for an ambiguous id or its size. *)
THEOREM AnswersAlwaysLoad == FairSpec => []AnswersLoad
<1>1. IInv => AnswersStay
  BY DEF IInv, TypeInv, TypeOK, AnsweredOnDisk, DiskFollows, AnswersStay, AnsweredKept
<1>2. IInv => IndexLoads
  BY DEF IInv
<1>3. IInv => AnswersLoad
  BY <1>1, <1>2 DEF AnswersLoad
<1> QED BY <1>3, InitInv, StepInv, PTL DEF FairSpec, Spec
-----------------------------------------------------------------------------
(***************************************************************************)
(* For any number of threads and calls: the hidden evaluation authority     *)
(* freezes one set of decisions at most, its worker opens the truth for     *)
(* these only, and no reservation is left behind.                           *)
(*                                                                          *)
(* Why: the lifecycle leaves "READY" once, so that one thread at most is    *)
(* between reserving and answering; that thread is the only one to freeze   *)
(* decisions and to start a worker, and it starts one after freezing.       *)
(***************************************************************************)

Evaluating == {"check", "freeze", "consume", "launch", "wait"}

HiddenTypes ==
    /\ place \in [Threads -> {"idle", "verify"} \cup Evaluating]
    /\ number \in [Threads -> Nat]
    /\ calls \in Nat
    /\ worker \in [HiddenCalls -> {"none", "replied", "failed"} \cup Running]
    /\ \A t \in Threads : place[t] \in Evaluating => number[t] \in HiddenCalls

(* One thread verifies an issue, while it is being issued. *)
Issuing ==
    /\ \A t, u \in Threads : place[t] = "verify" /\ place[u] = "verify" => t = u
    /\ \A t \in Threads : place[t] = "verify" => issuance = "ISSUING"
    /\ issuance = "ISSUING" => \E t \in Threads : place[t] = "verify"

(* One thread evaluates, and the lifecycle says how far it is. *)
Reserving ==
    /\ \A t, u \in Threads : place[t] \in Evaluating /\ place[u] \in Evaluating => t = u
    /\ lifecycle = "READY" => \A t \in Threads : place[t] \notin Evaluating
    /\ \A t \in Threads : place[t] \in {"check", "freeze", "consume"} => lifecycle = "RESERVED"
    /\ lifecycle = "RESERVED" => \E t \in Threads : place[t] \in {"check", "freeze", "consume"}

(* What is frozen is what the evaluating thread froze, and a worker runs for it. *)
Freezing ==
    /\ lifecycle = "READY" => frozen = {}
    /\ \A t \in Threads : place[t] \in {"check", "freeze"} => frozen = {}
    /\ \A t \in Threads : place[t] \in {"consume", "launch", "wait"} => frozen = {number[t]}
    /\ \A c, d \in frozen : c = d
    /\ \A c \in HiddenCalls : worker[c] # "none" => c \in frozen

(* The truth is opened, and the evaluation receipt stored, by the worker. *)
Opening ==
    /\ opened \subseteq frozen
    /\ \A c \in HiddenCalls : worker[c] \in {"stored", "replied"} => c \in sealed
    /\ outcomes \subseteq sealed

HiddenInv == HiddenTypes /\ Issuing /\ Reserving /\ Freezing /\ Opening
-----------------------------------------------------------------------------
LEMMA HiddenInitInv == HiddenInit => HiddenInv
BY HiddenConstants DEF HiddenInit, HiddenInv, HiddenTypes, Issuing, Reserving, Freezing, Opening,
   Evaluating, Running, HiddenCalls

LEMMA ThreadStep ==
  ASSUME HiddenInv, NEW t \in Threads, HiddenCall(t) \/ HiddenCallStep(t)
  PROVE  HiddenInv'
<1> USE HiddenConstants DEF HiddenInv, HiddenTypes, Evaluating, Running, HiddenCalls, Go
<1>1. CASE BeginIssue(t)
  BY <1>1 DEF BeginIssue, Begins, Issuing, Reserving, Freezing, Opening
<1>2. CASE RefuseIssue(t)
  BY <1>2 DEF RefuseIssue, Issuing, Reserving, Freezing, Opening
<1>3. CASE Issue(t)
  BY <1>3 DEF Issue, Issuing, Reserving, Freezing, Opening
<1>4. CASE Reserve(t)
  BY <1>4 DEF Reserve, Begins, Issuing, Reserving, Freezing, Opening
<1>5. CASE Check(t)
  BY <1>5 DEF Check, Issuing, Reserving, Freezing, Opening
<1>6. CASE FreezeDecisions(t)
  BY <1>6 DEF FreezeDecisions, Issuing, Reserving, Freezing, Opening
<1>7. CASE Consume(t)
  BY <1>7 DEF Consume, Issuing, Reserving, Freezing, Opening
<1>8. CASE Launch(t)
  BY <1>8 DEF Launch, Issuing, Reserving, Freezing, Opening
<1>9. CASE FailHidden(t)
  BY <1>9 DEF FailHidden, AfterFailure, Issuing, Reserving, Freezing, Opening
<1>10. CASE Answer(t)
  BY <1>10 DEF Answer, Issuing, Reserving, Freezing, Opening
<1>11. CASE StopWorker(t)
  BY <1>11 DEF StopWorker, AfterFailure, Issuing, Reserving, Freezing, Opening
<1> QED
  BY <1>1, <1>2, <1>3, <1>4, <1>5, <1>6, <1>7, <1>8, <1>9, <1>10, <1>11
     DEF HiddenCall, HiddenCallStep

LEMMA WorkersStep == HiddenInv /\ WorkerStep => HiddenInv'
<1> SUFFICES ASSUME HiddenInv, NEW c \in HiddenCalls,
                    \/ WorkerChecks(c) \/ WorkerEvaluates(c) \/ WorkerStores(c)
                    \/ WorkerReplies(c) \/ WorkerGivesUp(c),
                    UNCHANGED <<place, number, calls, issuance, active, lifecycle, frozen,
                                outcomes, alive>>
             PROVE  HiddenInv'
  BY DEF WorkerStep
<1> USE DEF HiddenInv, HiddenTypes, Evaluating, Running, WorkerTo,
            Issuing, Reserving, Freezing, Opening
<1>1. CASE WorkerChecks(c) BY <1>1 DEF WorkerChecks
<1>2. CASE WorkerEvaluates(c) BY <1>2 DEF WorkerEvaluates
<1>3. CASE WorkerStores(c) BY <1>3 DEF WorkerStores
<1>4. CASE WorkerReplies(c) BY <1>4 DEF WorkerReplies
<1>5. CASE WorkerGivesUp(c) BY <1>5 DEF WorkerGivesUp
<1> QED BY <1>1, <1>2, <1>3, <1>4, <1>5

LEMMA HiddenNextInv == HiddenInv /\ [HiddenNext]_hiddenVars => HiddenInv'
<1> SUFFICES ASSUME HiddenInv, [HiddenNext]_hiddenVars PROVE HiddenInv'
  OBVIOUS
<1>1. CASE \E t \in Threads : HiddenCall(t) \/ HiddenCallStep(t) BY <1>1, ThreadStep
<1>2. CASE WorkerStep BY <1>2, WorkersStep
<1>3. CASE KillProgram \/ UNCHANGED hiddenVars
  BY <1>3 DEF KillProgram, hiddenVars, HiddenInv, HiddenTypes, Issuing, Reserving, Freezing,
              Opening
<1> QED BY <1>1, <1>2, <1>3 DEF HiddenNext

(* DecisionsSealed for every number of threads and calls: the code's claim that
   a reserved release is consumed and that the decisions are frozen before the
   truth is opened (evaluation_hidden/authority_core.py). *)
THEOREM HiddenAlwaysSealed == HiddenSpec => []DecisionsSealed
<1>1. HiddenInv => DecisionsSealed
  BY DEF HiddenInv, Issuing, Reserving, Freezing, Opening, DecisionsSealed
<1> QED BY HiddenInitInv, HiddenNextInv, <1>1, PTL DEF HiddenSpec
-----------------------------------------------------------------------------
(***************************************************************************)
(* SearchExperiment, for any evaluators, families, sessions and budgets,    *)
(* whatever the policies draw, and however fast the clock is: a criterion that *)
(* is published as met is met by what the evaluators answered, and a run that *)
(* nothing disturbs is published.                                           *)
(*                                                                          *)
(* First its plan: every cell comes once for each seed.                     *)
(***************************************************************************)

(* How often a value comes in a sequence. *)
Occurrences(s, c) == {i \in DOMAIN s : s[i] = c}

Times(s, c) == Cardinality(Occurrences(s, c))

LEMMA TimesFinite ==
    ASSUME NEW T, NEW s \in Seq(T), NEW c
    PROVE  IsFiniteSet(Occurrences(s, c)) /\ Times(s, c) \in Nat
<1>1. IsFiniteSet(DOMAIN s)
  <2>1. DOMAIN s = 1..Len(s) /\ Len(s) \in Nat
    OBVIOUS
  <2> QED  BY <2>1, FS_Interval
<1>2. IsFiniteSet(Occurrences(s, c))
  BY <1>1, FS_Subset DEF Occurrences
<1> QED  BY <1>2, FS_CardinalityType DEF Times

LEMMA TimesJoined ==
    ASSUME NEW T, NEW s \in Seq(T), NEW t \in Seq(T), NEW c
    PROVE  s \o t \in Seq(T) /\ Times(s \o t, c) = Times(s, c) + Times(t, c)
<1> DEFINE n == Len(s)
           old == Occurrences(s, c)
           new == Occurrences(t, c)
           moved == {i \in DOMAIN (s \o t) : i > n /\ (s \o t)[i] = c}
           move == [i \in new |-> i + n]
<1>1. /\ n \in Nat /\ Len(t) \in Nat /\ DOMAIN s = 1..n /\ DOMAIN t = 1..Len(t)
      /\ s \o t \in Seq(T) /\ DOMAIN (s \o t) = 1..(n + Len(t))
      /\ \A i \in 1..n : (s \o t)[i] = s[i]
      /\ \A i \in 1..Len(t) : (s \o t)[i + n] = t[i]
  <2>1. n \in Nat /\ Len(t) \in Nat /\ DOMAIN s = 1..n /\ DOMAIN t = 1..Len(t)
    OBVIOUS
  <2>2. /\ s \o t \in Seq(T) /\ Len(s \o t) = n + Len(t)
        /\ \A i \in 1..(n + Len(t)) : (s \o t)[i] = IF i <= n THEN s[i] ELSE t[i - n]
    BY ConcatProperties
  <2>3. DOMAIN (s \o t) = 1..(n + Len(t))
    BY <2>2
  <2>4. \A i \in 1..n : (s \o t)[i] = s[i]
    BY <2>1, <2>2
  <2>5. ASSUME NEW i \in 1..Len(t)
        PROVE  (s \o t)[i + n] = t[i]
    <3>1. i + n \in 1..(n + Len(t)) /\ ~(i + n <= n) /\ (i + n) - n = i
      BY <2>1
    <3> QED  BY <2>2, <3>1
  <2> QED  BY <2>1, <2>2, <2>3, <2>4, <2>5
<1>2. Occurrences(s \o t, c) = old \cup moved /\ old \cap moved = {}
  BY <1>1 DEF Occurrences
<1>3. move \in Bijection(new, moved)
  <2>1. ASSUME NEW i \in new
        PROVE  i \in Nat /\ i + n \in moved
    BY <1>1 DEF Occurrences
  <2>2. move \in [new -> moved]
    BY <2>1
  <2>3. ASSUME NEW i \in new, NEW j \in new, move[i] = move[j]
        PROVE  i = j
    BY <1>1, <2>1, <2>3
  <2>4. ASSUME NEW k \in moved
        PROVE  \E i \in new : move[i] = k
    <3>1. k - n \in 1..Len(t) /\ (k - n) + n = k
      BY <1>1
    <3>2. t[k - n] = c
      BY <1>1, <3>1
    <3>3. k - n \in new
      BY <1>1, <3>1, <3>2 DEF Occurrences
    <3> QED  BY <3>1, <3>3
  <2> QED  BY <2>2, <2>3, <2>4 DEF Bijection, Injection, Surjection, IsInjective
<1>4. IsFiniteSet(old) /\ IsFiniteSet(new)
  BY TimesFinite
<1> HIDE DEF old, new, moved, move
<1>5. IsFiniteSet(moved) /\ Cardinality(moved) = Cardinality(new)
  BY <1>3, <1>4, FS_Bijection DEF ExistsBijection
<1>6. Cardinality(old \cup moved) = Cardinality(old) + Cardinality(moved)
  <2>1. Cardinality(old \cup moved) = Cardinality(old) + Cardinality(moved) - Cardinality(old \cap moved)
    BY <1>4, <1>5, FS_Union
  <2>2. Cardinality(old \cap moved) = 0
    BY <1>2, FS_EmptySet
  <2>3. Cardinality(old) \in Nat /\ Cardinality(moved) \in Nat
    BY <1>4, <1>5, FS_CardinalityType
  <2> QED  BY <2>1, <2>2, <2>3
<1> QED  BY <1>1, <1>2, <1>5, <1>6 DEF Times, old, new

(* A sequence of sequences laid end to end. *)
Joining(s, n, g) == g = [i \in 1..n |-> IF i = 1 THEN s[i] ELSE g[i - 1] \o s[i]]

LEMMA JoiningExists ==
    ASSUME NEW T, NEW s \in Seq(Seq(T)), NEW n \in Nat
    PROVE  \E g : Joining(s, n, g)
<1> DEFINE G == {m \in Nat : \E g : Joining(s, m, g)}
<1>1. 0 \in G
  <2>1. Joining(s, 0, [i \in 1..0 |-> s])
    BY DEF Joining
  <2> QED  BY <2>1
<1>2. ASSUME NEW m \in Nat, m \in G
      PROVE  m + 1 \in G
  <2>1. PICK g : Joining(s, m, g)
    BY <1>2
  <2> DEFINE h == [i \in 1..(m + 1) |-> IF i <= m THEN g[i]
                                       ELSE IF i = 1 THEN s[i] ELSE g[i - 1] \o s[i]]
  <2>2. ASSUME NEW i \in 1..(m + 1)
        PROVE  h[i] = IF i = 1 THEN s[i] ELSE h[i - 1] \o s[i]
    <3>1. CASE i <= m
      <4>1. i \in 1..m /\ h[i] = g[i]
        BY <3>1
      <4>2. g[i] = IF i = 1 THEN s[i] ELSE g[i - 1] \o s[i]
        BY <2>1, <4>1 DEF Joining
      <4>3. i # 1 => h[i - 1] = g[i - 1]
        BY <4>1
      <4> QED  BY <4>1, <4>2, <4>3
    <3>2. CASE ~(i <= m)
      <4>1. i # 1 => i - 1 \in 1..(m + 1) /\ i - 1 <= m
        BY <3>2
      <4> QED  BY <3>2, <4>1
    <3> QED  BY <3>1, <3>2
  <2>3. h = [i \in 1..(m + 1) |-> h[i]]
    OBVIOUS
  <2> HIDE DEF h
  <2>4. Joining(s, m + 1, h)
    BY <2>2, <2>3 DEF Joining
  <2> QED  BY <2>4
<1> HIDE DEF G
<1>3. Nat \subseteq G
  BY <1>1, <1>2, UpwardInduction
<1> QED  BY <1>3 DEF G

(* A value that comes in one of the sequences only comes as often in all. *)
LEMMA TimesFlattened ==
    ASSUME NEW T, NEW s \in Seq(Seq(T)), NEW c, NEW q \in DOMAIN s,
           \A i \in DOMAIN s : i # q => Times(s[i], c) = 0
    PROVE  FlattenSeq(s) \in Seq(T) /\ Times(FlattenSeq(s), c) = Times(s[q], c)
<1> DEFINE n == Len(s)
           g == CHOOSE h : Joining(s, n, h)
<1>1. n \in Nat /\ DOMAIN s = 1..n /\ n # 0 /\ q \in 1..n
  OBVIOUS
<1>2. FlattenSeq(s) = g[n]
  BY <1>1 DEF FlattenSeq, Joining
<1>3. Joining(s, n, g)
  BY <1>1, JoiningExists
<1> HIDE DEF g
<1>4. \A i \in 1..n : g[i] = IF i = 1 THEN s[i] ELSE g[i - 1] \o s[i]
  BY <1>3 DEF Joining
<1>5. \A i \in 1..n : s[i] \in Seq(T)
  OBVIOUS
<1> DEFINE Counted(i) == g[i] \in Seq(T) /\ Times(g[i], c) = IF i < q THEN 0 ELSE Times(s[q], c)
           G == {m \in Nat : m + 1 \in 1..n => Counted(m + 1)}
<1>6. 0 \in G
  <2>1. CASE q = 1
    BY <1>1, <1>4, <1>5, <2>1
  <2>2. CASE q # 1
    <3>1. 1 \in DOMAIN s /\ 1 # q /\ 1 < q /\ 1 \in 1..n
      BY <1>1, <2>2
    <3>2. Times(s[1], c) = 0
      BY <3>1
    <3>3. g[1] = s[1] /\ s[1] \in Seq(T)
      BY <1>4, <1>5, <3>1
    <3> QED  BY <3>1, <3>2, <3>3
  <2> QED  BY <2>1, <2>2
<1>7. ASSUME NEW m \in Nat, m \in G
      PROVE  m + 1 \in G
  <2> SUFFICES ASSUME (m + 1) + 1 \in 1..n
               PROVE  Counted((m + 1) + 1)
    OBVIOUS
  <2> DEFINE k == m + 1
  <2>1. k \in 1..n /\ k + 1 \in 1..n /\ k + 1 # 1 /\ (k + 1) - 1 = k
    BY <1>1
  <2>2. Counted(k)
    BY <1>7, <2>1
  <2> HIDE DEF k
  <2>3. g[k + 1] = g[k] \o s[k + 1]
    BY <1>4, <2>1
  <2>4. g[k + 1] \in Seq(T) /\ Times(g[k + 1], c) = Times(g[k], c) + Times(s[k + 1], c)
    BY <1>5, <2>1, <2>2, <2>3, TimesJoined
  <2>5. k + 1 # q => Times(s[k + 1], c) = 0
    BY <1>1, <2>1
  <2>6. Times(s[q], c) \in Nat
    BY <1>1, <1>5, TimesFinite
  <2>7. Times(g[k + 1], c) = IF k + 1 < q THEN 0 ELSE Times(s[q], c)
    BY <1>1, <2>1, <2>2, <2>4, <2>5, <2>6
  <2> QED  BY <2>4, <2>7 DEF k
<1> HIDE DEF G
<1>8. Nat \subseteq G
  BY <1>6, <1>7, UpwardInduction
<1>9. n - 1 \in Nat /\ (n - 1) + 1 = n /\ n \in 1..n /\ ~(n < q)
  BY <1>1
<1>10. Counted(n)
  BY <1>8, <1>9 DEF G
<1> QED  BY <1>2, <1>9, <1>10

Policies == ToSet(TargetPolicies)

CellType == [family : Trialled, policy : Policies]

LEMMA SeedTimes ==
    ASSUME NEW x \in CellType, NEW c
    PROVE  /\ [k \in DOMAIN Seeds |-> x] \in Seq(CellType)
           /\ Times([k \in DOMAIN Seeds |-> x], c) = IF x = c THEN Len(Seeds) ELSE 0
<1>1. DOMAIN Seeds = 1..Len(Seeds) /\ Len(Seeds) \in Nat
  BY SearchConstants
<1>2. [k \in DOMAIN Seeds |-> x] \in Seq(CellType)
  BY <1>1
<1>3. Occurrences([k \in DOMAIN Seeds |-> x], c) = IF x = c THEN 1..Len(Seeds) ELSE {}
  BY <1>1 DEF Occurrences
<1>4. Cardinality(1..Len(Seeds)) = Len(Seeds)
  <2>1. \A n \in Nat : Cardinality(1..n) = n
    BY FS_Interval
  <2> QED  BY <1>1, <2>1
<1> QED  BY <1>2, <1>3, <1>4, FS_EmptySet DEF Times

Row(family, policies) ==
    FlattenSeq([p \in DOMAIN policies |->
        [k \in DOMAIN Seeds |-> [family |-> family, policy |-> policies[p]]]])

LEMMA RowTimes ==
    ASSUME NEW ps \in Seq(Policies), ps # <<>>, IsInjective(ps),
           NEW f \in Trialled, NEW c \in CellType
    PROVE  /\ Row(f, ps) \in Seq(CellType)
           /\ Times(Row(f, ps), c) =
                 IF c.family = f /\ c.policy \in ToSet(ps) THEN Len(Seeds) ELSE 0
<1> DEFINE cellOf(p) == [family |-> f, policy |-> ps[p]]
           blocks == [p \in DOMAIN ps |-> [k \in DOMAIN Seeds |-> cellOf(p)]]
<1>1. DOMAIN ps = 1..Len(ps) /\ Len(ps) \in Nat /\ Len(ps) # 0 /\ \A p \in DOMAIN ps : ps[p] \in Policies
  OBVIOUS
<1>2. \A p \in DOMAIN ps : cellOf(p) \in CellType
  BY <1>1 DEF CellType
<1>3. \A p \in DOMAIN ps :
         /\ blocks[p] \in Seq(CellType)
         /\ Times(blocks[p], c) = IF cellOf(p) = c THEN Len(Seeds) ELSE 0
  BY <1>2, SeedTimes
<1>4. blocks \in Seq(Seq(CellType)) /\ DOMAIN blocks = DOMAIN ps
  BY <1>1, <1>3
<1>5. c = [family |-> c.family, policy |-> c.policy]
  BY DEF CellType
<1>6. \A p \in DOMAIN ps : cellOf(p) = c <=> c.family = f /\ c.policy = ps[p]
  BY <1>5
<1> HIDE DEF blocks, cellOf
<1>7. CASE c.family = f /\ c.policy \in ToSet(ps)
  <2>1. PICK q \in DOMAIN ps : ps[q] = c.policy
    BY <1>7 DEF ToSet
  <2>2. cellOf(q) = c /\ \A p \in DOMAIN ps : p # q => cellOf(p) # c
    BY <1>6, <1>7, <2>1 DEF IsInjective
  <2>3. \A p \in DOMAIN blocks : p # q => Times(blocks[p], c) = 0
    BY <1>3, <1>4, <2>2
  <2>4. FlattenSeq(blocks) \in Seq(CellType) /\ Times(FlattenSeq(blocks), c) = Times(blocks[q], c)
    BY <1>4, <2>3, TimesFlattened
  <2> QED  BY <1>3, <1>7, <2>2, <2>4 DEF Row, blocks, cellOf
<1>8. CASE ~(c.family = f /\ c.policy \in ToSet(ps))
  <2>1. \A p \in DOMAIN ps : cellOf(p) # c
    BY <1>6, <1>8 DEF ToSet
  <2>2. 1 \in DOMAIN blocks /\ \A p \in DOMAIN blocks : Times(blocks[p], c) = 0
    BY <1>1, <1>3, <1>4, <2>1
  <2>3. FlattenSeq(blocks) \in Seq(CellType) /\ Times(FlattenSeq(blocks), c) = Times(blocks[1], c)
    BY <1>4, <2>2, TimesFlattened
  <2> QED  BY <1>8, <2>2, <2>3 DEF Row, blocks, cellOf
<1> QED  BY <1>7, <1>8

LEMMA CellsOfTimes ==
    ASSUME NEW fs \in Seq(Trialled), fs # <<>>, IsInjective(fs),
           NEW ps \in Seq(Policies), ps # <<>>, IsInjective(ps), NEW c \in CellType
    PROVE  /\ CellsOf(fs, ps) \in Seq(CellType)
           /\ Times(CellsOf(fs, ps), c) =
                 IF c.family \in ToSet(fs) /\ c.policy \in ToSet(ps) THEN Len(Seeds) ELSE 0
<1> DEFINE rows == [f \in DOMAIN fs |-> Row(fs[f], ps)]
<1>1. DOMAIN fs = 1..Len(fs) /\ Len(fs) \in Nat /\ Len(fs) # 0 /\ \A f \in DOMAIN fs : fs[f] \in Trialled
  OBVIOUS
<1>2. \A f \in DOMAIN fs :
         /\ rows[f] \in Seq(CellType)
         /\ Times(rows[f], c) = IF c.family = fs[f] /\ c.policy \in ToSet(ps) THEN Len(Seeds) ELSE 0
  BY <1>1, RowTimes
<1>3. rows \in Seq(Seq(CellType)) /\ DOMAIN rows = DOMAIN fs
  BY <1>1, <1>2
<1>4. CellsOf(fs, ps) = FlattenSeq(rows)
  BY DEF CellsOf, Row
<1> HIDE DEF rows
<1>5. CASE c.family \in ToSet(fs)
  <2>1. PICK q \in DOMAIN fs : fs[q] = c.family
    BY <1>5 DEF ToSet
  <2>2. \A f \in DOMAIN fs : f # q => fs[f] # c.family
    BY <2>1 DEF IsInjective
  <2>3. \A f \in DOMAIN rows : f # q => Times(rows[f], c) = 0
    BY <1>2, <1>3, <2>2
  <2>4. FlattenSeq(rows) \in Seq(CellType) /\ Times(FlattenSeq(rows), c) = Times(rows[q], c)
    BY <1>3, <2>3, TimesFlattened
  <2> QED  BY <1>2, <1>4, <1>5, <2>1, <2>4
<1>6. CASE c.family \notin ToSet(fs)
  <2>1. \A f \in DOMAIN fs : fs[f] # c.family
    BY <1>6 DEF ToSet
  <2>2. 1 \in DOMAIN rows /\ \A f \in DOMAIN rows : Times(rows[f], c) = 0
    BY <1>1, <1>2, <1>3, <2>1
  <2>3. FlattenSeq(rows) \in Seq(CellType) /\ Times(FlattenSeq(rows), c) = Times(rows[1], c)
    BY <1>3, <2>2, TimesFlattened
  <2> QED  BY <1>4, <1>6, <2>2, <2>3
<1> QED  BY <1>5, <1>6

(* _execute: each family is searched by each policy under each seed, the control
   by all but the planner. *)
LEMMA CellsPlanned ==
    /\ Cells \in Seq(CellType)
    /\ \A c \in CellType :
          Times(Cells, c) = IF c.family # Control \/ c.policy # Tape THEN Len(Seeds) ELSE 0
<1> DEFINE targets == CellsOf(Families, TargetPolicies)
           controls == CellsOf(<<Control>>, ControlPolicies)
<1>1. Policies = {"fixed", "random", "adaptive", Tape}
      /\ ToSet(ControlPolicies) = {"fixed", "random", "adaptive"}
  BY DEF Policies, TargetPolicies, ControlPolicies, ToSet
<1>2. /\ TargetPolicies \in Seq(Policies) /\ TargetPolicies # <<>> /\ IsInjective(TargetPolicies)
      /\ ControlPolicies \in Seq(Policies) /\ ControlPolicies # <<>> /\ IsInjective(ControlPolicies)
  BY <1>1 DEF TargetPolicies, ControlPolicies, IsInjective, Tape
<1>3. /\ Families \in Seq(Trialled) /\ Families # <<>> /\ IsInjective(Families)
      /\ <<Control>> \in Seq(Trialled) /\ <<Control>> # <<>> /\ IsInjective(<<Control>>)
      /\ ToSet(<<Control>>) = {Control} /\ Control \notin ToSet(Families)
  BY SearchConstants DEF Trialled, ToSet, IsInjective
<1>4. ASSUME NEW c \in CellType
      PROVE  /\ targets \in Seq(CellType) /\ controls \in Seq(CellType)
             /\ Times(targets, c) = IF c.family \in ToSet(Families) THEN Len(Seeds) ELSE 0
             /\ Times(controls, c) =
                   IF c.family = Control /\ c.policy # Tape THEN Len(Seeds) ELSE 0
  <2>1. c.policy \in Policies
    BY DEF CellType
  <2>2. c.policy \in ToSet(ControlPolicies) <=> c.policy # Tape
    BY <1>1, <2>1 DEF Tape
  <2>3. /\ targets \in Seq(CellType)
        /\ Times(targets, c) =
              IF c.family \in ToSet(Families) /\ c.policy \in Policies THEN Len(Seeds) ELSE 0
    BY <1>2, <1>3, CellsOfTimes DEF Policies
  <2>4. /\ controls \in Seq(CellType)
        /\ Times(controls, c) =
              IF c.family \in {Control} /\ c.policy \in ToSet(ControlPolicies) THEN Len(Seeds) ELSE 0
    BY <1>2, <1>3, CellsOfTimes
  <2> QED  BY <2>1, <2>2, <2>3, <2>4
<1>5. Cells = targets \o controls /\ Len(Seeds) \in Nat
  BY SearchConstants DEF Cells
<1>6. PICK c \in CellType : TRUE
  <2>1. [family |-> Control, policy |-> Tape] \in CellType
    BY <1>1 DEF CellType, Trialled
  <2> QED  BY <2>1
<1> HIDE DEF targets, controls
<1>7. Cells \in Seq(CellType)
  BY <1>4, <1>5, <1>6, TimesJoined
<1>8. ASSUME NEW d \in CellType
      PROVE  Times(Cells, d) = IF d.family # Control \/ d.policy # Tape THEN Len(Seeds) ELSE 0
  <2>1. Times(Cells, d) = Times(targets, d) + Times(controls, d)
    BY <1>4, <1>5, TimesJoined
  <2>2. d.family \in ToSet(Families) <=> d.family # Control
    BY <1>3 DEF CellType, Trialled
  <2> QED  BY <1>4, <1>5, <2>1, <2>2
<1> QED  BY <1>7, <1>8
-----------------------------------------------------------------------------
(***************************************************************************)
(* The shape of a search at every step.                                     *)
(***************************************************************************)

(* What a search keeps. *)
IsFeedback(x) == DOMAIN x = {"reason", "value"} /\ x.value \in Int

IsAsked(x) == x = Vector(x.vector, x.parent) /\ x.vector \in Vectors

IsTrial(x) ==
    /\ x = [vector |-> x.vector, parent |-> x.parent, feedback |-> x.feedback]
    /\ x.vector \in Vectors /\ IsFeedback(x.feedback)

Tried(ts) == IsSequence(ts) /\ \A i \in DOMAIN ts : IsTrial(ts[i])

SearchTyped ==
    /\ verdict \in Verdicts
    /\ \A f \in ToSet(Families) : tape[f] \in Session(f, verdict[f])
    /\ step \in {"start", "propose", "evaluate", "record", "finish"}
    /\ cell \in 1..(Len(Cells) + 1) /\ (step # "start" => cell <= Len(Cells))
    /\ Tried(trials) /\ Len(trials) <= QueryBudget
    /\ step \in {"evaluate", "record"} => Len(trials) < QueryBudget
    /\ step = "evaluate" => IsAsked(asked)
    /\ step = "record" => IsTrial(asked)
    /\ IsSequence(evidence) /\ Len(evidence) = cell - 1
    /\ \A i \in DOMAIN evidence :
          evidence[i].used \in Nat /\ evidence[i].approved \in Nat /\ evidence[i].value \in Int
    /\ earned \in [Trialled \X Policies -> [asked : Int, approved : Int, value : Int]]

LEMMA HereTyped ==
    ASSUME SearchTyped, step # "start"
    PROVE  /\ Here \in CellType /\ Here.family \in Trialled /\ Here.policy \in Policies
           /\ Here = [family |-> Here.family, policy |-> Here.policy]
           /\ Here.policy = Tape => Here.family \in ToSet(Families)
<1>1. cell \in DOMAIN Cells /\ Cells \in Seq(CellType)
  BY CellsPlanned DEF SearchTyped
<1>2. Here \in CellType
  BY <1>1 DEF Here
<1>3. cell \in Occurrences(Cells, Here)
  BY <1>1 DEF Occurrences, Here
<1>4. IsFiniteSet(Occurrences(Cells, Here))
  BY <1>1, TimesFinite
<1>5. Times(Cells, Here) # 0
  BY <1>3, <1>4, FS_EmptySet DEF Times
<1>6. Here.family # Control \/ Here.policy # Tape
  BY <1>2, <1>5, CellsPlanned
<1> QED  BY <1>2, <1>6 DEF CellType, Trialled

(* Every policy proposes vectors of the family. *)
LEMMA FrontierChoice ==
    LET k == SelectInSeq(Frontier, LAMBDA v : v \notin Seen)
    IN  k # 0 => k \in DOMAIN Frontier
<1> DEFINE I == {i \in 1..Len(Frontier) : Frontier[i] \notin Seen}
<1>1. SelectInSeq(Frontier, LAMBDA v : v \notin Seen) = IF I # {} THEN Min(I) ELSE 0
  BY DEF SelectInSeq
<1>2. I # {} => Min(I) \in I
  <2> SUFFICES ASSUME I # {} PROVE Min(I) \in I
    OBVIOUS
  <2>1. I \in SUBSET Nat
    OBVIOUS
  <2>2. \E n \in I : \A m \in I : n <= m
    BY <2>1, LeastNat
  <2> QED  BY <2>2 DEF Min
<1>3. DOMAIN Frontier = 1..Len(Frontier)
  BY SearchConstants
<1> QED  BY <1>1, <1>2, <1>3

LEMMA ParentsTried ==
    ASSUME Tried(trials), trials # <<>>
    PROVE  \A i \in Parents : i \in DOMAIN trials
<1>1. DOMAIN trials = 1..Len(trials) /\ Len(trials) \in Nat /\ Len(trials) # 0
  BY DEF Tried, IsSequence
<1> QED  BY <1>1 DEF Parents

LEMMA AdaptiveTyped ==
    ASSUME Tried(trials), trials # <<>>, NEW x \in AdaptiveChoices
    PROVE  IsAsked(x)
<1> DEFINE k == SelectInSeq(Frontier, LAMBDA v : v \notin Seen)
           Of(v) == LET fresh == OrElse(Near[v] \ Seen, Near[v])
                    IN  OrElse(OrElse(fresh \cap OneField[v], fresh), {v})
<1>1. CASE k # 0
  <2>1. Frontier[k] \in Vectors
    BY <1>1, FrontierChoice, SearchConstants
  <2>2. \E i : x = Vector(Frontier[k], i)
    BY <1>1 DEF AdaptiveChoices
  <2> QED  BY <2>1, <2>2 DEF IsAsked, Vector
<1>2. CASE k = 0
  <2>0. PICK i \in Parents : \E v \in Of(trials[i].vector) : x = Vector(v, i)
    BY <1>2 DEF AdaptiveChoices
  <2>1. PICK v \in Of(trials[i].vector) : x = Vector(v, i)
    BY <2>0
  <2>2. trials[i].vector \in Vectors
    BY ParentsTried DEF Tried, IsTrial
  <2>3. v \in Vectors
    BY <2>1, <2>2, SearchConstants DEF OrElse
  <2> QED  BY <2>1, <2>3 DEF IsAsked, Vector
<1> QED  BY <1>1, <1>2

LEMMA ProposalsTyped ==
    ASSUME SearchTyped, step = "propose", NEW x \in Proposals(Here.family, Here.policy)
    PROVE  IsAsked(x)
<1>1. /\ Here.policy \in {"fixed", "random", "adaptive", Tape}
      /\ Here.policy = Tape => Here.family \in ToSet(Families)
  BY HereTyped DEF Policies, TargetPolicies, ToSet
<1>2. Tried(trials) /\ Len(trials) \in Nat
  BY DEF SearchTyped, Tried, IsSequence
<1>3. CASE Here.policy = Tape
  <2> DEFINE t == tape[Here.family]
  <2>1. t \in Session(Here.family, verdict[Here.family]) /\ verdict \in Verdicts
    BY <1>1, <1>3 DEF SearchTyped
  <2>2. t \in Seq(ToSet(t)) /\ \A i \in DOMAIN t : t[i].vector \in Vectors
    BY <1>1, <1>3, <2>1, WorldTyped
  <2>0. x \in IF Replayable(Here.family)
              THEN {Vector(t[Len(trials) + 1].vector, t[Len(trials) + 1].parent)} ELSE {}
    BY <1>3 DEF Proposals, Tape
  <2>3. Replayable(Here.family)
    BY <2>0
  <2>4. Len(trials) + 1 \in DOMAIN t
    BY <1>2, <2>2, <2>3 DEF Replayable
  <2>5. x = Vector(t[Len(trials) + 1].vector, t[Len(trials) + 1].parent)
    BY <2>0, <2>3
  <2> QED  BY <2>2, <2>4, <2>5 DEF IsAsked, Vector
<1>4. CASE Here.policy # Tape /\ (Here.policy = "fixed" \/ trials = <<>>)
  <2>1. x = Vector(Default, Len(trials))
    BY <1>4 DEF Proposals, Tape
  <2> QED  BY <2>1, SearchConstants DEF IsAsked, Vector
<1>5. CASE Here.policy = "random" /\ trials # <<>>
  <2>1. \E v \in Vectors : x = Vector(v, Len(trials))
    BY <1>5 DEF Proposals, Tape
  <2> QED  BY <2>1 DEF IsAsked, Vector
<1>6. CASE Here.policy = "adaptive" /\ trials # <<>>
  <2>1. x \in AdaptiveChoices
    BY <1>6 DEF Proposals, Tape
  <2> QED  BY <1>2, <1>6, <2>1, AdaptiveTyped
<1> QED  BY <1>1, <1>3, <1>4, <1>5, <1>6

LEMMA FoundTyped ==
    ASSUME SearchTyped, step = "evaluate"
    PROVE  LET f == Here.family
               found == verdict[f][asked.vector]
           IN  /\ IsFeedback(found) /\ IsFeedback(Public(f, found))
               /\ Public(f, found).reason = found.reason
               /\ f # Control => Public(f, found) = found
<1> DEFINE f == Here.family
           found == verdict[f][asked.vector]
<1>1. f \in Trialled /\ asked.vector \in Vectors /\ verdict \in Verdicts
  BY HereTyped DEF SearchTyped, IsAsked
<1>2. IsFeedback(found)
  BY <1>1, WorldTyped DEF IsFeedback
<1> HIDE DEF found, f
<1>3. IsFeedback(Public(f, found)) /\ Public(f, found).reason = found.reason
  BY <1>2 DEF IsFeedback, Public
<1>4. f # Control => Public(f, found) = found
  BY DEF Public
<1> QED  BY <1>2, <1>3, <1>4 DEF found, f

LEMMA TriedMore ==
    ASSUME NEW ts, Tried(ts), NEW x, IsTrial(x)
    PROVE  /\ Tried(Append(ts, x)) /\ Len(ts) \in Nat /\ Len(Append(ts, x)) = Len(ts) + 1
           /\ DOMAIN ts = 1..Len(ts) /\ DOMAIN Append(ts, x) = 1..(Len(ts) + 1)
           /\ Append(ts, x)[Len(ts) + 1] = x
           /\ \A i \in 1..Len(ts) : Append(ts, x)[i] = ts[i]
BY Extended DEF Tried

LEMMA TriedNothing == Tried(<<>>) /\ Len(<<>>) = 0 /\ DOMAIN <<>> = {}
BY EmptyIsSequence DEF Tried

LEMMA SearchStartTyped ==
    ASSUME SearchInit
    PROVE  SearchTyped
<1>1. /\ verdict \in Verdicts /\ \A f \in ToSet(Families) : tape[f] \in Session(f, verdict[f])
  BY DEF SearchInit, Tapes
<1>2. cell = 1 /\ Len(Cells) \in Nat
  BY CellsPlanned DEF SearchInit
<1>3. earned \in [Trialled \X Policies -> [asked : Int, approved : Int, value : Int]]
  BY DEF SearchInit, Policies
<1> QED  BY <1>1, <1>2, <1>3, TriedNothing, SearchConstants DEF SearchInit, SearchTyped, Tried

LEMMA EvaluateTyped ==
    ASSUME SearchTyped, Evaluate
    PROVE  SearchTyped'
<1> DEFINE f == Here.family
           found == verdict[f][asked.vector]
<1>1. step = "evaluate" /\ IsAsked(asked)
  BY DEF Evaluate, SearchTyped
<1>2. /\ IsFeedback(found) /\ IsFeedback(Public(f, found))
      /\ f \in Trialled /\ Here.policy \in Policies
  BY <1>1, FoundTyped, HereTyped
<1>3. asked' = [vector |-> asked.vector, parent |-> asked.parent, feedback |-> Public(f, found)]
  BY DEF Evaluate
<1>4. IsTrial(asked')
  BY <1>1, <1>2, <1>3 DEF IsTrial, IsAsked
<1>5. \E k \in Int, l \in Int, m \in Int :
         earned' = [earned EXCEPT ![<<f, Here.policy>>] = [asked |-> k, approved |-> l, value |-> m]]
  <2> DEFINE e == earned[<<f, Here.policy>>]
  <2>1. e.asked \in Int /\ e.approved \in Int /\ e.value \in Int
    BY <1>2 DEF SearchTyped
  <2>2. earned' = [earned EXCEPT ![<<f, Here.policy>>] =
                     [asked |-> e.asked + 1,
                      approved |-> e.approved + (IF Approved(found) THEN 1 ELSE 0),
                      value |-> e.value + (IF Approved(found) THEN found.value ELSE 0)]]
    BY DEF Evaluate
  <2>3. found.value \in Int
    BY <1>2 DEF IsFeedback
  <2> DEFINE k == e.asked + 1
             l == e.approved + (IF Approved(found) THEN 1 ELSE 0)
             m == e.value + (IF Approved(found) THEN found.value ELSE 0)
  <2>4. k \in Int /\ l \in Int /\ m \in Int
    BY <2>1, <2>3
  <2>5. earned' = [earned EXCEPT ![<<f, Here.policy>>] = [asked |-> k, approved |-> l, value |-> m]]
    BY <2>2
  <2> HIDE DEF k, l, m, f
  <2> QED  BY <2>4, <2>5
<1>6. earned' \in [Trialled \X Policies -> [asked : Int, approved : Int, value : Int]]
  <2>1. PICK k \in Int, l \in Int, m \in Int :
           earned' = [earned EXCEPT ![<<f, Here.policy>>] = [asked |-> k, approved |-> l, value |-> m]]
    BY <1>5
  <2>2. earned \in [Trialled \X Policies -> [asked : Int, approved : Int, value : Int]]
    BY DEF SearchTyped
  <2> HIDE DEF f
  <2> QED  BY <2>1, <2>2
<1>7. step' = "record" /\ UNCHANGED <<verdict, tape, cell, trials, evidence>>
  BY DEF Evaluate, worldVars
<1> QED  BY <1>1, <1>4, <1>6, <1>7 DEF SearchTyped

LEMMA FinishTyped ==
    ASSUME SearchTyped, FinishCell
    PROVE  SearchTyped'
<1> DEFINE r == [used |-> Len(trials),
                 approved |-> Cardinality(Approvals),
                 value |-> SumFunctionOnSet([i \in DOMAIN trials |-> trials[i].feedback.value], Approvals),
                 exhausted |-> Exhausted,
                 overrun |-> IF ElapsedMs > WallMs THEN ElapsedMs - WallMs ELSE 0,
                 traced |-> \A i \in DOMAIN trials :
                               traces[Here.family][i] = trials[i].vector,
                 attempts |-> audits]
<1>1. /\ UNCHANGED <<verdict, tape, earned>> /\ trials' = <<>>
      /\ step \in {"propose", "finish"}
      /\ \/ UNCHANGED <<cell, step, evidence>>
         \/ evidence' = Append(evidence, r) /\ cell' = cell + 1 /\ step' = "start"
  BY DEF FinishCell, worldVars
<1>2. cell \in 1..Len(Cells) /\ Len(Cells) \in Nat
  BY <1>1, CellsPlanned DEF SearchTyped
<1>3. CASE UNCHANGED <<cell, step, evidence>>
  BY <1>1, <1>3, TriedNothing, SearchConstants DEF SearchTyped
<1>4. CASE evidence' = Append(evidence, r) /\ cell' = cell + 1 /\ step' = "start"
  <2>1. r.used \in Nat /\ r.approved \in Nat /\ r.value \in Int
    <3>1. Len(trials) \in Nat /\ DOMAIN trials = 1..Len(trials)
      BY DEF SearchTyped, Tried, IsSequence
    <3>2. IsFiniteSet(Approvals) /\ \A i \in Approvals : i \in DOMAIN trials
      <4>1. Approvals \in SUBSET (DOMAIN trials)
        BY DEF Approvals
      <4>2. IsFiniteSet(DOMAIN trials)
        BY <3>1, FS_Interval
      <4> QED  BY <4>1, <4>2, FS_Subset
    <3>3. \A i \in DOMAIN trials : trials[i].feedback.value \in Int
      BY DEF SearchTyped, Tried, IsTrial, IsFeedback
    <3>4. \A i \in Approvals : [j \in DOMAIN trials |-> trials[j].feedback.value][i] \in Int
      BY <3>2, <3>3
    <3>5. SumFunctionOnSet([i \in DOMAIN trials |-> trials[i].feedback.value], Approvals) \in Int
      BY <3>2, <3>4, SumIsInt
    <3> QED  BY <3>1, <3>2, <3>5, FS_CardinalityType
  <2> HIDE DEF r
  <2>2. /\ IsSequence(evidence') /\ Len(evidence') = Len(evidence) + 1
        /\ DOMAIN evidence = 1..Len(evidence) /\ DOMAIN evidence' = 1..(Len(evidence) + 1)
        /\ evidence'[Len(evidence) + 1] = r /\ \A i \in 1..Len(evidence) : evidence'[i] = evidence[i]
    BY <1>4, Extended DEF SearchTyped
  <2>3. \A i \in DOMAIN evidence' :
           evidence'[i].used \in Nat /\ evidence'[i].approved \in Nat /\ evidence'[i].value \in Int
    <3> SUFFICES ASSUME NEW i \in DOMAIN evidence'
                 PROVE  evidence'[i].used \in Nat /\ evidence'[i].approved \in Nat /\ evidence'[i].value \in Int
      OBVIOUS
    <3>1. i \in DOMAIN evidence \/ i = Len(evidence) + 1
      BY <1>2, <2>2 DEF SearchTyped
    <3> QED  BY <2>1, <2>2, <3>1 DEF SearchTyped
  <2>4. Len(evidence') = cell' - 1 /\ cell' \in 1..(Len(Cells) + 1)
    BY <1>2, <1>4, <2>2 DEF SearchTyped
  <2>5. Tried(trials') /\ Len(trials') = 0 /\ 0 <= QueryBudget /\ trials' = <<>>
    BY <1>1, TriedNothing, SearchConstants
  <2>6. verdict' \in Verdicts /\ \A f \in ToSet(Families) : tape'[f] \in Session(f, verdict'[f])
    BY <1>1 DEF SearchTyped
  <2>7. earned' \in [Trialled \X Policies -> [asked : Int, approved : Int, value : Int]]
    BY <1>1 DEF SearchTyped
  <2> QED  BY <1>4, <2>2, <2>3, <2>4, <2>5, <2>6, <2>7 DEF SearchTyped
<1> QED  BY <1>1, <1>3, <1>4

LEMMA SearchKeepsTyped ==
    ASSUME SearchTyped, [SearchNext]_searchVars
    PROVE  SearchTyped'
<1>1. CASE Tick \/ GiveUp \/ ReplayMiss \/ PublishClaim \/ UNCHANGED searchVars
  <2>1. /\ UNCHANGED <<verdict, tape, cell, trials, asked, evidence, earned>>
        /\ step' = step \/ (step' = "finish" /\ step # "start")
    BY <1>1 DEF Tick, GiveUp, ReplayMiss, PublishClaim, searchVars, worldVars, localVars, ghostVars
  <2> QED  BY <2>1 DEF SearchTyped
<1>2. CASE StartSearch
  <2>1. /\ UNCHANGED <<verdict, tape, cell, evidence, earned>> /\ cell <= Len(Cells)
        /\ trials' = <<>> /\ step' = "propose"
    BY <1>2 DEF StartSearch, worldVars, ghostVars
  <2> QED  BY <2>1, TriedNothing, SearchConstants DEF SearchTyped
<1>3. CASE ProposeNext
  <2>1. /\ UNCHANGED <<verdict, tape, cell, trials, evidence, earned>> /\ step = "propose"
        /\ step' = "evaluate" /\ Len(trials) < QueryBudget
        /\ asked' \in Proposals(Here.family, Here.policy)
    BY <1>3 DEF ProposeNext, worldVars, ghostVars
  <2>2. IsAsked(asked')
    BY <2>1, ProposalsTyped
  <2> QED  BY <2>1, <2>2 DEF SearchTyped
<1>4. CASE Evaluate
  BY <1>4, EvaluateTyped
<1>5. CASE Record
  <2>1. /\ UNCHANGED <<verdict, tape, cell, asked, evidence, earned>> /\ step = "record"
        /\ step' \in {"finish", "propose"} /\ trials' = Append(trials, asked)
    BY <1>5 DEF Record, worldVars
  <2>2. Tried(trials') /\ Len(trials') = Len(trials) + 1 /\ Len(trials) \in Nat
    BY <2>1, TriedMore DEF SearchTyped
  <2>3. Len(trials') <= QueryBudget
    BY <2>1, <2>2, SearchConstants DEF SearchTyped
  <2> QED  BY <2>1, <2>2, <2>3 DEF SearchTyped
<1>6. CASE FinishCell
  BY <1>6, FinishTyped
<1> QED  BY <1>1, <1>2, <1>3, <1>4, <1>5, <1>6 DEF SearchNext
-----------------------------------------------------------------------------
(***************************************************************************)
(* An answer that came late marks its cell.                                 *)
(***************************************************************************)

TimeTyped ==
    /\ nanos \in Nat /\ start \in Nat
    /\ \E S : evidence \in Seq(S)

(* An answer that came late is seen in the evidence, or will be: the search it
   belongs to asks nothing more, and its deadline stays passed until its cell is
   built. *)
LateShown ==
    lateAnswer =>
        \/ report = "aborted"
        \/ \E i \in DOMAIN evidence : evidence[i].exhausted
        \/ step \in {"propose", "finish"} /\ Late

ClaimInTime == report = "criterion met" => InTime

OnTime == TimeTyped /\ LateShown /\ ClaimInTime

LEMMA LimitNat == WallMs * NsPerMs \in Nat
BY SearchConstants

(* A cell is added at the end, and the earlier ones stay. *)
LEMMA Appended ==
    ASSUME NEW S, NEW s \in Seq(S), NEW r
    PROVE  /\ Append(s, r) \in Seq(S \cup {r})
           /\ DOMAIN s \subseteq DOMAIN Append(s, r)
           /\ \A i \in DOMAIN s : Append(s, r)[i] = s[i]
           /\ \E i \in DOMAIN Append(s, r) : Append(s, r)[i] = r
<1>1. s \in Seq(S \cup {r}) /\ r \in S \cup {r}
  OBVIOUS
<1>2. Append(s, r) \in Seq(S \cup {r}) /\ Len(Append(s, r)) = Len(s) + 1
  BY <1>1
<1>3. Append(s, r)[Len(s) + 1] = r /\ \A i \in 1..Len(s) : Append(s, r)[i] = s[i]
  BY <1>1
<1>4. DOMAIN s = 1..Len(s) /\ DOMAIN Append(s, r) = 1..(Len(s) + 1) /\ Len(s) \in Nat
  BY <1>1, <1>2
<1> QED BY <1>2, <1>3, <1>4

(* A deadline that has passed stays passed. *)
LEMMA StaysLate ==
    ASSUME TimeTyped, nanos' = nanos \/ nanos' = nanos + 1, start' = start
    PROVE  Late => Late'
BY LimitNat DEF TimeTyped, Late

(* What changes neither the evidence nor the report, and loses no late search. *)
LEMMA QuietInTime ==
    ASSUME OnTime, nanos' \in Nat, start' \in Nat, UNCHANGED <<evidence, report, lateAnswer>>,
           step \in {"propose", "finish"} /\ Late => step' \in {"propose", "finish"} /\ Late'
    PROVE  OnTime'
<1>1. TimeTyped'
  BY DEF OnTime, TimeTyped
<1>2. LateShown'
  BY DEF OnTime, LateShown
<1>3. ClaimInTime'
  BY DEF OnTime, ClaimInTime, InTime
<1> QED BY <1>1, <1>2, <1>3 DEF OnTime

LEMMA OnTimeStarts == SearchInit => OnTime
<1> SUFFICES ASSUME SearchInit PROVE OnTime
  OBVIOUS
<1>1. evidence \in Seq({})
  BY DEF SearchInit
<1> QED BY <1>1 DEF SearchInit, OnTime, TimeTyped, LateShown, ClaimInTime

LEMMA OnTimeSteps ==
    ASSUME OnTime, Tick \/ StartSearch \/ GiveUp \/ ProposeNext \/ ReplayMiss \/ Evaluate
    PROVE  OnTime'
<1>1. CASE Tick
  <2>1. nanos' = nanos + 1 /\ UNCHANGED <<start, step, evidence, report, lateAnswer>>
    BY <1>1 DEF Tick, localVars, ghostVars
  <2>2. Late => Late'
    BY <2>1, StaysLate DEF OnTime
  <2> QED BY <2>1, <2>2, QuietInTime DEF OnTime, TimeTyped
<1>2. CASE StartSearch
  <2>1. nanos' = nanos /\ start' = nanos /\ step = "start"
        /\ UNCHANGED <<evidence, report, lateAnswer>>
    BY <1>2 DEF StartSearch, ghostVars
  <2> QED BY <2>1, QuietInTime DEF OnTime, TimeTyped
<1>3. CASE GiveUp
  <2>1. /\ UNCHANGED <<nanos, start, evidence, report, lateAnswer>>
        /\ step' = "finish"
    BY <1>3 DEF GiveUp
  <2>2. Late => Late'
    BY <2>1, StaysLate DEF OnTime
  <2> QED BY <2>1, <2>2, QuietInTime DEF OnTime, TimeTyped
<1>4. CASE ProposeNext \/ Evaluate
  <2>1. ~Late /\ UNCHANGED <<nanos, start, evidence, report, lateAnswer>>
    BY <1>4 DEF ProposeNext, Evaluate, ghostVars
  <2> QED BY <2>1, QuietInTime DEF OnTime, TimeTyped
<1>5. CASE ReplayMiss
  <2>1. report' = "aborted" /\ UNCHANGED <<nanos, start, evidence>>
    BY <1>5 DEF ReplayMiss, localVars
  <2> QED BY <2>1 DEF OnTime, TimeTyped, LateShown, ClaimInTime
<1> QED BY <1>1, <1>2, <1>3, <1>4, <1>5

(* An answer that comes late is the last one of its search. *)
LEMMA OnTimeRecord == ASSUME OnTime, Record PROVE OnTime'
<1>1. /\ report = "running" /\ step = "record"
      /\ step' \in {"propose", "finish"}
      /\ UNCHANGED <<nanos, start, evidence, report>>
      /\ lateAnswer' = (lateAnswer \/ Late)
  BY DEF Record
<1>2. TimeTyped' /\ ClaimInTime'
  BY <1>1 DEF OnTime, TimeTyped, ClaimInTime
<1>3. Late => Late'
  BY <1>1, StaysLate DEF OnTime
<1>4. LateShown'
  BY <1>1, <1>3 DEF OnTime, LateShown
<1> QED BY <1>2, <1>4 DEF OnTime

(* The cell of a search whose deadline has passed is marked. *)
LEMMA OnTimeFinish == ASSUME OnTime, FinishCell PROVE OnTime'
<1> DEFINE r == [used |-> Len(trials),
                 approved |-> Cardinality(Approvals),
                 value |-> SumFunctionOnSet([i \in DOMAIN trials |-> trials[i].feedback.value], Approvals),
                 exhausted |-> Exhausted,
                 overrun |-> IF ElapsedMs > WallMs THEN ElapsedMs - WallMs ELSE 0,
                 traced |-> \A i \in DOMAIN trials :
                               traces[Here.family][i] = trials[i].vector,
                 attempts |-> audits]
<1>1. /\ report = "running"
      /\ UNCHANGED <<nanos, lateAnswer>> /\ start' = nanos
      /\ \/ report' = "aborted" /\ evidence' = evidence
         \/ UNCHANGED report /\ evidence' = Append(evidence, r)
  BY DEF FinishCell
<1>2. CASE report' = "aborted" /\ evidence' = evidence
  BY <1>1, <1>2 DEF OnTime, TimeTyped, LateShown, ClaimInTime
<1>3. CASE UNCHANGED report /\ evidence' = Append(evidence, r)
  <2>1. PICK S : evidence \in Seq(S)
    BY DEF OnTime, TimeTyped
  <2>2. r.exhausted = Exhausted
    OBVIOUS
  <2> HIDE DEF r
  <2>3. /\ evidence' \in Seq(S \cup {r})
        /\ \A i \in DOMAIN evidence : i \in DOMAIN evidence' /\ evidence'[i] = evidence[i]
        /\ \E i \in DOMAIN evidence' : evidence'[i] = r
    BY <1>3, <2>1, Appended
  <2>4. Late => \E i \in DOMAIN evidence' : evidence'[i].exhausted
    BY <2>2, <2>3 DEF Exhausted
  <2>5. LateShown'
    BY <1>1, <2>3, <2>4 DEF OnTime, LateShown
  <2>6. TimeTyped' /\ ClaimInTime'
    BY <1>1, <1>3, <2>3 DEF OnTime, TimeTyped, ClaimInTime
  <2> QED BY <2>5, <2>6 DEF OnTime
<1> QED BY <1>1, <1>2, <1>3

(* A claim that is met has no cell that was out of time. *)
LEMMA OnTimePublish == ASSUME OnTime, PublishClaim PROVE OnTime'
<1>1. /\ report = "running" /\ step = "start" /\ step' = step
      /\ UNCHANGED <<nanos, start, evidence, lateAnswer>>
      /\ report' = "criterion met" => Matched
  BY DEF PublishClaim, localVars, ghostVars, CriterionMet
<1>2. Matched => \A i \in DOMAIN evidence : ~evidence[i].exhausted
  BY DEF Matched
<1>3. Matched => ~lateAnswer
  BY <1>1, <1>2 DEF OnTime, LateShown
<1>4. TimeTyped' /\ ClaimInTime'
  BY <1>1, <1>3 DEF OnTime, TimeTyped, ClaimInTime, InTime
<1>5. LateShown'
  BY <1>1 DEF OnTime, LateShown
<1> QED BY <1>4, <1>5 DEF OnTime

LEMMA SearchKeepsTime == OnTime /\ [SearchNext]_searchVars => OnTime'
<1> SUFFICES ASSUME OnTime, [SearchNext]_searchVars PROVE OnTime'
  OBVIOUS
<1>1. CASE UNCHANGED searchVars
  <2>1. UNCHANGED <<nanos, start, step, evidence, report, lateAnswer>>
    BY <1>1 DEF searchVars, localVars, ghostVars
  <2>2. Late => Late'
    BY <2>1, StaysLate DEF OnTime
  <2> QED BY <2>1, <2>2, QuietInTime DEF OnTime, TimeTyped
<1> QED BY <1>1, OnTimeSteps, OnTimeRecord, OnTimeFinish, OnTimePublish DEF SearchNext
-----------------------------------------------------------------------------
(***************************************************************************)
(* What the evaluators gave away is in the evidence, each answer once, or   *)
(* among the trials of the search at hand.  The control's value is hidden, and *)
(* is the one thing the evidence may miss.                                  *)
(***************************************************************************)

(* What the evaluators gave away, as the evidence and the trials of the search
   at hand have it. *)
Answered == IF step = "record" THEN Append(trials, asked) ELSE trials

Gains(ts) == {i \in DOMAIN ts : Approved(ts[i].feedback)}

Gained(ts) == SumFunctionOnSet([i \in DOMAIN ts |-> ts[i].feedback.value], Gains(ts))

Turn(f, p) == step # "start" /\ Here.family = f /\ Here.policy = p

EarnedKept ==
    report # "aborted" =>
        \A f \in Trialled, p \in Policies :
            /\ earned[<<f, p>>].asked = Used(f, p) + (IF Turn(f, p) THEN Len(Answered) ELSE 0)
            /\ earned[<<f, p>>].approved =
                  ApprovedCount(f, p) + (IF Turn(f, p) THEN Cardinality(Gains(Answered)) ELSE 0)
            /\ f # Control => earned[<<f, p>>].value =
                  NetValue(f, p) + (IF Turn(f, p) THEN Gained(Answered) ELSE 0)

LEMMA GainsTyped ==
    ASSUME NEW ts, Tried(ts)
    PROVE  /\ Len(ts) \in Nat /\ IsFiniteSet(Gains(ts)) /\ Cardinality(Gains(ts)) \in Nat
           /\ \A i \in Gains(ts) : [j \in DOMAIN ts |-> ts[j].feedback.value][i] \in Int
           /\ Gained(ts) \in Int
<1>1. Len(ts) \in Nat /\ DOMAIN ts = 1..Len(ts)
  BY DEF Tried, IsSequence
<1>2. IsFiniteSet(Gains(ts))
  <2>1. Gains(ts) \in SUBSET (DOMAIN ts)
    BY DEF Gains
  <2>2. IsFiniteSet(DOMAIN ts)
    BY <1>1, FS_Interval
  <2> QED  BY <2>1, <2>2, FS_Subset
<1>3. \A i \in Gains(ts) : [j \in DOMAIN ts |-> ts[j].feedback.value][i] \in Int
  BY DEF Gains, Tried, IsTrial, IsFeedback
<1>4. Gained(ts) \in Int
  BY <1>2, <1>3, SumIsInt DEF Gained
<1> QED  BY <1>1, <1>2, <1>3, <1>4, FS_CardinalityType

LEMMA GainsMore ==
    ASSUME NEW ts, Tried(ts), NEW x, IsTrial(x)
    PROVE  /\ Cardinality(Gains(Append(ts, x))) =
                 Cardinality(Gains(ts)) + (IF Approved(x.feedback) THEN 1 ELSE 0)
           /\ Gained(Append(ts, x)) =
                 Gained(ts) + (IF Approved(x.feedback) THEN x.feedback.value ELSE 0)
<1> DEFINE n == Len(ts)
           more == Append(ts, x)
           old == Gains(ts)
           f == [i \in DOMAIN ts |-> ts[i].feedback.value]
           g == [i \in DOMAIN more |-> more[i].feedback.value]
<1>1. /\ Tried(more) /\ n \in Nat /\ DOMAIN ts = 1..n /\ DOMAIN more = 1..(n + 1)
      /\ more[n + 1] = x /\ \A i \in 1..n : more[i] = ts[i]
  BY TriedMore
<1>2. IsFiniteSet(old) /\ Cardinality(old) \in Nat /\ Gained(ts) \in Int /\ \A i \in old : f[i] \in Int
  BY GainsTyped
<1>3. n + 1 \notin old /\ \A i \in old : i \in 1..n
  BY <1>1 DEF Gains
<1>4. Gains(more) = IF Approved(x.feedback) THEN old \cup {n + 1} ELSE old
  <2> HIDE DEF more
  <2> QED  BY <1>1 DEF Gains
<1>5. g[n + 1] = x.feedback.value /\ x.feedback.value \in Int /\ \A i \in 1..n : g[i] = f[i]
  <2>1. x.feedback.value \in Int
    BY DEF IsTrial, IsFeedback
  <2> HIDE DEF more
  <2> QED  BY <1>1, <2>1
<1>6. Gained(ts) = SumFunctionOnSet(f, old) /\ Gained(more) = SumFunctionOnSet(g, Gains(more))
  BY DEF Gained
<1> HIDE DEF f, g, old, more
<1>7. SumFunctionOnSet(g, old) = SumFunctionOnSet(f, old)
  BY <1>2, <1>3, <1>5, SumSame
<1>8. CASE Approved(x.feedback)
  <2>1. Cardinality(old \cup {n + 1}) = Cardinality(old) + 1
    BY <1>2, <1>3, FS_AddElement
  <2>2. \A i \in old \cup {n + 1} : g[i] \in Int
    BY <1>2, <1>3, <1>5
  <2>3. SumFunctionOnSet(g, old \cup {n + 1}) = SumFunctionOnSet(g, old) + g[n + 1]
    BY <1>2, <1>3, <2>2, SumOneMore
  <2> QED  BY <1>4, <1>5, <1>6, <1>7, <1>8, <2>1, <2>3 DEF more, old
<1>9. CASE ~Approved(x.feedback)
  BY <1>2, <1>4, <1>6, <1>7, <1>9 DEF more, old
<1> QED  BY <1>8, <1>9

LEMMA GainsNothing == Len(<<>>) = 0 /\ Cardinality(Gains(<<>>)) = 0 /\ Gained(<<>>) = 0
<1>1. Gains(<<>>) = {} /\ Len(<<>>) = 0
  BY DEF Gains
<1> QED  BY <1>1, FS_EmptySet, SumOfNothing DEF Gained

(* One column of a table that gets a row more. *)
Lengthened(D, x, f, g) ==
    /\ IsFiniteSet(D) /\ x \notin D /\ g[x] \in Int
    /\ \A y \in D : f[y] \in Int /\ g[y] = f[y]

LEMMA ColumnMore ==
    ASSUME NEW D, NEW x, NEW f, NEW g, Lengthened(D, x, f, g)
    PROVE  /\ SumFunctionOnSet(f, D) \in Int
           /\ SumFunctionOnSet(g, D) = SumFunctionOnSet(f, D)
           /\ SumFunctionOnSet(g, D \cup {x}) = SumFunctionOnSet(f, D) + g[x]
<1>0. /\ IsFiniteSet(D) /\ x \notin D
      /\ \A y \in D : f[y] \in Int /\ g[y] = f[y]
      /\ \A y \in D \cup {x} : g[y] \in Int
  BY DEF Lengthened
<1>1. SumFunctionOnSet(f, D) \in Int
  BY <1>0, SumIsInt
<1>2. SumFunctionOnSet(g, D) = SumFunctionOnSet(f, D)
  BY <1>0, SumSame
<1>4. SumFunctionOnSet(g, D \cup {x}) = SumFunctionOnSet(g, D) + g[x]
  BY <1>0, SumOneMore
<1> QED  BY <1>1, <1>2, <1>4

LEMMA CellsForFinite ==
    ASSUME SearchTyped, NEW f, NEW p
    PROVE  IsFiniteSet(CellsFor(f, p)) /\ CellsFor(f, p) \in SUBSET (1..Len(evidence))
<1>1. DOMAIN evidence = 1..Len(evidence) /\ Len(evidence) \in Nat
  BY DEF SearchTyped, IsSequence
<1>2. CellsFor(f, p) \in SUBSET (1..Len(evidence))
  BY <1>1 DEF CellsFor
<1>3. IsFiniteSet(1..Len(evidence))
  BY <1>1, FS_Interval
<1> QED  BY <1>2, <1>3, FS_Subset

LEMMA CellBooked ==
    ASSUME SearchTyped, step # "start", NEW r, evidence' = Append(evidence, r),
           r.used \in Nat, r.approved \in Nat, r.value \in Int,
           NEW f \in Trialled, NEW p \in Policies
    PROVE  LET mine == Here.family = f /\ Here.policy = p
           IN  /\ Used(f, p)' = Used(f, p) + (IF mine THEN r.used ELSE 0)
               /\ ApprovedCount(f, p)' = ApprovedCount(f, p) + (IF mine THEN r.approved ELSE 0)
               /\ NetValue(f, p)' = NetValue(f, p) + (IF mine THEN r.value ELSE 0)
<1> DEFINE n == Len(evidence)
           D == CellsFor(f, p)
           mine == Here.family = f /\ Here.policy = p
<1>1. /\ n \in Nat /\ DOMAIN evidence = 1..n /\ DOMAIN evidence' = 1..(n + 1)
      /\ evidence'[n + 1] = r /\ \A i \in 1..n : evidence'[i] = evidence[i]
  BY Extended DEF SearchTyped
<1>2. cell = n + 1
  BY <1>1 DEF SearchTyped
<1>3. IsFiniteSet(D) /\ D \in SUBSET (1..n) /\ n + 1 \notin D
  BY <1>1, CellsForFinite
<1>4. Here = [family |-> f, policy |-> p] <=> mine
  BY HereTyped
<1>5. CellsFor(f, p)' = IF mine THEN D \cup {n + 1} ELSE D
  <2>1. CellsFor(f, p)' = {i \in 1..(n + 1) : Cells[i] = [family |-> f, policy |-> p]}
    BY <1>1 DEF CellsFor
  <2>2. D = {i \in 1..n : Cells[i] = [family |-> f, policy |-> p]}
    BY <1>1 DEF CellsFor
  <2>3. Cells[n + 1] = Here
    BY <1>2 DEF Here
  <2> HIDE DEF D, mine
  <2> QED  BY <1>1, <1>4, <2>1, <2>2, <2>3
<1>6. \A i \in D : /\ evidence[i].used \in Int /\ evidence[i].approved \in Int /\ evidence[i].value \in Int
                   /\ evidence'[i] = evidence[i]
  BY <1>1, <1>3 DEF SearchTyped
<1> DEFINE usedBefore == [i \in DOMAIN evidence |-> evidence[i].used]
           usedAfter == [i \in DOMAIN evidence' |-> evidence'[i].used]
           approvedBefore == [i \in DOMAIN evidence |-> evidence[i].approved]
           approvedAfter == [i \in DOMAIN evidence' |-> evidence'[i].approved]
           valueBefore == [i \in DOMAIN evidence |-> evidence[i].value]
           valueAfter == [i \in DOMAIN evidence' |-> evidence'[i].value]
<1>7. /\ \A i \in D : usedBefore[i] \in Int /\ usedAfter[i] = usedBefore[i]
      /\ usedAfter[n + 1] = r.used /\ r.used \in Int
  BY <1>1, <1>3, <1>6
<1>8. /\ \A i \in D : approvedBefore[i] \in Int /\ approvedAfter[i] = approvedBefore[i]
      /\ approvedAfter[n + 1] = r.approved /\ r.approved \in Int
  BY <1>1, <1>3, <1>6
<1>9. /\ \A i \in D : valueBefore[i] \in Int /\ valueAfter[i] = valueBefore[i]
      /\ valueAfter[n + 1] = r.value /\ r.value \in Int
  BY <1>1, <1>3, <1>6
<1>10. /\ Used(f, p) = SumFunctionOnSet(usedBefore, D)
       /\ Used(f, p)' = SumFunctionOnSet(usedAfter, CellsFor(f, p)')
       /\ ApprovedCount(f, p) = SumFunctionOnSet(approvedBefore, D)
       /\ ApprovedCount(f, p)' = SumFunctionOnSet(approvedAfter, CellsFor(f, p)')
       /\ NetValue(f, p) = SumFunctionOnSet(valueBefore, D)
       /\ NetValue(f, p)' = SumFunctionOnSet(valueAfter, CellsFor(f, p)')
  BY DEF Used, ApprovedCount, NetValue
<1> HIDE DEF D, mine, usedBefore, usedAfter, approvedBefore, approvedAfter, valueBefore, valueAfter
<1>11. Used(f, p)' = Used(f, p) + (IF mine THEN r.used ELSE 0)
  <2>1. /\ SumFunctionOnSet(usedBefore, D) \in Int
        /\ SumFunctionOnSet(usedAfter, D) = SumFunctionOnSet(usedBefore, D)
        /\ SumFunctionOnSet(usedAfter, D \cup {n + 1}) = SumFunctionOnSet(usedBefore, D) + usedAfter[n + 1]
    <3>1. Lengthened(D, n + 1, usedBefore, usedAfter)
      BY <1>3, <1>7 DEF Lengthened
    <3> QED  BY <3>1, ColumnMore
  <2> QED  BY <1>5, <1>7, <1>10, <2>1
<1>12. ApprovedCount(f, p)' = ApprovedCount(f, p) + (IF mine THEN r.approved ELSE 0)
  <2>1. /\ SumFunctionOnSet(approvedBefore, D) \in Int
        /\ SumFunctionOnSet(approvedAfter, D) = SumFunctionOnSet(approvedBefore, D)
        /\ SumFunctionOnSet(approvedAfter, D \cup {n + 1})
              = SumFunctionOnSet(approvedBefore, D) + approvedAfter[n + 1]
    <3>1. Lengthened(D, n + 1, approvedBefore, approvedAfter)
      BY <1>3, <1>8 DEF Lengthened
    <3> QED  BY <3>1, ColumnMore
  <2> QED  BY <1>5, <1>8, <1>10, <2>1
<1>13. NetValue(f, p)' = NetValue(f, p) + (IF mine THEN r.value ELSE 0)
  <2>1. /\ SumFunctionOnSet(valueBefore, D) \in Int
        /\ SumFunctionOnSet(valueAfter, D) = SumFunctionOnSet(valueBefore, D)
        /\ SumFunctionOnSet(valueAfter, D \cup {n + 1}) = SumFunctionOnSet(valueBefore, D) + valueAfter[n + 1]
    <3>1. Lengthened(D, n + 1, valueBefore, valueAfter)
      BY <1>3, <1>9 DEF Lengthened
    <3> QED  BY <3>1, ColumnMore
  <2> QED  BY <1>5, <1>9, <1>10, <2>1
<1> QED  BY <1>11, <1>12, <1>13 DEF mine

LEMMA SumsTyped ==
    ASSUME SearchTyped, NEW f \in Trialled, NEW p \in Policies
    PROVE  Used(f, p) \in Int /\ ApprovedCount(f, p) \in Int /\ NetValue(f, p) \in Int
<1> DEFINE used == [i \in DOMAIN evidence |-> evidence[i].used]
           gains == [i \in DOMAIN evidence |-> evidence[i].approved]
           values == [i \in DOMAIN evidence |-> evidence[i].value]
<1>1. IsFiniteSet(CellsFor(f, p)) /\ \A i \in CellsFor(f, p) : i \in DOMAIN evidence
  BY CellsForFinite DEF CellsFor
<1>2. \A i \in CellsFor(f, p) : used[i] \in Int /\ gains[i] \in Int /\ values[i] \in Int
  BY <1>1 DEF SearchTyped
<1> HIDE DEF used, gains, values
<1>3. /\ SumFunctionOnSet(used, CellsFor(f, p)) \in Int
      /\ SumFunctionOnSet(gains, CellsFor(f, p)) \in Int
      /\ SumFunctionOnSet(values, CellsFor(f, p)) \in Int
  BY <1>1, <1>2, SumIsInt
<1> QED  BY <1>3 DEF Used, ApprovedCount, NetValue, used, gains, values

LEMMA EarnedStarts ==
    ASSUME SearchInit
    PROVE  EarnedKept
<1> SUFFICES ASSUME NEW f \in Trialled, NEW p \in Policies
             PROVE  /\ earned[<<f, p>>].asked
                          = Used(f, p) + (IF Turn(f, p) THEN Len(Answered) ELSE 0)
                    /\ earned[<<f, p>>].approved
                          = ApprovedCount(f, p) + (IF Turn(f, p) THEN Cardinality(Gains(Answered)) ELSE 0)
                    /\ f # Control => earned[<<f, p>>].value
                          = NetValue(f, p) + (IF Turn(f, p) THEN Gained(Answered) ELSE 0)
  BY DEF EarnedKept
<1>1. CellsFor(f, p) = {}
  BY DEF SearchInit, CellsFor
<1>2. earned[<<f, p>>] = [asked |-> 0, approved |-> 0, value |-> 0]
  BY DEF SearchInit, Policies
<1>3. Used(f, p) = 0 /\ ApprovedCount(f, p) = 0 /\ NetValue(f, p) = 0
  BY <1>1, SumOfNothing DEF Used, ApprovedCount, NetValue
<1>4. ~Turn(f, p)
  BY DEF Turn, SearchInit
<1> QED  BY <1>2, <1>3, <1>4

LEMMA EarnedQuiet ==
    ASSUME EarnedKept, UNCHANGED <<cell, evidence, earned>>, report # "aborted",
           \/ Answered' = Answered /\ (step' = "start" <=> step = "start")
           \/ Answered' = <<>> /\ step = "start"
    PROVE  EarnedKept'
<1> SUFFICES ASSUME NEW f \in Trialled, NEW p \in Policies
             PROVE  /\ earned'[<<f, p>>].asked
                          = Used(f, p)' + (IF Turn(f, p)' THEN Len(Answered') ELSE 0)
                    /\ earned'[<<f, p>>].approved
                          = ApprovedCount(f, p)' + (IF Turn(f, p)' THEN Cardinality(Gains(Answered')) ELSE 0)
                    /\ f # Control => earned'[<<f, p>>].value
                          = NetValue(f, p)' + (IF Turn(f, p)' THEN Gained(Answered') ELSE 0)
  <2>1. Gains(Answered)' = Gains(Answered') /\ Gained(Answered)' = Gained(Answered')
    BY DEF Gains, Gained
  <2> QED  BY <2>1 DEF EarnedKept
<1>1. /\ Used(f, p)' = Used(f, p) /\ ApprovedCount(f, p)' = ApprovedCount(f, p)
      /\ NetValue(f, p)' = NetValue(f, p)
  BY DEF Used, ApprovedCount, NetValue, CellsFor
<1>2. /\ earned[<<f, p>>].asked = Used(f, p) + (IF Turn(f, p) THEN Len(Answered) ELSE 0)
      /\ earned[<<f, p>>].approved
            = ApprovedCount(f, p) + (IF Turn(f, p) THEN Cardinality(Gains(Answered)) ELSE 0)
      /\ f # Control => earned[<<f, p>>].value
            = NetValue(f, p) + (IF Turn(f, p) THEN Gained(Answered) ELSE 0)
  BY DEF EarnedKept
<1>3. CASE Answered' = Answered /\ (step' = "start" <=> step = "start")
  <2>1. Turn(f, p)' <=> Turn(f, p)
    BY <1>3 DEF Turn, Here
  <2> QED  BY <1>1, <1>2, <1>3, <2>1
<1>4. CASE Answered' = <<>> /\ step = "start"
  <2>1. ~Turn(f, p)
    BY <1>4 DEF Turn
  <2>2. Len(Answered') = 0 /\ Cardinality(Gains(Answered')) = 0 /\ Gained(Answered') = 0
    BY <1>4, GainsNothing
  <2> QED  BY <1>1, <1>2, <2>1, <2>2
<1> QED  BY <1>3, <1>4

LEMMA EarnedEvaluate ==
    ASSUME SearchTyped, EarnedKept, Evaluate
    PROVE  EarnedKept'
<1> DEFINE h == Here.family
           q == Here.policy
           found == verdict[h][asked.vector]
           before == earned[<<h, q>>]
<1>1. /\ step = "evaluate" /\ report = "running" /\ step' = "record" /\ trials' = trials
      /\ UNCHANGED <<cell, evidence, report>> /\ IsAsked(asked)
      /\ asked' = [vector |-> asked.vector, parent |-> asked.parent, feedback |-> Public(h, found)]
  BY DEF Evaluate, SearchTyped
<1>2. /\ IsFeedback(found) /\ IsFeedback(Public(h, found)) /\ Public(h, found).reason = found.reason
      /\ h # Control => Public(h, found) = found
      /\ h \in Trialled /\ q \in Policies
  BY <1>1, FoundTyped, HereTyped
<1>3. IsTrial(asked') /\ asked'.feedback = Public(h, found)
  BY <1>1, <1>2 DEF IsTrial, IsAsked
<1>4. Answered = trials /\ Answered' = Append(trials, asked') /\ Tried(trials)
  BY <1>1 DEF Answered, SearchTyped
<1>5. /\ Len(Answered') = Len(Answered) + 1
      /\ Cardinality(Gains(Answered')) =
            Cardinality(Gains(Answered)) + (IF Approved(found) THEN 1 ELSE 0)
      /\ h # Control =>
            Gained(Answered') = Gained(Answered) + (IF Approved(found) THEN found.value ELSE 0)
      /\ Len(Answered) \in Nat /\ Cardinality(Gains(Answered)) \in Nat /\ Gained(Answered) \in Int
  <2>1. Approved(asked'.feedback) <=> Approved(found)
    BY <1>2, <1>3 DEF Approved
  <2>2. /\ Len(Append(trials, asked')) = Len(trials) + 1
        /\ Cardinality(Gains(Append(trials, asked'))) =
              Cardinality(Gains(trials)) + (IF Approved(asked'.feedback) THEN 1 ELSE 0)
        /\ Gained(Append(trials, asked')) =
              Gained(trials) + (IF Approved(asked'.feedback) THEN asked'.feedback.value ELSE 0)
    BY <1>3, <1>4, TriedMore, GainsMore
  <2>3. Len(trials) \in Nat /\ Cardinality(Gains(trials)) \in Nat /\ Gained(trials) \in Int
    BY <1>4, GainsTyped
  <2> HIDE DEF found, h
  <2> QED  BY <1>2, <1>3, <1>4, <2>1, <2>2, <2>3
<1>6. earned' = [earned EXCEPT ![<<h, q>>] =
                    [asked |-> before.asked + 1,
                     approved |-> before.approved + (IF Approved(found) THEN 1 ELSE 0),
                     value |-> before.value + (IF Approved(found) THEN found.value ELSE 0)]]
  BY DEF Evaluate
<1>7. earned \in [Trialled \X Policies -> [asked : Int, approved : Int, value : Int]] /\ found.value \in Int
  BY <1>2 DEF SearchTyped, IsFeedback
<1> SUFFICES ASSUME NEW f \in Trialled, NEW p \in Policies
             PROVE  /\ earned'[<<f, p>>].asked
                          = Used(f, p)' + (IF Turn(f, p)' THEN Len(Answered') ELSE 0)
                    /\ earned'[<<f, p>>].approved
                          = ApprovedCount(f, p)' + (IF Turn(f, p)' THEN Cardinality(Gains(Answered')) ELSE 0)
                    /\ f # Control => earned'[<<f, p>>].value
                          = NetValue(f, p)' + (IF Turn(f, p)' THEN Gained(Answered') ELSE 0)
  <2>1. Gains(Answered)' = Gains(Answered') /\ Gained(Answered)' = Gained(Answered')
    BY DEF Gains, Gained
  <2> QED  BY <2>1 DEF EarnedKept
<1>8. /\ Used(f, p)' = Used(f, p) /\ ApprovedCount(f, p)' = ApprovedCount(f, p)
      /\ NetValue(f, p)' = NetValue(f, p)
  BY <1>1 DEF Used, ApprovedCount, NetValue, CellsFor
<1>9. /\ earned[<<f, p>>].asked = Used(f, p) + (IF Turn(f, p) THEN Len(Answered) ELSE 0)
      /\ earned[<<f, p>>].approved
            = ApprovedCount(f, p) + (IF Turn(f, p) THEN Cardinality(Gains(Answered)) ELSE 0)
      /\ f # Control => earned[<<f, p>>].value
            = NetValue(f, p) + (IF Turn(f, p) THEN Gained(Answered) ELSE 0)
  BY <1>1 DEF EarnedKept
<1>10. (Turn(f, p)' <=> h = f /\ q = p) /\ (Turn(f, p) <=> h = f /\ q = p)
  BY <1>1 DEF Turn, Here
<1>11. Used(f, p) \in Int /\ ApprovedCount(f, p) \in Int /\ NetValue(f, p) \in Int
  BY SumsTyped
<1> HIDE DEF h, q, found
<1>12. CASE h = f /\ q = p
  <2>1. /\ earned'[<<f, p>>].asked = before.asked + 1
        /\ earned'[<<f, p>>].approved = before.approved + (IF Approved(found) THEN 1 ELSE 0)
        /\ earned'[<<f, p>>].value = before.value + (IF Approved(found) THEN found.value ELSE 0)
    BY <1>6, <1>7, <1>12
  <2>2. /\ before = earned[<<f, p>>] /\ Turn(f, p) /\ Turn(f, p)'
        /\ Len(Answered) \in Nat /\ Cardinality(Gains(Answered)) \in Nat /\ Gained(Answered) \in Int
    BY <1>5, <1>10, <1>12
  <2>3. earned'[<<f, p>>].asked = Used(f, p) + Len(Answered')
    <3>1. before.asked = Used(f, p) + Len(Answered) /\ Len(Answered') = Len(Answered) + 1
      BY <1>5, <1>9, <2>2
    <3> QED  BY <1>11, <2>1, <2>2, <3>1
  <2>4. earned'[<<f, p>>].approved = ApprovedCount(f, p) + Cardinality(Gains(Answered'))
    <3>1. /\ before.approved = ApprovedCount(f, p) + Cardinality(Gains(Answered))
          /\ Cardinality(Gains(Answered')) =
                Cardinality(Gains(Answered)) + (IF Approved(found) THEN 1 ELSE 0)
      BY <1>5, <1>9, <2>2
    <3> QED  BY <1>11, <2>1, <2>2, <3>1
  <2>5. f # Control => earned'[<<f, p>>].value = NetValue(f, p) + Gained(Answered')
    <3> SUFFICES ASSUME f # Control
                 PROVE  earned'[<<f, p>>].value = NetValue(f, p) + Gained(Answered')
      OBVIOUS
    <3>1. /\ before.value = NetValue(f, p) + Gained(Answered)
          /\ Gained(Answered') = Gained(Answered) + (IF Approved(found) THEN found.value ELSE 0)
      BY <1>5, <1>9, <1>12, <2>2
    <3> QED  BY <1>7, <1>11, <2>1, <2>2, <3>1
  <2> QED  BY <1>8, <2>2, <2>3, <2>4, <2>5
<1>13. CASE ~(h = f /\ q = p)
  <2>1. earned'[<<f, p>>] = earned[<<f, p>>]
    BY <1>6, <1>7, <1>13
  <2> QED  BY <1>8, <1>9, <1>10, <1>13, <2>1
<1> QED  BY <1>12, <1>13

LEMMA EarnedFinish ==
    ASSUME SearchTyped, EarnedKept, FinishCell
    PROVE  EarnedKept'
<1> DEFINE r == [used |-> Len(trials),
                 approved |-> Cardinality(Approvals),
                 value |-> SumFunctionOnSet([i \in DOMAIN trials |-> trials[i].feedback.value], Approvals),
                 exhausted |-> Exhausted,
                 overrun |-> IF ElapsedMs > WallMs THEN ElapsedMs - WallMs ELSE 0,
                 traced |-> \A i \in DOMAIN trials :
                               traces[Here.family][i] = trials[i].vector,
                 attempts |-> audits]
<1> SUFFICES ASSUME report' # "aborted"
             PROVE  EarnedKept'
  BY DEF EarnedKept
<1>1. /\ step \in {"propose", "finish"} /\ report = "running" /\ earned' = earned
      /\ evidence' = Append(evidence, r) /\ step' = "start"
  BY DEF FinishCell
<1>2. /\ r.used = Len(trials) /\ r.approved = Cardinality(Gains(trials)) /\ r.value = Gained(trials)
      /\ Answered = trials
  <2>1. Approvals = Gains(trials)
    BY DEF Approvals, Gains
  <2> QED  BY <1>1, <2>1 DEF Gained, Answered
<1>3. Len(trials) \in Nat /\ Cardinality(Gains(trials)) \in Nat /\ Gained(trials) \in Int
  BY GainsTyped DEF SearchTyped
<1> HIDE DEF r
<1> SUFFICES ASSUME NEW f \in Trialled, NEW p \in Policies
             PROVE  /\ earned'[<<f, p>>].asked
                          = Used(f, p)' + (IF Turn(f, p)' THEN Len(Answered') ELSE 0)
                    /\ earned'[<<f, p>>].approved
                          = ApprovedCount(f, p)' + (IF Turn(f, p)' THEN Cardinality(Gains(Answered')) ELSE 0)
                    /\ f # Control => earned'[<<f, p>>].value
                          = NetValue(f, p)' + (IF Turn(f, p)' THEN Gained(Answered') ELSE 0)
  <2>1. Gains(Answered)' = Gains(Answered') /\ Gained(Answered)' = Gained(Answered')
    BY DEF Gains, Gained
  <2> QED  BY <2>1 DEF EarnedKept
<1> DEFINE mine == Here.family = f /\ Here.policy = p
<1>4. /\ Used(f, p)' = Used(f, p) + (IF mine THEN r.used ELSE 0)
      /\ ApprovedCount(f, p)' = ApprovedCount(f, p) + (IF mine THEN r.approved ELSE 0)
      /\ NetValue(f, p)' = NetValue(f, p) + (IF mine THEN r.value ELSE 0)
  BY <1>1, <1>2, <1>3, CellBooked
<1>5. /\ earned[<<f, p>>].asked = Used(f, p) + (IF Turn(f, p) THEN Len(Answered) ELSE 0)
      /\ earned[<<f, p>>].approved
            = ApprovedCount(f, p) + (IF Turn(f, p) THEN Cardinality(Gains(Answered)) ELSE 0)
      /\ f # Control => earned[<<f, p>>].value
            = NetValue(f, p) + (IF Turn(f, p) THEN Gained(Answered) ELSE 0)
  BY <1>1 DEF EarnedKept
<1>6. (Turn(f, p) <=> mine) /\ ~Turn(f, p)'
  BY <1>1 DEF Turn
<1>7. Used(f, p) \in Int /\ ApprovedCount(f, p) \in Int /\ NetValue(f, p) \in Int
  BY SumsTyped
<1> HIDE DEF mine
<1>8. Used(f, p)' \in Int /\ ApprovedCount(f, p)' \in Int /\ NetValue(f, p)' \in Int
  BY <1>2, <1>3, <1>4, <1>7
<1>9. /\ earned[<<f, p>>].asked = Used(f, p)'
      /\ earned[<<f, p>>].approved = ApprovedCount(f, p)'
      /\ f # Control => earned[<<f, p>>].value = NetValue(f, p)'
  BY <1>2, <1>4, <1>5, <1>6
<1> QED  BY <1>1, <1>6, <1>8, <1>9

LEMMA SearchKeepsEarned ==
    ASSUME SearchTyped, EarnedKept, [SearchNext]_searchVars
    PROVE  EarnedKept'
<1>0. SUFFICES ASSUME report' # "aborted"
               PROVE  EarnedKept'
  BY DEF EarnedKept
<1>1. CASE Tick \/ GiveUp \/ ProposeNext \/ PublishClaim \/ UNCHANGED searchVars
  <2>1. /\ UNCHANGED <<cell, trials, evidence, earned>> /\ report # "aborted"
        /\ \/ asked' = asked /\ step' = step
           \/ step' = "finish" /\ step \in {"propose", "evaluate"}
           \/ step' = "evaluate" /\ step = "propose"
    BY <1>0, <1>1 DEF Tick, GiveUp, ProposeNext, PublishClaim, searchVars, worldVars, localVars, ghostVars
  <2>2. Answered' = Answered /\ (step' = "start" <=> step = "start")
    BY <2>1 DEF Answered
  <2> QED  BY <2>1, <2>2, EarnedQuiet
<1>2. CASE StartSearch
  <2>1. /\ UNCHANGED <<cell, evidence, earned>> /\ report # "aborted"
        /\ step = "start" /\ trials' = <<>> /\ step' = "propose"
    BY <1>2 DEF StartSearch, ghostVars
  <2>2. Answered' = <<>>
    BY <2>1 DEF Answered
  <2> QED  BY <2>1, <2>2, EarnedQuiet
<1>3. CASE ReplayMiss
  BY <1>0, <1>3 DEF ReplayMiss
<1>4. CASE Evaluate
  BY <1>4, EarnedEvaluate
<1>5. CASE Record
  <2>1. /\ UNCHANGED <<cell, evidence, earned>> /\ report # "aborted"
        /\ step = "record" /\ trials' = Append(trials, asked) /\ step' \in {"finish", "propose"}
    BY <1>5 DEF Record
  <2>2. Answered' = Answered
    BY <2>1 DEF Answered
  <2> QED  BY <2>1, <2>2, EarnedQuiet
<1>6. CASE FinishCell
  BY <1>6, EarnedFinish
<1> QED  BY <1>1, <1>2, <1>3, <1>4, <1>5, <1>6 DEF SearchNext
-----------------------------------------------------------------------------
(***************************************************************************)
(* What is published is what the evidence says, of all the cells planned.   *)
(***************************************************************************)

(* A sum of equal amounts. *)
LEMMA SumOfEqual ==
    ASSUME NEW D, IsFiniteSet(D), NEW f, NEW k \in Int, \A x \in D : f[x] = k
    PROVE  SumFunctionOnSet(f, D) = Cardinality(D) * k
<1> DEFINE Good == {s \in SUBSET D : SumFunctionOnSet(f, s) = Cardinality(s) * k}
<1>1. {} \in Good
  BY SumOfNothing, FS_EmptySet
<1>2. ASSUME NEW s \in SUBSET D, s \in Good, NEW x \in D \ s
      PROVE  s \cup {x} \in Good
  <2>1. IsFiniteSet(s) /\ x \notin s /\ Cardinality(s) \in Nat
    BY FS_Subset, FS_CardinalityType
  <2>2. \A y \in s \cup {x} : f[y] \in Int
    OBVIOUS
  <2>3. SumFunctionOnSet(f, s \cup {x}) = SumFunctionOnSet(f, s) + f[x]
    BY <2>1, <2>2, SumOneMore
  <2>4. Cardinality(s \cup {x}) = Cardinality(s) + 1
    BY <2>1, FS_AddElement
  <2>5. f[x] = k /\ SumFunctionOnSet(f, s) = Cardinality(s) * k
    BY <1>2
  <2>6. Cardinality(s) * k + k = (Cardinality(s) + 1) * k
    BY <2>1
  <2> QED  BY <2>3, <2>4, <2>5, <2>6
<1> HIDE DEF Good
<1>3. D \in Good
  BY <1>1, <1>2, SetInduction
<1> QED  BY <1>3 DEF Good

LEMMA Cancels ==
    ASSUME NEW n \in Nat \ {0}, NEW x \in Int, NEW y \in Int, x * n = y * n
    PROVE  x = y
<1>1. (x - y) * n = 0
  OBVIOUS
<1>2. ASSUME NEW d \in Int, d * n = 0
      PROVE  d = 0
  <2>1. CASE d > 0
    <3>1. d * n > 0
      BY <2>1
    <3> QED  BY <1>2, <3>1
  <2>2. CASE d < 0
    <3>1. d * n < 0
      BY <2>2
    <3> QED  BY <1>2, <3>1
  <2> QED  BY <2>1, <2>2
<1>3. x - y = 0
  BY <1>1, <1>2
<1> QED  BY <1>3

(* What was published, and over which cells. *)
ClaimMade ==
    report = "criterion met" => CriterionMet /\ step = "start" /\ cell = Len(Cells) + 1

LEMMA CriterionStays ==
    ASSUME evidence' = evidence
    PROVE  CriterionMet' = CriterionMet
<1>1. \A f, p : Aggregate(f, p)' = Aggregate(f, p)
  BY DEF Aggregate, Used, ApprovedCount, NetValue, CellsFor
<1>2. Matched' = Matched
  BY DEF Matched
<1>3. ControlFlat' = ControlFlat
  BY <1>1 DEF ControlFlat
<1>4. Supported' = Supported
  BY <1>1 DEF Supported, Improves
<1>5. MoreValue' = MoreValue
  <2>1. \A f, p : NetValue(f, p)' = NetValue(f, p)
    BY DEF NetValue, CellsFor
  <2> QED  BY <2>1 DEF MoreValue
<1> QED  BY <1>2, <1>3, <1>4, <1>5 DEF CriterionMet

LEMMA SearchKeepsClaim ==
    ASSUME SearchTyped, ClaimMade, [SearchNext]_searchVars
    PROVE  ClaimMade'
<1>1. CASE PublishClaim
  <2>1. evidence' = evidence
    BY <1>1 DEF PublishClaim
  <2>2. step' = "start" /\ cell' = cell /\ cell = Len(Cells) + 1
    <3>1. Len(Cells) \in Nat
      BY CellsPlanned
    <3>2. step = "start" /\ cell > Len(Cells) /\ step' = step /\ cell' = cell
      BY <1>1 DEF PublishClaim
    <3>3. cell \in 1..(Len(Cells) + 1)
      BY DEF SearchTyped
    <3> QED  BY <3>1, <3>2, <3>3
  <2>3. report' = "criterion met" => CriterionMet
    BY <1>1 DEF PublishClaim
  <2> QED  BY <2>1, <2>2, <2>3, CriterionStays DEF ClaimMade
<1>2. CASE UNCHANGED searchVars
  <2>1. evidence' = evidence /\ report' = report /\ step' = step /\ cell' = cell
    BY <1>2 DEF searchVars
  <2> QED  BY <2>1, CriterionStays DEF ClaimMade
<1>3. CASE Tick \/ StartSearch \/ GiveUp \/ ProposeNext \/ ReplayMiss \/ Evaluate \/ Record \/ FinishCell
  <2>1. report' # "criterion met"
    BY <1>3 DEF Tick, StartSearch, GiveUp, ProposeNext, ReplayMiss, Evaluate, Record, FinishCell
  <2> QED  BY <2>1 DEF ClaimMade
<1> QED  BY <1>1, <1>2, <1>3 DEF SearchNext

(* At the end every cell that was planned is in the evidence. *)
LEMMA AllCellsAsked ==
    ASSUME SearchTyped, Matched, cell = Len(Cells) + 1,
           NEW f \in Trialled, NEW p \in Policies, f # Control \/ p # Tape
    PROVE  Used(f, p) = Len(Seeds) * QueryBudget
<1> DEFINE c == [family |-> f, policy |-> p]
           used == [i \in DOMAIN evidence |-> evidence[i].used]
<1>1. /\ Cells \in Seq(CellType) /\ DOMAIN Cells = 1..Len(Cells) /\ Len(Cells) \in Nat
      /\ DOMAIN evidence = DOMAIN Cells
  BY CellsPlanned DEF SearchTyped, IsSequence
<1>2. c \in CellType /\ c.family = f /\ c.policy = p
  BY DEF CellType
<1>3. CellsFor(f, p) = Occurrences(Cells, c)
  BY <1>1 DEF CellsFor, Occurrences
<1> HIDE DEF c
<1>4. IsFiniteSet(CellsFor(f, p)) /\ Cardinality(CellsFor(f, p)) = Len(Seeds)
  BY <1>1, <1>2, <1>3, CellsPlanned, TimesFinite DEF Times
<1>5. \A i \in CellsFor(f, p) : used[i] = QueryBudget
  BY DEF CellsFor, Matched
<1>6. QueryBudget \in Int
  BY SearchConstants
<1> HIDE DEF used
<1>7. SumFunctionOnSet(used, CellsFor(f, p)) = Cardinality(CellsFor(f, p)) * QueryBudget
  BY <1>4, <1>5, <1>6, SumOfEqual
<1> QED  BY <1>4, <1>7 DEF Used, used

LEMMA ClaimIsHonest ==
    ASSUME SearchTyped, EarnedKept, ClaimMade, ClaimInTime
    PROVE  ClaimHonest
<1>0. SUFFICES ASSUME report = "criterion met"
             PROVE  /\ \A f \in ToSet(Families) :
                          /\ earned[f, "adaptive"].asked = Len(Seeds) * QueryBudget
                          /\ earned[f, "random"].asked = Len(Seeds) * QueryBudget
                          /\ Improves(f, earned[f, "adaptive"], earned[f, "random"])
                    /\ earned[Control, "adaptive"].approved = earned[Control, "random"].approved
                    /\ LiveReport = "supported"
  BY DEF ClaimHonest, ClaimInTime
<1>1. CriterionMet /\ step = "start" /\ cell = Len(Cells) + 1 /\ report # "aborted"
  <2>1. CriterionMet /\ step = "start" /\ cell = Len(Cells) + 1
    BY <1>0, Zenon DEF ClaimMade
  <2>2. "criterion met" # "aborted"
    BY Zenon
  <2> QED  BY <1>0, <2>1, <2>2, Zenon
<1>2. {"adaptive", "random"} \subseteq Policies /\ Control \in Trialled
      /\ \A f \in ToSet(Families) : f \in Trialled /\ f # Control
  <2>1. Policies = {"fixed", "random", "adaptive", Tape}
    BY DEF Policies, TargetPolicies, ToSet
  <2>2. Control \notin ToSet(Families)
    BY SearchConstants
  <2> QED  BY <2>1, <2>2 DEF Trialled
<1>3. ASSUME NEW f \in Trialled, NEW p \in {"adaptive", "random"}
      PROVE  /\ earned[<<f, p>>].asked = Used(f, p)
             /\ earned[<<f, p>>].approved = ApprovedCount(f, p)
             /\ f # Control => earned[<<f, p>>].value = NetValue(f, p)
             /\ Used(f, p) = Len(Seeds) * QueryBudget
             /\ ApprovedCount(f, p) \in Int
  <2>1. ~Turn(f, p) /\ p \in Policies /\ p # Tape
    BY <1>1, <1>2 DEF Turn, Tape
  <2>2. Used(f, p) \in Int /\ ApprovedCount(f, p) \in Int /\ NetValue(f, p) \in Int
    BY <2>1, SumsTyped
  <2>3. /\ earned[<<f, p>>].asked = Used(f, p) + (IF Turn(f, p) THEN Len(Answered) ELSE 0)
        /\ earned[<<f, p>>].approved
              = ApprovedCount(f, p) + (IF Turn(f, p) THEN Cardinality(Gains(Answered)) ELSE 0)
        /\ f # Control => earned[<<f, p>>].value
              = NetValue(f, p) + (IF Turn(f, p) THEN Gained(Answered) ELSE 0)
    BY <1>1, <2>1 DEF EarnedKept
  <2>4. Used(f, p) = Len(Seeds) * QueryBudget
    BY <1>1, <2>1, AllCellsAsked DEF CriterionMet
  <2>5. (IF Turn(f, p) THEN Len(Answered) ELSE 0) = 0
        /\ (IF Turn(f, p) THEN Cardinality(Gains(Answered)) ELSE 0) = 0
        /\ (IF Turn(f, p) THEN Gained(Answered) ELSE 0) = 0
    BY <2>1
  <2> QED  BY <2>2, <2>3, <2>4, <2>5
<1>4. ASSUME NEW f \in ToSet(Families)
      PROVE  /\ earned[f, "adaptive"].asked = Len(Seeds) * QueryBudget
             /\ earned[f, "random"].asked = Len(Seeds) * QueryBudget
             /\ Improves(f, earned[f, "adaptive"], earned[f, "random"])
  <2>1. Improves(f, Aggregate(f, "adaptive"), Aggregate(f, "random"))
    BY <1>1 DEF CriterionMet, Supported
  <2>2. /\ earned[f, "adaptive"].asked = Aggregate(f, "adaptive").asked
        /\ earned[f, "adaptive"].approved = Aggregate(f, "adaptive").approved
        /\ earned[f, "adaptive"].value = Aggregate(f, "adaptive").value
        /\ earned[f, "random"].asked = Aggregate(f, "random").asked
        /\ earned[f, "random"].approved = Aggregate(f, "random").approved
        /\ earned[f, "random"].value = Aggregate(f, "random").value
    BY <1>2, <1>3 DEF Aggregate
  <2>3. Improves(f, earned[f, "adaptive"], earned[f, "random"])
    BY <2>1, <2>2 DEF Improves
  <2> QED  BY <1>2, <1>3, <2>3
<1>5. earned[Control, "adaptive"].approved = earned[Control, "random"].approved
  <2>1. ApprovedCount(Control, "adaptive") * Used(Control, "random")
           = ApprovedCount(Control, "random") * Used(Control, "adaptive")
    BY <1>1 DEF CriterionMet, ControlFlat, Aggregate
  <2>2. Len(Seeds) * QueryBudget \in Nat \ {0}
    <3>1. Seeds \in Seq(ToSet(Seeds)) /\ Seeds # <<>> /\ QueryBudget \in Nat /\ QueryBudget # 0
      BY SearchConstants
    <3>2. Len(Seeds) \in Nat /\ Len(Seeds) # 0
      BY <3>1
    <3>3. ASSUME NEW m \in Nat, NEW n \in Nat, m # 0, n # 0
          PROVE  m * n \in Nat \ {0}
      <4>1. m * n \in Int /\ m > 0 /\ n > 0
        BY <3>3
      <4>2. m * n > 0
        BY <4>1
      <4> QED  BY <4>1, <4>2
    <3> QED  BY <3>1, <3>2, <3>3
  <2>3. ApprovedCount(Control, "adaptive") = ApprovedCount(Control, "random")
    BY <1>2, <1>3, <2>1, <2>2, Cancels
  <2> QED  BY <1>2, <1>3, <2>3
<1>6. LiveReport = "supported"
  BY <1>1 DEF LiveReport, CriterionMet, Matched
<1> QED  BY <1>4, <1>5, <1>6
-----------------------------------------------------------------------------
(***************************************************************************)
(* A run that nothing disturbs: some policy always has a vector to propose, *)
(* and the two buffers hold the search at hand and no other.                *)
(***************************************************************************)

(* Among the trials that did not fail there is one no other beats, and it can be
   among the three drawn. *)
LEMMA SomeBest ==
    ASSUME NEW D, IsFiniteSet(D), D # {}, NEW f, \A x \in D : f[x] \in Int
    PROVE  \E x \in D : \A y \in D : f[y] <= f[x]
<1> DEFINE Good == {s \in SUBSET D : s = {} \/ \E x \in s : \A y \in s : f[y] <= f[x]}
<1>1. {} \in Good
  OBVIOUS
<1>2. ASSUME NEW s \in SUBSET D, s \in Good, NEW x \in D \ s
      PROVE  s \cup {x} \in Good
  <2>1. CASE s = {}
    <3>1. s \cup {x} = {x} /\ f[x] <= f[x]
      BY <2>1
    <3> QED  BY <3>1
  <2>2. CASE s # {}
    <3>1. PICK b \in s : \A y \in s : f[y] <= f[b]
      BY <1>2, <2>2
    <3>2. CASE f[x] <= f[b]
      BY <3>1, <3>2
    <3>3. CASE ~(f[x] <= f[b])
      <4>1. \A y \in s : f[y] <= f[x]
        BY <3>1, <3>3
      <4>2. f[x] <= f[x]
        OBVIOUS
      <4> QED  BY <4>1, <4>2
    <3> QED  BY <3>2, <3>3
  <2> QED  BY <2>1, <2>2
<1> HIDE DEF Good
<1>3. D \in Good
  BY <1>1, <1>2, SetInduction
<1> QED  BY <1>3 DEF Good

LEMMA SomeThree ==
    ASSUME NEW D, IsFiniteSet(D), NEW x \in D
    PROVE  \E S \in SUBSET D :
              /\ x \in S
              /\ Cardinality(S) = IF Cardinality(D) < 3 THEN Cardinality(D) ELSE 3
<1>1. Cardinality(D) \in Nat
  BY FS_CardinalityType
<1>2. CASE Cardinality(D) < 3
  <2>1. D \in SUBSET D
    OBVIOUS
  <2> QED  BY <1>2, <2>1
<1>3. CASE ~(Cardinality(D) < 3)
  <2>1. IsFiniteSet(D \ {x}) /\ Cardinality(D \ {x}) = Cardinality(D) - 1
    BY FS_RemoveElement
  <2>2. D \ {x} # {}
    BY <1>1, <1>3, <2>1, FS_EmptySet
  <2>3. PICK y : y \in D \ {x}
    BY <2>2
  <2>4. IsFiniteSet((D \ {x}) \ {y}) /\ Cardinality((D \ {x}) \ {y}) = Cardinality(D) - 2
    <3>1. Cardinality((D \ {x}) \ {y}) = Cardinality(D \ {x}) - 1 /\ IsFiniteSet((D \ {x}) \ {y})
      BY <2>1, <2>3, FS_RemoveElement
    <3> QED  BY <1>1, <2>1, <3>1
  <2>5. (D \ {x}) \ {y} # {}
    BY <1>1, <1>3, <2>4, FS_EmptySet
  <2>6. PICK z : z \in (D \ {x}) \ {y}
    BY <2>5
  <2>7. IsFiniteSet({x}) /\ Cardinality({x}) = 1
    BY FS_Singleton
  <2>8. IsFiniteSet({x} \cup {y}) /\ Cardinality({x} \cup {y}) = 2
    <3>1. y \notin {x}
      BY <2>3
    <3>2. Cardinality({x} \cup {y}) = Cardinality({x}) + 1 /\ IsFiniteSet({x} \cup {y})
      BY <2>7, <3>1, FS_AddElement
    <3> QED  BY <2>7, <3>2
  <2>9. Cardinality(({x} \cup {y}) \cup {z}) = 3
    <3>1. z \notin {x} \cup {y}
      BY <2>6
    <3>2. Cardinality(({x} \cup {y}) \cup {z}) = Cardinality({x} \cup {y}) + 1
      BY <2>8, <3>1, FS_AddElement
    <3> QED  BY <2>8, <3>2
  <2>10. ({x} \cup {y}) \cup {z} \in SUBSET D /\ x \in ({x} \cup {y}) \cup {z}
    BY <2>3, <2>6
  <2> QED  BY <1>3, <2>9, <2>10
<1> QED  BY <1>2, <1>3

LEMMA SomeParent ==
    ASSUME Tried(trials), trials # <<>>
    PROVE  Parents # {}
<1> DEFINE eligible == {i \in DOMAIN trials : trials[i].feedback.reason \notin Failures}
           score == [i \in DOMAIN trials |-> Objective(trials[i].feedback)]
           size == IF Cardinality(eligible) < 3 THEN Cardinality(eligible) ELSE 3
<1>1. DOMAIN trials = 1..Len(trials) /\ Len(trials) \in Nat
  BY DEF Tried, IsSequence
<1>2. IsFiniteSet(eligible)
  <2>1. IsFiniteSet(DOMAIN trials)
    BY <1>1, FS_Interval
  <2>2. eligible \in SUBSET (DOMAIN trials)
    OBVIOUS
  <2> QED  BY <2>1, <2>2, FS_Subset
<1>3. \A i \in eligible : score[i] \in Int /\ score[i] = Objective(trials[i].feedback)
  <2> SUFFICES ASSUME NEW i \in eligible
               PROVE  score[i] \in Int /\ score[i] = Objective(trials[i].feedback)
    OBVIOUS
  <2>1. trials[i].feedback.value \in Int
    BY DEF Tried, IsTrial, IsFeedback
  <2>2. score[i] = Objective(trials[i].feedback)
    OBVIOUS
  <2>3. Objective(trials[i].feedback) \in Int
    BY <2>1 DEF Objective
  <2> QED  BY <2>2, <2>3
<1>4. Parents = IF eligible = {} THEN {Len(trials)}
                ELSE {i \in eligible :
                        \E S \in SUBSET eligible :
                            /\ i \in S /\ Cardinality(S) = size
                            /\ \A j \in S : Objective(trials[j].feedback)
                                               <= Objective(trials[i].feedback)}
  BY DEF Parents
<1> HIDE DEF eligible, score
<1>5. CASE eligible # {}
  <2>1. PICK b \in eligible : \A j \in eligible : score[j] <= score[b]
    BY <1>2, <1>3, <1>5, SomeBest
  <2>2. PICK S \in SUBSET eligible : b \in S /\ Cardinality(S) = size
    BY <1>2, SomeThree
  <2>3. \A j \in S : Objective(trials[j].feedback) <= Objective(trials[b].feedback)
    BY <1>3, <2>1, <2>2
  <2> HIDE DEF size
  <2> QED  BY <1>4, <1>5, <2>2, <2>3
<1> QED  BY <1>4, <1>5

(* Only the planner can be at a loss. *)
LEMMA SomeChoice ==
    ASSUME Tried(trials), trials # <<>>
    PROVE  AdaptiveChoices # {}
<1> DEFINE k == SelectInSeq(Frontier, LAMBDA v : v \notin Seen)
           Of(v) == LET fresh == OrElse(Near[v] \ Seen, Near[v])
                    IN  OrElse(OrElse(fresh \cap OneField[v], fresh), {v})
<1>1. CASE k # 0
  BY <1>1 DEF AdaptiveChoices
<1>2. CASE k = 0
  <2>1. AdaptiveChoices = UNION {{Vector(v, i) : v \in Of(trials[i].vector)} : i \in Parents}
    BY <1>2 DEF AdaptiveChoices
  <2>2. PICK i : i \in Parents
    BY SomeParent
  <2>3. PICK v : v \in Of(trials[i].vector)
    BY DEF OrElse
  <2> HIDE DEF Of
  <2>4. Vector(v, i) \in {Vector(w, i) : w \in Of(trials[i].vector)}
    BY <2>3
  <2>5. Vector(v, i) \in UNION {{Vector(w, j) : w \in Of(trials[j].vector)} : j \in Parents}
    BY <2>2, <2>4
  <2> QED  BY <2>1, <2>5
<1> QED  BY <1>1, <1>2

LEMMA SomeProposal ==
    ASSUME SearchTyped, step = "propose", Here.policy # Tape
    PROVE  Proposals(Here.family, Here.policy) # {}
<1>1. Here.policy \in {"fixed", "random", "adaptive"} /\ Tried(trials)
  BY HereTyped DEF SearchTyped, Policies, TargetPolicies, ToSet
<1>2. CASE Here.policy = "fixed" \/ trials = <<>>
  BY <1>2 DEF Proposals
<1>3. CASE Here.policy = "random" /\ trials # <<>>
  <2>1. Proposals(Here.family, Here.policy) = {Vector(v, Len(trials)) : v \in Vectors}
    BY <1>3 DEF Proposals, Tape
  <2> QED  BY <2>1, SearchConstants
<1>4. CASE Here.policy = "adaptive" /\ trials # <<>>
  <2>1. Proposals(Here.family, Here.policy) = AdaptiveChoices
    BY <1>4 DEF Proposals, Tape
  <2> QED  BY <1>1, <1>4, <2>1, SomeChoice
<1> QED  BY <1>1, <1>2, <1>3, <1>4

(* The planner's search follows its recorded session. *)
TapeTrial(f, i) ==
    [vector |-> tape[f][i].vector, parent |-> tape[f][i].parent,
     feedback |-> Public(f, verdict[f][tape[f][i].vector])]

TapeFollowed ==
    step # "start" /\ Here.policy = Tape =>
        /\ \A i \in DOMAIN Answered : Answered[i] = TapeTrial(Here.family, i)
        /\ step = "evaluate" =>
              asked = Vector(tape[Here.family][Len(trials) + 1].vector,
                             tape[Here.family][Len(trials) + 1].parent)

LEMMA TapeQuiet ==
    ASSUME TapeFollowed, UNCHANGED <<verdict, tape, cell>>, step' # "evaluate",
           \/ Answered' = Answered /\ step # "start"
           \/ Answered' = <<>>
           \/ step' = "start"
    PROVE  TapeFollowed'
<1>1. Here' = Here /\ \A f, i : TapeTrial(f, i)' = TapeTrial(f, i)
  BY DEF Here, TapeTrial, Public
<1>2. CASE Answered' = Answered /\ step # "start"
  BY <1>1, <1>2 DEF TapeFollowed
<1>3. CASE Answered' = <<>>
  BY <1>3, TriedNothing DEF TapeFollowed
<1>4. CASE step' = "start"
  BY <1>4 DEF TapeFollowed
<1> QED  BY <1>2, <1>3, <1>4

LEMMA TapeLong ==
    ASSUME SearchTyped, step # "start", Here.policy = Tape
    PROVE  LET t == tape[Here.family]
           IN  /\ Here.family \in ToSet(Families) /\ Here.family # Control
               /\ t \in Seq(ToSet(t)) /\ Len(t) \in Nat /\ DOMAIN t = 1..Len(t) /\ Len(t) >= QueryBudget
               /\ \A i \in DOMAIN t :
                     t[i] = [vector |-> t[i].vector, parent |-> t[i].parent, feedback |-> t[i].feedback]
<1> DEFINE t == tape[Here.family]
<1>1. Here.family \in ToSet(Families) /\ Here.family # Control
  BY HereTyped, SearchConstants
<1>2. t \in Session(Here.family, verdict[Here.family]) /\ verdict \in Verdicts
  BY <1>1 DEF SearchTyped
<1>3. /\ t \in Seq(ToSet(t)) /\ Len(t) >= QueryBudget
      /\ \A i \in DOMAIN t :
            t[i] = [vector |-> t[i].vector, parent |-> t[i].parent, feedback |-> t[i].feedback]
  BY <1>1, <1>2, WorldTyped
<1> HIDE DEF t
<1>4. Len(t) \in Nat /\ DOMAIN t = 1..Len(t)
  BY <1>3
<1> QED  BY <1>1, <1>3, <1>4 DEF t

LEMMA SearchKeepsTape ==
    ASSUME SearchTyped, TapeFollowed, [SearchNext]_searchVars
    PROVE  TapeFollowed'
<1>1. CASE Tick \/ ReplayMiss \/ PublishClaim \/ UNCHANGED searchVars
  <2>1. UNCHANGED <<verdict, tape, cell, step, trials, asked>>
    BY <1>1 DEF Tick, ReplayMiss, PublishClaim, searchVars, worldVars, localVars
  <2>2. Here' = Here /\ Answered' = Answered /\ \A f, i : TapeTrial(f, i)' = TapeTrial(f, i)
    BY <2>1 DEF Here, TapeTrial, Public, Answered
  <2> QED  BY <2>1, <2>2 DEF TapeFollowed
<1>2. CASE StartSearch
  <2>1. UNCHANGED <<verdict, tape, cell>> /\ trials' = <<>> /\ step' = "propose"
    BY <1>2 DEF StartSearch, worldVars
  <2>2. Answered' = <<>>
    BY <2>1 DEF Answered
  <2> QED  BY <2>1, <2>2, TapeQuiet
<1>3. CASE GiveUp
  <2>1. /\ UNCHANGED <<verdict, tape, cell, trials>> /\ step \in {"propose", "evaluate"}
        /\ step' = "finish"
    BY <1>3 DEF GiveUp, worldVars
  <2>2. Answered' = Answered
    BY <2>1 DEF Answered
  <2> QED  BY <2>1, <2>2, TapeQuiet
<1>4. CASE ProposeNext
  <2>1. /\ UNCHANGED <<verdict, tape, cell, trials>> /\ step = "propose" /\ step' = "evaluate"
        /\ asked' \in Proposals(Here.family, Here.policy)
    BY <1>4 DEF ProposeNext, worldVars
  <2>2. Here' = Here /\ Answered' = Answered /\ \A f, i : TapeTrial(f, i)' = TapeTrial(f, i)
    BY <2>1 DEF Here, TapeTrial, Public, Answered
  <2>3. Here.policy = Tape =>
           asked' = Vector(tape[Here.family][Len(trials) + 1].vector,
                           tape[Here.family][Len(trials) + 1].parent)
    BY <2>1 DEF Proposals, Tape
  <2> QED  BY <2>1, <2>2, <2>3 DEF TapeFollowed
<1>5. CASE Evaluate
  <2> DEFINE f == Here.family
  <2>1. /\ UNCHANGED <<verdict, tape, cell, trials>> /\ step = "evaluate" /\ step' = "record"
        /\ asked' = [vector |-> asked.vector, parent |-> asked.parent,
                     feedback |-> Public(f, verdict[f][asked.vector])]
    BY <1>5 DEF Evaluate, worldVars
  <2>2. Here' = Here /\ \A g, i : TapeTrial(g, i)' = TapeTrial(g, i)
    BY <2>1 DEF Here, TapeTrial, Public
  <2> SUFFICES ASSUME Here.policy = Tape
               PROVE  \A i \in DOMAIN Answered' : Answered'[i] = TapeTrial(f, i)
    BY <2>1, <2>2 DEF TapeFollowed
  <2>3. /\ asked = Vector(tape[f][Len(trials) + 1].vector, tape[f][Len(trials) + 1].parent)
        /\ \A i \in DOMAIN trials : trials[i] = TapeTrial(f, i)
    BY <2>1 DEF TapeFollowed, Answered
  <2>4. asked' = TapeTrial(f, Len(trials) + 1)
    BY <2>1, <2>3 DEF TapeTrial, Vector
  <2>5. Answered' = Append(trials, asked')
    BY <2>1 DEF Answered
  <2>6. IsTrial(asked')
    BY <1>5, <2>1, EvaluateTyped DEF SearchTyped
  <2>7. /\ Len(trials) \in Nat /\ DOMAIN trials = 1..Len(trials)
        /\ DOMAIN Answered' = 1..(Len(trials) + 1)
        /\ Answered'[Len(trials) + 1] = asked' /\ \A i \in 1..Len(trials) : Answered'[i] = trials[i]
    BY <2>5, <2>6, TriedMore DEF SearchTyped
  <2> HIDE DEF f
  <2> QED  BY <2>3, <2>4, <2>7
<1>6. CASE Record
  <2>1. /\ UNCHANGED <<verdict, tape, cell>> /\ step = "record" /\ trials' = Append(trials, asked)
        /\ step' \in {"finish", "propose"}
    BY <1>6 DEF Record, worldVars
  <2>2. Answered' = Answered
    BY <2>1 DEF Answered
  <2> QED  BY <2>1, <2>2, TapeQuiet
<1>7. CASE FinishCell
  <2>1. /\ UNCHANGED <<verdict, tape>> /\ trials' = <<>> /\ step \in {"propose", "finish"}
        /\ UNCHANGED <<cell, step>> \/ step' = "start"
    BY <1>7 DEF FinishCell, worldVars
  <2>2. CASE UNCHANGED <<cell, step>>
    <3>1. Answered' = <<>>
      BY <2>1, <2>2 DEF Answered
    <3> QED  BY <2>1, <2>2, <3>1, TapeQuiet
  <2>3. CASE step' = "start"
    BY <2>3 DEF TapeFollowed
  <2> QED  BY <2>1, <2>2, <2>3
<1> QED  BY <1>1, <1>2, <1>3, <1>4, <1>5, <1>6, <1>7 DEF SearchNext

(* If the recorded answers are these evaluators', the planner is never at a loss. *)
LEMMA TapeReplays ==
    ASSUME SearchTyped, TapeFollowed, step = "propose", Len(trials) < QueryBudget,
           Here.policy = Tape,
           \A i \in DOMAIN tape[Here.family] :
               tape[Here.family][i].feedback
                  = Public(Here.family, verdict[Here.family][tape[Here.family][i].vector])
    PROVE  Proposals(Here.family, Here.policy) # {}
<1> DEFINE t == tape[Here.family]
           n == Len(trials)
<1>1. /\ t \in Seq(ToSet(t)) /\ Len(t) \in Nat /\ DOMAIN t = 1..Len(t) /\ Len(t) >= QueryBudget
      /\ \A i \in DOMAIN t :
            t[i] = [vector |-> t[i].vector, parent |-> t[i].parent, feedback |-> t[i].feedback]
  BY TapeLong
<1>2. n \in Nat /\ DOMAIN trials = 1..n /\ n < Len(t) /\ IsSequence(trials)
  BY <1>1, SearchConstants DEF SearchTyped, Tried, IsSequence
<1>3. \A i \in DOMAIN trials : trials[i] = TapeTrial(Here.family, i)
  BY DEF TapeFollowed, Answered
<1>4. \A i \in 1..n : trials[i] = t[i]
  <2> SUFFICES ASSUME NEW i \in 1..n
               PROVE  trials[i] = t[i]
    OBVIOUS
  <2>1. i \in DOMAIN t
    BY <1>1, <1>2
  <2>2. t[i].feedback = Public(Here.family, verdict[Here.family][t[i].vector])
    BY <2>1
  <2>3. t[i] = TapeTrial(Here.family, i)
    BY <1>1, <2>1, <2>2 DEF TapeTrial
  <2> QED  BY <1>2, <1>3, <2>3
<1> HIDE DEF t, n
<1>5. trials \in Seq(ToSet(t))
  <2>1. \A i \in 1..n : trials[i] \in ToSet(t)
    <3> SUFFICES ASSUME NEW i \in 1..n
                 PROVE  trials[i] \in ToSet(t)
      OBVIOUS
    <3>1. i \in DOMAIN t
      BY <1>1, <1>2
    <3> QED  BY <1>4, <3>1 DEF ToSet
  <2>2. PICK S : trials \in Seq(S)
    BY <1>2 DEF IsSequence
  <2> QED  BY <2>1, <2>2, SeqDef DEF n
<1>6. trials = SubSeq(t, 1, n)
  <2>1. /\ SubSeq(t, 1, n) \in Seq(ToSet(t))
        /\ Len(SubSeq(t, 1, n)) = IF 1 <= n THEN n - 1 + 1 ELSE 0
        /\ \A i \in 1..(n - 1 + 1) : SubSeq(t, 1, n)[i] = t[1 + i - 1]
    BY <1>1, <1>2, SubSeqProperties
  <2>2. Len(SubSeq(t, 1, n)) = n /\ \A i \in 1..n : SubSeq(t, 1, n)[i] = trials[i]
    BY <1>2, <1>4, <2>1
  <2> QED  BY <1>5, <2>1, <2>2, SeqEqual DEF n
<1>7. Replayable(Here.family)
  BY <1>2, <1>6 DEF Replayable, t, n
<1> DEFINE x == Vector(t[n + 1].vector, t[n + 1].parent)
<1>8. x \in Proposals(Here.family, Here.policy) <=>
         x \in IF Replayable(Here.family) THEN {x} ELSE {}
  BY DEF Proposals, Tape, t, n
<1> HIDE DEF x
<1> QED  BY <1>7, <1>8

(* What the two buffers hold while nothing has disturbed the run, and how its
   cells came out. *)
VectorsOf(ts) == [i \in DOMAIN ts |-> ts[i].vector]

Planning ==
    IF step # "start" /\ Here.policy = Tape
    THEN Len(trials) + (IF step \in {"evaluate", "record"} THEN 1 ELSE 0) ELSE 0

Traced ==
    [f \in Trialled |-> IF step # "start" /\ Here.family = f THEN VectorsOf(Answered) ELSE <<>>]

Whole(i) == evidence[i].used = QueryBudget /\ CellVerified(i)

Clear ==
    /\ step # "finish" /\ audits = Planning /\ traces = Traced
    /\ \A i \in DOMAIN evidence : Whole(i)

Undisturbed ==
    /\ UndisturbedPublishes
    /\ report = "running" /\ ~disturbed => Clear

LEMMA VectorsLong ==
    ASSUME NEW ts, Tried(ts)
    PROVE  /\ VectorsOf(ts) \in Seq(Vectors) /\ Len(VectorsOf(ts)) = Len(ts)
           /\ \A i \in 1..Len(ts) : VectorsOf(ts)[i] = ts[i].vector
<1>1. Len(ts) \in Nat /\ DOMAIN ts = 1..Len(ts)
  BY DEF Tried, IsSequence
<1>2. \A i \in 1..Len(ts) : ts[i].vector \in Vectors
  BY <1>1 DEF Tried, IsTrial
<1>3. VectorsOf(ts) = [i \in 1..Len(ts) |-> ts[i].vector]
  BY <1>1 DEF VectorsOf
<1> QED  BY <1>1, <1>2, <1>3

LEMMA VectorsMore ==
    ASSUME NEW ts, Tried(ts), NEW x, IsTrial(x)
    PROVE  VectorsOf(Append(ts, x)) = Append(VectorsOf(ts), x.vector)
<1> DEFINE n == Len(ts)
           vs == VectorsOf(ts)
           ws == VectorsOf(Append(ts, x))
<1>1. /\ n \in Nat /\ Tried(Append(ts, x)) /\ Len(Append(ts, x)) = n + 1
      /\ Append(ts, x)[n + 1] = x /\ \A i \in 1..n : Append(ts, x)[i] = ts[i]
  BY TriedMore
<1>2. vs \in Seq(Vectors) /\ Len(vs) = n /\ \A i \in 1..n : vs[i] = ts[i].vector
  BY VectorsLong
<1>3. ws \in Seq(Vectors) /\ Len(ws) = n + 1 /\ \A i \in 1..(n + 1) : ws[i] = Append(ts, x)[i].vector
  BY <1>1, VectorsLong
<1> HIDE DEF vs, ws, n
<1>4. /\ Append(vs, x.vector) \in Seq(Vectors) /\ Len(Append(vs, x.vector)) = n + 1
      /\ Append(vs, x.vector)[n + 1] = x.vector
      /\ \A i \in 1..n : Append(vs, x.vector)[i] = vs[i]
  <2>1. x.vector \in Vectors
    BY DEF IsTrial
  <2> QED  BY <1>2, <2>1, AppendProperties
<1>5. \A i \in 1..(n + 1) : ws[i] = Append(vs, x.vector)[i]
  <2> SUFFICES ASSUME NEW i \in 1..(n + 1)
               PROVE  ws[i] = Append(vs, x.vector)[i]
    OBVIOUS
  <2>1. i \in 1..n \/ i = n + 1
    BY <1>1
  <2> QED  BY <1>1, <1>2, <1>3, <1>4, <2>1
<1> QED  BY <1>3, <1>4, <1>5, SeqEqual DEF vs, ws

LEMMA VectorsNone == VectorsOf(<<>>) = <<>>
<1> DEFINE vs == VectorsOf(<<>>)
<1>1. vs = [i \in {} |-> <<>>[i].vector] /\ 1..0 = {} /\ 0 \in Nat
  BY TriedNothing DEF VectorsOf
<1>2. vs \in [1..0 -> {}]
  BY <1>1
<1> HIDE DEF vs
<1>3. vs \in Seq({}) /\ DOMAIN vs = 1..0
  BY <1>1, <1>2, SeqDef
<1>4. Len(vs) = 0
  BY <1>1, <1>3, LenProperties
<1>5. vs = <<>>
  BY <1>3, <1>4, EmptySeq
<1> QED  BY <1>5 DEF vs

LEMMA UndisturbedStarts ==
    ASSUME SearchInit
    PROVE  Undisturbed
<1>1. step = "start" /\ report = "running" /\ audits = 0 /\ evidence = <<>>
      /\ traces = [f \in Trialled |-> <<>>]
  BY DEF SearchInit
<1>2. Planning = 0 /\ Traced = [f \in Trialled |-> <<>>]
  BY <1>1 DEF Planning, Traced
<1> QED  BY <1>1, <1>2, TriedNothing DEF Undisturbed, UndisturbedPublishes, Clear

(* A step that is not disturbed, or that leaves the buffers as they are. *)
LEMMA UndisturbedQuiet ==
    ASSUME Undisturbed, report = "running", report' = "running", disturbed' = disturbed,
           UNCHANGED <<cell, traces, audits, evidence>>, step' # "finish",
           Planning' = Planning, Traced' = Traced
    PROVE  Undisturbed'
<1>1. \A i \in DOMAIN evidence : Whole(i) => Whole(i)'
  BY DEF Whole, CellVerified
<1>2. Clear => Clear'
  BY <1>1 DEF Clear
<1> QED  BY <1>2 DEF Undisturbed, UndisturbedPublishes

LEMMA UndisturbedSteps ==
    ASSUME SearchTyped, Undisturbed,
           Tick \/ StartSearch \/ GiveUp \/ ProposeNext \/ Record \/ UNCHANGED searchVars
    PROVE  Undisturbed'
<1>1. CASE Tick
  <2>1. UNCHANGED <<cell, step, trials, asked, traces, audits, evidence, report, disturbed>>
        /\ report = "running"
    BY <1>1 DEF Tick, localVars, ghostVars
  <2>2. Planning' = Planning /\ Traced' = Traced
    BY <2>1 DEF Planning, Traced, Here, Answered, VectorsOf
  <2>3. CASE step # "finish"
    BY <2>1, <2>2, <2>3, UndisturbedQuiet
  <2>4. CASE step = "finish"
    BY <2>1, <2>4 DEF Undisturbed, Clear, UndisturbedPublishes
  <2> QED  BY <2>3, <2>4
<1>2. CASE UNCHANGED searchVars
  <2>1. UNCHANGED <<cell, step, trials, asked, traces, audits, evidence, report, disturbed>>
    BY <1>2 DEF searchVars, localVars, ghostVars
  <2>2. Planning' = Planning /\ Traced' = Traced
    BY <2>1 DEF Planning, Traced, Here, Answered, VectorsOf
  <2>3. CASE report = "running" /\ step # "finish"
    BY <2>1, <2>2, <2>3, UndisturbedQuiet
  <2>4. CASE report = "running" /\ step = "finish"
    BY <2>1, <2>4 DEF Undisturbed, Clear, UndisturbedPublishes
  <2>5. CASE report # "running"
    BY <2>1, <2>5 DEF Undisturbed, UndisturbedPublishes
  <2> QED  BY <2>3, <2>4, <2>5
<1>3. CASE StartSearch
  <2>1. /\ UNCHANGED <<cell, traces, audits, evidence, report, disturbed>> /\ report = "running"
        /\ step = "start" /\ trials' = <<>> /\ step' = "propose"
    BY <1>3 DEF StartSearch, ghostVars
  <2>2. Answered' = <<>> /\ Len(trials') = 0
    BY <2>1, TriedNothing DEF Answered
  <2>3. Planning' = 0 /\ Planning = 0
    BY <2>1, <2>2 DEF Planning
  <2>4. Traced' = Traced
    <3>1. VectorsOf(Answered)' = VectorsOf(Answered')
      BY DEF VectorsOf
    <3>2. VectorsOf(Answered)' = <<>>
      BY <2>2, <3>1, VectorsNone
    <3> QED  BY <2>1, <3>2 DEF Traced
  <2> QED  BY <2>1, <2>3, <2>4, UndisturbedQuiet
<1>4. CASE GiveUp
  <2>1. disturbed' /\ report' = "running"
    BY <1>4 DEF GiveUp
  <2> QED  BY <2>1 DEF Undisturbed, UndisturbedPublishes
<1>5. CASE ProposeNext
  <2>1. /\ UNCHANGED <<cell, trials, traces, evidence, report, disturbed>> /\ report = "running"
        /\ step = "propose" /\ step' = "evaluate"
        /\ audits' = IF Here.policy = Tape THEN audits + 1 ELSE audits
    BY <1>5 DEF ProposeNext, ghostVars
  <2>2. Here' = Here /\ Answered' = Answered /\ VectorsOf(Answered)' = VectorsOf(Answered)
        /\ Len(trials) \in Nat
    BY <2>1 DEF Here, Answered, VectorsOf, SearchTyped, Tried, IsSequence
  <2>3. Traced' = Traced
    BY <2>1, <2>2 DEF Traced
  <2>4. audits = Planning => audits' = Planning'
    BY <2>1, <2>2 DEF Planning
  <2>5. \A i \in DOMAIN evidence : Whole(i) => Whole(i)'
    BY <2>1 DEF Whole, CellVerified
  <2>6. Clear => Clear'
    BY <2>1, <2>3, <2>4, <2>5 DEF Clear
  <2> QED  BY <2>1, <2>6 DEF Undisturbed, UndisturbedPublishes
<1>6. CASE Record
  <2>1. /\ UNCHANGED <<cell, traces, audits, evidence, report>> /\ report = "running"
        /\ step = "record" /\ trials' = Append(trials, asked)
        /\ disturbed' = (disturbed \/ Late)
        /\ ~Late => step' = "propose"
        /\ step' \in {"propose", "finish"}
    BY <1>6 DEF Record
  <2>2. Here' = Here /\ Answered' = Answered /\ VectorsOf(Answered)' = VectorsOf(Answered)
    BY <2>1 DEF Here, Answered, VectorsOf
  <2>3. Traced' = Traced
    BY <2>1, <2>2 DEF Traced
  <2>4. Len(trials') = Len(trials) + 1 /\ Len(trials) \in Nat
    BY <2>1, TriedMore DEF SearchTyped
  <2>5. Planning' = Planning
    BY <2>1, <2>2, <2>4 DEF Planning
  <2>6. CASE Late
    BY <2>1, <2>6 DEF Undisturbed, UndisturbedPublishes
  <2>7. CASE ~Late
    <3>1. \A i \in DOMAIN evidence : Whole(i) => Whole(i)'
      BY <2>1 DEF Whole, CellVerified
    <3>2. Clear => Clear'
      BY <2>1, <2>3, <2>5, <2>7, <3>1 DEF Clear
    <3> QED  BY <2>1, <2>7, <3>2 DEF Undisturbed, UndisturbedPublishes
  <2> QED  BY <2>6, <2>7
<1> QED  BY <1>1, <1>2, <1>3, <1>4, <1>5, <1>6

(* ReplayMiss: the planner is at a loss only if its session is of other
   evaluators. *)
LEMMA MissDisturbed ==
    ASSUME SearchTyped, TapeFollowed, ReplayMiss
    PROVE  disturbed'
<1>1. /\ step = "propose" /\ Len(trials) < QueryBudget
      /\ Proposals(Here.family, Here.policy) = {}
      /\ disturbed' = (disturbed \/ \E i \in DOMAIN tape[Here.family] :
                          LET t == tape[Here.family][i]
                          IN  t.feedback # Public(Here.family, verdict[Here.family][t.vector]))
  BY DEF ReplayMiss
<1>2. Here.policy = Tape
  BY <1>1, SomeProposal
<1>3. \E i \in DOMAIN tape[Here.family] :
         tape[Here.family][i].feedback
            # Public(Here.family, verdict[Here.family][tape[Here.family][i].vector])
  BY <1>1, <1>2, TapeReplays
<1> QED  BY <1>1, <1>3

LEMMA UndisturbedEvaluate ==
    ASSUME SearchTyped, Undisturbed, Evaluate
    PROVE  Undisturbed'
<1> DEFINE h == Here.family
           found == verdict[h][asked.vector]
           raises == found.reason = "evaluation_failure"
<1>1. /\ step = "evaluate" /\ report = "running" /\ step' = "record" /\ trials' = trials
      /\ UNCHANGED <<cell, evidence, report, audits>>
      /\ asked'.vector = asked.vector
      /\ traces' = IF raises THEN traces ELSE [traces EXCEPT ![h] = Append(@, asked.vector)]
      /\ disturbed' = (disturbed \/ raises)
  BY DEF Evaluate
<1>2. IsTrial(asked') /\ Tried(trials) /\ h \in Trialled
  BY <1>1, EvaluateTyped, HereTyped DEF SearchTyped
<1>3. CASE raises
  BY <1>1, <1>3 DEF Undisturbed, UndisturbedPublishes
<1>4. CASE ~raises
  <2>1. traces' = [traces EXCEPT ![h] = Append(@, asked.vector)] /\ (disturbed => disturbed')
    BY <1>4 DEF Evaluate
  <2> HIDE DEF raises
  <2>2. Answered = trials /\ Answered' = Append(trials, asked') /\ Here' = Here
    BY <1>1 DEF Answered, Here
  <2>3. VectorsOf(Answered)' = Append(VectorsOf(trials), asked.vector)
    <3>1. VectorsOf(Answered)' = VectorsOf(Answered')
      BY DEF VectorsOf
    <3>2. VectorsOf(Append(trials, asked')) = Append(VectorsOf(trials), asked'.vector)
      BY <1>2, VectorsMore
    <3> QED  BY <1>1, <2>2, <3>1, <3>2
  <2>4. Traced = [f \in Trialled |-> IF f = h THEN VectorsOf(trials) ELSE <<>>]
    BY <1>1, <2>2 DEF Traced
  <2>5. Traced' = [f \in Trialled |-> IF f = h THEN Append(VectorsOf(trials), asked.vector) ELSE <<>>]
    BY <1>1, <2>2, <2>3 DEF Traced
  <2>6. traces = Traced => traces' = Traced'
    <3> SUFFICES ASSUME traces = Traced
                 PROVE  traces' = Traced'
      OBVIOUS
    <3> HIDE DEF h
    <3>1. traces' = [f \in Trialled |-> IF f = h THEN Append(traces[h], asked.vector) ELSE traces[f]]
      BY <2>1, <2>4
    <3>2. traces[h] = VectorsOf(trials) /\ \A f \in Trialled : f # h => traces[f] = <<>>
      BY <1>2, <2>4
    <3> QED  BY <2>5, <3>1, <3>2
  <2>7. Planning' = Planning
    BY <1>1, <2>2 DEF Planning
  <2>8. \A i \in DOMAIN evidence : Whole(i) => Whole(i)'
    BY <1>1 DEF Whole, CellVerified
  <2>9. Clear => Clear'
    BY <1>1, <2>6, <2>7, <2>8 DEF Clear
  <2> QED  BY <1>1, <2>1, <2>9 DEF Undisturbed, UndisturbedPublishes
<1> QED  BY <1>3, <1>4

LEMMA UndisturbedFinish ==
    ASSUME SearchTyped, Undisturbed, FinishCell
    PROVE  Undisturbed'
<1> DEFINE h == Here.family
           r == [used |-> Len(trials),
                 approved |-> Cardinality(Approvals),
                 value |-> SumFunctionOnSet([i \in DOMAIN trials |-> trials[i].feedback.value], Approvals),
                 exhausted |-> Exhausted,
                 overrun |-> IF ElapsedMs > WallMs THEN ElapsedMs - WallMs ELSE 0,
                 traced |-> \A i \in DOMAIN trials :
                               traces[Here.family][i] = trials[i].vector,
                 attempts |-> audits]
<1>1. /\ report = "running" /\ disturbed' = (disturbed \/ Late)
      /\ \/ step = "propose" /\ Len(trials) = QueryBudget
         \/ step = "finish"
      /\ traces' = [traces EXCEPT ![h] = <<>>]
      /\ audits' = IF Here.policy = Tape THEN 0 ELSE audits
      /\ \/ Len(traces[h]) # Len(trials)
         \/ /\ Len(traces[h]) = Len(trials) /\ evidence' = Append(evidence, r) /\ cell' = cell + 1
            /\ step' = "start" /\ report' = report
  BY DEF FinishCell, Drained
<1> SUFFICES ASSUME ~disturbed'
             PROVE  Undisturbed'
  BY DEF Undisturbed, UndisturbedPublishes
<1>2. ~disturbed /\ Clear
  BY <1>1 DEF Undisturbed
<1>3. /\ step = "propose" /\ Len(trials) = QueryBudget /\ audits = Planning /\ traces = Traced
      /\ \A i \in DOMAIN evidence : Whole(i)
  BY <1>1, <1>2 DEF Clear
<1>4. Answered = trials /\ Tried(trials) /\ h \in Trialled
  BY <1>3, HereTyped DEF Answered, SearchTyped
<1>5. /\ traces = [f \in Trialled |-> IF f = h THEN VectorsOf(trials) ELSE <<>>]
      /\ audits = IF Here.policy = Tape THEN QueryBudget ELSE 0
  BY <1>3, <1>4, SearchConstants DEF Traced, Planning
<1>6. traces[h] = VectorsOf(trials) /\ Len(traces[h]) = Len(trials)
  <2>1. Len(VectorsOf(trials)) = Len(trials)
    BY <1>4, VectorsLong
  <2> HIDE DEF h
  <2> QED  BY <1>4, <1>5, <2>1
<1>7. /\ evidence' = Append(evidence, r) /\ cell' = cell + 1 /\ step' = "start" /\ report' = report
  BY <1>1, <1>6
<1>8. r.used = QueryBudget /\ r.traced /\ r.attempts = IF Here.policy = Tape THEN r.used ELSE 0
  <2>1. \A i \in DOMAIN trials : traces[h][i] = trials[i].vector
    BY <1>6 DEF VectorsOf
  <2> QED  BY <1>3, <1>5, <2>1
<1> HIDE DEF r
<1>9. \A i \in DOMAIN evidence' : Whole(i)'
  <2>1. /\ Len(evidence) \in Nat /\ DOMAIN evidence = 1..Len(evidence)
        /\ DOMAIN evidence' = 1..(Len(evidence) + 1)
        /\ evidence'[Len(evidence) + 1] = r /\ \A i \in 1..Len(evidence) : evidence'[i] = evidence[i]
        /\ cell = Len(evidence) + 1
    <3>1. IsSequence(evidence) /\ Len(evidence) = cell - 1 /\ cell \in Int
      BY CellsPlanned DEF SearchTyped
    <3> QED  BY <1>7, <3>1, Extended
  <2> SUFFICES ASSUME NEW i \in DOMAIN evidence'
               PROVE  Whole(i)'
    OBVIOUS
  <2>2. CASE i \in DOMAIN evidence
    <3>1. evidence'[i] = evidence[i] /\ Whole(i)
      BY <1>3, <2>1, <2>2
    <3> QED  BY <3>1 DEF Whole, CellVerified
  <2>3. CASE i = Len(evidence) + 1
    <3>1. evidence'[i] = r /\ Cells[i] = Here
      BY <2>1, <2>3 DEF Here
    <3> QED  BY <1>8, <3>1 DEF Whole, CellVerified
  <2> QED  BY <2>1, <2>2, <2>3
<1>10. traces' = [f \in Trialled |-> <<>>]
  <2> HIDE DEF h
  <2> QED  BY <1>1, <1>5
<1>11. audits' = 0
  BY <1>1, <1>5
<1>12. Traced' = [f \in Trialled |-> <<>>] /\ Planning' = 0
  BY <1>7 DEF Traced, Planning
<1> QED  BY <1>1, <1>2, <1>7, <1>9, <1>10, <1>11, <1>12 DEF Undisturbed, UndisturbedPublishes, Clear

LEMMA UndisturbedPublish ==
    ASSUME SearchTyped, Undisturbed, PublishClaim
    PROVE  Undisturbed'
<1> DEFINE used == [i \in DOMAIN evidence |-> evidence[i].used]
<1>1. /\ report = "running" /\ step = "start" /\ cell > Len(Cells) /\ disturbed' = disturbed
      /\ /\ audits = 0
         /\ \A i \in DOMAIN evidence : CellVerified(i)
         /\ SumFunction(used) = Len(Cells) * QueryBudget
         => report' # "aborted" /\ report' # "running"
      /\ report' # "running"
  BY Zenon DEF PublishClaim, ghostVars
<1> SUFFICES ASSUME ~disturbed
             PROVE  report' # "aborted" /\ report' # "running"
  BY <1>1 DEF Undisturbed, UndisturbedPublishes
<1>2. Clear
  BY <1>1 DEF Undisturbed
<1>3. audits = 0 /\ \A i \in DOMAIN evidence : CellVerified(i) /\ evidence[i].used = QueryBudget
  BY <1>1, <1>2 DEF Clear, Planning, Whole
<1>4. DOMAIN evidence = 1..Len(Cells) /\ Len(Cells) \in Nat
  <2>1. Len(Cells) \in Nat
    BY CellsPlanned
  <2>2. /\ cell \in 1..(Len(Cells) + 1) /\ Len(evidence) = cell - 1
        /\ DOMAIN evidence = 1..Len(evidence)
    BY DEF SearchTyped, IsSequence
  <2> QED  BY <1>1, <2>1, <2>2
<1>5. SumFunction(used) = Len(Cells) * QueryBudget
  <2>1. IsFiniteSet(1..Len(Cells)) /\ Cardinality(1..Len(Cells)) = Len(Cells)
    <3>1. \A n \in Nat : IsFiniteSet(1..n) /\ Cardinality(1..n) = n
      BY FS_Interval
    <3> QED  BY <1>4, <3>1
  <2>2. DOMAIN used = 1..Len(Cells) /\ \A i \in 1..Len(Cells) : used[i] = QueryBudget
    BY <1>3, <1>4
  <2>3. QueryBudget \in Int
    BY SearchConstants
  <2> HIDE DEF used
  <2>4. SumFunctionOnSet(used, 1..Len(Cells)) = Cardinality(1..Len(Cells)) * QueryBudget
    BY <2>1, <2>2, <2>3, SumOfEqual
  <2>5. SumFunction(used) = SumFunctionOnSet(used, 1..Len(Cells))
    BY <2>2 DEF SumFunction, SumFunctionOnSet
  <2> QED  BY <2>1, <2>4, <2>5
<1> HIDE DEF used
<1> QED  BY <1>1, <1>3, <1>5

LEMMA SearchKeepsUndisturbed ==
    ASSUME SearchTyped, TapeFollowed, Undisturbed, [SearchNext]_searchVars
    PROVE  Undisturbed'
<1>1. CASE ReplayMiss
  <2>1. disturbed'
    BY <1>1, MissDisturbed
  <2> QED  BY <2>1 DEF Undisturbed, UndisturbedPublishes
<1> QED  BY <1>1, UndisturbedSteps, UndisturbedEvaluate, UndisturbedFinish, UndisturbedPublish
         DEF SearchNext
-----------------------------------------------------------------------------
(***************************************************************************)
(* The invariant of the experiment, and what follows from it.               *)
(***************************************************************************)

SearchInv ==
    SearchTyped /\ OnTime /\ EarnedKept /\ ClaimMade /\ TapeFollowed /\ Undisturbed

LEMMA SearchInvStarts == SearchInit => SearchInv
<1> SUFFICES ASSUME SearchInit PROVE SearchInv
  OBVIOUS
<1>1. ClaimMade /\ TapeFollowed
  BY DEF SearchInit, ClaimMade, TapeFollowed
<1> QED  BY <1>1, SearchStartTyped, OnTimeStarts, EarnedStarts, UndisturbedStarts DEF SearchInv

LEMMA SearchInvKept == SearchInv /\ [SearchNext]_searchVars => SearchInv'
<1> SUFFICES ASSUME SearchInv, [SearchNext]_searchVars PROVE SearchInv'
  OBVIOUS
<1> QED  BY SearchKeepsTyped, SearchKeepsTime, SearchKeepsEarned, SearchKeepsClaim,
            SearchKeepsTape, SearchKeepsUndisturbed DEF SearchInv

(* run_task6_holdout, build_result_bundle_document, capability_delta_report: a
   criterion that is published as met is met by the evaluators' own answers, all
   in time, the same number to both policies on every family; the control shows
   no difference; and the process that ran the targets reports the same. *)
THEOREM ClaimAlwaysHonest == SearchSpec => []ClaimHonest
<1>1. SearchInv => ClaimHonest
  BY ClaimIsHonest DEF SearchInv, OnTime
<1> QED  BY <1>1, SearchInvStarts, SearchInvKept, PTL DEF SearchSpec

(* search, CachedPlanner, build_cell: a run that publishes nothing was disturbed
   by a deadline, an evaluator that raised, or a session of other evaluators.  No
   draw of a policy can lose it. *)
THEOREM UndisturbedAlwaysPublishes == SearchSpec => []UndisturbedPublishes
<1>1. SearchInv => UndisturbedPublishes
  BY DEF SearchInv, Undisturbed
<1> QED  BY <1>1, SearchInvStarts, SearchInvKept, PTL DEF SearchSpec
=============================================================================

---------------------------- MODULE AttemptProofs ----------------------------
(***************************************************************************)
(* LockedAttempt executes at most once, for any number of processes, calls, *)
(* chunks, faults and power losses: it implements OneAttempt, and what is   *)
(* visible of the evidence has its receipt and is complete.  With one       *)
(* operator, the receipt of the ConfirmatoryAttempt stands.  What a staged  *)
(* run publishes is accepted by the independent verifier.                   *)
(*                                                                          *)
(* Why: a call executes only when its receipt is visible and on disk, what  *)
(* is visible under a name is never replaced by something else, and what is *)
(* on disk under a name is what is visible or nothing.                      *)
(***************************************************************************)
EXTENDS LockedAttempt, ConfirmatoryAttempt, StagedChain, Foundations, FiniteSetTheorems,
        SequenceTheorems, TLAPS

Waiting == {"receipt", "linkReceipt"}
Holding == {"unlinkReceipt", "syncReceipt"}
Publishing == {"publish", "chunks", "manifest", "linkManifest", "unlinkManifest",
               "syncManifest", "verify", "summary", "writeSummary", "syncSummary"}
Labels == {"idle", "execute"} \cup Waiting \cup Holding \cup Publishing

Typed ==
    /\ pc \in [Processes -> Labels]
    /\ attempt \in [Processes -> 0..started]
    /\ started \in 0..MaxAttempts
    /\ at \in [Names -> 0..started]
    /\ atDisk \in [Names -> 0..started]
    /\ executed \subseteq 0..started

(* Two calls that are running are two calls. *)
OwnCalls ==
    /\ \A p \in Processes : pc[p] # "idle" => attempt[p] \in Attempts
    /\ \A p, q \in Processes :
          p # q /\ pc[p] # "idle" /\ pc[q] # "idle" => attempt[p] # attempt[q]

Receipts ==
    /\ \A p \in Processes :
          pc[p] \in Holding \cup {"execute"} \cup Publishing => at["receipt"] = attempt[p]
    /\ \A p \in Processes :
          pc[p] \in {"execute"} \cup Publishing => atDisk["receipt"] = attempt[p]

DiskFollows == \A name \in Names : atDisk[name] \in {0, at[name]}

ExecutedCalls ==
    /\ \A a \in executed : a # 0 /\ at["receipt"] = a /\ atDisk["receipt"] = a
    /\ \A p \in Processes :
          pc[p] \in Waiting \cup Holding \cup {"execute"} => attempt[p] \notin executed
    /\ \A p \in Processes : pc[p] \in Publishing => attempt[p] \in executed

IInv ==
    /\ Typed /\ OwnCalls /\ Receipts /\ DiskFollows /\ ExecutedCalls
    /\ EvidenceHasReceipt

USE DEF Names, Attempts

(* At the start nothing is there. *)
LEMMA InitInv == Init => IInv
  BY AttemptConstants
     DEF Init, IInv, Typed, OwnCalls, Receipts, DiskFollows, ExecutedCalls, EvidenceHasReceipt,
         Waiting, Holding, Publishing, Labels

(* A step that changes neither the names nor the executions, and moves one
   process to a label that its receipt allows. *)
LEMMA MoveInv ==
  ASSUME IInv, NEW p \in Processes, NEW label \in Labels,
         pc[p] # "idle",
         pc' = [pc EXCEPT ![p] = label],
         UNCHANGED <<attempt, started, at, atDisk, executed>>,
         \/ label = "idle"
         \/ pc[p] \in Waiting /\ label \in Waiting
         \/ pc[p] \in Holding /\ label \in Holding
         \/ pc[p] \in Publishing /\ label \in Publishing
  PROVE  IInv'
  BY DEF IInv, Typed, OwnCalls, Receipts, DiskFollows, ExecutedCalls, EvidenceHasReceipt,
         Waiting, Holding, Publishing, Labels

(* A call enters with a number nobody has, when no name is there. *)
LEMMA StartInv ==
  ASSUME IInv, NEW p \in Processes, Start(p)
  PROVE  IInv'
<1>1. /\ started' = started + 1 /\ started' \in 0..MaxAttempts
      /\ attempt' = [attempt EXCEPT ![p] = started + 1]
      /\ pc' = [pc EXCEPT ![p] = "receipt"]
      /\ UNCHANGED <<at, atDisk, executed>>
  BY AttemptConstants DEF Start, Goto, dirVars, IInv, Typed
<1>2. \A name \in Names : at[name] = 0 /\ atDisk[name] = 0
  BY DEF Start, Absent, IInv, DiskFollows
<1>3. executed = {}
  BY <1>2 DEF IInv, ExecutedCalls
<1>4. Typed'
  BY <1>1 DEF IInv, Typed, Waiting, Labels
<1>5. OwnCalls'
  BY <1>1 DEF IInv, Typed, OwnCalls
<1>6. Receipts' /\ DiskFollows' /\ ExecutedCalls' /\ EvidenceHasReceipt'
  BY <1>1, <1>2, <1>3
     DEF IInv, Typed, Receipts, DiskFollows, ExecutedCalls, EvidenceHasReceipt,
         Waiting, Holding, Publishing
<1>7. QED
  BY <1>4, <1>5, <1>6 DEF IInv

(* The receipt is linked when there is none. *)
LEMMA LinkReceiptInv ==
  ASSUME IInv, NEW p \in Processes, Link(p, "receipt", "linkReceipt", "unlinkReceipt")
  PROVE  IInv'
  BY AttemptConstants
     DEF Link, Goto, Absent, IInv, Typed, OwnCalls, Receipts, DiskFollows,
         ExecutedCalls, EvidenceHasReceipt, Waiting, Holding, Publishing, Labels

(* The manifest is linked by a call that has executed. *)
LEMMA LinkManifestInv ==
  ASSUME IInv, NEW p \in Processes, Link(p, "manifest", "linkManifest", "unlinkManifest")
  PROVE  IInv'
  BY AttemptConstants
     DEF Link, Goto, Absent, IInv, Typed, OwnCalls, Receipts, DiskFollows,
         ExecutedCalls, EvidenceHasReceipt, Waiting, Holding, Publishing, Labels

(* Syncing the directory puts on disk what is visible. *)
LEMMA SyncInv ==
  ASSUME IInv, NEW p \in Processes,
         NEW label \in Labels, NEW next \in Labels, Sync(p, label, next),
         \/ label = "syncReceipt" /\ next = "execute"
         \/ label \in Publishing /\ next \in Publishing \cup {"idle"}
  PROVE  IInv'
<1>1. /\ pc[p] = label /\ pc' = [pc EXCEPT ![p] = next]
      /\ atDisk' = at /\ UNCHANGED <<attempt, started, at, executed>>
  BY DEF Sync, Goto
<1>2. Typed' /\ DiskFollows' /\ EvidenceHasReceipt'
  BY <1>1 DEF IInv, Typed, DiskFollows, EvidenceHasReceipt
<1>3. OwnCalls'
  BY <1>1 DEF IInv, Typed, OwnCalls, Holding, Publishing
<1>4. Receipts' /\ ExecutedCalls'
  BY <1>1 DEF IInv, Typed, Receipts, ExecutedCalls, Waiting, Holding, Publishing
<1>5. QED
  BY <1>2, <1>3, <1>4 DEF IInv

(* The call that executes is the one whose receipt is on disk, so that it is
   the first. *)
LEMMA ExecuteInv ==
  ASSUME IInv, NEW p \in Processes, Execute(p)
  PROVE  IInv'
<1>1. /\ pc[p] = "execute" /\ pc' = [pc EXCEPT ![p] = "publish"]
      /\ executed' = executed \cup {attempt[p]}
      /\ UNCHANGED <<attempt, started, at, atDisk>>
  BY DEF Execute, Goto, dirVars
<1>2. /\ attempt[p] \in Attempts /\ attempt[p] \in 0..started
      /\ at["receipt"] = attempt[p] /\ atDisk["receipt"] = attempt[p]
  BY <1>1 DEF IInv, Typed, OwnCalls, Receipts
<1>3. Typed' /\ OwnCalls'
  BY <1>1, <1>2 DEF IInv, Typed, OwnCalls, Publishing, Labels
<1>4. Receipts' /\ DiskFollows' /\ EvidenceHasReceipt'
  BY <1>1, <1>2
     DEF IInv, Typed, Receipts, DiskFollows, EvidenceHasReceipt, Holding, Publishing
<1>5. ExecutedCalls'
  BY <1>1, <1>2
     DEF IInv, Typed, OwnCalls, ExecutedCalls, Waiting, Holding, Publishing
<1>6. QED
  BY <1>3, <1>4, <1>5 DEF IInv

(* The chunk directory and the summary are made by a call that has executed. *)
LEMMA BeginChunksInv ==
  ASSUME IInv, NEW p \in Processes, BeginChunks(p)
  PROVE  IInv'
  BY AttemptConstants
     DEF BeginChunks, Goto, Absent, IInv, Typed, OwnCalls, Receipts, DiskFollows,
         ExecutedCalls, EvidenceHasReceipt, Waiting, Holding, Publishing, Labels

LEMMA CreateSummaryInv ==
  ASSUME IInv, NEW p \in Processes, CreateSummary(p)
  PROVE  IInv'
  BY AttemptConstants
     DEF CreateSummary, Goto, Absent, IInv, Typed, OwnCalls, Receipts, DiskFollows,
         ExecutedCalls, EvidenceHasReceipt, Waiting, Holding, Publishing, Labels

(* After a power loss every name is as it was or as it was synced; what has
   been executed has its receipt in both. *)
LEMMA PowerLossInv ==
  ASSUME IInv, PowerLoss
  PROVE  IInv'
<1>1. at' \in [Names -> 0..MaxAttempts] /\ atDisk' = at'
  BY DEF PowerLoss
<1>2. \A name \in Names : at'[name] \in {at[name], atDisk[name]}
  BY DEF PowerLoss
<1>3. UNCHANGED <<attempt, started, executed>> /\ pc' = [p \in Processes |-> "idle"]
  BY DEF PowerLoss
<1>4. Typed' /\ OwnCalls' /\ Receipts' /\ DiskFollows'
  BY <1>1, <1>2, <1>3
     DEF IInv, Typed, OwnCalls, Receipts, DiskFollows, Waiting, Holding, Publishing, Labels
<1>5. ExecutedCalls' /\ EvidenceHasReceipt'
  BY <1>1, <1>2, <1>3
     DEF IInv, Typed, DiskFollows, ExecutedCalls, EvidenceHasReceipt, Waiting, Holding, Publishing
<1>6. QED
  BY <1>4, <1>5 DEF IInv

(* Every step keeps the invariant; so does a step that changes nothing. *)
LEMMA StepInv ==
  ASSUME IInv, NEW p \in Processes, Step(p)
  PROVE  IInv'
<1> USE DEF IInv, Typed, Waiting, Holding, Publishing, Labels
<1>1. CASE WriteTemp(p, "receipt", "linkReceipt")
  BY <1>1, MoveInv, "linkReceipt" \in Labels, "idle" \in Labels DEF WriteTemp, Goto
<1>2. CASE Link(p, "receipt", "linkReceipt", "unlinkReceipt")
  BY <1>2, LinkReceiptInv
<1>3. CASE UnlinkTemp(p, "receipt", "unlinkReceipt", "syncReceipt")
  BY <1>3, MoveInv, "syncReceipt" \in Labels DEF UnlinkTemp, Goto
<1>4. CASE Sync(p, "syncReceipt", "execute")
  BY <1>4, SyncInv
<1>5. CASE Execute(p)
  BY <1>5, ExecuteInv
<1>6. CASE BeginChunks(p)
  BY <1>6, BeginChunksInv
<1>7. CASE WriteChunk(p)
  <2>1. CASE pc' = [pc EXCEPT ![p] = "manifest"]
    BY <1>7, <2>1, MoveInv, "manifest" \in Labels DEF WriteChunk, dirVars
  <2>2. CASE UNCHANGED pc
    <3>1. pc' = [pc EXCEPT ![p] = "chunks"]
      BY <1>7, <2>2 DEF WriteChunk
    <3>2. QED
      BY <1>7, <3>1, MoveInv, "chunks" \in Labels DEF WriteChunk, dirVars
  <2>3. QED
    BY <1>7, <2>1, <2>2 DEF WriteChunk, Goto
<1>8. CASE WriteTemp(p, "manifest", "linkManifest")
  BY <1>8, MoveInv, "linkManifest" \in Labels DEF WriteTemp, Goto
<1>9. CASE Link(p, "manifest", "linkManifest", "unlinkManifest")
  BY <1>9, LinkManifestInv
<1>10. CASE UnlinkTemp(p, "manifest", "unlinkManifest", "syncManifest")
  BY <1>10, MoveInv, "syncManifest" \in Labels DEF UnlinkTemp, Goto
<1>11. CASE Sync(p, "syncManifest", "verify")
  BY <1>11, SyncInv
<1>12. CASE VerifyPublished(p)
  <2>1. PICK label \in {"summary", "idle"} : pc' = [pc EXCEPT ![p] = label]
    BY <1>12 DEF VerifyPublished, Goto
  <2>2. QED
    BY <1>12, <2>1, MoveInv DEF VerifyPublished, dirVars
<1>13. CASE CreateSummary(p)
  BY <1>13, CreateSummaryInv
<1>14. CASE WriteSummary(p)
  BY <1>14, MoveInv, "syncSummary" \in Labels DEF WriteSummary, Goto, dirVars
<1>15. CASE Sync(p, "syncSummary", "idle")
  BY <1>15, SyncInv
<1>16. QED
  BY <1>1, <1>2, <1>3, <1>4, <1>5, <1>6, <1>7, <1>8, <1>9, <1>10, <1>11, <1>12, <1>13,
     <1>14, <1>15 DEF Step

LEMMA NextInv ==
  ASSUME IInv, [Next]_vars
  PROVE  IInv'
<1>1. CASE UNCHANGED vars
  BY <1>1 DEF vars, callVars, dirVars, IInv, Typed, OwnCalls, Receipts, DiskFollows,
              ExecutedCalls, EvidenceHasReceipt
<1>2. ASSUME NEW p \in Processes, Raise(p) \/ Kill(p)
      PROVE  IInv'
  BY <1>2, MoveInv, "idle" \in Labels DEF Raise, Kill, Goto, dirVars, Labels
<1>3. QED
  BY <1>1, <1>2, StartInv, StepInv, PowerLossInv DEF Next

(* The invariant holds in every state, and with it the visible evidence of the
   locked run belongs to the executed call whose receipt is there, also after
   power losses. *)
THEOREM EvidenceAlwaysCovered == Spec => []EvidenceHasReceipt
<1>1. Spec => []IInv
  BY InitInv, NextInv, PTL DEF Spec
<1>2. IInv => EvidenceHasReceipt
  BY DEF IInv
<1>3. QED
  BY <1>1, <1>2, PTL

-----------------------------------------------------------------------------
(* A step that leaves the receipt's name and the executions alone is none of
   the abstract attempt's. *)
LEMMA StepRefines ==
  ASSUME IInv, NEW p \in Processes, Step(p)
  PROVE  [Once!AttemptNext]_(Once!attemptVars)
<1> USE DEF Once!attemptVars
<1>1. CASE Link(p, "receipt", "linkReceipt", "unlinkReceipt")
  <2>1. CASE Absent("receipt")
    <3>1. at'["receipt"] = attempt[p] /\ executed' = executed /\ attempt[p] \in Attempts
      BY <1>1, <2>1 DEF Link, IInv, Typed, OwnCalls
    <3>2. Once!Consume(attempt[p])
      BY <2>1, <3>1 DEF Once!Consume, Absent
    <3>3. QED
      BY <3>1, <3>2 DEF Once!AttemptNext
  <2>2. CASE ~Absent("receipt")
    BY <1>1, <2>2 DEF Link
  <2>3. QED
    BY <2>1, <2>2
<1>2. CASE Execute(p)
  <2>1. attempt[p] \in Attempts /\ at["receipt"] = attempt[p] /\ attempt[p] \notin executed
    BY <1>2 DEF Execute, IInv, OwnCalls, Receipts, ExecutedCalls
  <2>2. executed = {}
    BY <2>1 DEF IInv, ExecutedCalls
  <2>3. Once!Execute(attempt[p])
    BY <1>2, <2>1, <2>2 DEF Execute, dirVars, Once!Execute
  <2>4. QED
    BY <2>1, <2>3 DEF Once!AttemptNext
<1>3. CASE Link(p, "manifest", "linkManifest", "unlinkManifest") \/ BeginChunks(p)
           \/ CreateSummary(p)
  BY <1>3 DEF Link, BeginChunks, CreateSummary, IInv, Typed
<1>4. QED
  BY <1>1, <1>2, <1>3
     DEF Step, WriteTemp, UnlinkTemp, Sync, WriteChunk, VerifyPublished, WriteSummary, dirVars

LEMMA PowerLossRefines ==
  ASSUME IInv, PowerLoss
  PROVE  [Once!AttemptNext]_(Once!attemptVars)
<1>1. executed' = executed /\ at'["receipt"] \in {at["receipt"], atDisk["receipt"]}
  BY DEF PowerLoss
<1>2. CASE at'["receipt"] = at["receipt"]
  BY <1>1, <1>2 DEF Once!attemptVars
<1>3. CASE at'["receipt"] # at["receipt"]
  <2>1. at'["receipt"] = 0 /\ executed = {}
    BY <1>1, <1>3 DEF IInv, DiskFollows, ExecutedCalls
  <2>2. QED
    BY <1>1, <2>1 DEF Once!AttemptNext, Once!Forget
<1>4. QED
  BY <1>2, <1>3

(* "Execute one authorized run": the locked run is a one-time run, whatever
   is started, raised, killed or lost. *)
THEOREM LockedRunExecutesOnce == Spec => ExecutedOnce
<1>1. Init => Once!AttemptInit
  BY DEF Init, Once!AttemptInit
<1>2. IInv /\ [Next]_vars => [Once!AttemptNext]_(Once!attemptVars)
  <2>1. SUFFICES ASSUME IInv, [Next]_vars
                 PROVE  [Once!AttemptNext]_(Once!attemptVars)
    OBVIOUS
  <2>2. ASSUME NEW p \in Processes, Start(p) \/ Raise(p) \/ Kill(p)
        PROVE  UNCHANGED (Once!attemptVars)
    BY <2>2 DEF Start, Raise, Kill, dirVars, Once!attemptVars
  <2>3. CASE UNCHANGED vars
    BY <2>3 DEF vars, dirVars, Once!attemptVars
  <2>4. QED
    BY <2>1, <2>2, <2>3, StepRefines, PowerLossRefines DEF Next
<1>3. Spec => []IInv
  BY InitInv, NextInv, PTL DEF Spec
<1>4. QED
  BY <1>1, <1>2, <1>3, PTL DEF Spec, ExecutedOnce, Once!AttemptSpec

-----------------------------------------------------------------------------
(* The evidence is complete, as long as the power does not fail.  Why: chunks
   are written in order, by the call that made their directory and before it
   links the manifest, and a file is not touched by any other call. *)
Unwritten == Waiting \cup Holding \cup {"execute", "publish"}
Unlinked == {"chunks", "manifest", "linkManifest"}
Chunked == {"manifest", "linkManifest", "unlinkManifest", "syncManifest", "verify", "summary",
            "writeSummary", "syncSummary"}

Whole(a) == at["chunks"] = a /\ parts[a] = 1..Chunks

FileTypes ==
    /\ temps \in [Linked -> SUBSET Attempts]
    /\ parts = [a \in Attempts |-> parts[a]]
    /\ written \subseteq Attempts
    /\ losses \in Nat

(* The files of a call, and what a call at a label relies on. *)
FilesInOrder(a) ==
    /\ \E n \in 0..Chunks : parts[a] = 1..n
    /\ at["manifest"] = a => Whole(a)
    /\ a \in written => Readable(a)
    /\ a > started => parts[a] = {}

CallInOrder(label, a) ==
    /\ label \in Unwritten => parts[a] = {}
    /\ label = "chunks" => at["chunks"] = a /\ parts[a] # 1..Chunks
    /\ label \in Unlinked => at["manifest"] # a
    /\ label \in Chunked => Whole(a)
    /\ label \in {"summary", "writeSummary"} => Readable(a)

Completeness ==
    /\ \A a \in Attempts : FilesInOrder(a)
    /\ \A p \in Processes : CallInOrder(pc[p], attempt[p])

CompleteInv == IInv /\ FileTypes /\ (losses = 0 => Completeness)

(* A step of p touches no files but its call's. *)
Touches(p) ==
    /\ \A name \in Names : at'[name] = at[name] \/ (at[name] = 0 /\ at'[name] = attempt[p])
    /\ \A a \in Attempts : a # attempt[p] => parts'[a] = parts[a]
    /\ \A name \in Linked : \A a \in temps'[name] : a = attempt[p] \/ a \in temps[name]
    /\ \A a \in written' : a = attempt[p] \/ a \in written
    /\ UNCHANGED <<attempt, started>>

LEMMA OtherFiles ==
  ASSUME IInv, NEW p \in Processes, Touches(p), NEW b \in Attempts, b # attempt[p]
  PROVE  /\ Whole(b) => Whole(b)'
         /\ Readable(b) => Readable(b)'
         /\ FilesInOrder(b) => FilesInOrder(b)'
         /\ \A label : CallInOrder(label, b) => CallInOrder(label, b)'
<1>1. parts'[b] = parts[b] /\ started' = started
  BY DEF Touches
<1>2. \A name \in Names : at[name] = b => at'[name] = b
  BY DEF Touches
<1>3. \A name \in Names : at'[name] = b => at[name] = b
  BY DEF Touches
<1>4. Whole(b) => Whole(b)'
  BY <1>1, <1>2 DEF Whole
<1>5. \A name \in Linked : b \in temps'[name] => b \in temps[name]
  BY DEF Touches
<1>6. Readable(b) => Readable(b)'
  BY <1>1, <1>2, <1>5 DEF Readable, SingleLink, Linked
<1>7. b \in written' => b \in written
  BY DEF Touches
<1>8. FilesInOrder(b) => FilesInOrder(b)'
  BY <1>1, <1>3, <1>4, <1>6, <1>7 DEF FilesInOrder
<1>9. ASSUME NEW label, CallInOrder(label, b) PROVE CallInOrder(label, b)'
  BY <1>1, <1>2, <1>3, <1>4, <1>6, <1>9 DEF CallInOrder
<1> QED
  BY <1>4, <1>6, <1>8, <1>9

LEMMA IdleInOrder == \A a : CallInOrder("idle", a)
BY DEF CallInOrder, Unwritten, Unlinked, Chunked, Waiting, Holding

(* What is left to show of a step of p: that its own files are in order. *)
LEMMA OwnInOrder ==
  ASSUME IInv, Completeness, NEW p \in Processes, pc[p] # "idle", Touches(p),
         NEW label, pc' = [pc EXCEPT ![p] = label],
         NEW a \in Attempts, a = attempt[p], FilesInOrder(a)', CallInOrder(label, a)'
  PROVE  Completeness'
<1>1. ASSUME NEW b \in Attempts PROVE FilesInOrder(b)'
  <2>1. CASE b = a
    BY <2>1
  <2>2. CASE b # a
    <3>1. FilesInOrder(b)
      BY DEF Completeness
    <3> QED
      BY <2>2, <3>1, OtherFiles
  <2> QED
    BY <2>1, <2>2
<1>2. ASSUME NEW q \in Processes PROVE CallInOrder(pc[q], attempt[q])'
  <2>1. PICK b, l : b = attempt'[q] /\ l = pc'[q]
    OBVIOUS
  <2>2. b = attempt[q]
    BY <2>1 DEF Touches
  <2>3. CallInOrder(l, b)'
    <3>1. CASE q = p
      <4>1. b = a /\ l = label
        BY <2>1, <2>2, <3>1 DEF IInv, Typed
      <4> QED
        BY <4>1
    <3>2. CASE q # p /\ l = "idle"
      BY <3>2, IdleInOrder DEF CallInOrder, Unwritten, Unlinked, Chunked, Waiting, Holding
    <3>3. CASE q # p /\ l # "idle"
      <4>1. l = pc[q]
        BY <2>1, <3>3 DEF IInv, Typed
      <4>2. b \in Attempts /\ b # attempt[p]
        BY <2>2, <3>3, <4>1 DEF IInv, OwnCalls
      <4>3. CallInOrder(l, b)
        BY <2>2, <4>1 DEF Completeness
      <4> QED
        BY <4>2, <4>3, OtherFiles
    <3> QED
      BY <3>1, <3>2, <3>3
  <2> QED
    BY <2>1, <2>3 DEF CallInOrder, Whole, Readable, SingleLink
<1> QED
  BY <1>1, <1>2 DEF Completeness

LEMMA StartInOrder ==
  ASSUME IInv, FileTypes, Completeness, NEW p \in Processes, Start(p)
  PROVE  Completeness'
<1>1. /\ started' = started + 1 /\ started' \in Attempts
      /\ attempt' = [attempt EXCEPT ![p] = started + 1]
      /\ pc' = [pc EXCEPT ![p] = "receipt"]
      /\ UNCHANGED <<at, temps, parts, written>>
  BY AttemptConstants DEF Start, Goto, dirVars, IInv, Typed
<1>2. \A name \in Names : at[name] = 0
  BY DEF Start, Absent
<1>3. ASSUME NEW b \in Attempts PROVE FilesInOrder(b)'
  <2>1. FilesInOrder(b)
    BY DEF Completeness
  <2>2. started \in Nat /\ started' = started + 1 /\ b \in Nat
    BY <1>1, AttemptConstants DEF IInv, Typed
  <2>3. b > started' => b > started
    BY <2>2
  <2> QED
    BY <1>1, <2>1, <2>3 DEF FilesInOrder, Whole, Readable, SingleLink
<1>4. ASSUME NEW q \in Processes PROVE CallInOrder(pc[q], attempt[q])'
  <2>1. CASE q = p
    <3>1. pc'[q] = "receipt" /\ attempt'[q] = started + 1
      BY <1>1, <2>1 DEF IInv, Typed
    <3>2. PICK b \in Attempts : b = started + 1
      BY <1>1
    <3>3. b > started
      BY <3>2, AttemptConstants DEF IInv, Typed
    <3>4. parts[started + 1] = {}
      BY <3>2, <3>3 DEF Completeness, FilesInOrder
    <3> QED
      BY <1>1, <3>1, <3>4 DEF CallInOrder, Unwritten, Unlinked, Chunked, Waiting
  <2>2. CASE q # p
    <3>1. pc'[q] = pc[q] /\ attempt'[q] = attempt[q]
      BY <1>1, <2>2 DEF IInv, Typed
    <3> QED
      BY <1>1, <3>1 DEF Completeness, CallInOrder, Whole, Readable, SingleLink
  <2> QED
    BY <2>1, <2>2
<1> QED
  BY <1>3, <1>4 DEF Completeness

(* A step of p that changes no name and no chunk, and at most removes the
   temporary files of its call. *)
LEMMA MoveInOrder ==
  ASSUME IInv, FileTypes, Completeness, NEW p \in Processes, pc[p] # "idle",
         NEW label, pc' = [pc EXCEPT ![p] = label],
         UNCHANGED <<attempt, started, at, parts, written>>,
         \A name \in Linked : temps'[name] \subseteq temps[name],
         NEW a \in Attempts, a = attempt[p], CallInOrder(label, a)
  PROVE  Completeness'
<1>1. Touches(p)
  BY DEF Touches
<1>2. Readable(a) => Readable(a)'
  BY DEF Readable, SingleLink, Linked
<1>3. FilesInOrder(a)
  BY DEF Completeness
<1>4. FilesInOrder(a)'
  BY <1>2, <1>3 DEF FilesInOrder, Whole
<1>5. CallInOrder(label, a)'
  BY <1>2 DEF CallInOrder, Whole
<1> QED
  BY <1>1, <1>4, <1>5, OwnInOrder

(* A call that is running has a number, and what it relies on. *)
LEMMA Running ==
  ASSUME IInv, Completeness, NEW p \in Processes, pc[p] # "idle"
  PROVE  attempt[p] \in Attempts /\ FilesInOrder(attempt[p]) /\ CallInOrder(pc[p], attempt[p])
BY DEF IInv, OwnCalls, Completeness

(* A call writes a temporary file before it links it: nobody reads yet. *)
LEMMA WriteTempInOrder ==
  ASSUME IInv, FileTypes, Completeness, NEW p \in Processes,
         \/ WriteTemp(p, "receipt", "linkReceipt")
         \/ WriteTemp(p, "manifest", "linkManifest")
  PROVE  Completeness'
<1>1. PICK a : a = attempt[p]
  OBVIOUS
<1>2. pc[p] \in {"receipt", "manifest"}
  BY DEF WriteTemp
<1>3. a \in Attempts /\ FilesInOrder(a) /\ CallInOrder(pc[p], a)
  BY <1>1, <1>2, Running
<1>4. ~Readable(a)
  <2>1. CASE pc[p] = "receipt"
    <3>1. a \notin executed
      BY <1>1, <2>1 DEF IInv, ExecutedCalls, Waiting
    <3> QED
      BY <1>3, <3>1 DEF Readable, IInv, EvidenceHasReceipt
  <2>2. CASE pc[p] = "manifest"
    BY <1>3, <2>2 DEF CallInOrder, Unlinked, Readable
  <2> QED
    BY <1>2, <2>1, <2>2
<1>5. a \notin written
  BY <1>3, <1>4 DEF FilesInOrder
<1>6. UNCHANGED <<attempt, started, at, parts, written>>
  BY DEF WriteTemp
<1>7. Touches(p)
  BY <1>6 DEF WriteTemp, Touches, FileTypes, Linked
<1>8. FilesInOrder(a)'
  BY <1>3, <1>5, <1>6 DEF FilesInOrder, Whole
<1>9. PICK label : /\ pc' = [pc EXCEPT ![p] = label]
                   /\ \/ label = "idle"
                      \/ pc[p] = "receipt" /\ label = "linkReceipt"
                      \/ pc[p] = "manifest" /\ label = "linkManifest"
  BY DEF WriteTemp, Goto
<1>10. CallInOrder(label, a)'
  BY <1>3, <1>6, <1>9 DEF CallInOrder, Whole, Unwritten, Unlinked, Chunked, Waiting, Holding
<1> QED
  BY <1>1, <1>2, <1>3, <1>7, <1>8, <1>9, <1>10, OwnInOrder

(* A name is taken when it is free: nothing is complete without it. *)
LEMMA LinkReceiptInOrder ==
  ASSUME IInv, FileTypes, Completeness, NEW p \in Processes,
         Link(p, "receipt", "linkReceipt", "unlinkReceipt")
  PROVE  Completeness'
<1>1. PICK a : a = attempt[p]
  OBVIOUS
<1>2. pc[p] = "linkReceipt"
  BY DEF Link
<1>3. a \in Attempts /\ FilesInOrder(a) /\ CallInOrder(pc[p], a)
  BY <1>1, <1>2, Running
<1>4. CASE Absent("receipt")
  <2>1. /\ at' = [at EXCEPT !["receipt"] = a] /\ pc' = [pc EXCEPT ![p] = "unlinkReceipt"]
        /\ UNCHANGED <<attempt, started, temps, parts, written>>
    BY <1>1, <1>4 DEF Link, Goto
  <2>2. Touches(p)
    BY <1>1, <1>4, <2>1 DEF Touches, Absent, IInv, Typed
  <2>3. ~Readable(a)
    BY <1>3, <1>4 DEF Readable, Absent
  <2>4. FilesInOrder(a)'
    BY <1>3, <2>1, <2>3 DEF FilesInOrder, Whole, IInv, Typed
  <2>5. CallInOrder("unlinkReceipt", a)'
    BY <1>2, <1>3, <2>1 DEF CallInOrder, Unwritten, Unlinked, Chunked, Waiting, Holding
  <2> QED
    BY <1>1, <1>2, <1>3, <2>1, <2>2, <2>4, <2>5, OwnInOrder
<1>5. CASE ~Absent("receipt")
  <2>1. /\ pc' = [pc EXCEPT ![p] = "idle"] /\ UNCHANGED <<attempt, started, at, parts, written>>
        /\ temps' = [temps EXCEPT !["receipt"] = @ \ {a}]
    BY <1>1, <1>5 DEF Link, Goto
  <2>2. \A name \in Linked : temps'[name] \subseteq temps[name]
    BY <2>1 DEF FileTypes, Linked
  <2> QED
    BY <1>1, <1>2, <1>3, <2>1, <2>2, IdleInOrder, MoveInOrder
<1> QED
  BY <1>4, <1>5

LEMMA LinkManifestInOrder ==
  ASSUME IInv, FileTypes, Completeness, NEW p \in Processes,
         Link(p, "manifest", "linkManifest", "unlinkManifest")
  PROVE  Completeness'
<1>1. PICK a : a = attempt[p]
  OBVIOUS
<1>2. pc[p] = "linkManifest"
  BY DEF Link
<1>3. a \in Attempts /\ FilesInOrder(a) /\ CallInOrder(pc[p], a)
  BY <1>1, <1>2, Running
<1>4. CASE Absent("manifest")
  <2>1. /\ at' = [at EXCEPT !["manifest"] = a] /\ pc' = [pc EXCEPT ![p] = "unlinkManifest"]
        /\ UNCHANGED <<attempt, started, temps, parts, written>>
    BY <1>1, <1>4 DEF Link, Goto
  <2>2. Touches(p)
    BY <1>1, <1>4, <2>1 DEF Touches, Absent, IInv, Typed
  <2>3. Whole(a) /\ Whole(a)'
    BY <1>2, <1>3, <2>1 DEF CallInOrder, Chunked, Whole, IInv, Typed
  <2>4. ~Readable(a)
    BY <1>3, <1>4 DEF Readable, Absent
  <2>5. FilesInOrder(a)'
    BY <1>3, <2>1, <2>3, <2>4 DEF FilesInOrder
  <2>6. CallInOrder("unlinkManifest", a)'
    BY <2>3 DEF CallInOrder, Unwritten, Unlinked, Chunked, Waiting, Holding
  <2> QED
    BY <1>1, <1>2, <1>3, <2>1, <2>2, <2>5, <2>6, OwnInOrder
<1>5. CASE ~Absent("manifest")
  <2>1. /\ pc' = [pc EXCEPT ![p] = "idle"] /\ UNCHANGED <<attempt, started, at, parts, written>>
        /\ temps' = [temps EXCEPT !["manifest"] = @ \ {a}]
    BY <1>1, <1>5 DEF Link, Goto
  <2>2. \A name \in Linked : temps'[name] \subseteq temps[name]
    BY <2>1 DEF FileTypes, Linked
  <2> QED
    BY <1>1, <1>2, <1>3, <2>1, <2>2, IdleInOrder, MoveInOrder
<1> QED
  BY <1>4, <1>5

LEMMA BeginChunksInOrder ==
  ASSUME IInv, FileTypes, Completeness, NEW p \in Processes, BeginChunks(p)
  PROVE  Completeness'
<1>1. PICK a : a = attempt[p]
  OBVIOUS
<1>2. pc[p] = "publish"
  BY DEF BeginChunks
<1>3. a \in Attempts /\ FilesInOrder(a) /\ CallInOrder(pc[p], a)
  BY <1>1, <1>2, Running
<1>4. UNCHANGED <<attempt, started, temps, parts, written>>
  BY DEF BeginChunks
<1>5. CASE Absent("manifest") /\ Absent("chunks") /\ at' = [at EXCEPT !["chunks"] = a]
           /\ pc' = [pc EXCEPT ![p] = "chunks"]
  <2>1. Touches(p)
    BY <1>1, <1>4, <1>5 DEF Touches, Absent, IInv, Typed
  <2>2. ~Readable(a) /\ at["manifest"] # a /\ at'["manifest"] # a /\ at'["chunks"] = a
    BY <1>3, <1>5 DEF Readable, Absent, IInv, Typed
  <2>3. parts[a] = {}
    BY <1>2, <1>3 DEF CallInOrder, Unwritten
  <2>4. FilesInOrder(a)'
    BY <1>3, <1>4, <2>2 DEF FilesInOrder
  <2>5. 1 \in 1..Chunks
    BY AttemptConstants
  <2>6. CallInOrder("chunks", a)'
    BY <1>4, <2>2, <2>3, <2>5 DEF CallInOrder, Unwritten, Unlinked, Chunked, Waiting, Holding
  <2> QED
    BY <1>1, <1>2, <1>3, <1>5, <2>1, <2>4, <2>6, OwnInOrder
<1>6. CASE UNCHANGED at /\ pc' = [pc EXCEPT ![p] = "idle"]
  BY <1>1, <1>2, <1>3, <1>4, <1>6, IdleInOrder, MoveInOrder
<1> QED
  BY <1>1, <1>5, <1>6 DEF BeginChunks, Goto

(* The next chunk is the one after those that are there. *)
LEMMA WriteChunkInOrder ==
  ASSUME IInv, FileTypes, Completeness, NEW p \in Processes, WriteChunk(p)
  PROVE  Completeness'
<1>1. PICK a : a = attempt[p]
  OBVIOUS
<1>2. pc[p] = "chunks"
  BY DEF WriteChunk
<1>3. a \in Attempts /\ FilesInOrder(a) /\ CallInOrder(pc[p], a)
  BY <1>1, <1>2, Running
<1>4. PICK n \in 0..Chunks : parts[a] = 1..n
  BY <1>3 DEF FilesInOrder
<1>5. Cardinality(parts[a]) = n
  BY <1>4, FS_Interval, AttemptConstants
<1>6. n # Chunks /\ n + 1 \in 1..Chunks /\ (1..n) \cup {n + 1} = 1..(n + 1)
  BY <1>2, <1>3, <1>4, AttemptConstants DEF CallInOrder
<1>7. parts' = [parts EXCEPT ![a] = 1..(n + 1)]
  BY <1>1, <1>4, <1>5, <1>6 DEF WriteChunk
<1>8. UNCHANGED <<attempt, started, at, temps, written>>
  BY DEF WriteChunk, dirVars
<1>9. parts'[a] = 1..(n + 1)
  BY <1>3, <1>7 DEF FileTypes
<1>10. Touches(p)
  BY <1>1, <1>7, <1>8 DEF Touches, FileTypes
<1>11. at["manifest"] # a /\ at["chunks"] = a
  BY <1>2, <1>3 DEF CallInOrder, Unlinked
<1>12. a <= started
  BY <1>1, <1>3, AttemptConstants DEF IInv, Typed
<1>13. FilesInOrder(a)'
  <2>1. a \notin written
    BY <1>3, <1>11 DEF FilesInOrder, Readable
  <2>2. ~(a > started)
    BY <1>3, <1>12, AttemptConstants DEF IInv, Typed
  <2>3. n + 1 \in 0..Chunks
    BY <1>6, AttemptConstants
  <2> QED
    BY <1>8, <1>9, <1>11, <2>1, <2>2, <2>3 DEF FilesInOrder
<1>14. CASE n + 1 = Chunks
  <2>1. pc' = [pc EXCEPT ![p] = "manifest"]
    BY <1>1, <1>5, <1>14 DEF WriteChunk, Goto
  <2>2. CallInOrder("manifest", a)'
    BY <1>8, <1>9, <1>11, <1>14
       DEF CallInOrder, Whole, Unwritten, Unlinked, Chunked, Waiting, Holding
  <2> QED
    BY <1>1, <1>2, <1>3, <1>10, <1>13, <2>1, <2>2, OwnInOrder
<1>15. CASE n + 1 # Chunks
  <2>1. pc' = [pc EXCEPT ![p] = "chunks"]
    BY <1>1, <1>2, <1>5, <1>15 DEF WriteChunk, IInv, Typed
  <2>2. Chunks \in 1..Chunks /\ Chunks \notin 1..(n + 1)
    BY <1>6, <1>15, AttemptConstants
  <2>3. CallInOrder("chunks", a)'
    BY <1>8, <1>9, <1>11, <2>2 DEF CallInOrder, Unwritten, Unlinked, Chunked, Waiting, Holding
  <2> QED
    BY <1>1, <1>2, <1>3, <1>10, <1>13, <2>1, <2>3, OwnInOrder
<1> QED
  BY <1>14, <1>15

LEMMA CreateSummaryInOrder ==
  ASSUME IInv, FileTypes, Completeness, NEW p \in Processes, CreateSummary(p)
  PROVE  Completeness'
<1>1. PICK a : a = attempt[p]
  OBVIOUS
<1>2. pc[p] = "summary"
  BY DEF CreateSummary
<1>3. a \in Attempts /\ FilesInOrder(a) /\ CallInOrder(pc[p], a)
  BY <1>1, <1>2, Running
<1>4. UNCHANGED <<attempt, started, temps, parts, written>>
  BY DEF CreateSummary
<1>5. CASE Absent("summary") /\ at' = [at EXCEPT !["summary"] = a]
           /\ pc' = [pc EXCEPT ![p] = "writeSummary"]
  <2>1. Touches(p)
    BY <1>1, <1>4, <1>5 DEF Touches, Absent, IInv, Typed
  <2>2. at'["manifest"] = at["manifest"] /\ at'["chunks"] = at["chunks"]
        /\ at'["receipt"] = at["receipt"]
    BY <1>5 DEF IInv, Typed
  <2>3. Readable(a) <=> Readable(a)'
    BY <1>4, <2>2 DEF Readable, SingleLink
  <2>4. FilesInOrder(a)'
    BY <1>3, <1>4, <2>2, <2>3 DEF FilesInOrder, Whole
  <2>5. CallInOrder("writeSummary", a)'
    BY <1>2, <1>3, <1>4, <2>2, <2>3
       DEF CallInOrder, Whole, Unwritten, Unlinked, Chunked, Waiting, Holding
  <2> QED
    BY <1>1, <1>2, <1>3, <1>5, <2>1, <2>4, <2>5, OwnInOrder
<1>6. CASE UNCHANGED at /\ pc' = [pc EXCEPT ![p] = "idle"]
  BY <1>1, <1>2, <1>3, <1>4, <1>6, IdleInOrder, MoveInOrder
<1> QED
  BY <1>1, <1>5, <1>6 DEF CreateSummary, Goto

LEMMA WriteSummaryInOrder ==
  ASSUME IInv, FileTypes, Completeness, NEW p \in Processes, WriteSummary(p)
  PROVE  Completeness'
<1>1. PICK a : a = attempt[p]
  OBVIOUS
<1>2. pc[p] = "writeSummary" /\ pc' = [pc EXCEPT ![p] = "syncSummary"]
  BY DEF WriteSummary, Goto
<1>3. a \in Attempts /\ FilesInOrder(a) /\ CallInOrder(pc[p], a)
  BY <1>1, <1>2, Running
<1>4. UNCHANGED <<attempt, started, at, temps, parts>> /\ written' = written \cup {a}
  BY <1>1 DEF WriteSummary, dirVars
<1>5. Touches(p)
  BY <1>1, <1>4 DEF Touches
<1>6. Readable(a)'
  BY <1>2, <1>3, <1>4 DEF CallInOrder, Readable, SingleLink
<1>7. FilesInOrder(a)'
  BY <1>3, <1>4, <1>6 DEF FilesInOrder, Whole
<1>8. CallInOrder("syncSummary", a)'
  BY <1>2, <1>3, <1>4 DEF CallInOrder, Whole, Unwritten, Unlinked, Chunked, Waiting, Holding
<1> QED
  BY <1>1, <1>2, <1>3, <1>5, <1>7, <1>8, OwnInOrder

(* The steps that only move on. *)
LEMMA MovesInOrder ==
  ASSUME IInv, FileTypes, Completeness, NEW p \in Processes,
         \/ UnlinkTemp(p, "receipt", "unlinkReceipt", "syncReceipt")
         \/ UnlinkTemp(p, "manifest", "unlinkManifest", "syncManifest")
         \/ Sync(p, "syncReceipt", "execute")
         \/ Sync(p, "syncManifest", "verify")
         \/ Sync(p, "syncSummary", "idle")
         \/ Execute(p)
         \/ VerifyPublished(p)
         \/ Raise(p)
         \/ Kill(p)
  PROVE  Completeness'
<1>1. PICK a : a = attempt[p]
  OBVIOUS
<1>2. pc[p] # "idle"
  BY DEF UnlinkTemp, Sync, Execute, VerifyPublished, Raise, Kill
<1>3. a \in Attempts /\ FilesInOrder(a) /\ CallInOrder(pc[p], a)
  BY <1>1, <1>2, Running
<1>4. UNCHANGED <<attempt, started, at, parts, written>>
  BY DEF UnlinkTemp, Sync, Execute, VerifyPublished, Raise, Kill, dirVars
<1>5. \A name \in Linked : temps'[name] \subseteq temps[name]
  <2>1. CASE UNCHANGED temps
    BY <2>1
  <2>2. CASE \E name \in Linked : temps' = [temps EXCEPT ![name] = @ \ {attempt[p]}]
    BY <2>2 DEF FileTypes
  <2> QED
    BY <2>1, <2>2 DEF UnlinkTemp, Sync, Execute, VerifyPublished, Raise, Kill, dirVars, Linked
<1>6. PICK label :
        /\ pc' = [pc EXCEPT ![p] = label]
        /\ \/ label = "idle"
           \/ pc[p] = "unlinkReceipt" /\ label = "syncReceipt"
           \/ pc[p] = "unlinkManifest" /\ label = "syncManifest"
           \/ pc[p] = "syncReceipt" /\ label = "execute"
           \/ pc[p] = "syncManifest" /\ label = "verify"
           \/ pc[p] = "execute" /\ label = "publish"
           \/ pc[p] = "verify" /\ label = "summary" /\ Readable(a)
  BY <1>1 DEF UnlinkTemp, Sync, Execute, VerifyPublished, Raise, Kill, Goto
<1>7. CallInOrder(label, a)
  BY <1>3, <1>6, IdleInOrder DEF CallInOrder, Unwritten, Unlinked, Chunked, Waiting, Holding
<1> QED
  BY <1>1, <1>2, <1>3, <1>4, <1>5, <1>6, <1>7, MoveInOrder

LEMMA StepInOrder ==
  ASSUME IInv, FileTypes, Completeness, NEW p \in Processes, Step(p)
  PROVE  Completeness'
BY MovesInOrder, WriteTempInOrder, LinkReceiptInOrder, LinkManifestInOrder, BeginChunksInOrder,
   WriteChunkInOrder, CreateSummaryInOrder, WriteSummaryInOrder DEF Step

LEMMA FileTypesStep == IInv /\ FileTypes /\ [Next]_vars => FileTypes'
<1> SUFFICES ASSUME IInv, FileTypes, [Next]_vars PROVE FileTypes'
  OBVIOUS
<1>1. CASE UNCHANGED vars
  BY <1>1 DEF vars, dirVars, FileTypes
<1>2. CASE PowerLoss
  BY <1>2 DEF PowerLoss, FileTypes
<1>3. ASSUME NEW p \in Processes, Start(p) \/ Step(p) \/ Raise(p) \/ Kill(p) PROVE FileTypes'
  <2>1. pc[p] # "idle" => attempt[p] \in Attempts
    BY DEF IInv, OwnCalls
  <2>2. CASE Start(p) \/ Kill(p)
    BY <2>2 DEF Start, Kill, dirVars, FileTypes
  <2>3. CASE Raise(p)
    BY <2>3 DEF Raise, FileTypes, Linked
  <2>4. CASE WriteTemp(p, "receipt", "linkReceipt") \/ WriteTemp(p, "manifest", "linkManifest")
    <3>1. attempt[p] \in Attempts
      BY <2>1, <2>4 DEF WriteTemp
    <3>2. \/ UNCHANGED temps
          \/ \E name \in Linked : temps' = [temps EXCEPT ![name] = @ \cup {attempt[p]}]
      BY <2>4 DEF WriteTemp, Linked
    <3>3. temps' \in [Linked -> SUBSET Attempts]
      BY <3>1, <3>2 DEF FileTypes
    <3> QED
      BY <2>4, <3>3 DEF WriteTemp, FileTypes
  <2>5. CASE \/ Link(p, "receipt", "linkReceipt", "unlinkReceipt")
             \/ Link(p, "manifest", "linkManifest", "unlinkManifest")
             \/ UnlinkTemp(p, "receipt", "unlinkReceipt", "syncReceipt")
             \/ UnlinkTemp(p, "manifest", "unlinkManifest", "syncManifest")
    BY <2>5 DEF Link, UnlinkTemp, FileTypes, Linked
  <2>6. CASE WriteChunk(p)
    <3>1. PICK index : parts' = [parts EXCEPT ![attempt[p]] = @ \cup {index}]
      BY <2>6 DEF WriteChunk
    <3>2. parts' = [a \in Attempts |-> parts'[a]]
      BY <3>1 DEF FileTypes
    <3> QED
      BY <2>6, <3>2 DEF WriteChunk, dirVars, FileTypes
  <2>7. CASE WriteSummary(p)
    BY <2>1, <2>7 DEF WriteSummary, dirVars, FileTypes
  <2>8. CASE \/ Sync(p, "syncReceipt", "execute") \/ Sync(p, "syncManifest", "verify")
             \/ Sync(p, "syncSummary", "idle")
             \/ Execute(p) \/ BeginChunks(p) \/ VerifyPublished(p) \/ CreateSummary(p)
    BY <2>8 DEF Sync, Execute, BeginChunks, VerifyPublished, CreateSummary, dirVars, FileTypes
  <2> QED
    BY <1>3, <2>2, <2>3, <2>4, <2>5, <2>6, <2>7, <2>8 DEF Step
<1> QED
  BY <1>1, <1>2, <1>3 DEF Next

LEMMA CompleteStep == CompleteInv /\ [Next]_vars => CompleteInv'
<1> SUFFICES ASSUME CompleteInv, [Next]_vars PROVE CompleteInv'
  OBVIOUS
<1>1. IInv' /\ FileTypes'
  BY NextInv, FileTypesStep DEF CompleteInv
<1>2. ASSUME losses' = 0 PROVE Completeness'
  <2>1. ~PowerLoss /\ losses = 0
    <3>1. PowerLoss => losses' # 0
      BY DEF PowerLoss, CompleteInv, FileTypes
    <3>2. ~PowerLoss => losses' = losses
      BY DEF Next, vars, Start, Step, Raise, Kill, WriteTemp, Link, UnlinkTemp, Sync, Execute,
             BeginChunks, WriteChunk, VerifyPublished, CreateSummary, WriteSummary
    <3> QED
      BY <1>2, <3>1, <3>2
  <2>2. Completeness
    BY <2>1 DEF CompleteInv
  <2>3. CASE UNCHANGED vars
    BY <2>2, <2>3 DEF vars, callVars, dirVars, Completeness, FilesInOrder, CallInOrder, Whole,
                      Readable, SingleLink
  <2> QED
    BY <2>1, <2>2, <2>3, StartInOrder, StepInOrder, MovesInOrder DEF Next, CompleteInv
<1> QED
  BY <1>1, <1>2 DEF CompleteInv

LEMMA CompleteInit == Init => CompleteInv
<1> SUFFICES ASSUME Init PROVE CompleteInv
  OBVIOUS
<1>1. FileTypes
  BY DEF Init, FileTypes
<1>2. ASSUME NEW a \in Attempts PROVE FilesInOrder(a)
  <2>1. 0 \in 0..Chunks /\ 1..0 = {} /\ a # 0
    BY AttemptConstants
  <2> QED
    BY <2>1 DEF Init, FilesInOrder
<1>3. Completeness
  BY <1>2, IdleInOrder DEF Init, Completeness
<1> QED
  BY <1>1, <1>3, InitInv DEF CompleteInv

(* "Publish one exclusive manifest last": as long as the power does not fail, a
   manifest that is visible has all its chunks, and a summary that is complete
   stands for evidence the verifier accepts
   (publish_v5_chunked_evidence, _execute_locked_development_once). *)
THEOREM PublishedAlwaysComplete == Spec => []PublishedComplete
<1>1. CompleteInv => PublishedComplete
  BY DEF CompleteInv, Completeness, FilesInOrder, Whole, PublishedComplete
<1> QED
  BY <1>1, CompleteInit, CompleteStep, PTL DEF Spec

-----------------------------------------------------------------------------
(* The confirmatory run, of a single operator who may be killed and start it
   again.  Why: a call finds no receipt only when no call has scored, the
   receipt is there before it scores, and no call that finds one goes on. *)
Alone == \A p, q \in Operators : p = q

Scoring == {"score", "publish", "finalize", "failed"}
Scored == {"publish", "finalize", "failed"}

ConfirmatoryTypes ==
    /\ phase \in [Operators -> {"idle", "create"} \cup Scoring]
    /\ run \in [Operators -> Nat]
    /\ runs \in Nat
    /\ receipt \in [run : Nat, status : {"none", "running", "failed", "no_promotion"}]
    /\ files \in [1..Artifacts -> Nat]

ScoredOnReceipt == \A a \in scored : a # 0 /\ receipt.run = a

OperatorOn(p) ==
    /\ phase[p] # "idle" => run[p] # 0
    /\ phase[p] = "create" => receipt = NoReceipt
    /\ phase[p] \in Scoring => receipt = [run |-> run[p], status |-> "running"]
    /\ phase[p] = "score" => scored = {}
    /\ phase[p] \in Scored => run[p] \in scored
    /\ phase[p] = "finalize" => \A i \in 1..Artifacts : files[i] = run[p]

ConfirmatoryInv ==
    /\ ConfirmatoryTypes /\ ScoredOnReceipt /\ VerdictBacked
    /\ \A p \in Operators : OperatorOn(p)

LEMMA ConfirmatoryInitInv == ConfirmatoryInit => ConfirmatoryInv
BY DEF ConfirmatoryInit, ConfirmatoryInv, ConfirmatoryTypes, ScoredOnReceipt, VerdictBacked,
       OperatorOn, NoReceipt, Scoring, Scored

LEMMA ConfirmatoryStep ==
  ASSUME Alone, ConfirmatoryInv, NEW p \in Operators,
         \/ LookForReceipt(p) \/ CreateReceipt(p) \/ ScoreArms(p) \/ PublishArtifact(p)
         \/ Finalize(p) \/ KillOperator(p)
  PROVE  ConfirmatoryInv'
<1> USE DEF ConfirmatoryInv, ConfirmatoryTypes, Proceed, PutReceipt, Scoring, Scored
<1>1. SUFFICES ConfirmatoryTypes' /\ ScoredOnReceipt' /\ VerdictBacked' /\ OperatorOn(p)'
  BY DEF Alone
<1>2. CASE LookForReceipt(p)
  <2>1. run' \in [Operators -> Nat] /\ run'[p] # 0
    BY <1>2 DEF LookForReceipt
  <2> QED
    BY <1>2, <2>1 DEF LookForReceipt, ScoredOnReceipt, VerdictBacked, OperatorOn
<1>3. CASE CreateReceipt(p)
  BY <1>3 DEF CreateReceipt, ScoredOnReceipt, VerdictBacked, OperatorOn, NoReceipt
<1>4. CASE ScoreArms(p)
  BY <1>4 DEF ScoreArms, ScoredOnReceipt, VerdictBacked, OperatorOn
<1>5. CASE PublishArtifact(p)
  <2>1. receipt' = [run |-> run[p], status |-> "running"] /\ run[p] \in scored
    BY <1>5 DEF PublishArtifact, OperatorOn
  <2>2. CASE phase' = [phase EXCEPT ![p] = "failed"] /\ UNCHANGED files
    BY <1>5, <2>1, <2>2 DEF PublishArtifact, ScoredOnReceipt, VerdictBacked, OperatorOn
  <2>3. ASSUME NEW i \in 1..Artifacts,
               \A j \in 1..(i - 1) : files[j] = run[p],
               files' = [files EXCEPT ![i] = run[p]],
               phase' = [phase EXCEPT ![p] = IF i = Artifacts THEN "finalize" ELSE "publish"]
        PROVE  ConfirmatoryTypes' /\ ScoredOnReceipt' /\ VerdictBacked' /\ OperatorOn(p)'
    <3>1. files' \in [1..Artifacts -> Nat]
      BY <2>3
    <3>2. i = Artifacts => \A j \in 1..Artifacts : files'[j] = run[p]
      <4> SUFFICES ASSUME i = Artifacts, NEW j \in 1..Artifacts PROVE files'[j] = run[p]
        OBVIOUS
      <4>1. j = i \/ j \in 1..(i - 1)
        BY ConfirmatoryConstants
      <4> QED
        BY <2>3, <4>1
    <3> QED
      BY <1>5, <2>1, <2>3, <3>1, <3>2
         DEF PublishArtifact, ScoredOnReceipt, VerdictBacked, OperatorOn
  <2> QED
    BY <1>5, <2>2, <2>3 DEF PublishArtifact
<1>6. CASE Finalize(p)
  BY <1>6 DEF Finalize, ScoredOnReceipt, VerdictBacked, OperatorOn
<1>7. CASE KillOperator(p)
  BY <1>7 DEF KillOperator, ScoredOnReceipt, VerdictBacked, OperatorOn
<1> QED
  BY <1>2, <1>3, <1>4, <1>5, <1>6, <1>7

(* "Durable record that the one permitted ... attempt was consumed": with one
   operator, one call scores, the receipt stays its receipt, and a verdict has
   all files of that call (create_v4_receipt, finalize_v4_receipt). *)
THEOREM ReceiptAlwaysStands ==
  ASSUME Alone
  PROVE  ConfirmatorySpec => []ReceiptStands
<1>1. ConfirmatoryInv => ReceiptStands
  BY DEF ConfirmatoryInv, ScoredOnReceipt, ReceiptStands, ScoredOnce
<1>2. ConfirmatoryInv /\ [ConfirmatoryNext]_confirmatoryVars => ConfirmatoryInv'
  <2>1. UNCHANGED confirmatoryVars /\ ConfirmatoryInv => ConfirmatoryInv'
    BY DEF confirmatoryVars, ConfirmatoryInv, ConfirmatoryTypes, ScoredOnReceipt, VerdictBacked,
           OperatorOn
  <2> QED
    BY <2>1, ConfirmatoryStep DEF ConfirmatoryNext
<1> QED
  BY <1>1, <1>2, ConfirmatoryInitInv, PTL DEF ConfirmatorySpec
-----------------------------------------------------------------------------
(***************************************************************************)
(* StagedChain: what is published verifies.  The manifests lead from a      *)
(* checkpoint back to the first, along one chain only; so a chain that was  *)
(* read under the input root is the one the manifests name, and a stage     *)
(* that continues it publishes the end of a longer one.  Nobody but the     *)
(* call that made a directory writes to it, and never after its manifest.   *)
(***************************************************************************)
Manifested(r) == root[r].link \in {"double", "single"}

Elements(h) == {h[i] : i \in 1..Len(h)}

(* Whole checkpoints of one attempt, each naming the one before. *)
Joined(h, i) ==
    /\ Manifested(h[i]) /\ root[h[i]].whole
    /\ root[h[i]].stage = i
    /\ root[h[i]].predecessor = IF i = 1 THEN 0 ELSE h[i - 1]
    /\ root[h[i]].execution = root[Tip(h)].execution
    /\ Stages[i] = "metrics" => ReceiptsBound(root[h[i]].receipts, h[IndexOf("arms")])

GoodChain(h) == h \in Seq(Roots) /\ \A i \in 1..Len(h) : i <= Len(Stages) /\ Joined(h, i)

Leads(h, r) == GoodChain(h) /\ h # <<>> /\ Tip(h) = r

Checkpoint ==
    [link : {"none", "double", "single"}, whole : BOOLEAN, stage : 1..Len(Stages),
     execution : Executions, machine : Machines, predecessor : 0..MaxRoots,
     from : SUBSET Roots, receipts : Seq([arm : Nat, source : Roots])]

StageCalls ==
    {Idle}
    \cup [at : {"reading"}, execution : Executions, machine : Machines, chain : Seq(Roots)]
    \cup [at : {"records", "publish", "unlink"}, chain : Seq(Roots), out : Roots]

ChainTyped ==
    /\ root \in [Roots -> Checkpoint \cup {NoDirectory}]
    /\ call \in [Runners -> StageCalls]

Making(c) == c.at \in {"records", "publish", "unlink"}

(* The directory of a call is the next one of the chain that the call read. *)
InTheMaking(c) ==
    LET d == root[c.out] IN
    /\ d.link = IF c.at = "unlink" THEN "double" ELSE "none"
    /\ d.stage = Len(c.chain) + 1
    /\ d.predecessor = IF c.chain = <<>> THEN 0 ELSE Tip(c.chain)
    /\ c.chain # <<>> => root[Tip(c.chain)].execution = d.execution
    /\ c.at # "records" =>
           /\ d.whole /\ d.from \subseteq Elements(c.chain)
           /\ Stages[d.stage] = "metrics" =>
                  ReceiptsBound(d.receipts, c.chain[IndexOf("arms")])

CallSound(c) ==
    /\ c # Idle => GoodChain(c.chain)
    /\ Making(c) => InTheMaking(c)

OwnDirectory ==
    \A p, q \in Runners :
        Making(call[p]) /\ Making(call[q]) /\ call[p].out = call[q].out => p = q

PublishedLead ==
    \A r \in Roots : Manifested(r) =>
        \E h : Leads(h, r) /\ root[r].from \subseteq Elements(h) \ {r}

ChainInv ==
    ChainTyped /\ PublishedLead /\ OwnDirectory /\ \A p \in Runners : CallSound(call[p])

-----------------------------------------------------------------------------
(* The arms come before the metrics. *)
LEMMA ArmsFirst ==
    ASSUME NEW i \in 1..Len(Stages), Stages[i] = "metrics"
    PROVE  IndexOf("arms") \in 1..(i - 1)
<1>1. PICK j \in 1..(i - 1) : Stages[j] = "arms"
  BY StagedConstants
<1>2. Len(Stages) \in Nat
  BY StagedConstants, LenProperties
<1>3. j \in 1..Len(Stages)
  BY <1>2
<1>4. \E k \in 1..Len(Stages) : Stages[k] = "arms"
  BY <1>1, <1>3
<1>5. IndexOf("arms") \in 1..Len(Stages) /\ Stages[IndexOf("arms")] = "arms"
  BY <1>4 DEF IndexOf
<1>6. IndexOf("arms") = j
  BY <1>1, <1>3, <1>5, StagedConstants
<1> QED  BY <1>6

(* A good chain has one element per stage. *)
LEMMA GoodLengths ==
    ASSUME NEW h, GoodChain(h)
    PROVE  /\ Len(h) \in Nat /\ \A i \in 1..Len(h) : h[i] \in Roots
           /\ Len(Stages) \in Nat /\ Len(h) <= Len(Stages)
           /\ h # <<>> => Len(h) >= 1 /\ Tip(h) = h[Len(h)] /\ root[Tip(h)].stage = Len(h)
<1>1. Len(h) \in Nat /\ h \in Seq(Roots) /\ (h # <<>> => Len(h) >= 1) /\ Len(Stages) \in Nat
  BY StagedConstants, EmptySeq, LenProperties DEF GoodChain
<1>2. \A i \in 1..Len(h) : h[i] \in Roots
  BY <1>1, ElementOfSeq
<1>3. Len(h) \in 1..Len(h) => Len(h) <= Len(Stages) /\ root[h[Len(h)]].stage = Len(h)
  BY DEF GoodChain, Joined
<1> QED  BY <1>1, <1>2, <1>3 DEF Tip

(* The manifests lead back along one chain only. *)
LEMMA OneChain ==
    ASSUME NEW g, NEW h, GoodChain(g), GoodChain(h), g # <<>>, h # <<>>, Tip(g) = Tip(h)
    PROVE  g = h
<1>1. PICK s : s = Len(g)
  OBVIOUS
<1>2. /\ s \in Nat /\ s >= 1 /\ Len(g) = s /\ Len(h) = s /\ g[s] = h[s]
      /\ g \in Seq(Roots) /\ h \in Seq(Roots)
  BY <1>1, GoodLengths DEF GoodChain
<1> DEFINE G == {n \in Nat : n < s => g[s - n] = h[s - n]}
<1>3. 0 \in G
  BY <1>2
<1>4. ASSUME NEW n \in Nat, n \in G
      PROVE  n + 1 \in G
  <2> SUFFICES ASSUME n + 1 < s
               PROVE  g[s - (n + 1)] = h[s - (n + 1)]
    OBVIOUS
  <2>1. s - n \in 1..s /\ s - n # 1 /\ (s - n) - 1 = s - (n + 1) /\ g[s - n] = h[s - n]
    BY <1>2, <1>4
  <2>2. Joined(g, s - n) /\ Joined(h, s - n)
    BY <1>2, <2>1 DEF GoodChain
  <2> QED  BY <2>1, <2>2 DEF Joined
<1> HIDE DEF G
<1>5. Nat \subseteq G
  BY <1>3, <1>4, UpwardInduction
<1>6. \A i \in 1..s : g[i] = h[i]
  <2> SUFFICES ASSUME NEW i \in 1..s
               PROVE  g[i] = h[i]
    OBVIOUS
  <2>1. s - i \in Nat /\ s - i < s /\ s - (s - i) = i
    BY <1>2
  <2> QED  BY <1>5, <2>1 DEF G
<1> QED  BY <1>2, <1>6, SeqEqual

(* The way back, as ChainOf goes it. *)
Backs(r, b) ==
    b = [i \in 1..Len(Stages) |-> IF i = 1 THEN r
                                  ELSE IF b[i - 1] = 0 THEN 0 ELSE root[b[i - 1]].predecessor]
BackOf(r) == CHOOSE b : Backs(r, b)
DepthOf(r) == CHOOSE i \in 1..Len(Stages) :
                  BackOf(r)[i] # 0 /\ (i = Len(Stages) \/ BackOf(r)[i + 1] = 0)

(* What ChainOf computes, with its parts named. *)
LEMMA ChainUnfolds ==
    ASSUME NEW r
    PROVE  ChainOf(r) = [i \in 1..DepthOf(r) |-> BackOf(r)[DepthOf(r) + 1 - i]]
  BY DEF ChainOf, DepthOf, BackOf, Backs

(* A chain that leads to a checkpoint is the chain of the checkpoint. *)
LEMMA ChainFound ==
    ASSUME NEW r, NEW h, Leads(h, r)
    PROVE  ChainOf(r) = h
<1>1. PICK s, n : s = Len(h) /\ n = Len(Stages)
  OBVIOUS
<1>2. s \in Nat /\ n \in Nat /\ 1 <= s /\ s <= n /\ h \in Seq(Roots) /\ h[s] = r
      /\ \A i \in 1..s : h[i] \in Roots /\ h[i] # 0
  BY <1>1, GoodLengths DEF Leads, GoodChain, Roots
<1>3. \A i \in 1..s : root[h[i]].predecessor = IF i = 1 THEN 0 ELSE h[i - 1]
  BY <1>1 DEF Leads, GoodChain, Joined
<1> DEFINE W == [i \in 1..n |-> IF i <= s THEN h[s + 1 - i] ELSE 0]
<1>4. \A i \in 1..n : W[i] = IF i = 1 THEN r
                             ELSE IF W[i - 1] = 0 THEN 0 ELSE root[W[i - 1]].predecessor
  <2> SUFFICES ASSUME NEW i \in 1..n
               PROVE  W[i] = IF i = 1 THEN r
                             ELSE IF W[i - 1] = 0 THEN 0 ELSE root[W[i - 1]].predecessor
    BY Zenon
  <2>0. CASE i = 1
    BY <1>2, <2>0
  <2>1. CASE i # 1 /\ i <= s
    <3>1. W[i - 1] = h[s + 2 - i] /\ W[i] = h[s + 1 - i]
      BY <1>2, <2>1
    <3>2. s + 2 - i \in 1..s /\ s + 2 - i # 1 /\ (s + 2 - i) - 1 = s + 1 - i
      BY <1>2, <2>1
    <3> HIDE DEF W
    <3> QED  BY <1>2, <1>3, <3>1, <3>2
  <2>2. CASE i = s + 1
    <3>1. W[i - 1] = h[1] /\ W[i] = 0 /\ 1 \in 1..s /\ i # 1
      BY <1>2, <2>2
    <3> HIDE DEF W
    <3> QED  BY <1>2, <1>3, <3>1
  <2>3. CASE i > s + 1
    BY <1>2, <2>3
  <2> QED  BY <1>2, <2>0, <2>1, <2>2, <2>3
<1>5. Backs(r, W)
  BY <1>1, <1>4 DEF Backs
<1>6. Backs(r, BackOf(r))
  BY <1>5 DEF BackOf
<1>7. PICK b : b = BackOf(r)
  OBVIOUS
<1>8. \A i \in 1..n : b[i] = IF i = 1 THEN r
                             ELSE IF b[i - 1] = 0 THEN 0 ELSE root[b[i - 1]].predecessor
  BY <1>1, <1>6, <1>7 DEF Backs
<1> DEFINE G == {k \in Nat : k + 1 <= n => b[k + 1] = W[k + 1]}
<1> HIDE DEF W
<1>9. 0 \in G
  BY <1>2, <1>4, <1>8
<1>10. ASSUME NEW k \in Nat, k \in G
       PROVE  k + 1 \in G
  <2> SUFFICES ASSUME (k + 1) + 1 <= n
               PROVE  b[(k + 1) + 1] = W[(k + 1) + 1]
    OBVIOUS
  <2>1. (k + 1) + 1 \in 1..n /\ (k + 1) + 1 # 1 /\ ((k + 1) + 1) - 1 = k + 1 /\ b[k + 1] = W[k + 1]
    BY <1>2, <1>10
  <2> QED  BY <1>4, <1>8, <2>1
<1> HIDE DEF G
<1>11. Nat \subseteq G
  BY <1>9, <1>10, UpwardInduction
<1>12. \A i \in 1..n : b[i] = IF i <= s THEN h[s + 1 - i] ELSE 0
  <2> SUFFICES ASSUME NEW i \in 1..n
               PROVE  b[i] = W[i]
    BY DEF W
  <2>1. i - 1 \in Nat /\ (i - 1) + 1 = i /\ i <= n
    BY <1>2
  <2> QED  BY <1>11, <2>1 DEF G
<1>13. DepthOf(r) = s
  <2>1. s \in 1..n /\ b[s] # 0 /\ (s = n \/ b[s + 1] = 0)
    BY <1>2, <1>12
  <2>2. ASSUME NEW i \in 1..n, b[i] # 0, i = n \/ b[i + 1] = 0
        PROVE  i = s
    <3>1. i <= s
      BY <1>12, <2>2
    <3>2. CASE i < s
      <4>1. i + 1 \in 1..n /\ s + 1 - (i + 1) \in 1..s /\ i + 1 <= s
        BY <1>2, <3>2
      <4> QED  BY <1>2, <1>12, <2>2, <3>2, <4>1
    <3> QED  BY <1>2, <3>1, <3>2
  <2> QED  BY <1>1, <1>7, <2>1, <2>2 DEF DepthOf
<1>14. \A i \in 1..s : BackOf(r)[s + 1 - i] = h[i]
  <2> SUFFICES ASSUME NEW i \in 1..s
               PROVE  b[s + 1 - i] = h[i]
    BY <1>7
  <2>1. s + 1 - i \in 1..n /\ s + 1 - i <= s /\ s + 1 - (s + 1 - i) = i
    BY <1>2
  <2> QED  BY <1>12, <2>1
<1>15. ChainOf(r) = [i \in 1..s |-> h[i]]
  BY <1>13, <1>14, ChainUnfolds
<1>16. h = [i \in 1..s |-> h[i]]
  BY <1>1, <1>2, LenProperties
<1> QED  BY <1>15, <1>16

(* What is under a manifest does not change, but for its second name. *)
Lasting ==
    \A r \in Roots : Manifested(r) =>
        /\ Manifested(r)'
        /\ root'[r].whole = root[r].whole /\ root'[r].stage = root[r].stage
        /\ root'[r].predecessor = root[r].predecessor
        /\ root'[r].execution = root[r].execution
        /\ root'[r].receipts = root[r].receipts /\ root'[r].from = root[r].from

(* A good chain stays one. *)
LEMMA GoodStays ==
    ASSUME Lasting, NEW h, GoodChain(h)
    PROVE  GoodChain(h)'
<1>1. /\ h \in Seq(Roots) /\ Len(h) \in Nat /\ \A i \in 1..Len(h) : h[i] \in Roots
      /\ h # <<>> => Len(h) >= 1 /\ Tip(h) = h[Len(h)]
  BY GoodLengths DEF GoodChain
<1>2. ASSUME NEW i \in 1..Len(h)
      PROVE  i <= Len(Stages) /\ Joined(h, i)'
  <2>1. i <= Len(Stages) /\ Joined(h, i) /\ h[i] \in Roots
    BY <1>1, <1>2 DEF GoodChain
  <2>2. Len(h) \in 1..Len(h) /\ h # <<>>
    BY <1>1, EmptySeq
  <2>3. Manifested(Tip(h)) /\ Tip(h) \in Roots
    BY <1>1, <2>2 DEF GoodChain, Joined
  <2>4. root'[Tip(h)].execution = root[Tip(h)].execution
    BY <2>3 DEF Lasting
  <2> QED  BY <2>1, <2>4 DEF Joined, Lasting
<1> QED  BY <1>1, <1>2 DEF GoodChain

(* What leads to a checkpoint goes on to lead there. *)
LEMMA LeadStays ==
    ASSUME Lasting, NEW r \in Roots, Manifested(r),
           \E h : Leads(h, r) /\ root[r].from \subseteq Elements(h) \ {r}
    PROVE  \E h : Leads(h, r)' /\ root'[r].from \subseteq Elements(h) \ {r}
<1>1. PICK h : Leads(h, r) /\ root[r].from \subseteq Elements(h) \ {r}
  OBVIOUS
<1>2. Leads(h, r)'
  BY <1>1, GoodStays DEF Leads
<1> QED  BY <1>1, <1>2 DEF Lasting

(* The last of a good chain is under its manifest. *)
LEMMA TipLinked ==
    ASSUME NEW h, GoodChain(h), h # <<>>
    PROVE  Tip(h) \in Roots /\ Manifested(Tip(h))
<1>1. Len(h) \in 1..Len(h) /\ Tip(h) = h[Len(h)] /\ h[Len(h)] \in Roots
  BY GoodLengths
<1> QED  BY <1>1 DEF GoodChain, Joined

(* What holds of a call stays while nobody writes to its directory. *)
LEMMA SoundCallStays ==
    ASSUME Lasting, NEW c, CallSound(c), Making(c) => root'[c.out] = root[c.out]
    PROVE  CallSound(c)'
<1>1. c # Idle => GoodChain(c.chain)'
  BY GoodStays DEF CallSound
<1>2. ASSUME Making(c)
      PROVE  InTheMaking(c)'
  <2>1. c # Idle /\ InTheMaking(c) /\ root'[c.out] = root[c.out]
    BY <1>2 DEF CallSound, Making, Idle
  <2>2. c.chain # <<>> => root'[Tip(c.chain)].execution = root[Tip(c.chain)].execution
    <3> SUFFICES ASSUME c.chain # <<>>
                 PROVE  root'[Tip(c.chain)].execution = root[Tip(c.chain)].execution
      OBVIOUS
    <3>1. GoodChain(c.chain)
      BY <2>1 DEF CallSound
    <3>2. Manifested(Tip(c.chain)) /\ Tip(c.chain) \in Roots
      BY <3>1, TipLinked
    <3> QED  BY <3>2 DEF Lasting
  <2> QED  BY <2>1, <2>2 DEF InTheMaking
<1> QED  BY <1>1, <1>2 DEF CallSound

(* One call moves, and no other is in the same directory. *)
LEMMA OneCallMoves ==
    ASSUME ChainInv, Lasting, ChainTyped', NEW p \in Runners, NEW c,
           call' = [call EXCEPT ![p] = c], CallSound(c)',
           \A r \in Roots : Manifested(r)' /\ ~Manifested(r) =>
               \E h : Leads(h, r)' /\ root'[r].from \subseteq Elements(h) \ {r},
           \A q \in Runners \ {p} : Making(call[q]) =>
               /\ root'[call[q].out] = root[call[q].out]
               /\ Making(c) => c.out # call[q].out
    PROVE  ChainInv'
<1>1. call'[p] = c /\ \A q \in Runners \ {p} : call'[q] = call[q]
  BY DEF ChainInv, ChainTyped
<1>2. \A q \in Runners : CallSound(call[q])'
  <2> SUFFICES ASSUME NEW q \in Runners
               PROVE  CallSound(call[q])'
    OBVIOUS
  <2>1. CASE q = p
    <3>1. call'[q] = c
      BY <1>1, <2>1
    <3> QED  BY <3>1
  <2>2. CASE q # p
    <3>1. PICK d : d = call[q]
      OBVIOUS
    <3>2. call'[q] = d /\ CallSound(d) /\ (Making(d) => root'[d.out] = root[d.out])
      BY <1>1, <2>2, <3>1 DEF ChainInv
    <3>3. CallSound(d)'
      BY <3>2, SoundCallStays
    <3> QED  BY <3>2, <3>3
  <2> QED  BY <2>1, <2>2
<1>3. PublishedLead'
  <2> SUFFICES ASSUME NEW r \in Roots, Manifested(r)'
               PROVE  \E h : Leads(h, r)' /\ root'[r].from \subseteq Elements(h) \ {r}
    BY DEF PublishedLead
  <2>1. CASE Manifested(r)
    BY <2>1, LeadStays DEF ChainInv, PublishedLead
  <2>2. CASE ~Manifested(r)
    BY <2>2
  <2> QED  BY <2>1, <2>2
<1>4. OwnDirectory'
  <2>1. \A q \in Runners \ {p} : Making(c) /\ Making(call[q]) => c.out # call[q].out
    OBVIOUS
  <2> QED  BY <1>1, <2>1 DEF ChainInv, OwnDirectory, Making
<1> QED  BY <1>2, <1>3, <1>4 DEF ChainInv

(* Calls, one by one.  Those that write nothing first. *)
LEMMA RootStays ==
    ASSUME ChainInv, UNCHANGED root, NEW p \in Runners, NEW c \in StageCalls,
           call' = [call EXCEPT ![p] = c], CallSound(c),
           Making(c) => Making(call[p]) /\ c.out = call[p].out
    PROVE  ChainInv'
<1>1. Lasting
  BY DEF Lasting, Manifested
<1>2. CallSound(c)'
  BY <1>1, SoundCallStays
<1>3. ChainTyped'
  BY DEF ChainInv, ChainTyped
<1>4. \A q \in Runners \ {p} : Making(call[q]) =>
          /\ root'[call[q].out] = root[call[q].out]
          /\ Making(c) => c.out # call[q].out
  BY DEF ChainInv, OwnDirectory
<1>5. \A r \in Roots : Manifested(r)' => Manifested(r)
  BY DEF Manifested
<1> QED  BY <1>1, <1>2, <1>3, <1>4, <1>5, OneCallMoves

(* A call ends, leaving its directory as it is. *)
LEMMA EndsInv ==
    ASSUME ChainInv, UNCHANGED root, NEW p \in Runners, call' = [call EXCEPT ![p] = Idle]
    PROVE  ChainInv'
<1>1. PICK c : c = Idle
  OBVIOUS
<1>2. c \in StageCalls /\ CallSound(c) /\ ~Making(c)
  BY <1>1 DEF StageCalls, CallSound, Making, Idle
<1> QED  BY <1>1, <1>2, RootStays

(* A call begins with nothing read. *)
LEMMA BeginInv ==
    ASSUME ChainInv, NEW p \in Runners, NEW e \in Executions, NEW m \in Machines, Begin(p, e, m)
    PROVE  ChainInv'
<1>1. PICK c : c = [at |-> "reading", execution |-> e, machine |-> m, chain |-> <<>>]
  OBVIOUS
<1>2. <<>> \in Seq(Roots) /\ Len(<<>>) = 0
  BY EmptySeq
<1>3. GoodChain(<<>>)
  BY <1>2 DEF GoodChain
<1>4. c \in StageCalls
  BY <1>1, <1>2 DEF StageCalls
<1>5. CallSound(c) /\ ~Making(c)
  BY <1>1, <1>3 DEF CallSound, Making
<1>6. UNCHANGED root /\ call' = [call EXCEPT ![p] = c]
  BY <1>1 DEF Begin
<1> QED  BY <1>4, <1>5, <1>6, RootStays

(* A chain that is read goes on where the manifests do. *)
LEMMA ReadsOn ==
    ASSUME PublishedLead, NEW g, GoodChain(g), NEW r \in Roots, Manifested(r),
           root[r].stage = Len(g) + 1, g # <<>> => root[r].predecessor = Tip(g)
    PROVE  GoodChain(Append(g, r))
<1>1. PICK h : Leads(h, r)
  BY DEF PublishedLead
<1>2. PICK n : n = Len(g)
  OBVIOUS
<1>3. /\ n \in Nat /\ g \in Seq(Roots) /\ h \in Seq(Roots) /\ Len(h) = n + 1 /\ h[n + 1] = r
      /\ h # <<>> /\ Tip(h) = r /\ n + 1 <= Len(Stages)
  BY <1>1, <1>2, GoodLengths DEF Leads, GoodChain
<1>4. PICK f : f = SubSeq(h, 1, n)
  OBVIOUS
<1>5. f \in Seq(Roots) /\ Len(f) = n /\ \A i \in 1..n : f[i] = h[i]
  BY <1>3, <1>4, SubSeqProperties
<1>6. f = g
  <2>1. CASE n = 0
    BY <1>2, <1>3, <1>5, <2>1, EmptySeq
  <2>2. CASE n # 0
    <3>1. g # <<>> /\ f # <<>> /\ Tip(f) = h[n] /\ n \in 1..n
      BY <1>2, <1>3, <1>5, <2>2, EmptySeq DEF Tip
    <3>2. h[n] = Tip(g)
      <4>1. Joined(h, n + 1)
        BY <1>1, <1>3 DEF Leads, GoodChain
      <4>2. root[r].predecessor = h[n]
        BY <1>3, <2>2, <4>1 DEF Joined
      <4> QED  BY <3>1, <4>2
    <3>3. \A i \in 1..n : i <= Len(Stages) /\ Joined(h, i)
      BY <1>1, <1>3 DEF Leads, GoodChain
    <3>4. root[h[n]].execution = root[r].execution
      BY <1>3, <3>1, <3>3 DEF Joined
    <3>5. ASSUME NEW i \in 1..n
          PROVE  Joined(f, i)
      <4>1. Stages[i] = "metrics" => f[IndexOf("arms")] = h[IndexOf("arms")]
        <5> SUFFICES ASSUME Stages[i] = "metrics"
                     PROVE  f[IndexOf("arms")] = h[IndexOf("arms")]
          OBVIOUS
        <5>1. i \in 1..Len(Stages)
          BY <3>3
        <5>2. IndexOf("arms") \in 1..(i - 1)
          BY <5>1, ArmsFirst
        <5>3. IndexOf("arms") \in 1..n
          BY <1>3, <5>2
        <5> QED  BY <1>5, <5>3
      <4>2. f[i] = h[i] /\ (i # 1 => f[i - 1] = h[i - 1])
        BY <1>3, <1>5
      <4> QED  BY <1>3, <3>1, <3>3, <3>4, <4>1, <4>2 DEF Joined
    <3>6. GoodChain(f)
      BY <1>5, <3>3, <3>5 DEF GoodChain
    <3> QED  BY <3>1, <3>2, <3>6, OneChain
  <2> QED  BY <2>1, <2>2
<1>7. Append(g, r) = h
  <2>1. /\ Append(g, r) \in Seq(Roots) /\ Len(Append(g, r)) = n + 1 /\ Append(g, r)[n + 1] = r
        /\ \A i \in 1..n : Append(g, r)[i] = g[i]
    BY <1>2, <1>3, AppendProperties
  <2>2. \A i \in 1..(n + 1) : Append(g, r)[i] = h[i]
    BY <1>3, <1>5, <1>6, <2>1
  <2> QED  BY <1>3, <2>1, <2>2, SeqEqual
<1> QED  BY <1>1, <1>7 DEF Leads

(* One more checkpoint is read. *)
LEMMA ReadInputInv ==
    ASSUME ChainInv, NEW p \in Runners, ReadInput(p)
    PROVE  ChainInv'
<1>1. PICK b : b = call[p]
  OBVIOUS
<1>2. /\ b.at = "reading" /\ b # Idle /\ UNCHANGED root /\ b \in StageCalls /\ CallSound(b)
  BY <1>1 DEF ReadInput, ChainInv, ChainTyped, Idle
<1>3. PICK r \in Roots :
          /\ CheckpointReadable(r) /\ root[r].stage = Len(b.chain) + 1
          /\ b.chain # <<>> => root[r].predecessor = Tip(b.chain)
          /\ call' = [call EXCEPT ![p].chain = Append(b.chain, r)]
  BY <1>1 DEF ReadInput
<1>4. PICK c : c = [b EXCEPT !.chain = Append(b.chain, r)]
  OBVIOUS
<1>5. GoodChain(Append(b.chain, r))
  BY <1>2, <1>3, ReadsOn DEF CallSound, ChainInv, CheckpointReadable, Manifested
<1>6. b \in [at : {"reading"}, execution : Executions, machine : Machines, chain : Seq(Roots)]
  BY <1>2 DEF StageCalls, Idle
<1>7. c \in StageCalls /\ c.at = "reading" /\ c.chain = Append(b.chain, r)
  BY <1>4, <1>5, <1>6 DEF StageCalls, GoodChain
<1>8. CallSound(c) /\ ~Making(c)
  BY <1>5, <1>7 DEF CallSound, Making
<1>9. call' = [call EXCEPT ![p] = c]
  BY <1>1, <1>3, <1>4
<1> QED  BY <1>2, <1>7, <1>8, <1>9, RootStays

(* Whose call it is that makes a directory. *)
LEMMA MakesIn ==
    ASSUME ChainInv, NEW p \in Runners, Making(call[p])
    PROVE  LET c == call[p] IN
           /\ c \in [at : {"records", "publish", "unlink"}, chain : Seq(Roots), out : Roots]
           /\ c.out \in Roots /\ root[c.out] \in Checkpoint /\ GoodChain(c.chain) /\ InTheMaking(c)
<1>1. PICK c : c = call[p]
  OBVIOUS
<1>2. c \in StageCalls /\ Making(c) /\ CallSound(c) /\ c # Idle
  BY <1>1 DEF ChainInv, ChainTyped, Making, Idle
<1>3. c \in [at : {"records", "publish", "unlink"}, chain : Seq(Roots), out : Roots]
  BY <1>2 DEF StageCalls, Making
<1>4. GoodChain(c.chain) /\ InTheMaking(c) /\ c.out \in Roots
  BY <1>2, <1>3 DEF CallSound
<1>5. root[c.out] \in Checkpoint
  BY <1>4 DEF InTheMaking, NoDirectory, ChainInv, ChainTyped
<1> QED  BY <1>1, <1>3, <1>4, <1>5

(* A call writes to a directory: what is under a manifest lasts. *)
LEMMA OneDirectoryChanges ==
    ASSUME ChainInv, NEW x \in Roots, NEW d \in Checkpoint, root' = [root EXCEPT ![x] = d],
           Manifested(x) => /\ d.link # "none"
                        /\ d = [root[x] EXCEPT !.link = d.link]
    PROVE  /\ Lasting /\ root' \in [Roots -> Checkpoint \cup {NoDirectory}]
           /\ root'[x] = d /\ \A r \in Roots \ {x} : root'[r] = root[r]
           /\ Manifested(x)' <=> d.link # "none"
           /\ \A r \in Roots \ {x} : Manifested(r)' <=> Manifested(r)
<1>1. root \in [Roots -> Checkpoint \cup {NoDirectory}]
  BY DEF ChainInv, ChainTyped
<1>2. root'[x] = d /\ \A r \in Roots \ {x} : root'[r] = root[r]
  BY <1>1
<1>3. d.link \in {"none", "double", "single"}
  BY DEF Checkpoint
<1>4. (Manifested(x)' <=> d.link # "none") /\ \A r \in Roots \ {x} : Manifested(r)' <=> Manifested(r)
  BY <1>2, <1>3 DEF Manifested
<1>5. Manifested(x) => root[x] \in Checkpoint
  BY <1>1 DEF Manifested, NoDirectory
<1>6. Manifested(x) => /\ d.whole = root[x].whole /\ d.stage = root[x].stage
                   /\ d.predecessor = root[x].predecessor /\ d.execution = root[x].execution
                   /\ d.receipts = root[x].receipts /\ d.from = root[x].from
  BY <1>5 DEF Checkpoint
<1>7. Lasting
  <2> SUFFICES ASSUME NEW r \in Roots, Manifested(r)
               PROVE  /\ Manifested(r)'
                      /\ root'[r].whole = root[r].whole /\ root'[r].stage = root[r].stage
                      /\ root'[r].predecessor = root[r].predecessor
                      /\ root'[r].execution = root[r].execution
                      /\ root'[r].receipts = root[r].receipts /\ root'[r].from = root[r].from
    BY DEF Lasting
  <2>1. CASE r = x
    BY <1>2, <1>4, <1>6, <2>1
  <2>2. CASE r # x
    BY <1>2, <1>4, <2>2
  <2> QED  BY <2>1, <2>2
<1> QED  BY <1>1, <1>2, <1>4, <1>7

(* A directory of its own is made for the next stage. *)
LEMMA StartStageInv ==
    ASSUME ChainInv, NEW p \in Runners, StartStage(p)
    PROVE  ChainInv'
<1>1. PICK b : b = call[p]
  OBVIOUS
<1>2. /\ b.at = "reading" /\ b # Idle /\ b \in StageCalls /\ CallSound(b)
      /\ Continues(b.chain, b.execution)
  BY <1>1 DEF StartStage, ChainInv, ChainTyped, Idle
<1>3. b \in [at : {"reading"}, execution : Executions, machine : Machines, chain : Seq(Roots)]
  BY <1>2 DEF StageCalls, Idle
<1>4. PICK g : g = b.chain
  OBVIOUS
<1>5. PICK r \in Roots :
          /\ root[r] = NoDirectory
          /\ root' = [root EXCEPT ![r] =
                [link |-> "none", whole |-> FALSE, stage |-> Len(g) + 1,
                 execution |-> b.execution, machine |-> b.machine,
                 predecessor |-> IF g = <<>> THEN 0 ELSE Tip(g),
                 from |-> {}, receipts |-> <<>>]]
          /\ call' = [call EXCEPT ![p] = [at |-> "records", chain |-> g, out |-> r]]
  BY <1>1, <1>4 DEF StartStage
<1>6. PICK d : d = [link |-> "none", whole |-> FALSE, stage |-> Len(g) + 1,
                    execution |-> b.execution, machine |-> b.machine,
                    predecessor |-> IF g = <<>> THEN 0 ELSE Tip(g),
                    from |-> {}, receipts |-> <<>>]
  OBVIOUS
<1>7. PICK c : c = [at |-> "records", chain |-> g, out |-> r]
  OBVIOUS
<1>8. GoodChain(g) /\ g \in Seq(Roots) /\ Len(g) \in Nat /\ Len(g) + 1 \in 1..Len(Stages)
      /\ (g # <<>> => Tip(g) \in Roots /\ Manifested(Tip(g)) /\ root[Tip(g)].execution = b.execution)
  BY <1>2, <1>4, GoodLengths, TipLinked DEF CallSound, Continues, GoodChain
<1>9. d \in Checkpoint
  <2>1. <<>> \in Seq([arm : Nat, source : Roots])
    BY EmptySeq
  <2>2. (IF g = <<>> THEN 0 ELSE Tip(g)) \in 0..MaxRoots
    BY <1>8, StagedConstants DEF Roots
  <2> QED  BY <1>3, <1>6, <1>8, <2>1, <2>2 DEF Checkpoint
<1>10. ~Manifested(r)
  BY <1>5 DEF Manifested, NoDirectory
<1>11. root' = [root EXCEPT ![r] = d] /\ d.link = "none"
  BY <1>5, <1>6
<1>12. /\ Lasting /\ root' \in [Roots -> Checkpoint \cup {NoDirectory}]
       /\ root'[r] = d /\ \A s \in Roots \ {r} : root'[s] = root[s]
       /\ ~Manifested(r)' /\ \A s \in Roots \ {r} : Manifested(s)' <=> Manifested(s)
  BY <1>9, <1>10, <1>11, OneDirectoryChanges
<1>13. CallSound(c)'
  <2>1. GoodChain(g)'
    BY <1>8, <1>12, GoodStays
  <2>2. g # <<>> => root'[Tip(g)].execution = b.execution
    BY <1>8, <1>10, <1>12
  <2>3. InTheMaking(c)'
    BY <1>6, <1>7, <1>12, <2>2 DEF InTheMaking
  <2> QED  BY <1>7, <2>1, <2>3 DEF CallSound
<1>14. c \in StageCalls
  BY <1>7, <1>8 DEF StageCalls
<1>15. ChainTyped' /\ call' = [call EXCEPT ![p] = c]
  BY <1>5, <1>7, <1>12, <1>14 DEF ChainInv, ChainTyped
<1>16. ASSUME NEW q \in Runners \ {p}, Making(call[q])
       PROVE  root'[call[q].out] = root[call[q].out] /\ c.out # call[q].out
  <2>1. call[q].out \in Roots /\ InTheMaking(call[q])
    BY <1>16, MakesIn
  <2>2. call[q].out # r
    BY <1>5, <2>1 DEF InTheMaking, NoDirectory
  <2> QED  BY <1>7, <1>12, <2>1, <2>2
<1> QED  BY <1>10, <1>12, <1>13, <1>15, <1>16, OneCallMoves

(* A call that makes a directory writes to it. *)
LEMMA WritesInv ==
    ASSUME ChainInv, NEW p \in Runners, NEW b, b = call[p], Making(b),
           NEW d \in Checkpoint, root' = [root EXCEPT ![b.out] = d],
           Manifested(b.out) => d.link # "none" /\ d = [root[b.out] EXCEPT !.link = d.link],
           NEW c \in StageCalls, call' = [call EXCEPT ![p] = c],
           Making(c) => c.out = b.out,
           Lasting => CallSound(c)',
           Lasting /\ Manifested(b.out)' /\ ~Manifested(b.out) =>
               \E h : Leads(h, b.out)' /\ d.from \subseteq Elements(h) \ {b.out}
    PROVE  ChainInv'
<1>1. b.out \in Roots
  BY MakesIn
<1>2. PICK x : x = b.out
  OBVIOUS
<1>3. /\ Lasting /\ root' \in [Roots -> Checkpoint \cup {NoDirectory}]
      /\ root'[x] = d /\ \A r \in Roots \ {x} : root'[r] = root[r]
      /\ \A r \in Roots \ {x} : Manifested(r)' <=> Manifested(r)
  BY <1>1, <1>2, OneDirectoryChanges
<1>4. ChainTyped'
  BY <1>3 DEF ChainInv, ChainTyped
<1>5. ASSUME NEW q \in Runners \ {p}, Making(call[q])
      PROVE  root'[call[q].out] = root[call[q].out] /\ (Making(c) => c.out # call[q].out)
  <2>1. call[q].out \in Roots
    BY <1>5, MakesIn
  <2>2. call[q].out # x
    BY <1>2, <1>5 DEF ChainInv, OwnDirectory
  <2> QED  BY <1>2, <1>3, <2>1, <2>2
<1>6. \A r \in Roots : Manifested(r)' /\ ~Manifested(r) =>
          \E h : Leads(h, r)' /\ root'[r].from \subseteq Elements(h) \ {r}
  <2> SUFFICES ASSUME NEW r \in Roots, Manifested(r)', ~Manifested(r)
               PROVE  \E h : Leads(h, r)' /\ root'[r].from \subseteq Elements(h) \ {r}
    OBVIOUS
  <2>1. r = x
    BY <1>3
  <2> QED  BY <1>2, <1>3, <2>1
<1> QED  BY <1>3, <1>4, <1>5, <1>6, OneCallMoves

(* A worker hands in its receipt, which names the arms of the chain. *)
LEMMA WorkerReturnsInv ==
    ASSUME ChainInv, NEW p \in Runners, WorkerReturns(p)
    PROVE  ChainInv'
<1>1. PICK b : b = call[p]
  OBVIOUS
<1>2. PICK o : o = root[b.out]
  OBVIOUS
<1>3. b.at = "records" /\ Stages[o.stage] = "metrics" /\ call' = call
  BY <1>1, <1>2 DEF WorkerReturns, StageOf
<1>4. /\ b \in [at : {"records", "publish", "unlink"}, chain : Seq(Roots), out : Roots]
      /\ b.out \in Roots /\ o \in Checkpoint /\ GoodChain(b.chain) /\ InTheMaking(b) /\ Making(b)
  BY <1>1, <1>2, <1>3, MakesIn DEF Making
<1>5. o.link = "none" /\ o.stage = Len(b.chain) + 1
  BY <1>2, <1>3, <1>4 DEF InTheMaking
<1>6. PICK new : new = [arm |-> Len(o.receipts) + 1, source |-> b.chain[IndexOf("arms")]]
  OBVIOUS
<1>7. PICK more : more = Append(o.receipts, new)
  OBVIOUS
<1>8. PICK d : d = [o EXCEPT !.receipts = more]
  OBVIOUS
<1>9. root' = [root EXCEPT ![b.out] = d]
  BY <1>1, <1>2, <1>6, <1>7, <1>8 DEF WorkerReturns
<1>10. o.receipts \in Seq([arm : Nat, source : Roots]) /\ o.stage \in 1..Len(Stages)
  BY <1>4 DEF Checkpoint
<1>11. new \in [arm : Nat, source : Roots]
  <2>1. IndexOf("arms") \in 1..(o.stage - 1)
    BY <1>3, <1>10, ArmsFirst
  <2>2. b.chain[IndexOf("arms")] \in Roots
    BY <1>4, <1>5, <2>1, GoodLengths
  <2>3. Len(o.receipts) \in Nat
    BY <1>10, LenProperties
  <2> QED  BY <1>6, <2>2, <2>3
<1>12. d \in Checkpoint /\ d.link = "none" /\ d.stage = o.stage /\ d.predecessor = o.predecessor
       /\ d.execution = o.execution
  <2>1. more \in Seq([arm : Nat, source : Roots])
    BY <1>7, <1>10, <1>11, AppendProperties
  <2> QED  BY <1>4, <1>5, <1>8, <2>1 DEF Checkpoint
<1>13. ~Manifested(b.out)
  BY <1>2, <1>5 DEF Manifested
<1>14. ~Manifested(b.out)' /\ root'[b.out] = d
  BY <1>4, <1>9, <1>12, <1>13, OneDirectoryChanges
<1>15. ASSUME Lasting
       PROVE  CallSound(b)'
  <2>1. GoodChain(b.chain)'
    BY <1>4, <1>15, GoodStays
  <2>2. b.chain # <<>> => root'[Tip(b.chain)].execution = root[Tip(b.chain)].execution
    BY <1>4, <1>15, TipLinked DEF Lasting
  <2>3. InTheMaking(b)'
    BY <1>2, <1>3, <1>4, <1>12, <1>14, <2>2 DEF InTheMaking
  <2> QED  BY <2>1, <2>3 DEF CallSound
<1>16. b \in StageCalls /\ call' = [call EXCEPT ![p] = b]
  BY <1>1, <1>3, <1>4 DEF StageCalls, ChainInv, ChainTyped
<1> QED  BY <1>1, <1>4, <1>9, <1>12, <1>13, <1>14, <1>15, <1>16, WritesInv

(* The records come from the chain, and the receipts are complete. *)
LEMMA WriteRecordsInv ==
    ASSUME ChainInv, NEW p \in Runners, WriteRecords(p)
    PROVE  ChainInv'
<1>1. PICK b : b = call[p]
  OBVIOUS
<1>2. PICK o : o = root[b.out]
  OBVIOUS
<1>3. PICK from : from = Sources(Stages[o.stage], b.chain)
  OBVIOUS
<1>4. /\ b.at = "records"
      /\ Stages[o.stage] = "metrics" => ReceiptsBound(o.receipts, b.chain[IndexOf("arms")])
      /\ root' = [root EXCEPT ![b.out].whole = TRUE, ![b.out].from = from]
      /\ call' = [call EXCEPT ![p].at = "publish"]
  BY <1>1, <1>2, <1>3 DEF WriteRecords, StageOf
<1>5. /\ b \in [at : {"records", "publish", "unlink"}, chain : Seq(Roots), out : Roots]
      /\ b.out \in Roots /\ o \in Checkpoint /\ GoodChain(b.chain) /\ InTheMaking(b) /\ Making(b)
  BY <1>1, <1>2, <1>4, MakesIn DEF Making
<1>6. o.link = "none"
  BY <1>2, <1>4, <1>5 DEF InTheMaking
<1>7. from \subseteq Elements(b.chain)
  BY <1>3 DEF Sources, Elements
<1>8. from \in SUBSET Roots
  BY <1>5, <1>7, GoodLengths DEF Elements
<1>9. PICK d : d = [o EXCEPT !.whole = TRUE, !.from = from]
  OBVIOUS
<1>10. PICK c : c = [b EXCEPT !.at = "publish"]
  OBVIOUS
<1>11. root' = [root EXCEPT ![b.out] = d] /\ call' = [call EXCEPT ![p] = c]
  <2>1. root \in [Roots -> Checkpoint \cup {NoDirectory}]
    BY DEF ChainInv, ChainTyped
  <2>2. root' = [root EXCEPT ![b.out] = d]
    BY <1>2, <1>4, <1>5, <1>9, <2>1
  <2> QED  BY <1>1, <1>4, <1>10, <2>2
<1>12. /\ d \in Checkpoint /\ d.link = "none" /\ d.stage = o.stage /\ d.predecessor = o.predecessor
       /\ d.execution = o.execution /\ d.whole /\ d.from = from /\ d.receipts = o.receipts
  BY <1>5, <1>6, <1>8, <1>9 DEF Checkpoint
<1>13. c \in StageCalls /\ c.at = "publish" /\ c.chain = b.chain /\ c.out = b.out /\ Making(c)
  BY <1>5, <1>10 DEF StageCalls, Making
<1>14. ~Manifested(b.out)
  BY <1>2, <1>6 DEF Manifested
<1>15. ~Manifested(b.out)' /\ root'[b.out] = d
  BY <1>5, <1>11, <1>12, <1>14, OneDirectoryChanges
<1>16. ASSUME Lasting
       PROVE  CallSound(c)'
  <2>1. GoodChain(b.chain)'
    BY <1>5, <1>16, GoodStays
  <2>2. b.chain # <<>> => root'[Tip(b.chain)].execution = root[Tip(b.chain)].execution
    BY <1>5, <1>16, TipLinked DEF Lasting
  <2>3. /\ d.stage = Len(b.chain) + 1
        /\ d.predecessor = IF b.chain = <<>> THEN 0 ELSE Tip(b.chain)
        /\ b.chain # <<>> => root[Tip(b.chain)].execution = d.execution
    BY <1>2, <1>5, <1>12 DEF InTheMaking
  <2>4. Stages[d.stage] = "metrics" => ReceiptsBound(d.receipts, b.chain[IndexOf("arms")])
    BY <1>4, <1>12
  <2>5. InTheMaking(c)'
    BY <1>7, <1>12, <1>13, <1>15, <2>2, <2>3, <2>4 DEF InTheMaking
  <2> QED  BY <1>13, <2>1, <2>5 DEF CallSound
<1> QED  BY <1>1, <1>5, <1>11, <1>12, <1>13, <1>14, <1>15, <1>16, WritesInv

(* The manifest is the last: with it the directory ends the longer chain. *)
LEMMA ManifestLinkedInv ==
    ASSUME ChainInv, NEW p \in Runners, LinkManifest(p)
    PROVE  ChainInv'
<1>1. PICK b : b = call[p]
  OBVIOUS
<1>2. PICK o : o = root[b.out]
  OBVIOUS
<1>3. /\ b.at = "publish" /\ root' = [root EXCEPT ![b.out].link = "double"]
      /\ call' = [call EXCEPT ![p].at = "unlink"]
  BY <1>1 DEF LinkManifest
<1>4. /\ b \in [at : {"records", "publish", "unlink"}, chain : Seq(Roots), out : Roots]
      /\ b.out \in Roots /\ o \in Checkpoint /\ GoodChain(b.chain) /\ InTheMaking(b) /\ Making(b)
  BY <1>1, <1>2, <1>3, MakesIn DEF Making
<1>5. PICK d : d = [o EXCEPT !.link = "double"]
  OBVIOUS
<1>6. PICK c : c = [b EXCEPT !.at = "unlink"]
  OBVIOUS
<1>7. root' = [root EXCEPT ![b.out] = d] /\ call' = [call EXCEPT ![p] = c]
  BY <1>1, <1>2, <1>3, <1>5, <1>6
<1>8. /\ d \in Checkpoint /\ d.link = "double" /\ d.stage = o.stage /\ d.predecessor = o.predecessor
      /\ d.execution = o.execution /\ d.whole = o.whole /\ d.from = o.from
      /\ d.receipts = o.receipts
  BY <1>4, <1>5 DEF Checkpoint
<1>9. c \in StageCalls /\ c.at = "unlink" /\ c.chain = b.chain /\ c.out = b.out /\ Making(c)
  BY <1>4, <1>6 DEF StageCalls, Making
<1>10. /\ o.link = "none" /\ o.stage = Len(b.chain) + 1
       /\ o.predecessor = IF b.chain = <<>> THEN 0 ELSE Tip(b.chain)
       /\ b.chain # <<>> => root[Tip(b.chain)].execution = o.execution
       /\ o.whole /\ o.from \subseteq Elements(b.chain)
       /\ Stages[o.stage] = "metrics" => ReceiptsBound(o.receipts, b.chain[IndexOf("arms")])
  BY <1>2, <1>3, <1>4 DEF InTheMaking
<1>11. ~Manifested(b.out)
  BY <1>2, <1>10 DEF Manifested
<1>12. root'[b.out] = d /\ Manifested(b.out)'
  <2>1. d.link # "none"
    BY <1>8
  <2> QED  BY <1>4, <1>7, <1>8, <1>11, <2>1, OneDirectoryChanges
<1>13. ASSUME Lasting
       PROVE  /\ GoodChain(b.chain)'
              /\ b.chain # <<>> => root'[Tip(b.chain)].execution = o.execution
  BY <1>4, <1>10, <1>13, GoodStays, TipLinked DEF Lasting
<1>14. ASSUME Lasting
       PROVE  CallSound(c)'
  <2>1. InTheMaking(c)'
    BY <1>8, <1>9, <1>10, <1>12, <1>13, <1>14 DEF InTheMaking
  <2> QED  BY <1>9, <1>13, <1>14, <2>1 DEF CallSound
<1>15. ASSUME Lasting
       PROVE  \E h : Leads(h, b.out)' /\ d.from \subseteq Elements(h) \ {b.out}
  <2>1. PICK g, n, x : g = b.chain /\ n = Len(b.chain) /\ x = b.out
    OBVIOUS
  <2>2. PICK h : h = Append(g, x)
    OBVIOUS
  <2>3. /\ n \in Nat /\ Len(g) = n /\ g \in Seq(Roots) /\ h \in Seq(Roots) /\ Len(h) = n + 1
        /\ h[n + 1] = x /\ \A i \in 1..n : h[i] = g[i]
    BY <1>4, <2>1, <2>2, GoodLengths, AppendProperties DEF GoodChain
  <2>4. h # <<>> /\ Tip(h) = x /\ n + 1 \in 1..Len(Stages)
    BY <1>4, <1>10, <2>1, <2>3, EmptySeq DEF Tip, Checkpoint
  <2>5. root'[x] = d /\ Manifested(x)'
    BY <1>12, <2>1
  <2>6. ASSUME NEW i \in 1..(n + 1), Stages[i] = "metrics"
        PROVE  h[IndexOf("arms")] = g[IndexOf("arms")]
    <3>1. i \in 1..Len(Stages)
      BY <2>3, <2>4
    <3>2. IndexOf("arms") \in 1..(i - 1)
      BY <2>6, <3>1, ArmsFirst
    <3> QED  BY <2>3, <3>2
  <2>7. ASSUME NEW i \in 1..n
        PROVE  i <= Len(Stages) /\ Joined(h, i)'
    <3>1. i <= Len(Stages) /\ Joined(g, i)'
      BY <1>13, <1>15, <2>1, <2>3 DEF GoodChain
    <3>2. h[i] = g[i] /\ (i # 1 => h[i - 1] = g[i - 1])
      BY <2>3
    <3>3. root'[Tip(g)].execution = d.execution
      <4>1. g # <<>>
        BY <2>3, EmptySeq
      <4> QED  BY <1>8, <1>13, <1>15, <2>1, <4>1
    <3> QED  BY <2>3, <2>4, <2>5, <2>6, <3>1, <3>2, <3>3 DEF Joined
  <2>8. Joined(h, n + 1)'
    <3>1. d.predecessor = IF n + 1 = 1 THEN 0 ELSE h[(n + 1) - 1]
      <4>1. CASE n = 0
        <5>1. g = <<>>
          BY <2>3, <4>1, EmptySeq
        <5> QED  BY <1>8, <1>10, <2>1, <4>1, <5>1
      <4>2. CASE n # 0
        <5>1. g # <<>> /\ Tip(g) = g[n] /\ (n + 1) - 1 = n /\ n \in 1..n /\ n + 1 # 1
          BY <2>3, <4>2, EmptySeq DEF Tip
        <5> QED  BY <1>8, <1>10, <2>1, <2>3, <5>1
      <4> QED  BY <4>1, <4>2
    <3>2. n + 1 \in 1..(n + 1) /\ d.stage = n + 1 /\ d.whole
      BY <1>8, <1>10, <2>1, <2>3
    <3>3. Stages[n + 1] = "metrics" => ReceiptsBound(d.receipts, h[IndexOf("arms")])
      BY <1>8, <1>10, <2>1, <2>6, <3>2
    <3> QED  BY <2>3, <2>4, <2>5, <3>1, <3>2, <3>3 DEF Joined
  <2>9. GoodChain(h)'
    <3>1. \A i \in 1..(n + 1) : i <= Len(Stages) /\ Joined(h, i)'
      <4> SUFFICES ASSUME NEW i \in 1..(n + 1)
                   PROVE  i <= Len(Stages) /\ Joined(h, i)'
        OBVIOUS
      <4>1. CASE i = n + 1
        BY <2>4, <2>8, <4>1
      <4>2. CASE i # n + 1
        BY <2>3, <2>7, <4>2
      <4> QED  BY <4>1, <4>2
    <3> QED  BY <2>3, <3>1 DEF GoodChain
  <2>10. d.from \subseteq Elements(h) \ {x}
    <3> SUFFICES ASSUME NEW y \in d.from
                 PROVE  y \in Elements(h) /\ y # x
      OBVIOUS
    <3>1. PICK i \in 1..n : y = g[i]
      BY <1>8, <1>10, <2>1, <2>3 DEF Elements
    <3>2. Manifested(g[i])
      BY <1>4, <2>1, <2>3 DEF GoodChain, Joined
    <3>3. y = h[i] /\ i \in 1..(n + 1)
      BY <2>3, <3>1
    <3> QED  BY <1>11, <2>1, <2>3, <3>1, <3>2, <3>3 DEF Elements
  <2> QED  BY <2>1, <2>4, <2>9, <2>10 DEF Leads
<1> QED  BY <1>1, <1>4, <1>7, <1>8, <1>9, <1>11, <1>14, <1>15, WritesInv

(* The second name goes. *)
LEMMA UnlinkTemporaryInv ==
    ASSUME ChainInv, NEW p \in Runners, UnlinkTemporary(p)
    PROVE  ChainInv'
<1>1. PICK b : b = call[p]
  OBVIOUS
<1>2. PICK o : o = root[b.out]
  OBVIOUS
<1>3. /\ b.at = "unlink" /\ root' = [root EXCEPT ![b.out].link = "single"]
      /\ call' = [call EXCEPT ![p] = Idle]
  BY <1>1 DEF UnlinkTemporary
<1>4. /\ b.out \in Roots /\ o \in Checkpoint /\ InTheMaking(b) /\ Making(b)
  BY <1>1, <1>2, <1>3, MakesIn DEF Making
<1>5. PICK d : d = [o EXCEPT !.link = "single"]
  OBVIOUS
<1>6. d \in Checkpoint /\ d.link = "single"
  BY <1>4, <1>5 DEF Checkpoint
<1>7. root' = [root EXCEPT ![b.out] = d]
  BY <1>2, <1>3, <1>5
<1>8. Manifested(b.out)
  BY <1>3, <1>4 DEF InTheMaking, Manifested
<1>9. PICK c : c = Idle
  OBVIOUS
<1>10. c \in StageCalls /\ ~Making(c) /\ CallSound(c)' /\ call' = [call EXCEPT ![p] = c]
  BY <1>3, <1>9 DEF StageCalls, Making, CallSound, Idle
<1>11. d.link # "none" /\ d = [root[b.out] EXCEPT !.link = d.link]
  BY <1>2, <1>5, <1>6
<1> QED  BY <1>1, <1>4, <1>6, <1>7, <1>8, <1>10, <1>11, WritesInv

(* Every step of the staged run. *)
LEMMA ChainStep == ChainInv /\ [ChainNext]_chainVars => ChainInv'
<1> SUFFICES ASSUME ChainInv, [ChainNext]_chainVars
             PROVE  ChainInv'
  OBVIOUS
<1>1. CASE UNCHANGED chainVars
  <2>1. root' = root /\ call' = call
    BY <1>1 DEF chainVars
  <2>2. Lasting
    BY <2>1 DEF Lasting, Manifested
  <2>3. ChainTyped' /\ OwnDirectory'
    BY <2>1 DEF ChainInv, ChainTyped, OwnDirectory, Making
  <2>4. PublishedLead'
    <3> SUFFICES ASSUME NEW r \in Roots, Manifested(r)
                 PROVE  \E h : Leads(h, r)' /\ root'[r].from \subseteq Elements(h) \ {r}
      BY <2>1 DEF PublishedLead, Manifested
    <3> QED  BY <2>2, LeadStays DEF ChainInv, PublishedLead
  <2>5. \A p \in Runners : CallSound(call[p])'
    <3> SUFFICES ASSUME NEW p \in Runners
                 PROVE  CallSound(call[p])'
      OBVIOUS
    <3>1. PICK c : c = call[p]
      OBVIOUS
    <3>2. CallSound(c)'
      BY <2>1, <2>2, <3>1, SoundCallStays DEF ChainInv
    <3> QED  BY <2>1, <3>1, <3>2
  <2> QED  BY <2>3, <2>4, <2>5 DEF ChainInv
<1>2. ASSUME NEW p \in Runners,
             \/ Refuse(p) \/ StageDeadline(p) \/ WorkerFails(p) \/ StageFails(p) \/ KillRunner(p)
      PROVE  ChainInv'
  BY <1>2, EndsInv DEF Refuse, StageDeadline, WorkerFails, StageFails, KillRunner
<1> QED
  BY <1>1, <1>2, BeginInv, ReadInputInv, StartStageInv, WorkerReturnsInv, WriteRecordsInv,
     ManifestLinkedInv, UnlinkTemporaryInv DEF ChainNext, RunStage

(* No directory is there at first. *)
LEMMA ChainStarts == ChainInit => ChainInv
<1> SUFFICES ASSUME ChainInit PROVE ChainInv
  OBVIOUS
<1>1. (\A r \in Roots : root[r] = NoDirectory) /\ (\A p \in Runners : call[p] = Idle) /\ ChainTyped
  BY DEF ChainInit, ChainTyped, StageCalls
<1>2. \A r \in Roots : ~Manifested(r)
  BY <1>1 DEF Manifested, NoDirectory
<1>3. ASSUME NEW p \in Runners
      PROVE  ~Making(call[p]) /\ CallSound(call[p])
  <2>1. ~Making(Idle) /\ CallSound(Idle)
    BY DEF Making, CallSound, Idle
  <2>2. call[p] = Idle
    BY <1>1
  <2> QED  BY <2>1, <2>2
<1> QED  BY <1>1, <1>2, <1>3 DEF ChainInv, PublishedLead, OwnDirectory

(* Whatever the operators mix under the input root and whichever calls die: a
   checkpoint with a manifest ends a chain that the independent verifier accepts,
   if one machine made it all. *)
THEOREM PublishedAlwaysVerifies == ChainSpec => []PublishedVerifies
<1>1. ASSUME ChainInv
      PROVE  PublishedVerifies
  <2> SUFFICES ASSUME NEW r \in Roots, Manifested(r)
               PROVE  LET chain == ChainOf(r)
                          ancestors == {chain[i] : i \in 1..Len(chain)}
                      IN  /\ root[r].from \subseteq ancestors \ {r}
                          /\ (\A a \in ancestors : root[a].machine = root[r].machine) => Verifies(chain)
    BY DEF PublishedVerifies, Manifested
  <2>1. PICK h : Leads(h, r) /\ root[r].from \subseteq Elements(h) \ {r}
    BY <1>1 DEF ChainInv, PublishedLead
  <2>2. ChainOf(r) = h
    BY <2>1, ChainFound
  <2>3. ASSUME \A a \in Elements(h) : root[a].machine = root[r].machine
        PROVE  Verifies(h)
    <3>1. 1 \in 1..Len(h) /\ \A i \in 1..Len(h) : Joined(h, i) /\ h[i] \in Elements(h)
      BY <2>1, GoodLengths DEF Leads, GoodChain, Elements
    <3>2. \A i \in 1..Len(h) : root[h[i]].machine = root[h[1]].machine
      BY <2>3, <3>1
    <3>3. \A i \in 1..Len(h) : root[h[i]].execution = root[h[1]].execution
      BY <3>1 DEF Joined
    <3> QED  BY <3>1, <3>2, <3>3 DEF Verifies, Joined
  <2> QED  BY <2>1, <2>2, <2>3 DEF Elements
<1> QED  BY <1>1, ChainStarts, ChainStep, PTL DEF ChainSpec
=============================================================================

---------------------------- MODULE ServiceProofs ----------------------------
(***************************************************************************)
(* What is released and served: the run service, the authority of a defence *)
(* and the chain of its files.                                              *)
(***************************************************************************)
EXTENDS RunService, AuthorityProvisioning, DefenseWorkflow, SequenceTheorems, TLAPS
-----------------------------------------------------------------------------
(***************************************************************************)
(* RunService, for any processes, requests, budgets, commits, kills and     *)
(* power losses: a run that was answered can be had from then on.           *)
(*                                                                          *)
(* Why: a key that is published is replaced by a power loss only, and       *)
(* nobody serves with another, so that every run in the index is of the one *)
(* key; the first manifest of an id stays; and a call publishes only when   *)
(* verification has found what the manifest speaks of, syncs the directory  *)
(* of the index before it answers, and takes as synced only what it wrote.  *)
(***************************************************************************)
Working == {"put", "sync", "search", "verify", "publish", "sync index", "view"}
Serving == Working \cup {"up"}
ManifestStored == {"publish", "sync index", "view"}

Places == Serving \cup {"down", "publish key", "sync key"}

Call == [pc : Places, signer : 0..MaxKeys,
         run : Runs \cup {NoRun}, stage : Stages, audits : Nat, wrote : BOOLEAN]

Types ==
    /\ {key, keyDisk} \subseteq 0..MaxKeys
    /\ {head, tree} \subseteq 0..MaxCommits
    /\ proc \in [Processes -> Call]
    /\ losses \in Nat

(* What is on disk is what was published, or a part of it. *)
DiskFollows ==
    /\ keyDisk \in {0, key}
    /\ safe \subseteq DOMAIN stored
    /\ indexDisk \subseteq index

OnePerId == \A r, s \in index : SameId(r, s) => r = s

(* What a call c may rely on, with these artifacts and entries, this key. *)
KeyRead(c, k) ==
    /\ c.pc = "publish key" => c.signer # 0
    /\ c.pc = "sync key" => k # 0
    /\ c.pc \in Serving => k # 0 /\ c.signer = k

HasStored(c, artifacts, synced) ==
    /\ c.pc = "up" => c.stage = "inputs"
    /\ c.pc \in Working => c.run \in Runs /\ c.run.signer = c.signer
    /\ c.pc = "sync" => Artifact(c.stage, c.run) \in artifacts
    /\ c.pc \in Working /\ c.stage = "manifest" =>
          {Artifact("inputs", c.run), Artifact("outputs", c.run)} \subseteq artifacts
    /\ c.pc \in ManifestStored =>
          /\ c.stage = "manifest"
          /\ Artifacts(c.run) \subseteq artifacts
          /\ c.wrote => Artifacts(c.run) \subseteq synced

HasPublished(c, entries) == c.pc = "view" => c.run \in entries

Calls ==
    \A p \in Processes :
        /\ KeyRead(proc[p], key)
        /\ HasStored(proc[p], DOMAIN stored, safe)
        /\ HasPublished(proc[p], indexDisk)

(* A run can be had from these entries and artifacts, with this key. *)
Held(r, entries, artifacts, k) ==
    r \in entries /\ Artifacts(r) \subseteq artifacts /\ k # 0 /\ k = r.signer

Answers ==
    /\ losses = 0 => \A r \in answered : Held(r, index, DOMAIN stored, key)
    /\ \A r \in durable : Held(r, indexDisk, safe, keyDisk)

IInv == Types /\ DiskFollows /\ OnePerId /\ Calls /\ Answers

-----------------------------------------------------------------------------
(* What a call relies on stays while keys are not replaced and nothing is lost. *)
LEMMA KeyStays ==
    ASSUME NEW c, NEW k, NEW l, KeyRead(c, k), k # 0 => l = k
    PROVE  KeyRead(c, l)
BY DEF KeyRead

LEMMA StoredStays ==
    ASSUME NEW c, NEW A, NEW B, NEW S, NEW T, HasStored(c, A, S), A \subseteq B, S \subseteq T
    PROVE  HasStored(c, B, T)
BY DEF HasStored

LEMMA PublishedStays ==
    ASSUME NEW c, NEW E, NEW F, HasPublished(c, E), E \subseteq F
    PROVE  HasPublished(c, F)
BY DEF HasPublished

LEMMA HeldStays ==
    ASSUME NEW r, NEW E, NEW F, NEW A, NEW B, NEW k, NEW l, Held(r, E, A, k),
           E \subseteq F, A \subseteq B, k # 0 => l = k
    PROVE  Held(r, F, B, l)
BY DEF Held

(* The three artifacts are all there is. *)
LEMMA AllStored ==
    ASSUME NEW r, NEW A, \A s \in Stages : Artifact(s, r) \in A
    PROVE  Artifacts(r) \subseteq A
BY DEF Artifacts

LEMMA DownRelies ==
    ASSUME NEW k, NEW A, NEW S, NEW E
    PROVE  KeyRead(Down, k) /\ HasStored(Down, A, S) /\ HasPublished(Down, E)
BY DEF Down, Ready, KeyRead, HasStored, HasPublished, Serving, Working, ManifestStored

LEMMA ReadyRelies ==
    ASSUME NEW k, k # 0, NEW A, NEW S, NEW E
    PROVE  KeyRead(Ready(k), k) /\ HasStored(Ready(k), A, S) /\ HasPublished(Ready(k), E)
BY DEF Ready, KeyRead, HasStored, HasPublished, Serving, Working, ManifestStored

LEMMA Bounds == MaxKeys \in Nat /\ MaxCommits \in Nat
BY RunConstants

LEMMA ReadyCall == ASSUME NEW k \in 0..MaxKeys PROVE Ready(k) \in Call
BY DEF Ready, Call, Stages, Places, Serving

LEMMA CallAt == ASSUME NEW c \in Call, NEW x \in Places PROVE [c EXCEPT !.pc = x] \in Call
BY DEF Call

LEMMA DownCall == Down \in Call
<1>1. 0 \in 0..MaxKeys /\ "down" \in Places
  BY Bounds DEF Places
<1>2. Ready(0) \in Call
  BY <1>1, ReadyCall
<1> QED
  BY <1>1, <1>2, CallAt DEF Down

LEMMA InitInv == Init => IInv
<1> SUFFICES ASSUME Init PROVE IInv
  OBVIOUS
<1>1. {0} \subseteq 0..MaxKeys /\ {0} \subseteq 0..MaxCommits
  BY Bounds
<1>2. Types
  BY <1>1, DownCall DEF Init, Types
<1>3. Calls
  BY DownRelies DEF Init, Calls
<1> QED
  BY <1>2, <1>3 DEF Init, IInv, DiskFollows, OnePerId, Answers
-----------------------------------------------------------------------------
(* A step that replaces no key and loses nothing keeps what every call but
   p's relies on, and every answer. *)
Keeps ==
    /\ key # 0 => key' = key
    /\ keyDisk # 0 => keyDisk' = keyDisk
    /\ DOMAIN stored \subseteq DOMAIN stored' /\ safe \subseteq safe'
    /\ index \subseteq index' /\ indexDisk \subseteq indexDisk'
    /\ losses' = losses

Relies(p) ==
    /\ KeyRead(proc[p], key)
    /\ HasStored(proc[p], DOMAIN stored, safe)
    /\ HasPublished(proc[p], indexDisk)

LEMMA OthersRely ==
    ASSUME IInv, Keeps, NEW q \in Processes, proc'[q] = proc[q]
    PROVE  Relies(q)'
<1>1. KeyRead(proc[q], key) /\ HasStored(proc[q], DOMAIN stored, safe)
      /\ HasPublished(proc[q], indexDisk)
  BY DEF IInv, Calls
<1>2. KeyRead(proc[q], key')
  BY <1>1, KeyStays DEF Keeps
<1>3. HasStored(proc[q], DOMAIN stored', safe')
  BY <1>1, StoredStays DEF Keeps
<1>4. HasPublished(proc[q], indexDisk')
  BY <1>1, PublishedStays DEF Keeps
<1> QED
  BY <1>2, <1>3, <1>4 DEF Relies

LEMMA AnswersStay ==
    ASSUME IInv, Keeps, UNCHANGED answerVars
    PROVE  Answers'
<1>1. \A r : Held(r, index, DOMAIN stored, key) => Held(r, index', DOMAIN stored', key')
  BY HeldStays DEF Keeps
<1>2. \A r : Held(r, indexDisk, safe, keyDisk) => Held(r, indexDisk', safe', keyDisk')
  BY HeldStays DEF Keeps
<1> QED
  BY <1>1, <1>2 DEF IInv, Answers, Keeps, answerVars

(* What is to be shown of a step of p that publishes no run. *)
LEMMA OneRelies ==
    ASSUME IInv, Keeps, NEW p \in Processes, NEW c \in Call, proc' = [proc EXCEPT ![p] = c],
           key' \in 0..MaxKeys, UNCHANGED sourceVars,
           keyDisk' \in {0, key'}, safe' \subseteq DOMAIN stored',
           indexDisk' \subseteq index', OnePerId',
           KeyRead(c, key'), HasStored(c, DOMAIN stored', safe'), HasPublished(c, indexDisk'),
           Answers'
    PROVE  IInv'
<1>1. Types'
  BY DEF IInv, Types, Keeps, sourceVars
<1>2. DiskFollows'
  BY DEF DiskFollows
<1>3. Calls'
  <2> SUFFICES ASSUME NEW q \in Processes PROVE Relies(q)'
    BY DEF Calls, Relies
  <2>1. CASE q = p
    <3>1. proc'[q] = c
      BY <2>1 DEF IInv, Types
    <3> QED
      BY <3>1 DEF Relies
  <2>2. CASE q # p
    <3>1. proc'[q] = proc[q]
      BY <2>2 DEF IInv, Types
    <3> QED
      BY <3>1, OthersRely
  <2> QED
    BY <2>1, <2>2
<1> QED
  BY <1>1, <1>2, <1>3 DEF IInv

-----------------------------------------------------------------------------
(* A step of p that changes nothing but its call. *)
LEMMA OnlyCall ==
    ASSUME IInv, NEW p \in Processes, NEW c \in Call, proc' = [proc EXCEPT ![p] = c],
           UNCHANGED <<keyVars, sourceVars, artifactVars, indexVars, answerVars, boundVars>>,
           KeyRead(c, key), HasStored(c, DOMAIN stored, safe), HasPublished(c, indexDisk)
    PROVE  IInv'
<1>1. Keeps /\ UNCHANGED <<answerVars, sourceVars>>
  BY DEF Keeps, keyVars, artifactVars, indexVars, boundVars
<1>2. Answers'
  BY <1>1, AnswersStay
<1>3. UNCHANGED <<key, keyDisk, stored, safe, index, indexDisk>>
  BY DEF keyVars, artifactVars, indexVars
<1>4. OnePerId'
  BY <1>3 DEF IInv, OnePerId
<1>5. /\ key' \in 0..MaxKeys /\ keyDisk' \in {0, key'}
      /\ safe' \subseteq DOMAIN stored' /\ indexDisk' \subseteq index'
  BY <1>3 DEF IInv, Types, DiskFollows
<1>6. KeyRead(c, key') /\ HasStored(c, DOMAIN stored', safe') /\ HasPublished(c, indexDisk')
  BY <1>3
<1> QED
  BY <1>1, <1>2, <1>4, <1>5, <1>6, OneRelies

LEMMA CallTyped ==
    ASSUME IInv, NEW p \in Processes
    PROVE  /\ proc[p] \in Call
           /\ Relies(p)
BY DEF IInv, Types, Calls, Relies

LEMMA ReadKeyStep == ASSUME IInv, NEW p \in Processes, ReadKey(p) PROVE IInv'
<1>1. Ready(key) \in Call
  BY ReadyCall DEF IInv, Types
<1> QED
  BY <1>1, ReadyRelies, OnlyCall DEF ReadKey

LEMMA GenerateKeyStep == ASSUME IInv, NEW p \in Processes, GenerateKey(p) PROVE IInv'
<1>1. PICK k \in 1..MaxKeys : proc' = [proc EXCEPT ![p] = [Ready(k) EXCEPT !.pc = "publish key"]]
  BY DEF GenerateKey
<1> DEFINE c == [Ready(k) EXCEPT !.pc = "publish key"]
<1>2. c \in Call
  <2>1. k \in 0..MaxKeys /\ "publish key" \in Places
    BY Bounds DEF Places
  <2>2. Ready(k) \in Call
    BY <2>1, ReadyCall
  <2> QED
    BY <2>1, <2>2, CallAt
<1>3. KeyRead(c, key) /\ HasStored(c, DOMAIN stored, safe) /\ HasPublished(c, indexDisk)
  BY DEF Ready, KeyRead, HasStored, HasPublished, Serving, Working, ManifestStored
<1>4. proc' = [proc EXCEPT ![p] = c]
  BY <1>1
<1> HIDE DEF c
<1> QED
  BY <1>2, <1>3, <1>4, OnlyCall DEF GenerateKey

LEMMA ExecuteStep ==
    ASSUME IInv, NEW p \in Processes, NEW r \in Requests, Execute(p, r) PROVE IInv'
<1> DEFINE c == [proc[p] EXCEPT !.pc = "put",
                     !.run = [request |-> r, signer |-> proc[p].signer, head |-> head, tree |-> tree]]
<1>1. proc[p] \in Call /\ Relies(p) /\ proc[p].pc = "up"
  BY CallTyped DEF Execute, At
<1>2. proc' = [proc EXCEPT ![p] = c]
  BY DEF Execute
<1>3. key # 0 /\ proc[p].signer = key
  BY <1>1 DEF Relies, KeyRead, Serving
<1>4. [request |-> r, signer |-> proc[p].signer, head |-> head, tree |-> tree] \in Runs
  BY <1>3 DEF IInv, Types, Runs
<1>5. c \in Call
  BY <1>1, <1>4 DEF Call, Places, Serving, Working
<1>6. KeyRead(c, key)
  BY <1>1, <1>3 DEF KeyRead, Call
<1>7. HasStored(c, DOMAIN stored, safe) /\ HasPublished(c, indexDisk)
  BY <1>1, <1>4 DEF Relies, HasStored, HasPublished, Call, ManifestStored
<1> HIDE DEF c
<1> QED
  BY <1>2, <1>5, <1>6, <1>7, OnlyCall DEF Execute

(* A call with a run that went on without losing what it relies on. *)
LEMMA CallMoves ==
    ASSUME IInv, NEW p \in Processes, NEW c \in Call,
           UNCHANGED <<keyVars, sourceVars, artifactVars, indexVars, answerVars, boundVars>>,
           proc' = [proc EXCEPT ![p] = c], proc[p].pc \in Serving,
           c.pc \in Serving, c.signer = proc[p].signer, c.pc # "view",
           HasStored(c, DOMAIN stored, safe)
    PROVE  IInv'
<1>1. KeyRead(c, key)
  BY CallTyped DEF Relies, KeyRead, Serving, Working
<1>2. HasPublished(c, indexDisk)
  BY DEF HasPublished
<1> QED
  BY <1>1, <1>2, OnlyCall

LEMMA ReturnStep ==
    ASSUME IInv, NEW p \in Processes, Return(p), proc[p].pc \in Serving,
           UNCHANGED <<keyVars, sourceVars, artifactVars, indexVars, answerVars, boundVars>>
    PROVE  IInv'
<1>1. proc[p].signer = key /\ key # 0
  BY CallTyped DEF Relies, KeyRead
<1>2. Ready(key) \in Call
  BY ReadyCall DEF IInv, Types
<1> QED
  BY <1>1, <1>2, ReadyRelies, OnlyCall DEF Return

(* What PutDone leaves: the artifact is there, synced if this call wrote it. *)
PutOf(c, wrote) == [c EXCEPT !.pc = AfterPut[c.stage], !.wrote = wrote]

LEMMA PutRelies ==
    ASSUME NEW c \in Call, NEW A, NEW S, HasStored(c, A, S), c.pc \in Working,
           Artifact(c.stage, c.run) \in A, NEW w \in BOOLEAN, w => A \subseteq S
    PROVE  /\ PutOf(c, w) \in Call
           /\ PutOf(c, w).pc \in Working \ {"view"}
           /\ PutOf(c, w).signer = c.signer
           /\ HasStored(PutOf(c, w), A, S)
<1> DEFINE d == PutOf(c, w)
<1>1. AfterPut[c.stage] \in {"search", "verify", "publish"}
      /\ (AfterPut[c.stage] = "publish" => c.stage = "manifest")
  BY DEF Call, Stages, AfterPut
<1>2. d \in Call
  BY <1>1 DEF Call, Places, Serving, Working, PutOf
<1>3. d.pc = AfterPut[c.stage] /\ d.run = c.run /\ d.stage = c.stage /\ d.signer = c.signer
      /\ d.wrote = w
  BY DEF PutOf, Call
<1>4. d.pc \in Working \ {"view"}
  BY <1>1, <1>3 DEF Working
<1>5. c.stage = "manifest" => Artifacts(c.run) \subseteq A
  <2> SUFFICES ASSUME c.stage = "manifest" PROVE \A s \in Stages : Artifact(s, c.run) \in A
    BY AllStored
  <2> QED
    BY DEF HasStored, Stages
<1> HIDE DEF d
<1>6. HasStored(d, A, S)
  BY <1>1, <1>3, <1>5 DEF HasStored, ManifestStored
<1> QED
  BY <1>2, <1>3, <1>4, <1>6 DEF d

LEMMA PutFoundStep == ASSUME IInv, NEW p \in Processes, PutFound(p) PROVE IInv'
<1>1. proc[p] \in Call /\ Relies(p) /\ proc[p].pc = "put"
  BY CallTyped DEF PutFound, At
<1>2. Payload(p) \in DOMAIN stored
  BY DEF PutFound
<1>3. /\ PutOf(proc[p], FALSE) \in Call
      /\ PutOf(proc[p], FALSE).pc \in Working \ {"view"}
      /\ PutOf(proc[p], FALSE).signer = proc[p].signer
      /\ HasStored(PutOf(proc[p], FALSE), DOMAIN stored, safe)
  BY <1>1, <1>2, PutRelies DEF Payload, Relies, Working
<1>4. proc' = [proc EXCEPT ![p] = PutOf(proc[p], FALSE)]
  BY DEF PutFound, PutDone, PutOf
<1> QED
  BY <1>1, <1>3, <1>4, CallMoves DEF PutFound, Serving, Working

(* The store grows by an artifact, or all that is in it is synced. *)
LEMMA StoreGrows ==
    ASSUME IInv, NEW p \in Processes, NEW c \in Call,
           DOMAIN stored \subseteq DOMAIN stored', safe \subseteq safe', safe' \subseteq DOMAIN stored',
           UNCHANGED <<keyVars, sourceVars, indexVars, answerVars, boundVars>>,
           proc' = [proc EXCEPT ![p] = c], proc[p].pc \in Serving,
           c.pc \in Serving, c.signer = proc[p].signer, c.pc # "view",
           HasStored(c, DOMAIN stored', safe')
    PROVE  IInv'
<1>1. KeyRead(c, key)
  BY CallTyped DEF Relies, KeyRead, Serving, Working
<1>2. HasPublished(c, indexDisk')
  BY DEF HasPublished
<1>3. UNCHANGED <<key, keyDisk, index, indexDisk, answerVars, sourceVars, losses>>
  BY DEF keyVars, indexVars, boundVars
<1>4. Keeps
  BY <1>3 DEF Keeps
<1>5. Answers'
  BY <1>3, <1>4, AnswersStay
<1>6. OnePerId'
  BY <1>3 DEF IInv, OnePerId
<1>7. key' \in 0..MaxKeys /\ keyDisk' \in {0, key'} /\ indexDisk' \subseteq index'
  BY <1>3 DEF IInv, Types, DiskFollows
<1>8. KeyRead(c, key')
  BY <1>1, <1>3
<1> QED
  BY <1>2, <1>3, <1>4, <1>5, <1>6, <1>7, <1>8, OneRelies

LEMMA PutNewStep == ASSUME IInv, NEW p \in Processes, PutNew(p) PROVE IInv'
<1> DEFINE c == [proc[p] EXCEPT !.pc = "sync"]
<1>1. proc[p] \in Call /\ Relies(p) /\ proc[p].pc = "put"
  BY CallTyped DEF PutNew, At
<1>2. proc' = [proc EXCEPT ![p] = c]
  BY DEF PutNew, Goto
<1>3. DOMAIN stored' = DOMAIN stored \cup {Payload(p)} /\ safe' = safe
  BY DEF PutNew, Store!Add
<1>4. c \in Call
  BY <1>1, CallAt DEF Places, Serving, Working
<1>5. c.pc = "sync" /\ c.signer = proc[p].signer /\ c.run = proc[p].run /\ c.stage = proc[p].stage
  BY <1>1 DEF Call
<1> HIDE DEF c
<1>6. HasStored(proc[p], DOMAIN stored', safe')
  BY <1>1, <1>3, StoredStays DEF Relies
<1>7. HasStored(c, DOMAIN stored', safe')
  BY <1>1, <1>3, <1>5, <1>6 DEF HasStored, Payload, Working, ManifestStored
<1>8. DOMAIN stored \subseteq DOMAIN stored' /\ safe \subseteq safe' /\ safe' \subseteq DOMAIN stored'
  BY <1>3 DEF IInv, DiskFollows
<1>9. proc[p].pc \in Serving /\ c.pc \in Serving /\ c.pc # "view"
  BY <1>1, <1>5 DEF Serving, Working
<1> QED
  BY <1>2, <1>4, <1>5, <1>7, <1>8, <1>9, StoreGrows DEF PutNew

LEMMA PutSyncStep == ASSUME IInv, NEW p \in Processes, PutSync(p) PROVE IInv'
<1> DEFINE c == PutOf(proc[p], TRUE)
<1>1. proc[p] \in Call /\ Relies(p) /\ proc[p].pc = "sync"
  BY CallTyped DEF PutSync, At
<1>2. proc' = [proc EXCEPT ![p] = c]
  BY DEF PutSync, PutDone, PutOf
<1>3. stored' = stored /\ safe' = DOMAIN stored /\ safe \subseteq DOMAIN stored
  BY DEF PutSync, Store!Secure, IInv, DiskFollows
<1>4. Artifact(proc[p].stage, proc[p].run) \in DOMAIN stored
  BY <1>1 DEF Relies, HasStored
<1>5. HasStored(proc[p], DOMAIN stored, DOMAIN stored)
  BY <1>1, <1>3, StoredStays DEF Relies
<1>6. /\ c \in Call /\ c.pc \in Working \ {"view"} /\ c.signer = proc[p].signer
      /\ HasStored(c, DOMAIN stored, DOMAIN stored)
  BY <1>1, <1>4, <1>5, PutRelies DEF Working
<1> HIDE DEF c
<1>7. HasStored(c, DOMAIN stored', safe')
  BY <1>3, <1>6
<1>8. proc[p].pc \in Serving /\ c.pc \in Serving /\ c.pc # "view"
  BY <1>1, <1>6 DEF Serving, Working
<1>9. DOMAIN stored \subseteq DOMAIN stored' /\ safe \subseteq safe' /\ safe' \subseteq DOMAIN stored'
  BY <1>3
<1> QED
  BY <1>2, <1>6, <1>7, <1>8, <1>9, StoreGrows DEF PutSync

LEMMA ProposeStep == ASSUME IInv, NEW p \in Processes, Propose(p) PROVE IInv'
<1> DEFINE c == [proc[p] EXCEPT !.audits = @ + 1]
<1>1. proc[p] \in Call /\ Relies(p) /\ proc[p].pc = "search"
  BY CallTyped DEF Propose, At
<1>2. proc' = [proc EXCEPT ![p] = c]
  BY DEF Propose
<1>3. c \in Call /\ c.pc = "search" /\ c.signer = proc[p].signer
      /\ c.run = proc[p].run /\ c.stage = proc[p].stage
  BY <1>1 DEF Call
<1> HIDE DEF c
<1>4. HasStored(c, DOMAIN stored, safe)
  BY <1>1, <1>3 DEF Relies, HasStored, Working, ManifestStored
<1>5. "search" \in Serving
  BY DEF Serving, Working
<1> QED
  BY <1>1, <1>2, <1>3, <1>4, <1>5, CallMoves DEF Propose

LEMMA CompleteStep == ASSUME IInv, NEW p \in Processes, Complete(p) PROVE IInv'
<1> DEFINE c == [proc[p] EXCEPT !.pc = "put", !.stage = "outputs"]
<1>1. proc[p] \in Call /\ Relies(p) /\ proc[p].pc = "search"
  BY CallTyped DEF Complete, At
<1>2. proc' = [proc EXCEPT ![p] = c]
  BY DEF Complete
<1>3. c \in Call /\ c.pc = "put" /\ c.signer = proc[p].signer
      /\ c.run = proc[p].run /\ c.stage = "outputs"
  BY <1>1 DEF Call, Places, Serving, Working, Stages
<1> HIDE DEF c
<1>4. HasStored(c, DOMAIN stored, safe)
  BY <1>1, <1>3 DEF Relies, HasStored, Working, ManifestStored
<1>5. {"search", "put"} \subseteq Serving
  BY DEF Serving, Working
<1> QED
  BY <1>1, <1>2, <1>3, <1>4, <1>5, CallMoves DEF Complete

LEMMA VerifyStep == ASSUME IInv, NEW p \in Processes, Verify(p) PROVE IInv'
<1> DEFINE c == [proc[p] EXCEPT !.pc = "put", !.stage = "manifest"]
<1>1. proc[p] \in Call /\ Relies(p) /\ proc[p].pc = "verify"
  BY CallTyped DEF Verify, At
<1>2. {"verify", "put"} \subseteq Serving
  BY DEF Serving, Working
<1>3. CASE ~Verified(p)
  BY <1>1, <1>2, <1>3, ReturnStep DEF Verify
<1>4. CASE Verified(p)
  <2>1. proc' = [proc EXCEPT ![p] = c]
    BY <1>4 DEF Verify
  <2>2. c \in Call /\ c.pc = "put" /\ c.signer = proc[p].signer
        /\ c.run = proc[p].run /\ c.stage = "manifest"
    BY <1>1 DEF Call, Places, Serving, Working, Stages
  <2> HIDE DEF c
  <2>3. {Artifact("inputs", c.run), Artifact("outputs", c.run)} \subseteq DOMAIN stored
    BY <1>4, <2>2 DEF Verified
  <2>4. HasStored(c, DOMAIN stored, safe)
    BY <1>1, <2>2, <2>3 DEF Relies, HasStored, Working, ManifestStored
  <2> QED
    BY <1>1, <1>2, <2>1, <2>2, <2>4, CallMoves DEF Verify
<1> QED
  BY <1>3, <1>4
-----------------------------------------------------------------------------
(* The index grows: the entry of the call's id is the first. *)
LEMMA PublishStep == ASSUME IInv, NEW p \in Processes, Publish(p) PROVE IInv'
<1> DEFINE c == [proc[p] EXCEPT !.pc = "sync index"]
<1>1. proc[p] \in Call /\ Relies(p) /\ proc[p].pc = "publish"
  BY CallTyped DEF Publish, At
<1>2. proc' = [proc EXCEPT ![p] = c]
  BY DEF Publish, Goto
<1>3. c \in Call
  BY <1>1, CallAt DEF Places, Serving, Working
<1>4. c.pc = "sync index" /\ c.signer = proc[p].signer /\ c.run = proc[p].run
      /\ c.stage = proc[p].stage /\ c.wrote = proc[p].wrote
  BY <1>1 DEF Call
<1> HIDE DEF c
<1>5. UNCHANGED <<key, keyDisk, stored, safe, indexDisk, losses>>
      /\ UNCHANGED <<sourceVars, answerVars>>
  BY DEF Publish, keyVars, artifactVars, boundVars
<1>6. index \subseteq index' /\ indexDisk' \subseteq index'
  BY <1>5 DEF Publish, IInv, DiskFollows
<1>7. OnePerId'
  <2>1. \A r \in index' : r \in index \/ (r = proc[p].run /\ Taken(r) = {})
    BY DEF Publish
  <2> SUFFICES ASSUME NEW r \in index', NEW s \in index', SameId(r, s) PROVE r = s
    BY DEF OnePerId, SameId
  <2> QED
    BY <2>1 DEF IInv, OnePerId, Taken, SameId
<1>8. Keeps
  BY <1>5, <1>6 DEF Keeps
<1>9. Answers'
  BY <1>5, <1>8, AnswersStay
<1>10. KeyRead(c, key')
  BY <1>1, <1>4, <1>5 DEF Relies, KeyRead, Serving, Working
<1>11. HasStored(c, DOMAIN stored', safe')
  BY <1>1, <1>4, <1>5 DEF Relies, HasStored, Working, ManifestStored
<1>12. HasPublished(c, indexDisk')
  BY <1>4 DEF HasPublished
<1>13. key' \in 0..MaxKeys /\ keyDisk' \in {0, key'} /\ safe' \subseteq DOMAIN stored'
  BY <1>5 DEF IInv, Types, DiskFollows
<1> QED
  BY <1>2, <1>3, <1>5, <1>6, <1>7, <1>8, <1>9, <1>10, <1>11, <1>12, <1>13, OneRelies

LEMMA SyncIndexStep == ASSUME IInv, NEW p \in Processes, SyncIndex(p) PROVE IInv'
<1>1. proc[p] \in Call /\ Relies(p) /\ proc[p].pc = "sync index"
  BY CallTyped DEF SyncIndex, At
<1>2. UNCHANGED <<key, keyDisk, stored, safe, index, losses>> /\ indexDisk' = index
      /\ UNCHANGED <<sourceVars, answerVars>>
  BY DEF SyncIndex, keyVars, artifactVars, boundVars
<1>3. Keeps
  BY <1>2 DEF Keeps, IInv, DiskFollows
<1>4. Answers'
  BY <1>2, <1>3, AnswersStay
<1>5. OnePerId'
  BY <1>2 DEF IInv, OnePerId
<1>6. key' \in 0..MaxKeys /\ keyDisk' \in {0, key'} /\ safe' \subseteq DOMAIN stored'
      /\ indexDisk' \subseteq index'
  BY <1>2 DEF IInv, Types, DiskFollows
<1>7. proc[p].signer = key /\ key # 0
  BY <1>1 DEF Relies, KeyRead, Serving, Working
<1>8. CASE proc[p].run \in index
  <2> DEFINE c == [proc[p] EXCEPT !.pc = "view"]
  <2>1. proc' = [proc EXCEPT ![p] = c]
    BY <1>8 DEF SyncIndex, Goto
  <2>2. c \in Call
    BY <1>1, CallAt DEF Places, Serving, Working
  <2>3. c.pc = "view" /\ c.signer = proc[p].signer /\ c.run = proc[p].run
        /\ c.stage = proc[p].stage /\ c.wrote = proc[p].wrote
    BY <1>1 DEF Call
  <2> HIDE DEF c
  <2>4. KeyRead(c, key')
    BY <1>2, <1>7, <2>3 DEF KeyRead
  <2>5. HasStored(c, DOMAIN stored', safe')
    BY <1>1, <1>2, <2>3 DEF Relies, HasStored, Working, ManifestStored
  <2>6. HasPublished(c, indexDisk')
    BY <1>2, <1>8, <2>3 DEF HasPublished
  <2> QED
    BY <1>2, <1>3, <1>4, <1>5, <1>6, <2>1, <2>2, <2>4, <2>5, <2>6, OneRelies
<1>9. CASE proc[p].run \notin index
  <2>1. proc' = [proc EXCEPT ![p] = Ready(key)]
    BY <1>7, <1>9 DEF SyncIndex, Return
  <2>2. Ready(key) \in Call
    BY ReadyCall DEF IInv, Types
  <2>3. /\ KeyRead(Ready(key), key') /\ HasStored(Ready(key), DOMAIN stored', safe')
        /\ HasPublished(Ready(key), indexDisk')
    BY <1>2, <1>7, ReadyRelies
  <2> QED
    BY <1>2, <1>3, <1>4, <1>5, <1>6, <2>1, <2>2, <2>3, OneRelies
<1> QED
  BY <1>8, <1>9

LEMMA ViewStep == ASSUME IInv, NEW p \in Processes, View(p) PROVE IInv'
<1> DEFINE r == proc[p].run
<1>1. proc[p] \in Call /\ Relies(p) /\ proc[p].pc = "view"
  BY CallTyped DEF View, At
<1>2. UNCHANGED <<key, keyDisk, stored, safe, index, indexDisk, losses>> /\ UNCHANGED sourceVars
  BY DEF View, keyVars, artifactVars, indexVars, boundVars
<1>3. proc[p].signer = key /\ key # 0
  BY <1>1 DEF Relies, KeyRead, Serving, Working
<1>4. r.signer = key /\ r \in indexDisk /\ r \in index /\ Artifacts(r) \subseteq DOMAIN stored
      /\ (proc[p].wrote => Artifacts(r) \subseteq safe)
  BY <1>1, <1>3 DEF Relies, HasStored, HasPublished, Working, ManifestStored, IInv, DiskFollows
<1>5. Held(r, index, DOMAIN stored, key)
  BY <1>3, <1>4 DEF Held
<1>6. proc[p].wrote /\ keyDisk = r.signer => Held(r, indexDisk, safe, keyDisk)
  BY <1>3, <1>4 DEF Held
<1>7. answered' \subseteq answered \cup {r}
      /\ \A s \in durable' : s \in durable \/ (s = r /\ proc[p].wrote /\ keyDisk = r.signer)
  BY DEF View
<1>8. Answers'
  BY <1>2, <1>5, <1>6, <1>7 DEF Answers, IInv
<1>9. Keeps
  BY <1>2 DEF Keeps
<1>10. OnePerId'
  BY <1>2 DEF IInv, OnePerId
<1>11. key' \in 0..MaxKeys /\ keyDisk' \in {0, key'} /\ safe' \subseteq DOMAIN stored'
       /\ indexDisk' \subseteq index'
  BY <1>2 DEF IInv, Types, DiskFollows
<1>12. proc' = [proc EXCEPT ![p] = Ready(key)]
  BY <1>3 DEF View, Return
<1>13. Ready(key) \in Call
  BY ReadyCall DEF IInv, Types
<1>14. /\ KeyRead(Ready(key), key') /\ HasStored(Ready(key), DOMAIN stored', safe')
       /\ HasPublished(Ready(key), indexDisk')
  BY <1>2, <1>3, ReadyRelies
<1> QED
  BY <1>2, <1>8, <1>9, <1>10, <1>11, <1>12, <1>13, <1>14, OneRelies

-----------------------------------------------------------------------------
(* The key: the first that is published stays, and is what everybody reads. *)
LEMMA PublishKeyStep == ASSUME IInv, NEW p \in Processes, PublishKey(p) PROVE IInv'
<1> DEFINE c == [proc[p] EXCEPT !.pc = "sync key"]
<1>1. proc[p] \in Call /\ Relies(p) /\ proc[p].pc = "publish key"
  BY CallTyped DEF PublishKey, At
<1>2. proc' = [proc EXCEPT ![p] = c]
  BY DEF PublishKey, Goto
<1>3. c \in Call /\ c.pc = "sync key"
  BY <1>1, CallAt DEF Places, Call
<1> HIDE DEF c
<1>4. UNCHANGED <<keyDisk, stored, safe, index, indexDisk, losses>>
      /\ UNCHANGED <<sourceVars, answerVars>>
  BY DEF PublishKey, artifactVars, indexVars, boundVars
<1>5. key' # 0 /\ key' \in 0..MaxKeys /\ (key # 0 => key' = key)
  BY <1>1 DEF PublishKey, Relies, KeyRead, Call, IInv, Types
<1>6. Keeps
  BY <1>4, <1>5 DEF Keeps
<1>7. Answers'
  BY <1>4, <1>6, AnswersStay
<1>8. OnePerId'
  BY <1>4 DEF IInv, OnePerId
<1>9. keyDisk' \in {0, key'} /\ safe' \subseteq DOMAIN stored' /\ indexDisk' \subseteq index'
  BY <1>4, <1>5 DEF IInv, DiskFollows
<1>10. /\ KeyRead(c, key') /\ HasStored(c, DOMAIN stored', safe') /\ HasPublished(c, indexDisk')
  BY <1>3, <1>5 DEF KeyRead, HasStored, HasPublished, Serving, Working, ManifestStored
<1> QED
  BY <1>2, <1>3, <1>4, <1>5, <1>6, <1>7, <1>8, <1>9, <1>10, OneRelies

LEMMA SyncKeyStep == ASSUME IInv, NEW p \in Processes, SyncKey(p) PROVE IInv'
<1>1. Relies(p) /\ proc[p].pc = "sync key"
  BY CallTyped DEF SyncKey, At
<1>2. key # 0
  BY <1>1 DEF Relies, KeyRead
<1>3. UNCHANGED <<key, stored, safe, index, indexDisk, losses>> /\ keyDisk' = key
      /\ UNCHANGED <<sourceVars, answerVars>>
  BY DEF SyncKey, artifactVars, indexVars, boundVars
<1>4. Keeps
  BY <1>3 DEF Keeps, IInv, DiskFollows
<1>5. Answers'
  BY <1>3, <1>4, AnswersStay
<1>6. OnePerId'
  BY <1>3 DEF IInv, OnePerId
<1>7. key' \in 0..MaxKeys /\ keyDisk' \in {0, key'} /\ safe' \subseteq DOMAIN stored'
      /\ indexDisk' \subseteq index'
  BY <1>3 DEF IInv, Types, DiskFollows
<1>8. proc' = [proc EXCEPT ![p] = Ready(key)]
  BY DEF SyncKey
<1>9. Ready(key) \in Call
  BY ReadyCall DEF IInv, Types
<1>10. /\ KeyRead(Ready(key), key') /\ HasStored(Ready(key), DOMAIN stored', safe')
       /\ HasPublished(Ready(key), indexDisk')
  BY <1>2, <1>3, ReadyRelies
<1> QED
  BY <1>3, <1>4, <1>5, <1>6, <1>7, <1>8, <1>9, <1>10, OneRelies
-----------------------------------------------------------------------------
LEMMA KillStep == ASSUME IInv, NEW p \in Processes, Kill(p) PROVE IInv'
<1>1. UNCHANGED <<key, keyDisk, stored, safe, index, indexDisk, losses>>
      /\ UNCHANGED <<sourceVars, answerVars>>
  BY DEF Kill, keyVars, artifactVars, indexVars
<1>2. Keeps
  BY <1>1 DEF Keeps
<1>3. Answers'
  BY <1>1, <1>2, AnswersStay
<1>4. OnePerId'
  BY <1>1 DEF IInv, OnePerId
<1>5. key' \in 0..MaxKeys /\ keyDisk' \in {0, key'} /\ safe' \subseteq DOMAIN stored'
      /\ indexDisk' \subseteq index'
  BY <1>1 DEF IInv, Types, DiskFollows
<1>6. Down \in Call
  BY DownCall
<1>7. proc' = [proc EXCEPT ![p] = Down]
  BY DEF Kill
<1>8. /\ KeyRead(Down, key') /\ HasStored(Down, DOMAIN stored', safe')
      /\ HasPublished(Down, indexDisk')
  BY DownRelies
<1> QED
  BY <1>1, <1>2, <1>3, <1>4, <1>5, <1>6, <1>7, <1>8, OneRelies

LEMMA CommitStep == ASSUME IInv, Commit PROVE IInv'
<1>1. UNCHANGED <<key, keyDisk, stored, safe, index, indexDisk, proc, answered, durable, losses>>
  BY DEF Commit, keyVars, artifactVars, indexVars, answerVars, boundVars
<1>2. {head', tree'} \subseteq 0..MaxCommits
  BY Bounds DEF Commit, IInv, Types
<1> QED
  BY <1>1, <1>2 DEF IInv, Types, DiskFollows, OnePerId, Calls, Answers

(* What was synced is what is left: durable answers rest on nothing else. *)
LEMMA PowerLossStep == ASSUME IInv, PowerLoss PROVE IInv'
<1>1. PICK kept : Store!Lose(kept)
  BY DEF PowerLoss
<1>2. safe \subseteq kept /\ safe' = kept /\ DOMAIN stored' = kept
  BY <1>1 DEF Store!Lose, Store!Restrict
<1>3. indexDisk \subseteq index' /\ index' \subseteq index /\ indexDisk' = index'
  BY DEF PowerLoss
<1>4. key' \in {key, keyDisk} /\ keyDisk' = key' /\ (keyDisk # 0 => keyDisk' = keyDisk)
  BY DEF PowerLoss, IInv, DiskFollows
<1>5. losses' = losses + 1 /\ UNCHANGED <<sourceVars, answerVars>>
      /\ proc' = [p \in Processes |-> Down]
  BY DEF PowerLoss
<1>6. Types'
  BY <1>4, <1>5, DownCall DEF IInv, Types, sourceVars
<1>7. DiskFollows'
  BY <1>2, <1>3, <1>4 DEF DiskFollows
<1>8. OnePerId'
  BY <1>3 DEF IInv, OnePerId, SameId
<1>9. Calls'
  BY <1>5, DownRelies DEF Calls
<1>10. \A r : Held(r, indexDisk, safe, keyDisk) => Held(r, indexDisk', safe', keyDisk')
  BY <1>2, <1>3, <1>4, HeldStays
<1>11. losses' # 0
  BY <1>5 DEF IInv, Types
<1>12. Answers'
  BY <1>5, <1>10, <1>11 DEF IInv, Answers, answerVars
<1> QED
  BY <1>6, <1>7, <1>8, <1>9, <1>12 DEF IInv

LEMMA StepInv == IInv /\ [Next]_vars => IInv'
<1> SUFFICES ASSUME IInv, [Next]_vars PROVE IInv'
  OBVIOUS
<1>1. CASE UNCHANGED vars
  BY <1>1 DEF vars, keyVars, sourceVars, artifactVars, indexVars, answerVars, boundVars,
              IInv, Types, DiskFollows, OnePerId, Calls, Answers
<1>2. ASSUME NEW p \in Processes, WorkerDeadline(p) PROVE IInv'
  <2>1. proc[p].pc \in Serving
    BY <1>2 DEF WorkerDeadline, At, Serving, Working
  <2> QED
    BY <1>2, <2>1, ReturnStep DEF WorkerDeadline
<1>3. ASSUME NEW p \in Processes, Proceed(p) PROVE IInv'
  BY <1>2, <1>3, PutFoundStep, PutNewStep, PutSyncStep, CompleteStep, VerifyStep, PublishStep,
     SyncIndexStep, ViewStep DEF Proceed
<1>4. ASSUME NEW p \in Processes,
             ReadKey(p) \/ GenerateKey(p) \/ PublishKey(p) \/ SyncKey(p)
      PROVE  IInv'
  BY <1>4, ReadKeyStep, GenerateKeyStep, PublishKeyStep, SyncKeyStep
<1> QED
  BY <1>1, <1>3, <1>4, ExecuteStep, ProposeStep, KillStep, CommitStep, PowerLossStep DEF Next
-----------------------------------------------------------------------------
(* A run that was answered is to be had: its entry is the only one of its id,
   what its manifest speaks of is stored, and the key of the directory is the
   one it is signed with; after a power loss, if all that was synced (execute,
   verify_run, _publish_index and load_or_create of runs/runner.py). *)
THEOREM RunsAlwaysLoad == Spec => []AnsweredRunsLoad
<1>1. IInv => AnsweredRunsLoad
  <2> SUFFICES ASSUME IInv, NEW r \in answered, losses = 0 \/ r \in durable
               PROVE  Gettable(r)
    BY DEF AnsweredRunsLoad
  <2>1. Held(r, index, DOMAIN stored, key)
    <3>1. Held(r, indexDisk, safe, keyDisk) => Held(r, index, DOMAIN stored, key)
      BY HeldStays DEF IInv, DiskFollows
    <3> QED
      BY <3>1 DEF IInv, Answers
  <2> QED
    BY <2>1 DEF IInv, OnePerId, Held, Gettable, Taken, SameId
<1> QED
  BY <1>1, InitInv, StepInv, PTL DEF Spec

(* No process ever serves with a key that is not the one of the directory,
   also not when several start at once on an empty one (load_or_create). *)
THEOREM OneKeyServes ==
    Spec => [](\A p \in Processes : proc[p].pc \in Serving => key # 0 /\ proc[p].signer = key)
<1>1. IInv => \A p \in Processes : proc[p].pc \in Serving => key # 0 /\ proc[p].signer = key
  BY DEF IInv, Calls, KeyRead
<1> QED
  BY <1>1, InitInv, StepInv, PTL DEF Spec
-----------------------------------------------------------------------------
(***************************************************************************)
(* Proofs about AuthorityProvisioning, for every number of files and every  *)
(* number of commands that race, however often steps fail and power is lost *)
(* (the bound on faults is never used).                                     *)
(***************************************************************************)

ProvisionTypes ==
    /\ owner \in [Files -> Owners]
    /\ maybe \in [Files -> SUBSET Owners]
    /\ phase \in [Provisioners -> Phases]
    /\ place \in [Provisioners -> Nat \ {0}]
    /\ created \in [Provisioners -> Nat]
    /\ \A f \in Files : owner[f] \in maybe[f]

(* What a command has published so far is its own. *)
PublishedOwn ==
    \A p \in Provisioners : phase[p] = "publishing" =>
        /\ created[p] < place[p]
        /\ \A f \in Files : f < place[p] => owner[f] = p

(* What a command has still to remove is its own. *)
RemovesOwn ==
    \A p \in Provisioners : phase[p] = "undoing" =>
        \A f \in Files : place[p] <= f /\ f <= created[p] => owner[f] = p

(* A command that still looks has created nothing. *)
LooksFirst ==
    \A p \in Provisioners : phase[p] = "checking" => created[p] = 0

ProvisionInv ==
    ProvisionTypes /\ PublishedOwn /\ RemovesOwn /\ LooksFirst /\ ProvisionedOnce
(* Types, and the four parts of the invariant, hold when nothing has begun. *)
LEMMA ProvisionInitInv == ProvisionInit => ProvisionInv
  BY ProvisioningConstants
     DEF ProvisionInit, ProvisionInv, ProvisionTypes, PublishedOwn, RemovesOwn, LooksFirst,
         ProvisionedOnce, Owners, Phases, Files

(* No step of the preflight, of publishing or of the undoing, no failure and no
   power loss breaks the invariant. *)
LEMMA ProvisionStepInv == ProvisionInv /\ [ProvisionNext]_provisionVars => ProvisionInv'
<1> SUFFICES ASSUME ProvisionInv, [ProvisionNext]_provisionVars
             PROVE  ProvisionInv'
  OBVIOUS
<1> USE ProvisioningConstants
        DEF ProvisionInv, ProvisionTypes, PublishedOwn, RemovesOwn, LooksFirst,
            ProvisionedOnce, Owners, Phases, Files, Turn
<1>1. ASSUME NEW p \in Provisioners, CheckName(p) PROVE ProvisionInv'
  <2>1. CASE owner[place[p]] = NoOwner
    <3>1. phase' = [phase EXCEPT ![p] = "checking"] /\ place' = [place EXCEPT ![p] = place[p] + 1]
      BY <1>1, <2>1 DEF CheckName
    <3>2. UNCHANGED <<owner, maybe, created>> /\ phase[p] = "checking"
      BY <1>1 DEF CheckName
    <3> QED BY <3>1, <3>2
  <2>2. CASE owner[place[p]] # NoOwner
    <3>1. phase' = [phase EXCEPT ![p] = "failed"] /\ UNCHANGED <<owner, maybe, created>>
      BY <1>1, <2>2 DEF CheckName
    <3>2. place' = [place EXCEPT ![p] = place[p]]
      BY <1>1, <2>2 DEF CheckName
    <3> QED BY <3>1, <3>2
  <2> QED BY <2>1, <2>2
<1>2. ASSUME NEW p \in Provisioners, DrawSeeds(p) PROVE ProvisionInv'
  BY <1>2 DEF DrawSeeds
<1>3. ASSUME NEW p \in Provisioners, PublishKeyFile(p) PROVE ProvisionInv'
  <2>1. CASE owner[place[p]] = NoOwner
    <3>1. /\ owner' = [owner EXCEPT ![place[p]] = p]
          /\ maybe' = [maybe EXCEPT ![place[p]] = @ \union {p}]
          /\ created' = [created EXCEPT ![p] = place[p]]
          /\ phase' = [phase EXCEPT ![p] = "publishing"]
          /\ place' = [place EXCEPT ![p] = place[p] + 1]
          /\ phase[p] = "publishing" /\ place[p] \in Files
      BY <1>3, <2>1 DEF PublishKeyFile, Link
    <3>2. ProvisionTypes' BY <3>1
    <3>3. PublishedOwn' BY <3>1, <2>1
    <3>4. RemovesOwn' BY <3>1, <2>1
    <3>5. LooksFirst' BY <3>1
    <3>6. ProvisionedOnce' BY <3>1, <2>1
    <3> QED BY <3>2, <3>3, <3>4, <3>5, <3>6
  <2>2. CASE owner[place[p]] # NoOwner
    <3>1. /\ phase' = [phase EXCEPT ![p] = "undoing"] /\ place' = [place EXCEPT ![p] = 1]
          /\ UNCHANGED <<owner, maybe, created>> /\ phase[p] = "publishing"
      BY <1>3, <2>2 DEF PublishKeyFile
    <3> QED BY <3>1
  <2> QED BY <2>1, <2>2
<1>4. ASSUME NEW p \in Provisioners, SyncKeyFiles(p) PROVE ProvisionInv'
  BY <1>4 DEF SyncKeyFiles
<1>5. ASSUME NEW p \in Provisioners, PublishFails(p) PROVE ProvisionInv'
  <2>1. /\ phase' = [phase EXCEPT ![p] = "undoing"] /\ place' = [place EXCEPT ![p] = 1]
        /\ created' = created /\ phase[p] = "publishing"
    BY <1>5 DEF PublishFails
  <2>2. CASE UNCHANGED <<owner, maybe>>
    BY <2>1, <2>2
  <2>3. CASE place[p] \in Files /\ owner[place[p]] = NoOwner /\ Link(place[p], p)
    <3>1. /\ owner' = [owner EXCEPT ![place[p]] = p]
          /\ maybe' = [maybe EXCEPT ![place[p]] = @ \union {p}]
      BY <2>3 DEF Link
    <3>2. ProvisionTypes' BY <2>1, <2>3, <3>1
    <3>3. PublishedOwn' BY <2>1, <2>3, <3>1
    <3>4. RemovesOwn' BY <2>1, <2>3, <3>1
    <3>5. LooksFirst' BY <2>1
    <3>6. ProvisionedOnce' BY <2>1, <2>3, <3>1
    <3> QED BY <3>2, <3>3, <3>4, <3>5, <3>6
  <2> QED BY <1>5, <2>2, <2>3 DEF PublishFails
<1>6. ASSUME NEW p \in Provisioners, RemoveCreated(p) PROVE ProvisionInv'
  BY <1>6 DEF RemoveCreated, Link
<1>7. ASSUME NEW p \in Provisioners, SyncRemoval(p) PROVE ProvisionInv'
  BY <1>7 DEF SyncRemoval
<1>8. ASSUME NEW p \in Provisioners, ProvisionerEnds(p) PROVE ProvisionInv'
  BY <1>8 DEF ProvisionerEnds
<1>9. ASSUME MachineFails PROVE ProvisionInv'
  BY <1>9 DEF MachineFails
<1>10. CASE UNCHANGED provisionVars
  BY <1>10 DEF provisionVars
<1> QED
  BY <1>1, <1>2, <1>3, <1>4, <1>5, <1>6, <1>7, <1>8, <1>9, <1>10
     DEF ProvisionNext, Provisioner

(* provision_defense_authorities hands out the identities of an authority only
   when all five files are the ones it wrote, on disk, and nothing removes or
   replaces them afterwards. *)
THEOREM AlwaysProvisionedOnce == ProvisionSpec => []ProvisionedOnce
<1>1. ProvisionInv => ProvisionedOnce
  BY DEF ProvisionInv
<1> QED
  BY <1>1, ProvisionInitInv, ProvisionStepInv, PTL DEF ProvisionSpec

(* A command that undoes a failed provisioning removes only files it created,
   although it removes them by name. *)
THEOREM AlwaysRemovesOwn == ProvisionSpec => []RemovesOwn
<1>1. ProvisionInv => RemovesOwn
  BY DEF ProvisionInv
<1> QED
  BY <1>1, ProvisionInitInv, ProvisionStepInv, PTL DEF ProvisionSpec
-----------------------------------------------------------------------------
(***************************************************************************)
(* Proofs about DefenseWorkflow, for any operators, checkouts and numbers   *)
(* of commands and mishaps: what was published and synced stays, and the    *)
(* hidden context is opened for one defender, never beside a failure.       *)
(***************************************************************************)

Hidden == "hidden-context"

(* The files of the workflow. *)
Names ==
    {"observations", "corpus-manifest", "calibration.json", "model", "defender-bundle",
     "calibration.csv", "scorecard", "hash-manifest", "run-ledger", "corpus-envelope",
     "hidden-context", "run-manifests", "result"}

(* A command is a record of five fields; one that publishes has files left.
   Only a preparation publishes a hidden context, and it publishes nothing else. *)
ProperCommand(c) ==
    /\ c = [does |-> c.does, at |-> c.at, on |-> c.on, left |-> c.left, no |-> c.no]
    /\ c.left \in Seq(Names)
    /\ c.at \in {"publishing", "staged", "renamed", "preflight"} => c.left # <<>>
    /\ IF c.does = "prepare"
       THEN c.at \notin {"preflight", "opening"} /\ c.left \in {<<Hidden>>, <<>>}
       ELSE \A i \in 1..Len(c.left) : c.left[i] # Hidden

(* A context that has been published and not yet synced is that of its command,
   and the one a release opens was printed. *)
Backed(c) ==
    /\ c.does = "prepare" /\ c.at = "renamed" =>
           Hidden \in DOMAIN published /\ published[Hidden].of = c.on
    /\ c.at = "opening" => c.on \in selected

(* A context whose digest was printed is the published one, and is on disk. *)
SelectedStays ==
    \A h \in selected :
        Hidden \in DOMAIN published /\ published[Hidden].of = h /\ Hidden \notin unsynced

Commands ==
    /\ command = [o \in Operators |-> command[o]]
    /\ \A o \in Operators : ProperCommand(command[o])

AllBacked == \A o \in Operators : Backed(command[o])

WorkflowInv == Commands /\ AllBacked /\ SelectedStays /\ opened \subseteq selected

(* No command runs at first: the invariant holds of the initial state. *)
LEMMA NoCommandProper == ProperCommand(NoCommand)
  BY DEF ProperCommand, NoCommand, Hidden

(* No file, no command and no digest there is at first: the invariant holds. *)
LEMMA WorkflowInitInv == WorkflowInit => WorkflowInv
  BY NoCommandProper DEF WorkflowInit, WorkflowInv, Commands, AllBacked, Backed,
     SelectedStays, NoCommand

(* A step of one command line leaves the others' records alone. *)
LEMMA OneCommandMoves ==
    ASSUME Commands, NEW o \in Operators, NEW c, ProperCommand(c),
           command' = [command EXCEPT ![o] = c]
    PROVE  /\ Commands'
           /\ \A p \in Operators : command'[p] = IF p = o THEN c ELSE command[p]
  BY DEF Commands, ProperCommand

(* A list of other files than the hidden context, for a command to publish. *)
OtherFiles(left) == left \in Seq(Names) /\ \A i \in 1..Len(left) : left[i] # Hidden

(* None of the lists that the commands publish by names the hidden context. *)
LEMMA OrdersProper ==
    /\ OtherFiles(GenerateOrder) /\ OtherFiles(BuildOrder) /\ OtherFiles(TrainOrder)
    /\ OtherFiles(FailureOrder) /\ OtherFiles(ReleaseOrder) /\ OtherFiles(<<>>)
<1>1. OtherFiles(GenerateOrder)
  BY DEF OtherFiles, GenerateOrder, Hidden, Names
<1>2. OtherFiles(BuildOrder)
  BY DEF OtherFiles, BuildOrder, Hidden, Names
<1>3. OtherFiles(TrainOrder)
  BY DEF OtherFiles, TrainOrder, Hidden, Names
<1>4. OtherFiles(FailureOrder)
  BY DEF OtherFiles, FailureOrder, Hidden, Names
<1>5. OtherFiles(ReleaseOrder)
  BY DEF OtherFiles, ReleaseOrder, Hidden, Names
<1>6. OtherFiles(<<>>)
  BY DEF OtherFiles
<1> QED
  BY <1>1, <1>2, <1>3, <1>4, <1>5, <1>6

(* A command that publishes has something to publish. *)
LEMMA OrdersNotEmpty ==
    /\ GenerateOrder # <<>> /\ BuildOrder # <<>> /\ TrainOrder # <<>>
    /\ FailureOrder # <<>>
  BY DEF GenerateOrder, BuildOrder, TrainOrder, FailureOrder

(* A command that begins, and any that only changes commands, keeps the invariant
   when its new record is proper and backed. *)
LEMMA FilesUntouched ==
    ASSUME WorkflowInv, NEW o \in Operators, NEW c, ProperCommand(c), Backed(c),
           command' = [command EXCEPT ![o] = c],
           UNCHANGED <<published, unsynced, selected>>, opened' \subseteq selected
    PROVE  WorkflowInv'
  BY OneCommandMoves DEF WorkflowInv, AllBacked, Backed, SelectedStays, Commands

(* A command that begins keeps the invariant, whichever it is. *)
LEMMA BeginKeeps ==
    ASSUME WorkflowInv, NEW o \in Operators, NEW does, NEW at, NEW on, NEW left,
           Begin(o, does, at, on, left), at \in {"publishing", "preflight", "opening"},
           at \in {"publishing", "preflight"} => left # <<>>,
           does = "prepare" => at = "publishing" /\ left = <<Hidden>>,
           does # "prepare" => OtherFiles(left),
           at = "opening" => on \in selected
    PROVE  WorkflowInv'
<1> DEFINE c == [does |-> does, at |-> at, on |-> on, left |-> left, no |-> begun'[does]]
<1>1. left \in Seq(Names)
  <2>1. <<Hidden>> \in Seq(Names)
    BY DEF Hidden, Names
  <2> QED
    BY <2>1 DEF OtherFiles
<1>2. ProperCommand(c)
  <2>1. CASE does = "prepare"
    BY <1>1, <2>1 DEF ProperCommand
  <2>2. CASE does # "prepare"
    BY <1>1, <2>2 DEF ProperCommand, OtherFiles
  <2> QED
    BY <2>1, <2>2
<1>3. Backed(c)
  BY DEF Backed
<1>4. command' = [command EXCEPT ![o] = c] /\ UNCHANGED <<fileVars, selected, opened>>
  BY DEF Begin
<1> QED
  BY <1>2, <1>3, <1>4, FilesUntouched DEF WorkflowInv, fileVars

(* A command that ends, fails or is killed leaves the files as they are. *)
LEMMA StopKeeps ==
    ASSUME WorkflowInv, NEW o \in Operators, Stop(o),
           UNCHANGED <<published, unsynced, selected>>, opened' \subseteq selected
    PROVE  WorkflowInv'
<1>1. Backed(NoCommand)
  BY DEF Backed, NoCommand
<1> QED
  BY <1>1, NoCommandProper, FilesUntouched DEF Stop

(* The record of a command that goes on: to another place, with files left. *)
Moved(c, at, left) == [does |-> c.does, at |-> at, on |-> c.on, left |-> left, no |-> c.no]

(* A command that goes on publishing stays proper. *)
LEMMA MovedProper ==
    ASSUME Commands, NEW o \in Operators,
           NEW at \in {"publishing", "staged", "renamed", "preflight"},
           command[o].left # <<>>,
           command[o].does = "prepare" => at # "preflight"
    PROVE  ProperCommand(Moved(command[o], at, command[o].left))
  BY DEF Commands, ProperCommand, Moved

(* What the step to another place does to the command's record. *)
LEMMA ReachMoves ==
    ASSUME Commands, NEW o \in Operators, NEW at, Reach(o, at)
    PROVE  command' = [command EXCEPT ![o] = Moved(command[o], at, command[o].left)]
<1> DEFINE b == command[o]
<1>1. b = [does |-> b.does, at |-> b.at, on |-> b.on, left |-> b.left, no |-> b.no]
  BY DEF Commands, ProperCommand
<1>2. [b EXCEPT !.at = at] = Moved(b, at, b.left)
  BY <1>1 DEF Moved
<1>3. command' = [command EXCEPT ![o] = [b EXCEPT !.at = at]]
  BY DEF Reach
<1> QED
  BY <1>2, <1>3

(* A command that goes on to another place, and did not rename. *)
LEMMA ReachKeeps ==
    ASSUME WorkflowInv, NEW o \in Operators,
           NEW at \in {"publishing", "staged", "preflight"}, Reach(o, at),
           command[o].left # <<>>, command[o].does = "prepare" => at # "preflight",
           UNCHANGED <<published, unsynced, selected>>, opened' \subseteq selected
    PROVE  WorkflowInv'
<1> DEFINE c == Moved(command[o], at, command[o].left)
<1>1. ProperCommand(c)
  BY MovedProper DEF WorkflowInv
<1>2. command' = [command EXCEPT ![o] = c]
  BY ReachMoves DEF WorkflowInv
<1>3. Backed(c)
  BY DEF Backed, Moved
<1> QED
  BY <1>1, <1>2, <1>3, FilesUntouched

(* The commands that begin: only a preparation will publish a hidden context, and
   a release opens one whose digest was printed. *)
LEMMA BeginningsKeep ==
    ASSUME WorkflowInv, NEW o \in Operators,
           \/ Generate(o) \/ Build(o) \/ Prepare(o)
           \/ \E c \in Checkouts : Train(o, c)
           \/ \E named \in BOOLEAN : Release(o, named)
    PROVE  WorkflowInv'
<1>1. CASE Generate(o)
  BY <1>1, BeginKeeps, OrdersProper, OrdersNotEmpty DEF Generate
<1>2. CASE Build(o)
  BY <1>2, BeginKeeps, OrdersProper, OrdersNotEmpty DEF Build
<1>3. CASE Prepare(o)
  <2> DEFINE on == [context |-> begun["prepare"] + 1,
                    defender |-> published["defender-bundle"].of]
  <2>1. Begin(o, "prepare", "publishing", on, <<Hidden>>)
    BY <1>3 DEF Prepare, Hidden
  <2>2. <<Hidden>> # <<>>
    OBVIOUS
  <2> QED
    BY <2>1, <2>2, BeginKeeps
<1>4. CASE \E c \in Checkouts : Train(o, c)
  <2>1. PICK c \in Checkouts : Train(o, c)
    BY <1>4
  <2>2. \/ Begin(o, "train", "publishing", c, TrainOrder)
        \/ Begin(o, "train", "preflight", c, FailureOrder)
    BY <2>1 DEF Train
  <2> QED
    BY <2>2, BeginKeeps, OrdersProper, OrdersNotEmpty
<1>5. CASE \E named \in BOOLEAN : Release(o, named)
  <2>1. PICK named \in BOOLEAN : Release(o, named)
    BY <1>5
  <2> DEFINE on == published["hidden-context"].of
             left == IF named THEN ReleaseOrder ELSE <<>>
  <2>2. Begin(o, "release", "opening", on, left) /\ on \in selected
    BY <2>1 DEF Release
  <2>3. OtherFiles(left)
    BY OrdersProper
  <2> QED
    BY <2>2, <2>3, BeginKeeps
<1> QED
  BY <1>1, <1>2, <1>3, <1>4, <1>5

(* The truth of a printed context is opened. *)
LEMMA OpenHiddenKeeps ==
    ASSUME WorkflowInv, NEW o \in Operators, OpenHidden(o)
    PROVE  WorkflowInv'
<1>1. command[o].at = "opening" /\ command[o].on \in selected
  BY DEF OpenHidden, WorkflowInv, AllBacked, Backed
<1>2. command[o].does # "prepare"
  BY <1>1 DEF WorkflowInv, Commands, ProperCommand
<1>3. opened' \subseteq selected /\ UNCHANGED <<published, unsynced, selected>>
  BY <1>1 DEF OpenHidden, WorkflowInv, fileVars
<1>4. CASE command[o].left = <<>>
  BY <1>3, <1>4, StopKeeps DEF OpenHidden
<1>5. CASE command[o].left # <<>>
  BY <1>2, <1>3, <1>5, ReachKeeps DEF OpenHidden
<1> QED
  BY <1>4, <1>5

(* A preflight, and the staging of a file, change no file that has been published. *)
LEMMA PreflightKeeps ==
    ASSUME WorkflowInv, NEW o \in Operators, Preflight(o)
    PROVE  WorkflowInv'
<1>1. command[o].left # <<>>
  BY DEF Preflight, WorkflowInv, Commands, ProperCommand
<1>2. UNCHANGED <<published, unsynced, selected, opened>> /\ opened \subseteq selected
  BY DEF Preflight, WorkflowInv, fileVars, evidenceVars
<1>3. command[o].does = "prepare" => "publishing" # "preflight"
  OBVIOUS
<1> QED
  BY <1>1, <1>2, <1>3, ReachKeeps, StopKeeps DEF Preflight

(* Writing and syncing a temporary file publishes nothing. *)
LEMMA StageKeeps ==
    ASSUME WorkflowInv, NEW o \in Operators, Stage(o)
    PROVE  WorkflowInv'
<1>1. command[o].left # <<>>
  BY DEF Stage, WorkflowInv, Commands, ProperCommand
<1>2. UNCHANGED <<published, unsynced, selected, opened>> /\ opened \subseteq selected
  BY DEF Stage, WorkflowInv, fileVars, evidenceVars
<1> QED
  BY <1>1, <1>2, ReachKeeps, StopKeeps DEF Stage

(* A new file is the hidden context exactly when a preparation makes it. *)
LEMMA PublishedKind ==
    ASSUME WorkflowInv, NEW o \in Operators, command[o].at = "staged"
    PROVE  /\ command[o].left # <<>>
           /\ command[o].does = "prepare" => Head(command[o].left) = Hidden
           /\ command[o].does # "prepare" => Head(command[o].left) # Hidden
<1>1. ProperCommand(command[o]) /\ command[o].left # <<>>
  BY DEF WorkflowInv, Commands, ProperCommand
<1>2. Len(command[o].left) >= 1 /\ Head(command[o].left) = command[o].left[1]
  BY <1>1 DEF ProperCommand
<1>3. CASE command[o].does = "prepare"
  BY <1>1, <1>2, <1>3 DEF ProperCommand
<1>4. CASE command[o].does # "prepare"
  <2>1. 1 \in 1..Len(command[o].left)
    BY <1>1, <1>2 DEF ProperCommand
  <2> QED
    BY <1>1, <1>2, <1>4, <2>1 DEF ProperCommand
<1> QED
  BY <1>1, <1>3, <1>4

(* The pointer a preparation publishes names the context it prepared. *)
LEMMA HiddenContent ==
    ASSUME NEW o \in Operators
    PROVE  ContentOf(o, Hidden).of = command[o].on
  BY DEF ContentOf, Content, Hidden, TrainingFiles, ReportFiles

(* The rename that never replaces: a hidden context that is there stays. *)
LEMMA PublishKeeps ==
    ASSUME WorkflowInv, NEW o \in Operators, PublishFile(o)
    PROVE  WorkflowInv'
<1> DEFINE f == Head(command[o].left)
<1>1. command[o].at = "staged" /\ UNCHANGED <<selected, opened>>
  BY DEF PublishFile, evidenceVars
<1>2. CASE f \in DOMAIN published
  BY <1>1, <1>2, StopKeeps DEF PublishFile, WorkflowInv
<1>3. CASE f \notin DOMAIN published
  <2> DEFINE c == Moved(command[o], "renamed", command[o].left)
  <2>1. Put(f, ContentOf(o, f)) /\ Reach(o, "renamed")
    BY <1>3 DEF PublishFile
  <2>2. ProperCommand(c)
    BY <1>1, PublishedKind, MovedProper DEF WorkflowInv
  <2>3. command' = [command EXCEPT ![o] = c]
    BY <2>1, ReachMoves DEF WorkflowInv
  <2>4. /\ Commands'
        /\ \A p \in Operators : command'[p] = IF p = o THEN c ELSE command[p]
    BY <2>2, <2>3, OneCommandMoves DEF WorkflowInv
  <2>5. /\ DOMAIN published' = DOMAIN published \union {f}
        /\ published'[f] = ContentOf(o, f)
        /\ \A g \in DOMAIN published : published'[g] = published[g]
        /\ unsynced' = unsynced \union {f}
    BY <1>3, <2>1 DEF Put
  <2>6. Hidden \in DOMAIN published =>
            f # Hidden /\ published'[Hidden] = published[Hidden]
    BY <1>3, <2>5
  <2>7. SelectedStays'
    BY <1>1, <2>5, <2>6 DEF WorkflowInv, SelectedStays
  <2>8. ASSUME NEW p \in Operators
        PROVE  Backed(command[p])'
    <3>1. CASE p = o
      <4>1. c.does = "prepare" => f = Hidden
        BY <1>1, PublishedKind DEF Moved
      <4>2. c.does = "prepare" =>
                Hidden \in DOMAIN published' /\ published'[Hidden].of = c.on
        BY <2>5, <4>1, HiddenContent DEF Moved
      <4>3. c.at = "renamed" /\ command'[p] = c
        BY <2>4, <3>1 DEF Moved
      <4> QED
        BY <4>2, <4>3 DEF Backed
    <3>2. CASE p # o
      BY <1>1, <2>4, <2>5, <2>6, <3>2 DEF WorkflowInv, AllBacked, Backed
    <3> QED
      BY <3>1, <3>2
  <2> QED
    BY <1>1, <2>4, <2>7, <2>8 DEF WorkflowInv, AllBacked
<1> QED
  BY <1>2, <1>3

(* What is left of several files after the first. *)
LEMMA TailStays ==
    ASSUME NEW S, NEW s \in Seq(S), Len(s) # 1, s # <<>>
    PROVE  Tail(s) \in Seq(S) /\ Tail(s) # <<>>
<1>1. Len(s) \in Nat /\ Len(s) > 1
  BY EmptySeq, LenProperties
<1>2. Tail(s) \in Seq(S) /\ Len(Tail(s)) = Len(s) - 1
  BY HeadTailProperties
<1>3. Len(<<>>) = 0
  BY EmptySeq
<1>4. Tail(s) # <<>>
  BY <1>1, <1>2, <1>3
<1> QED
  BY <1>2, <1>4

(* What going on to the next file does to the command's record. *)
LEMMA MovedOn ==
    ASSUME NEW b, NEW left,
           b = [does |-> b.does, at |-> b.at, on |-> b.on, left |-> b.left, no |-> b.no]
    PROVE  [b EXCEPT !.at = "publishing", !.left = left] = Moved(b, "publishing", left)
<1> DEFINE e == [b EXCEPT !.at = "publishing"]
<1>1. [b EXCEPT !.at = "publishing", !.left = left] = [e EXCEPT !.left = left]
  OBVIOUS
<1>2. e = [does |-> b.does, at |-> "publishing", on |-> b.on, left |-> b.left, no |-> b.no]
  OBVIOUS
<1> HIDE DEF e
<1>3. [e EXCEPT !.left = left] = Moved(b, "publishing", left)
  BY <1>2 DEF Moved
<1> QED
  BY <1>1, <1>3

(* The sync after the rename: a preparation prints the digest of the context that
   is now on disk, and every printed digest is that of the published context. *)
LEMMA SyncKeeps ==
    ASSUME WorkflowInv, NEW o \in Operators, SyncDirectory(o)
    PROVE  WorkflowInv'
<1> DEFINE b == command[o]
           f == Head(b.left)
<1>1. /\ b.at = "renamed" /\ ProperCommand(b) /\ Backed(b) /\ b.left # <<>>
      /\ UNCHANGED <<published, opened>>
  BY DEF SyncDirectory, WorkflowInv, Commands, AllBacked, ProperCommand
<1>2. PICK d \in Directories : f \in d /\ unsynced' = unsynced \ d
  BY DEF SyncDirectory
<1>3. selected' = IF b.does = "prepare" THEN selected \union {b.on} ELSE selected
  BY DEF SyncDirectory, NextFile
<1>4. b.does = "prepare" => f = Hidden /\ Len(b.left) = 1
  BY <1>1 DEF ProperCommand
<1>5. SelectedStays' /\ opened' \subseteq selected'
  <2>1. CASE b.does = "prepare"
    <3>1. Hidden \in DOMAIN published' /\ published'[Hidden].of = b.on
      BY <1>1, <2>1 DEF Backed
    <3>2. Hidden \notin unsynced'
      BY <1>2, <1>4, <2>1
    <3> QED
      BY <1>1, <1>3, <2>1, <3>1, <3>2 DEF WorkflowInv, SelectedStays
  <2>2. CASE b.does # "prepare"
    BY <1>1, <1>2, <1>3, <2>2 DEF WorkflowInv, SelectedStays
  <2> QED
    BY <2>1, <2>2
<1>6. ASSUME NEW c, ProperCommand(c), command' = [command EXCEPT ![o] = c],
             c.at \in {"idle", "publishing"}
      PROVE  WorkflowInv'
  <2>1. /\ Commands'
        /\ \A p \in Operators : command'[p] = IF p = o THEN c ELSE command[p]
    BY <1>6, OneCommandMoves DEF WorkflowInv
  <2>2. ASSUME NEW p \in Operators
        PROVE  Backed(command[p])'
    <3>1. CASE p = o
      BY <1>6, <2>1, <3>1 DEF Backed
    <3>2. CASE p # o
      BY <1>1, <1>3, <2>1, <3>2 DEF WorkflowInv, AllBacked, Backed
    <3> QED
      BY <3>1, <3>2
  <2> QED
    BY <1>5, <2>1, <2>2 DEF WorkflowInv, AllBacked
<1>7. CASE Len(b.left) = 1
  <2>1. command' = [command EXCEPT ![o] = NoCommand]
    BY <1>7 DEF SyncDirectory, NextFile, Stop
  <2> QED
    BY <1>6, <2>1, NoCommandProper DEF NoCommand
<1>8. CASE Len(b.left) # 1
  <2> DEFINE c == Moved(b, "publishing", Tail(b.left))
  <2>1. b.does # "prepare"
    BY <1>4, <1>8
  <2>2. Tail(b.left) \in Seq(Names) /\ Tail(b.left) # <<>>
    <3>1. b.left \in Seq(Names) /\ b.left # <<>>
      BY <1>1 DEF ProperCommand
    <3> QED
      BY <1>8, <3>1, TailStays
  <2>3. \A i \in 1..Len(Tail(b.left)) : Tail(b.left)[i] # Hidden
    BY <1>1, <1>8, <2>1 DEF ProperCommand
  <2>4. ProperCommand(c)
    BY <2>1, <2>2, <2>3 DEF ProperCommand, Moved
  <2>5. command' = [command EXCEPT ![o] = c]
    <3>1. command' = [command EXCEPT ![o] = [b EXCEPT !.at = "publishing", !.left = Tail(@)]]
      BY <1>8 DEF SyncDirectory, NextFile
    <3>2. b = [does |-> b.does, at |-> b.at, on |-> b.on, left |-> b.left, no |-> b.no]
      BY <1>1 DEF ProperCommand
    <3>3. [b EXCEPT !.at = "publishing", !.left = Tail(@)] = c
      BY <3>2, MovedOn
    <3> QED
      BY <3>1, <3>3
  <2>6. c.at = "publishing"
    BY DEF Moved
  <2> QED
    BY <1>6, <2>4, <2>5, <2>6
<1> QED
  BY <1>7, <1>8

(* A power loss drops no context whose digest was printed, and stops every command. *)
LEMMA OutageKeeps ==
    ASSUME WorkflowInv, Outage
    PROVE  WorkflowInv'
<1>1. command' = [o \in Operators |-> NoCommand] /\ UNCHANGED <<selected, opened>>
  BY DEF Outage, evidenceVars
<1>2. Commands' /\ AllBacked'
  BY <1>1, NoCommandProper DEF Commands, AllBacked, Backed, NoCommand
<1>3. PICK lost \in SUBSET unsynced :
          published' = [f \in DOMAIN published \ lost |-> published[f]]
  BY DEF Outage
<1>4. unsynced' = {}
  BY DEF Outage
<1>5. SelectedStays'
  BY <1>1, <1>3, <1>4 DEF WorkflowInv, SelectedStays
<1> QED
  BY <1>1, <1>2, <1>5 DEF WorkflowInv

(* Every step of the workflow keeps the invariant. *)
LEMMA WorkflowStepInv == WorkflowInv /\ [WorkflowNext]_workflowVars => WorkflowInv'
<1> SUFFICES ASSUME WorkflowInv, [WorkflowNext]_workflowVars
             PROVE  WorkflowInv'
  OBVIOUS
<1>1. CASE \E o \in Operators : OpenHidden(o)
  BY <1>1, OpenHiddenKeeps
<1>2. CASE \E o \in Operators : Preflight(o)
  BY <1>2, PreflightKeeps
<1>3. CASE \E o \in Operators : Stage(o)
  BY <1>3, StageKeeps
<1>4. CASE \E o \in Operators : PublishFile(o)
  BY <1>4, PublishKeeps
<1>5. CASE \E o \in Operators : SyncDirectory(o)
  BY <1>5, SyncKeeps
<1>6. CASE \E o \in Operators : CommandFails(o)
  BY <1>6, StopKeeps DEF CommandFails, fileVars, evidenceVars, WorkflowInv
<1>7. CASE \E o \in Operators : KillWriting(o)
  BY <1>7, StopKeeps DEF KillWriting, evidenceVars, WorkflowInv
<1>8. CASE \E o \in Operators :
               \/ Generate(o) \/ Build(o) \/ Prepare(o)
               \/ \E c \in Checkouts : Train(o, c)
               \/ \E named \in BOOLEAN : Release(o, named)
  BY <1>8, BeginningsKeep
<1>9. CASE \E c \in Checkouts : Develop(c)
  BY <1>9 DEF Develop, fileVars, WorkflowInv, Commands, AllBacked, Backed, SelectedStays
<1>10. CASE Outage
  BY <1>10, OutageKeeps
<1>11. CASE UNCHANGED workflowVars
  BY <1>11 DEF workflowVars, fileVars, evidenceVars, WorkflowInv, Commands, AllBacked,
     Backed, SelectedStays
<1> QED
  BY <1>1, <1>2, <1>3, <1>4, <1>5, <1>6, <1>7, <1>8, <1>9, <1>10, <1>11 DEF WorkflowNext

(***************************************************************************)
(* Why no failure is published beside an opened context.  A training        *)
(* publishes its calibration before its defender, an infeasible one also    *)
(* before its result, and a preparation wants a feasible defender: all of   *)
(* them find the one calibration that reached the disk.                     *)
(***************************************************************************)
Calibration == "calibration.json"
Bundle == "defender-bundle"

(* A file that was published and synced stays, with its content. *)
OnDisk(f) == f \in DOMAIN published /\ f \notin unsynced

(* The rename never replaces, a sync only secures, and a power loss takes what was
   not synced: a file that is on disk stays. *)
LEMMA SyncedStays ==
    ASSUME [WorkflowNext]_workflowVars, NEW f, OnDisk(f)
    PROVE  OnDisk(f)' /\ published'[f] = published[f]
<1>1. CASE UNCHANGED <<published, unsynced>>
  BY <1>1 DEF OnDisk
<1>2. CASE \E o \in Operators : PublishFile(o)
  <2>1. PICK o \in Operators : PublishFile(o)
    BY <1>2
  <2> DEFINE g == Head(command[o].left)
  <2>2. CASE g \in DOMAIN published
    BY <2>1, <2>2 DEF PublishFile, OnDisk
  <2>3. CASE g \notin DOMAIN published
    BY <2>1, <2>3 DEF PublishFile, Put, OnDisk
  <2> QED
    BY <2>2, <2>3
<1>3. CASE \E o \in Operators : SyncDirectory(o)
  BY <1>3 DEF SyncDirectory, OnDisk
<1>4. CASE Outage
  BY <1>4 DEF Outage, OnDisk
<1> QED
  BY <1>1, <1>2, <1>3, <1>4 DEF WorkflowNext, workflowVars, fileVars, Generate, Build,
     Train, Prepare, Develop, Release, Begin, OpenHidden, Preflight, Stage,
     CommandFails, KillWriting

(* What a training still has to publish. *)
T1 == TrainOrder
T2 == <<"model", "defender-bundle">>
T3 == <<"defender-bundle">>
F1 == FailureOrder
F2 == <<"calibration.json", "defender-bundle", "scorecard", "model", "result",
        "hash-manifest">>
F3 == <<"defender-bundle", "scorecard", "model", "result", "hash-manifest">>
F4 == <<"scorecard", "model", "result", "hash-manifest">>
F5 == <<"model", "result", "hash-manifest">>
F6 == <<"result", "hash-manifest">>
F7 == <<"hash-manifest">>

(* The list of a feasible training, file by file. *)
LEMMA TrainTails ==
    /\ Head(T1) = Calibration /\ Tail(T1) = T2
    /\ Head(T2) = "model" /\ Tail(T2) = T3
    /\ Head(T3) = Bundle /\ Len(T3) = 1
  BY DEF T1, T2, T3, TrainOrder, Calibration, Bundle

(* The list of an infeasible training, file by file. *)
LEMMA FailureTails ==
    /\ Head(F1) = "calibration.csv" /\ Tail(F1) = F2
    /\ Head(F2) = Calibration /\ Tail(F2) = F3
    /\ Head(F3) = Bundle /\ Tail(F3) = F4
    /\ Head(F4) = "scorecard" /\ Tail(F4) = F5
    /\ Head(F5) = "model" /\ Tail(F5) = F6
    /\ Head(F6) = "result" /\ Tail(F6) = F7
    /\ Head(F7) = "hash-manifest" /\ Len(F7) = 1
  BY DEF F1, F2, F3, F4, F5, F6, F7, FailureOrder, Calibration, Bundle

(* Past its calibration a training has none of the lists it had before. *)
LEMMA ListsDiffer ==
    /\ T2 \notin {T1, F1, F2} /\ T3 \notin {T1, F1, F2} /\ F3 \notin {T1, F1, F2}
    /\ F4 \notin {T1, F1, F2} /\ F5 \notin {T1, F1, F2} /\ F6 \notin {T1, F1, F2}
    /\ F7 \notin {T1, F1, F2} /\ T1 # F1 /\ F2 # F1
  BY TrainTails, FailureTails DEF Calibration, Bundle

(* A training works through its list, and nobody else publishes its files. *)
TrainsInOrder(c) ==
    IF c.does = "train"
    THEN \/ c.on \in Feasible /\ c.left \in {T1, T2, T3}
         \/ c.on \notin Feasible /\ c.left \in {F1, F2, F3, F4, F5, F6, F7}
    ELSE \A i \in 1..Len(c.left) : c.left[i] \notin {Calibration, Bundle}

(* The calibration of a training that has come past it is the one on disk. *)
Calibrated(c) ==
    c.does = "train" =>
        /\ c.left \notin {T1, F1, F2} =>
               OnDisk(Calibration) /\ published[Calibration].of = c.on
        /\ c.at = "renamed" /\ c.left \in {T1, F2} =>
               Calibration \in DOMAIN published /\ published[Calibration].of = c.on

Trainings ==
    \A o \in Operators : TrainsInOrder(command[o]) /\ Calibrated(command[o])

FeasibleOnDisk == OnDisk(Calibration) /\ published[Calibration].of \in Feasible

BundleCalibrated ==
    /\ Bundle \in DOMAIN published => OnDisk(Calibration)
    /\ Alias(Bundle, "defender_ensemble") => published[Calibration].of \in Feasible

FailureInfeasible ==
    Alias("result", "no_promotion") =>
        OnDisk(Calibration) /\ published[Calibration].of \notin Feasible

PreparedFeasible ==
    (selected # {} \/ \E o \in Operators : command[o].does = "prepare") => FeasibleOnDisk

FeasibleInv ==
    /\ WorkflowInv
    /\ Trainings /\ BundleCalibrated /\ FailureInfeasible /\ PreparedFeasible

(* Where no command runs there is nothing to show of a training. *)
LEMMA NoCommandTrains == TrainsInOrder(NoCommand) /\ Calibrated(NoCommand)
  BY DEF TrainsInOrder, Calibrated, NoCommand

(* At first nothing is published: the invariant holds. *)
LEMMA FeasibleInit == WorkflowInit => FeasibleInv
<1> SUFFICES ASSUME WorkflowInit
             PROVE  FeasibleInv
  OBVIOUS
<1>1. command = [o \in Operators |-> NoCommand] /\ DOMAIN published = {} /\ selected = {}
  BY DEF WorkflowInit
<1>2. Trainings
  BY <1>1, NoCommandTrains DEF Trainings
<1>3. BundleCalibrated /\ FailureInfeasible
  BY <1>1 DEF BundleCalibrated, FailureInfeasible, Alias
<1>4. PreparedFeasible
  BY <1>1 DEF PreparedFeasible, NoCommand
<1> QED
  BY <1>2, <1>3, <1>4, WorkflowInitInv DEF FeasibleInv

(* A command begins, goes on or stops, and no file changes. *)
LEMMA FeasibleMoves ==
    ASSUME FeasibleInv, WorkflowInv', UNCHANGED <<published, unsynced, selected>>,
           NEW o \in Operators, NEW c, command' = [command EXCEPT ![o] = c],
           TrainsInOrder(c), c.at # "renamed",
           c.does = "train" => \/ c.left \in {T1, F1}
                               \/ /\ command[o].does = "train"
                                  /\ c.left = command[o].left /\ c.on = command[o].on,
           c.does = "prepare" => FeasibleOnDisk \/ command[o].does = "prepare"
    PROVE  FeasibleInv'
<1>1. \A p \in Operators : command'[p] = IF p = o THEN c ELSE command[p]
  BY DEF FeasibleInv, WorkflowInv, Commands
<1>2. BundleCalibrated' /\ FailureInfeasible' /\ FeasibleOnDisk' = FeasibleOnDisk
  BY DEF FeasibleInv, BundleCalibrated, FailureInfeasible, FeasibleOnDisk, OnDisk, Alias
<1>3. PreparedFeasible'
  <2>1. SUFFICES ASSUME selected' # {} \/ \E p \in Operators : command'[p].does = "prepare"
                 PROVE  FeasibleOnDisk
    BY <1>2 DEF PreparedFeasible
  <2>2. CASE selected' # {}
    BY <2>2 DEF FeasibleInv, PreparedFeasible
  <2>3. CASE \E p \in Operators : command'[p].does = "prepare"
    BY <1>1, <2>3 DEF FeasibleInv, PreparedFeasible
  <2> QED
    BY <2>1, <2>2, <2>3
<1>4. ASSUME NEW p \in Operators
      PROVE  TrainsInOrder(command'[p]) /\ Calibrated(command[p])'
  <2>1. CASE p = o
    <3>1. command'[p] = c
      BY <1>1, <2>1
    <3>2. c.does = "train" /\ c.left \notin {T1, F1, F2} =>
              OnDisk(Calibration) /\ published[Calibration].of = c.on
      BY <2>1 DEF FeasibleInv, Trainings, Calibrated
    <3> QED
      BY <3>1, <3>2 DEF Calibrated, OnDisk
  <2>2. CASE p # o
    <3>1. command'[p] = command[p]
      BY <1>1, <2>2
    <3> QED
      BY <3>1 DEF FeasibleInv, Trainings, Calibrated, OnDisk
  <2> QED
    BY <2>1, <2>2
<1>5. Trainings'
  BY <1>4 DEF Trainings, TrainsInOrder
<1> QED
  BY <1>2, <1>3, <1>5 DEF FeasibleInv

(* A command that ends, fails or is killed changes no file. *)
LEMMA FeasibleStop ==
    ASSUME FeasibleInv, WorkflowInv', UNCHANGED <<published, unsynced, selected>>,
           NEW o \in Operators, Stop(o)
    PROVE  FeasibleInv'
  BY NoCommandTrains, FeasibleMoves DEF Stop, NoCommand

(* A command that only goes on to its next step changes no file. *)
LEMMA FeasibleReach ==
    ASSUME FeasibleInv, WorkflowInv', UNCHANGED <<published, unsynced, selected>>,
           NEW o \in Operators, NEW at, at # "renamed", Reach(o, at)
    PROVE  FeasibleInv'
<1> DEFINE c == Moved(command[o], at, command[o].left)
<1>1. command' = [command EXCEPT ![o] = c]
  BY ReachMoves DEF FeasibleInv, WorkflowInv
<1>2. TrainsInOrder(c)
  BY DEF FeasibleInv, Trainings, TrainsInOrder, Moved
<1>3. /\ c.at = at /\ c.does = command[o].does /\ c.left = command[o].left
      /\ c.on = command[o].on
  BY DEF Moved
<1> QED
  BY <1>1, <1>2, <1>3, FeasibleMoves

(* A command begins: a training with its whole list, a preparation with a feasible
   defender on disk. *)
LEMMA FeasibleBegin ==
    ASSUME FeasibleInv, WorkflowInv', NEW o \in Operators, NEW does, NEW at, NEW on, NEW left,
           Begin(o, does, at, on, left), at # "renamed",
           does = "train" => \/ on \in Feasible /\ left = T1
                             \/ on \notin Feasible /\ left = F1,
           does # "train" => \A i \in 1..Len(left) : left[i] \notin {Calibration, Bundle},
           does = "prepare" => FeasibleOnDisk
    PROVE  FeasibleInv'
<1> DEFINE c == [does |-> does, at |-> at, on |-> on, left |-> left, no |-> begun'[does]]
<1>1. command' = [command EXCEPT ![o] = c] /\ UNCHANGED <<published, unsynced, selected>>
  BY DEF Begin, fileVars
<1>2. TrainsInOrder(c)
  <2>1. CASE does = "train"
    BY <2>1 DEF TrainsInOrder
  <2>2. CASE does # "train"
    BY <2>2 DEF TrainsInOrder
  <2> QED
    BY <2>1, <2>2
<1>3. c.does = does /\ c.at = at /\ c.on = on /\ c.left = left
  OBVIOUS
<1> HIDE DEF c
<1> QED
  BY <1>1, <1>2, <1>3, FeasibleMoves

(* The orders of the commands that are no training hold no file of a training. *)
LEMMA OrdersApart ==
    \A left \in {GenerateOrder, BuildOrder, <<"hidden-context">>, ReleaseOrder, <<>>} :
        \A i \in 1..Len(left) : left[i] \notin {Calibration, Bundle}
<1>1. \A i \in 1..Len(GenerateOrder) : GenerateOrder[i] \notin {Calibration, Bundle}
  BY DEF GenerateOrder, Calibration, Bundle
<1>2. \A i \in 1..Len(BuildOrder) : BuildOrder[i] \notin {Calibration, Bundle}
  BY DEF BuildOrder, Calibration, Bundle
<1>3. \A i \in 1..Len(<<"hidden-context">>) :
          <<"hidden-context">>[i] \notin {Calibration, Bundle}
  BY DEF Calibration, Bundle
<1>4. \A i \in 1..Len(ReleaseOrder) : ReleaseOrder[i] \notin {Calibration, Bundle}
  BY DEF ReleaseOrder, Calibration, Bundle
<1>5. \A i \in 1..Len(<<>>) : <<>>[i] \notin {Calibration, Bundle}
  OBVIOUS
<1> QED
  BY <1>1, <1>2, <1>3, <1>4, <1>5

(* Each of the commands begins so; a preparation has read the defender's alias. *)
LEMMA FeasibleBeginnings ==
    ASSUME FeasibleInv, WorkflowInv', NEW o \in Operators,
           \/ Generate(o) \/ Build(o) \/ Prepare(o)
           \/ \E c \in Checkouts : Train(o, c)
           \/ \E named \in BOOLEAN : Release(o, named)
    PROVE  FeasibleInv'
<1>1. CASE Generate(o)
  BY <1>1, FeasibleBegin, OrdersApart DEF Generate
<1>2. CASE Build(o)
  BY <1>2, FeasibleBegin, OrdersApart DEF Build
<1>3. CASE Prepare(o)
  <2> DEFINE on == [context |-> begun["prepare"] + 1,
                    defender |-> published["defender-bundle"].of]
  <2>1. Begin(o, "prepare", "publishing", on, <<"hidden-context">>)
    BY <1>3 DEF Prepare
  <2>2. FeasibleOnDisk
    BY <1>3 DEF Prepare, DefenderAlias, FeasibleInv, BundleCalibrated, FeasibleOnDisk,
       Alias, Bundle
  <2> HIDE DEF on
  <2> QED
    BY <2>1, <2>2, FeasibleBegin, OrdersApart
<1>4. CASE \E c \in Checkouts : Train(o, c)
  <2>1. PICK c \in Checkouts : Train(o, c)
    BY <1>4
  <2>2. CASE c \in Feasible
    BY <2>1, <2>2, FeasibleBegin DEF Train, T1
  <2>3. CASE c \notin Feasible
    BY <2>1, <2>3, FeasibleBegin DEF Train, F1
  <2> QED
    BY <2>2, <2>3
<1>5. CASE \E named \in BOOLEAN : Release(o, named)
  <2>1. PICK named \in BOOLEAN : Release(o, named)
    BY <1>5
  <2> DEFINE on == published["hidden-context"].of
             left == IF named THEN ReleaseOrder ELSE <<>>
  <2>2. Begin(o, "release", "opening", on, left)
    BY <2>1 DEF Release
  <2>3. left \in {ReleaseOrder, <<>>}
    OBVIOUS
  <2> HIDE DEF on, left
  <2> QED
    BY <2>2, <2>3, FeasibleBegin, OrdersApart
<1> QED
  BY <1>1, <1>2, <1>3, <1>4, <1>5

(* Which file a training comes to, and which list is left after it. *)
LEMMA TrainingTail ==
    ASSUME NEW c, c.does = "train", TrainsInOrder(c), Len(c.left) # 1
    PROVE  /\ TrainsInOrder(Moved(c, "publishing", Tail(c.left)))
           /\ Tail(c.left) \in {T1, F1, F2} \/ c.left \in {T1, F2} \/ c.left \notin {T1, F1, F2}
<1>1. \/ c.on \in Feasible /\ c.left \in {T1, T2}
      \/ c.on \notin Feasible /\ c.left \in {F1, F2, F3, F4, F5, F6}
  BY TrainTails, FailureTails DEF TrainsInOrder
<1>2. \/ c.on \in Feasible /\ Tail(c.left) \in {T2, T3}
      \/ c.on \notin Feasible /\ Tail(c.left) \in {F2, F3, F4, F5, F6, F7}
  BY <1>1, TrainTails, FailureTails
<1>3. TrainsInOrder(Moved(c, "publishing", Tail(c.left)))
  BY <1>2 DEF TrainsInOrder, Moved
<1>4. c.left = F1 => Tail(c.left) = F2
  BY FailureTails
<1> QED
  BY <1>3, <1>4

(* Only a training that has come to it publishes the calibration, the defender or a
   failure, and the defender and the failure after the calibration. *)
LEMMA TrainingHead ==
    ASSUME NEW c, TrainsInOrder(c), c.left \in Seq(Names), c.left # <<>>
    PROVE  LET f == Head(c.left)
           IN  /\ f = Calibration => c.does = "train" /\ c.left \in {T1, F2}
               /\ c.does = "train" /\ c.left \in {T1, F2} => f = Calibration
               /\ f = Bundle => c.does = "train" /\ c.left \notin {T1, F1, F2}
               /\ c.does = "train" /\ f = "result" =>
                      c.on \notin Feasible /\ c.left \notin {T1, F1, F2}
<1> DEFINE f == Head(c.left)
<1>1. CASE c.does # "train"
  <2>1. 1 \in 1..Len(c.left) /\ f = c.left[1]
    BY EmptySeq
  <2> QED
    BY <1>1, <2>1 DEF TrainsInOrder
<1>2. CASE c.does = "train" /\ c.on \in Feasible
  BY <1>2, TrainTails, ListsDiffer DEF TrainsInOrder, Calibration, Bundle
<1>3. CASE c.does = "train" /\ c.on \notin Feasible
  BY <1>3, FailureTails, ListsDiffer DEF TrainsInOrder, Calibration, Bundle
<1> QED
  BY <1>1, <1>2, <1>3

(* What a training publishes tells which checkout it ran in. *)
LEMMA TrainingContent ==
    ASSUME NEW o \in Operators
    PROVE  /\ ContentOf(o, Calibration).of = command[o].on
           /\ ContentOf(o, Bundle).kind = "defender_ensemble" => command[o].on \in Feasible
           /\ ContentOf(o, "result").kind = "no_promotion" => command[o].does = "train"
<1>1. ContentOf(o, Calibration).of = command[o].on
  BY DEF ContentOf, Content, Calibration, TrainingFiles, ReportFiles
<1>2. ContentOf(o, Bundle).kind = "defender_ensemble" => command[o].on \in Feasible
  BY DEF ContentOf, Content, Bundle, TrainingFiles, ReportFiles
<1>3. ContentOf(o, "result").kind = "no_promotion" => command[o].does = "train"
  BY DEF ContentOf, Content, TrainingFiles, ReportFiles
<1> QED
  BY <1>1, <1>2, <1>3

(* A power loss takes no calibration on which another file relies. *)
LEMMA FeasibleOutage ==
    ASSUME FeasibleInv, WorkflowInv', Outage
    PROVE  FeasibleInv'
<1>1. command' = [o \in Operators |-> NoCommand] /\ selected' = selected
  BY DEF Outage, evidenceVars
<1>2. PICK lost \in SUBSET unsynced :
          published' = [f \in DOMAIN published \ lost |-> published[f]]
  BY DEF Outage
<1>3. OnDisk(Calibration) =>
          OnDisk(Calibration)' /\ published'[Calibration] = published[Calibration]
  BY <1>2 DEF Outage, OnDisk
<1>4. \A f \in DOMAIN published' : f \in DOMAIN published /\ published'[f] = published[f]
  BY <1>2
<1>5. BundleCalibrated' /\ FailureInfeasible'
  BY <1>3, <1>4 DEF FeasibleInv, BundleCalibrated, FailureInfeasible, Alias
<1>6. Trainings'
  BY <1>1 DEF Trainings, TrainsInOrder, Calibrated, NoCommand
<1>7. PreparedFeasible'
  BY <1>1, <1>3 DEF FeasibleInv, PreparedFeasible, FeasibleOnDisk, NoCommand
<1> QED
  BY <1>5, <1>6, <1>7 DEF FeasibleInv

(* A file that is published relies on a calibration that is on disk, which the rename
   cannot replace. *)
LEMMA FeasiblePublish ==
    ASSUME FeasibleInv, WorkflowInv', NEW o \in Operators, PublishFile(o)
    PROVE  FeasibleInv'
<1> DEFINE b == command[o]
           f == Head(b.left)
           c == Moved(b, "renamed", b.left)
<1>1. CASE f \in DOMAIN published
  BY <1>1, FeasibleStop DEF PublishFile, evidenceVars
<1>2. CASE f \notin DOMAIN published
  <2>1. Put(f, ContentOf(o, f)) /\ Reach(o, "renamed") /\ b.at = "staged" /\ selected' = selected
    BY <1>2 DEF PublishFile, evidenceVars
  <2>2. \A p \in Operators : command'[p] = IF p = o THEN c ELSE command[p]
    BY <2>1, ReachMoves DEF FeasibleInv, WorkflowInv, Commands
  <2>3. /\ DOMAIN published' = DOMAIN published \union {f}
        /\ published'[f] = ContentOf(o, f)
        /\ \A g \in DOMAIN published : published'[g] = published[g]
        /\ unsynced' = unsynced \union {f}
    BY <1>2, <2>1 DEF Put
  <2>4. OnDisk(Calibration) =>
            OnDisk(Calibration)' /\ published'[Calibration] = published[Calibration]
    BY <1>2, <2>3 DEF OnDisk
  <2>5. TrainsInOrder(b) /\ Calibrated(b) /\ b.left \in Seq(Names) /\ b.left # <<>>
    BY <2>1 DEF FeasibleInv, Trainings, WorkflowInv, Commands, ProperCommand
  <2>6. /\ f = Calibration => b.does = "train" /\ b.left \in {T1, F2}
        /\ b.does = "train" /\ b.left \in {T1, F2} => f = Calibration
        /\ f = Bundle => b.does = "train" /\ b.left \notin {T1, F1, F2}
        /\ b.does = "train" /\ f = "result" =>
               b.on \notin Feasible /\ b.left \notin {T1, F1, F2}
    BY <2>5, TrainingHead
  <2>7. BundleCalibrated'
    <3>1. CASE f = Bundle
      <4>1. OnDisk(Calibration) /\ published[Calibration].of = b.on
        BY <2>5, <2>6, <3>1 DEF Calibrated
      <4> QED
        BY <2>3, <2>4, <3>1, <4>1, TrainingContent DEF BundleCalibrated, Alias
    <3>2. CASE f # Bundle
      BY <2>3, <2>4, <3>2 DEF FeasibleInv, BundleCalibrated, Alias
    <3> QED
      BY <3>1, <3>2
  <2>8. FailureInfeasible'
    <3>1. CASE f = "result"
      <4>1. ASSUME ContentOf(o, f).kind = "no_promotion"
            PROVE  /\ OnDisk(Calibration) /\ published[Calibration].of = b.on
                   /\ b.on \notin Feasible
        BY <2>5, <2>6, <3>1, <4>1, TrainingContent DEF Calibrated
      <4> QED
        BY <2>3, <2>4, <3>1, <4>1 DEF FailureInfeasible, Alias
    <3>2. CASE f # "result"
      BY <2>3, <2>4, <3>2 DEF FeasibleInv, FailureInfeasible, Alias
    <3> QED
      BY <3>1, <3>2
  <2>9. PreparedFeasible'
    <3>1. c.does = b.does
      BY DEF Moved
    <3> QED
      BY <2>1, <2>2, <2>4, <3>1 DEF FeasibleInv, PreparedFeasible, FeasibleOnDisk
  <2>10. ASSUME NEW p \in Operators
         PROVE  TrainsInOrder(command'[p]) /\ Calibrated(command[p])'
    <3>1. CASE p = o
      <4>1. /\ command'[p] = c /\ c.does = b.does /\ c.left = b.left /\ c.on = b.on
        BY <2>2, <3>1 DEF Moved
      <4>2. b.does = "train" /\ b.left \notin {T1, F1, F2} =>
                OnDisk(Calibration)' /\ published'[Calibration].of = b.on
        BY <2>4, <2>5 DEF Calibrated
      <4>3. b.does = "train" /\ b.left \in {T1, F2} =>
                Calibration \in DOMAIN published' /\ published'[Calibration].of = b.on
        BY <2>3, <2>6, TrainingContent
      <4> QED
        BY <2>5, <4>1, <4>2, <4>3 DEF TrainsInOrder, Calibrated
    <3>2. CASE p # o
      BY <2>2, <2>3, <2>4, <3>2 DEF FeasibleInv, Trainings, Calibrated
    <3> QED
      BY <3>1, <3>2
  <2>11. Trainings'
    BY <2>10 DEF Trainings, TrainsInOrder
  <2> QED
    BY <2>7, <2>8, <2>9, <2>11 DEF FeasibleInv
<1> QED
  BY <1>1, <1>2

(* A training goes past its calibration only when that is on disk. *)
LEMMA FeasibleSync ==
    ASSUME FeasibleInv, WorkflowInv', NEW o \in Operators, SyncDirectory(o)
    PROVE  FeasibleInv'
<1> DEFINE b == command[o]
           f == Head(b.left)
           c == IF Len(b.left) = 1 THEN NoCommand ELSE Moved(b, "publishing", Tail(b.left))
<1>1. PICK d \in Directories : f \in d /\ unsynced' = unsynced \ d
  BY DEF SyncDirectory
<1>2. /\ b.at = "renamed" /\ published' = published
      /\ selected' = IF b.does = "prepare" THEN selected \union {b.on} ELSE selected
  BY DEF SyncDirectory, NextFile
<1>3. TrainsInOrder(b) /\ Calibrated(b) /\ ProperCommand(b) /\ b.left # <<>>
  BY <1>2 DEF FeasibleInv, Trainings, WorkflowInv, Commands, ProperCommand
<1>4. command' = [command EXCEPT ![o] = c]
  <2>1. CASE Len(b.left) = 1
    BY <2>1 DEF SyncDirectory, NextFile, Stop
  <2>2. CASE Len(b.left) # 1
    <3>1. command' = [command EXCEPT ![o] = [b EXCEPT !.at = "publishing", !.left = Tail(@)]]
      BY <2>2 DEF SyncDirectory, NextFile
    <3>2. b = [does |-> b.does, at |-> b.at, on |-> b.on, left |-> b.left, no |-> b.no]
      BY <1>3 DEF ProperCommand
    <3>3. [b EXCEPT !.at = "publishing", !.left = Tail(@)] = c
      BY <2>2, <3>2, MovedOn
    <3> QED
      BY <3>1, <3>3
  <2> QED
    BY <2>1, <2>2
<1>5. \A p \in Operators : command'[p] = IF p = o THEN c ELSE command[p]
  BY <1>4 DEF FeasibleInv, WorkflowInv, Commands
<1>6. OnDisk(Calibration) => OnDisk(Calibration)'
  BY <1>1, <1>2 DEF OnDisk
<1>7. BundleCalibrated' /\ FailureInfeasible'
  BY <1>2, <1>6 DEF FeasibleInv, BundleCalibrated, FailureInfeasible, Alias
<1>8. PreparedFeasible'
  <2>1. c.does = "prepare" => b.does = "prepare"
    BY DEF Moved, NoCommand
  <2> QED
    BY <1>2, <1>5, <1>6, <2>1 DEF FeasibleInv, PreparedFeasible, FeasibleOnDisk
<1>9. TrainsInOrder(c) /\ c.at # "renamed" /\ (c.does = "train" =>
          (c.left \notin {T1, F1, F2} =>
               OnDisk(Calibration)' /\ published'[Calibration].of = c.on))
  <2>1. CASE Len(b.left) = 1
    BY <2>1, NoCommandTrains DEF NoCommand
  <2>2. CASE Len(b.left) # 1 /\ b.does # "train"
    <3>1. Tail(b.left) \in Seq(Names) /\ b.left \in Seq(Names)
      BY <1>3, <2>2, TailStays DEF ProperCommand
    <3>2. \A i \in 1..Len(Tail(b.left)) : Tail(b.left)[i] = b.left[i + 1] /\ i + 1 \in 1..Len(b.left)
      BY <1>3, <3>1, HeadTailProperties
    <3>3. TrainsInOrder(Moved(b, "publishing", Tail(b.left)))
      BY <1>3, <2>2, <3>2 DEF TrainsInOrder, Moved
    <3> QED
      BY <2>2, <3>3 DEF Moved
  <2>3. CASE Len(b.left) # 1 /\ b.does = "train"
    <3>1. /\ TrainsInOrder(Moved(b, "publishing", Tail(b.left)))
          /\ \/ Tail(b.left) \in {T1, F1, F2}
             \/ b.left \in {T1, F2} \/ b.left \notin {T1, F1, F2}
      BY <1>3, <2>3, TrainingTail
    <3>2. c.at = "publishing" /\ c.left = Tail(b.left) /\ c.on = b.on
      BY <2>3 DEF Moved
    <3>3. CASE b.left \in {T1, F2}
      <4>1. f = Calibration
        BY <3>3, TrainTails, FailureTails
      <4>2. Calibration \in DOMAIN published /\ published[Calibration].of = b.on
        BY <1>2, <1>3, <2>3, <3>3 DEF Calibrated
      <4>3. OnDisk(Calibration)'
        BY <1>1, <1>2, <4>1, <4>2 DEF OnDisk
      <4> QED
        BY <1>2, <2>3, <3>1, <3>2, <4>2, <4>3
    <3>4. CASE b.left \notin {T1, F1, F2}
      BY <1>2, <1>3, <1>6, <2>3, <3>1, <3>2, <3>4 DEF Calibrated
    <3>5. CASE Tail(b.left) \in {T1, F1, F2}
      BY <2>3, <3>1, <3>2, <3>5
    <3> QED
      BY <3>1, <3>3, <3>4, <3>5
  <2> QED
    BY <2>1, <2>2, <2>3
<1>10. ASSUME NEW p \in Operators
       PROVE  TrainsInOrder(command'[p]) /\ Calibrated(command[p])'
  <2>1. CASE p = o
    <3>1. command'[p] = c
      BY <1>5, <2>1
    <3> HIDE DEF c
    <3> QED
      BY <1>9, <3>1 DEF Calibrated
  <2>2. CASE p # o
    BY <1>2, <1>5, <1>6, <2>2 DEF FeasibleInv, Trainings, Calibrated
  <2> QED
    BY <2>1, <2>2
<1>11. Trainings'
  BY <1>10 DEF Trainings, TrainsInOrder
<1> QED
  BY <1>7, <1>8, <1>11 DEF FeasibleInv

(* Every step of the workflow keeps the invariant of the trainings. *)
LEMMA FeasibleStep == FeasibleInv /\ [WorkflowNext]_workflowVars => FeasibleInv'
<1> SUFFICES ASSUME FeasibleInv, [WorkflowNext]_workflowVars
             PROVE  FeasibleInv'
  OBVIOUS
<1>0. WorkflowInv'
  BY WorkflowStepInv DEF FeasibleInv
<1>1. CASE \E o \in Operators : OpenHidden(o)
  BY <1>0, <1>1, FeasibleStop, FeasibleReach DEF OpenHidden, fileVars
<1>2. CASE \E o \in Operators : Preflight(o)
  BY <1>0, <1>2, FeasibleStop, FeasibleReach DEF Preflight, fileVars, evidenceVars
<1>3. CASE \E o \in Operators : Stage(o)
  BY <1>0, <1>3, FeasibleStop, FeasibleReach DEF Stage, fileVars, evidenceVars
<1>4. CASE \E o \in Operators : PublishFile(o)
  BY <1>0, <1>4, FeasiblePublish
<1>5. CASE \E o \in Operators : SyncDirectory(o)
  BY <1>0, <1>5, FeasibleSync
<1>6. CASE \E o \in Operators : CommandFails(o) \/ KillWriting(o)
  BY <1>0, <1>6, FeasibleStop DEF CommandFails, KillWriting, fileVars, evidenceVars
<1>7. CASE \E o \in Operators :
               \/ Generate(o) \/ Build(o) \/ Prepare(o)
               \/ \E c \in Checkouts : Train(o, c)
               \/ \E named \in BOOLEAN : Release(o, named)
  BY <1>0, <1>7, FeasibleBeginnings
<1>8. CASE UNCHANGED <<published, unsynced, command, selected>>
  BY <1>0, <1>8 DEF FeasibleInv, Trainings, TrainsInOrder, Calibrated, BundleCalibrated,
     FailureInfeasible, PreparedFeasible, FeasibleOnDisk, OnDisk, Alias
<1>9. CASE Outage
  BY <1>0, <1>9, FeasibleOutage
<1> QED
  BY <1>1, <1>2, <1>3, <1>4, <1>5, <1>6, <1>7, <1>8, <1>9
     DEF WorkflowNext, workflowVars, fileVars, evidenceVars, Develop

(* However many preparations and releases race, fail, are killed or repeated, the
   truth of one hidden context is opened, for one defender; and it is never opened
   once the failure of a training was published, nor the other way round. *)
THEOREM HiddenAlwaysOpenedOnce == WorkflowSpec => []HiddenOpenedOnce
<1>1. WorkflowInv => OneHiddenOpened
  BY DEF WorkflowInv, SelectedStays, OneHiddenOpened
<1>2. FeasibleInv => FailureUnopened
  BY DEF FeasibleInv, FailureInfeasible, PreparedFeasible, FeasibleOnDisk, WorkflowInv,
     FailureUnopened
<1>3. FeasibleInv => HiddenOpenedOnce
  BY <1>1, <1>2 DEF FeasibleInv, HiddenOpenedOnce
<1> QED
  BY <1>3, FeasibleInit, FeasibleStep, PTL DEF WorkflowSpec

(* What a command published and synced is never replaced or lost, whatever other
   commands publish and wherever the machine stops. *)
THEOREM PublishedForever ==
    WorkflowSpec =>
        [][\A f \in DOMAIN published \ unsynced :
               f \in DOMAIN published' \ unsynced' /\ published'[f] = published[f]]_workflowVars
<1>1. ASSUME [WorkflowNext]_workflowVars
      PROVE  [\A f \in DOMAIN published \ unsynced :
                  f \in DOMAIN published' \ unsynced'
                  /\ published'[f] = published[f]]_workflowVars
  BY <1>1, SyncedStays DEF OnDisk
<1> QED
  BY <1>1, PTL DEF WorkflowSpec
-----------------------------------------------------------------------------
(***************************************************************************)
(* Why the hashes hold.  The three lists that lead to a release or to a     *)
(* failure begin with a file that only one command can publish; a command   *)
(* that has come past it finds what it publishes afterwards to be its own,  *)
(* synced file by file, and the first sync of an export also secures what   *)
(* its preflight has seen.  The hashes come last in their list.             *)
(***************************************************************************)
Evaluation == "calibration.csv"
Hashes == "hash-manifest"

FilesOf(s) == {s[i] : i \in 1..Len(s)}

(* What a release still has to publish. *)
R1 == ReleaseOrder
R2 == <<"scorecard", "result", "hash-manifest">>
R3 == F6
R4 == F7

OrderOf(c) ==
    IF c.does = "release" THEN R1 ELSE IF c.on \in Feasible THEN T1 ELSE F1

Publishing(c) == c.does \in {"train", "release"} /\ c.left # <<>>
Exporting(c) == Publishing(c) /\ OrderOf(c) # T1

(* Which files a command of each kind may come to. *)
InOrder(c) ==
    /\ c.does = "release" => c.left \in {R1, R2, R3, R4, <<>>}
    /\ c.at \in {"opening", "preflight"} => c.left \in {OrderOf(c), <<>>}
    /\ c.does \notin {"train", "release"} =>
           FilesOf(c.left) \cap (TrainingFiles \cup ReportFiles \cup {"result", Hashes}) = {}

(* The files a command has published and synced. *)
Past(c) == IF Publishing(c) THEN FilesOf(OrderOf(c)) \ FilesOf(c.left) ELSE {}

Bears(c, f) == published[f].of = IF f \in ReportFiles THEN c.no ELSE c.on

ItsOwn(c) ==
    /\ \A f \in Past(c) \ {Hashes} : OnDisk(f) /\ Bears(c, f)
    /\ c.at = "renamed" /\ Publishing(c) /\ Head(c.left) # Hashes =>
           Head(c.left) \in DOMAIN published /\ Bears(c, Head(c.left))

(* What the preflight of an export has seen stays, and is soon on disk. *)
Base(c) == IF c.does = "release" THEN CorpusFiles \cup TrainingFiles ELSE CorpusFiles

Grounded(c) ==
    Exporting(c) =>
        /\ c.at \in {"publishing", "staged", "renamed"} => Base(c) \subseteq DOMAIN published
        /\ c.left # OrderOf(c) => \A f \in Base(c) : OnDisk(f)

(* A release that publishes is about the defender it read, and has opened its
   context. *)
Vouched(c) ==
    c.does = "release" /\ c.left # <<>> =>
        /\ DefenderAlias /\ published[Bundle].of = c.on.defender
        /\ c.at # "opening" => c.on \in opened

Sound(c) == InOrder(c) /\ ItsOwn(c) /\ Grounded(c) /\ Vouched(c)

(* The files agree with what they rest on, which is on disk. *)
ModelsCalibrated ==
    \A f \in {"model", Bundle} \cap DOMAIN published :
        OnDisk(Calibration) /\ published[f].of = published[Calibration].of

DefenderKind ==
    Bundle \in DOMAIN published =>
        published[Bundle].kind = IF published[Bundle].of \in Feasible THEN "defender_ensemble"
                                 ELSE "infeasible_candidate"

ReportsTogether ==
    "scorecard" \in DOMAIN published =>
        OnDisk(Evaluation) /\ published["scorecard"].of = published[Evaluation].of

ResultRests ==
    "result" \in DOMAIN published =>
        /\ OnDisk(Bundle)
        /\ \/ /\ Alias("result", "evaluated") /\ DefenderAlias
              /\ published["result"].of \in opened
              /\ published["result"].of.defender = published[Bundle].of
           \/ /\ Alias("result", "no_promotion") /\ Alias(Bundle, "infeasible_candidate")
              /\ published["result"].of = published[Bundle].of

HashesLast ==
    Hashes \in DOMAIN published =>
        /\ \A f \in FixtureFiles \cup {"result"} : OnDisk(f)
        /\ published[Hashes].of = [f \in FixtureFiles |-> published[f]]

Woven == ModelsCalibrated /\ DefenderKind /\ ReportsTogether /\ ResultRests /\ HashesLast

ReleaseInv ==
    /\ FeasibleInv
    /\ \A o \in Operators : Sound(command[o])
    /\ Woven

(* A list of files is its first file and the list of the others. *)
LEMMA FilesUnfold ==
    ASSUME NEW s \in Seq(Names), s # <<>>
    PROVE  FilesOf(s) = {Head(s)} \cup FilesOf(Tail(s))
<1>1. /\ Len(s) \in Nat /\ Len(s) >= 1 /\ Head(s) = s[1]
      /\ Len(Tail(s)) = Len(s) - 1
      /\ \A i \in 1..(Len(s) - 1) : Tail(s)[i] = s[i + 1]
  BY EmptySeq, LenProperties, HeadTailProperties
<1>2. ASSUME NEW f \in FilesOf(s)
      PROVE  f \in {Head(s)} \cup FilesOf(Tail(s))
  <2>1. PICK i \in 1..Len(s) : f = s[i]
    BY DEF FilesOf
  <2>2. CASE i = 1
    BY <1>1, <2>1, <2>2
  <2>3. CASE i # 1
    <3>1. i - 1 \in 1..(Len(s) - 1) /\ Tail(s)[i - 1] = f
      BY <1>1, <2>1, <2>3
    <3> QED  BY <1>1, <3>1 DEF FilesOf
  <2> QED  BY <2>2, <2>3
<1>3. ASSUME NEW f \in {Head(s)} \cup FilesOf(Tail(s))
      PROVE  f \in FilesOf(s)
  <2>1. CASE f = Head(s)
    BY <1>1, <2>1 DEF FilesOf
  <2>2. CASE f \in FilesOf(Tail(s))
    <3>1. PICK i \in 1..(Len(s) - 1) : f = Tail(s)[i]
      BY <1>1, <2>2 DEF FilesOf
    <3>2. i + 1 \in 1..Len(s) /\ s[i + 1] = f
      BY <1>1, <3>1
    <3> QED  BY <3>2 DEF FilesOf
  <2> QED  BY <2>1, <2>2
<1> QED  BY <1>2, <1>3

(* The lists of an export, as sets. *)
LEMMA ListFiles ==
    /\ FilesOf(F7) = {Hashes}
    /\ FilesOf(F6) = {"result", Hashes}
    /\ FilesOf(F4) = {"scorecard", "model", "result", Hashes}
    /\ FilesOf(F1) = (FixtureFiles \ CorpusFiles) \cup {"result", Hashes}
    /\ FilesOf(R2) = {"scorecard", "result", Hashes}
    /\ FilesOf(R1) = ReportFiles \cup {"result", Hashes}
<1>1. /\ F1 \in Seq(Names) /\ F2 \in Seq(Names) /\ F3 \in Seq(Names) /\ F4 \in Seq(Names)
      /\ F5 \in Seq(Names) /\ F6 \in Seq(Names) /\ F7 \in Seq(Names)
      /\ R1 \in Seq(Names) /\ R2 \in Seq(Names)
  BY DEF F1, F2, F3, F4, F5, F6, F7, R1, R2, FailureOrder, ReleaseOrder, Names
<1>2. /\ F1 # <<>> /\ F2 # <<>> /\ F3 # <<>> /\ F4 # <<>> /\ F5 # <<>> /\ F6 # <<>>
      /\ F7 # <<>> /\ R1 # <<>> /\ R2 # <<>>
  BY DEF F1, F2, F3, F4, F5, F6, F7, R1, R2, FailureOrder, ReleaseOrder
<1>3. FilesOf(F7) = {Hashes}
  BY DEF FilesOf, F7, Hashes
<1>4. FilesOf(F6) = {"result"} \cup FilesOf(F7)
  BY <1>1, <1>2, FilesUnfold, FailureTails
<1>5. FilesOf(F5) = {"model"} \cup FilesOf(F6)
  BY <1>1, <1>2, FilesUnfold, FailureTails
<1>6. FilesOf(F4) = {"scorecard"} \cup FilesOf(F5)
  BY <1>1, <1>2, FilesUnfold, FailureTails
<1>7. FilesOf(F3) = {Bundle} \cup FilesOf(F4)
  BY <1>1, <1>2, FilesUnfold, FailureTails
<1>8. FilesOf(F2) = {Calibration} \cup FilesOf(F3)
  BY <1>1, <1>2, FilesUnfold, FailureTails
<1>9. FilesOf(F1) = {Evaluation} \cup FilesOf(F2)
  BY <1>1, <1>2, FilesUnfold, FailureTails DEF Evaluation
<1>10. Head(R2) = "scorecard" /\ Tail(R2) = F6 /\ Head(R1) = Evaluation /\ Tail(R1) = R2
  BY DEF R1, R2, F6, ReleaseOrder, Evaluation
<1>11. FilesOf(R2) = {"scorecard"} \cup FilesOf(F6)
  BY <1>1, <1>2, <1>10, FilesUnfold
<1>12. FilesOf(R1) = {Evaluation} \cup FilesOf(R2)
  BY <1>1, <1>2, <1>10, FilesUnfold
<1>13. FilesOf(F1) = (FixtureFiles \ CorpusFiles) \cup {"result", Hashes}
  BY <1>3, <1>4, <1>5, <1>6, <1>7, <1>8, <1>9
     DEF FixtureFiles, CorpusFiles, TrainingFiles, ReportFiles, Evaluation, Calibration, Bundle
<1> QED
  BY <1>3, <1>4, <1>5, <1>6, <1>11, <1>12, <1>13 DEF ReportFiles, Evaluation

(* The list of a release, file by file. *)
LEMMA ReleaseTails ==
    /\ Head(R1) = Evaluation /\ Tail(R1) = R2
    /\ Head(R2) = "scorecard" /\ Tail(R2) = R3
    /\ Head(R3) = "result" /\ Tail(R3) = R4
    /\ Head(R4) = Hashes /\ Len(R4) = 1
    /\ R1 \notin {R2, R3, R4, T1}
<1>1. /\ Head(R1) = Evaluation /\ Tail(R1) = R2
      /\ Head(R2) = "scorecard" /\ Tail(R2) = R3
      /\ Head(R3) = "result" /\ Tail(R3) = R4
      /\ Head(R4) = Hashes /\ Len(R4) = 1
  BY DEF R1, R2, R3, R4, F6, F7, ReleaseOrder, Evaluation, Hashes
<1>2. Head(T1) = "calibration.json"
  BY TrainTails DEF Calibration
<1> QED  BY <1>1, <1>2 DEF Evaluation, Hashes

(* What a command has come past when it comes to a file that others rest on. *)
LEMMA ComesAfter ==
    ASSUME NEW c, TrainsInOrder(c), InOrder(c), c.left \in Seq(Names), c.left # <<>>
    PROVE  LET f == Head(c.left)
           IN  /\ f \in TrainingFiles \cup ReportFiles \cup {"result", Hashes} => Publishing(c)
               /\ f = "model" => c.does = "train" /\ c.left \notin {T1, F1, F2}
               /\ f = "scorecard" => Evaluation \in Past(c)
               /\ f \in {"result", Hashes} => Exporting(c) /\ c.left # OrderOf(c)
               /\ f = "result" /\ c.does = "train" => c.on \notin Feasible /\ Bundle \in Past(c)
               /\ f = Hashes =>
                      FixtureFiles \cup {"result"} \subseteq Base(c) \cup (Past(c) \ {Hashes})
<1> DEFINE f == Head(c.left)
<1>1. CASE c.does \notin {"train", "release"}
  <2>1. f \in FilesOf(c.left)
    BY FilesUnfold
  <2>2. f \notin TrainingFiles \cup ReportFiles \cup {"result", Hashes}
    BY <1>1, <2>1 DEF InOrder
  <2> QED  BY <2>2 DEF TrainingFiles, ReportFiles
<1>2. CASE c.does = "train" /\ c.on \in Feasible
  <2>1. c.left \in {T1, T2, T3} /\ Publishing(c)
    BY <1>2 DEF TrainsInOrder, Publishing
  <2>2. f \notin {"scorecard", "result", Hashes}
    BY <2>1, TrainTails DEF Calibration, Bundle, Hashes
  <2>3. f = "model" => c.left = T2
    BY <2>1, TrainTails DEF Calibration, Bundle
  <2> QED  BY <1>2, <2>1, <2>2, <2>3, ListsDiffer
<1>3. CASE c.does = "train" /\ c.on \notin Feasible
  <2>1. c.left \in {F1, F2, F3, F4, F5, F6, F7} /\ Publishing(c)
    BY <1>3 DEF TrainsInOrder, Publishing
  <2>2. OrderOf(c) = F1 /\ Exporting(c)
    BY <1>3, <2>1, ListsDiffer DEF OrderOf, Exporting
  <2>3. Past(c) = FilesOf(F1) \ FilesOf(c.left) /\ Base(c) = CorpusFiles
    BY <1>3, <2>1, <2>2 DEF Past, Base
  <2>4. /\ f = "model" => c.left = F5
        /\ f = "scorecard" => c.left = F4
        /\ f = "result" => c.left = F6
        /\ f = Hashes => c.left = F7
    BY <2>1, FailureTails DEF Calibration, Bundle, Hashes
  <2>5. f = "scorecard" => Evaluation \in Past(c)
    BY <2>3, <2>4, ListFiles DEF Evaluation, FixtureFiles, CorpusFiles, TrainingFiles, ReportFiles, Hashes
  <2>6. f = "result" => Bundle \in Past(c)
    BY <2>3, <2>4, ListFiles DEF Bundle, FixtureFiles, CorpusFiles, TrainingFiles, ReportFiles, Hashes
  <2>7. f = Hashes => FixtureFiles \cup {"result"} \subseteq Base(c) \cup (Past(c) \ {Hashes})
    BY <2>3, <2>4, ListFiles DEF FixtureFiles, CorpusFiles, TrainingFiles, ReportFiles, Hashes
  <2> QED  BY <1>3, <2>1, <2>2, <2>4, <2>5, <2>6, <2>7, ListsDiffer
<1>4. CASE c.does = "release"
  <2>1. c.left \in {R1, R2, R3, R4} /\ Publishing(c)
    BY <1>4 DEF InOrder, Publishing
  <2>2. OrderOf(c) = R1 /\ Exporting(c)
    BY <1>4, <2>1, ReleaseTails DEF OrderOf, Exporting
  <2>3. Past(c) = FilesOf(R1) \ FilesOf(c.left) /\ Base(c) = CorpusFiles \cup TrainingFiles
    BY <1>4, <2>1, <2>2 DEF Past, Base
  <2>4. /\ f # "model"
        /\ f = "scorecard" => c.left = R2
        /\ f = "result" => c.left = R3
        /\ f = Hashes => c.left = R4
    BY <2>1, ReleaseTails DEF Evaluation, Hashes
  <2>5. f = "scorecard" => Evaluation \in Past(c)
    BY <2>3, <2>4, ListFiles DEF Evaluation, ReportFiles, Hashes
  <2>6. f = Hashes => FixtureFiles \cup {"result"} \subseteq Base(c) \cup (Past(c) \ {Hashes})
    BY <2>3, <2>4, ListFiles DEF R4, FixtureFiles, CorpusFiles, TrainingFiles, ReportFiles, Hashes
  <2> QED  BY <1>4, <2>1, <2>2, <2>4, <2>5, <2>6, ReleaseTails
<1> QED  BY <1>1, <1>2, <1>3, <1>4

-----------------------------------------------------------------------------
(* No file goes or changes, and what is on disk stays there. *)
FilesGrow ==
    /\ \A g \in DOMAIN published : g \in DOMAIN published' /\ published'[g] = published[g]
    /\ \A g \in DOMAIN published : g \notin unsynced => g \notin unsynced'
    /\ opened \subseteq opened'

(* What was on disk is, with its content. *)
LEMMA StillOnDisk ==
    ASSUME FilesGrow, NEW f, OnDisk(f)
    PROVE  OnDisk(f)' /\ published'[f] = published[f]
  BY DEF FilesGrow, OnDisk

(* What holds of a command goes on to hold while the files only grow. *)
LEMMA SoundStays ==
    ASSUME FilesGrow, NEW c, Sound(c)
    PROVE  Sound(c)'
<1>1. \A f \in DOMAIN published : Bears(c, f) => Bears(c, f)'
  BY DEF FilesGrow, Bears
<1>2. \A f : OnDisk(f) => f \in DOMAIN published
  BY DEF OnDisk
<1>3. ItsOwn(c)'
  <2>1. \A f \in Past(c) \ {Hashes} : OnDisk(f)' /\ Bears(c, f)'
    BY <1>1, <1>2, StillOnDisk DEF Sound, ItsOwn
  <2>2. c.at = "renamed" /\ Publishing(c) /\ Head(c.left) # Hashes =>
            Head(c.left) \in DOMAIN published' /\ Bears(c, Head(c.left))'
    BY <1>1 DEF Sound, ItsOwn, FilesGrow
  <2> QED  BY <2>1, <2>2 DEF ItsOwn
<1>4. Grounded(c)'
  BY StillOnDisk DEF Sound, Grounded, FilesGrow
<1>5. Vouched(c)'
  BY DEF Sound, Vouched, FilesGrow, DefenderAlias, Alias, Bundle
<1> QED  BY <1>3, <1>4, <1>5 DEF Sound

(* No file was published: the files agree as before. *)
LEMMA WovenStays ==
    ASSUME FilesGrow, Woven, DOMAIN published' = DOMAIN published
    PROVE  Woven'
<1>1. \A g \in DOMAIN published : published'[g] = published[g]
  BY DEF FilesGrow
<1>2. ModelsCalibrated' /\ DefenderKind' /\ ReportsTogether'
  <2>1. ModelsCalibrated'
    BY <1>1, StillOnDisk DEF Woven, ModelsCalibrated
  <2>2. DefenderKind'
    BY <1>1 DEF Woven, DefenderKind
  <2>3. ReportsTogether'
    BY <1>1, StillOnDisk DEF Woven, ReportsTogether
  <2> QED  BY <2>1, <2>2, <2>3
<1>3. ResultRests'
  BY <1>1, StillOnDisk DEF Woven, ResultRests, Alias, DefenderAlias, FilesGrow, OnDisk, Bundle
<1>4. HashesLast'
  <2> SUFFICES ASSUME Hashes \in DOMAIN published
               PROVE  /\ \A f \in FixtureFiles \cup {"result"} : OnDisk(f)'
                      /\ published'[Hashes].of = [f \in FixtureFiles |-> published'[f]]
    BY DEF HashesLast
  <2>1. /\ \A f \in FixtureFiles \cup {"result"} : OnDisk(f)
        /\ published[Hashes].of = [f \in FixtureFiles |-> published[f]]
    BY DEF Woven, HashesLast
  <2>2. \A f \in FixtureFiles \cup {"result"} : OnDisk(f)' /\ published'[f] = published[f]
    BY <2>1, StillOnDisk
  <2>3. published'[Hashes] = published[Hashes]
    BY <1>1
  <2> QED  BY <2>1, <2>2, <2>3
<1> QED  BY <1>2, <1>3, <1>4 DEF Woven

(* One command moves; what holds of its new record holds of the others' already. *)
LEMMA OthersSound ==
    ASSUME ReleaseInv, FilesGrow, NEW o \in Operators, NEW c, Sound(c)',
           command' = [command EXCEPT ![o] = c]
    PROVE  (\A p \in Operators : Sound(command[p]))'
<1> SUFFICES ASSUME NEW p \in Operators
             PROVE  Sound(command[p])'
  OBVIOUS
<1>1. command'[p] = IF p = o THEN c ELSE command[p]
  BY DEF ReleaseInv, FeasibleInv, WorkflowInv, Commands
<1>2. PICK b : b = command'[p]
  OBVIOUS
<1>3. Sound(b)'
  <2>1. CASE p = o
    BY <1>1, <1>2, <2>1
  <2>2. CASE p # o
    <3>1. Sound(b)
      BY <1>1, <1>2, <2>2 DEF ReleaseInv
    <3> QED  BY <3>1, SoundStays
  <2> QED  BY <2>1, <2>2
<1> QED  BY <1>2, <1>3 DEF Sound, ItsOwn, Grounded, Vouched, Bears, DefenderAlias, Alias, OnDisk

(* A command moves and no file is published. *)
LEMMA SoundMoves ==
    ASSUME ReleaseInv, FeasibleInv', FilesGrow, DOMAIN published' = DOMAIN published,
           NEW o \in Operators, NEW c, Sound(c)', command' = [command EXCEPT ![o] = c]
    PROVE  ReleaseInv'
  BY OthersSound, WovenStays DEF ReleaseInv

(* An operator with no command owes nothing. *)
LEMMA NoCommandSound == Sound(NoCommand)
  BY DEF Sound, InOrder, ItsOwn, Past, Grounded, Exporting, Publishing, Vouched, NoCommand, FilesOf

(* Nothing is published at first. *)
LEMMA ReleaseInit == WorkflowInit => ReleaseInv
<1> SUFFICES ASSUME WorkflowInit PROVE ReleaseInv
  OBVIOUS
<1>1. DOMAIN published = {} /\ \A o \in Operators : command[o] = NoCommand
  BY DEF WorkflowInit
<1>2. Woven
  BY <1>1 DEF Woven, ModelsCalibrated, DefenderKind, ReportsTogether, ResultRests, HashesLast
<1>3. \A o \in Operators : Sound(command[o])
  BY <1>1, NoCommandSound
<1> QED  BY <1>2, <1>3, FeasibleInit DEF ReleaseInv

(* A command that stops leaves no obligation. *)
LEMMA SoundStop ==
    ASSUME ReleaseInv, FeasibleInv', UNCHANGED <<published, unsynced>>, opened \subseteq opened',
           NEW o \in Operators, Stop(o)
    PROVE  ReleaseInv'
<1>1. FilesGrow
  BY DEF FilesGrow
<1>2. PICK c : c = NoCommand
  OBVIOUS
<1>3. Sound(c)
  BY <1>2, NoCommandSound
<1>4. Sound(c)'
  BY <1>1, <1>3, SoundStays
<1>5. command' = [command EXCEPT ![o] = c]
  BY <1>2 DEF Stop
<1> QED  BY <1>1, <1>4, <1>5, SoundMoves

(* A command begins with its whole list, or with none. *)
LEMMA SoundBegin ==
    ASSUME ReleaseInv, FeasibleInv', NEW o \in Operators, NEW does, NEW at, NEW on, NEW left,
           Begin(o, does, at, on, left),
           at \in {"publishing", "preflight", "opening"},
           does = "train" => IF on \in Feasible THEN at = "publishing" /\ left = T1
                                                ELSE at = "preflight" /\ left = F1,
           does = "release" =>
               /\ at = "opening" /\ left \in {R1, <<>>}
               /\ left = R1 => DefenderAlias /\ published[Bundle].of = on.defender,
           does \notin {"train", "release"} =>
               /\ at = "publishing"
               /\ FilesOf(left) \cap (TrainingFiles \cup ReportFiles \cup {"result", Hashes}) = {}
    PROVE  ReleaseInv'
<1> DEFINE r == [does |-> does, at |-> at, on |-> on, left |-> left, no |-> begun'[does]]
<1>1. PICK c : c = r
  OBVIOUS
<1>2. c.does = does /\ c.at = at /\ c.on = on /\ c.left = left
  BY <1>1
<1>3. command' = [command EXCEPT ![o] = c] /\ UNCHANGED <<published, unsynced, opened>>
  BY <1>1 DEF Begin, fileVars
<1> HIDE DEF r
<1>4. does \in {"train", "release"} => left \in {OrderOf(c), <<>>}
  BY <1>2 DEF OrderOf
<1>5. InOrder(c)
  BY <1>2, <1>4 DEF InOrder
<1>6. ItsOwn(c)
  BY <1>2, <1>4 DEF ItsOwn, Past, Publishing
<1>7. Grounded(c)
  <2>1. Exporting(c) => c.at \notin {"publishing", "staged", "renamed"}
    BY <1>2 DEF Exporting, Publishing, OrderOf
  <2>2. Exporting(c) => c.left = OrderOf(c)
    BY <1>2, <1>4 DEF Exporting, Publishing
  <2> QED  BY <2>1, <2>2 DEF Grounded
<1>8. Vouched(c)
  BY <1>2 DEF Vouched
<1>9. FilesGrow
  BY <1>3 DEF FilesGrow
<1>10. Sound(c)'
  BY <1>5, <1>6, <1>7, <1>8, <1>9, SoundStays DEF Sound
<1> QED  BY <1>3, <1>9, <1>10, SoundMoves

(* Every command begins with nothing published. *)
LEMMA SoundBeginnings ==
    ASSUME ReleaseInv, FeasibleInv', NEW o \in Operators,
           \/ Generate(o) \/ Build(o) \/ Prepare(o)
           \/ \E c \in Checkouts : Train(o, c)
           \/ \E named \in BOOLEAN : Release(o, named)
    PROVE  ReleaseInv'
<1> DEFINE Other(left) ==
        FilesOf(left) \cap (TrainingFiles \cup ReportFiles \cup {"result", Hashes}) = {}
<1>1. CASE Generate(o)
  <2>1. Other(GenerateOrder)
    BY DEF FilesOf, GenerateOrder, TrainingFiles, ReportFiles, Hashes
  <2> QED  BY <1>1, <2>1, SoundBegin DEF Generate
<1>2. CASE Build(o)
  <2>1. Other(BuildOrder)
    BY DEF FilesOf, BuildOrder, TrainingFiles, ReportFiles, Hashes
  <2> QED  BY <1>2, <2>1, SoundBegin DEF Build
<1>3. CASE Prepare(o)
  <2> DEFINE on == [context |-> begun["prepare"] + 1,
                    defender |-> published["defender-bundle"].of]
  <2>1. Begin(o, "prepare", "publishing", on, <<"hidden-context">>)
    BY <1>3 DEF Prepare
  <2>2. Other(<<"hidden-context">>)
    BY DEF FilesOf, TrainingFiles, ReportFiles, Hashes
  <2> HIDE DEF on
  <2> QED  BY <2>1, <2>2, SoundBegin
<1>4. CASE \E c \in Checkouts : Train(o, c)
  <2>1. PICK c \in Checkouts : Train(o, c)
    BY <1>4
  <2>2. CASE c \in Feasible
    <3>1. Begin(o, "train", "publishing", c, T1)
      BY <2>1, <2>2 DEF Train, T1
    <3> QED  BY <2>2, <3>1, SoundBegin
  <2>3. CASE c \notin Feasible
    <3>1. Begin(o, "train", "preflight", c, F1)
      BY <2>1, <2>3 DEF Train, F1
    <3> QED  BY <2>3, <3>1, SoundBegin
  <2> QED  BY <2>2, <2>3
<1>5. CASE \E named \in BOOLEAN : Release(o, named)
  <2>1. PICK named \in BOOLEAN : Release(o, named)
    BY <1>5
  <2> DEFINE on == published["hidden-context"].of
             left == IF named THEN ReleaseOrder ELSE <<>>
  <2>2. Begin(o, "release", "opening", on, left)
    BY <2>1 DEF Release
  <2>3. left \in {R1, <<>>} /\ (left = R1 => named)
    BY DEF R1, ReleaseOrder
  <2>4. named => DefenderAlias /\ published[Bundle].of = on.defender
    BY <2>1 DEF Release, Bundle
  <2> HIDE DEF on, left
  <2> QED  BY <2>2, <2>3, <2>4, SoundBegin
<1> QED  BY <1>1, <1>2, <1>3, <1>4, <1>5

(* A command goes on to its next step: from its opening to its preflight, from that
   to its first file, and to the writing of each. *)
LEMMA SoundReach ==
    ASSUME ReleaseInv, FeasibleInv', UNCHANGED <<published, unsynced>>, opened \subseteq opened',
           NEW o \in Operators, NEW at \in {"preflight", "publishing", "staged"}, Reach(o, at),
           at = "preflight" => command[o].at = "opening",
           at = "publishing" => command[o].at = "preflight",
           at = "staged" => command[o].at = "publishing",
           command[o].does = "release" => at # "preflight" \/ command[o].on \in opened',
           at = "publishing" /\ Exporting(command[o]) => Base(command[o]) \subseteq DOMAIN published
    PROVE  ReleaseInv'
<1>1. PICK b : b = command[o]
  OBVIOUS
<1>2. PICK c : c = Moved(b, at, b.left)
  OBVIOUS
<1>3. command' = [command EXCEPT ![o] = c]
  BY <1>1, <1>2, ReachMoves DEF ReleaseInv, FeasibleInv, WorkflowInv
<1>4. c.does = b.does /\ c.at = at /\ c.on = b.on /\ c.left = b.left /\ c.no = b.no
  BY <1>2 DEF Moved
<1>5. FilesGrow
  BY DEF FilesGrow
<1>6. Sound(b)
  BY <1>1 DEF ReleaseInv
<1>7. Sound(b)'
  BY <1>5, <1>6, SoundStays
<1>8. /\ OrderOf(c) = OrderOf(b) /\ Exporting(c) = Exporting(b) /\ Base(c) = Base(b)
      /\ Past(c) = Past(b) /\ Publishing(c) = Publishing(b)
  BY <1>4 DEF OrderOf, Exporting, Base, Past, Publishing
<1>9. InOrder(c)
  BY <1>1, <1>4, <1>6, <1>8 DEF Sound, InOrder
<1>10. ItsOwn(c)'
  BY <1>4, <1>7, <1>8 DEF Sound, ItsOwn, Bears
<1>11. Grounded(c)'
  <2>1. ASSUME Exporting(c), c.at \in {"publishing", "staged", "renamed"}
        PROVE  Base(c) \subseteq DOMAIN published'
    BY <1>1, <1>4, <1>6, <1>8, <2>1 DEF Sound, Grounded
  <2>2. ASSUME Exporting(c), c.left # OrderOf(c)
        PROVE  \A f \in Base(c) : OnDisk(f)'
    BY <1>4, <1>7, <1>8, <2>2 DEF Sound, Grounded
  <2> QED  BY <2>1, <2>2 DEF Grounded
<1>12. Vouched(c)'
  BY <1>1, <1>4, <1>7 DEF Sound, Vouched
<1> QED  BY <1>3, <1>5, <1>9, <1>10, <1>11, <1>12, SoundMoves DEF Sound

(* A command goes on towards a file; what it has read is there. *)
LEMMA SoundGoesOn ==
    ASSUME ReleaseInv, FeasibleInv', NEW o \in Operators,
           OpenHidden(o) \/ Preflight(o) \/ Stage(o)
    PROVE  ReleaseInv'
<1>1. CASE OpenHidden(o)
  <2>1. /\ UNCHANGED <<published, unsynced>> /\ opened' = opened \cup {command[o].on}
        /\ command[o].at = "opening" /\ (Stop(o) \/ Reach(o, "preflight"))
    BY <1>1 DEF OpenHidden, fileVars
  <2> QED  BY <2>1, SoundStop, SoundReach
<1>2. CASE Preflight(o)
  <2>1. /\ UNCHANGED <<published, unsynced, opened>> /\ command[o].at = "preflight"
        /\ Stop(o) \/ (ExportAllowed(o) /\ Reach(o, "publishing"))
    BY <1>2 DEF Preflight, fileVars, evidenceVars
  <2>2. ExportAllowed(o) => Base(command[o]) \subseteq DOMAIN published
    BY DEF ExportAllowed, Base, Present
  <2> QED  BY <2>1, <2>2, SoundStop, SoundReach
<1>3. CASE Stage(o)
  <2>1. /\ UNCHANGED <<published, unsynced, opened>> /\ command[o].at = "publishing"
        /\ Stop(o) \/ Reach(o, "staged")
    BY <1>3 DEF Stage, fileVars, evidenceVars
  <2> QED  BY <2>1, SoundStop, SoundReach
<1> QED  BY <1>1, <1>2, <1>3

(* What a command publishes, and which of them publishes what. *)
LEMMA ContentIs ==
    ASSUME NEW o \in Operators
    PROVE  LET c == command[o] IN
           /\ \A f \in TrainingFiles \cup ReportFiles \cup {"result"} :
                 ContentOf(o, f).of = IF f \in ReportFiles THEN c.no ELSE c.on
           /\ ContentOf(o, Bundle).kind = IF c.on \in Feasible THEN "defender_ensemble"
                                          ELSE "infeasible_candidate"
           /\ ContentOf(o, "result").kind = IF c.does = "train" THEN "no_promotion" ELSE "evaluated"
           /\ ContentOf(o, Hashes).of = [g \in FixtureFiles |-> published[g]]
<1>1. ASSUME NEW f \in TrainingFiles \cup ReportFiles \cup {"result"}
      PROVE  ContentOf(o, f).of = IF f \in ReportFiles THEN command[o].no ELSE command[o].on
  <2>1. CASE f \in ReportFiles
    BY <2>1 DEF ContentOf, Content, TrainingFiles, ReportFiles
  <2>2. CASE f \in TrainingFiles
    BY <2>2 DEF ContentOf, Content, TrainingFiles, ReportFiles
  <2>3. CASE f = "result"
    BY <2>3 DEF ContentOf, Content, TrainingFiles, ReportFiles
  <2> QED  BY <2>1, <2>2, <2>3
<1>2. ContentOf(o, Bundle).kind = IF command[o].on \in Feasible THEN "defender_ensemble"
                                  ELSE "infeasible_candidate"
  <2>1. CASE command[o].on \in Feasible
    BY <2>1 DEF ContentOf, Content, Bundle, TrainingFiles, ReportFiles
  <2>2. CASE command[o].on \notin Feasible
    BY <2>2 DEF ContentOf, Content, Bundle, TrainingFiles, ReportFiles
  <2> QED  BY <2>1, <2>2
<1>3. ContentOf(o, "result").kind = IF command[o].does = "train" THEN "no_promotion" ELSE "evaluated"
  BY DEF ContentOf, Content, TrainingFiles, ReportFiles
<1>4. ContentOf(o, Hashes).of = [g \in FixtureFiles |-> published[g]]
  BY DEF ContentOf, Content, Hashes, TrainingFiles, ReportFiles
<1> QED  BY <1>1, <1>2, <1>3, <1>4

(* One more file, under a name that was free. *)
Added(f, content) ==
    /\ f \notin DOMAIN published
    /\ DOMAIN published' = DOMAIN published \cup {f}
    /\ published'[f] = content
    /\ \A g \in DOMAIN published : published'[g] = published[g]
    /\ unsynced' = unsynced \cup {f}
    /\ opened' = opened

(* A new file agrees with what it rests on. *)
LEMMA WovenAdds ==
    ASSUME ReleaseInv, FeasibleInv', NEW o \in Operators, NEW f, f = Head(command[o].left),
           command[o].at = "staged", Added(f, ContentOf(o, f)), FilesGrow
    PROVE  Woven'
<1>1. PICK b : b = command[o]
  OBVIOUS
<1>2. /\ TrainsInOrder(b) /\ Calibrated(b) /\ Sound(b) /\ b.left \in Seq(Names) /\ b.left # <<>>
      /\ f = Head(b.left) /\ b.at = "staged"
  BY <1>1 DEF ReleaseInv, FeasibleInv, Trainings, WorkflowInv, Commands, ProperCommand
<1>3. /\ f = "model" => b.does = "train" /\ b.left \notin {T1, F1, F2}
      /\ f = Bundle => b.does = "train" /\ b.left \notin {T1, F1, F2}
      /\ f = "scorecard" => Evaluation \in Past(b)
      /\ f \in {"result", Hashes} => Exporting(b) /\ b.left # OrderOf(b)
      /\ f = "result" /\ b.does = "train" => b.on \notin Feasible /\ Bundle \in Past(b)
      /\ f = Hashes => FixtureFiles \cup {"result"} \subseteq Base(b) \cup (Past(b) \ {Hashes})
  BY <1>2, ComesAfter, TrainingHead DEF Sound
<1>4. \A g \in Past(b) \ {Hashes} : OnDisk(g) /\ Bears(b, g)
  BY <1>2 DEF Sound, ItsOwn
<1>5. /\ \A g \in TrainingFiles \cup ReportFiles \cup {"result"} :
             ContentOf(o, g).of = IF g \in ReportFiles THEN b.no ELSE b.on
      /\ ContentOf(o, Bundle).kind = IF b.on \in Feasible THEN "defender_ensemble"
                                     ELSE "infeasible_candidate"
      /\ ContentOf(o, "result").kind = IF b.does = "train" THEN "no_promotion" ELSE "evaluated"
      /\ ContentOf(o, Hashes).of = [g \in FixtureFiles |-> published[g]]
  BY <1>1, ContentIs
<1>6. /\ f \notin DOMAIN published /\ DOMAIN published' = DOMAIN published \cup {f}
      /\ published'[f] = ContentOf(o, f)
      /\ \A g \in DOMAIN published : published'[g] = published[g]
  BY DEF Added
<1>7. \A g : OnDisk(g) => OnDisk(g)' /\ published'[g] = published[g]
  BY StillOnDisk
<1>8. ModelsCalibrated'
  <2> SUFFICES ASSUME NEW g \in {"model", Bundle}, g \in DOMAIN published'
               PROVE  OnDisk(Calibration)' /\ published'[g].of = published'[Calibration].of
    BY DEF ModelsCalibrated
  <2>1. CASE g = f
    <3>1. OnDisk(Calibration) /\ published[Calibration].of = b.on
      BY <1>2, <1>3, <2>1 DEF Calibrated
    <3>2. ContentOf(o, g).of = b.on
      BY <1>5 DEF Bundle, TrainingFiles, ReportFiles
    <3> QED  BY <1>6, <1>7, <2>1, <3>1, <3>2
  <2>2. CASE g # f
    BY <1>6, <1>7, <2>2 DEF ReleaseInv, Woven, ModelsCalibrated
  <2> QED  BY <2>1, <2>2
<1>9. DefenderKind'
  <2>1. CASE f = Bundle
    <3>1. ContentOf(o, Bundle).of = b.on
      BY <1>5 DEF Bundle, TrainingFiles, ReportFiles
    <3> QED  BY <1>5, <1>6, <2>1, <3>1 DEF DefenderKind
  <2>2. CASE f # Bundle
    BY <1>6, <2>2 DEF ReleaseInv, Woven, DefenderKind
  <2> QED  BY <2>1, <2>2
<1>10. ReportsTogether'
  <2>1. CASE f = "scorecard"
    <3>1. OnDisk(Evaluation) /\ published[Evaluation].of = b.no
      BY <1>3, <1>4, <2>1 DEF Bears, Evaluation, ReportFiles, Hashes
    <3>2. ContentOf(o, "scorecard").of = b.no
      BY <1>5 DEF ReportFiles
    <3> QED  BY <1>6, <1>7, <2>1, <3>1, <3>2 DEF ReportsTogether
  <2>2. CASE f # "scorecard"
    BY <1>6, <1>7, <2>2 DEF ReleaseInv, Woven, ReportsTogether
  <2> QED  BY <2>1, <2>2
<1>11. ResultRests'
  <2>1. CASE f = "result" /\ b.does = "train"
    <3>1. OnDisk(Bundle) /\ published[Bundle].of = b.on
      BY <1>3, <1>4, <2>1 DEF Bears, Bundle, ReportFiles, Hashes
    <3>2. published[Bundle].kind = "infeasible_candidate"
      BY <1>3, <2>1, <3>1 DEF ReleaseInv, Woven, DefenderKind, OnDisk
    <3>3. ContentOf(o, "result").of = b.on /\ ContentOf(o, "result").kind = "no_promotion"
      BY <1>5, <2>1 DEF ReportFiles
    <3> QED  BY <1>6, <1>7, <2>1, <3>1, <3>2, <3>3 DEF ResultRests, Alias, OnDisk
  <2>2. CASE f = "result" /\ b.does # "train"
    <3>1. b.does = "release"
      BY <1>3, <2>2 DEF Exporting, Publishing
    <3>2. OnDisk(Bundle)
      BY <1>2, <1>3, <2>2, <3>1 DEF Sound, Grounded, Base, Bundle, TrainingFiles
    <3>3. DefenderAlias /\ published[Bundle].of = b.on.defender /\ b.on \in opened
      BY <1>2, <3>1 DEF Sound, Vouched
    <3>4. ContentOf(o, "result").of = b.on /\ ContentOf(o, "result").kind = "evaluated"
      BY <1>5, <2>2 DEF ReportFiles
    <3> QED  BY <1>6, <1>7, <2>2, <3>2, <3>3, <3>4
                DEF ResultRests, Alias, DefenderAlias, OnDisk, Added, Bundle
  <2>3. CASE f # "result"
    <3>1. "result" \in DOMAIN published' => "result" \in DOMAIN published
      BY <1>6, <2>3
    <3> QED  BY <1>6, <1>7, <3>1 DEF ReleaseInv, Woven, ResultRests, Alias, DefenderAlias, Added,
                                     OnDisk, Bundle
  <2> QED  BY <2>1, <2>2, <2>3
<1>12. HashesLast'
  <2> SUFFICES ASSUME Hashes \in DOMAIN published'
               PROVE  /\ \A g \in FixtureFiles \cup {"result"} : OnDisk(g)'
                      /\ published'[Hashes].of = [g \in FixtureFiles |-> published'[g]]
    BY DEF HashesLast
  <2>1. /\ \A g \in FixtureFiles \cup {"result"} : OnDisk(g)
        /\ published'[Hashes].of = [g \in FixtureFiles |-> published[g]]
    <3>1. CASE f = Hashes
      <4>1. \A g \in Base(b) : OnDisk(g)
        BY <1>2, <1>3, <3>1 DEF Sound, Grounded
      <4> QED  BY <1>3, <1>4, <1>5, <1>6, <3>1, <4>1
    <3>2. CASE f # Hashes
      <4>1. Hashes \in DOMAIN published
        BY <1>6, <3>2
      <4> QED  BY <1>6, <4>1 DEF ReleaseInv, Woven, HashesLast
    <3> QED  BY <3>1, <3>2
  <2>2. \A g \in FixtureFiles \cup {"result"} : OnDisk(g)' /\ published'[g] = published[g]
    BY <1>7, <2>1
  <2> QED  BY <2>1, <2>2
<1> QED  BY <1>8, <1>9, <1>10, <1>11, <1>12 DEF Woven

(* A file is published under a free name, as the command that did it has it. *)
LEMMA SoundPublish ==
    ASSUME ReleaseInv, FeasibleInv', NEW o \in Operators, PublishFile(o)
    PROVE  ReleaseInv'
<1>1. PICK f : f = Head(command[o].left)
  OBVIOUS
<1>2. CASE f \in DOMAIN published
  BY <1>1, <1>2, SoundStop DEF PublishFile, evidenceVars
<1>3. CASE f \notin DOMAIN published
  <2>1. PICK b : b = command[o]
    OBVIOUS
  <2>2. PICK c : c = Moved(b, "renamed", b.left)
    OBVIOUS
  <2>3. Added(f, ContentOf(o, f)) /\ Reach(o, "renamed") /\ b.at = "staged"
    BY <1>1, <1>3, <2>1 DEF PublishFile, Put, Added, evidenceVars
  <2>4. FilesGrow
    BY <1>3, <2>3 DEF FilesGrow, Added
  <2>5. command' = [command EXCEPT ![o] = c]
    BY <2>1, <2>2, <2>3, ReachMoves DEF ReleaseInv, FeasibleInv, WorkflowInv
  <2>6. c.does = b.does /\ c.at = "renamed" /\ c.on = b.on /\ c.left = b.left /\ c.no = b.no
    BY <2>2 DEF Moved
  <2>7. /\ OrderOf(c) = OrderOf(b) /\ Exporting(c) = Exporting(b) /\ Base(c) = Base(b)
        /\ Past(c) = Past(b) /\ Publishing(c) = Publishing(b)
    BY <2>6 DEF OrderOf, Exporting, Base, Past, Publishing
  <2>8. Sound(b)
    BY <2>1 DEF ReleaseInv
  <2>9. Sound(b)'
    BY <2>4, <2>8, SoundStays
  <2>10. InOrder(c)
    BY <2>6, <2>7, <2>8 DEF Sound, InOrder
  <2>11. ItsOwn(c)'
    <3>1. \A g \in Past(c) \ {Hashes} : OnDisk(g)' /\ Bears(c, g)'
      BY <2>6, <2>7, <2>9 DEF Sound, ItsOwn, Bears
    <3>2. ASSUME Publishing(c), Head(c.left) # Hashes
          PROVE  Head(c.left) \in DOMAIN published' /\ Bears(c, Head(c.left))'
      <4>1. f = Head(c.left) /\ published'[f] = ContentOf(o, f) /\ f \in DOMAIN published'
        BY <1>1, <2>1, <2>3, <2>6 DEF Added
      <4>2. f \in TrainingFiles \cup ReportFiles \cup {"result"}
        <5>1. f \in FilesOf(b.left)
          BY <1>1, <2>1, <2>3, FilesUnfold DEF ReleaseInv, FeasibleInv, WorkflowInv, Commands,
             ProperCommand
        <5>2. b.left \in {T1, T2, T3, F1, F2, F3, F4, F5, F6, F7, R1, R2, R3, R4}
          BY <2>1, <2>6, <2>8, <3>2 DEF Sound, InOrder, Publishing, ReleaseInv, FeasibleInv, Trainings,
             TrainsInOrder
        <5>3. f \in {Calibration, "model", Bundle, Evaluation, "scorecard", "result", Hashes}
          <6>1. CASE b.left \in {T1, T2, T3}
            BY <1>1, <2>1, <6>1, TrainTails
          <6>2. CASE b.left \in {F1, F2, F3, F4, F5, F6, F7}
            BY <1>1, <2>1, <6>2, FailureTails DEF Evaluation, Hashes
          <6>3. CASE b.left \in {R1, R2, R3, R4}
            BY <1>1, <2>1, <6>3, ReleaseTails
          <6> QED  BY <5>2, <6>1, <6>2, <6>3
        <5>4. f # Hashes
          BY <1>1, <2>1, <2>6, <3>2
        <5> QED  BY <5>3, <5>4 DEF TrainingFiles, ReportFiles, Calibration, Bundle, Evaluation
      <4>3. ContentOf(o, f).of = IF f \in ReportFiles THEN b.no ELSE b.on
        BY <2>1, <4>2, ContentIs
      <4> QED  BY <2>6, <4>1, <4>3 DEF Bears
    <3> QED  BY <3>1, <3>2 DEF ItsOwn
  <2>12. Grounded(c)'
    BY <2>3, <2>6, <2>7, <2>9 DEF Sound, Grounded
  <2>13. Vouched(c)'
    BY <2>3, <2>6, <2>9 DEF Sound, Vouched
  <2>14. Sound(c)'
    BY <2>10, <2>11, <2>12, <2>13 DEF Sound
  <2>15. Woven'
    BY <1>1, <2>1, <2>3, <2>4, WovenAdds
  <2> QED  BY <2>4, <2>5, <2>14, <2>15, OthersSound DEF ReleaseInv
<1> QED  BY <1>2, <1>3

(* The sync of the first report secures all that the preflight saw. *)
LEMMA SyncsBase ==
    ASSUME NEW d \in Directories, Evaluation \in d
    PROVE  CorpusFiles \cup TrainingFiles \subseteq d
<1>1. d = Fixtures
  BY DEF Directories, Evaluation, Fixtures
<1> QED  BY <1>1 DEF Fixtures, FixtureFiles

(* A file is synced, and the command has come past it. *)
LEMMA SoundSync ==
    ASSUME ReleaseInv, FeasibleInv', NEW o \in Operators, SyncDirectory(o)
    PROVE  ReleaseInv'
<1>1. PICK b : b = command[o]
  OBVIOUS
<1>2. /\ b = [does |-> b.does, at |-> b.at, on |-> b.on, left |-> b.left, no |-> b.no]
      /\ b.left \in Seq(Names) /\ b.at = "renamed" /\ b.left # <<>> /\ Sound(b) /\ TrainsInOrder(b)
  BY <1>1 DEF SyncDirectory, ReleaseInv, FeasibleInv, Trainings, WorkflowInv, Commands, ProperCommand
<1>3. PICK d \in Directories : Head(b.left) \in d /\ unsynced' = unsynced \ d
  BY <1>1 DEF SyncDirectory
<1>4. UNCHANGED <<published, opened>>
  BY DEF SyncDirectory
<1>5. FilesGrow
  BY <1>3, <1>4 DEF FilesGrow
<1>6. CASE Len(b.left) = 1
  <2>1. Stop(o)
    BY <1>1, <1>6 DEF SyncDirectory, NextFile
  <2>2. PICK c : c = NoCommand
    OBVIOUS
  <2>3. command' = [command EXCEPT ![o] = c] /\ Sound(c)
    BY <2>1, <2>2, NoCommandSound DEF Stop
  <2> QED  BY <1>4, <1>5, <2>3, SoundStays, SoundMoves
<1>7. CASE Len(b.left) # 1
  <2>1. PICK left : left = Tail(b.left)
    OBVIOUS
  <2>2. PICK c : c = Moved(b, "publishing", left)
    OBVIOUS
  <2>3. command' = [command EXCEPT ![o] = c]
    <3>1. command' = [command EXCEPT ![o] = [b EXCEPT !.at = "publishing", !.left = left]]
      BY <1>1, <1>7, <2>1 DEF SyncDirectory, NextFile
    <3>2. [b EXCEPT !.at = "publishing", !.left = left] = c
      BY <1>2, <2>2, MovedOn
    <3> QED  BY <3>1, <3>2
  <2>4. c.does = b.does /\ c.at = "publishing" /\ c.on = b.on /\ c.left = left /\ c.no = b.no
    BY <2>2 DEF Moved
  <2>5. FilesOf(b.left) = {Head(b.left)} \cup FilesOf(left)
    BY <1>2, <2>1, FilesUnfold
  <2>6. /\ OrderOf(c) = OrderOf(b) /\ Base(c) = Base(b)
        /\ Publishing(c) => Publishing(b) /\ (Exporting(c) => Exporting(b))
        /\ Past(c) \subseteq Past(b) \cup {Head(b.left)}
        /\ Publishing(b) => Past(b) = FilesOf(OrderOf(b)) \ FilesOf(b.left)
    BY <1>2, <2>4, <2>5 DEF OrderOf, Exporting, Base, Past, Publishing
  <2>7. InOrder(c)
    <3>1. c.does = "release" => left \in {R2, R3, R4}
      BY <1>2, <1>7, <2>1, <2>4, ReleaseTails DEF Sound, InOrder
    <3>2. c.does \notin {"train", "release"} =>
              FilesOf(left) \cap (TrainingFiles \cup ReportFiles \cup {"result", Hashes}) = {}
      BY <1>2, <2>4, <2>5 DEF Sound, InOrder
    <3> QED  BY <2>4, <3>1, <3>2 DEF InOrder
  <2>8. Sound(b)'
    BY <1>2, <1>5, SoundStays
  <2>9. ItsOwn(c)'
    <3> SUFFICES ASSUME NEW f \in Past(c) \ {Hashes}
                 PROVE  OnDisk(f)' /\ Bears(c, f)'
      BY <2>4 DEF ItsOwn
    <3>1. Publishing(b)
      BY <2>6 DEF Past
    <3>2. CASE f \in Past(b)
      BY <2>4, <2>8, <3>2 DEF Sound, ItsOwn, Bears
    <3>3. CASE f = Head(b.left)
      <4>1. f \in DOMAIN published /\ Bears(b, f)
        BY <1>2, <3>1, <3>3 DEF Sound, ItsOwn
      <4>2. OnDisk(f)'
        BY <1>3, <1>4, <3>3, <4>1 DEF OnDisk
      <4> QED  BY <1>4, <2>4, <4>1, <4>2 DEF Bears
    <3> QED  BY <2>6, <3>2, <3>3
  <2>10. Grounded(c)'
    <3> SUFFICES ASSUME Exporting(c)
                 PROVE  Base(c) \subseteq DOMAIN published /\ \A f \in Base(c) : OnDisk(f)'
      BY <1>4 DEF Grounded
    <3>1. Exporting(b)
      BY <2>6 DEF Exporting
    <3>2. Base(b) \subseteq DOMAIN published
      BY <1>2, <3>1 DEF Sound, Grounded
    <3>3. \A f \in Base(b) : OnDisk(f)'
      <4>1. CASE b.left # OrderOf(b)
        BY <2>8, <3>1, <4>1 DEF Sound, Grounded
      <4>2. CASE b.left = OrderOf(b)
        <5>1. OrderOf(b) \in {R1, F1}
          BY <3>1 DEF Exporting, OrderOf
        <5>2. Head(b.left) = Evaluation
          BY <4>2, <5>1, ReleaseTails, FailureTails DEF Evaluation
        <5>3. Base(b) \subseteq d
          BY <1>3, <5>2, SyncsBase DEF Base
        <5> QED  BY <1>3, <1>4, <3>2, <5>3 DEF OnDisk
      <4> QED  BY <4>1, <4>2
    <3> QED  BY <2>6, <3>2, <3>3
  <2>11. Vouched(c)'
    <3>1. c.does = "release" => /\ DefenderAlias' /\ published'[Bundle].of = c.on.defender
                               /\ c.on \in opened'
      BY <1>2, <2>4, <2>8 DEF Sound, Vouched
    <3> QED  BY <3>1 DEF Vouched
  <2>12. Sound(c)'
    BY <2>7, <2>9, <2>10, <2>11 DEF Sound
  <2> QED  BY <1>4, <1>5, <2>3, <2>12, SoundMoves
<1> QED  BY <1>6, <1>7

(* A power loss stops every command, and takes nothing of what others rest on. *)
LEMMA SoundOutage ==
    ASSUME ReleaseInv, FeasibleInv', Outage
    PROVE  ReleaseInv'
<1>1. /\ \A o \in Operators : command'[o] = NoCommand
      /\ opened' = opened /\ unsynced' = {}
  BY DEF Outage, evidenceVars
<1>2. /\ \A f \in DOMAIN published' : f \in DOMAIN published /\ published'[f] = published[f]
      /\ \A f : OnDisk(f) => OnDisk(f)' /\ published'[f] = published[f]
  BY DEF Outage, OnDisk
<1>3. \A o \in Operators : Sound(command[o])'
  BY <1>1 DEF Sound, InOrder, ItsOwn, Past, Grounded, Exporting, Publishing, Vouched, NoCommand, FilesOf
<1>4. ModelsCalibrated' /\ DefenderKind' /\ ReportsTogether'
  <2>1. ModelsCalibrated'
    BY <1>2 DEF ReleaseInv, Woven, ModelsCalibrated
  <2>2. DefenderKind'
    BY <1>2 DEF ReleaseInv, Woven, DefenderKind
  <2>3. ReportsTogether'
    BY <1>2 DEF ReleaseInv, Woven, ReportsTogether
  <2> QED  BY <2>1, <2>2, <2>3
<1>5. ResultRests'
  BY <1>1, <1>2 DEF ReleaseInv, Woven, ResultRests, Alias, DefenderAlias, OnDisk, Bundle
<1>6. HashesLast'
  <2> SUFFICES ASSUME Hashes \in DOMAIN published'
               PROVE  /\ \A g \in FixtureFiles \cup {"result"} : OnDisk(g)'
                      /\ published'[Hashes].of = [g \in FixtureFiles |-> published'[g]]
    BY DEF HashesLast
  <2>1. /\ \A g \in FixtureFiles \cup {"result"} : OnDisk(g)
        /\ published'[Hashes].of = [g \in FixtureFiles |-> published[g]]
    BY <1>2 DEF ReleaseInv, Woven, HashesLast
  <2> QED  BY <1>2, <2>1
<1> QED  BY <1>3, <1>4, <1>5, <1>6 DEF ReleaseInv, Woven

(* Every step of the workflow. *)
LEMMA ReleaseStep == ReleaseInv /\ [WorkflowNext]_workflowVars => ReleaseInv'
<1> SUFFICES ASSUME ReleaseInv, [WorkflowNext]_workflowVars
             PROVE  ReleaseInv'
  OBVIOUS
<1>0. FeasibleInv'
  BY FeasibleStep DEF ReleaseInv
<1>1. CASE \E o \in Operators : OpenHidden(o) \/ Preflight(o) \/ Stage(o)
  BY <1>0, <1>1, SoundGoesOn
<1>2. CASE \E o \in Operators : PublishFile(o)
  BY <1>0, <1>2, SoundPublish
<1>3. CASE \E o \in Operators : SyncDirectory(o)
  BY <1>0, <1>3, SoundSync
<1>4. CASE \E o \in Operators : CommandFails(o) \/ KillWriting(o)
  BY <1>0, <1>4, SoundStop DEF CommandFails, KillWriting, fileVars, evidenceVars
<1>5. CASE \E o \in Operators :
               \/ Generate(o) \/ Build(o) \/ Prepare(o)
               \/ \E c \in Checkouts : Train(o, c)
               \/ \E named \in BOOLEAN : Release(o, named)
  BY <1>0, <1>5, SoundBeginnings
<1>6. CASE UNCHANGED <<published, unsynced, command, opened>>
  BY <1>0, <1>6 DEF ReleaseInv, Sound, ItsOwn, Grounded, Vouched, Bears, OnDisk, DefenderAlias, Alias,
     Woven, ModelsCalibrated, DefenderKind, ReportsTogether, ResultRests, HashesLast
<1>7. CASE Outage
  BY <1>0, <1>7, SoundOutage
<1> QED
  BY <1>1, <1>2, <1>3, <1>4, <1>5, <1>6, <1>7
     DEF WorkflowNext, workflowVars, fileVars, evidenceVars, Develop

(* Whoever finds the hashes finds the release they name, whole and of one piece:
   however many trainings and releases race, from any checkouts, fail, are killed
   or are cut off by power losses. *)
THEOREM ReleaseAlwaysHolds == WorkflowSpec => []ReleaseHolds
<1>1. ReleaseInv => ReleaseHolds
  <2> SUFFICES ASSUME Woven, Hashes \in DOMAIN published
               PROVE  ReleaseHolds
    BY DEF ReleaseInv, ReleaseHolds, Hashes
  <2>1. /\ \A f \in FixtureFiles \cup {"result"} : f \in DOMAIN published
        /\ published[Hashes].of = [f \in FixtureFiles |-> published[f]]
    BY DEF Woven, HashesLast, OnDisk
  <2>2. \A f \in TrainingFiles : published[f].of = published[Calibration].of
    BY <2>1 DEF Woven, ModelsCalibrated, FixtureFiles, TrainingFiles, Calibration, Bundle
  <2>3. \A f \in ReportFiles : published[f].of = published[Evaluation].of
    BY <2>1 DEF Woven, ReportsTogether, FixtureFiles, ReportFiles, Evaluation
  <2> QED  BY <2>1, <2>2, <2>3 DEF Woven, ResultRests, ReleaseHolds, Hashes, Bundle
<1> QED  BY <1>1, ReleaseInit, ReleaseStep, PTL DEF WorkflowSpec
=============================================================================

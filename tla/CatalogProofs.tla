--------------------------- MODULE CatalogProofs ----------------------------
(***************************************************************************)
(* Theorems about the write path of the catalog service, for any set of    *)
(* requests, batch size, failures and metadata.                            *)
(***************************************************************************)
EXTENDS Catalog, DomainProofs

(***************************************************************************)
(* Where a handler is in its loops; TypeOK is inductive together with it.  *)
(***************************************************************************)
Progress(r) ==
  /\ pc[r] \in {"idle", "start"} =>
       pos[r] = 1 /\ filed[r] = 0 /\ before[r] = << >> /\ after[r] = << >>
  /\ pc[r] = "save" => filed[r] = 0
  /\ pc[r] = "append" => filed[r] = pos[r] - 1
  /\ pc[r] \in {"scrub", "purge"} => job[r].op = "batch"
  /\ ~Creating(r) => before[r] \in Seq(Artifact)

TypeInv == TypeOK /\ \A r \in Req : Progress(r)

-----------------------------------------------------------------------------
LEMMA TypeInvInit == Init => TypeInv
<1> SUFFICES ASSUME Init PROVE TypeInv
  OBVIOUS
<1>1. DOMAIN repo = {} /\ repo \in [{} -> Artifact]
  BY DEF Init
<1>2. \A r \in Req : <<r, 1>> \in Id
  BY BatchAssumption DEF Id
<1>3. TypeOK
  BY <1>1, <1>2, BatchAssumption
     DEF Init, TypeOK, Job, Op, Mutation, Actor, Handling, Ended, Active
<1> QED
  BY <1>3 DEF Init, TypeInv, Progress, Creating

LEMMA ArriveType ==
  ASSUME TypeInv, NEW r \in Req, Arrive(r)
  PROVE  TypeInv'
<1>1. /\ pc[r] = "idle" /\ pc' = [pc EXCEPT ![r] = "start"]
      /\ UNCHANGED <<repo, audit, before, after, pos, filed, gone>>
  BY DEF Arrive, stores
<1>2. PICK op \in Ops, actor \in Actor :
        \E id \in IF op \in Mutation THEN DOMAIN repo ELSE {<<r, 1>>} :
          job' = [job EXCEPT ![r] = [op |-> op, id |-> id, actor |-> actor]]
  BY DEF Arrive
<1>3. PICK id \in IF op \in Mutation THEN DOMAIN repo ELSE {<<r, 1>>} :
        job' = [job EXCEPT ![r] = [op |-> op, id |-> id, actor |-> actor]]
  BY <1>2
<1>4. id \in Id
  BY BatchAssumption DEF TypeInv, TypeOK, Id
<1>5. [op |-> op, id |-> id, actor |-> actor] \in Job
  BY <1>4, OpsAssumption DEF Job
<1>6. job' \in [Req -> Job]
  BY <1>3, <1>5 DEF TypeInv, TypeOK
<1>7. TypeOK'
  BY <1>1, <1>6 DEF TypeInv, TypeOK, Handling, Ended, Active
<1> QED
  BY <1>1, <1>3, <1>7 DEF TypeInv, TypeOK, Progress, Creating

LEMMA CancelType ==
  ASSUME TypeInv, NEW r \in Req, Cancel(r)
  PROVE  TypeInv'
  BY DEF Cancel, TypeInv, TypeOK, Progress, stores, work, Active, Creating

LEMMA CrashType ==
  ASSUME TypeInv, Crash
  PROVE  TypeInv'
  BY DEF Crash, TypeInv, TypeOK, Progress, stores, work, Active, Handling, Ended,
         Creating

LEMMA RefuseType ==
  ASSUME TypeInv, NEW r \in Req, Refuse(r) \/ ReadFails(r)
  PROVE  TypeInv'
  BY DEF Refuse, ReadFails, Goto, TypeInv, TypeOK, Progress, stores, work,
         Active, Handling, Ended, Creating

LEMMA PrepareType ==
  ASSUME TypeInv, NEW r \in Req, Prepare(r)
  PROVE  TypeInv'
<1>1. /\ pc[r] = "start" /\ pc' = [pc EXCEPT ![r] = "save"]
      /\ UNCHANGED <<repo, audit, job, pos, filed, gone>>
  BY DEF Prepare, Goto, stores
<1>2. PICK n \in 1 .. (IF job[r].op = "batch" THEN MaxBatch ELSE 1) :
        \E m \in [1 .. n -> Meta], now \in [1 .. n -> Time] :
          /\ before' = [before EXCEPT ![r] = [k \in 1 .. n |-> ZeroArtifact]]
          /\ after' = [after EXCEPT
                         ![r] = [k \in 1 .. n |-> NewArtifact(m[k], now[k])]]
  BY DEF Prepare
<1>3. PICK m \in [1 .. n -> Meta], now \in [1 .. n -> Time] :
        /\ before' = [before EXCEPT ![r] = [k \in 1 .. n |-> ZeroArtifact]]
        /\ after' = [after EXCEPT
                       ![r] = [k \in 1 .. n |-> NewArtifact(m[k], now[k])]]
  BY <1>2
<1>4. n \in Nat /\ 1 <= n /\ n <= MaxBatch
  BY BatchAssumption
<1> DEFINE b == [k \in 1 .. n |-> ZeroArtifact]
           a == [k \in 1 .. n |-> NewArtifact(m[k], now[k])]
<1>5. b \in Seq(Artifact \union {ZeroArtifact}) /\ Len(b) = n
  BY <1>4
<1>6. \A k \in 1 .. n : NewArtifact(m[k], now[k]) \in Artifact
  BY NewArtifactSound
<1>7. a \in Seq(Artifact) /\ Len(a) = n
  BY <1>4, <1>6
<1>8. before'[r] = b /\ after'[r] = a
  BY <1>3 DEF TypeInv, TypeOK
<1> HIDE DEF a, b
<1>9. /\ before' \in [Req -> Seq(Artifact \union {ZeroArtifact})]
      /\ after' \in [Req -> Seq(Artifact)]
      /\ \A q \in Req \ {r} : before'[q] = before[q] /\ after'[q] = after[q]
  BY <1>3, <1>5, <1>7 DEF TypeInv, TypeOK, a, b
<1>10. TypeOK'
  <2>1. pos[r] = 1 /\ filed[r] = 0
    BY <1>1 DEF TypeInv, Progress
  <2>2. pc' \in [Req -> {"idle"} \union Handling \union Ended]
    BY <1>1 DEF TypeInv, TypeOK, Handling
  <2>3. \A q \in Req :
          /\ Len(before'[q]) = Len(after'[q]) /\ Len(after'[q]) <= MaxBatch
          /\ filed'[q] <= Len(after'[q])
          /\ (Active(q))' /\ pc'[q] # "start" => pos'[q] <= Len(after'[q])
    BY <1>1, <1>4, <1>5, <1>7, <1>8, <1>9, <2>1 DEF TypeInv, TypeOK, Active
  <2> QED
    BY <1>1, <1>9, <2>2, <2>3 DEF TypeInv, TypeOK
<1>11. ASSUME NEW q \in Req PROVE Progress(q)'
  <2>1. CASE q = r
    <3>1. pc'[r] = "save" /\ filed'[r] = 0 /\ job'[r] = job[r]
      BY <1>1 DEF TypeInv, TypeOK, Progress
    <3>2. Creating(r)
      BY DEF Prepare
    <3> QED
      BY <2>1, <3>1, <3>2 DEF Progress, Creating
  <2>2. CASE q # r
    BY <1>1, <1>9, <2>2 DEF TypeInv, TypeOK, Progress, Creating
  <2> QED
    BY <2>1, <2>2
<1> QED
  BY <1>10, <1>11 DEF TypeInv

LEMMA ReadType ==
  ASSUME TypeInv, NEW r \in Req, Read(r)
  PROVE  TypeInv'
<1>1. /\ pc[r] = "start" /\ pc' = [pc EXCEPT ![r] = "save"]
      /\ UNCHANGED <<repo, audit, job, pos, filed, gone>>
      /\ job[r].id \in DOMAIN repo /\ ~Creating(r)
  BY DEF Read, Goto, stores
<1> DEFINE a == repo[job[r].id]
<1>2. PICK m \in Meta, now \in Time :
        /\ before' = [before EXCEPT ![r] = <<a>>]
        /\ after' = [after EXCEPT ![r] = <<Apply(a, job[r].op, m, now)>>]
  BY DEF Read
<1> DEFINE b == Apply(a, job[r].op, m, now)
<1>3. a \in Artifact /\ job[r].op \in Mutation
  BY <1>1 DEF TypeInv, TypeOK, Creating, Job, Op
<1>4. b \in Artifact
  BY <1>3, ApplyType
<1> HIDE DEF a, b
<1>5. /\ <<a>> \in Seq(Artifact \union {ZeroArtifact}) /\ Len(<<a>>) = 1
      /\ <<b>> \in Seq(Artifact) /\ Len(<<b>>) = 1
  BY <1>3, <1>4
<1>6. /\ before' \in [Req -> Seq(Artifact \union {ZeroArtifact})]
      /\ after' \in [Req -> Seq(Artifact)]
      /\ \A q \in Req \ {r} : before'[q] = before[q] /\ after'[q] = after[q]
      /\ before'[r] = <<a>> /\ after'[r] = <<b>>
  BY <1>2, <1>5 DEF TypeInv, TypeOK, a, b
<1>7. TypeOK'
  <2>1. pos[r] = 1 /\ filed[r] = 0
    BY <1>1 DEF TypeInv, Progress
  <2>2. pc' \in [Req -> {"idle"} \union Handling \union Ended]
    BY <1>1 DEF TypeInv, TypeOK, Handling
  <2>3. ASSUME NEW q \in Req
        PROVE  /\ Len(before'[q]) = Len(after'[q])
               /\ Len(after'[q]) <= MaxBatch
               /\ filed'[q] <= Len(after'[q])
               /\ (Active(q))' /\ pc'[q] # "start" =>
                    pos'[q] <= Len(after'[q])
    <3>1. MaxBatch >= 1
      BY BatchAssumption
    <3>2. \A s \in Req \ {r} : pc'[s] = pc[s] /\ pos'[s] = pos[s]
      BY <1>1 DEF TypeInv, TypeOK
    <3>3. CASE q = r
      <4>1. Len(before'[r]) = 1 /\ Len(after'[r]) = 1
        BY <1>5, <1>6
      <4>2. filed'[r] = 0 /\ pos'[r] = 1
        BY <1>1, <2>1
      <4> QED
        BY <3>1, <3>3, <4>1, <4>2
    <3>4. CASE q # r
      BY <1>1, <1>6, <3>2, <3>4 DEF TypeInv, TypeOK, Active
    <3> QED
      BY <3>3, <3>4
  <2> QED
    BY <1>1, <1>6, <2>2, <2>3 DEF TypeInv, TypeOK
<1>8. ASSUME NEW q \in Req PROVE Progress(q)'
  <2>1. CASE q = r
    <3>1. pc'[r] = "save" /\ filed'[r] = 0 /\ job'[r] = job[r]
      BY <1>1 DEF TypeInv, TypeOK, Progress
    <3>2. before'[r] \in Seq(Artifact)
      BY <1>3, <1>6
    <3> QED
      BY <2>1, <3>1, <3>2 DEF Progress, Creating
  <2>2. CASE q # r
    BY <1>1, <1>6, <2>2 DEF TypeInv, TypeOK, Progress, Creating
  <2> QED
    BY <2>1, <2>2
<1> QED
  BY <1>7, <1>8 DEF TypeInv

(***************************************************************************)
(* The store calls.  Put and Drop keep the repository a set of records     *)
(* under known identifiers.                                                *)
(***************************************************************************)
LEMMA PutType ==
  ASSUME DOMAIN repo \subseteq Id, repo \in [DOMAIN repo -> Artifact],
         NEW id \in Id, NEW a \in Artifact
  PROVE  /\ DOMAIN Put(repo, id, a) = DOMAIN repo \union {id}
         /\ Put(repo, id, a) \in [DOMAIN Put(repo, id, a) -> Artifact]
         /\ \A x \in DOMAIN Put(repo, id, a) :
              Put(repo, id, a)[x] = IF x = id THEN a ELSE repo[x]
  BY DEF Put

LEMMA DropType ==
  ASSUME DOMAIN repo \subseteq Id, repo \in [DOMAIN repo -> Artifact],
         NEW id
  PROVE  /\ DOMAIN Drop(repo, id) = DOMAIN repo \ {id}
         /\ Drop(repo, id) \in [DOMAIN Drop(repo, id) -> Artifact]
         /\ \A x \in DOMAIN Drop(repo, id) : Drop(repo, id)[x] = repo[x]
  BY DEF Drop

\* What the loops index: an item, its identifier, its two records, its event.
LEMMA ItemType ==
  ASSUME TypeInv, NEW r \in Req, NEW k \in 1 .. Len(after[r])
  PROVE  /\ Item(r, k) \in Id
         /\ after[r][k] \in Artifact
         /\ before[r][k] \in Artifact \union {ZeroArtifact}
         /\ Event(r, k) \in AuditEvent(Id, Id)
<1>1. k \in 1 .. MaxBatch /\ k \in 1 .. Len(before[r])
  BY BatchAssumption DEF TypeInv, TypeOK
<1>2. <<r, k>> \in Id /\ job[r].id \in Id
  BY <1>1 DEF Id, TypeInv, TypeOK, Job
<1>3. Item(r, k) \in Id
  BY <1>2 DEF Item
<1>4. after[r][k] \in Artifact
  BY DEF TypeInv, TypeOK
<1>5. before[r][k] \in Artifact \union {ZeroArtifact}
  BY <1>1 DEF TypeInv, TypeOK
<1>6. before[r][k].status \in Status \union {""}
  <2>1. CASE before[r][k] \in Artifact
    BY <2>1 DEF Artifact
  <2>2. ZeroArtifact.status = ""
    BY DEF ZeroArtifact
  <2>3. CASE before[r][k] = ZeroArtifact
    BY <2>2, <2>3
  <2> QED
    BY <1>5, <2>1, <2>3
<1>7. after[r][k].status \in Status /\ after[r][k].version \in Nat \ {0}
  BY <1>4 DEF Artifact
<1>8. (IF Creating(r) THEN "create" ELSE job[r].op) \in TransitionAction
  BY DEF TypeInv, TypeOK, Job, Op, Creating, TransitionAction
<1>9. Event(r, k) \in AuditEvent(Id, Id)
  BY <1>2, <1>3, <1>6, <1>7, <1>8 DEF Event, NewAuditEvent, AuditEvent
<1> QED
  BY <1>3, <1>4, <1>5, <1>9

\* The counters of a handler.
LEMMA Counters ==
  ASSUME TypeInv, NEW r \in Req
  PROVE  /\ Len(after[r]) \in Nat
         /\ pos[r] \in Nat \ {0} /\ filed[r] \in 0 .. Len(after[r])
         /\ pc[r] \in {"save", "append", "undo", "scrub", "purge"} =>
              pos[r] \in 1 .. Len(after[r])
<1>1. /\ after[r] \in Seq(Artifact) /\ pos[r] \in Nat \ {0}
      /\ filed[r] \in Nat /\ filed[r] <= Len(after[r])
  BY DEF TypeInv, TypeOK
<1>2. Len(after[r]) \in Nat
  BY <1>1
<1>3. ASSUME pc[r] \in {"save", "append", "undo", "scrub", "purge"}
      PROVE  pos[r] <= Len(after[r])
  BY <1>3 DEF TypeInv, TypeOK, Active, Handling
<1> QED
  BY <1>1, <1>2, <1>3

(***************************************************************************)
(* Every step of the loops has this shape: one handler moves to another    *)
(* item or another loop, and its counters stay in range.                   *)
(***************************************************************************)
LEMMA LoopType ==
  ASSUME TypeInv, NEW r \in Req,
         NEW l \in {"save", "append", "undo", "scrub", "purge"} \union Ended,
         NEW p \in 1 .. Len(after[r]), NEW f \in 0 .. Len(after[r]),
         UNCHANGED <<job, before, after, gone>>,
         DOMAIN repo' \subseteq Id, repo' \in [DOMAIN repo' -> Artifact],
         audit' \subseteq AuditEvent(Id, Id),
         pc' = [pc EXCEPT ![r] = l],
         pos' = [pos EXCEPT ![r] = p],
         filed' = [filed EXCEPT ![r] = f],
         l = "save" => f = 0,
         l = "append" => f = p - 1,
         l \in {"scrub", "purge"} => job[r].op = "batch"
  PROVE  TypeInv'
<1>1. Len(after[r]) \in Nat
  BY Counters
<1>2. /\ pc' \in [Req -> {"idle"} \union Handling \union Ended]
      /\ pos' \in [Req -> Nat \ {0}] /\ filed' \in [Req -> Nat]
  BY <1>1 DEF TypeInv, TypeOK, Handling
<1>3. pc'[r] = l /\ pos'[r] = p /\ filed'[r] = f
  BY DEF TypeInv, TypeOK
<1>4. \A q \in Req \ {r} :
        pc'[q] = pc[q] /\ pos'[q] = pos[q] /\ filed'[q] = filed[q]
  BY DEF TypeInv, TypeOK
<1>5. ASSUME NEW q \in Req
      PROVE  /\ Len(before'[q]) = Len(after'[q]) /\ Len(after'[q]) <= MaxBatch
             /\ filed'[q] <= Len(after'[q])
             /\ (Active(q))' /\ pc'[q] # "start" => pos'[q] <= Len(after'[q])
  <2>1. CASE q = r
    BY <1>1, <1>3, <2>1 DEF TypeInv, TypeOK
  <2>2. CASE q # r
    BY <1>4, <2>2 DEF TypeInv, TypeOK, Active
  <2> QED
    BY <2>1, <2>2
<1>6. TypeOK'
  BY <1>2, <1>5 DEF TypeInv, TypeOK
<1>7. ASSUME NEW q \in Req PROVE Progress(q)'
  <2>1. CASE q = r
    BY <1>3, <2>1 DEF TypeInv, Progress, Ended, Creating
  <2>2. CASE q # r
    BY <1>4, <2>2 DEF TypeInv, Progress, Creating
  <2> QED
    BY <2>1, <2>2
<1> QED
  BY <1>6, <1>7 DEF TypeInv

\* A counter a step does not touch is written back as it is.
LEMMA Unmoved ==
  ASSUME TypeInv, NEW r \in Req
  PROVE  /\ pc = [pc EXCEPT ![r] = pc[r]]
         /\ pos = [pos EXCEPT ![r] = pos[r]]
         /\ filed = [filed EXCEPT ![r] = filed[r]]
  BY DEF TypeInv, TypeOK

LEMMA SaveType ==
  ASSUME TypeInv, NEW r \in Req, Save(r)
  PROVE  TypeInv'
<1>1. /\ pc[r] = "save" /\ filed[r] = 0
      /\ repo' = Put(repo, Item(r, pos[r]), after[r][pos[r]])
      /\ UNCHANGED <<audit, job, before, after, filed, gone>>
  BY DEF Save, work, TypeInv, Progress
<1>2. pos[r] \in 1 .. Len(after[r])
  BY <1>1, Counters
<1>3. DOMAIN repo' \subseteq Id /\ repo' \in [DOMAIN repo' -> Artifact]
  <2>1. Item(r, pos[r]) \in Id /\ after[r][pos[r]] \in Artifact
    BY <1>2, ItemType
  <2> HIDE DEF Item
  <2>2. DOMAIN repo \subseteq Id /\ repo \in [DOMAIN repo -> Artifact]
    BY DEF TypeInv, TypeOK
  <2>3. DOMAIN repo' = DOMAIN repo \union {Item(r, pos[r])}
    BY <1>1, <2>1, <2>2, PutType
  <2>4. repo' \in [DOMAIN repo' -> Artifact]
    BY <1>1, <2>1, <2>2, PutType
  <2> QED
    BY <2>1, <2>2, <2>3, <2>4
<1>4. audit' \subseteq AuditEvent(Id, Id)
  BY <1>1 DEF TypeInv, TypeOK
<1>5. Len(after[r]) \in Nat /\ filed[r] \in 0 .. Len(after[r])
  BY Counters
<1>6. CASE Last(r)
  <2>1. /\ pos' = [pos EXCEPT ![r] = 1] /\ pc' = [pc EXCEPT ![r] = "append"]
        /\ filed' = [filed EXCEPT ![r] = 0]
    BY <1>1, <1>6, Unmoved DEF Save, Goto
  <2>2. 1 \in 1 .. Len(after[r]) /\ 0 = 1 - 1
    BY <1>2, <1>5
  <2> QED
    BY <1>1, <1>3, <1>4, <1>5, <2>1, <2>2, LoopType
<1>7. CASE ~Last(r)
  <2>1. /\ pos' = [pos EXCEPT ![r] = pos[r] + 1]
        /\ pc' = [pc EXCEPT ![r] = "save"]
        /\ filed' = [filed EXCEPT ![r] = 0]
    BY <1>1, <1>7, Unmoved DEF Save
  <2>2. pos[r] + 1 \in 1 .. Len(after[r])
    BY <1>2, <1>5, <1>7 DEF Last
  <2> QED
    BY <1>1, <1>3, <1>4, <1>5, <2>1, <2>2, LoopType
<1> QED
  BY <1>6, <1>7

LEMMA SaveFailsType ==
  ASSUME TypeInv, NEW r \in Req, SaveFails(r)
  PROVE  TypeInv'
<1>1. /\ pc[r] = "save"
      /\ UNCHANGED <<repo, audit, job, before, after, filed, gone>>
  BY DEF SaveFails, work, stores
<1>2. pos[r] \in 1 .. Len(after[r]) /\ filed[r] \in 0 .. Len(after[r])
  BY <1>1, Counters
<1>3. /\ DOMAIN repo' \subseteq Id /\ repo' \in [DOMAIN repo' -> Artifact]
      /\ audit' \subseteq AuditEvent(Id, Id)
  BY <1>1 DEF TypeInv, TypeOK
<1>4. CASE pos[r] = 1
  <2>1. /\ pos' = [pos EXCEPT ![r] = pos[r]]
        /\ pc' = [pc EXCEPT ![r] = "failed"]
        /\ filed' = [filed EXCEPT ![r] = filed[r]]
    BY <1>1, <1>4, Unmoved DEF SaveFails, Goto
  <2> QED
    BY <1>1, <1>2, <1>3, <2>1, LoopType DEF Ended
<1>5. CASE pos[r] # 1
  <2>1. /\ pos' = [pos EXCEPT ![r] = pos[r] - 1]
        /\ pc' = [pc EXCEPT ![r] = "undo"]
        /\ filed' = [filed EXCEPT ![r] = filed[r]]
    BY <1>1, <1>5, Unmoved DEF SaveFails, Goto
  <2>2. pos[r] - 1 \in 1 .. Len(after[r])
    BY <1>2, <1>5, Counters
  <2> QED
    BY <1>1, <1>2, <1>3, <2>1, <2>2, LoopType
<1> QED
  BY <1>4, <1>5

LEMMA FileType ==
  ASSUME TypeInv, NEW r \in Req, File(r)
  PROVE  TypeInv'
<1>1. /\ pc[r] = "append" /\ filed[r] = pos[r] - 1
      /\ audit' = audit \union {Event(r, pos[r])}
      /\ filed' = [filed EXCEPT ![r] = filed[r] + 1]
      /\ UNCHANGED <<repo, job, before, after, gone>>
  BY DEF File, work, TypeInv, Progress
<1>2. pos[r] \in 1 .. Len(after[r]) /\ Len(after[r]) \in Nat
  BY <1>1, Counters
<1>3. filed[r] + 1 \in 0 .. Len(after[r]) /\ filed[r] + 1 = pos[r]
  BY <1>1, <1>2
<1>4. Event(r, pos[r]) \in AuditEvent(Id, Id)
  BY <1>2, ItemType
<1>5. /\ DOMAIN repo' \subseteq Id /\ repo' \in [DOMAIN repo' -> Artifact]
      /\ audit' \subseteq AuditEvent(Id, Id)
  BY <1>1, <1>4 DEF TypeInv, TypeOK
<1>6. CASE Last(r)
  <2>1. /\ pos' = [pos EXCEPT ![r] = pos[r]]
        /\ pc' = [pc EXCEPT ![r] = "ok"]
    BY <1>6, Unmoved DEF File, Goto
  <2> QED
    BY <1>1, <1>2, <1>3, <1>5, <2>1, LoopType DEF Ended
<1>7. CASE ~Last(r)
  <2>1. /\ pos' = [pos EXCEPT ![r] = pos[r] + 1]
        /\ pc' = [pc EXCEPT ![r] = "append"]
    BY <1>1, <1>7, Unmoved DEF File
  <2>2. pos[r] + 1 \in 1 .. Len(after[r])
    BY <1>2, <1>7 DEF Last
  <2>3. filed[r] + 1 = (pos[r] + 1) - 1
    BY <1>2, <1>3
  <2> QED
    BY <1>1, <1>3, <1>5, <2>1, <2>2, <2>3, LoopType
<1> QED
  BY <1>6, <1>7

LEMMA FileFailsType ==
  ASSUME TypeInv, NEW r \in Req, FileFails(r)
  PROVE  TypeInv'
<1>1. /\ pc[r] = "append" /\ pc' = [pc EXCEPT ![r] = "undo"]
      /\ pos' = [pos EXCEPT ![r] = Len(after[r])]
      /\ UNCHANGED <<repo, audit, job, before, after, filed, gone>>
  BY DEF FileFails, work, stores, Goto
<1>2. Len(after[r]) \in 1 .. Len(after[r]) /\ filed[r] \in 0 .. Len(after[r])
  BY <1>1, Counters
<1>3. /\ DOMAIN repo' \subseteq Id /\ repo' \in [DOMAIN repo' -> Artifact]
      /\ audit' \subseteq AuditEvent(Id, Id)
  BY <1>1 DEF TypeInv, TypeOK
<1> QED
  BY <1>1, <1>2, <1>3, Unmoved, LoopType

\* A step that undoes: it leaves the counter of events, moves to `l' and `p'.
LEMMA UndoType ==
  ASSUME TypeInv, NEW r \in Req,
         pc[r] \in {"save", "append", "undo", "scrub", "purge"},
         NEW l \in {"undo", "scrub", "purge", "failed"},
         NEW p \in 1 .. Len(after[r]),
         UNCHANGED <<job, before, after, filed, gone>>,
         DOMAIN repo' \subseteq Id, repo' \in [DOMAIN repo' -> Artifact],
         audit' \subseteq audit,
         pc' = [pc EXCEPT ![r] = l],
         pos' = [pos EXCEPT ![r] = p],
         l \in {"scrub", "purge"} => job[r].op = "batch"
  PROVE  TypeInv'
<1>1. filed[r] \in 0 .. Len(after[r])
  BY Counters
<1>2. filed' = [filed EXCEPT ![r] = filed[r]]
  BY Unmoved
<1>3. audit' \subseteq AuditEvent(Id, Id)
  BY DEF TypeInv, TypeOK
<1> QED
  BY <1>1, <1>2, <1>3, LoopType DEF Ended

LEMMA RestoreType ==
  ASSUME TypeInv, NEW r \in Req, Restore(r)
  PROVE  TypeInv'
<1>1. /\ pc[r] = "undo" /\ ~Creating(r)
      /\ repo' = Put(repo, job[r].id, before[r][1]) \/ repo' = repo
      /\ pc' = [pc EXCEPT ![r] = "failed"]
      /\ UNCHANGED <<audit, job, before, after, pos, filed, gone>>
  BY DEF Restore, Goto, work
<1>2. pos[r] \in 1 .. Len(after[r]) /\ pos' = [pos EXCEPT ![r] = pos[r]]
  BY <1>1, Counters, Unmoved
<1>3. DOMAIN repo \subseteq Id /\ repo \in [DOMAIN repo -> Artifact]
  BY DEF TypeInv, TypeOK
<1>4. job[r].id \in Id /\ before[r][1] \in Artifact
  <2>1. before[r] \in Seq(Artifact) /\ Len(before[r]) = Len(after[r])
    BY <1>1 DEF TypeInv, TypeOK, Progress
  <2> QED
    BY <1>2, <2>1 DEF TypeInv, TypeOK, Job
<1>5. DOMAIN repo' \subseteq Id /\ repo' \in [DOMAIN repo' -> Artifact]
  <2>1. CASE repo' = repo
    BY <1>3, <2>1
  <2>2. CASE repo' = Put(repo, job[r].id, before[r][1])
    <3>1. DOMAIN repo' = DOMAIN repo \union {job[r].id}
      BY <1>3, <1>4, <2>2, PutType
    <3>2. repo' \in [DOMAIN repo' -> Artifact]
      BY <1>3, <1>4, <2>2, PutType
    <3> QED
      BY <1>3, <1>4, <3>1, <3>2
  <2> QED
    BY <1>1, <2>1, <2>2
<1> QED
  BY <1>1, <1>2, <1>5, UndoType

LEMMA WithdrawType ==
  ASSUME TypeInv, NEW r \in Req, Withdraw(r)
  PROVE  TypeInv'
<1> DEFINE l == IF job[r].op = "create" THEN "failed" ELSE "scrub"
<1>1. /\ pc[r] = "undo" /\ Creating(r)
      /\ repo' = Drop(repo, Item(r, pos[r])) \/ repo' = repo
      /\ pc' = [pc EXCEPT ![r] = l]
      /\ UNCHANGED <<audit, job, before, after, pos, filed, gone>>
  BY DEF Withdraw, Goto, work
<1>2. pos[r] \in 1 .. Len(after[r]) /\ pos' = [pos EXCEPT ![r] = pos[r]]
  BY <1>1, Counters, Unmoved
<1>3. DOMAIN repo \subseteq Id /\ repo \in [DOMAIN repo -> Artifact]
  BY DEF TypeInv, TypeOK
<1>4. DOMAIN repo' \subseteq Id /\ repo' \in [DOMAIN repo' -> Artifact]
  BY <1>1, <1>3 DEF Drop
<1>5. l = "scrub" => job[r].op = "batch"
  BY <1>1 DEF Creating
<1>6. l \in {"scrub", "failed"}
  OBVIOUS
<1> HIDE DEF l
<1> QED
  BY <1>1, <1>2, <1>4, <1>5, <1>6, UndoType

\* DeleteByArtifact only takes events away.
LEMMA DeleteShrinks ==
  ASSUME NEW r, NEW id, DeleteByArtifact(r, id)
  PROVE  audit' \subseteq audit /\ \A e \in audit \ audit' : e.artifact = id
  BY DEF DeleteByArtifact

LEMMA ScrubType ==
  ASSUME TypeInv, NEW r \in Req, Scrub(r)
  PROVE  TypeInv'
<1>1. /\ pc[r] = "scrub" /\ job[r].op = "batch"
      /\ DeleteByArtifact(r, Item(r, pos[r]))
      /\ UNCHANGED <<repo, job, before, after, filed, gone>>
  BY DEF Scrub, work, TypeInv, Progress
<1>2. pos[r] \in 1 .. Len(after[r]) /\ Len(after[r]) \in Nat
  BY <1>1, Counters
<1>3. /\ DOMAIN repo' \subseteq Id /\ repo' \in [DOMAIN repo' -> Artifact]
      /\ audit' \subseteq audit
  BY <1>1, DeleteShrinks DEF TypeInv, TypeOK
<1>4. CASE pos[r] > 1
  <2>1. /\ pos' = [pos EXCEPT ![r] = pos[r] - 1]
        /\ pc' = [pc EXCEPT ![r] = "undo"]
    BY <1>4 DEF Scrub, Goto
  <2>2. pos[r] - 1 \in 1 .. Len(after[r])
    BY <1>2, <1>4
  <2> QED
    BY <1>1, <1>3, <2>1, <2>2, UndoType
<1>5. CASE ~(pos[r] > 1)
  <2> DEFINE l == IF filed[r] > 0 THEN "purge" ELSE "failed"
  <2>1. /\ pos' = [pos EXCEPT ![r] = pos[r]]
        /\ pc' = [pc EXCEPT ![r] = l]
    BY <1>5, Unmoved DEF Scrub, Goto
  <2>2. l \in {"purge", "failed"}
    OBVIOUS
  <2> HIDE DEF l
  <2> QED
    BY <1>1, <1>2, <1>3, <2>1, <2>2, UndoType
<1> QED
  BY <1>4, <1>5

LEMMA PurgeType ==
  ASSUME TypeInv, NEW r \in Req, Purge(r)
  PROVE  TypeInv'
<1>1. /\ pc[r] = "purge" /\ job[r].op = "batch"
      /\ DeleteByArtifact(r, Item(r, pos[r]))
      /\ UNCHANGED <<repo, job, before, after, filed, gone>>
  BY DEF Purge, work, TypeInv, Progress
<1>2. /\ pos[r] \in 1 .. Len(after[r]) /\ Len(after[r]) \in Nat
      /\ filed[r] \in 0 .. Len(after[r])
  BY <1>1, Counters
<1>3. /\ DOMAIN repo' \subseteq Id /\ repo' \in [DOMAIN repo' -> Artifact]
      /\ audit' \subseteq audit
  BY <1>1, DeleteShrinks DEF TypeInv, TypeOK
<1>4. CASE pos[r] < filed[r]
  <2>1. /\ pos' = [pos EXCEPT ![r] = pos[r] + 1]
        /\ pc' = [pc EXCEPT ![r] = "purge"]
    BY <1>1, <1>4, Unmoved DEF Purge
  <2>2. pos[r] + 1 \in 1 .. Len(after[r])
    BY <1>2, <1>4
  <2> QED
    BY <1>1, <1>3, <2>1, <2>2, UndoType
<1>5. CASE ~(pos[r] < filed[r])
  <2>1. /\ pos' = [pos EXCEPT ![r] = pos[r]]
        /\ pc' = [pc EXCEPT ![r] = "failed"]
    BY <1>5, Unmoved DEF Purge, Goto
  <2> QED
    BY <1>1, <1>2, <1>3, <2>1, UndoType
<1> QED
  BY <1>4, <1>5

LEMMA TypeInvStep == TypeInv /\ [Next]_vars => TypeInv'
<1> SUFFICES ASSUME TypeInv, [Next]_vars
             PROVE  TypeInv'
  OBVIOUS
<1>1. ASSUME NEW r \in Req, Arrive(r) \/ Cancel(r)
      PROVE  TypeInv'
  BY <1>1, ArriveType, CancelType
<1>2. ASSUME NEW r \in Req, Serve(r)
      PROVE  TypeInv'
  BY <1>2, RefuseType, PrepareType, ReadType, SaveType, SaveFailsType, FileType,
     FileFailsType, RestoreType, WithdrawType, ScrubType, PurgeType DEF Serve
<1>3. CASE Crash
  BY <1>3, CrashType
<1>4. CASE UNCHANGED vars
  BY <1>4 DEF vars, TypeInv, TypeOK, Progress, Active, Creating
<1> QED
  BY <1>1, <1>2, <1>3, <1>4 DEF Next, Quiet

(***************************************************************************)
(* The stores hold well-formed records and events, and no handler's loop   *)
(* runs past its items, under every interleaving and failure.              *)
(***************************************************************************)
THEOREM TypeCorrect == Spec => []TypeOK
<1>1. TypeInv => TypeOK
  BY DEF TypeInv
<1> QED
  BY <1>1, TypeInvInit, TypeInvStep, PTL DEF Spec

-----------------------------------------------------------------------------
(***************************************************************************)
(* The safety side of EveryRequestAnswered: no handler goes on for ever.   *)
(***************************************************************************)
LEMMA StepsLeftIs ==
  ASSUME NEW r
  PROVE  LET n == Len(after[r])
         IN /\ pc[r] = "start"  => StepsLeft(r) = 5 * MaxBatch + 2
            /\ pc[r] = "save"   => StepsLeft(r) = 5 * n + 2 - pos[r]
            /\ pc[r] = "append" => StepsLeft(r) = 4 * n + 2 - pos[r]
            /\ pc[r] = "undo"   => StepsLeft(r) = n + 2 * pos[r] + 1
            /\ pc[r] = "scrub"  => StepsLeft(r) = n + 2 * pos[r]
            /\ pc[r] = "purge"  => StepsLeft(r) = n + 1 - pos[r]
            /\ pc[r] \notin Handling => StepsLeft(r) = 0
BY DEF StepsLeft, Handling

LEMMA StepsLeftWillBe ==
  ASSUME NEW r
  PROVE  LET n == Len(after'[r])
         IN /\ pc'[r] = "save"   => StepsLeft(r)' = 5 * n + 2 - pos'[r]
            /\ pc'[r] = "append" => StepsLeft(r)' = 4 * n + 2 - pos'[r]
            /\ pc'[r] = "undo"   => StepsLeft(r)' = n + 2 * pos'[r] + 1
            /\ pc'[r] = "scrub"  => StepsLeft(r)' = n + 2 * pos'[r]
            /\ pc'[r] = "purge"  => StepsLeft(r)' = n + 1 - pos'[r]
            /\ pc'[r] \notin Handling => StepsLeft(r)' = 0
BY DEF StepsLeft, Handling

\* Where a handler is decides how far it has to go.
LEMMA StepsLeftAt ==
  ASSUME TypeInv, NEW r \in Req
  PROVE  /\ StepsLeft(r) \in 0 .. 5 * MaxBatch + 2
         /\ Active(r) => StepsLeft(r) > 0
         /\ pc[r] \in Ended => StepsLeft(r) = 0
<1>1. /\ Len(after[r]) \in Nat /\ MaxBatch \in Nat \ {0}
      /\ Len(after[r]) <= MaxBatch /\ pos[r] \in Nat \ {0}
      /\ Active(r) /\ pc[r] # "start" => pos[r] <= Len(after[r])
  BY BatchAssumption DEF TypeInv, TypeOK
<1>2. pc[r] \in {"idle"} \union Handling \union Ended
  BY DEF TypeInv, TypeOK
<1> DEFINE n == Len(after[r])
           k == pos[r]
<1>3. CASE pc[r] = "start"
  BY <1>1, <1>3, StepsLeftIs DEF Ended
<1>4. CASE pc[r] \in {"save", "append", "undo", "scrub", "purge"}
  <2>1. /\ n \in Nat /\ MaxBatch \in Nat /\ n <= MaxBatch
        /\ k \in Nat /\ 1 <= k /\ k <= n
    BY <1>1, <1>4 DEF Active, Handling
  <2>2. StepsLeft(r) \in {5 * n + 2 - k, 4 * n + 2 - k,
                          n + 2 * k + 1, n + 2 * k, n + 1 - k}
    BY <1>4, StepsLeftIs
  <2> HIDE DEF n, k
  <2>3. StepsLeft(r) \in 1 .. 5 * MaxBatch + 2
    BY <2>1, <2>2
  <2> QED
    BY <1>4, <2>1, <2>3 DEF Ended
<1>5. CASE pc[r] \notin Handling
  BY <1>1, <1>5, StepsLeftIs DEF Active
<1> QED
  BY <1>3, <1>4, <1>5 DEF Handling

StepsLeftOK == \A r \in Req : StepsLeft(r) \in 0 .. 5 * MaxBatch + 2

LEMMA StepsLeftType == TypeInv => StepsLeftOK
BY StepsLeftAt DEF StepsLeftOK

\* The ways through a handler: from a loop to the next, to the next item of a
\* loop, and to the end.
Moves(r, from, to) ==
  pc[r] = from /\ pc'[r] = to /\ Len(after'[r]) = Len(after[r])

LEMMA HandlerMoves ==
  ASSUME TypeInv, NEW r \in Req, Serve(r)
  PROVE  \/ pc'[r] \in {"ok", "failed"}
         \/ pc[r] = "start" /\ pc'[r] = "save" /\ pos'[r] = 1
         \/ Moves(r, "save", "save") /\ pos'[r] = pos[r] + 1
         \/ Moves(r, "save", "append") /\ pos'[r] = 1
         \/ Moves(r, "save", "undo") /\ pos'[r] = pos[r] - 1
         \/ Moves(r, "append", "append") /\ pos'[r] = pos[r] + 1
         \/ Moves(r, "append", "undo") /\ pos'[r] = Len(after[r])
         \/ Moves(r, "undo", "scrub") /\ pos'[r] = pos[r]
         \/ Moves(r, "scrub", "undo") /\ pos'[r] = pos[r] - 1
         \/ Moves(r, "scrub", "purge") /\ pos'[r] = pos[r]
         \/ Moves(r, "purge", "purge") /\ pos'[r] = pos[r] + 1
<1> USE DEF Moves, TypeInv, TypeOK
<1>1. \A label : Goto(r, label) => pc'[r] = label
  BY DEF Goto
<1>2. CASE Refuse(r) \/ ReadFails(r) \/ Restore(r)
  BY <1>1, <1>2 DEF Refuse, ReadFails, Restore
<1>3. CASE Prepare(r) \/ Read(r)
  BY <1>1, <1>3 DEF Prepare, Read, Progress
<1>4. CASE Save(r)
  BY <1>1, <1>4 DEF Save, work
<1>5. CASE SaveFails(r)
  BY <1>1, <1>5 DEF SaveFails, work
<1>6. CASE File(r)
  BY <1>1, <1>6 DEF File, work
<1>7. CASE FileFails(r)
  BY <1>1, <1>7 DEF FileFails, work
<1>8. CASE Withdraw(r)
  BY <1>1, <1>8 DEF Withdraw, work
<1>9. CASE Scrub(r)
  BY <1>1, <1>9 DEF Scrub, work
<1>10. CASE Purge(r)
  BY <1>1, <1>10 DEF Purge, work
<1> QED
  BY <1>2, <1>3, <1>4, <1>5, <1>6, <1>7, <1>8, <1>9, <1>10 DEF Serve

\* Each of them brings a handler closer to its end.
LEMMA ServeAdvances ==
  ASSUME TypeInv, TypeInv', NEW r \in Req, Serve(r)
  PROVE  StepsLeft(r)' < StepsLeft(r)
<1> DEFINE n == Len(after[r])
           k == pos[r]
           m == Len(after'[r])
           j == pos'[r]
<1>1. Active(r)
  BY DEF Serve, Refuse, Prepare, Read, ReadFails, Save, SaveFails, File,
         FileFails, Restore, Withdraw, Scrub, Purge, Active, Handling
<1>2. /\ n \in Nat /\ k \in Nat \ {0} /\ m \in Nat /\ j \in Nat \ {0}
      /\ MaxBatch \in Nat \ {0} /\ m <= MaxBatch
      /\ pc[r] # "start" => k <= n
  BY <1>1, BatchAssumption DEF TypeInv, TypeOK
<1>3. /\ pc[r] = "start"  => StepsLeft(r) = 5 * MaxBatch + 2
      /\ pc[r] = "save"   => StepsLeft(r) = 5 * n + 2 - k
      /\ pc[r] = "append" => StepsLeft(r) = 4 * n + 2 - k
      /\ pc[r] = "undo"   => StepsLeft(r) = n + 2 * k + 1
      /\ pc[r] = "scrub"  => StepsLeft(r) = n + 2 * k
      /\ pc[r] = "purge"  => StepsLeft(r) = n + 1 - k
  BY StepsLeftIs
<1>4. /\ pc'[r] = "save"   => StepsLeft(r)' = 5 * m + 2 - j
      /\ pc'[r] = "append" => StepsLeft(r)' = 4 * m + 2 - j
      /\ pc'[r] = "undo"   => StepsLeft(r)' = m + 2 * j + 1
      /\ pc'[r] = "scrub"  => StepsLeft(r)' = m + 2 * j
      /\ pc'[r] = "purge"  => StepsLeft(r)' = m + 1 - j
      /\ pc'[r] \in {"ok", "failed"} => StepsLeft(r)' = 0
  BY StepsLeftWillBe DEF Handling
<1>5. /\ StepsLeft(r) \in Int /\ StepsLeft(r) > 0
  BY <1>1, StepsLeftAt, BatchAssumption
<1>6. \/ pc'[r] \in {"ok", "failed"}
      \/ pc[r] = "start" /\ pc'[r] = "save" /\ j = 1
      \/ pc[r] = "save" /\ pc'[r] = "save" /\ m = n /\ j = k + 1
      \/ pc[r] = "save" /\ pc'[r] = "append" /\ m = n /\ j = 1
      \/ pc[r] = "save" /\ pc'[r] = "undo" /\ m = n /\ j = k - 1
      \/ pc[r] = "append" /\ pc'[r] = "append" /\ m = n /\ j = k + 1
      \/ pc[r] = "append" /\ pc'[r] = "undo" /\ m = n /\ j = n
      \/ pc[r] = "undo" /\ pc'[r] = "scrub" /\ m = n /\ j = k
      \/ pc[r] = "scrub" /\ pc'[r] = "undo" /\ m = n /\ j = k - 1
      \/ pc[r] = "scrub" /\ pc'[r] = "purge" /\ m = n /\ j = k
      \/ pc[r] = "purge" /\ pc'[r] = "purge" /\ m = n /\ j = k + 1
  BY HandlerMoves DEF Moves
<1> DEFINE from == pc[r]
           to == pc'[r]
           now == StepsLeft(r)
           then == StepsLeft(r)'
<1> HIDE DEF n, k, m, j, from, to, now, then
<1>7. then < now
  BY <1>2, <1>3, <1>4, <1>5, <1>6 DEF from, to, now, then
<1> QED
  BY <1>7 DEF now, then

\* A step of another handler, of a client or of the machine leaves a
\* handler where it is, or ends it.
LEMMA OthersLeaveAlone ==
  ASSUME TypeInv, [Next]_vars, NEW r \in Req, Active(r), ~Serve(r)
  PROVE  \/ pc'[r] = pc[r] /\ pos'[r] = pos[r] /\ after'[r] = after[r]
         \/ pc'[r] = "lost"
<1> DEFINE P == \/ pc'[r] = pc[r] /\ pos'[r] = pos[r] /\ after'[r] = after[r]
                \/ pc'[r] = "lost"
<1> USE DEF TypeInv, TypeOK
<1>1. ASSUME NEW q \in Req, Arrive(q) \/ Cancel(q) PROVE P
  BY <1>1 DEF Arrive, Cancel, Active, Handling, work
<1>2. ASSUME NEW q \in Req, Serve(q) PROVE P
  <2>1. q # r
    BY <1>2
  <2>2. CASE Refuse(q) \/ ReadFails(q) \/ Prepare(q) \/ Read(q)
    BY <2>1, <2>2 DEF Refuse, ReadFails, Prepare, Read, Goto, work
  <2>3. CASE Save(q) \/ SaveFails(q) \/ File(q) \/ FileFails(q)
    BY <2>1, <2>3 DEF Save, SaveFails, File, FileFails, Goto, work
  <2>4. CASE Restore(q) \/ Withdraw(q) \/ Scrub(q) \/ Purge(q)
    BY <2>1, <2>4 DEF Restore, Withdraw, Scrub, Purge, Goto, work
  <2> QED
    BY <1>2, <2>2, <2>3, <2>4 DEF Serve
<1>3. CASE Crash
  BY <1>3 DEF Crash, work
<1>4. CASE UNCHANGED vars
  BY <1>4 DEF vars
<1> QED
  BY <1>1, <1>2, <1>3, <1>4 DEF Next, Quiet

(***************************************************************************)
(* The loops of ImportBatch and its rollback end, whichever calls fail and *)
(* whenever the client goes away: no handler takes more than 5 steps for   *)
(* each item of the largest batch, and two more.                           *)
(***************************************************************************)
THEOREM HandlersComeToAnEnd == Spec => HandlersAdvance
<1> DEFINE A == \A r \in Req : Active(r) =>
                  /\ StepsLeft(r) \in 1 .. 5 * MaxBatch + 2
                  /\ StepsLeft(r)' <= StepsLeft(r)
                  /\ Serve(r) => StepsLeft(r)' < StepsLeft(r)
<1>1. ASSUME TypeInv, TypeInv', [Next]_vars, NEW r \in Req, Active(r)
      PROVE  /\ StepsLeft(r) \in 1 .. 5 * MaxBatch + 2
             /\ StepsLeft(r)' <= StepsLeft(r)
             /\ Serve(r) => StepsLeft(r)' < StepsLeft(r)
  <2>1. StepsLeft(r) \in 1 .. 5 * MaxBatch + 2
    BY <1>1, StepsLeftAt, BatchAssumption
  <2>2. ASSUME Serve(r) PROVE StepsLeft(r)' < StepsLeft(r)
    BY <1>1, <2>2, ServeAdvances
  <2>3. ASSUME ~Serve(r) PROVE StepsLeft(r)' = StepsLeft(r) \/ StepsLeft(r)' = 0
    BY <1>1, <2>3, OthersLeaveAlone DEF StepsLeft
  <2>4. StepsLeft(r)' \in Int
    <3>1. CASE Serve(r)
      <4>1. StepsLeftOK'
        BY <1>1, StepsLeftType, PTL
      <4> QED
        BY <4>1, BatchAssumption DEF StepsLeftOK
    <3>2. CASE ~Serve(r)
      BY <2>1, <2>3, <3>2, BatchAssumption
    <3> QED
      BY <3>1, <3>2
  <2> QED
    BY <2>1, <2>2, <2>3, <2>4, BatchAssumption
<1>2. TypeInv /\ TypeInv' /\ [Next]_vars => A
  BY <1>1
<1>3. TypeInv /\ TypeInv' /\ [Next]_vars => [A]_vars
  BY <1>2
<1> QED
  BY <1>3, TypeInvInit, TypeInvStep, PTL DEF Spec, HandlersAdvance

-----------------------------------------------------------------------------
(***************************************************************************)
(* What is behind a record.  Good is RecordsSound and PublicWasReviewed    *)
(* for one record, and for a pending one the submit that made it; it holds *)
(* of every record a store or a handler has, because a handler only gets   *)
(* records from the repository and only writes back what it got or made.   *)
(***************************************************************************)
Reviewed(id, a) ==
  /\ a.status = "pending_review" => SubmittedAs(id, a)
  /\ a.status = "approved" => ApprovedAs(id, a)

Good(id, a) == Sound(a) /\ Reviewed(id, a)

GoodInv ==
  /\ TypeInv
  /\ \A id \in DOMAIN repo : Good(id, repo[id])
  /\ \A r \in Req : \A k \in 1 .. Len(after[r]) : Good(Item(r, k), after[r][k])
  /\ \A r \in Req : ~Creating(r) =>
       \A k \in 1 .. Len(before[r]) : Good(job[r].id, before[r][k])

\* Only the first steps of a handler touch its part in the history.
LEMMA OthersKept ==
  ASSUME TypeInv, [Next]_vars, NEW q \in Req,
         ~Arrive(q), ~Prepare(q), ~Read(q)
  PROVE  job'[q] = job[q] /\ before'[q] = before[q] /\ after'[q] = after[q]
<1>1. ASSUME NEW r \in Req, Arrive(r)
      PROVE  job'[q] = job[q] /\ before'[q] = before[q] /\ after'[q] = after[q]
  <2>1. r # q
    BY <1>1
  <2>2. job' \in [Req -> Job] /\ UNCHANGED <<before, after>>
    BY <1>1, ArriveType DEF Arrive, TypeInv, TypeOK
  <2>3. \E j : job' = [job EXCEPT ![r] = j]
    BY <1>1 DEF Arrive
  <2> QED
    BY <2>1, <2>2, <2>3 DEF TypeInv, TypeOK
<1>2. ASSUME NEW r \in Req, Prepare(r) \/ Read(r)
      PROVE  job'[q] = job[q] /\ before'[q] = before[q] /\ after'[q] = after[q]
  <2>1. r # q
    BY <1>2
  <2>2. /\ job' = job /\ \E s : before' = [before EXCEPT ![r] = s]
        /\ \E s : after' = [after EXCEPT ![r] = s]
    <3>1. CASE Prepare(r)
      BY <3>1, Zenon DEF Prepare
    <3>2. CASE Read(r)
      BY <3>2, Zenon DEF Read
    <3> QED
      BY <1>2, <3>1, <3>2
  <2> QED
    BY <2>1, <2>2 DEF TypeInv, TypeOK
<1>3. ASSUME NEW r \in Req, Serve(r)
      PROVE  job'[q] = job[q] /\ before'[q] = before[q] /\ after'[q] = after[q]
  <2>1. CASE Prepare(r) \/ Read(r)
    BY <1>2, <2>1
  <2>2. CASE ~(Prepare(r) \/ Read(r))
    BY <1>3, <2>2 DEF Serve, Refuse, ReadFails, Save, SaveFails, File,
                      FileFails, Restore, Withdraw, Scrub, Purge, work
  <2> QED
    BY <2>1, <2>2
<1>4. ASSUME NEW r \in Req, Cancel(r)
      PROVE  job'[q] = job[q] /\ before'[q] = before[q] /\ after'[q] = after[q]
  BY <1>4 DEF Cancel, work
<1>5. CASE Crash \/ UNCHANGED vars
  BY <1>5 DEF Crash, vars, work
<1> QED
  BY <1>1, <1>3, <1>4, <1>5 DEF Next, Quiet

\* Once a handler has made its records, its part in the history is settled.
LEMMA HistoryKept ==
  ASSUME TypeInv, [Next]_vars, NEW q \in Req, after[q] # << >>
  PROVE  job'[q] = job[q] /\ before'[q] = before[q] /\ after'[q] = after[q]
<1>1. pc[q] \notin {"idle", "start"}
  BY DEF TypeInv, Progress
<1> QED
  BY <1>1, OthersKept DEF Arrive, Prepare, Read

LEMMA ReviewedKept ==
  ASSUME TypeInv, [Next]_vars, NEW id, NEW a, Reviewed(id, a)
  PROVE  Reviewed(id, a)'
<1>1. \A b : SubmittedAs(id, b) => SubmittedAs(id, b)'
  <2> SUFFICES ASSUME NEW b, SubmittedAs(id, b) PROVE SubmittedAs(id, b)'
    OBVIOUS
  <2>1. PICK r \in Req :
          job[r].op = "submit_review" /\ job[r].id = id /\ after[r] = <<b>>
    BY DEF SubmittedAs
  <2>2. job'[r] = job[r] /\ after'[r] = after[r]
    <3>1. after[r] # << >>
      BY <2>1
    <3> QED
      BY <3>1, HistoryKept
  <2> QED
    BY <2>1, <2>2 DEF SubmittedAs
<1>2. ASSUME ApprovedAs(id, a) PROVE ApprovedAs(id, a)'
  <2>1. PICK r \in Req :
          /\ job[r].op = "approve" /\ job[r].id = id /\ after[r] = <<a>>
          /\ SubmittedAs(id, before[r][1])
          /\ before[r][1].meta = a.meta
    BY <1>2 DEF ApprovedAs
  <2>2. job'[r] = job[r] /\ before'[r] = before[r] /\ after'[r] = after[r]
    <3>1. after[r] # << >>
      BY <2>1
    <3> QED
      BY <3>1, HistoryKept
  <2>3. PICK q \in Req :
          /\ job[q].op = "submit_review" /\ job[q].id = id
          /\ after[q] = <<before[r][1]>>
    BY <2>1 DEF SubmittedAs
  <2>4. job'[q] = job[q] /\ after'[q] = after[q]
    <3>1. after[q] # << >>
      BY <2>3
    <3> QED
      BY <3>1, HistoryKept
  <2>5. before'[r][1] = before[r][1]
    BY <2>2
  <2>6. \E s \in Req :
          /\ job'[s].op = "submit_review" /\ job'[s].id = id
          /\ after'[s] = <<before'[r][1]>>
    BY <2>3, <2>4, <2>5
  <2> QED
    BY <2>1, <2>2, <2>6 DEF ApprovedAs, SubmittedAs
<1> QED
  BY <1>1, <1>2 DEF Reviewed

LEMMA GoodKept ==
  ASSUME TypeInv, [Next]_vars, NEW id, NEW a, Good(id, a)
  PROVE  Good(id, a)'
  BY ReviewedKept DEF Good

\* Where the records of the repository come from.
LEMMA RepoOrigin ==
  ASSUME TypeInv, [Next]_vars, NEW id \in DOMAIN repo'
  PROVE  \/ id \in DOMAIN repo /\ repo'[id] = repo[id]
         \/ \E r \in Req : \E k \in 1 .. Len(after[r]) :
              id = Item(r, k) /\ repo'[id] = after[r][k]
         \/ \E r \in Req :
              /\ ~Creating(r) /\ Len(before[r]) >= 1
              /\ id = job[r].id /\ repo'[id] = before[r][1]
<1>1. ASSUME NEW r \in Req, Save(r)
      PROVE  \/ id \in DOMAIN repo /\ repo'[id] = repo[id]
             \/ \E k \in 1 .. Len(after[r]) :
                  id = Item(r, k) /\ repo'[id] = after[r][k]
  <2>1. pos[r] \in 1 .. Len(after[r])
    BY <1>1, Counters DEF Save
  <2>2. repo' = Put(repo, Item(r, pos[r]), after[r][pos[r]])
    BY <1>1 DEF Save
  <2> QED
    BY <2>1, <2>2 DEF Put
<1>2. ASSUME NEW r \in Req, Restore(r)
      PROVE  \/ id \in DOMAIN repo /\ repo'[id] = repo[id]
             \/ /\ ~Creating(r) /\ Len(before[r]) >= 1
                /\ id = job[r].id /\ repo'[id] = before[r][1]
  <2>1. Len(after[r]) \in Nat /\ pos[r] \in 1 .. Len(after[r])
    BY <1>2, Counters DEF Restore
  <2>2. Len(before[r]) >= 1
    BY <2>1 DEF TypeInv, TypeOK
  <2> QED
    BY <1>2, <2>2 DEF Restore, Put
<1>3. ASSUME NEW r \in Req, Withdraw(r)
      PROVE  id \in DOMAIN repo /\ repo'[id] = repo[id]
  BY <1>3 DEF Withdraw, Drop
<1>4. ASSUME NEW r \in Req,
             \/ Arrive(r) \/ Cancel(r) \/ Prepare(r) \/ Read(r) \/ Refuse(r)
             \/ ReadFails(r) \/ SaveFails(r) \/ File(r) \/ FileFails(r)
             \/ Scrub(r) \/ Purge(r)
      PROVE  repo' = repo
  BY <1>4 DEF Arrive, Cancel, Prepare, Read, Refuse, ReadFails, SaveFails, File,
              FileFails, Scrub, Purge, stores
<1>6. CASE repo' = repo
  BY <1>6
<1>7. ASSUME NEW r \in Req, Arrive(r) \/ Cancel(r) \/ Serve(r), repo' # repo
      PROVE  Save(r) \/ Restore(r) \/ Withdraw(r)
  BY <1>4, <1>7 DEF Serve
<1>8. CASE repo' # repo
  <2>1. PICK r \in Req : Save(r) \/ Restore(r) \/ Withdraw(r)
    BY <1>7, <1>8 DEF Next, Quiet, vars, Crash, stores
  <2>2. CASE Save(r)
    BY <1>1, <2>2
  <2>3. CASE Restore(r)
    BY <1>2, <2>3
  <2>4. CASE Withdraw(r)
    BY <1>3, <2>4
  <2> QED
    BY <2>1, <2>2, <2>3, <2>4
<1> QED
  BY <1>6, <1>8

LEMMA GoodInvInit == Init => GoodInv
<1> SUFFICES ASSUME Init PROVE GoodInv
  OBVIOUS
<1>1. DOMAIN repo = {}
  BY DEF Init
<1>2. \A r \in Req : Len(after[r]) = 0 /\ Len(before[r]) = 0
  BY DEF Init
<1> QED
  BY <1>1, <1>2, TypeInvInit DEF GoodInv

\* The records of a create or a batch.
LEMMA PreparedGood ==
  ASSUME TypeInv, NEW r \in Req, Prepare(r)
  PROVE  /\ (Creating(r))'
         /\ \A id : \A k \in 1 .. Len(after'[r]) : (Good(id, after'[r][k]))
<1>1. PICK n \in 1 .. (IF job[r].op = "batch" THEN MaxBatch ELSE 1) :
        \E m \in [1 .. n -> Meta], now \in [1 .. n -> Time] :
          /\ before' = [before EXCEPT ![r] = [k \in 1 .. n |-> ZeroArtifact]]
          /\ after' = [after EXCEPT
                         ![r] = [k \in 1 .. n |-> NewArtifact(m[k], now[k])]]
  BY Zenon DEF Prepare
<1>2. PICK m \in [1 .. n -> Meta], now \in [1 .. n -> Time] :
        after' = [after EXCEPT
                    ![r] = [k \in 1 .. n |-> NewArtifact(m[k], now[k])]]
  BY <1>1, Zenon
<1>3. after'[r] = [k \in 1 .. n |-> NewArtifact(m[k], now[k])]
  BY <1>2 DEF TypeInv, TypeOK
<1>4. n \in Nat
  BY BatchAssumption
<1>5. ASSUME NEW k \in 1 .. n
      PROVE  Sound(after'[r][k]) /\ after'[r][k].status = "draft"
  BY <1>3, <1>5, NewArtifactSound
<1>6. Len(after'[r]) = n
  BY <1>3, <1>4
<1>7. (Creating(r))'
  BY DEF Prepare, Creating
<1>8. \A id : \A k \in 1 .. Len(after'[r]) : Good(id, after'[r][k])
  BY <1>5, <1>6 DEF Good, Reviewed
<1> QED
  BY <1>7, <1>8

(***************************************************************************)
(* The record a mutation makes: sound, by the lifecycle; pending only when *)
(* this request is a submit; approved only when it approves a pending one. *)
(***************************************************************************)
LEMMA ReadGood ==
  ASSUME GoodInv, [Next]_vars, NEW r \in Req, Read(r)
  PROVE  /\ (~Creating(r))' /\ (Len(before[r]) = 1)' /\ (Len(after[r]) = 1)'
         /\ Good(job[r].id, before[r][1])'
         /\ Good(job[r].id, after[r][1])'
<1>1. TypeInv /\ job' = job /\ ~Creating(r) /\ job[r].id \in DOMAIN repo
  BY DEF Read, GoodInv
<1>2. PICK id : id = job[r].id
  OBVIOUS
<1>3. PICK a : a = repo[id]
  OBVIOUS
<1>4. PICK m \in Meta, now \in Time :
        /\ CanApply(a, job[r].op)
        /\ Valid(Apply(a, job[r].op, m, now))
        /\ before' = [before EXCEPT ![r] = <<a>>]
        /\ after' = [after EXCEPT ![r] = <<Apply(a, job[r].op, m, now)>>]
  BY <1>2, <1>3 DEF Read
<1>5. PICK b : b = Apply(a, job[r].op, m, now)
  OBVIOUS
<1>6. before'[r] = <<a>> /\ after'[r] = <<b>>
  BY <1>1, <1>4, <1>5 DEF TypeInv, TypeOK
<1>7. a \in Artifact /\ job[r].op \in Mutation
  BY <1>1, <1>2, <1>3 DEF TypeInv, TypeOK, Creating, Job, Op
<1>8. Good(id, a)
  BY <1>1, <1>2, <1>3 DEF GoodInv
<1>9. Sound(b)
  BY <1>4, <1>5, <1>7, <1>8, ApplySound DEF Good
<1>10. b.status = "pending_review" => job[r].op = "submit_review"
  BY <1>4, <1>5, <1>7
     DEF Apply, Touch, Submit, Decide, Decision, Mutation, CanApply, Artifact
<1>11. b.status = "approved" =>
         job[r].op = "approve" /\ a.status = "pending_review" /\ a.meta = b.meta
  BY <1>4, <1>5, <1>7
     DEF Apply, Touch, Submit, Decide, Decision, Mutation, CanApply, Artifact
<1>12. Good(id, a)'
  BY <1>1, <1>8, GoodKept
<1>13. b.status = "pending_review" => SubmittedAs(id, b)'
  BY <1>1, <1>2, <1>6, <1>10 DEF SubmittedAs
<1>14. b.status = "approved" => ApprovedAs(id, b)'
  <2> SUFFICES ASSUME b.status = "approved" PROVE ApprovedAs(id, b)'
    OBVIOUS
  <2>1. SubmittedAs(id, a)'
    BY <1>11, <1>12 DEF Good, Reviewed
  <2>2. before'[r][1] = a
    BY <1>6
  <2>3. /\ job'[r].op = "approve" /\ job'[r].id = id
        /\ after'[r] = <<b>> /\ before'[r][1].meta = b.meta
    BY <1>1, <1>2, <1>6, <1>11, <2>2
  <2>4. PICK q \in Req : /\ job'[q].op = "submit_review" /\ job'[q].id = id
                         /\ after'[q] = <<a>>
    BY <2>1 DEF SubmittedAs
  <2> QED
    BY <2>2, <2>3, <2>4 DEF ApprovedAs, SubmittedAs
<1>15. Good(id, b)'
  BY <1>9, <1>13, <1>14 DEF Good, Reviewed
<1>16. /\ before'[r][1] = a /\ after'[r][1] = b /\ job'[r].id = id
       /\ Len(before'[r]) = 1 /\ Len(after'[r]) = 1
  BY <1>1, <1>2, <1>6
<1>17. (~Creating(r))'
  BY <1>1 DEF Creating
<1>18. Good(job[r].id, before[r][1])' /\ Good(job[r].id, after[r][1])'
  BY <1>12, <1>15, <1>16 DEF Good, Reviewed, SubmittedAs, ApprovedAs
<1> QED
  BY <1>16, <1>17, <1>18

LEMMA GoodInvStep == GoodInv /\ [Next]_vars => GoodInv'
<1> SUFFICES ASSUME GoodInv, [Next]_vars
             PROVE  GoodInv'
  OBVIOUS
<1>1. TypeInv /\ TypeInv'
  BY TypeInvStep DEF GoodInv
<1>2. ASSUME NEW id \in DOMAIN repo'
      PROVE  Good(id, repo[id])'
  <2>1. PICK a : a = repo'[id]
    OBVIOUS
  <2>2. Good(id, a)
    <3>1. CASE id \in DOMAIN repo /\ repo'[id] = repo[id]
      BY <2>1, <3>1 DEF GoodInv
    <3>2. CASE \E r \in Req : \E k \in 1 .. Len(after[r]) :
                 id = Item(r, k) /\ repo'[id] = after[r][k]
      BY <2>1, <3>2 DEF GoodInv
    <3>3. CASE \E r \in Req :
                 /\ ~Creating(r) /\ Len(before[r]) >= 1
                 /\ id = job[r].id /\ repo'[id] = before[r][1]
      <4>1. PICK r \in Req : /\ ~Creating(r) /\ Len(before[r]) >= 1
                             /\ id = job[r].id /\ repo'[id] = before[r][1]
        BY <3>3
      <4>2. 1 \in 1 .. Len(before[r])
        BY <1>1, <4>1 DEF TypeInv, TypeOK
      <4> QED
        BY <2>1, <4>1, <4>2 DEF GoodInv
    <3> QED
      BY <1>1, <3>1, <3>2, <3>3, RepoOrigin
  <2>3. Good(id, a)'
    BY <1>1, <2>2, GoodKept
  <2> QED
    BY <2>1, <2>3 DEF Good, Reviewed, SubmittedAs, ApprovedAs
<1>3. ASSUME NEW r \in Req
      PROVE  /\ \A k \in 1 .. Len(after'[r]) : Good(Item(r, k), after[r][k])'
             /\ (~Creating(r))' =>
                  \A k \in 1 .. Len(before'[r]) : Good(job[r].id, before[r][k])'
  <2>1. CASE Read(r)
    <3>1. ~Creating(r) /\ (~Creating(r))'
      BY <2>1, ReadGood DEF Read
    <3>2. Item(r, 1)' = job'[r].id
      BY <3>1 DEF Item
    <3>3. /\ Len(after'[r]) = 1 /\ Len(before'[r]) = 1
          /\ Good(job[r].id, before[r][1])' /\ Good(job[r].id, after[r][1])'
      BY <2>1, ReadGood
    <3>4. Good(Item(r, 1), after[r][1])'
      BY <3>2, <3>3 DEF Good, Reviewed, SubmittedAs, ApprovedAs
    <3>5. \A k \in 1 .. 1 : k = 1
      OBVIOUS
    <3> QED
      BY <3>3, <3>4, <3>5
  <2>2. CASE Prepare(r)
    <3>1. ASSUME NEW k \in 1 .. Len(after'[r])
          PROVE  Good(Item(r, k), after[r][k])'
      <4>1. PICK id : id = Item(r, k)'
        OBVIOUS
      <4>2. PICK a : a = after'[r][k]
        OBVIOUS
      <4>3. Good(id, a)
        BY <1>1, <2>2, <4>2, PreparedGood
      <4>4. Good(id, a)'
        BY <1>1, <4>3, GoodKept
      <4> QED
        BY <4>1, <4>2, <4>4 DEF Good, Reviewed, SubmittedAs, ApprovedAs
    <3>2. (Creating(r))'
      BY <1>1, <2>2, PreparedGood
    <3> QED
      BY <3>1, <3>2
  <2>3. CASE Arrive(r)
    <3>1. Len(after'[r]) = 0 /\ Len(before'[r]) = 0
      BY <1>1, <2>3 DEF Arrive, TypeInv, Progress
    <3> QED
      BY <3>1
  <2>4. CASE ~Read(r) /\ ~Prepare(r) /\ ~Arrive(r)
    <3>1. job'[r] = job[r] /\ before'[r] = before[r] /\ after'[r] = after[r]
      BY <1>1, <2>4, OthersKept
    <3>2. ASSUME NEW k \in 1 .. Len(after[r])
          PROVE  Good(Item(r, k), after[r][k])'
      <4>1. PICK id : id = Item(r, k)
        OBVIOUS
      <4>2. PICK a : a = after[r][k]
        OBVIOUS
      <4>3. Good(id, a)'
        BY <1>1, <4>1, <4>2, GoodKept DEF GoodInv
      <4>4. id = Item(r, k)' /\ a = after'[r][k]
        BY <3>1, <4>1, <4>2 DEF Item, Creating
      <4> QED
        BY <4>3, <4>4 DEF Good, Reviewed, SubmittedAs, ApprovedAs
    <3>3. ASSUME ~Creating(r), NEW k \in 1 .. Len(before[r])
          PROVE  Good(job[r].id, before[r][k])'
      <4>1. PICK id : id = job[r].id
        OBVIOUS
      <4>2. PICK a : a = before[r][k]
        OBVIOUS
      <4>3. Good(id, a)'
        BY <1>1, <3>3, <4>1, <4>2, GoodKept DEF GoodInv
      <4> QED
        BY <3>1, <4>1, <4>2, <4>3 DEF Good, Reviewed, SubmittedAs, ApprovedAs
    <3>4. Creating(r)' <=> Creating(r)
      BY <3>1 DEF Creating
    <3> QED
      BY <3>1, <3>2, <3>3, <3>4
  <2> QED
    BY <2>1, <2>2, <2>3, <2>4
<1> QED
  BY <1>1, <1>2, <1>3 DEF GoodInv

LEMMA GoodInvariant == Spec => []GoodInv
  BY GoodInvInit, GoodInvStep, PTL DEF Spec

(***************************************************************************)
(* However requests interleave, fail, lose updates or write stale records  *)
(* back, every record is one that a single lifecycle history explains.     *)
(***************************************************************************)
THEOREM RecordsStaySound == Spec => []RecordsSound
<1>1. GoodInv => RecordsSound
  BY DEF GoodInv, Good, RecordsSound
<1> QED
  BY <1>1, GoodInvariant, PTL

(***************************************************************************)
(* No interleaving and no failure publishes an artifact with metadata that *)
(* was not submitted and approved for it.                                  *)
(***************************************************************************)
THEOREM NothingPublicUnreviewed == Spec => []PublicWasReviewed
<1>1. GoodInv => PublicWasReviewed
  BY DEF GoodInv, Good, Reviewed, PublicWasReviewed
<1> QED
  BY <1>1, GoodInvariant, PTL

\* Where an event that is taken off the trail goes.
LEMMA ErasedByMaker ==
  ASSUME TypeInv, [Next]_vars, NEW e \in audit \ audit'
  PROVE  /\ job[e.artifact[1]].op = "batch"
         /\ pc[e.artifact[1]] \in {"scrub", "purge"}
<1>1. PICK r \in Req : Scrub(r) \/ Purge(r)
  BY DEF Next, Serve, Quiet, Crash, vars, Arrive, Cancel, Refuse, Prepare,
         Read, ReadFails, Save, SaveFails, File, FileFails, Restore,
         Withdraw, stores
<1>2. pc[r] \in {"scrub", "purge"} /\ job[r].op = "batch"
  BY <1>1 DEF Scrub, Purge, TypeInv, Progress
<1>3. e.artifact = Item(r, pos[r])
  BY <1>1, DeleteShrinks DEF Scrub, Purge
<1>4. e.artifact = <<r, pos[r]>>
  BY <1>2, <1>3 DEF Item, Creating
<1> QED
  BY <1>2, <1>4

(***************************************************************************)
(* Only the rollback of a batch takes events off the trail, and only those *)
(* of the artifacts the batch itself made.                                 *)
(***************************************************************************)
THEOREM TrailKept == Spec => OnlyFailingBatchesEraseEvents
<1> DEFINE A ==
      \A e \in audit \ audit' :
        LET maker == e.artifact[1]
        IN job[maker].op = "batch" /\ pc[maker] \in {"scrub", "purge"}
<1>1. TypeInv /\ [Next]_vars => [A]_vars
  BY ErasedByMaker
<1> QED
  BY <1>1, TypeInvInit, TypeInvStep, PTL DEF Spec, OnlyFailingBatchesEraseEvents

-----------------------------------------------------------------------------
(***************************************************************************)
(* Why an artifact is only taken back by its maker.  What a handler has    *)
(* saved so far is kept (Kept), until the maker of an artifact takes it    *)
(* back, from which it does not return.                                    *)
(***************************************************************************)
Kept(id) == id \in DOMAIN repo \/ TakenBack(id)

\* How many of its records a handler has saved.
Saved(r) ==
  CASE pc[r] = "save"             -> 1 .. pos[r] - 1
    [] pc[r] \in {"append", "ok"} -> 1 .. Len(after[r])
    [] OTHER                      -> {}

KeptInv ==
  /\ TypeInv
  /\ \A r \in Req : \A k \in Saved(r) : Kept(Item(r, k))

\* Who takes an artifact away.
LEMMA Taken ==
  ASSUME TypeInv, [Next]_vars, NEW id \in DOMAIN repo \ DOMAIN repo'
  PROVE  \E r \in Req : Withdraw(r) /\ id = <<r, pos[r]>>
<1>1. PICK r \in Req : Save(r) \/ Restore(r) \/ Withdraw(r)
  BY DEF Next, Quiet, Crash, Serve, Arrive, Cancel, Prepare, Read, Refuse,
         ReadFails, SaveFails, File, FileFails, Scrub, Purge, stores, vars
<1> QED
  BY <1>1 DEF Save, Restore, Withdraw, Put, Drop, Item

\* A handler that takes its artifacts back does not get over it.
LEMMA TakenBackStays ==
  ASSUME TypeInv, [Next]_vars, NEW id \in Id, TakenBack(id)
  PROVE  TakenBack(id)'
<1>1. PICK q \in Req : q = id[1]
  BY DEF Id
<1>2. pc[q] \in {"undo", "scrub", "purge", "failed", "lost"}
  BY <1>1 DEF TakenBack
<1>3. pc'[q] \in {"undo", "scrub", "purge", "failed", "lost"}
  <2>1. ASSUME NEW r \in Req, r # q, Arrive(r) \/ Cancel(r) \/ Serve(r)
        PROVE  pc'[q] = pc[q]
    BY <2>1 DEF Arrive, Cancel, Serve, Refuse, Prepare, Read, ReadFails, Save,
                SaveFails, File, FileFails, Restore, Withdraw, Scrub, Purge,
                Goto, TypeInv, TypeOK
  <2>2. ASSUME Arrive(q) \/ Cancel(q) \/ Serve(q)
        PROVE  pc'[q] \in {"undo", "scrub", "purge", "failed", "lost"}
    BY <1>2, <2>2
       DEF Arrive, Cancel, Serve, Refuse, Prepare, Read, ReadFails, Save,
           SaveFails, File, FileFails, Restore, Withdraw, Scrub, Purge,
           Goto, TypeInv, TypeOK
  <2>3. CASE Crash \/ UNCHANGED vars
    BY <1>2, <2>3 DEF Crash, vars
  <2> QED
    BY <1>2, <2>1, <2>2, <2>3 DEF Next, Quiet
<1> QED
  BY <1>1, <1>3 DEF TakenBack

LEMMA KeptStays ==
  ASSUME TypeInv, [Next]_vars, NEW id \in Id, Kept(id)
  PROVE  Kept(id)'
<1>1. CASE TakenBack(id)
  BY <1>1, TakenBackStays DEF Kept
<1>2. CASE id \in DOMAIN repo'
  BY <1>2 DEF Kept
<1>3. CASE id \in DOMAIN repo \ DOMAIN repo'
  <2>1. PICK r \in Req : Withdraw(r) /\ id = <<r, pos[r]>>
    BY <1>3, Taken
  <2>2. pc'[r] \in {"failed", "scrub"}
    BY <2>1 DEF Withdraw, Goto, TypeInv, TypeOK
  <2> QED
    BY <2>1, <2>2 DEF Kept, TakenBack
<1> QED
  BY <1>1, <1>2, <1>3 DEF Kept

\* A step adds to what a handler has saved only what it saves.
LEMMA SavedStep ==
  ASSUME TypeInv, [Next]_vars, NEW r \in Req, NEW k \in Saved(r)'
  PROVE  /\ k \in 1 .. Len(after[r])
         /\ Item(r, k)' = Item(r, k)
         /\ k \in Saved(r) \/ Item(r, k) \in DOMAIN repo'
<1>1. pc'[r] \in {"save", "append", "ok"}
  BY DEF Saved
<1>2. /\ Len(after[r]) \in Nat /\ pos[r] \in Nat \ {0}
      /\ pc[r] = "save" => pos[r] \in 1 .. Len(after[r])
  BY Counters
<1>3. CASE Prepare(r) \/ Read(r)
  <2>1. pc'[r] = "save" /\ pos'[r] = 1
    BY <1>3 DEF Prepare, Read, Goto, TypeInv, TypeOK, Progress
  <2> QED
    BY <2>1 DEF Saved
<1>4. CASE Save(r)
  <2>1. /\ pc[r] = "save" /\ UNCHANGED <<job, after>>
        /\ repo' = Put(repo, Item(r, pos[r]), after[r][pos[r]])
    BY <1>4 DEF Save, work
  <2>2. \/ pos[r] = Len(after[r])
        \/ pos'[r] = pos[r] + 1 /\ pc'[r] = "save"
    BY <1>4, <2>1 DEF Save, Last, TypeInv, TypeOK
  <2>3. pos[r] = Len(after[r]) => pc'[r] = "append"
    BY <1>4 DEF Save, Last, Goto, TypeInv, TypeOK
  <2>4. k \in 1 .. pos[r]
    BY <1>2, <2>1, <2>2, <2>3 DEF Saved
  <2>5. Item(r, pos[r]) \in DOMAIN repo'
    BY <2>1 DEF Put
  <2>6. k \in 1 .. Len(after[r])
    BY <1>2, <2>1, <2>4
  <2>7. k = pos[r] \/ k \in Saved(r)
    BY <1>2, <2>1, <2>4 DEF Saved
  <2> QED
    BY <2>1, <2>5, <2>6, <2>7 DEF Item, Creating
<1>5. CASE File(r)
  BY <1>5 DEF File, Goto, work, Saved, Item, Creating, TypeInv, TypeOK
<1>6. CASE ~ (Prepare(r) \/ Read(r) \/ Save(r) \/ File(r))
  <2>1. pc'[r] = pc[r] /\ pos'[r] = pos[r]
    <3>1. ASSUME NEW q \in Req, q # r, Arrive(q) \/ Cancel(q) \/ Serve(q)
          PROVE  pc'[r] = pc[r] /\ pos'[r] = pos[r]
      BY <3>1 DEF Arrive, Cancel, Serve, Refuse, Prepare, Read, ReadFails,
                  Save, SaveFails, File, FileFails, Restore, Withdraw, Scrub,
                  Purge, Goto, TypeInv, TypeOK
    <3>2. ASSUME Arrive(r) \/ Cancel(r) \/ Serve(r)
          PROVE  pc'[r] = pc[r] /\ pos'[r] = pos[r]
      BY <1>1, <1>6, <3>2
         DEF Arrive, Cancel, Serve, Refuse, ReadFails, SaveFails, FileFails,
             Restore, Withdraw, Scrub, Purge, Goto, TypeInv, TypeOK
    <3>3. CASE Crash \/ UNCHANGED vars
      BY <1>1, <3>3 DEF Crash, vars
    <3> QED
      BY <3>1, <3>2, <3>3 DEF Next, Quiet
  <2>2. pc[r] \notin {"idle", "start"}
    BY <1>1, <2>1
  <2>3. job'[r] = job[r] /\ after'[r] = after[r]
    BY <1>6, <2>2, OthersKept DEF Arrive
  <2>4. Saved(r)' = Saved(r)
    BY <2>1, <2>3 DEF Saved
  <2>5. Saved(r) \subseteq 1 .. Len(after[r])
    BY <1>2 DEF Saved
  <2> QED
    BY <2>3, <2>4, <2>5 DEF Item, Creating
<1> QED
  BY <1>3, <1>4, <1>5, <1>6

LEMMA KeptInvStep == KeptInv /\ [Next]_vars => KeptInv'
<1> SUFFICES ASSUME KeptInv, [Next]_vars PROVE KeptInv'
  OBVIOUS
<1>1. TypeInv /\ TypeInv'
  BY TypeInvStep DEF KeptInv
<1>2. ASSUME NEW r \in Req, NEW k \in Saved(r)'
      PROVE  Kept(Item(r, k))'
  <2>1. /\ k \in 1 .. Len(after[r])
        /\ Item(r, k)' = Item(r, k)
        /\ k \in Saved(r) \/ Item(r, k) \in DOMAIN repo'
    BY <1>1, <1>2, SavedStep
  <2>2. PICK id \in Id : id = Item(r, k)
    BY <1>1, <2>1, ItemType
  <2>3. k \in Saved(r) => Kept(id)
    BY <2>2 DEF KeptInv
  <2>4. Kept(id)'
    BY <1>1, <2>1, <2>2, <2>3, KeptStays DEF Kept
  <2>5. Item(r, k)' = id
    BY <2>1, <2>2
  <2> QED
    BY <2>4, <2>5 DEF Kept, TakenBack
<1> QED
  BY <1>1, <1>2 DEF KeptInv

(***************************************************************************)
(* No rollback removes the artifact of another request: what an            *)
(* acknowledged request has made or changed is there, unless the request   *)
(* that made it has failed, under every interleaving and every failure.    *)
(***************************************************************************)
THEOREM MakersTakeBack == Spec => []OnlyMakersTakeBack
<1>1. Init => KeptInv
  BY TypeInvInit DEF Init, KeptInv, Saved
<1>2. KeptInv => OnlyMakersTakeBack
  BY DEF KeptInv, Kept, Saved, OnlyMakersTakeBack
<1> QED
  BY <1>1, <1>2, KeptInvStep, PTL DEF Spec

-----------------------------------------------------------------------------
(***************************************************************************)
(* Why the trail of a service whose stores never fail has no holes.  A     *)
(* version that an event or a handler on its way covers stays covered: no  *)
(* event is erased, and a handler ends with all of its events filed.  The  *)
(* record a mutation stores has one version more than the one it read, of  *)
(* which each version was covered then; so lost updates make no hole.      *)
(***************************************************************************)
Covered(id, v) ==
  \/ \E e \in audit : e.artifact = id /\ e.version = v
  \/ \E r \in Req :
       /\ pc[r] \in {"save", "append"}
       /\ \E k \in 1 .. Len(after[r]) :
            Item(r, k) = id /\ after[r][k].version = v

Unfailing(r) ==
  /\ pc[r] \in {"idle", "start", "save", "append", "ok", "failed"}
  /\ ~gone[r] /\ job[r].actor = "named"

GapInv ==
  /\ TypeInv
  /\ \A r \in Req : Unfailing(r)
  /\ \A r \in Req : pc[r] = "append" =>
       \A k \in 1 .. pos[r] - 1 : Event(r, k) \in audit
  /\ \A r \in Req : pc[r] = "save" =>
       \A k \in 1 .. Len(after[r]) :
         /\ after[r][k].version = before[r][k].version + 1
         /\ \A v \in 1 .. before[r][k].version : Covered(Item(r, k), v)
  /\ \A id \in DOMAIN repo : \A v \in 1 .. repo[id].version : Covered(id, v)

LEMMA GapInvInit == Init => GapInv
<1> SUFFICES ASSUME Init PROVE GapInv
  OBVIOUS
<1>1. TypeInv
  BY TypeInvInit
<1>2. \A r \in Req : pc[r] = "idle" /\ Unfailing(r)
  BY DEF Init, Unfailing
<1>3. DOMAIN repo = {}
  BY DEF Init
<1> QED
  BY <1>1, <1>2, <1>3 DEF GapInv

\* Without faults only these steps are taken.
LEMMA UnfailingStep ==
  ASSUME Faults = {}, GapInv, [Next]_vars
  PROVE  \/ \E r \in Req : \/ Arrive(r) \/ Refuse(r) \/ Prepare(r) \/ Read(r)
                          \/ ReadFails(r) \/ Save(r) \/ File(r)
         \/ UNCHANGED vars
<1>1. ASSUME NEW r \in Req, Serve(r)
      PROVE  \/ Refuse(r) \/ Prepare(r) \/ Read(r)
             \/ ReadFails(r) \/ Save(r) \/ File(r)
  <2>1. Unfailing(r)
    BY DEF GapInv
  <2> QED
    BY <1>1, <2>1 DEF Serve, Unfailing, SaveFails, FileFails, Restore,
                      Withdraw, Scrub, Purge
<1>2. ASSUME NEW r \in Req PROVE ~Cancel(r) /\ ~Crash
  BY DEF Cancel, Crash
<1>3. ~Crash \/ UNCHANGED vars
  BY DEF Crash
<1> QED
  BY <1>1, <1>2, <1>3 DEF Next, Quiet

LEMMA UnfailingKept ==
  ASSUME Faults = {}, GapInv, [Next]_vars
  PROVE  /\ \A r \in Req : Unfailing(r)'
         /\ audit \subseteq audit'
<1>1. \A e \in audit \ audit' : e.artifact[1] \in Req
  BY DEF GapInv, TypeInv, TypeOK, AuditEvent, Id
<1>2. audit \subseteq audit'
  BY <1>1, ErasedByMaker DEF GapInv, Unfailing
<1>3. ASSUME NEW q \in Req PROVE Unfailing(q)'
  <2>1. Unfailing(q) /\ TypeInv /\ TypeInv'
    BY TypeInvStep DEF GapInv
  <2>2. ASSUME NEW r \in Req, Arrive(r) PROVE Unfailing(q)'
    <3>1. /\ pc' = [pc EXCEPT ![r] = "start"] /\ gone' = gone
          /\ \E op \in Ops, actor \in Actor :
               \E id \in IF op \in Mutation THEN DOMAIN repo ELSE {<<r, 1>>} :
                 /\ actor = "overlong" => "actor" \in Faults
                 /\ job' = [job EXCEPT ![r] = [op |-> op, id |-> id,
                                               actor |-> actor]]
      BY <2>2 DEF Arrive
    <3>2. job'[q].actor = "named"
      BY <2>1, <3>1 DEF Unfailing, Actor, TypeInv, TypeOK
    <3> QED
      BY <2>1, <3>1, <3>2 DEF Unfailing, TypeInv, TypeOK
  <2>3. ASSUME NEW r \in Req,
               \/ Refuse(r) \/ Prepare(r) \/ Read(r)
               \/ ReadFails(r) \/ Save(r) \/ File(r)
        PROVE  Unfailing(q)'
    <3>1. job' = job /\ gone' = gone
      BY <2>3 DEF Refuse, Prepare, Read, ReadFails, Save, File, work, stores
    <3>2. \/ pc' = pc
          \/ \E l \in {"save", "append", "ok", "failed"} : pc' = [pc EXCEPT ![r] = l]
      BY <2>3 DEF Refuse, Prepare, Read, ReadFails, Save, File, Goto
    <3> QED
      BY <2>1, <3>1, <3>2 DEF Unfailing, TypeInv, TypeOK
  <2> QED
    BY <2>1, <2>2, <2>3, UnfailingStep DEF vars, Unfailing
<1> QED
  BY <1>2, <1>3

\* Filing is to have filed: the last event of a handler finds the others.
LEMMA FiledAll ==
  ASSUME GapInv, NEW r \in Req, File(r)
  PROVE  /\ \A k \in 1 .. pos[r] : Event(r, k) \in audit'
         /\ pos[r] \in 1 .. Len(after[r]) /\ Len(after[r]) \in Nat
         /\ pc[r] = "append"
<1>1. pc[r] = "append" /\ audit' = audit \union {Event(r, pos[r])}
  BY DEF File
<1>2. pos[r] \in 1 .. Len(after[r]) /\ Len(after[r]) \in Nat
  BY <1>1, Counters DEF GapInv
<1>3. \A k \in 1 .. pos[r] - 1 : Event(r, k) \in audit
  BY <1>1 DEF GapInv
<1> QED
  BY <1>1, <1>2, <1>3

LEMMA CoveredStays ==
  ASSUME Faults = {}, GapInv, [Next]_vars, NEW id, NEW v, Covered(id, v)
  PROVE  Covered(id, v)'
<1>1. CASE \E e \in audit : e.artifact = id /\ e.version = v
  BY <1>1, UnfailingKept DEF Covered
<1>2. ASSUME NEW q \in Req, pc[q] \in {"save", "append"},
             NEW k \in 1 .. Len(after[q]),
             Item(q, k) = id, after[q][k].version = v
      PROVE  Covered(id, v)'
  <2>1. TypeInv
    BY DEF GapInv
  <2>2. after[q] # << >>
    BY <1>2
  <2>3. job'[q] = job[q] /\ after'[q] = after[q]
    BY <2>1, <2>2, HistoryKept
  <2>4. Item(q, k)' = id /\ k \in 1 .. Len(after'[q]) /\ after'[q][k].version = v
    BY <1>2, <2>3 DEF Item, Creating
  <2>5. CASE pc'[q] \in {"save", "append"}
    BY <2>4, <2>5 DEF Covered
  <2>6. CASE File(q) /\ Last(q)
    <3>1. pos[q] = Len(after[q])
      BY <2>6 DEF Last
    <3>2. Event(q, k) \in audit'
      BY <2>6, <3>1, FiledAll
    <3>3. Event(q, k).artifact = id /\ Event(q, k).version = v
      BY <1>2 DEF Event, NewAuditEvent
    <3> QED
      BY <3>2, <3>3 DEF Covered
  <2>7. pc'[q] \in {"save", "append"} \/ (File(q) /\ Last(q))
    <3>1. ASSUME NEW r \in Req, r # q,
                 \/ Arrive(r) \/ Refuse(r) \/ Prepare(r) \/ Read(r)
                 \/ ReadFails(r) \/ Save(r) \/ File(r)
          PROVE  pc'[q] = pc[q]
      BY <2>1, <3>1 DEF Arrive, Refuse, Prepare, Read, ReadFails, Save, File,
                        Goto, TypeInv, TypeOK
    <3>2. ~ (Arrive(q) \/ Refuse(q) \/ Prepare(q) \/ Read(q) \/ ReadFails(q))
      BY <1>2 DEF Arrive, Refuse, Prepare, Read, ReadFails
    <3>3. CASE Save(q) \/ (File(q) /\ ~Last(q))
      BY <1>2, <2>1, <3>3 DEF Save, File, Goto, TypeInv, TypeOK
    <3>4. CASE UNCHANGED vars
      BY <1>2, <3>4 DEF vars
    <3> QED
      BY <1>2, <3>1, <3>2, <3>3, <3>4, UnfailingStep
  <2> QED
    BY <2>5, <2>6, <2>7
<1> QED
  BY <1>1, <1>2 DEF Covered

\* What a mutation has read was covered then.
LEMMA ReadCovered ==
  ASSUME Faults = {}, GapInv, [Next]_vars, NEW r \in Req, Read(r)
  PROVE  \A k \in 1 .. Len(after'[r]) :
           /\ after'[r][k].version = before'[r][k].version + 1
           /\ \A v \in 1 .. before'[r][k].version : Covered(Item(r, k), v)'
<1>1. TypeInv /\ job' = job /\ ~Creating(r) /\ job[r].id \in DOMAIN repo
  BY DEF Read, GapInv
<1>2. PICK id : id = job[r].id
  OBVIOUS
<1>3. PICK a : a = repo[id]
  OBVIOUS
<1>4. PICK m \in Meta, now \in Time :
        /\ before' = [before EXCEPT ![r] = <<a>>]
        /\ after' = [after EXCEPT ![r] = <<Apply(a, job[r].op, m, now)>>]
  BY <1>2, <1>3 DEF Read
<1>5. PICK b : b = Apply(a, job[r].op, m, now)
  OBVIOUS
<1>6. before'[r] = <<a>> /\ after'[r] = <<b>>
  BY <1>1, <1>4, <1>5 DEF TypeInv, TypeOK
<1>7. a \in Artifact /\ job[r].op \in Mutation
  BY <1>1, <1>2, <1>3 DEF TypeInv, TypeOK, Creating, Job, Op
<1>8. b.version = a.version + 1
  BY <1>5, <1>7 DEF Apply, Touch, Submit, Decide, Decision, Mutation, Artifact
<1>9. \A v \in 1 .. a.version : Covered(id, v)'
  <2> SUFFICES ASSUME NEW v \in 1 .. a.version PROVE Covered(id, v)'
    OBVIOUS
  <2>1. Covered(id, v)
    BY <1>1, <1>2, <1>3 DEF GapInv
  <2> QED
    BY <2>1, CoveredStays
<1>10. \A k \in 1 .. Len(after'[r]) : k = 1 /\ Item(r, k)' = id
  BY <1>1, <1>2, <1>6 DEF Item, Creating
<1> QED
  BY <1>6, <1>8, <1>9, <1>10 DEF Covered

\* A new artifact has one version, and was nothing before.
LEMMA PreparedCovered ==
  ASSUME TypeInv, NEW r \in Req, Prepare(r)
  PROVE  \A k \in 1 .. Len(after'[r]) :
           /\ after'[r][k].version = before'[r][k].version + 1
           /\ before'[r][k].version = 0
<1>1. PICK n \in 1 .. (IF job[r].op = "batch" THEN MaxBatch ELSE 1) :
        \E m \in [1 .. n -> Meta], now \in [1 .. n -> Time] :
          /\ before' = [before EXCEPT ![r] = [k \in 1 .. n |-> ZeroArtifact]]
          /\ after' = [after EXCEPT
                         ![r] = [k \in 1 .. n |-> NewArtifact(m[k], now[k])]]
  BY Zenon DEF Prepare
<1>2. PICK m \in [1 .. n -> Meta], now \in [1 .. n -> Time] :
        /\ before' = [before EXCEPT ![r] = [k \in 1 .. n |-> ZeroArtifact]]
        /\ after' = [after EXCEPT
                       ![r] = [k \in 1 .. n |-> NewArtifact(m[k], now[k])]]
  BY <1>1, Zenon
<1>3. /\ before'[r] = [k \in 1 .. n |-> ZeroArtifact]
      /\ after'[r] = [k \in 1 .. n |-> NewArtifact(m[k], now[k])]
  BY <1>2 DEF TypeInv, TypeOK
<1>4. n \in Nat /\ Len(after'[r]) = n
  BY <1>3, BatchAssumption
<1>5. /\ ZeroArtifact.version = 0
      /\ \A x \in Meta, t \in Time : NewArtifact(x, t).version = 1
  BY DEF ZeroArtifact, NewArtifact
<1>6. \A k \in 1 .. n : /\ before'[r][k] = ZeroArtifact
                       /\ after'[r][k] = NewArtifact(m[k], now[k])
  BY <1>3
<1> QED
  BY <1>4, <1>5, <1>6

LEMMA GapInvStep ==
  ASSUME Faults = {}, GapInv, [Next]_vars
  PROVE  GapInv'
<1>1. /\ TypeInv /\ TypeInv' /\ audit \subseteq audit'
      /\ \A r \in Req : Unfailing(r)'
  BY TypeInvStep, UnfailingKept DEF GapInv
<1>2. ASSUME NEW q \in Req, pc'[q] = "append", NEW k \in 1 .. pos'[q] - 1
      PROVE  Event(q, k)' \in audit'
  <2>2. CASE pc[q] = "append" /\ pos'[q] = pos[q]
    <3>1. after[q] # << >>
      BY <1>1, <2>2, Counters
    <3>2. job'[q] = job[q] /\ before'[q] = before[q] /\ after'[q] = after[q]
      BY <1>1, <3>1, HistoryKept
    <3>3. Event(q, k)' = Event(q, k)
      BY <3>2 DEF Event, NewAuditEvent, Item, Creating
    <3>4. Event(q, k) \in audit
      BY <1>2, <2>2 DEF GapInv
    <3> QED
      BY <1>1, <3>3, <3>4
  <2>3. CASE File(q) /\ ~Last(q)
    <3>1. pos'[q] = pos[q] + 1 /\ UNCHANGED <<job, before, after>>
      BY <1>1, <2>3 DEF File, work, TypeInv, TypeOK
    <3>2. Event(q, k)' = Event(q, k)
      BY <3>1 DEF Event, NewAuditEvent, Item, Creating
    <3>3. k \in 1 .. pos[q]
      <4>1. pos[q] \in Nat
        BY <1>1 DEF TypeInv, TypeOK
      <4> QED
        BY <1>2, <3>1, <4>1
    <3> QED
      BY <2>3, <3>2, <3>3, FiledAll
  <2>4. CASE Save(q)
    <3>1. pos'[q] = 1
      BY <1>1, <1>2, <2>4 DEF Save, Goto, TypeInv, TypeOK
    <3> QED
      BY <3>1
  <2>5. \/ pc[q] = "append" /\ pos'[q] = pos[q]
        \/ File(q) /\ ~Last(q)
        \/ Save(q)
    <3>1. ASSUME NEW r \in Req, r # q,
                 \/ Arrive(r) \/ Refuse(r) \/ Prepare(r) \/ Read(r)
                 \/ ReadFails(r) \/ Save(r) \/ File(r)
          PROVE  pc'[q] = pc[q] /\ pos'[q] = pos[q]
      BY <1>1, <3>1 DEF Arrive, Refuse, Prepare, Read, ReadFails, Save, File,
                        Goto, TypeInv, TypeOK
    <3>2. ~ (Arrive(q) \/ Refuse(q) \/ Prepare(q) \/ Read(q) \/ ReadFails(q))
      BY <1>1, <1>2 DEF Arrive, Refuse, Prepare, Read, ReadFails, Goto,
                        TypeInv, TypeOK
    <3>3. ~ (File(q) /\ Last(q))
      BY <1>1, <1>2 DEF File, Goto, TypeInv, TypeOK
    <3> QED
      BY <1>2, <3>1, <3>2, <3>3, UnfailingStep DEF vars
  <2> QED
    BY <2>2, <2>3, <2>4, <2>5
<1>3. ASSUME NEW q \in Req, pc'[q] = "save", NEW k \in 1 .. Len(after'[q])
      PROVE  /\ after'[q][k].version = before'[q][k].version + 1
             /\ \A v \in 1 .. before'[q][k].version : Covered(Item(q, k), v)'
  <2>1. CASE Read(q)
    BY <1>3, <2>1, ReadCovered
  <2>2. CASE Prepare(q)
    BY <1>1, <1>3, <2>2, PreparedCovered
  <2>3. CASE pc[q] = "save"
    <3>1. after[q] # << >>
      BY <1>1, <2>3, Counters
    <3>2. job'[q] = job[q] /\ before'[q] = before[q] /\ after'[q] = after[q]
      BY <1>1, <3>1, HistoryKept
    <3>3. PICK id : id = Item(q, k)
      OBVIOUS
    <3>4. /\ after[q][k].version = before[q][k].version + 1
          /\ \A v \in 1 .. before[q][k].version : Covered(id, v)
      BY <1>3, <2>3, <3>2, <3>3 DEF GapInv
    <3>5. \A v \in 1 .. before[q][k].version : Covered(id, v)'
      BY <3>4, CoveredStays
    <3>6. Item(q, k)' = id
      BY <3>2, <3>3 DEF Item, Creating
    <3> QED
      BY <3>2, <3>4, <3>5, <3>6 DEF Covered
  <2>4. Read(q) \/ Prepare(q) \/ pc[q] = "save"
    <3>1. ASSUME NEW r \in Req, r # q,
                 \/ Arrive(r) \/ Refuse(r) \/ Prepare(r) \/ Read(r)
                 \/ ReadFails(r) \/ Save(r) \/ File(r)
          PROVE  pc'[q] = pc[q]
      BY <1>1, <3>1 DEF Arrive, Refuse, Prepare, Read, ReadFails, Save, File,
                        Goto, TypeInv, TypeOK
    <3>2. ~ (Arrive(q) \/ Refuse(q) \/ ReadFails(q) \/ File(q))
      BY <1>1, <1>3 DEF Arrive, Refuse, ReadFails, File, Goto, TypeInv, TypeOK
    <3>3. Save(q) => pc[q] = "save"
      BY DEF Save
    <3> QED
      BY <1>3, <3>1, <3>2, <3>3, UnfailingStep DEF vars
  <2> QED
    BY <2>1, <2>2, <2>3, <2>4
<1>4. ASSUME NEW id \in DOMAIN repo', NEW v \in 1 .. repo'[id].version
      PROVE  Covered(id, v)'
  <2>1. CASE id \in DOMAIN repo /\ repo'[id] = repo[id]
    <3>1. Covered(id, v)
      BY <1>4, <2>1 DEF GapInv
    <3> QED
      BY <3>1, CoveredStays
  <2>2. ASSUME NEW r \in Req, Save(r), id = Item(r, pos[r]),
               repo'[id] = after[r][pos[r]]
        PROVE  Covered(id, v)'
    <3>0. PICK k : k = pos[r]
      OBVIOUS
    <3>1. /\ pc[r] = "save" /\ k \in 1 .. Len(after[r])
          /\ UNCHANGED <<job, before, after>>
      BY <1>1, <2>2, <3>0, Counters DEF Save, work
    <3>2. /\ after[r][k].version = before[r][k].version + 1
          /\ \A u \in 1 .. before[r][k].version : Covered(id, u)
      BY <2>2, <3>0, <3>1 DEF GapInv
    <3>3. before[r][k].version \in Nat
      <4>1. before[r][k] \in Artifact \union {ZeroArtifact}
        <5>1. /\ before[r] \in Seq(Artifact \union {ZeroArtifact})
              /\ Len(before[r]) = Len(after[r])
          BY <1>1 DEF TypeInv, TypeOK
        <5> QED
          BY <3>1, <5>1
      <4>2. \A x \in Artifact : x.version \in Nat
        BY DEF Artifact
      <4>3. ZeroArtifact.version = 0
        BY DEF ZeroArtifact
      <4> QED
        BY <4>1, <4>2, <4>3
    <3>4. CASE v \in 1 .. before[r][k].version
      BY <3>2, <3>4, CoveredStays
    <3>5. CASE v = after[r][k].version
      <4>1. pc'[r] \in {"save", "append"}
        BY <1>1, <2>2 DEF Save, Goto, TypeInv, TypeOK
      <4>2. Item(r, k)' = id
        BY <2>2, <3>0, <3>1 DEF Item, Creating
      <4>3. k \in 1 .. Len(after'[r]) /\ after'[r][k].version = v
        BY <3>1, <3>5
      <4> QED
        BY <4>1, <4>2, <4>3 DEF Covered
    <3> QED
      BY <1>4, <2>2, <3>0, <3>2, <3>3, <3>4, <3>5
  <2>3. \/ id \in DOMAIN repo /\ repo'[id] = repo[id]
        \/ \E r \in Req : /\ Save(r) /\ id = Item(r, pos[r])
                         /\ repo'[id] = after[r][pos[r]]
    <3>1. ASSUME NEW r \in Req, \/ Arrive(r) \/ Refuse(r) \/ Prepare(r) \/ Read(r)
                                \/ ReadFails(r) \/ File(r)
          PROVE  repo' = repo
      BY <3>1 DEF Arrive, Refuse, Prepare, Read, ReadFails, File, stores
    <3>2. ASSUME NEW r \in Req, Save(r)
          PROVE  \/ id \in DOMAIN repo /\ repo'[id] = repo[id]
                 \/ id = Item(r, pos[r]) /\ repo'[id] = after[r][pos[r]]
      BY <1>4, <3>2 DEF Save, Put
    <3> QED
      BY <1>4, <3>1, <3>2, UnfailingStep DEF vars
  <2> QED
    BY <2>1, <2>2, <2>3
<1> QED
  BY <1>1, <1>2, <1>3, <1>4 DEF GapInv

(***************************************************************************)
(* While no call fails, overlapping requests lose updates but no event:    *)
(* each version up to the stored one is on the trail or about to be.       *)
(***************************************************************************)
THEOREM TrailUnbroken ==
  ASSUME Faults = {}
  PROVE  Spec => []TrailHasNoGaps
<1>1. GapInv => TrailHasNoGaps
  BY DEF GapInv, Covered, TrailHasNoGaps
<1>2. GapInv /\ [Next]_vars => GapInv'
  BY GapInvStep
<1> QED
  BY <1>1, <1>2, GapInvInit, PTL DEF Spec
-----------------------------------------------------------------------------
(***************************************************************************)
(* What holds when clients keep to one request per artifact.  A mutation   *)
(* only gets hold of an artifact whose maker is done, and no two of them   *)
(* have the same (Alone); so a handler finds what it read or stored as it  *)
(* left it (Held), and no event is of a later version than the record that *)
(* the handler at work on the artifact would write back (Behind).          *)
(***************************************************************************)
Made(id) == Creating(id[1]) /\ id[2] \in 1 .. Len(after[id[1]])

AtWork(r) == ~Creating(r) /\ pc[r] # "idle"

Alone ==
  /\ \A id \in DOMAIN repo : Made(id)
  /\ \A e \in audit : Made(e.artifact)
  /\ \A r \in Req : AtWork(r) =>
       Made(job[r].id) /\ pc[job[r].id[1]] \in Ended
  /\ \A q, r \in Req : /\ q # r /\ AtWork(q) /\ AtWork(r)
                       /\ Active(q) /\ Active(r)
                     => job[q].id # job[r].id
  /\ \A r \in Req : job[r].op # "batch" => Len(after[r]) <= 1

HasRead(r) == ~Creating(r) /\ pc[r] \in {"save", "append", "undo"}

Held(r) ==
  /\ HasRead(r) =>
       /\ job[r].id \in DOMAIN repo
       /\ repo[job[r].id] = IF pc[r] = "save" THEN before[r][1] ELSE after[r][1]
       /\ after[r][1].version = before[r][1].version + 1
  /\ Creating(r) /\ pc[r] \in {"save", "append"} =>
       \A k \in Saved(r) : <<r, k>> \in DOMAIN repo /\ repo[<<r, k>>] = after[r][k]
  /\ pc[r] = "append" => \A k \in 1 .. pos[r] - 1 : Event(r, k) \in audit
  /\ pc[r] = "ok" => \A k \in 1 .. Len(after[r]) :
                       Event(r, k) \in audit /\ Item(r, k) \in DOMAIN repo

Behind(e) ==
  /\ IF e.artifact \in DOMAIN repo
       THEN e.version <= repo[e.artifact].version
       ELSE job[e.artifact[1]].op = "batch" /\ TakenBack(e.artifact)
  /\ pc[e.artifact[1]] # "save"
  /\ job[e.artifact[1]].op = "create" => pc[e.artifact[1]] \in Ended
  /\ \A r \in Req : HasRead(r) /\ job[r].id = e.artifact =>
       e.version <= before[r][1].version

AloneInv ==
  /\ TypeInv /\ Alone
  /\ \A r \in Req : Held(r)
  /\ \A e \in audit : Behind(e)

-----------------------------------------------------------------------------
\* A step of a handler leaves the others where they are.
LEMMA OneHandler ==
  ASSUME TypeInv, NEW r \in Req, Arrive(r) \/ Cancel(r) \/ Serve(r)
  PROVE  \A q \in Req \ {r} : pc'[q] = pc[q] /\ pos'[q] = pos[q]
  BY DEF Arrive, Cancel, Serve, Refuse, Prepare, Read, ReadFails, Save,
         SaveFails, File, FileFails, Restore, Withdraw, Scrub, Purge, Goto,
         TypeInv, TypeOK

\* What has ended has ended, and what is not served does not move.
LEMMA EndedStays ==
  ASSUME TypeInv, [Next]_vars, NEW q \in Req, pc[q] \in Ended
  PROVE  pc'[q] = pc[q]
<1>1. ~ (Arrive(q) \/ Cancel(q) \/ Serve(q))
  BY DEF Arrive, Cancel, Active, Handling, Serve, Refuse, Prepare, Read,
         ReadFails, Save, SaveFails, File, FileFails, Restore, Withdraw,
         Scrub, Purge, Ended
<1>2. ASSUME NEW r \in Req, Arrive(r) \/ Cancel(r) \/ Serve(r)
      PROVE  pc'[q] = pc[q]
  BY <1>1, <1>2, OneHandler
<1>3. CASE Crash \/ UNCHANGED vars
  BY <1>3 DEF Crash, vars, Active, Handling, Ended
<1> QED
  BY <1>2, <1>3 DEF Next, Quiet

LEMMA Unserved ==
  ASSUME TypeInv, [Next]_vars, NEW q \in Req, ~Arrive(q), ~Serve(q)
  PROVE  /\ UNCHANGED <<job[q], before[q], after[q]>>
         /\ \/ pc'[q] = pc[q] /\ pos'[q] = pos[q]
            \/ Active(q) /\ pc'[q] = "lost"
<1>1. UNCHANGED <<job[q], before[q], after[q]>>
  BY OthersKept DEF Serve
<1>2. ASSUME NEW r \in Req, Arrive(r) \/ Cancel(r) \/ Serve(r)
      PROVE  pc'[q] = pc[q] /\ pos'[q] = pos[q]
  <2>1. CASE r = q
    BY <1>2, <2>1 DEF Cancel
  <2>2. CASE r # q
    BY <1>2, <2>2, OneHandler
  <2> QED
    BY <2>1, <2>2
<1>3. CASE Crash
  <2>1. pc'[q] = (IF Active(q) THEN "lost" ELSE pc[q]) /\ pos'[q] = pos[q]
    BY <1>3 DEF Crash
  <2> QED
    BY <1>1, <2>1
<1>4. CASE UNCHANGED vars
  BY <1>4 DEF vars
<1> QED
  BY <1>1, <1>2, <1>3, <1>4 DEF Next, Quiet

LEMMA MadeStays ==
  ASSUME TypeInv, [Next]_vars, NEW id \in Id, Made(id)
  PROVE  /\ Made(id)' /\ job'[id[1]] = job[id[1]]
         /\ after[id[1]] # << >> /\ pc[id[1]] \notin {"idle", "start"}
<1>1. PICK q \in Req : q = id[1]
  BY DEF Id
<1>2. after[q] # << >>
  BY <1>1 DEF Made
<1>3. job'[q] = job[q] /\ after'[q] = after[q]
  BY <1>2, HistoryKept
<1>4. pc[q] \notin {"idle", "start"}
  BY <1>2 DEF TypeInv, Progress
<1> QED
  BY <1>1, <1>2, <1>3, <1>4 DEF Made, Creating

\* A handler's items are made, by itself or by one that has ended.
LEMMA ItemMade ==
  ASSUME TypeInv, Alone, NEW r \in Req, NEW k \in 1 .. Len(after[r])
  PROVE  /\ Item(r, k) \in Id /\ Made(Item(r, k))
         /\ Creating(r) => Item(r, k) = <<r, k>>
         /\ ~Creating(r) => /\ k = 1 /\ Len(after[r]) = 1
                            /\ Item(r, k) = job[r].id
                            /\ pc[job[r].id[1]] \in Ended
<1>1. Item(r, k) \in Id /\ Len(after[r]) \in Nat
  BY ItemType, Counters
<1>2. AtWork(r) \/ Creating(r)
  BY DEF AtWork, TypeInv, Progress
<1>3. ~Creating(r) => k = 1 /\ Len(after[r]) = 1
  <2>1. ~Creating(r) => Len(after[r]) <= 1
    BY DEF Alone, Creating
  <2>2. \A n \in Nat : n <= 1 /\ k \in 1 .. n => k = 1 /\ n = 1
    OBVIOUS
  <2> QED
    BY <1>1, <2>1, <2>2
<1> QED
  BY <1>1, <1>2, <1>3 DEF Alone, Item, Made

\* No two running handlers have an item in common.
LEMMA Disjoint ==
  ASSUME TypeInv, Alone, NEW q \in Req, NEW r \in Req, q # r,
         Active(q), Active(r),
         NEW k \in 1 .. Len(after[q]), NEW l \in 1 .. Len(after[r])
  PROVE  Item(q, k) # Item(r, l)
<1>1. CASE Creating(q) /\ Creating(r)
  BY <1>1, ItemMade
<1>2. CASE Creating(q) /\ ~Creating(r)
  <2>1. Item(q, k)[1] = q /\ pc[Item(r, l)[1]] \in Ended
    BY <1>2, ItemMade
  <2> QED
    BY <2>1 DEF Active, Handling, Ended
<1>4. CASE ~Creating(q) /\ Creating(r)
  <2>1. Item(r, l)[1] = r /\ pc[Item(q, k)[1]] \in Ended
    BY <1>4, ItemMade
  <2> QED
    BY <2>1 DEF Active, Handling, Ended
<1>3. CASE ~Creating(q) /\ ~Creating(r)
  BY <1>3, ItemMade DEF Alone, AtWork, Active, Handling
<1> QED
  BY <1>1, <1>2, <1>3, <1>4

(***************************************************************************)
(* What a step does to the stores: nothing, or one handler does something  *)
(* to one of its items.                                                    *)
(***************************************************************************)
LEMMA OneItem ==
  ASSUME TypeInv, [Next]_vars
  PROVE  \/ UNCHANGED stores
         \/ \E q \in Req :
              /\ Serve(q) /\ Active(q) /\ pos[q] \in 1 .. Len(after[q])
              /\ \A id \in DOMAIN repo : id # Item(q, pos[q]) =>
                   id \in DOMAIN repo' /\ repo'[id] = repo[id]
              /\ \A id \in DOMAIN repo' : id # Item(q, pos[q]) =>
                   id \in DOMAIN repo
              /\ \A id : id # Item(q, pos[q]) => Trail(id)' = Trail(id)
<1>1. ASSUME NEW q \in Req, Save(q)
      PROVE  /\ Serve(q) /\ pc[q] = "save" /\ audit' = audit
             /\ repo' = Put(repo, Item(q, pos[q]), after[q][pos[q]])
  BY <1>1 DEF Save, Serve
<1>2. ASSUME NEW q \in Req, File(q)
      PROVE  /\ Serve(q) /\ pc[q] = "append" /\ repo' = repo
             /\ audit' = audit \union {Event(q, pos[q])}
  BY <1>2 DEF File, Serve
<1>3. ASSUME NEW q \in Req, Restore(q)
      PROVE  /\ Serve(q) /\ pc[q] = "undo" /\ audit' = audit
             /\ repo' = repo \/ repo' = Put(repo, Item(q, pos[q]), before[q][1])
  BY <1>3 DEF Restore, Serve, Item
<1>4. ASSUME NEW q \in Req, Withdraw(q)
      PROVE  /\ Serve(q) /\ pc[q] = "undo" /\ audit' = audit
             /\ repo' = repo \/ repo' = Drop(repo, Item(q, pos[q]))
  BY <1>4 DEF Withdraw, Serve
<1>5. ASSUME NEW q \in Req, Scrub(q) \/ Purge(q)
      PROVE  /\ Serve(q) /\ pc[q] \in {"scrub", "purge"} /\ repo' = repo
             /\ DeleteByArtifact(q, Item(q, pos[q]))
  BY <1>5 DEF Scrub, Purge, Serve
<1>6. ASSUME NEW q \in Req,
             pc[q] \in {"save", "append", "undo", "scrub", "purge"}
      PROVE  Active(q) /\ pos[q] \in 1 .. Len(after[q])
  BY <1>6, Counters DEF Active, Handling
<1>7. ASSUME NEW q \in Req, audit' = audit \/ audit' = audit \union {Event(q, pos[q])}
                            \/ DeleteByArtifact(q, Item(q, pos[q]))
      PROVE  \A id : id # Item(q, pos[q]) => Trail(id)' = Trail(id)
  <2>1. Event(q, pos[q]).artifact = Item(q, pos[q])
    BY DEF Event, NewAuditEvent
  <2> QED
    BY <1>7, <2>1 DEF Trail, DeleteByArtifact
<1>8. ASSUME NEW x, NEW v, repo' = repo \/ repo' = Put(repo, x, v) \/ repo' = Drop(repo, x)
      PROVE  /\ \A id \in DOMAIN repo : id # x =>
                  id \in DOMAIN repo' /\ repo'[id] = repo[id]
             /\ \A id \in DOMAIN repo' : id # x => id \in DOMAIN repo
  BY <1>8 DEF Put, Drop
<1>9. ASSUME NEW q \in Req,
             Save(q) \/ File(q) \/ Restore(q) \/ Withdraw(q) \/ Scrub(q) \/ Purge(q)
      PROVE  /\ Serve(q)
             /\ pc[q] \in {"save", "append", "undo", "scrub", "purge"}
             /\ \E v : \/ repo' = repo \/ repo' = Put(repo, Item(q, pos[q]), v)
                       \/ repo' = Drop(repo, Item(q, pos[q]))
             /\ \/ audit' = audit \/ audit' = audit \union {Event(q, pos[q])}
                \/ DeleteByArtifact(q, Item(q, pos[q]))
  BY <1>1, <1>2, <1>3, <1>4, <1>5, <1>9
<1>10. \/ UNCHANGED stores
       \/ \E q \in Req : Save(q) \/ File(q) \/ Restore(q) \/ Withdraw(q)
                         \/ Scrub(q) \/ Purge(q)
  BY DEF Next, Quiet, Crash, Serve, Arrive, Cancel, Prepare, Read, Refuse,
         ReadFails, SaveFails, FileFails, stores, vars
<1> QED
  BY <1>6, <1>7, <1>8, <1>9, <1>10

\* What a running handler works on stays as it is while others take steps.
LEMMA Aside ==
  ASSUME TypeInv, Alone, [Next]_vars, NEW r \in Req, Active(r), ~Serve(r),
         NEW k \in 1 .. Len(after[r]), NEW id, id = Item(r, k)
  PROVE  /\ id \in DOMAIN repo => id \in DOMAIN repo' /\ repo'[id] = repo[id]
         /\ Trail(id)' = Trail(id)
<1>1. CASE UNCHANGED stores
  BY <1>1 DEF stores, Trail
<1>2. CASE ~ UNCHANGED stores
  <2>1. PICK q \in Req :
          /\ Serve(q) /\ Active(q) /\ pos[q] \in 1 .. Len(after[q])
          /\ \A x \in DOMAIN repo : x # Item(q, pos[q]) =>
               x \in DOMAIN repo' /\ repo'[x] = repo[x]
          /\ \A x : x # Item(q, pos[q]) => Trail(x)' = Trail(x)
    BY <1>2, OneItem
  <2>2. q # r
    BY <2>1
  <2>3. Item(q, pos[q]) # id
    BY <2>1, <2>2, Disjoint
  <2> QED
    BY <2>1, <2>3
<1> QED
  BY <1>1, <1>2
\* Who adds to a store adds one of its own items.
LEMMA AddedItem ==
  ASSUME TypeInv, [Next]_vars
  PROVE  /\ \A id \in DOMAIN repo' \ DOMAIN repo :
              \E r \in Req : \E k \in 1 .. Len(after[r]) : id = Item(r, k)
         /\ \A e \in audit' \ audit :
              \E r \in Req : /\ File(r) /\ e = Event(r, pos[r])
                             /\ pos[r] \in 1 .. Len(after[r])
<1>1. ASSUME NEW id \in DOMAIN repo' \ DOMAIN repo
      PROVE  \E r \in Req : \E k \in 1 .. Len(after[r]) : id = Item(r, k)
  <2>1. ~ UNCHANGED stores
    BY DEF stores
  <2> QED
    BY <2>1, OneItem
<1>2. ASSUME NEW e \in audit' \ audit
      PROVE  \E r \in Req : /\ File(r) /\ e = Event(r, pos[r])
                            /\ pos[r] \in 1 .. Len(after[r])
  <2>1. PICK r \in Req : File(r)
    BY <1>2, DeleteShrinks
       DEF Next, Quiet, Crash, Serve, Arrive, Cancel, Prepare, Read, Refuse,
           ReadFails, Save, SaveFails, FileFails, Restore, Withdraw, Scrub,
           Purge, stores, vars
  <2> QED
    BY <1>2, <2>1, Counters DEF File
<1> QED
  BY <1>1, <1>2

LEMMA ArriveAlone ==
  ASSUME Exclusive = TRUE, TypeInv, Alone, [Next]_vars, NEW r \in Req,
         Arrive(r), (AtWork(r))'
  PROVE  /\ job'[r].id \in DOMAIN repo
         /\ \A q \in Req : Active(q) => q # r /\ job'[r].id \notin Items(q)
         /\ pc[job'[r].id[1]] \in Ended
<1>1. PICK op \in Ops, actor \in Actor :
        \E x \in IF op \in Mutation THEN DOMAIN repo ELSE {<<r, 1>>} :
          /\ \A q \in Req : Active(q) => x \notin Items(q)
          /\ job' = [job EXCEPT ![r] = [op |-> op, id |-> x, actor |-> actor]]
  BY DEF Arrive
<1>2. PICK id \in IF op \in Mutation THEN DOMAIN repo ELSE {<<r, 1>>} :
          /\ \A q \in Req : Active(q) => id \notin Items(q)
          /\ job' = [job EXCEPT ![r] = [op |-> op, id |-> id, actor |-> actor]]
  BY <1>1
<1>3. job'[r].op = op /\ job'[r].id = id
  BY <1>2 DEF TypeInv, TypeOK
<1>4. id \in DOMAIN repo
  BY <1>2, <1>3, OpsAssumption DEF AtWork, Creating, Op
<1>5. ~Active(r)
  BY DEF Arrive, Active, Handling
<1>6. PICK m \in Req, k \in 1 .. MaxBatch : id = <<m, k>>
  BY <1>4 DEF TypeInv, TypeOK, Id
<1>7. Creating(m) /\ k \in 1 .. Len(after[m])
  BY <1>4, <1>6 DEF Alone, Made
<1>8. id \in Items(m)
  BY <1>6, <1>7 DEF Items, Item
<1>9. pc[m] \in Ended
  <2>1. after[m] # << >>
    BY <1>7
  <2>2. pc[m] # "idle" /\ ~Active(m)
    BY <1>2, <1>8, <2>1 DEF TypeInv, Progress
  <2> QED
    BY <2>2 DEF TypeInv, TypeOK, Active
<1> QED
  BY <1>2, <1>3, <1>4, <1>5, <1>6, <1>9

\* A handler that has not just arrived was at work before, on the same.
LEMMA WasAtWork ==
  ASSUME TypeInv, [Next]_vars, NEW r \in Req, ~Arrive(r)
  PROVE  /\ job'[r] = job[r]
         /\ pc'[r] # "idle" => pc[r] # "idle"
         /\ (Active(r))' => Active(r)
<1>1. CASE Serve(r)
  <2>1. job' = job
    BY <1>1 DEF Serve, Refuse, Prepare, Read, ReadFails, Save, SaveFails, File,
                FileFails, Restore, Withdraw, Scrub, Purge, work, stores
  <2>2. Active(r) /\ pc[r] # "idle"
    BY <1>1 DEF Serve, Refuse, Prepare, Read, ReadFails, Save, SaveFails, File,
                FileFails, Restore, Withdraw, Scrub, Purge, Active, Handling
  <2> QED
    BY <2>1, <2>2
<1>2. CASE ~Serve(r)
  BY <1>2, Unserved DEF Active, Handling
<1> QED
  BY <1>1, <1>2

LEMMA ArtifactsMade ==
  ASSUME TypeInv, Alone, [Next]_vars
  PROVE  /\ \A id \in DOMAIN repo' : Made(id)'
         /\ \A e \in audit' : Made(e.artifact)'
<1>1. ASSUME NEW id \in DOMAIN repo'
      PROVE  Made(id)'
  <2>1. id \in Id /\ Made(id)
    <3>1. CASE id \in DOMAIN repo
      BY <3>1 DEF Alone, TypeInv, TypeOK
    <3>2. CASE id \notin DOMAIN repo
      BY <3>2, AddedItem, ItemMade
    <3> QED
      BY <3>1, <3>2
  <2> QED
    BY <2>1, MadeStays
<1>2. ASSUME NEW e \in audit'
      PROVE  Made(e.artifact)'
  <2>1. PICK id : id = e.artifact
    OBVIOUS
  <2>2. id \in Id /\ Made(id)
    <3>1. CASE e \in audit
      <4>1. id \in Id
        BY <2>1, <3>1 DEF TypeInv, TypeOK, AuditEvent
      <4> QED
        BY <2>1, <3>1, <4>1 DEF Alone, Made
    <3>2. CASE e \notin audit
      <4>1. PICK r \in Req : e = Event(r, pos[r]) /\ pos[r] \in 1 .. Len(after[r])
        BY <3>2, AddedItem
      <4>2. id = Item(r, pos[r])
        BY <2>1, <4>1 DEF Event, NewAuditEvent
      <4> QED
        BY <4>1, <4>2, ItemMade
    <3> QED
      BY <3>1, <3>2
  <2>3. Made(id)'
    BY <2>2, MadeStays
  <2> QED
    BY <2>1, <2>3 DEF Made
<1> QED
  BY <1>1, <1>2

LEMMA AloneStep ==
  ASSUME Exclusive = TRUE, TypeInv, Alone, [Next]_vars
  PROVE  Alone'
<1>1. ASSUME NEW r \in Req, (AtWork(r))'
      PROVE  Made(job[r].id)' /\ pc'[job'[r].id[1]] \in Ended
  <2>1. PICK id : id = job'[r].id
    OBVIOUS
  <2>2. id \in Id /\ Made(id) /\ pc[id[1]] \in Ended
    <3>1. CASE Arrive(r)
      BY <1>1, <2>1, <3>1, ArriveAlone DEF Alone, TypeInv, TypeOK
    <3>2. CASE ~Arrive(r)
      <4>1. job'[r] = job[r] /\ AtWork(r)
        BY <1>1, <3>2, WasAtWork DEF AtWork, Creating
      <4> QED
        BY <2>1, <4>1 DEF Alone, Made, TypeInv, TypeOK, Job
    <3> QED
      BY <3>1, <3>2
  <2>3. Made(id)' /\ pc'[id[1]] \in Ended
    BY <2>2, MadeStays, EndedStays DEF Id
  <2> QED
    BY <2>1, <2>3 DEF Made
<1>2. ASSUME NEW q \in Req, NEW r \in Req, q # r, (AtWork(q))', (AtWork(r))',
             (Active(q))', (Active(r))', Arrive(r)
      PROVE  job'[q].id # job'[r].id
  <2>1. ~Arrive(q)
    BY <1>2, OneHandler DEF Arrive, Goto, TypeInv, TypeOK
  <2>2. job'[q] = job[q] /\ Active(q) /\ ~Creating(q)
    BY <1>2, <2>1, WasAtWork DEF AtWork, Creating
  <2>3. job[q].id \in Items(q)
    BY <2>2 DEF Items, Item
  <2>4. job'[r].id \notin Items(q)
    BY <1>2, <2>2, ArriveAlone
  <2> QED
    BY <2>2, <2>3, <2>4
<1>3. ASSUME NEW q \in Req, NEW r \in Req, q # r, (AtWork(q))', (AtWork(r))',
             (Active(q))', (Active(r))'
      PROVE  job'[q].id # job'[r].id
  <2>1. CASE Arrive(r) \/ Arrive(q)
    BY <1>2, <1>3, <2>1
  <2>2. CASE ~Arrive(r) /\ ~Arrive(q)
    <3>1. /\ job'[q] = job[q] /\ Active(q) /\ AtWork(q)
          /\ job'[r] = job[r] /\ Active(r) /\ AtWork(r)
      BY <1>3, <2>2, WasAtWork DEF AtWork, Creating
    <3> QED
      BY <1>3, <3>1 DEF Alone
  <2> QED
    BY <2>1, <2>2
<1>4. ASSUME NEW r \in Req, job'[r].op # "batch"
      PROVE  Len(after'[r]) <= 1
  <2>1. CASE Arrive(r)
    <3>1. after' = after /\ after[r] = << >>
      BY <2>1 DEF Arrive, TypeInv, Progress
    <3> QED
      BY <3>1
  <2>2. CASE Prepare(r)
    <3>1. job' = job
      BY <2>2 DEF Prepare
    <3>2. PICK n \in 1 .. (IF job[r].op = "batch" THEN MaxBatch ELSE 1) :
            \E m \in [1 .. n -> Meta], now \in [1 .. n -> Time] :
              /\ before' = [before EXCEPT ![r] = [k \in 1 .. n |-> ZeroArtifact]]
              /\ after' = [after EXCEPT
                             ![r] = [k \in 1 .. n |-> NewArtifact(m[k], now[k])]]
      BY <2>2, Zenon DEF Prepare
    <3>3. \E f : after' = [after EXCEPT ![r] = [k \in 1 .. n |-> f[k]]]
      <4>1. PICK m \in [1 .. n -> Meta], now \in [1 .. n -> Time] :
              after' = [after EXCEPT
                          ![r] = [k \in 1 .. n |-> NewArtifact(m[k], now[k])]]
        BY <3>2, Zenon
      <4>2. [k \in 1 .. n |-> NewArtifact(m[k], now[k])]
              = [k \in 1 .. n |-> [j \in 1 .. n |-> NewArtifact(m[j], now[j])][k]]
        OBVIOUS
      <4> QED
        BY <4>1, <4>2, Zenon
    <3>4. PICK f : after'[r] = [k \in 1 .. n |-> f[k]]
      BY <3>3 DEF TypeInv, TypeOK
    <3>5. n = 1
      BY <1>4, <3>1, <3>2
    <3> QED
      BY <3>4, <3>5
  <2>3. CASE Read(r)
    <3>1. \E b : after' = [after EXCEPT ![r] = <<b>>]
      BY <2>3, Zenon DEF Read
    <3>2. \E b : after'[r] = <<b>>
      BY <3>1 DEF TypeInv, TypeOK
    <3> QED
      BY <3>2
  <2>4. CASE ~Arrive(r) /\ ~Prepare(r) /\ ~Read(r)
    BY <1>4, <2>4, OthersKept DEF Alone
  <2> QED
    BY <2>1, <2>2, <2>3, <2>4
<1> QED
  BY <1>1, <1>3, <1>4, ArtifactsMade DEF Alone
-----------------------------------------------------------------------------
\* What a request that was answered stored and filed is there for good.
LEMMA AnsweredStays ==
  ASSUME TypeInv, Alone, [Next]_vars, NEW r \in Req, pc[r] = "ok",
         NEW k \in 1 .. Len(after[r])
  PROVE  /\ Event(r, k) \in audit => Event(r, k) \in audit'
         /\ Item(r, k) \in DOMAIN repo => Item(r, k) \in DOMAIN repo'
<1>1. PICK id : id = Item(r, k)
  OBVIOUS
<1>2. pc[id[1]] \in Ended
  BY <1>1, ItemMade DEF Ended
<1>3. Event(r, k).artifact = id
  BY <1>1 DEF Event, NewAuditEvent
<1>4. Event(r, k) \notin audit \ audit'
  BY <1>2, <1>3, ErasedByMaker DEF Ended
<1>5. id \notin DOMAIN repo \ DOMAIN repo'
  <2>1. ASSUME NEW q \in Req, Withdraw(q) PROVE pc[q] = "undo"
    BY <2>1 DEF Withdraw
  <2> QED
    BY <1>2, <2>1, Taken DEF Ended
<1> QED
  BY <1>1, <1>4, <1>5

LEMMA HeldAside ==
  ASSUME TypeInv, Alone, [Next]_vars, NEW r \in Req, ~Serve(r), Held(r)
  PROVE  Held(r)'
<1>1. CASE Arrive(r)
  <2>1. pc'[r] = "start"
    BY <1>1 DEF Arrive, Goto, TypeInv, TypeOK
  <2> QED
    BY <2>1 DEF Held, HasRead
<1>2. CASE ~Arrive(r) /\ pc'[r] # pc[r]
  BY <1>2, Unserved DEF Held, HasRead
<1>3. CASE ~Arrive(r) /\ pc'[r] = pc[r]
  <2>1. /\ job'[r] = job[r] /\ before'[r] = before[r] /\ after'[r] = after[r]
        /\ pos'[r] = pos[r]
    BY <1>3, Unserved DEF Active, Handling
  <2>2. /\ HasRead(r)' = HasRead(r) /\ Creating(r)' = Creating(r)
        /\ Saved(r)' = Saved(r)
        /\ \A k : Event(r, k)' = Event(r, k) /\ Item(r, k)' = Item(r, k)
    BY <1>3, <2>1 DEF HasRead, Creating, Saved, Event, Item
  <2>3. ASSUME pc[r] \in {"save", "append", "undo"}
        PROVE  Active(r) /\ pos[r] \in 1 .. Len(after[r]) /\ Len(after[r]) \in Nat
    BY <2>3, Counters DEF Active, Handling
  <2>4. ASSUME HasRead(r)
        PROVE  /\ job[r].id \in DOMAIN repo'
               /\ repo'[job[r].id] = repo[job[r].id]
    <3>1. job[r].id = Item(r, pos[r]) /\ job[r].id \in DOMAIN repo
      BY <2>4 DEF HasRead, Held, Item
    <3> QED
      BY <2>3, <2>4, <3>1, Aside DEF HasRead
  <2>5. ASSUME Creating(r), pc[r] \in {"save", "append"}, NEW k \in Saved(r)
        PROVE  /\ <<r, k>> \in DOMAIN repo'
               /\ repo'[<<r, k>>] = repo[<<r, k>>]
    <3>1. k \in 1 .. Len(after[r])
      BY <2>3, <2>5 DEF Saved
    <3>2. <<r, k>> = Item(r, k) /\ <<r, k>> \in DOMAIN repo
      BY <2>5 DEF Held, Item
    <3> QED
      BY <2>3, <2>5, <3>1, <3>2, Aside
  <2>6. ASSUME pc[r] = "append", NEW k \in 1 .. pos[r] - 1
        PROVE  Event(r, k) \in audit'
    <3>1. k \in 1 .. Len(after[r])
      BY <2>3, <2>6
    <3>2. Event(r, k) \in audit /\ Event(r, k).artifact = Item(r, k)
      BY <2>6 DEF Held, Event, NewAuditEvent
    <3>3. Trail(Item(r, k))' = Trail(Item(r, k))
      <4>1. PICK id : id = Item(r, k)
        OBVIOUS
      <4>2. Trail(id)' = Trail(id)
        BY <2>3, <2>6, <3>1, <4>1, Aside
      <4> QED
        BY <2>2, <4>1, <4>2 DEF Trail
    <3> QED
      BY <2>2, <3>2, <3>3 DEF Trail
  <2>7. pc[r] = "ok" => \A k \in 1 .. Len(after[r]) :
                          Event(r, k) \in audit' /\ Item(r, k) \in DOMAIN repo'
    BY AnsweredStays DEF Held
  <2> QED
    BY <1>3, <2>1, <2>2, <2>4, <2>5, <2>6, <2>7 DEF Held, HasRead
<1> QED
  BY <1>1, <1>2, <1>3
LEMMA HeldRead ==
  ASSUME TypeInv, NEW r \in Req, Read(r)
  PROVE  Held(r)'
<1>1. job' = job /\ repo' = repo /\ ~Creating(r) /\ job[r].id \in DOMAIN repo
  BY DEF Read, stores
<1>2. pc'[r] = "save"
  BY DEF Read, Goto, TypeInv, TypeOK
<1>3. PICK a : a = repo[job[r].id]
  OBVIOUS
<1>4. PICK m \in Meta, now \in Time :
        /\ before' = [before EXCEPT ![r] = <<a>>]
        /\ after' = [after EXCEPT ![r] = <<Apply(a, job[r].op, m, now)>>]
  BY <1>3 DEF Read
<1>5. PICK b : b = Apply(a, job[r].op, m, now)
  OBVIOUS
<1>6. before'[r] = <<a>> /\ after'[r] = <<b>>
  BY <1>4, <1>5 DEF TypeInv, TypeOK
<1>7. a \in Artifact /\ job[r].op \in Mutation
  BY <1>1, <1>3 DEF TypeInv, TypeOK, Creating, Job, Op
<1>8. b.version = a.version + 1
  BY <1>5, <1>7, ApplyType
<1> QED
  BY <1>1, <1>2, <1>3, <1>6, <1>8 DEF Held, HasRead, Creating

LEMMA HeldSave ==
  ASSUME TypeInv, Alone, NEW r \in Req, Save(r), Held(r)
  PROVE  Held(r)'
<1>1. /\ pc[r] = "save" /\ UNCHANGED <<audit, job, before, after>>
      /\ repo' = Put(repo, Item(r, pos[r]), after[r][pos[r]])
      /\ pos[r] \in 1 .. Len(after[r]) /\ Len(after[r]) \in Nat
  BY Counters DEF Save, work
<1>2. \/ pos[r] = Len(after[r]) /\ pc'[r] = "append" /\ pos'[r] = 1
      \/ pos'[r] = pos[r] + 1 /\ pc'[r] = "save" /\ pos[r] # Len(after[r])
  BY DEF Save, Last, Goto, TypeInv, TypeOK
<1>3. CASE Creating(r)
  <2>1. ASSUME NEW k \in Saved(r)'
        PROVE  <<r, k>> \in DOMAIN repo' /\ repo'[<<r, k>>] = after[r][k]
    <3>1. k \in 1 .. pos[r]
      BY <1>1, <1>2 DEF Saved
    <3>2. Item(r, pos[r]) = <<r, pos[r]>>
      BY <1>3 DEF Item
    <3>3. CASE k = pos[r]
      BY <1>1, <3>2, <3>3 DEF Put
    <3>4. CASE k # pos[r]
      <4>1. k \in Saved(r)
        BY <1>1, <3>1, <3>4 DEF Saved
      <4>2. <<r, k>> \in DOMAIN repo /\ repo[<<r, k>>] = after[r][k]
        BY <1>1, <1>3, <4>1 DEF Held
      <4>3. <<r, k>> # <<r, pos[r]>>
        BY <3>4
      <4> QED
        BY <1>1, <3>2, <4>2, <4>3 DEF Put
    <3> QED
      BY <3>3, <3>4
  <2> QED
    BY <1>1, <1>2, <1>3, <2>1 DEF Held, HasRead, Creating
<1>4. CASE ~Creating(r)
  <2>1. pos[r] = 1 /\ Len(after[r]) = 1 /\ Item(r, pos[r]) = job[r].id
    BY <1>1, <1>4, ItemMade
  <2>2. pc'[r] = "append" /\ pos'[r] = 1
    BY <1>2, <2>1
  <2>3. job[r].id \in DOMAIN repo' /\ repo'[job[r].id] = after[r][1]
    BY <1>1, <2>1 DEF Put
  <2>4. after[r][1].version = before[r][1].version + 1
    BY <1>1, <1>4 DEF Held, HasRead
  <2> QED
    BY <1>1, <1>4, <2>2, <2>3, <2>4 DEF Held, HasRead, Creating
<1> QED
  BY <1>3, <1>4

LEMMA HeldFile ==
  ASSUME TypeInv, Alone, NEW r \in Req, File(r), Held(r)
  PROVE  Held(r)'
<1>1. /\ pc[r] = "append" /\ UNCHANGED <<repo, job, before, after>>
      /\ audit' = audit \union {Event(r, pos[r])}
      /\ pos[r] \in 1 .. Len(after[r]) /\ Len(after[r]) \in Nat
  BY Counters DEF File, work
<1>2. \/ pos[r] = Len(after[r]) /\ pc'[r] = "ok"
      \/ pos'[r] = pos[r] + 1 /\ pc'[r] = "append" /\ pos[r] # Len(after[r])
  BY DEF File, Last, Goto, TypeInv, TypeOK
<1>3. \A k \in 1 .. pos[r] : Event(r, k) \in audit'
  <2> SUFFICES ASSUME NEW k \in 1 .. pos[r] PROVE Event(r, k) \in audit'
    OBVIOUS
  <2>1. CASE k = pos[r]
    BY <1>1, <2>1
  <2>2. CASE k # pos[r]
    <3>1. k \in 1 .. pos[r] - 1
      BY <1>1, <2>2
    <3> QED
      BY <1>1, <3>1 DEF Held
  <2> QED
    BY <2>1, <2>2
<1>4. \A k : Event(r, k)' = Event(r, k) /\ Item(r, k)' = Item(r, k)
  BY <1>1 DEF Event, Item, Creating
<1>5. \A k \in 1 .. Len(after[r]) : Item(r, k) \in DOMAIN repo
  <2>1. CASE Creating(r)
    BY <1>1, <2>1 DEF Held, Saved, Item
  <2>2. CASE ~Creating(r)
    BY <1>1, <2>2 DEF Held, HasRead, Item
  <2> QED
    BY <2>1, <2>2
<1>6. CASE pc'[r] = "ok"
  BY <1>1, <1>2, <1>3, <1>4, <1>5, <1>6 DEF Held, HasRead
<1>7. CASE pos'[r] = pos[r] + 1 /\ pc'[r] = "append" /\ pos[r] # Len(after[r])
  <2>1. Creating(r)
    BY <1>1, <1>7, ItemMade
  <2>2. \A k \in 1 .. pos'[r] - 1 : Event(r, k) \in audit'
    BY <1>1, <1>3, <1>7
  <2>3. Saved(r)' = Saved(r)
    BY <1>1, <1>7 DEF Saved
  <2>4. \A k \in Saved(r) : <<r, k>> \in DOMAIN repo /\ repo[<<r, k>>] = after[r][k]
    BY <1>1, <2>1 DEF Held
  <2> QED
    BY <1>1, <1>4, <1>7, <2>1, <2>2, <2>3, <2>4 DEF Held, HasRead, Creating
<1> QED
  BY <1>2, <1>6, <1>7

LEMMA HeldServed ==
  ASSUME TypeInv, Alone, NEW r \in Req, Serve(r), Held(r)
  PROVE  Held(r)'
<1>1. CASE Refuse(r) \/ ReadFails(r) \/ Restore(r)
  <2>1. pc'[r] = "failed"
    BY <1>1 DEF Refuse, ReadFails, Restore, Goto, TypeInv, TypeOK
  <2> QED
    BY <2>1 DEF Held, HasRead
<1>2. CASE Prepare(r)
  <2>1. pc'[r] = "save" /\ pos'[r] = 1 /\ job' = job /\ Creating(r)
    BY <1>2 DEF Prepare, Goto, TypeInv, TypeOK, Progress
  <2>2. Saved(r)' = {}
    BY <2>1 DEF Saved
  <2> QED
    BY <2>1, <2>2 DEF Held, HasRead, Creating
<1>3. CASE SaveFails(r)
  <2>1. /\ job' = job
        /\ \/ pc'[r] = "failed"
           \/ pc'[r] = "undo" /\ pos[r] # 1 /\ pc[r] = "save"
    BY <1>3 DEF SaveFails, Goto, work, TypeInv, TypeOK
  <2>2. pc[r] = "save" /\ pos[r] # 1 => Creating(r)
    BY Counters, ItemMade
  <2> QED
    BY <2>1, <2>2 DEF Held, HasRead, Creating
<1>4. CASE FileFails(r)
  <2>1. /\ pc[r] = "append" /\ pc'[r] = "undo"
        /\ UNCHANGED <<repo, job, before, after>>
    BY <1>4 DEF FileFails, Goto, work, stores, TypeInv, TypeOK
  <2> QED
    BY <2>1 DEF Held, HasRead, Creating
<1>5. CASE Withdraw(r) \/ Scrub(r) \/ Purge(r)
  <2>1. pc'[r] \in {"failed", "undo", "scrub", "purge"} /\ job' = job /\ Creating(r)
    BY <1>5 DEF Withdraw, Scrub, Purge, Goto, work, TypeInv, TypeOK, Progress,
                Creating
  <2> QED
    BY <2>1 DEF Held, HasRead, Creating
<1> QED
  BY <1>1, <1>2, <1>3, <1>4, <1>5, HeldRead, HeldSave, HeldFile DEF Serve
-----------------------------------------------------------------------------
\* The event that a handler files is of the version it has stored.
LEMMA FiledBehind ==
  ASSUME TypeInv, Alone, [Next]_vars, NEW r \in Req, File(r), Held(r),
         NEW e, e = Event(r, pos[r])
  PROVE  Behind(e)'
<1>1. /\ pc[r] = "append" /\ UNCHANGED <<repo, job, before, after>>
      /\ pos[r] \in 1 .. Len(after[r]) /\ Len(after[r]) \in Nat
  BY Counters DEF File, work
<1>2. PICK id : id = Item(r, pos[r])
  OBVIOUS
<1>3. e.artifact = id /\ e.version = after[r][pos[r]].version
  BY <1>2 DEF Event, NewAuditEvent
<1>4. \/ pos[r] = Len(after[r]) /\ pc'[r] = "ok"
      \/ pc'[r] = "append" /\ pos[r] # Len(after[r])
  BY <1>1 DEF File, Last, Goto, TypeInv, TypeOK
<1>5. id \in DOMAIN repo /\ repo[id] = after[r][pos[r]]
  <2>1. CASE Creating(r)
    BY <1>1, <1>2, <2>1 DEF Held, Saved, Item
  <2>2. CASE ~Creating(r)
    <3>1. pos[r] = 1
      BY <1>1, <2>2, ItemMade
    <3> QED
      BY <1>1, <1>2, <2>2, <3>1 DEF Held, HasRead, Item
  <2> QED
    BY <2>1, <2>2
<1>6. repo[id].version \in Nat
  BY <1>5, ItemType, <1>1 DEF Artifact
<1>7. /\ pc'[id[1]] # "save"
      /\ job[id[1]].op = "create" => pc'[id[1]] \in Ended
  <2>1. CASE Creating(r)
    <3>1. id[1] = r
      BY <1>1, <1>2, <2>1, ItemMade
    <3>2. job[r].op = "create" => Len(after[r]) <= 1
      BY DEF Alone
    <3>3. job[r].op = "create" => pc'[r] = "ok"
      BY <1>1, <1>4, <3>2
    <3> QED
      BY <1>4, <3>1, <3>3 DEF Ended
  <2>2. CASE ~Creating(r)
    <3>1. id \in Id /\ pc[id[1]] \in Ended
      BY <1>1, <1>2, <2>2, ItemMade
    <3>2. pc'[id[1]] = pc[id[1]]
      BY <3>1, EndedStays DEF Id
    <3> QED
      BY <3>1, <3>2 DEF Ended
  <2> QED
    BY <2>1, <2>2
<1>8. ASSUME NEW q \in Req, HasRead(q)', job[q].id = id
      PROVE  FALSE
  <2>1. CASE q = r
    <3>1. Len(after[r]) = 1 /\ pos[r] = 1
      BY <1>1, <1>8, <2>1, ItemMade DEF HasRead, Creating
    <3> QED
      BY <1>4, <1>8, <2>1, <3>1 DEF HasRead
  <2>2. CASE q # r
    <3>1. pc'[q] = pc[q]
      BY <2>2, OneHandler DEF Serve
    <3>2. ~Creating(q) /\ Active(q) /\ Active(r) /\ pos[q] \in 1 .. Len(after[q])
      BY <1>1, <1>8, <3>1, Counters DEF HasRead, Creating, Active, Handling
    <3>3. Item(q, pos[q]) = id
      BY <1>8, <3>2 DEF Item
    <3> QED
      BY <1>1, <1>2, <2>2, <3>2, <3>3, Disjoint
  <2> QED
    BY <2>1, <2>2
<1> QED
  BY <1>1, <1>3, <1>5, <1>6, <1>7, <1>8 DEF Behind

\* An event that is there stays behind the records.
LEMMA BehindStays ==
  ASSUME TypeInv, Alone, [Next]_vars, \A r \in Req : Held(r),
         NEW e \in audit, Behind(e)
  PROVE  Behind(e)'
<1>1. PICK id : id = e.artifact
  OBVIOUS
<1>2. id \in Id /\ Made(id) /\ e.version \in Nat
  <2>1. id \in Id /\ e.version \in Nat
    BY <1>1 DEF TypeInv, TypeOK, AuditEvent
  <2> QED
    BY <1>1, <2>1 DEF Alone, Made
<1>3. PICK m \in Req : m = id[1]
  BY <1>2 DEF Id
<1>4. job'[m] = job[m] /\ pc[m] \notin {"idle", "start"}
  BY <1>2, <1>3, MadeStays
<1>5. pc'[m] # "save"
  <2>1. pc[m] # "save"
    BY <1>1, <1>3 DEF Behind
  <2>2. ASSUME NEW q \in Req, Arrive(q) \/ Cancel(q) \/ Serve(q), q # m
        PROVE  pc'[m] = pc[m]
    BY <2>2, OneHandler
  <2>3. ASSUME Arrive(m) \/ Cancel(m) \/ Serve(m)
        PROVE  pc'[m] # "save"
    BY <1>4, <2>1, <2>3
       DEF Arrive, Cancel, Serve, Refuse, Prepare, Read, ReadFails, Save,
           SaveFails, File, FileFails, Restore, Withdraw, Scrub, Purge, Goto,
           TypeInv, TypeOK
  <2>4. CASE Crash \/ UNCHANGED vars
    BY <2>1, <2>4 DEF Crash, vars
  <2> QED
    BY <2>1, <2>2, <2>3, <2>4 DEF Next, Quiet
<1>6. job[m].op = "create" => pc'[m] \in Ended
  BY <1>1, <1>3, EndedStays DEF Behind
<1>7. ASSUME NEW r \in Req, HasRead(r)', job'[r].id = id
      PROVE  e.version <= before'[r][1].version
  <2>1. ~Arrive(r)
    BY <1>7 DEF HasRead, Arrive, Goto, TypeInv, TypeOK
  <2>2. job'[r] = job[r] /\ ~Creating(r)
    BY <1>7, <2>1, WasAtWork DEF HasRead, Creating
  <2>3. CASE Read(r)
    <3>1. id \in DOMAIN repo /\ before'[r] = <<repo[id]>>
      BY <1>7, <2>2, <2>3 DEF Read, TypeInv, TypeOK
    <3>2. e.version <= repo[id].version
      BY <1>1, <3>1 DEF Behind
    <3> QED
      BY <3>1, <3>2
  <2>4. CASE ~Read(r)
    <3>1. pc[r] \in {"save", "append", "undo"}
      <4>1. CASE Serve(r)
        BY <1>7, <2>2, <2>4, <4>1
           DEF HasRead, Creating, Serve, Refuse, Prepare, ReadFails, Save,
               SaveFails, File, FileFails, Restore, Withdraw, Scrub, Purge,
               Goto, TypeInv, TypeOK, Progress
      <4>2. CASE ~Serve(r)
        BY <1>7, <2>1, <4>2, Unserved DEF HasRead
      <4> QED
        BY <4>1, <4>2
    <3>2. before'[r] = before[r]
      BY <2>1, <2>2, <2>4, <3>1, OthersKept DEF Prepare
    <3>3. HasRead(r) /\ job[r].id = e.artifact
      BY <1>1, <1>7, <2>2, <3>1 DEF HasRead
    <3> QED
      BY <3>2, <3>3 DEF Behind
  <2> QED
    BY <2>3, <2>4
<1>8. CASE id \in DOMAIN repo' /\ ~ (id \in DOMAIN repo /\ repo'[id] = repo[id])
  <2>1. PICK r \in Req :
          /\ Serve(r) /\ pos[r] \in 1 .. Len(after[r]) /\ id = Item(r, pos[r])
          /\ Save(r) \/ Restore(r)
    <3>1. PICK r \in Req : Save(r) \/ Restore(r) \/ Withdraw(r)
      BY <1>8 DEF Next, Quiet, Crash, Serve, Arrive, Cancel, Prepare, Read,
                  Refuse, ReadFails, SaveFails, File, FileFails, Scrub, Purge,
                  stores, vars
    <3>2. id = Item(r, pos[r]) /\ (Save(r) \/ Restore(r))
      BY <1>8, <3>1 DEF Save, Restore, Withdraw, Put, Drop, Item
    <3>3. pc[r] \in {"save", "undo"}
      BY <3>2 DEF Save, Restore
    <3> QED
      BY <3>2, <3>3, Counters DEF Serve
  <2>2. ~Creating(r)
    <3>1. Creating(r) => id[1] = r
      BY <2>1 DEF Item
    <3> QED
      BY <1>1, <2>1, <3>1 DEF Behind, Save, Restore
  <2>3. HasRead(r) /\ pos[r] = 1 /\ job[r].id = id
    BY <2>1, <2>2, ItemMade DEF HasRead, Save, Restore
  <2>4. e.version <= before[r][1].version
    BY <1>1, <2>3 DEF Behind
  <2>5. /\ before[r][1].version \in Nat
        /\ after[r][1].version = before[r][1].version + 1
    <3>1. before[r] \in Seq(Artifact) /\ Len(before[r]) = Len(after[r])
      BY <2>2 DEF TypeInv, TypeOK, Progress
    <3>2. before[r][1] \in Artifact
      BY <2>1, <2>3, <3>1
    <3> QED
      BY <2>3, <3>2 DEF Held, Artifact
  <2>6. repo'[id] \in {after[r][1], before[r][1]}
    BY <1>8, <2>1, <2>3 DEF Save, Restore, Put, Held
  <2>7. e.version <= repo'[id].version
    BY <1>2, <2>4, <2>5, <2>6
  <2> QED
    BY <1>1, <1>3, <1>4, <1>5, <1>6, <1>7, <1>8, <2>7 DEF Behind
<1>9. CASE id \in DOMAIN repo /\ id \in DOMAIN repo' /\ repo'[id] = repo[id]
  BY <1>1, <1>3, <1>4, <1>5, <1>6, <1>7, <1>9 DEF Behind
<1>10. CASE id \notin DOMAIN repo'
  <2>1. job[m].op = "batch" /\ TakenBack(id)'
    <3>1. CASE id \notin DOMAIN repo
      BY <1>1, <1>2, <1>3, <3>1, TakenBackStays DEF Behind
    <3>2. CASE id \in DOMAIN repo
      <4>1. PICK r \in Req : Withdraw(r) /\ id = <<r, pos[r]>>
        BY <1>10, <3>2, Taken
      <4>2. /\ r = m /\ pc[m] = "undo" /\ Creating(m)
            /\ pc'[m] \in {"failed", "scrub"}
        BY <1>3, <4>1 DEF Withdraw, Goto, TypeInv, TypeOK
      <4>3. job[m].op # "create"
        BY <1>1, <1>3, <4>2 DEF Behind, Ended
      <4> QED
        BY <1>3, <4>2, <4>3 DEF Creating, TakenBack
    <3> QED
      BY <3>1, <3>2
  <2> QED
    BY <1>1, <1>3, <1>4, <1>5, <1>6, <1>7, <1>10, <2>1 DEF Behind, TakenBack
<1> QED
  BY <1>8, <1>9, <1>10

LEMMA AloneInvStep ==
  ASSUME Exclusive = TRUE, AloneInv, [Next]_vars
  PROVE  AloneInv'
<1>1. TypeInv /\ Alone /\ TypeInv' /\ Alone'
  BY TypeInvStep, AloneStep DEF AloneInv
<1>2. ASSUME NEW r \in Req PROVE Held(r)'
  BY <1>1, HeldAside, HeldServed DEF AloneInv
<1>3. ASSUME NEW e \in audit' PROVE Behind(e)'
  <2>1. CASE e \in audit
    BY <1>1, <2>1, BehindStays DEF AloneInv
  <2>2. CASE e \notin audit
    BY <1>1, <2>2, AddedItem, FiledBehind DEF AloneInv
  <2> QED
    BY <2>1, <2>2
<1> QED
  BY <1>1, <1>2, <1>3 DEF AloneInv

LEMMA AloneInvariant ==
  ASSUME Exclusive = TRUE
  PROVE  Spec => []AloneInv
<1>1. Init => AloneInv
  <2> SUFFICES ASSUME Init PROVE AloneInv
    OBVIOUS
  <2>1. DOMAIN repo = {} /\ audit = {}
    BY DEF Init
  <2>2. \A r \in Req : pc[r] = "idle" /\ after[r] = << >>
    BY DEF Init
  <2> QED
    BY <2>1, <2>2, TypeInvInit DEF AloneInv, Alone, AtWork, Held, HasRead, Active, Handling
<1>2. AloneInv /\ [Next]_vars => AloneInv'
  BY AloneInvStep
<1> QED
  BY <1>1, <1>2, PTL DEF Spec

(***************************************************************************)
(* When clients keep to one request per artifact, what a request was told  *)
(* has succeeded stays, whatever fails in it or in others afterwards: its  *)
(* events are in the trail and no older version comes back.                *)
(***************************************************************************)
THEOREM AcknowledgedStays ==
  ASSUME Exclusive = TRUE
  PROVE  Spec => []AcknowledgedDurable
<1>1. AloneInv => AcknowledgedDurable
  <2> SUFFICES ASSUME AloneInv, NEW r \in Req, pc[r] = "ok",
                      NEW k \in 1 .. Len(after[r])
               PROVE  /\ Event(r, k) \in audit
                      /\ Item(r, k) \in DOMAIN repo
                      /\ repo[Item(r, k)].version >= after[r][k].version
    BY DEF AcknowledgedDurable
  <2>1. Event(r, k) \in audit /\ Item(r, k) \in DOMAIN repo
    BY DEF AloneInv, Held
  <2>2. PICK e \in audit : e = Event(r, k)
    BY <2>1
  <2>3. e.artifact = Item(r, k) /\ e.version = after[r][k].version
    BY <2>2 DEF Event, NewAuditEvent
  <2>4. e.version <= repo[e.artifact].version
    BY <2>1, <2>3 DEF AloneInv, Behind
  <2> QED
    BY <2>1, <2>3, <2>4
<1> QED
  BY <1>1, AloneInvariant, PTL

(***************************************************************************)
(* Then the trail also claims no version that is not stored, and only a    *)
(* batch that did not succeed leaves events without an artifact.           *)
(***************************************************************************)
THEOREM TrailBehind ==
  ASSUME Exclusive = TRUE
  PROVE  Spec => []TrailNeverAhead
<1>1. AloneInv => TrailNeverAhead
  BY DEF AloneInv, Behind, TakenBack, TrailNeverAhead
<1> QED
  BY <1>1, AloneInvariant, PTL

-----------------------------------------------------------------------------
(***************************************************************************)
(* Why the handlers implement the abstract archive when clients keep to    *)
(* one request per artifact and only forward calls fail.  Every rollback   *)
(* is then carried out (Unhurt), so that a create or a batch leaves        *)
(* nothing of its artifacts when it fails (Tidy); what is shown is what    *)
(* was made with success (Shown), each artifact by the record that the     *)
(* handler at work on it, if there is one, started from (ViewExact).       *)
(***************************************************************************)
Unhurt(r) == ~gone[r] /\ pc[r] # "lost"

Lawful(r) ==
  IF Creating(r)
    THEN \A k \in 1 .. Len(after[r]) :
           before[r][k] = ZeroArtifact /\ after[r][k] \in Promised!Drafts
    ELSE after[r] # << >> =>
           /\ CanApply(before[r][1], job[r].op)
           /\ \E m \in Meta, now \in Time :
                after[r][1] = Apply(before[r][1], job[r].op, m, now)
           /\ Valid(after[r][1])

StoredOf(r) == {id \in DOMAIN repo : id[1] = r}

EventsOf(r) == {e \in audit : e.artifact[1] = r}

Tidy(r) ==
  Creating(r) =>
    /\ pc[r] \in {"save", "scrub"} => \A id \in StoredOf(r) : id[2] < pos[r]
    /\ pc[r] = "undo" => \A id \in StoredOf(r) : id[2] <= pos[r]
    /\ pc[r] = "append" =>
         \A e \in EventsOf(r) : \E k \in 1 .. pos[r] - 1 : e = Event(r, k)
    /\ pc[r] \in {"undo", "scrub"} =>
         \A e \in EventsOf(r) : e.artifact[2] <= pos[r]
    /\ pc[r] \in {"purge", "failed"} => StoredOf(r) = {} /\ EventsOf(r) = {}

PublicInv ==
  AloneInv /\ \A r \in Req : Unhurt(r) /\ Lawful(r) /\ Tidy(r)

\* The artifacts that a create or a batch made with success.
Shown == {id \in Id : Made(id) /\ pc[id[1]] = "ok"}

Reads(r, id) == HasRead(r) /\ job[r].id = id

ViewExact ==
  /\ PublicStore = [id \in Shown |-> PublicStore[id]]
  /\ PublicTrail = {[e EXCEPT !.id = "event"] :
                      e \in {f \in audit : f.artifact \in Shown}}
  /\ \A id \in Shown :
       /\ \A r \in Req : Reads(r, id) => PublicStore[id] = before[r][1]
       /\ (\A r \in Req : ~Reads(r, id)) => PublicStore[id] = repo[id]

-----------------------------------------------------------------------------
LEMMA UnhurtStep ==
  ASSUME Faults \subseteq {"io", "actor"}, TypeInv, [Next]_vars,
         \A r \in Req : Unhurt(r), NEW r \in Req
  PROVE  Unhurt(r)'
<1>1. ~Crash /\ \A q \in Req : ~Cancel(q)
  BY DEF Crash, Cancel
<1>2. gone' = gone
  BY <1>1 DEF Next, Quiet, Arrive, Serve, Refuse, Prepare, Read, ReadFails,
              Save, SaveFails, File, FileFails, Restore, Withdraw, Scrub,
              Purge, vars
<1>3. ASSUME NEW q \in Req, Arrive(q) \/ Serve(q)
      PROVE  pc'[q] # "lost"
  BY <1>3 DEF Arrive, Serve, Refuse, Prepare, Read, ReadFails, Save, SaveFails,
              File, FileFails, Restore, Withdraw, Scrub, Purge, Goto, TypeInv,
              TypeOK, Unhurt
<1>4. pc'[r] # "lost"
  <2>1. CASE Arrive(r) \/ Serve(r)
    BY <1>3, <2>1
  <2>2. CASE ~Arrive(r) /\ ~Serve(r)
    <3>1. CASE pc'[r] = pc[r]
      BY <3>1 DEF Unhurt
    <3>2. ASSUME NEW q \in Req, Arrive(q) \/ Serve(q)
          PROVE  pc'[r] = pc[r]
      BY <2>2, <3>2, OneHandler
    <3>3. CASE UNCHANGED vars
      BY <3>3 DEF vars, Unhurt
    <3> QED
      BY <1>1, <3>1, <3>2, <3>3 DEF Next, Quiet
  <2> QED
    BY <2>1, <2>2
<1> QED
  BY <1>2, <1>4 DEF Unhurt

LEMMA SameDrafts ==
  ASSUME NEW m \in Meta, NEW now \in Time
  PROVE  NewArtifact(m, now) \in Promised!Drafts
  BY DEF Promised!Drafts, Promised!NewArtifact, NewArtifact, NoTime,
         Promised!NoTime

LEMMA PreparedLawful ==
  ASSUME TypeInv, NEW r \in Req, Prepare(r)
  PROVE  Lawful(r)'
<1>1. PICK n \in 1 .. (IF job[r].op = "batch" THEN MaxBatch ELSE 1) :
        \E m \in [1 .. n -> Meta], now \in [1 .. n -> Time] :
          /\ before' = [before EXCEPT ![r] = [k \in 1 .. n |-> ZeroArtifact]]
          /\ after' = [after EXCEPT
                         ![r] = [k \in 1 .. n |-> NewArtifact(m[k], now[k])]]
  BY Zenon DEF Prepare
<1>2. PICK m \in [1 .. n -> Meta], now \in [1 .. n -> Time] :
        /\ before' = [before EXCEPT ![r] = [k \in 1 .. n |-> ZeroArtifact]]
        /\ after' = [after EXCEPT
                    ![r] = [k \in 1 .. n |-> NewArtifact(m[k], now[k])]]
  BY <1>1, Zenon
<1>3. /\ after'[r] = [k \in 1 .. n |-> NewArtifact(m[k], now[k])]
      /\ before'[r] = [k \in 1 .. n |-> ZeroArtifact]
  BY <1>2 DEF TypeInv, TypeOK
<1>4. n \in Nat
  BY BatchAssumption
<1>5. ASSUME NEW k \in 1 .. n
      PROVE  before'[r][k] = ZeroArtifact /\ after'[r][k] \in Promised!Drafts
  BY <1>3, <1>5, SameDrafts
<1>6. Len(after'[r]) = n
  BY <1>3, <1>4
<1>7. Creating(r)'
  BY DEF Prepare, Creating
<1>8. ASSUME NEW k \in 1 .. Len(after'[r])
      PROVE  before'[r][k] = ZeroArtifact /\ after'[r][k] \in Promised!Drafts
  BY <1>5, <1>6, <1>8
<1>9. Promised!Drafts' = Promised!Drafts
  BY DEF Promised!Drafts, Promised!NewArtifact
<1> QED
  BY <1>7, <1>8, <1>9 DEF Lawful

LEMMA LawfulStep ==
  ASSUME TypeInv, [Next]_vars, NEW r \in Req, Lawful(r)
  PROVE  Lawful(r)'
<1>1. CASE Arrive(r)
  <2>1. after'[r] = << >>
    BY <1>1 DEF Arrive, TypeInv, Progress
  <2> QED
    BY <2>1 DEF Lawful
<1>2. CASE Read(r)
  <2>1. PICK a : a = repo[job[r].id]
    OBVIOUS
  <2>2. PICK m \in Meta, now \in Time :
          /\ CanApply(a, job[r].op)
          /\ Valid(Apply(a, job[r].op, m, now))
          /\ before' = [before EXCEPT ![r] = <<a>>]
          /\ after' = [after EXCEPT ![r] = <<Apply(a, job[r].op, m, now)>>]
    BY <1>2, <2>1 DEF Read
  <2>3. PICK b : b = Apply(a, job[r].op, m, now)
    OBVIOUS
  <2>4. before'[r] = <<a>> /\ after'[r] = <<b>> /\ job' = job /\ ~Creating(r)
    BY <1>2, <2>2, <2>3 DEF Read, TypeInv, TypeOK
  <2>5. before'[r][1] = a /\ after'[r][1] = b
    BY <2>4
  <2> QED
    BY <2>2, <2>3, <2>4, <2>5 DEF Lawful, Creating
<1>3. CASE ~Arrive(r) /\ ~Prepare(r) /\ ~Read(r)
  <2>1. job'[r] = job[r] /\ before'[r] = before[r] /\ after'[r] = after[r]
    BY <1>3, OthersKept
  <2>2. Promised!Drafts' = Promised!Drafts
    BY DEF Promised!Drafts, Promised!NewArtifact
  <2> QED
    BY <2>1, <2>2 DEF Lawful, Creating
<1> QED
  BY <1>1, <1>2, <1>3, PreparedLawful
-----------------------------------------------------------------------------
\* An artifact, or an event of it, that appears in a step of another request
\* than its maker's is one that was there before, of a maker that is done.
LEMMA NoneAdded ==
  ASSUME AloneInv, [Next]_vars, NEW r \in Req, ~Serve(r)
  PROVE  /\ StoredOf(r)' \subseteq StoredOf(r)
         /\ EventsOf(r)' # {} => EventsOf(r) # {} \/ StoredOf(r) # {}
         /\ Active(r) => EventsOf(r)' \subseteq EventsOf(r)
<1>1. TypeInv /\ Alone /\ \A q \in Req : Held(q)
  BY DEF AloneInv
<1>2. ASSUME NEW q \in Req, Serve(q), Active(q), pos[q] \in 1 .. Len(after[q]),
             Item(q, pos[q])[1] = r
      PROVE  Item(q, pos[q]) \in DOMAIN repo /\ pc[r] \in Ended
  <2>1. q # r
    BY <1>2
  <2>2. ~Creating(q)
    BY <1>2, <2>1 DEF Item
  <2>3. Item(q, pos[q]) = job[q].id /\ pc[r] \in Ended
    BY <1>1, <1>2, <2>2, ItemMade
  <2>4. after[q] # << >>
    BY <1>2
  <2>5. HasRead(q)
    BY <1>1, <1>2, <2>2, <2>4
       DEF HasRead, TypeInv, Progress, Active, Handling, Creating
  <2> QED
    BY <1>1, <2>3, <2>5 DEF Held
<1>3. ASSUME NEW id \in StoredOf(r)'
      PROVE  id \in StoredOf(r)
  <2> SUFFICES ASSUME id \notin DOMAIN repo PROVE FALSE
    BY <1>3 DEF StoredOf
  <2>1. ~ UNCHANGED stores
    BY <1>3 DEF StoredOf, stores
  <2>2. PICK q \in Req : /\ Serve(q) /\ Active(q) /\ pos[q] \in 1 .. Len(after[q])
                         /\ id = Item(q, pos[q])
    BY <1>1, <1>3, <2>1, OneItem DEF StoredOf
  <2> QED
    BY <1>2, <1>3, <2>2 DEF StoredOf
<1>4. ASSUME NEW e \in EventsOf(r)', e \notin EventsOf(r)
      PROVE  StoredOf(r) # {} /\ pc[r] \in Ended
  <2>1. PICK q \in Req : /\ File(q) /\ e = Event(q, pos[q])
                         /\ pos[q] \in 1 .. Len(after[q])
    BY <1>1, <1>4, AddedItem DEF EventsOf
  <2>2. Serve(q) /\ Active(q)
    BY <2>1 DEF Serve, File, Active, Handling
  <2>3. Item(q, pos[q])[1] = r
    BY <1>4, <2>1 DEF EventsOf, Event, NewAuditEvent
  <2> QED
    BY <1>2, <2>1, <2>2, <2>3 DEF StoredOf
<1> QED
  BY <1>3, <1>4 DEF Active, Ended, Handling

LEMMA TidyAside ==
  ASSUME AloneInv, [Next]_vars, NEW r \in Req, ~Serve(r), Tidy(r)
  PROVE  Tidy(r)'
<1>1. CASE Arrive(r)
  <2>1. pc'[r] = "start"
    BY <1>1 DEF Arrive, Goto, AloneInv, TypeInv, TypeOK
  <2> QED
    BY <2>1 DEF Tidy
<1>2. CASE ~Arrive(r) /\ pc'[r] # pc[r]
  BY <1>2, Unserved DEF Tidy, AloneInv
<1>3. CASE ~Arrive(r) /\ pc'[r] = pc[r]
  <2>1. /\ job'[r] = job[r] /\ before'[r] = before[r] /\ after'[r] = after[r]
        /\ pc'[r] = pc[r] /\ (Active(r) => pos'[r] = pos[r])
    BY <1>3, Unserved DEF AloneInv, Active, Handling
  <2>2. Creating(r)' = Creating(r) /\ \A k : Event(r, k)' = Event(r, k)
    BY <2>1 DEF Creating, Event, Item
  <2> QED
    BY <2>1, <2>2, NoneAdded DEF Tidy, Active, Handling
<1> QED
  BY <1>1, <1>2, <1>3

\* The artifacts a maker has stored, and their events, are of its items.
LEMMA OwnItems ==
  ASSUME AloneInv, NEW r \in Req
  PROVE  /\ \A id \in StoredOf(r) :
              id = <<r, id[2]>> /\ id[2] \in 1 .. Len(after[r]) /\ Creating(r)
         /\ \A e \in EventsOf(r) :
              /\ e.artifact = <<r, e.artifact[2]>> /\ Creating(r)
              /\ e.artifact[2] \in 1 .. Len(after[r])
         /\ pc[r] = "save" => EventsOf(r) = {}
         /\ job[r].op = "create" /\ Active(r) => EventsOf(r) = {}
         /\ pc[r] = "start" => StoredOf(r) = {} /\ EventsOf(r) = {}
<1>1. ASSUME NEW id \in StoredOf(r)
      PROVE  id = <<r, id[2]>> /\ id[2] \in 1 .. Len(after[r]) /\ Creating(r)
  BY <1>1 DEF StoredOf, AloneInv, Alone, Made, TypeInv, TypeOK, Id
<1>2. ASSUME NEW e \in EventsOf(r)
      PROVE  /\ e.artifact = <<r, e.artifact[2]>> /\ Creating(r)
             /\ e.artifact[2] \in 1 .. Len(after[r])
             /\ pc[r] # "save" /\ (job[r].op = "create" => pc[r] \in Ended)
  <2>1. e \in audit /\ e.artifact[1] = r
    BY <1>2 DEF EventsOf
  <2>2. PICK id : id = e.artifact
    OBVIOUS
  <2>3. id \in Id
    BY <2>1, <2>2 DEF AloneInv, TypeInv, TypeOK, AuditEvent
  <2>4. Made(id)
    BY <2>1, <2>2 DEF AloneInv, Alone, Made
  <2>5. Behind(e)
    BY <2>1 DEF AloneInv
  <2> QED
    BY <2>1, <2>2, <2>3, <2>4, <2>5 DEF Behind, Made, Id
<1>3. pc[r] = "start" => Len(after[r]) = 0
  BY DEF AloneInv, TypeInv, Progress
<1> QED
  BY <1>1, <1>2, <1>3 DEF Active, Handling, Ended

LEMMA TidyForward ==
  ASSUME AloneInv, NEW r \in Req, Tidy(r), Creating(r), AloneInv',
         Refuse(r) \/ Prepare(r) \/ Save(r) \/ SaveFails(r) \/ File(r)
           \/ FileFails(r)
  PROVE  Tidy(r)'
<1>1. /\ job' = job /\ Creating(r)'
      /\ Len(after[r]) \in Nat /\ pos[r] \in Nat
  BY Counters DEF Refuse, Prepare, Save, SaveFails, File, FileFails, work,
                  stores, Creating, AloneInv
<1>2. CASE Refuse(r)
  <2>1. pc[r] = "start" /\ pc'[r] = "failed" /\ UNCHANGED stores
    BY <1>2 DEF Refuse, Goto, AloneInv, TypeInv, TypeOK
  <2> QED
    BY <2>1, OwnItems DEF Tidy, stores, StoredOf, EventsOf
<1>3. CASE Prepare(r)
  <2>1. pc[r] = "start" /\ pc'[r] = "save" /\ UNCHANGED stores
    BY <1>3 DEF Prepare, Goto, AloneInv, TypeInv, TypeOK
  <2> QED
    BY <2>1, OwnItems DEF Tidy, stores, StoredOf, EventsOf
<1>4. CASE Save(r)
  <2>1. /\ pc[r] = "save" /\ audit' = audit
        /\ \/ pc'[r] = "append"
           \/ pc'[r] = "save" /\ pos'[r] = pos[r] + 1
        /\ repo' = Put(repo, <<r, pos[r]>>, after[r][pos[r]])
    BY <1>4 DEF Save, Goto, AloneInv, TypeInv, TypeOK, Item
  <2>2. EventsOf(r)' = {}
    BY <2>1, OwnItems DEF EventsOf
  <2>3. ASSUME NEW id \in StoredOf(r)'
        PROVE  id[2] < pos[r] + 1
    <3>1. CASE id \in StoredOf(r)
      <4>1. id[2] < pos[r] /\ id[2] \in 1 .. Len(after[r])
        BY <2>1, <3>1, OwnItems DEF Tidy
      <4> QED
        BY <1>1, <4>1
    <3>2. CASE id = <<r, pos[r]>>
      BY <1>1, <3>2
    <3> QED
      BY <2>1, <2>3, <3>1, <3>2 DEF StoredOf, Put
  <2> QED
    BY <2>1, <2>2, <2>3 DEF Tidy
<1>5. CASE SaveFails(r)
  <2>1. /\ pc[r] = "save" /\ UNCHANGED stores
        /\ \/ pos[r] = 1 /\ pc'[r] = "failed"
           \/ pc'[r] = "undo" /\ pos'[r] = pos[r] - 1
    BY <1>5 DEF SaveFails, Goto, AloneInv, TypeInv, TypeOK
  <2>2. EventsOf(r)' = {} /\ StoredOf(r)' = StoredOf(r)
    BY <2>1, OwnItems DEF EventsOf, StoredOf, stores
  <2>3. ASSUME NEW id \in StoredOf(r)
        PROVE  id[2] <= pos[r] - 1 /\ pos[r] # 1
    <3>1. id[2] < pos[r] /\ id[2] \in 1 .. Len(after[r])
      BY <2>1, <2>3, OwnItems DEF Tidy
    <3> QED
      BY <1>1, <3>1
  <2> QED
    BY <2>1, <2>2, <2>3 DEF Tidy
<1>6. CASE File(r)
  <2>1. /\ pc[r] = "append" /\ UNCHANGED <<repo, job, before, after>>
        /\ audit' = audit \union {Event(r, pos[r])}
        /\ \/ pc'[r] = "ok"
           \/ pc'[r] = "append" /\ pos'[r] = pos[r] + 1
    BY <1>6 DEF File, Goto, work, AloneInv, TypeInv, TypeOK
  <2>2. \A k : Event(r, k)' = Event(r, k)
    BY <2>1 DEF Event, Item, Creating
  <2>3. ASSUME NEW e \in EventsOf(r)'
        PROVE  \E k \in 1 .. pos[r] : e = Event(r, k)
    <3>1. CASE e \in EventsOf(r)
      <4>1. PICK k \in 1 .. pos[r] - 1 : e = Event(r, k)
        BY <2>1, <3>1 DEF Tidy
      <4>2. k \in 1 .. pos[r]
        BY <1>1
      <4> QED
        BY <4>1, <4>2
    <3>2. CASE e = Event(r, pos[r])
      <4>1. pos[r] \in 1 .. pos[r]
        BY <2>1, Counters DEF AloneInv
      <4> QED
        BY <3>2, <4>1
    <3> QED
      BY <2>1, <2>3, <3>1, <3>2 DEF EventsOf
  <2>4. CASE pc'[r] = "ok"
    BY <2>4 DEF Tidy
  <2>5. CASE pc'[r] = "append" /\ pos'[r] = pos[r] + 1
    <3>1. pos'[r] - 1 = pos[r]
      BY <1>1, <2>5
    <3> QED
      BY <2>2, <2>3, <2>5, <3>1 DEF Tidy
  <2> QED
    BY <2>1, <2>4, <2>5
<1>7. CASE FileFails(r)
  <2>1. pc'[r] = "undo" /\ pos'[r] = Len(after[r]) /\ after' = after
    BY <1>7 DEF FileFails, Goto, work, AloneInv, TypeInv, TypeOK
  <2>2. /\ \A id \in StoredOf(r)' : id[2] \in 1 .. Len(after[r])
        /\ \A e \in EventsOf(r)' : e.artifact[2] \in 1 .. Len(after[r])
    <3>1. UNCHANGED stores
      BY <1>7 DEF FileFails
    <3> QED
      BY <3>1, OwnItems DEF stores, StoredOf, EventsOf
  <2> QED
    BY <1>1, <2>1, <2>2 DEF Tidy
<1> QED
  BY <1>2, <1>3, <1>4, <1>5, <1>6, <1>7

LEMMA TidyBack ==
  ASSUME AloneInv, NEW r \in Req, ~RollbackFails(r), Tidy(r), Creating(r),
         Withdraw(r) \/ Scrub(r) \/ Purge(r)
  PROVE  Tidy(r)'
<1>1. /\ job' = job /\ Creating(r)' /\ Len(after[r]) \in Nat
      /\ pos[r] \in 1 .. Len(after[r]) /\ Item(r, pos[r]) = <<r, pos[r]>>
  BY Counters DEF Withdraw, Scrub, Purge, work, Creating, AloneInv, Item
<1>2. CASE Withdraw(r)
  <2>1. /\ pc[r] = "undo" /\ audit' = audit /\ pos' = pos
        /\ repo' = Drop(repo, <<r, pos[r]>>)
        /\ pc'[r] = IF job[r].op = "create" THEN "failed" ELSE "scrub"
    BY <1>1, <1>2 DEF Withdraw, Goto, AloneInv, TypeInv, TypeOK
  <2>2. ASSUME NEW id \in StoredOf(r)'
        PROVE  id[2] < pos[r] /\ id[2] \in 1 .. Len(after[r])
    <3>1. id \in StoredOf(r) /\ id # <<r, pos[r]>>
      BY <2>1, <2>2 DEF StoredOf, Drop
    <3>2. id[2] <= pos[r] /\ id = <<r, id[2]>> /\ id[2] \in 1 .. Len(after[r])
      BY <2>1, <3>1, OwnItems DEF Tidy
    <3>3. id[2] # pos[r]
      BY <3>1, <3>2
    <3> QED
      BY <1>1, <3>2, <3>3
  <2>3. EventsOf(r)' = EventsOf(r)
    BY <2>1 DEF EventsOf
  <2>4. CASE job[r].op = "create"
    <3>1. EventsOf(r) = {}
      BY <2>1, <2>4, OwnItems DEF Active, Handling
    <3>2. Len(after[r]) <= 1
      BY <2>4 DEF AloneInv, Alone
    <3>3. pos[r] = 1
      BY <1>1, <3>2
    <3>4. StoredOf(r)' = {}
      BY <2>2, <3>3
    <3> QED
      BY <2>1, <2>3, <2>4, <3>1, <3>4 DEF Tidy
  <2>5. CASE job[r].op # "create"
    BY <2>1, <2>2, <2>3, <2>5 DEF Tidy
  <2> QED
    BY <2>4, <2>5
<1>3. CASE Scrub(r)
  <2>1. /\ pc[r] = "scrub" /\ repo' = repo
        /\ audit' = {e \in audit : e.artifact # <<r, pos[r]>>}
        /\ \/ pc'[r] = "undo" /\ pos'[r] = pos[r] - 1
           \/ pc'[r] \in {"purge", "failed"} /\ ~ (pos[r] > 1)
    BY <1>1, <1>3 DEF Scrub, DeleteByArtifact, Goto, AloneInv, TypeInv, TypeOK
  <2>2. ASSUME NEW id \in StoredOf(r)'
        PROVE  id[2] <= pos[r] - 1 /\ pos[r] > 1
    <3>1. id[2] < pos[r] /\ id[2] \in 1 .. Len(after[r])
      BY <2>1, <2>2, OwnItems DEF Tidy, StoredOf
    <3> QED
      BY <1>1, <3>1
  <2>3. ASSUME NEW e \in EventsOf(r)'
        PROVE  e.artifact[2] <= pos[r] - 1 /\ pos[r] > 1
    <3>1. e \in EventsOf(r) /\ e.artifact # <<r, pos[r]>>
      BY <2>1, <2>3 DEF EventsOf
    <3>2. /\ e.artifact[2] <= pos[r] /\ e.artifact[2] \in 1 .. Len(after[r])
          /\ e.artifact = <<r, e.artifact[2]>>
      BY <2>1, <3>1, OwnItems DEF Tidy
    <3>3. e.artifact[2] # pos[r]
      BY <3>1, <3>2
    <3> QED
      BY <1>1, <3>2, <3>3
  <2> QED
    BY <2>1, <2>2, <2>3 DEF Tidy
<1>4. CASE Purge(r)
  <2>1. /\ pc[r] = "purge" /\ repo' = repo /\ pc'[r] \in {"purge", "failed"}
        /\ audit' \subseteq audit
    BY <1>4, DeleteShrinks DEF Purge, Goto, AloneInv, TypeInv, TypeOK
  <2>2. StoredOf(r)' = {} /\ EventsOf(r)' = {}
    BY <2>1 DEF Tidy, StoredOf, EventsOf
  <2> QED
    BY <2>1, <2>2 DEF Tidy
<1> QED
  BY <1>2, <1>3, <1>4

LEMMA TidyServed ==
  ASSUME AloneInv, AloneInv', [Next]_vars, NEW r \in Req, Serve(r), Tidy(r),
         ~RollbackFails(r)
  PROVE  Tidy(r)'
<1>1. CASE Creating(r)
  BY <1>1, TidyForward, TidyBack DEF Serve, Read, ReadFails, Restore
<1>2. CASE ~Creating(r)
  <2>1. ~Creating(r)'
    BY <1>2, WasAtWork DEF Creating, Serve, Refuse, Prepare, Read,
       ReadFails, Save, SaveFails, File, FileFails, Restore, Withdraw,
       Scrub, Purge, Arrive, work, stores, AloneInv
  <2> QED
    BY <2>1 DEF Tidy
<1> QED
  BY <1>1, <1>2

LEMMA PublicInvStep ==
  ASSUME Exclusive = TRUE, Faults \subseteq {"io", "actor"},
         PublicInv, [Next]_vars
  PROVE  PublicInv'
<1>1. AloneInv /\ AloneInv' /\ TypeInv
  BY AloneInvStep DEF PublicInv, AloneInv
<1>2. ASSUME NEW r \in Req PROVE Unhurt(r)' /\ Lawful(r)'
  BY <1>1, UnhurtStep, LawfulStep DEF PublicInv
<1>3. ASSUME NEW r \in Req PROVE Tidy(r)'
  <2>1. CASE ~Serve(r)
    BY <1>1, <1>2, <2>1, TidyAside DEF PublicInv
  <2>2. ~RollbackFails(r)
    BY DEF PublicInv, Unhurt, RollbackFails
  <2> QED
    BY <1>1, <2>1, <2>2, TidyServed DEF PublicInv
<1> QED
  BY <1>1, <1>2, <1>3 DEF PublicInv

LEMMA PublicInvInit == Init => PublicInv
<1> SUFFICES ASSUME Init PROVE PublicInv
  OBVIOUS
<1>1. DOMAIN repo = {} /\ audit = {}
  BY DEF Init
<1>2. \A r \in Req : pc[r] = "idle" /\ after[r] = << >> /\ ~gone[r]
  BY DEF Init
<1>3. AloneInv
  BY <1>1, <1>2, TypeInvInit DEF AloneInv, Alone, AtWork, Held, HasRead
<1> QED
  BY <1>1, <1>2, <1>3 DEF PublicInv, Unhurt, Lawful, Tidy

-----------------------------------------------------------------------------
\* What is there and not hidden was made with success, and the converse.
LEMMA ShownIff ==
  ASSUME PublicInv
  PROVE  /\ \A id \in DOMAIN repo : id \notin Hidden <=> id \in Shown
         /\ \A e \in audit : e.artifact \notin Hidden <=> e.artifact \in Shown
         /\ Shown \subseteq DOMAIN repo
<1>1. ASSUME NEW id \in Id, Made(id), NEW m \in Req, m = id[1],
             pc[m] # "failed"
      PROVE  id \notin Hidden <=> id \in Shown
  <2>1. Creating(m) /\ id = <<m, id[2]>> /\ id[2] \in 1 .. Len(after[m])
    BY <1>1 DEF Made, Id
  <2>2. id \in Items(m)
    BY <2>1 DEF Items, Item
  <2>3. pc[m] # "idle" /\ pc[m] # "lost"
    BY <2>1 DEF PublicInv, AloneInv, TypeInv, Progress, Unhurt
  <2>4. Active(m) \/ pc[m] = "ok"
    BY <1>1, <2>3 DEF PublicInv, AloneInv, TypeInv, TypeOK, Active, Ended
  <2>5. ASSUME NEW q \in Req, Active(q), Creating(q), id \in Items(q)
        PROVE  q = m
    BY <1>1, <2>5 DEF Items, Item
  <2>6. id \in Hidden <=> Active(m)
    BY <2>1, <2>2, <2>5 DEF Hidden
  <2> QED
    BY <1>1, <2>4, <2>6 DEF Shown, Active, Handling
<1>2. ASSUME NEW id \in DOMAIN repo
      PROVE  id \notin Hidden <=> id \in Shown
  <2>1. id \in Id /\ Made(id)
    BY <1>2 DEF PublicInv, AloneInv, Alone, TypeInv, TypeOK
  <2>2. PICK m \in Req : m = id[1]
    BY <2>1 DEF Id
  <2>3. pc[m] # "failed"
    BY <2>1, <2>2 DEF PublicInv, Tidy, StoredOf, Made
  <2> QED
    BY <1>1, <2>1, <2>2, <2>3
<1>3. ASSUME NEW e \in audit
      PROVE  e.artifact \notin Hidden <=> e.artifact \in Shown
  <2>1. PICK id : id = e.artifact
    OBVIOUS
  <2>2. id \in Id
    BY <2>1 DEF PublicInv, AloneInv, TypeInv, TypeOK, AuditEvent
  <2>3. Made(id)
    BY <2>1 DEF PublicInv, AloneInv, Alone, Made
  <2>4. PICK m \in Req : m = id[1]
    BY <2>2 DEF Id
  <2>5. pc[m] # "failed"
    BY <2>1, <2>3, <2>4 DEF PublicInv, Tidy, EventsOf, Made
  <2>6. id \notin Hidden <=> id \in Shown
    BY <1>1, <2>2, <2>3, <2>4, <2>5
  <2> QED
    BY <2>1, <2>6
<1>4. ASSUME NEW id \in Shown
      PROVE  id \in DOMAIN repo
  <2>1. id \in Id /\ Made(id) /\ pc[id[1]] = "ok"
    BY <1>4 DEF Shown
  <2>2. PICK m \in Req : m = id[1]
    BY <2>1 DEF Id
  <2>3. Held(m) /\ id[2] \in 1 .. Len(after[m]) /\ Creating(m)
    BY <2>1, <2>2 DEF PublicInv, AloneInv, Made
  <2>4. Item(m, id[2]) \in DOMAIN repo /\ Item(m, id[2]) = id
    BY <2>1, <2>2, <2>3 DEF Held, Item, Id
  <2> QED
    BY <2>4
<1> QED
  BY <1>2, <1>3, <1>4

\* At most one handler works on an artifact.
LEMMA OneReader ==
  ASSUME AloneInv, NEW q \in Req, NEW r \in Req, NEW id,
         ~Creating(q), Active(q), job[q].id = id,
         ~Creating(r), Active(r), job[r].id = id
  PROVE  q = r
  BY DEF AloneInv, Alone, AtWork, Active, Handling

LEMMA ViewIs == PublicInv => ViewExact
<1> SUFFICES ASSUME PublicInv PROVE ViewExact
  OBVIOUS
<1>1. DOMAIN repo \ Hidden = Shown
  BY ShownIff
<1>2. PublicStore =
        [id \in Shown |-> IF Mutating(id) = {} THEN repo[id]
                          ELSE before[CHOOSE r \in Mutating(id) : TRUE][1]]
  BY <1>1 DEF PublicStore
<1>3. {f \in audit : f.artifact \notin Hidden} = {f \in audit : f.artifact \in Shown}
  BY ShownIff
<1>4. ASSUME NEW id \in Shown, NEW r \in Req, Reads(r, id)
      PROVE  PublicStore[id] = before[r][1]
  <2>1. ~Creating(r) /\ Active(r) /\ job[r].id = id
    BY <1>4 DEF Reads, HasRead, Active, Handling
  <2>2. \A q \in Mutating(id) : q = r
    BY <2>1, OneReader DEF PublicInv, Mutating, Active, Handling
  <2>3. CASE r \in Mutating(id)
    <3>1. (CHOOSE q \in Mutating(id) : TRUE) = r
      BY <2>2, <2>3
    <3> QED
      BY <1>2, <2>3, <3>1
  <2>4. CASE r \notin Mutating(id)
    <3>1. Mutating(id) = {}
      BY <2>2, <2>4
    <3>2. pc[r] = "save"
      BY <1>4, <2>4 DEF Mutating, Reads, HasRead
    <3>3. repo[id] = before[r][1]
      BY <1>4, <3>2 DEF PublicInv, AloneInv, Held, Reads
    <3> QED
      BY <1>2, <3>1, <3>3
  <2> QED
    BY <2>3, <2>4
<1>5. ASSUME NEW id \in Shown, \A r \in Req : ~Reads(r, id)
      PROVE  PublicStore[id] = repo[id]
  <2>1. Mutating(id) = {}
    BY <1>5 DEF Mutating, Reads, HasRead
  <2> QED
    BY <1>2, <2>1
<1>6. PublicStore = [id \in Shown |-> PublicStore[id]]
  BY <1>2
<1>7. PublicTrail =
        {[e EXCEPT !.id = "event"] : e \in {f \in audit : f.artifact \in Shown}}
  BY <1>3 DEF PublicTrail
<1> QED
  BY <1>4, <1>5, <1>6, <1>7 DEF ViewExact

-----------------------------------------------------------------------------
\* The filing of a last event, with which a request takes effect.
Concludes(r) == File(r) /\ Last(r)

\* What is shown stays, and only a create or a batch that concludes adds to it.
LEMMA ShownStep ==
  ASSUME PublicInv, [Next]_vars
  PROVE  /\ Shown \subseteq Shown'
         /\ \A id \in Shown' \ Shown : /\ Concludes(id[1]) /\ Creating(id[1])
                                       /\ Made(id) /\ pc'[id[1]] = "ok"
<1>1. TypeInv
  BY DEF PublicInv, AloneInv
<1>2. ASSUME NEW id \in Shown PROVE id \in Shown'
  <2>1. id \in Id /\ Made(id) /\ pc[id[1]] = "ok" /\ id[1] \in Req
    BY <1>2 DEF Shown, Id
  <2>2. Made(id)' /\ pc'[id[1]] = "ok"
    BY <1>1, <2>1, MadeStays, EndedStays DEF Ended
  <2> QED
    BY <2>1, <2>2 DEF Shown, Id
<1>3. ASSUME NEW id \in Shown' \ Shown
      PROVE  /\ Concludes(id[1]) /\ Creating(id[1])
             /\ Made(id) /\ pc'[id[1]] = "ok"
  <2>1. id \in Id /\ Made(id)' /\ pc'[id[1]] = "ok"
    BY <1>3 DEF Shown, Id
  <2>2. PICK m \in Req : m = id[1]
    BY <2>1 DEF Id
  <2>3. after'[m] # << >> /\ Creating(m)'
    BY <2>1, <2>2 DEF Made, Creating
  <2>4. ~Arrive(m)
    BY <2>1, <2>2 DEF Arrive, Goto, TypeInv, TypeOK, PublicInv, AloneInv
  <2>5. CASE ~Serve(m)
    <3>1. UNCHANGED <<job[m], after[m]>> /\ pc'[m] = pc[m]
      BY <1>1, <2>1, <2>2, <2>4, <2>5, Unserved
    <3> QED
      BY <1>3, <2>1, <2>2, <3>1 DEF Shown, Made, Creating
  <2>6. CASE Serve(m)
    <3>1. File(m) /\ Last(m)
      BY <1>1, <2>1, <2>2, <2>6
         DEF Serve, Refuse, Prepare, Read, ReadFails, Save, SaveFails, File,
             FileFails, Restore, Withdraw, Scrub, Purge, Goto, TypeInv, TypeOK
    <3>2. job' = job /\ after' = after
      BY <3>1 DEF File, work
    <3> QED
      BY <2>1, <2>2, <3>1, <3>2 DEF Made, Creating, Concludes
  <2> QED
    BY <2>5, <2>6
<1> QED
  BY <1>2, <1>3

\* Who works on a shown artifact has read it, and is the only one to change it.
LEMMA ByReader ==
  ASSUME PublicInv, [Next]_vars, NEW id \in Shown
  PROVE  \/ id \in DOMAIN repo' /\ repo'[id] = repo[id] /\ Trail(id)' = Trail(id)
         \/ \E r \in Req : Reads(r, id) /\ Serve(r) /\ pos[r] = 1
<1>1. TypeInv /\ Alone /\ id \in DOMAIN repo
  BY ShownIff DEF PublicInv, AloneInv
<1>2. CASE UNCHANGED stores
  BY <1>1, <1>2 DEF stores, Trail
<1>3. CASE ~ UNCHANGED stores
  <2>1. PICK q \in Req :
          /\ Serve(q) /\ Active(q) /\ pos[q] \in 1 .. Len(after[q])
          /\ \A x \in DOMAIN repo : x # Item(q, pos[q]) =>
               x \in DOMAIN repo' /\ repo'[x] = repo[x]
          /\ \A x : x # Item(q, pos[q]) => Trail(x)' = Trail(x)
    BY <1>1, <1>3, OneItem
  <2>2. CASE id # Item(q, pos[q])
    BY <1>1, <2>1, <2>2
  <2>3. CASE id = Item(q, pos[q])
    <3>1. ~Creating(q)
      BY <2>1, <2>3 DEF Item, Shown, Active, Handling
    <3>2. pos[q] = 1 /\ job[q].id = id
      BY <1>1, <2>1, <2>3, <3>1, ItemMade
    <3>3. HasRead(q)
      BY <1>1, <2>1, <3>1
         DEF HasRead, TypeInv, Progress, Active, Handling, Creating
    <3> QED
      BY <2>1, <3>2, <3>3 DEF Reads
  <2> QED
    BY <2>2, <2>3
<1> QED
  BY <1>2, <1>3

\* How a handler comes to work on an artifact, and stops to.
LEMMA ReaderStep ==
  ASSUME PublicInv, PublicInv', [Next]_vars, NEW r \in Req, NEW id
  PROVE  /\ Reads(r, id)' =>
              \/ Reads(r, id) /\ before'[r] = before[r]
              \/ Read(r) /\ job[r].id = id
         /\ Reads(r, id) /\ ~Reads(r, id)' =>
              \/ SaveFails(r) /\ UNCHANGED repo
              \/ Restore(r) \/ Concludes(r)
<1>1. ASSUME Reads(r, id)'
      PROVE  \/ Reads(r, id) /\ before'[r] = before[r]
             \/ Read(r) /\ job[r].id = id
  <2>1. ~Arrive(r) /\ TypeInv
    BY <1>1 DEF Reads, HasRead, Arrive, Goto, TypeInv, TypeOK, PublicInv, AloneInv
  <2>2. job'[r] = job[r] /\ ~Creating(r) /\ job[r].id = id
    BY <1>1, <2>1, WasAtWork DEF Reads, HasRead, Creating
  <2>3. CASE ~Read(r)
    <3>1. pc[r] \in {"save", "append", "undo"}
      <4>1. CASE Serve(r)
        BY <1>1, <2>1, <2>2, <2>3, <4>1
           DEF Reads, HasRead, Creating, Serve, Refuse, Prepare, ReadFails, Save,
               SaveFails, File, FileFails, Restore, Withdraw, Scrub, Purge,
               Goto, TypeInv, TypeOK, Progress
      <4>2. CASE ~Serve(r)
        BY <1>1, <2>1, <4>2, Unserved DEF Reads, HasRead
      <4> QED
        BY <4>1, <4>2
    <3>2. before'[r] = before[r]
      BY <2>1, <2>2, <2>3, OthersKept DEF Prepare
    <3> QED
      BY <2>2, <3>1, <3>2 DEF Reads, HasRead
  <2> QED
    BY <2>2, <2>3
<1>2. ASSUME Reads(r, id), ~Reads(r, id)'
      PROVE  (SaveFails(r) /\ UNCHANGED repo) \/ Restore(r) \/ Concludes(r)
  <2>1. /\ pc[r] \in {"save", "append", "undo"} /\ ~Creating(r) /\ Active(r)
        /\ job[r].id = id /\ TypeInv
    BY <1>2 DEF Reads, HasRead, PublicInv, AloneInv, Active, Handling
  <2>2. job'[r] = job[r]
    BY <2>1, WasAtWork DEF Arrive
  <2>3. pc'[r] \notin {"save", "append", "undo"}
    BY <1>2, <2>1, <2>2 DEF Reads, HasRead, Creating
  <2>4. Serve(r)
    BY <2>1, <2>3, Unserved DEF PublicInv, Unhurt, Arrive
  <2> QED
    BY <2>1, <2>3, <2>4
       DEF Serve, Refuse, Prepare, Read, ReadFails, Save, SaveFails, File,
           FileFails, Restore, Withdraw, Scrub, Purge, Goto, TypeInv, TypeOK,
           Progress, Concludes, stores, Creating
<1> QED
  BY <1>1, <1>2

LEMMA ViewSame ==
  ASSUME Faults \subseteq {"io", "actor"}, PublicInv, PublicInv', [Next]_vars,
         NEW id \in Shown,
         \A r \in Req : Reads(r, id) => ~Concludes(r)
  PROVE  PublicStore'[id] = PublicStore[id] /\ Trail(id)' = Trail(id)
<1>1. ViewExact /\ ViewExact' /\ id \in Shown'
  <2>1. ViewExact'
    <3>1. (PublicInv => ViewExact)'
      BY ViewIs, PTL
    <3> QED
      BY <3>1
  <2> QED
    BY <2>1, ViewIs, ShownStep
<1>2. TypeInv /\ AloneInv /\ \A r \in Req : Held(r)
  BY DEF PublicInv, AloneInv
<1>3. Trail(id)' = Trail(id)
  <2>1. CASE \E r \in Req : Reads(r, id) /\ Serve(r) /\ pos[r] = 1
    <3>1. PICK r \in Req : Reads(r, id) /\ Serve(r) /\ pos[r] = 1
      BY <2>1
    <3>2. ~File(r)
      <4>1. ASSUME File(r) PROVE Last(r)
        <5>1. Len(after[r]) = 1
          BY <1>2, <3>1, <4>1, Counters, ItemMade
             DEF AloneInv, Reads, HasRead, File
        <5> QED
          BY <3>1, <5>1 DEF Last
      <4> QED
        BY <3>1, <4>1 DEF Concludes
    <3>3. audit' = audit
      BY <1>2, <3>1, <3>2
         DEF Reads, HasRead, Serve, Refuse, Prepare, Read, ReadFails, Save,
             SaveFails, FileFails, Restore, Withdraw, Scrub, Purge, stores
    <3> QED
      BY <3>3 DEF Trail
  <2> QED
    BY <2>1, ByReader
<1>4. CASE \E r \in Req : Reads(r, id)'
  <2>1. PICK r \in Req : Reads(r, id)'
    BY <1>4
  <2>2. PublicStore'[id] = before'[r][1]
    BY <1>1, <2>1 DEF ViewExact
  <2>3. CASE Reads(r, id) /\ before'[r] = before[r]
    BY <1>1, <1>3, <2>2, <2>3 DEF ViewExact
  <2>4. CASE Read(r) /\ job[r].id = id
    <3>1. before'[r] = <<repo[id]>> /\ ~Creating(r) /\ pc[r] = "start"
      BY <1>2, <2>4 DEF Read, TypeInv, TypeOK
    <3>2. \A q \in Req : ~Reads(q, id)
      BY <1>2, <2>4, <3>1, OneReader DEF Reads, HasRead, Active, Handling
    <3>3. PublicStore[id] = repo[id]
      BY <1>1, <3>2 DEF ViewExact
    <3> QED
      BY <1>3, <2>2, <3>1, <3>3
  <2> QED
    BY <2>1, <2>3, <2>4, ReaderStep
<1>5. CASE \A r \in Req : ~Reads(r, id)'
  <2>1. PublicStore'[id] = repo'[id]
    BY <1>1, <1>5 DEF ViewExact
  <2>2. CASE \E r \in Req : Reads(r, id)
    <3>1. PICK r \in Req : Reads(r, id)
      BY <2>2
    <3>2. PublicStore[id] = before[r][1]
      BY <1>1, <3>1 DEF ViewExact
    <3>3. (SaveFails(r) /\ UNCHANGED repo) \/ Restore(r)
      BY <1>5, <3>1, ReaderStep
    <3>4. repo'[id] = before[r][1]
      <4>1. CASE SaveFails(r) /\ UNCHANGED repo
        BY <1>2, <3>1, <4>1 DEF SaveFails, Held, Reads, HasRead
      <4>2. CASE Restore(r)
        <5>1. ~RollbackFails(r) /\ job[r].id = id
          BY <3>1 DEF RollbackFails, PublicInv, Unhurt, Reads
        <5>2. repo' = Put(repo, id, before[r][1])
          BY <4>2, <5>1 DEF Restore
        <5> QED
          BY <5>2 DEF Put
      <4> QED
        BY <3>3, <4>1, <4>2
    <3> QED
      BY <1>3, <2>1, <3>2, <3>4
  <2>3. CASE \A r \in Req : ~Reads(r, id)
    <3>1. PublicStore[id] = repo[id]
      BY <1>1, <2>3 DEF ViewExact
    <3>2. repo'[id] = repo[id]
      BY <2>3, ByReader
    <3> QED
      BY <1>3, <2>1, <3>1, <3>2
  <2> QED
    BY <2>2, <2>3
<1> QED
  BY <1>3, <1>4, <1>5

LEMMA Concluded ==
  ASSUME PublicInv, NEW r \in Req, Concludes(r)
  PROVE  /\ pc[r] = "append" /\ pc'[r] = "ok"
         /\ UNCHANGED <<repo, job, before, after>>
         /\ audit' = audit \union {Event(r, pos[r])} /\ pos[r] = Len(after[r])
         /\ Len(after[r]) \in Nat \ {0} /\ Active(r) /\ Serve(r)
         /\ \A q \in Req : Concludes(q) => q = r
<1>1. TypeInv
  BY DEF PublicInv, AloneInv
<1>2. pc[r] = "append" /\ pc'[r] = "ok"
  BY <1>1 DEF Concludes, File, Goto, TypeInv, TypeOK
<1>3. pos[r] \in 1 .. Len(after[r]) /\ Len(after[r]) \in Nat
  BY <1>1, <1>2, Counters
<1>4. ASSUME NEW q \in Req, Concludes(q), q # r PROVE FALSE
  <2>1. pc[q] = "append" /\ pc'[q] = "ok"
    BY <1>1, <1>4 DEF Concludes, File, Goto, TypeInv, TypeOK
  <2>2. pc'[q] = pc[q]
    BY <1>1, <1>4, OneHandler DEF Serve, Concludes
  <2> QED
    BY <2>1, <2>2
<1>5. /\ UNCHANGED <<repo, work>> /\ audit' = audit \union {Event(r, pos[r])}
      /\ Serve(r) /\ Last(r)
  BY DEF Concludes, File, Serve
<1>6. \A n \in Nat : pos[r] \in 1 .. n /\ pos[r] = n => n \in Nat \ {0}
  OBVIOUS
<1> QED
  BY <1>2, <1>3, <1>4, <1>5, <1>6 DEF Last, work, Active, Handling

NewIds(r) == {<<r, k>> : k \in 1 .. Len(after[r])}

\* A create or a batch that concludes: its drafts become public.
LEMMA CreateConcludes ==
  ASSUME PublicInv, PublicInv', [Next]_vars, NEW r \in Req, Concludes(r),
         Creating(r)
  PROVE  /\ Shown' = Shown \union NewIds(r)
         /\ NewIds(r) \intersect Shown = {} /\ NewIds(r) # {}
         /\ \A id \in NewIds(r) :
              /\ id = <<r, id[2]>> /\ id[2] \in 1 .. Len(after[r])
              /\ PublicStore'[id] = after[r][id[2]]
              /\ Trail(id)' = {Event(r, id[2])}
<1>1. /\ pc[r] = "append" /\ pc'[r] = "ok"
      /\ UNCHANGED <<repo, job, before, after>> /\ Active(r) /\ Serve(r)
      /\ audit' = audit \union {Event(r, pos[r])} /\ pos[r] = Len(after[r])
      /\ Len(after[r]) \in Nat \ {0}
  BY Concluded
<1>2. TypeInv /\ TypeInv' /\ AloneInv /\ Held(r) /\ Held(r)'
  BY DEF PublicInv, AloneInv
<1>3. NewIds(r) \intersect Shown = {} /\ <<r, 1>> \in NewIds(r)
  BY <1>1 DEF NewIds, Shown
<1>4. ViewExact'
  <2>1. (PublicInv => ViewExact)'
    BY ViewIs, PTL
  <2> QED
    BY <2>1
<1>5. \A k : Event(r, k)' = Event(r, k)
  BY <1>1 DEF Event, Item, Creating
<1>6. ASSUME NEW id \in Shown' \ Shown PROVE id \in NewIds(r)
  <2>1. id \in Id /\ id[1] \in Req
    BY <1>6 DEF Shown, Id
  <2>2. Concludes(id[1]) /\ Made(id)
    BY <1>6, ShownStep
  <2>3. id[1] = r
    BY <2>1, <2>2, Concluded
  <2> QED
    BY <2>1, <2>2, <2>3 DEF Made, NewIds, Id
<1>7. ASSUME NEW id \in NewIds(r)
      PROVE  /\ id = <<r, id[2]>> /\ id[2] \in 1 .. Len(after[r]) /\ id \in Shown'
             /\ PublicStore'[id] = after[r][id[2]]
             /\ Trail(id)' = {Event(r, id[2])}
  <2>1. PICK k \in 1 .. Len(after[r]) : id = <<r, k>>
    BY <1>7 DEF NewIds
  <2>2. id \in Id /\ Made(id)' /\ Item(r, k) = id
    <3>1. Item(r, k) \in Id /\ Item(r, k) = id
      BY <1>2, <2>1, ItemType DEF Item
    <3>2. id[1] = r /\ id[2] = k /\ Creating(r)'
      BY <1>1, <2>1 DEF Creating
    <3> QED
      BY <1>1, <2>1, <3>1, <3>2 DEF Made, Creating
  <2>3. id \in Shown'
    BY <1>1, <2>1, <2>2 DEF Shown, Id
  <2>4. ASSUME NEW q \in Req, Reads(q, id)' PROVE FALSE
    <3>1. Reads(q, id) \/ (Read(q) /\ job[q].id = id)
      BY <2>4, ReaderStep
    <3>2. AtWork(q) /\ job[q].id = id
      BY <3>1 DEF Reads, HasRead, Read, AtWork
    <3>3. pc[id[1]] \in Ended
      BY <3>2 DEF PublicInv, AloneInv, Alone
    <3> QED
      BY <1>1, <2>1, <3>3 DEF Ended
  <2>5. PublicStore'[id] = after[r][k]
    <3>1. PublicStore'[id] = repo'[id]
      BY <1>4, <2>3, <2>4 DEF ViewExact
    <3>2. repo[id] = after[r][k]
      BY <1>1, <1>2, <2>1 DEF Held, Saved
    <3> QED
      BY <1>1, <3>1, <3>2
  <2>6. Trail(id)' = {Event(r, k)}
    <3>1. \A j : Event(r, j).artifact = <<r, j>>
      BY DEF Event, NewAuditEvent, Item
    <3>2. Event(r, k) \in audit'
      BY <1>1, <1>2, <1>5, <2>1 DEF Held
    <3>3. ASSUME NEW e \in audit', e.artifact = id PROVE e = Event(r, k)
      <4>1. PICK j : e = Event(r, j)
        <5>1. CASE e \in audit
          <6>1. e \in EventsOf(r)
            BY <2>1, <3>3, <5>1 DEF EventsOf
          <6> QED
            BY <1>1, <6>1 DEF PublicInv, Tidy
        <5>2. CASE e \notin audit
          BY <1>1, <3>3, <5>2
        <5> QED
          BY <5>1, <5>2
      <4>2. j = k
        BY <2>1, <3>1, <3>3, <4>1
      <4> QED
        BY <4>1, <4>2
    <3> QED
      BY <2>1, <3>1, <3>2, <3>3 DEF Trail
  <2> QED
    BY <2>1, <2>3, <2>5, <2>6
<1> QED
  BY <1>3, <1>6, <1>7, ShownStep

\* A mutation that concludes: its record becomes public.
LEMMA MutationConcludes ==
  ASSUME PublicInv, PublicInv', [Next]_vars, NEW r \in Req, Concludes(r),
         ~Creating(r)
  PROVE  \E id \in Shown :
           /\ Shown' = Shown /\ job[r].id = id /\ Reads(r, id)
           /\ PublicStore[id] = before[r][1] /\ PublicStore'[id] = after[r][1]
           /\ Trail(id)' = Trail(id) \union {Event(r, 1)}
<1>1. PICK id : id = job[r].id
  OBVIOUS
<1>2. /\ pc[r] = "append" /\ pc'[r] = "ok"
      /\ UNCHANGED <<repo, job, before, after>> /\ Active(r) /\ Serve(r)
      /\ audit' = audit \union {Event(r, pos[r])} /\ pos[r] = Len(after[r])
      /\ Len(after[r]) \in Nat \ {0}
  BY Concluded
<1>3. TypeInv /\ TypeInv' /\ AloneInv /\ Alone /\ Held(r)
  BY DEF PublicInv, AloneInv
<1>4. ViewExact /\ ViewExact'
  <2>1. (PublicInv => ViewExact)'
    BY ViewIs, PTL
  <2> QED
    BY <2>1, ViewIs
<1>5. pos[r] = 1 /\ Item(r, 1) = id
  BY <1>1, <1>2, <1>3, ItemMade
<1>6. Reads(r, id) /\ id \in DOMAIN repo /\ repo[id] = after[r][1]
  BY <1>1, <1>2, <1>3 DEF Reads, HasRead, Held
<1>7. id \in Shown
  <2>1. id \in Id /\ Made(id) /\ pc[id[1]] \in Ended
    BY <1>1, <1>2, <1>3 DEF Alone, AtWork, TypeInv, TypeOK, Job
  <2>2. PICK m \in Req : m = id[1]
    BY <2>1 DEF Id
  <2>3. pc[m] # "failed" /\ pc[m] # "lost"
    BY <1>6, <2>1, <2>2 DEF PublicInv, Tidy, StoredOf, Made, Unhurt
  <2> QED
    BY <2>1, <2>2, <2>3 DEF Shown, Ended
<1>8. ASSUME NEW x \in Shown' \ Shown PROVE FALSE
  <2>1. x[1] \in Req /\ Concludes(x[1]) /\ Creating(x[1])
    BY <1>8, ShownStep DEF Shown, Id
  <2> QED
    BY <2>1, Concluded
<1>9. Shown' = Shown
  BY <1>8, ShownStep
<1>10. ASSUME NEW q \in Req, Reads(q, id)' PROVE FALSE
  <2>1. q # r
    BY <1>2, <1>10 DEF Reads, HasRead
  <2>2. Reads(q, id) \/ (Read(q) /\ job[q].id = id)
    BY <1>10, ReaderStep
  <2>3. ~Creating(q) /\ Active(q) /\ job[q].id = id
    BY <2>2 DEF Reads, HasRead, Read, Active, Handling
  <2> QED
    BY <1>1, <1>2, <1>3, <2>1, <2>3, OneReader
<1>11. PublicStore'[id] = after[r][1] /\ PublicStore[id] = before[r][1]
  <2>1. PublicStore'[id] = repo'[id]
    BY <1>4, <1>7, <1>9, <1>10 DEF ViewExact
  <2> QED
    BY <1>2, <1>4, <1>6, <1>7, <2>1 DEF ViewExact
<1>12. Trail(id)' = Trail(id) \union {Event(r, 1)}
  <2>1. Event(r, 1).artifact = id
    BY <1>5 DEF Event, NewAuditEvent
  <2>2. audit' = audit \union {Event(r, 1)}
    BY <1>2, <1>5
  <2> QED
    BY <2>1, <2>2 DEF Trail
<1> QED
  BY <1>1, <1>6, <1>7, <1>9, <1>11, <1>12

-----------------------------------------------------------------------------
\* The abstract archive has its own copy of the lifecycle's rules.
LEMMA SameRules ==
  /\ Promised!ZeroArtifact = ZeroArtifact
  /\ Promised!Mutation = Mutation
  /\ \A a \in Promised!Drafts : a.status = "draft" /\ a.version = 1
  /\ \A a, op : CanApply(a, op) => Promised!CanApply(a, op)
  /\ \A a : Valid(a) => Promised!Valid(a)
  /\ \A a, op, m, now : Promised!Apply(a, op, m, now) = Apply(a, op, m, now)
<1>1. Promised!ZeroArtifact = ZeroArtifact /\ Promised!Mutation = Mutation
  BY DEF Promised!ZeroArtifact, ZeroArtifact, Promised!NoTime, NoTime,
         Promised!Mutation, Mutation
<1>2. \A a \in Promised!Drafts : a.status = "draft" /\ a.version = 1
  BY DEF Promised!Drafts, Promised!NewArtifact
<1>3. \A a, op : CanApply(a, op) => Promised!CanApply(a, op)
  BY DEF CanApply, Promised!CanApply
<1>4. \A a : Valid(a) => Promised!Valid(a)
  BY DEF Valid, Promised!Valid, NoTime, Promised!NoTime, Status, Promised!Status
<1>5. ASSUME NEW a, NEW op, NEW m, NEW now
      PROVE  Promised!Apply(a, op, m, now) = Apply(a, op, m, now)
  <2>1. Promised!Touch(a, now) = Touch(a, now)
    BY DEF Promised!Touch, Touch
  <2>2. /\ Promised!Submit(a, now) = Submit(a, now)
        /\ Promised!Decide(a, op, now) = Decide(a, op, now)
    BY <2>1 DEF Promised!Submit, Submit, Promised!Decide, Decide,
                Promised!NoTime, NoTime
  <2>3. Promised!Decision = Decision
    BY DEF Promised!Decision, Decision
  <2> QED
    BY <2>1, <2>2, <2>3 DEF Promised!Apply, Apply
<1> QED
  BY <1>1, <1>2, <1>3, <1>4, <1>5

Action(r) == IF Creating(r) THEN "create" ELSE job[r].op

LEMMA EventFields ==
  ASSUME NEW r, NEW k
  PROVE  /\ Event(r, k).artifact = Item(r, k)
         /\ Event(r, k).action = Action(r)
         /\ Event(r, k).from = before[r][k].status
         /\ Event(r, k).to = after[r][k].status
         /\ Event(r, k).version = after[r][k].version
         /\ [Event(r, k) EXCEPT !.id = "event"] =
              Promised!Entry(Item(r, k), before[r][k], after[r][k], Action(r))
  BY DEF Event, Action, NewAuditEvent, Promised!Entry, Promised!NewAuditEvent

\* Who does not conclude changes nothing that is shown.
LEMMA OthersSame ==
  ASSUME Faults \subseteq {"io", "actor"}, PublicInv, PublicInv', [Next]_vars,
         NEW r \in Req, Concludes(r), NEW id \in Shown, ~Reads(r, id)
  PROVE  PublicStore'[id] = PublicStore[id] /\ Trail(id)' = Trail(id)
<1>1. \A q \in Req : Reads(q, id) => ~Concludes(q)
  BY Concluded
<1> QED
  BY <1>1, ViewSame

LEMMA NoneSame ==
  ASSUME Faults \subseteq {"io", "actor"}, PublicInv, PublicInv', [Next]_vars,
         \A r \in Req : ~Concludes(r)
  PROVE  /\ Shown' = Shown
         /\ \A id \in Shown :
              PublicStore'[id] = PublicStore[id] /\ Trail(id)' = Trail(id)
<1>1. \A id \in Shown' \ Shown : id[1] \in Req
  BY DEF Shown, Id
<1>2. Shown' = Shown
  BY <1>1, ShownStep
<1> QED
  BY <1>2, ViewSame

Exact == \A id \in Shown : Explains(Trail(id), PublicStore[id])

\* The trail of what is shown explains it.
LEMMA ExactStep ==
  ASSUME Faults \subseteq {"io", "actor"}, PublicInv, PublicInv', Exact,
         [Next]_vars
  PROVE  Exact'
<1>1. CASE \A r \in Req : ~Concludes(r)
  BY <1>1, NoneSame DEF Exact
<1>2. ASSUME NEW r \in Req, Concludes(r), Creating(r)
      PROVE  Exact'
  <2> SUFFICES ASSUME NEW id \in Shown'
               PROVE  Explains(Trail(id)', PublicStore'[id])
    BY DEF Exact
  <2>1. CASE id \in Shown
    <3>1. ~Reads(r, id)
      BY <1>2 DEF Reads, HasRead
    <3> QED
      BY <1>2, <2>1, <3>1, OthersSame DEF Exact
  <2>2. CASE id \in NewIds(r)
    <3>1. PICK k \in 1 .. Len(after[r]) : k = id[2]
      BY <1>2, <2>2, CreateConcludes
    <3>2. /\ PublicStore'[id] = after[r][k] /\ Trail(id)' = {Event(r, k)}
      BY <1>2, <2>2, <3>1, CreateConcludes
    <3>3. after[r][k].status = "draft" /\ after[r][k].version = 1
      BY <1>2, SameRules DEF PublicInv, Lawful
    <3>4. PICK e : e = Event(r, k)
      OBVIOUS
    <3>5. e.action = "create" /\ e.to = "draft" /\ e.version = 1
      BY <1>2, <3>3, <3>4, EventFields DEF Action
    <3>6. PICK a : a = after[r][k]
      OBVIOUS
    <3>7. Explains({e}, a)
      BY <3>3, <3>5, <3>6, FirstExplains
    <3> QED
      BY <3>2, <3>4, <3>6, <3>7
  <2> QED
    BY <1>2, <2>1, <2>2, CreateConcludes
<1>3. ASSUME NEW r \in Req, Concludes(r), ~Creating(r)
      PROVE  Exact'
  <2>1. PICK x \in Shown :
          /\ Shown' = Shown /\ job[r].id = x /\ Reads(r, x)
          /\ PublicStore[x] = before[r][1] /\ PublicStore'[x] = after[r][1]
          /\ Trail(x)' = Trail(x) \union {Event(r, 1)}
    BY <1>3, MutationConcludes
  <2> SUFFICES ASSUME NEW id \in Shown
               PROVE  Explains(Trail(id)', PublicStore'[id])
    BY <2>1 DEF Exact
  <2>2. CASE id # x
    <3>1. ~Reads(r, id)
      BY <2>1, <2>2 DEF Reads
    <3> QED
      BY <1>3, <3>1, OthersSame DEF Exact
  <2>3. CASE id = x
    <3>1. PICK b, a, e, t :
            b = before[r][1] /\ a = after[r][1] /\ e = Event(r, 1) /\ t = Trail(x)
      OBVIOUS
    <3>2. e.from = b.status /\ e.to = a.status /\ e.version = a.version
      <4>1. /\ Event(r, 1).from = before[r][1].status
            /\ Event(r, 1).to = after[r][1].status
            /\ Event(r, 1).version = after[r][1].version
        BY DEF Event, NewAuditEvent
      <4> QED
        BY <3>1, <4>1, Zenon
    <3>3. a.version = b.version + 1
      BY <2>1, <3>1 DEF PublicInv, AloneInv, Held, Reads
    <3>4. b.version \in Nat \ {0}
      <4>1. before[r] \in Seq(Artifact) /\ Len(before[r]) = Len(after[r])
        BY <1>3 DEF PublicInv, AloneInv, TypeInv, TypeOK, Progress
      <4>2. Len(after[r]) \in Nat \ {0}
        BY <1>3, Concluded
      <4>3. before[r][1] \in Artifact
        BY <4>1, <4>2
      <4> QED
        BY <3>1, <4>3 DEF Artifact
    <3>5. Explains(t, b)
      BY <2>1, <3>1 DEF Exact
    <3>6. Explains(t \union {e}, a)
      BY <3>2, <3>3, <3>4, <3>5, NextExplains
    <3> QED
      BY <2>1, <2>3, <3>1, <3>6
  <2> QED
    BY <2>2, <2>3
<1> QED
  BY <1>1, <1>2, <1>3

LEMMA TrailGrows ==
  ASSUME PublicInv, PublicInv', Shown \subseteq Shown', NEW new,
         \A id \in Shown :
           Trail(id)' = Trail(id) \union {e \in new : e.artifact = id},
         \A id \in Shown' \ Shown : Trail(id)' = {e \in new : e.artifact = id},
         \A e \in new : e.artifact \in Shown'
  PROVE  PublicTrail' = PublicTrail \union {[e EXCEPT !.id = "event"] : e \in new}
<1> DEFINE seen == {f \in audit : f.artifact \in Shown}
<1>1. /\ PublicTrail = {[e EXCEPT !.id = "event"] : e \in seen}
      /\ PublicTrail' = {[e EXCEPT !.id = "event"] : e \in seen'}
  <2>1. (PublicInv => ViewExact)'
    BY ViewIs, PTL
  <2> QED
    BY <2>1, ViewIs DEF ViewExact
<1>2. ASSUME NEW f \in seen' PROVE f \in seen \union new
  <2>1. PICK id \in Shown' : id = f.artifact
    OBVIOUS
  <2>2. f \in Trail(id)'
    BY <2>1 DEF Trail
  <2> QED
    BY <2>1, <2>2 DEF Trail
<1>3. ASSUME NEW f \in seen \union new PROVE f \in seen'
  <2>1. PICK id \in Shown' : id = f.artifact
    OBVIOUS
  <2>2. f \in seen => id \in Shown /\ f \in Trail(id)
    BY <2>1 DEF Trail
  <2>3. f \in Trail(id)'
    BY <2>1, <2>2
  <2> QED
    BY <2>1, <2>3 DEF Trail
<1>4. seen' = seen \union new
  BY <1>2, <1>3
<1> HIDE DEF seen
<1> QED
  BY <1>1, <1>4

LEMMA NoneStutters ==
  ASSUME Faults \subseteq {"io", "actor"}, PublicInv, PublicInv', [Next]_vars,
         \A r \in Req : ~Concludes(r)
  PROVE  UNCHANGED <<PublicStore, PublicTrail>>
<1>1. /\ Shown' = Shown
      /\ \A id \in Shown :
           PublicStore'[id] = PublicStore[id] /\ Trail(id)' = Trail(id)
  BY NoneSame
<1>2. /\ PublicStore = [id \in Shown |-> PublicStore[id]]
      /\ PublicStore' = [id \in Shown' |-> PublicStore'[id]]
  <2>1. (PublicInv => ViewExact)'
    BY ViewIs, PTL
  <2> QED
    BY <2>1, ViewIs DEF ViewExact
<1>3. PublicStore' = PublicStore
  BY <1>1, <1>2
<1>4. PublicTrail' = PublicTrail \union {[e EXCEPT !.id = "event"] : e \in {}}
  BY <1>1, TrailGrows
<1> QED
  BY <1>3, <1>4

LEMMA CreateTakesIn ==
  ASSUME Faults \subseteq {"io", "actor"}, PublicInv, PublicInv', [Next]_vars,
         NEW r \in Req, Concludes(r), Creating(r)
  PROVE  Promised!Next
<1>1. PICK ids : ids = NewIds(r)
  OBVIOUS
<1>2. /\ Shown' = Shown \union ids /\ ids \intersect Shown = {} /\ ids # {}
      /\ \A id \in ids :
           /\ id = <<r, id[2]>> /\ id[2] \in 1 .. Len(after[r])
           /\ PublicStore'[id] = after[r][id[2]]
           /\ Trail(id)' = {Event(r, id[2])}
  BY <1>1, CreateConcludes
<1>3. \A id \in Shown :
        PublicStore'[id] = PublicStore[id] /\ Trail(id)' = Trail(id)
  BY OthersSame DEF Reads, HasRead
<1>4. /\ PublicStore = [id \in Shown |-> PublicStore[id]]
      /\ PublicStore' = [id \in Shown' |-> PublicStore'[id]]
  <2>1. (PublicInv => ViewExact)'
    BY ViewIs, PTL
  <2> QED
    BY <2>1, ViewIs DEF ViewExact
<1>5. DOMAIN PublicStore = Shown
  BY <1>4
<1>6. ids \in SUBSET (Id \ DOMAIN PublicStore)
  <2>1. Shown' \subseteq Id
    BY DEF Shown, Id
  <2> QED
    BY <1>2, <1>5, <2>1
<1>7. PICK draft : draft = [id \in ids |-> after[r][id[2]]]
  OBVIOUS
<1>8. \A id \in ids :
        /\ before[r][id[2]] = ZeroArtifact /\ draft[id] = after[r][id[2]]
        /\ draft[id] \in Promised!Drafts
  BY <1>2, <1>7 DEF PublicInv, Lawful
<1>9. draft \in [ids -> Promised!Drafts]
  BY <1>7, <1>8
<1>10. PublicStore' = [id \in DOMAIN PublicStore \union ids |->
                         IF id \in ids THEN draft[id] ELSE PublicStore[id]]
  BY <1>2, <1>3, <1>4, <1>5, <1>8
<1>11. PICK new : new = {Event(r, id[2]) : id \in ids}
  OBVIOUS
<1>12. \A id \in ids : Event(r, id[2]).artifact = id
  BY <1>2, EventFields DEF Item
<1>13. PublicTrail' = PublicTrail \union {[e EXCEPT !.id = "event"] : e \in new}
  <2>1. ASSUME NEW id \in Shown
        PROVE  Trail(id)' = Trail(id) \union {e \in new : e.artifact = id}
    <3>1. {e \in new : e.artifact = id} = {}
      BY <1>2, <1>11, <1>12
    <3> QED
      BY <1>3, <3>1
  <2>2. ASSUME NEW id \in Shown' \ Shown
        PROVE  Trail(id)' = {e \in new : e.artifact = id}
    <3>1. id \in ids
      BY <1>2
    <3>2. {e \in new : e.artifact = id} = {Event(r, id[2])}
      BY <1>11, <1>12, <3>1
    <3> QED
      BY <1>2, <3>1, <3>2
  <2>3. \A e \in new : e.artifact \in Shown'
    BY <1>2, <1>11, <1>12
  <2> QED
    BY <1>2, <2>1, <2>2, <2>3, TrailGrows
<1>14. \A id \in ids :
         [Event(r, id[2]) EXCEPT !.id = "event"]
           = Promised!Entry(id, Promised!ZeroArtifact, draft[id], "create")
  BY <1>2, <1>8, EventFields, SameRules DEF Item, Action
<1>15. {[e EXCEPT !.id = "event"] : e \in new}
         = {Promised!Entry(id, Promised!ZeroArtifact, draft[id], "create") :
              id \in ids}
  <2>1. ASSUME NEW id \in ids
        PROVE  \E e \in new : [e EXCEPT !.id = "event"]
                 = Promised!Entry(id, Promised!ZeroArtifact, draft[id], "create")
    <3>1. Event(r, id[2]) \in new
      BY <1>11
    <3> QED
      BY <1>14, <3>1, Zenon
  <2>2. ASSUME NEW e \in new
        PROVE  \E id \in ids : [e EXCEPT !.id = "event"]
                 = Promised!Entry(id, Promised!ZeroArtifact, draft[id], "create")
    <3>1. PICK id \in ids : e = Event(r, id[2])
      BY <1>11
    <3> QED
      BY <1>14, <3>1, Zenon
  <2>3. ASSUME NEW x \in {[e EXCEPT !.id = "event"] : e \in new}
        PROVE  x \in {Promised!Entry(id, Promised!ZeroArtifact, draft[id], "create")
                        : id \in ids}
    <3>1. PICK e \in new : x = [e EXCEPT !.id = "event"]
      OBVIOUS
    <3> QED
      BY <2>2, <3>1, Zenon
  <2>4. ASSUME NEW x \in {Promised!Entry(id, Promised!ZeroArtifact, draft[id], "create")
                        : id \in ids}
        PROVE  x \in {[e EXCEPT !.id = "event"] : e \in new}
    <3>1. PICK id \in ids :
            x = Promised!Entry(id, Promised!ZeroArtifact, draft[id], "create")
      BY Zenon
    <3>2. PICK e \in new : [e EXCEPT !.id = "event"] = x
      BY <2>1, <3>1, Zenon
    <3> QED
      BY <3>2
  <2> QED
    BY <2>3, <2>4
<1>16. Promised!TakeIn(ids)
  BY <1>9, <1>10, <1>13, <1>15 DEF Promised!TakeIn
<1> QED
  BY <1>2, <1>6, <1>16 DEF Promised!Next

LEMMA MutationChanges ==
  ASSUME Faults \subseteq {"io", "actor"}, PublicInv, PublicInv', [Next]_vars,
         NEW r \in Req, Concludes(r), ~Creating(r)
  PROVE  Promised!Next
<1>1. PICK id \in Shown :
         /\ Shown' = Shown /\ job[r].id = id /\ Reads(r, id)
         /\ PublicStore[id] = before[r][1] /\ PublicStore'[id] = after[r][1]
         /\ Trail(id)' = Trail(id) \union {Event(r, 1)}
  BY MutationConcludes
<1>2. \A x \in Shown : x # id =>
        PublicStore'[x] = PublicStore[x] /\ Trail(x)' = Trail(x)
  BY <1>1, OthersSame DEF Reads
<1>3. /\ PublicStore = [x \in Shown |-> PublicStore[x]]
      /\ PublicStore' = [x \in Shown' |-> PublicStore'[x]]
  <2>1. (PublicInv => ViewExact)'
    BY ViewIs, PTL
  <2> QED
    BY <2>1, ViewIs DEF ViewExact
<1>4. PICK action : action = job[r].op
  OBVIOUS
<1>5. action \in Mutation
  BY <1>4 DEF PublicInv, AloneInv, TypeInv, TypeOK, Job, Op, Creating
<1>6. PICK m \in Meta, now \in Time :
        /\ CanApply(before[r][1], action) /\ Valid(after[r][1])
        /\ after[r][1] = Apply(before[r][1], action, m, now)
  <2>1. after[r] # << >>
    BY Concluded
  <2> QED
    BY <1>4, <2>1 DEF PublicInv, Lawful
<1>7. PICK a : a = after[r][1]
  OBVIOUS
<1>8. /\ Promised!CanApply(PublicStore[id], action) /\ Promised!Valid(a)
      /\ a = Promised!Apply(PublicStore[id], action, m, now)
  BY <1>1, <1>6, <1>7, SameRules
<1>9. PublicStore' = [PublicStore EXCEPT ![id] = a]
  BY <1>1, <1>2, <1>3, <1>7
<1>10. PICK e : e = Event(r, 1)
  OBVIOUS
<1>11. e.artifact = id
  BY <1>1, <1>10, EventFields DEF Item
<1>12. PublicTrail' = PublicTrail \union {[f EXCEPT !.id = "event"] : f \in {e}}
  <2>1. ASSUME NEW x \in Shown
        PROVE  Trail(x)' = Trail(x) \union {f \in {e} : f.artifact = x}
    BY <1>1, <1>2, <1>10, <1>11
  <2> QED
    BY <1>1, <1>11, <2>1, TrailGrows
<1>13. [e EXCEPT !.id = "event"] = Promised!Entry(id, PublicStore[id], a, action)
  <2>1. [Event(r, 1) EXCEPT !.id = "event"] =
          Promised!Entry(Item(r, 1), before[r][1], after[r][1], Action(r))
    BY EventFields
  <2>2. Item(r, 1) = id /\ Action(r) = action
    BY <1>1, <1>4 DEF Item, Action
  <2> QED
    BY <1>1, <1>7, <1>10, <2>1, <2>2, Zenon
<1>14. PublicTrail' =
         PublicTrail \union {Promised!Entry(id, PublicStore[id], a, action)}
  BY <1>12, <1>13
<1>15. Promised!Change(id, action)
  BY <1>8, <1>9, <1>14 DEF Promised!Change
<1>16. id \in DOMAIN PublicStore
  BY <1>3
<1> QED
  BY <1>5, <1>15, <1>16, SameRules DEF Promised!Next

LEMMA PublicInvariant ==
  ASSUME Exclusive = TRUE, Faults \subseteq {"io", "actor"}
  PROVE  Spec => [](PublicInv /\ Exact)
<1>1. Init => PublicInv /\ Exact
  <2> SUFFICES ASSUME Init PROVE PublicInv /\ Exact
    OBVIOUS
  <2>1. Shown = {}
    BY DEF Init, Shown, Id
  <2> QED
    BY <2>1, PublicInvInit DEF Exact
<1>2. PublicInv /\ Exact /\ [Next]_vars => (PublicInv /\ Exact)'
  BY PublicInvStep, ExactStep
<1> QED
  BY <1>1, <1>2, PTL DEF Spec

(***************************************************************************)
(* When clients keep to one request per artifact and only forward calls    *)
(* fail, the handlers implement the abstract archive: each create, batch   *)
(* and mutation takes effect at once, or not at all.                       *)
(***************************************************************************)
THEOREM ArchiveImplemented ==
  ASSUME Exclusive = TRUE, Faults \subseteq {"io", "actor"}
  PROVE  Spec => ImplementsArchive
<1>1. Init => Promised!Init
  <2> SUFFICES ASSUME Init PROVE Promised!Init
    OBVIOUS
  <2>1. DOMAIN repo = {} /\ audit = {}
    BY DEF Init
  <2>2. PublicStore = [id \in {} |-> Promised!ZeroArtifact]
    BY <2>1 DEF PublicStore
  <2>3. PublicTrail = {}
    BY <2>1 DEF PublicTrail
  <2> QED
    BY <2>2, <2>3 DEF Promised!Init
<1>2. PublicInv /\ PublicInv' /\ [Next]_vars
        => [Promised!Next]_<<PublicStore, PublicTrail>>
  BY NoneStutters, CreateTakesIn, MutationChanges
<1> QED
  BY <1>1, <1>2, PublicInvariant, PTL DEF Spec, ImplementsArchive, Promised!Spec

(***************************************************************************)
(* Then an artifact that no handler is working on has exactly the trail    *)
(* that explains it, and a failed request has left nothing.                *)
(***************************************************************************)
THEOREM SettledExact ==
  ASSUME Exclusive = TRUE, Faults \subseteq {"io", "actor"}
  PROVE  Spec => []SettledTrailExact
<1>1. PublicInv /\ Exact => SettledTrailExact
  <2> SUFFICES ASSUME PublicInv, Exact PROVE SettledTrailExact
    OBVIOUS
  <2>1. ASSUME NEW id, Settled(id) PROVE id \notin Hidden
    BY <2>1 DEF Settled, Hidden
  <2>2. ASSUME NEW id \in DOMAIN repo, Settled(id)
        PROVE  Explains(Trail(id), repo[id])
    <3>1. id \in Shown
      BY <2>1, <2>2, ShownIff
    <3>2. \A r \in Req : ~Reads(r, id)
      BY <2>2 DEF Settled, Reads, HasRead, Active, Handling, Items, Item
    <3>3. PublicStore[id] = repo[id]
      BY <3>1, <3>2, ViewIs DEF ViewExact
    <3> QED
      BY <3>1, <3>3 DEF Exact
  <2>3. ASSUME NEW e \in audit, Settled(e.artifact)
        PROVE  e.artifact \in DOMAIN repo
    BY <2>1, <2>3, ShownIff
  <2> QED
    BY <2>2, <2>3 DEF SettledTrailExact
<1> QED
  BY <1>1, PublicInvariant, PTL
-----------------------------------------------------------------------------
(***************************************************************************)
(* Why each gap of the trail has an excuse.  A create or a batch whose     *)
(* rollback can write leaves none of its artifacts behind (Tidy), and what *)
(* a maker still at work has stored is in its first version (Fresh), so    *)
(* that erasing its events uncovers nothing but what it made itself.       *)
(***************************************************************************)
Fresh(r) ==
  Creating(r) =>
    /\ \A k \in 1 .. Len(after[r]) : after[r][k].version = 1
    /\ Active(r) => \A id \in StoredOf(r) : repo[id].version = 1

Wrote(r, id, v) ==
  \E k \in 1 .. Len(after[r]) : Item(r, k) = id /\ after[r][k].version = v

Accounted(id, v) ==
  \/ \E e \in audit : e.artifact = id /\ e.version = v
  \/ \E r \in Req : Excused(r) /\ Wrote(r, id, v)

Orderly(r) == Fresh(r) /\ (RollbackFails(r) \/ Tidy(r))

ExcuseInv ==
  /\ AloneInv
  /\ \A r \in Req : Orderly(r)
  /\ \A id \in DOMAIN repo : \A v \in 1 .. repo[id].version : Accounted(id, v)

LEMMA ExcuseInvInit == AloneInv /\ Init => ExcuseInv
<1> SUFFICES ASSUME AloneInv, Init PROVE ExcuseInv
  OBVIOUS
<1>1. DOMAIN repo = {}
  BY DEF Init
<1>2. \A r \in Req : pc[r] = "idle" /\ after[r] = << >>
  BY DEF Init
<1>3. ASSUME NEW r \in Req PROVE Fresh(r) /\ Tidy(r)
  BY <1>2 DEF Fresh, Tidy, Active, Handling
<1> QED
  BY <1>1, <1>3 DEF ExcuseInv, Orderly

\* A context that is cancelled stays so.
LEMMA RollbackFailsStays ==
  ASSUME TypeInv, [Next]_vars, NEW r \in Req, RollbackFails(r)
  PROVE  RollbackFails(r)'
<1>1. gone[r] => gone'[r]
  BY DEF Next, Quiet, Crash, Serve, Arrive, Cancel, Refuse, Prepare, Read,
         ReadFails, Save, SaveFails, File, FileFails, Restore, Withdraw,
         Scrub, Purge, vars, TypeInv, TypeOK
<1> QED
  BY <1>1 DEF RollbackFails

LEMMA FreshStep ==
  ASSUME AloneInv, [Next]_vars, NEW r \in Req, Fresh(r)
  PROVE  Fresh(r)'
<1>1. TypeInv /\ Alone
  BY DEF AloneInv
<1>2. CASE Arrive(r)
  <2>1. after'[r] = << >> /\ after[r] = << >> /\ repo' = repo
    BY <1>1, <1>2 DEF Arrive, TypeInv, Progress, stores
  <2>2. StoredOf(r) = {}
    BY <2>1, OwnItems
  <2>3. StoredOf(r)' = {}
    BY <2>1, <2>2 DEF StoredOf
  <2> QED
    BY <2>1, <2>3 DEF Fresh
<1>3. CASE ~Arrive(r) /\ ~Serve(r)
  <2>1. /\ job'[r] = job[r] /\ after'[r] = after[r]
        /\ (Active(r))' => Active(r)
    BY <1>1, <1>3, Unserved, WasAtWork
  <2>2. ASSUME Active(r), Creating(r), NEW id \in StoredOf(r)'
        PROVE  repo'[id].version = 1
    <3>1. id \in StoredOf(r)
      BY <1>3, <2>2, NoneAdded
    <3>2. PICK k \in 1 .. Len(after[r]) : id = Item(r, k)
      BY <2>2, <3>1, OwnItems DEF Item
    <3>3. id \in DOMAIN repo /\ repo'[id] = repo[id]
      BY <1>1, <1>3, <2>2, <3>1, <3>2, Aside DEF StoredOf
    <3> QED
      BY <2>2, <3>1, <3>3 DEF Fresh
  <2> QED
    BY <2>1, <2>2 DEF Fresh, Creating
<1>4. CASE Prepare(r)
  <2>1. pc[r] = "start" /\ repo' = repo
    BY <1>4 DEF Prepare, stores
  <2>2. StoredOf(r)' = {}
    BY <2>1, OwnItems DEF StoredOf
  <2>3. \A k \in 1 .. Len(after'[r]) : after'[r][k].version = 1
    BY <1>1, <1>4, PreparedCovered
  <2> QED
    BY <2>2, <2>3 DEF Fresh
<1>5. CASE Serve(r) /\ ~Prepare(r) /\ Creating(r)
  <2>1. job'[r] = job[r] /\ after'[r] = after[r] /\ Active(r) /\ ~Arrive(r)
    <3>1. ~Arrive(r) /\ ~Read(r) /\ Active(r)
      BY <1>5 DEF Arrive, Read, Serve, Refuse, ReadFails, Save, SaveFails,
                  File, FileFails, Restore, Withdraw, Scrub, Purge, Active,
                  Handling
    <3> QED
      BY <1>1, <1>5, <3>1, OthersKept
  <2>2. \/ repo' = repo
        \/ repo' = Drop(repo, Item(r, pos[r]))
        \/ /\ repo' = Put(repo, Item(r, pos[r]), after[r][pos[r]])
           /\ pos[r] \in 1 .. Len(after[r])
    <3>1. Save(r) => pos[r] \in 1 .. Len(after[r])
      BY <1>1, Counters DEF Save
    <3> QED
      BY <1>5, <3>1 DEF Serve, Refuse, Read, ReadFails, Save, SaveFails, File,
                        FileFails, Restore, Withdraw, Scrub, Purge, stores
  <2>3. ASSUME NEW id \in StoredOf(r)'
        PROVE  repo'[id].version = 1
    <3>1. \/ id \in StoredOf(r) /\ repo'[id] = repo[id]
          \/ repo'[id] = after[r][pos[r]] /\ pos[r] \in 1 .. Len(after[r])
      BY <2>2, <2>3 DEF StoredOf, Put, Drop
    <3> QED
      BY <1>5, <2>1, <3>1 DEF Fresh
  <2> QED
    BY <1>5, <2>1, <2>3 DEF Fresh
<1>6. CASE Serve(r) /\ ~Creating(r)
  <2>1. ~Arrive(r)
    BY <1>6 DEF Arrive, Serve, Refuse, Prepare, Read, ReadFails, Save,
                SaveFails, File, FileFails, Restore, Withdraw, Scrub, Purge
  <2>2. job'[r] = job[r]
    BY <1>1, <2>1, WasAtWork
  <2> QED
    BY <1>6, <2>2 DEF Fresh, Creating
<1> QED
  BY <1>2, <1>3, <1>4, <1>5, <1>6

LEMMA OrderlyStep ==
  ASSUME AloneInv, AloneInv', [Next]_vars, NEW r \in Req, Orderly(r)
  PROVE  Orderly(r)'
<1>1. Fresh(r)'
  BY FreshStep DEF Orderly
<1>2. CASE RollbackFails(r)
  BY <1>1, <1>2, RollbackFailsStays DEF Orderly, AloneInv
<1>3. CASE ~RollbackFails(r)
  BY <1>1, <1>3, TidyAside, TidyServed DEF Orderly
<1> QED
  BY <1>2, <1>3

\* The maker of an artifact that is there was answered with success, or has
\* an excuse.
MakersExcused ==
  \A id \in DOMAIN repo : pc[id[1]] = "ok" \/ Excused(id[1])

LEMMA MakersHaveExcuse ==
  AloneInv /\ (\A r \in Req : Orderly(r)) => MakersExcused
<1> SUFFICES ASSUME AloneInv, \A r \in Req : Orderly(r),
                    NEW id \in DOMAIN repo, pc[id[1]] # "ok"
             PROVE  Excused(id[1])
  BY DEF MakersExcused
<1>1. Made(id) /\ id \in Id
  BY DEF AloneInv, Alone, TypeInv, TypeOK
<1>2. PICK m \in Req : m = id[1]
  BY <1>1 DEF Id
<1>3. pc[m] \notin {"idle", "start", "ok"}
  BY <1>1, <1>2 DEF AloneInv, TypeInv, Progress, Made
<1>4. pc[m] = "failed" => RollbackFails(m)
  <2>1. id \in StoredOf(m) /\ Creating(m)
    BY <1>1, <1>2 DEF StoredOf, Made
  <2> QED
    BY <2>1 DEF Orderly, Tidy
<1>5. pc[m] \in Handling \union {"failed", "lost"}
  BY <1>3 DEF AloneInv, TypeInv, TypeOK, Ended
<1> QED
  BY <1>2, <1>4, <1>5 DEF Excused, Active

LEMMA BeforeType ==
  ASSUME TypeInv, NEW r \in Req, NEW k \in 1 .. Len(after[r])
  PROVE  before[r][k].version \in Nat
<1>1. before[r][k] \in Artifact \union {ZeroArtifact}
  BY ItemType
<1>2. \A x \in Artifact : x.version \in Nat
  BY DEF Artifact
<1>3. ZeroArtifact.version = 0
  BY DEF ZeroArtifact
<1> QED
  BY <1>1, <1>2, <1>3

\* An event that is erased was of a version that its maker answers for.
LEMMA ErasedExcused ==
  ASSUME AloneInv, AloneInv', [Next]_vars,
         \A r \in Req : Orderly(r), MakersExcused',
         NEW e \in audit \ audit', NEW id, id = e.artifact,
         id \in DOMAIN repo, id \in DOMAIN repo', NEW v \in 1 .. repo[id].version
  PROVE  Accounted(id, v)'
<1>1. id \in Id /\ Made(id) /\ TypeInv /\ TypeInv'
  BY DEF AloneInv, Alone, TypeInv, TypeOK
<1>2. PICK m \in Req : m = id[1]
  BY <1>1 DEF Id
<1>3. job[m].op = "batch" /\ pc[m] \in {"scrub", "purge"}
  BY <1>1, <1>2, ErasedByMaker
<1>4. after[m] # << >> /\ id[2] \in 1 .. Len(after[m]) /\ Creating(m)
  BY <1>1, <1>2, MadeStays DEF Made
<1>5. v = 1 /\ after[m][id[2]].version = 1
  <2>1. repo[id].version = 1 /\ after[m][id[2]].version = 1
    BY <1>2, <1>3, <1>4 DEF Orderly, Fresh, StoredOf, Active, Handling
  <2> QED
    BY <2>1
<1>6. Wrote(m, id, v)'
  <2>1. job'[m] = job[m] /\ after'[m] = after[m]
    BY <1>1, <1>4, HistoryKept
  <2>2. Item(m, id[2])' = id
    BY <1>1, <1>2, <1>4, <2>1 DEF Item, Creating, Id
  <2> QED
    BY <1>4, <1>5, <2>1, <2>2 DEF Wrote
<1>7. Excused(m)'
  <2>1. pc'[m] # "ok"
    <3>1. CASE Serve(m)
      BY <1>1, <1>3, <3>1 DEF Serve, Refuse, Prepare, Read, ReadFails, Save,
         SaveFails, File, FileFails, Restore, Withdraw, Scrub, Purge, Goto,
         TypeInv, TypeOK
    <3>2. CASE ~Serve(m)
      BY <1>1, <1>3, <3>2, Unserved DEF Arrive
    <3> QED
      BY <3>1, <3>2
  <2> QED
    BY <1>2, <2>1 DEF MakersExcused, Excused, Active, RollbackFails
<1> QED
  BY <1>6, <1>7 DEF Accounted

\* What a request with an excuse has made keeps it, as long as it is stored.
LEMMA ExcusedStays ==
  ASSUME AloneInv, AloneInv', [Next]_vars, MakersExcused',
         NEW r \in Req, NEW id \in DOMAIN repo', NEW v \in 1 .. repo'[id].version,
         Excused(r), Wrote(r, id, v)
  PROVE  Accounted(id, v)'
<1>1. TypeInv /\ Alone /\ TypeInv' /\ Held(r) /\ Held(r)'
  BY DEF AloneInv
<1>2. PICK k \in 1 .. Len(after[r]) : Item(r, k) = id /\ after[r][k].version = v
  BY DEF Wrote
<1>3. /\ job'[r] = job[r] /\ before'[r] = before[r] /\ after'[r] = after[r]
      /\ pc[r] \notin {"idle", "start"}
  <2>1. after[r] # << >>
    BY <1>2
  <2> QED
    BY <1>1, <2>1, HistoryKept DEF TypeInv, Progress
<1>4. Wrote(r, id, v)' /\ Item(r, k)' = id /\ Event(r, k)' = Event(r, k)
  BY <1>2, <1>3 DEF Wrote, Item, Event, Creating
<1>5. CASE Excused(r)'
  BY <1>4, <1>5 DEF Accounted
<1>6. CASE pc'[r] = "ok"
  <2>1. Event(r, k) \in audit'
    BY <1>1, <1>2, <1>3, <1>4, <1>6 DEF Held
  <2>2. Event(r, k).artifact = id /\ Event(r, k).version = v
    BY <1>2 DEF Event, NewAuditEvent
  <2> QED
    BY <2>1, <2>2 DEF Accounted
<1>7. CASE Creating(r) /\ pc'[r] # "ok"
  <2>1. id[1] = r
    BY <1>2, <1>7 DEF Item
  <2>2. Excused(r)'
    BY <1>7, <2>1 DEF MakersExcused, Excused, Active, RollbackFails
  <2> QED
    BY <1>5, <2>2
<1>8. CASE ~Creating(r) /\ ~Excused(r)' /\ pc'[r] # "ok"
  <2>1. k = 1 /\ id = job[r].id /\ Len(after[r]) = 1
    BY <1>1, <1>2, <1>8, ItemMade
  <2>2. pc'[r] = "failed" /\ ~RollbackFails(r)'
    <3>1. pc'[r] # "idle"
      BY <1>1, <1>2, <1>3 DEF TypeInv, Progress
    <3> QED
      BY <1>1, <1>8, <3>1 DEF Excused, TypeInv, TypeOK, Active, Ended
  <2>3. ~RollbackFails(r)
    BY <1>1, <2>2, RollbackFailsStays
  <2>4. Active(r) /\ Serve(r)
    <3>1. Active(r)
      BY <1>1, <2>2, <2>3, EndedStays DEF Excused, Ended
    <3> QED
      BY <1>1, <1>3, <2>2, <3>1, Unserved DEF Arrive, Active, Handling
  <2>5. \/ pc[r] = "save" /\ repo' = repo
        \/ pc[r] = "undo" /\ repo' = Put(repo, id, before[r][1])
    <3>1. SaveFails(r) \/ Restore(r)
      BY <1>1, <1>3, <1>8, <2>2, <2>4
         DEF Serve, Refuse, Prepare, Read, ReadFails, Save, File, FileFails,
             Withdraw, Scrub, Purge, Goto, Creating, TypeInv, TypeOK, Progress
    <3> QED
      BY <2>1, <2>3, <3>1 DEF SaveFails, Restore, stores, RollbackFails
  <2>6. repo'[id] = before[r][1] /\ v = before[r][1].version + 1
    BY <1>1, <1>2, <1>8, <2>1, <2>5 DEF Held, HasRead, Put
  <2>7. before[r][1].version \in Nat
    BY <1>1, <1>8, <2>1, BeforeType
  <2> QED
    BY <2>6, <2>7
<1> QED
  BY <1>5, <1>6, <1>7, <1>8

\* A version that was not stored is one that a handler has just saved.
LEMMA RaisedExcused ==
  ASSUME AloneInv, AloneInv', [Next]_vars, \A r \in Req : Orderly(r),
         NEW id \in DOMAIN repo', NEW v \in 1 .. repo'[id].version,
         ~ (id \in DOMAIN repo /\ v \in 1 .. repo[id].version)
  PROVE  Accounted(id, v)'
<1>1. TypeInv /\ Alone /\ TypeInv' /\ \A r \in Req : Held(r)
  BY DEF AloneInv
<1>2. PICK r \in Req : /\ Save(r) \/ Restore(r)
                       /\ pos[r] \in 1 .. Len(after[r])
                       /\ id = Item(r, pos[r])
  <2>1. PICK r \in Req : Save(r) \/ Restore(r) \/ Withdraw(r)
    BY DEF Next, Quiet, Crash, Serve, Arrive, Cancel, Prepare, Read,
           Refuse, ReadFails, SaveFails, File, FileFails, Scrub, Purge,
           stores, vars
  <2>2. id = Item(r, pos[r]) /\ (Save(r) \/ Restore(r))
    BY <2>1 DEF Save, Restore, Withdraw, Put, Drop, Item
  <2>3. pc[r] \in {"save", "undo"}
    BY <2>2 DEF Save, Restore
  <2> QED
    BY <1>1, <2>2, <2>3, Counters
<1>3. PICK k \in 1 .. Len(after[r]) : k = pos[r]
  BY <1>2
<1>4. ASSUME ~Creating(r)
      PROVE  /\ k = 1 /\ id = job[r].id /\ HasRead(r) /\ id \in DOMAIN repo
             /\ repo[id] = IF pc[r] = "save" THEN before[r][1] ELSE after[r][1]
             /\ after[r][1].version = before[r][1].version + 1
             /\ before[r][1].version \in Nat
  <2>1. k = 1 /\ id = job[r].id /\ Len(after[r]) = 1
    BY <1>1, <1>2, <1>3, <1>4, ItemMade
  <2>2. HasRead(r)
    BY <1>2, <1>4 DEF HasRead, Save, Restore
  <2> QED
    BY <1>1, <1>4, <2>1, <2>2, BeforeType DEF Held
<1>5. Save(r)
  <2> SUFFICES ASSUME Restore(r) PROVE FALSE
    BY <1>2
  <2>1. ~Creating(r) /\ pc[r] = "undo" /\ (repo' = repo \/ repo' = Put(repo, id, before[r][1]))
    BY <1>4 DEF Restore
  <2>2. repo'[id] = before[r][1] \/ repo' = repo
    BY <2>1 DEF Put
  <2>3. repo[id].version = before[r][1].version + 1
    BY <1>4, <2>1
  <2> QED
    BY <1>4, <2>1, <2>2, <2>3
<1>6. /\ pc[r] = "save" /\ repo'[id] = after[r][k]
      /\ UNCHANGED <<job, after>>
  BY <1>2, <1>3, <1>5 DEF Save, Put, work
<1>7. v = after[r][k].version
  <2>1. CASE Creating(r)
    BY <1>3, <1>6, <2>1 DEF Orderly, Fresh
  <2>2. CASE ~Creating(r)
    <3>1. DEFINE b == before[r][1].version
    <3>2. b \in Nat /\ v \in 1 .. b + 1 /\ v \notin 1 .. b
      BY <1>4, <1>6, <2>2
    <3>3. v = b + 1
      BY <3>2
    <3> QED
      BY <1>4, <2>2, <3>3
  <2> QED
    BY <2>1, <2>2
<1>8. Excused(r)'
  <2>1. pc'[r] \in {"save", "append"}
    BY <1>1, <1>5 DEF Save, Goto, TypeInv, TypeOK
  <2> QED
    BY <2>1 DEF Excused, Active, Handling
<1>9. Wrote(r, id, v)'
  <2>1. Item(r, k)' = id
    BY <1>2, <1>3, <1>6 DEF Item, Creating
  <2> QED
    BY <1>3, <1>6, <1>7, <2>1 DEF Wrote
<1> QED
  BY <1>8, <1>9 DEF Accounted

LEMMA ExcuseInvStep ==
  ASSUME Exclusive = TRUE, ExcuseInv, [Next]_vars
  PROVE  ExcuseInv'
<1>1. AloneInv /\ AloneInv'
  BY AloneInvStep DEF ExcuseInv
<1>2. (\A r \in Req : Orderly(r)) /\ (\A r \in Req : Orderly(r))'
  BY <1>1, OrderlyStep DEF ExcuseInv
<1>3. MakersExcused'
  BY <1>1, <1>2, MakersHaveExcuse, PTL
<1>4. ASSUME NEW id \in DOMAIN repo', NEW v \in 1 .. repo'[id].version
      PROVE  Accounted(id, v)'
  <2>1. CASE ~ (id \in DOMAIN repo /\ v \in 1 .. repo[id].version)
    BY <1>1, <1>2, <1>4, <2>1, RaisedExcused
  <2>2. CASE id \in DOMAIN repo /\ v \in 1 .. repo[id].version
    <3>1. Accounted(id, v)
      BY <2>2 DEF ExcuseInv
    <3>2. ASSUME NEW e \in audit, e.artifact = id, e.version = v
          PROVE  Accounted(id, v)'
      <4>1. CASE e \in audit'
        BY <3>2, <4>1 DEF Accounted
      <4>2. CASE e \notin audit'
        BY <1>1, <1>2, <1>3, <1>4, <2>2, <3>2, <4>2, ErasedExcused
      <4> QED
        BY <4>1, <4>2
    <3>3. ASSUME NEW r \in Req, Excused(r), Wrote(r, id, v)
          PROVE  Accounted(id, v)'
      BY <1>1, <1>3, <1>4, <3>3, ExcusedStays
    <3> QED
      BY <3>1, <3>2, <3>3 DEF Accounted
  <2> QED
    BY <2>1, <2>2
<1> QED
  BY <1>1, <1>2, <1>4 DEF ExcuseInv

(***************************************************************************)
(* When clients keep to one request per artifact, whatever fails and       *)
(* whenever the process dies, a stored version without an event is of a    *)
(* request that is still at work, died, or failed with a rollback that     *)
(* could not write.                                                        *)
(***************************************************************************)
THEOREM GapsHaveReasons ==
  ASSUME Exclusive = TRUE
  PROVE  Spec => []GapsExcused
<1>1. ExcuseInv => GapsExcused
  BY DEF ExcuseInv, Accounted, Wrote, GapsExcused
<1>2. ExcuseInv /\ [Next]_vars => ExcuseInv'
  BY ExcuseInvStep
<1>3. Spec => Init /\ [][Next]_vars
  BY DEF Spec
<1> QED
  BY <1>1, <1>2, <1>3, ExcuseInvInit, AloneInvariant, PTL
=============================================================================

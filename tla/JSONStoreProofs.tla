--------------------------- MODULE JSONStoreProofs ---------------------------
(***************************************************************************)
(* The stores of package storage keep their types, their memory agrees     *)
(* with their file, the file can always be loaded, what they answered is   *)
(* durable, and they implement the atomic store of module Store.           *)
(***************************************************************************)
EXTENDS JSONStore, Integers, TLAPS

(***************************************************************************)
(* Contents, and what the calls do to them.                                *)
(***************************************************************************)
LEMMA ContentsMap ==
  ASSUME NEW c \in Contents
  PROVE  DOMAIN c \subseteq Id /\ c \in [DOMAIN c -> Value]
<1>1. PICK ids \in SUBSET Id : c \in [ids -> Value]
  BY DEF Contents
<1> QED
  BY <1>1

LEMMA MapContents ==
  ASSUME NEW ids \in SUBSET Id, NEW c \in [ids -> Value]
  PROVE  c \in Contents
BY DEF Contents

LEMMA EmptyContents == Empty \in Contents
<1>1. Empty \in [{} -> Value]
  BY DEF Empty
<1> QED
  BY <1>1, MapContents

LEMMA SelectType ==
  ASSUME NEW c \in Contents, NEW ids \in SUBSET DOMAIN c
  PROVE  Select(c, ids) \in Contents
<1>1. Select(c, ids) \in [ids -> Value]
  BY ContentsMap DEF Select
<1>2. ids \in SUBSET Id
  BY ContentsMap
<1> QED
  BY <1>1, <1>2, MapContents

LEMMA PutType ==
  ASSUME NEW c \in Contents, NEW id \in Id, NEW v \in Value
  PROVE  Put(c, id, v) \in Contents
<1>1. Put(c, id, v) \in [DOMAIN c \union {id} -> Value]
  BY ContentsMap DEF Put
<1>2. DOMAIN c \union {id} \in SUBSET Id
  BY ContentsMap
<1> QED
  BY <1>1, <1>2, MapContents

LEMMA WriteShape ==
  ASSUME NEW call \in Writes
  PROVE  /\ call.op \in {"Save", "Append", "Delete", "DeleteByArtifact"}
         /\ call.op \in {"Save", "Append"} =>
              call.id \in Id /\ call.value \in Value \union {Junk}
BY DEF Writes

LEMMA ReadShape ==
  ASSUME NEW call \in Reads
  PROVE  call.op \in {"Get", "List", "ListByArtifact", "ListAll"}
BY DEF Reads

LEMMA CallIsNone ==
  /\ NoCall \notin Calls
  /\ Reads \intersect Writes = {}
<1>1. \A call \in Calls : call.op # "none"
  BY WriteShape, ReadShape DEF Calls
<1>2. NoCall.op = "none"
  BY DEF NoCall
<1>3. \A call \in Reads : call \notin Writes
  BY WriteShape, ReadShape
<1> QED
  BY <1>1, <1>2, <1>3

LEMMA ResultType ==
  ASSUME NEW c \in Contents, NEW call \in Writes, Valid(call)
  PROVE  Result(c, call) \in Contents
<1>1. CASE call.op \in {"Save", "Append"}
  <2>1. Result(c, call) = Put(c, call.id, call.value)
    BY <1>1 DEF Result
  <2>2. call.id \in Id /\ call.value \in Value
    BY <1>1, WriteShape DEF Valid
  <2> QED
    BY <2>1, <2>2, PutType
<1>2. CASE call.op = "Delete"
  <2>1. Result(c, call) = Select(c, DOMAIN c \ {call.id})
    BY <1>2 DEF Result
  <2> QED
    BY <2>1, SelectType
<1>3. CASE call.op = "DeleteByArtifact"
  <2>1. Result(c, call) = Select(c, {x \in DOMAIN c : c[x] # call.value})
    BY <1>3 DEF Result
  <2> QED
    BY <2>1, SelectType
<1> QED
  BY <1>1, <1>2, <1>3, WriteShape

LEMMA FoundType ==
  ASSUME NEW c \in Contents, NEW call \in Reads
  PROVE  Found(c, call) \in Contents
<1>1. CASE call.op = "Get"
  <2>1. Found(c, call) = Select(c, DOMAIN c \intersect {call.id})
    BY <1>1 DEF Found
  <2> QED
    BY <2>1, SelectType
<1>2. CASE call.op = "ListByArtifact"
  <2>1. Found(c, call) = Select(c, {x \in DOMAIN c : c[x] = call.value})
    BY <1>2 DEF Found
  <2> QED
    BY <2>1, SelectType
<1>3. CASE call.op \in {"List", "ListAll"}
  BY <1>3 DEF Found
<1> QED
  BY <1>1, <1>2, <1>3, ReadShape

LEMMA AnswersType ==
  ASSUME NEW c \in Contents, NEW call \in Reads, NEW g, NEW a \in Answers(c, call, g)
  PROVE  a \in Answer /\ a # Open
<1>1. PICK items : a = [is |-> "found", items |-> items] /\ items \in Contents
  BY FoundType, SelectType DEF Answers
<1>2. a.is = "found" /\ Open.is = "open"
  BY <1>1 DEF Open, Says
<1> QED
  BY <1>1, <1>2 DEF Answer

LEMMA SaysType ==
  \A word \in {"ok", "error"} : Says(word) \in Answer /\ Says(word) # Open
<1>1. \A word \in {"ok", "error"} : Says(word) \in Answer
  BY EmptyContents DEF Says, Answer
<1>2. \A word \in {"ok", "error"} : Says(word).is # Open.is
  BY DEF Says, Open
<1> QED
  BY <1>1, <1>2

LEMMA OpenType == Open \in Answer
BY EmptyContents DEF Open, Says, Answer

-----------------------------------------------------------------------------
(***************************************************************************)
(* The inductive invariant: what the call of a goroutine is at each of its *)
(* steps, who holds the locks, and how memory, file and disk are related.  *)
(***************************************************************************)
Called(p) ==
  /\ pc[p] = "idle" <=> pending[p] = NoCall
  /\ pc[p] \notin {"idle", "begin", "done"} => Valid(pending[p])
  /\ pc[p] = "read" => pending[p] \in Reads
  /\ pc[p] \in {"drain"} \union InGate => pending[p] \in Writes
  /\ pc[p] \in {"lock", "read", "drain"} \union InGate => loaded
  /\ pc[p] \in {"install", "done"} <=> answer[p] # Open

Locked ==
  /\ \A p \in Proc : p \in loader <=> pc[p] = "loading"
  /\ \A p \in Proc : p \in readers <=> pc[p] = "read"
  /\ \A p \in Proc : p \in writer <=> pc[p] \in {"drain"} \union InGate
  /\ \A p, q \in loader : p = q
  /\ \A p, q \in writer : p = q
  /\ loader # {} => ~loaded
  /\ \A p \in Proc : pc[p] \in InGate => readers = {}

Coherent ==
  /\ CacheCoherent
  /\ \A p \in Proc : pc[p] = "loading" => next[p] = file
  /\ \A p \in Proc :
       pc[p] \in {"sync", "rename", "flush", "install"} =>
         Accepts(values, pending[p]) /\ next[p] = Result(values, pending[p])
  /\ \A p \in Proc : pc[p] \in {"flush", "install"} => file = next[p]

Durable ==
  /\ AlwaysLoadable
  /\ \A p \in Proc : pc[p] = "rename" => temp = "synced"
  /\ AnsweredDurable
  /\ {"dirsync", "crash"} \intersect Faults = {} =>
       \A p \in Proc : pc[p] = "flush" => disk \subseteq {values, file}

StoreInv ==
  /\ TypeOK
  /\ \A p \in Proc : Called(p)
  /\ Locked
  /\ Coherent
  /\ Durable

(***************************************************************************)
(* Callers.                                                                *)
(***************************************************************************)
LEMMA CallKeeps ==
  ASSUME StoreInv, NEW p \in Proc, Call(p)
  PROVE  StoreInv'
<1> USE DEF Call, Goto, memory, locks, filesystem
<1>1. TypeOK'
  BY CallIsNone DEF StoreInv, TypeOK, InGate
<1>2. ASSUME NEW q \in Proc PROVE Called(q)'
  BY CallIsNone, <1>1 DEF StoreInv, TypeOK, Called, InGate
<1>3. Locked'
  BY DEF StoreInv, TypeOK, Called, Locked, InGate
<1>4. Coherent'
  BY DEF StoreInv, TypeOK, Called, Locked, Coherent, CacheCoherent, InGate
<1>5. Durable'
  BY DEF StoreInv, TypeOK, Locked, Coherent, CacheCoherent, Durable,
         AlwaysLoadable, AnsweredDurable, InGate
<1> QED
  BY <1>1, <1>2, <1>3, <1>4, <1>5 DEF StoreInv

LEMMA CancelKeeps ==
  ASSUME StoreInv, NEW p \in Proc, Cancel(p)
  PROVE  StoreInv'
<1> USE DEF Cancel, memory, locks, filesystem
<1>1. TypeOK'
  BY DEF StoreInv, TypeOK, InGate
<1>2. ASSUME NEW q \in Proc PROVE Called(q)'
  BY <1>1 DEF StoreInv, TypeOK, Called, InGate
<1>3. Locked'
  BY DEF StoreInv, TypeOK, Called, Locked, InGate
<1>4. Coherent'
  BY DEF StoreInv, TypeOK, Called, Locked, Coherent, CacheCoherent, InGate
<1>5. Durable'
  BY DEF StoreInv, TypeOK, Locked, Coherent, CacheCoherent, Durable,
         AlwaysLoadable, AnsweredDurable, InGate
<1> QED
  BY <1>1, <1>2, <1>3, <1>4, <1>5 DEF StoreInv

LEMMA ReturnKeeps ==
  ASSUME StoreInv, NEW p \in Proc, Return(p)
  PROVE  StoreInv'
<1> USE DEF Return, Goto, memory, locks, filesystem
<1>1. TypeOK'
  BY CallIsNone, EmptyContents, OpenType DEF StoreInv, TypeOK, InGate
<1>2. ASSUME NEW q \in Proc PROVE Called(q)'
  BY CallIsNone, EmptyContents, OpenType, <1>1 DEF StoreInv, TypeOK, Called, InGate
<1>3. Locked'
  BY DEF StoreInv, TypeOK, Called, Locked, InGate
<1>4. Coherent'
  BY DEF StoreInv, TypeOK, Called, Locked, Coherent, CacheCoherent, InGate
<1>5. Durable'
  BY DEF StoreInv, TypeOK, Locked, Coherent, CacheCoherent, Durable,
         AlwaysLoadable, AnsweredDurable, InGate
<1> QED
  BY <1>1, <1>2, <1>3, <1>4, <1>5 DEF StoreInv

(***************************************************************************)
(* The first steps of every call.                                          *)
(***************************************************************************)
LEMMA BeginKeeps ==
  ASSUME StoreInv, NEW p \in Proc, Begin(p)
  PROVE  StoreInv'
<1> USE DEF Begin, Goto, memory, locks, filesystem, calls
<1>1. TypeOK'
  BY DEF StoreInv, TypeOK, InGate
<1>2. ASSUME NEW q \in Proc PROVE Called(q)'
  BY <1>1 DEF StoreInv, TypeOK, Called, InGate
<1>3. Locked'
  BY DEF StoreInv, TypeOK, Called, Locked, InGate
<1>4. Coherent'
  BY DEF StoreInv, TypeOK, Called, Locked, Coherent, CacheCoherent, InGate
<1>5. Durable'
  BY DEF StoreInv, TypeOK, Locked, Coherent, CacheCoherent, Durable,
         AlwaysLoadable, AnsweredDurable, InGate
<1> QED
  BY <1>1, <1>2, <1>3, <1>4, <1>5 DEF StoreInv

LEMMA BeginFailsKeeps ==
  ASSUME StoreInv, NEW p \in Proc, BeginFails(p)
  PROVE  StoreInv'
<1> USE DEF BeginFails, Finish, memory, locks, filesystem, Goto
<1>1. TypeOK'
  BY SaysType DEF StoreInv, TypeOK, InGate
<1>2. ASSUME NEW q \in Proc PROVE Called(q)'
  BY SaysType, <1>1 DEF StoreInv, TypeOK, Called, InGate
<1>3. Locked'
  BY DEF StoreInv, TypeOK, Called, Locked, InGate
<1>4. Coherent'
  BY DEF StoreInv, TypeOK, Called, Locked, Coherent, CacheCoherent, InGate
<1>5. Durable'
  BY DEF StoreInv, TypeOK, Locked, Coherent, CacheCoherent, Durable,
         AlwaysLoadable, AnsweredDurable, InGate
<1> QED
  BY <1>1, <1>2, <1>3, <1>4, <1>5 DEF StoreInv

LEMMA AlreadyLoadedKeeps ==
  ASSUME StoreInv, NEW p \in Proc, AlreadyLoaded(p)
  PROVE  StoreInv'
<1> USE DEF AlreadyLoaded, Goto, memory, locks, filesystem, calls
<1>1. TypeOK'
  BY DEF StoreInv, TypeOK, InGate
<1>2. ASSUME NEW q \in Proc PROVE Called(q)'
  BY <1>1 DEF StoreInv, TypeOK, Called, InGate
<1>3. Locked'
  BY DEF StoreInv, TypeOK, Called, Locked, InGate
<1>4. Coherent'
  BY DEF StoreInv, TypeOK, Called, Locked, Coherent, CacheCoherent, InGate
<1>5. Durable'
  BY DEF StoreInv, TypeOK, Locked, Coherent, CacheCoherent, Durable,
         AlwaysLoadable, AnsweredDurable, InGate
<1> QED
  BY <1>1, <1>2, <1>3, <1>4, <1>5 DEF StoreInv

LEMMA LoadKeeps ==
  ASSUME StoreInv, NEW p \in Proc, Load(p)
  PROVE  StoreInv'
<1> USE DEF Load, Goto, memory, filesystem, calls
<1>1. TypeOK'
  BY DEF StoreInv, TypeOK, InGate
<1>2. ASSUME NEW q \in Proc PROVE Called(q)'
  BY <1>1 DEF StoreInv, TypeOK, Called, InGate
<1>3. Locked'
  BY DEF StoreInv, TypeOK, Called, Locked, InGate
<1>4. Coherent'
  BY DEF StoreInv, TypeOK, Called, Locked, Coherent, CacheCoherent, InGate
<1>5. Durable'
  BY DEF StoreInv, TypeOK, Locked, Coherent, CacheCoherent, Durable,
         AlwaysLoadable, AnsweredDurable, InGate
<1> QED
  BY <1>1, <1>2, <1>3, <1>4, <1>5 DEF StoreInv

LEMMA LoadFailsKeeps ==
  ASSUME StoreInv, NEW p \in Proc, LoadFails(p)
  PROVE  StoreInv'
<1> USE DEF LoadFails, Finish, memory, locks, filesystem, Goto
<1>1. TypeOK'
  BY SaysType DEF StoreInv, TypeOK, InGate
<1>2. ASSUME NEW q \in Proc PROVE Called(q)'
  BY SaysType, <1>1 DEF StoreInv, TypeOK, Called, InGate
<1>3. Locked'
  BY DEF StoreInv, TypeOK, Called, Locked, InGate
<1>4. Coherent'
  BY DEF StoreInv, TypeOK, Called, Locked, Coherent, CacheCoherent, InGate
<1>5. Durable'
  BY DEF StoreInv, TypeOK, Locked, Coherent, CacheCoherent, Durable,
         AlwaysLoadable, AnsweredDurable, InGate
<1> QED
  BY <1>1, <1>2, <1>3, <1>4, <1>5 DEF StoreInv

LEMMA LoadedKeeps ==
  ASSUME StoreInv, NEW p \in Proc, Loaded(p)
  PROVE  StoreInv'
<1> USE DEF Loaded, Goto, filesystem, calls
<1>1. TypeOK'
  BY DEF StoreInv, TypeOK, InGate
<1>2. ASSUME NEW q \in Proc PROVE Called(q)'
  BY <1>1 DEF StoreInv, TypeOK, Called, InGate
<1>3. Locked'
  BY DEF StoreInv, TypeOK, Called, Locked, InGate
<1>4. Coherent'
  BY DEF StoreInv, TypeOK, Called, Locked, Coherent, CacheCoherent, InGate
<1>5. Durable'
  <2>1. \A q \in Proc : pc[q] # "flush"
    BY DEF StoreInv, Called, Locked, InGate
  <2> QED
    BY <2>1 DEF StoreInv, TypeOK, Durable, AlwaysLoadable, AnsweredDurable
<1> QED
  BY <1>1, <1>2, <1>3, <1>4, <1>5 DEF StoreInv

(***************************************************************************)
(* The reading calls.                                                      *)
(***************************************************************************)
LEMMA RLockKeeps ==
  ASSUME StoreInv, NEW p \in Proc, RLock(p)
  PROVE  StoreInv'
<1> USE DEF RLock, Goto, memory, filesystem, calls
<1>1. TypeOK'
  BY DEF StoreInv, TypeOK, InGate
<1>2. ASSUME NEW q \in Proc PROVE Called(q)'
  BY <1>1 DEF StoreInv, TypeOK, Called, InGate
<1>3. Locked'
  BY DEF StoreInv, TypeOK, Called, Locked, InGate
<1>4. Coherent'
  BY DEF StoreInv, TypeOK, Called, Locked, Coherent, CacheCoherent, InGate
<1>5. Durable'
  BY DEF StoreInv, TypeOK, Locked, Coherent, CacheCoherent, Durable,
         AlwaysLoadable, AnsweredDurable, InGate
<1> QED
  BY <1>1, <1>2, <1>3, <1>4, <1>5 DEF StoreInv

LEMMA LookKeeps ==
  ASSUME StoreInv, NEW p \in Proc, Look(p)
  PROVE  StoreInv'
<1> USE DEF Look, Finish, memory, filesystem, Goto
<1>1. TypeOK'
  <2>1. PICK a \in Answers(values, pending[p], gone[p]) :
          answer' = [answer EXCEPT ![p] = a] /\ pc' = [pc EXCEPT ![p] = "done"]
    OBVIOUS
  <2>2. a \in Answer /\ a # Open
    BY AnswersType DEF StoreInv, TypeOK, Called
  <2> QED
    BY <2>1, <2>2 DEF StoreInv, TypeOK
<1>2. ASSUME NEW q \in Proc PROVE Called(q)'
  <2>1. PICK a \in Answers(values, pending[p], gone[p]) :
          answer' = [answer EXCEPT ![p] = a] /\ pc' = [pc EXCEPT ![p] = "done"]
    OBVIOUS
  <2>2. a \in Answer /\ a # Open
    BY AnswersType DEF StoreInv, TypeOK, Called
  <2> QED
    BY <2>1, <2>2 DEF StoreInv, TypeOK, Called, InGate
<1>3. Locked'
  BY DEF StoreInv, TypeOK, Called, Locked, InGate
<1>4. Coherent'
  BY DEF StoreInv, TypeOK, Called, Locked, Coherent, CacheCoherent, InGate
<1>5. Durable'
  BY DEF StoreInv, TypeOK, Locked, Coherent, CacheCoherent, Durable,
         AlwaysLoadable, AnsweredDurable, InGate
<1> QED
  BY <1>1, <1>2, <1>3, <1>4, <1>5 DEF StoreInv

(***************************************************************************)
(* The writing calls.                                                      *)
(***************************************************************************)
LEMMA LockKeeps ==
  ASSUME StoreInv, NEW p \in Proc, Lock(p)
  PROVE  StoreInv'
<1> USE DEF Lock, Goto, memory, filesystem, calls
<1>1. TypeOK'
  BY DEF StoreInv, TypeOK, InGate
<1>2. ASSUME NEW q \in Proc PROVE Called(q)'
  BY <1>1 DEF StoreInv, TypeOK, Called, InGate
<1>3. Locked'
  BY DEF StoreInv, TypeOK, Called, Locked, InGate
<1>4. Coherent'
  BY DEF StoreInv, TypeOK, Called, Locked, Coherent, CacheCoherent, InGate
<1>5. Durable'
  BY DEF StoreInv, TypeOK, Locked, Coherent, CacheCoherent, Durable,
         AlwaysLoadable, AnsweredDurable, InGate
<1> QED
  BY <1>1, <1>2, <1>3, <1>4, <1>5 DEF StoreInv

LEMMA DrainedKeeps ==
  ASSUME StoreInv, NEW p \in Proc, Drained(p)
  PROVE  StoreInv'
<1> USE DEF Drained, Goto, memory, locks, filesystem, calls
<1>1. TypeOK'
  BY DEF StoreInv, TypeOK, InGate
<1>2. ASSUME NEW q \in Proc PROVE Called(q)'
  BY <1>1 DEF StoreInv, TypeOK, Called, InGate
<1>3. Locked'
  BY DEF StoreInv, TypeOK, Called, Locked, InGate
<1>4. Coherent'
  BY DEF StoreInv, TypeOK, Called, Locked, Coherent, CacheCoherent, InGate
<1>5. Durable'
  BY DEF StoreInv, TypeOK, Locked, Coherent, CacheCoherent, Durable,
         AlwaysLoadable, AnsweredDurable, InGate
<1> QED
  BY <1>1, <1>2, <1>3, <1>4, <1>5 DEF StoreInv

LEMMA RejectKeeps ==
  ASSUME StoreInv, NEW p \in Proc, Reject(p)
  PROVE  StoreInv'
<1> USE DEF Reject, Finish, Unlock, memory, filesystem, Goto
<1>1. TypeOK'
  BY SaysType DEF StoreInv, TypeOK, InGate
<1>2. ASSUME NEW q \in Proc PROVE Called(q)'
  BY SaysType, <1>1 DEF StoreInv, TypeOK, Called, InGate
<1>3. Locked'
  BY DEF StoreInv, TypeOK, Called, Locked, InGate
<1>4. Coherent'
  BY DEF StoreInv, TypeOK, Called, Locked, Coherent, CacheCoherent, InGate
<1>5. Durable'
  BY DEF StoreInv, TypeOK, Locked, Coherent, CacheCoherent, Durable,
         AlwaysLoadable, AnsweredDurable, InGate
<1> QED
  BY <1>1, <1>2, <1>3, <1>4, <1>5 DEF StoreInv

LEMMA NothingToDeleteKeeps ==
  ASSUME StoreInv, NEW p \in Proc, NothingToDelete(p)
  PROVE  StoreInv'
<1> USE DEF NothingToDelete, Finish, Unlock, memory, filesystem, Goto
<1>1. TypeOK'
  BY SaysType DEF StoreInv, TypeOK, InGate
<1>2. ASSUME NEW q \in Proc PROVE Called(q)'
  BY SaysType, <1>1 DEF StoreInv, TypeOK, Called, InGate
<1>3. Locked'
  BY DEF StoreInv, TypeOK, Called, Locked, InGate
<1>4. Coherent'
  BY DEF StoreInv, TypeOK, Called, Locked, Coherent, CacheCoherent, InGate
<1>5. Durable'
  BY DEF StoreInv, TypeOK, Locked, Coherent, CacheCoherent, Durable,
         AlwaysLoadable, AnsweredDurable, InGate
<1> QED
  BY <1>1, <1>2, <1>3, <1>4, <1>5 DEF StoreInv

LEMMA WriteTempKeeps ==
  ASSUME StoreInv, NEW p \in Proc, WriteTemp(p)
  PROVE  StoreInv'
<1> USE DEF WriteTemp, Goto, memory, locks, calls
<1>1. TypeOK'
  <2>1. Result(values, pending[p]) \in Contents
    BY ResultType DEF StoreInv, TypeOK, Called, InGate
  <2> QED
    BY <2>1 DEF StoreInv, TypeOK, InGate
<1>2. ASSUME NEW q \in Proc PROVE Called(q)'
  BY <1>1 DEF StoreInv, TypeOK, Called, InGate
<1>3. Locked'
  BY DEF StoreInv, TypeOK, Called, Locked, InGate
<1>4. Coherent'
  <2>1. Accepts(values, pending[p])
    BY DEF Changes
  <2>2. next' = [next EXCEPT ![p] = Result(values, pending[p])]
    OBVIOUS
  <2>3. CacheCoherent'
    BY DEF StoreInv, TypeOK, Locked, Coherent, CacheCoherent, InGate
  <2> QED
    BY <2>1, <2>2, <2>3 DEF StoreInv, TypeOK, Locked, Coherent, InGate
<1>5. Durable'
  BY DEF StoreInv, TypeOK, Locked, Coherent, CacheCoherent, Durable,
         AlwaysLoadable, AnsweredDurable, InGate
<1> QED
  BY <1>1, <1>2, <1>3, <1>4, <1>5 DEF StoreInv

LEMMA SyncTempKeeps ==
  ASSUME StoreInv, NEW p \in Proc, SyncTemp(p)
  PROVE  StoreInv'
<1> USE DEF SyncTemp, Goto, memory, locks, calls
<1>1. TypeOK'
  BY DEF StoreInv, TypeOK, InGate
<1>2. ASSUME NEW q \in Proc PROVE Called(q)'
  BY <1>1 DEF StoreInv, TypeOK, Called, InGate
<1>3. Locked'
  BY DEF StoreInv, TypeOK, Called, Locked, InGate
<1>4. Coherent'
  BY DEF StoreInv, TypeOK, Called, Locked, Coherent, CacheCoherent, InGate
<1>5. Durable'
  BY DEF StoreInv, TypeOK, Locked, Coherent, CacheCoherent, Durable,
         AlwaysLoadable, AnsweredDurable, InGate
<1> QED
  BY <1>1, <1>2, <1>3, <1>4, <1>5 DEF StoreInv

LEMMA WriteFailsKeeps ==
  ASSUME StoreInv, NEW p \in Proc, WriteFails(p)
  PROVE  StoreInv'
<1> USE DEF WriteFails, Finish, Unlock, memory, Goto
<1>1. TypeOK'
  BY SaysType DEF StoreInv, TypeOK, InGate
<1>2. ASSUME NEW q \in Proc PROVE Called(q)'
  BY SaysType, <1>1 DEF StoreInv, TypeOK, Called, InGate
<1>3. Locked'
  BY DEF StoreInv, TypeOK, Called, Locked, InGate
<1>4. Coherent'
  BY DEF StoreInv, TypeOK, Called, Locked, Coherent, CacheCoherent, InGate
<1>5. Durable'
  BY DEF StoreInv, TypeOK, Locked, Coherent, CacheCoherent, Durable,
         AlwaysLoadable, AnsweredDurable, InGate
<1> QED
  BY <1>1, <1>2, <1>3, <1>4, <1>5 DEF StoreInv

LEMMA RenameKeeps ==
  ASSUME StoreInv, NEW p \in Proc, Rename(p)
  PROVE  StoreInv'
<1> USE DEF Rename, Goto, memory, locks, calls
<1>1. TypeOK'
  BY DEF StoreInv, TypeOK, InGate
<1>2. ASSUME NEW q \in Proc PROVE Called(q)'
  BY <1>1 DEF StoreInv, TypeOK, Called, InGate
<1>3. Locked'
  BY DEF StoreInv, TypeOK, Called, Locked, InGate
<1>4. Coherent'
  BY DEF StoreInv, TypeOK, Called, Locked, Coherent, CacheCoherent, InGate
<1>5. Durable'
  <2>1. AlwaysLoadable'
    BY DEF StoreInv, TypeOK, Durable, AlwaysLoadable
  <2>2. \A q \in Proc : pc[q] \notin {"flush", "install"} /\ (q # p => pc[q] # "rename")
    BY DEF StoreInv, Locked, InGate
  <2>3. values = file /\ loaded
    BY <2>2 DEF StoreInv, Called, Coherent, CacheCoherent, InGate
  <2>4. AnsweredDurable'
    BY DEF StoreInv, TypeOK, AnsweredDurable
  <2>5. ASSUME {"dirsync", "crash"} \intersect Faults = {}
        PROVE  disk' \subseteq {values', file'}
    <3>1. disk = {file} /\ temp = "synced"
      BY <2>2, <2>5 DEF StoreInv, Durable, AnsweredDurable
    <3> QED
      BY <2>3, <3>1
  <2> QED
    BY <2>1, <2>2, <2>4, <2>5 DEF StoreInv, TypeOK, Durable
<1> QED
  BY <1>1, <1>2, <1>3, <1>4, <1>5 DEF StoreInv

LEMMA SyncDirectoryKeeps ==
  ASSUME StoreInv, NEW p \in Proc, SyncDirectory(p)
  PROVE  StoreInv'
<1> USE DEF SyncDirectory, Goto, memory, locks
<1>1. TypeOK'
  BY SaysType DEF StoreInv, TypeOK, InGate
<1>2. ASSUME NEW q \in Proc PROVE Called(q)'
  BY SaysType, <1>1 DEF StoreInv, TypeOK, Called, InGate
<1>3. Locked'
  BY DEF StoreInv, TypeOK, Called, Locked, InGate
<1>4. Coherent'
  BY DEF StoreInv, TypeOK, Called, Locked, Coherent, CacheCoherent, InGate
<1>5. Durable'
  BY DEF StoreInv, TypeOK, Locked, Coherent, CacheCoherent, Durable,
         AlwaysLoadable, AnsweredDurable, InGate
<1> QED
  BY <1>1, <1>2, <1>3, <1>4, <1>5 DEF StoreInv

LEMMA InstallKeeps ==
  ASSUME StoreInv, NEW p \in Proc, Install(p)
  PROVE  StoreInv'
<1> USE DEF Install, Goto, Unlock, filesystem, calls
<1>1. TypeOK'
  BY DEF StoreInv, TypeOK, InGate
<1>2. ASSUME NEW q \in Proc PROVE Called(q)'
  BY <1>1 DEF StoreInv, TypeOK, Called, InGate
<1>3. Locked'
  BY DEF StoreInv, TypeOK, Called, Locked, InGate
<1>4. Coherent'
  BY DEF StoreInv, TypeOK, Called, Locked, Coherent, CacheCoherent, InGate
<1>5. Durable'
  BY DEF StoreInv, TypeOK, Locked, Coherent, CacheCoherent, Durable,
         AlwaysLoadable, AnsweredDurable, InGate
<1> QED
  BY <1>1, <1>2, <1>3, <1>4, <1>5 DEF StoreInv

(***************************************************************************)
(* The deaths of the process and the machine.                              *)
(***************************************************************************)

LEMMA RestartKeeps ==
  ASSUME StoreInv, Restart, disk' \subseteq Contents, file' \in Contents,
         {"dirsync", "crash"} \intersect Faults = {} => disk' = {file'}
  PROVE  StoreInv'
<1> USE DEF Restart
<1>1. TypeOK'
  BY EmptyContents, OpenType DEF TypeOK
<1>2. ASSUME NEW q \in Proc PROVE Called(q)'
  BY DEF Called, InGate
<1>3. Locked'
  BY DEF Locked, InGate
<1>4. Coherent'
  BY DEF Coherent, CacheCoherent
<1>5. Durable'
  BY DEF Durable, AlwaysLoadable, AnsweredDurable
<1> QED
  BY <1>1, <1>2, <1>3, <1>4, <1>5 DEF StoreInv

LEMMA CrashKeeps ==
  ASSUME StoreInv, Crash
  PROVE  StoreInv'
<1>1. disk' \subseteq Contents /\ file' \in Contents
  BY DEF StoreInv, Durable, AlwaysLoadable, Crash
<1> QED
  BY <1>1, RestartKeeps DEF Crash

LEMMA PowerFailsKeeps ==
  ASSUME StoreInv, PowerFails
  PROVE  StoreInv'
<1>1. disk' = {file'} /\ file' \in Contents
  BY DEF StoreInv, Durable, AlwaysLoadable, PowerFails
<1> QED
  BY <1>1, RestartKeeps DEF PowerFails

LEMMA StoreInvInit == Init => StoreInv
<1> SUFFICES ASSUME Init PROVE StoreInv
  OBVIOUS
<1> USE DEF Init
<1>1. TypeOK
  BY EmptyContents, OpenType DEF TypeOK
<1>2. ASSUME NEW q \in Proc PROVE Called(q)
  BY DEF Called, InGate
<1>3. Locked
  BY DEF Locked, InGate
<1>4. Coherent
  BY DEF Coherent, CacheCoherent
<1>5. Durable
  BY EmptyContents DEF Durable, AlwaysLoadable, AnsweredDurable
<1> QED
  BY <1>1, <1>2, <1>3, <1>4, <1>5 DEF StoreInv

LEMMA StoreInvStep == StoreInv /\ [Next]_vars => StoreInv'
<1> SUFFICES ASSUME StoreInv, [Next]_vars PROVE StoreInv'
  OBVIOUS
<1>1. ASSUME NEW p \in Proc, Call(p) \/ Cancel(p) PROVE StoreInv'
  BY <1>1, CallKeeps, CancelKeeps
<1>2. ASSUME NEW p \in Proc, Acquire(p) PROVE StoreInv'
  BY <1>2, AlreadyLoadedKeeps, LoadKeeps, LoadFailsKeeps, RLockKeeps, LockKeeps
     DEF Acquire
<1>3. ASSUME NEW p \in Proc, Work(p) PROVE StoreInv'
  BY <1>3, BeginKeeps, BeginFailsKeeps, LoadedKeeps, LookKeeps, DrainedKeeps,
     RejectKeeps, NothingToDeleteKeeps, WriteTempKeeps, SyncTempKeeps,
     WriteFailsKeeps, RenameKeeps, SyncDirectoryKeeps, InstallKeeps, ReturnKeeps
     DEF Work
<1>4. CASE UNCHANGED vars
  <2> USE <1>4 DEF vars, memory, locks, filesystem, calls
  <2>1. TypeOK'
    BY DEF StoreInv, TypeOK
  <2>2. ASSUME NEW q \in Proc PROVE Called(q)'
    BY DEF StoreInv, Called
  <2>3. Locked'
    BY DEF StoreInv, Locked
  <2>4. Coherent'
    BY DEF StoreInv, Coherent, CacheCoherent
  <2>5. Durable'
    BY DEF StoreInv, Durable, AlwaysLoadable, AnsweredDurable
  <2> QED
    BY <2>1, <2>2, <2>3, <2>4, <2>5 DEF StoreInv
<1> QED
  BY <1>1, <1>2, <1>3, <1>4, CrashKeeps, PowerFailsKeeps DEF Next

THEOREM StoreInvariant == Spec => []StoreInv
<1> QED
  BY StoreInvInit, StoreInvStep, PTL DEF Spec

-----------------------------------------------------------------------------
(***************************************************************************)
(* The variables of both stores keep their types: what ensureLoaded takes  *)
(* from the file and what a call writes and answers are contents of valid  *)
(* records.                                                                *)
(***************************************************************************)
THEOREM StoreTyped == Spec => []TypeOK
<1>1. StoreInv => TypeOK
  BY DEF StoreInv
<1> QED
  BY <1>1, StoreInvariant, PTL

(***************************************************************************)
(* With loadMu and the gate, no goroutine finds memory and file apart.     *)
(***************************************************************************)
THEOREM MemoryMatchesFile == Spec => []CacheCoherent
<1>1. StoreInv => CacheCoherent
  BY DEF StoreInv, Coherent
<1> QED
  BY <1>1, StoreInvariant, PTL

(***************************************************************************)
(* writeFileAtomic never leaves a file that ensureLoaded would reject.     *)
(***************************************************************************)
THEOREM FileLoads == Spec => []AlwaysLoadable
<1>1. StoreInv => AlwaysLoadable
  BY DEF StoreInv, Durable
<1> QED
  BY <1>1, StoreInvariant, PTL

(***************************************************************************)
(* writeFileAtomic, where the directory can be synced, makes a change      *)
(* durable before the call that asked for it is answered.                  *)
(***************************************************************************)
THEOREM AnswersLast == Spec => []AnsweredDurable
<1>1. StoreInv => AnsweredDurable
  BY DEF StoreInv, Durable
<1> QED
  BY <1>1, StoreInvariant, PTL

-----------------------------------------------------------------------------
(***************************************************************************)
(* The safety side of EveryCallReturns: some call can always go on, and no *)
(* call goes on for ever.                                                  *)
(***************************************************************************)
\* Whoever takes a step was ready.
LEMMA OnlyReadyMove ==
  ASSUME NEW p \in Proc, Acquire(p) \/ Work(p)
  PROVE  Ready(p)
<1>1. CASE Acquire(p)
  BY <1>1 DEF Acquire, AlreadyLoaded, Load, LoadFails, RLock, Lock, Ready
<1>2. CASE Work(p)
  BY <1>2 DEF Work, Begin, BeginFails, Loaded, Look, Drained, Reject,
              NothingToDelete, WriteTemp, SyncTemp, WriteFails, Rename,
              SyncDirectory, Install, Return, Ready
<1> QED
  BY <1>1, <1>2

(***************************************************************************)
(* The goroutine that another one waits for is at work itself: loadMu is   *)
(* held only to load, the gate is held for reading only to read, and a     *)
(* writer that waits keeps out new readers, not the ones that are in.      *)
(***************************************************************************)
THEOREM StoreNeverStuck == Spec => []NeverStuck
<1>1. StoreInv => NeverStuck
  <2> SUFFICES ASSUME StoreInv, NEW p \in Proc, pc[p] # "idle"
               PROVE  \E q \in Proc : Ready(q)
    BY DEF NeverStuck
  <2> USE DEF StoreInv, Locked, TypeOK
  <2>1. CASE \E q \in Proc : q \in loader
    <3>1. PICK q \in Proc : q \in loader
      BY <2>1
    <3>2. pc[q] = "loading"
      BY <3>1
    <3> QED
      BY <3>2 DEF Ready
  <2>2. CASE \E q \in Proc : q \in readers
    <3>1. PICK q \in Proc : q \in readers
      BY <2>2
    <3>2. pc[q] = "read"
      BY <3>1
    <3> QED
      BY <3>2 DEF Ready
  <2>3. CASE readers = {} /\ \E q \in Proc : q \in writer
    <3>1. PICK q \in Proc : q \in writer
      BY <2>3
    <3>2. pc[q] \in {"drain"} \union InGate
      BY <3>1
    <3> QED
      BY <2>3, <3>2 DEF Ready, InGate
  <2>4. CASE loader = {} /\ readers = {} /\ writer = {}
    BY <2>4 DEF Ready
  <2> QED
    BY <2>1, <2>2, <2>3, <2>4
<1> QED
  BY <1>1, StoreInvariant, PTL

\* How many steps a call has before it at most.
StepsLeft(label) ==
  CASE label = "idle"    -> 0
    [] label = "done"    -> 1
    [] label = "install" -> 2
    [] label = "flush"   -> 3
    [] label = "rename"  -> 4
    [] label = "sync"    -> 5
    [] label = "write"   -> 6
    [] label = "drain"   -> 7
    [] label = "read"    -> 7
    [] label = "lock"    -> 8
    [] label = "loading" -> 9
    [] label = "load"    -> 10
    [] label = "begin"   -> 11

\* No call is ever sent back, and each of its own steps is one less.
CallsAdvance ==
  [][\A p \in Proc : pc[p] # "idle" =>
       /\ StepsLeft(pc'[p]) <= StepsLeft(pc[p])
       /\ Acquire(p) \/ Work(p) => StepsLeft(pc'[p]) < StepsLeft(pc[p])]_vars

LEMMA StepAdvances ==
  ASSUME TypeOK, NEW p \in Proc, Acquire(p) \/ Work(p)
  PROVE  /\ StepsLeft(pc'[p]) < StepsLeft(pc[p])
         /\ \A q \in Proc \ {p} : pc'[q] = pc[q]
<1> USE DEF TypeOK, InGate, Goto, Finish, StepsLeft
<1>1. CASE Acquire(p)
  BY <1>1 DEF Acquire, AlreadyLoaded, Load, LoadFails, RLock, Lock
<1>2. CASE Begin(p) \/ BeginFails(p) \/ Loaded(p) \/ Look(p) \/ Drained(p)
  BY <1>2 DEF Begin, BeginFails, Loaded, Look, Drained
<1>3. CASE Reject(p) \/ NothingToDelete(p) \/ WriteTemp(p) \/ SyncTemp(p)
  BY <1>3 DEF Reject, NothingToDelete, WriteTemp, SyncTemp
<1>4. CASE WriteFails(p) \/ Rename(p) \/ SyncDirectory(p) \/ Install(p)
             \/ Return(p)
  BY <1>4 DEF WriteFails, Rename, SyncDirectory, Install, Return
<1> QED
  BY <1>1, <1>2, <1>3, <1>4 DEF Work

(***************************************************************************)
(* No step of any goroutine, and no failure, sends a call back: neither    *)
(* ensureLoaded nor writeFileAtomic tries again within a call, and a call  *)
(* is over after eleven steps of its own.                                  *)
(***************************************************************************)
THEOREM CallsComeToAnEnd == Spec => CallsAdvance
<1> DEFINE A(p) == pc[p] # "idle" =>
              /\ StepsLeft(pc'[p]) <= StepsLeft(pc[p])
              /\ Acquire(p) \/ Work(p) => StepsLeft(pc'[p]) < StepsLeft(pc[p])
<1>1. ASSUME TypeOK, [Next]_vars, NEW p \in Proc, pc[p] # "idle"
      PROVE  A(p)
  <2>1. StepsLeft(pc[p]) \in 1 .. 11
    BY <1>1 DEF TypeOK, InGate, StepsLeft
  <2>2. CASE Acquire(p) \/ Work(p)
    <3>1. pc'[p] = "idle" \/ pc'[p] \in {"begin", "load", "loading", "lock",
                                         "read", "drain", "done"} \union InGate
      BY <1>1, <2>2 DEF Acquire, AlreadyLoaded, Load, LoadFails, RLock, Lock,
           Work, Begin, BeginFails, Loaded, Look, Drained, Reject,
           NothingToDelete, WriteTemp, SyncTemp, WriteFails, Rename,
           SyncDirectory, Install, Return, Goto, Finish, TypeOK, InGate
    <3>2. StepsLeft(pc'[p]) \in Int
      BY <3>1 DEF InGate, StepsLeft
    <3>3. StepsLeft(pc'[p]) < StepsLeft(pc[p])
      BY <1>1, <2>2, StepAdvances
    <3> QED
      BY <2>1, <3>2, <3>3
  <2>3. CASE ~(Acquire(p) \/ Work(p))
    <3>1. pc'[p] = pc[p] \/ pc'[p] = "idle"
      <4>1. ASSUME NEW q \in Proc, Call(q) \/ Cancel(q)
            PROVE  pc'[p] = pc[p]
        BY <1>1, <4>1 DEF Call, Cancel, Goto, TypeOK
      <4>2. ASSUME NEW q \in Proc, Acquire(q) \/ Work(q)
            PROVE  pc'[p] = pc[p]
        BY <1>1, <2>3, <4>2, StepAdvances
      <4>3. CASE Crash \/ PowerFails
        BY <4>3 DEF Crash, PowerFails, Restart
      <4>4. CASE UNCHANGED vars
        BY <4>4 DEF vars
      <4> QED
        BY <1>1, <4>1, <4>2, <4>3, <4>4 DEF Next
    <3>2. StepsLeft("idle") = 0
      BY DEF StepsLeft
    <3>3. StepsLeft(pc'[p]) = StepsLeft(pc[p]) \/ StepsLeft(pc'[p]) = 0
      BY <3>1, <3>2
    <3> QED
      BY <2>1, <2>3, <3>3
  <2> QED
    BY <2>2, <2>3
<1>2. TypeOK /\ [Next]_vars => \A p \in Proc : A(p)
  BY <1>1
<1>3. TypeOK /\ [Next]_vars => [\A p \in Proc : A(p)]_vars
  BY <1>2
<1> QED
  BY <1>3, StoreTyped, PTL DEF Spec, CallsAdvance

-----------------------------------------------------------------------------
(***************************************************************************)
(* The refinement.  Promised has its own copies of the operators of        *)
(* StoreCalls; they are the same.                                          *)
(***************************************************************************)
LEMMA SameCalls ==
  /\ Promised!NoCall = NoCall /\ Promised!Open = Open /\ Promised!Empty = Empty
  /\ Promised!Reads = Reads /\ Promised!Writes = Writes /\ Promised!Calls = Calls
  /\ \A word : Promised!Says(word) = Says(word)
  /\ \A call : Promised!Valid(call) <=> Valid(call)
<1>1. Promised!Empty = Empty
  BY DEF Promised!Empty, Empty
<1>2. \A word : Promised!Says(word) = Says(word)
  BY <1>1 DEF Promised!Says, Says
<1>3. Promised!Open = Open
  BY <1>2 DEF Promised!Open, Open
<1>4. Promised!NoCall = NoCall
  BY DEF Promised!NoCall, NoCall
<1>5. Promised!Reads = Reads /\ Promised!Writes = Writes
  BY DEF Promised!Reads, Promised!Writes, Reads, Writes
<1>6. Promised!Calls = Calls
  BY <1>5 DEF Promised!Calls, Calls
<1>7. \A call : Promised!Valid(call) <=> Valid(call)
  BY DEF Promised!Valid, Valid
<1> QED
  BY <1>1, <1>2, <1>3, <1>4, <1>5, <1>6, <1>7

LEMMA SameEffects ==
  ASSUME NEW c, NEW call
  PROVE  /\ Promised!Accepts(c, call) <=> Accepts(c, call)
         /\ Promised!Result(c, call) = Result(c, call)
         /\ \A g : Promised!Answers(c, call, g) = Answers(c, call, g)
<1>1. Promised!Accepts(c, call) <=> Accepts(c, call)
  BY DEF Promised!Accepts, Accepts
<1>2. Promised!Result(c, call) = Result(c, call)
  BY DEF Promised!Result, Promised!Select, Promised!Put, Result, Select, Put
<1>3. \A g : Promised!Answers(c, call, g) = Answers(c, call, g)
  BY DEF Promised!Answers, Promised!Found, Promised!Select, Answers, Found, Select
<1> QED
  BY <1>1, <1>2, <1>3

(***************************************************************************)
(* What the callers see is the file while nothing is being flushed, and    *)
(* the memory wherever a goroutine looks at it.                            *)
(***************************************************************************)
LEMMA VisibleFile ==
  (\A p \in Proc : pc[p] # "flush") => Visible = file
BY DEF Visible

LEMMA VisibleMemory ==
  ASSUME StoreInv, NEW p \in Proc, pc[p] \in {"read", "write", "sync", "rename", "flush"}
  PROVE  Visible = values
<1>1. CASE pc[p] = "flush"
  BY <1>1 DEF Visible
<1>2. CASE pc[p] # "flush"
  <2>1. \A q \in Proc : pc[q] \notin {"flush", "install"}
    BY <1>2 DEF StoreInv, Locked, InGate
  <2>2. loaded
    BY DEF StoreInv, Called, InGate
  <2> QED
    BY <2>1, <2>2, VisibleFile DEF StoreInv, Coherent, CacheCoherent
<1> QED
  BY <1>1, <1>2

\* A step that the callers do not see.
LEMMA Unseen ==
  ASSUME UNCHANGED calls, Visible' = Visible
  PROVE  UNCHANGED <<Visible, pending, answer, gone>>
BY DEF calls

\* A step that does not touch memory and file, or begin or end a flush.
LEMMA SameVisible ==
  ASSUME StoreInv, UNCHANGED <<values, file>>, NEW p \in Proc, NEW label,
         pc' = [pc EXCEPT ![p] = label], pc[p] # "flush", label # "flush"
  PROVE  Visible' = Visible
<1>1. \A q \in Proc : pc'[q] = "flush" <=> pc[q] = "flush"
  BY DEF StoreInv, TypeOK
<1> QED
  BY <1>1 DEF Visible

LEMMA CallStarts ==
  ASSUME StoreInv, NEW p \in Proc, Call(p)
  PROVE  Promised!Start(p)
<1>1. Visible' = Visible
  BY SameVisible DEF Call, Goto, memory, filesystem
<1>2. pending[p] = NoCall
  BY DEF StoreInv, Called, Call
<1> QED
  BY <1>1, <1>2, SameCalls DEF Call, Promised!Start

LEMMA CancelCancels ==
  ASSUME StoreInv, NEW p \in Proc, Cancel(p)
  PROVE  Promised!Cancel(p)
<1>1. Visible' = Visible
  BY DEF Visible, Cancel, memory, filesystem
<1>2. pending[p] # NoCall
  BY DEF StoreInv, Called, Cancel
<1>3. gone' = [gone EXCEPT ![p] = TRUE]
  BY DEF Cancel
<1> QED
  BY <1>1, <1>2, <1>3, SameCalls DEF Cancel, Promised!Cancel

LEMMA ReturnReturns ==
  ASSUME StoreInv, NEW p \in Proc, Return(p)
  PROVE  Promised!Return(p)
<1>1. Visible' = Visible
  BY SameVisible DEF Return, Goto, memory, filesystem
<1>2. pending[p] # NoCall /\ answer[p] # Open
  BY DEF StoreInv, Called, Return
<1> QED
  BY <1>1, <1>2, SameCalls DEF Return, Promised!Return

\* Every way a call ends in an error.
LEMMA ErrorsFail ==
  ASSUME StoreInv, NEW p \in Proc,
         BeginFails(p) \/ LoadFails(p) \/ Reject(p) \/ WriteFails(p)
  PROVE  Promised!Fail(p)
<1>1. /\ pc[p] \in {"begin", "load", "write", "sync", "rename"}
      /\ pc' = [pc EXCEPT ![p] = "done"]
      /\ answer' = [answer EXCEPT ![p] = Says("error")]
      /\ UNCHANGED <<values, file, pending, gone>>
  BY DEF BeginFails, LoadFails, Reject, WriteFails, Finish, Goto, memory,
         filesystem, locks
<1>2. Visible' = Visible
  BY <1>1, SameVisible
<1>3. pending[p] # NoCall /\ answer[p] = Open
  BY <1>1 DEF StoreInv, Called
<1> QED
  BY <1>1, <1>2, <1>3, SameCalls DEF Promised!Fail, Promised!Waits

LEMMA LookLooks ==
  ASSUME StoreInv, NEW p \in Proc, Look(p)
  PROVE  Promised!Look(p)
<1>1. PICK a \in Answers(values, pending[p], gone[p]) :
        answer' = [answer EXCEPT ![p] = a] /\ pc' = [pc EXCEPT ![p] = "done"]
  BY DEF Look, Finish, Goto
<1>2. Visible' = Visible
  BY <1>1, SameVisible DEF Look, memory, filesystem
<1>3. Visible = values
  BY VisibleMemory DEF Look
<1>4. pending[p] \in Reads /\ pending[p] # NoCall /\ answer[p] = Open
  BY DEF StoreInv, Called, Look
<1>5. a \in Promised!Answers(Visible, pending[p], gone[p])
  BY <1>1, <1>3, SameEffects
<1>6. UNCHANGED <<Visible, pending, gone>>
  BY <1>2 DEF Look
<1> QED
  BY <1>1, <1>4, <1>5, <1>6, SameCalls DEF Promised!Look, Promised!Waits

\* The two ways a writing call takes effect.
LEMMA CanApplyNow ==
  ASSUME StoreInv, NEW p \in Proc, pc[p] \in {"write", "flush"},
         Accepts(values, pending[p])
  PROVE  /\ Promised!CanApply(p)
         /\ Promised!Result(Visible, pending[p]) = Result(values, pending[p])
<1>1. Visible = values
  BY VisibleMemory
<1>2. /\ pending[p] \in Writes /\ Valid(pending[p])
      /\ pending[p] # NoCall /\ answer[p] = Open
  BY DEF StoreInv, Called, InGate
<1> QED
  BY <1>1, <1>2, SameCalls, SameEffects DEF Promised!CanApply, Promised!Waits

LEMMA NothingToDeleteApplies ==
  ASSUME StoreInv, NEW p \in Proc, NothingToDelete(p)
  PROVE  Promised!Apply(p)
<1>1. Accepts(values, pending[p])
  BY DEF NothingToDelete, Accepts
<1>2. Visible' = Visible
  BY SameVisible DEF NothingToDelete, Finish, Goto, memory, filesystem
<1>3. Visible = values
  BY VisibleMemory DEF NothingToDelete
<1> QED
  BY <1>1, <1>2, <1>3, CanApplyNow, SameCalls
     DEF NothingToDelete, Finish, Promised!Apply

LEMMA SyncDirectoryApplies ==
  ASSUME StoreInv, NEW p \in Proc, SyncDirectory(p)
  PROVE  Promised!Apply(p)
<1>1. /\ Accepts(values, pending[p])
      /\ file = Result(values, pending[p])
  BY DEF StoreInv, Coherent, SyncDirectory
<1>2. \A q \in Proc : pc'[q] # "flush"
  BY DEF StoreInv, TypeOK, Locked, SyncDirectory, Goto, InGate
<1>3. Visible' = file
  BY <1>2 DEF Visible, SyncDirectory
<1>4. pc[p] \in {"write", "flush"}
  BY DEF SyncDirectory
<1> QED
  BY <1>1, <1>3, <1>4, CanApplyNow, SameCalls DEF SyncDirectory, Promised!Apply

\* The steps between, which the callers do not see.
LEMMA HiddenSteps ==
  ASSUME StoreInv, NEW p \in Proc,
         \/ Begin(p) \/ AlreadyLoaded(p) \/ Load(p) \/ Loaded(p) \/ RLock(p)
         \/ Lock(p) \/ Drained(p) \/ WriteTemp(p) \/ SyncTemp(p) \/ Rename(p)
         \/ Install(p)
  PROVE  UNCHANGED <<Visible, pending, answer, gone>>
<1>1. CASE \/ Begin(p) \/ AlreadyLoaded(p) \/ Load(p) \/ RLock(p) \/ Lock(p)
           \/ Drained(p) \/ WriteTemp(p) \/ SyncTemp(p)
  <2>1. /\ UNCHANGED <<values, file, calls>>
        /\ pc[p] # "flush"
        /\ \E label \in {"load", "lock", "loading", "read", "drain", "write",
                         "sync", "rename"} : pc' = [pc EXCEPT ![p] = label]
    BY <1>1 DEF Begin, AlreadyLoaded, Load, RLock, Lock, Drained, WriteTemp,
                SyncTemp, Goto, memory, filesystem, locks
  <2> QED
    BY <2>1, SameVisible, Unseen
<1>2. CASE Loaded(p)
  <2>1. \A q \in Proc : pc[q] # "flush" /\ pc'[q] # "flush"
    BY <1>2 DEF StoreInv, TypeOK, Called, Locked, Loaded, Goto, InGate
  <2>2. Visible' = Visible
    BY <1>2, <2>1 DEF Visible, Loaded, filesystem
  <2> QED
    BY <1>2, <2>2, Unseen DEF Loaded
<1>3. CASE Rename(p)
  <2>1. Visible = values
    BY <1>3, VisibleMemory DEF Rename
  <2>2. pc'[p] = "flush" /\ values' = values
    BY <1>3 DEF StoreInv, TypeOK, Rename, Goto, memory
  <2>3. Visible' = values
    BY <2>2 DEF Visible
  <2> QED
    BY <1>3, <2>1, <2>3, Unseen DEF Rename
<1>4. CASE Install(p)
  <2>1. \A q \in Proc : pc[q] # "flush" /\ pc'[q] # "flush"
    BY <1>4 DEF StoreInv, TypeOK, Locked, Install, Goto, InGate
  <2>2. Visible' = Visible
    BY <1>4, <2>1 DEF Visible, Install, filesystem
  <2> QED
    BY <1>4, <2>2, Unseen DEF Install
<1> QED
  BY <1>1, <1>2, <1>3, <1>4

\* A file found after a death is the one the callers saw, or has the one
\* change that was on its way to them.
LEMMA DeathCrashes ==
  ASSUME StoreInv, Restart, file' = Visible \/ file' = file
  PROVE  Promised!Crash
<1>1. Visible' = file'
  BY DEF Visible, Restart
<1>2. \/ UNCHANGED Visible
      \/ \E p \in Proc : Promised!CanApply(p)
           /\ Visible' = Promised!Result(Visible, pending[p])
  <2>1. CASE Visible' = Visible
    BY <2>1
  <2>2. CASE Visible' # Visible
    <3>1. PICK p \in Proc : pc[p] = "flush"
      BY <1>1, <2>2, VisibleFile
    <3>2. Accepts(values, pending[p]) /\ file = Result(values, pending[p])
      BY <3>1 DEF StoreInv, Coherent
    <3>3. file' = file
      BY <1>1, <2>2
    <3> QED
      BY <1>1, <3>1, <3>2, <3>3, CanApplyNow
  <2> QED
    BY <2>1, <2>2
<1> QED
  BY <1>2, SameCalls DEF Restart, Promised!Crash

LEMMA CrashCrashes == StoreInv /\ Crash => Promised!Crash
BY DeathCrashes DEF Crash

LEMMA PowerFailsCrashes ==
  ASSUME StoreInv, PowerFails, {"dirsync", "crash"} \intersect Faults = {}
  PROVE  Promised!Crash
<1>1. CASE \E p \in Proc : pc[p] = "flush"
  <2>1. Visible = values /\ disk \subseteq {values, file}
    BY <1>1 DEF Visible, StoreInv, Durable
  <2> QED
    BY <2>1, DeathCrashes DEF PowerFails
<1>2. CASE \A p \in Proc : pc[p] # "flush"
  <2>1. disk = {file}
    BY <1>2 DEF StoreInv, Durable, AnsweredDurable
  <2> QED
    BY <2>1, DeathCrashes DEF PowerFails
<1> QED
  BY <1>1, <1>2

LEMMA StoreSimulates ==
  ASSUME StoreInv, [Next]_vars,
         "power" \in Faults => {"dirsync", "crash"} \intersect Faults = {}
  PROVE  [Promised!Next]_<<Visible, pending, answer, gone>>
<1>1. ASSUME NEW p \in Proc, Call(p) \/ Cancel(p) \/ Acquire(p) \/ Work(p)
      PROVE  \/ UNCHANGED <<Visible, pending, answer, gone>>
             \/ Promised!Start(p) \/ Promised!Cancel(p) \/ Promised!Apply(p)
             \/ Promised!Look(p) \/ Promised!Fail(p) \/ Promised!Return(p)
  <2>1. CASE Call(p) \/ Cancel(p)
    BY <2>1, CallStarts, CancelCancels
  <2>2. CASE Acquire(p)
    BY <2>2, HiddenSteps, ErrorsFail DEF Acquire
  <2>3. CASE Work(p)
    BY <2>3, HiddenSteps, ErrorsFail, LookLooks, NothingToDeleteApplies,
       SyncDirectoryApplies, ReturnReturns DEF Work
  <2> QED
    BY <1>1, <2>1, <2>2, <2>3
<1>2. CASE UNCHANGED vars
  BY <1>2 DEF Visible, vars, memory, filesystem, calls
<1>3. CASE Crash
  BY <1>3, CrashCrashes DEF Promised!Next
<1>4. CASE PowerFails
  BY <1>4, PowerFailsCrashes DEF PowerFails, Promised!Next
<1>5. CASE \E p \in Proc : Call(p) \/ Cancel(p) \/ Acquire(p) \/ Work(p)
  BY <1>1, <1>5 DEF Promised!Next
<1> QED
  BY <1>2, <1>3, <1>4, <1>5 DEF Next

LEMMA StoreStarts == Init => Promised!Init
<1> SUFFICES ASSUME Init PROVE Promised!Init
  OBVIOUS
<1>1. Visible = Empty
  BY DEF Visible, Init
<1> QED
  BY <1>1, SameCalls DEF Init, Promised!Init

(***************************************************************************)
(* Both stores are atomic for their callers, as package catalog takes them *)
(* to be: whatever the file system fails to do and whenever the process    *)
(* dies, and also when the machine does, if directories can be synced and  *)
(* the process had not died shortly before.                                *)
(***************************************************************************)
THEOREM StoreIsAtomic ==
  ASSUME "power" \in Faults => {"dirsync", "crash"} \intersect Faults = {}
  PROVE  Spec => ImplementsStore
<1>1. StoreInv /\ [Next]_vars => [Promised!Next]_<<Visible, pending, answer, gone>>
  BY StoreSimulates
<1> QED
  BY <1>1, StoreStarts, StoreInvariant, PTL
     DEF Spec, ImplementsStore, Promised!Spec
=============================================================================

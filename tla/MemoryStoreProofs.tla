-------------------------- MODULE MemoryStoreProofs -------------------------
(***************************************************************************)
(* The memory stores implement the atomic store, for any goroutines,       *)
(* identifiers and values and both kinds.  Promised has its own copies of  *)
(* the operators of StoreCalls; they are the same.                         *)
(***************************************************************************)
EXTENDS MemoryStore, TLAPS

LEMMA SameCalls ==
  /\ Promised!NoCall = NoCall /\ Promised!Open = Open /\ Promised!Empty = Empty
  /\ Promised!Reads = Reads /\ Promised!Writes = Writes /\ Promised!Calls = Calls
  /\ \A word : Promised!Says(word) = Says(word)
  /\ \A call : Promised!Valid(call) <=> Valid(call)
<1>1. Promised!Empty = Empty
  BY DEF Promised!Empty, Empty
<1>2. \A word : Promised!Says(word) = Says(word)
  BY <1>1 DEF Promised!Says, Says
<1>3. Promised!Open = Open
  BY <1>2 DEF Promised!Open, Open
<1>4. Promised!NoCall = NoCall
  BY DEF Promised!NoCall, NoCall
<1>5. Promised!Reads = Reads /\ Promised!Writes = Writes
  BY DEF Promised!Reads, Promised!Writes, Reads, Writes
<1>6. Promised!Calls = Calls
  BY <1>5 DEF Promised!Calls, Calls
<1>7. \A call : Promised!Valid(call) <=> Valid(call)
  BY DEF Promised!Valid, Valid
<1> QED
  BY <1>1, <1>2, <1>3, <1>4, <1>5, <1>6, <1>7

LEMMA SameEffects ==
  ASSUME NEW c, NEW call
  PROVE  /\ Promised!Accepts(c, call) <=> Accepts(c, call)
         /\ Promised!Result(c, call) = Result(c, call)
         /\ \A g : Promised!Answers(c, call, g) = Answers(c, call, g)
<1>1. Promised!Accepts(c, call) <=> Accepts(c, call)
  BY DEF Promised!Accepts, Accepts
<1>2. Promised!Result(c, call) = Result(c, call)
  BY DEF Promised!Result, Promised!Select, Promised!Put, Result, Select, Put
<1>3. \A g : Promised!Answers(c, call, g) = Answers(c, call, g)
  BY DEF Promised!Answers, Promised!Found, Promised!Select, Answers, Found, Select
<1> QED
  BY <1>1, <1>2, <1>3

-----------------------------------------------------------------------------
\* A goroutine past its checks is in a valid call that is still open.
CheckedOpen ==
  \A p \in checked :
    p \in Proc /\ pending[p] # NoCall /\ answer[p] = Open /\ Valid(pending[p])

Shape ==
  /\ pending \in [Proc -> Calls \union {NoCall}]
  /\ DOMAIN answer = Proc
  /\ values = [x \in DOMAIN values |-> values[x]]
  /\ CheckedOpen

(***************************************************************************)
(* The memory stores are atomic stores too: each call takes effect in its  *)
(* closure, or not at all, although the context is only looked at before.  *)
(***************************************************************************)
THEOREM MemoryIsAtomic == Spec => ImplementsStore
<1>1. Init => Shape /\ Promised!Init
  BY SameCalls DEF Init, Empty, Shape, CheckedOpen, Promised!Init
<1>2. Shape /\ [Next]_vars => Shape'
  <2> SUFFICES ASSUME Shape, [Next]_vars PROVE Shape'
    OBVIOUS
  <2>1. ASSUME NEW p \in Proc, Call(p) PROVE Shape'
    BY <2>1 DEF Call, Shape, CheckedOpen
  <2>2. ASSUME NEW p \in Proc, Cancel(p) PROVE Shape'
    BY <2>2 DEF Cancel, Shape, CheckedOpen
  <2>3. ASSUME NEW p \in Proc, Begin(p) \/ BeginFails(p) PROVE Shape'
    BY <2>3 DEF Begin, BeginFails, Begins, Finish, Shape, CheckedOpen
  <2>4. ASSUME NEW p \in Proc, Write(p) \/ Read(p) PROVE Shape'
    <3>1. CASE UNCHANGED values
      BY <2>4, <3>1 DEF Write, Read, Finish, Shape, CheckedOpen
    <3>2. CASE Write(p) /\ values' = Result(values, pending[p])
      <4>1. pending[p].op \in {"Save", "Append", "Delete", "DeleteByArtifact"}
        BY <3>2 DEF Write, Writes
      <4>2. values' = [x \in DOMAIN values' |-> values'[x]]
        BY <3>2, <4>1 DEF Result, Put, Select
      <4> QED
        BY <3>2, <4>2 DEF Write, Finish, Shape, CheckedOpen
    <3> QED
      BY <2>4, <3>1, <3>2 DEF Write, Read
  <2>5. ASSUME NEW p \in Proc, Return(p) PROVE Shape'
    BY <2>5 DEF Return, Shape, CheckedOpen
  <2>6. CASE UNCHANGED vars
    BY <2>6 DEF vars, Shape, CheckedOpen
  <2> QED
    BY <2>1, <2>2, <2>3, <2>4, <2>5, <2>6 DEF Next
<1>3. Shape /\ [Next]_vars
        => [Promised!Next]_<<values, pending, answer, gone>>
  <2> SUFFICES ASSUME Shape, Next
               PROVE  [Promised!Next]_<<values, pending, answer, gone>>
    BY DEF vars
  <2>1. ASSUME NEW p \in Proc, Call(p) PROVE Promised!Start(p)
    BY <2>1, SameCalls DEF Call, Promised!Start
  <2>2. ASSUME NEW p \in Proc, Cancel(p) PROVE Promised!Cancel(p)
    BY <2>2, SameCalls DEF Cancel, Promised!Cancel
  <2>3. ASSUME NEW p \in Proc, Begin(p)
        PROVE  UNCHANGED <<values, pending, answer, gone>>
    BY <2>3 DEF Begin
  <2>4. ASSUME NEW p \in Proc, BeginFails(p) PROVE Promised!Fail(p)
    BY <2>4, SameCalls DEF BeginFails, Begins, Finish, Promised!Fail, Promised!Waits
  <2>5. ASSUME NEW p \in Proc, Write(p)
        PROVE  Promised!Apply(p) \/ Promised!Fail(p)
    BY <2>5, SameCalls, SameEffects
       DEF Write, Finish, Shape, CheckedOpen, Promised!Apply,
           Promised!CanApply, Promised!Fail, Promised!Waits
  <2>6. ASSUME NEW p \in Proc, Read(p) PROVE Promised!Look(p)
    <3>1. [is |-> "found", items |-> Found(values, pending[p])]
            \in Answers(values, pending[p], gone[p])
      <4>1. CASE pending[p].op = "List" /\ gone[p]
        <5>1. Found(values, pending[p]) = values
          BY <4>1 DEF Found
        <5>2. values = Select(values, DOMAIN values)
          BY DEF Shape, Select
        <5> QED
          BY <4>1, <5>1, <5>2 DEF Answers
      <4>2. CASE ~(pending[p].op = "List" /\ gone[p])
        BY <4>2 DEF Answers
      <4> QED
        BY <4>1, <4>2
    <3>2. pending[p] # NoCall /\ answer[p] = Open
      BY <2>6 DEF Read, Shape, CheckedOpen
    <3> QED
      BY <2>6, <3>1, <3>2, SameCalls, SameEffects
         DEF Read, Finish, Promised!Look, Promised!Waits
  <2>7. ASSUME NEW p \in Proc, Return(p) PROVE Promised!Return(p)
    BY <2>7, SameCalls DEF Return, Promised!Return
  <2> QED
    BY <2>1, <2>2, <2>3, <2>4, <2>5, <2>6, <2>7 DEF Next, Promised!Next
<1> QED
  BY <1>1, <1>2, <1>3, PTL DEF Spec, ImplementsStore, Promised!Spec
=============================================================================

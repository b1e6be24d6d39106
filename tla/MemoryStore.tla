---------------------------- MODULE MemoryStore -----------------------------
(***************************************************************************)
(* storage.MemoryStore and storage.MemoryAuditStore, which a Service made  *)
(* without an audit store uses: the map or the list itself, under a gate.  *)
(* What a call does with the gate locked touches nothing but the contents  *)
(* and its own result, so that it is one step here; between that and the   *)
(* context check before it other calls run.  The contents die with the     *)
(* process, whose next life is another behaviour.                          *)
(***************************************************************************)
EXTENDS StoreCalls

VARIABLES
  values,   \* the map of artifacts, or the list of events
  checked,  \* the goroutines whose call is past its checks
  pending,  \* the call each goroutine is in
  answer,   \* what it will answer
  gone      \* whether the call's context is cancelled

vars == <<values, checked, pending, answer, gone>>

Init ==
  /\ values = Empty
  /\ checked = {}
  /\ pending = [p \in Proc |-> NoCall]
  /\ answer = [p \in Proc |-> Open]
  /\ gone = [p \in Proc |-> FALSE]

Call(p) ==
  /\ pending[p] = NoCall
  /\ \E call \in Calls : pending' = [pending EXCEPT ![p] = call]
  /\ UNCHANGED <<values, checked, answer, gone>>

Cancel(p) ==
  /\ pending[p] # NoCall
  /\ gone' = [gone EXCEPT ![p] = TRUE]
  /\ UNCHANGED <<values, checked, pending, answer>>

Finish(p, a) == answer' = [answer EXCEPT ![p] = a]

\* contextError and Validate, before the gate.
Begins(p) == pending[p] # NoCall /\ answer[p] = Open /\ p \notin checked

Begin(p) ==
  /\ Begins(p)
  /\ ~gone[p] /\ Valid(pending[p])
  /\ checked' = checked \union {p}
  /\ UNCHANGED <<values, pending, answer, gone>>

BeginFails(p) ==
  /\ Begins(p)
  /\ gone[p] \/ ~Valid(pending[p])
  /\ Finish(p, Says("error"))
  /\ UNCHANGED <<values, checked, pending, gone>>

\* The closure given to lockedWrite: its test, and the change.
Write(p) ==
  /\ p \in checked /\ pending[p] \in Writes
  /\ IF Accepts(values, pending[p])
       THEN values' = Result(values, pending[p]) /\ Finish(p, Says("ok"))
       ELSE UNCHANGED values /\ Finish(p, Says("error"))
  /\ checked' = checked \ {p}
  /\ UNCHANGED <<pending, gone>>

\* The closure given to lockedRead.  It does not look at the context again,
\* so that no List is cut short.
Read(p) ==
  /\ p \in checked /\ pending[p] \in Reads
  /\ Finish(p, [is |-> "found", items |-> Found(values, pending[p])])
  /\ checked' = checked \ {p}
  /\ UNCHANGED <<values, pending, gone>>

Return(p) ==
  /\ pending[p] # NoCall /\ answer[p] # Open
  /\ pending' = [pending EXCEPT ![p] = NoCall]
  /\ answer' = [answer EXCEPT ![p] = Open]
  /\ gone' = [gone EXCEPT ![p] = FALSE]
  /\ UNCHANGED <<values, checked>>

Next ==
  \E p \in Proc :
    \/ Call(p) \/ Cancel(p) \/ Begin(p) \/ BeginFails(p)
    \/ Write(p) \/ Read(p) \/ Return(p)

Spec == Init /\ [][Next]_vars

-----------------------------------------------------------------------------
Promised == INSTANCE Store WITH contents <- values

(***************************************************************************)
(* The memory stores are atomic stores too: each call takes effect in its  *)
(* closure, or not at all, although the context is only looked at before.  *)
(***************************************************************************)
ImplementsStore == Promised!Spec
=============================================================================

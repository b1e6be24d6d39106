-------------------------------- MODULE Store --------------------------------
(***************************************************************************)
(* What the catalog expects of its stores: a call takes effect as a whole  *)
(* at one instant between its start and its answer, or fails and changes   *)
(* nothing; what a read answers is what the store held at such an instant. *)
(***************************************************************************)
EXTENDS StoreCalls

VARIABLES
  contents,  \* what the store holds
  pending,   \* the call each goroutine is in
  answer,    \* what the call will answer
  gone       \* whether the call's context is cancelled

Init ==
  /\ contents = Empty
  /\ pending = [p \in Proc |-> NoCall]
  /\ answer = [p \in Proc |-> Open]
  /\ gone = [p \in Proc |-> FALSE]

Start(p) ==
  /\ pending[p] = NoCall
  /\ \E call \in Calls : pending' = [pending EXCEPT ![p] = call]
  /\ UNCHANGED <<contents, answer, gone>>

Cancel(p) ==
  /\ pending[p] # NoCall
  /\ gone' = [gone EXCEPT ![p] = TRUE]
  /\ UNCHANGED <<contents, pending, answer>>

Waits(p) == pending[p] # NoCall /\ answer[p] = Open

CanApply(p) ==
  /\ Waits(p) /\ pending[p] \in Writes
  /\ Valid(pending[p]) /\ Accepts(contents, pending[p])

Apply(p) ==
  /\ CanApply(p)
  /\ contents' = Result(contents, pending[p])
  /\ answer' = [answer EXCEPT ![p] = Says("ok")]
  /\ UNCHANGED <<pending, gone>>

Look(p) ==
  /\ Waits(p) /\ pending[p] \in Reads
  /\ \E a \in Answers(contents, pending[p], gone[p]) :
       answer' = [answer EXCEPT ![p] = a]
  /\ UNCHANGED <<contents, pending, gone>>

\* The call finds that it cannot be done, or the machine fails it.
Fail(p) ==
  /\ Waits(p)
  /\ answer' = [answer EXCEPT ![p] = Says("error")]
  /\ UNCHANGED <<contents, pending, gone>>

Return(p) ==
  /\ pending[p] # NoCall /\ answer[p] # Open
  /\ pending' = [pending EXCEPT ![p] = NoCall]
  /\ answer' = [answer EXCEPT ![p] = Open]
  /\ gone' = [gone EXCEPT ![p] = FALSE]
  /\ UNCHANGED contents

\* The process dies; one of the calls it was in may have taken effect.
Crash ==
  /\ \/ UNCHANGED contents
     \/ \E p \in Proc : CanApply(p) /\ contents' = Result(contents, pending[p])
  /\ pending' = [p \in Proc |-> NoCall]
  /\ answer' = [p \in Proc |-> Open]
  /\ gone' = [p \in Proc |-> FALSE]

Next ==
  \/ \E p \in Proc :
       Start(p) \/ Cancel(p) \/ Apply(p) \/ Look(p) \/ Fail(p) \/ Return(p)
  \/ Crash

Spec == Init /\ [][Next]_<<contents, pending, answer, gone>>
=============================================================================

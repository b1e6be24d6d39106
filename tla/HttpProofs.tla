----------------------------- MODULE HttpProofs -----------------------------
(***************************************************************************)
(* Theorems about the HTTP layer, for any requests and every failure.      *)
(***************************************************************************)
EXTENDS Http, CatalogProofs, FiniteSetTheorems

(***************************************************************************)
(* The layer adds to the write path and takes nothing from it: each of its *)
(* steps is one of Catalog or leaves the write path alone.                 *)
(***************************************************************************)
LEMMA LayerStep == [HttpNext]_httpVars => [Next]_vars
<1> SUFFICES ASSUME HttpNext PROVE [Next]_vars
  BY DEF httpVars, vars
<1>1. ASSUME NEW r \in Req, Receive(r) \/ Hangup(r) \/ Handle(r)
      PROVE  [Next]_vars
  BY <1>1 DEF Receive, Turned, Hangup, Handle, Work, Meter, Reply, Next, Serve,
              vars
<1>2. ASSUME Die PROVE [Next]_vars
  BY <1>2 DEF Die, Next
<1>3. ASSUME AskMetrics \/ Visit \/ Signal \/ Drained \/ Over
      PROVE  UNCHANGED vars
  BY <1>3 DEF AskMetrics, Visit, LoadRequests, LoadFailures, LoadWrites,
              AnswerMetrics, Signal, Drained, Over, httpVars, vars
<1> QED
  BY <1>1, <1>2, <1>3 DEF HttpNext

\* Whatever holds of the write path alone holds of it behind this layer.
THEOREM LayerImplementsCatalog == HttpSpec => Spec
<1>1. HttpInit => Init
  BY DEF HttpInit
<1> QED
  BY <1>1, LayerStep, PTL DEF HttpSpec, Spec

-----------------------------------------------------------------------------

LEMMA WorkServes ==
  ASSUME NEW r \in Req, Work(r)
  PROVE  Serve(r) /\ stage[r] = "service"
         /\ UNCHANGED <<server, readOnly, stage, counters, visitor, told>>
  BY DEF Work, Serve

LEMMA Counting ==
  /\ NoMetrics \in Metrics /\ NoVisit \in Visits
  /\ [NoVisit EXCEPT !.at = "done"] \in Visits
  /\ \A m \in Metrics :
       /\ m.requests \in Nat /\ m.failures \in Nat /\ m.writes \in Nat
       /\ [m EXCEPT !.requests = @ + 1] \in Metrics
       /\ [m EXCEPT !.failures = @ + 1] \in Metrics
       /\ [m EXCEPT !.writes = @ + 1] \in Metrics
  BY DEF NoMetrics, NoVisit, Metrics, Visits

LEMMA HttpTypeInit == HttpInit => HttpTypeOK
<1> SUFFICES ASSUME HttpInit PROVE HttpTypeOK
  OBVIOUS
<1>1. visitor \in Visits /\ counters \in Metrics /\ told \in Metrics
  BY Counting DEF HttpInit
<1>2. \A r \in Req : pc[r] = "idle" /\ ~Active(r)
  BY DEF HttpInit, Init, Active, Handling
<1> QED
  BY <1>1, <1>2 DEF HttpInit, HttpTypeOK, Visits

LEMMA VisitType ==
  ASSUME HttpTypeOK, AskMetrics \/ Visit
  PROVE  HttpTypeOK'
<1>1. UNCHANGED <<pc, server, readOnly, stage, code, told>>
  BY DEF AskMetrics, Visit, LoadRequests, LoadFailures, LoadWrites,
         AnswerMetrics, vars
<1>2. counters' \in Metrics
  BY Counting DEF AskMetrics, Visit, LoadRequests, LoadFailures, LoadWrites,
                  AnswerMetrics, HttpTypeOK
<1>3. visitor' \in Visits
  <2>1. counters \in Metrics /\ told \in Metrics /\ visitor \in Visits
    BY DEF HttpTypeOK, Visits
  <2>2. CASE AskMetrics
    BY <2>1, <2>2 DEF AskMetrics, Visits
  <2>3. CASE LoadRequests
    BY <2>1, <2>3 DEF LoadRequests, Visits, Metrics
  <2>4. CASE LoadFailures
    BY <2>1, <2>4 DEF LoadFailures, Visits, Metrics
  <2>5. CASE LoadWrites
    BY <2>1, <2>5 DEF LoadWrites, Visits, Metrics
  <2>6. CASE AnswerMetrics
    BY <2>6, Counting DEF AnswerMetrics, Visits
  <2> QED
    BY <2>2, <2>3, <2>4, <2>5, <2>6 DEF Visit
<1> QED
  BY <1>1, <1>2, <1>3 DEF HttpTypeOK, Active

LEMMA WorkType ==
  ASSUME TypeInv, HttpTypeOK, NEW r \in Req, Work(r)
  PROVE  HttpTypeOK'
<1>1. /\ stage[r] = "service"
      /\ UNCHANGED <<server, readOnly, stage, counters, visitor, told>>
      /\ \A q \in Req \ {r} : pc'[q] = pc[q]
  BY WorkServes, OneHandler
<1>2. code' \in [Req -> {""} \union ErrorCode]
  <2>1. code[r] \in {""} \union ErrorCode
    BY DEF HttpTypeOK
  <2>2. \E c \in {""} \union ErrorCode : code' = [code EXCEPT ![r] = c]
    <3>1. CASE UNCHANGED code
      BY <2>1, <3>1 DEF HttpTypeOK
    <3>2. CASE \E c \in ErrorCode : Fail(r, c)
      BY <3>2 DEF Fail
    <3>3. CASE Fail(r, IF Missing(r) THEN Joined(code[r], "not_found")
                       ELSE code[r])
      BY <2>1, <3>3 DEF Fail, Joined, ErrorCode, AppError
    <3>4. (UNCHANGED code) \/ (\E c \in ErrorCode : Fail(r, c))
            \/ Fail(r, IF Missing(r) THEN Joined(code[r], "not_found")
                       ELSE code[r])
      BY DEF Work, ErrorCode, AppError, ReadErrors
    <3> QED
      BY <3>1, <3>2, <3>3, <3>4
  <2> QED
    BY <2>2 DEF HttpTypeOK
<1> QED
  BY <1>1, <1>2 DEF HttpTypeOK, Active

LEMMA HttpTypeStep ==
  TypeInv /\ TypeInv' /\ HttpTypeOK /\ [HttpNext]_httpVars => HttpTypeOK'
<1> SUFFICES ASSUME TypeInv, TypeInv', HttpTypeOK, [HttpNext]_httpVars
             PROVE  HttpTypeOK'
  OBVIOUS
<1>1. ASSUME NEW r \in Req, Receive(r)
      PROVE  HttpTypeOK'
  <2>1. /\ counters' \in Metrics
        /\ UNCHANGED <<server, readOnly, visitor, told>>
        /\ stage[r] = "none"
    BY <1>1, Counting DEF Receive, HttpTypeOK
  <2>2. CASE \E c \in ErrorCode : Turned(r, c)
    <3>1. code' \in [Req -> {""} \union ErrorCode]
      BY <2>2 DEF Turned, Fail, HttpTypeOK
    <3>2. stage' = [stage EXCEPT ![r] = "metered"] /\ pc' = pc
      BY <2>2 DEF Turned, Advance, vars
    <3> QED
      BY <2>1, <3>1, <3>2 DEF HttpTypeOK, Active, Handling
  <2>3. CASE Arrive(r) /\ Advance(r, "service") /\ UNCHANGED code
    BY <2>1, <2>3, OneHandler DEF Advance, HttpTypeOK, Active
  <2> QED
    BY <1>1, <2>2, <2>3 DEF Receive, ErrorCode, AppError
<1>2. ASSUME NEW r \in Req, Hangup(r)
      PROVE  HttpTypeOK'
  BY <1>2 DEF Hangup, Cancel, http, HttpTypeOK, Active
<1>3. ASSUME NEW r \in Req, Meter(r) \/ Reply(r)
      PROVE  HttpTypeOK'
  <2>1. UNCHANGED <<pc, server, readOnly, code, visitor>>
    BY <1>3 DEF Meter, Reply, vars
  <2>2. counters' \in Metrics /\ told' \in Metrics
    <3>1. counters \in Metrics /\ told \in Metrics
      BY DEF HttpTypeOK
    <3>2. CASE Meter(r)
      BY <3>1, <3>2, Counting DEF Meter
    <3>3. CASE Reply(r)
      BY <3>1, <3>3 DEF Reply, Tell, Metrics
    <3> QED
      BY <1>3, <3>2, <3>3
  <2>3. /\ stage[r] \in {"service", "metered"} /\ ~Active(r)
        /\ \E label \in {"metered", "replied"} :
             stage' = [stage EXCEPT ![r] = label]
    BY <1>3 DEF Meter, Reply, Advance, Active, Handling, HttpTypeOK
  <2> QED
    BY <2>1, <2>2, <2>3 DEF HttpTypeOK, Active
<1>4. ASSUME Die PROVE HttpTypeOK'
  <2>1. /\ visitor' = IF Visiting THEN [NoVisit EXCEPT !.at = "done"]
                      ELSE visitor
        /\ UNCHANGED <<readOnly, code, counters, told>>
        /\ server' = "down"
        /\ stage' = [r \in Req |-> IF InFlight(r) THEN "lost" ELSE stage[r]]
    BY <1>4 DEF Die
  <2>2. \A r \in Req : ~(Active(r))' /\ (pc[r] = "idle" => pc'[r] = "idle")
    BY <1>4 DEF Die, Crash, Active, Handling, vars
  <2>3. visitor' \in Visits
    BY <2>1, Counting DEF HttpTypeOK
  <2> QED
    BY <2>1, <2>2, <2>3 DEF HttpTypeOK, InFlight
<1>5. ASSUME Signal \/ Drained \/ Over \/ UNCHANGED httpVars
      PROVE  HttpTypeOK'
  BY <1>5 DEF Signal, Drained, Over, httpVars, http, vars, HttpTypeOK, Active
<1> QED
  BY <1>1, <1>2, <1>3, <1>4, <1>5, VisitType, WorkType DEF HttpNext, Handle

\* The variables of the HTTP layer keep their types.
THEOREM HttpTypeCorrect == HttpSpec => []HttpTypeOK
<1>1. HttpInit => TypeInv /\ HttpTypeOK
  BY HttpTypeInit, TypeInvInit DEF HttpInit
<1>2. TypeInv /\ HttpTypeOK /\ [HttpNext]_httpVars
        => (TypeInv /\ HttpTypeOK)'
  BY HttpTypeStep, TypeInvStep, LayerStep
<1> QED
  BY <1>1, <1>2, PTL DEF HttpSpec

-----------------------------------------------------------------------------
(***************************************************************************)
(* Why a snapshot is not behind what the clients have been told: told and  *)
(* the requests whose outcome is counted but not answered are together at  *)
(* most what the counters say, and the counters never go back.             *)
(***************************************************************************)
Pending == {r \in Req : InFlight(r)}

Metered(end) == {r \in Req : stage[r] = "metered" /\ pc[r] = end}

ToldBehind ==
  /\ IsFiniteSet(Pending)
  /\ told.requests + Cardinality(Pending) <= counters.requests
  /\ told.failures + Cardinality(Metered("failed")) <= counters.failures
  /\ told.writes + Cardinality(Metered("ok")) <= counters.writes

VisitBehind ==
  /\ Visiting =>
       /\ visitor.known.requests < counters.requests
       /\ visitor.known.failures <= counters.failures
       /\ visitor.known.writes <= counters.writes
  /\ visitor.at \in {"requests", "failures", "loaded"} =>
       visitor.shot.requests > visitor.known.requests
  /\ visitor.at \in {"failures", "loaded"} =>
       visitor.shot.failures >= visitor.known.failures
  /\ visitor.at = "loaded" =>
       visitor.shot.writes >= visitor.known.writes

CountInv == TypeInv /\ HttpTypeOK /\ ToldBehind /\ VisitBehind

LEMMA MeteredFinite ==
  ASSUME ToldBehind, NEW end
  PROVE  IsFiniteSet(Metered(end)) /\ Cardinality(Metered(end)) \in Nat
<1>1. Metered(end) \subseteq Pending
  BY DEF Metered, Pending, InFlight
<1> QED
  BY <1>1, FS_Subset, FS_CardinalityType DEF ToldBehind

\* The numbers of the invariant, for arithmetic.
LEMMA Sums ==
  ASSUME CountInv
  PROVE  /\ counters.requests \in Nat /\ told.requests \in Nat
         /\ counters.failures \in Nat /\ told.failures \in Nat
         /\ counters.writes \in Nat /\ told.writes \in Nat
         /\ Cardinality(Pending) \in Nat
         /\ Cardinality(Metered("failed")) \in Nat
         /\ Cardinality(Metered("ok")) \in Nat
         /\ IsFiniteSet(Pending)
         /\ told.requests + Cardinality(Pending) <= counters.requests
         /\ told.failures + Cardinality(Metered("failed")) <= counters.failures
         /\ told.writes + Cardinality(Metered("ok")) <= counters.writes
<1>1. counters \in Metrics /\ told \in Metrics
  BY DEF CountInv, HttpTypeOK
<1>2. /\ Cardinality(Pending) \in Nat
      /\ Cardinality(Metered("failed")) \in Nat
      /\ Cardinality(Metered("ok")) \in Nat
  BY MeteredFinite, FS_CardinalityType DEF CountInv, ToldBehind
<1>3. ToldBehind
  BY DEF CountInv
<1> QED
  BY <1>1, <1>2, <1>3, Counting, Zenon DEF ToldBehind

\* One request more that is in flight, or one that is metered.
LEMMA ReceiveBehind ==
  ASSUME CountInv, NEW r \in Req, Receive(r)
  PROVE  ToldBehind'
<1>1. /\ counters' = [counters EXCEPT !.requests = @ + 1]
      /\ told' = told /\ stage[r] = "none"
  BY DEF Receive
<1>2. /\ pc[r] = "idle"
      /\ \/ stage' = [stage EXCEPT ![r] = "service"] /\ Arrive(r)
         \/ stage' = [stage EXCEPT ![r] = "metered"] /\ pc' = pc
      /\ \A q \in Req \ {r} : pc'[q] = pc[q]
  <2>1. pc[r] = "idle"
    BY <1>1 DEF CountInv, HttpTypeOK
  <2>2. \/ stage' = [stage EXCEPT ![r] = "service"] /\ Arrive(r)
        \/ stage' = [stage EXCEPT ![r] = "metered"] /\ pc' = pc
    BY DEF Receive, Turned, Advance, vars
  <2> QED
    BY <2>1, <2>2, OneHandler DEF CountInv
<1>3. Pending' = Pending \union {r} /\ r \notin Pending
  BY <1>1, <1>2 DEF Pending, InFlight, CountInv, HttpTypeOK
<1>4. \A end \in {"failed", "ok"} : Metered(end)' = Metered(end)
  BY <1>1, <1>2 DEF Metered, CountInv, HttpTypeOK, Arrive
<1>5. /\ IsFiniteSet(Pending')
      /\ Cardinality(Pending') = Cardinality(Pending) + 1
      /\ Cardinality(Pending) \in Nat
  BY <1>3, FS_AddElement, FS_CardinalityType DEF CountInv, ToldBehind
<1>6. /\ counters'.requests = counters.requests + 1
      /\ counters'.failures = counters.failures
      /\ counters'.writes = counters.writes
      /\ counters.requests \in Nat /\ told.requests \in Nat
  BY <1>1, Counting DEF CountInv, HttpTypeOK, Metrics
<1> QED
  BY <1>1, <1>4, <1>5, <1>6 DEF CountInv, ToldBehind

LEMMA MeterBehind ==
  ASSUME CountInv, NEW r \in Req, Meter(r)
  PROVE  ToldBehind'
<1>1. /\ stage[r] = "service" /\ pc[r] \in {"ok", "failed"}
      /\ stage' = [stage EXCEPT ![r] = "metered"]
      /\ UNCHANGED <<pc, told>>
      /\ counters' = IF pc[r] = "ok" THEN [counters EXCEPT !.writes = @ + 1]
                     ELSE [counters EXCEPT !.failures = @ + 1]
  BY DEF Meter, Advance, vars
<1>2. Pending' = Pending
  BY <1>1 DEF Pending, InFlight, CountInv, HttpTypeOK
<1>3. \A end : Metered(end)' = IF end = pc[r] THEN Metered(end) \union {r}
                               ELSE Metered(end)
  BY <1>1 DEF Metered, CountInv, HttpTypeOK
<1>4. \A end : r \notin Metered(end)
  BY <1>1 DEF Metered
<1>5. \A end : Cardinality(Metered(end)') =
                 IF end = pc[r] THEN Cardinality(Metered(end)) + 1
                 ELSE Cardinality(Metered(end))
  BY <1>3, <1>4, MeteredFinite, FS_AddElement DEF CountInv
<1>6. \A end : Cardinality(Metered(end)) \in Nat
  BY MeteredFinite DEF CountInv
<1>7. counters \in Metrics /\ told \in Metrics
  BY DEF CountInv, HttpTypeOK
<1>8. /\ counters'.requests = counters.requests
      /\ counters'.failures = counters.failures + (IF pc[r] = "ok" THEN 0 ELSE 1)
      /\ counters'.writes = counters.writes + (IF pc[r] = "ok" THEN 1 ELSE 0)
  BY <1>1, <1>7 DEF Metrics
<1>9. /\ IsFiniteSet(Pending')
      /\ told'.requests + Cardinality(Pending') <= counters'.requests
  BY <1>1, <1>2, <1>8 , Sums
<1>10. told'.failures + Cardinality(Metered("failed")') <= counters'.failures
  BY <1>1, <1>5, <1>6, <1>7, <1>8, Sums
<1>11. told'.writes + Cardinality(Metered("ok")') <= counters'.writes
  BY <1>1, <1>5, <1>6, <1>7, <1>8, Sums
<1> QED
  BY <1>9, <1>10, <1>11 DEF ToldBehind

LEMMA ReplyBehind ==
  ASSUME CountInv, NEW r \in Req, Reply(r)
  PROVE  ToldBehind'
<1>1. /\ stage[r] = "metered"
      /\ stage' = [stage EXCEPT ![r] = "replied"]
      /\ UNCHANGED <<pc, counters>>
      /\ told'.requests = told.requests + 1
      /\ told'.failures = told.failures + (IF pc[r] = "failed" THEN 1 ELSE 0)
      /\ told'.writes = told.writes + (IF pc[r] = "ok" THEN 1 ELSE 0)
  BY DEF Reply, Tell, Advance, vars
<1>2. Pending' = Pending \ {r} /\ r \in Pending
  BY <1>1 DEF Pending, InFlight, CountInv, HttpTypeOK
<1>3. \A end : Metered(end)' = Metered(end) \ {r}
                 /\ (r \in Metered(end) <=> pc[r] = end)
  BY <1>1 DEF Metered, CountInv, HttpTypeOK
<1>4. /\ IsFiniteSet(Pending')
      /\ Cardinality(Pending') = Cardinality(Pending) - 1
      /\ Cardinality(Pending) \in Nat
  BY <1>2, FS_RemoveElement, FS_CardinalityType DEF CountInv, ToldBehind
<1>5. \A end : /\ Cardinality(Metered(end)') =
                    IF pc[r] = end THEN Cardinality(Metered(end)) - 1
                    ELSE Cardinality(Metered(end))
               /\ Cardinality(Metered(end)) \in Nat
  BY <1>3, MeteredFinite, FS_RemoveElement DEF CountInv
<1>6. counters \in Metrics /\ told \in Metrics
  BY DEF CountInv, HttpTypeOK
<1>7. /\ IsFiniteSet(Pending')
      /\ told'.requests + Cardinality(Pending') <= counters'.requests
  BY <1>1, <1>4, <1>6, Sums
<1>8. told'.failures + Cardinality(Metered("failed")') <= counters'.failures
  BY <1>1, <1>5, <1>6, Sums
<1>9. told'.writes + Cardinality(Metered("ok")') <= counters'.writes
  BY <1>1, <1>5, <1>6, Sums
<1> QED
  BY <1>7, <1>8, <1>9 DEF ToldBehind

\* The other steps make no answer, and no request is in flight after a death.
LEMMA OtherBehind ==
  ASSUME CountInv, [HttpNext]_httpVars,
         \A r \in Req : ~Receive(r) /\ ~Meter(r) /\ ~Reply(r)
  PROVE  ToldBehind'
<1>1. \/ \E r \in Req : Work(r) \/ Hangup(r)
      \/ Die
      \/ AskMetrics \/ Visit \/ Signal \/ Drained \/ Over
      \/ UNCHANGED httpVars
  BY DEF HttpNext, Handle
<1>2. ASSUME NEW r \in Req, Work(r) \/ Hangup(r)
      PROVE  ToldBehind'
  <2>1. /\ stage[r] = "service" /\ UNCHANGED <<stage, told, counters>>
        /\ \A q \in Req \ {r} : pc'[q] = pc[q]
    BY <1>2, WorkServes, OneHandler DEF Hangup, http, CountInv
  <2>2. Pending' = Pending /\ \A end : Metered(end)' = Metered(end)
    BY <2>1 DEF Pending, Metered, InFlight
  <2> QED
    BY <2>1, <2>2 DEF CountInv, ToldBehind
<1>3. CASE Die
  <2>1. /\ UNCHANGED <<told, counters>>
        /\ stage' = [r \in Req |-> IF InFlight(r) THEN "lost" ELSE stage[r]]
    BY <1>3 DEF Die
  <2>2. Pending' = {} /\ \A end : Metered(end)' = {}
    BY <2>1 DEF Pending, Metered, InFlight
  <2>3. /\ IsFiniteSet(Pending') /\ Cardinality(Pending') = 0
        /\ \A end : Cardinality(Metered(end)') = 0
    BY <2>2, FS_EmptySet
  <2>4. /\ Cardinality(Pending) \in Nat
        /\ \A end : Cardinality(Metered(end)) \in Nat
    BY FS_CardinalityType, MeteredFinite DEF CountInv, ToldBehind
  <2>5. counters \in Metrics /\ told \in Metrics
    BY DEF CountInv, HttpTypeOK
  <2>6. /\ IsFiniteSet(Pending')
        /\ told'.requests + Cardinality(Pending') <= counters'.requests
    BY <2>1, <2>3, <2>4, <2>5, Sums
  <2>7. told'.failures + Cardinality(Metered("failed")') <= counters'.failures
    BY <2>1, <2>3, <2>4, <2>5, Sums
  <2>8. told'.writes + Cardinality(Metered("ok")') <= counters'.writes
    BY <2>1, <2>3, <2>4, <2>5, Sums
  <2> QED
    BY <2>6, <2>7, <2>8 DEF ToldBehind
<1>4. CASE AskMetrics \/ Visit \/ Signal \/ Drained \/ Over
             \/ UNCHANGED httpVars
  <2>1. UNCHANGED <<pc, stage, told>>
        /\ counters' \in {counters, [counters EXCEPT !.requests = @ + 1]}
    BY <1>4 DEF AskMetrics, Visit, LoadRequests, LoadFailures, LoadWrites,
                AnswerMetrics, Signal, Drained, Over, httpVars, http, vars
  <2>2. Pending' = Pending /\ \A end : Metered(end)' = Metered(end)
    BY <2>1 DEF Pending, Metered, InFlight
  <2>3. /\ counters'.requests \in {counters.requests, counters.requests + 1}
        /\ counters'.failures = counters.failures
        /\ counters'.writes = counters.writes
    BY <2>1 DEF CountInv, HttpTypeOK, Metrics
  <2>4. counters \in Metrics /\ told \in Metrics /\ Cardinality(Pending) \in Nat
    BY FS_CardinalityType DEF CountInv, HttpTypeOK, ToldBehind
  <2>5. /\ IsFiniteSet(Pending')
        /\ told'.requests + Cardinality(Pending') <= counters'.requests
    BY <2>1, <2>2, <2>3, <2>4, Sums
  <2>6. told'.failures + Cardinality(Metered("failed")') <= counters'.failures
    BY <2>1, <2>2, <2>3, <2>4, Sums
  <2>7. told'.writes + Cardinality(Metered("ok")') <= counters'.writes
    BY <2>1, <2>2, <2>3, <2>4, Sums
  <2> QED
    BY <2>5, <2>6, <2>7 DEF ToldBehind
<1> QED
  BY <1>1, <1>2, <1>3, <1>4

LEMMA ToldBehindStep ==
  ASSUME CountInv, [HttpNext]_httpVars
  PROVE  ToldBehind'
  BY ReceiveBehind, MeterBehind, ReplyBehind, OtherBehind

\* The counters never go back, so the visit stays ahead of what it knew.
LEMMA CountersGrow ==
  ASSUME HttpTypeOK, [HttpNext]_httpVars
  PROVE  /\ counters'.requests >= counters.requests
         /\ counters'.failures >= counters.failures
         /\ counters'.writes >= counters.writes
<1>1. counters' \in {counters, [counters EXCEPT !.requests = @ + 1],
                     [counters EXCEPT !.failures = @ + 1],
                     [counters EXCEPT !.writes = @ + 1]}
  BY DEF HttpNext, Receive, Hangup, Handle, Work, Meter, Reply, AskMetrics,
         Visit, LoadRequests, LoadFailures, LoadWrites, AnswerMetrics, Signal,
         Drained, Die, Over, httpVars, http
<1>2. counters \in Metrics
  BY DEF HttpTypeOK
<1> QED
  BY <1>1, <1>2 DEF Metrics

LEMMA VisitBehindStep ==
  ASSUME CountInv, [HttpNext]_httpVars, HttpTypeOK'
  PROVE  VisitBehind'
<1>1. /\ counters \in Metrics /\ told \in Metrics /\ visitor \in Visits
      /\ counters' \in Metrics /\ visitor' \in Visits
      /\ visitor.known \in Metrics /\ visitor.shot \in Metrics
  BY DEF CountInv, HttpTypeOK, Visits
<1>2. CASE visitor' = visitor
  <2>1. /\ counters'.requests >= counters.requests
        /\ counters'.failures >= counters.failures
        /\ counters'.writes >= counters.writes
    BY CountersGrow DEF CountInv
  <2>2. \A m \in Metrics :
          m.requests \in Nat /\ m.failures \in Nat /\ m.writes \in Nat
    BY Counting
  <2>3. VisitBehind
    BY DEF CountInv
  <2> QED
    BY <1>1, <1>2, <2>1, <2>2, <2>3 DEF VisitBehind, Visiting
<1>3. CASE AskMetrics
  <2>1. /\ told.requests <= counters.requests
        /\ told.failures <= counters.failures
        /\ told.writes <= counters.writes
    BY Sums
  <2>2. /\ visitor'.at = "counted" /\ visitor'.known = told
        /\ counters'.requests = counters.requests + 1
        /\ counters'.failures = counters.failures
        /\ counters'.writes = counters.writes
    BY <1>1, <1>3 DEF AskMetrics, Metrics, Visits
  <2>3. /\ counters.requests \in Nat /\ told.requests \in Nat
        /\ counters.failures \in Nat /\ told.failures \in Nat
        /\ counters.writes \in Nat /\ told.writes \in Nat
    BY Sums
  <2> QED
    BY <2>1, <2>2, <2>3 DEF VisitBehind, Visiting
<1>4. CASE LoadRequests
  <2>1. /\ visitor.at = "counted" /\ visitor'.at = "requests"
        /\ visitor'.known = visitor.known
        /\ visitor'.shot.requests = counters.requests
        /\ counters' = counters
    BY <1>1, <1>4 DEF LoadRequests, Visits, Metrics
  <2> QED
    BY <1>1, <2>1, Counting DEF CountInv, VisitBehind, Visiting
<1>5. CASE LoadFailures
  <2>1. /\ visitor.at = "requests" /\ visitor'.at = "failures"
        /\ visitor'.known = visitor.known
        /\ visitor'.shot.requests = visitor.shot.requests
        /\ visitor'.shot.failures = counters.failures
        /\ counters' = counters
    BY <1>1, <1>5 DEF LoadFailures, Visits, Metrics
  <2> QED
    BY <1>1, <2>1, Counting DEF CountInv, VisitBehind, Visiting
<1>6. CASE LoadWrites
  <2>1. /\ visitor.at = "failures" /\ visitor'.at = "loaded"
        /\ visitor'.known = visitor.known
        /\ visitor'.shot.requests = visitor.shot.requests
        /\ visitor'.shot.failures = visitor.shot.failures
        /\ visitor'.shot.writes = counters.writes
        /\ counters' = counters
    BY <1>1, <1>6 DEF LoadWrites, Visits, Metrics
  <2> QED
    BY <1>1, <2>1, Counting DEF CountInv, VisitBehind, Visiting
<1>7. CASE visitor' = [NoVisit EXCEPT !.at = "done"]
  BY <1>7 DEF NoVisit, VisitBehind, Visiting
<1>8. \/ visitor' = visitor
      \/ AskMetrics \/ LoadRequests \/ LoadFailures \/ LoadWrites
      \/ visitor' = [NoVisit EXCEPT !.at = "done"]
  BY DEF HttpNext, Receive, Hangup, Handle, Work, Meter, Reply, Visit,
         AnswerMetrics, Signal, Drained, Die, Over, httpVars, http
<1> QED
  BY <1>2, <1>3, <1>4, <1>5, <1>6, <1>7, <1>8

LEMMA CountInvInit == HttpInit => CountInv
<1> SUFFICES ASSUME HttpInit PROVE CountInv
  OBVIOUS
<1>1. TypeInv /\ HttpTypeOK
  BY HttpTypeInit, TypeInvInit DEF HttpInit
<1>2. Pending = {} /\ \A end : Metered(end) = {}
  BY DEF HttpInit, Pending, Metered, InFlight
<1>3. ToldBehind
  <2>1. /\ IsFiniteSet(Pending) /\ Cardinality(Pending) = 0
        /\ \A end : Cardinality(Metered(end)) = 0
    BY <1>2, FS_EmptySet
  <2>2. /\ counters.requests = 0 /\ told.requests = 0
        /\ counters.failures = 0 /\ told.failures = 0
        /\ counters.writes = 0 /\ told.writes = 0
    BY DEF HttpInit, NoMetrics
  <2> QED
    BY <2>1, <2>2 DEF ToldBehind
<1>4. VisitBehind
  BY DEF HttpInit, VisitBehind, Visiting, NoVisit
<1> QED
  BY <1>1, <1>3, <1>4 DEF CountInv

(***************************************************************************)
(* A snapshot has every answer in it that was given before it was asked    *)
(* for, whatever other requests do between its three reads.                *)
(***************************************************************************)
THEOREM SnapshotsCount == HttpSpec => []SnapshotCountsAnswers
<1>1. CountInv /\ [HttpNext]_httpVars => CountInv'
  BY HttpTypeStep, TypeInvStep, LayerStep, ToldBehindStep, VisitBehindStep
     DEF CountInv
<1>2. CountInv => SnapshotCountsAnswers
  BY DEF CountInv, VisitBehind, Visiting, SnapshotCountsAnswers
<1> QED
  BY <1>1, <1>2, CountInvInit, PTL DEF HttpSpec

-----------------------------------------------------------------------------
(***************************************************************************)
(* Why a client that is blamed has changed nothing.  What a store has is   *)
(* made by handlers that hold records (Origin).  A rollback always finds   *)
(* the artifacts of its own create or batch, because nobody else deletes   *)
(* them (Owned), so that it cannot turn the error of the server into a     *)
(* not_found.  A handler whose error is the client's has no records.       *)
(***************************************************************************)
Origin ==
  /\ \A id \in DOMAIN repo : after[id[1]] # << >>
  /\ \A e \in audit : after[e.id[1]] # << >>
  /\ \A r \in Req : ~Creating(r) /\ pc[r] # "idle" =>
       after[job[r].id[1]] # << >>

\* How many artifacts of a create or a batch are in the repository.
Stored(r) ==
  CASE pc[r] \in {"save", "scrub"} -> 1 .. pos[r] - 1
    [] pc[r] = "append" -> 1 .. Len(after[r])
    [] pc[r] = "undo" -> 1 .. pos[r]
    [] OTHER -> {}

Owned(r) == Creating(r) => \A k \in Stored(r) : <<r, k>> \in DOMAIN repo

Blameless(r) ==
  /\ stage[r] = "none" => code[r] = ""
  /\ code[r] \in AppError /\ job[r].actor = "named" =>
       /\ after[r] = << >>
       /\ pc[r] \in {"idle", "failed", "lost"}

BlameInv ==
  /\ TypeInv /\ HttpTypeOK /\ Origin
  /\ \A r \in Req : Owned(r) /\ Blameless(r)

\* A handler's records are made once.
LEMMA RecordsKept ==
  ASSUME TypeInv, [Next]_vars, NEW q \in Req, after[q] # << >>
  PROVE  after'[q] = after[q] /\ job'[q] = job[q]
  BY HistoryKept

\* Who adds an artifact to the repository.
LEMMA Added ==
  ASSUME TypeInv, [Next]_vars, NEW id \in DOMAIN repo' \ DOMAIN repo
  PROVE  \E r \in Req : \/ Creating(r) /\ id[1] = r /\ after[r] # << >>
                        \/ ~Creating(r) /\ pc[r] # "idle" /\ id = job[r].id
<1>1. PICK r \in Req : \/ Save(r) /\ id = Item(r, pos[r])
                       \/ Restore(r) /\ id = job[r].id
  <2>1. PICK r \in Req : Save(r) \/ Restore(r) \/ Withdraw(r)
    BY DEF Next, Quiet, Crash, Serve, Arrive, Cancel, Prepare, Read, Refuse,
           ReadFails, SaveFails, File, FileFails, Scrub, Purge, stores, vars
  <2> QED
    BY <2>1 DEF Save, Restore, Withdraw, Put, Drop
<1>2. pc[r] # "idle" /\ (Save(r) => after[r] # << >>)
  <2>1. pc[r] \in {"save", "undo"} /\ (Save(r) => pc[r] = "save")
    BY <1>1 DEF Save, Restore
  <2>2. Save(r) => pos[r] \in 1 .. Len(after[r])
    BY <2>1, Counters
  <2> QED
    BY <2>1, <2>2
<1> QED
  BY <1>1, <1>2 DEF Item, Restore

LEMMA OriginStep ==
  ASSUME TypeInv, [Next]_vars, Origin
  PROVE  Origin'
<1>1. \A q \in Req : after[q] # << >> => after'[q] # << >>
  BY RecordsKept
<1>2. ASSUME NEW id \in DOMAIN repo'
      PROVE  after'[id[1]] # << >>
  <2>1. DOMAIN repo' \subseteq Id /\ DOMAIN repo \subseteq Id
    BY TypeInvStep DEF TypeInv, TypeOK
  <2>2. id[1] \in Req
    BY <2>1 DEF Id
  <2>3. CASE id \in DOMAIN repo
    BY <1>1, <2>2, <2>3 DEF Origin
  <2>4. CASE id \notin DOMAIN repo
    <3>1. PICK r \in Req : \/ Creating(r) /\ id[1] = r /\ after[r] # << >>
                           \/ ~Creating(r) /\ pc[r] # "idle" /\ id = job[r].id
      BY <2>4, Added
    <3>2. after[id[1]] # << >>
      BY <3>1 DEF Origin
    <3> QED
      BY <1>1, <2>2, <3>2
  <2> QED
    BY <2>3, <2>4
<1>3. ASSUME NEW e \in audit'
      PROVE  after'[e.id[1]] # << >>
  <2>1. audit \subseteq AuditEvent(Id, Id)
    BY DEF TypeInv, TypeOK
  <2>2. CASE e \in audit
    <3>1. e.id[1] \in Req
      BY <2>1, <2>2 DEF AuditEvent, Id
    <3> QED
      BY <1>1, <2>2, <3>1 DEF Origin
  <2>3. CASE e \notin audit
    <3>1. PICK r \in Req : File(r)
      BY <2>3, DeleteShrinks
         DEF Next, Quiet, Crash, Serve, Arrive, Cancel, Prepare, Read, Refuse,
             ReadFails, Save, SaveFails, FileFails, Restore, Withdraw, Scrub,
             Purge, stores, vars
    <3>2. e.id = <<r, pos[r]>>
      BY <2>3, <3>1 DEF File, Event, NewAuditEvent
    <3>3. pos[r] \in 1 .. Len(after[r])
      BY <3>1, Counters DEF File
    <3> QED
      BY <1>1, <3>2, <3>3
  <2> QED
    BY <2>2, <2>3
<1>4. ASSUME NEW r \in Req, ~(Creating(r))', pc'[r] # "idle"
      PROVE  after'[job'[r].id[1]] # << >>
  <2>1. CASE Arrive(r)
    <3>1. job'[r].id \in DOMAIN repo
      <4>1. PICK op \in Ops, actor \in Actor :
              \E id \in IF op \in Mutation THEN DOMAIN repo ELSE {<<r, 1>>} :
                job' = [job EXCEPT ![r] = [op |-> op, id |-> id,
                                           actor |-> actor]]
        BY <2>1 DEF Arrive
      <4>2. PICK id \in IF op \in Mutation THEN DOMAIN repo ELSE {<<r, 1>>} :
              job' = [job EXCEPT ![r] = [op |-> op, id |-> id,
                                         actor |-> actor]]
        BY <4>1
      <4>3. job'[r].op = op /\ job'[r].id = id
        BY <4>2 DEF TypeInv, TypeOK
      <4> QED
        BY <1>4, <4>3, OpsAssumption DEF Creating, Op
    <3>2. job'[r].id[1] \in Req
      BY <3>1 DEF TypeInv, TypeOK, Id
    <3> QED
      BY <1>1, <3>1, <3>2 DEF Origin
  <2>2. CASE ~Arrive(r)
    <3>1. job'[r] = job[r]
      BY <2>2, OthersKept DEF Prepare, Read
    <3>2. pc[r] # "idle"
      <4>1. CASE \E q \in Req \ {r} : Arrive(q) \/ Cancel(q) \/ Serve(q)
        BY <1>4, <4>1, OneHandler
      <4>2. CASE Cancel(r) \/ Serve(r)
        BY <4>2 DEF Cancel, Active, Handling, Serve, Refuse, Prepare, Read,
                    ReadFails, Save, SaveFails, File, FileFails, Restore,
                    Withdraw, Scrub, Purge
      <4>3. CASE Crash \/ UNCHANGED vars
        BY <1>4, <4>3 DEF Crash, vars, Active, Handling
      <4> QED
        BY <2>2, <4>1, <4>2, <4>3 DEF Next, Quiet
    <3>3. job[r].id[1] \in Req
      BY DEF TypeInv, TypeOK, Job, Id
    <3> QED
      BY <1>1, <1>4, <3>1, <3>2, <3>3 DEF Origin, Creating
  <2> QED
    BY <2>1, <2>2
<1> QED
  BY <1>2, <1>3, <1>4 DEF Origin

LEMMA OwnedStep ==
  ASSUME TypeInv, [Next]_vars, NEW q \in Req, Owned(q)
  PROVE  Owned(q)'
<1> SUFFICES ASSUME (Creating(q))', NEW k \in Stored(q)'
             PROVE  <<q, k>> \in DOMAIN repo'
  BY DEF Owned
<1>2. ASSUME k \in Stored(q), Creating(q), ~Withdraw(q)
      PROVE  <<q, k>> \in DOMAIN repo'
  <2>1. <<q, k>> \in DOMAIN repo
    BY <1>2 DEF Owned
  <2> QED
    BY <1>2, <2>1, Taken
<1>3. CASE \E r \in Req \ {q} : Arrive(r) \/ Cancel(r) \/ Serve(r)
  <2>1. PICK r \in Req \ {q} : Arrive(r) \/ Cancel(r) \/ Serve(r)
    BY <1>3
  <2>2. pc'[q] = pc[q] /\ pos'[q] = pos[q]
    BY <2>1, OneHandler
       DEF Arrive, Cancel, Serve, Refuse, Prepare, Read, ReadFails, Save,
           SaveFails, File, FileFails, Restore, Withdraw, Scrub, Purge,
           TypeInv, TypeOK
  <2>3. pc[q] \in {"save", "append", "undo", "scrub"}
    BY <2>2 DEF Stored
  <2>4. job'[q] = job[q] /\ after'[q] = after[q]
    BY <2>3, OthersKept DEF Arrive, Prepare, Read
  <2>5. ~Withdraw(q)
    BY <2>1, <2>2, <2>3 DEF Withdraw, Goto, TypeInv, TypeOK
  <2> QED
    BY <1>2, <2>2, <2>4, <2>5 DEF Stored, Creating
<1>4. CASE Arrive(q) \/ Cancel(q) \/ Serve(q)
  <2>1. CASE Arrive(q) \/ Refuse(q) \/ ReadFails(q) \/ Restore(q)
    BY <2>1 DEF Arrive, Refuse, ReadFails, Restore, Goto, Stored, TypeInv, TypeOK
  <2>2. CASE Prepare(q) \/ Read(q)
    <3>1. pc'[q] = "save" /\ pos'[q] = 1
      BY <2>2 DEF Prepare, Read, Goto, TypeInv, TypeOK, Progress
    <3> QED
      BY <3>1 DEF Stored
  <2>3. CASE Cancel(q)
    <3>1. UNCHANGED <<repo, pc, pos, job, after>>
      BY <2>3 DEF Cancel, work, stores
    <3> QED
      BY <3>1 DEF Owned, Stored, Creating
  <2>4. CASE Save(q)
    <3>1. /\ pc[q] = "save" /\ job'[q] = job[q] /\ after'[q] = after[q]
          /\ DOMAIN repo' = DOMAIN repo \union {Item(q, pos[q])}
          /\ pos[q] \in 1 .. Len(after[q]) /\ Len(after[q]) \in Nat
      BY <2>4, Counters DEF Save, work, Put
    <3>2. \/ pc'[q] = "append" /\ pos[q] = Len(after[q])
          \/ pc'[q] = "save" /\ pos'[q] = pos[q] + 1
      BY <2>4 DEF Save, Goto, Last, TypeInv, TypeOK
    <3>3. k \in 1 .. pos[q]
      BY <3>1, <3>2 DEF Stored
    <3>4. Creating(q) /\ Item(q, pos[q]) = <<q, pos[q]>>
      BY <3>1 DEF Creating, Item
    <3>5. k \in 1 .. pos[q] - 1 \/ k = pos[q]
      BY <3>1, <3>3
    <3> QED
      BY <3>1, <3>4, <3>5 DEF Owned, Stored
  <2>5. CASE SaveFails(q)
    <3>1. /\ pc[q] = "save" /\ UNCHANGED <<repo, job, after>>
          /\ pos[q] \in Nat \ {0}
      BY <2>5, Counters DEF SaveFails, work, stores
    <3>2. \/ pc'[q] = "failed"
          \/ pc'[q] = "undo" /\ pos'[q] = pos[q] - 1
      BY <2>5 DEF SaveFails, Goto, TypeInv, TypeOK
    <3> QED
      BY <3>1, <3>2 DEF Owned, Stored, Creating
  <2>6. CASE File(q)
    BY <2>6 DEF File, Goto, work, TypeInv, TypeOK, Owned, Stored, Creating
  <2>7. CASE FileFails(q)
    BY <2>7 DEF FileFails, Goto, work, stores, TypeInv, TypeOK, Owned, Stored,
                Creating
  <2>8. CASE Withdraw(q)
    <3>1. /\ pc[q] = "undo" /\ UNCHANGED <<job, pos>>
          /\ DOMAIN repo \ {<<q, pos[q]>>} \subseteq DOMAIN repo'
          /\ pos[q] \in Nat \ {0}
      BY <2>8, Counters DEF Withdraw, work, Drop, Item
    <3>2. pc'[q] \in {"failed", "scrub"}
      BY <2>8 DEF Withdraw, Goto, TypeInv, TypeOK
    <3>3. k \in 1 .. pos[q] - 1
      BY <3>1, <3>2 DEF Stored
    <3>4. k \in 1 .. pos[q] /\ <<q, k>> # <<q, pos[q]>>
      BY <3>1, <3>3
    <3> QED
      BY <2>8, <3>1, <3>4 DEF Owned, Stored, Withdraw
  <2>9. CASE Scrub(q)
    <3>1. /\ pc[q] = "scrub" /\ UNCHANGED <<job, repo>>
          /\ pos[q] \in Nat \ {0}
      BY <2>9, Counters DEF Scrub, work
    <3>2. \/ pc'[q] \in {"purge", "failed"}
          \/ pc'[q] = "undo" /\ pos'[q] = pos[q] - 1
      BY <2>9 DEF Scrub, Goto, TypeInv, TypeOK
    <3> QED
      BY <3>1, <3>2 DEF Owned, Stored, Creating
  <2>10. CASE Purge(q)
    BY <2>10 DEF Purge, Goto, TypeInv, TypeOK, Stored
  <2> QED
    BY <1>4, <2>1, <2>2, <2>3, <2>4, <2>5, <2>6, <2>7, <2>8, <2>9, <2>10
       DEF Serve
<1>5. CASE Crash \/ UNCHANGED vars
  BY <1>5 DEF Crash, vars, work, stores, Owned, Stored, Creating, Active,
              Handling, TypeInv, TypeOK
<1> QED
  BY <1>3, <1>4, <1>5 DEF Next, Quiet

-----------------------------------------------------------------------------
\* The error of a running handler is not the client's, unless its actor is.
LEMMA WorkBlameless ==
  ASSUME BlameInv, NEW r \in Req, Work(r)
  PROVE  Blameless(r)'
<1>1. /\ stage[r] = "service" /\ stage'[r] = "service" /\ job' = job
      /\ code \in [Req -> {""} \union ErrorCode]
  BY WorkServes
     DEF Work, BlameInv, HttpTypeOK, Refuse, ReadFails, Prepare, Read, Save,
         File, SaveFails, FileFails, Restore, Withdraw, Scrub, Purge, work
<1>2. /\ "" \notin AppError /\ "internal_error" \notin AppError
  BY DEF AppError
<1>3. CASE Refuse(r) \/ ReadFails(r)
  <2>1. pc[r] = "start" /\ pc'[r] = "failed" /\ after' = after
    BY <1>3 DEF Refuse, ReadFails, Goto, work, BlameInv, TypeInv, TypeOK
  <2>2. after[r] = << >>
    BY <2>1 DEF BlameInv, TypeInv, Progress
  <2> QED
    BY <1>1, <2>1, <2>2 DEF Blameless
<1>4. ASSUME Serve(r), ~Refuse(r), ~ReadFails(r)
      PROVE  pc[r] \notin {"idle", "failed", "lost"}
  BY <1>4 DEF Serve, Prepare, Read, Save, File, SaveFails, FileFails, Restore,
              Withdraw, Scrub, Purge
<1>5. CASE ~Refuse(r) /\ ~ReadFails(r)
  <2>1. code[r] \in AppError => job[r].actor # "named"
    BY <1>4, <1>5, WorkServes DEF BlameInv, Blameless
  <2>2. code'[r] \in AppError => job[r].actor # "named"
    <3>1. CASE UNCHANGED code
      BY <2>1, <3>1
    <3>2. CASE Fail(r, "internal_error")
      BY <1>1, <1>2, <3>2 DEF Fail
    <3>3. CASE Fail(r, IF job[r].actor = "overlong"
                         THEN "invalid_input" ELSE "internal_error")
      <4>1. CASE job[r].actor = "overlong"
        BY <4>1
      <4>2. CASE job[r].actor # "overlong"
        BY <1>1, <1>2, <3>3, <4>2 DEF Fail
      <4> QED
        BY <4>1, <4>2
    <3>4. CASE (Restore(r) \/ Withdraw(r) \/ Scrub(r) \/ Purge(r))
               /\ Fail(r, IF Missing(r) THEN Joined(code[r], "not_found")
                          ELSE code[r])
      <4>1. ~Missing(r)
        <5> SUFFICES ASSUME pc[r] = "undo", Creating(r)
                     PROVE  <<r, pos[r]>> \in DOMAIN repo
          BY DEF Missing, Item
        <5>1. pos[r] \in 1 .. pos[r]
          BY Counters DEF BlameInv
        <5> QED
          BY <5>1 DEF BlameInv, Owned, Stored
      <4>2. code'[r] = code[r]
        BY <1>1, <3>4, <4>1 DEF Fail
      <4> QED
        BY <2>1, <4>2
    <3> QED
      BY <1>5, <3>1, <3>2, <3>3, <3>4 DEF Work
  <2> QED
    BY <1>1, <2>2 DEF Blameless
<1> QED
  BY <1>3, <1>5

LEMMA BlamelessStep ==
  ASSUME BlameInv, [HttpNext]_httpVars, NEW q \in Req
  PROVE  Blameless(q)'
<1>1. TypeInv /\ HttpTypeOK /\ [Next]_vars /\ Blameless(q)
  BY LayerStep DEF BlameInv
<1>2. ASSUME NEW r \in Req \ {q}, Receive(r) \/ Hangup(r) \/ Handle(r)
      PROVE  Blameless(q)'
  <2>1. stage'[q] = stage[q] /\ code'[q] = code[q]
    BY <1>1, <1>2
       DEF Receive, Turned, Hangup, Handle, Work, Meter, Reply, Advance, Fail,
           http, HttpTypeOK
  <2>2. /\ pc'[q] = pc[q]
        /\ \/ Arrive(r) \/ Cancel(r) \/ Serve(r)
           \/ UNCHANGED vars
    BY <1>1, <1>2, OneHandler, WorkServes
       DEF Receive, Turned, Hangup, Handle, Meter, Reply, vars
  <2>3. CASE stage[q] = "none"
    <3>1. code'[q] = ""
      BY <1>1, <2>1, <2>3 DEF Blameless
    <3> QED
      BY <3>1 DEF Blameless, AppError
  <2>4. CASE stage[q] # "none"
    <3>1. job'[q] = job[q]
          /\ (pc[q] \in {"idle", "failed", "lost"} => after'[q] = after[q])
      <4>1. CASE UNCHANGED vars
        BY <4>1 DEF vars
      <4>2. CASE Arrive(r)
        BY <1>1, <4>2 DEF Arrive, TypeInv, TypeOK
      <4>3. CASE Cancel(r)
        BY <4>3 DEF Cancel, work
      <4>4. CASE Prepare(r)
        BY <1>1, <4>4, Zenon DEF Prepare, TypeInv, TypeOK
      <4>5. CASE Read(r)
        BY <1>1, <4>5, Zenon DEF Read, TypeInv, TypeOK
      <4>6. CASE Serve(r) /\ ~Prepare(r) /\ ~Read(r)
        BY <4>6 DEF Serve, Refuse, ReadFails, Save, SaveFails, File, FileFails,
                    Restore, Withdraw, Scrub, Purge, work
      <4> QED
        BY <2>2, <4>1, <4>2, <4>3, <4>4, <4>5, <4>6
    <3> QED
      BY <1>1, <2>1, <2>2, <2>4, <3>1 DEF Blameless
  <2> QED
    BY <2>3, <2>4
<1>3. CASE Receive(q)
  <2>1. /\ stage[q] = "none" /\ code[q] = ""
    BY <1>1, <1>3 DEF Receive, Blameless
  <2>2. pc[q] = "idle"
    BY <1>1, <2>1 DEF HttpTypeOK
  <2>3. after[q] = << >> /\ after' = after
    BY <1>1, <1>3, <2>2 DEF TypeInv, Progress, Receive, Turned, Arrive, vars
  <2>4. stage'[q] # "none"
    BY <1>1, <1>3 DEF Receive, Turned, Advance, HttpTypeOK
  <2>5. CASE Arrive(q) /\ UNCHANGED code
    BY <2>1, <2>4, <2>5 DEF Blameless, AppError
  <2>6. CASE UNCHANGED vars
    BY <2>2, <2>3, <2>4, <2>6 DEF Blameless, vars
  <2> QED
    BY <1>3, <2>5, <2>6 DEF Receive, Turned
<1>4. CASE Work(q)
  BY <1>4, WorkBlameless
<1>5. CASE Hangup(q) \/ Meter(q) \/ Reply(q)
  <2>1. /\ UNCHANGED <<pc, job, after, code>>
        /\ stage[q] # "none" /\ stage'[q] # "none"
    BY <1>1, <1>5 DEF Hangup, Cancel, Meter, Reply, Advance, http, work, vars,
                      HttpTypeOK
  <2> QED
    BY <1>1, <2>1 DEF Blameless
<1>6. CASE Die
  <2>1. /\ UNCHANGED <<job, after, code>>
        /\ stage'[q] = "none" => stage[q] = "none"
        /\ pc'[q] \in {pc[q], "lost"}
    BY <1>6 DEF Die, Crash, work, vars
  <2> QED
    BY <1>1, <2>1 DEF Blameless
<1>7. CASE AskMetrics \/ Visit \/ Signal \/ Drained \/ Over
             \/ UNCHANGED httpVars
  <2>1. UNCHANGED <<pc, job, after, code, stage>>
    BY <1>7 DEF AskMetrics, Visit, LoadRequests, LoadFailures, LoadWrites,
                AnswerMetrics, Signal, Drained, Over, httpVars, http, vars
  <2> QED
    BY <1>1, <2>1 DEF Blameless
<1> QED
  BY <1>2, <1>3, <1>4, <1>5, <1>6, <1>7 DEF HttpNext, Handle

LEMMA BlameInvInit == HttpInit => BlameInv
<1> SUFFICES ASSUME HttpInit PROVE BlameInv
  OBVIOUS
<1>1. TypeInv /\ HttpTypeOK
  BY HttpTypeInit, TypeInvInit DEF HttpInit
<1>2. Origin
  BY DEF HttpInit, Init, Origin, Creating
<1>3. \A r \in Req : Owned(r) /\ Blameless(r)
  BY DEF HttpInit, Init, Owned, Stored, Blameless, AppError
<1> QED
  BY <1>1, <1>2, <1>3 DEF BlameInv

(***************************************************************************)
(* A client that gets a 4xx, and did not send an overlong actor, has left  *)
(* nothing in either store, no event, no artifact and no change to one,    *)
(* whatever failed on the way.                                             *)
(***************************************************************************)
THEOREM BlamedChangeNothing == HttpSpec => []ClientErrorsLeaveNoTrace
<1>1. BlameInv /\ [HttpNext]_httpVars => BlameInv'
  BY HttpTypeStep, TypeInvStep, LayerStep, OriginStep, OwnedStep, BlamelessStep
     DEF BlameInv
<1>2. BlameInv => ClientErrorsLeaveNoTrace
  <2> SUFFICES ASSUME BlameInv, NEW r \in Req,
                      StatusOf(code[r]) \in 400 .. 499, job[r].actor = "named"
               PROVE  LeftNothing(r)
    BY DEF ClientErrorsLeaveNoTrace
  <2>1. code[r] \in {""} \union ErrorCode
    BY DEF BlameInv, HttpTypeOK
  <2>2. code[r] \in AppError
    <3>1. /\ code[r] = "" => StatusOf(code[r]) = 200
          /\ code[r] = "internal_error" => StatusOf(code[r]) = 500
      BY DEF StatusOf
    <3>2. StatusOf(code[r]) # 200 /\ StatusOf(code[r]) # 500
      <4>1. \A n \in 400 .. 499 : n # 200 /\ n # 500
        OBVIOUS
      <4> QED
        BY <4>1
    <3>3. code[r] # "" /\ code[r] # "internal_error"
      BY <3>1, <3>2
    <3> QED
      BY <2>1, <3>3 DEF ErrorCode
  <2>3. after[r] = << >>
    BY <2>2 DEF BlameInv, Blameless
  <2>4. \A id, a : ~ Prepared(r, id, a)
    BY <2>3 DEF Prepared
  <2> QED
    BY <2>3, <2>4 DEF BlameInv, Origin, LeftNothing
<1> QED
  BY <1>1, <1>2, BlameInvInit, PTL DEF HttpSpec

-----------------------------------------------------------------------------
\* Nothing is in flight once main has returned or died.  That Shutdown waits
\* for the handlers is the guard of Drained: net/http promises it.
StopInv == server = "down" => \A r \in Req : ~InFlight(r)

LEMMA StopInvStep == HttpTypeOK /\ StopInv /\ [HttpNext]_httpVars => StopInv'
<1> SUFFICES ASSUME HttpTypeOK, StopInv, [HttpNext]_httpVars PROVE StopInv'
  OBVIOUS
<1>0. stage \in [Req -> {"none", "service", "metered", "replied", "lost"}]
  BY Zenon DEF HttpTypeOK
<1>1. ASSUME NEW r \in Req, Receive(r) PROVE StopInv'
  <2>1. /\ server' # "down"
        /\ stage' \in {[stage EXCEPT ![r] = "metered"],
                       [stage EXCEPT ![r] = "service"]}
    BY <1>1 DEF Receive, Turned, Advance
  <2> QED
    BY <1>0, <2>1 DEF StopInv
<1>2. ASSUME NEW r \in Req, Meter(r) \/ Reply(r) PROVE StopInv'
  <2>1. /\ server' = server /\ InFlight(r)
        /\ stage' \in {[stage EXCEPT ![r] = "metered"],
                       [stage EXCEPT ![r] = "replied"]}
    BY <1>2 DEF Meter, Reply, Advance, InFlight
  <2>2. server' # "down"
    BY <2>1 DEF StopInv
  <2> QED
    BY <1>0, <2>1, <2>2 DEF StopInv
<1>3. CASE Drained
  BY <1>3 DEF Drained, StopInv, InFlight
<1>4. CASE Die
  <2>1. stage' = [r \in Req |-> IF InFlight(r) THEN "lost" ELSE stage[r]]
    BY <1>4 DEF Die
  <2>2. \A r \in Req : ~InFlight(r)'
    BY <2>1 DEF InFlight
  <2> QED
    BY <2>1, <2>2 DEF StopInv
<1>5. ASSUME stage' = stage, server' = server \/ server' = "draining"
      PROVE  StopInv'
  BY <1>5 DEF StopInv, InFlight
<1>6. ASSUME NEW r \in Req, Hangup(r) \/ Work(r) PROVE StopInv'
  BY <1>5, <1>6, WorkServes DEF Hangup, http
<1>7. CASE AskMetrics \/ Visit \/ Signal \/ Over \/ UNCHANGED httpVars
  BY <1>5, <1>7 DEF AskMetrics, Visit, LoadRequests, LoadFailures, LoadWrites,
                    AnswerMetrics, Signal, Over, httpVars, http
<1> QED
  BY <1>1, <1>2, <1>3, <1>4, <1>6, <1>7 DEF HttpNext, Handle

\* So no handler is at work then, for a handler at work is in flight.
AtRest == server = "down" => \A r \in Req : ~Active(r)

LEMMA StopsAtRest == HttpSpec => []AtRest
<1>1. HttpInit => StopInv
  <2>1. HttpInit => server = "up" /\ stage = [r \in Req |-> "none"]
    BY Zenon DEF HttpInit
  <2> QED
    BY <2>1 DEF StopInv
<1>2. HttpTypeOK /\ StopInv => AtRest
  <2> SUFFICES ASSUME HttpTypeOK, StopInv PROVE AtRest
    OBVIOUS
  <2>1. /\ stage \in [Req -> {"none", "service", "metered", "replied", "lost"}]
        /\ \A r \in Req : Active(r) => stage[r] = "service"
    BY Zenon DEF HttpTypeOK
  <2> QED
    BY <2>1 DEF StopInv, AtRest, InFlight
<1> QED
  BY <1>1, <1>2, HttpTypeCorrect, StopInvStep, PTL DEF HttpSpec

\* Both stores say the same of each artifact, without an exception.
StoresExact ==
  /\ \A id \in DOMAIN repo : Explains(Trail(id), repo[id])
  /\ \A e \in audit : e.artifact \in DOMAIN repo

(***************************************************************************)
(* Where clients keep to one request per artifact and rollbacks can write, *)
(* the files of a process that has shut down are exact: every artifact has *)
(* the trail that explains it, and there is no event of any other, however *)
(* many calls of a store had failed.                                       *)
(***************************************************************************)
THEOREM ShutdownLeavesExactStores ==
  ASSUME Exclusive = TRUE, Faults \subseteq {"io", "actor"}
  PROVE  HttpSpec => [](server = "down" => StoresExact)
<1>1. AtRest /\ SettledTrailExact => (server = "down" => StoresExact)
  BY DEF AtRest, SettledTrailExact, Settled, StoresExact
<1>2. Spec => []SettledTrailExact
  BY SettledExact
<1> QED
  BY <1>1, <1>2, StopsAtRest, LayerImplementsCatalog, PTL
=============================================================================

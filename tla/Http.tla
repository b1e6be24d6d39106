-------------------------------- MODULE Http --------------------------------
(***************************************************************************)
(* The HTTP layer around the write path, and the life of the process.  A   *)
(* request is counted, refused or handed to the service, its outcome is    *)
(* counted, and only then answered; GET /metrics reads the counters one    *)
(* after the other meanwhile.  A signal makes the process drain: it waits  *)
(* for the requests it has, unless the timeout or a crash ends it before.  *)
(***************************************************************************)
EXTENDS Catalog

VARIABLES
  server,    \* "up", "draining" after a signal, or "down"
  readOnly,  \* the configuration the process was started with
  stage,     \* how far the answer to each request is
  code,      \* the error code errors.As finds in its error, "" for no error
  counters,  \* observability.Metrics
  visitor    \* the handler of GET /metrics

\* Kept for the properties: what the clients of this process have been told.
VARIABLE told

http == <<server, readOnly, stage, code, counters, visitor, told>>
httpVars == <<vars, http>>

-----------------------------------------------------------------------------
AppError == {"invalid_input", "not_found", "conflict", "invalid_state"}

ErrorCode == AppError \union {"internal_error"}

\* writeError with a default for every error that is nobody's fault.
StatusOfConflicts(c) ==
  CASE c = "invalid_input" -> 400
    [] c = "not_found"     -> 404
    [] OTHER               -> 409

\* The status of writeError, and of an answer without error.
StatusOf(c) ==
  CASE c = ""                              -> 200
    [] c = "invalid_input"                 -> 400
    [] c = "not_found"                     -> 404
    [] c \in {"conflict", "invalid_state"} -> 409
    [] c = "internal_error"                -> 500

\* errors.As goes through the parts of errors.Join in order.
Joined(c, d) == IF c \in AppError THEN c ELSE d

Metrics == [requests : Nat, failures : Nat, writes : Nat]

NoMetrics == [requests |-> 0, failures |-> 0, writes |-> 0]

Visits ==
  [at : {"away", "counted", "requests", "failures", "loaded", "done"},
   known : Metrics, shot : Metrics]

NoVisit == [at |-> "away", known |-> NoMetrics, shot |-> NoMetrics]

InFlight(r) == stage[r] \in {"service", "metered"}

Visiting == visitor.at \notin {"away", "done"}

HttpInit ==
  /\ Init
  /\ server = "up" /\ readOnly \in BOOLEAN
  /\ stage = [r \in Req |-> "none"]
  /\ code = [r \in Req |-> ""]
  /\ counters = NoMetrics /\ told = NoMetrics
  /\ visitor = NoVisit

-----------------------------------------------------------------------------
(***************************************************************************)
(* A request up to the service.  logging counts it; writable refuses it    *)
(* when the process is read-only, decodeJSON when its body does not parse: *)
(* neither counts a failure.  While it drains the server still reads a     *)
(* request from a connection that it has accepted.                         *)
(***************************************************************************)
Advance(r, label) == stage' = [stage EXCEPT ![r] = label]

Fail(r, c) == code' = [code EXCEPT ![r] = c]

Turned(r, c) == Fail(r, c) /\ Advance(r, "metered") /\ UNCHANGED vars

Receive(r) ==
  /\ server # "down" /\ stage[r] = "none"
  /\ counters' = [counters EXCEPT !.requests = @ + 1]
  /\ \/ readOnly /\ Turned(r, "conflict")
     \/ ~readOnly /\ Ops # {"submit_review"} /\ Turned(r, "invalid_input")
     \/ ~readOnly /\ Arrive(r) /\ Advance(r, "service") /\ UNCHANGED code
  /\ UNCHANGED <<server, readOnly, visitor, told>>

Hangup(r) ==
  /\ stage[r] = "service" /\ Cancel(r)
  /\ UNCHANGED http

-----------------------------------------------------------------------------
(***************************************************************************)
(* The service at work, and the error it returns.                          *)
(***************************************************************************)
\* What applyMutation can come to before it saves.
ReadErrors(r) ==
  {c \in ErrorCode :
     \/ c = "internal_error" /\ (gone[r] \/ "io" \in Faults)
     \/ c = "not_found" /\ ~gone[r] /\ job[r].id \notin DOMAIN repo
     \/ /\ ~gone[r] /\ job[r].id \in DOMAIN repo
        /\ LET a == repo[job[r].id]
           IN \/ c = "invalid_state" /\ ~CanApply(a, job[r].op)
              \/ /\ c = "invalid_input" /\ CanApply(a, job[r].op)
                 /\ \E now \in Time : ~Valid(Touch(a, now))}

\* The Delete of a rollback finds nothing to delete.
Missing(r) ==
  pc[r] = "undo" /\ Creating(r) /\ ~gone[r] /\ Item(r, pos[r]) \notin DOMAIN repo

Work(r) ==
  /\ stage[r] = "service"
  /\ \/ Refuse(r) /\ Fail(r, "invalid_input")
     \/ ReadFails(r) /\ \E c \in ReadErrors(r) : Fail(r, c)
     \/ (Prepare(r) \/ Read(r) \/ Save(r) \/ File(r)) /\ UNCHANGED code
     \/ SaveFails(r) /\ Fail(r, "internal_error")
     \/ FileFails(r) /\ Fail(r, IF job[r].actor = "overlong"
                                THEN "invalid_input" ELSE "internal_error")
     \/ /\ Restore(r) \/ Withdraw(r) \/ Scrub(r) \/ Purge(r)
        /\ Fail(r, IF Missing(r) THEN Joined(code[r], "not_found") ELSE code[r])
  /\ UNCHANGED <<server, readOnly, stage, counters, visitor, told>>

-----------------------------------------------------------------------------
(***************************************************************************)
(* The outcome is counted before it is answered.                           *)
(***************************************************************************)
\* A handler that does not wait for the service.
MeterAtOnce(r) ==
  /\ stage[r] = "service"
  /\ counters' = IF pc[r] = "failed" THEN [counters EXCEPT !.failures = @ + 1]
                 ELSE [counters EXCEPT !.writes = @ + 1]
  /\ Advance(r, "metered")
  /\ UNCHANGED <<vars, server, readOnly, code, visitor, told>>

\* A handler that forgets to count its failures.
MeterWrites(r) ==
  /\ stage[r] = "service" /\ pc[r] \in {"ok", "failed"}
  /\ counters' = IF pc[r] = "ok" THEN [counters EXCEPT !.writes = @ + 1]
                 ELSE counters
  /\ Advance(r, "metered")
  /\ UNCHANGED <<vars, server, readOnly, code, visitor, told>>

Meter(r) ==
  /\ stage[r] = "service" /\ pc[r] \in {"ok", "failed"}
  /\ counters' = IF pc[r] = "ok" THEN [counters EXCEPT !.writes = @ + 1]
                 ELSE [counters EXCEPT !.failures = @ + 1]
  /\ Advance(r, "metered")
  /\ UNCHANGED <<vars, server, readOnly, code, visitor, told>>

Tell(r) ==
  told' = [requests |-> told.requests + 1,
           failures |-> told.failures + (IF pc[r] = "failed" THEN 1 ELSE 0),
           writes   |-> told.writes + (IF pc[r] = "ok" THEN 1 ELSE 0)]

\* An answer that is not written any more once the shutdown has begun.
ReplyWhileUp(r) ==
  /\ stage[r] = "metered" /\ server = "up"
  /\ Tell(r)
  /\ Advance(r, "replied")
  /\ UNCHANGED <<vars, server, readOnly, code, counters, visitor>>

Reply(r) ==
  /\ stage[r] = "metered"
  /\ Tell(r)
  /\ Advance(r, "replied")
  /\ UNCHANGED <<vars, server, readOnly, code, counters, visitor>>

Handle(r) == Work(r) \/ Meter(r) \/ Reply(r)

-----------------------------------------------------------------------------
(***************************************************************************)
(* GET /metrics: counted like any request, then Snapshot with its three    *)
(* loads.  known is what the clients had been told when it was asked for.  *)
(***************************************************************************)
AskMetrics ==
  /\ server # "down" /\ visitor.at = "away"
  /\ counters' = [counters EXCEPT !.requests = @ + 1]
  /\ visitor' = [visitor EXCEPT !.at = "counted", !.known = told]
  /\ UNCHANGED <<vars, server, readOnly, stage, code, told>>

LoadRequests ==
  /\ visitor.at = "counted"
  /\ visitor' = [visitor EXCEPT !.at = "requests",
                               !.shot.requests = counters.requests]
  /\ UNCHANGED <<vars, server, readOnly, stage, code, counters, told>>

LoadFailures ==
  /\ visitor.at = "requests"
  /\ visitor' = [visitor EXCEPT !.at = "failures",
                               !.shot.failures = counters.failures]
  /\ UNCHANGED <<vars, server, readOnly, stage, code, counters, told>>

LoadWrites ==
  /\ visitor.at = "failures"
  /\ visitor' = [visitor EXCEPT !.at = "loaded",
                               !.shot.writes = counters.writes]
  /\ UNCHANGED <<vars, server, readOnly, stage, code, counters, told>>

AnswerMetrics ==
  /\ visitor.at = "loaded"
  /\ visitor' = [NoVisit EXCEPT !.at = "done"]
  /\ UNCHANGED <<vars, server, readOnly, stage, code, counters, told>>

Visit == LoadRequests \/ LoadFailures \/ LoadWrites \/ AnswerMetrics

-----------------------------------------------------------------------------
(***************************************************************************)
(* The process.                                                            *)
(***************************************************************************)
Signal ==
  /\ server = "up" /\ server' = "draining"
  /\ UNCHANGED <<vars, readOnly, stage, code, counters, visitor, told>>

\* Shutdown returns: there is no request left, and main returns too.
Drained ==
  /\ server = "draining" /\ server' = "down"
  /\ \A r \in Req : ~InFlight(r)
  /\ ~Visiting
  /\ UNCHANGED <<vars, readOnly, stage, code, counters, visitor, told>>

\* A crash, or a shutdown that times out: the requests in flight are lost.
Die ==
  /\ "crash" \in Faults
  /\ server # "down" /\ server' = "down"
  /\ stage' = [r \in Req |-> IF InFlight(r) THEN "lost" ELSE stage[r]]
  /\ visitor' = IF Visiting THEN [NoVisit EXCEPT !.at = "done"] ELSE visitor
  /\ \/ Crash
     \/ (\A r \in Req : ~Active(r)) /\ UNCHANGED vars
  /\ UNCHANGED <<readOnly, code, counters, told>>

\* Nothing is left to do; the next process is one more instance of Http.
Over == server = "down" /\ UNCHANGED httpVars

HttpNext ==
  \/ \E r \in Req : Receive(r) \/ Hangup(r) \/ Handle(r)
  \/ AskMetrics \/ Visit
  \/ Signal \/ Drained \/ Die \/ Over

HttpSpec == HttpInit /\ [][HttpNext]_httpVars

(***************************************************************************)
(* The scheduler runs every handler, the write timeout ends the answer to  *)
(* a client that does not read it, and Shutdown looks again and again      *)
(* whether there is a request left.  Nobody has to send a signal, and the  *)
(* timeout of the shutdown is not relied on.                               *)
(***************************************************************************)
FairHttpSpec ==
  /\ HttpSpec
  /\ \A r \in Req : WF_httpVars(Handle(r))
  /\ WF_httpVars(Visit)
  /\ WF_httpVars(Drained)

-----------------------------------------------------------------------------
\* The variables of this layer keep their types, and agree with the catalog's.
HttpTypeOK ==
  /\ server \in {"up", "draining", "down"} /\ readOnly \in BOOLEAN
  /\ stage \in [Req -> {"none", "service", "metered", "replied", "lost"}]
  /\ code \in [Req -> {""} \union ErrorCode]
  /\ counters \in Metrics /\ told \in Metrics
  /\ visitor \in Visits
  /\ \A r \in Req : /\ Active(r) => stage[r] = "service"
                    /\ stage[r] = "none" => pc[r] = "idle"

(***************************************************************************)
(* Whoever has been answered sees that in the counters: a snapshot is not  *)
(* behind the answers that were given before it was asked for, although it *)
(* is put together from three reads that other requests come between.      *)
(***************************************************************************)
SnapshotCountsAnswers ==
  visitor.at = "loaded" =>
    /\ visitor.shot.requests > visitor.known.requests
    /\ visitor.shot.failures >= visitor.known.failures
    /\ visitor.shot.writes >= visitor.known.writes

(***************************************************************************)
(* A client that is told that the request was at fault (4xx) has changed   *)
(* nothing, in spite of the order in which the errors of a failed call and *)
(* of its failed rollback are joined: there is no event and no artifact of *)
(* it, and no artifact has the record that it alone has prepared, so that  *)
(* a change that was saved has been undone.  An overlong actor is told so  *)
(* even when the rollback has failed.                                      *)
(***************************************************************************)
Prepared(r, id, a) ==
  \E k \in 1 .. Len(after[r]) : Item(r, k) = id /\ after[r][k] = a

LeftNothing(r) ==
  /\ \A e \in audit : e.id[1] # r
  /\ \A id \in DOMAIN repo :
       /\ id[1] # r
       /\ Prepared(r, id, repo[id]) =>
            \E q \in Req \ {r} : Prepared(q, id, repo[id])

ClientErrorsLeaveNoTrace ==
  \A r \in Req :
    stage[r] = "replied" /\ StatusOf(code[r]) \in 400 .. 499
      /\ job[r].actor = "named"
    => LeftNothing(r)

(***************************************************************************)
(* Every request that reaches the service is answered, unless the process  *)
(* dies first, however many of its calls fail.                             *)
(***************************************************************************)
EveryRequestAnswered ==
  \A r \in Req : InFlight(r) ~> stage[r] \in {"replied", "lost"}

(***************************************************************************)
(* A process that is told to stop stops, by itself, without the timeout.   *)
(***************************************************************************)
Drains == server = "draining" ~> server = "down"
=============================================================================

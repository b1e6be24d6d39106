------------------------------ MODULE Catalog -------------------------------
(***************************************************************************)
(* The write path of catalog.Service: CreateAs, ImportBatch, and the       *)
(* mutations UpdateMetadata, Submit and Review that share applyMutation.   *)
(*                                                                         *)
(* Each HTTP request runs its handler in a goroutine of its own.  A        *)
(* handler reads and writes two stores, the artifact repository and the    *)
(* audit store; each call of a store is atomic (its gate serializes them,  *)
(* and a failed call changes nothing), a handler is not: between any two   *)
(* calls other handlers run, the client may go away, the process may die.  *)
(* When a later call fails the handler undoes the earlier ones by writing  *)
(* the old values back.                                                    *)
(***************************************************************************)
EXTENDS Domain

CONSTANTS
  Req,        \* the requests; each is served at most once
  MaxBatch,   \* the greatest number of items of a batch
  Ops,        \* the operations the clients call
  Faults,     \* what may go wrong, a subset of Fault
  Exclusive   \* whether clients keep to one request per artifact at a time

Op == Mutation \union {"create", "batch"}

(***************************************************************************)
(* io       the repository or the audit store refuses a read or a write    *)
(* rollback the stores refuse a write that undoes another one              *)
(* cancel   the client goes away, and net/http cancels the request context *)
(* crash    the process dies and is started again over the same files      *)
(* actor    the client sends an actor name that is too long                *)
(***************************************************************************)
Fault == {"io", "rollback", "cancel", "crash", "actor"}

ASSUME BatchAssumption == MaxBatch \in Nat \ {0}
ASSUME OpsAssumption == Ops \subseteq Op
ASSUME FaultsAssumption == Faults \subseteq Fault
ASSUME ExclusiveAssumption == Exclusive \in BOOLEAN

VARIABLES
  repo,    \* the artifact repository: a function from identifiers to records
  audit,   \* the audit store: a set of events
  pc,      \* where each request's handler is
  job,     \* what each request asks for
  before,  \* the records the handler started from, one per item
  after,   \* the records it wants to store, one per item
  pos,     \* the item its current loop is at
  filed,   \* how many of its events the audit store took
  gone     \* whether its context is cancelled

stores == <<repo, audit>>
work == <<job, before, after>>
vars == <<repo, audit, pc, job, before, after, pos, filed, gone>>

-----------------------------------------------------------------------------
(***************************************************************************)
(* nextID draws a fresh UUID.  The k-th artifact that request r makes is   *)
(* <<r, k>>, and so is the k-th event it files: no two are ever equal, and *)
(* the duplicate check of Append never bites.                              *)
(***************************************************************************)
Id == Req \X (1 .. MaxBatch)

Actor == {"named", "overlong"}

Job == [op : Op, id : Id, actor : Actor]

Handling == {"start", "save", "append", "undo", "scrub", "purge"}

Ended == {"ok", "failed", "lost"}

Active(r) == pc[r] \in Handling

Creating(r) == job[r].op \in {"create", "batch"}

\* The artifact the k-th item of a request is about.
Item(r, k) == IF Creating(r) THEN <<r, k>> ELSE job[r].id

Items(r) == {Item(r, k) : k \in 1 .. Len(after[r])} \union {Item(r, 1)}

Event(r, k) ==
  NewAuditEvent(<<r, k>>, Item(r, k), before[r][k], after[r][k],
                IF Creating(r) THEN "create" ELSE job[r].op)

Put(f, x, v) == [y \in DOMAIN f \union {x} |-> IF y = x THEN v ELSE f[y]]

Drop(f, x) == [y \in DOMAIN f \ {x} |-> f[y]]

Init ==
  /\ repo = [id \in {} |-> ZeroArtifact]
  /\ audit = {}
  /\ pc = [r \in Req |-> "idle"]
  /\ job = [r \in Req |-> [op |-> "create", id |-> <<r, 1>>, actor |-> "named"]]
  /\ before = [r \in Req |-> << >>]
  /\ after = [r \in Req |-> << >>]
  /\ pos = [r \in Req |-> 1]
  /\ filed = [r \in Req |-> 0]
  /\ gone = [r \in Req |-> FALSE]

-----------------------------------------------------------------------------
(***************************************************************************)
(* The environment: clients, the network and the machine.                  *)
(***************************************************************************)
Arrive(r) ==
  /\ pc[r] = "idle"
  /\ \E op \in Ops, actor \in Actor :
       \E id \in IF op \in Mutation THEN DOMAIN repo ELSE {<<r, 1>>} :
         /\ actor = "overlong" => "actor" \in Faults
         /\ Exclusive => \A q \in Req : Active(q) => id \notin Items(q)
         /\ job' = [job EXCEPT ![r] = [op |-> op, id |-> id, actor |-> actor]]
  /\ pc' = [pc EXCEPT ![r] = "start"]
  /\ UNCHANGED <<stores, before, after, pos, filed, gone>>

\* The client closes the connection before the handler is done.
Cancel(r) ==
  /\ "cancel" \in Faults
  /\ Active(r) /\ ~gone[r]
  /\ gone' = [gone EXCEPT ![r] = TRUE]
  /\ UNCHANGED <<stores, work, pc, pos, filed>>

\* What the stores took is in their files; what the handlers held is not.
Crash ==
  /\ "crash" \in Faults
  /\ \E r \in Req : Active(r)
  /\ pc' = [r \in Req |-> IF Active(r) THEN "lost" ELSE pc[r]]
  /\ UNCHANGED <<stores, work, pos, filed, gone>>

-----------------------------------------------------------------------------
(***************************************************************************)
(* The first part of a handler: checks, and the records to be stored.      *)
(***************************************************************************)
Goto(r, label) == pc' = [pc EXCEPT ![r] = label]

(***************************************************************************)
(* The body does not decode, or its text breaks a limit, or the batch has  *)
(* a wrong size: every operation with a body can be refused before it      *)
(* touches a store.  An overlong actor is refused here by a batch, which   *)
(* builds its events before it saves, and by a review.                     *)
(***************************************************************************)
Refuse(r) ==
  /\ pc[r] = "start"
  /\ job[r].op # "submit_review"
  /\ Goto(r, "failed")
  /\ UNCHANGED <<stores, work, pos, filed, gone>>

ActorChecked(r) == job[r].op \in {"batch", "approve", "return"}

Prepare(r) ==
  /\ pc[r] = "start"
  /\ Creating(r)
  /\ ActorChecked(r) => job[r].actor = "named"
  /\ \E n \in 1 .. (IF job[r].op = "batch" THEN MaxBatch ELSE 1) :
       \E m \in [1 .. n -> Meta], now \in [1 .. n -> Time] :
         /\ before' = [before EXCEPT ![r] = [k \in 1 .. n |-> ZeroArtifact]]
         /\ after' = [after EXCEPT
                        ![r] = [k \in 1 .. n |-> NewArtifact(m[k], now[k])]]
  /\ Goto(r, "save")
  /\ UNCHANGED <<stores, job, pos, filed, gone>>

\* applyMutation up to Save: Get, the mutate closure, Validate.
Read(r) ==
  /\ pc[r] = "start"
  /\ ~Creating(r)
  /\ ActorChecked(r) => job[r].actor = "named"
  /\ ~gone[r]
  /\ job[r].id \in DOMAIN repo
  /\ \E m \in Meta, now \in Time :
       LET a == repo[job[r].id]
           b == Apply(a, job[r].op, m, now)
       IN /\ CanApply(a, job[r].op)
          /\ Valid(b)
          /\ before' = [before EXCEPT ![r] = <<a>>]
          /\ after' = [after EXCEPT ![r] = <<b>>]
  /\ Goto(r, "save")
  /\ UNCHANGED <<stores, job, pos, filed, gone>>

\* Get fails or finds nothing, or mutate or Validate rejects what it found.
ReadFails(r) ==
  /\ pc[r] = "start"
  /\ ~Creating(r)
  /\ ~gone[r] /\ "io" \notin Faults /\ job[r].id \in DOMAIN repo =>
       LET a == repo[job[r].id]
       IN \/ ~CanApply(a, job[r].op)
          \/ \E now \in Time : ~Valid(Touch(a, now))
  /\ Goto(r, "failed")
  /\ UNCHANGED <<stores, work, pos, filed, gone>>

-----------------------------------------------------------------------------
(***************************************************************************)
(* Save every record, then append every event.                             *)
(***************************************************************************)
Last(r) == pos[r] = Len(after[r])

Save(r) ==
  /\ pc[r] = "save"
  /\ ~gone[r]
  /\ repo' = Put(repo, Item(r, pos[r]), after[r][pos[r]])
  /\ IF Last(r)
       THEN pos' = [pos EXCEPT ![r] = 1] /\ Goto(r, "append")
       ELSE pos' = [pos EXCEPT ![r] = @ + 1] /\ UNCHANGED pc
  /\ UNCHANGED <<audit, work, filed, gone>>

\* A failed Save that is always undone, also when nothing was saved.
SaveFailsThenUndoes(r) ==
  /\ pc[r] = "save"
  /\ gone[r] \/ "io" \in Faults
  /\ Goto(r, "undo") /\ pos' = [pos EXCEPT ![r] = @ - 1]
  /\ UNCHANGED <<stores, work, filed, gone>>

\* A failed Save that is overlooked.
SaveFailsUnseen(r) ==
  /\ pc[r] = "save"
  /\ gone[r] \/ "io" \in Faults
  /\ IF Last(r)
       THEN pos' = [pos EXCEPT ![r] = 1] /\ Goto(r, "append")
       ELSE pos' = [pos EXCEPT ![r] = @ + 1] /\ UNCHANGED pc
  /\ UNCHANGED <<stores, work, filed, gone>>

SaveFails(r) ==
  /\ pc[r] = "save"
  /\ gone[r] \/ "io" \in Faults
  /\ IF pos[r] = 1
       THEN Goto(r, "failed") /\ UNCHANGED pos
       ELSE Goto(r, "undo") /\ pos' = [pos EXCEPT ![r] = @ - 1]
  /\ UNCHANGED <<stores, work, filed, gone>>

File(r) ==
  /\ pc[r] = "append"
  /\ ~gone[r] /\ job[r].actor = "named"
  /\ audit' = audit \union {Event(r, pos[r])}
  /\ filed' = [filed EXCEPT ![r] = @ + 1]
  /\ IF Last(r)
       THEN Goto(r, "ok") /\ UNCHANGED pos
       ELSE pos' = [pos EXCEPT ![r] = @ + 1] /\ UNCHANGED pc
  /\ UNCHANGED <<repo, work, gone>>

\* A failed Append that is reported without a rollback.
FileFailsAtOnce(r) ==
  /\ pc[r] = "append"
  /\ gone[r] \/ "io" \in Faults \/ job[r].actor = "overlong"
  /\ Goto(r, "failed")
  /\ UNCHANGED <<stores, work, pos, filed, gone>>

\* A failed Append that is overlooked.
FileFailsUnseen(r) ==
  /\ pc[r] = "append"
  /\ gone[r] \/ "io" \in Faults \/ job[r].actor = "overlong"
  /\ Goto(r, "ok")
  /\ UNCHANGED <<stores, work, pos, filed, gone>>

\* NewAuditEvent rejects the actor, or Append fails.
FileFails(r) ==
  /\ pc[r] = "append"
  /\ gone[r] \/ "io" \in Faults \/ job[r].actor = "overlong"
  /\ Goto(r, "undo")
  /\ pos' = [pos EXCEPT ![r] = Len(after[r])]
  /\ UNCHANGED <<stores, work, filed, gone>>

-----------------------------------------------------------------------------
(***************************************************************************)
(* The rollbacks.  They write with the context of the request they undo,   *)
(* so that each of them fails once the client has gone.                    *)
(***************************************************************************)
RollbackFails(r) == gone[r] \/ "rollback" \in Faults

\* A rollback that mixes up the two records.
RestoreAfter(r) ==
  /\ pc[r] = "undo"
  /\ ~Creating(r)
  /\ \/ ~gone[r] /\ repo' = Put(repo, job[r].id, after[r][1])
     \/ RollbackFails(r) /\ UNCHANGED repo
  /\ Goto(r, "failed")
  /\ UNCHANGED <<audit, work, pos, filed, gone>>

\* A rollback that deletes the artifact, as that of a create does.
RestoreNothing(r) ==
  /\ pc[r] = "undo"
  /\ ~Creating(r)
  /\ \/ ~gone[r] /\ repo' = Drop(repo, job[r].id)
     \/ RollbackFails(r) /\ UNCHANGED repo
  /\ Goto(r, "failed")
  /\ UNCHANGED <<audit, work, pos, filed, gone>>

\* applyMutation: save the record the mutation started from.
Restore(r) ==
  /\ pc[r] = "undo"
  /\ ~Creating(r)
  /\ \/ ~gone[r] /\ repo' = Put(repo, job[r].id, before[r][1])
     \/ RollbackFails(r) /\ UNCHANGED repo
  /\ Goto(r, "failed")
  /\ UNCHANGED <<audit, work, pos, filed, gone>>

\* CreateAs reusing rollbackArtifacts.
WithdrawAndScrub(r) ==
  /\ pc[r] = "undo"
  /\ Creating(r)
  /\ \/ ~gone[r] /\ repo' = Drop(repo, Item(r, pos[r]))
     \/ RollbackFails(r) /\ UNCHANGED repo
  /\ Goto(r, "scrub")
  /\ UNCHANGED <<audit, work, pos, filed, gone>>

\* CreateAs and rollbackArtifacts: delete a new artifact.  Delete reports an
\* artifact that is not there, and leaves the store alone, as Drop does.
Withdraw(r) ==
  /\ pc[r] = "undo"
  /\ Creating(r)
  /\ \/ ~gone[r] /\ repo' = Drop(repo, Item(r, pos[r]))
     \/ RollbackFails(r) /\ UNCHANGED repo
  /\ Goto(r, IF job[r].op = "create" THEN "failed" ELSE "scrub")
  /\ UNCHANGED <<audit, work, pos, filed, gone>>

DeleteByArtifact(r, id) ==
  \/ ~gone[r] /\ audit' = {e \in audit : e.artifact # id}
  \/ RollbackFails(r) /\ UNCHANGED audit

\* A loop that starts over at the item it has just undone.
ScrubAgain(r) ==
  /\ pc[r] = "scrub"
  /\ DeleteByArtifact(r, Item(r, pos[r]))
  /\ IF pos[r] > 1
       THEN UNCHANGED pos /\ Goto(r, "undo")
       ELSE UNCHANGED pos /\ Goto(r, IF filed[r] > 0 THEN "purge" ELSE "failed")
  /\ UNCHANGED <<repo, work, filed, gone>>

\* rollbackArtifacts, the second half of its loop body; the loop counts down.
Scrub(r) ==
  /\ pc[r] = "scrub"
  /\ DeleteByArtifact(r, Item(r, pos[r]))
  /\ IF pos[r] > 1
       THEN pos' = [pos EXCEPT ![r] = @ - 1] /\ Goto(r, "undo")
       ELSE UNCHANGED pos /\ Goto(r, IF filed[r] > 0 THEN "purge" ELSE "failed")
  /\ UNCHANGED <<repo, work, filed, gone>>

\* ImportBatch, the loop over the events it had appended; it counts up.
Purge(r) ==
  /\ pc[r] = "purge"
  /\ DeleteByArtifact(r, Item(r, pos[r]))
  /\ IF pos[r] < filed[r]
       THEN pos' = [pos EXCEPT ![r] = @ + 1] /\ UNCHANGED pc
       ELSE UNCHANGED pos /\ Goto(r, "failed")
  /\ UNCHANGED <<repo, work, filed, gone>>

-----------------------------------------------------------------------------
Serve(r) ==
  \/ Refuse(r) \/ Prepare(r) \/ Read(r) \/ ReadFails(r)
  \/ Save(r) \/ SaveFails(r) \/ File(r) \/ FileFails(r)
  \/ Restore(r) \/ Withdraw(r) \/ Scrub(r) \/ Purge(r)

\* Every request is answered or lost, and no client has another one.
Quiet == (\A r \in Req : pc[r] \in Ended) /\ UNCHANGED vars

Next == (\E r \in Req : Arrive(r) \/ Cancel(r) \/ Serve(r)) \/ Crash \/ Quiet

Spec == Init /\ [][Next]_vars

-----------------------------------------------------------------------------
TypeOK ==
  /\ DOMAIN repo \subseteq Id /\ repo \in [DOMAIN repo -> Artifact]
  /\ audit \subseteq AuditEvent(Id, Id)
  /\ pc \in [Req -> {"idle"} \union Handling \union Ended]
  /\ job \in [Req -> Job]
  /\ before \in [Req -> Seq(Artifact \union {ZeroArtifact})]
  /\ after \in [Req -> Seq(Artifact)]
  /\ pos \in [Req -> Nat \ {0}]
  /\ filed \in [Req -> Nat]
  /\ gone \in [Req -> BOOLEAN]
  /\ \A r \in Req :
       /\ Len(before[r]) = Len(after[r]) /\ Len(after[r]) <= MaxBatch
       /\ filed[r] <= Len(after[r])
       /\ Active(r) /\ pc[r] # "start" => pos[r] <= Len(after[r])

(***************************************************************************)
(* Under every interleaving and every failure, also with lost updates and  *)
(* rollbacks that write stale records back, a stored record is one that    *)
(* a single history of transitions could have made.                        *)
(***************************************************************************)
RecordsSound ==
  /\ \A id \in DOMAIN repo : Sound(repo[id])
  /\ \A r \in Req : \A k \in 1 .. Len(after[r]) : Sound(after[r][k])

(***************************************************************************)
(* Nothing becomes public unreviewed: an approved record is what an        *)
(* approve request made of a record that a submit request had made for the *)
(* same artifact, with the same metadata.                                  *)
(***************************************************************************)
SubmittedAs(id, a) ==
  \E r \in Req :
    job[r].op = "submit_review" /\ job[r].id = id /\ after[r] = <<a>>

ApprovedAs(id, a) ==
  \E r \in Req :
    /\ job[r].op = "approve" /\ job[r].id = id /\ after[r] = <<a>>
    /\ SubmittedAs(id, before[r][1])
    /\ before[r][1].meta = a.meta

PublicWasReviewed ==
  \A id \in DOMAIN repo :
    repo[id].status = "approved" => ApprovedAs(id, repo[id])

(***************************************************************************)
(* An event leaves the trail only while the batch that made its artifact   *)
(* rolls back: a single create, and a batch that was acknowledged, never   *)
(* lose one, whatever other requests fail.                                 *)
(***************************************************************************)
OnlyFailingBatchesEraseEvents ==
  [][\A e \in audit \ audit' :
       LET maker == e.artifact[1]
       IN job[maker].op = "batch" /\ pc[maker] \in {"scrub", "purge"}]_vars

(***************************************************************************)
(* A request may only take back what it has made: the artifact that an     *)
(* acknowledged request has made or changed is there, unless the create or *)
(* the batch that made it has failed; nobody else's rollback removes it.   *)
(***************************************************************************)
TakenBack(id) == pc[id[1]] \in {"undo", "scrub", "purge", "failed", "lost"}

OnlyMakersTakeBack ==
  \A r \in Req : pc[r] = "ok" =>
    \A k \in 1 .. Len(after[r]) :
      Item(r, k) \in DOMAIN repo \/ TakenBack(Item(r, k))

(***************************************************************************)
(* While no call fails, the trail has no hole, however requests interleave *)
(* and however many updates are lost: for each version up to the stored    *)
(* one there is an event, or a handler that is about to file it.           *)
(***************************************************************************)
TrailHasNoGaps ==
  \A id \in DOMAIN repo : \A v \in 1 .. repo[id].version :
    \/ \E e \in audit : e.artifact = id /\ e.version = v
    \/ \E r \in Req :
         /\ pc[r] \in {"save", "append"}
         /\ \E k \in 1 .. Len(after[r]) :
              Item(r, k) = id /\ after[r][k].version = v

(***************************************************************************)
(* A change that was answered with success stays: its events are in the    *)
(* trail and no older version comes back.                                  *)
(***************************************************************************)
AcknowledgedDurable ==
  \A r \in Req : pc[r] = "ok" =>
    \A k \in 1 .. Len(after[r]) :
      /\ Event(r, k) \in audit
      /\ Item(r, k) \in DOMAIN repo
      /\ repo[Item(r, k)].version >= after[r][k].version

(***************************************************************************)
(* The trail never claims a version that the repository does not have, and *)
(* only a batch that did not succeed leaves events without an artifact.    *)
(***************************************************************************)
TrailNeverAhead ==
  \A e \in audit :
    IF e.artifact \in DOMAIN repo
      THEN e.version <= repo[e.artifact].version
      ELSE LET maker == e.artifact[1]
           IN job[maker].op = "batch" /\ pc[maker] # "ok"

(***************************************************************************)
(* A record is ahead of its trail only for a reason.  If a stored version  *)
(* has no event, the request that made it is still at work, or died, or    *)
(* failed and could not take it back: a crash between Save and Append, a   *)
(* shutdown that timed out or a cancelled rollback leaves such a gap,      *)
(* nothing else does, and no request that was answered with success is     *)
(* behind one, nor one that failed while its client stayed.                *)
(***************************************************************************)
Excused(r) ==
  \/ Active(r)
  \/ pc[r] = "lost"
  \/ pc[r] = "failed" /\ RollbackFails(r)

GapsExcused ==
  \A id \in DOMAIN repo : \A v \in 1 .. repo[id].version :
    \/ \E e \in audit : e.artifact = id /\ e.version = v
    \/ \E r \in Req : /\ Excused(r)
                     /\ \E k \in 1 .. Len(after[r]) :
                          Item(r, k) = id /\ after[r][k].version = v

(***************************************************************************)
(* An artifact no handler is working on has exactly the trail that         *)
(* explains it: a failed request has left nothing, in either store.        *)
(***************************************************************************)
Settled(id) == \A r \in Req : Active(r) => id \notin Items(r)

Trail(id) == {e \in audit : e.artifact = id}

SettledTrailExact ==
  /\ \A id \in DOMAIN repo : Settled(id) => Explains(Trail(id), repo[id])
  /\ \A e \in audit : Settled(e.artifact) => e.artifact \in DOMAIN repo

(***************************************************************************)
(* Every handler comes to an end, whichever calls fail and whenever its    *)
(* client leaves: it saves its items and then appends their events, both   *)
(* counting up, a rollback counts down over what was saved, and the last   *)
(* loop up again over what was appended.  StepsLeft is how many steps it   *)
(* has before it at most; each of its own is one of them, and nobody else  *)
(* sends it back.                                                          *)
(***************************************************************************)
StepsLeft(r) ==
  LET n == Len(after[r])
  IN CASE pc[r] = "start"  -> 5 * MaxBatch + 2
       [] pc[r] = "save"   -> 5 * n + 2 - pos[r]
       [] pc[r] = "append" -> 4 * n + 2 - pos[r]
       [] pc[r] = "undo"   -> n + 2 * pos[r] + 1
       [] pc[r] = "scrub"  -> n + 2 * pos[r]
       [] pc[r] = "purge"  -> n + 1 - pos[r]
       [] OTHER            -> 0

HandlersAdvance ==
  [][\A r \in Req : Active(r) =>
       /\ StepsLeft(r) \in 1 .. 5 * MaxBatch + 2
       /\ StepsLeft(r)' <= StepsLeft(r)
       /\ Serve(r) => StepsLeft(r)' < StepsLeft(r)]_vars

(***************************************************************************)
(* PROJECT_SPEC.md, status rules: a submitted artifact's metadata can no   *)
(* longer be edited.                                                       *)
(***************************************************************************)
SubmittedMetaFrozen ==
  [][\A id \in DOMAIN repo \intersect DOMAIN repo' :
       repo[id].status # "draft" => repo'[id].meta = repo[id].meta]_vars

(***************************************************************************)
(* README.md: every change makes an audit event that cannot be             *)
(* overwritten.                                                            *)
(***************************************************************************)
AcknowledgedAudited ==
  \A r \in Req : pc[r] = "ok" =>
    \A k \in 1 .. Len(after[r]) : Event(r, k) \in audit

-----------------------------------------------------------------------------
(***************************************************************************)
(* The stores as the clients of a quiet archive should see them.  What a   *)
(* create or a batch has stored so far is not there before its last event  *)
(* is filed; a mutated artifact has its former record until then.          *)
(***************************************************************************)
Hidden ==
  UNION {Items(r) : r \in {q \in Req : Active(q) /\ Creating(q)}}

Mutating(id) ==
  {r \in Req : pc[r] \in {"append", "undo"} /\ ~Creating(r) /\ job[r].id = id}

PublicStore ==
  [id \in DOMAIN repo \ Hidden |->
     IF Mutating(id) = {} THEN repo[id]
     ELSE before[CHOOSE r \in Mutating(id) : TRUE][1]]

PublicTrail ==
  {[e EXCEPT !.id = "event"] : e \in {f \in audit : f.artifact \notin Hidden}}

Promised == INSTANCE Archive WITH store <- PublicStore, trail <- PublicTrail

(***************************************************************************)
(* While clients keep to one request per artifact and only forward calls   *)
(* fail, the handlers implement the abstract archive: each takes effect at *)
(* the filing of its last event, or not at all.                            *)
(***************************************************************************)
ImplementsArchive == Promised!Spec
=============================================================================

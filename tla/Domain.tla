------------------------------- MODULE Domain -------------------------------
(***************************************************************************)
(* The domain package: the artifact entity, its lifecycle transitions, its *)
(* validation rules and the audit events that record its changes.          *)
(*                                                                         *)
(* Free text (title, summary, source, tags, notes) is abstracted to one    *)
(* metadata value per artifact; an identifier is the key the stores keep   *)
(* the record under, so ID and Review.ArtifactID are not fields here.      *)
(***************************************************************************)
EXTENDS Integers, Sequences

CONSTANTS
  Meta,   \* the metadata values that pass CreateArtifact.Validate
  Blank,  \* the metadata of the zero Artifact{}, which does not
  Time    \* the readings the wall clock can give; it may be set back

ASSUME MetaAssumption == Blank \notin Meta
ASSUME TimeAssumption == Time \subseteq Nat \ {0}

NoTime == 0   \* a nil *time.Time, or the zero time.Time

Status == {"draft", "pending_review", "approved"}

Decision == {"approve", "return"}

(***************************************************************************)
(* The actions of the lifecycle: Create makes a draft, the four others are *)
(* the ones ApplyTransition knows.                                         *)
(***************************************************************************)
Mutation == {"update_metadata", "submit_review", "approve", "return"}

TransitionAction == Mutation \union {"create"}

Artifact == [status    : Status,
             version   : Nat \ {0},
             meta      : Meta,
             created   : Time,
             updated   : Time,
             submitted : Time \union {NoTime},
             decided   : Time \union {NoTime},
             reviews   : Seq(Decision)]

ZeroArtifact == [status    |-> "",
                 version   |-> 0,
                 meta      |-> Blank,
                 created   |-> NoTime,
                 updated   |-> NoTime,
                 submitted |-> NoTime,
                 decided   |-> NoTime,
                 reviews   |-> << >>]

\* The draft that CreateAs and ImportBatch build from a request body.
NewArtifact(m, now) ==
  [status    |-> "draft",
   version   |-> 1,
   meta      |-> m,
   created   |-> now,
   updated   |-> now,
   submitted |-> NoTime,
   decided   |-> NoTime,
   reviews   |-> << >>]

-----------------------------------------------------------------------------
(***************************************************************************)
(* Artifact.Validate, without the text limits that Meta stands for: what   *)
(* JSONStore.Save and JSONStore.ensureLoaded demand of a record.  Nothing  *)
(* orders updated after its previous value, or decided after submitted.    *)
(***************************************************************************)
Valid(a) ==
  /\ a.meta \in Meta
  /\ a.status \in Status
  /\ a.version >= 1
  /\ a.created # NoTime /\ a.updated # NoTime
  /\ a.updated >= a.created
  /\ a.submitted # NoTime => a.submitted >= a.created
  /\ a.decided # NoTime => a.submitted # NoTime

(***************************************************************************)
(* ApplyTransition.  CanApply is the status check of its four cases (the   *)
(* completeness check of CanSubmit holds of all valid metadata); Apply is  *)
(* the record it returns together with what the caller's mutate closure    *)
(* adds: the new metadata of UpdateMetadata, the review of Review.         *)
(***************************************************************************)
\* The status check of a review that only looks whether it is decided.
CanApplyUndecided(a, action) ==
  \/ action \in {"update_metadata", "submit_review"} /\ a.status = "draft"
  \/ action \in {"approve", "return"} /\ a.status # "approved"

CanApply(a, action) ==
  \/ action \in {"update_metadata", "submit_review"} /\ a.status = "draft"
  \/ action \in {"approve", "return"} /\ a.status = "pending_review"

Touch(a, now) == [a EXCEPT !.version = @ + 1, !.updated = now]

\* A re-submission that keeps the decision of the round before.
SubmitKeepsDecision(a, now) ==
  [Touch(a, now) EXCEPT !.status = "pending_review", !.submitted = now]

Submit(a, now) ==
  [Touch(a, now) EXCEPT !.status = "pending_review", !.submitted = now,
                        !.decided = NoTime]

Decide(a, decision, now) ==
  [Touch(a, now) EXCEPT
     !.status  = IF decision = "approve" THEN "approved" ELSE "draft",
     !.decided = now,
     !.reviews = Append(@, decision)]

Apply(a, action, m, now) ==
  CASE action = "update_metadata" -> [Touch(a, now) EXCEPT !.meta = m]
    [] action = "submit_review"   -> Submit(a, now)
    [] action \in Decision        -> Decide(a, action, now)

-----------------------------------------------------------------------------
(***************************************************************************)
(* NewAuditEvent.  `actor' and `note' are not kept: nothing reads them     *)
(* back.  Nor is `occurred_at', which only orders events of one version.   *)
(***************************************************************************)
AuditEvent(EventId, ArtifactId) ==
  [id       : EventId,
   artifact : ArtifactId,
   action   : TransitionAction,
   from     : Status \union {""},
   to       : Status,
   version  : Nat \ {0}]

\* An event that carries the version the change started from.
EventOfBefore(id, artifact, before, after, action) ==
  [id |-> id, artifact |-> artifact, action |-> action,
   from |-> before.status, to |-> after.status, version |-> before.version]

NewAuditEvent(id, artifact, before, after, action) ==
  [id       |-> id,
   artifact |-> artifact,
   action   |-> action,
   from     |-> before.status,
   to       |-> after.status,
   version  |-> after.version]

-----------------------------------------------------------------------------
(***************************************************************************)
(* A record is Sound when one lifecycle history explains all of it: its    *)
(* status agrees with its last review and its timestamps, only the last    *)
(* review can be an approval, and the version counts at least a submission *)
(* and a decision per review.  Valid, which the code tests, is weaker.     *)
(***************************************************************************)
Sound(a) ==
  /\ Valid(a)
  /\ a.status = "draft" =>
       /\ \A i \in 1 .. Len(a.reviews) : a.reviews[i] = "return"
       /\ a.decided # NoTime <=> Len(a.reviews) > 0
       /\ a.version >= 1 + 2 * Len(a.reviews)
  /\ a.status = "pending_review" =>
       /\ \A i \in 1 .. Len(a.reviews) : a.reviews[i] = "return"
       /\ a.submitted # NoTime /\ a.decided = NoTime
       /\ a.version >= 2 + 2 * Len(a.reviews)
  /\ a.status = "approved" =>
       /\ Len(a.reviews) > 0
       /\ \A i \in 1 .. Len(a.reviews) :
            a.reviews[i] = IF i = Len(a.reviews) THEN "approve" ELSE "return"
       /\ a.submitted # NoTime /\ a.decided # NoTime
       /\ a.version >= 1 + 2 * Len(a.reviews)

(***************************************************************************)
(* A trail, the set of an artifact's events, Explains its record when it   *)
(* has exactly one event per version, each event starts in the status the  *)
(* one before it ended in, and the last one ends in the record's status.   *)
(***************************************************************************)
Explains(trail, a) ==
  /\ \A v \in 1 .. a.version : \E e \in trail : e.version = v
  /\ \A e \in trail : e.version \in 1 .. a.version
  /\ \A e, f \in trail :
       /\ e.version = f.version => e = f
       /\ f.version = e.version + 1 => f.from = e.to
  /\ \A e \in trail :
       /\ e.version = 1 => e.action = "create" /\ e.to = "draft"
       /\ e.version = a.version => e.to = a.status
=============================================================================

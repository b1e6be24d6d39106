---------------------------- MODULE DomainProofs ----------------------------
(***************************************************************************)
(* What the lifecycle of the domain package guarantees of one record.      *)
(***************************************************************************)
EXTENDS Domain, TLAPS

(***************************************************************************)
(* A draft made from a valid request body (CreateAs, ImportBatch) is a     *)
(* well-formed record, and a sound one.                                    *)
(***************************************************************************)
LEMMA NewArtifactSound ==
  ASSUME NEW m \in Meta, NEW now \in Time
  PROVE  /\ NewArtifact(m, now) \in Artifact
         /\ Sound(NewArtifact(m, now))
         /\ NewArtifact(m, now).status = "draft"
         /\ NewArtifact(m, now).version = 1
<1> DEFINE a == NewArtifact(m, now)
<1>1. now \in Nat \ {0}
  BY TimeAssumption
<1>2. a \in Artifact
  BY DEF NewArtifact, Artifact, Status, NoTime
<1>3. Valid(a)
  BY <1>1 DEF NewArtifact, Valid, Status, NoTime
<1>4. Sound(a)
  BY <1>3 DEF NewArtifact, Sound, NoTime
<1> QED
  BY <1>2, <1>4 DEF NewArtifact

(***************************************************************************)
(* Every transition of ApplyTransition adds one version and yields a       *)
(* record of the right type.                                               *)
(***************************************************************************)
LEMMA ApplyType ==
  ASSUME NEW a \in Artifact, NEW action \in Mutation,
         NEW m \in Meta, NEW now \in Time
  PROVE  /\ Apply(a, action, m, now) \in Artifact
         /\ Apply(a, action, m, now).version = a.version + 1
<1> DEFINE b == Apply(a, action, m, now)
           t == Touch(a, now)
<1>1. t \in Artifact /\ t.version = a.version + 1
  <2>1. a.version + 1 \in Nat \ {0}
    BY DEF Artifact
  <2> QED
    BY <2>1 DEF Touch, Artifact
<1> HIDE DEF t
<1>2. CASE action = "update_metadata"
  <2>1. b = [t EXCEPT !.meta = m]
    BY <1>2 DEF Apply, Decision, t
  <2> QED
    BY <1>1, <2>1 DEF Artifact
<1>3. CASE action = "submit_review"
  <2>1. b = [t EXCEPT !.status = "pending_review", !.submitted = now,
                      !.decided = NoTime]
    BY <1>3 DEF Apply, Submit, Decision, t
  <2>2. \A s \in Status, d \in Time \union {NoTime} :
          LET c == [t EXCEPT !.status = s, !.submitted = now, !.decided = d]
          IN c \in Artifact /\ c.version = a.version + 1
    BY <1>1 DEF Artifact
  <2>3. "pending_review" \in Status
    BY DEF Status
  <2> QED
    BY <2>1, <2>2, <2>3
<1>4. CASE action \in Decision
  <2> DEFINE s == IF action = "approve" THEN "approved" ELSE "draft"
             q == Append(t.reviews, action)
  <2>1. b = [t EXCEPT !.status = s, !.decided = now, !.reviews = q]
    BY <1>4 DEF Apply, Decide, Decision, t
  <2>2. q \in Seq(Decision)
    BY <1>1, <1>4 DEF Artifact
  <2>3. s \in Status
    BY DEF Status
  <2> HIDE DEF s, q
  <2>4. LET c == [t EXCEPT !.status = s, !.decided = now, !.reviews = q]
        IN c \in Artifact /\ c.version = a.version + 1
    BY <1>1, <2>2, <2>3 DEF Artifact
  <2> QED
    BY <2>1, <2>4
<1> QED
  BY <1>2, <1>3, <1>4 DEF Mutation, Decision

(***************************************************************************)
(* A transition that CanApply allows and Valid accepts turns a sound       *)
(* record into a sound one.                                                *)
(***************************************************************************)
LEMMA ApplySound ==
  ASSUME NEW a \in Artifact, NEW action \in Mutation,
         NEW m \in Meta, NEW now \in Time,
         Sound(a), CanApply(a, action), Valid(Apply(a, action, m, now))
  PROVE  Sound(Apply(a, action, m, now))
<1> DEFINE b == Apply(a, action, m, now)
<1>1. now # NoTime
  BY TimeAssumption DEF NoTime
<1>2. /\ a.version \in Nat /\ a.reviews \in Seq(Decision)
      /\ Len(a.reviews) \in Nat
  BY DEF Artifact
<1>3. CASE action = "update_metadata"
  <2>1. /\ a.status = "draft" /\ b.status = "draft"
        /\ b.reviews = a.reviews /\ b.decided = a.decided
        /\ b.version = a.version + 1
    BY <1>3 DEF Apply, Touch, CanApply, Artifact, Decision
  <2> QED
    BY <1>2, <2>1 DEF Sound
<1>4. CASE action = "submit_review"
  <2>1. /\ a.status = "draft" /\ b.status = "pending_review"
        /\ b.reviews = a.reviews /\ b.decided = NoTime /\ b.submitted = now
        /\ b.version = a.version + 1
    BY <1>4 DEF Apply, Submit, Touch, CanApply, Artifact, Decision
  <2> QED
    BY <1>1, <1>2, <2>1 DEF Sound
<1>5. CASE action \in Decision
  <2>1. /\ a.status = "pending_review"
        /\ b.status = IF action = "approve" THEN "approved" ELSE "draft"
        /\ b.reviews = Append(a.reviews, action)
        /\ b.decided = now /\ b.submitted = a.submitted
        /\ b.version = a.version + 1
    BY <1>5 DEF Apply, Decide, Touch, CanApply, Artifact, Decision
  <2>2. /\ Len(b.reviews) = Len(a.reviews) + 1
        /\ \A i \in 1 .. Len(a.reviews) : b.reviews[i] = a.reviews[i]
        /\ b.reviews[Len(a.reviews) + 1] = action
    BY <1>2, <1>5, <2>1
  <2>3. /\ \A i \in 1 .. Len(a.reviews) : a.reviews[i] = "return"
        /\ a.submitted # NoTime
        /\ a.version >= 2 + 2 * Len(a.reviews)
    BY <2>1 DEF Sound
  <2>4. \A i \in 1 .. Len(b.reviews) :
          b.reviews[i] = IF i = Len(b.reviews) THEN action ELSE "return"
    BY <1>2, <2>2, <2>3
  <2>5. b.version >= 1 + 2 * Len(b.reviews) /\ Len(b.reviews) > 0
    BY <1>2, <2>1, <2>2, <2>3
  <2>6. CASE action = "approve"
    BY <1>1, <2>1, <2>3, <2>4, <2>5, <2>6 DEF Sound
  <2>7. CASE action = "return"
    BY <1>1, <2>1, <2>4, <2>5, <2>7 DEF Sound
  <2> QED
    BY <1>5, <2>6, <2>7 DEF Decision
<1> QED
  BY <1>3, <1>4, <1>5 DEF Mutation, Decision
-----------------------------------------------------------------------------
\* A trail of one create event explains a new draft.
LEMMA FirstExplains ==
  ASSUME NEW n, NEW a, n.action = "create", n.to = "draft", n.version = 1,
         a.status = "draft", a.version = 1
  PROVE  Explains({n}, a)
<1>1. \A v \in 1 .. 1 : v = 1
  OBVIOUS
<1> QED
  BY <1>1 DEF Explains

\* A trail that explains a record explains the next one with one more event.
LEMMA NextExplains ==
  ASSUME NEW events, NEW n, NEW b, NEW a,
         n.from = b.status, n.to = a.status, n.version = a.version,
         b.version \in Nat \ {0}, a.version = b.version + 1,
         Explains(events, b)
  PROVE  Explains(events \union {n}, a)
<1>1. /\ \A v \in 1 .. b.version : \E e \in events : e.version = v
      /\ \A e \in events : e.version \in 1 .. b.version
      /\ \A e, f \in events :
           /\ e.version = f.version => e = f
           /\ f.version = e.version + 1 => f.from = e.to
      /\ \A e \in events :
           /\ e.version = 1 => e.action = "create" /\ e.to = "draft"
           /\ e.version = b.version => e.to = b.status
  BY DEF Explains
<1>2. \A v \in 1 .. a.version : \E e \in events \union {n} : e.version = v
  <2> SUFFICES ASSUME NEW v \in 1 .. a.version
               PROVE  \E e \in events \union {n} : e.version = v
    OBVIOUS
  <2>1. v \in 1 .. b.version \/ v = n.version
    OBVIOUS
  <2> QED
    BY <1>1, <2>1
<1>3. \A e \in events \union {n} : e.version \in 1 .. a.version
  BY <1>1
<1>4. \A e, f \in events \union {n} :
        /\ e.version = f.version => e = f
        /\ f.version = e.version + 1 => f.from = e.to
  <2> SUFFICES ASSUME NEW e \in events \union {n}, NEW f \in events \union {n}
               PROVE  /\ e.version = f.version => e = f
                      /\ f.version = e.version + 1 => f.from = e.to
    OBVIOUS
  <2>1. CASE e \in events /\ f \in events
    BY <1>1, <2>1
  <2>2. CASE e = n /\ f \in events
    BY <1>1, <2>2
  <2>3. CASE e \in events /\ f = n
    BY <1>1, <2>3
  <2>4. CASE e = n /\ f = n
    BY <2>4
  <2> QED
    BY <2>1, <2>2, <2>3, <2>4
<1>5. \A e \in events \union {n} :
        /\ e.version = 1 => e.action = "create" /\ e.to = "draft"
        /\ e.version = a.version => e.to = a.status
  BY <1>1
<1> QED
  BY <1>2, <1>3, <1>4, <1>5 DEF Explains
=============================================================================

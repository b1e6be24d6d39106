--------------------------- MODULE ArchiveProofs ----------------------------
(***************************************************************************)
(* What the abstract archive guarantees, for any identifiers, metadata and *)
(* clock.                                                                  *)
(***************************************************************************)
EXTENDS Archive, DomainProofs

StoreTyped == store \in [DOMAIN store -> Artifact]

ExactInv == StoreTyped /\ TrailExact

\* The trail of one artifact.
Of(id) == {e \in trail : e.artifact = id}

LEMMA EntryFields ==
  ASSUME NEW id, NEW b, NEW a, NEW action
  PROVE  LET e == Entry(id, b, a, action)
         IN /\ e.artifact = id /\ e.action = action
            /\ e.from = b.status /\ e.to = a.status /\ e.version = a.version
  BY DEF Entry, NewAuditEvent

LEMMA TakeInExact ==
  ASSUME ExactInv, NEW ids \in SUBSET (Id \ DOMAIN store), TakeIn(ids)
  PROVE  ExactInv'
<1>1. PICK draft \in [ids -> Drafts] :
        /\ store' = [id \in DOMAIN store \union ids |->
                       IF id \in ids THEN draft[id] ELSE store[id]]
        /\ trail' = trail \union
             {Entry(id, ZeroArtifact, draft[id], "create") : id \in ids}
  BY DEF TakeIn
<1>2. Drafts \subseteq Artifact
  BY NewArtifactSound DEF Drafts
<1>3. StoreTyped'
  BY <1>1, <1>2 DEF ExactInv, StoreTyped
<1>4. DOMAIN store' = DOMAIN store \union ids
  BY <1>1
<1>5. ASSUME NEW e \in trail' PROVE e.artifact \in DOMAIN store'
  <2>1. CASE e \in trail
    BY <1>4, <2>1 DEF ExactInv, TrailExact
  <2>2. CASE \E id \in ids : e = Entry(id, ZeroArtifact, draft[id], "create")
    BY <1>4, <2>2, EntryFields
  <2> QED
    BY <1>1, <2>1, <2>2
<1>6. ASSUME NEW id \in DOMAIN store' PROVE Explains(Of(id)', store'[id])
  <2>1. CASE id \in ids
    <3>1. Of(id) = {}
      BY <2>1 DEF Of, ExactInv, TrailExact
    <3>2. Of(id)' = {Entry(id, ZeroArtifact, draft[id], "create")}
      BY <1>1, <2>1, <3>1, EntryFields DEF Of
    <3>3. store'[id] = draft[id]
      BY <1>1, <2>1
    <3>4. draft[id].status = "draft" /\ draft[id].version = 1
      BY <2>1, NewArtifactSound DEF Drafts
    <3> QED
      BY <3>2, <3>3, <3>4, EntryFields, FirstExplains
  <2>2. CASE id \notin ids
    <3>1. id \in DOMAIN store /\ store'[id] = store[id]
      BY <1>1, <2>2
    <3>2. Of(id)' = Of(id)
      BY <1>1, <2>2, EntryFields DEF Of
    <3> QED
      BY <3>1, <3>2 DEF ExactInv, TrailExact, Of
  <2> QED
    BY <2>1, <2>2
<1> QED
  BY <1>3, <1>5, <1>6 DEF ExactInv, TrailExact, Of

LEMMA ChangeExact ==
  ASSUME ExactInv, NEW id \in DOMAIN store, NEW action \in Mutation,
         Change(id, action)
  PROVE  ExactInv'
<1>1. PICK b : b = store[id]
  OBVIOUS
<1>2. PICK m \in Meta, now \in Time :
        /\ store' = [store EXCEPT ![id] = Apply(b, action, m, now)]
        /\ trail' = trail \union
             {Entry(id, b, Apply(b, action, m, now), action)}
  BY <1>1 DEF Change
<1>3. PICK a : a = Apply(b, action, m, now)
  OBVIOUS
<1>4. b \in Artifact
  BY <1>1 DEF ExactInv, StoreTyped
<1>5. a \in Artifact /\ a.version = b.version + 1 /\ b.version \in Nat \ {0}
  BY <1>3, <1>4, ApplyType DEF Artifact
<1>6. StoreTyped' /\ DOMAIN store' = DOMAIN store
  BY <1>2, <1>3, <1>5 DEF ExactInv, StoreTyped
<1>7. ASSUME NEW e \in trail' PROVE e.artifact \in DOMAIN store'
  BY <1>2, <1>6, EntryFields DEF ExactInv, TrailExact
<1>8. ASSUME NEW x \in DOMAIN store' PROVE Explains(Of(x)', store'[x])
  <2>1. CASE x = id
    <3>1. Explains(Of(id), b)
      BY <1>1 DEF ExactInv, TrailExact, Of
    <3>2. Of(id)' = Of(id) \union {Entry(id, b, a, action)}
      BY <1>2, <1>3, EntryFields DEF Of
    <3>3. store'[id] = a
      BY <1>2, <1>3 DEF ExactInv, StoreTyped
    <3> QED
      BY <1>5, <2>1, <3>1, <3>2, <3>3, EntryFields, NextExplains
  <2>2. CASE x # id
    <3>1. x \in DOMAIN store /\ store'[x] = store[x]
      BY <1>2, <1>6, <2>2
    <3>2. Of(x)' = Of(x)
      BY <1>2, <2>2, EntryFields DEF Of
    <3> QED
      BY <3>1, <3>2 DEF ExactInv, TrailExact, Of
  <2> QED
    BY <2>1, <2>2
<1> QED
  BY <1>6, <1>7, <1>8 DEF ExactInv, TrailExact, Of

(***************************************************************************)
(* In the archive the clients are promised, the trail of every artifact    *)
(* has exactly one event per version, each starting where the one before   *)
(* it ended, and there is no event of an artifact that does not exist.     *)
(***************************************************************************)
THEOREM PromisedTrailExact == Spec => []TrailExact
<1>1. Init => ExactInv
  BY DEF Init, ExactInv, StoreTyped, TrailExact
<1>2. ExactInv /\ [Next]_<<store, trail>> => ExactInv'
  <2>1. CASE UNCHANGED <<store, trail>>
    BY <2>1 DEF ExactInv, StoreTyped, TrailExact
  <2> QED
    BY <2>1, TakeInExact, ChangeExact DEF Next
<1>3. ExactInv => TrailExact
  BY DEF ExactInv
<1> QED
  BY <1>1, <1>2, <1>3, PTL DEF Spec
=============================================================================

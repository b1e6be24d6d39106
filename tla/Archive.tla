------------------------------ MODULE Archive -------------------------------
(***************************************************************************)
(* What the archive promises its clients: a store of versioned artifacts   *)
(* and an audit trail that change together, one whole change at a time.    *)
(* PROJECT_SPEC.md states it: an artifact and its create event are written *)
(* atomically, every change adds one version and one event, a batch is     *)
(* taken in as a whole or not at all.                                      *)
(***************************************************************************)
EXTENDS Domain

CONSTANT Id   \* the identifiers an artifact can have

VARIABLES
  store,  \* a function from the identifiers in use to records
  trail   \* the set of audit events

Drafts == {NewArtifact(m, now) : m \in Meta, now \in Time}

\* The trail does not say which call of nextID named an event.
Entry(id, b, a, action) == NewAuditEvent("event", id, b, a, action)

Init == store = [id \in {} |-> ZeroArtifact] /\ trail = {}

\* One artifact, or a whole batch of them, is taken in.
TakeIn(ids) ==
  /\ \E draft \in [ids -> Drafts] :
       /\ store' = [id \in DOMAIN store \union ids |->
                      IF id \in ids THEN draft[id] ELSE store[id]]
       /\ trail' = trail \union
            {Entry(id, ZeroArtifact, draft[id], "create") : id \in ids}

\* One change of one artifact, by the rules of its lifecycle.
Change(id, action) ==
  /\ CanApply(store[id], action)
  /\ \E m \in Meta, now \in Time :
       LET a == Apply(store[id], action, m, now)
       IN /\ Valid(a)
          /\ store' = [store EXCEPT ![id] = a]
          /\ trail' = trail \union {Entry(id, store[id], a, action)}

Next ==
  \/ \E ids \in SUBSET (Id \ DOMAIN store) : ids # {} /\ TakeIn(ids)
  \/ \E id \in DOMAIN store, action \in Mutation : Change(id, action)

Spec == Init /\ [][Next]_<<store, trail>>

-----------------------------------------------------------------------------
(***************************************************************************)
(* The trail explains every record, and has nothing about any other        *)
(* artifact.                                                               *)
(***************************************************************************)
TrailExact ==
  /\ \A id \in DOMAIN store : Explains({e \in trail : e.artifact = id}, store[id])
  /\ \A e \in trail : e.artifact \in DOMAIN store
=============================================================================

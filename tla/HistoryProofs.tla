--------------------------- MODULE HistoryProofs ----------------------------
(***************************************************************************)
(* Theorems about the histories that readers get beside any number of      *)
(* concurrent requests, for every kind of failure.                         *)
(***************************************************************************)
EXTENDS History, CatalogProofs, FiniteSetTheorems

(***************************************************************************)
(* The inductive invariant: the trail is finite, so that a timeline has    *)
(* all of it, and what the trail held when the reader found the artifact   *)
(* is still there when it asks for the events.                             *)
(***************************************************************************)
ReaderInv ==
  /\ TypeInv
  /\ IsFiniteSet(audit)
  /\ reader.at \in {"idle", "found", "answered"}
  /\ reader.at # "idle" => reader.id \in Id
  /\ reader.at = "found" /\ ~ Erased(reader.id)
       => reader.known \subseteq Trail(reader.id)
  /\ HistoryComplete

-----------------------------------------------------------------------------
\* A timeline has every event it is made from.
LEMMA TimelineWhole ==
  ASSUME NEW S, IsFiniteSet(S), NEW seq \in Timelines(S), NEW e \in S
  PROVE  \E i \in DOMAIN seq : seq[i] = e
<1> DEFINE D == 1 .. Cardinality(S)
<1>1. Cardinality(S) \in Nat
  BY FS_CardinalityType
<1>2. IsFiniteSet(D) /\ Cardinality(D) = Cardinality(S)
  BY <1>1, FS_Interval
<1>3. seq \in [D -> S] /\ \A i, j \in D : i # j => seq[i] # seq[j]
  <2>1. /\ seq \in [D -> S]
        /\ \A i, j \in D : i < j => seq[i] # seq[j]
    BY DEF Timelines
  <2>2. D \subseteq Int /\ \A i, j \in Int : i # j => i < j \/ j < i
    OBVIOUS
  <2> HIDE DEF D
  <2> QED
    BY <2>1, <2>2
<1>4. seq \in Injection(D, S)
  BY <1>3 DEF Injection, IsInjective
<1>5. seq \in Surjection(D, S)
  BY <1>2, <1>4, FS_Injection
<1> QED
  BY <1>3, <1>5 DEF Surjection

\* Each step of the catalog files at most one event.
LEMMA AuditFinite ==
  ASSUME TypeInv, [Next]_vars, IsFiniteSet(audit)
  PROVE  IsFiniteSet(audit')
<1>1. ASSUME NEW r \in Req, File(r)
      PROVE  IsFiniteSet(audit')
  <2>1. audit' = audit \union {Event(r, pos[r])}
    BY <1>1 DEF File
  <2> QED
    BY <2>1, FS_AddElement
<1>2. ASSUME NEW r \in Req, Scrub(r) \/ Purge(r)
      PROVE  IsFiniteSet(audit')
  <2>1. audit' \subseteq audit
    BY <1>2, DeleteShrinks DEF Scrub, Purge
  <2> QED
    BY <2>1, FS_Subset
<1>3. CASE audit' = audit
  BY <1>3
<1>4. audit' = audit \/ \E r \in Req : File(r) \/ Scrub(r) \/ Purge(r)
  BY DEF Next, Serve, Quiet, Crash, vars, Arrive, Cancel, Refuse, Prepare,
         Read, ReadFails, Save, SaveFails, FileFails, Restore, Withdraw, stores
<1> QED
  BY <1>1, <1>2, <1>3, <1>4

\* A batch that takes its artifacts back does not get over it.
LEMMA ErasedStays ==
  ASSUME TypeInv, [Next]_vars, NEW id \in Id, Erased(id)
  PROVE  Erased(id)'
<1>1. PICK q \in Req : q = id[1]
  BY DEF Id
<1>2. job[q].op = "batch" /\ pc[q] \notin {"idle", "start"}
  BY <1>1 DEF Erased, TakenBack
<1>3. job'[q] = job[q]
  BY <1>2, OthersKept DEF Arrive, Prepare, Read
<1>4. TakenBack(id)'
  BY TakenBackStays DEF Erased
<1> QED
  BY <1>1, <1>2, <1>3, <1>4 DEF Erased

\* What was on the trail of an artifact stays, unless it is taken back.
LEMMA KnownStays ==
  ASSUME TypeInv, [Next]_vars, NEW id \in Id, ~ Erased(id)'
  PROVE  ~ Erased(id) /\ Trail(id) \subseteq Trail(id)'
<1>1. ~ Erased(id)
  BY ErasedStays
<1> QED
  BY <1>1, ErasedByMaker DEF Erased, TakenBack, Trail

-----------------------------------------------------------------------------
LEMMA ReaderInvInit == HInit => ReaderInv
<1> SUFFICES ASSUME HInit PROVE ReaderInv
  OBVIOUS
<1>1. IsFiniteSet(audit)
  BY FS_EmptySet DEF HInit, Init
<1> QED
  BY <1>1, TypeInvInit DEF HInit, NoHistory, ReaderInv, HistoryComplete

\* The reader keeps what it has when another handler takes a step.
LEMMA OthersStep ==
  ASSUME ReaderInv, [Next]_vars, reader' \in {reader, NoHistory}
  PROVE  ReaderInv'
<1>1. TypeInv /\ TypeInv' /\ IsFiniteSet(audit')
  BY TypeInvStep, AuditFinite DEF ReaderInv
<1>2. CASE reader' = NoHistory
  BY <1>1, <1>2 DEF ReaderInv, NoHistory, HistoryComplete
<1>3. CASE reader' = reader
  <2>1. PICK id : id = reader.id
    OBVIOUS
  <2>2. reader.at # "idle" /\ ~ Erased(id)'
          => ~ Erased(id) /\ Trail(id) \subseteq Trail(id)'
    BY <1>1, <2>1, KnownStays DEF ReaderInv
  <2>3. Erased(reader.id)' = Erased(id)' /\ Trail(reader.id)' = Trail(id)'
    BY <1>3, <2>1 DEF Erased, TakenBack, Trail
  <2>4. reader.at = "found" /\ ~ Erased(reader.id)'
          => reader.known \subseteq Trail(reader.id)'
    BY <2>1, <2>2, <2>3 DEF ReaderInv
  <2>5. reader.at = "answered" /\ ~ Erased(reader.id)'
          => ~ Erased(reader.id)
    BY <2>1, <2>2, <2>3
  <2>6. HistoryComplete'
    BY <1>3, <2>5 DEF ReaderInv, HistoryComplete
  <2> QED
    BY <1>1, <1>3, <2>4, <2>6 DEF ReaderInv
<1> QED
  BY <1>2, <1>3

LEMMA ReaderInvStep == ReaderInv /\ [HNext]_hvars => ReaderInv'
<1> SUFFICES ASSUME ReaderInv, [HNext]_hvars PROVE ReaderInv'
  OBVIOUS
<1>1. CASE Next /\ reader' = IF Dies THEN NoHistory ELSE reader
  BY <1>1, OthersStep
<1>2. CASE UNCHANGED hvars
  BY <1>2, OthersStep DEF hvars
<1>3. CASE HistoryFails
  BY <1>3, OthersStep DEF HistoryFails
<1>4. ASSUME NEW id \in Id, GetArtifact(id) PROVE ReaderInv'
  <2>1. /\ UNCHANGED vars /\ reader'.at = "found" /\ reader'.id = id
        /\ reader'.known = Trail(id)
    BY <1>4 DEF GetArtifact
  <2>2. TypeInv' /\ IsFiniteSet(audit')
    BY <2>1, TypeInvStep, AuditFinite DEF ReaderInv
  <2>3. reader'.known \subseteq Trail(reader.id)'
    BY <2>1 DEF Trail, vars
  <2> QED
    BY <2>1, <2>2, <2>3 DEF ReaderInv, HistoryComplete
<1>5. CASE ListByArtifact
  <2>1. PICK seq \in Timelines(Trail(reader.id)) : reader' = Answer(seq)
    BY <1>5 DEF ListByArtifact
  <2>2. /\ UNCHANGED vars /\ reader.at = "found" /\ reader'.at = "answered"
        /\ reader'.id = reader.id /\ reader'.known = reader.known
        /\ reader'.events = seq
    BY <1>5, <2>1 DEF ListByArtifact, Answer
  <2>3. TypeInv' /\ IsFiniteSet(audit')
    BY <2>2, TypeInvStep, AuditFinite DEF ReaderInv
  <2>4. Erased(reader.id)' <=> Erased(reader.id)
    BY <2>2 DEF Erased, TakenBack, vars
  <2>5. IsFiniteSet(Trail(reader.id))
    BY FS_Subset DEF Trail, ReaderInv
  <2>6. HistoryComplete'
    <3> SUFFICES ASSUME ~ Erased(reader.id), NEW e \in reader.known
                 PROVE  \E i \in DOMAIN seq : seq[i] = e
      BY <2>2, <2>4 DEF HistoryComplete
    <3>1. e \in Trail(reader.id)
      BY <2>2 DEF ReaderInv
    <3> QED
      BY <2>5, <3>1, TimelineWhole
  <2> QED
    BY <2>2, <2>3, <2>6 DEF ReaderInv
<1> QED
  BY <1>1, <1>2, <1>3, <1>4, <1>5 DEF HNext

(***************************************************************************)
(* No interleaving, failure or crash makes a history leave out an event    *)
(* that was on the trail when it was asked for, unless the batch that made *)
(* the artifact is being taken back.                                       *)
(***************************************************************************)
THEOREM HistoriesComplete == HSpec => []HistoryComplete
<1>1. ReaderInv => HistoryComplete
  BY DEF ReaderInv
<1> QED
  BY <1>1, ReaderInvInit, ReaderInvStep, PTL DEF HSpec

-----------------------------------------------------------------------------
(***************************************************************************)
(* Without faults each version of the record that the reader found is      *)
(* covered, by an event or by a handler on its way, and stays so until it  *)
(* asks for the events.                                                    *)
(***************************************************************************)
ReachInv ==
  /\ GapInv /\ ReaderInv
  /\ reader.at = "found" => \A v \in 1 .. reader.found : Covered(reader.id, v)

LEMMA ReachInvInit == HInit => ReachInv
  BY GapInvInit, ReaderInvInit DEF HInit, NoHistory, ReachInv

LEMMA ReachInvStep ==
  ASSUME Faults = {}, ReachInv, [HNext]_hvars
  PROVE  ReachInv'
<1>1. [Next]_vars
  BY DEF HNext, hvars, GetArtifact, ListByArtifact, HistoryFails
<1>2. GapInv' /\ ReaderInv'
  BY <1>1, GapInvStep, ReaderInvStep DEF ReachInv
<1>3. ASSUME reader'.at = "found", NEW v \in 1 .. reader'.found
      PROVE  Covered(reader.id, v)'
  <2>1. CASE reader' = reader
    <3>1. PICK id : id = reader.id
      OBVIOUS
    <3>2. Covered(id, v)
      BY <1>3, <2>1, <3>1 DEF ReachInv
    <3>3. Covered(id, v)'
      BY <1>1, <3>2, CoveredStays DEF ReachInv
    <3> QED
      BY <2>1, <3>1, <3>3 DEF Covered
  <2>2. ASSUME NEW id \in Id, GetArtifact(id)
        PROVE  Covered(reader.id, v)'
    <3>1. /\ reader'.id = id /\ reader'.found = repo[id].version
          /\ id \in DOMAIN repo
      BY <2>2 DEF GetArtifact
    <3>2. Covered(id, v)
      BY <1>3, <3>1 DEF ReachInv, GapInv
    <3>3. Covered(id, v)'
      BY <1>1, <3>2, CoveredStays DEF ReachInv
    <3> QED
      BY <3>1, <3>3 DEF Covered
  <2>3. reader' = reader \/ \E id \in Id : GetArtifact(id)
    BY <1>3 DEF HNext, hvars, NoHistory, ListByArtifact, Answer, HistoryFails
  <2> QED
    BY <2>1, <2>2, <2>3
<1> QED
  BY <1>2, <1>3 DEF ReachInv

(***************************************************************************)
(* While no call fails, a history has an event for each version up to the  *)
(* one its artifact had when it was asked for, or the handler that makes   *)
(* that version is still on its way.                                       *)
(***************************************************************************)
THEOREM HistoriesReach ==
  ASSUME Faults = {}
  PROVE  HSpec => HistoryReaches
<1> DEFINE A ==
      reader.at = "found" /\ reader'.at = "answered" =>
        \A v \in 1 .. reader.found :
          \/ \E i \in DOMAIN reader'.events : reader'.events[i].version = v
          \/ \E r \in Req : \E k \in 1 .. Len(after[r]) :
               /\ pc[r] \in {"save", "append"}
               /\ Item(r, k) = reader.id /\ after[r][k].version = v
<1>1. ReachInv /\ [HNext]_hvars => [A]_hvars
  <2> SUFFICES ASSUME ReachInv, [HNext]_hvars,
                      reader.at = "found", reader'.at = "answered",
                      NEW v \in 1 .. reader.found
               PROVE  \/ \E i \in DOMAIN reader'.events :
                            reader'.events[i].version = v
                      \/ \E r \in Req : \E k \in 1 .. Len(after[r]) :
                           /\ pc[r] \in {"save", "append"}
                           /\ Item(r, k) = reader.id /\ after[r][k].version = v
    OBVIOUS
  <2>1. ListByArtifact
    BY DEF HNext, hvars, NoHistory, GetArtifact, HistoryFails
  <2>2. PICK seq \in Timelines(Trail(reader.id)) : reader' = Answer(seq)
    BY <2>1 DEF ListByArtifact
  <2>3. reader'.events = seq
    BY <2>2 DEF Answer
  <2>4. IsFiniteSet(Trail(reader.id))
    BY FS_Subset DEF Trail, ReachInv, ReaderInv
  <2>5. Covered(reader.id, v)
    BY DEF ReachInv
  <2>6. ASSUME NEW e \in audit, e.artifact = reader.id, e.version = v
        PROVE  \E i \in DOMAIN seq : seq[i].version = v
    <3>1. e \in Trail(reader.id)
      BY <2>6 DEF Trail
    <3> QED
      BY <2>4, <2>6, <3>1, TimelineWhole
  <2> QED
    BY <2>3, <2>5, <2>6 DEF Covered
<1>2. ReachInv /\ [HNext]_hvars => ReachInv'
  BY ReachInvStep
<1> QED
  BY <1>1, <1>2, ReachInvInit, PTL DEF HSpec, HistoryReaches
=============================================================================

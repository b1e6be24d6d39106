---------------------------- MODULE SearchProofs ----------------------------
(***************************************************************************)
(* What holds of the reads over all artifacts for every archive, every     *)
(* query string and every moment at which a page is asked for: the public  *)
(* view shows what is approved, pages leave nothing out, and the summary   *)
(* counts what the searches find.                                          *)
(***************************************************************************)
EXTENDS Search, DomainProofs, FiniteSetTheorems, TLAPS

\* The queries that can be asked: what ParseQuery lets through.
Queries == {DefaultQuery} \union
           {ParseQuery(r) : r \in {x \in Request : Accepts(x)}}

Walks == [state : {"open", "over"}, query : Queries, owed : Seq(Id),
          seen : Seq(Id), calm : BOOLEAN, kept : BOOLEAN]

\* What the store holds has passed Validate.
Stored(s) == /\ DOMAIN s \subseteq Id
             /\ \A id \in DOMAIN s : s[id] \in Artifact /\ Valid(s[id])

\* The writer can restore what it has changed: nothing, or a record that was
\* not public.
Restorable(before) ==
  \/ before = ZeroArtifact
  \/ before \in Artifact /\ Valid(before) /\ before.status # "approved"

TypeInv ==
  /\ Stored(repo)
  /\ writer.busy => writer.id \in DOMAIN repo /\ Restorable(writer.before)
  /\ saves \in 0 .. MaxSaves
  /\ walk \in Walks

-----------------------------------------------------------------------------
\* ParseQuery's limit is positive, its order and its view are the known ones,
\* and its public queries look for approved artifacts only.
LEMMA QueriesSafe ==
  ASSUME NEW q \in Queries
  PROVE  /\ q.limit \in Nat \ {0}
         /\ q.sort \in Sort /\ q.view \in View
         /\ q.view = "public" => q.status \in {"", "approved"}
<1> DEFINE Safe(x) == /\ x.limit \in Nat \ {0}
                      /\ x.sort \in Sort /\ x.view \in View
                      /\ x.view = "public" => x.status \in {"", "approved"}
<1>1. Safe(DefaultQuery)
  BY PageAssumption DEF DefaultQuery, Sort, View
<1>2. ASSUME NEW r, Accepts(r) PROVE Safe(ParseQuery(r))
  <2>1. ParseQuery(r).limit \in 1 .. MaxLimit
    BY <1>2 DEF Accepts
  <2>2. ParseQuery(r).limit \in Nat \ {0}
    BY <2>1, PageAssumption
  <2>3. ParseQuery(r).sort \in Sort
    BY <1>2 DEF Accepts
  <2>4. ParseQuery(r).view \in View
    BY <1>2 DEF Accepts
  <2>5. ParseQuery(r).view = "public"
          => ParseQuery(r).status \in {"", "approved"}
    BY <1>2 DEF Accepts
  <2> QED
    BY <2>2, <2>3, <2>4, <2>5
<1> HIDE DEF Safe
<1>3. Safe(q)
  BY <1>1, <1>2 DEF Queries
<1> QED
  BY <1>3 DEF Safe

\* filterArtifacts keeps identifiers of stored artifacts, finitely many.
LEMMA MatchingFinite ==
  ASSUME NEW s, NEW q, DOMAIN s \subseteq Id
  PROVE  /\ Matching(s, q) \subseteq DOMAIN s
         /\ IsFiniteSet(Matching(s, q))
<1>1. Matching(s, q) \subseteq DOMAIN s
  BY DEF Matching
<1> QED
  BY <1>1, FS_Subset, IdAssumption

\* A sorted result is a sequence of the matching identifiers.
LEMMA SortedType ==
  ASSUME NEW s, NEW q, DOMAIN s \subseteq Id, NEW seq \in Sorted(s, q)
  PROVE  seq \in Seq(Matching(s, q)) /\ seq \in Seq(Id)
<1>1. Cardinality(Matching(s, q)) \in Nat
  BY MatchingFinite, FS_CardinalityType
<1>2. seq \in [1 .. Cardinality(Matching(s, q)) -> Matching(s, q)]
  BY DEF Sorted, SetToSeqs
<1>3. seq \in Seq(Matching(s, q))
  BY <1>1, <1>2
<1> QED
  BY <1>3, MatchingFinite

\* A page is a part of the result it is cut from.
LEMMA CutType ==
  ASSUME NEW S, NEW seq \in Seq(S), NEW offset \in Nat, NEW limit \in Nat
  PROVE  Cut(seq, offset, limit) \in Seq(S)
<1>1. CASE offset >= Len(seq)
  BY <1>1 DEF Cut
<1>2. CASE offset < Len(seq) /\ offset + limit < Len(seq)
  BY <1>2 DEF Cut
<1>3. CASE offset < Len(seq) /\ offset + limit >= Len(seq)
  BY <1>3 DEF Cut
<1> QED
  BY <1>1, <1>2, <1>3

\* A page of a public query shows approved artifacts.
LEMMA PageApproved ==
  ASSUME NEW s, NEW q \in Queries, q.view = "public",
         NEW page \in Seq(Matching(s, q))
  PROVE  \A i \in DOMAIN Shown(s, page) :
           Shown(s, page)[i].status = "approved"
<1> SUFFICES ASSUME NEW i \in DOMAIN page
             PROVE  s[page[i]].status = "approved"
  BY DEF Shown
<1>1. page[i] \in Matching(s, q)
  OBVIOUS
<1>2. Includes(q, s[page[i]])
  BY <1>1 DEF Matching
<1> QED
  BY <1>2, QueriesSafe DEF Includes, IsPublic

\* Between two walks the query is the default one, and nothing is seen.
\* Between two walks the query is the default one, and nothing is seen.
LEMMA ClosedType == Closed \in Walks
  BY DEF Closed, Begun, Walks, Queries

\* The writer disturbs a walk but not its query.
LEMMA DisturbedType ==
  ASSUME walk \in Walks, NEW s
  PROVE  Disturbed(s) \in Walks
<1> DEFINE kept == walk.kept /\ \A id \in DOMAIN repo :
                     IsPublic(repo[id]) => id \in DOMAIN s /\ IsPublic(s[id])
<1>1. Disturbed(s) = [walk EXCEPT !.calm = FALSE, !.kept = kept]
  BY DEF Disturbed
<1>2. kept \in BOOLEAN
  OBVIOUS
<1> HIDE DEF kept
<1> QED
  BY <1>1, <1>2 DEF Walks

\* A page is a part of the result, and what has been seen grows by it.
LEMMA TurnType ==
  ASSUME Stored(repo), NEW w \in Walks,
         NEW seq \in Sorted(repo, w.query), Turn(w, seq)
  PROVE  /\ walk' \in Walks
         /\ Cut(seq, Len(w.seen), w.query.limit) \in
              Seq(Matching(repo, w.query))
<1> DEFINE page == Cut(seq, Len(w.seen), w.query.limit)
<1>1. w.query \in Queries /\ w.seen \in Seq(Id) /\ w.query.limit \in Nat
  BY QueriesSafe DEF Walks
<1>2. page \in Seq(Matching(repo, w.query)) /\ page \in Seq(Id)
  <2>1. seq \in Seq(Matching(repo, w.query)) /\ seq \in Seq(Id)
    BY SortedType DEF Stored
  <2>2. Len(w.seen) \in Nat
    BY <1>1
  <2> QED
    BY <1>1, <2>1, <2>2, CutType
<1>3. walk' \in Walks
  <2>1. w.seen \o page \in Seq(Id)
    BY <1>1, <1>2
  <2>2. PICK state \in {"open", "over"} :
          walk' = [w EXCEPT !.seen = w.seen \o page, !.state = state]
    <3>1. CASE Len(page) < w.query.limit
      BY <3>1 DEF Turn, Walks
    <3>2. CASE ~ (Len(page) < w.query.limit)
      BY <3>2 DEF Turn, Walks
    <3> QED
      BY <3>1, <3>2
  <2> HIDE DEF page
  <2> QED
    BY <2>1, <2>2 DEF Walks
<1> QED
  BY <1>2, <1>3

\* The walk that FirstPage begins.
LEMMA BegunType ==
  ASSUME Stored(repo), NEW q \in Queries, NEW seq \in Sorted(repo, q)
  PROVE  Begun(q, seq) \in Walks /\ Begun(q, seq).query = q
<1>1. seq \in Seq(Id)
  BY SortedType DEF Stored
<1> QED
  BY <1>1 DEF Begun, Walks

\* The records from before are valid ones.
LEMMA StockType ==
  ASSUME NEW a \in Stock
  PROVE  a \in Artifact /\ Valid(a)
<1>1. PICK m \in Meta, t \in Time :
        a \in {NewArtifact(m, t), Submit(NewArtifact(m, t), t),
               Decide(Submit(NewArtifact(m, t), t), "approve", t)}
  BY DEF Stock
<1>2. t \in Nat \ {0} /\ NoTime = 0
  BY TimeAssumption DEF NoTime
<1> DEFINE n == NewArtifact(m, t)
           b == Submit(n, t)
           c == Decide(b, "approve", t)
<1>3. n \in Artifact /\ Valid(n)
  BY NewArtifactSound DEF Sound
<1>4. /\ n.meta = m /\ n.version = 1 /\ n.created = t /\ n.updated = t
      /\ n.submitted = NoTime /\ n.decided = NoTime
  BY DEF NewArtifact
<1> HIDE DEF n
<1>5. b = Apply(n, "submit_review", m, t)
  BY DEF Apply, Decision
<1>6. b \in Artifact
  BY <1>3, <1>5, ApplyType DEF Mutation
<1>7. /\ b.meta = m /\ b.version = 2 /\ b.created = t /\ b.updated = t
      /\ b.submitted = t /\ b.decided = NoTime /\ b.status = "pending_review"
  BY <1>3, <1>4 DEF Submit, Touch, Artifact
<1>8. Valid(b)
  BY <1>2, <1>7 DEF Valid, Status
<1> HIDE DEF b
<1>9. c = Apply(b, "approve", m, t)
  BY DEF Apply, Decision
<1>10. c \in Artifact
  BY <1>6, <1>9, ApplyType DEF Mutation
<1>11. /\ c.meta = m /\ c.version = 3 /\ c.created = t /\ c.updated = t
       /\ c.submitted = t /\ c.decided = t /\ c.status = "approved"
  BY <1>6, <1>7 DEF Decide, Touch, Artifact
<1>12. Valid(c)
  BY <1>2, <1>11 DEF Valid, Status
<1> QED
  BY <1>1, <1>3, <1>6, <1>8, <1>10, <1>12 DEF n, b, c

\* A store with one more valid record, or one less.
LEMMA PutStored ==
  ASSUME Stored(repo), NEW id \in Id, NEW a \in Artifact, Valid(a)
  PROVE  Stored(Put(id, a)) /\ id \in DOMAIN Put(id, a)
  BY DEF Stored, Put

LEMMA DropStored ==
  ASSUME Stored(repo), NEW id
  PROVE  Stored(Drop(id))
  BY DEF Stored, Drop

-----------------------------------------------------------------------------
\* Init: an archive from before, no page turned, nothing answered.
LEMMA TypeInvInit == Init => TypeInv
<1> SUFFICES ASSUME Init PROVE TypeInv
  OBVIOUS
<1>1. Stored(repo)
  BY StockType DEF Init, Stored
<1>2. walk \in Walks
  BY ClosedType DEF Init
<1>3. saves \in 0 .. MaxSaves
  BY PageAssumption DEF Init
<1> QED
  BY <1>1, <1>2, <1>3 DEF Init, TypeInv, Idle

\* A save of a valid record keeps the types, whatever record it is.
LEMMA SaveType ==
  ASSUME TypeInv, NEW id \in Id, NEW a \in Artifact, Save(id, a),
         NEW before, Restorable(before),
         writer' = [id |-> id, before |-> before, busy |-> TRUE]
  PROVE  TypeInv'
<1>1. Stored(repo') /\ id \in DOMAIN repo'
  BY PutStored DEF Save, TypeInv
<1>2. walk' \in Walks
  BY DisturbedType DEF Save, TypeInv
<1>3. saves' \in 0 .. MaxSaves
  BY PageAssumption DEF Save, TypeInv
<1>4. writer'.id = id /\ writer'.before = before
  OBVIOUS
<1> QED
  BY <1>1, <1>2, <1>3, <1>4 DEF TypeInv, Stored

LEMMA TypeInvStep == TypeInv /\ [Next]_vars => TypeInv'
<1> SUFFICES ASSUME TypeInv, [Next]_vars PROVE TypeInv'
  OBVIOUS
<1>1. ASSUME NEW id \in Id, NEW m \in Meta, NEW now \in Time,
             Create(id, m, now)
      PROVE  TypeInv'
  BY <1>1, SaveType, NewArtifactSound DEF Create, Restorable
<1>2. ASSUME NEW id \in Id, NEW action \in Mutation, NEW m \in Meta,
             NEW now \in Time, Change(id, action, m, now)
      PROVE  TypeInv'
  <2>1. repo[id] \in Artifact /\ Valid(repo[id])
    BY <1>2 DEF Change, TypeInv, Stored
  <2>2. repo[id].status # "approved"
    BY <1>2 DEF Change, CanApply
  <2>3. Apply(repo[id], action, m, now) \in Artifact
    BY <2>1, ApplyType
  <2> QED
    BY <1>2, <2>1, <2>2, <2>3, SaveType DEF Change, Restorable
<1>3. CASE File
  BY <1>3 DEF File, Idle, TypeInv, Stored
<1>4. CASE Undo
  <2>1. Stored(repo')
    <3>1. CASE writer.before = ZeroArtifact
      BY <1>4, <3>1, DropStored DEF Undo, TypeInv
    <3>2. CASE writer.before # ZeroArtifact
      BY <1>4, <3>2, PutStored DEF Undo, TypeInv, Restorable, Stored
    <3> QED
      BY <3>1, <3>2
  <2>2. walk' \in Walks
    BY <1>4, DisturbedType DEF Undo, TypeInv
  <2> QED
    BY <1>4, <2>1, <2>2 DEF Undo, Idle, TypeInv, Stored
<1>5. ASSUME UNCHANGED <<repo, writer, saves>>, walk' \in Walks
      PROVE  TypeInv'
  BY <1>5 DEF TypeInv, Stored
<1>6. ASSUME NEW r \in Request, FirstPage(r) PROVE TypeInv'
  <2>1. PICK seq \in Sorted(repo, ParseQuery(r)) :
          Turn(Begun(ParseQuery(r), seq), seq)
    BY <1>6 DEF FirstPage
  <2>2. ParseQuery(r) \in Queries
    BY <1>6 DEF FirstPage, Queries
  <2>3. walk' \in Walks
    BY <2>1, <2>2, BegunType, TurnType DEF TypeInv
  <2> QED
    BY <1>5, <1>6, <2>3 DEF FirstPage
<1>7. CASE NextPage
  <2>1. PICK seq \in Sorted(repo, walk.query) : Turn(walk, seq)
    BY <1>7 DEF NextPage
  <2>2. walk' \in Walks
    BY <2>1, TurnType DEF TypeInv
  <2> QED
    BY <1>5, <1>7, <2>2 DEF NextPage
<1>8. ASSUME UNCHANGED <<repo, writer, saves>>, walk' = Closed
      PROVE  TypeInv'
  BY <1>5, <1>8, ClosedType
<1>9. ASSUME NEW r \in Request, ExportCollection(r) \/ Refuse(r)
      PROVE  TypeInv'
  BY <1>8, <1>9 DEF ExportCollection, Refuse
<1>10. ASSUME NEW id \in Id, ExportArtifact(id) PROVE TypeInv'
  BY <1>8, <1>10 DEF ExportArtifact
<1>11. CASE Summary
  BY <1>8, <1>11 DEF Summary
<1>12. CASE UNCHANGED vars
  BY <1>12 DEF vars, TypeInv, Stored
<1> QED
  BY <1>1, <1>2, <1>3, <1>4, <1>6, <1>7, <1>9, <1>10, <1>11, <1>12 DEF Next

LEMMA WellTyped == Spec => []TypeInv
  BY TypeInvInit, TypeInvStep, PTL DEF Spec

(***************************************************************************)
(* Every record in the store is valid whenever a read goes over it, and    *)
(* the writer's rollback finds the artifact it is for.                     *)
(***************************************************************************)
THEOREM SearchTyped == Spec => []TypeOK
<1>1. TypeInv => TypeOK
  BY DEF TypeInv, TypeOK, Stored, Walks
<1> QED
  BY <1>1, WellTyped, PTL

-----------------------------------------------------------------------------
LEMMA ApprovedStep ==
  TypeInv /\ PublicAnswersApproved /\ [Next]_vars => PublicAnswersApproved'
<1> SUFFICES ASSUME TypeInv, PublicAnswersApproved, [Next]_vars
             PROVE  PublicAnswersApproved'
  OBVIOUS
<1>1. ASSUME answer' = Silent PROVE PublicAnswersApproved'
  BY <1>1 DEF Silent, PublicAnswersApproved
<1>2. ASSUME NEW w \in Walks, NEW seq \in Sorted(repo, w.query), Turn(w, seq)
      PROVE  PublicAnswersApproved'
  <2> DEFINE page == Cut(seq, Len(w.seen), w.query.limit)
  <2>1. page \in Seq(Matching(repo, w.query)) /\ w.query \in Queries
    BY <1>2, TurnType DEF TypeInv, Walks
  <2>2. answer' = [handler |-> "listArtifacts", view |-> w.query.view,
                   artifacts |-> Shown(repo, page)]
    BY <1>2 DEF Turn
  <2> QED
    BY <2>1, <2>2, PageApproved DEF PublicAnswersApproved
<1>3. ASSUME NEW r \in Request, FirstPage(r) PROVE PublicAnswersApproved'
  <2>1. PICK seq \in Sorted(repo, ParseQuery(r)) :
          Turn(Begun(ParseQuery(r), seq), seq)
    BY <1>3 DEF FirstPage
  <2>2. ParseQuery(r) \in Queries
    BY <1>3 DEF FirstPage, Queries
  <2> QED
    BY <1>2, <2>1, <2>2, BegunType DEF TypeInv
<1>4. CASE NextPage
  BY <1>2, <1>4 DEF NextPage, TypeInv
<1>5. ASSUME NEW r \in Request, ExportCollection(r)
      PROVE  PublicAnswersApproved'
  <2>1. PICK q \in Queries : q = ParseQuery(r)
    BY <1>5 DEF ExportCollection, Queries
  <2>2. PICK seq \in Sorted(repo, q) :
          answer' = [handler   |-> "exportCollection", view |-> q.view,
                     artifacts |-> Shown(repo, Cut(seq, 0, q.limit))]
    BY <1>5, <2>1 DEF ExportCollection
  <2>3. Cut(seq, 0, q.limit) \in Seq(Matching(repo, q))
    BY QueriesSafe, SortedType, CutType DEF TypeInv, Stored
  <2> QED
    BY <2>2, <2>3, PageApproved DEF PublicAnswersApproved
<1>6. ASSUME NEW id \in Id, ExportArtifact(id) PROVE PublicAnswersApproved'
  <2>1. \A i \in DOMAIN Shown(repo, <<id>>) :
          Shown(repo, <<id>>)[i].status = "approved"
    BY <1>6 DEF ExportArtifact, Shown, IsPublic
  <2> QED
    BY <1>6, <2>1 DEF ExportArtifact, PublicAnswersApproved
<1>7. ASSUME NEW r \in Request, Refuse(r) PROVE PublicAnswersApproved'
  BY <1>7 DEF Refuse, PublicAnswersApproved
<1>8. CASE Summary
  BY <1>8 DEF Summary, PublicAnswersApproved
<1>9. CASE UNCHANGED vars
  BY <1>9 DEF vars, PublicAnswersApproved
<1> QED
  BY <1>1, <1>3, <1>4, <1>5, <1>6, <1>7, <1>8, <1>9
     DEF Next, Create, Change, Save, File, Undo

(***************************************************************************)
(* GET /artifacts in the public view, the collection export in it and the  *)
(* single export never show an artifact that is not approved: ParseQuery   *)
(* refuses every other status filter, and List applies the filter to the   *)
(* artifacts it cuts the page from.                                        *)
(***************************************************************************)
THEOREM PublicViewSafe == Spec => []PublicAnswersApproved
<1>1. Init => PublicAnswersApproved
  BY DEF Init, Silent, PublicAnswersApproved
<1> QED
  BY <1>1, WellTyped, ApprovedStep, PTL DEF Spec

-----------------------------------------------------------------------------
\* A strict total order of M, as a set of pairs.
StrictOrder(R, M) ==
  /\ \A x \in M : <<x, x>> \notin R
  /\ \A x, y, z \in M : <<x, y>> \in R /\ <<y, z>> \in R => <<x, z>> \in R
  /\ \A x, y \in M : x # y => <<x, y>> \in R \/ <<y, x>> \in R

Below(R, M, x) == {y \in M : <<y, x>> \in R}

Rank(R, M, x) == Cardinality(Below(R, M, x))

InOrder(R, seq) == \A i, j \in DOMAIN seq : i < j => <<seq[i], seq[j]>> \in R

\* A sequence from SetToSeqs has each member of the set at one place.
LEMMA EachOnce ==
  ASSUME NEW M, IsFiniteSet(M), NEW seq \in SetToSeqs(M)
  PROVE  /\ Cardinality(M) \in Nat
         /\ DOMAIN seq = 1 .. Cardinality(M)
         /\ seq \in [1 .. Cardinality(M) -> M]
         /\ \A i, j \in DOMAIN seq : seq[i] = seq[j] => i = j
         /\ \A x \in M : \E i \in DOMAIN seq : seq[i] = x
<1> DEFINE n == Cardinality(M)
<1>1. n \in Nat
  BY FS_CardinalityType
<1>2. seq \in [1 .. n -> M] /\ \A i, j \in 1 .. n : i # j => seq[i] # seq[j]
  BY DEF SetToSeqs
<1>3. seq \in Injection(1 .. n, M)
  BY <1>2 DEF Injection, IsInjective
<1>4. IsFiniteSet(1 .. n) /\ Cardinality(1 .. n) = n
  BY <1>1, FS_Interval
<1>5. seq \in Surjection(1 .. n, M)
  BY <1>3, <1>4, FS_Injection
<1> QED
  BY <1>1, <1>2, <1>5 DEF Surjection

\* What is below one element, and the element, is below each greater one.
LEMMA RankIncreases ==
  ASSUME NEW M, IsFiniteSet(M), NEW R, StrictOrder(R, M),
         NEW x \in M, NEW y \in M, <<x, y>> \in R
  PROVE  /\ Rank(R, M, x) \in Nat /\ Rank(R, M, y) \in Nat
         /\ Rank(R, M, x) < Rank(R, M, y)
<1>1. IsFiniteSet(Below(R, M, x)) /\ IsFiniteSet(Below(R, M, y))
  BY FS_Subset DEF Below
<1>2. Below(R, M, x) \subseteq Below(R, M, y)
  BY DEF Below, StrictOrder
<1>3. x \in Below(R, M, y) /\ x \notin Below(R, M, x)
  BY DEF Below, StrictOrder
<1>4. /\ Cardinality(Below(R, M, x)) <= Cardinality(Below(R, M, y))
      /\ Cardinality(Below(R, M, x)) # Cardinality(Below(R, M, y))
  BY <1>1, <1>2, <1>3, FS_Subset
<1>5. Cardinality(Below(R, M, x)) \in Nat /\ Cardinality(Below(R, M, y)) \in Nat
  BY <1>1, FS_CardinalityType
<1> QED
  BY <1>4, <1>5 DEF Rank

\* In an ordered sequence the rank of an element is its place.
LEMMA RankIsPlace ==
  ASSUME NEW M, IsFiniteSet(M), NEW R, StrictOrder(R, M),
         NEW seq \in SetToSeqs(M), InOrder(R, seq), NEW p \in DOMAIN seq
  PROVE  Rank(R, M, seq[p]) = p - 1
<1> DEFINE D == 1 .. p - 1
           B == Below(R, M, seq[p])
           f == [i \in D |-> seq[i]]
<1>1. p \in Nat \ {0} /\ \A i \in D : i \in DOMAIN seq /\ i < p
  BY EachOnce
<1>2. \A i \in D : seq[i] \in B
  BY <1>1, EachOnce DEF Below, InOrder
<1>3. \A y \in B : \E i \in D : seq[i] = y
  <2> SUFFICES ASSUME NEW y \in B PROVE \E i \in D : seq[i] = y
    OBVIOUS
  <2>1. PICK i \in DOMAIN seq : seq[i] = y
    BY EachOnce DEF Below
  <2>2. i # p
    BY <2>1, EachOnce DEF Below, StrictOrder
  <2>3. ~ (p < i)
    <3>1. seq[i] \in M /\ seq[p] \in M /\ <<seq[i], seq[p]>> \in R
      BY <2>1, EachOnce DEF Below
    <3>2. p < i => <<seq[p], seq[i]>> \in R
      BY <2>1 DEF InOrder
    <3> QED
      BY <3>1, <3>2 DEF StrictOrder
  <2>4. i \in D
    BY <2>1, <2>2, <2>3, <1>1, EachOnce
  <2> QED
    BY <2>1, <2>4
<1>4. f \in Bijection(D, B)
  <2>1. f \in [D -> B]
    BY <1>2
  <2>2. \A i, j \in D : f[i] = f[j] => i = j
    BY <1>1, EachOnce
  <2>3. \A y \in B : \E i \in D : f[i] = y
    BY <1>3
  <2>4. DOMAIN f = D
    OBVIOUS
  <2> HIDE DEF f, D, B
  <2>5. f \in Injection(D, B)
    BY <2>1, <2>2, <2>4 DEF Injection, IsInjective
  <2>6. f \in Surjection(D, B)
    BY <2>1, <2>3 DEF Surjection
  <2>7. Bijection(D, B) = Injection(D, B) \cap Surjection(D, B)
    BY DEF Bijection
  <2> QED
    BY <2>5, <2>6, <2>7
<1>5. IsFiniteSet(D) /\ Cardinality(D) = p - 1
  <2>1. 1 \in Int /\ p - 1 \in Int
    BY <1>1
  <2>2. /\ IsFiniteSet(1 .. p - 1)
        /\ Cardinality(1 .. p - 1) = IF 1 > p - 1 THEN 0 ELSE p - 1 - 1 + 1
    BY <2>1, FS_Interval
  <2> QED
    BY <1>1, <2>2
<1>6. Cardinality(B) = p - 1
  BY <1>4, <1>5, FS_Bijection DEF ExistsBijection
<1> QED
  BY <1>6 DEF Rank

\* There is one way to put a set in order.
LEMMA OneOrder ==
  ASSUME NEW M, IsFiniteSet(M), NEW R, StrictOrder(R, M),
         NEW seq \in SetToSeqs(M), InOrder(R, seq),
         NEW oth \in SetToSeqs(M), InOrder(R, oth)
  PROVE  seq = oth
<1>1. ASSUME NEW p \in 1 .. Cardinality(M) PROVE seq[p] = oth[p]
  <2>1. seq[p] \in M /\ oth[p] \in M /\ p \in DOMAIN seq /\ p \in DOMAIN oth
    BY EachOnce
  <2>2. Rank(R, M, seq[p]) = Rank(R, M, oth[p])
    BY <2>1, RankIsPlace
  <2>3. <<seq[p], oth[p]>> \notin R /\ <<oth[p], seq[p]>> \notin R
    BY <2>1, <2>2, RankIncreases
  <2> QED
    BY <2>1, <2>3 DEF StrictOrder
<1> QED
  BY <1>1, EachOnce

\* And there is always one: each element at the place its rank gives it.
LEMMA OrderExists ==
  ASSUME NEW M, IsFiniteSet(M), NEW R, StrictOrder(R, M)
  PROVE  \E seq \in SetToSeqs(M) : InOrder(R, seq)
<1> DEFINE n == Cardinality(M)
           D == 1 .. n
           r == [x \in M |-> 1 + Rank(R, M, x)]
<1>1. n \in Nat
  BY FS_CardinalityType
<1>2. \A x \in M : r[x] \in D
  <2> SUFFICES ASSUME NEW x \in M PROVE 1 + Rank(R, M, x) \in 1 .. n
    OBVIOUS
  <2>1. Below(R, M, x) \subseteq M \ {x}
    BY DEF Below, StrictOrder
  <2>2. IsFiniteSet(M \ {x}) /\ Cardinality(M \ {x}) = n - 1
    BY FS_RemoveElement
  <2>3. /\ IsFiniteSet(Below(R, M, x))
        /\ Cardinality(Below(R, M, x)) <= n - 1
    BY <2>1, <2>2, FS_Subset
  <2>4. Cardinality(Below(R, M, x)) \in Nat
    BY <2>3, FS_CardinalityType
  <2> QED
    BY <1>1, <2>3, <2>4 DEF Rank
<1>3. \A x, y \in M : <<x, y>> \in R => r[x] < r[y]
  BY RankIncreases
<1>4. r \in Injection(M, D)
  <2>1. r \in [M -> D]
    BY <1>2
  <2>2. ASSUME NEW x \in M, NEW y \in M, x # y PROVE r[x] # r[y]
    <3>1. r[x] < r[y] \/ r[y] < r[x]
      BY <2>2, <1>3 DEF StrictOrder
    <3>2. r[x] \in Int /\ r[y] \in Int
      BY <1>1, <1>2
    <3> HIDE DEF r
    <3> QED
      BY <3>1, <3>2
  <2> HIDE DEF r, D
  <2> QED
    BY <2>1, <2>2 DEF Injection, IsInjective
<1>5. IsFiniteSet(D) /\ Cardinality(D) = n
  BY <1>1, FS_Interval
<1>6. r \in Surjection(M, D)
  BY <1>4, <1>5, FS_Injection
<1>7. \A i \in D : \E x \in M : r[x] = i
  BY <1>6 DEF Surjection
<1> HIDE DEF r
<1> DEFINE seq == [i \in D |-> CHOOSE x \in M : r[x] = i]
<1>8. \A i \in D : seq[i] \in M /\ r[seq[i]] = i
  BY <1>7
<1>9. seq \in SetToSeqs(M)
  <2>1. seq \in [D -> M]
    BY <1>8
  <2>2. \A i, j \in D : i # j => seq[i] # seq[j]
    BY <1>8
  <2> HIDE DEF seq
  <2> QED
    BY <2>1, <2>2 DEF SetToSeqs
<1>10. InOrder(R, seq)
  <2> SUFFICES ASSUME NEW i \in D, NEW j \in D, i < j
               PROVE  <<seq[i], seq[j]>> \in R
    BY DEF InOrder
  <2>1. seq[i] # seq[j]
    BY <1>8
  <2>2. <<seq[j], seq[i]>> \notin R
    BY <1>1, <1>3, <1>8
  <2> QED
    BY <1>8, <2>1, <2>2 DEF StrictOrder
<1> QED
  BY <1>9, <1>10

-----------------------------------------------------------------------------
\* less of sortArtifacts, on the artifacts that a query finds.
ListOrder(s, q) ==
  {p \in Matching(s, q) \X Matching(s, q) : Precedes(s, q.sort, p[1], p[2])}

\* It is a total order: times and titles are compared as numbers, and the
\* identifier decides between equal ones.
LEMMA ListOrdered ==
  ASSUME NEW s, Stored(s), NEW q, q.sort \in Sort
  PROVE  StrictOrder(ListOrder(s, q), Matching(s, q))
<1> DEFINE M == Matching(s, q)
           P(x, y) == Precedes(s, q.sort, x, y)
<1>1. \A x \in M : /\ x \in Nat /\ s[x].updated \in Nat
                   /\ s[x].meta.title \in Nat
  <2> SUFFICES ASSUME NEW x \in M
               PROVE  /\ x \in Nat /\ s[x].updated \in Nat
                      /\ s[x].meta.title \in Nat
    OBVIOUS
  <2>1. x \in Id /\ s[x] \in Artifact
    BY DEF Stored, Matching
  <2>2. s[x].updated \in Time /\ s[x].meta \in Meta
    BY <2>1 DEF Artifact
  <2> QED
    BY <2>1, <2>2, IdAssumption, TimeAssumption, TextAssumption
<1>2. ASSUME NEW x \in M PROVE ~ P(x, x)
  <2>1. CASE q.sort = "recent"
    BY <1>1, <2>1 DEF Precedes, PrecedesUntied
  <2>2. CASE q.sort = "oldest"
    BY <1>1, <2>2 DEF Precedes, PrecedesUntied
  <2>3. CASE q.sort = "title"
    BY <1>1, <2>3 DEF Precedes, PrecedesUntied
  <2> QED
    BY <2>1, <2>2, <2>3 DEF Sort
<1>3. ASSUME NEW x \in M, NEW y \in M, NEW z \in M, P(x, y), P(y, z)
      PROVE  P(x, z)
  <2>1. CASE q.sort = "recent"
    BY <1>1, <1>3, <2>1 DEF Precedes, PrecedesUntied
  <2>2. CASE q.sort = "oldest"
    BY <1>1, <1>3, <2>2 DEF Precedes, PrecedesUntied
  <2>3. CASE q.sort = "title"
    BY <1>1, <1>3, <2>3 DEF Precedes, PrecedesUntied
  <2> QED
    BY <2>1, <2>2, <2>3 DEF Sort
<1>4. \A x, y \in M : x # y => P(x, y) \/ P(y, x)
  BY <1>1 DEF Precedes
<1>5. \A x, y \in M : <<x, y>> \in ListOrder(s, q) <=> P(x, y)
  BY DEF ListOrder
<1> HIDE DEF P, M
<1>6. StrictOrder(ListOrder(s, q), M)
  BY <1>2, <1>3, <1>4, <1>5 DEF StrictOrder
<1> QED
  BY <1>6 DEF M

\* sort.Slice is not stable, but the order leaves it no choice.
LEMMA SortedInOrder ==
  ASSUME NEW s, Stored(s), NEW q, q.sort \in Sort, NEW seq \in Sorted(s, q)
  PROVE  /\ seq \in SetToSeqs(Matching(s, q))
         /\ InOrder(ListOrder(s, q), seq)
<1>1. /\ seq \in SetToSeqs(Matching(s, q))
      /\ \A i, j \in DOMAIN seq : i < j => ~ Precedes(s, q.sort, seq[j], seq[i])
  BY DEF Sorted
<1>2. IsFiniteSet(Matching(s, q))
  BY MatchingFinite DEF Stored
<1>3. ASSUME NEW i \in DOMAIN seq, NEW j \in DOMAIN seq, i < j
      PROVE  <<seq[i], seq[j]>> \in ListOrder(s, q)
  <2>1. seq[i] \in Matching(s, q) /\ seq[j] \in Matching(s, q)
    BY <1>1, <1>2, EachOnce
  <2>2. i \in Nat /\ j \in Nat
    BY <1>1, <1>2, EachOnce
  <2>3. seq[i] # seq[j]
    BY <1>1, <1>2, <1>3, <2>2, EachOnce
  <2>4. <<seq[j], seq[i]>> \notin ListOrder(s, q)
    BY <1>1, <1>3, <2>1 DEF ListOrder
  <2> QED
    BY <2>1, <2>3, <2>4, ListOrdered DEF StrictOrder
<1> QED
  BY <1>1, <1>3 DEF InOrder

LEMMA OneSorted ==
  ASSUME NEW s, Stored(s), NEW q, q.sort \in Sort,
         NEW seq \in Sorted(s, q), NEW oth \in Sorted(s, q)
  PROVE  seq = oth
<1>1. IsFiniteSet(Matching(s, q))
  BY MatchingFinite DEF Stored
<1> QED
  BY <1>1, SortedInOrder, ListOrdered, OneOrder

\* A search is always answered: there is a sorted result.
LEMMA SomeSorted ==
  ASSUME NEW s, Stored(s), NEW q, q.sort \in Sort
  PROVE  \E seq \in Sorted(s, q) : TRUE
<1> DEFINE M == Matching(s, q)
           R == ListOrder(s, q)
<1>1. IsFiniteSet(M)
  BY MatchingFinite DEF Stored
<1>2. StrictOrder(R, M)
  BY ListOrdered
<1>3. PICK seq \in SetToSeqs(M) : InOrder(R, seq)
  BY <1>1, <1>2, OrderExists
<1>4. ASSUME NEW i \in DOMAIN seq, NEW j \in DOMAIN seq, i < j
      PROVE  ~ Precedes(s, q.sort, seq[j], seq[i])
  <2>1. seq[i] \in M /\ seq[j] \in M /\ <<seq[i], seq[j]>> \in R
    BY <1>1, <1>3, <1>4, EachOnce DEF InOrder
  <2>2. <<seq[j], seq[i]>> \notin R
    BY <1>2, <2>1 DEF StrictOrder
  <2> QED
    BY <2>1, <2>2 DEF ListOrder
<1> QED
  BY <1>3, <1>4 DEF Sorted

\* Every query that ParseQuery lets through has one result.
OneResult == \A q \in Queries : \E seq : Sorted(repo, q) = {seq}

(***************************************************************************)
(* sort.Slice is not stable, and List takes the artifacts in whatever      *)
(* order the store keeps them.  Nevertheless a query has exactly one       *)
(* result: less never contradicts itself, and the identifier, its last     *)
(* criterion, leaves no two artifacts in either order.                     *)
(***************************************************************************)
THEOREM ResultsUnique == Spec => []OneResult
<1>1. TypeInv => OneResult
  <2> SUFFICES ASSUME TypeInv, NEW q \in Queries
               PROVE  \E seq : Sorted(repo, q) = {seq}
    BY DEF OneResult
  <2>1. Stored(repo)
    BY DEF TypeInv
  <2>2. q.sort \in Sort
    <3>1. q \in Queries
      OBVIOUS
    <3> QED
      BY <3>1, QueriesSafe, Zenon
  <2>3. PICK seq \in Sorted(repo, q) : TRUE
    BY <2>1, <2>2, SomeSorted
  <2>4. \A oth \in Sorted(repo, q) : oth = seq
    BY <2>1, <2>2, OneSorted
  <2>5. Sorted(repo, q) = {seq}
    BY <2>3, <2>4
  <2> QED
    BY <2>5
<1> QED
  BY <1>1, WellTyped, PTL

\* What a page has of the result: the part from its offset to its limit, or
\* to the end when it is not full.
LEMMA CutPart ==
  ASSUME NEW S, NEW seq \in Seq(S), NEW offset \in Nat, NEW limit \in Nat,
         NEW page, page = Cut(seq, offset, limit)
  PROVE  /\ Len(page) \in 0 .. limit
         /\ \A i \in 1 .. Len(page) : /\ offset + i \in 1 .. Len(seq)
                                      /\ page[i] = seq[offset + i]
         /\ Len(page) < limit => Len(seq) <= offset + Len(page)
<1>1. CASE offset >= Len(seq)
  BY <1>1 DEF Cut
<1>2. CASE offset < Len(seq) /\ offset + limit < Len(seq)
  <2>1. page = SubSeq(seq, offset + 1, offset + limit)
    BY <1>2 DEF Cut
  <2>2. /\ Len(page) = limit
        /\ \A i \in 1 .. limit : page[i] = seq[offset + i]
    BY <1>2, <2>1
  <2> QED
    BY <1>2, <2>2
<1>3. CASE offset < Len(seq) /\ offset + limit >= Len(seq)
  <2>1. page = SubSeq(seq, offset + 1, Len(seq))
    BY <1>3 DEF Cut
  <2>2. /\ Len(page) = Len(seq) - offset
        /\ \A i \in 1 .. Len(seq) - offset : page[i] = seq[offset + i]
    BY <1>3, <2>1
  <2> QED
    BY <1>3, <2>2
<1> QED
  BY <1>1, <1>2, <1>3

\* What one turn does to the walk.
LEMMA TurnEffect ==
  ASSUME Stored(repo), NEW w \in Walks,
         NEW seq \in Sorted(repo, w.query), Turn(w, seq)
  PROVE  \E page \in Seq(Id) :
           /\ page = Cut(seq, Len(w.seen), w.query.limit)
           /\ walk'.seen = w.seen \o page
           /\ walk'.state = IF Len(page) < w.query.limit THEN "over" ELSE "open"
           /\ walk'.query = w.query /\ walk'.owed = w.owed
           /\ walk'.calm = w.calm /\ walk'.kept = w.kept
<1> DEFINE page == Cut(seq, Len(w.seen), w.query.limit)
<1>1. w.query.limit \in Nat /\ Len(w.seen) \in Nat
  <2>1. w.query \in Queries /\ w.seen \in Seq(Id)
    BY DEF Walks
  <2>2. w.query.limit \in Nat
    BY <2>1, QueriesSafe
  <2> QED
    BY <2>1, <2>2
<1>2. page \in Seq(Id)
  BY <1>1, SortedType, CutType DEF Stored
<1>3. walk' = [w EXCEPT !.seen = w.seen \o page,
                        !.state = IF Len(page) < w.query.limit THEN "over"
                                  ELSE "open"]
  BY DEF Turn, Walks
<1> HIDE DEF page
<1> QED
  BY <1>2, <1>3 DEF page, Walks

-----------------------------------------------------------------------------
\* seen is the beginning of the result, as far as it goes.
Begins(seen, seq) == /\ Len(seen) <= Len(seq)
                     /\ \A i \in 1 .. Len(seen) : seen[i] = seq[i]

\* The walk of a store that has not changed since: its result is still the
\* one it began with, and what it has seen is the beginning of it.
QuietInv ==
  walk.calm =>
    /\ walk.state = "open" => /\ walk.owed \in Sorted(repo, walk.query)
                              /\ Begins(walk.seen, walk.owed)
    /\ walk.state = "over" => walk.seen = walk.owed

LEMMA QuietTurn ==
  ASSUME Stored(repo), NEW w \in Walks, NEW seq \in Sorted(repo, w.query),
         Turn(w, seq), UNCHANGED repo,
         w.calm => w.owed = seq /\ Begins(w.seen, seq)
  PROVE  QuietInv'
<1> SUFFICES ASSUME w.calm PROVE QuietInv'
  BY TurnEffect DEF QuietInv
<1> DEFINE n == Len(w.seen)
           limit == w.query.limit
<1>1. /\ seq \in Seq(Id) /\ w.seen \in Seq(Id)
      /\ n \in Nat /\ limit \in Nat
  <2>1. w.query \in Queries /\ w.seen \in Seq(Id)
    BY DEF Walks
  <2>2. limit \in Nat
    BY <2>1, QueriesSafe
  <2>3. seq \in Seq(Id)
    BY SortedType DEF Stored
  <2> QED
    BY <2>1, <2>2, <2>3
<1>2. PICK page \in Seq(Id) :
        /\ page = Cut(seq, n, limit)
        /\ walk'.seen = w.seen \o page
        /\ walk'.state = IF Len(page) < limit THEN "over" ELSE "open"
        /\ walk'.query = w.query /\ walk'.owed = w.owed
        /\ walk'.calm = w.calm
  BY TurnEffect
<1>3. /\ \A i \in 1 .. Len(page) : /\ n + i \in 1 .. Len(seq)
                                   /\ page[i] = seq[n + i]
      /\ Len(page) < limit => Len(seq) <= n + Len(page)
  <2>1. page = Cut(seq, n, limit)
    BY <1>2
  <2> HIDE DEF n, limit
  <2> QED
    BY <1>1, <2>1, CutPart
<1>4. Begins(w.seen, seq)
  OBVIOUS
<1>5. walk'.seen \in Seq(Id) /\ Len(walk'.seen) = n + Len(page)
  BY <1>1, <1>2
<1>6. Begins(walk'.seen, seq)
  <2>1. Len(walk'.seen) <= Len(seq)
    <3>1. Len(page) \in Nat /\ Len(seq) \in Nat
      BY <1>1
    <3>2. CASE Len(page) = 0
      BY <1>1, <1>4, <1>5, <3>1, <3>2 DEF Begins
    <3>3. CASE Len(page) # 0
      <4>1. Len(page) \in 1 .. Len(page)
        BY <3>1, <3>3
      <4> QED
        BY <1>1, <1>3, <1>5, <3>1, <4>1
    <3> QED
      BY <3>2, <3>3
  <2>2. ASSUME NEW i \in 1 .. Len(walk'.seen) PROVE walk'.seen[i] = seq[i]
    <3>1. CASE i <= n
      BY <1>1, <1>2, <1>4, <1>5, <3>1 DEF Begins
    <3>2. CASE i > n
      <4>1. i - n \in 1 .. Len(page) /\ n + (i - n) = i
        BY <1>1, <1>5, <3>2
      <4>2. walk'.seen[i] = page[i - n]
        BY <1>1, <1>2, <1>5, <3>2
      <4> QED
        BY <1>3, <4>1, <4>2
    <3> QED
      BY <1>1, <1>5, <3>1, <3>2
  <2> QED
    BY <2>1, <2>2 DEF Begins
<1>7. walk'.state = "over" => walk'.seen = seq
  <2> SUFFICES ASSUME walk'.state = "over" PROVE walk'.seen = seq
    OBVIOUS
  <2>1. Len(seq) <= n + Len(page)
    BY <1>2, <1>3
  <2>2. Len(walk'.seen) = Len(seq)
    BY <1>1, <1>5, <1>6, <2>1 DEF Begins
  <2> QED
    BY <1>1, <1>5, <1>6, <2>2 DEF Begins
<1>8. walk'.owed = seq
  BY <1>2
<1> QED
  BY <1>2, <1>6, <1>7, <1>8 DEF QuietInv

LEMMA QuietInvStep == TypeInv /\ QuietInv /\ [Next]_vars => QuietInv'
<1> SUFFICES ASSUME TypeInv, QuietInv, [Next]_vars PROVE QuietInv'
  OBVIOUS
<1>1. ASSUME walk' = Disturbed(repo') PROVE QuietInv'
  BY <1>1 DEF Disturbed, QuietInv, TypeInv, Walks
<1>2. ASSUME NEW r \in Request, FirstPage(r) PROVE QuietInv'
  <2>1. PICK q \in Queries : q = ParseQuery(r)
    BY <1>2 DEF FirstPage, Queries
  <2>2. PICK seq \in Sorted(repo, q) : Turn(Begun(q, seq), seq)
    BY <1>2, <2>1 DEF FirstPage
  <2>3. seq \in Seq(Id)
    BY SortedType DEF TypeInv, Stored
  <2>4. Begun(q, seq) \in Walks /\ Begun(q, seq).query = q
    BY BegunType DEF TypeInv
  <2>5. Begun(q, seq).owed = seq /\ Begins(Begun(q, seq).seen, seq)
    BY <2>3 DEF Begun, Begins
  <2> QED
    BY <1>2, <2>2, <2>4, <2>5, QuietTurn DEF TypeInv, FirstPage
<1>3. CASE NextPage
  <2>1. PICK seq \in Sorted(repo, walk.query) : Turn(walk, seq)
    BY <1>3 DEF NextPage
  <2>2. walk.calm => walk.owed = seq /\ Begins(walk.seen, seq)
    <3>1. walk.query.sort \in Sort
      BY QueriesSafe DEF TypeInv, Walks
    <3> QED
      BY <1>3, <2>1, <3>1, OneSorted DEF NextPage, QuietInv, TypeInv
  <2> QED
    BY <1>3, <2>1, <2>2, QuietTurn DEF TypeInv, NextPage
<1>4. ASSUME walk' = Closed PROVE QuietInv'
  BY <1>4 DEF Closed, Begun, QuietInv
<1>5. ASSUME UNCHANGED <<repo, walk>> PROVE QuietInv'
  BY <1>5 DEF QuietInv
<1> QED
  BY <1>1, <1>2, <1>3, <1>4, <1>5
     DEF Next, vars, Create, Change, Save, File, Undo, ExportCollection,
         ExportArtifact, Refuse, Summary

(***************************************************************************)
(* The pages of an archive that does not change add up to the whole result *)
(* of the query, in its order, without a gap or an overlap: sortArtifacts  *)
(* leaves no two artifacts in either order, so each call of List sorts     *)
(* them alike, and the next page begins where the last one ended.          *)
(***************************************************************************)
THEOREM QuietWalksExact == Spec => []QuietWalkExact
<1>1. Init => QuietInv
  BY DEF Init, Closed, Begun, QuietInv
<1>2. QuietInv => QuietWalkExact
  BY DEF QuietInv, QuietWalkExact
<1> QED
  BY <1>1, <1>2, WellTyped, QuietInvStep, PTL DEF Spec

-----------------------------------------------------------------------------
\* How many artifacts come before x in the result of q.
Place(s, q, x) == Rank(ListOrder(s, q), Matching(s, q), x)

Shows(seen, x) == \E j \in DOMAIN seen : seen[j] = x

\* x is still to come for a client that has seen n artifacts.
Waits(s, q, x, n) == x \in Matching(s, q) /\ n <= Place(s, q, x)

\* Whatever was public when the walk began has been seen, or lies behind the
\* offset of the next page: artifacts that are approved meanwhile can only
\* move it further back, and no public one before it goes.
KeptInv ==
  walk.kept /\ walk.query.view = "public" =>
    \A i \in DOMAIN walk.owed :
      \/ Shows(walk.seen, walk.owed[i])
      \/ walk.state = "open"
         /\ Waits(repo, walk.query, walk.owed[i], Len(walk.seen))

\* A public search finds public artifacts, so it only gains from a change
\* that leaves those as they are, and they keep their order.
LEMMA PlaceGrows ==
  ASSUME NEW s, Stored(s), NEW u, Stored(u), NEW q \in Queries,
         q.view = "public",
         \A id \in DOMAIN s : IsPublic(s[id]) => id \in DOMAIN u /\ u[id] = s[id],
         NEW x, NEW n \in Nat, Waits(s, q, x, n)
  PROVE  Waits(u, q, x, n)
<1> DEFINE M == Matching(s, q)
           N == Matching(u, q)
           B == Below(ListOrder(s, q), M, x)
           C == Below(ListOrder(u, q), N, x)
<1>1. ASSUME NEW y \in M PROVE y \in N /\ u[y] = s[y]
  <2>1. y \in DOMAIN s /\ Includes(q, s[y])
    BY DEF Matching
  <2>2. IsPublic(s[y])
    BY <2>1, QueriesSafe DEF Includes, IsPublic
  <2>3. y \in DOMAIN u /\ u[y] = s[y]
    BY <2>1, <2>2
  <2> QED
    BY <2>3 DEF Matching
<1>2. B \subseteq C
  <2> SUFFICES ASSUME NEW y \in B PROVE y \in C
    OBVIOUS
  <2>1. y \in M /\ x \in M /\ Precedes(s, q.sort, y, x)
    BY DEF Below, ListOrder
  <2>2. /\ y \in N /\ x \in N /\ u[y] = s[y] /\ u[x] = s[x]
    BY <1>1, <2>1
  <2>3. Precedes(u, q.sort, y, x)
    BY <2>1, <2>2 DEF Precedes, PrecedesUntied
  <2> QED
    BY <2>2, <2>3 DEF Below, ListOrder
<1>3. IsFiniteSet(B) /\ IsFiniteSet(C)
  BY MatchingFinite, FS_Subset DEF Below, Stored
<1>4. Cardinality(B) <= Cardinality(C)
  BY <1>2, <1>3, FS_Subset
<1>5. Cardinality(B) \in Nat /\ Cardinality(C) \in Nat
  BY <1>3, FS_CardinalityType
<1>6. x \in N /\ n <= Cardinality(B)
  BY <1>1 DEF Waits, Place, Rank
<1>7. n <= Cardinality(C)
  BY <1>4, <1>5, <1>6
<1> QED
  BY <1>6, <1>7 DEF Waits, Place, Rank

LEMMA KeptGrows ==
  ASSUME TypeInv, Stored(repo'), KeptInv, walk' = Disturbed(repo'),
         walk'.kept => \A id \in DOMAIN repo : IsPublic(repo[id]) =>
                         id \in DOMAIN repo' /\ repo'[id] = repo[id]
  PROVE  KeptInv'
<1>1. /\ walk'.query = walk.query /\ walk'.owed = walk.owed
      /\ walk'.seen = walk.seen /\ walk'.state = walk.state
      /\ walk'.kept => walk.kept
  BY DEF Disturbed, TypeInv, Walks
<1> SUFFICES ASSUME walk'.kept, walk.query.view = "public",
                    NEW i \in DOMAIN walk.owed,
                    walk.state = "open",
                    Waits(repo, walk.query, walk.owed[i], Len(walk.seen))
             PROVE  Waits(repo', walk.query, walk.owed[i], Len(walk.seen))
  BY <1>1 DEF KeptInv
<1>2. walk.query \in Queries /\ Len(walk.seen) \in Nat
  BY DEF TypeInv, Walks
<1> QED
  BY <1>2, PlaceGrows DEF TypeInv

\* A turn shows what has its place in the page, and passes over nothing else.
LEMMA KeptTurn ==
  ASSUME Stored(repo), NEW w \in Walks, NEW seq \in Sorted(repo, w.query),
         Turn(w, seq), UNCHANGED repo,
         w.kept /\ w.query.view = "public" =>
           \A i \in DOMAIN w.owed :
             \/ Shows(w.seen, w.owed[i])
             \/ Waits(repo, w.query, w.owed[i], Len(w.seen))
  PROVE  KeptInv'
<1> DEFINE n == Len(w.seen)
           limit == w.query.limit
<1>1. w.query \in Queries /\ w.seen \in Seq(Id) /\ n \in Nat
  BY DEF Walks
<1>2. limit \in Nat /\ w.query.sort \in Sort
  BY <1>1, QueriesSafe
<1>3. seq \in Seq(Id)
  BY SortedType DEF Stored
<1>4. PICK page \in Seq(Id) :
        /\ page = Cut(seq, n, limit)
        /\ walk'.seen = w.seen \o page
        /\ walk'.state = IF Len(page) < limit THEN "over" ELSE "open"
        /\ walk'.query = w.query /\ walk'.owed = w.owed
        /\ walk'.kept = w.kept
  BY TurnEffect
<1> SUFFICES ASSUME w.kept, w.query.view = "public", NEW i \in DOMAIN w.owed
             PROVE  \/ Shows(walk'.seen, w.owed[i])
                    \/ walk'.state = "open"
                       /\ Waits(repo, w.query, w.owed[i], Len(walk'.seen))
  BY <1>4 DEF KeptInv
<1> DEFINE x == w.owed[i]
<1>5. /\ Len(page) \in 0 .. limit
      /\ \A k \in 1 .. Len(page) : n + k \in 1 .. Len(seq)
                                   /\ page[k] = seq[n + k]
      /\ Len(page) < limit => Len(seq) <= n + Len(page)
  <2>1. page = Cut(seq, n, limit)
    BY <1>4
  <2> HIDE DEF n, limit
  <2> QED
    BY <1>1, <1>2, <1>3, <2>1, CutPart
<1>6. /\ Len(walk'.seen) = n + Len(page)
      /\ \A k \in 1 .. n : walk'.seen[k] = w.seen[k]
      /\ \A k \in 1 .. Len(page) : walk'.seen[n + k] = page[k]
      /\ DOMAIN walk'.seen = 1 .. n + Len(page)
      /\ DOMAIN w.seen = 1 .. n
  <2>1. walk'.seen = w.seen \o page
    BY <1>4
  <2>2. \A u, v \in Seq(Id) :
          /\ Len(u \o v) = Len(u) + Len(v)
          /\ \A k \in 1 .. Len(u) : (u \o v)[k] = u[k]
          /\ \A k \in 1 .. Len(v) : (u \o v)[Len(u) + k] = v[k]
          /\ DOMAIN (u \o v) = 1 .. Len(u) + Len(v)
          /\ DOMAIN u = 1 .. Len(u)
    OBVIOUS
  <2> QED
    BY <1>1, <2>1, <2>2
<1>7. CASE Shows(w.seen, x)
  <2>1. PICK k \in DOMAIN w.seen : w.seen[k] = x
    BY <1>7 DEF Shows
  <2>2. k \in DOMAIN walk'.seen /\ walk'.seen[k] = x
    BY <1>1, <1>5, <1>6, <2>1
  <2> QED
    BY <2>2 DEF Shows
<1>8. CASE Waits(repo, w.query, x, n)
  <2>1. IsFiniteSet(Matching(repo, w.query))
    BY MatchingFinite DEF Stored
  <2>2. /\ seq \in SetToSeqs(Matching(repo, w.query))
        /\ InOrder(ListOrder(repo, w.query), seq)
        /\ StrictOrder(ListOrder(repo, w.query), Matching(repo, w.query))
    BY <1>2, SortedInOrder, ListOrdered
  <2>3. PICK p \in DOMAIN seq : seq[p] = x
    BY <1>8, <2>1, <2>2, EachOnce DEF Waits
  <2>4. Place(repo, w.query, x) = p - 1
    BY <2>1, <2>2, <2>3, RankIsPlace DEF Place
  <2>5. p \in 1 .. Len(seq) /\ n < p
    BY <1>1, <1>3, <1>8, <2>3, <2>4 DEF Waits
  <2>6. CASE p <= n + Len(page)
    <3>1. p - n \in 1 .. Len(page) /\ n + (p - n) = p
      BY <1>1, <1>3, <1>5, <2>5, <2>6
    <3>2. walk'.seen[p] = x
      BY <1>5, <1>6, <2>3, <3>1
    <3>3. p \in DOMAIN walk'.seen
      BY <1>1, <1>3, <1>6, <2>5, <2>6
    <3> QED
      BY <3>2, <3>3 DEF Shows
  <2>7. CASE p > n + Len(page)
    <3>1. Len(page) = limit
      BY <1>1, <1>2, <1>3, <1>5, <2>5, <2>7
    <3>2. walk'.state = "open"
      BY <1>2, <1>4, <3>1
    <3>3. Len(walk'.seen) <= Place(repo, w.query, x)
      BY <1>1, <1>3, <1>5, <1>6, <2>4, <2>5, <2>7
    <3> QED
      BY <1>8, <3>2, <3>3 DEF Waits
  <2> QED
    BY <1>1, <1>3, <1>5, <2>5, <2>6, <2>7
<1> QED
  BY <1>7, <1>8

\* A save of a new artifact, or over one that was not public, and a rollback
\* that keeps every public artifact public, change no public record.
LEMMA PublicStays ==
  ASSUME TypeInv, NEW id \in Id, NEW a, repo' = Put(id, a),
         walk' = Disturbed(repo'), walk'.kept,
         id \in DOMAIN repo => ~ IsPublic(repo[id]) \/ ~ IsPublic(a)
  PROVE  \A x \in DOMAIN repo : IsPublic(repo[x]) =>
           x \in DOMAIN repo' /\ repo'[x] = repo[x]
<1> SUFFICES ASSUME NEW x \in DOMAIN repo, IsPublic(repo[x])
             PROVE  x \in DOMAIN repo' /\ repo'[x] = repo[x]
  OBVIOUS
<1>1. x \in DOMAIN repo' /\ IsPublic(repo'[x])
  BY DEF Disturbed, TypeInv, Walks
<1>2. repo'[id] = a
  BY DEF Put
<1>3. x # id
  BY <1>1, <1>2
<1> QED
  BY <1>1, <1>3 DEF Put

LEMMA KeptInvStep ==
  TypeInv /\ TypeInv' /\ KeptInv /\ [Next]_vars => KeptInv'
<1> SUFFICES ASSUME TypeInv, TypeInv', KeptInv, [Next]_vars PROVE KeptInv'
  OBVIOUS
<1>1. Stored(repo')
  BY DEF TypeInv
<1>2. ASSUME NEW id \in Id, NEW m \in Meta, NEW now \in Time,
             Create(id, m, now)
      PROVE  KeptInv'
  <2>1. repo' = Put(id, NewArtifact(m, now)) /\ walk' = Disturbed(repo')
    BY <1>2 DEF Create, Save
  <2>2. id \notin DOMAIN repo
    BY <1>2 DEF Create
  <2> QED
    BY <1>1, <2>1, <2>2, PublicStays, KeptGrows
<1>3. ASSUME NEW id \in Id, NEW action \in Mutation, NEW m \in Meta,
             NEW now \in Time, Change(id, action, m, now)
      PROVE  KeptInv'
  <2>1. /\ repo' = Put(id, Apply(repo[id], action, m, now))
        /\ walk' = Disturbed(repo')
    BY <1>3 DEF Change, Save
  <2>2. ~ IsPublic(repo[id])
    BY <1>3 DEF Change, CanApply, IsPublic
  <2> QED
    BY <1>1, <2>1, <2>2, PublicStays, KeptGrows
<1>4. CASE Undo
  <2>1. walk' = Disturbed(repo')
    BY <1>4 DEF Undo
  <2>2. ASSUME walk'.kept
        PROVE  \A x \in DOMAIN repo : IsPublic(repo[x]) =>
                 x \in DOMAIN repo' /\ repo'[x] = repo[x]
    <3>1. CASE writer.before = ZeroArtifact
      <4>1. repo' = Drop(writer.id)
        BY <1>4, <3>1 DEF Undo
      <4>2. \A x \in DOMAIN repo : IsPublic(repo[x]) => x \in DOMAIN repo'
        BY <2>1, <2>2 DEF Disturbed, TypeInv, Walks
      <4> QED
        BY <4>1, <4>2 DEF Drop
    <3>2. CASE writer.before # ZeroArtifact
      <4>1. repo' = Put(writer.id, writer.before)
        BY <1>4, <3>2 DEF Undo
      <4>2. writer.id \in Id /\ ~ IsPublic(writer.before)
        BY <1>4, <3>2 DEF Undo, TypeInv, Stored, Restorable, IsPublic
      <4> QED
        BY <2>1, <2>2, <4>1, <4>2, PublicStays
    <3> QED
      BY <3>1, <3>2
  <2> QED
    BY <1>1, <2>1, <2>2, KeptGrows
<1>5. ASSUME NEW r \in Request, FirstPage(r) PROVE KeptInv'
  <2>1. PICK q \in Queries : q = ParseQuery(r)
    BY <1>5 DEF FirstPage, Queries
  <2>2. PICK seq \in Sorted(repo, q) : Turn(Begun(q, seq), seq)
    BY <1>5, <2>1 DEF FirstPage
  <2>3. seq \in Seq(Matching(repo, q))
    BY SortedType DEF TypeInv, Stored
  <2>4. Begun(q, seq) \in Walks /\ Begun(q, seq).query = q
    BY BegunType DEF TypeInv
  <2>5. Begun(q, seq).owed = seq /\ Begun(q, seq).seen = << >>
    BY DEF Begun
  <2>6. ASSUME NEW i \in DOMAIN seq PROVE Waits(repo, q, seq[i], 0)
    <3>1. seq[i] \in Matching(repo, q)
      BY <2>3
    <3>2. IsFiniteSet(Below(ListOrder(repo, q), Matching(repo, q), seq[i]))
      BY MatchingFinite, FS_Subset DEF Below, TypeInv, Stored
    <3>3. Place(repo, q, seq[i]) \in Nat
      BY <3>2, FS_CardinalityType DEF Place, Rank
    <3> QED
      BY <3>1, <3>3 DEF Waits
  <2>7. UNCHANGED repo
    BY <1>5 DEF FirstPage
  <2>8. Len(Begun(q, seq).seen) = 0
    BY <2>5
  <2>9. \A i \in DOMAIN Begun(q, seq).owed :
          Waits(repo, q, Begun(q, seq).owed[i], Len(Begun(q, seq).seen))
    BY <2>5, <2>6, <2>8
  <2> QED
    BY <2>2, <2>4, <2>7, <2>9, KeptTurn DEF TypeInv
<1>6. CASE NextPage
  <2>1. PICK seq \in Sorted(repo, walk.query) : Turn(walk, seq)
    BY <1>6 DEF NextPage
  <2> QED
    BY <1>6, <2>1, KeptTurn DEF NextPage, KeptInv, TypeInv
<1>7. ASSUME walk' = Closed PROVE KeptInv'
  BY <1>7 DEF Closed, Begun, KeptInv
<1>8. ASSUME UNCHANGED <<repo, walk>> PROVE KeptInv'
  BY <1>8 DEF KeptInv
<1> QED
  BY <1>2, <1>3, <1>4, <1>5, <1>6, <1>7, <1>8
     DEF Next, vars, File, ExportCollection, ExportArtifact, Refuse, Summary

(***************************************************************************)
(* A client that turns the pages of a public search misses no artifact     *)
(* that was public from the start, whatever is created, changed, approved  *)
(* or rolled back between two pages and wherever the clock puts it, unless *)
(* a rollback takes a public artifact out of the view.                     *)
(***************************************************************************)
THEOREM NoPublicSkipped == Spec => []NothingPublicSkipped
<1>1. Init => KeptInv
  BY DEF Init, Closed, Begun, KeptInv
<1>2. KeptInv => NothingPublicSkipped
  BY DEF KeptInv, NothingPublicSkipped, Shows
<1> QED
  BY <1>1, <1>2, WellTyped, KeptInvStep, PTL DEF Spec

-----------------------------------------------------------------------------
\* A set of numbers that is not empty has a least one.
LEMMA Least ==
  ASSUME NEW T \in SUBSET Nat, T # {}
  PROVE  \E n \in T : \A k \in T : n <= k
<1>1. PICK n \in T : \A k \in T : ~ (<<k, n>> \in OpToRel(<, Nat))
  BY NatLessThanWellFounded, WFMin
<1>2. \A k \in T : ~ (k < n)
  BY <1>1 DEF OpToRel
<1> QED
  BY <1>2

\* One pass over the artifacts ids of s, with f for the passes over less.
Pass(s, f, ids) ==
  IF ids = {} THEN NoSummary
  ELSE LET id == CHOOSE x \in ids : TRUE
       IN  Tally(s[id], f[ids \ {id}])

Smaller(D, n) == {ids \in SUBSET D : Cardinality(ids) <= n}

\* The equation of the fold has a solution, level by level: what a pass over
\* n + 1 artifacts gives is told by the passes over n.
LEMMA PassesExist ==
  ASSUME NEW s, NEW D, IsFiniteSet(D)
  PROVE  \E f : f = [ids \in SUBSET D |-> Pass(s, f, ids)]
<1> DEFINE Bad == {n \in Nat : ~ \E f : f = [ids \in Smaller(D, n) |->
                                               Pass(s, f, ids)]}
<1>1. \A ids \in SUBSET D : IsFiniteSet(ids) /\ Cardinality(ids) \in Nat
  BY FS_Subset, FS_CardinalityType
<1>2. 0 \notin Bad
  <2> DEFINE f == [ids \in Smaller(D, 0) |-> NoSummary]
  <2>1. \A ids \in Smaller(D, 0) : ids = {}
    BY <1>1, FS_EmptySet DEF Smaller
  <2>2. f = [ids \in Smaller(D, 0) |-> Pass(s, f, ids)]
    BY <2>1 DEF Pass
  <2> QED
    BY <2>2
<1>3. ASSUME NEW n \in Nat, n \notin Bad PROVE n + 1 \notin Bad
  <2>1. PICK f : f = [ids \in Smaller(D, n) |-> Pass(s, f, ids)]
    BY <1>3
  <2> DEFINE g == [ids \in Smaller(D, n + 1) |-> Pass(s, f, ids)]
  <2>2. \A ids \in Smaller(D, n) : ids \in Smaller(D, n + 1) /\ g[ids] = f[ids]
    <3> SUFFICES ASSUME NEW ids \in Smaller(D, n)
                 PROVE  ids \in Smaller(D, n + 1) /\ g[ids] = f[ids]
      OBVIOUS
    <3>1. ids \in Smaller(D, n + 1)
      BY <1>1 DEF Smaller
    <3>2. f[ids] = Pass(s, f, ids)
      BY <2>1
    <3> QED
      BY <3>1, <3>2
  <2> HIDE DEF g
  <2>3. ASSUME NEW ids \in Smaller(D, n + 1)
        PROVE  Pass(s, f, ids) = Pass(s, g, ids)
    <3> DEFINE id == CHOOSE x \in ids : TRUE
    <3>1. ids # {} => ids \ {id} \in Smaller(D, n)
      <4> SUFFICES ASSUME ids # {} PROVE ids \ {id} \in Smaller(D, n)
        OBVIOUS
      <4>1. id \in ids /\ ids \in SUBSET D /\ Cardinality(ids) <= n + 1
        BY DEF Smaller
      <4>2. Cardinality(ids \ {id}) = Cardinality(ids) - 1
        BY <1>1, <4>1, FS_RemoveElement
      <4> QED
        BY <1>1, <4>1, <4>2 DEF Smaller
    <3>2. ids # {} => g[ids \ {id}] = f[ids \ {id}]
      BY <2>2, <3>1
    <3> QED
      BY <3>2 DEF Pass
  <2>4. g = [ids \in Smaller(D, n + 1) |-> Pass(s, g, ids)]
    BY <2>3 DEF g
  <2> QED
    BY <2>4
<1>4. Bad = {}
  <2> SUFFICES ASSUME Bad # {} PROVE FALSE
    OBVIOUS
  <2>1. Bad \in SUBSET Nat
    OBVIOUS
  <2> HIDE DEF Bad
  <2>2. PICK n \in Bad : \A k \in Bad : n <= k
    BY <2>1, Least
  <2>3. n \in Nat /\ n # 0
    BY <1>2, <2>1
  <2>4. n - 1 \in Nat /\ n - 1 \notin Bad
    BY <2>1, <2>2, <2>3
  <2> QED
    BY <1>3, <2>3, <2>4
<1>5. Cardinality(D) \in Nat /\ Smaller(D, Cardinality(D)) = SUBSET D
  <2>1. \A ids \in SUBSET D : Cardinality(ids) <= Cardinality(D)
    BY FS_Subset
  <2> QED
    BY <2>1, FS_CardinalityType DEF Smaller
<1>6. PICK n \in Nat : Smaller(D, n) = SUBSET D
  BY <1>5
<1>7. n \notin Bad
  BY <1>4
<1>8. PICK f : f = [ids \in Smaller(D, n) |-> Pass(s, f, ids)]
  BY <1>7
<1>9. f = [ids \in SUBSET D |-> Pass(s, f, ids)]
  BY <1>6, <1>8
<1> QED
  BY <1>9

\* SummarizeArtifacts is such a solution at the whole archive.
LEMMA SummaryIsPass ==
  ASSUME NEW s, IsFiniteSet(DOMAIN s)
  PROVE  \E f : /\ \A ids \in SUBSET DOMAIN s : f[ids] = Pass(s, f, ids)
                /\ SummarizeArtifacts(s) =
                     [sum |-> f[DOMAIN s], topTags |-> TopTags(f[DOMAIN s].counts)]
<1> DEFINE D == DOMAIN s
           iter == CHOOSE f : f = [ids \in SUBSET D |->
                     IF ids = {} THEN NoSummary
                     ELSE LET x == CHOOSE x \in ids : TRUE
                          IN  Tally(s[x], f[ids \ {x}])]
<1>1. FoldSet(LAMBDA id, acc : Tally(s[id], acc), NoSummary, D) = iter[D]
  BY DEF FoldSet, MapThenFoldSet
<1>2. iter = CHOOSE f : f = [ids \in SUBSET D |-> Pass(s, f, ids)]
  BY DEF Pass
<1> HIDE DEF iter
<1>3. iter = [ids \in SUBSET D |-> Pass(s, iter, ids)]
  BY <1>2, PassesExist
<1>4. \A ids \in SUBSET D : iter[ids] = Pass(s, iter, ids)
  BY <1>3
<1>5. SummarizeArtifacts(s) =
        [sum |-> iter[D], topTags |-> TopTags(iter[D].counts)]
  BY <1>1 DEF SummarizeArtifacts
<1> QED
  BY <1>4, <1>5

-----------------------------------------------------------------------------
\* sum counts the artifacts ids of s.
Counts(s, ids, sum) ==
  /\ sum.total = Cardinality(ids)
  /\ sum.public + sum.working = Cardinality(ids)
  /\ sum.public = Cardinality({id \in ids : IsPublic(s[id])})
  /\ sum.byStatus =
       [st \in Status |-> Cardinality({id \in ids : s[id].status = st})]
  /\ sum.counts =
       [t \in Tags |-> Cardinality({id \in ids : t \in s[id].meta.tags})]

\* sum has the first and the last year of them, or none.
Dates(s, ids, sum) ==
  /\ ids = {} => sum.earliest = 0 /\ sum.latest = 0
  /\ ids # {} => /\ \E id \in ids : sum.earliest = s[id].meta.year
                 /\ \E id \in ids : sum.latest = s[id].meta.year
  /\ \A id \in ids : s[id].meta.year \in sum.earliest .. sum.latest

\* One artifact more adds one to what it is counted in.
LEMMA OneMore ==
  ASSUME NEW A, IsFiniteSet(A), NEW x
  PROVE  /\ Cardinality(A) \in Nat
         /\ Cardinality(A) =
              Cardinality(A \ {x}) + (IF x \in A THEN 1 ELSE 0)
<1>1. Cardinality(A) \in Nat /\ IsFiniteSet(A \ {x})
  BY FS_CardinalityType, FS_RemoveElement
<1>2. Cardinality(A \ {x}) = IF x \in A THEN Cardinality(A) - 1
                             ELSE Cardinality(A)
  BY FS_RemoveElement
<1> QED
  BY <1>1, <1>2

LEMMA TallyCounts ==
  ASSUME NEW s, Stored(s), NEW ids \in SUBSET DOMAIN s, IsFiniteSet(ids),
         NEW id \in ids, NEW sum, Counts(s, ids \ {id}, sum),
         sum.public \in Nat, sum.working \in Nat
  PROVE  /\ Counts(s, ids, Tally(s[id], sum))
         /\ Tally(s[id], sum).public \in Nat
         /\ Tally(s[id], sum).working \in Nat
<1> DEFINE a == s[id]
           new == Tally(a, sum)
           Pub(X) == {x \in X : IsPublic(s[x])}
           In(X, st) == {x \in X : s[x].status = st}
           Tagged(X, t) == {x \in X : t \in s[x].meta.tags}
           rest == ids \ {id}
<1>1. /\ new.total = sum.total + 1
      /\ new.public = sum.public + (IF IsPublic(a) THEN 1 ELSE 0)
      /\ new.working = sum.working + (IF IsPublic(a) THEN 0 ELSE 1)
      /\ new.byStatus = [sum.byStatus EXCEPT ![a.status] = @ + 1]
      /\ new.counts = [t \in Tags |-> sum.counts[t]
                         + (IF t \in a.meta.tags THEN 1 ELSE 0)]
  BY DEF Tally, TallyEarliest
<1> HIDE DEF new
<1>2. Cardinality(ids) = Cardinality(rest) + 1 /\ Cardinality(rest) \in Nat
  BY OneMore, FS_RemoveElement, FS_CardinalityType
<1>3. Cardinality(Pub(ids)) = Cardinality(Pub(rest))
                                + (IF IsPublic(a) THEN 1 ELSE 0)
  <2>1. IsFiniteSet(Pub(ids)) /\ Pub(ids) \ {id} = Pub(rest)
    BY FS_Subset
  <2>2. id \in Pub(ids) <=> IsPublic(a)
    OBVIOUS
  <2>3. Cardinality(Pub(ids)) = Cardinality(Pub(ids) \ {id})
          + (IF id \in Pub(ids) THEN 1 ELSE 0)
    BY <2>1, OneMore
  <2> HIDE DEF Pub
  <2> QED
    BY <2>1, <2>2, <2>3
<1>4. ASSUME NEW st \in Status
      PROVE  Cardinality(In(ids, st)) = Cardinality(In(rest, st))
                                          + (IF a.status = st THEN 1 ELSE 0)
  <2>1. IsFiniteSet(In(ids, st)) /\ In(ids, st) \ {id} = In(rest, st)
    BY FS_Subset
  <2>2. id \in In(ids, st) <=> a.status = st
    OBVIOUS
  <2>3. Cardinality(In(ids, st)) = Cardinality(In(ids, st) \ {id})
          + (IF id \in In(ids, st) THEN 1 ELSE 0)
    BY <2>1, OneMore
  <2> HIDE DEF In
  <2> QED
    BY <2>1, <2>2, <2>3
<1>5. ASSUME NEW t \in Tags
      PROVE  Cardinality(Tagged(ids, t)) = Cardinality(Tagged(rest, t))
                                   + (IF t \in a.meta.tags THEN 1 ELSE 0)
  <2>1. IsFiniteSet(Tagged(ids, t)) /\ Tagged(ids, t) \ {id} = Tagged(rest, t)
    BY FS_Subset
  <2>2. id \in Tagged(ids, t) <=> t \in a.meta.tags
    OBVIOUS
  <2>3. Cardinality(Tagged(ids, t)) = Cardinality(Tagged(ids, t) \ {id})
          + (IF id \in Tagged(ids, t) THEN 1 ELSE 0)
    BY <2>1, OneMore
  <2> HIDE DEF Tagged
  <2> QED
    BY <2>1, <2>2, <2>3
<1>6. \A st \in Status : Cardinality(In(rest, st)) \in Nat
  BY FS_RemoveElement, FS_Subset, FS_CardinalityType
<1>7. /\ sum.total = Cardinality(rest)
      /\ sum.public + sum.working = Cardinality(rest)
      /\ sum.public = Cardinality(Pub(rest))
      /\ sum.byStatus = [st \in Status |-> Cardinality(In(rest, st))]
      /\ sum.counts = [t \in Tags |-> Cardinality(Tagged(rest, t))]
  BY DEF Counts
<1> HIDE DEF Pub, In, Tagged, rest
<1>8. /\ new.total = Cardinality(ids)
      /\ new.public + new.working = Cardinality(ids)
      /\ new.public = Cardinality(Pub(ids))
      /\ new.public \in Nat /\ new.working \in Nat
  BY <1>1, <1>2, <1>3, <1>7
<1>9. new.byStatus = [st \in Status |-> Cardinality(In(ids, st))]
  <2>1. a.status \in Status
    BY DEF Stored, Artifact
  <2>2. new.byStatus = [st \in Status |-> Cardinality(In(rest, st))
                                            + (IF a.status = st THEN 1 ELSE 0)]
    BY <1>1, <1>6, <1>7, <2>1
  <2> QED
    BY <1>4, <2>2
<1>10. new.counts = [t \in Tags |-> Cardinality(Tagged(ids, t))]
  BY <1>1, <1>5, <1>7
<1> QED
  BY <1>8, <1>9, <1>10 DEF Counts, new, Pub, In, Tagged

LEMMA TallyDates ==
  ASSUME NEW s, Stored(s), NEW ids \in SUBSET DOMAIN s,
         NEW id \in ids, NEW sum, Dates(s, ids \ {id}, sum)
  PROVE  Dates(s, ids, Tally(s[id], sum))
<1> DEFINE y == s[id].meta.year
           new == Tally(s[id], sum)
           rest == ids \ {id}
<1>1. \A x \in ids : s[x].meta.year \in Nat \ {0}
  BY TextAssumption DEF Stored, Artifact
<1>2. /\ new.earliest = IF sum.earliest = 0 \/ y < sum.earliest THEN y
                        ELSE sum.earliest
      /\ new.latest = IF y > sum.latest THEN y ELSE sum.latest
  BY DEF Tally, TallyEarliest
<1> HIDE DEF new
<1>3. CASE rest = {}
  <2>1. sum.earliest = 0 /\ sum.latest = 0 /\ \A x \in ids : x = id
    BY <1>3 DEF Dates
  <2>2. new.earliest = y /\ new.latest = y
    BY <1>1, <1>2, <2>1
  <2> QED
    BY <1>1, <2>1, <2>2 DEF Dates, new
<1>4. CASE rest # {}
  <2>1. PICK x \in rest : sum.earliest = s[x].meta.year
    BY <1>4 DEF Dates
  <2>2. PICK z \in rest : sum.latest = s[z].meta.year
    BY <1>4 DEF Dates
  <2>3. \A w \in rest : s[w].meta.year \in sum.earliest .. sum.latest
    BY DEF Dates
  <2>4. /\ sum.earliest \in Nat \ {0} /\ sum.latest \in Nat \ {0}
        /\ y \in Nat \ {0}
    BY <1>1, <2>1, <2>2
  <2>5. \A w \in ids : s[w].meta.year \in new.earliest .. new.latest
    BY <1>1, <1>2, <2>3, <2>4
  <2>6. /\ \E w \in ids : new.earliest = s[w].meta.year
        /\ \E w \in ids : new.latest = s[w].meta.year
    BY <1>2, <2>1, <2>2
  <2> QED
    BY <2>5, <2>6 DEF Dates, new
<1> QED
  BY <1>3, <1>4

\* By induction on their number, a pass over some artifacts counts them.
LEMMA PassCounts ==
  ASSUME NEW s, Stored(s), NEW f,
         \A ids \in SUBSET DOMAIN s : f[ids] = Pass(s, f, ids)
  PROVE  Counts(s, DOMAIN s, f[DOMAIN s]) /\ Dates(s, DOMAIN s, f[DOMAIN s])
<1> DEFINE Good(ids) == /\ Counts(s, ids, f[ids]) /\ Dates(s, ids, f[ids])
                        /\ f[ids].public \in Nat /\ f[ids].working \in Nat
           Bad == {n \in Nat : \E ids \in SUBSET DOMAIN s :
                                 Cardinality(ids) = n /\ ~ Good(ids)}
<1>1. \A ids \in SUBSET DOMAIN s : /\ IsFiniteSet(ids)
                                   /\ Cardinality(ids) \in Nat
  BY IdAssumption, FS_Subset, FS_CardinalityType DEF Stored
<1>2. Good({})
  <2>1. f[{}] = NoSummary
    BY DEF Pass
  <2>2. \A P \in SUBSET {} : P = {} /\ Cardinality(P) = 0
    BY FS_EmptySet
  <2>3. Counts(s, {}, NoSummary)
    <3>1. /\ {id \in {} : IsPublic(s[id])} = {}
          /\ \A st : {id \in {} : s[id].status = st} = {}
          /\ \A t : {id \in {} : t \in s[id].meta.tags} = {}
      OBVIOUS
    <3> QED
      BY <2>2, <3>1 DEF Counts, NoSummary
  <2>4. Dates(s, {}, NoSummary)
    BY DEF Dates, NoSummary
  <2>5. NoSummary.public \in Nat /\ NoSummary.working \in Nat
    BY DEF NoSummary
  <2> QED
    BY <2>1, <2>3, <2>4, <2>5
<1>3. ASSUME NEW ids \in SUBSET DOMAIN s, ids # {},
             \A x \in ids : Good(ids \ {x})
      PROVE  Good(ids)
  <2> DEFINE id == CHOOSE x \in ids : TRUE
  <2>1. id \in ids
    BY <1>3
  <2>2. f[ids] = Tally(s[id], f[ids \ {id}])
    BY <1>3 DEF Pass
  <2> HIDE DEF id
  <2>3. Good(ids \ {id})
    BY <1>3, <2>1
  <2> DEFINE old == f[ids \ {id}]
  <2>4. /\ Counts(s, ids \ {id}, old) /\ Dates(s, ids \ {id}, old)
        /\ old.public \in Nat /\ old.working \in Nat
    BY <2>3
  <2>5. /\ Counts(s, ids, Tally(s[id], old))
        /\ Tally(s[id], old).public \in Nat
        /\ Tally(s[id], old).working \in Nat
    BY <1>1, <2>1, <2>4, TallyCounts
  <2>6. Dates(s, ids, Tally(s[id], old))
    BY <2>1, <2>4, TallyDates
  <2> QED
    BY <2>2, <2>5, <2>6
<1> HIDE DEF Good
<1>4. Bad = {}
  <2> SUFFICES ASSUME Bad # {} PROVE FALSE
    OBVIOUS
  <2>1. PICK n \in Bad : \A k \in Bad : n <= k
    BY Least
  <2>2. PICK ids \in SUBSET DOMAIN s : Cardinality(ids) = n /\ ~ Good(ids)
    OBVIOUS
  <2>3. ids # {}
    BY <1>2, <2>2
  <2>4. ASSUME NEW x \in ids PROVE Good(ids \ {x})
    <3>1. Cardinality(ids \ {x}) = n - 1 /\ n - 1 \in Nat
      <4>1. Cardinality(ids) = Cardinality(ids \ {x}) + 1
        BY <1>1, OneMore
      <4>2. n \in Nat /\ Cardinality(ids \ {x}) \in Nat
        BY <1>1
      <4> QED
        BY <2>2, <4>1, <4>2
    <3>2. n - 1 \notin Bad
      BY <2>1, <3>1
    <3> QED
      BY <3>1, <3>2
  <2> QED
    BY <1>3, <2>2, <2>3, <2>4
<1>5. Good(DOMAIN s)
  BY <1>1, <1>4
<1> QED
  BY <1>5 DEF Good

-----------------------------------------------------------------------------
\* The order in which a summary lists the tags.
TagOrder(counts) ==
  {p \in Tags \X Tags : \/ counts[p[1]] > counts[p[2]]
                        \/ counts[p[1]] = counts[p[2]] /\ p[1] < p[2]}

\* The tags a summary lists are used, and a tag it leaves out is not used, or
\* not more than any that is listed, and then the list is full.
LEMMA TopTagsFirst ==
  ASSUME NEW counts \in [Tags -> Nat],
         IsFiniteSet({t \in Tags : counts[t] > 0})
  PROVE  /\ \A i \in DOMAIN TopTags(counts) : TopTags(counts)[i] \in Tags
         /\ \A t \in Tags :
              \/ \E i \in DOMAIN TopTags(counts) : TopTags(counts)[i] = t
              \/ counts[t] = 0
              \/ /\ Len(TopTags(counts)) = MaxTopTags
                 /\ \A i \in DOMAIN TopTags(counts) :
                      counts[TopTags(counts)[i]] >= counts[t]
<1> DEFINE used == {t \in Tags : counts[t] > 0}
           R == TagOrder(counts)
           Before(t, u) == \/ counts[t] > counts[u]
                           \/ counts[t] = counts[u] /\ t < u
           Ranked(seq) == \A i, j \in DOMAIN seq :
                            i < j => Before(seq[i], seq[j])
           ranked == CHOOSE seq \in SetToSeqs(used) : Ranked(seq)
           top == Cut(ranked, 0, MaxTopTags)
<1>1. TopTags(counts) = top
  BY DEF TopTags
<1>2. \A t \in used : t \in Tags /\ t \in Nat /\ counts[t] \in Nat
  BY TextAssumption
<1>3. \A t, u \in used : <<t, u>> \in R <=> Before(t, u)
  BY DEF TagOrder
<1>4. StrictOrder(R, used)
  <2>1. \A t \in used : ~ Before(t, t)
    BY <1>2
  <2>2. \A t, u, v \in used : Before(t, u) /\ Before(u, v) => Before(t, v)
    BY <1>2
  <2>3. \A t, u \in used : t # u => Before(t, u) \/ Before(u, t)
    BY <1>2
  <2> HIDE DEF Before, used, R
  <2> QED
    BY <1>3, <2>1, <2>2, <2>3 DEF StrictOrder
<1>5. IsFiniteSet(used)
  OBVIOUS
<1> HIDE DEF used, R
<1>6. \E seq \in SetToSeqs(used) : Ranked(seq)
  <2>1. PICK seq \in SetToSeqs(used) : InOrder(R, seq)
    BY <1>4, <1>5, OrderExists
  <2>2. \A i \in DOMAIN seq : seq[i] \in used
    BY <1>5, EachOnce
  <2> HIDE DEF Before
  <2>3. Ranked(seq)
    BY <1>3, <2>1, <2>2 DEF InOrder
  <2> QED
    BY <2>3
<1>7. ranked \in SetToSeqs(used) /\ Ranked(ranked)
  BY <1>6
<1> HIDE DEF ranked
<1> DEFINE n == Cardinality(used)
<1>8. /\ n \in Nat /\ DOMAIN ranked = 1 .. n /\ ranked \in [1 .. n -> used]
      /\ \A t \in used : \E p \in 1 .. n : ranked[p] = t
  BY <1>5, <1>7, EachOnce
<1> HIDE DEF n
<1>9. ranked \in Seq(used) /\ Len(ranked) = n
  BY <1>8
<1>10. /\ Len(top) \in 0 .. MaxTopTags
       /\ \A i \in 1 .. Len(top) : /\ 0 + i \in 1 .. Len(ranked)
                                   /\ top[i] = ranked[0 + i]
       /\ Len(top) < MaxTopTags => Len(ranked) <= 0 + Len(top)
  BY <1>9, CutPart, PageAssumption
<1>11. DOMAIN top = 1 .. Len(top)
  BY <1>9, CutType, PageAssumption
<1> HIDE DEF top
<1>12. \A i \in 1 .. Len(top) : i \in 1 .. n /\ top[i] = ranked[i]
  BY <1>8, <1>9, <1>10
<1>13. \A i \in DOMAIN top : top[i] \in used
  BY <1>8, <1>11, <1>12
<1>14. ASSUME NEW t \in Tags, counts[t] # 0,
              ~ \E i \in DOMAIN top : top[i] = t
       PROVE  /\ Len(top) = MaxTopTags
              /\ \A i \in DOMAIN top : counts[top[i]] >= counts[t]
  <2>1. t \in used
    BY <1>14 DEF used
  <2>2. PICK p \in 1 .. n : ranked[p] = t
    BY <1>8, <2>1
  <2>3. p > Len(top)
    <3>1. p \notin 1 .. Len(top)
      BY <1>11, <1>12, <1>14, <2>2
    <3> QED
      BY <1>8, <1>10, <3>1
  <2>4. Len(top) = MaxTopTags
    BY <1>8, <1>9, <1>10, <2>3, PageAssumption
  <2>5. ASSUME NEW i \in DOMAIN top PROVE counts[top[i]] >= counts[t]
    <3>1. i \in 1 .. n /\ i < p /\ top[i] = ranked[i]
      BY <1>8, <1>10, <1>11, <1>12, <2>3
    <3>2. Before(ranked[i], ranked[p])
      BY <1>7, <1>8, <3>1
    <3>3. counts[top[i]] \in Nat /\ counts[t] \in Nat
      BY <1>2, <1>13, <2>1
    <3> QED
      BY <2>2, <3>1, <3>2, <3>3
  <2> QED
    BY <2>4, <2>5
<1> QED
  BY <1>1, <1>2, <1>13, <1>14

\* Finitely many tags are used, a list of them by each of finitely many.
LEMMA UsedFinite ==
  ASSUME NEW s, Stored(s), NEW counts,
         counts = [t \in Tags |->
                     Cardinality({id \in DOMAIN s : t \in s[id].meta.tags})]
  PROVE  /\ counts \in [Tags -> Nat]
         /\ IsFiniteSet({t \in Tags : counts[t] > 0})
<1> DEFINE Of(t) == {id \in DOMAIN s : t \in s[id].meta.tags}
           f == [id \in DOMAIN s |-> s[id].meta.tags]
           T == {f[id] : id \in DOMAIN s}
<1>1. IsFiniteSet(DOMAIN s)
  BY IdAssumption, FS_Subset DEF Stored
<1>2. \A t : IsFiniteSet(Of(t)) /\ Cardinality(Of(t)) \in Nat
  BY <1>1, FS_Subset, FS_CardinalityType
<1>3. counts \in [Tags -> Nat]
  BY <1>2
<1>4. IsFiniteSet(UNION T)
  <2>1. f \in Surjection(DOMAIN s, T)
    BY DEF Surjection
  <2>2. IsFiniteSet(T)
    BY <1>1, <2>1, FS_Surjection
  <2>3. \A tags \in T : IsFiniteSet(tags)
    BY TextAssumption DEF Stored, Artifact
  <2> QED
    BY <2>2, <2>3, FS_UNION
<1>5. ASSUME NEW t \in Tags, counts[t] > 0 PROVE t \in UNION T
  <2>1. Of(t) # {}
    BY <1>5, FS_EmptySet
  <2> QED
    BY <2>1
<1>6. {t \in Tags : counts[t] > 0} \subseteq UNION T
  BY <1>5
<1> QED
  BY <1>3, <1>4, <1>6, FS_Subset

\* What the queries of the working view find.
LEMMA Found ==
  ASSUME NEW s, Stored(s)
  PROVE  LET Working == [DefaultQuery EXCEPT !.view = "working"]
         IN  /\ Matching(s, DefaultQuery) = {id \in DOMAIN s : IsPublic(s[id])}
             /\ Matching(s, Working) = DOMAIN s
             /\ \A st \in Status : Matching(s, [Working EXCEPT !.status = st])
                                     = {id \in DOMAIN s : s[id].status = st}
             /\ \A t : Matching(s, [Working EXCEPT !.tag = <<t>>])
                         = {id \in DOMAIN s : t \in s[id].meta.tags}
             /\ \A y \in Nat \ {0} : Matching(s, [Working EXCEPT !.year = y])
                         = {id \in DOMAIN s : s[id].meta.year = y}
<1> DEFINE Working == [DefaultQuery EXCEPT !.view = "working"]
<1>1. Matching(s, DefaultQuery) = {id \in DOMAIN s : IsPublic(s[id])}
  BY DEF Matching, Includes, DefaultQuery
<1>2. Matching(s, Working) = DOMAIN s
  BY DEF Matching, Includes, DefaultQuery
<1>3. \A st \in Status : Matching(s, [Working EXCEPT !.status = st])
                           = {id \in DOMAIN s : s[id].status = st}
  BY DEF Matching, Includes, DefaultQuery, Status
<1>4. \A t : Matching(s, [Working EXCEPT !.tag = <<t>>])
               = {id \in DOMAIN s : t \in s[id].meta.tags}
  BY DEF Matching, Includes, DefaultQuery
<1>5. \A y \in Nat \ {0} : Matching(s, [Working EXCEPT !.year = y])
               = {id \in DOMAIN s : s[id].meta.year = y}
  BY DEF Matching, Includes, DefaultQuery
<1> QED
  BY <1>1, <1>2, <1>3, <1>4, <1>5

LEMMA SummaryExact ==
  ASSUME NEW s, Stored(s)
  PROVE  Agrees(SummarizeArtifacts(s), s)
<1>1. IsFiniteSet(DOMAIN s)
  BY IdAssumption, FS_Subset DEF Stored
<1>2. PICK f : /\ \A ids \in SUBSET DOMAIN s : f[ids] = Pass(s, f, ids)
               /\ SummarizeArtifacts(s) = [sum |-> f[DOMAIN s],
                    topTags |-> TopTags(f[DOMAIN s].counts)]
  BY <1>1, SummaryIsPass
<1>3. PICK sum : sum = f[DOMAIN s]
  OBVIOUS
<1>4. PICK top : top = TopTags(sum.counts)
  OBVIOUS
<1>5. SummarizeArtifacts(s).sum = sum /\ SummarizeArtifacts(s).topTags = top
  BY <1>2, <1>3, <1>4
<1>6. Counts(s, DOMAIN s, sum) /\ Dates(s, DOMAIN s, sum)
  BY <1>2, <1>3, PassCounts
<1> DEFINE Working == [DefaultQuery EXCEPT !.view = "working"]
           Count(q) == Cardinality(Matching(s, q))
           Tagged(t) == Count([Working EXCEPT !.tag = <<t>>])
           Dated(y) == y # 0 /\ Count([Working EXCEPT !.year = y]) > 0
<1>7. /\ sum.public = Count(DefaultQuery)
      /\ sum.total = Count(Working)
      /\ sum.public + sum.working = Count(Working)
      /\ \A st \in Status :
           sum.byStatus[st] = Count([Working EXCEPT !.status = st])
      /\ \A t \in Tags : sum.counts[t] = Tagged(t)
  BY <1>6, Found DEF Counts
<1>8. sum.total > 0 =>
        /\ Dated(sum.earliest) /\ Dated(sum.latest)
        /\ \A id \in DOMAIN s : s[id].meta.year \in sum.earliest .. sum.latest
  <2>1. ASSUME NEW id \in DOMAIN s PROVE Dated(s[id].meta.year)
    <3>1. PICK y : y = s[id].meta.year
      OBVIOUS
    <3>2. y \in Nat \ {0}
      BY <3>1, TextAssumption DEF Stored, Artifact
    <3> DEFINE F == {x \in DOMAIN s : s[x].meta.year = y}
    <3>3. Matching(s, [Working EXCEPT !.year = y]) = F
      BY <3>2, Found
    <3>4. IsFiniteSet(F) /\ F # {}
      BY <1>1, <3>1, FS_Subset
    <3>5. Cardinality(F) > 0
      BY <3>4, FS_EmptySet, FS_CardinalityType
    <3>6. Dated(y)
      BY <3>2, <3>3, <3>5
    <3> HIDE DEF Dated
    <3> QED
      BY <3>1, <3>6
  <2>2. sum.total > 0 => DOMAIN s # {}
    BY <1>6, FS_EmptySet DEF Counts
  <2> HIDE DEF Dated
  <2> QED
    BY <1>6, <2>1, <2>2 DEF Dates
<1>9. /\ sum.counts \in [Tags -> Nat]
      /\ IsFiniteSet({t \in Tags : sum.counts[t] > 0})
  <2>1. PICK counts : counts = sum.counts
    OBVIOUS
  <2>2. counts = [t \in Tags |->
                    Cardinality({id \in DOMAIN s : t \in s[id].meta.tags})]
    BY <1>6, <2>1 DEF Counts
  <2>3. counts \in [Tags -> Nat] /\ IsFiniteSet({t \in Tags : counts[t] > 0})
    BY <2>2, UsedFinite
  <2> QED
    BY <2>1, <2>3
<1>10. /\ \A i \in DOMAIN top : top[i] \in Tags
       /\ \A t \in Tags : \/ \E i \in DOMAIN top : top[i] = t
                          \/ sum.counts[t] = 0
                          \/ /\ Len(top) = MaxTopTags
                             /\ \A i \in DOMAIN top :
                                  sum.counts[top[i]] >= sum.counts[t]
  BY <1>4, <1>9, TopTagsFirst
<1>11. /\ \A i \in DOMAIN top : sum.counts[top[i]] = Tagged(top[i])
       /\ \A t \in Tags : \/ \E i \in DOMAIN top : top[i] = t
                          \/ Tagged(t) = 0
                          \/ /\ Len(top) = MaxTopTags
                             /\ \A i \in DOMAIN top :
                                  Tagged(top[i]) >= Tagged(t)
  <2> HIDE DEF Tagged
  <2> QED
    BY <1>7, <1>10
<1> QED
  BY <1>5, <1>7, <1>8, <1>11 DEF Agrees

LEMMA SummaryStep ==
  TypeInv /\ SummaryAgrees /\ [Next]_vars => SummaryAgrees'
<1> SUFFICES ASSUME TypeInv, SummaryAgrees, [Next]_vars PROVE SummaryAgrees'
  OBVIOUS
<1>1. CASE Summary
  <2>1. PICK s : s = repo
    OBVIOUS
  <2>2. /\ repo' = s /\ Stored(s)
        /\ answer' = [handler |-> "catalogSummary",
                      summary |-> SummarizeArtifacts(s)]
    BY <1>1, <2>1 DEF Summary, TypeInv
  <2> QED
    BY <2>2, SummaryExact DEF SummaryAgrees
<1>2. ASSUME answer'.handler # "catalogSummary" PROVE SummaryAgrees'
  BY <1>2 DEF SummaryAgrees
<1>3. ASSUME NEW w, NEW seq, Turn(w, seq) PROVE SummaryAgrees'
  BY <1>2, <1>3 DEF Turn
<1>4. ASSUME NEW r \in Request,
             FirstPage(r) \/ ExportCollection(r) \/ Refuse(r)
      PROVE  SummaryAgrees'
  BY <1>2, <1>3, <1>4 DEF FirstPage, ExportCollection, Refuse
<1>5. CASE NextPage
  BY <1>3, <1>5 DEF NextPage
<1>6. ASSUME NEW id \in Id, ExportArtifact(id) PROVE SummaryAgrees'
  BY <1>2, <1>6 DEF ExportArtifact
<1>7. ASSUME answer' = Silent PROVE SummaryAgrees'
  BY <1>2, <1>7 DEF Silent
<1>8. CASE UNCHANGED vars
  BY <1>8 DEF vars, SummaryAgrees
<1> QED
  BY <1>1, <1>4, <1>5, <1>6, <1>7, <1>8
     DEF Next, Create, Change, Save, File, Undo

(***************************************************************************)
(* GET /catalog/summary counts what the searches find: SummarizeArtifacts  *)
(* goes over each artifact once, in whatever order, its zero values never  *)
(* pass for a year, and the tags it lists are the most frequent ones.      *)
(***************************************************************************)
THEOREM SummariesAgree == Spec => []SummaryAgrees
<1>1. Init => SummaryAgrees
  BY DEF Init, Silent, SummaryAgrees
<1> QED
  BY <1>1, WellTyped, SummaryStep, PTL DEF Spec
=============================================================================

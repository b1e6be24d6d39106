------------------------------- MODULE Search -------------------------------
(***************************************************************************)
(* The reads of the catalog that go over all artifacts: a client that      *)
(* turns the pages of GET /artifacts, the two exports and the summary,     *)
(* beside one writer whose changes may be rolled back.  (What several      *)
(* writers do to each other is the subject of Catalog.)                    *)
(*                                                                         *)
(* A title, a tag and a keyword are ordered or compared, never spelled; a  *)
(* keyword is contained in a text when it is a member of its words.        *)
(***************************************************************************)
EXTENDS Domain, FiniteSetsExt, SequencesExt

CONSTANTS
  Id,            \* identifiers, as numbers in the order of the strings
  Request,       \* the query strings clients send, see queryValues
  DefaultLimit,  \* the limit of DefaultQuery: 50
  MaxLimit,      \* the largest limit: 200
  MaxTopTags,    \* how many tags a summary lists: 12
  MaxSaves       \* bound: how many changes the writer makes

Tags == UNION {m.tags : m \in Meta}

ASSUME IdAssumption == Id \subseteq Nat /\ IsFiniteSet(Id)
ASSUME PageAssumption ==
  /\ DefaultLimit \in Nat \ {0} /\ MaxLimit \in Nat \ {0}
  /\ MaxTopTags \in Nat /\ MaxSaves \in Nat
ASSUME TextAssumption ==
  /\ \A m \in Meta : m.title \in Nat /\ m.year \in Nat \ {0}
                     /\ IsFiniteSet(m.tags)
  /\ Tags \subseteq Nat

VARIABLES
  repo,    \* the artifact store
  writer,  \* the artifact whose change has no event yet, as it was before
  saves,   \* how many changes the writer has made
  walk,    \* the client that turns pages
  answer   \* what the last step sent to a client

vars == <<repo, writer, saves, walk, answer>>

Silent == [handler |-> "none"]

-----------------------------------------------------------------------------
(***************************************************************************)
(* ParseQuery.  A parameter that is missing or blank is "", or << >> for a *)
(* number; the offset is the page's, and never negative here.              *)
(***************************************************************************)
View == {"public", "working"}
Sort == {"recent", "oldest", "title"}

Or(text, default) == IF text = "" THEN default ELSE text
Number(text, default) == IF text = << >> THEN default ELSE text[1]

DefaultQuery ==
  [view |-> "public", sort |-> "recent", status |-> "", tag |-> << >>,
   keyword |-> << >>, year |-> 0, limit |-> DefaultLimit]

ParseQuery(r) ==
  [view    |-> Or(r.view, "public"),
   sort    |-> Or(r.sort, "recent"),
   status  |-> r.status,
   tag     |-> r.tag,
   keyword |-> r.keyword,
   year    |-> Number(r.year, 0),
   limit   |-> Number(r.limit, DefaultLimit)]

\* A parser that leaves the view to the status filter.
AcceptsAnyStatus(r) ==
  LET q == ParseQuery(r)
  IN /\ q.view \in View /\ q.sort \in Sort /\ q.status \in Status \union {""}
     /\ r.year # << >> => q.year \in 1000 .. 2100
     /\ q.limit \in 1 .. MaxLimit

Accepts(r) ==
  LET q == ParseQuery(r)
  IN /\ q.view \in View /\ q.sort \in Sort /\ q.status \in Status \union {""}
     /\ q.view = "public" => q.status \in {"", "approved"}
     /\ r.year # << >> => q.year \in 1000 .. 2100
     /\ q.limit \in 1 .. MaxLimit

-----------------------------------------------------------------------------
(***************************************************************************)
(* Service.List, on the artifacts s that one call of the store returned.   *)
(***************************************************************************)
IsPublic(a) == a.status = "approved"

Includes(q, a) ==
  IF q.status # "" THEN a.status = q.status
  ELSE q.view = "working" \/ IsPublic(a)

SearchText(m) == m.words \union m.tags

Matching(s, q) ==
  {id \in DOMAIN s :
     /\ Includes(q, s[id])
     /\ q.keyword # << >> => q.keyword[1] \in SearchText(s[id].meta)
     /\ q.tag # << >> => q.tag[1] \in s[id].meta.tags
     /\ q.year # 0 => s[id].meta.year = q.year}

\* A comparison that leaves equal titles and times in any order.
PrecedesUntied(s, sort, x, y) ==
  CASE sort = "oldest" -> s[x].updated < s[y].updated
    [] sort = "title"  -> s[x].meta.title < s[y].meta.title
    [] sort = "recent" -> s[x].updated > s[y].updated

Precedes(s, sort, x, y) ==
  \/ PrecedesUntied(s, sort, x, y)
  \/ ~ PrecedesUntied(s, sort, y, x) /\ x < y

\* sort.Slice is not stable: any order that inverts no two elements.
Sorted(s, q) ==
  {seq \in SetToSeqs(Matching(s, q)) :
     \A i, j \in DOMAIN seq : i < j => ~ Precedes(s, q.sort, seq[j], seq[i])}

\* A page that ends before the artifact its limit would admit.
CutShort(seq, offset, limit) ==
  IF offset >= Len(seq) THEN << >>
  ELSE IF offset + limit < Len(seq)
       THEN SubSeq(seq, offset + 1, offset + limit - 1)
       ELSE SubSeq(seq, offset + 1, Len(seq))

Cut(seq, offset, limit) ==
  IF offset >= Len(seq) THEN << >>
  ELSE IF offset + limit < Len(seq)
       THEN SubSeq(seq, offset + 1, offset + limit)
       ELSE SubSeq(seq, offset + 1, Len(seq))

\* What an answer shows of the artifacts it lists, as far as it matters.
Shown(s, page) ==
  [i \in DOMAIN page |-> [id |-> page[i], status |-> s[page[i]].status]]

-----------------------------------------------------------------------------
(***************************************************************************)
(* SummarizeArtifacts: one pass over the artifacts, and the tags by count. *)
(***************************************************************************)
NoSummary ==
  [total |-> 0, public |-> 0, working |-> 0,
   byStatus |-> [st \in Status |-> 0], earliest |-> 0, latest |-> 0,
   counts |-> [t \in Tags |-> 0]]

\* A count whose earliest year never leaves its zero value.
TallyEarliest(a, sum) ==
  [total    |-> sum.total + 1,
   public   |-> sum.public + (IF IsPublic(a) THEN 1 ELSE 0),
   working  |-> sum.working + (IF IsPublic(a) THEN 0 ELSE 1),
   byStatus |-> [sum.byStatus EXCEPT ![a.status] = @ + 1],
   earliest |-> IF a.meta.year < sum.earliest THEN a.meta.year
                ELSE sum.earliest,
   latest   |-> IF a.meta.year > sum.latest THEN a.meta.year ELSE sum.latest,
   counts   |-> [t \in Tags |->
                   sum.counts[t] + (IF t \in a.meta.tags THEN 1 ELSE 0)]]

Tally(a, sum) ==
  [TallyEarliest(a, sum) EXCEPT
     !.earliest = IF sum.earliest = 0 \/ a.meta.year < sum.earliest
                  THEN a.meta.year ELSE sum.earliest]

TopTags(counts) ==
  LET used == {t \in Tags : counts[t] > 0}
      Before(t, u) == \/ counts[t] > counts[u]
                      \/ counts[t] = counts[u] /\ t < u
      ranked == CHOOSE seq \in SetToSeqs(used) :
                  \A i, j \in DOMAIN seq : i < j => Before(seq[i], seq[j])
  IN Cut(ranked, 0, MaxTopTags)

SummarizeArtifacts(s) ==
  LET sum == FoldSet(LAMBDA id, acc : Tally(s[id], acc), NoSummary, DOMAIN s)
  IN [sum |-> sum, topTags |-> TopTags(sum.counts)]

-----------------------------------------------------------------------------
(***************************************************************************)
(* The writer: a call of repo.Save, then the Append of the event, or the   *)
(* rollback of CreateAs and applyMutation.  A created artifact was the     *)
(* ZeroArtifact before.                                                    *)
(***************************************************************************)
Idle == [id |-> 0, before |-> ZeroArtifact, busy |-> FALSE]

\* Records from before: taken in, submitted and approved at the first
\* reading of the clock.
Stock ==
  LET First == {t \in Time : \A u \in Time : t <= u}
  IN UNION {LET a == NewArtifact(m, t)
            IN {a, Submit(a, t), Decide(Submit(a, t), "approve", t)} :
              m \in Meta, t \in First}

Put(id, a) == [x \in DOMAIN repo \union {id} |-> IF x = id THEN a ELSE repo[x]]
Drop(id) == [x \in DOMAIN repo \ {id} |-> repo[x]]

\* What the client that turns pages must not be blamed for.
Disturbed(s) ==
  [walk EXCEPT !.calm = FALSE,
     !.kept = @ /\ \A id \in DOMAIN repo :
                     IsPublic(repo[id]) => id \in DOMAIN s /\ IsPublic(s[id])]

Save(id, a) ==
  /\ ~ writer.busy /\ saves < MaxSaves
  /\ Valid(a)
  /\ repo' = Put(id, a)
  /\ saves' = saves + 1
  /\ walk' = Disturbed(repo')
  /\ answer' = Silent

Create(id, m, now) ==
  /\ id \notin DOMAIN repo
  /\ Save(id, NewArtifact(m, now))
  /\ writer' = [id |-> id, before |-> ZeroArtifact, busy |-> TRUE]

Change(id, action, m, now) ==
  /\ id \in DOMAIN repo /\ CanApply(repo[id], action)
  /\ Save(id, Apply(repo[id], action, m, now))
  /\ writer' = [id |-> id, before |-> repo[id], busy |-> TRUE]

File ==
  /\ writer.busy
  /\ writer' = Idle
  /\ answer' = Silent
  /\ UNCHANGED <<repo, saves, walk>>

\* A rollback that saves the zero artifact where it should delete.
UndoBySaving ==
  /\ writer.busy
  /\ repo' = Put(writer.id, writer.before)
  /\ writer' = Idle
  /\ walk' = Disturbed(repo')
  /\ answer' = Silent
  /\ UNCHANGED saves

Undo ==
  /\ writer.busy
  /\ repo' = IF writer.before = ZeroArtifact THEN Drop(writer.id)
             ELSE Put(writer.id, writer.before)
  /\ writer' = Idle
  /\ walk' = Disturbed(repo')
  /\ answer' = Silent
  /\ UNCHANGED saves

-----------------------------------------------------------------------------
(***************************************************************************)
(* The readers.  A client turns pages: it asks for the first page of a     *)
(* query, then for the page after all it has seen, until a page is not     *)
(* full.  owed is the whole result when it began, calm whether the store   *)
(* has not changed since, kept whether no public artifact has gone.  When  *)
(* it has seen them all it asks for something else, or for another query.  *)
(***************************************************************************)
Begun(q, seq) == [state |-> "over", query |-> q, owed |-> seq,
                  seen |-> << >>, calm |-> TRUE, kept |-> TRUE]

Turn(w, seq) ==
  LET page == Cut(seq, Len(w.seen), w.query.limit)
  IN /\ walk' = [w EXCEPT !.seen  = @ \o page,
                          !.state = IF Len(page) < w.query.limit THEN "over"
                                    ELSE "open"]
     /\ answer' = [handler |-> "listArtifacts", view |-> w.query.view,
                   artifacts |-> Shown(repo, page)]

FirstPage(r) ==
  /\ walk.state = "over"
  /\ Accepts(r)
  /\ \E seq \in Sorted(repo, ParseQuery(r)) :
       Turn(Begun(ParseQuery(r), seq), seq)
  /\ UNCHANGED <<repo, writer, saves>>

NextPage ==
  /\ walk.state = "open"
  /\ \E seq \in Sorted(repo, walk.query) : Turn(walk, seq)
  /\ UNCHANGED <<repo, writer, saves>>

Closed == Begun(DefaultQuery, << >>)

ExportCollection(r) ==
  /\ walk.state = "over" /\ walk' = Closed
  /\ Accepts(r)
  /\ LET q == ParseQuery(r)
     IN \E seq \in Sorted(repo, q) :
          answer' = [handler   |-> "exportCollection", view |-> q.view,
                     artifacts |-> Shown(repo, Cut(seq, 0, q.limit))]
  /\ UNCHANGED <<repo, writer, saves>>

ExportArtifact(id) ==
  /\ walk.state = "over" /\ walk' = Closed
  /\ id \in DOMAIN repo /\ IsPublic(repo[id])
  /\ answer' = [handler   |-> "exportArtifact", view |-> "public",
                artifacts |-> Shown(repo, <<id>>)]
  /\ UNCHANGED <<repo, writer, saves>>

Refuse(r) ==
  /\ walk.state = "over" /\ walk' = Closed
  /\ ~ Accepts(r)
  /\ answer' = [handler |-> "refused"]
  /\ UNCHANGED <<repo, writer, saves>>

Summary ==
  /\ walk.state = "over" /\ walk' = Closed
  /\ answer' = [handler |-> "catalogSummary",
                summary |-> SummarizeArtifacts(repo)]
  /\ UNCHANGED <<repo, writer, saves>>

Init ==
  /\ \E ids \in SUBSET Id : repo \in [ids -> Stock]
  /\ writer = Idle /\ saves = 0
  /\ walk = Closed
  /\ answer = Silent

Next ==
  \/ \E id \in Id, m \in Meta, now \in Time :
       \/ Create(id, m, now)
       \/ \E action \in Mutation : Change(id, action, m, now)
  \/ File
  \/ Undo
  \/ \E r \in Request : FirstPage(r) \/ ExportCollection(r) \/ Refuse(r)
  \/ NextPage
  \/ \E id \in Id : ExportArtifact(id)
  \/ Summary

Spec == Init /\ [][Next]_vars

-----------------------------------------------------------------------------
\* The variables keep their types: every stored record is Valid.
TypeOK ==
  /\ \A id \in DOMAIN repo : id \in Id /\ Valid(repo[id])
  /\ writer.busy => writer.id \in DOMAIN repo
  /\ saves \in 0 .. MaxSaves
  /\ walk.state \in {"open", "over"} /\ walk.seen \in Seq(Id)

(***************************************************************************)
(* What leaves by the public view, or as a single export, is approved:     *)
(* Includes looks at the status filter before the view, so this rests on   *)
(* what ParseQuery refuses.                                                *)
(***************************************************************************)
PublicAnswersApproved ==
  answer.handler \in {"listArtifacts", "exportCollection", "exportArtifact"}
    /\ answer.view = "public"
  => \A i \in DOMAIN answer.artifacts : answer.artifacts[i].status = "approved"

(***************************************************************************)
(* The pages a client collects while nothing is saved are the whole        *)
(* result, in order, each artifact once: the sort leaves nothing open, and *)
(* no page overlaps the next or leaves a gap.                              *)
(***************************************************************************)
QuietWalkExact == walk.state = "over" /\ walk.calm => walk.seen = walk.owed

(***************************************************************************)
(* In the public view pages may repeat artifacts when others are approved  *)
(* meanwhile, but leave out none that was public from the start, whatever  *)
(* the order and the clock; unless the rollback of an approval took an     *)
(* artifact out of the view.                                               *)
(***************************************************************************)
NothingPublicSkipped ==
  walk.state = "over" /\ walk.query.view = "public" /\ walk.kept
  => \A i \in DOMAIN walk.owed :
       \E j \in DOMAIN walk.seen : walk.seen[j] = walk.owed[i]

\* The summary of the artifacts s says what searches among them find.
Agrees(summary, s) ==
  LET sum == summary.sum
      top == summary.topTags
      Working == [DefaultQuery EXCEPT !.view = "working"]
      Count(q) == Cardinality(Matching(s, q))
      Tagged(t) == Count([Working EXCEPT !.tag = <<t>>])
      Dated(y) == y # 0 /\ Count([Working EXCEPT !.year = y]) > 0
  IN /\ sum.public = Count(DefaultQuery)
     /\ sum.total = Count(Working)
     /\ sum.public + sum.working = Count(Working)
     /\ \A st \in Status :
          sum.byStatus[st] = Count([Working EXCEPT !.status = st])
     /\ sum.total > 0 =>
          /\ Dated(sum.earliest) /\ Dated(sum.latest)
          /\ \A id \in DOMAIN s : s[id].meta.year \in sum.earliest .. sum.latest
     /\ \A i \in DOMAIN top : sum.counts[top[i]] = Tagged(top[i])
     /\ \A t \in Tags : \/ \E i \in DOMAIN top : top[i] = t
                        \/ Tagged(t) = 0
                        \/ /\ Len(top) = MaxTopTags
                           /\ \A i \in DOMAIN top : Tagged(top[i]) >= Tagged(t)

(***************************************************************************)
(* The summary says what the searches find: as many public artifacts as    *)
(* the default query, as many of a status, of a tag, and of the first and  *)
(* last year as the filters of the working view; a tag that is not listed  *)
(* is not more frequent than one that is.                                  *)
(***************************************************************************)
SummaryAgrees ==
  answer.handler = "catalogSummary" => Agrees(answer.summary, repo)

(***************************************************************************)
(* PROJECT_SPEC.md, workflow 5: GET /collections/export filters and sorts  *)
(* within the public view.                                                 *)
(***************************************************************************)
ExportStaysPublic ==
  answer.handler = "exportCollection"
  => \A i \in DOMAIN answer.artifacts : answer.artifacts[i].status = "approved"
=============================================================================

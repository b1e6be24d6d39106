----------------------------- MODULE StoreCalls ------------------------------
(***************************************************************************)
(* The calls of storage.Repository and storage.AuditRepository, and what   *)
(* each of them does to a store's contents and answers.                    *)
(*                                                                         *)
(* Both stores are functions here: the artifact store from artifact        *)
(* identifiers to records, the audit store from event identifiers to the   *)
(* artifacts the events are about.  The order of the items is left out:    *)
(* both stores sort what they write and what they answer.                  *)
(***************************************************************************)
CONSTANTS
  Proc,   \* the goroutines that call the store
  Id,     \* the identifiers of the items
  Value,  \* the values of the items that pass Validate
  Junk,   \* a value that does not
  Kind    \* which store it is, "artifacts" or "events"

ASSUME JunkAssumption == Junk \notin Value
ASSUME KindAssumption == Kind \in {"artifacts", "events"}

Contents == UNION {[ids -> Value] : ids \in SUBSET Id}

Empty == [id \in {} |-> Junk]

NoCall == [op |-> "none"]

Writes ==
  IF Kind = "artifacts"
    THEN [op : {"Save"}, id : Id, value : Value \union {Junk}]
           \union [op : {"Delete"}, id : Id]
    ELSE [op : {"Append"}, id : Id, value : Value \union {Junk}]
           \union [op : {"DeleteByArtifact"}, value : Value]

Reads ==
  IF Kind = "artifacts"
    THEN [op : {"Get"}, id : Id] \union [op : {"List"}]
    ELSE [op : {"ListByArtifact"}, value : Value] \union [op : {"ListAll"}]

Calls == Reads \union Writes

\* An answer is "open" until the call takes effect or fails.  A Get that
\* finds nothing answers an error of its own; here, no items.
Answer == [is : {"open", "ok", "error", "found"}, items : Contents]

Says(word) == [is |-> word, items |-> Empty]

Open == Says("open")

-----------------------------------------------------------------------------
Put(c, id, v) == [x \in DOMAIN c \union {id} |-> IF x = id THEN v ELSE c[x]]

Select(c, ids) == [x \in ids |-> c[x]]

\* What Validate asks of a new item, before the call takes any lock.
Valid(call) == call.op \in {"Save", "Append"} => call.value \in Value

\* The tests that a writing call makes with the gate locked.
Accepts(c, call) ==
  /\ call.op = "Delete" => call.id \in DOMAIN c
  /\ call.op = "Append" => call.id \notin DOMAIN c

Result(c, call) ==
  CASE call.op \in {"Save", "Append"} -> Put(c, call.id, call.value)
    [] call.op = "Delete" -> Select(c, DOMAIN c \ {call.id})
    [] call.op = "DeleteByArtifact" ->
         Select(c, {x \in DOMAIN c : c[x] # call.value})

Found(c, call) ==
  CASE call.op = "Get" -> Select(c, DOMAIN c \intersect {call.id})
    [] call.op = "ListByArtifact" ->
         Select(c, {x \in DOMAIN c : c[x] = call.value})
    [] call.op \in {"List", "ListAll"} -> c

\* List stops when its context is cancelled, and answers what it has so far
\* without an error.
Answers(c, call, cancelled) ==
  {[is |-> "found", items |-> items] :
     items \in IF call.op = "List" /\ cancelled
                 THEN {Select(c, ids) : ids \in SUBSET DOMAIN c}
                 ELSE {Found(c, call)}}
=============================================================================

------------------------------ MODULE History -------------------------------
(***************************************************************************)
(* GET /artifacts/{id}/history beside the write path: Service.History asks *)
(* the repository for the artifact and then, in a second call, the audit   *)
(* store for its events.  Between the two any handler of Catalog may run.  *)
(***************************************************************************)
EXTENDS Catalog, FiniteSets

VARIABLE
  reader   \* the handler that answers a history, and its last answer

hvars == <<vars, reader>>

-----------------------------------------------------------------------------
\* A timeline that keeps one event per version.
TimelinesWithoutRepeats(events) ==
  LET first == {e \in events : e = CHOOSE f \in events : f.version = e.version}
  IN {seq \in [1 .. Cardinality(first) -> first] :
        \A i, j \in DOMAIN seq : i < j => seq[i].version < seq[j].version}

(***************************************************************************)
(* NewTimeline orders the events by version.  Two handlers that read the   *)
(* same record file two events of the same version; the model keeps no     *)
(* occurred_at, which orders those, so that their order is left open.      *)
(***************************************************************************)
Timelines(events) ==
  {seq \in [1 .. Cardinality(events) -> events] :
     \A i, j \in DOMAIN seq :
       i < j => seq[i] # seq[j] /\ seq[i].version <= seq[j].version}

NoHistory == [at |-> "idle"]

HInit == Init /\ reader = NoHistory

\* Service.Get finds the artifact.  found is the version of its record, known
\* what the trail held then: the code keeps neither, the properties do.
GetArtifact(id) ==
  /\ reader.at # "found"
  /\ id \in DOMAIN repo
  /\ reader' = [at |-> "found", id |-> id, found |-> repo[id].version,
                known |-> Trail(id)]
  /\ UNCHANGED vars

\* It does not find it, or one of the two reads fails, or the client goes.
HistoryFails ==
  /\ \/ reader.at = "found"
     \/ \E id \in Id : id \notin DOMAIN repo
  /\ reader' = NoHistory
  /\ UNCHANGED vars

Answer(seq) == [at |-> "answered", id |-> reader.id, found |-> reader.found,
                known |-> reader.known, events |-> seq]

\* A second call that is answered from what was read with the first.
ListStale ==
  /\ reader.at = "found"
  /\ \E seq \in Timelines(reader.known) :
       reader' = Answer(seq)
  /\ UNCHANGED vars

\* ListByArtifact, and NewTimeline of what it gives.
ListByArtifact ==
  /\ reader.at = "found"
  /\ \E seq \in Timelines(Trail(reader.id)) :
       reader' = Answer(seq)
  /\ UNCHANGED vars

\* A crash of the process ends this handler too.
Dies == \E r \in Req : Active(r) /\ pc'[r] = "lost"

HNext ==
  \/ Next /\ reader' = IF Dies THEN NoHistory ELSE reader
  \/ \E id \in Id : GetArtifact(id)
  \/ ListByArtifact
  \/ HistoryFails

HSpec == HInit /\ [][HNext]_hvars

-----------------------------------------------------------------------------
(***************************************************************************)
(* A history leaves out nothing that the trail held when it was asked for, *)
(* every acknowledged change among it, whatever fails and whatever other   *)
(* handlers do between its two reads; unless the batch that made the       *)
(* artifact has failed and takes it back.                                  *)
(***************************************************************************)
Erased(id) == job[id[1]].op = "batch" /\ TakenBack(id)

HistoryComplete ==
  reader.at = "answered" /\ ~ Erased(reader.id)
  => \A e \in reader.known : \E i \in DOMAIN reader.events : reader.events[i] = e

(***************************************************************************)
(* While no call fails, a history is not older than the artifact it was    *)
(* asked for: it has an event for each version up to the one that Get saw, *)
(* or a handler that makes that version is on its way to file its event.   *)
(***************************************************************************)
HistoryReaches ==
  [][reader.at = "found" /\ reader'.at = "answered" =>
       \A v \in 1 .. reader.found :
         \/ \E i \in DOMAIN reader'.events : reader'.events[i].version = v
         \/ \E r \in Req : \E k \in 1 .. Len(after[r]) :
              /\ pc[r] \in {"save", "append"}
              /\ Item(r, k) = reader.id /\ after[r][k].version = v]_hvars
=============================================================================

------------------------------ MODULE JSONStore ------------------------------
(***************************************************************************)
(* storage.JSONStore and storage.JSONAuditStore, which share their shape:  *)
(* a copy of a JSON file in memory, loaded by the first call under loadMu, *)
(* read and written under an RWMutex, the gate.  A writing call makes the  *)
(* next contents aside, writes all of them to a temporary file, renames it *)
(* over the old file, and only then installs them in memory.               *)
(*                                                                         *)
(* A goroutine's step goes from one operation that another goroutine, the  *)
(* file system or a crash can tell to the next one.                        *)
(***************************************************************************)
EXTENDS StoreCalls

CONSTANTS
  Torn,   \* what a file reads as when only a part of it was written
  Faults  \* what may go wrong, a subset of Fault

(***************************************************************************)
(* io       an operation of the file system fails                          *)
(* dirsync  the directory cannot be synced, which the code overlooks       *)
(* cancel   a call's context is cancelled                                  *)
(* crash    the process dies and is started again over the same file       *)
(* power    the machine does, and a rename it had not synced may be undone *)
(***************************************************************************)
Fault == {"io", "dirsync", "cancel", "crash", "power"}

ASSUME TornAssumption == Torn \notin Contents
ASSUME FaultsAssumption == Faults \subseteq Fault

VARIABLES
  values,   \* the contents in memory
  loaded,   \* whether they were read from the file
  loader,   \* the goroutine that holds loadMu, if any
  readers,  \* the goroutines that hold the gate for reading
  writer,   \* the one that holds it for writing or waits for the readers
  file,     \* what the file reads as
  disk,     \* what it may read as after a power failure
  temp,     \* the temporary file: "none", "cached" or "synced"
  pc,       \* where each goroutine is
  pending,  \* the call it is in
  next,     \* the contents it has read or is to write
  answer,   \* what it will answer
  gone      \* whether the call's context is cancelled

memory == <<values, loaded>>
locks == <<loader, readers, writer>>
filesystem == <<file, disk, temp>>
calls == <<pending, answer, gone>>
vars == <<memory, locks, filesystem, pc, next, calls>>

Init ==
  /\ values = Empty /\ loaded = FALSE
  /\ loader = {} /\ readers = {} /\ writer = {}
  /\ file = Empty /\ disk = {Empty} /\ temp = "none"
  /\ pc = [p \in Proc |-> "idle"]
  /\ pending = [p \in Proc |-> NoCall]
  /\ next = [p \in Proc |-> Empty]
  /\ answer = [p \in Proc |-> Open]
  /\ gone = [p \in Proc |-> FALSE]

Goto(p, label) == pc' = [pc EXCEPT ![p] = label]

\* The call is over but for its return.
Finish(p, a) == Goto(p, "done") /\ answer' = [answer EXCEPT ![p] = a]

-----------------------------------------------------------------------------
(***************************************************************************)
(* Callers, and the machine.                                               *)
(***************************************************************************)
Call(p) ==
  /\ pc[p] = "idle"
  /\ \E call \in Calls : pending' = [pending EXCEPT ![p] = call]
  /\ Goto(p, "begin")
  /\ UNCHANGED <<memory, locks, filesystem, next, answer, gone>>

Cancel(p) ==
  /\ "cancel" \in Faults
  /\ pc[p] # "idle" /\ ~gone[p]
  /\ gone' = [gone EXCEPT ![p] = TRUE]
  /\ UNCHANGED <<memory, locks, filesystem, pc, next, pending, answer>>

Return(p) ==
  /\ pc[p] = "done"
  /\ Goto(p, "idle")
  /\ pending' = [pending EXCEPT ![p] = NoCall]
  /\ next' = [next EXCEPT ![p] = Empty]
  /\ answer' = [answer EXCEPT ![p] = Open]
  /\ gone' = [gone EXCEPT ![p] = FALSE]
  /\ UNCHANGED <<memory, locks, filesystem>>

\* The store is made anew, by NewJSONStore or NewJSONAuditStore.
Restart ==
  /\ values' = Empty /\ loaded' = FALSE
  /\ loader' = {} /\ readers' = {} /\ writer' = {}
  /\ temp' = "none"
  /\ pc' = [p \in Proc |-> "idle"]
  /\ pending' = [p \in Proc |-> NoCall]
  /\ next' = [p \in Proc |-> Empty]
  /\ answer' = [p \in Proc |-> Open]
  /\ gone' = [p \in Proc |-> FALSE]

Crash == "crash" \in Faults /\ Restart /\ UNCHANGED <<file, disk>>

PowerFails ==
  /\ "power" \in Faults
  /\ Restart
  /\ file' \in disk /\ disk' = {file'}

-----------------------------------------------------------------------------
(***************************************************************************)
(* The first steps of every call: the context, Validate, ensureLoaded.     *)
(***************************************************************************)
\* A call that does not validate what it is given.
BeginUnchecked(p) ==
  /\ pc[p] = "begin"
  /\ ~gone[p]
  /\ Goto(p, "load")
  /\ UNCHANGED <<memory, locks, filesystem, next, calls>>

Begin(p) ==
  /\ pc[p] = "begin"
  /\ ~gone[p] /\ Valid(pending[p])
  /\ Goto(p, "load")
  /\ UNCHANGED <<memory, locks, filesystem, next, calls>>

BeginFails(p) ==
  /\ pc[p] = "begin"
  /\ gone[p] \/ ~Valid(pending[p])
  /\ Finish(p, Says("error"))
  /\ UNCHANGED <<memory, locks, filesystem, next, pending, gone>>

AlreadyLoaded(p) ==
  /\ pc[p] = "load"
  /\ loader = {} /\ loaded
  /\ Goto(p, "lock")
  /\ UNCHANGED <<memory, locks, filesystem, next, calls>>

\* ensureLoaded without loadMu.
LoadUnguarded(p) ==
  /\ pc[p] = "load"
  /\ ~loaded
  /\ file # Torn
  /\ loader' = {p}
  /\ next' = [next EXCEPT ![p] = file]
  /\ Goto(p, "loading")
  /\ UNCHANGED <<memory, readers, writer, filesystem, calls>>

\* It locks loadMu and reads the file.
Load(p) ==
  /\ pc[p] = "load"
  /\ loader = {} /\ ~loaded
  /\ file # Torn
  /\ loader' = {p}
  /\ next' = [next EXCEPT ![p] = file]
  /\ Goto(p, "loading")
  /\ UNCHANGED <<memory, readers, writer, filesystem, calls>>

\* It fails to; the next call tries again.
LoadFails(p) ==
  /\ pc[p] = "load"
  /\ loader = {} /\ ~loaded
  /\ file = Torn \/ "io" \in Faults
  /\ Finish(p, Says("error"))
  /\ UNCHANGED <<memory, locks, filesystem, next, pending, gone>>

\* A load that forgets to unlock.
LoadedStillLocked(p) ==
  /\ pc[p] = "loading"
  /\ values' = next[p] /\ loaded' = TRUE
  /\ Goto(p, "lock")
  /\ UNCHANGED <<locks, filesystem, next, calls>>

Loaded(p) ==
  /\ pc[p] = "loading"
  /\ values' = next[p] /\ loaded' = TRUE
  /\ loader' = {}
  /\ Goto(p, "lock")
  /\ UNCHANGED <<readers, writer, filesystem, next, calls>>

-----------------------------------------------------------------------------
(***************************************************************************)
(* The reading calls.  A goroutine that wants to write keeps new readers   *)
(* out while it waits for the old ones.                                    *)
(***************************************************************************)
\* A reader that does not wait for the writer.
RLockAnyTime(p) ==
  /\ pc[p] = "lock" /\ pending[p] \in Reads
  /\ readers' = readers \union {p}
  /\ Goto(p, "read")
  /\ UNCHANGED <<memory, loader, writer, filesystem, next, calls>>

RLock(p) ==
  /\ pc[p] = "lock" /\ pending[p] \in Reads
  /\ writer = {}
  /\ readers' = readers \union {p}
  /\ Goto(p, "read")
  /\ UNCHANGED <<memory, loader, writer, filesystem, next, calls>>

Look(p) ==
  /\ pc[p] = "read"
  /\ \E a \in Answers(values, pending[p], gone[p]) : Finish(p, a)
  /\ readers' = readers \ {p}
  /\ UNCHANGED <<memory, loader, writer, filesystem, next, pending, gone>>

-----------------------------------------------------------------------------
(***************************************************************************)
(* The writing calls.                                                      *)
(***************************************************************************)
Lock(p) ==
  /\ pc[p] = "lock" /\ pending[p] \in Writes
  /\ writer = {}
  /\ writer' = {p}
  /\ Goto(p, "drain")
  /\ UNCHANGED <<memory, loader, readers, filesystem, next, calls>>

Drained(p) ==
  /\ pc[p] = "drain"
  /\ readers = {}
  /\ Goto(p, "write")
  /\ UNCHANGED <<memory, locks, filesystem, next, calls>>

Unlock == writer' = {}

\* Delete finds no artifact, Append finds the event.
Reject(p) ==
  /\ pc[p] = "write"
  /\ ~Accepts(values, pending[p])
  /\ Finish(p, Says("error")) /\ Unlock
  /\ UNCHANGED <<memory, loader, readers, filesystem, next, pending, gone>>

\* DeleteByArtifact finds no event, and does not touch the file.
NothingToDelete(p) ==
  /\ pc[p] = "write"
  /\ pending[p].op = "DeleteByArtifact" /\ Result(values, pending[p]) = values
  /\ Finish(p, Says("ok")) /\ Unlock
  /\ UNCHANGED <<memory, loader, readers, filesystem, next, pending, gone>>

Changes(p) ==
  /\ Accepts(values, pending[p])
  /\ pending[p].op = "DeleteByArtifact" => Result(values, pending[p]) # values

\* Contents installed before they are written.
InstallEarly(p) ==
  /\ pc[p] = "write"
  /\ Changes(p)
  /\ next' = [next EXCEPT ![p] = Result(values, pending[p])]
  /\ values' = Result(values, pending[p])
  /\ temp' = "cached"
  /\ Goto(p, "sync")
  /\ UNCHANGED <<loaded, locks, file, disk, calls>>

\* A temporary file that is renamed without being synced.
WriteUnsynced(p) ==
  /\ pc[p] = "write"
  /\ Changes(p)
  /\ next' = [next EXCEPT ![p] = Result(values, pending[p])]
  /\ temp' = "cached"
  /\ Goto(p, "rename")
  /\ UNCHANGED <<memory, locks, file, disk, calls>>

\* writeFileAtomic, down to output.Write.
WriteTemp(p) ==
  /\ pc[p] = "write"
  /\ Changes(p)
  /\ next' = [next EXCEPT ![p] = Result(values, pending[p])]
  /\ temp' = "cached"
  /\ Goto(p, "sync")
  /\ UNCHANGED <<memory, locks, file, disk, calls>>

SyncTemp(p) ==
  /\ pc[p] = "sync"
  /\ temp' = "synced"
  /\ Goto(p, "rename")
  /\ UNCHANGED <<memory, locks, file, disk, next, calls>>

\* Any operation of it down to Rename may fail; the temporary file, if it
\* is there, is removed.
WriteFails(p) ==
  /\ pc[p] \in {"write", "sync", "rename"}
  /\ "io" \in Faults
  /\ pc[p] = "write" => Changes(p)
  /\ temp' = "none"
  /\ Finish(p, Says("error")) /\ Unlock
  /\ UNCHANGED <<memory, loader, readers, file, disk, next, pending, gone>>

\* Until the directory is synced, a power failure may undo the rename.
Rename(p) ==
  /\ pc[p] = "rename"
  /\ file' = next[p]
  /\ disk' = disk \union {next[p]} \union (IF temp = "cached" THEN {Torn} ELSE {})
  /\ temp' = "none"
  /\ Goto(p, "flush")
  /\ UNCHANGED <<memory, locks, next, calls>>

\* A directory that is never synced.
SyncNoDirectory(p) ==
  /\ pc[p] = "flush"
  /\ Goto(p, "install")
  /\ answer' = [answer EXCEPT ![p] = Says("ok")]
  /\ UNCHANGED <<memory, locks, filesystem, next, pending, gone>>

\* From here on the call cannot fail.
SyncDirectory(p) ==
  /\ pc[p] = "flush"
  /\ \/ disk' = {file}
     \/ "dirsync" \in Faults /\ UNCHANGED disk
  /\ Goto(p, "install")
  /\ answer' = [answer EXCEPT ![p] = Says("ok")]
  /\ UNCHANGED <<memory, locks, file, temp, next, pending, gone>>

Install(p) ==
  /\ pc[p] = "install"
  /\ values' = next[p]
  /\ Unlock
  /\ Goto(p, "done")
  /\ UNCHANGED <<loaded, loader, readers, filesystem, next, calls>>

-----------------------------------------------------------------------------
Acquire(p) == AlreadyLoaded(p) \/ Load(p) \/ LoadFails(p) \/ RLock(p) \/ Lock(p)

Work(p) ==
  \/ Begin(p) \/ BeginFails(p) \/ Loaded(p) \/ Look(p) \/ Drained(p)
  \/ Reject(p) \/ NothingToDelete(p) \/ WriteTemp(p) \/ SyncTemp(p)
  \/ WriteFails(p) \/ Rename(p) \/ SyncDirectory(p) \/ Install(p) \/ Return(p)

Next ==
  \/ \E p \in Proc : Call(p) \/ Cancel(p) \/ Acquire(p) \/ Work(p)
  \/ Crash \/ PowerFails

Spec == Init /\ [][Next]_vars

(***************************************************************************)
(* Go schedules every goroutine, the file system answers, and a mutex that *)
(* is free again and again is not kept from one that waits: sync.Mutex     *)
(* goes first come, first served after a millisecond, and an RWMutex lets  *)
(* in the readers that wait when a writer leaves.                          *)
(***************************************************************************)
FairSpec == Spec /\ \A p \in Proc : WF_vars(Work(p)) /\ SF_vars(Acquire(p))

-----------------------------------------------------------------------------
InGate == {"write", "sync", "rename", "flush", "install"}

TypeOK ==
  /\ values \in Contents /\ loaded \in BOOLEAN
  /\ loader \in SUBSET Proc /\ readers \in SUBSET Proc /\ writer \in SUBSET Proc
  /\ file \in Contents \union {Torn}
  /\ disk \in SUBSET (Contents \union {Torn})
  /\ temp \in {"none", "cached", "synced"}
  /\ pc \in [Proc -> {"idle", "begin", "load", "loading", "lock", "read",
                      "drain", "done"} \union InGate]
  /\ pending \in [Proc -> Calls \union {NoCall}]
  /\ next \in [Proc -> Contents]
  /\ answer \in [Proc -> Answer]
  /\ gone \in [Proc -> BOOLEAN]

(***************************************************************************)
(* Once loaded, the memory holds what the file holds, except while a       *)
(* goroutine is between the rename and the installation; so a store made   *)
(* anew over the same file would answer the same.                          *)
(***************************************************************************)
CacheCoherent ==
  loaded /\ (\A p \in Proc : pc[p] \notin {"flush", "install"}) => values = file

(***************************************************************************)
(* Whatever fails and whenever the machine dies, the file that is found    *)
(* afterwards is a whole one, and every record in it passes Validate, so   *)
(* that ensureLoaded takes it.                                             *)
(***************************************************************************)
AlwaysLoadable == disk \union {file} \subseteq Contents

(***************************************************************************)
(* Where directories can be synced, what was answered survives a power     *)
(* failure: only the call that has just renamed is open to doubt.  (After  *)
(* a process that died at that point, the next one may answer what is not  *)
(* durable.)                                                               *)
(***************************************************************************)
AnsweredDurable ==
  /\ {"dirsync", "crash"} \intersect Faults = {}
  /\ \A p \in Proc : pc[p] # "flush"
  => disk = {file}

(***************************************************************************)
(* Every call returns, unless the process dies: no error path keeps a lock.*)
(***************************************************************************)
EveryCallReturns == \A p \in Proc : pc[p] # "idle" ~> pc[p] = "idle"

(***************************************************************************)
(* Nobody waits for ever for loadMu or the gate: while a call is under     *)
(* way, some goroutine can take a step of its call, so that no error path  *)
(* keeps a lock and no two goroutines wait for each other.  Ready is what  *)
(* the guards of Acquire and Work come to.                                 *)
(***************************************************************************)
Ready(p) ==
  /\ pc[p] # "idle"
  /\ pc[p] = "load" => loader = {}
  /\ pc[p] = "lock" => writer = {}
  /\ pc[p] = "drain" => readers = {}

NeverStuck == (\E p \in Proc : pc[p] # "idle") => \E p \in Proc : Ready(p)

-----------------------------------------------------------------------------
(***************************************************************************)
(* The store's contents as its callers should see them: those of the file, *)
(* and of a file that has just been renamed, only once the directory is    *)
(* synced or the attempt to is over.                                       *)
(***************************************************************************)
Visible == IF \E p \in Proc : pc[p] = "flush" THEN values ELSE file

Promised == INSTANCE Store WITH contents <- Visible

(***************************************************************************)
(* The stores are what the catalog takes them for: each call is atomic.    *)
(***************************************************************************)
ImplementsStore == Promised!Spec
=============================================================================

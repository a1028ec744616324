---------------------------- MODULE SyncTransfers ----------------------------
(***************************************************************************)
(* The transfer table of one blob on one daemon: run_sync plans a transfer  *)
(* when the blob has too few replicas, executes the pending ones over the   *)
(* network and records the answers, while other calls plan and execute too, *)
(* retry or cancel transfers, pin the original (which queues a pull) and    *)
(* evict it.  Source: native_core/src/service.rs and sync_transport.rs.     *)
(*                                                                          *)
(* Every handler holds the state lock while it changes the table and gives  *)
(* it up during the network exchange; the answer is written to whatever the *)
(* row has become meanwhile.  The runtime's `active` mutex lets one         *)
(* exchange happen at a time, and the state lock is granted in the order it *)
(* is asked for, so answers are recorded in the order they arrived.         *)
(*                                                                          *)
(* The bytes are abstract: a device holds the blob or does not (what        *)
(* sealing again does to them is the subject of OriginalStore).  The target *)
(* of a planned transfer is any peer choose_replica_target may return.      *)
(***************************************************************************)
EXTENDS Integers, Sequences, FiniteSets

CONSTANTS
    Here,           \* this device
    Peers,          \* the other devices of the vault
    Runs,           \* the callers of run_sync
    MinReplicas,    \* storage_policy.min_replicas
    MaxTransfers    \* bound: rows of the transfer table

ASSUME SyncAssumption ==
    /\ Here \notin Peers /\ IsFiniteSet(Peers)
    /\ MinReplicas \in Nat \ {0}
    /\ MaxTransfers \in Nat \ {0}

VARIABLES
    mem,        \* transfer rows and replica rows in the LibraryState
    db,         \* the same in the last committed save
    held,       \* the devices that store the blob's chunks
    runs,       \* where each run_sync call is, and the jobs it has left
    answers,    \* exchanges that ended and wait for the state lock, in order
    disturbed   \* may saves fail and the daemon end, in this execution

vars == <<mem, db, held, runs, answers>>

-----------------------------------------------------------------------------
Statuses == {"Pending", "Running", "Completed", "Failed", "Aborted"}
Ids == 1 .. MaxTransfers
Transfer == [from : Peers \cup {Here}, to : Peers \cup {Here}, status : Statuses]

\* replica[p]: the transfer that made p's replica Healthy, 0 for none.  The
\* row of this device is recomputed from the files by each refresh.
Tables == [rows : {s \in Seq(Transfer) : Len(s) <= MaxTransfers},
           replica : [Peers -> 0 .. MaxTransfers]]

Idle == [at |-> "idle", jobs |-> {}]

Healthy(l) == {p \in Peers : l.replica[p] # 0}

\* verified_remote_replica_count.
Verified(l) == {p \in Healthy(l) : l.rows[l.replica[p]].status = "Completed"}

SetStatus(l, is, status) ==
    [l EXCEPT !.rows = [i \in DOMAIN l.rows |->
        IF i \in is THEN [l.rows[i] EXCEPT !.status = status] ELSE l.rows[i]]]

\* persist_locked_state writes all of memory, or fails and changes nothing.
SaveOutcomes == IF disturbed THEN BOOLEAN ELSE {TRUE}
SaveIf(ok) == db' = IF ok THEN mem' ELSE db

Init ==
    /\ mem = [rows |-> <<>>, replica |-> [p \in Peers |-> 0]]
    /\ db = mem
    /\ held = {Here}
    /\ runs = [r \in Runs |-> Idle]
    /\ answers = <<>>
    /\ disturbed \in BOOLEAN

-----------------------------------------------------------------------------
(* run_sync, first locked section: plan. *)

\* build_sync_plan counts the local replica; its source is the local one when
\* there is one.
Local == held \cap {Here}
Wanted(l) == Cardinality(Local \cup Healthy(l)) < MinReplicas
Sources(l) == IF Local # {} THEN Local ELSE Healthy(l)

\* A pending or running transfer to the target suppresses another one.
Candidates(l) ==
    {p \in Peers \ Healthy(l) :
        \A i \in DOMAIN l.rows :
            l.rows[i].to = p => l.rows[i].status \notin {"Pending", "Running"}}

Queued(l, from, to) ==
    [l EXCEPT !.rows = Append(@, [from |-> from, to |-> to, status |-> "Pending"])]

\* choose_replica_target may find no target.
Plan(r) ==
    /\ runs[r] = Idle
    /\ \/ UNCHANGED mem
       \/ /\ Wanted(mem) /\ Len(mem.rows) < MaxTransfers
          /\ \E s \in Sources(mem), p \in Candidates(mem) : mem' = Queued(mem, s, p)
    /\ \E ok \in SaveOutcomes :
          /\ SaveIf(ok)
          /\ runs' = [runs EXCEPT ![r].at = IF ok THEN "planned" ELSE "idle"]
    /\ UNCHANGED <<held, answers>>

-----------------------------------------------------------------------------
(* execute_pending_sync_transfers. *)

Eligible(l) ==
    {i \in DOMAIN l.rows : /\ l.rows[i].status = "Pending"
                           /\ Here \in {l.rows[i].from, l.rows[i].to}}

IsPush(l, i) == l.rows[i].from = Here

\* Fault: a transfer is marked running before it is checked, and stays so.
MarkedBeforeChecks(l, ready) == SetStatus(l, Eligible(l), "Running")

\* The transfers that pass every check start, the others fail.
Marked(l, ready) ==
    SetStatus(SetStatus(l, Eligible(l) \ ready, "Failed"), ready, "Running")

ContinuesAfter(ok) == ok

\* A push needs the local chunk files; the peer's device row and endpoint may
\* fail their checks at any time.
Execute(r) ==
    /\ runs[r].at = "planned"
    /\ \E ready \in SUBSET Eligible(mem), ok \in SaveOutcomes :
          /\ \A i \in ready : IsPush(mem, i) => Here \in held
          /\ mem' = Marked(mem, ready)
          /\ SaveIf(ok)
          /\ runs' = [runs EXCEPT ![r] =
                IF ~ContinuesAfter(ok) THEN Idle
                ELSE [at |-> IF ready = {} THEN "finishing" ELSE "starting", jobs |-> ready]]
    /\ UNCHANGED <<held, answers>>

\* sync_runtime.start returns, or fails and so fails every job.
StartReturns(r) ==
    /\ runs[r].at = "starting"
    /\ runs' = [runs EXCEPT ![r].at = "sending"]
    /\ UNCHANGED <<mem, db, held, answers>>

StartFails(r) ==
    /\ runs[r].at = "starting"
    /\ \E ok \in SaveOutcomes :
          /\ mem' = SetStatus(mem, runs[r].jobs, "Failed")
          /\ SaveIf(ok)
          /\ runs' = [runs EXCEPT ![r] =
                IF ok THEN [at |-> "finishing", jobs |-> {}] ELSE Idle]
    /\ UNCHANGED <<held, answers>>

\* The jobs are executed in the order of the table.
Current(r, i) == i \in runs[r].jobs /\ \A j \in runs[r].jobs : i <= j

Answered(r, ok) ==
    /\ answers' = Append(answers, [run |-> r, ok |-> ok])
    /\ runs' = [runs EXCEPT ![r].at = "answered"]

\* send_blob or request_blob fails: not started, no connection, a refusal.
ExchangeFails(r) ==
    /\ runs[r].at = "sending"
    /\ Answered(r, FALSE)
    /\ UNCHANGED <<mem, db, held>>

\* send_blob: the peer stores the chunks; its answer may still be lost.
PushStored(r) ==
    /\ runs[r].at = "sending"
    /\ Here \in held
    /\ \E i \in Ids : /\ Current(r, i) /\ IsPush(mem, i)
                      /\ held' = held \cup {mem.rows[i].to}
    /\ \E ok \in BOOLEAN : Answered(r, ok)
    /\ UNCHANGED <<mem, db>>

\* request_blob: commit_received_blob completes the row itself and saves; when
\* that fails the previous rows come back and the exchange fails.
PullStored(r) ==
    /\ runs[r].at = "sending"
    /\ \E i \in Ids : /\ Current(r, i) /\ ~IsPush(mem, i)
                      /\ mem.rows[i].from \in held
                      /\ mem' = SetStatus(mem, {i}, "Completed")
    /\ held' = held \cup {Here}
    /\ db' = mem'
    /\ Answered(r, TRUE)

\* Fault: the answer is not looked at.
RecordedUnseen(l, i, ok) ==
    [SetStatus(l, {i}, "Completed") EXCEPT
        !.replica = [p \in Peers |-> IF p = l.rows[i].to THEN i ELSE @[p]]]

\* The row is overwritten whatever its status is by now.
Recorded(l, i, ok) ==
    IF ok
    THEN [SetStatus(l, {i}, "Completed") EXCEPT
            !.replica = [p \in Peers |-> IF p = l.rows[i].to THEN i ELSE @[p]]]
    ELSE SetStatus(l, {i}, "Failed")

\* A failed save returns the error and drops the jobs that are left.
Record ==
    /\ answers # <<>>
    /\ LET r == Head(answers).run
       IN  \E i \in Ids, ok \in SaveOutcomes :
              /\ Current(r, i)
              /\ mem' = Recorded(mem, i, Head(answers).ok)
              /\ SaveIf(ok)
              /\ runs' = [runs EXCEPT ![r] =
                    IF ~ok THEN Idle
                    ELSE [at |-> IF runs[r].jobs = {i} THEN "finishing" ELSE "sending",
                          jobs |-> runs[r].jobs \ {i}]]
    /\ answers' = Tail(answers)
    /\ UNCHANGED held

\* run_sync, last locked section: the audit event and a save.
Finish(r) ==
    /\ runs[r].at = "finishing"
    /\ runs' = [runs EXCEPT ![r] = Idle]
    /\ UNCHANGED <<mem, held, answers>>
    /\ \E ok \in SaveOutcomes : SaveIf(ok)

-----------------------------------------------------------------------------
(* The other handlers. *)

Retryable(l, i) == l.rows[i].status \notin {"Completed", "Running"}

\* retry_sync_transfer.
Retry(i) ==
    /\ i \in DOMAIN mem.rows
    /\ Retryable(mem, i)
    /\ mem' = SetStatus(mem, {i}, "Pending")
    /\ \E ok \in SaveOutcomes : SaveIf(ok)
    /\ UNCHANGED <<held, runs, answers>>

\* Fault: a completed transfer can be canceled.
CancelableAlways(l, i) == TRUE

Cancelable(l, i) == l.rows[i].status # "Completed"

\* cancel_sync_transfer.
Cancel(i) ==
    /\ i \in DOMAIN mem.rows
    /\ Cancelable(mem, i)
    /\ mem' = SetStatus(mem, {i}, "Aborted")
    /\ \E ok \in SaveOutcomes : SaveIf(ok)
    /\ UNCHANGED <<held, runs, answers>>

\* pin_local_asset with a reachable replica: each call queues another pull.
Pin ==
    /\ Len(mem.rows) < MaxTransfers
    /\ \E p \in Healthy(mem) : mem' = Queued(mem, p, Here)
    /\ \E ok \in SaveOutcomes : SaveIf(ok)
    /\ UNCHANGED <<held, runs, answers>>

\* Fault: replicas count without their transfer, and so does the local one.
ProtectedByAnyReplica(l) == Cardinality(Healthy(l) \cup (held \cap {Here})) >= MinReplicas

Protected(l) == Cardinality(Verified(l)) >= MinReplicas

\* evict_local_asset removes the local chunks, then saves.
Evict ==
    /\ Here \in held
    /\ Protected(mem)
    /\ held' = held \ {Here}
    /\ UNCHANGED <<mem, runs, answers>>
    /\ \E ok \in SaveOutcomes : SaveIf(ok)

\* GalleryService::new loads the rows as they were saved; no call survives.
Restart ==
    /\ disturbed
    /\ mem' = db
    /\ runs' = [r \in Runs |-> Idle]
    /\ answers' = <<>>
    /\ UNCHANGED <<db, held>>

-----------------------------------------------------------------------------
Step(r) ==
    \/ Execute(r)
    \/ StartReturns(r)
    \/ StartFails(r)
    \/ ExchangeFails(r)
    \/ PushStored(r)
    \/ PullStored(r)
    \/ Finish(r)

Next ==
    /\ UNCHANGED disturbed
    /\ \/ \E r \in Runs : Plan(r) \/ Step(r)
       \/ Record
       \/ \E i \in Ids : Retry(i) \/ Cancel(i)
       \/ Pin
       \/ Evict
       \/ Restart

\* A call that was made goes on (each is a task of the runtime, and a network
\* exchange ends by an answer or an error); nobody has to call anything.
Spec ==
    /\ Init /\ [][Next]_<<vars, disturbed>>
    /\ \A r \in Runs : WF_vars(Step(r))
    /\ WF_vars(Record)

-----------------------------------------------------------------------------
(* Properties. *)

\* The tables hold what the code stores there, a replica row names a transfer
\* to its own device, and calls are where their jobs say they are.
TypeOK ==
    /\ mem \in Tables /\ db \in Tables
    /\ \A l \in {mem, db} : \A p \in Healthy(l) :
          l.replica[p] \in DOMAIN l.rows /\ l.rows[l.replica[p]].to = p
    /\ held \subseteq Peers \cup {Here}
    /\ \A r \in Runs :
          /\ runs[r].at \in {"idle", "planned", "starting", "sending", "answered",
                             "finishing"}
          /\ (runs[r].jobs # {}) = (runs[r].at \in {"starting", "sending", "answered"})
          /\ runs[r].jobs \subseteq DOMAIN mem.rows
    /\ \A k \in DOMAIN answers : runs[answers[k].run].at = "answered"

\* A replica that evict counts, in memory or after a restart, is stored on its
\* peer, however calls overlap, answers get lost and saves fail.
VerifiedMeansStored == \A l \in {mem, db} : Verified(l) \subseteq held

\* When this device has given its chunks up, the policy's number of others
\* store them.
EvictedIsElsewhere == Here \notin held => Cardinality(held) >= MinReplicas

\* Bytes move only for a transfer that a restarted daemon knows about: the row
\* is saved before its exchange starts.
InFlightIsRecorded ==
    \A r \in Runs : runs[r].jobs \subseteq DOMAIN db.rows

\* A completed transfer stays completed: retry and cancel both refuse it, and
\* its status is what evict counts.
CompletedStays ==
    \A i \in DOMAIN mem.rows :
        mem.rows[i].status = "Completed" => mem'.rows[i].status = "Completed"

\* One call of run_sync at a time, on a daemon that is up and saves.
Alone == ~disturbed /\ \A r, s \in Runs : r = s

\* While calls do not overlap, a completed transfer stays completed, whatever
\* the user retries and cancels while an exchange is under way.
CompletedStaysAlone == [][Alone => CompletedStays]_vars

IsRunning(i) == i \in DOMAIN mem.rows /\ mem.rows[i].status = "Running"

\* The transfer rows are never behind the bytes: what counts as a replica is
\* stored, and what moves is known to the database.
RowsTellTheTruth == VerifiedMeansStored /\ InFlightIsRecorded
=============================================================================

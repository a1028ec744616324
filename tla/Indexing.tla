------------------------------ MODULE Indexing ------------------------------
(***************************************************************************)
(* The text (OCR) and scene indexes and the history of jobs.  A rebuild    *)
(* picks its assets under the read lock, reads their files with no lock    *)
(* held, which may take long, and replaces their rows under the write      *)
(* lock.  Imports, other rebuilds, evictions, restarts come in between.    *)
(***************************************************************************)
EXTENDS FiniteSets, Integers, FiniteSetsExt

CONSTANTS
    Photos, Rebuilds, ResultKinds,   \* ResultKinds \subseteq {"ocr", "scene"}
    MaxKept,                   \* MAX_COMPLETED_IMPORT_JOBS
    MaxJobs, MaxIndexFaults

ASSUME IndexAssumption ==
    /\ IsFiniteSet(Photos) /\ IsFiniteSet(Rebuilds) /\ ResultKinds \subseteq {"ocr", "scene"}
    /\ MaxKept \in Nat /\ MaxJobs \in Nat /\ MaxIndexFaults \in Nat

VARIABLES
    index,      \* photos, index rows, jobs and logs in memory
    indexRows,  \* the same in the database
    legible,    \* photos whose plaintext file is there
    rebuild,    \* the rebuilds under way
    indexing,   \* whether the catalog is encrypted, which indexing asks for
    indexFaults

indexVars == <<index, indexRows, legible, rebuild, indexing, indexFaults>>

NoRebuild == [at |-> "idle"]
RowOf(kind, a, job) == [kind |-> kind, photo |-> a, job |-> job]

\* Jobs are numbered as they come.
NextJob == Min({n \in 1 .. MaxJobs + 1 : \A job \in index.jobs : job.id < n})
completed_job(kind) == [id |-> NextJob, kind |-> kind, status |-> "completed", retry |-> FALSE]

IndexInit ==
    /\ index = [photos |-> {}, rows |-> {}, jobs |-> {}, logs |-> {}]
    /\ indexRows = index /\ legible = {} /\ indexing = FALSE
    /\ rebuild = [r \in Rebuilds |-> NoRebuild] /\ indexFaults = 0

(* Every row of a job's log refers to a job, or the database refuses all.  *)
LogsFit(i) == i.logs \subseteq {job.id : job \in i.jobs}

SaveIndex(i) ==
    /\ NextJob <= MaxJobs /\ index' = i
    /\ \/ LogsFit(i) /\ indexRows' = i /\ UNCHANGED indexFaults
       \/ indexFaults < MaxIndexFaults /\ indexFaults' = indexFaults + 1 /\ UNCHANGED indexRows

WithJob(i, job, logged) ==
    [i EXCEPT !.jobs = @ \cup {job}, !.logs = IF logged THEN @ \cup {job.id} ELSE @]

(* An import: a photo and the record of a job, without log lines.          *)
ImportPhoto(a) ==
    /\ a \notin index.photos
    /\ SaveIndex([WithJob(index, completed_job("import"), FALSE) EXCEPT !.photos = @ \cup {a}])
    /\ legible' = legible \cup {a} /\ UNCHANGED <<rebuild, indexing>>

(* What evict, the storage policy or the user does to the plaintext file.  *)
FileVanishes(a) == a \in legible /\ legible' = legible \ {a}
                 /\ UNCHANGED <<index, indexRows, rebuild, indexing, indexFaults>>
FileAppears(a) == a \in index.photos \ legible /\ legible' = legible \cup {a}
               /\ UNCHANGED <<index, indexRows, rebuild, indexing, indexFaults>>

Activated == ~indexing /\ indexing' = TRUE
             /\ UNCHANGED <<index, indexRows, legible, rebuild, indexFaults>>

(* record_failed_job, of a rebuild the status of the catalog blocks, and   *)
(* of the semantic and the people index, which are always blocked.         *)
record_failed_job(kind) ==
    /\ kind \in ResultKinds => ~indexing
    /\ SaveIndex(WithJob(index, [completed_job(kind) EXCEPT !.status = "failed"], TRUE))
    /\ UNCHANGED <<legible, rebuild, indexing>>

indexed(i, kind) == {row.photo : row \in {x \in i.rows : x.kind = kind}}

\* The choice of the assets, under the read lock.
StartRebuild(r, kind, chosen, force) ==
    /\ indexing /\ rebuild[r].at = "idle" /\ NextJob <= MaxJobs
    /\ LET todo == {a \in index.photos \cap chosen : force \/ a \notin indexed(index, kind)}
       IN rebuild' = [rebuild EXCEPT ![r] = [at |-> "reading", kind |-> kind, scanned |-> todo,
                                             todo |-> todo, found |-> {}, unread |-> {}, failed |-> FALSE]]
    /\ UNCHANGED <<index, indexRows, legible, indexing, indexFaults>>

(* One file, with no lock held: skipped when it is not there; a row, which *)
(* for text may say that there is none; no scene tags; or a failure.       *)
ReadPhoto(r, a) ==
    LET run == rebuild[r]
        next(f) == [rebuild EXCEPT ![r] = [f EXCEPT !.todo = @ \ {a}]]
    IN /\ run.at = "reading" /\ a \in run.todo
       /\ \/ a \notin legible /\ rebuild' = next([run EXCEPT !.unread = @ \cup {a}])
          \/ a \in legible /\ rebuild' = next([run EXCEPT !.found = @ \cup {a}])
          \/ a \in legible /\ run.kind = "scene" /\ rebuild' = next(run)
          \/ a \in legible /\ rebuild' = next([run EXCEPT !.unread = @ \cup {a}, !.failed = TRUE])
       /\ UNCHANGED <<index, indexRows, legible, indexing, indexFaults>>

(* Under the write lock the rows of everything scanned, read or not, give  *)
(* way to what was found.                                                  *)
Replaced(rows, kind, scanned) == {row \in rows : ~(row.kind = kind /\ row.photo \in scanned)}

FinishRebuild(r) ==
    LET run == rebuild[r]
        status == IF run.failed /\ run.found = {} THEN "failed" ELSE "completed"
        job == [completed_job(run.kind) EXCEPT !.status = status]
    IN /\ run.at = "reading" /\ run.todo = {}
       /\ SaveIndex([WithJob(index, job, TRUE) EXCEPT
             !.rows = Replaced(@, run.kind, run.scanned) \cup {RowOf(run.kind, a, job.id) : a \in run.found}])
       /\ rebuild' = [rebuild EXCEPT ![r] = NoRebuild] /\ UNCHANGED <<legible, indexing>>

ended(job) == job.status \in {"completed", "failed", "canceled"}

cancel_job(job) ==
    /\ ~ended(job)
    /\ SaveIndex([index EXCEPT !.jobs = (@ \ {job}) \cup {[job EXCEPT !.status = "canceled"]},
                               !.logs = @ \cup {job.id}])
    /\ UNCHANGED <<legible, rebuild, indexing>>

retry_job(job) ==
    /\ ended(job)
    /\ SaveIndex(WithJob(index, [completed_job(job.kind) EXCEPT !.status = "queued", !.retry = TRUE], TRUE))
    /\ UNCHANGED <<legible, rebuild, indexing>>

(* compact_job_history: of the completed imports that retry nothing only   *)
(* the newest are kept; log lines go with their job.                       *)
compactable(job) == job.kind = "import" /\ job.status = "completed" /\ ~job.retry

\* Fault: jobs go by age, whatever they are.
KeptNewest(jobs) == {job \in jobs : Cardinality({other \in jobs : other.id >= job.id}) <= MaxKept}
Kept(jobs) ==
    {job \in jobs : compactable(job) =>
        Cardinality({other \in jobs : compactable(other) /\ other.id >= job.id}) <= MaxKept}

compact_job_history(i) ==
    LET kept == Kept(i.jobs)
    IN [i EXCEPT !.jobs = kept, !.logs = @ \cap {job.id : job \in kept}]

(* The daemon starts again: it compacts what it loads and saves that.      *)
RestartIndex ==
    /\ indexFaults < MaxIndexFaults /\ indexFaults' = indexFaults + 1
    /\ index' = compact_job_history(indexRows)
    /\ indexRows' = IF LogsFit(index') THEN index' ELSE indexRows
    /\ rebuild' = [r \in Rebuilds |-> NoRebuild] /\ UNCHANGED <<legible, indexing>>

IndexNext ==
    \/ \E a \in Photos : ImportPhoto(a) \/ FileVanishes(a) \/ FileAppears(a)
    \/ Activated
    \/ \E kind \in ResultKinds \cup {"semantic", "people"} : record_failed_job(kind)
    \/ \E r \in Rebuilds, kind \in ResultKinds, chosen \in SUBSET Photos, force \in BOOLEAN :
          StartRebuild(r, kind, chosen, force)
    \/ \E r \in Rebuilds, a \in Photos : ReadPhoto(r, a)
    \/ \E r \in Rebuilds : FinishRebuild(r)
    \/ \E job \in index.jobs : cancel_job(job) \/ retry_job(job)
    \/ RestartIndex

IndexSpec == IndexInit /\ [][IndexNext]_indexVars
-----------------------------------------------------------------------------
(* However rebuilds of the same photos overlap, a photo has the rows of    *)
(* one run of each kind, and a row is only of a photo the library has (the *)
(* choice is made long before the rows are replaced; rebuild_ocr,          *)
(* rebuild_scenes).                                                        *)
OneResultPerPhoto ==
    \A row, other \in index.rows :
        /\ row.photo \in index.photos
        /\ row.kind = other.kind /\ row.photo = other.photo => row = other

(* The history of jobs loses nothing but the oldest completed imports at a *)
(* start, or what was never saved, and its log can always be saved again:  *)
(* every line has its job (compact_job_history; job_logs.job_id).          *)
HistoryIsWhole ==
    [][/\ LogsFit(index')
       /\ \A job \in index.jobs :
             (\A other \in index'.jobs : other.id # job.id) =>
                /\ rebuild' = [r \in Rebuilds |-> NoRebuild]
                /\ \/ job.id \notin {row.id : row \in indexRows.jobs}
                   \/ /\ job.kind = "import" /\ job.status = "completed"
                      /\ Cardinality({other \in index'.jobs :
                            other.id > job.id /\ other.kind = "import"
                            /\ other.status = "completed"}) >= MaxKept]_index

(* What a photo shows comes of one run of each kind, and the record of the *)
(* runs has no gaps: the two must hold of the same saves (save_index).      *)
IndexIsConsistent == []OneResultPerPhoto /\ HistoryIsWhole
=============================================================================

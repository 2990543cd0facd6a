--------------------------------- MODULE Media ---------------------------------
(***************************************************************************)
(* The photo of one resume: its upload, replacement and deletion (package  *)
(* resumeapi) and the clean-up of stored objects (package mediacleanup).   *)
(*                                                                         *)
(* An upload stores its candidate under a new key first and then commits a *)
(* document that names it, so there is always a time when an object is     *)
(* stored and nothing refers to it.  Three parties delete objects: the     *)
(* upload that did not need its candidate, the workers of the deletion     *)
(* jobs that a replacement or a deletion enqueues, and the sweep, which    *)
(* finds old objects that neither a document nor a job names.  Object      *)
(* store and database share no transaction.                                *)
(*                                                                         *)
(* Keys name their resume and are drawn anew for every candidate, so a key *)
(* stands for one upload, and other resumes never touch it.                *)
(***************************************************************************)
EXTENDS Naturals, FiniteSets

CONSTANTS
    Keys,               \* object keys of the resume, one an upload
    Workers,            \* goroutines of deletion runs and sweeps
    CandidateLifetime,  \* photoPutTimeout + photoCandidateLifetime, about 5 minutes
    OrphanAge,          \* orphanMinimumAge, 48 hours
    MaxFaults,          \* bound: failures of the clean-up
    NoKey,              \* no photo, no task
    Nobody              \* no lease

ASSUME AgesAssumption ==
    /\ CandidateLifetime \in Nat /\ OrphanAge \in Nat /\ MaxFaults \in Nat
    /\ CandidateLifetime <= OrphanAge
ASSUME NoneAssumption == NoKey \notin Keys /\ Nobody \notin Workers

VARIABLES
    photo,      \* the key the document names
    alive,      \* the resume's row exists
    upload,     \* how far each upload is
    object,     \* the object store
    age,        \* how old each object is, up to OrphanAge
    recorded,   \* uploads whose commit, with its idempotency record, is durable
    job,        \* media_deletion_jobs
    task,       \* what each worker is at
    faults,     \* how many failures there were
    recovered   \* history: uploads whose commit was proved by recovery

document == <<photo, alive, recorded>>
store == <<object, age>>
cleaners == <<task, faults>>
vars == <<document, upload, store, job, cleaners, recovered>>

NoJob == [state |-> "none", lease |-> Nobody, lapsed |-> FALSE]
Pending == [state |-> "pending", lease |-> Nobody, lapsed |-> FALSE]
LeasedTo(w) == [state |-> "pending", lease |-> w, lapsed |-> FALSE]
Completed == [state |-> "completed", lease |-> Nobody, lapsed |-> FALSE]
Idle == [key |-> NoKey, step |-> "idle", sweep |-> FALSE]

Init ==
    /\ photo = NoKey
    /\ alive = TRUE
    /\ upload = [k \in Keys |-> "new"]
    /\ object = [k \in Keys |-> "never"]
    /\ age = [k \in Keys |-> 0]
    /\ recorded = {}
    /\ job = [k \in Keys |-> NoJob]
    /\ task = [w \in Workers |-> Idle]
    /\ faults = 0
    /\ recovered = {}

Fault ==
    /\ faults < MaxFaults
    /\ faults' = faults + 1

Tick ==
    /\ \E k \in Keys : object[k] = "stored" /\ age[k] < OrphanAge
    /\ age' = [k \in Keys |-> IF object[k] = "stored" /\ age[k] < OrphanAge
                                 THEN age[k] + 1 ELSE age[k]]
    /\ UNCHANGED <<document, upload, object, job, cleaners, recovered>>

-----------------------------------------------------------------------------
(* The upload.                                                             *)

PutCreated(k) ==
    /\ upload[k] = "new"
    /\ upload' = [upload EXCEPT ![k] = "prepared"]
    /\ object' = [object EXCEPT ![k] = "stored"]
    /\ UNCHANGED <<document, age, job, cleaners, recovered>>

\* The put failed, and the object may be stored now, later or never.
PutUnknown(k) ==
    /\ upload[k] = "new"
    /\ upload' = [upload EXCEPT ![k] = "over"]
    /\ \E o \in {"stored", "underway"} : object' = [object EXCEPT ![k] = o]
    /\ UNCHANGED <<document, age, job, cleaners, recovered>>

LatePut(k) ==
    /\ object[k] = "underway"
    /\ object' = [object EXCEPT ![k] = "stored"]
    /\ UNCHANGED <<document, upload, age, job, cleaners, recovered>>

\* ON CONFLICT DO NOTHING.
Enqueued(k) ==
    IF k \in Keys /\ job[k].state = "none" THEN [job EXCEPT ![k] = Pending] ELSE job

\* The transaction: the document names the candidate, the old photo is queued.
Written(k) ==
    /\ photo' = k
    /\ recorded' = recorded \cup {k}
    /\ job' = Enqueued(photo)

AnyTime(k) == TRUE
InTime(k) == age[k] < CandidateLifetime

Commit(k) ==
    /\ upload[k] = "prepared" /\ InTime(k) /\ alive
    /\ Written(k)
    /\ upload' = [upload EXCEPT ![k] = "over"]
    /\ UNCHANGED <<alive, store, cleaners, recovered>>

\* COMMIT was sent and its answer is lost.
CommitLost(k) ==
    /\ upload[k] = "prepared" /\ InTime(k) /\ alive
    /\ Written(k) \/ UNCHANGED <<photo, recorded, job>>
    /\ upload' = [upload EXCEPT ![k] = "unknown"]
    /\ UNCHANGED <<alive, store, cleaners, recovered>>

\* A proved commit is reported like a replay, whose candidate is not needed.
Recover(k) ==
    /\ upload[k] = "unknown"
    /\ IF k \in recorded
          THEN /\ upload' = [upload EXCEPT ![k] = "unwanted"]
               /\ recovered' = recovered \cup {k}
          ELSE /\ upload' = [upload EXCEPT ![k] = "over"]
               /\ UNCHANGED recovered
    /\ UNCHANGED <<document, store, job, cleaners>>

\* A replay, an overtaken revision, a rollback or the candidate's deadline.
Refuse(k) ==
    /\ upload[k] = "prepared"
    /\ upload' = [upload EXCEPT ![k] = "unwanted"]
    /\ UNCHANGED <<document, store, job, cleaners, recovered>>

\* Best effort: the object stays if the deletion fails.
FinalizeCandidate(k) ==
    /\ upload[k] = "unwanted"
    /\ upload' = [upload EXCEPT ![k] = "over"]
    /\ object' = [object EXCEPT ![k] = "gone"] \/ UNCHANGED object
    /\ UNCHANGED <<document, age, job, cleaners, recovered>>

\* The server dies; recovery that fails ends an upload in the same way.
UploadDies(k) ==
    /\ upload[k] \in {"prepared", "unknown", "unwanted"}
    /\ upload' = [upload EXCEPT ![k] = "over"]
    /\ UNCHANGED <<document, store, job, cleaners, recovered>>

-----------------------------------------------------------------------------
(* The user deletes.                                                       *)

DeletePhoto ==
    /\ photo # NoKey
    /\ photo' = NoKey
    /\ job' = Enqueued(photo)
    /\ UNCHANGED <<alive, recorded, upload, store, cleaners, recovered>>

\* The resume, or the account with it.
DeleteResume ==
    /\ alive
    /\ alive' = FALSE
    /\ photo' = NoKey
    /\ job' = Enqueued(photo)
    /\ UNCHANGED <<recorded, upload, store, cleaners, recovered>>

-----------------------------------------------------------------------------
(* Deletion jobs and the sweep.                                            *)

Working(w) == task[w].step # "idle"
Live(k) == photo = k
Holds(w, k) == job[k].state = "pending" /\ job[k].lease = w

NeverReclaimed(k) == job[k].state = "pending" /\ job[k].lease = Nobody
Claimable(k) ==
    /\ job[k].state = "pending"
    /\ job[k].lease = Nobody \/ job[k].lapsed

Claim(w, k) ==
    /\ ~Working(w)
    /\ Claimable(k)
    /\ job' = [job EXCEPT ![k] = LeasedTo(w)]
    /\ task' = [task EXCEPT ![w] = [key |-> k, step |-> "claimed", sweep |-> FALSE]]
    /\ UNCHANGED <<document, upload, store, faults, recovered>>

Sweepable(k) == object[k] = "stored" /\ age[k] = OrphanAge

\* An old object that no document names gets a job that is claimed at once.
Reconcile(w, k) ==
    /\ ~Working(w)
    /\ Sweepable(k)
    /\ ~Live(k)
    /\ job[k].state = "none"
    /\ job' = [job EXCEPT ![k] = LeasedTo(w)]
    /\ task' = [task EXCEPT ![w] = [key |-> k, step |-> "claimed", sweep |-> TRUE]]
    /\ UNCHANGED <<document, upload, store, faults, recovered>>

\* Thirty seconds are over: of a worker that stopped, or of a slow one.
Lapse(k) ==
    /\ job[k].state = "pending" /\ job[k].lease # Nobody /\ ~job[k].lapsed
    /\ IF task[job[k].lease].key = k THEN Fault ELSE UNCHANGED faults
    /\ job' = [job EXCEPT ![k].lapsed = TRUE]
    /\ UNCHANGED <<document, upload, store, task, recovered>>

\* Only the holder's lease gives the job back.
Requeue(w) ==
    /\ job' = IF Holds(w, task[w].key) THEN [job EXCEPT ![task[w].key] = Pending] ELSE job
    /\ task' = [task EXCEPT ![w] = Idle]

CheckReference(w) ==
    /\ task[w].step = "claimed"
    /\ IF Live(task[w].key) THEN Requeue(w)
       ELSE /\ task' = [task EXCEPT ![w].step = "checked"]
            /\ UNCHANGED job
    /\ UNCHANGED <<document, upload, store, faults, recovered>>

FailsIfAbsent(w) ==
    /\ task[w].step = "checked"
    /\ IF object[task[w].key] = "gone" THEN Requeue(w)
       ELSE /\ task' = [task EXCEPT ![w].step = "deleted"]
            /\ UNCHANGED job
    /\ object' = [object EXCEPT ![task[w].key] = "gone"]
    /\ UNCHANGED <<document, upload, age, faults, recovered>>

\* Deleted, or found absent.
DeleteObject(w) ==
    /\ task[w].step = "checked"
    /\ object' = [object EXCEPT ![task[w].key] = "gone"]
    /\ task' = [task EXCEPT ![w].step = "deleted"]
    /\ UNCHANGED <<document, upload, age, job, faults, recovered>>

FailureCounts(w) ==
    /\ task[w].step = "checked"
    /\ Fault
    /\ task' = [task EXCEPT ![w].step = "deleted"]
    /\ UNCHANGED <<document, upload, store, job, recovered>>

\* The sweep tries again, with the reference, and at last leaves it to a later run.
DeleteFails(w) ==
    /\ task[w].step = "checked"
    /\ Fault
    /\ \/ Requeue(w)
       \/ /\ task[w].sweep
          /\ task' = [task EXCEPT ![w].step = "claimed"]
          /\ UNCHANGED job
    /\ UNCHANGED <<document, upload, store, recovered>>

CompleteJob(w) ==
    /\ task[w].step = "deleted"
    /\ job' = IF Holds(w, task[w].key) THEN [job EXCEPT ![task[w].key] = Completed] ELSE job
    /\ task' = [task EXCEPT ![w] = Idle]
    /\ UNCHANGED <<document, upload, store, faults, recovered>>

\* Its process dies or a statement fails: the job stays leased.
WorkerStops(w) ==
    /\ Working(w)
    /\ Fault
    /\ task' = [task EXCEPT ![w] = Idle]
    /\ UNCHANGED <<document, upload, store, job, recovered>>

\* The retention of completed jobs is over.
PurgeJob(k) ==
    /\ job[k].state = "completed"
    /\ job' = [job EXCEPT ![k] = NoJob]
    /\ UNCHANGED <<document, upload, store, cleaners, recovered>>

-----------------------------------------------------------------------------
Next ==
    \/ Tick \/ DeletePhoto \/ DeleteResume
    \/ \E k \in Keys :
         \/ PutCreated(k) \/ PutUnknown(k) \/ LatePut(k)
         \/ Commit(k) \/ CommitLost(k) \/ Recover(k)
         \/ Refuse(k) \/ FinalizeCandidate(k) \/ UploadDies(k)
         \/ Lapse(k) \/ PurgeJob(k)
         \/ \E w \in Workers : Claim(w, k) \/ Reconcile(w, k)
    \/ \E w \in Workers :
         \/ CheckReference(w) \/ DeleteObject(w) \/ DeleteFails(w)
         \/ CompleteJob(w) \/ WorkerStops(w)

Spec == Init /\ [][Next]_vars

\* Both commands are run again and again and visit every job and object that
\* is due, a run goes on with what it claimed, and time passes.
Fairness ==
    /\ WF_vars(Tick)
    /\ \A k \in Keys :
         /\ WF_vars(Lapse(k))
         /\ WF_vars(\E w \in Workers : Claim(w, k))
         /\ WF_vars(\E w \in Workers : Reconcile(w, k))
    /\ \A w \in Workers : WF_vars(CheckReference(w) \/ DeleteObject(w) \/ CompleteJob(w))

FairSpec == Spec /\ Fairness

-----------------------------------------------------------------------------
(* Correctness.                                                            *)

Stored(k) == object[k] = "stored"

\* The object a document names is stored, whatever uploads, deletions and
\* sweeps do at the same time.
PhotoStored == photo # NoKey => Stored(photo)

\* It is, but for a commit whose answer was lost and which recovery proved:
\* there the upload deletes its own candidate (finalizePhotoCandidate).
PhotoKept == photo # NoKey => Stored(photo) \/ photo \in recovered

\* A completed job means that its object is gone for good: a stored object
\* with a completed job would stop every later sweep on its page
\* (reconcileObject, unsafe).
CompletedMeansGone == \A k \in Keys : job[k].state = "completed" => object[k] = "gone"

\* Every stored object that no document names is deleted, or named after all,
\* in spite of failures, stopped workers and lapsed leases.
OrphansGo ==
    \A k \in Keys : (Stored(k) /\ photo # k) ~> (object[k] = "gone" \/ photo = k)

\* Every deletion job comes to its end.
JobsEnd == \A k \in Keys : (job[k].state = "pending") ~> (job[k].state = "completed")

-----------------------------------------------------------------------------
(* The inductive invariant.                                                *)

TypeOK ==
    /\ photo \in Keys \cup {NoKey}
    /\ alive \in BOOLEAN
    /\ upload \in [Keys -> {"new", "prepared", "unknown", "unwanted", "over"}]
    /\ object \in [Keys -> {"never", "underway", "stored", "gone"}]
    /\ age \in [Keys -> 0..OrphanAge]
    /\ recorded \in SUBSET Keys
    /\ job \in [Keys -> [state : {"none", "pending", "completed"},
                         lease : Workers \cup {Nobody}, lapsed : BOOLEAN]]
    /\ task \in [Workers -> [key : Keys \cup {NoKey},
                             step : {"idle", "claimed", "checked", "deleted"},
                             sweep : BOOLEAN]]
    /\ faults \in 0..MaxFaults
    /\ recovered \in SUBSET Keys

\* Somebody is to delete the object.
Doomed(k) == job[k].state # "none" \/ \E w \in Workers : task[w].key = k

\* An upload that may still commit has its object, unless that is old.
CandidatesReady ==
    \A k \in Keys :
        /\ upload[k] = "new" => object[k] = "never" /\ k \notin recorded
        /\ upload[k] = "prepared" =>
             /\ k \notin recorded
             /\ Stored(k) \/ age[k] = OrphanAge
        /\ upload[k] = "unwanted" /\ k \in recorded => k \in recovered

\* What is named was committed and is not to be deleted by the clean-up.
NamedIsSafe ==
    photo # NoKey =>
        /\ photo \in recorded
        /\ ~Doomed(photo)
        /\ Stored(photo) \/ photo \in recovered

\* The clean-up takes what was named once, and what is old.
DoomedIsOld ==
    \A k \in Keys :
        Doomed(k) =>
            /\ object[k] \in {"stored", "gone"}
            /\ k \in recorded \/ age[k] = OrphanAge

\* What the clean-up reports as deleted is gone.
DeletedIsGone ==
    /\ CompletedMeansGone
    /\ \A w \in Workers :
         /\ task[w].step = "deleted" => object[task[w].key] = "gone"
         /\ Working(w) <=> task[w].key \in Keys
    /\ \A k \in recorded : object[k] \in {"stored", "gone"}

\* The inductive invariant of the media clean-up.
IInv == TypeOK /\ CandidatesReady /\ NamedIsSafe /\ DoomedIsOld /\ DeletedIsGone
=============================================================================

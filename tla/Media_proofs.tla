----------------------------- MODULE Media_proofs -----------------------------
(***************************************************************************)
(* Proofs about Media: its inductive invariant, and from it that what a    *)
(* document names stays stored and that completed jobs left nothing behind.*)
(*                                                                         *)
(* The argument is about Doomed: what the clean-up has in hand was either  *)
(* named once, and no document returns to a key, or has reached OrphanAge, *)
(* and no upload commits a candidate of that age.                          *)
(***************************************************************************)
EXTENDS Media, TLAPS

JobRows == [state : {"none", "pending", "completed"},
            lease : Workers \cup {Nobody}, lapsed : BOOLEAN]
TaskRows == [key : Keys \cup {NoKey}, step : {"idle", "claimed", "checked", "deleted"},
             sweep : BOOLEAN]

\* The initial state satisfies the invariant: nothing is stored, named or queued.
LEMMA InvInit == Init => IInv
<1> SUFFICES ASSUME Init PROVE IInv
  OBVIOUS
<1> USE DEF Init, NoJob, Idle
<1>1. TypeOK
  BY AgesAssumption DEF TypeOK
<1>2. CandidatesReady /\ NamedIsSafe
  BY DEF CandidatesReady, NamedIsSafe
<1>3. \A k \in Keys : ~Doomed(k)
  BY NoneAssumption DEF Doomed
<1>4. DoomedIsOld
  BY <1>3 DEF DoomedIsOld
<1>5. DeletedIsGone
  BY NoneAssumption DEF DeletedIsGone, CompletedMeansGone, Working
<1> QED
  BY <1>1, <1>2, <1>4, <1>5 DEF IInv

\* A step that touches jobs and tasks only, and takes nothing new in hand.
LEMMA CleanersKeep ==
    ASSUME IInv, TypeOK', DeletedIsGone',
           UNCHANGED <<document, upload, store, recovered>>,
           \A k \in Keys : Doomed(k)' => Doomed(k)
    PROVE  IInv'
<1> USE DEF document, store
<1>1. CandidatesReady'
  BY DEF IInv, CandidatesReady, Stored
<1>2. NamedIsSafe'
  <2> SUFFICES ASSUME photo' # NoKey
               PROVE  /\ photo' \in recorded' /\ ~Doomed(photo)'
                      /\ Stored(photo)' \/ photo' \in recovered'
    BY DEF NamedIsSafe
  <2>1. photo \in Keys
    BY DEF IInv, TypeOK
  <2> QED
    BY <2>1 DEF IInv, NamedIsSafe, Stored, Doomed
<1>3. DoomedIsOld'
  BY DEF IInv, DoomedIsOld
<1> QED
  BY <1>1, <1>2, <1>3 DEF IInv

\* What a step of the clean-up leaves of a job.
LEMMA JobShape ==
    ASSUME NEW k \in Keys, job \in [Keys -> JobRows], NEW j \in JobRows,
           job' = [job EXCEPT ![k] = j]
    PROVE  /\ job' \in [Keys -> JobRows]
           /\ job'[k] = j
           /\ \A i \in Keys : i # k => job'[i] = job[i]
OBVIOUS

\* What a step of the clean-up leaves of a task.
LEMMA TaskShape ==
    ASSUME NEW w \in Workers, task \in [Workers -> TaskRows], NEW t \in TaskRows,
           task' = [task EXCEPT ![w] = t]
    PROVE  /\ task' \in [Workers -> TaskRows]
           /\ task'[w] = t
           /\ \A v \in Workers : v # w => task'[v] = task[v]
OBVIOUS

\* The rows that the clean-up writes.
LEMMA RowShapes ==
    /\ NoJob \in JobRows /\ Pending \in JobRows /\ Completed \in JobRows
    /\ \A w \in Workers : LeasedTo(w) \in JobRows
    /\ Idle \in TaskRows
BY DEF NoJob, Pending, Completed, LeasedTo, Idle, JobRows, TaskRows

\* A worker that is not idle has a key, which is doomed.
LEMMA WorkingIsDoomed ==
    ASSUME IInv, NEW w \in Workers, Working(w)
    PROVE  task[w].key \in Keys /\ Doomed(task[w].key)
BY DEF IInv, DeletedIsGone, Doomed

-----------------------------------------------------------------------------
(* Time and uploads.                                                       *)

LEMMA TickKeeps == ASSUME IInv, Tick PROVE IInv'
<1> USE DEF Tick, document, cleaners
<1>1. age' \in [Keys -> 0..OrphanAge] /\ \A k \in Keys : age[k] = OrphanAge => age'[k] = OrphanAge
  BY AgesAssumption DEF IInv, TypeOK
<1>2. TypeOK'
  BY <1>1 DEF IInv, TypeOK
<1>3. CandidatesReady'
  BY <1>1 DEF IInv, CandidatesReady, Stored
<1>4. NamedIsSafe'
  BY DEF IInv, NamedIsSafe, Doomed, Stored
<1>5. DoomedIsOld'
  BY <1>1 DEF IInv, DoomedIsOld, Doomed
<1>6. DeletedIsGone'
  BY DEF IInv, DeletedIsGone, CompletedMeansGone, Working
<1> QED
  BY <1>2, <1>3, <1>4, <1>5, <1>6 DEF IInv

\* A key whose put has not been tried is not in anybody's hands.
LEMMA NewIsUntouched ==
    ASSUME IInv, NEW k \in Keys, upload[k] = "new" \/ object[k] = "underway"
    PROVE  ~Doomed(k) /\ k \notin recorded /\ photo # k
<1>1. object[k] \in {"never", "underway"}
  BY DEF IInv, CandidatesReady
<1>2. ~Doomed(k) /\ k \notin recorded
  BY <1>1 DEF IInv, DoomedIsOld, DeletedIsGone
<1> QED
  BY <1>2, NoneAssumption DEF IInv, NamedIsSafe

\* A step that gives a new or late object its place in the store.
LEMMA PutKeeps ==
    ASSUME IInv, NEW k \in Keys, NEW u \in {"prepared", "over"}, NEW o \in {"stored", "underway"},
           upload[k] = "new" \/ object[k] = "underway",
           object[k] = "underway" => upload' = upload,
           upload[k] = "new" => upload' = [upload EXCEPT ![k] = u],
           u = "prepared" => o = "stored",
           upload[k] = "new" \/ o = "stored",
           object' = [object EXCEPT ![k] = o],
           UNCHANGED <<document, age, job, cleaners, recovered>>
    PROVE  IInv'
<1> USE DEF document, cleaners
<1>1. ~Doomed(k) /\ k \notin recorded /\ photo # k
  BY NewIsUntouched
<1>2. upload[k] # "new" \/ object[k] # "underway"
  BY DEF IInv, CandidatesReady
<1>3. TypeOK'
  BY DEF IInv, TypeOK
<1>4. /\ \A i \in Keys : i # k => upload'[i] = upload[i] /\ object'[i] = object[i]
      /\ object'[k] = o
      /\ upload'[k] = upload[k] \/ upload'[k] = u
      /\ upload'[k] # "new"
  BY <1>2 DEF IInv, TypeOK
<1>5. CandidatesReady'
  BY <1>1, <1>2, <1>4 DEF IInv, CandidatesReady, Stored
<1>6. NamedIsSafe'
  BY <1>1, <1>4 DEF IInv, TypeOK, NamedIsSafe, Doomed, Stored
<1>7. DoomedIsOld'
  BY <1>1, <1>4 DEF IInv, DoomedIsOld, Doomed
<1>8. DeletedIsGone'
  BY <1>1, <1>4 DEF IInv, TypeOK, DeletedIsGone, CompletedMeansGone, Doomed, Working
<1> QED
  BY <1>3, <1>5, <1>6, <1>7, <1>8 DEF IInv

\* A step of an upload that leaves document, store and jobs alone.
LEMMA UploadKeeps ==
    ASSUME IInv, NEW k \in Keys, NEW u \in {"unknown", "unwanted", "over"},
           upload[k] \in {"prepared", "unknown", "unwanted"},
           upload' = [upload EXCEPT ![k] = u],
           recovered \subseteq recovered', recovered' \in SUBSET Keys,
           u = "unwanted" /\ k \in recorded => k \in recovered',
           UNCHANGED <<document, store, job, cleaners>>
    PROVE  IInv'
<1> USE DEF document, store, cleaners
<1>1. TypeOK'
  BY DEF IInv, TypeOK
<1>2. /\ \A i \in Keys : i # k => upload'[i] = upload[i]
      /\ upload'[k] = u
  BY DEF IInv, TypeOK
<1>3. CandidatesReady'
  BY <1>2 DEF IInv, CandidatesReady, Stored
<1>4. NamedIsSafe'
  BY DEF IInv, NamedIsSafe, Doomed, Stored
<1>5. DoomedIsOld'
  BY DEF IInv, DoomedIsOld, Doomed
<1>6. DeletedIsGone'
  BY DEF IInv, DeletedIsGone, CompletedMeansGone, Working
<1> QED
  BY <1>1, <1>3, <1>4, <1>5, <1>6 DEF IInv

\* The statement that queues a photo leaves every other job alone.
LEMMA EnqueuedShape ==
    ASSUME NEW p, job \in [Keys -> JobRows]
    PROVE  /\ Enqueued(p) \in [Keys -> JobRows]
           /\ \A i \in Keys : i # p => Enqueued(p)[i] = job[i]
           /\ \A i \in Keys : Enqueued(p)[i].state = "completed" => job[i].state = "completed"
BY RowShapes DEF Enqueued, Pending

\* A candidate that may commit is stored, new to the documents, and nobody
\* is about to delete it.
LEMMA InTimeIsSafe ==
    ASSUME IInv, NEW k \in Keys, upload[k] = "prepared", InTime(k)
    PROVE  Stored(k) /\ ~Doomed(k) /\ k \notin recorded /\ photo # k
<1>1. age[k] # OrphanAge
  BY AgesAssumption DEF IInv, TypeOK, InTime
<1>2. Stored(k) /\ k \notin recorded
  BY <1>1 DEF IInv, CandidatesReady
<1>3. ~Doomed(k)
  BY <1>1, <1>2 DEF IInv, DoomedIsOld
<1> QED
  BY <1>2, <1>3, NoneAssumption DEF IInv, NamedIsSafe

\* The document's old photo goes to the clean-up: it was named, which is enough.
LEMMA QueuedKeeps ==
    ASSUME IInv, job' = Enqueued(photo), recorded \subseteq recorded',
           \A i \in recorded' \ recorded : Stored(i),
           UNCHANGED <<store, cleaners>>
    PROVE  /\ job' \in [Keys -> JobRows]
           /\ \A i \in Keys : i # photo /\ ~Doomed(i) => ~Doomed(i)'
           /\ DoomedIsOld'
           /\ DeletedIsGone'
<1> USE DEF store, cleaners
<1>1. /\ job' \in [Keys -> JobRows]
      /\ \A i \in Keys : i # photo => job'[i] = job[i]
      /\ \A i \in Keys : job'[i].state = "completed" => job[i].state = "completed"
  BY EnqueuedShape DEF IInv, TypeOK, JobRows
<1>2. \A i \in Keys : Doomed(i)' => Doomed(i) \/ i = photo
  BY <1>1 DEF Doomed
<1>3. DoomedIsOld'
  <2> SUFFICES ASSUME NEW i \in Keys, Doomed(i)'
               PROVE  /\ object[i] \in {"stored", "gone"}
                      /\ i \in recorded' \/ age[i] = OrphanAge
    BY DEF DoomedIsOld
  <2>1. CASE Doomed(i)
    BY <2>1 DEF IInv, DoomedIsOld
  <2>2. CASE i = photo
    <3>1. i \in recorded
      BY <2>2, NoneAssumption DEF IInv, NamedIsSafe
    <3> QED
      BY <3>1 DEF IInv, DeletedIsGone
  <2> QED
    BY <1>2, <2>1, <2>2
<1>4. \A i \in recorded' : object[i] \in {"stored", "gone"}
  BY DEF IInv, DeletedIsGone, Stored
<1>5. DeletedIsGone'
  BY <1>1, <1>4 DEF IInv, DeletedIsGone, CompletedMeansGone, Working
<1> QED
  BY <1>1, <1>2, <1>3, <1>5

\* A commit of a candidate in its time.
LEMMA WrittenKeeps ==
    ASSUME IInv, NEW k \in Keys, NEW u \in {"over", "unknown"},
           upload[k] = "prepared", InTime(k), Written(k),
           upload' = [upload EXCEPT ![k] = u],
           UNCHANGED <<alive, store, cleaners, recovered>>
    PROVE  IInv'
<1> USE DEF Written, store, cleaners
<1>1. Stored(k) /\ ~Doomed(k) /\ k \notin recorded /\ photo # k
  BY InTimeIsSafe
<1>2. /\ job' \in [Keys -> JobRows]
      /\ \A i \in Keys : i # photo /\ ~Doomed(i) => ~Doomed(i)'
      /\ DoomedIsOld'
      /\ DeletedIsGone'
  BY <1>1, QueuedKeeps
<1>3. TypeOK'
  BY <1>2 DEF IInv, TypeOK, JobRows
<1>4. /\ \A i \in Keys : i # k => upload'[i] = upload[i]
      /\ upload'[k] = u
  BY DEF IInv, TypeOK
<1>5. CandidatesReady'
  BY <1>4 DEF IInv, CandidatesReady, Stored
<1>6. NamedIsSafe'
  BY <1>1, <1>2 DEF NamedIsSafe, Stored
<1> QED
  BY <1>2, <1>3, <1>5, <1>6 DEF IInv

LEMMA CommitKeeps == ASSUME IInv, NEW k \in Keys, Commit(k) PROVE IInv'
BY WrittenKeeps DEF Commit

LEMMA CommitLostKeeps == ASSUME IInv, NEW k \in Keys, CommitLost(k) PROVE IInv'
<1>1. CASE Written(k)
  BY <1>1, WrittenKeeps DEF CommitLost
<1>2. CASE UNCHANGED <<photo, recorded, job>>
  <2>1. recovered' \in SUBSET Keys
    BY DEF IInv, TypeOK, CommitLost
  <2> QED
    BY <1>2, <2>1, UploadKeeps DEF CommitLost, document
<1> QED
  BY <1>1, <1>2 DEF CommitLost

LEMMA RecoverKeeps == ASSUME IInv, NEW k \in Keys, Recover(k) PROVE IInv'
<1>1. recovered' \in SUBSET Keys /\ recovered \subseteq recovered'
  BY DEF IInv, TypeOK, Recover
<1> QED
  BY <1>1, UploadKeeps DEF Recover

LEMMA RefuseKeeps == ASSUME IInv, NEW k \in Keys, Refuse(k) PROVE IInv'
<1>1. recovered' \in SUBSET Keys /\ k \notin recorded
  BY DEF IInv, TypeOK, CandidatesReady, Refuse
<1> QED
  BY <1>1, UploadKeeps DEF Refuse

LEMMA UploadDiesKeeps == ASSUME IInv, NEW k \in Keys, UploadDies(k) PROVE IInv'
<1>1. recovered' \in SUBSET Keys
  BY DEF IInv, TypeOK, UploadDies
<1> QED
  BY <1>1, UploadKeeps DEF UploadDies

\* An upload deletes its own candidate: if that is named, recovery proved it.
LEMMA FinalizeKeeps == ASSUME IInv, NEW k \in Keys, FinalizeCandidate(k) PROVE IInv'
<1> USE DEF FinalizeCandidate, document, cleaners
<1>1. TypeOK'
  BY DEF IInv, TypeOK
<1>2. /\ \A i \in Keys : i # k => upload'[i] = upload[i] /\ object'[i] = object[i]
      /\ upload'[k] = "over"
      /\ object'[k] = object[k] \/ object'[k] = "gone"
  BY DEF IInv, TypeOK
<1>3. CandidatesReady'
  BY <1>2 DEF IInv, CandidatesReady, Stored
<1>4. k \in recorded => k \in recovered
  BY DEF IInv, CandidatesReady
<1>5. NamedIsSafe'
  BY <1>2, <1>4 DEF IInv, TypeOK, NamedIsSafe, Doomed, Stored
<1>6. DoomedIsOld'
  BY <1>2 DEF IInv, DoomedIsOld, Doomed
<1>7. DeletedIsGone'
  <2>1. recorded' \subseteq Keys
    BY DEF IInv, TypeOK
  <2> QED
    BY <1>2, <2>1 DEF IInv, DeletedIsGone, CompletedMeansGone, Working
<1> QED
  BY <1>1, <1>3, <1>5, <1>6, <1>7 DEF IInv

\* The user takes the photo, the resume or the account away.
LEMMA RemovedKeeps ==
    ASSUME IInv, photo' = NoKey, alive' \in BOOLEAN, job' = Enqueued(photo),
           UNCHANGED <<recorded, upload, store, cleaners, recovered>>
    PROVE  IInv'
<1>1. /\ job' \in [Keys -> JobRows]
      /\ DoomedIsOld'
      /\ DeletedIsGone'
  BY QueuedKeeps
<1>2. TypeOK'
  BY <1>1 DEF IInv, TypeOK, JobRows, store, cleaners
<1>3. CandidatesReady' /\ NamedIsSafe'
  BY DEF IInv, CandidatesReady, NamedIsSafe, Stored, store
<1> QED
  BY <1>1, <1>2, <1>3 DEF IInv

-----------------------------------------------------------------------------
(* The clean-up.                                                           *)

LEMMA ClaimKeeps == ASSUME IInv, NEW w \in Workers, NEW k \in Keys, Claim(w, k) PROVE IInv'
<1> USE DEF Claim
<1> DEFINE t == [key |-> k, step |-> "claimed", sweep |-> FALSE]
<1>1. /\ job' \in [Keys -> JobRows] /\ job'[k] = LeasedTo(w)
      /\ \A i \in Keys : i # k => job'[i] = job[i]
  BY JobShape, RowShapes DEF IInv, TypeOK, JobRows
<1>2. t \in TaskRows
  BY DEF TaskRows
<1>3. /\ task' \in [Workers -> TaskRows] /\ task'[w] = t
      /\ \A v \in Workers : v # w => task'[v] = task[v]
  BY <1>2, TaskShape DEF IInv, TypeOK, TaskRows
<1>4. TypeOK'
  BY <1>1, <1>3 DEF IInv, TypeOK, JobRows, TaskRows, document, store
<1>5. DeletedIsGone'
  BY <1>1, <1>3 DEF IInv, DeletedIsGone, CompletedMeansGone, Working, LeasedTo, document, store
<1>6. \A i \in Keys : Doomed(i)' => Doomed(i)
  BY <1>1, <1>3 DEF Doomed, Claimable
<1> QED
  BY <1>4, <1>5, <1>6, CleanersKeep

\* The sweep dooms an object that no document names and that is old.
LEMMA ReconcileKeeps ==
    ASSUME IInv, NEW w \in Workers, NEW k \in Keys, Reconcile(w, k) PROVE IInv'
<1> USE DEF Reconcile, Sweepable, Live, document, store
<1> DEFINE t == [key |-> k, step |-> "claimed", sweep |-> TRUE]
<1>1. /\ job' \in [Keys -> JobRows] /\ job'[k] = LeasedTo(w)
      /\ \A i \in Keys : i # k => job'[i] = job[i]
  BY JobShape, RowShapes DEF IInv, TypeOK, JobRows
<1>2. t \in TaskRows
  BY DEF TaskRows
<1>3. /\ task' \in [Workers -> TaskRows] /\ task'[w] = t
      /\ \A v \in Workers : v # w => task'[v] = task[v]
  BY <1>2, TaskShape DEF IInv, TypeOK, TaskRows
<1>4. TypeOK'
  BY <1>1, <1>3 DEF IInv, TypeOK, JobRows, TaskRows
<1>5. DeletedIsGone'
  BY <1>1, <1>3 DEF IInv, DeletedIsGone, CompletedMeansGone, Working, LeasedTo
<1>6. \A i \in Keys : Doomed(i)' => Doomed(i) \/ i = k
  BY <1>1, <1>3 DEF Doomed
<1>7. DoomedIsOld'
  BY <1>6 DEF IInv, DoomedIsOld
<1>8. NamedIsSafe'
  BY <1>6 DEF IInv, TypeOK, NamedIsSafe, Stored
<1>9. CandidatesReady'
  BY DEF IInv, CandidatesReady, Stored
<1> QED
  BY <1>4, <1>5, <1>7, <1>8, <1>9 DEF IInv

LEMMA LapseKeeps == ASSUME IInv, NEW k \in Keys, Lapse(k) PROVE IInv'
<1> USE DEF Lapse
<1>1. faults' \in 0..MaxFaults
  BY AgesAssumption DEF IInv, TypeOK, Fault
<1>2. /\ job' \in [Keys -> JobRows]
      /\ \A i \in Keys : job'[i].state = job[i].state
  BY DEF IInv, TypeOK, JobRows
<1>3. TypeOK'
  BY <1>1, <1>2 DEF IInv, TypeOK, JobRows, document, store
<1>4. DeletedIsGone'
  BY <1>2 DEF IInv, DeletedIsGone, CompletedMeansGone, Working, document, store
<1>5. \A i \in Keys : Doomed(i)' => Doomed(i)
  BY <1>2 DEF Doomed
<1> QED
  BY <1>3, <1>4, <1>5, CleanersKeep

\* A worker goes on with its task or lets go of it, and changes at most its
\* own job, which stays a job.
LEMMA WorkerKeeps ==
    ASSUME IInv, NEW w \in Workers, Working(w), NEW t \in TaskRows, NEW j \in JobRows,
           job' = job \/ job' = [job EXCEPT ![task[w].key] = j],
           job' # job => job[task[w].key].state # "none",
           j.state = "completed" => object[task[w].key] = "gone",
           task' = [task EXCEPT ![w] = t],
           t = Idle \/ (t.key = task[w].key /\ t.step \in {"claimed", "checked"}),
           faults' \in 0..MaxFaults,
           UNCHANGED <<document, upload, store, recovered>>
    PROVE  IInv'
<1> USE DEF document, store
<1> DEFINE k == task[w].key
<1>1. k \in Keys
  BY WorkingIsDoomed
<1>2. /\ job' \in [Keys -> JobRows]
      /\ \A i \in Keys : i # k => job'[i] = job[i]
      /\ job'[k] = job[k] \/ (job'[k] = j /\ job[k].state # "none")
  <2>1. CASE job' = job
    BY <2>1 DEF IInv, TypeOK, JobRows
  <2>2. CASE job' # job
    BY <2>2, <1>1, JobShape DEF IInv, TypeOK, JobRows
  <2> QED
    BY <2>1, <2>2
<1>3. /\ task' \in [Workers -> TaskRows] /\ task'[w] = t
      /\ \A v \in Workers : v # w => task'[v] = task[v]
  BY TaskShape DEF IInv, TypeOK, TaskRows
<1>4. TypeOK'
  BY <1>2, <1>3 DEF IInv, TypeOK, JobRows, TaskRows
<1>5. DeletedIsGone'
  <2>1. CompletedMeansGone'
    BY <1>2 DEF IInv, DeletedIsGone, CompletedMeansGone
  <2>2. t.step # "deleted" /\ (t.step # "idle" <=> t.key \in Keys)
    BY <1>1, NoneAssumption DEF Idle
  <2>3. \A v \in Workers : /\ task'[v].step = "deleted" => object[task'[v].key] = "gone"
                           /\ task'[v].step # "idle" <=> task'[v].key \in Keys
    BY <1>3, <2>2 DEF IInv, DeletedIsGone, Working
  <2> QED
    BY <2>1, <2>3 DEF IInv, DeletedIsGone, Working
<1>6. \A i \in Keys : Doomed(i)' => Doomed(i)
  BY <1>1, <1>2, <1>3, NoneAssumption DEF Doomed, Idle
<1> QED
  BY <1>4, <1>5, <1>6, CleanersKeep

LEMMA RequeueKeeps ==
    ASSUME IInv, NEW w \in Workers, Working(w), Requeue(w), faults' \in 0..MaxFaults,
           UNCHANGED <<document, upload, store, recovered>>
    PROVE  IInv'
BY WorkerKeeps, RowShapes DEF Requeue, Holds, Pending

LEMMA CheckReferenceKeeps == ASSUME IInv, NEW w \in Workers, CheckReference(w) PROVE IInv'
<1>1. Working(w) /\ faults' \in 0..MaxFaults
  BY DEF IInv, TypeOK, CheckReference, Working
<1>2. CASE Live(task[w].key)
  BY <1>1, <1>2, RequeueKeeps DEF CheckReference
<1>3. CASE ~Live(task[w].key)
  <2> DEFINE t == [task[w] EXCEPT !.step = "checked"]
  <2>1. t \in TaskRows /\ t.key = task[w].key /\ t.step = "checked"
    BY DEF IInv, TypeOK, TaskRows
  <2>2. task' = [task EXCEPT ![w] = t] /\ job' = job
    BY <1>3 DEF CheckReference
  <2>3. UNCHANGED <<document, upload, store, recovered>>
    BY DEF CheckReference
  <2> HIDE DEF t
  <2> QED
    BY <1>1, <2>1, <2>2, <2>3, WorkerKeeps, RowShapes DEF Pending
<1> QED
  BY <1>2, <1>3

\* The object that goes is not the one a document names.
LEMMA DeleteObjectKeeps == ASSUME IInv, NEW w \in Workers, DeleteObject(w) PROVE IInv'
<1> USE DEF DeleteObject, document
<1> DEFINE k == task[w].key
           t == [task[w] EXCEPT !.step = "deleted"]
<1>1. k \in Keys /\ Doomed(k)
  BY WorkingIsDoomed DEF Working
<1>2. t \in TaskRows /\ t.key = k /\ t.step = "deleted"
  BY DEF IInv, TypeOK, TaskRows
<1>3. /\ task' \in [Workers -> TaskRows] /\ task'[w] = t
      /\ \A v \in Workers : v # w => task'[v] = task[v]
  BY <1>2, TaskShape DEF IInv, TypeOK, TaskRows
<1>4. /\ object' \in [Keys -> {"never", "underway", "stored", "gone"}]
      /\ object'[k] = "gone"
      /\ \A i \in Keys : i # k => object'[i] = object[i]
  BY <1>1 DEF IInv, TypeOK
<1>5. TypeOK'
  BY <1>3, <1>4 DEF IInv, TypeOK, TaskRows
<1>6. \A i \in Keys : Doomed(i)' => Doomed(i)
  BY <1>2, <1>3 DEF Doomed
<1>7. CandidatesReady'
  BY <1>1, <1>4 DEF IInv, CandidatesReady, DoomedIsOld, Stored
<1>8. NamedIsSafe'
  BY <1>1, <1>4, <1>6 DEF IInv, TypeOK, NamedIsSafe, Stored
<1>9. DoomedIsOld'
  BY <1>4, <1>6 DEF IInv, DoomedIsOld
<1>10. DeletedIsGone'
  <2>1. CompletedMeansGone' /\ \A i \in recorded' : object'[i] \in {"stored", "gone"}
    BY <1>4 DEF IInv, TypeOK, DeletedIsGone, CompletedMeansGone
  <2>2. \A v \in Workers : /\ task'[v].step = "deleted" => object'[task'[v].key] = "gone"
                           /\ task'[v].step # "idle" <=> task'[v].key \in Keys
    BY <1>1, <1>2, <1>3, <1>4 DEF IInv, DeletedIsGone, Working
  <2> QED
    BY <2>1, <2>2 DEF DeletedIsGone, Working
<1> QED
  BY <1>5, <1>7, <1>8, <1>9, <1>10 DEF IInv

LEMMA DeleteFailsKeeps == ASSUME IInv, NEW w \in Workers, DeleteFails(w) PROVE IInv'
<1>1. Working(w) /\ faults' \in 0..MaxFaults
  BY AgesAssumption DEF IInv, TypeOK, DeleteFails, Working, Fault
<1>2. CASE Requeue(w)
  BY <1>1, <1>2, RequeueKeeps DEF DeleteFails
<1>3. CASE task' = [task EXCEPT ![w].step = "claimed"] /\ UNCHANGED job
  <2> DEFINE t == [task[w] EXCEPT !.step = "claimed"]
  <2>1. t \in TaskRows /\ t.key = task[w].key /\ t.step = "claimed"
    BY DEF IInv, TypeOK, TaskRows
  <2>2. task' = [task EXCEPT ![w] = t] /\ job' = job
    BY <1>3
  <2>3. UNCHANGED <<document, upload, store, recovered>>
    BY DEF DeleteFails
  <2> HIDE DEF t
  <2> QED
    BY <1>1, <2>1, <2>2, <2>3, WorkerKeeps, RowShapes DEF Pending
<1> QED
  BY <1>2, <1>3 DEF DeleteFails

LEMMA CompleteJobKeeps == ASSUME IInv, NEW w \in Workers, CompleteJob(w) PROVE IInv'
<1>1. Working(w) /\ faults' \in 0..MaxFaults /\ object[task[w].key] = "gone"
  BY DEF IInv, TypeOK, DeletedIsGone, CompleteJob, Working
<1> QED
  BY <1>1, WorkerKeeps, RowShapes DEF CompleteJob, Holds

LEMMA WorkerStopsKeeps == ASSUME IInv, NEW w \in Workers, WorkerStops(w) PROVE IInv'
<1>1. faults' \in 0..MaxFaults
  BY AgesAssumption DEF IInv, TypeOK, WorkerStops, Fault
<1> QED
  BY <1>1, WorkerKeeps, RowShapes DEF WorkerStops, Pending

LEMMA PurgeJobKeeps == ASSUME IInv, NEW k \in Keys, PurgeJob(k) PROVE IInv'
<1> USE DEF PurgeJob, cleaners
<1>1. /\ job' \in [Keys -> JobRows] /\ job'[k] = NoJob
      /\ \A i \in Keys : i # k => job'[i] = job[i]
  BY JobShape, RowShapes DEF IInv, TypeOK, JobRows
<1>2. TypeOK'
  BY <1>1 DEF IInv, TypeOK, JobRows, document, store
<1>3. DeletedIsGone'
  BY <1>1 DEF IInv, DeletedIsGone, CompletedMeansGone, Working, NoJob, document, store
<1>4. \A i \in Keys : Doomed(i)' => Doomed(i)
  BY <1>1 DEF Doomed, NoJob
<1> QED
  BY <1>2, <1>3, <1>4, CleanersKeep

-----------------------------------------------------------------------------
(* The theorems.                                                           *)

\* Every step preserves the invariant.
LEMMA InvStep == IInv /\ [Next]_vars => IInv'
<1> SUFFICES ASSUME IInv, [Next]_vars PROVE IInv'
  OBVIOUS
<1>1. CASE Tick
  BY <1>1, TickKeeps
<1>2. CASE DeletePhoto \/ DeleteResume
  <2>1. alive' \in BOOLEAN
    BY <1>2 DEF IInv, TypeOK, DeletePhoto, DeleteResume
  <2> QED
    BY <1>2, <2>1, RemovedKeeps DEF DeletePhoto, DeleteResume
<1>3. ASSUME NEW k \in Keys, PutCreated(k) \/ PutUnknown(k) PROVE IInv'
  <2>1. object[k] # "underway"
    BY <1>3 DEF IInv, CandidatesReady, PutCreated, PutUnknown
  <2>2. CASE PutCreated(k)
    BY <2>1, <2>2, PutKeeps DEF PutCreated
  <2>3. CASE PutUnknown(k)
    BY <2>1, <2>3, PutKeeps DEF PutUnknown
  <2> QED
    BY <1>3, <2>2, <2>3
<1>4. ASSUME NEW k \in Keys, LatePut(k) PROVE IInv'
  <2>1. upload[k] # "new"
    BY <1>4 DEF IInv, CandidatesReady, LatePut
  <2> QED
    BY <1>4, <2>1, PutKeeps DEF LatePut
<1>5. ASSUME NEW k \in Keys,
             Commit(k) \/ CommitLost(k) \/ Recover(k) \/ Refuse(k)
               \/ FinalizeCandidate(k) \/ UploadDies(k)
      PROVE  IInv'
  BY <1>5, CommitKeeps, CommitLostKeeps, RecoverKeeps, RefuseKeeps, FinalizeKeeps, UploadDiesKeeps
<1>6. ASSUME NEW k \in Keys, Lapse(k) \/ PurgeJob(k) PROVE IInv'
  BY <1>6, LapseKeeps, PurgeJobKeeps
<1>7. ASSUME NEW k \in Keys, NEW w \in Workers, Claim(w, k) \/ Reconcile(w, k) PROVE IInv'
  BY <1>7, ClaimKeeps, ReconcileKeeps
<1>8. ASSUME NEW w \in Workers,
             CheckReference(w) \/ DeleteObject(w) \/ DeleteFails(w)
               \/ CompleteJob(w) \/ WorkerStops(w)
      PROVE  IInv'
  BY <1>8, CheckReferenceKeeps, DeleteObjectKeeps, DeleteFailsKeeps, CompleteJobKeeps, WorkerStopsKeeps
<1>9. CASE UNCHANGED vars
  BY <1>9 DEF vars, document, store, cleaners, IInv, TypeOK, CandidatesReady, NamedIsSafe,
              DoomedIsOld, DeletedIsGone, CompletedMeansGone, Doomed, Stored, Working
<1> QED
  BY <1>1, <1>2, <1>3, <1>4, <1>5, <1>6, <1>7, <1>8, <1>9 DEF Next

\* The inductive invariant holds in every reachable state: uploads, jobs, the
\* sweep and every document agree about each object.
THEOREM Invariant == Spec => []IInv
BY InvInit, InvStep, PTL DEF Spec

\* What a document names is stored, whatever the deletion workers and the
\* sweep do meanwhile; only the upload whose lost commit was recovered can
\* take it away (finalizePhotoCandidate).
THEOREM NamedStaysStored == Spec => []PhotoKept
<1>1. IInv => PhotoKept
  BY DEF IInv, NamedIsSafe, PhotoKept
<1> QED
  BY <1>1, Invariant, PTL

\* A completed deletion job left no object behind (deleteClaimed completes a
\* job only when its object was deleted or found absent).
THEOREM CompletedIsGone == Spec => []CompletedMeansGone
<1>1. IInv => CompletedMeansGone
  BY DEF IInv, DeletedIsGone
<1> QED
  BY <1>1, Invariant, PTL
=============================================================================

---------------------------- MODULE PublicMutation ----------------------------
(***************************************************************************)
(* A mutation of a public resume, end to end: the HTTP request, the        *)
(* public-state transition, the idempotent database transaction and its    *)
(* recovery, beside the readers of the public page                         *)
(* (internal/resumeapi, internal/resume, internal/publicresume).           *)
(*                                                                         *)
(* One account with one resume, which has a slug.  Requests of that        *)
(* account run concurrently, repeat idempotency keys and lose connections; *)
(* the process may crash.  PublicState details the coordinator; here its   *)
(* operations are single steps, as PublicAdmission has them.               *)
(*                                                                         *)
(* The database has the resume row, the discovery generation and the       *)
(* idempotency records.  A transaction locks the account's user row first, *)
(* so its writes are modelled at its commit.  A COMMIT whose answer is     *)
(* lost is decided by the database alone, and until then the transaction   *)
(* holds the lock.  Records do not expire (the code keeps them 24 hours).  *)
(*                                                                         *)
(* A "stale" answer is a revision mismatch or a missing row (412, 404); a  *)
(* "failed" answer is any error after which the client may retry.  Another *)
(* account appears only as a change of the discovery generation.           *)
(***************************************************************************)
EXTENDS Naturals

CONSTANTS
    Mutations,      \* slots for mutation requests: at most this many at once
    Readers,        \* slots for public responses
    Keys,           \* idempotency keys
    KindOf,         \* the operation a client uses each key for
    MaxRevision,    \* bound: no request at or above this revision
    MaxTurns,       \* bound: crashes and changes by another account, together
    Nobody          \* no mutation

Kinds == {"edit", "publish", "unpublish", "delete"}

ASSUME KindOfAssumption == KindOf \in [Keys -> Kinds] /\ Keys # {}
ASSUME MaxRevisionAssumption == MaxRevision \in Nat \ {0}
ASSUME MaxTurnsAssumption == MaxTurns \in Nat
ASSUME NobodyAssumption == Nobody \notin Mutations

VARIABLES
    revision,       \* the resume row's revision, 0 when there is no row
    live,           \* the row's publish switch
    discovery,      \* the durable discovery generation
    records,        \* per key: the If-Match of the request stored under it, or 0
    userLock,       \* the mutation whose transaction holds the user row
    doubt,          \* per mutation: its COMMIT was sent and not yet decided
    fence,          \* the resume's fence
    discoveryFence, \* the discovery fence
    reader,         \* per slot: the public response in it
    phase,          \* per mutation: where its request has got to
    request,        \* per mutation: the key and the If-Match revision
    plan,           \* per mutation: what its transition expects and does
    reply,          \* per mutation: how the slot's last request was answered
    ackedFloor,     \* history: revisions below it were withdrawn, with success reported
    crashes,        \* how often the process has crashed
    others,         \* how often another account has changed discovery
    late            \* history: a lost COMMIT took effect after its request was given up

database == <<revision, live, discovery, records>>
coordinator == <<fence, discoveryFence>>
environment == <<crashes, others, late>>
history == <<ackedFloor, environment>>
slot == <<request, plan, reply, ackedFloor>>
vars == <<database, userLock, doubt, coordinator, reader,
          phase, request, plan, reply, history>>

MaxDiscovery == MaxRevision + 1 + MaxTurns
Absent == [state |-> "absent", gen |-> 0, owner |-> Nobody]
OpenAt(g) == [state |-> "open", gen |-> g, owner |-> Nobody]
Requests == [key : Keys, base : 1..MaxRevision]
NoRequest == [key |-> CHOOSE k \in Keys : TRUE, base |-> 1]
NoPlan == [revoking |-> FALSE, global |-> FALSE, discovery |-> 0, retried |-> FALSE]

FenceRecord(maxGen) == [state : {"absent", "open", "shut", "retired"}, gen : 0..maxGen,
                        owner : Mutations \cup {Nobody}]
Waiting == {"inspect", "preflight", "stale", "planning", "planned", "claiming",
            "mismatched", "overtaken"}
Owning == {"begun", "fresh", "draining", "closed", "locked", "committing",
           "committed", "unknown", "provenCommitted", "provenNot"}
Phases == {"idle", "unresolved"} \cup Waiting \cup Owning
Results == {"none", "done", "replayed", "stale", "reuse", "failed"}

TypeOK ==
    /\ revision \in 0..(MaxRevision + 1)
    /\ live \in BOOLEAN
    /\ discovery \in 1..MaxDiscovery
    /\ records \in [Keys -> 0..MaxRevision]
    /\ userLock \in Mutations \cup {Nobody}
    /\ doubt \in [Mutations -> BOOLEAN]
    /\ fence \in FenceRecord(MaxRevision + 1)
    /\ discoveryFence \in FenceRecord(MaxDiscovery)
    /\ reader \in [Readers -> [phase : {"idle", "read", "sending"}, revision : 0..(MaxRevision + 1)]]
    /\ phase \in [Mutations -> Phases]
    /\ request \in [Mutations -> Requests]
    /\ plan \in [Mutations -> [revoking : BOOLEAN, global : BOOLEAN,
                               discovery : 0..MaxDiscovery, retried : BOOLEAN]]
    /\ reply \in [Mutations -> Results]
    /\ ackedFloor \in Nat
    /\ crashes \in Nat /\ others \in Nat /\ crashes + others <= MaxTurns
    /\ late \in BOOLEAN

\* A live resume at revision 1, in a process that just started.
Init ==
    /\ revision = 1
    /\ live = TRUE
    /\ discovery = 1
    /\ records = [k \in Keys |-> 0]
    /\ userLock = Nobody
    /\ doubt = [m \in Mutations |-> FALSE]
    /\ fence = Absent
    /\ discoveryFence = OpenAt(1)
    /\ reader = [r \in Readers |-> [phase |-> "idle", revision |-> 0]]
    /\ phase = [m \in Mutations |-> "idle"]
    /\ request = [m \in Mutations |-> NoRequest]
    /\ plan = [m \in Mutations |-> NoPlan]
    /\ reply = [m \in Mutations |-> "none"]
    /\ ackedFloor = 0
    /\ crashes = 0
    /\ others = 0
    /\ late = FALSE

-----------------------------------------------------------------------------
(* Helpers.                                                                *)

Key(m) == request[m].key
Base(m) == request[m].base
Kind(m) == KindOf[Key(m)]

\* Wrong variant: an unpublish does not revoke.
OnlyDeleteRevokes(kind) == kind = "delete"

\* The transition classes of the operations: a delete, or an unpublish of a
\* live resume, revokes; those and a publish also change discovery.
Revokes(kind) == kind = "delete" \/ (kind = "unpublish" /\ live)
ChangesDiscovery(kind) == Revokes(kind) \/ (kind = "publish" /\ ~live)

\* The decision on a stored record: replay it, refuse a reused key, or go on.
Decision(m) ==
    IF records[Key(m)] = 0 THEN "fresh"
    ELSE IF records[Key(m)] = Base(m) THEN "replay" ELSE "reuse"

Goto(m, p) == phase' = [phase EXCEPT ![m] = p]

\* The request is answered and the slot is free.  What a COMMIT in doubt still
\* needs is kept, and what was asked if the answer says something of it.
Answer(m, result) ==
    /\ phase' = [phase EXCEPT ![m] = "idle"]
    /\ reply' = [reply EXCEPT ![m] = result]
    /\ plan' = IF doubt[m] THEN plan ELSE [plan EXCEPT ![m] = NoPlan]
    /\ request' = IF doubt[m] \/ result \in {"done", "replayed", "stale"} THEN request
                  ELSE [request EXCEPT ![m] = NoRequest]
    /\ ackedFloor' = IF result \in {"done", "replayed"} /\ Kind(m) \in {"unpublish", "delete"}
                        /\ Base(m) >= ackedFloor
                       THEN Base(m) + 1 ELSE ackedFloor

Owned(m, f) == f.owner = m
Release(f, m) == IF Owned(m, f) THEN [f EXCEPT !.owner = Nobody] ELSE f

\* Rollback: what m owns opens again at the generation it was closed at.
ReleaseUnchanged(m) ==
    /\ fence' = IF Owned(m, fence) THEN OpenAt(Base(m)) ELSE fence
    /\ discoveryFence' = IF Owned(m, discoveryFence) THEN OpenAt(plan[m].discovery)
                                                    ELSE discoveryFence

\* Commit: what m owns opens at the committed generations, or retires.
OpenCommitted(m) ==
    /\ fence' = IF Kind(m) = "delete"
                  THEN [fence EXCEPT !.state = "retired", !.owner = Nobody]
                  ELSE OpenAt(Base(m) + 1)
    /\ discoveryFence' = IF plan[m].global THEN OpenAt(plan[m].discovery + 1)
                                          ELSE discoveryFence

\* Wrong variant: the mutation commits without its idempotency record.
WritesWithoutRecord(m) ==
    /\ revision' = revision + 1
    /\ userLock' = Nobody
    /\ UNCHANGED <<live, discovery, records>>

\* The writes of the mutation transaction, at its commit.
ApplyWrites(m) ==
    /\ revision' = IF Kind(m) = "delete" THEN 0 ELSE revision + 1
    /\ live' = CASE Kind(m) = "publish" -> TRUE
                 [] Kind(m) \in {"unpublish", "delete"} -> FALSE
                 [] OTHER -> live
    /\ discovery' = IF plan[m].global THEN discovery + 1 ELSE discovery
    /\ records' = [records EXCEPT ![Key(m)] = Base(m)]
    /\ userLock' = Nobody

-----------------------------------------------------------------------------
(* Before the transition: executeMutation and the preflight of             *)
(* executeTransition.  These reads take no lock.                           *)

\* A request arrives.  Its If-Match is a revision some response has shown.
Start(m, req) ==
    /\ revision # 0 => req.base <= revision
    /\ phase[m] = "idle"
    /\ ~doubt[m]
    /\ request' = [request EXCEPT ![m] = req]
    /\ reply' = [reply EXCEPT ![m] = "none"]
    /\ plan' = [plan EXCEPT ![m] = NoPlan]
    /\ Goto(m, "inspect")
    /\ UNCHANGED <<database, userLock, doubt, coordinator, reader, history>>

\* Is there a stored response under its key?
Inspect(m) ==
    /\ phase[m] = "inspect"
    /\ \/ Decision(m) = "fresh" /\ Goto(m, "preflight") /\ UNCHANGED slot
       \/ Decision(m) = "replay" /\ Answer(m, "replayed")
       \/ Decision(m) = "reuse" /\ Answer(m, "reuse")
    /\ UNCHANGED <<database, userLock, doubt, coordinator, reader, environment>>

\* The row is read; the transition is planned from it unless the client's
\* revision is not the row's.
Preflight(m) ==
    /\ phase[m] = "preflight"
    /\ IF revision # Base(m)
          THEN Goto(m, "stale") /\ UNCHANGED plan
          ELSE /\ plan' = [plan EXCEPT ![m].revoking = Revokes(Kind(m)),
                                      ![m].global = ChangesDiscovery(Kind(m))]
               /\ Goto(m, IF ChangesDiscovery(Kind(m)) THEN "planning" ELSE "planned")
    /\ UNCHANGED <<database, userLock, doubt, coordinator, reader, request, reply, history>>

\* Wrong variant: a stale revision is an error at once.
StaleAtOnce(m) ==
    /\ phase[m] = "stale"
    /\ Answer(m, "stale")
    /\ UNCHANGED <<database, userLock, doubt, coordinator, reader, environment>>

\* Recheck reads the record under the user lock: it waits for a transaction
\* that holds it, in doubt or not.
RecheckStale(m) ==
    /\ phase[m] = "stale"
    /\ userLock = Nobody
    /\ Answer(m, CASE Decision(m) = "replay" -> "replayed"
                   [] Decision(m) = "reuse" -> "reuse"
                   [] OTHER -> "stale")
    /\ UNCHANGED <<database, userLock, doubt, coordinator, reader, environment>>

ReadDiscovery(m) ==
    /\ phase[m] = "planning"
    /\ plan' = [plan EXCEPT ![m].discovery = discovery]
    /\ Goto(m, "planned")
    /\ UNCHANGED <<database, userLock, doubt, coordinator, reader, request, reply, history>>

-----------------------------------------------------------------------------
(* The transition: Begin, the recheck as owner, Close.                     *)

DiscoveryClaimable(m) ==
    plan[m].global => discoveryFence.owner = Nobody /\ discoveryFence.gen = plan[m].discovery
FenceClaimable(m) ==
    fence.owner = Nobody /\ fence.state = "open" /\ fence.gen = Base(m)

\* Begin creates a missing fence at the planned revision, then waits to claim.
Begin(m) ==
    /\ phase[m] = "planned"
    /\ fence' = IF fence.state = "absent" THEN OpenAt(Base(m)) ELSE fence
    /\ Goto(m, "claiming")
    /\ UNCHANGED <<database, userLock, doubt, discoveryFence, reader,
                   request, plan, reply, history>>

Claim(m) ==
    /\ phase[m] = "claiming"
    /\ DiscoveryClaimable(m)
    /\ FenceClaimable(m)
    /\ fence' = [fence EXCEPT !.owner = m]
    /\ discoveryFence' = IF plan[m].global THEN [discoveryFence EXCEPT !.owner = m]
                                          ELSE discoveryFence
    /\ Goto(m, "begun")
    /\ UNCHANGED <<database, userLock, doubt, reader, request, plan, reply, history>>

\* A fence that nobody owns refuses: it moved to another generation, or it
\* is retired, which is an error at once.
RefuseClaim(m) ==
    LET discoveryMoved == /\ plan[m].global
                          /\ discoveryFence.owner = Nobody
                          /\ discoveryFence.gen # plan[m].discovery
        free == fence.owner = Nobody /\ DiscoveryClaimable(m)
    IN
    /\ phase[m] = "claiming"
    /\ \/ /\ discoveryMoved \/ (free /\ fence.state = "open" /\ fence.gen # Base(m))
          /\ Goto(m, "mismatched")
          /\ UNCHANGED slot
       \/ free /\ fence.state = "retired" /\ Answer(m, "failed")
    /\ UNCHANGED <<database, userLock, doubt, coordinator, reader, environment>>

\* A generation mismatch: replay if the key has committed meanwhile.
RecheckMismatch(m) ==
    /\ phase[m] = "mismatched"
    /\ userLock = Nobody
    /\ IF Decision(m) = "fresh" /\ ~plan[m].retried
          THEN Goto(m, "overtaken") /\ UNCHANGED slot
          ELSE Answer(m, CASE Decision(m) = "replay" -> "replayed"
                           [] Decision(m) = "reuse" -> "reuse"
                           [] OTHER -> "failed")
    /\ UNCHANGED <<database, userLock, doubt, coordinator, reader, environment>>

\* Otherwise the row, read once more and without a lock, tells a lost race
\* from an unrelated change of discovery, for which the plan is refreshed and
\* run a second time.
RefreshPlan(m) ==
    /\ phase[m] = "overtaken"
    /\ IF revision = Base(m) /\ plan[m].global
          THEN /\ plan' = [plan EXCEPT ![m].retried = TRUE]
               /\ Goto(m, "planning")
               /\ UNCHANGED <<request, reply, ackedFloor>>
          ELSE Answer(m, "stale")
    /\ UNCHANGED <<database, userLock, doubt, coordinator, reader, environment>>

\* A read fails, or the client goes away, before Close: what was claimed is
\* released.
Fails(m) ==
    /\ phase[m] \in Waiting \cup {"begun", "fresh"}
    /\ fence' = Release(fence, m)
    /\ discoveryFence' = Release(discoveryFence, m)
    /\ Answer(m, "failed")
    /\ UNCHANGED <<database, userLock, doubt, reader, environment>>

\* Wrong variant: the owner relies on what it saw before it claimed.
BegunWithoutRecheck(m) ==
    /\ phase[m] = "begun"
    /\ Goto(m, "fresh")
    /\ UNCHANGED <<database, userLock, doubt, coordinator, reader, request, plan, reply, history>>

\* The owner rechecks its key before it closes anything.
RecheckBegun(m) ==
    /\ phase[m] = "begun"
    /\ userLock = Nobody
    /\ IF Decision(m) = "fresh"
          THEN Goto(m, "fresh") /\ UNCHANGED <<coordinator, slot>>
          ELSE /\ fence' = Release(fence, m)
               /\ discoveryFence' = Release(discoveryFence, m)
               /\ Answer(m, IF Decision(m) = "replay" THEN "replayed" ELSE "reuse")
    /\ UNCHANGED <<database, userLock, doubt, reader, environment>>

\* Wrong variant: admission goes on during the drain.
DrainWithoutShutting(m) ==
    /\ phase[m] = "fresh"
    /\ Goto(m, "draining")
    /\ UNCHANGED <<database, userLock, doubt, coordinator, reader, request, plan, reply, history>>

\* Close stops admission and cancels the responses of a revoking plan.
Shut(m) ==
    /\ phase[m] = "fresh"
    /\ fence' = [fence EXCEPT !.state = "shut"]
    /\ discoveryFence' = IF plan[m].global THEN [discoveryFence EXCEPT !.state = "shut"]
                                          ELSE discoveryFence
    /\ Goto(m, "draining")
    /\ UNCHANGED <<database, userLock, doubt, reader, request, plan, reply, history>>

Drained(m) ==
    /\ phase[m] = "draining"
    /\ plan[m].revoking => \A r \in Readers : reader[r].phase # "sending"
    /\ Goto(m, "closed")
    /\ UNCHANGED <<database, userLock, doubt, coordinator, reader, request, plan, reply, history>>

\* Five seconds pass, or the client goes away, before the drain ends.
DrainTimeout(m) ==
    /\ phase[m] = "draining"
    /\ plan[m].revoking
    /\ ReleaseUnchanged(m)
    /\ Answer(m, "failed")
    /\ UNCHANGED <<database, userLock, doubt, reader, environment>>

-----------------------------------------------------------------------------
(* Execute: the mutation transaction and the outcome of its COMMIT.        *)

LockUser(m) ==
    /\ phase[m] = "closed"
    /\ userLock = Nobody
    /\ userLock' = m
    /\ Goto(m, "locked")
    /\ UNCHANGED <<database, doubt, coordinator, reader, request, plan, reply, history>>

\* The final decision, under the lock.  The writes go ahead only for a fresh
\* key, at the planned revision and discovery generation.
MayWrite(m) ==
    /\ Decision(m) = "fresh"
    /\ revision = Base(m)
    /\ plan[m].global => discovery = plan[m].discovery

Write(m) ==
    /\ phase[m] = "locked"
    /\ MayWrite(m)
    /\ Goto(m, "committing")
    /\ UNCHANGED <<database, userLock, doubt, coordinator, reader, request, plan, reply, history>>

Unlock(m) == userLock' = IF userLock = m THEN Nobody ELSE userLock

\* The row or the discovery generation is not the planned one: another
\* discovery generation is worth a second attempt.
PlanOvertaken(m) ==
    LET discoveryMoved == plan[m].global /\ discovery # plan[m].discovery IN
    /\ phase[m] = "locked"
    /\ Decision(m) = "fresh"
    /\ ~MayWrite(m)
    /\ Unlock(m)
    /\ ReleaseUnchanged(m)
    /\ IF discoveryMoved /\ ~plan[m].retried
          THEN Goto(m, "overtaken") /\ UNCHANGED slot
          ELSE Answer(m, IF discoveryMoved THEN "failed" ELSE "stale")
    /\ UNCHANGED <<database, doubt, reader, environment>>

\* The transaction is rolled back for certain: it did not begin, a statement
\* failed, or the server rejected the COMMIT.
TransactionFails(m) ==
    /\ phase[m] \in {"closed", "locked", "committing"}
    /\ Unlock(m)
    /\ ReleaseUnchanged(m)
    /\ Answer(m, "failed")
    /\ UNCHANGED <<database, doubt, reader, environment>>

CommitSucceeds(m) ==
    /\ phase[m] = "committing"
    /\ ApplyWrites(m)
    /\ Goto(m, "committed")
    /\ UNCHANGED <<doubt, coordinator, reader, request, plan, reply, history>>

\* The connection is lost with the COMMIT in flight.
CommitLost(m) ==
    /\ phase[m] = "committing"
    /\ Goto(m, "unknown")
    /\ doubt' = [doubt EXCEPT ![m] = TRUE]
    /\ UNCHANGED <<database, userLock, coordinator, reader, request, plan, reply, history>>

\* The database decides a COMMIT in doubt: while its request still holds the
\* fences, or after recovery gave them up or the process died.
LateCommit(m) ==
    /\ doubt[m]
    /\ ApplyWrites(m)
    /\ doubt' = [doubt EXCEPT ![m] = FALSE]
    /\ late' = (late \/ phase[m] = "idle")
    /\ UNCHANGED <<coordinator, reader, phase, request, plan, reply, ackedFloor, crashes, others>>

LateAbort(m) ==
    /\ doubt[m]
    /\ userLock' = Nobody
    /\ doubt' = [doubt EXCEPT ![m] = FALSE]
    /\ UNCHANGED <<database, coordinator, reader, phase, request, plan, reply, history>>

-----------------------------------------------------------------------------
(* The transition ends: Commit, or Recover by mutationRecovery.Resolve.    *)

Committed(m) ==
    /\ phase[m] = "committed"
    /\ OpenCommitted(m)
    /\ Answer(m, "done")
    /\ UNCHANGED <<database, userLock, doubt, reader, environment>>

\* Resolve reads the record first, without the user lock.
ReadRecord(m) ==
    /\ phase[m] = "unknown"
    /\ Decision(m) # "reuse"
    /\ Goto(m, IF Decision(m) = "replay" THEN "provenCommitted" ELSE "provenNot")
    /\ UNCHANGED <<database, userLock, doubt, coordinator, reader, request, plan, reply, history>>

CommittedProof(m) ==
    /\ revision = IF Kind(m) = "delete" THEN 0 ELSE Base(m) + 1
    /\ plan[m].global => discovery = plan[m].discovery + 1

NotCommittedProof(m) ==
    /\ revision = Base(m)
    /\ plan[m].global => discovery = plan[m].discovery

\* Then it compares the row and the discovery generation with the plan.
RecoverCommitted(m) ==
    /\ phase[m] = "provenCommitted"
    /\ CommittedProof(m)
    /\ OpenCommitted(m)
    /\ Answer(m, "replayed")
    /\ UNCHANGED <<database, userLock, doubt, reader, environment>>

RecoverNotCommitted(m) ==
    /\ phase[m] = "provenNot"
    /\ NotCommittedProof(m)
    /\ ReleaseUnchanged(m)
    /\ Answer(m, "failed")
    /\ UNCHANGED <<database, userLock, doubt, reader, environment>>

\* A read fails or a proof does not hold: the fences stay closed and owned.
Unresolved(m) ==
    /\ phase[m] \in {"unknown", "provenCommitted", "provenNot"}
    /\ Goto(m, "unresolved")
    /\ reply' = [reply EXCEPT ![m] = "failed"]
    /\ UNCHANGED <<database, userLock, doubt, coordinator, reader, request, plan, history>>

-----------------------------------------------------------------------------
(* Readers: publicresume.Reader.ReadResume.                                *)

ReadRow(r) ==
    /\ reader[r].phase = "idle"
    /\ live
    /\ reader' = [reader EXCEPT ![r] = [phase |-> "read", revision |-> revision]]
    /\ UNCHANGED <<database, userLock, doubt, coordinator, phase, request, plan, reply, history>>

\* AcquireResume for the revision read; a missing fence is created at it.
Admit(r) ==
    /\ reader[r].phase = "read"
    /\ \/ fence.state = "absent" /\ fence' = OpenAt(reader[r].revision)
       \/ fence.state = "open" /\ fence.gen = reader[r].revision /\ UNCHANGED fence
    /\ reader' = [reader EXCEPT ![r].phase = "sending"]
    /\ UNCHANGED <<database, userLock, doubt, discoveryFence, phase, request, plan, reply, history>>

\* The response ends, or was refused (a retry after a mismatch reads again).
EndResponse(r) ==
    /\ reader[r].phase # "idle"
    /\ reader' = [reader EXCEPT ![r] = [phase |-> "idle", revision |-> 0]]
    /\ UNCHANGED <<database, userLock, doubt, coordinator, phase, request, plan, reply, history>>

-----------------------------------------------------------------------------
\* The process dies and a new one starts: fences, leases and requests are
\* gone, open transactions roll back, and the discovery fence opens at the
\* durable generation.  A crash with a COMMIT in flight is CommitLost first.
Crash ==
    /\ crashes + others < MaxTurns
    /\ \A m \in Mutations : phase[m] # "committing"
    /\ crashes' = crashes + 1
    /\ userLock' = IF userLock # Nobody /\ ~doubt[userLock] THEN Nobody ELSE userLock
    /\ fence' = Absent
    /\ discoveryFence' = OpenAt(discovery)
    /\ reader' = [r \in Readers |-> [phase |-> "idle", revision |-> 0]]
    /\ phase' = [m \in Mutations |-> "idle"]
    /\ UNCHANGED <<database, doubt, request, plan, reply, ackedFloor, others, late>>

\* Another account publishes or withdraws a resume of its own: a transition
\* like these, of which only the change of discovery matters here.
OtherAccount ==
    /\ crashes + others < MaxTurns
    /\ discoveryFence.owner = Nobody
    /\ discoveryFence.state = "open"
    /\ others' = others + 1
    /\ discovery' = discovery + 1
    /\ discoveryFence' = OpenAt(discovery + 1)
    /\ UNCHANGED <<revision, live, records, userLock, doubt, fence, reader,
                   phase, request, plan, reply, ackedFloor, crashes, late>>

Next ==
    \/ \E m \in Mutations :
        \/ \E req \in Requests : Start(m, req)
        \/ Inspect(m) \/ Preflight(m) \/ RecheckStale(m) \/ ReadDiscovery(m)
        \/ Begin(m) \/ Claim(m) \/ RefuseClaim(m) \/ RecheckMismatch(m) \/ RefreshPlan(m) \/ Fails(m)
        \/ RecheckBegun(m) \/ Shut(m) \/ Drained(m) \/ DrainTimeout(m)
        \/ LockUser(m) \/ Write(m) \/ PlanOvertaken(m) \/ TransactionFails(m)
        \/ CommitSucceeds(m) \/ CommitLost(m) \/ LateCommit(m) \/ LateAbort(m)
        \/ Committed(m) \/ ReadRecord(m) \/ RecoverCommitted(m)
        \/ RecoverNotCommitted(m) \/ Unresolved(m)
    \/ \E r \in Readers : ReadRow(r) \/ Admit(r) \/ EndResponse(r)
    \/ Crash
    \/ OtherAccount

Spec == Init /\ [][Next]_vars

-----------------------------------------------------------------------------
(* Properties.                                                             *)

\* A fence that nobody owns admits exactly the durable generation, so the
\* public page is served whenever no mutation is under way, and only in its
\* current form (ADR 0010: recovery "opens only the matching generation").
OpenAtDurableGeneration ==
    /\ fence.state = "open" /\ fence.owner = Nobody => fence.gen = revision
    /\ discoveryFence.state = "open" /\ discoveryFence.owner = Nobody =>
            discoveryFence.gen = discovery

\* It does, whatever is lost, repeated or crashes, until a lost COMMIT takes
\* effect after mutationRecovery.Resolve has proved that it did not.
OpenUnlessCommitIsLate == late \/ OpenAtDurableGeneration

\* Once an unpublish or a delete was reported as done, to the first request or
\* to a repeated one, no response of the withdrawn revision is being sent
\* (ADR 0010, runMutation).
AcknowledgedRevocation ==
    late \/ \A r \in Readers : reader[r].phase = "sending" => reader[r].revision >= ackedFloor

\* Success is only reported for a request that is durable under its key.
SuccessIsDurable ==
    \A m \in Mutations :
        phase[m] = "idle" /\ reply[m] \in {"done", "replayed"} => records[Key(m)] = Base(m)

\* A stale-revision error is only reported for a request that never took
\* effect, since one that did, under the same key, is replayed (AC-SAVE-002):
\* the rechecks of executeTransition and runMutation catch every such request,
\* as long as no other account changes discovery meanwhile.  When one does, the
\* retry after a mismatch reads the row without a recheck of the key.
StaleMeansNotAppliedAlone ==
    others = 0 /\ ~late =>
        \A m \in Mutations :
            phase[m] = "idle" /\ reply[m] = "stale" => records[Key(m)] # Base(m)

\* A transition is closed only for a fresh key: the recheck by its owner takes
\* the user lock, so it waits for a COMMIT in doubt and is final, and the replay
\* branch after Close (runMutation's ReplayState) is never needed.
ClosedOnlyWhenFresh ==
    \A m \in Mutations :
        phase[m] \in {"fresh", "draining", "closed", "locked", "committing"} =>
            Decision(m) = "fresh"

\* The row moves to another revision only behind its own shut fence, which
\* still has the revision it leaves: no reader can be admitted in between, and
\* no write slips in under another request's transition.
WritesOnlyBehindTheFence ==
    [][revision' # revision /\ ~late' =>
        fence.owner # Nobody /\ fence.state = "shut" /\ fence.gen = revision]_vars

-----------------------------------------------------------------------------
(* What clients see: PublicMutation implements UpdateContract.             *)

\* A request is handled until its slot is free, and abandoned while only the
\* database has still to decide its COMMIT.
Handling == [m \in Mutations |-> IF phase[m] # "idle" THEN "handled"
                                 ELSE IF doubt[m] THEN "abandoned" ELSE "none"]
Contract == INSTANCE UpdateContract WITH
    Clients <- Mutations, stored <- records, handling <- Handling, asked <- request,
    answer <- reply

\* Each mutation takes effect at most once, at the revision the client named,
\* and what the client is told of it is true: success means that it is durable
\* under its key, stale that the row has moved on, and after either, or after a
\* reused key, nothing more happens; whatever is lost, repeated or crashes.
ImplementsContract == Contract!ContractSpec

-----------------------------------------------------------------------------
(* The inductive invariant: TypeOK and the parts below.  The last three    *)
(* hold until a COMMIT takes effect late.                                  *)

Opening == {"begun", "fresh"}
Settling == (Owning \ {"begun"}) \cup {"unresolved"}
Drain == Settling \ {"fresh", "draining"}
Planned == Phases \ {"idle", "inspect", "preflight", "stale"}
Withdraws(kind) == kind \in {"unpublish", "delete"}

DiscoveryBound ==
    discovery <= others + (IF revision = 0 THEN MaxRevision + 1 ELSE revision)

Holds(m) == phase[m] \in Owning \cup {"unresolved"}

\* Who holds which fence, and how far its owner has got with it.
Ownership ==
    /\ fence.owner = Nobody => fence.state # "shut"
    /\ discoveryFence.owner = Nobody => discoveryFence.state = "open"
    /\ \A m \in Mutations :
        /\ fence.owner = m <=> Holds(m)
        /\ discoveryFence.owner = m <=> Holds(m) /\ plan[m].global
        /\ Holds(m) =>
            LET state == IF phase[m] \in Opening THEN "open" ELSE "shut" IN
            /\ fence.state = state /\ fence.gen = Base(m)
            /\ plan[m].global =>
                discoveryFence.state = state /\ discoveryFence.gen = plan[m].discovery

\* A COMMIT in doubt holds the user lock, so nobody gets past the recheck, and
\* nothing it depends on changes until it is decided.
Doubts ==
    \A m \in Mutations :
        /\ phase[m] \in {"locked", "committing"} => userLock = m
        /\ doubt[m] =>
            /\ userLock = m
            /\ phase[m] \in {"idle", "unknown", "provenNot", "unresolved"}
            /\ records[Key(m)] = 0
            /\ revision = Base(m)
            /\ \A n \in Mutations \ {m} : phase[n] \notin Settling

\* What is stored under a key from the recheck to the answer.
Keyed ==
    \A m \in Mutations :
        /\ phase[m] # "idle" => reply[m] = IF phase[m] = "unresolved" THEN "failed" ELSE "none"
        /\ phase[m] \in {"fresh", "draining", "closed", "locked", "committing"} =>
            records[Key(m)] = 0
        /\ phase[m] = "committing" =>
            revision = Base(m) /\ (plan[m].global => discovery = plan[m].discovery)
        /\ phase[m] = "committed" /\ plan[m].global => discovery = plan[m].discovery + 1
        /\ phase[m] \in {"committed", "provenCommitted"} => records[Key(m)] = Base(m)
        /\ phase[m] = "idle" /\ reply[m] \in {"done", "replayed"} => records[Key(m)] = Base(m)

\* Withdrawals that were acknowledged are recorded.
Acknowledged ==
    ackedFloor = 0 \/ \E k \in Keys : /\ Withdraws(KindOf[k]) /\ records[k] # 0
                                      /\ ackedFloor <= records[k] + 1

\* Revisions only grow, and a plan fits the row for as long as it is not overtaken.
Plans ==
    /\ live => revision # 0
    /\ \A m \in Mutations :
        /\ revision # 0 => Base(m) <= revision
        /\ phase[m] = "stale" => revision # Base(m)
        /\ (phase[m] \in Planned \/ doubt[m]) /\ revision = Base(m) =>
            /\ plan[m].revoking = Revokes(Kind(m))
            /\ plan[m].global = ChangesDiscovery(Kind(m))

\* What readers hold, and that a drain leaves none of them sending.
Reading ==
    /\ \A r \in Readers : reader[r].phase = "read" =>
        /\ reader[r].revision # 0
        /\ revision # 0 => reader[r].revision <= revision
        /\ reader[r].revision = revision => live
    /\ \A m \in Mutations : phase[m] \in Drain /\ plan[m].revoking =>
        \A r \in Readers : reader[r].phase # "sending"

\* Row and discovery are where the fences are.
InStep ==
    /\ OpenAtDurableGeneration
    /\ \A m \in Mutations :
        /\ phase[m] \in {"begun", "fresh", "draining", "closed", "locked"} =>
            revision = Base(m) /\ (plan[m].global => discovery = plan[m].discovery)
        /\ phase[m] = "committed" =>
            revision = IF Kind(m) = "delete" THEN 0 ELSE Base(m) + 1
        /\ fence.state = "absent" /\ phase[m] \in {"planning", "planned"} => revision = Base(m)
        /\ phase[m] \in {"mismatched", "overtaken"} /\ ~plan[m].global => revision # Base(m)
    /\ \A r \in Readers :
        fence.state = "absent" /\ reader[r].phase = "read" => reader[r].revision = revision

\* Nothing is sent of a page that is not live, or that was withdrawn.
Withdrawals ==
    /\ live \/ \A r \in Readers : reader[r].phase # "sending"
    /\ \A k \in Keys : Withdraws(KindOf[k]) /\ records[k] # 0 =>
        /\ revision = 0 \/ records[k] < revision
        /\ \A r \in Readers : reader[r].phase = "sending" => records[k] < reader[r].revision

\* Without other accounts a request that is refused was overtaken by the row.
OvertakenByRow ==
    \A m \in Mutations :
        /\ phase[m] \in {"planned", "claiming"} /\ plan[m].global /\ revision = Base(m) =>
            plan[m].discovery = discovery
        /\ phase[m] \in {"mismatched", "overtaken"} => revision # Base(m)
        /\ phase[m] = "overtaken" \/ (phase[m] = "idle" /\ reply[m] = "stale") =>
            revision # Base(m) /\ records[Key(m)] # Base(m)

IInv ==
    /\ TypeOK /\ DiscoveryBound /\ Ownership /\ Doubts /\ Keyed /\ Acknowledged
    /\ Plans /\ Reading
    /\ ~late => InStep /\ Withdrawals
    /\ ~late /\ others = 0 => OvertakenByRow
=============================================================================

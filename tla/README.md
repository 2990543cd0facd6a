# Formal models of aboutme

TLA+ models of the Go server of aboutme (`src/apps/server`), a resume builder
whose published resumes are public pages. The models follow the source: each
action is one critical section, transaction or handler step of the code, and
`PROJECT.json` (`map`) names the lines every definition stands for. TLC checks
the models on small instances; TLAPS proves, for every value of their constants,
the safety of the coordinator, of the mutations of a public resume, of the mail
workers, of the render queue, of the sessions, of the OAuth tokens, of the photo
clean-up, of the realtime streams and of the preview cards, and that the
coordinator and the mutations implement what they promise.

## 1. The system

One Go process per environment, PostgreSQL, a Nuxt server and the browser.
State that several requests share lives either in PostgreSQL rows (guarded by
row locks and compare-and-set updates) or in structures of the one process
(guarded by mutexes). What makes the system hard is where the two meet.

| Component | State | Operations | Interacts with | Hard behaviour | What makes it correct |
| --- | --- | --- | --- | --- | --- |
| Public-state coordinator (`internal/publicstate`) | a fence per public resume and one for discovery: open generation, owner, leases | AcquireResume, AcquireDiscovery, Release; Begin, Close, Commit, Rollback, Recover; Ready | readers hold leases; mutations own fences | several owners, drains with a deadline, cancellation at any point | nothing older than a committed revocation is ever sent; no fence is left shut or owned; no deadlock |
| Mutation runner (`internal/resumeapi`) | none of its own: phases of one request | executeMutation, executeTransition, runMutation, mutationRecovery.Resolve | coordinator, idempotency records, resume rows | unlocked reads before the lock, repeated keys, lost COMMIT, crash | fences open at the durable generation; replies are true |
| Idempotency records (`internal/resume`) | a row per key, usage counters | Inspect, Recheck, Execute | user row lock | two requests with one key; commit of unknown outcome | a key takes effect once, later requests replay it |
| Public reader (`internal/publicresume`) | a lease while a response is sent | ReadResume | coordinator, resume rows | the row is read before admission | no withdrawn revision after an acknowledged withdrawal |
| Mail worker (`internal/authmail`) | job rows with a lease, an attempt count and an expiry | Enqueue, claim, send, settle, requeue | token rows, SMTP | lease expiry against a slow send, crash after the send | a job ends; a replaced token is not sent; at-least-once |
| Render queue (`internal/renderjob`) | attempts, jobs with one-use print capabilities, one render permit | Render, Redeem, Close, Ready | browser renderer and its print page, the coordinator's generations | callbacks of contexts and timers against every step, expiry against redeem, shutdown | the permit is never lost; a canceled attempt leaves no authority and publishes nothing; every call returns |
| Sessions (`internal/auth`) | session rows with lineage and epoch | Resolve with rotation, logout, revoke, revoke all, epoch change | user row | two requests rotate at once; a rotation races a revocation | a revoked device has no live credential |
| OAuth server (`internal/oauthsrv`) | codes, grants, refresh families | code exchange, refresh, revoke | users, clients | replayed code or refresh token, lost response | one code, one family; reuse revokes it |
| Account deletion (`internal/accountapi`) | one transition over all resumes of an account | delete | coordinator, every table of the account | stale plan, commit of unknown outcome | all fences retire together |
| Media cleanup (`internal/mediacleanup`) | deletion rows with leases | claim, check references, delete, settle, reconcile | object store | reference check and object delete are two steps | no referenced object is deleted |
| Preview cards (`internal/previewcard`) | timers, a bounded queue, joined flights | Notify, fire, check, render, save, sweep | realtime hub | lost notifications, a full queue, a timer racing a new edit | a stored card becomes current |
| Realtime (`internal/realtime`) | subscriptions with bounded queues | Subscribe, Publish, SetAvailable, listen with backoff | PostgreSQL LISTEN | a slow subscriber, reconnects | a subscriber misses nothing without being told |
| View counting (`internal/viewcount`) | day buffer, seen networks, single-use tokens | judge, count, flush, rotate | PostgreSQL | gate read between two critical sections, flush failure | a network counts once a day |
| Second factor (`internal/secondfactor`) | credential rows, failure budget | verify, enroll, recover, reset | sessions | replay of a code, races on the budget | a code works once |
| Web editor (`apps/web/app/editor`) | a mutation queue per resume | edit, dispatch, settle, retry | resume API | unknown outcome of a request | an edit is applied once and in order |

`PROJECT.json` (`components`) lists every part, the unmodelled ones with the
reason, and `hazards` lists what in this code is hard to test, by line.

## 2. Modules

```
PublicAdmission            what the coordinator promises
   ^ INSTANCE (refinement)
PublicState                the coordinator, one action per critical section
   ^ EXTENDS                        ^ EXTENDS
PublicState_proofs         MCPublicState

UpdateContract             what a client of the resume API may rely on
   ^ INSTANCE (refinement)
PublicMutation             a mutation end to end over an atomic coordinator
   ^ EXTENDS                        ^ EXTENDS
PublicMutation_proofs      MCPublicMutation

Sessions       Sessions_proofs       MCSessions       rotation, revocation, epochs
AuthMail       AuthMail_proofs       MCAuthMail       the mail outbox
RenderQueue    RenderQueue_proofs    MCRenderQueue    renders and the print page
OAuth          OAuth_proofs          MCOAuth          codes, grants and tokens
Media          Media_proofs          MCMedia          photos and their clean-up
(the proofs and the MC module EXTEND the first module of their row)

Realtime                   changes, the listener, the hub and its streams
   ^ EXTENDS
PreviewCards               the stored link-preview card
   ^ EXTENDS                        ^ EXTENDS
PreviewCards_proofs        MCPreviewCards
```

### PublicState

Fence 0 is discovery and 1..NumResumes are resumes, so the claim order of
`Coordinator.Begin` is the order of the integers. A fence is its `fenceState`,
`generation`, `owner` and `unresolved`, as in `fence.go`; a lease is a slot with
a fence, a generation, `sealed` (its lease set was sealed by a close that
drains) and `canceled`; a transition is its `phase` and what `Transition` and
the frames of `Begin` and `Close` keep: `targets`, `revoking`, `expected`,
`claimed`, `todo` (the targets the running loop has left) and `outcome`.
`floor` is history: the generation below which nothing may be sent.

Every fence method is one step because it holds the fence's mutex; a loop over
the targets is one step per target, so readers run between two of them. Begin
creates missing fences in one step (`CreateFence` and `Begin`), claims one
target at a time in order (`Claim`, `RefuseClaim`, `AbandonClaim`, and
`StartRelease` for what was claimed when one fails). Close is `CloseFence` per
target, `CancelLease` per lease, then `Drained` or `AbortDrain`. Commit and
recovery open, retire or reopen the targets one by one and then release the
owners one by one. `Stragglers` is `drainSets`: leases of older sealed sets on a
target, which an aborted close or a non-draining change left running.

`PublicAdmission` has no transitions and no owners. It says that responses are
admitted at the open generation only and that a revocation happens at one
moment, when no response it forbids is being sent. `ImplementsAdmission` maps
`closing` and `closed` to `shut` and a lease slot to the response in it.

### PublicMutation

One account with one resume, any number of requests with idempotency keys, and
readers of the public page. Here the operations of the coordinator are single
steps, after the abstract admission that `PublicState` implements. The phases of a
request follow the code: `Inspect` and `Preflight` (no lock), `ReadDiscovery`, `Begin`, `Claim` or
`RefuseClaim`, `RecheckMismatch` and `RefreshPlan` (the retry loop of
`executeTransition`), `RecheckBegun`, `Shut`, `Drained` or `DrainTimeout`,
`LockUser`, `Write` or `PlanOvertaken`, `CommitSucceeds`, `CommitLost` or
`TransactionFails`, then `Committed` or the recovery (`ReadRecord`,
`RecoverCommitted`, `RecoverNotCommitted`, `Unresolved`). `Fails` is any error
or cancellation before Close. A COMMIT whose answer is lost stays in doubt and
keeps its locks until the database decides it, at any later moment
(`LateCommit`, `LateAbort`). `late` is history: such a commit took effect after its request had been given
up, because recovery read that it did not or the process died. Finding 1 is that this happens, so
`OpenUnlessCommitIsLate`, `AcknowledgedRevocation` and
`WritesOnlyBehindTheFence` speak of all other behaviours, and
`StaleMeansNotAppliedAlone` of those in which no other account interferes either;
`ClosedOnlyWhenFresh` and `ImplementsContract` hold in all. `Crash` drops
everything the process holds. `OtherAccount` is another account's change of
discovery.

A slot whose request was answered forgets it, except for what may still matter:
what a COMMIT in doubt will write, and what was asked if the answer says that it
took effect or was stale.

`UpdateContract` has no fences, locks or phases: a client asks for an update
under a key, at the revision it has seen; the update takes effect at most once,
in one step, when its key is new and the resume is at that revision; an answer is
given once and is true. After a failure, or when a request was given up (its
process died), the update may still take effect later, and only then may
a stale answer be wrong about the resume (`late`). `ImplementsContract` maps
`records` to what is stored under a key and `phase` with `doubt` to whether a
request is handled, abandoned or over (`Handling`); the phases between hide.

### AuthMail

One account. `rows` are the scope rows there are: reset tokens, each named like
the job that mails it, and the user. `job` is a row of `auth_email_jobs`; `send`
is a goroutine of `sendJob` with what it read before it waited; `step` is how
far `RunOnce` has got; `mail` is history.

A tick is `RequeueExpired`, `CleanupTokens`, `CleanupFinished`, `Claim` (one
transaction each), then the sends, then `Join`. A send waits for one of the
slots (`StartSend` reads the clock), locks its scope row (`LockScope`), then its
job (`Authorize`, `Decline` or `EndExpired`), and holds both while the provider
answers (`Deliver`) until its commit (`Settle`). A row lock is the phase of the
send that holds it: a step that needs the row is enabled only when it is free,
and a query with SKIP LOCKED passes over it. `RequestReset`, `UseResetLink`,
`ChangePassword` and `DeleteAccount` are the transactions of the account flows:
deleting a scope row deletes its jobs (ON DELETE CASCADE).

`AbortSend`, `AbortTick` and `Crash` roll back what was open; a dead worker's
jobs stay leased to an owner nobody is (`Departed`), since a process draws a new
id when it starts. Time passes as flags (`ComesDue`, `Lapses`, `Expires`). A
lease lapses freely once no send uses it any more, and during the call of the
provider: the send's own, or that of another send which keeps it from its slot
or its row (`Slow`, `Waits`). Any other lease in use lapses only as a counted
stall of the process.

### RenderQueue

A call of `Queue.Render` is a goroutine and `call` is how far it has got; what
it shares with the others is behind `q.mu`, so a step is one critical section of
it, one channel operation or one callback. `q.attempts` holds the calls in an
`Admitted` phase, and the permit's channel is `permit`. `job` is the call's entry
in `q.jobs`, `reason` why its attempt was canceled (`expired` for the
capability, `stopped` for a caller that left, a deadline or Close, which the
code treats alike). A caller whose context ends is in `gone` at once; the
cancellation in the map follows when its callback runs, and `Canceled` is either.

`Admit` or `Refuse`, `Prepare` (the caller's snapshot, the job's id and authority
and `installJob`, whose check is what decides), the select (`TakePermit`,
`GiveUpWaiting`), `BeginRender`, `EndRender`, `StartCompletion`, `Validate` and
`FinishCompletion` are the path of a call; `ReturnPermit`, `ReleaseAttempt` and
`JoinCallbacks` are its deferred calls in their order. `Redeem` and `StopExpiry`
are a page's request, in two steps because the timer is stopped outside the lock.

Each attempt has up to three callbacks: for its caller's context, its deadline
and its capability. They start (`CallerGoes`, `Fire`) and run (`RunCallback`) in
separate steps, so everything else may happen in between, and one that was
stopped before it started never runs. A capability has expired when its timer
has fired. `StartClose` cancels every attempt and `FinishClose` has seen them
all done. The snapshot, digests, size limits and the entropy source are steps
that may fail; request validation is left out and `Ready` is a read.

### Sessions

The session rows of one account. A request that authenticates is a `req` with
the time it read and the row it holds in memory; each statement of
`SessionManager.Authenticate` is a step: `Lookup`, then for the first use of a
successor `StartPredecessorGrace` and `MarkFirstUse`, then `BeginRotation` (the
conditional update that admits one winner), `InsertSuccessor` (its transaction
under the user lock) or `TouchLastSeen`. What it then does with its session is
`Reply`, a logout (four statements without a transaction: `RevokeCurrent`,
`RevokePredecessor`, `RevokeSuccessor`), or one of the transactions under the
user lock: `RevokeSession`, `RevokeAllSessions`, `ChangePassword`, and
`ChangeFactor`, which advances the epoch. `ResetPassword` needs no session. A
reply that carries a token may be lost (`Sends`), so `delivered` is what a
client can present. `Fail` ends a request after any statement.

`ended` is history: the sign-ins that were ended. Revoking a row ends its
sign-in, except when the row is already past its deadline (`EndedWith`): a
handler reads its clock before it waits for the user lock
(`sessions_handlers.go:203-206`), the deadline may pass meanwhile, and then the
successor may have a successor of its own, which exact partners do not reach.
The same holds for a caller: `EndedCannotAct` says that nothing is done for a
sign-in that was ended, except by a handler whose own row passed its deadline
while it waited, with later generations of the sign-in inserted and ended in the
meantime. It was the proof that asked for the exception; TLC shows the case with four
rows, and three have no room for it.

### OAuth

The codes, grants and tokens of one user. Every operation is one transaction
that locks client, user and grant, so it is one step: `Register`,
`ApproveConsent` and `ApproveExistingGrant` (which issue a code), `ExchangeCode`
and `ReplayCode`, `Refresh` and `ReplayRefresh` (the end of the family when
the token was used before), `RevokeToken`, `RevokeAgentGrant` (a disconnection),
`ChangeFactors` (the epoch) and the clean-ups `DeleteExpiredCodes` and
`DeleteTerminalTokens`. A client presents any code or token at any time, as
often as it wants, so lost replies and replays need nothing of their own. The
idle-client sweep is two steps (`ListIdle`, `CollectIdleClients`) although it is
one transaction: its SELECT ... FOR UPDATE finds idle clients in a snapshot and
locks their rows afterwards, and everything may commit in between. `Accepted` is
the bearer check of the MCP server. History is `ended`, the codes whose authority
was ended, and `redeemed`, when a code was exchanged.

### Media

The photo of one resume. An upload stores its candidate (`PutCreated`,
`PutUnknown`), commits a document that names it (`Commit`, `CommitLost` with
`Recover`), or gives it up (`Refuse`, `FinalizeCandidate`), and may die at any
point. A replacement, `DeletePhoto` and `DeleteResume` enqueue a deletion job
in the transaction that drops the reference. `Claim`, `CheckReference`,
`DeleteObject`, `CompleteJob` are a worker of the deletion command, `Reconcile`
is the sweep's discovery of an old object without a job; both continue alike.
`DeleteFails`, `WorkerStops` and `Lapse` of a lease in use are faults; `PurgeJob`
is the retention of completed jobs. Ages saturate at `OrphanAge`, the deadline of
a candidate includes the timeout of its put, and the advisory lock that keeps
two runs of one command apart is left out, which only adds interleavings.

### Realtime

One resume and the streams that follow it: `Public` ones of its page and those
of its owner. `revision` is the committed row, `wire` what PostgreSQL has sent
to the listener's connection, which keeps nothing for a connection that is not
there: `Commit` appends only while `link` is up, and `Break` loses any rest of
the wire. `Listen`, `SetAvailable`, `Publish` and `NoticeLoss` are the loop of
`realtime.RunListener`, between whose statements everything else may happen;
`NoticeLoss` closes all streams (`Hub.SetAvailable(false)`) before it connects
again. `Pushed` is what a notification does to one subscription: an entry in its
queue, its eviction when the queue is full, or the end of a public stream when
the resume is deleted. `Subscribe`, `Tell` and `Leave` are a stream's goroutine.
`told` is what the stream's client knows: what it read when it connected, or
the last frame.

`access` is the page's fence as its streams meet it: it admits while it is
`live`. A change that withdraws, renames or deletes a live page, or narrows who
may see it, is a transition that drains: `CloseFence` ends admission and
cancels the lease of every public stream, which is told nothing from then on
(`canceled`), and its `Commit` waits for all of them to return (`Drained`).
When the drain takes too long or the transaction fails, `OpenFence` leaves the
page as it was, though canceled streams stay canceled. `StreamRuns` is what the
goroutine of a stream does unasked: it writes, and returns once its lease is
canceled. So a public stream is closed before its page goes, and the branch of
`Hub.Publish` that ends public streams of a deleted resume is a defence.

### PreviewCards

Composed with `Realtime`: the stored link-preview card of that resume. A card is
of a version, `<<slug, face>>`; `page` is the version of the committed row or
`Offline`, `stored` the row of `resume_preview_cards`, which the triggers delete
when the page goes offline, is renamed or deleted (`Kept`). Every `Change`
is a `Commit` of `Realtime`, a rename only behind a closed fence, and the hub's observer (`Notify`) runs in its
`Publish`.

The scheduler is `quiet` (an armed quiet timer), `work` (the queued checks of
this resume; that other resumes fill the queue is the choice to drop one in
`Enqueue`), `worker` (the one goroutine, between whose reads and waits
everything may happen: `TakeCheck`, `ReadLive`, `ReadStored`), `retries` and
`timers`, and the start `sweep`, which lists and then compares. `build` is the
flights of `Service`, one per priority: the worker's (`JoinBuild`), which joins
a request's build of the same version, and a request's (`Request`); each is
`Render` and then `Save` under the row's lock, whose answer may be lost. A
restart is `Init`: any page, with any card that a predecessor may leave.

`unwatched` is history: whoever was to look after the page's last change gave
up, because its notification was lost with the connection, the queue was full
or the retries were used up, and no quiet timer is armed to look again. A later
change, or a sweep that lists the page, takes it back.

## 3. Runs

| Run | Instance | What it shows |
| --- | --- | --- |
| `public_state` | discovery and 1 resume, 2 transitions in all, 1 lease, 2 generations | revocation, refinement of the abstract admission; claims end, Close ends, canceled responses are told, readiness recovers |
| `public_mutation` | 2 requests, 1 reader, a key per operation, revisions up to 2, 1 crash or 1 other account, COMMITs decided at any time | durable generations, acknowledged withdrawal, writes only behind the fence, the recheck by the owner is final; refinement of the contract with the client: effect at most once, at the revision named, true replies |
| `late_commit_recovery` | the same without publish, crash and other accounts | finding 1 below |
| `auth_mail` | 1 reset token, 1 notice, 2 workers, 2 attempts, 1 slot, 1 fault | authority of sends, attempts, duplicates |
| `auth_mail_crash_liveness` | 2 reset tokens, 1 notice, 1 worker without its key, 2 attempts, 1 fault | every mail ends, also what a dead worker left leased |
| `auth_mail_undecryptable` | 1 worker without the notice's key | finding 2 below |
| `render_queue` | 2 calls, one of them public, in the background and with a caller that may leave | capabilities and their expiry, callbacks, publication; every call and Close return |
| `sessions` | 3 rows of one sign-in, 2 requests, 5 moments, 1 epoch change | an ended sign-in stays out, one pair per sign-in, deadlines |
| `oauth` | 2 clients, 2 grants, 2 codes, 3 issues of tokens, 3 moments, 1 epoch change | what was ended stays void, an old token ends its family, families end |
| `media` | 2 uploads, 2 workers, lifetime 1, orphan age 1, 1 fault | a named photo is stored, completed means gone; orphans and jobs end |
| `media_lost_answer` | the same | finding 3 below |
| `preview_cards` | 3 versions (2 of one slug), 1 public stream with a queue of 1, 2 changes, 1 retry | no stream misses a change unawares, streams catch up or are closed; no card outlives its page or replaces a newer one, cards become current |

The bounds, and why they are enough. Two transitions are the fewest that
contend for a fence; a third would only wait at a fence like the second. They
begin once each (`MaxStarts`), because the liveness needs a bound and the safety
has one anyway in the two generations: a fence can move once and a stale plan
meet it. One response at a time is admitted, sealed, canceled or left behind
(`Stragglers`) in every phase; more fences, transitions and responses are left
to the proofs. In `PublicMutation` revisions stop at 2 and requests may
be based on 1 or 2, so a request can be overtaken and its key repeated
afterwards; one crash or one other account (`MaxTurns`) suffices for their
interleavings with one pair of requests, since each resets or advances one
shared value.

Two workers are the fewest of which one can take a job the other
still sends; they stand for an old and a new process as well. One slot and a
batch of two make sends wait for each other, as two slots and a batch of ten do
in the code. Two attempts have a first and a last one. One fault is enough to
lose an answer, a commit or a lease in every phase; the proofs need no bound.

Two renders are the fewest that contend for the permit, and every callback,
page and Close can meet each of them in every phase. Only one caller leaves
(`Departing`): it renders publicly and in the background, which takes the longest
path. No instance of two calls tells the admission bounds from none, so these
are not checked but proved (`AdmissionIsBounded`).

Three session rows are a predecessor, its successor and the next generation,
which is where a revocation that reaches only exact partners could miss one. Longer
lines, with a handler that waits through several generations, are left to the
proof, which has any number of rows, requests and moments.
`MaxSpan` lets the clock move once during a request, so that its reading is
stale. The lifetimes keep the order they have in the code (grace below
rotation age, below the idle timeout, below the absolute one).

Two grants and clients let a disconnection or a sweep meet the other one's
consent; three issues are a token, its successor and one of another family or
a third generation; a lifetime of two and three moments let a family's deadline
pass between any two steps. Two uploads are a photo and its replacement, and two
workers of which one can hold a lapsed lease. A candidate's deadline and the
age of an orphan are one moment there, the tightest that `AgesAssumption` allows.

In `PreviewCards` the first change, the listener's and the sweep's start and a
request's build meet in every order; three versions let the change be a new face, a
new slug, a publication or a withdrawal. The second change is there for the streams: it
evicts one whose queue of one still holds the first, or it withdraws the page while a
stream is behind, whose lease is then canceled. It comes only while the cards are
current and at rest, and keeps what the card shows or ends the page
(`SecondChangeAtRest`, an action constraint that bounds changes and no
fair step): for the cards it would find the scheduler in a state that the first
one can leave it in. Two free changes have ten times the states, too many for
the liveness properties. Owners' streams, which have no lease, longer queues and more
changes are left to the proofs, whose safety of streams and cards needs no bounds.

Deadlock is checked for the coordinator and for the mail workers. It is not for
`PublicMutation`, `Sessions`, `OAuth`, `Media` and `PreviewCards`, where the
bounds (and unresolved transitions) let everything stop, nor for `RenderQueue`,
whose calls all return.

Fairness (`PublicState!Fairness`). A goroutine that can take a step takes it:
the Go scheduler runs every runnable goroutine, and every wait in Begin and
Close has a case that becomes ready (a released owner, a drained set, the
context or the timer). The caller of Begin goes on to Close or Rollback and the
caller of Close to Commit, Rollback or Recover, as `runMutation` does on every
path, except that nothing runs Recover a second time after it failed. Nothing
is assumed of readers: a canceled response may never end. The bounded number
of transitions in `MCPublicState` is needed: a released fence goes to
whoever locks it first (`fence.claim` has no queue), so endless newcomers may
keep one waiting until its context ends.

Fairness (`AuthMail!Fairness`). Workers tick every second, a send takes its
steps, the sender call has a deadline, and time passes: weak fairness.
`LockScope` and `CleanupTokens` have strong fairness, because PostgreSQL grants
a row lock in the order it was asked for, so whoever waits for a row gets it
although others ask for it again and again. Nothing is assumed of users. That a
lease in use lapses only while a provider is called is part of the model
(`Waits`): a lease is thirty seconds, all other work on it takes milliseconds.

Fairness (`RenderQueue!Fairness`). Goroutines run (`Proceed`), a callback that
started runs, and the deadline of an attempt passes. What the caller supplies,
Prepare, the renderer and the validator, returns once its context is done: all
three are handed the attempt's context, the renderer of `internal/printrender`
runs its browser under it, and the other two are queries. Nothing is assumed of pages, and a waiting
call need never be given the permit: `EveryRenderReturns` rests on the deadline.

Fairness (`Media!Fairness`). The deletion command and the sweep are scheduled
again and again and visit every job and every object that is due (the sweep's
cursor and pages are left out), a run goes on with what it claimed, leases run
out, and time passes. Nothing is assumed of uploads: an upload that stops
leaves an object, which is what `OrphansGo` is about.

Fairness (`PreviewCards!Fairness`). The listener's goroutine runs, and so does that of
every stream, which writes what is queued (a write has a deadline) and returns
when its lease is canceled: its loop selects on both (`StreamRuns`). Timers fire, the worker takes its steps and every build has a deadline; what the
hub publishes, it publishes in order. The scheduler's goroutines and timers
share one fairness condition, which is weaker than one for each. Nothing is assumed of changes and their drains, requests,
clients or the health of the connection.

## 4. Proofs

`PublicState_proofs` holds machine-checked proofs for every value of
`NumResumes`, `MaxGen`, `Transitions` and `Leases` (assumptions:
`NumResumesAssumption`, `MaxGenAssumption`).

`RevocationComplete` is not inductive: it says nothing of what a transition has
done so far. `IInv` adds what the code relies on without saying it:

- `OwnershipExclusive`: `owner[f]` holds exactly while one transition has
  claimed `f`;
- `PlanShape`: in which phases a transition owns all its targets, and when a
  loop has targets left;
- `ClaimedFencesInStep`: what the phase of its owner says of each claimed
  fence, above all that it keeps the expected generation until it is opened;
- `RevokedInStep`: after a target's turn in the closing loop all its leases are
  sealed, and after its turn in the drain there are none;
- `GenerationBounds`: the floor of a fence is not above its generation.

The proof has one lemma per operation (`ClaimStep`, `CloseFenceStep`, ...), each
with one step per conjunct the operation can disturb, `InvStep` combines them,
and the theorems below follow:

| Theorem | States |
| --- | --- |
| `TypeCorrect`, `Invariant` | `[]TypeOK`, `[]IInv` |
| `RevocationIsComplete` | `[]RevocationComplete` |
| `OwnershipIsExclusive`, `ShutFencesAreOwned`, `ClosedTransitionsAreDrained` | `[]OwnershipExclusive`, `[]ShutOnlyWhileOwned`, `[]RevokedAreDrained` |
| `GenerationsNeverGoBack`, `CancelsAreRevocations` | the action properties |
| `Implementation` | `Spec => Admission!AdmissionSpec`, one lemma per abstract step |
| `RetirementIsForever` | `RetiredForever`, from the abstract specification |
| `NobodyWaitsInACircle` | `[]NoCircularWait` |

The last is the safety behind `ClaimsEnd`, for any number of transitions over any
overlapping sets of targets: of transitions that wait for each other, take the one
whose next target is last in the order of Begin (`LastFence`); whoever has claimed
that target wants only later ones (`ClaimsInOrder`, an invariant of its own).

`PublicMutation_proofs` does it for the mutations, for any requests, readers,
keys, kinds and bounds (the `ASSUME`s of `PublicMutation`). None of the run's
properties is inductive; `IInv` ties the request's phase to everything that the
code relies on from one lock to the next:

- `Ownership`: the fences have an owner exactly while a request is between Claim
  and its answer, or unresolved, and are then open or shut at its plan's
  generations;
- `Doubts`: a COMMIT in doubt holds the user lock, so no other request gets past
  its recheck and nothing the COMMIT depends on changes until it is decided;
- `Keyed`: what is stored under a request's key from the recheck to the answer;
- `Plans`: revisions only grow, and a plan fits the row while the row is still at
  its revision;
- `Reading`: what a reader has read is current or overtaken, and a drain leaves
  no response of a withdrawn page;
- `InStep`: row and discovery are where the fences are, and a missing fence can
  only be created at the row's revision;
- `Acknowledged`, `Withdrawals`: what was acknowledged as withdrawn is recorded,
  and nothing up to that revision is being sent;
- `OvertakenByRow`: without other accounts, what is refused was overtaken by the
  row and is not stored.

`InStep` and `Withdrawals` hold until a COMMIT takes effect late (finding 1), the
others whatever happens. One lemma per action shows that it keeps `IInv`; the
actions that only answer, wait, go on as owner or write share `LeaveKeeps`,
`WaitKeeps`, `AdvanceKeeps` and `ApplyKeeps`.

| Theorem | States |
| --- | --- |
| `Invariant`, `TypeInvariant` | `[]IInv`, `[]TypeOK` |
| `FencesFollowTheRow` | `[]OpenUnlessCommitIsLate` |
| `RevocationHolds` | `[]AcknowledgedRevocation` |
| `SuccessHolds`, `StaleHolds`, `ClosedFresh` | `[]SuccessIsDurable`, `[]StaleMeansNotAppliedAlone`, `[]ClosedOnlyWhenFresh` |
| `FencedWrites` | `WritesOnlyBehindTheFence` |
| `ContractImplemented` | `Spec => Contract!ContractSpec` |

`ContractImplemented` maps every action to a step of `UpdateContract` or to none.
The steps that matter are the writes (`Apply`), whose key is new and
whose revision is the row's because the recheck holds the user lock (`Keyed`,
`Plans`, `Doubts`), and the answers (`Reply`), each of which must be true when it
is given: a success because `records` has it, a stale answer because the row has
moved on (`InStep`, `Plans`) or a COMMIT took effect late.

`AuthMail_proofs` does the same for the mail workers, for every set of jobs and
workers, every readability of keys, every number of attempts, slots, batch size
and faults (the `ASSUME`s of `AuthMail`). The properties need each other and
four facts about locks and rows, which together are `IInv`:

- `ScopesExclusive`: a scope row has one holder;
- `HeldRowsStay`: a row that is held is there;
- `HeldJobsLeased`: a job that is held is leased by its holder;
- `NewJobs`: a job that is not enqueued has no past, and no row yet.

`AttemptsCountFailures` is part of the invariant that types the state: without
it the recovery of a lease might take an attempt from none. To keep the
counting proofs short, `Effects` reduces a step to the ten things it can do to
one job and its history; `AttemptsStep` and `AcceptancesStep` then look at
those only.

| Theorem | States |
| --- | --- |
| `Invariant`, `TypeCorrect` | `[]IInv`, `[]TypeOK` |
| `Authority` | `[]SendsUnderAuthority` |
| `AttemptsCorrect`, `AcceptancesCorrect` | `[]AttemptsCountFailures`, `[]AcceptancesAccounted` |

`RenderQueue_proofs` does it for the render queue, for any finite set of calls
and any capacities (the `ASSUME`s of `RenderQueue`). `IInv` adds to the properties
what the code leaves unsaid:

- `CapabilityTold`: whether a page has the snapshot can be told from the job's
  state while there is a job, and from the call's phase once it validates;
- `CloseHasAll`: Close waits for every attempt there is, and has canceled each;
- `Untouched`: a call that has not been admitted has nothing to lose.

`JobsAreLive` needs all of it: Close cancels the attempts it finds, and an attempt
that was canceled during Prepare is refused its job. The proof splits the steps
into those of a call and those aside of it (`Aside`), which leave the phases alone.

| Theorem | States |
| --- | --- |
| `Invariant`, `TypeCorrect` | `[]IInv`, `[]TypeOK` |
| `OnePermit`, `OnlyLiveJobs` | `[]PermitConserved`, `[]JobsAreLive` |
| `RedeemBeatsExpiry`, `CallbacksJoined`, `ClosedForGood` | the other state invariants of the run |
| `PublishesAuthorized`, `HandsOutOnce` | its action properties |
| `AdmissionIsBounded` | `[]AdmissionBounded`, by counting |

`Sessions_proofs` does it for the sessions, for any sets of rows and
requests, any number of epochs and any lifetimes of which the grace of a rotation
is at most the age that makes one due (the `ASSUME`s of `Sessions`). None of the run's properties is inductive, and the
reason why revoking the exact partners of a row is enough is a fact about time
that no line of the code states. `IInv` has it in four parts:

- `Lineage`: a predecessor's deadline is at the latest the moment from which its
  successor may be rotated, so a row is replaced only when its own predecessor
  is over;
- `OneLine`: no row has two successors, and only one row of a sign-in has none;
- `Caller`: what a request has established by its phase. Above all, of the
  requests that were admitted to insert a successor, no two have the same row;
- `EndedIsOver`: a row of an ended sign-in is revoked, or replaced and past its
  deadline.

From the first two follows the lemma `OthersAreOver`, on which most steps rest:
while a row is not past its deadline, all rows of its sign-in but its exact
partners were replaced and are past theirs. So what a revocation does not reach
is over already. The proof that an inserted successor keeps `EndedIsOver` uses
what `tryRotate` reads again under the user lock, the epoch and the row.

| Theorem | States |
| --- | --- |
| `Invariant`, `TypeCorrect` | `[]IInv`, `[]TypeOK` |
| `EndedForGood` | `[]EndedStaysOut` |
| `OnePair`, `NeverForks` | `[]OnePairPerSignIn`; no row has two successors |
| `ShrinksOnProof`, `EndedActsNoMore` | `DeadlineOnlyShrinksOnProof`, `EndedCannotAct` |

`OAuth_proofs` does it for the tokens, for any sets of clients, grants, codes
and issues and any lifetimes (the `ASSUME`s of `OAuth`). `IInv` adds:

- `Lineage`: a family has the grant of the code it was exchanged for, and a
  deadline that counts from its exchange;
- `Families`: of the issues of one family all but one are superseded, and
  all are revoked together;
- `StoredUntilOver`: a used refresh token is kept as long as its family can
  be refreshed, which is why the clean-up cannot make a replay go unnoticed;
- `EndedForGood`: what was ended has no row that could be accepted or exchanged.

| Theorem | States |
| --- | --- |
| `Invariant` | `[]IInv` |
| `EndedStaysVoid` | `[]EndedIsVoid` |
| `OldTokensTrip` | `[]EveryOldTokenTrips` |
| `FamiliesEnd` | `[]FamilyEndsInTime` |

`Media_proofs` does it for the photo and its clean-up, for any sets of keys and
workers, any ages with `CandidateLifetime <= OrphanAge` and any number of faults.
That assumption is what the whole scheme rests on. The argument is that the
clean-up never has in hand what may still be named (`Doomed`): an object gets
a job because a document named it once, which no document will do again since
keys are drawn anew, or because it has reached `OrphanAge`, and then its upload
cannot commit any more. `IInv` says that of every object (`DoomedIsOld`), that
a candidate which may still commit is stored or old (`CandidatesReady`), that
what is named is in nobody's hands (`NamedIsSafe`) and that what was reported as
deleted is gone (`DeletedIsGone`).

| Theorem | States |
| --- | --- |
| `Invariant` | `[]IInv` |
| `NamedStaysStored` | `[]PhotoKept` |
| `CompletedIsGone` | `[]CompletedMeansGone` |

`PreviewCards_proofs` does it for the streams, for any streams and any queue depth.
`RealtimeInv` adds to `NothingMissedSilently` what the listener and its
connection agree on (`ListenerInv`): while the connection is up, the last
notification on the wire is of the last commit; a connection that is down has
nothing on the wire; and no stream outlives the hub's availability. And it adds
that a page that is not live has no public stream (`NoStreamOfAHiddenPage`): a
drain outlasts the streams that were admitted before it, and the fence admits
none after it.

It then shows that a step of `PreviewCards` is, for the streams, a
step of `Realtime` or none, so that what is proved there holds here. For the
cards it reduces a step to what it may do to page and stored card (`Touches`):
nothing, a save of a build that is still of the present page, or a change that
keeps only the card of a page that stays live at its slug. The invariant
`CardInv` adds that every build is of a version that was read from a live page.

| Theorem | States |
| --- | --- |
| `RealtimeInvariant` | `[]RealtimeInv` |
| `RealtimeWithCards` | `Spec => RealtimeSpec` |
| `NobodyMissesAChange` | `[]NothingMissedSilently` |
| `NoStreamOutlivesItsPage` | a page that is `Offline` has no open public stream |
| `NoCardOutlivesItsPage` | `[]CardOfCurrentPage` |
| `LateBuildsReplaceNothing` | `CurrentCardStays` |

The type invariants and inductive invariants, `OwnershipExclusive`,
`ShutOnlyWhileOwned`, `RevokedAreDrained`, `RetiredForever`, `SuccessIsDurable`,
that sign-ins never fork, `NoCircularWait`, `PermitConserved`,
`JobsAreLive`, `CloseIsFinal` and `AdmissionBounded` are proved and not part of
a run of their own.

Only model-checked are the liveness properties (`ClaimsEnd`, `CloseEnds`,
`SealedAreCanceled`, `ReadinessRecovers`, `EveryMailEnds`, `EveryRenderReturns`,
`CloseReturns`, `OrphansGo`, `JobsEnd`, `CardsBecomeCurrent`, `StreamsCatchUp`):
the prover does not treat fairness and ENABLED. Every invariant, action property
and refinement that a passing run checks is proved. That the atomic
coordinator inside `PublicMutation` implements `PublicAdmission` is neither
checked nor proved (section 7).

## 5. Findings

1. `late_commit_recovery`: `mutationRecovery.Resolve` reads the idempotency
   record and the row without the user lock. If PostgreSQL still has to decide
   the COMMIT whose connection was lost, Resolve finds no record and the old
   row and reports RecoveryNotCommitted, although `coordinator.go` says that
   this "proves that the transition's durable work did not commit". The fence
   opens at the old generation; when the commit lands, fence and row differ and
   the page is refused until the process restarts. Taking the user lock
   first, as `Recheck` does, would wait for the decision.
2. `auth_mail_undecryptable`: when a payload does not decrypt, `sendJob` marks
   the job terminal and returns without a commit, so its deferred rollback
   undoes the mark, although two comments say the job is terminated. The job
   stays leased, the recovery takes its attempt back and it is claimed again
   every lease until it expires. `auth_mail_crash_liveness` shows that it does
   end then.
3. `media_lost_answer`: an upload whose COMMIT answer is lost and whose record
   recovery finds is answered as a replay, and `finalizePhotoCandidate` deletes
   the candidate of a replay. Here it is no replay: the committed document names
   that very candidate, whose object is deleted, although ADR 0009 promises that
   the key a document names is stored. `PhotoKept` shows that this is the only
   way to lose a photo.

Smaller disagreements, met while modelling and not given a run:

- After a discovery mismatch the retry loop of `executeTransition`
  (`writesafety.go:417-443`) reads the row without rechecking the key. If the
  first attempt with the same key commits in between, the repeated request is
  told 412 instead of the stored response (`api.md:215`).
  `StaleMeansNotAppliedAlone` shows that this needs a change by another account.
- `Queue.Close` "joins callbacks" (`operations.go:137`), but `releaseAttempt`
  deletes its attempt from `q.attempts` before it joins the attempt's callbacks,
  so Close can return while one still runs. That callback finds its
  attempt released and changes nothing.
- The recovery of a lapsed lease takes the attempt back because "the send never
  happened" (`queries.sql:1228`), also when the provider had accepted the mail
  and the worker died before its commit: the attempt limit bounds failures, not
  mails. `AcceptancesAccounted` says exactly when a mail goes out twice.
- The sweep of idle OAuth clients (`clients_gc.go:33`) locks the clients that its
  statement found idle in a snapshot, and PostgreSQL checks the condition
  again only for a client row that changed. A consent that commits between the
  snapshot and the lock changes other tables, so its client and grant are deleted
  with the rest, although the statement's comment (`queries.sql.go:3739`) says
  that a concurrent grant fails "rather than being cascaded away".
- `scheduler.go:66` says that the scheduler "keeps every live resume's stored card
  current". A change whose notification is lost while the listener reconnects,
  or whose check meets a full queue or uses up its retries, leaves the card
  outdated until the next change, request or start of the process; the sweep at
  the start does not wait for the listener either. `CardsBecomeCurrent` says
  exactly when (`unwatched`).
- A worker that joins a flight between its answer and its removal takes that
  answer for its own (`service.go:119-150`). For the answer that the page changed
  to be wrong for it, the page has to change back in between; the model removes a
  flight with its answer.
- The handlers of the session list read their clock before they wait for the
  user lock (`sessions_handlers.go:203-206`). When a deadline passes in between, a
  device that is revoked from the list may leave the third generation of its
  sign-in alive, and a caller whose sign-in was ended through a later generation
  meanwhile is still served once: `EndedCannotAct` names the case.

## 6. Not modelled

The encoding of documents and stored responses, validation, rate limits, the
24-hour expiry of idempotency records and their quotas, metrics, the
privacy notice's own worker, the
encryption of payloads and the mail providers' adapters, and everything listed as `not_modelled` in
`PROJECT.json`. PostgreSQL is taken to serialise transactions by the row locks
the code takes, and a crash of PostgreSQL itself is not modelled. In `AuthMail`
the account flows commit in one step, so a deadlock between a flow's row locks
and a send's is not represented; the code takes them in one order (user, token,
job). A job's token digest is not either: no query changes a token row's
digest, so a row that is there matches. In `RenderQueue` a page presents the capability it was
given, so the comparison of digests is not represented, and the renderer itself
(`internal/printrender`) is a step that ends with output or an error.

In `Sessions` the gates on a recent reauthentication and pending logins are left
out, which refuse a request; `Reply` stands for it. In `OAuth` scopes, redirect
addresses, PKCE and client metadata are left out: they refuse a request before it
changes anything, and a failed code exchange rolls its attempt back. In `Media`
the answer of a lost COMMIT is decided at once (late decisions are in
`PublicMutation`), other handlers may run while an upload is unknown, which the
fences forbid, and the branch that finds a job's object referenced again is
never taken: it is a defence, and `NamedIsSafe` shows it is not needed.

In `Realtime` the fence is that of the resume alone, and one step closes it
and cancels all leases; how the closing loop, the drain and other transitions
interleave is in `PublicState`. A plain edit also closes the fence for a moment, which
here only delays an admission. A withdrawal whose COMMIT is decided late, after the
fence has opened again, is finding 1 and not represented here. The limits on
streams (in all and per address) and the recheck of the owner's session are left
out: they refuse a stream or end it (`Leave`). In
`PreviewCards` one request at a time builds, for the version the page has when
its build starts, and a version that cannot be derived is not represented. The end
of a build and the resumption of the worker that waits for it are one step, and
so are the end of the quiet timer and its entry into the queue. A shutdown is
only the start of the next process.

## 7. Plan

1. The coordinator, its abstract specification and its proofs (done).
2. A mutation end to end and its proofs (done).
3. The mail workers and their proofs (done).
4. The render queue and its proofs (done).
5. Sessions: rotation, revocation and epoch changes, and their proofs (done).
6. OAuth: codes, refresh rotation, clean-ups, and their proofs (done).
7. Photos and their clean-up, and their proofs (done).
8. The realtime streams and the preview cards, composed, and their proofs (done).
9. Account deletion as a transition over all resumes; view counting; second
   factor; the web editor's mutation queue composed with the idempotency
   records.
10. Proofs: `PublicMutation` implements `PublicAdmission`.

------------------------------ MODULE PreviewCards ------------------------------
(***************************************************************************)
(* The stored link-preview card of one resume (package previewcard), kept  *)
(* current by a scheduler that learns of changes from the listener of      *)
(* module Realtime.                                                        *)
(*                                                                         *)
(* A committed change is noticed at once to look for a missing card, and   *)
(* again when none followed for a while; one worker takes the     *)
(* checks in turn and builds at low priority.  A request for the card      *)
(* builds at normal priority.  A process that starts sweeps all resumes.   *)
(* The checks and builds of other resumes only show in a full queue and in *)
(* how long a step may take.                                               *)
(***************************************************************************)
EXTENDS Realtime

CONSTANTS
    Versions,    \* card versions <<slug, face>>: all a card shows
    Offline,     \* the page of a resume that is not live
    NoCard,      \* no card is stored
    MaxRetries   \* of a failed check; 5

ASSUME VersionsAssumption == Offline \notin Versions /\ NoCard \notin Versions
ASSUME RetriesAssumption == MaxRetries \in Nat

VARIABLES
    page,      \* the card version of the committed row, or Offline
    stored,    \* resume_preview_cards
    sweep,     \* the start sweep, and the stored card it listed
    quiet,     \* a quiet timer is armed
    work,      \* kinds of the queued checks of this resume
    worker,    \* what the worker is at
    retries,   \* failures in a row
    timers,    \* retry timers that run
    build,     \* per priority: the flight
    unwatched  \* history: whoever was to look after the last change gave up

cards == <<page, stored>>
scheduler == <<sweep, quiet, work, worker, retries, timers>>
vars == <<realtime, cards, scheduler, build, unwatched>>

Slug(v) == v[1]
Priorities == {"low", "normal"}
NoBuild == [phase |-> "none", version |-> NoCard]
Idle == [phase |-> "idle"]

\* A process that just started, whatever its predecessor left.
Init ==
    /\ RealtimeInit
    /\ page \in Versions \cup {Offline}
    /\ access = IF page = Offline THEN "none" ELSE "live"
    /\ stored \in {NoCard} \cup {v \in Versions : page # Offline /\ Slug(v) = Slug(page)}
    /\ sweep = [step |-> "start", card |-> NoCard]
    /\ quiet = FALSE
    /\ work = <<>>
    /\ worker = Idle
    /\ retries = 0
    /\ timers = 0
    /\ build = [b \in Priorities |-> NoBuild]
    /\ unwatched = FALSE

-----------------------------------------------------------------------------
(* The resume.                                                             *)

\* The last look at the present page is lost, unless the quiet timer is still to look.
GiveUp == unwatched' = (unwatched \/ ~quiet')

\* Wrong variant: only going offline removes the card.
KeptOverRename(p) == p # Offline
\* What the trigger leaves: the card of a page that stays live at its slug.
Kept(p) == p # Offline /\ page # Offline /\ Slug(p) = Slug(page)

\* A live page gets another slug, which needs the fence drained like its end.
Renames(p) == p # Offline /\ page # Offline /\ Slug(p) # Slug(page)

\* An edit, a rename, a publication, its withdrawal or the deletion commits.
Change(p, deletes) ==
    /\ Commit(deletes, p # Offline)
    /\ Renames(p) => access = "closing"
    /\ page' = p
    /\ stored' = IF Kept(p) THEN stored ELSE NoCard
    /\ UNCHANGED <<scheduler, build>>
    /\ IF link = "up" THEN UNCHANGED unwatched ELSE GiveUp

-----------------------------------------------------------------------------
(* The scheduler.                                                          *)

\* Wrong variant: a check is marked until it has read.
MarkedUntilRead ==
    {work[i] : i \in DOMAIN work}
        \cup (IF worker.phase \in {"taken", "read"} THEN {worker.kind} ELSE {})
\* Checks that count as queued; a check is still marked when it is received.
Marked ==
    {work[i] : i \in DOMAIN work}
        \cup (IF worker.phase = "taken" THEN {worker.kind} ELSE {})

\* enqueueLocked: the check is queued already, is queued, or is dropped since
\* checks of other resumes fill the queue.
Queued(kind) == IF kind \in Marked THEN work ELSE Append(work, kind)
Enqueue(kind) ==
    \/ work' = Queued(kind) /\ UNCHANGED unwatched
    \/ kind \notin Marked /\ work' = work /\ GiveUp

Notify(deletion) ==
    /\ retries' = 0
    /\ IF deletion
         THEN quiet' = FALSE /\ UNCHANGED <<work, unwatched>>
         ELSE /\ work' \in {work, Queued("missing")}
              /\ "missing" \in Marked => work' = work
              /\ quiet' = TRUE
              /\ unwatched' = FALSE
    /\ UNCHANGED <<sweep, worker, timers>>

\* The hub's observer hears of a change before any stream does.
PublishChange ==
    /\ Publish
    /\ Notify(IsDeletion(Head(wire)))
    /\ UNCHANGED <<cards, build>>

\* What the broken connection does not deliver nobody will look after.
LoseConnection ==
    /\ Break
    /\ UNCHANGED <<cards, scheduler, build>>
    /\ IF wire' = wire THEN UNCHANGED unwatched ELSE GiveUp

\* The armed timer ends, and was not replaced by a later change.
QuietEnds ==
    /\ quiet
    /\ quiet' = FALSE
    /\ Enqueue("changed")
    /\ UNCHANGED <<realtime, cards, sweep, worker, retries, timers, build>>

RetryFires ==
    /\ timers > 0
    /\ UNCHANGED <<realtime, cards, sweep, quiet, worker, retries, build>>
    /\ timers' = timers - 1
    /\ Enqueue("changed")

Settled == retries' = 0 /\ UNCHANGED <<timers, unwatched>>

Retry ==
    IF retries < MaxRetries
      THEN retries' = retries + 1 /\ timers' = timers + 1 /\ UNCHANGED unwatched
      ELSE GiveUp /\ UNCHANGED <<retries, timers>>

-----------------------------------------------------------------------------
(* The worker: process.                                                    *)

WorkerLeaves == <<realtime, cards, sweep, quiet>>

TakeCheck ==
    /\ worker.phase = "idle"
    /\ work # <<>>
    /\ worker' = [phase |-> "taken", kind |-> Head(work)]
    /\ work' = Tail(work)
    /\ UNCHANGED <<WorkerLeaves, retries, timers, build, unwatched>>

\* The check is no longer marked and the live resume is read.
ReadLive ==
    /\ worker.phase = "taken"
    /\ UNCHANGED <<WorkerLeaves, work, build>>
    /\ \/ worker' = Idle /\ Retry
       \/ page = Offline /\ worker' = Idle /\ Settled
       \/ /\ page # Offline
          /\ worker' = [phase |-> "read", kind |-> worker.kind, version |-> page]
          /\ UNCHANGED <<retries, timers, unwatched>>

\* Service.join: a request's build of the same card, or one of its own.
Joins == build["normal"].version = worker.version
JoinBuild ==
    /\ build' = IF Joins THEN build
                ELSE [build EXCEPT !["low"] = [phase |-> "rendering", version |-> worker.version]]
    /\ worker' = [phase |-> "waiting", on |-> IF Joins THEN "normal" ELSE "low"]

ReadStored ==
    /\ worker.phase = "read"
    /\ UNCHANGED <<WorkerLeaves, work>>
    /\ \/ worker' = Idle /\ Retry /\ UNCHANGED build
       \/ stored = worker.version /\ worker' = Idle /\ Settled /\ UNCHANGED build
       \/ /\ stored \notin {NoCard, worker.version} /\ worker.kind = "missing"
          /\ worker' = Idle
          /\ UNCHANGED <<retries, timers, build, unwatched>>
       \/ /\ stored # worker.version
          /\ stored = NoCard \/ worker.kind = "changed"
          /\ JoinBuild
          /\ UNCHANGED <<retries, timers, unwatched>>

\* A build is over: it stored its card, or need not since the page changed.
Finish(answer) ==
    /\ worker' = Idle
    /\ IF answer = "failed" THEN Retry ELSE Settled

-----------------------------------------------------------------------------
(* Builds: Service.run.                                                    *)

BuildLeaves == <<realtime, page, sweep, quiet, work>>

\* A request finds no current card and starts a build.
Request ==
    /\ page # Offline
    /\ stored # page
    /\ build["normal"] = NoBuild
    /\ build' = [build EXCEPT !["normal"] = [phase |-> "rendering", version |-> page]]
    /\ UNCHANGED <<BuildLeaves, stored, worker, retries, timers, unwatched>>

\* The flight is removed, and the worker resumes if it waits for it.
End(b, answer) ==
    /\ build' = [build EXCEPT ![b] = NoBuild]
    /\ IF worker.phase = "waiting" /\ worker.on = b
         THEN Finish(answer)
         ELSE UNCHANGED <<worker, retries, timers, unwatched>>

\* The card is rendered and the page found unchanged, or the build fails.
Render(b) ==
    /\ build[b].phase = "rendering"
    /\ UNCHANGED <<BuildLeaves, stored>>
    /\ \/ /\ page = build[b].version
          /\ build' = [build EXCEPT ![b].phase = "saving"]
          /\ UNCHANGED <<worker, retries, timers, unwatched>>
       \/ End(b, "failed")

\* Wrong variant: any card of the live page at its slug will do.
CurrentSlug(b) == page # Offline /\ Slug(page) = Slug(build[b].version)
StillCurrent(b) == page = build[b].version

\* Store.Save: under the lock of the row; the commit's answer may be lost.
Save(b) ==
    /\ build[b].phase = "saving"
    /\ UNCHANGED BuildLeaves
    /\ \/ StillCurrent(b) /\ stored' = build[b].version /\ End(b, "settled")
       \/ StillCurrent(b) /\ stored' = build[b].version /\ End(b, "failed")
       \/ ~StillCurrent(b) /\ stored' = stored /\ End(b, "settled")
       \/ stored' = stored /\ End(b, "failed")

-----------------------------------------------------------------------------
(* The start sweep.                                                        *)

SweepOver == [step |-> "done", card |-> NoCard]
SweepLeaves == <<realtime, cards, quiet, worker, retries, timers, build>>

SweepLists ==
    /\ sweep.step = "start"
    /\ sweep' = IF page = Offline THEN SweepOver ELSE [step |-> "listed", card |-> stored]
    /\ unwatched' = FALSE
    /\ UNCHANGED <<SweepLeaves, work>>

\* The list could not be read, not even on a retry.
SweepFails ==
    /\ sweep.step = "start"
    /\ UNCHANGED <<SweepLeaves, work>>
    /\ sweep' = SweepOver
    /\ GiveUp

\* The page is read again and compared with the card the list had.
SweepChecks ==
    /\ sweep.step = "listed"
    /\ UNCHANGED SweepLeaves
    /\ sweep' = SweepOver
    /\ \/ work' = work /\ GiveUp
       \/ page \in {Offline, sweep.card} /\ UNCHANGED <<work, unwatched>>
       \/ page \notin {Offline, sweep.card} /\ Enqueue("changed")

-----------------------------------------------------------------------------
CardsKeep == <<cards, scheduler, build, unwatched>>

WorkerStep == TakeCheck \/ ReadLive \/ ReadStored
BuildStep(b) == Render(b) \/ Save(b)
SweepStep == SweepLists \/ SweepFails \/ SweepChecks

Next ==
    \/ \E p \in Versions \cup {Offline}, deletes \in BOOLEAN : Change(p, deletes)
    \/ (CloseFence \/ OpenFence \/ ListenerStep) /\ UNCHANGED CardsKeep
    \/ \E s \in Streams : StreamStep(s) /\ UNCHANGED CardsKeep
    \/ LoseConnection \/ PublishChange
    \/ QuietEnds \/ RetryFires
    \/ WorkerStep \/ Request
    \/ \E b \in Priorities : BuildStep(b)
    \/ SweepStep

Spec == Init /\ [][Next]_vars

\* Goroutines run, timers fire and every build has a deadline; nothing is
\* assumed of changes, requests, clients or the connection's health.  A stream
\* that runs writes what is queued, or returns from a canceled lease.
Fairness ==
    /\ WF_vars(ListenerStep /\ UNCHANGED CardsKeep)
    /\ WF_vars(PublishChange)
    /\ \A s \in Streams : WF_vars(StreamRuns(s) /\ UNCHANGED CardsKeep)
    /\ WF_vars(QuietEnds \/ RetryFires \/ SweepStep \/ WorkerStep \/ BuildStep("low"))
    /\ WF_vars(BuildStep("normal"))

FairSpec == Spec /\ Fairness

-----------------------------------------------------------------------------
(* Correctness.                                                            *)

TypeOK ==
    /\ RealtimeTypeOK
    /\ page \in Versions \cup {Offline}
    /\ stored \in Versions \cup {NoCard}
    /\ sweep \in [step : {"start", "listed", "done"}, card : Versions \cup {NoCard}]
    /\ quiet \in BOOLEAN /\ unwatched \in BOOLEAN
    /\ work \in Seq({"missing", "changed"})
    /\ retries \in 0..MaxRetries /\ timers \in Nat
    /\ worker \in {Idle}
         \cup [phase : {"taken"}, kind : {"missing", "changed"}]
         \cup [phase : {"read"}, kind : {"missing", "changed"}, version : Versions]
         \cup [phase : {"waiting"}, on : Priorities]
    /\ build \in [Priorities -> {NoBuild} \cup [phase : {"rendering", "saving"}, version : Versions]]

\* A stored card belongs to the live page at its present slug: withdrawal,
\* rename and deletion leave no card behind, whatever builds are under way.
CardOfCurrentPage ==
    stored # NoCard => page # Offline /\ Slug(stored) = Slug(page)

\* A current card is only taken away by a change of the page: no late build of
\* an older card replaces it.
CurrentCardStays ==
    [][stored = page /\ page' = page => stored' = stored]_vars

Outdated == page # Offline /\ stored # page

\* The card of a live resume becomes current, unless whoever was to look after
\* its last change gave up: the notification was lost, the queue full
\* or the retries used up.
CardsBecomeCurrent == (Outdated /\ ~unwatched) ~> (~Outdated \/ unwatched)
=============================================================================

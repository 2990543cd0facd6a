----------------------------- MODULE RenderQueue -----------------------------
(***************************************************************************)
(* The queue in front of the browser that renders PDFs and share images    *)
(* (internal/renderjob).                                                   *)
(*                                                                         *)
(* Each call of Queue.Render is a goroutine: it is admitted, prepares a    *)
(* snapshot, installs a job with a one-use print capability, waits for the *)
(* one render permit, drives the browser, and completes.  What it shares   *)
(* with the others is behind q.mu, and a step here is one critical section *)
(* of q.mu, one channel operation or the return of one callback.  Its      *)
(* context, its deadline and its capability each have a callback that may  *)
(* run at any moment in a goroutine of its own and cancel the attempt.     *)
(*                                                                         *)
(* A map entry is a phase of the call: q.attempts holds exactly the calls  *)
(* between admission and release.  The attempt's context is done when it   *)
(* was canceled, which sets a reason, or when the caller's is.  Digests    *)
(* and the binding they check are left out: a page presents the capability *)
(* it was given.                                                           *)
(***************************************************************************)
EXTENDS FiniteSets, Integers

CONSTANTS
    Renders,              \* calls of Queue.Render
    LowPriority,          \* those that render in the background
    Public,               \* those whose result must still be current
    Departing,            \* bound: those whose caller may end its context
    Capacity,             \* calls that are admitted at once
    LowPriorityMaxWaiting \* waiting calls behind which a low one still enters

ASSUME RendersAssumption == LowPriority \cup Public \cup Departing \subseteq Renders
ASSUME FiniteAssumption == IsFiniteSet(Renders)
ASSUME CapacityAssumption == Capacity \in Nat \ {0, 1} /\ LowPriorityMaxWaiting \in Nat

VARIABLES
    call,      \* per call: how far Render has got
    answer,    \* per call: what it returns
    reason,    \* per call: why its attempt was canceled
    job,       \* per call: its entry in q.jobs
    callback,  \* per call: the callbacks it registered
    permit,    \* the render permit is in its channel
    gone,      \* the callers whose context is done
    handed,    \* history: how often a snapshot was handed to a page
    close,     \* how far Close has got
    joining    \* the attempts Close waits for

outside == <<gone, handed, close, joining>>
vars == <<call, answer, reason, job, callback, permit, outside>>

\* An attempt is canceled because its capability expired unused, or because its
\* caller left, its deadline passed or the queue was closed.
Reasons == {"expired", "stopped"}

\* The calls that hold the permit, and those that are in q.attempts.
Permitted == {"permitted", "rendering", "rendered", "validating", "validated", "leaving"}
Admitted == {"preparing", "waiting", "releasing"} \cup Permitted
Attempts == {r \in Renders : call[r] \in Admitted}

Callbacks == {"caller", "deadline", "expiry"}

TypeOK ==
    /\ call \in [Renders -> Admitted \cup {"idle", "joining", "done"}]
    /\ answer \in [Renders -> {"none", "error", "artifact"}]
    /\ reason \in [Renders -> Reasons \cup {"none"}]
    /\ job \in [Renders -> {"none", "unused", "redeemed", "completing"}]
    /\ callback \in [Renders -> [Callbacks -> {"none", "armed", "unneeded", "running", "over"}]]
    /\ permit \in BOOLEAN
    /\ gone \subseteq Renders
    /\ handed \in [Renders -> 0..1]
    /\ close \in {"open", "joining", "joined"}
    /\ joining \subseteq Renders

Init ==
    /\ call = [r \in Renders |-> "idle"]
    /\ answer = [r \in Renders |-> "none"]
    /\ reason = [r \in Renders |-> "none"]
    /\ job = [r \in Renders |-> "none"]
    /\ callback = [r \in Renders |-> [c \in Callbacks |-> "none"]]
    /\ permit = TRUE
    /\ gone = {}
    /\ handed = [r \in Renders |-> 0]
    /\ close = "open" /\ joining = {}

-----------------------------------------------------------------------------

Closed == close # "open"
Stored(r) == job[r] \in {"unused", "redeemed", "completing"}
Canceled(r) == reason[r] # "none" \/ r \in gone

\* The attempts of S are canceled, each for the first reason it is given, and
\* their jobs go at once.
Cancel(S, why) ==
    /\ reason' = [r \in Renders |->
                    IF r \in S \cap Attempts /\ reason[r] = "none" THEN why ELSE reason[r]]
    /\ job' = [r \in Renders |->
                 IF r \in S \cap Attempts THEN "none" ELSE job[r]]

Remove(r) == reason' = reason /\ job' = [job EXCEPT ![r] = "none"]
Keep == UNCHANGED <<reason, job>>

Goes(r, phase) == call' = [call EXCEPT ![r] = phase] /\ answer' = answer
Returns(r, a, phase) == call' = [call EXCEPT ![r] = phase] /\ answer' = [answer EXCEPT ![r] = a]

-----------------------------------------------------------------------------
(* Render.                                                                 *)

\* A background render enters only behind few others.
Fits(r) ==
    /\ Cardinality(Attempts) < Capacity
    /\ r \in LowPriority => Cardinality(Attempts) <= 1 + LowPriorityMaxWaiting

Admit(r) ==
    /\ call[r] = "idle" /\ r \notin gone
    /\ ~Closed /\ Fits(r)
    /\ Goes(r, "preparing") /\ Keep
    /\ callback' = [callback EXCEPT ![r]["caller"] = "armed", ![r]["deadline"] = "armed"]
    /\ UNCHANGED <<permit, outside>>

Refuse(r) ==
    /\ call[r] = "idle"
    /\ Closed \/ ~Fits(r) \/ r \in gone
    /\ Returns(r, "error", "done") /\ Keep
    /\ UNCHANGED <<callback, permit, outside>>

\* Prepare returns, the job gets its id and authority, any of which may fail,
\* and it goes into q.jobs unless the attempt was canceled in the meantime.
Prepare(r) ==
    /\ call[r] = "preparing"
    /\ \/ Returns(r, "error", "releasing") /\ Keep /\ callback' = callback
       \/ /\ ~Canceled(r)
          /\ Goes(r, "waiting")
          /\ job' = [job EXCEPT ![r] = "unused"] /\ reason' = reason
          /\ callback' = [callback EXCEPT ![r]["expiry"] = "armed"]
    /\ UNCHANGED <<permit, outside>>

\* The select: the attempt is done, or the permit is there.
GiveUpWaiting(r) ==
    /\ call[r] = "waiting" /\ Canceled(r)
    /\ Returns(r, "error", "releasing") /\ Keep
    /\ UNCHANGED <<callback, permit, outside>>

TakePermit(r) ==
    /\ call[r] = "waiting" /\ permit
    /\ permit' = FALSE
    /\ Goes(r, "permitted") /\ Keep
    /\ UNCHANGED <<callback, outside>>

\* An attempt canceled before it got the permit leaves with it.
BeginRender(r) ==
    /\ call[r] = "permitted"
    /\ IF Canceled(r) THEN Returns(r, "error", "leaving") ELSE Goes(r, "rendering")
    /\ Keep /\ UNCHANGED <<callback, permit, outside>>

\* The browser is joined and gives output or an error.
EndRender(r) ==
    /\ call[r] = "rendering"
    /\ \/ Canceled(r) /\ Returns(r, "error", "leaving") /\ Keep
       \/ ~Canceled(r) /\ Returns(r, "error", "leaving") /\ Remove(r)
       \/ ~Canceled(r) /\ Goes(r, "rendered") /\ Keep
    /\ UNCHANGED <<callback, permit, outside>>

\* A completion step that finds the caller gone cancels the attempt in the map
\* too, before its callback runs; one that finds the job gone was overtaken.
StopsCompleting(r) ==
    /\ Returns(r, "error", "leaving")
    /\ \/ ~Stored(r) /\ Keep
       \/ Stored(r) /\ Canceled(r) /\ Cancel({r}, "stopped")

\* The output is for a job whose capability was redeemed, and not too large.
StartCompletion(r) ==
    /\ call[r] = "rendered"
    /\ \/ job[r] # "redeemed" /\ Returns(r, "error", "leaving") /\ Keep
       \/ job[r] = "redeemed" /\ StopsCompleting(r)
       \/ /\ job[r] = "redeemed" /\ ~Canceled(r)
          /\ \/ Returns(r, "error", "leaving") /\ Remove(r)
             \/ /\ Goes(r, IF r \in Public THEN "validating" ELSE "validated")
                /\ job' = [job EXCEPT ![r] = "completing"] /\ reason' = reason
    /\ UNCHANGED <<callback, permit, outside>>

\* The validator has compared the generation outside the lock.
Validate(r) ==
    /\ call[r] = "validating"
    /\ \/ StopsCompleting(r)
       \/ /\ Stored(r) /\ ~Canceled(r)
          /\ \/ Returns(r, "error", "leaving") /\ Remove(r)
             \/ Goes(r, "validated") /\ Keep
    /\ UNCHANGED <<callback, permit, outside>>

PublishAnyway(r) ==
    /\ call[r] = "validated"
    /\ \/ ~Stored(r) /\ StopsCompleting(r)
       \/ Stored(r) /\ Returns(r, "artifact", "leaving") /\ Remove(r)
    /\ UNCHANGED <<callback, permit, outside>>
FinishCompletion(r) ==
    /\ call[r] = "validated"
    /\ \/ StopsCompleting(r)
       \/ Stored(r) /\ ~Canceled(r) /\ Returns(r, "artifact", "leaving") /\ Remove(r)
    /\ UNCHANGED <<callback, permit, outside>>

\* The deferred calls: the permit goes back, then the attempt.
ReturnPermit(r) ==
    /\ call[r] = "leaving"
    /\ ~permit
    /\ permit' = TRUE
    /\ Goes(r, "releasing") /\ Keep
    /\ UNCHANGED <<callback, outside>>

ReleaseAttempt(r) ==
    /\ call[r] = "releasing"
    /\ Goes(r, "joining") /\ Remove(r)
    /\ UNCHANGED <<callback, permit, outside>>

\* The callbacks are stopped, and those that run are waited for.
Return(r) ==
    /\ Goes(r, "done") /\ Keep
    /\ callback' = [callback EXCEPT ![r] =
                      [c \in Callbacks |-> IF @[c] = "running" THEN "running" ELSE "over"]]
    /\ UNCHANGED <<permit, outside>>
StopOnly(r) == call[r] = "joining" /\ Return(r)
NeverFinish(r) ==
    /\ call[r] = "joining"
    /\ \A c \in Callbacks : callback[r][c] \notin {"armed", "unneeded", "running"}
    /\ Return(r)
JoinCallbacks(r) ==
    /\ call[r] = "joining"
    /\ \A c \in Callbacks : callback[r][c] # "running"
    /\ Return(r)

-----------------------------------------------------------------------------
(* The print page, the callbacks and Close.                                *)

\* A page presents the capability of r, which its navigation carries, before it
\* has expired.  A call that leaves without a navigation was canceled, and no
\* page gets a snapshot of it.
Presented(r) == /\ call[r] \in {"rendering", "rendered", "leaving", "releasing"}
                /\ callback[r]["expiry"] \in {"armed", "unneeded"}

\* The snapshot is handed out, and the expiry is left to be stopped.
HandOut(r) ==
    /\ job' = [job EXCEPT ![r] = "redeemed"] /\ reason' = reason
    /\ callback' = [callback EXCEPT ![r]["expiry"] = "unneeded"]
    /\ handed' = [handed EXCEPT ![r] = @ + 1]

RedeemAgain(r) ==
    /\ Presented(r) /\ Stored(r)
    /\ \/ Canceled(r) /\ Cancel({r}, "stopped") /\ UNCHANGED <<callback, handed>>
       \/ ~Canceled(r) /\ HandOut(r)
    /\ UNCHANGED <<call, answer, permit, gone, close, joining>>
Redeem(r) ==
    /\ Presented(r) /\ job[r] = "unused"
    /\ \/ Canceled(r) /\ Cancel({r}, "stopped") /\ UNCHANGED <<callback, handed>>
       \/ ~Canceled(r) /\ HandOut(r)
    /\ UNCHANGED <<call, answer, permit, gone, close, joining>>

\* Redeem stops the expiry after it has left the lock.
StopExpiry(r) ==
    /\ callback[r]["expiry"] = "unneeded"
    /\ callback' = [callback EXCEPT ![r]["expiry"] = "over"]
    /\ Keep /\ UNCHANGED <<call, answer, permit, outside>>

\* The caller's context ends, which starts the callback registered for that.
CallerGoes(r) ==
    /\ r \in Departing \ gone /\ call[r] # "done"
    /\ gone' = gone \cup {r}
    /\ callback' = [callback EXCEPT ![r]["caller"] = IF @ = "armed" THEN "running" ELSE @]
    /\ Keep /\ UNCHANGED <<call, answer, permit, handed, close, joining>>

\* A timer's callback starts.
Fire(r, timer) ==
    /\ callback[r][timer] \in {"armed", "unneeded"}
    /\ callback' = [callback EXCEPT ![r][timer] = "running"]
    /\ Keep /\ UNCHANGED <<call, answer, permit, outside>>

\* A capability that was redeemed in time does not end its attempt any more.
ExpiresRedeemed(r) == Cancel({r}, "expired")
ExpireCapability(r) ==
    IF job[r] = "unused" THEN Cancel({r}, "expired") ELSE Keep

RunCallback(r, c) ==
    /\ callback[r][c] = "running"
    /\ callback' = [callback EXCEPT ![r][c] = "over"]
    /\ IF c = "expiry" THEN ExpireCapability(r) ELSE Cancel({r}, "stopped")
    /\ UNCHANGED <<call, answer, permit, outside>>

StartClose ==
    /\ close = "open"
    /\ close' = "joining"
    /\ joining' = Attempts
    /\ Cancel(Attempts, "stopped")
    /\ UNCHANGED <<call, answer, callback, permit, gone, handed>>

FinishClose ==
    /\ close = "joining"
    /\ \A r \in joining : call[r] = "done"
    /\ close' = "joined"
    /\ Keep /\ UNCHANGED <<call, answer, callback, permit, gone, handed, joining>>

-----------------------------------------------------------------------------

Render(r) ==
    \/ Admit(r) \/ Refuse(r) \/ Prepare(r)
    \/ GiveUpWaiting(r) \/ TakePermit(r) \/ BeginRender(r) \/ EndRender(r)
    \/ StartCompletion(r) \/ Validate(r) \/ FinishCompletion(r)
    \/ ReturnPermit(r) \/ ReleaseAttempt(r) \/ JoinCallbacks(r)

Page(r) == Redeem(r) \/ StopExpiry(r)

Timers(r) == \/ \E timer \in {"deadline", "expiry"} : Fire(r, timer)
             \/ \E c \in Callbacks : RunCallback(r, c)

Next ==
    \/ \E r \in Renders : Render(r) \/ Page(r) \/ Timers(r) \/ CallerGoes(r)
    \/ StartClose \/ FinishClose

Spec == Init /\ [][Next]_vars

\* The steps a call takes whatever happens.  What its caller supplies (Prepare,
\* the renderer, the validator) returns once its context is done; nothing else
\* is assumed of it, nor that a waiting call is ever given the permit.
Proceed(r) ==
    \/ GiveUpWaiting(r) \/ BeginRender(r) \/ StartCompletion(r) \/ FinishCompletion(r)
    \/ ReturnPermit(r) \/ ReleaseAttempt(r) \/ JoinCallbacks(r)
    \/ Canceled(r) /\ (Prepare(r) \/ EndRender(r) \/ Validate(r))

\* Goroutines run and deadlines pass.
Fairness ==
    /\ \A r \in Renders : /\ WF_vars(Proceed(r)) /\ WF_vars(StopExpiry(r))
                         /\ WF_vars(Fire(r, "deadline"))
                         /\ WF_vars(\E c \in Callbacks : RunCallback(r, c))
    /\ WF_vars(FinishClose)

FairSpec == Spec /\ Fairness

-----------------------------------------------------------------------------
(* Properties.                                                             *)

\* The one permit is either in its channel or held by one call: every way out
\* of a render, canceled, failed or complete, hands it back exactly once.
PermitConserved ==
    /\ permit = (\A r \in Renders : call[r] \notin Permitted)
    /\ \A r, s \in Renders : call[r] \in Permitted /\ call[s] \in Permitted => r = s

\* A job with live authority belongs to an attempt that is admitted and that
\* nobody has canceled, and there is none once Close has begun: a cancellation
\* that comes while the snapshot is prepared is not lost by a late install.
JobsAreLive ==
    \A r \in Renders :
      Stored(r) => r \in Attempts /\ reason[r] = "none" /\ ~Closed

\* A render returns an artifact only when, at its last step, the caller is
\* there, nothing has canceled the attempt, and one page had the snapshot.
ArtifactsAuthorized ==
    [][\A r \in Renders :
         answer'[r] = "artifact" /\ answer[r] # "artifact"
           => ~Canceled(r) /\ ~Closed /\ handed[r] = 1]_vars

\* A page gets a snapshot for a job no page redeemed, in time, of an attempt
\* that runs.
SnapshotsHandedOnce ==
    [][\A r \in Renders :
         handed'[r] # handed[r]
           => /\ handed[r] = 0
              /\ ~Canceled(r) /\ ~Closed
              /\ callback[r]["expiry"] = "armed"]_vars

\* The expiry of a capability that was redeemed in time cancels nothing, though
\* its timer fires before Redeem has stopped it.
RedeemedNotExpired ==
    \A r \in Renders : reason[r] = "expired" => handed[r] = 0

\* When Render returns, none of its callbacks runs or can still run.
RenderJoinsCallbacks ==
    \A r \in Renders : call[r] = "done" =>
      \A c \in Callbacks : callback[r][c] \in {"none", "over"}

\* When Close has returned, no call is admitted, none holds the permit, and
\* none will.
CloseIsFinal == close = "joined" => Attempts = {} /\ permit

\* The admission bound holds, and background renders alone take at most one
\* place more than they may find taken.
AdmissionBounded ==
    /\ Cardinality(Attempts) <= Capacity
    /\ Cardinality(Attempts \cap LowPriority) <= 2 + LowPriorityMaxWaiting

\* What the above follow from.  A call that was not admitted has nothing yet,
\* what happened to a job's capability shows in its state, Close waits for all
\* attempts and leaves none that is not canceled.
Untouched ==
    \A r \in Renders :
      /\ call[r] = "idle" => \A c \in Callbacks : callback[r][c] = "none"
      /\ call[r] \in {"idle", "preparing"} => job[r] = "none" /\ handed[r] = 0

CapabilityTold ==
    \A r \in Renders :
      /\ job[r] = "unused" => handed[r] = 0
      /\ job[r] \in {"redeemed", "completing"} => handed[r] = 1
      /\ call[r] \in {"validating", "validated"} => handed[r] = 1
      /\ callback[r]["expiry"] = "unneeded" => handed[r] = 1

CloseHasAll ==
    /\ close = "joining" => Attempts \subseteq joining
    /\ close = "joined" => Attempts = {}
    /\ Closed => \A r \in Attempts : reason[r] # "none"

IInv ==
    /\ TypeOK
    /\ PermitConserved
    /\ JobsAreLive
    /\ RedeemedNotExpired
    /\ RenderJoinsCallbacks
    /\ Untouched
    /\ CapabilityTold
    /\ CloseHasAll

\* Every call of Render returns, and Close does.
EveryRenderReturns == \A r \in Renders : call[r] = "preparing" ~> call[r] = "done"
CloseReturns == close = "joining" ~> close = "joined"
=============================================================================

----------------------------- MODULE PublicState -----------------------------
(***************************************************************************)
(* The in-process coordinator that admits public responses                 *)
(* (apps/server/internal/publicstate).                                     *)
(*                                                                         *)
(* Every public resume, and the discovery aggregate, has a FENCE: the      *)
(* generation that may be served now and whether new responses are         *)
(* admitted.  A response holds a LEASE on the fence until its bytes are    *)
(* sent.  A mutation runs a TRANSITION over the fences it changes: it      *)
(* claims them in one fixed order, closes admission, cancels and drains    *)
(* the leases a revoking change must not outlive, waits for the caller's   *)
(* database transaction, then opens the fences at the committed            *)
(* generations, or at the old ones.                                        *)
(*                                                                         *)
(* One action is one critical section: the per-fence mutex makes each      *)
(* fence operation atomic, and a loop over the targets of a transition is  *)
(* one action per target, so readers run between any two of them.          *)
(*                                                                         *)
(* Abstractions.  Fence 0 is discovery and 1..NumResumes are resumes, so   *)
(* the claim order of the code (discovery first, then ascending id bytes)  *)
(* is the order of the integers.  The code groups leases into sets and     *)
(* seals sets; close seals every set the fence has at that moment, and     *)
(* nothing is admitted until open starts a new set, so a "sealed" mark on  *)
(* each lease carries the same information.  Metrics are left out.         *)
(***************************************************************************)
EXTENDS Naturals, FiniteSets

CONSTANTS
    NumResumes,     \* how many resumes have, or may get, a fence
    Transitions,    \* slots for transitions: at most this many at once
    Leases,         \* slots for leases: at most this many responses at once
    MaxGen          \* bound: no generation above it is reached

ASSUME NumResumesAssumption == NumResumes \in Nat
ASSUME MaxGenAssumption == MaxGen \in Nat \ {0}

Discovery == 0
Fences == 0..NumResumes
Resumes == 1..NumResumes
Generations == 1..MaxGen

\* The outcome of a committed target that is deleted; as a floor, the level
\* above every generation.
Retired == MaxGen + 1

VARIABLES
    fenceState,     \* per fence: "absent", "open", "closing", "closed", "retired"
    generation,     \* per fence: the generation it admits (0 while absent)
    owner,          \* per fence: a transition has claimed it
    unresolved,     \* per fence: recovery could not prove the outcome
    floor,          \* history: no response below this level may still be admitted
    lease,          \* per slot: the lease in it
    phase,          \* per transition: where Begin, Close, Commit ... has got to
    targets,        \* per transition: the fences of its plan
    revoking,       \* per transition: the targets that cancel and drain leases
    expected,       \* per transition: the generation the plan expects of a target
    outcome,        \* per transition: the committed generation, or Retired
    claimed,        \* per transition: the fences it owns
    todo            \* per transition: the targets the current loop has left

fenceVars == <<fenceState, generation, owner, unresolved, floor>>
transitionVars == <<phase, targets, revoking, expected, outcome, claimed, todo>>
vars == <<fenceVars, lease, transitionVars>>

FenceStates == {"absent", "open", "closing", "closed", "retired"}
Phases == {"idle", "claiming", "begun", "closing", "canceling", "draining",
           "closed", "committing", "reopening", "releasing"}

LeaseRecord == [active : BOOLEAN, fence : Fences, gen : 0..MaxGen,
                sealed : BOOLEAN, canceled : BOOLEAN]
NoLease == [active |-> FALSE, fence |-> Discovery, gen |-> 0,
            sealed |-> FALSE, canceled |-> FALSE]

TypeOK ==
    /\ fenceState \in [Fences -> FenceStates]
    /\ generation \in [Fences -> 0..MaxGen]
    /\ owner \in [Fences -> BOOLEAN]
    /\ unresolved \in [Fences -> BOOLEAN]
    /\ floor \in [Fences -> 0..Retired]
    /\ lease \in [Leases -> LeaseRecord]
    /\ phase \in [Transitions -> Phases]
    /\ targets \in [Transitions -> SUBSET Fences]
    /\ revoking \in [Transitions -> SUBSET Fences]
    /\ expected \in [Transitions -> [Fences -> 0..MaxGen]]
    /\ outcome \in [Transitions -> [Fences -> 0..Retired]]
    /\ claimed \in [Transitions -> SUBSET Fences]
    /\ todo \in [Transitions -> SUBSET Fences]

Zeros == [f \in Fences |-> 0]

\* A new coordinator: the discovery fence is open at the durable generation
\* the process loaded, and no resume has a fence yet.
Init ==
    /\ fenceState = [f \in Fences |-> IF f = Discovery THEN "open" ELSE "absent"]
    /\ generation = [f \in Fences |-> IF f = Discovery THEN 1 ELSE 0]
    /\ owner = [f \in Fences |-> FALSE]
    /\ unresolved = [f \in Fences |-> FALSE]
    /\ floor = Zeros
    /\ lease = [l \in Leases |-> NoLease]
    /\ phase = [t \in Transitions |-> "idle"]
    /\ targets = [t \in Transitions |-> {}]
    /\ revoking = [t \in Transitions |-> {}]
    /\ expected = [t \in Transitions |-> Zeros]
    /\ outcome = [t \in Transitions |-> Zeros]
    /\ claimed = [t \in Transitions |-> {}]
    /\ todo = [t \in Transitions |-> {}]

-----------------------------------------------------------------------------
(* Readers: AcquireResume, AcquireDiscovery and Lease.Release.             *)

\* AcquireResume finds no fence and creates one, open at the revision the
\* caller read.  The admission itself is a later critical section.
CreateFence(f, g) ==
    /\ f \in Resumes
    /\ fenceState[f] = "absent"
    /\ fenceState' = [fenceState EXCEPT ![f] = "open"]
    /\ generation' = [generation EXCEPT ![f] = g]
    /\ UNCHANGED <<owner, unresolved, floor, lease, transitionVars>>

\* A response for generation g is admitted: the fence is open at exactly g.
\* An attempt that finds it otherwise changes nothing.
Acquire(l, f, g) ==
    /\ ~lease[l].active
    /\ fenceState[f] = "open"
    /\ generation[f] = g
    /\ lease' = [lease EXCEPT ![l] = [active |-> TRUE, fence |-> f, gen |-> g,
                                      sealed |-> FALSE, canceled |-> FALSE]]
    /\ UNCHANGED <<fenceVars, transitionVars>>

\* The response ends, canceled or complete.  A second Release is a no-op.
Release(l) ==
    /\ lease[l].active
    /\ lease' = [lease EXCEPT ![l] = NoLease]
    /\ UNCHANGED <<fenceVars, transitionVars>>

-----------------------------------------------------------------------------
(* Begin: create the missing fences, then claim the targets in order.      *)

\* Wrong variant: the targets in any order.
AnyTarget(f, S) == f \in S

\* f is the target that the ordered loop over S reaches next.
IsNext(f, S) == f \in S /\ \A g \in S : f <= g

Begin(t, T, R, E) ==
    LET missing == {f \in T : fenceState[f] = "absent"} IN
    /\ phase[t] = "idle"
    /\ T # {}
    /\ R \subseteq T
    /\ Discovery \in T => Discovery \in R
    /\ fenceState' = [f \in Fences |-> IF f \in missing THEN "open" ELSE fenceState[f]]
    /\ generation' = [f \in Fences |-> IF f \in missing THEN E[f] ELSE generation[f]]
    /\ phase' = [phase EXCEPT ![t] = "claiming"]
    /\ targets' = [targets EXCEPT ![t] = T]
    /\ revoking' = [revoking EXCEPT ![t] = R]
    /\ expected' = [expected EXCEPT ![t] = E]
    /\ UNCHANGED <<owner, unresolved, floor, lease, outcome, claimed, todo>>

\* Transition t is over; its slot is free again and keeps nothing of it.
Finish(t) ==
    /\ phase' = [phase EXCEPT ![t] = "idle"]
    /\ targets' = [targets EXCEPT ![t] = {}]
    /\ revoking' = [revoking EXCEPT ![t] = {}]
    /\ expected' = [expected EXCEPT ![t] = Zeros]
    /\ outcome' = [outcome EXCEPT ![t] = Zeros]

\* Give up: the fences claimed so far are released one by one.
StartRelease(t) ==
    /\ IF claimed[t] = {}
          THEN Finish(t)
          ELSE /\ phase' = [phase EXCEPT ![t] = "releasing"]
               /\ UNCHANGED <<targets, revoking, expected, outcome>>
    /\ UNCHANGED <<fenceVars, lease, claimed, todo>>

\* Wrong variant: a claim that overlooks the generation.
ClaimableAtAnyGeneration(t, f) == ~owner[f] /\ fenceState[f] = "open"

Claimable(t, f) ==
    /\ ~owner[f]
    /\ fenceState[f] = "open"
    /\ generation[f] = expected[t][f]

Claim(t, f) ==
    /\ phase[t] = "claiming"
    /\ IsNext(f, targets[t] \ claimed[t])
    /\ Claimable(t, f)
    /\ owner' = [owner EXCEPT ![f] = TRUE]
    /\ claimed' = [claimed EXCEPT ![t] = @ \cup {f}]
    /\ phase' = [phase EXCEPT ![t] =
                    IF targets[t] \subseteq claimed[t] \cup {f} THEN "begun" ELSE @]
    /\ UNCHANGED <<fenceState, generation, unresolved, floor, lease,
                   targets, revoking, expected, outcome, todo>>

\* The fence is free but retired, or has moved to another generation.
RefuseClaim(t, f) ==
    /\ phase[t] = "claiming"
    /\ IsNext(f, targets[t] \ claimed[t])
    /\ ~owner[f]
    /\ ~Claimable(t, f)
    /\ StartRelease(t)

\* The caller's context ends while the claim waits for the fence's owner.
AbandonClaim(t, f) ==
    /\ phase[t] = "claiming"
    /\ IsNext(f, targets[t] \ claimed[t])
    /\ owner[f]
    /\ StartRelease(t)

-----------------------------------------------------------------------------
(* Close: stop admission, cancel, drain.                                   *)

\* Rollback before Close, or Close with a context that has already ended.
ReleaseBegun(t) ==
    /\ phase[t] = "begun"
    /\ StartRelease(t)

StartLoop(t, p) ==
    /\ phase' = [phase EXCEPT ![t] = p]
    /\ todo' = [todo EXCEPT ![t] = targets[t]]

StartClose(t) ==
    /\ phase[t] = "begun"
    /\ StartLoop(t, "closing")
    /\ UNCHANGED <<fenceVars, lease, targets, revoking, expected, outcome, claimed>>

\* The loop of transition t moves past target f, and to phase p after the last.
Advance(t, f, p) ==
    /\ todo' = [todo EXCEPT ![t] = @ \ {f}]
    /\ phase' = [phase EXCEPT ![t] = IF todo[t] = {f} THEN p ELSE @]

\* Wrong variant: nothing is sealed, so nothing is canceled or drained.
SealNothing(f) == lease

Seal(f) ==
    [l \in Leases |-> IF lease[l].active /\ lease[l].fence = f
                        THEN [lease[l] EXCEPT !.sealed = TRUE]
                        ELSE lease[l]]

\* Stop admission to one target; a revoking target seals all its leases.
CloseFence(t, f) ==
    /\ phase[t] = "closing"
    /\ IsNext(f, todo[t])
    /\ fenceState' = [fenceState EXCEPT ![f] = "closing"]
    /\ lease' = IF f \in revoking[t] THEN Seal(f) ELSE lease
    /\ Advance(t, f, "canceling")
    /\ UNCHANGED <<generation, owner, unresolved, floor,
                   targets, revoking, expected, outcome, claimed>>

\* Wrong variants: nothing is canceled; every response of a target is.
CancelNothing(t) == {}
CancelAllTargets(t) ==
    {l \in Leases : lease[l].active /\ lease[l].fence \in targets[t] /\ ~lease[l].canceled}

\* The leases Close collected and has not canceled.  A collected lease that
\* was released meanwhile needs no cancel, and one an earlier Close canceled
\* is not canceled twice.
ToCancel(t) ==
    {l \in Leases : /\ lease[l].active
                    /\ lease[l].fence \in revoking[t]
                    /\ lease[l].sealed
                    /\ ~lease[l].canceled}

CancelLease(t, l) ==
    /\ phase[t] = "canceling"
    /\ l \in ToCancel(t)
    /\ lease' = [lease EXCEPT ![l].canceled = TRUE]
    /\ UNCHANGED <<fenceVars, transitionVars>>

StartDrain(t) ==
    /\ phase[t] = "canceling"
    /\ ToCancel(t) = {}
    /\ StartLoop(t, "draining")
    /\ UNCHANGED <<fenceVars, lease, targets, revoking, expected, outcome, claimed>>

\* Wrong variant: a response that was told to stop counts as stopped.
StragglersNotCanceled(f) ==
    {l \in Leases : lease[l].active /\ lease[l].fence = f /\ lease[l].sealed /\ ~lease[l].canceled}

\* The responses a drain of f waits for: those sealed by this Close and those
\* that outlived an earlier one.
Stragglers(f) == {l \in Leases : lease[l].active /\ lease[l].fence = f /\ lease[l].sealed}

\* One target is drained.  After the last, every target is marked closed: the
\* marking loop is one step here, since closing and closed differ for nobody
\* else while the transition owns the fence.
Drained(t, f) ==
    /\ phase[t] = "draining"
    /\ IsNext(f, todo[t])
    /\ Stragglers(f) = {}
    /\ Advance(t, f, "closed")
    /\ fenceState' = [g \in Fences |-> IF todo[t] = {f} /\ g \in targets[t]
                                         THEN "closed" ELSE fenceState[g]]
    /\ UNCHANGED <<generation, owner, unresolved, floor, lease,
                   targets, revoking, expected, outcome, claimed>>

\* Wrong variants: Close waits without a deadline; Close gives the fences back
\* as they are, as it may before it has shut any.
DrainForever(t, f) == FALSE
AbortWithoutReopening(t, f) ==
    /\ phase[t] = "draining"
    /\ IsNext(f, todo[t])
    /\ f \in revoking[t] \/ Stragglers(f) # {}
    /\ StartRelease(t)

\* The deadline passes, or the caller's context ends, while Close waits.  It
\* waits only where there is a sealed set: on a revoking target, or on any
\* target that still has a straggler of an earlier Close.
AbortDrain(t, f) ==
    /\ phase[t] = "draining"
    /\ IsNext(f, todo[t])
    /\ f \in revoking[t] \/ Stragglers(f) # {}
    /\ StartLoop(t, "reopening")
    /\ UNCHANGED <<fenceVars, lease, targets, revoking, expected, outcome, claimed>>

-----------------------------------------------------------------------------
(* Commit, Rollback and Recover, from a closed transition.                 *)

\* What validateCommittedState lets through: a positive generation for each
\* target, or retirement, which only a resume can have.  Callers commit the
\* generation they expected or a later one.
ValidOutcome(t, O) ==
    \A f \in targets[t] :
        \/ O[f] \in Generations /\ O[f] >= expected[t][f]
        \/ O[f] = Retired /\ f # Discovery

\* Commit, or Recover with proof that the durable work committed.
Commit(t, O) ==
    /\ phase[t] = "closed"
    /\ ValidOutcome(t, O)
    /\ outcome' = [outcome EXCEPT ![t] = O]
    /\ StartLoop(t, "committing")
    /\ UNCHANGED <<fenceVars, lease, targets, revoking, expected, claimed>>

\* Rollback, or Recover with proof that nothing committed.
Rollback(t) ==
    /\ phase[t] = "closed"
    /\ StartLoop(t, "reopening")
    /\ UNCHANGED <<fenceVars, lease, targets, revoking, expected, outcome, claimed>>

\* Recover without proof: the fences stay closed and owned.
MarkUnresolved(t) ==
    /\ phase[t] = "closed"
    /\ unresolved' = [f \in Fences |-> unresolved[f] \/ f \in targets[t]]
    /\ UNCHANGED <<fenceState, generation, owner, floor, lease, transitionVars>>

\* A revoking commit to another generation promises that nothing older is
\* still being sent; floor remembers the promise.
Floor(t, f) ==
    IF f \in revoking[t] /\ outcome[t][f] # expected[t][f] THEN outcome[t][f] ELSE floor[f]

\* The generation a committed target has afterwards.
CommittedGeneration(t, f) == IF outcome[t][f] = Retired THEN generation[f] ELSE outcome[t][f]

OpenCommitted(t, f) ==
    /\ phase[t] = "committing"
    /\ IsNext(f, todo[t])
    /\ fenceState' = [fenceState EXCEPT ![f] =
                        IF outcome[t][f] = Retired THEN "retired" ELSE "open"]
    /\ generation' = [generation EXCEPT ![f] = CommittedGeneration(t, f)]
    /\ unresolved' = [unresolved EXCEPT ![f] = FALSE]
    /\ floor' = [floor EXCEPT ![f] = Floor(t, f)]
    /\ Advance(t, f, "releasing")
    /\ UNCHANGED <<owner, lease, targets, revoking, expected, outcome, claimed>>

Reopen(t, f) ==
    /\ phase[t] = "reopening"
    /\ IsNext(f, todo[t])
    /\ fenceState' = [fenceState EXCEPT ![f] = "open"]
    /\ generation' = [generation EXCEPT ![f] = expected[t][f]]
    /\ unresolved' = [unresolved EXCEPT ![f] = FALSE]
    /\ Advance(t, f, "releasing")
    /\ UNCHANGED <<owner, floor, lease, targets, revoking, expected, outcome, claimed>>

ReleaseOwner(t, f) ==
    /\ phase[t] = "releasing"
    /\ IsNext(f, claimed[t])
    /\ owner' = [owner EXCEPT ![f] = FALSE]
    /\ claimed' = [claimed EXCEPT ![t] = @ \ {f}]
    /\ IF claimed[t] = {f}
          THEN Finish(t)
          ELSE UNCHANGED <<phase, targets, revoking, expected, outcome>>
    /\ UNCHANGED <<fenceState, generation, unresolved, floor, lease, todo>>

-----------------------------------------------------------------------------
Reader ==
    \/ \E f \in Fences, g \in Generations : CreateFence(f, g)
    \/ \E l \in Leases, f \in Fences, g \in Generations : Acquire(l, f, g)
    \/ \E l \in Leases : Release(l)

\* The plans and outcomes callers may pass: a value outside the targets says
\* nothing, and is 0.
Plans(T) == {E \in [Fences -> 0..MaxGen] : \A f \in Fences : E[f] # 0 <=> f \in T}
Outcomes(T) == {O \in [Fences -> 0..Retired] : \A f \in Fences : O[f] # 0 <=> f \in T}

BeginSome(t) == \E T \in SUBSET Fences : \E R \in SUBSET T, E \in Plans(T) : Begin(t, T, R, E)
CommitSome(t) == \E O \in Outcomes(targets[t]) : Commit(t, O)

\* The steps the coordinator takes by itself once it was called.
Progress(t) ==
    \/ \E f \in Fences :
        \/ Claim(t, f)
        \/ RefuseClaim(t, f)
        \/ CloseFence(t, f)
        \/ Drained(t, f)
        \/ AbortDrain(t, f)
        \/ OpenCommitted(t, f)
        \/ Reopen(t, f)
        \/ ReleaseOwner(t, f)
    \/ \E l \in Leases : CancelLease(t, l)
    \/ StartDrain(t)

\* What the caller decides.
FromBegun(t) == StartClose(t) \/ ReleaseBegun(t)
FromClosed(t) == CommitSome(t) \/ Rollback(t) \/ MarkUnresolved(t)

Next ==
    \/ Reader
    \/ \E t \in Transitions :
        \/ BeginSome(t)
        \/ \E f \in Fences : AbandonClaim(t, f)
        \/ FromBegun(t)
        \/ FromClosed(t)
        \/ Progress(t)

Spec == Init /\ [][Next]_vars

\* A goroutine inside Begin, Close, Commit or Rollback keeps running, its
\* drain timer included; the caller takes a begun transition to Close or
\* Rollback and a closed one to Commit, Rollback or Recover.  Nothing forces a
\* response to end, and nothing forces a second Recover.
Fairness ==
    \A t \in Transitions :
        /\ WF_vars(Progress(t))
        /\ WF_vars(FromBegun(t))
        /\ WF_vars((\A f \in targets[t] : ~unresolved[f]) /\ FromClosed(t))

FairSpec == Spec /\ Fairness

-----------------------------------------------------------------------------
(* Coordinator.Ready, for one fence: what it reports to /readyz.           *)
FenceReady(f) ==
    /\ ~unresolved[f]
    /\ fenceState[f] \in {"closing", "closed"} => owner[f]
    /\ fenceState[f] = "retired" => ~owner[f]

-----------------------------------------------------------------------------
(* Safety.                                                                 *)

\* A fence is marked as owned exactly when one transition holds the claim:
\* ownership is never leaked when Begin gives up halfway, never released twice
\* and never shared (fence.claim, releaseOwner).
OwnershipExclusive ==
    /\ \A f \in Fences : owner[f] <=> \E t \in Transitions : f \in claimed[t]
    /\ \A t, u \in Transitions : t # u => claimed[t] \cap claimed[u] = {}

\* While a transition is closed, that is while the caller's transaction runs,
\* no response of any generation is admitted on a revoking target, whatever
\* non-draining changes or aborted drains left behind (Transition.Close).
RevokedAreDrained ==
    \A t \in Transitions, l \in Leases :
        phase[t] = "closed" /\ lease[l].active => lease[l].fence \notin revoking[t]

\* Once a revoking change has committed, no response of an older generation
\* is being sent, then or later (Transition.Commit; ADR 0010).
RevocationComplete ==
    \A l \in Leases : lease[l].active => lease[l].gen >= floor[lease[l].fence]

\* A fence refuses admission only while some transition owns it, or because
\* its resume is gone: no path leaves a fence shut with nobody to open it.
ShutOnlyWhileOwned ==
    \A f \in Fences : fenceState[f] \in {"closing", "closed"} => owner[f]

\* Begin of t waits for the owner of f.
WaitsFor(t, f) ==
    phase[t] = "claiming" /\ IsNext(f, targets[t] \ claimed[t]) /\ owner[f]

\* Waits never close a circle: of any transitions, one waits for none of the
\* fences the others have claimed, whatever sets of targets overlap how, since
\* Begin sorts them (coordinator.go:244).
NoCircularWait ==
    \A S \in SUBSET Transitions : S # {} =>
        \E t \in S : \A f \in Fences, u \in S : WaitsFor(t, f) => f \notin claimed[u]

-----------------------------------------------------------------------------
(* The inductive invariant behind them.                                    *)

\* The phases in which a transition owns all its targets.
Owning == {"begun", "closing", "canceling", "draining", "closed", "committing", "reopening"}

\* The phases that loop over the targets.
Looping == {"closing", "draining", "committing", "reopening"}

PlanShape ==
    \A t \in Transitions :
        /\ claimed[t] \subseteq targets[t]
        /\ revoking[t] \subseteq targets[t]
        /\ todo[t] \subseteq targets[t]
        /\ phase[t] = "idle" => claimed[t] = {}
        /\ phase[t] \in Owning => claimed[t] = targets[t]
        /\ phase[t] \notin Looping => todo[t] = {}

\* What the phase of its owner says of a claimed fence: until its turn in the
\* opening loop, it still has the generation the plan expected.
FenceInStep(t, f) ==
    /\ phase[t] \in {"claiming", "begun"} => fenceState[f] = "open"
    /\ phase[t] = "closing" => fenceState[f] = IF f \in todo[t] THEN "open" ELSE "closing"
    /\ phase[t] \in {"canceling", "draining"} => fenceState[f] = "closing"
    /\ phase[t] = "closed" => fenceState[f] = "closed"
    /\ phase[t] = "committing" =>
            IF f \in todo[t] THEN /\ fenceState[f] = "closed"
                                 /\ \/ outcome[t][f] = Retired
                                    \/ outcome[t][f] \in Generations
                                       /\ outcome[t][f] >= expected[t][f]
                            ELSE fenceState[f] \in {"open", "retired"}
    /\ phase[t] = "reopening" =>
            IF f \in todo[t] THEN fenceState[f] \in {"closing", "closed"}
                            ELSE fenceState[f] = "open"
    /\ phase[t] = "releasing" => fenceState[f] \in {"open", "retired"}
    /\ \/ phase[t] \in {"claiming", "begun", "closing", "canceling", "draining", "closed"}
       \/ phase[t] \in {"committing", "reopening"} /\ f \in todo[t]
       => generation[f] = expected[t][f]

ClaimedFencesInStep ==
    \A t \in Transitions : \A f \in claimed[t] : FenceInStep(t, f)

\* t has sealed every lease of its revoking target f, and t has drained f.
HasSealed(t, f) ==
    \/ phase[t] = "closing" /\ f \notin todo[t]
    \/ phase[t] \in {"canceling", "draining"}
HasDrained(t, f) ==
    \/ phase[t] = "draining" /\ f \notin todo[t]
    \/ phase[t] = "closed"
    \/ phase[t] = "committing" /\ f \in todo[t]

RevokedInStep ==
    \A t \in Transitions, l \in Leases :
        lease[l].active /\ lease[l].fence \in revoking[t] =>
            /\ HasSealed(t, lease[l].fence) => lease[l].sealed
            /\ ~HasDrained(t, lease[l].fence)

GenerationBounds ==
    \A f \in Fences :
        /\ fenceState[f] = "absent" => floor[f] = 0
        /\ fenceState[f] # "absent" => generation[f] \in Generations
        /\ fenceState[f] # "retired" => floor[f] <= generation[f]

\* No critical section of any goroutine breaks any of these, given all of them.
IInv ==
    /\ TypeOK
    /\ OwnershipExclusive
    /\ ShutOnlyWhileOwned
    /\ PlanShape
    /\ ClaimedFencesInStep
    /\ RevokedInStep
    /\ GenerationBounds
    /\ RevocationComplete

\* Begin has claimed the lowest of its targets, which is why nobody waits in a
\* circle.  Nothing else rests on it.
ClaimsInOrder ==
    \A t \in Transitions : phase[t] = "claiming" =>
        \A f \in claimed[t], g \in targets[t] \ claimed[t] : f < g

-----------------------------------------------------------------------------
(* Steps.                                                                  *)

\* The generation of a fence never goes back, and moves only by its owner,
\* from a closed fence: a reopened fence has the generation it was closed at.
GenerationNeverBack ==
    [][\A f \in Fences : generation'[f] # generation[f] =>
            \/ fenceState[f] = "absent"
            \/ /\ generation'[f] > generation[f]
               /\ owner[f] /\ fenceState[f] = "closed"]_vars

\* A deleted resume's fence never admits again.
RetiredForever ==
    [][\A f \in Fences : fenceState[f] = "retired" => fenceState'[f] = "retired"]_vars

\* Only a revoking change cuts a response short.
CanceledOnlyByRevoking ==
    [][\A l \in Leases :
        ~lease[l].canceled /\ lease'[l].canceled =>
            \E t \in Transitions : lease[l].fence \in claimed[t] \cap revoking[t]]_vars

-----------------------------------------------------------------------------
(* Liveness.                                                               *)

\* A claim is granted, refused or given up, unless an owner's recovery stays
\* unresolved: in the fixed claim order no two transitions wait for each
\* other.  This is a property of finitely many transitions: a released fence
\* goes to whoever locks it first, so an endless stream of newcomers can keep
\* one claim waiting until its context ends (fence.claim).
ClaimsEnd ==
    \A t \in Transitions :
        phase[t] = "claiming" ~>
            phase[t] # "claiming" \/ \E f \in Fences : unresolved[f]

\* Close ends within its deadline, even if a canceled response never ends.
CloseEnds == \A t \in Transitions : phase[t] = "closing" ~> phase[t] \in {"closed", "idle"}

\* A sealed response is told to stop.
SealedAreCanceled ==
    \A l \in Leases : lease[l].sealed ~> lease[l].canceled \/ ~lease[l].sealed

\* The process is unready for good only after an unresolved recovery.  Between
\* the retire and the releaseOwner of one commit the fence of a deleted resume
\* does look invalid to Ready, so a probe may fail for a moment.
ReadinessRecovers ==
    \A f \in Fences : ~FenceReady(f) ~> FenceReady(f) \/ unresolved[f]

-----------------------------------------------------------------------------
(* The abstract specification this module implements.                      *)

AdmissionState ==
    [f \in Fences |-> IF fenceState[f] \in {"closing", "closed"} THEN "shut" ELSE fenceState[f]]
AdmissionResponse ==
    [l \in Leases |-> IF lease[l].active
                         THEN [fence |-> lease[l].fence, gen |-> lease[l].gen]
                         ELSE [fence |-> 0, gen |-> 0]]

Admission == INSTANCE PublicAdmission WITH
    state <- AdmissionState, gen <- generation, level <- floor, response <- AdmissionResponse

\* Every step of the coordinator is a step of the abstract one, or changes
\* nothing it shows: a revocation takes effect at one moment, drained.
ImplementsAdmission == Admission!AdmissionSpec

=============================================================================

-------------------------- MODULE PublicState_proofs --------------------------
(***************************************************************************)
(* Theorems about PublicState for any number of resumes, transitions and   *)
(* responses, with their proofs.                                           *)
(***************************************************************************)
EXTENDS PublicState, WellFoundedInduction, TLAPS

\* What the constants and ranges amount to, so that no later step has to
\* reason about intervals of integers.
LEMMA ConstantFacts ==
    /\ Discovery \in Fences
    /\ Resumes \subseteq Fences
    /\ Fences \subseteq Nat
    /\ Discovery \notin Resumes
    /\ Generations \subseteq 0..MaxGen
    /\ 0 \in 0..MaxGen
    /\ 0 \notin Generations
    /\ 1 \in 0..MaxGen
    /\ 0..MaxGen \subseteq 0..Retired
    /\ 0..Retired \subseteq Nat
    /\ Retired \in 0..Retired
    /\ Retired \notin 0..MaxGen
    /\ \A g \in 0..Retired : g # 0 /\ g # Retired => g \in Generations
    /\ Zeros \in [Fences -> 0..MaxGen]
    /\ Zeros \in [Fences -> 0..Retired]
BY NumResumesAssumption, MaxGenAssumption
   DEF Discovery, Resumes, Fences, Generations, Retired, Zeros

-----------------------------------------------------------------------------
(* Typing.                                                                 *)

\* A new coordinator is well typed.
LEMMA TypeInit == Init => TypeOK
BY ConstantFacts DEF Init, TypeOK, FenceStates, Phases, LeaseRecord, NoLease

\* The part of the state that a transition keeps for itself, when it ends.
LEMMA FinishTyped ==
    ASSUME TypeOK, NEW t \in Transitions, Finish(t)
    PROVE  /\ phase' \in [Transitions -> Phases]
           /\ targets' \in [Transitions -> SUBSET Fences]
           /\ revoking' \in [Transitions -> SUBSET Fences]
           /\ expected' \in [Transitions -> [Fences -> 0..MaxGen]]
           /\ outcome' \in [Transitions -> [Fences -> 0..Retired]]
BY ConstantFacts DEF TypeOK, Finish, Phases

\* Giving back what was claimed keeps the transition well typed.
LEMMA StartReleaseTyped ==
    ASSUME TypeOK, NEW t \in Transitions, StartRelease(t)
    PROVE  TypeOK'
<1>1. CASE claimed[t] = {}
  BY <1>1, FinishTyped DEF StartRelease, TypeOK, fenceVars
<1>2. CASE claimed[t] # {}
  BY <1>2 DEF StartRelease, TypeOK, fenceVars, Phases
<1> QED
  BY <1>1, <1>2

\* Every operation of the coordinator keeps its state well typed.
LEMMA TypeStep == TypeOK /\ [Next]_vars => TypeOK'
<1> SUFFICES ASSUME TypeOK, [Next]_vars PROVE TypeOK'
  OBVIOUS
<1> USE ConstantFacts DEF TypeOK
<1>1. ASSUME NEW f \in Fences, NEW g \in Generations, CreateFence(f, g)
      PROVE TypeOK'
  BY <1>1 DEF CreateFence, transitionVars, FenceStates
<1>2. ASSUME NEW l \in Leases, NEW f \in Fences, NEW g \in Generations, Acquire(l, f, g)
      PROVE TypeOK'
  BY <1>2 DEF Acquire, fenceVars, transitionVars, LeaseRecord
<1>3. ASSUME NEW l \in Leases, Release(l)
      PROVE TypeOK'
  BY <1>3 DEF Release, fenceVars, transitionVars, LeaseRecord, NoLease
<1>4. ASSUME NEW t \in Transitions, BeginSome(t)
      PROVE TypeOK'
  <2> PICK T \in SUBSET Fences : \E R \in SUBSET T, E \in Plans(T) : Begin(t, T, R, E)
    BY <1>4 DEF BeginSome
  <2> PICK R \in SUBSET T, E \in Plans(T) : Begin(t, T, R, E)
    OBVIOUS
  <2> QED
    BY DEF Begin, Plans, FenceStates, Phases
<1>5. ASSUME NEW t \in Transitions, NEW f \in Fences, Claim(t, f)
      PROVE TypeOK'
  BY <1>5 DEF Claim, Phases
<1>6. ASSUME NEW t \in Transitions, StartRelease(t)
      PROVE TypeOK'
  BY <1>6, StartReleaseTyped
<1>7. ASSUME NEW t \in Transitions, StartClose(t)
      PROVE TypeOK'
  BY <1>7 DEF StartClose, StartLoop, fenceVars, Phases
<1>8. ASSUME NEW t \in Transitions, NEW f \in Fences, CloseFence(t, f)
      PROVE TypeOK'
  <2>1. ASSUME NEW l \in Leases
        PROVE [lease[l] EXCEPT !.sealed = TRUE] \in LeaseRecord
    <3>1. lease[l] \in LeaseRecord
      OBVIOUS
    <3> QED
      BY <3>1 DEF LeaseRecord
  <2>2. Seal(f) \in [Leases -> LeaseRecord]
    BY <2>1 DEF Seal
  <2> QED
    BY <1>8, <2>2 DEF CloseFence, Advance, FenceStates, Phases
<1>9. ASSUME NEW t \in Transitions, NEW l \in Leases, CancelLease(t, l)
      PROVE TypeOK'
  <2>1. [lease[l] EXCEPT !.canceled = TRUE] \in LeaseRecord
    <3>1. lease[l] \in LeaseRecord
      OBVIOUS
    <3> QED
      BY <3>1 DEF LeaseRecord
  <2>2. lease' = [lease EXCEPT ![l] = [lease[l] EXCEPT !.canceled = TRUE]]
    BY <1>9 DEF CancelLease
  <2>3. lease' \in [Leases -> LeaseRecord]
    BY <2>1, <2>2
  <2> QED
    BY <1>9, <2>3 DEF CancelLease, fenceVars, transitionVars
<1>10. ASSUME NEW t \in Transitions, StartDrain(t)
       PROVE TypeOK'
  BY <1>10 DEF StartDrain, StartLoop, fenceVars, Phases
<1>11. ASSUME NEW t \in Transitions, NEW f \in Fences, Drained(t, f)
       PROVE TypeOK'
  BY <1>11 DEF Drained, Advance, FenceStates, Phases
<1>12. ASSUME NEW t \in Transitions, NEW f \in Fences, AbortDrain(t, f)
       PROVE TypeOK'
  BY <1>12 DEF AbortDrain, StartLoop, fenceVars, Phases
<1>13. ASSUME NEW t \in Transitions, CommitSome(t)
       PROVE TypeOK'
  BY <1>13 DEF CommitSome, Outcomes, Commit, StartLoop, fenceVars, Phases
<1>14. ASSUME NEW t \in Transitions, Rollback(t)
       PROVE TypeOK'
  BY <1>14 DEF Rollback, StartLoop, fenceVars, Phases
<1>15. ASSUME NEW t \in Transitions, MarkUnresolved(t)
       PROVE TypeOK'
  BY <1>15 DEF MarkUnresolved, transitionVars
<1>16. ASSUME NEW t \in Transitions, NEW f \in Fences, OpenCommitted(t, f)
       PROVE TypeOK'
  BY <1>16 DEF OpenCommitted, CommittedGeneration, Floor, Advance, FenceStates, Phases
<1>17. ASSUME NEW t \in Transitions, NEW f \in Fences, Reopen(t, f)
       PROVE TypeOK'
  BY <1>17 DEF Reopen, Advance, FenceStates, Phases
<1>18. ASSUME NEW t \in Transitions, NEW f \in Fences, ReleaseOwner(t, f)
       PROVE TypeOK'
  <2>1. CASE claimed[t] = {f}
    BY <1>18, <2>1, FinishTyped DEF ReleaseOwner
  <2>2. CASE claimed[t] # {f}
    BY <1>18, <2>2 DEF ReleaseOwner
  <2> QED
    BY <2>1, <2>2
<1>19. CASE UNCHANGED vars
  BY <1>19 DEF vars, fenceVars, transitionVars
<1> QED
  BY <1>1, <1>2, <1>3, <1>4, <1>5, <1>6, <1>7, <1>8, <1>9, <1>10, <1>11, <1>12,
     <1>13, <1>14, <1>15, <1>16, <1>17, <1>18, <1>19
     DEF Next, Reader, Progress, RefuseClaim, AbandonClaim, FromBegun, ReleaseBegun, FromClosed

\* The state of the coordinator is well typed in every reachable state.
THEOREM TypeCorrect == Spec => []TypeOK
BY TypeInit, TypeStep, PTL DEF Spec

-----------------------------------------------------------------------------
(* The inductive invariant.                                                *)

\* The invariant holds of a new coordinator: nothing is owned or sent.
LEMMA InvInit == Init => IInv
<1> SUFFICES ASSUME Init PROVE IInv
  OBVIOUS
<1>1. TypeOK
  BY TypeInit
<1>2. OwnershipExclusive /\ ShutOnlyWhileOwned
  BY DEF Init, OwnershipExclusive, ShutOnlyWhileOwned
<1>3. PlanShape /\ ClaimedFencesInStep
  BY DEF Init, PlanShape, ClaimedFencesInStep, Owning, Looping
<1>4. RevokedInStep /\ RevocationComplete
  BY DEF Init, RevokedInStep, RevocationComplete, NoLease
<1>5. GenerationBounds
  BY ConstantFacts DEF Init, GenerationBounds, Zeros
<1> QED
  BY <1>1, <1>2, <1>3, <1>4, <1>5 DEF IInv

\* The fence of a transition that has begun is not absent, and no other
\* transition has it.
LEMMA ClaimedFences ==
    ASSUME IInv, NEW t \in Transitions, NEW f \in claimed[t]
    PROVE  /\ f \in Fences
           /\ owner[f]
           /\ fenceState[f] # "absent"
           /\ phase[t] # "idle"
           /\ \A u \in Transitions : u # t => f \notin claimed[u]
<1>1. f \in Fences /\ phase[t] \in Phases /\ phase[t] # "idle"
  BY DEF IInv, TypeOK, PlanShape
<1>2. owner[f] /\ \A u \in Transitions : u # t => f \notin claimed[u]
  BY <1>1 DEF IInv, OwnershipExclusive
<1>3. FenceInStep(t, f)
  BY DEF IInv, ClaimedFencesInStep
<1>4. fenceState[f] # "absent"
  BY <1>1, <1>3 DEF FenceInStep, Phases
<1> QED
  BY <1>1, <1>2, <1>4

\* A step of the readers on fence f: what it needs to keep the invariant.
LEMMA CreateFenceStep ==
    ASSUME IInv, TypeOK', NEW f \in Fences, NEW g \in Generations, CreateFence(f, g)
    PROVE  IInv'
<1> USE DEF CreateFence, transitionVars
<1>1. \A t \in Transitions : f \notin claimed[t]
  BY ClaimedFences DEF CreateFence
<1>2. OwnershipExclusive' /\ PlanShape'
  BY DEF IInv, OwnershipExclusive, PlanShape
<1>3. ShutOnlyWhileOwned'
  BY DEF IInv, ShutOnlyWhileOwned, TypeOK
<1>4. ClaimedFencesInStep'
  BY <1>1 DEF IInv, ClaimedFencesInStep, FenceInStep, TypeOK
<1>5. RevokedInStep' /\ RevocationComplete'
  BY DEF IInv, RevokedInStep, HasSealed, HasDrained, RevocationComplete
<1>6. GenerationBounds'
  BY ConstantFacts DEF IInv, GenerationBounds, TypeOK
<1> QED
  BY <1>2, <1>3, <1>4, <1>5, <1>6 DEF IInv

\* Admitting a response: an open fence at its own generation.
LEMMA AcquireStep ==
    ASSUME IInv, TypeOK', NEW l \in Leases, NEW f \in Fences, NEW g \in Generations, Acquire(l, f, g)
    PROVE  IInv'
<1> USE DEF Acquire, fenceVars, transitionVars
<1>1. OwnershipExclusive' /\ PlanShape' /\ ShutOnlyWhileOwned' /\ GenerationBounds'
  BY DEF IInv, OwnershipExclusive, PlanShape, ShutOnlyWhileOwned, GenerationBounds
<1>2. ClaimedFencesInStep'
  BY DEF IInv, ClaimedFencesInStep, FenceInStep
<1>3. lease'[l].fence = f /\ lease'[l].gen = g /\ \A k \in Leases : k # l => lease'[k] = lease[k]
  BY DEF IInv, TypeOK
<1>4. ASSUME NEW t \in Transitions, f \in revoking[t]
      PROVE  ~HasSealed(t, f) /\ ~HasDrained(t, f)
  <2>1. phase[t] \in Owning => f \in claimed[t]
    BY <1>4 DEF IInv, PlanShape
  <2>2. phase[t] \in Owning => FenceInStep(t, f)
    BY <2>1 DEF IInv, ClaimedFencesInStep
  <2> QED
    BY <2>2 DEF Owning, FenceInStep, HasSealed, HasDrained
<1>5. RevokedInStep'
  BY <1>3, <1>4 DEF IInv, RevokedInStep, HasSealed, HasDrained
<1>6. RevocationComplete'
  BY <1>3 DEF IInv, RevocationComplete, GenerationBounds
<1> QED
  BY <1>1, <1>2, <1>5, <1>6 DEF IInv

\* A response ends: fewer leases to account for.
LEMMA ReleaseStep ==
    ASSUME IInv, TypeOK', NEW l \in Leases, Release(l)
    PROVE  IInv'
<1> USE DEF Release, fenceVars, transitionVars
<1>1. OwnershipExclusive' /\ PlanShape' /\ ShutOnlyWhileOwned' /\ GenerationBounds'
  BY DEF IInv, OwnershipExclusive, PlanShape, ShutOnlyWhileOwned, GenerationBounds
<1>2. ClaimedFencesInStep'
  BY DEF IInv, ClaimedFencesInStep, FenceInStep
<1>3. ~lease'[l].active /\ \A k \in Leases : k # l => lease'[k] = lease[k]
  BY DEF IInv, TypeOK, NoLease
<1>4. RevokedInStep' /\ RevocationComplete'
  BY <1>3 DEF IInv, RevokedInStep, HasSealed, HasDrained, RevocationComplete
<1> QED
  BY <1>1, <1>2, <1>4 DEF IInv

\* Begin creates open fences and claims none of them yet.
LEMMA BeginStep ==
    ASSUME IInv, TypeOK', NEW t \in Transitions, NEW T \in SUBSET Fences,
           NEW R \in SUBSET T, NEW E \in Plans(T), Begin(t, T, R, E)
    PROVE  IInv'
<1>1. \A u \in Transitions : \A f \in claimed[u] : fenceState'[f] = fenceState[f] /\ generation'[f] = generation[f]
  BY ClaimedFences DEF Begin
<1>2. claimed' = claimed /\ claimed[t] = {} /\ todo[t] = {} /\ todo' = todo /\ outcome' = outcome
  BY DEF IInv, PlanShape, Begin, Looping
<1>3. /\ phase'[t] = "claiming" /\ targets'[t] = T /\ revoking'[t] = R
      /\ \A u \in Transitions : u # t => 
            /\ phase'[u] = phase[u] /\ targets'[u] = targets[u]
            /\ revoking'[u] = revoking[u] /\ expected'[u] = expected[u]
  BY DEF IInv, TypeOK, Begin
<1>4. OwnershipExclusive'
  BY DEF IInv, OwnershipExclusive, Begin
<1>5. ShutOnlyWhileOwned'
  BY DEF IInv, ShutOnlyWhileOwned, Begin
<1>6. PlanShape'
  BY <1>2, <1>3 DEF IInv, PlanShape, Owning, Looping
<1>7. ClaimedFencesInStep'
  BY <1>1, <1>2, <1>3 DEF IInv, ClaimedFencesInStep, FenceInStep
<1>8. RevokedInStep' /\ RevocationComplete'
  BY <1>2, <1>3 DEF IInv, RevokedInStep, HasSealed, HasDrained, RevocationComplete, Begin
<1>9. GenerationBounds'
  BY ConstantFacts DEF IInv, GenerationBounds, TypeOK, Begin, Plans
<1> QED
  BY <1>4, <1>5, <1>6, <1>7, <1>8, <1>9 DEF IInv

\* Giving up: from the phases that have nothing closed.
LEMMA StartReleaseStep ==
    ASSUME IInv, TypeOK', NEW t \in Transitions, phase[t] \in {"claiming", "begun"}, StartRelease(t)
    PROVE  IInv'
<1> USE DEF StartRelease, Finish, fenceVars
<1>1. /\ phase'[t] \in {"idle", "releasing"}
      /\ phase'[t] = "idle" => claimed[t] = {}
      /\ revoking'[t] \subseteq targets'[t] /\ claimed[t] \subseteq targets'[t]
      /\ \A f \in claimed[t] : fenceState[f] = "open"
      /\ todo[t] = {}
  <2>1. \A f \in claimed[t] : FenceInStep(t, f)
    BY DEF IInv, ClaimedFencesInStep
  <2>2. claimed[t] \subseteq targets[t] /\ revoking[t] \subseteq targets[t] /\ todo[t] = {}
    BY DEF IInv, PlanShape, Looping
  <2> QED
    BY <2>1, <2>2 DEF IInv, TypeOK, FenceInStep
<1>2. \A u \in Transitions : u # t =>
        /\ phase'[u] = phase[u] /\ targets'[u] = targets[u] /\ revoking'[u] = revoking[u]
        /\ expected'[u] = expected[u] /\ outcome'[u] = outcome[u]
  BY DEF IInv, TypeOK
<1>3. OwnershipExclusive' /\ ShutOnlyWhileOwned' /\ GenerationBounds' /\ RevocationComplete'
  BY DEF IInv, OwnershipExclusive, ShutOnlyWhileOwned, GenerationBounds, RevocationComplete
<1>4. PlanShape'
  BY <1>1, <1>2 DEF IInv, PlanShape, Owning, Looping
<1>5. ClaimedFencesInStep'
  BY <1>1, <1>2 DEF IInv, ClaimedFencesInStep, FenceInStep
<1>6. RevokedInStep'
  BY <1>1, <1>2 DEF IInv, RevokedInStep, HasSealed, HasDrained
<1> QED
  BY <1>3, <1>4, <1>5, <1>6 DEF IInv

\* A claim takes an open fence that nobody owns.
LEMMA ClaimStep ==
    ASSUME IInv, TypeOK', NEW t \in Transitions, NEW f \in Fences, Claim(t, f)
    PROVE  IInv'
<1> USE DEF Claim, Claimable
<1>1. /\ phase'[t] \in {"claiming", "begun"} /\ claimed'[t] = claimed[t] \cup {f}
      /\ phase'[t] = "begun" => claimed'[t] = targets[t]
      /\ f \in targets[t] /\ todo[t] = {}
  <2>1. claimed[t] \subseteq targets[t] /\ f \in targets[t] /\ todo[t] = {}
    BY DEF IInv, PlanShape, IsNext, Looping
  <2>2. /\ claimed'[t] = claimed[t] \cup {f}
        /\ phase'[t] = IF targets[t] \subseteq claimed[t] \cup {f} THEN "begun" ELSE "claiming"
    BY DEF IInv, TypeOK
  <2> QED
    BY <2>1, <2>2
<1>2. \A u \in Transitions : u # t => phase'[u] = phase[u] /\ claimed'[u] = claimed[u]
  BY DEF IInv, TypeOK
<1>3. \A u \in Transitions : f \notin claimed[u]
  BY ClaimedFences
<1>o. \A g \in Fences : owner'[g] <=> owner[g] \/ g = f
  BY DEF IInv, TypeOK
<1>4. OwnershipExclusive'
  <2>2. \A g \in Fences : owner[g] <=> \E u \in Transitions : g \in claimed[u]
    BY DEF IInv, OwnershipExclusive
  <2>3. \A g \in Fences : owner'[g] <=> \E u \in Transitions : g \in claimed'[u]
    BY <1>1, <1>2, <1>o, <2>2
  <2>4. \A u, v \in Transitions : u # v => claimed'[u] \cap claimed'[v] = {}
    BY <1>1, <1>2, <1>3 DEF IInv, OwnershipExclusive
  <2> QED
    BY <2>3, <2>4 DEF OwnershipExclusive
<1>5. ShutOnlyWhileOwned'
  BY <1>o DEF IInv, ShutOnlyWhileOwned
<1>6. PlanShape'
  <2>1. claimed'[t] \subseteq targets[t] /\ revoking[t] \subseteq targets[t]
    BY <1>1 DEF IInv, PlanShape
  <2>2. targets' = targets /\ revoking' = revoking /\ todo' = todo
    OBVIOUS
  <2>3. todo[t] \subseteq targets[t] /\ todo[t] = {}
    BY DEF IInv, PlanShape, Looping
  <2>4. /\ claimed'[t] \subseteq targets'[t] /\ revoking'[t] \subseteq targets'[t]
        /\ todo'[t] \subseteq targets'[t]
        /\ phase'[t] = "idle" => claimed'[t] = {}
        /\ phase'[t] \in Owning => claimed'[t] = targets'[t]
        /\ phase'[t] \notin Looping => todo'[t] = {}
    BY <1>1, <2>1, <2>2, <2>3 DEF Owning
  <2>5. ASSUME NEW u \in Transitions, u # t
        PROVE  /\ claimed'[u] \subseteq targets'[u] /\ revoking'[u] \subseteq targets'[u]
               /\ todo'[u] \subseteq targets'[u]
               /\ phase'[u] = "idle" => claimed'[u] = {}
               /\ phase'[u] \in Owning => claimed'[u] = targets'[u]
               /\ phase'[u] \notin Looping => todo'[u] = {}
    BY <1>2, <2>2, <2>5 DEF IInv, PlanShape
  <2> QED
    BY <2>4, <2>5 DEF PlanShape
<1>7. ClaimedFencesInStep'
  <2>1. ASSUME NEW g \in claimed'[t] PROVE FenceInStep(t, g)'
    BY <1>1 DEF IInv, ClaimedFencesInStep, FenceInStep
  <2>2. ASSUME NEW u \in Transitions, u # t, NEW g \in claimed'[u] PROVE FenceInStep(u, g)'
    BY <1>2, <2>2 DEF IInv, ClaimedFencesInStep, FenceInStep
  <2> QED
    BY <2>1, <2>2 DEF ClaimedFencesInStep
<1>8. RevokedInStep'
  BY <1>1, <1>2 DEF IInv, RevokedInStep, HasSealed, HasDrained
<1>9. GenerationBounds' /\ RevocationComplete'
  BY DEF IInv, GenerationBounds, RevocationComplete
<1> QED
  BY <1>4, <1>5, <1>6, <1>7, <1>8, <1>9 DEF IInv

\* The steps of t that change its phase and restart its loop, and nothing of
\* the fences.
LEMMA StartLoopStep ==
    ASSUME IInv, TypeOK', NEW t \in Transitions,
           StartClose(t) \/ StartDrain(t) \/ (\E f \in Fences : AbortDrain(t, f)) \/ Rollback(t)
    PROVE  IInv'
<1> USE DEF StartClose, StartDrain, AbortDrain, Rollback, StartLoop, fenceVars
<1>1. /\ todo'[t] = targets[t] /\ claimed[t] = targets[t] /\ revoking[t] \subseteq targets[t]
      /\ \/ phase[t] = "begun" /\ phase'[t] = "closing"
         \/ phase[t] = "canceling" /\ phase'[t] = "draining" /\ ToCancel(t) = {}
         \/ phase[t] \in {"draining", "closed"} /\ phase'[t] = "reopening"
  BY DEF IInv, TypeOK, PlanShape, Owning
<1>2. \A u \in Transitions : u # t => phase'[u] = phase[u] /\ todo'[u] = todo[u]
  BY DEF IInv, TypeOK
<1>3. OwnershipExclusive' /\ ShutOnlyWhileOwned' /\ GenerationBounds' /\ RevocationComplete'
  BY DEF IInv, OwnershipExclusive, ShutOnlyWhileOwned, GenerationBounds, RevocationComplete
<1>4. PlanShape'
  BY <1>1, <1>2 DEF IInv, PlanShape, Owning, Looping
<1>5. ClaimedFencesInStep'
  BY <1>1, <1>2 DEF IInv, ClaimedFencesInStep, FenceInStep
<1>6. RevokedInStep'
  BY <1>1, <1>2 DEF IInv, RevokedInStep, HasSealed, HasDrained
<1> QED
  BY <1>3, <1>4, <1>5, <1>6 DEF IInv

\* Commit fixes the outcomes and raises the floors of what it revokes.
LEMMA CommitStep ==
    ASSUME IInv, TypeOK', NEW t \in Transitions, CommitSome(t)
    PROVE  IInv'
<1> PICK O \in Outcomes(targets[t]) : Commit(t, O)
  BY DEF CommitSome
<1> USE DEF Commit, StartLoop, fenceVars
<1>1. /\ todo'[t] = targets[t] /\ claimed[t] = targets[t] /\ revoking[t] \subseteq targets[t]
      /\ phase[t] = "closed" /\ phase'[t] = "committing" /\ outcome'[t] = O
  BY DEF IInv, TypeOK, PlanShape, Owning
<1>2. \A u \in Transitions : u # t => 
        phase'[u] = phase[u] /\ todo'[u] = todo[u] /\ outcome'[u] = outcome[u]
  BY DEF IInv, TypeOK
<1>3. OwnershipExclusive' /\ ShutOnlyWhileOwned' /\ GenerationBounds' /\ RevocationComplete'
  BY DEF IInv, OwnershipExclusive, ShutOnlyWhileOwned, GenerationBounds, RevocationComplete
<1>4. PlanShape'
  BY <1>1, <1>2 DEF IInv, PlanShape, Owning, Looping
<1>5. ClaimedFencesInStep'
  <2>1. ASSUME NEW f \in claimed[t] PROVE FenceInStep(t, f)'
    <3>1. fenceState[f] = "closed" /\ generation[f] = expected[t][f]
      BY <1>1 DEF IInv, ClaimedFencesInStep, FenceInStep
    <3>2. O[f] = Retired \/ (O[f] \in Generations /\ O[f] >= expected[t][f])
      BY <1>1 DEF ValidOutcome
    <3> QED
      BY <1>1, <3>1, <3>2 DEF FenceInStep
  <2>2. ASSUME NEW u \in Transitions, u # t, NEW f \in claimed[u] PROVE FenceInStep(u, f)'
    BY <1>2, <2>2 DEF IInv, ClaimedFencesInStep, FenceInStep
  <2> QED
    BY <2>1, <2>2 DEF ClaimedFencesInStep
<1>6. RevokedInStep'
  BY <1>1, <1>2 DEF IInv, RevokedInStep, HasSealed, HasDrained
<1> QED
  BY <1>3, <1>4, <1>5, <1>6 DEF IInv

\* Marking the fences of a closed transition unresolved changes no owner.
LEMMA MarkUnresolvedStep ==
    ASSUME IInv, TypeOK', NEW t \in Transitions, MarkUnresolved(t)
    PROVE  IInv'
<1> USE DEF MarkUnresolved, transitionVars
<1>1. OwnershipExclusive' /\ ShutOnlyWhileOwned' /\ GenerationBounds' /\ RevocationComplete'
  BY DEF IInv, OwnershipExclusive, ShutOnlyWhileOwned, GenerationBounds, RevocationComplete
<1>2. PlanShape' /\ ClaimedFencesInStep' /\ RevokedInStep'
  BY DEF IInv, PlanShape, ClaimedFencesInStep, FenceInStep, RevokedInStep, HasSealed, HasDrained
<1> QED
  BY <1>1, <1>2 DEF IInv

\* What one turn of a loop of t leaves: f is done, and the phase is the next
\* one when f was the last.
LEMMA AdvanceFacts ==
    ASSUME IInv, NEW t \in Transitions, NEW f \in Fences, NEW p \in Phases,
           phase[t] \in Looping, IsNext(f, todo[t]), Advance(t, f, p)
    PROVE  /\ f \in todo[t] /\ f \in claimed[t]
           /\ claimed[t] = targets[t]
           /\ todo'[t] = todo[t] \ {f}
           /\ phase'[t] = IF todo'[t] = {} THEN p ELSE phase[t]
           /\ \A u \in Transitions : u # t => phase'[u] = phase[u] /\ todo'[u] = todo[u]
<1>1. f \in todo[t] /\ todo[t] \subseteq targets[t] /\ claimed[t] = targets[t]
  BY DEF IInv, PlanShape, IsNext, Looping, Owning
<1>2. todo[t] = {f} <=> todo[t] \ {f} = {}
  BY <1>1
<1> QED
  BY <1>1, <1>2 DEF IInv, TypeOK, Advance

\* Closing one target: its fence is shut and its leases are sealed.
LEMMA CloseFenceStep ==
    ASSUME IInv, TypeOK', NEW t \in Transitions, NEW f \in Fences, CloseFence(t, f)
    PROVE  IInv'
<1> USE DEF CloseFence
<1>1. /\ phase[t] = "closing" /\ f \in todo[t] /\ f \in claimed[t] /\ claimed[t] = targets[t]
      /\ todo'[t] = todo[t] \ {f}
      /\ phase'[t] = IF todo'[t] = {} THEN "canceling" ELSE "closing"
      /\ \A u \in Transitions : u # t => phase'[u] = phase[u] /\ todo'[u] = todo[u]
  BY AdvanceFacts DEF Looping, Phases
<1>2. \A g \in Fences : fenceState'[g] = IF g = f THEN "closing" ELSE fenceState[g]
  BY DEF IInv, TypeOK
<1>3. \A u \in Transitions : u # t => f \notin claimed[u]
  BY <1>1, ClaimedFences
<1>4. \A l \in Leases :
        /\ lease'[l].active = lease[l].active /\ lease'[l].fence = lease[l].fence
        /\ lease'[l].gen = lease[l].gen
        /\ lease[l].sealed => lease'[l].sealed
        /\ lease[l].active /\ lease[l].fence = f /\ f \in revoking[t] => lease'[l].sealed
  BY DEF IInv, TypeOK, LeaseRecord, Seal
<1>5. OwnershipExclusive'
  BY DEF IInv, OwnershipExclusive
<1>6. ShutOnlyWhileOwned'
  BY <1>1, <1>2, ClaimedFences DEF IInv, ShutOnlyWhileOwned
<1>7. PlanShape'
  BY <1>1 DEF IInv, PlanShape, Owning, Looping
<1>8. ClaimedFencesInStep'
  <2>1. ASSUME NEW g \in claimed[t] PROVE FenceInStep(t, g)'
    BY <1>1, <1>2, ClaimedFences DEF IInv, ClaimedFencesInStep, FenceInStep
  <2>2. ASSUME NEW u \in Transitions, u # t, NEW g \in claimed[u] PROVE FenceInStep(u, g)'
    BY <1>1, <1>2, <1>3, <2>2, ClaimedFences DEF IInv, ClaimedFencesInStep, FenceInStep
  <2> QED
    BY <2>1, <2>2 DEF ClaimedFencesInStep
<1>9. RevokedInStep'
  BY <1>1, <1>4 DEF IInv, RevokedInStep, HasSealed, HasDrained
<1>10. GenerationBounds' /\ RevocationComplete'
  BY <1>1, <1>2, <1>4, ClaimedFences DEF IInv, GenerationBounds, RevocationComplete, FenceInStep, ClaimedFencesInStep
<1> QED
  BY <1>5, <1>6, <1>7, <1>8, <1>9, <1>10 DEF IInv

\* Canceling a sealed lease on a revoked target.
LEMMA CancelLeaseStep ==
    ASSUME IInv, TypeOK', NEW t \in Transitions, NEW l \in Leases, CancelLease(t, l)
    PROVE  IInv'
<1> USE DEF CancelLease, fenceVars, transitionVars
<1>1. \A k \in Leases :
        /\ lease'[k].active = lease[k].active /\ lease'[k].fence = lease[k].fence
        /\ lease'[k].gen = lease[k].gen /\ lease'[k].sealed = lease[k].sealed
  BY DEF IInv, TypeOK, LeaseRecord
<1>2. OwnershipExclusive' /\ PlanShape' /\ ShutOnlyWhileOwned' /\ GenerationBounds'
  BY DEF IInv, OwnershipExclusive, PlanShape, ShutOnlyWhileOwned, GenerationBounds
<1>3. ClaimedFencesInStep'
  BY DEF IInv, ClaimedFencesInStep, FenceInStep
<1>4. RevokedInStep' /\ RevocationComplete'
  BY <1>1 DEF IInv, RevokedInStep, HasSealed, HasDrained, RevocationComplete
<1> QED
  BY <1>2, <1>3, <1>4 DEF IInv

\* The drain ends: no sealed lease is left on a revoked target.
LEMMA DrainedStep ==
    ASSUME IInv, TypeOK', NEW t \in Transitions, NEW f \in Fences, Drained(t, f)
    PROVE  IInv'
<1> USE DEF Drained
<1>1. /\ phase[t] = "draining" /\ f \in todo[t] /\ f \in claimed[t] /\ claimed[t] = targets[t]
      /\ todo'[t] = todo[t] \ {f}
      /\ phase'[t] = IF todo'[t] = {} THEN "closed" ELSE "draining"
      /\ \A u \in Transitions : u # t => phase'[u] = phase[u] /\ todo'[u] = todo[u]
  BY AdvanceFacts DEF Looping, Phases
<1>2. \A g \in Fences :
        fenceState'[g] = IF phase'[t] = "closed" /\ g \in claimed[t] THEN "closed" ELSE fenceState[g]
  BY <1>1
<1>3. \A u \in Transitions : \A g \in claimed[u] : u # t => g \notin claimed[t] /\ g \in Fences
  BY ClaimedFences
<1>4. \A g \in claimed[t] : g \in Fences /\ owner[g] /\ fenceState[g] = "closing"
  BY <1>1, ClaimedFences DEF IInv, ClaimedFencesInStep, FenceInStep
<1>5. OwnershipExclusive'
  BY DEF IInv, OwnershipExclusive
<1>6. ShutOnlyWhileOwned'
  BY <1>2, <1>4 DEF IInv, ShutOnlyWhileOwned
<1>7. PlanShape'
  BY <1>1 DEF IInv, PlanShape, Owning, Looping
<1>8. ClaimedFencesInStep'
  <2>1. ASSUME NEW g \in claimed[t] PROVE FenceInStep(t, g)'
    BY <1>1, <1>2, <1>4 DEF IInv, ClaimedFencesInStep, FenceInStep
  <2>2. ASSUME NEW u \in Transitions, u # t, NEW g \in claimed[u] PROVE FenceInStep(u, g)'
    BY <1>1, <1>2, <1>3, <2>2 DEF IInv, ClaimedFencesInStep, FenceInStep
  <2> QED
    BY <2>1, <2>2 DEF ClaimedFencesInStep
<1>9. RevokedInStep'
  <2>1. ASSUME NEW l \in Leases, lease[l].active, lease[l].fence = f PROVE f \notin revoking[t]
    BY <1>1, <2>1 DEF IInv, RevokedInStep, HasSealed, Stragglers
  <2> QED
    BY <1>1, <2>1 DEF IInv, RevokedInStep, HasSealed, HasDrained, PlanShape
<1>10. GenerationBounds' /\ RevocationComplete'
  BY <1>2, <1>4 DEF IInv, GenerationBounds, RevocationComplete
<1> QED
  BY <1>5, <1>6, <1>7, <1>8, <1>9, <1>10 DEF IInv

\* Commit opens one target at its outcome, or retires it.
LEMMA OpenCommittedStep ==
    ASSUME IInv, TypeOK', NEW t \in Transitions, NEW f \in Fences, OpenCommitted(t, f)
    PROVE  IInv'
<1> USE DEF OpenCommitted, CommittedGeneration
<1>1. /\ phase[t] = "committing" /\ f \in todo[t] /\ f \in claimed[t] /\ claimed[t] = targets[t]
      /\ todo'[t] = todo[t] \ {f}
      /\ phase'[t] = IF todo'[t] = {} THEN "releasing" ELSE "committing"
      /\ \A u \in Transitions : u # t => phase'[u] = phase[u] /\ todo'[u] = todo[u]
  BY AdvanceFacts DEF Looping, Phases
<1>2. /\ fenceState'[f] = IF outcome[t][f] = Retired THEN "retired" ELSE "open"
      /\ generation'[f] = IF outcome[t][f] = Retired THEN generation[f] ELSE outcome[t][f]
      /\ floor'[f] = Floor(t, f)
      /\ \A g \in Fences : g # f => /\ fenceState'[g] = fenceState[g]
                                    /\ generation'[g] = generation[g]
                                    /\ floor'[g] = floor[g]
  BY DEF IInv, TypeOK
<1>3. /\ fenceState[f] = "closed"
      /\ generation[f] = expected[t][f]
      /\ outcome[t][f] = Retired \/ (outcome[t][f] \in Generations /\ outcome[t][f] >= expected[t][f])
  BY <1>1 DEF IInv, ClaimedFencesInStep, FenceInStep
<1>4. \A u \in Transitions : u # t => f \notin claimed[u]
  BY <1>1, ClaimedFences
<1>5. OwnershipExclusive'
  BY DEF IInv, OwnershipExclusive
<1>6. ShutOnlyWhileOwned'
  BY <1>2 DEF IInv, ShutOnlyWhileOwned
<1>7. PlanShape'
  BY <1>1 DEF IInv, PlanShape, Owning, Looping
<1>8. ClaimedFencesInStep'
  <2>1. ASSUME NEW g \in claimed[t] PROVE FenceInStep(t, g)'
    BY <1>1, <1>2, ClaimedFences DEF IInv, ClaimedFencesInStep, FenceInStep
  <2>2. ASSUME NEW u \in Transitions, u # t, NEW g \in claimed[u] PROVE FenceInStep(u, g)'
    BY <1>1, <1>2, <1>4, <2>2, ClaimedFences DEF IInv, ClaimedFencesInStep, FenceInStep
  <2> QED
    BY <2>1, <2>2 DEF ClaimedFencesInStep
<1>9. RevokedInStep'
  BY <1>1 DEF IInv, RevokedInStep, HasSealed, HasDrained
<1>10. GenerationBounds'
  <2>1. fenceState'[f] # "retired" => floor'[f] <= generation'[f]
    <3>1. outcome[t][f] \in Nat /\ expected[t][f] \in Nat /\ floor[f] \in Nat
      BY ConstantFacts DEF IInv, TypeOK
    <3>2. floor[f] <= expected[t][f]
      BY <1>3 DEF IInv, GenerationBounds
    <3> QED
      BY <1>2, <1>3, <3>1, <3>2 DEF Floor
  <2>2. fenceState'[f] # "absent" /\ generation'[f] \in Generations
    BY <1>2, <1>3 DEF IInv, GenerationBounds
  <2> QED
    BY <1>2, <2>1, <2>2 DEF IInv, GenerationBounds
<1>11. RevocationComplete'
  <2>1. ASSUME NEW l \in Leases, lease[l].active, lease[l].fence = f PROVE f \notin revoking[t]
    BY <1>1, <2>1 DEF IInv, RevokedInStep, HasDrained
  <2> QED
    BY <1>2, <2>1 DEF IInv, TypeOK, LeaseRecord, RevocationComplete, Floor
<1> QED
  BY <1>5, <1>6, <1>7, <1>8, <1>9, <1>10, <1>11 DEF IInv

\* Rollback, or recovery, opens one target at the old generation.
LEMMA ReopenStep ==
    ASSUME IInv, TypeOK', NEW t \in Transitions, NEW f \in Fences, Reopen(t, f)
    PROVE  IInv' /\ generation' = generation
<1> USE DEF Reopen
<1>1. /\ phase[t] = "reopening" /\ f \in todo[t] /\ f \in claimed[t] /\ claimed[t] = targets[t]
      /\ todo'[t] = todo[t] \ {f}
      /\ phase'[t] = IF todo'[t] = {} THEN "releasing" ELSE "reopening"
      /\ \A u \in Transitions : u # t => phase'[u] = phase[u] /\ todo'[u] = todo[u]
  BY AdvanceFacts DEF Looping, Phases
<1>2. fenceState[f] \in {"closing", "closed"} /\ generation[f] = expected[t][f]
  BY <1>1 DEF IInv, ClaimedFencesInStep, FenceInStep
<1>3. /\ generation' = generation
      /\ \A g \in Fences : fenceState'[g] = IF g = f THEN "open" ELSE fenceState[g]
  BY <1>2 DEF IInv, TypeOK
<1>4. \A u \in Transitions : u # t => f \notin claimed[u]
  BY <1>1, ClaimedFences
<1>5. OwnershipExclusive'
  BY DEF IInv, OwnershipExclusive
<1>6. ShutOnlyWhileOwned'
  BY <1>3 DEF IInv, ShutOnlyWhileOwned
<1>7. PlanShape'
  BY <1>1 DEF IInv, PlanShape, Owning, Looping
<1>8. ClaimedFencesInStep'
  <2>1. ASSUME NEW g \in claimed[t] PROVE FenceInStep(t, g)'
    BY <1>1, <1>3, ClaimedFences DEF IInv, ClaimedFencesInStep, FenceInStep
  <2>2. ASSUME NEW u \in Transitions, u # t, NEW g \in claimed[u] PROVE FenceInStep(u, g)'
    BY <1>1, <1>3, <1>4, <2>2, ClaimedFences DEF IInv, ClaimedFencesInStep, FenceInStep
  <2> QED
    BY <2>1, <2>2 DEF ClaimedFencesInStep
<1>9. RevokedInStep'
  BY <1>1 DEF IInv, RevokedInStep, HasSealed, HasDrained
<1>10. GenerationBounds' /\ RevocationComplete'
  BY <1>2, <1>3 DEF IInv, GenerationBounds, RevocationComplete
<1> QED
  BY <1>3, <1>5, <1>6, <1>7, <1>8, <1>9, <1>10 DEF IInv

\* One owned fence is given back.
LEMMA ReleaseOwnerStep ==
    ASSUME IInv, TypeOK', NEW t \in Transitions, NEW f \in Fences, ReleaseOwner(t, f)
    PROVE  IInv'
<1> USE DEF ReleaseOwner, Finish
<1>1. /\ phase[t] = "releasing" /\ f \in claimed[t] /\ todo[t] = {} /\ todo' = todo
      /\ claimed'[t] = claimed[t] \ {f}
      /\ phase'[t] = IF claimed'[t] = {} THEN "idle" ELSE "releasing"
      /\ claimed'[t] \subseteq targets'[t] /\ revoking'[t] \subseteq targets'[t]
  <2>1. /\ phase[t] = "releasing" /\ f \in claimed[t] /\ todo[t] = {} /\ todo' = todo
        /\ claimed[t] \subseteq targets[t] /\ revoking[t] \subseteq targets[t]
    BY DEF IInv, PlanShape, IsNext, Looping
  <2>2. claimed'[t] = claimed[t] \ {f}
    BY DEF IInv, TypeOK
  <2>3. CASE claimed[t] = {f}
    BY <2>1, <2>2, <2>3 DEF IInv, TypeOK
  <2>4. CASE claimed[t] # {f}
    BY <2>1, <2>2, <2>4
  <2> QED
    BY <2>3, <2>4
<1>2. \A u \in Transitions : u # t =>
        /\ phase'[u] = phase[u] /\ targets'[u] = targets[u] /\ revoking'[u] = revoking[u]
        /\ expected'[u] = expected[u] /\ outcome'[u] = outcome[u] /\ claimed'[u] = claimed[u]
  BY DEF IInv, TypeOK
<1>3. \A u \in Transitions : u # t => f \notin claimed[u]
  BY <1>1, ClaimedFences
<1>4. \A g \in Fences : owner'[g] <=> owner[g] /\ g # f
  BY DEF IInv, TypeOK
<1>5. OwnershipExclusive'
  <2>1. \A g \in Fences : owner'[g] <=> \E u \in Transitions : g \in claimed'[u]
    BY <1>1, <1>2, <1>3, <1>4 DEF IInv, OwnershipExclusive
  <2>2. \A u, v \in Transitions : u # v => claimed'[u] \cap claimed'[v] = {}
    BY <1>1, <1>2 DEF IInv, OwnershipExclusive
  <2> QED
    BY <2>1, <2>2 DEF OwnershipExclusive
<1>6. ShutOnlyWhileOwned'
  <2>1. fenceState[f] \in {"open", "retired"}
    BY <1>1 DEF IInv, ClaimedFencesInStep, FenceInStep
  <2> QED
    BY <1>4, <2>1 DEF IInv, ShutOnlyWhileOwned
<1>7. PlanShape'
  BY <1>1, <1>2 DEF IInv, PlanShape, Owning, Looping
<1>8. ClaimedFencesInStep'
  <2>1. ASSUME NEW g \in claimed'[t] PROVE FenceInStep(t, g)'
    BY <1>1 DEF IInv, ClaimedFencesInStep, FenceInStep
  <2>2. ASSUME NEW u \in Transitions, u # t, NEW g \in claimed'[u] PROVE FenceInStep(u, g)'
    BY <1>1, <1>2, <2>2 DEF IInv, ClaimedFencesInStep, FenceInStep
  <2> QED
    BY <2>1, <2>2 DEF ClaimedFencesInStep
<1>9. RevokedInStep'
  BY <1>1, <1>2 DEF IInv, RevokedInStep, HasSealed, HasDrained
<1>10. GenerationBounds' /\ RevocationComplete'
  BY DEF IInv, GenerationBounds, RevocationComplete
<1> QED
  BY <1>5, <1>6, <1>7, <1>8, <1>9, <1>10 DEF IInv

\* The invariant reads nothing but the variables.
LEMMA InvStutter ==
    ASSUME IInv, UNCHANGED vars
    PROVE  IInv'
<1> USE DEF vars, fenceVars, transitionVars
<1>1. TypeOK' /\ OwnershipExclusive' /\ ShutOnlyWhileOwned' /\ GenerationBounds' /\ RevocationComplete'
  BY DEF IInv, TypeOK, OwnershipExclusive, ShutOnlyWhileOwned, GenerationBounds, RevocationComplete
<1>2. PlanShape' /\ ClaimedFencesInStep' /\ RevokedInStep'
  BY DEF IInv, PlanShape, ClaimedFencesInStep, FenceInStep, RevokedInStep, HasSealed, HasDrained
<1> QED
  BY <1>1, <1>2 DEF IInv

\* Every operation keeps the invariant.
LEMMA InvStep == IInv /\ [Next]_vars => IInv'
<1> SUFFICES ASSUME IInv, [Next]_vars PROVE IInv'
  OBVIOUS
<1> TypeOK'
  BY TypeStep DEF IInv
<1>1. CASE Reader
  BY <1>1, CreateFenceStep, AcquireStep, ReleaseStep DEF Reader
<1>2. ASSUME NEW t \in Transitions, BeginSome(t) PROVE IInv'
  BY <1>2, BeginStep DEF BeginSome
<1>3. ASSUME NEW t \in Transitions, (\E f \in Fences : AbandonClaim(t, f)) \/ FromBegun(t)
      PROVE IInv'
  BY <1>3, StartReleaseStep, StartLoopStep DEF AbandonClaim, FromBegun, ReleaseBegun
<1>4. ASSUME NEW t \in Transitions, FromClosed(t) PROVE IInv'
  BY <1>4, CommitStep, StartLoopStep, MarkUnresolvedStep DEF FromClosed
<1>5. ASSUME NEW t \in Transitions, NEW f \in Fences, Claim(t, f) \/ RefuseClaim(t, f) PROVE IInv'
  BY <1>5, ClaimStep, StartReleaseStep DEF RefuseClaim
<1>6. ASSUME NEW t \in Transitions, NEW f \in Fences,
             CloseFence(t, f) \/ Drained(t, f) \/ AbortDrain(t, f)
      PROVE IInv'
  BY <1>6, CloseFenceStep, DrainedStep, StartLoopStep
<1>7. ASSUME NEW t \in Transitions, NEW f \in Fences,
             OpenCommitted(t, f) \/ Reopen(t, f) \/ ReleaseOwner(t, f)
      PROVE IInv'
  BY <1>7, OpenCommittedStep, ReopenStep, ReleaseOwnerStep
<1>8. ASSUME NEW t \in Transitions, (\E l \in Leases : CancelLease(t, l)) \/ StartDrain(t)
      PROVE IInv'
  BY <1>8, CancelLeaseStep, StartLoopStep
<1>9. CASE UNCHANGED vars
  BY <1>9, InvStutter
<1> QED
  BY <1>1, <1>2, <1>3, <1>4, <1>5, <1>6, <1>7, <1>8, <1>9 DEF Next, Progress

\* The invariant of the coordinator, in every reachable state.
THEOREM Invariant == Spec => []IInv
BY InvInit, InvStep, PTL DEF Spec

-----------------------------------------------------------------------------
(* What follows from it.                                                   *)

\* ADR 0010: after a revoking commit nothing older is being sent, ever.
THEOREM RevocationIsComplete == Spec => []RevocationComplete
<1>1. IInv => RevocationComplete
  BY DEF IInv
<1> QED
  BY <1>1, Invariant, PTL

\* One owner per fence, and every owned fence has one.
THEOREM OwnershipIsExclusive == Spec => []OwnershipExclusive
<1>1. IInv => OwnershipExclusive
  BY DEF IInv
<1> QED
  BY <1>1, Invariant, PTL

\* A fence that is shut has an owner that will open it.
THEOREM ShutFencesAreOwned == Spec => []ShutOnlyWhileOwned
<1>1. IInv => ShutOnlyWhileOwned
  BY DEF IInv
<1> QED
  BY <1>1, Invariant, PTL

\* While the caller's transaction runs, nobody is being served what it revokes.
THEOREM ClosedTransitionsAreDrained == Spec => []RevokedAreDrained
<1>1. IInv => RevokedAreDrained
  BY DEF IInv, RevokedInStep, HasDrained, RevokedAreDrained
<1> QED
  BY <1>1, Invariant, PTL

-----------------------------------------------------------------------------
(* Steps.                                                                  *)

\* All steps that leave every generation alone, in one place.
LEMMA GenerationFrame ==
    ASSUME IInv, [Next]_vars
    PROVE  \/ UNCHANGED generation
           \/ \E f \in Fences, g \in Generations : CreateFence(f, g)
           \/ \E t \in Transitions : BeginSome(t)
           \/ \E t \in Transitions, f \in Fences : OpenCommitted(t, f)
<1>1. TypeOK'
  BY TypeStep DEF IInv
<1> USE DEF fenceVars
<1>2. ASSUME NEW t \in Transitions, StartRelease(t) PROVE UNCHANGED generation
  BY <1>2 DEF StartRelease
<1>3. ASSUME NEW t \in Transitions, NEW f \in Fences, Reopen(t, f) PROVE UNCHANGED generation
  BY <1>1, <1>3, ReopenStep
<1>4. ASSUME NEW t \in Transitions, FromBegun(t) \/ FromClosed(t) PROVE UNCHANGED generation
  BY <1>2, <1>4 DEF FromBegun, ReleaseBegun, StartClose, FromClosed, CommitSome, Commit, Rollback,
                    MarkUnresolved
<1>5. ASSUME NEW t \in Transitions, NEW f \in Fences, AbandonClaim(t, f) PROVE UNCHANGED generation
  BY <1>2, <1>5 DEF AbandonClaim
<1>6. ASSUME NEW t \in Transitions, NEW f \in Fences,
             \/ Claim(t, f) \/ RefuseClaim(t, f) \/ CloseFence(t, f) \/ Drained(t, f)
             \/ AbortDrain(t, f) \/ ReleaseOwner(t, f)
      PROVE  UNCHANGED generation
  BY <1>2, <1>6 DEF Claim, RefuseClaim, CloseFence, Drained, AbortDrain, ReleaseOwner
<1>7. ASSUME NEW t \in Transitions, (\E l \in Leases : CancelLease(t, l)) \/ StartDrain(t)
      PROVE  UNCHANGED generation
  BY <1>7 DEF CancelLease, StartDrain
<1>8. CASE Reader
  BY <1>8 DEF Reader, Acquire, Release
<1>9. CASE UNCHANGED vars
  BY <1>9 DEF vars
<1> QED
  BY <1>3, <1>4, <1>5, <1>6, <1>7, <1>8, <1>9 DEF Next, Progress

\* Generations only go forward, and only behind a closed, owned fence.
THEOREM GenerationsNeverGoBack == Spec => GenerationNeverBack
<1>1. IInv /\ [Next]_vars =>
             [\A f \in Fences : generation'[f] # generation[f] =>
                \/ fenceState[f] = "absent"
                \/ /\ generation'[f] > generation[f]
                   /\ owner[f] /\ fenceState[f] = "closed"]_vars
  <2> SUFFICES ASSUME IInv, [Next]_vars
               PROVE  \A f \in Fences : generation'[f] # generation[f] =>
                        \/ fenceState[f] = "absent"
                        \/ /\ generation'[f] > generation[f]
                           /\ owner[f] /\ fenceState[f] = "closed"
    OBVIOUS
  <2>1. ASSUME NEW f \in Fences, NEW g \in Generations, CreateFence(f, g),
               NEW h \in Fences, generation'[h] # generation[h]
        PROVE  fenceState[h] = "absent"
    BY <2>1 DEF CreateFence, IInv, TypeOK
  <2>2. ASSUME NEW t \in Transitions, BeginSome(t),
               NEW h \in Fences, generation'[h] # generation[h]
        PROVE  fenceState[h] = "absent"
    BY <2>2 DEF BeginSome, Begin
  <2>3. ASSUME NEW t \in Transitions, NEW f \in Fences, OpenCommitted(t, f),
               NEW h \in Fences, generation'[h] # generation[h]
        PROVE  generation'[h] > generation[h] /\ owner[h] /\ fenceState[h] = "closed"
    <3>1. h = f /\ outcome[t][f] # Retired /\ generation'[f] = outcome[t][f]
      BY <2>3 DEF OpenCommitted, CommittedGeneration, IInv, TypeOK
    <3>2. phase[t] = "committing" /\ f \in todo[t] /\ f \in claimed[t]
      BY <2>3 DEF OpenCommitted, IsNext, IInv, PlanShape, Owning
    <3>3. /\ fenceState[f] = "closed" /\ generation[f] = expected[t][f]
          /\ outcome[t][f] \in Generations /\ outcome[t][f] >= expected[t][f]
      BY <3>1, <3>2 DEF IInv, ClaimedFencesInStep, FenceInStep
    <3>4. owner[f]
      BY <3>2, ClaimedFences
    <3>5. generation[f] \in Nat /\ outcome[t][f] \in Nat
      BY ConstantFacts DEF IInv, TypeOK
    <3> QED
      BY <2>3, <3>1, <3>3, <3>4, <3>5
  <2> QED
    BY <2>1, <2>2, <2>3, GenerationFrame
<1> QED
  BY <1>1, Invariant, PTL DEF Spec, GenerationNeverBack

\* A response is canceled only by a transition that claimed its fence in order
\* to revoke.
THEOREM CancelsAreRevocations == Spec => CanceledOnlyByRevoking
<1>1. IInv /\ [Next]_vars =>
        [\A l \in Leases :
            ~lease[l].canceled /\ lease'[l].canceled =>
                \E t \in Transitions : lease[l].fence \in claimed[t] \cap revoking[t]]_vars
  <2> SUFFICES ASSUME IInv, [Next]_vars, NEW l \in Leases,
                      ~lease[l].canceled, lease'[l].canceled
               PROVE  \E t \in Transitions : lease[l].fence \in claimed[t] \cap revoking[t]
    OBVIOUS
  <2> USE DEF fenceVars, transitionVars
  <2>1. ASSUME NEW t \in Transitions, NEW k \in Leases, CancelLease(t, k)
        PROVE  \E u \in Transitions : lease[l].fence \in claimed[u] \cap revoking[u]
    <3>1. l \in ToCancel(t)
      BY <2>1 DEF CancelLease, IInv, TypeOK
    <3>2. claimed[t] = targets[t] /\ revoking[t] \subseteq targets[t]
      BY <2>1 DEF CancelLease, IInv, PlanShape, Owning
    <3> QED
      BY <3>1, <3>2 DEF ToCancel
  <2>2. ASSUME NEW k \in Leases, NEW f \in Fences, NEW g \in Generations, Acquire(k, f, g)
        PROVE  FALSE
    BY <2>2 DEF Acquire, IInv, TypeOK
  <2>3. ASSUME NEW k \in Leases, Release(k)
        PROVE  FALSE
    BY <2>3 DEF Release, NoLease, IInv, TypeOK
  <2>4. ASSUME NEW t \in Transitions, NEW f \in Fences, CloseFence(t, f)
        PROVE  FALSE
    BY <2>4 DEF CloseFence, Seal, IInv, TypeOK, LeaseRecord
  <2>5. ASSUME UNCHANGED lease
        PROVE  FALSE
    BY <2>5
  <2>6. ASSUME NEW t \in Transitions, StartRelease(t) PROVE UNCHANGED lease
    BY <2>6 DEF StartRelease
  <2>7. ASSUME NEW t \in Transitions, FromBegun(t) \/ FromClosed(t) \/ BeginSome(t)
        PROVE  UNCHANGED lease
    BY <2>6, <2>7 DEF FromBegun, ReleaseBegun, StartClose, FromClosed, CommitSome, Commit,
                      Rollback, MarkUnresolved, BeginSome, Begin
  <2>8. ASSUME NEW t \in Transitions, NEW f \in Fences,
               \/ Claim(t, f) \/ RefuseClaim(t, f) \/ AbandonClaim(t, f) \/ Drained(t, f)
               \/ AbortDrain(t, f) \/ OpenCommitted(t, f) \/ Reopen(t, f) \/ ReleaseOwner(t, f)
        PROVE  UNCHANGED lease
    BY <2>6, <2>8 DEF Claim, RefuseClaim, AbandonClaim, Drained, AbortDrain, OpenCommitted,
                      Reopen, ReleaseOwner
  <2>9. ASSUME NEW t \in Transitions, StartDrain(t)
        PROVE  UNCHANGED lease
    BY <2>9 DEF StartDrain
  <2>10. ASSUME NEW f \in Fences, NEW g \in Generations, CreateFence(f, g)
         PROVE  UNCHANGED lease
    BY <2>10 DEF CreateFence
  <2>11. CASE UNCHANGED vars
    BY <2>11 DEF vars
  <2> QED
    BY <2>1, <2>2, <2>3, <2>4, <2>5, <2>7, <2>8, <2>9, <2>10, <2>11 DEF Next, Reader, Progress
<1> QED
  BY <1>1, Invariant, PTL DEF Spec, CanceledOnlyByRevoking

-----------------------------------------------------------------------------
(* PublicState implements PublicAdmission.                                 *)

\* Refinement: a new coordinator is an initial state of the admission.
LEMMA AdmissionInitially == Init => Admission!AdmissionInit
BY ConstantFacts
   DEF Init, Admission!AdmissionInit, AdmissionState, AdmissionResponse, NoLease, Zeros,
       Admission!NoResponse

\* The abstract state a fence and a slot stand for.
LEMMA AdmissionView ==
    /\ \A f \in Fences :
        AdmissionState[f] = IF fenceState[f] \in {"closing", "closed"} THEN "shut" ELSE fenceState[f]
    /\ \A l \in Leases :
        AdmissionResponse[l] = IF lease[l].active
                                 THEN [fence |-> lease[l].fence, gen |-> lease[l].gen]
                                 ELSE Admission!NoResponse
BY DEF AdmissionState, AdmissionResponse, Admission!NoResponse

\* Refinement: Acquire is Admit.
LEMMA AdmitRefined ==
    ASSUME IInv, NEW l \in Leases, NEW f \in Fences, NEW g \in Generations, Acquire(l, f, g)
    PROVE  Admission!Admit(l, f)
<1> USE DEF Acquire, fenceVars
<1>1. AdmissionResponse' = [AdmissionResponse EXCEPT ![l] = [fence |-> f, gen |-> generation[f]]]
  BY DEF AdmissionResponse, IInv, TypeOK
<1> QED
  BY <1>1 DEF Admission!Admit, AdmissionState, AdmissionResponse, Admission!NoResponse

\* Refinement: Release is End.
LEMMA EndRefined ==
    ASSUME IInv, NEW l \in Leases, Release(l)
    PROVE  Admission!End(l)
<1> USE DEF Release, fenceVars
<1>1. AdmissionResponse' = [AdmissionResponse EXCEPT ![l] = Admission!NoResponse]
  BY DEF AdmissionResponse, IInv, TypeOK, NoLease, Admission!NoResponse
<1> QED
  BY <1>1 DEF Admission!End, AdmissionState

\* Refinement: the creation of missing fences is Appear.
LEMMA AppearRefined ==
    ASSUME IInv, TypeOK',
           \/ \E f \in Fences, g \in Generations : CreateFence(f, g)
           \/ \E t \in Transitions : BeginSome(t)
    PROVE  Admission!Appear
<1>1. PICK S \in SUBSET Fences :
        /\ \A f \in S : fenceState[f] = "absent"
        /\ \A f \in Fences : fenceState'[f] = IF f \in S THEN "open" ELSE fenceState[f]
        /\ \A f \in Fences \ S : generation'[f] = generation[f]
        /\ UNCHANGED <<floor, lease>>
  <2>1. ASSUME NEW f \in Fences, NEW g \in Generations, CreateFence(f, g)
        PROVE  /\ fenceState[f] = "absent"
               /\ \A h \in Fences : fenceState'[h] = IF h \in {f} THEN "open" ELSE fenceState[h]
               /\ \A h \in Fences \ {f} : generation'[h] = generation[h]
               /\ UNCHANGED <<floor, lease>>
    BY <2>1 DEF CreateFence, IInv, TypeOK
  <2>2. ASSUME NEW t \in Transitions, NEW T \in SUBSET Fences, NEW R \in SUBSET T,
               NEW E \in Plans(T), Begin(t, T, R, E)
        PROVE  \E S \in SUBSET Fences :
                 /\ \A f \in S : fenceState[f] = "absent"
                 /\ \A f \in Fences : fenceState'[f] = IF f \in S THEN "open" ELSE fenceState[f]
                 /\ \A f \in Fences \ S : generation'[f] = generation[f]
                 /\ UNCHANGED <<floor, lease>>
    <3> WITNESS {f \in T : fenceState[f] = "absent"} \in SUBSET Fences
    <3> QED
      BY <2>2 DEF Begin
  <2>3. CASE \E f \in Fences, g \in Generations : CreateFence(f, g)
    <3> PICK f \in Fences, g \in Generations : CreateFence(f, g)
      BY <2>3
    <3> WITNESS {f} \in SUBSET Fences
    <3> QED
      BY <2>1
  <2> QED
    BY <2>2, <2>3 DEF BeginSome
<1>2. S \in SUBSET {f \in Fences : AdmissionState[f] = "absent"}
  BY <1>1 DEF AdmissionState
<1>3. AdmissionState' = [f \in Fences |-> IF f \in S THEN "open" ELSE AdmissionState[f]]
  BY <1>1 DEF AdmissionState
<1>4. AdmissionResponse' = AdmissionResponse
  BY <1>1 DEF AdmissionResponse
<1>5. generation' \in [Fences -> 0..MaxGen]
  BY DEF TypeOK
<1> QED
  BY <1>1, <1>2, <1>3, <1>4, <1>5 DEF Admission!Appear

\* Refinement: closing a target is Shut.
LEMMA ShutRefined ==
    ASSUME IInv, NEW t \in Transitions, NEW f \in Fences, CloseFence(t, f)
    PROVE  Admission!Shut(f)
<1>1. fenceState[f] = "open"
  <2>1. f \in todo[t] /\ f \in claimed[t] /\ phase[t] = "closing"
    BY AdvanceFacts DEF CloseFence, Looping, Phases
  <2> QED
    BY <2>1 DEF IInv, ClaimedFencesInStep, FenceInStep
<1>2. AdmissionState' = [AdmissionState EXCEPT ![f] = "shut"]
  BY DEF CloseFence, AdmissionState, IInv, TypeOK
<1>3. AdmissionResponse' = AdmissionResponse
  BY DEF CloseFence, Seal, AdmissionResponse, IInv, TypeOK, LeaseRecord
<1> QED
  BY <1>1, <1>2, <1>3 DEF Admission!Shut, AdmissionState, CloseFence

\* Refinement: a rollback, or recovery, opens a fence where it was.
LEMMA ReopenRefined ==
    ASSUME IInv, TypeOK', NEW t \in Transitions, NEW f \in Fences, Reopen(t, f)
    PROVE  Admission!OpenAgain(f, generation[f]) /\ generation[f] \in Generations
<1>1. fenceState[f] \in {"closing", "closed"}
  <2>1. f \in todo[t] /\ f \in claimed[t] /\ phase[t] = "reopening"
    BY AdvanceFacts DEF Reopen, Looping, Phases
  <2> QED
    BY <2>1 DEF IInv, ClaimedFencesInStep, FenceInStep
<1>2. generation' = generation
  BY ReopenStep
<1>3. AdmissionState' = [AdmissionState EXCEPT ![f] = "open"]
  BY DEF Reopen, AdmissionState, IInv, TypeOK
<1>4. UNCHANGED <<floor, AdmissionResponse>>
  BY DEF Reopen, AdmissionResponse
<1>5. generation[f] \in Generations
  BY <1>1 DEF IInv, GenerationBounds
<1>6. generation' = [generation EXCEPT ![f] = generation[f]] /\ generation[f] >= generation[f]
  BY <1>2, <1>5, ConstantFacts DEF IInv, TypeOK
<1> QED
  BY <1>1, <1>3, <1>4, <1>5, <1>6 DEF Admission!OpenAgain, AdmissionState

\* Opening at a committed generation is a revocation when the plan revokes
\* and the generation moved, and an ordinary opening or retirement otherwise.
LEMMA OpenCommittedRefined ==
    ASSUME IInv, NEW t \in Transitions, NEW f \in Fences, OpenCommitted(t, f)
    PROVE  \/ Admission!Retire(f)
           \/ \E g \in Generations : Admission!OpenAgain(f, g)
           \/ \E g \in Generations \cup {Retired} : Admission!Revoke(f, g)
<1> DEFINE g == outcome[t][f]
<1> USE DEF OpenCommitted, CommittedGeneration
<1>1. phase[t] = "committing" /\ f \in todo[t] /\ f \in claimed[t]
  BY AdvanceFacts DEF Looping, Phases
<1>2. /\ fenceState[f] = "closed" /\ generation[f] = expected[t][f]
      /\ g = Retired \/ (g \in Generations /\ g >= expected[t][f])
  BY <1>1 DEF IInv, ClaimedFencesInStep, FenceInStep
<1>3. AdmissionState[f] = "shut" /\ AdmissionResponse' = AdmissionResponse
  BY <1>2 DEF AdmissionState, AdmissionResponse
<1>4. AdmissionState' = [AdmissionState EXCEPT ![f] = IF g = Retired THEN "retired" ELSE "open"]
  BY DEF AdmissionState, IInv, TypeOK
<1>5. generation' = IF g = Retired THEN generation ELSE [generation EXCEPT ![f] = g]
  BY DEF IInv, TypeOK
<1>6. generation[f] \in 0..MaxGen /\ expected[t][f] # Retired /\ generation[f] \in Nat /\ g \in Nat
  BY ConstantFacts DEF IInv, TypeOK
<1>7. CASE f \in revoking[t] /\ g # expected[t][f]
  <2>1. floor' = [floor EXCEPT ![f] = g]
    BY <1>7 DEF Floor
  <2>2. Admission!Sending(f) = {}
    BY <1>1, <1>7
       DEF IInv, RevokedInStep, HasDrained, Admission!Sending, Admission!NoResponse, AdmissionResponse
  <2>3. CASE g = Retired
    BY <1>3, <1>4, <1>5, <2>1, <2>2, <2>3 DEF Admission!Revoke, Admission!Beyond, Retired
  <2>4. CASE g # Retired
    <3>1. g > generation[f] /\ g \in Generations
      BY <1>2, <1>6, <1>7, <2>4
    <3> QED
      BY <1>3, <1>4, <1>5, <2>1, <2>2, <2>4, <3>1 DEF Admission!Revoke
  <2> QED
    BY <2>3, <2>4
<1>8. CASE ~(f \in revoking[t] /\ g # expected[t][f])
  <2>1. floor' = floor
    BY <1>8 DEF Floor, IInv, TypeOK
  <2>2. CASE g = Retired
    BY <1>3, <1>4, <1>5, <2>1, <2>2 DEF Admission!Retire
  <2>3. CASE g # Retired
    BY <1>2, <1>3, <1>4, <1>5, <2>1, <2>3 DEF Admission!OpenAgain
  <2> QED
    BY <2>2, <2>3
<1> QED
  BY <1>7, <1>8

\* The steps that the abstract specification does not see.
LEMMA Hidden ==
    ASSUME IInv, NEW t \in Transitions,
           \/ StartRelease(t) \/ FromBegun(t) \/ FromClosed(t) \/ StartDrain(t)
           \/ \E l \in Leases : CancelLease(t, l)
           \/ \E f \in Fences : \/ Claim(t, f) \/ Drained(t, f) \/ AbortDrain(t, f)
                                \/ ReleaseOwner(t, f)
    PROVE  UNCHANGED <<AdmissionState, generation, floor, AdmissionResponse>>
<1> USE DEF fenceVars
<1>1. ASSUME UNCHANGED <<fenceState, generation, floor, lease>>
      PROVE  UNCHANGED <<AdmissionState, generation, floor, AdmissionResponse>>
  BY <1>1 DEF AdmissionState, AdmissionResponse
<1>2. ASSUME NEW l \in Leases, CancelLease(t, l)
      PROVE  UNCHANGED <<AdmissionState, generation, floor, AdmissionResponse>>
  BY <1>2 DEF CancelLease, AdmissionState, AdmissionResponse, IInv, TypeOK, LeaseRecord
<1>3. ASSUME NEW f \in Fences, Drained(t, f)
      PROVE  UNCHANGED <<AdmissionState, generation, floor, AdmissionResponse>>
  <2>1. \A g \in targets[t] : fenceState[g] = "closing"
    BY <1>3 DEF Drained, IInv, PlanShape, Owning, ClaimedFencesInStep, FenceInStep
  <2>2. AdmissionState' = AdmissionState
    BY <1>3, <2>1 DEF Drained, AdmissionState
  <2> QED
    BY <1>3, <2>2 DEF Drained, AdmissionResponse
<1>4. ASSUME NEW f \in Fences, Claim(t, f) \/ AbortDrain(t, f) \/ ReleaseOwner(t, f)
      PROVE  UNCHANGED <<fenceState, generation, floor, lease>>
  BY <1>4 DEF Claim, AbortDrain, ReleaseOwner
<1>5. ASSUME StartRelease(t) \/ FromBegun(t) \/ FromClosed(t) \/ StartDrain(t)
      PROVE  UNCHANGED <<fenceState, generation, floor, lease>>
  BY <1>5 DEF StartRelease, FromBegun, ReleaseBegun, StartClose, FromClosed, CommitSome, Commit,
              Rollback, MarkUnresolved, StartDrain
<1> QED
  BY <1>1, <1>2, <1>3, <1>4, <1>5

\* Refinement: every step is one of the admission, or changes nothing it shows.
LEMMA AdmissionStep ==
    IInv /\ [Next]_vars => [Admission!AdmissionNext]_(Admission!admissionVars)
<1> SUFFICES ASSUME IInv, [Next]_vars
             PROVE  [Admission!AdmissionNext]_(Admission!admissionVars)
  OBVIOUS
<1> TypeOK'
  BY TypeStep DEF IInv
<1>0. Generations = Admission!AdmissionGenerations /\ Retired = Admission!Beyond
  BY DEF Generations, Retired, Admission!AdmissionGenerations, Admission!Beyond
<1>1. ASSUME UNCHANGED <<AdmissionState, generation, floor, AdmissionResponse>>
      PROVE  [Admission!AdmissionNext]_(Admission!admissionVars)
  BY <1>1 DEF Admission!admissionVars
<1>2. CASE Reader
  BY <1>2, AdmitRefined, EndRefined, AppearRefined DEF Reader, Admission!AdmissionNext
<1>3. ASSUME NEW t \in Transitions, BeginSome(t)
      PROVE  Admission!AdmissionNext
  BY <1>3, AppearRefined DEF Admission!AdmissionNext
<1>4. ASSUME NEW t \in Transitions, NEW f \in Fences, CloseFence(t, f)
      PROVE  Admission!AdmissionNext
  BY <1>4, ShutRefined DEF Admission!AdmissionNext
<1>5. ASSUME NEW t \in Transitions, NEW f \in Fences, OpenCommitted(t, f)
      PROVE  Admission!AdmissionNext
  BY <1>0, <1>5, OpenCommittedRefined DEF Admission!AdmissionNext
<1>6. ASSUME NEW t \in Transitions, NEW f \in Fences, Reopen(t, f)
      PROVE  Admission!AdmissionNext
  BY <1>0, <1>6, ReopenRefined DEF Admission!AdmissionNext
<1>7. ASSUME NEW t \in Transitions, NEW f \in Fences,
             \/ AbandonClaim(t, f) \/ RefuseClaim(t, f) \/ Claim(t, f) \/ Drained(t, f)
             \/ AbortDrain(t, f) \/ ReleaseOwner(t, f)
      PROVE  UNCHANGED <<AdmissionState, generation, floor, AdmissionResponse>>
  BY <1>7, Hidden DEF AbandonClaim, RefuseClaim
<1>8. ASSUME NEW t \in Transitions,
             FromBegun(t) \/ FromClosed(t) \/ StartDrain(t) \/ (\E l \in Leases : CancelLease(t, l))
      PROVE  UNCHANGED <<AdmissionState, generation, floor, AdmissionResponse>>
  BY <1>8, Hidden
<1>9. CASE UNCHANGED vars
  <2>1. UNCHANGED <<AdmissionState, generation, floor, AdmissionResponse>>
    BY <1>9 DEF vars, fenceVars, AdmissionState, AdmissionResponse
  <2> QED
    BY <1>1, <2>1
<1> QED
  BY <1>1, <1>2, <1>3, <1>4, <1>5, <1>6, <1>7, <1>8, <1>9 DEF Next, Progress

\* The coordinator implements the abstract admission: every step of it is one
\* of the abstract steps or is hidden.
THEOREM Implementation == Spec => ImplementsAdmission
BY AdmissionInitially, AdmissionStep, Invariant, PTL DEF Spec, ImplementsAdmission, Admission!AdmissionSpec

\* No abstract step leads out of "retired", so none of the coordinator does.
THEOREM RetirementIsForever == Spec => RetiredForever
<1>1. IInv /\ [Next]_vars =>
        [\A f \in Fences : fenceState[f] = "retired" => fenceState'[f] = "retired"]_vars
  <2> SUFFICES ASSUME IInv, [Next]_vars, NEW f \in Fences, fenceState[f] = "retired"
               PROVE  fenceState'[f] = "retired"
    OBVIOUS
  <2>1. AdmissionState[f] = "retired"
    BY DEF AdmissionState
  <2>2. [Admission!AdmissionNext]_(Admission!admissionVars)
    BY AdmissionStep
  <2>3. AdmissionState'[f] = "retired"
    BY <2>1, <2>2
       DEF Admission!AdmissionNext, Admission!admissionVars, Admission!Appear, Admission!Admit,
           Admission!End, Admission!Shut, Admission!Retire, Admission!OpenAgain, Admission!Revoke,
           AdmissionState
  <2> QED
    BY <2>3 DEF AdmissionState
<1> QED
  BY <1>1, Invariant, PTL DEF Spec, RetiredForever


-----------------------------------------------------------------------------
(* Nobody waits in a circle: Begin claims its targets in one order.        *)

\* Every nonempty set of numbers has a least one.
LEMMA LeastNumber ==
    ASSUME NEW S \in SUBSET Nat, S # {}
    PROVE  \E n \in S : \A m \in S : n <= m
<1>1. PICK n \in S : \A m \in S : <<m, n>> \notin OpToRel(<, Nat)
  BY NatLessThanWellFounded, WFMin
<1>2. \A m \in S : ~(m < n)
  BY <1>1 DEF OpToRel
<1>3. \A m \in S : n \in Nat /\ m \in Nat
  OBVIOUS
<1> QED
  BY <1>2, <1>3

\* Every nonempty set of fences has a last one in the order of Begin.
LEMMA LastFence ==
    ASSUME NEW S \in SUBSET Fences, S # {}
    PROVE  \E f \in S : \A g \in S : g <= f
<1> DEFINE ToEnd == {NumResumes - f : f \in S}
<1>1. \A f \in S : f \in Nat /\ f <= NumResumes
  BY NumResumesAssumption DEF Fences
<1>2. ToEnd \in SUBSET Nat /\ ToEnd # {}
  BY <1>1, NumResumesAssumption
<1>3. PICK n \in ToEnd : \A m \in ToEnd : n <= m
  BY <1>2, LeastNumber
<1>4. PICK f \in S : n = NumResumes - f
  OBVIOUS
<1>5. \A g \in S : NumResumes - f <= NumResumes - g
  BY <1>3, <1>4
<1> QED
  BY <1>1, <1>4, <1>5, NumResumesAssumption

\* A claim takes the lowest target that is left, so what it has stays below
\* what it still wants.
LEMMA ClaimsInOrderStep ==
    ASSUME IInv, ClaimsInOrder, [Next]_vars
    PROVE  ClaimsInOrder'
<1> SUFFICES ASSUME NEW t \in Transitions, phase'[t] = "claiming",
                    NEW f \in claimed'[t], NEW g \in targets'[t] \ claimed'[t]
             PROVE  f < g
  BY DEF ClaimsInOrder
<1> TypeOK /\ PlanShape
  BY DEF IInv
<1> DEFINE SameClaims == phase[t] = "claiming" /\ targets'[t] = targets[t] /\ claimed'[t] = claimed[t]
<1>1. \/ SameClaims
      \/ BeginSome(t)
      \/ \E h \in Fences : Claim(t, h)
  <2> USE DEF TypeOK, transitionVars
  <2>1. CASE Reader \/ UNCHANGED vars
    BY <2>1 DEF Reader, CreateFence, Acquire, Release, vars
  <2>2. ASSUME NEW u \in Transitions, BeginSome(u)
        PROVE u = t \/ SameClaims
    BY <2>2 DEF BeginSome, Begin
  <2>3. ASSUME NEW u \in Transitions, StartRelease(u)
        PROVE SameClaims
    BY <2>3 DEF StartRelease, Finish
  <2>4. ASSUME NEW u \in Transitions, NEW h \in Fences, Claim(u, h)
        PROVE u = t \/ SameClaims
    BY <2>4 DEF Claim
  <2>5. ASSUME NEW u \in Transitions, StartClose(u) \/ FromClosed(u) \/ StartDrain(u)
                 \/ (\E l \in Leases : CancelLease(u, l))
        PROVE SameClaims
    BY <2>5 DEF StartClose, FromClosed, CommitSome, Commit, Rollback, MarkUnresolved, StartDrain,
                StartLoop, CancelLease
  <2>6. ASSUME NEW u \in Transitions, NEW h \in Fences,
               \/ CloseFence(u, h) \/ Drained(u, h) \/ AbortDrain(u, h)
               \/ OpenCommitted(u, h) \/ Reopen(u, h)
        PROVE SameClaims
    BY <2>6 DEF CloseFence, Drained, AbortDrain, OpenCommitted, Reopen, StartLoop, Advance
  <2>7. ASSUME NEW u \in Transitions, NEW h \in Fences, ReleaseOwner(u, h)
        PROVE SameClaims
    BY <2>7 DEF ReleaseOwner, Finish
  <2> QED
    BY <2>1, <2>2, <2>3, <2>4, <2>5, <2>6, <2>7
       DEF Next, Progress, AbandonClaim, RefuseClaim, FromBegun, ReleaseBegun
<1>2. CASE SameClaims
  BY <1>2 DEF ClaimsInOrder
<1>3. CASE BeginSome(t)
  BY <1>3 DEF BeginSome, Begin, PlanShape
<1>4. ASSUME NEW h \in Fences, Claim(t, h) PROVE f < g
  <2>1. claimed'[t] = claimed[t] \cup {h} /\ targets'[t] = targets[t]
    BY <1>4 DEF Claim, TypeOK
  <2>2. g \in targets[t] \ claimed[t] /\ g # h
    BY <2>1
  <2>3. CASE f \in claimed[t]
    BY <1>4, <2>2, <2>3 DEF Claim, ClaimsInOrder
  <2>4. CASE f = h
    <3>1. h <= g
      BY <1>4, <2>2 DEF Claim, IsNext
    <3>2. h \in Nat /\ g \in Nat
      BY <2>2, ConstantFacts DEF TypeOK
    <3> QED
      BY <2>2, <2>4, <3>1, <3>2
  <2> QED
    BY <2>1, <2>3, <2>4
<1> QED
  BY <1>1, <1>2, <1>3, <1>4

\* Of transitions that wait for each other, the one whose next target is last
\* waits for none of them: whoever has claimed that target wants later ones only.
LEMMA OrderPreventsCircles == IInv /\ ClaimsInOrder => NoCircularWait
<1> SUFFICES ASSUME IInv, ClaimsInOrder, NEW S \in SUBSET Transitions, S # {},
                    \A t \in S : \E f \in Fences, u \in S : WaitsFor(t, f) /\ f \in claimed[u]
             PROVE  FALSE
  BY DEF NoCircularWait
<1> DEFINE Wanted == {f \in Fences : \E t \in S : WaitsFor(t, f)}
<1>1. PICK f \in Wanted : \A g \in Wanted : g <= f
  BY LastFence
<1>2. PICK t \in S : WaitsFor(t, f)
  OBVIOUS
<1>3. \A h \in Fences : WaitsFor(t, h) => h = f
  <2>1. \A h \in Fences : WaitsFor(t, h) => h <= f /\ f <= h
    BY <1>2 DEF WaitsFor, IsNext
  <2> QED
    BY <2>1, ConstantFacts
<1>4. PICK u \in S : f \in claimed[u]
  BY <1>3
<1>5. PICK g \in Fences : WaitsFor(u, g)
  OBVIOUS
<1>6. f < g
  BY <1>4, <1>5 DEF WaitsFor, IsNext, ClaimsInOrder
<1>7. g <= f
  BY <1>1, <1>5
<1> QED
  BY <1>6, <1>7, ConstantFacts

\* No transitions ever wait for each other in a circle, however many there are
\* and however their targets overlap: the safety behind ClaimsEnd.
THEOREM NobodyWaitsInACircle == Spec => []NoCircularWait
<1>1. Init => ClaimsInOrder
  BY DEF Init, ClaimsInOrder
<1>2. IInv /\ ClaimsInOrder /\ [Next]_vars => ClaimsInOrder'
  BY ClaimsInOrderStep
<1> QED
  BY <1>1, <1>2, Invariant, OrderPreventsCircles, PTL DEF Spec
=============================================================================

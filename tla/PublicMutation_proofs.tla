------------------------- MODULE PublicMutation_proofs -------------------------
(***************************************************************************)
(* Proofs about PublicMutation, for any requests, readers, keys and        *)
(* bounds: its inductive invariant and what follows from it.               *)
(***************************************************************************)
EXTENDS PublicMutation, TLAPS

PlanRows == [revoking : BOOLEAN, global : BOOLEAN, discovery : 0..MaxDiscovery, retried : BOOLEAN]
Views == [phase : {"idle", "read", "sending"}, revision : 0..(MaxRevision + 1)]

LEMMA Constants ==
    /\ MaxRevision \in Nat \ {0} /\ MaxTurns \in Nat /\ MaxDiscovery \in Nat
    /\ MaxDiscovery = MaxRevision + 1 + MaxTurns
    /\ NoRequest \in Requests /\ NoRequest.base = 1
    /\ NoPlan \in PlanRows
    /\ Nobody \notin Mutations
<1>1. /\ MaxRevision \in Nat \ {0} /\ MaxTurns \in Nat /\ MaxDiscovery \in Nat
      /\ MaxDiscovery = MaxRevision + 1 + MaxTurns
  BY MaxRevisionAssumption, MaxTurnsAssumption DEF MaxDiscovery
<1>2. (CHOOSE k \in Keys : TRUE) \in Keys
  BY KindOfAssumption
<1> QED
  BY <1>1, <1>2, NobodyAssumption DEF NoRequest, Requests, NoPlan, PlanRows

\* What a request may be asked for under a key.
LEMMA KindsOf == ASSUME TypeOK, NEW m \in Mutations
                 PROVE  Key(m) \in Keys /\ Base(m) \in 1..MaxRevision /\ Kind(m) \in Kinds
  BY KindOfAssumption DEF TypeOK, Requests, Key, Base, Kind

\* An answer frees its slot and leaves the others alone.
Answered(m, res) ==
    /\ phase' \in [Mutations -> Phases] /\ reply' \in [Mutations -> Results]
    /\ plan' \in [Mutations -> PlanRows] /\ request' \in [Mutations -> Requests]
    /\ phase'[m] = "idle" /\ reply'[m] = res
    /\ doubt[m] => plan'[m] = plan[m]
    /\ doubt[m] \/ res \in {"done", "replayed", "stale"} => request'[m] = request[m]
    /\ request'[m] = request[m] \/ request'[m].base = 1
    /\ \A n \in Mutations \ {m} : /\ phase'[n] = phase[n] /\ reply'[n] = reply[n]
                                  /\ plan'[n] = plan[n] /\ request'[n] = request[n]
    /\ ackedFloor' \in Nat
    /\ \/ ackedFloor' = ackedFloor
       \/ /\ res \in {"done", "replayed"} /\ Withdraws(Kind(m))
          /\ ackedFloor' = Base(m) + 1

LEMMA AnswerShape ==
    ASSUME TypeOK, NEW m \in Mutations, NEW res \in Results, Answer(m, res)
    PROVE  Answered(m, res)
<1>1. Base(m) \in Nat
  BY KindsOf, Constants
<1>2. phase' \in [Mutations -> Phases] /\ reply' \in [Mutations -> Results]
  BY DEF Answer, TypeOK, Phases
<1>3. plan' \in [Mutations -> PlanRows]
  BY Constants DEF Answer, TypeOK, PlanRows
<1>4. request' \in [Mutations -> Requests]
  BY Constants DEF Answer, TypeOK
<1>5. /\ phase'[m] = "idle" /\ reply'[m] = res
      /\ doubt[m] => plan'[m] = plan[m]
      /\ doubt[m] \/ res \in {"done", "replayed", "stale"} => request'[m] = request[m]
      /\ request'[m] = request[m] \/ request'[m].base = 1
  BY Constants DEF Answer, TypeOK
<1>6. \A n \in Mutations \ {m} : /\ phase'[n] = phase[n] /\ reply'[n] = reply[n]
                                  /\ plan'[n] = plan[n] /\ request'[n] = request[n]
  BY DEF Answer, TypeOK
<1>7. /\ ackedFloor' \in Nat
      /\ \/ ackedFloor' = ackedFloor
         \/ /\ res \in {"done", "replayed"} /\ Withdraws(Kind(m))
            /\ ackedFloor' = Base(m) + 1
  BY <1>1 DEF Answer, TypeOK, Withdraws
<1> QED
  BY <1>2, <1>3, <1>4, <1>5, <1>6, <1>7 DEF Answered

-----------------------------------------------------------------------------
(* A request that ends without a write: whatever m holds is released at the *)
(* generation it had.                                                      *)

Released(m) ==
    /\ fence' = IF Holds(m) THEN OpenAt(Base(m)) ELSE fence
    /\ discoveryFence' = IF Holds(m) /\ plan[m].global THEN OpenAt(plan[m].discovery)
                                                       ELSE discoveryFence

\* Both forms of a release do that: before Close the fence is still open.
LEMMA ReleaseIsUnchanged ==
    ASSUME IInv, NEW m \in Mutations, ReleaseUnchanged(m)
    PROVE  Released(m)
  BY DEF IInv, Ownership, ReleaseUnchanged, Owned, Released

LEMMA ReleaseOfOpen ==
    ASSUME IInv, NEW m \in Mutations, Holds(m) => phase[m] \in Opening,
           fence' = Release(fence, m), discoveryFence' = Release(discoveryFence, m)
    PROVE  Released(m)
<1>1. fence \in FenceRecord(MaxRevision + 1) /\ discoveryFence \in FenceRecord(MaxDiscovery)
  BY DEF IInv, TypeOK
<1>2. CASE Holds(m)
  <2>1. fence.owner = m /\ fence.state = "open" /\ fence.gen = Base(m)
    BY <1>2 DEF IInv, Ownership
  <2>2. fence' = OpenAt(Base(m))
    BY <1>1, <2>1 DEF Release, Owned, OpenAt, FenceRecord
  <2>3. plan[m].global => /\ discoveryFence.owner = m /\ discoveryFence.state = "open"
                          /\ discoveryFence.gen = plan[m].discovery
    BY <1>2 DEF IInv, Ownership
  <2>4. plan[m].global => discoveryFence' = OpenAt(plan[m].discovery)
    BY <1>1, <2>3 DEF Release, Owned, OpenAt, FenceRecord
  <2>5. ~plan[m].global => discoveryFence' = discoveryFence
    BY DEF IInv, Ownership, Release, Owned
  <2> QED
    BY <1>2, <2>2, <2>4, <2>5 DEF Released
<1>3. CASE ~Holds(m)
  BY <1>3 DEF IInv, Ownership, Release, Owned, Released
<1> QED
  BY <1>2, <1>3

\* The request of m ends, and row and records stay.
LEMMA LeaveKeeps ==
    ASSUME IInv, NEW m \in Mutations, NEW res \in Results,
           Answer(m, res), Released(m),
           UNCHANGED <<database, doubt, reader, environment>>,
           \/ UNCHANGED userLock
           \/ ~doubt[m] /\ Unlock(m),
           Holds(m) /\ ~late => /\ revision = Base(m)
                                /\ plan[m].global => discovery = plan[m].discovery,
           res \in {"done", "replayed"} => records[Key(m)] = Base(m),
           ~late /\ others = 0 /\ res = "stale" => revision # Base(m) /\ records[Key(m)] # Base(m)
    PROVE  IInv'
<1>1. Answered(m, res)
  BY AnswerShape DEF IInv
<1>2. UNCHANGED <<revision, live, discovery, records, doubt, reader, crashes, others, late>>
  BY DEF database, environment
<1>3. /\ userLock' \in Mutations \cup {Nobody}
      /\ \A n \in Mutations \ {m} : userLock = n => userLock' = n
      /\ doubt[m] => userLock' = userLock
  BY DEF IInv, TypeOK, Unlock
<1>4. /\ Base(m) \in 1..MaxRevision /\ plan[m].discovery \in 0..MaxDiscovery
      /\ Key(m) \in Keys /\ m # Nobody
  BY KindsOf, Constants DEF IInv, TypeOK
<1>5. /\ fence' \in FenceRecord(MaxRevision + 1)
      /\ discoveryFence' \in FenceRecord(MaxDiscovery)
  BY <1>4, Constants DEF IInv, TypeOK, FenceRecord, Released, OpenAt
<1>6. TypeOK'
  BY <1>1, <1>2, <1>3, <1>5 DEF IInv, TypeOK, Answered, PlanRows
<1>7. DiscoveryBound'
  BY <1>2 DEF IInv, DiscoveryBound
<1>8. \A n \in Mutations \ {m} : Holds(n)' = Holds(n)
  BY <1>1 DEF Answered, Holds
<1>9. ~Holds(m)'
  BY <1>1 DEF Answered, Holds, Owning
<1>10. Ownership'
  <2>1. /\ fence'.owner = Nobody => fence'.state # "shut"
        /\ discoveryFence'.owner = Nobody => discoveryFence'.state = "open"
    BY DEF IInv, Ownership, Released, OpenAt
  <2>2. fence'.owner # m /\ discoveryFence'.owner # m
    BY <1>4 DEF IInv, Ownership, Released, OpenAt
  <2>3. ASSUME NEW n \in Mutations \ {m}
        PROVE  /\ Holds(m) => ~Holds(n)
               /\ fence'.owner = n <=> fence.owner = n
               /\ discoveryFence'.owner = n <=> discoveryFence.owner = n
    BY NobodyAssumption DEF IInv, Ownership, Released, OpenAt
  <2>4. ASSUME NEW n \in Mutations \ {m}, Holds(n)
        PROVE  fence' = fence /\ discoveryFence' = discoveryFence
    BY <2>3, <2>4 DEF Released
  <2>5. \A n \in Mutations \ {m} : /\ phase'[n] = phase[n] /\ plan'[n] = plan[n]
                                    /\ Base(n)' = Base(n)
    BY <1>1 DEF Answered, Base
  <2> QED
    BY <1>8, <1>9, <2>1, <2>2, <2>3, <2>4, <2>5 DEF IInv, Ownership
<1>11. Doubts'
  BY <1>1, <1>2, <1>3 DEF IInv, TypeOK, Doubts, Answered, Key, Base, Settling, Owning
<1>12. Keyed'
  BY <1>1, <1>2 DEF IInv, TypeOK, Keyed, Answered, Key, Base
<1>13. Acknowledged'
  BY <1>1, <1>2, <1>4, Constants DEF IInv, TypeOK, Acknowledged, Answered, Kind
<1>14. Plans'
  BY <1>1, <1>2, <1>4 DEF IInv, TypeOK, Plans, Answered, Key, Base, Kind, Revokes, ChangesDiscovery, Planned
<1>15. Reading'
  BY <1>1, <1>2 DEF IInv, TypeOK, Reading, Answered, Drain, Settling, Owning
<1>16. ~late => InStep'
  BY <1>1, <1>2, <1>4, <1>8 DEF IInv, TypeOK, InStep, OpenAtDurableGeneration, Answered, Key, Base, Kind,
     Released, OpenAt
<1>17. ~late => Withdrawals'
  BY <1>2 DEF IInv, Withdrawals
<1>18. ~late /\ others = 0 => OvertakenByRow'
  BY <1>1, <1>2 DEF IInv, TypeOK, OvertakenByRow, Answered, Key, Base
<1> QED
  BY <1>2, <1>6, <1>7, <1>10, <1>11, <1>12, <1>13, <1>14, <1>15, <1>16, <1>17, <1>18 DEF IInv

-----------------------------------------------------------------------------
(* Before the transition.                                                  *)

Wait(m, q, P) ==
    /\ phase' = [phase EXCEPT ![m] = q]
    /\ plan' = [plan EXCEPT ![m] = P]
    /\ UNCHANGED <<database, userLock, doubt, coordinator, reader, request, reply, history>>

\* A request goes on without a fence.
LEMMA WaitKeeps ==
    ASSUME IInv, NEW m \in Mutations, NEW q \in Waiting, NEW P \in PlanRows,
           phase[m] \in Waiting, Wait(m, q, P),
           q = "stale" => revision # Base(m),
           q \in Planned /\ revision = Base(m) =>
                P.revoking = Revokes(Kind(m)) /\ P.global = ChangesDiscovery(Kind(m)),
           ~late /\ fence.state = "absent" /\ q \in {"planning", "planned"} => revision = Base(m),
           ~late /\ q \in {"mismatched", "overtaken"} /\ ~P.global => revision # Base(m),
           ~late /\ others = 0 =>
                /\ q \in {"planned", "claiming"} /\ P.global /\ revision = Base(m) =>
                        P.discovery = discovery
                /\ q \in {"mismatched", "overtaken"} => revision # Base(m)
                /\ q = "overtaken" => records[Key(m)] # Base(m)
    PROVE  IInv'
<1>1. UNCHANGED <<revision, live, discovery, records, userLock, doubt, fence, discoveryFence, reader,
                  request, reply, ackedFloor, crashes, others, late>>
  BY DEF Wait, database, coordinator, history, environment
<1>2. /\ phase' \in [Mutations -> Phases] /\ plan' \in [Mutations -> PlanRows]
      /\ phase'[m] = q /\ plan'[m] = P
      /\ \A n \in Mutations \ {m} : phase'[n] = phase[n] /\ plan'[n] = plan[n]
  BY DEF Wait, IInv, TypeOK, Phases, PlanRows
<1>3. TypeOK'
  BY <1>1, <1>2 DEF IInv, TypeOK, PlanRows
<1>4. DiscoveryBound'
  BY <1>1 DEF IInv, DiscoveryBound
<1>5. \A n \in Mutations : /\ Holds(n)' = Holds(n)
                           /\ Key(n)' = Key(n) /\ Base(n)' = Base(n) /\ Kind(n)' = Kind(n)
  BY <1>1, <1>2 DEF Holds, Owning, Waiting, Key, Base, Kind
<1>6. ~Holds(m)
  BY DEF Holds, Owning, Waiting
<1>7. Ownership'
  BY <1>1, <1>2, <1>5, <1>6 DEF IInv, TypeOK, Ownership
<1>8. Doubts'
  BY <1>1, <1>2, <1>5 DEF IInv, TypeOK, Doubts, Settling, Owning, Waiting
<1>9. Keyed' /\ Acknowledged'
  BY <1>1, <1>2, <1>5 DEF IInv, TypeOK, Keyed, Acknowledged, Waiting
<1>10. Plans'
  <2>1. ~doubt[m]
    BY DEF IInv, Doubts, Waiting
  <2> QED
    BY <1>1, <1>2, <1>5, <2>1 DEF IInv, TypeOK, Plans, Revokes, ChangesDiscovery
<1>11. Reading'
  BY <1>1, <1>2 DEF IInv, TypeOK, Reading, Drain, Settling, Owning, Waiting
<1>12. ~late => InStep' /\ Withdrawals'
  BY <1>1, <1>2, <1>5 DEF IInv, TypeOK, InStep, OpenAtDurableGeneration, Withdrawals, Waiting
<1>13. ~late /\ others = 0 => OvertakenByRow'
  BY <1>1, <1>2, <1>5 DEF IInv, TypeOK, OvertakenByRow, Waiting
<1> QED
  BY <1>1, <1>3, <1>4, <1>7, <1>8, <1>9, <1>10, <1>11, <1>12, <1>13 DEF IInv

\* Steps that leave the plan alone wait with the same plan.
LEMMA GotoWaits ==
    ASSUME IInv, NEW m \in Mutations, NEW q, Goto(m, q),
           UNCHANGED <<database, userLock, doubt, coordinator, reader, plan, request, reply, history>>
    PROVE  Wait(m, q, plan[m]) /\ plan[m] \in PlanRows
  BY DEF IInv, TypeOK, Goto, Wait, PlanRows

LEMMA StartKeeps ==
    ASSUME IInv, NEW m \in Mutations, NEW req \in Requests, Start(m, req)
    PROVE  IInv'
<1>1. UNCHANGED <<revision, live, discovery, records, userLock, doubt, fence, discoveryFence, reader,
                  ackedFloor, crashes, others, late>>
  BY DEF Start, database, coordinator, history, environment
<1>2. /\ request' \in [Mutations -> Requests] /\ plan' \in [Mutations -> PlanRows]
      /\ reply' \in [Mutations -> Results] /\ phase' \in [Mutations -> Phases]
      /\ phase[m] = "idle" /\ ~doubt[m]
      /\ request'[m] = req /\ phase'[m] = "inspect" /\ plan'[m] = NoPlan
      /\ \A n \in Mutations \ {m} : /\ phase'[n] = phase[n] /\ reply'[n] = reply[n]
                                    /\ plan'[n] = plan[n] /\ request'[n] = request[n]
  BY Constants DEF Start, IInv, TypeOK, PlanRows, Goto, Phases, Waiting, Results
<1>3. TypeOK'
  BY <1>1, <1>2 DEF IInv, TypeOK, PlanRows
<1>4. DiscoveryBound'
  BY <1>1 DEF IInv, DiscoveryBound
<1>5. /\ \A n \in Mutations : Holds(n)' = Holds(n)
      /\ \A n \in Mutations \ {m} : Key(n)' = Key(n) /\ Base(n)' = Base(n) /\ Kind(n)' = Kind(n)
      /\ ~Holds(m)
  BY <1>1, <1>2 DEF Holds, Owning, Key, Base, Kind
<1>6. Ownership'
  BY <1>1, <1>2, <1>5 DEF IInv, TypeOK, Ownership
<1>7. Doubts'
  BY <1>1, <1>2, <1>5 DEF IInv, TypeOK, Doubts, Settling, Owning
<1>8. Keyed' /\ Acknowledged'
  <2>1. reply'[m] = "none"
    BY DEF Start, IInv, TypeOK
  <2> QED
    BY <1>1, <1>2, <1>5, <2>1 DEF IInv, TypeOK, Keyed, Acknowledged
<1>9. Plans'
  <2>1. revision # 0 => Base(m)' <= revision
    BY <1>2 DEF Base, Start
  <2> QED
    BY <1>1, <1>2, <1>5, <2>1 DEF IInv, TypeOK, Plans, Revokes, ChangesDiscovery, Planned
<1>10. Reading'
  BY <1>1, <1>2 DEF IInv, TypeOK, Reading, Drain, Settling, Owning
<1>11. ~late => InStep' /\ Withdrawals'
  BY <1>1, <1>2, <1>5 DEF IInv, TypeOK, InStep, OpenAtDurableGeneration, Withdrawals
<1>12. ~late /\ others = 0 => OvertakenByRow'
  BY <1>1, <1>2, <1>5 DEF IInv, TypeOK, OvertakenByRow
<1> QED
  BY <1>1, <1>3, <1>4, <1>6, <1>7, <1>8, <1>9, <1>10, <1>11, <1>12 DEF IInv

\* An answer to a request that holds nothing releases nothing.
LEMMA NothingReleased ==
    ASSUME NEW m \in Mutations, phase[m] \in Waiting, UNCHANGED coordinator
    PROVE  Released(m) /\ ~Holds(m)
  BY DEF coordinator, Released, Holds, Owning, Waiting

LEMMA DecisionTells ==
    ASSUME TypeOK, NEW m \in Mutations
    PROVE  /\ Decision(m) \in {"fresh", "replay", "reuse"}
           /\ Decision(m) = "fresh" <=> records[Key(m)] = 0
           /\ Decision(m) = "replay" <=> records[Key(m)] = Base(m)
           /\ Base(m) # 0
  BY KindsOf, Constants DEF Decision

LEMMA InspectKeeps ==
    ASSUME IInv, NEW m \in Mutations, Inspect(m)
    PROVE  IInv'
<1>1. phase[m] = "inspect"
  BY DEF Inspect
<1>2. CASE Decision(m) = "fresh" /\ Goto(m, "preflight") /\ UNCHANGED slot
  <2>1. Wait(m, "preflight", plan[m]) /\ plan[m] \in PlanRows
    BY <1>2, GotoWaits DEF Inspect, slot, history
  <2> QED
    BY <1>1, <2>1, WaitKeeps DEF Waiting, Planned
<1>3. CASE Decision(m) = "replay" /\ Answer(m, "replayed")
  BY <1>1, <1>3, DecisionTells, LeaveKeeps, NothingReleased DEF Inspect, Results, Waiting, IInv
<1>4. CASE Decision(m) = "reuse" /\ Answer(m, "reuse")
  BY <1>1, <1>4, LeaveKeeps, NothingReleased DEF Inspect, Results, Waiting
<1> QED
  BY <1>2, <1>3, <1>4 DEF Inspect

LEMMA PreflightKeeps ==
    ASSUME IInv, NEW m \in Mutations, Preflight(m)
    PROVE  IInv'
<1>1. phase[m] = "preflight" /\ phase[m] \in Waiting
  BY DEF Preflight, Waiting
<1>2. CASE revision # Base(m)
  <2>1. Wait(m, "stale", plan[m]) /\ plan[m] \in PlanRows
    BY <1>2, GotoWaits DEF Preflight
  <2> QED
    BY <1>1, <1>2, <2>1, WaitKeeps DEF Waiting, Planned
<1>3. CASE revision = Base(m)
  <2> DEFINE P == [plan[m] EXCEPT !.revoking = Revokes(Kind(m)), !.global = ChangesDiscovery(Kind(m))]
             q == IF ChangesDiscovery(Kind(m)) THEN "planning" ELSE "planned"
  <2>1. plan[m] \in PlanRows /\ plan \in [Mutations -> PlanRows]
    BY DEF IInv, TypeOK, PlanRows
  <2>2. Revokes(Kind(m)) \in BOOLEAN /\ ChangesDiscovery(Kind(m)) \in BOOLEAN
    BY DEF Revokes, ChangesDiscovery, IInv, TypeOK
  <2>3. P \in PlanRows /\ P.revoking = Revokes(Kind(m)) /\ P.global = ChangesDiscovery(Kind(m))
    BY <2>1, <2>2 DEF PlanRows
  <2>4. plan' = [plan EXCEPT ![m] = P]
    BY <1>3, <2>1 DEF Preflight
  <2>5. Wait(m, q, P)
    BY <1>3, <2>4 DEF Preflight, Wait, Goto
  <2>6. q = "planned" => ~P.global
    BY <2>3
  <2>7. q \in Waiting /\ q \in {"planning", "planned"}
    BY DEF Waiting
  <2> HIDE DEF P, q
  <2> QED
    BY <1>1, <1>3, <2>3, <2>5, <2>6, <2>7, WaitKeeps
<1> QED
  BY <1>2, <1>3

LEMMA RecheckStaleKeeps ==
    ASSUME IInv, NEW m \in Mutations, RecheckStale(m)
    PROVE  IInv'
<1> DEFINE res == CASE Decision(m) = "replay" -> "replayed"
                    [] Decision(m) = "reuse" -> "reuse"
                    [] OTHER -> "stale"
<1>1. phase[m] = "stale" /\ phase[m] \in Waiting /\ Answer(m, res)
  BY DEF RecheckStale, Waiting
<1>2. /\ res \in Results
      /\ res \in {"done", "replayed"} => Decision(m) = "replay"
      /\ res = "stale" => Decision(m) = "fresh"
  BY DecisionTells DEF Results, IInv
<1>3. revision # Base(m)
  BY <1>1 DEF IInv, Plans
<1> HIDE DEF res
<1> QED
  BY <1>1, <1>2, <1>3, DecisionTells, LeaveKeeps, NothingReleased DEF RecheckStale, IInv

LEMMA ReadDiscoveryKeeps ==
    ASSUME IInv, NEW m \in Mutations, ReadDiscovery(m)
    PROVE  IInv'
<1> DEFINE P == [plan[m] EXCEPT !.discovery = discovery]
<1>1. phase[m] = "planning" /\ phase[m] \in Waiting /\ phase[m] \in Planned
  BY DEF ReadDiscovery, Waiting, Planned, Phases
<1>2. plan[m] \in PlanRows /\ plan \in [Mutations -> PlanRows] /\ discovery \in 0..MaxDiscovery
  BY Constants DEF IInv, TypeOK, PlanRows
<1>3. /\ P \in PlanRows /\ P.discovery = discovery
      /\ P.revoking = plan[m].revoking /\ P.global = plan[m].global
  BY <1>2 DEF PlanRows
<1>4. Wait(m, "planned", P)
  BY <1>2 DEF ReadDiscovery, Wait, Goto
<1>5. /\ revision = Base(m) =>
            P.revoking = Revokes(Kind(m)) /\ P.global = ChangesDiscovery(Kind(m))
      /\ ~late /\ fence.state = "absent" => revision = Base(m)
  BY <1>1, <1>3 DEF IInv, Plans, InStep
<1> HIDE DEF P
<1> QED
  BY <1>1, <1>3, <1>4, <1>5, WaitKeeps DEF Waiting

LEMMA RefuseClaimKeeps ==
    ASSUME IInv, NEW m \in Mutations, RefuseClaim(m)
    PROVE  IInv'
<1>1. phase[m] = "claiming" /\ phase[m] \in Waiting /\ phase[m] \in Planned
  BY DEF RefuseClaim, Waiting, Planned, Phases
<1>2. CASE Goto(m, "mismatched") /\ UNCHANGED slot
  <2>1. Wait(m, "mismatched", plan[m]) /\ plan[m] \in PlanRows
    BY <1>2, GotoWaits DEF RefuseClaim, slot, history
  <2>2. \/ /\ plan[m].global /\ discoveryFence.owner = Nobody
           /\ discoveryFence.gen # plan[m].discovery
        \/ fence.owner = Nobody /\ fence.state = "open" /\ fence.gen # Base(m)
    BY <1>1, <1>2 DEF RefuseClaim, Answer, Goto, IInv, TypeOK
  <2>3. ~late /\ others = 0 => revision # Base(m)
    BY <1>1, <2>2 DEF IInv, Ownership, InStep, OpenAtDurableGeneration, OvertakenByRow
  <2>4. ~late /\ ~plan[m].global => revision # Base(m)
    BY <2>2 DEF IInv, InStep, OpenAtDurableGeneration
  <2> QED
    BY <1>1, <2>1, <2>3, <2>4, WaitKeeps DEF Waiting, IInv, Plans
<1>3. CASE Answer(m, "failed")
  BY <1>1, <1>3, LeaveKeeps, NothingReleased DEF RefuseClaim, Results
<1> QED
  BY <1>2, <1>3 DEF RefuseClaim

LEMMA RecheckMismatchKeeps ==
    ASSUME IInv, NEW m \in Mutations, RecheckMismatch(m)
    PROVE  IInv'
<1>1. phase[m] = "mismatched" /\ phase[m] \in Waiting /\ phase[m] \in Planned
  BY DEF RecheckMismatch, Waiting, Planned, Phases
<1>2. CASE Decision(m) = "fresh" /\ ~plan[m].retried
  <2>1. Wait(m, "overtaken", plan[m]) /\ plan[m] \in PlanRows
    BY <1>2, GotoWaits DEF RecheckMismatch, slot, history
  <2>2. records[Key(m)] # Base(m)
    BY <1>2, DecisionTells DEF IInv
  <2>3. ~late /\ others = 0 => revision # Base(m)
    BY <1>1 DEF IInv, OvertakenByRow
  <2>4. ~late /\ ~plan[m].global => revision # Base(m)
    BY <1>1 DEF IInv, InStep
  <2> QED
    BY <1>1, <2>1, <2>2, <2>3, <2>4, WaitKeeps DEF Waiting, IInv, Plans
<1>3. CASE ~(Decision(m) = "fresh" /\ ~plan[m].retried)
  <2> DEFINE res == CASE Decision(m) = "replay" -> "replayed"
                      [] Decision(m) = "reuse" -> "reuse"
                      [] OTHER -> "failed"
  <2>1. Answer(m, res)
    BY <1>3 DEF RecheckMismatch
  <2>2. /\ res \in Results /\ res # "stale"
        /\ res \in {"done", "replayed"} => Decision(m) = "replay"
    BY DecisionTells DEF Results, IInv
  <2> HIDE DEF res
  <2> QED
    BY <1>1, <2>1, <2>2, DecisionTells, LeaveKeeps, NothingReleased DEF RecheckMismatch, IInv
<1> QED
  BY <1>2, <1>3

LEMMA RefreshPlanKeeps ==
    ASSUME IInv, NEW m \in Mutations, RefreshPlan(m)
    PROVE  IInv'
<1>1. phase[m] = "overtaken" /\ phase[m] \in Waiting /\ phase[m] \in Planned
  BY DEF RefreshPlan, Waiting, Planned, Phases
<1>2. CASE revision = Base(m) /\ plan[m].global
  <2> DEFINE P == [plan[m] EXCEPT !.retried = TRUE]
  <2>1. plan[m] \in PlanRows /\ plan \in [Mutations -> PlanRows]
    BY DEF IInv, TypeOK, PlanRows
  <2>2. P \in PlanRows /\ P.revoking = plan[m].revoking /\ P.global = plan[m].global
    BY <2>1 DEF PlanRows
  <2>3. Wait(m, "planning", P)
    BY <1>2, <2>1 DEF RefreshPlan, Wait, Goto, history
  <2>4. P.revoking = Revokes(Kind(m)) /\ P.global = ChangesDiscovery(Kind(m))
    BY <1>1, <1>2, <2>2 DEF IInv, Plans
  <2> HIDE DEF P
  <2> QED
    BY <1>1, <1>2, <2>2, <2>3, <2>4, WaitKeeps DEF Waiting
<1>3. CASE ~(revision = Base(m) /\ plan[m].global)
  <2>1. ~late /\ others = 0 => revision # Base(m) /\ records[Key(m)] # Base(m)
    BY <1>1 DEF IInv, OvertakenByRow
  <2> QED
    BY <1>1, <1>3, <2>1, LeaveKeeps, NothingReleased DEF RefreshPlan, Results
<1> QED
  BY <1>2, <1>3

\* Begin creates a missing fence at the planned revision, which is the row's.
LEMMA BeginKeeps ==
    ASSUME IInv, NEW m \in Mutations, Begin(m)
    PROVE  IInv'
<1>1. UNCHANGED <<revision, live, discovery, records, userLock, doubt, discoveryFence, reader,
                  request, plan, reply, ackedFloor, crashes, others, late>>
  BY DEF Begin, database, history, environment
<1>2. /\ phase' \in [Mutations -> Phases] /\ phase[m] = "planned" /\ phase'[m] = "claiming"
      /\ \A n \in Mutations \ {m} : phase'[n] = phase[n]
      /\ fence' = IF fence.state = "absent" THEN OpenAt(Base(m)) ELSE fence
  BY DEF Begin, Goto, IInv, TypeOK, Phases, Waiting
<1>3. Base(m) \in 1..MaxRevision
  BY KindsOf DEF IInv
<1>4. fence' \in FenceRecord(MaxRevision + 1)
  BY <1>2, <1>3, Constants DEF IInv, TypeOK, FenceRecord, OpenAt
<1>5. TypeOK'
  BY <1>1, <1>2, <1>4 DEF IInv, TypeOK
<1>6. DiscoveryBound'
  BY <1>1 DEF IInv, DiscoveryBound
<1>7. \A n \in Mutations : /\ Holds(n)' = Holds(n) /\ (Holds(n) => fence.state # "absent")
                           /\ Key(n)' = Key(n) /\ Base(n)' = Base(n) /\ Kind(n)' = Kind(n)
  BY <1>1, <1>2 DEF Holds, Owning, Key, Base, Kind, IInv, Ownership
<1>8. /\ fence'.owner = fence.owner
      /\ fence.state # "absent" => fence' = fence
      /\ fence'.state = "shut" => fence.state = "shut"
  <2>1. fence.state = "absent" => fence.owner = Nobody
    BY <1>7 DEF IInv, TypeOK, FenceRecord, Ownership
  <2> QED
    BY <1>2, <2>1 DEF OpenAt
<1>9. Ownership'
  BY <1>1, <1>2, <1>7, <1>8 DEF IInv, Ownership, Opening
<1>10. Doubts'
  BY <1>1, <1>2, <1>7 DEF IInv, TypeOK, Doubts, Settling, Owning
<1>11. Keyed' /\ Acknowledged'
  BY <1>1, <1>2, <1>7 DEF IInv, TypeOK, Keyed, Acknowledged
<1>12. Plans'
  <2>1. phase[m] \in Planned
    BY <1>2 DEF Planned, Phases, Waiting
  <2> QED
    BY <1>1, <1>2, <1>7, <2>1 DEF IInv, TypeOK, Plans, Revokes, ChangesDiscovery
<1>13. Reading'
  BY <1>1, <1>2 DEF IInv, TypeOK, Reading, Drain, Settling, Owning
<1>14. ~late => OpenAtDurableGeneration'
  BY <1>1, <1>2, <1>8 DEF IInv, InStep, OpenAtDurableGeneration, OpenAt
<1>15. ~late => InStep' /\ Withdrawals'
  BY <1>1, <1>2, <1>7, <1>8, <1>14 DEF IInv, TypeOK, InStep, Withdrawals, OpenAt
<1>16. ~late /\ others = 0 => OvertakenByRow'
  BY <1>1, <1>2, <1>7 DEF IInv, TypeOK, OvertakenByRow
<1> QED
  BY <1>1, <1>5, <1>6, <1>9, <1>10, <1>11, <1>12, <1>13, <1>15, <1>16 DEF IInv

\* What a claim takes is open where the plan expects it.
LEMMA ClaimKeeps ==
    ASSUME IInv, NEW m \in Mutations, Claim(m)
    PROVE  IInv'
<1>1. UNCHANGED <<revision, live, discovery, records, userLock, doubt, reader,
                  request, plan, reply, ackedFloor, crashes, others, late>>
  BY DEF Claim, database, history, environment
<1>2. /\ phase' \in [Mutations -> Phases] /\ phase[m] = "claiming" /\ phase'[m] = "begun"
      /\ \A n \in Mutations \ {m} : phase'[n] = phase[n]
  BY DEF Claim, Goto, IInv, TypeOK, Phases, Owning
<1>3. /\ fence.owner = Nobody /\ fence.state = "open" /\ fence.gen = Base(m)
      /\ plan[m].global => /\ discoveryFence.owner = Nobody /\ discoveryFence.state = "open"
                           /\ discoveryFence.gen = plan[m].discovery
  BY DEF Claim, DiscoveryClaimable, FenceClaimable, IInv, Ownership
<1>4. /\ fence' \in FenceRecord(MaxRevision + 1)
      /\ fence'.owner = m /\ fence'.state = fence.state /\ fence'.gen = fence.gen
  BY DEF Claim, IInv, TypeOK, FenceRecord
<1>5. /\ discoveryFence' \in FenceRecord(MaxDiscovery)
      /\ discoveryFence'.owner = IF plan[m].global THEN m ELSE discoveryFence.owner
      /\ discoveryFence'.state = discoveryFence.state /\ discoveryFence'.gen = discoveryFence.gen
  BY DEF Claim, IInv, TypeOK, FenceRecord
<1>6. TypeOK'
  BY <1>1, <1>2, <1>4, <1>5 DEF IInv, TypeOK
<1>7. DiscoveryBound'
  BY <1>1 DEF IInv, DiscoveryBound
<1>8. /\ \A n \in Mutations \ {m} : Holds(n)' = Holds(n)
      /\ Holds(m)'
      /\ \A n \in Mutations : /\ ~Holds(n)
                              /\ Key(n)' = Key(n) /\ Base(n)' = Base(n) /\ Kind(n)' = Kind(n)
  BY <1>1, <1>2, <1>3, NobodyAssumption DEF Holds, Owning, Key, Base, Kind, IInv, Ownership
<1>9. Ownership'
  BY <1>1, <1>2, <1>3, <1>4, <1>5, <1>8, NobodyAssumption DEF IInv, Ownership, Opening
<1>10. Doubts'
  BY <1>1, <1>2, <1>8 DEF IInv, TypeOK, Doubts, Settling, Owning
<1>11. Keyed' /\ Acknowledged'
  BY <1>1, <1>2, <1>8 DEF IInv, TypeOK, Keyed, Acknowledged
<1>12. Plans'
  <2>1. phase[m] \in Planned
    BY <1>2 DEF Planned, Phases, Waiting
  <2> QED
    BY <1>1, <1>2, <1>8, <2>1 DEF IInv, TypeOK, Plans, Revokes, ChangesDiscovery
<1>13. Reading'
  BY <1>1, <1>2 DEF IInv, TypeOK, Reading, Drain, Settling, Owning
<1>14. ~late => /\ revision = Base(m)
                /\ plan[m].global => discovery = plan[m].discovery
                /\ OpenAtDurableGeneration'
  BY <1>1, <1>3, <1>4, <1>5, NobodyAssumption DEF IInv, InStep, OpenAtDurableGeneration
<1>15. ~late => InStep' /\ Withdrawals'
  BY <1>1, <1>2, <1>3, <1>4, <1>8, <1>14 DEF IInv, TypeOK, InStep, Withdrawals
<1>16. ~late /\ others = 0 => OvertakenByRow'
  BY <1>1, <1>2, <1>8 DEF IInv, TypeOK, OvertakenByRow
<1> QED
  BY <1>1, <1>6, <1>7, <1>9, <1>10, <1>11, <1>12, <1>13, <1>15, <1>16 DEF IInv

LEMMA FailsKeeps ==
    ASSUME IInv, NEW m \in Mutations, Fails(m)
    PROVE  IInv'
<1>1. Holds(m) => phase[m] \in Opening
  BY DEF Fails, Holds, Owning, Waiting, Opening
<1>2. Released(m)
  BY <1>1, ReleaseOfOpen DEF Fails
<1>3. Holds(m) /\ ~late => /\ revision = Base(m)
                           /\ plan[m].global => discovery = plan[m].discovery
  BY <1>1 DEF IInv, InStep, Opening
<1> QED
  BY <1>2, <1>3, LeaveKeeps DEF Fails, Results

-----------------------------------------------------------------------------
(* Owners.                                                                 *)

Advance(m, q) ==
    /\ phase' = [phase EXCEPT ![m] = q]
    /\ UNCHANGED <<database, coordinator, reader, request, plan, history>>
    /\ reply' \in [Mutations -> Results]
    /\ reply'[m] = IF q = "unresolved" THEN "failed" ELSE reply[m]
    /\ \A n \in Mutations \ {m} : reply'[n] = reply[n]

\* An owner goes on and leaves the fences as they are.
LEMMA AdvanceKeeps ==
    ASSUME IInv, NEW m \in Mutations, NEW q \in Owning \cup {"unresolved"},
           Holds(m), phase[m] # "unresolved", Advance(m, q),
           q \in Opening <=> phase[m] \in Opening,
           \A n \in Mutations \ {m} : ~doubt[n],
           userLock' = userLock \/ (userLock = Nobody /\ userLock' = m),
           doubt' = doubt \/ doubt' = [doubt EXCEPT ![m] = TRUE],
           doubt'[m] => /\ userLock' = m /\ q \in {"unknown", "provenNot", "unresolved"}
                        /\ records[Key(m)] = 0 /\ revision = Base(m),
           q \in {"locked", "committing"} => userLock' = m,
           q \in {"fresh", "draining", "closed", "locked", "committing"} => records[Key(m)] = 0,
           q = "committing" =>
                revision = Base(m) /\ (plan[m].global => discovery = plan[m].discovery),
           q # "committed",
           q = "provenCommitted" => records[Key(m)] = Base(m),
           q \in Drain /\ plan[m].revoking => \A r \in Readers : reader[r].phase # "sending",
           ~late /\ q \in {"begun", "fresh", "draining", "closed", "locked"} =>
                revision = Base(m) /\ (plan[m].global => discovery = plan[m].discovery)
    PROVE  IInv'
<1>1. UNCHANGED <<revision, live, discovery, records, fence, discoveryFence, reader,
                  request, plan, ackedFloor, crashes, others, late>>
  BY DEF Advance, database, coordinator, history, environment
<1>2. /\ phase' \in [Mutations -> Phases] /\ phase'[m] = q
      /\ \A n \in Mutations \ {m} : phase'[n] = phase[n] /\ reply'[n] = reply[n]
      /\ reply' \in [Mutations -> Results]
      /\ reply'[m] = IF q = "unresolved" THEN "failed" ELSE "none"
  <2>1. reply[m] = "none"
    BY DEF Holds, Owning, IInv, Keyed
  <2> QED
    BY <2>1 DEF Advance, IInv, TypeOK, Phases
<1>3. /\ userLock' \in Mutations \cup {Nobody} /\ doubt' \in [Mutations -> BOOLEAN]
      /\ \A n \in Mutations \ {m} : doubt'[n] = doubt[n] /\ (userLock = n => userLock' = n)
  BY NobodyAssumption DEF IInv, TypeOK
<1>4. TypeOK'
  BY <1>1, <1>2, <1>3 DEF IInv, TypeOK
<1>5. DiscoveryBound'
  BY <1>1 DEF IInv, DiscoveryBound
<1>6. /\ \A n \in Mutations : /\ Holds(n)' = Holds(n)
                              /\ Key(n)' = Key(n) /\ Base(n)' = Base(n) /\ Kind(n)' = Kind(n)
      /\ \A n \in Mutations \ {m} : ~Holds(n)
  BY <1>1, <1>2 DEF Holds, Key, Base, Kind, IInv, Ownership
<1>7. Ownership'
  BY <1>1, <1>2, <1>6 DEF IInv, Ownership
<1>8. Doubts'
  <2>1. \A n \in Mutations \ {m} : phase[n] \notin Settling
    BY <1>6 DEF Holds, Settling
  <2> QED
    BY <1>1, <1>2, <1>3, <1>6, <2>1 DEF IInv, TypeOK, Doubts
<1>9. q # "idle"
  BY DEF Owning
<1>10. Keyed' /\ Acknowledged'
  BY <1>1, <1>2, <1>6, <1>9 DEF IInv, TypeOK, Keyed, Acknowledged
<1>11. Plans'
  <2>1. phase[m] \in Planned /\ q # "stale"
    BY DEF Planned, Phases, Holds, Owning
  <2> QED
    BY <1>1, <1>2, <1>3, <1>6, <2>1 DEF IInv, TypeOK, Plans, Revokes, ChangesDiscovery
<1>12. Reading'
  BY <1>1, <1>2 DEF IInv, TypeOK, Reading
<1>13. ~late => InStep' /\ Withdrawals'
  BY <1>1, <1>2, <1>6 DEF IInv, TypeOK, InStep, OpenAtDurableGeneration, Withdrawals, Owning
<1>14. ~late /\ others = 0 => OvertakenByRow'
  BY <1>1, <1>2, <1>6, <1>9 DEF IInv, TypeOK, OvertakenByRow, Owning
<1> QED
  BY <1>1, <1>4, <1>5, <1>7, <1>8, <1>10, <1>11, <1>12, <1>13, <1>14 DEF IInv

\* While a transition is past its recheck, no COMMIT but its own is in doubt.
LEMMA NoOtherDoubt ==
    ASSUME IInv, NEW m \in Mutations, phase[m] \in Settling \/ userLock = Nobody
    PROVE  \A n \in Mutations \ {m} : ~doubt[n]
  BY NobodyAssumption DEF IInv, Doubts

\* Nor its own, before its COMMIT.
LEMMA NoDoubtYet ==
    ASSUME IInv, NEW m \in Mutations,
           phase[m] \in Waiting \cup Opening \cup {"draining", "closed", "locked", "committing", "committed"}
    PROVE  ~doubt[m]
  BY DEF IInv, Doubts, Waiting, Opening

LEMMA GotoAdvances ==
    ASSUME IInv, NEW m \in Mutations, NEW q, q # "unresolved", Goto(m, q),
           UNCHANGED <<database, coordinator, reader, request, plan, reply, history>>
    PROVE  Advance(m, q)
  BY DEF IInv, TypeOK, Goto, Advance

LEMMA RecheckBegunKeeps ==
    ASSUME IInv, NEW m \in Mutations, RecheckBegun(m)
    PROVE  IInv'
<1>1. phase[m] = "begun" /\ userLock = Nobody /\ Holds(m)
  BY DEF RecheckBegun, Holds, Owning
<1>2. ~late => revision = Base(m) /\ (plan[m].global => discovery = plan[m].discovery)
  BY <1>1 DEF IInv, InStep
<1>3. CASE Decision(m) = "fresh"
  <2>1. Advance(m, "fresh") /\ UNCHANGED <<userLock, doubt>>
    BY <1>3, GotoAdvances DEF RecheckBegun, slot, history
  <2>2. records[Key(m)] = 0
    BY <1>3, DecisionTells DEF IInv
  <2>3. ~doubt[m] /\ \A n \in Mutations \ {m} : ~doubt[n]
    BY <1>1, NoOtherDoubt, NoDoubtYet DEF Opening
  <2> QED
    BY <1>1, <1>2, <2>1, <2>2, <2>3, AdvanceKeeps DEF Owning, Opening, Drain
<1>4. CASE Decision(m) # "fresh"
  <2> DEFINE res == IF Decision(m) = "replay" THEN "replayed" ELSE "reuse"
  <2>1. Released(m)
    BY <1>1, <1>4, ReleaseOfOpen DEF RecheckBegun, Opening
  <2>2. Answer(m, res)
    BY <1>4 DEF RecheckBegun
  <2>3. res \in Results /\ res \notin {"stale", "done"}
        /\ (res = "replayed" => records[Key(m)] = Base(m))
    BY DecisionTells DEF Results, IInv
  <2> HIDE DEF res
  <2> QED
    BY <1>2, <2>1, <2>2, <2>3, LeaveKeeps DEF RecheckBegun
<1> QED
  BY <1>3, <1>4

\* Close shuts what m owns.
LEMMA ShutKeeps ==
    ASSUME IInv, NEW m \in Mutations, Shut(m)
    PROVE  IInv'
<1>1. UNCHANGED <<revision, live, discovery, records, userLock, doubt, reader,
                  request, plan, reply, ackedFloor, crashes, others, late>>
  BY DEF Shut, database, history, environment
<1>2. /\ phase' \in [Mutations -> Phases] /\ phase[m] = "fresh" /\ phase'[m] = "draining"
      /\ \A n \in Mutations \ {m} : phase'[n] = phase[n]
  BY DEF Shut, Goto, IInv, TypeOK, Phases, Owning
<1>3. Holds(m) /\ ~doubt[m]
  BY <1>2, NoDoubtYet DEF Holds, Owning, Opening
<1>4. /\ fence' \in FenceRecord(MaxRevision + 1)
      /\ fence'.owner = fence.owner /\ fence'.state = "shut" /\ fence'.gen = fence.gen
  BY DEF Shut, IInv, TypeOK, FenceRecord
<1>5. /\ discoveryFence' \in FenceRecord(MaxDiscovery)
      /\ discoveryFence'.owner = discoveryFence.owner /\ discoveryFence'.gen = discoveryFence.gen
      /\ discoveryFence'.state = IF plan[m].global THEN "shut" ELSE discoveryFence.state
  BY DEF Shut, IInv, TypeOK, FenceRecord
<1>6. TypeOK'
  BY <1>1, <1>2, <1>4, <1>5 DEF IInv, TypeOK
<1>7. DiscoveryBound'
  BY <1>1 DEF IInv, DiscoveryBound
<1>8. /\ \A n \in Mutations : /\ Holds(n)' = Holds(n)
                              /\ Key(n)' = Key(n) /\ Base(n)' = Base(n) /\ Kind(n)' = Kind(n)
      /\ \A n \in Mutations \ {m} : ~Holds(n)
      /\ fence.owner = m /\ (plan[m].global => discoveryFence.owner = m)
  BY <1>1, <1>2, <1>3 DEF Holds, Owning, Key, Base, Kind, IInv, Ownership
<1>9. Ownership'
  BY <1>1, <1>2, <1>3, <1>4, <1>5, <1>8, NobodyAssumption DEF IInv, Ownership, Opening
<1>10. Doubts'
  BY <1>1, <1>2, <1>3, <1>8 DEF IInv, TypeOK, Doubts, Settling, Owning
<1>11. Keyed' /\ Acknowledged'
  BY <1>1, <1>2, <1>8 DEF IInv, TypeOK, Keyed, Acknowledged
<1>12. Plans'
  <2>1. phase[m] \in Planned
    BY <1>2 DEF Planned, Phases, Owning
  <2> QED
    BY <1>1, <1>2, <1>8, <2>1 DEF IInv, TypeOK, Plans, Revokes, ChangesDiscovery
<1>13. Reading'
  BY <1>1, <1>2 DEF IInv, TypeOK, Reading, Drain
<1>14. ~late => OpenAtDurableGeneration'
  BY <1>1, <1>4, <1>5, <1>8, NobodyAssumption DEF IInv, InStep, OpenAtDurableGeneration
<1>15. ~late => InStep' /\ Withdrawals'
  BY <1>1, <1>2, <1>4, <1>8, <1>14 DEF IInv, TypeOK, InStep, Withdrawals
<1>16. ~late /\ others = 0 => OvertakenByRow'
  BY <1>1, <1>2, <1>8 DEF IInv, TypeOK, OvertakenByRow
<1> QED
  BY <1>1, <1>6, <1>7, <1>9, <1>10, <1>11, <1>12, <1>13, <1>15, <1>16 DEF IInv

\* The drain of a revoking plan ends when nothing is sent any more.
LEMMA DrainedKeeps ==
    ASSUME IInv, NEW m \in Mutations, Drained(m)
    PROVE  IInv'
<1>1. phase[m] = "draining" /\ Holds(m) /\ phase[m] \in Settling
  BY DEF Drained, Holds, Owning, Settling
<1>2. Advance(m, "closed") /\ UNCHANGED <<userLock, doubt>>
  BY GotoAdvances DEF Drained
<1>3. ~doubt[m] /\ \A n \in Mutations \ {m} : ~doubt[n]
  BY <1>1, NoOtherDoubt, NoDoubtYet
<1>4. records[Key(m)] = 0
  BY <1>1 DEF IInv, Keyed
<1>5. ~late => revision = Base(m) /\ (plan[m].global => discovery = plan[m].discovery)
  BY <1>1 DEF IInv, InStep
<1> QED
  BY <1>1, <1>2, <1>3, <1>4, <1>5, AdvanceKeeps DEF Drained, Owning, Opening

LEMMA LockUserKeeps ==
    ASSUME IInv, NEW m \in Mutations, LockUser(m)
    PROVE  IInv'
<1>1. phase[m] = "closed" /\ Holds(m) /\ phase[m] \in Settling /\ phase[m] \in Drain
  BY DEF LockUser, Holds, Owning, Settling, Drain
<1>2. Advance(m, "locked") /\ userLock = Nobody /\ userLock' = m /\ UNCHANGED doubt
  BY GotoAdvances DEF LockUser
<1>3. ~doubt[m] /\ \A n \in Mutations \ {m} : ~doubt[n]
  BY <1>1, NoOtherDoubt, NoDoubtYet
<1>4. records[Key(m)] = 0
      /\ (plan[m].revoking => \A r \in Readers : reader[r].phase # "sending")
  BY <1>1 DEF IInv, Keyed, Reading
<1>5. ~late => revision = Base(m) /\ (plan[m].global => discovery = plan[m].discovery)
  BY <1>1 DEF IInv, InStep
<1> QED
  BY <1>1, <1>2, <1>3, <1>4, <1>5, AdvanceKeeps DEF Owning, Opening

LEMMA WriteKeeps ==
    ASSUME IInv, NEW m \in Mutations, Write(m)
    PROVE  IInv'
<1>1. phase[m] = "locked" /\ Holds(m) /\ phase[m] \in Settling /\ phase[m] \in Drain
  BY DEF Write, Holds, Owning, Settling, Drain
<1>2. Advance(m, "committing") /\ UNCHANGED <<userLock, doubt>> /\ userLock = m
  BY <1>1, GotoAdvances DEF Write, IInv, Doubts
<1>3. ~doubt[m] /\ \A n \in Mutations \ {m} : ~doubt[n]
  BY <1>1, NoOtherDoubt, NoDoubtYet
<1>4. records[Key(m)] = 0
      /\ (plan[m].revoking => \A r \in Readers : reader[r].phase # "sending")
  BY <1>1 DEF IInv, Keyed, Reading
<1> QED
  BY <1>1, <1>2, <1>3, <1>4, AdvanceKeeps DEF Write, MayWrite, Owning, Opening

LEMMA CommitLostKeeps ==
    ASSUME IInv, NEW m \in Mutations, CommitLost(m)
    PROVE  IInv'
<1>1. phase[m] = "committing" /\ Holds(m) /\ phase[m] \in Settling /\ phase[m] \in Drain
  BY DEF CommitLost, Holds, Owning, Settling, Drain
<1>2. Advance(m, "unknown") /\ UNCHANGED userLock /\ userLock = m
      /\ doubt' = [doubt EXCEPT ![m] = TRUE]
  BY <1>1, GotoAdvances DEF CommitLost, IInv, Doubts
<1>3. \A n \in Mutations \ {m} : ~doubt[n]
  BY <1>1, NoOtherDoubt
<1>4. records[Key(m)] = 0 /\ revision = Base(m)
      /\ (plan[m].revoking => \A r \in Readers : reader[r].phase # "sending")
  BY <1>1 DEF IInv, Keyed, Reading
<1> QED
  BY <1>1, <1>2, <1>3, <1>4, AdvanceKeeps DEF Owning, Opening

LEMMA ReadRecordKeeps ==
    ASSUME IInv, NEW m \in Mutations, ReadRecord(m)
    PROVE  IInv'
<1> DEFINE q == IF Decision(m) = "replay" THEN "provenCommitted" ELSE "provenNot"
<1>1. phase[m] = "unknown" /\ Holds(m) /\ phase[m] \in Settling /\ phase[m] \in Drain
  BY DEF ReadRecord, Holds, Owning, Settling, Drain
<1>2. Advance(m, q) /\ UNCHANGED <<userLock, doubt>>
  BY GotoAdvances DEF ReadRecord
<1>3. \A n \in Mutations \ {m} : ~doubt[n]
  BY <1>1, NoOtherDoubt
<1>4. /\ q = "provenCommitted" => records[Key(m)] = Base(m) /\ records[Key(m)] # 0
      /\ plan[m].revoking => \A r \in Readers : reader[r].phase # "sending"
      /\ doubt[m] => userLock = m /\ records[Key(m)] = 0 /\ revision = Base(m)
  BY <1>1, DecisionTells DEF IInv, Reading, Doubts
<1>5. q \in {"provenCommitted", "provenNot"}
  OBVIOUS
<1> HIDE DEF q
<1> QED
  BY <1>1, <1>2, <1>3, <1>4, <1>5, AdvanceKeeps DEF Owning, Opening

LEMMA UnresolvedKeeps ==
    ASSUME IInv, NEW m \in Mutations, Unresolved(m)
    PROVE  IInv'
<1>1. /\ phase[m] \in {"unknown", "provenCommitted", "provenNot"}
      /\ Holds(m) /\ phase[m] \in Settling /\ phase[m] \in Drain
  BY DEF Unresolved, Holds, Owning, Settling, Drain
<1>2. Advance(m, "unresolved") /\ UNCHANGED <<userLock, doubt>>
  BY DEF Unresolved, Advance, Goto, IInv, TypeOK, Results
<1>3. \A n \in Mutations \ {m} : ~doubt[n]
  BY <1>1, NoOtherDoubt
<1>4. /\ plan[m].revoking => \A r \in Readers : reader[r].phase # "sending"
      /\ doubt[m] => userLock = m /\ records[Key(m)] = 0 /\ revision = Base(m)
  BY <1>1 DEF IInv, Reading, Doubts
<1> QED
  BY <1>1, <1>2, <1>3, <1>4, AdvanceKeeps DEF Opening

-----------------------------------------------------------------------------
(* Transitions that end without a write.                                   *)

LEMMA DrainTimeoutKeeps ==
    ASSUME IInv, NEW m \in Mutations, DrainTimeout(m)
    PROVE  IInv'
<1>1. phase[m] = "draining" /\ Released(m)
  BY ReleaseIsUnchanged DEF DrainTimeout
<1>2. ~late => revision = Base(m) /\ (plan[m].global => discovery = plan[m].discovery)
  BY <1>1 DEF IInv, InStep
<1> QED
  BY <1>1, <1>2, LeaveKeeps DEF DrainTimeout, Results

LEMMA TransactionFailsKeeps ==
    ASSUME IInv, NEW m \in Mutations, TransactionFails(m)
    PROVE  IInv'
<1>1. phase[m] \in {"closed", "locked", "committing"} /\ Released(m)
  BY ReleaseIsUnchanged DEF TransactionFails
<1>2. ~doubt[m]
  BY <1>1, NoDoubtYet
<1>3. ~late => revision = Base(m) /\ (plan[m].global => discovery = plan[m].discovery)
  BY <1>1 DEF IInv, InStep, Keyed
<1> QED
  BY <1>1, <1>2, <1>3, LeaveKeeps DEF TransactionFails, Results

LEMMA RecoverNotCommittedKeeps ==
    ASSUME IInv, NEW m \in Mutations, RecoverNotCommitted(m)
    PROVE  IInv'
<1>1. Released(m)
  BY ReleaseIsUnchanged DEF RecoverNotCommitted
<1> QED
  BY <1>1, LeaveKeeps DEF RecoverNotCommitted, NotCommittedProof, Results

\* A plan is only overtaken under its own shut fence once a COMMIT was late.
LEMMA PlanOvertakenKeeps ==
    ASSUME IInv, NEW m \in Mutations, PlanOvertaken(m)
    PROVE  IInv'
<1>1. phase[m] = "locked" /\ Released(m) /\ Holds(m)
  BY ReleaseIsUnchanged DEF PlanOvertaken, Holds, Owning
<1>2. ~doubt[m] /\ \A n \in Mutations \ {m} : ~doubt[n]
  BY <1>1, NoDoubtYet, NoOtherDoubt DEF Settling, Owning
<1>3. late
  BY <1>1 DEF PlanOvertaken, MayWrite, IInv, InStep
<1>4. CASE Answer(m, IF plan[m].global /\ discovery # plan[m].discovery THEN "failed" ELSE "stale")
  <2> DEFINE res == IF plan[m].global /\ discovery # plan[m].discovery THEN "failed" ELSE "stale"
  <2>1. Answer(m, res) /\ res \in Results /\ res \notin {"done", "replayed"}
    BY <1>4 DEF Results
  <2> HIDE DEF res
  <2> QED
    BY <1>1, <1>2, <1>3, <2>1, LeaveKeeps DEF PlanOvertaken
<1>5. CASE Goto(m, "overtaken") /\ UNCHANGED slot
  <2>1. UNCHANGED <<revision, live, discovery, records, doubt, reader,
                    request, plan, reply, ackedFloor, crashes, others, late>>
    BY <1>5 DEF PlanOvertaken, database, slot, environment
  <2>2. /\ phase' \in [Mutations -> Phases] /\ phase'[m] = "overtaken"
        /\ \A n \in Mutations \ {m} : phase'[n] = phase[n]
    BY <1>5 DEF Goto, IInv, TypeOK, Phases, Waiting
  <2>3. userLock' \in Mutations \cup {Nobody} /\ userLock = m
    BY <1>1 DEF PlanOvertaken, Unlock, IInv, TypeOK, Doubts
  <2>4. /\ Base(m) \in 1..MaxRevision /\ plan[m].discovery \in 0..MaxDiscovery /\ m # Nobody
    BY KindsOf, Constants DEF IInv, TypeOK
  <2>5. /\ fence' \in FenceRecord(MaxRevision + 1) /\ discoveryFence' \in FenceRecord(MaxDiscovery)
        /\ fence' = OpenAt(Base(m))
        /\ discoveryFence' = IF plan[m].global THEN OpenAt(plan[m].discovery) ELSE discoveryFence
    BY <1>1, <2>4, Constants DEF IInv, TypeOK, FenceRecord, Released, OpenAt
  <2>6. TypeOK'
    BY <2>1, <2>2, <2>3, <2>5 DEF IInv, TypeOK
  <2>7. DiscoveryBound'
    BY <2>1 DEF IInv, DiscoveryBound
  <2>8. /\ \A n \in Mutations \ {m} : ~Holds(n) /\ ~Holds(n)'
        /\ ~Holds(m)'
        /\ \A n \in Mutations : Key(n)' = Key(n) /\ Base(n)' = Base(n) /\ Kind(n)' = Kind(n)
    BY <1>1, <2>1, <2>2 DEF Holds, Owning, Key, Base, Kind, IInv, Ownership
  <2>9. Ownership'
    <3>1. fence'.owner = Nobody /\ discoveryFence'.owner \notin Mutations
      BY <1>1, <2>5, <2>8, NobodyAssumption DEF IInv, TypeOK, FenceRecord, Ownership, OpenAt
    <3>2. /\ fence'.state = "open"
          /\ discoveryFence'.owner = Nobody => discoveryFence'.state = "open"
      BY <2>5 DEF IInv, Ownership, OpenAt
    <3> QED
      BY <2>8, <3>1, <3>2, NobodyAssumption DEF Ownership
  <2>10. Doubts'
    BY <1>2, <2>1, <2>2, <2>3 DEF IInv, TypeOK, Doubts
  <2>11. Keyed' /\ Acknowledged'
    BY <1>1, <2>1, <2>2, <2>8 DEF IInv, TypeOK, Keyed, Acknowledged
  <2>12. Plans'
    <3>1. phase[m] \in Planned
      BY <1>1 DEF Planned, Phases, Owning
    <3> QED
      BY <2>1, <2>2, <2>8, <3>1 DEF IInv, TypeOK, Plans, Revokes, ChangesDiscovery
  <2>13. Reading'
    BY <2>1, <2>2 DEF IInv, TypeOK, Reading, Drain, Settling, Owning
  <2> QED
    BY <1>3, <2>1, <2>6, <2>7, <2>9, <2>10, <2>11, <2>12, <2>13 DEF IInv
<1> QED
  BY <1>4, <1>5 DEF PlanOvertaken

\* The database drops a COMMIT that was in doubt.
LEMMA LateAbortKeeps ==
    ASSUME IInv, NEW m \in Mutations, LateAbort(m)
    PROVE  IInv'
<1>1. UNCHANGED <<revision, live, discovery, records, fence, discoveryFence, reader, phase,
                  request, plan, reply, ackedFloor, crashes, others, late>>
  BY DEF LateAbort, database, coordinator, history, environment
<1>2. /\ userLock = m /\ userLock' = Nobody
      /\ doubt' \in [Mutations -> BOOLEAN] /\ \A n \in Mutations : ~doubt'[n]
      /\ \A n \in Mutations : doubt'[n] => doubt[n]
      /\ phase[m] \notin {"locked", "committing"}
      /\ \A n \in Mutations : phase[n] \notin {"locked", "committing"}
  BY NobodyAssumption DEF LateAbort, IInv, TypeOK, Doubts
<1>3. TypeOK'
  BY <1>1, <1>2 DEF IInv, TypeOK
<1>4. \A n \in Mutations : Key(n)' = Key(n) /\ Base(n)' = Base(n) /\ Kind(n)' = Kind(n)
                           /\ Holds(n)' = Holds(n)
  BY <1>1 DEF Key, Base, Kind, Holds
<1>5. Ownership' /\ Keyed' /\ Acknowledged' /\ Reading' /\ DiscoveryBound'
  BY <1>1, <1>4 DEF IInv, Ownership, Keyed, Acknowledged, Reading, DiscoveryBound
<1>6. Doubts'
  BY <1>1, <1>2 DEF Doubts
<1>7. Plans'
  BY <1>1, <1>2, <1>4 DEF IInv, Plans, Revokes, ChangesDiscovery
<1>8. ~late => InStep' /\ Withdrawals'
  BY <1>1, <1>4 DEF IInv, InStep, Withdrawals, OpenAtDurableGeneration
<1>9. ~late /\ others = 0 => OvertakenByRow'
  BY <1>1, <1>4 DEF IInv, OvertakenByRow
<1> QED
  BY <1>1, <1>3, <1>5, <1>6, <1>7, <1>8, <1>9 DEF IInv

-----------------------------------------------------------------------------
(* The write: at its COMMIT, or when one in doubt is decided.              *)

LEMMA ApplyKeeps ==
    ASSUME IInv, NEW m \in Mutations, NEW q \in Phases,
           ApplyWrites(m), phase' = [phase EXCEPT ![m] = q],
           UNCHANGED <<coordinator, reader, request, plan, reply, ackedFloor, crashes, others>>,
           late' \in BOOLEAN, late => late', ~late' => Holds(m),
           records[Key(m)] = 0, revision = Base(m),
           phase[m] \in Planned \/ doubt[m],
           \A n \in Mutations \ {m} : phase[n] \notin Settling,
           doubt' \in [Mutations -> BOOLEAN], \A n \in Mutations : ~doubt'[n],
           \/ /\ q = phase[m] /\ phase[m] \in {"idle", "unknown", "provenNot", "unresolved"}
           \/ /\ q = "committed" /\ phase[m] = "committing"
              /\ plan[m].global => discovery = plan[m].discovery
    PROVE  IInv'
<1>1. UNCHANGED <<fence, discoveryFence, reader, request, plan, reply, ackedFloor, crashes, others>>
  BY DEF coordinator
<1>2. /\ Key(m) \in Keys /\ Base(m) \in 1..MaxRevision /\ Kind(m) \in Kinds
      /\ revision \in Nat /\ discovery \in Nat /\ revision # 0
      /\ others \in Nat /\ others <= MaxTurns
  <2>1. Key(m) \in Keys /\ Base(m) \in 1..MaxRevision /\ Kind(m) \in Kinds
    BY KindsOf DEF IInv
  <2>2. others \in Nat /\ others <= MaxTurns
    BY Constants DEF IInv, TypeOK
  <2> QED
    BY <2>1, <2>2, Constants DEF IInv, TypeOK
<1>3. /\ revision' = IF Kind(m) = "delete" THEN 0 ELSE Base(m) + 1
      /\ revision' = 0 \/ revision' = revision + 1
      /\ revision' \in 0..(MaxRevision + 1)
  BY <1>2, Constants DEF ApplyWrites
<1>4. /\ records' \in [Keys -> 0..MaxRevision] /\ records'[Key(m)] = Base(m)
      /\ \A k \in Keys \ {Key(m)} : records'[k] = records[k]
      /\ userLock' = Nobody
  BY <1>2, Constants DEF ApplyWrites, IInv, TypeOK
<1>5. /\ live' \in BOOLEAN
      /\ live' => Kind(m) \in {"edit", "publish"}
      /\ ~live' => Withdraws(Kind(m)) \/ ~live
  BY <1>2 DEF ApplyWrites, Kinds, Withdraws, IInv, TypeOK
<1>6. discovery' = IF plan[m].global THEN discovery + 1 ELSE discovery
  BY DEF ApplyWrites
<1>7. DiscoveryBound' /\ discovery' \in 1..MaxDiscovery
  <2>1. discovery <= others + Base(m)
    BY <1>2 DEF IInv, DiscoveryBound
  <2>2. discovery' <= others + Base(m) + 1 /\ discovery' >= discovery /\ discovery' \in Nat
    BY <1>2, <1>6, <2>1
  <2>3. discovery' <= others + (IF revision' = 0 THEN MaxRevision + 1 ELSE revision')
    BY <1>2, <1>3, <2>2, Constants
  <2>4. discovery >= 1
    BY DEF IInv, TypeOK
  <2> QED
    BY <1>1, <1>2, <2>2, <2>3, <2>4, Constants DEF DiscoveryBound
<1>8. /\ phase' \in [Mutations -> Phases] /\ phase'[m] = q
      /\ \A n \in Mutations \ {m} : phase'[n] = phase[n]
  BY DEF IInv, TypeOK
<1>9. TypeOK'
  BY <1>1, <1>3, <1>4, <1>5, <1>7, <1>8 DEF IInv, TypeOK
<1>10. \A n \in Mutations : /\ Holds(n)' = Holds(n)
                            /\ Key(n)' = Key(n) /\ Base(n)' = Base(n) /\ Kind(n)' = Kind(n)
                            /\ Key(n) \in Keys /\ Base(n) \in 1..MaxRevision
  BY <1>1, <1>8, KindsOf DEF Holds, Owning, Key, Base, Kind, IInv
<1>11. Ownership'
  BY <1>1, <1>8, <1>10 DEF IInv, Ownership, Opening
<1>12. Doubts'
  BY <1>8 DEF Doubts, Settling, Owning
<1>13. \A n \in Mutations : Base(n) <= revision
  BY <1>2 DEF IInv, Plans
<1>14. \A n \in Mutations : revision' # Base(n) /\ (revision' # 0 => Base(n) <= revision')
  BY <1>2, <1>3, <1>10, <1>13
<1>15. Keyed'
  <2>1. ASSUME NEW n \in Mutations, phase'[n] = "idle", reply[n] \in {"done", "replayed"}
        PROVE  records'[Key(n)] = Base(n)
    <3>1. n # m => records[Key(n)] = Base(n)
      BY <1>8, <2>1 DEF IInv, Keyed
    <3> QED
      BY <1>4, <1>10, <3>1
  <2>2. \A n \in Mutations : phase'[n] # "idle" =>
            reply[n] = IF phase'[n] = "unresolved" THEN "failed" ELSE "none"
    BY <1>8 DEF IInv, Keyed
  <2>3. \A n \in Mutations \ {m} :
            phase'[n] \notin {"fresh", "draining", "closed", "locked", "committing",
                              "committed", "provenCommitted"}
    BY <1>8 DEF Settling, Owning
  <2> QED
    BY <1>1, <1>2, <1>4, <1>6, <1>8, <1>10, <2>1, <2>2, <2>3 DEF Keyed
<1>16. Acknowledged'
  BY <1>1, <1>4 DEF IInv, Acknowledged
<1>17. Plans'
  BY <1>3, <1>2, <1>5, <1>10, <1>14 DEF Plans
<1>18. Reading'
  <2>1. ASSUME NEW r \in Readers, reader[r].phase = "read"
        PROVE  /\ reader[r].revision # 0 /\ reader[r].revision # revision'
               /\ revision' # 0 => reader[r].revision <= revision'
    <3>1. reader[r].revision \in Nat
      BY Constants DEF IInv, TypeOK
    <3>2. reader[r].revision # 0 /\ reader[r].revision <= revision
      BY <1>2, <2>1 DEF IInv, Reading
    <3> QED
      BY <1>2, <1>3, <3>1, <3>2
  <2>2. \A n \in Mutations : phase'[n] \in Drain => phase[n] \in Drain
    BY <1>8 DEF Drain, Settling, Owning
  <2> QED
    BY <1>1, <2>1, <2>2 DEF IInv, Reading
<1>19. ~late' => phase[m] \in Drain
  BY DEF Holds, Drain, Settling, Owning
<1>20. ~late' => InStep'
  <2> SUFFICES ASSUME ~late' PROVE InStep'
    OBVIOUS
  <2>1. Holds(m) /\ phase[m] \notin Opening
    BY DEF Opening, Holds, Owning
  <2>2. /\ fence.owner = m /\ fence.state = "shut"
        /\ plan[m].global => discoveryFence.owner = m
    BY <2>1 DEF IInv, Ownership
  <2>3. OpenAtDurableGeneration'
    BY <1>1, <1>6, <2>2, NobodyAssumption DEF IInv, InStep, OpenAtDurableGeneration
  <2>4. \A n \in Mutations \ {m} : ~Holds(n)
    BY <2>1 DEF IInv, Ownership
  <2> QED
    BY <1>1, <1>3, <1>8, <1>10, <1>14, <2>1, <2>2, <2>3, <2>4 DEF InStep, Holds, Owning
<1>21. ~late' => Withdrawals'
  <2> SUFFICES ASSUME ~late' PROVE Withdrawals'
    OBVIOUS
  <2>1. ~live' => \A r \in Readers : reader[r].phase # "sending"
    <3>1. CASE plan[m].revoking
      BY <1>19, <3>1 DEF IInv, Reading
    <3>2. CASE ~plan[m].revoking
      <4>1. ~Revokes(Kind(m))
        BY <3>2 DEF IInv, Plans
      <4> QED
        BY <1>5, <4>1 DEF Revokes, Withdraws, IInv, Withdrawals
    <3> QED
      BY <3>1, <3>2
  <2>2. ASSUME NEW k \in Keys, Withdraws(KindOf[k]), records'[k] # 0
        PROVE  /\ revision' = 0 \/ records'[k] < revision'
               /\ \A r \in Readers : reader[r].phase = "sending" => records'[k] < reader[r].revision
    <3>1. CASE k = Key(m)
      <4>1. ~live'
        BY <1>5, <2>2, <3>1 DEF Kind, Withdraws
      <4> QED
        BY <1>2, <1>3, <1>4, <2>1, <3>1, <4>1
    <3>2. CASE k # Key(m)
      <4>1. records'[k] = records[k] /\ records[k] \in Nat
        BY <1>4, <3>2, Constants DEF IInv, TypeOK
      <4>2. /\ records[k] < revision
            /\ \A r \in Readers : reader[r].phase = "sending" => records[k] < reader[r].revision
        BY <1>2, <2>2, <4>1 DEF IInv, Withdrawals
      <4> QED
        BY <1>2, <1>3, <4>1, <4>2
    <3> QED
      BY <3>1, <3>2
  <2> QED
    BY <1>1, <2>1, <2>2 DEF Withdrawals
<1>22. ~late' /\ others' = 0 => OvertakenByRow'
  <2> SUFFICES ASSUME ~late', others = 0 PROVE OvertakenByRow'
    BY <1>1
  <2>1. Holds(m)
    OBVIOUS
  <2>2. ASSUME NEW n \in Mutations,
               phase'[n] = "overtaken" \/ (phase'[n] = "idle" /\ reply[n] = "stale")
        PROVE  records'[Key(n)] # Base(n)
    <3>1. n # m
      BY <1>8, <2>1, <2>2 DEF Holds, Owning
    <3>2. revision # Base(n) /\ records[Key(n)] # Base(n)
      BY <1>8, <2>2, <3>1 DEF IInv, OvertakenByRow
    <3> QED
      BY <1>4, <1>10, <3>2
  <2> QED
    BY <1>1, <1>10, <1>14, <2>2 DEF OvertakenByRow
<1> QED
  BY <1>7, <1>9, <1>11, <1>12, <1>15, <1>16, <1>17, <1>18, <1>20, <1>21, <1>22 DEF IInv

LEMMA CommitSucceedsKeeps ==
    ASSUME IInv, NEW m \in Mutations, CommitSucceeds(m)
    PROVE  IInv'
<1>1. phase[m] = "committing" /\ phase[m] \in Settling /\ phase[m] \in Planned /\ Holds(m)
  BY DEF CommitSucceeds, Settling, Planned, Phases, Owning, Holds
<1>2. \A n \in Mutations : ~doubt[n]
  BY <1>1, NoOtherDoubt, NoDoubtYet
<1>3. \A n \in Mutations \ {m} : phase[n] \notin Settling
  BY <1>1 DEF IInv, Ownership, Holds, Settling
<1>4. /\ records[Key(m)] = 0 /\ revision = Base(m)
      /\ plan[m].global => discovery = plan[m].discovery
  BY <1>1 DEF IInv, Keyed
<1>5. /\ UNCHANGED <<coordinator, reader, request, plan, reply, ackedFloor, crashes, others, late, doubt>>
      /\ ApplyWrites(m) /\ phase' = [phase EXCEPT ![m] = "committed"]
  BY DEF CommitSucceeds, Goto, history, environment
<1>6. "committed" \in Phases /\ late \in BOOLEAN /\ doubt \in [Mutations -> BOOLEAN]
  BY DEF Phases, Owning, IInv, TypeOK
<1> QED
  BY <1>1, <1>2, <1>3, <1>4, <1>5, <1>6, ApplyKeeps

LEMMA LateCommitKeeps ==
    ASSUME IInv, NEW m \in Mutations, LateCommit(m)
    PROVE  IInv'
<1>1. /\ doubt[m] /\ userLock = m
      /\ phase[m] \in {"idle", "unknown", "provenNot", "unresolved"}
      /\ records[Key(m)] = 0 /\ revision = Base(m)
      /\ \A n \in Mutations \ {m} : phase[n] \notin Settling
  BY DEF LateCommit, IInv, Doubts
<1>2. doubt' \in [Mutations -> BOOLEAN] /\ \A n \in Mutations : ~doubt'[n]
  BY <1>1 DEF LateCommit, IInv, TypeOK, Doubts
<1>3. /\ phase[m] \in Phases /\ phase' = [phase EXCEPT ![m] = phase[m]]
  BY DEF LateCommit, IInv, TypeOK
<1>4. late' \in BOOLEAN /\ (late => late') /\ (~late' => Holds(m))
  BY <1>1 DEF LateCommit, IInv, TypeOK, Holds, Owning
<1> QED
  BY <1>1, <1>2, <1>3, <1>4, ApplyKeeps DEF LateCommit

\* What was committed opens where the row and discovery are now.
LEMMA OpenKeeps ==
    ASSUME IInv, NEW m \in Mutations, NEW res \in {"done", "replayed"},
           phase[m] \in {"committed", "provenCommitted"},
           OpenCommitted(m), Answer(m, res),
           UNCHANGED <<database, userLock, doubt, reader, environment>>,
           plan[m].global => discovery = plan[m].discovery + 1,
           ~late => revision = IF Kind(m) = "delete" THEN 0 ELSE Base(m) + 1
    PROVE  IInv'
<1>1. Answered(m, res)
  BY AnswerShape DEF IInv, Results
<1>2. UNCHANGED <<revision, live, discovery, records, userLock, doubt, reader, crashes, others, late>>
  BY DEF database, environment
<1>3. Holds(m) /\ ~doubt[m] /\ records[Key(m)] = Base(m)
  BY DEF Holds, Owning, IInv, Doubts, Keyed
<1>4. /\ Key(m) \in Keys /\ Base(m) \in 1..MaxRevision /\ Kind(m) \in Kinds
      /\ plan[m].discovery \in Nat /\ discovery \in 1..MaxDiscovery
  BY KindsOf, Constants DEF IInv, TypeOK
<1>5. /\ fence' \in FenceRecord(MaxRevision + 1) /\ fence'.owner = Nobody
      /\ fence'.state \in {"open", "retired"}
      /\ fence'.state = "open" => Kind(m) # "delete" /\ fence'.gen = Base(m) + 1
  <2>1. fence \in FenceRecord(MaxRevision + 1)
    BY DEF IInv, TypeOK
  <2>2. CASE Kind(m) = "delete"
    <3>1. fence' = [fence EXCEPT !.state = "retired", !.owner = Nobody]
      BY <2>2 DEF OpenCommitted
    <3> QED
      BY <2>1, <3>1 DEF FenceRecord
  <2>3. CASE Kind(m) # "delete"
    <3>1. fence' = OpenAt(Base(m) + 1)
      BY <2>3 DEF OpenCommitted
    <3> QED
      BY <1>4, <2>3, <3>1, Constants DEF FenceRecord, OpenAt
  <2> QED
    BY <2>2, <2>3
<1>6. /\ discoveryFence' \in FenceRecord(MaxDiscovery)
      /\ plan[m].global => /\ discoveryFence'.owner = Nobody /\ discoveryFence'.state = "open"
                           /\ discoveryFence'.gen = discovery
      /\ ~plan[m].global => discoveryFence' = discoveryFence
  BY <1>4, Constants DEF OpenCommitted, OpenAt, FenceRecord, IInv, TypeOK
<1>7. TypeOK'
  BY <1>1, <1>2, <1>5, <1>6 DEF IInv, TypeOK, Answered, PlanRows
<1>8. DiscoveryBound'
  BY <1>2 DEF IInv, DiscoveryBound
<1>9. /\ \A n \in Mutations : ~Holds(n)'
      /\ \A n \in Mutations \ {m} : ~Holds(n)
  BY <1>1, <1>3 DEF Answered, Holds, Owning, IInv, Ownership
<1>10. Ownership'
  <2>1. discoveryFence'.owner \notin Mutations
    BY <1>3, <1>6, <1>9, NobodyAssumption DEF IInv, Ownership
  <2>2. discoveryFence'.owner = Nobody => discoveryFence'.state = "open"
    BY <1>6 DEF IInv, Ownership
  <2> QED
    BY <1>5, <1>9, <2>1, <2>2, NobodyAssumption DEF Ownership
<1>11. Doubts'
  BY <1>1, <1>2, <1>3 DEF IInv, TypeOK, Doubts, Answered, Key, Base, Settling, Owning
<1>12. Keyed'
  BY <1>1, <1>2, <1>3 DEF IInv, TypeOK, Keyed, Answered, Key, Base
<1>13. Acknowledged'
  BY <1>1, <1>2, <1>3, <1>4, Constants DEF IInv, TypeOK, Acknowledged, Answered, Kind
<1>14. Plans'
  BY <1>1, <1>2, <1>3 DEF IInv, TypeOK, Plans, Answered, Key, Base, Kind, Revokes, ChangesDiscovery, Planned
<1>15. Reading'
  BY <1>1, <1>2 DEF IInv, TypeOK, Reading, Answered, Drain, Settling, Owning
<1>16. ~late => OpenAtDurableGeneration'
  BY <1>2, <1>5, <1>6 DEF IInv, InStep, OpenAtDurableGeneration
<1>17. ~late => InStep' /\ Withdrawals'
  BY <1>1, <1>2, <1>5, <1>16 DEF IInv, TypeOK, InStep, Withdrawals, Answered, Key, Base, Kind
<1>18. ~late /\ others = 0 => OvertakenByRow'
  BY <1>1, <1>2 DEF IInv, TypeOK, OvertakenByRow, Answered, Key, Base
<1> QED
  BY <1>2, <1>7, <1>8, <1>10, <1>11, <1>12, <1>13, <1>14, <1>15, <1>17, <1>18 DEF IInv

LEMMA CommittedKeeps ==
    ASSUME IInv, NEW m \in Mutations, Committed(m)
    PROVE  IInv'
<1>1. phase[m] = "committed"
  BY DEF Committed
<1>2. /\ plan[m].global => discovery = plan[m].discovery + 1
      /\ ~late => revision = IF Kind(m) = "delete" THEN 0 ELSE Base(m) + 1
  BY <1>1 DEF IInv, Keyed, InStep
<1> QED
  BY <1>1, <1>2, OpenKeeps DEF Committed

LEMMA RecoverCommittedKeeps ==
    ASSUME IInv, NEW m \in Mutations, RecoverCommitted(m)
    PROVE  IInv'
  BY OpenKeeps DEF RecoverCommitted, CommittedProof

-----------------------------------------------------------------------------
(* Readers, crashes and other accounts.                                    *)

\* A step of a reader that leaves everything else alone but an unowned fence.
LEMMA ReaderKeeps ==
    ASSUME IInv,
           UNCHANGED <<database, userLock, doubt, discoveryFence, phase, request, plan, reply, history>>,
           reader' \in [Readers -> Views],
           \/ UNCHANGED fence
           \/ /\ fence.state = "absent" /\ fence'.state = "open" /\ fence'.owner = Nobody
              /\ fence' \in FenceRecord(MaxRevision + 1)
              /\ ~late => fence'.gen = revision /\ revision # 0,
           \A r \in Readers : reader'[r].phase = "read" =>
                /\ reader'[r].revision # 0
                /\ revision # 0 => reader'[r].revision <= revision
                /\ reader'[r].revision = revision => live
                /\ ~late /\ fence'.state = "absent" => reader'[r].revision = revision,
           \A r \in Readers : reader'[r].phase = "sending" /\ reader'[r] # reader[r] =>
                /\ fence'.state = "open"
                /\ ~late => live /\ reader'[r].revision = revision
    PROVE  IInv'
<1>1. UNCHANGED <<revision, live, discovery, records, userLock, doubt, discoveryFence, phase,
                  request, plan, reply, ackedFloor, crashes, others, late>>
  BY DEF database, history, environment
<1>2. fence' \in FenceRecord(MaxRevision + 1) /\ fence \in FenceRecord(MaxRevision + 1)
  BY DEF IInv, TypeOK
<1>3. TypeOK'
  BY <1>1, <1>2 DEF IInv, TypeOK, Views
<1>4. \A n \in Mutations : /\ Holds(n)' = Holds(n)
                           /\ Key(n)' = Key(n) /\ Base(n)' = Base(n) /\ Kind(n)' = Kind(n)
  BY <1>1 DEF Holds, Key, Base, Kind
<1>5. \A n \in Mutations : Holds(n) => fence' = fence
  BY DEF IInv, Ownership
<1>6. fence.state = "absent" => fence.owner = Nobody
  BY <1>2 DEF FenceRecord, IInv, Ownership
<1>7. Ownership'
  BY <1>1, <1>4, <1>5, <1>6 DEF IInv, Ownership
<1>8. Doubts' /\ Keyed' /\ Acknowledged' /\ DiscoveryBound'
  BY <1>1, <1>4 DEF IInv, Doubts, Keyed, Acknowledged, DiscoveryBound
<1>9. Plans'
  BY <1>1, <1>4 DEF IInv, Plans, Revokes, ChangesDiscovery
<1>10. Reading'
  <2>1. ASSUME NEW m \in Mutations, phase[m] \in Drain
        PROVE  fence'.state = "shut"
    <3>1. Holds(m) /\ phase[m] \notin Opening
      BY <2>1 DEF Holds, Drain, Settling, Opening
    <3> QED
      BY <1>5, <3>1 DEF IInv, Ownership
  <2>2. ASSUME NEW m \in Mutations, phase[m] \in Drain, plan[m].revoking, NEW r \in Readers
        PROVE  reader'[r].phase # "sending"
    BY <2>1, <2>2 DEF IInv, Reading
  <2> QED
    BY <1>1, <2>2 DEF Reading
<1>11. ~late => InStep'
  BY <1>1, <1>4 DEF IInv, InStep, OpenAtDurableGeneration
<1>12. ~late => Withdrawals'
  <2> SUFFICES ASSUME ~late PROVE Withdrawals'
    OBVIOUS
  <2>1. ASSUME NEW k \in Keys, Withdraws(KindOf[k]), records[k] # 0,
               NEW r \in Readers, reader'[r].phase = "sending"
        PROVE  records[k] < reader'[r].revision
    <3>1. CASE reader'[r] = reader[r]
      BY <2>1, <3>1 DEF IInv, Withdrawals
    <3>2. CASE reader'[r] # reader[r]
      <4>1. live /\ reader'[r].revision = revision /\ revision # 0
        BY <2>1, <3>2 DEF IInv, Plans
      <4> QED
        BY <2>1, <4>1 DEF IInv, Withdrawals
    <3> QED
      BY <3>1, <3>2
  <2>2. live \/ \A r \in Readers : reader'[r].phase # "sending"
    BY DEF IInv, Withdrawals
  <2> QED
    BY <1>1, <2>1, <2>2 DEF IInv, Withdrawals
<1>13. ~late /\ others = 0 => OvertakenByRow'
  BY <1>1, <1>4 DEF IInv, OvertakenByRow
<1> QED
  BY <1>1, <1>3, <1>7, <1>8, <1>9, <1>10, <1>11, <1>12, <1>13 DEF IInv

LEMMA ReadRowKeeps ==
    ASSUME IInv, NEW r \in Readers, ReadRow(r)
    PROVE  IInv'
<1>1. reader \in [Readers -> Views] /\ revision \in 0..(MaxRevision + 1) /\ revision # 0
  BY DEF IInv, TypeOK, Views, ReadRow, Plans
<1>2. /\ reader' \in [Readers -> Views]
      /\ reader'[r].phase = "read" /\ reader'[r].revision = revision
      /\ \A s \in Readers \ {r} : reader'[s] = reader[s]
  BY <1>1 DEF ReadRow, Views
<1>3. UNCHANGED fence
  BY DEF ReadRow, coordinator
<1>4. \A s \in Readers : reader'[s].phase = "read" =>
                /\ reader'[s].revision # 0
                /\ revision # 0 => reader'[s].revision <= revision
                /\ reader'[s].revision = revision => live
                /\ ~late /\ fence'.state = "absent" => reader'[s].revision = revision
  BY <1>1, <1>2, <1>3, Constants DEF ReadRow, IInv, Reading, InStep
<1>5. \A s \in Readers : reader'[s].phase = "sending" => reader'[s] = reader[s]
  BY <1>2
<1> QED
  BY <1>2, <1>3, <1>4, <1>5, ReaderKeeps DEF ReadRow, coordinator

LEMMA AdmitKeeps ==
    ASSUME IInv, NEW r \in Readers, Admit(r)
    PROVE  IInv'
<1>1. /\ reader \in [Readers -> Views] /\ reader[r].phase = "read" /\ reader[r] \in Views
      /\ reader[r].revision # 0 /\ (reader[r].revision = revision => live)
  BY DEF IInv, TypeOK, Views, Admit, Reading
<1>2. /\ reader' \in [Readers -> Views]
      /\ reader'[r].phase = "sending" /\ reader'[r].revision = reader[r].revision
      /\ \A s \in Readers \ {r} : reader'[s] = reader[s]
  BY <1>1 DEF Admit, Views
<1>3. CASE fence.state = "absent" /\ fence' = OpenAt(reader[r].revision)
  <2>1. ~late => reader[r].revision = revision
    BY <1>1, <1>3 DEF IInv, InStep
  <2>2. /\ fence'.state = "open" /\ fence'.owner = Nobody /\ fence'.gen = reader[r].revision
        /\ fence' \in FenceRecord(MaxRevision + 1)
    BY <1>1, <1>3 DEF OpenAt, FenceRecord, Views
  <2>3. \A s \in Readers : reader'[s].phase = "read" =>
                /\ reader'[s].revision # 0
                /\ revision # 0 => reader'[s].revision <= revision
                /\ reader'[s].revision = revision => live
                /\ ~late /\ fence'.state = "absent" => reader'[s].revision = revision
    BY <1>2, <2>2 DEF IInv, Reading
  <2> QED
    BY <1>1, <1>2, <1>3, <2>1, <2>2, <2>3, ReaderKeeps DEF Admit
<1>4. CASE fence.state = "open" /\ fence.gen = reader[r].revision /\ UNCHANGED fence
  <2>1. ~late => reader[r].revision = revision
    <3> SUFFICES ASSUME ~late PROVE reader[r].revision = revision
      OBVIOUS
    <3>1. CASE fence.owner = Nobody
      BY <1>4, <3>1 DEF IInv, InStep, OpenAtDurableGeneration
    <3>2. CASE fence.owner # Nobody
      <4>1. PICK m \in Mutations : fence.owner = m
        BY <3>2 DEF IInv, TypeOK, FenceRecord
      <4>2. Holds(m) /\ phase[m] \in Opening /\ fence.gen = Base(m)
        BY <1>4, <4>1 DEF IInv, Ownership
      <4>3. revision = Base(m)
        BY <4>2 DEF IInv, InStep, Opening
      <4> QED
        BY <1>4, <4>2, <4>3
    <3> QED
      BY <3>1, <3>2
  <2>2. \A s \in Readers : reader'[s].phase = "read" =>
                /\ reader'[s].revision # 0
                /\ revision # 0 => reader'[s].revision <= revision
                /\ reader'[s].revision = revision => live
                /\ ~late /\ fence'.state = "absent" => reader'[s].revision = revision
    BY <1>2, <1>4 DEF IInv, Reading, InStep
  <2> QED
    BY <1>1, <1>2, <1>4, <2>1, <2>2, ReaderKeeps DEF Admit
<1> QED
  BY <1>3, <1>4 DEF Admit

LEMMA EndResponseKeeps ==
    ASSUME IInv, NEW r \in Readers, EndResponse(r)
    PROVE  IInv'
<1>1. reader \in [Readers -> Views]
  BY DEF IInv, TypeOK, Views
<1>2. /\ reader' \in [Readers -> Views] /\ reader'[r].phase = "idle"
      /\ \A s \in Readers \ {r} : reader'[s] = reader[s]
  BY <1>1, Constants DEF EndResponse, Views
<1>3. UNCHANGED fence
  BY DEF EndResponse, coordinator
<1>4. \A s \in Readers : reader'[s].phase = "read" =>
                /\ reader'[s].revision # 0
                /\ revision # 0 => reader'[s].revision <= revision
                /\ reader'[s].revision = revision => live
                /\ ~late /\ fence'.state = "absent" => reader'[s].revision = revision
  BY <1>2, <1>3 DEF IInv, Reading, InStep
<1>5. \A s \in Readers : reader'[s].phase = "sending" => reader'[s] = reader[s]
  BY <1>2
<1> QED
  BY <1>2, <1>3, <1>4, <1>5, ReaderKeeps DEF EndResponse, coordinator

\* A crash leaves only what the database has and what is still in doubt.
LEMMA CrashKeeps ==
    ASSUME IInv, Crash
    PROVE  IInv'
<1>1. UNCHANGED <<revision, live, discovery, records, doubt, request, plan, reply,
                  ackedFloor, others, late>>
  BY DEF Crash, database
<1>2. /\ phase' \in [Mutations -> Phases] /\ \A m \in Mutations : phase'[m] = "idle"
      /\ reader' \in [Readers -> Views] /\ \A r \in Readers : reader'[r].phase = "idle"
      /\ fence' = Absent /\ discoveryFence' = OpenAt(discovery)
      /\ crashes' \in Nat /\ crashes' + others <= MaxTurns
  BY Constants DEF Crash, Phases, Views, IInv, TypeOK
<1>3. /\ userLock' \in Mutations \cup {Nobody}
      /\ \A m \in Mutations : doubt[m] => userLock' = userLock
  BY NobodyAssumption DEF Crash, IInv, TypeOK, Doubts
<1>4. /\ fence' \in FenceRecord(MaxRevision + 1) /\ fence'.owner = Nobody
      /\ fence'.state = "absent"
      /\ discoveryFence' \in FenceRecord(MaxDiscovery) /\ discoveryFence'.owner = Nobody
      /\ discoveryFence'.state = "open" /\ discoveryFence'.gen = discovery
  BY <1>2, Constants DEF FenceRecord, Absent, OpenAt, IInv, TypeOK
<1>5. TypeOK'
  BY <1>1, <1>2, <1>3, <1>4 DEF IInv, TypeOK, Views
<1>6. \A m \in Mutations : /\ ~Holds(m)'
                           /\ Key(m)' = Key(m) /\ Base(m)' = Base(m) /\ Kind(m)' = Kind(m)
  BY <1>1, <1>2 DEF Holds, Owning, Key, Base, Kind
<1>7. Ownership'
  BY <1>4, <1>6, NobodyAssumption DEF Ownership
<1>8. Doubts'
  BY <1>1, <1>2, <1>3, <1>6 DEF IInv, Doubts, Settling, Owning
<1>9. Keyed' /\ Acknowledged' /\ DiscoveryBound'
  BY <1>1, <1>2, <1>6 DEF IInv, Keyed, Acknowledged, DiscoveryBound
<1>10. Plans'
  BY <1>1, <1>2, <1>6 DEF IInv, Plans, Revokes, ChangesDiscovery, Planned
<1>11. Reading'
  BY <1>2 DEF Reading
<1>12. ~late => InStep' /\ Withdrawals'
  BY <1>1, <1>2, <1>4 DEF IInv, InStep, Withdrawals, OpenAtDurableGeneration
<1>13. ~late /\ others = 0 => OvertakenByRow'
  <2>1. \A m \in Mutations : reply[m] = "stale" => phase[m] = "idle"
    BY DEF IInv, Keyed
  <2> QED
    BY <1>1, <1>2, <1>6, <2>1 DEF IInv, OvertakenByRow
<1> QED
  BY <1>1, <1>5, <1>7, <1>8, <1>9, <1>10, <1>11, <1>12, <1>13 DEF IInv

\* Another account moves discovery and its fence together.
LEMMA OtherAccountKeeps ==
    ASSUME IInv, OtherAccount
    PROVE  IInv'
<1>1. /\ UNCHANGED <<revision, live, records, userLock, doubt, fence, reader,
                     phase, request, plan, reply, ackedFloor, crashes, late>>
      /\ discovery' = discovery + 1 /\ discoveryFence' = OpenAt(discovery + 1)
      /\ others' = others + 1 /\ discoveryFence.owner = Nobody
  BY DEF OtherAccount
<1>2. others \in Nat /\ crashes \in Nat /\ crashes + others < MaxTurns /\ discovery \in Nat
      /\ discovery >= 1 /\ revision \in 0..(MaxRevision + 1)
  BY Constants DEF OtherAccount, IInv, TypeOK
<1>3. DiscoveryBound'
  BY <1>1, <1>2, Constants DEF IInv, DiscoveryBound
<1>4. discovery' \in 1..MaxDiscovery
  BY <1>1, <1>2, <1>3, Constants DEF DiscoveryBound
<1>5. /\ discoveryFence' \in FenceRecord(MaxDiscovery) /\ discoveryFence'.owner = Nobody
      /\ discoveryFence'.state = "open" /\ discoveryFence'.gen = discovery'
  BY <1>1, <1>4, Constants DEF FenceRecord, OpenAt
<1>6. TypeOK'
  <2>1. others' \in Nat /\ crashes' \in Nat /\ crashes' + others' <= MaxTurns
    BY <1>1, <1>2, Constants
  <2> QED
    BY <1>1, <1>4, <1>5, <2>1 DEF IInv, TypeOK
<1>7. \A m \in Mutations : /\ Holds(m)' = Holds(m) /\ (Holds(m) => ~plan[m].global)
                           /\ Key(m)' = Key(m) /\ Base(m)' = Base(m) /\ Kind(m)' = Kind(m)
  BY <1>1, NobodyAssumption DEF Holds, Key, Base, Kind, IInv, Ownership
<1>8. Ownership'
  BY <1>1, <1>5, <1>7, NobodyAssumption DEF IInv, Ownership
<1>9. Doubts' /\ Acknowledged' /\ Reading'
  BY <1>1, <1>7 DEF IInv, Doubts, Acknowledged, Reading
<1>10. Plans'
  BY <1>1, <1>7 DEF IInv, Plans, Revokes, ChangesDiscovery
<1>11. Keyed'
  <2>1. \A m \in Mutations : phase[m] \in {"committing", "committed"} => ~plan[m].global
    BY <1>7 DEF Holds, Owning
  <2> QED
    BY <1>1, <1>7, <2>1 DEF IInv, Keyed
<1>12. ~late => InStep' /\ Withdrawals'
  <2>1. \A m \in Mutations :
            phase[m] \in {"begun", "fresh", "draining", "closed", "locked"} => ~plan[m].global
    BY <1>7 DEF Holds, Owning
  <2> QED
    BY <1>1, <1>5, <1>7, <2>1 DEF IInv, InStep, Withdrawals, OpenAtDurableGeneration
<1>13. others' # 0
  BY <1>1, <1>2
<1> QED
  BY <1>1, <1>3, <1>6, <1>8, <1>9, <1>10, <1>11, <1>12, <1>13 DEF IInv

-----------------------------------------------------------------------------
(* The inductive invariant.                                                *)

LEMMA InvInit == Init => IInv
<1> SUFFICES ASSUME Init PROVE IInv
  OBVIOUS
<1>1. TypeOK
  <2>1. /\ fence \in FenceRecord(MaxRevision + 1) /\ discoveryFence \in FenceRecord(MaxDiscovery)
    BY Constants DEF Init, FenceRecord, Absent, OpenAt
  <2>2. phase \in [Mutations -> Phases] /\ reply \in [Mutations -> Results]
    BY DEF Init, Phases, Results
  <2>3. plan \in [Mutations -> PlanRows] /\ request \in [Mutations -> Requests]
    BY Constants DEF Init
  <2>4. /\ revision \in 0..(MaxRevision + 1) /\ discovery \in 1..MaxDiscovery
        /\ records \in [Keys -> 0..MaxRevision] /\ doubt \in [Mutations -> BOOLEAN]
        /\ reader \in [Readers -> Views]
    BY Constants DEF Init, Views
  <2>5. crashes \in Nat /\ others \in Nat /\ crashes + others <= MaxTurns /\ ackedFloor \in Nat
    BY Constants DEF Init
  <2>6. live \in BOOLEAN /\ late \in BOOLEAN /\ userLock = Nobody
    BY DEF Init
  <2> QED
    BY <2>1, <2>2, <2>3, <2>4, <2>5, <2>6 DEF TypeOK, PlanRows, Views
<1>2. \A m \in Mutations : ~Holds(m) /\ Base(m) = 1
  BY Constants DEF Init, Holds, Owning, Base
<1>3. DiscoveryBound /\ Ownership /\ Doubts /\ Keyed /\ Acknowledged /\ Reading
  BY <1>2, NobodyAssumption DEF Init, DiscoveryBound, Ownership, Doubts, Keyed, Acknowledged, Reading,
     Absent, OpenAt, Drain, Settling, Owning
<1>4. Plans
  BY <1>2 DEF Init, Plans, Planned
<1>5. InStep /\ Withdrawals /\ OvertakenByRow
  BY DEF Init, InStep, OpenAtDurableGeneration, Withdrawals, OvertakenByRow, Absent, OpenAt
<1> QED
  BY <1>1, <1>3, <1>4, <1>5 DEF IInv

LEMMA StutterKeeps ==
    ASSUME IInv, UNCHANGED vars
    PROVE  IInv'
<1>1. UNCHANGED <<revision, live, discovery, records, userLock, doubt, fence, discoveryFence, reader,
                  phase, request, plan, reply, ackedFloor, crashes, others, late>>
  BY DEF vars, database, coordinator, history, environment
<1>2. TypeOK' /\ DiscoveryBound' /\ Acknowledged'
  BY <1>1 DEF IInv, TypeOK, DiscoveryBound, Acknowledged
<1>3. \A n \in Mutations : /\ Holds(n)' = Holds(n)
                           /\ Key(n)' = Key(n) /\ Base(n)' = Base(n) /\ Kind(n)' = Kind(n)
  BY <1>1 DEF Holds, Key, Base, Kind
<1>4. Ownership' /\ Doubts' /\ Keyed' /\ Reading'
  BY <1>1, <1>3 DEF IInv, Ownership, Doubts, Keyed, Reading
<1>5. Plans'
  BY <1>1, <1>3 DEF IInv, Plans, Revokes, ChangesDiscovery
<1>6. /\ ~late => InStep' /\ Withdrawals'
      /\ ~late /\ others = 0 => OvertakenByRow'
  BY <1>1, <1>3 DEF IInv, InStep, OpenAtDurableGeneration, Withdrawals, OvertakenByRow
<1> QED
  BY <1>1, <1>2, <1>4, <1>5, <1>6 DEF IInv

LEMMA InvStep == IInv /\ [Next]_vars => IInv'
<1> SUFFICES ASSUME IInv, [Next]_vars PROVE IInv'
  OBVIOUS
<1>1. ASSUME NEW m \in Mutations,
             \/ \E req \in Requests : Start(m, req)
             \/ Inspect(m) \/ Preflight(m) \/ RecheckStale(m) \/ ReadDiscovery(m)
             \/ Begin(m) \/ Claim(m) \/ RefuseClaim(m) \/ RecheckMismatch(m) \/ RefreshPlan(m)
             \/ Fails(m)
      PROVE  IInv'
  BY <1>1, StartKeeps, InspectKeeps, PreflightKeeps, RecheckStaleKeeps, ReadDiscoveryKeeps, BeginKeeps,
     ClaimKeeps, RefuseClaimKeeps, RecheckMismatchKeeps, RefreshPlanKeeps, FailsKeeps
<1>2. ASSUME NEW m \in Mutations,
             \/ RecheckBegun(m) \/ Shut(m) \/ Drained(m) \/ DrainTimeout(m)
             \/ LockUser(m) \/ Write(m) \/ PlanOvertaken(m) \/ TransactionFails(m)
             \/ CommitSucceeds(m) \/ CommitLost(m) \/ LateCommit(m) \/ LateAbort(m)
             \/ Committed(m) \/ ReadRecord(m) \/ RecoverCommitted(m)
             \/ RecoverNotCommitted(m) \/ Unresolved(m)
      PROVE  IInv'
  BY <1>2, RecheckBegunKeeps, ShutKeeps, DrainedKeeps, DrainTimeoutKeeps, LockUserKeeps, WriteKeeps,
     PlanOvertakenKeeps, TransactionFailsKeeps, CommitSucceedsKeeps, CommitLostKeeps, LateCommitKeeps,
     LateAbortKeeps, CommittedKeeps, ReadRecordKeeps, RecoverCommittedKeeps, RecoverNotCommittedKeeps,
     UnresolvedKeeps
<1>3. ASSUME NEW r \in Readers, ReadRow(r) \/ Admit(r) \/ EndResponse(r)
      PROVE  IInv'
  BY <1>3, ReadRowKeeps, AdmitKeeps, EndResponseKeeps
<1> QED
  BY <1>1, <1>2, <1>3, CrashKeeps, OtherAccountKeeps, StutterKeeps DEF Next

\* Every reachable state satisfies the invariant, for any number of requests,
\* readers and keys and whatever operation each key is used for.
THEOREM Invariant == Spec => []IInv
  BY InvInit, InvStep, PTL DEF Spec

\* Everything keeps its type, for any requests and readers.
THEOREM TypeInvariant == Spec => []TypeOK
<1>1. IInv => TypeOK
  BY DEF IInv
<1> QED
  BY <1>1, Invariant, PTL

-----------------------------------------------------------------------------
(* What follows from it.                                                   *)

\* A fence nobody owns is open exactly at the durable generation, whatever is
\* lost, repeated or crashes, until a COMMIT takes effect after its recovery.
THEOREM FencesFollowTheRow == Spec => []OpenUnlessCommitIsLate
<1>1. IInv => OpenUnlessCommitIsLate
  BY DEF IInv, InStep, OpenUnlessCommitIsLate
<1> QED
  BY <1>1, Invariant, PTL

\* Once a withdrawal was acknowledged, nothing of the withdrawn revision is
\* being sent.
THEOREM RevocationHolds == Spec => []AcknowledgedRevocation
<1>1. ASSUME IInv, ~late, NEW r \in Readers, reader[r].phase = "sending"
      PROVE  reader[r].revision >= ackedFloor
  <2>1. reader[r].revision \in Nat /\ ackedFloor \in Nat
    BY <1>1, Constants DEF IInv, TypeOK
  <2>2. CASE ackedFloor = 0
    BY <2>1, <2>2
  <2>3. CASE ackedFloor # 0
    <3>1. PICK k \in Keys : /\ Withdraws(KindOf[k]) /\ records[k] # 0
                            /\ ackedFloor <= records[k] + 1
      BY <1>1, <2>3 DEF IInv, Acknowledged
    <3>2. records[k] < reader[r].revision /\ records[k] \in Nat
      BY <1>1, <3>1, Constants DEF IInv, TypeOK, Withdrawals
    <3> QED
      BY <2>1, <3>1, <3>2
  <2> QED
    BY <2>2, <2>3
<1>2. IInv => AcknowledgedRevocation
  BY <1>1 DEF AcknowledgedRevocation
<1> QED
  BY <1>2, Invariant, PTL

\* Success, first or repeated, is only reported of what is stored.
THEOREM SuccessHolds == Spec => []SuccessIsDurable
<1>1. IInv => SuccessIsDurable
  BY DEF IInv, Keyed, SuccessIsDurable
<1> QED
  BY <1>1, Invariant, PTL

\* A stale-revision error is only reported of what never took effect, while no
\* other account changes discovery.
THEOREM StaleHolds == Spec => []StaleMeansNotAppliedAlone
<1>1. IInv => StaleMeansNotAppliedAlone
  BY DEF IInv, OvertakenByRow, StaleMeansNotAppliedAlone
<1> QED
  BY <1>1, Invariant, PTL

\* Nothing is closed for a request that has already been answered.
THEOREM ClosedFresh == Spec => []ClosedOnlyWhenFresh
<1>1. IInv => ClosedOnlyWhenFresh
  BY DEF IInv, Keyed, ClosedOnlyWhenFresh, Decision
<1> QED
  BY <1>1, Invariant, PTL

\* Only a COMMIT moves the row.
LEMMA RowMoves ==
    ASSUME Next, revision' # revision
    PROVE  \E m \in Mutations : CommitSucceeds(m) \/ LateCommit(m)
<1>1. ASSUME NEW m \in Mutations,
             \/ \E req \in Requests : Start(m, req)
             \/ Inspect(m) \/ Preflight(m) \/ RecheckStale(m) \/ ReadDiscovery(m)
             \/ Begin(m) \/ Claim(m) \/ RefuseClaim(m) \/ RecheckMismatch(m) \/ RefreshPlan(m)
             \/ Fails(m)
      PROVE  FALSE
  BY <1>1 DEF database, Start, Inspect, Preflight, RecheckStale, ReadDiscovery, Begin, Claim,
     RefuseClaim, RecheckMismatch, RefreshPlan, Fails
<1>2. ASSUME NEW m \in Mutations,
             \/ RecheckBegun(m) \/ Shut(m) \/ Drained(m) \/ DrainTimeout(m)
             \/ LockUser(m) \/ Write(m) \/ PlanOvertaken(m) \/ TransactionFails(m)
             \/ CommitLost(m) \/ LateAbort(m) \/ Committed(m) \/ ReadRecord(m)
             \/ RecoverCommitted(m) \/ RecoverNotCommitted(m) \/ Unresolved(m)
      PROVE  FALSE
  BY <1>2 DEF database, RecheckBegun, Shut, Drained, DrainTimeout, LockUser, Write, PlanOvertaken,
     TransactionFails, CommitLost, LateAbort, Committed, ReadRecord, RecoverCommitted,
     RecoverNotCommitted, Unresolved
<1>3. ASSUME NEW r \in Readers, ReadRow(r) \/ Admit(r) \/ EndResponse(r)
      PROVE  FALSE
  BY <1>3 DEF database, ReadRow, Admit, EndResponse
<1>4. ~Crash /\ ~OtherAccount
  BY DEF database, Crash, OtherAccount
<1> QED
  BY <1>1, <1>2, <1>3, <1>4 DEF Next

\* The row only moves behind its own shut fence, at the revision it leaves.
THEOREM FencedWrites == Spec => WritesOnlyBehindTheFence
<1>1. ASSUME IInv, Next, revision' # revision, ~late'
      PROVE  fence.owner # Nobody /\ fence.state = "shut" /\ fence.gen = revision
  <2>1. PICK m \in Mutations : CommitSucceeds(m) \/ LateCommit(m)
    BY <1>1, RowMoves
  <2>2. CASE CommitSucceeds(m)
    <3>1. phase[m] = "committing" /\ revision = Base(m) /\ Holds(m)
      BY <1>1, <2>2 DEF CommitSucceeds, IInv, Keyed, Holds, Owning
    <3> QED
      BY <1>1, <3>1, NobodyAssumption DEF IInv, Ownership, Opening
  <2>3. CASE LateCommit(m)
    <3>1. /\ phase[m] \in {"unknown", "provenNot", "unresolved"} /\ revision = Base(m)
      BY <1>1, <2>3 DEF LateCommit, IInv, Doubts
    <3>2. Holds(m)
      BY <3>1 DEF Holds, Owning
    <3> QED
      BY <1>1, <3>1, <3>2, NobodyAssumption DEF IInv, Ownership, Opening
  <2> QED
    BY <2>1, <2>2, <2>3
<1>2. IInv /\ [Next]_vars =>
        [revision' # revision /\ ~late' =>
            fence.owner # Nobody /\ fence.state = "shut" /\ fence.gen = revision]_vars
  BY <1>1
<1> QED
  BY <1>2, Invariant, PTL DEF Spec, WritesOnlyBehindTheFence

-----------------------------------------------------------------------------
(* PublicMutation implements UpdateContract.                               *)

LEMMA HandlingOf ==
    ASSUME NEW m \in Mutations
    PROVE  /\ Handling[m] = IF phase[m] # "idle" THEN "handled"
                            ELSE IF doubt[m] THEN "abandoned" ELSE "none"
           /\ Handling'[m] = IF phase'[m] # "idle" THEN "handled"
                             ELSE IF doubt'[m] THEN "abandoned" ELSE "none"
           /\ Handling[m] \in Contract!Ways /\ Handling'[m] \in Contract!Ways
  BY DEF Handling, Contract!Ways

\* Refinement: what moves no request in or out of its slot is not seen.
LEMMA UnseenRefined ==
    ASSUME UNCHANGED <<revision, live, records, request, reply, late>>,
           \A n \in Mutations : /\ phase'[n] = "idle" <=> phase[n] = "idle"
                                /\ phase[n] = "idle" => doubt'[n] = doubt[n]
    PROVE  UNCHANGED Contract!contractVars
<1>1. Handling' = Handling
  BY DEF Handling
<1> QED
  BY <1>1 DEF Contract!contractVars

\* Refinement: an answer that frees the slot is Reply.
LEMMA AnswerRefined ==
    ASSUME IInv, NEW m \in Mutations, NEW res \in Results \ {"none"}, Answer(m, res),
           phase[m] # "idle", phase[m] # "unresolved", UNCHANGED <<database, doubt, late>>,
           doubt[m] => res = "failed",
           res \in {"done", "replayed"} => records[Key(m)] = Base(m),
           res = "reuse" => records[Key(m)] \notin {0, Base(m)},
           res = "stale" => revision # Base(m) \/ late
    PROVE  Contract!Reply(m)
<1> DEFINE how == IF doubt[m] THEN "abandoned" ELSE "none"
<1>1. Handling[m] = "handled" /\ reply[m] = "none" /\ how \in Contract!Ways
  BY HandlingOf DEF IInv, Keyed, Contract!Ways
<1>2. /\ res \in Contract!Answers /\ Contract!IsTrue(m, res)
      /\ how # "none" => res = "failed"
  BY DEF Results, Contract!Answers, Contract!Settled, Contract!IsTrue, Key, Base
<1>3. Handling' = [Handling EXCEPT ![m] = how]
  BY DEF Answer, Handling, IInv, TypeOK
<1>4. request' = IF how = "none" /\ res \notin Contract!Settled
                   THEN [request EXCEPT ![m] = NoRequest] ELSE request
  BY DEF Answer, Contract!Settled
<1>5. reply' = [reply EXCEPT ![m] = res] /\ UNCHANGED <<revision, live, records, late>>
  BY DEF Answer, database
<1> HIDE DEF how
<1> QED
  BY <1>1, <1>2, <1>3, <1>4, <1>5 DEF Contract!Reply

\* Refinement: a COMMIT, whoever learns of it, is Apply.
LEMMA ApplyRefined ==
    ASSUME IInv, NEW m \in Mutations, ApplyWrites(m), UNCHANGED <<request, reply>>,
           phase[m] # "idle" \/ doubt[m], records[Key(m)] = 0, revision = Base(m),
           \A n \in Mutations : phase'[n] = "idle" <=> phase[n] = "idle",
           \A n \in Mutations \ {m} : doubt'[n] = doubt[n],
           phase[m] = "idle" => ~doubt'[m],
           late' = (late \/ phase[m] = "idle")
    PROVE  Contract!Apply(m)
<1>1. Kind(m) \in Kinds
  BY KindsOf DEF IInv
<1>2. /\ Handling[m] # "none"
      /\ Handling[m] = "abandoned" <=> phase[m] = "idle"
  BY HandlingOf
<1>3. Handling' = IF Handling[m] = "abandoned" THEN [Handling EXCEPT ![m] = "none"] ELSE Handling
  <2>1. \A n \in Mutations \ {m} : Handling'[n] = Handling[n]
    BY HandlingOf
  <2>2. phase[m] # "idle" => Handling'[m] = Handling[m]
    BY HandlingOf
  <2>3. phase[m] = "idle" => Handling'[m] = "none"
    BY HandlingOf
  <2>4. /\ Handling = [n \in Mutations |-> Handling[n]]
        /\ Handling' = [n \in Mutations |-> Handling'[n]]
    BY DEF Handling
  <2>5. CASE phase[m] = "idle"
    BY <1>2, <2>1, <2>3, <2>4, <2>5
  <2>6. CASE phase[m] # "idle"
    BY <1>2, <2>1, <2>2, <2>4, <2>6
  <2> QED
    BY <2>5, <2>6
<1>4. /\ records' = [records EXCEPT ![request[m].key] = revision]
      /\ revision' = IF KindOf[request[m].key] = "delete" THEN 0 ELSE revision + 1
      /\ live' = IF KindOf[request[m].key] = "edit" THEN live ELSE KindOf[request[m].key] = "publish"
  BY <1>1 DEF ApplyWrites, Kind, Key, Base, Kinds
<1>5. late' = (late \/ Handling[m] = "abandoned")
  BY <1>2
<1> QED
  BY <1>2, <1>3, <1>4, <1>5 DEF Contract!Apply, Key, Base

LEMMA StartRefined ==
    ASSUME IInv, NEW m \in Mutations, NEW req \in Requests, Start(m, req)
    PROVE  Contract!Ask(m)
<1>1. Handling[m] = "none"
  BY HandlingOf DEF Start
<1>2. Handling' = [Handling EXCEPT ![m] = "handled"]
  BY DEF Start, Goto, Handling, IInv, TypeOK
<1> QED
  BY <1>1, <1>2 DEF Start, Contract!Ask, Contract!Requests, Requests, database, history, environment

\* Refinement: a request given up with its fences closed has been told so.
LEMMA UnresolvedRefined ==
    ASSUME IInv, NEW m \in Mutations, Unresolved(m)
    PROVE  Contract!Reply(m)
<1>1. Handling[m] = "handled" /\ reply[m] = "none"
  BY HandlingOf DEF Unresolved, IInv, Keyed
<1>2. Handling' = [Handling EXCEPT ![m] = "handled"]
  BY DEF Unresolved, Goto, Handling, IInv, TypeOK
<1>3. /\ reply' = [reply EXCEPT ![m] = "failed"] /\ request' = request
      /\ UNCHANGED <<revision, live, records, late>>
  BY DEF Unresolved, database, history, environment
<1>4. "failed" \in Contract!Answers /\ Contract!IsTrue(m, "failed") /\ "handled" \in Contract!Ways
  BY DEF Contract!Answers, Contract!Settled, Contract!IsTrue, Contract!Ways
<1> QED
  BY <1>1, <1>2, <1>3, <1>4 DEF Contract!Reply

\* Refinement: a crash, or a COMMIT that the database drops.
LEMMA GiveUpRefined ==
    ASSUME IInv, UNCHANGED <<revision, live, records, request, reply, late>>,
           \A n \in Mutations : /\ phase'[n] = "idle" \/ phase'[n] = phase[n]
                                /\ doubt'[n] => doubt[n]
    PROVE  Contract!GiveUp
<1>1. Handling' \in [Mutations -> Contract!Ways]
  BY DEF Handling, Contract!Ways
<1>2. \A n \in Mutations : Handling'[n] # Handling[n] =>
        Handling[n] # "none" /\ Handling'[n] # "handled"
  BY HandlingOf
<1> QED
  BY <1>1, <1>2 DEF Contract!GiveUp

LEMMA GotoRefined ==
    ASSUME IInv, NEW m \in Mutations, NEW q, Goto(m, q), q # "idle", phase[m] # "idle",
           UNCHANGED <<database, request, reply, late>>,
           \A n \in Mutations \ {m} : doubt'[n] = doubt[n]
    PROVE  UNCHANGED Contract!contractVars
<1>1. \A n \in Mutations : /\ phase'[n] = "idle" <=> phase[n] = "idle"
                           /\ phase[n] = "idle" => doubt'[n] = doubt[n]
  BY DEF Goto, IInv, TypeOK
<1> QED
  BY <1>1, UnseenRefined DEF database

\* Refinement, before the transition closes anything.
LEMMA WaitingRefined ==
    ASSUME IInv, NEW m \in Mutations,
           \/ Inspect(m) \/ Preflight(m) \/ RecheckStale(m) \/ ReadDiscovery(m)
           \/ Begin(m) \/ Claim(m) \/ RefuseClaim(m) \/ RecheckMismatch(m) \/ RefreshPlan(m)
           \/ Fails(m) \/ RecheckBegun(m)
    PROVE  Contract!Reply(m) \/ UNCHANGED Contract!contractVars
<1>1. phase[m] \in Waiting \cup Opening /\ phase[m] # "idle" /\ phase[m] # "unresolved" /\ ~doubt[m]
  <2>1. phase[m] \in Waiting \cup Opening
    BY DEF Inspect, Preflight, RecheckStale, ReadDiscovery, Begin, Claim, RefuseClaim,
       RecheckMismatch, RefreshPlan, Fails, RecheckBegun, Waiting, Opening
  <2> QED
    BY <2>1, NoDoubtYet DEF Waiting, Opening
<1>2. UNCHANGED <<database, doubt, late>>
  BY DEF Inspect, Preflight, RecheckStale, ReadDiscovery, Begin, Claim, RefuseClaim,
     RecheckMismatch, RefreshPlan, Fails, RecheckBegun, history, environment
<1>3. ASSUME NEW q \in Waiting \cup Opening, Goto(m, q), UNCHANGED <<request, reply>>
      PROVE  UNCHANGED Contract!contractVars
  BY <1>1, <1>2, <1>3, GotoRefined DEF Waiting, Opening
<1>4. ASSUME NEW res \in {"replayed", "reuse", "stale", "failed"}, Answer(m, res),
             res = "replayed" => Decision(m) = "replay",
             res = "reuse" => Decision(m) = "reuse",
             res = "stale" => revision # Base(m) \/ late
      PROVE  Contract!Reply(m)
  <2>1. /\ res = "replayed" => records[Key(m)] = Base(m)
        /\ res = "reuse" => records[Key(m)] \notin {0, Base(m)}
    BY <1>4, DecisionTells DEF IInv, Decision
  <2> QED
    BY <1>1, <1>2, <1>4, <2>1, AnswerRefined DEF Results
<1>5. CASE Inspect(m)
  BY <1>3, <1>4, <1>5 DEF Inspect, slot, Waiting
<1>6. CASE Preflight(m)
  BY <1>3, <1>6 DEF Preflight, Waiting
<1>7. CASE RecheckStale(m)
  <2>1. revision # Base(m)
    BY <1>7 DEF RecheckStale, IInv, Plans
  <2> QED
    BY <1>4, <1>7, <2>1 DEF RecheckStale
<1>8. CASE ReadDiscovery(m) \/ Begin(m) \/ Claim(m)
  BY <1>3, <1>8 DEF ReadDiscovery, Begin, Claim, Waiting, Opening
<1>9. CASE RefuseClaim(m)
  BY <1>3, <1>4, <1>9 DEF RefuseClaim, slot, Waiting
<1>10. CASE RecheckMismatch(m)
  <2>1. CASE Decision(m) = "fresh" /\ ~plan[m].retried
    BY <1>3, <1>10, <2>1 DEF RecheckMismatch, slot, Waiting
  <2>2. CASE ~(Decision(m) = "fresh" /\ ~plan[m].retried)
    BY <1>4, <1>10, <2>2 DEF RecheckMismatch
  <2> QED
    BY <2>1, <2>2
<1>11. CASE RefreshPlan(m)
  <2>1. CASE revision = Base(m) /\ plan[m].global
    BY <1>3, <1>11, <2>1 DEF RefreshPlan, Waiting
  <2>2. CASE ~(revision = Base(m) /\ plan[m].global)
    <3>1. revision # Base(m) \/ late
      BY <1>11, <2>2 DEF RefreshPlan, IInv, InStep
    <3> QED
      BY <1>4, <1>11, <2>2, <3>1 DEF RefreshPlan
  <2> QED
    BY <2>1, <2>2
<1>12. CASE Fails(m)
  BY <1>4, <1>12 DEF Fails
<1>13. CASE RecheckBegun(m)
  <2>1. CASE Decision(m) = "fresh"
    BY <1>3, <1>13, <2>1 DEF RecheckBegun, slot, Opening
  <2>2. CASE Decision(m) # "fresh"
    <3>1. Decision(m) = "replay" \/ Decision(m) = "reuse"
      BY <2>2 DEF Decision
    <3> QED
      BY <1>4, <1>13, <2>2, <3>1 DEF RecheckBegun
  <2> QED
    BY <2>1, <2>2
<1> QED
  BY <1>5, <1>6, <1>7, <1>8, <1>9, <1>10, <1>11, <1>12, <1>13

\* Refinement, from Close to the answer.
LEMMA SettlingRefined ==
    ASSUME IInv, NEW m \in Mutations,
           \/ Shut(m) \/ Drained(m) \/ DrainTimeout(m) \/ LockUser(m) \/ Write(m)
           \/ PlanOvertaken(m) \/ TransactionFails(m) \/ CommitSucceeds(m) \/ CommitLost(m)
           \/ LateCommit(m) \/ LateAbort(m) \/ Committed(m) \/ ReadRecord(m)
           \/ RecoverCommitted(m) \/ RecoverNotCommitted(m) \/ Unresolved(m)
    PROVE  \/ Contract!Reply(m) \/ Contract!Apply(m) \/ Contract!GiveUp
           \/ UNCHANGED Contract!contractVars
<1>1. CASE Shut(m) \/ Drained(m) \/ LockUser(m) \/ Write(m) \/ ReadRecord(m) \/ CommitLost(m)
  <2>1. PICK q \in {"draining", "closed", "locked", "committing", "provenCommitted", "provenNot",
                    "unknown"} : Goto(m, q)
    BY <1>1 DEF Shut, Drained, LockUser, Write, ReadRecord, CommitLost
  <2>2. /\ phase[m] # "idle" /\ UNCHANGED <<database, request, reply, late>>
        /\ \A n \in Mutations \ {m} : doubt'[n] = doubt[n]
    BY <1>1 DEF Shut, Drained, LockUser, Write, ReadRecord, CommitLost, history, environment,
       IInv, TypeOK
  <2> QED
    BY <2>1, <2>2, GotoRefined
<1>2. CASE DrainTimeout(m) \/ TransactionFails(m) \/ RecoverNotCommitted(m)
  <2>1. /\ Answer(m, "failed") /\ UNCHANGED <<database, doubt, late>>
        /\ phase[m] # "idle" /\ phase[m] # "unresolved"
    BY <1>2 DEF DrainTimeout, TransactionFails, RecoverNotCommitted, environment
  <2> QED
    BY <2>1, AnswerRefined DEF Results
<1>3. CASE PlanOvertaken(m)
  <2>1. /\ phase[m] = "locked" /\ ~doubt[m] /\ UNCHANGED <<database, doubt, late>>
    BY <1>3, NoDoubtYet DEF PlanOvertaken, environment
  <2>2. CASE Goto(m, "overtaken") /\ UNCHANGED slot
    BY <2>1, <2>2, GotoRefined DEF slot
  <2>3. CASE Answer(m, "failed")
    BY <2>1, <2>3, AnswerRefined DEF Results
  <2>4. CASE /\ ~(plan[m].global /\ discovery # plan[m].discovery)
             /\ Answer(m, "stale")
    <3>1. revision # Base(m)
      BY <1>3, <2>4 DEF PlanOvertaken, MayWrite
    <3> QED
      BY <2>1, <2>4, <3>1, AnswerRefined DEF Results
  <2> QED
    BY <1>3, <2>2, <2>3, <2>4 DEF PlanOvertaken
<1>4. CASE CommitSucceeds(m)
  <2>1. /\ phase[m] = "committing" /\ records[Key(m)] = 0 /\ revision = Base(m)
        /\ ApplyWrites(m) /\ UNCHANGED <<request, reply, doubt, late>>
    BY <1>4 DEF CommitSucceeds, IInv, Keyed, history, environment
  <2>2. \A n \in Mutations : phase'[n] = "idle" <=> phase[n] = "idle"
    BY <1>4, <2>1 DEF CommitSucceeds, Goto, IInv, TypeOK
  <2>3. late' = (late \/ phase[m] = "idle")
    BY <2>1 DEF IInv, TypeOK
  <2> QED
    BY <2>1, <2>2, <2>3, ApplyRefined
<1>5. CASE LateCommit(m)
  <2>1. /\ doubt[m] /\ records[Key(m)] = 0 /\ revision = Base(m) /\ ~doubt'[m]
        /\ ApplyWrites(m) /\ UNCHANGED <<request, reply, phase>>
        /\ late' = (late \/ phase[m] = "idle")
    BY <1>5 DEF LateCommit, IInv, Doubts, TypeOK
  <2>2. \A n \in Mutations \ {m} : doubt'[n] = doubt[n]
    BY <1>5 DEF LateCommit, IInv, TypeOK
  <2> QED
    BY <2>1, <2>2, ApplyRefined
<1>6. CASE LateAbort(m)
  <2>1. /\ UNCHANGED <<revision, live, records, request, reply, late, phase>>
        /\ \A n \in Mutations : doubt'[n] => doubt[n]
    BY <1>6 DEF LateAbort, database, history, environment, IInv, TypeOK
  <2> QED
    BY <2>1, GiveUpRefined
<1>7. CASE Committed(m) \/ RecoverCommitted(m)
  <2>1. PICK res \in {"done", "replayed"} : Answer(m, res)
    BY <1>7 DEF Committed, RecoverCommitted
  <2>2. /\ phase[m] \in {"committed", "provenCommitted"} /\ UNCHANGED <<database, doubt, late>>
        /\ ~doubt[m] /\ records[Key(m)] = Base(m)
    BY <1>7 DEF Committed, RecoverCommitted, environment, IInv, Doubts, Keyed
  <2> QED
    BY <2>1, <2>2, AnswerRefined DEF Results
<1>8. CASE Unresolved(m)
  BY <1>8, UnresolvedRefined
<1> QED
  BY <1>1, <1>2, <1>3, <1>4, <1>5, <1>6, <1>7, <1>8

\* Each mutation takes effect at most once, at the revision the client named;
\* what the client is told of it is true, and the last word unless it failed.
THEOREM ContractImplemented == Spec => ImplementsContract
<1>1. Init => Contract!ContractInit
  <2> SUFFICES ASSUME Init PROVE Contract!ContractInit
    OBVIOUS
  <2>1. Handling = [m \in Mutations |-> "none"]
    BY DEF Init, Handling
  <2> QED
    BY <2>1 DEF Init, Contract!ContractInit
<1>2. IInv /\ [Next]_vars => [Contract!ContractNext]_(Contract!contractVars)
  <2> SUFFICES ASSUME IInv, [Next]_vars
               PROVE  Contract!ContractNext \/ UNCHANGED Contract!contractVars
    OBVIOUS
  <2>1. ASSUME NEW m \in Mutations, NEW req \in Requests, Start(m, req)
        PROVE  Contract!ContractNext
    BY <2>1, StartRefined DEF Contract!ContractNext
  <2>2. ASSUME NEW m \in Mutations,
               \/ Inspect(m) \/ Preflight(m) \/ RecheckStale(m) \/ ReadDiscovery(m)
               \/ Begin(m) \/ Claim(m) \/ RefuseClaim(m) \/ RecheckMismatch(m) \/ RefreshPlan(m)
               \/ Fails(m) \/ RecheckBegun(m)
        PROVE  Contract!ContractNext \/ UNCHANGED Contract!contractVars
    BY <2>2, WaitingRefined DEF Contract!ContractNext
  <2>3. ASSUME NEW m \in Mutations,
               \/ Shut(m) \/ Drained(m) \/ DrainTimeout(m) \/ LockUser(m) \/ Write(m)
               \/ PlanOvertaken(m) \/ TransactionFails(m) \/ CommitSucceeds(m) \/ CommitLost(m)
               \/ LateCommit(m) \/ LateAbort(m) \/ Committed(m) \/ ReadRecord(m)
               \/ RecoverCommitted(m) \/ RecoverNotCommitted(m) \/ Unresolved(m)
        PROVE  Contract!ContractNext \/ UNCHANGED Contract!contractVars
    BY <2>3, SettlingRefined DEF Contract!ContractNext
  <2>4. ASSUME NEW r \in Readers, ReadRow(r) \/ Admit(r) \/ EndResponse(r)
        PROVE  UNCHANGED Contract!contractVars
    BY <2>4, UnseenRefined DEF ReadRow, Admit, EndResponse, database, history, environment
  <2>5. CASE Crash
    <3>1. /\ UNCHANGED <<revision, live, records, request, reply, late, doubt>>
          /\ \A n \in Mutations : phase'[n] = "idle"
      BY <2>5 DEF Crash, database
    <3> QED
      BY <3>1, GiveUpRefined DEF Contract!ContractNext
  <2>6. CASE OtherAccount \/ UNCHANGED vars
    BY <2>6, UnseenRefined DEF OtherAccount, vars, database, history, environment
  <2> QED
    BY <2>1, <2>2, <2>3, <2>4, <2>5, <2>6 DEF Next
<1> QED
  BY <1>1, <1>2, Invariant, PTL DEF Spec, ImplementsContract, Contract!ContractSpec
=============================================================================

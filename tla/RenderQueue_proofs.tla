-------------------------- MODULE RenderQueue_proofs --------------------------
(***************************************************************************)
(* Theorems about RenderQueue for any number of calls and any limits, with *)
(* their proofs.                                                           *)
(***************************************************************************)
EXTENDS RenderQueue, FiniteSetTheorems, TLAPS

\* The steps that leave every call where it is.
Aside ==
    \/ \E r \in Renders : Page(r) \/ Timers(r) \/ CallerGoes(r)
    \/ StartClose \/ FinishClose

LEMMA AsidesKeepCalls == Aside => UNCHANGED <<call, answer, permit>>
BY DEF Aside, Page, Timers, Redeem, StopExpiry, Fire, RunCallback, CallerGoes, StartClose, FinishClose

-----------------------------------------------------------------------------
(* Typing.                                                                 *)

\* Canceling attempts gives them a reason and takes their jobs.
LEMMA CancelTyped ==
    ASSUME TypeOK, NEW S, NEW why \in Reasons, Cancel(S, why)
    PROVE  /\ reason' \in [Renders -> Reasons \cup {"none"}]
           /\ job' \in [Renders -> {"none", "unused", "redeemed", "completing"}]
BY DEF TypeOK, Cancel

\* Nothing has happened at first.
LEMMA InvInit == Init => IInv
<1> SUFFICES ASSUME Init PROVE IInv
  OBVIOUS
<1> USE DEF Init
<1>1. TypeOK
  BY DEF TypeOK, Callbacks
<1>2. PermitConserved /\ JobsAreLive /\ RedeemedNotExpired /\ RenderJoinsCallbacks
  BY DEF PermitConserved, Permitted, JobsAreLive, Stored, RedeemedNotExpired, RenderJoinsCallbacks
<1>3. Untouched /\ CapabilityTold /\ CloseHasAll
  BY DEF Untouched, CapabilityTold, CloseHasAll, Callbacks, Closed
<1> QED
  BY <1>1, <1>2, <1>3 DEF IInv

\* Every step keeps its variables in their types.  A snapshot is counted once,
\* because the job it is handed out for was not redeemed.
LEMMA TypeStep == TypeOK /\ CapabilityTold /\ [Next]_vars => TypeOK'
<1> SUFFICES ASSUME TypeOK, CapabilityTold, [Next]_vars PROVE TypeOK'
  OBVIOUS
<1> USE DEF TypeOK, Admitted, Permitted, Reasons, Callbacks, Goes, Returns, Keep, Remove, outside
<1>1. ASSUME NEW r \in Renders, Admit(r) PROVE TypeOK'
  BY <1>1 DEF Admit
<1>2. ASSUME NEW r \in Renders, Refuse(r) PROVE TypeOK'
  BY <1>2 DEF Refuse
<1>3. ASSUME NEW r \in Renders, Prepare(r) PROVE TypeOK'
  <2>1. CASE Returns(r, "error", "releasing") /\ Keep /\ callback' = callback
    BY <1>3, <2>1 DEF Prepare
  <2>2. CASE Goes(r, "waiting") /\ callback' = [callback EXCEPT ![r]["expiry"] = "armed"]
    <3>1. job' \in [Renders -> {"none", "unused", "redeemed", "completing"}] /\ reason' = reason
      BY <1>3, <2>2 DEF Prepare
    <3> QED
      BY <1>3, <2>2, <3>1 DEF Prepare
  <2> QED
    BY <1>3, <2>1, <2>2 DEF Prepare
<1>4. ASSUME NEW r \in Renders, GiveUpWaiting(r) PROVE TypeOK'
  BY <1>4 DEF GiveUpWaiting
<1>5. ASSUME NEW r \in Renders, TakePermit(r) PROVE TypeOK'
  BY <1>5 DEF TakePermit
<1>6. ASSUME NEW r \in Renders, BeginRender(r) PROVE TypeOK'
  BY <1>6 DEF BeginRender
<1>7. ASSUME NEW r \in Renders, EndRender(r) PROVE TypeOK'
  BY <1>7 DEF EndRender
<1>8. ASSUME NEW r \in Renders, StartCompletion(r) PROVE TypeOK'
  BY <1>8, CancelTyped DEF StartCompletion, StopsCompleting
<1>9. ASSUME NEW r \in Renders, Validate(r) PROVE TypeOK'
  BY <1>9, CancelTyped DEF Validate, StopsCompleting
<1>10. ASSUME NEW r \in Renders, FinishCompletion(r) PROVE TypeOK'
  BY <1>10, CancelTyped DEF FinishCompletion, StopsCompleting
<1>11. ASSUME NEW r \in Renders, ReturnPermit(r) PROVE TypeOK'
  BY <1>11 DEF ReturnPermit
<1>12. ASSUME NEW r \in Renders, ReleaseAttempt(r) PROVE TypeOK'
  BY <1>12 DEF ReleaseAttempt
<1>13. ASSUME NEW r \in Renders, JoinCallbacks(r) PROVE TypeOK'
  BY <1>13 DEF JoinCallbacks, Return
<1>14. ASSUME NEW r \in Renders, Redeem(r) PROVE TypeOK'
  <2>1. CASE HandOut(r)
    <3>1. handed[r] = 0
      BY <1>14 DEF Redeem, CapabilityTold
    <3>2. handed' \in [Renders -> 0..1]
      BY <2>1, <3>1 DEF HandOut
    <3> QED
      BY <1>14, <2>1, <3>2 DEF Redeem, HandOut
  <2>2. CASE Cancel({r}, "stopped") /\ UNCHANGED <<callback, handed>>
    BY <1>14, <2>2, CancelTyped DEF Redeem
  <2> QED
    BY <1>14, <2>1, <2>2 DEF Redeem
<1>15. ASSUME NEW r \in Renders, StopExpiry(r) PROVE TypeOK'
  BY <1>15 DEF StopExpiry
<1>16. ASSUME NEW r \in Renders, NEW timer \in {"deadline", "expiry"}, Fire(r, timer) PROVE TypeOK'
  BY <1>16 DEF Fire
<1>17. ASSUME NEW r \in Renders, NEW c \in Callbacks, RunCallback(r, c) PROVE TypeOK'
  BY <1>17, CancelTyped DEF RunCallback, ExpireCapability
<1>18. ASSUME NEW r \in Renders, CallerGoes(r) PROVE TypeOK'
  BY <1>18 DEF CallerGoes
<1>19. CASE StartClose
  BY <1>19, CancelTyped DEF StartClose, Attempts
<1>20. CASE FinishClose
  BY <1>20 DEF FinishClose
<1>21. CASE UNCHANGED vars
  BY <1>21 DEF vars
<1> QED
  BY <1>1, <1>2, <1>3, <1>4, <1>5, <1>6, <1>7, <1>8, <1>9, <1>10, <1>11, <1>12, <1>13, <1>14, <1>15, <1>16, <1>17, <1>18, <1>19, <1>20, <1>21 DEF Next, Render, Page, Timers

-----------------------------------------------------------------------------
(* The permit.                                                             *)

\* A call takes the permit from the channel and keeps it until it puts it back.
LEMMA PermitStep == TypeOK /\ PermitConserved /\ [Next]_vars => PermitConserved'
<1> SUFFICES ASSUME TypeOK, PermitConserved, [Next]_vars PROVE PermitConserved'
  OBVIOUS
<1> USE DEF TypeOK, PermitConserved, Permitted, Goes, Returns
<1>1. ASSUME NEW r \in Renders, Admit(r) PROVE PermitConserved'
  BY <1>1 DEF Admit
<1>2. ASSUME NEW r \in Renders, Refuse(r) PROVE PermitConserved'
  BY <1>2 DEF Refuse
<1>3. ASSUME NEW r \in Renders, Prepare(r) PROVE PermitConserved'
  BY <1>3 DEF Prepare, Stored, Canceled
<1>4. ASSUME NEW r \in Renders, GiveUpWaiting(r) PROVE PermitConserved'
  BY <1>4 DEF GiveUpWaiting
<1>5. ASSUME NEW r \in Renders, TakePermit(r) PROVE PermitConserved'
  BY <1>5 DEF TakePermit
<1>6. ASSUME NEW r \in Renders, BeginRender(r) PROVE PermitConserved'
  BY <1>6 DEF BeginRender
<1>7. ASSUME NEW r \in Renders, EndRender(r) PROVE PermitConserved'
  BY <1>7 DEF EndRender
<1>8. ASSUME NEW r \in Renders, StartCompletion(r) PROVE PermitConserved'
  BY <1>8 DEF StartCompletion, StopsCompleting, Cancel
<1>9. ASSUME NEW r \in Renders, Validate(r) PROVE PermitConserved'
  BY <1>9 DEF Validate, StopsCompleting, Cancel
<1>10. ASSUME NEW r \in Renders, FinishCompletion(r) PROVE PermitConserved'
  BY <1>10 DEF FinishCompletion, StopsCompleting, Cancel
<1>11. ASSUME NEW r \in Renders, ReturnPermit(r) PROVE PermitConserved'
  BY <1>11 DEF ReturnPermit
<1>12. ASSUME NEW r \in Renders, ReleaseAttempt(r) PROVE PermitConserved'
  BY <1>12 DEF ReleaseAttempt
<1>13. ASSUME NEW r \in Renders, JoinCallbacks(r) PROVE PermitConserved'
  BY <1>13 DEF JoinCallbacks, Return
<1>14. CASE Aside
  BY <1>14, AsidesKeepCalls
<1>15. CASE UNCHANGED vars
  BY <1>15 DEF vars
<1> QED
  BY <1>1, <1>2, <1>3, <1>4, <1>5, <1>6, <1>7, <1>8, <1>9, <1>10, <1>11, <1>12, <1>13, <1>14, <1>15 DEF Next, Render, Page, Timers, Aside

-----------------------------------------------------------------------------
(* Jobs, their capabilities and Close.                                     *)

\* A job is installed for an attempt nobody has canceled, which after Close has
\* begun is none, and whoever cancels an attempt or releases it removes its job.
LEMMA JobsStep == TypeOK /\ JobsAreLive /\ CloseHasAll /\ [Next]_vars => JobsAreLive'
<1> SUFFICES ASSUME TypeOK, JobsAreLive, CloseHasAll, [Next]_vars PROVE JobsAreLive'
  OBVIOUS
<1> USE DEF TypeOK, JobsAreLive, CloseHasAll, Stored, Attempts, Admitted, Permitted, Closed, Goes, Returns, Keep, Remove, outside
<1>1. ASSUME NEW r \in Renders, Admit(r) PROVE JobsAreLive'
  BY <1>1 DEF Admit
<1>2. ASSUME NEW r \in Renders, Refuse(r) PROVE JobsAreLive'
  BY <1>2 DEF Refuse
<1>3. ASSUME NEW r \in Renders, Prepare(r) PROVE JobsAreLive'
  BY <1>3 DEF Prepare, Stored, Canceled
<1>4. ASSUME NEW r \in Renders, GiveUpWaiting(r) PROVE JobsAreLive'
  BY <1>4 DEF GiveUpWaiting
<1>5. ASSUME NEW r \in Renders, TakePermit(r) PROVE JobsAreLive'
  BY <1>5 DEF TakePermit
<1>6. ASSUME NEW r \in Renders, BeginRender(r) PROVE JobsAreLive'
  BY <1>6 DEF BeginRender
<1>7. ASSUME NEW r \in Renders, EndRender(r) PROVE JobsAreLive'
  BY <1>7 DEF EndRender
<1>8. ASSUME NEW r \in Renders, StartCompletion(r) PROVE JobsAreLive'
  BY <1>8 DEF StartCompletion, StopsCompleting, Cancel
<1>9. ASSUME NEW r \in Renders, Validate(r) PROVE JobsAreLive'
  BY <1>9 DEF Validate, StopsCompleting, Cancel
<1>10. ASSUME NEW r \in Renders, FinishCompletion(r) PROVE JobsAreLive'
  BY <1>10 DEF FinishCompletion, StopsCompleting, Cancel
<1>11. ASSUME NEW r \in Renders, ReturnPermit(r) PROVE JobsAreLive'
  BY <1>11 DEF ReturnPermit
<1>12. ASSUME NEW r \in Renders, ReleaseAttempt(r) PROVE JobsAreLive'
  BY <1>12 DEF ReleaseAttempt
<1>13. ASSUME NEW r \in Renders, JoinCallbacks(r) PROVE JobsAreLive'
  BY <1>13 DEF JoinCallbacks, Return
<1>14. ASSUME NEW r \in Renders, Redeem(r) PROVE JobsAreLive'
  BY <1>14 DEF Redeem, HandOut, Cancel
<1>15. ASSUME NEW r \in Renders, StopExpiry(r) PROVE JobsAreLive'
  BY <1>15 DEF StopExpiry
<1>16. ASSUME NEW r \in Renders, NEW timer \in {"deadline", "expiry"}, Fire(r, timer) PROVE JobsAreLive'
  BY <1>16 DEF Fire
<1>17. ASSUME NEW r \in Renders, NEW c \in Callbacks, RunCallback(r, c) PROVE JobsAreLive'
  BY <1>17 DEF RunCallback, ExpireCapability, Cancel
<1>18. ASSUME NEW r \in Renders, CallerGoes(r) PROVE JobsAreLive'
  BY <1>18 DEF CallerGoes
<1>19. CASE StartClose
  BY <1>19 DEF StartClose, Cancel
<1>20. CASE FinishClose
  BY <1>20 DEF FinishClose
<1>21. CASE UNCHANGED vars
  BY <1>21 DEF vars
<1> QED
  BY <1>1, <1>2, <1>3, <1>4, <1>5, <1>6, <1>7, <1>8, <1>9, <1>10, <1>11, <1>12, <1>13, <1>14, <1>15, <1>16, <1>17, <1>18, <1>19, <1>20, <1>21 DEF Next, Render, Page, Timers

\* Nobody is admitted after Close has begun, and it cancels and waits for all who are.
LEMMA CloseStep == TypeOK /\ CloseHasAll /\ [Next]_vars => CloseHasAll'
<1> SUFFICES ASSUME TypeOK, CloseHasAll, [Next]_vars PROVE CloseHasAll'
  OBVIOUS
<1> USE DEF TypeOK, CloseHasAll, Attempts, Admitted, Permitted, Closed, Goes, Returns, Keep, Remove, outside
<1>1. ASSUME NEW r \in Renders, Admit(r) PROVE CloseHasAll'
  BY <1>1 DEF Admit
<1>2. ASSUME NEW r \in Renders, Refuse(r) PROVE CloseHasAll'
  BY <1>2 DEF Refuse
<1>3. ASSUME NEW r \in Renders, Prepare(r) PROVE CloseHasAll'
  BY <1>3 DEF Prepare, Stored, Canceled
<1>4. ASSUME NEW r \in Renders, GiveUpWaiting(r) PROVE CloseHasAll'
  BY <1>4 DEF GiveUpWaiting
<1>5. ASSUME NEW r \in Renders, TakePermit(r) PROVE CloseHasAll'
  BY <1>5 DEF TakePermit
<1>6. ASSUME NEW r \in Renders, BeginRender(r) PROVE CloseHasAll'
  BY <1>6 DEF BeginRender
<1>7. ASSUME NEW r \in Renders, EndRender(r) PROVE CloseHasAll'
  BY <1>7 DEF EndRender
<1>8. ASSUME NEW r \in Renders, StartCompletion(r) PROVE CloseHasAll'
  BY <1>8 DEF StartCompletion, StopsCompleting, Cancel
<1>9. ASSUME NEW r \in Renders, Validate(r) PROVE CloseHasAll'
  BY <1>9 DEF Validate, StopsCompleting, Cancel
<1>10. ASSUME NEW r \in Renders, FinishCompletion(r) PROVE CloseHasAll'
  BY <1>10 DEF FinishCompletion, StopsCompleting, Cancel
<1>11. ASSUME NEW r \in Renders, ReturnPermit(r) PROVE CloseHasAll'
  BY <1>11 DEF ReturnPermit
<1>12. ASSUME NEW r \in Renders, ReleaseAttempt(r) PROVE CloseHasAll'
  BY <1>12 DEF ReleaseAttempt
<1>13. ASSUME NEW r \in Renders, JoinCallbacks(r) PROVE CloseHasAll'
  BY <1>13 DEF JoinCallbacks, Return
<1>14. ASSUME NEW r \in Renders, Redeem(r) PROVE CloseHasAll'
  BY <1>14 DEF Redeem, HandOut, Cancel
<1>15. ASSUME NEW r \in Renders, StopExpiry(r) PROVE CloseHasAll'
  BY <1>15 DEF StopExpiry
<1>16. ASSUME NEW r \in Renders, NEW timer \in {"deadline", "expiry"}, Fire(r, timer) PROVE CloseHasAll'
  BY <1>16 DEF Fire
<1>17. ASSUME NEW r \in Renders, NEW c \in Callbacks, RunCallback(r, c) PROVE CloseHasAll'
  BY <1>17 DEF RunCallback, ExpireCapability, Cancel
<1>18. ASSUME NEW r \in Renders, CallerGoes(r) PROVE CloseHasAll'
  BY <1>18 DEF CallerGoes
<1>19. CASE StartClose
  BY <1>19 DEF StartClose, Cancel
<1>20. CASE FinishClose
  BY <1>20 DEF FinishClose
<1>21. CASE UNCHANGED vars
  BY <1>21 DEF vars
<1> QED
  BY <1>1, <1>2, <1>3, <1>4, <1>5, <1>6, <1>7, <1>8, <1>9, <1>10, <1>11, <1>12, <1>13, <1>14, <1>15, <1>16, <1>17, <1>18, <1>19, <1>20, <1>21 DEF Next, Render, Page, Timers

\* A call has no callback before it is admitted and no job before it has prepared.
LEMMA UntouchedStep == TypeOK /\ Untouched /\ [Next]_vars => Untouched'
<1> SUFFICES ASSUME TypeOK, Untouched, [Next]_vars PROVE Untouched'
  OBVIOUS
<1> USE DEF TypeOK, Untouched, Callbacks, Goes, Returns, Keep, Remove, outside
<1>1. ASSUME NEW r \in Renders, Admit(r) PROVE Untouched'
  BY <1>1 DEF Admit
<1>2. ASSUME NEW r \in Renders, Refuse(r) PROVE Untouched'
  BY <1>2 DEF Refuse
<1>3. ASSUME NEW r \in Renders, Prepare(r) PROVE Untouched'
  BY <1>3 DEF Prepare, Stored, Canceled
<1>4. ASSUME NEW r \in Renders, GiveUpWaiting(r) PROVE Untouched'
  BY <1>4 DEF GiveUpWaiting
<1>5. ASSUME NEW r \in Renders, TakePermit(r) PROVE Untouched'
  BY <1>5 DEF TakePermit
<1>6. ASSUME NEW r \in Renders, BeginRender(r) PROVE Untouched'
  BY <1>6 DEF BeginRender
<1>7. ASSUME NEW r \in Renders, EndRender(r) PROVE Untouched'
  BY <1>7 DEF EndRender
<1>8. ASSUME NEW r \in Renders, StartCompletion(r) PROVE Untouched'
  BY <1>8 DEF StartCompletion, StopsCompleting, Cancel
<1>9. ASSUME NEW r \in Renders, Validate(r) PROVE Untouched'
  BY <1>9 DEF Validate, StopsCompleting, Cancel
<1>10. ASSUME NEW r \in Renders, FinishCompletion(r) PROVE Untouched'
  BY <1>10 DEF FinishCompletion, StopsCompleting, Cancel
<1>11. ASSUME NEW r \in Renders, ReturnPermit(r) PROVE Untouched'
  BY <1>11 DEF ReturnPermit
<1>12. ASSUME NEW r \in Renders, ReleaseAttempt(r) PROVE Untouched'
  BY <1>12 DEF ReleaseAttempt
<1>13. ASSUME NEW r \in Renders, JoinCallbacks(r) PROVE Untouched'
  BY <1>13 DEF JoinCallbacks, Return
<1>14. ASSUME NEW r \in Renders, Redeem(r) PROVE Untouched'
  BY <1>14 DEF Redeem, HandOut, Cancel
<1>15. ASSUME NEW r \in Renders, StopExpiry(r) PROVE Untouched'
  BY <1>15 DEF StopExpiry
<1>16. ASSUME NEW r \in Renders, NEW timer \in {"deadline", "expiry"}, Fire(r, timer) PROVE Untouched'
  BY <1>16 DEF Fire
<1>17. ASSUME NEW r \in Renders, NEW c \in Callbacks, RunCallback(r, c) PROVE Untouched'
  BY <1>17 DEF RunCallback, ExpireCapability, Cancel
<1>18. ASSUME NEW r \in Renders, CallerGoes(r) PROVE Untouched'
  BY <1>18 DEF CallerGoes
<1>19. CASE StartClose
  BY <1>19 DEF StartClose, Cancel
<1>20. CASE FinishClose
  BY <1>20 DEF FinishClose
<1>21. CASE UNCHANGED vars
  BY <1>21 DEF vars
<1> QED
  BY <1>1, <1>2, <1>3, <1>4, <1>5, <1>6, <1>7, <1>8, <1>9, <1>10, <1>11, <1>12, <1>13, <1>14, <1>15, <1>16, <1>17, <1>18, <1>19, <1>20, <1>21 DEF Next, Render, Page, Timers

\* The one step that redeems a job hands out its snapshot.
LEMMA CapabilityStep == TypeOK /\ Untouched /\ CapabilityTold /\ [Next]_vars => CapabilityTold'
<1> SUFFICES ASSUME TypeOK, Untouched, CapabilityTold, [Next]_vars PROVE CapabilityTold'
  OBVIOUS
<1> USE DEF TypeOK, Untouched, CapabilityTold, Callbacks, Stored, Goes, Returns, Keep, Remove, outside
<1>1. ASSUME NEW r \in Renders, Admit(r) PROVE CapabilityTold'
  BY <1>1 DEF Admit
<1>2. ASSUME NEW r \in Renders, Refuse(r) PROVE CapabilityTold'
  BY <1>2 DEF Refuse
<1>3. ASSUME NEW r \in Renders, Prepare(r) PROVE CapabilityTold'
  BY <1>3 DEF Prepare, Stored, Canceled
<1>4. ASSUME NEW r \in Renders, GiveUpWaiting(r) PROVE CapabilityTold'
  BY <1>4 DEF GiveUpWaiting
<1>5. ASSUME NEW r \in Renders, TakePermit(r) PROVE CapabilityTold'
  BY <1>5 DEF TakePermit
<1>6. ASSUME NEW r \in Renders, BeginRender(r) PROVE CapabilityTold'
  BY <1>6 DEF BeginRender
<1>7. ASSUME NEW r \in Renders, EndRender(r) PROVE CapabilityTold'
  BY <1>7 DEF EndRender
<1>8. ASSUME NEW r \in Renders, StartCompletion(r) PROVE CapabilityTold'
  BY <1>8 DEF StartCompletion, StopsCompleting, Cancel
<1>9. ASSUME NEW r \in Renders, Validate(r) PROVE CapabilityTold'
  BY <1>9 DEF Validate, StopsCompleting, Cancel
<1>10. ASSUME NEW r \in Renders, FinishCompletion(r) PROVE CapabilityTold'
  BY <1>10 DEF FinishCompletion, StopsCompleting, Cancel
<1>11. ASSUME NEW r \in Renders, ReturnPermit(r) PROVE CapabilityTold'
  BY <1>11 DEF ReturnPermit
<1>12. ASSUME NEW r \in Renders, ReleaseAttempt(r) PROVE CapabilityTold'
  BY <1>12 DEF ReleaseAttempt
<1>13. ASSUME NEW r \in Renders, JoinCallbacks(r) PROVE CapabilityTold'
  BY <1>13 DEF JoinCallbacks, Return
<1>14. ASSUME NEW r \in Renders, Redeem(r) PROVE CapabilityTold'
  BY <1>14 DEF Redeem, HandOut, Cancel
<1>15. ASSUME NEW r \in Renders, StopExpiry(r) PROVE CapabilityTold'
  BY <1>15 DEF StopExpiry
<1>16. ASSUME NEW r \in Renders, NEW timer \in {"deadline", "expiry"}, Fire(r, timer) PROVE CapabilityTold'
  BY <1>16 DEF Fire
<1>17. ASSUME NEW r \in Renders, NEW c \in Callbacks, RunCallback(r, c) PROVE CapabilityTold'
  BY <1>17 DEF RunCallback, ExpireCapability, Cancel
<1>18. ASSUME NEW r \in Renders, CallerGoes(r) PROVE CapabilityTold'
  BY <1>18 DEF CallerGoes
<1>19. CASE StartClose
  BY <1>19 DEF StartClose, Cancel
<1>20. CASE FinishClose
  BY <1>20 DEF FinishClose
<1>21. CASE UNCHANGED vars
  BY <1>21 DEF vars
<1> QED
  BY <1>1, <1>2, <1>3, <1>4, <1>5, <1>6, <1>7, <1>8, <1>9, <1>10, <1>11, <1>12, <1>13, <1>14, <1>15, <1>16, <1>17, <1>18, <1>19, <1>20, <1>21 DEF Next, Render, Page, Timers

\* Only an attempt whose job is not redeemed is canceled by its expiry, and a
\* canceled one is not redeemed.
LEMMA ExpiryStep == TypeOK /\ CapabilityTold /\ RedeemedNotExpired /\ [Next]_vars => RedeemedNotExpired'
<1> SUFFICES ASSUME TypeOK, CapabilityTold, RedeemedNotExpired, [Next]_vars PROVE RedeemedNotExpired'
  OBVIOUS
<1> USE DEF TypeOK, CapabilityTold, RedeemedNotExpired, Canceled, Callbacks, Goes, Returns, Keep, Remove, outside
<1>1. ASSUME NEW r \in Renders, Admit(r) PROVE RedeemedNotExpired'
  BY <1>1 DEF Admit
<1>2. ASSUME NEW r \in Renders, Refuse(r) PROVE RedeemedNotExpired'
  BY <1>2 DEF Refuse
<1>3. ASSUME NEW r \in Renders, Prepare(r) PROVE RedeemedNotExpired'
  BY <1>3 DEF Prepare, Stored, Canceled
<1>4. ASSUME NEW r \in Renders, GiveUpWaiting(r) PROVE RedeemedNotExpired'
  BY <1>4 DEF GiveUpWaiting
<1>5. ASSUME NEW r \in Renders, TakePermit(r) PROVE RedeemedNotExpired'
  BY <1>5 DEF TakePermit
<1>6. ASSUME NEW r \in Renders, BeginRender(r) PROVE RedeemedNotExpired'
  BY <1>6 DEF BeginRender
<1>7. ASSUME NEW r \in Renders, EndRender(r) PROVE RedeemedNotExpired'
  BY <1>7 DEF EndRender
<1>8. ASSUME NEW r \in Renders, StartCompletion(r) PROVE RedeemedNotExpired'
  BY <1>8 DEF StartCompletion, StopsCompleting, Cancel
<1>9. ASSUME NEW r \in Renders, Validate(r) PROVE RedeemedNotExpired'
  BY <1>9 DEF Validate, StopsCompleting, Cancel
<1>10. ASSUME NEW r \in Renders, FinishCompletion(r) PROVE RedeemedNotExpired'
  BY <1>10 DEF FinishCompletion, StopsCompleting, Cancel
<1>11. ASSUME NEW r \in Renders, ReturnPermit(r) PROVE RedeemedNotExpired'
  BY <1>11 DEF ReturnPermit
<1>12. ASSUME NEW r \in Renders, ReleaseAttempt(r) PROVE RedeemedNotExpired'
  BY <1>12 DEF ReleaseAttempt
<1>13. ASSUME NEW r \in Renders, JoinCallbacks(r) PROVE RedeemedNotExpired'
  BY <1>13 DEF JoinCallbacks, Return
<1>14. ASSUME NEW r \in Renders, Redeem(r) PROVE RedeemedNotExpired'
  BY <1>14 DEF Redeem, HandOut, Cancel
<1>15. ASSUME NEW r \in Renders, StopExpiry(r) PROVE RedeemedNotExpired'
  BY <1>15 DEF StopExpiry
<1>16. ASSUME NEW r \in Renders, NEW timer \in {"deadline", "expiry"}, Fire(r, timer) PROVE RedeemedNotExpired'
  BY <1>16 DEF Fire
<1>17. ASSUME NEW r \in Renders, NEW c \in Callbacks, RunCallback(r, c) PROVE RedeemedNotExpired'
  BY <1>17 DEF RunCallback, ExpireCapability, Cancel
<1>18. ASSUME NEW r \in Renders, CallerGoes(r) PROVE RedeemedNotExpired'
  BY <1>18 DEF CallerGoes
<1>19. CASE StartClose
  BY <1>19 DEF StartClose, Cancel
<1>20. CASE FinishClose
  BY <1>20 DEF FinishClose
<1>21. CASE UNCHANGED vars
  BY <1>21 DEF vars
<1> QED
  BY <1>1, <1>2, <1>3, <1>4, <1>5, <1>6, <1>7, <1>8, <1>9, <1>10, <1>11, <1>12, <1>13, <1>14, <1>15, <1>16, <1>17, <1>18, <1>19, <1>20, <1>21 DEF Next, Render, Page, Timers

\* What has been stopped or has run does not start again.
LEMMA CallbacksStep == TypeOK /\ Untouched /\ RenderJoinsCallbacks /\ [Next]_vars => RenderJoinsCallbacks'
<1> SUFFICES ASSUME TypeOK, Untouched, RenderJoinsCallbacks, [Next]_vars PROVE RenderJoinsCallbacks'
  OBVIOUS
<1> USE DEF TypeOK, Untouched, RenderJoinsCallbacks, Callbacks, Goes, Returns, Keep, Remove, outside
<1>1. ASSUME NEW r \in Renders, Admit(r) PROVE RenderJoinsCallbacks'
  BY <1>1 DEF Admit
<1>2. ASSUME NEW r \in Renders, Refuse(r) PROVE RenderJoinsCallbacks'
  BY <1>2 DEF Refuse
<1>3. ASSUME NEW r \in Renders, Prepare(r) PROVE RenderJoinsCallbacks'
  BY <1>3 DEF Prepare, Stored, Canceled
<1>4. ASSUME NEW r \in Renders, GiveUpWaiting(r) PROVE RenderJoinsCallbacks'
  BY <1>4 DEF GiveUpWaiting
<1>5. ASSUME NEW r \in Renders, TakePermit(r) PROVE RenderJoinsCallbacks'
  BY <1>5 DEF TakePermit
<1>6. ASSUME NEW r \in Renders, BeginRender(r) PROVE RenderJoinsCallbacks'
  BY <1>6 DEF BeginRender
<1>7. ASSUME NEW r \in Renders, EndRender(r) PROVE RenderJoinsCallbacks'
  BY <1>7 DEF EndRender
<1>8. ASSUME NEW r \in Renders, StartCompletion(r) PROVE RenderJoinsCallbacks'
  BY <1>8 DEF StartCompletion, StopsCompleting, Cancel
<1>9. ASSUME NEW r \in Renders, Validate(r) PROVE RenderJoinsCallbacks'
  BY <1>9 DEF Validate, StopsCompleting, Cancel
<1>10. ASSUME NEW r \in Renders, FinishCompletion(r) PROVE RenderJoinsCallbacks'
  BY <1>10 DEF FinishCompletion, StopsCompleting, Cancel
<1>11. ASSUME NEW r \in Renders, ReturnPermit(r) PROVE RenderJoinsCallbacks'
  BY <1>11 DEF ReturnPermit
<1>12. ASSUME NEW r \in Renders, ReleaseAttempt(r) PROVE RenderJoinsCallbacks'
  BY <1>12 DEF ReleaseAttempt
<1>13. ASSUME NEW r \in Renders, JoinCallbacks(r) PROVE RenderJoinsCallbacks'
  BY <1>13 DEF JoinCallbacks, Return
<1>14. ASSUME NEW r \in Renders, Redeem(r) PROVE RenderJoinsCallbacks'
  BY <1>14 DEF Redeem, Presented, HandOut
<1>15. ASSUME NEW r \in Renders, StopExpiry(r) PROVE RenderJoinsCallbacks'
  BY <1>15 DEF StopExpiry
<1>16. ASSUME NEW r \in Renders, NEW timer \in {"deadline", "expiry"}, Fire(r, timer) PROVE RenderJoinsCallbacks'
  BY <1>16 DEF Fire
<1>17. ASSUME NEW r \in Renders, NEW c \in Callbacks, RunCallback(r, c) PROVE RenderJoinsCallbacks'
  BY <1>17 DEF RunCallback, ExpireCapability, Cancel
<1>18. ASSUME NEW r \in Renders, CallerGoes(r) PROVE RenderJoinsCallbacks'
  BY <1>18 DEF CallerGoes
<1>19. CASE StartClose
  BY <1>19 DEF StartClose, Cancel
<1>20. CASE FinishClose
  BY <1>20 DEF FinishClose
<1>21. CASE UNCHANGED vars
  BY <1>21 DEF vars
<1> QED
  BY <1>1, <1>2, <1>3, <1>4, <1>5, <1>6, <1>7, <1>8, <1>9, <1>10, <1>11, <1>12, <1>13, <1>14, <1>15, <1>16, <1>17, <1>18, <1>19, <1>20, <1>21 DEF Next, Render, Page, Timers

-----------------------------------------------------------------------------
(* The theorems.                                                           *)

LEMMA InvStep == IInv /\ [Next]_vars => IInv'
BY TypeStep, PermitStep, JobsStep, CloseStep, UntouchedStep, CapabilityStep, ExpiryStep, CallbacksStep
   DEF IInv

\* The inductive invariant holds in every state.
THEOREM Invariant == Spec => []IInv
BY InvInit, InvStep, PTL DEF Spec

\* Types, for any number of calls.
THEOREM TypeCorrect == Spec => []TypeOK
<1>1. IInv => TypeOK
  BY DEF IInv
<1> QED
  BY <1>1, Invariant, PTL

\* The permit is in its channel or with one call, however calls end.
THEOREM OnePermit == Spec => []PermitConserved
<1>1. IInv => PermitConserved
  BY DEF IInv
<1> QED
  BY <1>1, Invariant, PTL

\* No job with live authority survives the cancellation of its attempt, and none
\* is installed after it.
THEOREM OnlyLiveJobs == Spec => []JobsAreLive
<1>1. IInv => JobsAreLive
  BY DEF IInv
<1> QED
  BY <1>1, Invariant, PTL

\* An expiry that fires after Redeem took the capability cancels nothing.
THEOREM RedeemBeatsExpiry == Spec => []RedeemedNotExpired
<1>1. IInv => RedeemedNotExpired
  BY DEF IInv
<1> QED
  BY <1>1, Invariant, PTL

\* A call of Render leaves no callback behind.
THEOREM CallbacksJoined == Spec => []RenderJoinsCallbacks
<1>1. IInv => RenderJoinsCallbacks
  BY DEF IInv
<1> QED
  BY <1>1, Invariant, PTL

\* Close returns with the queue empty and the permit home, for good.
THEOREM ClosedForGood == Spec => []CloseIsFinal
<1>1. IInv => CloseIsFinal
  <2> SUFFICES ASSUME IInv, close = "joined" PROVE Attempts = {} /\ permit
    BY DEF CloseIsFinal
  <2>1. Attempts = {}
    BY DEF IInv, CloseHasAll
  <2>2. \A r \in Renders : call[r] \notin Permitted
    BY <2>1 DEF Attempts, Admitted
  <2> QED
    BY <2>1, <2>2 DEF IInv, TypeOK, PermitConserved
<1> QED
  BY <1>1, Invariant, PTL

\* The last step of a completion publishes only what nobody has canceled and one
\* page has seen.
THEOREM PublishesAuthorized == Spec => ArtifactsAuthorized
<1> DEFINE A == \A r \in Renders :
      answer'[r] = "artifact" /\ answer[r] # "artifact" => ~Canceled(r) /\ ~Closed /\ handed[r] = 1
<1>1. ASSUME IInv, [Next]_vars PROVE [A]_vars
  <2> USE DEF Goes, Returns
  <2>0. TypeOK /\ JobsAreLive /\ CapabilityTold
    BY <1>1 DEF IInv
  <2>1. ASSUME NEW r \in Renders, FinishCompletion(r) PROVE A
    <3>1. CASE StopsCompleting(r)
      BY <2>0, <2>1, <3>1 DEF TypeOK, StopsCompleting
    <3>2. CASE Stored(r) /\ ~Canceled(r) /\ Returns(r, "artifact", "leaving")
      <4>1. ~Closed /\ handed[r] = 1
        BY <2>0, <2>1, <3>2 DEF JobsAreLive, CapabilityTold, FinishCompletion
      <4> QED
        BY <2>0, <3>2, <4>1 DEF TypeOK
    <3> QED
      BY <2>1, <3>1, <3>2 DEF FinishCompletion
  <2>2. ASSUME NEW r \in Renders,
               Admit(r) \/ Refuse(r) \/ Prepare(r) \/ GiveUpWaiting(r) \/ TakePermit(r) \/ BeginRender(r)
        PROVE  A
    BY <2>0, <2>2 DEF TypeOK, Admit, Refuse, Prepare, GiveUpWaiting, TakePermit, BeginRender
  <2>3. ASSUME NEW r \in Renders,
               \/ EndRender(r) \/ StartCompletion(r) \/ Validate(r)
               \/ ReturnPermit(r) \/ ReleaseAttempt(r) \/ JoinCallbacks(r)
        PROVE  A
    BY <2>0, <2>3 DEF TypeOK, EndRender, StartCompletion, Validate, StopsCompleting, ReturnPermit,
       ReleaseAttempt, JoinCallbacks, Return
  <2>4. CASE Aside
    BY <2>4, AsidesKeepCalls
  <2>5. CASE UNCHANGED vars
    BY <2>5
  <2> QED
    BY <1>1, <2>1, <2>2, <2>3, <2>4, <2>5 DEF Next, Render, Aside
<1> QED
  BY <1>1, Invariant, PTL DEF Spec, ArtifactsAuthorized

\* A snapshot is handed to one page at most, in time, and never after its attempt
\* was canceled or Close has begun.
THEOREM HandsOutOnce == Spec => SnapshotsHandedOnce
<1> DEFINE A == \A r \in Renders :
      handed'[r] # handed[r] => /\ handed[r] = 0
                                /\ ~Canceled(r) /\ ~Closed
                                /\ callback[r]["expiry"] = "armed"
<1>1. ASSUME IInv, [Next]_vars PROVE [A]_vars
  <2>0. TypeOK /\ JobsAreLive /\ CapabilityTold
    BY <1>1 DEF IInv
  <2>1. ASSUME NEW r \in Renders, Redeem(r) PROVE A
    <3>1. CASE UNCHANGED handed
      BY <3>1
    <3>2. CASE ~Canceled(r) /\ HandOut(r)
      <4>1. handed[r] = 0 /\ ~Closed /\ callback[r]["expiry"] = "armed"
        BY <2>0, <2>1 DEF JobsAreLive, CapabilityTold, Redeem, Presented, Stored
      <4> QED
        BY <2>0, <3>2, <4>1 DEF TypeOK, HandOut
    <3> QED
      BY <2>1, <3>1, <3>2 DEF Redeem
  <2>2. CASE UNCHANGED handed
    BY <2>2
  <2>3. ASSUME NEW r \in Renders, Render(r) PROVE UNCHANGED handed
    BY <2>3 DEF Render, Admit, Refuse, Prepare, GiveUpWaiting, TakePermit, BeginRender, EndRender,
       StartCompletion, Validate, FinishCompletion, ReturnPermit, ReleaseAttempt, JoinCallbacks, Return,
       outside
  <2>4. ASSUME NEW r \in Renders, StopExpiry(r) \/ Timers(r) \/ CallerGoes(r) PROVE UNCHANGED handed
    BY <2>4 DEF StopExpiry, Timers, Fire, RunCallback, CallerGoes, outside
  <2>5. CASE StartClose \/ FinishClose
    BY <2>2, <2>5 DEF StartClose, FinishClose
  <2>6. CASE UNCHANGED vars
    BY <2>6
  <2> QED
    BY <1>1, <2>1, <2>2, <2>3, <2>4, <2>5, <2>6 DEF Next, Page
<1> QED
  BY <1>1, Invariant, PTL DEF Spec, SnapshotsHandedOnce

\* The queue never holds more calls than its capacity, and background renders,
\* which enter behind few others only, cannot fill it by themselves when the
\* capacity is larger than what they may take.
THEOREM AdmissionIsBounded == Spec => []AdmissionBounded
<1> DEFINE Low == Attempts \cap LowPriority
<1>0. Attempts \subseteq Renders /\ IsFiniteSet(Attempts) /\ IsFiniteSet(Low)
  BY FiniteAssumption, FS_Subset DEF Attempts
<1>1. Init => AdmissionBounded
  <2> SUFFICES ASSUME Init PROVE AdmissionBounded
    OBVIOUS
  <2>1. Attempts = {} /\ Attempts \cap LowPriority = {}
    BY DEF Init, Attempts, Admitted, Permitted
  <2> QED
    BY <2>1, FS_EmptySet, CapacityAssumption DEF AdmissionBounded
<1>2. ASSUME TypeOK, AdmissionBounded, [Next]_vars PROVE AdmissionBounded'
  <2>0. /\ Cardinality(Attempts) \in Nat /\ Cardinality(Low) \in Nat
        /\ Cardinality(Low) <= Cardinality(Attempts)
    BY <1>0, FS_CardinalityType, FS_Subset
  <2>1. ASSUME Attempts' \subseteq Attempts PROVE AdmissionBounded'
    <3>1. /\ Cardinality(Attempts') <= Cardinality(Attempts) /\ Cardinality(Attempts') \in Nat
          /\ Cardinality(Low') <= Cardinality(Low) /\ Cardinality(Low') \in Nat
      BY <1>0, <2>1, FS_Subset, FS_CardinalityType
    <3> QED
      BY <1>2, <2>0, <3>1, CapacityAssumption DEF AdmissionBounded
  <2>2. ASSUME NEW r \in Renders, Admit(r) PROVE AdmissionBounded'
    <3>1. Attempts' = Attempts \cup {r}
      BY <1>2, <2>2 DEF TypeOK, Admit, Goes, Attempts, Admitted, Permitted
    <3>2. Cardinality(Attempts') <= Cardinality(Attempts) + 1 /\ Cardinality(Attempts') \in Nat
      <4>1. \/ Cardinality(Attempts \cup {r}) = Cardinality(Attempts)
            \/ Cardinality(Attempts \cup {r}) = Cardinality(Attempts) + 1
        BY <1>0, FS_AddElement
      <4> QED
        BY <2>0, <3>1, <4>1
    <3>3. Cardinality(Attempts) < Capacity
      BY <2>2 DEF Admit, Fits
    <3>4. CASE r \in LowPriority
      <4>1. Cardinality(Attempts) <= 1 + LowPriorityMaxWaiting
        BY <2>2, <3>4 DEF Admit, Fits
      <4>2. IsFiniteSet(Attempts')
        BY <1>0, <3>1, FS_AddElement
      <4>3. Cardinality(Low') <= Cardinality(Attempts') /\ Cardinality(Low') \in Nat
        BY <4>2, FS_Subset, FS_CardinalityType
      <4> QED
        BY <2>0, <3>2, <3>3, <4>1, <4>3, CapacityAssumption DEF AdmissionBounded
    <3>5. CASE r \notin LowPriority
      <4>1. Low' = Low
        BY <3>1, <3>5
      <4>2. Cardinality(Low') <= 2 + LowPriorityMaxWaiting
        BY <1>2, <4>1 DEF AdmissionBounded
      <4> HIDE DEF Low
      <4>3. Cardinality(Attempts') <= Capacity
        BY <2>0, <3>2, <3>3, CapacityAssumption
      <4> QED
        BY <4>2, <4>3 DEF AdmissionBounded, Low
    <3> QED
      BY <3>4, <3>5
  <2>3. ASSUME NEW r \in Renders,
               Refuse(r) \/ Prepare(r) \/ GiveUpWaiting(r) \/ TakePermit(r) \/ BeginRender(r) \/ EndRender(r)
        PROVE  Attempts' \subseteq Attempts
    BY <1>2, <2>3 DEF TypeOK, Attempts, Admitted, Permitted, Goes, Returns, Refuse, Prepare,
       GiveUpWaiting, TakePermit, BeginRender, EndRender
  <2>4. ASSUME NEW r \in Renders,
               \/ StartCompletion(r) \/ Validate(r) \/ FinishCompletion(r)
               \/ ReturnPermit(r) \/ ReleaseAttempt(r) \/ JoinCallbacks(r)
        PROVE  Attempts' \subseteq Attempts
    BY <1>2, <2>4 DEF TypeOK, Attempts, Admitted, Permitted, Goes, Returns, StartCompletion, Validate,
       FinishCompletion, StopsCompleting, ReturnPermit, ReleaseAttempt, JoinCallbacks, Return
  <2>5. Aside \/ UNCHANGED vars => Attempts' \subseteq Attempts
    BY AsidesKeepCalls DEF vars, Attempts
  <2> QED
    BY <1>2, <2>1, <2>2, <2>3, <2>4, <2>5 DEF Next, Render, Aside
<1> QED
  BY <1>1, <1>2, TypeCorrect, PTL DEF Spec
=============================================================================

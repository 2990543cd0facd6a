--------------------------- MODULE AuthMail_proofs ---------------------------
(***************************************************************************)
(* Theorems about AuthMail for any number of jobs and workers, any batch   *)
(* and attempt limit, and any number of faults, with their proofs.         *)
(***************************************************************************)
EXTENDS AuthMail, TLAPS

JobRecord == [state : {"new", "pending", "leased", "sent", "terminal", "gone"},
              attempts : 0..MaxAttempts, owner : Workers \cup {Nobody, Departed},
              due : BOOLEAN, lapsed : BOOLEAN]
SendRecord == [phase : SendPhases, lapsed : BOOLEAN, expired : BOOLEAN]
MailRecord == [accepted : Nat, unrecorded : Nat, failed : Nat]

\* The empty records and the phases' sets are what they look like.
LEMMA Records ==
    /\ \A s \in {"new", "pending", "leased", "sent", "terminal", "gone"} : NoJob(s) \in JobRecord
    /\ NoSend \in SendRecord
    /\ NoMail \in MailRecord
    /\ JobLocking \subseteq ScopeLocking
    /\ NoSend.phase \notin ScopeLocking
    /\ \A t \in TokenJobs : ScopeOf(t) = t /\ t # User
    /\ \A n \in Notices : ScopeOf(n) = User
BY MaxAttemptsAssumption, JobsAssumption
   DEF Jobs, NoJob, JobRecord, NoSend, SendRecord, SendPhases, NoMail, MailRecord, JobLocking,
       ScopeLocking, Results, ScopeOf

\* Deleting jobs keeps the rows well typed.
LEMMA Without ==
    ASSUME TypeOK, NEW D
    PROVE  WithoutJobs(D) \in [Jobs -> JobRecord] /\ WithoutMail(D) \in [Jobs -> MailRecord]
BY Records DEF TypeOK, WithoutJobs, WithoutMail, JobRecord, MailRecord

\* A row stays a row when it is enqueued, ends or is requeued after a failure.
LEMMA RowChanges ==
    ASSUME NEW r \in JobRecord
    PROVE  /\ Enqueued(r) \in JobRecord
           /\ Requeued(r) \in JobRecord
           /\ Ended(r, "sent") \in JobRecord
           /\ Ended(r, "terminal") \in JobRecord
BY DEF Enqueued, Requeued, Ended, NoJob, JobRecord

\* Or when a flag of it is set, or its lease owner leaves.
LEMMA FlagTyped ==
    ASSUME NEW r \in JobRecord
    PROVE  /\ [r EXCEPT !.due = TRUE] \in JobRecord
           /\ [r EXCEPT !.lapsed = TRUE] \in JobRecord
           /\ [r EXCEPT !.owner = Departed] \in JobRecord
BY DEF JobRecord

\* So does a job's history when the provider accepts its mail.
LEMMA MailChange ==
    ASSUME NEW r \in MailRecord, NEW a \in Nat, NEW u \in Nat
    PROVE  [r EXCEPT !.accepted = a, !.unrecorded = u] \in MailRecord
BY DEF MailRecord

-----------------------------------------------------------------------------
(* Typing.  The attempt counts stay in range because they count failures.  *)

\* An empty queue is well typed.
LEMMA TypeInit == Init => TypeOK
BY Records, MaxFaultsAssumption DEF Init, TypeOK, JobRecord, SendRecord, MailRecord

\* Every step keeps the queue, the workers and the history well typed.
LEMMA TypeStep == TypeOK /\ AttemptsCountFailures /\ [Next]_vars => TypeOK'
<1> SUFFICES ASSUME TypeOK, AttemptsCountFailures, [Next]_vars PROVE TypeOK'
  OBVIOUS
<1> DEFINE Typed ==
      /\ rows \subseteq TokenJobs \cup {User}
      /\ job \in [Jobs -> JobRecord]
      /\ expired \subseteq Jobs
      /\ step \in [Workers -> {"requeue", "tokens", "finished", "claim", "send"}]
      /\ send \in [Workers -> [Jobs -> SendRecord]]
      /\ mail \in [Jobs -> MailRecord]
      /\ faults \in 0..MaxFaults
<1> SUFFICES Typed'
  BY DEF TypeOK, JobRecord, SendRecord, MailRecord
<1>0. Typed
  BY DEF TypeOK, JobRecord, SendRecord, MailRecord
<1>00. \A j \in Jobs : /\ job[j].attempts \in 0..MaxAttempts
                       /\ mail[j].failed \in Nat
                       /\ mail[j].accepted \in Nat
                       /\ mail[j].unrecorded \in Nat
  BY <1>0 DEF JobRecord, MailRecord
<1>01. \A j \in Jobs : /\ job[j].state = "pending" => job[j].attempts = mail[j].failed
                       /\ job[j].state = "leased" => job[j].attempts = mail[j].failed + 1
                       /\ Live(j) => mail[j].failed < MaxAttempts
  BY <1>00 DEF AttemptsCountFailures, Live
<1> HIDE DEF AttemptsCountFailures
<1>1. TokenJobs \subseteq Jobs /\ Notices \subseteq Jobs
  BY DEF Jobs
<1> HIDE DEF TypeOK
<1>2. ASSUME NEW t \in TokenJobs, RequestReset(t) PROVE Typed'
  <2> DEFINE base == WithoutJobs(rows \ {User})
  <2>1. base \in [Jobs -> JobRecord] /\ WithoutMail(rows \ {User}) \in [Jobs -> MailRecord]
    BY Without
  <2>2. Enqueued(base[t]) \in JobRecord
    BY <2>1, <1>1, RowChanges
  <2>3. job' = [base EXCEPT ![t] = Enqueued(base[t])]
    BY <1>2, <2>1, <1>1 DEF RequestReset
  <2> HIDE DEF base
  <2>4. job' \in [Jobs -> JobRecord]
    BY <2>1, <2>2, <2>3
  <2> QED
    BY <1>0, <1>2, <2>1, <2>4 DEF RequestReset
<1>3. ASSUME NEW t \in TokenJobs, NEW n \in Notices, UseResetLink(t, n) PROVE Typed'
  <2> DEFINE base == WithoutJobs({t})
  <2>1. base \in [Jobs -> JobRecord] /\ WithoutMail({t}) \in [Jobs -> MailRecord]
    BY Without
  <2>2. Enqueued(base[n]) \in JobRecord
    BY <2>1, <1>1, RowChanges
  <2>3. job' = [base EXCEPT ![n] = Enqueued(base[n])]
    BY <1>3, <2>1, <1>1 DEF UseResetLink
  <2> HIDE DEF base
  <2>4. job' \in [Jobs -> JobRecord]
    BY <2>1, <2>2, <2>3
  <2> QED
    BY <1>0, <1>3, <2>1, <2>4 DEF UseResetLink
<1>4. ASSUME NEW n \in Notices, ChangePassword(n) PROVE Typed'
  <2>1. Enqueued(job[n]) \in JobRecord
    BY <1>0, <1>1, RowChanges
  <2>2. job' \in [Jobs -> JobRecord]
    BY <1>0, <1>4, <2>1 DEF ChangePassword
  <2> QED
    BY <1>0, <1>4, <2>2 DEF ChangePassword
<1>5. CASE DeleteAccount
  BY <1>0, <1>5, Without DEF DeleteAccount
<1>6. ASSUME NEW w \in Workers, RequeueExpired(w) PROVE Typed'
  <2>1. ASSUME NEW j \in Jobs, job[j].state = "leased"
        PROVE  Recover(job[j]) \in JobRecord
    <3>1. job[j] \in JobRecord
      BY <1>0
    <3>2. job[j].attempts - 1 \in 0..MaxAttempts
      BY <1>00, <1>01, <2>1, MaxAttemptsAssumption DEF Live
    <3> QED
      BY <3>1, <3>2 DEF JobRecord, Recover
  <2>2. job' \in [Jobs -> JobRecord]
    BY <1>0, <1>6, <2>1 DEF RequeueExpired, Recoverable
  <2> QED
    BY <1>0, <1>6, <2>2 DEF RequeueExpired
<1>7. ASSUME NEW w \in Workers, CleanupTokens(w) PROVE Typed'
  BY <1>0, <1>7, Without DEF CleanupTokens
<1>8. ASSUME NEW w \in Workers, CleanupFinished(w) PROVE Typed'
  BY <1>0, <1>8, Without DEF CleanupFinished
<1>9. ASSUME NEW w \in Workers, Claim(w) PROVE Typed'
  <2>0. PICK batch \in SUBSET {j \in Jobs : job[j].state = "pending" /\ job[j].due /\ ~JobLocked(j)} :
        /\ step' = [step EXCEPT ![w] = "send"]
        /\ job' = [j \in Jobs |->
                     IF j \in batch
                     THEN [job[j] EXCEPT !.state = "leased", !.attempts = @ + 1,
                                         !.owner = w, !.due = FALSE]
                     ELSE job[j]]
        /\ send' = [send EXCEPT ![w] = [j \in Jobs |->
                      IF j \in batch THEN [NoSend EXCEPT !.phase = "queued"] ELSE @[j]]]
        /\ UNCHANGED <<rows, expired, mail, faults>>
    BY <1>9 DEF Claim
  <2>1. ASSUME NEW j \in batch
        PROVE  [job[j] EXCEPT !.state = "leased", !.attempts = @ + 1, !.owner = w,
                              !.due = FALSE] \in JobRecord
    <3>1. j \in Jobs /\ job[j].state = "pending" /\ job[j] \in JobRecord
      BY <1>0
    <3>2. job[j].attempts = mail[j].failed /\ mail[j].failed \in Nat
      BY <1>00, <1>01, <3>1
    <3>3. mail[j].failed < MaxAttempts
      BY <1>01, <3>1 DEF Live
    <3>4. job[j].attempts + 1 \in 0..MaxAttempts
      BY <3>2, <3>3, MaxAttemptsAssumption
    <3> QED
      BY <3>1, <3>4 DEF JobRecord
  <2>2. job' \in [Jobs -> JobRecord]
    BY <1>0, <2>0, <2>1
  <2>3. [NoSend EXCEPT !.phase = "queued"] \in SendRecord
    BY DEF SendRecord, NoSend, SendPhases
  <2>4. send' \in [Workers -> [Jobs -> SendRecord]]
    BY <1>0, <2>0, <2>3
  <2> QED
    BY <1>0, <2>0, <2>2, <2>4
<1>10. ASSUME NEW w \in Workers, Join(w) PROVE Typed'
  BY <1>0, <1>10 DEF Join
<1>11. ASSUME NEW w \in Workers, NEW j \in Jobs, StartSend(w, j) PROVE Typed'
  <2>1. [phase |-> "started", lapsed |-> job[j].lapsed, expired |-> j \in expired] \in SendRecord
    BY <1>0 DEF SendRecord, SendPhases, JobRecord
  <2> QED
    BY <1>0, <1>11, <2>1 DEF StartSend
<1>12. \A w \in Workers, j \in Jobs : Ends(w, j) => send' \in [Workers -> [Jobs -> SendRecord]]
  BY <1>0, Records DEF Ends
<1>13. \A j \in Jobs : Terminated(j) \in [Jobs -> JobRecord]
  <2> TAKE j \in Jobs
  <2>1. Ended(job[j], "terminal") \in JobRecord
    BY <1>0, RowChanges
  <2> QED
    BY <1>0, <2>1 DEF Terminated
<1>14. ASSUME NEW w \in Workers, NEW j \in Jobs, NEW p \in SendPhases,
              send' = [send EXCEPT ![w][j].phase = p]
       PROVE  send' \in [Workers -> [Jobs -> SendRecord]]
  <2>1. [send[w][j] EXCEPT !.phase = p] \in SendRecord
    <3>1. send[w][j] \in SendRecord
      BY <1>0
    <3> QED
      BY <3>1 DEF SendRecord
  <2>2. send' = [send EXCEPT ![w] = [send[w] EXCEPT ![j] = [send[w][j] EXCEPT !.phase = p]]]
    BY <1>14
  <2> QED
    BY <1>0, <2>1, <2>2
<1>15. ASSUME NEW w \in Workers, NEW j \in Jobs, LockScope(w, j) PROVE Typed'
  BY <1>0, <1>12, <1>13, <1>14, <1>15 DEF LockScope, SendPhases, ScopeLocking
<1>16. ASSUME NEW w \in Workers, NEW j \in Jobs, Authorize(w, j) PROVE Typed'
  BY <1>0, <1>14, <1>16 DEF Authorize, SendPhases, ScopeLocking, JobLocking
<1>17. ASSUME NEW w \in Workers, NEW j \in Jobs, Decline(w, j) PROVE Typed'
  BY <1>0, <1>12, <1>17 DEF Decline
<1>18. ASSUME NEW w \in Workers, NEW j \in Jobs, EndExpired(w, j) PROVE Typed'
  BY <1>0, <1>12, <1>13, <1>18 DEF EndExpired
<1>19. ASSUME NEW w \in Workers, NEW j \in Jobs, Deliver(w, j) PROVE Typed'
  <2>1. PICK result \in Results : send' = [send EXCEPT ![w][j].phase = result]
    BY <1>19 DEF Deliver
  <2>2. result \in SendPhases
    BY DEF SendPhases, ScopeLocking, JobLocking
  <2>3. mail' \in [Jobs -> MailRecord]
    <3>1. ASSUME NEW u \in Nat
          PROVE  [mail[j] EXCEPT !.accepted = mail[j].accepted + 1,
                                 !.unrecorded = u] \in MailRecord
      <4>1. mail[j] \in MailRecord /\ mail[j].accepted + 1 \in Nat
        BY <1>0, <1>00
      <4> HIDE DEF MailRecord
      <4> QED
        BY <4>1, MailChange
    <3>2. PICK result_ \in Results, taken \in BOOLEAN :
            mail' = IF ~taken THEN mail
                    ELSE [mail EXCEPT ![j].accepted = @ + 1,
                                      ![j].unrecorded = IF result_ = "accepted" THEN @ ELSE @ + 1]
      BY <1>19 DEF Deliver
    <3> DEFINE u == IF result_ = "accepted" THEN mail[j].unrecorded ELSE mail[j].unrecorded + 1
    <3>3. u \in Nat
      BY <1>00
    <3>4. CASE taken
      <4>1. mail' = [mail EXCEPT ![j] = [mail[j] EXCEPT !.accepted = mail[j].accepted + 1,
                                                        !.unrecorded = u]]
        BY <1>0, <3>2, <3>4
      <4> QED
        BY <1>0, <3>1, <3>3, <4>1
    <3> QED
      BY <1>0, <3>2, <3>4
  <2> QED
    BY <1>0, <1>14, <1>19, <2>1, <2>2, <2>3 DEF Deliver
<1>20. ASSUME NEW w \in Workers, NEW j \in Jobs, Settle(w, j) PROVE Typed'
  <2>1. \A tooLate \in BOOLEAN : AfterFailure(job[j], tooLate) \in JobRecord
    BY <1>0, RowChanges DEF AfterFailure
  <2>2. Ended(job[j], "sent") \in JobRecord /\ Ended(job[j], "terminal") \in JobRecord
    BY <1>0, RowChanges
  <2>3. job' \in [Jobs -> JobRecord]
    BY <1>0, <1>20, <2>1, <2>2 DEF Settle, Results
  <2>4. mail' \in [Jobs -> MailRecord]
    BY <1>0, <1>20 DEF Settle, MailRecord
  <2> QED
    BY <1>0, <1>12, <1>20, <2>3, <2>4 DEF Settle
<1>21. \A W, J : Forgotten(W, J) \in [Jobs -> MailRecord]
  BY <1>0 DEF Forgotten, MailRecord
<1>22. Fault => faults' \in 0..MaxFaults
  BY <1>0, MaxFaultsAssumption DEF Fault
<1>23. ASSUME NEW w \in Workers, NEW j \in Jobs, AbortSend(w, j) PROVE Typed'
  BY <1>0, <1>12, <1>21, <1>22, <1>23 DEF AbortSend
<1>24. ASSUME NEW w \in Workers, AbortTick(w) PROVE Typed'
  BY <1>0, <1>22, <1>24 DEF AbortTick
<1>25. ASSUME NEW w \in Workers, Crash(w) PROVE Typed'
  <2>1. job' \in [Jobs -> JobRecord]
    <3>1. \A j \in Jobs : [job[j] EXCEPT !.owner = Departed] \in JobRecord
      BY <1>0, FlagTyped
    <3> QED
      BY <1>0, <1>25, <3>1 DEF Crash
  <2>2. send' \in [Workers -> [Jobs -> SendRecord]]
    BY <1>0, <1>25, Records DEF Crash
  <2> QED
    BY <1>0, <1>21, <1>22, <1>25, <2>1, <2>2 DEF Crash
<1>26. ASSUME NEW j \in Jobs, ComesDue(j) PROVE Typed'
  BY <1>0, <1>26, FlagTyped DEF ComesDue
<1>27. ASSUME NEW j \in Jobs, Lapses(j) PROVE Typed'
  BY <1>0, <1>22, <1>27, FlagTyped DEF Lapses
<1>28. ASSUME NEW j \in Jobs, Expires(j) PROVE Typed'
  BY <1>0, <1>28 DEF Expires
<1>29. CASE UNCHANGED vars
  BY <1>0, <1>29 DEF vars
<1> HIDE DEF Typed
<1> QED
  BY <1>2, <1>3, <1>4, <1>5, <1>6, <1>7, <1>8, <1>9, <1>10, <1>11, <1>15, <1>16, <1>17, <1>18,
     <1>19, <1>20, <1>23, <1>24, <1>25, <1>26, <1>27, <1>28, <1>29
     DEF Next, Flows, Tick, Sends, Faults, Time

-----------------------------------------------------------------------------
(* Locks.                                                                  *)

\* A send ends by freeing what it held and no other send's locks change.
LEMMA EndsFrees ==
    ASSUME TypeOK, NEW w \in Workers, NEW j \in Jobs, Ends(w, j)
    PROVE  \A v \in Workers, k \in Jobs : send'[v][k] = IF v = w /\ k = j THEN NoSend ELSE send[v][k]
BY DEF Ends, TypeOK

\* A send that moves to another phase changes no other send.
LEMMA PhaseChange ==
    ASSUME TypeOK, NEW w \in Workers, NEW j \in Jobs, NEW p,
           send' = [send EXCEPT ![w][j].phase = p]
    PROVE  /\ send'[w][j].phase = p
           /\ \A v \in Workers, k \in Jobs : v # w \/ k # j => send'[v][k] = send[v][k]
BY DEF TypeOK

\* A claim queues sends of a worker and changes no other worker's.
LEMMA ClaimQueues ==
    ASSUME TypeOK, NEW w \in Workers, Claim(w)
    PROVE  \A v \in Workers, k \in Jobs :
             \/ send'[v][k] = send[v][k]
             \/ send'[v][k].phase = "queued"
<1>1. PICK batch \in SUBSET Jobs :
        send' = [send EXCEPT ![w] = [j \in Jobs |->
                   IF j \in batch THEN [NoSend EXCEPT !.phase = "queued"] ELSE @[j]]]
  BY DEF Claim
<1>2. [NoSend EXCEPT !.phase = "queued"].phase = "queued"
  BY DEF NoSend
<1> QED
  BY <1>1, <1>2 DEF TypeOK

\* It leases due jobs that nobody holds and leaves the others alone.
LEMMA ClaimedRows ==
    ASSUME TypeOK, NEW w \in Workers, Claim(w), NEW k \in Jobs
    PROVE  \/ job'[k] = job[k] /\ mail'[k] = mail[k] /\ send'[w][k] = send[w][k]
           \/ /\ job[k].state = "pending" /\ ~JobLocked(k)
              /\ job'[k] = [job[k] EXCEPT !.state = "leased", !.attempts = @ + 1,
                                          !.owner = w, !.due = FALSE]
              /\ mail'[k] = mail[k]
              /\ send'[w][k].phase = "queued"
<1>1. PICK batch \in SUBSET {j \in Jobs : job[j].state = "pending" /\ job[j].due /\ ~JobLocked(j)} :
        /\ job' = [j \in Jobs |->
                     IF j \in batch
                     THEN [job[j] EXCEPT !.state = "leased", !.attempts = @ + 1,
                                         !.owner = w, !.due = FALSE]
                     ELSE job[j]]
        /\ send' = [send EXCEPT ![w] = [j \in Jobs |->
                      IF j \in batch THEN [NoSend EXCEPT !.phase = "queued"] ELSE @[j]]]
        /\ mail' = mail
  BY DEF Claim
<1>2. [NoSend EXCEPT !.phase = "queued"].phase = "queued"
  BY DEF NoSend
<1>3. send'[w][k] = IF k \in batch THEN [NoSend EXCEPT !.phase = "queued"] ELSE send[w][k]
  BY <1>1 DEF TypeOK
<1>4. CASE k \in batch
  BY <1>1, <1>2, <1>3, <1>4
<1>5. CASE k \notin batch
  BY <1>1, <1>3, <1>5
<1> QED
  BY <1>4, <1>5

\* The passing of time changes a flag of one job.
LEMMA FlagChange ==
    ASSUME TypeOK, NEW k \in Jobs,
           job' = [job EXCEPT ![k].due = TRUE] \/ job' = [job EXCEPT ![k].lapsed = TRUE],
           NEW j \in Jobs
    PROVE  job'[j].state = job[j].state /\ job'[j].attempts = job[j].attempts
           /\ job'[j].owner = job[j].owner /\ (j # k => job'[j] = job[j])
BY DEF TypeOK

\* The phases in which locks are held, spelled out.
LEMMA LockPhases ==
    /\ \A p \in {"none", "queued", "started"} : p \notin ScopeLocking
    /\ \A p \in Results : p \in JobLocking
    /\ "scoped" \in ScopeLocking /\ "scoped" \notin JobLocking
    /\ "sending" \in JobLocking
    /\ "started" \notin JobLocking /\ "accepted" \in Results
    /\ JobLocking \subseteq ScopeLocking
    /\ NoSend.phase = "none"
BY DEF ScopeLocking, JobLocking, Results, NoSend

\* Scope locks are taken by LockScope only, and job locks by Authorize.
LEMMA LocksTaken ==
    ASSUME TypeOK, [Next]_vars, NEW v \in Workers, NEW k \in Jobs
    PROVE  /\ send'[v][k].phase \in ScopeLocking =>
                send[v][k].phase \in ScopeLocking \/ LockScope(v, k)
           /\ send'[v][k].phase \in JobLocking =>
                send[v][k].phase \in JobLocking \/ Authorize(v, k)
<1> DEFINE Goal ==
      /\ send'[v][k].phase \in ScopeLocking => send[v][k].phase \in ScopeLocking \/ LockScope(v, k)
      /\ send'[v][k].phase \in JobLocking => send[v][k].phase \in JobLocking \/ Authorize(v, k)
<1> SUFFICES Goal
  OBVIOUS
<1>1. CASE send' = send
  BY <1>1
<1>2. ASSUME NEW w \in Workers, NEW j \in Jobs, Ends(w, j) PROVE Goal
  BY <1>2, EndsFrees, LockPhases
<1>3. ASSUME NEW w \in Workers, Claim(w) PROVE Goal
  BY <1>3, ClaimQueues, LockPhases
<1>4. ASSUME NEW w \in Workers, NEW j \in Jobs, StartSend(w, j) PROVE Goal
  BY <1>4, LockPhases DEF StartSend, TypeOK
<1>5. ASSUME NEW w \in Workers, NEW j \in Jobs, LockScope(w, j) PROVE Goal
  BY <1>2, <1>5, PhaseChange, LockPhases DEF LockScope
<1>6. ASSUME NEW w \in Workers, NEW j \in Jobs, Authorize(w, j) PROVE Goal
  <2>1. send' = [send EXCEPT ![w][j].phase = "sending"] /\ send[w][j].phase = "scoped"
    BY <1>6 DEF Authorize
  <2>2. CASE v = w /\ k = j
    BY <1>6, <2>1, <2>2, LockPhases
  <2>3. CASE v # w \/ k # j
    BY <2>1, <2>3, PhaseChange
  <2> QED
    BY <2>2, <2>3
<1>7. ASSUME NEW w \in Workers, NEW j \in Jobs, Deliver(w, j) PROVE Goal
  <2>1. PICK p \in Results : send' = [send EXCEPT ![w][j].phase = p]
    BY <1>7 DEF Deliver
  <2>2. send[w][j].phase \in JobLocking
    BY <1>7, LockPhases DEF Deliver
  <2> QED
    BY <2>1, <2>2, PhaseChange, LockPhases
<1>8. ASSUME NEW w \in Workers, Crash(w) PROVE Goal
  BY <1>8, LockPhases DEF Crash, TypeOK
<1>9. CASE Flows
  BY <1>1, <1>9 DEF Flows, RequestReset, UseResetLink, ChangePassword, DeleteAccount
<1>10. ASSUME NEW w \in Workers, Tick(w) PROVE Goal
  BY <1>1, <1>3, <1>10 DEF Tick, RequeueExpired, CleanupTokens, CleanupFinished, Join
<1>11. ASSUME NEW w \in Workers, NEW j \in Jobs, Sends(w, j) PROVE Goal
  BY <1>2, <1>4, <1>5, <1>6, <1>7, <1>11 DEF Sends, Decline, EndExpired, Settle
<1>12. CASE Faults
  BY <1>1, <1>2, <1>8, <1>12 DEF Faults, AbortTick, AbortSend
<1>13. CASE Time
  BY <1>1, <1>13 DEF Time, ComesDue, Lapses, Expires
<1>14. CASE UNCHANGED vars
  BY <1>1, <1>14 DEF vars
<1> HIDE DEF Goal
<1> QED
  BY <1>9, <1>10, <1>11, <1>12, <1>13, <1>14 DEF Next

\* No step gives a scope row a second holder.
LEMMA ExclusiveStep ==
    ASSUME TypeOK, ScopesExclusive, [Next]_vars
    PROVE  ScopesExclusive'
<1> SUFFICES ASSUME NEW w \in Workers, NEW v \in Workers, NEW j \in Jobs, NEW k \in Jobs,
                    send'[w][j].phase \in ScopeLocking, send'[v][k].phase \in ScopeLocking,
                    ScopeOf(j) = ScopeOf(k)
             PROVE  w = v /\ j = k
  BY DEF ScopesExclusive, ScopeOf
<1>1. ASSUME NEW a \in Workers, NEW b \in Workers, NEW x \in Jobs, NEW y \in Jobs,
             LockScope(a, x), send'[b][y].phase \in ScopeLocking, ScopeOf(x) = ScopeOf(y)
      PROVE  a = b /\ x = y
  <2>1. send[b][y].phase \notin ScopeLocking
    BY <1>1 DEF LockScope, ScopeLocked
  <2>2. send'[b][y] # send[b][y]
    BY <1>1, <2>1
  <2>3. CASE send' = [send EXCEPT ![a][x].phase = "scoped"]
    BY <2>2, <2>3, PhaseChange
  <2>4. CASE Ends(a, x)
    BY <2>2, <2>4, EndsFrees
  <2> QED
    BY <1>1, <2>3, <2>4 DEF LockScope
<1>2. CASE LockScope(w, j)
  BY <1>1, <1>2
<1>3. CASE LockScope(v, k)
  BY <1>1, <1>3
<1>4. CASE send[w][j].phase \in ScopeLocking /\ send[v][k].phase \in ScopeLocking
  BY <1>4 DEF ScopesExclusive
<1> QED
  BY <1>2, <1>3, <1>4, LocksTaken

\* No step takes a row away that is held.
LEMMA RowsStep ==
    ASSUME TypeOK, HeldRowsStay, [Next]_vars
    PROVE  HeldRowsStay'
<1> SUFFICES ASSUME NEW w \in Workers, NEW j \in Jobs, send'[w][j].phase \in ScopeLocking
             PROVE  ScopeOf(j) \in rows'
  BY DEF HeldRowsStay, ScopeOf
<1>1. CASE LockScope(w, j)
  BY <1>1, EndsFrees, LockPhases DEF LockScope
<1>2. CASE send[w][j].phase \in ScopeLocking
  <2>1. ScopeOf(j) \in rows /\ ScopeLocked(ScopeOf(j))
    BY <1>2 DEF HeldRowsStay, ScopeLocked
  <2>2. CASE rows' = rows
    BY <2>1, <2>2
  <2>3. CASE Flows
    BY <2>1, <2>2, <2>3 DEF Flows, RequestReset, UseResetLink, ChangePassword, DeleteAccount
  <2>4. ASSUME NEW v \in Workers, CleanupTokens(v) PROVE ScopeOf(j) \in rows'
    BY <2>1, <2>4 DEF CleanupTokens
  <2>5. ASSUME NEW v \in Workers, Tick(v) PROVE ScopeOf(j) \in rows'
    BY <2>2, <2>4, <2>5 DEF Tick, RequeueExpired, CleanupFinished, Claim, Join
  <2>6. ASSUME NEW v \in Workers, NEW k \in Jobs, Sends(v, k) PROVE ScopeOf(j) \in rows'
    BY <2>2, <2>6 DEF Sends, StartSend, LockScope, Authorize, Decline, EndExpired, Deliver, Settle
  <2>7. CASE Faults
    BY <2>2, <2>7 DEF Faults, AbortTick, AbortSend, Crash
  <2>8. CASE Time
    BY <2>2, <2>8 DEF Time, ComesDue, Lapses, Expires
  <2>9. CASE UNCHANGED vars
    BY <2>2, <2>9 DEF vars
  <2> QED
    BY <2>3, <2>5, <2>6, <2>7, <2>8, <2>9 DEF Next
<1> QED
  BY <1>1, <1>2, LocksTaken

\* The steps between two actors: every lock is respected.
Locks == ScopesExclusive /\ HeldRowsStay /\ HeldJobsLeased

\* Who holds a job holds its scope row, which is there, and nobody else holds
\* either.
LEMMA HeldFacts ==
    ASSUME TypeOK, Locks, NEW w \in Workers, NEW j \in Jobs, send[w][j].phase \in JobLocking
    PROVE  /\ job[j].state = "leased" /\ job[j].owner = w
           /\ ScopeOf(j) \in rows /\ ScopeLocked(ScopeOf(j)) /\ JobLocked(j)
           /\ \A v \in Workers, k \in Jobs :
                send[v][k].phase \in ScopeLocking /\ ScopeOf(k) = ScopeOf(j) => v = w /\ k = j
BY LockPhases DEF Locks, ScopesExclusive, HeldRowsStay, HeldJobsLeased, Leased, ScopeLocked, JobLocked

\* What the deletions and the writes to one row do to each row.
LEMMA RowsOf ==
    ASSUME TypeOK, NEW k \in Jobs
    PROVE  /\ \A D : /\ WithoutJobs(D)[k] = IF k \in D THEN NoJob("gone") ELSE job[k]
                     /\ WithoutMail(D)[k] = IF k \in D THEN NoMail ELSE mail[k]
           /\ \A j \in Jobs : Terminated(j)[k] =
                IF k = j /\ Live(j) THEN Ended(job[j], "terminal") ELSE job[k]
BY DEF TypeOK, WithoutJobs, WithoutMail, Terminated

\* A flow that deletes a scope row waits for it, so it does not touch a held
\* job, nor does a flow that enqueues one.
LEMMA FlowsSpareHeld ==
    ASSUME TypeOK, Locks, Flows, NEW w \in Workers, NEW j \in Jobs, send[w][j].phase \in JobLocking
    PROVE  job'[j] = job[j]
<1> USE HeldFacts, RowsOf, Records
<1>0. j \in TokenJobs => ScopeOf(j) = j
  OBVIOUS
<1>1. ASSUME NEW t \in TokenJobs, RequestReset(t) PROVE job'[j] = job[j]
  <2>1. j \notin rows \ {User}
    BY <1>1 DEF RequestReset, ScopeOf
  <2>2. j # t
    BY <1>1 DEF RequestReset
  <2>3. job'[j] = WithoutJobs(rows \ {User})[j]
    BY <1>1, <2>2, Without DEF RequestReset
  <2> QED
    BY <2>1, <2>3
<1>2. ASSUME NEW t \in TokenJobs, NEW n \in Notices, UseResetLink(t, n) PROVE job'[j] = job[j]
  <2>1. j # t /\ j # n
    BY <1>2 DEF UseResetLink, ScopeOf
  <2>2. job'[j] = WithoutJobs({t})[j]
    BY <1>2, <2>1, Without DEF UseResetLink
  <2> QED
    BY <2>1, <2>2
<1>3. ASSUME NEW n \in Notices, ChangePassword(n) PROVE job'[j] = job[j]
  BY <1>3 DEF ChangePassword, TypeOK
<1>4. ~DeleteAccount
  BY DEF DeleteAccount
<1> QED
  BY <1>1, <1>2, <1>3, <1>4 DEF Flows

\* A worker's tick skips or waits for held jobs.
LEMMA TickSparesHeld ==
    ASSUME TypeOK, Locks, NEW v \in Workers, Tick(v),
           NEW w \in Workers, NEW j \in Jobs, send[w][j].phase \in JobLocking
    PROVE  job'[j] = job[j]
<1> USE HeldFacts, RowsOf, Records
<1>1. CASE RequeueExpired(v)
  BY <1>1 DEF RequeueExpired, Recoverable, TypeOK
<1>2. CASE CleanupTokens(v)
  <2>1. j \notin {t \in rows \ {User} : t \in expired}
    BY <1>2 DEF CleanupTokens, ScopeOf, TypeOK
  <2> QED
    BY <1>2, <2>1 DEF CleanupTokens
<1>3. CASE CleanupFinished(v)
  BY <1>3 DEF CleanupFinished
<1>4. CASE Claim(v)
  BY <1>4, ClaimedRows
<1>5. CASE Join(v)
  BY <1>5 DEF Join
<1> QED
  BY <1>1, <1>2, <1>3, <1>4, <1>5 DEF Tick

\* A job stays leased by the worker that holds it.
LEMMA HeldJobsStep ==
    ASSUME TypeOK, Locks, [Next]_vars
    PROVE  HeldJobsLeased'
<1> SUFFICES ASSUME NEW w \in Workers, NEW j \in Jobs, send'[w][j].phase \in JobLocking
             PROVE  job'[j].state = "leased" /\ job'[j].owner = w
  BY DEF HeldJobsLeased, Leased
<1>1. CASE Authorize(w, j)
  BY <1>1 DEF Authorize, Current, Leased
<1>2. CASE send[w][j].phase \in JobLocking
  <2> DEFINE Goal == job'[j].state = "leased" /\ job'[j].owner = w
  <2> SUFFICES Goal
    OBVIOUS
  <2>1. job[j].state = "leased" /\ job[j].owner = w
    BY <1>2, HeldFacts
  <2>2. CASE job'[j] = job[j]
    BY <2>1, <2>2
  <2>3. CASE Flows
    BY <1>2, <2>2, <2>3, FlowsSpareHeld
  <2>4. ASSUME NEW v \in Workers, Tick(v) PROVE Goal
    BY <1>2, <2>2, <2>4, TickSparesHeld
  <2>5. ASSUME NEW v \in Workers, NEW k \in Jobs, Sends(v, k) PROVE Goal
    <3>1. CASE job' = job
      BY <2>2, <3>1
    <3>2. CASE LockScope(v, k) \/ EndExpired(v, k)
      <4>1. k # j \/ job' = job
        BY <1>2, <3>2, HeldFacts, LockPhases DEF LockScope, EndExpired
      <4> QED
        BY <2>2, <3>1, <3>2, <4>1, RowsOf DEF LockScope, EndExpired
    <3>3. CASE Settle(v, k)
      <4>1. k # j
        <5> SUFFICES ASSUME k = j PROVE FALSE
          OBVIOUS
        <5>1. v = w
          BY <1>2, <3>3, HeldFacts, LockPhases DEF Settle
        <5>2. send'[w][j] = NoSend
          BY <3>3, <5>1, EndsFrees DEF Settle
        <5> QED
          BY <5>2, LockPhases
      <4> QED
        BY <2>2, <3>3, <4>1 DEF Settle, TypeOK
    <3> QED
      BY <2>5, <3>1, <3>2, <3>3 DEF Sends, StartSend, Authorize, Decline, Deliver
  <2>6. CASE Faults
    <3>1. ASSUME NEW v \in Workers, Crash(v) PROVE Goal
      <4>1. v # w
        BY <3>1, LockPhases DEF Crash, TypeOK
      <4> QED
        BY <2>1, <3>1, <4>1 DEF Crash
    <3> QED
      BY <2>2, <2>6, <3>1 DEF Faults, AbortTick, AbortSend
  <2>7. CASE Time
    <3>1. ASSUME NEW k \in Jobs, ComesDue(k) \/ Lapses(k) PROVE Goal
      BY <2>1, <3>1, FlagChange DEF ComesDue, Lapses
    <3> QED
      BY <2>2, <2>7, <3>1 DEF Time, Expires
  <2>8. CASE UNCHANGED vars
    BY <2>2, <2>8 DEF vars
  <2> HIDE DEF Goal
  <2> QED
    BY <2>3, <2>4, <2>5, <2>6, <2>7, <2>8 DEF Next
<1> QED
  BY <1>1, <1>2, LocksTaken

-----------------------------------------------------------------------------
(* What a step can do to one job and its history.                          *)

Answered(k) == \E w \in Workers : send[w][k].phase = "accepted"

SameRow(k) == job'[k].state = job[k].state /\ job'[k].attempts = job[k].attempts
SameMail(k) == /\ mail'[k].failed = mail[k].failed
               /\ mail'[k].accepted = mail[k].accepted
               /\ mail'[k].unrecorded = mail[k].unrecorded

Untouched(k) == SameRow(k) /\ SameMail(k) /\ (Answered(k)' <=> Answered(k))
Deleted(k) == job'[k].state = "gone" /\ mail'[k] = NoMail /\ ~Answered(k)'
Begun(k) == job'[k].state = "pending" /\ job'[k].attempts = 0 /\ mail'[k] = NoMail /\ ~Answered(k)'
Recovered(k) ==
    /\ job[k].state = "leased" /\ job'[k].state = "pending"
    /\ job'[k].attempts = job[k].attempts - 1
    /\ SameMail(k) /\ ~Answered(k) /\ ~Answered(k)'
Claimed(k) ==
    /\ job[k].state = "pending" /\ job'[k].state = "leased"
    /\ job'[k].attempts = job[k].attempts + 1
    /\ SameMail(k) /\ ~Answered(k) /\ ~Answered(k)'
Ceased(k) ==
    /\ Live(k) /\ job'[k].state = "terminal"
    /\ mail'[k].accepted = mail[k].accepted /\ mail'[k].unrecorded = mail[k].unrecorded
    /\ ~Answered(k) /\ ~Answered(k)'
Recorded(k) ==
    /\ job[k].state = "leased" /\ job'[k].state = "sent"
    /\ SameMail(k) /\ Answered(k) /\ ~Answered(k)'
Retried(k) ==
    /\ job[k].state = "leased" /\ job'[k].state = "pending"
    /\ job[k].attempts < MaxAttempts /\ job'[k].attempts = job[k].attempts
    /\ mail'[k].failed = mail[k].failed + 1
    /\ mail'[k].accepted = mail[k].accepted /\ mail'[k].unrecorded = mail[k].unrecorded
    /\ ~Answered(k) /\ ~Answered(k)'
Taken(k) ==
    /\ SameRow(k) /\ job[k].state = "leased" /\ ~Answered(k)
    /\ mail'[k].failed = mail[k].failed
    /\ mail'[k].accepted = mail[k].accepted + 1
    /\ \/ mail'[k].unrecorded = mail[k].unrecorded /\ Answered(k)'
       \/ mail'[k].unrecorded = mail[k].unrecorded + 1 /\ ~Answered(k)'
Lost(k) ==
    /\ SameRow(k) /\ job[k].state = "leased" /\ Answered(k) /\ ~Answered(k)'
    /\ mail'[k].failed = mail[k].failed /\ mail'[k].accepted = mail[k].accepted
    /\ mail'[k].unrecorded = mail[k].unrecorded + 1

Effect(k) ==
    \/ Untouched(k) \/ Deleted(k) \/ Begun(k) \/ Recovered(k) \/ Claimed(k) \/ Ceased(k)
    \/ Recorded(k) \/ Retried(k) \/ Taken(k) \/ Lost(k)

\* A job whose mail was accepted is held by the send that knows it.
LEMMA AnsweredHeld ==
    ASSUME TypeOK, Locks, NEW k \in Jobs
    PROVE  /\ Answered(k) => JobLocked(k) /\ job[k].state = "leased"
           /\ \A w \in Workers : send[w][k].phase \in ScopeLocking =>
                (Answered(k) <=> send[w][k].phase = "accepted")
<1>1. ASSUME NEW v \in Workers, send[v][k].phase = "accepted"
      PROVE  /\ JobLocked(k) /\ job[k].state = "leased"
             /\ \A w \in Workers : send[w][k].phase \in ScopeLocking => w = v
  BY <1>1, HeldFacts, LockPhases
<1> QED
  BY <1>1 DEF Answered

\* The flows delete jobs nobody holds and enqueue new ones.
LEMMA FlowEffect ==
    ASSUME TypeOK, Locks, NewJobs, Flows, NEW k \in Jobs
    PROVE  Effect(k)
<1>1. Answered(k)' <=> Answered(k)
  BY DEF Flows, RequestReset, UseResetLink, ChangePassword, DeleteAccount, Answered
<1>3. Answered(k) => job'[k] = job[k] /\ job[k].state = "leased"
  BY AnsweredHeld, FlowsSpareHeld, LockPhases DEF Answered
<1>4. job[k].state = "new" => Enqueued(job[k]).attempts = 0 /\ mail[k] = NoMail /\ k \notin rows
  BY DEF NewJobs, Enqueued, NoJob
<1>5. Enqueued(job[k]).state = "pending"
  BY DEF Enqueued, TypeOK
<1>6. NoJob("gone").state = "gone"
  BY DEF NoJob
<1>7. CASE job'[k] = job[k] /\ mail'[k] = mail[k]
  BY <1>1, <1>7 DEF Effect, Untouched, SameRow, SameMail
<1>8. CASE job'[k] = NoJob("gone") /\ mail'[k] = NoMail
  BY <1>1, <1>3, <1>6, <1>8 DEF Effect, Deleted
<1>9. CASE job[k].state = "new" /\ job'[k] = Enqueued(job[k]) /\ mail'[k] = mail[k]
  BY <1>1, <1>3, <1>4, <1>5, <1>9 DEF Effect, Begun
<1>10. ASSUME NEW t \in TokenJobs, RequestReset(t) PROVE Effect(k)
  <2> DEFINE prior == rows \ {User}
  <2>1. t \in Jobs /\ job[t].state = "new" /\ t \notin prior
    BY <1>10 DEF RequestReset, NewJobs, Jobs
  <2>2. job' = [WithoutJobs(prior) EXCEPT ![t] = Enqueued(WithoutJobs(prior)[t])]
    BY <1>10, <2>1, Without DEF RequestReset
  <2>3. mail'[k] = WithoutMail(prior)[k]
    BY <1>10 DEF RequestReset
  <2>4. CASE k = t
    BY <1>9, <2>1, <2>2, <2>3, <2>4, RowsOf, Without
  <2>5. CASE k # t
    BY <1>7, <1>8, <2>1, <2>2, <2>3, <2>5, RowsOf, Without
  <2> QED
    BY <2>4, <2>5
<1>11. ASSUME NEW t \in TokenJobs, NEW n \in Notices, UseResetLink(t, n) PROVE Effect(k)
  <2>1. n \in Jobs /\ job[n].state = "new" /\ n # t
    BY <1>11, JobsAssumption DEF UseResetLink, Jobs
  <2>2. job' = [WithoutJobs({t}) EXCEPT ![n] = Enqueued(WithoutJobs({t})[n])]
    BY <1>11, <2>1, Without DEF UseResetLink
  <2>3. mail'[k] = WithoutMail({t})[k]
    BY <1>11 DEF UseResetLink
  <2>4. CASE k = n
    BY <1>9, <2>1, <2>2, <2>3, <2>4, RowsOf, Without
  <2>5. CASE k # n
    BY <1>7, <1>8, <2>1, <2>2, <2>3, <2>5, RowsOf, Without
  <2> QED
    BY <2>4, <2>5
<1>12. ASSUME NEW n \in Notices, ChangePassword(n) PROVE Effect(k)
  BY <1>7, <1>9, <1>12 DEF ChangePassword, TypeOK
<1>13. CASE DeleteAccount
  BY <1>7, <1>8, <1>13, RowsOf DEF DeleteAccount
<1> QED
  BY <1>10, <1>11, <1>12, <1>13 DEF Flows

\* A tick recovers, deletes or claims jobs nobody holds.
LEMMA TickEffect ==
    ASSUME TypeOK, Locks, NEW w \in Workers, Tick(w), NEW k \in Jobs
    PROVE  Effect(k)
<1>0. Answered(k) => JobLocked(k) /\ job[k].state = "leased"
  BY AnsweredHeld
<1>1. NoJob("gone").state = "gone"
  BY DEF NoJob
<1>2. CASE /\ job'[k] = job[k] /\ mail'[k] = mail[k]
           /\ Answered(k)' <=> Answered(k)
  BY <1>2 DEF Effect, Untouched, SameRow, SameMail
<1>3. CASE /\ job'[k] = NoJob("gone") /\ mail'[k] = NoMail
           /\ job[k].state # "leased" /\ send' = send
  BY <1>0, <1>1, <1>3 DEF Effect, Deleted, Answered
<1>4. CASE RequeueExpired(w)
  <2>1. send' = send /\ mail' = mail
    BY <1>4 DEF RequeueExpired
  <2>2. CASE Recoverable(k)
    <3>1. job'[k] = Recover(job[k])
      BY <1>4, <2>2 DEF RequeueExpired
    <3>2. job'[k].state = "pending" /\ job'[k].attempts = job[k].attempts - 1
      BY <3>1 DEF TypeOK, Recover
    <3> QED
      BY <1>0, <2>1, <2>2, <3>2 DEF Effect, Recovered, SameMail, Answered, Recoverable
  <2>3. CASE ~Recoverable(k)
    <3>1. job'[k] = job[k]
      BY <1>4, <2>3 DEF RequeueExpired
    <3> QED
      BY <1>2, <2>1, <3>1 DEF Answered
  <2> QED
    BY <2>2, <2>3
<1>5. CASE CleanupTokens(w)
  <2> DEFINE dead == {t \in rows \ {User} : t \in expired}
  <2>1. /\ send' = send
        /\ job'[k] = IF k \in dead THEN NoJob("gone") ELSE job[k]
        /\ mail'[k] = IF k \in dead THEN NoMail ELSE mail[k]
    BY <1>5, RowsOf DEF CleanupTokens
  <2>2. k \in dead => ~Answered(k)
    <3> SUFFICES ASSUME k \in dead, Answered(k) PROVE FALSE
      OBVIOUS
    <3>1. k \in TokenJobs
      BY DEF TypeOK
    <3>2. ScopeLocked(k)
      BY <3>1, HeldFacts, LockPhases DEF Answered, ScopeOf
    <3> QED
      BY <1>5, <3>2 DEF CleanupTokens
  <2>3. CASE k \in dead
    BY <1>1, <2>1, <2>2, <2>3 DEF Effect, Deleted, Answered
  <2>4. CASE k \notin dead
    BY <1>2, <2>1, <2>4 DEF Answered
  <2> QED
    BY <2>3, <2>4
<1>6. CASE CleanupFinished(w)
  <2>1. PICK old \in SUBSET {j \in expired : job[j].state \in {"sent", "terminal"}} :
          job' = WithoutJobs(old) /\ mail' = WithoutMail(old)
    BY <1>6 DEF CleanupFinished
  <2>2. send' = send
    BY <1>6 DEF CleanupFinished
  <2>3. CASE k \in old
    BY <1>3, <2>1, <2>2, <2>3, RowsOf
  <2>4. CASE k \notin old
    BY <1>2, <2>1, <2>2, <2>4, RowsOf DEF Answered
  <2> QED
    BY <2>3, <2>4
<1>7. CASE Claim(w)
  <2>1. \A v \in Workers : v # w => send'[v][k] = send[v][k]
    BY <1>7 DEF Claim, TypeOK
  <2>2. CASE job'[k] = job[k] /\ mail'[k] = mail[k] /\ send'[w][k] = send[w][k]
    <3>1. Answered(k)' <=> Answered(k)
      BY <2>1, <2>2 DEF Answered
    <3> QED
      BY <1>2, <2>2, <3>1
  <2>3. CASE /\ job[k].state = "pending" /\ ~JobLocked(k)
             /\ job'[k] = [job[k] EXCEPT !.state = "leased", !.attempts = @ + 1,
                                         !.owner = w, !.due = FALSE]
             /\ mail'[k] = mail[k]
             /\ send'[w][k].phase = "queued"
    <3>1. job'[k].state = "leased" /\ job'[k].attempts = job[k].attempts + 1
      BY <2>3 DEF TypeOK
    <3>2. SameMail(k)
      BY <2>3 DEF TypeOK, SameMail
    <3>3. ~Answered(k)
      BY <1>0, <2>3
    <3>4. ~Answered(k)'
      BY <2>1, <2>3, <3>3 DEF Answered
    <3> QED
      BY <2>3, <3>1, <3>2, <3>3, <3>4 DEF Effect, Claimed
  <2> QED
    BY <1>7, <2>2, <2>3, ClaimedRows
<1>8. CASE Join(w)
  BY <1>2, <1>8 DEF Join, Answered
<1> QED
  BY <1>4, <1>5, <1>6, <1>7, <1>8 DEF Tick

\* Time only flags jobs.
LEMMA TimeEffect ==
    ASSUME TypeOK, Time, NEW k \in Jobs
    PROVE  Effect(k)
<1>1. SameRow(k)
  BY FlagChange DEF Time, ComesDue, Lapses, Expires, SameRow
<1> QED
  BY <1>1 DEF Time, ComesDue, Lapses, Expires, Effect, Untouched, SameMail, Answered

\* A fault loses what only the lost transaction knew.
LEMMA FaultEffect ==
    ASSUME TypeOK, Locks, Faults, NEW k \in Jobs
    PROVE  Effect(k)
<1>0. \A v \in Workers : send[v][k].phase = "accepted" =>
        job[k].state = "leased" /\ \A u \in Workers : send[u][k].phase = "accepted" => u = v
  BY HeldFacts, LockPhases
<1>1. ASSUME NEW W, NEW J, k \in J, \E w \in W : send[w][k].phase = "accepted",
             mail' = Forgotten(W, J)
      PROVE  /\ mail'[k].failed = mail[k].failed /\ mail'[k].accepted = mail[k].accepted
             /\ mail'[k].unrecorded = mail[k].unrecorded + 1
  BY <1>1 DEF Forgotten, TypeOK
<1>2. ASSUME NEW W, NEW J, ~(k \in J /\ \E w \in W : send[w][k].phase = "accepted"),
             mail' = Forgotten(W, J)
      PROVE  mail'[k] = mail[k]
  BY <1>2 DEF Forgotten
<1>3. ASSUME NEW w \in Workers, NEW J, mail' = Forgotten({w}, J), SameRow(k),
             \A v \in Workers : send'[v][k] = IF v = w /\ k \in J THEN NoSend ELSE send[v][k]
      PROVE  Effect(k)
  <2>1. CASE k \in J /\ send[w][k].phase = "accepted"
    <3>1. Answered(k) /\ ~Answered(k)'
      BY <1>0, <1>3, <2>1, LockPhases DEF Answered
    <3>2. /\ mail'[k].failed = mail[k].failed /\ mail'[k].accepted = mail[k].accepted
          /\ mail'[k].unrecorded = mail[k].unrecorded + 1
      BY <1>1, <1>3, <2>1
    <3> QED
      BY <1>0, <1>3, <2>1, <3>1, <3>2 DEF Effect, Lost
  <2>2. CASE ~(k \in J /\ send[w][k].phase = "accepted")
    <3>1. Answered(k)' <=> Answered(k)
      BY <1>3, <2>2, LockPhases DEF Answered
    <3>2. mail'[k] = mail[k]
      BY <1>2, <1>3, <2>2
    <3> QED
      BY <1>3, <3>1, <3>2 DEF Effect, Untouched, SameMail
  <2> QED
    BY <2>1, <2>2
<1>4. ASSUME NEW w \in Workers, NEW j \in Jobs, AbortSend(w, j) PROVE Effect(k)
  <2>1. \A v \in Workers : send'[v][k] = IF v = w /\ k \in {j} THEN NoSend ELSE send[v][k]
    BY <1>4, EndsFrees DEF AbortSend
  <2>2. SameRow(k) /\ mail' = Forgotten({w}, {j})
    BY <1>4 DEF AbortSend, SameRow
  <2> QED
    BY <1>3, <2>1, <2>2
<1>5. ASSUME NEW w \in Workers, Crash(w) PROVE Effect(k)
  <2>1. \A v \in Workers : send'[v][k] = IF v = w /\ k \in Jobs THEN NoSend ELSE send[v][k]
    BY <1>5 DEF Crash, TypeOK
  <2>2. SameRow(k) /\ mail' = Forgotten({w}, Jobs)
    BY <1>5 DEF Crash, SameRow, TypeOK
  <2> QED
    BY <1>3, <2>1, <2>2
<1>6. ASSUME NEW w \in Workers, AbortTick(w) PROVE Effect(k)
  BY <1>6 DEF AbortTick, Effect, Untouched, SameRow, SameMail, Answered
<1> QED
  BY <1>4, <1>5, <1>6 DEF Faults

\* A send does one thing to its own job and nothing to the others.
LEMMA SendEffect ==
    ASSUME TypeOK, Locks, NEW w \in Workers, NEW j \in Jobs, Sends(w, j), NEW k \in Jobs
    PROVE  Effect(k)
<1>0. Answered(k) => JobLocked(k) /\ job[k].state = "leased"
  BY AnsweredHeld
<1>1. CASE /\ job'[k] = job[k] /\ mail'[k] = mail[k]
           /\ Answered(k)' <=> Answered(k)
  BY <1>1 DEF Effect, Untouched, SameRow, SameMail
<1>2. ASSUME k # j, job'[k] = job[k], mail'[k] = mail[k],
             \A v \in Workers : send'[v][k] = send[v][k]
      PROVE  Effect(k)
  BY <1>1, <1>2 DEF Answered
<1>3. ASSUME send[w][k].phase # "accepted", send'[w][k].phase # "accepted",
             \A v \in Workers : v # w => send'[v][k] = send[v][k]
      PROVE  Answered(k)' <=> Answered(k)
  BY <1>3 DEF Answered
<1>4. ASSUME NEW p, p # "accepted", send[w][j].phase # "accepted", job'[k] = job[k],
             mail' = mail, send' = [send EXCEPT ![w][j].phase = p]
      PROVE  Effect(k)
  <2>1. Answered(k)' <=> Answered(k)
    BY <1>3, <1>4, PhaseChange DEF Answered
  <2> QED
    BY <1>1, <1>4, <2>1
<1>5. ASSUME send[w][j].phase # "accepted", job'[k] = job[k], mail' = mail, Ends(w, j)
      PROVE  Effect(k)
  <2>1. Answered(k)' <=> Answered(k)
    BY <1>5, EndsFrees, LockPhases DEF Answered
  <2> QED
    BY <1>1, <1>5, <2>1
<1>6. ASSUME Ends(w, j), job' = Terminated(j), mail' = mail, ~Answered(j)
      PROVE  Effect(k)
  <2>1. \A v \in Workers : send'[v][k].phase = "accepted" => send[v][k].phase = "accepted"
    BY <1>6, EndsFrees, LockPhases
  <2>2. CASE k = j /\ Live(j)
    <3>1. job'[k].state = "terminal"
      BY <1>6, <2>2, RowsOf DEF Ended, NoJob
    <3> QED
      BY <1>6, <2>1, <2>2, <3>1 DEF Effect, Ceased, Answered
  <2>3. CASE k = j /\ ~Live(j)
    BY <1>1, <1>6, <2>1, <2>3, RowsOf DEF Answered
  <2>4. CASE k # j
    BY <1>2, <1>6, <2>4, EndsFrees, RowsOf
  <2> QED
    BY <2>2, <2>3, <2>4
<1>7. CASE StartSend(w, j)
  <2>1. \A v \in Workers : send'[v][k].phase = "accepted" <=> send[v][k].phase = "accepted"
    BY <1>7 DEF StartSend, TypeOK
  <2> QED
    BY <1>1, <1>7, <2>1 DEF StartSend, Answered
<1>8. CASE LockScope(w, j)
  <2>1. CASE Ends(w, j) /\ job' = Terminated(j)
    <3>1. ~Answered(j)
      BY <1>8, HeldFacts, LockPhases DEF LockScope, Answered
    <3> QED
      BY <1>6, <1>8, <2>1, <3>1 DEF LockScope
  <2>2. CASE job' = job /\ send' = [send EXCEPT ![w][j].phase = "scoped"]
    BY <1>4, <1>8, <2>2 DEF LockScope
  <2> QED
    BY <1>8, <2>1, <2>2 DEF LockScope
<1>9. CASE Authorize(w, j)
  BY <1>4, <1>9 DEF Authorize
<1>10. CASE Decline(w, j)
  BY <1>5, <1>10 DEF Decline
<1>11. CASE EndExpired(w, j)
  <2>1. ~Answered(j)
    BY <1>11, AnsweredHeld, LockPhases DEF EndExpired
  <2> QED
    BY <1>6, <1>11, <2>1 DEF EndExpired
<1>12. CASE Deliver(w, j)
  <2>1. PICK result \in Results, taken \in BOOLEAN :
          /\ result = "accepted" => taken
          /\ send' = [send EXCEPT ![w][j].phase = result]
          /\ mail' = IF ~taken THEN mail
                     ELSE [mail EXCEPT ![j].accepted = @ + 1,
                                       ![j].unrecorded = IF result = "accepted" THEN @ ELSE @ + 1]
    BY <1>12 DEF Deliver
  <2>2. job' = job /\ send[w][j].phase = "sending"
    BY <1>12 DEF Deliver
  <2>3. job[j].state = "leased" /\ ~Answered(j)
    BY <2>2, HeldFacts, AnsweredHeld, LockPhases
  <2>4. CASE ~taken
    BY <1>4, <2>1, <2>2, <2>4
  <2>5. CASE taken /\ k = j
    <3> DEFINE n == IF result = "accepted" THEN mail[j].unrecorded ELSE mail[j].unrecorded + 1
    <3>1. mail' = [mail EXCEPT ![j] = [mail[j] EXCEPT !.accepted = mail[j].accepted + 1,
                                                      !.unrecorded = n]]
      BY <2>1, <2>5
    <3>2. /\ mail'[j].failed = mail[j].failed
          /\ mail'[j].accepted = mail[j].accepted + 1
          /\ mail'[j].unrecorded = n
      BY <3>1 DEF TypeOK
    <3>3. Answered(j)' <=> result = "accepted"
      <4>0. send' = [send EXCEPT ![w][j].phase = result]
        BY <2>1
      <4>1. send'[w][j].phase = result
        BY <4>0 DEF TypeOK
      <4>2. \A v \in Workers : v # w => send'[v][j].phase # "accepted"
        BY <2>1, <2>3, PhaseChange DEF Answered
      <4> QED
        BY <4>1, <4>2 DEF Answered
    <3> QED
      BY <2>2, <2>3, <2>5, <3>2, <3>3 DEF Effect, Taken, SameRow
  <2>6. CASE taken /\ k # j
    <3>1. mail'[k] = mail[k]
      BY <2>1, <2>6 DEF TypeOK
    <3> QED
      BY <1>2, <2>1, <2>2, <2>6, <3>1, PhaseChange
  <2> QED
    BY <2>4, <2>5, <2>6
<1>13. CASE Settle(w, j)
  <2>1. job[j].state = "leased" /\ send[w][j].phase \in Results
    BY <1>13, HeldFacts, LockPhases DEF Settle
  <2>2. Answered(j) <=> send[w][j].phase = "accepted"
    BY <2>1, AnsweredHeld, LockPhases
  <2>3. \A v \in Workers : send'[v][j].phase # "accepted"
    BY <1>13, <2>1, EndsFrees, HeldFacts, LockPhases DEF Settle
  <2>4. ~Answered(j)'
    BY <2>3 DEF Answered
  <2>5. CASE k # j
    <3>1. job'[k] = job[k] /\ mail'[k] = mail[k]
      BY <1>13, <2>5 DEF Settle, TypeOK
    <3>2. \A v \in Workers : send'[v][k] = send[v][k]
      BY <1>13, <2>5, EndsFrees DEF Settle
    <3> QED
      BY <1>2, <2>5, <3>1, <3>2
  <2>6. CASE k = j /\ send[w][j].phase = "accepted"
    <3>1. job'[j].state = "sent" /\ mail' = mail
      BY <1>13, <2>6 DEF Settle, TypeOK, Ended, NoJob
    <3> QED
      BY <2>1, <2>2, <2>4, <2>6, <3>1 DEF Effect, Recorded, SameMail
  <2>7. CASE k = j /\ send[w][j].phase = "permanent"
    <3>1. job'[j].state = "terminal" /\ mail' = mail
      BY <1>13, <2>7 DEF Settle, TypeOK, Ended, NoJob
    <3> QED
      BY <2>1, <2>2, <2>4, <2>7, <3>1 DEF Effect, Ceased, Live
  <2>8. CASE k = j /\ send[w][j].phase = "temporary"
    <3>1. PICK tooLate \in BOOLEAN : job'[j] = AfterFailure(job[j], tooLate)
      BY <1>13, <2>8 DEF Settle, TypeOK
    <3>2. /\ mail'[j].failed = mail[j].failed + 1
          /\ mail'[j].accepted = mail[j].accepted /\ mail'[j].unrecorded = mail[j].unrecorded
      BY <1>13, <2>8 DEF Settle, TypeOK
    <3>3. CASE job[j].attempts >= MaxAttempts \/ tooLate
      <4>1. job'[j].state = "terminal"
        BY <3>1, <3>3 DEF AfterFailure, Ended, NoJob
      <4> QED
        BY <2>1, <2>2, <2>4, <2>8, <3>2, <4>1 DEF Effect, Ceased, Live
    <3>4. CASE ~(job[j].attempts >= MaxAttempts \/ tooLate)
      <4>1. job'[j].state = "pending" /\ job'[j].attempts = job[j].attempts
        BY <3>1, <3>4 DEF AfterFailure, Requeued, TypeOK
      <4>2. job[j].attempts < MaxAttempts
        BY <3>4, MaxAttemptsAssumption DEF TypeOK
      <4> QED
        BY <2>1, <2>2, <2>4, <2>8, <3>2, <4>1, <4>2 DEF Effect, Retried
    <3> QED
      BY <3>3, <3>4
  <2> QED
    BY <2>1, <2>5, <2>6, <2>7, <2>8 DEF Results
<1> QED
  BY <1>7, <1>8, <1>9, <1>10, <1>11, <1>12, <1>13 DEF Sends

\* So a step does one of these ten things to each job.
LEMMA Effects ==
    ASSUME TypeOK, Locks, NewJobs, [Next]_vars, NEW k \in Jobs
    PROVE  Effect(k)
<1>1. CASE UNCHANGED vars
  BY <1>1 DEF vars, Effect, Untouched, SameRow, SameMail, Answered
<1> QED
  BY <1>1, FlowEffect, TickEffect, SendEffect, FaultEffect, TimeEffect DEF Next

-----------------------------------------------------------------------------
(* The invariant and what follows from it.                                 *)

\* A job not yet enqueued stays without a past until it is.
LEMMA NewJobsStep ==
    ASSUME TypeOK, Locks, NewJobs, [Next]_vars
    PROVE  NewJobs'
<1> SUFFICES ASSUME NEW k \in Jobs, job'[k].state = "new"
             PROVE  job'[k] = NoJob("new") /\ mail'[k] = NoMail /\ k \notin rows'
  BY DEF NewJobs
<1>1. job[k].state = "new"
  BY Effects DEF Effect, Untouched, Deleted, Begun, Recovered, Claimed, Ceased, Recorded,
     Retried, Taken, Lost, SameRow
<1>2. job[k] = NoJob("new") /\ mail[k] = NoMail /\ k \notin rows
  BY <1>1 DEF NewJobs
<1>3. \A w \in Workers : send[w][k].phase \notin JobLocking
  BY <1>1, HeldFacts
<1> DEFINE Goal == job'[k] = job[k] /\ mail'[k] = mail[k] /\ k \notin rows'
<1> SUFFICES Goal
  BY <1>2
<1>4. CASE job' = job /\ mail' = mail /\ rows' = rows
  BY <1>2, <1>4
<1>5. Enqueued(job[k]).state = "pending" /\ NoJob("gone").state = "gone"
  BY DEF Enqueued, NoJob, TypeOK
<1>6. ASSUME NEW t \in TokenJobs, RequestReset(t) PROVE Goal
  <2> DEFINE prior == rows \ {User}
  <2>1. job' = [WithoutJobs(prior) EXCEPT ![t] = Enqueued(WithoutJobs(prior)[t])]
    BY <1>6, Without DEF RequestReset
  <2>2. k \notin prior /\ mail'[k] = mail[k]
    BY <1>2, <1>6, RowsOf DEF RequestReset
  <2>3. t \in Jobs
    BY DEF Jobs
  <2>4. k # t
    BY <1>5, <2>1, <2>2, <2>3, Without, RowsOf
  <2>5. job'[k] = job[k]
    BY <2>1, <2>2, <2>3, <2>4, Without, RowsOf
  <2>6. k \notin rows'
    BY <1>2, <1>6, <2>4 DEF RequestReset
  <2> QED
    BY <2>2, <2>5, <2>6
<1>7. ASSUME NEW t \in TokenJobs, NEW n \in Notices, UseResetLink(t, n) PROVE Goal
  <2>1. job' = [WithoutJobs({t}) EXCEPT ![n] = Enqueued(WithoutJobs({t})[n])]
    BY <1>7, Without DEF UseResetLink
  <2>2. k \notin {t} /\ mail'[k] = mail[k] /\ k \notin rows'
    BY <1>2, <1>7, RowsOf DEF UseResetLink
  <2>3. n \in Jobs
    BY DEF Jobs
  <2>4. k # n
    BY <1>5, <2>1, <2>2, <2>3, Without, RowsOf
  <2>5. job'[k] = job[k]
    BY <2>1, <2>2, <2>3, <2>4, Without, RowsOf
  <2> QED
    BY <2>2, <2>5
<1>8. ASSUME NEW n \in Notices, ChangePassword(n) PROVE Goal
  BY <1>2, <1>5, <1>8 DEF ChangePassword, TypeOK
<1>9. CASE DeleteAccount
  BY <1>1, <1>9, RowsOf DEF DeleteAccount
<1>10. ASSUME NEW w \in Workers, RequeueExpired(w) PROVE Goal
  BY <1>1, <1>2, <1>10 DEF RequeueExpired, Recoverable
<1>11. ASSUME NEW w \in Workers, CleanupTokens(w) PROVE Goal
  BY <1>2, <1>11, RowsOf DEF CleanupTokens
<1>12. ASSUME NEW w \in Workers, CleanupFinished(w) PROVE Goal
  <2>1. PICK old \in SUBSET {j \in expired : job[j].state \in {"sent", "terminal"}} :
          job' = WithoutJobs(old) /\ mail' = WithoutMail(old)
    BY <1>12 DEF CleanupFinished
  <2> QED
    BY <1>1, <1>2, <1>12, <2>1, RowsOf DEF CleanupFinished
<1>13. ASSUME NEW w \in Workers, Claim(w) PROVE Goal
  BY <1>1, <1>2, <1>13, ClaimedRows DEF Claim
<1>14. ASSUME NEW w \in Workers, NEW j \in Jobs, Sends(w, j) PROVE Goal
  <2>1. CASE job' = Terminated(j) /\ mail' = mail /\ rows' = rows
    BY <1>1, <1>2, <2>1, RowsOf DEF Live
  <2>2. CASE Deliver(w, j)
    <3>1. k # j
      BY <1>3, <2>2, LockPhases DEF Deliver
    <3> QED
      BY <1>2, <2>2, <3>1 DEF Deliver, TypeOK
  <2>3. CASE Settle(w, j)
    <3>1. k # j
      BY <1>3, <2>3, LockPhases DEF Settle
    <3> QED
      BY <1>2, <2>3, <3>1 DEF Settle, TypeOK
  <2> QED
    BY <1>4, <1>14, <2>1, <2>2, <2>3
       DEF Sends, StartSend, LockScope, Authorize, Decline, EndExpired
<1>15. CASE Faults
  <2>1. \A W, J : W \subseteq Workers => Forgotten(W, J)[k] = mail[k]
    BY <1>3, LockPhases DEF Forgotten
  <2>2. job[k].owner = Nobody
    BY <1>2 DEF NoJob
  <2>3. ASSUME NEW w \in Workers, Crash(w) PROVE Goal
    BY <1>2, <2>1, <2>2, <2>3, WorkersAssumption DEF Crash
  <2>4. ASSUME NEW w \in Workers, NEW j \in Jobs, AbortSend(w, j) PROVE Goal
    BY <1>2, <2>1, <2>4 DEF AbortSend
  <2> QED
    BY <1>4, <1>15, <2>3, <2>4 DEF Faults, AbortTick
<1>16. CASE Time
  <2>1. ASSUME NEW j \in Jobs, ComesDue(j) \/ Lapses(j) PROVE Goal
    BY <1>1, <1>2, <2>1, FlagChange DEF ComesDue, Lapses
  <2> QED
    BY <1>4, <1>16, <2>1 DEF Time, Expires
<1>17. CASE UNCHANGED vars
  BY <1>4, <1>17 DEF vars
<1> HIDE DEF Goal
<1> QED
  BY <1>6, <1>7, <1>8, <1>9, <1>10, <1>11, <1>12, <1>13, <1>14, <1>15, <1>16, <1>17, <1>4
     DEF Next, Flows, Tick, Join

\* The history of a job is made of counts.
LEMMA Counts ==
    ASSUME TypeOK, NEW k \in Jobs
    PROVE  /\ job[k].attempts \in Nat
           /\ mail[k].failed \in Nat /\ mail[k].accepted \in Nat /\ mail[k].unrecorded \in Nat
BY DEF TypeOK

\* Every effect on a job keeps its attempts the failures it has counted.
LEMMA AttemptsStep ==
    ASSUME TypeOK, Locks, NewJobs, AttemptsCountFailures, [Next]_vars
    PROVE  AttemptsCountFailures'
<1> SUFFICES ASSUME NEW k \in Jobs, Live(k)'
             PROVE  /\ job'[k].attempts = mail'[k].failed
                                            + (IF job'[k].state = "leased" THEN 1 ELSE 0)
                    /\ mail'[k].failed < MaxAttempts
  BY DEF AttemptsCountFailures
<1>1. Live(k) => /\ job[k].attempts = mail[k].failed + (IF job[k].state = "leased" THEN 1 ELSE 0)
                 /\ mail[k].failed < MaxAttempts
  BY DEF AttemptsCountFailures
<1>2. job'[k].state = "pending" \/ job'[k].state = "leased"
  BY DEF Live
<1>3. CASE Untouched(k)
  BY <1>1, <1>2, <1>3 DEF Untouched, SameRow, SameMail, Live
<1>4. CASE Begun(k)
  BY <1>4, MaxAttemptsAssumption DEF Begun, NoMail
<1>5. CASE Recovered(k)
  BY <1>1, <1>5, Counts DEF Recovered, SameMail, Live
<1>6. CASE Claimed(k)
  BY <1>1, <1>6, Counts DEF Claimed, SameMail, Live
<1>7. CASE Retried(k)
  BY <1>1, <1>7, Counts, MaxAttemptsAssumption DEF Retried, Live
<1>8. CASE Taken(k) \/ Lost(k)
  BY <1>1, <1>2, <1>8 DEF Taken, Lost, SameRow, Live
<1>9. ~(Deleted(k) \/ Ceased(k) \/ Recorded(k))
  BY <1>2 DEF Deleted, Ceased, Recorded
<1> QED
  BY <1>3, <1>4, <1>5, <1>6, <1>7, <1>8, <1>9, Effects DEF Effect

\* Every effect on a job keeps its acceptances accounted for.
LEMMA AcceptancesStep ==
    ASSUME TypeOK, Locks, NewJobs, AcceptancesAccounted, [Next]_vars
    PROVE  AcceptancesAccounted'
<1> DEFINE Written(k) == IF job[k].state = "sent" \/ Answered(k) THEN 1 ELSE 0
<1> SUFFICES ASSUME NEW k \in Jobs
             PROVE  mail'[k].accepted = mail'[k].unrecorded + Written(k)'
  BY DEF AcceptancesAccounted, Answered
<1>1. mail[k].accepted = mail[k].unrecorded + Written(k)
  BY DEF AcceptancesAccounted, Answered
<1>2. Answered(k) => job[k].state = "leased"
  BY AnsweredHeld
<1>3. CASE Untouched(k)
  BY <1>1, <1>3 DEF Untouched, SameRow, SameMail
<1>4. CASE Deleted(k) \/ Begun(k)
  BY <1>4 DEF Deleted, Begun, NoMail
<1>5. CASE Recovered(k) \/ Claimed(k)
  BY <1>1, <1>5 DEF Recovered, Claimed, SameMail
<1>6. CASE Ceased(k) \/ Retried(k)
  BY <1>1, <1>6 DEF Ceased, Retried, Live
<1>7. CASE Recorded(k)
  BY <1>1, <1>7 DEF Recorded, SameMail
<1>8. CASE Taken(k)
  BY <1>1, <1>8, Counts DEF Taken, SameRow
<1>9. CASE Lost(k)
  BY <1>1, <1>9, Counts DEF Lost, SameRow
<1> QED
  BY <1>3, <1>4, <1>5, <1>6, <1>7, <1>8, <1>9, Effects DEF Effect

\* The invariant holds of an empty queue and is kept by every step.
THEOREM Invariant == Spec => []IInv
<1>1. Init => IInv
  <2> SUFFICES ASSUME Init PROVE IInv
    OBVIOUS
  <2>1. \A w \in Workers, j \in Jobs : send[w][j].phase = "none"
    BY LockPhases DEF Init
  <2>2. ScopesExclusive /\ HeldRowsStay /\ HeldJobsLeased
    BY <2>1, LockPhases DEF ScopesExclusive, HeldRowsStay, HeldJobsLeased
  <2>3. NewJobs
    BY JobsAssumption DEF Init, NewJobs, Jobs, NoJob
  <2>4. AttemptsCountFailures
    BY DEF Init, AttemptsCountFailures, Live, NoJob
  <2>5. AcceptancesAccounted
    BY <2>1 DEF Init, AcceptancesAccounted, NoJob, NoMail
  <2> QED
    BY TypeInit, <2>2, <2>3, <2>4, <2>5 DEF IInv
<1>2. IInv /\ [Next]_vars => IInv'
  <2> SUFFICES ASSUME IInv, [Next]_vars PROVE IInv'
    OBVIOUS
  <2>1. TypeOK /\ Locks /\ NewJobs /\ AttemptsCountFailures /\ AcceptancesAccounted
    BY DEF IInv, Locks
  <2>2. TypeOK'
    BY <2>1, TypeStep
  <2>3. ScopesExclusive' /\ HeldRowsStay' /\ HeldJobsLeased'
    BY <2>1, ExclusiveStep, RowsStep, HeldJobsStep DEF Locks
  <2>4. NewJobs' /\ AttemptsCountFailures' /\ AcceptancesAccounted'
    BY <2>1, NewJobsStep, AttemptsStep, AcceptancesStep
  <2> QED
    BY <2>2, <2>3, <2>4 DEF IInv
<1> QED
  BY <1>1, <1>2, PTL DEF Spec

\* Every reachable state of the queue is well typed.
THEOREM TypeCorrect == Spec => []TypeOK
BY Invariant, PTL DEF IInv

\* A mail is sent and settled only with its scope row there, under a lease of
\* its own and by one worker at a time.
THEOREM Authority == Spec => []SendsUnderAuthority
<1>1. IInv => SendsUnderAuthority
  <2> SUFFICES ASSUME IInv, NEW w \in Workers, NEW j \in Jobs, send[w][j].phase \in JobLocking
               PROVE  /\ ScopeOf(j) \in rows
                      /\ Leased(w, j)
                      /\ \A v \in Workers \ {w} : send[v][j].phase \notin JobLocking
    BY DEF SendsUnderAuthority
  <2>1. TypeOK /\ Locks
    BY DEF IInv, Locks
  <2> QED
    BY <2>1, HeldFacts, LockPhases DEF Leased
<1> QED
  BY <1>1, Invariant, PTL

\* Leases that run out cost a job no attempt and give it none.
THEOREM AttemptsCorrect == Spec => []AttemptsCountFailures
BY Invariant, PTL DEF IInv

\* A mail is accepted twice only when an answer or a commit was lost.
THEOREM AcceptancesCorrect == Spec => []AcceptancesAccounted
BY Invariant, PTL DEF IInv
=============================================================================

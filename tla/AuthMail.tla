------------------------------- MODULE AuthMail -------------------------------
(***************************************************************************)
(* The outbox of authentication mail and its workers (internal/authmail),  *)
(* with the account flows that create and withdraw what a mail is about    *)
(* (internal/auth).                                                        *)
(*                                                                         *)
(* One account.  A token mail belongs to one reset token row, named like   *)
(* its job; a notice belongs to the user row.  Registrations are to their  *)
(* verification mail what reset tokens are to theirs and are left out, and *)
(* so is the privacy notice, whose worker is another function.  No query   *)
(* changes a token row's digest, so the row's presence decides whether a   *)
(* job's digest is current.                                                *)
(*                                                                         *)
(* Every worker is a process.  Its tick runs three short transactions and  *)
(* then the sends it claimed, each in a transaction that locks the row of  *)
(* its scope, then the job, and holds both until it commits.  The account  *)
(* flows commit in one step here: they wait for the scope rows they        *)
(* delete, and deleting a scope row deletes its jobs.                      *)
(*                                                                         *)
(* Time is flags: a job is due when its next_attempt_at has passed, lapsed *)
(* when its lease_expires_at has, and expired holds those whose expires_at *)
(* has, which is also their token's.  A send compares them with a clock it *)
(* read before it waited for any lock.  The batch limits of the requeue    *)
(* and cleanup queries (100, 200) are not reached.                         *)
(***************************************************************************)
EXTENDS FiniteSets, Integers

CONSTANTS
    TokenJobs,           \* jobs that carry the link of a reset token
    Notices,             \* jobs that tell the user of a change
    Workers,             \* mail worker processes
    User,                \* the user row
    Nobody,              \* no lease owner
    Departed,            \* the lease owner of a process that is gone
    Unreadable,          \* <<w, j>>: worker w has no key that opens job j
    MaxAttempts,         \* attempts a job has
    MaxConcurrentSends,  \* sends one worker runs at once
    ClaimBatch,          \* jobs one tick claims
    MaxFaults            \* bound: crashes, failed transactions and stalls

Jobs == TokenJobs \cup Notices

ASSUME JobsAssumption == TokenJobs \cap Notices = {} /\ User \notin Jobs
ASSUME WorkersAssumption == {Nobody, Departed} \cap Workers = {} /\ Nobody # Departed
ASSUME UnreadableAssumption == Unreadable \subseteq Workers \X Jobs
ASSUME MaxAttemptsAssumption == MaxAttempts \in Nat \ {0}
ASSUME LimitsAssumption == MaxConcurrentSends \in Nat \ {0} /\ ClaimBatch \in Nat \ {0}
ASSUME MaxFaultsAssumption == MaxFaults \in Nat

VARIABLES
    rows,    \* the scope rows there are: token rows and the user row
    job,     \* per job: its row in auth_email_jobs
    expired, \* the jobs that have expired, and their tokens with them
    step,    \* per worker: how far its tick has got
    send,    \* per worker and job: the send the worker runs for it
    mail,    \* history: per job, what the provider and the sends did
    faults   \* how many faults have happened

vars == <<rows, job, expired, step, send, mail, faults>>

NoMail == [accepted |-> 0, unrecorded |-> 0, failed |-> 0]
NoJob(s) == [state |-> s, attempts |-> 0, owner |-> Nobody,
             due |-> FALSE, lapsed |-> FALSE]
NoSend == [phase |-> "none", lapsed |-> FALSE, expired |-> FALSE]

Results == {"accepted", "temporary", "permanent"}
JobLocking == {"sending"} \cup Results
ScopeLocking == {"scoped"} \cup JobLocking
SendPhases == {"none", "queued", "started"} \cup ScopeLocking

TypeOK ==
    /\ rows \subseteq TokenJobs \cup {User}
    /\ job \in [Jobs -> [state : {"new", "pending", "leased", "sent", "terminal", "gone"},
                         attempts : 0..MaxAttempts, owner : Workers \cup {Nobody, Departed},
                         due : BOOLEAN, lapsed : BOOLEAN]]
    /\ expired \subseteq Jobs
    /\ step \in [Workers -> {"requeue", "tokens", "finished", "claim", "send"}]
    /\ send \in [Workers -> [Jobs -> [phase : SendPhases, lapsed : BOOLEAN, expired : BOOLEAN]]]
    /\ mail \in [Jobs -> [accepted : Nat, unrecorded : Nat, failed : Nat]]
    /\ faults \in 0..MaxFaults

Init ==
    /\ rows = {User}
    /\ job = [j \in Jobs |-> NoJob("new")]
    /\ expired = {}
    /\ step = [w \in Workers |-> "requeue"]
    /\ send = [w \in Workers |-> [j \in Jobs |-> NoSend]]
    /\ mail = [j \in Jobs |-> NoMail]
    /\ faults = 0

-----------------------------------------------------------------------------
(* Rows and their locks.                                                   *)

ScopeOf(j) == IF j \in TokenJobs THEN j ELSE User

ScopeLocked(s) == \E w \in Workers, j \in Jobs :
                    ScopeOf(j) = s /\ send[w][j].phase \in ScopeLocking

JobLocked(j) == \E w \in Workers : send[w][j].phase \in JobLocking

Live(j) == job[j].state \in {"pending", "leased"}

\* The job rows after the jobs of D are deleted, by cascade or by retention.
WithoutJobs(D) == [j \in Jobs |-> IF j \in D THEN NoJob("gone") ELSE job[j]]
WithoutMail(D) == [j \in Jobs |-> IF j \in D THEN NoMail ELSE mail[j]]

\* A job row that has ended keeps its attempt count only.
Ended(r, s) == [NoJob(s) EXCEPT !.attempts = r.attempts]

\* MarkAuthEmailJobTerminal acts on a pending or leased row, whoever leases it.
Terminated(j) == [job EXCEPT ![j] = IF Live(j) THEN Ended(@, "terminal") ELSE @]

Enqueued(r) == [r EXCEPT !.state = "pending", !.due = TRUE]

-----------------------------------------------------------------------------
(* The account flows.                                                      *)

\* A password reset is requested: the token replaces the account's earlier one.
RequestReset(t) ==
    LET prior == rows \ {User} IN
    /\ job[t].state = "new"
    /\ User \in rows
    /\ ~ScopeLocked(User) /\ \A s \in prior : ~ScopeLocked(s)
    /\ rows' = {User, t}
    /\ job' = [WithoutJobs(prior) EXCEPT ![t] = Enqueued(@)]
    /\ mail' = WithoutMail(prior)
    /\ UNCHANGED <<expired, step, send, faults>>

\* A reset link is used: the token goes, and the user is told by mail n.
UseResetLink(t, n) ==
    /\ t \in rows /\ t \notin expired
    /\ job[n].state = "new"
    /\ ~ScopeLocked(User) /\ ~ScopeLocked(t)
    /\ rows' = rows \ {t}
    /\ job' = [WithoutJobs({t}) EXCEPT ![n] = Enqueued(@)]
    /\ mail' = WithoutMail({t})
    /\ UNCHANGED <<expired, step, send, faults>>

\* The signed-in user changes the password.
ChangePassword(n) ==
    /\ job[n].state = "new"
    /\ User \in rows /\ ~ScopeLocked(User)
    /\ job' = [job EXCEPT ![n] = Enqueued(@)]
    /\ UNCHANGED <<rows, expired, step, send, mail, faults>>

DeleteAccount ==
    LET enqueued == {j \in Jobs : job[j].state # "new"} IN
    /\ User \in rows /\ \A s \in rows : ~ScopeLocked(s)
    /\ rows' = {}
    /\ job' = WithoutJobs(enqueued)
    /\ mail' = WithoutMail(enqueued)
    /\ UNCHANGED <<expired, step, send, faults>>

-----------------------------------------------------------------------------
(* A worker's tick up to its sends.                                        *)

\* A lease that ran out, of a job no send holds.
LockedToo(j) == job[j].state = "leased" /\ job[j].lapsed
OfTheLiving(j) == job[j].state = "leased" /\ job[j].lapsed /\ ~JobLocked(j) /\ job[j].owner # Departed
Recoverable(j) == job[j].state = "leased" /\ job[j].lapsed /\ ~JobLocked(j)

\* The job returns to the queue at once, without the attempt the lease began.
KeepingTheAttempt(r) == [r EXCEPT !.state = "pending", !.owner = Nobody,
                                  !.due = TRUE, !.lapsed = FALSE]
Recover(r) == [r EXCEPT !.state = "pending", !.attempts = @ - 1, !.owner = Nobody,
                        !.due = TRUE, !.lapsed = FALSE]

RequeueExpired(w) ==
    /\ step[w] = "requeue"
    /\ step' = [step EXCEPT ![w] = "tokens"]
    /\ job' = [j \in Jobs |-> IF Recoverable(j) THEN Recover(job[j]) ELSE job[j]]
    /\ UNCHANGED <<rows, expired, send, mail, faults>>

\* Expired token rows go.  The query does not skip locked rows, it waits.
CleanupTokens(w) ==
    LET dead == {t \in rows \ {User} : t \in expired} IN
    /\ step[w] = "tokens"
    /\ \A t \in dead : ~ScopeLocked(t)
    /\ step' = [step EXCEPT ![w] = "finished"]
    /\ rows' = rows \ dead
    /\ job' = WithoutJobs(dead)
    /\ mail' = WithoutMail(dead)
    /\ UNCHANGED <<expired, send, faults>>

\* Jobs that ended over seven days ago go; a job expires within one.
CleanupFinished(w) ==
    /\ step[w] = "finished"
    /\ step' = [step EXCEPT ![w] = "claim"]
    /\ \E old \in SUBSET {j \in expired : job[j].state \in {"sent", "terminal"}} :
         /\ job' = WithoutJobs(old)
         /\ mail' = WithoutMail(old)
    /\ UNCHANGED <<rows, expired, send, faults>>

\* A batch of due jobs is leased.  Which of more due jobs than fit is the
\* query's order; any choice is allowed.
Claim(w) ==
    LET due == {j \in Jobs : job[j].state = "pending" /\ job[j].due /\ ~JobLocked(j)}
    IN \E batch \in SUBSET due :
         /\ step[w] = "claim"
         /\ Cardinality(batch) <= ClaimBatch
         /\ batch = due \/ Cardinality(batch) = ClaimBatch
         /\ step' = [step EXCEPT ![w] = "send"]
         /\ job' = [j \in Jobs |->
                      IF j \in batch
                      THEN [job[j] EXCEPT !.state = "leased", !.attempts = @ + 1,
                                          !.owner = w, !.due = FALSE]
                      ELSE job[j]]
         /\ send' = [send EXCEPT ![w] = [j \in Jobs |->
                       IF j \in batch THEN [NoSend EXCEPT !.phase = "queued"] ELSE @[j]]]
         /\ UNCHANGED <<rows, expired, mail, faults>>

\* The tick ends when every send has.
Join(w) ==
    /\ step[w] = "send"
    /\ \A j \in Jobs : send[w][j] = NoSend
    /\ step' = [step EXCEPT ![w] = "requeue"]
    /\ UNCHANGED <<rows, job, expired, send, mail, faults>>

-----------------------------------------------------------------------------
(* One send.                                                               *)

Running(w) == {j \in Jobs : send[w][j].phase \notin {"none", "queued"}}

SlotsFull(w) == Cardinality(Running(w)) >= MaxConcurrentSends

Ends(w, j) == send' = [send EXCEPT ![w][j] = NoSend]

\* The send has a slot and a transaction, and reads the clock.
StartSend(w, j) ==
    /\ send[w][j].phase = "queued"
    /\ ~SlotsFull(w)
    /\ send' = [send EXCEPT ![w][j] = [phase |-> "started", lapsed |-> job[j].lapsed,
                                       expired |-> j \in expired]]
    /\ UNCHANGED <<rows, job, expired, step, mail, faults>>

\* It locks its scope row.  Without one the job has nothing to be about.
LockScope(w, j) ==
    /\ send[w][j].phase = "started"
    /\ ~ScopeLocked(ScopeOf(j))
    /\ \/ /\ ScopeOf(j) \in rows
          /\ send' = [send EXCEPT ![w][j].phase = "scoped"]
          /\ job' = job
       \/ /\ ScopeOf(j) \notin rows
          /\ Ends(w, j)
          /\ job' = Terminated(j)
    /\ UNCHANGED <<rows, expired, step, mail, faults>>

\* The job is still leased by this worker, and was in time at the clock read.
TrustsItsClaim(w, j) == send[w][j].phase = "scoped"
Leased(w, j) == job[j].state = "leased" /\ job[j].owner = w
Current(w, j) == Leased(w, j) /\ ~send[w][j].lapsed
Readable(w, j) == <<w, j>> \notin Unreadable

\* It locks the job and hands the mail to the sender.
Authorize(w, j) ==
    /\ send[w][j].phase = "scoped"
    /\ Current(w, j) /\ ~send[w][j].expired /\ Readable(w, j)
    /\ send' = [send EXCEPT ![w][j].phase = "sending"]
    /\ UNCHANGED <<rows, job, expired, step, mail, faults>>

\* Not its job any more, or a lease that had run out: nothing is changed.
\* A job it cannot decrypt is marked terminal in a transaction the function
\* then leaves without a commit, so that changes nothing either.
Decline(w, j) ==
    /\ send[w][j].phase = "scoped"
    /\ ~Current(w, j) \/ (~send[w][j].expired /\ ~Readable(w, j))
    /\ Ends(w, j)
    /\ UNCHANGED <<rows, job, expired, step, mail, faults>>

\* An expired job ends unsent.
EndExpired(w, j) ==
    /\ send[w][j].phase = "scoped"
    /\ Current(w, j) /\ send[w][j].expired
    /\ Ends(w, j)
    /\ job' = Terminated(j)
    /\ UNCHANGED <<rows, expired, step, mail, faults>>

\* The sender answers, or its ten seconds run out.  An error is taken for a
\* temporary failure, although the provider may have accepted the mail.
Deliver(w, j) ==
    /\ send[w][j].phase = "sending"
    /\ \E result \in Results, taken \in BOOLEAN :
         /\ result = "accepted" => taken
         /\ result = "permanent" => ~taken
         /\ send' = [send EXCEPT ![w][j].phase = result]
         /\ mail' = IF ~taken THEN mail
                    ELSE [mail EXCEPT ![j].accepted = @ + 1,
                                      ![j].unrecorded = IF result = "accepted" THEN @ ELSE @ + 1]
    /\ UNCHANGED <<rows, job, expired, step, faults>>

\* A temporary failure: the job waits for its next attempt, unless it has none
\* left or the attempt would come too late.
Requeued(r) == [r EXCEPT !.state = "pending", !.owner = Nobody, !.lapsed = FALSE]
AfterFailure(r, tooLate) ==
    IF r.attempts >= MaxAttempts \/ tooLate THEN Ended(r, "terminal") ELSE Requeued(r)

\* The answer is written to the job, and the commit frees both locks.
Settle(w, j) ==
    /\ send[w][j].phase \in Results
    /\ \E tooLate \in BOOLEAN :
         job' = [job EXCEPT ![j] =
                   CASE send[w][j].phase = "accepted"  -> Ended(@, "sent")
                     [] send[w][j].phase = "permanent" -> Ended(@, "terminal")
                     [] send[w][j].phase = "temporary" -> AfterFailure(@, tooLate)]
    /\ mail' = IF send[w][j].phase = "temporary"
               THEN [mail EXCEPT ![j].failed = @ + 1] ELSE mail
    /\ Ends(w, j)
    /\ UNCHANGED <<rows, expired, step, faults>>

-----------------------------------------------------------------------------
(* Faults and time.                                                        *)

\* An acceptance that only the lost transaction knew of.
Forgotten(W, J) == [j \in Jobs |->
    IF j \in J /\ \E w \in W : send[w][j].phase = "accepted"
    THEN [mail[j] EXCEPT !.unrecorded = @ + 1] ELSE mail[j]]

Fault == faults < MaxFaults /\ faults' = faults + 1

\* A statement or the commit of a send fails, or the worker is told to stop.
AbortSend(w, j) ==
    /\ send[w][j].phase \notin {"none", "queued"}
    /\ Fault
    /\ Ends(w, j)
    /\ mail' = Forgotten({w}, {j})
    /\ UNCHANGED <<rows, job, expired, step>>

\* A transaction of the tick fails: the next tick begins anew.
AbortTick(w) ==
    /\ step[w] \in {"tokens", "finished", "claim"}
    /\ Fault
    /\ step' = [step EXCEPT ![w] = "requeue"]
    /\ UNCHANGED <<rows, job, expired, send, mail>>

\* The process dies with its transactions.  Its successor has another id.
Crash(w) ==
    /\ Fault
    /\ step' = [step EXCEPT ![w] = "requeue"]
    /\ send' = [send EXCEPT ![w] = [j \in Jobs |-> NoSend]]
    /\ job' = [j \in Jobs |-> IF job[j].owner = w THEN [job[j] EXCEPT !.owner = Departed]
                                                  ELSE job[j]]
    /\ mail' = Forgotten({w}, Jobs)
    /\ UNCHANGED <<rows, expired>>

ComesDue(j) ==
    /\ job[j].state = "pending" /\ ~job[j].due
    /\ job' = [job EXCEPT ![j].due = TRUE]
    /\ UNCHANGED <<rows, expired, step, send, mail, faults>>

\* A lease is long.  A send outlasts it only during the sender's call, its own
\* or one it waits for with a slot or a row lock, unless its process stalls; a
\* lease that no send uses any more runs out.
Slow(w, j) == \/ send[w][j].phase \in JobLocking
              \/ /\ send[w][j].phase = "started"
                 /\ \E v \in Workers, k \in Jobs : /\ ScopeOf(k) = ScopeOf(j)
                                                  /\ send[v][k].phase \in JobLocking
Waits(w, j) == \/ send[w][j] = NoSend
               \/ Slow(w, j)
               \/ send[w][j].phase = "queued" /\ SlotsFull(w) /\ \E k \in Running(w) : Slow(w, k)
Lapses(j) ==
    /\ job[j].state = "leased" /\ ~job[j].lapsed
    /\ IF \A w \in Workers : job[j].owner = w => Waits(w, j) THEN faults' = faults ELSE Fault
    /\ job' = [job EXCEPT ![j].lapsed = TRUE]
    /\ UNCHANGED <<rows, expired, step, send, mail>>

Expires(j) ==
    /\ j \notin expired
    /\ job[j].state \notin {"new", "gone"} \/ j \in rows
    /\ expired' = expired \cup {j}
    /\ UNCHANGED <<rows, job, step, send, mail, faults>>

-----------------------------------------------------------------------------

Flows ==
    \/ \E t \in TokenJobs : RequestReset(t)
    \/ \E t \in TokenJobs, n \in Notices : UseResetLink(t, n)
    \/ \E n \in Notices : ChangePassword(n)
    \/ DeleteAccount

Tick(w) == RequeueExpired(w) \/ CleanupTokens(w) \/ CleanupFinished(w) \/ Claim(w) \/ Join(w)

Sends(w, j) == \/ StartSend(w, j) \/ LockScope(w, j)
               \/ Authorize(w, j) \/ Decline(w, j) \/ EndExpired(w, j)
               \/ Deliver(w, j) \/ Settle(w, j)

Faults == \E w \in Workers : AbortTick(w) \/ Crash(w) \/ \E j \in Jobs : AbortSend(w, j)

Time == \E j \in Jobs : ComesDue(j) \/ Lapses(j) \/ Expires(j)

Next ==
    \/ Flows
    \/ \E w \in Workers : Tick(w) \/ \E j \in Jobs : Sends(w, j)
    \/ Faults
    \/ Time

Spec == Init /\ [][Next]_vars

\* Workers tick every second and time passes.  A row lock is granted in the
\* order it was asked for, so whoever waits for one gets it.
Fairness ==
    /\ \A w \in Workers :
         /\ WF_vars(RequeueExpired(w)) /\ WF_vars(CleanupFinished(w))
         /\ SF_vars(CleanupTokens(w))
         /\ WF_vars(Claim(w)) /\ WF_vars(Join(w))
         /\ \A j \in Jobs :
              /\ WF_vars(StartSend(w, j)) /\ SF_vars(LockScope(w, j))
              /\ WF_vars(Authorize(w, j) \/ Decline(w, j) \/ EndExpired(w, j))
              /\ WF_vars(Deliver(w, j)) /\ WF_vars(Settle(w, j))
    /\ \A j \in Jobs : WF_vars(ComesDue(j)) /\ WF_vars(Lapses(j)) /\ WF_vars(Expires(j))

FairSpec == Spec /\ Fairness

-----------------------------------------------------------------------------
(* Properties.                                                             *)

\* A mail is handed to the provider, and its answer awaited and written, only
\* while its token or user row is there and no other send has its job: a token
\* that was replaced, used or expired away cannot be mailed after that, though
\* the job was claimed before, and although leases run out during a send.
SendsUnderAuthority ==
    \A w \in Workers, j \in Jobs :
      send[w][j].phase \in JobLocking =>
        /\ ScopeOf(j) \in rows
        /\ Leased(w, j)
        /\ \A v \in Workers \ {w} : send[v][j].phase \notin JobLocking

\* The attempt count of a job that has not ended is the number of temporary
\* failures it has had and the attempt it is leased for, whatever leases ran
\* out in between, and it never runs past the last attempt: a row out of the
\* schema's range would make every claim of the table fail.
AttemptsCountFailures ==
    \A j \in Jobs :
      Live(j) => /\ job[j].attempts = mail[j].failed + (IF job[j].state = "leased" THEN 1 ELSE 0)
                 /\ mail[j].failed < MaxAttempts

\* The provider accepts a mail twice only if an acceptance was never written to
\* the job: every acceptance is the one that made the job sent, the one about
\* to, or one whose answer or commit was lost.
AcceptancesAccounted ==
    \A j \in Jobs :
      LET written == IF job[j].state = "sent" \/ \E w \in Workers : send[w][j].phase = "accepted"
                     THEN 1 ELSE 0
      IN mail[j].accepted = mail[j].unrecorded + written

\* What the transactions guarantee each other, from which the above follows:
\* a scope row has at most one holder and stays while it is held, a job that is
\* held is leased by its holder, and a job not yet enqueued has no past.
ScopesExclusive ==
    \A w, v \in Workers, j, k \in Jobs :
      /\ send[w][j].phase \in ScopeLocking /\ send[v][k].phase \in ScopeLocking
      /\ ScopeOf(j) = ScopeOf(k)
      => w = v /\ j = k

HeldRowsStay ==
    \A w \in Workers, j \in Jobs : send[w][j].phase \in ScopeLocking => ScopeOf(j) \in rows

HeldJobsLeased ==
    \A w \in Workers, j \in Jobs : send[w][j].phase \in JobLocking => Leased(w, j)

NewJobs ==
    \A j \in Jobs : job[j].state = "new" => job[j] = NoJob("new") /\ mail[j] = NoMail /\ j \notin rows

IInv ==
    /\ TypeOK
    /\ ScopesExclusive
    /\ HeldRowsStay
    /\ HeldJobsLeased
    /\ NewJobs
    /\ AttemptsCountFailures
    /\ AcceptancesAccounted

\* Every job is sent, ends without, or goes with what it was about, also when a
\* worker cannot read it, when leases run out and when workers die.
EveryMailEnds == \A j \in Jobs : Live(j) ~> ~Live(j)

\* worker.go:345-348 and 365-367: a job that does not decrypt is terminated.
UndecryptableEndsTerminal ==
    [][\A w \in Workers, j \in Jobs :
         send[w][j].phase = "scoped" /\ Current(w, j) /\ ~Readable(w, j) /\ Decline(w, j)
           => job'[j].state = "terminal"]_vars
=============================================================================

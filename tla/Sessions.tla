------------------------------- MODULE Sessions -------------------------------
(***************************************************************************)
(* The sessions of one account: auth.SessionManager and the handlers that  *)
(* end sessions.                                                           *)
(*                                                                         *)
(* A session row carries one bearer token.  A token older than RotationAge *)
(* is replaced when it is used: the row is given a deadline, and a         *)
(* successor row is inserted in a transaction of its own.  The deadline is *)
(* far while nobody has shown the successor's token, whose only delivery   *)
(* may be lost, and near once somebody has.  Requests run at once, and     *)
(* each compares its own, possibly stale reading of the clock.             *)
(***************************************************************************)
EXTENDS Integers, FiniteSets

CONSTANTS
    Rows,             \* ids of session rows: bound on how many are inserted
    Requests,         \* requests in progress: bound on concurrency
    RotationAge,      \* rotationAge, 24 hours
    RotationGrace,    \* rotationGrace, 60 seconds
    LastSeenThrottle, \* lastSeenThrottle, 1 hour
    IdleTimeout,      \* idleTimeout, 30 days
    AbsoluteTimeout,  \* absoluteTimeout, 90 days
    MaxClock,         \* bound: the last moment
    MaxSpan,          \* bound: how much time passes during one request
    MaxEpoch,         \* bound: how often factors change
    MaxSignIns,       \* bound: how often the user signs in
    NoRow             \* no session

ASSUME TimesAssumption ==
    /\ {RotationAge, RotationGrace, LastSeenThrottle, IdleTimeout, AbsoluteTimeout,
        MaxClock, MaxSpan, MaxEpoch, MaxSignIns} \subseteq Nat
    /\ RotationGrace <= RotationAge
ASSUME NoRowAssumption == NoRow \notin Rows

VARIABLES
    clock,     \* the wall clock
    epoch,     \* users.auth_epoch
    inserted,  \* the rows there are
    row,       \* their columns
    req,       \* the requests in progress
    delivered, \* history: rows whose token reached the client
    shown,     \* history: successors whose token was presented and accepted
    ended      \* history: sign-ins (root rows) that were ended for good

vars == <<clock, epoch, inserted, row, req, delivered, shown, ended>>

Unset == -1     \* rotation_grace_until IS NULL
Phases == {"idle", "first", "mark", "rotate", "insert", "touch", "served",
           "predecessor", "successor"}

NoSession == [created |-> 0, seen |-> 0, expires |-> 0, grace |-> Unset, from |-> NoRow,
              root |-> NoRow, epoch |-> 0, revoked |-> FALSE]
NoRequest == [phase |-> "idle", now |-> 0, sess |-> NoRow, seen |-> 0, fixed |-> FALSE]

Init ==
    /\ clock = 0
    /\ epoch = 0
    /\ inserted = {}
    /\ row = [s \in Rows |-> NoSession]
    /\ req = [q \in Requests |-> NoRequest]
    /\ delivered = {}
    /\ shown = {}
    /\ ended = {}

-----------------------------------------------------------------------------
(* Session rows.                                                           *)

GraceOver(r, now) == r.grace # Unset /\ now > r.grace

Dead(r, now) ==
    \/ r.revoked
    \/ now - r.seen > IdleTimeout
    \/ now > r.expires
    \/ GraceOver(r, now)

\* What the token lookup, or a handler under the user lock, accepts at a time.
Usable(s, now) == s \in inserted /\ row[s].epoch = epoch /\ ~Dead(row[s], now)

\* The exact successor; rotated_from is unique, so there is at most one.
Successors(s) == {t \in inserted : row[t].from = s}
Partners(s) == ({row[s].from} \cup Successors(s)) \cap inserted

SignIns == {s \in inserted : row[s].from = NoRow /\ row[s].root = s}
Roots(S) == {row[s].root : s \in S}

\* A row without lineage.
Fresh(s, created, seen, expires, ep) ==
    [created |-> created, seen |-> seen, expires |-> expires, grace |-> Unset,
     from |-> NoRow, root |-> s, epoch |-> ep, revoked |-> FALSE]

\* The columns a successor inherits from the row p it replaces.
Successor(p, now) ==
    [row[p] EXCEPT !.created = now, !.seen = now, !.grace = Unset, !.from = p,
                   !.revoked = FALSE]

Revoked(S) == [s \in Rows |-> IF s \in S THEN [row[s] EXCEPT !.revoked = TRUE] ELSE row[s]]

-----------------------------------------------------------------------------
(* Authenticate, one statement at a time.                                  *)

Tick ==
    /\ clock < MaxClock
    /\ \A q \in Requests : req[q].phase # "idle" => clock < req[q].now + MaxSpan
    /\ clock' = clock + 1
    /\ UNCHANGED <<epoch, inserted, row, req, delivered, shown, ended>>

Goes(q, phase) == req' = [req EXCEPT ![q].phase = phase]
Serves(q, s) == req' = [req EXCEPT ![q] = [NoRequest EXCEPT !.phase = "served",
                                                 !.now = req[q].now, !.sess = s]]
Ends(q) == req' = [req EXCEPT ![q] = NoRequest]

\* Rotation is due for row r, as it was read.
RotateOrTouch(now, r) ==
    IF now - r.created > RotationAge /\ r.grace = Unset THEN "rotate" ELSE "touch"

\* The token lookup; the request keeps its reading of the clock to its end.
Lookup(q, s) ==
    LET r == row[s] IN
    /\ req[q].phase = "idle"
    /\ s \in delivered
    /\ Usable(s, clock)
    /\ req' = [req EXCEPT ![q] =
         [phase |-> IF r.from # NoRow /\ r.seen = r.created
                       THEN "first" ELSE RotateOrTouch(clock, r),
          now |-> clock, sess |-> s, seen |-> r.seen, fixed |-> r.grace # Unset]]
    /\ shown' = IF r.from # NoRow THEN shown \cup {s} ELSE shown
    /\ UNCHANGED <<clock, epoch, inserted, row, delivered, ended>>

\* The row as this request has it in memory; a deadline only matters as set.
Held(q) == [row[req[q].sess] EXCEPT !.grace = IF req[q].fixed THEN 0 ELSE Unset]

MovesAnyway(p, to) == ~row[p].revoked /\ row[p].grace # Unset
MovesIn(p, to) == ~row[p].revoked /\ row[p].grace # Unset /\ row[p].grace > to

\* First use of a successor proves that its token was delivered.
StartPredecessorGrace(q) ==
    LET p == row[req[q].sess].from
        to == req[q].now + RotationGrace IN
    /\ req[q].phase = "first"
    /\ row' = IF MovesIn(p, to) THEN [row EXCEPT ![p].grace = to] ELSE row
    /\ Goes(q, IF req[q].now > req[q].seen THEN "mark" ELSE RotateOrTouch(req[q].now, Held(q)))
    /\ UNCHANGED <<clock, epoch, inserted, delivered, shown, ended>>

MarkFirstUse(q) ==
    /\ req[q].phase = "mark"
    /\ row' = [row EXCEPT ![req[q].sess].seen = req[q].now]
    /\ req' = [req EXCEPT ![q].seen = req[q].now, ![q].phase = RotateOrTouch(req[q].now, Held(q))]
    /\ UNCHANGED <<clock, epoch, inserted, delivered, shown, ended>>

Admissible(s) == row[s].grace = Unset /\ ~row[s].revoked

ParkedToTheEnd(q) == row[req[q].sess].expires
ParkedUntil(q) ==
    LET far == req[q].now + RotationAge
        end == row[req[q].sess].expires IN
    IF far > end THEN end ELSE far

\* The conditional update that admits one winner; a loser goes on with its row.
BeginRotation(q) ==
    LET s == req[q].sess IN
    /\ req[q].phase = "rotate"
    /\ IF Admissible(s)
          THEN /\ row' = [row EXCEPT ![s].grace = ParkedUntil(q)]
               /\ Goes(q, "insert")
          ELSE /\ Goes(q, "touch")
               /\ UNCHANGED row
    /\ UNCHANGED <<clock, epoch, inserted, delivered, shown, ended>>

\* The predecessor, read again under the user lock, may still have a successor.
StillCurrent(s) == row[s].epoch = epoch
NotReadAgain(s) == TRUE
StillLive(s) == ~row[s].revoked

\* The winner's transaction.
InsertSuccessor(q) ==
    LET p == req[q].sess IN
    /\ req[q].phase = "insert"
    /\ \/ /\ ~StillCurrent(p)
          /\ Ends(q)
          /\ UNCHANGED <<inserted, row>>
       \/ /\ StillCurrent(p) /\ ~StillLive(p)
          /\ Goes(q, "touch")
          /\ UNCHANGED <<inserted, row>>
       \/ /\ StillCurrent(p) /\ StillLive(p)
          /\ \E s \in Rows \ inserted :
               /\ inserted' = inserted \cup {s}
               /\ row' = [row EXCEPT ![s] = Successor(p, req[q].now)]
               /\ Serves(q, s)
    /\ UNCHANGED <<clock, epoch, delivered, shown, ended>>

\* At most one write per throttle period.
TouchLastSeen(q) ==
    /\ req[q].phase = "touch"
    /\ row' = IF req[q].now - req[q].seen >= LastSeenThrottle
                 THEN [row EXCEPT ![req[q].sess].seen = req[q].now] ELSE row
    /\ Serves(q, req[q].sess)
    /\ UNCHANGED <<clock, epoch, inserted, delivered, shown, ended>>

\* A reply that carries the token of row s may be lost.
Sends(s) ==
    \E arrived \in BOOLEAN : delivered' = IF arrived THEN delivered \cup {s} ELSE delivered

\* Every other handler, and one whose gate refuses the caller or finds nothing.
Reply(q) ==
    /\ req[q].phase = "served"
    /\ Sends(req[q].sess)
    /\ Ends(q)
    /\ UNCHANGED <<clock, epoch, inserted, row, shown, ended>>

\* A statement fails or the caller leaves: what was committed stays.
Fail(q) ==
    /\ req[q].phase # "idle"
    /\ Ends(q)
    /\ UNCHANGED <<clock, epoch, inserted, row, delivered, shown, ended>>

-----------------------------------------------------------------------------
(* Logout: four statements, no transaction.                                *)

\* What ends with row s: its sign-in, unless s is past its deadline by now,
\* when a later successor may have taken over.
EndedWith(s) == IF GraceOver(row[s], clock) THEN {} ELSE {row[s].root}

RevokeCurrent(q) ==
    /\ req[q].phase = "served"
    /\ row' = Revoked({req[q].sess})
    /\ Goes(q, IF row[req[q].sess].from # NoRow THEN "predecessor" ELSE "successor")
    /\ UNCHANGED <<clock, epoch, inserted, delivered, shown, ended>>

RevokePredecessor(q) ==
    /\ req[q].phase = "predecessor"
    /\ row' = Revoked({row[req[q].sess].from})
    /\ Goes(q, "successor")
    /\ UNCHANGED <<clock, epoch, inserted, delivered, shown, ended>>

\* The successor's row is read and revoked; the reply is a success.
RevokeSuccessor(q) ==
    /\ req[q].phase = "successor"
    /\ row' = Revoked(Successors(req[q].sess))
    /\ ended' = ended \cup EndedWith(req[q].sess)
    /\ Ends(q)
    /\ UNCHANGED <<clock, epoch, inserted, delivered, shown>>

-----------------------------------------------------------------------------
(* Transactions under the user row lock.                                   *)

\* When the handler read its clock.
HandlerTimes(q) == req[q].now..clock

\* lockCallerSession: the caller's row, read again, is live and current.
CallerTrusted(q, at) == TRUE
CallerAllowed(q, at) == Usable(req[q].sess, at)

\* A listed session: its row and its exact partners.
RevokeSession(q, t) ==
    /\ req[q].phase = "served"
    /\ \E at \in HandlerTimes(q) :
         /\ CallerAllowed(q, at)
         /\ t \in inserted /\ ~Dead(row[t], at)
    /\ row' = Revoked({t} \cup Partners(t))
    /\ ended' = ended \cup EndedWith(t)
    /\ Sends(req[q].sess)
    /\ Ends(q)
    /\ UNCHANGED <<clock, epoch, inserted, shown>>

RevokeAllSessions(q) ==
    /\ req[q].phase = "served"
    /\ \E at \in HandlerTimes(q) : CallerAllowed(q, at)
    /\ row' = Revoked(inserted)
    /\ ended' = ended \cup Roots(inserted)
    /\ Ends(q)
    /\ UNCHANGED <<clock, epoch, inserted, delivered, shown>>

\* Revoke every row and give the caller a fresh one; its token may be lost.
Replace(q, s, new) ==
    /\ s \in Rows \ inserted
    /\ inserted' = inserted \cup {s}
    /\ row' = [Revoked(inserted) EXCEPT ![s] = new]
    /\ ended' = ended \cup Roots(inserted)
    /\ Sends(s)
    /\ Ends(q)

\* A factor is added or removed: the epoch advances in the same transaction,
\* and the new row keeps the age and the deadline of the current one.
ChangeFactor(q, s) ==
    LET current == row[req[q].sess] IN
    /\ req[q].phase = "served"
    /\ epoch < MaxEpoch
    /\ epoch' = epoch + 1
    /\ \E at \in HandlerTimes(q) :
         /\ CallerAllowed(q, at)
         /\ Replace(q, s, Fresh(s, current.created, at, current.expires, epoch'))
    /\ UNCHANGED <<clock, shown>>

\* The password is set: a new row at the same epoch, as old as the request.
ChangePassword(q, s) ==
    LET current == row[req[q].sess] IN
    /\ req[q].phase = "served"
    /\ \E at \in HandlerTimes(q) :
         /\ CallerAllowed(q, at)
         /\ Replace(q, s, Fresh(s, at, at, current.expires, epoch))
    /\ UNCHANGED <<clock, epoch, shown>>

\* A mailed reset link is used: no session is needed and none is issued.
ResetPassword ==
    /\ inserted # {}
    /\ row' = Revoked(inserted)
    /\ ended' = ended \cup Roots(inserted)
    /\ UNCHANGED <<clock, epoch, inserted, req, delivered, shown>>

SignIn(s) ==
    /\ s \in Rows \ inserted
    /\ Cardinality(SignIns) < MaxSignIns
    /\ inserted' = inserted \cup {s}
    /\ row' = [row EXCEPT ![s] = Fresh(s, clock, clock, clock + AbsoluteTimeout, epoch)]
    /\ delivered' = delivered \cup {s}
    /\ UNCHANGED <<clock, epoch, req, shown, ended>>

-----------------------------------------------------------------------------
Authenticating(q) ==
    \/ \E s \in Rows : Lookup(q, s)
    \/ StartPredecessorGrace(q) \/ MarkFirstUse(q)
    \/ BeginRotation(q) \/ InsertSuccessor(q) \/ TouchLastSeen(q)
    \/ Reply(q) \/ Fail(q)

Ending(q) ==
    \/ RevokeCurrent(q) \/ RevokePredecessor(q) \/ RevokeSuccessor(q)
    \/ RevokeAllSessions(q)
    \/ \E s \in Rows : RevokeSession(q, s) \/ ChangeFactor(q, s) \/ ChangePassword(q, s)

Next ==
    \/ Tick
    \/ ResetPassword
    \/ \E s \in Rows : SignIn(s)
    \/ \E q \in Requests : Authenticating(q) \/ Ending(q)

Spec == Init /\ [][Next]_vars

-----------------------------------------------------------------------------
(* Correctness.                                                            *)

TypeOK ==
    /\ clock \in 0..MaxClock
    /\ epoch \in 0..MaxEpoch
    /\ inserted \in SUBSET Rows
    /\ row \in [Rows -> [created : Nat, seen : Nat, expires : Nat, grace : Nat \cup {Unset},
                         from : Rows \cup {NoRow}, root : Rows \cup {NoRow},
                         epoch : Nat, revoked : BOOLEAN]]
    /\ req \in [Requests -> [phase : Phases, now : Nat, sess : Rows \cup {NoRow},
                             seen : Nat, fixed : BOOLEAN]]
    /\ delivered \in SUBSET inserted
    /\ shown \in SUBSET delivered
    /\ ended \in SUBSET inserted

\* Once a sign-in was ended, by logout, from the list of devices, everywhere,
\* or by a change of password or factors, no token of it is accepted again:
\* also not of a successor that a rotation admitted before was inserting, nor
\* of the partner of a row that was revoked alone.
EndedStaysOut == \A s \in inserted : row[s].root \in ended => ~Usable(s, clock)

\* Rotation never leaves more than the token in use and the one it replaces:
\* of one sign-in two rows at most are usable, a row and its exact successor,
\* so revoking the exact partners of a row revokes all there is.
OnePairPerSignIn ==
    \A s, t \in inserted :
        s # t /\ row[s].root = row[t].root /\ Usable(s, clock) /\ Usable(t, clock)
            => row[s].from = t \/ row[t].from = s

\* A deadline, once set, only moves in, and only once the successor's token has
\* been presented: a lost reply never shortens the life of the token the client
\* still has, and using a token never lengthens that of the one it replaced.
DeadlineOnlyShrinksOnProof ==
    [][\A p \in inserted : row[p].grace # Unset /\ row'[p].grace # row[p].grace =>
            /\ row'[p].grace # Unset /\ row'[p].grace < row[p].grace
            /\ \E s \in shown : row[s].from = p]_vars

\* Nothing is done for a caller whose sign-in was ended: it gets no new row, by
\* rotation or replacement, and ends nobody else's session.  The exception is a
\* handler that read its clock before its row's deadline and waited for the user
\* lock past it, while the next generations of the sign-in came and were ended.
EndedCannotAct ==
    [][\A q \in Requests :
         LET caller == req[q].sess IN
         /\ caller \in inserted /\ row[caller].root \in ended /\ req'[q] # req[q]
         /\ req[q].phase = "served" => ~GraceOver(row[caller], clock)
         => inserted' = inserted /\ ended' = ended /\ epoch' = epoch]_vars

-----------------------------------------------------------------------------
(* The inductive invariant: TypeOK and the parts below.                    *)

\* A row that was rotated once has a predecessor whose deadline is, at the
\* latest, the moment from which the row itself may be rotated.
Lineage ==
    \A s \in inserted :
        /\ row[s].root \in inserted
        /\ row[s].from = NoRow => row[s].root = s
        /\ row[s].from # NoRow =>
            LET p == row[s].from IN
            /\ p \in inserted /\ row[p].root = row[s].root
            /\ row[p].grace # Unset /\ row[p].grace <= row[s].created + RotationAge
            /\ row[s].grace # Unset => GraceOver(row[p], clock)

\* The generations of a sign-in are one line: no row has two successors, and
\* only one row has none.
OneLine ==
    /\ \A s, t \in inserted : row[s].from = row[t].from /\ row[s].from # NoRow => s = t
    /\ \A s, t \in inserted :
        s # t /\ row[s].root = row[t].root => Successors(s) # {} \/ Successors(t) # {}

\* What a request has established by its phase.
Caller(q) ==
    LET s == req[q].sess
        phase == req[q].phase IN
    phase # "idle" =>
        /\ s \in inserted /\ req[q].now <= clock
        /\ phase = "first" => row[s].from # NoRow /\ s \in shown
        /\ phase = "rotate" => req[q].now - row[s].created > RotationAge
        /\ phase = "insert" =>
            /\ Successors(s) = {}
            /\ row[s].grace # Unset /\ row[s].grace <= req[q].now + RotationAge
            /\ \A r \in Requests \ {q} : req[r].phase = "insert" => req[r].sess # s
        /\ phase \in {"predecessor", "successor"} => row[s].revoked
        /\ phase = "successor" => row[s].from = NoRow \/ row[row[s].from].revoked

\* The rows of an ended sign-in that nobody revoked were replaced, and are past
\* their deadlines.
EndedIsOver ==
    \A s \in inserted :
        row[s].root \in ended => row[s].revoked \/ (Successors(s) # {} /\ GraceOver(row[s], clock))

IInv == TypeOK /\ Lineage /\ OneLine /\ (\A q \in Requests : Caller(q)) /\ EndedIsOver
=============================================================================

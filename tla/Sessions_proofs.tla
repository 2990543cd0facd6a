---------------------------- MODULE Sessions_proofs ----------------------------
(***************************************************************************)
(* Proofs about Sessions, for any number of rows, requests, sign-ins and   *)
(* epochs, any lifetimes and any delays: its inductive invariant and what  *)
(* follows from it.                                                        *)
(***************************************************************************)
EXTENDS Sessions, TLAPS

SessionRecords == [created : Nat, seen : Nat, expires : Nat, grace : Nat \cup {Unset},
                   from : Rows \cup {NoRow}, root : Rows \cup {NoRow},
                   epoch : Nat, revoked : BOOLEAN]
RequestRecords == [phase : Phases, now : Nat, sess : Rows \cup {NoRow},
                   seen : Nat, fixed : BOOLEAN]

LEMMA Constants ==
    /\ RotationAge \in Nat /\ RotationGrace \in Nat /\ LastSeenThrottle \in Nat
    /\ IdleTimeout \in Nat /\ AbsoluteTimeout \in Nat
    /\ MaxClock \in Nat /\ MaxSpan \in Nat /\ MaxEpoch \in Nat /\ MaxSignIns \in Nat
    /\ NoRow \notin Rows /\ Unset \notin Nat
    /\ NoRequest \in RequestRecords /\ NoRequest.phase = "idle"
    /\ NoSession \in SessionRecords
  BY TimesAssumption, NoRowAssumption DEF Unset, NoRequest, NoSession, RequestRecords, SessionRecords, Phases

LEMMA TypesOf ==
    ASSUME TypeOK
    PROVE  /\ clock \in Nat /\ epoch \in Nat /\ inserted \subseteq Rows
           /\ row \in [Rows -> SessionRecords] /\ req \in [Requests -> RequestRecords]
           /\ \A s \in inserted : s \in Rows /\ s # NoRow /\ row[s] \in SessionRecords
           /\ \A q \in Requests : req[q] \in RequestRecords
  BY Constants DEF TypeOK, SessionRecords, RequestRecords

-----------------------------------------------------------------------------
(* Steps that insert no row.                                               *)

\* Rows stay, and stay revoked; a deadline, once set, stays set and only moves in.
SameRows ==
    /\ inserted' = inserted
    /\ \A s \in inserted :
        /\ row'[s].created = row[s].created /\ row'[s].from = row[s].from
        /\ row'[s].root = row[s].root
        /\ row[s].revoked => row'[s].revoked
        /\ row[s].grace # Unset => row'[s].grace # Unset /\ row'[s].grace <= row[s].grace

\* The successors of a row after a step.
SuccessorsLater(s) == {t \in inserted' : row'[t].from = s}

LEMMA SameSuccessors ==
    ASSUME SameRows
    PROVE  /\ \A s : Successors(s)' = Successors(s)
           /\ \A s : SuccessorsLater(s) = Successors(s)
  BY DEF SameRows, Successors, SuccessorsLater

\* A deadline that has passed stays passed.
LEMMA OverForGood ==
    ASSUME TypeOK, TypeOK', SameRows, clock' >= clock, NEW s \in inserted, GraceOver(row[s], clock)
    PROVE  GraceOver(row[s], clock)'
<1>1. /\ clock \in Nat /\ clock' \in Nat
      /\ row[s].grace \in Nat /\ row'[s].grace \in Nat \cup {Unset}
  BY Constants DEF TypeOK, GraceOver
<1> QED
  BY <1>1 DEF SameRows, GraceOver, Unset

\* What Caller says of q after a step, of the request as it then is.
CallerLater(q, phase, s, now) ==
    /\ s \in inserted' /\ now <= clock'
    /\ phase = "first" => row'[s].from # NoRow /\ s \in shown'
    /\ phase = "rotate" => now - row'[s].created > RotationAge
    /\ phase = "insert" =>
        /\ SuccessorsLater(s) = {}
        /\ row'[s].grace # Unset /\ row'[s].grace <= now + RotationAge
        /\ \A r \in Requests \ {q} : req'[r].phase = "insert" => req'[r].sess # s
    /\ phase \in {"predecessor", "successor"} => row'[s].revoked
    /\ phase = "successor" => row'[s].from = NoRow \/ row'[row'[s].from].revoked

LEMMA CallerPrimed ==
    ASSUME NEW q \in Requests,
           req'[q].phase # "idle" => CallerLater(q, req'[q].phase, req'[q].sess, req'[q].now)
    PROVE  Caller(q)'
<1>1. CASE req'[q].phase = "idle"
  BY <1>1 DEF Caller
<1>2. CASE req'[q].phase # "idle"
  <2>1. CallerLater(q, req'[q].phase, req'[q].sess, req'[q].now)
    BY <1>2
  <2> QED
    BY <2>1 DEF Caller, CallerLater, SuccessorsLater, Successors
<1> QED
  BY <1>1, <1>2

LEMMA SameRowsKeep ==
    ASSUME IInv, TypeOK', SameRows, clock' >= clock, shown \subseteq shown',
           \A q, r \in Requests : q # r => req'[q] = req[q] \/ req'[r] = req[r],
           \A q \in Requests : req'[q] # req[q] => Caller(q)',
           \A s \in inserted : row[s].grace = Unset /\ row'[s].grace # Unset
                /\ row[s].from # NoRow => GraceOver(row[row[s].from], clock),
           \A s \in inserted : row[s].root \in ended' \ ended =>
                row'[s].revoked \/ (Successors(s) # {} /\ GraceOver(row[s], clock))
    PROVE  IInv'
<1>1. \A s : Successors(s)' = Successors(s) /\ SuccessorsLater(s) = Successors(s)
  BY SameSuccessors
<1>2. \A s \in inserted : GraceOver(row[s], clock) => GraceOver(row[s], clock)'
  BY OverForGood DEF IInv
<1>3. /\ clock \in Nat /\ clock' \in Nat
      /\ \A s \in inserted : /\ row[s].grace \in Nat \cup {Unset}
                             /\ row'[s].grace \in Nat \cup {Unset}
                             /\ row[s].created \in Nat
      /\ \A q \in Requests : req[q].now \in Nat
  BY Constants DEF IInv, TypeOK, SameRows
<1>4. Lineage'
  <2> SUFFICES ASSUME NEW s \in inserted
               PROVE /\ row'[s].root \in inserted
                     /\ row'[s].from = NoRow => row'[s].root = s
                     /\ row'[s].from # NoRow =>
                        LET p == row'[s].from IN
                        /\ p \in inserted /\ row'[p].root = row'[s].root
                        /\ row'[p].grace # Unset /\ row'[p].grace <= row'[s].created + RotationAge
                        /\ row'[s].grace # Unset => GraceOver(row'[p], clock')
    BY DEF SameRows, Lineage
  <2>1. CASE row[s].from = NoRow
    BY <2>1 DEF IInv, Lineage, SameRows
  <2>2. CASE row[s].from # NoRow
    <3> DEFINE p == row[s].from
    <3>1. /\ p \in inserted /\ row[p].root = row[s].root
          /\ row[p].grace # Unset /\ row[p].grace <= row[s].created + RotationAge
          /\ row[s].grace # Unset => GraceOver(row[p], clock)
      BY <2>2 DEF IInv, Lineage
    <3>2. row'[p].grace # Unset /\ row'[p].grace <= row[p].grace /\ row'[p].root = row[p].root
      BY <3>1 DEF SameRows
    <3>3. row'[p].grace <= row[s].created + RotationAge
      BY <1>3, <3>1, <3>2, Constants DEF Unset
    <3>4. row'[s].grace # Unset => GraceOver(row'[p], clock')
      BY <1>2, <2>2, <3>1
    <3> QED
      BY <2>2, <3>1, <3>2, <3>3, <3>4 DEF SameRows, IInv, Lineage
  <2> QED
    BY <2>1, <2>2
<1>5. OneLine'
  BY <1>1 DEF IInv, OneLine, SameRows
<1>6. ASSUME NEW q \in Requests PROVE Caller(q)'
  <2>1. CASE req'[q] # req[q]
    BY <2>1
  <2>2. CASE req'[q] = req[q]
    <3> SUFFICES ASSUME req[q].phase # "idle"
                 PROVE  CallerLater(q, req[q].phase, req[q].sess, req[q].now)
      BY <2>2, CallerPrimed
    <3> DEFINE s == req[q].sess
    <3>1. s \in inserted /\ req[q].now <= clock'
      BY <1>3 DEF IInv, Caller
    <3>2. req[q].phase = "first" => row'[s].from # NoRow /\ s \in shown'
      BY <3>1 DEF IInv, Caller, SameRows
    <3>3. req[q].phase = "rotate" => req[q].now - row'[s].created > RotationAge
      BY <3>1 DEF IInv, Caller, SameRows
    <3>4. req[q].phase = "insert" => row'[s].grace # Unset /\ row'[s].grace <= req[q].now + RotationAge
      BY <1>3, <3>1, Constants DEF IInv, Caller, SameRows, Unset
    <3>5. ASSUME req[q].phase = "insert", NEW r \in Requests \ {q}, req'[r].phase = "insert"
          PROVE  req'[r].sess # s
      <4>1. CASE req'[r] = req[r]
        BY <3>5, <4>1 DEF IInv, Caller
      <4>2. CASE req'[r] # req[r]
        <5>1. Caller(r)'
          BY <4>2
        <5> QED
          BY <2>2, <3>5, <5>1 DEF Caller
      <4> QED
        BY <4>1, <4>2
    <3>6. req[q].phase \in {"predecessor", "successor"} => row'[s].revoked
      BY <3>1 DEF IInv, Caller, SameRows
    <3>7. req[q].phase = "successor" => row'[s].from = NoRow \/ row'[row'[s].from].revoked
      BY <3>1 DEF IInv, Caller, SameRows, Lineage
    <3>8. req[q].phase = "insert" => SuccessorsLater(s) = {}
      BY <1>1 DEF IInv, Caller
    <3>9. inserted' = inserted
      BY DEF SameRows
    <3> QED
      BY <3>1, <3>2, <3>3, <3>4, <3>5, <3>6, <3>7, <3>8, <3>9 DEF CallerLater
  <2> QED
    BY <2>1, <2>2
<1>7. EndedIsOver'
  BY <1>1, <1>2 DEF IInv, EndedIsOver, SameRows
<1> QED
  BY <1>4, <1>5, <1>6, <1>7 DEF IInv

-----------------------------------------------------------------------------
(* Steps that insert a row.                                                *)

\* The rows there were keep their lineage and deadlines, and stay revoked.
Kept ==
    \A s \in inserted :
        /\ row'[s].created = row[s].created /\ row'[s].from = row[s].from
        /\ row'[s].root = row[s].root /\ row'[s].grace = row[s].grace
        /\ row[s].revoked => row'[s].revoked

\* A row without predecessor starts a sign-in of its own.
LEMMA FreshKeeps ==
    ASSUME IInv, TypeOK', Kept, NEW n \in Rows \ inserted, inserted' = inserted \cup {n},
           row'[n].from = NoRow, row'[n].root = n,
           clock' = clock, shown' = shown, ended' \subseteq inserted,
           \A q \in Requests : req'[q] = req[q] \/ req'[q].phase = "idle",
           \A s \in inserted : row[s].root \in ended' \ ended => row'[s].revoked
    PROVE  IInv'
<1>1. /\ \A s \in inserted : s # n /\ s # NoRow /\ row[s].root \in inserted
      /\ NoRow # n
  BY NoRowAssumption DEF IInv, TypeOK, Lineage
<1>2. \A s : s # NoRow => Successors(s)' = Successors(s) /\ SuccessorsLater(s) = Successors(s)
  BY DEF Kept, Successors, SuccessorsLater
<1>3. Lineage'
  <2>1. ASSUME NEW s \in inserted, row[s].from # NoRow
        PROVE  LET p == row[s].from IN
               /\ p \in inserted /\ row'[p].root = row'[s].root
               /\ row'[p].grace # Unset /\ row'[p].grace <= row'[s].created + RotationAge
               /\ row'[s].grace # Unset => GraceOver(row'[p], clock')
    BY <2>1 DEF IInv, Lineage, Kept, GraceOver
  <2> QED
    BY <1>1, <2>1 DEF Lineage, IInv, Kept
<1>4. OneLine'
  BY <1>1, <1>2 DEF IInv, OneLine, Kept
<1>5. ASSUME NEW q \in Requests PROVE Caller(q)'
  <2>1. CASE req'[q].phase = "idle"
    BY <2>1 DEF Caller
  <2>2. CASE req'[q] = req[q] /\ req[q].phase # "idle"
    <3>1. req[q].sess \in inserted
      BY <2>2 DEF IInv, Caller
    <3>2. ASSUME req[q].phase = "insert"
          PROVE  SuccessorsLater(req[q].sess) = {}
      BY <1>1, <1>2, <3>1, <3>2 DEF IInv, Caller
    <3>3. ASSUME req[q].phase = "insert", NEW r \in Requests \ {q}, req'[r].phase = "insert"
          PROVE  req'[r].sess # req[q].sess
      BY <3>3 DEF IInv, Caller
    <3>4. req[q].phase = "successor" => row'[req[q].sess].from = NoRow
                                        \/ row'[row'[req[q].sess].from].revoked
      BY <3>1, <2>2 DEF IInv, Caller, Kept, Lineage
    <3>5. CallerLater(q, req[q].phase, req[q].sess, req[q].now)
      BY <2>2, <3>1, <3>2, <3>3, <3>4 DEF IInv, Caller, Kept, CallerLater
    <3> QED
      BY <2>2, <3>5, CallerPrimed
  <2> QED
    BY <2>1, <2>2
<1>6. EndedIsOver'
  <2> SUFFICES ASSUME NEW s \in inserted, row[s].root \in ended'
               PROVE  row'[s].revoked \/ (Successors(s)' # {} /\ GraceOver(row'[s], clock'))
    BY DEF EndedIsOver, Kept
  <2>1. row[s].root \in ended => row[s].revoked \/ (Successors(s) # {} /\ GraceOver(row[s], clock))
    BY DEF IInv, EndedIsOver
  <2> QED
    BY <1>1, <1>2, <2>1 DEF Kept, GraceOver
<1> QED
  BY <1>3, <1>4, <1>5, <1>6 DEF IInv

LEMMA SuccessorColumns ==
    ASSUME TypeOK, NEW p \in inserted, NEW now \in Nat
    PROVE  /\ Successor(p, now).from = p /\ Successor(p, now).root = row[p].root
           /\ Successor(p, now).created = now /\ Successor(p, now).grace = Unset
           /\ Successor(p, now).revoked = FALSE
           /\ Successor(p, now) \in SessionRecords
<1>1. ASSUME NEW r \in SessionRecords, NEW u,
             u = [r EXCEPT !.created = now, !.seen = now, !.grace = Unset, !.from = p,
                           !.revoked = FALSE]
      PROVE  /\ u.from = p /\ u.root = r.root /\ u.created = now /\ u.grace = Unset
             /\ u.revoked = FALSE /\ u \in SessionRecords
  <2>1. p \in Rows
    BY TypesOf
  <2> QED
    BY <1>1, <2>1 DEF SessionRecords, Unset
<1>2. row[p] \in SessionRecords
  BY TypesOf
<1> DEFINE s == Successor(p, now)
<1>3. s = [row[p] EXCEPT !.created = now, !.seen = now, !.grace = Unset, !.from = p,
                         !.revoked = FALSE]
  BY Zenon DEF Successor
<1> HIDE DEF s
<1>4. /\ s.from = p /\ s.root = row[p].root /\ s.created = now /\ s.grace = Unset
      /\ s.revoked = FALSE /\ s \in SessionRecords
  BY Zenon, <1>1, <1>2, <1>3
<1> QED
  BY <1>4 DEF s

\* The successor of a row that had none, inserted by the request that parked it.
LEMMA SuccessorKeeps ==
    ASSUME IInv, TypeOK', NEW q \in Requests, req[q].phase = "insert",
           StillLive(req[q].sess), NEW n \in Rows \ inserted, inserted' = inserted \cup {n},
           row' = [row EXCEPT ![n] = Successor(req[q].sess, req[q].now)],
           Serves(q, n), UNCHANGED <<clock, epoch, delivered, shown, ended>>
    PROVE  IInv'
<1> DEFINE p == req[q].sess
<1>1. /\ p \in inserted /\ req[q].now \in Nat /\ req[q].now <= clock /\ Successors(p) = {}
      /\ row[p].grace # Unset /\ row[p].grace <= req[q].now + RotationAge
      /\ \A r \in Requests \ {q} : req[r].phase = "insert" => req[r].sess # p
  BY DEF IInv, Caller, TypeOK
<1>2. /\ \A s \in inserted : s # n /\ s \in Rows /\ s # NoRow /\ row'[s] = row[s]
      /\ \A s \in inserted : row[s].root \in inserted
  BY NoRowAssumption DEF IInv, TypeOK, Lineage
<1>3. /\ row'[n].from = p /\ row'[n].root = row[p].root /\ row'[n].created = req[q].now
      /\ row'[n].grace = Unset /\ ~row'[n].revoked
  <2>1. row'[n] = Successor(p, req[q].now)
    BY DEF IInv, TypeOK
  <2>2. /\ Successor(p, req[q].now).from = p /\ Successor(p, req[q].now).root = row[p].root
        /\ Successor(p, req[q].now).created = req[q].now
        /\ Successor(p, req[q].now).grace = Unset /\ Successor(p, req[q].now).revoked = FALSE
    <3> DEFINE now == req[q].now
    <3>1. TypeOK /\ p \in inserted /\ now \in Nat
      BY <1>1 DEF IInv
    <3> HIDE DEF p, now
    <3>2. /\ Successor(p, now).from = p /\ Successor(p, now).root = row[p].root
          /\ Successor(p, now).created = now /\ Successor(p, now).grace = Unset
          /\ Successor(p, now).revoked = FALSE
      BY <3>1, SuccessorColumns
    <3> QED
      BY <3>2 DEF p, now
  <2> QED
    BY <2>1, <2>2
<1>4. /\ \A s \in inserted : s # p => SuccessorsLater(s) = Successors(s)
      /\ \A s : s # p => Successors(s)' = Successors(s)
      /\ \A s : s = p => n \in Successors(s)'
  BY <1>2, <1>3 DEF Successors, SuccessorsLater
<1>5. Lineage'
  <2>1. ASSUME NEW s \in inserted'
        PROVE /\ row'[s].root \in inserted'
              /\ row'[s].from = NoRow => row'[s].root = s
              /\ row'[s].from # NoRow =>
                 LET o == row'[s].from IN
                 /\ o \in inserted' /\ row'[o].root = row'[s].root
                 /\ row'[o].grace # Unset /\ row'[o].grace <= row'[s].created + RotationAge
                 /\ row'[s].grace # Unset => GraceOver(row'[o], clock')
    <3>1. CASE s = n
      BY <1>1, <1>2, <1>3, <3>1
    <3>2. CASE s \in inserted
      BY <1>2, <3>2 DEF IInv, Lineage
    <3> QED
      BY <3>1, <3>2
  <2> QED
    BY <2>1 DEF Lineage
<1>6. OneLine'
  <2>1. ASSUME NEW s \in inserted', NEW t \in inserted', row'[s].from = row'[t].from,
               row'[s].from # NoRow
        PROVE  s = t
    BY <1>1, <1>2, <1>3, <2>1 DEF IInv, OneLine, Successors
  <2>2. ASSUME NEW s \in inserted', NEW t \in inserted', s # t, row'[s].root = row'[t].root
        PROVE  Successors(s)' # {} \/ Successors(t)' # {}
    <3>1. CASE s = n
      BY <1>1, <1>2, <1>3, <1>4, <2>2, <3>1 DEF IInv, OneLine
    <3>2. CASE t = n
      BY <1>1, <1>2, <1>3, <1>4, <2>2, <3>2 DEF IInv, OneLine
    <3>3. CASE s # n /\ t # n
      BY <1>1, <1>2, <1>4, <2>2, <3>3 DEF IInv, OneLine
    <3> QED
      BY <3>1, <3>2, <3>3
  <2> QED
    BY <2>1, <2>2 DEF OneLine
<1>7. ASSUME NEW r \in Requests PROVE Caller(r)'
  <2>1. CASE r = q
    <3>1. /\ req'[q].phase = "served" /\ req'[q].sess = n /\ req'[q].now = req[q].now
      BY DEF Serves, NoRequest, IInv, TypeOK
    <3>2. CallerLater(q, req'[q].phase, req'[q].sess, req'[q].now)
      BY <1>1, <3>1 DEF CallerLater
    <3> QED
      BY <2>1, <3>2, CallerPrimed
  <2>2. CASE r # q
    <3>1. req'[r] = req[r]
      BY <2>2 DEF Serves, IInv, TypeOK
    <3> SUFFICES ASSUME req[r].phase # "idle"
                 PROVE  CallerLater(r, req[r].phase, req[r].sess, req[r].now)
      BY <3>1, CallerPrimed
    <3>2. /\ req[r].sess \in inserted /\ row'[req[r].sess] = row[req[r].sess]
          /\ Caller(r)
      BY <1>2 DEF IInv, Caller
    <3>3. row[req[r].sess].from # NoRow =>
            row'[row[req[r].sess].from] = row[row[req[r].sess].from]
      BY <1>2, <3>2 DEF IInv, Lineage
    <3>4. ASSUME req[r].phase = "insert"
          PROVE  SuccessorsLater(req[r].sess) = {}
      BY <1>1, <1>4, <2>2, <3>2, <3>4 DEF Caller
    <3>5. ASSUME req[r].phase = "insert", NEW o \in Requests \ {r}, req'[o].phase = "insert"
          PROVE  req'[o].sess # req[r].sess
      BY <3>2, <3>5 DEF Caller, Serves, NoRequest, IInv, TypeOK
    <3> QED
      BY <3>2, <3>3, <3>4, <3>5 DEF Caller, CallerLater
  <2> QED
    BY <2>1, <2>2
<1>8. EndedIsOver'
  <2>1. row[p].root \notin ended
    BY <1>1 DEF IInv, EndedIsOver, StillLive
  <2>2. ASSUME NEW s \in inserted, row[s].root \in ended
        PROVE  row'[s].revoked \/ (Successors(s)' # {} /\ GraceOver(row'[s], clock'))
    BY <1>1, <1>2, <1>4, <2>2 DEF IInv, EndedIsOver
  <2> QED
    BY <1>2, <1>3, <2>1, <2>2 DEF EndedIsOver
<1> QED
  BY <1>5, <1>6, <1>7, <1>8 DEF IInv

-----------------------------------------------------------------------------
(* What the parts of a step do to the rows and to the requests.            *)

LEMMA GoesTo ==
    ASSUME TypeOK, NEW q \in Requests, NEW phase \in Phases, Goes(q, phase)
    PROVE  /\ req' \in [Requests -> RequestRecords]
           /\ req'[q].phase = phase /\ req'[q].now = req[q].now /\ req'[q].sess = req[q].sess
           /\ req'[q].seen = req[q].seen /\ req'[q].fixed = req[q].fixed
           /\ \A r \in Requests \ {q} : req'[r] = req[r]
<1>1. req \in [Requests -> RequestRecords]
  BY TypesOf
<1>2. req' = [req EXCEPT ![q] = [req[q] EXCEPT !.phase = phase]]
  BY <1>1 DEF Goes
<1> QED
  BY <1>1, <1>2 DEF RequestRecords

LEMMA ServesTo ==
    ASSUME TypeOK, NEW q \in Requests, NEW s \in Rows, Serves(q, s)
    PROVE  /\ req' \in [Requests -> RequestRecords]
           /\ req'[q].phase = "served" /\ req'[q].now = req[q].now /\ req'[q].sess = s
           /\ \A r \in Requests \ {q} : req'[r] = req[r]
<1>1. req \in [Requests -> RequestRecords] /\ req[q].now \in Nat
  BY TypesOf DEF RequestRecords
<1> QED
  BY <1>1 DEF Serves, NoRequest, RequestRecords, Phases

LEMMA EndsTo ==
    ASSUME TypeOK, NEW q \in Requests, Ends(q)
    PROVE  /\ req' \in [Requests -> RequestRecords]
           /\ req'[q].phase = "idle"
           /\ \A r \in Requests \ {q} : req'[r] = req[r]
  BY TypesOf, Constants DEF Ends

LEMMA RevokedRows ==
    ASSUME TypeOK, NEW S
    PROVE  /\ Revoked(S) \in [Rows -> SessionRecords]
           /\ \A s \in Rows :
                /\ Revoked(S)[s].created = row[s].created /\ Revoked(S)[s].from = row[s].from
                /\ Revoked(S)[s].root = row[s].root /\ Revoked(S)[s].grace = row[s].grace
                /\ Revoked(S)[s].revoked <=> s \in S \/ row[s].revoked
<1> SUFFICES ASSUME NEW s \in Rows
             PROVE  /\ Revoked(S)[s] \in SessionRecords
                    /\ Revoked(S)[s].created = row[s].created /\ Revoked(S)[s].from = row[s].from
                    /\ Revoked(S)[s].root = row[s].root /\ Revoked(S)[s].grace = row[s].grace
                    /\ Revoked(S)[s].revoked <=> s \in S \/ row[s].revoked
  BY DEF Revoked
<1>1. row[s] \in SessionRecords
  BY TypesOf
<1> QED
  BY <1>1 DEF Revoked, SessionRecords

LEMMA RevokedSame ==
    ASSUME TypeOK, NEW S, row' = Revoked(S), inserted' = inserted
    PROVE  /\ row' \in [Rows -> SessionRecords] /\ SameRows
           /\ \A s \in inserted : /\ row'[s].grace = row[s].grace
                                  /\ row'[s].revoked <=> s \in S \/ row[s].revoked
<1>1. \A s \in inserted : s \in Rows /\ row[s] \in SessionRecords
  BY TypesOf
<1> QED
  BY <1>1, RevokedRows DEF SameRows, SessionRecords, Unset

LEMMA SeenRows ==
    ASSUME TypeOK, NEW s \in Rows, NEW now \in Nat, row' = [row EXCEPT ![s].seen = now],
           inserted' = inserted
    PROVE  /\ row' \in [Rows -> SessionRecords] /\ SameRows
           /\ \A t \in inserted : row'[t].grace = row[t].grace
<1>1. \A t \in Rows : row[t] \in SessionRecords
  BY TypesOf
<1>2. \A t \in Rows : /\ row'[t] \in SessionRecords /\ row'[t].grace = row[t].grace
                      /\ row'[t].created = row[t].created /\ row'[t].from = row[t].from
                      /\ row'[t].root = row[t].root /\ row'[t].revoked = row[t].revoked
  BY <1>1, TypesOf DEF SessionRecords
<1>3. row' \in [Rows -> SessionRecords]
  BY <1>2, TypesOf
<1> QED
  BY <1>1, <1>2, <1>3, TypesOf DEF SameRows, SessionRecords, Unset

LEMMA GraceRows ==
    ASSUME TypeOK, NEW s \in Rows, NEW to \in Nat, row' = [row EXCEPT ![s].grace = to]
    PROVE  /\ row' \in [Rows -> SessionRecords]
           /\ \A t \in Rows : /\ row'[t].grace = IF t = s THEN to ELSE row[t].grace
                              /\ row'[t].created = row[t].created /\ row'[t].from = row[t].from
                              /\ row'[t].root = row[t].root /\ row'[t].revoked = row[t].revoked
<1>1. \A t \in Rows : row[t] \in SessionRecords
  BY TypesOf
<1>2. \A t \in Rows : /\ row'[t] \in SessionRecords
                      /\ row'[t].grace = IF t = s THEN to ELSE row[t].grace
                      /\ row'[t].created = row[t].created /\ row'[t].from = row[t].from
                      /\ row'[t].root = row[t].root /\ row'[t].revoked = row[t].revoked
  BY <1>1, TypesOf DEF SessionRecords
<1>3. row' \in [Rows -> SessionRecords]
  BY <1>2, TypesOf
<1> QED
  BY <1>2, <1>3

LEMMA RowsUnchanged ==
    ASSUME TypeOK, row' = row, inserted' = inserted
    PROVE  row' \in [Rows -> SessionRecords] /\ SameRows
<1>1. \A s \in inserted : row[s] \in SessionRecords
  BY TypesOf
<1> QED
  BY <1>1, TypesOf DEF SameRows, SessionRecords, Unset

\* A step of one request that inserts no row and sets no deadline anew.
LEMMA RequestKeeps ==
    ASSUME IInv, TypeOK', SameRows, clock' = clock, shown \subseteq shown',
           NEW q \in Requests, \A r \in Requests \ {q} : req'[r] = req[r], Caller(q)',
           \A s \in inserted : row[s].grace = Unset => row'[s].grace = Unset,
           \A s \in inserted : row[s].root \in ended' \ ended =>
                row'[s].revoked \/ (Successors(s) # {} /\ GraceOver(row[s], clock))
    PROVE  IInv'
<1>1. clock' >= clock
  BY DEF IInv, TypeOK
<1>2. /\ \A p, r \in Requests : p # r => req'[p] = req[p] \/ req'[r] = req[r]
      /\ \A r \in Requests : req'[r] # req[r] => Caller(r)'
  OBVIOUS
<1> QED
  BY <1>1, <1>2, SameRowsKeep

-----------------------------------------------------------------------------
(* Each action keeps the invariant.                                        *)

LEMMA TypesAgain ==
    ASSUME TypeOK, clock' \in 0..MaxClock, epoch' \in 0..MaxEpoch, inserted' \subseteq Rows,
           row' \in [Rows -> SessionRecords], req' \in [Requests -> RequestRecords],
           delivered' \subseteq inserted', shown' \subseteq delivered', ended' \subseteq inserted'
    PROVE  TypeOK'
  BY DEF TypeOK, SessionRecords, RequestRecords

LEMMA InitEstablishes ==
    ASSUME Init
    PROVE  IInv
<1>1. TypeOK
  BY Constants, TimesAssumption DEF Init, TypeOK, SessionRecords, RequestRecords
<1> QED
  BY <1>1, Constants DEF Init, IInv, Lineage, OneLine, Caller, EndedIsOver

LEMMA TickKeeps ==
    ASSUME IInv, Tick
    PROVE  IInv'
<1>1. clock' >= clock /\ clock' \in 0..MaxClock
  BY Constants DEF Tick, IInv, TypeOK
<1>2. TypeOK'
  BY <1>1, TypesAgain, TypesOf DEF Tick, IInv, TypeOK
<1>3. SameRows
  BY RowsUnchanged DEF Tick, IInv
<1> QED
  BY <1>1, <1>2, <1>3, SameRowsKeep DEF Tick

LEMMA LookupKeeps ==
    ASSUME IInv, NEW q \in Requests, NEW s \in Rows, Lookup(q, s)
    PROVE  IInv'
<1> DEFINE r == row[s]
           phase == IF r.from # NoRow /\ r.seen = r.created THEN "first" ELSE RotateOrTouch(clock, r)
           new == [phase |-> phase, now |-> clock, sess |-> s, seen |-> r.seen,
                   fixed |-> r.grace # Unset]
<1>1. /\ TypeOK /\ s \in delivered /\ s \in inserted /\ clock \in Nat /\ r \in SessionRecords
      /\ req \in [Requests -> RequestRecords]
  BY TypesOf DEF IInv, Lookup, Usable
<1>2. /\ phase \in {"first", "rotate", "touch"}
      /\ phase = "first" => r.from # NoRow
      /\ phase = "rotate" => clock - r.created > RotationAge
  BY DEF RotateOrTouch
<1>3. req' = [req EXCEPT ![q] = new]
  BY DEF Lookup
<1>4. new \in RequestRecords
  BY <1>1, <1>2 DEF RequestRecords, SessionRecords, Phases
<1> HIDE DEF phase
<1>5. /\ req' \in [Requests -> RequestRecords] /\ \A o \in Requests \ {q} : req'[o] = req[o]
      /\ req'[q].phase = phase /\ req'[q].now = clock /\ req'[q].sess = s
  BY <1>1, <1>3, <1>4
<1>6. /\ UNCHANGED <<clock, epoch, inserted, row, delivered, ended>>
      /\ shown' = shown \cup {s} \/ shown' = shown
      /\ r.from # NoRow => s \in shown'
  BY DEF Lookup
<1>7. TypeOK'
  BY <1>1, <1>5, <1>6, TypesAgain, TypesOf DEF TypeOK
<1>8. SameRows
  BY <1>1, <1>6, RowsUnchanged
<1>9. Caller(q)'
  <2>1. CallerLater(q, phase, s, clock)
    BY <1>1, <1>2, <1>6 DEF CallerLater
  <2> QED
    BY <1>5, <2>1, CallerPrimed
<1> QED
  BY <1>1, <1>5, <1>6, <1>7, <1>8, <1>9, RequestKeeps

\* The deadline of a predecessor only moves in.
LEMMA StartPredecessorGraceKeeps ==
    ASSUME IInv, NEW q \in Requests, StartPredecessorGrace(q)
    PROVE  /\ IInv'
           /\ \A p \in inserted : row'[p].grace # row[p].grace =>
                /\ row[p].grace # Unset /\ row'[p].grace # Unset /\ row'[p].grace < row[p].grace
                /\ p = row[req[q].sess].from /\ req[q].sess \in shown
<1> DEFINE s == req[q].sess
           p == row[s].from
           to == req[q].now + RotationGrace
           phase == IF req[q].now > req[q].seen THEN "mark" ELSE RotateOrTouch(req[q].now, Held(q))
<1>1. /\ TypeOK /\ req[q].phase = "first" /\ s \in inserted /\ req[q].now <= clock
      /\ row[s].from # NoRow /\ s \in shown /\ req[q].now \in Nat /\ to \in Nat
  BY Constants DEF IInv, Caller, StartPredecessorGrace, TypeOK
<1>2. p \in inserted /\ p \in Rows /\ s \in Rows
  BY <1>1 DEF IInv, Lineage, TypeOK
<1>3. /\ phase \in {"mark", "rotate", "touch"}
      /\ phase = "rotate" => req[q].now - row[s].created > RotationAge
  <2>1. row[s] \in SessionRecords
    BY <1>1, TypesOf
  <2>2. Held(q).created = row[s].created
    BY <2>1 DEF Held, SessionRecords
  <2> QED
    BY <2>2 DEF RotateOrTouch
<1>4. Goes(q, phase) /\ UNCHANGED <<clock, epoch, inserted, delivered, shown, ended>>
  BY DEF StartPredecessorGrace
<1>5. /\ row' \in [Rows -> SessionRecords] /\ SameRows
      /\ \A t \in inserted : row'[t].grace # row[t].grace =>
            t = p /\ row[t].grace # Unset /\ row'[t].grace = to /\ to < row[t].grace
  <2>1. CASE MovesIn(p, to)
    <3>1. row' = [row EXCEPT ![p].grace = to]
      BY <2>1 DEF StartPredecessorGrace
    <3>2. row[p].grace \in Nat /\ row[p].grace > to
      BY <1>2, <2>1, TypesOf, <1>1 DEF MovesIn, SessionRecords
    <3>3. \A t \in inserted : t \in Rows /\ row[t] \in SessionRecords
      BY <1>1, TypesOf
    <3> HIDE DEF p, to
    <3>4. /\ row' \in [Rows -> SessionRecords]
          /\ \A t \in Rows : /\ row'[t].grace = IF t = p THEN to ELSE row[t].grace
                             /\ row'[t].created = row[t].created /\ row'[t].from = row[t].from
                             /\ row'[t].root = row[t].root /\ row'[t].revoked = row[t].revoked
      BY <1>1, <1>2, <3>1, GraceRows
    <3>5. \A t \in inserted : row[t].grace # Unset =>
                row'[t].grace # Unset /\ row'[t].grace <= row[t].grace
      BY <1>1, <3>2, <3>3, <3>4 DEF SessionRecords, Unset
    <3>6. SameRows
      BY <1>4, <3>3, <3>4, <3>5 DEF SameRows
    <3> QED
      BY <3>2, <3>3, <3>4, <3>6 DEF Unset
  <2>2. CASE ~MovesIn(p, to)
    <3>1. row' = row
      BY <2>2 DEF StartPredecessorGrace
    <3> QED
      BY <1>1, <1>4, <3>1, RowsUnchanged
  <2> QED
    BY <2>1, <2>2
<1> HIDE DEF phase
<1>6. /\ req' \in [Requests -> RequestRecords]
      /\ req'[q].phase = phase /\ req'[q].now = req[q].now /\ req'[q].sess = req[q].sess
      /\ \A r \in Requests \ {q} : req'[r] = req[r]
  <2>1. phase \in Phases
    BY <1>3 DEF Phases
  <2> QED
    BY <1>1, <1>4, <2>1, GoesTo
<1>7. TypeOK'
  BY <1>1, <1>4, <1>5, <1>6, TypesAgain, TypesOf DEF TypeOK
<1>8. Caller(q)'
  <2>1. CallerLater(q, phase, s, req[q].now)
    BY <1>1, <1>3, <1>4, <1>5 DEF CallerLater, SameRows
  <2> QED
    BY <1>6, <2>1, CallerPrimed
<1>9. IInv'
  BY <1>1, <1>4, <1>5, <1>6, <1>7, <1>8, RequestKeeps
<1> QED
  BY <1>1, <1>5, <1>9, TypesOf DEF SessionRecords, Unset

LEMMA MarkFirstUseKeeps ==
    ASSUME IInv, NEW q \in Requests, MarkFirstUse(q)
    PROVE  IInv'
<1> DEFINE s == req[q].sess
           now == req[q].now
           phase == RotateOrTouch(now, Held(q))
           new == [req[q] EXCEPT !.seen = now, !.phase = phase]
<1>1. /\ TypeOK /\ s \in inserted /\ s \in Rows /\ now <= clock /\ now \in Nat
      /\ row[s] \in SessionRecords /\ req[q] \in RequestRecords
      /\ UNCHANGED <<clock, epoch, inserted, delivered, shown, ended>>
  BY TypesOf DEF IInv, Caller, MarkFirstUse, TypeOK
<1>2. /\ phase \in {"rotate", "touch"}
      /\ phase = "rotate" => now - row[s].created > RotationAge
  BY <1>1 DEF RotateOrTouch, Held, SessionRecords
<1>3. req' = [req EXCEPT ![q] = new]
  BY TypesOf, <1>1 DEF MarkFirstUse
<1>4. row' \in [Rows -> SessionRecords] /\ SameRows /\ \A t \in inserted : row'[t].grace = row[t].grace
  <2>1. row' = [row EXCEPT ![s].seen = now]
    BY DEF MarkFirstUse
  <2> HIDE DEF s, now
  <2> QED
    BY <1>1, <2>1, SeenRows
<1> HIDE DEF phase
<1>5. new \in RequestRecords /\ new.phase = phase /\ new.now = now /\ new.sess = s
  BY <1>1, <1>2 DEF RequestRecords, Phases
<1> HIDE DEF new
<1>6. /\ req' \in [Requests -> RequestRecords] /\ \A r \in Requests \ {q} : req'[r] = req[r]
      /\ req'[q] = new
  BY <1>1, <1>3, <1>5, TypesOf
<1>7. TypeOK'
  BY <1>1, <1>4, <1>6, TypesAgain, TypesOf DEF TypeOK
<1>8. Caller(q)'
  <2>1. CallerLater(q, phase, s, now)
    BY <1>1, <1>2, <1>4 DEF CallerLater, SameRows
  <2> QED
    BY <1>5, <1>6, <2>1, CallerPrimed
<1> QED
  BY <1>1, <1>4, <1>6, <1>7, <1>8, RequestKeeps

LEMMA TouchLastSeenKeeps ==
    ASSUME IInv, NEW q \in Requests, TouchLastSeen(q)
    PROVE  IInv'
<1> DEFINE s == req[q].sess
           now == req[q].now
<1>1. /\ TypeOK /\ s \in inserted /\ s \in Rows /\ now <= clock /\ now \in Nat
      /\ UNCHANGED <<clock, epoch, inserted, delivered, shown, ended>> /\ Serves(q, s)
  BY TypesOf DEF IInv, Caller, TouchLastSeen, TypeOK
<1>2. row' \in [Rows -> SessionRecords] /\ SameRows /\ \A t \in inserted : row'[t].grace = row[t].grace
  <2>1. row' = [row EXCEPT ![s].seen = now] \/ row' = row
    BY DEF TouchLastSeen
  <2> HIDE DEF s, now
  <2> QED
    BY <1>1, <2>1, SeenRows, RowsUnchanged
<1>3. /\ req' \in [Requests -> RequestRecords]
      /\ req'[q].phase = "served" /\ req'[q].now = now /\ req'[q].sess = s
      /\ \A r \in Requests \ {q} : req'[r] = req[r]
  BY <1>1, ServesTo
<1>4. TypeOK'
  BY <1>1, <1>2, <1>3, TypesAgain, TypesOf DEF TypeOK
<1>5. Caller(q)'
  <2>1. CallerLater(q, "served", s, now)
    BY <1>1, <1>2 DEF CallerLater, SameRows
  <2> QED
    BY <1>3, <2>1, CallerPrimed
<1> QED
  BY <1>1, <1>2, <1>3, <1>4, <1>5, RequestKeeps

\* A request ends and no row changes.
LEMMA EndKeeps ==
    ASSUME IInv, NEW q \in Requests, Ends(q), delivered \subseteq delivered',
           delivered' \subseteq inserted, UNCHANGED <<clock, epoch, inserted, row, shown, ended>>
    PROVE  IInv'
<1>1. TypeOK /\ SameRows
  BY RowsUnchanged DEF IInv
<1>2. /\ req' \in [Requests -> RequestRecords] /\ req'[q].phase = "idle"
      /\ \A r \in Requests \ {q} : req'[r] = req[r]
  BY <1>1, EndsTo
<1>3. TypeOK'
  BY <1>1, <1>2, TypesAgain, TypesOf DEF TypeOK
<1>4. Caller(q)'
  BY <1>2 DEF Caller
<1> QED
  BY <1>1, <1>2, <1>3, <1>4, RequestKeeps

LEMMA ReplyOrFailKeeps ==
    ASSUME IInv, NEW q \in Requests, Reply(q) \/ Fail(q)
    PROVE  IInv'
<1>1. CASE Reply(q)
  <2>1. req[q].sess \in inserted /\ delivered \subseteq inserted
    BY <1>1 DEF IInv, Caller, Reply, TypeOK
  <2> QED
    BY <1>1, <2>1, EndKeeps DEF Reply, Sends
<1>2. CASE Fail(q)
  BY <1>2, EndKeeps DEF Fail, IInv, TypeOK
<1> QED
  BY <1>1, <1>2

\* A row begins its rotation once its age is past RotationAge, and then its
\* predecessor is past its deadline, for all requests from now on.
LEMMA BeginRotationKeeps ==
    ASSUME IInv, NEW q \in Requests, BeginRotation(q)
    PROVE  /\ IInv'
           /\ \A p \in inserted : row[p].grace # Unset => row'[p].grace = row[p].grace
<1> DEFINE s == req[q].sess
           now == req[q].now
           to == ParkedUntil(q)
<1>1. /\ TypeOK /\ s \in inserted /\ s \in Rows /\ now <= clock /\ now \in Nat /\ clock \in Nat
      /\ row[s] \in SessionRecords /\ row \in [Rows -> SessionRecords]
      /\ now - row[s].created > RotationAge
      /\ UNCHANGED <<clock, epoch, inserted, delivered, shown, ended>>
  BY TypesOf DEF IInv, Caller, BeginRotation, TypeOK
<1>2. to \in Nat /\ to <= now + RotationAge
  BY <1>1, Constants DEF ParkedUntil, SessionRecords
<1>3. CASE Admissible(s)
  <2>1. row' = [row EXCEPT ![s].grace = to] /\ Goes(q, "insert") /\ row[s].grace = Unset
    BY <1>3 DEF BeginRotation, Admissible
  <2> HIDE DEF to
  <2>2. /\ row' \in [Rows -> SessionRecords]
        /\ \A t \in Rows : /\ row'[t].grace = IF t = s THEN to ELSE row[t].grace
                           /\ row'[t].created = row[t].created /\ row'[t].from = row[t].from
                           /\ row'[t].root = row[t].root /\ row'[t].revoked = row[t].revoked
    BY <1>1, <1>2, <2>1, GraceRows
  <2>3. \A t \in inserted : t \in Rows /\ row[t].grace \in Nat \cup {Unset}
    BY <1>1, TypesOf DEF SessionRecords
  <2>4. SameRows
    <3>1. \A t \in inserted : row[t].grace # Unset =>
             row'[t].grace # Unset /\ row'[t].grace <= row[t].grace
      BY <2>1, <2>2, <2>3 DEF Unset
    <3> QED
      BY <1>1, <2>2, <2>3, <3>1 DEF SameRows
  <2>5. /\ req' \in [Requests -> RequestRecords]
        /\ req'[q].phase = "insert" /\ req'[q].now = now /\ req'[q].sess = s
        /\ \A r \in Requests \ {q} : req'[r] = req[r]
    BY <1>1, <2>1, GoesTo DEF Phases
  <2>6. TypeOK'
    BY <1>1, <2>2, <2>5, TypesAgain, TypesOf DEF TypeOK
  <2>7. row[s].from # NoRow => GraceOver(row[row[s].from], clock)
    <3> SUFFICES ASSUME row[s].from # NoRow
                 PROVE  GraceOver(row[row[s].from], clock)
      OBVIOUS
    <3> DEFINE p == row[s].from
    <3>1. p \in inserted /\ row[p].grace # Unset /\ row[p].grace <= row[s].created + RotationAge
      BY <1>1 DEF IInv, Lineage
    <3>2. row[p].grace \in Nat /\ row[s].created \in Nat
      BY <1>1, <2>3, <3>1 DEF SessionRecords
    <3> QED
      BY <1>1, <3>1, <3>2, Constants DEF GraceOver
  <2>8. Successors(s) = {}
    BY <1>1, <2>1, NoRowAssumption DEF IInv, Lineage, Successors
  <2>9. Caller(q)'
    <3>1. \A r \in Requests \ {q} : req[r].phase = "insert" => req[r].sess # s
      BY <2>1 DEF IInv, Caller
    <3>2. CallerLater(q, "insert", s, now)
      BY <1>1, <1>2, <2>2, <2>4, <2>5, <2>8, <3>1, SameSuccessors DEF CallerLater, Unset
    <3> QED
      BY <2>5, <3>2, CallerPrimed
  <2>10. IInv'
    <3>1. clock' >= clock
      BY <1>1
    <3>2. /\ \A p, r \in Requests : p # r => req'[p] = req[p] \/ req'[r] = req[r]
          /\ \A r \in Requests : req'[r] # req[r] => Caller(r)'
      BY <2>5, <2>9
    <3>3. \A t \in inserted : row[t].grace = Unset /\ row'[t].grace # Unset
             /\ row[t].from # NoRow => GraceOver(row[row[t].from], clock)
      BY <2>2, <2>3, <2>7
    <3> QED
      BY <1>1, <2>4, <2>6, <3>1, <3>2, <3>3, SameRowsKeep
  <2> QED
    BY <2>1, <2>2, <2>3, <2>10
<1>4. CASE ~Admissible(s)
  <2>1. row' = row /\ Goes(q, "touch")
    BY <1>4 DEF BeginRotation
  <2>2. SameRows /\ row' \in [Rows -> SessionRecords]
    BY <1>1, <2>1, RowsUnchanged
  <2>3. /\ req' \in [Requests -> RequestRecords]
        /\ req'[q].phase = "touch" /\ req'[q].now = now /\ req'[q].sess = s
        /\ \A r \in Requests \ {q} : req'[r] = req[r]
    BY <1>1, <2>1, GoesTo DEF Phases
  <2>4. TypeOK'
    BY <1>1, <2>2, <2>3, TypesAgain, TypesOf DEF TypeOK
  <2>5. Caller(q)'
    <3>1. CallerLater(q, "touch", s, now)
      BY <1>1 DEF CallerLater
    <3> QED
      BY <2>3, <3>1, CallerPrimed
  <2> QED
    BY <1>1, <2>1, <2>2, <2>3, <2>4, <2>5, RequestKeeps
<1> QED
  BY <1>3, <1>4

LEMMA InsertSuccessorKeeps ==
    ASSUME IInv, NEW q \in Requests, InsertSuccessor(q)
    PROVE  /\ IInv'
           /\ \A p \in inserted : row'[p] = row[p]
<1> DEFINE p == req[q].sess
<1>1. /\ TypeOK /\ p \in inserted /\ p \in Rows /\ req[q].phase = "insert"
      /\ req[q].now \in Nat /\ req[q].now <= clock
      /\ row \in [Rows -> SessionRecords] /\ inserted \subseteq Rows
      /\ UNCHANGED <<clock, epoch, delivered, shown, ended>>
  BY TypesOf DEF IInv, Caller, InsertSuccessor, TypeOK
<1>2. CASE Ends(q) /\ UNCHANGED <<inserted, row>>
  BY <1>1, <1>2, EndKeeps DEF TypeOK
<1>3. CASE Goes(q, "touch") /\ UNCHANGED <<inserted, row>>
  <2>1. SameRows /\ row' \in [Rows -> SessionRecords]
    BY <1>1, <1>3, RowsUnchanged
  <2>2. /\ req' \in [Requests -> RequestRecords]
        /\ req'[q].phase = "touch" /\ req'[q].now = req[q].now /\ req'[q].sess = p
        /\ \A r \in Requests \ {q} : req'[r] = req[r]
    BY <1>1, <1>3, GoesTo DEF Phases
  <2>3. TypeOK'
    BY <1>1, <1>3, <2>1, <2>2, TypesAgain, TypesOf DEF TypeOK
  <2>4. Caller(q)'
    <3>1. CallerLater(q, "touch", p, req[q].now)
      BY <1>1, <1>3 DEF CallerLater
    <3> QED
      BY <2>2, <3>1, CallerPrimed
  <2> QED
    BY <1>1, <1>3, <2>1, <2>2, <2>3, <2>4, RequestKeeps
<1>4. CASE StillLive(p) /\ \E s \in Rows \ inserted :
              /\ inserted' = inserted \cup {s}
              /\ row' = [row EXCEPT ![s] = Successor(p, req[q].now)]
              /\ Serves(q, s)
  <2>1. PICK s \in Rows \ inserted :
              /\ inserted' = inserted \cup {s}
              /\ row' = [row EXCEPT ![s] = Successor(p, req[q].now)]
              /\ Serves(q, s)
    BY <1>4
  <2>2. req' \in [Requests -> RequestRecords]
    BY <1>1, <2>1, ServesTo
  <2>3. row' \in [Rows -> SessionRecords]
    <3> DEFINE new == Successor(p, req[q].now)
    <3>1. new \in SessionRecords
      BY <1>1, SuccessorColumns
    <3> HIDE DEF new
    <3> QED
      BY <1>1, <2>1, <3>1 DEF new
  <2>4. TypeOK'
    BY <1>1, <2>1, <2>2, <2>3, TypesAgain DEF TypeOK
  <2>5. IInv'
    BY <1>1, <1>4, <2>1, <2>4, SuccessorKeeps
  <2> QED
    BY <1>1, <2>1, <2>5
<1> QED
  BY <1>2, <1>3, <1>4 DEF InsertSuccessor

-----------------------------------------------------------------------------
(* Endings.                                                                *)

\* Revoking some rows, the deadlines and the clock as they are.
LEMMA RevocationKeeps ==
    ASSUME IInv, NEW S, row' = Revoked(S), NEW q \in Requests,
           \A r \in Requests \ {q} : req'[r] = req[r],
           req' \in [Requests -> RequestRecords], Caller(q)',
           delivered \subseteq delivered', delivered' \subseteq inserted, ended' \subseteq inserted,
           UNCHANGED <<clock, epoch, inserted, shown>>,
           \A s \in inserted : row[s].root \in ended' \ ended =>
                s \in S \/ row[s].revoked \/ (Successors(s) # {} /\ GraceOver(row[s], clock))
    PROVE  IInv'
<1>1. TypeOK
  BY DEF IInv
<1>2. /\ row' \in [Rows -> SessionRecords] /\ SameRows
      /\ \A s \in inserted : /\ row'[s].grace = row[s].grace
                             /\ row'[s].revoked <=> s \in S \/ row[s].revoked
  BY <1>1, RevokedSame
<1>3. TypeOK'
  BY <1>1, <1>2, TypesAgain, TypesOf DEF TypeOK
<1> QED
  BY <1>2, <1>3, RequestKeeps

LEMMA RevokeCurrentKeeps ==
    ASSUME IInv, NEW q \in Requests, RevokeCurrent(q)
    PROVE  IInv'
<1> DEFINE s == req[q].sess
           phase == IF row[s].from # NoRow THEN "predecessor" ELSE "successor"
<1>1. /\ TypeOK /\ s \in inserted /\ s \in Rows /\ req[q].now <= clock
      /\ row' = Revoked({s}) /\ Goes(q, phase)
      /\ UNCHANGED <<clock, epoch, inserted, delivered, shown, ended>>
  BY DEF IInv, Caller, RevokeCurrent, TypeOK
<1>2. \A t \in inserted : row'[t].from = row[t].from /\ (t = s \/ row[t].revoked => row'[t].revoked)
  <2> DEFINE S == {s}
  <2>1. row' = Revoked(S) /\ inserted' = inserted /\ TypeOK
    BY <1>1
  <2> HIDE DEF S
  <2>2. SameRows /\ \A t \in inserted : t \in S => row'[t].revoked
    BY <2>1, RevokedSame
  <2> QED
    BY <2>2 DEF SameRows, S
<1>3. /\ req' \in [Requests -> RequestRecords]
      /\ req'[q].phase = phase /\ req'[q].now = req[q].now /\ req'[q].sess = s
      /\ \A r \in Requests \ {q} : req'[r] = req[r]
  BY <1>1, GoesTo DEF Phases
<1>4. Caller(q)'
  <2>1. CallerLater(q, phase, s, req[q].now)
    BY <1>1, <1>2 DEF CallerLater
  <2> QED
    BY <1>3, <2>1, CallerPrimed
<1> HIDE DEF s
<1> QED
  BY <1>1, <1>3, <1>4, RevocationKeeps DEF TypeOK

LEMMA RevokePredecessorKeeps ==
    ASSUME IInv, NEW q \in Requests, RevokePredecessor(q)
    PROVE  IInv'
<1> DEFINE s == req[q].sess
           p == row[s].from
<1>1. /\ TypeOK /\ s \in inserted /\ s \in Rows /\ req[q].now <= clock /\ row[s].revoked
      /\ row' = Revoked({p}) /\ Goes(q, "successor")
      /\ UNCHANGED <<clock, epoch, inserted, delivered, shown, ended>>
  BY DEF IInv, Caller, RevokePredecessor, TypeOK
<1>2. \A t \in inserted : row'[t].from = row[t].from /\ (t = p \/ row[t].revoked => row'[t].revoked)
  <2> DEFINE S == {p}
  <2>1. row' = Revoked(S) /\ inserted' = inserted /\ TypeOK
    BY <1>1
  <2> HIDE DEF S
  <2>2. SameRows /\ \A t \in inserted : t \in S => row'[t].revoked
    BY <2>1, RevokedSame
  <2> QED
    BY <2>2 DEF SameRows, S
<1>3. /\ req' \in [Requests -> RequestRecords]
      /\ req'[q].phase = "successor" /\ req'[q].now = req[q].now /\ req'[q].sess = s
      /\ \A r \in Requests \ {q} : req'[r] = req[r]
  BY <1>1, GoesTo DEF Phases
<1>4. Caller(q)'
  <2>1. p = NoRow \/ p \in inserted
    BY <1>1 DEF IInv, Lineage
  <2>2. CallerLater(q, "successor", s, req[q].now)
    BY <1>1, <1>2, <2>1 DEF CallerLater
  <2> QED
    BY <1>3, <2>2, CallerPrimed
<1> HIDE DEF p
<1> QED
  BY <1>1, <1>3, <1>4, RevocationKeeps DEF TypeOK

\* While row s is not past its deadline, all other rows of its sign-in but its
\* exact partners are past theirs, and replaced: what revoking a row and its
\* partners relies on.
LEMMA OthersAreOver ==
    ASSUME IInv, NEW s \in inserted, NEW t \in inserted, row[s].root = row[t].root,
           ~GraceOver(row[s], clock), t # s, t \notin Partners(s)
    PROVE  Successors(t) # {} /\ GraceOver(row[t], clock)
<1>1. \A v \in inserted : v \in Rows /\ v # NoRow
  BY NoRowAssumption DEF IInv, TypeOK
<1>2. ASSUME NEW u \in inserted, Successors(u) # {}
      PROVE  row[u].grace # Unset
  BY <1>1, <1>2 DEF IInv, Lineage, Successors
<1>3. ASSUME NEW u \in inserted, NEW v \in Successors(u)
      PROVE  /\ v \in inserted /\ row[v].from = u /\ row[v].root = row[u].root
             /\ row[v].grace # Unset => GraceOver(row[u], clock)
  BY <1>1 DEF IInv, Lineage, Successors
<1>4. ASSUME NEW u \in Successors(s)
      PROVE  Successors(u) = {}
  BY <1>2, <1>3, <1>4
<1>5. ASSUME NEW v \in inserted, row[v].root = row[s].root, v # s, row[v].from # s
      PROVE  Successors(v) # {}
  <2>1. SUFFICES ASSUME Successors(v) = {} PROVE FALSE
    OBVIOUS
  <2>2. Successors(s) # {}
    BY <1>5, <2>1 DEF IInv, OneLine
  <2>3. PICK u \in Successors(s) : TRUE
    BY <2>2
  <2>4. u \in inserted /\ u # v /\ row[u].root = row[v].root /\ Successors(u) = {}
    BY <1>3, <1>4, <1>5
  <2> QED
    BY <2>1, <2>4 DEF IInv, OneLine
<1>6. Successors(t) # {}
  BY <1>5 DEF Partners, Successors
<1>7. PICK v \in Successors(t) : TRUE
  BY <1>6
<1>8. /\ v \in inserted /\ row[v].from = t /\ row[v].root = row[s].root
      /\ row[v].grace # Unset => GraceOver(row[t], clock)
  BY <1>3
<1>9. v # s /\ row[v].from # s
  BY <1>8 DEF Partners
<1> QED
  BY <1>2, <1>5, <1>6, <1>8, <1>9

LEMMA RevokeSuccessorKeeps ==
    ASSUME IInv, NEW q \in Requests, RevokeSuccessor(q)
    PROVE  IInv'
<1> DEFINE s == req[q].sess
           S == Successors(s)
<1>1. /\ TypeOK /\ s \in inserted /\ row[s].revoked
      /\ row[s].from = NoRow \/ row[row[s].from].revoked
      /\ row' = Revoked(S) /\ ended' = ended \cup EndedWith(s) /\ Ends(q)
      /\ UNCHANGED <<clock, epoch, inserted, delivered, shown>>
  BY DEF IInv, Caller, RevokeSuccessor
<1>2. /\ req' \in [Requests -> RequestRecords] /\ req'[q].phase = "idle"
      /\ \A r \in Requests \ {q} : req'[r] = req[r]
  BY <1>1, EndsTo
<1>3. Caller(q)'
  BY <1>2 DEF Caller
<1>4. ASSUME NEW t \in inserted, row[t].root \in ended' \ ended
      PROVE  t \in S \/ row[t].revoked \/ (Successors(t) # {} /\ GraceOver(row[t], clock))
  <2>1. row[t].root = row[s].root /\ ~GraceOver(row[s], clock)
    BY <1>1, <1>4 DEF EndedWith
  <2>2. CASE t = s \/ t \in Partners(s)
    BY <1>1, <2>2, NoRowAssumption DEF Partners, IInv, TypeOK
  <2>3. CASE t # s /\ t \notin Partners(s)
    BY <1>1, <2>1, <2>3, OthersAreOver
  <2> QED
    BY <2>2, <2>3
<1>5. delivered' \subseteq inserted /\ ended' \subseteq inserted
  BY <1>1 DEF IInv, TypeOK, Lineage, EndedWith
<1> HIDE DEF S
<1> QED
  BY <1>1, <1>2, <1>3, <1>4, <1>5, RevocationKeeps

LEMMA RevokeSessionKeeps ==
    ASSUME IInv, NEW q \in Requests, NEW s \in Rows, RevokeSession(q, s)
    PROVE  IInv'
<1> DEFINE S == {s} \cup Partners(s)
<1>1. /\ TypeOK /\ s \in inserted /\ req[q].sess \in inserted
      /\ row' = Revoked(S) /\ ended' = ended \cup EndedWith(s) /\ Ends(q)
      /\ Sends(req[q].sess)
      /\ UNCHANGED <<clock, epoch, inserted, shown>>
  BY DEF IInv, Caller, RevokeSession
<1>2. /\ req' \in [Requests -> RequestRecords] /\ req'[q].phase = "idle"
      /\ \A r \in Requests \ {q} : req'[r] = req[r]
  BY <1>1, EndsTo
<1>3. Caller(q)'
  BY <1>2 DEF Caller
<1>4. ASSUME NEW t \in inserted, row[t].root \in ended' \ ended
      PROVE  t \in S \/ row[t].revoked \/ (Successors(t) # {} /\ GraceOver(row[t], clock))
  <2>1. row[t].root = row[s].root /\ ~GraceOver(row[s], clock)
    BY <1>1, <1>4 DEF EndedWith
  <2> QED
    BY <1>1, <2>1, OthersAreOver
<1>5. delivered \subseteq delivered' /\ delivered' \subseteq inserted /\ ended' \subseteq inserted
  BY <1>1 DEF IInv, TypeOK, Lineage, EndedWith, Sends
<1> HIDE DEF S
<1> QED
  BY <1>1, <1>2, <1>3, <1>4, <1>5, RevocationKeeps

LEMMA RevokeAllSessionsKeeps ==
    ASSUME IInv, NEW q \in Requests, RevokeAllSessions(q)
    PROVE  IInv'
<1>1. /\ TypeOK /\ row' = Revoked(inserted) /\ ended' = ended \cup Roots(inserted) /\ Ends(q)
      /\ UNCHANGED <<clock, epoch, inserted, delivered, shown>>
  BY DEF IInv, RevokeAllSessions
<1>2. /\ req' \in [Requests -> RequestRecords] /\ req'[q].phase = "idle"
      /\ \A r \in Requests \ {q} : req'[r] = req[r]
  BY <1>1, EndsTo
<1>3. Caller(q)'
  BY <1>2 DEF Caller
<1>4. delivered' \subseteq inserted /\ ended' \subseteq inserted
  BY <1>1 DEF IInv, TypeOK, Lineage, Roots
<1> QED
  BY <1>1, <1>2, <1>3, <1>4, RevocationKeeps

LEMMA ResetPasswordKeeps ==
    ASSUME IInv, ResetPassword
    PROVE  IInv'
<1>1. /\ TypeOK /\ row' = Revoked(inserted) /\ ended' = ended \cup Roots(inserted)
      /\ UNCHANGED <<clock, epoch, inserted, req, delivered, shown>>
  BY DEF IInv, ResetPassword
<1>2. /\ row' \in [Rows -> SessionRecords] /\ SameRows
      /\ \A s \in inserted : row'[s].grace = row[s].grace /\ row'[s].revoked
  BY <1>1, RevokedSame
<1>3. TypeOK'
  <2>1. ended' \subseteq inserted
    BY <1>1 DEF IInv, TypeOK, Lineage, Roots
  <2> QED
    BY <1>1, <1>2, <2>1, TypesAgain, TypesOf DEF TypeOK
<1>4. clock' >= clock
  BY <1>1 DEF TypeOK
<1> QED
  BY <1>1, <1>2, <1>3, <1>4, SameRowsKeep

-----------------------------------------------------------------------------
(* Fresh rows.                                                             *)

LEMMA SignInKeeps ==
    ASSUME IInv, NEW s \in Rows, SignIn(s)
    PROVE  /\ IInv'
           /\ \A p \in inserted : row'[p] = row[p]
<1> DEFINE new == Fresh(s, clock, clock, clock + AbsoluteTimeout, epoch)
<1>1. /\ TypeOK /\ s \in Rows \ inserted /\ inserted' = inserted \cup {s}
      /\ row' = [row EXCEPT ![s] = new] /\ delivered' = delivered \cup {s}
      /\ UNCHANGED <<clock, epoch, req, shown, ended>>
  BY DEF IInv, SignIn
<1>2. new \in SessionRecords /\ new.from = NoRow /\ new.root = s
  BY <1>1, TypesOf, Constants DEF Fresh, SessionRecords, Unset
<1> HIDE DEF new
<1>3. /\ row' \in [Rows -> SessionRecords] /\ row'[s] = new
      /\ \A p \in inserted : row'[p] = row[p]
  BY <1>1, <1>2, TypesOf
<1>4. TypeOK'
  BY <1>1, <1>3, TypesAgain, TypesOf DEF TypeOK
<1>5. Kept
  BY <1>3 DEF Kept
<1>6. ended' \subseteq inserted
  BY <1>1 DEF TypeOK
<1> QED
  BY <1>1, <1>2, <1>3, <1>4, <1>5, <1>6, FreshKeeps

LEMMA ReplaceKeeps ==
    ASSUME IInv, NEW q \in Requests, NEW s \in Rows, NEW new \in SessionRecords,
           new.from = NoRow, new.root = s, Replace(q, s, new),
           epoch' \in 0..MaxEpoch, UNCHANGED <<clock, shown>>
    PROVE  /\ IInv'
           /\ \A p \in inserted : row'[p].grace = row[p].grace
<1>1. /\ TypeOK /\ s \in Rows \ inserted /\ inserted' = inserted \cup {s}
      /\ row' = [Revoked(inserted) EXCEPT ![s] = new] /\ ended' = ended \cup Roots(inserted)
      /\ Sends(s) /\ Ends(q)
  BY DEF IInv, Replace
<1>2. /\ req' \in [Requests -> RequestRecords] /\ req'[q].phase = "idle"
      /\ \A r \in Requests \ {q} : req'[r] = req[r]
  BY <1>1, EndsTo
<1>3. /\ row' \in [Rows -> SessionRecords] /\ row'[s] = new
      /\ \A p \in inserted : row'[p] = Revoked(inserted)[p]
  BY <1>1, RevokedRows, TypesOf
<1>4. \A p \in inserted :
        /\ row'[p].created = row[p].created /\ row'[p].from = row[p].from
        /\ row'[p].root = row[p].root /\ row'[p].grace = row[p].grace /\ row'[p].revoked
  BY <1>1, <1>3, RevokedRows, TypesOf
<1>5. Kept
  BY <1>4 DEF Kept
<1>6. ended' \subseteq inserted /\ delivered' \subseteq inserted'
  BY <1>1 DEF TypeOK, IInv, Lineage, Roots, Sends
<1>7. TypeOK'
  <2>1. /\ clock' \in 0..MaxClock /\ inserted' \subseteq Rows
        /\ shown' \subseteq delivered' /\ ended' \subseteq inserted'
    BY <1>1, <1>6 DEF TypeOK, Sends
  <2> QED
    BY <1>1, <1>2, <1>3, <1>6, <2>1, TypesAgain
<1> QED
  BY <1>1, <1>2, <1>3, <1>4, <1>5, <1>6, <1>7, FreshKeeps

LEMMA ChangeFactorKeeps ==
    ASSUME IInv, NEW q \in Requests, NEW s \in Rows, ChangeFactor(q, s)
    PROVE  /\ IInv'
           /\ \A p \in inserted : row'[p].grace = row[p].grace
<1> DEFINE current == row[req[q].sess]
<1>1. PICK at \in HandlerTimes(q) :
        Replace(q, s, Fresh(s, current.created, at, current.expires, epoch'))
  BY DEF ChangeFactor
<1>2. /\ req[q].sess \in inserted /\ current \in SessionRecords /\ at \in Nat
      /\ epoch' \in 0..MaxEpoch /\ epoch' \in Nat /\ UNCHANGED <<clock, shown>>
  <2>1. req[q].sess \in inserted /\ req[q].now \in Nat /\ clock \in Nat
    BY DEF IInv, Caller, ChangeFactor, TypeOK
  <2>2. epoch' \in 0..MaxEpoch /\ epoch' \in Nat
    BY Constants DEF IInv, TypeOK, ChangeFactor
  <2> QED
    BY <2>1, <2>2, TypesOf DEF IInv, HandlerTimes, ChangeFactor
<1> DEFINE new == Fresh(s, current.created, at, current.expires, epoch')
<1>3. new \in SessionRecords /\ new.from = NoRow /\ new.root = s
  BY <1>2 DEF Fresh, SessionRecords, Unset
<1> HIDE DEF new
<1>4. Replace(q, s, new)
  BY <1>1 DEF new
<1> QED
  BY <1>2, <1>3, <1>4, ReplaceKeeps

LEMMA ChangePasswordKeeps ==
    ASSUME IInv, NEW q \in Requests, NEW s \in Rows, ChangePassword(q, s)
    PROVE  /\ IInv'
           /\ \A p \in inserted : row'[p].grace = row[p].grace
<1> DEFINE current == row[req[q].sess]
<1>1. PICK at \in HandlerTimes(q) : Replace(q, s, Fresh(s, at, at, current.expires, epoch))
  BY DEF ChangePassword
<1>2. /\ req[q].sess \in inserted /\ current \in SessionRecords /\ at \in Nat
      /\ epoch' \in 0..MaxEpoch /\ epoch \in Nat /\ UNCHANGED <<clock, shown>>
  <2>1. req[q].sess \in inserted /\ req[q].now \in Nat /\ clock \in Nat
    BY DEF IInv, Caller, ChangePassword, TypeOK
  <2> QED
    BY <2>1, TypesOf DEF IInv, HandlerTimes, ChangePassword, TypeOK
<1> DEFINE new == Fresh(s, at, at, current.expires, epoch)
<1>3. new \in SessionRecords /\ new.from = NoRow /\ new.root = s
  BY <1>2 DEF Fresh, SessionRecords, Unset
<1> HIDE DEF new
<1>4. Replace(q, s, new)
  BY <1>1 DEF new
<1> QED
  BY <1>2, <1>3, <1>4, ReplaceKeeps

-----------------------------------------------------------------------------
LEMMA StepKeeps ==
    ASSUME IInv, [Next]_vars
    PROVE  IInv'
<1>1. CASE Tick
  BY <1>1, TickKeeps
<1>2. CASE ResetPassword
  BY <1>2, ResetPasswordKeeps
<1>3. CASE \E s \in Rows : SignIn(s)
  BY <1>3, SignInKeeps
<1>4. ASSUME NEW q \in Requests, Authenticating(q)
      PROVE  IInv'
  BY <1>4, LookupKeeps, StartPredecessorGraceKeeps, MarkFirstUseKeeps, BeginRotationKeeps,
     InsertSuccessorKeeps, TouchLastSeenKeeps, ReplyOrFailKeeps DEF Authenticating
<1>5. ASSUME NEW q \in Requests, Ending(q)
      PROVE  IInv'
  BY <1>5, RevokeCurrentKeeps, RevokePredecessorKeeps, RevokeSuccessorKeeps,
     RevokeAllSessionsKeeps, RevokeSessionKeeps, ChangeFactorKeeps, ChangePasswordKeeps
     DEF Ending
<1>6. CASE UNCHANGED vars
  <2>1. TypeOK /\ row' = row /\ inserted' = inserted
    BY <1>6 DEF vars, IInv
  <2>2. SameRows
    BY <2>1, RowsUnchanged
  <2>3. TypeOK'
    BY <1>6 DEF vars, IInv, TypeOK
  <2>4. clock' >= clock
    BY <1>6 DEF vars, IInv, TypeOK
  <2> QED
    BY <1>6, <2>2, <2>3, <2>4, SameRowsKeep DEF vars
<1> QED
  BY <1>1, <1>2, <1>3, <1>4, <1>5, <1>6 DEF Next

\* The inductive invariant: the generations of a sign-in are one line, each
\* predecessor is over before its successor is replaced in turn, and the rows
\* of an ended sign-in are revoked or over.
THEOREM Invariant == Spec => []IInv
<1>1. Init => IInv
  BY InitEstablishes
<1>2. IInv /\ [Next]_vars => IInv'
  BY StepKeeps
<1> QED
  BY <1>1, <1>2, PTL DEF Spec

\* Every variable keeps its type.
THEOREM TypeCorrect == Spec => []TypeOK
<1>1. IInv => TypeOK
  BY DEF IInv
<1> QED
  BY <1>1, Invariant, PTL

\* Once a sign-in was ended, whichever of the handlers ended it, and whatever
\* rotation was under way, no token of it is accepted again.
THEOREM EndedForGood == Spec => []EndedStaysOut
<1>1. IInv => EndedStaysOut
  BY DEF IInv, EndedIsOver, EndedStaysOut, Usable, Dead
<1> QED
  BY <1>1, Invariant, PTL

\* Of one sign-in two rows at most are usable, a row and its exact successor.
THEOREM OnePair == Spec => []OnePairPerSignIn
<1>1. IInv => OnePairPerSignIn
  <2> SUFFICES ASSUME IInv, NEW s \in inserted, NEW t \in inserted, s # t,
                      row[s].root = row[t].root, Usable(s, clock), Usable(t, clock)
               PROVE  row[s].from = t \/ row[t].from = s
    BY DEF OnePairPerSignIn
  <2>1. ~GraceOver(row[s], clock) /\ ~GraceOver(row[t], clock)
    BY DEF Usable, Dead
  <2>2. t \in Partners(s)
    BY <2>1, OthersAreOver
  <2> QED
    BY <2>2 DEF Partners, Successors
<1> QED
  BY <1>1, Invariant, PTL

\* No row is ever replaced twice: a fork of a sign-in would leave a token that
\* revoking the exact partners of a row does not reach.
THEOREM NeverForks ==
    Spec => [](\A s, t \in inserted : row[s].from = row[t].from /\ row[s].from # NoRow => s = t)
<1>1. IInv => \A s, t \in inserted : row[s].from = row[t].from /\ row[s].from # NoRow => s = t
  BY DEF IInv, OneLine
<1> QED
  BY <1>1, Invariant, PTL

-----------------------------------------------------------------------------
(* What a step may never do.                                               *)

\* A deadline that is set is left alone by all but the first use of a successor.
DeadlinesStay == \A p \in inserted : row[p].grace # Unset => row'[p].grace = row[p].grace

LEMMA OthersLeaveDeadlines ==
    ASSUME IInv, [Next]_vars, \A q \in Requests : ~StartPredecessorGrace(q)
    PROVE  DeadlinesStay
<1>1. TypeOK /\ inserted \subseteq Rows
  BY TypesOf DEF IInv
<1>2. CASE row' = row
  BY <1>2 DEF DeadlinesStay
<1>3. ASSUME NEW S, row' = Revoked(S)
      PROVE  DeadlinesStay
  BY <1>1, <1>3, RevokedRows DEF DeadlinesStay
<1>4. ASSUME NEW q \in Requests, MarkFirstUse(q) \/ TouchLastSeen(q)
      PROVE  DeadlinesStay
  <2> DEFINE s == req[q].sess
             now == req[q].now
  <2>1. s \in Rows /\ now \in Nat /\ inserted' = inserted
    BY <1>4 DEF IInv, Caller, MarkFirstUse, TouchLastSeen, TypeOK
  <2>2. row' = row \/ row' = [row EXCEPT ![s].seen = now]
    BY <1>4 DEF MarkFirstUse, TouchLastSeen
  <2> HIDE DEF s, now
  <2> QED
    BY <1>1, <1>2, <2>1, <2>2, SeenRows DEF DeadlinesStay
<1>5. ASSUME NEW q \in Requests, Authenticating(q)
      PROVE  DeadlinesStay
  <2>1. CASE BeginRotation(q)
    BY <2>1, BeginRotationKeeps DEF DeadlinesStay
  <2>2. CASE InsertSuccessor(q)
    BY <2>2, InsertSuccessorKeeps DEF DeadlinesStay
  <2>3. CASE Reply(q) \/ Fail(q) \/ \E s \in Rows : Lookup(q, s)
    BY <1>2, <2>3 DEF Reply, Fail, Lookup
  <2> QED
    BY <1>4, <1>5, <2>1, <2>2, <2>3 DEF Authenticating
<1>6. ASSUME NEW q \in Requests, Ending(q)
      PROVE  DeadlinesStay
  <2>1. CASE \E s \in Rows : ChangeFactor(q, s) \/ ChangePassword(q, s)
    BY <2>1, ChangeFactorKeeps, ChangePasswordKeeps DEF DeadlinesStay
  <2>2. CASE RevokeCurrent(q) \/ RevokePredecessor(q) \/ RevokeSuccessor(q) \/ RevokeAllSessions(q)
    BY <1>3, <2>2 DEF RevokeCurrent, RevokePredecessor, RevokeSuccessor, RevokeAllSessions
  <2>3. CASE \E s \in Rows : RevokeSession(q, s)
    BY <1>3, <2>3 DEF RevokeSession
  <2> QED
    BY <1>6, <2>1, <2>2, <2>3 DEF Ending
<1>7. CASE \E s \in Rows : SignIn(s)
  BY <1>7, SignInKeeps DEF DeadlinesStay
<1>8. CASE Tick \/ ResetPassword \/ UNCHANGED vars
  BY <1>2, <1>3, <1>8 DEF Tick, ResetPassword, vars
<1> QED
  BY <1>5, <1>6, <1>7, <1>8 DEF Next

\* A deadline, once set, only moves in, and only once the successor's token has
\* been presented, whoever races with whom.
THEOREM ShrinksOnProof == Spec => DeadlineOnlyShrinksOnProof
<1> DEFINE Shrinks == \A p \in inserted : row[p].grace # Unset /\ row'[p].grace # row[p].grace =>
                        /\ row'[p].grace # Unset /\ row'[p].grace < row[p].grace
                        /\ \E s \in shown : row[s].from = p
<1>1. IInv /\ [Next]_vars => [Shrinks]_vars
  <2> SUFFICES ASSUME IInv, [Next]_vars PROVE Shrinks
    OBVIOUS
  <2>1. CASE \E q \in Requests : StartPredecessorGrace(q)
    BY <2>1, StartPredecessorGraceKeeps
  <2>2. CASE \A q \in Requests : ~StartPredecessorGrace(q)
    BY <2>2, OthersLeaveDeadlines DEF DeadlinesStay
  <2> QED
    BY <2>1, <2>2
<1> QED
  BY <1>1, Invariant, PTL DEF Spec, DeadlineOnlyShrinksOnProof

\* A caller whose sign-in was ended gets no new row and ends nobody's session.
LEMMA EndedCallerStep ==
    ASSUME IInv, [Next]_vars, NEW q \in Requests, req[q].sess \in inserted,
           row[req[q].sess].root \in ended, req'[q] # req[q],
           req[q].phase = "served" => ~GraceOver(row[req[q].sess], clock)
    PROVE  inserted' = inserted /\ ended' = ended /\ epoch' = epoch
<1> DEFINE caller == req[q].sess
<1>1. req \in [Requests -> RequestRecords] /\ TypeOK
  BY TypesOf DEF IInv
<1>2. row[caller].revoked \/ (Successors(caller) # {} /\ GraceOver(row[caller], clock))
  BY DEF IInv, EndedIsOver
<1>3. Authenticating(q) \/ Ending(q)
  <2>1. ASSUME NEW r \in Requests, r # q, Authenticating(r) \/ Ending(r)
        PROVE  req'[q] = req[q]
    BY <1>1, <2>1 DEF Authenticating, Ending, Lookup, StartPredecessorGrace, MarkFirstUse,
       BeginRotation, InsertSuccessor, TouchLastSeen, Reply, Fail, RevokeCurrent,
       RevokePredecessor, RevokeSuccessor, RevokeSession, RevokeAllSessions, ChangeFactor,
       ChangePassword, Replace, Goes, Serves, Ends
  <2> QED
    BY <2>1 DEF Next, vars, Tick, ResetPassword, SignIn
<1>4. CASE InsertSuccessor(q)
  <2>1. Successors(caller) = {}
    BY <1>4 DEF InsertSuccessor, IInv, Caller
  <2> QED
    BY <1>2, <1>4, <2>1 DEF InsertSuccessor, StillLive
<1>5. ASSUME req[q].phase = "served", NEW at, CallerAllowed(q, at)
      PROVE  FALSE
  BY <1>2, <1>5 DEF CallerAllowed, Usable, Dead
<1>6. CASE RevokeSuccessor(q)
  BY <1>6 DEF RevokeSuccessor, EndedWith
<1>7. CASE RevokeAllSessions(q) \/ \E s \in Rows : RevokeSession(q, s) \/ ChangeFactor(q, s)
                                                   \/ ChangePassword(q, s)
  BY <1>5, <1>7 DEF RevokeAllSessions, RevokeSession, ChangeFactor, ChangePassword
<1>8. CASE Authenticating(q) /\ ~InsertSuccessor(q)
  BY <1>8 DEF Authenticating, Lookup, StartPredecessorGrace, MarkFirstUse, BeginRotation,
     TouchLastSeen, Reply, Fail
<1>9. CASE RevokeCurrent(q) \/ RevokePredecessor(q)
  BY <1>9 DEF RevokeCurrent, RevokePredecessor
<1> QED
  BY <1>3, <1>4, <1>6, <1>7, <1>8, <1>9 DEF Ending

\* Nothing is done for a caller whose sign-in was ended, but for the handler
\* whose clock is older than its row's deadline.
THEOREM EndedActsNoMore == Spec => EndedCannotAct
<1> DEFINE Refused == \A q \in Requests :
             LET caller == req[q].sess IN
             /\ caller \in inserted /\ row[caller].root \in ended /\ req'[q] # req[q]
             /\ req[q].phase = "served" => ~GraceOver(row[caller], clock)
             => inserted' = inserted /\ ended' = ended /\ epoch' = epoch
<1>1. IInv /\ [Next]_vars => [Refused]_vars
  BY EndedCallerStep
<1> QED
  BY <1>1, Invariant, PTL DEF Spec, EndedCannotAct
=============================================================================

--------------------------- MODULE PreviewCards_proofs ---------------------------
(***************************************************************************)
(* Proofs about Realtime and PreviewCards, for any versions, streams,      *)
(* queue depth and bounds.                                                 *)
(*                                                                         *)
(* First the streams by themselves: no stream misses a change unawares.    *)
(* While the connection is up, the change that is last on the wire is the  *)
(* last one committed, and the wire is empty only after it was delivered.  *)
(* Streams exist only while the hub is available, and it is not available  *)
(* between the loss of one connection and the LISTEN of the next.          *)
(*                                                                         *)
(* Then the cards: their steps are steps of Realtime, so that what is      *)
(* proved of it holds here; no card outlives its page; and no late build   *)
(* replaces a current card.                                                *)
(***************************************************************************)
EXTENDS PreviewCards, SequenceTheorems, TLAPS

\* What is last in a queue of changes.
LEMMA LatestOfAppend ==
    ASSUME NEW S, NEW q \in Seq(S), NEW n \in S, NEW o
    PROVE  /\ Latest(Append(q, n), o) = n
           /\ Append(q, n) \in Seq(S) /\ Append(q, n) # <<>>
  BY AppendProperties DEF Latest

LEMMA LatestOfTail ==
    ASSUME NEW S, NEW q \in Seq(S), q # <<>>, NEW o
    PROVE  /\ Latest(Tail(q), Head(q)) = Latest(q, o)
           /\ Head(q) \in S /\ Tail(q) \in Seq(S)
<1> DEFINE t == Tail(q)
           n == Len(q)
<1>1. /\ Head(q) \in S /\ t \in Seq(S)
      /\ Len(t) = n - 1
      /\ \A i \in 1..Len(t) : t[i] = q[i + 1]
  BY HeadTailProperties
<1>2. n \in Nat \ {0} /\ Head(q) = q[1]
  BY EmptySeq, LenProperties
<1>3. Latest(q, o) = q[n]
  BY DEF Latest
<1>4. t = <<>> <=> Len(t) = 0
  BY <1>1, EmptySeq
<1>5. Latest(t, Head(q)) = IF t = <<>> THEN Head(q) ELSE t[Len(t)]
  BY DEF Latest
<1> HIDE DEF t, n
<1>6. CASE n = 1
  BY <1>1, <1>2, <1>3, <1>4, <1>5, <1>6 DEF t
<1>7. CASE n > 1
  <2>1. t[n - 1] = q[n]
    BY <1>1, <1>2, <1>7
  <2> QED
    BY <1>1, <1>2, <1>3, <1>4, <1>5, <1>7, <2>1 DEF t
<1> QED
  BY <1>2, <1>6, <1>7

Changes == 1..MaxRevision
StreamRows == [open : BOOLEAN, canceled : BOOLEAN, queue : Seq(Changes), told : 0..MaxRevision]

\* A stream that is closed is one.
LEMMA ClosedIsARow == Closed \in StreamRows /\ ~Closed.open
<1>1. <<>> \in Seq(Changes)
  BY EmptySeq
<1> QED
  BY <1>1, DepthAssumption DEF Closed, StreamRows

\* Every process starts with no stream and an idle connection.
LEMMA InvInit == RealtimeInit => RealtimeInv
<1> SUFFICES ASSUME RealtimeInit PROVE RealtimeInv
  OBVIOUS
<1>1. RealtimeTypeOK
  <2>1. stream \in [Streams -> StreamRows]
    BY ClosedIsARow DEF RealtimeInit
  <2>2. wire \in Seq(Changes)
    BY EmptySeq DEF RealtimeInit
  <2>3. revision \in Changes
    BY DepthAssumption DEF RealtimeInit, Changes
  <2>4. /\ deleted \in BOOLEAN /\ available \in BOOLEAN
        /\ link \in {"down", "up", "broken"} /\ access \in {"live", "closing", "none"}
    BY DEF RealtimeInit
  <2> QED
    BY <2>1, <2>2, <2>3, <2>4 DEF RealtimeTypeOK, StreamRows, Changes
<1>2. ListenerInv /\ NoStreamOfAHiddenPage /\ NothingMissedSilently
  BY ClosedIsARow, StreamsAssumption DEF RealtimeInit, ListenerInv, NoStreamOfAHiddenPage, Drained,
     NothingMissedSilently
<1> QED
  BY <1>1, <1>2 DEF RealtimeInv

\* A commit is last on the wire of a connection that is up.
LEMMA CommitKeeps ==
    ASSUME RealtimeInv, NEW deletes \in BOOLEAN, NEW live \in BOOLEAN, Commit(deletes, live)
    PROVE  RealtimeInv'
<1>1. revision' \in Changes
  BY DepthAssumption DEF Commit, RealtimeInv, RealtimeTypeOK, Changes
<1>2. /\ UNCHANGED <<link, available, stream>> /\ deleted' \in BOOLEAN
      /\ access' \in {"live", "closing", "none"}
  BY DEF Commit
<1>h. NoStreamOfAHiddenPage'
  BY DEF Commit, RealtimeInv, RealtimeTypeOK, NoStreamOfAHiddenPage, Drained
<1>3. wire \in Seq(Changes)
  BY DEF RealtimeInv, RealtimeTypeOK, Changes
<1>4. CASE link = "up"
  <2>1. wire' = Append(wire, revision')
    BY <1>4 DEF Commit
  <2>2. wire' \in Seq(Changes) /\ \A o : Latest(wire', o) = revision'
    BY <1>1, <1>3, <2>1, LatestOfAppend
  <2>3. RealtimeTypeOK'
    BY <1>1, <1>2, <2>2 DEF RealtimeInv, RealtimeTypeOK, Changes
  <2>4. ListenerInv'
    BY <1>2, <1>4, <2>2 DEF RealtimeInv, ListenerInv
  <2>5. NothingMissedSilently'
    BY <2>2 DEF NothingMissedSilently, Newest
  <2> QED
    BY <1>h, <2>3, <2>4, <2>5 DEF RealtimeInv
<1>5. CASE link # "up"
  <2>1. wire' = wire
    BY <1>5 DEF Commit
  <2>2. RealtimeTypeOK'
    BY <1>1, <1>2, <2>1 DEF RealtimeInv, RealtimeTypeOK, Changes
  <2>3. ListenerInv' /\ NothingMissedSilently'
    BY <1>2, <1>5, <2>1 DEF RealtimeInv, RealtimeTypeOK, ListenerInv, NothingMissedSilently
  <2> QED
    BY <1>h, <2>2, <2>3 DEF RealtimeInv
<1> QED
  BY <1>4, <1>5

\* A drain cancels leases and no more.
LEMMA FenceKeeps ==
    ASSUME RealtimeInv, CloseFence \/ OpenFence
    PROVE  RealtimeInv'
<1> USE DEF RealtimeInv, row
<1>1. /\ UNCHANGED <<revision, deleted, link, wire, available>>
      /\ access' \in {"live", "closing"}
  BY DEF CloseFence, OpenFence
<1>2. stream \in [Streams -> StreamRows]
  BY DEF RealtimeTypeOK, StreamRows, Changes
<1>3. \A s \in Streams : /\ stream'[s] \in StreamRows
                         /\ stream'[s].open = stream[s].open
                         /\ stream'[s].queue = stream[s].queue
                         /\ stream'[s].told = stream[s].told
  BY <1>2 DEF CloseFence, OpenFence, StreamRows
<1>4. stream' \in [Streams -> StreamRows]
  BY <1>2, <1>3 DEF CloseFence, OpenFence
<1>5. RealtimeTypeOK'
  BY <1>1, <1>4 DEF RealtimeTypeOK, StreamRows, Changes
<1>6. ListenerInv' /\ NoStreamOfAHiddenPage'
  BY <1>1, <1>3 DEF ListenerInv, NoStreamOfAHiddenPage
<1>7. \A s \in Streams : Newest(s)' = Newest(s)
  BY <1>1, <1>3 DEF Newest
<1>8. NothingMissedSilently'
  BY <1>1, <1>3, <1>7 DEF NothingMissedSilently
<1> QED
  BY <1>5, <1>6, <1>8

\* The listener: it connects while there is no stream, and closes all streams
\* before it connects again.
LEMMA ListenerKeeps ==
    ASSUME RealtimeInv, ListenerStep \/ Break
    PROVE  RealtimeInv'
<1> USE DEF RealtimeInv, row
<1>1. CASE Listen
  BY <1>1 DEF Listen, RealtimeTypeOK, ListenerInv, NoStreamOfAHiddenPage, Drained,
     NothingMissedSilently, Latest
<1>2. CASE SetAvailable
  <2>1. UNCHANGED <<revision, deleted, access, link, wire, stream>> /\ available' = TRUE /\ link # "down"
    BY <1>2 DEF SetAvailable
  <2>2. RealtimeTypeOK' /\ ListenerInv' /\ NoStreamOfAHiddenPage'
    BY <2>1 DEF RealtimeTypeOK, ListenerInv, NoStreamOfAHiddenPage, Drained
  <2>3. \A s \in Streams : Newest(s)' = Newest(s)
    BY <2>1 DEF Newest
  <2> QED
    BY <2>1, <2>2, <2>3 DEF NothingMissedSilently
<1>3. CASE NoticeLoss
  <2>1. \A s \in Streams : ~stream'[s].open
    BY <1>3, ClosedIsARow DEF NoticeLoss
  <2>2. RealtimeTypeOK'
    BY <1>3, ClosedIsARow DEF NoticeLoss, RealtimeTypeOK, StreamRows, Changes
  <2> QED
    BY <1>3, <2>1, <2>2, StreamsAssumption DEF NoticeLoss, ListenerInv, NoStreamOfAHiddenPage,
       Drained, NothingMissedSilently
<1>4. CASE Break
  <2>1. PICK n \in 0..Len(wire) : wire' = SubSeq(wire, 1, n)
    BY <1>4 DEF Break
  <2>2. wire \in Seq(Changes) /\ Len(wire) \in Nat
    BY LenProperties DEF RealtimeTypeOK, Changes
  <2>3. \A i \in 1..n : wire[i] \in Changes
    BY <2>1, <2>2, ElementOfSeq
  <2>4. wire' \in Seq(Changes)
    BY <2>1, <2>2, <2>3, SubSeqProperties
  <2> QED
    BY <1>4, <2>4 DEF Break, RealtimeTypeOK, ListenerInv, NoStreamOfAHiddenPage, Drained,
       NothingMissedSilently, Changes
<1> QED
  BY <1>1, <1>2, <1>3, <1>4 DEF ListenerStep

\* A notification goes into every open queue, or the stream is closed.
LEMMA PublishKeeps ==
    ASSUME RealtimeInv, Publish
    PROVE  RealtimeInv'
<1> DEFINE n == Head(wire)
<1>1. UNCHANGED <<revision, deleted, access, link, available>> /\ wire' = Tail(wire) /\ available /\ wire # <<>>
  BY DEF Publish, row
<1>2. wire \in Seq(Changes) /\ stream \in [Streams -> StreamRows]
  BY DEF RealtimeInv, RealtimeTypeOK, Changes, StreamRows
<1>3. n \in Changes /\ wire' \in Seq(Changes) /\ \A o : Latest(wire', n) = Latest(wire, o)
  BY <1>1, <1>2, LatestOfTail
<1>4. ASSUME NEW s \in Streams
      PROVE  /\ stream'[s] \in StreamRows
             /\ stream'[s].open => stream[s].open /\ Latest(stream'[s].queue, stream'[s].told) = n
  <2>1. stream[s] \in StreamRows /\ stream'[s] = Pushed(s, n)
    BY <1>2 DEF Publish
  <2>2. CASE stream'[s] = Closed
    BY <2>2, ClosedIsARow
  <2>3. CASE ~stream[s].open
    BY <2>1, <2>3 DEF Pushed
  <2>4. CASE /\ stream[s].open
             /\ stream'[s] = [stream[s] EXCEPT !.queue = Append(stream[s].queue, n)]
    <3> DEFINE q == stream[s].queue
               a == Append(q, n)
    <3>1. q \in Seq(Changes)
      BY <2>1 DEF StreamRows
    <3>2. a \in Seq(Changes) /\ \A o : Latest(a, o) = n
      BY <1>3, <3>1, LatestOfAppend
    <3> HIDE DEF q, a, n
    <3>3. stream'[s] = [stream[s] EXCEPT !.queue = a]
      BY <2>4 DEF q, a
    <3>4. stream'[s] \in StreamRows /\ stream'[s].queue = a
      BY <2>1, <3>2, <3>3 DEF StreamRows
    <3> QED
      BY <2>4, <3>2, <3>4
  <2> QED
    BY <2>1, <2>2, <2>3, <2>4 DEF Pushed
<1>5. stream' \in [Streams -> StreamRows]
  BY <1>4 DEF Publish
<1>6. RealtimeTypeOK'
  BY <1>1, <1>3, <1>5 DEF RealtimeInv, RealtimeTypeOK, StreamRows, Changes
<1>7. ASSUME NEW s \in Streams, stream'[s].open
      PROVE  stream[s].open /\ Newest(s)' = Latest(wire, revision)
  BY <1>3, <1>4, <1>7 DEF Newest
<1>8. link = "up" => Latest(wire', revision) = revision
  BY <1>1, <1>3 DEF RealtimeInv, ListenerInv, Latest
<1>9. ListenerInv' /\ NoStreamOfAHiddenPage'
  BY <1>1, <1>7, <1>8, StreamsAssumption DEF RealtimeInv, ListenerInv, NoStreamOfAHiddenPage, Drained
<1>10. NothingMissedSilently'
  BY <1>1, <1>7 DEF RealtimeInv, RealtimeTypeOK, ListenerInv, NothingMissedSilently
<1> QED
  BY <1>6, <1>9, <1>10 DEF RealtimeInv

\* A client that connects reads the resume; what it is told comes in order.
LEMMA StreamKeeps ==
    ASSUME RealtimeInv, NEW s \in Streams, StreamStep(s)
    PROVE  RealtimeInv'
<1>1. UNCHANGED <<revision, deleted, access, link, wire, available>>
  BY DEF StreamStep, Subscribe, Tell, Leave, row
<1>2. stream \in [Streams -> StreamRows] /\ stream[s] \in StreamRows
  BY DEF RealtimeInv, RealtimeTypeOK, StreamRows, Changes
<1>3. /\ stream' = [stream EXCEPT ![s] = stream'[s]]
      /\ stream'[s] \in StreamRows
      /\ stream'[s].open => available
      /\ stream'[s].open => stream[s].open \/ (s \in Public => access = "live")
      /\ stream'[s].open /\ link = "up" => Newest(s)' = revision
  <2>1. CASE Subscribe(s)
    <3>1. /\ stream' = [stream EXCEPT ![s] = Opened] /\ available
          /\ s \in Public => access = "live"
      BY <2>1 DEF Subscribe
    <3>2. stream'[s] = Opened
      BY <1>2, <3>1
    <3>3. Opened \in StreamRows /\ Opened.queue = <<>> /\ Opened.told = revision
      BY EmptySeq DEF Opened, StreamRows, RealtimeInv, RealtimeTypeOK, Changes
    <3>4. Newest(s)' = Latest(wire, revision)
      BY <1>1, <3>2, <3>3 DEF Newest, Latest
    <3> QED
      BY <3>1, <3>2, <3>3, <3>4 DEF RealtimeInv, ListenerInv
  <2>2. CASE Tell(s)
    <3> DEFINE q == stream[s].queue
               h == Head(q)
               t == Tail(q)
    <3>1. q \in Seq(Changes) /\ q # <<>> /\ stream[s].open
      BY <1>2, <2>2 DEF Tell, StreamRows
    <3>2. /\ Latest(t, h) = Latest(q, stream[s].told)
          /\ h \in Changes /\ t \in Seq(Changes)
      BY <3>1, LatestOfTail
    <3>3. stream' = [stream EXCEPT ![s].told = h, ![s].queue = t]
      BY <2>2 DEF Tell
    <3> HIDE DEF h, t
    <3>4. stream'[s] = [stream[s] EXCEPT !.told = h, !.queue = t]
      BY <1>2, <3>3
    <3>5. stream'[s] \in StreamRows /\ stream'[s].queue = t /\ stream'[s].told = h
      <4>1. h \in 0..MaxRevision
        BY <3>2 DEF Changes
      <4> HIDE DEF q
      <4>2. stream[s].open \in BOOLEAN /\ stream[s].canceled \in BOOLEAN
        BY <1>2 DEF StreamRows
      <4>3. stream'[s] = [open |-> stream[s].open, canceled |-> stream[s].canceled,
                          queue |-> t, told |-> h]
        BY <1>2, <3>4 DEF StreamRows
      <4> QED
        BY <3>2, <4>1, <4>2, <4>3 DEF StreamRows
    <3>6. Newest(s)' = Newest(s)
      BY <1>1, <3>2, <3>5 DEF Newest
    <3>7. stream' = [stream EXCEPT ![s] = stream'[s]]
      BY <1>2, <3>3
    <3> QED
      BY <3>1, <3>5, <3>6, <3>7 DEF RealtimeInv, ListenerInv, NothingMissedSilently
  <2>3. CASE Leave(s)
    BY <1>2, <2>3, ClosedIsARow DEF Leave
  <2> QED
    BY <2>1, <2>2, <2>3 DEF StreamStep
<1>4. ASSUME NEW t \in Streams, t # s
      PROVE  stream'[t] = stream[t] /\ Newest(t)' = Newest(t)
  <2>1. stream'[t] = stream[t]
    BY <1>2, <1>3, <1>4
  <2> QED
    BY <1>1, <2>1 DEF Newest
<1>5. RealtimeTypeOK'
  <2>1. stream' \in [Streams -> StreamRows]
    BY <1>2, <1>3
  <2> QED
    BY <1>1, <2>1 DEF RealtimeInv, RealtimeTypeOK, StreamRows, Changes
<1>6. ListenerInv' /\ NoStreamOfAHiddenPage'
  BY <1>1, <1>3, <1>4, StreamsAssumption DEF RealtimeInv, ListenerInv, NoStreamOfAHiddenPage, Drained
<1>7. NothingMissedSilently'
  <2> SUFFICES ASSUME NEW t \in Streams, stream'[t].open, link' # "broken"
               PROVE  Newest(t)' = revision'
    BY DEF NothingMissedSilently
  <2>1. CASE t = s
    BY <1>1, <1>3, <2>1 DEF RealtimeInv, ListenerInv, RealtimeTypeOK
  <2>2. CASE t # s
    BY <1>1, <1>4, <2>2 DEF RealtimeInv, NothingMissedSilently
  <2> QED
    BY <2>1, <2>2
<1> QED
  BY <1>5, <1>6, <1>7 DEF RealtimeInv

\* The inductive invariant: wire, listener and streams agree.
LEMMA StepKeeps == RealtimeInv /\ [RealtimeNext]_realtime => RealtimeInv'
<1> SUFFICES ASSUME RealtimeInv, [RealtimeNext]_realtime PROVE RealtimeInv'
  OBVIOUS
<1>1. CASE RealtimeNext
  BY <1>1, CommitKeeps, FenceKeeps, ListenerKeeps, PublishKeeps, StreamKeeps DEF RealtimeNext
<1>2. CASE UNCHANGED realtime
  BY <1>2 DEF realtime, row, RealtimeInv, RealtimeTypeOK, ListenerInv,
     NoStreamOfAHiddenPage, Drained, NothingMissedSilently, Newest, Latest
<1> QED
  BY <1>1, <1>2

\* Wire, listener and streams always agree; in particular a client whose stream
\* is open knows the latest change, or will be told, or will be closed.
THEOREM RealtimeInvariant == RealtimeSpec => []RealtimeInv
  BY InvInit, StepKeeps, PTL DEF RealtimeSpec

-----------------------------------------------------------------------------
(* The listener and the streams are those of Realtime.                     *)

\* Whatever happens to cards, the realtime part steps or stutters.
LEMMA StepOfRealtime == [Next]_vars => [RealtimeNext]_realtime
<1> SUFFICES ASSUME [Next]_vars PROVE [RealtimeNext]_realtime
  OBVIOUS
<1>1. ASSUME NEW p \in Versions \cup {Offline}, NEW deletes \in BOOLEAN, Change(p, deletes)
      PROVE  RealtimeNext
  <2>1. Commit(deletes, p # Offline) /\ (p # Offline) \in BOOLEAN
    BY <1>1 DEF Change
  <2> QED
    BY <2>1 DEF RealtimeNext
<1>2. CASE CloseFence \/ OpenFence \/ ListenerStep \/ \E s \in Streams : StreamStep(s)
  BY <1>2 DEF RealtimeNext
<1>3. CASE LoseConnection \/ PublishChange
  BY <1>3 DEF LoseConnection, PublishChange, RealtimeNext
<1>4. CASE QuietEnds \/ RetryFires \/ WorkerStep \/ Request
  BY <1>4 DEF QuietEnds, RetryFires, WorkerStep, TakeCheck, ReadLive, ReadStored, WorkerLeaves,
     Request, BuildLeaves
<1>5. CASE \E b \in Priorities : BuildStep(b)
  BY <1>5 DEF BuildStep, Render, Save, BuildLeaves
<1>6. CASE SweepStep
  BY <1>6 DEF SweepStep, SweepLists, SweepFails, SweepChecks, SweepLeaves
<1>7. CASE UNCHANGED vars
  BY <1>7 DEF vars
<1> QED
  BY <1>1, <1>2, <1>3, <1>4, <1>5, <1>6, <1>7 DEF Next

\* The cards add nothing to what listener and streams may do.
THEOREM RealtimeWithCards == Spec => RealtimeSpec
<1>1. Init => RealtimeInit
  BY DEF Init
<1> QED
  BY <1>1, StepOfRealtime, PTL DEF Spec, RealtimeSpec

\* No stream misses a change unawares: its client knows the latest change, is
\* about to be told, or is about to be closed.
THEOREM NobodyMissesAChange == Spec => []NothingMissedSilently
<1>1. RealtimeInv => NothingMissedSilently
  BY DEF RealtimeInv
<1> QED
  BY <1>1, RealtimeWithCards, RealtimeInvariant, PTL

\* The fence is that of the page.
FenceOfThePage == access = "none" <=> page = Offline

LEMMA FenceFollowsPage == FenceOfThePage /\ [Next]_vars => FenceOfThePage'
<1> SUFFICES ASSUME FenceOfThePage, [Next]_vars PROVE FenceOfThePage'
  OBVIOUS
<1> USE DEF FenceOfThePage, cards, realtime
<1>1. CASE \E p \in Versions \cup {Offline}, deletes \in BOOLEAN : Change(p, deletes)
  BY <1>1 DEF Change, Commit
<1>2. CASE (CloseFence \/ OpenFence) /\ UNCHANGED CardsKeep
  BY <1>2 DEF CloseFence, OpenFence, CardsKeep
<1>3. CASE (ListenerStep \/ \E s \in Streams : StreamStep(s)) /\ UNCHANGED CardsKeep
  BY <1>3 DEF ListenerStep, Listen, SetAvailable, NoticeLoss, StreamStep, Subscribe, Tell, Leave,
     CardsKeep
<1>4. CASE LoseConnection \/ PublishChange
  BY <1>4 DEF LoseConnection, Break, PublishChange, Publish
<1>5. CASE QuietEnds \/ RetryFires \/ WorkerStep \/ Request
  BY <1>5 DEF QuietEnds, RetryFires, WorkerStep, TakeCheck, ReadLive, ReadStored, WorkerLeaves,
     Request, BuildLeaves
<1>6. CASE \E b \in Priorities : BuildStep(b)
  BY <1>6 DEF BuildStep, Render, Save, BuildLeaves
<1>7. CASE SweepStep
  BY <1>7 DEF SweepStep, SweepLists, SweepFails, SweepChecks, SweepLeaves
<1>8. CASE UNCHANGED vars
  BY <1>8 DEF vars
<1> QED
  BY <1>1, <1>2, <1>3, <1>4, <1>5, <1>6, <1>7, <1>8 DEF Next

\* A page that is not live, be it withdrawn or deleted, has no public stream:
\* the drain outlasts every stream that was admitted before, the fence admits none
\* after.
THEOREM NoStreamOutlivesItsPage == Spec => [](page = Offline => Drained)
<1>1. Init => FenceOfThePage
  BY VersionsAssumption DEF Init, FenceOfThePage
<1>2. RealtimeInv /\ FenceOfThePage => (page = Offline => Drained)
  BY DEF RealtimeInv, NoStreamOfAHiddenPage, FenceOfThePage
<1> QED
  BY <1>1, <1>2, FenceFollowsPage, RealtimeWithCards, RealtimeInvariant, PTL DEF Spec

-----------------------------------------------------------------------------
(* The stored card.                                                        *)

Flights == [phase : {"rendering", "saving"}, version : Versions]

\* The inductive invariant: besides the property, every build is of a version
\* of the page, so that a card that is saved while its version is the page's
\* present one is the card of a live page.
CardInv ==
    /\ page \in Versions \cup {Offline}
    /\ stored \in Versions \cup {NoCard}
    /\ build \in [Priorities -> {NoBuild} \cup Flights]
    /\ worker.phase = "read" => worker.version \in Versions
    /\ CardOfCurrentPage

\* What a step may do to page and card.
Saves == \E b \in Priorities : build[b].phase = "saving" /\ StillCurrent(b) /\ stored' = build[b].version
PageChanges == \E p \in Versions \cup {Offline} :
                    page' = p /\ stored' = IF Kept(p) THEN stored ELSE NoCard
Touches ==
    \/ UNCHANGED <<page, stored>>
    \/ page' = page /\ Saves
    \/ PageChanges

LEMMA StepTouches == [Next]_vars => Touches
<1> SUFFICES ASSUME [Next]_vars PROVE Touches
  OBVIOUS
<1> USE DEF cards
<1>1. CASE \E p \in Versions \cup {Offline}, deletes \in BOOLEAN : Change(p, deletes)
  BY <1>1 DEF Change, Touches, PageChanges
<1>2. CASE UNCHANGED CardsKeep
  BY <1>2 DEF CardsKeep, Touches
<1>3. CASE LoseConnection \/ PublishChange
  BY <1>3 DEF LoseConnection, PublishChange, Touches
<1>4. CASE QuietEnds \/ RetryFires \/ WorkerStep \/ Request
  BY <1>4 DEF QuietEnds, RetryFires, WorkerStep, TakeCheck, ReadLive, ReadStored, WorkerLeaves,
     Request, BuildLeaves, Touches
<1>5. CASE \E b \in Priorities : BuildStep(b)
  BY <1>5 DEF BuildStep, Render, Save, BuildLeaves, Touches, Saves
<1>6. CASE SweepStep
  BY <1>6 DEF SweepStep, SweepLists, SweepFails, SweepChecks, SweepLeaves, Touches
<1>7. CASE UNCHANGED vars
  BY <1>7 DEF vars, Touches
<1> QED
  BY <1>1, <1>2, <1>3, <1>4, <1>5, <1>6, <1>7 DEF Next

\* A card is only saved for a live page, and a change keeps only its own card.
LEMMA TouchesKeep ==
    ASSUME CardInv, Touches
    PROVE  /\ page' \in Versions \cup {Offline}
           /\ stored' \in Versions \cup {NoCard}
           /\ CardOfCurrentPage'
<1>1. CASE UNCHANGED <<page, stored>>
  BY <1>1 DEF CardInv, CardOfCurrentPage
<1>2. CASE page' = page /\ Saves
  <2>1. PICK b \in Priorities :
            build[b].phase = "saving" /\ page = build[b].version /\ stored' = page
    BY <1>2 DEF Saves, StillCurrent
  <2>2. build[b] \in {NoBuild} \cup Flights
    BY DEF CardInv
  <2>3. page \in Versions
    BY <2>1, <2>2 DEF NoBuild, Flights
  <2> QED
    BY <1>2, <2>1, <2>3, VersionsAssumption DEF CardOfCurrentPage
<1>3. CASE PageChanges
  BY <1>3 DEF PageChanges, Kept, CardInv, CardOfCurrentPage
<1> QED
  BY <1>1, <1>2, <1>3 DEF Touches

\* The worker and a request build only versions they have read.
LEMMA StepKeepsBuilds ==
    ASSUME CardInv, [Next]_vars
    PROVE  /\ build' \in [Priorities -> {NoBuild} \cup Flights]
           /\ worker'.phase = "read" => worker'.version \in Versions
<1> DEFINE Builds == [Priorities -> {NoBuild} \cup Flights]
           Reads(w) == w.phase = "read" => w.version \in Versions
<1> SUFFICES build' \in Builds /\ Reads(worker')
  OBVIOUS
<1>0. build \in Builds /\ Reads(worker) /\ page \in Versions \cup {Offline}
  BY DEF CardInv
<1>i. Reads(Idle)
  BY DEF Idle
<1>n. \A b \in Priorities : [build EXCEPT ![b] = NoBuild] \in Builds
  BY <1>0
<1>f. \A b \in Priorities, f \in Flights : [build EXCEPT ![b] = f] \in Builds
  BY <1>0
<1>1. CASE UNCHANGED <<worker, build>>
  BY <1>0, <1>1
<1>2. CASE TakeCheck
  BY <1>0, <1>2 DEF TakeCheck
<1>3. CASE ReadLive
  BY <1>0, <1>i, <1>3 DEF ReadLive
<1>4. CASE ReadStored
  <2>1. CASE worker' = Idle /\ UNCHANGED build
    BY <1>0, <1>i, <2>1
  <2>2. CASE JoinBuild
    <3>1. worker.version \in Versions
      BY <1>0, <1>4 DEF ReadStored
    <3>2. [phase |-> "rendering", version |-> worker.version] \in Flights /\ "low" \in Priorities
      BY <3>1 DEF Flights, Priorities
    <3>3. build' \in Builds
      BY <1>0, <1>f, <2>2, <3>2 DEF JoinBuild
    <3>4. Reads(worker')
      BY <2>2 DEF JoinBuild
    <3> QED
      BY <3>3, <3>4
  <2> QED
    BY <1>4, <2>1, <2>2 DEF ReadStored
<1>5. CASE Request
  <2>1. [phase |-> "rendering", version |-> page] \in Flights /\ "normal" \in Priorities
    BY <1>0, <1>5 DEF Request, Flights, Priorities
  <2> QED
    BY <1>0, <1>f, <1>5, <2>1 DEF Request
<1>6. ASSUME NEW b \in Priorities, NEW answer, End(b, answer)
      PROVE  build' \in Builds /\ Reads(worker')
  BY <1>0, <1>i, <1>n, <1>6 DEF End, Finish
<1>7. ASSUME NEW b \in Priorities, BuildStep(b)
      PROVE  build' \in Builds /\ Reads(worker')
  <2>1. CASE Render(b) /\ build' = [build EXCEPT ![b].phase = "saving"] /\ UNCHANGED worker
    <3>1. build[b] \in {NoBuild} \cup Flights /\ build[b].phase = "rendering"
      BY <1>0, <2>1 DEF Render
    <3>2. build[b] \in Flights
      BY <3>1 DEF NoBuild
    <3>3. [build[b] EXCEPT !.phase = "saving"] \in Flights
      BY <3>2 DEF Flights
    <3>4. build' = [build EXCEPT ![b] = [build[b] EXCEPT !.phase = "saving"]]
      BY <2>1
    <3> QED
      BY <1>0, <1>f, <2>1, <3>3, <3>4
  <2>2. CASE End(b, "failed") \/ End(b, "settled")
    BY <1>6, <2>2
  <2> QED
    BY <1>7, <2>1, <2>2 DEF BuildStep, Render, Save
<1> QED
  <2> USE DEF scheduler
  <2>1. CASE \E p \in Versions \cup {Offline}, deletes \in BOOLEAN : Change(p, deletes)
    BY <1>1, <2>1 DEF Change
  <2>2. CASE UNCHANGED CardsKeep \/ UNCHANGED vars
    BY <1>1, <2>2 DEF CardsKeep, vars
  <2>3. CASE LoseConnection \/ PublishChange
    BY <1>1, <2>3 DEF LoseConnection, PublishChange, Notify
  <2>4. CASE QuietEnds \/ RetryFires
    BY <1>1, <2>4 DEF QuietEnds, RetryFires
  <2>5. CASE SweepStep
    BY <1>1, <2>5 DEF SweepStep, SweepLists, SweepFails, SweepChecks, SweepLeaves
  <2> QED
    BY <1>2, <1>3, <1>4, <1>5, <1>7, <2>1, <2>2, <2>3, <2>4, <2>5 DEF Next, WorkerStep

\* Every process starts with a card its predecessor may have left.
LEMMA CardInvInit == Init => CardInv
<1> SUFFICES ASSUME Init PROVE CardInv
  OBVIOUS
<1>1. worker.phase # "read" /\ build \in [Priorities -> {NoBuild} \cup Flights]
  BY DEF Init, Idle
<1> QED
  BY <1>1, VersionsAssumption DEF Init, CardInv, CardOfCurrentPage

LEMMA CardInvStep == CardInv /\ [Next]_vars => CardInv'
  BY StepTouches, TouchesKeep, StepKeepsBuilds DEF CardInv

\* Whatever builds are under way, a stored card is that of the live page at its
\* present slug.
THEOREM NoCardOutlivesItsPage == Spec => []CardOfCurrentPage
<1>1. CardInv => CardOfCurrentPage
  BY DEF CardInv
<1> QED
  BY <1>1, CardInvInit, CardInvStep, PTL DEF Spec

\* A current card is only taken away by a change of the page.
THEOREM LateBuildsReplaceNothing == Spec => CurrentCardStays
<1>1. CardInv /\ [Next]_vars => [stored = page /\ page' = page => stored' = stored]_vars
  <2> SUFFICES ASSUME CardInv, [Next]_vars, stored = page, page' = page
               PROVE  stored' = stored
    OBVIOUS
  <2>1. Touches
    BY StepTouches
  <2> QED
    BY <2>1, VersionsAssumption DEF CardInv, Touches, Saves, StillCurrent, PageChanges, Kept
<1> QED
  BY <1>1, CardInvInit, CardInvStep, PTL DEF Spec, CurrentCardStays
=============================================================================

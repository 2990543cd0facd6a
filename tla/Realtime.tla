------------------------------- MODULE Realtime -------------------------------
(***************************************************************************)
(* How a committed change of a resume reaches the streams that show it:    *)
(* the trigger that notifies, the listener (realtime.RunListener), the hub *)
(* (realtime.Hub) and the goroutine of a stream (realtimeapi).             *)
(*                                                                         *)
(* PostgreSQL notifies the connections that listen when it commits, and    *)
(* keeps nothing for the others.  So whoever follows a resume must learn   *)
(* that a notification was lost: its stream is closed, and a client that   *)
(* connects again reads the resume anew.                                   *)
(*                                                                         *)
(* A public stream also holds a lease of the resume's fence (publicstate). *)
(* A transition that takes the page away, renames it or narrows who may    *)
(* see it first cancels the leases and waits for the streams to return.    *)
(***************************************************************************)
EXTENDS Naturals, Sequences

CONSTANTS
    Streams,      \* streams that follow this resume
    Public,       \* those of its public page; the others are its owner's
    QueueDepth,   \* defaultQueueDepth, 8
    MaxRevision   \* bound: the last change

ASSUME StreamsAssumption == Public \subseteq Streams
ASSUME DepthAssumption == QueueDepth \in Nat \ {0} /\ MaxRevision \in Nat \ {0}

VARIABLES
    revision,   \* the resume's row; the deletion of the row counts as a revision
    deleted,    \* the row is gone
    access,     \* the page's fence as streams meet it: live, closing or none
    link,       \* the listener's connection
    wire,       \* notifications the connection has to deliver
    available,  \* Hub.available
    stream      \* per stream: its subscription, and what its client knows

row == <<revision, deleted>>
realtime == <<row, access, link, wire, available, stream>>

Closed == [open |-> FALSE, canceled |-> FALSE, queue |-> <<>>, told |-> 0]
Opened == [open |-> TRUE, canceled |-> FALSE, queue |-> <<>>, told |-> revision]

\* A process that just started.
RealtimeInit ==
    /\ revision = 1
    /\ deleted = FALSE
    /\ access \in {"live", "none"}
    /\ link = "down"
    /\ wire = <<>>
    /\ available = FALSE
    /\ stream = [s \in Streams |-> Closed]

-----------------------------------------------------------------------------
(* Changes of the resume.                                                  *)

\* Close of a transition that drains: admission ends, the leases are canceled.
CloseFence ==
    /\ access = "live"
    /\ access' = "closing"
    /\ stream' = [s \in Streams |->
                    IF s \in Public /\ stream[s].open
                      THEN [stream[s] EXCEPT !.canceled = TRUE] ELSE stream[s]]
    /\ UNCHANGED <<row, link, wire, available>>

\* The drain takes too long or the transaction fails: the page stays as it was.
\* A lease that was canceled stays canceled.
OpenFence ==
    /\ access = "closing"
    /\ access' = "live"
    /\ UNCHANGED <<row, link, wire, available, stream>>

Drained == \A s \in Public : ~stream[s].open

\* The row changes, after which the page is live or not; its deletion is the
\* last change.  A live page ends only behind a fence that has drained.
Commit(deletes, live) ==
    /\ ~deleted
    /\ revision < MaxRevision
    /\ deletes => ~live
    /\ access = "live" => live
    /\ access = "closing" => Drained
    /\ revision' = revision + 1
    /\ deleted' = deletes
    /\ access' = IF live THEN "live" ELSE "none"
    /\ wire' = IF link = "up" THEN Append(wire, revision') ELSE wire
    /\ UNCHANGED <<link, available, stream>>

IsDeletion(n) == deleted /\ n = revision

-----------------------------------------------------------------------------
(* The listener.                                                           *)

\* A pool connection executes LISTEN; until it does the listener backs off.
Listen ==
    /\ link = "down"
    /\ link' = "up"
    /\ UNCHANGED <<row, access, wire, available, stream>>

\* Wrong variant: streams are admitted before the connection listens.
AvailableAtOnce ==
    /\ ~available
    /\ available' = TRUE
    /\ UNCHANGED <<row, access, link, wire, stream>>

SetAvailable ==
    /\ link # "down"
    /\ ~available
    /\ available' = TRUE
    /\ UNCHANGED <<row, access, link, wire, stream>>

\* The connection breaks, or something malformed makes the listener drop it;
\* the first notifications may have arrived.
Break ==
    /\ link = "up"
    /\ link' = "broken"
    /\ \E n \in 0..Len(wire) : wire' = SubSeq(wire, 1, n)
    /\ UNCHANGED <<row, access, available, stream>>

\* Wrong variant: a full queue drops the change.
DropsWhenFull(s, n) ==
    IF ~stream[s].open THEN stream[s]
    ELSE IF s \in Public /\ IsDeletion(n) THEN Closed
    ELSE IF Len(stream[s].queue) < QueueDepth
         THEN [stream[s] EXCEPT !.queue = Append(@, n)]
         ELSE stream[s]

\* What a change does to a subscription: an entry, its end, or its eviction.
Pushed(s, n) ==
    IF ~stream[s].open THEN stream[s]
    ELSE IF s \in Public /\ IsDeletion(n) THEN Closed
    ELSE IF Len(stream[s].queue) < QueueDepth
         THEN [stream[s] EXCEPT !.queue = Append(@, n)]
         ELSE Closed

\* Hub.Publish, without its observer.
Publish ==
    /\ available
    /\ wire # <<>>
    /\ wire' = Tail(wire)
    /\ stream' = [s \in Streams |-> Pushed(s, Head(wire))]
    /\ UNCHANGED <<row, access, link, available>>

\* Waiting fails: every stream is closed before the listener connects again.
NoticeLoss ==
    /\ link = "broken"
    /\ available
    /\ wire = <<>>
    /\ link' = "down"
    /\ available' = FALSE
    /\ stream' = [s \in Streams |-> Closed]
    /\ UNCHANGED <<row, access, wire>>

-----------------------------------------------------------------------------
(* Streams.                                                                *)

\* Its client reads the resume after it is connected.  A public stream is
\* admitted by the fence.
Subscribe(s) ==
    /\ available
    /\ s \in Public => access = "live"
    /\ ~stream[s].open
    /\ stream' = [stream EXCEPT ![s] = Opened]
    /\ UNCHANGED <<row, access, link, wire, available>>

\* A frame is written; none is under a canceled lease.
Tell(s) ==
    /\ stream[s].open
    /\ ~stream[s].canceled
    /\ stream[s].queue # <<>>
    /\ stream' = [stream EXCEPT ![s].told = Head(stream[s].queue),
                                ![s].queue = Tail(stream[s].queue)]
    /\ UNCHANGED <<row, access, link, wire, available>>

\* The client leaves, a write fails, or its session or its lease is over.
Leave(s) ==
    /\ stream[s].open
    /\ stream' = [stream EXCEPT ![s] = Closed]
    /\ UNCHANGED <<row, access, link, wire, available>>

-----------------------------------------------------------------------------
\* What the goroutine of a stream does unasked: it writes what is queued, and
\* returns once its lease is canceled.
StreamRuns(s) == Tell(s) \/ (stream[s].canceled /\ Leave(s))

ListenerStep == Listen \/ SetAvailable \/ NoticeLoss
StreamStep(s) == Subscribe(s) \/ Tell(s) \/ Leave(s)

RealtimeNext ==
    \/ CloseFence \/ OpenFence
    \/ \E deletes, live \in BOOLEAN : Commit(deletes, live)
    \/ ListenerStep \/ Break \/ Publish
    \/ \E s \in Streams : StreamStep(s)

RealtimeSpec == RealtimeInit /\ [][RealtimeNext]_realtime

-----------------------------------------------------------------------------
(* Correctness.                                                            *)

RealtimeTypeOK ==
    /\ revision \in 1..MaxRevision
    /\ deleted \in BOOLEAN
    /\ access \in {"live", "closing", "none"}
    /\ link \in {"down", "up", "broken"}
    /\ wire \in Seq(1..MaxRevision)
    /\ available \in BOOLEAN
    /\ stream \in [Streams -> [open : BOOLEAN, canceled : BOOLEAN, queue : Seq(1..MaxRevision),
                               told : 0..MaxRevision]]

\* A public stream is open only while the page is live: none outlives the
\* withdrawal or deletion of its page.
NoStreamOfAHiddenPage == access = "none" => Drained

Latest(q, otherwise) == IF q = <<>> THEN otherwise ELSE q[Len(q)]

\* The newest change on its way to a stream, or the one its client knows.
Newest(s) == Latest(wire, Latest(stream[s].queue, stream[s].told))

\* The listener and its connection agree, and no stream outlives them.
ListenerInv ==
    /\ available => link # "down"
    /\ link = "down" => wire = <<>>
    /\ link = "up" => Latest(wire, revision) = revision
    /\ \A s \in Streams : stream[s].open => available

\* A client whose stream is open knows the latest change, or the change is on
\* its way, or the listener's connection is broken and the stream will be
\* closed: nobody misses a change without being told.
NothingMissedSilently ==
    \A s \in Streams : stream[s].open /\ link # "broken" => Newest(s) = revision

\* The inductive invariant.
RealtimeInv == RealtimeTypeOK /\ ListenerInv /\ NoStreamOfAHiddenPage /\ NothingMissedSilently

\* An open stream that is behind catches up or is closed: by the listener, an
\* eviction, or its own goroutine when a withdrawal has canceled its lease.
StreamsCatchUp ==
    \A s \in Streams :
        (stream[s].open /\ stream[s].told # revision)
            ~> (~stream[s].open \/ stream[s].told = revision)
=============================================================================

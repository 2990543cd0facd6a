---------------------------- MODULE UpdateContract ----------------------------
(***************************************************************************)
(* What a client of the resume API may rely on when it sends a mutation    *)
(* with an idempotency key and an If-Match revision, with no fences, locks *)
(* or phases: a conditional update that takes effect at most once under    *)
(* its key, in one step, at the revision it names.  An answer that settles *)
(* the request is true and the last word; after a failure, or without an   *)
(* answer, the update may still take effect.  PublicMutation implements    *)
(* this.                                                                   *)
(***************************************************************************)
EXTENDS Naturals

CONSTANTS
    Clients,      \* one request each at a time
    Keys,         \* idempotency keys
    KindOf,       \* the operation each key is used for
    MaxRevision,  \* bound: no request above this revision
    NoRequest     \* what is remembered of a request that was not settled

VARIABLES
    revision,     \* of the resume, 0 when it was deleted
    live,         \* it is published
    stored,       \* per key: the revision at which it took effect, or 0
    handling,     \* per client: "handled", "abandoned" or "none"
    asked,        \* per client: the key and the revision of its request
    answer,       \* per client: the answer to its last request, or "none"
    late          \* an update took effect that nobody was handling any more

contractVars == <<revision, live, stored, handling, asked, answer, late>>

Requests == [key : Keys, base : 1..MaxRevision]
Ways == {"none", "handled", "abandoned"}
Settled == {"done", "replayed", "stale"}
Answers == Settled \cup {"reuse", "failed"}

ContractInit ==
    /\ revision = 1
    /\ live = TRUE
    /\ stored = [k \in Keys |-> 0]
    /\ handling = [c \in Clients |-> "none"]
    /\ asked = [c \in Clients |-> NoRequest]
    /\ answer = [c \in Clients |-> "none"]
    /\ late = FALSE

\* The revision was seen by the client.
Ask(c) ==
    /\ handling[c] = "none"
    /\ handling' = [handling EXCEPT ![c] = "handled"]
    /\ answer' = [answer EXCEPT ![c] = "none"]
    /\ \E request \in Requests :
         /\ revision # 0 => request.base <= revision
         /\ asked' = [asked EXCEPT ![c] = request]
    /\ UNCHANGED <<revision, live, stored, late>>

\* The update takes effect: its key is new and its revision is the resume's.
Apply(c) ==
    LET key == asked[c].key
        kind == KindOf[key] IN
    /\ handling[c] # "none"
    /\ stored[key] = 0 /\ revision = asked[c].base
    /\ stored' = [stored EXCEPT ![key] = revision]
    /\ revision' = IF kind = "delete" THEN 0 ELSE revision + 1
    /\ live' = IF kind = "edit" THEN live ELSE kind = "publish"
    /\ late' = (late \/ handling[c] = "abandoned")
    /\ handling' = IF handling[c] = "abandoned" THEN [handling EXCEPT ![c] = "none"] ELSE handling
    /\ UNCHANGED <<asked, answer>>

\* What an answer means.
IsTrue(c, result) ==
    LET at == stored[asked[c].key]
        base == asked[c].base IN
    /\ result \in {"done", "replayed"} => at = base
    /\ result = "reuse" => at \notin {0, base}
    /\ result = "stale" => revision # base \/ late

\* Each request is answered once.  Only a failure leaves open what becomes of
\* it; what was asked is forgotten when the answer says nothing of it.
Reply(c) ==
    /\ handling[c] = "handled"
    /\ answer[c] = "none"
    /\ \E result \in Answers, how \in Ways :
         /\ answer' = [answer EXCEPT ![c] = result]
         /\ IsTrue(c, result)
         /\ how # "none" => result = "failed"
         /\ handling' = [handling EXCEPT ![c] = how]
         /\ asked' = IF how = "none" /\ result \notin Settled
                       THEN [asked EXCEPT ![c] = NoRequest] ELSE asked
    /\ UNCHANGED <<revision, live, stored, late>>

\* Requests are given up, all at once when the process dies: nobody answers
\* them any more, and some may still take effect.
GiveUp ==
    /\ UNCHANGED <<revision, live, stored, asked, answer, late>>
    /\ handling' \in [Clients -> Ways]
    /\ \A c \in Clients : handling'[c] # handling[c] =>
            handling[c] # "none" /\ handling'[c] # "handled"

ContractNext ==
    \/ GiveUp
    \/ \E c \in Clients : Ask(c) \/ Apply(c) \/ Reply(c)

ContractSpec == ContractInit /\ [][ContractNext]_contractVars
=============================================================================

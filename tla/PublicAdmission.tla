--------------------------- MODULE PublicAdmission ---------------------------
(***************************************************************************)
(* What the public-state coordinator promises, with no transitions, owners *)
(* or drains: responses are admitted only at the open generation of a      *)
(* fence, and a revocation takes effect in one step, at a moment when no   *)
(* response it forbids is being sent.  PublicState implements this.        *)
(***************************************************************************)
EXTENDS Naturals

CONSTANTS
    Fences,     \* the public resources: discovery and the resumes
    Leases,     \* slots for responses
    MaxGen      \* bound: no generation above it is reached

VARIABLES
    state,      \* per fence: "absent", "open", "shut" or "retired"
    gen,        \* per fence: the generation it admits
    level,      \* per fence: no older response may be sent any more
    response    \* per slot: the response being sent, or NoResponse

admissionVars == <<state, gen, level, response>>

AdmissionGenerations == 1..MaxGen
Beyond == MaxGen + 1            \* the level of a deleted resume
NoResponse == [fence |-> 0, gen |-> 0]

AdmissionInit ==
    /\ state \in [Fences -> {"absent", "open"}]
    /\ gen \in [Fences -> 0..MaxGen]
    /\ level = [f \in Fences |-> 0]
    /\ response = [l \in Leases |-> NoResponse]

\* Fences come into being, open.
Appear ==
    \E S \in SUBSET {f \in Fences : state[f] = "absent"} :
        /\ state' = [f \in Fences |-> IF f \in S THEN "open" ELSE state[f]]
        /\ \A f \in Fences \ S : gen'[f] = gen[f]
        /\ gen' \in [Fences -> 0..MaxGen]
        /\ UNCHANGED <<level, response>>

Admit(l, f) ==
    /\ response[l] = NoResponse
    /\ state[f] = "open"
    /\ response' = [response EXCEPT ![l] = [fence |-> f, gen |-> gen[f]]]
    /\ UNCHANGED <<state, gen, level>>

End(l) ==
    /\ response' = [response EXCEPT ![l] = NoResponse]
    /\ UNCHANGED <<state, gen, level>>

Shut(f) ==
    /\ state[f] = "open"
    /\ state' = [state EXCEPT ![f] = "shut"]
    /\ UNCHANGED <<gen, level, response>>

\* A shut fence opens at its generation or at a later one; what was admitted
\* before may still be sent.
OpenAgain(f, g) ==
    /\ state[f] = "shut"
    /\ g >= gen[f]
    /\ state' = [state EXCEPT ![f] = "open"]
    /\ gen' = [gen EXCEPT ![f] = g]
    /\ UNCHANGED <<level, response>>

\* A resume that never was public by a slug is deleted.
Retire(f) ==
    /\ state[f] = "shut"
    /\ state' = [state EXCEPT ![f] = "retired"]
    /\ UNCHANGED <<gen, level, response>>

Sending(f) == {l \in Leases : response[l] # NoResponse /\ response[l].fence = f}

\* A change that withdraws what was public: g is the next generation, or
\* Beyond for a deletion.
Revoke(f, g) ==
    /\ state[f] = "shut"
    /\ Sending(f) = {}
    /\ \/ /\ g = Beyond
          /\ state' = [state EXCEPT ![f] = "retired"]
          /\ gen' = gen
       \/ /\ g > gen[f]
          /\ state' = [state EXCEPT ![f] = "open"]
          /\ gen' = [gen EXCEPT ![f] = g]
    /\ level' = [level EXCEPT ![f] = g]
    /\ UNCHANGED response

AdmissionNext ==
    \/ Appear
    \/ \E l \in Leases, f \in Fences : Admit(l, f)
    \/ \E l \in Leases : End(l)
    \/ \E f \in Fences :
        \/ Shut(f)
        \/ Retire(f)
        \/ \E g \in AdmissionGenerations : OpenAgain(f, g)
        \/ \E g \in AdmissionGenerations \cup {Beyond} : Revoke(f, g)

AdmissionSpec == AdmissionInit /\ [][AdmissionNext]_admissionVars

=============================================================================

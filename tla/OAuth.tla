--------------------------------- MODULE OAuth ---------------------------------
(***************************************************************************)
(* The agents of one account: package oauthsrv, the bearer check of mcpapi *)
(* and the clean-up of their rows.                                         *)
(*                                                                         *)
(* A client that was approved holds a grant.  A code is exchanged once for *)
(* an access and a refresh token, the first issue of a family; a refresh   *)
(* token is exchanged once for the next issue of its family.  Whoever has  *)
(* seen a code or a token may present it at any time and more than once: a *)
(* retry after a lost answer is a replay like any other.                   *)
(*                                                                         *)
(* Every handler locks client, user and grant, in this order, reads again  *)
(* what it had read without locks, and commits once; so it is one step, or *)
(* none if it refuses, fails or is over its rate limit.  The collection of *)
(* idle clients is not: its one statement selects rows in a snapshot and   *)
(* locks them afterwards.                                                  *)
(***************************************************************************)
EXTENDS Integers, FiniteSets

CONSTANTS
    Clients,     \* ids of registered clients
    Grants,      \* ids of grants: bound on how many there are
    Codes,       \* authorization codes, and the families they are exchanged for
    Issues,      \* pairs of an access and a refresh token: bound
    GrantLimit,  \* liveGrantLimit, 10
    CodeTTL,     \* 60 seconds
    AccessTTL,   \* accessTokenTTL, 1 hour
    FamilyTTL,   \* refreshFamilyTTL, 30 days
    MaxClock,    \* bound: the last moment
    MaxEpoch,    \* bound: how often the factors change
    None         \* no client, grant or code

ASSUME TimesAssumption ==
    {GrantLimit, CodeTTL, AccessTTL, FamilyTTL, MaxClock, MaxEpoch} \subseteq Nat
ASSUME NoneAssumption == None \notin Clients \cup Grants \cup Codes

VARIABLES
    clock,    \* the wall clock
    epoch,    \* users.auth_epoch
    client,   \* which clients are registered
    grant,    \* oauth_grants
    code,     \* oauth_authorization_codes
    issue,    \* oauth_tokens, two rows an issue
    idle,     \* the snapshot of a collection that has not locked its rows yet
    ended,    \* history: codes whose authority was ended, with all they led to
    redeemed  \* history: when a code was exchanged

rows == <<client, grant, code, issue>>
history == <<ended, redeemed>>
vars == <<clock, epoch, rows, idle, history>>

Never == -1

NoGrant == [state |-> "none", client |-> None, epoch |-> 0]
NoCode == [state |-> "none", grant |-> None, epoch |-> 0, expires |-> 0]
NoIssue == [family |-> None, grant |-> None, expires |-> 0, familyExpires |-> 0,
            superseded |-> FALSE, revoked |-> FALSE, access |-> FALSE, refresh |-> FALSE]

Init ==
    /\ clock = 0
    /\ epoch = 0
    /\ client = {}
    /\ grant = [g \in Grants |-> NoGrant]
    /\ code = [c \in Codes |-> NoCode]
    /\ issue = [i \in Issues |-> NoIssue]
    /\ idle = {}
    /\ ended = {}
    /\ redeemed = [c \in Codes |-> Never]

-----------------------------------------------------------------------------
(* What the rows mean.                                                     *)

Lesser(a, b) == IF a < b THEN a ELSE b

\* At most one per client: oauth_grants_live_user_client_key.
LiveGrants(x) == {g \in Grants : grant[g].state = "live" /\ grant[g].client = x}
AllLiveGrants == {g \in Grants : grant[g].state = "live"}
CodesOf(G) == {c \in Codes : code[c].grant \in G}

\* The grant is live, and approved at the account's present epoch.
Current(g) == g # None /\ grant[g].state = "live" /\ grant[g].epoch = epoch

\* Bearer.Authenticate accepts the access token.
Accepted(i) ==
    /\ issue[i].access
    /\ ~issue[i].revoked
    /\ clock < issue[i].expires
    /\ clock < issue[i].familyExpires
    /\ Current(issue[i].grant)

\* A refresh is decided on this token: it is rotated, or found to be a replay.
Presentable(i) ==
    /\ issue[i].refresh
    /\ ~issue[i].revoked
    /\ clock < issue[i].familyExpires
    /\ Current(issue[i].grant)

Refreshable(i) == Presentable(i) /\ ~issue[i].superseded

Exchangeable(c) ==
    /\ code[c].state = "issued"
    /\ clock < code[c].expires
    /\ code[c].epoch = epoch
    /\ Current(code[c].grant)

\* The statements that revoke tokens.
Revoked(S) ==
    [i \in Issues |-> IF i \in S THEN [issue[i] EXCEPT !.revoked = TRUE] ELSE issue[i]]
FamilyRevoked(c) == Revoked({i \in Issues : issue[i].family = c})
TokensRevoked(G) == Revoked({i \in Issues : issue[i].grant \in G})

EndTokensOnly(G) ==
    /\ issue' = TokensRevoked(G)
    /\ ended' = ended \cup CodesOf(G)
    /\ UNCHANGED grant

\* Grants and their tokens go together; codes are left to their grant's death.
EndGrants(G) ==
    /\ grant' = [g \in Grants |-> IF g \in G /\ grant[g].state = "live"
                                     THEN [grant[g] EXCEPT !.state = "revoked"] ELSE grant[g]]
    /\ issue' = TokensRevoked(G)
    /\ ended' = ended \cup CodesOf(G)

-----------------------------------------------------------------------------
Tick ==
    /\ clock < MaxClock
    /\ clock' = clock + 1
    /\ UNCHANGED <<epoch, rows, idle, history>>

Register(x) ==
    /\ x \notin client
    /\ \A g \in Grants : grant[g].client # x    \* an id is never used again
    /\ client' = client \cup {x}
    /\ UNCHANGED <<clock, epoch, grant, code, issue, idle, history>>

-----------------------------------------------------------------------------
(* Consent.                                                                *)

\* The live grant is brought to this epoch, or there is a new one.
UpsertGrant(x, g) ==
    /\ \/ g \in LiveGrants(x)
       \/ LiveGrants(x) = {} /\ grant[g].state = "none"
    /\ grant' = [grant EXCEPT ![g] = [state |-> "live", client |-> x, epoch |-> epoch]]

CreateCode(c, g) ==
    /\ code[c].state = "none"
    /\ code' = [code EXCEPT ![c] = [state |-> "issued", grant |-> g, epoch |-> epoch,
                                    expires |-> clock + CodeTTL]]

\* The user approves; the caller's session and proofs are current.
ApproveConsent(x, g, c) ==
    /\ x \in client
    /\ LiveGrants(x) # {} \/ Cardinality(AllLiveGrants) < GrantLimit
    /\ UpsertGrant(x, g)
    /\ CreateCode(c, g)
    /\ UNCHANGED <<clock, epoch, client, issue, idle, history>>

\* A live grant that covers the request is used again without asking.
ApproveExistingGrant(x, c) ==
    /\ x \in client
    /\ \E g \in LiveGrants(x) :
         /\ grant[g].epoch = epoch
         /\ CreateCode(c, g)
    /\ UNCHANGED <<clock, epoch, client, grant, issue, idle, history>>

-----------------------------------------------------------------------------
(* The token endpoint.                                                     *)

\* The tokens of one answer; none outlives its family.
Tokens(c, g, expires, until) ==
    [family |-> c, grant |-> g, expires |-> expires, familyExpires |-> until,
     superseded |-> FALSE, revoked |-> FALSE, access |-> TRUE, refresh |-> TRUE]

NewFamilyTime(c, g, until) == Tokens(c, g, clock + AccessTTL, clock + FamilyTTL)
NewIssue(c, g, until) == Tokens(c, g, Lesser(clock + AccessTTL, until), until)

Unused(i) == issue[i].family = None

ExchangeCode(c, i) ==
    /\ Exchangeable(c)
    /\ Unused(i)
    /\ code' = [code EXCEPT ![c].state = "consumed"]
    /\ issue' = [issue EXCEPT ![i] = NewIssue(c, code[c].grant, clock + FamilyTTL)]
    /\ redeemed' = [redeemed EXCEPT ![c] = clock]
    /\ UNCHANGED <<clock, epoch, client, grant, idle, ended>>

\* A consumed code is presented again, while its client has any live grant.
ReplayCode(c) ==
    /\ code[c].state = "consumed"
    /\ LiveGrants(grant[code[c].grant].client) # {}
    /\ issue' = FamilyRevoked(c)
    /\ ended' = ended \cup {c}
    /\ UNCHANGED <<clock, epoch, client, grant, code, idle, redeemed>>

Supersede(i) == [issue EXCEPT ![i].superseded = TRUE]

Refresh(i, j) ==
    /\ Refreshable(i)
    /\ Unused(j)
    /\ issue' = [Supersede(i) EXCEPT
                   ![j] = NewIssue(issue[i].family, issue[i].grant, issue[i].familyExpires)]
    /\ UNCHANGED <<clock, epoch, client, grant, code, idle, history>>

\* A superseded token is presented: nobody can tell who has its successor.
ReplayRefresh(i) ==
    /\ Presentable(i)
    /\ issue[i].superseded
    /\ issue' = FamilyRevoked(issue[i].family)
    /\ ended' = ended \cup {issue[i].family}
    /\ UNCHANGED <<clock, epoch, client, grant, code, idle, redeemed>>

-----------------------------------------------------------------------------
(* Revocation.                                                             *)

\* Any token that is still stored, however old, ends its grant.
RevokeToken(i) ==
    /\ issue[i].access \/ issue[i].refresh
    /\ EndGrants({issue[i].grant})
    /\ UNCHANGED <<clock, epoch, client, code, idle, redeemed>>

\* The user disconnects an agent.
RevokeAgentGrant(g) ==
    /\ grant[g].state = "live"
    /\ EndGrants({g})
    /\ UNCHANGED <<clock, epoch, client, code, idle, redeemed>>

\* A factor is added or removed: every code and token so far is void.
ChangeFactors ==
    /\ epoch < MaxEpoch
    /\ epoch' = epoch + 1
    /\ EndGrants(AllLiveGrants)
    /\ UNCHANGED <<clock, client, code, idle, redeemed>>

-----------------------------------------------------------------------------
(* Clean-up.  Batches are bounded and skip locked rows, so any part may go.*)

DeleteExpiredCodes ==
    \E C \in SUBSET {c \in Codes : code[c].state \in {"issued", "consumed"}
                                      /\ code[c].expires <= clock} :
        /\ C # {}
        /\ code' = [c \in Codes |-> IF c \in C THEN [code[c] EXCEPT !.state = "gone"] ELSE code[c]]
        /\ UNCHANGED <<clock, epoch, client, grant, issue, idle, history>>

TerminalAccess(i) == issue[i].access /\ (issue[i].expires <= clock \/ issue[i].revoked)
SupersededToo(i) == issue[i].refresh /\ (issue[i].familyExpires <= clock \/ issue[i].superseded)
TerminalRefresh(i) == issue[i].refresh /\ issue[i].familyExpires <= clock

DeleteTerminalTokens ==
    \E i \in Issues :
        /\ \/ TerminalAccess(i) /\ issue' = [issue EXCEPT ![i].access = FALSE]
           \/ TerminalRefresh(i) /\ issue' = [issue EXCEPT ![i].refresh = FALSE]
        /\ UNCHANGED <<clock, epoch, client, grant, code, idle, history>>

HasLiveToken(x) ==
    \E i \in Issues :
        /\ issue[i].grant # None /\ grant[issue[i].grant].client = x
        /\ ~issue[i].revoked
        /\ \/ issue[i].access /\ clock < issue[i].expires
           \/ issue[i].refresh /\ ~issue[i].superseded /\ clock < issue[i].familyExpires

\* Old clients without a live grant or token, as the statement's snapshot has them.
ListIdle(X) ==
    /\ idle = {}
    /\ X # {}
    /\ X \subseteq {x \in client : LiveGrants(x) = {} /\ ~HasLiveToken(x)}
    /\ idle' = X
    /\ UNCHANGED <<clock, epoch, rows, history>>

\* Its rows are locked and deleted, and all that refers to them.
CollectIdleClients ==
    LET deleted == {g \in Grants : grant[g].client \in idle} IN
    /\ idle # {}
    /\ client' = client \ idle
    /\ grant' = [g \in Grants |-> IF g \in deleted THEN [grant[g] EXCEPT !.state = "gone"]
                                                    ELSE grant[g]]
    /\ code' = [c \in Codes |-> IF code[c].grant \in deleted
                                   THEN [code[c] EXCEPT !.state = "gone"] ELSE code[c]]
    /\ issue' = [i \in Issues |-> IF issue[i].grant \in deleted
                                     THEN [issue[i] EXCEPT !.access = FALSE, !.refresh = FALSE]
                                     ELSE issue[i]]
    /\ idle' = {}
    /\ UNCHANGED <<clock, epoch, history>>

-----------------------------------------------------------------------------
Next ==
    \/ Tick
    \/ \E x \in Clients : Register(x)
    \/ \E x \in Clients, g \in Grants, c \in Codes : ApproveConsent(x, g, c)
    \/ \E x \in Clients, c \in Codes : ApproveExistingGrant(x, c)
    \/ \E c \in Codes, i \in Issues : ExchangeCode(c, i)
    \/ \E c \in Codes : ReplayCode(c)
    \/ \E i, j \in Issues : Refresh(i, j)
    \/ \E i \in Issues : ReplayRefresh(i) \/ RevokeToken(i)
    \/ \E g \in Grants : RevokeAgentGrant(g)
    \/ ChangeFactors
    \/ DeleteExpiredCodes \/ DeleteTerminalTokens
    \/ \E X \in SUBSET Clients : ListIdle(X)
    \/ CollectIdleClients

Spec == Init /\ [][Next]_vars

-----------------------------------------------------------------------------
(* Correctness.                                                            *)

GrantRows == [state : {"none", "live", "revoked", "gone"},
              client : Clients \cup {None}, epoch : Nat]
CodeRows == [state : {"none", "issued", "consumed", "gone"},
             grant : Grants \cup {None}, epoch : Nat, expires : Nat]
IssueRows == [family : Codes \cup {None}, grant : Grants \cup {None},
              expires : Nat, familyExpires : Nat, superseded : BOOLEAN,
              revoked : BOOLEAN, access : BOOLEAN, refresh : BOOLEAN]

TypeOK ==
    /\ clock \in 0..MaxClock
    /\ epoch \in 0..MaxEpoch
    /\ client \in SUBSET Clients
    /\ grant \in [Grants -> GrantRows]
    /\ code \in [Codes -> CodeRows]
    /\ issue \in [Issues -> IssueRows]
    /\ idle \in SUBSET Clients
    /\ ended \in SUBSET Codes
    /\ redeemed \in [Codes -> Nat \cup {Never}]

\* When an agent was disconnected, its token revoked, a factor changed or a
\* replay detected, what was approved before is void for good: no code of it
\* is exchanged any more and no token it led to is accepted or rotated, even
\* if the user approves the same client again.
EndedIsVoid ==
    /\ \A c \in ended : ~Exchangeable(c)
    /\ \A i \in Issues : issue[i].family \in ended => ~Accepted(i) /\ ~Refreshable(i)

\* A family has one token that can be rotated, and while it has, each of its
\* older refresh tokens is still stored and known as superseded, so presenting
\* any of them is recognised as a replay and ends the family.
EveryOldTokenTrips ==
    \A i, j \in Issues :
        i # j /\ issue[i].family = issue[j].family /\ Refreshable(j) =>
            Presentable(i) /\ issue[i].superseded

\* However often it is refreshed, a family is over when FamilyTTL has passed
\* since its code was exchanged.
FamilyEndsInTime ==
    \A i \in Issues :
        Accepted(i) \/ Refreshable(i) => clock < redeemed[issue[i].family] + FamilyTTL

-----------------------------------------------------------------------------
(* The inductive invariant.                                                *)

Used == {i \in Issues : issue[i].family # None}

\* A code has a grant, and a family the grant and the deadline of its code;
\* what is not issued has no grant and is not stored.
Lineage ==
    /\ \A c \in Codes :
         IF code[c].state = "none" THEN code[c].grant = None
         ELSE code[c].grant \in Grants /\ grant[code[c].grant].state # "none"
    /\ \A i \in Used :
         LET c == issue[i].family IN
         /\ code[c].state \in {"consumed", "gone"}
         /\ issue[i].grant = code[c].grant
         /\ redeemed[c] # Never
         /\ issue[i].familyExpires = redeemed[c] + FamilyTTL
         /\ issue[i].expires <= issue[i].familyExpires
    /\ \A i \in Issues \ Used : issue[i].grant = None /\ ~issue[i].access /\ ~issue[i].refresh

\* The issues of a family are revoked together, and all but one are superseded.
Families ==
    \A i, j \in Used :
        i # j /\ issue[i].family = issue[j].family =>
            /\ issue[i].superseded \/ issue[j].superseded
            /\ issue[i].revoked = issue[j].revoked

\* A refresh token stays stored while its family may be used.
StoredUntilOver ==
    \A i \in Used :
        \/ issue[i].refresh
        \/ issue[i].familyExpires <= clock
        \/ grant[issue[i].grant].state = "gone"

\* What was ended has no way back.
EndedForGood ==
    /\ \A c \in ended :
         /\ code[c].state # "none"
         /\ code[c].state = "issued" => grant[code[c].grant].state # "live"
    /\ \A i \in Used : issue[i].family \in ended => issue[i].revoked

\* The inductive invariant of the authorization server.
IInv == TypeOK /\ Lineage /\ Families /\ StoredUntilOver /\ EndedForGood
=============================================================================

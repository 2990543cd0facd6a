----------------------------- MODULE OAuth_proofs -----------------------------
(***************************************************************************)
(* Theorems about OAuth for any number of clients, grants, codes and       *)
(* tokens and any lifetimes, with their proofs.                            *)
(***************************************************************************)
EXTENDS OAuth, TLAPS

-----------------------------------------------------------------------------
(* What the statements do to the rows, column by column.                   *)

\* Revoking tokens sets one column of the rows it names.
LEMMA RevokedShape ==
    ASSUME TypeOK, NEW S, issue' = Revoked(S)
    PROVE  /\ issue' \in [Issues -> IssueRows]
           /\ \A k \in Issues :
                /\ issue'[k].family = issue[k].family
                /\ issue'[k].grant = issue[k].grant
                /\ issue'[k].expires = issue[k].expires
                /\ issue'[k].familyExpires = issue[k].familyExpires
                /\ issue'[k].superseded = issue[k].superseded
                /\ issue'[k].access = issue[k].access
                /\ issue'[k].refresh = issue[k].refresh
                /\ issue[k].revoked => issue'[k].revoked
                /\ k \in S => issue'[k].revoked
                /\ k \notin S => issue'[k].revoked = issue[k].revoked
BY DEF TypeOK, Revoked, IssueRows

\* What a new issue of family c is like.
Fresh(n, c, g, until) ==
    /\ n \in IssueRows
    /\ n.family = c /\ n.grant = g /\ n.familyExpires = until
    /\ n.expires <= n.familyExpires
    /\ n.superseded = FALSE /\ n.revoked = FALSE /\ n.refresh = TRUE

\* A new issue has the columns it is given and none is set.
LEMMA NewIssueShape ==
    ASSUME TypeOK, NEW c \in Codes, NEW g \in Grants, NEW until \in Nat
    PROVE  Fresh(NewIssue(c, g, until), c, g, until)
<1>1. clock + AccessTTL \in Nat /\ Lesser(clock + AccessTTL, until) \in Nat
      /\ Lesser(clock + AccessTTL, until) <= until
  BY TimesAssumption DEF TypeOK, Lesser
<1> QED
  BY <1>1 DEF NewIssue, Tokens, IssueRows, Fresh

\* Marking rows of codes as gone leaves their other columns.
LEMMA CodesGoneShape ==
    ASSUME TypeOK, NEW C,
           code' = [c \in Codes |-> IF c \in C THEN [code[c] EXCEPT !.state = "gone"] ELSE code[c]]
    PROVE  /\ code' \in [Codes -> CodeRows]
           /\ \A c \in Codes :
                /\ code'[c].grant = code[c].grant
                /\ code'[c].state = IF c \in C THEN "gone" ELSE code[c].state
BY DEF TypeOK, CodeRows

LEMMA GrantsShape ==
    ASSUME TypeOK, NEW D, NEW s \in {"revoked", "gone"},
           grant' = [g \in Grants |-> IF g \in D THEN [grant[g] EXCEPT !.state = s] ELSE grant[g]]
    PROVE  /\ grant' \in [Grants -> GrantRows]
           /\ \A g \in Grants : grant'[g].state = IF g \in D THEN s ELSE grant[g].state
BY DEF TypeOK, GrantRows

-----------------------------------------------------------------------------
(* The inductive invariant.                                                *)

\* Nothing is stored at first.
LEMMA InvInit == Init => IInv
<1> SUFFICES ASSUME Init PROVE IInv
  OBVIOUS
<1>1. TypeOK
  BY TimesAssumption DEF Init, TypeOK, GrantRows, CodeRows, IssueRows, NoGrant, NoCode, NoIssue, Never
<1>2. Used = {} /\ \A c \in Codes : code[c].state = "none" /\ code[c].grant = None
  BY DEF Init, Used, NoIssue, NoCode
<1> QED
  BY <1>1, <1>2 DEF Init, IInv, Lineage, Families, StoredUntilOver, EndedForGood, NoIssue

\* An issue has a code and a grant that was given.
LEMMA UsedLineage ==
    ASSUME IInv, NEW i \in Used
    PROVE  /\ i \in Issues
           /\ issue[i].family \in Codes
           /\ issue[i].grant \in Grants
           /\ issue[i].grant = code[issue[i].family].grant
           /\ grant[issue[i].grant].state # "none"
BY DEF IInv, TypeOK, IssueRows, Lineage, Used

\* Ending grants keeps the invariant, whatever becomes of the epoch.
LEMMA EndGrantsKeeps ==
    ASSUME IInv, NEW G \in SUBSET Grants, EndGrants(G), epoch' \in 0..MaxEpoch,
           UNCHANGED <<clock, client, code, idle, redeemed>>
    PROVE  IInv'
<1> DEFINE S == {i \in Issues : issue[i].grant \in G}
           D == {g \in Grants : g \in G /\ grant[g].state = "live"}
<1>1. issue' = Revoked(S)
  BY DEF EndGrants, TokensRevoked
<1>2. grant' = [g \in Grants |-> IF g \in D THEN [grant[g] EXCEPT !.state = "revoked"] ELSE grant[g]]
  BY DEF EndGrants
<1>3. TypeOK
  BY DEF IInv
<1>4. issue' \in [Issues -> IssueRows] /\ Used' = Used
      /\ \A k \in Issues :
           /\ issue'[k].family = issue[k].family
           /\ issue'[k].grant = issue[k].grant
           /\ issue'[k].expires = issue[k].expires
           /\ issue'[k].familyExpires = issue[k].familyExpires
           /\ issue'[k].superseded = issue[k].superseded
           /\ issue'[k].access = issue[k].access
           /\ issue'[k].refresh = issue[k].refresh
           /\ issue[k].revoked => issue'[k].revoked
           /\ k \in S => issue'[k].revoked
           /\ k \notin S => issue'[k].revoked = issue[k].revoked
  <2> HIDE DEF S
  <2> QED
    BY <1>1, <1>3, RevokedShape DEF Used
<1>5. grant' \in [Grants -> GrantRows]
      /\ \A g \in Grants : grant'[g].state = IF g \in D THEN "revoked" ELSE grant[g].state
  <2> HIDE DEF D
  <2> QED
    BY <1>2, <1>3, GrantsShape
<1>6. TypeOK'
  BY <1>3, <1>4, <1>5 DEF TypeOK, EndGrants, CodesOf
<1>7. Lineage'
  BY <1>4, <1>5 DEF IInv, Lineage, Used
<1>8. Families'
  <2> SUFFICES ASSUME NEW i \in Used, NEW j \in Used, i # j, issue[i].family = issue[j].family
               PROVE  /\ issue'[i].superseded \/ issue'[j].superseded
                      /\ issue'[i].revoked = issue'[j].revoked
    BY <1>4 DEF Families, Used
  <2>1. i \in Issues /\ j \in Issues /\ issue[i].grant = issue[j].grant
    BY DEF IInv, Lineage, Used
  <2>2. i \in S <=> j \in S
    BY <2>1
  <2> QED
    BY <1>3, <1>4, <2>1, <2>2 DEF IInv, Families, TypeOK, IssueRows
<1>9. StoredUntilOver'
  BY <1>4, <1>5, UsedLineage DEF IInv, StoredUntilOver
<1>10. EndedForGood'
  <2>1. \A c \in ended' : code[c].state # "none"
                          /\ (code[c].state = "issued" => grant'[code[c].grant].state # "live")
    <3> SUFFICES ASSUME NEW c \in ended'
                 PROVE  /\ code[c].state # "none"
                        /\ code[c].state = "issued" => grant'[code[c].grant].state # "live"
      OBVIOUS
    <3> QED
      BY <1>3, <1>5, NoneAssumption DEF EndGrants, CodesOf, IInv, EndedForGood, Lineage, TypeOK
  <2>2. \A i \in Used : issue[i].family \in ended' => issue'[i].revoked
    BY <1>3, <1>4 DEF EndGrants, CodesOf, IInv, EndedForGood, Lineage, Used
  <2> QED
    BY <1>4, <2>1, <2>2 DEF EndedForGood, Used
<1> QED
  BY <1>6, <1>7, <1>8, <1>9, <1>10 DEF IInv

\* Ending a family keeps the invariant.
LEMMA FamilyRevokedKeeps ==
    ASSUME IInv, NEW c \in Codes, code[c].state \in {"consumed", "gone"},
           issue' = FamilyRevoked(c), ended' = ended \cup {c},
           UNCHANGED <<clock, epoch, client, grant, code, idle, redeemed>>
    PROVE  IInv'
<1> DEFINE S == {i \in Issues : issue[i].family = c}
<1>1. TypeOK
  BY DEF IInv
<1>2. issue' \in [Issues -> IssueRows] /\ Used' = Used
      /\ \A k \in Issues :
           /\ issue'[k].family = issue[k].family
           /\ issue'[k].grant = issue[k].grant
           /\ issue'[k].expires = issue[k].expires
           /\ issue'[k].familyExpires = issue[k].familyExpires
           /\ issue'[k].superseded = issue[k].superseded
           /\ issue'[k].access = issue[k].access
           /\ issue'[k].refresh = issue[k].refresh
           /\ issue[k].revoked => issue'[k].revoked
           /\ k \in S => issue'[k].revoked
           /\ k \notin S => issue'[k].revoked = issue[k].revoked
  <2>1. issue' = Revoked(S)
    BY DEF FamilyRevoked
  <2> HIDE DEF S
  <2> QED
    BY <1>1, <2>1, RevokedShape DEF Used
<1>3. TypeOK'
  BY <1>1, <1>2 DEF TypeOK
<1>4. Lineage'
  BY <1>2 DEF IInv, Lineage, Used
<1>5. Families'
  <2> SUFFICES ASSUME NEW i \in Used, NEW j \in Used, i # j, issue[i].family = issue[j].family
               PROVE  /\ issue'[i].superseded \/ issue'[j].superseded
                      /\ issue'[i].revoked = issue'[j].revoked
    BY <1>2 DEF Families, Used
  <2>1. i \in Issues /\ j \in Issues /\ (i \in S <=> j \in S)
    BY DEF Used
  <2> QED
    BY <1>1, <1>2, <2>1 DEF IInv, Families, TypeOK, IssueRows
<1>6. StoredUntilOver'
  BY <1>2, UsedLineage DEF IInv, StoredUntilOver
<1>7. EndedForGood'
  BY <1>1, <1>2 DEF IInv, EndedForGood, Used
<1> QED
  BY <1>3, <1>4, <1>5, <1>6, <1>7 DEF IInv

\* The rows of b are those of now, but the ones in S are superseded.
SupersededIn(b, S) ==
    /\ b \in [Issues -> IssueRows]
    /\ \A k \in Issues :
         /\ b[k].family = issue[k].family
         /\ b[k].grant = issue[k].grant
         /\ b[k].expires = issue[k].expires
         /\ b[k].familyExpires = issue[k].familyExpires
         /\ issue[k].superseded \/ k \in S => b[k].superseded
         /\ b[k].access = issue[k].access
         /\ b[k].refresh = issue[k].refresh
         /\ b[k].revoked = issue[k].revoked

\* Superseding a token sets one column of its row.
LEMMA SupersededShape ==
    ASSUME TypeOK, NEW i \in Issues
    PROVE  SupersededIn(Supersede(i), {i})
<1>1. /\ Supersede(i) \in [Issues -> IssueRows]
      /\ Supersede(i)[i] = [issue[i] EXCEPT !.superseded = TRUE]
      /\ \A k \in Issues : k # i => Supersede(i)[k] = issue[k]
  BY DEF Supersede, TypeOK, IssueRows
<1>2. issue[i] \in IssueRows
  BY DEF TypeOK
<1>3. /\ Supersede(i)[i].family = issue[i].family
      /\ Supersede(i)[i].grant = issue[i].grant
      /\ Supersede(i)[i].expires = issue[i].expires
      /\ Supersede(i)[i].familyExpires = issue[i].familyExpires
      /\ Supersede(i)[i].superseded
      /\ Supersede(i)[i].access = issue[i].access
      /\ Supersede(i)[i].refresh = issue[i].refresh
      /\ Supersede(i)[i].revoked = issue[i].revoked
  BY <1>1, <1>2 DEF IssueRows
<1> HIDE DEF Supersede
<1> QED
  BY <1>1, <1>3 DEF SupersededIn

\* A new issue of a family whose others are superseded and live keeps it.
LEMMA IssueKeeps ==
    ASSUME IInv, NEW c \in Codes, NEW j \in Issues, Unused(j), NEW g \in Grants,
           NEW S, NEW n, NEW base,
           Fresh(n, c, g, redeemed'[c] + FamilyTTL), SupersededIn(base, S),
           code[c].grant = g, code'[c].state \in {"consumed", "gone"}, c \notin ended,
           redeemed'[c] \in Nat,
           \A i \in Used : issue[i].family = c =>
                redeemed'[c] = redeemed[c] /\ ~issue[i].revoked /\ (issue[i].superseded \/ i \in S),
           issue' = [base EXCEPT ![j] = n],
           code' \in [Codes -> CodeRows], redeemed' \in [Codes -> Nat \cup {Never}],
           \A d \in Codes : d # c => code'[d] = code[d] /\ redeemed'[d] = redeemed[d],
           code'[c].grant = g,
           UNCHANGED <<clock, epoch, client, grant, idle, ended>>
    PROVE  IInv'
<1>1. TypeOK
  BY DEF IInv
<1>2. /\ n \in IssueRows
      /\ n.family = c /\ n.grant = g /\ n.familyExpires = redeemed'[c] + FamilyTTL
      /\ n.expires <= n.familyExpires
      /\ n.superseded = FALSE /\ n.revoked = FALSE /\ n.refresh = TRUE
  BY DEF Fresh
<1>3. /\ issue' \in [Issues -> IssueRows]
      /\ issue'[j] = n
      /\ \A k \in Issues \ {j} :
           /\ issue'[k].family = issue[k].family
           /\ issue'[k].grant = issue[k].grant
           /\ issue'[k].expires = issue[k].expires
           /\ issue'[k].familyExpires = issue[k].familyExpires
           /\ issue[k].superseded \/ k \in S => issue'[k].superseded
           /\ issue'[k].access = issue[k].access
           /\ issue'[k].refresh = issue[k].refresh
           /\ issue'[k].revoked = issue[k].revoked
  <2>2. issue' \in [Issues -> IssueRows] /\ issue'[j] = n
    BY <1>2 DEF SupersededIn
  <2>3. \A k \in Issues \ {j} : issue'[k] = base[k]
    BY DEF SupersededIn
  <2> QED
    BY <2>2, <2>3 DEF SupersededIn
<1>4. Used' = Used \cup {j} /\ j \notin Used
  BY <1>2, <1>3, NoneAssumption DEF Used, Unused
<1>5. TypeOK'
  BY <1>1, <1>3 DEF TypeOK
<1>6. Lineage'
  <2>1. \A d \in Codes : IF code'[d].state = "none" THEN code'[d].grant = None
                        ELSE code'[d].grant \in Grants /\ grant[code'[d].grant].state # "none"
    BY NoneAssumption DEF IInv, Lineage
  <2>2. ASSUME NEW i \in Used'
        PROVE  LET d == issue'[i].family IN
               /\ code'[d].state \in {"consumed", "gone"}
               /\ issue'[i].grant = code'[d].grant
               /\ redeemed'[d] # Never
               /\ issue'[i].familyExpires = redeemed'[d] + FamilyTTL
               /\ issue'[i].expires <= issue'[i].familyExpires
    <3>1. CASE i = j
      BY <1>2, <1>3, <3>1 DEF Never
    <3>2. CASE i # j
      <4>1. i \in Used /\ i \in Issues \ {j} /\ issue[i].family \in Codes
        BY <1>4, <2>2, <3>2, UsedLineage
      <4> QED
        BY <1>3, <4>1 DEF IInv, Lineage, Never
    <3> QED
      BY <3>1, <3>2
  <2>3. ASSUME NEW i \in Issues \ Used' PROVE issue'[i].grant = None /\ ~issue'[i].access /\ ~issue'[i].refresh
    <3>1. i \in Issues \ Used /\ i \in Issues \ {j}
      BY <1>4
    <3> QED
      BY <1>3, <3>1 DEF IInv, Lineage
  <2> QED
    BY <2>1, <2>2, <2>3 DEF Lineage
<1>7. Families'
  <2> SUFFICES ASSUME NEW i \in Used', NEW k \in Used', i # k, issue'[i].family = issue'[k].family
               PROVE  /\ issue'[i].superseded \/ issue'[k].superseded
                      /\ issue'[i].revoked = issue'[k].revoked
    BY DEF Families
  <2>1. CASE i # j /\ k # j
    BY <1>3, <1>4, <2>1, UsedLineage DEF IInv, Families
  <2>2. ASSUME NEW o \in Used, issue[o].family = c, o # j
        PROVE  issue'[o].superseded /\ issue'[o].revoked = FALSE
    <3>1. o \in Issues \ {j} /\ ~issue[o].revoked /\ (issue[o].superseded \/ o \in S)
      BY <2>2, UsedLineage
    <3>2. issue[o].revoked \in BOOLEAN
      BY <1>1, <3>1 DEF TypeOK, IssueRows
    <3> QED
      BY <1>3, <3>1, <3>2
  <2>3. CASE i = j
    <3>1. k \in Used /\ k # j /\ k \in Issues /\ issue[k].family = c
      BY <1>2, <1>3, <1>4, <2>3, UsedLineage
    <3> QED
      BY <1>2, <1>3, <2>2, <2>3, <3>1
  <2>4. CASE k = j
    <3>1. i \in Used /\ i # j /\ i \in Issues /\ issue[i].family = c
      BY <1>2, <1>3, <1>4, <2>4, UsedLineage
    <3> QED
      BY <1>2, <1>3, <2>2, <2>4, <3>1
  <2> QED
    BY <2>1, <2>3, <2>4
<1>8. StoredUntilOver'
  BY <1>2, <1>3, <1>4, UsedLineage DEF IInv, StoredUntilOver
<1>9. EndedForGood'
  <2>1. \A d \in ended : code'[d].state # "none"
                        /\ (code'[d].state = "issued" => grant[code'[d].grant].state # "live")
    BY <1>1 DEF IInv, EndedForGood, TypeOK
  <2>2. \A i \in Used' : issue'[i].family \in ended => issue'[i].revoked
    BY <1>2, <1>3, <1>4, UsedLineage DEF IInv, EndedForGood
  <2> QED
    BY <2>1, <2>2 DEF EndedForGood
<1> QED
  BY <1>5, <1>6, <1>7, <1>8, <1>9 DEF IInv

\* A consent keeps it: its grant is new, or live as it was.
LEMMA ConsentKeeps ==
    ASSUME IInv, NEW c \in Codes, NEW g \in Grants, CreateCode(c, g),
           grant' \in [Grants -> GrantRows],
           \A h \in Grants : h # g => grant'[h].state = grant[h].state,
           grant[g].state \in {"none", "live"}, grant'[g].state = "live",
           UNCHANGED <<clock, epoch, client, issue, idle, ended, redeemed>>
    PROVE  IInv'
<1>1. TypeOK /\ Used' = Used
  BY DEF IInv, Used
<1>2. clock + CodeTTL \in Nat /\ epoch \in Nat
  BY <1>1, TimesAssumption DEF TypeOK
<1>3. /\ code' \in [Codes -> CodeRows]
      /\ code'[c].state = "issued" /\ code'[c].grant = g /\ code[c].state = "none"
      /\ \A d \in Codes : d # c => code'[d] = code[d]
  BY <1>1, <1>2 DEF CreateCode, TypeOK, CodeRows
<1>4. TypeOK'
  BY <1>1, <1>3 DEF TypeOK
<1>5. Lineage'
  <2>1. ASSUME NEW d \in Codes
        PROVE  IF code'[d].state = "none" THEN code'[d].grant = None
               ELSE code'[d].grant \in Grants /\ grant'[code'[d].grant].state # "none"
    BY <1>3 DEF IInv, Lineage
  <2>2. \A i \in Used : issue[i].family # c /\ issue[i].family \in Codes
    BY <1>3, UsedLineage DEF IInv, Lineage
  <2> QED
    BY <1>1, <1>3, <2>1, <2>2 DEF IInv, Lineage
<1>6. Families'
  BY <1>1 DEF IInv, Families
<1>7. StoredUntilOver'
  BY <1>1, UsedLineage DEF IInv, StoredUntilOver
<1>8. EndedForGood'
  <2>1. ASSUME NEW d \in ended
        PROVE  code'[d].state # "none" /\ (code'[d].state = "issued" => grant'[code'[d].grant].state # "live")
    <3>1. d \in Codes /\ d # c
      BY <1>1, <1>3 DEF TypeOK, IInv, EndedForGood
    <3> QED
      BY <1>3, <3>1 DEF IInv, EndedForGood, Lineage
  <2> QED
    BY <1>1, <2>1 DEF IInv, EndedForGood
<1> QED
  BY <1>4, <1>5, <1>6, <1>7, <1>8 DEF IInv

\* What only passes time or concerns clients keeps it.
LEMMA OthersKeep ==
    ASSUME IInv, clock' \in 0..MaxClock, clock <= clock',
           client' \in SUBSET Clients, idle' \in SUBSET Clients,
           UNCHANGED <<epoch, grant, code, issue, ended, redeemed>>
    PROVE  IInv'
<1>1. TypeOK' /\ Used' = Used
  BY DEF IInv, TypeOK, Used
<1>2. StoredUntilOver'
  <2> SUFFICES ASSUME NEW i \in Used, ~issue[i].refresh, grant[issue[i].grant].state # "gone"
               PROVE  issue[i].familyExpires <= clock'
    BY <1>1 DEF StoredUntilOver
  <2>1. issue[i].familyExpires <= clock /\ issue[i].familyExpires \in Nat /\ clock \in Nat
    BY UsedLineage, TimesAssumption DEF IInv, StoredUntilOver, TypeOK, IssueRows
  <2> QED
    BY <2>1
<1> QED
  BY <1>1, <1>2 DEF IInv, Lineage, Families, EndedForGood

\* Deleting codes keeps it.
LEMMA CodesDeletedKeeps == ASSUME IInv, DeleteExpiredCodes PROVE IInv'
<1>1. PICK C \in SUBSET {c \in Codes : code[c].state \in {"issued", "consumed"}
                                         /\ code[c].expires <= clock} :
        /\ code' = [c \in Codes |-> IF c \in C THEN [code[c] EXCEPT !.state = "gone"] ELSE code[c]]
        /\ UNCHANGED <<clock, epoch, client, grant, issue, idle, history>>
  BY DEF DeleteExpiredCodes
<1>2. TypeOK /\ Used' = Used
  BY <1>1 DEF IInv, Used
<1>3. /\ code' \in [Codes -> CodeRows]
      /\ \A c \in Codes :
           /\ code'[c].grant = code[c].grant
           /\ \/ code'[c].state = code[c].state
              \/ code'[c].state = "gone" /\ code[c].state # "none"
  <2>1. \A c \in C : code[c].state # "none"
    OBVIOUS
  <2>2. code' = [c \in Codes |-> IF c \in C THEN [code[c] EXCEPT !.state = "gone"] ELSE code[c]]
    BY <1>1
  <2>3. TypeOK
    BY <1>2
  <2>4. /\ code' \in [Codes -> CodeRows]
        /\ \A c \in Codes :
             /\ code'[c].grant = code[c].grant
             /\ code'[c].state = IF c \in C THEN "gone" ELSE code[c].state
    BY <2>2, <2>3, CodesGoneShape
  <2> QED
    BY <2>1, <2>4
<1>4. TypeOK'
  BY <1>1, <1>2, <1>3 DEF TypeOK, history
<1>5. Lineage'
  BY <1>1, <1>2, <1>3, UsedLineage DEF IInv, Lineage, history
<1>6. Families' /\ StoredUntilOver'
  BY <1>1, <1>2 DEF IInv, Families, StoredUntilOver
<1>7. EndedForGood'
  BY <1>1, <1>2, <1>3 DEF IInv, EndedForGood, TypeOK, history
<1> QED
  BY <1>4, <1>5, <1>6, <1>7 DEF IInv

\* Deleting tokens keeps it: a refresh token only goes when its family is over.
LEMMA TokensDeletedKeeps == ASSUME IInv, DeleteTerminalTokens PROVE IInv'
<1>1. PICK i \in Issues :
        /\ \/ TerminalAccess(i) /\ issue' = [issue EXCEPT ![i].access = FALSE]
           \/ TerminalRefresh(i) /\ issue' = [issue EXCEPT ![i].refresh = FALSE]
        /\ UNCHANGED <<clock, epoch, client, grant, code, idle, history>>
  BY DEF DeleteTerminalTokens
<1>2. TypeOK
  BY DEF IInv
<1>3. /\ issue' \in [Issues -> IssueRows]
      /\ \A k \in Issues :
           /\ issue'[k].family = issue[k].family
           /\ issue'[k].grant = issue[k].grant
           /\ issue'[k].expires = issue[k].expires
           /\ issue'[k].familyExpires = issue[k].familyExpires
           /\ issue'[k].superseded = issue[k].superseded
           /\ issue'[k].revoked = issue[k].revoked
           /\ issue'[k].access => issue[k].access
           /\ issue'[k].refresh => issue[k].refresh
           /\ issue[k].refresh => issue'[k].refresh \/ issue[k].familyExpires <= clock
  <2>1. CASE issue' = [issue EXCEPT ![i].access = FALSE]
    BY <1>2, <2>1 DEF TypeOK, IssueRows
  <2>2. CASE TerminalRefresh(i) /\ issue' = [issue EXCEPT ![i].refresh = FALSE]
    BY <1>2, <2>2 DEF TypeOK, IssueRows, TerminalRefresh
  <2> QED
    BY <1>1, <2>1, <2>2
<1>4. Used' = Used
  BY <1>3 DEF Used
<1>5. TypeOK'
  BY <1>1, <1>2, <1>3 DEF TypeOK, history
<1>6. Lineage'
  BY <1>1, <1>3, <1>4, UsedLineage DEF IInv, Lineage, history
<1>7. Families'
  BY <1>3, <1>4, UsedLineage DEF IInv, Families
<1>8. StoredUntilOver'
  BY <1>1, <1>3, <1>4, UsedLineage DEF IInv, StoredUntilOver
<1>9. EndedForGood'
  BY <1>1, <1>3, <1>4, UsedLineage DEF IInv, EndedForGood, history
<1> QED
  BY <1>5, <1>6, <1>7, <1>8, <1>9 DEF IInv

\* Deleting clients keeps it: all that refers to them goes with them.
LEMMA ClientsDeletedKeeps == ASSUME IInv, CollectIdleClients PROVE IInv'
<1> DEFINE D == {g \in Grants : grant[g].client \in idle}
           C == {c \in Codes : code[c].grant \in D}
<1>1. TypeOK
  BY DEF IInv
<1>2. /\ grant' \in [Grants -> GrantRows]
      /\ \A g \in Grants : grant'[g].state = IF g \in D THEN "gone" ELSE grant[g].state
  <2>1. grant' = [g \in Grants |-> IF g \in D THEN [grant[g] EXCEPT !.state = "gone"] ELSE grant[g]]
    BY DEF CollectIdleClients
  <2> HIDE DEF D
  <2> QED
    BY <1>1, <2>1, GrantsShape
<1>3. /\ code' \in [Codes -> CodeRows]
      /\ \A c \in Codes :
           /\ code'[c].grant = code[c].grant
           /\ code'[c].state = IF c \in C THEN "gone" ELSE code[c].state
  <2>1. code' = [c \in Codes |-> IF c \in C THEN [code[c] EXCEPT !.state = "gone"] ELSE code[c]]
    BY DEF CollectIdleClients
  <2> HIDE DEF C
  <2> QED
    BY <1>1, <2>1, CodesGoneShape
<1>4. \A c \in C : code[c].state # "none"
  BY NoneAssumption DEF IInv, Lineage
<1>5. /\ issue' \in [Issues -> IssueRows]
      /\ \A k \in Issues :
           /\ issue'[k].family = issue[k].family
           /\ issue'[k].grant = issue[k].grant
           /\ issue'[k].expires = issue[k].expires
           /\ issue'[k].familyExpires = issue[k].familyExpires
           /\ issue'[k].superseded = issue[k].superseded
           /\ issue'[k].revoked = issue[k].revoked
           /\ issue'[k].access => issue[k].access
           /\ issue'[k].refresh => issue[k].refresh
           /\ issue[k].refresh => issue'[k].refresh \/ issue[k].grant \in D
  <2>1. issue' = [i \in Issues |-> IF issue[i].grant \in D
                                     THEN [issue[i] EXCEPT !.access = FALSE, !.refresh = FALSE]
                                     ELSE issue[i]]
    BY DEF CollectIdleClients
  <2>2. issue \in [Issues -> IssueRows]
    BY <1>1 DEF TypeOK
  <2> HIDE DEF D
  <2>3. ASSUME NEW k \in Issues
        PROVE  /\ issue[k] \in IssueRows
               /\ issue'[k] = IF issue[k].grant \in D
                                 THEN [issue[k] EXCEPT !.access = FALSE, !.refresh = FALSE]
                                 ELSE issue[k]
    BY <2>1, <2>2
  <2>4. ASSUME NEW r \in IssueRows
        PROVE  LET s == [r EXCEPT !.access = FALSE, !.refresh = FALSE] IN
               /\ s \in IssueRows
               /\ s.family = r.family /\ s.grant = r.grant
               /\ s.expires = r.expires /\ s.familyExpires = r.familyExpires
               /\ s.superseded = r.superseded /\ s.revoked = r.revoked
               /\ ~s.access /\ ~s.refresh
    BY DEF IssueRows
  <2>5. \A k \in Issues : issue'[k] \in IssueRows
    BY <2>3, <2>4
  <2>6. issue' \in [Issues -> IssueRows]
    BY <2>1, <2>5
  <2>7. ASSUME NEW k \in Issues
        PROVE  /\ issue'[k].family = issue[k].family
               /\ issue'[k].grant = issue[k].grant
               /\ issue'[k].expires = issue[k].expires
               /\ issue'[k].familyExpires = issue[k].familyExpires
               /\ issue'[k].superseded = issue[k].superseded
               /\ issue'[k].revoked = issue[k].revoked
               /\ issue'[k].access => issue[k].access
               /\ issue'[k].refresh => issue[k].refresh
               /\ issue[k].refresh => issue'[k].refresh \/ issue[k].grant \in D
    <3>1. CASE issue[k].grant \in D
      BY <2>3, <2>4, <3>1
    <3>2. CASE issue[k].grant \notin D
      BY <2>3, <3>2
    <3> QED
      BY <3>1, <3>2
  <2> QED
    BY <2>6, <2>7
<1>6. Used' = Used
  BY <1>5 DEF Used
<1>7. /\ client' \in SUBSET Clients /\ idle' = {}
      /\ UNCHANGED <<clock, epoch, ended, redeemed>>
  BY <1>1 DEF CollectIdleClients, history, TypeOK
<1> HIDE DEF C, D
<1>8. TypeOK'
  BY <1>1, <1>2, <1>3, <1>5, <1>7 DEF TypeOK
<1>9. Lineage'
  BY <1>2, <1>3, <1>4, <1>5, <1>6, <1>7, UsedLineage DEF IInv, Lineage
<1>10. Families'
  BY <1>5, <1>6, UsedLineage DEF IInv, Families
<1>11. StoredUntilOver'
  BY <1>2, <1>5, <1>6, <1>7, UsedLineage DEF IInv, StoredUntilOver
<1>12. EndedForGood'
  <2>1. ASSUME NEW c \in ended
        PROVE  code'[c].state # "none" /\ (code'[c].state = "issued" => grant'[code'[c].grant].state # "live")
    BY <1>1, <1>2, <1>3 DEF IInv, EndedForGood, Lineage, TypeOK
  <2> QED
    BY <1>5, <1>6, <1>7, <2>1, UsedLineage DEF IInv, EndedForGood
<1> QED
  BY <1>8, <1>9, <1>10, <1>11, <1>12 DEF IInv

-----------------------------------------------------------------------------
(* Every step keeps the invariant.                                         *)

LEMMA ApproveKeeps ==
    ASSUME IInv, NEW x \in Clients, NEW g \in Grants, NEW c \in Codes, ApproveConsent(x, g, c)
    PROVE  IInv'
<1>1. TypeOK
  BY DEF IInv
<1>2. grant[g].state \in {"none", "live"}
  BY DEF ApproveConsent, UpsertGrant, LiveGrants
<1>3. /\ grant' \in [Grants -> GrantRows] /\ grant'[g].state = "live"
      /\ \A h \in Grants : h # g => grant'[h].state = grant[h].state
  BY <1>1, TimesAssumption DEF ApproveConsent, UpsertGrant, TypeOK, GrantRows
<1> QED
  BY <1>2, <1>3, ConsentKeeps DEF ApproveConsent, history

LEMMA ApproveAgainKeeps ==
    ASSUME IInv, NEW x \in Clients, NEW c \in Codes, ApproveExistingGrant(x, c)
    PROVE  IInv'
<1>1. PICK g \in LiveGrants(x) : CreateCode(c, g)
  BY DEF ApproveExistingGrant
<1>2. g \in Grants /\ grant[g].state = "live"
  BY DEF LiveGrants
<1>3. grant' \in [Grants -> GrantRows]
  BY DEF IInv, TypeOK, ApproveExistingGrant
<1> QED
  BY <1>1, <1>2, <1>3, ConsentKeeps DEF ApproveExistingGrant, history

LEMMA ExchangeKeeps ==
    ASSUME IInv, NEW c \in Codes, NEW i \in Issues, ExchangeCode(c, i)
    PROVE  IInv'
<1> DEFINE g == code[c].grant
           n == NewIssue(c, g, clock + FamilyTTL)
<1>1. TypeOK
  BY DEF IInv
<1>2. code[c].state = "issued" /\ g \in Grants /\ grant[g].state = "live"
  BY <1>1 DEF ExchangeCode, Exchangeable, Current, TypeOK, CodeRows
<1>3. c \notin ended
  BY <1>2 DEF IInv, EndedForGood
<1>4. \A k \in Used : issue[k].family # c
  BY <1>2 DEF IInv, Lineage
<1>5. /\ code' \in [Codes -> CodeRows] /\ code'[c].state = "consumed" /\ code'[c].grant = g
      /\ \A d \in Codes : d # c => code'[d] = code[d]
  BY <1>1 DEF ExchangeCode, TypeOK, CodeRows
<1>6. /\ redeemed' \in [Codes -> Nat \cup {Never}] /\ redeemed'[c] = clock /\ clock \in Nat
      /\ \A d \in Codes : d # c => redeemed'[d] = redeemed[d]
  BY <1>1, TimesAssumption DEF ExchangeCode, TypeOK
<1>7. clock + FamilyTTL \in Nat
  BY <1>6, TimesAssumption
<1>8. Fresh(n, c, g, clock + FamilyTTL)
  BY <1>1, <1>2, <1>7, NewIssueShape
<1>9. issue' = [issue EXCEPT ![i] = n] /\ issue \in [Issues -> IssueRows] /\ Unused(i)
  BY <1>1 DEF ExchangeCode, TypeOK
<1>10. UNCHANGED <<clock, epoch, client, grant, idle, ended>>
  BY DEF ExchangeCode
<1>11. code[c].grant = g
  OBVIOUS
<1> HIDE DEF n, g
<1>12. SupersededIn(issue, {})
  BY <1>1 DEF SupersededIn, TypeOK
<1> QED
  BY <1>2, <1>3, <1>4, <1>5, <1>6, <1>8, <1>9, <1>10, <1>11, <1>12, IssueKeeps

LEMMA RefreshKeeps ==
    ASSUME IInv, NEW i \in Issues, NEW j \in Issues, Refresh(i, j)
    PROVE  IInv'
<1> DEFINE c == issue[i].family
           g == issue[i].grant
           n == NewIssue(c, g, issue[i].familyExpires)
<1>1. TypeOK
  BY DEF IInv
<1>2. /\ g # None /\ issue[i].refresh /\ ~issue[i].revoked /\ ~issue[i].superseded
      /\ Unused(j) /\ UNCHANGED <<clock, epoch, client, grant, code, idle, history>>
      /\ issue' = [Supersede(i) EXCEPT ![j] = n]
  BY DEF Refresh, Refreshable, Presentable, Current
<1>3. i \in Used
  BY <1>2 DEF Used, IInv, Lineage
<1>4. /\ c \in Codes /\ g \in Grants /\ code[c].grant = g
      /\ code[c].state \in {"consumed", "gone"}
      /\ issue[i].familyExpires = redeemed[c] + FamilyTTL /\ redeemed[c] \in Nat
  BY <1>1, <1>3, UsedLineage DEF IInv, Lineage, TypeOK
<1>5. c \notin ended
  BY <1>2, <1>3 DEF IInv, EndedForGood
<1>6. \A k \in Used : issue[k].family = c =>
         ~issue[k].revoked /\ (issue[k].superseded \/ k \in {i})
  <2> SUFFICES ASSUME NEW k \in Used, issue[k].family = c, k # i
               PROVE  ~issue[k].revoked /\ issue[k].superseded
    BY <1>2
  <2> QED
    BY <1>2, <1>3 DEF IInv, Families
<1>7. Fresh(n, c, g, redeemed[c] + FamilyTTL)
  <2>1. issue[i].familyExpires \in Nat
    BY <1>4, TimesAssumption
  <2>2. Fresh(n, c, g, issue[i].familyExpires)
    BY <1>1, <1>4, <2>1, NewIssueShape
  <2> QED
    BY <1>4, <2>2
<1>8. SupersededIn(Supersede(i), {i})
  BY <1>1, SupersededShape
<1>9. /\ code' \in [Codes -> CodeRows] /\ redeemed' \in [Codes -> Nat \cup {Never}]
      /\ code' = code /\ redeemed' = redeemed
      /\ UNCHANGED <<clock, epoch, client, grant, idle, ended>>
  BY <1>1, <1>2 DEF TypeOK, history
<1> HIDE DEF n, c, g
<1>10. /\ code'[c].state \in {"consumed", "gone"} /\ code'[c].grant = g
       /\ redeemed'[c] \in Nat /\ Fresh(n, c, g, redeemed'[c] + FamilyTTL)
  BY <1>4, <1>7, <1>9
<1>11. /\ \A k \in Used : issue[k].family = c =>
               redeemed'[c] = redeemed[c] /\ ~issue[k].revoked
               /\ (issue[k].superseded \/ k \in {i})
       /\ \A d \in Codes : d # c => code'[d] = code[d] /\ redeemed'[d] = redeemed[d]
  BY <1>6, <1>9
<1> QED
  BY <1>2, <1>4, <1>5, <1>8, <1>9, <1>10, <1>11, IssueKeeps

\* A replay ends the family of a code that was exchanged.
LEMMA ReplayKeeps ==
    ASSUME IInv,
           \/ \E c \in Codes : ReplayCode(c)
           \/ \E i \in Issues : ReplayRefresh(i)
    PROVE  IInv'
<1>1. ASSUME NEW c \in Codes, ReplayCode(c) PROVE IInv'
  BY <1>1, FamilyRevokedKeeps DEF ReplayCode
<1>2. ASSUME NEW i \in Issues, ReplayRefresh(i) PROVE IInv'
  <2>1. i \in Used
    BY <1>2 DEF ReplayRefresh, Presentable, Current, Used, IInv, Lineage
  <2>2. issue[i].family \in Codes /\ code[issue[i].family].state \in {"consumed", "gone"}
    BY <2>1, UsedLineage DEF IInv, Lineage
  <2> QED
    BY <1>2, <2>2, FamilyRevokedKeeps DEF ReplayRefresh
<1> QED
  BY <1>1, <1>2

\* Revocations end grants.
LEMMA RevocationKeeps ==
    ASSUME IInv,
           \/ \E i \in Issues : RevokeToken(i)
           \/ \E g \in Grants : RevokeAgentGrant(g)
           \/ ChangeFactors
    PROVE  IInv'
<1>1. epoch \in 0..MaxEpoch /\ epoch \in Nat /\ MaxEpoch \in Nat
  BY TimesAssumption DEF IInv, TypeOK
<1>2. ASSUME NEW i \in Issues, RevokeToken(i) PROVE IInv'
  <2>1. CASE i \in Used
    <3>1. {issue[i].grant} \in SUBSET Grants
      BY <2>1, UsedLineage
    <3> QED
      BY <1>1, <1>2, <3>1, EndGrantsKeeps DEF RevokeToken
  <2>2. CASE i \notin Used
    \* Without a grant there is nothing to end, and nothing is stored.
    <3>1. issue[i].access = FALSE /\ issue[i].refresh = FALSE
      BY <2>2 DEF IInv, Lineage
    <3> QED
      BY <1>2, <3>1 DEF RevokeToken
  <2> QED
    BY <2>1, <2>2
<1>3. ASSUME NEW g \in Grants, RevokeAgentGrant(g) PROVE IInv'
  <2>1. {g} \in SUBSET Grants
    OBVIOUS
  <2> QED
    BY <1>1, <1>3, <2>1, EndGrantsKeeps DEF RevokeAgentGrant
<1>4. ASSUME ChangeFactors PROVE IInv'
  <2>1. AllLiveGrants \in SUBSET Grants
    BY DEF AllLiveGrants
  <2>2. epoch' \in 0..MaxEpoch
    BY <1>1, <1>4 DEF ChangeFactors
  <2> QED
    BY <1>4, <2>1, <2>2, EndGrantsKeeps DEF ChangeFactors
<1> QED
  BY <1>2, <1>3, <1>4

LEMMA InvStep == IInv /\ [Next]_vars => IInv'
<1> SUFFICES ASSUME IInv, [Next]_vars PROVE IInv'
  OBVIOUS
<1>1. /\ clock \in 0..MaxClock /\ clock \in Nat /\ MaxClock \in Nat
      /\ client \in SUBSET Clients /\ idle \in SUBSET Clients
  BY TimesAssumption DEF IInv, TypeOK
<1>2. CASE Tick
  BY <1>1, <1>2, OthersKeep DEF Tick, rows, history
<1>3. ASSUME NEW x \in Clients, Register(x) PROVE IInv'
  BY <1>1, <1>3, OthersKeep DEF Register, history
<1>4. ASSUME NEW x \in Clients, NEW g \in Grants, NEW c \in Codes, ApproveConsent(x, g, c)
      PROVE  IInv'
  BY <1>4, ApproveKeeps
<1>5. ASSUME NEW x \in Clients, NEW c \in Codes, ApproveExistingGrant(x, c) PROVE IInv'
  BY <1>5, ApproveAgainKeeps
<1>6. ASSUME NEW c \in Codes, NEW i \in Issues, ExchangeCode(c, i) PROVE IInv'
  BY <1>6, ExchangeKeeps
<1>7. CASE (\E c \in Codes : ReplayCode(c)) \/ (\E i \in Issues : ReplayRefresh(i))
  BY <1>7, ReplayKeeps
<1>8. ASSUME NEW i \in Issues, NEW j \in Issues, Refresh(i, j) PROVE IInv'
  BY <1>8, RefreshKeeps
<1>9. CASE \/ \E i \in Issues : RevokeToken(i)
           \/ \E g \in Grants : RevokeAgentGrant(g)
           \/ ChangeFactors
  BY <1>9, RevocationKeeps
<1>10. CASE DeleteExpiredCodes
  BY <1>10, CodesDeletedKeeps
<1>11. CASE DeleteTerminalTokens
  BY <1>11, TokensDeletedKeeps
<1>12. ASSUME NEW X \in SUBSET Clients, ListIdle(X) PROVE IInv'
  BY <1>1, <1>12, OthersKeep DEF ListIdle, rows, history
<1>13. CASE CollectIdleClients
  BY <1>13, ClientsDeletedKeeps
<1>14. CASE UNCHANGED vars
  BY <1>1, <1>14, OthersKeep DEF vars, rows, history
<1> QED
  BY <1>2, <1>3, <1>4, <1>5, <1>6, <1>7, <1>8, <1>9, <1>10, <1>11, <1>12, <1>13, <1>14 DEF Next

-----------------------------------------------------------------------------
(* The theorems.                                                           *)

\* The rows of codes, grants and tokens stay consistent, whatever is exchanged,
\* replayed, revoked, deleted or approved again, and in whatever order.
THEOREM Invariant == Spec => []IInv
<1> QED
  BY InvInit, InvStep, PTL DEF Spec

\* A token that a check accepts, or that can be refreshed, was issued.
LEMMA CurrentIsUsed ==
    ASSUME IInv, NEW i \in Issues, Current(issue[i].grant)
    PROVE  i \in Used
BY DEF Current, IInv, Lineage

\* What was disconnected, revoked, voided by a change of factors or found
\* replayed stays void: revoke.go, consent.go and token_endpoint.go never give a
\* code, an access token or a refresh token of it another chance.
THEOREM EndedStaysVoid == Spec => []EndedIsVoid
<1>1. IInv => EndedIsVoid
  <2> SUFFICES ASSUME IInv PROVE EndedIsVoid
    OBVIOUS
  <2>1. \A c \in ended : ~Exchangeable(c)
    BY DEF IInv, EndedForGood, Exchangeable, Current
  <2>2. ASSUME NEW i \in Issues, issue[i].family \in ended
        PROVE  ~Accepted(i) /\ ~Refreshable(i)
    <3>1. Current(issue[i].grant) => issue[i].revoked
      BY <2>2, CurrentIsUsed DEF IInv, EndedForGood
    <3> QED
      BY <3>1 DEF Accepted, Refreshable, Presentable
  <2> QED
    BY <2>1, <2>2 DEF EndedIsVoid
<1> QED
  BY <1>1, Invariant, PTL

\* A family never has two tokens that can be refreshed, and the clean-up never
\* deletes the one whose replay would give a thief away.
THEOREM OldTokensTrip == Spec => []EveryOldTokenTrips
<1>1. IInv => EveryOldTokenTrips
  <2> SUFFICES ASSUME IInv, NEW i \in Issues, NEW j \in Issues,
                      i # j, issue[i].family = issue[j].family, Refreshable(j)
               PROVE  Presentable(i) /\ issue[i].superseded
    BY DEF EveryOldTokenTrips
  <2>1. Current(issue[j].grant) /\ ~issue[j].revoked /\ ~issue[j].superseded
        /\ clock < issue[j].familyExpires
    BY DEF Refreshable, Presentable
  <2>2. j \in Used /\ i \in Used
    BY <2>1, CurrentIsUsed DEF Used
  <2>3. issue[i].superseded /\ issue[i].revoked = issue[j].revoked
    BY <2>1, <2>2 DEF IInv, Families
  <2>4. issue[i].grant = issue[j].grant /\ issue[i].familyExpires = issue[j].familyExpires
    BY <2>2, UsedLineage DEF IInv, Lineage
  <2>5. issue[j].familyExpires \in Nat /\ clock \in Nat
    BY TimesAssumption DEF IInv, TypeOK, IssueRows
  <2>6. issue[i].refresh
    BY <2>1, <2>2, <2>4, <2>5 DEF IInv, StoredUntilOver, Current
  <2> QED
    BY <2>1, <2>3, <2>4, <2>6 DEF Presentable
<1> QED
  BY <1>1, Invariant, PTL

\* No chain of refreshes carries an agent past the deadline that was set when
\* its code was exchanged.
THEOREM FamiliesEnd == Spec => []FamilyEndsInTime
<1>1. IInv => FamilyEndsInTime
  <2> SUFFICES ASSUME IInv, NEW i \in Issues, Accepted(i) \/ Refreshable(i)
               PROVE  clock < redeemed[issue[i].family] + FamilyTTL
    BY DEF FamilyEndsInTime
  <2>1. Current(issue[i].grant) /\ (clock < issue[i].expires \/ clock < issue[i].familyExpires)
    BY DEF Accepted, Refreshable, Presentable
  <2>2. i \in Used
    BY <2>1, CurrentIsUsed
  <2>3. /\ issue[i].familyExpires = redeemed[issue[i].family] + FamilyTTL
        /\ issue[i].expires <= issue[i].familyExpires
    BY <2>2 DEF IInv, Lineage
  <2>4. issue[i].expires \in Nat /\ issue[i].familyExpires \in Nat /\ clock \in Nat
    BY TimesAssumption DEF IInv, TypeOK, IssueRows
  <2> QED
    BY <2>1, <2>3, <2>4
<1> QED
  BY <1>1, Invariant, PTL
=============================================================================

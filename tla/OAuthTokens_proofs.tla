------------------------ MODULE OAuthTokens_proofs ------------------------
(***************************************************************************)
(* Theorems of OAuthTokens for every number of clients, identities,        *)
(* strings and concurrent requests.  The inductive invariant IInv adds to  *)
(* the type invariant what a request presents (KindOK), that the strings   *)
(* it is about to insert are its own and not in a table (MintOK), and how  *)
(* far a request that came too late gets (LateOK).                         *)
(***************************************************************************)
EXTENDS OAuthTokens, TLAPS

KindOK == \A r \in Reqs :
    /\ req[r].kind = "code" => req[r].tok \in Codes
    /\ req[r].kind = "refresh" => req[r].tok \in Refreshes
    /\ req[r].kind = "bearer" => req[r].tok \in Accesses
    /\ req[r].kind = "revoke" => req[r].tok \in Refreshes \cup Accesses

Pending(r, w, i) == w \in req[r].todo =>
    i # None /\ row[i].st = "minted"

MintOK == \A r \in Reqs :
    /\ Pending(r, "refresh", req[r].rt) /\ Pending(r, "access", req[r].at)
    /\ \A q \in Reqs \ {r} :
          /\ "refresh" \in req[r].todo /\ "refresh" \in req[q].todo
                => req[r].rt # req[q].rt
          /\ "access" \in req[r].todo /\ "access" \in req[q].todo
                => req[r].at # req[q].at

LateOK == \A r \in Reqs :
    req[r].late /\ req[r].kind \in {"code", "refresh", "bearer"} =>
       /\ Dead(req[r].tok)
       /\ \/ req[r].st \in {"find", "reuse", "reuse2"}
          \/ req[r].st = "answered" /\ req[r].ans = "error"

IInv == TypeOK /\ KindOK /\ MintOK /\ LateOK

-----------------------------------------------------------------------------
(* The initial state. *)
LEMMA InitIInv == Init => IInv
  BY OAuthAssumption
  DEF Init, IInv, TypeOK, KindOK, MintOK, Pending, LateOK, RowType, BlankRow,
      ReqType, IdleReq, Stages, Writes, AllKinds, Owners

\* A request that moves, and presents what it presented before.
LEMMA ReqMoves ==
  ASSUME req \in [Reqs -> ReqType], KindOK, NEW r \in Reqs, NEW q \in ReqType,
         q.kind = req[r].kind, q.tok = req[r].tok, req' = [req EXCEPT ![r] = q]
  PROVE  req' \in [Reqs -> ReqType] /\ KindOK'
<1>1. \A x \in Reqs : req'[x].kind = req[x].kind /\ req'[x].tok = req[x].tok
  OBVIOUS
<1> QED
  BY <1>1 DEF KindOK

LEMMA ReqGoes ==
  ASSUME req \in [Reqs -> ReqType], KindOK, NEW r \in Reqs, NEW stage \in Stages,
         Goto(r, stage)
  PROVE  req' \in [Reqs -> ReqType] /\ KindOK'
<1> DEFINE q == [req[r] EXCEPT !.st = stage]
<1>1. q \in ReqType /\ q.kind = req[r].kind /\ q.tok = req[r].tok
  BY DEF ReqType
<1>2. req' = [req EXCEPT ![r] = q]
  BY DEF Goto
<1> HIDE DEF q
<1> QED
  BY <1>1, <1>2, ReqMoves

LEMMA ReqAnswered ==
  ASSUME req \in [Reqs -> ReqType], KindOK, NEW r \in Reqs,
         NEW a \in {"ok", "error"}, Reply(r, a)
  PROVE  req' \in [Reqs -> ReqType] /\ KindOK'
<1> DEFINE q == [req[r] EXCEPT !.st = "answered", !.ans = a]
<1>1. q \in ReqType /\ q.kind = req[r].kind /\ q.tok = req[r].tok
  BY DEF ReqType, Stages
<1>2. req' = [req EXCEPT ![r] = q]
  BY DEF Reply
<1> HIDE DEF q
<1> QED
  BY <1>1, <1>2, ReqMoves

LEMMA ReqHit ==
  ASSUME req \in [Reqs -> ReqType], KindOK, NEW r \in Reqs, NEW h \in BOOLEAN,
         \/ req' = [req EXCEPT ![r].st = "paired", ![r].hit = h]
         \/ req' = [req EXCEPT ![r].st = "answered", ![r].ans = "ok", ![r].hit = h]
  PROVE  req' \in [Reqs -> ReqType] /\ KindOK'
<1> DEFINE p == [req[r] EXCEPT !.st = "paired", !.hit = h]
           q == [req[r] EXCEPT !.st = "answered", !.ans = "ok", !.hit = h]
<1>1. /\ p \in ReqType /\ p.kind = req[r].kind /\ p.tok = req[r].tok
      /\ q \in ReqType /\ q.kind = req[r].kind /\ q.tok = req[r].tok
  <2>1. req[r] \in ReqType
    OBVIOUS
  <2>2. p \in ReqType /\ p.kind = req[r].kind /\ p.tok = req[r].tok
    BY <2>1 DEF ReqType, Stages
  <2>3. ASSUME NEW x \in ReqType
        PROVE  LET y == [x EXCEPT !.st = "answered", !.ans = "ok", !.hit = h]
               IN  y \in ReqType /\ y.kind = x.kind /\ y.tok = x.tok
    BY DEF ReqType, Stages
  <2> QED
    BY <2>1, <2>2, <2>3
<1>2. CASE req' = [req EXCEPT ![r].st = "paired", ![r].hit = h]
  <2>1. req' = [req EXCEPT ![r] = p]
    BY <1>2
  <2> HIDE DEF p
  <2> QED
    BY <1>1, <2>1, ReqMoves
<1>3. CASE req' = [req EXCEPT ![r].st = "answered", ![r].ans = "ok", ![r].hit = h]
  <2>1. req' = [req EXCEPT ![r] = q]
    BY <1>3
  <2> HIDE DEF q
  <2> QED
    BY <1>1, <2>1, ReqMoves
<1> QED
  BY <1>2, <1>3

(* Typing and what a request presents, action by action. *)
LEMMA TypeStep == TypeOK /\ KindOK /\ [Next]_vars => TypeOK' /\ KindOK'
<1> SUFFICES ASSUME TypeOK, KindOK, [Next]_vars PROVE TypeOK' /\ KindOK'
  OBVIOUS
<1> USE OAuthAssumption DEF TypeOK, KindOK, RowType, ReqType, Ids, Owners
<1>a. ASSUME UNCHANGED vars PROVE TypeOK' /\ KindOK'
  BY <1>a DEF vars
<1>1. ASSUME NEW r \in Reqs, NEW k \in AllKinds, NEW c \in Clients \cup {None},
             NEW u \in Owners, NEW t \in Ids \cup {None},
             NEW s \in SUBSET ScopeWords, NEW stage \in Stages,
             k = "code" => t \in Codes, k = "refresh" => t \in Refreshes,
             k = "bearer" => t \in Accesses,
             k = "revoke" => t \in Refreshes \cup Accesses,
             Arrive(r, k, c, u, t, s, stage)
      PROVE TypeOK' /\ KindOK'
  <2> DEFINE new == [st |-> stage, kind |-> k, cl |-> c, own |-> u, tok |-> t,
                     scope |-> s, at |-> None, rt |-> None, todo |-> {},
                     ans |-> "none",
                     late |-> IF t = None THEN FALSE ELSE Dead(t), hit |-> FALSE]
  <2>1. new \in ReqType
    BY DEF Dead, Live, Usable
  <2>2. req' = [req EXCEPT ![r] = new] /\ UNCHANGED tables
    BY <1>1 DEF Arrive
  <2>3. req' \in [Reqs -> ReqType]
    BY <2>1, <2>2
  <2>4. \A q \in Reqs : req'[q] = IF q = r THEN new ELSE req[q]
    BY <2>2
  <2>5. KindOK'
    BY <2>4, <1>1
  <2> QED
    BY <2>2, <2>3, <2>5 DEF tables
<1>2. ASSUME NEW r \in Reqs, TokenRequest(r) PROVE TypeOK' /\ KindOK'
  BY <1>2, <1>1 DEF TokenRequest, AllKinds, Stages, ScopeWords
<1>3. ASSUME NEW r \in Reqs, AuthorizeRequest(r) PROVE TypeOK' /\ KindOK'
  <2>1. PICK c \in Clients, u \in Users, k \in {"authorize", "implicit"},
             s \in AskedScopes, page \in {"consent", "enable"} :
             Arrive(r, k, c, u, None, s, IF AskAuthorization THEN page ELSE "store")
    BY <1>3 DEF AuthorizeRequest
  <2>2. (IF AskAuthorization THEN page ELSE "store") \in Stages
    BY DEF Stages
  <2>3. k \in AllKinds /\ s \in SUBSET ScopeWords /\ u \in Owners
    BY DEF AllKinds
  <2> QED
    BY <2>1, <2>2, <2>3, <1>1
<1>4. ASSUME NEW r \in Reqs, BearerRequest(r) \/ RevokeRequest(r)
      PROVE TypeOK' /\ KindOK'
  BY <1>4, <1>1 DEF BearerRequest, RevokeRequest, AllKinds, Stages
<1>i. ASSUME NEW i, NEW c \in Clients \cup {None}, NEW o \in Owners,
             NEW code \in Codes \cup {None}, NEW t \in Refreshes \cup {None},
             NEW s \in SUBSET ScopeWords, NEW e \in Nat \cup {None},
             Insert(i, c, o, code, t, s, e)
      PROVE row' \in [Ids -> RowType]
  <2>1. [st |-> "live", cl |-> c, own |-> o, code |-> code, rt |-> t,
         scope |-> s, exp |-> e, valid |-> TRUE] \in RowType
    OBVIOUS
  <2> QED
    BY <1>i, <2>1 DEF Insert
<1>s. ASSUME NEW i \in Ids, NEW s \in {"free", "minted", "live", "gone"}
      PROVE [row[i] EXCEPT !.st = s] \in RowType
  <2>1. row[i] \in RowType
    OBVIOUS
  <2> QED
    BY <2>1
<1>5. ASSUME NEW r \in Reqs, FindCode(r) PROVE TypeOK' /\ KindOK'
  BY <1>5 DEF FindCode, At, Reply, Goto, Stages, tables
<1>6. ASSUME NEW r \in Reqs, FindRefresh(r) PROVE TypeOK' /\ KindOK'
  <2>1. req[r].tok \in Ids
    BY <1>6 DEF FindRefresh, At
  <2>2. row[req[r].tok].own \in Owners
    BY <2>1
  <2> QED
    BY <1>6, <2>2 DEF FindRefresh, At, Reply, Stages, tables
<1>g. ASSUME NEW r \in Reqs,
             \/ \E stage \in Stages : Goto(r, stage)
             \/ Reply(r, "error") \/ Reply(r, "ok")
      PROVE  req' \in [Reqs -> ReqType] /\ KindOK'
  <2> HIDE DEF ReqType, RowType, KindOK
  <2> QED
    BY <1>g, ReqGoes, ReqAnswered
<1>7. ASSUME NEW r \in Reqs, FindIdentity(r) \/ FindAccess(r) \/ Accept(r)
                             \/ CheckConsent(r)
      PROVE TypeOK' /\ KindOK'
  <2>1. \/ \E stage \in Stages : Goto(r, stage)
        \/ Reply(r, "error") \/ Reply(r, "ok")
    BY <1>7, Zenon DEF FindIdentity, FindAccess, Accept, CheckConsent, Stages
  <2>2. UNCHANGED tables
    BY <1>7 DEF FindIdentity, FindAccess, Accept, CheckConsent
  <2> HIDE DEF ReqType, RowType, KindOK
  <2> QED
    BY <1>g, <2>1, <2>2 DEF tables
<1>8. ASSUME NEW r \in Reqs, RevokeAuthorizationCode(r) \/ RotateRefreshToken(r)
                             \/ ReuseRevokesAccess(r) \/ ReuseRevokesRefresh(r)
                             \/ RevokePresented(r) \/ RevokePaired(r)
      PROVE TypeOK' /\ KindOK'
  <2>1. UNCHANGED noSave
    BY <1>8 DEF RevokeAuthorizationCode, RotateRefreshToken,
         ReuseRevokesAccess, ReuseRevokesRefresh, RevokePresented, RevokePaired
  <2>2. PICK S \in SUBSET Ids : SendSaveOfOne(S)
    <3>1. RevokeAuthorizationCode(r) \/ RotateRefreshToken(r)
             \/ RevokePresented(r) => req[r].tok \in Ids
      BY DEF RevokeAuthorizationCode, RotateRefreshToken, RevokePresented, At
    <3> HIDE DEF ReqType, RowType, TypeOK, KindOK
    <3>2. CASE RevokeAuthorizationCode(r) \/ RotateRefreshToken(r)
               \/ RevokePresented(r)
      BY <3>1, <3>2 DEF RevokeAuthorizationCode, RotateRefreshToken,
           RevokePresented, Matching
    <3>3. CASE ReuseRevokesAccess(r) \/ ReuseRevokesRefresh(r) \/ RevokePaired(r)
      BY <3>3 DEF ReuseRevokesAccess, ReuseRevokesRefresh, RevokePaired,
           Matching, OfCode
    <3> QED
      BY <1>8, <3>2, <3>3
  <2>3. saves' \subseteq Ids
    BY <2>2 DEF SendSaveOfOne
  <2>4. CASE \/ \E stage \in Stages : Goto(r, stage)
             \/ Reply(r, "error") \/ Reply(r, "ok")
    <3> HIDE DEF ReqType, RowType, KindOK
    <3> QED
      BY <1>g, <2>1, <2>3, <2>4 DEF noSave
  <2>5. CASE \E hit \in BOOLEAN :
                \/ req' = [req EXCEPT ![r].st = "paired", ![r].hit = hit]
                \/ req' = [req EXCEPT ![r].st = "answered", ![r].ans = "ok",
                                      ![r].hit = hit]
    <3> HIDE DEF ReqType, RowType, KindOK
    <3>1. req' \in [Reqs -> ReqType] /\ KindOK'
      BY <2>5, ReqHit
    <3> QED
      BY <2>1, <2>3, <3>1 DEF noSave
  <2>6. CASE RevokePresented(r)
    <3> HIDE DEF ReqType, RowType, KindOK, TypeOK
    <3> QED
      BY <2>4, <2>5, <2>6, Zenon DEF RevokePresented
  <2>7. CASE ~RevokePresented(r)
    <3> HIDE DEF ReqType, RowType, KindOK, TypeOK
    <3>1. {"store", "reuse2"} \subseteq Stages
      BY DEF Stages
    <3> QED
      BY <1>8, <2>4, <2>7, <3>1 DEF RevokeAuthorizationCode,
        RotateRefreshToken, ReuseRevokesAccess, ReuseRevokesRefresh, RevokePaired
  <2> QED
    BY <2>6, <2>7
<1>9. ASSUME NEW r \in Reqs, Mint(r) PROVE TypeOK' /\ KindOK'
  <2> DEFINE q == req[r]
             plan == (IF Renewable(q) THEN {"refresh"} ELSE {})
                     \cup (IF "jwt" \in q.scope THEN {} ELSE {"access"})
                     \cup (IF q.own \in Users /\ AskAuthorization
                           THEN {"consent"} ELSE {})
  <2>1. PICK t \in IF "refresh" \in plan THEN Fresh(Refreshes) ELSE {None},
             a \in IF "access" \in plan THEN Fresh(Accesses) ELSE {None} :
          /\ row' = [i \in Ids |-> IF i \in {t, a}
                                   THEN [row[i] EXCEPT !.st = "minted"]
                                   ELSE row[i]]
          /\ req' = [req EXCEPT ![r] = [@ EXCEPT !.st = "saving",
                                    !.todo = plan, !.rt = t, !.at = a]]
    BY <1>9, Zenon DEF Mint
  <2>2. t \in Refreshes \cup {None} /\ a \in Accesses \cup {None}
    BY <2>1 DEF Fresh
  <2>3. row' \in [Ids -> RowType]
    BY <2>1, <1>s
  <2>4. plan \in SUBSET Writes
    BY DEF Writes
  <2> HIDE DEF plan
  <2>5. req' \in [Reqs -> ReqType] /\ KindOK'
    <3>1. req[r] \in ReqType
      OBVIOUS
    <3>2. [req[r] EXCEPT !.st = "saving", !.todo = plan, !.rt = t, !.at = a]
             \in ReqType
      <4>1. ASSUME NEW x \in ReqType, NEW p \in SUBSET Writes,
                   NEW f \in Refreshes \cup {None}, NEW g \in Accesses \cup {None}
            PROVE [x EXCEPT !.st = "saving", !.todo = p, !.rt = f, !.at = g]
                     \in ReqType
        BY DEF Stages
      <4> QED
        BY <3>1, <2>2, <2>4, <4>1
    <3>3. req' = [req EXCEPT ![r] = [req[r] EXCEPT !.st = "saving",
                                        !.todo = plan, !.rt = t, !.at = a]]
      BY <2>1
    <3>4. req' \in [Reqs -> ReqType]
      BY <3>2, <3>3
    <3>5. \A x \in Reqs : req'[x].kind = req[x].kind /\ req'[x].tok = req[x].tok
      BY <2>1
    <3> QED
      BY <3>4, <3>5
  <2> QED
    BY <1>9, <2>3, <2>5 DEF Mint
<1>10. ASSUME NEW r \in Reqs, CreateRefresh(r) PROVE TypeOK' /\ KindOK'
  <2>1. CodeOf(r) \in Codes \cup {None} /\ now + RefreshLife \in Nat
    BY DEF CodeOf
  <2>2. row' \in [Ids -> RowType]
    BY <1>10, <2>1, <1>i DEF CreateRefresh
  <2>3. req' \in [Reqs -> ReqType] /\ KindOK'
    BY <1>10 DEF CreateRefresh, Writes
  <2> QED
    BY <1>10, <2>2, <2>3 DEF CreateRefresh
<1>11. ASSUME NEW r \in Reqs, CreateAccess(r) PROVE TypeOK' /\ KindOK'
  <2>1. /\ CodeOf(r) \in Codes \cup {None}
        /\ (IF "permanent" \in req[r].scope THEN None ELSE now + AccessLife)
             \in Nat \cup {None}
    BY DEF CodeOf
  <2>2. row' \in [Ids -> RowType]
    BY <1>11, <2>1, <1>i DEF CreateAccess
  <2>3. req' \in [Reqs -> ReqType] /\ KindOK'
    BY <1>11 DEF CreateAccess, Writes
  <2> QED
    BY <1>11, <2>2, <2>3 DEF CreateAccess
<1>12. ASSUME NEW r \in Reqs, RecordConsent(r) PROVE TypeOK' /\ KindOK'
  BY <1>12 DEF RecordConsent, Writes
<1>13. ASSUME NEW r \in Reqs, AnswerToken(r) PROVE TypeOK' /\ KindOK'
  BY <1>13 DEF AnswerToken, Reply, Stages
<1>14. ASSUME NEW r \in Reqs, EnableApp(r) PROVE TypeOK' /\ KindOK'
  BY <1>14 DEF EnableApp, Reply, Goto, Stages
<1>15. ASSUME NEW r \in Reqs, SaveAuthorizationCode(r) PROVE TypeOK' /\ KindOK'
  <2>1. now + CodeLife \in Nat
    OBVIOUS
  <2>2. row' \in [Ids -> RowType]
    BY <1>15, <2>1, <1>i DEF SaveAuthorizationCode
  <2>3. req' \in [Reqs -> ReqType] /\ KindOK' /\ known' \subseteq Ids
    BY <1>15 DEF SaveAuthorizationCode, Fresh, Reply, Stages
  <2> QED
    BY <1>15, <2>2, <2>3 DEF SaveAuthorizationCode
<1>16. ASSUME NEW r \in Reqs, Finish(r) PROVE TypeOK' /\ KindOK'
  BY <1>16 DEF Finish, IdleReq, tables, Stages
<1>17. ASSUME NEW i \in Ids, SaveLands(i) \/ SaveLost(i) PROVE TypeOK' /\ KindOK'
  <2>1. row[i] \in RowType
    OBVIOUS
  <2>2. [row[i] EXCEPT !.valid = FALSE] \in RowType
    BY <2>1
  <2>3. row' \in [Ids -> RowType]
    <3>1. CASE SaveLands(i) /\ Live(i)
      <4>1. row' = [row EXCEPT ![i] = [row[i] EXCEPT !.valid = FALSE]]
        BY <3>1 DEF SaveLands
      <4> QED
        BY <4>1, <2>2
    <3>2. CASE SaveLost(i) \/ ~Live(i)
      BY <1>17, <3>2 DEF SaveLands, SaveLost
    <3> QED
      BY <1>17, <3>1, <3>2
  <2> QED
    BY <1>17, <2>3 DEF SaveLands, SaveLost
<1>18. ASSUME NEW S, Cascade(S) PROVE row' \in [Ids -> RowType]
  BY <1>18, <1>s DEF Cascade
<1>19. ASSUME NEW c \in Clients, DeleteClient(c) PROVE TypeOK' /\ KindOK'
  BY <1>19, <1>18 DEF DeleteClient
<1>20. ASSUME NEW u \in Users, DeleteUser(u) PROVE TypeOK' /\ KindOK'
  BY <1>20, <1>18 DEF DeleteUser
<1>21. ASSUME NEW o \in Iots, DeleteIot(o) PROVE TypeOK' /\ KindOK'
  BY <1>21, <1>18 DEF DeleteIot
<1>22. ASSUME NEW p \in Users \X Clients, WithdrawConsent(p)
       PROVE TypeOK' /\ KindOK'
  BY <1>22 DEF WithdrawConsent
<1>23. ASSUME Tick PROVE TypeOK' /\ KindOK'
  BY <1>23 DEF Tick
<1> QED
  BY <1>a, <1>2, <1>3, <1>4, <1>5, <1>6, <1>7, <1>8, <1>9, <1>10, <1>11, <1>12,
     <1>13, <1>14, <1>15, <1>16, <1>17, <1>19, <1>20, <1>21, <1>22, <1>23
  DEF Next, NewRequest, Handle, Remove

-----------------------------------------------------------------------------
(* How one step may change the rows: it inserts one of them and no time    *)
(* passes, or it does to each row one of the things of Steady.             *)
Issued(i) ==
    /\ row[i].st \in {"free", "minted"} /\ row'[i].st = "live"
    /\ row'[i].valid /\ row'[i].cl \in Clients /\ now' = now
    /\ row'[i].exp = None \/ (row'[i].exp \in Nat /\ row'[i].exp >= now)
Steady(i) ==
    \/ row'[i] = row[i]
    \/ row[i].st = "free" /\ row'[i] = [row[i] EXCEPT !.st = "minted"]
    \/ row[i].st = "live" /\ row'[i] = [row[i] EXCEPT !.valid = FALSE]
    \/ row[i].st = "live" /\ row'[i] = [row[i] EXCEPT !.st = "gone"]
RowsEvolve ==
    \/ (\A i \in Ids : Steady(i)) /\ now' >= now
    \/ \E i \in Ids : Issued(i) /\ \A j \in Ids \ {i} : row'[j] = row[j]

LEMMA RowStep ==
  ASSUME TypeOK, KindOK, MintOK, [Next]_vars
  PROVE  RowsEvolve
<1> USE OAuthAssumption DEF RowsEvolve, Steady
<1>1. now \in Nat /\ row \in [Ids -> RowType] /\ clients \subseteq Clients
  BY DEF TypeOK
<1>2. ASSUME row' = row, now' = now \/ now' = now + 1
      PROVE RowsEvolve
  BY <1>1, <1>2
<1>3. ASSUME NEW i \in Ids, row[i].st \in {"free", "minted"},
             NEW c \in Clients, NEW o, NEW code, NEW t, NEW s, NEW e,
             e = None \/ (e \in Nat /\ e >= now),
             Insert(i, c, o, code, t, s, e), now' = now
      PROVE RowsEvolve
  <2>1. \A j \in Ids \ {i} : row'[j] = row[j]
    BY <1>1, <1>3 DEF Insert
  <2>2. row'[i].st = "live" /\ row'[i].valid /\ row'[i].exp = e
        /\ row'[i].cl = c
    BY <1>1, <1>3 DEF Insert
  <2>3. Issued(i)
    BY <1>3, <2>2 DEF Issued
  <2> QED
    BY <2>1, <2>3
<1>4. ASSUME NEW r \in Reqs, Mint(r)
      PROVE RowsEvolve
  <2>1. PICK T \in SUBSET Ids :
          /\ \A i \in T : row[i].st = "free"
          /\ row' = [i \in Ids |-> IF i \in T
                                   THEN [row[i] EXCEPT !.st = "minted"]
                                   ELSE row[i]]
    <3>1. PICK t, a :
            /\ t \in Fresh(Refreshes) \cup {None}
            /\ a \in Fresh(Accesses) \cup {None}
            /\ row' = [i \in Ids |-> IF i \in {t, a}
                                     THEN [row[i] EXCEPT !.st = "minted"]
                                     ELSE row[i]]
      BY <1>4 DEF Mint
    <3>2. {t, a} \cap Ids \in SUBSET Ids
          /\ \A i \in {t, a} \cap Ids : row[i].st = "free"
      BY <3>1 DEF Fresh
    <3>3. row' = [i \in Ids |-> IF i \in {t, a} \cap Ids
                                THEN [row[i] EXCEPT !.st = "minted"]
                                ELSE row[i]]
      BY <3>1
    <3> QED
      BY <3>2, <3>3
  <2>2. now' = now
    BY <1>4 DEF Mint
  <2> QED
    BY <1>1, <2>1, <2>2
<1>5. ASSUME NEW r \in Reqs, CreateRefresh(r)
      PROVE RowsEvolve
  <2>1. now' = now /\ now + RefreshLife \in Nat /\ now + RefreshLife >= now
    BY <1>1, <1>5 DEF CreateRefresh
  <2>2. req[r].rt \in Ids /\ row[req[r].rt].st = "minted"
    BY <1>5 DEF CreateRefresh, MintOK, Pending, TypeOK, ReqType, Ids
  <2> QED
    BY <1>1, <1>2, <1>3, <1>5, <2>1, <2>2 DEF CreateRefresh, ParentsExist
<1>6. ASSUME NEW r \in Reqs, CreateAccess(r)
      PROVE RowsEvolve
  <2> DEFINE e == IF "permanent" \in req[r].scope THEN None ELSE now + AccessLife
  <2>1. now' = now /\ (e = None \/ (e \in Nat /\ e >= now))
    BY <1>1, <1>6 DEF CreateAccess
  <2>2. req[r].at \in Ids /\ row[req[r].at].st = "minted"
    BY <1>6 DEF CreateAccess, MintOK, Pending, TypeOK, ReqType, Ids
  <2>3. \/ Insert(req[r].at, req[r].cl, req[r].own, CodeOf(r), req[r].rt,
                  req[r].scope, e) /\ req[r].cl \in Clients
        \/ row' = row
    BY <1>1, <1>6 DEF CreateAccess, ParentsExist
  <2> HIDE DEF e
  <2> QED
    BY <1>2, <1>3, <2>1, <2>2, <2>3
<1>7. ASSUME NEW r \in Reqs, SaveAuthorizationCode(r)
      PROVE RowsEvolve
  <2>1. now' = now /\ now + CodeLife \in Nat /\ now + CodeLife >= now
    BY <1>1, <1>7 DEF SaveAuthorizationCode
  <2> QED
    BY <1>1, <1>2, <1>3, <1>7, <2>1 DEF SaveAuthorizationCode, Fresh, Ids
<1>8. ASSUME NEW i \in Ids, SaveLands(i)
      PROVE RowsEvolve
  <2>1. now' = now
    BY <1>8 DEF SaveLands
  <2>2. CASE Live(i)
    <3>1. row' = [row EXCEPT ![i] = [row[i] EXCEPT !.valid = FALSE]]
      BY <1>8, <2>2 DEF SaveLands
    <3>2. \A j \in Ids \ {i} : row'[j] = row[j]
      BY <1>1, <3>1
    <3>3. row'[i] = [row[i] EXCEPT !.valid = FALSE]
      BY <1>1, <3>1
    <3>4. row[i].st = "live"
      BY <2>2 DEF Live
    <3>5. Steady(i) /\ \A j \in Ids \ {i} : Steady(j)
      BY <3>2, <3>3, <3>4
    <3>6. \A j \in Ids : Steady(j)
      <4> HIDE DEF Steady
      <4> QED
        BY <3>5
    <3> QED
      BY <1>1, <2>1, <3>6
  <2>3. CASE ~Live(i)
    BY <1>2, <1>8, <2>1, <2>3 DEF SaveLands
  <2> QED
    BY <2>2, <2>3
<1>9. ASSUME NEW S \in SUBSET Ids, \A i \in S : Live(i), Cascade(S), now' = now
      PROVE RowsEvolve
  <2>1. PICK D \in SUBSET Ids :
          /\ \A i \in D : Live(i)
          /\ row' = [i \in Ids |-> IF i \in D THEN [row[i] EXCEPT !.st = "gone"]
                                   ELSE row[i]]
    <3> DEFINE C == S \cup {i \in Ids : Live(i) /\ row[i].code \in S}
               K == C \cup {i \in Ids : Live(i) /\ row[i].rt \in C}
    <3>1. K \in SUBSET Ids /\ \A i \in K : Live(i)
      BY <1>9
    <3>2. row' = [i \in Ids |-> IF i \in K THEN [row[i] EXCEPT !.st = "gone"]
                                ELSE row[i]]
      BY <1>9, Zenon DEF Cascade
    <3> HIDE DEF K
    <3> QED
      BY <3>1, <3>2
  <2> QED
    BY <1>1, <1>9, <2>1 DEF Live
<1>10. ASSUME Remove PROVE RowsEvolve
  BY <1>2, <1>9, <1>10
  DEF Remove, DeleteClient, DeleteUser, DeleteIot, WithdrawConsent
<1>11. ASSUME NEW r \in Reqs, NewRequest(r) PROVE row' = row /\ now' = now
  BY <1>11 DEF NewRequest, TokenRequest, AuthorizeRequest, BearerRequest,
               RevokeRequest, Arrive, tables
<1>12. ASSUME NEW r \in Reqs, Handle(r), ~Mint(r), ~CreateRefresh(r),
              ~CreateAccess(r), ~SaveAuthorizationCode(r)
       PROVE row' = row /\ now' = now
  BY <1>12 DEF Handle, FindCode, FindRefresh, FindIdentity, FindAccess, Accept,
     CheckConsent, Finish, tables, RevokeAuthorizationCode, RotateRefreshToken,
     ReuseRevokesAccess, ReuseRevokesRefresh, RevokePresented, RevokePaired,
     noSave, RecordConsent, AnswerToken, EnableApp
<1>13. ASSUME (\E i \in Ids : SaveLost(i)) \/ UNCHANGED vars
       PROVE row' = row /\ now' = now
  BY <1>13 DEF SaveLost, vars
<1>14. ASSUME Tick PROVE row' = row /\ now' = now + 1
  BY <1>14 DEF Tick
<1> QED
  BY <1>2, <1>4, <1>5, <1>6, <1>7, <1>8, <1>10, <1>11, <1>12, <1>13, <1>14 DEF Next

(* A string that has stopped working never works again. *)
LEMMA DeadStable ==
  ASSUME TypeOK, KindOK, MintOK, [Next]_vars, NEW i \in Ids, Dead(i)
  PROVE  Dead(i)'
<1>1. RowsEvolve
  BY RowStep
<1>2. row[i] \in RowType /\ row'[i] \in RowType /\ now \in Nat /\ now' \in Nat
  BY TypeStep DEF TypeOK
<1> USE DEF Dead, Usable, Live, Expired, RowType
<1>3. CASE Steady(i) /\ now' >= now
  BY <1>2, <1>3 DEF Steady
<1>4. CASE row'[i] = row[i] /\ now' = now
  BY <1>2, <1>4
<1>5. ~Issued(i)
  BY DEF Issued
<1> QED
  BY <1>1, <1>3, <1>4, <1>5 DEF RowsEvolve, Issued

-----------------------------------------------------------------------------
(* The strings a request is about to insert stay its own and uninserted.   *)
LEMMA MintStep ==
  ASSUME TypeOK, KindOK, MintOK, [Next]_vars
  PROVE  MintOK'
<1> USE OAuthAssumption
<1>0. row \in [Ids -> RowType] /\ req \in [Reqs -> ReqType] /\ TypeOK'
  BY TypeStep DEF TypeOK
<1>1. ASSUME \A r \in Reqs : /\ req'[r].todo \subseteq req[r].todo
                             /\ req'[r].rt = req[r].rt \/ req'[r].todo = {}
                             /\ req'[r].at = req[r].at \/ req'[r].todo = {},
             \A i \in Ids : row[i].st = "minted" => row'[i].st = "minted"
      PROVE MintOK'
  BY <1>0, <1>1 DEF MintOK, Pending, ReqType, Ids
<1>2. ASSUME NEW r \in Reqs, Mint(r) PROVE MintOK'
  <2>1. PICK t \in Fresh(Refreshes) \cup {None}, a \in Fresh(Accesses) \cup {None},
             plan \in SUBSET Writes :
          /\ "refresh" \in plan => t # None
          /\ "access" \in plan => a # None
          /\ row' = [i \in Ids |-> IF i \in {t, a}
                                   THEN [row[i] EXCEPT !.st = "minted"]
                                   ELSE row[i]]
          /\ req' = [req EXCEPT ![r] = [@ EXCEPT !.st = "saving",
                                    !.todo = plan, !.rt = t, !.at = a]]
    <3> DEFINE q == req[r]
               P == (IF Renewable(q) THEN {"refresh"} ELSE {})
                     \cup (IF "jwt" \in q.scope THEN {} ELSE {"access"})
                     \cup (IF q.own \in Users /\ AskAuthorization
                           THEN {"consent"} ELSE {})
    <3>1. P \in SUBSET Writes
      BY DEF Writes
    <3>2. PICK t \in IF "refresh" \in P THEN Fresh(Refreshes) ELSE {None},
               a \in IF "access" \in P THEN Fresh(Accesses) ELSE {None} :
            /\ row' = [i \in Ids |-> IF i \in {t, a}
                                     THEN [row[i] EXCEPT !.st = "minted"]
                                     ELSE row[i]]
            /\ req' = [req EXCEPT ![r] = [@ EXCEPT !.st = "saving",
                                      !.todo = P, !.rt = t, !.at = a]]
      BY <1>2, Zenon DEF Mint
    <3> HIDE DEF P
    <3>3. t \in Fresh(Refreshes) \cup {None} /\ a \in Fresh(Accesses) \cup {None}
      BY <3>2
    <3>4. ("refresh" \in P => t # None) /\ ("access" \in P => a # None)
      BY <3>2 DEF Fresh, Ids
    <3> QED
      BY <3>1, <3>2, <3>3, <3>4
  <2>2. \A i \in Ids : row'[i].st = IF i \in {t, a} THEN "minted" ELSE row[i].st
    BY <1>0, <2>1 DEF RowType
  <2>3. /\ req'[r].todo = plan /\ req'[r].rt = t /\ req'[r].at = a
        /\ \A q \in Reqs \ {r} : req'[q] = req[q]
    BY <1>0, <2>1 DEF ReqType
  <2>4. \A q \in Reqs \ {r} :
           /\ "refresh" \in req[q].todo => req[q].rt # t
           /\ "access" \in req[q].todo => req[q].at # a
    BY <2>1 DEF MintOK, Pending, Fresh
  <2>5. (t # None => t \in Ids) /\ (a # None => a \in Ids)
    BY <2>1 DEF Fresh, Ids
  <2>6. \A q \in Reqs : Pending(q, "refresh", req[q].rt)'
                        /\ Pending(q, "access", req[q].at)'
    <3> SUFFICES ASSUME NEW q \in Reqs
                 PROVE Pending(q, "refresh", req[q].rt)'
                       /\ Pending(q, "access", req[q].at)'
      OBVIOUS
    <3>1. CASE q = r
      BY <2>1, <2>2, <2>3, <2>5, <3>1 DEF Pending
    <3>2. CASE q # r
      <4>1. req'[q] = req[q]
        BY <2>3, <3>2
      <4>2. req[q].rt \in Ids \cup {None} /\ req[q].at \in Ids \cup {None}
        BY <1>0 DEF ReqType, Ids
      <4> QED
        BY <2>2, <4>1, <4>2 DEF MintOK, Pending
    <3> QED
      BY <3>1, <3>2
  <2> QED
    BY <2>3, <2>4, <2>6 DEF MintOK
<1>3. ASSUME NEW r \in Reqs, NEW i \in Ids,
             \A j \in Ids \ {i} : row'[j] = row[j],
             \A q \in Reqs \ {r} : req'[q] = req[q],
             req'[r].todo \subseteq req[r].todo,
             req'[r].rt = req[r].rt, req'[r].at = req[r].at,
             \/ /\ i = req[r].rt /\ "refresh" \in req[r].todo
                /\ "refresh" \notin req'[r].todo
             \/ /\ i = req[r].at /\ "access" \in req[r].todo
                /\ "access" \notin req'[r].todo
      PROVE MintOK'
  <2>1. \A q \in Reqs : /\ req[q].rt \in Refreshes \cup {None}
                        /\ req[q].at \in Accesses \cup {None}
    BY <1>0 DEF ReqType
  <2>2. \A q \in Reqs : /\ "refresh" \in req'[q].todo => req[q].rt # i
                        /\ "access" \in req'[q].todo => req[q].at # i
    BY <1>3, <2>1 DEF MintOK, Pending, Ids
  <2> QED
    BY <1>3, <2>1, <2>2 DEF MintOK, Pending, Ids
<1>4. ASSUME NEW r \in Reqs, CreateRefresh(r) PROVE MintOK'
  <2>1. /\ req[r].rt \in Ids /\ "refresh" \in req[r].todo
        /\ \A j \in Ids \ {req[r].rt} : row'[j] = row[j]
    BY <1>0, <1>4 DEF CreateRefresh, Insert, MintOK, Pending, ReqType, Ids
  <2>2. /\ \A q \in Reqs \ {r} : req'[q] = req[q]
        /\ req'[r].todo \subseteq req[r].todo \ {"refresh"}
        /\ req'[r].rt = req[r].rt /\ req'[r].at = req[r].at
    BY <1>0, <1>4 DEF CreateRefresh, ReqType
  <2> QED
    BY <1>3, <2>1, <2>2
<1>5. ASSUME NEW r \in Reqs, CreateAccess(r) PROVE MintOK'
  <2>1. /\ req[r].at \in Ids /\ "access" \in req[r].todo
        /\ \A j \in Ids \ {req[r].at} : row'[j] = row[j]
    BY <1>0, <1>5 DEF CreateAccess, Insert, MintOK, Pending, ReqType, Ids
  <2>2. /\ \A q \in Reqs \ {r} : req'[q] = req[q]
        /\ req'[r].todo \subseteq req[r].todo \ {"access"}
        /\ req'[r].rt = req[r].rt /\ req'[r].at = req[r].at
    BY <1>0, <1>5 DEF CreateAccess, ReqType
  <2> QED
    BY <1>3, <2>1, <2>2
<1>6. ASSUME NEW r \in Reqs, SaveAuthorizationCode(r) PROVE MintOK'
  <2>1. \A i \in Ids : row[i].st = "minted" => row'[i] = row[i]
    BY <1>0, <1>6 DEF SaveAuthorizationCode, Insert, Fresh, Ids
  <2>2. \A q \in Reqs : /\ req'[q].todo = req[q].todo
                        /\ req'[q].rt = req[q].rt /\ req'[q].at = req[q].at
    BY <1>0, <1>6 DEF SaveAuthorizationCode, Reply, ReqType
  <2> QED
    BY <1>1, <2>1, <2>2
<1>7. ASSUME NEW r \in Reqs, Handle(r), ~Mint(r), ~CreateRefresh(r),
             ~CreateAccess(r), ~SaveAuthorizationCode(r)
      PROVE MintOK'
  <2>1. row' = row
    BY <1>7 DEF Handle, FindCode, FindRefresh, FindIdentity, FindAccess, Accept,
       CheckConsent, Finish, tables, RevokeAuthorizationCode, RotateRefreshToken,
       ReuseRevokesAccess, ReuseRevokesRefresh, RevokePresented, RevokePaired,
       noSave, RecordConsent, AnswerToken, EnableApp
  <2>2. \A q \in Reqs \ {r} : req'[q] = req[q]
    BY <1>0, <1>7 DEF Handle, FindCode, FindRefresh, FindIdentity, FindAccess,
       Accept, CheckConsent, Finish, RevokeAuthorizationCode, RotateRefreshToken,
       ReuseRevokesAccess, ReuseRevokesRefresh, RevokePresented, RevokePaired,
       RecordConsent, AnswerToken, EnableApp, Reply, Goto
  <2>3. \/ req'[r] = IdleReq
        \/ /\ req'[r].todo \subseteq req[r].todo
           /\ req'[r].rt = req[r].rt /\ req'[r].at = req[r].at
    BY <1>0, <1>7 DEF Handle, FindCode, FindRefresh, FindIdentity, FindAccess,
       Accept, CheckConsent, Finish, RevokeAuthorizationCode, RotateRefreshToken,
       ReuseRevokesAccess, ReuseRevokesRefresh, RevokePresented, RevokePaired,
       RecordConsent, AnswerToken, EnableApp, Reply, Goto, ReqType
  <2> QED
    BY <1>1, <2>1, <2>2, <2>3 DEF IdleReq
<1>8. ASSUME NEW r \in Reqs, NewRequest(r) PROVE MintOK'
  <2>1. row' = row /\ \E v : v.todo = {} /\ req' = [req EXCEPT ![r] = v]
    BY <1>8 DEF NewRequest, TokenRequest, AuthorizeRequest, BearerRequest,
                RevokeRequest, Arrive, tables
  <2> QED
    BY <1>0, <1>1, <2>1
<1>9. ASSUME req' = req, [Next]_vars,
             \A i \in Ids : row[i].st = "minted" => row'[i].st = "minted"
      PROVE MintOK'
  BY <1>1, <1>9
<1>10. ASSUME NEW i \in Ids, SaveLands(i) \/ SaveLost(i) PROVE MintOK'
  BY <1>0, <1>9, <1>10 DEF SaveLands, SaveLost, Live, RowType
<1>11. ASSUME NEW S, \A i \in S : Live(i), Cascade(S), req' = req PROVE MintOK'
  BY <1>0, <1>9, <1>11 DEF Cascade, Live, RowType
<1>12. ASSUME Remove PROVE MintOK'
  BY <1>1, <1>11, <1>12 DEF Remove, DeleteClient, DeleteUser, DeleteIot,
                            WithdrawConsent
<1>13. ASSUME Tick \/ UNCHANGED vars PROVE MintOK'
  BY <1>1, <1>13 DEF Tick, vars
<1> QED
  BY <1>2, <1>4, <1>5, <1>6, <1>7, <1>8, <1>10, <1>12, <1>13 DEF Next

-----------------------------------------------------------------------------
(* A request that came late gets nothing.                                  *)

Refused(r) == \/ req[r].st \in {"find", "reuse", "reuse2"}
              \/ req[r].st = "answered" /\ req[r].ans = "error"
Judged == {"code", "refresh", "bearer"}

LEMMA LateStep == IInv /\ [Next]_vars => LateOK'
<1> SUFFICES ASSUME IInv, [Next]_vars, NEW q \in Reqs,
                    req'[q].late, req'[q].kind \in Judged
             PROVE  Dead(req[q].tok)' /\ Refused(q)'
  BY DEF LateOK, Refused, Judged, Dead, Usable, Live, Expired
<1> USE OAuthAssumption
<1>0. /\ TypeOK /\ KindOK /\ MintOK /\ TypeOK'
      /\ req \in [Reqs -> ReqType] /\ row \in [Ids -> RowType]
  BY TypeStep DEF IInv, TypeOK
<1>1. \A i \in Ids : Dead(i) => Dead(i)'
  BY <1>0, DeadStable
<1>2. ASSUME req'[q].late = req[q].late, req'[q].kind = req[q].kind,
             req'[q].tok = req[q].tok
      PROVE  Dead(req[q].tok)' /\ Dead(req[q].tok) /\ Refused(q)
  <2>1. req[q].tok \in Ids
    BY <1>0, <1>2 DEF KindOK, Judged, Ids
  <2>2. Dead(req[q].tok) /\ Refused(q)
    BY <1>2 DEF IInv, LateOK, Refused, Judged
  <2> QED
    BY <1>1, <1>2, <2>1, <2>2 DEF Dead, Usable, Live, Expired
<1>3. ASSUME req' = req PROVE Dead(req[q].tok)' /\ Refused(q)'
  BY <1>2, <1>3 DEF Refused
<1>4. ASSUME NEW r \in Reqs, r # q, \A x \in Reqs \ {r} : req'[x] = req[x]
      PROVE  Dead(req[q].tok)' /\ Refused(q)'
  BY <1>2, <1>4 DEF Refused
<1>5. ASSUME NEW r \in Reqs, NewRequest(r)
      PROVE  Dead(req[q].tok)' /\ Refused(q)'
  <2>1. PICK k, c, u, t, s, stage :
           /\ Arrive(r, k, c, u, t, s, stage)
           /\ t = None \/ t \in Ids
           /\ k \in Judged => stage = "find"
    BY <1>5 DEF NewRequest, TokenRequest, AuthorizeRequest, BearerRequest,
                RevokeRequest, Judged, Ids
  <2>2. /\ \A x \in Reqs \ {r} : req'[x] = req[x]
        /\ req'[r].kind = k /\ req'[r].st = stage /\ req'[r].tok = t
        /\ req'[r].late = IF t = None THEN FALSE ELSE Dead(t)
    BY <1>0, <2>1 DEF Arrive
  <2>3. CASE q = r
    <3>1. t \in Ids /\ Dead(t)
      BY <2>1, <2>2, <2>3
    <3> QED
      BY <1>1, <2>1, <2>2, <2>3, <3>1 DEF Refused, Dead, Usable, Live, Expired
  <2> QED
    BY <1>4, <2>2, <2>3
<1>6. ASSUME NEW r \in Reqs, Handle(r)
      PROVE  Dead(req[q].tok)' /\ Refused(q)'
  <2>1. \A x \in Reqs \ {r} : req'[x] = req[x]
    BY <1>0, <1>6 DEF Handle, FindCode, FindRefresh, FindIdentity, FindAccess,
       Accept, CheckConsent, Finish, RevokeAuthorizationCode, RotateRefreshToken,
       ReuseRevokesAccess, ReuseRevokesRefresh, RevokePresented, RevokePaired,
       Mint, CreateRefresh, CreateAccess, RecordConsent, AnswerToken, EnableApp,
       SaveAuthorizationCode, Reply, Goto
  <2>2. CASE q = r
    <3> DEFINE Same == /\ req'[r].late = req[r].late /\ req'[r].kind = req[r].kind
                       /\ req'[r].tok = req[r].tok
    <3>1. Finish(r) \/ Same
      <4>1. req[r] \in ReqType
        BY <1>0
      <4>2. CASE FindCode(r) \/ FindRefresh(r) \/ FindIdentity(r)
                   \/ FindAccess(r) \/ Accept(r) \/ CheckConsent(r)
        BY <1>0, <4>1, <4>2 DEF FindCode, FindRefresh, FindIdentity, FindAccess,
           Accept, CheckConsent, Reply, Goto, ReqType
      <4>3. CASE RevokeAuthorizationCode(r) \/ RotateRefreshToken(r)
                   \/ ReuseRevokesAccess(r) \/ ReuseRevokesRefresh(r)
                   \/ RevokePresented(r) \/ RevokePaired(r)
        BY <1>0, <4>1, <4>3 DEF RevokeAuthorizationCode, RotateRefreshToken,
           ReuseRevokesAccess, ReuseRevokesRefresh, RevokePresented,
           RevokePaired, Reply, Goto, ReqType
      <4>4. CASE Mint(r)
        <5>1. PICK p, t, a :
                 req' = [req EXCEPT ![r] = [@ EXCEPT !.st = "saving",
                            !.todo = p, !.rt = t, !.at = a]]
          BY <4>4, Zenon DEF Mint
        <5> QED
          BY <1>0, <4>1, <5>1 DEF ReqType
      <4>5. CASE CreateRefresh(r) \/ CreateAccess(r) \/ RecordConsent(r)
                   \/ AnswerToken(r) \/ EnableApp(r) \/ SaveAuthorizationCode(r)
        BY <1>0, <4>1, <4>5 DEF CreateRefresh, CreateAccess, RecordConsent,
           AnswerToken, EnableApp, SaveAuthorizationCode, Reply, Goto, ReqType
      <4> QED
        BY <1>6, <4>2, <4>3, <4>4, <4>5 DEF Handle
    <3>2. ~Finish(r)
      BY <1>0, <2>2 DEF Finish, IdleReq, ReqType
    <3>3. Dead(req[q].tok)' /\ Dead(req[q].tok) /\ Refused(q)
      BY <1>2, <2>2, <3>1, <3>2
    <3>4. ~Usable(req[q].tok) /\ (Live(req[q].tok) => ~row[req[q].tok].valid
                                                      \/ Expired(req[q].tok))
      BY <3>3, <1>0 DEF Dead, Usable, Live, RowType
    <3>5. Refused(q)'
      <4>1. /\ req[r] \in ReqType /\ req[r].kind \in Judged
            /\ \/ req[r].st \in {"find", "reuse", "reuse2"}
               \/ req[r].st = "answered" /\ req[r].ans = "error"
        BY <1>0, <2>2, <3>1, <3>2, <3>3 DEF Refused
      <4>2. CASE FindCode(r)
        BY <1>0, <2>2, <3>4, <4>1, <4>2 DEF FindCode, Reply, Goto, Refused, Live, ReqType
      <4>3. CASE FindRefresh(r) \/ FindAccess(r)
        BY <1>0, <2>2, <3>4, <4>1, <4>3 DEF FindRefresh, FindAccess, Reply, Refused, ReqType
      <4>4. CASE ReuseRevokesAccess(r) \/ ReuseRevokesRefresh(r)
        BY <1>0, <2>2, <4>1, <4>4 DEF ReuseRevokesAccess, ReuseRevokesRefresh,
           Reply, Goto, Refused, ReqType
      <4>5. CASE CreateRefresh(r) \/ CreateAccess(r) \/ RecordConsent(r)
        BY <1>0, <2>2, <4>1, <4>5 DEF CreateRefresh, CreateAccess, RecordConsent,
           Refused, ReqType
      <4>6. \/ FindCode(r) \/ FindRefresh(r) \/ FindAccess(r)
            \/ ReuseRevokesAccess(r) \/ ReuseRevokesRefresh(r)
            \/ CreateRefresh(r) \/ CreateAccess(r) \/ RecordConsent(r)
        BY <1>6, <3>2, <4>1 DEF Handle, FindIdentity, Accept, CheckConsent,
           RevokeAuthorizationCode, RotateRefreshToken, RevokePresented,
           RevokePaired, Mint, AnswerToken, EnableApp, SaveAuthorizationCode,
           At, Judged
      <4> QED
        BY <4>2, <4>3, <4>4, <4>5, <4>6
    <3> QED
      BY <3>3, <3>5
  <2> QED
    BY <1>4, <2>1, <2>2
<1>7. ASSUME (\E i \in Ids : SaveLands(i) \/ SaveLost(i)) \/ Remove \/ Tick
                \/ UNCHANGED vars
      PROVE  req' = req
  BY <1>7 DEF SaveLands, SaveLost, Remove, DeleteClient, DeleteUser, DeleteIot,
              WithdrawConsent, Tick, vars
<1> QED
  BY <1>3, <1>5, <1>6, <1>7 DEF Next

LEMMA IInvStep == IInv /\ [Next]_vars => IInv'
  BY TypeStep, MintStep, LateStep DEF IInv

LEMMA Inductive == Spec => []IInv
<1>1. Init => IInv
  BY InitIInv
<1>2. IInv /\ [Next]_vars => IInv'
  BY IInvStep
<1> QED
  BY <1>1, <1>2, PTL DEF Spec

(* Every value has its type in every reachable state, whatever the number  *)
(* of clients, identities, strings and requests.                           *)
THEOREM TypeCorrect == Spec => []TypeOK
<1>1. IInv => TypeOK
  BY DEF IInv
<1> QED
  BY <1>1, Inductive, PTL

(* No request ever gets a token, a renewal or user data for a code or a    *)
(* token that was dead when the request arrived (getAuthorizationCode,     *)
(* getRefreshToken, getAccessToken and the stages after them), however     *)
(* many requests, un-awaited saves, deletions and ticks interleave.        *)
THEOREM NoGrantFromTheDead == Spec => []NothingFromTheDead
<1>1. IInv => NothingFromTheDead
  BY DEF IInv, LateOK, NothingFromTheDead
<1> QED
  BY <1>1, Inductive, PTL

-----------------------------------------------------------------------------
(* Refinement of TokenLife. *)

phases == [i \in Ids |-> Phase(i)]
holders == [i \in Ids |-> <<row[i].cl, row[i].own>>]

LEMMA LifeInit == Init => Life!Init
  BY DEF Init, Life!Init, Phase, Dead, Usable, Live, BlankRow

LEMMA LifeStep == IInv /\ [Next]_vars => [Life!Next]_<<phases, holders>>
<1> SUFFICES ASSUME IInv, [Next]_vars PROVE Life!Next
  OBVIOUS
<1>1. TypeOK /\ TypeOK' /\ RowsEvolve
  BY RowStep, TypeStep DEF IInv
<1>2. /\ row \in [Ids -> RowType] /\ row' \in [Ids -> RowType]
      /\ now \in Nat /\ now' \in Nat
  BY <1>1 DEF TypeOK
<1>3. \A i \in Ids : Dead(i) => Dead(i)'
  BY DeadStable DEF IInv
<1> DEFINE H == (Clients \X Owners) \cup {<<None, None>>}
<1>4. ASSUME NEW i \in Ids, Issued(i), \A j \in Ids \ {i} : row'[j] = row[j]
      PROVE  \E h \in H : Life!Issue(i, h)
  <2>1. Phase(i) = "unborn" /\ Phase(i)' = "usable"
    BY <1>2, <1>4 DEF Issued, Phase, Dead, Usable, Live, Expired, RowType
  <2>2. \A j \in Ids \ {i} : Phase(j)' = Phase(j)
    BY <1>4 DEF Issued, Phase, Dead, Usable, Live, Expired
  <2> DEFINE h == <<row'[i].cl, row'[i].own>>
  <2>3. h \in H
    BY <1>2, <1>4 DEF Issued, RowType
  <2>4. phases' = [phases EXCEPT ![i] = "usable"]
    BY <2>1, <2>2 DEF phases
  <2>5. holders' = [holders EXCEPT ![i] = h]
    BY <1>4 DEF holders
  <2> QED
    BY <2>1, <2>3, <2>4, <2>5 DEF Life!Issue, phases, holders
<1>5. ASSUME \A i \in Ids : Steady(i), now' >= now
      PROVE  \E S \in SUBSET Ids : Life!Retire(S)
  <2> DEFINE S == {i \in Ids : Phase(i) = "usable" /\ Phase(i)' = "dead"}
  <2>1. \A i \in Ids : row'[i].cl = row[i].cl /\ row'[i].own = row[i].own
    BY <1>2, <1>5 DEF Steady, RowType
  <2>2. holders' = holders
    BY <2>1 DEF holders
  <2>3. \A i \in Ids : Phase(i)' = IF i \in S THEN "dead" ELSE Phase(i)
    BY <1>2, <1>5 DEF Steady, Phase, Dead, Usable, Live, Expired, RowType
  <2> QED
    BY <2>2, <2>3 DEF Life!Retire, phases, holders
<1> QED
  BY <1>1, <1>4, <1>5 DEF RowsEvolve, Life!Next

(* The three token tables implement TokenLife: every string is issued at   *)
(* most once, to one client and one identity, and never works again after  *)
(* it was spent, revoked, expired or deleted.                              *)
THEOREM Implements == Spec => TokensLive
<1>1. Init => Life!Init
  BY LifeInit
<1>2. IInv /\ [Next]_vars => [Life!Next]_<<phases, holders>>
  BY LifeStep
<1> QED
  BY <1>1, <1>2, Inductive, PTL DEF Spec, TokensLive, Life!Spec, phases, holders
-----------------------------------------------------------------------------
(***************************************************************************)
(* What the tables say of the requests that filled them.  TInv adds to     *)
(* IInv how far a request is (PathOK), whose the strings are that were     *)
(* minted for it (HeldOK), that what it found is still what it found       *)
(* (CodeOK, HitOK), and what has been written when (StoredOK, PairOK,      *)
(* ConsentOK).                                                             *)
(***************************************************************************)

\* The strings minted for the answer of a request.
Held(q) == {q.at, q.rt} \ {None}
Stored(i) == row[i].st \in {"live", "gone"}

Path(q) ==
    /\ q.at # None \/ q.rt # None \/ q.todo # {} => q.st \in {"saving", "answered"}
    /\ q.ans = "ok" => q.st = "answered" /\ "consent" \notin q.todo
    /\ q.st = "answered" => q.ans # "none" /\ "access" \notin q.todo
    /\ "refresh" \in q.todo /\ q.at # None => "access" \in q.todo
    /\ q.kind = "revoke" =>
         /\ q.st \in {"find", "paired", "answered"}
         /\ q.at = None /\ q.rt = None /\ q.todo = {}
    /\ q.hit => q.kind = "revoke" /\ q.st \in {"paired", "answered"}
    /\ q.st \in {"consent", "enable"} => q.kind \in {"authorize", "implicit"}

\* A request goes through its stages in order, and holds strings at the end.
PathOK == \A r \in Reqs :
    Path(req[r]) /\ (req[r].kind = "revoke" => req[r].tok \in known)

\* A string is minted for one request, is stored as that request says, and is
\* told to a client by its answer only.
HeldOK ==
    /\ \A i \in known : row[i].st # "free"
    /\ \A r \in Reqs : \A i \in Held(req[r]) :
         /\ row[i].st # "free"
         /\ Stored(i) => /\ row[i].cl = req[r].cl /\ row[i].own = req[r].own
                         /\ row[i].code = CodeOf(r)
         /\ i \in known => req[r].ans = "ok"
    /\ \A r, q \in Reqs : r # q => Held(req[r]) \cap Held(req[q]) = {}

\* A code that is exchanged is one of the client, and of the user it is for.
CodeOK == \A r \in Reqs :
    req[r].kind = "code" /\ (req[r].st \in {"revoke", "store"}
                               \/ Held(req[r]) # {} \/ req[r].todo # {}) =>
       /\ Stored(req[r].tok)
       /\ row[req[r].tok].cl = req[r].cl /\ row[req[r].tok].own = req[r].own

\* Once the access token is written without an error, so is all of the answer.
StoredOK == \A r \in Reqs :
    req[r].at # None /\ "access" \notin req[r].todo /\ req[r].ans # "error" =>
       \A i \in Held(req[r]) : Stored(i)

\* Codes come from no code, and only access tokens from a refresh token.
ShapeOK == \A i \in Ids : Live(i) =>
    /\ i \in Codes => row[i].code = None
    /\ i \notin Accesses => row[i].rt = None

\* An access token that is still to be written is the first of its refresh token.
PairOK == \A r \in Reqs : "access" \in req[r].todo /\ req[r].rt # None =>
    \A i \in Ids : Live(i) => row[i].rt # req[r].rt

\* A revocation that found its token has sent the write.
HitOK == \A r \in Reqs : req[r].hit =>
    /\ Stored(req[r].tok) /\ row[req[r].tok].cl = req[r].cl
    /\ ~DbFails /\ Live(req[r].tok) /\ row[req[r].tok].valid => req[r].tok \in saves

\* Whoever gets this far has the consent, if its user and client still exist.
Agreed(u, c) == <<u, c>> \in consents \/ u \notin users \/ c \notin clients
ConsentOK == AskAuthorization /\ "consent" \notin Removals =>
    \A r \in Reqs : req[r].own \in Users =>
       /\ req[r].kind \in {"authorize", "implicit"} /\ req[r].st = "store"
            => Agreed(req[r].own, req[r].cl)
       /\ Held(req[r]) # {} /\ "consent" \notin req[r].todo /\ req[r].ans # "error"
            => Agreed(req[r].own, req[r].cl)

TInv ==
    /\ IInv /\ PathOK /\ HeldOK /\ CodeOK /\ StoredOK /\ ShapeOK /\ PairOK
    /\ OwnersAgree /\ OneAccessPerRefresh /\ HitOK /\ RevocationCovers
    /\ ConsentOK /\ TokensConsented

LEMMA InitTInv == Init => TInv
<1> SUFFICES ASSUME Init PROVE TInv
  OBVIOUS
<1>1. IInv
  BY InitIInv
<1>2. \A r \in Reqs : req[r] = IdleReq
  BY DEF Init
<1>3. \A i \in Ids : row[i] = BlankRow
  BY DEF Init
<1>4. PathOK /\ CodeOK /\ StoredOK /\ PairOK /\ HitOK /\ ConsentOK /\ RevocationCovers
  BY <1>2 DEF PathOK, Path, CodeOK, StoredOK, PairOK, HitOK, ConsentOK, IdleReq,
              RevocationCovers, Held
<1>5. HeldOK
  BY <1>2 DEF HeldOK, Held, IdleReq, Init
<1>6. \A i \in Ids : ~Live(i)
  BY <1>3 DEF BlankRow, Live
<1>7. ShapeOK /\ OwnersAgree /\ OneAccessPerRefresh /\ TokensConsented
  BY <1>6 DEF ShapeOK, OwnersAgree, OneAccessPerRefresh, TokensConsented, Init, Ids
<1> QED
  BY <1>1, <1>4, <1>5, <1>7 DEF TInv

-----------------------------------------------------------------------------
(* How a step changes the requests: at most one of them. *)

LEMMA OthersRest ==
  ASSUME req \in [Reqs -> ReqType], NEW r \in Reqs, NewRequest(r) \/ Handle(r)
  PROVE  \A q \in Reqs \ {r} : req'[q] = req[q]
<1>1. CASE NewRequest(r)
  BY <1>1 DEF NewRequest, TokenRequest, AuthorizeRequest, BearerRequest,
              RevokeRequest, Arrive
<1>2. CASE Handle(r)
  BY <1>2 DEF Handle, FindCode, FindRefresh, FindIdentity, FindAccess, Accept,
     CheckConsent, Finish, RevokeAuthorizationCode, RotateRefreshToken,
     ReuseRevokesAccess, ReuseRevokesRefresh, RevokePresented, RevokePaired,
     Mint, CreateRefresh, CreateAccess, RecordConsent, AnswerToken, EnableApp,
     SaveAuthorizationCode, Reply, Goto
<1> QED
  BY <1>1, <1>2

LEMMA NoMover ==
  ASSUME [Next]_vars, \A r \in Reqs : ~NewRequest(r) /\ ~Handle(r)
  PROVE  req' = req
  BY DEF Next, SaveLands, SaveLost, Remove, DeleteClient, DeleteUser, DeleteIot,
         WithdrawConsent, Tick, vars

(* What a step of a request leaves as it was, and which fields it sets. *)
Same(x, y) == y.kind = x.kind /\ y.cl = x.cl /\ y.tok = x.tok
Kept(x, y) == /\ Same(x, y) /\ y.at = x.at /\ y.rt = x.rt
              /\ y.todo = x.todo /\ y.hit = x.hit

LEMMA Reading ==
  ASSUME req \in [Reqs -> ReqType], NEW r \in Reqs,
         FindRefresh(r) \/ FindIdentity(r) \/ FindAccess(r) \/ Accept(r)
           \/ CheckConsent(r) \/ RevokeAuthorizationCode(r)
           \/ RotateRefreshToken(r) \/ ReuseRevokesAccess(r)
           \/ ReuseRevokesRefresh(r) \/ EnableApp(r) \/ SaveAuthorizationCode(r)
           \/ RevokePaired(r) \/ AnswerToken(r) \/ FindCode(r)
  PROVE  /\ Kept(req[r], req'[r])
         /\ \/ req'[r].ans = req[r].ans
            \/ req'[r].ans # "none" /\ req'[r].st = "answered"
         /\ \/ req'[r].own = req[r].own
            \/ req[r].kind \in {"code", "refresh"} /\ req'[r].st = "revoke"
         /\ \/ req'[r].st \in {"revoke", "reuse", "reuse2", "store", "accept"}
            \/ req'[r].st = "answered" /\ req'[r].ans \in {"ok", "error"}
<1>1. req[r] \in ReqType
  OBVIOUS
<1>2. CASE FindRefresh(r) \/ FindIdentity(r) \/ FindAccess(r) \/ Accept(r)
           \/ CheckConsent(r)
  BY <1>1, <1>2 DEF FindRefresh, FindIdentity, FindAccess, Accept, CheckConsent,
     At, Reply, Goto, Kept, Same, ReqType
<1>3. CASE RevokeAuthorizationCode(r) \/ RotateRefreshToken(r)
             \/ ReuseRevokesAccess(r) \/ ReuseRevokesRefresh(r) \/ RevokePaired(r)
  BY <1>1, <1>3 DEF RevokeAuthorizationCode, RotateRefreshToken,
     ReuseRevokesAccess, ReuseRevokesRefresh, RevokePaired, At, Reply, Goto,
     Kept, Same, ReqType
<1>4. CASE EnableApp(r) \/ SaveAuthorizationCode(r) \/ AnswerToken(r)
  BY <1>1, <1>4 DEF EnableApp, SaveAuthorizationCode, AnswerToken, At, Reply,
     Goto, Kept, Same, ReqType
<1>5. CASE FindCode(r)
  BY <1>1, <1>5 DEF FindCode, At, Reply, Goto, Kept, Same, ReqType
<1> QED
  BY <1>2, <1>3, <1>4, <1>5

\* A request as it reaches its handler.
Arrived(y) ==
    /\ y.at = None /\ y.rt = None /\ y.todo = {} /\ y.ans = "none" /\ ~y.hit
    /\ y.st \in {"find", "store", "consent", "enable"}
    /\ y.kind \in {"code", "refresh", "password", "bearer", "revoke"} => y.st = "find"
    /\ y.st \in {"consent", "enable"} => y.kind \in {"authorize", "implicit"}
    /\ y.kind \in {"authorize", "implicit"} /\ y.st = "store" => ~AskAuthorization
    /\ y.kind = "revoke" => y.tok \in known

LEMMA Arriving ==
  ASSUME req \in [Reqs -> ReqType], NEW r \in Reqs, NewRequest(r)
  PROVE  Arrived(req'[r]) /\ req[r].st = "idle" /\ UNCHANGED tables
<1>1. PICK k, c, u, t, s, stage :
        /\ Arrive(r, k, c, u, t, s, stage)
        /\ stage \in {"find", "store", "consent", "enable"}
        /\ k \in {"code", "refresh", "password", "bearer", "revoke"} => stage = "find"
        /\ stage \in {"consent", "enable"} => k \in {"authorize", "implicit"}
        /\ k \in {"authorize", "implicit"} /\ stage = "store" => ~AskAuthorization
        /\ k = "revoke" => t \in known
  <2>1. CASE AuthorizeRequest(r)
    <3>1. PICK c \in Clients, u \in Users, k \in {"authorize", "implicit"},
               s \in AskedScopes, page \in {"consent", "enable"} :
               Arrive(r, k, c, u, None, s, IF AskAuthorization THEN page ELSE "store")
      BY <2>1, Zenon DEF AuthorizeRequest
    <3> DEFINE stage == IF AskAuthorization THEN page ELSE "store"
    <3>2. /\ stage \in {"store", "consent", "enable"}
          /\ stage = "store" => ~AskAuthorization
      OBVIOUS
    <3>3. Arrive(r, k, c, u, None, s, stage)
      BY <3>1
    <3> HIDE DEF stage
    <3> QED
      BY <3>2, <3>3
  <2>2. CASE TokenRequest(r) \/ BearerRequest(r) \/ RevokeRequest(r)
    BY <2>2 DEF TokenRequest, BearerRequest, RevokeRequest
  <2> QED
    BY <2>1, <2>2 DEF NewRequest
<1>2. /\ req'[r].at = None /\ req'[r].rt = None /\ req'[r].todo = {}
      /\ req'[r].ans = "none" /\ req'[r].hit = FALSE /\ req'[r].st = stage
      /\ req'[r].kind = k /\ req'[r].tok = t
  BY <1>1 DEF Arrive
<1> QED
  BY <1>1, <1>2 DEF Arrive, Arrived

\* The strings an answer is given, and the writes that will store them.
Plans(x, t, a, p) ==
    /\ p \subseteq Writes
    /\ t \in IF "refresh" \in p THEN Fresh(Refreshes) ELSE {None}
    /\ a \in IF "access" \in p THEN Fresh(Accesses) ELSE {None}
    /\ "refresh" \in p => x.kind \in {"code", "refresh", "password"}
    /\ "consent" \in p <=> x.own \in Users /\ AskAuthorization
    /\ row' = [i \in Ids |-> IF i \in {t, a} THEN [row[i] EXCEPT !.st = "minted"]
                              ELSE row[i]]

LEMMA Minting ==
  ASSUME req \in [Reqs -> ReqType], NEW r \in Reqs, Mint(r)
  PROVE  \E t, a, p :
           /\ Plans(req[r], t, a, p)
           /\ req[r].st = "store" /\ req[r].kind # "authorize"
           /\ Same(req[r], req'[r]) /\ req'[r].own = req[r].own
           /\ req'[r].ans = req[r].ans /\ req'[r].hit = req[r].hit
           /\ req'[r].st = "saving"
           /\ req'[r].todo = p /\ req'[r].rt = t /\ req'[r].at = a
<1> DEFINE q == req[r]
           P == (IF Renewable(q) THEN {"refresh"} ELSE {})
                  \cup (IF "jwt" \in q.scope THEN {} ELSE {"access"})
                  \cup (IF q.own \in Users /\ AskAuthorization
                        THEN {"consent"} ELSE {})
<1>1. /\ P \subseteq Writes
      /\ "consent" \in P <=> q.own \in Users /\ AskAuthorization
      /\ "refresh" \in P => q.kind \in {"code", "refresh", "password"}
  BY DEF Writes, Renewable
<1>2. PICK t \in IF "refresh" \in P THEN Fresh(Refreshes) ELSE {None},
           a \in IF "access" \in P THEN Fresh(Accesses) ELSE {None} :
        /\ row' = [i \in Ids |-> IF i \in {t, a} THEN [row[i] EXCEPT !.st = "minted"]
                                 ELSE row[i]]
        /\ req' = [req EXCEPT ![r] = [@ EXCEPT !.st = "saving",
                                  !.todo = P, !.rt = t, !.at = a]]
  BY Zenon DEF Mint
<1> HIDE DEF P
<1>3. Plans(req[r], t, a, P)
  BY <1>1, <1>2 DEF Plans
<1>4. q \in ReqType
  OBVIOUS
<1>5. /\ Same(req[r], req'[r]) /\ req'[r].own = req[r].own
      /\ req'[r].ans = req[r].ans /\ req'[r].hit = req[r].hit
      /\ req'[r].st = "saving"
      /\ req'[r].todo = P /\ req'[r].rt = t /\ req'[r].at = a
  BY <1>2, <1>4 DEF Same, ReqType
<1> QED
  BY <1>3, <1>5 DEF Mint

\* A write of storeToken, done or failed.
Wrote(x, y) == /\ Same(x, y) /\ y.own = x.own /\ y.at = x.at /\ y.rt = x.rt
               /\ y.hit = x.hit /\ y.st = x.st

LEMMA Writing ==
  ASSUME req \in [Reqs -> ReqType], NEW r \in Reqs,
         CreateRefresh(r) \/ CreateAccess(r) \/ RecordConsent(r)
  PROVE  /\ Wrote(req[r], req'[r])
         /\ CreateRefresh(r) =>
              \/ /\ ParentsExist(req[r].cl, req[r].own, CodeOf(r), None)
                 /\ Insert(req[r].rt, req[r].cl, req[r].own, CodeOf(r), None,
                           req[r].scope, now + RefreshLife)
                 /\ req'[r].todo = req[r].todo \ {"refresh"}
                 /\ req'[r].ans = req[r].ans
              \/ /\ req'[r].todo = req[r].todo \ {"refresh", "access"}
                 /\ req'[r].ans = IF "access" \in req[r].todo THEN "error"
                                  ELSE req[r].ans
                 /\ row' = row
         /\ CreateAccess(r) =>
              \/ /\ ParentsExist(req[r].cl, req[r].own, CodeOf(r), req[r].rt)
                 /\ \E e : Insert(req[r].at, req[r].cl, req[r].own, CodeOf(r),
                                  req[r].rt, req[r].scope, e)
                 /\ req'[r].todo = req[r].todo \ {"access"}
                 /\ req'[r].ans = req[r].ans
              \/ /\ req'[r].todo = req[r].todo \ {"access"}
                 /\ req'[r].ans = "error"
                 /\ row' = row
         /\ RecordConsent(r) =>
              /\ req'[r].todo = req[r].todo \ {"consent"}
              /\ row' = row
              /\ \/ /\ req[r].own \in users /\ req[r].cl \in clients
                    /\ consents' = consents \cup {<<req[r].own, req[r].cl>>}
                    /\ req'[r].ans = req[r].ans
                 \/ /\ consents' = consents
                    /\ req'[r].ans = IF req[r].st = "saving" THEN "error"
                                     ELSE req[r].ans
<1>1. req[r] \in ReqType
  OBVIOUS
<1>2. Wrote(req[r], req'[r])
  BY <1>1 DEF CreateRefresh, CreateAccess, RecordConsent, Wrote, Same, ReqType
<1>3. CreateRefresh(r) =>
        \/ /\ ParentsExist(req[r].cl, req[r].own, CodeOf(r), None)
           /\ Insert(req[r].rt, req[r].cl, req[r].own, CodeOf(r), None,
                     req[r].scope, now + RefreshLife)
           /\ req'[r].todo = req[r].todo \ {"refresh"}
           /\ req'[r].ans = req[r].ans
        \/ /\ req'[r].todo = req[r].todo \ {"refresh", "access"}
           /\ req'[r].ans = IF "access" \in req[r].todo THEN "error"
                            ELSE req[r].ans
           /\ row' = row
  BY <1>1 DEF CreateRefresh, ReqType
<1>4. CreateAccess(r) =>
        \/ /\ ParentsExist(req[r].cl, req[r].own, CodeOf(r), req[r].rt)
           /\ \E e : Insert(req[r].at, req[r].cl, req[r].own, CodeOf(r),
                            req[r].rt, req[r].scope, e)
           /\ req'[r].todo = req[r].todo \ {"access"}
           /\ req'[r].ans = req[r].ans
        \/ /\ req'[r].todo = req[r].todo \ {"access"}
           /\ req'[r].ans = "error"
           /\ row' = row
  BY <1>1 DEF CreateAccess, ReqType
<1>5. RecordConsent(r) =>
        /\ req'[r].todo = req[r].todo \ {"consent"}
        /\ row' = row
        /\ \/ /\ req[r].own \in users /\ req[r].cl \in clients
              /\ consents' = consents \cup {<<req[r].own, req[r].cl>>}
              /\ req'[r].ans = req[r].ans
           \/ /\ consents' = consents
              /\ req'[r].ans = IF req[r].st = "saving" THEN "error"
                               ELSE req[r].ans
  BY <1>1 DEF RecordConsent, ReqType
<1> QED
  BY <1>2, <1>3, <1>4, <1>5

LEMMA Presenting ==
  ASSUME req \in [Reqs -> ReqType], NEW r \in Reqs, RevokePresented(r)
  PROVE  /\ Same(req[r], req'[r]) /\ req'[r].own = req[r].own
         /\ req'[r].at = req[r].at /\ req'[r].rt = req[r].rt
         /\ req'[r].todo = req[r].todo /\ req[r].kind = "revoke"
         /\ \/ req'[r].st = "paired" /\ req'[r].ans = req[r].ans
            \/ req'[r].st = "answered" /\ req'[r].ans = "ok"
         /\ req[r].tok \in Refreshes =>
               req'[r].st = "paired" \/ req'[r].hit = req[r].hit
         /\ req'[r].hit => \/ req[r].hit
                           \/ /\ Live(req[r].tok) /\ row[req[r].tok].valid
                              /\ row[req[r].tok].cl = req[r].cl
                              /\ saves' = saves \cup {req[r].tok}
<1>1. req[r] \in ReqType
  OBVIOUS
<1> DEFINE S == Matching({i \in {req[r].tok} : row[i].cl = req[r].cl})
           p == [req[r] EXCEPT !.st = "paired", !.hit = (S # {})]
           q == [req[r] EXCEPT !.st = "answered", !.ans = "ok", !.hit = (S # {})]
           e == [req[r] EXCEPT !.st = "answered", !.ans = "ok"]
<1>2. /\ Same(req[r], p) /\ p.own = req[r].own /\ p.at = req[r].at /\ p.rt = req[r].rt
      /\ p.todo = req[r].todo /\ p.st = "paired" /\ p.ans = req[r].ans
      /\ p.hit = (S # {})
  BY <1>1 DEF Same, ReqType
<1>3. /\ Same(req[r], q) /\ q.own = req[r].own /\ q.at = req[r].at /\ q.rt = req[r].rt
      /\ q.todo = req[r].todo /\ q.st = "answered" /\ q.ans = "ok"
      /\ q.hit = (S # {})
  BY <1>1 DEF Same, ReqType
<1>4. /\ Same(req[r], e) /\ e.own = req[r].own /\ e.at = req[r].at /\ e.rt = req[r].rt
      /\ e.todo = req[r].todo /\ e.st = "answered" /\ e.ans = "ok"
      /\ e.hit = req[r].hit
  BY <1>1 DEF Same, ReqType
<1>5. /\ req'[r] \in {p, q, e} /\ SendSaveOfOne(S) /\ req[r].kind = "revoke"
      /\ req[r].tok \in Refreshes => req'[r] \in {p, e}
  BY <1>1 DEF RevokePresented, Reply, At
<1>6. S # {} => /\ Live(req[r].tok) /\ row[req[r].tok].valid
                /\ row[req[r].tok].cl = req[r].cl
                /\ saves' = saves \cup {req[r].tok}
  BY <1>5 DEF SendSaveOfOne, Matching
<1> HIDE DEF p, q, e, S
<1> QED
  BY <1>2, <1>3, <1>4, <1>5, <1>6

-----------------------------------------------------------------------------
(* The stages of a request. *)

LEMMA PathStep == TypeOK /\ PathOK /\ [Next]_vars => PathOK'
<1> SUFFICES ASSUME TypeOK, PathOK, [Next]_vars, NEW q \in Reqs
             PROVE  Path(req'[q]) /\ (req'[q].kind = "revoke" => req'[q].tok \in known')
  BY DEF PathOK, Path
<1>0. req \in [Reqs -> ReqType] /\ req[q] \in ReqType
  BY DEF TypeOK
<1>1. known \subseteq known'
  <2>1. CASE \E r \in Reqs : NewRequest(r)
    BY <1>0, <2>1, Arriving DEF tables
  <2>2. CASE \E r \in Reqs : Handle(r)
    BY <2>2 DEF Handle, tables, noSave, FindCode,
     FindRefresh, FindIdentity, FindAccess, Accept, CheckConsent, Finish,
     RevokeAuthorizationCode, RotateRefreshToken, ReuseRevokesAccess,
     ReuseRevokesRefresh, RevokePresented, RevokePaired, Mint, CreateRefresh,
     CreateAccess, RecordConsent, AnswerToken, EnableApp, SaveAuthorizationCode
  <2> QED
    BY <2>1, <2>2 DEF Next, SaveLands, SaveLost, Remove, DeleteClient, DeleteUser,
       DeleteIot, WithdrawConsent, Tick, vars
<1>2. Path(req[q]) /\ (req[q].kind = "revoke" => req[q].tok \in known)
  BY DEF PathOK
<1>3. CASE req'[q] = req[q]
  BY <1>1, <1>2, <1>3
<1>4. CASE NewRequest(q)
  <2>1. Arrived(req'[q]) /\ UNCHANGED tables
    BY <1>0, <1>4, Arriving
  <2> QED
    BY <2>1 DEF Arrived, Path, tables
<1>5. CASE Finish(q)
  BY <1>0, <1>5 DEF Finish, IdleReq, Path
<1>6. CASE \/ FindRefresh(q) \/ FindIdentity(q) \/ FindAccess(q) \/ Accept(q)
           \/ CheckConsent(q) \/ RevokeAuthorizationCode(q)
           \/ RotateRefreshToken(q) \/ ReuseRevokesAccess(q)
           \/ ReuseRevokesRefresh(q) \/ EnableApp(q) \/ SaveAuthorizationCode(q)
           \/ RevokePaired(q) \/ AnswerToken(q) \/ FindCode(q)
  <2>1. /\ Kept(req[q], req'[q])
        /\ \/ req'[q].ans = req[q].ans
           \/ req'[q].ans # "none" /\ req'[q].st = "answered"
        /\ \/ req'[q].st \in {"revoke", "reuse", "reuse2", "store", "accept"}
           \/ req'[q].st = "answered" /\ req'[q].ans \in {"ok", "error"}
    BY <1>0, <1>6, Reading
  <2>2. \/ AnswerToken(q) \/ RevokePaired(q)
        \/ /\ req[q].st \in {"find", "consent", "enable", "accept", "revoke",
                            "reuse", "reuse2", "store"}
           /\ req[q].kind # "revoke"
    BY <1>2, <1>6 DEF FindRefresh, FindIdentity, FindAccess, Accept,
           CheckConsent, RevokeAuthorizationCode, RotateRefreshToken,
           ReuseRevokesAccess, ReuseRevokesRefresh, EnableApp,
           SaveAuthorizationCode, FindCode, At, Path
  <2>3. CASE AnswerToken(q)
    <3>1. /\ req[q].st = "saving" /\ "access" \notin req[q].todo
          /\ req'[q].st = "answered"
          /\ req'[q].ans = "error" \/ (req'[q].ans = "ok" /\ "consent" \notin req[q].todo)
      BY <1>0, <2>3 DEF AnswerToken, Reply, ReqType
    <3> QED
      BY <1>1, <1>2, <2>1, <3>1 DEF Path, Kept, Same
  <2>4. CASE RevokePaired(q)
    <3>1. /\ req[q].st = "paired" /\ req[q].kind = "revoke"
          /\ req'[q].st = "answered" /\ req'[q].ans = "ok"
      BY <1>0, <2>4 DEF RevokePaired, At, Reply, ReqType
    <3> QED
      BY <1>1, <1>2, <2>1, <3>1 DEF Path, Kept, Same
  <2>5. CASE req[q].st \in {"find", "consent", "enable", "accept", "revoke",
                      "reuse", "reuse2", "store"} /\ req[q].kind # "revoke"
    BY <1>1, <1>2, <2>1, <2>5 DEF Path, Kept, Same
  <2> QED
    BY <2>2, <2>3, <2>4, <2>5
<1>7. CASE RevokePresented(q)
  <2>1. req[q].kind = "revoke" /\ req[q].st = "find"
    BY <1>7 DEF RevokePresented, At
  <2> QED
    BY <1>0, <1>1, <1>2, <1>7, <2>1, Presenting DEF Path, Same
<1>8. CASE Mint(q)
  <2>1. PICK t, a, p :
           /\ Plans(req[q], t, a, p)
           /\ req[q].st = "store" /\ req[q].kind # "authorize"
           /\ Same(req[q], req'[q]) /\ req'[q].own = req[q].own
           /\ req'[q].ans = req[q].ans /\ req'[q].hit = req[q].hit
           /\ req'[q].st = "saving"
           /\ req'[q].todo = p /\ req'[q].rt = t /\ req'[q].at = a
    BY <1>0, <1>8, Minting
  <2>2. a # None => "access" \in p
    BY <2>1 DEF Plans
  <2> QED
    BY <1>1, <1>2, <2>1, <2>2 DEF Path, Same
<1>9. CASE CreateRefresh(q) \/ CreateAccess(q) \/ RecordConsent(q)
  <2>1. Wrote(req[q], req'[q])
    BY <1>0, <1>9, Writing
  <2>2. req[q].st \in {"saving", "answered"} /\ req[q].todo # {}
    BY <1>2, <1>9 DEF CreateRefresh, CreateAccess, RecordConsent, Path
  <2>3. CASE CreateRefresh(q)
    <3>1. /\ req'[q].todo \subseteq req[q].todo \ {"refresh"}
          /\ \/ req'[q].ans = req[q].ans
             \/ req'[q].ans = "error" /\ "access" \in req[q].todo
      BY <1>0, <2>3, Writing
    <3> QED
      BY <1>1, <1>2, <2>1, <2>2, <3>1 DEF Path, Wrote, Same
  <2>4. CASE CreateAccess(q)
    <3>1. /\ req'[q].todo = req[q].todo \ {"access"} /\ "access" \in req[q].todo
          /\ "refresh" \notin req[q].todo
          /\ req'[q].ans = req[q].ans \/ req'[q].ans = "error"
      BY <1>0, <2>4, Writing DEF CreateAccess
    <3> QED
      BY <1>1, <1>2, <2>1, <2>2, <3>1 DEF Path, Wrote, Same
  <2>5. CASE RecordConsent(q)
    <3>1. /\ req'[q].todo = req[q].todo \ {"consent"} /\ "consent" \in req[q].todo
          /\ \/ req'[q].ans = req[q].ans
             \/ req'[q].ans = "error" /\ req[q].st = "saving"
      BY <1>0, <2>5, Writing DEF RecordConsent
    <3> QED
      BY <1>1, <1>2, <2>1, <2>2, <3>1 DEF Path, Wrote, Same
  <2> QED
    BY <1>9, <2>3, <2>4, <2>5
<1> QED
  <2>1. CASE \E r \in Reqs : NewRequest(r) \/ Handle(r)
    BY <1>0, <1>3, <1>4, <1>5, <1>6, <1>7, <1>8, <1>9, <2>1, OthersRest DEF Handle
  <2> QED
    BY <1>3, <2>1, NoMover

-----------------------------------------------------------------------------
(* How a step changes the tables: it inserts one row, it is a deletion, or *)
(* no row appears, disappears or gets other parents.                       *)

Adds(i, c, o, code, t) ==
    /\ i \in Ids /\ row[i].st \in {"free", "minted"}
    /\ \A j \in Ids \ {i} : row'[j] = row[j]
    /\ row'[i].st = "live" /\ row'[i].cl = c /\ row'[i].own = o
    /\ row'[i].code = code /\ row'[i].rt = t

AddsRefresh(r) ==
    /\ "refresh" \in req[r].todo
    /\ ParentsExist(req[r].cl, req[r].own, CodeOf(r), None)
    /\ Adds(req[r].rt, req[r].cl, req[r].own, CodeOf(r), None)
    /\ Wrote(req[r], req'[r]) /\ req'[r].todo = req[r].todo \ {"refresh"}
    /\ req'[r].ans = req[r].ans
    /\ UNCHANGED <<consents, known>>

AddsAccess(r) ==
    /\ "access" \in req[r].todo /\ "refresh" \notin req[r].todo
    /\ ParentsExist(req[r].cl, req[r].own, CodeOf(r), req[r].rt)
    /\ Adds(req[r].at, req[r].cl, req[r].own, CodeOf(r), req[r].rt)
    /\ Wrote(req[r], req'[r]) /\ req'[r].todo = req[r].todo \ {"access"}
    /\ req'[r].ans = req[r].ans
    /\ UNCHANGED <<consents, known>>

AddsCode(r) ==
    /\ req[r].kind = "authorize" /\ req[r].st = "store"
    /\ req[r].own \in users /\ req[r].cl \in clients
    /\ \E i \in Fresh(Codes) : /\ Adds(i, req[r].cl, req[r].own, None, None)
                              /\ known' = known \cup {i}
    /\ Kept(req[r], req'[r]) /\ req'[r].own = req[r].own /\ req'[r].ans = "ok"
    /\ UNCHANGED consents

Parents(i) == <<row[i].cl, row[i].own, row[i].code, row[i].rt>>

Frame == /\ UNCHANGED <<clients, users, iots>>
         /\ \A i \in Ids :
               /\ Parents(i)' = Parents(i)
               /\ row[i].st # "free" => row'[i].st = row[i].st
               /\ row[i].st = "free" => row'[i].st \in {"free", "minted"}

LEMMA TableStep ==
  ASSUME TypeOK, KindOK, MintOK, [Next]_vars
  PROVE  \/ Frame
         \/ Remove
         \/ /\ UNCHANGED <<clients, users, iots>>
            /\ \E r \in Reqs : AddsRefresh(r) \/ AddsAccess(r) \/ AddsCode(r)
<1> USE OAuthAssumption
<1>1. row \in [Ids -> RowType] /\ req \in [Reqs -> ReqType]
  BY DEF TypeOK
<1>2. ASSUME row' = row, UNCHANGED <<clients, users, iots>> PROVE Frame
  BY <1>1, <1>2 DEF Frame, Parents, RowType
<1>3. ASSUME NEW r \in Reqs, NewRequest(r) PROVE Frame
  BY <1>1, <1>2, <1>3, Arriving DEF tables
<1>4. ASSUME NEW r \in Reqs, Handle(r), ~Mint(r), ~CreateRefresh(r),
             ~CreateAccess(r), ~SaveAuthorizationCode(r)
      PROVE  Frame
  BY <1>1, <1>2, <1>4 DEF Handle, FindCode, FindRefresh, FindIdentity, FindAccess,
     Accept, CheckConsent, Finish, tables, RevokeAuthorizationCode,
     RotateRefreshToken, ReuseRevokesAccess, ReuseRevokesRefresh,
     RevokePresented, RevokePaired, noSave, RecordConsent, AnswerToken, EnableApp
<1>5. ASSUME NEW r \in Reqs, Mint(r) PROVE Frame
  <2>1. PICK t, a, p : Plans(req[r], t, a, p)
    BY <1>1, <1>5, Minting
  <2>2. \A i \in Ids : row'[i] = IF i \in {t, a} THEN [row[i] EXCEPT !.st = "minted"]
                                ELSE row[i]
    BY <2>1 DEF Plans
  <2>3. \A i \in Ids : i \in {t, a} => row[i].st = "free"
    BY <2>1 DEF Plans, Fresh, Ids
  <2>4. UNCHANGED <<clients, users, iots>>
    BY <1>5 DEF Mint
  <2> QED
    BY <1>1, <2>2, <2>3, <2>4 DEF Frame, Parents, RowType
<1>6. ASSUME NEW i \in Ids, row[i].st \in {"free", "minted"}, NEW c, NEW o,
             NEW code, NEW t, NEW s, NEW e, Insert(i, c, o, code, t, s, e)
      PROVE  Adds(i, c, o, code, t)
  BY <1>1, <1>6 DEF Insert, Adds
<1>7. ASSUME NEW r \in Reqs, CreateRefresh(r) PROVE Frame \/ AddsRefresh(r)
  <2>1. req[r].rt \in Ids /\ row[req[r].rt].st = "minted"
    BY <1>1, <1>7 DEF CreateRefresh, MintOK, Pending, ReqType, Ids
  <2>2. UNCHANGED <<clients, users, iots, consents, known>> /\ "refresh" \in req[r].todo
    BY <1>7 DEF CreateRefresh
  <2>3. CASE row' = row
    BY <1>2, <2>2, <2>3
  <2>4. CASE row' # row
    <3>1. /\ Wrote(req[r], req'[r])
          /\ ParentsExist(req[r].cl, req[r].own, CodeOf(r), None)
          /\ Insert(req[r].rt, req[r].cl, req[r].own, CodeOf(r), None,
                    req[r].scope, now + RefreshLife)
          /\ req'[r].todo = req[r].todo \ {"refresh"}
          /\ req'[r].ans = req[r].ans
      BY <1>1, <1>7, <2>4, Writing
    <3> QED
      BY <1>6, <2>1, <2>2, <3>1 DEF AddsRefresh
  <2> QED
    BY <2>3, <2>4
<1>8. ASSUME NEW r \in Reqs, CreateAccess(r) PROVE Frame \/ AddsAccess(r)
  <2>1. req[r].at \in Ids /\ row[req[r].at].st = "minted"
    BY <1>1, <1>8 DEF CreateAccess, MintOK, Pending, ReqType, Ids
  <2>2. /\ UNCHANGED <<clients, users, iots, consents, known>>
        /\ "access" \in req[r].todo /\ "refresh" \notin req[r].todo
    BY <1>8 DEF CreateAccess
  <2>3. CASE row' = row
    BY <1>2, <2>2, <2>3
  <2>4. CASE row' # row
    <3>1. /\ Wrote(req[r], req'[r])
          /\ ParentsExist(req[r].cl, req[r].own, CodeOf(r), req[r].rt)
          /\ \E e : Insert(req[r].at, req[r].cl, req[r].own, CodeOf(r), req[r].rt,
                           req[r].scope, e)
          /\ req'[r].todo = req[r].todo \ {"access"}
          /\ req'[r].ans = req[r].ans
      BY <1>1, <1>8, <2>4, Writing
    <3> QED
      BY <1>6, <2>1, <2>2, <3>1 DEF AddsAccess
  <2> QED
    BY <2>3, <2>4
<1>9. ASSUME NEW r \in Reqs, SaveAuthorizationCode(r) PROVE Frame \/ AddsCode(r)
  <2>1. /\ UNCHANGED <<clients, users, iots, consents>> /\ Kept(req[r], req'[r])
        /\ req[r].kind = "authorize" /\ req[r].st = "store"
        /\ req'[r].own = req[r].own
    BY <1>1, <1>9, Reading DEF SaveAuthorizationCode, At
  <2>2. CASE row' = row
    BY <1>2, <2>1, <2>2
  <2>3. CASE row' # row
    <3>1. PICK i \in Fresh(Codes) :
            /\ Insert(i, req[r].cl, req[r].own, None, None, req[r].scope, now + CodeLife)
            /\ known' = known \cup {i}
            /\ req[r].own \in users /\ req[r].cl \in clients
            /\ Reply(r, "ok")
      BY <1>9, <2>3 DEF SaveAuthorizationCode
    <3>2. Adds(i, req[r].cl, req[r].own, None, None)
      BY <1>6, <3>1 DEF Fresh, Ids
    <3>3. req'[r].ans = "ok"
      BY <1>1, <3>1 DEF Reply, ReqType
    <3> QED
      BY <2>1, <3>1, <3>2, <3>3 DEF AddsCode
  <2> QED
    BY <2>2, <2>3
<1>10. ASSUME NEW i \in Ids, SaveLands(i) \/ SaveLost(i) PROVE Frame
  <2>1. UNCHANGED <<clients, users, iots>>
        /\ \A j \in Ids : row'[j] = row[j] \/ row'[j] = [row[j] EXCEPT !.valid = FALSE]
    BY <1>1, <1>10 DEF SaveLands, SaveLost
  <2>2. ASSUME NEW j \in Ids
        PROVE  Parents(j)' = Parents(j) /\ row'[j].st = row[j].st
    <3>1. row[j] \in RowType
      BY <1>1
    <3>2. row'[j] = row[j] \/ row'[j] = [row[j] EXCEPT !.valid = FALSE]
      BY <2>1
    <3>3. [row[j] EXCEPT !.valid = FALSE].cl = row[j].cl
          /\ [row[j] EXCEPT !.valid = FALSE].own = row[j].own
          /\ [row[j] EXCEPT !.valid = FALSE].code = row[j].code
          /\ [row[j] EXCEPT !.valid = FALSE].rt = row[j].rt
          /\ [row[j] EXCEPT !.valid = FALSE].st = row[j].st
      BY <3>1 DEF RowType
    <3> QED
      BY <3>2, <3>3 DEF Parents
  <2> QED
    BY <2>1, <2>2 DEF Frame
<1>11. ASSUME Tick \/ UNCHANGED vars PROVE Frame
  BY <1>2, <1>11 DEF Tick, vars
<1>12. CASE \E r \in Reqs : NewRequest(r) \/ Handle(r)
  <2>1. PICK r \in Reqs : NewRequest(r) \/ Handle(r)
    BY <1>12
  <2>2. UNCHANGED <<clients, users, iots>>
    BY <1>1, <2>1, Arriving DEF Handle, FindCode, FindRefresh, FindIdentity, FindAccess,
     Accept, CheckConsent, Finish, tables, RevokeAuthorizationCode,
     RotateRefreshToken, ReuseRevokesAccess, ReuseRevokesRefresh,
     RevokePresented, RevokePaired, noSave, RecordConsent, AnswerToken, EnableApp,
     Mint, CreateRefresh, CreateAccess, SaveAuthorizationCode
  <2> QED
    BY <1>3, <1>4, <1>5, <1>7, <1>8, <1>9, <2>1, <2>2
<1> QED
  BY <1>10, <1>11, <1>12 DEF Next

\* A string that was drawn stays drawn, and a stored row keeps its parents.
LEMMA RowsKept ==
  ASSUME TypeOK, KindOK, MintOK, [Next]_vars, NEW i \in Ids
  PROVE  /\ row[i].st # "free" => row'[i].st # "free"
         /\ Stored(i) => Stored(i)' /\ Parents(i)' = Parents(i)
         /\ Live(i)' /\ Live(i) => Parents(i)' = Parents(i)
<1>1. row[i] \in RowType /\ row'[i] \in RowType /\ RowsEvolve
  BY RowStep, TypeStep DEF TypeOK
<1>2. CASE Steady(i)
  BY <1>1, <1>2 DEF Steady, Stored, Parents, Live, RowType
<1>3. CASE row'[i] = row[i] \/ Issued(i)
  BY <1>3 DEF Issued, Stored, Parents, Live
<1> QED
  BY <1>1, <1>2, <1>3 DEF RowsEvolve

\* What a step does to the strings a request holds: it keeps them, drops them,
\* or has just drawn them.
Holds(x, y) == /\ Same(x, y) /\ y.own = x.own /\ y.at = x.at /\ y.rt = x.rt
               /\ y.todo \subseteq x.todo
               /\ x.ans = "ok" => y.ans = "ok"
               /\ x.ans = "error" /\ (x.at # None \/ x.rt # None) => y.ans = "error"
Draws(r, t, a, p) ==
    /\ Plans(req[r], t, a, p) /\ Same(req[r], req'[r]) /\ req'[r].own = req[r].own
    /\ req[r].st = "store" /\ req'[r].ans = req[r].ans /\ req'[r].hit = req[r].hit
    /\ req'[r].todo = p /\ req'[r].rt = t /\ req'[r].at = a
    /\ \A q \in Reqs \ {r} : req'[q] = req[q]
    /\ UNCHANGED <<clients, users, iots, consents, saves, known, now>>

LEMMA Holding ==
  ASSUME TypeOK, PathOK, PathOK', [Next]_vars, NEW q \in Reqs
  PROVE  \/ req'[q].at = None /\ req'[q].rt = None /\ req'[q].todo = {}
         \/ Holds(req[q], req'[q])
         \/ \E t, a, p : Draws(q, t, a, p)
<1>1. /\ req \in [Reqs -> ReqType] /\ req[q] \in ReqType
      /\ Path(req[q]) /\ Path(req'[q])
  BY DEF TypeOK, PathOK, Path
<1>2. CASE req'[q] = req[q]
  BY <1>2 DEF Holds, Same
<1>3. CASE NewRequest(q) \/ Finish(q)
  BY <1>1, <1>3, Arriving DEF Arrived, Finish, IdleReq
<1>4. CASE \/ FindRefresh(q) \/ FindIdentity(q) \/ FindAccess(q) \/ Accept(q)
           \/ CheckConsent(q) \/ RevokeAuthorizationCode(q)
           \/ RotateRefreshToken(q) \/ ReuseRevokesAccess(q)
           \/ ReuseRevokesRefresh(q) \/ EnableApp(q) \/ SaveAuthorizationCode(q)
           \/ RevokePaired(q) \/ AnswerToken(q) \/ FindCode(q)
  <2>1. /\ Kept(req[q], req'[q])
        /\ \/ req'[q].own = req[q].own
           \/ req[q].kind \in {"code", "refresh"} /\ req'[q].st = "revoke"
    BY <1>1, <1>4, Reading
  <2>2. req[q].st # "answered" /\ (req[q].st = "saving" => AnswerToken(q))
    BY <1>4 DEF FindRefresh, FindIdentity, FindAccess, Accept, FindCode, At,
       CheckConsent, RevokeAuthorizationCode, RotateRefreshToken, AnswerToken,
       ReuseRevokesAccess, ReuseRevokesRefresh, EnableApp,
       SaveAuthorizationCode, RevokePaired
  <2>3. AnswerToken(q) /\ req[q].ans = "error" => req'[q].ans = "error"
    BY <1>1 DEF AnswerToken, Reply, ReqType
  <2> QED
    BY <1>1, <2>1, <2>2, <2>3 DEF Path, Kept, Holds
<1>5. CASE RevokePresented(q)
  <2>1. req[q].st # "answered"
    BY <1>5 DEF RevokePresented, At
  <2> QED
    BY <1>1, <1>5, <2>1, Presenting DEF Path, Holds, Same
<1>6. CASE Mint(q)
  <2>1. /\ UNCHANGED <<clients, users, iots, consents, saves, known, now>>
        /\ \A x \in Reqs \ {q} : req'[x] = req[x]
    BY <1>1, <1>6, OthersRest DEF Mint, Handle
  <2> QED
    BY <1>1, <1>6, <2>1, Minting DEF Draws
<1>7. CASE CreateRefresh(q)
  <2>1. /\ Wrote(req[q], req'[q])
        /\ req'[q].todo \subseteq req[q].todo
        /\ \/ req'[q].ans = req[q].ans
           \/ "access" \in req[q].todo /\ req'[q].ans = "error"
    BY <1>1, <1>7, Writing
  <2> QED
    BY <1>1, <2>1 DEF Path, Holds, Wrote
<1>8. CASE CreateAccess(q)
  <2>1. /\ Wrote(req[q], req'[q]) /\ req'[q].todo \subseteq req[q].todo
        /\ "access" \in req[q].todo
        /\ req'[q].ans \in {req[q].ans, "error"}
    BY <1>1, <1>8, Writing DEF CreateAccess
  <2> QED
    BY <1>1, <2>1 DEF Path, Holds, Wrote
<1>9. CASE RecordConsent(q)
  <2>1. /\ Wrote(req[q], req'[q]) /\ req'[q].todo \subseteq req[q].todo
        /\ \/ req'[q].ans = req[q].ans
           \/ req[q].st = "saving" /\ req'[q].ans = "error"
    BY <1>1, <1>9, Writing
  <2> QED
    BY <1>1, <2>1 DEF Path, Holds, Wrote
<1> QED
  <2>1. CASE \E r \in Reqs : NewRequest(r) \/ Handle(r)
    BY <1>1, <1>2, <1>3, <1>4, <1>5, <1>6, <1>7, <1>8, <1>9, <2>1, OthersRest DEF Handle
  <2> QED
    BY <1>2, <2>1, NoMover

\* What a client learns: the strings of its answer, once there is one.
LEMMA KnownStep ==
  ASSUME TypeOK, [Next]_vars, NEW i \in known' \ known
  PROVE  \/ \E r \in Reqs : /\ AnswerToken(r) /\ i \in Held(req[r])
                            /\ req'[r].ans = "ok" /\ req[r].ans # "error"
                            /\ "access" \notin req[r].todo
                            /\ "consent" \notin req[r].todo
                            /\ Kept(req[r], req'[r]) /\ req'[r].own = req[r].own
                            /\ UNCHANGED <<row, consents>>
         \/ \E r \in Reqs : AddsCode(r) /\ Adds(i, req[r].cl, req[r].own, None, None)
<1>1. req \in [Reqs -> ReqType] /\ row \in [Ids -> RowType]
  BY DEF TypeOK
<1>2. PICK r \in Reqs : AnswerToken(r) \/ SaveAuthorizationCode(r)
  <2>1. CASE \E r \in Reqs : NewRequest(r)
    BY <1>1, <2>1, Arriving DEF tables
  <2>2. CASE \E r \in Reqs : Handle(r)
    BY <2>2 DEF Handle, tables, noSave, FindCode,
     FindRefresh, FindIdentity, FindAccess, Accept, CheckConsent, Finish,
     RevokeAuthorizationCode, RotateRefreshToken, ReuseRevokesAccess,
     ReuseRevokesRefresh, RevokePresented, RevokePaired, Mint, CreateRefresh,
     CreateAccess, RecordConsent, EnableApp
  <2> QED
    BY <2>1, <2>2 DEF Next, SaveLands, SaveLost, Remove, DeleteClient, DeleteUser,
       DeleteIot, WithdrawConsent, Tick, vars
<1>3. Kept(req[r], req'[r]) /\ (req'[r].own = req[r].own \/ req'[r].st = "revoke")
  BY <1>1, <1>2, Reading
<1>4. CASE AnswerToken(r)
  <2>1. /\ i \in Held(req[r]) /\ req[r].ans # "error" /\ Reply(r, "ok")
        /\ "access" \notin req[r].todo /\ "consent" \notin req[r].todo
        /\ UNCHANGED <<row, consents>>
    BY <1>4 DEF AnswerToken, Held
  <2>2. req'[r].ans = "ok" /\ req'[r].st = "answered"
    BY <1>1, <2>1 DEF Reply, ReqType
  <2> QED
    BY <1>3, <1>4, <2>1, <2>2
<1>5. CASE SaveAuthorizationCode(r)
  <2>1. /\ i \in Fresh(Codes) /\ known' = known \cup {i} /\ Reply(r, "ok")
        /\ Insert(i, req[r].cl, req[r].own, None, None, req[r].scope, now + CodeLife)
        /\ req[r].own \in users /\ req[r].cl \in clients
        /\ req[r].kind = "authorize" /\ req[r].st = "store"
        /\ UNCHANGED consents
    BY <1>5 DEF SaveAuthorizationCode, At
  <2>2. req'[r].ans = "ok" /\ req'[r].st = "answered"
    BY <1>1, <2>1 DEF Reply, ReqType
  <2>3. Adds(i, req[r].cl, req[r].own, None, None)
    BY <1>1, <2>1 DEF Adds, Insert, Fresh, Ids
  <2>4. AddsCode(r)
    BY <1>3, <2>1, <2>2, <2>3 DEF AddsCode
  <2> QED
    BY <2>3, <2>4
<1> QED
  BY <1>2, <1>4, <1>5

\* A row that appears is one of the three inserts.
LEMMA Born ==
  ASSUME TypeOK, KindOK, MintOK, [Next]_vars, NEW i \in Ids, ~Live(i), Live(i)'
  PROVE  /\ UNCHANGED <<clients, users, iots>>
         /\ \/ \E r \in Reqs : AddsRefresh(r) /\ i = req[r].rt
            \/ \E r \in Reqs : AddsAccess(r) /\ i = req[r].at
            \/ \E r \in Reqs : /\ AddsCode(r) /\ i \in Fresh(Codes)
                              /\ Adds(i, req[r].cl, req[r].own, None, None)
<1>1. ~Frame
  BY DEF Frame, Live
<1>2. ASSUME NEW S, Cascade(S) PROVE row'[i].st # "live"
  <2>1. row'[i] = row[i] \/ row'[i] = [row[i] EXCEPT !.st = "gone"]
    BY <1>2 DEF Cascade
  <2>2. row[i] \in RowType /\ row[i].st # "live"
    BY DEF TypeOK, Live
  <2> QED
    BY <2>1, <2>2 DEF RowType
<1>3. ~Remove
  BY <1>2 DEF Remove, DeleteClient, DeleteUser, DeleteIot, WithdrawConsent, Live
<1>4. PICK r \in Reqs : AddsRefresh(r) \/ AddsAccess(r) \/ AddsCode(r)
  BY <1>1, <1>3, TableStep
<1>5. UNCHANGED <<clients, users, iots>>
  BY <1>1, <1>3, TableStep
<1>6. CASE AddsRefresh(r)
  BY <1>5, <1>6 DEF AddsRefresh, Adds, Live
<1>7. CASE AddsAccess(r)
  BY <1>5, <1>7 DEF AddsAccess, Adds, Live
<1>8. CASE AddsCode(r)
  <2>1. PICK j \in Fresh(Codes) : Adds(j, req[r].cl, req[r].own, None, None)
    BY <1>8 DEF AddsCode
  <2>2. i = j
    BY <2>1 DEF Adds, Live
  <2> QED
    BY <1>5, <1>8, <2>1, <2>2
<1> QED
  BY <1>4, <1>6, <1>7, <1>8

LEMMA HeldStep == TInv /\ PathOK' /\ [Next]_vars => HeldOK'
<1> SUFFICES ASSUME TInv, PathOK', [Next]_vars PROVE HeldOK'
  OBVIOUS
<1> USE OAuthAssumption
<1>0. /\ TypeOK /\ KindOK /\ MintOK /\ PathOK /\ HeldOK /\ TypeOK'
      /\ known \subseteq Ids /\ known' \subseteq Ids
  BY TypeStep DEF TInv, IInv, TypeOK
<1>1. \A i \in Ids :
         /\ row[i].st # "free" => row'[i].st # "free"
         /\ Stored(i) => Stored(i)' /\ Parents(i)' = Parents(i)
  BY <1>0, RowsKept
<1>2. \A q \in Reqs :
         /\ Held(req[q]) \subseteq Ids /\ Held(req'[q]) \subseteq Ids
         /\ req[q] \in ReqType
  BY <1>0 DEF TypeOK, ReqType, Held, Ids
<1>3. \A i \in known' : row'[i].st # "free"
  <2>1. ASSUME NEW i \in known PROVE row'[i].st # "free"
    BY <1>0, <1>1 DEF HeldOK
  <2>2. ASSUME NEW i \in known' \ known PROVE row'[i].st # "free"
    <3>1. CASE \E r \in Reqs : i \in Held(req[r])
      BY <1>0, <1>1, <1>2, <3>1 DEF HeldOK
    <3>2. CASE \E r \in Reqs : Adds(i, req[r].cl, req[r].own, None, None)
      BY <3>2 DEF Adds
    <3> QED
      BY <1>0, <2>2, <3>1, <3>2, KnownStep
  <2> QED
    BY <2>1, <2>2
<1>4. ASSUME NEW q \in Reqs, Holds(req[q], req'[q]), NEW i \in Held(req'[q])
      PROVE  /\ row'[i].st # "free"
             /\ Stored(i)' => /\ row'[i].cl = req'[q].cl /\ row'[i].own = req'[q].own
                              /\ row'[i].code = CodeOf(q)'
             /\ i \in known' => req'[q].ans = "ok"
  <2>1. i \in Held(req[q]) /\ i \in Ids
    BY <1>2, <1>4 DEF Holds, Held
  <2>2. /\ row[i].st # "free"
        /\ Stored(i) => /\ row[i].cl = req[q].cl /\ row[i].own = req[q].own
                        /\ row[i].code = CodeOf(q)
        /\ i \in known => req[q].ans = "ok"
        /\ \A r \in Reqs : i \in Held(req[r]) => r = q
    BY <1>0, <2>1 DEF HeldOK
  <2>3. CodeOf(q)' = CodeOf(q) /\ req'[q].cl = req[q].cl /\ req'[q].own = req[q].own
    BY <1>4 DEF Holds, Same, CodeOf
  <2>4. Stored(i)' => /\ row'[i].cl = req'[q].cl /\ row'[i].own = req'[q].own
                      /\ row'[i].code = CodeOf(q)'
    <3>1. CASE Stored(i)
      BY <1>1, <2>1, <2>2, <2>3, <3>1 DEF Parents
    <3>2. CASE ~Stored(i) /\ Live(i)'
      <4>1. \/ \E r \in Reqs : AddsRefresh(r) /\ i = req[r].rt
            \/ \E r \in Reqs : AddsAccess(r) /\ i = req[r].at
            \/ i \in Fresh(Codes)
        BY <1>0, <2>1, <3>2, Born DEF Stored, Live
      <4>2. i # None
        BY <2>1 DEF Ids
      <4>3. CASE \E r \in Reqs : AddsRefresh(r) /\ i = req[r].rt
        BY <2>2, <2>3, <4>2, <4>3 DEF AddsRefresh, Adds, Held
      <4>4. CASE \E r \in Reqs : AddsAccess(r) /\ i = req[r].at
        BY <2>2, <2>3, <4>2, <4>4 DEF AddsAccess, Adds, Held
      <4> QED
        BY <2>2, <4>1, <4>3, <4>4 DEF Fresh
    <3>3. CASE ~Stored(i) /\ ~Live(i)' /\ Stored(i)'
      <4>1. row[i] \in RowType /\ row'[i].st = "gone" /\ row[i].st \notin {"live", "gone"}
        BY <1>0, <2>1, <3>3 DEF TypeOK, Stored, Live
      <4> QED
        BY <1>0, <2>1, <4>1, RowStep DEF RowsEvolve, Steady, Issued, RowType
    <3> QED
      BY <3>1, <3>2, <3>3
  <2>5. ASSUME i \in known' PROVE req'[q].ans = "ok"
    <3>1. CASE i \in known
      BY <1>4, <2>2, <3>1 DEF Holds
    <3>2. CASE i \notin known
      <4>1. ~\E r \in Reqs : AddsCode(r) /\ Adds(i, req[r].cl, req[r].own, None, None)
        <5> SUFFICES ASSUME NEW r \in Reqs, AddsCode(r),
                            Adds(i, req[r].cl, req[r].own, None, None)
                     PROVE  FALSE
          OBVIOUS
        <5>1. PICK j \in Fresh(Codes) : Adds(j, req[r].cl, req[r].own, None, None)
          BY DEF AddsCode
        <5>2. row[i].st # "live" /\ row'[i].st = "live"
          BY DEF Adds
        <5>3. i = j
          BY <2>1, <5>1, <5>2 DEF Adds
        <5> QED
          BY <2>2, <5>1, <5>3 DEF Fresh
      <4> QED
        BY <1>0, <2>2, <2>5, <3>2, <4>1, KnownStep
    <3> QED
      BY <3>1, <3>2
  <2>6. row'[i].st # "free"
    BY <1>1, <2>1, <2>2
  <2> QED
    BY <2>4, <2>5, <2>6
<1>5. ASSUME NEW q \in Reqs, NEW t, NEW a, NEW p, Draws(q, t, a, p),
             NEW i \in Held(req'[q])
      PROVE  row[i].st = "free" /\ row'[i].st = "minted" /\ i \notin known'
  <2>1. i \in {t, a} /\ i \in Ids /\ row[i].st = "free" /\ row[i] \in RowType
    BY <1>0, <1>2, <1>5 DEF Draws, Plans, Held, Fresh, TypeOK
  <2>2. row'[i] = [row[i] EXCEPT !.st = "minted"]
    BY <1>5, <2>1 DEF Draws, Plans
  <2> QED
    BY <1>0, <1>5, <2>1, <2>2 DEF Draws, HeldOK, RowType
<1>6. \A q \in Reqs : \A i \in Held(req'[q]) :
         /\ row'[i].st # "free"
         /\ Stored(i)' => /\ row'[i].cl = req'[q].cl /\ row'[i].own = req'[q].own
                          /\ row'[i].code = CodeOf(q)'
         /\ i \in known' => req'[q].ans = "ok"
  BY <1>0, <1>4, <1>5, Holding DEF Stored, Held
<1>7. \A r, q \in Reqs : r # q => Held(req'[r]) \cap Held(req'[q]) = {}
  <2> SUFFICES ASSUME NEW r \in Reqs, NEW q \in Reqs, r # q,
                      NEW i \in Held(req'[r]) \cap Held(req'[q])
               PROVE  FALSE
    OBVIOUS
  <2>1. \A x \in {r, q} : Holds(req[x], req'[x]) \/ \E t, a, p : Draws(x, t, a, p)
    BY <1>0, Holding DEF Held
  <2>2. \A x \in {r, q} : Holds(req[x], req'[x]) => i \in Held(req[x]) /\ row[i].st # "free"
    BY <1>0 DEF HeldOK, Holds, Held
  <2>3. \A x \in {r, q} : (\E t, a, p : Draws(x, t, a, p)) => row[i].st = "free"
    BY <1>5
  <2>4. \A x, y \in {r, q} : x # y /\ (\E t, a, p : Draws(x, t, a, p)) => req'[y] = req[y]
    BY DEF Draws
  <2>5. \A y \in {r, q} : req'[y] = req[y] => row[i].st # "free"
    BY <1>0 DEF HeldOK
  <2> QED
    BY <1>0, <2>1, <2>2, <2>3, <2>4, <2>5 DEF HeldOK
<1> QED
  BY <1>3, <1>6, <1>7 DEF HeldOK, Stored, CodeOf

LEMMA CodeStep == TInv /\ PathOK' /\ [Next]_vars => CodeOK'
<1> SUFFICES ASSUME TInv, PathOK', [Next]_vars, NEW q \in Reqs,
                    req'[q].kind = "code",
                    \/ req'[q].st \in {"revoke", "store"}
                    \/ Held(req'[q]) # {} \/ req'[q].todo # {}
             PROVE  /\ row'[req'[q].tok].st \in {"live", "gone"}
                    /\ row'[req'[q].tok].cl = req'[q].cl
                    /\ row'[req'[q].tok].own = req'[q].own
  BY DEF CodeOK, Stored, Held
<1> USE OAuthAssumption
<1>0. /\ TypeOK /\ KindOK /\ MintOK /\ PathOK /\ CodeOK /\ KindOK'
      /\ req \in [Reqs -> ReqType] /\ req[q] \in ReqType
  BY TypeStep DEF TInv, IInv, TypeOK
<1>1. ASSUME Same(req[q], req'[q]), req'[q].own = req[q].own,
             \/ req[q].st \in {"revoke", "store"}
             \/ Held(req[q]) # {} \/ req[q].todo # {}
      PROVE  /\ row'[req'[q].tok].st \in {"live", "gone"}
             /\ row'[req'[q].tok].cl = req'[q].cl
             /\ row'[req'[q].tok].own = req'[q].own
  <2>1. PICK i \in Ids : i = req[q].tok
    BY <1>0, <1>1 DEF KindOK, Ids, Same
  <2>2. Stored(i) /\ row[i].cl = req[q].cl /\ row[i].own = req[q].own
    BY <1>0, <1>1, <2>1 DEF CodeOK, Same
  <2>3. Stored(i)' /\ Parents(i)' = Parents(i)
    BY <1>0, <2>2, RowsKept
  <2>4. i = req'[q].tok /\ req'[q].cl = req[q].cl
    BY <1>1, <2>1 DEF Same
  <2> QED
    BY <1>1, <2>2, <2>3, <2>4 DEF Stored, Parents
<1>2. CASE req'[q].st \in {"revoke", "store"} /\ req'[q] # req[q]
  <2>1. FindCode(q) \/ RevokeAuthorizationCode(q)
    <3>1. NewRequest(q) \/ Handle(q)
      BY <1>0, <1>2, OthersRest, NoMover
    <3>2. ~NewRequest(q)
      BY <1>0, <1>2, Arriving DEF Arrived
    <3>3. ~ \/ FindIdentity(q) \/ FindRefresh(q) \/ FindAccess(q) \/ Accept(q)
            \/ RotateRefreshToken(q) \/ CheckConsent(q) \/ EnableApp(q)
            \/ RevokePaired(q) \/ SaveAuthorizationCode(q)
      <4>1. ASSUME \/ FindIdentity(q) \/ FindRefresh(q) \/ FindAccess(q) \/ Accept(q)
                   \/ RotateRefreshToken(q) \/ CheckConsent(q) \/ EnableApp(q)
                   \/ RevokePaired(q) \/ SaveAuthorizationCode(q)
            PROVE  FALSE
        <5>1. req'[q].kind = req[q].kind
          BY <1>0, <4>1, Reading DEF Kept, Same
        <5> QED
          BY <1>0, <1>2, <4>1, <5>1 DEF FindIdentity, FindRefresh, FindAccess,
             Accept, RotateRefreshToken, CheckConsent, EnableApp, RevokePaired,
             SaveAuthorizationCode, At, PathOK, Path
      <4> QED
        BY <4>1
    <3>4. ~ \/ AnswerToken(q) \/ ReuseRevokesAccess(q) \/ ReuseRevokesRefresh(q)
      BY <1>0, <1>2 DEF AnswerToken, ReuseRevokesAccess, ReuseRevokesRefresh,
         Reply, Goto, ReqType
    <3>5. ~RevokePresented(q) /\ ~Finish(q) /\ ~Mint(q)
      BY <1>0, <1>2, Presenting, Minting DEF Finish, IdleReq
    <3>6. ~ (CreateRefresh(q) \/ CreateAccess(q) \/ RecordConsent(q))
      <4>1. ASSUME CreateRefresh(q) \/ CreateAccess(q) \/ RecordConsent(q) PROVE FALSE
        <5>1. req'[q].st = req[q].st /\ req[q].todo # {}
          BY <1>0, <4>1, Writing DEF Wrote, CreateRefresh, CreateAccess, RecordConsent
        <5> QED
          BY <1>0, <1>2, <5>1 DEF PathOK, Path
      <4> QED
        BY <4>1
    <3> QED
      BY <3>1, <3>2, <3>3, <3>4, <3>5, <3>6 DEF Handle
  <2>2. CASE RevokeAuthorizationCode(q)
    <3>1. req[q].st = "revoke" /\ Same(req[q], req'[q]) /\ req'[q].own = req[q].own
      BY <1>0, <2>2 DEF RevokeAuthorizationCode, At, Goto, Same, ReqType
    <3> QED
      BY <1>1, <3>1
  <2>3. CASE FindCode(q)
    <3>1. /\ row[req[q].tok].st = "live" /\ row[req[q].tok].cl = req[q].cl
          /\ req'[q].own = row[req[q].tok].own /\ Same(req[q], req'[q])
          /\ row' = row
      BY <1>0, <1>2, <2>3 DEF FindCode, At, Reply, Goto, Same, ReqType, tables
    <3> QED
      BY <3>1 DEF Same, Stored
  <2> QED
    BY <2>1, <2>2, <2>3
<1>3. CASE req'[q] = req[q]
  BY <1>1, <1>3 DEF Same
<1>4. CASE req'[q].st \notin {"revoke", "store"}
  <2>1. Held(req'[q]) # {} \/ req'[q].todo # {}
    BY <1>4
  <2>2. Holds(req[q], req'[q]) \/ \E t, a, p : Draws(q, t, a, p)
    BY <1>0, <2>1, Holding DEF Held
  <2>3. CASE Holds(req[q], req'[q])
    BY <1>1, <2>1, <2>3 DEF Holds, Held
  <2>4. CASE \E t, a, p : Draws(q, t, a, p)
    BY <1>1, <2>4 DEF Draws
  <2> QED
    BY <2>2, <2>3, <2>4
<1> QED
  BY <1>2, <1>3, <1>4

\* A step leaves the rows a code or token is issued under where they are.
LEMMA ShapeStep == TInv /\ [Next]_vars => ShapeOK'
<1> SUFFICES ASSUME TInv, [Next]_vars, NEW i \in Ids, Live(i)'
             PROVE  /\ i \in Codes => row'[i].code = None
                    /\ i \notin Accesses => row'[i].rt = None
  BY DEF ShapeOK, Live
<1> USE OAuthAssumption
<1>0. TypeOK /\ KindOK /\ MintOK /\ ShapeOK /\ req \in [Reqs -> ReqType]
  BY DEF TInv, IInv, TypeOK
<1>1. CASE Live(i)
  BY <1>0, <1>1, RowsKept DEF ShapeOK, Parents
<1>2. CASE ~Live(i)
  <2>1. ASSUME NEW r \in Reqs, AddsRefresh(r), i = req[r].rt
        PROVE  i \notin Codes /\ row'[i].rt = None
    BY <1>0, <2>1 DEF AddsRefresh, Adds, ReqType
  <2>2. ASSUME NEW r \in Reqs, AddsAccess(r), i = req[r].at
        PROVE  i \in Accesses /\ i \notin Codes
    BY <1>0, <2>2 DEF AddsAccess, Adds, ReqType, Ids
  <2>3. ASSUME NEW r \in Reqs, Adds(i, req[r].cl, req[r].own, None, None)
        PROVE  row'[i].code = None /\ row'[i].rt = None
    BY <2>3 DEF Adds
  <2> QED
    BY <1>0, <1>2, <2>1, <2>2, <2>3, Born
<1> QED
  BY <1>1, <1>2

\* A write that is no longer to be done, and did not fail, has been done.
LEMMA Leaving ==
  ASSUME TypeOK, KindOK, MintOK, PathOK, [Next]_vars, NEW q \in Reqs,
         Holds(req[q], req'[q]), req[q].at # None \/ req[q].rt # None,
         req'[q].ans # "error"
  PROVE  /\ "access" \in req[q].todo /\ "access" \notin req'[q].todo => AddsAccess(q)
         /\ "consent" \in req[q].todo /\ "consent" \notin req'[q].todo
              => <<req[q].own, req[q].cl>> \in consents'
<1> SUFFICES ASSUME NEW w \in {"access", "consent"},
                    w \in req[q].todo, w \notin req'[q].todo
             PROVE  /\ w = "access" => AddsAccess(q)
                    /\ w = "consent" => <<req[q].own, req[q].cl>> \in consents'
  OBVIOUS
<1> USE OAuthAssumption
<1>0. /\ req \in [Reqs -> ReqType] /\ req[q] \in ReqType /\ Path(req[q])
      /\ row \in [Ids -> RowType]
  BY DEF TypeOK, PathOK, Path
<1>1. CreateRefresh(q) \/ CreateAccess(q) \/ RecordConsent(q)
  <2>1. NewRequest(q) \/ Handle(q)
    BY <1>0, OthersRest, NoMover
  <2>2. ~NewRequest(q)
    BY <1>0, Arriving DEF Arrived, Holds
  <2>3. ~ (\/ FindRefresh(q) \/ FindIdentity(q) \/ FindAccess(q) \/ Accept(q)
           \/ CheckConsent(q) \/ RevokeAuthorizationCode(q)
           \/ RotateRefreshToken(q) \/ ReuseRevokesAccess(q)
           \/ ReuseRevokesRefresh(q) \/ EnableApp(q) \/ SaveAuthorizationCode(q)
           \/ RevokePaired(q) \/ AnswerToken(q) \/ FindCode(q))
    BY <1>0, Reading DEF Kept
  <2>4. ~RevokePresented(q) /\ ~Finish(q)
    BY <1>0, Presenting DEF Finish
  <2>5. ~Mint(q)
    BY <1>0, Minting DEF Path
  <2> QED
    BY <2>1, <2>2, <2>3, <2>4, <2>5 DEF Handle
<1>2. CASE CreateRefresh(q)
  BY <1>0, <1>2, Writing
<1>3. CASE CreateAccess(q)
  <2>1. /\ Wrote(req[q], req'[q]) /\ req'[q].todo = req[q].todo \ {"access"}
        /\ ParentsExist(req[q].cl, req[q].own, CodeOf(q), req[q].rt)
        /\ req'[q].ans = req[q].ans
    BY <1>0, <1>3, Writing
  <2>2. PICK e : Insert(req[q].at, req[q].cl, req[q].own, CodeOf(q), req[q].rt,
                        req[q].scope, e)
    BY <1>0, <1>3, Writing
  <2>3. /\ UNCHANGED <<clients, users, iots, consents, known>>
        /\ "access" \in req[q].todo /\ "refresh" \notin req[q].todo
    BY <1>3 DEF CreateAccess
  <2>4. req[q].at \in Ids /\ row[req[q].at].st = "minted"
    BY <1>0, <2>3 DEF MintOK, Pending, ReqType, Ids
  <2>5. Adds(req[q].at, req[q].cl, req[q].own, CodeOf(q), req[q].rt)
    BY <1>0, <2>2, <2>4 DEF Insert, Adds
  <2>6. w = "access"
    BY <2>1
  <2> QED
    BY <2>1, <2>3, <2>5, <2>6 DEF AddsAccess
<1>4. CASE RecordConsent(q)
  <2>1. /\ req'[q].todo = req[q].todo \ {"consent"} /\ "consent" \in req[q].todo
        /\ \/ consents' = consents \cup {<<req[q].own, req[q].cl>>}
           \/ req'[q].ans = IF req[q].st = "saving" THEN "error" ELSE req[q].ans
    BY <1>0, <1>4, Writing DEF RecordConsent
  <2>2. req[q].st = "saving" \/ req[q].ans = "error"
    BY <1>0, <2>1 DEF Path, ReqType
  <2> QED
    BY <2>1, <2>2
<1> QED
  BY <1>1, <1>2, <1>3, <1>4

LEMMA StoredStep == TInv /\ PathOK' /\ [Next]_vars => StoredOK'
<1> SUFFICES ASSUME TInv, PathOK', [Next]_vars, NEW q \in Reqs,
                    req'[q].at # None, "access" \notin req'[q].todo,
                    req'[q].ans # "error", NEW i \in Held(req'[q])
             PROVE  row'[i].st \in {"live", "gone"}
  BY DEF StoredOK, Stored, Held
<1> USE OAuthAssumption
<1>0. /\ TypeOK /\ KindOK /\ MintOK /\ PathOK /\ StoredOK
      /\ req \in [Reqs -> ReqType] /\ req[q] \in ReqType
  BY DEF TInv, IInv, TypeOK
<1>1. CASE Holds(req[q], req'[q])
  <2>1. i \in Held(req[q]) /\ i \in Ids /\ req[q].at # None /\ req[q].ans # "error"
    BY <1>0, <1>1 DEF Held, Holds, ReqType, Ids
  <2>2. CASE "access" \notin req[q].todo
    BY <1>0, <2>1, <2>2, RowsKept DEF StoredOK, Stored
  <2>3. CASE "access" \in req[q].todo
    <3>1. AddsAccess(q)
      BY <1>0, <1>1, <2>1, <2>3, Leaving
    <3>2. CASE i = req[q].at
      BY <3>1, <3>2 DEF AddsAccess, Adds
    <3>3. CASE i = req[q].rt
      BY <1>0, <2>1, <3>1, <3>3, RowsKept DEF AddsAccess, ParentsExist, Live, Stored
    <3> QED
      BY <2>1, <3>2, <3>3 DEF Held
  <2> QED
    BY <2>2, <2>3
<1>2. ~ \E t, a, p : Draws(q, t, a, p)
  BY DEF Draws, Plans
<1> QED
  BY <1>0, <1>1, <1>2, Holding

LEMMA PairStep == TInv /\ PathOK' /\ [Next]_vars => PairOK'
<1> SUFFICES ASSUME TInv, PathOK', [Next]_vars, NEW q \in Reqs,
                    "access" \in req'[q].todo, req'[q].rt # None,
                    NEW i \in Ids, Live(i)', row'[i].rt = req'[q].rt
             PROVE  FALSE
  BY DEF PairOK, Live
<1> USE OAuthAssumption
<1>0. /\ TypeOK /\ KindOK /\ MintOK /\ PathOK /\ HeldOK /\ PairOK /\ OwnersAgree
      /\ req \in [Reqs -> ReqType] /\ req[q] \in ReqType /\ row \in [Ids -> RowType]
  BY DEF TInv, IInv, TypeOK
<1>1. CASE Holds(req[q], req'[q])
  <2>1. "access" \in req[q].todo /\ req[q].rt = req'[q].rt
    BY <1>1 DEF Holds
  <2>2. CASE Live(i)
    BY <1>0, <2>1, <2>2, RowsKept DEF PairOK, Parents
  <2>3. CASE ~Live(i)
    <3>1. PICK r \in Reqs : AddsAccess(r) /\ i = req[r].at
      <4>1. ASSUME NEW r \in Reqs, AddsRefresh(r), i = req[r].rt PROVE row'[i].rt = None
        BY <4>1 DEF AddsRefresh, Adds
      <4>2. ASSUME NEW r \in Reqs, Adds(i, req[r].cl, req[r].own, None, None)
            PROVE  row'[i].rt = None
        BY <4>2 DEF Adds
      <4> QED
        BY <1>0, <2>3, <4>1, <4>2, Born
    <3>2. row'[i].rt = req[r].rt
      BY <3>1 DEF AddsAccess, Adds
    <3>3. r = q
      <4>1. req[q].rt \in Held(req[q]) /\ req[q].rt \in Held(req[r])
        BY <2>1, <3>2 DEF Held
      <4> QED
        BY <1>0, <4>1 DEF HeldOK
    <3> QED
      BY <3>1, <3>3 DEF AddsAccess
  <2> QED
    BY <2>2, <2>3
<1>2. ASSUME NEW t, NEW a, NEW p, Draws(q, t, a, p) PROVE FALSE
  <2>1. t \in Fresh(Refreshes) /\ row'[i].rt = t
    BY <1>2 DEF Draws, Plans
  <2>2. row'[i] = row[i] \/ row'[i] = [row[i] EXCEPT !.st = "minted"]
    BY <1>2 DEF Draws, Plans
  <2>3. row'[i] = row[i]
    <3>1. [row[i] EXCEPT !.st = "minted"].st = "minted"
      BY <1>0 DEF RowType
    <3> QED
      BY <2>2, <3>1 DEF Live
  <2>4. Live(t)
    BY <1>0, <2>1, <2>3 DEF OwnersAgree, Live
  <2> QED
    BY <2>1, <2>4 DEF Fresh, Live
<1> QED
  BY <1>0, <1>1, <1>2, Holding

LEMMA OneStep == TInv /\ [Next]_vars => OneAccessPerRefresh'
<1> SUFFICES ASSUME TInv, [Next]_vars, NEW a \in Accesses, NEW b \in Accesses,
                    Live(a)', Live(b)', row'[a].rt # None, row'[a].rt = row'[b].rt
             PROVE  a = b
  BY DEF OneAccessPerRefresh, Live
<1>0. TypeOK /\ KindOK /\ MintOK /\ PairOK /\ OneAccessPerRefresh /\ a \in Ids /\ b \in Ids
  BY DEF TInv, IInv, Ids
<1>1. CASE Live(a) /\ Live(b)
  BY <1>0, <1>1, RowsKept DEF OneAccessPerRefresh, Parents
<1>2. ASSUME NEW x \in {a, b}, ~Live(x), NEW y \in {a, b} PROVE x = y
  <2>1. PICK r \in Reqs : AddsAccess(r) /\ x = req[r].at
    <3>1. ASSUME NEW r \in Reqs, AddsRefresh(r), x = req[r].rt PROVE row'[x].rt = None
      BY <3>1 DEF AddsRefresh, Adds
    <3>2. ASSUME NEW r \in Reqs, Adds(x, req[r].cl, req[r].own, None, None)
          PROVE  row'[x].rt = None
      BY <3>2 DEF Adds
    <3> QED
      BY <1>0, <1>2, <3>1, <3>2, Born
  <2>2. /\ row'[x].rt = req[r].rt /\ "access" \in req[r].todo
        /\ \A j \in Ids \ {x} : row'[j] = row[j]
    BY <2>1 DEF AddsAccess, Adds
  <2>3. ~(Live(y) /\ x # y)
    BY <1>0, <2>2 DEF PairOK
  <2> QED
    BY <1>0, <2>2, <2>3 DEF Live
<1> QED
  BY <1>1, <1>2

-----------------------------------------------------------------------------
(* Whose the stored codes and tokens are. *)

\* What a cascade leaves has all its parents, and is none of the rows deleted.
LEMMA CascadeKeeps ==
  ASSUME TypeOK, ShapeOK, OwnersAgree, NEW S \in SUBSET Ids, Cascade(S),
         NEW i \in Ids, Live(i)'
  PROVE  /\ Live(i) /\ row'[i] = row[i] /\ i \notin S
         /\ \A j \in {row[i].code, row[i].rt} \ {None} : row'[j] = row[j]
<1> USE OAuthAssumption
<1> DEFINE C == S \cup {x \in Ids : Live(x) /\ row[x].code \in S}
           D == C \cup {x \in Ids : Live(x) /\ row[x].rt \in C}
<1>0. row \in [Ids -> RowType] /\ None \notin Ids
  BY DEF TypeOK, Ids
<1>1. \A x \in Ids : row'[x] = IF x \in D THEN [row[x] EXCEPT !.st = "gone"] ELSE row[x]
  BY Zenon DEF Cascade
<1>2. i \notin D
  <2>1. [row[i] EXCEPT !.st = "gone"].st = "gone"
    BY <1>0 DEF RowType
  <2> QED
    BY <1>1, <2>1 DEF Live
<1>3. row'[i] = row[i] /\ Live(i) /\ i \notin S
  BY <1>1, <1>2 DEF Live
<1>4. ASSUME NEW j \in {row[i].code, row[i].rt} \ {None} PROVE row'[j] = row[j]
  <2>1. Live(j) /\ (j = row[i].code => j \in Codes) /\ (j = row[i].rt => j \in Refreshes)
    BY <1>0, <1>3 DEF OwnersAgree, RowType
  <2>2. j \in Ids /\ j \notin Accesses /\ row[j].rt = None
    BY <2>1 DEF Ids, ShapeOK
  <2>3. j \in Codes => row[j].code = None
    BY <2>1, <2>2 DEF ShapeOK
  <2>4. CASE j = row[i].rt
    BY <1>0, <1>1, <1>2, <1>3, <2>2, <2>4
  <2>5. CASE j = row[i].code
    BY <1>0, <1>1, <1>2, <1>3, <2>1, <2>2, <2>3, <2>5
  <2> QED
    BY <2>4, <2>5
<1> QED
  BY <1>3, <1>4

LEMMA OwnersStep == TInv /\ [Next]_vars => OwnersAgree'
<1> SUFFICES ASSUME TInv, [Next]_vars PROVE OwnersAgree'
  OBVIOUS
<1> USE OAuthAssumption
<1>0. /\ TypeOK /\ KindOK /\ MintOK /\ HeldOK /\ CodeOK /\ ShapeOK /\ OwnersAgree
      /\ TypeOK' /\ row \in [Ids -> RowType] /\ req \in [Reqs -> ReqType]
      /\ None \notin Ids
  BY TypeStep DEF TInv, IInv, TypeOK, Ids
<1>1. CASE Frame
  <2>1. \A i \in Ids : /\ Live(i)' <=> Live(i)
                       /\ row'[i].cl = row[i].cl /\ row'[i].own = row[i].own
                       /\ row'[i].code = row[i].code /\ row'[i].rt = row[i].rt
    BY <1>1 DEF Frame, Parents, Live
  <2>2. \A i \in Ids : {row[i].code, row[i].rt} \ {None} \subseteq Ids
    BY <1>0 DEF RowType, Ids
  <2>3. UNCHANGED <<clients, users, iots>>
    BY <1>1 DEF Frame
  <2> QED
    BY <1>0, <2>1, <2>2, <2>3 DEF OwnersAgree
<1>2. ASSUME NEW S \in SUBSET Ids, Cascade(S),
             \A i \in Ids : Live(i) /\ i \notin S =>
                /\ row[i].cl \in clients'
                /\ row[i].own \in users' \cup iots' \cup {None}
      PROVE  OwnersAgree'
  <2>1. ASSUME NEW i \in Ids, Live(i)'
        PROVE  /\ row'[i].cl \in clients'
               /\ row'[i].own \in users' \cup iots' \cup {None}
               /\ \A j \in {row'[i].code, row'[i].rt} \ {None} :
                     /\ row'[j].st = "live"
                     /\ row'[j].cl = row'[i].cl /\ row'[j].own = row'[i].own
               /\ row'[i].rt # None => row'[row'[i].rt].code = row'[i].code
    <3>1. /\ Live(i) /\ row'[i] = row[i] /\ i \notin S
          /\ \A j \in {row[i].code, row[i].rt} \ {None} : row'[j] = row[j]
      BY <1>0, <1>2, <2>1, CascadeKeeps
    <3>2. row[i].rt # None => row[row[i].rt].code = row[i].code
      BY <1>0, <3>1 DEF OwnersAgree
    <3>3. \A j \in {row[i].code, row[i].rt} \ {None} :
             /\ row[j].st = "live"
             /\ row[j].cl = row[i].cl /\ row[j].own = row[i].own
      BY <1>0, <3>1 DEF OwnersAgree, Live
    <3> QED
      BY <1>2, <3>1, <3>2, <3>3
  <2> QED
    BY <2>1 DEF OwnersAgree, Live
<1>3. CASE Remove
  <2>1. ASSUME NEW c \in Clients, DeleteClient(c) PROVE OwnersAgree'
    <3> DEFINE S == {i \in Ids : Live(i) /\ (row[i].cl = c
                        \/ \E o \in iots : row[i].own = o /\ ClientOf[o] = c)}
    <3>1. /\ Cascade(S) /\ clients' = clients \ {c} /\ users' = users
          /\ iots' = {i \in iots : ClientOf[i] # c}
      BY <2>1 DEF DeleteClient
    <3>2. \A i \in Ids : Live(i) /\ i \notin S =>
             /\ row[i].cl \in clients'
             /\ row[i].own \in users' \cup iots' \cup {None}
      BY <1>0, <3>1 DEF OwnersAgree
    <3> QED
      BY <1>2, <3>1, <3>2
  <2>2. ASSUME NEW u \in Users, DeleteUser(u) PROVE OwnersAgree'
    <3> DEFINE S == {i \in Ids : Live(i) /\ row[i].own = u}
    <3>1. /\ Cascade(S) /\ users' = users \ {u} /\ clients' = clients /\ iots' = iots
      BY <2>2 DEF DeleteUser
    <3>2. \A i \in Ids : Live(i) /\ i \notin S =>
             /\ row[i].cl \in clients'
             /\ row[i].own \in users' \cup iots' \cup {None}
      BY <1>0, <3>1 DEF OwnersAgree
    <3> QED
      BY <1>2, <3>1, <3>2
  <2>3. ASSUME NEW o \in Iots, DeleteIot(o) PROVE OwnersAgree'
    <3> DEFINE S == {i \in Ids : Live(i) /\ row[i].own = o}
    <3>1. /\ Cascade(S) /\ iots' = iots \ {o} /\ clients' = clients /\ users' = users
      BY <2>3 DEF DeleteIot
    <3>2. \A i \in Ids : Live(i) /\ i \notin S =>
             /\ row[i].cl \in clients'
             /\ row[i].own \in users' \cup iots' \cup {None}
      BY <1>0, <3>1 DEF OwnersAgree
    <3> QED
      BY <1>2, <3>1, <3>2
  <2>4. ASSUME NEW p \in Users \X Clients, WithdrawConsent(p) PROVE OwnersAgree'
    BY <1>0, <2>4 DEF WithdrawConsent, OwnersAgree, Live
  <2> QED
    BY <1>3, <2>1, <2>2, <2>3, <2>4 DEF Remove
<1>4. ASSUME UNCHANGED <<clients, users, iots>>, NEW i, NEW c, NEW o,
             NEW code \in Codes \cup {None}, NEW t \in Refreshes \cup {None},
             Adds(i, c, o, code, t), ParentsExist(c, o, code, t),
             \A j \in {code, t} \ {None} : row[j].cl = c /\ row[j].own = o,
             t # None => row[t].code = code
      PROVE  OwnersAgree'
  <2>1. ASSUME NEW x \in Ids, Live(x)'
        PROVE  /\ row'[x].cl \in clients'
               /\ row'[x].own \in users' \cup iots' \cup {None}
               /\ \A j \in {row'[x].code, row'[x].rt} \ {None} :
                     /\ row'[j].st = "live"
                     /\ row'[j].cl = row'[x].cl /\ row'[j].own = row'[x].own
               /\ row'[x].rt # None => row'[row'[x].rt].code = row'[x].code
    <3>1. CASE x = i
      <4>1. /\ row'[x].cl = c /\ row'[x].own = o /\ row'[x].code = code
            /\ row'[x].rt = t /\ ~Live(i)
        BY <1>4, <3>1 DEF Adds, Live
      <4>2. \A j \in {code, t} \ {None} : j \in Ids /\ Live(j) /\ j # i
        BY <1>4, <4>1 DEF ParentsExist, Ids
      <4>3. \A j \in {code, t} \ {None} : row'[j] = row[j]
        BY <1>4, <4>2 DEF Adds
      <4> QED
        BY <1>4, <4>1, <4>2, <4>3 DEF ParentsExist, Live
    <3>2. CASE x # i
      <4>1. row'[x] = row[x] /\ Live(x) /\ ~Live(i)
        BY <1>4, <2>1, <3>2 DEF Adds, Live
      <4>2. \A j \in {row[x].code, row[x].rt} \ {None} :
               /\ Live(j) /\ j \in Ids
               /\ row[j].cl = row[x].cl /\ row[j].own = row[x].own
        BY <1>0, <4>1 DEF OwnersAgree, RowType, Ids
      <4>3. \A j \in {row[x].code, row[x].rt} \ {None} : row'[j] = row[j]
        BY <1>4, <4>1, <4>2 DEF Adds
      <4> QED
        BY <1>0, <1>4, <4>1, <4>2, <4>3 DEF OwnersAgree, Live
    <3> QED
      BY <3>1, <3>2
  <2> QED
    BY <2>1 DEF OwnersAgree, Live
<1>5. ASSUME NEW r \in Reqs, req[r].todo # {}
      PROVE  /\ CodeOf(r) \in Codes \cup {None}
             /\ CodeOf(r) # None => /\ row[CodeOf(r)].cl = req[r].cl
                                    /\ row[CodeOf(r)].own = req[r].own
  BY <1>0, <1>5 DEF CodeOf, CodeOK, KindOK
<1>6. ASSUME UNCHANGED <<clients, users, iots>>, NEW r \in Reqs, AddsRefresh(r)
      PROVE  OwnersAgree'
  <2>1. /\ CodeOf(r) \in Codes \cup {None}
        /\ CodeOf(r) # None => /\ row[CodeOf(r)].cl = req[r].cl
                               /\ row[CodeOf(r)].own = req[r].own
    BY <1>5, <1>6 DEF AddsRefresh
  <2>2. /\ Adds(req[r].rt, req[r].cl, req[r].own, CodeOf(r), None)
        /\ ParentsExist(req[r].cl, req[r].own, CodeOf(r), None)
    BY <1>6 DEF AddsRefresh
  <2> QED
    BY <1>4, <1>6, <2>1, <2>2
<1>7. ASSUME UNCHANGED <<clients, users, iots>>, NEW r \in Reqs, AddsAccess(r)
      PROVE  OwnersAgree'
  <2>1. /\ CodeOf(r) \in Codes \cup {None}
        /\ CodeOf(r) # None => /\ row[CodeOf(r)].cl = req[r].cl
                               /\ row[CodeOf(r)].own = req[r].own
    BY <1>5, <1>7 DEF AddsAccess
  <2>2. /\ Adds(req[r].at, req[r].cl, req[r].own, CodeOf(r), req[r].rt)
        /\ ParentsExist(req[r].cl, req[r].own, CodeOf(r), req[r].rt)
    BY <1>7 DEF AddsAccess
  <2>3. req[r].rt \in Refreshes \cup {None}
    BY <1>0 DEF ReqType
  <2>4. ASSUME req[r].rt # None
        PROVE  /\ row[req[r].rt].cl = req[r].cl /\ row[req[r].rt].own = req[r].own
               /\ row[req[r].rt].code = CodeOf(r)
    <3>1. req[r].rt \in Held(req[r]) /\ Stored(req[r].rt)
      BY <2>2, <2>4 DEF Held, ParentsExist, Live, Stored
    <3> QED
      BY <1>0, <3>1 DEF HeldOK
  <2>5. /\ \A j \in {CodeOf(r), req[r].rt} \ {None} :
              row[j].cl = req[r].cl /\ row[j].own = req[r].own
        /\ req[r].rt # None => row[req[r].rt].code = CodeOf(r)
    BY <2>1, <2>4
  <2> QED
    BY <1>4, <1>7, <2>1, <2>2, <2>3, <2>5
<1>8. ASSUME UNCHANGED <<clients, users, iots>>, NEW r \in Reqs, AddsCode(r)
      PROVE  OwnersAgree'
  <2>1. PICK i : Adds(i, req[r].cl, req[r].own, None, None)
    BY <1>8 DEF AddsCode
  <2>2. ParentsExist(req[r].cl, req[r].own, None, None)
    BY <1>8 DEF AddsCode, ParentsExist
  <2> QED
    BY <1>4, <1>8, <2>1, <2>2
<1> QED
  BY <1>0, <1>1, <1>3, <1>6, <1>7, <1>8, TableStep

-----------------------------------------------------------------------------
(* What a revocation covers. *)

\* A row that is still valid has its save under way if it had.
LEMMA SavesStep ==
  ASSUME TypeOK, KindOK, MintOK, [Next]_vars, NEW i \in Ids, Stored(i), ~DbFails,
         Live(i)', row'[i].valid
  PROVE  /\ Live(i) /\ row[i].valid /\ Parents(i)' = Parents(i)
         /\ i \in saves => i \in saves'
<1>0. row[i] \in RowType /\ RowsEvolve /\ row \in [Ids -> RowType]
  BY RowStep DEF TypeOK
<1>1. Live(i) /\ row[i].valid
  <2>1. CASE Steady(i)
    <3>1. [row[i] EXCEPT !.valid = FALSE].valid = FALSE
          /\ [row[i] EXCEPT !.st = "gone"].st = "gone"
          /\ [row[i] EXCEPT !.st = "minted"].st = "minted"
      BY <1>0 DEF RowType
    <3> QED
      BY <2>1, <3>1 DEF Steady, Live
  <2>2. CASE row'[i] = row[i]
    BY <2>2 DEF Live
  <2>3. ~Issued(i)
    BY DEF Issued, Stored
  <2> QED
    BY <1>0, <2>1, <2>2, <2>3 DEF RowsEvolve
<1>2. Parents(i)' = Parents(i)
  BY RowsKept
<1>3. ASSUME i \in saves PROVE i \in saves'
  <2>1. CASE \E r \in Reqs : NewRequest(r)
    BY <1>3, <2>1, Arriving DEF tables, TypeOK
  <2>2. CASE \E r \in Reqs : Handle(r)
    BY <1>3, <2>2 DEF Handle, tables, noSave, SendSaveOfOne, FindCode,
     FindRefresh, FindIdentity, FindAccess, Accept, CheckConsent, Finish,
     RevokeAuthorizationCode, RotateRefreshToken, ReuseRevokesAccess,
     ReuseRevokesRefresh, RevokePresented, RevokePaired, Mint, CreateRefresh,
     CreateAccess, RecordConsent, AnswerToken, EnableApp, SaveAuthorizationCode
  <2>3. ~SaveLands(i) /\ ~ \E j \in Ids : SaveLost(j)
    <3>1. Live(i) => [row EXCEPT ![i].valid = FALSE][i].valid = FALSE
      BY <1>0 DEF RowType
    <3> QED
      BY <1>1, <3>1 DEF SaveLands, SaveLost
  <2>4. CASE \E j \in Ids \ {i} : SaveLands(j)
    BY <1>3, <2>4 DEF SaveLands
  <2> QED
    BY <1>3, <2>1, <2>2, <2>3, <2>4 DEF Next, Remove, DeleteClient, DeleteUser,
       DeleteIot, WithdrawConsent, Tick, vars
<1> QED
  BY <1>1, <1>2, <1>3

\* A revocation moves by the two steps of revoke_token only.
LEMMA RevokeMoves ==
  ASSUME TypeOK, PathOK, [Next]_vars, NEW q \in Reqs, req'[q].kind = "revoke"
  PROVE  \/ req'[q] = req[q] \/ Arrived(req'[q])
         \/ RevokePresented(q) \/ RevokePaired(q)
<1>0. req \in [Reqs -> ReqType] /\ Path(req[q]) /\ req[q] \in ReqType
  BY DEF TypeOK, PathOK, Path
<1>1. SUFFICES ASSUME Handle(q) PROVE RevokePresented(q) \/ RevokePaired(q)
  BY <1>0, Arriving, OthersRest, NoMover
<1>2. ~Finish(q)
  BY <1>0 DEF Finish, IdleReq
<1>3. req[q].kind = "revoke"
  <2>1. CASE CreateRefresh(q) \/ CreateAccess(q) \/ RecordConsent(q)
    BY <1>0, <2>1, Writing DEF Wrote, Same
  <2>2. CASE RevokePresented(q) \/ Mint(q)
    BY <1>0, <2>2, Presenting, Minting DEF Same
  <2>3. CASE ~ (CreateRefresh(q) \/ CreateAccess(q) \/ RecordConsent(q)
                \/ RevokePresented(q) \/ Mint(q))
    BY <1>0, <1>1, <1>2, <2>3, Reading DEF Kept, Same, Handle
  <2> QED
    BY <2>1, <2>2, <2>3
<1>4. req[q].st \in {"find", "paired", "answered"} /\ req[q].todo = {}
  BY <1>0, <1>3 DEF Path
<1> QED
  BY <1>1, <1>2, <1>3, <1>4 DEF Handle, FindCode, FindRefresh, FindIdentity,
     FindAccess, Accept, CheckConsent, RevokeAuthorizationCode,
     RotateRefreshToken, ReuseRevokesAccess, ReuseRevokesRefresh, Mint,
     CreateRefresh, CreateAccess, RecordConsent, AnswerToken, EnableApp,
     SaveAuthorizationCode, At

LEMMA HitStep == TInv /\ PathOK' /\ [Next]_vars => HitOK'
<1> SUFFICES ASSUME TInv, PathOK', [Next]_vars, NEW q \in Reqs, req'[q].hit
             PROVE  /\ row'[req'[q].tok].st \in {"live", "gone"}
                    /\ row'[req'[q].tok].cl = req'[q].cl
                    /\ ~DbFails /\ row'[req'[q].tok].st = "live"
                         /\ row'[req'[q].tok].valid => req'[q].tok \in saves'
  BY DEF HitOK, Stored, Live
<1>0. /\ TypeOK /\ KindOK /\ MintOK /\ PathOK /\ HitOK /\ KindOK'
      /\ req \in [Reqs -> ReqType] /\ req[q] \in ReqType /\ Path(req'[q])
  BY TypeStep DEF TInv, IInv, TypeOK, PathOK, Path
<1>1. req'[q].kind = "revoke" /\ req'[q].tok \in Ids
  BY <1>0 DEF Path, KindOK, Ids
<1>2. PICK i \in Ids : i = req'[q].tok
  BY <1>1
<1>3. ASSUME req[q].hit, Same(req[q], req'[q])
      PROVE  /\ row'[i].st \in {"live", "gone"} /\ row'[i].cl = req'[q].cl
             /\ ~DbFails /\ Live(i)' /\ row'[i].valid => i \in saves'
  <2>1. /\ Stored(i) /\ row[i].cl = req'[q].cl
        /\ ~DbFails /\ Live(i) /\ row[i].valid => i \in saves
    BY <1>0, <1>2, <1>3 DEF HitOK, Same
  <2>2. Stored(i)' /\ Parents(i)' = Parents(i)
    BY <1>0, <2>1, RowsKept
  <2>3. ASSUME ~DbFails, Live(i)', row'[i].valid PROVE i \in saves'
    BY <1>0, <2>1, <2>3, SavesStep
  <2> QED
    BY <2>1, <2>2, <2>3 DEF Stored, Parents
<1>4. CASE req'[q] = req[q] \/ RevokePaired(q)
  <2>1. req[q].hit /\ Same(req[q], req'[q])
    BY <1>0, <1>4, Reading DEF Kept, Same
  <2> QED
    BY <1>2, <1>3, <2>1 DEF Live
<1>5. CASE RevokePresented(q)
  <2>1. /\ Same(req[q], req'[q]) /\ row' = row
        /\ \/ req[q].hit
           \/ /\ Live(i) /\ row[i].cl = req[q].cl
              /\ saves' = saves \cup {i}
    BY <1>0, <1>2, <1>5, Presenting DEF RevokePresented, noSave, Same
  <2> QED
    BY <1>2, <1>3, <2>1 DEF Live, Same
<1>6. ~Arrived(req'[q])
  BY DEF Arrived
<1> QED
  BY <1>0, <1>1, <1>4, <1>5, <1>6, RevokeMoves

LEMMA CoversStep == TInv /\ PathOK' /\ HitOK' /\ OwnersAgree' /\ [Next]_vars
                      => RevocationCovers'
<1> SUFFICES ASSUME TInv, PathOK', HitOK', OwnersAgree', [Next]_vars, NEW q \in Reqs,
                    ~DbFails, req'[q].kind = "revoke", req'[q].ans = "ok",
                    req'[q].hit, NEW i \in Ids, Live(i)', row'[i].valid,
                    i = req'[q].tok \/ row'[i].rt = req'[q].tok
             PROVE  i \in saves'
  BY DEF RevocationCovers, Live
<1> USE OAuthAssumption
<1>0. /\ TypeOK /\ KindOK /\ MintOK /\ PathOK /\ HitOK /\ HeldOK /\ KindOK'
      /\ OwnersAgree /\ ShapeOK /\ OneAccessPerRefresh /\ RevocationCovers
      /\ req \in [Reqs -> ReqType] /\ req[q] \in ReqType /\ row \in [Ids -> RowType]
      /\ row'[i] \in RowType /\ Path(req[q])
  BY TypeStep DEF TInv, IInv, TypeOK, PathOK, Path
<1>1. CASE i = req'[q].tok
  BY <1>1 DEF HitOK, Live
<1>2. CASE i # req'[q].tok
  <2>1. PICK t : t = req'[q].tok /\ t \in Ids /\ row'[i].rt = t /\ t \in Refreshes
    BY <1>0, <1>2 DEF KindOK, Ids, RowType
  <2>2. ~RevokePresented(q)
    <3>1. ASSUME RevokePresented(q) PROVE FALSE
      <4>1. req[q].st = "find" /\ ~req[q].hit /\ req[q].tok = t
        BY <1>0, <2>1, <3>1, Presenting DEF RevokePresented, At, Path, Same
      <4>2. req'[q].st = "paired" \/ req'[q].hit = req[q].hit
        BY <1>0, <2>1, <3>1, <4>1, Presenting
      <4> QED
        BY <1>0, <4>1, <4>2 DEF PathOK, Path
    <3> QED
      BY <3>1
  <2>3. Same(req[q], req'[q]) /\ req[q].hit
    <3>1. req'[q] = req[q] \/ RevokePaired(q)
      BY <1>0, <2>2, RevokeMoves DEF Arrived
    <3> QED
      BY <1>0, <3>1, Reading DEF Kept, Same
  <2>4. Live(i)
    <3>1. ASSUME ~Live(i) PROVE FALSE
      <4>1. t \in known /\ t # None
        BY <1>0, <2>1, <2>3 DEF PathOK, Same, Ids
      <4>2. PICK r \in Reqs : AddsAccess(r) /\ i = req[r].at
        <5>1. ASSUME NEW r \in Reqs, AddsRefresh(r), i = req[r].rt PROVE row'[i].rt = None
          BY <5>1 DEF AddsRefresh, Adds
        <5>2. ASSUME NEW r \in Reqs, Adds(i, req[r].cl, req[r].own, None, None)
              PROVE  row'[i].rt = None
          BY <5>2 DEF Adds
        <5> QED
          BY <1>0, <2>1, <3>1, <4>1, <5>1, <5>2, Born
      <4>3. req[r].rt = t /\ "access" \in req[r].todo
        BY <2>1, <4>2 DEF AddsAccess, Adds
      <4>4. req[r].ans = "ok"
        BY <1>0, <4>1, <4>3 DEF HeldOK, Held
      <4> QED
        BY <1>0, <4>3, <4>4 DEF PathOK, Path
    <3> QED
      BY <3>1
  <2>5. row[i].valid /\ Parents(i)' = Parents(i) /\ (i \in saves => i \in saves')
    BY <1>0, <2>4, SavesStep DEF Stored, Live
  <2>6. row[i].rt = t /\ row[i].rt # None
    BY <1>0, <2>1, <2>5 DEF Parents, Ids
  <2>7. CASE req'[q] = req[q]
    <3>1. i \in saves
      BY <1>0, <2>1, <2>4, <2>5, <2>6, <2>7 DEF RevocationCovers
    <3> QED
      BY <2>5, <3>1
  <2>8. CASE RevokePaired(q)
    <3> DEFINE S == Matching({x \in Accesses : /\ row[x].rt = req[q].tok
                                               /\ row[x].cl = req[q].cl})
    <3>1. SendSaveOfOne(S) /\ req[q].tok = t
      BY <2>1, <2>3, <2>8 DEF RevokePaired, Same
    <3>2. row[t].cl = req[q].cl /\ row[t].cl = row[i].cl
      BY <1>0, <2>3, <2>4, <2>6, <3>1 DEF HitOK, OwnersAgree
    <3>3. i \in Accesses
      BY <1>0, <2>4, <2>6 DEF ShapeOK
    <3>4. i \in S
      BY <2>4, <2>5, <2>6, <3>1, <3>2, <3>3 DEF Matching
    <3>5. \A j \in S : j = i
      BY <1>0, <2>4, <2>6, <3>1, <3>3 DEF Matching, OneAccessPerRefresh
    <3> HIDE DEF S
    <3> QED
      BY <3>1, <3>4, <3>5 DEF SendSaveOfOne
  <2> QED
    BY <1>0, <2>2, <2>7, <2>8, RevokeMoves DEF Arrived
<1> QED
  BY <1>1, <1>2

-----------------------------------------------------------------------------
(* Consents. *)

\* An agreement holds as long as consents are not withdrawn.
LEMMA AgreedStays ==
  ASSUME TypeOK, [Next]_vars, "consent" \notin Removals, NEW u, NEW c, Agreed(u, c)
  PROVE  Agreed(u, c)'
<1>1. req \in [Reqs -> ReqType]
  BY DEF TypeOK
<1>2. CASE \E r \in Reqs : NewRequest(r)
  BY <1>1, <1>2, Arriving DEF tables, Agreed
<1>3. CASE \E r \in Reqs : Handle(r)
  BY <1>3 DEF Agreed, Handle, tables, noSave, FindCode,
     FindRefresh, FindIdentity, FindAccess, Accept, CheckConsent, Finish,
     RevokeAuthorizationCode, RotateRefreshToken, ReuseRevokesAccess,
     ReuseRevokesRefresh, RevokePresented, RevokePaired, Mint, CreateRefresh,
     CreateAccess, RecordConsent, AnswerToken, EnableApp, SaveAuthorizationCode
<1>4. CASE Remove
  BY <1>4 DEF Agreed, Remove, DeleteClient, DeleteUser, DeleteIot, WithdrawConsent
<1> QED
  BY <1>2, <1>3, <1>4 DEF Next, SaveLands, SaveLost, Tick, vars, Agreed

LEMMA ConsentStep == TInv /\ PathOK' /\ [Next]_vars => ConsentOK'
<1> SUFFICES ASSUME TInv, PathOK', [Next]_vars, AskAuthorization,
                    "consent" \notin Removals, NEW q \in Reqs, req'[q].own \in Users
             PROVE  /\ req'[q].kind \in {"authorize", "implicit"} /\ req'[q].st = "store"
                         => \/ <<req'[q].own, req'[q].cl>> \in consents'
                            \/ req'[q].own \notin users' \/ req'[q].cl \notin clients'
                    /\ Held(req'[q]) # {} /\ "consent" \notin req'[q].todo
                         /\ req'[q].ans # "error"
                         => \/ <<req'[q].own, req'[q].cl>> \in consents'
                            \/ req'[q].own \notin users' \/ req'[q].cl \notin clients'
  BY DEF ConsentOK, Agreed, Held
<1>0. /\ TypeOK /\ KindOK /\ MintOK /\ PathOK /\ ConsentOK
      /\ req \in [Reqs -> ReqType] /\ req[q] \in ReqType /\ Path(req[q])
  BY DEF TInv, IInv, TypeOK, PathOK, Path
<1>1. ASSUME NEW u, NEW c, Agreed(u, c), u = req'[q].own, c = req'[q].cl
      PROVE  \/ <<req'[q].own, req'[q].cl>> \in consents'
             \/ req'[q].own \notin users' \/ req'[q].cl \notin clients'
  BY <1>0, <1>1, AgreedStays DEF Agreed
<1>2. ASSUME req'[q].kind \in {"authorize", "implicit"}, req'[q].st = "store"
      PROVE  \/ <<req'[q].own, req'[q].cl>> \in consents'
             \/ req'[q].own \notin users' \/ req'[q].cl \notin clients'
  <2>1. CASE req'[q] = req[q]
    BY <1>0, <1>1, <1>2, <2>1 DEF ConsentOK
  <2>2. CASE req'[q] # req[q]
    <3>1. NewRequest(q) \/ Handle(q)
      BY <1>0, <2>2, OthersRest, NoMover
    <3>2. ~NewRequest(q)
      BY <1>0, <1>2, Arriving DEF Arrived
    <3>3. ~RevokePresented(q) /\ ~Finish(q) /\ ~Mint(q)
      BY <1>0, <1>2, Presenting, Minting DEF Finish, IdleReq
    <3>4. ~ (CreateRefresh(q) \/ CreateAccess(q) \/ RecordConsent(q))
      <4>1. ASSUME CreateRefresh(q) \/ CreateAccess(q) \/ RecordConsent(q) PROVE FALSE
        <5>1. req'[q].st = req[q].st /\ req[q].todo # {}
          BY <1>0, <4>1, Writing DEF Wrote, CreateRefresh, CreateAccess, RecordConsent
        <5> QED
          BY <1>0, <1>2, <5>1 DEF Path
      <4> QED
        BY <4>1
    <3>5. \/ FindRefresh(q) \/ FindIdentity(q) \/ FindAccess(q) \/ Accept(q)
          \/ CheckConsent(q) \/ RevokeAuthorizationCode(q)
          \/ RotateRefreshToken(q) \/ ReuseRevokesAccess(q)
          \/ ReuseRevokesRefresh(q) \/ EnableApp(q) \/ SaveAuthorizationCode(q)
          \/ RevokePaired(q) \/ AnswerToken(q) \/ FindCode(q)
      BY <3>1, <3>2, <3>3, <3>4 DEF Handle
    <3>6. /\ req[q].kind = req'[q].kind /\ req[q].cl = req'[q].cl
          /\ req[q].own = req'[q].own
      BY <1>0, <1>2, <3>5, Reading DEF Kept, Same
    <3>7. CheckConsent(q) \/ EnableApp(q) \/ SaveAuthorizationCode(q) \/ AnswerToken(q)
      BY <1>2, <3>5, <3>6 DEF FindRefresh, FindIdentity, FindAccess, Accept,
         RevokeAuthorizationCode, RotateRefreshToken, ReuseRevokesAccess,
         ReuseRevokesRefresh, RevokePaired, FindCode, At
    <3>8. ~SaveAuthorizationCode(q) /\ ~AnswerToken(q)
      BY <1>0, <1>2 DEF SaveAuthorizationCode, AnswerToken, Reply, ReqType
    <3>9. <<req[q].own, req[q].cl>> \in consents'
      BY <1>0, <1>2, <3>7, <3>8 DEF CheckConsent, EnableApp, Reply, ReqType, tables
    <3> QED
      BY <3>6, <3>9
  <2> QED
    BY <2>1, <2>2
<1>3. ASSUME Held(req'[q]) # {}, "consent" \notin req'[q].todo, req'[q].ans # "error"
      PROVE  \/ <<req'[q].own, req'[q].cl>> \in consents'
             \/ req'[q].own \notin users' \/ req'[q].cl \notin clients'
  <2>1. Holds(req[q], req'[q])
    <3>1. ~ \E t, a, p : Draws(q, t, a, p)
      BY <1>3 DEF Draws, Plans
    <3> QED
      BY <1>0, <1>3, <3>1, Holding DEF Held
  <2>2. /\ Held(req[q]) # {} /\ req[q].own = req'[q].own /\ req[q].cl = req'[q].cl
        /\ req[q].at # None \/ req[q].rt # None
    BY <1>3, <2>1 DEF Held, Holds, Same
  <2>3. CASE "consent" \in req[q].todo
    BY <1>0, <1>3, <2>1, <2>2, <2>3, Leaving
  <2>4. CASE "consent" \notin req[q].todo
    <3>1. req[q].ans # "error"
      BY <1>3, <2>1, <2>2 DEF Holds
    <3>2. Agreed(req[q].own, req[q].cl)
      BY <1>0, <2>2, <2>4, <3>1 DEF ConsentOK
    <3> QED
      BY <1>1, <2>2, <3>2
  <2> QED
    BY <2>3, <2>4
<1> QED
  BY <1>2, <1>3

LEMMA ConsentedStep ==
  TInv /\ PathOK' /\ OwnersAgree' /\ [Next]_vars => TokensConsented'
<1> SUFFICES ASSUME TInv, PathOK', OwnersAgree', [Next]_vars, AskAuthorization,
                    "consent" \notin Removals, NEW i \in known', Live(i)',
                    row'[i].own \in Users
             PROVE  <<row'[i].own, row'[i].cl>> \in consents'
  BY DEF TokensConsented, Live
<1> USE OAuthAssumption
<1>0. /\ TypeOK /\ KindOK /\ MintOK /\ PathOK /\ ConsentOK /\ HeldOK /\ TokensConsented
      /\ req \in [Reqs -> ReqType] /\ row \in [Ids -> RowType] /\ TypeOK' /\ i \in Ids
  BY TypeStep DEF TInv, IInv, TypeOK
<1>1. /\ row'[i].own \in users' /\ row'[i].cl \in clients'
  BY <1>0 DEF OwnersAgree, TypeOK
<1>2. ASSUME NEW u, NEW c, Agreed(u, c), u = row'[i].own, c = row'[i].cl
      PROVE  <<row'[i].own, row'[i].cl>> \in consents'
  BY <1>0, <1>1, <1>2, AgreedStays DEF Agreed
<1>3. CASE Live(i) /\ i \in known
  BY <1>0, <1>2, <1>3, RowsKept DEF TokensConsented, Agreed, Parents
<1>4. CASE ~Live(i) /\ i \in known
  <2>1. row[i].st # "free"
    BY <1>0, <1>4 DEF HeldOK
  <2>2. ASSUME NEW r \in Reqs, i \in Held(req[r])
        PROVE  /\ "access" \notin req[r].todo /\ "consent" \notin req[r].todo
               /\ req[r].ans # "error"
    <3>1. req[r].ans = "ok"
      BY <1>0, <1>4, <2>2 DEF HeldOK
    <3> QED
      BY <1>0, <3>1 DEF PathOK, Path
  <2>3. ASSUME NEW r \in Reqs, AddsRefresh(r), i = req[r].rt
        PROVE  <<row'[i].own, row'[i].cl>> \in consents'
    <3>1. i \in Held(req[r]) /\ row'[i].own = req[r].own /\ row'[i].cl = req[r].cl
      BY <1>0, <2>3 DEF AddsRefresh, Adds, Held, Ids
    <3>2. Agreed(req[r].own, req[r].cl)
      BY <1>0, <2>2, <3>1 DEF ConsentOK
    <3> QED
      BY <1>2, <3>1, <3>2
  <2>4. ASSUME NEW r \in Reqs, AddsAccess(r), i = req[r].at PROVE FALSE
    <3>1. i \in Held(req[r]) /\ "access" \in req[r].todo
      BY <1>0, <2>4 DEF AddsAccess, Held, Ids
    <3> QED
      BY <2>2, <3>1
  <2> QED
    BY <1>0, <1>4, <2>1, <2>3, <2>4, Born DEF Fresh
<1>5. CASE i \notin known
  <2>1. ASSUME NEW r \in Reqs, i \in Held(req[r]), row' = row,
               req[r].ans # "error", "consent" \notin req[r].todo
        PROVE  <<row'[i].own, row'[i].cl>> \in consents'
    <3>1. row'[i].own = req[r].own /\ row'[i].cl = req[r].cl
      BY <1>0, <2>1 DEF HeldOK, Live, Stored
    <3>2. Agreed(req[r].own, req[r].cl)
      BY <1>0, <2>1, <3>1 DEF ConsentOK
    <3> QED
      BY <1>2, <3>1, <3>2
  <2>2. ASSUME NEW r \in Reqs, AddsCode(r), Adds(i, req[r].cl, req[r].own, None, None)
        PROVE  <<row'[i].own, row'[i].cl>> \in consents'
    <3>1. row'[i].own = req[r].own /\ row'[i].cl = req[r].cl
      BY <2>2 DEF Adds
    <3>2. req[r].kind = "authorize" /\ req[r].st = "store"
      BY <2>2 DEF AddsCode
    <3>3. Agreed(req[r].own, req[r].cl)
      BY <1>0, <3>1, <3>2 DEF ConsentOK
    <3> QED
      BY <1>2, <3>1, <3>3
  <2> QED
    BY <1>0, <1>5, <2>1, <2>2, KnownStep
<1> QED
  BY <1>3, <1>4, <1>5

-----------------------------------------------------------------------------
LEMMA TInvStep == TInv /\ [Next]_vars => TInv'
<1> SUFFICES ASSUME TInv, [Next]_vars PROVE TInv'
  OBVIOUS
<1>1. IInv' /\ PathOK'
  BY IInvStep, PathStep DEF TInv, IInv
<1>2. OwnersAgree' /\ HitOK'
  BY <1>1, OwnersStep, HitStep
<1>3. /\ HeldOK' /\ CodeOK' /\ StoredOK' /\ ShapeOK' /\ PairOK'
      /\ OneAccessPerRefresh' /\ ConsentOK'
  BY <1>1, HeldStep, CodeStep, StoredStep, ShapeStep, PairStep, OneStep, ConsentStep
<1>4. RevocationCovers' /\ TokensConsented'
  BY <1>1, <1>2, CoversStep, ConsentedStep
<1> QED
  BY <1>1, <1>2, <1>3, <1>4 DEF TInv

LEMMA TInvAlways == Spec => []TInv
  BY InitTInv, TInvStep, PTL DEF Spec

(* A stored code or token belongs to a client and an identity that exist,  *)
(* and to those of the code and of the refresh token it came from: the     *)
(* inserts of storeToken, the foreign keys and the cascades of the         *)
(* migrations never let a row be left behind, in any interleaving.         *)
THEOREM TokensHaveOwners == Spec => []OwnersAgree
<1>1. TInv => OwnersAgree
  BY DEF TInv
<1> QED
  BY <1>1, TInvAlways, PTL

(* No refresh token ever has two access tokens, so that the findOne of     *)
(* revokeAccessToken finds all there are.                                  *)
THEOREM OneAccessToken == Spec => []OneAccessPerRefresh
<1>1. TInv => OneAccessPerRefresh
  BY DEF TInv
<1> QED
  BY <1>1, TInvAlways, PTL

(* What POST /oauth2/revoke found and answered for is covered with every   *)
(* access token issued with it: whatever is still valid has its save under *)
(* way (revoke_token, revokeRefreshToken, revokeAccessToken).              *)
THEOREM RevocationIsComplete == Spec => []RevocationCovers
<1>1. TInv => RevocationCovers
  BY DEF TInv
<1> QED
  BY <1>1, TInvAlways, PTL

(* No client holds a token of a user without the consent of that user, as  *)
(* long as consents are not withdrawn (check_user_authorized_application,  *)
(* enable_app and the findOrCreate of storeToken).                         *)
THEOREM ConsentComesFirst == Spec => []TokensConsented
<1>1. TInv => TokensConsented
  BY DEF TInv
<1> QED
  BY <1>1, TInvAlways, PTL

(* The tokens of a 200 answer are in the tables, or were until somebody    *)
(* deleted them: storeToken answers after the inserts it depends on.       *)
THEOREM AnswersAreStored == Spec => []AnsweredTokensStored
<1>1. TInv => AnsweredTokensStored
  BY DEF TInv, PathOK, Path, StoredOK, Held, Stored, AnsweredTokensStored
<1> QED
  BY <1>1, TInvAlways, PTL

=============================================================================

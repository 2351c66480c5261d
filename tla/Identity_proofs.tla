---------------------------- MODULE Identity_proofs ----------------------------
(***************************************************************************)
(* Proofs about Identity, for any handlers and bounds.                     *)
(*                                                                         *)
(* Shape says which row each handler holds on its way; Chains counts what  *)
(* can still be exchanged of a code: one live token or one handler about   *)
(* to issue one, never both, and nothing before the code is spent; Cut     *)
(* follows the consent a revocation withdrew through the handlers that     *)
(* read the grant before.                                                  *)
(***************************************************************************)
EXTENDS Identity, TLAPS

Due(q) == /\ req[q].at \in {"usable", "consent", "issue"}
          /\ req[q].op \in {"exchange", "refresh"}
Alive(t) == ~tokens[t].used /\ ~tokens[t].revoked

ShapeOf(q) ==
  /\ req[q].at = "burnLink" => req[q].row \in DOMAIN links
  /\ req[q].at = "code" => req[q].session \in Rows
  /\ req[q].at = "consent" =>
       req[q].op = "exchange" \/ (req[q].op = "approve" /\ req[q].session \in Rows)
  /\ req[q].at = "burnCode" => req[q].op = "exchange" /\ req[q].row \in DOMAIN codes
  /\ req[q].at \in {"usable", "issue"} => req[q].op \in {"exchange", "refresh"}
  /\ req[q].at \in {"readGrant", "burnToken"} =>
       req[q].op = "refresh" /\ req[q].row \in DOMAIN tokens
  /\ Due(q) /\ req[q].op = "exchange" =>
       req[q].row \in DOMAIN codes /\ codes[req[q].row].used
  /\ Due(q) /\ req[q].op = "refresh" =>
       req[q].row \in DOMAIN tokens /\ tokens[req[q].row].used
Shape == \A q \in Requests : ShapeOf(q)

Chains ==
  /\ \A t \in DOMAIN tokens : tokens[t].code \in DOMAIN codes /\ codes[tokens[t].code].used
  /\ \A t, u \in DOMAIN tokens :
       Alive(t) /\ Alive(u) /\ tokens[t].code = tokens[u].code => t = u
  /\ \A p, q \in Requests : Due(p) /\ Due(q) /\ ChainOf(p) = ChainOf(q) => p = q
  /\ \A t \in DOMAIN tokens, q \in Requests :
       Alive(t) /\ Due(q) => tokens[t].code # ChainOf(q)

Cut ==
  /\ cut <= consents
  /\ cut > 0 /\ cut = consents => grant # "live"
  /\ \A q \in Requests :
       /\ req[q].since <= consents
       /\ req[q].at = "killTokens" /\ req[q].since = consents => grant # "live"
       /\ req[q].op = "refresh" /\ req[q].at = "readGrant" /\ req[q].shut
            /\ req[q].since = consents => grant # "live"
       /\ req[q].op = "refresh" /\ req[q].at \in {"burnToken", "usable", "issue"} =>
            ~ (req[q].shut /\ req[q].since = consents)

IInv == TypeOK /\ Shape /\ Chains /\ Cut

-----------------------------------------------------------------------------
LEMMA Bounds ==
  /\ MaxRows \in Nat \ {0} /\ MaxCalls \in Nat /\ MaxLapses \in Nat /\ MaxCrashes \in Nat
  /\ Take \in Nat \ {0}
BY IdentityAssumption DEF IdentityAssumption

LEMMA Moved ==
  ASSUME TypeOK, NEW q \in Requests, NEW at \in Steps, Go(q, at)
  PROVE  /\ req' \in [Requests -> Request]
         /\ \A p \in Requests : p # q => req'[p] = req[p]
         /\ req'[q].at = at /\ req'[q].op = req[q].op /\ req'[q].row = req[q].row
         /\ req'[q].session = req[q].session /\ req'[q].seen = req[q].seen
         /\ req'[q].since = req[q].since /\ req'[q].shut = req[q].shut
BY DEF TypeOK, Request, Go

LEMMA Ended ==
  ASSUME TypeOK, NEW q \in Requests, Answer(q)
  PROVE  /\ req' \in [Requests -> Request]
         /\ \A p \in Requests : p # q => req'[p] = req[p]
         /\ req'[q].at = "idle" /\ req'[q].op = "none"
<1>1. Idle \in Request
  BY Bounds DEF Idle, Request, Ops, Steps
<1> QED BY <1>1 DEF TypeOK, Answer, Idle

LEMMA Replaced ==
  ASSUME NEW S, NEW s \in Seq(S), NEW r, r = [j \in DOMAIN s |-> r[j]],
         \A j \in DOMAIN s : r[j] \in S
  PROVE  r \in Seq(S) /\ Len(r) = Len(s) /\ DOMAIN r = DOMAIN s
<1>1. DOMAIN s = 1..Len(s) /\ Len(s) \in Nat
  OBVIOUS
<1>2. r \in [1..Len(s) -> S]
  BY <1>1
<1>3. r \in Seq(S)
  BY <1>1, <1>2
<1> QED BY <1>1, <1>2, <1>3

LEMMA MarkToken ==
  ASSUME NEW s \in Seq(Token), NEW i \in DOMAIN s, NEW r, r = [s EXCEPT ![i].used = TRUE]
  PROVE  /\ r \in Seq(Token) /\ Len(r) = Len(s) /\ DOMAIN r = DOMAIN s
         /\ \A j \in DOMAIN s : j # i => r[j] = s[j]
         /\ r[i].used /\ r[i].code = s[i].code /\ r[i].revoked = s[i].revoked
<1>1. \A j \in DOMAIN s : s[j] \in Token
  OBVIOUS
<1>2. /\ r = [j \in DOMAIN s |-> r[j]]
      /\ \A j \in DOMAIN s : j # i => r[j] = s[j]
      /\ r[i] = [s[i] EXCEPT !.used = TRUE]
  OBVIOUS
<1>3. /\ r[i] \in Token /\ r[i].used /\ r[i].code = s[i].code /\ r[i].revoked = s[i].revoked
  BY <1>1, <1>2 DEF Token
<1> QED BY <1>1, <1>2, <1>3, Replaced

LEMMA MarkCode ==
  ASSUME NEW s \in Seq(Code), NEW i \in DOMAIN s, NEW r, r = [s EXCEPT ![i].used = TRUE]
  PROVE  /\ r \in Seq(Code) /\ Len(r) = Len(s) /\ DOMAIN r = DOMAIN s
         /\ \A j \in DOMAIN s : j # i => r[j] = s[j]
         /\ r[i].used
<1>1. \A j \in DOMAIN s : s[j] \in Code
  OBVIOUS
<1>2. /\ r = [j \in DOMAIN s |-> r[j]]
      /\ \A j \in DOMAIN s : j # i => r[j] = s[j]
      /\ r[i] = [s[i] EXCEPT !.used = TRUE]
  OBVIOUS
<1>3. r[i] \in Code /\ r[i].used
  BY <1>1, <1>2 DEF Code
<1> QED BY <1>1, <1>2, <1>3, Replaced

LEMMA Sizes ==
  ASSUME TypeOK
  PROVE  /\ DOMAIN links \subseteq Rows /\ DOMAIN sessions \subseteq Rows
         /\ DOMAIN codes \subseteq Rows /\ DOMAIN tokens \subseteq Rows
         /\ Rows \subseteq 0..MaxRows /\ 0 \in 0..MaxRows
BY SMTT(30), Bounds DEF TypeOK, Rows

LEMMA Arrived ==
  ASSUME TypeOK, NEW q \in Requests, NEW op \in Ops, NEW at \in Steps, NEW row \in 0..MaxRows,
         NEW s \in 0..MaxRows, Arrive(q, op, at, row, s)
  PROVE  /\ req' \in [Requests -> Request]
         /\ \A p \in Requests : p # q => req'[p] = req[p]
         /\ req'[q].at = at /\ req'[q].op = op /\ req'[q].row = row /\ req'[q].session = s
         /\ req'[q].since = consents /\ req'[q].shut = (cut > 0 /\ cut = consents)
         /\ UNCHANGED <<tables, history, lapses, crashes>> /\ calls' \in Nat
<1>1. /\ (cut > 0 /\ cut = consents) \in BOOLEAN /\ consents \in Nat
      /\ status \in {"none", "pending", "active"}
  BY DEF TypeOK
<1>2. [op |-> op, at |-> at, row |-> row, session |-> s, seen |-> status, since |-> consents,
       shut |-> cut > 0 /\ cut = consents] \in Request
  BY <1>1 DEF Request
<1> QED BY SMTT(30), <1>2, Bounds DEF Arrive, TypeOK

LEMMA Added ==
  ASSUME NEW S, NEW s \in Seq(S), NEW e \in S, Room(s)
  PROVE  /\ Append(s, e) \in Seq(S) /\ Len(Append(s, e)) <= MaxRows
         /\ DOMAIN Append(s, e) = DOMAIN s \cup {Len(s) + 1} /\ Len(s) + 1 \notin DOMAIN s
         /\ \A j \in DOMAIN s : Append(s, e)[j] = s[j]
         /\ Append(s, e)[Len(s) + 1] = e
BY Bounds DEF Room

(* What a request begins with. *)
LEMMA Begun ==
  ASSUME TypeOK, NEW q \in Requests, Begin(q)
  PROVE  \E op \in Ops, at \in Steps, row \in 0..MaxRows, s \in 0..MaxRows :
           /\ Arrive(q, op, at, row, s)
           /\ at \in {"create", "renew", "session", "dropGrant", "revokeAll", "killGrant"}
              \/ (at = "burnLink" /\ row \in DOMAIN links)
              \/ (at = "code" /\ op = "authorize" /\ s \in Rows)
              \/ (at = "consent" /\ op = "approve" /\ s \in Rows)
              \/ (at = "burnCode" /\ op = "exchange" /\ row \in DOMAIN codes)
              \/ (at = "readGrant" /\ op = "refresh" /\ row \in DOMAIN tokens)
<1> USE Sizes DEF Ops, Steps
<1>1. CASE Register(q)
  BY <1>1 DEF Register
<1>2. CASE RequestReset(q)
  BY <1>2 DEF RequestReset
<1>3. CASE Login(q)
  BY <1>3 DEF Login
<1>4. CASE Disconnect(q)
  BY <1>4 DEF Disconnect
<1>5. CASE \E l \in DOMAIN links : OpenLink(q, "verify", l) \/ OpenLink(q, "reset", l)
  BY <1>5 DEF OpenLink
<1>6. CASE \E s \in DOMAIN sessions : ChangePassword(q, s) \/ Authorize(q, s) \/ Approve(q, s)
  BY <1>6 DEF ChangePassword, Authorize, Approve
<1>7. CASE \E c \in DOMAIN codes : ExchangeCode(q, c)
  <2>1. \A c \in DOMAIN codes : codes[c].session \in 0..MaxRows
    <3>1. \A c \in DOMAIN codes : codes[c] \in Code
      BY DEF TypeOK
    <3> QED BY <3>1 DEF Code
  <2> QED BY <1>7, <2>1 DEF ExchangeCode
<1>8. CASE \E t \in DOMAIN tokens : RefreshTokens(q, t)
  BY <1>8 DEF RefreshTokens
<1> QED BY <1>1, <1>2, <1>3, <1>4, <1>5, <1>6, <1>7, <1>8 DEF Begin

(* Marking a row, whatever its column, keeps the table's shape. *)
LEMMA MarkLink ==
  ASSUME NEW s \in Seq(Link), NEW r, r = [j \in DOMAIN s |-> r[j]],
         \A j \in DOMAIN s : r[j] \in {s[j], [s[j] EXCEPT !.used = TRUE],
                                       [s[j] EXCEPT !.lapsed = TRUE]}
  PROVE  r \in Seq(Link) /\ Len(r) = Len(s)
<1>0. \A j \in DOMAIN s : s[j] \in Link
  OBVIOUS
<1>1. \A j \in DOMAIN s : r[j] \in Link
  BY ZenonT(40), <1>0 DEF Link
<1> QED BY <1>1, Replaced

LEMMA MarkSession ==
  ASSUME NEW s \in Seq(Session), NEW r, r = [j \in DOMAIN s |-> r[j]],
         \A j \in DOMAIN s : r[j] \in {s[j], [s[j] EXCEPT !.revoked = TRUE],
                                       [s[j] EXCEPT !.lapsed = TRUE]}
  PROVE  r \in Seq(Session) /\ Len(r) = Len(s)
<1>0. \A j \in DOMAIN s : s[j] \in Session
  OBVIOUS
<1>1. \A j \in DOMAIN s : r[j] \in Session
  BY <1>0 DEF Session
<1> QED BY <1>1, Replaced

LEMMA LapseCode ==
  ASSUME NEW s \in Seq(Code), NEW i \in DOMAIN s, NEW r, r = Lapsed(s, i)
  PROVE  /\ r \in Seq(Code) /\ Len(r) = Len(s) /\ DOMAIN r = DOMAIN s
         /\ \A j \in DOMAIN s : r[j].used = s[j].used
<1>1. \A j \in DOMAIN s : s[j] \in Code
  OBVIOUS
<1>2. /\ r = [j \in DOMAIN s |-> r[j]]
      /\ \A j \in DOMAIN s : j # i => r[j] = s[j]
      /\ r[i] = [s[i] EXCEPT !.lapsed = TRUE]
  BY DEF Lapsed
<1>3. r[i] \in Code /\ r[i].used = s[i].used
  BY <1>1, <1>2 DEF Code
<1> QED BY SMTT(30), <1>1, <1>2, <1>3, Replaced

LEMMA LapseToken ==
  ASSUME NEW s \in Seq(Token), NEW i \in DOMAIN s, NEW r, r = Lapsed(s, i)
  PROVE  /\ r \in Seq(Token) /\ Len(r) = Len(s) /\ DOMAIN r = DOMAIN s
         /\ \A j \in DOMAIN s : /\ r[j].used = s[j].used /\ r[j].revoked = s[j].revoked
                               /\ r[j].code = s[j].code
<1>1. \A j \in DOMAIN s : s[j] \in Token
  OBVIOUS
<1>2. /\ r = [j \in DOMAIN s |-> r[j]]
      /\ \A j \in DOMAIN s : j # i => r[j] = s[j]
      /\ r[i] = [s[i] EXCEPT !.lapsed = TRUE]
  BY DEF Lapsed
<1>3. /\ r[i] \in Token /\ r[i].used = s[i].used /\ r[i].revoked = s[i].revoked
      /\ r[i].code = s[i].code
  BY <1>1, <1>2 DEF Token
<1> QED BY SMTT(30), <1>1, <1>2, <1>3, Replaced

LEMMA RevokeTokens ==
  ASSUME NEW s \in Seq(Token), NEW r, r = [t \in DOMAIN s |-> [s[t] EXCEPT !.revoked = TRUE]]
  PROVE  /\ r \in Seq(Token) /\ Len(r) = Len(s) /\ DOMAIN r = DOMAIN s
         /\ \A j \in DOMAIN s : r[j].used = s[j].used /\ r[j].revoked /\ r[j].code = s[j].code
<1>1. \A j \in DOMAIN s : s[j] \in Token
  OBVIOUS
<1>2. r = [j \in DOMAIN s |-> r[j]] /\ \A j \in DOMAIN s : r[j] = [s[j] EXCEPT !.revoked = TRUE]
  OBVIOUS
<1>3. \A j \in DOMAIN s : /\ r[j] \in Token /\ r[j].used = s[j].used /\ r[j].revoked
                          /\ r[j].code = s[j].code
  BY <1>1, <1>2 DEF Token
<1> QED BY <1>2, <1>3, Replaced

LEMMA Killing ==
  ASSUME TypeOK, NEW q \in Requests, KillGrant(q)
  PROVE  /\ req' \in [Requests -> Request]
         /\ \A p \in Requests : p # q => req'[p] = req[p]
         /\ req'[q].at = "killTokens" /\ req'[q].op = req[q].op /\ req'[q].row = req[q].row
         /\ req'[q].since = consents /\ req'[q].shut = req[q].shut
<1> DEFINE r == [op |-> req[q].op, at |-> "killTokens", row |-> req[q].row,
                 session |-> req[q].session, seen |-> req[q].seen, since |-> consents,
                 shut |-> req[q].shut]
<1>1. req[q] \in Request /\ consents \in Nat
  BY DEF TypeOK
<1>3. r \in Request
  BY <1>1 DEF Request, Steps
<1>4. req' = [req EXCEPT ![q] = r]
  BY DEF KillGrant, Cutting, TypeOK
<1>5. /\ r.at = "killTokens" /\ r.op = req[q].op /\ r.row = req[q].row /\ r.since = consents
      /\ r.shut = req[q].shut
  OBVIOUS
<1> HIDE DEF r
<1> QED BY <1>3, <1>4, <1>5 DEF TypeOK

LEMMA TypeStep == ASSUME TypeOK, Shape, [Next]_vars PROVE TypeOK'
<1>0. /\ status \in {"none", "pending", "active"} /\ grant \in {"none", "live", "revoked"}
      /\ links \in Seq(Link) /\ sessions \in Seq(Session) /\ codes \in Seq(Code)
      /\ tokens \in Seq(Token) /\ req \in [Requests -> Request]
      /\ Len(links) <= MaxRows /\ Len(sessions) <= MaxRows /\ Len(codes) <= MaxRows
      /\ Len(tokens) <= MaxRows
      /\ calls \in Nat /\ lapses \in Nat /\ crashes \in Nat /\ consents \in Nat /\ cut \in Nat
  BY DEF TypeOK
<1>a. ASSUME NEW q \in Requests, Begin(q) PROVE TypeOK'
  <2>1. /\ req' \in [Requests -> Request]
        /\ UNCHANGED <<tables, history, lapses, crashes>> /\ calls' \in Nat
    BY <1>a, Begun, Arrived
  <2> QED BY <1>0, <2>1 DEF TypeOK, tables, history
<1>b. ASSUME NEW q \in Requests, NEW at \in Steps, Go(q, at) \/ Answer(q)
      PROVE  req' \in [Requests -> Request]
  BY <1>b, Moved, Ended
<1> USE DEF Steps
<1>1. ASSUME NEW q \in Requests, Create(q) \/ Activate(q) PROVE TypeOK'
  <2>1. req' \in [Requests -> Request]
    BY <1>1, <1>b DEF Create, Activate
  <2> QED BY <1>0, <1>1, <2>1 DEF Create, Activate, TypeOK, budget, history
<1>2. ASSUME NEW q \in Requests, InvalidateLinks(q) PROVE TypeOK'
  <2>1. req' \in [Requests -> Request]
    BY <1>2, <1>b DEF InvalidateLinks
  <2>2. links' \in Seq(Link) /\ Len(links') = Len(links)
    BY <1>0, <1>2, MarkLink DEF InvalidateLinks
  <2> QED BY <1>0, <1>2, <2>1, <2>2 DEF InvalidateLinks, TypeOK, budget, history
<1>3. ASSUME NEW q \in Requests, IssueLink(q) PROVE TypeOK'
  <2>1. req' \in [Requests -> Request]
    BY <1>3, <1>b DEF IssueLink
  <2>2. [purpose |-> LinkFor(q), used |-> FALSE, lapsed |-> FALSE] \in Link
    BY DEF Link, LinkFor, Purposes
  <2>3. links' \in Seq(Link) /\ Len(links') <= MaxRows
    BY <1>0, <1>3, <2>2, Added DEF IssueLink
  <2> QED BY <1>0, <1>3, <2>1, <2>3 DEF IssueLink, TypeOK, budget, history
<1>4. ASSUME NEW q \in Requests, BurnLink(q) PROVE TypeOK'
  <2>1. req' \in [Requests -> Request]
    BY <1>4, <1>b DEF BurnLink
  <2>2. links' \in Seq(Link) /\ Len(links') = Len(links)
    BY <1>0, <1>4, MarkLink DEF BurnLink, Shape, ShapeOf, At
  <2> QED BY <1>0, <1>4, <2>1, <2>2 DEF BurnLink, TypeOK, budget, history
<1>5. ASSUME NEW q \in Requests, IssueSession(q) PROVE TypeOK'
  <2>1. req' \in [Requests -> Request]
    BY <1>5, <1>b DEF IssueSession
  <2>2. [revoked |-> FALSE, lapsed |-> FALSE] \in Session
    BY DEF Session
  <2>3. sessions' \in Seq(Session) /\ Len(sessions') <= MaxRows
    BY <1>0, <1>5, <2>2, Added DEF IssueSession
  <2> QED BY <1>0, <1>5, <2>1, <2>3 DEF IssueSession, TypeOK, budget, history
<1>6. ASSUME NEW q \in Requests, RevokeSessions(q) PROVE TypeOK'
  <2>1. req' \in [Requests -> Request]
    BY <1>6, <1>b DEF RevokeSessions
  <2>2. sessions' \in Seq(Session) /\ Len(sessions') = Len(sessions)
    BY <1>0, <1>6, MarkSession DEF RevokeSessions
  <2> QED BY <1>0, <1>6, <2>1, <2>2 DEF RevokeSessions, TypeOK, budget, history
<1>7. ASSUME NEW s \in DOMAIN sessions, Logout(s) PROVE TypeOK'
  <2>1. sessions' \in Seq(Session) /\ Len(sessions') = Len(sessions)
    BY ZenonT(40), <1>0, <1>7, MarkSession DEF Logout
  <2> QED BY <1>0, <1>7, <2>1 DEF Logout, TypeOK, history
<1>8. ASSUME NEW q \in Requests, UpsertGrant(q) PROVE TypeOK'
  <2>1. req' \in [Requests -> Request]
    BY <1>8, <1>b DEF UpsertGrant
  <2> QED BY <1>0, <1>8, <2>1 DEF UpsertGrant, TypeOK, budget
<1>9. ASSUME NEW q \in Requests, IssueCode(q) PROVE TypeOK'
  <2>1. req' \in [Requests -> Request]
    BY <1>9, <1>b DEF IssueCode
  <2>2. [used |-> FALSE, lapsed |-> FALSE, session |-> req[q].session] \in Code
    BY <1>9 DEF Code, Shape, ShapeOf, IssueCode, At
  <2>3. codes' \in Seq(Code) /\ Len(codes') <= MaxRows
    BY <1>0, <1>9, <2>2, Added DEF IssueCode
  <2> QED BY <1>0, <1>9, <2>1, <2>3 DEF IssueCode, TypeOK, budget, history
<1>10. ASSUME NEW q \in Requests, BurnCode(q) PROVE TypeOK'
  <2>1. req' \in [Requests -> Request]
    BY <1>10, <1>b DEF BurnCode
  <2>2. codes' \in Seq(Code) /\ Len(codes') = Len(codes)
    BY SMTT(30), <1>0, <1>10, MarkCode DEF BurnCode, Shape, ShapeOf, At
  <2> QED BY <1>0, <1>10, <2>1, <2>2 DEF BurnCode, TypeOK, budget, history
<1>11. ASSUME NEW q \in Requests, LoadUsableSession(q) \/ ReadGrant(q) PROVE TypeOK'
  <2>1. req' \in [Requests -> Request]
    BY <1>11, <1>b DEF LoadUsableSession, ReadGrant
  <2> QED BY <1>0, <1>11, <2>1 DEF LoadUsableSession, ReadGrant, TypeOK, tables, budget, history
<1>12. ASSUME NEW q \in Requests, IssueTokens(q) PROVE TypeOK'
  <2>1. req' \in [Requests -> Request]
    BY <1>12, <1>b DEF IssueTokens
  <2>2. ChainOf(q) \in Rows
    <3>1. \A t \in DOMAIN tokens : tokens[t] \in Token
      BY <1>0
    <3>2. \A t \in DOMAIN tokens : tokens[t].code \in Rows
      BY <3>1 DEF Token
    <3>3. req[q].op \in {"exchange", "refresh"} /\ Due(q)
      BY <1>12 DEF IssueTokens, Shape, ShapeOf, At, Due
    <3> QED BY <3>2, <3>3, Sizes DEF Shape, ShapeOf, ChainOf
  <2>3. [used |-> FALSE, revoked |-> FALSE, lapsed |-> FALSE, code |-> ChainOf(q)] \in Token
    BY <2>2 DEF Token
  <2>4. tokens' \in Seq(Token) /\ Len(tokens') <= MaxRows
    <3>1. CASE tokens' = tokens
      BY <1>0, <3>1
    <3>2. CASE tokens' # tokens
      <4> DEFINE e == [used |-> FALSE, revoked |-> FALSE, lapsed |-> FALSE, code |-> ChainOf(q)]
      <4>1. tokens' = Append(tokens, e) /\ Room(tokens) /\ e \in Token
        BY <1>12, <2>3, <3>2 DEF IssueTokens
      <4> HIDE DEF e
      <4> QED BY <1>0, <4>1, Added
    <3> QED BY <3>1, <3>2
  <2> QED BY <1>0, <1>12, <2>1, <2>4 DEF IssueTokens, TypeOK, budget, history
<1>13. ASSUME NEW q \in Requests, BurnToken(q) PROVE TypeOK'
  <2>1. req' \in [Requests -> Request]
    BY <1>13, <1>b DEF BurnToken
  <2>2. tokens' \in Seq(Token) /\ Len(tokens') = Len(tokens)
    <3>1. req[q].row \in DOMAIN tokens
      BY <1>13 DEF BurnToken, Shape, ShapeOf, At
    <3>2. CASE tokens' = [tokens EXCEPT ![req[q].row].used = TRUE]
      <4>1. tokens \in Seq(Token)
        BY <1>0
      <4>2. tokens' \in Seq(Token) /\ Len(tokens') = Len(tokens)
        BY <3>1, <3>2, <4>1, MarkToken
      <4> QED BY <4>2
    <3> QED BY <1>0, <1>13, <3>2 DEF BurnToken
  <2> QED BY <1>0, <1>13, <2>1, <2>2 DEF BurnToken, TypeOK, budget, history
<1>14. ASSUME NEW q \in Requests, DropGrant(q) PROVE TypeOK'
  <2>1. req' \in [Requests -> Request]
    BY <1>14, <1>b DEF DropGrant
  <2> QED BY <1>0, <1>14, <2>1 DEF DropGrant, Withdraw, TypeOK, budget, history
<1>15. ASSUME NEW q \in Requests, KillGrant(q) PROVE TypeOK'
  <2>1. req' \in [Requests -> Request]
    BY <1>15, Killing
  <2> QED BY <1>0, <1>15, <2>1 DEF KillGrant, Withdraw, TypeOK, budget, history
<1>16. ASSUME NEW q \in Requests, KillTokens(q) PROVE TypeOK'
  <2>1. req' \in [Requests -> Request]
    BY <1>16, <1>b DEF KillTokens
  <2>2. tokens' \in Seq(Token) /\ Len(tokens') = Len(tokens)
    BY <1>0, <1>16, RevokeTokens DEF KillTokens
  <2>3. cut' \in Nat
    BY <1>0, <1>16 DEF KillTokens, Request
  <2> QED BY <1>0, <1>16, <2>1, <2>2, <2>3 DEF KillTokens, TypeOK, budget
<1>17. CASE Lapse
  <2>1. links' \in Seq(Link) /\ Len(links') = Len(links)
    BY <1>0, <1>17, MarkLink DEF Lapse, Lapsed
  <2>2. sessions' \in Seq(Session) /\ Len(sessions') = Len(sessions)
    BY <1>0, <1>17, MarkSession DEF Lapse, Lapsed
  <2>3. codes' \in Seq(Code) /\ Len(codes') = Len(codes)
    BY <1>0, <1>17, LapseCode DEF Lapse
  <2>4. tokens' \in Seq(Token) /\ Len(tokens') = Len(tokens)
    BY <1>0, <1>17, LapseToken DEF Lapse
  <2> QED BY <1>0, <1>17, <2>1, <2>2, <2>3, <2>4 DEF Lapse, TypeOK, history
<1>18. CASE Crash
  <2>1. Idle \in Request
    BY Bounds DEF Idle, Request, Ops
  <2> QED BY <1>0, <1>18, <2>1 DEF Crash, TypeOK, tables, history
<1>19. CASE UNCHANGED vars
  BY <1>0, <1>19 DEF TypeOK, vars, tables, budget, history
<1> QED
  BY <1>a, <1>1, <1>2, <1>3, <1>4, <1>5, <1>6, <1>7, <1>8, <1>9, <1>10, <1>11, <1>12, <1>13,
     <1>14, <1>15, <1>16, <1>17, <1>18, <1>19 DEF Next, Continue

-----------------------------------------------------------------------------
(* Tables only grow, and what was used stays used. *)
Grows ==
  /\ DOMAIN links \subseteq DOMAIN links'
  /\ \A c \in DOMAIN codes : c \in DOMAIN codes' /\ (codes[c].used => codes'[c].used)
  /\ \A t \in DOMAIN tokens :
       /\ t \in DOMAIN tokens' /\ tokens'[t].code = tokens[t].code
       /\ tokens[t].used => tokens'[t].used
       /\ tokens[t].revoked => tokens'[t].revoked

LEMMA Growing == ASSUME TypeOK, Shape, [Next]_vars PROVE Grows
<1>0. /\ links \in Seq(Link) /\ sessions \in Seq(Session) /\ codes \in Seq(Code)
      /\ tokens \in Seq(Token) /\ req \in [Requests -> Request]
  BY DEF TypeOK
<1>1. ASSUME UNCHANGED <<links, codes, tokens>> PROVE Grows
  BY <1>1 DEF Grows
<1>2. ASSUME NEW q \in Requests, Begin(q) PROVE Grows
  BY <1>1, <1>2, Begun, Arrived DEF tables
<1>3. ASSUME NEW q \in Requests,
             \/ Create(q) \/ Activate(q) \/ IssueSession(q) \/ RevokeSessions(q)
             \/ UpsertGrant(q) \/ LoadUsableSession(q) \/ ReadGrant(q) \/ DropGrant(q)
             \/ KillGrant(q)
      PROVE Grows
  BY <1>1, <1>3 DEF Create, Activate, IssueSession, RevokeSessions, UpsertGrant,
     LoadUsableSession, ReadGrant, DropGrant, KillGrant, Withdraw, tables
<1>4. ASSUME NEW q \in Requests, InvalidateLinks(q) \/ BurnLink(q) PROVE Grows
  BY <1>4 DEF InvalidateLinks, BurnLink, Grows
<1>5. ASSUME NEW q \in Requests, IssueLink(q) PROVE Grows
  <2>1. DOMAIN links \subseteq DOMAIN links'
    BY <1>0, <1>5 DEF IssueLink
  <2> QED BY <1>5, <2>1 DEF IssueLink, Grows
<1>6. ASSUME NEW q \in Requests, IssueCode(q) PROVE Grows
  <2> DEFINE e == [used |-> FALSE, lapsed |-> FALSE, session |-> req[q].session]
  <2>1. codes' = Append(codes, e) /\ UNCHANGED <<links, tokens>>
    BY <1>6 DEF IssueCode
  <2> HIDE DEF e
  <2>2. \A c \in DOMAIN codes : c \in DOMAIN codes' /\ codes'[c] = codes[c]
    BY <1>0, <2>1
  <2> QED BY <2>1, <2>2 DEF Grows
<1>7. ASSUME NEW q \in Requests, BurnCode(q) PROVE Grows
  <2>1. req[q].row \in DOMAIN codes
    BY <1>7 DEF BurnCode, At, Shape, ShapeOf
  <2>2. \A c \in DOMAIN codes : c \in DOMAIN codes' /\ (codes[c].used => codes'[c].used)
    BY <1>0, <1>7, <2>1, MarkCode DEF BurnCode
  <2> QED BY <1>7, <2>2 DEF BurnCode, Grows
<1>8. ASSUME NEW q \in Requests, IssueTokens(q) PROVE Grows
  <2>1. CASE tokens' = tokens
    BY <1>1, <1>8, <2>1 DEF IssueTokens
  <2>2. CASE tokens' # tokens
    <3> DEFINE e == [used |-> FALSE, revoked |-> FALSE, lapsed |-> FALSE, code |-> ChainOf(q)]
    <3>1. tokens' = Append(tokens, e) /\ UNCHANGED <<links, codes>>
      BY <1>8, <2>2 DEF IssueTokens
    <3> HIDE DEF e
    <3>2. \A t \in DOMAIN tokens : t \in DOMAIN tokens' /\ tokens'[t] = tokens[t]
      BY <1>0, <3>1
    <3> QED BY <3>1, <3>2 DEF Grows
  <2> QED BY <2>1, <2>2
<1>9. ASSUME NEW q \in Requests, BurnToken(q) PROVE Grows
  <2>1. req[q].row \in DOMAIN tokens /\ UNCHANGED <<links, codes>>
    BY <1>9 DEF BurnToken, At, Shape, ShapeOf
  <2>2. CASE tokens' = tokens
    BY <1>1, <2>1, <2>2
  <2>3. CASE tokens' = [tokens EXCEPT ![req[q].row].used = TRUE]
    <3>1. \A t \in DOMAIN tokens :
            /\ t \in DOMAIN tokens' /\ tokens'[t].code = tokens[t].code
            /\ tokens[t].used => tokens'[t].used
            /\ tokens[t].revoked => tokens'[t].revoked
      BY <1>0, <2>1, <2>3, MarkToken
    <3> QED BY <2>1, <3>1 DEF Grows
  <2> QED BY <1>9, <2>2, <2>3 DEF BurnToken
<1>10. ASSUME NEW q \in Requests, KillTokens(q) PROVE Grows
  <2>1. \A t \in DOMAIN tokens :
          /\ t \in DOMAIN tokens' /\ tokens'[t].code = tokens[t].code
          /\ tokens[t].used => tokens'[t].used
          /\ tokens[t].revoked => tokens'[t].revoked
    <3>1. tokens' = [t \in DOMAIN tokens |-> [tokens[t] EXCEPT !.revoked = TRUE]]
      BY <1>10 DEF KillTokens
    <3>2. /\ DOMAIN tokens' = DOMAIN tokens
          /\ \A t \in DOMAIN tokens : /\ tokens'[t].used = tokens[t].used
                                     /\ tokens'[t].revoked /\ tokens'[t].code = tokens[t].code
      <4>1. tokens \in Seq(Token)
        BY <1>0
      <4>2. /\ DOMAIN tokens' = DOMAIN tokens
            /\ \A t \in DOMAIN tokens : tokens'[t] = [tokens[t] EXCEPT !.revoked = TRUE]
        BY <3>1
      <4>3. \A t \in DOMAIN tokens : tokens[t] \in Token
        BY <4>1
      <4> QED BY <4>2, <4>3 DEF Token
    <3> QED BY <3>2
  <2> QED BY <1>10, <2>1 DEF KillTokens, Grows
<1>11. CASE Lapse
  <2>1. DOMAIN links \subseteq DOMAIN links'
    BY <1>11 DEF Lapse, Lapsed
  <2>2. \A c \in DOMAIN codes : c \in DOMAIN codes' /\ (codes[c].used => codes'[c].used)
    BY <1>0, <1>11, LapseCode DEF Lapse
  <2>3. \A t \in DOMAIN tokens :
          /\ t \in DOMAIN tokens' /\ tokens'[t].code = tokens[t].code
          /\ tokens[t].used => tokens'[t].used
          /\ tokens[t].revoked => tokens'[t].revoked
    BY <1>0, <1>11, LapseToken DEF Lapse
  <2> QED BY <2>1, <2>2, <2>3 DEF Grows
<1>12. ASSUME NEW s \in DOMAIN sessions, Logout(s) PROVE Grows
  BY <1>1, <1>12 DEF Logout
<1>13. CASE Crash \/ UNCHANGED vars
  BY <1>1, <1>13 DEF Crash, vars, tables
<1> QED
  BY <1>2, <1>3, <1>4, <1>5, <1>6, <1>7, <1>8, <1>9, <1>10, <1>11, <1>12, <1>13 DEF Next, Continue

(* A handler that stays where it is keeps its shape. *)
LEMMA Stays ==
  ASSUME Grows, NEW p \in Requests, ShapeOf(p), req'[p] = req[p]
  PROVE  ShapeOf(p)'
BY DEF Grows, ShapeOf, Due

LEMMA ShapeStep == ASSUME TypeOK, Shape, [Next]_vars PROVE Shape'
<1>0. Grows
  BY Growing
<1>a. ASSUME NEW q \in Requests, ShapeOf(q)', \A p \in Requests : p # q => req'[p] = req[p]
      PROVE  Shape'
  BY <1>0, <1>a, Stays DEF Shape
<1>b. ASSUME NEW q \in Requests,
             req'[q].at \in {"idle", "mail", "revokeAll", "activate", "session", "killGrant",
                            "killTokens"}
      PROVE  ShapeOf(q)'
  BY <1>b DEF ShapeOf, Due
<1>1. ASSUME NEW q \in Requests, Begin(q) PROVE Shape'
  <2>1. PICK op \in Ops, at \in Steps, row \in 0..MaxRows, s \in 0..MaxRows :
          /\ Arrive(q, op, at, row, s)
          /\ at \in {"create", "renew", "session", "dropGrant", "revokeAll", "killGrant"}
             \/ (at = "burnLink" /\ row \in DOMAIN links)
             \/ (at = "code" /\ op = "authorize" /\ s \in Rows)
             \/ (at = "consent" /\ op = "approve" /\ s \in Rows)
             \/ (at = "burnCode" /\ op = "exchange" /\ row \in DOMAIN codes)
             \/ (at = "readGrant" /\ op = "refresh" /\ row \in DOMAIN tokens)
    BY <1>1, Begun
  <2>2. /\ \A p \in Requests : p # q => req'[p] = req[p]
        /\ req'[q].at = at /\ req'[q].op = op /\ req'[q].row = row /\ req'[q].session = s
        /\ UNCHANGED tables
    BY <2>1, Arrived
  <2>3. ShapeOf(q)'
    BY <2>1, <2>2 DEF ShapeOf, Due, tables
  <2> QED BY <2>2, <2>3, <1>a
<1>2. ASSUME NEW q \in Requests, NEW at \in {"mail", "revokeAll", "activate", "session",
                                             "killGrant"},
             Go(q, at) \/ Answer(q)
      PROVE  Shape'
  BY <1>2, <1>a, <1>b, Moved, Ended DEF Steps
<1>3. ASSUME NEW q \in Requests,
             \/ Create(q) \/ InvalidateLinks(q) \/ IssueLink(q) \/ BurnLink(q) \/ Activate(q)
             \/ IssueSession(q) \/ RevokeSessions(q) \/ IssueCode(q) \/ DropGrant(q)
             \/ IssueTokens(q) \/ KillTokens(q)
      PROVE  Shape'
  BY <1>3, <1>2 DEF Create, InvalidateLinks, IssueLink, BurnLink, Activate, IssueSession,
     RevokeSessions, IssueCode, DropGrant, IssueTokens, KillTokens
<1>4. ASSUME NEW q \in Requests, KillGrant(q) PROVE Shape'
  BY <1>4, <1>a, <1>b, Killing
<1>5. ASSUME NEW q \in Requests, UpsertGrant(q) PROVE Shape'
  <2>1. CASE req[q].op = "approve"
    <3>1. /\ req'[q].at = "code" /\ req'[q].session = req[q].session
          /\ \A p \in Requests : p # q => req'[p] = req[p]
      BY <1>5, <2>1, Moved DEF UpsertGrant, Steps
    <3> QED BY <1>5, <2>1, <3>1, <1>a DEF UpsertGrant, At, Shape, ShapeOf, Due
  <2>2. CASE req[q].op # "approve"
    <3>1. /\ req'[q].at = "issue" /\ req'[q].op = req[q].op /\ req'[q].row = req[q].row
          /\ \A p \in Requests : p # q => req'[p] = req[p]
      BY <1>5, <2>2, Moved DEF UpsertGrant, Steps
    <3> QED BY <1>5, <2>2, <3>1, <1>a, <1>0 DEF UpsertGrant, At, Shape, ShapeOf, Due, Grows
  <2> QED BY <2>1, <2>2
<1>6. ASSUME NEW q \in Requests, BurnCode(q) PROVE Shape'
  <2>1. req[q].row \in DOMAIN codes /\ req[q].op = "exchange"
    BY <1>6 DEF BurnCode, At, Shape, ShapeOf
  <2>2. CASE codes[req[q].row].used
    BY <1>6, <2>2, <1>2 DEF BurnCode
  <2>3. CASE ~codes[req[q].row].used
    <3>1. codes' = [codes EXCEPT ![req[q].row].used = TRUE] /\ Go(q, "usable")
      BY <1>6, <2>3 DEF BurnCode
    <3>2. /\ req'[q].at = "usable" /\ req'[q].op = req[q].op /\ req'[q].row = req[q].row
          /\ \A p \in Requests : p # q => req'[p] = req[p]
      BY <3>1, Moved DEF Steps
    <3>3. req[q].row \in DOMAIN codes' /\ codes'[req[q].row].used
      <4>1. codes \in Seq(Code)
        BY DEF TypeOK
      <4>2. req[q].row \in DOMAIN codes'
        BY <4>1, <3>1, <2>1, MarkCode
      <4>3. codes'[req[q].row].used
        BY <4>1, <3>1, <2>1, MarkCode
      <4> QED BY <4>2, <4>3
    <3> QED BY <2>1, <3>2, <3>3, <1>a DEF ShapeOf, Due
  <2> QED BY <2>2, <2>3
<1>7. ASSUME NEW q \in Requests, LoadUsableSession(q) PROVE Shape'
  <2>1. CASE Answer(q)
    BY <2>1, <1>2
  <2>2. CASE ~Answer(q)
    <3>1. /\ req'[q].at = (IF req[q].op = "exchange" THEN "consent" ELSE "issue")
          /\ req'[q].op = req[q].op /\ req'[q].row = req[q].row
          /\ \A p \in Requests : p # q => req'[p] = req[p]
      BY <1>7, <2>2, Moved DEF LoadUsableSession, Steps
    <3> QED BY <1>7, <3>1, <1>a, <1>0 DEF LoadUsableSession, At, Shape, ShapeOf, Due, Grows
  <2> QED BY <2>1, <2>2
<1>8. ASSUME NEW q \in Requests, ReadGrant(q) PROVE Shape'
  <2>1. CASE Answer(q)
    BY <2>1, <1>2
  <2>2. CASE ~Answer(q)
    <3>1. /\ req'[q].at = "burnToken"
          /\ req'[q].op = req[q].op /\ req'[q].row = req[q].row
          /\ \A p \in Requests : p # q => req'[p] = req[p]
      BY <1>8, <2>2, Moved DEF ReadGrant, Steps
    <3> QED BY <1>8, <3>1, <1>a, <1>0 DEF ReadGrant, At, Shape, ShapeOf, Due, Grows
  <2> QED BY <2>1, <2>2
<1>9. ASSUME NEW q \in Requests, BurnToken(q) PROVE Shape'
  <2>1. req[q].row \in DOMAIN tokens /\ req[q].op = "refresh"
    BY <1>9 DEF BurnToken, At, Shape, ShapeOf
  <2>2. CASE Go(q, "killGrant")
    BY <2>2, <1>2
  <2>3. CASE ~Go(q, "killGrant")
    <3>1. tokens' = [tokens EXCEPT ![req[q].row].used = TRUE] /\ Go(q, "usable")
      BY <1>9, <2>3 DEF BurnToken
    <3>2. /\ req'[q].at = "usable" /\ req'[q].op = req[q].op /\ req'[q].row = req[q].row
          /\ \A p \in Requests : p # q => req'[p] = req[p]
      BY <3>1, Moved DEF Steps
    <3>3. req[q].row \in DOMAIN tokens' /\ tokens'[req[q].row].used
      BY <3>1, <2>1, MarkToken DEF TypeOK
    <3> QED BY <2>1, <3>2, <3>3, <1>a DEF ShapeOf, Due
  <2> QED BY <2>2, <2>3
<1>10. CASE Lapse \/ UNCHANGED vars \/ \E s \in DOMAIN sessions : Logout(s)
  BY <1>10, <1>0, Stays DEF Lapse, Logout, vars, Shape
<1>11. CASE Crash
  BY <1>11, <1>b DEF Crash, Idle, Shape
<1> QED
  BY <1>1, <1>3, <1>4, <1>5, <1>6, <1>7, <1>8, <1>9, <1>10, <1>11 DEF Next, Continue

-----------------------------------------------------------------------------
LEMMA CutStep == ASSUME TypeOK, Shape, Cut, [Next]_vars PROVE Cut'
<1>0. /\ consents \in Nat /\ cut \in Nat /\ \A q \in Requests : req[q].since \in Nat
  BY DEF TypeOK, Request
<1>a. ASSUME NEW q \in Requests, NEW at, at \notin {"readGrant", "killTokens"},
             UNCHANGED <<consents, cut, grant>>,
             \A p \in Requests : p # q => req'[p] = req[p],
             req'[q].since = req[q].since, req'[q].at = at, req'[q].op = req[q].op,
             req'[q].shut = req[q].shut,
             at \in {"burnToken", "usable", "issue"} /\ req[q].op = "refresh" =>
               ~ (req[q].shut /\ req[q].since = consents)
      PROVE  Cut'
  BY <1>a DEF Cut
<1>b. ASSUME NEW q \in Requests, Answer(q), UNCHANGED <<consents, cut, grant>> PROVE Cut'
  <2>1. /\ \A p \in Requests : p # q => req'[p] = req[p]
        /\ req'[q].at = "idle" /\ req'[q].since = 0
    BY <1>b DEF Answer, Idle, TypeOK
  <2> QED BY <1>0, <1>b, <2>1 DEF Cut
<1>c. ASSUME UNCHANGED <<consents, cut, grant, req>> PROVE Cut'
  BY <1>c DEF Cut
<1>1. ASSUME NEW q \in Requests, Begin(q) PROVE Cut'
  <2>1. PICK op \in Ops, at \in Steps, row \in 0..MaxRows, s \in 0..MaxRows :
          /\ Arrive(q, op, at, row, s)
          /\ at \notin {"killTokens", "burnToken", "usable", "issue"}
    BY <1>1, Begun
  <2>2. /\ \A p \in Requests : p # q => req'[p] = req[p]
        /\ req'[q].at = at /\ req'[q].since = consents
        /\ req'[q].shut = (cut > 0 /\ cut = consents)
        /\ UNCHANGED <<consents, cut, grant>>
    BY <2>1, Arrived DEF tables, history
  <2>3. req'[q].shut => grant # "live"
    BY <2>2 DEF Cut
  <2> QED BY <1>0, <2>1, <2>2, <2>3 DEF Cut
<1>2. ASSUME NEW q \in Requests, NEW at \in Steps \ {"readGrant", "killTokens"},
             UNCHANGED <<consents, cut, grant>>, Go(q, at),
             at \in {"burnToken", "usable", "issue"} /\ req[q].op = "refresh" =>
               ~ (req[q].shut /\ req[q].since = consents)
      PROVE  Cut'
  <2>1. /\ \A p \in Requests : p # q => req'[p] = req[p]
        /\ req'[q].since = req[q].since /\ req'[q].at = at /\ req'[q].op = req[q].op
        /\ req'[q].shut = req[q].shut
    BY <1>2, Moved
  <2> QED BY <1>2, <2>1, <1>a
<1> USE DEF Steps
<1>3. ASSUME NEW q \in Requests,
             \/ Create(q) \/ InvalidateLinks(q) \/ IssueLink(q) \/ BurnLink(q) \/ Activate(q)
             \/ IssueSession(q) \/ RevokeSessions(q) \/ IssueCode(q) \/ IssueTokens(q)
      PROVE  Cut'
  <2>1. UNCHANGED <<consents, cut, grant>>
    BY <1>3 DEF Create, InvalidateLinks, IssueLink, BurnLink, Activate, IssueSession,
       RevokeSessions, IssueCode, IssueTokens, history
  <2>2. Answer(q) \/ Go(q, "mail") \/ Go(q, "activate") \/ Go(q, "revokeAll") \/ Go(q, "session")
    BY <1>3 DEF Create, InvalidateLinks, IssueLink, BurnLink, Activate, IssueSession,
       RevokeSessions, IssueCode, IssueTokens
  <2> QED BY <2>1, <2>2, <1>b, <1>2
<1>4. ASSUME NEW q \in Requests, UpsertGrant(q) PROVE Cut'
  <2>1. /\ consents' = consents + 1 /\ cut' = cut /\ req[q].at = "consent"
        /\ \A p \in Requests : p # q => req'[p] = req[p]
        /\ req'[q].since = req[q].since
    BY <1>4, Moved DEF UpsertGrant, At
  <2>2. /\ cut' <= consents' /\ cut' # consents'
        /\ \A p \in Requests : req'[p].since <= consents' /\ req'[p].since # consents'
    BY <1>0, <2>1 DEF Cut
  <2> QED BY <2>2 DEF Cut
<1>5. ASSUME NEW q \in Requests, BurnCode(q) PROVE Cut'
  <2>1. req[q].op = "exchange" /\ UNCHANGED <<consents, cut, grant>>
    BY <1>5 DEF BurnCode, At, Shape, ShapeOf, history
  <2> QED BY <1>5, <2>1, <1>b, <1>2 DEF BurnCode
<1>6. ASSUME NEW q \in Requests, LoadUsableSession(q) PROVE Cut'
  <2>1. /\ UNCHANGED <<consents, cut, grant>>
        /\ req[q].op = "refresh" => ~ (req[q].shut /\ req[q].since = consents)
    BY <1>6 DEF LoadUsableSession, At, Cut, tables, history
  <2> QED BY <1>6, <2>1, <1>b, <1>2 DEF LoadUsableSession
<1>7. ASSUME NEW q \in Requests, ReadGrant(q) PROVE Cut'
  <2>1. UNCHANGED <<consents, cut, grant>>
    BY <1>7 DEF ReadGrant, tables, history
  <2>2. grant = "live" /\ req[q].op = "refresh" => ~ (req[q].shut /\ req[q].since = consents)
    BY <1>7 DEF ReadGrant, At, Cut
  <2> QED BY <1>7, <2>1, <2>2, <1>b, <1>2 DEF ReadGrant
<1>8. ASSUME NEW q \in Requests, BurnToken(q) PROVE Cut'
  <2>1. /\ UNCHANGED <<consents, cut, grant>>
        /\ req[q].op = "refresh" => ~ (req[q].shut /\ req[q].since = consents)
    BY <1>8 DEF BurnToken, At, Cut, history
  <2> QED BY <1>8, <2>1, <1>2 DEF BurnToken
<1>9. ASSUME NEW q \in Requests, DropGrant(q) PROVE Cut'
  <2>1. /\ UNCHANGED <<consents, cut>> /\ grant' = "revoked"
        /\ \A p \in Requests : p # q => req'[p] = req[p]
        /\ req'[q].since = req[q].since /\ req'[q].at = "killGrant"
    BY <1>9, Moved DEF DropGrant, Withdraw, history
  <2> QED BY <2>1 DEF Cut
<1>10. ASSUME NEW q \in Requests, KillGrant(q) PROVE Cut'
  <2>1. /\ UNCHANGED <<consents, cut>> /\ grant' = "revoked"
        /\ \A p \in Requests : p # q => req'[p] = req[p]
        /\ req'[q].since = consents /\ req'[q].at = "killTokens"
    BY <1>10, Killing DEF KillGrant, Withdraw, history
  <2> QED BY <1>0, <2>1 DEF Cut
<1>11. ASSUME NEW q \in Requests, KillTokens(q) PROVE Cut'
  <2>1. /\ UNCHANGED <<consents, grant>> /\ cut' \in {cut, req[q].since}
        /\ \A p \in Requests : p # q => req'[p] = req[p]
        /\ req'[q].since = 0 /\ req'[q].at = "idle" /\ req[q].at = "killTokens"
    BY <1>11 DEF KillTokens, Answer, Idle, At, TypeOK
  <2> QED BY <1>0, <2>1 DEF Cut
<1>12. CASE Lapse \/ UNCHANGED vars \/ \E s \in DOMAIN sessions : Logout(s)
  BY <1>12, <1>c DEF Lapse, Logout, vars, tables, history
<1>13. CASE Crash
  <2>1. /\ UNCHANGED <<consents, cut, grant>>
        /\ \A q \in Requests : req'[q].at = "idle" /\ req'[q].since = 0
    BY <1>13 DEF Crash, Idle, tables, history
  <2> QED BY <1>0, <2>1 DEF Cut
<1> QED
  BY <1>1, <1>3, <1>4, <1>5, <1>6, <1>7, <1>8, <1>9, <1>10, <1>11, <1>12, <1>13
     DEF Next, Continue

-----------------------------------------------------------------------------
LEMMA ChainsStep == ASSUME TypeOK, Shape, Chains, [Next]_vars PROVE Chains'
<1>0. /\ Grows /\ tokens \in Seq(Token) /\ codes \in Seq(Code)
      /\ \A q \in Requests : ShapeOf(q)
  BY Growing DEF TypeOK, Shape
(* Nothing to exchange is added: the rows stay, and whoever is due was. *)
<1>a. ASSUME DOMAIN tokens' = DOMAIN tokens,
             \A t \in DOMAIN tokens : Alive(t)' => Alive(t),
             \A q \in Requests : Due(q)' =>
               Due(q) /\ req'[q].op = req[q].op /\ req'[q].row = req[q].row
      PROVE  Chains'
  <2>1. \A q \in Requests : Due(q)' => Due(q) /\ ChainOf(q)' = ChainOf(q)
    BY <1>0, <1>a DEF ChainOf, Grows, ShapeOf, Due
  <2>2. \A t \in DOMAIN tokens : tokens'[t].code = tokens[t].code
    BY <1>0 DEF Grows
  <2>3. \A t \in DOMAIN tokens' : tokens'[t].code \in DOMAIN codes'
                                 /\ codes'[tokens'[t].code].used
    BY <1>0, <1>a, <2>2 DEF Chains, Grows
  <2>4. \A t, u \in DOMAIN tokens' :
          Alive(t)' /\ Alive(u)' /\ tokens'[t].code = tokens'[u].code => t = u
    BY <1>a, <2>2 DEF Chains
  <2>5. \A p, r \in Requests : Due(p)' /\ Due(r)' /\ ChainOf(p)' = ChainOf(r)' => p = r
    BY <2>1 DEF Chains
  <2>6. \A t \in DOMAIN tokens', p \in Requests :
          Alive(t)' /\ Due(p)' => tokens'[t].code # ChainOf(p)'
    BY <1>a, <2>1, <2>2 DEF Chains
  <2> QED BY <2>3, <2>4, <2>5, <2>6 DEF Chains
<1>b. ASSUME tokens' = tokens,
             \A q \in Requests : Due(q)' =>
               Due(q) /\ req'[q].op = req[q].op /\ req'[q].row = req[q].row
      PROVE  Chains'
  BY <1>a, <1>b DEF Alive
<1>1. ASSUME NEW q \in Requests, tokens' = tokens,
             \A p \in Requests : p # q => req'[p] = req[p],
             ~Due(q)' \/ (Due(q) /\ req'[q].op = req[q].op /\ req'[q].row = req[q].row)
      PROVE  Chains'
  BY <1>1, <1>b DEF Due
<1>2. ASSUME NEW q \in Requests, Begin(q) PROVE Chains'
  <2>1. PICK op \in Ops, at \in Steps, row \in 0..MaxRows, s \in 0..MaxRows :
          /\ Arrive(q, op, at, row, s)
          /\ at \notin {"usable", "issue"} /\ (at = "consent" => op = "approve")
    BY <1>2, Begun
  <2>2. /\ \A p \in Requests : p # q => req'[p] = req[p]
        /\ req'[q].at = at /\ req'[q].op = op /\ tokens' = tokens
    BY <2>1, Arrived DEF tables
  <2> QED BY <2>1, <2>2, <1>1 DEF Due
<1>3. ASSUME NEW q \in Requests, tokens' = tokens,
             \/ Answer(q)
             \/ \E at \in Steps \ {"usable", "issue", "consent"} : Go(q, at)
      PROVE  Chains'
  <2>1. /\ \A p \in Requests : p # q => req'[p] = req[p]
        /\ req'[q].at \notin {"usable", "issue", "consent"}
    BY <1>3, Moved, Ended
  <2> QED BY <1>3, <2>1, <1>1 DEF Due
<1> USE DEF Steps
<1>4. ASSUME NEW q \in Requests,
             \/ Create(q) \/ InvalidateLinks(q) \/ IssueLink(q) \/ BurnLink(q) \/ Activate(q)
             \/ IssueSession(q) \/ RevokeSessions(q) \/ IssueCode(q) \/ DropGrant(q)
             \/ ReadGrant(q)
      PROVE  Chains'
  BY <1>4, <1>3 DEF Create, InvalidateLinks, IssueLink, BurnLink, Activate, IssueSession,
     RevokeSessions, IssueCode, DropGrant, Withdraw, ReadGrant, tables
<1>5. ASSUME NEW q \in Requests, KillGrant(q) PROVE Chains'
  BY <1>5, <1>1, Killing DEF KillGrant, Withdraw, Due
<1>6. ASSUME NEW q \in Requests, UpsertGrant(q) PROVE Chains'
  <2>1. /\ \A p \in Requests : p # q => req'[p] = req[p]
        /\ req'[q].op = req[q].op /\ req'[q].row = req[q].row /\ tokens' = tokens
        /\ req[q].op # "approve" => Due(q)
        /\ req[q].op = "approve" => req'[q].at = "code"
    BY <1>0, <1>6, Moved DEF UpsertGrant, At, ShapeOf, Due
  <2> QED BY <2>1, <1>1 DEF Due
<1>7. ASSUME NEW q \in Requests, LoadUsableSession(q) PROVE Chains'
  <2>1. CASE Answer(q)
    BY <1>7, <2>1, <1>3 DEF LoadUsableSession, tables
  <2>2. CASE ~Answer(q)
    <3>1. /\ \A p \in Requests : p # q => req'[p] = req[p]
          /\ req'[q].op = req[q].op /\ req'[q].row = req[q].row /\ tokens' = tokens /\ Due(q)
      BY <1>0, <1>7, <2>2, Moved DEF LoadUsableSession, At, ShapeOf, Due, tables
    <3> QED BY <3>1, <1>1
  <2> QED BY <2>1, <2>2
<1>8. ASSUME NEW q \in Requests, BurnCode(q) PROVE Chains'
  <2>1. req[q].row \in DOMAIN codes /\ req[q].op = "exchange" /\ tokens' = tokens
    BY <1>0, <1>8 DEF BurnCode, At, ShapeOf
  <2>2. CASE codes[req[q].row].used
    BY <1>8, <2>1, <2>2, <1>3 DEF BurnCode
  <2>3. CASE ~codes[req[q].row].used
    <3>1. /\ \A p \in Requests : p # q => req'[p] = req[p]
          /\ req'[q].at = "usable" /\ req'[q].op = "exchange" /\ req'[q].row = req[q].row
      BY <1>8, <2>1, <2>3, Moved DEF BurnCode
    <3>2. \A t \in DOMAIN tokens : tokens[t].code # req[q].row
      BY <2>3 DEF Chains
    <3>3. \A p \in Requests : Due(p) => ChainOf(p) # req[q].row
      BY <1>0, <2>3, <3>2 DEF ShapeOf, ChainOf, Due
    <3>4. /\ \A p \in Requests : p # q => (Due(p)' <=> Due(p)) /\ ChainOf(p)' = ChainOf(p)
          /\ ChainOf(q)' = req[q].row
      BY <2>1, <3>1 DEF Due, ChainOf
    <3>5. \A t \in DOMAIN tokens : Alive(t)' <=> Alive(t)
      BY <2>1 DEF Alive
    <3> QED BY SMTT(30), <1>0, <2>1, <3>2, <3>3, <3>4, <3>5 DEF Chains, Grows
  <2> QED BY <2>2, <2>3
<1>9. ASSUME NEW q \in Requests, IssueTokens(q) PROVE Chains'
  <2>0. /\ \A p \in Requests : p # q => req'[p] = req[p]
        /\ ~Due(q)' /\ Due(q)
    BY <1>0, <1>9, Ended DEF IssueTokens, At, ShapeOf, Due
  <2>1. CASE tokens' = tokens
    BY <2>0, <2>1, <1>1
  <2>2. CASE tokens' # tokens
    <3> DEFINE e == [used |-> FALSE, revoked |-> FALSE, lapsed |-> FALSE, code |-> ChainOf(q)]
               n == Len(tokens) + 1
    <3>1. tokens' = Append(tokens, e) /\ e.code = ChainOf(q) /\ codes' = codes
      BY <1>9, <2>2 DEF IssueTokens
    <3> HIDE DEF e
    <3>2. /\ DOMAIN tokens' = DOMAIN tokens \cup {n} /\ n \notin DOMAIN tokens
          /\ \A t \in DOMAIN tokens : tokens'[t] = tokens[t]
          /\ tokens'[n].code = ChainOf(q)
      BY <1>0, <3>1
    <3> HIDE DEF n
    <3>3. ChainOf(q) \in DOMAIN codes /\ codes[ChainOf(q)].used
      BY <1>0, <2>0 DEF ChainOf, Chains, ShapeOf, Due
    <3>4. \A t \in DOMAIN tokens : Alive(t) => tokens[t].code # ChainOf(q)
      BY <2>0 DEF Chains
    <3>5. \A t \in DOMAIN tokens : Alive(t)' <=> Alive(t)
      BY <3>2 DEF Alive
    <3>6. \A p \in Requests : Due(p)' =>
            p # q /\ Due(p) /\ ChainOf(p)' = ChainOf(p)
      BY <1>0, <2>0, <3>2 DEF Due, ChainOf, ShapeOf
    <3>7. \A p \in Requests : Due(p)' => ChainOf(p) # ChainOf(q)
      BY <2>0, <3>6 DEF Chains
    <3>8. \A t \in DOMAIN tokens' : tokens'[t].code \in DOMAIN codes'
                                   /\ codes'[tokens'[t].code].used
      BY <3>1, <3>2, <3>3 DEF Chains
    <3>9. \A t, u \in DOMAIN tokens' :
            Alive(t)' /\ Alive(u)' /\ tokens'[t].code = tokens'[u].code => t = u
      BY <3>2, <3>4, <3>5 DEF Chains
    <3>10. \A p, r \in Requests : Due(p)' /\ Due(r)' /\ ChainOf(p)' = ChainOf(r)' => p = r
      BY <3>6 DEF Chains
    <3>11. \A t \in DOMAIN tokens', p \in Requests :
             Alive(t)' /\ Due(p)' => tokens'[t].code # ChainOf(p)'
      BY <3>2, <3>5, <3>6, <3>7 DEF Chains
    <3> QED BY <3>8, <3>9, <3>10, <3>11 DEF Chains
  <2> QED BY <2>1, <2>2
<1>10. ASSUME NEW q \in Requests, BurnToken(q) PROVE Chains'
  <2>0. PICK t0 : t0 = req[q].row
    OBVIOUS
  <2>1. t0 \in DOMAIN tokens /\ req[q].op = "refresh"
    BY <1>0, <1>10, <2>0 DEF BurnToken, At, ShapeOf
  <2>2. CASE tokens[t0].used \/ tokens[t0].revoked
    BY <1>10, <2>0, <2>2, <1>3 DEF BurnToken
  <2>3. CASE Alive(t0)
    <3>1. /\ tokens' = [tokens EXCEPT ![t0].used = TRUE]
          /\ \A p \in Requests : p # q => req'[p] = req[p]
          /\ req'[q].at = "usable" /\ req'[q].op = "refresh" /\ req'[q].row = t0
      BY <1>10, <2>0, <2>1, <2>3, Moved DEF BurnToken, Alive
    <3>2. /\ DOMAIN tokens' = DOMAIN tokens /\ tokens'[t0].used
          /\ \A t \in DOMAIN tokens : t # t0 => tokens'[t] = tokens[t]
          /\ \A t \in DOMAIN tokens : tokens'[t].code = tokens[t].code
      BY <1>0, <2>1, <3>1, MarkToken DEF Grows
    <3>3. ~Alive(t0)' /\ \A t \in DOMAIN tokens : t # t0 => (Alive(t)' <=> Alive(t))
      BY <3>2 DEF Alive
    <3>4. /\ \A p \in Requests : p # q => (Due(p)' <=> Due(p)) /\ (Due(p) => ChainOf(p)' = ChainOf(p))
          /\ ChainOf(q)' = tokens[t0].code
      <4>1. \A p \in Requests : p # q => (Due(p)' <=> Due(p))
        BY <3>1 DEF Due
      <4>2. \A p \in Requests : p # q /\ Due(p) => ChainOf(p)' = ChainOf(p)
        BY <1>0, <3>1, <3>2 DEF Due, ChainOf, ShapeOf
      <4>3. ChainOf(q)' = tokens[t0].code
        BY <2>1, <3>1, <3>2 DEF ChainOf
      <4> QED BY <4>1, <4>2, <4>3
    <3>5. \A p \in Requests : Due(p) => ChainOf(p) # tokens[t0].code
      BY <2>1, <2>3 DEF Chains
    <3>6. \A t \in DOMAIN tokens : t # t0 /\ Alive(t) => tokens[t].code # tokens[t0].code
      BY <2>1, <2>3 DEF Chains
    <3>7. \A t \in DOMAIN tokens' : tokens'[t].code \in DOMAIN codes'
                                   /\ codes'[tokens'[t].code].used
      BY <1>0, <3>2 DEF Chains, Grows
    <3>8. \A t, u \in DOMAIN tokens' :
            Alive(t)' /\ Alive(u)' /\ tokens'[t].code = tokens'[u].code => t = u
      BY <3>2, <3>3 DEF Chains
    <3>9. \A p, r \in Requests : Due(p)' /\ Due(r)' /\ ChainOf(p)' = ChainOf(r)' => p = r
      BY <3>4, <3>5 DEF Chains
    <3>10. \A t \in DOMAIN tokens', p \in Requests :
             Alive(t)' /\ Due(p)' => tokens'[t].code # ChainOf(p)'
      BY <3>2, <3>3, <3>4, <3>6 DEF Chains
    <3> QED BY <3>7, <3>8, <3>9, <3>10 DEF Chains
  <2> QED BY <2>2, <2>3 DEF Alive
<1>11. ASSUME NEW q \in Requests, KillTokens(q) PROVE Chains'
  <2>1. /\ \A p \in Requests : p # q => req'[p] = req[p]
        /\ ~Due(q)'
    BY <1>11, Ended DEF KillTokens, Due
  <2>2. tokens' = [t \in DOMAIN tokens |-> [tokens[t] EXCEPT !.revoked = TRUE]]
    BY <1>11 DEF KillTokens
  <2>3. /\ DOMAIN tokens' = DOMAIN tokens
        /\ \A t \in DOMAIN tokens : tokens'[t] = [tokens[t] EXCEPT !.revoked = TRUE]
    BY <2>2
  <2>4. \A t \in DOMAIN tokens : tokens[t] \in Token
    BY <1>0
  <2>5. \A t \in DOMAIN tokens : ~Alive(t)'
    BY <2>3, <2>4 DEF Alive, Token
  <2> QED BY <2>1, <2>3, <2>5, <1>a DEF Due
<1>12. CASE Lapse
  <2>1. /\ DOMAIN tokens' = DOMAIN tokens /\ req' = req
        /\ \A t \in DOMAIN tokens : Alive(t)' => Alive(t)
    BY <1>0, <1>12, LapseToken DEF Lapse, Alive
  <2> QED BY <2>1, <1>a DEF Due
<1>13. CASE UNCHANGED vars \/ \E s \in DOMAIN sessions : Logout(s)
  BY <1>13, <1>b DEF Logout, vars, tables, Due
<1>14. CASE Crash
  BY <1>14, <1>b DEF Crash, Idle, tables, Due
<1> QED
  BY <1>2, <1>4, <1>5, <1>6, <1>7, <1>8, <1>9, <1>10, <1>11, <1>12, <1>13, <1>14
     DEF Next, Continue

-----------------------------------------------------------------------------
LEMMA InvInit == ASSUME Init PROVE IInv
<1>1. Idle \in Request
  BY Bounds DEF Idle, Request, Ops, Steps
<1>2. sessions \in Seq(Session) /\ Len(sessions) <= MaxRows
  <2>1. CASE sessions = <<>>
    BY <2>1, Bounds
  <2>2. CASE sessions = <<[revoked |-> FALSE, lapsed |-> FALSE]>>
    <3>1. [revoked |-> FALSE, lapsed |-> FALSE] \in Session
      BY DEF Session
    <3> QED BY <2>2, <3>1, Bounds
  <2> QED BY <2>1, <2>2 DEF Init
<1>3. TypeOK
  BY <1>1, <1>2, Bounds DEF Init, TypeOK
<1>4. \A q \in Requests : req[q].at = "idle" /\ req[q].since = 0 /\ req[q].op = "none"
  BY DEF Init, Idle
<1>5. Shape /\ Chains /\ Cut
  BY <1>4 DEF Init, Shape, ShapeOf, Chains, Cut, Due
<1> QED BY <1>3, <1>5 DEF IInv

LEMMA Invariant == Spec => []IInv
<1>1. IInv /\ [Next]_vars => IInv'
  BY TypeStep, ShapeStep, ChainsStep, CutStep DEF IInv
<1> QED BY <1>1, InvInit, PTL DEF Spec

(* The tables and every handler keep their type in every run. *)
THEOREM TypeCorrect == Spec => []TypeOK
BY Invariant, PTL DEF IInv

(* At most one refresh token of a code's chain can still be exchanged. *)
THEOREM Rotation == Spec => []OneUsablePerCode
<1>1. IInv => OneUsablePerCode
  BY DEF IInv, Chains, OneUsablePerCode, Due, Alive
<1> QED BY <1>1, Invariant, PTL

(* After an answered revocation nothing is refreshed until consent is given. *)
THEOREM Revocation == Spec => []CutStaysCut
<1>1. IInv => CutStaysCut
  BY DEF IInv, Cut, CutStaysCut
<1> QED BY <1>1, Invariant, PTL
================================================================================

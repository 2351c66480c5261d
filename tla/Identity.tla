------------------------------ MODULE Identity ------------------------------
(***************************************************************************)
(* The site account and the applications connected to it: the tables of    *)
(* identity.service.ts (links sent by mail, sessions) and of               *)
(* oauth.service.ts (codes, the grant, refresh tokens), for one account    *)
(* and one client.                                                         *)
(*                                                                         *)
(* Every request is a handler of the server; it runs from one await to the *)
(* next, so each action below is what happens between two awaits: a read   *)
(* whose result the handler keeps, or a write that other handlers may have *)
(* overtaken.  Handlers that answer at once with an error change nothing   *)
(* and have no action.  Mail, passwords, scopes, PKCE, the addresses and   *)
(* the access token (a signed text that no table holds) are left out; so   *)
(* are registrations older than 24 hours and their release.                *)
(***************************************************************************)
EXTENDS Naturals, Sequences, SequencesExt

CONSTANTS
  Requests,    \* the handlers that can run at the same time
  MaxCalls,    \* bound: requests the users and the client make
  MaxRows,     \* bound: rows of one table
  MaxLapses,   \* bound: rows that reach their expiry
  MaxCrashes,  \* bound: restarts of the server
  Take         \* the sessions a refresh looks at, newest first (five)

ASSUME IdentityAssumption ==
  /\ Requests # {}
  /\ {MaxCalls, MaxLapses, MaxCrashes} \subseteq Nat
  /\ {MaxRows, Take} \subseteq Nat \ {0}

VARIABLES
  status,      \* the identity: "none", "pending" (mail not verified), "active"
  links,       \* identity_tokens: what each is for, whether it was consumed
  sessions,    \* sessions of the account, oldest first
  codes,       \* oauth_codes, with the session each was issued in
  grant,       \* oauth_grants: "none", "live", "revoked"
  tokens,      \* oauth_refresh_tokens, with the code each chain began with
  req,         \* the handlers: what each does next and what it has read
  calls, lapses, crashes,
  consents,    \* history: how often the grant was given
  cut          \* history: the consent the last answered revocation withdrew

tables == <<status, links, sessions, codes, grant, tokens>>
budget == <<calls, lapses, crashes>>
history == <<consents, cut>>
vars == <<tables, req, budget, history>>

Rows == 1..MaxRows
Purposes == {"verify_email", "reset_password"}
Link == [purpose : Purposes, used : BOOLEAN, lapsed : BOOLEAN]
Session == [revoked : BOOLEAN, lapsed : BOOLEAN]
Code == [used : BOOLEAN, lapsed : BOOLEAN, session : Rows]
Token == [used : BOOLEAN, revoked : BOOLEAN, lapsed : BOOLEAN, code : Rows]
Ops == {"none", "register", "verify", "login", "forgot", "reset", "change",
        "authorize", "approve", "exchange", "refresh", "disconnect"}
Steps == {"idle", "create", "renew", "mail", "burnLink", "activate", "session",
          "revokeAll", "consent", "code", "burnCode", "usable", "issue",
          "readGrant", "burnToken", "dropGrant", "killGrant", "killTokens"}
Request == [op : Ops, at : Steps, row : 0..MaxRows, session : 0..MaxRows,
            seen : {"none", "pending", "active"}, since : Nat, shut : BOOLEAN]

Idle == [op |-> "none", at |-> "idle", row |-> 0, session |-> 0,
         seen |-> "none", since |-> 0, shut |-> FALSE]

Usable(row) == ~row.revoked /\ ~row.lapsed
Room(table) == Len(table) < MaxRows

(***************************************************************************)
(* Moving a handler on.                                                    *)
(***************************************************************************)
\* A request arrives and its first read is made; `shut` remembers whether
\* the client had been told that the grant is gone and none was given since.
Arrive(q, op, at, row, s) ==
  /\ req[q] = Idle
  /\ calls < MaxCalls
  /\ req' = [req EXCEPT ![q] = [op |-> op, at |-> at, row |-> row,
               session |-> s, seen |-> status, since |-> consents,
               shut |-> cut > 0 /\ cut = consents]]
  /\ calls' = calls + 1
  /\ UNCHANGED <<tables, lapses, crashes, history>>

At(q, at) == req[q].at = at
Go(q, at) == req' = [req EXCEPT ![q].at = at]
Answer(q) == req' = [req EXCEPT ![q] = Idle]

(***************************************************************************)
(* Registration, verification and the links sent by mail.                  *)
(***************************************************************************)
Register(q) ==
  /\ status # "active"
  /\ Arrive(q, "register", IF status = "none" THEN "create" ELSE "renew", 0, 0)

\* The unique address turns the second of two registrations away.
Create(q) ==
  /\ At(q, "create")
  /\ IF status = "none"
       THEN status' = "pending" /\ Go(q, "mail")
       ELSE UNCHANGED status /\ Answer(q)
  /\ UNCHANGED <<links, sessions, codes, grant, tokens, budget, history>>

RequestReset(q) ==
  /\ status = "active"
  /\ Arrive(q, "forgot", "renew", 0, 0)

LinkFor(q) == IF req[q].op = "register" THEN "verify_email" ELSE "reset_password"

InvalidateLinks(q) ==
  /\ At(q, "renew")
  /\ links' = [l \in DOMAIN links |->
       IF links[l].purpose = LinkFor(q) THEN [links[l] EXCEPT !.used = TRUE]
                                        ELSE links[l]]
  /\ Go(q, "mail")
  /\ UNCHANGED <<status, sessions, codes, grant, tokens, budget, history>>

IssueLink(q) ==
  /\ At(q, "mail") /\ Room(links)
  /\ links' = Append(links, [purpose |-> LinkFor(q), used |-> FALSE,
                             lapsed |-> FALSE])
  /\ Answer(q)
  /\ UNCHANGED <<status, sessions, codes, grant, tokens, budget, history>>

\* consumeIdentityToken reads the row; the save that marks it comes later.
OpenLink(q, op, l) ==
  /\ links[l].purpose = IF op = "verify" THEN "verify_email" ELSE "reset_password"
  /\ ~links[l].used /\ ~links[l].lapsed
  /\ Arrive(q, op, "burnLink", l, 0)

BurnLink(q) ==
  /\ At(q, "burnLink")
  /\ links' = [links EXCEPT ![req[q].row].used = TRUE]
  /\ Go(q, IF req[q].op = "verify" THEN "activate" ELSE "revokeAll")
  /\ UNCHANGED <<status, sessions, codes, grant, tokens, budget, history>>

\* The identity that came with the link decides, not the one in the table.
Activate(q) ==
  /\ At(q, "activate")
  /\ status' = IF req[q].seen = "pending" THEN "active" ELSE status
  /\ Go(q, "session")
  /\ UNCHANGED <<links, sessions, codes, grant, tokens, budget, history>>

(***************************************************************************)
(* Sessions.                                                               *)
(***************************************************************************)
Login(q) ==
  /\ status = "active"
  /\ Arrive(q, "login", "session", 0, 0)

IssueSession(q) ==
  /\ At(q, "session") /\ Room(sessions)
  /\ sessions' = Append(sessions, [revoked |-> FALSE, lapsed |-> FALSE])
  /\ Answer(q)
  /\ UNCHANGED <<status, links, codes, grant, tokens, budget, history>>

\* Changing the password keeps the session it is asked in.
ChangePassword(q, s) ==
  /\ Usable(sessions[s])
  /\ Arrive(q, "change", "revokeAll", 0, s)

RevokeSessions(q) ==
  /\ At(q, "revokeAll")
  /\ sessions' = [s \in DOMAIN sessions |->
       IF s = req[q].session THEN sessions[s]
                             ELSE [sessions[s] EXCEPT !.revoked = TRUE]]
  /\ Answer(q)
  /\ UNCHANGED <<status, links, codes, grant, tokens, budget, history>>

Logout(s) ==
  /\ Usable(sessions[s])
  /\ calls < MaxCalls
  /\ sessions' = [sessions EXCEPT ![s].revoked = TRUE]
  /\ calls' = calls + 1
  /\ UNCHANGED <<status, links, codes, grant, tokens, req, lapses, crashes, history>>

(***************************************************************************)
(* Consent and codes.                                                      *)
(***************************************************************************)
\* The same scopes were granted before and the grant stands: a code at once.
Authorize(q, s) ==
  /\ Usable(sessions[s]) /\ grant = "live"
  /\ Arrive(q, "authorize", "code", 0, s)

Approve(q, s) ==
  /\ Usable(sessions[s])
  /\ Arrive(q, "approve", "consent", 0, s)

\* upsertGrant: insert the row, or give it again whatever became of it.
UpsertGrant(q) ==
  /\ At(q, "consent")
  /\ grant' = "live"
  /\ consents' = consents + 1
  /\ Go(q, IF req[q].op = "approve" THEN "code" ELSE "issue")
  /\ UNCHANGED <<status, links, sessions, codes, tokens, budget, cut>>

IssueCode(q) ==
  /\ At(q, "code") /\ Room(codes)
  /\ codes' = Append(codes, [used |-> FALSE, lapsed |-> FALSE,
                             session |-> req[q].session])
  /\ Answer(q)
  /\ UNCHANGED <<status, links, sessions, grant, tokens, budget, history>>

(***************************************************************************)
(* The token endpoint.                                                     *)
(***************************************************************************)
ExchangeCode(q, c) ==
  /\ ~codes[c].used /\ ~codes[c].lapsed
  /\ Arrive(q, "exchange", "burnCode", c, codes[c].session)

\* UPDATE ... WHERE usedAt IS NULL: only one request sees a row affected.
BurnCode(q) ==
  /\ At(q, "burnCode")
  /\ IF codes[req[q].row].used
       THEN UNCHANGED codes /\ Answer(q)
       ELSE codes' = [codes EXCEPT ![req[q].row].used = TRUE] /\ Go(q, "usable")
  /\ UNCHANGED <<status, links, sessions, grant, tokens, budget, history>>

\* An exchange needs the session the code was issued in, a refresh any of
\* the newest ones.
SignedIn(q) ==
  IF req[q].op = "exchange"
    THEN Usable(sessions[req[q].session])
    ELSE \E s \in DOMAIN sessions :
           s + Take > Len(sessions) /\ Usable(sessions[s])

LoadUsableSession(q) ==
  /\ At(q, "usable")
  /\ IF ~SignedIn(q) THEN Answer(q)
     ELSE Go(q, IF req[q].op = "exchange" THEN "consent" ELSE "issue")
  /\ UNCHANGED <<tables, budget, history>>

ChainOf(q) == IF req[q].op = "exchange" THEN req[q].row ELSE tokens[req[q].row].code

\* Without a signing key the request fails, with the code or token spent.
IssueTokens(q) ==
  /\ At(q, "issue") /\ Room(tokens)
  /\ \/ tokens' = Append(tokens, [used |-> FALSE, revoked |-> FALSE,
                                  lapsed |-> FALSE, code |-> ChainOf(q)])
     \/ UNCHANGED tokens
  /\ Answer(q)
  /\ UNCHANGED <<status, links, sessions, codes, grant, budget, history>>

\* A used token means the whole grant is withdrawn.
RefreshTokens(q, t) ==
  /\ ~tokens[t].revoked
  /\ \/ tokens[t].used /\ Arrive(q, "refresh", "killGrant", t, 0)
     \/ ~tokens[t].used /\ ~tokens[t].lapsed
        /\ Arrive(q, "refresh", "readGrant", t, 0)

ReadGrant(q) ==
  /\ At(q, "readGrant")
  /\ IF grant = "live" THEN Go(q, "burnToken") ELSE Answer(q)
  /\ UNCHANGED <<tables, budget, history>>

BadBurnToken(q) ==
  /\ At(q, "burnToken")
  /\ tokens' = [tokens EXCEPT ![req[q].row].used = TRUE]
  /\ Go(q, "usable")
  /\ UNCHANGED <<status, links, sessions, codes, grant, budget, history>>

BurnToken(q) ==
  /\ At(q, "burnToken")
  /\ IF tokens[req[q].row].used \/ tokens[req[q].row].revoked
       THEN UNCHANGED tokens /\ Go(q, "killGrant")
       ELSE tokens' = [tokens EXCEPT ![req[q].row].used = TRUE] /\ Go(q, "usable")
  /\ UNCHANGED <<status, links, sessions, codes, grant, budget, history>>

(***************************************************************************)
(* Withdrawing the grant: the user disconnects the application, the client *)
(* revokes its token, or a used token came back.                           *)
(***************************************************************************)
Disconnect(q) ==
  /\ grant = "live"
  /\ Arrive(q, "disconnect", "dropGrant", 0, 0)

Withdraw(q) ==
  /\ grant' = "revoked"
  /\ UNCHANGED <<status, links, sessions, codes, tokens, budget, history>>

DropGrant(q) ==
  /\ At(q, "dropGrant")
  /\ Withdraw(q)
  /\ Go(q, "killGrant")

\* The consent that is being withdrawn is remembered for the history.
Cutting(q) ==
  req' = [req EXCEPT ![q] =
            [op |-> @.op, at |-> "killTokens", row |-> @.row, session |-> @.session,
             seen |-> @.seen, since |-> consents, shut |-> @.shut]]

BadKillGrant(q) ==
  /\ At(q, "killGrant")
  /\ UNCHANGED <<tables, budget, history>>
  /\ Cutting(q)

KillGrant(q) ==
  /\ At(q, "killGrant")
  /\ Withdraw(q)
  /\ Cutting(q)

KillTokens(q) ==
  /\ At(q, "killTokens")
  /\ tokens' = [t \in DOMAIN tokens |-> [tokens[t] EXCEPT !.revoked = TRUE]]
  /\ cut' = IF req[q].since > cut THEN req[q].since ELSE cut
  /\ Answer(q)
  /\ UNCHANGED <<status, links, sessions, codes, grant, budget, consents>>

(***************************************************************************)
(* Time and restarts.                                                      *)
(***************************************************************************)
Lapsed(table, r) == [table EXCEPT ![r].lapsed = TRUE]

Lapse ==
  /\ lapses < MaxLapses
  /\ lapses' = lapses + 1
  /\ \/ /\ \E l \in DOMAIN links : ~links[l].lapsed /\ links' = Lapsed(links, l)
        /\ UNCHANGED <<sessions, codes, tokens>>
     \/ /\ \E s \in DOMAIN sessions :
             ~sessions[s].lapsed /\ sessions' = Lapsed(sessions, s)
        /\ UNCHANGED <<links, codes, tokens>>
     \/ /\ \E c \in DOMAIN codes : ~codes[c].lapsed /\ codes' = Lapsed(codes, c)
        /\ UNCHANGED <<links, sessions, tokens>>
     \/ /\ \E t \in DOMAIN tokens : ~tokens[t].lapsed /\ tokens' = Lapsed(tokens, t)
        /\ UNCHANGED <<links, sessions, codes>>
  /\ UNCHANGED <<status, grant, req, calls, crashes, history>>

\* A restart drops the handlers where they are; the tables stay.
Crash ==
  /\ crashes < MaxCrashes
  /\ crashes' = crashes + 1
  /\ \E q \in Requests : req[q] # Idle
  /\ req' = [q \in Requests |-> Idle]
  /\ UNCHANGED <<tables, calls, lapses, history>>

(***************************************************************************)
(* The specification.  The account exists or it does not; one that exists  *)
(* was verified and has a session.                                         *)
(***************************************************************************)
Init ==
  /\ \/ status = "none" /\ sessions = <<>>
     \/ status = "active" /\ sessions = <<[revoked |-> FALSE, lapsed |-> FALSE]>>
  /\ links = <<>> /\ codes = <<>> /\ tokens = <<>>
  /\ grant = "none"
  /\ req = [q \in Requests |-> Idle]
  /\ calls = 0 /\ lapses = 0 /\ crashes = 0
  /\ consents = 0 /\ cut = 0

Begin(q) ==
  \/ Register(q) \/ RequestReset(q) \/ Login(q) \/ Disconnect(q)
  \/ \E l \in DOMAIN links : OpenLink(q, "verify", l) \/ OpenLink(q, "reset", l)
  \/ \E s \in DOMAIN sessions :
       ChangePassword(q, s) \/ Authorize(q, s) \/ Approve(q, s)
  \/ \E c \in DOMAIN codes : ExchangeCode(q, c)
  \/ \E t \in DOMAIN tokens : RefreshTokens(q, t)

Continue(q) ==
  \/ Create(q) \/ InvalidateLinks(q) \/ IssueLink(q)
  \/ BurnLink(q) \/ Activate(q) \/ IssueSession(q) \/ RevokeSessions(q)
  \/ UpsertGrant(q) \/ IssueCode(q)
  \/ BurnCode(q) \/ LoadUsableSession(q) \/ IssueTokens(q)
  \/ ReadGrant(q) \/ BurnToken(q)
  \/ DropGrant(q) \/ KillGrant(q) \/ KillTokens(q)

Next ==
  \/ \E q \in Requests : Begin(q) \/ Continue(q)
  \/ \E s \in DOMAIN sessions : Logout(s)
  \/ Lapse
  \/ Crash

Spec == Init /\ [][Next]_vars

(***************************************************************************)
(* Properties.                                                             *)
(***************************************************************************)
\* Every table holds rows of its type.
TypeOK ==
  /\ status \in {"none", "pending", "active"}
  /\ links \in Seq(Link) /\ sessions \in Seq(Session)
  /\ codes \in Seq(Code) /\ tokens \in Seq(Token)
  /\ \A table \in {links, sessions, codes, tokens} : Len(table) <= MaxRows
  /\ grant \in {"none", "live", "revoked"}
  /\ req \in [Requests -> Request]
  /\ {calls, lapses, crashes, consents, cut} \subseteq Nat

\* Refresh tokens rotate: however often a code or a token is presented, by
\* how many requests at once, at most one token of a code's chain can still
\* be exchanged, or is about to be issued.
OneUsablePerCode ==
  \A c \in DOMAIN codes :
    LET live == {t \in DOMAIN tokens :
                   tokens[t].code = c /\ ~tokens[t].used /\ ~tokens[t].revoked}
        due  == {q \in Requests : /\ req[q].at \in {"usable", "consent", "issue"}
                                  /\ req[q].op \in {"exchange", "refresh"}
                                  /\ ChainOf(q) = c}
    IN \A x, y \in ({"live"} \X live) \cup ({"due"} \X due) : x = y

\* Once a revocation was answered, a refresh that begins afterwards gets
\* nothing until the grant is given again, even with a token whose insert
\* was under way while the revocation ran.
CutStaysCut ==
  \A q \in Requests :
    req[q].op = "refresh" /\ req[q].at \in {"usable", "issue"} =>
      ~(req[q].shut /\ req[q].since = consents)
=============================================================================

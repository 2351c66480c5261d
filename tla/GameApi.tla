------------------------------ MODULE GameApi -------------------------------
(***************************************************************************)
(* The Go game API (backend-go/internal/game): the journal that sends each *)
(* command of a role once to the ledger service (commands.go), the cache   *)
(* of the role's snapshot (upstream.go, ledger.go), the streams that push  *)
(* the snapshot (stream.go) and the service's stop and restart.            *)
(*                                                                         *)
(* One role.  The ledger service is external: it answers a call, refuses   *)
(* it, or the answer is lost; a call that was sent can be carried out late,*)
(* after the caller gave up or the API restarted.  Its version is the      *)
(* number of commands it has carried out, which is what a snapshot shows   *)
(* here.  Goroutines run from one lock, database statement or call to the  *)
(* next.                                                                   *)
(*                                                                         *)
(* A BadX is X with a plausible bug.                                       *)
(***************************************************************************)
EXTENDS Naturals, Sequences, FiniteSets, Functions

CONSTANTS
  None,        \* no value: a key not recorded, no entry, no caller
  Keys,        \* idempotency keys
  Bodies,      \* commands, by their canonical text
  Clients,     \* requests on /commands that can run at the same time
  Readers,     \* requests on /events that can run at the same time
  MaxStreams,  \* streams the role can have (five)
  MaxCalls,    \* bound: requests on /commands
  MaxReads,    \* bound: snapshots that are asked for
  MaxTroubles, \* bound: answers, statements and loads that fail
  MaxStops     \* bound: stops and crashes of the API

Results == {"pending", "success", "refused"}
Row == [body : Bodies, result : Results]

ASSUME GameApiAssumption ==
  /\ None \notin Keys \cup Bodies \cup Clients \cup Readers \cup Nat
  /\ None \notin Row
  /\ {MaxStreams, MaxCalls, MaxReads, MaxTroubles, MaxStops} \subseteq Nat

VARIABLES
  journal,   \* formal_commands: what is recorded of each key
  wire,      \* calls sent to the ledger service and not carried out yet
  done,      \* the ledger service: commands it has carried out, in order
  cmd,       \* the handlers of /commands
  cached,    \* the snapshot in the cache: its version, or None
  flight,    \* the load that others join: its reader, or None
  stale,     \* readers whose load was invalidated while it ran
  reader,    \* the streams: what each does, what it holds
  service,   \* "open", "stopping", "down"
  calls, reads, troubles, stops,
  told,      \* history: version of the last command reported as carried out
  answers    \* history: what was reported of each key

api == <<cached, flight, stale, reader>>
budget == <<calls, reads, troubles, stops>>
vars == <<journal, wire, done, cmd, api, service, budget, told, answers>>

Call == [key : Keys, body : Bodies, from : Clients \cup {None}]
Version == Len(done)

IdleCmd == [at |-> "idle", key |-> None, body |-> None, reply |-> None, made |-> 0]
Off == [at |-> "off", held |-> 0, floor |-> 0, joined |-> None]

(***************************************************************************)
(* Commands.                                                               *)
(***************************************************************************)
To(c, at) == cmd' = [cmd EXCEPT ![c].at = at]
Leave(c) == cmd' = [cmd EXCEPT ![c] = IdleCmd]

Trouble == troubles < MaxTroubles /\ troubles' = troubles + 1
NoTrouble == UNCHANGED troubles

BadExisting(c, k, b) ==
  /\ answers' = IF journal[k].result # "pending"
                  THEN answers \cup {[key |-> k, body |-> b, result |-> journal[k].result]}
                  ELSE answers
  /\ Leave(c)

\* existing(): another body under the key is refused, a recorded result is
\* given again, a pending one is reported as unknown.
Existing(c, k, b) ==
  /\ answers' = IF journal[k].body = b /\ journal[k].result # "pending"
                  THEN answers \cup {[key |-> k, body |-> b, result |-> journal[k].result]}
                  ELSE answers
  /\ Leave(c)

\* A known key is answered from the journal; for a new one the route is
\* chosen, which can refuse the command before anything is recorded.
Command(c, k, b) ==
  /\ service = "open" /\ cmd[c] = IdleCmd /\ calls < MaxCalls
  /\ calls' = calls + 1
  /\ IF journal[k] # None
       THEN Existing(c, k, b)
       ELSE /\ cmd' = [cmd EXCEPT ![c] =
                 [at |-> "insert", key |-> k, body |-> b, reply |-> None, made |-> 0]]
            /\ UNCHANGED answers
  /\ UNCHANGED <<journal, wire, done, api, service, reads, troubles, stops, told>>

BadInsert(c) ==
  /\ cmd[c].at = "insert"
  /\ journal' = [journal EXCEPT ![cmd[c].key] = [body |-> cmd[c].body, result |-> "pending"]]
  /\ To(c, "forward")
  /\ UNCHANGED <<wire, done, api, service, budget, told, answers>>

\* INSERT OR IGNORE: the row that was first stays, and the other request
\* looks at it.  A failed statement sends nothing.
Insert(c) ==
  /\ cmd[c].at = "insert"
  /\ \/ /\ journal[cmd[c].key] = None
        /\ journal' = [journal EXCEPT ![cmd[c].key] =
                         [body |-> cmd[c].body, result |-> "pending"]]
        /\ To(c, "forward")
        /\ NoTrouble
     \/ /\ journal[cmd[c].key] # None
        /\ To(c, "existing")
        /\ NoTrouble /\ UNCHANGED journal
     \/ Trouble /\ Leave(c) /\ UNCHANGED journal
  /\ UNCHANGED <<wire, done, api, service, calls, reads, stops, told, answers>>

LookAgain(c) ==
  /\ cmd[c].at = "existing"
  /\ Existing(c, cmd[c].key, cmd[c].body)
  /\ UNCHANGED <<journal, wire, done, api, service, budget, told>>

Forward(c) ==
  /\ cmd[c].at = "forward"
  /\ wire' = wire \cup {[key |-> cmd[c].key, body |-> cmd[c].body, from |-> c]}
  /\ To(c, "wait")
  /\ UNCHANGED <<journal, done, api, service, budget, told, answers>>

\* External: the ledger service carries a call out, or refuses it, and
\* answers whoever still waits.
Reply(call, reply, made) ==
  cmd' = [c \in Clients |->
            IF c = call.from THEN [cmd[c] EXCEPT !.at = "record", !.reply = reply,
                                                 !.made = made]
                             ELSE cmd[c]]

CarryOut(call) ==
  /\ wire' = wire \ {call}
  /\ done' = Append(done, [key |-> call.key, body |-> call.body])
  /\ Reply(call, "success", Version + 1)
  /\ UNCHANGED <<journal, api, service, budget, told, answers>>

Refuse(call) ==
  /\ wire' = wire \ {call}
  /\ Reply(call, "refused", 0)
  /\ UNCHANGED <<journal, done, api, service, budget, told, answers>>

\* The connection breaks, a time limit passes or a 5xx comes back: the
\* handler leaves the row pending, and the call may still be carried out.
GiveUp(c) ==
  /\ cmd[c].at = "wait" /\ Trouble
  /\ \E call \in wire :
       /\ call.from = c
       /\ \/ wire' = (wire \ {call}) \cup {[call EXCEPT !.from = None]}
          \/ wire' = wire \ {call}
  /\ Leave(c)
  /\ UNCHANGED <<journal, done, api, service, calls, reads, stops, told, answers>>

\* UPDATE ... result; when it fails the caller hears that the outcome is
\* unknown and the cached snapshot stays.
Record(c) ==
  /\ cmd[c].at = "record"
  /\ \/ /\ journal' = [journal EXCEPT ![cmd[c].key].result = cmd[c].reply]
        /\ To(c, "invalidate")
        /\ NoTrouble
     \/ Trouble /\ Leave(c) /\ UNCHANGED journal
  /\ UNCHANGED <<wire, done, api, service, calls, reads, stops, told, answers>>

BadInvalidate(c) ==
  /\ cmd[c].at = "invalidate"
  /\ cached' = None
  /\ told' = IF cmd[c].made > told THEN cmd[c].made ELSE told
  /\ answers' = answers \cup {[key |-> cmd[c].key, body |-> cmd[c].body,
                               result |-> cmd[c].reply]}
  /\ Leave(c)
  /\ UNCHANGED <<journal, wire, done, flight, stale, reader, service, budget>>

\* The snapshot is forgotten, a load under way is detached and will not be
\* kept, and the caller is answered.
Invalidate(c) ==
  /\ cmd[c].at = "invalidate"
  /\ cached' = None
  /\ stale' = IF flight = None THEN stale ELSE stale \cup {flight}
  /\ flight' = None
  /\ told' = IF cmd[c].made > told THEN cmd[c].made ELSE told
  /\ answers' = answers \cup {[key |-> cmd[c].key, body |-> cmd[c].body,
                               result |-> cmd[c].reply]}
  /\ Leave(c)
  /\ UNCHANGED <<journal, wire, done, reader, service, budget>>

(***************************************************************************)
(* Streams and the snapshot cache.                                         *)
(***************************************************************************)
Streams == {r \in Readers : reader[r].at # "off"}

Reserve(r) ==
  /\ reader[r] = Off
  /\ service = "open"
  /\ Cardinality(Streams) < MaxStreams
  /\ reader' = [reader EXCEPT ![r].at = "next"]
  /\ UNCHANGED <<journal, wire, done, cmd, cached, flight, stale, service,
                 budget, told, answers>>

\* cache.get: a fresh entry, else the load under way, else a load of one's
\* own.  `floor` is what the client has been told before it asked.
Get(r) ==
  /\ reader[r].at = "next" /\ reads < MaxReads
  /\ reads' = reads + 1
  /\ reader' = [reader EXCEPT ![r].floor = told,
       ![r].at = IF cached # None THEN "send" ELSE IF flight # None THEN "join"
                                               ELSE "load",
       ![r].held = IF cached # None THEN cached ELSE @,
       ![r].joined = IF cached = None THEN flight ELSE None]
  /\ flight' = IF cached = None /\ flight = None THEN r ELSE flight
  /\ UNCHANGED <<journal, wire, done, cmd, cached, stale, service,
                 calls, troubles, stops, told, answers>>

\* The load reads the role's account from the ledger service.
Load(r) ==
  /\ reader[r].at = "load"
  /\ reader' = [reader EXCEPT ![r].at = "loaded", ![r].held = Version]
  /\ UNCHANGED <<journal, wire, done, cmd, cached, flight, stale, service,
                 budget, told, answers>>

BadSettled(r, at, held) ==
  reader' = [reader EXCEPT ![r].at = at, ![r].held = held]

\* Whoever joined gets what the load got; it is kept unless invalidated.
Settled(r, at, held) ==
  reader' = [x \in Readers |->
    IF x = r \/ reader[x].joined = r
      THEN [reader[x] EXCEPT !.at = at, !.held = held, !.joined = None]
      ELSE reader[x]]

Land(r) ==
  /\ reader[r].at = "loaded"
  /\ cached' = IF r \in stale THEN cached ELSE reader[r].held
  /\ flight' = IF flight = r THEN None ELSE flight
  /\ stale' = stale \ {r}
  /\ Settled(r, "send", reader[r].held)
  /\ UNCHANGED <<journal, wire, done, cmd, service, budget, told, answers>>

\* A load that fails is not kept; a stream reports it and tries again.
LoadFails(r) ==
  /\ reader[r].at = "load" /\ Trouble
  /\ flight' = IF flight = r THEN None ELSE flight
  /\ stale' = stale \ {r}
  /\ reader' = [x \in Readers |->
       IF x = r \/ reader[x].joined = r
         THEN [reader[x] EXCEPT !.at = "next", !.joined = None] ELSE reader[x]]
  /\ UNCHANGED <<journal, wire, done, cmd, cached, service,
                 calls, reads, stops, told, answers>>

\* The event is written and the stream waits for its next tick; the stop, or
\* a write that fails, ends it.
Send(r) ==
  /\ reader[r].at = "send"
  /\ \/ reader' = [reader EXCEPT ![r].at = "next", ![r].floor = 0]
     \/ reader' = [reader EXCEPT ![r] = Off]
  /\ UNCHANGED <<journal, wire, done, cmd, cached, flight, stale, service,
                 budget, told, answers>>

\* A waiting stream sees the stop, or that its client or session is gone.
Release(r) ==
  /\ reader[r].at = "next"
  /\ reader' = [reader EXCEPT ![r] = Off]
  /\ UNCHANGED <<journal, wire, done, cmd, cached, flight, stale, service,
                 budget, told, answers>>

\* The entry's second passes, or the full cache drops it for another role.
Expire ==
  /\ cached # None
  /\ cached' = None
  /\ UNCHANGED <<journal, wire, done, cmd, flight, stale, reader, service,
                 budget, told, answers>>

(***************************************************************************)
(* Stop, crash and start.  What is in memory is gone; the journal and the  *)
(* calls already sent stay.                                                *)
(***************************************************************************)
Stop ==
  /\ service = "open" /\ stops < MaxStops
  /\ stops' = stops + 1
  /\ service' = "stopping"
  /\ UNCHANGED <<journal, wire, done, cmd, api, calls, reads, troubles, told, answers>>

Gone ==
  /\ cmd' = [c \in Clients |-> IdleCmd]
  /\ wire' = {[call EXCEPT !.from = None] : call \in wire}
  /\ cached' = None /\ flight' = None /\ stale' = {}
  /\ reader' = [r \in Readers |-> Off]

\* Close waits for the streams; commands that still run are cut off.
Close ==
  /\ service = "stopping" /\ Streams = {}
  /\ service' = "down"
  /\ Gone
  /\ UNCHANGED <<journal, done, budget, told, answers>>

Crash ==
  /\ service # "down" /\ stops < MaxStops
  /\ stops' = stops + 1
  /\ service' = "down"
  /\ Gone
  /\ UNCHANGED <<journal, done, calls, reads, troubles, told, answers>>

Start ==
  /\ service = "down"
  /\ service' = "open"
  /\ UNCHANGED <<journal, wire, done, cmd, api, budget, told, answers>>

(***************************************************************************)
(* The specification.                                                      *)
(***************************************************************************)
Init ==
  /\ journal = [k \in Keys |-> None]
  /\ wire = {} /\ done = <<>>
  /\ cmd = [c \in Clients |-> IdleCmd]
  /\ cached = None /\ flight = None /\ stale = {}
  /\ reader = [r \in Readers |-> Off]
  /\ service = "open"
  /\ calls = 0 /\ reads = 0 /\ troubles = 0 /\ stops = 0
  /\ told = 0 /\ answers = {}

Handler(c) ==
  \/ \E k \in Keys, b \in Bodies : Command(c, k, b)
  \/ Insert(c) \/ LookAgain(c) \/ Forward(c) \/ GiveUp(c)
  \/ Record(c) \/ Invalidate(c)

Working(r) == Load(r) \/ Land(r) \/ LoadFails(r) \/ Send(r)
Streaming(r) == Reserve(r) \/ Get(r) \/ Working(r) \/ Release(r)

Next ==
  \/ \E c \in Clients : Handler(c)
  \/ \E call \in wire : CarryOut(call) \/ Refuse(call)
  \/ \E r \in Readers : Streaming(r)
  \/ Expire \/ Stop \/ Close \/ Crash \/ Start

Spec == Init /\ [][Next]_vars

\* Streams run on, and a stopped service is closed: each goroutine is
\* scheduled, a call to the ledger service ends within its time limit, and
\* a waiting stream wakes when the service's context is cancelled.
Fairness ==
  /\ \A r \in Readers : WF_vars(Working(r)) /\ WF_vars(service = "stopping" /\ Release(r))
  /\ WF_vars(Close)

FairSpec == Spec /\ Fairness

(***************************************************************************)
(* Properties.                                                             *)
(***************************************************************************)
CmdData ==
  [at : {"idle", "insert", "existing", "forward", "wait", "record", "invalidate"},
   key : Keys \cup {None}, body : Bodies \cup {None},
   reply : {None, "success", "refused"}, made : Nat]
ReaderData ==
  [at : {"off", "next", "join", "load", "loaded", "send"},
   held : Nat, floor : Nat, joined : Readers \cup {None}]
AnswerData == [key : Keys, body : Bodies, result : {"success", "refused"}]

\* Every variable holds values of its type.
TypeOK ==
  /\ journal \in [Keys -> Row \cup {None}]
  /\ wire \subseteq Call
  /\ done \in Seq([key : Keys, body : Bodies])
  /\ cmd \in [Clients -> CmdData]
  /\ cached \in Nat \cup {None}
  /\ flight \in Readers \cup {None} /\ stale \subseteq Readers
  /\ reader \in [Readers -> ReaderData]
  /\ service \in {"open", "stopping", "down"}
  /\ {calls, reads, troubles, stops, told} \subseteq Nat
  /\ answers \subseteq AnswerData

\* A key reaches the ledger at most once: repeated requests, two at the same
\* time, lost answers, calls carried out late, crashes and restarts never
\* make it carry the same command out again.
CarriedOutOnce ==
  \A i, j \in DOMAIN done : done[i].key = done[j].key => i = j

\* What was reported of a key is what happened, to the command that was
\* asked: a success was carried out with that body, a refusal never was and
\* never will be.
AnswersAreTrue ==
  \A a \in answers :
    IF a.result = "success"
      THEN [key |-> a.key, body |-> a.body] \in Range(done)
      ELSE \A call \in Range(done) \cup wire : call.key # a.key

\* When the request that sent a command has been answered, the next snapshot
\* that is asked for shows it, though an older load may still be under way.
SnapshotShowsAnswer ==
  \A r \in Readers : reader[r].at = "send" => reader[r].held >= reader[r].floor

\* What the proofs add.  A key is at most once on its way: a handler that
\* recorded it, a call that was sent or the command that was carried out.
Sent(k) == \E x \in Range(done) \cup wire : x.key = k
AtWork(c) == cmd[c].at \in {"forward", "wait", "record", "invalidate"}
HandlerOK(c) ==
  /\ cmd[c].at # "idle" => cmd[c].key \in Keys /\ cmd[c].body \in Bodies
  /\ AtWork(c) => journal[cmd[c].key] # None /\ journal[cmd[c].key].body = cmd[c].body
  /\ cmd[c].at = "existing" => journal[cmd[c].key] # None
  /\ cmd[c].at = "forward" => ~Sent(cmd[c].key)
CallOK(call) ==
  /\ journal[call.key] # None /\ journal[call.key].body = call.body
  /\ \A other \in wire : other.key = call.key => other = call
  /\ \A x \in Range(done) : x.key # call.key
  /\ call.from # None => /\ cmd[call.from].at = "wait"
                        /\ cmd[call.from].key = call.key
                        /\ cmd[call.from].body = call.body
OneWay ==
  /\ \A c \in Clients : HandlerOK(c)
  /\ \A c, d \in Clients : AtWork(c) /\ AtWork(d) /\ cmd[c].key = cmd[d].key => c = d
  /\ \A call \in wire : CallOK(call)
  /\ \A x \in Range(done) : journal[x.key] # None

\* What a reply, a recorded result or an answer says is so, and will be.
Truly(k, b, result) ==
  /\ result = "success" => [key |-> k, body |-> b] \in Range(done)
  /\ result = "refused" => ~Sent(k)
NotForwarded(k) == \A c \in Clients : cmd[c].key = k => cmd[c].at # "forward"
ReplyOK(c) ==
  cmd[c].at \in {"record", "invalidate"} =>
    /\ cmd[c].reply \in {"success", "refused"}
    /\ Truly(cmd[c].key, cmd[c].body, cmd[c].reply)
    /\ cmd[c].made <= Version
RecordOK(k) ==
  journal[k] # None /\ journal[k].result # "pending" =>
    Truly(k, journal[k].body, journal[k].result) /\ NotForwarded(k)
AnswerOK(a) ==
  Truly(a.key, a.body, a.result) /\ journal[a.key] # None /\ NotForwarded(a.key)
RepliesAreTrue ==
  /\ \A c \in Clients : ReplyOK(c)
  /\ \A k \in Keys : RecordOK(k)
  /\ \A a \in answers : AnswerOK(a)

\* A load that was not invalidated is at least as new as what has been told,
\* and as what whoever joined it had been told.
Loading(r) == reader[r].at \in {"load", "loaded"}
LoadOK(r) ==
  /\ r \in stale => Loading(r)
  /\ Loading(r) /\ r \notin stale => flight = r
  /\ reader[r].floor <= told
  /\ reader[r].at = "loaded" =>
       reader[r].held >= reader[r].floor /\ (r \notin stale => reader[r].held >= told)
JoinOK(r, load) ==
  reader[r].joined = load =>
    /\ reader[r].at = "join"
    /\ Loading(load)
    /\ reader[load].at = "loaded" => reader[load].held >= reader[r].floor
LoadsAreFresh ==
  /\ told <= Version
  /\ cached # None => cached >= told
  /\ flight # None => Loading(flight) /\ flight \notin stale
  /\ \A r \in Readers : LoadOK(r)
  /\ \A r, load \in Readers : JoinOK(r, load)
IInv ==
  /\ TypeOK /\ CarriedOutOnce /\ OneWay /\ RepliesAreTrue
  /\ LoadsAreFresh /\ SnapshotShowsAnswer

\* A stop is completed: no stream keeps the service from closing.
StopsInTheEnd == service = "stopping" ~> service # "stopping"
=============================================================================

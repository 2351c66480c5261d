------------------------------- MODULE Season -------------------------------
(***************************************************************************)
(* Seasons of the trading contest (modules/season): enrolment, settlement  *)
(* by the clock, and what a crash leaves for the next settlement.          *)
(*                                                                         *)
(* Enrolments and scheduler callbacks interleave at every await.           *)
(* Settlements run one at a time (settleChain), but they save whole        *)
(* account rows outside the engine's settlement chain, whose own jobs      *)
(* (fills, daily valuation, resets) read and save the same rows.           *)
(*                                                                         *)
(* The three market clocks are one day counter: the code looks only at the *)
(* market that is furthest ahead.  A BadX is X with a plausible bug.       *)
(***************************************************************************)
EXTENDS Integers, Sequences, FiniteSetsExt, Functions

CONSTANTS
  Users, Accounts,
  Owner,        \* [Accounts -> Users]: one account per user and market
  Callbacks,    \* calls of the 30 s scheduler
  InitEquity,   \* [Accounts -> Nat]
  Worth,        \* equities a day of trading may bring
  Preset,       \* equity of a reset account
  Prize,        \* season points by rank (<<300, 200, 100>> in the code)
  Durations,    \* game days of a season by type, in turn (<<10, 20, 5>>)
  MaxSeasons,   \* bound on seasons
  MaxCrashes,   \* bound on crashes
  Scenes        \* who takes part in a behaviour, and for how long

Scene == [accounts: SUBSET Accounts,
          callbacks: SUBSET Callbacks,   \* calls that may overlap
          seasons: 1..MaxSeasons,        \* bound on seasons
          days: Nat,                     \* bound on game days
          trading: SUBSET Accounts,      \* accounts the engine settles
          resetting: SUBSET Accounts]    \* accounts whose owner asks for a reset

ASSUME SeasonAssumption ==
  /\ Owner \in [Accounts -> Users] /\ Users \cap Callbacks = {}
  /\ IsFiniteSet(Users) /\ IsFiniteSet(Accounts)
  /\ InitEquity \in [Accounts -> Nat \ {0}]
  /\ Worth \subseteq Nat \ {0} /\ Preset \in Nat \ {0}
  /\ Prize \in Seq(Nat) /\ Durations \in Seq(Nat \ {0}) /\ Durations # <<>>
  /\ MaxSeasons \in Nat /\ MaxCrashes \in Nat /\ Scenes \subseteq Scene

VARIABLES
  seasons,    \* the seasons table; seq is the index
  entries,    \* the season_entries table
  accounts,   \* the account rows: money and season points
  day,        \* gameDay of the market that is furthest ahead
  locals,     \* locals of each enrolment and scheduler callback
  award,      \* locals of the running settlement
  engine,     \* locals of the running job of the engine's settlement chain
  crashes,
  scene
vars == <<seasons, entries, accounts, day, locals, award, engine, crashes, scene>>

Callers == Users \cup Callbacks
NoEntry == [status |-> "none", start |-> 0, final |-> 0, rank |-> 0, rewarded |-> FALSE]
Entry == [status: {"none", "active", "settled"}, start: Nat, final: Nat, rank: Nat,
          rewarded: BOOLEAN]
SeasonRow == [status: {"enrolling", "running", "settled"}, anchor: Nat]
Account == [equity: Nat, points: Nat]
Local == [phase: {"idle", "look", "count", "create", "found", "entering", "queued"},
          seq: Nat, open: BOOLEAN, day: Nat, todo: SUBSET Accounts,
          seen: [Accounts -> Account]]
Award == [phase: {"idle", "reading", "saving", "paying"}, seq: Nat,
          unread: SUBSET Accounts, todo: SUBSET Accounts,
          final: [Accounts -> Nat], rank: [Users -> Nat], rewarded: SUBSET Users,
          entry: SUBSET Accounts, pay: SUBSET Accounts, seen: [Accounts -> Account]]
Job == [phase: {"idle", "asked", "trade", "reset"}, acct: SUBSET Accounts, row: Account]
Idle == [phase |-> "idle", seq |-> 0, open |-> FALSE, day |-> 0, todo |-> {},
         seen |-> [a \in Accounts |-> [equity |-> 0, points |-> 0]]]
NoAward == [phase |-> "idle", seq |-> 0, unread |-> {}, todo |-> {},
            final |-> [a \in Accounts |-> 0], rank |-> [u \in Users |-> 0],
            rewarded |-> {}, entry |-> {}, pay |-> {},
            seen |-> [a \in Accounts |-> [equity |-> 0, points |-> 0]]]
NoJob == [phase |-> "idle", acct |-> {}, row |-> [equity |-> 0, points |-> 0]]

AccountsOf(u) == {a \in scene.accounts : Owner[a] = u}
Live == {s \in DOMAIN seasons : seasons[s].status # "settled"}
RunningSeasons == {s \in DOMAIN seasons : seasons[s].status = "running"}
Duration(s) == Durations[((s - 1) % Len(Durations)) + 1]
Due(s) == seasons[s].status = "running" /\ day - seasons[s].anchor >= Duration(s)

Init ==
  /\ seasons = <<>>
  /\ entries = [s \in 1..MaxSeasons |-> [a \in Accounts |-> NoEntry]]
  /\ accounts = [a \in Accounts |-> [equity |-> InitEquity[a], points |-> 0]]
  /\ day = 0 /\ crashes = 0 /\ scene \in Scenes
  /\ locals = [c \in Callers |-> Idle] /\ award = NoAward /\ engine = NoJob

Go(c, phase) == locals' = [locals EXCEPT ![c].phase = phase]

-----------------------------------------------------------------------------
(* ensureSeason, for an enrolment, a visit of the season page, or a scheduler
   callback after its settlement. *)

BadFound(c, s) ==
  locals' = [locals EXCEPT ![c] =
    IF c \in Callbacks THEN Idle
    ELSE [@ EXCEPT !.phase = "found", !.seq = s, !.open = TRUE]]

Found(c, s) ==
  locals' = [locals EXCEPT ![c] =
    IF c \in Callbacks THEN Idle
    ELSE [@ EXCEPT !.phase = "found", !.seq = s,
                   !.open = s \in DOMAIN seasons => seasons[s].status = "enrolling"]]

Ask(u) ==
  /\ locals[u].phase = "idle"
  /\ Go(u, "look")
  /\ UNCHANGED <<seasons, entries, accounts, day, award, engine, crashes>>

Look(c) ==
  /\ locals[c].phase = "look"
  /\ IF Live = {} THEN Go(c, "count") ELSE \E s \in Live : Found(c, s)
  /\ UNCHANGED <<seasons, entries, accounts, day, award, engine, crashes>>

BadCount(c) ==
  /\ locals[c].phase = "count"
  /\ locals' = [locals EXCEPT ![c].phase = "create", ![c].seq = Len(seasons) + 1]
  /\ UNCHANGED <<seasons, entries, accounts, day, award, engine, crashes>>

Count(c) ==
  /\ locals[c].phase = "count"
  /\ LET Settled == {s \in DOMAIN seasons : seasons[s].status = "settled"}
     IN  \E last \in Settled \cup {0} :
           /\ \A s \in Settled : s <= last
           /\ locals' = [locals EXCEPT ![c].phase = "create", ![c].seq = last + 1]
  /\ UNCHANGED <<seasons, entries, accounts, day, award, engine, crashes>>

Create(c) ==
  /\ locals[c].phase = "create" /\ locals[c].seq = Len(seasons) + 1
  /\ Len(seasons) < scene.seasons
  /\ seasons' = Append(seasons, [status |-> "enrolling", anchor |-> 0])
  /\ Found(c, locals[c].seq)
  /\ UNCHANGED <<entries, accounts, day, award, engine, crashes>>

(* The unique seq is taken: read again what the other caller made of it. *)
Reuse(c) ==
  /\ locals[c].phase = "create" /\ locals[c].seq \in DOMAIN seasons
  /\ \E s \in IF Live = {} THEN {locals[c].seq} ELSE Live : Found(c, s)
  /\ UNCHANGED <<seasons, entries, accounts, day, award, engine, crashes>>

-----------------------------------------------------------------------------
(* enroll: every account of the user gets an entry with its equity as it was
   read; then the season is opened, by the copy that said "enrolling". *)

(* A visit ends here, and an enrolment that finds the season closed. *)
Leave(u) ==
  /\ locals[u].phase = "found"
  /\ locals' = [locals EXCEPT ![u] = Idle]
  /\ UNCHANGED <<seasons, entries, accounts, day, award, engine, crashes>>

EnrollRead(u) ==
  /\ locals[u].phase = "found" /\ locals[u].open
  /\ locals' = [locals EXCEPT ![u].phase = "entering", ![u].seen = accounts,
                              ![u].todo = AccountsOf(u), ![u].day = day]
  /\ UNCHANGED <<seasons, entries, accounts, day, award, engine, crashes>>

EnrollEntry(u, a) ==
  /\ locals[u].phase = "entering" /\ a \in locals[u].todo
  /\ entries' = [entries EXCEPT ![locals[u].seq][a] =
       IF @ # NoEntry THEN @
       ELSE [status |-> "active", start |-> locals[u].seen[a].equity,
             final |-> 0, rank |-> 0, rewarded |-> FALSE]]
  /\ locals' = [locals EXCEPT ![u].todo = @ \ {a}]
  /\ UNCHANGED <<seasons, accounts, day, award, engine, crashes>>

EnrollOpen(u) ==
  /\ locals[u].phase = "entering" /\ locals[u].todo = {}
  /\ seasons' = [seasons EXCEPT ![locals[u].seq] =
                   [status |-> "running", anchor |-> locals[u].day]]
  /\ locals' = [locals EXCEPT ![u] = Idle]
  /\ UNCHANGED <<entries, accounts, day, award, engine, crashes>>

-----------------------------------------------------------------------------
(* maybeSettleByClock and settleSeason.  A callback whose season is due joins
   settleChain; the settlement at work stands for the head of the chain. *)

Poll(c) ==
  /\ c \in scene.callbacks /\ locals[c].phase = "idle"
  /\ \E s \in RunningSeasons : Due(s)
  /\ Go(c, "queued")
  /\ UNCHANGED <<seasons, entries, accounts, day, award, engine, crashes>>

BadSettleBegin ==
  /\ award.phase = "idle" /\ \E c \in Callbacks : locals[c].phase = "queued"
  /\ \E s \in RunningSeasons :
       LET active == {a \in Accounts : entries[s][a].status = "active"} IN
       /\ \A a \in Accounts : entries[s][a].status # "settled"
       /\ award' = [NoAward EXCEPT !.phase = "reading", !.seq = s,
                                   !.unread = active, !.todo = active]
  /\ UNCHANGED <<seasons, entries, accounts, day, locals, engine, crashes>>

SettleBegin ==
  /\ award.phase = "idle" /\ \E c \in Callbacks : locals[c].phase = "queued"
  /\ \E s \in RunningSeasons :
       LET active == {a \in Accounts : entries[s][a].status = "active"} IN
       award' = [NoAward EXCEPT !.phase = "reading", !.seq = s,
                                !.unread = active, !.todo = active]
  /\ UNCHANGED <<seasons, entries, accounts, day, locals, engine, crashes>>

SettleRead(a) ==
  /\ award.phase = "reading" /\ a \in award.unread
  /\ award' = [award EXCEPT !.unread = @ \ {a}, !.final[a] = accounts[a].equity]
  /\ UNCHANGED <<seasons, entries, accounts, day, locals, engine, crashes>>

(* Return of a user over the given accounts, as a fraction. *)
StartSum(s, as) == SumFunctionOnSet([a \in Accounts |-> entries[s][a].start], as)
Outdoes(s, final, as, bs) ==
  LET Gain(xs) == SumFunctionOnSet(final, xs) - StartSum(s, xs)
  IN  Gain(as) * StartSum(s, bs) > Gain(bs) * StartSum(s, as)

BadRankings(s, todo, final) ==
  LET users == {Owner[a] : a \in todo}
      Mine(u) == todo \cap AccountsOf(u)
  IN  {r \in [Users -> 0..Cardinality(users)] :
         /\ \A u \in Users : r[u] = 0 <=> u \notin users
         /\ \A u, v \in users : u # v => r[u] # r[v]
         /\ \A u, v \in users :
              SumFunctionOnSet(final, Mine(u)) > SumFunctionOnSet(final, Mine(v))
              => r[u] < r[v]}

(* Users by falling return; equal returns in the order the rows came.  0: not ranked. *)
Rankings(s, todo, final) ==
  LET users == {Owner[a] : a \in todo}
      Mine(u) == todo \cap AccountsOf(u)
  IN  {r \in [Users -> 0..Cardinality(users)] :
         /\ \A u \in Users : r[u] = 0 <=> u \notin users
         /\ \A u, v \in users : u # v => r[u] # r[v]
         /\ \A u, v \in users : Outdoes(s, final, Mine(u), Mine(v)) => r[u] < r[v]}

SettleRank ==
  /\ award.phase = "reading" /\ award.unread = {}
  /\ \E r \in Rankings(award.seq, award.todo, award.final) :
       award' = [award EXCEPT !.phase = "saving", !.rank = r,
                   !.rewarded = {Owner[a] : a \in {b \in Accounts :
                                                     entries[award.seq][b].rewarded}}]
  /\ UNCHANGED <<seasons, entries, accounts, day, locals, engine, crashes>>

RewardFor(rank) == IF rank \in DOMAIN Prize THEN Prize[rank] ELSE 0
OnPodium(a) == award.rank[Owner[a]] \in DOMAIN Prize

SaveEntry(a) ==
  entries' = [entries EXCEPT ![award.seq][a] =
    [@ EXCEPT !.status = "settled", !.final = award.final[a],
              !.rank = award.rank[Owner[a]], !.rewarded = OnPodium(a)]]

(* Off the podium, or a second market of a user who has been paid. *)
SettleEntry(a) ==
  /\ award.phase = "saving" /\ a \in award.todo
  /\ ~OnPodium(a) \/ Owner[a] \in award.rewarded
  /\ SaveEntry(a)
  /\ award' = [award EXCEPT !.todo = @ \ {a}]
  /\ UNCHANGED <<seasons, accounts, day, locals, engine, crashes>>

SettlePodium(a) ==
  /\ award.phase = "saving" /\ a \in award.todo
  /\ OnPodium(a) /\ Owner[a] \notin award.rewarded
  /\ award' = [award EXCEPT !.phase = "paying", !.entry = {a},
                            !.pay = AccountsOf(Owner[a]), !.seen = accounts]
  /\ UNCHANGED <<seasons, entries, accounts, day, locals, engine, crashes>>

SettlePay(b) ==
  /\ award.phase = "paying" /\ b \in award.pay
  /\ accounts' = [accounts EXCEPT ![b] =
       [award.seen[b] EXCEPT !.points = @ + RewardFor(award.rank[Owner[b]])]]
  /\ award' = [award EXCEPT !.pay = @ \ {b}]
  /\ UNCHANGED <<seasons, entries, day, locals, engine, crashes>>

BadSettlePaid(a) ==
  /\ award.phase = "paying" /\ award.pay = {} /\ a \in award.entry
  /\ SaveEntry(a)
  /\ award' = [award EXCEPT !.phase = "saving", !.entry = {}, !.todo = @ \ {a}]
  /\ UNCHANGED <<seasons, accounts, day, locals, engine, crashes>>

SettlePaid(a) ==
  /\ award.phase = "paying" /\ award.pay = {} /\ a \in award.entry
  /\ SaveEntry(a)
  /\ award' = [award EXCEPT !.phase = "saving", !.entry = {}, !.todo = @ \ {a},
                            !.rewarded = @ \cup {Owner[a]}]
  /\ UNCHANGED <<seasons, accounts, day, locals, engine, crashes>>

Settled(s) == [seasons EXCEPT ![s].status = "settled"]

BadSettleEnd ==
  /\ award.phase = "saving" /\ award.todo = {}
  /\ seasons' = Settled(award.seq) /\ award' = NoAward
  /\ \E c \in Callbacks : locals[c].phase = "queued" /\ Go(c, "look")
  /\ UNCHANGED <<entries, accounts, day, engine, crashes>>

(* The settlements queued behind this one start in the same turn, find no
   running season and return; every callback goes on to ensureSeason. *)
SettleEnd ==
  /\ award.phase = "saving" /\ award.todo = {}
  /\ seasons' = Settled(award.seq) /\ award' = NoAward
  /\ locals' = [c \in Callers |-> IF locals[c].phase = "queued"
                                  THEN [locals[c] EXCEPT !.phase = "look"] ELSE locals[c]]
  /\ UNCHANGED <<entries, accounts, day, engine, crashes>>

-----------------------------------------------------------------------------
(* The engine's settlement chain, one job at a time: it reads an account row,
   and saves it whole with its new money. *)

EngineRead(a) ==
  /\ a \in scene.trading /\ engine.phase = "idle"
  /\ engine' = [phase |-> "trade", acct |-> {a}, row |-> accounts[a]]
  /\ UNCHANGED <<seasons, entries, accounts, day, locals, award, crashes>>

(* resetAccount asks isBlocked first, and queues behind the chain after. *)
Blocked(u) == \E s \in RunningSeasons, a \in AccountsOf(u) : entries[s][a].status = "active"

ResetAsk(a) ==
  /\ a \in scene.resetting /\ engine.phase = "idle" /\ ~Blocked(Owner[a])
  /\ engine' = [engine EXCEPT !.phase = "asked", !.acct = {a}]
  /\ UNCHANGED <<seasons, entries, accounts, day, locals, award, crashes>>

ResetRead(a) ==
  /\ engine.phase = "asked" /\ a \in engine.acct
  /\ engine' = [engine EXCEPT !.phase = "reset", !.row = accounts[a]]
  /\ UNCHANGED <<seasons, entries, accounts, day, locals, award, crashes>>

EngineSave(a, w) ==
  /\ a \in engine.acct
  /\ \/ engine.phase = "trade" /\ w \in Worth
     \/ engine.phase = "reset" /\ w = Preset
  /\ accounts' = [accounts EXCEPT ![a] = [engine.row EXCEPT !.equity = w]]
  /\ engine' = NoJob
  /\ UNCHANGED <<seasons, entries, day, locals, award, crashes>>

-----------------------------------------------------------------------------
(* A request takes milliseconds and a game day minutes: no enrolment spans a
   change of day. *)
NewDay ==
  /\ day < scene.days /\ \A u \in Users : locals[u].phase = "idle"
  /\ day' = day + 1
  /\ UNCHANGED <<seasons, entries, accounts, locals, award, engine, crashes>>

(* The process dies, and the tables are all that is left; a settlement that
   throws leaves the same tables behind. *)
Crash ==
  /\ crashes < MaxCrashes
  /\ crashes' = crashes + 1
  /\ locals' = [c \in Callers |-> Idle] /\ award' = NoAward /\ engine' = NoJob
  /\ UNCHANGED <<seasons, entries, accounts, day>>

Requests ==
  \/ \E u \in Users : Ask(u)
  \/ \E a \in Accounts : EngineRead(a) \/ ResetAsk(a)
  \/ NewDay \/ Crash

Ensure(c) == Look(c) \/ Count(c) \/ Create(c) \/ Reuse(c)

Handlers ==
  \/ \E c \in Callers : Ensure(c)
  \/ \E u \in Users : Leave(u) \/ EnrollRead(u) \/ EnrollOpen(u)
  \/ \E u \in Users, a \in Accounts : EnrollEntry(u, a)
  \/ \E a \in Accounts : ResetRead(a) \/ \E w \in Worth \cup {Preset} : EngineSave(a, w)

Scheduler == \E c \in Callbacks : Poll(c)

Settlement ==
  \/ SettleBegin \/ SettleRank \/ SettleEnd
  \/ \E a \in Accounts : \/ SettleRead(a) \/ SettleEntry(a) \/ SettlePodium(a)
                         \/ SettlePay(a) \/ SettlePaid(a)

Next == (Requests \/ Handlers \/ Scheduler \/ Settlement) /\ UNCHANGED scene
Spec == Init /\ [][Next]_vars

(* Timers fire and promises go on; nobody has to enrol, trade or crash. *)
FairSpec ==
  /\ Spec /\ WF_vars(Scheduler /\ UNCHANGED scene)
  /\ WF_vars(Settlement /\ UNCHANGED scene)
  /\ \A c \in Callbacks : WF_vars(Ensure(c) /\ UNCHANGED scene)

-----------------------------------------------------------------------------
(* Properties. *)

(* The tables and every handler's locals keep their shape. *)
TypeOK ==
  /\ seasons \in Seq(SeasonRow) /\ Len(seasons) <= MaxSeasons
  /\ entries \in [1..MaxSeasons -> [Accounts -> Entry]]
  /\ accounts \in [Accounts -> Account]
  /\ day \in 0..scene.days /\ crashes \in 0..MaxCrashes
  /\ scene \in Scenes
  /\ locals \in [Callers -> Local] /\ award \in Award /\ engine \in Job

(* However enrolments, visits and callbacks race to make the next season, only
   one season is open or running at a time, and it is the last one. *)
OneLiveSeason == \A s \in Live : s = Len(seasons)

(* A season is settled only after it has run its days, even when several
   callbacks found it due and queued behind each other; and what it recorded
   is history, through replays and late calls. *)
SettledIsFinal ==
  [][\A s \in DOMAIN seasons :
       /\ seasons[s].status # "settled" /\ seasons'[s].status = "settled" => Due(s)
       /\ seasons[s].status = "settled" =>
            seasons'[s] = seasons[s] /\ entries'[s] = entries[s]]_vars

(* In a settled season nobody stands behind a user he outdid, and no rank is
   given to two users (a settlement repeated after a crash ranks the rest from
   the first place again).  Points are the prizes of the recorded ranks, one
   per user and season, whatever number of markets the user plays.  Left out:
   what a crash repeats (PaidOnce), and accounts the engine writes meanwhile,
   whose older row may take the points back. *)
BestRank(s, u) ==
  LET ranks == {entries[s][a].rank : a \in AccountsOf(u)} \ {0}
  IN  IF ranks = {} THEN 0 ELSE Min(ranks)
Final(s) == [a \in Accounts |-> entries[s][a].final]
Entered(s, u) == {a \in AccountsOf(u) : entries[s][a].status = "settled"}
RanksInOrder ==
  \A s \in DOMAIN seasons : seasons[s].status = "settled" =>
    \A u, v \in Users : u # v /\ Entered(s, u) # {} /\ Entered(s, v) # {} =>
      /\ BestRank(s, u) # BestRank(s, v)
      /\ Outdoes(s, Final(s), Entered(s, u), Entered(s, v)) =>
           BestRank(s, u) < BestRank(s, v)
PointsMatchRanks ==
  award.phase = "idle" =>
    \A a \in scene.accounts \ (scene.trading \cup scene.resetting) :
      accounts[a].points = SumFunction([s \in DOMAIN entries |->
                                          RewardFor(BestRank(s, Owner[a]))])
PrizesFollowReturns == crashes = 0 => RanksInOrder /\ PointsMatchRanks

(* A settlement that is repeated after an interruption pays no user twice. *)
PaidOnce ==
  \A a \in Accounts :
    accounts[a].points <= MapThenSumSet(LAMBDA s : RewardFor(1), DOMAIN seasons)

(* A season that has run its days is settled, crashes or not. *)
DueIsSettled ==
  \A s \in 1..MaxSeasons :
    s \in DOMAIN seasons /\ Due(s) ~> s \in DOMAIN seasons /\ seasons[s].status = "settled"

=============================================================================

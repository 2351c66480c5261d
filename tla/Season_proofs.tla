----------------------------- MODULE Season_proofs -----------------------------
(***************************************************************************)
(* Proofs about Season, for any players, markets, callbacks and bounds.    *)
(*                                                                         *)
(* The argument: a season is created under the number after the last       *)
(* settled one (Creating), so never beside a live one; an enrolment that   *)
(* may still open a season found it on this very day (Opens); and whoever  *)
(* waits to settle, or settles, does it to the last season after its days  *)
(* have run (Queue, Works).  The last two exclude each other.              *)
(* Prized follows ranks and points through a settlement: which entries the *)
(* ranking is recorded in, which users are paid, and in which accounts the *)
(* prize has arrived.                                                      *)
(***************************************************************************)
EXTENDS Season, SumTheorems

Creating ==
  \A c \in Callers : locals[c].phase = "create" =>
    LET before == locals[c].seq - 1
    IN  before = 0 \/ (before \in DOMAIN seasons /\ seasons[before].status = "settled")

Fresh(s) ==
  /\ s \in DOMAIN seasons
  /\ \/ seasons[s].status = "enrolling"
     \/ seasons[s].status = "running" /\ seasons[s].anchor = day

Opens ==
  /\ \A u \in Users : locals[u].phase = "entering" =>
       locals[u].open /\ locals[u].day = day
  /\ \A u \in Users : locals[u].phase \in {"found", "entering"} /\ locals[u].open =>
       Fresh(locals[u].seq)

Queue == \A c \in Callers : locals[c].phase = "queued" =>
           Len(seasons) \in DOMAIN seasons /\ Due(Len(seasons))
Works == award.phase # "idle" => award.seq \in DOMAIN seasons /\ Due(award.seq)

Safe == OneLiveSeason /\ Creating /\ Opens /\ Queue /\ Works
IInv == TypeOK /\ Safe

-----------------------------------------------------------------------------
LEMMA Scenery ==
  /\ \A sc \in Scenes : /\ sc.accounts \subseteq Accounts /\ sc.callbacks \subseteq Callbacks
                        /\ sc.days \in Nat /\ sc.seasons \in 1..MaxSeasons
  /\ Owner \in [Accounts -> Users] /\ Users \cap Callbacks = {}
  /\ MaxSeasons \in Nat /\ MaxCrashes \in Nat /\ Preset \in Nat /\ Worth \subseteq Nat
  /\ InitEquity \in [Accounts -> Nat] /\ IsFiniteSet(Users)
BY SeasonAssumption DEF SeasonAssumption, Scene

LEMMA DurationType ==
  ASSUME NEW s \in Nat \ {0}
  PROVE  Duration(s) \in Nat \ {0}
<1>1. Durations \in Seq(Nat \ {0}) /\ Durations # <<>>
  BY SeasonAssumption DEF SeasonAssumption
<1>2. Len(Durations) \in Nat \ {0}
  BY <1>1
<1>3. ((s - 1) % Len(Durations)) + 1 \in 1..Len(Durations)
  BY <1>2
<1> QED BY <1>1, <1>3 DEF Duration

LEMMA Rows ==
  ASSUME TypeOK
  PROVE  /\ Len(seasons) \in Nat /\ DOMAIN seasons = 1..Len(seasons)
         /\ \A s \in DOMAIN seasons : seasons[s] \in SeasonRow
BY DEF TypeOK

LEMMA PrizeType ==
  ASSUME NEW rank \in Nat
  PROVE  RewardFor(rank) \in Nat
<1>1. Prize \in Seq(Nat)
  BY SeasonAssumption DEF SeasonAssumption
<1> QED BY <1>1 DEF RewardFor

(* A season found on its own day is not one whose days have run. *)
LEMMA Exclusive ==
  ASSUME TypeOK, OneLiveSeason, NEW s, NEW r \in DOMAIN seasons, Fresh(s), Due(r)
  PROVE  FALSE
<1>1. /\ s \in DOMAIN seasons /\ seasons[s] \in SeasonRow /\ seasons[r] \in SeasonRow
      /\ DOMAIN seasons = 1..Len(seasons) /\ Len(seasons) \in Nat
  BY Rows DEF Fresh
<1>2. s \in Live /\ r \in Live
  BY <1>1 DEF Fresh, Due, Live
<1>3. s = r
  BY <1>2 DEF OneLiveSeason
<1>4. Duration(r) \in Nat \ {0}
  BY <1>1, DurationType
<1>5. day \in Int
  BY Scenery DEF TypeOK
<1> QED BY <1>1, <1>3, <1>4, <1>5 DEF Fresh, Due

-----------------------------------------------------------------------------
(* Types: what a handler's locals become. *)

LEMMA IdleType == Idle \in Local /\ NoAward \in Award /\ NoJob \in Job /\ NoEntry \in Entry
<1>1. [a \in Accounts |-> [equity |-> 0, points |-> 0]] \in [Accounts -> Account]
  BY DEF Account
<1> QED BY <1>1 DEF Idle, Local, NoAward, Award, NoJob, Job, Account, NoEntry, Entry

LEMMA Went ==
  ASSUME TypeOK, NEW c \in Callers,
         NEW phase \in {"idle", "look", "count", "create", "found", "entering", "queued"},
         Go(c, phase)
  PROVE  /\ locals' \in [Callers -> Local]
         /\ \A d \in Callers : d # c => locals'[d] = locals[d]
         /\ locals'[c].phase = phase /\ locals'[c].seq = locals[c].seq
         /\ locals'[c].open = locals[c].open /\ locals'[c].day = locals[c].day
BY ZenonT(40) DEF TypeOK, Local, Go

LEMMA FoundOut ==
  ASSUME TypeOK, NEW c \in Callers, NEW s \in Nat, Found(c, s)
  PROVE  /\ locals' \in [Callers -> Local]
         /\ \A d \in Callers : d # c => locals'[d] = locals[d]
         /\ \/ locals'[c].phase = "idle"
            \/ /\ locals'[c].phase = "found" /\ locals'[c].seq = s
               /\ locals'[c].open = (s \in DOMAIN seasons => seasons[s].status = "enrolling")
BY IdleType DEF TypeOK, Local, Found, Idle

-----------------------------------------------------------------------------
(* Type correctness, action by action. *)

LEMMA TypeEnsure ==
  ASSUME TypeOK, NEW c \in Callers, Ensure(c), UNCHANGED scene
  PROVE  TypeOK'
<1> USE Rows, Scenery
<1>1. CASE Look(c)
  <2>1. locals' \in [Callers -> Local]
    <3>1. CASE Go(c, "count")
      BY <3>1, Went
    <3>2. CASE \E s \in Live : Found(c, s)
      BY <3>2, FoundOut DEF Live
    <3> QED BY <1>1, <3>1, <3>2 DEF Look
  <2> QED BY <1>1, <2>1 DEF Look, TypeOK
<1>2. CASE Count(c)
  <2>1. PICK last \in {s \in DOMAIN seasons : seasons[s].status = "settled"} \cup {0} :
          locals' = [locals EXCEPT ![c].phase = "create", ![c].seq = last + 1]
    BY <1>2 DEF Count
  <2>2. last + 1 \in Nat
    OBVIOUS
  <2>3. locals' \in [Callers -> Local]
    <3>1. [locals[c] EXCEPT !.phase = "create", !.seq = last + 1] \in Local
      BY ZenonT(40), <2>2 DEF TypeOK, Local
    <3>2. /\ locals' = [d \in Callers |-> locals'[d]]
          /\ \A d \in Callers : d # c => locals'[d] = locals[d]
          /\ locals'[c] = [locals[c] EXCEPT !.phase = "create", !.seq = last + 1]
      BY <2>1 DEF TypeOK
    <3> QED BY <3>1, <3>2 DEF TypeOK
  <2> QED BY <1>2, <2>3 DEF Count, TypeOK
<1>3. CASE Create(c)
  <2>1. locals[c].seq \in Nat
    BY DEF TypeOK, Local
  <2>2. locals' \in [Callers -> Local]
    BY <1>3, <2>1, FoundOut DEF Create
  <2>3. seasons' \in Seq(SeasonRow) /\ Len(seasons') = Len(seasons) + 1
    BY <1>3 DEF Create, TypeOK, SeasonRow
  <2>4. Len(seasons') <= MaxSeasons
    BY <1>3, <2>3 DEF Create, TypeOK
  <2> QED BY <1>3, <2>2, <2>3, <2>4 DEF Create, TypeOK
<1>4. CASE Reuse(c)
  <2>1. locals[c].seq \in Nat
    BY DEF TypeOK, Local
  <2>2. locals' \in [Callers -> Local]
    BY <1>4, <2>1, FoundOut DEF Reuse, Live
  <2> QED BY <1>4, <2>2 DEF Reuse, TypeOK
<1> QED BY <1>1, <1>2, <1>3, <1>4 DEF Ensure

LEMMA TypeEnroll ==
  ASSUME TypeOK, NEW u \in Users, UNCHANGED scene,
         \/ Ask(u) \/ Leave(u) \/ EnrollRead(u) \/ EnrollOpen(u)
         \/ \E a \in Accounts : EnrollEntry(u, a)
  PROVE  TypeOK'
<1> USE Rows, Scenery
<1>u. u \in Callers
  BY DEF Callers
<1>1. CASE Ask(u)
  BY <1>u, <1>1, Went DEF Ask, TypeOK
<1>2. CASE Leave(u)
  BY <1>u, <1>2, IdleType DEF Leave, TypeOK
<1>3. CASE EnrollRead(u)
  <2>1. AccountsOf(u) \subseteq Accounts /\ accounts \in [Accounts -> Account] /\ day \in Nat
    BY DEF AccountsOf, TypeOK
  <2>2. locals' \in [Callers -> Local]
    <3>1. [locals[u] EXCEPT !.phase = "entering", !.seen = accounts,
                            !.todo = AccountsOf(u), !.day = day] \in Local
      BY ZenonT(40), <1>u, <2>1 DEF TypeOK, Local
    <3>2. /\ locals' = [d \in Callers |-> locals'[d]]
          /\ \A d \in Callers : d # u => locals'[d] = locals[d]
          /\ locals'[u] = [locals[u] EXCEPT !.phase = "entering", !.seen = accounts,
                                            !.todo = AccountsOf(u), !.day = day]
      BY <1>u, <1>3 DEF EnrollRead, TypeOK
    <3> QED BY <3>1, <3>2 DEF TypeOK
  <2> QED BY <1>3, <2>2 DEF EnrollRead, TypeOK
<1>4. CASE EnrollOpen(u)
  <2>1. locals[u].day \in Nat
    BY <1>u DEF TypeOK, Local
  <2>2. seasons' \in [1..Len(seasons) -> SeasonRow]
    BY <1>4, <2>1 DEF EnrollOpen, SeasonRow
  <2>3. seasons' \in Seq(SeasonRow) /\ Len(seasons') = Len(seasons)
    BY <2>2
  <2> QED BY <1>u, <1>4, <2>3, IdleType DEF EnrollOpen, TypeOK
<1>5. CASE \E a \in Accounts : EnrollEntry(u, a)
  <2>1. PICK a \in Accounts : EnrollEntry(u, a)
    BY <1>5
  <2>2. locals[u] \in Local /\ locals[u].seen[a].equity \in Nat
    <3>1. locals[u] \in Local
      BY <1>u DEF TypeOK
    <3>2. locals[u].seen \in [Accounts -> Account]
      BY <3>1 DEF Local
    <3>3. locals[u].seen[a] \in Account
      BY <3>2
    <3> QED BY <3>1, <3>3 DEF Account
  <2>3. locals' \in [Callers -> Local]
    BY <1>u, <2>1, <2>2 DEF EnrollEntry, TypeOK, Local
  <2>4. entries' \in [1..MaxSeasons -> [Accounts -> Entry]]
    <3>1. [status |-> "active", start |-> locals[u].seen[a].equity,
           final |-> 0, rank |-> 0, rewarded |-> FALSE] \in Entry
      BY <2>2 DEF Entry
    <3>2. \A s \in 1..MaxSeasons : entries'[s] \in [Accounts -> Entry]
      <4> SUFFICES ASSUME NEW s \in 1..MaxSeasons
                   PROVE  entries'[s] \in [Accounts -> Entry]
        OBVIOUS
      <4>1. /\ entries[s] \in [Accounts -> Entry]
            /\ \/ entries'[s] = entries[s]
               \/ \E e \in Entry : entries'[s] = [entries[s] EXCEPT ![a] = e]
        BY ZenonT(40), <2>1, <3>1 DEF EnrollEntry, TypeOK
      <4> QED BY <4>1
    <3>3. entries' = [s \in 1..MaxSeasons |-> entries'[s]]
      BY <2>1 DEF EnrollEntry, TypeOK
    <3> QED BY <3>2, <3>3
  <2> QED BY <2>1, <2>3, <2>4 DEF EnrollEntry, TypeOK
<1> QED BY <1>1, <1>2, <1>3, <1>4, <1>5

LEMMA TypeEngine ==
  ASSUME TypeOK, NEW a \in Accounts, UNCHANGED scene,
         \/ EngineRead(a) \/ ResetAsk(a) \/ ResetRead(a)
         \/ \E w \in Worth \cup {Preset} : EngineSave(a, w)
  PROVE  TypeOK'
<1> USE Rows, Scenery
<1>0. accounts[a] \in Account
  BY DEF TypeOK
<1>1. CASE EngineRead(a)
  BY <1>0, <1>1 DEF EngineRead, TypeOK, Job
<1>2. CASE ResetAsk(a)
  BY <1>2 DEF ResetAsk, TypeOK, Job
<1>3. CASE ResetRead(a)
  BY <1>0, <1>3 DEF ResetRead, TypeOK, Job
<1>4. CASE \E w \in Worth \cup {Preset} : EngineSave(a, w)
  <2>1. PICK w \in Worth \cup {Preset} : EngineSave(a, w)
    BY <1>4
  <2>2. w \in Nat /\ engine.row \in Account
    BY DEF TypeOK, Job
  <2>3. [engine.row EXCEPT !.equity = w] \in Account
    BY <2>2 DEF Account
  <2>4. accounts' \in [Accounts -> Account]
    BY <2>1, <2>3 DEF EngineSave, TypeOK
  <2> QED BY <2>1, <2>4, IdleType DEF EngineSave, TypeOK
<1> QED BY <1>1, <1>2, <1>3, <1>4

LEMMA Richer ==
  ASSUME NEW row \in Account, NEW p \in Nat
  PROVE  [row EXCEPT !.points = @ + p] \in Account
<1>1. row.points + p \in Nat
  BY DEF Account
<1> QED BY <1>1 DEF Account

LEMMA TypeSaved ==
  ASSUME TypeOK, NEW a \in Accounts, SaveEntry(a)
  PROVE  entries' \in [1..MaxSeasons -> [Accounts -> Entry]]
<1>1. award.final[a] \in Nat /\ award.rank[Owner[a]] \in Nat
  BY Scenery DEF TypeOK, Award
<1>2. OnPodium(a) \in BOOLEAN
  BY DEF OnPodium
<1>3. \A e \in Entry : [e EXCEPT !.status = "settled", !.final = award.final[a],
                        !.rank = award.rank[Owner[a]], !.rewarded = OnPodium(a)] \in Entry
  BY <1>1, <1>2 DEF Entry
<1> QED BY <1>3 DEF SaveEntry, TypeOK

LEMMA TypeSettlement ==
  ASSUME TypeOK, Settlement, UNCHANGED scene
  PROVE  TypeOK'
<1> USE Rows, Scenery
<1>0. award \in Award
  BY DEF TypeOK
<1>1. CASE SettleBegin
  <2>1. PICK s \in RunningSeasons :
          award' = [NoAward EXCEPT !.phase = "reading", !.seq = s,
                      !.unread = {a \in Accounts : entries[s][a].status = "active"},
                      !.todo = {a \in Accounts : entries[s][a].status = "active"}]
    BY <1>1 DEF SettleBegin
  <2>2. s \in Nat
    BY DEF RunningSeasons
  <2>3. {a \in Accounts : entries[s][a].status = "active"} \in SUBSET Accounts
    OBVIOUS
  <2>4. award' \in Award
    BY <2>1, <2>2, <2>3, IdleType DEF Award
  <2> QED BY <1>1, <2>4 DEF SettleBegin, TypeOK
<1>2. CASE SettleRank
  <2>1. PICK r \in Rankings(award.seq, award.todo, award.final) :
          award' = [award EXCEPT !.phase = "saving", !.rank = r,
                   !.rewarded = {Owner[a] : a \in {b \in Accounts :
                                                     entries[award.seq][b].rewarded}}]
    BY <1>2 DEF SettleRank
  <2>2. {Owner[a] : a \in award.todo} \subseteq Users
    BY <1>0 DEF Award
  <2>3. Cardinality({Owner[a] : a \in award.todo}) \in Nat
    BY <2>2, FS_Subset, FS_CardinalityType
  <2>4. r \in [Users -> Nat]
    BY <2>3 DEF Rankings
  <2>5. {Owner[a] : a \in {b \in Accounts : entries[award.seq][b].rewarded}} \in SUBSET Users
    OBVIOUS
  <2>6. award' \in Award
    BY <1>0, <2>1, <2>4, <2>5 DEF Award
  <2> QED BY <1>2, <2>6 DEF SettleRank, TypeOK
<1>3. CASE SettleEnd
  <2>1. seasons' \in [1..Len(seasons) -> SeasonRow]
    <3>1. \A s \in 1..Len(seasons) : [seasons[s] EXCEPT !.status = "settled"] \in SeasonRow
      BY DEF SeasonRow
    <3> QED BY <1>3, <3>1 DEF SettleEnd, Settled
  <2>2. seasons' \in Seq(SeasonRow) /\ Len(seasons') = Len(seasons)
    BY SMTT(30), <2>1
  <2>3. \A c \in Callers : [locals[c] EXCEPT !.phase = "look"] \in Local
    BY ZenonT(40) DEF TypeOK, Local
  <2>4. locals' \in [Callers -> Local]
    BY <1>3, <2>3 DEF SettleEnd, TypeOK
  <2> QED BY <1>3, <2>2, <2>4, IdleType DEF SettleEnd, TypeOK
<1>4. ASSUME NEW a \in Accounts, SettleRead(a)
      PROVE  TypeOK'
  <2>1. accounts[a].equity \in Nat
    BY DEF TypeOK, Account
  <2>2. award' \in Award
    BY <1>0, <1>4, <2>1 DEF SettleRead, Award
  <2> QED BY <1>4, <2>2 DEF SettleRead, TypeOK
<1>5. ASSUME NEW a \in Accounts, SettleEntry(a)
      PROVE  TypeOK'
  <2>1. award' \in Award
    BY <1>0, <1>5 DEF SettleEntry, Award
  <2> QED BY <1>5, <2>1, TypeSaved DEF SettleEntry, TypeOK
<1>6. ASSUME NEW a \in Accounts, SettlePodium(a)
      PROVE  TypeOK'
  <2>1. AccountsOf(Owner[a]) \in SUBSET Accounts /\ {a} \in SUBSET Accounts
    BY DEF AccountsOf, TypeOK
  <2>2. accounts \in [Accounts -> Account]
    BY DEF TypeOK
  <2>3. award' \in Award
    BY <1>0, <1>6, <2>1, <2>2 DEF SettlePodium, Award
  <2> QED BY <1>6, <2>3 DEF SettlePodium, TypeOK
<1>7. ASSUME NEW b \in Accounts, SettlePay(b)
      PROVE  TypeOK'
  <2>1. award.seen[b] \in Account /\ award.rank[Owner[b]] \in Nat
    BY <1>0 DEF Award
  <2>2. RewardFor(award.rank[Owner[b]]) \in Nat
    BY <2>1, PrizeType
  <2>3. [award.seen[b] EXCEPT !.points = @ + RewardFor(award.rank[Owner[b]])] \in Account
    BY <2>1, <2>2, Richer
  <2>4. accounts' \in [Accounts -> Account]
    BY <1>7, <2>3 DEF SettlePay, TypeOK
  <2>5. award' \in Award
    BY <1>0, <1>7 DEF SettlePay, Award
  <2> QED BY <1>7, <2>4, <2>5 DEF SettlePay, TypeOK
<1>8. ASSUME NEW a \in Accounts, SettlePaid(a)
      PROVE  TypeOK'
  <2>1. PICK left \in SUBSET Accounts, winners \in SUBSET Users :
          award' = [award EXCEPT !.phase = "saving", !.entry = {}, !.todo = left,
                                 !.rewarded = winners]
    <3>1. award.todo \ {a} \in SUBSET Accounts /\ award.rewarded \cup {Owner[a]} \in SUBSET Users
      BY <1>0 DEF Award
    <3> QED BY <1>8, <3>1 DEF SettlePaid
  <2>2. award' \in Award
    BY <1>0, <2>1 DEF Award
  <2> QED BY <1>8, <2>2, TypeSaved DEF SettlePaid, TypeOK
<1> QED BY <1>1, <1>2, <1>3, <1>4, <1>5, <1>6, <1>7, <1>8 DEF Settlement

LEMMA TypeNext ==
  ASSUME TypeOK, [Next]_vars
  PROVE  TypeOK'
<1> USE Rows, Scenery
<1>1. CASE UNCHANGED vars
  BY <1>1 DEF vars, TypeOK
<1> SUFFICES ASSUME Requests \/ Handlers \/ Scheduler \/ Settlement, UNCHANGED scene
             PROVE  TypeOK'
  BY <1>1 DEF Next
<1>2. CASE NewDay
  BY <1>2 DEF NewDay, TypeOK
<1>3. CASE Crash
  BY <1>3, IdleType DEF Crash, TypeOK
<1>4. ASSUME NEW c \in Callbacks, Poll(c)
      PROVE  TypeOK'
  <2>1. c \in Callers
    BY DEF Callers
  <2> QED BY <1>4, <2>1, Went DEF Poll, TypeOK
<1> QED BY <1>2, <1>3, <1>4, TypeEnsure, TypeEnroll, TypeEngine, TypeSettlement
    DEF Requests, Handlers, Scheduler

-----------------------------------------------------------------------------
(* Safety, action by action. *)

(* What a handler may become while the seasons table and the day stand still. *)
Sound(c) ==
  /\ locals[c].phase = "create" =>
       LET before == locals[c].seq - 1
       IN  before = 0 \/ (before \in DOMAIN seasons /\ seasons[before].status = "settled")
  /\ c \in Users /\ locals[c].phase = "entering" => locals[c].open /\ locals[c].day = day
  /\ c \in Users /\ locals[c].phase \in {"found", "entering"} /\ locals[c].open =>
       Fresh(locals[c].seq)
  /\ locals[c].phase = "queued" => Len(seasons) \in DOMAIN seasons /\ Due(Len(seasons))

LEMMA Quiet ==
  ASSUME Safe, UNCHANGED <<seasons, day>>,
         award'.phase # "idle" => award.phase # "idle" /\ award'.seq = award.seq,
         \A c \in Callers : Sound(c)'
  PROVE  Safe'
<1>1. OneLiveSeason'
  BY DEF Safe, OneLiveSeason, Live
<1>2. Works'
  BY DEF Safe, Works, Due
<1>3. Creating' /\ Queue'
  BY DEF Sound, Creating, Queue
<1>4. Opens'
  BY DEF Sound, Opens, Callers
<1> QED BY <1>1, <1>2, <1>3, <1>4 DEF Safe

LEMMA Soundness == ASSUME Safe PROVE \A c \in Callers : Sound(c)
BY DEF Safe, Creating, Opens, Queue, Sound

LEMMA Alike ==
  ASSUME UNCHANGED <<seasons, day>>, NEW c \in Callers, Sound(c), locals'[c] = locals[c]
  PROVE  Sound(c)'
BY DEF Sound, Fresh, Due

(* The steps of one handler that leave the seasons as they are. *)
LEMMA OneMoves ==
  ASSUME Safe, UNCHANGED <<seasons, day, award>>, NEW c \in Callers,
         \A d \in Callers : d # c => locals'[d] = locals[d], Sound(c)'
  PROVE  Safe'
<1>1. \A d \in Callers : Sound(d)'
  <2> SUFFICES ASSUME NEW d \in Callers PROVE Sound(d)'
    OBVIOUS
  <2>1. CASE d = c
    BY <2>1
  <2>2. CASE d # c
    BY <2>2, Soundness, Alike
  <2> QED BY <2>1, <2>2
<1> QED BY <1>1, Quiet

LEMMA SafeFound ==
  ASSUME TypeOK, Safe, UNCHANGED <<seasons, day, award>>,
         NEW c \in Callers, NEW s \in DOMAIN seasons, Found(c, s)
  PROVE  Safe'
<1>1. seasons[s] \in SeasonRow /\ s \in Nat
  BY Rows
<1>2. /\ \A d \in Callers : d # c => locals'[d] = locals[d]
      /\ \/ locals'[c].phase = "idle"
         \/ /\ locals'[c].phase = "found" /\ locals'[c].seq = s
            /\ locals'[c].open = (s \in DOMAIN seasons => seasons[s].status = "enrolling")
  BY <1>1, FoundOut
<1>3. Sound(c)'
  BY <1>2 DEF Sound, Fresh
<1> QED BY <1>2, <1>3, OneMoves

LEMMA SafeCreate ==
  ASSUME TypeOK, Safe, NEW c \in Callers, Create(c)
  PROVE  Safe'
<1>0. /\ Len(seasons) \in Nat /\ DOMAIN seasons = 1..Len(seasons)
      /\ \A s \in DOMAIN seasons : seasons[s] \in SeasonRow
  BY Rows
<1>1. /\ Len(seasons') = Len(seasons) + 1 /\ DOMAIN seasons' = 1..(Len(seasons) + 1)
      /\ \A s \in DOMAIN seasons : seasons'[s] = seasons[s]
      /\ seasons'[Len(seasons) + 1].status = "enrolling"
  BY <1>0 DEF Create, TypeOK
<1>2. Len(seasons) = 0 \/ (Len(seasons) > 0 /\ seasons[Len(seasons)].status = "settled")
  BY <1>0 DEF Safe, Creating, Create
<1>3. \A s \in DOMAIN seasons : seasons[s].status = "settled"
  BY <1>0, <1>2 DEF Safe, OneLiveSeason, Live
<1>4. OneLiveSeason'
  BY <1>0, <1>1, <1>3 DEF OneLiveSeason, Live
<1>5. /\ \A d \in Callers : d # c => locals'[d] = locals[d]
      /\ \/ locals'[c].phase = "idle"
         \/ locals'[c].phase = "found" /\ locals'[c].seq = Len(seasons) + 1
  BY <1>0, FoundOut DEF Create
<1>6. Creating'
  BY <1>0, <1>1, <1>5 DEF Safe, Creating
<1>7. Opens'
  <2>1. \A s : Fresh(s) => Fresh(s)'
    BY <1>0, <1>1 DEF Fresh, Create
  <2>2. \A s : s = Len(seasons) + 1 => Fresh(s)'
    BY <1>0, <1>1 DEF Fresh
  <2> QED BY <1>5, <2>1, <2>2 DEF Safe, Opens, Callers, Create
<1>8. Queue'
  BY <1>0, <1>2, <1>3, <1>5 DEF Safe, Queue, Due
<1>9. Works'
  BY <1>3 DEF Safe, Works, Due, Create
<1> QED BY <1>4, <1>6, <1>7, <1>8, <1>9 DEF Safe

LEMMA SafeEnsure ==
  ASSUME TypeOK, Safe, NEW c \in Callers, Ensure(c)
  PROVE  Safe'
<1>1. CASE Look(c)
  <2>1. CASE Go(c, "count")
    <3>1. Sound(c)'
      BY <2>1, Went DEF Sound
    <3> QED BY <1>1, <2>1, <3>1, Went, OneMoves DEF Look
  <2>2. CASE \E s \in Live : Found(c, s)
    BY <1>1, <2>2, SafeFound DEF Look, Live
  <2> QED BY <1>1, <2>1, <2>2 DEF Look
<1>2. CASE Count(c)
  <2>0. DOMAIN seasons = 1..Len(seasons) /\ Len(seasons) \in Nat
    BY Rows
  <2>1. PICK last \in {s \in DOMAIN seasons : seasons[s].status = "settled"} \cup {0} :
          locals' = [locals EXCEPT ![c].phase = "create", ![c].seq = last + 1]
    BY <1>2 DEF Count
  <2>2. /\ \A d \in Callers : d # c => locals'[d] = locals[d]
        /\ locals'[c].phase = "create" /\ locals'[c].seq = last + 1
    BY <2>1 DEF TypeOK, Local
  <2>3. /\ last = 0 \/ (last \in DOMAIN seasons /\ seasons[last].status = "settled")
        /\ locals'[c].seq - 1 = last
    BY <2>0, <2>1, <2>2
  <2>4. Sound(c)'
    BY <1>2, <2>2, <2>3 DEF Sound, Count
  <2> QED BY <1>2, <2>2, <2>4, OneMoves DEF Count
<1>3. CASE Create(c)
  BY <1>3, SafeCreate
<1>4. CASE Reuse(c)
  <2>1. PICK s \in DOMAIN seasons : Found(c, s)
    BY <1>4 DEF Reuse, Live
  <2> QED BY <1>4, <2>1, SafeFound DEF Reuse
<1> QED BY <1>1, <1>2, <1>3, <1>4 DEF Ensure

LEMMA SafeOpen ==
  ASSUME TypeOK, Safe, NEW u \in Users, EnrollOpen(u)
  PROVE  Safe'
<1>0. /\ Len(seasons) \in Nat /\ DOMAIN seasons = 1..Len(seasons)
      /\ \A s \in DOMAIN seasons : seasons[s] \in SeasonRow
      /\ u \in Callers
  BY Rows DEF Callers
<1> DEFINE s == locals[u].seq
<1>1. Fresh(s) /\ locals[u].day = day
  BY DEF Safe, Opens, EnrollOpen
<1>2. s \in DOMAIN seasons /\ seasons[s].status # "settled" /\ s = Len(seasons)
  BY <1>0, <1>1 DEF Fresh, Safe, OneLiveSeason, Live
<1>3. /\ DOMAIN seasons' = DOMAIN seasons /\ Len(seasons') = Len(seasons)
      /\ \A r \in DOMAIN seasons : r # Len(seasons) => seasons'[r] = seasons[r]
      /\ seasons'[Len(seasons)] = [status |-> "running", anchor |-> day]
      /\ day' = day
  <2>1. /\ seasons' = [r \in 1..Len(seasons) |-> seasons'[r]]
        /\ \A r \in 1..Len(seasons) : r # s => seasons'[r] = seasons[r]
        /\ seasons'[s] = [status |-> "running", anchor |-> day]
    BY <1>0, <1>1, <1>2 DEF EnrollOpen
  <2>2. Len(seasons') = Len(seasons)
    BY <1>0, <2>1
  <2> QED BY <1>0, <1>2, <2>1, <2>2 DEF EnrollOpen
<1>4. /\ \A d \in Callers : d # u => locals'[d] = locals[d]
      /\ locals'[u].phase = "idle"
  BY <1>0 DEF EnrollOpen, TypeOK, Idle
<1>5. OneLiveSeason'
  BY <1>2, <1>3 DEF Safe, OneLiveSeason, Live
<1>6. Creating'
  BY <1>2, <1>3, <1>4 DEF Safe, Creating
<1>7. Opens'
  <2>1. \A r : Fresh(r) => Fresh(r)'
    BY <1>2, <1>3 DEF Fresh
  <2> QED BY <1>3, <1>4, <2>1 DEF Safe, Opens, Callers
<1>8. ~Due(Len(seasons))
  BY <1>1, <1>2, Exclusive DEF Safe
<1>9. Queue'
  BY <1>4, <1>8 DEF Safe, Queue
<1>10. Works'
  <2>1. award.phase # "idle" => award.seq # Len(seasons)
    BY <1>8 DEF Safe, Works
  <2> QED BY <1>3, <2>1 DEF Safe, Works, Due, EnrollOpen
<1> QED BY <1>5, <1>6, <1>7, <1>9, <1>10 DEF Safe

LEMMA SafeEnroll ==
  ASSUME TypeOK, Safe, NEW u \in Users,
         \/ Ask(u) \/ Leave(u) \/ EnrollRead(u) \/ EnrollOpen(u)
         \/ \E a \in Accounts : EnrollEntry(u, a)
  PROVE  Safe'
<1>u. u \in Callers
  BY DEF Callers
<1>1. CASE Ask(u)
  <2>1. Sound(u)'
    BY <1>u, <1>1, Went DEF Sound, Ask
  <2> QED BY <1>u, <1>1, <2>1, Went, OneMoves DEF Ask
<1>2. CASE Leave(u)
  <2>1. \A d \in Callers : d # u => locals'[d] = locals[d]
    BY <1>2 DEF Leave, TypeOK
  <2>2. locals'[u].phase = "idle"
    BY <1>u, <1>2 DEF Leave, TypeOK, Idle
  <2>3. Sound(u)'
    BY <2>2 DEF Sound
  <2> QED BY <1>u, <1>2, <2>1, <2>3, OneMoves DEF Leave
<1>3. CASE EnrollRead(u)
  <2>1. /\ \A d \in Callers : d # u => locals'[d] = locals[d]
        /\ locals'[u].phase = "entering" /\ locals'[u].day = day
        /\ locals'[u].seq = locals[u].seq /\ locals'[u].open = locals[u].open
    BY <1>u, <1>3 DEF EnrollRead, TypeOK, Local
  <2>2. locals[u].open /\ Fresh(locals[u].seq)
    BY <1>3 DEF EnrollRead, Safe, Opens
  <2>3. Sound(u)'
    BY <1>3, <2>1, <2>2 DEF Sound, EnrollRead, Fresh
  <2> QED BY <1>u, <1>3, <2>1, <2>3, OneMoves DEF EnrollRead
<1>4. CASE EnrollOpen(u)
  BY <1>4, SafeOpen
<1>5. CASE \E a \in Accounts : EnrollEntry(u, a)
  <2>1. PICK a \in Accounts : EnrollEntry(u, a)
    BY <1>5
  <2>2. /\ \A d \in Callers : d # u => locals'[d] = locals[d]
        /\ locals'[u].phase = "entering" /\ locals'[u].day = locals[u].day
        /\ locals'[u].seq = locals[u].seq /\ locals'[u].open = locals[u].open
    BY <1>u, <2>1 DEF EnrollEntry, TypeOK, Local
  <2>3. locals[u].open /\ Fresh(locals[u].seq) /\ locals[u].day = day
    BY <2>1 DEF EnrollEntry, Safe, Opens
  <2>4. Sound(u)'
    BY <2>1, <2>2, <2>3 DEF Sound, EnrollEntry, Fresh
  <2> QED BY <1>u, <2>1, <2>2, <2>4, OneMoves DEF EnrollEntry
<1> QED BY <1>1, <1>2, <1>3, <1>4, <1>5

LEMMA SafePoll ==
  ASSUME TypeOK, Safe, NEW c \in Callbacks, Poll(c)
  PROVE  Safe'
<1>1. c \in Callers /\ c \notin Users
  BY Scenery DEF Callers
<1>2. PICK s \in DOMAIN seasons : Due(s)
  BY DEF Poll, RunningSeasons
<1>3. s = Len(seasons)
  BY <1>2 DEF Safe, OneLiveSeason, Live, Due
<1>4. Sound(c)'
  BY <1>1, <1>2, <1>3, Went DEF Poll, Sound, Due
<1> QED BY <1>1, <1>4, Went, OneMoves DEF Poll

LEMMA SafeSettlement ==
  ASSUME TypeOK, Safe, Settlement
  PROVE  Safe'
<1>0. /\ Len(seasons) \in Nat /\ DOMAIN seasons = 1..Len(seasons)
      /\ \A s \in DOMAIN seasons : seasons[s] \in SeasonRow
      /\ award \in Award
  BY Rows DEF TypeOK
<1>1. CASE SettleBegin
  <2>1. PICK c \in Callbacks : locals[c].phase = "queued"
    BY <1>1 DEF SettleBegin
  <2>2. Len(seasons) \in DOMAIN seasons /\ Due(Len(seasons))
    BY <2>1 DEF Safe, Queue, Callers
  <2>3. PICK s \in RunningSeasons : award'.seq = s
    <3>1. PICK s \in RunningSeasons :
            LET active == {a \in Accounts : entries[s][a].status = "active"} IN
            award' = [NoAward EXCEPT !.phase = "reading", !.seq = s,
                                     !.unread = active, !.todo = active]
      BY <1>1 DEF SettleBegin
    <3> QED BY <3>1 DEF NoAward
  <2>4. s = Len(seasons)
    BY <2>3 DEF RunningSeasons, Safe, OneLiveSeason, Live
  <2>5. UNCHANGED <<seasons, day, locals>>
    BY <1>1 DEF SettleBegin
  <2>6. Works'
    BY <2>2, <2>3, <2>4, <2>5 DEF Works, Due
  <2> QED BY <2>5, <2>6 DEF Safe, OneLiveSeason, Live, Creating, Opens, Fresh, Queue, Due
<1>2. CASE SettleEnd
  <2>1. award.seq \in DOMAIN seasons /\ Due(award.seq)
    BY <1>2 DEF SettleEnd, Safe, Works
  <2>2. award.seq = Len(seasons)
    BY <2>1 DEF Safe, OneLiveSeason, Live, Due
  <2>3. \A s : ~Fresh(s)
    BY <2>1, Exclusive DEF Safe
  <2>4. /\ DOMAIN seasons' = DOMAIN seasons /\ Len(seasons') = Len(seasons) /\ day' = day
        /\ \A s \in DOMAIN seasons : s # award.seq => seasons'[s] = seasons[s]
        /\ seasons'[award.seq].status = "settled"
    <3>1. /\ seasons' = [s \in 1..Len(seasons) |-> seasons'[s]]
          /\ \A s \in 1..Len(seasons) : s # award.seq => seasons'[s] = seasons[s]
          /\ seasons'[award.seq] = [seasons[award.seq] EXCEPT !.status = "settled"]
      BY <1>0, <1>2, <2>1 DEF SettleEnd, Settled
    <3>2. seasons'[award.seq].status = "settled"
      BY <1>0, <2>1, <3>1 DEF SeasonRow
    <3>3. Len(seasons') = Len(seasons)
      BY <1>0, <3>1
    <3> QED BY <1>0, <1>2, <3>1, <3>2, <3>3 DEF SettleEnd
  <2>5. \A c \in Callers :
          /\ locals'[c].phase # "queued"
          /\ locals'[c].phase = "look" \/ locals'[c] = locals[c]
    BY <1>2 DEF SettleEnd, TypeOK, Local
  <2>6. OneLiveSeason'
    BY <2>4 DEF Safe, OneLiveSeason, Live
  <2>7. Creating'
    <3> SUFFICES ASSUME NEW c \in Callers, locals'[c].phase = "create"
                 PROVE  LET before == locals'[c].seq - 1
                        IN  before = 0 \/ (before \in DOMAIN seasons'
                                           /\ seasons'[before].status = "settled")
      BY DEF Creating
    <3>1. locals'[c] = locals[c]
      BY <2>5
    <3> QED BY <2>4, <3>1 DEF Safe, Creating
  <2>8. Opens'
    <3> SUFFICES ASSUME NEW u \in Users, locals'[u].phase \in {"found", "entering"}
                 PROVE  /\ locals'[u].phase = "entering" => locals'[u].open
                        /\ ~locals'[u].open
      BY DEF Opens
    <3>1. locals'[u] = locals[u]
      BY <2>5 DEF Callers
    <3> QED BY <2>3, <3>1 DEF Safe, Opens
  <2>9. Queue' /\ Works'
    BY <1>2, <2>5 DEF Queue, Works, SettleEnd, NoAward
  <2> QED BY <2>6, <2>7, <2>8, <2>9 DEF Safe
<1>3. CASE \/ SettleRank
           \/ \E a \in Accounts : \/ SettleRead(a) \/ SettleEntry(a) \/ SettlePodium(a)
                                  \/ SettlePay(a) \/ SettlePaid(a)
  <2>1. /\ UNCHANGED <<seasons, day, locals>>
        /\ award.phase # "idle" /\ award'.seq = award.seq
    BY <1>0, <1>3 DEF SettleRank, SettleRead, SettleEntry, SettlePodium, SettlePay,
                      SettlePaid, Award
  <2>2. \A c \in Callers : Sound(c)'
    BY <2>1, Soundness, Alike
  <2> QED BY <2>1, <2>2, Quiet
<1> QED BY <1>1, <1>2, <1>3 DEF Settlement

LEMMA SafeNext ==
  ASSUME TypeOK, Safe, [Next]_vars
  PROVE  Safe'
<1>1. ASSUME UNCHANGED <<seasons, day, locals, award>>
      PROVE  Safe'
  BY <1>1 DEF Safe, OneLiveSeason, Live, Creating, Opens, Fresh, Queue, Works, Due
<1>2. CASE NewDay
  <2>1. UNCHANGED <<seasons, locals, award>> /\ day' = day + 1
        /\ \A u \in Users : locals[u].phase = "idle"
    BY <1>2 DEF NewDay
  <2>2. day \in Int /\ \A s \in DOMAIN seasons : /\ seasons[s].anchor \in Int
                                               /\ Duration(s) \in Int
    BY SMTT(30), Rows, Scenery, DurationType DEF TypeOK, SeasonRow
  <2>3. \A s \in DOMAIN seasons : Due(s) => Due(s)'
    BY <2>1, <2>2 DEF Due
  <2>4. Opens'
    BY <2>1 DEF Opens
  <2> QED BY <2>1, <2>3, <2>4 DEF Safe, OneLiveSeason, Live, Creating, Queue, Works
<1>3. CASE Crash
  <2>1. \A c \in Callers : locals'[c].phase = "idle"
    BY <1>3 DEF Crash, Idle
  <2>2. \A c \in Callers : Sound(c)'
    BY <2>1 DEF Sound
  <2> QED BY <1>3, <2>2, Quiet DEF Crash, NoAward
<1>4. ASSUME NEW a \in Accounts,
             \/ EngineRead(a) \/ ResetAsk(a) \/ ResetRead(a)
             \/ \E w \in Worth \cup {Preset} : EngineSave(a, w)
      PROVE  Safe'
  BY <1>1, <1>4 DEF EngineRead, ResetAsk, ResetRead, EngineSave
<1> QED BY <1>1, <1>2, <1>3, <1>4, SafeEnsure, SafeEnroll, SafePoll, SafeSettlement
    DEF Next, Requests, Handlers, Scheduler, vars

-----------------------------------------------------------------------------
LEMMA Invariant == Spec => []IInv
<1>1. Init => IInv
  <2> SUFFICES ASSUME Init PROVE IInv
    OBVIOUS
  <2>1. DOMAIN seasons = {} /\ Len(seasons) = 0 /\ seasons \in Seq(SeasonRow)
    BY DEF Init
  <2>2. \A c \in Callers : locals[c] = Idle /\ locals[c].phase = "idle"
    BY DEF Init, Idle
  <2>3. award.phase = "idle"
    BY DEF Init, NoAward
  <2>4. accounts \in [Accounts -> Account]
    BY Scenery DEF Init, Account
  <2>5. TypeOK
    BY <2>1, <2>4, IdleType, Scenery DEF Init, TypeOK
  <2>6. Safe
    BY <2>1, <2>2, <2>3 DEF Safe, OneLiveSeason, Live, Creating, Opens, Queue, Works, Callers
  <2> QED BY <2>5, <2>6 DEF IInv
<1>2. IInv /\ [Next]_vars => IInv'
  BY TypeNext, SafeNext DEF IInv
<1> QED BY <1>1, <1>2, PTL DEF Spec

(* The tables and the handlers keep their shape, for any players and bounds. *)
THEOREM TypeCorrect == Spec => []TypeOK
BY Invariant, PTL DEF IInv

(* Whoever races to make the next season, at most one is open or running, and
   it is the last one. *)
THEOREM OneSeason == Spec => []OneLiveSeason
BY Invariant, PTL DEF IInv, Safe

(* Only a season that has run its days is settled, and what a settled season
   recorded stays, through repeated settlements and late enrolments. *)
THEOREM History == Spec => SettledIsFinal
<1> DEFINE Kept(s) ==
      /\ seasons[s].status # "settled" /\ seasons'[s].status = "settled" => Due(s)
      /\ seasons[s].status = "settled" =>
           seasons'[s] = seasons[s] /\ entries'[s] = entries[s]
<1>1. IInv /\ [Next]_vars => [\A s \in DOMAIN seasons : Kept(s)]_vars
  <2> SUFFICES ASSUME TypeOK, Safe, [Next]_vars, NEW s \in DOMAIN seasons
               PROVE  Kept(s)
    BY DEF IInv
  <2>0. /\ DOMAIN seasons = 1..Len(seasons) /\ Len(seasons) \in Nat /\ seasons[s] \in SeasonRow
        /\ DOMAIN entries = 1..MaxSeasons
    BY Rows DEF TypeOK
  <2>1. CASE UNCHANGED <<seasons, entries>>
    BY <2>1
  <2>2. ASSUME NEW c \in Callers, Create(c)
        PROVE  Kept(s)
    BY <2>0, <2>2 DEF Create, TypeOK
  <2>3. ASSUME NEW u \in Users, NEW a \in Accounts, EnrollEntry(u, a)
        PROVE  Kept(s)
    <3>1. Fresh(locals[u].seq)
      BY <2>3 DEF EnrollEntry, Safe, Opens
    <3>2. seasons[s].status = "settled" => s # locals[u].seq
      BY <3>1 DEF Fresh
    <3> QED BY <2>0, <2>3, <3>2 DEF EnrollEntry, TypeOK
  <2>4. ASSUME NEW u \in Users, EnrollOpen(u)
        PROVE  Kept(s)
    <3>1. Fresh(locals[u].seq)
      BY <2>4 DEF EnrollOpen, Safe, Opens
    <3>2. seasons[s].status = "settled" => s # locals[u].seq
      BY <3>1 DEF Fresh
    <3> QED BY <2>0, <2>4, <3>2 DEF EnrollOpen
  <2>5. ASSUME NEW a \in Accounts, SaveEntry(a), award.phase # "idle", UNCHANGED seasons
        PROVE  Kept(s)
    <3>1. seasons[award.seq].status # "settled"
      BY <2>5 DEF Safe, Works, Due
    <3> QED BY <2>0, <2>5, <3>1 DEF SaveEntry
  <2>6. CASE SettleEnd
    <3>1. award.seq \in DOMAIN seasons /\ Due(award.seq)
      BY <2>6 DEF SettleEnd, Safe, Works
    <3>2. s # award.seq => seasons'[s] = seasons[s]
      BY <2>6 DEF SettleEnd, Settled
    <3>3. s = award.seq => Due(s) /\ seasons[s].status # "settled"
      BY <3>1 DEF Due
    <3> QED BY <2>6, <3>2, <3>3 DEF SettleEnd
  <2>7. CASE Settlement
    <3>1. CASE \/ SettleBegin \/ SettleRank
               \/ \E a \in Accounts : SettleRead(a) \/ SettlePodium(a) \/ SettlePay(a)
      BY <2>1, <3>1 DEF SettleBegin, SettleRank, SettleRead, SettlePodium, SettlePay
    <3>2. CASE \E a \in Accounts : SettleEntry(a) \/ SettlePaid(a)
      BY <2>5, <3>2 DEF SettleEntry, SettlePaid
    <3> QED BY <2>6, <2>7, <3>1, <3>2 DEF Settlement
  <2>8. CASE Handlers
    <3>1. CASE \E c \in Callers : Look(c) \/ Count(c) \/ Reuse(c)
      BY <2>1, <3>1 DEF Look, Count, Reuse
    <3>2. CASE \E u \in Users : Leave(u) \/ EnrollRead(u)
      BY <2>1, <3>2 DEF Leave, EnrollRead
    <3>3. CASE \E a \in Accounts : ResetRead(a) \/ \E w \in Worth \cup {Preset} : EngineSave(a, w)
      BY <2>1, <3>3 DEF ResetRead, EngineSave
    <3> QED BY <2>2, <2>3, <2>4, <2>8, <3>1, <3>2, <3>3 DEF Handlers, Ensure
  <2>9. CASE Requests \/ Scheduler
    BY <2>1, <2>9 DEF Requests, Scheduler, Ask, EngineRead, ResetAsk, NewDay, Crash, Poll
  <2> QED BY <2>1, <2>7, <2>8, <2>9 DEF Next, vars
<1> QED BY <1>1, Invariant, PTL DEF Spec, SettledIsFinal

-----------------------------------------------------------------------------
(* Ranks and points, while no crash repeats a settlement. *)

(* Accounts that the engine writes: an older row may take points back. *)
Traded == scene.trading \cup scene.resetting
Participants(s) == {a \in Accounts : entries[s][a].status # "none"}
SeasonSettled(s) == s \in DOMAIN seasons /\ seasons[s].status = "settled"
Awarding(s) == award.phase \in {"saving", "paying"} /\ s = award.seq

(* No settlement has written the entry. *)
Untouched(e) == e.status \in {"none", "active"} /\ e.rank = 0 /\ ~e.rewarded

(* Ranking r of the final equities is recorded, but for the entries of todo. *)
Recorded(s, r, final, todo) ==
  /\ r \in Rankings(s, Participants(s), final)
  /\ \A a \in Accounts :
       IF a \in Participants(s) \ todo
       THEN /\ entries[s][a].status = "settled" /\ entries[s][a].final = final[a]
            /\ entries[s][a].rank = r[Owner[a]]
       ELSE Untouched(entries[s][a])

EntryTrue(s) ==
  /\ SeasonSettled(s) =>
       \E r \in Rankings(s, Participants(s), Final(s)) : Recorded(s, r, Final(s), {})
  /\ Awarding(s) => Recorded(s, award.rank, award.final, award.todo)
  /\ ~SeasonSettled(s) /\ ~Awarding(s) => \A a \in Accounts : Untouched(entries[s][a])
EntriesTrue == \A s \in 1..MaxSeasons : EntryTrue(s)

(* Who has been paid is who has a place on the podium and a saved entry. *)
AwardTrue ==
  /\ award.phase # "idle" => ~SeasonSettled(award.seq)
  /\ award.phase = "reading" => award.todo = Participants(award.seq)
  /\ award.phase \in {"saving", "paying"} =>
       LET saved == Participants(award.seq) \ award.todo
       IN  /\ award.todo \subseteq Participants(award.seq)
           /\ \A a \in saved : OnPodium(a) => Owner[a] \in award.rewarded
           /\ \A u \in award.rewarded : \E a \in saved : Owner[a] = u
  /\ award.phase = "paying" =>
       /\ \E a \in award.todo : /\ award.entry = {a} /\ Owner[a] \notin award.rewarded
                                /\ award.pay \subseteq AccountsOf(Owner[a])
       /\ \A b \in award.pay \ Traded : award.seen[b].points = accounts[b].points

(* An account's points are the prizes of its owner's ranks; in the season that is
   being awarded, if they have reached the account. *)
Received(a) ==
  \/ Owner[a] \in award.rewarded
  \/ award.phase = "paying" /\ a \notin award.pay /\ \E e \in award.entry : Owner[e] = Owner[a]
Reward(s, a) ==
  IF ~Awarding(s) THEN RewardFor(BestRank(s, Owner[a]))
  ELSE IF Received(a) THEN RewardFor(award.rank[Owner[a]]) ELSE 0
PointsTrue ==
  \A a \in scene.accounts \ Traded :
    accounts[a].points = SumFunction([s \in DOMAIN entries |-> Reward(s, a)])

(* Only those of the scene take part, and the engine writes what it may. *)
Entrants ==
  /\ \A s \in 1..MaxSeasons : Participants(s) \subseteq scene.accounts
  /\ \A u \in Users : locals[u].phase = "entering" => locals[u].todo \subseteq scene.accounts
  /\ award.phase # "idle" => award.todo \cup award.entry \subseteq scene.accounts
  /\ engine.phase # "idle" => engine.acct \subseteq Traded

Prized == Entrants /\ (crashes = 0 => EntriesTrue /\ AwardTrue /\ PointsTrue)

(* What any position of a ranking is worth; what is off the podium, nothing. *)
LEMMA Worthless == \A rank : RewardFor(rank) \in Nat /\ RewardFor(0) = 0
<1>1. Prize \in Seq(Nat)
  BY SeasonAssumption DEF SeasonAssumption
<1>2. \A x \in DOMAIN Prize : Prize[x] \in Nat
  BY <1>1
<1>3. 0 \notin DOMAIN Prize
  BY <1>1
<1> QED BY <1>2, <1>3 DEF RewardFor

LEMMA RewardNat == \A s, a : Reward(s, a) \in Nat
BY Worthless DEF Reward

LEMMA Entries ==
  ASSUME TypeOK
  PROVE  /\ DOMAIN entries = 1..MaxSeasons /\ IsFiniteSet(1..MaxSeasons)
         /\ \A s \in 1..MaxSeasons : entries[s] \in [Accounts -> Entry]
         /\ DOMAIN seasons \subseteq 1..MaxSeasons
         /\ scene.accounts \subseteq Accounts
<1>1. MaxSeasons \in Nat
  BY Scenery
<1>2. IsFiniteSet(1..MaxSeasons)
  BY <1>1, FS_Interval
<1>3. DOMAIN seasons \subseteq 1..MaxSeasons
  BY <1>1, Rows DEF TypeOK
<1> QED BY <1>2, <1>3, Scenery DEF TypeOK

(* What a season says of its ranks is a matter of its entries alone. *)
LEMMA SeasonAlone ==
  ASSUME NEW s, entries'[s] = entries[s], UNCHANGED scene
  PROVE  /\ Participants(s)' = Participants(s) /\ Final(s)' = Final(s)
         /\ \A r, f, t : Recorded(s, r, f, t) <=> Recorded(s, r, f, t)'
         /\ \A t, f : Rankings(s, t, f)' = Rankings(s, t, f)
         /\ \A u : BestRank(s, u)' = BestRank(s, u)
<1>1. \A u : AccountsOf(u)' = AccountsOf(u)
  BY DEF AccountsOf
<1>2. \A u : BestRank(s, u)' = BestRank(s, u)
  BY <1>1 DEF BestRank
<1>3. Participants(s)' = Participants(s) /\ Final(s)' = Final(s)
  BY DEF Participants, Final
<1>4. \A f, as, bs : Outdoes(s, f, as, bs)' <=> Outdoes(s, f, as, bs)
  BY DEF Outdoes, StartSum
<1>5. \A t, f : Rankings(s, t, f)' = Rankings(s, t, f)
  BY <1>1, <1>4 DEF Rankings
<1>6. \A r, f, t : Recorded(s, r, f, t) <=> Recorded(s, r, f, t)'
  BY <1>3, <1>5 DEF Recorded
<1> QED BY <1>2, <1>3, <1>5, <1>6

(* Before a settlement has written anything, nobody has a rank. *)
LEMMA NoRank ==
  ASSUME NEW s, \A a \in Accounts : Untouched(entries[s][a]), scene.accounts \subseteq Accounts
  PROVE  \A u : BestRank(s, u) = 0 /\ RewardFor(BestRank(s, u)) = 0
<1>1. \A u : \A a \in AccountsOf(u) : entries[s][a].rank = 0
  BY DEF AccountsOf, Untouched
<1>2. \A u : BestRank(s, u) = 0
  BY <1>1 DEF BestRank
<1> QED BY <1>2, Worthless

(* After it a user's rank is what the ranking says. *)
LEMMA RankRecorded ==
  ASSUME NEW s \in 1..MaxSeasons, NEW r, NEW f, Recorded(s, r, f, {}), NEW u \in Users, TypeOK
  PROVE  /\ Entered(s, u) = Participants(s) \cap AccountsOf(u)
         /\ Entered(s, u) = {} => BestRank(s, u) = 0
         /\ Entered(s, u) # {} => BestRank(s, u) = r[u] /\ r[u] \in Nat \ {0}
<1>0. scene.accounts \subseteq Accounts /\ r \in [Users -> Nat] /\ IsFiniteSet(Users)
  <2>1. r \in Rankings(s, Participants(s), f)
    BY DEF Recorded
  <2>2. {Owner[a] : a \in Participants(s)} \subseteq Users
    BY Scenery DEF Participants
  <2>3. Cardinality({Owner[a] : a \in Participants(s)}) \in Nat
    BY <2>2, Scenery, FS_Subset, FS_CardinalityType
  <2>4. r \in [Users -> 0..Cardinality({Owner[a] : a \in Participants(s)})]
    BY <2>1 DEF Rankings
  <2> QED BY <2>3, <2>4, Entries, Scenery
<1>1. /\ \A a \in Participants(s) : entries[s][a].status = "settled"
      /\ \A a \in Participants(s) \cap AccountsOf(u) : entries[s][a].rank = r[u]
      /\ \A a \in Accounts \ Participants(s) : entries[s][a].rank = 0
  BY DEF Recorded, Untouched, AccountsOf, Participants
<1>2. Entered(s, u) = Participants(s) \cap AccountsOf(u)
  <2>1. \A a \in Accounts : entries[s][a].status = "settled" <=> a \in Participants(s)
    BY <1>1 DEF Participants
  <2> QED BY <1>0, <2>1 DEF Entered, AccountsOf
<1> DEFINE ranks == {entries[s][a].rank : a \in AccountsOf(u)} \ {0}
<1>3. ASSUME Entered(s, u) = {} PROVE BestRank(s, u) = 0
  <2>1. ranks = {}
    BY <1>0, <1>1, <1>2, <1>3 DEF AccountsOf
  <2> QED BY <2>1 DEF BestRank
<1>4. ASSUME Entered(s, u) # {} PROVE BestRank(s, u) = r[u] /\ r[u] \in Nat \ {0}
  <2>1. PICK a \in Participants(s) : a \in AccountsOf(u)
    BY <1>2, <1>4
  <2>2. u = Owner[a] /\ a \in Accounts
    BY <2>1 DEF AccountsOf, Participants
  <2>3. r[u] # 0
    BY <2>1, <2>2 DEF Recorded, Rankings
  <2>4. \A x \in ranks : x = r[u]
    BY <1>0, <1>1 DEF AccountsOf
  <2>5. r[u] \in ranks
    BY <1>1, <2>1, <2>3
  <2>6. ranks = {r[u]} /\ r[u] \in Nat
    BY <1>0, <2>4, <2>5
  <2> HIDE DEF ranks
  <2>7. Min(ranks) = r[u]
    BY <2>6 DEF Min
  <2> QED BY <2>3, <2>6, <2>7 DEF BestRank, ranks
<1> QED BY <1>2, <1>3, <1>4

(* A ranking of equities is one of any that agree on the participants. *)
LEMMA SameRankings ==
  ASSUME NEW s \in 1..MaxSeasons, TypeOK, NEW f \in [Accounts -> Nat],
         NEW g \in [Accounts -> Nat], NEW t \in SUBSET Accounts, \A a \in t : f[a] = g[a]
  PROVE  Rankings(s, t, f) = Rankings(s, t, g)
<1> DEFINE Mine(u) == t \cap AccountsOf(u)
<1>1. \A u : IsFiniteSet(Mine(u))
  <2>1. IsFiniteSet(Accounts)
    BY SeasonAssumption DEF SeasonAssumption
  <2> QED BY <2>1, FS_Subset
<1>2. \A u : SumFunctionOnSet(f, Mine(u)) = SumFunctionOnSet(g, Mine(u))
  <2> TAKE u
  <2>1. \A x \in Mine(u) : f[x] \in Int /\ f[x] = g[x]
    OBVIOUS
  <2> QED BY <1>1, <2>1, SumAgree
<1>3. \A u, v : Outdoes(s, f, Mine(u), Mine(v)) <=> Outdoes(s, g, Mine(u), Mine(v))
  BY <1>2 DEF Outdoes
<1> QED BY <1>3 DEF Rankings

-----------------------------------------------------------------------------
LEMMA SameReward ==
  ASSUME NEW s, NEW a, entries'[s] = entries[s], UNCHANGED <<award, scene>>
  PROVE  Reward(s, a)' = Reward(s, a)
<1>1. (Awarding(s)' <=> Awarding(s)) /\ (Received(a)' <=> Received(a))
  BY DEF Awarding, Received
<1> QED BY <1>1, SeasonAlone DEF Reward

(* Points that stay where they are, for accounts whose prizes do. *)
LEMMA PointsStay ==
  ASSUME PointsTrue, TypeOK, TypeOK', UNCHANGED scene,
         \A a \in scene.accounts \ Traded : accounts'[a].points = accounts[a].points,
         \A a \in scene.accounts \ Traded :
           \A s \in 1..MaxSeasons : Reward(s, a)' = Reward(s, a)
  PROVE  PointsTrue'
<1> SUFFICES ASSUME NEW a \in scene.accounts \ Traded
             PROVE  accounts'[a].points = SumFunction([s \in DOMAIN entries |-> Reward(s, a)])'
  BY DEF PointsTrue, Traded
<1>1. DOMAIN entries' = DOMAIN entries /\ DOMAIN entries = 1..MaxSeasons
  BY DEF TypeOK
<1>2. [s \in DOMAIN entries |-> Reward(s, a)]' = [s \in DOMAIN entries |-> Reward(s, a)]
  BY <1>1
<1>3. accounts[a].points = SumFunction([s \in DOMAIN entries |-> Reward(s, a)])
  BY DEF PointsTrue
<1> QED BY <1>2, <1>3

(* What a season records is true as long as nobody touches its entries. *)
LEMMA EntryAlone ==
  ASSUME NEW s, EntryTrue(s), entries'[s] = entries[s], UNCHANGED scene,
         (SeasonSettled(s)' <=> SeasonSettled(s)), (Awarding(s)' <=> Awarding(s)),
         Awarding(s) => UNCHANGED <<award.rank, award.final, award.todo>>
  PROVE  EntryTrue(s)'
<1>1. /\ Rankings(s, Participants(s), Final(s))' = Rankings(s, Participants(s), Final(s))
      /\ Final(s)' = Final(s)
  BY SeasonAlone
<1>2. \A r, f, t : Recorded(s, r, f, t) <=> Recorded(s, r, f, t)'
  BY SeasonAlone
<1>3. SeasonSettled(s)' =>
        \E r \in Rankings(s, Participants(s), Final(s))' : Recorded(s, r, Final(s), {})'
  BY <1>1, <1>2 DEF EntryTrue
<1>4. Awarding(s)' => Recorded(s, award.rank, award.final, award.todo)'
  BY <1>2 DEF EntryTrue
<1>5. ~SeasonSettled(s)' /\ ~Awarding(s)' => \A a \in Accounts : Untouched(entries'[s][a])
  BY DEF EntryTrue
<1> QED BY <1>3, <1>4, <1>5 DEF EntryTrue, Untouched

(* Steps that touch neither entries, nor points, nor the settlement. *)
LEMMA QuietPrizes ==
  ASSUME TypeOK, TypeOK', UNCHANGED <<entries, award, scene>>,
         \A a \in scene.accounts \ Traded : accounts'[a] = accounts[a],
         \A s \in 1..MaxSeasons : (SeasonSettled(s)' <=> SeasonSettled(s)),
         award.phase # "idle" => award.seq \in 1..MaxSeasons,
         Entrants, EntriesTrue, AwardTrue, PointsTrue
  PROVE  EntriesTrue' /\ AwardTrue' /\ PointsTrue'
<1>1. \A s : (Awarding(s)' <=> Awarding(s)) /\ Participants(s)' = Participants(s)
             /\ Final(s)' = Final(s)
  BY DEF Awarding, Participants, Final
<1>2. EntriesTrue'
  BY <1>1, EntryAlone DEF EntriesTrue
<1>3. \A a \in award.pay \ Traded : award.phase = "paying" => accounts'[a] = accounts[a]
  BY DEF AwardTrue, AccountsOf
<1>4. AwardTrue'
  BY <1>1, <1>3 DEF AwardTrue, AccountsOf, Traded, OnPodium
<1>5. PointsTrue'
  BY SameReward, PointsStay
<1> QED BY <1>2, <1>4, <1>5

LEMMA EntrantsQuiet ==
  ASSUME Entrants, UNCHANGED scene, \A s \in 1..MaxSeasons : Participants(s)' = Participants(s),
         \A u \in Users : locals'[u].phase = "entering" =>
           \/ locals[u].phase = "entering" /\ locals'[u].todo \subseteq locals[u].todo
           \/ locals'[u].todo \subseteq scene.accounts,
         engine' = engine \/ engine'.phase = "idle" \/ engine'.acct \subseteq Traded,
         award' = award \/ award'.phase = "idle"
           \/ award'.todo \cup award'.entry \subseteq scene.accounts
  PROVE  Entrants'
BY DEF Entrants, Traded

-----------------------------------------------------------------------------
(* Steps outside the settlement. *)

LEMMA AtWork ==
  ASSUME TypeOK, Safe, award.phase # "idle"
  PROVE  award.seq \in 1..MaxSeasons /\ ~SeasonSettled(award.seq)
BY Entries DEF Safe, Works, Due, SeasonSettled

LEMMA PrizedQuiet ==
  ASSUME TypeOK, TypeOK', Safe, Prized, UNCHANGED <<entries, award, scene>>,
         \A a \in scene.accounts \ Traded : accounts'[a] = accounts[a],
         \A s \in 1..MaxSeasons : (SeasonSettled(s)' <=> SeasonSettled(s)),
         Entrants', crashes' = crashes
  PROVE  Prized'
<1>1. award.phase # "idle" => award.seq \in 1..MaxSeasons
  BY AtWork
<1> QED BY <1>1, QuietPrizes DEF Prized

LEMMA SameParticipants ==
  ASSUME NEW s, entries'[s] = entries[s] PROVE Participants(s)' = Participants(s)
BY DEF Participants

LEMMA PrizedEnsure ==
  ASSUME TypeOK, TypeOK', Safe, Prized, NEW c \in Callers, Ensure(c), UNCHANGED scene
  PROVE  Prized'
<1>1. UNCHANGED <<entries, accounts, award, engine, crashes>>
  BY DEF Ensure, Look, Count, Create, Reuse
<1>2. \A u \in Users : locals'[u].phase = "entering" => locals'[u] = locals[u]
  <2>1. \A d \in Callers : d # c => locals'[d] = locals[d]
    BY DEF Ensure, Look, Count, Create, Reuse, Go, Found, TypeOK
  <2>2. \A s : Found(c, s) => locals'[c].phase \in {"idle", "found"}
    BY DEF Found, Idle, TypeOK, Local
  <2>3. Go(c, "count") => locals'[c].phase = "count"
    BY DEF Go, TypeOK, Local
  <2>4. CASE Look(c)
    BY <2>2, <2>3, <2>1, <2>4 DEF Look, Callers
  <2>5. CASE Count(c)
    <3>1. PICK n : locals' = [locals EXCEPT ![c].phase = "create", ![c].seq = n]
      BY <2>5 DEF Count
    <3>2. locals'[c].phase = "create"
      BY <3>1 DEF TypeOK, Local
    <3> QED BY <2>1, <3>2 DEF Callers
  <2>6. CASE Create(c) \/ Reuse(c)
    BY <2>1, <2>2, <2>6 DEF Create, Reuse, Callers
  <2> QED BY <2>4, <2>5, <2>6 DEF Ensure
<1>3. \A s : (SeasonSettled(s)' <=> SeasonSettled(s))
  <2>1. CASE UNCHANGED seasons
    BY <2>1 DEF SeasonSettled
  <2>2. CASE Create(c)
    <3>1. /\ Len(seasons) \in Nat /\ DOMAIN seasons = 1..Len(seasons)
          /\ DOMAIN seasons' = 1..(Len(seasons) + 1)
          /\ \A s \in DOMAIN seasons : seasons'[s] = seasons[s]
          /\ seasons'[Len(seasons) + 1].status = "enrolling"
      BY <2>2, Rows DEF Create, TypeOK
    <3> QED BY <3>1 DEF SeasonSettled
  <2> QED BY <2>1, <2>2 DEF Ensure, Look, Count, Reuse
<1>4. Entrants'
  BY <1>1, <1>2, SameParticipants, EntrantsQuiet DEF Prized
<1> QED BY <1>1, <1>3, <1>4, PrizedQuiet

LEMMA PrizedEntry ==
  ASSUME TypeOK, TypeOK', Safe, Prized, NEW u \in Users, NEW a \in Accounts, EnrollEntry(u, a),
         UNCHANGED scene
  PROVE  Prized'
<1>q. PICK q : q = locals[u].seq
  OBVIOUS
<1>0. UNCHANGED <<seasons, accounts, day, award, engine, crashes>>
  BY DEF EnrollEntry
<1>1. Fresh(q) /\ a \in locals[u].todo /\ locals[u].todo \subseteq scene.accounts
  BY <1>q DEF EnrollEntry, Safe, Opens, Prized, Entrants
<1>2. q \in 1..MaxSeasons /\ ~SeasonSettled(q)
  BY <1>1, Entries DEF Fresh, SeasonSettled
<1>3. award.phase # "idle" => award.seq # q
  BY <1>1, Exclusive DEF Safe, Works
<1>4. /\ \A s \in 1..MaxSeasons : s # q => entries'[s] = entries[s]
      /\ \A b \in Accounts : b # a => entries'[q][b] = entries[q][b]
      /\ \/ entries'[q][a] = entries[q][a]
         \/ entries'[q][a].status = "active" /\ Untouched(entries'[q][a])
  BY <1>q, <1>2, Entries DEF EnrollEntry, TypeOK, Untouched
<1>5. Entrants'
  <2>1. \A s \in 1..MaxSeasons : Participants(s)' \subseteq Participants(s) \cup {a}
    BY <1>4 DEF Participants
  <2>2. \A v \in Users : /\ locals'[v].phase = locals[v].phase
                        /\ locals'[v].todo \subseteq locals[v].todo
    BY DEF EnrollEntry, TypeOK, Local, Callers
  <2> QED BY <1>0, <1>1, <2>1, <2>2 DEF Prized, Entrants, Traded
<1>6. ASSUME crashes = 0 PROVE EntriesTrue' /\ AwardTrue' /\ PointsTrue'
  <2>0. EntriesTrue /\ AwardTrue /\ PointsTrue
    BY <1>6 DEF Prized
  <2>1. \A s : (Awarding(s)' <=> Awarding(s)) /\ (SeasonSettled(s)' <=> SeasonSettled(s))
    BY <1>0 DEF Awarding, SeasonSettled
  <2>2. ~Awarding(q)
    BY <1>3 DEF Awarding
  <2>3. \A b \in Accounts : Untouched(entries[q][b])
    BY <1>2, <2>0, <2>2 DEF EntriesTrue, EntryTrue
  <2>4. \A b \in Accounts : Untouched(entries'[q][b])
    BY <1>4, <2>3
  <2>5. EntriesTrue'
    <3> SUFFICES ASSUME NEW s \in 1..MaxSeasons PROVE EntryTrue(s)'
      BY DEF EntriesTrue
    <3>1. CASE s = q
      BY <1>2, <2>1, <2>2, <2>4, <3>1 DEF EntryTrue, Untouched
    <3>2. CASE s # q
      BY <1>0, <1>4, <2>0, <2>1, <3>2, EntryAlone DEF EntriesTrue
    <3> QED BY <3>1, <3>2
  <2>6. AwardTrue'
    <3>1. award.phase # "idle" => Participants(award.seq)' = Participants(award.seq)
      BY <1>0, <1>3, <1>4, AtWork, SameParticipants
    <3> QED BY <1>0, <2>0, <2>1, <3>1 DEF AwardTrue, OnPodium, AccountsOf, Traded
  <2>7. PointsTrue'
    <3>1. ASSUME NEW b \in scene.accounts \ Traded, NEW s \in 1..MaxSeasons
          PROVE  Reward(s, b)' = Reward(s, b)
      <4>1. CASE s # q
        BY <1>0, <1>4, <4>1, SameReward
      <4>2. CASE s = q
        <5>1. RewardFor(BestRank(q, Owner[b])) = 0
          BY <2>3, NoRank, Entries
        <5>2. RewardFor(BestRank(q, Owner[b]))' = 0
          <6>1. \A x : BestRank(q, x)' = 0
            <7>1. \A x : \A c \in AccountsOf(x) : entries'[q][c].rank = 0
              BY <2>4, Entries DEF AccountsOf, Untouched
            <7>2. \A x : {entries'[q][c].rank : c \in AccountsOf(x)'} \ {0} = {}
              BY <7>1 DEF AccountsOf
            <7> QED BY <7>2 DEF BestRank
          <6> QED BY <6>1, Worthless DEF RewardFor
        <5> QED BY <2>1, <2>2, <4>2, <5>1, <5>2 DEF Reward
      <4> QED BY <4>1, <4>2
    <3> QED BY <1>0, <2>0, <3>1, PointsStay
  <2> QED BY <2>5, <2>6, <2>7
<1> QED BY <1>0, <1>5, <1>6 DEF Prized

LEMMA PrizedEnroll ==
  ASSUME TypeOK, TypeOK', Safe, Prized, UNCHANGED scene, NEW u \in Users,
         \/ Leave(u) \/ EnrollRead(u) \/ EnrollOpen(u)
         \/ \E a \in Accounts : EnrollEntry(u, a)
  PROVE  Prized'
<1>1. CASE Leave(u)
  <2>1. \A v \in Users : locals'[v].phase = "entering" => locals'[v] = locals[v]
    BY <1>1 DEF Leave, Idle, TypeOK, Callers
  <2>2. Entrants'
    BY <1>1, <2>1, SameParticipants, EntrantsQuiet DEF Prized, Leave
  <2> QED BY <1>1, <2>2, PrizedQuiet DEF Leave, SeasonSettled
<1>2. CASE EnrollRead(u)
  <2>1. \A v \in Users : locals'[v] = locals[v] \/ locals'[v].todo \subseteq scene.accounts
    BY <1>2 DEF EnrollRead, AccountsOf, TypeOK, Local, Callers
  <2>2. Entrants'
    BY <1>2, <2>1, SameParticipants, EntrantsQuiet DEF Prized, EnrollRead
  <2> QED BY <1>2, <2>2, PrizedQuiet DEF EnrollRead, SeasonSettled
<1>3. CASE EnrollOpen(u)
  <2>1. \A v \in Users : locals'[v].phase = "entering" => locals'[v] = locals[v]
    BY <1>3 DEF EnrollOpen, Idle, TypeOK, Callers
  <2>2. Entrants'
    BY <1>3, <2>1, SameParticipants, EntrantsQuiet DEF Prized, EnrollOpen
  <2>3. Fresh(locals[u].seq)
    BY <1>3 DEF EnrollOpen, Safe, Opens
  <2>4. \A s : (SeasonSettled(s)' <=> SeasonSettled(s))
    BY <1>3, <2>3 DEF EnrollOpen, SeasonSettled, Fresh
  <2> QED BY <1>3, <2>2, <2>4, PrizedQuiet DEF EnrollOpen
<1> QED BY <1>1, <1>2, <1>3, PrizedEntry

LEMMA PrizedEngine ==
  ASSUME TypeOK, TypeOK', Safe, Prized, UNCHANGED scene, NEW a \in Accounts,
         \/ EngineRead(a) \/ ResetAsk(a) \/ ResetRead(a)
         \/ \E w \in Worth \cup {Preset} : EngineSave(a, w)
  PROVE  Prized'
<1>1. UNCHANGED <<seasons, entries, locals, award, crashes>>
  BY DEF EngineRead, ResetAsk, ResetRead, EngineSave
<1>2. \A b \in scene.accounts \ Traded : accounts'[b] = accounts[b]
  <2>1. CASE EngineRead(a) \/ ResetAsk(a) \/ ResetRead(a)
    BY <2>1 DEF EngineRead, ResetAsk, ResetRead
  <2>2. CASE \E w \in Worth \cup {Preset} : EngineSave(a, w)
    <3>1. a \in Traded
      BY <2>2 DEF EngineSave, Prized, Entrants
    <3> QED BY <2>2, <3>1 DEF EngineSave
  <2> QED BY <2>1, <2>2
<1>3. engine' = engine \/ engine'.phase = "idle" \/ engine'.acct \subseteq Traded
  <2>1. CASE EngineRead(a) \/ ResetAsk(a)
    <3>1. engine'.acct = {a}
      <4>1. CASE EngineRead(a)
        BY <4>1 DEF EngineRead
      <4>2. CASE ResetAsk(a)
        <5>1. engine' = [engine EXCEPT !.phase = "asked", !.acct = {a}] /\ engine \in Job
          BY <4>2 DEF ResetAsk, TypeOK
        <5> QED BY <5>1 DEF Job
      <4> QED BY <2>1, <4>1, <4>2
    <3>2. a \in Traded
      BY <2>1 DEF EngineRead, ResetAsk, Traded
    <3> QED BY <3>1, <3>2
  <2>2. CASE ResetRead(a)
    BY <2>2 DEF ResetRead, TypeOK, Job, Prized, Entrants
  <2>3. CASE \E w \in Worth \cup {Preset} : EngineSave(a, w)
    BY <2>3 DEF EngineSave, NoJob
  <2> QED BY <2>1, <2>2, <2>3
<1>4. Entrants'
  BY <1>1, <1>3, SameParticipants, EntrantsQuiet DEF Prized
<1> QED BY <1>1, <1>2, <1>4, PrizedQuiet DEF SeasonSettled

LEMMA PrizedRest ==
  ASSUME TypeOK, TypeOK', Safe, Prized, UNCHANGED scene,
         NewDay \/ Crash \/ (\E c \in Callbacks : Poll(c)) \/ (\E u \in Users : Ask(u))
  PROVE  Prized'
<1>1. UNCHANGED <<seasons, entries, accounts>>
  BY DEF NewDay, Crash, Poll, Ask
<1>2. /\ \A u \in Users : locals'[u].phase = "entering" => locals'[u] = locals[u]
      /\ engine' = engine \/ engine'.phase = "idle"
      /\ award' = award \/ award'.phase = "idle"
  <2>1. CASE NewDay \/ (\E u \in Users : Ask(u))
    BY <2>1 DEF NewDay, Ask, Go, TypeOK, Local, Callers
  <2>2. CASE Crash
    BY <2>2 DEF Crash, Idle, NoJob, NoAward, Callers
  <2>3. CASE \E c \in Callbacks : Poll(c)
    BY <2>3 DEF Poll, Go, TypeOK, Local, Callers
  <2> QED BY <2>1, <2>2, <2>3
<1>3. Entrants'
  BY <1>1, <1>2, SameParticipants, EntrantsQuiet DEF Prized
<1>4. CASE Crash
  <2>1. crashes' # 0
    BY <1>4, Scenery DEF Crash, TypeOK
  <2> QED BY <1>3, <2>1 DEF Prized
<1>5. CASE ~Crash
  BY <1>1, <1>3, <1>5, PrizedQuiet DEF NewDay, Poll, Ask, SeasonSettled
<1> QED BY <1>4, <1>5

-----------------------------------------------------------------------------
(* Steps of the settlement. *)

(* Steps that write no entry. *)
LEMMA EntrantsStay ==
  ASSUME Entrants, UNCHANGED <<entries, locals, engine, scene>>,
         award'.phase = "idle" \/ award'.todo \cup award'.entry \subseteq scene.accounts
  PROVE  Entrants'
BY SameParticipants, EntrantsQuiet

LEMMA PrizedBegin ==
  ASSUME TypeOK, TypeOK', Safe, Prized, UNCHANGED scene, SettleBegin
  PROVE  Prized'
<1>1. /\ UNCHANGED <<seasons, entries, accounts, locals, engine, crashes>>
      /\ award.phase = "idle"
  BY DEF SettleBegin
<1>2. PICK s \in RunningSeasons :
        /\ award'.seq = s /\ award'.phase = "reading"
        /\ award'.todo = {a \in Accounts : entries[s][a].status = "active"}
        /\ award'.entry = {}
  BY DEF SettleBegin, NoAward
<1>3. s \in 1..MaxSeasons /\ ~SeasonSettled(s)
  BY Entries DEF RunningSeasons, SeasonSettled
<1>4. ASSUME crashes = 0 PROVE EntriesTrue' /\ AwardTrue' /\ PointsTrue'
  <2>0. EntriesTrue /\ AwardTrue /\ PointsTrue
    BY <1>4 DEF Prized
  <2>1. \A x : ~Awarding(x) /\ ~Awarding(x)' /\ (SeasonSettled(x)' <=> SeasonSettled(x))
    BY <1>1, <1>2 DEF Awarding, SeasonSettled
  <2>2. EntriesTrue'
    <3>1. \A x \in 1..MaxSeasons : EntryTrue(x) /\ (Awarding(x)' <=> Awarding(x))
      BY <2>0, <2>1 DEF EntriesTrue
    <3>2. \A x \in 1..MaxSeasons : EntryTrue(x)'
      BY <1>1, <2>1, <3>1, EntryAlone
    <3> QED BY <3>2 DEF EntriesTrue
  <2>3. \A a \in Accounts : Untouched(entries[s][a])
    BY <1>3, <2>0, <2>1 DEF EntriesTrue, EntryTrue
  <2>4. award'.todo = Participants(award.seq)'
    BY <1>1, <1>2, <2>3 DEF Participants, Untouched
  <2>5. AwardTrue'
    BY <1>1, <1>2, <1>3, <2>1, <2>4 DEF AwardTrue
  <2>6. \A x, a : Reward(x, a)' = Reward(x, a)
    <3>1. \A x, u : BestRank(x, u)' = BestRank(x, u)
      BY <1>1, SeasonAlone
    <3> QED BY <2>1, <3>1 DEF Reward, RewardFor
  <2> QED BY <1>1, <2>0, <2>2, <2>5, <2>6, PointsStay
<1>5. Entrants'
  <2>1. award'.todo \subseteq scene.accounts
    BY <1>2, <1>3 DEF Prized, Entrants, Participants
  <2> QED BY <1>1, <1>2, <2>1, EntrantsStay DEF Prized
<1> QED BY <1>1, <1>4, <1>5 DEF Prized

LEMMA PrizedRead ==
  ASSUME TypeOK, TypeOK', Safe, Prized, UNCHANGED scene, NEW a \in Accounts, SettleRead(a)
  PROVE  Prized'
<1>1. /\ UNCHANGED <<seasons, entries, accounts, locals, engine, crashes>>
      /\ award.phase = "reading" /\ award'.phase = "reading"
      /\ award'.seq = award.seq /\ award'.todo = award.todo
      /\ award'.entry = award.entry
  BY DEF SettleRead, TypeOK, Award
<1>2. ASSUME crashes = 0 PROVE EntriesTrue' /\ AwardTrue' /\ PointsTrue'
  <2>0. EntriesTrue /\ AwardTrue /\ PointsTrue
    BY <1>2 DEF Prized
  <2>1. \A x : ~Awarding(x) /\ ~Awarding(x)' /\ (SeasonSettled(x)' <=> SeasonSettled(x))
    BY <1>1 DEF Awarding, SeasonSettled
  <2>2. EntriesTrue'
    <3>1. \A x \in 1..MaxSeasons : EntryTrue(x) /\ (Awarding(x)' <=> Awarding(x))
      BY <2>0, <2>1 DEF EntriesTrue
    <3>2. \A x \in 1..MaxSeasons : EntryTrue(x)'
      BY <1>1, <2>1, <3>1, EntryAlone
    <3> QED BY <3>2 DEF EntriesTrue
  <2>3. AwardTrue'
    BY <1>1, <2>0, <2>1, SeasonAlone DEF AwardTrue
  <2>4. \A x, b : Reward(x, b)' = Reward(x, b)
    <3>1. \A x, u : BestRank(x, u)' = BestRank(x, u)
      BY <1>1, SeasonAlone
    <3> QED BY <2>1, <3>1 DEF Reward, RewardFor
  <2> QED BY <1>1, <2>0, <2>2, <2>3, <2>4, PointsStay
<1>3. Entrants'
  BY <1>1, EntrantsStay DEF Prized, Entrants
<1> QED BY <1>1, <1>2, <1>3 DEF Prized

(* When the users are ranked nobody has been paid, and nothing is owed yet. *)
LEMMA PrizedRank ==
  ASSUME TypeOK, TypeOK', Safe, Prized, UNCHANGED scene, SettleRank
  PROVE  Prized'
<1>0. award \in Award
  BY DEF TypeOK
<1>1. /\ UNCHANGED <<seasons, entries, accounts, locals, engine, crashes>>
      /\ award.phase = "reading" /\ award'.phase = "saving"
  BY <1>0 DEF SettleRank, Award
<1>2. /\ award'.seq = award.seq /\ award'.todo = award.todo /\ award'.final = award.final
      /\ award'.entry = award.entry
      /\ award'.rank \in Rankings(award.seq, award.todo, award.final)
      /\ award'.rewarded = {Owner[a] : a \in {b \in Accounts : entries[award.seq][b].rewarded}}
  BY <1>0 DEF SettleRank, Award
<1>3. award.seq \in 1..MaxSeasons /\ ~SeasonSettled(award.seq)
  BY <1>1, AtWork
<1>4. ASSUME crashes = 0 PROVE EntriesTrue' /\ AwardTrue' /\ PointsTrue'
  <2>0. EntriesTrue /\ AwardTrue /\ PointsTrue
    BY <1>4 DEF Prized
  <2>1. \A x : ~Awarding(x) /\ (Awarding(x)' <=> x = award.seq)
               /\ (SeasonSettled(x)' <=> SeasonSettled(x))
    BY <1>1, <1>2 DEF Awarding, SeasonSettled
  <2>2. \A a \in Accounts : Untouched(entries[award.seq][a])
    BY <1>3, <2>0, <2>1 DEF EntriesTrue, EntryTrue
  <2>3. award.todo = Participants(award.seq)
    BY <1>1, <2>0 DEF AwardTrue
  <2>4. Recorded(award.seq, award'.rank, award.final, award.todo)
    BY <1>2, <2>2, <2>3 DEF Recorded
  <2>5. Recorded(award.seq, award.rank, award.final, award.todo)'
    <3>1. PICK q : q = award.seq
      OBVIOUS
    <3>2. PICK t, f, r : t = award.todo /\ f = award.final /\ r = award'.rank
      OBVIOUS
    <3>3. Recorded(q, r, f, t)'
      BY <1>1, <2>4, <3>1, <3>2, SeasonAlone
    <3> QED BY <1>2, <3>1, <3>2, <3>3
  <2>6. EntriesTrue'
    <3> SUFFICES ASSUME NEW s \in 1..MaxSeasons PROVE EntryTrue(s)'
      BY DEF EntriesTrue
    <3>1. CASE s = award.seq
      BY <1>2, <1>3, <2>1, <2>5, <3>1 DEF EntryTrue
    <3>2. CASE s # award.seq
      <4>1. EntryTrue(s) /\ (Awarding(s)' <=> Awarding(s)) /\ ~Awarding(s)
        BY <2>0, <2>1, <3>2 DEF EntriesTrue
      <4> QED BY <1>1, <2>1, <4>1, EntryAlone
    <3> QED BY <3>1, <3>2
  <2>7. award'.rewarded = {}
    BY <1>2, <2>2 DEF Untouched
  <2>8. AwardTrue'
    <3>1. Participants(award.seq)' = award'.todo
      BY <1>1, <1>2, <2>3, SeasonAlone
    <3> QED BY <1>1, <1>2, <1>3, <2>1, <2>7, <3>1 DEF AwardTrue
  <2>9. \A x, b : Reward(x, b)' = Reward(x, b)
    <3> TAKE x, b
    <3>1. BestRank(x, Owner[b])' = BestRank(x, Owner[b])
      BY <1>1, SeasonAlone
    <3>2. CASE x # award.seq
      BY <2>1, <3>1, <3>2 DEF Reward, RewardFor
    <3>3. CASE x = award.seq
      <4>1. RewardFor(BestRank(x, Owner[b])) = 0
        BY <2>2, <3>3, NoRank, Entries
      <4>2. ~Received(b)'
        BY <1>1, <2>7 DEF Received
      <4> QED BY <2>1, <3>3, <4>1, <4>2 DEF Reward
    <3> QED BY <3>2, <3>3
  <2> QED BY <1>1, <2>0, <2>6, <2>8, <2>9, PointsStay
<1>5. Entrants'
  BY <1>1, <1>2, EntrantsStay DEF Prized, Entrants
<1> QED BY <1>1, <1>4, <1>5 DEF Prized

(* ... or, for the ranking, of what its entries started with. *)
LEMMA StartsAlone ==
  ASSUME NEW s, UNCHANGED scene, \A a \in Accounts : entries'[s][a].start = entries[s][a].start
  PROVE  \A t, f : Rankings(s, t, f)' = Rankings(s, t, f)
<1>1. \A u : AccountsOf(u)' = AccountsOf(u)
  BY DEF AccountsOf
<1>2. \A as : StartSum(s, as)' = StartSum(s, as)
  BY DEF StartSum
<1>3. \A f, as, bs : Outdoes(s, f, as, bs)' <=> Outdoes(s, f, as, bs)
  <2> TAKE f, as, bs
  <2>1. StartSum(s, as)' = StartSum(s, as) /\ StartSum(s, bs)' = StartSum(s, bs)
    BY <1>2
  <2> QED BY <2>1 DEF Outdoes
<1> QED BY <1>1, <1>3 DEF Rankings

(* Saving an entry: its rank is that of the ranking, and nobody's prize changes
   unless it has been paid to all accounts of the owner. *)
LEMMA PrizedSave ==
  ASSUME TypeOK, TypeOK', Safe, Prized,
         UNCHANGED <<scene, seasons, accounts, locals, engine, crashes>>,
         NEW a \in award.todo, SaveEntry(a),
         award.phase \in {"saving", "paying"}, award'.phase = "saving",
         award'.todo = award.todo \ {a},
         UNCHANGED <<award.seq, award.rank, award.final>>,
         award'.entry \subseteq award.entry,
         \/ award.phase = "saving" /\ award'.rewarded = award.rewarded
            /\ (~OnPodium(a) \/ Owner[a] \in award.rewarded)
         \/ award.phase = "paying" /\ award'.rewarded = award.rewarded \cup {Owner[a]}
            /\ award.pay = {} /\ award.entry = {a}
  PROVE  Prized'
<1>q. PICK q : q = award.seq
  OBVIOUS
<1>0. a \in Accounts /\ award \in Award /\ award' \in Award
  BY DEF TypeOK, Award
<1>1. q \in 1..MaxSeasons /\ ~SeasonSettled(q)
  BY <1>q, AtWork
<1>2. /\ \A s \in 1..MaxSeasons : s # q => entries'[s] = entries[s]
      /\ \A b \in Accounts : b # a => entries'[q][b] = entries[q][b]
      /\ entries'[q][a] = [entries[q][a] EXCEPT !.status = "settled", !.final = award.final[a],
              !.rank = award.rank[Owner[a]], !.rewarded = OnPodium(a)]
  BY <1>q, <1>0, <1>1, Entries DEF SaveEntry, TypeOK
<1>3. /\ entries'[q][a].status = "settled" /\ entries'[q][a].final = award.final[a]
      /\ entries'[q][a].rank = award.rank[Owner[a]]
      /\ entries'[q][a].start = entries[q][a].start
  <2>1. entries[q][a] \in Entry
    BY <1>0, <1>1, Entries
  <2> QED BY <1>2, <2>1 DEF Entry
<1>4. /\ a \in Participants(q) => \A s \in 1..MaxSeasons : Participants(s)' = Participants(s)
      /\ \A s \in 1..MaxSeasons : Participants(s)' \subseteq Participants(s) \cup {a}
  <2>1. \A s \in 1..MaxSeasons : s # q => Participants(s)' = Participants(s)
    BY <1>2, SameParticipants
  <2>2. Participants(q)' = Participants(q) \cup {a}
    <3>1. \A b \in Accounts : b # a => (b \in Participants(q)' <=> b \in Participants(q))
      BY <1>2 DEF Participants
    <3>2. a \in Participants(q)'
      BY <1>0, <1>3 DEF Participants
    <3>3. Participants(q)' \subseteq Accounts /\ Participants(q) \subseteq Accounts
      BY DEF Participants
    <3> QED BY <1>0, <3>1, <3>2, <3>3
  <2> QED BY <2>1, <2>2
<1>5. Entrants'
  <2>1. award'.todo \subseteq scene.accounts /\ a \in scene.accounts
    BY DEF Prized, Entrants
  <2>2. award'.entry \subseteq scene.accounts
    BY DEF Prized, Entrants
  <2> QED BY <1>4, <2>1, <2>2 DEF Prized, Entrants, Traded
<1>6. ASSUME crashes = 0 PROVE EntriesTrue' /\ AwardTrue' /\ PointsTrue'
  <2>0. EntriesTrue /\ AwardTrue /\ PointsTrue
    BY <1>6 DEF Prized
  <2>1. \A x : /\ Awarding(x) <=> x = q
               /\ Awarding(x)' <=> x = q
               /\ SeasonSettled(x)' <=> SeasonSettled(x)
    BY <1>q DEF Awarding, SeasonSettled
  <2>2. /\ award.todo \subseteq Participants(q) /\ Participants(q)' = Participants(q)
        /\ Participants(q)' \ award'.todo = (Participants(q) \ award.todo) \cup {a}
    BY <1>q, <1>1, <1>4, <2>0 DEF AwardTrue
  <2>3. Recorded(q, award.rank, award.final, award.todo)
    BY <1>1, <2>0, <2>1 DEF EntriesTrue, EntryTrue
  <2>4. Recorded(q, award.rank, award.final, award.todo)'
    <3>1. \A b \in Accounts : entries'[q][b].start = entries[q][b].start
      BY <1>2, <1>3
    <3>2. \A t, f : Rankings(q, t, f)' = Rankings(q, t, f)
      BY <3>1, StartsAlone
    <3>3. award'.rank \in Rankings(q, Participants(q), award.final)'
      BY <2>2, <2>3, <3>2 DEF Recorded
    <3>4. \A b \in Accounts :
            IF b \in Participants(q)' \ award'.todo
            THEN /\ entries'[q][b].status = "settled" /\ entries'[q][b].final = award'.final[b]
                 /\ entries'[q][b].rank = award'.rank[Owner[b]]
            ELSE Untouched(entries'[q][b])
      BY <1>2, <1>3, <2>2, <2>3 DEF Recorded
    <3> QED BY <3>3, <3>4 DEF Recorded, Untouched
  <2>5. EntriesTrue'
    <3> SUFFICES ASSUME NEW s \in 1..MaxSeasons PROVE EntryTrue(s)'
      BY DEF EntriesTrue
    <3>1. CASE s = q
      BY <1>1, <2>1, <2>4, <3>1 DEF EntryTrue
    <3>2. CASE s # q
      <4>1. EntryTrue(s) /\ (Awarding(s)' <=> Awarding(s)) /\ ~Awarding(s)
        BY <2>0, <2>1, <3>2 DEF EntriesTrue
      <4> QED BY <1>2, <2>1, <3>2, <4>1, EntryAlone
    <3> QED BY <3>1, <3>2
  <2>6. AwardTrue'
    <3>1. /\ \A b \in Participants(q) \ award.todo : OnPodium(b) => Owner[b] \in award.rewarded
          /\ \A u \in award.rewarded : \E b \in Participants(q) \ award.todo : Owner[b] = u
      BY <1>q, <2>0 DEF AwardTrue
    <3>2. \A b : OnPodium(b)' <=> OnPodium(b)
      BY DEF OnPodium
    <3>3. /\ award.rewarded \subseteq award'.rewarded
          /\ award'.rewarded \subseteq award.rewarded \cup {Owner[a]}
          /\ (OnPodium(a) => Owner[a] \in award'.rewarded)
          /\ (award'.rewarded # award.rewarded => Owner[a] \in award'.rewarded)
      OBVIOUS
    <3>4. \A b \in Participants(q)' \ award'.todo : OnPodium(b)' => Owner[b] \in award'.rewarded
      BY <2>2, <3>1, <3>2, <3>3
    <3>5. \A u \in award'.rewarded : \E b \in Participants(q)' \ award'.todo : Owner[b] = u
      BY <2>2, <3>1, <3>3
    <3>6. award'.todo \subseteq Participants(q)' /\ ~SeasonSettled(q)'
      BY <1>1, <2>1, <2>2
    <3> QED BY <1>q, <3>4, <3>5, <3>6 DEF AwardTrue
  <2>7. ASSUME NEW b \in scene.accounts \ Traded, NEW x \in 1..MaxSeasons
        PROVE  Reward(x, b)' = Reward(x, b)
    <3>1. CASE x # q
      <4>1. BestRank(x, Owner[b])' = BestRank(x, Owner[b])
        BY <1>2, <3>1, SeasonAlone
      <4> QED BY <2>1, <3>1, <4>1 DEF Reward, RewardFor
    <3>2. CASE x = q
      <4>1. Received(b)' <=> Received(b)
        BY DEF Received
      <4> QED BY <2>1, <3>2, <4>1 DEF Reward, RewardFor
    <3> QED BY <3>1, <3>2
  <2>8. PointsTrue'
    BY <2>0, <2>7, PointsStay
  <2> QED BY <2>5, <2>6, <2>8
<1> QED BY <1>5, <1>6 DEF Prized

LEMMA PrizedEntrySaved ==
  ASSUME TypeOK, TypeOK', Safe, Prized, UNCHANGED scene, NEW a \in Accounts,
         SettleEntry(a) \/ SettlePaid(a)
  PROVE  Prized'
<1>0. award \in Award
  BY DEF TypeOK
<1>1. CASE SettleEntry(a)
  <2>1. /\ award'.phase = "saving" /\ award'.todo = award.todo \ {a}
        /\ UNCHANGED <<award.seq, award.rank, award.final, award.rewarded, award.entry>>
    BY <1>0, <1>1 DEF SettleEntry, Award
  <2> QED BY <1>1, <2>1, PrizedSave DEF SettleEntry
<1>2. CASE SettlePaid(a)
  <2>1. /\ award'.phase = "saving" /\ award'.todo = award.todo \ {a}
        /\ award'.rewarded = award.rewarded \cup {Owner[a]}
        /\ UNCHANGED <<award.seq, award.rank, award.final>> /\ award'.entry = {}
    BY <1>0, <1>2 DEF SettlePaid, Award
  <2>2. CASE crashes = 0
    <3>1. a \in award.todo /\ award.entry = {a}
      BY <1>2, <2>2 DEF SettlePaid, Prized, AwardTrue
    <3> QED BY <1>2, <2>1, <3>1, PrizedSave DEF SettlePaid
  <2>3. CASE crashes # 0
    <3>1. \A s \in 1..MaxSeasons : Participants(s)' \subseteq Participants(s) \cup {a}
      <4>1. award.seq \in 1..MaxSeasons
        BY <1>2, AtWork DEF SettlePaid
      <4> QED BY <1>2, <4>1, Entries DEF SettlePaid, SaveEntry, Participants, TypeOK
    <3>2. a \in scene.accounts /\ award'.todo \subseteq scene.accounts /\ award'.entry = {}
      BY <1>0, <1>2, <2>1 DEF SettlePaid, Prized, Entrants, Award
    <3>3. UNCHANGED <<locals, engine, crashes>>
      BY <1>2 DEF SettlePaid
    <3> QED BY <2>3, <3>1, <3>2, <3>3 DEF Prized, Entrants, Traded
  <2> QED BY <2>2, <2>3
<1> QED BY <1>1, <1>2

(* The steps of the settlement that write no entry. *)
LEMMA PrizedPodium ==
  ASSUME TypeOK, TypeOK', Safe, Prized, UNCHANGED scene, NEW a \in Accounts, SettlePodium(a)
  PROVE  Prized'
<1>q. PICK q : q = award.seq
  OBVIOUS
<1>0. award \in Award
  BY DEF TypeOK
<1>1. /\ UNCHANGED <<seasons, entries, accounts, locals, engine, crashes>>
      /\ award.phase = "saving" /\ award'.phase = "paying" /\ a \in award.todo
      /\ Owner[a] \notin award.rewarded
  BY <1>0 DEF SettlePodium, Award
<1>2. /\ UNCHANGED <<award.seq, award.todo, award.rank, award.final, award.rewarded>>
      /\ award'.entry = {a} /\ award'.pay = AccountsOf(Owner[a]) /\ award'.seen = accounts
  BY <1>0 DEF SettlePodium, Award
<1>3. Entrants'
  <2>1. award'.todo \cup award'.entry \subseteq scene.accounts
    BY <1>1, <1>2 DEF Prized, Entrants
  <2> QED BY <1>1, <2>1, EntrantsStay DEF Prized
<1>4. ASSUME crashes = 0 PROVE EntriesTrue' /\ AwardTrue' /\ PointsTrue'
  <2>0. EntriesTrue /\ AwardTrue /\ PointsTrue
    BY <1>4 DEF Prized
  <2>1. \A x : (Awarding(x)' <=> Awarding(x)) /\ (SeasonSettled(x)' <=> SeasonSettled(x))
    BY <1>1, <1>2 DEF Awarding, SeasonSettled
  <2>2. EntriesTrue'
    <3>1. \A x \in 1..MaxSeasons : EntryTrue(x)
      BY <2>0 DEF EntriesTrue
    <3>2. \A x \in 1..MaxSeasons : EntryTrue(x)'
      BY <1>1, <1>2, <2>1, <3>1, EntryAlone
    <3> QED BY <3>2 DEF EntriesTrue
  <2>3. AwardTrue'
    <3>1. Participants(q)' = Participants(q)
      BY <1>1, SameParticipants
    <3>2. \A b : OnPodium(b)' <=> OnPodium(b)
      BY <1>2 DEF OnPodium
    <3>3. AccountsOf(Owner[a])' = AccountsOf(Owner[a])
      BY DEF AccountsOf
    <3>4. ~SeasonSettled(q)' /\ award'.todo \subseteq Participants(q)'
      BY <1>q, <1>1, <1>2, <2>0, <2>1, <3>1 DEF AwardTrue
    <3>5. LET saved == Participants(q)' \ award'.todo
          IN  /\ \A b \in saved : OnPodium(b)' => Owner[b] \in award'.rewarded
              /\ \A u \in award'.rewarded : \E b \in saved : Owner[b] = u
      BY <1>q, <1>1, <1>2, <2>0, <3>1, <3>2 DEF AwardTrue
    <3>6. \E b \in award'.todo : /\ award'.entry = {b} /\ Owner[b] \notin award'.rewarded
                                 /\ award'.pay \subseteq AccountsOf(Owner[b])'
      BY <1>1, <1>2, <3>3
    <3> QED BY <1>q, <1>1, <1>2, <3>4, <3>5, <3>6 DEF AwardTrue
  <2>4. ASSUME NEW b \in scene.accounts \ Traded, NEW x \in 1..MaxSeasons
        PROVE  Reward(x, b)' = Reward(x, b)
    <3>1. BestRank(x, Owner[b])' = BestRank(x, Owner[b])
      BY <1>1, SeasonAlone
    <3>2. Received(b)' <=> Received(b)
      BY <1>1, <1>2 DEF Received, AccountsOf
    <3> QED BY <1>2, <2>1, <3>1, <3>2 DEF Reward, RewardFor
  <2> QED BY <1>1, <2>0, <2>2, <2>3, <2>4, PointsStay
<1> QED BY <1>1, <1>3, <1>4 DEF Prized

LEMMA PrizedPay ==
  ASSUME TypeOK, TypeOK', Safe, Prized, UNCHANGED scene, NEW b \in Accounts, SettlePay(b)
  PROVE  Prized'
<1>q. PICK q : q = award.seq
  OBVIOUS
<1>0. award \in Award
  BY DEF TypeOK
<1>1. /\ UNCHANGED <<seasons, entries, locals, engine, crashes>>
      /\ award.phase = "paying" /\ award'.phase = "paying" /\ b \in award.pay
  BY <1>0 DEF SettlePay, Award
<1>2. /\ UNCHANGED <<award.seq, award.todo, award.rank, award.final, award.rewarded,
                     award.entry, award.seen>>
      /\ award'.pay = award.pay \ {b}
  BY <1>0 DEF SettlePay, Award
<1>3. /\ \A c \in Accounts : c # b => accounts'[c] = accounts[c]
      /\ accounts'[b].points = award.seen[b].points + RewardFor(award.rank[Owner[b]])
  <2>1. award.seen[b] \in Account
    BY <1>0 DEF Award
  <2>2. accounts'[b] = [award.seen[b] EXCEPT !.points = @ + RewardFor(award.rank[Owner[b]])]
        /\ \A c \in Accounts : c # b => accounts'[c] = accounts[c]
    BY DEF SettlePay, TypeOK
  <2> QED BY <2>1, <2>2 DEF Account
<1>4. Entrants'
  <2>1. award'.todo \cup award'.entry \subseteq scene.accounts
    BY <1>1, <1>2 DEF Prized, Entrants
  <2> QED BY <1>1, <2>1, EntrantsStay DEF Prized
<1>5. ASSUME crashes = 0 PROVE EntriesTrue' /\ AwardTrue' /\ PointsTrue'
  <2>0. EntriesTrue /\ AwardTrue /\ PointsTrue
    BY <1>5 DEF Prized
  <2>1. \A x : /\ Awarding(x) <=> x = q
               /\ Awarding(x)' <=> x = q
               /\ SeasonSettled(x)' <=> SeasonSettled(x)
    BY <1>q, <1>1, <1>2 DEF Awarding, SeasonSettled
  <2>2. EntriesTrue'
    <3>1. \A x \in 1..MaxSeasons : EntryTrue(x) /\ (Awarding(x)' <=> Awarding(x))
      BY <2>0, <2>1 DEF EntriesTrue
    <3>2. \A x \in 1..MaxSeasons : EntryTrue(x)'
      BY <1>1, <1>2, <2>1, <3>1, EntryAlone
    <3> QED BY <3>2 DEF EntriesTrue
  <2>3. PICK a \in award.todo : /\ award.entry = {a} /\ Owner[a] \notin award.rewarded
                                /\ award.pay \subseteq AccountsOf(Owner[a])
    BY <1>1, <2>0 DEF AwardTrue
  <2>4. Owner[b] = Owner[a] /\ b \in scene.accounts
    BY <1>1, <2>3 DEF AccountsOf
  <2>5. AwardTrue'
    <3>1. Participants(q)' = Participants(q)
      BY <1>1, SameParticipants
    <3>2. \A c : OnPodium(c)' <=> OnPodium(c)
      BY <1>2 DEF OnPodium
    <3>3. AccountsOf(Owner[a])' = AccountsOf(Owner[a])
      BY DEF AccountsOf
    <3>4. ~SeasonSettled(q)' /\ award'.todo \subseteq Participants(q)'
      BY <1>q, <1>1, <1>2, <2>0, <2>1, <3>1 DEF AwardTrue
    <3>5. LET saved == Participants(q)' \ award'.todo
          IN  /\ \A c \in saved : OnPodium(c)' => Owner[c] \in award'.rewarded
              /\ \A u \in award'.rewarded : \E c \in saved : Owner[c] = u
      BY <1>q, <1>1, <1>2, <2>0, <3>1, <3>2 DEF AwardTrue
    <3>6. \E c \in award'.todo : /\ award'.entry = {c} /\ Owner[c] \notin award'.rewarded
                                 /\ award'.pay \subseteq AccountsOf(Owner[c])'
      BY <1>2, <2>3, <3>3
    <3>7. \A c \in award'.pay \ Traded' : award'.seen[c].points = accounts'[c].points
      <4>1. \A c \in award.pay \ Traded : award.seen[c].points = accounts[c].points
        BY <1>1, <2>0 DEF AwardTrue
      <4>2. award.pay \subseteq Accounts
        BY <1>0 DEF Award
      <4> QED BY <1>2, <1>3, <4>1, <4>2 DEF Traded
    <3> QED BY <1>q, <1>1, <1>2, <3>4, <3>5, <3>6, <3>7 DEF AwardTrue
  <2>6. ASSUME NEW c \in scene.accounts, c # b PROVE Received(c)' <=> Received(c)
    BY <1>1, <1>2, <2>6 DEF Received
  <2>7. ~Received(b) /\ Received(b)'
    BY <1>1, <1>2, <2>3, <2>4 DEF Received
  <2>8. ASSUME NEW c \in scene.accounts, NEW x \in 1..MaxSeasons, c # b \/ x # q
        PROVE  Reward(x, c)' = Reward(x, c)
    <3>1. BestRank(x, Owner[c])' = BestRank(x, Owner[c])
      BY <1>1, SeasonAlone
    <3>2. CASE x # q
      BY <2>1, <3>1, <3>2 DEF Reward, RewardFor
    <3>3. CASE c # b /\ x = q
      BY <1>2, <2>1, <2>6, <3>3 DEF Reward, RewardFor
    <3> QED BY <2>8, <3>2, <3>3
  <2>9. ASSUME NEW c \in scene.accounts \ Traded
        PROVE  accounts'[c].points = SumFunction([s \in DOMAIN entries |-> Reward(s, c)])'
    <3>0. /\ DOMAIN entries' = 1..MaxSeasons /\ DOMAIN entries = 1..MaxSeasons
          /\ IsFiniteSet(1..MaxSeasons)
      BY <1>1, Entries
    <3> DEFINE F == [s \in 1..MaxSeasons |-> Reward(s, c)]
               G == [s \in 1..MaxSeasons |-> Reward(s, c)']
    <3>1. accounts[c].points = SumFunction(F)
      BY <2>0, <3>0 DEF PointsTrue
    <3>2. SumFunction([s \in DOMAIN entries |-> Reward(s, c)])' = SumFunction(G)
      BY <3>0
    <3>3. CASE c # b
      <4>1. F = G
        BY <2>8, <3>3
      <4>2. accounts'[c].points = accounts[c].points
        BY <1>3, <3>3, Entries
      <4> QED BY <3>1, <3>2, <4>1, <4>2
    <3>4. CASE c = b
      <4> DEFINE v == RewardFor(award.rank[Owner[b]])
      <4>1. q \in 1..MaxSeasons
        BY <1>q, <1>1, AtWork
      <4>2. Reward(q, b) = 0 /\ Reward(q, b)' = v
        BY <1>2, <2>1, <2>7 DEF Reward, RewardFor
      <4>3. v \in Nat /\ F \in [1..MaxSeasons -> Int] /\ F[q] = 0
        BY <3>4, <4>1, <4>2, Worthless, RewardNat
      <4>4. G = [F EXCEPT ![q] = v]
        BY <2>8, <3>4, <4>1, <4>2
      <4>5. SumFunction(F) \in Int
        BY <3>1, <3>4 DEF TypeOK, Account
      <4> HIDE DEF F, G, v
      <4>6. SumFunction(G) = SumFunction(F) - F[q] + v
        <5>1. v \in Int
          BY <4>3
        <5>2. SumFunction([F EXCEPT ![q] = v]) = SumFunction(F) - F[q] + v
          BY ONLY <3>0, <4>1, <4>3, <5>1, SumChange
        <5> QED BY <4>4, <5>2
      <4>7. accounts'[b].points = accounts[b].points + v
        <5>1. award.seen[b].points = accounts[b].points
          BY <1>1, <2>0, <3>4 DEF AwardTrue
        <5> QED BY <1>3, <5>1 DEF v
      <4> QED BY <3>1, <3>2, <3>4, <4>3, <4>5, <4>6, <4>7
    <3> QED BY <3>3, <3>4
  <2> QED BY <2>2, <2>5, <2>9 DEF PointsTrue, Traded
<1> QED BY <1>1, <1>4, <1>5 DEF Prized

(* When the settlement ends, what was paid is what the recorded ranks say. *)
LEMMA PrizedEnd ==
  ASSUME TypeOK, TypeOK', Safe, Prized, UNCHANGED scene, SettleEnd
  PROVE  Prized'
<1>q. PICK q : q = award.seq
  OBVIOUS
<1>r. PICK r, f : r = award.rank /\ f = award.final
  OBVIOUS
<1>0. award \in Award
  BY DEF TypeOK
<1>1. /\ UNCHANGED <<entries, accounts, engine, crashes>>
      /\ award.phase = "saving" /\ award.todo = {} /\ award'.phase = "idle"
      /\ seasons' = Settled(q)
  BY <1>q DEF SettleEnd, NoAward
<1>2. q \in 1..MaxSeasons /\ ~SeasonSettled(q) /\ q \in DOMAIN seasons
  BY <1>q, <1>1, AtWork DEF Safe, Works
<1>3. \A s : SeasonSettled(s)' <=> (SeasonSettled(s) \/ s = q)
  <2>1. /\ DOMAIN seasons' = DOMAIN seasons
        /\ \A s \in DOMAIN seasons : s # q => seasons'[s] = seasons[s]
        /\ seasons'[q] = [seasons[q] EXCEPT !.status = "settled"]
    BY <1>1, <1>2, Rows DEF Settled
  <2>2. seasons'[q].status = "settled"
    BY <1>2, <2>1, Rows DEF SeasonRow
  <2> QED BY <1>2, <2>1, <2>2 DEF SeasonSettled
<1>4. Entrants'
  <2>1. \A u \in Users : locals'[u].phase = "entering" => locals'[u] = locals[u]
    BY DEF SettleEnd, TypeOK, Local, Callers
  <2> QED BY <1>1, <2>1, SameParticipants, EntrantsQuiet DEF Prized
<1>5. ASSUME crashes = 0 PROVE EntriesTrue' /\ AwardTrue' /\ PointsTrue'
  <2>0. EntriesTrue /\ AwardTrue /\ PointsTrue
    BY <1>5 DEF Prized
  <2>1. \A x : (Awarding(x) <=> x = q) /\ ~Awarding(x)'
    BY <1>q, <1>1 DEF Awarding
  <2>2. Recorded(q, r, f, {})
    BY <1>q, <1>r, <1>1, <1>2, <2>0, <2>1 DEF EntriesTrue, EntryTrue
  <2>3. PICK g : g = Final(q)
    OBVIOUS
  <2>4. Recorded(q, r, g, {}) /\ r \in Rankings(q, Participants(q), g)
    <3>1. \A a \in Participants(q) : f[a] = g[a]
      BY <2>2, <2>3 DEF Recorded, Final, Participants
    <3>2. f \in [Accounts -> Nat]
      BY <1>r, <1>0 DEF Award
    <3>3. g \in [Accounts -> Nat]
      <4>1. \A a \in Accounts : entries[q][a].final \in Nat
        BY <1>2, Entries DEF Entry
      <4> QED BY <2>3, <4>1 DEF Final
    <3>4. Rankings(q, Participants(q), f) = Rankings(q, Participants(q), g)
      <4>1. Participants(q) \in SUBSET Accounts
        BY DEF Participants
      <4> QED BY <1>2, <3>1, <3>2, <3>3, <4>1, SameRankings
    <3> QED BY <2>2, <3>1, <3>4 DEF Recorded
  <2>5. EntriesTrue'
    <3> SUFFICES ASSUME NEW s \in 1..MaxSeasons PROVE EntryTrue(s)'
      BY DEF EntriesTrue
    <3>1. CASE s = q
      <4>1. /\ Final(q)' = g
            /\ Rankings(q, Participants(q), g)' = Rankings(q, Participants(q), g)
            /\ Recorded(q, r, g, {})'
        BY <1>1, <2>3, <2>4, SeasonAlone
      <4>2. Participants(q)' = Participants(q)
        BY <1>1, SameParticipants
      <4>3. r \in Rankings(q, Participants(q), Final(q))' /\ Recorded(q, r, Final(q), {})'
        BY <2>4, <4>1, <4>2
      <4>4. \E x \in Rankings(q, Participants(q), Final(q))' : Recorded(q, x, Final(q), {})'
        BY <4>3
      <4> QED BY <1>3, <2>1, <3>1, <4>4 DEF EntryTrue
    <3>2. CASE s # q
      <4>1. EntryTrue(s) /\ (Awarding(s)' <=> Awarding(s)) /\ ~Awarding(s)
        BY <2>0, <2>1, <3>2 DEF EntriesTrue
      <4> QED BY <1>1, <1>3, <3>2, <4>1, EntryAlone
    <3> QED BY <3>1, <3>2
  <2>6. AwardTrue'
    BY <1>1 DEF AwardTrue
  <2>7. ASSUME NEW b \in scene.accounts \ Traded, NEW x \in 1..MaxSeasons
        PROVE  Reward(x, b)' = Reward(x, b)
    <3>0. BestRank(x, Owner[b])' = BestRank(x, Owner[b])
      BY <1>1, SeasonAlone
    <3>1. CASE x # q
      BY <2>1, <3>0, <3>1 DEF Reward, RewardFor
    <3>2. CASE x = q
      <4> DEFINE u == Owner[b]
                 at == Participants(q) \cap AccountsOf(u)
      <4>1. u \in Users /\ b \in Accounts
        BY Scenery, Entries
      <4>2. (at = {} => BestRank(q, u) = 0) /\ (at # {} => BestRank(q, u) = r[u])
        BY <1>2, <2>2, <4>1, RankRecorded
      <4>3. /\ \A a \in Participants(q) : OnPodium(a) => Owner[a] \in award.rewarded
            /\ \A v \in award.rewarded : \E a \in Participants(q) : Owner[a] = v
        BY <1>q, <1>1, <2>0 DEF AwardTrue
      <4>4. Participants(q) \subseteq scene.accounts
        BY <1>2 DEF Prized, Entrants
      <4>5. Received(b) <=> u \in award.rewarded
        BY <1>1 DEF Received
      <4>6. CASE at = {}
        <5>1. u \notin award.rewarded
          BY <4>3, <4>4, <4>6 DEF AccountsOf
        <5> QED BY <2>1, <3>0, <3>2, <4>2, <4>5, <4>6, <5>1, Worthless DEF Reward, RewardFor
      <4>7. CASE at # {} /\ u \in award.rewarded
        BY <1>r, <2>1, <3>0, <3>2, <4>2, <4>5, <4>7 DEF Reward, RewardFor
      <4>8. CASE at # {} /\ u \notin award.rewarded
        <5>1. PICK a \in Participants(q) : Owner[a] = u
          BY <4>8 DEF AccountsOf
        <5>2. ~OnPodium(a)
          BY <4>3, <4>8, <5>1
        <5>3. RewardFor(r[u]) = 0
          BY <1>r, <5>1, <5>2 DEF OnPodium, RewardFor
        <5> QED BY <2>1, <3>0, <3>2, <4>2, <4>5, <4>8, <5>3 DEF Reward, RewardFor
      <4> QED BY <4>6, <4>7, <4>8
    <3> QED BY <3>1, <3>2
  <2>8. PointsTrue'
    BY <1>1, <2>0, <2>7, PointsStay
  <2> QED BY <2>5, <2>6, <2>8
<1> QED BY <1>1, <1>4, <1>5 DEF Prized

-----------------------------------------------------------------------------
LEMMA PrizedNext ==
  ASSUME TypeOK, TypeOK', Safe, Prized, [Next]_vars
  PROVE  Prized'
<1>1. CASE UNCHANGED vars
  <2>1. Entrants'
    BY <1>1, EntrantsStay DEF vars, Prized, Entrants
  <2> QED BY <1>1, <2>1, PrizedQuiet DEF vars, SeasonSettled
<1>2. CASE Next
  <2>0. UNCHANGED scene
    BY <1>2 DEF Next
  <2>1. CASE Requests \/ Scheduler
    BY <2>0, <2>1, PrizedRest, PrizedEngine DEF Requests, Scheduler
  <2>2. CASE Handlers
    BY <2>0, <2>2, PrizedEnsure, PrizedEnroll, PrizedEngine DEF Handlers
  <2>3. CASE Settlement
    BY <2>0, <2>3, PrizedBegin, PrizedRank, PrizedEnd, PrizedRead, PrizedEntrySaved,
       PrizedPodium, PrizedPay DEF Settlement
  <2> QED BY <1>2, <2>1, <2>2, <2>3 DEF Next
<1> QED BY <1>1, <1>2

LEMMA InitPrized ==
  ASSUME Init
  PROVE  Prized
<1>1. \A s \in 1..MaxSeasons : \A a \in Accounts : entries[s][a] = NoEntry
  BY DEF Init
<1>2. \A s : ~SeasonSettled(s)
  BY DEF Init, SeasonSettled
<1>3. award.phase = "idle" /\ award.todo = {} /\ engine.phase = "idle"
  BY DEF Init, NoAward, NoJob
<1>4. \A u \in Users : locals[u].phase = "idle"
  BY DEF Init, Idle, Callers
<1>5. Entrants
  BY <1>1, <1>3, <1>4 DEF Entrants, Participants, NoEntry
<1>6. EntriesTrue /\ AwardTrue
  BY <1>1, <1>2, <1>3 DEF EntriesTrue, EntryTrue, Awarding, Untouched, NoEntry, AwardTrue
<1>7. scene.accounts \subseteq Accounts
  BY Scenery DEF Init
<1>8. PointsTrue
  <2> SUFFICES ASSUME NEW a \in scene.accounts \ Traded
               PROVE  accounts[a].points = SumFunction([s \in DOMAIN entries |-> Reward(s, a)])
    BY DEF PointsTrue
  <2>1. accounts[a].points = 0
    BY <1>7 DEF Init
  <2> DEFINE F == [s \in DOMAIN entries |-> Reward(s, a)]
  <2>2. DOMAIN entries = 1..MaxSeasons /\ IsFiniteSet(1..MaxSeasons)
    BY Scenery, FS_Interval DEF Init
  <2>3. \A s \in 1..MaxSeasons : F[s] = 0
    <3> TAKE s \in 1..MaxSeasons
    <3>1. \A b \in Accounts : Untouched(entries[s][b])
      BY <1>1 DEF Untouched, NoEntry
    <3> QED BY <1>3, <1>7, <2>2, <3>1, NoRank DEF Reward, Awarding
  <2>4. SumFunction(F) = SumFunctionOnSet(F, 1..MaxSeasons)
    BY <2>2 DEF SumFunction, SumFunctionOnSet, FoldFunction
  <2> HIDE DEF F
  <2>5. SumFunction(F) = 0
    BY <2>2, <2>3, <2>4, SumZero
  <2> QED BY <2>1, <2>5 DEF F
<1> QED BY <1>5, <1>6, <1>8 DEF Prized

(* What the ranking of a settled season and the points say. *)
LEMMA PrizesRight ==
  ASSUME TypeOK, Prized
  PROVE  PrizesFollowReturns
<1> SUFFICES ASSUME crashes = 0 PROVE RanksInOrder /\ PointsMatchRanks
  BY DEF PrizesFollowReturns
<1>0. EntriesTrue /\ PointsTrue
  BY DEF Prized
<1>1. RanksInOrder
  <2> SUFFICES ASSUME NEW s \in DOMAIN seasons, seasons[s].status = "settled",
                      NEW u \in Users, NEW v \in Users, u # v,
                      Entered(s, u) # {}, Entered(s, v) # {}
               PROVE  /\ BestRank(s, u) # BestRank(s, v)
                      /\ Outdoes(s, Final(s), Entered(s, u), Entered(s, v)) =>
                           BestRank(s, u) < BestRank(s, v)
    BY DEF RanksInOrder
  <2>1. s \in 1..MaxSeasons /\ SeasonSettled(s)
    BY Entries DEF SeasonSettled
  <2>2. PICK r \in Rankings(s, Participants(s), Final(s)) : Recorded(s, r, Final(s), {})
    BY <1>0, <2>1 DEF EntriesTrue, EntryTrue
  <2>3. /\ Entered(s, u) = Participants(s) \cap AccountsOf(u)
        /\ Entered(s, v) = Participants(s) \cap AccountsOf(v)
        /\ BestRank(s, u) = r[u] /\ BestRank(s, v) = r[v]
    BY <2>1, <2>2, RankRecorded
  <2>4. u \in {Owner[a] : a \in Participants(s)} /\ v \in {Owner[a] : a \in Participants(s)}
    BY <2>3 DEF AccountsOf
  <2> QED BY <2>2, <2>3, <2>4 DEF Rankings
<1>2. PointsMatchRanks
  <2> SUFFICES ASSUME award.phase = "idle", NEW a \in scene.accounts \ Traded
               PROVE  accounts[a].points = SumFunction([s \in DOMAIN entries |->
                                                          RewardFor(BestRank(s, Owner[a]))])
    BY DEF PointsMatchRanks, Traded
  <2>1. \A s : Reward(s, a) = RewardFor(BestRank(s, Owner[a]))
    BY DEF Reward, Awarding
  <2>2. [s \in DOMAIN entries |-> Reward(s, a)]
          = [s \in DOMAIN entries |-> RewardFor(BestRank(s, Owner[a]))]
    BY <2>1
  <2>3. accounts[a].points = SumFunction([s \in DOMAIN entries |-> Reward(s, a)])
    BY <1>0 DEF PointsTrue
  <2> QED BY <2>2, <2>3
<1> QED BY <1>1, <1>2

(* While no crash repeats a settlement, nobody ranks behind a user he outdid, no
   rank is given twice, and the season points of every account are the prizes of
   its owner's recorded ranks (settleSeason), for any players, markets, prizes
   and races of enrolments, resets and callbacks. *)
THEOREM PrizesPaid == Spec => []PrizesFollowReturns
<1>1. Init => Prized
  BY InitPrized
<1>2. IInv /\ IInv' /\ Prized /\ [Next]_vars => Prized'
  BY PrizedNext DEF IInv
<1>3. IInv /\ Prized => PrizesFollowReturns
  BY PrizesRight DEF IInv
<1> QED BY <1>1, <1>2, <1>3, Invariant, PTL DEF Spec

=============================================================================

------------------------------ MODULE MarketDay ------------------------------
(***************************************************************************)
(* The trading day of the Chinese market in real time: the tick loop with  *)
(* its watchdog, the opening and the close of a day, and the account jobs  *)
(* (transfer, reset, funds, fills, dividends, daily settlement) that share *)
(* the settlement chain with it.                                           *)
(*                                                                         *)
(* One user holds a Chinese account and an American one.  A tick is a      *)
(* process that waits at every await; the chain runs one job at a time; a  *)
(* crash loses the memory and restarts from what the runtime store holds.  *)
(* Prices are fixed: amounts are small whole numbers, so that a lost or a  *)
(* repeated change of a balance shows.  A BadX is X with a plausible bug.  *)
(***************************************************************************)
EXTENDS Integers, Sequences, FiniteSets

CONSTANTS
  MaxDate,       \* bound on calendar dates
  Minutes,       \* trading minutes of a date (240 in the code)
  ExDays,        \* game days on which the share goes ex dividend
  UserOps,       \* what the user asks for, of AllOps
  MaxCalls,      \* bound on the user's calls
  MaxTroubles,   \* bound on crashes, failed database calls and hung ticks together
  Failing,       \* the steps of a close whose database call may fail
  MaxHangs,      \* bound on ticks the watchdog gives up
  LoneLeverage,  \* TRUE: nobody else writes the row while setLeverage holds it
  Slow           \* TRUE: such a tick goes on later; FALSE: it never returns

AllOps == {"transfer", "reset", "subscribe", "redeem", "buy", "sell", "late",
           "leverage"}

Dates == 0..MaxDate
GameDays == 1..(2 * MaxDate + 2)

ASSUME MarketDayAssumption ==
  /\ MaxDate \in Nat \ {0} /\ Minutes \in Nat \ {0} /\ ExDays \subseteq GameDays
  /\ UserOps \subseteq AllOps /\ MaxCalls \in Nat
  /\ MaxTroubles \in Nat /\ MaxHangs \in Nat /\ Slow \in BOOLEAN /\ LoneLeverage \in BOOLEAN
  /\ Failing \subseteq {"persistClosing", "navs", "persistAdvanced", "settle", "persistClosed"}

VARIABLES
  clock,      \* [date, slot]; slot: 0 auction, 1..Minutes, then post-close, night
  market,     \* memory of MarketService and of the market's data service
  saved,      \* the runtime store: game day and calendar state
  tick,       \* the tick loop, and the loops the watchdog started after it
  processing, \* the flag that keeps ticks apart
  chain,      \* jobs of the settlement chain, the running one first
  account,    \* the user's account rows: cn, and the cash of us
  pos,        \* the position row of the share
  fund,       \* shares of the fund held, and its net asset value
  snaps,      \* dividend snapshots by ex day
  late,       \* date of a pending post-close order, or 0
  lever,      \* locals of a setLeverage request
  ghost,      \* what happened, for the properties
  used        \* calls, troubles and hung ticks so far
vars == <<clock, market, saved, tick, processing, chain, account, pos, fund, snaps,
          late, lever, ghost, used>>

Loops == 1..(MaxHangs + 1)
PostClose == Minutes + 1
Night == Minutes + 2
None == [day |-> 0, advanced |-> FALSE]     \* no day is being closed
Record == [day: Nat, advanced: BOOLEAN]      \* what is kept of an unfinished close
NoSnap == [there |-> FALSE, qty |-> 0, paid |-> FALSE]
StartCash == [cn |-> 4, us |-> 2]
PresetCash == 5
Interest(row) == row.debt

Calendar == [date: Dates, closedOn: Dates, minute: Dates \X (0..Minutes), initDay: Nat,
             auctionDay: Nat, closing: BOOLEAN]
EmptyCalendar == [date |-> 0, closedOn |-> 0, minute |-> <<0, 0>>, initDay |-> 0,
                  auctionDay |-> 0, closing |-> FALSE]
Memory(gameDay, cal, closing) ==
  [gameDay |-> gameDay, engineDay |-> gameDay, cal |-> cal, closing |-> closing,
   active |-> cal.date, closedOn |-> cal.closedOn, minute |-> cal.minute,
   initDay |-> cal.initDay, auctionDay |-> cal.auctionDay, afterDay |-> 0]
Row == [cash: Int, lev: {1, 2}, debt: Int, day: Nat, reset: Nat]
Pcs == {"idle", "off", "watchdog", "hung", "open", "auction", "dayAuction", "waitEnd", "waitMatch",
        "end", "generate", "unlock", "wait", "init", "match", "persistClosing", "navs", "snapshot",
        "pay", "dayEnd", "persistAdvanced", "settle", "drop", "persistClosed"}
Loop == [pc: Pcs, date: Dates, slot: 0..Night, day: Nat]
JobRow == [op: AllOps \cup {"navs", "snapshot", "pay", "settle", "unlock"},
           by: Loops \cup {0}, day: Nat,
           step: {"queued", "write", "pay", "mark", "daily", "tier"}, copy: [cn: Row, us: Int]]
IdleTick == [pc |-> "idle", date |-> 0, slot |-> 0, day |-> 0]
NoCopy == [cn |-> [cash |-> 0, lev |-> 1, debt |-> 0, day |-> 0, reset |-> 0], us |-> 0]
Job(op, by, day) == [op |-> op, by |-> by, day |-> day, step |-> "queued", copy |-> NoCopy]

Init ==
  /\ clock = [date |-> 1, slot |-> 0]
  /\ market = Memory(1, EmptyCalendar, None)
  /\ saved = [gameDay |-> 1, cal |-> EmptyCalendar, closing |-> None]
  /\ tick = [i \in Loops |-> IF i = 1 THEN IdleTick ELSE [IdleTick EXCEPT !.pc = "off"]]
  /\ processing = FALSE /\ chain = <<>>
  /\ account = [cn |-> [cash |-> StartCash.cn, lev |-> 1, debt |-> 1, day |-> 0, reset |-> 0],
                us |-> StartCash.us]
  /\ \E held \in 0..1:
       /\ pos = [qty |-> held, fresh |-> 0, boughtDay |-> 0]
       /\ fund = [shares |-> held, nav |-> 0, day |-> 1]
  /\ snaps = [d \in GameDays |-> NoSnap]
  /\ late = 0 /\ lever = [phase |-> "idle", row |-> NoCopy.cn]
  /\ ghost = [cash |-> StartCash, endedOn |-> [d \in GameDays |-> 0],
              settled |-> [d \in GameDays |-> 0], boughtOn |-> 0, soldFresh |-> FALSE]
  /\ used = [calls |-> 0, troubles |-> 0, hangs |-> 0]

Trouble == used.troubles < MaxTroubles /\ used' = [used EXCEPT !.troubles = @ + 1]
InSession == clock.slot \in 1..Minutes
Go(i, pc) == tick' = [tick EXCEPT ![i].pc = pc]

TimePasses ==
  /\ clock # [date |-> MaxDate, slot |-> Night]
  /\ clock' = IF clock.slot = Night THEN [date |-> clock.date + 1, slot |-> 0]
              ELSE [clock EXCEPT !.slot = @ + 1]
  /\ UNCHANGED <<market, saved, tick, processing, chain, account, pos, fund, snaps, late,
                 lever, ghost, used>>

-----------------------------------------------------------------------------
(* A tick of the market: processMarket.  The calendar is read when the tick
   starts; the stage of the session is asked for again where the code does. *)

DayOver(at) ==
  /\ market.active # 0 /\ market.closedOn # market.active
  /\ market.active # at.date \/ at.slot > Minutes

(* The close starts from the record of a close that was not finished, if any. *)
BadStartClose ==
  market' = [market EXCEPT !.closing = [day |-> market.gameDay, advanced |-> FALSE],
                           !.cal.closing = TRUE]

StartClose ==
  LET closing == IF market.closing # None THEN market.closing
                 ELSE [day |-> market.gameDay, advanced |-> FALSE]
  IN  market' = [market EXCEPT !.closing = closing, !.cal.closing = TRUE]

Begin(i) ==
  /\ tick[i].pc = "idle" /\ ~processing
  /\ processing' = TRUE
  /\ IF market.closing # None \/ DayOver(clock)
       THEN /\ StartClose
            /\ tick' = [tick EXCEPT ![i] = [pc |-> "persistClosing", date |-> clock.date,
                                            slot |-> clock.slot, day |-> market'.closing.day]]
       ELSE /\ tick' = [tick EXCEPT ![i] = [pc |-> "open", date |-> clock.date,
                                            slot |-> clock.slot, day |-> 0]]
            /\ UNCHANGED market
  /\ UNCHANGED <<clock, saved, chain, account, pos, fund, snaps, late, lever, ghost, used>>

Finish(i) == tick' = [tick EXCEPT ![i] = IdleTick] /\ processing' = FALSE

(* Post-close orders are cancelled once the window is over; the auction runs
   once per game day; a minute is generated once. *)
Cancelled(d) == market.afterDay = market.gameDay /\ clock.slot # PostClose

Open(i) ==
  LET auction == clock.slot = 0 /\ market.auctionDay # market.gameDay
      after == IF clock.slot = PostClose THEN market.gameDay
               ELSE IF Cancelled(clock.date) THEN 0 ELSE market.afterDay
      key == <<tick[i].date, tick[i].slot>>
      generates == /\ InSession /\ tick[i].slot \in 1..Minutes
                   /\ market.closedOn # tick[i].date /\ market.minute # key
      bound == IF clock.slot # PostClose /\ (tick[i].slot = 0 \/ generates)
               THEN tick[i].date ELSE market.cal.date
  IN  /\ tick[i].pc = "open"
      /\ late' = IF Cancelled(clock.date) THEN 0 ELSE late
      /\ market' = [market EXCEPT !.afterDay = after, !.cal.date = bound,
                      !.auctionDay = IF auction THEN market.gameDay ELSE @,
                      !.minute = IF generates THEN key ELSE @,
                      !.active = IF generates THEN tick[i].date ELSE @,
                      !.engineDay = IF generates THEN market.gameDay ELSE @]
      /\ IF generates THEN Go(i, "generate") /\ UNCHANGED processing
         ELSE IF auction THEN Go(i, "auction") /\ UNCHANGED processing
         ELSE Finish(i)
      /\ UNCHANGED <<clock, saved, chain, account, pos, fund, snaps, lever, ghost, used>>

(* runOpeningAuctions: the user's bid is filled, or it is not. *)
Auction(i) ==
  /\ tick[i].pc \in {"auction", "dayAuction"}
  /\ LET next == IF tick[i].pc = "auction" THEN "end" ELSE "match"
     IN  \/ /\ "buy" \in UserOps /\ used.calls < MaxCalls
            /\ used' = [used EXCEPT !.calls = @ + 1]
            /\ chain' = Append(chain, Job("buy", i, clock.date))
            /\ tick' = [tick EXCEPT ![i].pc = IF next = "end" THEN "waitEnd" ELSE "waitMatch"]
         \/ Go(i, next) /\ UNCHANGED <<chain, used>>
  /\ UNCHANGED <<clock, market, saved, processing, account, pos, fund, snaps, late, lever, ghost>>

EndTick(i) ==
  /\ tick[i].pc = "end" /\ Finish(i)
  /\ UNCHANGED <<clock, market, saved, chain, account, pos, fund, snaps, late, lever, ghost, used>>

Generate(i) ==
  /\ tick[i].pc = "generate"
  /\ Go(i, IF market.initDay # market.gameDay THEN "unlock" ELSE "match")
  /\ market' = [market EXCEPT !.initDay = market.gameDay]
  /\ UNCHANGED <<clock, saved, processing, chain, account, pos, fund, snaps, late, lever, ghost, used>>

(* The first minute of a game day unlocks the shares bought before it. *)
Unlock(i) ==
  /\ tick[i].pc = "unlock"
  /\ chain' = Append(chain, Job("unlock", i, market.gameDay)) /\ Go(i, "wait")
  /\ UNCHANGED <<clock, market, saved, processing, account, pos, fund, snaps, late, lever, ghost, used>>

BadDayInit(i) ==
  LET auction == tick[i].slot = 1 /\ market.auctionDay # market.gameDay
  IN  /\ tick[i].pc = "init"
      /\ market' = [market EXCEPT !.auctionDay = IF auction THEN market.gameDay ELSE @]
      /\ Go(i, IF auction THEN "dayAuction" ELSE "match")
      /\ UNCHANGED <<clock, saved, processing, chain, account, pos, fund, snaps, late, lever, ghost, used>>

DayInit(i) ==
  LET auction == tick[i].slot = 1 /\ market.auctionDay # market.gameDay
  IN  /\ tick[i].pc = "init"
      /\ late' = 0
      /\ market' = [market EXCEPT !.auctionDay = IF auction THEN market.gameDay ELSE @]
      /\ Go(i, IF auction THEN "dayAuction" ELSE "match")
      /\ UNCHANGED <<clock, saved, processing, chain, account, pos, fund, snaps, lever, ghost, used>>

(* checkPendingOrders is TradingEngine's sweep; then the runtime state is
   saved, unless it was saved less than 30 s ago. *)
Match(i) ==
  LET cal == [market.cal EXCEPT !.minute = market.minute, !.initDay = market.initDay,
                                !.auctionDay = market.auctionDay]
  IN  /\ tick[i].pc = "match"
      /\ market' = [market EXCEPT !.cal = cal]
      /\ \/ saved' = [gameDay |-> market.gameDay, cal |-> cal, closing |-> market.closing]
         \/ UNCHANGED saved
      /\ Finish(i)
      /\ UNCHANGED <<clock, chain, account, pos, fund, snaps, late, lever, ghost, used>>

-----------------------------------------------------------------------------
(* finishMarketDay, from the record of the close to its deletion.  A step whose
   database call fails ends the tick; the next tick starts the close again. *)

Persist(i) ==
  /\ tick[i].pc \in {"persistClosing", "persistAdvanced", "persistClosed"}
  /\ saved' = [gameDay |-> market.gameDay, cal |-> market.cal, closing |-> market.closing]
  /\ \/ /\ tick[i].pc = "persistClosing" /\ Go(i, "navs") /\ UNCHANGED market
     \/ /\ tick[i].pc = "persistAdvanced" /\ Go(i, "settle") /\ UNCHANGED market
     \/ /\ tick[i].pc = "persistClosed" /\ Go(i, "open")
        /\ market' = [market EXCEPT !.closedOn = market.active]
  /\ UNCHANGED <<clock, processing, chain, account, pos, fund, snaps, late, lever, ghost, used>>

Advanced(i) == market.closing.day = tick[i].day => market.closing.advanced

(* The jobs of a close, in order; a dividend job without dividends is skipped. *)
Queue(i) ==
  LET pc == tick[i].pc
      next == IF pc = "snapshot" THEN "pay" ELSE "dayEnd"
      ex == IF pc = "snapshot" THEN market.gameDay + 1 ELSE market.gameDay
  IN  /\ pc \in {"navs", "snapshot", "pay", "settle"}
      /\ IF pc \in {"snapshot", "pay"} /\ ex \notin ExDays
           THEN Go(i, next) /\ UNCHANGED chain
           ELSE /\ chain' = Append(chain, Job(pc, i, IF pc \in {"snapshot", "pay"} THEN ex
                                                     ELSE tick[i].day + 1))
                /\ Go(i, "wait")
      /\ UNCHANGED <<clock, market, saved, processing, account, pos, fund, snaps, late, lever,
                     ghost, used>>

(* endOfDay ends with the next game day; the record says so at once. *)
DayEnd(i) ==
  /\ tick[i].pc = "dayEnd"
  /\ market' = [market EXCEPT !.gameDay = @ + 1,
                  !.closing.advanced = market.closing.day = tick[i].day \/ @]
  /\ ghost' = [ghost EXCEPT !.endedOn[market.gameDay] = market.active]
  /\ Go(i, "persistAdvanced")
  /\ UNCHANGED <<clock, saved, processing, chain, account, pos, fund, snaps, late, lever, used>>

Drop(i) ==
  /\ tick[i].pc = "drop"
  /\ market' = [market EXCEPT !.closing = None, !.cal.closing = FALSE,
                              !.cal.closedOn = market.active]
  /\ Go(i, "persistClosed")
  /\ UNCHANGED <<clock, saved, processing, chain, account, pos, fund, snaps, late, lever, ghost, used>>

Fault(i) ==
  /\ Trouble /\ tick[i].pc \in Failing \ {"navs", "settle"}
  /\ Finish(i)
  /\ UNCHANGED <<clock, market, saved, chain, account, pos, fund, snaps, late, lever, ghost>>

-----------------------------------------------------------------------------
(* The settlement chain.  A job reads the rows it needs and then writes them;
   a job of a tick hands the tick its next step. *)

Head1 == chain[1]
Is(op, step) == chain # <<>> /\ Head1.op = op /\ Head1.step = step
AfterJob == CASE Head1.op = "navs" -> IF Advanced(Head1.by) THEN "settle" ELSE "snapshot"
              [] Head1.op = "snapshot" -> "pay"
              [] Head1.op = "pay" -> "dayEnd"
              [] Head1.op = "settle" -> "drop"
              [] Head1.op = "unlock" -> "init"
              [] OTHER -> IF tick[Head1.by].pc = "waitEnd" THEN "end" ELSE "match"
Done ==
  /\ chain' = Tail(chain)
  /\ tick' = IF Head1.by = 0 THEN tick
             ELSE [tick EXCEPT ![Head1.by].pc = AfterJob]
Step(step) == chain' = [chain EXCEPT ![1].step = step]
Untouched == UNCHANGED <<clock, market, saved, processing, late, lever, used>>

(* What each of the user's jobs asks of the rows it finds.  The share costs 2;
   with leverage half of it is borrowed. *)
Own(row) == IF row.lev > 1 THEN 1 ELSE 2
Bought(row) == [row EXCEPT !.cash = @ - Own(row), !.debt = @ + 2 - Own(row)]
Repaid(row) == IF row.lev > 1 /\ row.debt > 0 THEN 1 ELSE 0
Sold(row) == [row EXCEPT !.cash = @ + 2 - Repaid(row), !.debt = @ - Repaid(row)]

Accepts(job) ==
  LET row == account.cn
  IN  CASE job.op = "transfer" -> row.cash >= 2
        [] job.op = "subscribe" -> row.cash >= 1
        [] job.op = "redeem" -> fund.shares > 0
        [] job.op = "buy" -> pos.qty = 0 /\ row.cash >= Own(row)
        [] job.op = "sell" -> pos.qty > pos.fresh
        [] job.op = "reset" -> pos.qty = 0 /\ fund.shares = 0 /\ row.day > row.reset
        [] OTHER -> TRUE

Read ==
  /\ chain # <<>> /\ Head1.step = "queued" /\ Head1.op \in AllOps
  /\ IF Accepts(Head1)
       THEN /\ chain' = [chain EXCEPT ![1].step = "write", ![1].copy = account]
            /\ UNCHANGED tick
       ELSE Done
  /\ Untouched /\ UNCHANGED <<account, pos, fund, snaps, ghost>>

Transfer ==
  /\ Is("transfer", "write") /\ Done
  /\ account' = [cn |-> [Head1.copy.cn EXCEPT !.cash = @ - 2], us |-> Head1.copy.us + 1]
  /\ ghost' = [ghost EXCEPT !.cash = [cn |-> @.cn - 2, us |-> @.us + 1]]
  /\ Untouched /\ UNCHANGED <<pos, fund, snaps>>

Subscribe ==
  /\ Is("subscribe", "write") /\ Done
  /\ account' = [account EXCEPT !.cn = [Head1.copy.cn EXCEPT !.cash = @ - 1]]
  /\ fund' = [fund EXCEPT !.shares = @ + 1]
  /\ ghost' = [ghost EXCEPT !.cash.cn = @ - 1]
  /\ Untouched /\ UNCHANGED <<pos, snaps>>

Redeem ==
  /\ Is("redeem", "write") /\ Done
  /\ account' = [account EXCEPT !.cn = [Head1.copy.cn EXCEPT !.cash = @ + 1]]
  /\ fund' = [fund EXCEPT !.shares = @ - 1]
  /\ ghost' = [ghost EXCEPT !.cash.cn = @ + 1]
  /\ Untouched /\ UNCHANGED <<pos, snaps>>

Reset ==
  /\ Is("reset", "write") /\ Done
  /\ account' = [account EXCEPT !.cn = [cash |-> PresetCash, lev |-> 2, debt |-> 0,
                                          day |-> Head1.copy.cn.day,
                                          reset |-> Head1.copy.cn.day]]
  /\ ghost' = [ghost EXCEPT !.cash.cn = PresetCash]
  /\ Untouched /\ UNCHANGED <<pos, fund, snaps>>

(* A fill: settleFillInner on the share; today's shares are fresh. *)
Buy ==
  /\ Is("buy", "write") /\ Done
  /\ account' = [account EXCEPT !.cn = Bought(Head1.copy.cn)]
  /\ pos' = [qty |-> 1, fresh |-> 1, boughtDay |-> market.engineDay]
  /\ ghost' = [ghost EXCEPT !.boughtOn = Head1.day,
                 !.cash.cn = @ + Bought(Head1.copy.cn).cash - Head1.copy.cn.cash]
  /\ Untouched /\ UNCHANGED <<fund, snaps>>

Sell ==
  /\ Is("sell", "write") /\ Done
  /\ account' = [account EXCEPT !.cn = Sold(Head1.copy.cn)]
  /\ pos' = [pos EXCEPT !.qty = 0]
  /\ ghost' = [ghost EXCEPT !.soldFresh = @ \/ ghost.boughtOn = Head1.day,
                 !.cash.cn = @ + Sold(Head1.copy.cn).cash - Head1.copy.cn.cash]
  /\ Untouched /\ UNCHANGED <<fund, snaps>>

Unlocked(day) == IF pos.boughtDay >= day THEN pos ELSE [pos EXCEPT !.fresh = 0]

ResetBoughtToday ==
  /\ Is("unlock", "queued") /\ Done
  /\ pos' = Unlocked(Head1.day)
  /\ Untouched /\ UNCHANGED <<account, fund, snaps, ghost>>

(* settleNavs: rows and memory change together, unless the day is settled. *)
SettleNavs ==
  /\ Is("navs", "queued") /\ Done
  /\ fund' = IF Head1.day > fund.day THEN [fund EXCEPT !.nav = @ + 1, !.day = Head1.day] ELSE fund
  /\ Untouched /\ UNCHANGED <<account, pos, snaps, ghost>>

SnapshotHolders ==
  /\ Is("snapshot", "queued") /\ Done
  /\ LET snap == snaps[Head1.day]
     IN  snaps' = IF snap.there THEN [snaps EXCEPT ![Head1.day].qty = pos.qty]
                  ELSE IF pos.qty > 0
                  THEN [snaps EXCEPT ![Head1.day] = [there |-> TRUE, qty |-> pos.qty, paid |-> FALSE]]
                  ELSE snaps
  /\ Untouched /\ UNCHANGED <<account, pos, fund, ghost>>

BadPayRead ==
  /\ Is("pay", "queued")
  /\ IF snaps[Head1.day].there /\ ~snaps[Head1.day].paid /\ Head1.day < market.gameDay
       THEN /\ chain' = [chain EXCEPT ![1].step = IF snaps[Head1.day].qty > 0 THEN "pay" ELSE "mark",
                                      ![1].copy = account]
            /\ UNCHANGED tick
       ELSE Done
  /\ Untouched /\ UNCHANGED <<account, pos, fund, snaps, ghost>>

PayRead ==
  /\ Is("pay", "queued")
  /\ IF snaps[Head1.day].there /\ ~snaps[Head1.day].paid
       THEN /\ chain' = [chain EXCEPT ![1].step = IF snaps[Head1.day].qty > 0 THEN "pay" ELSE "mark",
                                      ![1].copy = account]
            /\ UNCHANGED tick
       ELSE Done
  /\ Untouched /\ UNCHANGED <<account, pos, fund, snaps, ghost>>

PayAccount ==
  /\ Is("pay", "pay") /\ Step("mark") /\ UNCHANGED tick
  /\ LET amount == snaps[Head1.day].qty
     IN  /\ account' = [account EXCEPT !.cn = [Head1.copy.cn EXCEPT !.cash = @ + amount]]
         /\ ghost' = [ghost EXCEPT !.cash.cn = @ + amount]
  /\ Untouched /\ UNCHANGED <<pos, fund, snaps>>

PayMark ==
  /\ Is("pay", "mark") /\ Done
  /\ snaps' = [snaps EXCEPT ![Head1.day].paid = TRUE]
  /\ Untouched /\ UNCHANGED <<account, pos, fund, ghost>>

(* settleAllAccounts: rows are read once; a row is saved by dailySettlement,
   if the day is new to it, and again for its tier. *)
BadSettleRead ==
  /\ Is("settle", "queued")
  /\ chain' = [chain EXCEPT ![1].step = "daily", ![1].copy = account]
  /\ UNCHANGED tick /\ Untouched /\ UNCHANGED <<account, pos, fund, snaps, ghost>>

SettleRead ==
  /\ Is("settle", "queued")
  /\ chain' = [chain EXCEPT ![1].step = IF account.cn.day >= Head1.day THEN "tier" ELSE "daily",
                            ![1].copy = account]
  /\ UNCHANGED tick /\ Untouched /\ UNCHANGED <<account, pos, fund, snaps, ghost>>

SettleDaily ==
  /\ Is("settle", "daily")
  /\ LET row == [Head1.copy.cn EXCEPT !.cash = @ - Interest(Head1.copy.cn), !.day = Head1.day]
     IN  /\ account' = [account EXCEPT !.cn = row]
         /\ chain' = [chain EXCEPT ![1].step = "tier", ![1].copy.cn = row]
         /\ ghost' = [ghost EXCEPT !.cash.cn = @ - Interest(Head1.copy.cn), !.settled[Head1.day] = @ + 1]
  /\ UNCHANGED tick /\ Untouched /\ UNCHANGED <<pos, fund, snaps>>

SettleTier ==
  /\ Is("settle", "tier") /\ Done
  /\ account' = [account EXCEPT !.cn = Head1.copy.cn]
  /\ Untouched /\ UNCHANGED <<pos, fund, snaps, ghost>>

JobFault ==
  /\ Trouble /\ chain # <<>> /\ Head1.step = "queued"
  /\ Head1.op \in Failing \cap {"navs", "settle"}
  /\ chain' = Tail(chain) /\ Finish(Head1.by)
  /\ UNCHANGED <<clock, market, saved, account, pos, fund, snaps, late, lever, ghost>>

Job1 == \/ Read \/ Transfer \/ Subscribe \/ Redeem \/ Reset \/ Buy \/ Sell \/ ResetBoughtToday
        \/ SettleNavs \/ SnapshotHolders \/ PayRead \/ PayAccount \/ PayMark
        \/ SettleRead \/ SettleDaily \/ SettleTier

-----------------------------------------------------------------------------
(* The user's requests.  Orders are filled in a session; a post-close order
   waits for the window after it.  setLeverage does not use the chain. *)

BadAsk(op) ==
  /\ op \in UserOps \ {"late", "leverage"} /\ used.calls < MaxCalls
  /\ op \in {"buy", "sell"} => InSession
  /\ used' = [used EXCEPT !.calls = @ + 1]
  /\ chain' = Append(chain, [Job(op, 0, clock.date) EXCEPT !.copy = account,
                            !.step = IF Accepts([op |-> op]) THEN "write" ELSE "queued"])
  /\ UNCHANGED <<clock, market, saved, tick, processing, account, pos, fund, snaps, late, lever, ghost>>

Ask(op) ==
  /\ op \in UserOps \ {"late", "leverage"} /\ used.calls < MaxCalls
  /\ op \in {"buy", "sell"} => InSession
  /\ used' = [used EXCEPT !.calls = @ + 1]
  /\ chain' = Append(chain, Job(op, 0, clock.date))
  /\ UNCHANGED <<clock, market, saved, tick, processing, account, pos, fund, snaps, late, lever, ghost>>

AskLate ==
  /\ "late" \in UserOps /\ used.calls < MaxCalls
  /\ clock.slot = PostClose /\ late = 0
  /\ late' = clock.date /\ used' = [used EXCEPT !.calls = @ + 1]
  /\ UNCHANGED <<clock, market, saved, tick, processing, chain, account, pos, fund, snaps, lever,
                 ghost>>

LeverageRead ==
  /\ "leverage" \in UserOps /\ used.calls < MaxCalls /\ lever.phase = "idle"
  /\ used' = [used EXCEPT !.calls = @ + 1]
  /\ lever' = [phase |-> "save", row |-> account.cn]
  /\ UNCHANGED <<clock, market, saved, tick, processing, chain, account, pos, fund, snaps, late, ghost>>

LeverageSave ==
  /\ lever.phase = "save" /\ (LoneLeverage => lever.row = account.cn)
  /\ \E lev \in {1, 2}: account' = [account EXCEPT !.cn = [lever.row EXCEPT !.lev = lev]]
  /\ lever' = [phase |-> "idle", row |-> NoCopy.cn]
  /\ UNCHANGED <<clock, market, saved, tick, processing, chain, pos, fund, snaps, late, ghost, used>>

-----------------------------------------------------------------------------
(* A tick that hangs in an await, the watchdog that starts another loop, and
   the late return of the hung tick. *)

Hang(i) ==
  /\ used.troubles < MaxTroubles /\ used.hangs < MaxHangs /\ tick[i].pc \in {"generate", "dayEnd"}
  /\ used' = [used EXCEPT !.troubles = @ + 1, !.hangs = @ + 1]
  /\ tick' = [tick EXCEPT ![i].pc = IF Slow THEN @ ELSE "hung",
                          ![used'.hangs + 1].pc = "watchdog"]
  /\ UNCHANGED <<clock, market, saved, processing, chain, account, pos, fund, snaps, late, lever, ghost>>

BadWatchdog(i) ==
  /\ tick[i].pc = "watchdog" /\ processing
  /\ processing' = processing
  /\ tick' = [tick EXCEPT ![i].pc = "idle"]
  /\ UNCHANGED <<clock, market, saved, chain, account, pos, fund, snaps, late, lever, ghost, used>>

Watchdog(i) ==
  /\ tick[i].pc = "watchdog" /\ processing
  /\ processing' = FALSE
  /\ tick' = [tick EXCEPT ![i].pc = "idle"]
  /\ UNCHANGED <<clock, market, saved, chain, account, pos, fund, snaps, late, lever, ghost, used>>

(* A crash ends every promise; onModuleInit restores what was saved. *)
Crash ==
  /\ Trouble
  /\ market' = Memory(saved.gameDay, saved.cal, saved.closing)
  /\ tick' = [i \in Loops |-> IF i = 1 THEN IdleTick ELSE [IdleTick EXCEPT !.pc = "off"]]
  /\ processing' = FALSE /\ chain' = <<>>
  /\ lever' = [phase |-> "idle", row |-> NoCopy.cn]
  /\ UNCHANGED <<clock, saved, account, pos, fund, snaps, late, ghost>>

Tick(i) == \/ Begin(i) \/ Open(i) \/ Auction(i) \/ EndTick(i) \/ Generate(i) \/ Unlock(i)
           \/ DayInit(i) \/ Match(i) \/ Persist(i) \/ Queue(i) \/ DayEnd(i) \/ Drop(i)

Next == \/ \E i \in Loops: Tick(i) \/ Fault(i) \/ Hang(i) \/ Watchdog(i)
        \/ Job1 \/ JobFault
        \/ \E op \in AllOps: Ask(op)
        \/ AskLate \/ LeverageRead \/ LeverageSave \/ TimePasses \/ Crash

Spec == Init /\ [][Next]_vars
Fairness ==
  /\ \A i \in Loops: WF_vars(Tick(i)) /\ WF_vars(Watchdog(i))
  /\ WF_vars(Job1) /\ WF_vars(TimePasses)
FairSpec == Spec /\ Fairness

-----------------------------------------------------------------------------
(* Properties. *)

(* Every variable keeps its type. *)
TypeOK ==
  /\ clock \in [date: 1..MaxDate, slot: 0..Night] /\ processing \in BOOLEAN
  /\ market \in [gameDay: Nat, engineDay: Nat, cal: Calendar, closing: Record, active: Dates,
                 closedOn: Dates, minute: Dates \X (0..Minutes), initDay: Nat,
                 auctionDay: Nat, afterDay: Nat]
  /\ saved \in [gameDay: Nat, cal: Calendar, closing: Record]
  /\ tick \in [Loops -> Loop] /\ chain \in Seq(JobRow)
  /\ account \in [cn: Row, us: Int] /\ lever \in [phase: {"idle", "save"}, row: Row]
  /\ pos \in [qty: 0..1, fresh: 0..1, boughtDay: Nat]
  /\ fund \in [shares: Nat, nav: Nat, day: Nat]
  /\ snaps \in [GameDays -> [there: BOOLEAN, qty: 0..1, paid: BOOLEAN]] /\ late \in Dates
  /\ ghost \in [cash: [cn: Int, us: Int], endedOn: [GameDays -> Dates],
                settled: [GameDays -> Nat], boughtOn: Nat, soldFresh: BOOLEAN]
  /\ used \in [calls: 0..MaxCalls, troubles: 0..MaxTroubles, hangs: 0..MaxHangs]

(* One date of the calendar ends one game day, however often its close was
   interrupted by a crash, a failed save or a hung tick, and repeated.  The
   daily settlement charges interest and moves an account to the next day
   exactly once for each game day that ended, and the net asset value of the
   fund compounds with it: never twice, whatever part of a close is repeated,
   and not later than the record of the close is dropped. *)
DaysEndOnce ==
  /\ \A g, h \in 1..(market.gameDay - 1): g # h => ghost.endedOn[g] # ghost.endedOn[h]
  /\ \A d \in GameDays: ghost.settled[d] <= 1
  /\ fund.nav \in {market.gameDay - 1, market.gameDay}
  /\ market.closing = None =>
       /\ \A d \in 2..market.gameDay: ghost.settled[d] = 1
       /\ fund.nav = market.gameDay - 1

(* Whoever held the share at the close before an ex day has the dividend when
   that day has ended; a crash in between delays it and loses nothing. *)
DividendsReachHolders ==
  \A d \in 1..(market.gameDay - 1): snaps[d].there => snaps[d].paid

(* No change of a balance that was acknowledged is lost to another writer of
   the same account row. *)
NoLostChange == ghost.cash = [cn |-> account.cn.cash, us |-> account.us]

(* T+1: a share bought on a date is not sold on that date. *)
NoSameDaySale == ~ghost.soldFresh

(* A post-close order does not live until the orders of a later date are matched. *)
LateOrdersDie ==
  \A i \in Loops: tick[i].pc = "match" /\ late # 0 => late >= tick[i].date

(* A date the runtime store knows to have traded is closed, whatever crashes,
   failed saves and hung ticks come in between. *)
KnownDateCloses ==
  \A d \in 1..MaxDate: saved.cal.date = d ~> saved.cal.closedOn >= d

=============================================================================

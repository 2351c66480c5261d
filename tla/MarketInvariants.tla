-------------------------- MODULE MarketInvariants --------------------------
(***************************************************************************)
(* The inductive invariants behind the theorems of MarketDay_proofs: what  *)
(* a job may hold of an account row, where a loop of the tick is in the    *)
(* close of a day, and how the calendar, in memory and in the store,       *)
(* agrees with the rows wherever a crash, a failed call or a hung tick     *)
(* interrupts a close.                                                     *)
(***************************************************************************)
EXTENDS MarketDay

(* Only the first job of the chain holds a copy of the row, and it is current. *)
Copies ==
  /\ \A k \in DOMAIN chain : k > 1 => chain[k].step = "queued"
  /\ chain # <<>> /\ chain[1].step \in {"write", "pay", "daily", "tier"} =>
       chain[1].copy.cn.cash = account.cn.cash /\ chain[1].copy.us = account.us
ExDividend ==
  \A k \in DOMAIN chain : chain[k].op \in {"snapshot", "pay"} => chain[k].day \in ExDays
Redeemable ==
  chain # <<>> /\ chain[1].op = "redeem" /\ chain[1].step = "write" => fund.shares > 0

IInv == TypeOK /\ Copies /\ ExDividend /\ Redeemable /\ NoLostChange

(* What the theorems about days assume: nobody writes the row while setLeverage
   holds it, a tick that the watchdog gave up does not come back, and the last
   save of a close succeeds. *)
Steady == LoneLeverage /\ ~Slow /\ "persistClosed" \notin Failing

-----------------------------------------------------------------------------
Live(i) == tick[i].pc \notin {"off", "hung"}
Waits == {"wait", "waitEnd", "waitMatch"}

(* One loop of the tick is running, the others have not started or hang for good;
   the chain holds at most one job of its own, for which it waits. *)
OneLoop ==
  /\ \A i, j \in Loops : Live(i) /\ Live(j) => i = j
  /\ \A i \in Loops : i > used.hangs + 1 => tick[i].pc = "off"
  /\ \A k \in DOMAIN chain : chain[k].by # 0 => tick[chain[k].by].pc \in Waits
  /\ \A k, l \in DOMAIN chain : chain[k].by # 0 /\ chain[l].by # 0 => k = l
  /\ \A k \in DOMAIN chain : chain[k].by = 0 => chain[k].op \in AllOps

(* The copy that the first job holds is of the day the row is settled for. *)
Holding == {"write", "pay", "daily", "tier"}
DayCopies ==
  chain # <<>> /\ chain[1].step \in Holding => chain[1].copy.cn.day = account.cn.day

-----------------------------------------------------------------------------
(* A record of the day whose close is not finished. *)
Closing(g, advanced) == [day |-> g, advanced |-> advanced]

(* The day an account is settled for when game day g begins. *)
SettledDay(g) == IF g = 1 THEN 0 ELSE g
Ending(g, closing) == g > 1 /\ closing = Closing(g - 1, TRUE)

(* A state of the calendar, in memory or saved, that agrees with the rows: the days
   before g ended on dates that are closed, but for the one whose close the record
   says is not finished. *)
Consistent(g, date, closedOn, closing) ==
  /\ g >= 1 /\ g - 1 <= MaxDate /\ closedOn <= date
  /\ closing \in {None, Closing(g, FALSE)} \/ Ending(g, closing)
  /\ closing # None => closedOn < date
  /\ \A d \in 1..(g - 1) : ghost.endedOn[d] <= date
  /\ \A d \in 1..(g - 1) : ghost.endedOn[d] <= closedOn \/ (Ending(g, closing) /\ d = g - 1)
  /\ fund.day = g \/ (fund.day = g + 1 /\ closing = Closing(g, FALSE))
  /\ \/ account.cn.day = SettledDay(g)
     \/ account.cn.day = SettledDay(g - 1) /\ Ending(g, closing)

InMemory == Consistent(market.gameDay, market.active, market.cal.closedOn, market.closing)
InStore == Consistent(saved.gameDay, saved.cal.date, saved.cal.closedOn, saved.closing)

DaysOrdered ==
  /\ \A d, e \in 1..(market.gameDay - 1) : d < e => ghost.endedOn[d] < ghost.endedOn[e]
  /\ \A d \in 1..(market.gameDay - 1) : d <= ghost.endedOn[d]
Charged ==
  /\ \A d \in GameDays : ghost.settled[d] = IF d \in 2..account.cn.day THEN 1 ELSE 0
  /\ fund.nav = fund.day - 1
DatesOrdered ==
  /\ saved.gameDay <= market.gameDay
  /\ market.active <= market.cal.date /\ market.cal.date <= clock.date
  /\ market.cal.closedOn < market.active => market.cal.date = market.active
  /\ saved.cal.date <= clock.date
Ledger == InMemory /\ InStore /\ DaysOrdered /\ Charged /\ DatesOrdered

(* The record of the close is in the store as it is in memory. *)
CloseSaved ==
  /\ saved.closing = market.closing /\ saved.gameDay = market.gameDay
  /\ saved.cal.date = market.active /\ saved.cal.closedOn = market.cal.closedOn
Fresh == market.closing = Closing(market.gameDay, FALSE) /\ CloseSaved
         /\ fund.day = market.gameDay + 1
Over == Ending(market.gameDay, market.closing)

(* Where a running loop is in the day, and in a close. *)
Morning == {"generate", "unlock", "init", "dayAuction", "waitMatch", "match"}
Stage(i) ==
  LET pc == tick[i].pc
  IN  /\ pc # "persistClosed" => market.closedOn = market.cal.closedOn
      /\ pc \notin {"idle", "watchdog"} =>
           market.active <= tick[i].date /\ tick[i].date <= clock.date
      /\ pc \in Morning \cup {"open", "auction", "waitEnd", "end"} => market.closing = None
      /\ pc = "open" /\ market.closedOn < market.active => market.active = tick[i].date
      /\ pc \in Morning => market.active = tick[i].date /\ market.closedOn < market.active
      /\ pc \in {"persistClosing", "navs"} =>
           market.closing # None /\ tick[i].day = market.closing.day
      /\ pc = "navs" => CloseSaved
      /\ pc \in {"snapshot", "pay", "dayEnd"} => Fresh /\ tick[i].day = market.gameDay
      /\ pc \in {"persistAdvanced", "settle", "drop"} =>
           Over /\ tick[i].day = market.gameDay - 1
      /\ pc \in {"settle", "drop"} => CloseSaved
      /\ pc \in {"drop", "persistClosed"} => account.cn.day = market.gameDay
      /\ pc = "persistClosed" => /\ market.closing = None /\ market.gameDay > 1
                                 /\ market.cal.closedOn = market.active
                                 /\ market.cal.date = market.active
Stages == \A i \in Loops : Live(i) => Stage(i)

(* The same for a loop that waits for its job. *)
JobAt(job) ==
  LET day == tick[job.by].day
  IN  /\ job.op \in AllOps <=> tick[job.by].pc # "wait"
      /\ job.op = "navs" => /\ market.closing # None /\ CloseSaved /\ day = market.closing.day
                            /\ job.day = day + 1
      /\ job.op \in {"snapshot", "pay"} => Fresh /\ day = market.gameDay
      /\ job.op = "snapshot" => job.day = market.gameDay + 1
      /\ job.op = "pay" => job.day = market.gameDay
      /\ job.op = "settle" => /\ Over /\ CloseSaved /\ day = market.gameDay - 1
                              /\ job.day = market.gameDay
      /\ job.op = "unlock" => /\ market.closing = None /\ market.closedOn < market.active
                              /\ market.active = tick[job.by].date
      /\ job.step = "daily" => account.cn.day < job.day
      /\ job.step = "tier" => account.cn.day = job.day
JobStage == \A k \in DOMAIN chain : chain[k].by # 0 => JobAt(chain[k])

DayInv == Ledger /\ Stages /\ JobStage

DInv == IInv /\ OneLoop /\ DayCopies /\ DayInv

-----------------------------------------------------------------------------
(* A dividend that is due has been paid; so has the one of the day that is about
   to end. *)
Dividends ==
  /\ \A d \in GameDays : snaps[d].there => d \in ExDays /\ (d < market.gameDay => snaps[d].paid)
  /\ \A i \in Loops : tick[i].pc = "dayEnd" /\ market.gameDay \in GameDays
                      /\ snaps[market.gameDay].there => snaps[market.gameDay].paid

-----------------------------------------------------------------------------
(* The first minute of a day is on its way to cancel the late order. *)
Begun == {"unlock", "init", "dayAuction", "waitMatch", "match"}
Opening ==
  \/ \E i \in Loops : tick[i].pc \in {"unlock", "init"}
  \/ \E k \in DOMAIN chain : chain[k].op = "unlock"

(* A day that was initialised, in memory or in the store, has no late order older
   than its date; a day that ended, or whose close began to end it, is not the
   one that was initialised last. *)
InitDays ==
  /\ market.cal.initDay <= market.initDay /\ market.initDay <= market.gameDay
  /\ saved.cal.initDay <= saved.gameDay
  /\ market.closing.advanced \/ market.cal.closedOn = market.active =>
       market.initDay < market.gameDay
  /\ saved.closing.advanced \/ saved.cal.closedOn = saved.cal.date =>
       saved.cal.initDay < saved.gameDay
InitPlaces ==
  /\ \A i \in Loops : tick[i].pc \in Begun => market.initDay = market.gameDay
  /\ \A k \in DOMAIN chain : chain[k].op = "unlock" => market.initDay = market.gameDay
LateOrder ==
  /\ saved.cal.initDay = saved.gameDay /\ late # 0 => late >= saved.cal.date
  /\ market.initDay = market.gameDay /\ late # 0 => Opening \/ late >= market.active
LateInv == InitDays /\ InitPlaces /\ LateOrder

=============================================================================

--------------------------- MODULE MarketDay_proofs ---------------------------
(***************************************************************************)
(* Proofs about MarketDay, for any number of dates, minutes, requests,     *)
(* crashes, failed calls and hung ticks.                                   *)
(*                                                                         *)
(* The settlement chain is what keeps balances: only its first job holds a *)
(* copy of the account row, and what the copy says of the cash is what the *)
(* row says (Copies), so writing it back loses nothing.                    *)
(*                                                                         *)
(* A day ends once because one loop runs at a time (OneLoop), because the  *)
(* calendar in memory and the one in the store each agree with the rows    *)
(* (Consistent), and because every step of a close finds the state that    *)
(* the step before it left (Stage, JobAt).                                 *)
(***************************************************************************)
EXTENDS MarketInvariants, TLAPS

-----------------------------------------------------------------------------
Market == [gameDay: Nat, engineDay: Nat, cal: Calendar, closing: Record, active: Dates,
           closedOn: Dates, minute: Dates \X (0..Minutes), initDay: Nat,
           auctionDay: Nat, afterDay: Nat]

Ghost == [cash: [cn: Int, us: Int], endedOn: [GameDays -> Dates],
          settled: [GameDays -> Nat], boughtOn: Nat, soldFresh: BOOLEAN]

LEMMA Sizes ==
  /\ MaxDate \in Nat \ {0} /\ Minutes \in Nat \ {0} /\ MaxCalls \in Nat /\ MaxTroubles \in Nat
  /\ MaxHangs \in Nat /\ ExDays \subseteq GameDays /\ GameDays \subseteq Nat
  /\ PostClose \in Nat /\ Night \in Nat /\ Minutes < PostClose /\ PostClose < Night
  /\ 1 \in Loops /\ 0 \in Dates /\ Dates \subseteq Nat /\ Loops \subseteq Nat \ {0}
BY MarketDayAssumption DEF MarketDayAssumption, GameDays, Dates, PostClose, Night, Loops

LEMMA Literals ==
  /\ IdleTick \in Loop /\ None \in Record /\ EmptyCalendar \in Calendar
  /\ NoCopy \in [cn: Row, us: Int] /\ NoCopy.cn \in Row
<1>1. IdleTick \in Loop
  BY Sizes DEF IdleTick, Loop, Pcs
<1>2. None \in Record /\ NoCopy \in [cn: Row, us: Int] /\ NoCopy.cn \in Row
  BY DEF None, Record, NoCopy, Row
<1>3. EmptyCalendar \in Calendar
  BY Sizes DEF EmptyCalendar, Calendar
<1> QED BY <1>1, <1>2, <1>3

LEMMA MemoryType ==
  ASSUME NEW g \in Nat, NEW cal \in Calendar, NEW closing \in Record
  PROVE  Memory(g, cal, closing) \in Market
BY Sizes DEF Memory, Calendar, Market

LEMMA JobType ==
  ASSUME NEW op \in AllOps \cup {"navs", "snapshot", "pay", "settle", "unlock"},
         NEW by \in Loops \cup {0}, NEW day \in Nat
  PROVE  Job(op, by, day) \in JobRow /\ Job(op, by, day).step = "queued"
         /\ Job(op, by, day).op = op /\ Job(op, by, day).day = day
BY Literals DEF Job, JobRow

LEMMA Types ==
  ASSUME TypeOK
  PROVE  /\ market \in Market /\ saved \in [gameDay: Nat, cal: Calendar, closing: Record]
         /\ clock.date \in Dates /\ clock.slot \in 0..Night /\ processing \in BOOLEAN
         /\ tick \in [Loops -> Loop] /\ chain \in Seq(JobRow) /\ late \in Dates
         /\ account \in [cn: Row, us: Int] /\ lever \in [phase: {"idle", "save"}, row: Row]
         /\ pos \in [qty: 0..1, fresh: 0..1, boughtDay: Nat]
         /\ fund \in [shares: Nat, nav: Nat, day: Nat]
         /\ snaps \in [GameDays -> [there: BOOLEAN, qty: 0..1, paid: BOOLEAN]]
         /\ ghost \in Ghost
<1>1. clock \in [date: 1..MaxDate, slot: 0..Night]
  BY DEF TypeOK
<1>2. clock.date \in Dates /\ clock.slot \in 0..Night
  BY <1>1, Sizes DEF Dates
<1> QED BY <1>2 DEF TypeOK, Market, Ghost

LEMMA Moves ==
  ASSUME TypeOK, NEW i \in Loops, NEW pc \in Pcs, Go(i, pc)
  PROVE  tick' \in [Loops -> Loop]
<1>1. tick \in [Loops -> Loop]
  BY Types
<1>2. \A r \in Loop : [r EXCEPT !.pc = pc] \in Loop
  BY DEF Loop
<1> QED BY <1>1, <1>2 DEF Go

LEMMA Finishes ==
  ASSUME TypeOK, NEW i \in Loops, Finish(i)
  PROVE  tick' \in [Loops -> Loop] /\ processing' \in BOOLEAN
BY Literals DEF TypeOK, Finish

LEMMA T_Begin ==
  ASSUME TypeOK, NEW i \in Loops, Begin(i)
  PROVE  tick' \in [Loops -> Loop] /\ market' \in Market
<1>0. /\ market \in Market /\ clock.date \in Dates /\ clock.slot \in 0..Night
      /\ tick \in [Loops -> Loop]
  BY Types
<1>1. CASE StartClose /\ tick' = [tick EXCEPT ![i] = [pc |-> "persistClosing", date |-> clock.date,
                                            slot |-> clock.slot, day |-> market'.closing.day]]
  <2>1. PICK closing \in Record :
          market' = [market EXCEPT !.closing = closing, !.cal.closing = TRUE]
    BY <1>0, <1>1 DEF StartClose, Record, Market
  <2>2. [market.cal EXCEPT !.closing = TRUE] \in Calendar
    BY <1>0 DEF Market, Calendar
  <2>3. market' \in Market /\ market'.closing \in Record
    BY <1>0, <2>1, <2>2 DEF Market
  <2>4. [pc |-> "persistClosing", date |-> clock.date,
         slot |-> clock.slot, day |-> market'.closing.day] \in Loop
    BY <1>0, <2>3 DEF Loop, Pcs, Record
  <2> QED BY <1>0, <1>1, <2>3, <2>4
<1>2. CASE UNCHANGED market /\ tick' = [tick EXCEPT ![i] = [pc |-> "open", date |-> clock.date,
                                            slot |-> clock.slot, day |-> 0]]
  <2>1. [pc |-> "open", date |-> clock.date, slot |-> clock.slot, day |-> 0] \in Loop
    BY <1>0 DEF Loop, Pcs
  <2> QED BY <1>0, <1>2, <2>1
<1> QED BY <1>1, <1>2 DEF Begin

LEMMA T_Open ==
  ASSUME TypeOK, NEW i \in Loops, Open(i)
  PROVE  market' \in Market /\ tick' \in [Loops -> Loop] /\ processing' \in BOOLEAN
         /\ late' \in Dates
<1>0. market \in Market /\ tick[i] \in Loop /\ late \in Dates /\ processing \in BOOLEAN
  BY Types
<1> DEFINE after == IF clock.slot = PostClose THEN market.gameDay
                    ELSE IF Cancelled(clock.date) THEN 0 ELSE market.afterDay
           auction == clock.slot = 0 /\ market.auctionDay # market.gameDay
           key == <<tick[i].date, tick[i].slot>>
           generates == /\ InSession /\ tick[i].slot \in 1..Minutes
                        /\ market.closedOn # tick[i].date /\ market.minute # key
           bound == IF clock.slot # PostClose /\ (tick[i].slot = 0 \/ generates)
                    THEN tick[i].date ELSE market.cal.date
<1>1. market' = [market EXCEPT !.afterDay = after, !.cal.date = bound,
                      !.auctionDay = IF auction THEN market.gameDay ELSE @,
                      !.minute = IF generates THEN key ELSE @,
                      !.active = IF generates THEN tick[i].date ELSE @,
                      !.engineDay = IF generates THEN market.gameDay ELSE @]
  BY DEF Open
<1>2. /\ after \in Nat /\ bound \in Dates
      /\ generates => key \in Dates \X (0..Minutes)
  <2>1. after \in Nat
    BY <1>0 DEF Market
  <2>2. bound \in Dates
    BY <1>0 DEF Market, Loop, Calendar
  <2>3. generates => key \in Dates \X (0..Minutes)
    BY <1>0 DEF Loop
  <2> QED BY <2>1, <2>2, <2>3
<1>3. market' \in Market
  <2> HIDE DEF after, auction, key, generates, bound
  <2>1. [market.cal EXCEPT !.date = bound] \in Calendar
    BY <1>0, <1>2 DEF Market, Calendar
  <2>2. tick[i].date \in Dates
    BY <1>0 DEF Loop
  <2> QED BY <1>0, <1>1, <1>2, <2>1, <2>2 DEF Market
<1>4. tick' \in [Loops -> Loop] /\ processing' \in BOOLEAN
  <2>1. "generate" \in Pcs /\ "auction" \in Pcs
    BY DEF Pcs
  <2> QED BY <1>0, <2>1, Moves, Finishes DEF Open
<1>5. late' \in Dates
  BY <1>0, Sizes DEF Open
<1> QED BY <1>3, <1>4, <1>5

LEMMA T_Calendar ==
  ASSUME TypeOK, NEW i \in Loops, Match(i) \/ Drop(i) \/ DayEnd(i)
  PROVE  market' \in Market /\ saved' \in [gameDay: Nat, cal: Calendar, closing: Record]
<1>0. market \in Market /\ saved \in [gameDay: Nat, cal: Calendar, closing: Record]
  BY Types
<1>1. CASE Match(i)
  <2> DEFINE cal == [market.cal EXCEPT !.minute = market.minute, !.initDay = market.initDay,
                                       !.auctionDay = market.auctionDay]
  <2>1. cal \in Calendar
    BY <1>0 DEF Market, Calendar
  <2>2. /\ market' = [market EXCEPT !.cal = cal]
        /\ \/ saved' = [gameDay |-> market.gameDay, cal |-> cal, closing |-> market.closing]
           \/ saved' = saved
    BY <1>1 DEF Match
  <2> HIDE DEF cal
  <2> QED BY <1>0, <2>1, <2>2 DEF Market
<1>2. CASE Drop(i)
  <2>1. [market.cal EXCEPT !.closing = FALSE, !.closedOn = market.active] \in Calendar
    BY <1>0 DEF Market, Calendar
  <2> QED BY <1>0, <1>2, <2>1, Literals DEF Drop, Market
<1>3. CASE DayEnd(i)
  <2> DEFINE b == (market.closing.day = tick[i].day) \/ market.closing.advanced
  <2>1. [market.closing EXCEPT !.advanced = b] \in Record
    BY <1>0 DEF Market, Record
  <2>2. market' = [market EXCEPT !.gameDay = market.gameDay + 1,
                                 !.closing = [market.closing EXCEPT !.advanced = b]]
    BY <1>0, <1>3 DEF DayEnd, Market, Record
  <2>3. PICK closing \in Record :
          market' = [market EXCEPT !.gameDay = market.gameDay + 1, !.closing = closing]
    BY <2>1, <2>2
  <2>4. market.gameDay + 1 \in Nat
    BY <1>0 DEF Market
  <2>5. market' \in Market
    BY <1>0, <2>3, <2>4 DEF Market
  <2> QED BY <1>0, <1>3, <2>5 DEF DayEnd
<1> QED BY <1>1, <1>2, <1>3

-----------------------------------------------------------------------------
(* The steps of a tick. *)

LEMMA T_Tick ==
  ASSUME TypeOK, NEW i \in Loops, Tick(i) \/ Fault(i)
  PROVE  /\ tick' \in [Loops -> Loop] /\ market' \in Market
         /\ saved' \in [gameDay: Nat, cal: Calendar, closing: Record]
         /\ processing' \in BOOLEAN /\ late' \in Dates
<1>0. /\ market \in Market /\ saved \in [gameDay: Nat, cal: Calendar, closing: Record]
      /\ tick \in [Loops -> Loop] /\ processing \in BOOLEAN /\ late \in Dates
  BY Types
<1>1. CASE Begin(i)
  BY <1>0, <1>1, T_Begin DEF Begin
<1>2. CASE Open(i)
  BY <1>0, <1>2, T_Open DEF Open
<1>3. CASE Auction(i)
  <2>1. "end" \in Pcs /\ "match" \in Pcs /\ "waitEnd" \in Pcs /\ "waitMatch" \in Pcs
    BY DEF Pcs
  <2>2. \E pc \in Pcs : Go(i, pc)
    BY <1>3, <2>1 DEF Auction, Go
  <2> QED BY <1>0, <1>3, <2>2, Moves DEF Auction
<1>4. CASE EndTick(i)
  BY <1>0, <1>4, Finishes DEF EndTick
<1>5. CASE Generate(i)
  <2>1. \E pc \in Pcs : Go(i, pc)
    BY <1>5 DEF Generate, Pcs
  <2>2. market' \in Market
    BY <1>0, <1>5 DEF Generate, Market
  <2> QED BY <1>0, <1>5, <2>1, <2>2, Moves DEF Generate
<1>6. CASE Unlock(i)
  <2>1. "wait" \in Pcs
    BY DEF Pcs
  <2> QED BY <1>0, <1>6, <2>1, Moves DEF Unlock
<1>7. CASE DayInit(i)
  <2>1. \E pc \in Pcs : Go(i, pc)
    BY <1>7 DEF DayInit, Pcs
  <2>2. market' \in Market
    BY <1>0, <1>7 DEF DayInit, Market
  <2> QED BY <1>0, <1>7, <2>1, <2>2, Moves, Sizes DEF DayInit
<1>8. CASE Match(i)
  BY <1>0, <1>8, T_Calendar, Finishes DEF Match
<1>9. CASE Persist(i)
  <2>1. "navs" \in Pcs /\ "settle" \in Pcs /\ "open" \in Pcs
    BY DEF Pcs
  <2>2. \E pc \in Pcs : Go(i, pc)
    BY <1>9, <2>1 DEF Persist
  <2>3. market' \in Market
    BY <1>0, <1>9 DEF Persist, Market
  <2>4. saved' \in [gameDay: Nat, cal: Calendar, closing: Record]
    BY <1>0, <1>9 DEF Persist, Market
  <2> QED BY <1>0, <1>9, <2>2, <2>3, <2>4, Moves DEF Persist
<1>10. CASE Queue(i)
  <2>1. \E pc \in Pcs : Go(i, pc)
    BY <1>10 DEF Queue, Pcs
  <2> QED BY <1>0, <1>10, <2>1, Moves DEF Queue
<1>11. CASE DayEnd(i)
  <2>1. "persistAdvanced" \in Pcs
    BY DEF Pcs
  <2> QED BY <1>0, <1>11, <2>1, T_Calendar, Moves DEF DayEnd
<1>12. CASE Drop(i)
  <2>1. "persistClosed" \in Pcs
    BY DEF Pcs
  <2> QED BY <1>0, <1>12, <2>1, T_Calendar, Moves DEF Drop
<1>13. CASE Fault(i)
  BY <1>0, <1>13, Finishes DEF Fault
<1> QED BY <1>1, <1>2, <1>3, <1>4, <1>5, <1>6, <1>7, <1>8, <1>9, <1>10, <1>11, <1>12, <1>13
    DEF Tick

(* What a tick appends to the chain: a queued job, at the end. *)
Queued(job) == job \in JobRow /\ job.step = "queued"
               /\ (job.op \in {"snapshot", "pay"} => job.day \in ExDays)
Appended == chain' = chain \/ \E job : Queued(job) /\ chain' = Append(chain, job)

LEMMA C_Tick ==
  ASSUME TypeOK, NEW i \in Loops, Tick(i) \/ Fault(i)
  PROVE  Appended
<1>0. /\ market \in Market /\ tick[i] \in Loop /\ clock.date \in Nat
      /\ i \in Loops \cup {0}
  BY Types, Sizes
<1>1. CASE Auction(i)
  <2>1. Queued(Job("buy", i, clock.date))
    BY <1>0, JobType DEF AllOps, Queued
  <2> QED BY <1>1, <2>1 DEF Auction, Appended
<1>2. CASE Unlock(i)
  <2>1. Queued(Job("unlock", i, market.gameDay))
    BY <1>0, JobType DEF Queued, Market
  <2> QED BY <1>2, <2>1 DEF Unlock, Appended
<1>3. CASE Queue(i)
  <2> DEFINE pc == tick[i].pc
             ex == IF pc = "snapshot" THEN market.gameDay + 1 ELSE market.gameDay
             day == IF pc \in {"snapshot", "pay"} THEN ex ELSE tick[i].day + 1
  <2>1. /\ pc \in {"navs", "snapshot", "pay", "settle"} /\ day \in Nat
        /\ \/ chain' = chain
           \/ /\ chain' = Append(chain, Job(pc, i, day))
              /\ pc \in {"snapshot", "pay"} => day \in ExDays
    <3>1. pc \in {"navs", "snapshot", "pay", "settle"}
      BY <1>3 DEF Queue
    <3>2. day \in Nat
      BY <1>0 DEF Market, Loop
    <3>3. IF pc \in {"snapshot", "pay"} /\ ex \notin ExDays THEN chain' = chain
          ELSE chain' = Append(chain, Job(pc, i, day))
      BY <1>3 DEF Queue
    <3>4. pc \in {"snapshot", "pay"} => day = ex
      OBVIOUS
    <3> HIDE DEF pc, ex, day
    <3> QED BY <3>1, <3>2, <3>3, <3>4
  <2> HIDE DEF pc, ex, day
  <2>2. /\ Job(pc, i, day) \in JobRow /\ Job(pc, i, day).step = "queued"
        /\ Job(pc, i, day).op = pc /\ Job(pc, i, day).day = day
    <3>1. pc \in AllOps \cup {"navs", "snapshot", "pay", "settle", "unlock"}
      BY <2>1
    <3> QED BY <1>0, <2>1, <3>1, JobType
  <2> QED BY <2>1, <2>2 DEF Appended, Queued
<1>4. CASE \/ Begin(i) \/ Open(i) \/ EndTick(i) \/ Generate(i) \/ DayInit(i) \/ Match(i)
           \/ Persist(i) \/ DayEnd(i) \/ Drop(i) \/ Fault(i)
  BY <1>4 DEF Begin, Open, EndTick, Generate, DayInit, Match, Persist, DayEnd, Drop, Fault,
              Appended
<1> QED BY <1>1, <1>2, <1>3, <1>4 DEF Tick

-----------------------------------------------------------------------------
(* The chain: appended to at its end, popped at its head. *)

Orderly == /\ chain \in Seq(JobRow) /\ Copies /\ ExDividend /\ Redeemable

LEMMA HeadOf ==
  ASSUME TypeOK, chain # <<>>
  PROVE  /\ 1 \in DOMAIN chain /\ Head1 \in JobRow
         /\ Head1.by \in Loops \cup {0} /\ Head1.day \in Nat
         /\ Head1.copy \in [cn: Row, us: Int]
<1>1. chain \in Seq(JobRow)
  BY Types
<1>2. 1 \in DOMAIN chain /\ Head1 \in JobRow
  BY <1>1 DEF Head1
<1> QED BY <1>2 DEF JobRow

LEMMA Appending ==
  ASSUME TypeOK, Copies, ExDividend, Redeemable, Appended, UNCHANGED <<account, fund>>
  PROVE  Orderly'
<1>1. chain \in Seq(JobRow)
  BY Types
<1>2. CASE chain' = chain
  BY <1>1, <1>2 DEF Orderly, Copies, ExDividend, Redeemable
<1>3. ASSUME NEW job, Queued(job), chain' = Append(chain, job)
      PROVE  Orderly'
  <2>1. /\ chain' \in Seq(JobRow) /\ DOMAIN chain' = 1..(Len(chain) + 1) /\ Len(chain) \in Nat
        /\ DOMAIN chain = 1..Len(chain)
        /\ \A k \in DOMAIN chain : chain'[k] = chain[k]
        /\ chain'[Len(chain) + 1] = job
    BY <1>1, <1>3 DEF Queued
  <2>2. chain # <<>> => 1 \in DOMAIN chain
    BY <1>1
  <2>3. chain = <<>> => Len(chain) = 0
    BY <1>1
  <2>4. (chain'[1] = chain[1] /\ chain # <<>>) \/ chain'[1].step = "queued"
    BY <1>3, <2>1, <2>2, <2>3 DEF Queued
  <2>5. Copies'
    BY <1>3, <2>1, <2>4 DEF Copies, Queued
  <2>6. ExDividend'
    BY <1>3, <2>1 DEF ExDividend, Queued
  <2>7. Redeemable'
    BY <2>4 DEF Redeemable
  <2> QED BY <2>1, <2>5, <2>6, <2>7 DEF Orderly
<1> QED BY <1>2, <1>3 DEF Appended

LEMMA Popping ==
  ASSUME TypeOK, Copies, ExDividend, chain # <<>>, chain' = Tail(chain)
  PROVE  Orderly'
<1>1. chain \in Seq(JobRow)
  BY Types
<1>2. /\ chain' \in Seq(JobRow) /\ Len(chain) \in Nat /\ Len(chain) > 0
      /\ DOMAIN chain = 1..Len(chain) /\ DOMAIN chain' = 1..(Len(chain) - 1)
      /\ \A k \in DOMAIN chain' : k + 1 \in DOMAIN chain /\ chain'[k] = chain[k + 1]
  BY <1>1
<1>3. \A k \in DOMAIN chain' : chain'[k].step = "queued"
  BY <1>2 DEF Copies
<1>4. chain' # <<>> => 1 \in DOMAIN chain'
  BY <1>2
<1>5. Copies' /\ Redeemable'
  BY <1>3, <1>4 DEF Copies, Redeemable
<1>6. ExDividend'
  BY <1>2 DEF ExDividend
<1> QED BY <1>2, <1>5, <1>6 DEF Orderly

LEMMA Doing ==
  ASSUME TypeOK, Copies, ExDividend, chain # <<>>, Done
  PROVE  Orderly' /\ tick' \in [Loops -> Loop]
<1>1. Orderly'
  BY Popping DEF Done
<1>2. tick \in [Loops -> Loop] /\ Head1.by \in Loops \cup {0} /\ Loops \subseteq Nat \ {0}
  BY Types, HeadOf, Sizes
<1>3. AfterJob \in Pcs
  BY DEF AfterJob, Pcs
<1>4. CASE Head1.by = 0
  <2>1. tick' = tick
    BY <1>4 DEF Done
  <2> QED BY <1>1, <1>2, <2>1
<1>5. CASE Head1.by # 0
  <2>1. PICK i \in Loops, pc \in Pcs : Go(i, pc)
    BY <1>2, <1>3, <1>5 DEF Done, Go
  <2>2. tick' \in [Loops -> Loop]
    BY <2>1, Moves
  <2> QED BY <1>1, <2>2
<1> QED BY <1>1, <1>4, <1>5

LEMMA SeqOf ==
  ASSUME NEW S, NEW n \in Nat, NEW f \in [1..n -> S]
  PROVE  f \in Seq(S)
OBVIOUS

(* The head of the chain goes on, with a copy of its own. *)
LEMMA Stepping ==
  ASSUME TypeOK, Copies, ExDividend, chain # <<>>, NEW job \in JobRow,
         chain' = [chain EXCEPT ![1] = job],
         job.op = Head1.op /\ job.day = Head1.day,
         job.step \in {"write", "pay", "daily", "tier"} =>
           job.copy.cn.cash = account'.cn.cash /\ job.copy.us = account'.us,
         job.op = "redeem" /\ job.step = "write" => fund'.shares > 0
  PROVE  Orderly'
<1>1. chain \in Seq(JobRow)
  BY Types
<1>2. /\ chain' \in Seq(JobRow) /\ DOMAIN chain' = DOMAIN chain /\ chain'[1] = job
      /\ \A k \in DOMAIN chain : k # 1 => chain'[k] = chain[k]
      /\ 1 \in DOMAIN chain
  <2>1. DOMAIN chain = 1..Len(chain) /\ Len(chain) \in Nat /\ 1 \in DOMAIN chain
    BY <1>1
  <2>2. chain' \in [1..Len(chain) -> JobRow]
    BY <1>1, <2>1
  <2>3. chain' \in Seq(JobRow)
    BY <2>1, <2>2, SeqOf
  <2>4. DOMAIN chain' = DOMAIN chain
    BY <1>1, <2>1
  <2> QED BY <1>1, <2>1, <2>3, <2>4
<1>3. Copies'
  BY <1>2 DEF Copies
<1>4. ExDividend'
  BY <1>2 DEF ExDividend, Head1
<1>5. Redeemable'
  BY <1>2 DEF Redeemable
<1> QED BY <1>2, <1>3, <1>4, <1>5 DEF Orderly

-----------------------------------------------------------------------------
(* The jobs.  Kept is what every job has to show. *)

Kept ==
  /\ Orderly /\ tick \in [Loops -> Loop]
  /\ account \in [cn: Row, us: Int] /\ pos \in [qty: 0..1, fresh: 0..1, boughtDay: Nat]
  /\ fund \in [shares: Nat, nav: Nat, day: Nat] /\ ghost \in Ghost
  /\ snaps \in [GameDays -> [there: BOOLEAN, qty: 0..1, paid: BOOLEAN]]
  /\ NoLostChange

Balanced ==
  /\ account \in [cn: Row, us: Int] /\ ghost \in Ghost
  /\ ghost.cash.cn = account.cn.cash /\ ghost.cash.us = account.us

LEMMA Balance ==
  ASSUME TypeOK
  PROVE  NoLostChange => Balanced
<1>1. account \in [cn: Row, us: Int] /\ ghost \in Ghost
  BY Types
<1> QED BY <1>1 DEF NoLostChange, Balanced

LEMMA BalancedKept ==
  ASSUME Balanced'
  PROVE  NoLostChange'
BY DEF Balanced, NoLostChange, Ghost

LEMMA J_Read ==
  ASSUME IInv, Read
  PROVE  Kept'
<1>0. /\ chain # <<>> /\ Head1 \in JobRow /\ UNCHANGED <<account, pos, fund, snaps, ghost>>
      /\ account \in [cn: Row, us: Int] /\ tick \in [Loops -> Loop]
  BY HeadOf, Types DEF Read, IInv
<1>1. CASE Done
  <2>1. Orderly' /\ tick' \in [Loops -> Loop]
    BY <1>0, <1>1, Doing DEF IInv
  <2> QED BY <1>0, <2>1, Types DEF Kept, IInv, NoLostChange
<1>2. CASE Accepts(Head1) /\ UNCHANGED tick
           /\ chain' = [chain EXCEPT ![1].step = "write", ![1].copy = account]
  <2> DEFINE job == [Head1 EXCEPT !.step = "write", !.copy = account]
  <2>1. job \in JobRow /\ job.op = Head1.op /\ job.day = Head1.day /\ job.copy = account
    BY <1>0 DEF JobRow
  <2>2. chain' = [chain EXCEPT ![1] = job]
    BY <1>2 DEF Head1
  <2>3. job.op = "redeem" => fund.shares > 0
    BY <1>2, <2>1 DEF Accepts
  <2> HIDE DEF job
  <2>4. Orderly'
    BY <1>0, <2>1, <2>2, <2>3, Stepping DEF IInv
  <2> QED BY <1>0, <1>2, <2>4, Types DEF Kept, IInv, NoLostChange
<1> QED BY <1>1, <1>2 DEF Read

LEMMA NewCash ==
  ASSUME NEW row \in Row, NEW c \in Int, NEW new, new = [row EXCEPT !.cash = c]
  PROVE  new \in Row /\ new.cash = c
BY DEF Row

LEMMA NewDebt ==
  ASSUME NEW row \in Row, NEW c \in Int, NEW d \in Int,
         NEW new, new = [row EXCEPT !.cash = c, !.debt = d]
  PROVE  new \in Row /\ new.cash = c
BY DEF Row

LEMMA Shares ==
  ASSUME NEW row \in Row
  PROVE  /\ Own(row) \in Int /\ Repaid(row) \in Int
         /\ Bought(row) \in Row /\ Bought(row).cash = row.cash - Own(row)
         /\ Sold(row) \in Row /\ Sold(row).cash = row.cash + 2 - Repaid(row)
<1>1. Own(row) \in Int /\ Repaid(row) \in Int
  BY DEF Own, Repaid
<1>2. row.cash \in Int /\ row.debt \in Int
  BY DEF Row
<1>3. Bought(row) = [row EXCEPT !.cash = row.cash - Own(row), !.debt = row.debt + 2 - Own(row)]
  BY DEF Bought
<1>4. Sold(row) = [row EXCEPT !.cash = row.cash + 2 - Repaid(row), !.debt = row.debt - Repaid(row)]
  BY DEF Sold
<1>5. /\ row.cash - Own(row) \in Int /\ row.debt + 2 - Own(row) \in Int
      /\ row.cash + 2 - Repaid(row) \in Int /\ row.debt - Repaid(row) \in Int
  BY <1>1, <1>2
<1>6. Bought(row) \in Row /\ Bought(row).cash = row.cash - Own(row)
  <2>1. PICK c \in Int, d \in Int : c = row.cash - Own(row) /\ d = row.debt + 2 - Own(row)
    BY <1>5
  <2>2. Bought(row) = [row EXCEPT !.cash = c, !.debt = d]
    BY <1>3, <2>1
  <2> QED BY <2>1, <2>2 DEF Row
<1>7. Sold(row) \in Row /\ Sold(row).cash = row.cash + 2 - Repaid(row)
  <2>1. PICK c \in Int, d \in Int :
          c = row.cash + 2 - Repaid(row) /\ d = row.debt - Repaid(row)
    BY <1>5
  <2>2. Sold(row) = [row EXCEPT !.cash = c, !.debt = d]
    BY <1>4, <2>1
  <2> QED BY <2>1, <2>2 DEF Row
<1> QED BY <1>1, <1>6, <1>7

LEMMA J_Write ==
  ASSUME IInv, Transfer \/ Subscribe \/ Redeem \/ Reset \/ Buy \/ Sell
  PROVE  Kept'
<1>0. /\ chain # <<>> /\ Head1.step = "write" /\ Done /\ Head1.day \in Nat
      /\ Head1.copy.cn \in Row /\ Head1.copy.us \in Int
      /\ Head1.copy.cn.cash = account.cn.cash /\ Head1.copy.us = account.us
      /\ Head1.op = "redeem" => fund.shares > 0
  <2>1. chain # <<>> /\ Head1.step = "write" /\ Done
    BY DEF Transfer, Subscribe, Redeem, Reset, Buy, Sell, Is
  <2>2. Head1.copy \in [cn: Row, us: Int] /\ Head1.day \in Nat
    BY <2>1, HeadOf DEF IInv
  <2> QED BY <2>1, <2>2 DEF IInv, Copies, Redeemable, Head1
<1>1. Orderly' /\ tick' \in [Loops -> Loop]
  BY <1>0, Doing DEF IInv
<1>2. Balanced /\ account \in [cn: Row, us: Int] /\ ghost \in Ghost
      /\ pos \in [qty: 0..1, fresh: 0..1, boughtDay: Nat]
      /\ fund \in [shares: Nat, nav: Nat, day: Nat]
      /\ snaps \in [GameDays -> [there: BOOLEAN, qty: 0..1, paid: BOOLEAN]]
  BY Balance, Types DEF IInv
<1>3. market.engineDay \in Nat
  BY Types DEF IInv, Market
<1> DEFINE row == Head1.copy.cn
<1>r. row.cash \in Int /\ row.debt \in Int /\ row \in Row
  BY <1>0 DEF Row
<1>4. CASE Transfer
  <2>1. account' = [cn |-> [row EXCEPT !.cash = row.cash - 2], us |-> Head1.copy.us + 1]
    BY <1>4 DEF Transfer
  <2>2. account' \in [cn: Row, us: Int] /\ account'.us = Head1.copy.us + 1
        /\ account'.cn.cash = row.cash - 2
    <3> DEFINE new == [row EXCEPT !.cash = row.cash - 2]
    <3>1. row.cash - 2 \in Int
      BY <1>r
    <3>2. new \in Row /\ new.cash = row.cash - 2
      BY <1>r, <3>1, NewCash
    <3>3. account' = [cn |-> new, us |-> Head1.copy.us + 1] /\ Head1.copy.us + 1 \in Int
      BY <1>0, <2>1
    <3> HIDE DEF new
    <3> QED BY <3>2, <3>3
  <2>3. ghost' = [ghost EXCEPT !.cash = [cn |-> ghost.cash.cn - 2, us |-> ghost.cash.us + 1]]
    BY <1>4 DEF Transfer
  <2>4. ghost' \in Ghost /\ ghost'.cash.cn = ghost.cash.cn - 2
        /\ ghost'.cash.us = ghost.cash.us + 1
    BY <1>2, <2>3 DEF Ghost
  <2>5. Balanced'
    BY <1>0, <1>2, <2>2, <2>4 DEF Balanced
  <2> QED BY <1>1, <1>2, <1>4, <2>5, BalancedKept DEF Transfer, Kept, Balanced
<1>5. CASE Subscribe
  <2>1. [row EXCEPT !.cash = @ - 1] \in Row
    BY SMTT(30), <1>0 DEF Row
  <2>2. Balanced'
    BY <1>0, <1>2, <1>5, <2>1 DEF Subscribe, Balanced, Ghost, Row
  <2> QED BY <1>1, <1>2, <1>5, <2>2, BalancedKept DEF Subscribe, Kept, Balanced
<1>6. CASE Redeem
  <2>1. [row EXCEPT !.cash = @ + 1] \in Row
    BY SMTT(30), <1>0 DEF Row
  <2>2. Balanced'
    BY <1>0, <1>2, <1>6, <2>1 DEF Redeem, Balanced, Ghost, Row
  <2>3. fund.shares - 1 \in Nat
    BY <1>0, <1>2, <1>6 DEF Redeem, Is
  <2> QED BY <1>1, <1>2, <1>6, <2>2, <2>3, BalancedKept DEF Redeem, Kept, Balanced
<1>7. CASE Reset
  <2>1. PICK new \in Row : new.cash = PresetCash /\ account' = [account EXCEPT !.cn = new]
    <3>1. [cash |-> PresetCash, lev |-> 2, debt |-> 0, day |-> row.day, reset |-> row.day] \in Row
      BY <1>r DEF Row, PresetCash
    <3> QED BY <1>7, <3>1 DEF Reset
  <2>2. Balanced'
    <3>1. account' \in [cn: Row, us: Int] /\ account'.cn = new /\ account'.us = account.us
      BY <1>2, <2>1
    <3>2. PresetCash \in Int /\ ghost' = [ghost EXCEPT !.cash.cn = PresetCash]
      BY <1>7 DEF Reset, PresetCash
    <3>3. ghost' \in Ghost /\ ghost'.cash.us = ghost.cash.us /\ ghost'.cash.cn = PresetCash
      BY <1>2, <3>2 DEF Ghost
    <3> QED BY <1>2, <2>1, <3>1, <3>3 DEF Balanced
  <2> QED BY <1>1, <1>2, <1>7, <2>2, BalancedKept DEF Reset, Kept, Balanced
<1>8. CASE Buy
  <2>1. Bought(row) \in Row /\ Bought(row).cash \in Int
    BY <1>r, Shares DEF Row
  <2>2. Balanced'
    <3>1. account' = [account EXCEPT !.cn = Bought(row)]
      BY <1>8 DEF Buy
    <3>2. account' \in [cn: Row, us: Int] /\ account'.cn = Bought(row) /\ account'.us = account.us
      BY <1>2, <2>1, <3>1
    <3>3. ghost' \in Ghost /\ ghost'.cash.us = ghost.cash.us
          /\ ghost'.cash.cn = ghost.cash.cn + Bought(row).cash - row.cash
      <4>1. PICK sum \in Int : sum = ghost.cash.cn + Bought(row).cash - row.cash
        BY <1>2, <1>r, <2>1 DEF Ghost
      <4>2. ghost' = [ghost EXCEPT !.boughtOn = Head1.day, !.cash.cn = sum]
        BY <1>8, <4>1 DEF Buy
      <4> QED BY <1>0, <1>2, <4>1, <4>2 DEF Ghost
    <3> QED BY <1>0, <1>2, <1>r, <2>1, <3>2, <3>3 DEF Balanced
  <2> QED BY <1>1, <1>2, <1>3, <1>8, <2>2, BalancedKept DEF Buy, Kept, Balanced
<1>9. CASE Sell
  <2>1. Sold(row) \in Row /\ Sold(row).cash \in Int
    BY <1>r, Shares DEF Row
  <2>2. Balanced'
    <3>1. account' = [account EXCEPT !.cn = Sold(row)]
      BY <1>9 DEF Sell
    <3>2. account' \in [cn: Row, us: Int] /\ account'.cn = Sold(row) /\ account'.us = account.us
      BY <1>2, <2>1, <3>1
    <3>3. ghost' \in Ghost /\ ghost'.cash.us = ghost.cash.us
          /\ ghost'.cash.cn = ghost.cash.cn + Sold(row).cash - row.cash
      <4>1. PICK sum \in Int : sum = ghost.cash.cn + Sold(row).cash - row.cash
        BY <1>2, <1>r, <2>1 DEF Ghost
      <4>2. ghost' = [ghost EXCEPT !.soldFresh = @ \/ ghost.boughtOn = Head1.day, !.cash.cn = sum]
        BY <1>9, <4>1 DEF Sell
      <4> QED BY <1>0, <1>2, <4>1, <4>2 DEF Ghost
    <3> QED BY <1>0, <1>2, <1>r, <2>1, <3>2, <3>3 DEF Balanced
  <2>3. pos' \in [qty: 0..1, fresh: 0..1, boughtDay: Nat]
    BY <1>2, <1>9 DEF Sell
  <2> QED BY <1>1, <1>2, <1>9, <2>2, <2>3, BalancedKept DEF Sell, Kept, Balanced
<1> QED BY <1>4, <1>5, <1>6, <1>7, <1>8, <1>9

LEMMA J_Day ==
  ASSUME IInv, ResetBoughtToday \/ SettleNavs \/ SnapshotHolders \/ PayMark
  PROVE  Kept'
<1>0. /\ chain # <<>> /\ Done /\ Head1.day \in Nat /\ UNCHANGED <<account, ghost>>
  <2>1. chain # <<>> /\ Done /\ UNCHANGED <<account, ghost>>
    BY DEF ResetBoughtToday, SettleNavs, SnapshotHolders, PayMark, Is
  <2> QED BY <2>1, HeadOf DEF IInv
<1>1. Orderly' /\ tick' \in [Loops -> Loop]
  BY <1>0, Doing DEF IInv
<1>2. /\ account \in [cn: Row, us: Int] /\ ghost \in Ghost
      /\ pos \in [qty: 0..1, fresh: 0..1, boughtDay: Nat]
      /\ fund \in [shares: Nat, nav: Nat, day: Nat]
      /\ snaps \in [GameDays -> [there: BOOLEAN, qty: 0..1, paid: BOOLEAN]]
  BY Types DEF IInv
<1>3. NoLostChange'
  BY <1>0 DEF IInv, NoLostChange
<1>4. CASE ResetBoughtToday
  BY <1>0, <1>1, <1>2, <1>3, <1>4 DEF ResetBoughtToday, Unlocked, Kept
<1>5. CASE SettleNavs
  <2>1. PICK nav \in Nat, day \in Nat :
          fund' = [fund EXCEPT !.nav = nav, !.day = day] \/ fund' = fund
    <3>1. fund.nav + 1 \in Nat
      BY <1>2
    <3> QED BY <1>0, <3>1, <1>5 DEF SettleNavs
  <2>2. fund' \in [shares: Nat, nav: Nat, day: Nat]
    BY <1>2, <2>1
  <2> QED BY <1>0, <1>1, <1>2, <1>3, <1>5, <2>2 DEF SettleNavs, Kept
<1>6. CASE SnapshotHolders
  BY ZenonT(40), <1>0, <1>1, <1>2, <1>3, <1>6 DEF SnapshotHolders, Kept
<1>7. CASE PayMark
  BY <1>0, <1>1, <1>2, <1>3, <1>7 DEF PayMark, Kept
<1> QED BY <1>4, <1>5, <1>6, <1>7

LEMMA J_Pay ==
  ASSUME IInv, PayRead \/ PayAccount
  PROVE  Kept'
<1>0. /\ chain # <<>> /\ Head1 \in JobRow /\ Head1.op = "pay" /\ Head1.day \in ExDays
      /\ Head1.copy \in [cn: Row, us: Int] /\ UNCHANGED <<pos, fund, snaps>>
  <2>1. chain # <<>> /\ Head1.op = "pay" /\ UNCHANGED <<pos, fund, snaps>>
    BY DEF PayRead, PayAccount, Is
  <2> QED BY <2>1, HeadOf DEF IInv, ExDividend, Head1
<1>2. /\ account \in [cn: Row, us: Int] /\ ghost \in Ghost /\ tick \in [Loops -> Loop]
      /\ pos \in [qty: 0..1, fresh: 0..1, boughtDay: Nat]
      /\ fund \in [shares: Nat, nav: Nat, day: Nat] /\ Balanced
      /\ snaps \in [GameDays -> [there: BOOLEAN, qty: 0..1, paid: BOOLEAN]]
  BY Types, Balance DEF IInv
<1>3. CASE PayRead
  <2>1. UNCHANGED <<account, ghost>> /\ NoLostChange'
    BY <1>3 DEF PayRead, IInv, NoLostChange
  <2>2. CASE Done
    BY <1>0, <1>2, <2>1, <2>2, Doing DEF IInv, Kept
  <2>3. ASSUME UNCHANGED tick, NEW step \in {"pay", "mark"},
               chain' = [chain EXCEPT ![1].step = step, ![1].copy = account]
        PROVE  Kept'
    <3> DEFINE job == [Head1 EXCEPT !.step = step, !.copy = account]
    <3>1. job \in JobRow /\ job.op = Head1.op /\ job.day = Head1.day /\ job.copy = account
      BY <1>0, <1>2 DEF JobRow
    <3>2. chain' = [chain EXCEPT ![1] = job]
      BY <2>3 DEF Head1
    <3> HIDE DEF job
    <3>3. Orderly'
      BY <1>0, <2>1, <3>1, <3>2, Stepping DEF IInv
    <3> QED BY <1>0, <1>2, <2>1, <2>3, <3>3 DEF Kept
  <2> QED BY <1>3, <2>2, <2>3 DEF PayRead
<1>4. CASE PayAccount
  <2>1. PICK amount \in Nat :
          /\ account' = [account EXCEPT !.cn = [Head1.copy.cn EXCEPT !.cash = @ + amount]]
          /\ ghost' = [ghost EXCEPT !.cash.cn = @ + amount]
    <3>1. Head1.day \in GameDays
      BY <1>0, Sizes
    <3>2. snaps[Head1.day].qty \in Nat
      BY <1>2, <3>1
    <3> QED BY <1>4, <3>2 DEF PayAccount
  <2> DEFINE row == Head1.copy.cn
             new == [row EXCEPT !.cash = row.cash + amount]
             job == [Head1 EXCEPT !.step = "mark"]
  <2>2. row \in Row /\ row.cash \in Int /\ row.cash = account.cn.cash
    BY <1>0, <1>4 DEF Row, IInv, Copies, PayAccount, Is, Head1
  <2>3. new \in Row /\ new.cash = row.cash + amount
    <3>1. row.cash + amount \in Int
      BY <2>1, <2>2
    <3> QED BY <2>2, <3>1, NewCash
  <2>4. account' = [account EXCEPT !.cn = new]
    BY <2>1
  <2>5. job \in JobRow /\ job.op = Head1.op /\ job.day = Head1.day /\ job.step = "mark"
    BY <1>0 DEF JobRow
  <2>6. chain' = [chain EXCEPT ![1] = job] /\ UNCHANGED tick
    BY <1>4 DEF PayAccount, Step, Head1
  <2> HIDE DEF new, job
  <2>7. Orderly'
    BY <1>0, <2>5, <2>6, Stepping DEF IInv
  <2>8. account' \in [cn: Row, us: Int] /\ account'.cn = new /\ account'.us = account.us
    BY <1>2, <2>3, <2>4
  <2>9. ghost' \in Ghost /\ ghost'.cash.us = ghost.cash.us
        /\ ghost'.cash.cn = ghost.cash.cn + amount
    <3>1. PICK sum \in Int : sum = ghost.cash.cn + amount
      BY <1>2 DEF Ghost
    <3>2. ghost' = [ghost EXCEPT !.cash.cn = sum]
      BY <2>1, <3>1
    <3> QED BY <1>2, <3>1, <3>2 DEF Ghost
  <2>10. Balanced'
    BY <1>2, <2>2, <2>3, <2>8, <2>9 DEF Balanced
  <2> QED BY <1>0, <1>2, <2>6, <2>7, <2>8, <2>9, <2>10, BalancedKept DEF Kept
<1> QED BY <1>3, <1>4

LEMMA J_Settle ==
  ASSUME IInv, SettleRead \/ SettleDaily \/ SettleTier
  PROVE  Kept'
<1>0. /\ chain # <<>> /\ Head1 \in JobRow /\ Head1.op = "settle" /\ Head1.day \in Nat
      /\ Head1.copy \in [cn: Row, us: Int] /\ UNCHANGED <<pos, fund, snaps>>
  <2>1. chain # <<>> /\ Head1.op = "settle" /\ UNCHANGED <<pos, fund, snaps>>
    BY DEF SettleRead, SettleDaily, SettleTier, Is
  <2> QED BY <2>1, HeadOf DEF IInv
<1>2. /\ account \in [cn: Row, us: Int] /\ ghost \in Ghost /\ tick \in [Loops -> Loop]
      /\ pos \in [qty: 0..1, fresh: 0..1, boughtDay: Nat]
      /\ fund \in [shares: Nat, nav: Nat, day: Nat] /\ Balanced
      /\ snaps \in [GameDays -> [there: BOOLEAN, qty: 0..1, paid: BOOLEAN]]
  BY Types, Balance DEF IInv
<1>3. CASE SettleRead
  <2>1. UNCHANGED <<account, ghost, tick>> /\ NoLostChange'
    BY <1>3 DEF SettleRead, IInv, NoLostChange
  <2>2. PICK step \in {"tier", "daily"} :
          chain' = [chain EXCEPT ![1].step = step, ![1].copy = account]
    BY <1>3 DEF SettleRead
  <2> DEFINE job == [Head1 EXCEPT !.step = step, !.copy = account]
  <2>3. job \in JobRow /\ job.op = Head1.op /\ job.day = Head1.day /\ job.copy = account
    BY <1>0, <1>2 DEF JobRow
  <2>4. chain' = [chain EXCEPT ![1] = job]
    BY <2>2 DEF Head1
  <2> HIDE DEF job
  <2>5. Orderly'
    BY <1>0, <2>1, <2>3, <2>4, Stepping DEF IInv
  <2> QED BY <1>0, <1>2, <2>1, <2>5 DEF Kept
<1>4. CASE SettleDaily
  <2> DEFINE old == Head1.copy.cn
             row == [old EXCEPT !.cash = old.cash - old.debt, !.day = Head1.day]
             copy == [Head1.copy EXCEPT !.cn = row]
             job == [Head1 EXCEPT !.step = "tier", !.copy = copy]
  <2>1. /\ old \in Row /\ old.cash \in Int /\ old.debt \in Int
        /\ old.cash = account.cn.cash /\ Head1.copy.us = account.us
    BY <1>0, <1>4 DEF Row, IInv, Copies, SettleDaily, Is, Head1
  <2>2. row \in Row /\ row.cash = old.cash - old.debt
    <3>1. PICK c \in Int : c = old.cash - old.debt
      BY <2>1
    <3>2. row = [old EXCEPT !.cash = c, !.day = Head1.day]
      BY <3>1
    <3> QED BY <1>0, <2>1, <3>1, <3>2 DEF Row
  <2>3. account' = [account EXCEPT !.cn = row] /\ UNCHANGED tick
    BY <1>4 DEF SettleDaily, Interest
  <2>4. chain' = [chain EXCEPT ![1] = job]
    BY <1>4 DEF SettleDaily, Interest, Head1
  <2>5. PICK sum \in Int : sum = ghost.cash.cn - old.debt
    BY <1>2, <2>1 DEF Ghost
  <2>6. PICK n \in [GameDays -> Nat] : ghost' = [ghost EXCEPT !.cash.cn = sum, !.settled = n]
    <3> DEFINE n == [ghost.settled EXCEPT ![Head1.day] = ghost.settled[Head1.day] + 1]
    <3>1. n \in [GameDays -> Nat]
      <4>1. ghost.settled \in [GameDays -> Nat]
        BY <1>2 DEF Ghost
      <4>2. CASE Head1.day \in GameDays
        <5>1. ghost.settled[Head1.day] + 1 \in Nat
          BY <4>1, <4>2
        <5> QED BY <4>1, <5>1
      <4>3. CASE Head1.day \notin GameDays
        BY <4>1, <4>3
      <4> QED BY <4>2, <4>3
    <3>2. ghost' = [ghost EXCEPT !.cash.cn = sum, !.settled = n]
      BY <1>4, <2>5 DEF SettleDaily, Interest
    <3> QED BY <3>1, <3>2
  <2>7. job \in JobRow /\ job.op = Head1.op /\ job.day = Head1.day
        /\ job.copy.cn = row /\ job.copy.us = Head1.copy.us
    <3>1. copy \in [cn: Row, us: Int] /\ copy.cn = row /\ copy.us = Head1.copy.us
      <4> HIDE DEF row
      <4> QED BY <1>0, <2>2
    <3> HIDE DEF row, copy
    <3> QED BY <1>0, <3>1 DEF JobRow
  <2> HIDE DEF row, copy, job
  <2>8. account' \in [cn: Row, us: Int] /\ account'.cn = row /\ account'.us = account.us
    BY <1>2, <2>2, <2>3
  <2>9. Orderly'
    BY <1>0, <2>1, <2>2, <2>4, <2>7, <2>8, Stepping DEF IInv
  <2>10. ghost' \in Ghost /\ ghost'.cash.us = ghost.cash.us /\ ghost'.cash.cn = sum
    BY <1>2, <2>5, <2>6 DEF Ghost
  <2>11. Balanced'
    BY <1>2, <2>1, <2>2, <2>5, <2>8, <2>10 DEF Balanced
  <2> QED BY <1>0, <1>2, <2>3, <2>8, <2>9, <2>10, <2>11, BalancedKept DEF Kept
<1>5. CASE SettleTier
  <2>1. Head1.copy.cn \in Row /\ Head1.copy.cn.cash = account.cn.cash
    BY <1>0, <1>5 DEF IInv, Copies, SettleTier, Is, Head1
  <2>2. Done /\ account' = [account EXCEPT !.cn = Head1.copy.cn] /\ UNCHANGED ghost
    BY <1>5 DEF SettleTier
  <2>3. account' \in [cn: Row, us: Int] /\ account'.cn = Head1.copy.cn
        /\ account'.us = account.us
    BY <1>2, <2>1, <2>2
  <2>4. Balanced'
    BY <1>2, <2>1, <2>2, <2>3 DEF Balanced
  <2>5. Orderly' /\ tick' \in [Loops -> Loop]
    BY <1>0, <2>2, Doing DEF IInv
  <2> QED BY <1>0, <1>2, <2>2, <2>3, <2>4, <2>5, BalancedKept DEF Kept
<1> QED BY <1>3, <1>4, <1>5

-----------------------------------------------------------------------------
(* All steps. *)

LEMMA Whole ==
  ASSUME TypeOK, Kept',
         market' \in Market, saved' \in [gameDay: Nat, cal: Calendar, closing: Record],
         clock' \in [date: 1..MaxDate, slot: 0..Night], processing' \in BOOLEAN,
         lever' \in [phase: {"idle", "save"}, row: Row], late' \in Dates,
         used' \in [calls: 0..MaxCalls, troubles: 0..MaxTroubles, hangs: 0..MaxHangs]
  PROVE  IInv'
BY DEF IInv, TypeOK, Kept, Orderly, Market, Ghost

Used == [calls: 0..MaxCalls, troubles: 0..MaxTroubles, hangs: 0..MaxHangs]

LEMMA Rest ==
  ASSUME TypeOK
  PROVE  clock \in [date: 1..MaxDate, slot: 0..Night] /\ used \in Used
BY DEF TypeOK, Used

LEMMA UsedUp ==
  ASSUME TypeOK, Trouble \/ (used.calls < MaxCalls /\ used' = [used EXCEPT !.calls = @ + 1])
  PROVE  used' \in Used
<1>1. used \in Used /\ MaxCalls \in Nat /\ MaxTroubles \in Nat
  BY Rest, Sizes
<1> QED BY <1>1 DEF Used, Trouble

LEMMA S_Job ==
  ASSUME IInv, Job1
  PROVE  IInv'
<1>1. Kept'
  BY J_Read, J_Write, J_Day, J_Pay, J_Settle DEF Job1
<1>2. Untouched
  BY DEF Job1, Read, Transfer, Subscribe, Redeem, Reset, Buy, Sell, ResetBoughtToday, SettleNavs,
         SnapshotHolders, PayRead, PayAccount, PayMark, SettleRead, SettleDaily, SettleTier
<1> QED BY <1>1, <1>2, Whole, Types, Rest DEF IInv, Untouched, Used

(* The steps that leave the rows alone. *)
LEMMA Still ==
  ASSUME IInv, Orderly', tick' \in [Loops -> Loop], UNCHANGED <<account, pos, fund, snaps>>,
         ghost' \in Ghost, ghost'.cash = ghost.cash
  PROVE  Kept'
BY Types DEF IInv, Kept, NoLostChange

LEMMA S_Tick ==
  ASSUME IInv, NEW i \in Loops, Tick(i) \/ Fault(i)
  PROVE  IInv'
<1>1. UNCHANGED <<clock, account, pos, fund, snaps, lever>>
  BY DEF Tick, Begin, Open, Auction, EndTick, Generate, Unlock, DayInit, Match, Persist, Queue,
         DayEnd, Drop, Fault
<1>2. Orderly'
  BY <1>1, C_Tick, Appending DEF IInv
<1>3. /\ tick' \in [Loops -> Loop] /\ market' \in Market
      /\ saved' \in [gameDay: Nat, cal: Calendar, closing: Record]
      /\ processing' \in BOOLEAN /\ late' \in Dates
  BY T_Tick DEF IInv
<1>4. ghost' \in Ghost /\ ghost'.cash = ghost.cash
  <2>1. ghost \in Ghost /\ market.active \in Dates
    BY Types DEF IInv, Market
  <2>2. CASE UNCHANGED ghost
    BY <2>1, <2>2
  <2>3. CASE DayEnd(i)
    <3> DEFINE n == [ghost.endedOn EXCEPT ![market.gameDay] = market.active]
    <3>1. n \in [GameDays -> Dates]
      BY <2>1 DEF Ghost
    <3>2. ghost' = [ghost EXCEPT !.endedOn = n]
      BY <2>3 DEF DayEnd
    <3> HIDE DEF n
    <3> QED BY <2>1, <3>1, <3>2 DEF Ghost
  <2>4. UNCHANGED ghost \/ DayEnd(i)
    BY DEF Tick, Begin, Open, Auction, EndTick, Generate, Unlock, DayInit, Match, Persist, Queue,
           Drop, Fault
  <2> QED BY <2>2, <2>3, <2>4
<1>5. used' \in Used
  <2>1. UNCHANGED used \/ Trouble
        \/ (used.calls < MaxCalls /\ used' = [used EXCEPT !.calls = @ + 1])
    BY DEF Tick, Begin, Open, Auction, EndTick, Generate, Unlock, DayInit, Match, Persist, Queue,
           DayEnd, Drop, Fault
  <2> QED BY <2>1, UsedUp, Rest DEF IInv
<1>6. Kept'
  BY <1>1, <1>2, <1>3, <1>4, Still
<1> QED BY <1>1, <1>3, <1>5, <1>6, Whole, Types, Rest DEF IInv, Used

LEMMA S_Loops ==
  ASSUME IInv, NEW i \in Loops, Hang(i) \/ Watchdog(i)
  PROVE  IInv'
<1>0. /\ tick \in [Loops -> Loop] /\ used \in Used /\ ghost \in Ghost /\ MaxTroubles \in Nat
      /\ MaxHangs \in Nat
  BY Types, Rest, Sizes DEF IInv
<1>1. UNCHANGED <<clock, market, saved, chain, account, pos, fund, snaps, late, lever, ghost>>
  BY DEF Hang, Watchdog
<1>2. \A r \in Loop, pc \in Pcs : [r EXCEPT !.pc = pc] \in Loop
  BY DEF Loop
<1>3. tick' \in [Loops -> Loop] /\ processing' \in BOOLEAN /\ used' \in Used
  <2>1. CASE Watchdog(i)
    <3>1. Go(i, "idle") /\ "idle" \in Pcs
      BY <2>1 DEF Watchdog, Go, Pcs
    <3> QED BY <1>0, <2>1, <3>1, Moves DEF Watchdog, IInv
  <2>2. CASE Hang(i)
    <3>1. PICK pc, k : pc \in Pcs /\ tick' = [tick EXCEPT ![i].pc = pc, ![k].pc = "watchdog"]
      <4>1. "hung" \in Pcs /\ tick[i].pc \in Pcs
        BY <1>0 DEF Loop, Pcs
      <4> QED BY <2>2, <4>1 DEF Hang
    <3>2. PICK mid \in [Loops -> Loop] : mid = [tick EXCEPT ![i].pc = pc]
      BY <1>0, <1>2, <3>1
    <3>3. tick' = [mid EXCEPT ![k].pc = "watchdog"] /\ "watchdog" \in Pcs
      BY <3>1, <3>2 DEF Pcs
    <3>4. tick' \in [Loops -> Loop]
      BY <1>2, <3>2, <3>3
    <3>5. processing' = processing
      BY <2>2 DEF Hang
    <3>6. PICK n \in 0..MaxTroubles, h \in 0..MaxHangs :
            used' = [used EXCEPT !.troubles = n, !.hangs = h]
      <4>1. used.troubles + 1 \in 0..MaxTroubles /\ used.hangs + 1 \in 0..MaxHangs
        BY <1>0, <2>2, Sizes DEF Hang, Used
      <4> QED BY <2>2, <4>1 DEF Hang
    <3>7. used' \in Used
      BY <1>0, <3>6 DEF Used
    <3> QED BY <3>4, <3>5, <3>7, Types DEF IInv
  <2> QED BY <2>1, <2>2
<1>4. Orderly'
  BY <1>1, Appending DEF IInv, Appended
<1>5. Kept'
  BY <1>0, <1>1, <1>3, <1>4, Still
<1> QED BY <1>1, <1>3, <1>5, Whole, Types, Rest DEF IInv, Used

LEMMA S_Request ==
  ASSUME IInv, (\E op \in AllOps : Ask(op)) \/ AskLate \/ LeverageRead \/ TimePasses
  PROVE  IInv'
<1>0. /\ used \in Used /\ ghost \in Ghost /\ clock \in [date: 1..MaxDate, slot: 0..Night]
      /\ Night \in Nat /\ MaxDate \in Nat /\ account.cn \in Row
      /\ lever \in [phase: {"idle", "save"}, row: Row] /\ tick \in [Loops -> Loop]
  BY Types, Rest, Sizes DEF IInv
<1>1. UNCHANGED <<market, saved, tick, processing, account, pos, fund, snaps, ghost>>
  BY DEF Ask, AskLate, LeverageRead, TimePasses
<1>2. Appended
  <2>1. CASE \E op \in AllOps : Ask(op)
    <3>1. PICK op \in AllOps : Ask(op)
      BY <2>1
    <3>2. clock.date \in Nat /\ 0 \in Loops \cup {0}
      BY <1>0
    <3>3. Queued(Job(op, 0, clock.date))
      BY <3>2, JobType DEF Queued, AllOps
    <3> QED BY <3>1, <3>3 DEF Ask, Appended
  <2>2. CASE AskLate \/ LeverageRead \/ TimePasses
    BY <2>2 DEF AskLate, LeverageRead, TimePasses, Appended
  <2> QED BY <2>1, <2>2
<1>3. Orderly'
  BY <1>1, <1>2, Appending DEF IInv
<1>4. Kept'
  BY <1>0, <1>1, <1>3, Still
<1>5. clock' \in [date: 1..MaxDate, slot: 0..Night]
  <2>1. CASE TimePasses
    <3>1. clock' \in [date: 1..MaxDate, slot: 0..Night]
      <4>1. CASE clock.slot = Night
        <5>1. clock.date # MaxDate
          BY <1>0, <2>1, <4>1 DEF TimePasses
        <5> QED BY <1>0, <2>1, <4>1, <5>1 DEF TimePasses
      <4>2. CASE clock.slot # Night
        BY <1>0, <2>1, <4>2 DEF TimePasses
      <4> QED BY <4>1, <4>2
    <3> QED BY <3>1
  <2>2. CASE UNCHANGED clock
    BY <1>0, <2>2
  <2> QED BY <2>1, <2>2 DEF Ask, AskLate, LeverageRead
<1>6. used' \in Used
  <2>1. UNCHANGED used \/ (used.calls < MaxCalls /\ used' = [used EXCEPT !.calls = @ + 1])
    BY DEF Ask, AskLate, LeverageRead, TimePasses
  <2> QED BY <1>0, <2>1, UsedUp DEF IInv
<1>7. lever' \in [phase: {"idle", "save"}, row: Row]
  BY <1>0 DEF Ask, AskLate, LeverageRead, TimePasses
<1>8. late' \in Dates
  BY Types DEF Ask, AskLate, LeverageRead, TimePasses, IInv
<1> QED BY <1>1, <1>4, <1>5, <1>6, <1>7, <1>8, Whole, Types DEF IInv, Used

LEMMA S_Leverage ==
  ASSUME IInv, LoneLeverage, LeverageSave
  PROVE  IInv'
<1>0. /\ account \in [cn: Row, us: Int] /\ ghost \in Ghost /\ tick \in [Loops -> Loop]
      /\ Balanced
  BY Types, Balance DEF IInv
<1>1. /\ UNCHANGED <<clock, market, saved, tick, processing, chain, pos, fund, snaps, late,
                     ghost, used>>
      /\ lever' = [phase |-> "idle", row |-> NoCopy.cn] /\ lever.row = account.cn
  BY DEF LeverageSave
<1>2. PICK lev \in {1, 2} : account' = [account EXCEPT !.cn = [account.cn EXCEPT !.lev = lev]]
  BY <1>1 DEF LeverageSave
<1> DEFINE new == [account.cn EXCEPT !.lev = lev]
<1>3. new \in Row /\ new.cash = account.cn.cash
  BY <1>0 DEF Row
<1>4. account' = [account EXCEPT !.cn = new]
  BY <1>2
<1> HIDE DEF new
<1>5. account' \in [cn: Row, us: Int] /\ account'.cn.cash = account.cn.cash
      /\ account'.us = account.us
  BY <1>0, <1>3, <1>4
<1>6. Orderly'
  <2>1. Copies'
    BY <1>1, <1>5 DEF IInv, Copies
  <2> QED BY <1>1, <2>1, Types DEF IInv, Orderly, ExDividend, Redeemable
<1>7. NoLostChange'
  <2>1. Balanced'
    BY <1>0, <1>1, <1>5 DEF Balanced
  <2> QED BY <2>1, BalancedKept
<1>8. Kept'
  BY <1>0, <1>1, <1>5, <1>6, <1>7, Types DEF Kept, IInv
<1>9. lever' \in [phase: {"idle", "save"}, row: Row]
  BY <1>1, Literals
<1> QED BY <1>1, <1>8, <1>9, Whole, Types, Rest DEF IInv, Used

LEMMA S_Crash ==
  ASSUME IInv, Crash \/ JobFault
  PROVE  IInv'
<1>0. /\ account \in [cn: Row, us: Int] /\ ghost \in Ghost /\ tick \in [Loops -> Loop]
      /\ saved \in [gameDay: Nat, cal: Calendar, closing: Record]
      /\ clock \in [date: 1..MaxDate, slot: 0..Night]
  BY Types, Rest DEF IInv
<1>1. used' \in Used
  BY UsedUp DEF IInv, Crash, JobFault
<1>2. CASE Crash
  <2>1. /\ UNCHANGED <<clock, saved, account, pos, fund, snaps, late, ghost>>
        /\ lever' = [phase |-> "idle", row |-> NoCopy.cn] /\ processing' = FALSE /\ chain' = <<>>
    BY <1>2 DEF Crash
  <2>2. market' \in Market
    BY <1>0, <1>2, MemoryType DEF Crash
  <2>3. tick' \in [Loops -> Loop]
    <3>1. [IdleTick EXCEPT !.pc = "off"] \in Loop
      BY Literals DEF Loop, Pcs
    <3> QED BY <1>2, <3>1, Literals DEF Crash
  <2>4. Orderly'
    BY <2>1 DEF Orderly, Copies, ExDividend, Redeemable
  <2>5. Kept'
    BY <1>0, <2>1, <2>3, <2>4, Still
  <2> QED BY <1>0, <1>1, <2>1, <2>2, <2>5, Whole, Types, Literals DEF IInv, Used
<1>3. CASE JobFault
  <2>1. /\ UNCHANGED <<clock, market, saved, account, pos, fund, snaps, late, lever, ghost>>
        /\ chain # <<>> /\ chain' = Tail(chain) /\ Finish(Head1.by)
    BY <1>3 DEF JobFault
  <2>2. Orderly'
    BY <2>1, Popping DEF IInv
  <2>3. tick' \in [Loops -> Loop] /\ processing' \in BOOLEAN
    BY <1>0, <2>1, Literals DEF Finish
  <2>4. Kept'
    BY <1>0, <2>1, <2>2, <2>3, Still
  <2> QED BY <1>0, <1>1, <2>1, <2>3, <2>4, Whole, Types DEF IInv, Used
<1> QED BY <1>2, <1>3

LEMMA Invariant ==
  ASSUME LoneLeverage
  PROVE  Spec => []IInv
<1>1. Init => IInv
  <2> SUFFICES ASSUME Init PROVE IInv
    OBVIOUS
  <2>1. clock \in [date: 1..MaxDate, slot: 0..Night]
    BY Sizes DEF Init
  <2>2. market \in Market
    BY Literals, MemoryType DEF Init
  <2>3. saved \in [gameDay: Nat, cal: Calendar, closing: Record]
    BY Literals DEF Init
  <2>4. tick \in [Loops -> Loop]
    <3>1. [IdleTick EXCEPT !.pc = "off"] \in Loop
      BY Literals DEF Loop, Pcs
    <3> QED BY <3>1, Literals DEF Init
  <2>5. chain \in Seq(JobRow) /\ chain = <<>> /\ processing \in BOOLEAN
    <3>1. chain = <<>> /\ processing = FALSE
      BY DEF Init
    <3>2. <<>> \in Seq(JobRow)
      OBVIOUS
    <3> QED BY <3>1, <3>2
  <2>6. account \in [cn: Row, us: Int]
    BY DEF Init, Row, StartCash
  <2>7. /\ pos \in [qty: 0..1, fresh: 0..1, boughtDay: Nat]
        /\ fund \in [shares: Nat, nav: Nat, day: Nat]
    <3>1. PICK held \in 0..1 :
            /\ pos = [qty |-> held, fresh |-> 0, boughtDay |-> 0]
            /\ fund = [shares |-> held, nav |-> 0, day |-> 1]
      BY DEF Init
    <3> QED BY <3>1
  <2>8. snaps \in [GameDays -> [there: BOOLEAN, qty: 0..1, paid: BOOLEAN]]
    BY DEF Init, NoSnap
  <2>9. late \in Dates /\ lever \in [phase: {"idle", "save"}, row: Row]
    BY Sizes, Literals DEF Init
  <2>10. ghost \in Ghost
    BY Sizes DEF Init, Ghost, StartCash
  <2>11. used \in Used
    BY Sizes DEF Init, Used
  <2>12. TypeOK
    BY <2>1, <2>2, <2>3, <2>4, <2>5, <2>6, <2>7, <2>8, <2>9, <2>10, <2>11
       DEF TypeOK, Market, Ghost, Used
  <2>13. Copies /\ ExDividend /\ Redeemable
    BY <2>5 DEF Copies, ExDividend, Redeemable
  <2>14. NoLostChange
    BY DEF Init, NoLostChange, StartCash
  <2> QED BY <2>12, <2>13, <2>14 DEF IInv
<1>2. IInv /\ [Next]_vars => IInv'
  <2> SUFFICES ASSUME IInv, [Next]_vars PROVE IInv'
    OBVIOUS
  <2>1. CASE UNCHANGED vars
    BY <2>1 DEF vars, IInv, TypeOK, Copies, ExDividend, Redeemable, NoLostChange
  <2>2. CASE Next
    BY <2>2, S_Job, S_Tick, S_Loops, S_Request, S_Leverage, S_Crash DEF Next
  <2> QED BY <2>1, <2>2
<1> QED BY <1>1, <1>2, PTL DEF Spec

(* For any number of dates, requests, crashes and hung ticks every variable
   keeps its type, if setLeverage overlaps no other writer of the row. *)
THEOREM TypeCorrect == ASSUME LoneLeverage PROVE Spec => []TypeOK
BY Invariant, PTL DEF IInv

(* Under the same assumption no balance change is lost: transfers, fund jobs,
   resets, fills, dividends and the daily settlement each write back a copy that
   is current, wherever a crash or a failed call interrupts them. *)
THEOREM Balances == ASSUME LoneLeverage PROVE Spec => []NoLostChange
BY Invariant, PTL DEF IInv

-----------------------------------------------------------------------------
(* One loop runs at a time; how a step moves it and the chain. *)

(* A loop that is running and waits for nothing has no job in the chain. *)
LEMMA NoJobs ==
  ASSUME TypeOK, OneLoop, NEW i \in Loops, Live(i), tick[i].pc \notin Waits
  PROVE  \A k \in DOMAIN chain : chain[k].by = 0
<1>1. \A k \in DOMAIN chain : chain[k].by \in Loops \cup {0}
  <2>1. chain \in Seq(JobRow)
    BY Types
  <2>2. \A k \in DOMAIN chain : chain[k] \in JobRow
    BY <2>1
  <2> QED BY <2>2 DEF JobRow
<1> QED BY <1>1 DEF OneLoop, Live, Waits

(* What a step of a loop does to it and to the chain. *)
Advance(i, t) ==
  /\ Live(i) /\ tick[i].pc \notin Waits
  /\ t.pc \notin {"off", "hung"}
  /\ tick' = [tick EXCEPT ![i] = t]
  /\ \/ chain' = chain
     \/ t.pc \in Waits /\ \E op, day : chain' = Append(chain, Job(op, i, day))
  /\ used'.hangs = used.hangs

LEMMA TickAdvances ==
  ASSUME TypeOK, NEW i \in Loops, Tick(i) \/ Fault(i)
  PROVE  \E t \in Loop : Advance(i, t)
<1>0. /\ tick \in [Loops -> Loop] /\ clock.date \in Dates /\ clock.slot \in 0..Night
      /\ market \in Market /\ used \in Used
  BY Types, Rest
<1>1. tick' \in [Loops -> Loop]
  BY T_Tick
<1>2. /\ \A pc : Go(i, pc) => tick' = [tick EXCEPT ![i] = tick'[i]] /\ tick'[i].pc = pc
      /\ Finish(i) => tick' = [tick EXCEPT ![i] = tick'[i]] /\ tick'[i].pc = "idle"
  <2>1. \A t \in Loop : \A pc : [t EXCEPT !.pc = pc].pc = pc
    BY DEF Loop
  <2>2. ASSUME NEW pc, Go(i, pc) PROVE tick' = [tick EXCEPT ![i] = tick'[i]] /\ tick'[i].pc = pc
    BY <1>0, <2>1, <2>2 DEF Go
  <2> QED BY <1>0, <2>2 DEF Finish, IdleTick
<1>3. SUFFICES /\ Live(i) /\ tick[i].pc \notin Waits
               /\ tick'[i].pc \notin {"off", "hung"}
               /\ tick' = [tick EXCEPT ![i] = tick'[i]]
               /\ \/ chain' = chain
                  \/ /\ tick'[i].pc \in Waits
                     /\ \E op, day : chain' = Append(chain, Job(op, i, day))
               /\ used'.hangs = used.hangs
  BY <1>1 DEF Advance
<1> USE DEF Waits, Live
<1>4. used'.hangs = used.hangs
  <2>1. \/ UNCHANGED used \/ used' = [used EXCEPT !.calls = @ + 1]
        \/ used' = [used EXCEPT !.troubles = @ + 1]
    BY DEF Tick, Begin, Open, Auction, EndTick, Generate, Unlock, DayInit, Match, Persist, Queue,
           DayEnd, Drop, Fault, Trouble
  <2> QED BY <1>0, <2>1 DEF Used
<1>5. CASE Begin(i)
  <2>1. \E t : tick' = [tick EXCEPT ![i] = t] /\ t.pc \in {"persistClosing", "open"}
    <3>1. CASE market.closing # None \/ DayOver(clock)
      <4> DEFINE t == [pc |-> "persistClosing", date |-> clock.date, slot |-> clock.slot,
                       day |-> market'.closing.day]
      <4>1. t.pc = "persistClosing"
        OBVIOUS
      <4>2. tick' = [tick EXCEPT ![i] = t]
        BY <1>5, <3>1 DEF Begin
      <4> HIDE DEF t
      <4> QED BY <4>1, <4>2
    <3>2. CASE ~(market.closing # None \/ DayOver(clock))
      <4> DEFINE t == [pc |-> "open", date |-> clock.date, slot |-> clock.slot, day |-> 0]
      <4>1. t.pc = "open"
        OBVIOUS
      <4>2. tick' = [tick EXCEPT ![i] = t]
        BY <1>5, <3>2 DEF Begin
      <4> HIDE DEF t
      <4> QED BY <4>1, <4>2
    <3> QED BY <3>1, <3>2
  <2> QED BY <1>0, <1>4, <1>5, <2>1 DEF Begin
<1>6. CASE Open(i) \/ EndTick(i) \/ Generate(i) \/ DayInit(i) \/ Match(i) \/ Persist(i)
           \/ DayEnd(i) \/ Drop(i)
  <2>1. Finish(i) \/ \E pc \in {"generate", "auction", "unlock", "match", "dayAuction", "navs",
                                "settle", "open", "persistAdvanced", "persistClosed"} : Go(i, pc)
    BY <1>6 DEF Open, EndTick, Generate, DayInit, Match, Persist, DayEnd, Drop
  <2>2. chain' = chain /\ tick[i].pc \notin {"off", "hung", "wait", "waitEnd", "waitMatch"}
    BY <1>6 DEF Open, EndTick, Generate, DayInit, Match, Persist, DayEnd, Drop
  <2> QED BY <1>2, <1>4, <2>1, <2>2
<1>7. CASE Auction(i)
  <2>1. tick[i].pc \in {"auction", "dayAuction"}
    BY <1>7 DEF Auction
  <2>2. \/ /\ \E op, day : chain' = Append(chain, Job(op, i, day))
           /\ \E pc \in {"waitEnd", "waitMatch"} : Go(i, pc)
        \/ chain' = chain /\ \E pc \in {"end", "match"} : Go(i, pc)
    BY <1>7, Zenon DEF Auction, Go
  <2> QED BY <1>2, <1>4, <2>1, <2>2
<1>8. CASE Unlock(i)
  BY <1>2, <1>4, <1>8 DEF Unlock
<1>9. CASE Queue(i)
  <2>1. tick[i].pc \in {"navs", "snapshot", "pay", "settle"}
    BY <1>9 DEF Queue
  <2>2. \/ chain' = chain /\ \E pc \in {"pay", "dayEnd"} : Go(i, pc)
        \/ Go(i, "wait") /\ \E op, day : chain' = Append(chain, Job(op, i, day))
    BY <1>9 DEF Queue
  <2> QED BY <1>2, <1>4, <2>1, <2>2
<1>10. CASE Fault(i)
  <2>1. tick[i].pc \in {"persistClosing", "persistAdvanced", "persistClosed"}
    BY <1>10, MarketDayAssumption DEF Fault
  <2> QED BY <1>2, <1>4, <1>10, <2>1 DEF Fault
<1> QED BY <1>5, <1>6, <1>7, <1>8, <1>9, <1>10 DEF Tick

LEMMA L_Tick ==
  ASSUME IInv, OneLoop, NEW i \in Loops, NEW t \in Loop, Advance(i, t)
  PROVE  OneLoop'
<1>0. tick \in [Loops -> Loop] /\ chain \in Seq(JobRow) /\ used \in Used /\ 0 \notin Loops
  BY Types, Rest, Sizes DEF IInv
<1>1. tick'[i] = t /\ \A j \in Loops : j # i => tick'[j] = tick[j]
  BY <1>0 DEF Advance
<1>2. \A k \in DOMAIN chain : chain[k].by = 0
  BY NoJobs DEF Advance, IInv
<1>3. ASSUME NEW k \in DOMAIN chain'
      PROVE  \/ k \in DOMAIN chain /\ chain'[k] = chain[k]
             \/ k = Len(chain) + 1 /\ chain'[k].by = i /\ t.pc \in Waits
  <2>1. CASE chain' = chain
    BY <2>1
  <2>2. ASSUME NEW op, NEW day, chain' = Append(chain, Job(op, i, day)), t.pc \in Waits
        PROVE  \/ k \in DOMAIN chain /\ chain'[k] = chain[k]
               \/ k = Len(chain) + 1 /\ chain'[k].by = i /\ t.pc \in Waits
    <3> DEFINE job == Job(op, i, day)
    <3>1. job.by = i
      BY DEF Job
    <3> HIDE DEF job
    <3>2. /\ DOMAIN chain = 1..Len(chain) /\ DOMAIN chain' = 1..(Len(chain) + 1)
          /\ Len(chain) \in Nat
          /\ \A m \in DOMAIN chain : chain'[m] = chain[m]
          /\ chain'[Len(chain) + 1] = job
      BY <1>0, <2>2 DEF job
    <3> QED BY <2>2, <3>1, <3>2
  <2> QED BY <2>1, <2>2 DEF Advance
<1>4. \A j \in Loops : Live(j)' => j = i
  BY <1>1 DEF OneLoop, Live, Advance
<1>5. \A j \in Loops : j > used'.hangs + 1 => tick'[j].pc = "off"
  BY <1>1 DEF OneLoop, Advance, Live
<1>6. \A k \in DOMAIN chain' : chain'[k].by # 0 => tick'[chain'[k].by].pc \in Waits
  BY <1>1, <1>2, <1>3
<1>7. \A k, l \in DOMAIN chain' : chain'[k].by # 0 /\ chain'[l].by # 0 => k = l
  BY <1>2, <1>3
<1>8. \A k \in DOMAIN chain' : chain'[k].by = 0 => chain'[k].op \in AllOps
  BY <1>0, <1>2, <1>3 DEF OneLoop
<1> QED BY <1>4, <1>5, <1>6, <1>7, <1>8 DEF OneLoop

(* What a step of the chain does: its first job goes on, or it ends and hands
   the loop that waits for it its next step. *)
Ends == chain' = Tail(chain) /\ (Head1.by = 0 => tick' = tick)
        /\ (Head1.by # 0 => tick' = [tick EXCEPT ![Head1.by].pc = AfterJob])
GoesOn == /\ tick' = tick
          /\ \E job \in JobRow : /\ chain' = [chain EXCEPT ![1] = job]
                               /\ job.by = Head1.by /\ job.op = Head1.op /\ job.day = Head1.day

LEMMA JobShape ==
  ASSUME TypeOK, Job1
  PROVE  /\ chain # <<>> /\ (Ends \/ GoesOn)
         /\ UNCHANGED <<clock, market, saved, processing, late, lever, used>>
<1>1. chain # <<>> /\ UNCHANGED <<clock, market, saved, processing, late, lever, used>>
  BY DEF Job1, Read, Transfer, Subscribe, Redeem, Reset, Buy, Sell, ResetBoughtToday, SettleNavs,
         SnapshotHolders, PayRead, PayAccount, PayMark, SettleRead, SettleDaily, SettleTier,
         Untouched, Is
<1>2. Done => Ends
  BY DEF Done, Ends
<1>3. Head1 \in JobRow /\ account \in [cn: Row, us: Int]
  BY <1>1, HeadOf, Types
<1>4. CASE \/ Transfer \/ Subscribe \/ Redeem \/ Reset \/ Buy \/ Sell \/ ResetBoughtToday
           \/ SettleNavs \/ SnapshotHolders \/ PayMark \/ SettleTier
  BY <1>1, <1>2, <1>4 DEF Transfer, Subscribe, Redeem, Reset, Buy, Sell, ResetBoughtToday,
     SettleNavs, SnapshotHolders, PayMark, SettleTier
<1>5. ASSUME NEW step \in {"write", "pay", "mark", "daily", "tier"},
             NEW copy \in [cn: Row, us: Int],
             tick' = tick, chain' = [chain EXCEPT ![1].step = step, ![1].copy = copy]
      PROVE  GoesOn
  <2> DEFINE job == [Head1 EXCEPT !.step = step, !.copy = copy]
  <2>1. job \in JobRow /\ job.op = Head1.op /\ job.day = Head1.day /\ job.by = Head1.by
    BY <1>3 DEF JobRow
  <2>2. chain' = [chain EXCEPT ![1] = job]
    BY <1>5 DEF Head1
  <2> HIDE DEF job
  <2> QED BY <1>5, <2>1, <2>2 DEF GoesOn
<1>6. CASE Read \/ PayRead \/ SettleRead
  <2>1. \/ Done
        \/ tick' = tick /\ \E step \in {"write", "pay", "mark", "daily", "tier"} :
                              chain' = [chain EXCEPT ![1].step = step, ![1].copy = account]
    BY <1>6 DEF Read, PayRead, SettleRead
  <2> QED BY <1>1, <1>2, <1>3, <1>5, <2>1
<1>7. CASE PayAccount
  <2> DEFINE job == [Head1 EXCEPT !.step = "mark"]
  <2>1. job \in JobRow /\ job.op = Head1.op /\ job.day = Head1.day /\ job.by = Head1.by
    BY <1>3 DEF JobRow
  <2>2. chain' = [chain EXCEPT ![1] = job] /\ tick' = tick
    BY <1>7 DEF PayAccount, Step, Head1
  <2> HIDE DEF job
  <2> QED BY <1>1, <2>1, <2>2 DEF GoesOn
<1>8. CASE SettleDaily
  <2> DEFINE old == Head1.copy.cn
             row == [old EXCEPT !.cash = old.cash - Interest(old), !.day = Head1.day]
             copy == [Head1.copy EXCEPT !.cn = row]
             job == [Head1 EXCEPT !.step = "tier", !.copy = copy]
  <2>1. old \in Row /\ old.cash \in Int /\ old.debt \in Int /\ Head1.day \in Nat
        /\ Head1.copy \in [cn: Row, us: Int]
    BY <1>3 DEF JobRow, Row
  <2>2. row \in Row
    <3>1. old.cash - Interest(old) \in Int
      BY <2>1 DEF Interest
    <3> HIDE DEF old
    <3> QED BY <2>1, <3>1 DEF Row
  <2> HIDE DEF row
  <2>3. copy \in [cn: Row, us: Int]
    BY <2>1, <2>2
  <2> HIDE DEF copy
  <2>4. job \in JobRow /\ job.op = Head1.op /\ job.day = Head1.day /\ job.by = Head1.by
    BY <1>3, <2>3 DEF JobRow
  <2>5. chain' = [chain EXCEPT ![1] = job] /\ tick' = tick
    BY <1>8 DEF SettleDaily, Head1, copy, row
  <2> HIDE DEF job
  <2> QED BY <1>1, <2>4, <2>5 DEF GoesOn
<1> QED BY <1>4, <1>6, <1>7, <1>8 DEF Job1

(* The chain without its first job. *)
LEMMA TailOf ==
  ASSUME TypeOK, chain # <<>>, chain' = Tail(chain)
  PROVE  /\ chain' \in Seq(JobRow) /\ 1 \in DOMAIN chain
         /\ \A k \in DOMAIN chain' : k + 1 \in DOMAIN chain /\ k + 1 # 1 /\ k \in Nat
                                    /\ chain'[k] = chain[k + 1] /\ chain'[k] \in JobRow
<1>1. chain \in Seq(JobRow)
  BY Types
<1>2. /\ chain' \in Seq(JobRow) /\ Len(chain) \in Nat /\ Len(chain) > 0
      /\ DOMAIN chain = 1..Len(chain) /\ DOMAIN chain' = 1..(Len(chain) - 1)
      /\ \A k \in DOMAIN chain' : k + 1 \in DOMAIN chain /\ chain'[k] = chain[k + 1]
  BY <1>1
<1>3. \A k \in DOMAIN chain' : chain'[k] \in JobRow
  BY <1>2
<1> QED BY <1>2, <1>3

(* The chain with its first job in another step. *)
LEMMA HeadChanged ==
  ASSUME TypeOK, chain # <<>>, NEW job \in JobRow, chain' = [chain EXCEPT ![1] = job]
  PROVE  /\ DOMAIN chain' = DOMAIN chain /\ chain'[1] = job /\ 1 \in DOMAIN chain
         /\ \A k \in DOMAIN chain : k # 1 => chain'[k] = chain[k]
         /\ \A k \in DOMAIN chain : chain[k] \in JobRow
<1>1. chain \in Seq(JobRow)
  BY Types
<1>2. DOMAIN chain = 1..Len(chain) /\ Len(chain) \in Nat /\ 1 \in DOMAIN chain
  BY <1>1
<1> QED BY <1>1, <1>2

LEMMA L_Job ==
  ASSUME IInv, OneLoop, chain # <<>>, Ends \/ GoesOn, used'.hangs = used.hangs
  PROVE  OneLoop'
<1>0. tick \in [Loops -> Loop] /\ used \in Used /\ 0 \notin Loops /\ Head1.by \in Loops \cup {0}
      /\ TypeOK
  BY Types, Rest, Sizes, HeadOf DEF IInv
<1>1. CASE Ends
  <2>1. chain' = Tail(chain)
    BY <1>1 DEF Ends
  <2>2. /\ 1 \in DOMAIN chain
        /\ \A k \in DOMAIN chain' : k + 1 \in DOMAIN chain /\ k + 1 # 1 /\ k \in Nat
                                   /\ chain'[k] = chain[k + 1]
    BY <1>0, <2>1, TailOf
  <2>3. Head1.by # 0 => \A k \in DOMAIN chain' : chain'[k].by = 0
    BY <2>2 DEF OneLoop, Head1
  <2>4. Head1.by # 0 => tick[Head1.by].pc \in Waits
    BY <2>2 DEF OneLoop, Head1
  <2>5. AfterJob \notin {"off", "hung"}
    BY DEF AfterJob
  <2>6. CASE Head1.by = 0
    <3>1. tick' = tick
      BY <1>1, <2>6 DEF Ends
    <3>2. \A k, l \in DOMAIN chain' : chain'[k].by # 0 /\ chain'[l].by # 0 => k = l
      <4> TAKE k, l \in DOMAIN chain'
      <4>1. chain[k + 1].by # 0 /\ chain[l + 1].by # 0 => k + 1 = l + 1
        BY <2>2 DEF OneLoop
      <4> QED BY <2>2, <4>1
    <3> QED BY <2>2, <3>1, <3>2 DEF OneLoop, Live
  <2>7. CASE Head1.by # 0
    <3>1. PICK i \in Loops : i = Head1.by
      BY <1>0, <2>7
    <3>2. tick' = [tick EXCEPT ![i].pc = AfterJob]
      BY <1>1, <2>7, <3>1 DEF Ends
    <3>3. /\ tick'[i].pc = AfterJob
          /\ \A j \in Loops : j # i => tick'[j] = tick[j]
      BY <1>0, <3>2 DEF Loop
    <3>4. Live(i)
      BY <2>4, <2>7, <3>1 DEF Live, Waits
    <3>5. \A j \in Loops : Live(j)' => j = i
      BY <3>3, <3>4 DEF OneLoop, Live
    <3>6. \A j \in Loops : j > used'.hangs + 1 => tick'[j].pc = "off"
      BY <3>3, <3>4 DEF OneLoop, Live
    <3>7. \A k \in DOMAIN chain' : chain'[k].by = 0 /\ chain'[k].op \in AllOps
      BY <2>2, <2>3, <2>7 DEF OneLoop
    <3> QED BY <3>5, <3>6, <3>7 DEF OneLoop
  <2> QED BY <2>6, <2>7
<1>2. CASE GoesOn
  <2>1. PICK job \in JobRow : /\ chain' = [chain EXCEPT ![1] = job] /\ tick' = tick
                              /\ job.by = Head1.by /\ job.op = Head1.op
    BY <1>2 DEF GoesOn
  <2>2. /\ DOMAIN chain' = DOMAIN chain /\ chain'[1] = job /\ 1 \in DOMAIN chain
        /\ \A k \in DOMAIN chain : k # 1 => chain'[k] = chain[k]
    BY <1>0, <2>1, HeadChanged
  <2>3. \A k \in DOMAIN chain : chain'[k].by = chain[k].by /\ chain'[k].op = chain[k].op
    BY <2>1, <2>2 DEF Head1
  <2> QED BY <2>1, <2>2, <2>3 DEF OneLoop, Live
<1> QED BY <1>1, <1>2

LEMMA L_Hang ==
  ASSUME IInv, OneLoop, NEW i \in Loops, Hang(i) \/ Watchdog(i), ~Slow
  PROVE  /\ OneLoop' /\ \A j \in Loops : Live(j)' => tick'[j].pc \in {"watchdog", "idle"}
         /\ \A k \in DOMAIN chain' : chain'[k].by = 0
<1>0. tick \in [Loops -> Loop] /\ used \in Used /\ 0 \notin Loops /\ Loops = 1..(MaxHangs + 1)
      /\ MaxHangs \in Nat /\ chain' = chain
  BY Types, Rest, Sizes DEF IInv, Loops, Hang, Watchdog
<1>1. Live(i) /\ tick[i].pc \notin Waits
  BY DEF Hang, Watchdog, Live, Waits
<1>2. \A k \in DOMAIN chain : chain[k].by = 0
  BY <1>1, NoJobs DEF IInv
<1>3. CASE Watchdog(i)
  <2>1. tick'[i].pc = "idle" /\ \A j \in Loops : j # i => tick'[j] = tick[j]
    BY <1>0, <1>3 DEF Watchdog, Loop
  <2> QED BY <1>0, <1>1, <1>2, <1>3, <2>1 DEF OneLoop, Live, Watchdog
<1>4. CASE Hang(i)
  <2> DEFINE n == used.hangs + 2
  <2>1. used.hangs \in Nat /\ n \in Loops /\ used'.hangs = used.hangs + 1
    BY <1>0, <1>4 DEF Hang, Used
  <2>2. i # n
    <3>1. i <= used.hangs + 1
      BY <1>0, <1>1, <2>1 DEF OneLoop, Live
    <3> QED BY <1>0, <2>1, <3>1
  <2>3. tick' = [tick EXCEPT ![i].pc = "hung", ![n].pc = "watchdog"]
    <3>1. used'.hangs + 1 = n
      BY <2>1
    <3> QED BY <1>4, <3>1 DEF Hang
  <2> HIDE DEF n
  <2>4. /\ tick'[i].pc = "hung" /\ tick'[n].pc = "watchdog"
        /\ \A j \in Loops \ {i, n} : tick'[j] = tick[j]
    BY <1>0, <2>1, <2>2, <2>3 DEF Loop
  <2>5. \A j \in Loops : Live(j)' => j = n
    BY <1>1, <2>4 DEF OneLoop, Live
  <2>6. \A j \in Loops : j > used'.hangs + 1 => tick'[j].pc = "off"
    <3> SUFFICES ASSUME NEW j \in Loops, j > used.hangs + 2 PROVE tick'[j].pc = "off"
      BY <2>1
    <3>1. j # n /\ j > used.hangs + 1
      BY <1>0, <2>1 DEF n
    <3>2. tick[j].pc = "off"
      BY <3>1 DEF OneLoop
    <3> QED BY <1>1, <2>4, <3>1, <3>2 DEF Live
  <2> QED BY <1>0, <1>2, <2>4, <2>5, <2>6 DEF OneLoop
<1> QED BY <1>3, <1>4
LEMMA L_Request ==
  ASSUME IInv, OneLoop,
         (\E op \in AllOps : Ask(op)) \/ AskLate \/ LeverageRead \/ LeverageSave \/ TimePasses
  PROVE  /\ OneLoop' /\ tick' = tick
         /\ \A k \in DOMAIN chain' :
              \/ k \in DOMAIN chain /\ chain'[k] = chain[k]
              \/ chain'[k].by = 0 /\ chain'[k].op # "unlock"
<1>0. /\ chain \in Seq(JobRow) /\ used \in Used /\ tick' = tick
  BY Types, Rest DEF IInv, Ask, AskLate, LeverageRead, LeverageSave, TimePasses
<1>1. used'.hangs = used.hangs
  <2>1. UNCHANGED used \/ used' = [used EXCEPT !.calls = @ + 1]
    BY DEF Ask, AskLate, LeverageRead, LeverageSave, TimePasses
  <2> QED BY <1>0, <2>1 DEF Used
<1>2. ASSUME NEW k \in DOMAIN chain'
      PROVE  \/ k \in DOMAIN chain /\ chain'[k] = chain[k]
             \/ chain'[k].by = 0 /\ chain'[k].op \in AllOps
  <2>1. CASE chain' = chain
    BY <2>1
  <2>2. ASSUME NEW op \in AllOps, Ask(op)
        PROVE  \/ k \in DOMAIN chain /\ chain'[k] = chain[k]
               \/ chain'[k].by = 0 /\ chain'[k].op \in AllOps
    <3> DEFINE job == Job(op, 0, clock.date)
    <3>1. job.by = 0 /\ job.op = op /\ chain' = Append(chain, job)
      BY <2>2 DEF Job, Ask
    <3> HIDE DEF job
    <3>2. /\ DOMAIN chain = 1..Len(chain) /\ DOMAIN chain' = 1..(Len(chain) + 1)
          /\ Len(chain) \in Nat
          /\ \A m \in DOMAIN chain : chain'[m] = chain[m]
          /\ chain'[Len(chain) + 1] = job
      BY <1>0, <3>1
    <3> QED BY <3>1, <3>2
  <2> QED BY <2>1, <2>2 DEF AskLate, LeverageRead, LeverageSave, TimePasses
<1>3. OneLoop'
  BY <1>0, <1>1, <1>2 DEF OneLoop, Live
<1>4. \A op \in AllOps : op # "unlock"
  BY DEF AllOps
<1> QED BY <1>0, <1>2, <1>3, <1>4

(* A crash and a job whose call fails leave a loop that is idle. *)
LEMMA L_Crash ==
  ASSUME IInv, OneLoop, Crash \/ JobFault
  PROVE  /\ OneLoop' /\ \A j \in Loops : Live(j)' => tick'[j] = IdleTick
         /\ \A k \in DOMAIN chain' : chain'[k].by = 0
<1>0. tick \in [Loops -> Loop] /\ used \in Used /\ 0 \notin Loops /\ 1 \in Loops
      /\ Loops \subseteq Nat /\ TypeOK
  BY Types, Rest, Sizes DEF IInv
<1>1. used'.hangs = used.hangs /\ used.hangs \in Nat
  BY <1>0, Sizes DEF Crash, JobFault, Trouble, Used
<1>2. CASE Crash
  <2>1. chain' = <<>>
    BY <1>2 DEF Crash
  <2>2. /\ tick'[1] = IdleTick
        /\ \A j \in Loops : j # 1 => tick'[j].pc = "off"
    BY <1>0, <1>2 DEF Crash, IdleTick
  <2> QED BY <1>0, <1>1, <2>1, <2>2 DEF OneLoop, Live, IdleTick
<1>3. CASE JobFault
  <2>1. chain # <<>> /\ chain' = Tail(chain) /\ Finish(Head1.by) /\ Head1.op \in {"navs", "settle"}
    BY <1>3 DEF JobFault
  <2>2. /\ 1 \in DOMAIN chain
        /\ \A k \in DOMAIN chain' : k + 1 \in DOMAIN chain /\ k + 1 # 1 /\ k \in Nat
                                   /\ chain'[k] = chain[k + 1]
    BY <1>0, <2>1, TailOf
  <2>3. Head1.by # 0
    BY <2>1, <2>2 DEF OneLoop, Head1, AllOps
  <2>4. PICK i \in Loops : i = Head1.by
    BY <1>0, <2>1, <2>3, HeadOf
  <2>5. \A k \in DOMAIN chain' : chain'[k].by = 0 /\ chain'[k].op \in AllOps
    BY <2>2, <2>3 DEF OneLoop, Head1
  <2>6. tick[i].pc \in Waits
    BY <2>2, <2>3, <2>4 DEF OneLoop, Head1
  <2>7. tick'[i] = IdleTick /\ \A j \in Loops : j # i => tick'[j] = tick[j]
    BY <1>0, <2>1, <2>4 DEF Finish
  <2>8. \A j \in Loops : Live(j)' => j = i
    BY <2>6, <2>7 DEF OneLoop, Live, Waits
  <2>9. \A j \in Loops : j > used'.hangs + 1 => tick'[j].pc = "off"
    BY <1>1, <2>6, <2>7 DEF OneLoop, Waits
  <2> QED BY <2>5, <2>7, <2>8, <2>9 DEF OneLoop
<1> QED BY <1>2, <1>3

LEMMA L_Init == Init => OneLoop
<1> SUFFICES ASSUME Init PROVE OneLoop
  OBVIOUS
<1>1. chain = <<>> /\ used.hangs = 0 /\ Loops \subseteq Nat
  BY Sizes DEF Init
<1>2. \A i \in Loops : i # 1 => tick[i].pc = "off"
  BY DEF Init, IdleTick
<1> QED BY <1>1, <1>2 DEF OneLoop, Live

LEMMA KeptCopies ==
  ASSUME TypeOK, DayCopies, Appended, account'.cn.day = account.cn.day
  PROVE  DayCopies'
<1>1. chain \in Seq(JobRow)
  BY Types
<1>2. CASE chain' = chain
  BY <1>2 DEF DayCopies
<1>3. ASSUME NEW job, Queued(job), chain' = Append(chain, job)
      PROVE  DayCopies'
  <2>1. (chain'[1] = chain[1] /\ chain # <<>>) \/ chain'[1] = job
    BY <1>1, <1>3 DEF Queued
  <2> QED BY <1>3, <2>1 DEF DayCopies, Queued, Holding
<1> QED BY <1>2, <1>3 DEF Appended

LEMMA LeftCopies ==
  ASSUME TypeOK, Copies, chain # <<>>, chain' = Tail(chain)
  PROVE  DayCopies'
<1>1. chain' \in Seq(JobRow)
      /\ \A k \in DOMAIN chain' : k + 1 \in DOMAIN chain /\ k + 1 > 1 /\ chain'[k] = chain[k + 1]
  BY TailOf, Types
<1>2. \A k \in DOMAIN chain' : chain'[k].step = "queued"
  BY <1>1 DEF Copies
<1>3. chain' # <<>> => 1 \in DOMAIN chain'
  BY <1>1
<1> QED BY <1>2, <1>3 DEF DayCopies, Holding

LEMMA RowOf ==
  ASSUME account \in [cn: Row, us: Int], NEW r, account' = [account EXCEPT !.cn = r]
  PROVE  account'.cn = r
OBVIOUS

(* Rows keep the day they are settled for, but for the daily settlement. *)
LEMMA JobDays ==
  ASSUME IInv, DayCopies, Job1
  PROVE  /\ DayCopies'
         /\ ghost'.endedOn = ghost.endedOn
         /\ ~SettleDaily => account'.cn.day = account.cn.day /\ ghost'.settled = ghost.settled
         /\ ~SettleNavs => fund'.day = fund.day /\ fund'.nav = fund.nav
<1>0. /\ chain # <<>> /\ Head1 \in JobRow /\ account \in [cn: Row, us: Int] /\ ghost \in Ghost
      /\ TypeOK /\ Copies /\ fund \in [shares: Nat, nav: Nat, day: Nat]
  <2>1. chain # <<>>
    BY JobShape DEF IInv
  <2> QED BY <2>1, HeadOf, Types DEF IInv
<1>1. /\ Head1.copy \in [cn: Row, us: Int] /\ Head1.day \in Nat
      /\ Head1.step \in Holding => Head1.copy.cn.day = account.cn.day
  BY <1>0 DEF JobRow, DayCopies, Head1
<1> DEFINE row == Head1.copy.cn
<1>2. \A c : [row EXCEPT !.cash = c].day = row.day
  BY <1>1 DEF Row
<1>3. /\ Bought(row).day = row.day /\ Sold(row).day = row.day
  BY <1>1 DEF Row, Bought, Sold
<1>4. \A r : [account EXCEPT !.cn = r].cn = r
  BY <1>0
<1>5. Done => DayCopies'
  BY <1>0, LeftCopies DEF Done
<1>6. ghost'.endedOn = ghost.endedOn
  BY <1>0 DEF Job1, Read, Transfer, Subscribe, Redeem, Reset, Buy, Sell, ResetBoughtToday,
         SettleNavs, SnapshotHolders, PayRead, PayAccount, PayMark, SettleRead, SettleDaily,
         SettleTier, Ghost
<1>7. CASE Transfer
  <2>1. account'.cn = [row EXCEPT !.cash = row.cash - 2] /\ row.day = account.cn.day
    BY <1>1, <1>7 DEF Transfer, Is, Holding
  <2> QED BY <1>0, <1>2, <1>5, <1>6, <1>7, <2>1 DEF Transfer, Ghost
<1>8. CASE Subscribe \/ Redeem
  <2>1. row.day = account.cn.day
    BY <1>1, <1>8 DEF Subscribe, Redeem, Is, Holding
  <2>2. account'.cn.day = row.day
    <3>1. PICK c : account' = [account EXCEPT !.cn = [row EXCEPT !.cash = c]]
      BY <1>8 DEF Subscribe, Redeem
    <3> DEFINE new == [row EXCEPT !.cash = c]
    <3>2. account' = [account EXCEPT !.cn = new] /\ new.day = row.day
      BY <1>2, <3>1
    <3> HIDE DEF new, row
    <3> QED BY <1>0, <3>2, RowOf
  <2>3. ghost'.settled = ghost.settled /\ fund'.day = fund.day /\ fund'.nav = fund.nav
    BY <1>0, <1>8 DEF Subscribe, Redeem, Ghost
  <2> QED BY <1>5, <1>6, <1>8, <2>1, <2>2, <2>3 DEF Subscribe, Redeem
<1>9. CASE Reset \/ Buy \/ Sell
  <2>1. row.day = account.cn.day
    BY <1>1, <1>9 DEF Reset, Buy, Sell, Is, Holding
  <2>2. account'.cn.day = row.day
    <3>1. PICK new : new.day = row.day /\ account' = [account EXCEPT !.cn = new]
      BY <1>3, <1>9 DEF Reset, Buy, Sell
    <3> QED BY <1>0, <3>1, RowOf
  <2>3. ghost'.settled = ghost.settled /\ fund' = fund
    BY <1>0, <1>9 DEF Reset, Buy, Sell, Ghost
  <2> QED BY <1>5, <1>6, <1>9, <2>1, <2>2, <2>3 DEF Reset, Buy, Sell
<1>10. CASE ResetBoughtToday \/ SettleNavs \/ SnapshotHolders \/ PayMark
  BY <1>5, <1>6, <1>10 DEF ResetBoughtToday, SettleNavs, SnapshotHolders, PayMark
<1>11. CASE Read \/ PayRead \/ SettleRead
  <2>1. UNCHANGED <<account, fund, ghost>>
    BY <1>11 DEF Read, PayRead, SettleRead
  <2>2. Done \/ \E step \in {"write", "pay", "mark", "daily", "tier"} :
                     chain' = [chain EXCEPT ![1].step = step, ![1].copy = account]
    BY <1>11 DEF Read, PayRead, SettleRead
  <2>3. ASSUME NEW step \in {"write", "pay", "mark", "daily", "tier"},
               chain' = [chain EXCEPT ![1].step = step, ![1].copy = account]
        PROVE  DayCopies'
    <3> DEFINE job == [Head1 EXCEPT !.step = step, !.copy = account]
    <3>1. job \in JobRow /\ job.copy = account
      BY <1>0 DEF JobRow
    <3>2. chain' = [chain EXCEPT ![1] = job]
      BY <2>3 DEF Head1
    <3> HIDE DEF job
    <3>3. chain'[1] = job
      BY <1>0, <3>1, <3>2, HeadChanged
    <3> QED BY <2>1, <3>1, <3>3 DEF DayCopies
  <2> QED BY <1>5, <1>6, <2>1, <2>2, <2>3
<1>12. CASE PayAccount
  <2> DEFINE job == [Head1 EXCEPT !.step = "mark"]
  <2>1. job \in JobRow /\ job.step = "mark"
    BY <1>0 DEF JobRow
  <2>2. chain' = [chain EXCEPT ![1] = job]
    BY <1>12 DEF PayAccount, Step, Head1
  <2> HIDE DEF job
  <2>3. chain'[1].step = "mark"
    BY <1>0, <2>1, <2>2, HeadChanged
  <2>4. PICK c : account' = [account EXCEPT !.cn = [row EXCEPT !.cash = c]]
    BY <1>12 DEF PayAccount
  <2>5. account'.cn.day = row.day /\ row.day = account.cn.day
    <3> DEFINE new == [row EXCEPT !.cash = c]
    <3>1. account' = [account EXCEPT !.cn = new] /\ new.day = row.day
      BY <1>2, <2>4
    <3>2. row.day = account.cn.day
      BY <1>1, <1>12 DEF PayAccount, Is, Holding
    <3> HIDE DEF new, row
    <3> QED BY <1>0, <3>1, <3>2, RowOf
  <2>6. ghost'.settled = ghost.settled /\ fund' = fund
    BY <1>0, <1>12 DEF PayAccount, Ghost
  <2> QED BY <1>6, <2>3, <2>5, <2>6 DEF DayCopies, Holding
<1>13. CASE SettleTier
  <2>1. account'.cn = row /\ row.day = account.cn.day
    BY <1>1, <1>4, <1>13 DEF SettleTier, Is, Holding
  <2> QED BY <1>5, <1>6, <1>13, <2>1 DEF SettleTier
<1>14. CASE SettleDaily
  <2> DEFINE new == [row EXCEPT !.cash = row.cash - Interest(row), !.day = Head1.day]
             copy == [Head1.copy EXCEPT !.cn = new]
             job == [Head1 EXCEPT !.step = "tier", !.copy = copy]
  <2>1. row.cash - Interest(row) \in Int
    BY <1>1 DEF Interest, Row
  <2>2. new \in Row
    <3> HIDE DEF row
    <3>1. row \in Row
      BY <1>1 DEF row
    <3> QED BY <1>1, <2>1, <3>1 DEF Row
  <2>3. account' = [account EXCEPT !.cn = new] /\ chain' = [chain EXCEPT ![1] = job]
    BY <1>14 DEF SettleDaily, Head1
  <2> HIDE DEF new
  <2>4. copy \in [cn: Row, us: Int] /\ copy.cn = new
    BY <1>1, <2>2
  <2> HIDE DEF copy
  <2>5. job \in JobRow /\ job.copy = copy
    BY <1>0, <2>4 DEF JobRow
  <2> HIDE DEF job
  <2>6. chain'[1] = job
    BY <1>0, <2>3, <2>5, HeadChanged
  <2>7. account'.cn = new /\ fund' = fund
    BY <1>4, <1>14, <2>3 DEF SettleDaily
  <2> QED BY <1>6, <1>14, <2>4, <2>5, <2>6, <2>7 DEF DayCopies
<1> QED BY <1>7, <1>8, <1>9, <1>10, <1>11, <1>12, <1>13, <1>14 DEF Job1

-----------------------------------------------------------------------------
(* The books: the calendar in memory and in the store, and the days of the rows. *)

LEMMA Scalars ==
  ASSUME TypeOK
  PROVE  /\ market.gameDay \in Nat /\ market.active \in Nat /\ market.active <= MaxDate
         /\ market.closedOn \in Nat /\ market.cal.closedOn \in Nat /\ market.cal.date \in Nat
         /\ saved.gameDay \in Nat /\ saved.cal.date \in Nat /\ saved.cal.closedOn \in Nat
         /\ clock.date \in Nat /\ clock.date <= MaxDate /\ clock.date >= 1
         /\ market.closing \in Record /\ saved.closing \in Record
         /\ fund.day \in Nat /\ fund.nav \in Nat /\ account.cn.day \in Nat
         /\ \A i \in Loops : tick[i] \in Loop /\ tick[i].day \in Nat /\ tick[i].date \in Nat
         /\ ghost.endedOn \in [GameDays -> Dates] /\ ghost.settled \in [GameDays -> Nat]
         /\ MaxDate \in Nat /\ Dates = 0..MaxDate /\ GameDays = 1..(2 * MaxDate + 2)
<1>1. MaxDate \in Nat /\ Dates = 0..MaxDate /\ GameDays = 1..(2 * MaxDate + 2)
  BY Sizes DEF Dates, GameDays
<1>2. /\ market.gameDay \in Nat /\ market.active \in Nat /\ market.active <= MaxDate
      /\ market.closedOn \in Nat /\ market.cal.closedOn \in Nat /\ market.cal.date \in Nat
      /\ market.closing \in Record
  <2>1. /\ market.gameDay \in Nat /\ market.active \in Dates /\ market.closedOn \in Dates
        /\ market.cal \in Calendar /\ market.closing \in Record
    BY Types DEF Market
  <2>2. market.cal.closedOn \in Dates /\ market.cal.date \in Dates
    BY <2>1 DEF Calendar
  <2> QED BY <1>1, <2>1, <2>2
<1>3. /\ saved.gameDay \in Nat /\ saved.cal.date \in Nat /\ saved.cal.closedOn \in Nat
      /\ saved.closing \in Record
  <2>1. saved.gameDay \in Nat /\ saved.cal \in Calendar /\ saved.closing \in Record
    BY Types
  <2>2. saved.cal.closedOn \in Dates /\ saved.cal.date \in Dates
    BY <2>1 DEF Calendar
  <2> QED BY <1>1, <2>1, <2>2
<1>4. clock.date \in Nat /\ clock.date <= MaxDate /\ clock.date >= 1
  BY <1>1, Rest
<1>5. fund.day \in Nat /\ fund.nav \in Nat /\ account.cn.day \in Nat
  BY Types DEF Row
<1>6. \A i \in Loops : tick[i] \in Loop /\ tick[i].day \in Nat /\ tick[i].date \in Nat
  BY <1>1, Types DEF Loop
<1>7. ghost.endedOn \in [GameDays -> Dates] /\ ghost.settled \in [GameDays -> Nat]
  BY Types DEF Ghost
<1> QED BY <1>1, <1>2, <1>3, <1>4, <1>5, <1>6, <1>7

(* Steps that leave the calendar and the rows' days alone. *)
Books == <<market.gameDay, market.active, market.closing, market.closedOn, market.cal.date,
           market.cal.closedOn, saved.gameDay, saved.cal.date, saved.cal.closedOn, saved.closing,
           fund.day, fund.nav, account.cn.day, ghost.endedOn, ghost.settled>>

LEMMA KeptLedger ==
  ASSUME TypeOK, Ledger, UNCHANGED Books, clock'.date \in Nat, clock.date <= clock'.date
  PROVE  Ledger'
<1>1. InMemory' /\ InStore'
  BY DEF Ledger, InMemory, InStore, Consistent, Books
<1>2. DaysOrdered' /\ Charged'
  BY DEF Ledger, DaysOrdered, Charged, Books
<1>3. DatesOrdered'
  <2>1. clock.date \in Nat /\ market.cal.date \in Nat /\ saved.cal.date \in Nat
    BY Scalars
  <2> QED BY <2>1 DEF Ledger, DatesOrdered, Books
<1> QED BY <1>1, <1>2, <1>3 DEF Ledger

LEMMA KeptPlace ==
  ASSUME TypeOK, UNCHANGED Books, clock'.date \in Nat, clock.date <= clock'.date
  PROVE  /\ CloseSaved' = CloseSaved /\ Fresh' = Fresh /\ Over' = Over
         /\ \A i \in Loops : tick'[i] = tick[i] /\ Stage(i) => Stage(i)'
         /\ \A job : job.by \in Loops /\ tick'[job.by] = tick[job.by] /\ JobAt(job) => JobAt(job)'
<1>1. CloseSaved' = CloseSaved /\ Fresh' = Fresh /\ Over' = Over
  BY DEF CloseSaved, Fresh, Over, Books
<1>2. ASSUME NEW i \in Loops, tick'[i] = tick[i], Stage(i) PROVE Stage(i)'
  BY <1>1, <1>2, Scalars DEF Stage, Books
<1>3. ASSUME NEW job, tick'[job.by] = tick[job.by], JobAt(job) PROVE JobAt(job)'
  BY <1>1, <1>3 DEF JobAt, Books
<1> QED BY <1>1, <1>2, <1>3

-----------------------------------------------------------------------------
(* The steps of a tick. *)

(* After a step of loop i: the books agree, it is where it should be, and what it
   asks of the chain fits. *)
Asked(i) == chain' = chain \/ \E job : /\ chain' = Append(chain, job) /\ job.by = i
                                      /\ JobAt(job)'
Placed(i) == Ledger' /\ Stage(i)' /\ Asked(i)

LEMMA Moved ==
  ASSUME TypeOK, NEW i \in Loops, NEW pc, Go(i, pc)
  PROVE  tick'[i].pc = pc /\ tick'[i].date = tick[i].date /\ tick'[i].day = tick[i].day
BY Types DEF Go, Loop

LEMMA Rested ==
  ASSUME TypeOK, NEW i \in Loops, Finish(i)
  PROVE  tick'[i].pc = "idle"
BY Types DEF Finish, IdleTick

LEMMA P_Plain ==
  ASSUME TypeOK, DayInv, NEW i \in Loops, Live(i),
         EndTick(i) \/ Generate(i) \/ DayInit(i) \/ Auction(i) \/ Unlock(i)
  PROVE  Placed(i)
<1>1. UNCHANGED Books /\ UNCHANGED clock /\ market.closing = None
      /\ market' \in Market
  <2>1. market \in Market
    BY Types
  <2>2. market.closing = None
    BY DEF DayInv, Stages, Stage, EndTick, Generate, DayInit, Auction, Unlock, Morning
  <2> QED BY <2>1, <2>2 DEF EndTick, Generate, DayInit, Auction, Unlock, Books, Market
<1>2. Ledger'
  BY <1>1, KeptLedger, Scalars DEF DayInv
<1>3. Stage(i)
  BY DEF DayInv, Stages
<1>4. CASE EndTick(i)
  <2>1. Stage(i)'
    BY <1>1, <1>3, <1>4, Rested DEF EndTick, Stage, Morning, Books
  <2> QED BY <1>2, <1>4, <2>1 DEF Placed, Asked, EndTick
<1>5. CASE Generate(i) \/ DayInit(i)
  <2>1. tick[i].pc \in Morning /\ \E pc \in Morning : Go(i, pc)
    BY <1>5 DEF Generate, DayInit, Morning
  <2>2. tick'[i].pc \in Morning /\ tick'[i].date = tick[i].date
    BY <2>1, Moved
  <2>3. Stage(i)'
    BY <1>1, <1>3, <2>1, <2>2 DEF Stage, Morning, Books
  <2> QED BY <1>2, <1>5, <2>3 DEF Placed, Asked, Generate, DayInit
<1>6. CASE Unlock(i)
  <2>1. tick'[i].pc = "wait" /\ tick'[i].date = tick[i].date
    BY <1>6, Moved DEF Unlock
  <2>2. PICK job : /\ chain' = Append(chain, job)
                   /\ job.op = "unlock" /\ job.by = i /\ job.step = "queued"
    BY <1>6 DEF Unlock, Job
  <2>3. Stage(i)'
    BY <1>1, <1>3, <1>6, <2>1 DEF Stage, Morning, Books, Unlock
  <2>4. JobAt(job)'
    BY <1>1, <1>3, <1>6, <2>1, <2>2 DEF Stage, JobAt, Morning, Books, Unlock, AllOps
  <2> QED BY <1>2, <2>1, <2>2, <2>3, <2>4 DEF Placed, Asked
<1>7. CASE Auction(i)
  <2>1. /\ tick[i].pc \in {"auction", "dayAuction"}
        /\ \/ /\ chain' = Append(chain, Job("buy", i, clock.date))
              /\ Go(i, IF tick[i].pc = "auction" THEN "waitEnd" ELSE "waitMatch")
           \/ /\ chain' = chain /\ Go(i, IF tick[i].pc = "auction" THEN "end" ELSE "match")
    BY <1>7 DEF Auction, Go
  <2>2. /\ tick'[i].date = tick[i].date
        /\ tick[i].pc = "auction" => tick'[i].pc \in {"waitEnd", "end"}
        /\ tick[i].pc = "dayAuction" => tick'[i].pc \in {"waitMatch", "match"}
    BY <2>1, Moved
  <2>3. Stage(i)'
    BY <1>1, <1>3, <2>1, <2>2 DEF Stage, Morning, Books
  <2>4. chain' # chain => \E job : /\ chain' = Append(chain, job) /\ job.by = i
                                   /\ JobAt(job)'
    <3> SUFFICES ASSUME chain' # chain
                 PROVE  \E job : chain' = Append(chain, job) /\ job.by = i /\ JobAt(job)'
      OBVIOUS
    <3>1. PICK job : /\ chain' = Append(chain, job)
                     /\ job.op = "buy" /\ job.by = i /\ job.step = "queued"
      BY <2>1 DEF Job
    <3>2. tick'[i].pc \in {"waitEnd", "waitMatch"}
      BY <2>1, Moved
    <3>3. JobAt(job)'
      BY <3>1, <3>2 DEF JobAt, AllOps
    <3> QED BY <3>1, <3>3
  <2> QED BY <1>2, <2>3, <2>4 DEF Placed, Asked
<1> QED BY <1>4, <1>5, <1>6, <1>7

LEMMA P_Fault ==
  ASSUME TypeOK, DayInv, NEW i \in Loops, Live(i), Fault(i), "persistClosed" \notin Failing
  PROVE  Placed(i)
<1>1. UNCHANGED Books /\ UNCHANGED clock /\ chain' = chain /\ tick[i].pc # "persistClosed"
  BY DEF Fault, Books
<1>2. Ledger'
  BY <1>1, KeptLedger, Scalars DEF DayInv
<1>3. Stage(i)'
  BY <1>1, Rested DEF Fault, DayInv, Stages, Stage, Morning, Books
<1> QED BY <1>1, <1>2, <1>3 DEF Placed, Asked

LEMMA P_Queue ==
  ASSUME TypeOK, DayInv, NEW i \in Loops, Live(i), Queue(i)
  PROVE  Placed(i)
<1>1. UNCHANGED Books /\ UNCHANGED clock /\ tick[i].day \in Nat /\ market.gameDay \in Nat
  BY Scalars DEF Queue, Books
<1>2. Ledger'
  BY <1>1, KeptLedger, Scalars DEF DayInv
<1>3. Stage(i)
  BY DEF DayInv, Stages
<1>4. tick[i].pc \in {"navs", "snapshot", "pay", "settle"}
  BY DEF Queue
<1>5. CASE /\ chain' = chain /\ tick[i].pc \in {"snapshot", "pay"}
           /\ \E pc \in {"pay", "dayEnd"} : Go(i, pc)
  <2>1. /\ tick'[i].pc \in {"pay", "dayEnd"}
        /\ tick'[i].date = tick[i].date /\ tick'[i].day = tick[i].day
    BY <1>5, Moved
  <2>2. Stage(i)'
    BY <1>1, <1>3, <1>5, <2>1 DEF Stage, Morning, Fresh, CloseSaved, Books
  <2> QED BY <1>2, <1>5, <2>2 DEF Placed, Asked
<1>6. ASSUME NEW day, chain' = Append(chain, Job(tick[i].pc, i, day)), Go(i, "wait"),
             day = IF tick[i].pc = "snapshot" THEN market.gameDay + 1
                   ELSE IF tick[i].pc = "pay" THEN market.gameDay ELSE tick[i].day + 1
      PROVE  Placed(i)
  <2>1. PICK job : /\ chain' = Append(chain, job)
                   /\ job.op = tick[i].pc /\ job.by = i /\ job.step = "queued" /\ job.day = day
    BY <1>6 DEF Job
  <2>2. tick'[i].pc = "wait" /\ tick'[i].date = tick[i].date /\ tick'[i].day = tick[i].day
    BY <1>6, Moved
  <2>3. Stage(i)'
    BY <1>1, <1>3, <1>4, <2>2 DEF Stage, Morning, Books
  <2>4. CloseSaved' = CloseSaved /\ Fresh' = Fresh /\ Over' = Over
    BY <1>1 DEF CloseSaved, Fresh, Over, Books
  <2>5. JobAt(job)'
    BY <1>1, <1>3, <1>4, <1>6, <2>1, <2>2, <2>4 DEF JobAt, AllOps, Stage, Morning, Books
  <2> QED BY <1>2, <2>1, <2>3, <2>5 DEF Placed, Asked
<1>7. \/ chain' = chain /\ tick[i].pc \in {"snapshot", "pay"}
         /\ \E pc \in {"pay", "dayEnd"} : Go(i, pc)
      \/ \E day : /\ chain' = Append(chain, Job(tick[i].pc, i, day)) /\ Go(i, "wait")
                  /\ day = IF tick[i].pc = "snapshot" THEN market.gameDay + 1
                           ELSE IF tick[i].pc = "pay" THEN market.gameDay ELSE tick[i].day + 1
  BY DEF Queue
<1> QED BY <1>5, <1>6, <1>7

LEMMA DaysBounded ==
  ASSUME TypeOK, Ledger
  PROVE  /\ 1..(market.gameDay - 1) \subseteq GameDays /\ market.gameDay \in GameDays
         /\ \A d \in 1..(market.gameDay - 1) : ghost.endedOn[d] \in Nat
<1>1. market.gameDay \in Nat /\ 1 <= market.gameDay /\ market.gameDay - 1 <= MaxDate
  BY Scalars DEF Ledger, InMemory, Consistent
<1>2. MaxDate \in Nat /\ GameDays = 1..(2 * MaxDate + 2)
  BY Scalars
<1>3. 1..(market.gameDay - 1) \subseteq GameDays /\ market.gameDay \in GameDays
  BY <1>1, <1>2
<1>4. \A d \in GameDays : ghost.endedOn[d] \in Nat
  BY Scalars
<1> QED BY <1>3, <1>4

(* No day is being closed: the rows are those of the day. *)
LEMMA SettledRows ==
  ASSUME TypeOK, Ledger, market.closing = None
  PROVE  /\ fund.day = market.gameDay /\ account.cn.day = SettledDay(market.gameDay)
         /\ \A d \in 1..(market.gameDay - 1) : ghost.endedOn[d] <= market.cal.closedOn
BY Scalars DEF Ledger, InMemory, Consistent, Closing, Ending, None

LEMMA P_Begin ==
  ASSUME TypeOK, DayInv, NEW i \in Loops, Live(i), Begin(i)
  PROVE  Placed(i)
<1>0. /\ Stage(i) /\ tick[i].pc = "idle" /\ chain' = chain /\ market \in Market
      /\ tick \in [Loops -> Loop] /\ UNCHANGED <<clock, saved, account, fund, ghost>>
  BY Types DEF DayInv, Stages, Begin
<1>1. market.active <= clock.date /\ market.closedOn = market.cal.closedOn
      /\ market.closedOn <= market.active
  BY <1>0, Scalars DEF Stage, DayInv, Ledger, DatesOrdered, InMemory, Consistent
<1>2. CASE market.closing # None \/ DayOver(clock)
  <2>1. /\ market' = [market EXCEPT !.closing = market'.closing, !.cal.closing = TRUE]
        /\ market'.closing = IF market.closing # None THEN market.closing
                             ELSE Closing(market.gameDay, FALSE)
    BY <1>0, <1>2 DEF Begin, StartClose, Closing, Market
  <2>2. /\ market'.gameDay = market.gameDay /\ market'.active = market.active
        /\ market'.closedOn = market.closedOn /\ market'.cal.date = market.cal.date
        /\ market'.cal.closedOn = market.cal.closedOn
    <3> DEFINE closing == market'.closing
    <3>1. market' = [market EXCEPT !.closing = closing, !.cal.closing = TRUE]
      BY <2>1
    <3> HIDE DEF closing
    <3> QED BY <1>0, <3>1 DEF Market, Calendar
  <2>3. market.closing = None => market.closedOn < market.active
    BY <1>1, <1>2, Scalars DEF DayOver
  <2>4. market'.closing # None
    BY <2>1, Scalars DEF Closing, None, DayInv, Ledger, InMemory, Consistent
  <2>5. InMemory'
    <3>1. CASE market.closing # None
      BY <1>0, <2>1, <2>2, <3>1 DEF DayInv, Ledger, InMemory, Consistent, Ending
    <3>2. CASE market.closing = None
      <4>1. /\ fund.day = market.gameDay /\ account.cn.day = SettledDay(market.gameDay)
            /\ \A d \in 1..(market.gameDay - 1) : ghost.endedOn[d] <= market.cal.closedOn
        BY <3>2, SettledRows DEF DayInv
      <4>2. /\ market.gameDay >= 1 /\ market.gameDay - 1 <= MaxDate
            /\ \A d \in 1..(market.gameDay - 1) : ghost.endedOn[d] <= market.active
        BY DEF DayInv, Ledger, InMemory, Consistent
      <4> QED BY <1>0, <1>1, <2>1, <2>2, <2>3, <3>2, <4>1, <4>2 DEF InMemory, Consistent
    <3> QED BY <3>1, <3>2
  <2>6. InStore' /\ DaysOrdered' /\ Charged' /\ DatesOrdered'
    BY <1>0, <2>2
       DEF DayInv, Ledger, InStore, Consistent, DaysOrdered, Charged, DatesOrdered
  <2>7. tick'[i].pc = "persistClosing" /\ tick'[i].date = clock.date
        /\ tick'[i].day = market'.closing.day
    BY <1>0, <1>2 DEF Begin
  <2>8. Stage(i)'
    BY <1>0, <1>1, <2>2, <2>4, <2>7, Scalars DEF Stage, Morning
  <2> QED BY <1>0, <2>5, <2>6, <2>8 DEF Placed, Asked, Ledger
<1>3. CASE ~(market.closing # None \/ DayOver(clock))
  <2>1. /\ tick'[i].pc = "open" /\ tick'[i].date = clock.date /\ UNCHANGED market
    BY <1>0, <1>3 DEF Begin
  <2>2. market.closedOn < market.active => market.active = clock.date
    BY <1>3, Scalars DEF DayOver
  <2>3. Stage(i)'
    BY <1>0, <1>1, <1>3, <2>1, <2>2, Scalars DEF Stage, Morning
  <2>4. Ledger'
    BY <1>0, <2>1, KeptLedger, Scalars DEF DayInv, Books
  <2> QED BY <1>0, <2>3, <2>4 DEF Placed, Asked
<1> QED BY <1>2, <1>3

LEMMA P_Open ==
  ASSUME TypeOK, DayInv, NEW i \in Loops, Live(i), Open(i)
  PROVE  Placed(i)
<1>0. /\ Stage(i) /\ tick[i].pc = "open" /\ chain' = chain /\ market \in Market
      /\ UNCHANGED <<clock, saved, account, fund, ghost>>
      /\ Ledger /\ tick[i].date \in Nat
  BY Types, Scalars DEF DayInv, Stages, Open
<1>1. /\ market.closing = None /\ market.closedOn = market.cal.closedOn
      /\ market.active <= tick[i].date /\ tick[i].date <= clock.date
      /\ market.closedOn < market.active => market.active = tick[i].date
      /\ market.closedOn <= market.active
  BY <1>0 DEF Stage, Ledger, InMemory, Consistent
<1>2. /\ market'.gameDay = market.gameDay /\ market'.closing = market.closing
      /\ market'.closedOn = market.closedOn /\ market'.cal.closedOn = market.cal.closedOn
      /\ \/ /\ market'.active = tick[i].date /\ market'.cal.date = tick[i].date
            /\ market.closedOn # tick[i].date /\ Go(i, "generate")
         \/ /\ market'.active = market.active
            /\ market'.cal.date \in {tick[i].date, market.cal.date}
            /\ Go(i, "auction") \/ Finish(i)
  <2> DEFINE after == IF clock.slot = PostClose THEN market.gameDay
                      ELSE IF Cancelled(clock.date) THEN 0 ELSE market.afterDay
             auction == clock.slot = 0 /\ market.auctionDay # market.gameDay
             key == <<tick[i].date, tick[i].slot>>
             generates == /\ InSession /\ tick[i].slot \in 1..Minutes
                          /\ market.closedOn # tick[i].date /\ market.minute # key
             bound == IF clock.slot # PostClose /\ (tick[i].slot = 0 \/ generates)
                      THEN tick[i].date ELSE market.cal.date
             aday == IF auction THEN market.gameDay ELSE market.auctionDay
             minute == IF generates THEN key ELSE market.minute
             active == IF generates THEN tick[i].date ELSE market.active
             eday == IF generates THEN market.gameDay ELSE market.engineDay
  <2>1. market' = [market EXCEPT !.afterDay = after, !.cal.date = bound, !.auctionDay = aday,
                                 !.minute = minute, !.active = active, !.engineDay = eday]
    BY DEF Open
  <2>2. generates => Go(i, "generate")
    BY DEF Open
  <2>3. ~generates => Go(i, "auction") \/ Finish(i)
    BY DEF Open
  <2>4. /\ generates => bound = tick[i].date /\ market.closedOn # tick[i].date
        /\ bound \in {tick[i].date, market.cal.date}
    <3>1. InSession => clock.slot # PostClose
      BY Sizes, Types DEF InSession, PostClose
    <3> QED BY <3>1
  <2>6. /\ generates => active = tick[i].date
        /\ ~generates => active = market.active
    OBVIOUS
  <2> HIDE DEF after, auction, key, generates, bound, aday, minute, active, eday
  <2>7. /\ market'.gameDay = market.gameDay /\ market'.closing = market.closing
        /\ market'.closedOn = market.closedOn /\ market'.cal.closedOn = market.cal.closedOn
        /\ market'.active = active /\ market'.cal.date = bound
    BY <1>0, <2>1 DEF Market, Calendar
  <2> QED BY <2>2, <2>3, <2>4, <2>6, <2>7
<1> DEFINE active == market'.active
           bound == market'.cal.date
<1>3. /\ active \in Nat /\ bound \in Nat /\ market.active <= active
      /\ market.closedOn <= active /\ bound <= clock.date /\ active <= bound
      /\ market.closedOn < active => bound = active
      /\ Go(i, "generate") /\ market'.active = tick[i].date => market.closedOn < active
  <2>1. /\ market.active \in Nat /\ market.cal.date \in Nat /\ market.closedOn \in Nat
        /\ clock.date \in Nat
    BY Scalars
  <2>2. /\ market.active <= market.cal.date /\ market.cal.date <= clock.date
        /\ market.closedOn < market.active => market.cal.date = market.active
    BY <1>0, <1>1 DEF Ledger, DatesOrdered
  <2>3. CASE market'.active = tick[i].date /\ market'.cal.date = tick[i].date
             /\ market.closedOn # tick[i].date
    BY <1>0, <1>1, <2>1, <2>3
  <2>4. CASE /\ market'.active = market.active
             /\ market'.cal.date \in {tick[i].date, market.cal.date}
             /\ ~Go(i, "generate")
    BY <1>0, <1>1, <2>1, <2>2, <2>4
  <2>5. (Go(i, "auction") \/ Finish(i)) => ~Go(i, "generate")
    <3>1. Go(i, "generate") => tick'[i].pc = "generate"
      BY Moved
    <3>2. Go(i, "auction") => tick'[i].pc = "auction"
      BY Moved
    <3>3. Finish(i) => tick'[i].pc = "idle"
      BY Rested
    <3> QED BY <3>1, <3>2, <3>3
  <2> QED BY <1>2, <2>3, <2>4, <2>5
<1>4. InMemory'
  <2>1. /\ fund.day = market.gameDay /\ account.cn.day = SettledDay(market.gameDay)
        /\ \A d \in 1..(market.gameDay - 1) : ghost.endedOn[d] <= market.cal.closedOn
        /\ \A d \in 1..(market.gameDay - 1) : ghost.endedOn[d] \in Nat
        /\ market.closedOn \in Nat
    BY <1>0, <1>1, SettledRows, DaysBounded, Scalars
  <2>2. market.gameDay >= 1 /\ market.gameDay - 1 <= MaxDate
    BY <1>0 DEF Ledger, InMemory, Consistent
  <2> QED BY <1>0, <1>1, <1>2, <1>3, <2>1, <2>2 DEF InMemory, Consistent
<1>5. InStore' /\ DaysOrdered' /\ Charged'
  BY <1>0, <1>2 DEF Ledger, InStore, Consistent, DaysOrdered, Charged
<1>6. DatesOrdered'
  BY <1>0, <1>1, <1>2, <1>3 DEF Ledger, DatesOrdered
<1>7. Stage(i)'
  <2>1. CASE Go(i, "generate") /\ market'.active = tick[i].date /\ market.closedOn # tick[i].date
    <3>1. tick'[i].pc = "generate" /\ tick'[i].date = tick[i].date
      BY <2>1, Moved
    <3> QED BY <1>0, <1>1, <1>2, <1>3, <2>1, <3>1 DEF Stage, Morning
  <2>2. CASE Finish(i)
    BY <1>1, <1>2, <2>2, Rested DEF Stage, Morning
  <2>3. CASE market'.active = market.active /\ Go(i, "auction")
    <3>1. tick'[i].pc = "auction" /\ tick'[i].date = tick[i].date
      BY <2>3, Moved
    <3> QED BY <1>0, <1>1, <1>2, <2>3, <3>1 DEF Stage, Morning
  <2> QED BY <1>2, <2>1, <2>2, <2>3
<1> QED BY <1>0, <1>4, <1>5, <1>6, <1>7 DEF Placed, Asked, Ledger

(* What memory says goes to the store: it agrees with the rows there as well. *)
LEMMA Stored ==
  ASSUME TypeOK, Ledger, UNCHANGED <<clock, fund, account, ghost>>,
         saved' = [gameDay |-> market.gameDay, cal |-> saved'.cal, closing |-> market.closing],
         saved'.cal.date = market.cal.date, saved'.cal.closedOn = market.cal.closedOn,
         market.cal.date = market.active,
         market'.gameDay = market.gameDay, market'.active = market.active,
         market'.closing = market.closing, market'.cal.date = market.cal.date,
         market'.cal.closedOn = market.cal.closedOn
  PROVE  Ledger' /\ CloseSaved'
<1>1. saved'.gameDay = market.gameDay /\ saved'.closing = market.closing
  OBVIOUS
<1>2. InMemory' /\ InStore' /\ DaysOrdered' /\ Charged'
  BY <1>1 DEF Ledger, InMemory, InStore, Consistent, DaysOrdered, Charged
<1>3. DatesOrdered' /\ CloseSaved'
  BY <1>1, Scalars DEF Ledger, DatesOrdered, CloseSaved
<1> QED BY <1>2, <1>3 DEF Ledger

LEMMA P_Match ==
  ASSUME TypeOK, DayInv, NEW i \in Loops, Live(i), Match(i)
  PROVE  Placed(i)
<1>0. /\ Stage(i) /\ tick[i].pc = "match" /\ chain' = chain /\ market \in Market
      /\ UNCHANGED <<clock, account, fund, ghost>> /\ Ledger
  BY Types DEF DayInv, Stages, Match
<1>1. /\ market.closing = None /\ market.closedOn = market.cal.closedOn
      /\ market.cal.date = market.active
  BY <1>0 DEF Stage, Morning, Ledger, DatesOrdered
<1> DEFINE cal == [market.cal EXCEPT !.minute = market.minute, !.initDay = market.initDay,
                                     !.auctionDay = market.auctionDay]
<1>2. /\ market' = [market EXCEPT !.cal = cal] /\ Finish(i)
      /\ \/ saved' = [gameDay |-> market.gameDay, cal |-> cal, closing |-> market.closing]
         \/ UNCHANGED saved
  BY DEF Match
<1>3. cal.date = market.cal.date /\ cal.closedOn = market.cal.closedOn
  BY <1>0 DEF Market, Calendar
<1> HIDE DEF cal
<1>4. /\ market'.gameDay = market.gameDay /\ market'.closing = market.closing
      /\ market'.closedOn = market.closedOn /\ market'.active = market.active
      /\ market'.cal.date = market.cal.date /\ market'.cal.closedOn = market.cal.closedOn
  BY <1>0, <1>2, <1>3 DEF Market
<1>5. Ledger'
  <2>1. CASE UNCHANGED saved
    BY <1>0, <1>4, <2>1, KeptLedger, Scalars DEF Books
  <2>2. CASE saved' = [gameDay |-> market.gameDay, cal |-> cal, closing |-> market.closing]
    <3>1. saved'.cal = cal
      BY <2>2
    <3> QED BY <1>0, <1>1, <1>3, <1>4, <2>2, <3>1, Stored
  <2> QED BY <1>2, <2>1, <2>2
<1>6. Stage(i)'
  BY <1>1, <1>2, <1>4, Rested DEF Stage, Morning
<1> QED BY <1>0, <1>5, <1>6 DEF Placed, Asked

LEMMA P_Persist ==
  ASSUME TypeOK, DayInv, NEW i \in Loops, Live(i), Persist(i)
  PROVE  Placed(i)
<1>0. /\ Stage(i) /\ chain' = chain /\ market \in Market
      /\ tick[i].pc \in {"persistClosing", "persistAdvanced", "persistClosed"}
      /\ UNCHANGED <<clock, account, fund, ghost>> /\ Ledger
      /\ saved' = [gameDay |-> market.gameDay, cal |-> market.cal, closing |-> market.closing]
  BY Types DEF DayInv, Stages, Persist
<1>1. /\ market.cal.date = market.active
      /\ tick[i].pc # "persistClosed" => market.closing # None
  BY <1>0, Scalars
     DEF Stage, Morning, Ledger, InMemory, Consistent, Over, Ending, Closing, None, DatesOrdered
<1>2. /\ market'.gameDay = market.gameDay /\ market'.closing = market.closing
      /\ market'.active = market.active /\ market'.cal = market.cal
      /\ tick[i].pc # "persistClosed" => market'.closedOn = market.closedOn
      /\ tick[i].pc = "persistClosed" => market'.closedOn = market.active
  BY <1>0 DEF Persist, Market
<1>3. Ledger' /\ CloseSaved'
  <2>1. saved'.cal = market.cal
    BY <1>0
  <2> QED BY <1>0, <1>1, <1>2, <2>1, Stored
<1>4. /\ tick'[i].date = tick[i].date /\ tick'[i].day = tick[i].day
      /\ tick[i].pc = "persistClosing" => tick'[i].pc = "navs"
      /\ tick[i].pc = "persistAdvanced" => tick'[i].pc = "settle"
      /\ tick[i].pc = "persistClosed" => tick'[i].pc = "open"
  BY Moved DEF Persist
<1>5. Over => Over'
  BY <1>2 DEF Over
<1>6. Stage(i)'
  <2>1. CASE tick[i].pc = "persistClosing"
    BY <1>0, <1>1, <1>2, <1>3, <1>4, <2>1 DEF Stage, Morning
  <2>2. CASE tick[i].pc = "persistAdvanced"
    BY <1>0, <1>2, <1>3, <1>4, <1>5, <2>2 DEF Stage, Morning
  <2>3. CASE tick[i].pc = "persistClosed"
    <3>1. market'.closedOn = market'.active /\ market'.active \in Nat
      BY <1>2, <2>3, Scalars
    <3> QED BY <1>0, <1>2, <1>4, <2>3, <3>1 DEF Stage, Morning
  <2> QED BY <1>0, <2>1, <2>2, <2>3
<1> QED BY <1>0, <1>3, <1>6 DEF Placed, Asked

LEMMA Finished ==
  ASSUME NEW g \in Nat, g >= 1
  PROVE  /\ [Closing(g, FALSE) EXCEPT !.advanced = TRUE] = Closing(g, TRUE)
         /\ Ending(g + 1, Closing(g, TRUE))
<1>1. [Closing(g, FALSE) EXCEPT !.advanced = TRUE] = Closing(g, TRUE)
  <2>1. \A r, s \in Record : r.day = s.day /\ r.advanced = s.advanced => r = s
    BY DEF Record
  <2>2. \A r \in Record : LET s == [r EXCEPT !.advanced = TRUE]
                         IN  s \in Record /\ s.day = r.day /\ s.advanced = TRUE
    BY DEF Record
  <2>3. /\ Closing(g, FALSE) \in Record /\ Closing(g, TRUE) \in Record
        /\ Closing(g, FALSE).day = g /\ Closing(g, TRUE).day = g /\ Closing(g, TRUE).advanced = TRUE
    BY DEF Closing, Record
  <2> QED BY <2>1, <2>2, <2>3
<1>2. PICK h \in Nat : h = g + 1
  OBVIOUS
<1>3. h - 1 = g /\ h > 1
  BY <1>2
<1>4. Ending(h, Closing(g, TRUE))
  BY <1>3 DEF Ending
<1> QED BY <1>1, <1>2, <1>4

LEMMA P_DayEnd ==
  ASSUME TypeOK, DayInv, NEW i \in Loops, Live(i), DayEnd(i)
  PROVE  Placed(i)
<1> DEFINE G == market.gameDay
<1>0. /\ Stage(i) /\ tick[i].pc = "dayEnd" /\ chain' = chain /\ market \in Market
      /\ UNCHANGED <<clock, saved, fund, account>> /\ ghost \in Ghost /\ Ledger
  BY Types DEF DayInv, Stages, DayEnd
<1>1. /\ Fresh /\ tick[i].day = G /\ market.closing = Closing(G, FALSE) /\ CloseSaved
      /\ fund.day = G + 1
  BY <1>0 DEF Stage, Fresh
<1>2. /\ G \in Nat /\ G >= 1 /\ G - 1 <= MaxDate
      /\ market.cal.closedOn < market.active
      /\ \A d \in 1..(G - 1) : ghost.endedOn[d] <= market.cal.closedOn
      /\ account.cn.day = SettledDay(G)
  <2>1. G \in Nat /\ G >= 1 /\ G - 1 <= MaxDate
    BY <1>0, Scalars DEF Ledger, InMemory, Consistent
  <2>2. market.closing.day = G /\ market.closing.advanced = FALSE
    BY <1>1 DEF Closing
  <2>3. market.closing # None /\ ~Ending(G, market.closing)
    BY <2>1, <2>2 DEF Closing, None, Ending
  <2> QED BY <1>0, <2>1, <2>3 DEF Ledger, InMemory, Consistent
<1>3. G <= market.active /\ market.active \in Nat /\ market.active <= MaxDate
  <2>1. G > 1 => G - 1 <= ghost.endedOn[G - 1] /\ ghost.endedOn[G - 1] <= market.cal.closedOn
    BY <1>0, <1>2 DEF Ledger, DaysOrdered
  <2>2. G > 1 => ghost.endedOn[G - 1] \in Nat
    BY <1>0, <1>2, DaysBounded
  <2>3. market.active \in Nat /\ market.cal.closedOn \in Nat /\ market.active <= MaxDate
    BY Scalars
  <2> QED BY <1>2, <2>1, <2>2, <2>3
<1>4. /\ market'.gameDay = G + 1 /\ market'.active = market.active
      /\ market'.closedOn = market.closedOn /\ market'.cal = market.cal
      /\ market'.closing = Closing(G, TRUE)
  <2> DEFINE advanced == market.closing.day = tick[i].day \/ market.closing.advanced
             closing == [market.closing EXCEPT !.advanced = advanced]
  <2>1. market' = [market EXCEPT !.gameDay = G + 1, !.closing = closing]
    BY <1>0 DEF DayEnd, Market
  <2>2. advanced = TRUE
    BY <1>1 DEF Closing
  <2> HIDE DEF advanced
  <2>3. closing = Closing(G, TRUE)
    <3>1. closing = [market.closing EXCEPT !.advanced = TRUE]
      BY <2>2
    <3>2. [market.closing EXCEPT !.advanced = TRUE] = Closing(G, TRUE)
      BY <1>1, <1>2, Finished
    <3> QED BY <3>1, <3>2
  <2> HIDE DEF closing
  <2> QED BY <1>0, <1>2, <2>1, <2>3 DEF Market
<1>5. /\ ghost'.settled = ghost.settled
      /\ ghost'.endedOn[G] = market.active
      /\ \A d \in 1..(G - 1) : ghost'.endedOn[d] = ghost.endedOn[d]
  <2>1. ghost' = [ghost EXCEPT !.endedOn = [ghost.endedOn EXCEPT ![G] = market.active]]
    BY <1>0 DEF DayEnd, Ghost
  <2>2. ghost'.endedOn = [ghost.endedOn EXCEPT ![G] = market.active]
        /\ ghost'.settled = ghost.settled
    BY <1>0, <2>1 DEF Ghost
  <2>3. G \in GameDays /\ 1..(G - 1) \subseteq GameDays /\ G \notin 1..(G - 1)
    BY <1>0, <1>2, DaysBounded
  <2> QED BY <2>2, <2>3, Scalars
<1>6. 1..G = (1..(G - 1)) \cup {G} /\ (G + 1) - 1 = G
  BY <1>2
<1>7. \A d \in 1..(G - 1) : ghost.endedOn[d] < market.active
                            /\ ghost.endedOn[d] <= market.active
  <2>1. \A d \in 1..(G - 1) : ghost.endedOn[d] \in Nat
    BY <1>0, DaysBounded
  <2>2. market.active \in Nat /\ market.cal.closedOn \in Nat
    BY Scalars
  <2> QED BY <1>2, <2>1, <2>2
<1>8. Ending(G + 1, Closing(G, TRUE))
  BY <1>2, Finished
<1> HIDE DEF G
<1>9. InMemory'
  <2>1. \A d \in 1..(G - 1) : ghost'.endedOn[d] <= market.active
    BY <1>5, <1>7
  <2>2. \A d \in 1..G : ghost'.endedOn[d] <= market.active
    BY <1>3, <1>5, <1>6, <2>1
  <2>3. \A d \in 1..G : ghost'.endedOn[d] <= market.cal.closedOn \/ d = G
    BY <1>2, <1>5, <1>6
  <2>4. market.cal.closedOn <= market.active
    <3>1. market.active \in Nat /\ market.cal.closedOn \in Nat
      BY Scalars
    <3> QED BY <1>2, <3>1
  <2>5. G + 1 >= 1 /\ G <= MaxDate
    BY <1>2, <1>3, Scalars
  <2> QED BY <1>0, <1>1, <1>2, <1>4, <1>6, <1>8, <2>2, <2>3, <2>4, <2>5
      DEF InMemory, Consistent
<1>10. InStore'
  <2>1. saved.gameDay = G
    BY <1>1 DEF CloseSaved, G
  <2> QED BY <1>0, <1>5, <2>1 DEF Ledger, InStore, Consistent
<1>11. DaysOrdered'
  <2>1. \A d \in 1..(G - 1) : ghost'.endedOn[d] < market.active
    BY <1>5, <1>7
  <2>2. /\ \A d, e \in 1..(G - 1) : d < e => ghost'.endedOn[d] < ghost'.endedOn[e]
        /\ \A d \in 1..(G - 1) : d <= ghost'.endedOn[d]
    BY <1>0, <1>5 DEF Ledger, DaysOrdered, G
  <2>3. \A d, e \in 1..G : d < e => ghost'.endedOn[d] < ghost'.endedOn[e]
    BY <1>2, <1>5, <1>6, <2>1, <2>2
  <2>4. \A d \in 1..G : d <= ghost'.endedOn[d]
    BY <1>3, <1>5, <1>6, <2>2
  <2> QED BY <1>4, <1>6, <2>3, <2>4 DEF DaysOrdered
<1>12. Charged' /\ DatesOrdered'
  BY <1>0, <1>2, <1>4, <1>5, Scalars DEF Ledger, Charged, DatesOrdered, G
<1>13. Stage(i)'
  <2>1. tick'[i].pc = "persistAdvanced" /\ tick'[i].date = tick[i].date /\ tick'[i].day = G
    BY <1>1, Moved DEF DayEnd, G
  <2>2. Over'
    BY <1>4, <1>8 DEF Over
  <2> QED BY <1>0, <1>4, <1>6, <2>1, <2>2 DEF Stage, Morning
<1> QED BY <1>0, <1>9, <1>10, <1>11, <1>12, <1>13 DEF Placed, Asked, Ledger

LEMMA P_Drop ==
  ASSUME TypeOK, DayInv, NEW i \in Loops, Live(i), Drop(i)
  PROVE  Placed(i)
<1>0. /\ Stage(i) /\ tick[i].pc = "drop" /\ chain' = chain /\ market \in Market
      /\ UNCHANGED <<clock, saved, fund, account, ghost>> /\ Ledger
  BY Types DEF DayInv, Stages, Drop
<1>1. /\ Over /\ account.cn.day = market.gameDay /\ market.gameDay > 1
      /\ market.closing # None /\ market.gameDay \in Nat
  BY <1>0, Scalars DEF Stage, Morning, Over, Ending, Closing, None
<1>2. fund.day = market.gameDay /\ market.cal.closedOn < market.active
      /\ market.cal.date = market.active /\ market.active \in Nat
  BY <1>0, <1>1, Scalars
     DEF Over, Ending, Closing, Ledger, InMemory, Consistent, DatesOrdered
<1>3. /\ market'.gameDay = market.gameDay /\ market'.active = market.active
      /\ market'.closedOn = market.closedOn /\ market'.closing = None
      /\ market'.cal.closedOn = market.active /\ market'.cal.date = market.cal.date
  <2> DEFINE cal == [market.cal EXCEPT !.closing = FALSE, !.closedOn = market.active]
  <2>1. cal.closedOn = market.active /\ cal.date = market.cal.date
    BY <1>0 DEF Market, Calendar
  <2>2. market' = [market EXCEPT !.closing = None, !.cal = cal]
    BY <1>0 DEF Drop, Market
  <2> HIDE DEF cal
  <2> QED BY <1>0, <2>1, <2>2 DEF Market
<1>4. InMemory'
  <2>1. /\ market.gameDay - 1 <= MaxDate
        /\ \A d \in 1..(market.gameDay - 1) : ghost.endedOn[d] <= market.active
    BY <1>0 DEF Ledger, InMemory, Consistent
  <2> QED BY <1>0, <1>1, <1>2, <1>3, <2>1 DEF InMemory, Consistent, SettledDay
<1>5. InStore' /\ DaysOrdered' /\ Charged' /\ DatesOrdered'
  BY <1>0, <1>2, <1>3 DEF Ledger, InStore, Consistent, DaysOrdered, Charged, DatesOrdered
<1>6. Stage(i)'
  <2>1. tick'[i].pc = "persistClosed" /\ tick'[i].date = tick[i].date
    BY Moved DEF Drop
  <2> QED BY <1>0, <1>1, <1>2, <1>3, <2>1 DEF Stage, Morning
<1> QED BY <1>0, <1>4, <1>5, <1>6 DEF Placed, Asked, Ledger

(* A step of one loop keeps all of it: the others are not running. *)
LEMMA M_Tick ==
  ASSUME IInv, OneLoop, DayInv, NEW i \in Loops, Tick(i) \/ Fault(i), "persistClosed" \notin Failing
  PROVE  DayInv'
<1>0. TypeOK /\ tick \in [Loops -> Loop] /\ chain \in Seq(JobRow)
  BY Types DEF IInv
<1>1. PICK t \in Loop : Advance(i, t)
  BY <1>0, TickAdvances
<1>2. Live(i) /\ \A j \in Loops : j # i => tick'[j] = tick[j]
  BY <1>0, <1>1 DEF Advance
<1>3. Placed(i)
  BY <1>0, <1>2, P_Plain, P_Fault, P_Queue, P_Begin, P_Open, P_Match, P_Persist, P_DayEnd, P_Drop
     DEF Tick
<1>4. Stages'
  <2>1. \A j \in Loops : Live(j)' => j = i
    BY <1>2 DEF OneLoop, Live
  <2> QED BY <1>3, <2>1 DEF Stages, Placed
<1>5. JobStage'
  <2>1. \A k \in DOMAIN chain : chain[k].by = 0
    BY <1>0, <1>1, NoJobs DEF Advance
  <2>2. CASE chain' = chain
    BY <2>1, <2>2 DEF JobStage
  <2>3. ASSUME NEW job, chain' = Append(chain, job), JobAt(job)'
        PROVE  JobStage'
    <3>1. /\ DOMAIN chain = 1..Len(chain) /\ DOMAIN chain' = 1..(Len(chain) + 1)
          /\ Len(chain) \in Nat
          /\ \A m \in DOMAIN chain : chain'[m] = chain[m]
          /\ chain'[Len(chain) + 1] = job
      BY <1>0, <2>3
    <3>2. \A k \in DOMAIN chain' : chain'[k].by = 0 \/ chain'[k] = job
      BY <2>1, <3>1
    <3>3. ASSUME NEW k \in DOMAIN chain', chain'[k] = job PROVE JobAt(chain[k])'
      BY <2>3, <3>3 DEF JobAt
    <3> QED BY <3>2, <3>3 DEF JobStage
  <2> QED BY <1>3, <2>2, <2>3 DEF Placed, Asked
<1> QED BY <1>3, <1>4, <1>5 DEF DayInv, Placed

-----------------------------------------------------------------------------
(* The jobs of the chain. *)

(* The day of the fund and of the account, as memory tells them. *)
LEMMA RowDays ==
  ASSUME TypeOK, Ledger
  PROVE  /\ market.gameDay \in Nat /\ market.gameDay >= 1 /\ market.gameDay - 1 <= MaxDate
         /\ fund.day \in Nat /\ account.cn.day \in Nat
         /\ fund.day = market.gameDay \/ fund.day = market.gameDay + 1
         /\ fund.day # market.gameDay => market.closing = Closing(market.gameDay, FALSE)
         /\ \/ account.cn.day = SettledDay(market.gameDay)
            \/ account.cn.day = SettledDay(market.gameDay - 1) /\ Over
BY Scalars DEF Ledger, InMemory, Consistent, Over

LEMMA Handed ==
  ASSUME TypeOK, DayInv, NEW i \in Loops, chain # <<>>, Head1.by = i, Live(i), JobAt(Head1),
         tick[i].pc \in Waits, Done, UNCHANGED <<clock, market, saved>>,
         account'.cn.day = account.cn.day,
         Head1.op = "navs" => fund'.day = IF Head1.day > fund.day THEN Head1.day ELSE fund.day,
         Head1.op # "navs" => fund'.day = fund.day,
         Head1.op = "settle" => Head1.step = "tier"
  PROVE  Stage(i)'
<1> DEFINE G == market.gameDay
<1>0. /\ Stage(i) /\ Ledger /\ Head1 \in JobRow /\ tick \in [Loops -> Loop]
  BY Types, HeadOf DEF DayInv, Stages
<1>1. tick'[i].pc = AfterJob /\ tick'[i].date = tick[i].date /\ tick'[i].day = tick[i].day
  <2>1. i # 0
    BY Sizes
  <2>2. tick' = [tick EXCEPT ![i].pc = AfterJob]
    BY <2>1 DEF Done
  <2> QED BY <1>0, <2>2 DEF Loop
<1>2. Over' = Over /\ CloseSaved' = CloseSaved
  BY DEF Over, CloseSaved
<1>3. CASE Head1.op = "navs"
  <2>0. tick[i].pc = "wait"
    BY <1>3 DEF JobAt, AllOps
  <2>1. /\ market.closing # None /\ CloseSaved /\ tick[i].day = market.closing.day
        /\ Head1.day = tick[i].day + 1 /\ G \in Nat /\ G >= 1
    BY <1>0, <1>3, Scalars DEF JobAt, Ledger, InMemory, Consistent
  <2>2. market.closing = Closing(G, FALSE) \/ Ending(G, market.closing)
    BY <1>0, <2>1 DEF Ledger, InMemory, Consistent
  <2>3. tick'[i].pc = IF market.closing.advanced THEN "settle" ELSE "snapshot"
    BY <1>1, <1>3, <2>1 DEF AfterJob, Advanced
  <2>4. CASE market.closing = Closing(G, FALSE)
    <3>1. market.closing.day = G /\ market.closing.advanced = FALSE
      BY <2>4 DEF Closing
    <3>2. fund'.day = G + 1
      BY <1>0, <1>3, <2>1, <3>1, RowDays
    <3>3. Fresh'
      BY <1>2, <2>1, <2>4, <3>2 DEF Fresh
    <3> QED BY <1>0, <1>1, <2>0, <2>1, <2>3, <3>1, <3>3 DEF Stage, Morning
  <2>5. CASE Ending(G, market.closing)
    <3>1. market.closing.day = G - 1 /\ market.closing.advanced = TRUE
      BY <2>5 DEF Ending, Closing
    <3>2. Over'
      BY <1>2, <2>5 DEF Over
    <3> QED BY <1>0, <1>1, <1>2, <2>0, <2>1, <2>3, <3>1, <3>2 DEF Stage, Morning
  <2> QED BY <2>2, <2>4, <2>5
<1>4. CASE Head1.op \in {"snapshot", "pay"}
  <2>1. /\ Fresh' /\ tick'[i].day = G /\ tick[i].pc = "wait"
    BY <1>1, <1>4 DEF JobAt, AllOps, Fresh, CloseSaved
  <2>2. tick'[i].pc \in {"pay", "dayEnd"}
    BY <1>1, <1>4 DEF AfterJob
  <2> QED BY <1>0, <1>1, <2>1, <2>2 DEF Stage, Morning
<1>5. CASE Head1.op = "settle"
  <2>1. tick'[i].pc = "drop" /\ tick[i].pc = "wait"
    BY <1>1, <1>5 DEF AfterJob, JobAt, AllOps
  <2>2. Over' /\ CloseSaved' /\ tick'[i].day = G - 1 /\ account'.cn.day = G
    BY <1>1, <1>2, <1>5 DEF JobAt
  <2> QED BY <1>0, <1>1, <2>1, <2>2 DEF Stage, Morning
<1>6. CASE Head1.op = "unlock"
  <2>1. tick'[i].pc = "init" /\ tick[i].pc = "wait"
    BY <1>1, <1>6 DEF AfterJob, JobAt, AllOps
  <2>2. /\ market.closing = None /\ market.closedOn < market.active
        /\ market.active = tick[i].date
    BY <1>6 DEF JobAt
  <2> QED BY <1>0, <1>1, <2>1, <2>2 DEF Stage, Morning
<1>7. CASE Head1.op \in AllOps
  <2>1. tick[i].pc \in {"waitEnd", "waitMatch"}
    BY <1>7 DEF JobAt, Waits
  <2>2. tick'[i].pc = IF tick[i].pc = "waitEnd" THEN "end" ELSE "match"
    BY <1>1, <1>7 DEF AfterJob, AllOps
  <2> QED BY <1>0, <1>1, <2>1, <2>2 DEF Stage, Morning
<1>8. Head1.op \in AllOps \cup {"navs", "snapshot", "pay", "settle", "unlock"}
  BY <1>0 DEF JobRow
<1> QED BY <1>3, <1>4, <1>5, <1>6, <1>7, <1>8

LEMMA B_Navs ==
  ASSUME TypeOK, DayInv, NEW i \in Loops, chain # <<>>, Head1.by = i, JobAt(Head1), SettleNavs
  PROVE  Ledger' /\ fund'.day = IF Head1.day > fund.day THEN Head1.day ELSE fund.day
<1>0. /\ Ledger /\ UNCHANGED <<clock, market, saved, account, ghost>> /\ Head1.op = "navs"
      /\ fund \in [shares: Nat, nav: Nat, day: Nat] /\ Head1.day \in Nat
  BY Types, HeadOf DEF DayInv, SettleNavs, Untouched, Is
<1>1. /\ market.closing # None /\ CloseSaved /\ tick[i].day = market.closing.day
      /\ Head1.day = market.closing.day + 1 /\ market.gameDay \in Nat /\ market.gameDay >= 1
      /\ market.closing = Closing(market.gameDay, FALSE) \/ Ending(market.gameDay, market.closing)
  BY <1>0, Scalars DEF JobAt, Ledger, InMemory, Consistent
<1>2. fund' = IF Head1.day > fund.day
              THEN [fund EXCEPT !.nav = fund.nav + 1, !.day = Head1.day] ELSE fund
  BY DEF SettleNavs
<1>3. /\ fund'.day = IF Head1.day > fund.day THEN Head1.day ELSE fund.day
      /\ fund'.nav = IF Head1.day > fund.day THEN fund.nav + 1 ELSE fund.nav
  BY <1>0, <1>2
<1>4. CASE Head1.day <= fund.day
  <2>1. UNCHANGED Books
    BY <1>0, <1>3, <1>4 DEF Books
  <2> QED BY <1>0, <1>3, <2>1, KeptLedger, Scalars
<1>5. CASE Head1.day > fund.day
  <2>1. market.closing = Closing(market.gameDay, FALSE)
    <3> SUFFICES ASSUME Ending(market.gameDay, market.closing) PROVE FALSE
      BY <1>1
    <3>1. market.closing.day = market.gameDay - 1
      BY DEF Ending, Closing
    <3>2. fund.day >= market.gameDay
      BY <1>0, RowDays
    <3> QED BY <1>0, <1>1, <1>5, <3>1, <3>2
  <2>2. Head1.day = market.gameDay + 1
    BY <1>1, <2>1 DEF Closing
  <2>3. fund.day = market.gameDay
    BY <1>0, <1>5, <2>2, RowDays
  <2>4. fund'.day = market.gameDay + 1 /\ fund'.nav = fund.nav + 1
    BY <1>3, <1>5, <2>2
  <2>5. InMemory'
    BY <1>0, <2>1, <2>4 DEF Ledger, InMemory, Consistent
  <2>6. InStore'
    BY <1>0, <1>1, <2>1, <2>4 DEF Ledger, InStore, Consistent, CloseSaved
  <2>7. DaysOrdered' /\ Charged' /\ DatesOrdered'
    BY <1>0, <2>3, <2>4, Scalars DEF Ledger, DaysOrdered, Charged, DatesOrdered
  <2> QED BY <1>3, <2>5, <2>6, <2>7 DEF Ledger
<1> QED BY <1>0, <1>4, <1>5

LEMMA B_Daily ==
  ASSUME TypeOK, DayInv, NEW i \in Loops, chain # <<>>, Head1.by = i, JobAt(Head1), SettleDaily
  PROVE  Ledger' /\ account'.cn.day = Head1.day /\ chain' # <<>> /\ chain'[1].step = "tier"
<1> DEFINE G == market.gameDay
<1>0. /\ Ledger /\ UNCHANGED <<clock, market, saved, fund>> /\ Head1.op = "settle"
      /\ Head1.step = "daily" /\ account \in [cn: Row, us: Int] /\ ghost \in Ghost
      /\ Head1 \in JobRow /\ Head1.copy \in [cn: Row, us: Int] /\ chain \in Seq(JobRow)
  BY Types, HeadOf DEF DayInv, SettleDaily, Untouched, Is
<1>1. /\ Over /\ CloseSaved /\ Head1.day = G /\ account.cn.day < G /\ G \in Nat /\ G > 1
      /\ G - 1 <= MaxDate
  BY <1>0, Scalars DEF JobAt, Over, Ending, Ledger, InMemory, Consistent
<1>2. account.cn.day = SettledDay(G - 1)
  BY <1>0, <1>1, RowDays DEF SettledDay
<1>3. /\ account'.cn.day = G /\ chain' # <<>> /\ chain'[1].step = "tier"
  <2> DEFINE old == Head1.copy.cn
             new == [old EXCEPT !.cash = old.cash - Interest(old), !.day = Head1.day]
             job == [Head1 EXCEPT !.step = "tier", !.copy.cn = new]
  <2>1. new.day = Head1.day
    BY <1>0 DEF Row
  <2>2. account' = [account EXCEPT !.cn = new] /\ chain' = [chain EXCEPT ![1] = job]
    BY DEF SettleDaily, Head1
  <2>3. job.step = "tier"
    BY <1>0 DEF JobRow
  <2> HIDE DEF new, job
  <2>4. account'.cn = new
    BY <1>0, <2>2, RowOf
  <2>5. chain' # <<>> /\ chain'[1] = job
    BY <1>0, <2>2
  <2> QED BY <1>1, <2>1, <2>3, <2>4, <2>5
<1>4. /\ ghost'.endedOn = ghost.endedOn
      /\ ghost'.settled = [ghost.settled EXCEPT ![G] = ghost.settled[G] + 1]
  <2> DEFINE settled == [ghost.settled EXCEPT ![G] = ghost.settled[G] + 1]
             c == ghost.cash.cn - Interest(Head1.copy.cn)
  <2>1. ghost' = [ghost EXCEPT !.cash.cn = c, !.settled = settled]
    BY <1>0, <1>1 DEF SettleDaily, Ghost
  <2> HIDE DEF settled, c
  <2>2. ghost'.endedOn = ghost.endedOn /\ ghost'.settled = settled
    BY <1>0, <2>1 DEF Ghost
  <2> QED BY <2>2 DEF settled
<1> HIDE DEF G
<1>5. Charged'
  <2>1. G \in GameDays /\ GameDays \subseteq Nat
    BY <1>0, DaysBounded, Sizes DEF G
  <2>2. \A d \in Nat : d \in 2..G <=> d \in 2..account.cn.day \/ d = G
    BY <1>1, <1>2 DEF SettledDay
  <2>3. G \notin 2..account.cn.day
    BY <1>1, Scalars
  <2>4. ghost.settled \in [GameDays -> Nat]
        /\ \A d \in GameDays : ghost.settled[d] = IF d \in 2..account.cn.day THEN 1 ELSE 0
    BY <1>0, Scalars DEF Ledger, Charged
  <2>5. \A d \in GameDays : ghost'.settled[d] = IF d \in 2..G THEN 1 ELSE 0
    BY <1>4, <2>1, <2>2, <2>3, <2>4
  <2> QED BY <1>0, <1>3, <2>5 DEF Ledger, Charged
<1>6. account'.cn.day = SettledDay(G)
  BY <1>1, <1>3 DEF SettledDay
<1>7. InMemory' /\ InStore'
  <2>1. InMemory'
    BY <1>0, <1>4, <1>6 DEF Ledger, InMemory, Consistent, G
  <2>2. saved.gameDay = G
    BY <1>1 DEF CloseSaved, G
  <2>3. InStore'
    BY <1>0, <1>4, <1>6, <2>2 DEF Ledger, InStore, Consistent
  <2> QED BY <2>1, <2>3
<1>8. DaysOrdered' /\ DatesOrdered'
  BY <1>0, <1>4 DEF Ledger, DaysOrdered, DatesOrdered
<1> QED BY <1>1, <1>3, <1>5, <1>6, <1>7, <1>8 DEF Ledger

(* A job of a loop goes on: it still fits where the loop is. *)
LEMMA GoneOn ==
  ASSUME TypeOK, Ledger, NEW i \in Loops, chain # <<>>, Head1.by = i, JobAt(Head1),
         tick' = tick, NEW job \in JobRow, chain' = [chain EXCEPT ![1] = job],
         job.by = Head1.by, job.op = Head1.op, job.day = Head1.day,
         UNCHANGED <<clock, market, saved, fund>>,
         job.op # "settle" => job.step \notin {"daily", "tier"},
         job.step = "daily" => account'.cn.day < job.day,
         job.step = "tier" => account'.cn.day = job.day
  PROVE  JobAt(chain[1])'
<1>1. chain'[1] = job
  BY HeadChanged
<1>2. Over' = Over /\ CloseSaved' = CloseSaved /\ Fresh' = Fresh
  BY DEF Over, CloseSaved, Fresh
<1> QED BY <1>1, <1>2 DEF JobAt

LEMMA OwnJob ==
  ASSUME IInv, OneLoop, DayCopies, DayInv, Job1, NEW i \in Loops, chain # <<>>, Head1.by = i
  PROVE  Ledger' /\ Stage(i)' /\ (Ends \/ JobAt(chain[1])')
<1>0. /\ TypeOK /\ Ledger /\ UNCHANGED <<clock, market, saved>> /\ Head1 \in JobRow
      /\ Head1.day \in Nat /\ account.cn.day \in Nat /\ account \in [cn: Row, us: Int]
      /\ 1 \in DOMAIN chain /\ i # 0
  BY JobShape, HeadOf, Scalars, Types, Sizes DEF IInv, DayInv
<1>1. JobAt(Head1) /\ tick[i].pc \in Waits
  BY <1>0 DEF DayInv, JobStage, OneLoop, Head1
<1>2. Live(i) /\ Stage(i)
  BY <1>1 DEF Live, Waits, DayInv, Stages
<1>3. Done => Ends
  BY DEF Done, Ends
<1>4. /\ ghost'.endedOn = ghost.endedOn
      /\ ~SettleDaily => account'.cn.day = account.cn.day /\ ghost'.settled = ghost.settled
      /\ ~SettleNavs => fund'.day = fund.day /\ fund'.nav = fund.nav
  BY JobDays
<1>5. Ledger'
  <2>1. CASE SettleNavs
    BY <1>0, <1>1, <2>1, B_Navs
  <2>2. CASE SettleDaily
    BY <1>0, <1>1, <2>2, B_Daily
  <2>3. CASE ~SettleNavs /\ ~SettleDaily
    <3>1. UNCHANGED Books
      BY <1>0, <1>4, <2>3 DEF Books
    <3> QED BY <1>0, <3>1, KeptLedger, Scalars
  <2> QED BY <2>1, <2>2, <2>3
<1>6. CASE tick' = tick
  <2>1. Stage(i)'
    <3>1. tick[i].pc \notin {"navs", "snapshot", "pay", "dayEnd", "persistAdvanced", "settle",
                             "drop", "persistClosed", "persistClosing"}
      BY <1>1 DEF Waits
    <3> QED BY <1>0, <1>2, <1>6, <3>1 DEF Stage
  <2>2. ASSUME NEW step \in {"write", "pay", "mark", "daily", "tier"},
               chain' = [chain EXCEPT ![1].step = step, ![1].copy = account], UNCHANGED fund,
               account' = account,
               Head1.op # "settle" => step \notin {"daily", "tier"},
               step = "daily" => account.cn.day < Head1.day,
               step = "tier" => account.cn.day = Head1.day
        PROVE  JobAt(chain[1])'
    <3> DEFINE new == [Head1 EXCEPT !.step = step, !.copy = account]
    <3>1. new \in JobRow /\ new.by = Head1.by /\ new.op = Head1.op /\ new.day = Head1.day
          /\ new.step = step
      BY <1>0 DEF JobRow
    <3>2. chain' = [chain EXCEPT ![1] = new]
      BY <2>2 DEF Head1
    <3> HIDE DEF new
    <3>3. PICK job : job = new
      OBVIOUS
    <3> QED BY <1>0, <1>1, <1>6, <2>2, <3>1, <3>2, <3>3, GoneOn
  <2>3. CASE Done
    BY <1>3, <1>5, <2>1, <2>3
  <2>4. CASE (Read \/ PayRead) /\ ~Done
    <3>1. PICK step \in {"write", "pay", "mark"} :
            /\ chain' = [chain EXCEPT ![1].step = step, ![1].copy = account]
            /\ UNCHANGED <<account, fund>>
      BY <2>4 DEF Read, PayRead
    <3>2. JobAt(chain[1])'
      BY <2>2, <3>1
    <3> QED BY <1>5, <2>1, <3>2
  <2>5. CASE SettleRead
    <3>1. Head1.op = "settle" /\ UNCHANGED <<account, fund>>
      BY <2>5 DEF SettleRead, Is
    <3>2. account.cn.day <= Head1.day
      BY <1>0, <1>1, <3>1, RowDays DEF JobAt, SettledDay
    <3>3. PICK step \in {"daily", "tier"} :
            /\ chain' = [chain EXCEPT ![1].step = step, ![1].copy = account]
            /\ step = IF account.cn.day >= Head1.day THEN "tier" ELSE "daily"
      BY <2>5 DEF SettleRead
    <3>4. /\ step = "daily" => account.cn.day < Head1.day
          /\ step = "tier" => account.cn.day = Head1.day
      BY <1>0, <3>2, <3>3
    <3>5. JobAt(chain[1])'
      BY <2>2, <3>1, <3>3, <3>4
    <3> QED BY <1>5, <2>1, <3>5
  <2>6. CASE PayAccount
    <3> DEFINE new == [Head1 EXCEPT !.step = "mark"]
    <3>1. new \in JobRow /\ new.by = Head1.by /\ new.op = Head1.op /\ new.day = Head1.day
          /\ new.step = "mark"
      BY <1>0 DEF JobRow
    <3>2. chain' = [chain EXCEPT ![1] = new] /\ UNCHANGED fund
      BY <2>6 DEF PayAccount, Step, Head1
    <3> HIDE DEF new
    <3>3. PICK job : job = new
      OBVIOUS
    <3>4. JobAt(chain[1])'
      BY <1>0, <1>1, <1>6, <3>1, <3>2, <3>3, GoneOn
    <3> QED BY <1>5, <2>1, <3>4
  <2>7. CASE SettleDaily
    <3>0. Head1.op = "settle" /\ UNCHANGED fund
      BY <2>7 DEF SettleDaily, Is
    <3>1. account'.cn.day = Head1.day
      BY <1>0, <1>1, <2>7, B_Daily
    <3> DEFINE old == Head1.copy.cn
               row == [old EXCEPT !.cash = old.cash - Interest(old), !.day = Head1.day]
               copy == [Head1.copy EXCEPT !.cn = row]
               new == [Head1 EXCEPT !.step = "tier", !.copy = copy]
    <3>2. Head1.copy \in [cn: Row, us: Int] /\ old \in Row /\ old.cash - Interest(old) \in Int
      BY <1>0 DEF JobRow, Row, Interest
    <3>3. row \in Row
      <4> HIDE DEF old
      <4> QED BY <1>0, <3>2 DEF Row
    <3> HIDE DEF row
    <3>4. copy \in [cn: Row, us: Int]
      BY <3>2, <3>3
    <3> HIDE DEF copy
    <3>5. new \in JobRow /\ new.by = Head1.by /\ new.op = Head1.op /\ new.day = Head1.day
          /\ new.step = "tier"
      BY <1>0, <3>4 DEF JobRow
    <3>6. chain' = [chain EXCEPT ![1] = new]
      BY <2>7 DEF SettleDaily, Head1, row, copy
    <3> HIDE DEF new
    <3>7. PICK job : job = new
      OBVIOUS
    <3>8. JobAt(chain[1])'
      BY <1>0, <1>1, <1>6, <3>0, <3>1, <3>5, <3>6, <3>7, GoneOn
    <3> QED BY <1>5, <2>1, <3>8
  <2>8. Done \/ Read \/ PayRead \/ SettleRead \/ PayAccount \/ SettleDaily
    BY DEF Job1, Transfer, Subscribe, Redeem, Reset, Buy, Sell, ResetBoughtToday, SettleNavs,
           SnapshotHolders, PayMark, SettleTier
  <2> QED BY <2>3, <2>4, <2>5, <2>6, <2>7, <2>8
<1>7. CASE Done
  <2>1. ~SettleDaily => account'.cn.day = account.cn.day
    BY <1>4
  <2>2. CASE SettleDaily
    <3>1. tick' = tick
      BY <2>2 DEF SettleDaily
    <3> QED BY <1>6, <3>1
  <2>3. CASE SettleNavs
    <3>1. /\ fund'.day = IF Head1.day > fund.day THEN Head1.day ELSE fund.day
          /\ Head1.op = "navs" /\ account'.cn.day = account.cn.day
      BY <1>0, <1>1, <2>3, B_Navs DEF SettleNavs, Is
    <3>2. Stage(i)'
      BY <1>0, <1>1, <1>2, <1>7, <3>1, Handed
    <3> QED BY <1>3, <1>5, <1>7, <3>2
  <2>4. CASE ~SettleDaily /\ ~SettleNavs
    <3>1. CASE Head1.op = "navs" \/ (Head1.op = "settle" /\ Head1.step # "tier")
      <4>1. SettleRead
        BY <2>4, <3>1 DEF Job1, Read, Transfer, Subscribe, Redeem, Reset, Buy, Sell,
           ResetBoughtToday, SnapshotHolders, PayRead, PayAccount, PayMark, SettleTier, Is, AllOps
      <4>2. tick' = tick
        BY <4>1 DEF SettleRead
      <4> QED BY <1>6, <4>2
    <3>2. CASE ~(Head1.op = "navs" \/ (Head1.op = "settle" /\ Head1.step # "tier"))
      <4>1. Stage(i)'
        BY <1>0, <1>1, <1>2, <1>4, <1>7, <2>4, <3>2, Handed
      <4> QED BY <1>3, <1>5, <1>7, <4>1
    <3> QED BY <3>1, <3>2
  <2> QED BY <2>2, <2>3, <2>4
<1>8. tick' = tick \/ Done
  BY DEF Job1, Read, Transfer, Subscribe, Redeem, Reset, Buy, Sell, ResetBoughtToday, SettleNavs,
         SnapshotHolders, PayRead, PayAccount, PayMark, SettleRead, SettleDaily, SettleTier
<1> QED BY <1>6, <1>7, <1>8

LEMMA M_Job ==
  ASSUME IInv, OneLoop, DayCopies, DayInv, Job1
  PROVE  DayInv'
<1>0. /\ TypeOK /\ chain # <<>> /\ (Ends \/ GoesOn) /\ UNCHANGED <<clock, market, saved>>
      /\ tick \in [Loops -> Loop] /\ Head1.by \in Loops \cup {0} /\ 0 \notin Loops
      /\ 1 \in DOMAIN chain /\ Head1 \in JobRow
  BY JobShape, HeadOf, Types, Sizes DEF IInv
<1>1. CASE Head1.by = 0
  <2>1. Head1.op \in AllOps
    BY <1>0, <1>1 DEF OneLoop, Head1
  <2>2. ~SettleNavs /\ ~SettleDaily
    BY <2>1 DEF SettleNavs, SettleDaily, Is, AllOps
  <2>3. UNCHANGED Books /\ tick' = tick
    BY <1>0, <1>1, <2>2, JobDays DEF Books, Ends, GoesOn
  <2>4. Ledger' /\ clock'.date \in Nat /\ clock.date <= clock'.date
    BY <1>0, <2>3, KeptLedger, Scalars DEF DayInv
  <2>5. Stages'
    BY <1>0, <2>3, <2>4, KeptPlace DEF DayInv, Stages, Live
  <2>6. \A job : job.by \in Loops /\ JobAt(job) => JobAt(job)'
    BY <1>0, <2>3, <2>4, KeptPlace
  <2>7. ASSUME NEW k \in DOMAIN chain', chain'[k].by # 0
        PROVE  JobAt(chain[k])'
    <3>1. PICK l \in DOMAIN chain : chain'[k] = chain[l] /\ chain[l] \in JobRow
      <4>1. CASE Ends
        BY <1>0, <4>1, TailOf DEF Ends
      <4>2. CASE GoesOn
        <5>1. PICK job \in JobRow : chain' = [chain EXCEPT ![1] = job] /\ job.by = Head1.by
          BY <4>2 DEF GoesOn
        <5>2. k # 1
          BY <1>0, <1>1, <2>7, <5>1, HeadChanged
        <5> QED BY <1>0, <5>1, <5>2, HeadChanged
      <4> QED BY <1>0, <4>1, <4>2
    <3>2. PICK job : job = chain[l]
      OBVIOUS
    <3>3. JobAt(job) /\ job.by \in Loops
      BY <2>7, <3>1, <3>2 DEF DayInv, JobStage, JobRow
    <3>4. JobAt(job)'
      BY <2>6, <3>3
    <3>5. chain'[k] = job
      BY <3>1, <3>2
    <3> QED BY <3>4, <3>5 DEF JobAt
  <2> QED BY <2>4, <2>5, <2>7 DEF DayInv, JobStage
<1>2. CASE Head1.by # 0
  <2>1. PICK i \in Loops : i = Head1.by
    BY <1>0, <1>2
  <2>2. Ledger' /\ Stage(i)' /\ (Ends \/ JobAt(chain[1])')
    BY <1>0, <2>1, OwnJob
  <2>3. Live(i)
    BY <1>0, <1>2, <2>1 DEF OneLoop, Head1, Live, Waits
  <2>4. \A j \in Loops : j # i => tick'[j] = tick[j]
    BY <1>0, <1>2, <2>1 DEF Ends, GoesOn
  <2>5. Stages'
    BY <2>2, <2>3, <2>4 DEF Stages, OneLoop, Live
  <2>6. \A k \in DOMAIN chain : k # 1 => chain[k].by = 0
    BY <1>0, <1>2 DEF OneLoop, Head1
  <2>7. JobStage'
    <3>1. CASE Ends
      BY <1>0, <2>6, <3>1, TailOf DEF Ends, JobStage
    <3>2. CASE GoesOn /\ ~Ends
      <4>1. PICK job \in JobRow : chain' = [chain EXCEPT ![1] = job]
        BY <3>2 DEF GoesOn
      <4>2. \A k \in DOMAIN chain' : k = 1 \/ chain'[k].by = 0
        BY <1>0, <2>6, <4>1, HeadChanged
      <4> QED BY <2>2, <3>2, <4>2 DEF JobStage
    <3> QED BY <1>0, <3>1, <3>2
  <2> QED BY <2>2, <2>5, <2>7 DEF DayInv
<1> QED BY <1>1, <1>2

-----------------------------------------------------------------------------
(* Crashes, failed jobs, hung ticks and requests. *)

LEMMA StillClosed ==
  ASSUME TypeOK, DayInv, UNCHANGED Books, clock'.date \in Nat, clock.date <= clock'.date,
         \A j \in Loops : Live(j)' => tick'[j].pc \in {"watchdog", "idle"},
         \A k \in DOMAIN chain' : chain'[k].by = 0,
         market.closedOn = market.cal.closedOn
  PROVE  DayInv'
<1>1. Ledger'
  BY KeptLedger DEF DayInv
<1>2. Stages'
  BY DEF Stages, Stage, Morning, Books
<1>3. JobStage'
  BY DEF JobStage
<1> QED BY <1>1, <1>2, <1>3 DEF DayInv

LEMMA D_Hang ==
  ASSUME DInv, NEW i \in Loops, Hang(i) \/ Watchdog(i), ~Slow
  PROVE  OneLoop' /\ DayCopies' /\ DayInv'
<1>0. TypeOK /\ UNCHANGED <<clock, market, saved, chain, account, fund, ghost>>
  BY DEF DInv, IInv, Hang, Watchdog
<1>1. /\ OneLoop' /\ \A j \in Loops : Live(j)' => tick'[j].pc \in {"watchdog", "idle"}
      /\ \A k \in DOMAIN chain' : chain'[k].by = 0
  BY L_Hang DEF DInv
<1>2. market.closedOn = market.cal.closedOn
  <2>1. Live(i) /\ tick[i].pc # "persistClosed"
    BY DEF Hang, Watchdog, Live
  <2> QED BY <2>1 DEF DInv, DayInv, Stages, Stage
<1>3. DayInv'
  <2>1. UNCHANGED Books
    BY <1>0 DEF Books
  <2> QED BY <1>0, <1>1, <1>2, <2>1, StillClosed, Scalars DEF DInv
<1> QED BY <1>0, <1>1, <1>3 DEF DInv, DayCopies

LEMMA D_JobFault ==
  ASSUME DInv, JobFault
  PROVE  OneLoop' /\ DayCopies' /\ DayInv'
<1>0. /\ TypeOK /\ UNCHANGED <<clock, market, saved, account, fund, ghost>>
      /\ chain # <<>> /\ chain' = Tail(chain) /\ Copies
  BY DEF DInv, IInv, JobFault
<1>1. /\ OneLoop' /\ \A j \in Loops : Live(j)' => tick'[j] = IdleTick
      /\ \A k \in DOMAIN chain' : chain'[k].by = 0
  BY L_Crash DEF DInv
<1>2. market.closedOn = market.cal.closedOn
  <2>1. Head1.by # 0 /\ Head1.by \in Loops \cup {0} /\ 1 \in DOMAIN chain
    BY <1>0, HeadOf DEF JobFault, DInv, OneLoop, Head1, AllOps
  <2>2. tick[Head1.by].pc \in Waits
    BY <2>1 DEF DInv, OneLoop, Head1
  <2> QED BY <2>1, <2>2 DEF DInv, DayInv, Stages, Stage, Live, Waits
<1>3. DayInv'
  <2>1. UNCHANGED Books
    BY <1>0 DEF Books
  <2>2. IdleTick.pc = "idle"
    BY DEF IdleTick
  <2> QED BY <1>0, <1>1, <1>2, <2>1, <2>2, StillClosed, Scalars DEF DInv
<1>4. DayCopies'
  BY <1>0, LeftCopies
<1> QED BY <1>1, <1>3, <1>4

LEMMA D_Crash ==
  ASSUME DInv, Crash
  PROVE  OneLoop' /\ DayCopies' /\ DayInv'
<1>0. TypeOK /\ UNCHANGED <<clock, saved, account, fund, ghost>> /\ chain' = <<>> /\ Ledger
  BY DEF DInv, IInv, DayInv, Crash
<1>1. /\ OneLoop' /\ \A j \in Loops : Live(j)' => tick'[j] = IdleTick
      /\ \A k \in DOMAIN chain' : chain'[k].by = 0
  BY L_Crash DEF DInv
<1>2. /\ market'.gameDay = saved.gameDay /\ market'.active = saved.cal.date
      /\ market'.cal = saved.cal /\ market'.closedOn = saved.cal.closedOn
      /\ market'.closing = saved.closing
  BY DEF Crash, Memory
<1>3. InMemory' /\ InStore'
  BY <1>0, <1>2 DEF Ledger, InMemory, InStore, Consistent
<1>4. DaysOrdered'
  <2>1. 1..(saved.gameDay - 1) \subseteq 1..(market.gameDay - 1)
    BY <1>0, Scalars DEF Ledger, DatesOrdered
  <2> QED BY <1>0, <1>2, <2>1 DEF Ledger, DaysOrdered
<1>5. Charged' /\ DatesOrdered'
  <2>1. saved.gameDay \in Nat /\ saved.cal.date \in Nat
    BY <1>0, Scalars
  <2> QED BY <1>0, <1>2, <2>1 DEF Ledger, Charged, DatesOrdered
<1>6. Stages'
  BY <1>1, <1>2 DEF Stages, Stage, Morning, IdleTick
<1> QED BY <1>0, <1>1, <1>3, <1>4, <1>5, <1>6 DEF DayInv, Ledger, JobStage, DayCopies

LEMMA D_Request ==
  ASSUME DInv, LoneLeverage,
         (\E op \in AllOps : Ask(op)) \/ AskLate \/ LeverageRead \/ LeverageSave \/ TimePasses
  PROVE  OneLoop' /\ DayCopies' /\ DayInv'
<1>0. /\ TypeOK /\ UNCHANGED <<market, saved, fund, ghost>> /\ account \in [cn: Row, us: Int]
  BY Types DEF DInv, IInv, Ask, AskLate, LeverageRead, LeverageSave, TimePasses
<1>1. /\ OneLoop' /\ tick' = tick
      /\ \A k \in DOMAIN chain' :
           \/ k \in DOMAIN chain /\ chain'[k] = chain[k]
           \/ chain'[k].by = 0 /\ chain'[k].op # "unlock"
  BY L_Request DEF DInv
<1>2. account'.cn.day = account.cn.day
  <2>1. CASE LeverageSave
    <3>1. PICK lev \in {1, 2} : account' = [account EXCEPT !.cn = [account.cn EXCEPT !.lev = lev]]
      BY <2>1 DEF LeverageSave
    <3> DEFINE new == [account.cn EXCEPT !.lev = lev]
    <3>2. new.day = account.cn.day /\ account' = [account EXCEPT !.cn = new]
      BY <1>0, <3>1 DEF Row
    <3> HIDE DEF new
    <3> QED BY <1>0, <3>2, RowOf
  <2>2. CASE ~LeverageSave
    BY <2>2 DEF Ask, AskLate, LeverageRead, TimePasses
  <2> QED BY <2>1, <2>2
<1>3. clock'.date \in Nat /\ clock.date <= clock'.date
  <2>1. clock \in [date: 1..MaxDate, slot: 0..Night] /\ clock.date \in Nat
    BY <1>0, Rest, Scalars
  <2>2. CASE TimePasses
    BY <2>1, <2>2 DEF TimePasses
  <2>3. CASE ~TimePasses
    BY <2>1, <2>3 DEF Ask, AskLate, LeverageRead, LeverageSave
  <2> QED BY <2>2, <2>3
<1>4. UNCHANGED Books
  BY <1>0, <1>2 DEF Books
<1>5. Ledger'
  BY <1>0, <1>3, <1>4, KeptLedger DEF DInv, DayInv
<1>6. Stages'
  BY <1>0, <1>1, <1>3, <1>4, KeptPlace DEF DInv, DayInv, Stages, Live
<1>7. JobStage'
  <2>1. \A job : job.by \in Loops /\ JobAt(job) => JobAt(job)'
    BY <1>0, <1>1, <1>3, <1>4, KeptPlace
  <2>2. ASSUME NEW k \in DOMAIN chain', chain'[k].by # 0
        PROVE  JobAt(chain[k])'
    <3>1. k \in DOMAIN chain /\ chain'[k] = chain[k]
      BY <1>1, <2>2
    <3>2. PICK job : job = chain[k]
      OBVIOUS
    <3>3. job \in JobRow
      BY <1>0, <3>1, <3>2, Types
    <3>4. JobAt(job) /\ job.by \in Loops
      BY <2>2, <3>1, <3>2, <3>3 DEF DInv, DayInv, JobStage, JobRow
    <3>5. JobAt(job)'
      BY <2>1, <3>4
    <3>6. chain'[k] = job
      BY <3>1, <3>2
    <3> QED BY <3>5, <3>6 DEF JobAt
  <2> QED BY <2>2 DEF JobStage
<1>8. DayCopies'
  <2>1. Appended
    <3>1. CASE \E op \in AllOps : Ask(op)
      <4>1. PICK op \in AllOps : Ask(op)
        BY <3>1
      <4>2. clock.date \in Nat /\ 0 \in Loops \cup {0}
        BY <1>0, Scalars
      <4>3. Queued(Job(op, 0, clock.date))
        BY <4>2, JobType DEF Queued, AllOps
      <4> QED BY <4>1, <4>3 DEF Ask, Appended
    <3>2. CASE ~\E op \in AllOps : Ask(op)
      BY <3>2 DEF AskLate, LeverageRead, LeverageSave, TimePasses, Appended
    <3> QED BY <3>1, <3>2
  <2> QED BY <1>0, <1>2, <2>1, KeptCopies DEF DInv
<1> QED BY <1>1, <1>5, <1>6, <1>7, <1>8 DEF DayInv

LEMMA D_Tick ==
  ASSUME DInv, NEW i \in Loops, Tick(i) \/ Fault(i), "persistClosed" \notin Failing
  PROVE  OneLoop' /\ DayCopies' /\ DayInv'
<1>0. TypeOK /\ IInv /\ OneLoop
  BY DEF DInv, IInv
<1>1. PICK t \in Loop : Advance(i, t)
  BY <1>0, TickAdvances
<1>2. OneLoop'
  BY <1>0, <1>1, L_Tick
<1>3. UNCHANGED account
  BY DEF Tick, Begin, Open, Auction, EndTick, Generate, Unlock, DayInit, Match, Persist, Queue,
         DayEnd, Drop, Fault
<1>4. DayCopies'
  BY <1>0, <1>3, C_Tick, KeptCopies DEF DInv
<1> QED BY <1>2, <1>4, M_Tick DEF DInv

LEMMA D_Init == Init => OneLoop /\ DayCopies /\ DayInv
<1> SUFFICES ASSUME Init PROVE OneLoop /\ DayCopies /\ DayInv
  OBVIOUS
<1>1. /\ market.gameDay = 1 /\ market.active = 0 /\ market.closing = None
      /\ market.closedOn = 0 /\ market.cal.closedOn = 0 /\ market.cal.date = 0
      /\ saved.gameDay = 1 /\ saved.cal.date = 0 /\ saved.cal.closedOn = 0
      /\ saved.closing = None /\ clock.date = 1 /\ chain = <<>>
  BY DEF Init, Memory, EmptyCalendar
<1>2. /\ account.cn.day = 0 /\ fund.day = 1 /\ fund.nav = 0
      /\ \A d \in GameDays : ghost.settled[d] = 0 /\ ghost.endedOn[d] = 0
  BY DEF Init
<1>3. \A i \in Loops : Live(i) => tick[i].pc = "idle"
  BY DEF Init, Live, IdleTick
<1>4. Consistent(1, 0, 0, None)
  <2>1. 1..(1 - 1) = {} /\ 1 - 1 <= MaxDate
    BY Sizes
  <2> QED BY <1>2, <2>1 DEF Consistent, SettledDay
<1>5. InMemory /\ InStore
  BY <1>1, <1>4 DEF InMemory, InStore
<1>6. DaysOrdered /\ Charged /\ DatesOrdered
  BY <1>1, <1>2 DEF DaysOrdered, Charged, DatesOrdered
<1>7. Stages /\ JobStage
  BY <1>1, <1>3 DEF Stages, Stage, Morning, JobStage
<1> QED BY <1>1, <1>5, <1>6, <1>7, L_Init DEF DayInv, Ledger, DayCopies

LEMMA D_Next ==
  ASSUME Steady, DInv, [Next]_vars
  PROVE  OneLoop' /\ DayCopies' /\ DayInv'
<1>1. CASE UNCHANGED vars
  <2>1. UNCHANGED Books /\ TypeOK /\ clock'.date \in Nat /\ clock.date <= clock'.date
    BY <1>1, Scalars DEF vars, Books, DInv, IInv
  <2>2. OneLoop' /\ DayCopies'
    BY <1>1 DEF vars, DInv, OneLoop, DayCopies, Live
  <2>3. Ledger'
    BY <2>1, KeptLedger DEF DInv, DayInv
  <2>4. Stages'
    BY <1>1 DEF vars, DInv, DayInv, Stages, Stage, CloseSaved, Fresh, Over, Live
  <2>5. JobStage'
    BY <1>1 DEF vars, DInv, DayInv, JobStage, JobAt, CloseSaved, Fresh, Over
  <2>6. DayInv'
    BY <2>3, <2>4, <2>5 DEF DayInv
  <2> QED BY <2>2, <2>6
<1>2. CASE Job1
  BY <1>2, M_Job, JobDays, JobShape, L_Job DEF DInv, IInv
<1>3. CASE \E i \in Loops : Tick(i) \/ Fault(i)
  BY <1>3, D_Tick DEF Steady
<1>4. CASE \E i \in Loops : Hang(i) \/ Watchdog(i)
  BY <1>4, D_Hang DEF Steady
<1>5. CASE JobFault
  BY <1>5, D_JobFault
<1>6. CASE Crash
  BY <1>6, D_Crash
<1>7. CASE (\E op \in AllOps : Ask(op)) \/ AskLate \/ LeverageRead \/ LeverageSave \/ TimePasses
  BY <1>7, D_Request DEF Steady
<1> QED BY <1>1, <1>2, <1>3, <1>4, <1>5, <1>6, <1>7 DEF Next

LEMMA EndedOnce ==
  ASSUME DInv
  PROVE  DaysEndOnce
<1>0. TypeOK /\ Ledger
  BY DEF DInv, IInv, DayInv
<1>1. /\ market.gameDay \in Nat /\ market.gameDay >= 1 /\ GameDays \subseteq Nat
      /\ 1..(market.gameDay - 1) \subseteq GameDays /\ market.gameDay \in GameDays
  BY <1>0, RowDays, DaysBounded, Sizes
<1>2. \A g, h \in 1..(market.gameDay - 1) : g # h => ghost.endedOn[g] # ghost.endedOn[h]
  <2> SUFFICES ASSUME NEW g \in 1..(market.gameDay - 1), NEW h \in 1..(market.gameDay - 1), g # h
               PROVE  ghost.endedOn[g] # ghost.endedOn[h]
    OBVIOUS
  <2>1. ghost.endedOn[g] \in Nat /\ ghost.endedOn[h] \in Nat
    BY <1>0, DaysBounded
  <2>2. g < h \/ h < g
    BY <1>1
  <2> QED BY <1>0, <2>1, <2>2 DEF Ledger, DaysOrdered
<1>3. \A d \in GameDays : ghost.settled[d] <= 1
  BY <1>0 DEF Ledger, Charged
<1>4. fund.nav \in {market.gameDay - 1, market.gameDay}
  <2>1. fund.nav = fund.day - 1
    BY <1>0 DEF Ledger, Charged
  <2> QED BY <1>0, <1>1, <2>1, RowDays
<1>5. ASSUME market.closing = None
      PROVE  /\ \A d \in 2..market.gameDay : ghost.settled[d] = 1
             /\ fund.nav = market.gameDay - 1
  <2>1. fund.day = market.gameDay /\ account.cn.day = SettledDay(market.gameDay)
    BY <1>0, <1>5, SettledRows
  <2>2. \A d \in 2..market.gameDay : d \in GameDays /\ d \in 2..account.cn.day
    BY <1>1, <2>1 DEF SettledDay
  <2> QED BY <1>0, <2>1, <2>2 DEF Ledger, Charged
<1> QED BY <1>2, <1>3, <1>4, <1>5 DEF DaysEndOnce

(* One date ends one game day; the daily settlement and the net asset value of
   the fund take each ended day once, whatever part of a close is repeated after
   a crash, a failed call or a hung tick. *)
THEOREM DaysOnce == ASSUME Steady PROVE Spec => []DaysEndOnce
<1>1. Init => OneLoop /\ DayCopies /\ DayInv
  BY D_Init
<1>2. SUFFICES ASSUME LoneLeverage PROVE Spec => []DaysEndOnce
  BY DEF Steady
<1>3. Spec => []IInv
  BY <1>2, Invariant
<1>4. IInv /\ OneLoop /\ DayCopies /\ DayInv /\ [Next]_vars => (OneLoop /\ DayCopies /\ DayInv)'
  BY D_Next DEF DInv
<1>5. IInv /\ OneLoop /\ DayCopies /\ DayInv => DaysEndOnce
  BY EndedOnce DEF DInv
<1> QED BY <1>1, <1>3, <1>4, <1>5, PTL DEF Spec

-----------------------------------------------------------------------------
(* Dividends. *)

LEMMA V_Keeps ==
  ASSUME TypeOK, Dividends, UNCHANGED snaps, market'.gameDay \in Nat,
         market'.gameDay <= market.gameDay,
         \A j \in Loops : tick'[j].pc = "dayEnd" =>
            tick[j].pc = "dayEnd" /\ market'.gameDay = market.gameDay
  PROVE  Dividends'
<1>1. market.gameDay \in Nat /\ GameDays \subseteq Nat
  BY Scalars, Sizes
<1>2. \A d \in GameDays : d < market'.gameDay => d < market.gameDay
  BY <1>1
<1> QED BY <1>2 DEF Dividends

LEMMA V_Tick ==
  ASSUME DInv, Dividends, NEW i \in Loops, Tick(i) \/ Fault(i)
  PROVE  Dividends'
<1>0. /\ TypeOK /\ UNCHANGED snaps /\ market \in Market /\ tick \in [Loops -> Loop]
      /\ market.gameDay \in Nat /\ DayInv
  BY Types, Scalars DEF DInv, IInv, Tick, Begin, Open, Auction, EndTick, Generate, Unlock, DayInit,
     Match, Persist, Queue, DayEnd, Drop, Fault
<1>1. PICK t \in Loop : Advance(i, t)
  BY <1>0, TickAdvances
<1>2. tick'[i] = t /\ \A j \in Loops : j # i => tick'[j] = tick[j]
  BY <1>0, <1>1 DEF Advance
<1>3. \A j \in Loops : tick'[j].pc = "dayEnd" => j = i
  BY <1>1, <1>2 DEF DInv, OneLoop, Live, Advance
<1>4. CASE DayEnd(i)
  <2>1. market'.gameDay = market.gameDay + 1 /\ tick'[i].pc = "persistAdvanced"
        /\ tick[i].pc = "dayEnd"
    BY <1>0, <1>4, Moved DEF DayEnd, Market
  <2>2. market.gameDay \in GameDays => (snaps[market.gameDay].there => snaps[market.gameDay].paid)
    BY <2>1 DEF Dividends
  <2>3. \A d \in GameDays : d \in Nat
    BY Sizes
  <2> QED BY <1>0, <1>3, <2>1, <2>2, <2>3 DEF Dividends
<1>5. CASE ~DayEnd(i)
  <2>1. market'.gameDay = market.gameDay
    <3>1. CASE Begin(i) \/ Open(i)
      BY <1>0, <3>1 DEF Begin, StartClose, Open, Market
    <3>2. CASE ~(Begin(i) \/ Open(i))
      BY <1>0, <1>5, <3>2 DEF Tick, Auction, EndTick, Generate, Unlock, DayInit, Match, Persist,
         Queue, Drop, Fault, Market
    <3> QED BY <3>1, <3>2
  <2>2. CASE tick'[i].pc # "dayEnd"
    BY <1>0, <1>3, <2>1, <2>2, V_Keeps
  <2>3. CASE tick'[i].pc = "dayEnd"
    <3>1. Queue(i)
      <4>1. CASE Begin(i)
        <5>1. tick'[i].pc \in {"persistClosing", "open"}
          BY <1>0, <4>1 DEF Begin
        <5> QED BY <2>3, <5>1
      <4>2. Finish(i) => tick'[i].pc # "dayEnd"
        BY <1>0, Rested
      <4>3. \A pc : Go(i, pc) => tick'[i].pc = pc
        BY <1>0, Moved
      <4>4. CASE Auction(i)
        <5>1. \E pc \in {"waitEnd", "waitMatch", "end", "match"} : Go(i, pc)
          BY <4>4, Zenon DEF Auction, Go
        <5> QED BY <2>3, <4>3, <5>1
      <4>5. CASE \/ Open(i) \/ EndTick(i) \/ Generate(i) \/ Unlock(i) \/ DayInit(i) \/ Match(i)
                 \/ Persist(i) \/ Drop(i) \/ Fault(i)
        <5>1. \/ Finish(i)
              \/ \E pc \in {"generate", "auction", "unlock", "match", "wait", "dayAuction", "navs",
                            "settle", "open", "persistClosed"} : Go(i, pc)
          BY <4>5 DEF Open, EndTick, Generate, Unlock, DayInit, Match, Persist, Drop, Fault
        <5> QED BY <2>3, <4>2, <4>3, <5>1
      <4> QED BY <1>5, <4>1, <4>4, <4>5 DEF Tick
    <3>2. tick[i].pc = "pay" /\ market.gameDay \notin ExDays
      <4>1. \A pc : Go(i, pc) => tick'[i].pc = pc
        BY <1>0, Moved
      <4> QED BY <2>3, <3>1, <4>1 DEF Queue
    <3> QED BY <1>0, <1>3, <2>1, <3>2 DEF Dividends
  <2> QED BY <2>2, <2>3
<1> QED BY <1>4, <1>5

LEMMA V_Job ==
  ASSUME DInv, Dividends, Job1
  PROVE  Dividends'
<1>0. /\ TypeOK /\ chain # <<>> /\ (Ends \/ GoesOn) /\ UNCHANGED market
      /\ tick \in [Loops -> Loop] /\ market.gameDay \in Nat /\ Head1.by \in Loops \cup {0}
      /\ 1 \in DOMAIN chain /\ Head1 \in JobRow /\ 0 \notin Loops
      /\ snaps \in [GameDays -> [there: BOOLEAN, qty: 0..1, paid: BOOLEAN]]
      /\ GameDays \subseteq Nat /\ ExDays \subseteq GameDays
  BY JobShape, Types, Scalars, HeadOf, Sizes DEF DInv, IInv
<1>1. /\ Head1.by # 0 => tick[Head1.by].pc \in Waits /\ JobAt(Head1)
      /\ Head1.op \notin AllOps => Head1.by # 0
  BY <1>0 DEF DInv, OneLoop, DayInv, JobStage, Head1
<1>2. CASE Head1.op = "snapshot"
  <2>0. Head1.by # 0 /\ JobAt(Head1)
    BY <1>1, <1>2 DEF AllOps
  <2>1. Head1.day = market.gameDay + 1 /\ Head1.day \in ExDays
    BY <1>0, <1>2, <2>0 DEF JobAt, DInv, IInv, ExDividend, Head1
  <2>2. SnapshotHolders
    BY <1>2 DEF Job1, Read, Transfer, Subscribe, Redeem, Reset, Buy, Sell, ResetBoughtToday,
       SettleNavs, PayRead, PayAccount, PayMark, SettleRead, SettleDaily, SettleTier, Is, AllOps
  <2>3. \A d \in GameDays : d # Head1.day => snaps'[d] = snaps[d]
    BY <1>0, <2>2 DEF SnapshotHolders
  <2>4. \A j \in Loops : tick'[j].pc # "dayEnd"
    <3>1. \A j \in Loops : j # Head1.by => ~Live(j)
      BY <1>0, <1>1, <2>0 DEF DInv, OneLoop, Live, Waits
    <3>2. PICK i \in Loops : i = Head1.by
      BY <1>0, <2>0
    <3>3. tick' = [tick EXCEPT ![i].pc = "pay"]
      BY <1>2, <2>0, <2>2, <3>2 DEF SnapshotHolders, Done, AfterJob
    <3>4. tick'[i].pc = "pay" /\ \A j \in Loops : j # i => tick'[j] = tick[j]
      BY <1>0, <3>3 DEF Loop
    <3> QED BY <3>1, <3>2, <3>4 DEF Live
  <2> QED BY <1>0, <2>1, <2>3, <2>4 DEF Dividends
<1>3. CASE Head1.op = "pay"
  <2>0. Head1.by # 0 /\ JobAt(Head1)
    BY <1>1, <1>3 DEF AllOps
  <2>1. Head1.day = market.gameDay /\ Head1.day \in GameDays
    BY <1>0, <1>3, <2>0 DEF JobAt, DInv, IInv, ExDividend, Head1
  <2>2. PayRead \/ PayAccount \/ PayMark
    BY <1>3 DEF Job1, Read, Transfer, Subscribe, Redeem, Reset, Buy, Sell, ResetBoughtToday,
       SettleNavs, SnapshotHolders, SettleRead, SettleDaily, SettleTier, Is, AllOps
  <2>3. \A j \in Loops : tick[j].pc # "dayEnd"
    BY <1>0, <1>1, <2>0 DEF DInv, OneLoop, Live, Waits
  <2>4. CASE UNCHANGED <<snaps, tick>>
    BY <1>0, <2>4, V_Keeps
  <2>5. CASE Done /\ UNCHANGED snaps /\ (snaps[Head1.day].there => snaps[Head1.day].paid)
    BY <1>0, <2>1, <2>5 DEF Dividends
  <2>6. CASE PayMark
    <3>1. /\ snaps' = [snaps EXCEPT ![Head1.day].paid = TRUE]
          /\ snaps'[Head1.day].paid = TRUE /\ snaps'[Head1.day].there = snaps[Head1.day].there
          /\ \A d \in GameDays : d # Head1.day => snaps'[d] = snaps[d]
      BY <1>0, <2>1, <2>6 DEF PayMark
    <3> QED BY <1>0, <2>1, <3>1 DEF Dividends
  <2> QED BY <2>2, <2>4, <2>5, <2>6 DEF PayRead, PayAccount
<1>4. CASE Head1.op \notin {"snapshot", "pay"}
  <2>1. UNCHANGED snaps
    BY <1>4 DEF Job1, Read, Transfer, Subscribe, Redeem, Reset, Buy, Sell, ResetBoughtToday,
       SettleNavs, SnapshotHolders, PayRead, PayAccount, PayMark, SettleRead, SettleDaily,
       SettleTier, Is
  <2>2. \A j \in Loops : tick'[j].pc = "dayEnd" => tick[j].pc = "dayEnd"
    <3>1. CASE tick' = tick
      BY <3>1
    <3>2. CASE Head1.by # 0 /\ tick' = [tick EXCEPT ![Head1.by].pc = AfterJob]
      <4>1. PICK i \in Loops : i = Head1.by
        BY <1>0, <3>2
      <4>2. AfterJob # "dayEnd"
        BY <1>4 DEF AfterJob
      <4>3. tick'[i].pc = AfterJob /\ \A j \in Loops : j # i => tick'[j] = tick[j]
        BY <1>0, <3>2, <4>1 DEF Loop
      <4> QED BY <4>2, <4>3
    <3> QED BY <1>0, <3>1, <3>2 DEF Ends, GoesOn
  <2> QED BY <1>0, <2>1, <2>2, V_Keeps
<1> QED BY <1>2, <1>3, <1>4

LEMMA V_Next ==
  ASSUME Steady, DInv, Dividends, [Next]_vars
  PROVE  Dividends'
<1>0. /\ TypeOK /\ market.gameDay \in Nat /\ saved.gameDay \in Nat
      /\ saved.gameDay <= market.gameDay
  BY Scalars DEF DInv, IInv, DayInv, Ledger, DatesOrdered
<1>1. CASE UNCHANGED vars
  BY <1>1 DEF vars, Dividends
<1>2. CASE Job1
  BY <1>2, V_Job
<1>3. CASE \E i \in Loops : Tick(i) \/ Fault(i)
  BY <1>3, V_Tick
<1>4. CASE \E i \in Loops : Hang(i) \/ Watchdog(i)
  <2>1. \A j \in Loops : tick'[j].pc # "dayEnd"
    BY <1>4, L_Hang DEF DInv, Steady, Live
  <2> QED BY <1>0, <1>4, <2>1, V_Keeps DEF Hang, Watchdog
<1>5. CASE JobFault \/ Crash
  <2>1. \A j \in Loops : tick'[j].pc # "dayEnd"
    BY <1>5, L_Crash DEF DInv, Live, IdleTick
  <2>2. market'.gameDay \in {market.gameDay, saved.gameDay} /\ UNCHANGED snaps
    BY <1>5 DEF JobFault, Crash, Memory
  <2> QED BY <1>0, <2>1, <2>2, V_Keeps
<1>6. CASE (\E op \in AllOps : Ask(op)) \/ AskLate \/ LeverageRead \/ LeverageSave \/ TimePasses
  BY <1>6 DEF Dividends, Ask, AskLate, LeverageRead, LeverageSave, TimePasses
<1> QED BY <1>1, <1>2, <1>3, <1>4, <1>5, <1>6 DEF Next

LEMMA V_Init == Init => Dividends
BY DEF Init, Dividends, NoSnap, IdleTick

(* Whoever held the share when its ex day was about to begin is paid before that
   day has ended: a close that is repeated neither skips the payment nor takes
   the snapshot of a day that is already due. *)
THEOREM DividendsPaid == ASSUME Steady PROVE Spec => []DividendsReachHolders
<1>1. Init => OneLoop /\ DayCopies /\ DayInv /\ Dividends
  BY D_Init, V_Init
<1>2. SUFFICES ASSUME LoneLeverage PROVE Spec => []DividendsReachHolders
  BY DEF Steady
<1>3. Spec => []IInv
  BY <1>2, Invariant
<1>4. IInv /\ OneLoop /\ DayCopies /\ DayInv /\ Dividends /\ [Next]_vars
        => (OneLoop /\ DayCopies /\ DayInv /\ Dividends)'
  BY D_Next, V_Next DEF DInv
<1>5. IInv /\ OneLoop /\ DayCopies /\ DayInv /\ Dividends => DividendsReachHolders
  <2> SUFFICES ASSUME IInv, DayInv, Dividends PROVE DividendsReachHolders
    OBVIOUS
  <2>1. 1..(market.gameDay - 1) \subseteq GameDays /\ market.gameDay \in Nat
    BY DaysBounded, Scalars DEF DayInv, IInv
  <2> QED BY <2>1 DEF Dividends, DividendsReachHolders
<1> QED BY <1>1, <1>3, <1>4, <1>5, PTL DEF Spec

-----------------------------------------------------------------------------
(* The post-close order. *)

LEMMA InitScalars ==
  ASSUME TypeOK
  PROVE  market.initDay \in Nat /\ market.cal.initDay \in Nat /\ saved.cal.initDay \in Nat
         /\ market.closing.advanced \in BOOLEAN /\ saved.closing.advanced \in BOOLEAN
         /\ late \in Nat
<1>1. market.initDay \in Nat /\ market.cal \in Calendar /\ saved.cal \in Calendar
  BY Types DEF Market
<1>2. market.closing \in Record /\ saved.closing \in Record /\ late \in Nat
  BY Scalars, Types, Sizes
<1> QED BY <1>1, <1>2 DEF Calendar, Record

(* What the init days depend on. *)
Opened == <<market.gameDay, market.active, market.initDay, market.cal.initDay,
            market.cal.closedOn, market.closing, saved>>

LEMMA KeptInit ==
  ASSUME InitDays, UNCHANGED Opened
  PROVE  InitDays'
BY DEF InitDays, Opened

(* While a loop runs and waits for nothing, only it may be opening the day. *)
LEMMA OnlyOne ==
  ASSUME TypeOK, OneLoop, NEW i \in Loops, Live(i), tick[i].pc \notin Waits
  PROVE  /\ \A k \in DOMAIN chain : chain[k].op # "unlock"
         /\ Opening <=> tick[i].pc \in {"unlock", "init"}
<1>1. \A k \in DOMAIN chain : chain[k].op # "unlock"
  BY NoJobs DEF OneLoop, AllOps
<1>2. \A j \in Loops : tick[j].pc \in {"unlock", "init"} => j = i
  BY DEF OneLoop, Live
<1> QED BY <1>1, <1>2 DEF Opening

LEMMA PlacesKept ==
  ASSUME DInv, NEW i \in Loops, NEW t \in Loop, Advance(i, t),
         t.pc \in Begun => market'.initDay = market'.gameDay,
         \/ chain' = chain \/ market'.initDay = market'.gameDay
         \/ \E op, day : op # "unlock" /\ chain' = Append(chain, Job(op, i, day))
  PROVE  InitPlaces'
<1>0. TypeOK /\ tick \in [Loops -> Loop] /\ OneLoop /\ chain \in Seq(JobRow)
  BY Types DEF DInv, IInv
<1>1. tick'[i] = t /\ \A j \in Loops : j # i => tick'[j] = tick[j]
  BY <1>0 DEF Advance
<1>2. \A j \in Loops : tick'[j].pc \in Begun => j = i
  BY <1>0, <1>1 DEF OneLoop, Live, Advance, Begun
<1>3. \A k \in DOMAIN chain : chain[k].op # "unlock"
  BY <1>0, OnlyOne DEF Advance
<1>4. CASE chain' = chain \/ market'.initDay = market'.gameDay
  BY <1>1, <1>2, <1>3, <1>4 DEF InitPlaces
<1>5. ASSUME NEW op, NEW day, op # "unlock", chain' = Append(chain, Job(op, i, day))
      PROVE  InitPlaces'
  <2> DEFINE job == Job(op, i, day)
  <2>1. job.op # "unlock"
    BY <1>5 DEF Job
  <2> HIDE DEF job
  <2>2. /\ DOMAIN chain = 1..Len(chain) /\ DOMAIN chain' = 1..(Len(chain) + 1)
        /\ Len(chain) \in Nat
        /\ \A m \in DOMAIN chain : chain'[m] = chain[m]
        /\ chain'[Len(chain) + 1] = job
    BY <1>0, <1>5 DEF job
  <2>3. \A k \in DOMAIN chain' : chain'[k].op # "unlock"
    BY <1>3, <2>1, <2>2
  <2> QED BY <1>1, <1>2, <2>3 DEF InitPlaces
<1> QED BY <1>4, <1>5

LEMMA O_Plain ==
  ASSUME DInv, LateInv, NEW i \in Loops,
         Auction(i) \/ EndTick(i) \/ Queue(i) \/ Fault(i) \/ Begin(i)
  PROVE  LateInv'
<1>0. /\ TypeOK /\ OneLoop /\ market \in Market /\ UNCHANGED <<saved, late>>
      /\ tick \in [Loops -> Loop]
  BY Types DEF DInv, IInv, Auction, EndTick, Queue, Fault, Begin
<1>1. PICK t \in Loop : Advance(i, t)
  BY <1>0, TickAdvances DEF Tick
<1>2. tick'[i] = t
  BY <1>0, <1>1 DEF Advance
<1>3. ~Opening
  <2>1. tick[i].pc \notin {"unlock", "init"}
    BY MarketDayAssumption DEF Auction, EndTick, Queue, Fault, Begin, MarketDayAssumption
  <2> QED BY <1>0, <1>1, <2>1, OnlyOne DEF Advance
<1>4. /\ market'.gameDay = market.gameDay /\ market'.active = market.active
      /\ market'.initDay = market.initDay /\ market'.cal.initDay = market.cal.initDay
      /\ market'.cal.closedOn = market.cal.closedOn
      /\ market'.closing.advanced = market.closing.advanced \/ market'.closing.advanced = FALSE
  <2>1. CASE UNCHANGED market
    BY <2>1
  <2>2. CASE StartClose
    <3> DEFINE closing == IF market.closing # None THEN market.closing
                          ELSE [day |-> market.gameDay, advanced |-> FALSE]
    <3>1. market' = [market EXCEPT !.closing = closing, !.cal.closing = TRUE]
      BY <2>2 DEF StartClose
    <3>2. closing.advanced = market.closing.advanced \/ closing.advanced = FALSE
      OBVIOUS
    <3> HIDE DEF closing
    <3> QED BY <1>0, <3>1, <3>2 DEF Market, Calendar
  <2> QED BY <2>1, <2>2 DEF Auction, EndTick, Queue, Fault, Begin
<1>5. InitDays'
  BY <1>0, <1>4 DEF LateInv, InitDays
<1>6. LateOrder'
  BY <1>0, <1>3, <1>4 DEF LateInv, LateOrder
<1>7. InitPlaces'
  <2>1. t.pc \in Begun => tick[i].pc \in Begun
    <3>1. Finish(i) => t.pc = "idle"
      BY <1>0, <1>2, Rested
    <3>2. \A pc : Go(i, pc) => t.pc = pc
      BY <1>0, <1>2, Moved
    <3>3. CASE Begin(i)
      <4>1. tick'[i].pc \in {"persistClosing", "open"}
        BY <1>0, <3>3 DEF Begin
      <4> QED BY <1>2, <4>1 DEF Begun
    <3>4. CASE Auction(i)
      <4>1. /\ tick[i].pc \in {"auction", "dayAuction"}
            /\ \/ Go(i, IF tick[i].pc = "auction" THEN "waitEnd" ELSE "waitMatch")
               \/ Go(i, IF tick[i].pc = "auction" THEN "end" ELSE "match")
        BY <3>4 DEF Auction, Go
      <4> QED BY <3>2, <4>1 DEF Begun
    <3>5. CASE EndTick(i) \/ Fault(i)
      BY <3>1, <3>5 DEF EndTick, Fault, Begun
    <3>6. CASE Queue(i)
      <4>1. \E pc \in {"pay", "dayEnd", "wait"} : Go(i, pc)
        BY <3>6 DEF Queue
      <4> QED BY <3>2, <4>1 DEF Begun
    <3> QED BY <3>3, <3>4, <3>5, <3>6
  <2>2. t.pc \in Begun => market'.initDay = market'.gameDay
    BY <1>4, <2>1 DEF LateInv, InitPlaces
  <2>3. chain' = chain \/ \E op, day : op # "unlock" /\ chain' = Append(chain, Job(op, i, day))
    <3>1. CASE Auction(i)
      BY <3>1 DEF Auction
    <3>2. CASE Queue(i)
      <4>1. tick[i].pc # "unlock"
        BY <3>2 DEF Queue
      <4> QED BY <3>2, <4>1 DEF Queue
    <3> QED BY <3>1, <3>2 DEF EndTick, Fault, Begin
  <2> QED BY <1>1, <2>2, <2>3, PlacesKept
<1> QED BY <1>5, <1>6, <1>7 DEF LateInv

LEMMA O_Open ==
  ASSUME DInv, LateInv, NEW i \in Loops, Open(i)
  PROVE  LateInv'
<1>0. /\ TypeOK /\ OneLoop /\ market \in Market /\ UNCHANGED saved /\ chain' = chain
      /\ tick \in [Loops -> Loop] /\ tick[i].pc = "open" /\ Stage(i)
      /\ late' = 0 \/ late' = late
  BY Types DEF DInv, IInv, Open, DayInv, Stages, Live
<1>1. PICK t \in Loop : Advance(i, t)
  BY <1>0, TickAdvances DEF Tick
<1>2. tick'[i] = t /\ ~Opening
  BY <1>0, <1>1, OnlyOne DEF Advance
<1>3. /\ market'.gameDay = market.gameDay /\ market'.closing = market.closing
      /\ market'.initDay = market.initDay /\ market'.cal.initDay = market.cal.initDay
      /\ market'.cal.closedOn = market.cal.closedOn
      /\ \/ market'.active = market.active
         \/ market'.active = tick[i].date /\ market.closedOn # tick[i].date
      /\ \/ Finish(i) \/ Go(i, "generate") \/ Go(i, "auction")
  <2> DEFINE after == IF clock.slot = PostClose THEN market.gameDay
                      ELSE IF Cancelled(clock.date) THEN 0 ELSE market.afterDay
             auction == clock.slot = 0 /\ market.auctionDay # market.gameDay
             key == <<tick[i].date, tick[i].slot>>
             generates == /\ InSession /\ tick[i].slot \in 1..Minutes
                          /\ market.closedOn # tick[i].date /\ market.minute # key
             bound == IF clock.slot # PostClose /\ (tick[i].slot = 0 \/ generates)
                      THEN tick[i].date ELSE market.cal.date
             aday == IF auction THEN market.gameDay ELSE market.auctionDay
             minute == IF generates THEN key ELSE market.minute
             active == IF generates THEN tick[i].date ELSE market.active
             eday == IF generates THEN market.gameDay ELSE market.engineDay
  <2>1. market' = [market EXCEPT !.afterDay = after, !.cal.date = bound, !.auctionDay = aday,
                                 !.minute = minute, !.active = active, !.engineDay = eday]
        /\ (Finish(i) \/ Go(i, "generate") \/ Go(i, "auction"))
    BY DEF Open
  <2>2. active = market.active \/ (active = tick[i].date /\ market.closedOn # tick[i].date)
    OBVIOUS
  <2> HIDE DEF after, auction, key, generates, bound, aday, minute, active, eday
  <2> QED BY <1>0, <2>1, <2>2 DEF Market, Calendar
<1>4. /\ market.closing = None /\ market.closedOn = market.cal.closedOn
      /\ market.closedOn <= market.active /\ market.active <= tick[i].date
      /\ market.closedOn < market.active => market.active = tick[i].date
      /\ market.closedOn \in Nat /\ market.active \in Nat /\ tick[i].date \in Nat
  BY <1>0, Scalars DEF Stage, DInv, DayInv, Ledger, InMemory, Consistent
<1>5. market'.active # market.active =>
        market.initDay < market.gameDay /\ market.cal.closedOn # market'.active
  BY <1>3, <1>4 DEF LateInv, InitDays
<1>6. InitDays'
  BY <1>0, <1>3, <1>4, <1>5 DEF LateInv, InitDays, None
<1>7. LateOrder'
  <2>1. market.initDay \in Nat /\ market.gameDay \in Nat
    BY <1>0, InitScalars, Scalars
  <2> QED BY <1>0, <1>2, <1>3, <1>5, <2>1 DEF LateInv, LateOrder
<1>8. InitPlaces'
  <2>1. t.pc \in {"idle", "generate", "auction"}
    BY <1>0, <1>2, <1>3, Moved, Rested
  <2> QED BY <1>0, <1>1, <2>1, PlacesKept DEF Begun
<1> QED BY <1>6, <1>7, <1>8 DEF LateInv

LEMMA O_Morning ==
  ASSUME DInv, LateInv, NEW i \in Loops, Generate(i) \/ Unlock(i) \/ DayInit(i)
  PROVE  LateInv'
<1>0. /\ TypeOK /\ OneLoop /\ market \in Market /\ UNCHANGED saved
      /\ tick \in [Loops -> Loop] /\ tick[i].pc \in Morning /\ Stage(i)
      /\ market.initDay \in Nat /\ market.cal.initDay \in Nat /\ market.gameDay \in Nat
      /\ market.closedOn \in Nat /\ market.active \in Nat
  BY Types, InitScalars, Scalars
     DEF DInv, IInv, DayInv, Stages, Live, Generate, Unlock, DayInit, Morning
<1>1. PICK t \in Loop : Advance(i, t)
  BY <1>0, TickAdvances DEF Tick
<1>2. tick'[i] = t
  BY <1>0, <1>1 DEF Advance
<1>3. /\ market.closing = None /\ market.cal.closedOn < market.active
      /\ market.closing.advanced = FALSE
  BY <1>0 DEF Stage, Morning, None
<1>4. /\ market'.gameDay = market.gameDay /\ market'.active = market.active
      /\ market'.closing = market.closing /\ market'.cal = market.cal
      /\ market'.initDay = market.gameDay
  <2>1. DayInit(i) \/ Unlock(i) => market.initDay = market.gameDay
    BY DEF DayInit, Unlock, LateInv, InitPlaces, Begun
  <2> QED BY <1>0, <2>1 DEF Generate, Unlock, DayInit, Market
<1>5. InitDays'
  BY <1>0, <1>3, <1>4 DEF LateInv, InitDays
<1>6. InitPlaces'
  BY <1>1, <1>4, PlacesKept
<1>7. LateOrder'
  <2>1. saved'.cal.initDay = saved'.gameDay /\ late' # 0 => late' >= saved'.cal.date
    BY <1>0 DEF Generate, Unlock, DayInit, LateInv, LateOrder
  <2>2. CASE DayInit(i)
    BY <2>1, <2>2 DEF DayInit, LateOrder
  <2>3. CASE Unlock(i)
    <3>1. chain' = Append(chain, Job("unlock", i, market.gameDay)) /\ chain \in Seq(JobRow)
      BY <1>0, <2>3, Types DEF Unlock
    <3> DEFINE job == Job("unlock", i, market.gameDay)
    <3>2. job.op = "unlock"
      BY DEF Job
    <3> HIDE DEF job
    <3>3. Len(chain) + 1 \in DOMAIN chain' /\ chain'[Len(chain) + 1] = job
      BY <3>1 DEF job
    <3>4. Opening'
      BY <3>2, <3>3 DEF Opening
    <3> QED BY <2>1, <3>4 DEF LateOrder
  <2>4. CASE Generate(i) /\ market.initDay # market.gameDay
    <3>1. tick'[i].pc = "unlock"
      BY <1>0, <2>4, Moved DEF Generate
    <3>2. Opening'
      BY <3>1 DEF Opening
    <3> QED BY <2>1, <3>2 DEF LateOrder
  <2>5. CASE Generate(i) /\ market.initDay = market.gameDay
    <3>1. ~Opening /\ late' = late
      BY <1>0, <1>1, <2>5, OnlyOne DEF Generate, Advance
    <3> QED BY <1>4, <2>1, <2>5, <3>1 DEF LateInv, LateOrder
  <2> QED BY <2>2, <2>3, <2>4, <2>5
<1> QED BY <1>5, <1>6, <1>7 DEF LateInv

LEMMA O_Match ==
  ASSUME DInv, LateInv, NEW i \in Loops, Match(i)
  PROVE  LateInv'
<1>0. /\ TypeOK /\ OneLoop /\ market \in Market /\ UNCHANGED <<late, chain>>
      /\ tick \in [Loops -> Loop] /\ tick[i].pc = "match" /\ Stage(i)
      /\ market.initDay \in Nat /\ market.gameDay \in Nat
      /\ market.closedOn \in Nat /\ market.active \in Nat
  BY Types, InitScalars, Scalars DEF DInv, IInv, DayInv, Stages, Live, Match
<1>1. PICK t \in Loop : Advance(i, t)
  BY <1>0, TickAdvances DEF Tick
<1>2. tick'[i] = t /\ tick'[i].pc = "idle"
  BY <1>0, <1>1, Rested DEF Advance, Match
<1>3. ~Opening
  BY <1>0, <1>1, OnlyOne DEF Advance
<1>4. /\ market.closing = None /\ market.cal.closedOn < market.active
      /\ market.cal.date = market.active /\ market.initDay = market.gameDay
  BY <1>0 DEF Stage, Morning, LateInv, InitPlaces, Begun, DInv, DayInv, Ledger, DatesOrdered
<1> DEFINE cal == [market.cal EXCEPT !.minute = market.minute, !.initDay = market.initDay,
                                     !.auctionDay = market.auctionDay]
<1>5. /\ market' = [market EXCEPT !.cal = cal]
      /\ \/ saved' = [gameDay |-> market.gameDay, cal |-> cal, closing |-> market.closing]
         \/ UNCHANGED saved
  BY DEF Match
<1>6. cal.date = market.cal.date /\ cal.closedOn = market.cal.closedOn
      /\ cal.initDay = market.initDay
  BY <1>0 DEF Market, Calendar
<1> HIDE DEF cal
<1>7. /\ market'.gameDay = market.gameDay /\ market'.closing = market.closing
      /\ market'.initDay = market.initDay /\ market'.active = market.active /\ market'.cal = cal
  BY <1>0, <1>5 DEF Market
<1>8. \/ UNCHANGED saved
      \/ saved'.gameDay = market.gameDay /\ saved'.cal = cal /\ saved'.closing = None
  BY <1>4, <1>5
<1>9. InitDays'
  BY <1>0, <1>4, <1>6, <1>7, <1>8 DEF LateInv, InitDays, None
<1>10. LateOrder'
  BY <1>0, <1>3, <1>4, <1>6, <1>7, <1>8 DEF LateInv, LateOrder
<1>11. InitPlaces'
  BY <1>0, <1>1, <1>2, <1>4, <1>7, PlacesKept
<1> QED BY <1>9, <1>10, <1>11 DEF LateInv

LEMMA O_Close ==
  ASSUME DInv, LateInv, NEW i \in Loops, Persist(i) \/ DayEnd(i) \/ Drop(i)
  PROVE  LateInv'
<1>0. /\ TypeOK /\ OneLoop /\ market \in Market /\ UNCHANGED <<late, chain>>
      /\ tick \in [Loops -> Loop] /\ Stage(i) /\ Ledger
      /\ market.initDay \in Nat /\ market.cal.initDay \in Nat /\ market.gameDay \in Nat
  BY Types, InitScalars, Scalars DEF DInv, IInv, DayInv, Stages, Live, Persist, DayEnd, Drop
<1>1. PICK t \in Loop : Advance(i, t)
  BY <1>0, TickAdvances DEF Tick
<1>2. /\ tick'[i] = t
      /\ t.pc \in {"navs", "settle", "open", "persistAdvanced", "persistClosed"}
  BY <1>0, <1>1, Moved DEF Advance, Persist, DayEnd, Drop
<1>3. ~Opening
  BY <1>0, <1>1, OnlyOne DEF Advance, Persist, DayEnd, Drop
<1>4. InitPlaces'
  BY <1>0, <1>1, <1>2, PlacesKept DEF Begun
<1>5. CASE Persist(i)
  <2>1. /\ market'.gameDay = market.gameDay /\ market'.closing = market.closing
        /\ market'.active = market.active /\ market'.cal = market.cal
        /\ market'.initDay = market.initDay
        /\ saved'.gameDay = market.gameDay /\ saved'.cal = market.cal
        /\ saved'.closing = market.closing
    BY <1>0, <1>5 DEF Persist, Market
  <2>2. market.cal.date = market.active
    BY <1>0, <1>5, Scalars
       DEF Persist, Stage, Morning, Ledger, InMemory, Consistent, Over, Ending, Closing, None,
           DatesOrdered
  <2>3. InitDays'
    BY <1>0, <2>1, <2>2 DEF LateInv, InitDays
  <2>4. LateOrder'
    BY <1>0, <1>3, <2>1, <2>2 DEF LateInv, InitDays, LateOrder
  <2> QED BY <1>4, <2>3, <2>4 DEF LateInv
<1>6. CASE DayEnd(i)
  <2>1. /\ market'.gameDay = market.gameDay + 1 /\ market'.cal = market.cal
        /\ market'.initDay = market.initDay /\ UNCHANGED saved
    BY <1>0, <1>6 DEF DayEnd, Market
  <2>2. market'.initDay < market'.gameDay
    BY <1>0, <2>1 DEF LateInv, InitDays
  <2>3. InitDays'
    BY <1>0, <2>1, <2>2 DEF LateInv, InitDays
  <2>4. LateOrder'
    BY <1>0, <2>1, <2>2 DEF LateInv, LateOrder
  <2> QED BY <1>4, <2>3, <2>4 DEF LateInv
<1>7. CASE Drop(i)
  <2> DEFINE cal == [market.cal EXCEPT !.closing = FALSE, !.closedOn = market.active]
  <2>1. cal.initDay = market.cal.initDay
    BY <1>0 DEF Market, Calendar
  <2>2. market' = [market EXCEPT !.closing = None, !.cal = cal] /\ UNCHANGED saved
    BY <1>0, <1>7 DEF Drop, Market
  <2> HIDE DEF cal
  <2>3. /\ market'.gameDay = market.gameDay /\ market'.cal.initDay = market.cal.initDay
        /\ market'.initDay = market.initDay
    BY <1>0, <2>1, <2>2 DEF Market
  <2>4. market.closing.advanced
    BY <1>0, <1>7 DEF Drop, Stage, Morning, Over, Ending, Closing
  <2>5. market.initDay < market.gameDay
    BY <2>4 DEF LateInv, InitDays
  <2>6. InitDays' /\ LateOrder'
    BY <1>0, <2>2, <2>3, <2>5 DEF LateInv, InitDays, LateOrder
  <2> QED BY <1>4, <2>6 DEF LateInv
<1> QED BY <1>5, <1>6, <1>7

(* Steps that leave the calendar alone and stop or hand on one loop. *)
LEMMA O_Rest ==
  ASSUME TypeOK, LateInv, UNCHANGED <<market, saved>>, late' = late,
         \A j \in Loops : tick'[j].pc \in Begun => market.initDay = market.gameDay,
         \A k \in DOMAIN chain' : chain'[k].op = "unlock" => market.initDay = market.gameDay,
         Opening => Opening' \/ late = 0
  PROVE  LateInv'
<1>1. InitDays'
  BY KeptInit DEF LateInv, Opened
<1>2. InitPlaces'
  BY DEF LateInv, InitPlaces
<1>3. LateOrder'
  BY DEF LateInv, LateOrder
<1> QED BY <1>1, <1>2, <1>3 DEF LateInv

LEMMA O_Hang ==
  ASSUME DInv, LateInv, NEW i \in Loops, Hang(i) \/ Watchdog(i), ~Slow
  PROVE  LateInv'
<1>0. TypeOK /\ OneLoop /\ UNCHANGED <<market, saved, late, chain>>
  BY DEF DInv, IInv, Hang, Watchdog
<1>1. /\ \A j \in Loops : Live(j)' => tick'[j].pc \in {"watchdog", "idle"}
      /\ \A k \in DOMAIN chain : chain[k].op # "unlock"
      /\ ~Opening
  <2>1. Live(i) /\ tick[i].pc \notin Waits /\ tick[i].pc \notin {"unlock", "init"}
    BY DEF Hang, Watchdog, Live, Waits
  <2> QED BY <1>0, <2>1, L_Hang, OnlyOne DEF DInv
<1>2. \A j \in Loops : tick'[j].pc \notin Begun
  BY <1>1 DEF Live, Begun
<1> QED BY <1>0, <1>1, <1>2, O_Rest

LEMMA O_JobFault ==
  ASSUME DInv, LateInv, JobFault
  PROVE  LateInv'
<1>0. /\ TypeOK /\ OneLoop /\ UNCHANGED <<market, saved, late>> /\ chain # <<>>
      /\ Head1.op \in {"navs", "settle"} /\ chain' = Tail(chain)
      /\ 1 \in DOMAIN chain /\ Head1.by \in Loops \cup {0}
  BY HeadOf DEF DInv, IInv, JobFault
<1>1. /\ \A j \in Loops : Live(j)' => tick'[j] = IdleTick
      /\ \A k \in DOMAIN chain' : chain'[k].by = 0
  BY L_Crash DEF DInv
<1>2. Head1.by # 0
  BY <1>0 DEF OneLoop, Head1, AllOps
<1>3. \A k \in DOMAIN chain : chain[k].op # "unlock"
  <2>1. \A k \in DOMAIN chain : k # 1 => chain[k].by = 0
    BY <1>0, <1>2 DEF OneLoop, Head1
  <2> QED BY <1>0, <2>1 DEF OneLoop, Head1, AllOps
<1>4. \A j \in Loops : tick[j].pc \notin {"unlock", "init"}
  BY <1>0, <1>2 DEF OneLoop, Head1, Live, Waits
<1>5. \A j \in Loops : tick'[j].pc \notin Begun
  BY <1>1 DEF Live, Begun, IdleTick
<1>6. \A k \in DOMAIN chain' : chain'[k].op # "unlock"
  BY <1>0, <1>3, TailOf
<1>7. ~Opening
  BY <1>3, <1>4 DEF Opening
<1> QED BY <1>0, <1>5, <1>6, <1>7, O_Rest

LEMMA O_Job ==
  ASSUME DInv, LateInv, Job1
  PROVE  LateInv'
<1>0. /\ TypeOK /\ OneLoop /\ chain # <<>> /\ (Ends \/ GoesOn)
      /\ UNCHANGED <<market, saved, late>> /\ tick \in [Loops -> Loop]
      /\ Head1.by \in Loops \cup {0} /\ 1 \in DOMAIN chain /\ Head1 \in JobRow /\ 0 \notin Loops
  BY JobShape, Types, HeadOf, Sizes DEF DInv, IInv
<1>1. Head1.by # 0 => tick[Head1.by].pc \in Waits /\ JobAt(Head1)
  BY <1>0 DEF DInv, OneLoop, DayInv, JobStage, Head1
<1>2. CASE GoesOn
  <2>1. PICK job \in JobRow : /\ chain' = [chain EXCEPT ![1] = job] /\ tick' = tick
                              /\ job.op = Head1.op
    BY <1>2 DEF GoesOn
  <2>2. /\ DOMAIN chain' = DOMAIN chain /\ chain'[1] = job
        /\ \A k \in DOMAIN chain : k # 1 => chain'[k] = chain[k]
    BY <1>0, <2>1, HeadChanged
  <2>3. \A k \in DOMAIN chain : chain'[k].op = chain[k].op
    BY <2>1, <2>2 DEF Head1
  <2>4. Opening => Opening'
    BY <2>1, <2>2, <2>3 DEF Opening
  <2>5. /\ \A j \in Loops : tick'[j].pc \in Begun => market.initDay = market.gameDay
        /\ \A k \in DOMAIN chain' : chain'[k].op = "unlock" => market.initDay = market.gameDay
    BY <2>1, <2>2, <2>3 DEF LateInv, InitPlaces
  <2> QED BY <1>0, <2>4, <2>5, O_Rest
<1>3. CASE Ends
  <2>0. /\ chain' = Tail(chain)
        /\ \A k \in DOMAIN chain' : k + 1 \in DOMAIN chain /\ chain'[k] = chain[k + 1]
    BY <1>0, <1>3, TailOf DEF Ends
  <2>1. \A k \in DOMAIN chain' : chain'[k].op = "unlock" => market.initDay = market.gameDay
    BY <2>0 DEF LateInv, InitPlaces
  <2>2. \A k \in DOMAIN chain : k # 1 => \E l \in DOMAIN chain' : chain'[l] = chain[k]
    <3>1. chain \in Seq(JobRow)
      BY <1>0, Types
    <3>2. TAKE k \in DOMAIN chain
    <3>3. HAVE k # 1
    <3>4. k - 1 \in DOMAIN chain' /\ chain'[k - 1] = chain[k]
      BY <2>0, <3>1, <3>3
    <3> QED BY <3>4
  <2>3. CASE Head1.by = 0
    <3>1. tick' = tick /\ Head1.op # "unlock"
      BY <1>0, <1>3, <2>3 DEF Ends, OneLoop, Head1, AllOps
    <3>2. Opening => Opening'
      BY <2>2, <3>1 DEF Opening, Head1
    <3>3. \A j \in Loops : tick'[j].pc \in Begun => market.initDay = market.gameDay
      BY <3>1 DEF LateInv, InitPlaces
    <3> QED BY <1>0, <2>1, <3>2, <3>3, O_Rest
  <2>4. CASE Head1.by # 0
    <3>1. PICK i \in Loops : i = Head1.by
      BY <1>0, <2>4
    <3>2. tick' = [tick EXCEPT ![i].pc = AfterJob]
      BY <1>3, <2>4, <3>1 DEF Ends
    <3>3. tick'[i].pc = AfterJob /\ \A j \in Loops : j # i => tick'[j] = tick[j]
      BY <1>0, <3>2 DEF Loop
    <3>4. CASE Head1.op = "unlock"
      <4>1. tick'[i].pc = "init"
        BY <3>3, <3>4 DEF AfterJob
      <4>2. Opening'
        BY <4>1 DEF Opening
      <4>3. market.initDay = market.gameDay
        BY <1>0, <3>4 DEF LateInv, InitPlaces, Head1
      <4> QED BY <1>0, <2>1, <4>2, <4>3, O_Rest
    <3>5. CASE Head1.op # "unlock"
      <4>1. Opening => Opening'
        <5>1. ASSUME NEW j \in Loops, tick[j].pc \in {"unlock", "init"} PROVE Opening'
          <6>1. j # i
            BY <1>1, <2>4, <3>1, <5>1 DEF Waits
          <6> QED BY <3>3, <5>1, <6>1 DEF Opening
        <5>2. ASSUME NEW k \in DOMAIN chain, chain[k].op = "unlock" PROVE Opening'
          BY <2>2, <3>5, <5>2 DEF Opening, Head1
        <5> QED BY <5>1, <5>2 DEF Opening
      <4>2. tick'[i].pc \in Begun => tick[i].pc = "waitMatch"
        <5>1. AfterJob \in Begun => Head1.op \notin {"navs", "snapshot", "pay", "settle"}
          BY DEF AfterJob, Begun
        <5>2. AfterJob \in Begun => Head1.op \in AllOps /\ tick[i].pc # "waitEnd"
          BY <1>0, <3>1, <3>5, <5>1 DEF AfterJob, Begun, JobRow, AllOps
        <5> QED BY <1>1, <2>4, <3>1, <3>3, <5>2 DEF JobAt, Waits
      <4>3. \A j \in Loops : tick'[j].pc \in Begun => market.initDay = market.gameDay
        BY <3>3, <4>2 DEF LateInv, InitPlaces, Begun
      <4> QED BY <1>0, <2>1, <4>1, <4>3, O_Rest
    <3> QED BY <3>4, <3>5
  <2> QED BY <2>3, <2>4
<1> QED BY <1>0, <1>2, <1>3

LEMMA O_Crash ==
  ASSUME DInv, LateInv, Crash
  PROVE  LateInv'
<1>0. TypeOK /\ UNCHANGED <<saved, late>> /\ chain' = <<>>
  BY DEF DInv, IInv, Crash
<1>1. /\ market'.gameDay = saved.gameDay /\ market'.active = saved.cal.date
      /\ market'.cal = saved.cal /\ market'.initDay = saved.cal.initDay
      /\ market'.closing = saved.closing
  BY DEF Crash, Memory
<1>2. \A j \in Loops : tick'[j].pc \notin Begun
  BY L_Crash DEF DInv, Live, IdleTick, Begun
<1>3. saved.cal.initDay \in Nat
  BY <1>0, InitScalars
<1>4. InitDays'
  BY <1>0, <1>1, <1>3 DEF LateInv, InitDays
<1>5. InitPlaces' /\ LateOrder'
  BY <1>0, <1>1, <1>2 DEF LateInv, InitPlaces, LateOrder
<1> QED BY <1>4, <1>5 DEF LateInv

LEMMA O_Request ==
  ASSUME DInv, LateInv,
         (\E op \in AllOps : Ask(op)) \/ AskLate \/ LeverageRead \/ LeverageSave \/ TimePasses
  PROVE  LateInv'
<1>0. /\ TypeOK /\ UNCHANGED <<market, saved>> /\ tick' = tick /\ chain \in Seq(JobRow)
      /\ saved.cal.date <= clock.date /\ market.active <= clock.date
      /\ clock.date \in Nat /\ market.active \in Nat
  <2>1. TypeOK /\ DatesOrdered
    BY DEF DInv, IInv, DayInv, Ledger
  <2>2. UNCHANGED <<market, saved>> /\ tick' = tick
    BY DEF Ask, AskLate, LeverageRead, LeverageSave, TimePasses
  <2>3. /\ chain \in Seq(JobRow) /\ clock.date \in Nat /\ market.active \in Nat
        /\ market.cal.date \in Nat
    BY <2>1, Types, Scalars
  <2> QED BY <2>1, <2>2, <2>3 DEF DatesOrdered
<1>1. \A k \in DOMAIN chain' : \/ k \in DOMAIN chain /\ chain'[k] = chain[k]
                              \/ chain'[k].op # "unlock"
  BY L_Request DEF DInv
<1>2. CASE AskLate
  <2>1. late' = clock.date /\ chain' = chain
    BY <1>2 DEF AskLate
  <2>2. InitDays'
    BY <1>0, KeptInit DEF LateInv, Opened
  <2>3. InitPlaces' /\ LateOrder'
    BY <1>0, <2>1 DEF LateInv, InitPlaces, LateOrder
  <2> QED BY <2>2, <2>3 DEF LateInv
<1>3. CASE ~AskLate
  <2>1. late' = late
    BY <1>3 DEF Ask, LeverageRead, LeverageSave, TimePasses
  <2>2. \A k \in DOMAIN chain : k \in DOMAIN chain' /\ chain'[k] = chain[k]
    <3>1. CASE chain' = chain
      BY <3>1
    <3>2. CASE \E job : chain' = Append(chain, job)
      BY <1>0, <3>2
    <3> QED BY <1>3, <3>1, <3>2 DEF Ask, LeverageRead, LeverageSave, TimePasses
  <2>3. Opening => Opening'
    BY <1>0, <2>2 DEF Opening
  <2>4. /\ \A j \in Loops : tick'[j].pc \in Begun => market.initDay = market.gameDay
        /\ \A k \in DOMAIN chain' : chain'[k].op = "unlock" => market.initDay = market.gameDay
    BY <1>0, <1>1 DEF LateInv, InitPlaces
  <2> QED BY <1>0, <2>1, <2>3, <2>4, O_Rest
<1> QED BY <1>2, <1>3

LEMMA O_Next ==
  ASSUME Steady, DInv, LateInv, [Next]_vars
  PROVE  LateInv'
<1>1. CASE UNCHANGED vars
  BY <1>1 DEF vars, LateInv, InitDays, InitPlaces, LateOrder, Opening
<1>2. CASE Job1
  BY <1>2, O_Job
<1>3. CASE \E i \in Loops : Tick(i) \/ Fault(i)
  BY <1>3, O_Plain, O_Open, O_Morning, O_Match, O_Close DEF Tick
<1>4. CASE \E i \in Loops : Hang(i) \/ Watchdog(i)
  BY <1>4, O_Hang DEF Steady
<1>5. CASE JobFault
  BY <1>5, O_JobFault
<1>6. CASE Crash
  BY <1>6, O_Crash
<1>7. CASE (\E op \in AllOps : Ask(op)) \/ AskLate \/ LeverageRead \/ LeverageSave \/ TimePasses
  BY <1>7, O_Request
<1> QED BY <1>1, <1>2, <1>3, <1>4, <1>5, <1>6, <1>7 DEF Next

LEMMA O_Init == Init => LateInv
<1> SUFFICES ASSUME Init PROVE LateInv
  OBVIOUS
<1>1. /\ market.gameDay = 1 /\ market.initDay = 0 /\ market.closing = None
      /\ market.cal.initDay = 0 /\ saved.gameDay = 1 /\ saved.cal.initDay = 0
      /\ saved.closing = None /\ chain = <<>> /\ late = 0
  BY DEF Init, Memory, EmptyCalendar
<1>2. \A i \in Loops : tick[i].pc \notin Begun
  BY DEF Init, IdleTick, Begun
<1> QED BY <1>1, <1>2 DEF LateInv, InitDays, InitPlaces, LateOrder, None

LEMMA DiesInTime ==
  ASSUME DInv, LateInv
  PROVE  LateOrdersDie
<1> SUFFICES ASSUME NEW i \in Loops, tick[i].pc = "match", late # 0
             PROVE  late >= tick[i].date
  BY DEF LateOrdersDie
<1>1. TypeOK /\ OneLoop /\ Live(i) /\ tick[i].pc \notin Waits
  BY DEF DInv, IInv, Live, Waits
<1>2. ~Opening
  BY <1>1, OnlyOne
<1>3. market.active = tick[i].date
  BY <1>1 DEF DInv, DayInv, Stages, Stage, Morning
<1>4. market.initDay = market.gameDay
  BY DEF LateInv, InitPlaces, Begun
<1> QED BY <1>2, <1>3, <1>4 DEF LateInv, LateOrder

(* When the orders of a date are matched, no post-close order of an earlier date
   is left, though the market may be restored from a save in the middle of a day. *)
THEOREM LateOrdersEnd == ASSUME Steady PROVE Spec => []LateOrdersDie
<1>1. Init => OneLoop /\ DayCopies /\ DayInv /\ LateInv
  BY D_Init, O_Init
<1>2. SUFFICES ASSUME LoneLeverage PROVE Spec => []LateOrdersDie
  BY DEF Steady
<1>3. Spec => []IInv
  BY <1>2, Invariant
<1>4. IInv /\ OneLoop /\ DayCopies /\ DayInv /\ LateInv /\ [Next]_vars
        => (OneLoop /\ DayCopies /\ DayInv /\ LateInv)'
  BY D_Next, O_Next DEF DInv
<1>5. IInv /\ OneLoop /\ DayCopies /\ DayInv /\ LateInv => LateOrdersDie
  BY DiesInTime DEF DInv
<1> QED BY <1>1, <1>3, <1>4, <1>5, PTL DEF Spec

=============================================================================

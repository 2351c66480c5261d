---------------------------- MODULE TradingEngine ----------------------------
(***************************************************************************)
(* The authoritative matching and settlement core of the NestJS backend    *)
(* (core/trading-engine): one symbol, several accounts, long positions,    *)
(* cash accounts.                                                          *)
(*                                                                         *)
(* Two promise chains serialise the asynchronous handlers:                 *)
(*   orderQueue       submitOrder, cancelOrder, checkPendingOrders         *)
(*   settlementQueue  settleFiniteFill, settleFill, forceLiquidate         *)
(* The head of each sequence is the handler that is running; everything a  *)
(* handler does between two awaits is one action.  The AI traders of the   *)
(* tick loop are in neither chain: they take player orders off the book at *)
(* once and queue only the settlement of each counterparty.                *)
(*                                                                         *)
(* A player's execution reserves the symbol until its settlement           *)
(* transaction has committed or rolled back; book changes that arrive      *)
(* meanwhile wait (onCommit and onRollback are the book each outcome will  *)
(* publish, waiting changes applied in order; module MatchingEngine keeps  *)
(* the literal list of changes).                                           *)
(*                                                                         *)
(* A definition named BadX is X with a bug this code had or could have; it *)
(* is used only to see that the properties notice it.                      *)
(***************************************************************************)
EXTENDS Integers, Sequences, FiniteSetsExt, Functions

CONSTANTS
  Accounts,     \* trading accounts
  Orders,       \* orders the clients may place; each is submitted at most once
  Detail,       \* [Orders -> OrderData]: what the client asks for
  Scenes,       \* sets of orders one behaviour may place (a bound)
  InitCash,     \* [Accounts -> Nat]
  InitShares,   \* [Accounts -> Nat]
  Marks,        \* mid prices the market generator may publish
  Spread,       \* half spread of the synthetic quotes
  Depth,        \* size of a refreshed synthetic quote
  Fee,          \* fees of one settlement
  MaxQty,       \* largest order quantity (1000000 in the code)
  MaxTicks,     \* bound on the number of price refreshes
  MaxRetries,   \* attempts a triggered stop order gets (10 in the code)
  Cancellable,  \* orders whose owner may ask to cancel them
  AgentOrders,  \* market orders the AI traders send, each at most once
  Marginal,     \* accounts the risk check may send to forced liquidation
  Faults,       \* TRUE when writes outside a transaction may fail
  Sweeps        \* TRUE when the tick loop runs checkPendingOrders

Types     == {"market", "limit", "ioc", "fok", "stop", "stop-limit"}
Immediate == {"market", "ioc", "fok"}
Stops     == {"stop", "stop-limit"}
Synthetic == "synthetic"             \* owner of the unowned external quotes
None      == "none"                  \* no order
Keys      == {"none", "k1", "k2"}    \* clientOrderId; "none" when not sent

OrderData == [acct: Accounts, side: {"buy", "sell"}, type: Types,
              price: Nat, trigger: Nat, qty: 1..MaxQty, key: Keys]

ASSUME ConstantsAssumption ==
  /\ IsFiniteSet(Accounts) /\ IsFiniteSet(Orders)
  /\ Synthetic \notin Orders /\ None \notin Orders
  /\ Detail \in [Orders -> OrderData] /\ Scenes \subseteq SUBSET Orders
  /\ InitCash \in [Accounts -> Nat] /\ InitShares \in [Accounts -> Nat]
  /\ Marks \subseteq Nat /\ Marks # {}
  /\ Spread \in Nat /\ Depth \in Nat /\ Fee \in Nat
  /\ MaxQty \in Nat /\ MaxTicks \in Nat /\ MaxRetries \in Nat
  /\ Cancellable \subseteq Orders /\ Marginal \subseteq Accounts
  /\ AgentOrders \subseteq [side: {"buy", "sell"}, qty: Nat]
  /\ Sweeps \in BOOLEAN /\ Faults \in BOOLEAN

VARIABLES
  orders,           \* the orders table
  ledger,           \* accounts, positions, and what each order has traded
  mark,             \* last published mid price
  ticks,            \* refreshes so far (bounded by MaxTicks)
  book,             \* resting rows and synthetic quotes of the symbol
  quoteSequence,    \* counter that ranks equal prices
  reserved, onCommit, onRollback,   \* the execution reservation
  orderQueue, settlementQueue,      \* the two promise chains
  pc, cur, own, fill, todo, stale,  \* locals of the running order handler
  tx,               \* locals of the running settlement
  agent,            \* locals of the AI trader at work
  requested, cancels, called        \* what the environment has asked for

bookVars == <<book, quoteSequence, reserved, onCommit, onRollback>>
frame    == <<pc, cur, own, fill, todo, stale>>
env      == <<requested, cancels, called>>
market   == <<mark, ticks>>
vars == <<orders, ledger, market, bookVars, orderQueue, settlementQueue,
          frame, tx, agent, env>>

-----------------------------------------------------------------------------
(* Rows of the order book and of the orders table. *)

Row == [oid: Orders \cup {Synthetic}, side: {"bid", "ask"}, price: Int,
        qty: Nat \ {0}, seq: Nat]
Status == {"absent", "pending", "partial", "filled", "cancelled"}
OrderRow == [status: Status, filled: Int, triggered: BOOLEAN, retries: Nat]
NewRow == [status |-> "absent", filled |-> 0, triggered |-> FALSE, retries |-> 0]

Acct(o) == Detail[o].acct
Side(o) == Detail[o].side
Type(o) == Detail[o].type
BookSide(side) == IF side = "buy" THEN "bid" ELSE "ask"
BadRests(o) == Type(o) \notin Immediate /\ Detail[o].price > 0
(* Any saved order sent with a price goes into the book, a stop-limit excepted. *)
Rests(o) == /\ Type(o) \notin Immediate \cup {"stop-limit"}
            /\ Detail[o].price > 0

(* placeRestingOrder, removeRestingOrder and refreshOrderBook as functions of
   the book.  A removal by quantity takes the lowest ranked rows first. *)
Positive(b) == {r \in b : r.qty \in Nat \ {0}}
Resting(o, n, s) ==
  Positive({[oid |-> o, side |-> BookSide(Side(o)),
             price |-> Detail[o].price, qty |-> n, seq |-> s]})
RemoveAll(b, o) == {r \in b : r.oid # o}
RemoveQty(b, o, n) ==
  LET Behind(r) == SumFunctionOnSet([s \in b |-> s.qty],
                                    {s \in b : s.oid = o /\ s.seq > r.seq})
      Cut(r) == IF r.oid # o \/ n <= Behind(r) THEN 0
                ELSE IF n - Behind(r) < r.qty THEN n - Behind(r) ELSE r.qty
  IN  Positive({[r EXCEPT !.qty = r.qty - Cut(r)] : r \in b})
Refresh(b, mid, s) ==
  RemoveAll(b, Synthetic) \cup
  Positive({[oid |-> Synthetic, side |-> "ask", price |-> mid + Spread,
             qty |-> Depth, seq |-> s],
            [oid |-> Synthetic, side |-> "bid", price |-> mid - Spread,
             qty |-> Depth, seq |-> s]})

Books == {book, onCommit, onRollback}

BadChange(changed) ==
  /\ IF reserved
     THEN onCommit' = changed[onCommit] /\ UNCHANGED <<book, onRollback>>
     ELSE book' = changed[book] /\ UNCHANGED <<onCommit, onRollback>>
  /\ UNCHANGED reserved

(* deferBookChange: while the symbol is reserved a change waits behind the
   settlement, whichever way that ends.  changed gives each book's successor. *)
Change(changed) ==
  /\ IF reserved
     THEN /\ onCommit' = changed[onCommit] /\ onRollback' = changed[onRollback]
          /\ UNCHANGED book
     ELSE /\ book' = changed[book]
          /\ UNCHANGED <<onCommit, onRollback>>
  /\ UNCHANGED reserved

-----------------------------------------------------------------------------
(* planFiniteExecution: the contract of the planner (module FinitePlan has
   the algorithm).  limit = 0 stands for no limit. *)

Executable(acct, side, limit) ==
  {r \in book :
     /\ r.side # BookSide(side)
     /\ r.oid = Synthetic \/ Acct(r.oid) # acct
     /\ limit = 0 \/ IF side = "buy" THEN r.price <= limit ELSE r.price >= limit}

Before(r, s) ==
  \/ IF r.side = "ask" THEN r.price < s.price ELSE r.price > s.price
  \/ r.price = s.price /\ r.seq < s.seq

Filled(take) == SumFunction(take)
Worth(take)  == [r \in DOMAIN take |-> take[r] * r.price]
Cost(take)   == SumFunction(Worth(take))
RowsOf(take, o) == {r \in DOMAIN take : r.oid = o}
TakenFrom(take, o) == SumFunctionOnSet(take, RowsOf(take, o))

IsPlan(take, qty) ==
  /\ \A r \in DOMAIN take : take[r] <= r.qty
  /\ Filled(take) \in 1..qty
  /\ Filled(take) = qty \/ \A r \in DOMAIN take : take[r] = r.qty
  /\ \A r, s \in DOMAIN take : Before(r, s) /\ take[s] > 0 => take[r] = r.qty

(* At most one element: price, then arrival, decides. *)
PlansOver(rows, qty) == {take \in [rows -> 0..qty] : IsPlan(take, qty)}
Plans(acct, side, qty, limit) == PlansOver(Executable(acct, side, limit), qty)

Consume(take) ==
  Positive({IF r \in DOMAIN take THEN [r EXCEPT !.qty = r.qty - take[r]] ELSE r
              : r \in book})

(* What the settlement needs to know of an execution: counterFills already
   aggregated per order, and what the external quotes gave. *)
Execution(take) ==
  [filled |-> Filled(take), cost |-> Cost(take),
   counter |-> [o \in Orders |-> TakenFrom(take, o)],
   external |-> TakenFrom(take, Synthetic),
   externalCost |-> SumFunctionOnSet(Worth(take), RowsOf(take, Synthetic))]
ExecutionData == [filled: Nat, cost: Int, counter: [Orders -> Nat],
                  external: Nat, externalCost: Int]
NoFill == [filled |-> 0, cost |-> 0, counter |-> [o \in Orders |-> 0],
           external |-> 0, externalCost |-> 0]
CounterOrders(f) == {o \in Orders : f.counter[o] > 0}

(* executeFinite with deferVirtualFills: take the plan out of the book, keep
   the book to go back to, and queue the settlement of order o.  A limit order
   has already put its own remainder, extra, into the book. *)
Reserve(o, take, extra) ==
  /\ ~reserved
  /\ Execution(take) \in ExecutionData
  /\ fill' = Execution(take)
  /\ book' = Consume(take) \cup extra
  /\ onCommit' = Consume(take) \cup extra
  /\ onRollback' = book \cup extra
  /\ reserved' = TRUE
  /\ settlementQueue' = Append(settlementQueue, [kind |-> "fill", acct |-> Acct(o)])
  /\ pc' = "settling"

-----------------------------------------------------------------------------
(* validateOrder and settleFillInner for cash accounts. *)

Remaining(o, row) == Detail[o].qty - row.filled
Estimate(o) == IF Detail[o].price > 0 THEN Detail[o].price ELSE mark
Valid(o, row, cash) ==
  /\ Remaining(o, row) > 0
  /\ IF Side(o) = "buy"
     THEN cash >= Remaining(o, row) * Estimate(o) + Fee
     ELSE ledger.shares[Acct(o)] >= Remaining(o, row)

Limit(o) == IF Type(o) \in {"market", "stop"} THEN 0 ELSE Detail[o].price

(* shouldFillNow *)
Triggered(o, row) ==
  \/ row.triggered
  \/ IF Side(o) = "buy" THEN mark >= Detail[o].trigger ELSE mark <= Detail[o].trigger
AtLimit(o) == IF Side(o) = "buy" THEN mark <= Detail[o].price ELSE mark >= Detail[o].price
ShouldFill(o, row) ==
  CASE Type(o) = "limit"      -> AtLimit(o)
    [] Type(o) = "stop"       -> Triggered(o, row)
    [] Type(o) = "stop-limit" -> Triggered(o, row) /\ AtLimit(o)
    [] OTHER                  -> FALSE

BadCanSettle(l, a, side, qty, total) == side = "buy" \/ l.shares[a] >= qty
CanSettle(l, a, side, qty, total) ==
  IF side = "buy" THEN l.cash[a] >= total + Fee ELSE l.shares[a] >= qty
Settle(l, a, side, qty, total) ==
  IF side = "buy"
  THEN [l EXCEPT !.cash[a] = @ - total - Fee, !.shares[a] = @ + qty, !.fees = @ + Fee]
  ELSE [l EXCEPT !.cash[a] = @ + total - Fee, !.shares[a] = @ - qty, !.fees = @ + Fee]
(* n shares for total, exchanged with the unowned quotes or the AI traders by
   an account on that side; kept so that conservation can be stated. *)
External(l, side, n, total) ==
  IF side = "buy"
  THEN [l EXCEPT !.outShares = @ - n, !.outCash = @ + total]
  ELSE [l EXCEPT !.outShares = @ + n, !.outCash = @ - total]
Traded(l, o, n) == [l EXCEPT !.traded[o] = @ + n]

CounterCost(f, c) == f.counter[c] * Detail[c].price
CanSettleCounter(l, f, c) ==
  CanSettle(l, Acct(c), Side(c), f.counter[c], CounterCost(f, c))
BadSettleCounterparty(l, f, c) == Traded(l, c, f.counter[c])
SettleCounterparty(l, f, c) ==
  Traded(Settle(l, Acct(c), Side(c), f.counter[c], CounterCost(f, c)), c, f.counter[c])

BadProgress(o, row, n) ==
  [row EXCEPT !.filled = n,
              !.status = IF n >= Detail[o].qty THEN "filled"
                         ELSE IF Type(o) \in Immediate THEN "partial" ELSE "pending"]
(* The row of an order after n more shares have been recorded on it. *)
Progress(o, row, n) ==
  [row EXCEPT !.filled = row.filled + n,
              !.status = IF row.filled + n >= Detail[o].qty THEN "filled"
                         ELSE IF Type(o) \in Immediate THEN "partial" ELSE "pending"]

(* Without a transaction the row of a counterparty is read once its account is
   settled, and saved as it was read; nothing checks its status. *)
Recorded(o, row, f) ==
  LET n == row.filled + f.counter[o] IN
  [row EXCEPT !.filled = n, !.status = IF n >= Detail[o].qty THEN "filled" ELSE @]

-----------------------------------------------------------------------------
(* Initial state: the accounts exist, nothing has been ordered yet, and the
   market generator has published a first mark with its quotes. *)

NoTx == [phase |-> "none", ledger |-> [
           cash |-> InitCash, shares |-> InitShares, traded |-> [o \in Orders |-> 0],
           fees |-> 0, outShares |-> 0, outCash |-> 0],
         orders |-> [o \in Orders |-> NewRow], todo |-> {}, fill |-> NoFill,
         saving |-> None]
NoTrade == [phase |-> "idle", used |-> {}, order |-> None, row |-> NewRow,
            todo |-> {}, fill |-> NoFill]

Init ==
  /\ orders = [o \in Orders |-> NewRow]
  /\ ledger = NoTx.ledger
  /\ mark \in Marks /\ ticks = 0
  /\ book = Refresh({}, mark, 0) /\ quoteSequence = 1
  /\ reserved = FALSE /\ onCommit = {} /\ onRollback = {}
  /\ orderQueue = <<>> /\ settlementQueue = <<>>
  /\ pc = "idle" /\ cur = None /\ own = NewRow /\ fill = NoFill
  /\ todo = {} /\ stale = [o \in Orders |-> NewRow]
  /\ tx = NoTx /\ agent = NoTrade
  /\ requested = {} /\ cancels = {} /\ called = {}

-----------------------------------------------------------------------------
(* What reaches the engine from outside: HTTP requests, the tick loop, the
   daily risk check.  OrderService reads the account before it queues. *)

Enqueue(kind, o, cash) ==
  orderQueue' = Append(orderQueue, [kind |-> kind, oid |-> o, cash |-> cash])

PlaceOrder(o) ==
  /\ o \notin requested /\ \E scene \in Scenes : requested \cup {o} \subseteq scene
  /\ requested' = requested \cup {o}
  /\ Enqueue("submit", o, ledger.cash[Acct(o)])
  /\ UNCHANGED <<orders, ledger, market, bookVars, settlementQueue, frame, tx,
                 agent, cancels, called>>

RequestCancel(o) ==
  /\ o \in (Cancellable \cap requested) \ cancels
  /\ cancels' = cancels \cup {o}
  /\ Enqueue("cancel", o, 0)
  /\ UNCHANGED <<orders, ledger, market, bookVars, settlementQueue, frame, tx,
                 agent, requested, called>>

RequestSweep ==
  /\ Sweeps
  /\ \A i \in DOMAIN orderQueue : orderQueue[i].kind # "sweep"  \* a bound
  /\ Enqueue("sweep", None, 0)
  /\ UNCHANGED <<orders, ledger, market, bookVars, settlementQueue, frame, tx,
                 agent, env>>

MarginCall(a) ==
  /\ a \in Marginal \ called
  /\ called' = called \cup {a}
  /\ settlementQueue' = Append(settlementQueue, [kind |-> "liquidate", acct |-> a])
  /\ UNCHANGED <<orders, ledger, market, bookVars, orderQueue, frame, tx,
                 agent, requested, cancels>>

(* Each tick publishes prices and then asks for a sweep; the watchdog restarts a
   tick that hangs, so a refresh may also meet a sweep that is still running. *)
Tick ==
  /\ ticks < MaxTicks
  /\ ticks' = ticks + 1
  /\ mark' \in Marks
  /\ quoteSequence' = quoteSequence + 1
  /\ Change([b \in Books |-> Refresh(b, mark', quoteSequence)])
  /\ UNCHANGED <<orders, ledger, orderQueue, settlementQueue, frame, tx, agent,
                 env>>

-----------------------------------------------------------------------------
(* orderQueue: submitOrder *)

Running(kind) == orderQueue # <<>> /\ Head(orderQueue).kind = kind
Job == Head(orderQueue)

(* The handler returns and the next one in the chain may start. *)
Return ==
  /\ orderQueue' = Tail(orderQueue)
  /\ pc' = "idle" /\ cur' = None /\ own' = NewRow /\ fill' = NoFill
  /\ todo' = {} /\ stale' = [o \in Orders |-> NewRow]

BadDuplicate(o) ==
  \E p \in Orders \ {o} : /\ orders[p].status = "pending"
                          /\ Acct(p) = Acct(o) /\ Detail[p].key = Detail[o].key
Duplicate(o) ==
  /\ Detail[o].key # None
  /\ \E p \in Orders \ {o} : /\ orders[p].status # "absent"
                             /\ Acct(p) = Acct(o) /\ Detail[p].key = Detail[o].key
Accepted(o) == ~Duplicate(o) /\ Valid(o, NewRow, Job.cash)
Pending == [NewRow EXCEPT !.status = "pending"]

SubmitPlans(o) ==
  {take \in Plans(Acct(o), Side(o), Detail[o].qty, Limit(o)) :
     Type(o) = "fok" => Filled(take) = Detail[o].qty}

SubmitRefused ==
  /\ Running("submit") /\ pc = "idle"
  /\ ~Accepted(Job.oid)
  /\ Return
  /\ UNCHANGED <<orders, ledger, market, bookVars, settlementQueue, tx, agent, env>>

(* market, ioc, fok: no row is saved before the execution settles. *)
SubmitImmediate(o) ==
  /\ Running("submit") /\ pc = "idle" /\ o = Job.oid
  /\ Accepted(o) /\ Type(o) \in Immediate
  /\ \E take \in SubmitPlans(o) : Reserve(o, take, {})
  /\ cur' = o /\ own' = Pending
  /\ UNCHANGED <<orders, ledger, market, quoteSequence, orderQueue, todo, stale,
                 tx, agent, env>>

BadSubmitUnfilled(o) ==
  /\ Running("submit") /\ pc = "idle" /\ o = Job.oid
  /\ Accepted(o) /\ Type(o) \in Immediate
  /\ reserved \/ Plans(Acct(o), Side(o), Detail[o].qty, Limit(o)) = {}
  /\ Return
  /\ UNCHANGED <<orders, ledger, market, bookVars, settlementQueue, tx, agent, env>>

SubmitUnfilled(o) ==
  /\ Running("submit") /\ pc = "idle" /\ o = Job.oid
  /\ Accepted(o) /\ Type(o) \in Immediate
  /\ reserved \/ SubmitPlans(o) = {}
  /\ Return
  /\ UNCHANGED <<orders, ledger, market, bookVars, settlementQueue, tx, agent, env>>

(* limit, stop, stop-limit: the row is saved before the book is touched. *)
SubmitSave(o) ==
  /\ Running("submit") /\ pc = "idle" /\ o = Job.oid
  /\ Accepted(o) /\ Type(o) \notin Immediate
  /\ orders' = [orders EXCEPT ![o] = Pending]
  /\ IF Rests(o)
     THEN /\ pc' = "placing" /\ cur' = o /\ own' = Pending
          /\ UNCHANGED <<orderQueue, fill, todo, stale>>
     ELSE Return
  /\ UNCHANGED <<ledger, market, bookVars, settlementQueue, tx, agent, env>>

PlaceAndCross ==
  /\ pc = "placing"
  /\ \E take \in Plans(Acct(cur), Side(cur), Detail[cur].qty, Detail[cur].price) :
       Reserve(cur, take, Resting(cur, Detail[cur].qty, quoteSequence))
  /\ quoteSequence' = quoteSequence + 1
  /\ UNCHANGED <<orders, ledger, market, orderQueue, cur, own, todo, stale, tx,
                 agent, env>>

PlaceAndRest ==
  /\ pc = "placing"
  /\ reserved \/ Plans(Acct(cur), Side(cur), Detail[cur].qty, Detail[cur].price) = {}
  /\ Change([b \in Books |-> b \cup Resting(cur, Detail[cur].qty, quoteSequence)])
  /\ quoteSequence' = quoteSequence + 1
  /\ Return
  /\ UNCHANGED <<orders, ledger, market, settlementQueue, tx, agent, env>>

(* The settlement answered. *)
SubmitSettled ==
  /\ Running("submit") /\ pc = "settled"
  /\ Return
  /\ UNCHANGED <<orders, ledger, market, bookVars, settlementQueue, tx, agent, env>>

SubmitFailed ==
  /\ Running("submit") /\ pc = "failed"
  /\ IF Type(cur) \in Immediate
     THEN Return /\ UNCHANGED orders
     ELSE /\ orders' = [orders EXCEPT ![cur] = [own EXCEPT !.status = "cancelled"]]
          /\ pc' = "unbook"
          /\ UNCHANGED <<orderQueue, cur, own, fill, todo, stale>>
  /\ UNCHANGED <<ledger, market, bookVars, settlementQueue, tx, agent, env>>

(* Cancelled rows leave the book after the save has been awaited; a sweep then
   goes on with the next order. *)
Unbook ==
  /\ pc = "unbook"
  /\ Change([b \in Books |-> RemoveAll(b, cur)])
  /\ IF Running("sweep")
     THEN /\ pc' = "sweeping" /\ todo' = todo \ {cur}
          /\ UNCHANGED <<orderQueue, cur, own, fill, stale>>
     ELSE Return
  /\ UNCHANGED <<orders, ledger, market, quoteSequence, settlementQueue, tx,
                 agent, env>>

-----------------------------------------------------------------------------
(* orderQueue: cancelOrder *)

CancelMiss ==
  /\ Running("cancel") /\ pc = "idle"
  /\ orders[Job.oid].status # "pending"
  /\ Return
  /\ UNCHANGED <<orders, ledger, market, bookVars, settlementQueue, tx, agent, env>>

BadCancelRead ==
  /\ Running("cancel") /\ pc = "idle"
  /\ orders[Job.oid].status # "absent"
  /\ cur' = Job.oid /\ own' = orders[Job.oid] /\ pc' = "cancelling"
  /\ UNCHANGED <<orders, ledger, market, bookVars, orderQueue, settlementQueue,
                 fill, todo, stale, tx, agent, env>>

CancelRead ==
  /\ Running("cancel") /\ pc = "idle"
  /\ orders[Job.oid].status = "pending"
  /\ cur' = Job.oid /\ own' = orders[Job.oid] /\ pc' = "cancelling"
  /\ UNCHANGED <<orders, ledger, market, bookVars, orderQueue, settlementQueue,
                 fill, todo, stale, tx, agent, env>>

(* save writes the whole row as it was read. *)
CancelSave ==
  /\ pc = "cancelling"
  /\ orders' = [orders EXCEPT ![cur] = [own EXCEPT !.status = "cancelled"]]
  /\ pc' = "unbook"
  /\ UNCHANGED <<ledger, market, bookVars, orderQueue, settlementQueue,
                 cur, own, fill, todo, stale, tx, agent, env>>

-----------------------------------------------------------------------------
(* orderQueue: checkPendingOrders.  The pending rows are read once; the loop
   works on those copies (in no promised order) and saves whole rows. *)

SweepLoad ==
  /\ Running("sweep") /\ pc = "idle"
  /\ todo' = {o \in Orders : orders[o].status = "pending"}
  /\ stale' = orders
  /\ pc' = "sweeping"
  /\ UNCHANGED <<orders, ledger, market, bookVars, orderQueue, settlementQueue,
                 cur, own, fill, tx, agent, env>>

SweepEnd ==
  /\ pc = "sweeping" /\ todo = {}
  /\ Return
  /\ UNCHANGED <<orders, ledger, market, bookVars, settlementQueue, tx, agent, env>>

Fires(o) == ShouldFill(o, stale[o]) /\ Remaining(o, stale[o]) > 0
Fired(o) == [stale[o] EXCEPT !.triggered = @ \/ Type(o) \in Stops]
(* The accounts the loop caches are read again after every settlement that
   touches them. *)
Passes(o) == Valid(o, stale[o], ledger.cash[Acct(o)])
SweepPlans(o) == Plans(Acct(o), Side(o), Remaining(o, stale[o]), Limit(o))

SweepSkip(o) ==
  /\ pc = "sweeping" /\ o \in todo
  /\ ~Fires(o)
  /\ todo' = todo \ {o}
  /\ UNCHANGED <<orders, ledger, market, bookVars, orderQueue, settlementQueue,
                 pc, cur, own, fill, stale, tx, agent, env>>

SweepReject(o) ==
  /\ pc = "sweeping" /\ o \in todo
  /\ Fires(o) /\ ~Passes(o)
  /\ orders' = [orders EXCEPT ![o] = [Fired(o) EXCEPT !.status = "cancelled"]]
  /\ cur' = o /\ own' = Fired(o) /\ pc' = "unbook"
  /\ UNCHANGED <<ledger, market, bookVars, orderQueue, settlementQueue,
                 fill, todo, stale, tx, agent, env>>

SweepExecute(o) ==
  /\ pc = "sweeping" /\ o \in todo
  /\ Fires(o) /\ Passes(o)
  /\ \E take \in SweepPlans(o) : Reserve(o, take, {})
  /\ cur' = o /\ own' = Fired(o)
  /\ UNCHANGED <<orders, ledger, market, quoteSequence, orderQueue, todo, stale,
                 tx, agent, env>>

(* Nothing to trade with: a stop counts the attempt, a limit order waits. *)
SweepUnfilled(o) ==
  /\ pc = "sweeping" /\ o \in todo
  /\ Fires(o) /\ Passes(o)
  /\ reserved \/ SweepPlans(o) = {}
  /\ orders' = IF Type(o) \notin Stops THEN orders
               ELSE [orders EXCEPT ![o] =
                       [Fired(o) EXCEPT !.retries = @ + 1,
                          !.status = IF stale[o].retries + 1 >= MaxRetries
                                     THEN "cancelled" ELSE @]]
  /\ todo' = todo \ {o}
  /\ UNCHANGED <<ledger, market, bookVars, orderQueue, settlementQueue,
                 pc, cur, own, fill, stale, tx, agent, env>>

SweepSettled ==
  /\ Running("sweep") /\ pc = "settled"
  /\ orders' = [orders EXCEPT ![cur] = own]
  /\ pc' = "sweeping" /\ todo' = todo \ {cur}
  /\ UNCHANGED <<ledger, market, bookVars, orderQueue, settlementQueue,
                 cur, own, fill, stale, tx, agent, env>>

SweepFailed ==
  /\ Running("sweep") /\ pc = "failed"
  /\ IF Type(cur) \in Stops /\ own.retries < MaxRetries
     THEN /\ orders' = [orders EXCEPT ![cur] = [own EXCEPT !.retries = @ + 1]]
          /\ pc' = "sweeping" /\ todo' = todo \ {cur}
     ELSE /\ orders' = [orders EXCEPT ![cur] = [own EXCEPT !.status = "cancelled"]]
          /\ pc' = "unbook" /\ UNCHANGED todo
  /\ UNCHANGED <<ledger, market, bookVars, orderQueue, settlementQueue,
                 cur, own, fill, stale, tx, agent, env>>

-----------------------------------------------------------------------------
(* settlementQueue: settleFiniteFill.  tx.ledger and tx.orders are what the
   open transaction has written; nothing outside sees them before the commit. *)

Settling(kind) == settlementQueue # <<>> /\ Head(settlementQueue).kind = kind

BadRelease(b, answer) ==
  /\ book' = b
  /\ UNCHANGED <<reserved, onCommit, onRollback>>
  /\ settlementQueue' = Tail(settlementQueue)
  /\ tx' = NoTx
  /\ pc' = answer

(* The execution is released: the book becomes b, the waiting handler goes on. *)
Release(b, answer) ==
  /\ book' = b
  /\ reserved' = FALSE /\ onCommit' = {} /\ onRollback' = {}
  /\ settlementQueue' = Tail(settlementQueue)
  /\ tx' = NoTx
  /\ pc' = answer

CanSettleOwn == CanSettle(ledger, Acct(cur), Side(cur), fill.filled, fill.cost)

SettleOwn ==
  /\ Settling("fill") /\ tx.phase = "none"
  /\ CanSettleOwn
  /\ tx' = [phase |-> "counters",
            ledger |-> Traded(External(Settle(ledger, Acct(cur), Side(cur),
                                              fill.filled, fill.cost),
                                       Side(cur), fill.external, fill.externalCost),
                              cur, fill.filled),
            orders |-> orders, todo |-> CounterOrders(fill), fill |-> fill,
            saving |-> None]
  /\ UNCHANGED <<orders, ledger, market, bookVars, orderQueue, settlementQueue,
                 frame, agent, env>>

CounterOk(c) ==
  /\ CanSettleCounter(tx.ledger, tx.fill, c)
  /\ orders[c].status = "pending"
  /\ orders[c].filled + tx.fill.counter[c] <= Detail[c].qty

SettleCounter(c) ==
  /\ Settling("fill") /\ tx.phase = "counters" /\ c \in tx.todo
  /\ CounterOk(c)
  /\ tx' = [tx EXCEPT !.ledger = SettleCounterparty(tx.ledger, tx.fill, c),
                      !.orders[c] = Progress(c, orders[c], tx.fill.counter[c]),
                      !.todo = @ \ {c}]
  /\ UNCHANGED <<orders, ledger, market, bookVars, orderQueue, settlementQueue,
                 frame, agent, env>>

(* The own row is written from the copy the handler holds.  The removal of the
   traded quantity from the own resting row joins the waiting changes. *)
OwnTraded(b) ==
  IF Type(cur) \in Immediate THEN b
  ELSE IF own.filled + fill.filled >= Detail[cur].qty THEN RemoveAll(b, cur)
       ELSE RemoveQty(b, cur, fill.filled)

SettleCommit ==
  /\ Settling("fill") /\ tx.phase = "counters" /\ tx.todo = {}
  /\ own' = Progress(cur, own, fill.filled)
  /\ orders' = [o \in Orders |-> IF o = cur THEN own'
                                ELSE IF o \in CounterOrders(tx.fill) THEN tx.orders[o]
                                ELSE orders[o]]
  /\ ledger' = tx.ledger
  /\ Release(OwnTraded(onCommit), "settled")
  /\ UNCHANGED <<market, quoteSequence, orderQueue, cur, fill, todo, stale,
                 agent, env>>

BadSettleAbort ==
  /\ Settling("fill")
  /\ Release(onCommit, "failed")
  /\ UNCHANGED <<orders, ledger, market, quoteSequence, orderQueue,
                 cur, own, fill, todo, stale, agent, env>>

(* A refused side or a failing database write: roll back both. *)
SettleAbort ==
  /\ Settling("fill")
  /\ Release(onRollback, "failed")
  /\ UNCHANGED <<orders, ledger, market, quoteSequence, orderQueue,
                 cur, own, fill, todo, stale, agent, env>>

-----------------------------------------------------------------------------
(* settlementQueue: forceLiquidate of one account.  The market sale executes
   at once, without a reservation and without a transaction; counterparties
   are settled one by one, a refused one goes back to the book, and the
   account itself is written last. *)

LiquidationPlans(a) ==
  IF ledger.shares[a] > 0 /\ ~reserved THEN Plans(a, "sell", ledger.shares[a], 0) ELSE {}

LiquidationSell(a) ==
  /\ Settling("liquidate") /\ tx.phase = "none" /\ a = Head(settlementQueue).acct
  /\ \E take \in LiquidationPlans(a) :
       LET f == Execution(take) IN
       /\ f \in ExecutionData
       /\ book' = Consume(take)
       /\ tx' = [NoTx EXCEPT !.phase = "counters", !.todo = CounterOrders(f), !.fill = f]
  /\ UNCHANGED <<orders, ledger, market, quoteSequence, reserved, onCommit,
                 onRollback, orderQueue, settlementQueue, frame, agent, env>>

LiquidationCounter(c) ==
  /\ Settling("liquidate") /\ tx.phase = "counters" /\ c \in tx.todo
  /\ CanSettleCounter(ledger, tx.fill, c)
  /\ ledger' = SettleCounterparty(ledger, tx.fill, c)
  /\ tx' = [tx EXCEPT !.phase = "reading", !.saving = c]
  /\ UNCHANGED <<orders, market, bookVars, orderQueue, settlementQueue, frame,
                 agent, env>>

LiquidationRead ==
  /\ Settling("liquidate") /\ tx.phase = "reading"
  /\ tx' = [tx EXCEPT !.phase = "saving", !.orders = orders]
  /\ UNCHANGED <<orders, ledger, market, bookVars, orderQueue, settlementQueue,
                 frame, agent, env>>

BadLiquidationSave ==
  /\ Settling("liquidate") /\ tx.phase = "saving"
  /\ orders' = [orders EXCEPT ![tx.saving] = tx.orders[tx.saving]]
  /\ tx' = [tx EXCEPT !.phase = "counters", !.saving = None, !.todo = @ \ {tx.saving}]
  /\ UNCHANGED <<ledger, market, bookVars, orderQueue, settlementQueue, frame,
                 agent, env>>

LiquidationSave ==
  /\ Settling("liquidate") /\ tx.phase = "saving"
  /\ orders' = [orders EXCEPT ![tx.saving] =
                  Recorded(tx.saving, tx.orders[tx.saving], tx.fill)]
  /\ tx' = [tx EXCEPT !.phase = "counters", !.saving = None, !.todo = @ \ {tx.saving}]
  /\ UNCHANGED <<ledger, market, bookVars, orderQueue, settlementQueue, frame,
                 agent, env>>

LiquidationRefused(c) ==
  /\ Settling("liquidate") /\ tx.phase = "counters" /\ c \in tx.todo
  /\ ~CanSettleCounter(ledger, tx.fill, c)
  /\ Change([b \in Books |-> b \cup Resting(c, tx.fill.counter[c], quoteSequence)])
  /\ quoteSequence' = quoteSequence + 1
  /\ tx' = [tx EXCEPT !.todo = @ \ {c}]
  /\ UNCHANGED <<orders, ledger, market, orderQueue, settlementQueue, frame,
                 agent, env>>

BadLiquidationEnd ==
  /\ Settling("liquidate") /\ tx.phase = "counters" /\ tx.todo = {}
  /\ LET a == Head(settlementQueue).acct IN
     ledger' = External(Settle(ledger, a, "sell", ledger.shares[a], tx.fill.cost),
                        "sell", tx.fill.external, tx.fill.externalCost)
  /\ settlementQueue' = Tail(settlementQueue)
  /\ tx' = NoTx
  /\ UNCHANGED <<orders, market, bookVars, orderQueue, frame, agent, env>>

LiquidationEnd ==
  /\ Settling("liquidate") /\ tx.phase = "counters" /\ tx.todo = {}
  /\ ledger' = External(Settle(ledger, Head(settlementQueue).acct, "sell",
                               tx.fill.filled, tx.fill.cost),
                        "sell", tx.fill.external, tx.fill.externalCost)
  /\ settlementQueue' = Tail(settlementQueue)
  /\ tx' = NoTx
  /\ UNCHANGED <<orders, market, bookVars, orderQueue, frame, agent, env>>

LiquidationNothing ==
  /\ Settling("liquidate") /\ tx.phase = "none"
  /\ LiquidationPlans(Head(settlementQueue).acct) = {}
  /\ settlementQueue' = Tail(settlementQueue)
  /\ UNCHANGED <<orders, ledger, market, bookVars, orderQueue, frame, tx, agent,
                 env>>

(* A write fails: the chain goes on, what was written stays written. *)
LiquidationFails ==
  /\ Faults /\ Settling("liquidate") /\ tx.phase # "none"
  /\ settlementQueue' = Tail(settlementQueue)
  /\ tx' = NoTx
  /\ UNCHANGED <<orders, ledger, market, bookVars, orderQueue, frame, agent, env>>

-----------------------------------------------------------------------------
(* AI traders (applyAiTrading): a market order takes resting player orders off
   the book at once, never the quotes; each counterparty is then settled by a
   job of its own and its row saved outside both chains (settleCounterFills). *)

AgentPlans(x) ==
  PlansOver({r \in Executable(None, x.side, 0) : r.oid # Synthetic}, x.qty)

AgentTrade(x) ==
  /\ agent.phase = "idle" /\ x \in AgentOrders \ agent.used
  /\ ~reserved
  /\ \E take \in AgentPlans(x) :
       /\ Execution(take) \in ExecutionData
       /\ book' = Consume(take)
       /\ agent' = [agent EXCEPT !.phase = "next", !.used = @ \cup {x},
                      !.todo = CounterOrders(Execution(take)), !.fill = Execution(take)]
  /\ UNCHANGED <<orders, ledger, market, quoteSequence, reserved, onCommit,
                 onRollback, orderQueue, settlementQueue, frame, tx, env>>

BadAgentCounter(c) ==
  /\ agent.phase = "next" /\ c \in agent.todo
  /\ settlementQueue' = Append(settlementQueue, [kind |-> "counter", acct |-> Acct(c)])
  /\ agent' = [agent EXCEPT !.order = c, !.todo = @ \ {c}]
  /\ UNCHANGED <<orders, ledger, market, bookVars, orderQueue, frame, tx, env>>

AgentCounter(c) ==
  /\ agent.phase = "next" /\ c \in agent.todo
  /\ settlementQueue' = Append(settlementQueue, [kind |-> "counter", acct |-> Acct(c)])
  /\ agent' = [agent EXCEPT !.phase = "settling", !.order = c, !.todo = @ \ {c}]
  /\ UNCHANGED <<orders, ledger, market, bookVars, orderQueue, frame, tx, env>>

SettleAgentCounter ==
  /\ Settling("counter")
  /\ IF CanSettleCounter(ledger, agent.fill, agent.order)
     THEN /\ ledger' = External(SettleCounterparty(ledger, agent.fill, agent.order),
                               Side(agent.order), agent.fill.counter[agent.order],
                               CounterCost(agent.fill, agent.order))
          /\ agent' = [agent EXCEPT !.phase = "reading"]
     ELSE /\ agent' = [agent EXCEPT !.phase = "refused"]
          /\ UNCHANGED ledger
  /\ settlementQueue' = Tail(settlementQueue)
  /\ UNCHANGED <<orders, market, bookVars, orderQueue, frame, tx, env>>

(* An exception abandons the rest of the trade, rows taken and not settled
   included. *)
SettleAgentFails ==
  /\ Faults /\ Settling("counter")
  /\ settlementQueue' = Tail(settlementQueue)
  /\ agent' = [NoTrade EXCEPT !.used = agent.used]
  /\ UNCHANGED <<orders, ledger, market, bookVars, orderQueue, frame, tx, env>>

AgentRead ==
  /\ agent.phase = "reading"
  /\ agent' = [agent EXCEPT !.phase = "saving", !.row = orders[agent.order]]
  /\ UNCHANGED <<orders, ledger, market, bookVars, orderQueue, settlementQueue,
                 frame, tx, env>>

AgentSave ==
  /\ agent.phase = "saving"
  /\ orders' = [orders EXCEPT ![agent.order] = Recorded(agent.order, agent.row, agent.fill)]
  /\ agent' = [agent EXCEPT !.phase = "next", !.order = None, !.row = NewRow]
  /\ UNCHANGED <<ledger, market, bookVars, orderQueue, settlementQueue, frame,
                 tx, env>>

AgentRestore ==
  /\ agent.phase = "refused"
  /\ Change([b \in Books |->
              b \cup Resting(agent.order, agent.fill.counter[agent.order], quoteSequence)])
  /\ quoteSequence' = quoteSequence + 1
  /\ agent' = [agent EXCEPT !.phase = "next", !.order = None]
  /\ UNCHANGED <<orders, ledger, market, orderQueue, settlementQueue, frame, tx,
                 env>>

AgentDone ==
  /\ agent.phase = "next" /\ agent.todo = {}
  /\ agent' = [NoTrade EXCEPT !.used = agent.used]
  /\ UNCHANGED <<orders, ledger, market, bookVars, orderQueue, settlementQueue,
                 frame, tx, env>>

-----------------------------------------------------------------------------
Environment ==
  \/ \E o \in Orders : PlaceOrder(o) \/ RequestCancel(o)
  \/ RequestSweep \/ Tick
  \/ \E a \in Accounts : MarginCall(a)

OrderHandler ==
  \/ SubmitRefused
  \/ \E o \in Orders : SubmitImmediate(o) \/ SubmitUnfilled(o) \/ SubmitSave(o)
  \/ PlaceAndCross \/ PlaceAndRest \/ SubmitSettled \/ SubmitFailed \/ Unbook
  \/ CancelMiss \/ CancelRead \/ CancelSave
  \/ SweepLoad \/ SweepEnd \/ SweepSettled \/ SweepFailed
  \/ \E o \in Orders :
       SweepSkip(o) \/ SweepReject(o) \/ SweepExecute(o) \/ SweepUnfilled(o)

Settlement ==
  \/ SettleOwn \/ SettleCommit \/ SettleAbort \/ LiquidationEnd \/ LiquidationNothing
  \/ \E c \in Orders :
       SettleCounter(c) \/ LiquidationCounter(c) \/ LiquidationRefused(c)
  \/ \E a \in Accounts : LiquidationSell(a)
  \/ LiquidationRead \/ LiquidationSave \/ LiquidationFails \/ SettleAgentCounter \/ SettleAgentFails

Agents ==
  \/ \E x \in AgentOrders : AgentTrade(x)
  \/ \E c \in Orders : AgentCounter(c)
  \/ AgentRead \/ AgentSave \/ AgentRestore \/ AgentDone

Next == Environment \/ OrderHandler \/ Settlement \/ Agents

Spec == Init /\ [][Next]_vars

(* A promise chain always runs its head; the environment owes nothing. *)
FairSpec == Spec /\ WF_vars(OrderHandler) /\ WF_vars(Settlement)

-----------------------------------------------------------------------------
(* Properties. *)

SubmitJob(o) == \E i \in DOMAIN orderQueue :
                  orderQueue[i].kind = "submit" /\ orderQueue[i].oid = o

OrderJob == [kind: {"submit", "cancel", "sweep"}, oid: Orders \cup {None}, cash: Int]
SettlementJob == [kind: {"fill", "liquidate", "counter"}, acct: Accounts]
Ledger == [cash: [Accounts -> Int], shares: [Accounts -> Int],
           traded: [Orders -> Nat], fees: Nat, outShares: Int, outCash: Int]

TablesOK == orders \in [Orders -> OrderRow] /\ ledger \in Ledger
BookOK ==
  /\ mark \in Marks /\ ticks \in Nat /\ quoteSequence \in Nat /\ reserved \in BOOLEAN
  /\ book \subseteq Row /\ onCommit \subseteq Row /\ onRollback \subseteq Row
QueuesOK == orderQueue \in Seq(OrderJob) /\ settlementQueue \in Seq(SettlementJob)
FrameOK ==
  /\ pc \in {"idle", "placing", "settling", "settled", "failed", "unbook",
             "cancelling", "sweeping"}
  /\ cur \in Orders \cup {None} /\ own \in OrderRow /\ fill \in ExecutionData
  /\ todo \subseteq Orders /\ stale \in [Orders -> OrderRow]
SettlementOK ==
  tx \in [phase: {"none", "counters", "reading", "saving"}, ledger: Ledger,
          orders: [Orders -> OrderRow], todo: SUBSET Orders,
          fill: ExecutionData, saving: Orders \cup {None}]
AgentOK ==
  agent \in [phase: {"idle", "next", "settling", "reading", "saving", "refused"},
             used: SUBSET AgentOrders, order: Orders \cup {None}, row: OrderRow,
             todo: SUBSET Orders, fill: ExecutionData]
EnvOK == requested \subseteq Orders /\ cancels \subseteq Orders /\ called \subseteq Marginal

(* Every variable of the engine keeps its shape. *)
TypeOK == /\ TablesOK /\ BookOK /\ QueuesOK /\ FrameOK
          /\ SettlementOK /\ AgentOK /\ EnvOK

(* What the orders table says was traded is what the accounts were charged
   for, whoever wrote the row last (submitOrder, a counterparty's settlement,
   the sweep's stale copy, a cancel or an AI trade); shares whose row is still
   being saved are counted apart. *)
Unrecorded(o) ==
  (IF agent.phase \in {"reading", "saving"} /\ agent.order = o
   THEN agent.fill.counter[o] ELSE 0)
  + (IF tx.phase \in {"reading", "saving"} /\ tx.saving = o
     THEN tx.fill.counter[o] ELSE 0)
FillsRecorded ==
  \A o \in Orders :
    /\ orders[o].filled + Unrecorded(o) = ledger.traded[o]
    /\ ledger.traded[o] <= Detail[o].qty

(* Settlement moves cash and shares between accounts, the quotes and the fee
   pot, and creates none: both sides or neither. *)
CashIn(l)   == SumFunction(l.cash) + l.fees + l.outCash
SharesIn(l) == SumFunction(l.shares) + l.outShares
Whole(l) == CashIn(l) = SumFunction(InitCash) /\ SharesIn(l) = SumFunction(InitShares)
Conserved == tx.phase = "none" \/ Settling("fill") => Whole(ledger)

(* Nobody buys what he cannot pay or sells what he does not hold. *)
Holds(l) == \A a \in Accounts : l.shares[a] >= 0
Pays(l)  == \A a \in Accounts : l.cash[a] >= 0
Solvent == Pays(ledger) /\ Holds(ledger)

(* When no handler and no settlement is under way the book shows exactly what
   the orders table still owes: no ghost row, no lost row, no wrong quantity.
   Once waiting changes are applied, a published quote belongs to the last
   mark: a refresh that met a reservation is not lost, whichever way it ended. *)
Owed(o) == IF orders[o].status = "pending" /\ Rests(o)
           THEN Detail[o].qty - orders[o].filled ELSE 0
InBook(o) == SumFunctionOnSet([r \in book |-> r.qty], {r \in book : r.oid = o})
Quiet == pc = "idle" /\ settlementQueue = <<>> /\ agent.phase = "idle"
Current(b) == \A r \in b : r.oid = Synthetic => r.price \in {mark - Spread, mark + Spread}
QuotesCurrent == IF reserved THEN Current(onCommit) /\ Current(onRollback) ELSE Current(book)
BookBacked == (Quiet => \A o \in Orders : InBook(o) = Owed(o)) /\ QuotesCurrent

(* The retries of one client request trade at most once between them. *)
Keyed == {o \in Orders : Detail[o].key # None}
OneTradePerKey ==
  \A o, p \in Keyed :
    o # p /\ Acct(o) = Acct(p) /\ Detail[o].key = Detail[p].key
    => ledger.traded[o] = 0 \/ ledger.traded[p] = 0

(* A stop order trades only after the market has crossed its trigger. *)
StopsFillAfterTrigger ==
  \A o \in Orders : Type(o) \in Stops /\ ledger.traded[o] > 0 => orders[o].triggered

(* A filled, cancelled or partly filled immediate order is history: nothing
   rewrites its row and nothing trades it again. *)
TerminalIsFinal ==
  [][\A o \in Orders : orders[o].status \in {"filled", "cancelled", "partial"} =>
       orders'[o] = orders[o] /\ ledger'.traded[o] = ledger.traded[o]]_vars

(* The symbol is reserved exactly while an order handler waits for its one
   settlement, so no second execution can slip between fill and commit. *)
OneJob(queue, kind, waiting) ==
  LET Jobs == {i \in DOMAIN queue : queue[i].kind = kind}
  IN  /\ waiting <=> Jobs # {}
      /\ \A i, j \in Jobs : i = j
ReservationDiscipline == /\ reserved <=> pc = "settling"
                         /\ OneJob(settlementQueue, "fill", reserved)

(* An AI trade settles its counterparties one after the other: a counterparty
   job in the chain always finds the locals of the trade that queued it. *)
AgentDiscipline ==
  /\ OneJob(settlementQueue, "counter", agent.phase = "settling")
  /\ agent.phase \notin {"idle", "next"} => agent.order \in Orders

(* What the proofs add: a handler at work is the head of its chain and has its
   order at hand. *)
LocalsInPlace ==
  /\ pc # "idle" => orderQueue # <<>>
  /\ pc \notin {"idle", "sweeping"} => cur \in Orders
  /\ tx.phase \in {"reading", "saving"} => tx.saving \in Orders
  /\ \A i \in DOMAIN orderQueue :
       orderQueue[i].kind # "sweep" => orderQueue[i].oid \in Orders
IInv == TypeOK /\ ReservationDiscipline /\ AgentDiscipline /\ LocalsInPlace

(* A client always gets an answer: no handler is left waiting in a chain. *)
EveryOrderAnswered == \A o \in Orders : SubmitJob(o) ~> ~SubmitJob(o)

=============================================================================

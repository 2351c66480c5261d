--------------------------- MODULE TradingInvariants ---------------------------
(***************************************************************************)
(* What the proofs about TradingEngine add to its properties: the          *)
(* inductive invariants its safety properties rest on, and the hypotheses  *)
(* some of them need.  IInv of TradingEngine carries them all.             *)
(***************************************************************************)
EXTENDS TradingEngine

-----------------------------------------------------------------------------
(* Hypotheses. *)

(* No broker fee exceeds the price of a share: without it the fee of a small
   sale can cost its seller cash. *)
FeeCovered == /\ \A o \in Orders : Rests(o) => Detail[o].price >= Fee
              /\ \A m \in Marks : m - Spread >= Fee

(* No stop order carries a limit price: such an order rests in the book before
   its trigger. *)
StopsUnpriced == \A o \in Orders : Type(o) = "stop" => Detail[o].price = 0

(* Neither AI traders nor margin calls: they write rows outside a transaction. *)
Undisturbed == AgentOrders = {} /\ Marginal = {}

(* The sweep never trades with an order it has still to visit, whose copy it
   would save later. *)
NoStaleFill == pc = "settling" => CounterOrders(fill) \cap todo = {}

-----------------------------------------------------------------------------
(* What books and executions hold. *)

(* Every book, published or waiting, is finite, and its rows are what their
   orders say. *)
RowTrue(r) ==
  \/ /\ r.oid \in Orders /\ Rests(r.oid)
     /\ r.side = BookSide(Side(r.oid)) /\ r.price = Detail[r.oid].price
  \/ r.oid = Synthetic /\ \E m \in Marks : r.price \in {m - Spread, m + Spread}
RowsTrue(b) == IsFiniteSet(b) /\ \A r \in b : RowTrue(r)
BooksTrue == RowsTrue(book) /\ RowsTrue(onCommit) /\ RowsTrue(onRollback)

(* What the taker on that side gives is what the counterparties and the quotes
   get, share for share. *)
CounterWorth(f) == [o \in Orders |-> CounterCost(f, o)]
Balanced(f, side) ==
  /\ \A c \in CounterOrders(f) : Rests(c) /\ Side(c) # side
  /\ f.filled = f.external + SumFunctionOnSet(f.counter, CounterOrders(f))
  /\ f.cost = f.externalCost + SumFunctionOnSet(CounterWorth(f), CounterOrders(f))
  /\ f.filled > 0 /\ (FeeCovered => f.cost >= Fee)
OwnFillTrue == /\ pc = "placing" => Rests(cur)
               /\ pc = "settling" => Balanced(fill, Side(cur))
TxFillTrue ==
  tx.phase # "none" =>
    /\ \/ Settling("fill") /\ tx.phase = "counters" /\ tx.fill = fill
       \/ Settling("liquidate") /\ Balanced(tx.fill, "sell")
    /\ tx.todo \subseteq CounterOrders(tx.fill)
    /\ tx.phase # "counters" => tx.saving \in CounterOrders(tx.fill)
AgentFillTrue ==
  agent.phase # "idle" =>
    /\ \A c \in CounterOrders(agent.fill) : Rests(c)
    /\ agent.todo \subseteq CounterOrders(agent.fill)
    /\ agent.phase # "next" => agent.order \in CounterOrders(agent.fill)
FillsTrue == OwnFillTrue /\ TxFillTrue /\ AgentFillTrue

(* Before the first margin call the committed accounts are whole; those of an
   open transaction lack what its counterparties have still to settle. *)
Lacking(l, f, side, owing) ==
  LET cost == SumFunctionOnSet(CounterWorth(f), owing)
      n    == SumFunctionOnSet(f.counter, owing)
  IN  IF side = "buy"
      THEN /\ CashIn(l) + cost = SumFunction(InitCash)
           /\ SharesIn(l) - n = SumFunction(InitShares)
      ELSE /\ CashIn(l) - cost = SumFunction(InitCash)
           /\ SharesIn(l) + n = SumFunction(InitShares)
CalledTrue ==
  \A i \in DOMAIN settlementQueue :
    settlementQueue[i].kind = "liquidate" => settlementQueue[i].acct \in called
WholeOrLacking ==
  /\ Whole(ledger)
  /\ tx.phase # "none" => Lacking(tx.ledger, tx.fill, Side(cur), tx.todo)
Accounted == CalledTrue /\ (called = {} => WholeOrLacking)

(* Shares and cash cover what is under way. *)
HoldingsCovered ==
  /\ Holds(ledger)
  /\ tx.phase # "none" => IF Settling("fill") THEN Holds(tx.ledger)
                          ELSE ledger.shares[Head(settlementQueue).acct] >= tx.fill.filled
CashCovered ==
  FeeCovered => /\ Pays(ledger)
                /\ tx.phase # "none" /\ Settling("fill") => Pays(tx.ledger)
Covered == HoldingsCovered /\ CashCovered

(* An order is known once its row is saved, live from the moment its handler
   has accepted it. *)
Known(o) == orders[o].status # "absent"
Handling == pc \notin {"idle", "sweeping"}
Live(o)  == Known(o) \/ (Handling /\ cur = o)
SameKey(o, p) == o # p /\ Acct(o) = Acct(p) /\ Detail[o].key = Detail[p].key
KeysApart == \A o, p \in Keyed : SameKey(o, p) => ~(Live(o) /\ Live(p))
TradesKnown ==
  /\ \A o \in Orders : ledger.traded[o] > 0 => Known(o)
  /\ tx.phase # "none" /\ Settling("fill") =>
       \A o \in Orders : tx.ledger.traded[o] > 0 => Known(o) \/ o = cur
  /\ \A r \in book \cup onCommit \cup onRollback : r.oid \in Orders => Known(r.oid)
  /\ \A c \in Orders :
       \/ pc = "settling" /\ c \in CounterOrders(fill)
       \/ tx.phase # "none" /\ c \in CounterOrders(tx.fill)
       \/ agent.phase # "idle" /\ c \in CounterOrders(agent.fill)
       \/ pc = "placing" /\ c = cur
       \/ c \in todo
       => Known(c)
(* ... and no row that is written back makes it unknown again. *)
CopiesKnown ==
  /\ Handling => own.status # "absent"
  /\ \A o \in todo : stale[o].status # "absent"
  /\ tx.phase = "saving" => tx.orders[tx.saving].status # "absent"
  /\ tx.phase # "none" /\ Settling("fill") =>
       \A c \in CounterOrders(tx.fill) : tx.orders[c].status # "absent"
  /\ agent.phase = "saving" => agent.row.status # "absent"
Knowledge == TradesKnown /\ CopiesKnown
InSomeBook(o) == \E r \in book \cup onCommit \cup onRollback : r.oid = o

(* An order is in the chain at most once, and unknown until its turn comes. *)
Submits(q) == {i \in DOMAIN q : q[i].kind = "submit"}
QueuedOnce ==
  /\ \A o \in Orders : Live(o) => o \in requested
  /\ \A i \in Submits(orderQueue) :
       /\ orderQueue[i].oid \in requested
       /\ i > 1 \/ pc = "idle" => ~Live(orderQueue[i].oid)
  /\ \A i, j \in Submits(orderQueue) : orderQueue[i].oid = orderQueue[j].oid => i = j

(* A stop that trades is marked on every copy of its row. *)
StopsCross ==
  /\ StopsFillAfterTrigger
  /\ Handling /\ Type(cur) \in Stops /\ (pc = "settling" \/ ledger.traded[cur] > 0)
       => own.triggered
  /\ tx.phase # "none" /\ Settling("fill") =>
       \A o \in Orders : Type(o) \in Stops /\ tx.ledger.traded[o] > 0
         => orders[o].triggered \/ o = cur

-----------------------------------------------------------------------------
(* Rows and ledger, order by order, while nothing disturbs the two chains. *)

Calm == agent.phase = "idle" /\ called = {} /\ CalledTrue

(* The orders table, the copy the handler holds, those the sweep has still to
   visit and those of the open transaction agree with what was traded. *)
Waiting(o) == o \in todo /\ ~(Handling /\ o = cur)
OrdersTrue ==
  \A o \in Orders : orders[o].filled = ledger.traded[o] /\ ledger.traded[o] <= Detail[o].qty
CopyTrue ==
  /\ pc \in {"placing", "settling", "failed", "cancelling"} =>
       own.filled = orders[cur].filled /\ orders[cur].status \in {"absent", "pending"}
  /\ pc = "placing" => own = Pending
  /\ pc = "settling" => /\ own.filled + fill.filled <= Detail[cur].qty
                        /\ cur \notin CounterOrders(fill)
  /\ pc = "settled" => own = orders[cur]
  /\ pc \in {"idle", "placing"} => todo = {}
WaitTrue ==
  \A o \in Orders : Waiting(o) => stale[o] = orders[o] /\ orders[o].status = "pending"
TxRecorded ==
  tx.phase # "none" =>
    \A o \in Orders :
      IF o = cur THEN tx.ledger.traded[o] = ledger.traded[o] + fill.filled
      ELSE IF o \in CounterOrders(fill) \ tx.todo
           THEN /\ tx.ledger.traded[o] = ledger.traded[o] + fill.counter[o]
                /\ tx.orders[o].filled = tx.ledger.traded[o]
                /\ tx.orders[o] = Progress(o, orders[o], fill.counter[o])
                /\ tx.ledger.traded[o] <= Detail[o].qty
                /\ orders[o].status = "pending"
      ELSE tx.ledger.traded[o] = ledger.traded[o]
Records == OrdersTrue /\ CopyTrue /\ WaitTrue /\ TxRecorded

(* Book b shows n shares of order o: in one row, or none.  Each book shows what
   its outcome will leave every order owing, but for the order whose handler is
   about to put it there or to take it out. *)
Shows(b, o, n) ==
  /\ \A r \in b : r.oid = o => r.qty = n
  /\ \A r, s \in b : r.oid = o /\ s.oid = o => r = s
  /\ n > 0 => \E r \in b : r.oid = o
Shown ==
  IF reserved
  THEN \A o \in Orders : /\ Shows(onRollback, o, Owed(o))
                         /\ Shows(onCommit, o, Owed(o) - fill.counter[o])
  ELSE \A o \in Orders : ~(pc \in {"placing", "unbook"} /\ o = cur) => Shows(book, o, Owed(o))
Placed ==
  /\ pc = "placing" => orders[cur] = Pending /\ Shows(book, cur, 0)
  /\ pc = "unbook" => orders[cur].status # "pending"
  /\ pc = "settling" /\ Rests(cur) => orders[cur].status = "pending"

=============================================================================

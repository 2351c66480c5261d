---------------------------- MODULE MatchingEngine ----------------------------
(***************************************************************************)
(* The book of one symbol as the matching engine keeps it                  *)
(* (core/trading-engine/matching-engine.ts): rows with their clock and     *)
(* number, icebergs, virtual orders of AI traders and market makers, and   *)
(* the reservation: while a player's execution waits for its settlement    *)
(* the book before it is kept aside and every change is put off, as a list *)
(* of closures that run, in order, when the execution is released.         *)
(*                                                                         *)
(* Every operation is synchronous, so each is one action.  The clock of    *)
(* the rows and the tick that virtual orders expire at are one counter.    *)
(***************************************************************************)
EXTENDS FinitePlan

CONSTANTS
  Orders,       \* ids of the orders placed in the book, each once
  Detail,       \* [Orders -> OrderData]
  Mids,         \* mid prices of the refreshes
  Spread,       \* distance of two levels
  Depth,        \* size of a quote
  Takers,       \* executions the engine is asked for, each at most once
  Removals,     \* orders that may be removed from the book
  Reductions,   \* [Orders -> SUBSET Nat]: quantities that may be removed
  MaxTime, MaxRefreshes, MaxExecutions, MaxDeferred   \* bounds

NoAccount == "none"
OrderData == [acct: STRING, side: {"bid", "ask"}, price: Nat, qty: Nat \ {0},
              display: Nat \ {0}, virtual: BOOLEAN, expires: Nat]
Taker == [acct: STRING, side: {"buy", "sell"}, qty: Nat \ {0}, limit: Nat,
          quotes: BOOLEAN,   \* takes external quotes too
          all: BOOLEAN,      \* requireFull
          defer: BOOLEAN]    \* reserves the symbol (deferVirtualFills)

Virtual  == {o \in Orders : Detail[o].virtual}

ASSUME MatchingAssumption ==
  /\ Detail \in [Orders -> OrderData] /\ Takers \subseteq Taker
  /\ Orders \cap External = {} /\ DOMAIN Owner = Orders \cup External
  /\ \A o \in Orders : Owner[o] = Detail[o].acct
  /\ Levels \in Seq(External) /\ IsInjective(Levels)
  /\ Spread \in Nat \ {0} /\ Depth \in Nat \ {0} /\ MaxSlices \in Nat \ {0}
  /\ Mids \subseteq Nat /\ \A mid \in Mids : Len(Levels) * Spread <= mid
  /\ Removals \subseteq Orders /\ Reductions \in [Orders -> SUBSET Nat]
  /\ {MaxTime, MaxRefreshes, MaxExecutions, MaxDeferred} \subseteq Nat

VARIABLES
  book,         \* rows, and the counter that numbers them
  reservation,  \* the execution that waits for its settlement
  told,         \* shares the virtual fill hook has reported, per order
  now,
  asked         \* what the callers have asked for so far

vars == <<book, reservation, told, now, asked>>

Row == [oid: Orders \cup External, side: {"bid", "ask"}, price: Nat,
        qty: Nat \ {0}, hidden: Nat, display: Nat \ {0}, time: Nat, seq: Nat]
Book == [rows: SUBSET Row, seq: Nat]

Kinds == {"place", "remove", "reduce", "refresh", "prune"}
ChangeData == [kind: Kinds, oid: Orders \cup {NoAccount}, n: Nat]
Free == [open |-> FALSE, saved |-> {}, hooks |-> [o \in Orders |-> 0], deferred |-> <<>>]

-----------------------------------------------------------------------------
(* The changes. *)

(* placeRestingOrder, placeVirtualOrder *)
Placed(o, b, t) ==
  LET d    == Detail[o]
      show == Min({d.display, d.qty})
  IN  [rows |-> b.rows \cup
         {[oid |-> o, side |-> d.side, price |-> d.price, qty |-> show,
           hidden |-> d.qty - show, display |-> d.display, time |-> t,
           seq |-> b.seq + 1]},
       seq |-> b.seq + 1]

Removed(o, b) == [b EXCEPT !.rows = {r \in @ : r.oid # o}]

(* removeRestingOrder by quantity: the hidden part follows the visible one. *)
Cut(r, n, seq, t) ==
  LET left == r.qty + r.hidden - n
      show == Min({r.display, left})
  IN  IF n < r.qty THEN {[r EXCEPT !.qty = @ - n]}
      ELSE IF left <= 0 THEN {}
      ELSE {[r EXCEPT !.qty = show, !.hidden = left - show, !.time = t, !.seq = seq]}
Reduced(o, n, b, t) ==
  LET own  == {r \in b.rows : r.oid = o}
      kept == UNION {Cut(r, n, b.seq + 1, t) : r \in own}
  IN  [rows |-> (b.rows \ own) \cup kept,
       seq |-> Max({r.seq : r \in kept} \cup {b.seq})]

(* refreshOrderBook, without the price limits that may seal one side. *)
LevelPrice(side, i, mid) ==
  IF side = "ask" THEN mid + i * Spread ELSE mid - i * Spread
Quote(side, i, mid, seq, t) ==
  [oid |-> Levels[i], side |-> side, qty |-> Depth, hidden |-> 0,
   display |-> Depth, time |-> t, seq |-> seq, price |-> LevelPrice(side, i, mid)]
Refreshed(mid, b, t) ==
  [rows |-> {r \in b.rows : r.oid \notin External} \cup
            UNION {{Quote("ask", i, mid, b.seq + 2 * i - 1, t),
                    Quote("bid", i, mid, b.seq + 2 * i, t)} : i \in DOMAIN Levels},
   seq |-> b.seq + 2 * Len(Levels)]

(* pruneExpiredVirtualOrders *)
Pruned(tick, b) ==
  [b EXCEPT !.rows = {r \in @ : ~ (r.oid \in Virtual /\ Detail[r.oid].expires <= tick)}]

Applied(b, c, t) ==
  CASE c.kind = "place"   -> Placed(c.oid, b, t)
    [] c.kind = "remove"  -> Removed(c.oid, b)
    [] c.kind = "reduce"  -> Reduced(c.oid, c.n, b, t)
    [] c.kind = "refresh" -> Refreshed(c.n, b, t)
    [] c.kind = "prune"   -> Pruned(c.n, b)

(* The book after changes cs, made one by one. *)
Released(b, cs, t) ==
  LET after[n \in 0..Len(cs)] == IF n = 0 THEN b ELSE Applied(after[n - 1], cs[n], t)
  IN  after[Len(cs)]

BadDefer(c) ==
  /\ book' = Applied(book, c, now)
  /\ UNCHANGED reservation
(* deferBookChange *)
Defer(c) ==
  IF reservation.open
  THEN /\ Len(reservation.deferred) < MaxDeferred
       /\ reservation' = [reservation EXCEPT !.deferred = Append(@, c)]
       /\ UNCHANGED book
  ELSE book' = Applied(book, c, now) /\ UNCHANGED reservation

Call(kind, o, n) ==
  Defer([kind |-> kind, oid |-> o, n |-> n]) /\ UNCHANGED <<told, now>>

-----------------------------------------------------------------------------
Init ==
  /\ book = [rows |-> {}, seq |-> 0]
  /\ reservation = Free
  /\ told = [o \in Orders |-> 0]
  /\ now = 0
  /\ asked = [placed |-> {}, removed |-> {}, taken |-> {}, refreshes |-> 0, pruned |-> 0]

PlaceOrder(o) ==
  /\ o \notin asked.placed
  /\ asked' = [asked EXCEPT !.placed = @ \cup {o}]
  /\ Call("place", o, 0)

RemoveOrder(o) ==
  /\ o \in (asked.placed \cap Removals) \ asked.removed
  /\ asked' = [asked EXCEPT !.removed = @ \cup {o}]
  /\ Call("remove", o, 0)

ReduceOrder(o, n) ==
  /\ o \in asked.placed \ asked.removed /\ n \in Reductions[o]
  /\ asked' = [asked EXCEPT !.removed = @ \cup {o}]
  /\ Call("reduce", o, n)

RefreshOrderBook(mid) ==
  /\ asked.refreshes < MaxRefreshes
  /\ asked' = [asked EXCEPT !.refreshes = @ + 1]
  /\ Call("refresh", NoAccount, mid)

PruneExpired ==
  /\ asked.pruned < now
  /\ asked' = [asked EXCEPT !.pruned = now]
  /\ Call("prune", NoAccount, now)

Advance ==
  /\ now < MaxTime
  /\ now' = now + 1
  /\ UNCHANGED <<book, reservation, told, asked>>

-----------------------------------------------------------------------------
(* executeFinite.  Nothing is executed while the symbol is reserved. *)

Reach(t) == {r \in book.rows : t.quotes \/ r.oid \notin External}
PlanFor(t) == Plan(Reach(t), t)
Executes(t, plan) ==
  /\ ~reservation.open /\ t \in Takers \ asked.taken
  /\ Cardinality(asked.taken) < MaxExecutions
  /\ plan.filled > 0 /\ (t.all => plan.remaining = 0)
  /\ book' = [rows |-> plan.after \cup (book.rows \ Reach(t)),
              seq |-> Max({r.seq : r \in plan.after} \cup {book.seq})]
  /\ asked' = [asked EXCEPT !.taken = @ \cup {t}]
  /\ UNCHANGED now

(* What the owners of virtual orders are to hear of. *)
Hooks(slices) == [o \in Orders |-> IF o \in Virtual THEN Taken(slices, o) ELSE 0]
Tell(hooks) == told' = [o \in Orders |-> told[o] + hooks[o]]

Execute(t) ==
  /\ ~t.defer
  /\ LET plan == PlanFor(t)
     IN  Executes(t, plan) /\ Tell(Hooks(plan.slices))
  /\ UNCHANGED reservation

ExecuteReserved(t) ==
  /\ t.defer
  /\ LET plan == PlanFor(t)
     IN  /\ Executes(t, plan)
         /\ reservation' = [open |-> TRUE, saved |-> book.rows,
                            hooks |-> Hooks(plan.slices), deferred |-> <<>>]
  /\ UNCHANGED told

(* releaseExecution: the waiting changes run on the outcome, in order. *)
Publish(rows) ==
  /\ book' = Released([book EXCEPT !.rows = rows], reservation.deferred, now)
  /\ reservation' = Free
  /\ UNCHANGED <<now, asked>>

CommitExecution ==
  /\ reservation.open
  /\ Publish(book.rows) /\ Tell(reservation.hooks)

RollbackExecution ==
  /\ reservation.open
  /\ Publish(reservation.saved) /\ UNCHANGED told

Next ==
  \/ \E o \in Orders :
       \/ PlaceOrder(o) \/ RemoveOrder(o)
       \/ \E n \in 1..Detail[o].qty : ReduceOrder(o, n)
  \/ \E mid \in Mids : RefreshOrderBook(mid)
  \/ PruneExpired \/ Advance
  \/ \E t \in Takers : Execute(t) \/ ExecuteReserved(t)
  \/ CommitExecution \/ RollbackExecution

Spec == Init /\ [][Next]_vars

-----------------------------------------------------------------------------
(* The book keeps its shape: one row of an id on a side, no two orders of one
   number, every row shows something and is numbered up to the counter. *)
TypeOK ==
  /\ book \in Book
  /\ \A r, s \in book.rows :
       /\ r.side = s.side
       /\ r.oid = s.oid \/ (r.seq = s.seq /\ {r.oid, s.oid} \cap External = {})
       => r = s
  /\ \A r \in book.rows : r.seq <= book.seq /\ r.time <= now
  /\ reservation.saved \subseteq Row
  /\ ToSet(reservation.deferred) \subseteq ChangeData
  /\ told \in [Orders -> Nat] /\ now \in 0..MaxTime

(* In every book that can come about the planner treats every taker, own rows
   and icebergs included, as its contract says. *)
PlanKeepsContract == \A t \in Takers : KeepsContract(Reach(t), t)

(* The engine keeps its promise: clocks, numbers, icebergs, the saved book and
   the list of deferred changes cannot be told from an atomic book. *)
View(rows) ==
  [left   |-> [o \in Orders |-> Left(rows, o)],
   quotes |-> {[side |-> r.side, price |-> r.price, size |-> r.qty] :
                 r \in {s \in rows : s.oid \in External}}]
Ladder(mid) == {[side |-> side, price |-> LevelPrice(side, i, mid), size |-> Depth] :
                  side \in {"bid", "ask"}, i \in DOMAIN Levels}
Outcome(rows) ==
  View(Released([book EXCEPT !.rows = rows], reservation.deferred, now).rows)

Seen        == View(book.rows)
IfCommitted == Outcome(book.rows)
IfRolledBack == IF reservation.open THEN Outcome(reservation.saved) ELSE Seen
Pending == [o \in Orders |-> IF reservation.open
                             THEN Left(reservation.saved, o) - Left(book.rows, o)
                             ELSE 0]

Promise == INSTANCE AtomicBook WITH
  Qty          <- [o \in Orders |-> Detail[o].qty],
  Expiry       <- [o \in Orders |-> Detail[o].expires],
  Quotes       <- [mid \in Mids |-> Ladder(mid)],
  MaxTick      <- MaxTime,
  book         <- Seen,
  busy         <- reservation.open,
  ifCommitted  <- IfCommitted,
  ifRolledBack <- IfRolledBack,
  pending      <- Pending
KeepsPromise == Promise!Spec

=============================================================================

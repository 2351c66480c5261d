------------------------------ MODULE FinitePlan ------------------------------
(***************************************************************************)
(* The execution planner (core/trading-engine/finite-execution.ts): what a *)
(* taker gets from one side of the book, in price, arrival and iceberg     *)
(* order, and the book that is left.                                       *)
(*                                                                         *)
(* Prices are in cents.  A row is a resting order or an external quote;    *)
(* time is the arrival clock, seq the engine's counter, which orders rows  *)
(* of one instant; a lot revealed by a plan that saw no quotes may share   *)
(* the number of a quote.                                                  *)
(***************************************************************************)
EXTENDS Integers, SequencesExt

CONSTANTS
  Owner,      \* [ids -> accounts]: whose row it is
  Levels,     \* ids of the external quotes, by level
  MaxSlices   \* cap on the pieces of one plan (10000 in the code)

External == ToSet(Levels)

(* The side of the book a taker's side is matched with. *)
Makers(side) == IF side = "buy" THEN "ask" ELSE "bid"

(* limit = 0 stands for no limit. *)
Allowed(r, t) ==
  t.limit = 0 \/ IF t.side = "buy" THEN r.price <= t.limit ELSE r.price >= t.limit

(* What taker t may be matched with: never his own rows. *)
Executable(rows, t) ==
  {r \in rows : r.side = Makers(t.side) /\ Owner[r.oid] # t.acct /\ Allowed(r, t)}

(* compareItems *)
Before(r, s) ==
  IF r.price # s.price THEN IF r.side = "ask" THEN r.price < s.price
                                              ELSE r.price > s.price
  ELSE IF r.time # s.time THEN r.time < s.time
  ELSE IF r.seq # s.seq THEN r.seq < s.seq
  ELSE r.oid \notin External /\ s.oid \in External

BadReveal(r, level, seq) ==
  [r EXCEPT !.qty = r.display, !.hidden = @ - r.display, !.seq = seq,
            !.time = Max({s.time : s \in level})]

(* An iceberg whose visible lot is used up shows its next one, at the clock of
   its price level and with a number of its own. *)
Reveal(r, level, seq) ==
  LET lot == Min({r.display, r.hidden})
  IN  [r EXCEPT !.qty = lot, !.hidden = @ - lot, !.seq = seq,
                !.time = Max({s.time : s \in level})]

BadRequeue(queue, lot) == <<lot>> \o queue
(* It joins the back of its level's queue. *)
Requeue(queue, lot) ==
  LET level == {i \in DOMAIN queue : queue[i].price = lot.price}
  IN  InsertAt(queue, Max(level \cup {0}) + 1, lot)

(* The rows in their order: the i-th has i - 1 before it. *)
Sorted(rows) ==
  [i \in 1..Cardinality(rows) |->
     CHOOSE r \in rows : Cardinality({s \in rows : Before(s, r)}) = i - 1]

(* The walk down the queue: w is the queue, what is left to match, what has been
   matched, and the counter; rows are the rows it started with. *)
Done(w) == w.left = 0 \/ w.queue = <<>>
Match(w, rows) ==
  LET r    == Head(w.queue)
      rest == Tail(w.queue)
      take == Min({w.left, r.qty})
      lot  == Reveal(r, {s \in rows : s.price = r.price}, w.seq + 1)
  IN  [queue  |-> IF take < r.qty THEN <<[r EXCEPT !.qty = @ - take]>> \o rest
                  ELSE IF r.hidden = 0 THEN rest ELSE Requeue(rest, lot),
       left   |-> w.left - take,
       slices |-> Append(w.slices, [oid |-> r.oid, price |-> r.price, qty |-> take]),
       seq    |-> IF take < r.qty \/ r.hidden = 0 THEN w.seq ELSE w.seq + 1]
Walk(w, rows) ==
  LET walk[n \in 0..MaxSlices] ==
        IF n = 0 THEN w
        ELSE LET v == walk[n - 1] IN IF Done(v) THEN v ELSE Match(v, rows)
  IN  walk[MaxSlices]

(* planFiniteExecution *)
Plan(rows, t) ==
  LET start == Executable(rows, t)
      floor == Max({r.seq : r \in {s \in rows : s.side = Makers(t.side)}} \cup {0})
      w     == Walk([queue |-> Sorted(start), left |-> t.qty, slices |-> <<>>,
                     seq |-> floor], start)
  IN  [filled |-> t.qty - w.left, remaining |-> w.left, slices |-> w.slices,
       truncated |-> ~Done(w),
       after |-> (rows \ start) \cup ToSet(w.queue)]

(* What a plan takes from a row, and what a book has of it. *)
Taken(slices, o) ==
  SumFunction([i \in {j \in DOMAIN slices : slices[j].oid = o} |-> slices[i].qty])
Left(rows, o) ==
  SumFunction([r \in {s \in rows : s.oid = o} |-> r.qty + r.hidden])

-----------------------------------------------------------------------------
(* The planner's contract, stated without its walk.  Every side of the book
   has at most one row of an id. *)

(* No share appears or is lost, no more is taken than was asked for, and
   nobody trades with himself. *)
Exact(rows, t, plan) ==
  /\ plan.filled + plan.remaining = t.qty /\ plan.remaining >= 0
  /\ \A o \in DOMAIN Owner :
       Left(rows, o) = Left(plan.after, o) + Taken(plan.slices, o)
  /\ (rows \ Executable(rows, t)) \subseteq plan.after
  /\ \A i \in DOMAIN plan.slices : Owner[plan.slices[i].oid] # t.acct

(* A remainder means that there was nothing more to take, or the cap. *)
Exhausts(rows, t, plan) ==
  plan.remaining > 0 /\ ~plan.truncated => Executable(plan.after, t) = {}

(* Nobody is passed over: not at a better price, not at the same price by one
   who came later, not by a lot that was hidden when the plan began. *)
Fair(rows, t, plan) ==
  \A r, s \in Executable(rows, t) :
    LET n == Taken(plan.slices, s.oid)
        m == Taken(plan.slices, r.oid)
    IN  n > 0 =>
          /\ r.price # s.price /\ Before(r, s) => m = r.qty + r.hidden
          /\ r.price = s.price /\ Before(r, s) => m >= r.qty
          /\ r.price = s.price /\ n > s.qty    => m >= r.qty

KeepsContract(rows, t) ==
  LET plan == Plan(rows, t)
  IN  Exact(rows, t, plan) /\ Exhausts(rows, t, plan) /\ Fair(rows, t, plan)

=============================================================================

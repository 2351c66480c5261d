------------------------------- MODULE LabBook -------------------------------
(***************************************************************************)
(* The order book of the remastered game's laboratory (FiniteOrderBook in  *)
(* remaster/packages/engine/lab-book.ts): a finite book without synthetic  *)
(* liquidity, where resting orders reserve what they may cost.             *)
(*                                                                         *)
(* The book is synchronous, but not atomic to whoever watches it: quotes   *)
(* are reported after every fill, so a fill is an action and `taker` is    *)
(* the order being executed between two of them.  Prices and money are     *)
(* whole cents as in the code, quantities whole shares; events that the    *)
(* parser turns away change nothing and are left out.                      *)
(*                                                                         *)
(* A BadX is X with a plausible bug.                                       *)
(***************************************************************************)
EXTENDS Integers, FiniteSets, Sequences, Functions

CONSTANTS
  Nobody,       \* no account
  Accounts,
  Ids,          \* identifiers a caller gives to orders
  Prices,       \* limits
  MaxQuantity,  \* bound on a quantity (50 000 in the code)
  FeeRate,      \* fee in parts of FeeUnit: feeBps, FEE_DENOMINATOR
  FeeUnit,
  Start,        \* cash and inventory of each account
  MaxEvents     \* bound on the events of a tape

ASSUME LabBookAssumption ==
  /\ Nobody \notin Accounts /\ IsFiniteSet(Accounts)
  /\ Prices \subseteq Nat \ {0}
  /\ MaxQuantity \in Nat /\ MaxEvents \in Nat
  /\ FeeUnit \in Nat \ {0} /\ FeeRate \in 0..FeeUnit
  /\ Start \in [Accounts -> [cash : Nat, inventory : Nat]]

VARIABLES
  account,   \* cash and inventory, and what is reserved of them
  resting,   \* bids and asks
  usedIds,   \* identifiers of accepted orders
  feePool,
  trades,    \* the trade log
  taker,     \* the order that is being executed
  sequence   \* events so far; the number of the latest one
vars == <<account, resting, usedIds, feePool, trades, taker, sequence>>

Sides == {"buy", "sell"}
Quantities == 1..MaxQuantity
Market == 0                            \* the price of an order without limit
Balance == [cash : Int, inventory : Int, reservedCash : Int, reservedInventory : Int]
Row == [id : Ids, actor : Accounts, side : Sides, price : Prices,
        remaining : Quantities, sequence : Nat]
Order == [id : Ids, actor : Accounts, side : Sides, price : Prices \cup {Market},
          remaining : 0..MaxQuantity, sequence : Nat]
Trade == [price : Prices, quantity : Quantities, buyer : Accounts, seller : Accounts,
          sequence : Nat, maker : Row, taker : Order]
Idle == [actor |-> Nobody]

(* The least k with k * b >= a. *)
CeilDiv(a, b) == (a + b - 1) \div b
FeeFor(price, quantity) == CeilDiv(price * quantity * FeeRate, FeeUnit)

BadReservePerShare(price) == price + (price * FeeRate) \div FeeUnit

(* What a resting buy reserves per share: enough for the fees of any partial
   fills, each of which is rounded up. *)
ReservePerShare(price) == price + CeilDiv(price * FeeRate, FeeUnit)

FreeCash(a) == account[a].cash - account[a].reservedCash
FreeInventory(a) == account[a].inventory - account[a].reservedInventory
Cost(price, quantity) == price * quantity + FeeFor(price, quantity)

-----------------------------------------------------------------------------
(* The book.  Best price first, then the earlier event; no two orders of the
   book come from one event. *)

BadAhead(x, y) ==
  IF x.price # y.price
    THEN IF x.side = "buy" THEN x.price > y.price ELSE x.price < y.price
    ELSE x.sequence > y.sequence

Ahead(x, y) ==
  IF x.price # y.price
    THEN IF x.side = "buy" THEN x.price > y.price ELSE x.price < y.price
    ELSE x.sequence < y.sequence

Facing(side) == {r \in resting : r.side # side}
IsBest(r, side) == r \in Facing(side) /\ \A x \in Facing(side) : x = r \/ Ahead(r, x)
Crosses(r) ==
  \/ taker.price = Market
  \/ IF taker.side = "buy" THEN r.price <= taker.price ELSE r.price >= taker.price
Met(r) == taker # Idle /\ taker.remaining > 0 /\ IsBest(r, taker.side) /\ Crosses(r)

BadAffordable(a, price, cap) ==
  LET most[range \in (0..cap) \X (0..cap)] ==
        LET low  == range[1]
            high == range[2]
            mid  == CeilDiv(low + high, 2)
        IN  IF low >= high THEN low
            ELSE IF Cost(price, mid) < FreeCash(a) THEN most[<<mid, high>>]
            ELSE most[<<low, mid - 1>>]
  IN  most[<<0, cap>>]

(* The binary search of affordableQuantity for the most shares that the
   free cash pays for. *)
Affordable(a, price, cap) ==
  LET most[range \in (0..cap) \X (0..cap)] ==
        LET low  == range[1]
            high == range[2]
            mid  == CeilDiv(low + high, 2)
        IN  IF low >= high THEN low
            ELSE IF Cost(price, mid) <= FreeCash(a) THEN most[<<mid, high>>]
            ELSE most[<<low, mid - 1>>]
  IN  most[<<0, cap>>]

(* What that search finds. *)
Pays(a, price, cap, quantity) ==
  /\ quantity \in 0..cap
  /\ quantity > 0 => Cost(price, quantity) <= FreeCash(a)
  /\ quantity < cap => Cost(price, quantity + 1) > FreeCash(a)

Least(x, y) == IF x < y THEN x ELSE y

-----------------------------------------------------------------------------
(* submit: an order is turned away if its identifier was used or its account
   has not enough left for all of it; a market buy is not asked. *)

Enough(o) ==
  IF o.side = "sell"
    THEN o.remaining <= FreeInventory(o.actor)
    ELSE o.price # Market => o.remaining * ReservePerShare(o.price) <= FreeCash(o.actor)

Submit ==
  /\ taker = Idle /\ sequence < MaxEvents
  /\ sequence' = sequence + 1
  /\ \E id \in Ids, a \in Accounts, side \in Sides, price \in Prices \cup {Market},
        quantity \in Quantities :
       LET o == [id |-> id, actor |-> a, side |-> side, price |-> price,
                 remaining |-> quantity, sequence |-> sequence']
       IN  IF id \notin usedIds /\ Enough(o)
             THEN taker' = o /\ usedIds' = usedIds \cup {id}
             ELSE UNCHANGED <<taker, usedIds>>
  /\ UNCHANGED <<account, resting, feePool, trades>>

(* executeFill, at the price of the resting order.  A market buy takes no
   more than it can pay for. *)
FillQuantity(r, quantity) ==
  LET cap == Least(taker.remaining, r.remaining)
  IN  IF taker.side = "buy" /\ taker.price = Market
        THEN quantity > 0 /\ Pays(taker.actor, r.price, cap, quantity)
        ELSE quantity = cap

Buyer(r) == IF taker.side = "buy" THEN taker.actor ELSE r.actor
Seller(r) == IF taker.side = "buy" THEN r.actor ELSE taker.actor

(* x with more cash and shares, of which more are reserved. *)
Plus(x, cash, shares, heldCash, heldShares) ==
  [cash |-> x.cash + cash, inventory |-> x.inventory + shares,
   reservedCash |-> x.reservedCash + heldCash,
   reservedInventory |-> x.reservedInventory + heldShares]

BadSettled(r, quantity) ==
  [a \in Accounts |->
     IF a = Buyer(r)
       THEN Plus(account[a], -Cost(r.price, quantity), quantity,
                 IF r.side = "buy" THEN -Cost(r.price, quantity) ELSE 0, 0)
     ELSE IF a = Seller(r)
       THEN Plus(account[a], r.price * quantity - FeeFor(r.price, quantity), -quantity,
                 0, IF r.side = "sell" THEN -quantity ELSE 0)
     ELSE account[a]]

Settled(r, quantity) ==
  [a \in Accounts |->
     IF a = Buyer(r)
       THEN Plus(account[a], -Cost(r.price, quantity), quantity,
                 IF r.side = "buy" THEN -(quantity * ReservePerShare(r.price)) ELSE 0, 0)
     ELSE IF a = Seller(r)
       THEN Plus(account[a], r.price * quantity - FeeFor(r.price, quantity), -quantity,
                 0, IF r.side = "sell" THEN -quantity ELSE 0)
     ELSE account[a]]

BadPooled(r, quantity) == feePool + FeeFor(r.price, quantity)
Pooled(r, quantity) == feePool + 2 * FeeFor(r.price, quantity)

(* What the fill leaves of the resting order: nothing, if it took all. *)
Left(r, quantity) ==
  IF r.remaining = quantity THEN {} ELSE {[r EXCEPT !.remaining = @ - quantity]}

Fill ==
  \E r \in resting :
    /\ Met(r) /\ r.actor # taker.actor
    /\ \E quantity \in Quantities :
         /\ FillQuantity(r, quantity)
         /\ account' = Settled(r, quantity)
         /\ feePool' = Pooled(r, quantity)
         /\ resting' = (resting \ {r}) \cup Left(r, quantity)
         /\ trades' = Append(trades,
              [price |-> r.price, quantity |-> quantity, buyer |-> Buyer(r),
               seller |-> Seller(r), sequence |-> sequence, maker |-> r, taker |-> taker])
         /\ taker' = [taker EXCEPT !.remaining = @ - quantity]
    /\ UNCHANGED <<usedIds, sequence>>

(* The order ends: it is filled; its own order faces it, so the rest is
   cancelled; a market order finds nobody, or cannot pay for a share. *)
Blocked == \E r \in resting : Met(r) /\ r.actor = taker.actor
Broke ==
  /\ taker.side = "buy" /\ taker.price = Market
  /\ \E r \in resting : Met(r) /\ r.actor # taker.actor
                        /\ Cost(r.price, 1) > FreeCash(taker.actor)
Unmet == taker.remaining > 0 /\ \A r \in Facing(taker.side) : ~Crosses(r)

Finish ==
  /\ taker # Idle
  /\ \/ taker.remaining = 0
     \/ Blocked
     \/ Broke
     \/ Unmet /\ taker.price = Market
  /\ taker' = Idle
  /\ UNCHANGED <<account, resting, usedIds, feePool, trades, sequence>>

Reserving(o) ==
  [account EXCEPT ![o.actor] =
     IF o.side = "buy" THEN Plus(@, 0, 0, o.remaining * ReservePerShare(o.price), 0)
                       ELSE Plus(@, 0, 0, 0, o.remaining)]

BadRest ==
  /\ taker # Idle /\ taker.price # Market
  /\ Unmet \/ Blocked
  /\ resting' = resting \cup {taker}
  /\ account' = Reserving(taker)
  /\ taker' = Idle
  /\ UNCHANGED <<usedIds, feePool, trades, sequence>>

(* Nobody is left to meet a limit order: the rest of it joins the book. *)
Rest ==
  /\ taker # Idle /\ taker.price # Market
  /\ Unmet
  /\ resting' = resting \cup {taker}
  /\ account' = Reserving(taker)
  /\ taker' = Idle
  /\ UNCHANGED <<usedIds, feePool, trades, sequence>>

Released(o) ==
  [account EXCEPT ![o.actor] =
     IF o.side = "buy" THEN Plus(@, 0, 0, -(o.remaining * ReservePerShare(o.price)), 0)
                       ELSE Plus(@, 0, 0, 0, -o.remaining)]

Cancel ==
  /\ taker = Idle /\ sequence < MaxEvents
  /\ sequence' = sequence + 1
  /\ \E o \in resting :
       /\ resting' = resting \ {o}
       /\ account' = Released(o)
  /\ UNCHANGED <<usedIds, feePool, trades, taker>>

-----------------------------------------------------------------------------
Init ==
  /\ account = [a \in Accounts |->
                  [cash |-> Start[a].cash, inventory |-> Start[a].inventory,
                   reservedCash |-> 0, reservedInventory |-> 0]]
  /\ resting = {} /\ usedIds = {} /\ feePool = 0 /\ trades = <<>>
  /\ taker = Idle /\ sequence = 0

Next == Submit \/ Fill \/ Finish \/ Rest \/ Cancel
Spec == Init /\ [][Next]_vars

-----------------------------------------------------------------------------
(* Properties. *)

(* The book holds whole orders of known accounts with shares left to trade, and
   the log whole trades. *)
TypeOK ==
  /\ account \in [Accounts -> Balance]
  /\ resting \subseteq Row /\ usedIds \subseteq Ids /\ feePool \in Nat
  /\ trades \in Seq(Trade) /\ taker \in Order \cup {Idle} /\ sequence \in Nat

(* What an account has reserved is what its resting orders may still cost it,
   however they were filled in parts, cancelled and placed again. *)
Mine(a, side) == {r \in resting : r.actor = a /\ r.side = side}
MayCost == [r \in resting |-> r.remaining * ReservePerShare(r.price)]
Unsold == [r \in resting |-> r.remaining]
ReservesMatchBook ==
  \A a \in Accounts :
    /\ account[a].reservedCash = SumFunctionOnSet(MayCost, Mine(a, "buy"))
    /\ account[a].reservedInventory = SumFunctionOnSet(Unsold, Mine(a, "sell"))

(* Nobody oversells or overspends: after every fill, whatever its rounding,
   the reservations are covered by what the account has (the check that
   assertReservations would fail). *)
ReservesCovered ==
  \A a \in Accounts : FreeCash(a) >= 0 /\ FreeInventory(a) >= 0

(* Money only moves between the accounts and the fee pool, shares only
   between accounts. *)
Cash == [a \in Accounts |-> account[a].cash]
Shares == [a \in Accounts |-> account[a].inventory]
Conserved ==
  /\ SumFunction(Cash) + feePool = SumFunction([a \in Accounts |-> Start[a].cash])
  /\ SumFunction(Shares) = SumFunction([a \in Accounts |-> Start[a].inventory])

(* No resting bid reaches a resting ask, not even for the account that owns
   both: what is left of an order stopped before its own order never rests. *)
NotCrossed ==
  \A b, s \in resting : b.side = "buy" /\ s.side = "sell" => b.price < s.price

(* Price, then time, over the whole history: nobody traded ahead of an order
   that was already waiting at a better price, or earlier at the same one, and
   still waits. *)
Prior(x, y) ==
  \/ IF x.side = "buy" THEN x.price > y.price ELSE x.price < y.price
  \/ x.price = y.price /\ x.sequence < y.sequence
NobodyPassedOver ==
  \A r \in resting : \A i \in DOMAIN trades :
    LET m == trades[i].maker
    IN  m.side = r.side /\ r.sequence < trades[i].sequence => m.id = r.id \/ ~Prior(r, m)

(* The search of affordableQuantity finds the most shares that can be paid. *)
SearchFindsMost ==
  \A a \in Accounts, p \in Prices, cap \in 0..MaxQuantity :
    Pays(a, p, cap, Affordable(a, p, cap))
=============================================================================

--------------------------- MODULE LabBook_proofs ---------------------------
(***************************************************************************)
(* For any accounts, prices, quantities and fee: nobody oversells or       *)
(* overspends, what is reserved is exactly what the resting orders may     *)
(* still cost, money and shares are only moved, the book is never crossed, *)
(* nobody trades ahead of an order with priority, and the search for what  *)
(* can be paid finds the most. The invariants add what the order at work   *)
(* may still cost (TakerCovered), when things happened (Dated) and that no *)
(* two rows come from one event (Apart).                                   *)
(***************************************************************************)
EXTENDS LabBook, SumTheorems, TLAPS

USE LabBookAssumption

TakerCovered ==
  taker # Idle =>
    /\ taker.side = "sell" => taker.remaining <= FreeInventory(taker.actor)
    /\ taker.side = "buy" /\ taker.price # Market =>
         taker.remaining * ReservePerShare(taker.price) <= FreeCash(taker.actor)
Covered == ReservesCovered /\ TakerCovered

Dated ==
  /\ \A i \in DOMAIN trades : trades[i].sequence <= sequence
  /\ taker # Idle => taker.sequence = sequence

-----------------------------------------------------------------------------
(* Arithmetic of the fee. *)

(* The remainder of a division is below the divisor. *)
LEMMA DivBounds ==
  ASSUME NEW a \in Nat, NEW b \in Nat \ {0}
  PROVE  a \div b \in Int /\ b * (a \div b) <= a /\ a < b * (a \div b) + b
OBVIOUS

(* The rounded quotient suffices, by less than one divisor. *)
LEMMA CeilBounds ==
  ASSUME NEW a \in Nat, NEW b \in Nat \ {0}
  PROVE  /\ CeilDiv(a, b) \in Nat
         /\ a <= b * CeilDiv(a, b) /\ b * CeilDiv(a, b) < a + b
<1> DEFINE c == a + b - 1
<1>1. c \in Nat
  OBVIOUS
<1>2. c \div b \in Int /\ b * (c \div b) <= c /\ c < b * (c \div b) + b
  BY <1>1, DivBounds
<1> HIDE DEF c
<1>3. CeilDiv(a, b) = c \div b
  BY DEF CeilDiv, c
<1>4. a <= b * CeilDiv(a, b) /\ b * CeilDiv(a, b) < a + b
  BY <1>2, <1>3, <1>1 DEF c
<1>5. CeilDiv(a, b) >= 0
  <2>1. SUFFICES ASSUME CeilDiv(a, b) <= -1 PROVE FALSE
    BY <1>2, <1>3
  <2>2. b * CeilDiv(a, b) <= b * (-1)
    BY <2>1, <1>2, <1>3
  <2>3. QED
    BY <2>2, <1>4, <1>2, <1>3
<1>6. QED
  BY <1>2, <1>3, <1>4, <1>5

(* The rounded quotient is the least one: it is below every k that suffices. *)
LEMMA CeilLeast ==
  ASSUME NEW a \in Nat, NEW b \in Nat \ {0}, NEW k \in Int, a <= b * k
  PROVE  CeilDiv(a, b) <= k
<1>1. CeilDiv(a, b) \in Nat /\ b * CeilDiv(a, b) < a + b
  BY CeilBounds
<1>2. SUFFICES ASSUME CeilDiv(a, b) >= k + 1 PROVE FALSE
  BY <1>1
<1>3. b * CeilDiv(a, b) >= b * (k + 1)
  BY <1>1, <1>2
<1>4. QED
  BY <1>1, <1>3

(* A product of natural numbers is one. *)
LEMMA ProductInNat == ASSUME NEW a \in Nat, NEW b \in Nat PROVE a * b \in Nat
OBVIOUS

(* Fees, costs and reservations are natural numbers. *)
LEMMA FeeInNat ==
  ASSUME NEW p \in Nat, NEW q \in Nat
  PROVE  FeeFor(p, q) \in Nat /\ Cost(p, q) \in Nat /\ ReservePerShare(p) \in Nat
<1>1. FeeRate \in Nat /\ FeeUnit \in Nat \ {0} /\ p * q \in Nat
  BY ProductInNat
<1>2. p * q * FeeRate \in Nat /\ p * FeeRate \in Nat
  BY <1>1, ProductInNat
<1>3. CeilDiv(p * q * FeeRate, FeeUnit) \in Nat /\ CeilDiv(p * FeeRate, FeeUnit) \in Nat
  BY <1>1, <1>2, CeilBounds
<1>4. QED
  BY <1>1, <1>3 DEF FeeFor, Cost, ReservePerShare

(* A fee never exceeds what was traded. *)
LEMMA FeeBelowGross ==
  ASSUME NEW p \in Nat, NEW q \in Nat
  PROVE  FeeFor(p, q) <= p * q
<1> DEFINE g == p * q
<1>1. g \in Nat /\ FeeRate \in Nat /\ FeeRate <= FeeUnit /\ FeeUnit \in Nat \ {0}
  BY ProductInNat
<1> HIDE DEF g
<1>2. g * FeeRate \in Nat /\ g * FeeRate <= FeeUnit * g
  BY <1>1, ProductInNat
<1>3. CeilDiv(g * FeeRate, FeeUnit) <= g
  BY <1>1, <1>2, CeilLeast
<1>4. QED
  BY <1>3 DEF FeeFor, g

(* The reservation of a buy at the limit covers a fill at that price or a
   better one, with its fee rounded up. *)
LEMMA ReserveCoversCost ==
  ASSUME NEW p \in Nat, NEW limit \in Nat, NEW q \in Nat, p <= limit
  PROVE  Cost(p, q) <= q * ReservePerShare(limit)
<1> DEFINE k == CeilDiv(limit * FeeRate, FeeUnit)
<1>1. FeeRate \in Nat /\ FeeUnit \in Nat \ {0} /\ limit * FeeRate \in Nat
  BY ProductInNat
<1>2. k \in Nat /\ limit * FeeRate <= FeeUnit * k
  BY <1>1, CeilBounds
<1> HIDE DEF k
<1>3. p * FeeRate <= limit * FeeRate
  BY <1>1
<1>4. p * FeeRate \in Nat /\ p * q \in Nat /\ FeeUnit * k \in Nat
  BY <1>1, <1>2, ProductInNat
<1>5. q * (p * FeeRate) <= q * (FeeUnit * k)
  <2>1. p * FeeRate <= FeeUnit * k
    BY <1>1, <1>2, <1>3, <1>4
  <2>2. QED
    BY <2>1, <1>4
<1>6. p * q * FeeRate = q * (p * FeeRate) /\ q * (FeeUnit * k) = FeeUnit * (q * k)
  BY <1>1, <1>2
<1>7. p * q * FeeRate \in Nat /\ q * k \in Nat
  BY <1>1, <1>2, <1>4, ProductInNat
<1>8. FeeFor(p, q) <= q * k
  BY <1>5, <1>6, <1>7, <1>1, CeilLeast DEF FeeFor
<1>9. p * q <= q * limit
  OBVIOUS
<1>10. q * ReservePerShare(limit) = q * limit + q * k
  BY <1>2 DEF ReservePerShare, k
<1>11. FeeFor(p, q) \in Nat /\ q * limit \in Nat
  BY FeeInNat, ProductInNat
<1>12. p * q + FeeFor(p, q) <= q * limit + q * k
  BY <1>4, <1>7, <1>8, <1>9, <1>11
<1>13. QED
  BY <1>10, <1>12 DEF Cost

-----------------------------------------------------------------------------
(* Types. *)

(* The order at work, field by field. *)
LEMMA TakerType ==
  ASSUME TypeOK, taker # Idle
  PROVE  /\ taker \in Order /\ taker.id \in Ids /\ taker.actor \in Accounts
         /\ taker.side \in Sides /\ taker.price \in Nat
         /\ taker.remaining \in Nat /\ taker.remaining <= MaxQuantity
         /\ taker.price # Market => taker.price \in Prices
<1>1. taker \in Order
  BY DEF TypeOK
<1>2. Prices \subseteq Nat /\ MaxQuantity \in Nat
  OBVIOUS
<1>3. taker.id \in Ids /\ taker.actor \in Accounts /\ taker.side \in Sides
      /\ taker.price \in Prices \cup {Market} /\ taker.remaining \in 0..MaxQuantity
  BY <1>1 DEF Order
<1>4. Market \in Nat
  BY DEF Market
<1>5. taker.price \in Nat /\ (taker.price # Market => taker.price \in Prices)
  BY <1>2, <1>3, <1>4
<1>6. QED
  BY <1>1, <1>2, <1>3, <1>5

(* The same of a row of the book. *)
LEMMA RowType ==
  ASSUME TypeOK, NEW r \in resting
  PROVE  /\ r \in Row /\ r.id \in Ids /\ r.actor \in Accounts /\ r.side \in Sides
         /\ r.price \in Prices /\ r.price \in Nat /\ r.remaining \in Nat \ {0}
         /\ r.remaining \in Quantities
<1>1. r \in Row
  BY DEF TypeOK
<1>2. Prices \subseteq Nat /\ MaxQuantity \in Nat
  OBVIOUS
<1>3. r.id \in Ids /\ r.actor \in Accounts /\ r.side \in Sides
      /\ r.price \in Prices /\ r.remaining \in Quantities
  BY <1>1 DEF Row
<1>4. r.remaining \in Nat \ {0}
  BY <1>2, <1>3 DEF Quantities
<1>5. QED
  BY <1>1, <1>2, <1>3, <1>4

(* A fill takes at least a share and at most what both orders still want. *)
LEMMA FillBounds ==
  ASSUME TypeOK, NEW r \in resting, Met(r), NEW quantity \in Quantities,
         FillQuantity(r, quantity)
  PROVE  /\ taker # Idle /\ quantity \in Nat \ {0}
         /\ quantity <= taker.remaining /\ quantity <= r.remaining
         /\ taker.side = "buy" /\ taker.price = Market =>
              Cost(r.price, quantity) <= FreeCash(taker.actor)
<1>1. taker # Idle /\ taker.remaining \in Nat
  BY TakerType DEF Met
<1>2. r.remaining \in Nat
  BY RowType
<1>3. Least(taker.remaining, r.remaining) \in Nat
      /\ Least(taker.remaining, r.remaining) <= taker.remaining
      /\ Least(taker.remaining, r.remaining) <= r.remaining
  BY <1>1, <1>2 DEF Least
<1>4. quantity \in Nat \ {0}
  BY DEF Quantities
<1>5. quantity <= Least(taker.remaining, r.remaining)
  BY <1>3, <1>4 DEF FillQuantity, Pays
<1>6. taker.side = "buy" /\ taker.price = Market =>
        Cost(r.price, quantity) <= FreeCash(taker.actor)
  BY <1>4 DEF FillQuantity, Pays
<1>7. QED
  BY <1>1, <1>2, <1>3, <1>4, <1>5, <1>6

(* What stands in the book after a fill: old rows, and the filled one with
   less to trade. *)
LEMMA LeftRows ==
  ASSUME TypeOK, NEW r \in resting, NEW quantity \in Nat \ {0}, quantity <= r.remaining,
         NEW x \in (resting \ {r}) \cup Left(r, quantity)
  PROVE  \/ x \in resting
         \/ /\ x \in Row /\ x.id = r.id /\ x.actor = r.actor /\ x.side = r.side
            /\ x.price = r.price /\ x.sequence = r.sequence
            /\ x.remaining = r.remaining - quantity
<1>1. CASE x \in resting
  BY <1>1
<1>2. CASE x \in Left(r, quantity)
  <2>1. r.remaining # quantity /\ x = [r EXCEPT !.remaining = r.remaining - quantity]
    BY <1>2 DEF Left
  <2>2. r \in Row /\ r.remaining \in Quantities /\ MaxQuantity \in Nat
    BY RowType
  <2>3. r.remaining - quantity \in Quantities
    BY <2>1, <2>2 DEF Quantities
  <2>4. QED
    BY <2>1, <2>2, <2>3 DEF Row
<1>3. QED
  BY <1>1, <1>2

-----------------------------------------------------------------------------
(* Each order and trade is well formed, whatever the interleaving. *)

(* The first state has its types. *)
LEMMA TypeInit == Init => TypeOK
<1> SUFFICES ASSUME Init PROVE TypeOK
  OBVIOUS
<1>1. account \in [Accounts -> Balance]
  BY DEF Init, Balance
<1>2. QED
  BY <1>1 DEF Init, TypeOK

(* An account that is credited or debited stays one. *)
LEMMA PlusType ==
  ASSUME NEW x \in Balance, NEW c \in Int, NEW i \in Int, NEW k \in Int, NEW v \in Int
  PROVE  Plus(x, c, i, k, v) \in Balance
BY DEF Plus, Balance

(* The accounts after a fill are accounts. *)
LEMMA SettledType ==
  ASSUME TypeOK, NEW r \in resting, taker # Idle, NEW quantity \in Nat
  PROVE  Settled(r, quantity) \in [Accounts -> Balance]
<1>1. r.price \in Nat
  BY RowType
<1>2. Cost(r.price, quantity) \in Nat /\ FeeFor(r.price, quantity) \in Nat
      /\ r.price * quantity \in Nat /\ quantity * ReservePerShare(r.price) \in Nat
  BY <1>1, FeeInNat, ProductInNat
<1>3. account \in [Accounts -> Balance]
  BY DEF TypeOK
<1>4. QED
  BY <1>2, <1>3, PlusType DEF Settled

(* The accounts after a reservation or a release are accounts. *)
LEMMA ReserveType ==
  ASSUME TypeOK, NEW o, o.actor \in Accounts, o.price \in Nat, o.remaining \in Nat
  PROVE  Reserving(o) \in [Accounts -> Balance] /\ Released(o) \in [Accounts -> Balance]
<1>1. o.remaining * ReservePerShare(o.price) \in Nat
  BY FeeInNat, ProductInNat
<1>2. account \in [Accounts -> Balance]
  BY DEF TypeOK
<1>3. QED
  BY <1>1, <1>2, PlusType DEF Reserving, Released

(* Every step keeps the types. *)
LEMMA TypeNext == TypeOK /\ [Next]_vars => TypeOK'
<1> SUFFICES ASSUME TypeOK, [Next]_vars PROVE TypeOK'
  OBVIOUS
<1>1. CASE Submit
  <2>1. PICK id \in Ids, a \in Accounts, side \in Sides, price \in Prices \cup {Market},
             quantity \in Quantities :
          LET o == [id |-> id, actor |-> a, side |-> side, price |-> price,
                    remaining |-> quantity, sequence |-> sequence']
          IN  IF id \notin usedIds /\ Enough(o)
                THEN taker' = o /\ usedIds' = usedIds \cup {id}
                ELSE UNCHANGED <<taker, usedIds>>
    BY <1>1 DEF Submit
  <2>2. sequence' \in Nat /\ quantity \in Nat
    BY <1>1 DEF Submit, TypeOK, Quantities
  <2>3. [id |-> id, actor |-> a, side |-> side, price |-> price,
         remaining |-> quantity, sequence |-> sequence'] \in Order
    BY <2>2 DEF Order, Quantities
  <2>4. taker' \in Order \cup {Idle} /\ usedIds' \subseteq Ids
    BY <2>1, <2>3 DEF TypeOK
  <2>5. QED
    BY <1>1, <2>2, <2>4 DEF Submit, TypeOK
<1>2. CASE Fill
  <2>1. PICK r \in resting, quantity \in Quantities :
          /\ Met(r) /\ r.actor # taker.actor
          /\ FillQuantity(r, quantity)
          /\ account' = Settled(r, quantity)
          /\ feePool' = Pooled(r, quantity)
          /\ resting' = (resting \ {r}) \cup Left(r, quantity)
          /\ trades' = Append(trades,
               [price |-> r.price, quantity |-> quantity, buyer |-> Buyer(r),
                seller |-> Seller(r), sequence |-> sequence, maker |-> r, taker |-> taker])
          /\ taker' = [taker EXCEPT !.remaining = @ - quantity]
          /\ usedIds' = usedIds /\ sequence' = sequence
    BY <1>2 DEF Fill
  <2>2. taker # Idle /\ quantity \in Nat \ {0} /\ quantity <= taker.remaining
        /\ quantity <= r.remaining
    BY <2>1, FillBounds
  <2>3. taker \in Order /\ taker.actor \in Accounts /\ taker.remaining \in Nat
        /\ taker.remaining <= MaxQuantity /\ MaxQuantity \in Nat
    BY <2>2, TakerType
  <2>4. r \in Row /\ r.actor \in Accounts /\ r.price \in Prices /\ r.price \in Nat
    BY RowType
  <2>5. taker' \in Order
    <3>1. taker.remaining - quantity \in 0..MaxQuantity
      BY <2>2, <2>3
    <3>2. QED
      BY <2>1, <2>3, <3>1 DEF Order
  <2>6. account' \in [Accounts -> Balance]
    BY <2>1, <2>2, SettledType
  <2>7. feePool' \in Nat
    <3>1. FeeFor(r.price, quantity) \in Nat /\ feePool \in Nat
      BY <2>2, <2>4, FeeInNat DEF TypeOK
    <3>2. QED
      BY <2>1, <3>1 DEF Pooled
  <2>8. resting' \subseteq Row
    BY <2>1, <2>2, LeftRows DEF TypeOK
  <2>9. trades' \in Seq(Trade)
    <3>1. Buyer(r) \in Accounts /\ Seller(r) \in Accounts /\ sequence \in Nat
      BY <2>3, <2>4 DEF Buyer, Seller, TypeOK
    <3>2. [price |-> r.price, quantity |-> quantity, buyer |-> Buyer(r),
           seller |-> Seller(r), sequence |-> sequence, maker |-> r, taker |-> taker] \in Trade
      BY <2>3, <2>4, <3>1 DEF Trade
    <3>3. QED
      BY <2>1, <3>2 DEF TypeOK
  <2>10. QED
    BY <2>1, <2>5, <2>6, <2>7, <2>8, <2>9 DEF TypeOK
<1>3. CASE Finish
  BY <1>3 DEF Finish, TypeOK
<1>4. CASE Rest
  <2>1. taker # Idle /\ taker.price # Market /\ taker.remaining > 0
    BY <1>4 DEF Rest, Unmet
  <2>2. taker \in Order /\ taker.actor \in Accounts /\ taker.price \in Prices
        /\ taker.price \in Nat /\ taker.remaining \in Nat
        /\ taker.remaining <= MaxQuantity /\ MaxQuantity \in Nat
    BY <2>1, TakerType
  <2>3. account' \in [Accounts -> Balance]
    BY <1>4, <2>2, ReserveType DEF Rest
  <2>4. taker \in Row
    <3>1. taker = [id |-> taker.id, actor |-> taker.actor, side |-> taker.side,
                   price |-> taker.price, remaining |-> taker.remaining,
                   sequence |-> taker.sequence]
          /\ taker.id \in Ids /\ taker.side \in Sides /\ taker.sequence \in Nat
      BY <2>2 DEF Order
    <3>2. taker.remaining \in Quantities
      BY <2>1, <2>2 DEF Quantities
    <3>3. QED
      BY <2>2, <3>1, <3>2 DEF Row
  <2>5. QED
    BY <1>4, <2>3, <2>4 DEF Rest, TypeOK
<1>5. CASE Cancel
  <2>1. PICK o \in resting : resting' = resting \ {o} /\ account' = Released(o)
    BY <1>5 DEF Cancel
  <2>2. o.actor \in Accounts /\ o.price \in Nat /\ o.remaining \in Nat
    BY RowType
  <2>3. account' \in [Accounts -> Balance]
    BY <2>1, <2>2, ReserveType
  <2>4. QED
    BY <1>5, <2>1, <2>3 DEF Cancel, TypeOK
<1>6. CASE UNCHANGED vars
  BY <1>6 DEF vars, TypeOK
<1>7. QED
  BY <1>1, <1>2, <1>3, <1>4, <1>5, <1>6 DEF Next

(* The book holds whole orders with shares left to trade, and the log whole
   trades, for any accounts, prices and quantities. *)
THEOREM TypeCorrect == Spec => []TypeOK
<1>1. Init => TypeOK
  BY TypeInit
<1>2. TypeOK /\ [Next]_vars => TypeOK'
  BY TypeNext
<1>3. QED
  BY <1>1, <1>2, PTL DEF Spec

-----------------------------------------------------------------------------
(* The shape of a fill, for the proofs below. *)
FillOf(r, quantity) ==
  /\ Met(r) /\ r.actor # taker.actor /\ FillQuantity(r, quantity)
  /\ account' = Settled(r, quantity) /\ feePool' = Pooled(r, quantity)
  /\ resting' = (resting \ {r}) \cup Left(r, quantity)
  /\ trades' = Append(trades,
       [price |-> r.price, quantity |-> quantity, buyer |-> Buyer(r),
        seller |-> Seller(r), sequence |-> sequence, maker |-> r, taker |-> taker])
  /\ taker' = [taker EXCEPT !.remaining = @ - quantity]
  /\ sequence' = sequence

(* A fill names its row and its quantity. *)
LEMMA FillShape ==
  ASSUME Fill
  PROVE  \E r \in resting, quantity \in Quantities : FillOf(r, quantity)
BY DEF Fill, FillOf

-----------------------------------------------------------------------------
(* Reservations stay covered.  *)

(* At the start nothing is reserved. *)
LEMMA CoveredInit == Init => Covered
<1> SUFFICES ASSUME Init PROVE Covered
  OBVIOUS
<1>1. taker = Idle
  BY DEF Init
<1>2. \A a \in Accounts : FreeCash(a) >= 0 /\ FreeInventory(a) >= 0
  BY DEF Init, FreeCash, FreeInventory
<1>3. QED
  BY <1>1, <1>2 DEF Covered, ReservesCovered, TakerCovered

(* What a fill does to what is free: the buyer who waited gains what he had
   reserved beyond the cost, the buyer at work pays, a seller at work hands
   over his shares, and cash received is free. *)
LEMMA FillFree ==
  ASSUME TypeOK, ReservesCovered, NEW r \in resting, NEW quantity \in Quantities,
         FillOf(r, quantity), NEW a \in Accounts
  PROVE  /\ a # taker.actor => FreeCash(a)' >= FreeCash(a)
                               /\ FreeInventory(a)' >= FreeInventory(a)
         /\ a = taker.actor /\ taker.side = "buy" =>
              /\ FreeCash(a)' = FreeCash(a) - Cost(r.price, quantity)
              /\ FreeInventory(a)' >= FreeInventory(a)
         /\ a = taker.actor /\ taker.side = "sell" =>
              /\ FreeCash(a)' >= FreeCash(a)
              /\ FreeInventory(a)' = FreeInventory(a) - quantity
<1>1. taker # Idle /\ quantity \in Nat \ {0}
  BY FillBounds DEF FillOf
<1>2. r.price \in Nat /\ r.side \in Sides /\ r.actor \in Accounts /\ r.actor # taker.actor
  BY RowType DEF FillOf
<1>3. taker.side \in Sides /\ taker.actor \in Accounts /\ r.side # taker.side
  BY <1>1, TakerType DEF FillOf, Met, IsBest, Facing
<1> DEFINE p == Cost(r.price, quantity)
           f == FeeFor(r.price, quantity)
           g == r.price * quantity
           k == quantity * ReservePerShare(r.price)
<1>4. p \in Nat /\ f \in Nat /\ g \in Nat /\ k \in Nat /\ f <= g /\ p <= k
  <2>1. p \in Nat /\ f \in Nat /\ g \in Nat
    BY <1>1, <1>2, FeeInNat, ProductInNat
  <2>2. k \in Nat
    BY <1>1, <1>2, FeeInNat, ProductInNat
  <2>3. f <= g
    BY <1>1, <1>2, FeeBelowGross
  <2>4. p <= k
    BY <1>1, <1>2, ReserveCoversCost
  <2>5. QED
    BY <2>1, <2>2, <2>3, <2>4
<1>5. account[a] \in Balance
  BY DEF TypeOK
<1>6. account'[a] =
        IF a = Buyer(r)
          THEN Plus(account[a], -p, quantity, IF r.side = "buy" THEN -k ELSE 0, 0)
        ELSE IF a = Seller(r)
          THEN Plus(account[a], g - f, -quantity, 0, IF r.side = "sell" THEN -quantity ELSE 0)
        ELSE account[a]
  BY DEF FillOf, Settled
<1> HIDE DEF p, f, g, k
<1>7. CASE taker.side = "buy"
  <2>1. r.side = "sell" /\ Buyer(r) = taker.actor /\ Seller(r) = r.actor
    BY <1>2, <1>3, <1>7 DEF Sides, Buyer, Seller
  <2>2. CASE a = taker.actor
    <3>1. account'[a] = Plus(account[a], -p, quantity, 0, 0)
      BY <1>6, <2>1, <2>2
    <3>2. QED
      BY <1>1, <1>4, <1>5, <1>7, <2>2, <3>1 DEF Plus, Balance, FreeCash, FreeInventory, p
  <2>3. CASE a = r.actor
    <3>1. account'[a] = Plus(account[a], g - f, -quantity, 0, -quantity)
      BY <1>2, <1>6, <2>1, <2>3
    <3>2. QED
      BY <1>1, <1>2, <1>4, <1>5, <2>3, <3>1 DEF Plus, Balance, FreeCash, FreeInventory
  <2>4. CASE a # taker.actor /\ a # r.actor
    <3>1. account'[a] = account[a]
      BY <1>6, <2>1, <2>4
    <3>2. QED
      BY <1>5, <2>4, <3>1 DEF Balance, FreeCash, FreeInventory
  <2>5. QED
    BY <2>2, <2>3, <2>4
<1>8. CASE taker.side = "sell"
  <2>1. r.side = "buy" /\ Buyer(r) = r.actor /\ Seller(r) = taker.actor
    BY <1>2, <1>3, <1>8 DEF Sides, Buyer, Seller
  <2>2. CASE a = taker.actor
    <3>1. account'[a] = Plus(account[a], g - f, -quantity, 0, 0)
      BY <1>2, <1>6, <2>1, <2>2
    <3>2. QED
      BY <1>1, <1>4, <1>5, <1>8, <2>2, <3>1 DEF Plus, Balance, FreeCash, FreeInventory
  <2>3. CASE a = r.actor
    <3>1. account'[a] = Plus(account[a], -p, quantity, -k, 0)
      BY <1>6, <2>1, <2>3
    <3>2. QED
      BY <1>1, <1>2, <1>4, <1>5, <2>3, <3>1 DEF Plus, Balance, FreeCash, FreeInventory
  <2>4. CASE a # taker.actor /\ a # r.actor
    <3>1. account'[a] = account[a]
      BY <1>6, <2>1, <2>4
    <3>2. QED
      BY <1>5, <2>4, <3>1 DEF Balance, FreeCash, FreeInventory
  <2>5. QED
    BY <2>2, <2>3, <2>4
<1>9. QED
  BY <1>3, <1>7, <1>8 DEF Sides

(* A fill leaves every account able to pay for what it still has reserved. *)
LEMMA CoveredFill ==
  ASSUME TypeOK, Covered, NEW r \in resting, NEW quantity \in Quantities,
         FillOf(r, quantity)
  PROVE  Covered'
<1>0. PICK me \in Accounts : me = taker.actor
  BY FillBounds, TakerType DEF FillOf
<1>1. /\ taker # Idle /\ quantity \in Nat \ {0} /\ quantity <= taker.remaining
      /\ taker.side = "buy" /\ taker.price = Market => Cost(r.price, quantity) <= FreeCash(me)
  BY <1>0, FillBounds DEF FillOf
<1>2. /\ taker \in Order /\ me \in Accounts /\ taker.side \in Sides /\ taker.price \in Nat
      /\ taker.remaining \in Nat
  BY <1>0, <1>1, TakerType
<1>3. r.price \in Nat
  BY RowType
<1>4. /\ taker'.actor = me /\ taker'.side = taker.side /\ taker'.price = taker.price
      /\ taker'.remaining = taker.remaining - quantity
  BY <1>0, <1>2 DEF FillOf, Order
<1>5. \A a \in Accounts : /\ FreeCash(a) \in Int /\ FreeInventory(a) \in Int
                          /\ FreeCash(a)' \in Int /\ FreeInventory(a)' \in Int
  <2>1. account' \in [Accounts -> Balance] /\ account \in [Accounts -> Balance]
    BY <1>1, SettledType DEF FillOf, TypeOK
  <2>2. QED
    BY <2>1 DEF Balance, FreeCash, FreeInventory
<1>6. Cost(r.price, quantity) \in Nat
  BY <1>1, <1>3, FeeInNat
<1>7. taker.side = "buy" /\ taker.price # Market =>
        /\ Cost(r.price, quantity) <= quantity * ReservePerShare(taker.price)
        /\ taker.remaining * ReservePerShare(taker.price) <= FreeCash(me)
        /\ ReservePerShare(taker.price) \in Nat
  <2>1. SUFFICES ASSUME taker.side = "buy", taker.price # Market
                 PROVE  /\ Cost(r.price, quantity) <= quantity * ReservePerShare(taker.price)
                        /\ taker.remaining * ReservePerShare(taker.price) <= FreeCash(me)
                        /\ ReservePerShare(taker.price) \in Nat
    OBVIOUS
  <2>2. r.price <= taker.price
    BY <2>1 DEF FillOf, Met, Crosses
  <2>3. QED
    BY <1>0, <1>1, <1>2, <1>3, <2>1, <2>2, ReserveCoversCost, FeeInNat DEF Covered, TakerCovered
<1>8. taker.side = "buy" /\ taker.price # Market =>
        (taker.remaining - quantity) * ReservePerShare(taker.price)
          <= FreeCash(me) - Cost(r.price, quantity)
  <2> DEFINE k == ReservePerShare(taker.price)
  <2>1. SUFFICES ASSUME taker.side = "buy", taker.price # Market
                 PROVE  (taker.remaining - quantity) * k <= FreeCash(me) - Cost(r.price, quantity)
    OBVIOUS
  <2>2. /\ k \in Nat /\ Cost(r.price, quantity) <= quantity * k
        /\ taker.remaining * k <= FreeCash(me)
    BY <1>7, <2>1
  <2> HIDE DEF k
  <2>3. (taker.remaining - quantity) * k = taker.remaining * k - quantity * k
    BY <1>1, <1>2, <2>2
  <2>4. taker.remaining * k \in Nat /\ quantity * k \in Nat
    BY <1>1, <1>2, <2>2, ProductInNat
  <2>5. QED
    BY <1>2, <1>5, <1>6, <2>2, <2>3, <2>4
<1>9. taker.side = "sell" => quantity <= FreeInventory(me)
                            /\ taker.remaining - quantity <= FreeInventory(me) - quantity
  BY <1>0, <1>1, <1>2, <1>5 DEF Covered, TakerCovered
<1>10. taker.side = "buy" => Cost(r.price, quantity) <= FreeCash(me)
  <2>1. taker.side = "buy" /\ taker.price # Market =>
          Cost(r.price, quantity) <= FreeCash(me)
    <3>1. taker.side = "buy" /\ taker.price # Market =>
            (taker.remaining - quantity) * ReservePerShare(taker.price) \in Nat
      BY <1>1, <1>2, <1>7, ProductInNat
    <3>2. QED
      BY <1>2, <1>5, <1>6, <1>8, <3>1
  <2>2. QED
    BY <1>1, <2>1
<1>11. ReservesCovered'
  <2>1. SUFFICES ASSUME NEW a \in Accounts
                 PROVE  FreeCash(a)' >= 0 /\ FreeInventory(a)' >= 0
    BY DEF ReservesCovered
  <2>2. FreeCash(a) >= 0 /\ FreeInventory(a) >= 0 /\ ReservesCovered
    BY DEF Covered, ReservesCovered
  <2>3. CASE a # me
    BY <1>0, <1>5, <2>2, <2>3, FillFree
  <2>4. CASE a = me /\ taker.side = "buy"
    BY <1>0, <1>5, <1>6, <1>10, <2>2, <2>4, FillFree
  <2>5. CASE a = me /\ taker.side = "sell"
    BY <1>0, <1>1, <1>5, <1>9, <2>2, <2>5, FillFree
  <2>6. QED
    BY <1>2, <2>3, <2>4, <2>5 DEF Sides
<1>12. TakerCovered'
  <2>1. ReservesCovered
    BY DEF Covered
  <2>2. taker.side = "sell" => taker'.remaining <= FreeInventory(me)'
    BY <1>0, <1>2, <1>4, <1>9, <2>1, FillFree
  <2>3. taker.side = "buy" => FreeCash(me)' = FreeCash(me) - Cost(r.price, quantity)
    BY <1>0, <1>2, <2>1, FillFree
  <2>4. taker.side = "buy" /\ taker.price # Market =>
          taker'.remaining * ReservePerShare(taker'.price) <= FreeCash(me)'
    BY <1>4, <1>8, <2>3
  <2>5. FreeInventory(taker.actor)' = FreeInventory(me)' /\ FreeCash(taker.actor)' = FreeCash(me)'
    BY <1>4 DEF FreeInventory, FreeCash
  <2>6. QED
    BY <1>4, <2>2, <2>4, <2>5 DEF TakerCovered, ReservePerShare, CeilDiv
<1>13. QED
  BY <1>11, <1>12 DEF Covered

(* An accepted order is covered; booking it moves that cover to the
   reservations, and cancelling gives it back. *)
LEMMA CoveredNext == TypeOK /\ Covered /\ [Next]_vars => Covered'
<1> SUFFICES ASSUME TypeOK, Covered, [Next]_vars PROVE Covered'
  OBVIOUS
<1>1. account \in [Accounts -> Balance]
  BY DEF TypeOK
<1>2. ASSUME UNCHANGED account PROVE ReservesCovered'
  BY <1>2 DEF Covered, ReservesCovered, FreeCash, FreeInventory
<1>3. CASE Submit
  <2>1. ReservesCovered'
    BY <1>2, <1>3 DEF Submit
  <2>2. PICK id \in Ids, a \in Accounts, side \in Sides, price \in Prices \cup {Market},
             quantity \in Quantities :
          LET o == [id |-> id, actor |-> a, side |-> side, price |-> price,
                    remaining |-> quantity, sequence |-> sequence']
          IN  IF id \notin usedIds /\ Enough(o)
                THEN taker' = o /\ usedIds' = usedIds \cup {id}
                ELSE UNCHANGED <<taker, usedIds>>
    BY <1>3 DEF Submit
  <2> DEFINE o == [id |-> id, actor |-> a, side |-> side, price |-> price,
                   remaining |-> quantity, sequence |-> sequence']
  <2>3. account' = account /\ taker = Idle
    BY <1>3 DEF Submit
  <2>4. CASE taker' = Idle
    BY <2>1, <2>4 DEF Covered, TakerCovered
  <2>5. CASE taker' # Idle
    <3>1. taker' = o /\ Enough(o)
      BY <2>2, <2>3, <2>5
    <3> HIDE DEF o
    <3>2. taker'.side = "sell" => taker'.remaining <= FreeInventory(taker'.actor)
      BY <3>1 DEF Enough, Sides
    <3>3. taker'.side = "buy" /\ taker'.price # Market =>
            taker'.remaining * ReservePerShare(taker'.price) <= FreeCash(taker'.actor)
      BY <3>1 DEF Enough
    <3>4. FreeCash(taker.actor)' = FreeCash(taker'.actor)
          /\ FreeInventory(taker.actor)' = FreeInventory(taker'.actor)
      BY <2>3 DEF FreeCash, FreeInventory
    <3>5. QED
      BY <2>1, <3>2, <3>3, <3>4 DEF Covered, TakerCovered, ReservePerShare, CeilDiv
  <2>6. QED
    BY <2>4, <2>5
<1>4. CASE Fill
  BY <1>4, FillShape, CoveredFill
<1>5. CASE Finish
  <2>1. taker' = Idle /\ ReservesCovered'
    BY <1>2, <1>5 DEF Finish
  <2>2. QED
    BY <2>1 DEF Covered, TakerCovered
<1>6. CASE Rest
  <2>1. taker # Idle /\ taker.price # Market
    BY <1>6 DEF Rest
  <2>2. PICK me \in Accounts : me = taker.actor
    BY <2>1, TakerType
  <2>3. taker.price \in Nat /\ taker.side \in Sides /\ taker.remaining \in Nat
    BY <2>1, TakerType
  <2> DEFINE k == taker.remaining * ReservePerShare(taker.price)
  <2>4. k \in Nat
    BY <2>3, FeeInNat, ProductInNat
  <2> HIDE DEF k
  <2>5. /\ taker.side = "sell" => taker.remaining <= FreeInventory(me)
        /\ taker.side = "buy" => k <= FreeCash(me)
    BY <2>1, <2>2 DEF Covered, TakerCovered, k
  <2>6. account' = [account EXCEPT ![me] =
          IF taker.side = "buy" THEN Plus(@, 0, 0, k, 0) ELSE Plus(@, 0, 0, 0, taker.remaining)]
    BY <1>6, <2>2 DEF Rest, Reserving, k
  <2>7. ASSUME NEW a \in Accounts PROVE FreeCash(a)' >= 0 /\ FreeInventory(a)' >= 0
    <3>1. account[a] \in Balance /\ FreeCash(a) >= 0 /\ FreeInventory(a) >= 0
      BY <1>1 DEF Covered, ReservesCovered
    <3>2. CASE a # me
      <4>1. account'[a] = account[a]
        BY <1>1, <2>6, <3>2
      <4>2. QED
        BY <3>1, <4>1 DEF FreeCash, FreeInventory
    <3>3. CASE a = me /\ taker.side = "buy"
      <4>1. account'[a] = Plus(account[a], 0, 0, k, 0)
        BY <1>1, <2>6, <3>3
      <4>2. QED
        BY <2>4, <2>5, <3>1, <3>3, <4>1 DEF FreeCash, FreeInventory, Plus, Balance
    <3>4. CASE a = me /\ taker.side = "sell"
      <4>1. account'[a] = Plus(account[a], 0, 0, 0, taker.remaining)
        BY <1>1, <2>6, <3>4
      <4>2. QED
        BY <2>3, <2>5, <3>1, <3>4, <4>1 DEF FreeCash, FreeInventory, Plus, Balance
    <3>5. QED
      BY <2>3, <3>2, <3>3, <3>4 DEF Sides
  <2>8. taker' = Idle
    BY <1>6 DEF Rest
  <2>9. QED
    BY <2>7, <2>8 DEF Covered, ReservesCovered, TakerCovered
<1>7. CASE Cancel
  <2>1. PICK o \in resting : account' = Released(o)
    BY <1>7 DEF Cancel
  <2>2. o.actor \in Accounts /\ o.price \in Nat /\ o.remaining \in Nat
    BY RowType
  <2> DEFINE k == o.remaining * ReservePerShare(o.price)
  <2>3. k \in Nat
    BY <2>2, FeeInNat, ProductInNat
  <2> HIDE DEF k
  <2>4. account' = [account EXCEPT ![o.actor] =
          IF o.side = "buy" THEN Plus(@, 0, 0, -k, 0) ELSE Plus(@, 0, 0, 0, -o.remaining)]
    BY <2>1 DEF Released, k
  <2>5. ASSUME NEW a \in Accounts PROVE FreeCash(a)' >= 0 /\ FreeInventory(a)' >= 0
    <3>1. account[a] \in Balance /\ FreeCash(a) >= 0 /\ FreeInventory(a) >= 0
      BY <1>1 DEF Covered, ReservesCovered
    <3>2. \/ account'[a] = account[a]
          \/ account'[a] = Plus(account[a], 0, 0, -k, 0)
          \/ account'[a] = Plus(account[a], 0, 0, 0, -o.remaining)
      BY <1>1, <2>2, <2>4
    <3>3. QED
      BY <2>2, <2>3, <3>1, <3>2 DEF FreeCash, FreeInventory, Plus, Balance
  <2>6. taker' = Idle
    BY <1>7 DEF Cancel
  <2>7. QED
    BY <2>5, <2>6 DEF Covered, ReservesCovered, TakerCovered
<1>8. CASE UNCHANGED vars
  BY <1>8 DEF vars, Covered, ReservesCovered, TakerCovered, FreeCash, FreeInventory
<1>9. QED
  BY <1>3, <1>4, <1>5, <1>6, <1>7, <1>8 DEF Next

(* Nobody oversells or overspends: for any fee, and however the fills of an
   order are cut up and rounded, assertReservations never fails. *)
THEOREM ReservationsHold == Spec => []ReservesCovered
<1>1. Init => TypeOK /\ Covered
  BY TypeInit, CoveredInit
<1>2. (TypeOK /\ Covered) /\ [Next]_vars => (TypeOK /\ Covered)'
  BY TypeNext, CoveredNext
<1>3. Covered => ReservesCovered
  BY DEF Covered
<1>4. QED
  BY <1>1, <1>2, <1>3, PTL DEF Spec

-----------------------------------------------------------------------------
(* The book is never crossed. *)

(* Every step keeps bids below asks: what rests met nobody. *)
LEMMA UncrossedNext == TypeOK /\ NotCrossed /\ [Next]_vars => NotCrossed'
<1> SUFFICES ASSUME TypeOK, NotCrossed, [Next]_vars PROVE NotCrossed'
  OBVIOUS
<1>1. ASSUME resting' \subseteq resting PROVE NotCrossed'
  BY <1>1 DEF NotCrossed
<1>2. CASE Submit \/ Finish \/ Cancel \/ UNCHANGED vars
  BY <1>1, <1>2 DEF Submit, Finish, Cancel, vars
<1>3. CASE Fill
  <2>1. PICK r \in resting, quantity \in Quantities : FillOf(r, quantity)
    BY <1>3, FillShape
  <2>2. quantity \in Nat \ {0} /\ quantity <= r.remaining
    BY <2>1, FillBounds DEF FillOf
  <2>3. \A x \in resting' : \E y \in resting : y.side = x.side /\ y.price = x.price
    BY <2>1, <2>2, LeftRows DEF FillOf
  <2>4. QED
    BY <2>3 DEF NotCrossed
<1>4. CASE Rest
  <2>1. /\ taker # Idle /\ taker.price # Market /\ resting' = resting \cup {taker}
        /\ \A r \in Facing(taker.side) : ~Crosses(r)
    BY <1>4 DEF Rest, Unmet
  <2>2. taker.price \in Nat /\ taker.side \in Sides
    BY <2>1, TakerType
  <2>3. \A r \in resting : r.price \in Nat
    BY RowType
  <2>4. \A r \in resting : r.side # taker.side =>
          IF taker.side = "buy" THEN taker.price < r.price ELSE r.price < taker.price
    BY <2>1, <2>2, <2>3 DEF Facing, Crosses
  <2>5. SUFFICES ASSUME NEW b \in resting', NEW x \in resting', b.side = "buy", x.side = "sell"
                 PROVE  b.price < x.price
    BY DEF NotCrossed
  <2>6. CASE b \in resting /\ x \in resting
    BY <2>5, <2>6 DEF NotCrossed
  <2>7. CASE b = taker
    BY <2>1, <2>4, <2>5, <2>7
  <2>8. CASE x = taker
    BY <2>1, <2>4, <2>5, <2>8
  <2>9. QED
    BY <2>1, <2>6, <2>7, <2>8
<1>5. QED
  BY <1>2, <1>3, <1>4 DEF Next

(* No resting bid ever reaches a resting ask, whoever owns them. *)
THEOREM Uncrossed == Spec => []NotCrossed
<1>1. Init => TypeOK /\ NotCrossed
  BY TypeInit DEF Init, NotCrossed
<1>2. (TypeOK /\ NotCrossed) /\ [Next]_vars => (TypeOK /\ NotCrossed)'
  BY TypeNext, UncrossedNext
<1>3. QED
  BY <1>1, <1>2, PTL DEF Spec

-----------------------------------------------------------------------------
(* Price, then time, over the whole history. *)

(* Every step keeps the order of time, and trades with the best row only. *)
LEMMA PriorityNext ==
  TypeOK /\ Dated /\ NobodyPassedOver /\ [Next]_vars => (Dated /\ NobodyPassedOver)'
<1> SUFFICES ASSUME TypeOK, Dated, NobodyPassedOver, [Next]_vars
             PROVE  (Dated /\ NobodyPassedOver)'
  OBVIOUS
<1>1. sequence \in Nat /\ \A i \in DOMAIN trades : trades[i].sequence \in Nat
  <2>1. sequence \in Nat /\ trades \in Seq(Trade)
    BY DEF TypeOK
  <2>2. \A i \in DOMAIN trades : trades[i] \in Trade
    BY <2>1
  <2>3. QED
    BY <2>1, <2>2 DEF Trade
<1>2. ASSUME trades' = trades, resting' \subseteq resting PROVE NobodyPassedOver'
  BY <1>2 DEF NobodyPassedOver, Prior
<1>3. CASE Submit
  <2>1. trades' = trades /\ resting' = resting /\ sequence' = sequence + 1 /\ taker = Idle
    BY <1>3 DEF Submit
  <2>2. taker' = Idle \/ taker'.sequence = sequence'
    BY <1>3 DEF Submit
  <2>3. Dated'
    BY <1>1, <2>1, <2>2 DEF Dated
  <2>4. QED
    BY <1>2, <2>1, <2>3
<1>4. CASE Finish
  <2>1. trades' = trades /\ resting' = resting /\ sequence' = sequence /\ taker' = Idle
    BY <1>4 DEF Finish
  <2>2. QED
    BY <1>2, <2>1 DEF Dated
<1>5. CASE Cancel
  <2>1. trades' = trades /\ resting' \subseteq resting /\ sequence' = sequence + 1
        /\ taker' = Idle
    BY <1>5 DEF Cancel
  <2>2. QED
    BY <1>1, <1>2, <2>1 DEF Dated
<1>6. CASE UNCHANGED vars
  BY <1>2, <1>6 DEF vars, Dated
<1>7. CASE Rest
  <2>1. /\ taker # Idle /\ trades' = trades /\ resting' = resting \cup {taker}
        /\ sequence' = sequence /\ taker' = Idle
    BY <1>7 DEF Rest
  <2>2. taker.sequence = sequence
    BY <2>1 DEF Dated
  <2>3. \A i \in DOMAIN trades : ~(taker.sequence < trades[i].sequence)
    BY <1>1, <2>2 DEF Dated
  <2>4. NobodyPassedOver'
    BY <2>1, <2>3 DEF NobodyPassedOver, Prior
  <2>5. QED
    BY <2>1, <2>4 DEF Dated
<1>8. CASE Fill
  <2>1. PICK r \in resting, quantity \in Quantities : FillOf(r, quantity)
    BY <1>8, FillShape
  <2>2. /\ taker # Idle /\ quantity \in Nat \ {0} /\ quantity <= r.remaining
    BY <2>1, FillBounds DEF FillOf
  <2>3. taker \in Order /\ trades \in Seq(Trade)
    BY <2>2, TakerType DEF TypeOK
  <2> DEFINE t == [price |-> r.price, quantity |-> quantity, buyer |-> Buyer(r),
                   seller |-> Seller(r), sequence |-> sequence, maker |-> r, taker |-> taker]
  <2>4. /\ trades' = Append(trades, t) /\ sequence' = sequence
        /\ taker'.sequence = taker.sequence
        /\ resting' = (resting \ {r}) \cup Left(r, quantity)
    BY <2>1, <2>3 DEF FillOf, Order
  <2>5. t.sequence = sequence /\ t.maker = r
    OBVIOUS
  <2> HIDE DEF t
  <2>6. \A i \in DOMAIN trades' : \/ i \in DOMAIN trades /\ trades'[i] = trades[i]
                                 \/ trades'[i] = t
    BY <2>3, <2>4
  <2>7. Dated'
    BY <1>1, <2>2, <2>4, <2>5, <2>6 DEF Dated
  <2>8. ASSUME NEW x \in resting' PROVE \E y \in resting :
          /\ y.id = x.id /\ y.side = x.side /\ y.price = x.price /\ y.sequence = x.sequence
    BY <2>2, <2>4, LeftRows
  <2>9. ASSUME NEW y \in resting, y.side = r.side PROVE ~Prior(y, r)
    <3>1. y \in Facing(taker.side) /\ (y = r \/ Ahead(r, y))
      BY <2>1, <2>9 DEF FillOf, Met, IsBest, Facing
    <3>2. r.price \in Nat /\ y.price \in Nat /\ r.sequence \in Nat /\ y.sequence \in Nat
      BY RowType DEF Row
    <3>3. QED
      BY <2>9, <3>1, <3>2 DEF Ahead, Prior
  <2>10. NobodyPassedOver'
    <3>1. SUFFICES ASSUME NEW x \in resting', NEW i \in DOMAIN trades',
                          trades'[i].maker.side = x.side,
                          x.sequence < trades'[i].sequence
                   PROVE  trades'[i].maker.id = x.id \/ ~Prior(x, trades'[i].maker)
      BY DEF NobodyPassedOver, Prior
    <3>2. PICK y \in resting :
            y.id = x.id /\ y.side = x.side /\ y.price = x.price /\ y.sequence = x.sequence
      BY <2>8
    <3>3. CASE trades'[i] = t
      <4>1. ~Prior(y, r)
        BY <2>5, <2>9, <3>1, <3>2, <3>3
      <4>2. QED
        BY <2>5, <3>2, <3>3, <4>1 DEF Prior
    <3>4. CASE i \in DOMAIN trades /\ trades'[i] = trades[i]
      <4>1. trades[i].maker.id = y.id \/ ~Prior(y, trades[i].maker)
        BY <3>1, <3>2, <3>4 DEF NobodyPassedOver
      <4>2. QED
        BY <3>2, <3>4, <4>1 DEF Prior
    <3>5. QED
      BY <2>6, <3>3, <3>4
  <2>11. QED
    BY <2>7, <2>10
<1>9. QED
  BY <1>3, <1>4, <1>5, <1>6, <1>7, <1>8 DEF Next

(* Nobody trades ahead of an order that waited at a better price, or earlier
   at the same one, and still waits. *)
THEOREM Priority == Spec => []NobodyPassedOver
<1>1. Init => TypeOK /\ Dated /\ NobodyPassedOver
  <2>1. Init => Dated /\ NobodyPassedOver
    BY DEF Init, Dated, NobodyPassedOver
  <2>2. QED
    BY <2>1, TypeInit
<1>2. (TypeOK /\ Dated /\ NobodyPassedOver) /\ [Next]_vars
        => (TypeOK /\ Dated /\ NobodyPassedOver)'
  BY TypeNext, PriorityNext
<1>3. QED
  BY <1>1, <1>2, PTL DEF Spec

-----------------------------------------------------------------------------
HIDE LabBookAssumption

(* Each row comes from an event of its own, and there are finitely many. *)
Apart ==
  /\ IsFiniteSet(resting) /\ Dated
  /\ \A r, x \in resting : r.sequence = x.sequence => r = x
  /\ \A r \in resting : r.sequence <= sequence /\ (taker # Idle => r.sequence < sequence)

(* Every step keeps the rows apart. *)
LEMMA ApartNext == TypeOK /\ Dated' /\ Apart /\ [Next]_vars => Apart'
<1> SUFFICES ASSUME TypeOK, Dated', Apart, [Next]_vars PROVE Apart'
  OBVIOUS
<1>1. sequence \in Nat /\ \A r \in resting : r.sequence \in Nat
  BY RowType DEF TypeOK, Row
<1>2. CASE Submit \/ Finish \/ UNCHANGED vars
  BY <1>1, <1>2 DEF Submit, Finish, vars, Apart, Dated
<1>3. CASE Cancel
  <2>1. PICK o \in resting : resting' = resting \ {o}
    BY <1>3 DEF Cancel
  <2>2. IsFiniteSet(resting')
    BY <2>1, FS_RemoveElement DEF Apart
  <2> QED BY <1>1, <1>3, <2>1, <2>2 DEF Cancel, Apart
<1>4. CASE Rest
  <2>1. taker # Idle /\ resting' = resting \cup {taker} /\ taker' = Idle /\ sequence' = sequence
    BY <1>4 DEF Rest
  <2>2. IsFiniteSet(resting')
    BY <2>1, FS_AddElement DEF Apart
  <2> QED BY <1>1, <2>1, <2>2 DEF Apart, Dated
<1>5. CASE Fill
  <2>1. PICK r \in resting, quantity \in Quantities : FillOf(r, quantity)
    BY <1>5, FillShape
  <2>2. /\ taker # Idle /\ quantity \in Nat \ {0} /\ quantity <= r.remaining
        /\ resting' = (resting \ {r}) \cup Left(r, quantity) /\ sequence' = sequence
    BY <2>1, FillBounds DEF FillOf
  <2>3. IsFiniteSet(resting')
    <3>1. IsFiniteSet(resting \ {r})
      BY FS_RemoveElement DEF Apart
    <3>2. Left(r, quantity) = {} \/ \E x : Left(r, quantity) = {x}
      BY DEF Left
    <3>3. CASE Left(r, quantity) = {}
      BY <2>2, <3>1, <3>3
    <3>4. ASSUME NEW x, Left(r, quantity) = {x} PROVE IsFiniteSet(resting')
      BY <2>2, <3>1, <3>4, FS_AddElement
    <3> QED BY <3>2, <3>3, <3>4
  <2>4. \A x \in resting' : \/ x \in resting \ {r}
                            \/ x \in Left(r, quantity) /\ x.sequence = r.sequence
    BY <2>2, LeftRows, RowType DEF Left, Row
  <2>5. \A x, y \in Left(r, quantity) : x = y
    BY DEF Left
  <2> QED BY <1>1, <2>2, <2>3, <2>4, <2>5 DEF Apart
<1> QED BY <1>2, <1>3, <1>4, <1>5 DEF Next

-----------------------------------------------------------------------------
(* What is reserved, summed over a book that changes. *)

(* What a row reserves for an account: cash if it buys, shares if it sells. *)
CashFor(x, a) == IF x.actor = a /\ x.side = "buy"
                 THEN x.remaining * ReservePerShare(x.price) ELSE 0
SharesFor(x, a) == IF x.actor = a /\ x.side = "sell" THEN x.remaining ELSE 0

(* Both are natural numbers. *)
LEMMA RowReserves ==
  ASSUME TypeOK, NEW x \in Row, NEW a
  PROVE  /\ x.remaining * ReservePerShare(x.price) \in Nat /\ x.remaining \in Nat
         /\ CashFor(x, a) \in Nat /\ SharesFor(x, a) \in Nat
<1>1. x.remaining \in Nat /\ x.price \in Nat
  <2>1. Prices \subseteq Nat /\ MaxQuantity \in Nat
    BY LabBookAssumption
  <2>2. x.remaining \in Quantities /\ x.price \in Prices
    BY DEF Row
  <2>3. x.price \in Nat
    BY <2>1, <2>2
  <2>4. x.remaining \in Nat
    BY <2>1, <2>2 DEF Quantities
  <2> QED BY <2>3, <2>4
<1>2. x.remaining * ReservePerShare(x.price) \in Nat
  BY <1>1, FeeInNat, ProductInNat
<1> QED BY <1>1, <1>2 DEF CashFor, SharesFor

(* One row more, one less, or one in another's place. *)
Swap(old, new, r, z) ==
  /\ old \in SUBSET resting /\ resting' = (resting \ old) \cup new
  /\ new \cap (resting \ old) = {} /\ old \in {{}, {r}} /\ new \in {{}, {z}}

(* What such a change adds to the sums of an account, and takes from them. *)
LEMMA BookSums ==
  ASSUME TypeOK, TypeOK', IsFiniteSet(resting), NEW a \in Accounts,
         NEW old, NEW new, NEW r, NEW z, Swap(old, new, r, z)
  PROVE  /\ SumFunctionOnSet(MayCost', Mine(a, "buy")')
              = SumFunctionOnSet(MayCost, Mine(a, "buy"))
                - (IF old = {} THEN 0 ELSE CashFor(r, a))
                + (IF new = {} THEN 0 ELSE CashFor(z, a))
         /\ SumFunctionOnSet(Unsold', Mine(a, "sell")')
              = SumFunctionOnSet(Unsold, Mine(a, "sell"))
                - (IF old = {} THEN 0 ELSE SharesFor(r, a))
                + (IF new = {} THEN 0 ELSE SharesFor(z, a))
<1> SUFFICES
      ASSUME NEW side \in Sides
      PROVE  /\ side = "buy" =>
                   SumFunctionOnSet(MayCost', Mine(a, side)')
                     = SumFunctionOnSet(MayCost, Mine(a, side))
                       - (IF old = {} THEN 0 ELSE CashFor(r, a))
                       + (IF new = {} THEN 0 ELSE CashFor(z, a))
             /\ side = "sell" =>
                   SumFunctionOnSet(Unsold', Mine(a, side)')
                     = SumFunctionOnSet(Unsold, Mine(a, side))
                       - (IF old = {} THEN 0 ELSE SharesFor(r, a))
                       + (IF new = {} THEN 0 ELSE SharesFor(z, a))
  BY DEF Sides
<1> USE DEF Swap
<1> DEFINE S == Mine(a, side)
           o == {y \in old : y.actor = a /\ y.side = side}
           n == {y \in new : y.actor = a /\ y.side = side}
<1>1. Mine(a, side)' = (S \ o) \cup n
  BY DEF Mine
<1>2. IsFiniteSet(S) /\ o \in SUBSET S /\ n \cap (S \ o) = {} /\ S \subseteq resting
      /\ n \subseteq resting' /\ S \ o \subseteq resting'
  BY FS_Subset DEF Mine
<1>3. IsFiniteSet(n) /\ IsFiniteSet(o)
  <2>1. IsFiniteSet(new) /\ IsFiniteSet(old)
    <3>1. \A y : IsFiniteSet({y})
      BY FS_Singleton
    <3> QED BY <3>1, FS_EmptySet
  <2> QED BY <2>1, FS_Subset
<1>4. \A y \in resting : y \in Row /\ MayCost[y] = y.remaining * ReservePerShare(y.price)
                         /\ Unsold[y] = y.remaining
  BY DEF MayCost, Unsold, TypeOK
<1>5. \A y \in resting' : y \in Row /\ MayCost'[y] = y.remaining * ReservePerShare(y.price)
                          /\ Unsold'[y] = y.remaining
  BY DEF MayCost, Unsold, TypeOK
<1>6. \A y \in Row : /\ y.remaining * ReservePerShare(y.price) \in Int /\ y.remaining \in Int
  BY RowReserves
<1> DEFINE f == MayCost
           g == MayCost'
           h == Unsold
           k == Unsold'
<1>7. /\ \A y \in S : f[y] \in Int /\ h[y] \in Int
      /\ \A y \in S \ o : g[y] = f[y] /\ k[y] = h[y]
      /\ \A y \in n : g[y] \in Int /\ k[y] \in Int
      /\ \A y \in o : f[y] \in Int /\ h[y] \in Int
  BY <1>2, <1>4, <1>5, <1>6
<1>8. /\ o = {} => SumFunctionOnSet(f, o) = 0 /\ SumFunctionOnSet(h, o) = 0
      /\ o # {} => SumFunctionOnSet(f, o) = f[r] /\ SumFunctionOnSet(h, o) = h[r]
  <2>1. CASE o = {}
    BY <2>1, SumEmpty
  <2>2. CASE o # {}
    <3>1. o = {r} /\ f[r] \in Int /\ h[r] \in Int
      BY <1>7, <2>2
    <3> HIDE DEF f, h, o
    <3>2. SumFunctionOnSet(f, {r}) = f[r] /\ SumFunctionOnSet(h, {r}) = h[r]
      BY <3>1, SumOne
    <3> QED BY <2>2, <3>1, <3>2
  <2> QED BY <2>1, <2>2
<1>9. /\ n = {} => SumFunctionOnSet(g, n) = 0 /\ SumFunctionOnSet(k, n) = 0
      /\ n # {} => SumFunctionOnSet(g, n) = g[z] /\ SumFunctionOnSet(k, n) = k[z]
  <2>1. CASE n = {}
    BY <2>1, SumEmpty
  <2>2. CASE n # {}
    <3>1. n = {z} /\ g[z] \in Int /\ k[z] \in Int
      BY <1>7, <2>2
    <3> HIDE DEF g, k, n
    <3>2. SumFunctionOnSet(g, {z}) = g[z] /\ SumFunctionOnSet(k, {z}) = k[z]
      BY <3>1, SumOne
    <3> QED BY <2>2, <3>1, <3>2
  <2> QED BY <2>1, <2>2
<1>10. /\ old # {} => r \in resting /\ (o # {} <=> r.actor = a /\ r.side = side)
       /\ new # {} => z \in resting' /\ (n # {} <=> z.actor = a /\ z.side = side)
       /\ (old = {} => o = {}) /\ (new = {} => n = {})
  OBVIOUS
<1> DEFINE T == (S \ o) \cup n
<1>11. /\ SumFunctionOnSet(g, T)
            = SumFunctionOnSet(f, S) - SumFunctionOnSet(f, o) + SumFunctionOnSet(g, n)
       /\ SumFunctionOnSet(k, T)
            = SumFunctionOnSet(h, S) - SumFunctionOnSet(h, o) + SumFunctionOnSet(k, n)
  <2> HIDE DEF S, o, n, f, g, h, k
  <2> QED BY <1>2, <1>3, <1>7, SumReplace
<1>12. CASE side = "buy"
  <2>1. /\ SumFunctionOnSet(f, o) = IF old = {} THEN 0 ELSE CashFor(r, a)
        /\ SumFunctionOnSet(g, n) = IF new = {} THEN 0 ELSE CashFor(z, a)
    BY <1>4, <1>5, <1>8, <1>9, <1>10, <1>12 DEF CashFor
  <2> QED BY <1>1, <1>11, <1>12, <2>1
<1>13. CASE side = "sell"
  <2>1. /\ SumFunctionOnSet(h, o) = IF old = {} THEN 0 ELSE SharesFor(r, a)
        /\ SumFunctionOnSet(k, n) = IF new = {} THEN 0 ELSE SharesFor(z, a)
    BY <1>4, <1>5, <1>8, <1>9, <1>10, <1>13 DEF SharesFor
  <2> QED BY <1>1, <1>11, <1>13, <2>1
<1> QED BY <1>12, <1>13 DEF Sides


(* What the actions that change the book reserve and release. *)
LEMMA ReserveParts ==
  ASSUME TypeOK, NEW o \in Row, NEW a \in Accounts
  PROVE  /\ Reserving(o)[a].reservedCash = account[a].reservedCash + CashFor(o, a)
         /\ Reserving(o)[a].reservedInventory = account[a].reservedInventory + SharesFor(o, a)
         /\ Released(o)[a].reservedCash = account[a].reservedCash - CashFor(o, a)
         /\ Released(o)[a].reservedInventory = account[a].reservedInventory - SharesFor(o, a)
<1> DEFINE cost == o.remaining * ReservePerShare(o.price)
           n == o.remaining
<1>1. cost \in Nat /\ n \in Nat /\ o.side \in Sides
  BY RowReserves DEF Row
<1>2. /\ account[a].reservedCash \in Int /\ account[a].reservedInventory \in Int
      /\ DOMAIN account = Accounts
  BY DEF TypeOK, Balance
<1>3. /\ CashFor(o, a) = IF o.actor = a /\ o.side = "buy" THEN cost ELSE 0
      /\ SharesFor(o, a) = IF o.actor = a /\ o.side = "sell" THEN n ELSE 0
  BY DEF CashFor, SharesFor
<1>4. /\ Reserving(o)[a] = IF a # o.actor THEN account[a]
                           ELSE IF o.side = "buy" THEN Plus(account[a], 0, 0, cost, 0)
                                                  ELSE Plus(account[a], 0, 0, 0, n)
      /\ Released(o)[a] = IF a # o.actor THEN account[a]
                          ELSE IF o.side = "buy" THEN Plus(account[a], 0, 0, -cost, 0)
                                                 ELSE Plus(account[a], 0, 0, 0, -n)
  BY <1>2 DEF Reserving, Released
<1> HIDE DEF cost, n
<1>5. \A c, m : /\ Plus(account[a], 0, 0, c, m).reservedCash = account[a].reservedCash + c
                /\ Plus(account[a], 0, 0, c, m).reservedInventory
                     = account[a].reservedInventory + m
  BY DEF Plus
<1> QED BY <1>1, <1>2, <1>3, <1>4, <1>5 DEF Sides

(* A fill releases what the filled row reserved and keeps what is left of it
   reserved. *)
LEMMA FillParts ==
  ASSUME TypeOK, NEW r \in resting, NEW quantity \in Quantities, FillOf(r, quantity),
         NEW a \in Accounts
  PROVE  LET x == [r EXCEPT !.remaining = r.remaining - quantity]
             left(f) == IF Left(r, quantity) = {} THEN 0 ELSE f
         IN  /\ account'[a].reservedCash
                  = account[a].reservedCash - CashFor(r, a) + left(CashFor(x, a))
             /\ account'[a].reservedInventory
                  = account[a].reservedInventory - SharesFor(r, a) + left(SharesFor(x, a))
<1>1. /\ r.side \in Sides /\ taker.side \in Sides /\ r.side # taker.side
      /\ r.actor # taker.actor /\ taker # Idle /\ taker.actor \in Accounts
      /\ r.remaining \in Nat /\ quantity \in Nat /\ r.price \in Nat /\ r \in Row
  BY TakerType, RowType, FillBounds DEF FillOf, Met, IsBest, Facing
<1> DEFINE x == [r EXCEPT !.remaining = r.remaining - quantity]
           p == ReservePerShare(r.price)
           n == r.remaining
<1>2. p \in Nat
  BY <1>1, FeeInNat
<1>3. /\ x.actor = r.actor /\ x.side = r.side /\ x.price = r.price /\ x.remaining = n - quantity
      /\ Left(r, quantity) = {} <=> n = quantity
  BY <1>1 DEF Row, Left
<1>4. /\ CashFor(r, a) = IF r.actor = a /\ r.side = "buy" THEN n * p ELSE 0
      /\ CashFor(x, a) = IF r.actor = a /\ r.side = "buy" THEN (n - quantity) * p ELSE 0
      /\ SharesFor(r, a) = IF r.actor = a /\ r.side = "sell" THEN n ELSE 0
      /\ SharesFor(x, a) = IF r.actor = a /\ r.side = "sell" THEN n - quantity ELSE 0
  BY <1>3 DEF CashFor, SharesFor
<1>5. /\ account[a].reservedCash \in Int /\ account[a].reservedInventory \in Int
  BY DEF TypeOK, Balance
<1>6. \A y, c, i, k, m : /\ Plus(y, c, i, k, m).reservedCash = y.reservedCash + k
                         /\ Plus(y, c, i, k, m).reservedInventory = y.reservedInventory + m
  BY DEF Plus
<1>7. /\ account'[a].reservedCash
            = account[a].reservedCash
              + (IF r.actor = a /\ r.side = "buy" THEN -(quantity * p) ELSE 0)
      /\ account'[a].reservedInventory
            = account[a].reservedInventory
              + (IF r.actor = a /\ r.side = "sell" THEN -quantity ELSE 0)
  <2>1. account'[a] = Settled(r, quantity)[a]
    BY DEF FillOf
  <2>2. Settled(r, quantity)[a] =
          IF a = Buyer(r)
            THEN Plus(account[a], -Cost(r.price, quantity), quantity,
                      IF r.side = "buy" THEN -(quantity * p) ELSE 0, 0)
          ELSE IF a = Seller(r)
            THEN Plus(account[a], r.price * quantity - FeeFor(r.price, quantity), -quantity,
                      0, IF r.side = "sell" THEN -quantity ELSE 0)
          ELSE account[a]
    BY DEF Settled
  <2>3. /\ taker.side = "buy" => Buyer(r) = taker.actor /\ Seller(r) = r.actor /\ r.side = "sell"
        /\ taker.side = "sell" => Buyer(r) = r.actor /\ Seller(r) = taker.actor /\ r.side = "buy"
    BY <1>1 DEF Buyer, Seller, Sides
  <2> HIDE DEF p
  <2>4. CASE taker.side = "buy"
    BY <1>1, <1>5, <1>6, <2>1, <2>2, <2>3, <2>4
  <2>5. CASE taker.side = "sell"
    BY <1>1, <1>5, <1>6, <2>1, <2>2, <2>3, <2>5
  <2> QED BY <1>1, <2>4, <2>5 DEF Sides
<1>8. /\ quantity * p \in Int /\ n * p \in Int /\ (n - quantity) * p = n * p - quantity * p
  <2>1. n \in Int /\ quantity \in Int /\ p \in Int
    BY <1>1, <1>2
  <2> HIDE DEF n, p
  <2> QED BY <2>1
<1>9. n \in Int /\ quantity \in Int
  BY <1>1
<1> DEFINE qp == quantity * p
           np == n * p
           dp == (n - quantity) * p
<1>10. qp \in Int /\ np \in Int /\ dp = np - qp /\ (n = quantity => dp = 0)
  BY <1>8
<1>11. /\ CashFor(r, a) = IF r.actor = a /\ r.side = "buy" THEN np ELSE 0
       /\ CashFor(x, a) = IF r.actor = a /\ r.side = "buy" THEN dp ELSE 0
       /\ account'[a].reservedCash = account[a].reservedCash
            + (IF r.actor = a /\ r.side = "buy" THEN -qp ELSE 0)
  BY <1>4, <1>7
<1> HIDE DEF qp, np, dp, n, p, x
<1>12. account'[a].reservedCash = account[a].reservedCash - CashFor(r, a)
         + (IF Left(r, quantity) = {} THEN 0 ELSE CashFor(x, a))
  BY <1>3, <1>5, <1>9, <1>10, <1>11
<1>13. account'[a].reservedInventory = account[a].reservedInventory - SharesFor(r, a)
         + (IF Left(r, quantity) = {} THEN 0 ELSE SharesFor(x, a))
  BY <1>3, <1>4, <1>5, <1>7, <1>9
<1> QED BY <1>12, <1>13 DEF x

(* Every step changes reservations and rows alike. *)
LEMMA ReservesNext ==
  TypeOK /\ TypeOK' /\ Apart /\ ReservesMatchBook /\ [Next]_vars => ReservesMatchBook'
<1> SUFFICES ASSUME TypeOK, TypeOK', Apart, ReservesMatchBook, [Next]_vars,
                    NEW a \in Accounts
             PROVE  /\ account'[a].reservedCash = SumFunctionOnSet(MayCost', Mine(a, "buy")')
                    /\ account'[a].reservedInventory
                         = SumFunctionOnSet(Unsold', Mine(a, "sell")')
  BY DEF ReservesMatchBook
<1>1. /\ account[a].reservedCash = SumFunctionOnSet(MayCost, Mine(a, "buy"))
      /\ account[a].reservedInventory = SumFunctionOnSet(Unsold, Mine(a, "sell"))
      /\ IsFiniteSet(resting) /\ "buy" \in Sides /\ "sell" \in Sides
  BY DEF ReservesMatchBook, Apart, Sides
<1>3. \A r \in resting : r \in Row /\ r.sequence \in Nat
  BY RowType DEF Row
<1>4. CASE Submit \/ Finish \/ UNCHANGED vars
  <2>1. UNCHANGED <<account, resting>>
    BY <1>4 DEF Submit, Finish, vars
  <2> QED BY <1>1, <2>1 DEF MayCost, Unsold, Mine
<1>5. CASE Rest
  <2>1. taker # Idle /\ resting' = resting \cup {taker} /\ account' = Reserving(taker)
    BY <1>5 DEF Rest
  <2>2. taker \in Row /\ taker \notin resting
    BY <1>3, <2>1 DEF Apart, Dated, TypeOK
  <2>3. Swap({}, {taker}, taker, taker)
    BY <2>1, <2>2 DEF Swap
  <2>4. /\ SumFunctionOnSet(MayCost', Mine(a, "buy")')
             = SumFunctionOnSet(MayCost, Mine(a, "buy"))
               - (IF {} = {} THEN 0 ELSE CashFor(taker, a))
               + (IF {taker} = {} THEN 0 ELSE CashFor(taker, a))
        /\ SumFunctionOnSet(Unsold', Mine(a, "sell")')
             = SumFunctionOnSet(Unsold, Mine(a, "sell"))
               - (IF {} = {} THEN 0 ELSE SharesFor(taker, a))
               + (IF {taker} = {} THEN 0 ELSE SharesFor(taker, a))
    BY <1>1, <2>3, BookSums
  <2>5. account[a].reservedCash \in Int /\ account[a].reservedInventory \in Int
    BY DEF TypeOK, Balance
  <2> QED BY <1>1, <2>1, <2>2, <2>4, <2>5, ReserveParts, RowReserves
<1>6. CASE Cancel
  <2>1. PICK o \in resting : resting' = resting \ {o} /\ account' = Released(o)
    BY <1>6 DEF Cancel
  <2>3. Swap({o}, {}, o, o)
    BY <2>1 DEF Swap
  <2>4. /\ SumFunctionOnSet(MayCost', Mine(a, "buy")')
             = SumFunctionOnSet(MayCost, Mine(a, "buy"))
               - (IF {o} = {} THEN 0 ELSE CashFor(o, a))
               + (IF {} = {} THEN 0 ELSE CashFor(o, a))
        /\ SumFunctionOnSet(Unsold', Mine(a, "sell")')
             = SumFunctionOnSet(Unsold, Mine(a, "sell"))
               - (IF {o} = {} THEN 0 ELSE SharesFor(o, a))
               + (IF {} = {} THEN 0 ELSE SharesFor(o, a))
    BY <1>1, <2>3, BookSums
  <2>5. account[a].reservedCash \in Int /\ account[a].reservedInventory \in Int /\ o \in Row
    BY <1>3 DEF TypeOK, Balance
  <2> QED BY <1>1, <2>1, <2>4, <2>5, ReserveParts, RowReserves
<1>7. CASE Fill
  <2>1. PICK r \in resting, quantity \in Quantities : FillOf(r, quantity)
    BY <1>7, FillShape
  <2> DEFINE x == [r EXCEPT !.remaining = r.remaining - quantity]
             old == {r}
             new == Left(r, quantity)
  <2>2. new = {} \/ new = {x}
    BY DEF Left
  <2>3. x.sequence = r.sequence
    BY <1>3 DEF Row
  <2>4. Swap(old, new, r, x)
    <3>1. resting' = (resting \ old) \cup new
      BY <2>1 DEF FillOf
    <3>2. new \cap (resting \ old) = {}
      BY <2>2, <2>3 DEF Apart
    <3> QED BY <2>2, <3>1, <3>2 DEF Swap
  <2>5. /\ account'[a].reservedCash
             = account[a].reservedCash - CashFor(r, a)
               + (IF new = {} THEN 0 ELSE CashFor(x, a))
        /\ account'[a].reservedInventory
             = account[a].reservedInventory - SharesFor(r, a)
               + (IF new = {} THEN 0 ELSE SharesFor(x, a))
    BY <2>1, FillParts
  <2>6. /\ SumFunctionOnSet(MayCost', Mine(a, "buy")')
             = SumFunctionOnSet(MayCost, Mine(a, "buy"))
               - (IF old = {} THEN 0 ELSE CashFor(r, a))
               + (IF new = {} THEN 0 ELSE CashFor(x, a))
        /\ SumFunctionOnSet(Unsold', Mine(a, "sell")')
             = SumFunctionOnSet(Unsold, Mine(a, "sell"))
               - (IF old = {} THEN 0 ELSE SharesFor(r, a))
               + (IF new = {} THEN 0 ELSE SharesFor(x, a))
    <3> HIDE DEF old, new, x
    <3> QED BY <1>1, <2>4, BookSums
  <2> HIDE DEF new, x
  <2> QED BY <1>1, <2>5, <2>6
<1> QED BY <1>4, <1>5, <1>6, <1>7 DEF Next

(* At the start nothing rests and nothing is reserved. *)
LEMMA ReservesInit == Init => ReservesMatchBook /\ Apart
<1> SUFFICES ASSUME Init PROVE ReservesMatchBook /\ Apart
  OBVIOUS
<1>1. \A a, side : Mine(a, side) = {}
  BY DEF Init, Mine
<1>2. Apart
  BY FS_EmptySet DEF Init, Apart, Dated
<1>3. \A a \in Accounts : account[a].reservedCash = 0 /\ account[a].reservedInventory = 0
  BY DEF Init
<1> QED BY <1>1, <1>2, <1>3, SumEmpty DEF ReservesMatchBook

(* What an account has reserved is, share for share, what its resting orders may
   still cost it (assertReservations). *)
THEOREM ReservationsExact == Spec => []ReservesMatchBook
<1>1. Init => ReservesMatchBook /\ Apart
  BY ReservesInit
<1>2. TypeOK /\ (Dated /\ NobodyPassedOver) /\ (ReservesMatchBook /\ Apart) /\ [Next]_vars
        => (ReservesMatchBook /\ Apart)'
  BY TypeNext, PriorityNext, ApartNext, ReservesNext
<1>3. Spec => [](Dated /\ NobodyPassedOver)
  <2>1. Init => Dated /\ NobodyPassedOver
    BY DEF Init, Dated, NobodyPassedOver
  <2>2. TypeOK /\ (Dated /\ NobodyPassedOver) /\ [Next]_vars => (Dated /\ NobodyPassedOver)'
    BY PriorityNext
  <2> QED BY <2>1, <2>2, TypeCorrect, PTL DEF Spec
<1> QED BY <1>1, <1>2, <1>3, TypeCorrect, PTL DEF Spec


(* What the actions do to cash and shares of an account. *)
LEMMA BookKeeps ==
  ASSUME TypeOK, Rest \/ Cancel
  PROVE  Cash' = Cash /\ Shares' = Shares
<1>1. \E o \in Row : account' \in {Reserving(o), Released(o)}
  <2>1. CASE Rest
    <3>1. taker \in Row
      BY TakerType, <2>1, LabBookAssumption DEF Rest, Unmet, Order, Row, Quantities
    <3> QED BY <2>1, <3>1 DEF Rest
  <2>2. CASE Cancel
    BY <2>2 DEF Cancel, TypeOK
  <2> QED BY <2>1, <2>2
<1>2. PICK o \in Row : account' \in {Reserving(o), Released(o)}
  BY <1>1
<1>3. ASSUME NEW a \in Accounts
      PROVE  account'[a].cash = account[a].cash /\ account'[a].inventory = account[a].inventory
  <2>1. account[a].cash \in Int /\ account[a].inventory \in Int /\ DOMAIN account = Accounts
    BY DEF TypeOK, Balance
  <2>2. \E k, m : account'[a] \in {account[a], Plus(account[a], 0, 0, k, m)}
    BY <1>2, <2>1 DEF Reserving, Released
  <2> QED BY <2>1, <2>2 DEF Plus
<1> QED BY <1>3 DEF Cash, Shares

(* A fill moves its gross from buyer to seller, a fee of each to the pool, and
   its shares the other way. *)
LEMMA FillMoves ==
  ASSUME TypeOK, NEW r \in resting, NEW quantity \in Quantities, FillOf(r, quantity)
  PROVE  \E b, s \in Accounts : \E gross \in Int, fee \in Int :
           /\ b # s /\ quantity \in Int
           /\ feePool' = feePool + 2 * fee
           /\ Cash' = [[Cash EXCEPT ![b] = Cash[b] - (gross + fee)]
                         EXCEPT ![s] = Cash[s] + (gross - fee)]
           /\ Shares' = [[Shares EXCEPT ![b] = Shares[b] + quantity]
                           EXCEPT ![s] = Shares[s] - quantity]
<1> DEFINE b == Buyer(r)
           s == Seller(r)
           gross == r.price * quantity
           fee == FeeFor(r.price, quantity)
<1>1. /\ r.actor # taker.actor /\ taker.actor \in Accounts /\ r.actor \in Accounts
      /\ quantity \in Nat /\ r.price \in Nat
  BY TakerType, RowType, FillBounds DEF FillOf, Met
<1>2. b \in Accounts /\ s \in Accounts /\ b # s
  BY <1>1 DEF Buyer, Seller
<1>3. gross \in Nat /\ fee \in Nat
  <2>1. FeeFor(r.price, quantity) \in Nat
    BY <1>1, FeeInNat
  <2>2. r.price * quantity \in Nat
    BY <1>1, ProductInNat
  <2> QED BY <2>1, <2>2
<1>4. account \in [Accounts -> Balance]
  BY DEF TypeOK
<1>5. \A a \in Accounts : account[a].cash \in Int /\ account[a].inventory \in Int
  BY <1>4 DEF Balance
<1>6. Cost(r.price, quantity) = gross + fee
  BY DEF Cost
<1>7. \A a \in Accounts :
        /\ a = b => \E k : account'[a] = Plus(account[a], -(gross + fee), quantity, k, 0)
        /\ a = s => \E k : account'[a] = Plus(account[a], gross - fee, -quantity, 0, k)
        /\ a # b /\ a # s => account'[a] = account[a]
  BY <1>2, <1>6 DEF FillOf, Settled
<1> HIDE DEF b, s, gross, fee
<1>8. \A a \in Accounts :
        /\ account'[a].cash = IF a = b THEN account[a].cash - (gross + fee)
                              ELSE IF a = s THEN account[a].cash + (gross - fee)
                              ELSE account[a].cash
        /\ account'[a].inventory = IF a = b THEN account[a].inventory + quantity
                                   ELSE IF a = s THEN account[a].inventory - quantity
                                   ELSE account[a].inventory
  <2> TAKE a \in Accounts
  <2>1. \A x, c, i, k, m : /\ Plus(x, c, i, k, m).cash = x.cash + c
                           /\ Plus(x, c, i, k, m).inventory = x.inventory + i
    BY DEF Plus
  <2>2. CASE a = b
    <3>1. account'[a].cash = account[a].cash + -(gross + fee)
          /\ account'[a].inventory = account[a].inventory + quantity
      BY <1>7, <2>1, <2>2
    <3> QED BY <1>1, <1>3, <1>5, <2>2, <3>1
  <2>3. CASE a = s
    <3>1. account'[a].cash = account[a].cash + (gross - fee)
          /\ account'[a].inventory = account[a].inventory + -quantity
      BY <1>7, <2>1, <2>3
    <3> QED BY <1>1, <1>2, <1>3, <1>5, <2>3, <3>1
  <2> QED BY <1>7, <2>2, <2>3
<1>9. Cash' = [[Cash EXCEPT ![b] = Cash[b] - (gross + fee)]
                 EXCEPT ![s] = Cash[s] + (gross - fee)]
  BY <1>2, <1>8 DEF Cash
<1>10. Shares' = [[Shares EXCEPT ![b] = Shares[b] + quantity]
                    EXCEPT ![s] = Shares[s] - quantity]
  BY <1>2, <1>8 DEF Shares
<1>11. feePool' = feePool + 2 * fee
  BY DEF FillOf, Pooled, fee
<1>12. gross \in Int /\ fee \in Int /\ quantity \in Int /\ b \in Accounts /\ s \in Accounts
  BY <1>1, <1>2, <1>3
<1> QED BY <1>2, <1>9, <1>10, <1>11, <1>12, Zenon

(* No step makes or loses money or shares. *)
LEMMA ConservedNext == TypeOK /\ Conserved /\ [Next]_vars => Conserved'
<1> SUFFICES ASSUME TypeOK, Conserved, [Next]_vars PROVE Conserved'
  OBVIOUS
<1> USE DEF Conserved
<1>1. /\ IsFiniteSet(Accounts) /\ Cash \in [Accounts -> Int] /\ Shares \in [Accounts -> Int]
      /\ feePool \in Int
  BY LabBookAssumption DEF TypeOK, Balance, Cash, Shares
<1>2. CASE Submit \/ Finish \/ UNCHANGED vars
  <2>1. UNCHANGED <<account, feePool>>
    BY <1>2 DEF Submit, Finish, vars
  <2> QED BY <2>1 DEF Cash, Shares
<1>3. CASE Rest \/ Cancel
  <2>1. Cash' = Cash /\ Shares' = Shares /\ feePool' = feePool
    BY <1>3, BookKeeps DEF Rest, Cancel
  <2> QED BY <2>1
<1>4. CASE Fill
  <2>1. PICK r \in resting, quantity \in Quantities : FillOf(r, quantity)
    BY <1>4, FillShape
  <2>2. PICK b \in Accounts, s \in Accounts, gross \in Int, fee \in Int :
           /\ b # s /\ quantity \in Int
           /\ feePool' = feePool + 2 * fee
           /\ Cash' = [[Cash EXCEPT ![b] = Cash[b] - (gross + fee)]
                         EXCEPT ![s] = Cash[s] + (gross - fee)]
           /\ Shares' = [[Shares EXCEPT ![b] = Shares[b] + quantity]
                           EXCEPT ![s] = Shares[s] - quantity]
    BY <2>1, FillMoves
  <2>3. /\ Cash' \in [Accounts -> Int] /\ Shares' \in [Accounts -> Int]
        /\ Cash'[b] = Cash[b] - (gross + fee) /\ Cash'[s] = Cash[s] + (gross - fee)
        /\ Shares'[b] = Shares[b] + quantity /\ Shares'[s] = Shares[s] - quantity
        /\ \A x \in Accounts \ {b, s} : Cash'[x] = Cash[x] /\ Shares'[x] = Shares[x]
        /\ Cash[b] \in Int /\ Cash[s] \in Int /\ Shares[b] \in Int /\ Shares[s] \in Int
    BY <1>1, <2>2
  <2> DEFINE c == Cash
             d == Cash'
             h == Shares
             k == Shares'
  <2>5. /\ SumFunction(d) = SumFunction(c) - c[b] - c[s] + d[b] + d[s]
        /\ SumFunction(k) = SumFunction(h) - h[b] - h[s] + k[b] + k[s]
    <3>1. /\ c \in [Accounts -> Int] /\ d \in [Accounts -> Int]
          /\ h \in [Accounts -> Int] /\ k \in [Accounts -> Int]
          /\ \A x \in Accounts \ {b, s} : d[x] = c[x]
          /\ \A x \in Accounts \ {b, s} : k[x] = h[x]
      BY <1>1, <2>3
    <3>2. IsFiniteSet(Accounts) /\ b # s
      BY <1>1, <2>2
    <3> HIDE DEF c, d, h, k
    <3>3. SumFunction(d) = SumFunction(c) - c[b] - c[s] + d[b] + d[s]
      BY <3>1, <3>2, SumTwo
    <3>4. SumFunction(k) = SumFunction(h) - h[b] - h[s] + k[b] + k[s]
      BY <3>1, <3>2, SumTwo
    <3> QED BY <3>3, <3>4
  <2>6. SumFunction(Cash) \in Int /\ SumFunction(Shares) \in Int
    <3>1. \A f \in [Accounts -> Int] : SumFunction(f) \in Int
      BY <1>1, SumInt DEF SumFunction
    <3> QED BY <1>1, <3>1
  <2>8. SumFunction(Cash') + feePool' = SumFunction(Cash) + feePool
    BY <1>1, <2>2, <2>3, <2>5, <2>6
  <2>9. SumFunction(Shares') = SumFunction(Shares)
    BY <2>2, <2>3, <2>5, <2>6
  <2> QED BY <2>8, <2>9
<1> QED BY <1>2, <1>3, <1>4 DEF Next

(* The accounts start with what they are given. *)
LEMMA ConservedInit == Init => Conserved
<1> SUFFICES ASSUME Init PROVE Conserved
  OBVIOUS
<1>1. /\ Cash = [a \in Accounts |-> Start[a].cash]
      /\ Shares = [a \in Accounts |-> Start[a].inventory]
  BY DEF Init, Cash, Shares
<1>2. DOMAIN Cash = Accounts /\ \A a \in Accounts : Cash[a] \in Int
  BY <1>1, LabBookAssumption
<1>3. SumFunction(Cash) \in Int
  BY <1>2, SumInt, LabBookAssumption DEF SumFunction
<1> QED BY <1>1, <1>3 DEF Init, Conserved

(* Whatever is traded, rested and cancelled, money only moves between the
   accounts and the fee pool, and shares between accounts (executeFill). *)
THEOREM MoneyStays == Spec => []Conserved
<1>1. TypeOK /\ Conserved /\ [Next]_vars => Conserved'
  BY ConservedNext
<1> QED BY ConservedInit, <1>1, TypeCorrect, PTL DEF Spec


(* One step of the binary search, and the searches that take such steps. *)
Halves(f, a, price, range) ==
  LET low  == range[1]
      high == range[2]
      mid  == CeilDiv(low + high, 2)
  IN  IF low >= high THEN low
      ELSE IF Cost(price, mid) <= FreeCash(a) THEN f[<<mid, high>>]
      ELSE f[<<low, mid - 1>>]
Ranges(cap) == (0..cap) \X (0..cap)
IsSearch(f, a, price, cap) ==
  f = [range \in Ranges(cap) |-> Halves(f, a, price, range)]

(* The search is one of the functions that take such steps. *)
LEMMA SearchDef ==
  ASSUME NEW a, NEW price, NEW cap
  PROVE  Affordable(a, price, cap) = (CHOOSE f : IsSearch(f, a, price, cap))[<<0, cap>>]
BY DEF Affordable, IsSearch, Halves, Ranges

(* The middle of two numbers, rounded up, is above the lower one. *)
LEMMA MidBounds ==
  ASSUME NEW low \in Nat, NEW high \in Nat, low < high
  PROVE  CeilDiv(low + high, 2) \in Nat /\ low < CeilDiv(low + high, 2)
         /\ CeilDiv(low + high, 2) <= high
BY DEF CeilDiv

(* The half of a range where the search goes on. *)
Half(a, price, range) ==
  LET low  == range[1]
      high == range[2]
      mid  == CeilDiv(low + high, 2)
  IN  IF Cost(price, mid) <= FreeCash(a) THEN <<mid, high>> ELSE <<low, mid - 1>>

(* A step returns the low end of a range without width, and else searches on. *)
LEMMA HalvesIs ==
  ASSUME NEW f, NEW a, NEW price, NEW range
  PROVE  /\ range[1] >= range[2] => Halves(f, a, price, range) = range[1]
         /\ ~(range[1] >= range[2]) => Halves(f, a, price, range) = f[Half(a, price, range)]
BY DEF Halves, Half

(* That half lies in the range and is shorter. *)
Narrower(a, price, range, next) ==
  /\ next[2] - next[1] < range[2] - range[1]
  /\ \/ /\ next[2] = range[2] /\ next[1] > 0 /\ next[1] <= next[2]
        /\ Cost(price, next[1]) <= FreeCash(a)
     \/ /\ next[1] = range[1] /\ next[1] <= next[2]
        /\ ~(Cost(price, next[2] + 1) <= FreeCash(a))

(* So it is. *)
LEMMA HalfIsShorter ==
  ASSUME NEW a, NEW price, NEW cap \in Nat, NEW range \in Ranges(cap),
         ~(range[1] >= range[2])
  PROVE  Half(a, price, range) \in Ranges(cap) /\ Narrower(a, price, range, Half(a, price, range))
<1> DEFINE low == range[1]
           high == range[2]
           mid == CeilDiv(low + high, 2)
<1>1. low \in 0..cap /\ high \in 0..cap
  BY DEF Ranges
<1>2. low < high
  BY <1>1
<1>3. Half(a, price, range)
          = IF Cost(price, mid) <= FreeCash(a) THEN <<mid, high>> ELSE <<low, mid - 1>>
  BY DEF Half
<1>4. low = range[1] /\ high = range[2]
  OBVIOUS
<1> HIDE DEF low, high
<1>5. low \in Nat /\ high \in Nat
  BY <1>1
<1>6. mid \in Nat /\ low < mid /\ mid <= high
  BY <1>2, <1>5, MidBounds
<1> HIDE DEF mid
<1>7. mid \in 0..cap /\ mid - 1 \in 0..cap
  BY <1>1, <1>5, <1>6
<1>8. CASE Cost(price, mid) <= FreeCash(a)
  <2> DEFINE next == <<mid, high>>
  <2>1. next[1] = mid /\ next[2] = high /\ next \in Ranges(cap)
    BY <1>1, <1>7 DEF Ranges
  <2>2. Half(a, price, range) = next
    BY <1>3, <1>8
  <2> HIDE DEF next
  <2>3. next[2] - next[1] < range[2] - range[1]
    BY <1>4, <1>5, <1>6, <2>1
  <2>4. next[2] = range[2] /\ next[1] > 0 /\ next[1] <= next[2]
    BY <1>4, <1>5, <1>6, <2>1
  <2> QED BY <1>8, <2>1, <2>2, <2>3, <2>4 DEF Narrower
<1>9. CASE ~(Cost(price, mid) <= FreeCash(a))
  <2> DEFINE next == <<low, mid - 1>>
  <2>1. next[1] = low /\ next[2] = mid - 1 /\ next \in Ranges(cap)
    BY <1>1, <1>7 DEF Ranges
  <2>2. Half(a, price, range) = next
    BY <1>3, <1>9
  <2> HIDE DEF next
  <2>3. next[2] - next[1] < range[2] - range[1]
    BY <1>4, <1>5, <1>6, <2>1
  <2>4. next[1] = range[1] /\ next[1] <= next[2] /\ next[2] + 1 = mid
    BY <1>4, <1>5, <1>6, <2>1
  <2> QED BY <1>9, <2>1, <2>2, <2>3, <2>4 DEF Narrower
<1> QED BY <1>8, <1>9

(* There is such a search: each length is computed from the shorter ones. *)
LEMMA SearchExists ==
  ASSUME NEW a, NEW price, NEW cap \in Nat
  PROVE  \E f : IsSearch(f, a, price, cap)
<1> DEFINE D == Ranges(cap)
           Step(f) == [range \in D |-> Halves(f, a, price, range)]
           Deep(f, n) == \A range \in D : range[2] - range[1] <= n =>
                           f[range] = Halves(f, a, price, range)
           Bad == {n \in Nat : ~ \E f : Deep(f, n)}
<1>1. \A range \in D : range[1] \in 0..cap /\ range[2] \in 0..cap
  BY DEF Ranges
<1>2. ASSUME NEW f, NEW n \in Int, Deep(f, n) PROVE Deep(Step(f), n + 1)
  <2> DEFINE g == Step(f)
  <2>1. \A range \in D : g[range] = Halves(f, a, price, range)
    OBVIOUS
  <2>2. ASSUME NEW range \in D, range[2] - range[1] <= n + 1
        PROVE  g[range] = Halves(g, a, price, range)
    <3> HIDE DEF g
    <3>1. CASE range[1] >= range[2]
      <4>1. Halves(f, a, price, range) = range[1] /\ Halves(g, a, price, range) = range[1]
        BY <3>1, HalvesIs
      <4> QED BY <2>1, <4>1
    <3>2. CASE ~(range[1] >= range[2])
      <4> DEFINE next == Half(a, price, range)
      <4>1. next \in D /\ next[2] - next[1] < range[2] - range[1]
        BY <3>2, HalfIsShorter DEF Narrower
      <4>2. /\ Halves(f, a, price, range) = f[next]
            /\ Halves(g, a, price, range) = g[next]
        BY <3>2, HalvesIs
      <4> HIDE DEF next
      <4>3. next[2] - next[1] <= n
        BY <1>1, <2>2, <4>1
      <4>4. f[next] = Halves(f, a, price, next) /\ g[next] = Halves(f, a, price, next)
        BY <1>2, <2>1, <4>1, <4>3
      <4> QED BY <2>1, <4>2, <4>4
    <3> QED BY <3>1, <3>2
  <2> QED BY <2>2
<1>3. Bad = {}
  <2> SUFFICES ASSUME Bad # {} PROVE FALSE
    OBVIOUS
  <2>1. PICK n \in Bad : \A m \in Bad : n <= m
    <3>1. Bad \in SUBSET Nat
      OBVIOUS
    <3> HIDE DEF Bad
    <3> QED BY <3>1, LeastNumber
  <2>2. CASE n = 0
    <3> DEFINE f == [range \in D |-> range[1]]
    <3>1. ASSUME NEW range \in D, range[2] - range[1] <= 0
          PROVE  f[range] = Halves(f, a, price, range)
      <4>1. f[range] = range[1]
        OBVIOUS
      <4> HIDE DEF f, Deep, Step, Bad
      <4>2. range[1] \in 0..cap /\ range[2] \in 0..cap
        BY <1>1
      <4> HIDE DEF D
      <4>3. range[1] >= range[2]
        BY <3>1, <4>2
      <4>4. Halves(f, a, price, range) = range[1]
        BY <4>3, HalvesIs
      <4> QED BY <4>1, <4>4
    <3>2. Deep(f, 0)
      BY <3>1
    <3> QED BY <2>1, <2>2, <3>2
  <2>3. CASE n # 0
    <3>1. n - 1 \in Nat /\ n - 1 \notin Bad
      BY <2>1, <2>3
    <3>2. PICK f : Deep(f, n - 1)
      BY <3>1
    <3>3. n - 1 \in Int /\ (n - 1) + 1 = n
      BY <2>1
    <3> HIDE DEF Deep, Step
    <3>4. Deep(Step(f), (n - 1) + 1)
      BY <1>2, <3>2, <3>3
    <3>5. Deep(Step(f), n)
      BY <3>3, <3>4
    <3> QED BY <2>1, <3>5
  <2> QED BY <2>2, <2>3
<1>4. PICK f : Deep(f, cap)
  BY <1>3
<1>5. \A range \in D : Step(f)[range] = Halves(Step(f), a, price, range)
  <2>1. Deep(Step(f), cap + 1)
    BY <1>2, <1>4
  <2> QED BY <1>1, <2>1
<1>6. IsSearch(Step(f), a, price, cap)
  <2> DEFINE g == Step(f)
             h == [range \in D |-> Halves(g, a, price, range)]
  <2>1. \A range \in D : g[range] = h[range]
    <3> HIDE DEF g
    <3> QED BY <1>5 DEF g
  <2>2. g = [range \in D |-> g[range]] /\ h = [range \in D |-> h[range]]
    OBVIOUS
  <2>3. g = h
    <3> HIDE DEF g, h
    <3> QED BY <2>1, <2>2
  <2> HIDE DEF g
  <2>4. IsSearch(g, a, price, cap)
    BY <2>3 DEF IsSearch
  <2> QED BY <2>4 DEF g
<1> QED BY <1>6

(* What the search of a range returns: the most shares within it that can be
   paid, if none or its lower end can be, and the share after it cannot. *)
Around(a, price, cap, range) ==
  /\ range[1] <= range[2]
  /\ range[1] > 0 => Cost(price, range[1]) <= FreeCash(a)
  /\ range[2] < cap => Cost(price, range[2] + 1) > FreeCash(a)

(* Whatever the range, that is what is found: the smallest range for which it
   were not would have a smaller one. *)
LEMMA SearchFinds ==
  ASSUME NEW a, FreeCash(a) \in Int, NEW price \in Nat, NEW cap \in Nat, NEW f,
         IsSearch(f, a, price, cap), NEW range \in Ranges(cap), Around(a, price, cap, range)
  PROVE  Pays(a, price, cap, f[range])
<1> DEFINE Bad == {n \in Nat : \E r \in Ranges(cap) :
                     /\ n = r[2] - r[1] /\ Around(a, price, cap, r)
                     /\ ~Pays(a, price, cap, f[r])}
<1>1. \A r \in Ranges(cap) : r[1] \in 0..cap /\ r[2] \in 0..cap
  BY DEF Ranges
<1>2. \A r \in Ranges(cap) : f[r] = Halves(f, a, price, r)
  BY DEF IsSearch
<1>3. Bad = {}
  <2> SUFFICES ASSUME Bad # {} PROVE FALSE
    OBVIOUS
  <2>1. PICK n \in Bad : \A m \in Bad : n <= m
    <3>1. Bad \in SUBSET Nat
      OBVIOUS
    <3> HIDE DEF Bad
    <3> QED BY <3>1, LeastNumber
  <2>2. PICK r \in Ranges(cap) : /\ n = r[2] - r[1] /\ Around(a, price, cap, r)
                                 /\ ~Pays(a, price, cap, f[r])
    BY <2>1
  <2>3. CASE r[1] >= r[2]
    <3>1. f[r] = r[1]
      BY <1>2, <2>3, HalvesIs
    <3>2. r[1] = r[2]
      BY <1>1, <2>2, <2>3 DEF Around
    <3> QED BY <1>1, <2>2, <3>1, <3>2 DEF Around, Pays
  <2>4. CASE ~(r[1] >= r[2])
    <3> DEFINE next == Half(a, price, r)
    <3>1. next \in Ranges(cap) /\ Narrower(a, price, r, next) /\ f[r] = f[next]
      BY <1>2, <2>4, HalvesIs, HalfIsShorter
    <3> HIDE DEF next
    <3>2. \A q \in Nat : Cost(price, q) \in Int
      BY FeeInNat, LabBookAssumption
    <3>3. Around(a, price, cap, next)
      BY <1>1, <2>2, <3>1, <3>2 DEF Around, Narrower
    <3>4. ~Pays(a, price, cap, f[next])
      BY <1>2, <2>2, <3>1
    <3>5. next[2] - next[1] \in Bad
      BY <1>1, <3>1, <3>3, <3>4 DEF Around
    <3> QED BY <1>1, <2>1, <2>2, <3>1, <3>5 DEF Narrower
  <2> QED BY <2>3, <2>4
<1> QED BY <1>1, <1>3 DEF Around

(* Whatever cash is free, the binary search of affordableQuantity finds the most
   shares it pays for. *)
THEOREM SearchRight == Spec => []SearchFindsMost
<1>1. TypeOK => SearchFindsMost
  <2> SUFFICES ASSUME TypeOK, NEW a \in Accounts, NEW p \in Prices, NEW cap \in 0..MaxQuantity
               PROVE  Pays(a, p, cap, Affordable(a, p, cap))
    BY DEF SearchFindsMost
  <2>1. p \in Nat /\ cap \in Nat /\ FreeCash(a) \in Int
    BY LabBookAssumption DEF TypeOK, Balance, FreeCash
  <2> DEFINE f == CHOOSE f : IsSearch(f, a, p, cap)
             all == <<0, cap>>
  <2>2. IsSearch(f, a, p, cap)
    BY <2>1, SearchExists
  <2> HIDE DEF f
  <2>3. all \in Ranges(cap) /\ Around(a, p, cap, all)
    BY <2>1 DEF Ranges, Around
  <2> HIDE DEF all
  <2>4. Pays(a, p, cap, f[all])
    BY <2>1, <2>2, <2>3, SearchFinds
  <2> QED BY <2>4, SearchDef DEF f, all
<1> QED BY <1>1, TypeCorrect, PTL
=============================================================================

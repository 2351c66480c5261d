--------------------------- MODULE MCTradingEngine ---------------------------
(***************************************************************************)
(* Instances of TradingEngine for TLC.  A day of trading is a set of       *)
(* scenes; a behaviour plays the orders of one of them.                    *)
(***************************************************************************)
EXTENDS TradingInvariants, TLC

Order(acct, side, type, price, trigger, qty, key) ==
  [acct |-> acct, side |-> side, type |-> type, price |-> price,
   trigger |-> trigger, qty |-> qty, key |-> key]

Cash   == [a \in Accounts |-> 40]
MoreCash == [a \in Accounts |-> 60]
Shares == [a \in Accounts |-> 2]

(* c: two limit orders that cross, the second of which is sent twice.
   t: a stop and a stop-limit, and a sale the stop may leave too few shares. *)
ClientOrders ==
  ("c1" :> Order("ann", "sell", "limit", 11, 0, 2, "none")) @@
  ("c2" :> Order("bob", "buy",  "limit", 11, 0, 3, "k1")) @@
  ("c3" :> Order("bob", "buy",  "limit", 11, 0, 3, "k1")) @@
  ("t1" :> Order("ann", "sell", "stop", 0, 10, 2, "none")) @@
  ("t2" :> Order("ann", "buy",  "stop-limit", 12, 11, 2, "none")) @@
  ("t3" :> Order("ann", "sell", "limit", 11, 0, 2, "none"))
ClientScenes == {{"c1", "c2", "c3"}, {"t1", "t2", "t3"}}

(* Orders on the book of ann's forced sale.  With quotes for two shares buying
   o3 leaves bob too little cash for o1. *)
ForcedSale ==
  ("o1" :> Order("bob", "buy", "limit", 10, 0, 2, "none")) @@
  ("o2" :> Order("cid", "buy", "limit", 10, 0, 2, "none")) @@
  ("o3" :> Order("bob", "buy", "fok", 11, 0, 2, "none")) @@
  ("o4" :> Order("cid", "buy", "ioc", 11, 0, 1, "none"))
ForcedScenes == {{"o1", "o2", "o3"}, {"o1", "o2", "o4"}}

(* The same with a purchase the quotes cannot fill, and orders for AI market
   sales and purchases: one player each. *)
FaultOrders ==
  ForcedSale @@
  ("o5" :> Order("cid", "buy", "fok", 11, 0, 3, "none")) @@
  ("p1" :> Order("ann", "sell", "limit", 12, 0, 2, "none")) @@
  ("p2" :> Order("bob", "buy",  "limit", 9, 0, 2, "none")) @@
  ("p3" :> Order("cid", "buy",  "market", 0, 0, 2, "none"))
FaultScenes == {{"o1", "o2", "o3"}, {"o1", "o5"}, {"p1", "p2", "p3"}}
AgentMarketOrders == {[side |-> "buy", qty |-> 3]}
AgentBuys == {[side |-> "buy", qty |-> 1]}

(* The order form sends a price with every stop order. *)
PricedStop ==
  ("o1" :> Order("ann", "sell", "stop", 9, 9, 1, "none")) @@
  ("o2" :> Order("bob", "buy",  "limit", 9, 0, 1, "none"))

(* A stop fills a resting order that the same sweep has already loaded. *)
StaleCopy ==
  ("o1" :> Order("ann", "sell", "limit", 10, 0, 1, "none")) @@
  ("o2" :> Order("bob", "buy",  "stop", 0, 11, 1, "none"))

(* A player's offer, of which a player and the AI traders each buy a share. *)
AgentRace ==
  ("o1" :> Order("ann", "sell", "limit", 12, 0, 2, "none")) @@
  ("o2" :> Order("cid", "buy",  "ioc", 12, 0, 2, "none"))

Together == {Orders}

=============================================================================

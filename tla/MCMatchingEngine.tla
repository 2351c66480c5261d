--------------------------- MODULE MCMatchingEngine ---------------------------
(***************************************************************************)
(* An instance of MatchingEngine: an iceberg of ann, an offer of bob and a *)
(* market maker's offer on one side, and takers of every kind.             *)
(***************************************************************************)
EXTENDS MatchingInvariants, TLC

Offer(acct, price, qty, display, virtual, expires) ==
  [acct |-> acct, side |-> "ask", price |-> price, qty |-> qty,
   display |-> display, virtual |-> virtual, expires |-> expires]

Book1 ==
  ("ice" :> Offer("ann", 11, 3, 2, FALSE, 0)) @@
  ("off" :> Offer("bob", 11, 1, 1, FALSE, 0)) @@
  ("mm"  :> Offer("maker", 10, 1, 1, TRUE, 1))
Ladder1 == <<"level1">>
Owners == [i \in {"ice", "off", "mm", "level1"} |->
             IF i = "level1" THEN "external" ELSE Book1[i].acct]

Reduce1 == ("ice" :> {2}) @@ ("off" :> {}) @@ ("mm" :> {})

Take1(acct, qty, limit, quotes, all, defer) ==
  [acct |-> acct, side |-> "buy", qty |-> qty, limit |-> limit,
   quotes |-> quotes, all |-> all, defer |-> defer]
Takers1 == {
  Take1("bob", 5, 11, TRUE, FALSE, TRUE),     \* a limit order, next to his own offer
  Take1("none", 3, 0, FALSE, FALSE, FALSE)}   \* an AI trader

=============================================================================

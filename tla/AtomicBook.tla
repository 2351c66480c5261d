------------------------------ MODULE AtomicBook ------------------------------
(***************************************************************************)
(* What the matching engine promises to its callers about one symbol: the  *)
(* book is a quantity per order and a set of quotes; an execution takes    *)
(* from it at once; a reserved execution is decided later, and whichever   *)
(* way it is decided the book is as if every change asked for meanwhile    *)
(* had come after it, none lost and none applied twice.  The owner of a    *)
(* virtual order hears of a fill when, and only when, it is final.         *)
(***************************************************************************)
EXTENDS Integers

CONSTANTS Orders, Virtual, Qty, Expiry, Mids, Quotes, MaxTick

VARIABLES
  book,         \* [left: [Orders -> Nat], quotes: set of quotes]
  busy,         \* an execution waits for its settlement
  ifCommitted, ifRolledBack,   \* what the book will be; the book when not busy
  pending,      \* what the waiting execution took
  told          \* what the owners of virtual orders have heard of

vars == <<book, busy, ifCommitted, ifRolledBack, pending, told>>

Nothing == [o \in Orders |-> 0]

Init ==
  /\ book = [left |-> Nothing, quotes |-> {}]
  /\ ifCommitted = book /\ ifRolledBack = book
  /\ ~busy /\ pending = Nothing /\ told = Nothing

Change(changed(_)) ==
  /\ UNCHANGED <<busy, pending, told>>
  /\ book' = IF busy THEN book ELSE changed(book)
  /\ ifCommitted' = changed(ifCommitted) /\ ifRolledBack' = changed(ifRolledBack)

Place(o)     == Change(LAMBDA b : [b EXCEPT !.left[o] = @ + Qty[o]])
Remove(o)    == Change(LAMBDA b : [b EXCEPT !.left[o] = 0])
Reduce(o, n) == Change(LAMBDA b : [b EXCEPT !.left[o] = IF n < @ THEN @ - n ELSE 0])
Refresh(mid) == Change(LAMBDA b : [b EXCEPT !.quotes = Quotes[mid]])
Prune(tick)  ==
  Change(LAMBDA b : [b EXCEPT !.left =
           [o \in Orders |-> IF o \in Virtual /\ Expiry[o] <= tick THEN 0 ELSE b.left[o]]])

(* The book shrinks; which rows give how much is FinitePlan's contract. *)
Take ==
  /\ \A o \in Orders : book'.left[o] \in 0..book.left[o]
  /\ \A q \in book'.quotes : \E p \in book.quotes :
       q = [p EXCEPT !.size = q.size] /\ q.size <= p.size
Taken == [o \in Orders |-> book.left[o] - book'.left[o]]
Tell(taken) ==
  told' = [o \in Orders |-> IF o \in Virtual THEN told[o] + taken[o] ELSE 0]

Trade ==
  /\ ~busy /\ Take /\ Tell(Taken)
  /\ ifCommitted' = book' /\ ifRolledBack' = book'
  /\ UNCHANGED <<busy, pending>>

Reserve ==
  /\ ~busy /\ Take
  /\ busy' /\ pending' = Taken
  /\ ifCommitted' = book' /\ ifRolledBack' = book
  /\ UNCHANGED told

Release(outcome) ==
  /\ busy /\ ~busy'
  /\ book' = outcome /\ ifCommitted' = outcome /\ ifRolledBack' = outcome
  /\ pending' = Nothing

Commit   == Release(ifCommitted) /\ Tell(pending)
Rollback == Release(ifRolledBack) /\ UNCHANGED told

Next ==
  \/ \E o \in Orders : Place(o) \/ Remove(o) \/ \E n \in 1..Qty[o] : Reduce(o, n)
  \/ \E mid \in Mids : Refresh(mid)
  \/ \E tick \in 0..MaxTick : Prune(tick)
  \/ Trade \/ Reserve \/ Commit \/ Rollback

Spec == Init /\ [][Next]_vars

=============================================================================

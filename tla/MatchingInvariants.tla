-------------------------- MODULE MatchingInvariants --------------------------
(***************************************************************************)
(* What holds of the matching engine at every moment and makes its         *)
(* properties inductive: both books it may end with are in order, and the  *)
(* changes that wait can still be made in either.                          *)
(***************************************************************************)
EXTENDS MatchingEngine

IsQuote(r) == r.oid \in External

(* No two rows of one side are the same order, nor the same quote, nor two orders or
   two quotes of one number; a quote hides nothing. *)
Sound(rows) ==
  /\ rows \subseteq Row /\ IsFiniteSet(rows)
  /\ \A r, s \in rows :
       /\ r.side = s.side
       /\ r.oid = s.oid \/ (r.seq = s.seq /\ (IsQuote(r) <=> IsQuote(s)))
       => r = s
  /\ \A r \in rows : IsQuote(r) => r.hidden = 0

(* A book in order at a clock: sound, numbered up to its counter, every order on
   its own side. *)
Kept(b, t) ==
  /\ b \in Book /\ Sound(b.rows)
  /\ \A r \in b.rows : r.seq <= b.seq /\ r.time <= t
  /\ \A r \in b.rows : r.oid \in Orders => r.side = Detail[r.oid].side

Has(rows, o) == \E r \in rows : r.oid = o

(* A change somebody may ask for. *)
Asks(c) ==
  /\ c \in ChangeData
  /\ c.kind \in {"place", "remove", "reduce"} => c.oid \in Orders
  /\ c.kind = "refresh" => c.n \in Mids

(* Changes that wait for a book with these rows: an order that is to be placed has
   no row and is placed once. *)
Waits(cs, rows) ==
  /\ cs \in Seq(ChangeData)
  /\ \A i \in 1..Len(cs) :
       /\ Asks(cs[i])
       /\ cs[i].kind = "place" =>
            /\ ~Has(rows, cs[i].oid)
            /\ \A j \in 1..Len(cs) : j # i /\ cs[j].kind = "place" => cs[j].oid # cs[i].oid

-----------------------------------------------------------------------------
SavedBook == [book EXCEPT !.rows = reservation.saved]

AskedData == [placed: SUBSET Orders, removed: SUBSET Orders, taken: SUBSET Takers,
              refreshes: Nat, pruned: Nat]

Shape ==
  /\ reservation \in [open: BOOLEAN, saved: SUBSET Row, hooks: [Orders -> Nat],
                      deferred: Seq(ChangeData)]
  /\ ~reservation.open => reservation = Free
  /\ told \in [Orders -> Nat] /\ now \in 0..MaxTime
  /\ asked \in AskedData

BooksInOrder == Kept(book, now) /\ Kept(SavedBook, now)

(* Nothing is in a book, or waits to be, that was not asked for. *)
PlacedOnce ==
  /\ \A o \in Orders : Has(book.rows, o) \/ Has(reservation.saved, o) => o \in asked.placed
  /\ \A i \in 1..Len(reservation.deferred) :
       reservation.deferred[i].kind = "place" => reservation.deferred[i].oid \in asked.placed
  /\ Waits(reservation.deferred, book.rows) /\ Waits(reservation.deferred, reservation.saved)

(* The hooks that wait say what the execution took from virtual orders. *)
HooksOwed ==
  /\ \A o \in Orders :
       reservation.hooks[o] =
         IF reservation.open /\ o \in Virtual
         THEN Left(reservation.saved, o) - Left(book.rows, o) ELSE 0
  /\ \A o \in Orders \ Virtual : told[o] = 0

MatchingInv == Shape /\ BooksInOrder /\ PlacedOnce /\ HooksOwed

===============================================================================

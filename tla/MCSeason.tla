------------------------------ MODULE MCSeason ------------------------------
(***************************************************************************)
(* Instances of Season for TLC: seasons of one and two days.               *)
(***************************************************************************)
EXTENDS Season, TLC

Days == <<1, 2>>
Owners == "a1" :> "u1" @@ "a2" :> "u1" @@ "b1" :> "u2"
StartOf == "a1" :> 1 @@ "a2" :> 1 @@ "b1" :> 4

(* Two players in one market each, and two callbacks that overlap, over the end
   of one season and into the next. *)
Race == [accounts |-> {"a1", "b1"}, callbacks |-> {"t1", "t2"}, seasons |-> 2, days |-> 3,
         trading |-> {}, resetting |-> {}]

(* The first player's two markets against the second's one, which is traded
   while the season is settled. *)
Duel == [accounts |-> {"a1", "a2", "b1"}, callbacks |-> {"t1"}, seasons |-> 1, days |-> 1,
         trading |-> {"b1"}, resetting |-> {}]

(* A player asks for a reset around the season. *)
Reset == [accounts |-> {"a1", "b1"}, callbacks |-> {"t1"}, seasons |-> 1, days |-> 1,
          trading |-> {}, resetting |-> {"b1"}]

(* One market each, nobody trades: what a crash alone can do. *)
Pair == [accounts |-> {"a1", "b1"}, callbacks |-> {"t1"}, seasons |-> 1, days |-> 1,
         trading |-> {}, resetting |-> {}]

PairScenes == {Pair}
AllScenes == {Race, Duel, Reset}
Prizes == <<2, 1>>
Prize1 == <<2>>

=============================================================================

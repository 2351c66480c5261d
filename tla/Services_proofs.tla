--------------------------- MODULE Services_proofs ---------------------------
(***************************************************************************)
(* Proofs about the two services that pass on what they are given: GameApi *)
(* for every number of keys, clients, streams and troubles, and Chat for   *)
(* any handlers, pages, files and bounds.                                  *)
(*                                                                         *)
(* The inductive invariant of GameApi, IInv, has four parts.  OneWay       *)
(* follows a key from the journal to the ledger service; RepliesAreTrue    *)
(* follows what the service said back to the client; LoadsAreFresh is      *)
(* about the cache and knows of commands only how many have been told.     *)
(*                                                                         *)
(* In Chat each property follows from a part of ChatInv: Numbered (the     *)
(* numbering is ahead of everything that was answered), Distinct (no two   *)
(* messages share an identifier or a number), Paged (what a page still     *)
(* lacks lies before its cursor) and Filed (the cleanup holds only files   *)
(* that were old enough before they were sent).                            *)
(***************************************************************************)
EXTENDS GameApi, Chat, TLAPS


(* What a new command does to the commands carried out. *)
LEMMA RangeAppend ==
  ASSUME NEW S, NEW s \in Seq(S), NEW x \in S
  PROVE  /\ Append(s, x) \in Seq(S)
         /\ Len(Append(s, x)) = Len(s) + 1 /\ Len(s) \in Nat
         /\ Range(Append(s, x)) = Range(s) \cup {x}
         /\ \A i \in DOMAIN s : Append(s, x)[i] = s[i] /\ i \in DOMAIN Append(s, x)
         /\ \A i \in DOMAIN Append(s, x) : i \in DOMAIN s \/ (Append(s, x)[i] = x /\ i = Len(s) + 1)
<1>1. /\ Len(s) \in Nat /\ DOMAIN s = 1..Len(s)
      /\ DOMAIN Append(s, x) = 1..(Len(s) + 1)
      /\ \A i \in 1..Len(s) : Append(s, x)[i] = s[i]
      /\ Append(s, x)[Len(s) + 1] = x
      /\ Append(s, x) \in Seq(S) /\ Len(Append(s, x)) = Len(s) + 1
  OBVIOUS
<1>2. \A i \in 1..(Len(s) + 1) : i \in 1..Len(s) \/ i = Len(s) + 1
  BY <1>1
<1>3. Range(Append(s, x)) = Range(s) \cup {x}
  <2>1. \A y : y \in Range(Append(s, x)) <=> \E i \in 1..(Len(s) + 1) : y = Append(s, x)[i]
    BY <1>1 DEF Range
  <2>2. \A y : y \in Range(s) <=> \E i \in 1..Len(s) : y = s[i]
    BY <1>1 DEF Range
  <2>3. \A i \in 1..Len(s) : i \in 1..(Len(s) + 1)
    BY <1>1
  <2>4. Len(s) + 1 \in 1..(Len(s) + 1)
    BY <1>1
  <2> QED BY <1>1, <1>2, <2>1, <2>2, <2>3, <2>4
<1> QED BY <1>1, <1>2, <1>3

(* No value is no client and no row of the journal. *)
LEMMA NoneIsNobody == GameApiAssumption => \A c \in Clients \cup Readers : c # None
BY DEF GameApiAssumption
(* None is neither a row of the journal nor a number. *)
LEMMA NoneIsNoRow == GameApiAssumption => None \notin Row /\ None \notin Nat
BY DEF GameApiAssumption

(* What a sequence holds. *)
LEMMA ElementOfSeq == ASSUME NEW S, NEW s \in Seq(S), NEW i \in DOMAIN s PROVE s[i] \in S
OBVIOUS

(* Commands on their way and commands carried out name keys and bodies. *)
LEMMA CallKeys == TypeOK => \A x \in Range(done) \cup wire : x.key \in Keys /\ x.body \in Bodies
<1> SUFFICES ASSUME TypeOK, NEW x \in Range(done) \cup wire
             PROVE x.key \in Keys /\ x.body \in Bodies
  OBVIOUS
<1>1. CASE x \in wire
  BY <1>1 DEF TypeOK, Call
<1>2. CASE x \in Range(done)
  <2>1. PICK i \in DOMAIN done : x = done[i]
    BY <1>2 DEF Range
  <2>2. done \in Seq([key : Keys, body : Bodies])
    BY DEF TypeOK
  <2>3. done[i] \in [key : Keys, body : Bodies]
    BY <2>1, <2>2, ElementOfSeq
  <2> QED BY <2>1, <2>3
<1> QED BY <1>1, <1>2

(* Whatever leaves the commands alone keeps what is known of them. *)
LEMMA CommandsAlone ==
  ASSUME OneWay, RepliesAreTrue, UNCHANGED <<journal, wire, done, cmd, answers>>
  PROVE  OneWay' /\ RepliesAreTrue'
BY DEF OneWay, HandlerOK, CallOK, RepliesAreTrue, ReplyOK, RecordOK, AnswerOK,
     NotForwarded, Sent, AtWork, Truly, Version

(* Whatever leaves the streams, the cache and the count alone keeps them fresh. *)
LEMMA StreamsAlone ==
  ASSUME TypeOK, LoadsAreFresh, SnapshotShowsAnswer, UNCHANGED <<api, told>>,
         done' = done \/ \E x : x \in [key : Keys, body : Bodies] /\ done' = Append(done, x)
  PROVE  LoadsAreFresh' /\ SnapshotShowsAnswer'
<1>1. Version' >= Version /\ Version' \in Nat /\ Version \in Nat /\ told \in Nat
  BY RangeAppend DEF Version, TypeOK
<1> QED BY <1>1 DEF LoadsAreFresh, LoadOK, JoinOK, Loading, SnapshotShowsAnswer, api

(* The invariant holds at the start. *)
LEMMA InitInv == Init => IInv
<1> SUFFICES ASSUME Init PROVE IInv
  OBVIOUS
<1>1. TypeOK
  BY DEF Init, TypeOK, IdleCmd, Off, CmdData, ReaderData
<1>2. OneWay
  BY DEF Init, OneWay, HandlerOK, Sent, AtWork, IdleCmd, Range
<1>3. RepliesAreTrue
  BY DEF Init, RepliesAreTrue, ReplyOK, RecordOK, IdleCmd
<1>4. LoadsAreFresh /\ SnapshotShowsAnswer
  BY NoneIsNobody, GameApiAssumption
     DEF Init, LoadsAreFresh, LoadOK, JoinOK, Loading, SnapshotShowsAnswer, Off, Version
<1>5. CarriedOutOnce
  BY DEF Init, CarriedOutOnce
<1> QED BY <1>1, <1>2, <1>3, <1>4, <1>5 DEF IInv

-----------------------------------------------------------------------------
(* Commands. *)

(* A handler moves on and keeps what it holds. *)
LEMMA Moves ==
  ASSUME TypeOK, NEW c \in Clients,
         NEW at \in {"idle", "insert", "existing", "forward", "wait", "record", "invalidate"},
         To(c, at)
  PROVE  /\ cmd' \in [Clients -> CmdData]
         /\ cmd'[c].at = at /\ cmd'[c].key = cmd[c].key /\ cmd'[c].body = cmd[c].body
         /\ cmd'[c].reply = cmd[c].reply /\ cmd'[c].made = cmd[c].made
         /\ \A d \in Clients : d # c => cmd'[d] = cmd[d]
<1>1. cmd[c] \in CmdData /\ cmd \in [Clients -> CmdData]
  BY DEF TypeOK
<1> DEFINE v == [cmd[c] EXCEPT !.at = at]
<1>2. /\ v \in CmdData
      /\ v.at = at /\ v.key = cmd[c].key /\ v.body = cmd[c].body
      /\ v.reply = cmd[c].reply /\ v.made = cmd[c].made
  BY <1>1 DEF CmdData
<1>3. cmd' = [cmd EXCEPT ![c] = v]
  BY DEF To
<1> HIDE DEF v
<1> QED BY <1>1, <1>2, <1>3

(* A handler that leaves forgets everything. *)
LEMMA Leaves ==
  ASSUME TypeOK, NEW c \in Clients, Leave(c)
  PROVE  /\ cmd' \in [Clients -> CmdData] /\ cmd'[c] = IdleCmd
         /\ \A d \in Clients : d # c => cmd'[d] = cmd[d]
BY DEF TypeOK, Leave, IdleCmd, CmdData

(* A handler that neither sends nor records anything disturbs nothing, if what
   it answers is true. *)
LEMMA QuietStep ==
  ASSUME GameApiAssumption, TypeOK, OneWay, RepliesAreTrue, NEW c \in Clients,
         UNCHANGED <<journal, wire, done>>,
         \A d \in Clients : d # c => cmd'[d] = cmd[d],
         cmd[c].at # "wait",
         cmd'[c].at \in {"idle", "insert", "existing"},
         cmd'[c].at # "idle" => cmd'[c].key \in Keys /\ cmd'[c].body \in Bodies,
         cmd'[c].at = "existing" => journal[cmd'[c].key] # None,
         \A a \in answers' : a \in answers \/ AnswerOK(a)
  PROVE  OneWay' /\ RepliesAreTrue'
<1>1. ASSUME NEW d \in Clients PROVE HandlerOK(d)'
  BY DEF OneWay, HandlerOK, AtWork, Sent
<1>2. ASSUME NEW d \in Clients, NEW e \in Clients,
             (AtWork(d) /\ AtWork(e) /\ cmd[d].key = cmd[e].key)'
      PROVE  d = e
  BY <1>2 DEF OneWay, AtWork
<1>3. ASSUME NEW call \in wire PROVE CallOK(call)'
  <2>1. CallOK(call) /\ call.from \in Clients \cup {None}
    BY DEF OneWay, TypeOK, Call
  <2> QED BY <2>1 DEF CallOK
<1>4. OneWay'
  BY <1>1, <1>2, <1>3 DEF OneWay
<1>5. ASSUME NEW d \in Clients PROVE ReplyOK(d)'
  <2>1. ReplyOK(d) /\ Version' = Version
    BY DEF RepliesAreTrue, Version
  <2>2. \A k, b, r : Truly(k, b, r)' = Truly(k, b, r)
    BY DEF Truly, Sent
  <2> QED BY <2>1, <2>2 DEF ReplyOK
<1>6. \A k : NotForwarded(k) => NotForwarded(k)'
  BY DEF NotForwarded
<1>7. ASSUME NEW k \in Keys PROVE RecordOK(k)'
  BY <1>6 DEF RepliesAreTrue, RecordOK, Truly, Sent
<1>8. ASSUME NEW a \in answers' PROVE AnswerOK(a)'
  <2>1. AnswerOK(a)
    BY DEF RepliesAreTrue
  <2> QED BY <1>6, <2>1 DEF AnswerOK, Truly, Sent
<1>9. RepliesAreTrue'
  BY <1>5, <1>7, <1>8 DEF RepliesAreTrue
<1> QED BY <1>4, <1>9

(* What is answered from the journal was recorded. *)
LEMMA ExistingStep ==
  ASSUME GameApiAssumption, TypeOK, OneWay, RepliesAreTrue,
         NEW c \in Clients, NEW k \in Keys, NEW b \in Bodies,
         journal[k] # None, Existing(c, k, b), cmd[c].at # "wait",
         UNCHANGED <<journal, wire, done>>
  PROVE  /\ cmd' \in [Clients -> CmdData] /\ answers' \subseteq AnswerData
         /\ OneWay' /\ RepliesAreTrue'
<1>1. /\ cmd' \in [Clients -> CmdData] /\ cmd'[c].at = "idle"
      /\ \A d \in Clients : d # c => cmd'[d] = cmd[d]
  BY Leaves DEF Existing, IdleCmd
<1>2. ASSUME NEW a \in answers', a \notin answers PROVE AnswerOK(a) /\ a \in AnswerData
  <2>1. /\ a = [key |-> k, body |-> journal[k].body, result |-> journal[k].result]
        /\ journal[k].result # "pending"
    BY <1>2 DEF Existing
  <2>2. journal[k] \in Row
    BY DEF TypeOK
  <2> QED BY <2>1, <2>2 DEF RepliesAreTrue, RecordOK, AnswerOK, AnswerData, Row, Results
<1>3. answers' \subseteq AnswerData
  BY <1>2 DEF TypeOK
<1> QED BY <1>1, <1>2, <1>3, QuietStep

(* A new command keeps the ways of the keys, and the answers true. *)
LEMMA CommandStep ==
  ASSUME GameApiAssumption, TypeOK, OneWay, RepliesAreTrue,
         NEW c \in Clients, NEW k \in Keys, NEW b \in Bodies, Command(c, k, b)
  PROVE  /\ cmd' \in [Clients -> CmdData] /\ answers' \subseteq AnswerData
         /\ OneWay' /\ RepliesAreTrue'
<1>1. cmd[c].at = "idle" /\ UNCHANGED <<journal, wire, done>>
  BY DEF Command, IdleCmd
<1>2. CASE journal[k] # None
  BY <1>1, <1>2, ExistingStep DEF Command
<1>3. CASE journal[k] = None
  <2> DEFINE v == [at |-> "insert", key |-> k, body |-> b, reply |-> None, made |-> 0]
  <2>1. v \in CmdData /\ v.at = "insert" /\ v.key = k /\ v.body = b
    BY DEF CmdData
  <2>2. cmd' = [cmd EXCEPT ![c] = v] /\ answers' = answers
    BY <1>3 DEF Command
  <2> HIDE DEF v
  <2>3. /\ cmd' \in [Clients -> CmdData] /\ cmd'[c] = v
        /\ \A d \in Clients : d # c => cmd'[d] = cmd[d]
    BY <2>1, <2>2 DEF TypeOK
  <2>4. OneWay' /\ RepliesAreTrue'
    BY <1>1, <2>1, <2>2, <2>3, QuietStep
  <2> QED BY <2>2, <2>3, <2>4 DEF TypeOK
<1> QED BY <1>2, <1>3

(* So does the second look of a command that lost the race for its key. *)
LEMMA LookAgainStep ==
  ASSUME GameApiAssumption, TypeOK, OneWay, RepliesAreTrue, NEW c \in Clients, LookAgain(c)
  PROVE  /\ cmd' \in [Clients -> CmdData] /\ answers' \subseteq AnswerData
         /\ OneWay' /\ RepliesAreTrue'
<1>1. /\ cmd[c].key \in Keys /\ cmd[c].body \in Bodies
      /\ cmd[c].at = "existing" /\ Existing(c, cmd[c].key, cmd[c].body)
      /\ journal[cmd[c].key] # None /\ UNCHANGED <<journal, wire, done>>
  BY DEF LookAgain, OneWay, HandlerOK
<1> QED BY <1>1, ExistingStep

(* The row is new: nobody has sent its key, and from now on only c may. *)
LEMMA InsertStep ==
  ASSUME GameApiAssumption, TypeOK, OneWay, RepliesAreTrue, NEW c \in Clients, Insert(c)
  PROVE  cmd' \in [Clients -> CmdData] /\ journal' \in [Keys -> Row \cup {None}]
         /\ OneWay' /\ RepliesAreTrue'
<1> DEFINE k == cmd[c].key
<1>1. /\ cmd[c].at = "insert" /\ UNCHANGED <<wire, done, answers>>
      /\ k \in Keys /\ cmd[c].body \in Bodies
  BY DEF Insert, OneWay, HandlerOK
<1>2. CASE Leave(c) /\ UNCHANGED journal
  BY SMTT(30), <1>1, <1>2, Leaves, QuietStep DEF TypeOK, IdleCmd
<1>3. CASE UNCHANGED journal /\ journal[k] # None /\ To(c, "existing")
  <2>1. OneWay' /\ RepliesAreTrue'
    BY <1>1, <1>3, Moves, QuietStep
  <2> QED BY <1>3, <2>1, Moves DEF TypeOK
<1>4. CASE /\ journal[k] = None
           /\ journal' = [journal EXCEPT ![k] = [body |-> cmd[c].body, result |-> "pending"]]
           /\ To(c, "forward")
  <2>1. /\ cmd' \in [Clients -> CmdData]
        /\ cmd'[c].at = "forward" /\ cmd'[c].key = k /\ cmd'[c].body = cmd[c].body
        /\ \A d \in Clients : d # c => cmd'[d] = cmd[d]
    BY <1>4, Moves
  <2> DEFINE row == [body |-> cmd[c].body, result |-> "pending"]
  <2>2. row \in Row /\ row.body = cmd[c].body /\ row.result = "pending"
    BY <1>1 DEF Row, Results
  <2>3. journal' = [journal EXCEPT ![k] = row]
    BY <1>4
  <2> HIDE DEF row
  <2>4. /\ journal' \in [Keys -> Row \cup {None}] /\ journal'[k] = row
        /\ \A j \in Keys : j # k => journal'[j] = journal[j]
    BY <1>1, <2>2, <2>3 DEF TypeOK
  <2>5. row # None
    BY <2>2, NoneIsNoRow
  <2>6. ~Sent(k)
    BY <1>4 DEF OneWay, CallOK, Sent
  <2>7. \A x \in Range(done) \cup wire : x.key \in Keys
    BY CallKeys
  <2> HIDE DEF k
  <2>8. ASSUME NEW d \in Clients PROVE HandlerOK(d)'
    <3>1. CASE d = c
      BY <1>1, <2>1, <2>2, <2>4, <2>5, <2>6, <3>1 DEF HandlerOK, Sent, AtWork
    <3>2. CASE d # c
      <4>1. HandlerOK(d) /\ cmd'[d] = cmd[d]
        BY <2>1, <3>2 DEF OneWay
      <4> QED BY <1>1, <1>4, <2>4, <2>5, <4>1 DEF HandlerOK, Sent, AtWork, k
    <3> QED BY <3>1, <3>2
  <2>9. ASSUME NEW d \in Clients, NEW e \in Clients,
               (AtWork(d) /\ AtWork(e) /\ cmd[d].key = cmd[e].key)'
        PROVE  d = e
    BY <1>4, <2>1, <2>9 DEF OneWay, HandlerOK, AtWork
  <2>10. ASSUME NEW call \in wire PROVE CallOK(call)'
    <3>1. CallOK(call) /\ call.key \in Keys /\ call.from \in Clients \cup {None}
      BY <2>7 DEF OneWay, TypeOK, Call
    <3>2. call.key # k /\ call.from # c
      BY <1>1, <1>4, <3>1, NoneIsNobody DEF CallOK
    <3> QED BY <1>1, <2>1, <2>4, <3>1, <3>2 DEF CallOK
  <2>11. OneWay'
    BY <1>1, <1>4, <2>4, <2>5, <2>7, <2>8, <2>9, <2>10 DEF OneWay
  <2>12. ASSUME NEW j, j # k, NotForwarded(j) PROVE NotForwarded(j)'
    BY <2>1, <2>12 DEF NotForwarded
  <2>13. ASSUME NEW d \in Clients PROVE ReplyOK(d)'
    BY <1>1, <2>1 DEF RepliesAreTrue, ReplyOK, Truly, Sent, Version
  <2>14. ASSUME NEW j \in Keys PROVE RecordOK(j)'
    BY <1>1, <2>2, <2>4, <2>12 DEF RepliesAreTrue, RecordOK, Truly, Sent
  <2>15. ASSUME NEW a \in answers PROVE AnswerOK(a)'
    <3>1. AnswerOK(a) /\ a.key \in Keys /\ a.key # k
      BY <1>4 DEF RepliesAreTrue, AnswerOK, TypeOK, AnswerData
    <3> QED BY <1>1, <2>4, <2>12, <3>1 DEF AnswerOK, Truly, Sent
  <2>16. RepliesAreTrue'
    BY <1>1, <2>13, <2>14, <2>15 DEF RepliesAreTrue
  <2> QED BY <2>1, <2>4, <2>11, <2>16
<1> QED BY <1>2, <1>3, <1>4 DEF Insert

(* A recorded command is sent, and from now on it is the call that counts. *)
LEMMA ForwardStep ==
  ASSUME GameApiAssumption, TypeOK, OneWay, RepliesAreTrue, NEW c \in Clients, Forward(c)
  PROVE  cmd' \in [Clients -> CmdData] /\ wire' \subseteq Call /\ OneWay' /\ RepliesAreTrue'
<1> DEFINE k == cmd[c].key
           new == [key |-> k, body |-> cmd[c].body, from |-> c]
<1>1. /\ cmd[c].at = "forward" /\ UNCHANGED <<journal, done, answers>>
      /\ wire' = wire \cup {new}
      /\ k \in Keys /\ cmd[c].body \in Bodies
      /\ journal[k] # None /\ journal[k].body = cmd[c].body /\ ~Sent(k)
  BY DEF Forward, OneWay, HandlerOK, AtWork
<1>2. /\ cmd' \in [Clients -> CmdData]
      /\ cmd'[c].at = "wait" /\ cmd'[c].key = k /\ cmd'[c].body = cmd[c].body
      /\ \A d \in Clients : d # c => cmd'[d] = cmd[d]
  BY Moves DEF Forward
<1>3. new \in Call /\ new.key = k /\ new.body = cmd[c].body /\ new.from = c
  BY <1>1 DEF Call
<1> HIDE DEF new, k
<1>4. wire' \subseteq Call
  BY <1>1, <1>3 DEF TypeOK
<1>5. \A j : j # k => Sent(j)' = Sent(j)
  BY <1>1, <1>3 DEF Sent
<1>6. \A d \in Clients : d # c /\ AtWork(d) => cmd[d].key # k
  BY <1>1 DEF OneWay, AtWork, k
<1>7. ASSUME NEW d \in Clients PROVE HandlerOK(d)'
  <2>1. CASE d = c
    BY <1>1, <1>2, <2>1 DEF HandlerOK
  <2>2. CASE d # c
    <3>1. HandlerOK(d) /\ cmd'[d] = cmd[d]
      BY <1>2, <2>2 DEF OneWay
    <3> QED BY <1>1, <1>5, <1>6, <2>2, <3>1 DEF HandlerOK, AtWork
  <2> QED BY <2>1, <2>2
<1>8. ASSUME NEW d \in Clients, NEW e \in Clients,
             (AtWork(d) /\ AtWork(e) /\ cmd[d].key = cmd[e].key)'
      PROVE  d = e
  BY <1>1, <1>2, <1>8 DEF OneWay, AtWork, k
<1>9. ASSUME NEW call \in wire' PROVE CallOK(call)'
  <2>1. CASE call = new
    BY <1>1, <1>2, <1>3, <2>1 DEF CallOK, Sent
  <2>2. CASE call \in wire
    <3>1. CallOK(call) /\ call.key # k /\ call.from \in Clients \cup {None}
      BY <1>1, <2>2 DEF OneWay, Sent, TypeOK, Call
    <3>2. call.from # c
      BY <1>1, <3>1, NoneIsNobody DEF CallOK
    <3> QED BY <1>1, <1>2, <1>3, <3>1, <3>2 DEF CallOK
  <2> QED BY <1>1, <2>1, <2>2
<1>10. OneWay'
  BY <1>1, <1>7, <1>8, <1>9 DEF OneWay
<1>11. ASSUME NEW d \in Clients PROVE ReplyOK(d)'
  <2>1. CASE d = c
    BY <1>2, <2>1 DEF ReplyOK
  <2>2. CASE d # c
    <3>1. ReplyOK(d) /\ cmd'[d] = cmd[d] /\ Version' = Version
      BY <1>1, <1>2, <2>2 DEF RepliesAreTrue, Version
    <3> QED BY <1>1, <1>5, <1>6, <2>2, <3>1 DEF ReplyOK, Truly, AtWork
  <2> QED BY <2>1, <2>2
<1>12. ~NotForwarded(k)
  BY <1>1 DEF NotForwarded, k
<1>13. \A j : NotForwarded(j) => NotForwarded(j)'
  BY <1>2 DEF NotForwarded
<1>14. ASSUME NEW j \in Keys PROVE RecordOK(j)'
  BY <1>1, <1>5, <1>12, <1>13 DEF RepliesAreTrue, RecordOK, Truly
<1>15. ASSUME NEW a \in answers PROVE AnswerOK(a)'
  <2>1. AnswerOK(a) /\ a.key # k
    BY <1>12 DEF RepliesAreTrue, AnswerOK
  <2> QED BY <1>1, <1>5, <1>13, <2>1 DEF AnswerOK, Truly
<1> QED BY <1>1, <1>2, <1>4, <1>10, <1>11, <1>14, <1>15 DEF RepliesAreTrue

(* Handlers that leave, and calls whose answer nobody waits for any more. *)
LEMMA AbandonStep ==
  ASSUME GameApiAssumption, TypeOK, OneWay, RepliesAreTrue,
         UNCHANGED <<journal, done, answers>>,
         \A c \in Clients : cmd'[c] = cmd[c] \/ cmd'[c] = IdleCmd,
         \A x \in wire' : \E call \in wire :
            /\ x.key = call.key /\ x.body = call.body
            /\ x.from = None \/ (x.from = call.from /\ cmd'[x.from] = cmd[x.from]),
         \A x, y \in wire' : x.key = y.key => x = y
  PROVE  OneWay' /\ RepliesAreTrue'
<1>2. \A k : Sent(k)' => Sent(k)
  BY DEF Sent
<1>3. ASSUME NEW d \in Clients PROVE HandlerOK(d)'
  BY <1>2 DEF OneWay, HandlerOK, AtWork, IdleCmd
<1>4. ASSUME NEW d \in Clients, NEW e \in Clients,
             (AtWork(d) /\ AtWork(e) /\ cmd[d].key = cmd[e].key)'
      PROVE  d = e
  BY <1>4 DEF OneWay, AtWork, IdleCmd
<1>5. ASSUME NEW x \in wire' PROVE CallOK(x)'
  <2>1. PICK call \in wire : /\ x.key = call.key /\ x.body = call.body
                             /\ x.from = None \/ (x.from = call.from /\ cmd'[x.from] = cmd[x.from])
    OBVIOUS
  <2>2. CallOK(call)
    BY DEF OneWay
  <2>3. \A other \in wire' : other.key = x.key => other = x
    OBVIOUS
  <2>4. \A y \in Range(done) : y.key # x.key
    BY <2>1, <2>2 DEF CallOK
  <2>5. x.from # None => /\ cmd'[x.from].at = "wait" /\ cmd'[x.from].key = x.key
                         /\ cmd'[x.from].body = x.body
    BY <2>1, <2>2 DEF CallOK
  <2> QED BY <2>1, <2>2, <2>3, <2>4, <2>5 DEF CallOK
<1>6. OneWay'
  BY <1>3, <1>4, <1>5 DEF OneWay
<1>7. ASSUME NEW d \in Clients PROVE ReplyOK(d)'
  BY <1>2 DEF RepliesAreTrue, ReplyOK, Truly, IdleCmd, Version
<1>8. \A j : NotForwarded(j) => NotForwarded(j)'
  BY DEF NotForwarded, IdleCmd
<1>9. ASSUME NEW j \in Keys PROVE RecordOK(j)'
  BY <1>2, <1>8 DEF RepliesAreTrue, RecordOK, Truly
<1>10. ASSUME NEW a \in answers PROVE AnswerOK(a)'
  BY <1>2, <1>8 DEF RepliesAreTrue, AnswerOK, Truly
<1> QED BY <1>6, <1>7, <1>9, <1>10 DEF RepliesAreTrue

(* A handler that gives up leaves a call behind, or it was never received. *)
LEMMA GiveUpStep ==
  ASSUME GameApiAssumption, TypeOK, OneWay, RepliesAreTrue, NEW c \in Clients, GiveUp(c)
  PROVE  cmd' \in [Clients -> CmdData] /\ wire' \subseteq Call /\ OneWay' /\ RepliesAreTrue'
<1>1. /\ cmd' \in [Clients -> CmdData] /\ cmd'[c] = IdleCmd
      /\ \A d \in Clients : d # c => cmd'[d] = cmd[d]
      /\ UNCHANGED <<journal, done, answers>>
  BY Leaves DEF GiveUp
<1>2. PICK call \in wire : /\ call.from = c
                          /\ \/ wire' = (wire \ {call}) \cup {[call EXCEPT !.from = None]}
                             \/ wire' = wire \ {call}
  BY DEF GiveUp
<1> DEFINE left == [call EXCEPT !.from = None]
<1>3. left \in Call /\ left.key = call.key /\ left.body = call.body /\ left.from = None
  BY SMTT(30) DEF TypeOK, Call
<1>4. /\ \A x \in wire' : x = left \/ (x \in wire /\ x # call)
      /\ wire' \subseteq wire \cup {left}
  BY <1>2
<1> HIDE DEF left
<1>5. wire' \subseteq Call
  BY <1>3, <1>4 DEF TypeOK
<1>6. ASSUME NEW x \in wire, x # call PROVE x.key # call.key /\ x.from # c
  BY <1>2, <1>6, NoneIsNobody DEF OneWay, CallOK, AtWork
<1>7. ASSUME NEW x \in wire'
      PROVE \E other \in wire :
            /\ x.key = other.key /\ x.body = other.body
            /\ x.from = None \/ (x.from = other.from /\ cmd'[x.from] = cmd[x.from])
  <2>1. CASE x = left
    BY <2>1, <1>3
  <2>2. CASE x \in wire /\ x # call
    BY <1>1, <1>6, <2>2 DEF TypeOK, Call
  <2> QED BY <1>4, <2>1, <2>2
<1>8. \A x, y \in wire' : x.key = y.key => x = y
  BY <1>3, <1>4, <1>6 DEF OneWay, CallOK
<1>9. \A d \in Clients : cmd'[d] = cmd[d] \/ cmd'[d] = IdleCmd
  BY <1>1
<1> QED BY <1>1, <1>5, <1>7, <1>8, <1>9, AbandonStep

(* The API goes: every handler is gone, every call sent is on its own. *)
LEMMA GoneStep ==
  ASSUME GameApiAssumption, TypeOK, OneWay, RepliesAreTrue, Gone,
         UNCHANGED <<journal, done, answers>>
  PROVE  cmd' \in [Clients -> CmdData] /\ wire' \subseteq Call /\ OneWay' /\ RepliesAreTrue'
<1>1. IdleCmd \in CmdData
  BY DEF IdleCmd, CmdData
<1>2. cmd' \in [Clients -> CmdData] /\ \A d \in Clients : cmd'[d] = IdleCmd
  BY <1>1 DEF Gone
<1>3. ASSUME NEW x \in wire'
      PROVE  \E call \in wire : /\ x = [call EXCEPT !.from = None] /\ x \in Call
                              /\ x.key = call.key /\ x.body = call.body /\ x.from = None
  BY SMTT(30) DEF Gone, TypeOK, Call
<1>4. ASSUME NEW x \in wire', NEW y \in wire', x.key = y.key PROVE x = y
  <2>1. PICK call \in wire : x = [call EXCEPT !.from = None] /\ x.key = call.key
    BY <1>3
  <2>2. PICK other \in wire : y = [other EXCEPT !.from = None] /\ y.key = other.key
    BY <1>3
  <2>3. call = other
    BY <1>4, <2>1, <2>2 DEF OneWay, CallOK
  <2> QED BY <2>1, <2>2, <2>3
<1>5. wire' \subseteq Call
  BY <1>3
<1> QED BY <1>2, <1>3, <1>4, <1>5, AbandonStep

(* The ledger service takes a call: nobody else has its key. *)
LEMMA TakenAlone ==
  ASSUME GameApiAssumption, TypeOK, OneWay, NEW call \in wire, wire' = wire \ {call}
  PROVE  /\ call.key \in Keys /\ call.body \in Bodies /\ call.from \in Clients \cup {None}
         /\ \A x \in Range(done) \cup wire' : x.key # call.key
         /\ \A c \in Clients : cmd[c].at = "forward" => cmd[c].key # call.key
         /\ journal[call.key] # None /\ journal[call.key].body = call.body
         /\ NotForwarded(call.key)
<1>1. CallOK(call) /\ call \in Call
  BY DEF OneWay, TypeOK
<1>2. \A c \in Clients : cmd[c].at = "forward" => cmd[c].key # call.key
  BY DEF OneWay, HandlerOK, Sent
<1> QED BY <1>1, <1>2 DEF Call, CallOK, NotForwarded

(* The handler that waits for it, if any, hears of it. *)
LEMMA Hears ==
  ASSUME GameApiAssumption, TypeOK, OneWay, NEW call \in wire,
         NEW reply \in {"success", "refused"}, NEW made \in Nat, Reply(call, reply, made)
  PROVE  /\ cmd' \in [Clients -> CmdData]
         /\ \A c \in Clients : c # call.from => cmd'[c] = cmd[c]
         /\ \A c \in Clients : c = call.from =>
              /\ cmd[c].at = "wait" /\ cmd'[c].at = "record"
              /\ cmd'[c].key = call.key /\ cmd'[c].body = call.body
              /\ cmd[c].key = call.key
              /\ cmd'[c].reply = reply /\ cmd'[c].made = made
<1>1. CallOK(call)
  BY DEF OneWay
<1>2. ASSUME NEW c \in Clients
      PROVE  /\ cmd'[c] \in CmdData
             /\ c # call.from => cmd'[c] = cmd[c]
             /\ c = call.from =>
                 /\ cmd'[c].at = "record" /\ cmd'[c].key = cmd[c].key
                 /\ cmd'[c].body = cmd[c].body
                 /\ cmd'[c].reply = reply /\ cmd'[c].made = made
  <2>1. cmd[c] \in CmdData
    BY DEF TypeOK
  <2>2. cmd'[c] = IF c = call.from THEN [cmd[c] EXCEPT !.at = "record", !.reply = reply,
                                                       !.made = made]
                                   ELSE cmd[c]
    BY DEF Reply
  <2> QED BY ZenonT(40), <2>1, <2>2 DEF CmdData
<1>3. cmd' = [c \in Clients |-> cmd'[c]]
  BY DEF Reply
<1>4. cmd' \in [Clients -> CmdData]
  BY <1>2, <1>3
<1> QED BY <1>1, <1>2, <1>4, NoneIsNobody DEF CallOK

(* So does the ledger service that carries a command out, *)
LEMMA CarryOutStep ==
  ASSUME GameApiAssumption, TypeOK, OneWay, RepliesAreTrue, CarriedOutOnce,
         NEW call \in wire, CarryOut(call)
  PROVE  /\ cmd' \in [Clients -> CmdData] /\ wire' \subseteq Call
         /\ done' \in Seq([key : Keys, body : Bodies])
         /\ OneWay' /\ RepliesAreTrue' /\ CarriedOutOnce'
<1> DEFINE new == [key |-> call.key, body |-> call.body]
<1>1. /\ wire' = wire \ {call} /\ done' = Append(done, new)
      /\ Reply(call, "success", Version + 1) /\ UNCHANGED <<journal, answers>>
  BY DEF CarryOut
<1>2. /\ call.key \in Keys /\ call.body \in Bodies /\ call.from \in Clients \cup {None}
      /\ \A x \in Range(done) \cup wire' : x.key # call.key
      /\ \A c \in Clients : cmd[c].at = "forward" => cmd[c].key # call.key
      /\ journal[call.key] # None /\ journal[call.key].body = call.body
      /\ NotForwarded(call.key)
  BY <1>1, TakenAlone
<1>3. new \in [key : Keys, body : Bodies] /\ new.key = call.key /\ new.body = call.body
  BY <1>2
<1>4. done \in Seq([key : Keys, body : Bodies])
  BY DEF TypeOK
<1> HIDE DEF new
<1>5. /\ done' \in Seq([key : Keys, body : Bodies])
      /\ Len(done') = Len(done) + 1 /\ Len(done) \in Nat
      /\ Range(done') = Range(done) \cup {new}
      /\ \A i \in DOMAIN done : done'[i] = done[i]
      /\ \A i \in DOMAIN done' : i \in DOMAIN done \/ (done'[i] = new /\ i = Len(done) + 1)
  <2> DEFINE S == [key : Keys, body : Bodies]
  <2>1. done \in Seq(S) /\ new \in S
    BY <1>3, <1>4
  <2> HIDE DEF S
  <2>2. /\ Append(done, new) \in Seq(S)
        /\ Len(Append(done, new)) = Len(done) + 1 /\ Len(done) \in Nat
        /\ Range(Append(done, new)) = Range(done) \cup {new}
        /\ \A i \in DOMAIN done : Append(done, new)[i] = done[i]
        /\ \A i \in DOMAIN Append(done, new) :
             i \in DOMAIN done \/ (Append(done, new)[i] = new /\ i = Len(done) + 1)
    BY <2>1, RangeAppend
  <2>3. done' = Append(done, new) /\ Range(done)' = Range(Append(done, new))
    BY <1>1 DEF Range
  <2> QED BY <2>2, <2>3 DEF S
<1>6. Version \in Nat /\ Version + 1 \in Nat /\ Version' = Version + 1
  BY <1>5 DEF Version
<1>7. /\ cmd' \in [Clients -> CmdData]
      /\ \A c \in Clients : c # call.from => cmd'[c] = cmd[c]
      /\ \A c \in Clients : c = call.from =>
           /\ cmd[c].at = "wait" /\ cmd'[c].at = "record"
           /\ cmd'[c].key = call.key /\ cmd'[c].body = call.body
           /\ cmd[c].key = call.key
           /\ cmd'[c].reply = "success" /\ cmd'[c].made = Version + 1
  BY <1>1, <1>6, Hears
<1>8. \A k : Sent(k)' <=> Sent(k)
  BY <1>1, <1>3, <1>5 DEF Sent
<1>9. ASSUME NEW d \in Clients PROVE HandlerOK(d)'
  <2>1. HandlerOK(d)
    BY DEF OneWay
  <2>2. CASE d = call.from
    BY <1>1, <1>2, <1>7, <2>2 DEF HandlerOK, AtWork
  <2>3. CASE d # call.from
    BY <1>1, <1>7, <1>8, <2>1, <2>3 DEF HandlerOK, AtWork
  <2> QED BY <2>2, <2>3
<1>10. \A d \in Clients : AtWork(d)' = AtWork(d) /\ (AtWork(d) => cmd'[d].key = cmd[d].key)
  BY <1>7 DEF AtWork
<1>11. ASSUME NEW x \in wire' PROVE CallOK(x)'
  <2>1. CallOK(x) /\ x.from \in Clients \cup {None} /\ x.key # call.key /\ x \in wire
    BY <1>1, <1>2 DEF OneWay, TypeOK, Call
  <2>2. \A y \in Range(done') : y.key # x.key
    BY <1>3, <1>5, <2>1 DEF CallOK
  <2>3. x.from # None => x.from # call.from
    BY <1>7, <2>1 DEF CallOK
  <2>4. x.from # None => cmd'[x.from] = cmd[x.from]
    BY <1>7, <2>1, <2>3
  <2> QED BY <1>1, <2>1, <2>2, <2>4 DEF CallOK
<1>12. OneWay'
  BY <1>1, <1>2, <1>3, <1>5, <1>9, <1>10, <1>11 DEF OneWay
<1>13. \A k, b, r : Truly(k, b, r) => Truly(k, b, r)'
  BY <1>5, <1>8 DEF Truly
<1>14. ASSUME NEW d \in Clients PROVE ReplyOK(d)'
  <2>1. CASE d = call.from
    <3>1. new \in Range(done') /\ new = [key |-> cmd'[d].key, body |-> cmd'[d].body]
      BY <1>5, <1>7, <2>1 DEF new
    <3> QED BY <1>6, <1>7, <2>1, <3>1 DEF ReplyOK, Truly
  <2>2. CASE d # call.from
    <3>1. ReplyOK(d) /\ cmd'[d] = cmd[d] /\ cmd[d].made \in Nat
      BY <1>7, <2>2 DEF RepliesAreTrue, TypeOK, CmdData
    <3> QED BY <1>6, <1>13, <3>1 DEF ReplyOK
  <2> QED BY <2>1, <2>2
<1>15. \A k : NotForwarded(k) => NotForwarded(k)'
  BY <1>7 DEF NotForwarded
<1>16. ASSUME NEW k \in Keys PROVE RecordOK(k)'
  BY <1>1, <1>13, <1>15 DEF RepliesAreTrue, RecordOK
<1>17. ASSUME NEW a \in answers PROVE AnswerOK(a)'
  BY <1>1, <1>13, <1>15 DEF RepliesAreTrue, AnswerOK
<1>18. RepliesAreTrue'
  BY <1>1, <1>14, <1>16, <1>17 DEF RepliesAreTrue
<1>19. CarriedOutOnce'
  <2> SUFFICES ASSUME NEW i \in DOMAIN done', NEW j \in DOMAIN done',
                      done'[i].key = done'[j].key
               PROVE  i = j
    BY DEF CarriedOutOnce
  <2>1. \A n \in DOMAIN done : done[n].key # call.key
    BY <1>2 DEF Range
  <2>2. CASE i \in DOMAIN done /\ j \in DOMAIN done
    BY <1>5, <2>2 DEF CarriedOutOnce
  <2>3. CASE i \notin DOMAIN done /\ j \notin DOMAIN done
    BY <1>5, <2>3
  <2>4. CASE i \in DOMAIN done /\ j \notin DOMAIN done
    BY <1>3, <1>5, <2>1, <2>4
  <2>5. CASE i \notin DOMAIN done /\ j \in DOMAIN done
    BY <1>3, <1>5, <2>1, <2>5
  <2> QED BY <2>2, <2>3, <2>4, <2>5
<1> QED BY <1>1, <1>5, <1>7, <1>12, <1>18, <1>19 DEF TypeOK

(* or refuses it. *)
LEMMA RefuseStep ==
  ASSUME GameApiAssumption, TypeOK, OneWay, RepliesAreTrue, NEW call \in wire, Refuse(call)
  PROVE  /\ cmd' \in [Clients -> CmdData] /\ wire' \subseteq Call
         /\ OneWay' /\ RepliesAreTrue'
<1>1. /\ wire' = wire \ {call} /\ Reply(call, "refused", 0)
      /\ UNCHANGED <<journal, done, answers>>
  BY DEF Refuse
<1>2. /\ call.key \in Keys /\ call.body \in Bodies /\ call.from \in Clients \cup {None}
      /\ \A x \in Range(done) \cup wire' : x.key # call.key
      /\ \A c \in Clients : cmd[c].at = "forward" => cmd[c].key # call.key
      /\ journal[call.key] # None /\ journal[call.key].body = call.body
      /\ NotForwarded(call.key)
  BY <1>1, TakenAlone
<1>3. Version \in Nat /\ Version' = Version
  BY <1>1 DEF Version, TypeOK
<1>4. /\ cmd' \in [Clients -> CmdData]
      /\ \A c \in Clients : c # call.from => cmd'[c] = cmd[c]
      /\ \A c \in Clients : c = call.from =>
           /\ cmd[c].at = "wait" /\ cmd'[c].at = "record"
           /\ cmd'[c].key = call.key /\ cmd'[c].body = call.body
           /\ cmd[c].key = call.key
           /\ cmd'[c].reply = "refused" /\ cmd'[c].made = 0
  BY <1>1, Hears
<1>5. ~Sent(call.key)' /\ \A k : Sent(k)' => Sent(k)
  BY <1>1, <1>2 DEF Sent
<1>6. ASSUME NEW d \in Clients PROVE HandlerOK(d)'
  <2>1. HandlerOK(d)
    BY DEF OneWay
  <2>2. CASE d = call.from
    BY <1>1, <1>2, <1>4, <2>2 DEF HandlerOK, AtWork
  <2>3. CASE d # call.from
    BY <1>1, <1>4, <1>5, <2>1, <2>3 DEF HandlerOK, AtWork
  <2> QED BY <2>2, <2>3
<1>7. \A d \in Clients : AtWork(d)' = AtWork(d) /\ (AtWork(d) => cmd'[d].key = cmd[d].key)
  BY <1>4 DEF AtWork
<1>8. ASSUME NEW x \in wire' PROVE CallOK(x)'
  <2>1. CallOK(x) /\ x.from \in Clients \cup {None} /\ x.key # call.key /\ x \in wire
    BY <1>1, <1>2 DEF OneWay, TypeOK, Call
  <2>2. x.from # None => x.from # call.from
    BY <1>4, <2>1 DEF CallOK
  <2>3. x.from # None => cmd'[x.from] = cmd[x.from]
    BY <1>4, <2>1, <2>2
  <2> QED BY <1>1, <2>1, <2>3 DEF CallOK
<1>9. OneWay'
  BY <1>1, <1>6, <1>7, <1>8 DEF OneWay
<1>10. \A k, b, r : Truly(k, b, r) => Truly(k, b, r)'
  BY <1>1, <1>5 DEF Truly
<1>11. ASSUME NEW d \in Clients PROVE ReplyOK(d)'
  <2>1. CASE d = call.from
    BY <1>3, <1>4, <1>5, <2>1 DEF ReplyOK, Truly
  <2>2. CASE d # call.from
    BY <1>3, <1>4, <1>10, <2>2 DEF RepliesAreTrue, ReplyOK
  <2> QED BY <2>1, <2>2
<1>12. \A k : NotForwarded(k) => NotForwarded(k)'
  BY <1>4 DEF NotForwarded
<1>13. ASSUME NEW k \in Keys PROVE RecordOK(k)'
  BY <1>1, <1>10, <1>12 DEF RepliesAreTrue, RecordOK
<1>14. ASSUME NEW a \in answers PROVE AnswerOK(a)'
  BY <1>1, <1>10, <1>12 DEF RepliesAreTrue, AnswerOK
<1> QED BY <1>1, <1>4, <1>9, <1>11, <1>13, <1>14 DEF RepliesAreTrue, TypeOK

(* What is recorded is what the service replied. *)
LEMMA RecordStep ==
  ASSUME GameApiAssumption, TypeOK, OneWay, RepliesAreTrue, NEW c \in Clients, Record(c)
  PROVE  cmd' \in [Clients -> CmdData] /\ journal' \in [Keys -> Row \cup {None}]
         /\ OneWay' /\ RepliesAreTrue'
<1> DEFINE k == cmd[c].key
<1>1. /\ cmd[c].at = "record" /\ UNCHANGED <<wire, done, answers>>
      /\ k \in Keys /\ cmd[c].body \in Bodies
      /\ journal[k] # None /\ journal[k].body = cmd[c].body
      /\ cmd[c].reply \in {"success", "refused"}
      /\ Truly(k, cmd[c].body, cmd[c].reply) /\ cmd[c].made <= Version
  BY DEF Record, OneWay, HandlerOK, AtWork, RepliesAreTrue, ReplyOK
<1>2. CASE Leave(c) /\ UNCHANGED journal
  BY SMTT(30), <1>1, <1>2, Leaves, QuietStep DEF TypeOK, IdleCmd
<1>3. CASE journal' = [journal EXCEPT ![k].result = cmd[c].reply] /\ To(c, "invalidate")
  <2>1. /\ cmd' \in [Clients -> CmdData]
        /\ cmd'[c].at = "invalidate" /\ cmd'[c].key = k /\ cmd'[c].body = cmd[c].body
        /\ cmd'[c].reply = cmd[c].reply /\ cmd'[c].made = cmd[c].made
        /\ \A d \in Clients : d # c => cmd'[d] = cmd[d]
    BY <1>3, Moves
  <2> DEFINE row == [journal[k] EXCEPT !.result = cmd[c].reply]
  <2>2. row \in Row /\ row.body = cmd[c].body /\ row.result = cmd[c].reply
    BY SMTT(30), <1>1 DEF TypeOK, Row, Results
  <2>3. journal' = [journal EXCEPT ![k] = row]
    BY <1>3
  <2> HIDE DEF row
  <2>4. /\ journal' \in [Keys -> Row \cup {None}] /\ journal'[k] = row
        /\ \A j \in Keys : j # k => journal'[j] = journal[j]
    BY <1>1, <2>2, <2>3 DEF TypeOK
  <2>5. row # None
    BY <2>2, NoneIsNoRow
  <2>6. \A j \in Keys : /\ journal'[j] # None <=> journal[j] # None
                        /\ journal[j] # None => journal'[j].body = journal[j].body
    BY <1>1, <2>2, <2>4, <2>5
  <2>7. \A x \in Range(done) \cup wire : x.key \in Keys
    BY CallKeys
  <2>8. \A d \in Clients : d # c /\ AtWork(d) => cmd[d].key # k
    BY <1>1 DEF OneWay, AtWork
  <2> HIDE DEF k
  <2>9. ASSUME NEW d \in Clients PROVE HandlerOK(d)'
    <3>1. CASE d = c
      BY <1>1, <2>1, <2>6, <3>1 DEF HandlerOK, AtWork
    <3>2. CASE d # c
      <4>1. HandlerOK(d) /\ cmd'[d] = cmd[d]
        BY <2>1, <3>2 DEF OneWay
      <4> QED BY <1>1, <2>6, <4>1 DEF HandlerOK, Sent, AtWork
    <3> QED BY <3>1, <3>2
  <2>10. \A d \in Clients : AtWork(d)' = AtWork(d) /\ cmd'[d].key = cmd[d].key
    BY <1>1, <2>1 DEF AtWork, k
  <2>11. ASSUME NEW call \in wire PROVE CallOK(call)'
    <3>1. CallOK(call) /\ call.key \in Keys /\ call.from \in Clients \cup {None}
      BY <2>7 DEF OneWay, TypeOK, Call
    <3>2. call.from # None => call.from # c
      BY <1>1, <3>1 DEF CallOK
    <3> QED BY <1>1, <2>1, <2>6, <3>1, <3>2 DEF CallOK
  <2>12. OneWay'
    BY <1>1, <2>6, <2>7, <2>9, <2>10, <2>11 DEF OneWay
  <2>13. \A j, b, r : Truly(j, b, r)' = Truly(j, b, r)
    BY <1>1 DEF Truly, Sent
  <2>14. ASSUME NEW d \in Clients PROVE ReplyOK(d)'
    <3>1. Version' = Version
      BY <1>1 DEF Version
    <3>2. CASE d = c
      BY <1>1, <2>1, <2>13, <3>1, <3>2 DEF ReplyOK
    <3>3. CASE d # c
      BY <2>1, <2>13, <3>1, <3>3 DEF RepliesAreTrue, ReplyOK
    <3> QED BY <3>2, <3>3
  <2>15. \A j : NotForwarded(j) => NotForwarded(j)'
    BY <2>1 DEF NotForwarded
  <2>16. \A d \in Clients : cmd'[d].key = k => cmd'[d].at # "forward"
    BY <2>1, <2>8 DEF AtWork
  <2>17. ASSUME NEW j \in Keys PROVE RecordOK(j)'
    <3>1. CASE j = k
      BY <1>1, <2>2, <2>4, <2>13, <2>16, <3>1 DEF RecordOK, NotForwarded
    <3>2. CASE j # k
      BY <2>4, <2>13, <2>15, <3>2 DEF RepliesAreTrue, RecordOK
    <3> QED BY <3>1, <3>2
  <2>18. ASSUME NEW a \in answers PROVE AnswerOK(a)'
    BY <2>6, <2>13, <2>15 DEF RepliesAreTrue, AnswerOK, TypeOK, AnswerData
  <2>19. RepliesAreTrue'
    BY <1>1, <2>14, <2>17, <2>18 DEF RepliesAreTrue
  <2> QED BY <2>1, <2>4, <2>12, <2>19
<1> QED BY <1>2, <1>3 DEF Record

(* The caller hears what the service replied. *)
LEMMA InvalidateStep ==
  ASSUME GameApiAssumption, TypeOK, OneWay, RepliesAreTrue, NEW c \in Clients, Invalidate(c)
  PROVE  cmd' \in [Clients -> CmdData] /\ answers' \subseteq AnswerData
         /\ OneWay' /\ RepliesAreTrue' /\ cmd[c].made \in Nat /\ cmd[c].made <= Version
<1> DEFINE new == [key |-> cmd[c].key, body |-> cmd[c].body, result |-> cmd[c].reply]
<1>1. /\ cmd[c].at = "invalidate" /\ UNCHANGED <<journal, wire, done>>
      /\ answers' = answers \cup {new}
      /\ cmd[c].key \in Keys /\ cmd[c].body \in Bodies
      /\ journal[cmd[c].key] # None
      /\ cmd[c].reply \in {"success", "refused"}
      /\ Truly(cmd[c].key, cmd[c].body, cmd[c].reply) /\ cmd[c].made <= Version
  BY DEF Invalidate, OneWay, HandlerOK, AtWork, RepliesAreTrue, ReplyOK
<1>2. /\ cmd' \in [Clients -> CmdData] /\ cmd'[c] = IdleCmd
      /\ \A d \in Clients : d # c => cmd'[d] = cmd[d]
  BY Leaves DEF Invalidate
<1>3. NotForwarded(cmd[c].key)
  BY <1>1 DEF OneWay, AtWork, NotForwarded
<1>4. new \in AnswerData /\ AnswerOK(new)
  BY <1>1, <1>3 DEF AnswerData, AnswerOK
<1>5. OneWay' /\ RepliesAreTrue'
  BY <1>1, <1>2, <1>4, QuietStep DEF IdleCmd
<1> QED BY <1>1, <1>2, <1>4, <1>5 DEF TypeOK, CmdData

-----------------------------------------------------------------------------
(* Streams and the snapshot cache. *)

(* What the fields of the streams are. *)
LEMMA StreamTypes ==
  ASSUME TypeOK
  PROVE  /\ Version \in Nat /\ told \in Nat
         /\ reader \in [Readers -> ReaderData]
         /\ \A r \in Readers :
              /\ reader[r] \in ReaderData
              /\ reader[r].held \in Nat /\ reader[r].floor \in Nat
              /\ reader[r].joined \in Readers \cup {None}
BY DEF TypeOK, Version, ReaderData

(* An answer is told: what is loaded from now on must show it. *)
LEMMA InvalidateFresh ==
  ASSUME GameApiAssumption, TypeOK, LoadsAreFresh, SnapshotShowsAnswer,
         NEW c \in Clients, Invalidate(c), cmd[c].made \in Nat, cmd[c].made <= Version
  PROVE  /\ cached' \in Nat \cup {None} /\ flight' \in Readers \cup {None}
         /\ stale' \subseteq Readers /\ told' \in Nat
         /\ LoadsAreFresh' /\ SnapshotShowsAnswer'
<1>1. /\ cached' = None /\ flight' = None /\ UNCHANGED <<reader, done>>
      /\ stale' = IF flight = None THEN stale ELSE stale \cup {flight}
      /\ told' = IF cmd[c].made > told THEN cmd[c].made ELSE told
  BY DEF Invalidate
<1>2. Version' = Version /\ Version \in Nat /\ told \in Nat /\ told <= Version
  BY <1>1, StreamTypes DEF Version, LoadsAreFresh
<1>3. told' \in Nat /\ told <= told' /\ told' <= Version
  BY <1>1, <1>2
<1>4. stale' \subseteq Readers /\ stale \subseteq stale'
  BY <1>1 DEF TypeOK
<1>5. ASSUME NEW r \in Readers PROVE LoadOK(r)'
  <2>1. LoadOK(r) /\ reader[r].floor \in Nat
    BY StreamTypes DEF LoadsAreFresh
  <2>2. r \in stale' => r \in stale \/ r = flight
    BY <1>1
  <2>3. r \in stale' => Loading(r)
    BY <2>1, <2>2 DEF LoadOK, LoadsAreFresh, TypeOK
  <2>4. Loading(r) => r \in stale'
    BY <1>1, <2>1, NoneIsNobody DEF LoadOK
  <2>5. Loading(r)' = Loading(r)
    BY <1>1 DEF Loading
  <2>6. reader[r].floor <= told'
    BY <1>2, <1>3, <2>1 DEF LoadOK
  <2>7. reader[r].at = "loaded" => Loading(r)
    BY DEF Loading
  <2> QED BY <1>1, <2>1, <2>3, <2>4, <2>5, <2>6, <2>7 DEF LoadOK
<1>6. ASSUME NEW r \in Readers, NEW load \in Readers PROVE JoinOK(r, load)'
  BY <1>1 DEF LoadsAreFresh, JoinOK, Loading
<1>7. LoadsAreFresh'
  BY <1>1, <1>2, <1>3, <1>5, <1>6 DEF LoadsAreFresh
<1> QED BY <1>1, <1>3, <1>4, <1>7 DEF SnapshotShowsAnswer

(* A stream goes or begins, and holds no load. *)
LEMMA IdleStream ==
  ASSUME GameApiAssumption, TypeOK, LoadsAreFresh, SnapshotShowsAnswer, NEW r \in Readers,
         reader[r].at \in {"off", "next", "send"},
         NEW new \in ReaderData, reader' = [reader EXCEPT ![r] = new],
         new.at \in {"off", "next"}, new.floor <= told, new.joined = None,
         UNCHANGED <<done, cached, flight, stale, told>>
  PROVE  reader' \in [Readers -> ReaderData] /\ LoadsAreFresh' /\ SnapshotShowsAnswer'
<1>1. /\ reader' \in [Readers -> ReaderData] /\ reader'[r] = new
      /\ \A x \in Readers : x # r => reader'[x] = reader[x]
  BY DEF TypeOK
<1>2. ~Loading(r) /\ ~Loading(r)' /\ \A x \in Readers : Loading(x)' = Loading(x)
  BY <1>1 DEF Loading
<1>3. ASSUME NEW x \in Readers PROVE LoadOK(x)'
  BY <1>1, <1>2 DEF LoadsAreFresh, LoadOK
<1>4. ASSUME NEW x \in Readers, NEW load \in Readers PROVE JoinOK(x, load)'
  <2>1. JoinOK(x, load)
    BY DEF LoadsAreFresh
  <2>2. CASE x = r
    BY <1>1, <2>2, NoneIsNobody DEF JoinOK
  <2>3. CASE x # r
    BY <1>1, <1>2, <2>1, <2>3 DEF JoinOK
  <2> QED BY <2>2, <2>3
<1>5. LoadsAreFresh'
  BY <1>2, <1>3, <1>4 DEF LoadsAreFresh, Version, TypeOK
<1>6. SnapshotShowsAnswer'
  BY <1>1 DEF SnapshotShowsAnswer
<1> QED BY <1>1, <1>5, <1>6

(* A reserved stream keeps the loads fresh. *)
LEMMA ReserveFresh ==
  ASSUME GameApiAssumption, TypeOK, LoadsAreFresh, SnapshotShowsAnswer, NEW r \in Readers,
         Reserve(r) \/ Send(r) \/ Release(r)
  PROVE  reader' \in [Readers -> ReaderData] /\ LoadsAreFresh' /\ SnapshotShowsAnswer'
<1>1. reader[r] \in ReaderData /\ reader[r].floor <= told /\ told \in Nat
  BY StreamTypes DEF LoadsAreFresh, LoadOK
<1>2. UNCHANGED <<done, cached, flight, stale, told>>
  BY DEF Reserve, Send, Release
<1>3. Off \in ReaderData /\ Off.at \in {"off", "next"} /\ Off.floor <= told /\ Off.joined = None
  BY <1>1 DEF Off, ReaderData
<1>4. reader[r].at = "send" => reader[r].joined = None
  BY StreamTypes DEF LoadsAreFresh, JoinOK
<1>5. CASE reader' = [reader EXCEPT ![r] = Off] /\ reader[r].at \in {"next", "send"}
  <2>1. reader[r].at \in {"off", "next", "send"}
    BY <1>5
  <2> QED BY <1>2, <1>3, <1>5, <2>1, IdleStream
<1>6. CASE Reserve(r)
  <2> DEFINE new == [Off EXCEPT !.at = "next"]
  <2>1. new \in ReaderData /\ new.at \in {"off", "next"} /\ new.floor <= told /\ new.joined = None
    BY <1>1 DEF Off, ReaderData
  <2>2. reader' = [reader EXCEPT ![r] = new] /\ reader[r].at \in {"off", "next", "send"}
    BY <1>6 DEF Reserve, Off
  <2> HIDE DEF new
  <2> QED BY <1>2, <2>1, <2>2, IdleStream
<1>7. CASE reader' = [reader EXCEPT ![r].at = "next", ![r].floor = 0] /\ reader[r].at = "send"
  <2> DEFINE new == [reader[r] EXCEPT !.at = "next", !.floor = 0]
  <2>1. new \in ReaderData /\ new.at \in {"off", "next"} /\ new.floor <= told /\ new.joined = None
    <3>1. new \in ReaderData /\ new.at = "next" /\ new.floor = 0 /\ new.joined = reader[r].joined
      BY <1>1 DEF ReaderData
    <3>2. 0 <= told
      BY <1>1
    <3> QED BY <1>4, <1>7, <3>1, <3>2
  <2>2. reader' = [reader EXCEPT ![r] = new] /\ reader[r].at \in {"off", "next", "send"}
    BY <1>1, <1>7 DEF TypeOK
  <2> HIDE DEF new
  <2> QED BY <1>2, <2>1, <2>2, IdleStream
<1> QED BY <1>5, <1>6, <1>7 DEF Reserve, Send, Release

(* What is asked for: the entry, the load under way or a load of its own. *)
LEMMA GetFresh ==
  ASSUME GameApiAssumption, TypeOK, LoadsAreFresh, SnapshotShowsAnswer, NEW r \in Readers, Get(r)
  PROVE  /\ reader' \in [Readers -> ReaderData] /\ flight' \in Readers \cup {None}
         /\ LoadsAreFresh' /\ SnapshotShowsAnswer'
<1> DEFINE new == [reader[r] EXCEPT !.floor = told,
                     !.at = IF cached # None THEN "send" ELSE IF flight # None THEN "join"
                                                              ELSE "load",
                     !.held = IF cached # None THEN cached ELSE @,
                     !.joined = IF cached = None THEN flight ELSE None]
<1>1. reader[r] \in ReaderData /\ told \in Nat /\ reader[r].at = "next"
  BY StreamTypes DEF Get
<1>2. cached \in Nat \cup {None} /\ flight \in Readers \cup {None}
  BY DEF TypeOK
<1>3. /\ new \in ReaderData /\ new.floor = told
      /\ new.at = IF cached # None THEN "send" ELSE IF flight # None THEN "join" ELSE "load"
      /\ cached # None => new.held = cached
      /\ new.joined = IF cached = None THEN flight ELSE None
  BY <1>1, <1>2 DEF ReaderData
<1>4. reader' = [reader EXCEPT ![r] = new]
  BY <1>1 DEF Get, TypeOK
<1> HIDE DEF new
<1>5. /\ reader' \in [Readers -> ReaderData] /\ reader'[r] = new
      /\ \A x \in Readers : x # r => reader'[x] = reader[x]
  BY <1>3, <1>4 DEF TypeOK
<1>6. /\ UNCHANGED <<done, cached, stale, told>>
      /\ flight' = IF cached = None /\ flight = None THEN r ELSE flight
  BY DEF Get
<1>7. ~Loading(r) /\ r \notin stale /\ flight # r
  BY <1>1, NoneIsNobody DEF LoadsAreFresh, LoadOK, Loading
<1>8. \A x \in Readers : x # r => Loading(x)' = Loading(x)
  BY <1>5 DEF Loading
<1>9. flight # None => /\ Loading(flight) /\ flight \in Readers /\ flight \notin stale
                       /\ flight' = flight /\ Loading(r)' = FALSE
                       /\ reader'[flight] = reader[flight]
  BY <1>2, <1>3, <1>5, <1>6, <1>7 DEF LoadsAreFresh, Loading
<1>10. ASSUME NEW x \in Readers PROVE LoadOK(x)'
  <2>1. LoadOK(x)
    BY DEF LoadsAreFresh
  <2>2. CASE x = r
    BY <1>1, <1>3, <1>5, <1>6, <1>7, <2>2 DEF LoadOK, Loading
  <2>3. CASE x # r
    <3>1. reader'[x] = reader[x] /\ Loading(x)' = Loading(x)
      BY <1>5, <1>8, <2>3
    <3>2. Loading(x) /\ x \notin stale => flight' = x
      BY <1>6, <2>1, NoneIsNobody DEF LoadOK
    <3> QED BY <1>6, <2>1, <3>1, <3>2 DEF LoadOK
  <2> QED BY <2>2, <2>3
<1>11. ASSUME NEW x \in Readers, NEW load \in Readers PROVE JoinOK(x, load)'
  <2>1. JoinOK(x, load)
    BY DEF LoadsAreFresh
  <2>2. CASE x = r
    <3> SUFFICES ASSUME reader'[r].joined = load PROVE JoinOK(x, load)'
      BY <2>2 DEF JoinOK
    <3>1. cached = None /\ flight = load /\ flight # None /\ new.at = "join"
      BY <1>3, <1>5, NoneIsNobody
    <3>2. LoadOK(load) /\ Loading(load) /\ load \notin stale /\ reader'[load] = reader[load]
      BY <1>9, <3>1 DEF LoadsAreFresh
    <3>3. reader[load].at = "loaded" => reader[load].held >= told
      BY <3>2 DEF LoadOK
    <3> QED BY <1>3, <1>5, <2>2, <3>1, <3>2, <3>3 DEF JoinOK, Loading
  <2>3. CASE x # r
    BY <1>5, <1>7, <1>8, <2>1, <2>3 DEF JoinOK
  <2> QED BY <2>2, <2>3
<1>12. flight' # None => Loading(flight)' /\ flight' \notin stale
  <2>1. CASE flight # None
    BY <1>9, <2>1 DEF Loading
  <2>2. CASE flight = None
    BY <1>3, <1>5, <1>6, <1>7, <2>2 DEF Loading
  <2> QED BY <2>1, <2>2
<1>13. LoadsAreFresh'
  BY <1>6, <1>10, <1>11, <1>12 DEF LoadsAreFresh, Version
<1>14. SnapshotShowsAnswer'
  <2> SUFFICES ASSUME NEW x \in Readers, reader'[x].at = "send"
               PROVE  reader'[x].held >= reader'[x].floor
    BY DEF SnapshotShowsAnswer
  <2>1. CASE x = r
    BY <1>3, <1>5, <2>1 DEF LoadsAreFresh
  <2>2. CASE x # r
    BY <1>5, <2>2 DEF SnapshotShowsAnswer
  <2> QED BY <2>1, <2>2
<1> QED BY <1>2, <1>5, <1>6, <1>13, <1>14

(* What is loaded is as new as the ledger service is. *)
LEMMA LoadFresh ==
  ASSUME GameApiAssumption, TypeOK, LoadsAreFresh, SnapshotShowsAnswer, NEW r \in Readers, Load(r)
  PROVE  reader' \in [Readers -> ReaderData] /\ LoadsAreFresh' /\ SnapshotShowsAnswer'
<1> DEFINE new == [reader[r] EXCEPT !.at = "loaded", !.held = Version]
<1>1. reader[r] \in ReaderData /\ told \in Nat /\ Version \in Nat /\ reader[r].at = "load"
  BY StreamTypes DEF Load
<1>2. /\ new \in ReaderData /\ new.at = "loaded" /\ new.held = Version
      /\ new.floor = reader[r].floor /\ new.joined = reader[r].joined
  BY <1>1 DEF ReaderData
<1>3. reader' = [reader EXCEPT ![r] = new]
  BY <1>1 DEF Load, TypeOK
<1> HIDE DEF new
<1>4. /\ reader' \in [Readers -> ReaderData] /\ reader'[r] = new
      /\ \A x \in Readers : x # r => reader'[x] = reader[x]
  BY <1>2, <1>3 DEF TypeOK
<1>5. UNCHANGED <<done, cached, flight, stale, told>> /\ Version' = Version
  BY DEF Load, Version
<1>6. \A x \in Readers : Loading(x)' = Loading(x)
  BY <1>1, <1>2, <1>4 DEF Loading
<1>7. told <= Version /\ \A x \in Readers : reader[x].floor \in Nat /\ reader[x].floor <= told
  BY StreamTypes DEF LoadsAreFresh, LoadOK
<1>8. \A x \in Readers : Version >= reader[x].floor
  BY <1>1, <1>7
<1>9. ASSUME NEW x \in Readers PROVE LoadOK(x)'
  BY <1>1, <1>2, <1>4, <1>5, <1>6, <1>7, <1>8 DEF LoadsAreFresh, LoadOK
<1>10. ASSUME NEW x \in Readers, NEW load \in Readers PROVE JoinOK(x, load)'
  <2>1. JoinOK(x, load) /\ JoinOK(r, load)
    BY DEF LoadsAreFresh
  <2>2. reader'[x].joined = reader[x].joined /\ reader'[x].floor = reader[x].floor
    BY <1>2, <1>4
  <2>3. reader'[x].joined # load \/ x # r
    BY <1>1, <2>1, <2>2 DEF JoinOK
  <2>4. CASE load = r
    BY <1>2, <1>4, <1>6, <1>8, <2>1, <2>2, <2>3, <2>4 DEF JoinOK
  <2>5. CASE load # r
    BY <1>4, <1>6, <2>1, <2>2, <2>3, <2>5 DEF JoinOK
  <2> QED BY <2>4, <2>5
<1>11. LoadsAreFresh'
  BY <1>5, <1>6, <1>9, <1>10 DEF LoadsAreFresh, TypeOK
<1>12. SnapshotShowsAnswer'
  BY <1>2, <1>4 DEF SnapshotShowsAnswer
<1> QED BY <1>4, <1>11, <1>12

(* A load is over, and so is the wait of whoever joined it. *)
LEMMA SettleFresh ==
  ASSUME GameApiAssumption, TypeOK, LoadsAreFresh, SnapshotShowsAnswer, NEW r \in Readers,
         Loading(r), NEW at \in {"next", "send"},
         \A x \in Readers :
           IF x = r \/ reader[x].joined = r
             THEN /\ reader'[x] \in ReaderData
                  /\ reader'[x].at = at /\ reader'[x].joined = None
                  /\ reader'[x].floor = reader[x].floor
                  /\ at = "send" => reader'[x].held >= reader[x].floor
             ELSE reader'[x] = reader[x],
         reader' = [x \in Readers |-> reader'[x]],
         stale' = stale \ {r}, flight' = (IF flight = r THEN None ELSE flight),
         cached' \in Nat \cup {None}, cached' # None => cached' >= told,
         UNCHANGED <<told, done>>
  PROVE  /\ reader' \in [Readers -> ReaderData] /\ flight' \in Readers \cup {None}
         /\ stale' \subseteq Readers
         /\ LoadsAreFresh' /\ SnapshotShowsAnswer'
<1>1. reader' \in [Readers -> ReaderData]
  <2>1. \A x \in Readers : reader'[x] \in ReaderData
    BY DEF TypeOK
  <2> QED BY <2>1
<1>2. flight' \in Readers \cup {None} /\ stale' \subseteq Readers
  BY DEF TypeOK
<1>3. \A x \in Readers : reader[x].joined = r => ~Loading(x)
  BY DEF LoadsAreFresh, JoinOK, Loading
<1>4. \A x \in Readers : IF x = r THEN ~Loading(x)' ELSE Loading(x)' = Loading(x)
  BY <1>3 DEF Loading
<1>5. \A x \in Readers : x # r /\ Loading(x) => reader'[x] = reader[x]
  BY <1>3
<1>6. \A x \in Readers : reader'[x].floor = reader[x].floor
  OBVIOUS
<1>7. ASSUME NEW x \in Readers PROVE LoadOK(x)'
  <2>1. LoadOK(x)
    BY DEF LoadsAreFresh
  <2>2. CASE x = r
    BY <1>4, <1>6, <2>1, <2>2 DEF LoadOK, Loading
  <2>3. CASE x # r
    <3>1. reader'[x].at = "loaded" => Loading(x) /\ reader'[x] = reader[x]
      BY <1>4, <1>5, <2>3 DEF Loading
    <3>2. x \in stale' <=> x \in stale
      BY <2>3
    <3>3. Loading(x) /\ x \notin stale => flight' = x
      BY <2>1, <2>3 DEF LoadOK
    <3> QED BY <1>4, <1>6, <2>1, <2>3, <3>1, <3>2, <3>3 DEF LoadOK
  <2> QED BY <2>2, <2>3
<1>8. ASSUME NEW x \in Readers, NEW load \in Readers PROVE JoinOK(x, load)'
  <2> SUFFICES ASSUME reader'[x].joined = load PROVE JoinOK(x, load)'
    BY DEF JoinOK
  <2>1. JoinOK(x, load) /\ x # r /\ reader[x].joined # r /\ reader'[x] = reader[x]
    BY NoneIsNobody DEF LoadsAreFresh
  <2>2. load # r
    BY <2>1
  <2> QED BY <1>4, <1>5, <2>1, <2>2 DEF JoinOK
<1>9. flight' # None => Loading(flight)' /\ flight' \notin stale'
  <2> SUFFICES ASSUME flight' # None PROVE Loading(flight)' /\ flight' \notin stale'
    OBVIOUS
  <2>1. flight' = flight /\ flight # r /\ flight # None /\ flight \in Readers
    BY DEF TypeOK
  <2>2. Loading(flight) /\ flight \notin stale
    BY <2>1 DEF LoadsAreFresh
  <2>3. reader'[flight] = reader[flight]
    BY <1>5, <2>1, <2>2
  <2> QED BY <2>1, <2>2, <2>3 DEF Loading
<1>10. LoadsAreFresh'
  BY <1>7, <1>8, <1>9 DEF LoadsAreFresh, Version
<1>11. SnapshotShowsAnswer'
  BY DEF SnapshotShowsAnswer
<1> QED BY <1>1, <1>2, <1>10, <1>11

(* So does a load that comes in, *)
LEMMA LandFresh ==
  ASSUME GameApiAssumption, TypeOK, LoadsAreFresh, SnapshotShowsAnswer, NEW r \in Readers, Land(r)
  PROVE  /\ reader' \in [Readers -> ReaderData] /\ flight' \in Readers \cup {None}
         /\ stale' \subseteq Readers /\ cached' \in Nat \cup {None}
         /\ LoadsAreFresh' /\ SnapshotShowsAnswer'
<1> DEFINE held == reader[r].held
<1>1. /\ reader[r].at = "loaded" /\ Loading(r) /\ held \in Nat
      /\ held >= reader[r].floor /\ (r \notin stale => held >= told)
  BY StreamTypes DEF Land, Loading, LoadsAreFresh, LoadOK
<1>2. \A x \in Readers : x = r \/ reader[x].joined = r => held >= reader[x].floor
  BY <1>1 DEF LoadsAreFresh, JoinOK
<1>3. ASSUME NEW x \in Readers
      PROVE  IF x = r \/ reader[x].joined = r
               THEN /\ reader'[x] \in ReaderData
                    /\ reader'[x].at = "send" /\ reader'[x].joined = None
                    /\ reader'[x].floor = reader[x].floor
                    /\ reader'[x].held = held
               ELSE reader'[x] = reader[x]
  <2>1. reader'[x] = IF x = r \/ reader[x].joined = r
                       THEN [reader[x] EXCEPT !.at = "send", !.held = held, !.joined = None]
                       ELSE reader[x]
    BY DEF Land, Settled
  <2>2. reader[x] \in ReaderData
    BY StreamTypes
  <2> HIDE DEF held
  <2> QED BY <1>1, <2>1, <2>2 DEF ReaderData
<1>4. /\ stale' = stale \ {r} /\ flight' = IF flight = r THEN None ELSE flight
      /\ cached' = IF r \in stale THEN cached ELSE held
      /\ reader' = [x \in Readers |-> reader'[x]] /\ UNCHANGED <<told, done>>
  BY DEF Land, Settled
<1> HIDE DEF held
<1>5. cached' \in Nat \cup {None} /\ (cached' # None => cached' >= told)
  BY <1>1, <1>4 DEF TypeOK, LoadsAreFresh
<1>6. \A x \in Readers :
        IF x = r \/ reader[x].joined = r
          THEN /\ reader'[x] \in ReaderData
               /\ reader'[x].at = "send" /\ reader'[x].joined = None
               /\ reader'[x].floor = reader[x].floor
               /\ "send" = "send" => reader'[x].held >= reader[x].floor
          ELSE reader'[x] = reader[x]
  BY <1>2, <1>3
<1> QED BY <1>1, <1>4, <1>5, <1>6, SettleFresh

(* or fails. *)
LEMMA LoadFailsFresh ==
  ASSUME GameApiAssumption, TypeOK, LoadsAreFresh, SnapshotShowsAnswer, NEW r \in Readers,
         LoadFails(r)
  PROVE  /\ reader' \in [Readers -> ReaderData] /\ flight' \in Readers \cup {None}
         /\ stale' \subseteq Readers
         /\ LoadsAreFresh' /\ SnapshotShowsAnswer'
<1>1. Loading(r)
  BY DEF LoadFails, Loading
<1>2. ASSUME NEW x \in Readers
      PROVE  IF x = r \/ reader[x].joined = r
               THEN /\ reader'[x] \in ReaderData
                    /\ reader'[x].at = "next" /\ reader'[x].joined = None
                    /\ reader'[x].floor = reader[x].floor
               ELSE reader'[x] = reader[x]
  <2>1. reader'[x] = IF x = r \/ reader[x].joined = r
                       THEN [reader[x] EXCEPT !.at = "next", !.joined = None]
                       ELSE reader[x]
    BY DEF LoadFails
  <2>2. reader[x] \in ReaderData
    BY StreamTypes
  <2> QED BY <2>1, <2>2 DEF ReaderData
<1>3. /\ stale' = stale \ {r} /\ flight' = IF flight = r THEN None ELSE flight
      /\ reader' = [x \in Readers |-> reader'[x]] /\ UNCHANGED <<told, done, cached>>
  BY DEF LoadFails
<1>4. cached' \in Nat \cup {None} /\ (cached' # None => cached' >= told)
  BY <1>3 DEF TypeOK, LoadsAreFresh
<1>5. \A x \in Readers :
        IF x = r \/ reader[x].joined = r
          THEN /\ reader'[x] \in ReaderData
               /\ reader'[x].at = "next" /\ reader'[x].joined = None
               /\ reader'[x].floor = reader[x].floor
               /\ "next" = "send" => reader'[x].held >= reader[x].floor
          ELSE reader'[x] = reader[x]
  BY <1>2
<1> QED BY <1>1, <1>3, <1>4, <1>5, SettleFresh

(* So does a stop or a crash. *)
LEMMA GoneFresh ==
  ASSUME GameApiAssumption, TypeOK, LoadsAreFresh, Gone, UNCHANGED <<done, told>>
  PROVE  /\ reader' \in [Readers -> ReaderData] /\ flight' \in Readers \cup {None}
         /\ stale' \subseteq Readers /\ cached' \in Nat \cup {None}
         /\ LoadsAreFresh' /\ SnapshotShowsAnswer'
<1>1. Off \in ReaderData /\ Off.at = "off" /\ Off.floor = 0 /\ Off.joined = None
  BY DEF Off, ReaderData
<1>2. /\ reader' \in [Readers -> ReaderData] /\ \A r \in Readers : reader'[r] = Off
      /\ cached' = None /\ flight' = None /\ stale' = {}
  BY <1>1 DEF Gone
<1>3. told \in Nat
  BY DEF TypeOK
<1>4. LoadsAreFresh'
  BY <1>1, <1>2, <1>3, NoneIsNobody DEF LoadsAreFresh, LoadOK, JoinOK, Loading, Version
<1> QED BY <1>1, <1>2, <1>4 DEF SnapshotShowsAnswer

(* So does an entry that expires. *)
LEMMA ExpireFresh ==
  ASSUME TypeOK, LoadsAreFresh, SnapshotShowsAnswer, Expire
  PROVE  cached' \in Nat \cup {None} /\ LoadsAreFresh' /\ SnapshotShowsAnswer'
BY DEF Expire, LoadsAreFresh, LoadOK, JoinOK, Loading, SnapshotShowsAnswer, Version

-----------------------------------------------------------------------------
(* Every step. *)

(* What a handler does. *)
LEMMA HandlerInv ==
  ASSUME GameApiAssumption, IInv, NEW c \in Clients, Handler(c)
  PROVE  IInv'
<1> USE DEF IInv
<1>1. UNCHANGED <<done, reader, service>> /\ CarriedOutOnce'
  BY DEF Handler, Command, Insert, LookAgain, Forward, GiveUp, Record, Invalidate, CarriedOutOnce,
         api, budget
<1>2. {calls, reads, troubles, stops} \subseteq Nat
      /\ \A n \in Nat : n + 1 \in Nat
  BY DEF TypeOK
<1>3. CASE \E k \in Keys, b \in Bodies : Command(c, k, b)
  <2>1. PICK k \in Keys, b \in Bodies : Command(c, k, b)
    BY <1>3
  <2>2. cmd' \in [Clients -> CmdData] /\ answers' \subseteq AnswerData /\ OneWay' /\ RepliesAreTrue'
    BY <2>1, CommandStep
  <2>3. /\ UNCHANGED <<journal, wire, done, api, service, reads, troubles, stops, told>>
        /\ calls' = calls + 1
    BY <2>1 DEF Command
  <2>4. LoadsAreFresh' /\ SnapshotShowsAnswer'
    BY <2>3, StreamsAlone
  <2>5. TypeOK'
    BY <2>2, <2>3 DEF TypeOK, api
  <2> QED BY <1>1, <2>2, <2>4, <2>5
<1>4. CASE Insert(c)
  <2>1. cmd' \in [Clients -> CmdData] /\ journal' \in [Keys -> Row \cup {None}]
        /\ OneWay' /\ RepliesAreTrue'
    BY <1>4, InsertStep
  <2>2. /\ UNCHANGED <<wire, done, api, service, calls, reads, stops, told, answers>>
        /\ troubles' \in {troubles, troubles + 1}
    BY <1>4 DEF Insert, Trouble, NoTrouble
  <2>3. LoadsAreFresh' /\ SnapshotShowsAnswer'
    BY <2>2, StreamsAlone
  <2>4. TypeOK'
    BY <2>1, <2>2 DEF TypeOK, api
  <2> QED BY <1>1, <2>1, <2>3, <2>4
<1>5. CASE LookAgain(c)
  <2>1. cmd' \in [Clients -> CmdData] /\ answers' \subseteq AnswerData /\ OneWay' /\ RepliesAreTrue'
    BY <1>5, LookAgainStep
  <2>2. UNCHANGED <<journal, wire, done, api, service, budget, told>>
    BY <1>5 DEF LookAgain
  <2>3. LoadsAreFresh' /\ SnapshotShowsAnswer'
    BY <2>2, StreamsAlone
  <2>4. TypeOK'
    BY <2>1, <2>2 DEF TypeOK, api, budget
  <2> QED BY <1>1, <2>1, <2>3, <2>4
<1>6. CASE Forward(c)
  <2>1. cmd' \in [Clients -> CmdData] /\ wire' \subseteq Call /\ OneWay' /\ RepliesAreTrue'
    BY <1>6, ForwardStep
  <2>2. UNCHANGED <<journal, done, api, service, budget,
                   told, answers>>
    BY <1>6 DEF Forward
  <2>3. LoadsAreFresh' /\ SnapshotShowsAnswer'
    BY <2>2, StreamsAlone
  <2>4. TypeOK'
    BY <2>1, <2>2 DEF TypeOK, api, budget
  <2> QED BY <1>1, <2>1, <2>3, <2>4
<1>7. CASE GiveUp(c)
  <2>1. cmd' \in [Clients -> CmdData] /\ wire' \subseteq Call /\ OneWay' /\ RepliesAreTrue'
    BY <1>7, GiveUpStep
  <2>2. /\ UNCHANGED <<journal, done, api, service, calls, reads, stops, told, answers>>
        /\ troubles' = troubles + 1
    BY <1>7 DEF GiveUp, Trouble
  <2>3. LoadsAreFresh' /\ SnapshotShowsAnswer'
    BY <2>2, StreamsAlone
  <2>4. TypeOK'
    BY <2>1, <2>2 DEF TypeOK, api
  <2> QED BY <1>1, <2>1, <2>3, <2>4
<1>8. CASE Record(c)
  <2>1. cmd' \in [Clients -> CmdData] /\ journal' \in [Keys -> Row \cup {None}]
        /\ OneWay' /\ RepliesAreTrue'
    BY <1>8, RecordStep
  <2>2. /\ UNCHANGED <<wire, done, api, service, calls, reads, stops, told, answers>>
        /\ troubles' \in {troubles, troubles + 1}
    BY <1>8 DEF Record, Trouble, NoTrouble
  <2>3. LoadsAreFresh' /\ SnapshotShowsAnswer'
    BY <2>2, StreamsAlone
  <2>4. TypeOK'
    BY <2>1, <2>2 DEF TypeOK, api
  <2> QED BY <1>1, <2>1, <2>3, <2>4
<1>9. CASE Invalidate(c)
  <2>1. cmd' \in [Clients -> CmdData] /\ answers' \subseteq AnswerData
        /\ OneWay' /\ RepliesAreTrue' /\ cmd[c].made \in Nat /\ cmd[c].made <= Version
    BY <1>9, InvalidateStep
  <2>2. /\ cached' \in Nat \cup {None} /\ flight' \in Readers \cup {None}
        /\ stale' \subseteq Readers /\ told' \in Nat
        /\ LoadsAreFresh' /\ SnapshotShowsAnswer'
    BY <1>9, <2>1, InvalidateFresh
  <2>3. UNCHANGED <<journal, wire, done, reader, service, budget>>
    BY <1>9 DEF Invalidate
  <2>4. TypeOK'
    BY <2>1, <2>2, <2>3 DEF TypeOK, budget
  <2> QED BY <1>1, <2>1, <2>2, <2>4
<1> QED BY <1>3, <1>4, <1>5, <1>6, <1>7, <1>8, <1>9 DEF Handler

(* What the ledger service does. *)
LEMMA LedgerInv ==
  ASSUME GameApiAssumption, IInv, NEW call \in wire, CarryOut(call) \/ Refuse(call)
  PROVE  IInv'
<1> USE DEF IInv
<1>1. CASE CarryOut(call)
  <2>1. /\ cmd' \in [Clients -> CmdData] /\ wire' \subseteq Call
        /\ done' \in Seq([key : Keys, body : Bodies])
        /\ OneWay' /\ RepliesAreTrue' /\ CarriedOutOnce'
    BY <1>1, CarryOutStep
  <2>2. /\ UNCHANGED <<journal, api, service, budget,
                   told, answers>>
        /\ done' = Append(done, [key |-> call.key, body |-> call.body])
    BY <1>1 DEF CarryOut
  <2>3. [key |-> call.key, body |-> call.body] \in [key : Keys, body : Bodies]
    BY DEF TypeOK, Call
  <2>4. LoadsAreFresh' /\ SnapshotShowsAnswer'
    BY <2>2, <2>3, StreamsAlone
  <2>5. TypeOK'
    BY <2>1, <2>2 DEF TypeOK, api, budget
  <2> QED BY <2>1, <2>4, <2>5
<1>2. CASE Refuse(call)
  <2>1. cmd' \in [Clients -> CmdData] /\ wire' \subseteq Call /\ OneWay' /\ RepliesAreTrue'
    BY <1>2, RefuseStep
  <2>2. UNCHANGED <<journal, done, api, service, budget,
                   told, answers>>
    BY <1>2 DEF Refuse
  <2>3. LoadsAreFresh' /\ SnapshotShowsAnswer' /\ CarriedOutOnce'
    BY <2>2, StreamsAlone DEF CarriedOutOnce
  <2>4. TypeOK'
    BY <2>1, <2>2 DEF TypeOK, api, budget
  <2> QED BY <2>1, <2>3, <2>4
<1> QED BY <1>1, <1>2

(* What a stream does. *)
LEMMA StreamInv ==
  ASSUME GameApiAssumption, IInv, NEW r \in Readers, Streaming(r)
  PROVE  IInv'
<1> USE DEF IInv
<1>1. UNCHANGED <<journal, wire, done, cmd, service, told, answers>>
  BY DEF Streaming, Working, Reserve, Get, Load, Land, LoadFails, Send, Release, budget
<1>2. OneWay' /\ RepliesAreTrue' /\ CarriedOutOnce'
  BY <1>1, CommandsAlone DEF CarriedOutOnce
<1>3. /\ reader' \in [Readers -> ReaderData] /\ flight' \in Readers \cup {None}
      /\ stale' \subseteq Readers /\ cached' \in Nat \cup {None}
      /\ LoadsAreFresh' /\ SnapshotShowsAnswer'
  <2>1. /\ flight \in Readers \cup {None} /\ stale \subseteq Readers
        /\ cached \in Nat \cup {None}
    BY DEF TypeOK
  <2>2. CASE Reserve(r) \/ Send(r) \/ Release(r)
    <3>1. UNCHANGED <<cached, flight, stale>>
      BY <2>2 DEF Reserve, Send, Release
    <3> QED BY <2>1, <2>2, <3>1, ReserveFresh
  <2>3. CASE Get(r)
    <3>1. UNCHANGED <<cached, stale>>
      BY <2>3 DEF Get
    <3> QED BY <2>1, <2>3, <3>1, GetFresh
  <2>4. CASE Load(r)
    <3>1. UNCHANGED <<cached, flight, stale>>
      BY <2>4 DEF Load
    <3> QED BY <2>1, <2>4, <3>1, LoadFresh
  <2>5. CASE Land(r)
    BY <2>5, LandFresh
  <2>6. CASE LoadFails(r)
    <3>1. UNCHANGED cached
      BY <2>6 DEF LoadFails
    <3> QED BY <2>1, <2>6, <3>1, LoadFailsFresh
  <2> QED BY <2>2, <2>3, <2>4, <2>5, <2>6 DEF Streaming, Working
<1>4. /\ calls' = calls /\ stops' = stops
      /\ reads' \in {reads, reads + 1} /\ troubles' \in {troubles, troubles + 1}
  BY DEF Streaming, Working, Reserve, Get, Load, Land, LoadFails, Send, Release, budget, Trouble
<1>5. TypeOK'
  BY SMTT(30), <1>1, <1>3, <1>4 DEF TypeOK
<1> QED BY <1>2, <1>3, <1>5

(* What the service does as a whole. *)
LEMMA ServiceInv ==
  ASSUME GameApiAssumption, IInv, Expire \/ Stop \/ Close \/ Crash \/ Start
  PROVE  IInv'
<1> USE DEF IInv
<1>1. CASE Expire
  <2>1. UNCHANGED <<journal, wire, done, cmd, flight, stale, reader, service, budget,
                   told, answers>>
    BY <1>1 DEF Expire
  <2>2. OneWay' /\ RepliesAreTrue' /\ CarriedOutOnce'
    BY <2>1, CommandsAlone DEF CarriedOutOnce
  <2>3. cached' \in Nat \cup {None} /\ LoadsAreFresh' /\ SnapshotShowsAnswer'
    BY <1>1, ExpireFresh
  <2>4. TypeOK'
    BY <2>1, <2>3 DEF TypeOK, budget
  <2> QED BY <2>2, <2>3, <2>4
<1>2. CASE Stop \/ Start
  <2>1. /\ UNCHANGED <<journal, wire, done, cmd, api, calls, reads, troubles, told, answers>>
        /\ service' \in {"open", "stopping"} /\ stops' \in {stops, stops + 1}
    BY <1>2 DEF Stop, Start, budget
  <2>2. OneWay' /\ RepliesAreTrue' /\ CarriedOutOnce'
    BY <2>1, CommandsAlone DEF CarriedOutOnce
  <2>3. LoadsAreFresh' /\ SnapshotShowsAnswer'
    BY <2>1, StreamsAlone
  <2>4. TypeOK'
    BY <2>1 DEF TypeOK, api
  <2> QED BY <2>2, <2>3, <2>4
<1>3. CASE Close \/ Crash
  <2>1. /\ Gone /\ UNCHANGED <<journal, done, calls, reads, troubles, told, answers>>
        /\ service' = "down" /\ stops' \in {stops, stops + 1}
    BY <1>3 DEF Close, Crash, budget
  <2>2. cmd' \in [Clients -> CmdData] /\ wire' \subseteq Call /\ OneWay' /\ RepliesAreTrue'
    BY <2>1, GoneStep
  <2>3. /\ reader' \in [Readers -> ReaderData] /\ flight' \in Readers \cup {None}
        /\ stale' \subseteq Readers /\ cached' \in Nat \cup {None}
        /\ LoadsAreFresh' /\ SnapshotShowsAnswer'
    BY <2>1, GoneFresh
  <2>4. TypeOK' /\ CarriedOutOnce'
    BY SMTT(30), <2>1, <2>2, <2>3 DEF TypeOK, CarriedOutOnce
  <2> QED BY <2>2, <2>3, <2>4
<1> QED BY <1>1, <1>2, <1>3

(* So every step keeps the invariant of GameApi. *)
LEMMA NextInv == ASSUME GameApiAssumption, IInv, [Next]_vars PROVE IInv'
<1>1. CASE Next
  BY <1>1, HandlerInv, LedgerInv, StreamInv, ServiceInv DEF Next
<1>2. CASE UNCHANGED vars
  <2>1. OneWay' /\ RepliesAreTrue'
    BY <1>2, CommandsAlone DEF vars, IInv
  <2>2. LoadsAreFresh' /\ SnapshotShowsAnswer'
    BY <1>2, StreamsAlone DEF vars, IInv
  <2>3. TypeOK' /\ CarriedOutOnce'
    BY <1>2 DEF vars, api, budget, IInv, TypeOK, CarriedOutOnce
  <2> QED BY <2>1, <2>2, <2>3 DEF IInv
<1> QED BY <1>1, <1>2

(* The inductive invariant holds in every reachable state. *)
THEOREM Inductive == Spec => []IInv
<1>1. Init => IInv
  BY InitInv
<1>2. IInv /\ [Next]_vars => IInv'
  BY GameApiAssumption, NextInv
<1> QED BY <1>1, <1>2, PTL DEF Spec

(* Every variable of the game API always holds values of its type. *)
THEOREM TypeCorrect == Spec => []TypeOK
<1>1. IInv => TypeOK
  BY DEF IInv
<1> QED BY <1>1, Inductive, PTL

(* However requests repeat and overlap, answers are lost, calls are carried
   out late and the API crashes and restarts, the ledger service carries out
   at most one command per idempotency key. *)
THEOREM KeyOnce == Spec => []CarriedOutOnce
<1>1. IInv => CarriedOutOnce
  BY DEF IInv
<1> QED BY <1>1, Inductive, PTL

(* What a client was told of a key is what happened, and stays so: a success
   was carried out with its body, a refused command never is. *)
THEOREM AnswersTrue == Spec => []AnswersAreTrue
<1>1. IInv => AnswersAreTrue
  <2> SUFFICES ASSUME IInv, NEW a \in answers
               PROVE  IF a.result = "success"
                        THEN [key |-> a.key, body |-> a.body] \in Range(done)
                        ELSE \A call \in Range(done) \cup wire : call.key # a.key
    BY DEF AnswersAreTrue
  <2>1. Truly(a.key, a.body, a.result)
    BY DEF IInv, RepliesAreTrue, AnswerOK
  <2>2. a.result \in {"success", "refused"}
    BY DEF IInv, TypeOK, AnswerData
  <2> QED BY <2>1, <2>2 DEF Truly, Sent
<1> QED BY <1>1, Inductive, PTL

(* A snapshot asked for after a command was answered shows that command. *)
THEOREM SnapshotFresh == Spec => []SnapshotShowsAnswer
<1>1. IInv => SnapshotShowsAnswer
  BY DEF IInv
<1> QED BY <1>1, Inductive, PTL

-----------------------------------------------------------------------------
(* The private line. *)
Sending == {"number", "insert", "bind"}
NumberedStates == {"insert", "bind", "publish"}
Saved(q) == [id |-> req[q].id, seq |-> req[q].seq, file |-> req[q].file]

Numbered ==
  /\ \A q \in Requests : req[q].at # "idle" => resumed
  /\ resumed => answered <= lastSeq /\ \A m \in messages : m.seq <= lastSeq
  /\ answered = 0 \/ \E m \in messages : m.seq = answered
  /\ \A q \in Requests : req[q].after <= answered
  /\ \A q \in Requests : req[q].at \in NumberedStates =>
       req[q].after < req[q].seq /\ req[q].seq <= lastSeq
  /\ \A q \in Requests : req[q].at \in {"bind", "publish"} => Saved(q) \in messages

Distinct ==
  /\ \A m, n \in messages : m.id = n.id \/ m.seq = n.seq => m = n
  /\ \A m \in messages : m.id <= issued
  /\ \A q \in Requests : req[q].at = "insert" =>
       /\ req[q].id \in 1..issued
       /\ \A m \in messages : m.id # req[q].id /\ m.seq # req[q].seq
       /\ \A p \in Requests : req[p].at = "insert" /\ p # q =>
            req[p].id # req[q].id /\ req[p].seq # req[q].seq

Paged ==
  /\ \A i \in published : \E m \in messages : m.id = i
  /\ \A v \in Viewers :
       /\ viewer[v].at = "first" => viewer[v].before = 0
       /\ viewer[v].at = "done" => published \subseteq viewer[v].shown
       /\ viewer[v].at = "older" =>
            \E b \in messages :
              /\ b.id = viewer[v].before
              /\ \A m \in messages : m.id \in published =>
                   m.id \in viewer[v].shown \/ m.seq < b.seq

Filed ==
  /\ \A f \in Files : attachments[f].there =>
       /\ attachments[f].created > 0
       /\ f \notin overdue => f \in disk /\ attachments[f].created + OrphanTtl > clock
  /\ \A f \in overdue : attachments[f].created > 0
  /\ cleaning.todo \subseteq overdue /\ cleaning.file \in overdue \cup {NoFile}
  /\ \A q \in Requests : req[q].at = "register" =>
       /\ req[q].file \in disk /\ attachments[req[q].file] = NoRow
       /\ req[q].file \in Files
       /\ \A p \in Requests : p # q => req[p].file # req[q].file
  /\ \A q \in Requests : req[q].at \in Sending /\ req[q].file # NoFile =>
       /\ req[q].row.there /\ req[q].row.created > 0
       /\ req[q].file \notin overdue =>
            attachments[req[q].file].there
            /\ attachments[req[q].file].created = req[q].row.created
  /\ \A q \in Requests : req[q].at = "publish" /\ req[q].file \in Files \ overdue =>
       attachments[req[q].file].there /\ attachments[req[q].file].message # Unsent
  /\ \A f \in promised :
       /\ attachments[f].there /\ attachments[f].message # Unsent /\ f \in disk
       /\ f \notin cleaning.todo /\ f # cleaning.file

ChatInv == ChatTypeOK /\ Numbered /\ Distinct /\ Paged /\ Filed

-----------------------------------------------------------------------------
(* Handlers, pages and the bounds are what the types say. *)
LEMMA ChatBounds ==
  /\ NoFile \notin Files /\ PerTick \in Nat /\ OrphanTtl \in Nat \ {0}
  /\ MaxMessages \in Nat /\ MaxClock \in Nat /\ MaxCrashes \in Nat
BY ChatAssumption DEF ChatAssumption

(* The types of Chat hold at the start. *)
LEMMA TypeInit == ASSUME ChatInit PROVE ChatTypeOK
<1> USE ChatBounds DEF ChatTypeOK, Request, Attachment, Message, Ids, Unsent
<1>1. NoRow \in Attachment /\ Free \in Request
  BY DEF NoRow, FileRow, Free
<1>2. attachments \in [Files -> Attachment] /\ req \in [Requests -> Request]
  BY <1>1 DEF ChatInit
<1>3. 1 \in 1..MaxClock /\ 0 \in 0..MaxCrashes /\ 0 \in 0..MaxMessages
  BY ChatAssumption DEF ChatAssumption
<1>4. viewer \in [Viewers -> [at: {"away", "first", "older", "done"},
                             shown: SUBSET Ids, before: Ids \cup {0}]]
  BY DEF ChatInit, Away, Page
<1> QED BY <1>2, <1>3, <1>4 DEF ChatInit, Free, AtRest

(* A handler that ends. *)
LEMMA Ends ==
  ASSUME ChatTypeOK, NEW q \in Requests, req' = [req EXCEPT ![q] = Free]
  PROVE  /\ req' \in [Requests -> Request]
         /\ \A p \in Requests : req'[p] = IF p = q THEN Free ELSE req[p]
<1>1. Free \in Request
  BY ChatBounds DEF Free, NoRow, FileRow, Request, Attachment, Ids, Unsent
<1> QED BY <1>1 DEF ChatTypeOK

(* Every step of Chat keeps the types. *)
LEMMA TypeStep == ASSUME ChatTypeOK, [ChatNext]_chatVars PROVE ChatTypeOK'
<1> USE ChatBounds DEF ChatTypeOK, Request, Attachment, Message, Ids, Unsent
<1>0. NoRow \in Attachment /\ Free \in Request
  BY DEF NoRow, FileRow, Free
<1>1. ASSUME NEW q \in Requests, NEW f \in Files, MoveFile(q, f) PROVE ChatTypeOK'
  BY <1>1, <1>0 DEF MoveFile, Free, tables, ghosts
<1>2. ASSUME NEW q \in Requests, NEW f \in Files \cup {NoFile}, BeginSend(q, f) PROVE ChatTypeOK'
  BY <1>2, <1>0 DEF BeginSend, Free, tables, ghosts
<1>3. ASSUME NEW q \in Requests, Register(q) PROVE ChatTypeOK'
  <2>1. /\ clock \in Nat
        /\ FileRow(TRUE, Unsent, clock) \in Attachment
    BY DEF FileRow
  <2>2. attachments' \in [Files -> Attachment]
    BY <1>3, <2>1 DEF Register
  <2>3. /\ req' \in [Requests -> Request]
        /\ \A p \in Requests : req'[p] = IF p = q THEN Free ELSE req[p]
    BY <1>3, Ends DEF Register
  <2> QED BY <1>3, <2>2, <2>3 DEF Register, Free, ghosts
<1>4. ASSUME NEW q \in Requests, Number(q) PROVE ChatTypeOK'
  <2>1. NextSeq \in Nat
    BY DEF NextSeq
  <2>2. issued + 1 \in Ids /\ issued' \in 0..MaxMessages
    BY <1>4 DEF Number
  <2>3. /\ \A p \in Requests : p # q => req'[p] = req[p]
        /\ req' = [p \in Requests |-> req'[p]]
        /\ req'[q] = [at |-> "insert", file |-> req[q].file, row |-> req[q].row,
                      id |-> issued + 1, seq |-> NextSeq, after |-> req[q].after]
    BY <1>4 DEF Number
  <2>4. req' \in [Requests -> Request]
    BY <2>1, <2>2, <2>3
  <2> QED BY <1>4, <2>1, <2>2, <2>3, <2>4 DEF Number, tables
<1>5. ASSUME NEW q \in Requests, InsertMessage(q) PROVE ChatTypeOK'
  <2>1. req[q].id \in Ids
    BY <1>5 DEF InsertMessage
  <2>2. messages' \subseteq Message
    BY <1>5, <2>1 DEF InsertMessage
  <2>3. req' \in [Requests -> Request]
    BY <1>5 DEF InsertMessage, Goes
  <2> QED BY <1>5, <2>2, <2>3 DEF InsertMessage, Goes, ghosts
<1>6. ASSUME NEW q \in Requests, Bind(q) PROVE ChatTypeOK'
  BY <1>6 DEF Bind, FileRow, Goes, ghosts
<1>7. ASSUME NEW q \in Requests, Publish(q) PROVE ChatTypeOK'
  <2>1. req[q].id \in Ids
    BY <1>7 DEF Publish
  <2>2. viewer' \in [Viewers -> [at: {"away", "first", "older", "done"},
                                shown: SUBSET Ids, before: Ids \cup {0}]]
    <3>1. ASSUME NEW v \in Viewers
          PROVE  viewer'[v] \in [at: {"away", "first", "older", "done"},
                                 shown: SUBSET Ids, before: Ids \cup {0}]
      <4>1. CASE viewer[v].at = "away"
        BY <1>7, <4>1 DEF Publish
      <4>2. CASE viewer[v].at # "away"
        <5>1. viewer'[v] = [at |-> viewer[v].at, shown |-> viewer[v].shown \cup {req[q].id},
                            before |-> viewer[v].before]
          BY <1>7, <4>2 DEF Publish, Page
        <5> QED BY <2>1, <5>1
      <4> QED BY <4>1, <4>2
    <3>2. viewer' = [v \in Viewers |-> viewer'[v]]
      BY <1>7 DEF Publish
    <3> QED BY <3>1, <3>2
  <2>3. published' \subseteq Ids /\ answered' \in Nat /\ promised' \subseteq Files
    <3>1. req[q].file \in Files \cup {NoFile} /\ req[q].seq \in Nat
      OBVIOUS
    <3>2. published' \subseteq Ids /\ answered' \in Nat
      BY <1>7, <2>1, <3>1 DEF Publish
    <3>3. promised' \subseteq Files
      BY <1>7, <3>1 DEF Publish
    <3> QED BY <3>2, <3>3
  <2>4. /\ req' \in [Requests -> Request]
        /\ \A p \in Requests : req'[p] = IF p = q THEN Free ELSE req[p]
    BY <1>7, Ends DEF Publish
  <2> QED BY <1>7, <2>2, <2>3, <2>4 DEF Publish, tables, Free
<1>8. ASSUME NEW q \in Requests, Fail(q) PROVE ChatTypeOK'
  <2>1. /\ req' \in [Requests -> Request]
        /\ \A p \in Requests : req'[p] = IF p = q THEN Free ELSE req[p]
    BY <1>8, Ends DEF Fail
  <2> QED BY <1>8, <2>1 DEF Fail, Free, tables, ghosts
<1>9. ASSUME NEW v \in Viewers, Subscribe(v) PROVE ChatTypeOK'
  BY <1>9 DEF Subscribe, Page, tables, ghosts
<1>10. ASSUME NEW v \in Viewers, ListMessages(v) PROVE ChatTypeOK'
  <2>1. PICK page \in Newest(Earlier(viewer[v].before)) :
          \E at \in {"done", "older"}, before \in {0} \cup {m.id : m \in page} :
            viewer' = [viewer EXCEPT ![v] =
                         Page(at, before, viewer[v].shown \cup {m.id : m \in page})]
    BY <1>10 DEF ListMessages
  <2>2. page \subseteq messages
    BY DEF Newest, Earlier
  <2>3. {m.id : m \in page} \subseteq Ids
    BY <2>2
  <2>4. viewer' \in [Viewers -> [at: {"away", "first", "older", "done"},
                                shown: SUBSET Ids, before: Ids \cup {0}]]
    <3>1. PICK at \in {"done", "older"}, before \in {0} \cup {m.id : m \in page} :
            viewer' = [viewer EXCEPT ![v] =
                         Page(at, before, viewer[v].shown \cup {m.id : m \in page})]
      BY <2>1
    <3>2. viewer[v].shown \subseteq Ids
      OBVIOUS
    <3>3. Page(at, before, viewer[v].shown \cup {m.id : m \in page}) \in
            [at: {"away", "first", "older", "done"}, shown: SUBSET Ids, before: Ids \cup {0}]
      BY <2>3, <3>2 DEF Page
    <3> QED BY <3>1, <3>3
  <2> QED BY <1>10, <2>4 DEF ListMessages, tables, ghosts
<1>11. ASSUME NEW v \in Viewers, Drop(v) PROVE ChatTypeOK'
  BY <1>11 DEF Drop, Away, Page, tables, ghosts
<1>12. CASE FindOrphans
  BY <1>12 DEF FindOrphans, Orphans, AtRest, tables, ghosts
<1>13. CASE UnlinkFile
  BY <1>13 DEF UnlinkFile, ghosts
<1>14. CASE DeleteRow
  <2>1. attachments' \in [Files -> Attachment]
    <3>1. cleaning.file \in Files
      BY <1>14 DEF DeleteRow
    <3>2. /\ \A f \in Files : f # cleaning.file => attachments'[f] = attachments[f]
          /\ attachments' = [f \in Files |-> attachments'[f]]
          /\ attachments'[cleaning.file] =
               [there |-> FALSE, message |-> attachments[cleaning.file].message,
                created |-> attachments[cleaning.file].created]
      BY <1>14, <3>1 DEF DeleteRow, FileRow
    <3>3. /\ attachments[cleaning.file].message \in Ids \cup {Unsent}
          /\ attachments[cleaning.file].created \in Nat
      BY <3>1
    <3>4. attachments'[cleaning.file] \in Attachment
      BY <3>2, <3>3
    <3> QED BY <3>1, <3>2, <3>4
  <2>2. cleaning' \in [todo: SUBSET Files, file: Files \cup {NoFile}]
    BY <1>14 DEF DeleteRow
  <2> QED BY <1>14, <2>1, <2>2 DEF DeleteRow, ghosts
<1>15. CASE Tick
  BY <1>15 DEF Tick, tables
<1>16. CASE ChatCrash
  <2>1. crashes' \in 0..MaxCrashes /\ clock' \in 1..MaxClock
    BY <1>16 DEF ChatCrash
  <2>2. viewer' \in [Viewers -> [at: {"away", "first", "older", "done"},
                                shown: SUBSET Ids, before: Ids \cup {0}]]
    BY <1>16 DEF ChatCrash, Away, Page
  <2>3. /\ req' \in [Requests -> Request]
        /\ \A p \in Requests : req'[p] = Free
    BY <1>16, <1>0 DEF ChatCrash
  <2> QED BY <1>16, <2>1, <2>2, <2>3 DEF ChatCrash, AtRest, Free, tables, ghosts
<1>17. CASE Resume
  BY <1>17 DEF Resume, tables, ghosts
<1>18. CASE UNCHANGED chatVars
  BY <1>18 DEF chatVars, tables, ghosts
<1> QED
  BY <1>1, <1>2, <1>3, <1>4, <1>5, <1>6, <1>7, <1>8, <1>9, <1>10, <1>11, <1>12, <1>13, <1>14,
     <1>15, <1>16, <1>17, <1>18 DEF ChatNext

-----------------------------------------------------------------------------
(* The types of what a handler holds. *)
LEMMA Held ==
  ASSUME ChatTypeOK, NEW q \in Requests
  PROVE  /\ req[q].seq \in Nat /\ req[q].after \in Nat /\ req[q].file \in Files \cup {NoFile}
         /\ req[q].id \in Ids \cup {0} /\ req[q].row \in Attachment
         /\ req[q].at \in {"bind", "register"} => req[q].file \in Files
         /\ req[q].at \in NumberedStates => req[q].id \in Ids
BY DEF ChatTypeOK, Request, NumberedStates

(* A new number is larger than every one before. *)
LEMMA Ahead ==
  ASSUME ChatTypeOK
  PROVE NextSeq \in Nat /\ NextSeq > lastSeq /\ lastSeq \in Nat
BY ChatBounds DEF ChatTypeOK, NextSeq

(* The handlers after a step: the one that goes on, and the others. *)
LEMMA Others ==
  ASSUME ChatTypeOK, NEW q \in Requests, NEW r, req' = [req EXCEPT ![q] = r]
  PROVE  req'[q] = r /\ \A p \in Requests : p # q => req'[p] = req[p]
BY DEF ChatTypeOK

(* Every step keeps the numbering ahead. *)
LEMMA NumberedStep == ASSUME ChatTypeOK, Numbered, [ChatNext]_chatVars PROVE Numbered'
<1> USE DEF Numbered, NumberedStates
<1>1. ASSUME NEW q \in Requests, NEW f \in Files, MoveFile(q, f) PROVE Numbered'
  BY <1>1, Others, Ahead DEF MoveFile, Saved, ghosts, ChatTypeOK
<1>2. ASSUME NEW q \in Requests, NEW f \in Files \cup {NoFile}, BeginSend(q, f) PROVE Numbered'
  BY <1>2, Others, Ahead DEF BeginSend, Saved, tables, ghosts, ChatTypeOK
<1>3. ASSUME NEW q \in Requests, Register(q) PROVE Numbered'
  BY <1>3, Others, Ahead DEF Register, Free, Saved, ghosts, ChatTypeOK
<1>4. ASSUME NEW q \in Requests, Number(q) PROVE Numbered'
  BY <1>4, Others, Ahead, Held DEF Number, Saved, tables, ChatTypeOK, Message
<1>5. ASSUME NEW q \in Requests, InsertMessage(q) PROVE Numbered'
  BY <1>5, Others, Held DEF InsertMessage, Goes, Saved, ghosts
<1>6. ASSUME NEW q \in Requests, Bind(q) PROVE Numbered'
  BY <1>6, Others DEF Bind, Goes, Saved, ghosts
<1>7. ASSUME NEW q \in Requests, Publish(q) PROVE Numbered'
  <2>1. /\ req'[q] = Free /\ \A p \in Requests : p # q => req'[p] = req[p]
        /\ messages' = messages /\ lastSeq' = lastSeq /\ resumed' = resumed
        /\ answered' = IF req[q].seq > answered THEN req[q].seq ELSE answered
        /\ answered \in Nat /\ lastSeq \in Nat /\ req[q].seq \in Nat
    BY <1>7, Others, Held DEF Publish, tables, ChatTypeOK
  <2>2. /\ answered' \in Nat /\ answered <= answered' /\ req[q].seq <= lastSeq
        /\ answered' \in {answered, req[q].seq} /\ resumed
        /\ \E m \in messages : m.seq = req[q].seq
    <3>1. req[q].at = "publish" /\ resumed /\ Saved(q) \in messages /\ Saved(q).seq = req[q].seq
      BY <1>7 DEF Publish, Saved
    <3>2. req[q].seq <= lastSeq /\ \E m \in messages : m.seq = req[q].seq
      BY <3>1
    <3> QED BY <2>1, <3>1, <3>2
  <2>3. \A p \in Requests : req'[p].after <= answered'
    BY <2>1, <2>2, Held DEF Free
  <2>4. /\ resumed' => answered' <= lastSeq' /\ \A m \in messages' : m.seq <= lastSeq'
        /\ answered' = 0 \/ \E m \in messages' : m.seq = answered'
    BY <2>1, <2>2
  <2>5. \A p \in Requests : p # q => Saved(p)' = Saved(p)
    BY <2>1 DEF Saved
  <2>6. \A p \in Requests :
          /\ req'[p].at # "idle" => resumed'
          /\ req'[p].at \in NumberedStates =>
               req'[p].after < req'[p].seq /\ req'[p].seq <= lastSeq'
          /\ req'[p].at \in {"bind", "publish"} => Saved(p)' \in messages'
    BY <2>1, <2>5 DEF Free
  <2> QED BY <2>3, <2>4, <2>6
<1>8. ASSUME NEW q \in Requests, Fail(q) PROVE Numbered'
  BY <1>8, Others DEF Fail, Free, Saved, tables, ghosts, ChatTypeOK
<1>9. ASSUME NEW v \in Viewers, Subscribe(v) \/ ListMessages(v) \/ Drop(v) PROVE Numbered'
  BY <1>9 DEF Subscribe, ListMessages, Drop, Saved, tables, ghosts
<1>12. CASE FindOrphans \/ UnlinkFile \/ DeleteRow
  <2>1. /\ messages' = messages /\ lastSeq' = lastSeq /\ resumed' = resumed
        /\ answered' = answered /\ req' = req
    BY <1>12 DEF FindOrphans, UnlinkFile, DeleteRow, tables, ghosts
  <2> QED BY <2>1 DEF Saved
<1>15. CASE Tick
  BY <1>15 DEF Tick, Saved, tables
<1>16. CASE ChatCrash
  BY <1>16 DEF ChatCrash, Free, Saved, tables, ghosts, ChatTypeOK
<1>17. CASE Resume
  <2>1. /\ messages' = messages /\ answered' = answered /\ req' = req
        /\ \A q \in Requests : req[q].at = "idle"
        /\ \A m \in messages : m.seq <= lastSeq'
    BY <1>17 DEF Resume, tables, ghosts
  <2>2. lastSeq' \in Nat
    BY <1>17 DEF Resume, ChatTypeOK, Message
  <2>3. answered' <= lastSeq'
    BY <2>1, <2>2
  <2>4. \A q \in Requests : Saved(q)' = Saved(q)
    BY <2>1 DEF Saved
  <2> QED BY <2>1, <2>3, <2>4
<1>18. CASE UNCHANGED chatVars
  BY <1>18 DEF chatVars, Saved, tables, ghosts
<1> QED
  BY <1>1, <1>2, <1>3, <1>4, <1>5, <1>6, <1>7, <1>8, <1>9, <1>12,
     <1>15, <1>16, <1>17, <1>18 DEF ChatNext

-----------------------------------------------------------------------------
(* Every step keeps the messages apart. *)
LEMMA DistinctStep ==
  ASSUME ChatTypeOK, Numbered, Distinct, [ChatNext]_chatVars
  PROVE Distinct'
<1> USE DEF Distinct
<1>a. ASSUME NEW q \in Requests, NEW r, req' = [req EXCEPT ![q] = r], r.at # "insert",
             messages' = messages, issued' = issued
      PROVE  Distinct'
  BY <1>a, Others
<1>b. ASSUME UNCHANGED <<req, messages, issued>> PROVE Distinct'
  BY <1>b
<1>1. ASSUME NEW q \in Requests,
             \/ \E f \in Files : MoveFile(q, f)
             \/ \E f \in Files \cup {NoFile} : BeginSend(q, f)
             \/ Register(q) \/ Bind(q) \/ Publish(q) \/ Fail(q)
      PROVE Distinct'
  <2>1. CASE \E f \in Files : MoveFile(q, f)
    BY <2>1, <1>a DEF MoveFile, ghosts
  <2>2. CASE \E f \in Files \cup {NoFile} : BeginSend(q, f)
    BY <2>2, <1>a DEF BeginSend, tables, ghosts
  <2>3. CASE Register(q) \/ Publish(q) \/ Fail(q)
    <3>1. Free.at # "insert"
      BY DEF Free
    <3>2. req' = [req EXCEPT ![q] = Free] /\ messages' = messages /\ issued' = issued
      BY <2>3 DEF Register, Publish, Fail, tables, ghosts
    <3> QED BY <3>1, <3>2, <1>a
  <2>4. CASE Bind(q)
    BY <2>4, <1>a DEF Bind, Goes, ghosts
  <2> QED BY <1>1, <2>1, <2>2, <2>3, <2>4
<1>4. ASSUME NEW q \in Requests, Number(q) PROVE Distinct'
  <2>1. /\ \A p \in Requests : p # q => req'[p] = req[p]
        /\ req'[q].at = "insert" /\ req'[q].id = issued + 1 /\ req'[q].seq = NextSeq
        /\ messages' = messages /\ issued' = issued + 1 /\ issued \in Nat
    BY <1>4, Others, ChatBounds DEF Number, tables, ChatTypeOK
  <2>2. /\ \A m \in messages : m.id \in Nat /\ m.seq \in Nat
        /\ \A p \in Requests : req[p].at = "insert" => req[p].id \in 1..issued
        /\ \A p \in Requests : req[p].at = "insert" => req[p].seq <= lastSeq
        /\ \A m \in messages : m.seq <= lastSeq /\ m.id <= issued
    BY <1>4 DEF ChatTypeOK, Message, Ids, Numbered, NumberedStates, Number
  <2>3. \A m \in messages : m.id # issued + 1 /\ m.seq # NextSeq
    BY <2>1, <2>2, Ahead
  <2>4. \A p \in Requests : req[p].at = "insert" => req[p].id # issued + 1 /\ req[p].seq # NextSeq
    BY <2>1, <2>2, Ahead, Held
  <2>5. \A p \in Requests : req'[p].at = "insert" => req'[p].id \in 1..(issued + 1)
    BY <2>1, <2>2
  <2> QED BY <2>1, <2>2, <2>3, <2>4, <2>5
<1>5. ASSUME NEW q \in Requests, InsertMessage(q) PROVE Distinct'
  <2>1. /\ \A p \in Requests : p # q => req'[p] = req[p]
        /\ req'[q].at # "insert" /\ req[q].at = "insert"
        /\ messages' = messages \cup {Saved(q)} /\ issued' = issued
    <3> DEFINE r == Goes(req[q], IF req[q].file = NoFile THEN "publish" ELSE "bind")
    <3>1. req' = [req EXCEPT ![q] = r]
      BY <1>5 DEF InsertMessage
    <3>2. r.at # "insert"
      BY DEF Goes
    <3> HIDE DEF r
    <3>3. \A p \in Requests : p # q => req'[p] = req[p]
      BY <3>1, Others
    <3>4. req'[q].at # "insert"
      BY ZenonT(40), <3>1, <3>2, Others
    <3> QED BY <1>5, <3>3, <3>4 DEF InsertMessage, Saved, ghosts
  <2>2. Saved(q).id = req[q].id /\ Saved(q).seq = req[q].seq
    BY DEF Saved
  <2>3. req[q].id <= issued
    BY <2>1, ChatBounds DEF ChatTypeOK
  <2> HIDE DEF Saved
  <2> QED BY <2>1, <2>2, <2>3
<1>16. CASE ChatCrash
  BY <1>16 DEF ChatCrash, Free, tables, ghosts
<1>17. CASE UNCHANGED chatVars
  BY <1>17, <1>b DEF chatVars, tables, ghosts
<1>18. ASSUME NEW v \in Viewers, Subscribe(v) \/ ListMessages(v) \/ Drop(v) PROVE Distinct'
  BY <1>18, <1>b DEF Subscribe, ListMessages, Drop, tables, ghosts
<1>19. CASE FindOrphans \/ UnlinkFile \/ DeleteRow
  BY <1>19, <1>b DEF FindOrphans, UnlinkFile, DeleteRow, tables, ghosts
<1>20. CASE Tick \/ Resume
  BY <1>20, <1>b DEF Tick, Resume, tables, ghosts
<1> QED BY <1>1, <1>4, <1>5, <1>16, <1>17, <1>18, <1>19, <1>20 DEF ChatNext

-----------------------------------------------------------------------------
(* What a page still lacks is among the rows it asks for next. *)
LEMMA Lacking ==
  ASSUME ChatTypeOK, Distinct, Paged,
         NEW v \in Viewers, viewer[v].at \in {"first", "older"}
  PROVE  \A m \in messages : m.id \in published =>
           m.id \in viewer[v].shown \/ m \in Earlier(viewer[v].before)
<1>1. CASE viewer[v].at = "first"
  <2>1. \A b \in messages : b.id # 0
    BY ChatBounds DEF ChatTypeOK, Message, Ids
  <2>2. Earlier(viewer[v].before) = messages
    BY <1>1, <2>1 DEF Paged, Earlier
  <2> QED BY <2>2
<1>2. CASE viewer[v].at = "older"
  <2>1. PICK b \in messages : /\ b.id = viewer[v].before
                              /\ \A m \in messages : m.id \in published =>
                                   m.id \in viewer[v].shown \/ m.seq < b.seq
    BY <1>2 DEF Paged
  <2>2. \A c \in messages : c.id = viewer[v].before => c = b
    BY <2>1 DEF Distinct
  <2> QED BY <2>1, <2>2 DEF Earlier
<1> QED BY <1>1, <1>2

(* Every step keeps what a page lacks before its cursor. *)
LEMMA PagedStep ==
  ASSUME ChatTypeOK, Numbered, Distinct, Paged, [ChatNext]_chatVars
  PROVE Paged'
<1>b. ASSUME UNCHANGED <<messages, viewer, published>> PROVE Paged'
  BY <1>b DEF Paged
<1>5. ASSUME NEW q \in Requests, InsertMessage(q) PROVE Paged'
  <2>1. /\ messages' = messages \cup {Saved(q)} /\ Saved(q).id = req[q].id
        /\ viewer' = viewer /\ published' = published /\ req[q].at = "insert"
    BY <1>5 DEF InsertMessage, Saved, ghosts
  <2>2. Saved(q).id \notin published
    BY <2>1 DEF Distinct, Paged
  <2>3. \A i \in published' : \E m \in messages' : m.id = i
    BY <2>1 DEF Paged
  <2>4. ASSUME NEW v \in Viewers, viewer[v].at = "older"
        PROVE  \E b \in messages' :
                 /\ b.id = viewer[v].before
                 /\ \A m \in messages' : m.id \in published =>
                      m.id \in viewer[v].shown \/ m.seq < b.seq
    <3>1. PICK b \in messages : /\ b.id = viewer[v].before
                                /\ \A m \in messages : m.id \in published =>
                                     m.id \in viewer[v].shown \/ m.seq < b.seq
      BY <2>4 DEF Paged
    <3> QED BY <2>1, <2>2, <3>1
  <2> QED BY <2>1, <2>3, <2>4 DEF Paged
<1>7. ASSUME NEW q \in Requests, Publish(q) PROVE Paged'
  <2>1. /\ messages' = messages /\ published' = published \cup {req[q].id}
        /\ Saved(q) \in messages /\ Saved(q).id = req[q].id
    BY <1>7 DEF Publish, Saved, Numbered, tables
  <2>2. ASSUME NEW v \in Viewers
        PROVE  /\ viewer'[v].at = viewer[v].at /\ viewer'[v].before = viewer[v].before
               /\ viewer[v].shown \subseteq viewer'[v].shown
               /\ viewer[v].at # "away" => req[q].id \in viewer'[v].shown
    BY <1>7 DEF Publish, Page
  <2>3. \A i \in published' : \E m \in messages' : m.id = i
    BY <2>1 DEF Paged
  <2>4. ASSUME NEW v \in Viewers, viewer'[v].at = "older"
        PROVE  \E b \in messages' :
                 /\ b.id = viewer'[v].before
                 /\ \A m \in messages' : m.id \in published' =>
                      m.id \in viewer'[v].shown \/ m.seq < b.seq
    <3>1. PICK b \in messages : /\ b.id = viewer[v].before
                                /\ \A m \in messages : m.id \in published =>
                                     m.id \in viewer[v].shown \/ m.seq < b.seq
      BY <2>2, <2>4 DEF Paged
    <3> QED BY <2>1, <2>2, <2>4, <3>1
  <2>5. \A v \in Viewers :
          /\ viewer'[v].at = "first" => viewer'[v].before = 0
          /\ viewer'[v].at = "done" => published' \subseteq viewer'[v].shown
    BY <2>1, <2>2 DEF Paged
  <2> QED BY <2>3, <2>4, <2>5 DEF Paged
<1>9. ASSUME NEW v \in Viewers, Subscribe(v) \/ Drop(v) PROVE Paged'
  <2>1. /\ messages' = messages /\ published' = published
        /\ \A w \in Viewers : w # v => viewer'[w] = viewer[w]
        /\ viewer'[v].at \in {"first", "away"} /\ viewer'[v].before = 0
    BY <1>9 DEF Subscribe, Drop, Away, Page, tables, ghosts, ChatTypeOK
  <2> QED BY <2>1 DEF Paged
<1>10. ASSUME NEW v \in Viewers, ListMessages(v) PROVE Paged'
  <2> DEFINE rows == Earlier(viewer[v].before)
  <2>1. PICK page \in Newest(rows) :
          IF page = rows
            THEN viewer' = [viewer EXCEPT ![v] =
                              Page("done", 0, @.shown \cup {m.id : m \in page})]
            ELSE \E oldest \in page :
                   /\ \A m \in page : oldest.seq <= m.seq
                   /\ viewer' = [viewer EXCEPT ![v] =
                                   Page("older", oldest.id, @.shown \cup {m.id : m \in page})]
    BY <1>10 DEF ListMessages
  <2>2. page \subseteq rows /\ rows \subseteq messages
        /\ \A x \in page, y \in rows \ page : x.seq >= y.seq
    BY DEF Newest, Earlier
  <2>3. messages' = messages /\ published' = published
    BY <1>10 DEF ListMessages, tables, ghosts
  <2>4. \A m \in messages : m.id \in published => m.id \in viewer[v].shown \/ m \in rows
    BY <1>10, Lacking DEF ListMessages
  <2> HIDE DEF rows
  <2>5. CASE page = rows
    <3>1. /\ \A w \in Viewers : w # v => viewer'[w] = viewer[w]
          /\ viewer'[v] = Page("done", 0, viewer[v].shown \cup {m.id : m \in page})
      BY <2>1, <2>5 DEF ChatTypeOK
    <3>2. published \subseteq viewer'[v].shown /\ viewer'[v].at = "done"
      BY <2>4, <2>5, <3>1 DEF Page, Paged
    <3> QED BY <2>3, <3>1, <3>2 DEF Paged
  <2>6. CASE page # rows
    <3>1. PICK oldest \in page :
            viewer' = [viewer EXCEPT ![v] =
                         Page("older", oldest.id, @.shown \cup {m.id : m \in page})]
      BY <2>1, <2>6
    <3>2. /\ \A w \in Viewers : w # v => viewer'[w] = viewer[w]
          /\ viewer'[v] = Page("older", oldest.id, viewer[v].shown \cup {m.id : m \in page})
      BY <3>1 DEF ChatTypeOK
    <3>3. /\ viewer'[v].at = "older" /\ viewer'[v].before = oldest.id
          /\ viewer'[v].shown = viewer[v].shown \cup {m.id : m \in page}
      BY <3>2 DEF Page
    <3>4. ASSUME NEW m \in messages, m.id \in published
          PROVE  m.id \in viewer'[v].shown \/ m.seq < oldest.seq
      <4>1. CASE m \in rows \ page
        <5>1. m.seq <= oldest.seq /\ m # oldest /\ oldest \in messages
          BY <2>2, <4>1
        <5>2. m.seq # oldest.seq /\ m.seq \in Nat /\ oldest.seq \in Nat
          BY <5>1 DEF Distinct, ChatTypeOK, Message
        <5> QED BY <5>1, <5>2
      <4>2. CASE m \notin rows \ page
        BY <2>4, <3>3, <3>4, <4>2
      <4> QED BY <4>1, <4>2
    <3>5. oldest \in messages
      BY <2>2
    <3>6. \E b \in messages' :
            /\ b.id = viewer'[v].before
            /\ \A m \in messages' : m.id \in published' =>
                 m.id \in viewer'[v].shown \/ m.seq < b.seq
      BY <2>3, <3>3, <3>4, <3>5
    <3> QED BY <2>3, <3>2, <3>3, <3>6 DEF Paged
  <2> QED BY <2>5, <2>6
<1>16. CASE ChatCrash
  <2>1. /\ messages' = messages /\ published' = published
        /\ \A v \in Viewers : viewer'[v].at = "away"
    BY <1>16 DEF ChatCrash, Away, Page, tables, ghosts
  <2> QED BY <2>1 DEF Paged
<1>17. CASE UNCHANGED chatVars
  BY <1>17, <1>b DEF chatVars, tables, ghosts
<1>18. ASSUME NEW q \in Requests,
              \/ \E f \in Files : MoveFile(q, f)
              \/ \E f \in Files \cup {NoFile} : BeginSend(q, f)
              \/ Register(q) \/ Bind(q) \/ Number(q) \/ Fail(q)
       PROVE Paged'
  BY <1>18, <1>b DEF MoveFile, BeginSend, Register, Bind, Number, Fail, tables,
                     ghosts
<1>19. CASE FindOrphans \/ UnlinkFile \/ DeleteRow
  BY <1>19, <1>b DEF FindOrphans, UnlinkFile, DeleteRow, tables, ghosts
<1>20. CASE Tick \/ Resume
  BY <1>20, <1>b DEF Tick, Resume, tables, ghosts
<1> QED BY <1>5, <1>7, <1>9, <1>10, <1>16, <1>17, <1>18, <1>19, <1>20 DEF ChatNext

-----------------------------------------------------------------------------
(* The rows after a step that saves one. *)
LEMMA OtherRows ==
  ASSUME ChatTypeOK,
         NEW f \in Files, NEW r, attachments' = [attachments EXCEPT ![f] = r]
  PROVE  attachments'[f] = r /\ \A g \in Files : g # f => attachments'[g] = attachments[g]
BY DEF ChatTypeOK

(* A file in the cleanup has a row of its own, a file being uploaded has none. *)
LEMMA Fresh ==
  ASSUME Filed, NEW f \in Files, attachments[f] = NoRow
  PROVE  f \notin overdue /\ ~attachments[f].there /\ f \notin promised
BY DEF Filed, NoRow, FileRow

(* Every step keeps the files of sent messages out of the hands of the cleanup. *)
LEMMA FiledStep == ASSUME ChatTypeOK, Filed, [ChatNext]_chatVars PROVE Filed'
<1>b. ASSUME UNCHANGED <<attachments, disk, cleaning, clock, overdue, promised>>,
             NEW q \in Requests, NEW r, req' = [req EXCEPT ![q] = r],
             r.at \notin {"register", "publish"} \cup Sending,
             r.file \in {NoFile, req[q].file}
      PROVE  Filed'
  BY <1>b, Others, ChatBounds DEF Filed
<1>1. ASSUME NEW q \in Requests, NEW f \in Files, MoveFile(q, f) PROVE Filed'
  <2>1. /\ req'[q].at = "register" /\ req'[q].file = f
        /\ \A p \in Requests : p # q => req'[p] = req[p] /\ req[p].file # f
        /\ attachments' = attachments /\ disk' = disk \cup {f} /\ attachments[f] = NoRow
        /\ cleaning' = cleaning /\ clock' = clock /\ overdue' = overdue /\ promised' = promised
    BY <1>1, Others DEF MoveFile, ghosts, ChatTypeOK
  <2> QED BY <2>1 DEF Filed, Sending
<1>2. ASSUME NEW q \in Requests, NEW f \in Files \cup {NoFile}, BeginSend(q, f) PROVE Filed'
  <2>1. /\ req'[q].at = "number" /\ req'[q].file = f
        /\ f # NoFile => req'[q].row = attachments[f] /\ attachments[f].there
        /\ \A p \in Requests : p # q => req'[p] = req[p]
        /\ UNCHANGED <<attachments, disk, cleaning, clock, overdue, promised>>
    BY <1>2, Others DEF BeginSend, tables, ghosts, ChatTypeOK
  <2>2. \A p \in Requests : req[p].at = "register" => req[p].file # f
    BY <2>1, Fresh, ChatBounds DEF Filed
  <2> QED BY <2>1, <2>2, ChatBounds DEF Filed, Sending
<1>3. ASSUME NEW q \in Requests, Register(q) PROVE Filed'
  <2> DEFINE f == req[q].file
  <2>1. /\ f \in Files /\ attachments[f] = NoRow /\ f \in disk
        /\ \A p \in Requests : p # q => req[p].file # f
    BY <1>3 DEF Register, Filed
  <2>2. f \notin overdue /\ f \notin promised
    BY <2>1, Fresh
  <2>3. /\ attachments'[f].there /\ attachments'[f].created = clock
        /\ \A g \in Files : g # f => attachments'[g] = attachments[g]
    BY <1>3, <2>1, OtherRows DEF Register, FileRow, ChatTypeOK
  <2>4. /\ req'[q].at = "idle" /\ req'[q].file = NoFile
        /\ \A p \in Requests : p # q => req'[p] = req[p]
        /\ UNCHANGED <<disk, cleaning, clock, overdue, promised>>
    BY <1>3, Others DEF Register, Free, ghosts, ChatTypeOK
  <2>5. clock > 0 /\ clock + OrphanTtl > clock
    BY ChatBounds DEF ChatTypeOK
  <2> HIDE DEF f
  <2>6. \A g \in Files : attachments'[g].there =>
          /\ attachments'[g].created > 0
          /\ g \notin overdue' => g \in disk' /\ attachments'[g].created + OrphanTtl > clock'
    BY <2>1, <2>3, <2>4, <2>5 DEF Filed
  <2>7. \A g \in overdue' : attachments'[g].created > 0
    BY <2>2, <2>3, <2>4 DEF Filed, ChatTypeOK
  <2>8. \A p \in Requests : req'[p].at = "register" =>
          /\ req'[p].file \in disk' /\ attachments'[req'[p].file] = NoRow
          /\ req'[p].file \in Files
          /\ \A o \in Requests : o # p => req'[o].file # req'[p].file
    BY <2>1, <2>3, <2>4, ChatBounds DEF Filed
  <2>9. \A p \in Requests : req'[p].at # "idle" => p # q
    BY <2>4
  <2>10. \A p \in Requests : req'[p].at \in Sending /\ req'[p].file # NoFile =>
           /\ req'[p].row.there /\ req'[p].row.created > 0
           /\ req'[p].file \notin overdue' =>
                attachments'[req'[p].file].there
                /\ attachments'[req'[p].file].created = req'[p].row.created
    BY <2>1, <2>3, <2>4, <2>9, Held DEF Filed, Sending
  <2>11. \A p \in Requests : req'[p].at = "publish" /\ req'[p].file \in Files \ overdue' =>
           attachments'[req'[p].file].there /\ attachments'[req'[p].file].message # Unsent
    BY <2>1, <2>3, <2>4, <2>9 DEF Filed
  <2>12. \A g \in promised' :
           /\ attachments'[g].there /\ attachments'[g].message # Unsent /\ g \in disk'
           /\ g \notin cleaning'.todo /\ g # cleaning'.file
    BY <2>2, <2>3, <2>4 DEF Filed, ChatTypeOK
  <2>13. cleaning'.todo \subseteq overdue' /\ cleaning'.file \in overdue' \cup {NoFile}
    BY <2>4 DEF Filed
  <2> QED BY <2>6, <2>7, <2>8, <2>10, <2>11, <2>12, <2>13 DEF Filed
<1>4. ASSUME NEW q \in Requests, Number(q) PROVE Filed'
  <2>1. /\ req'[q].at = "insert" /\ req'[q].file = req[q].file /\ req'[q].row = req[q].row
        /\ req[q].at = "number" /\ \A p \in Requests : p # q => req'[p] = req[p]
        /\ UNCHANGED <<attachments, disk, cleaning, clock, overdue, promised>>
    BY <1>4, Others DEF Number, tables, ChatTypeOK
  <2> QED BY <2>1 DEF Filed, Sending
<1>5. ASSUME NEW q \in Requests, InsertMessage(q) PROVE Filed'
  <2>1. /\ req'[q].file = req[q].file /\ req'[q].row = req[q].row
        /\ req'[q].at = (IF req[q].file = NoFile THEN "publish" ELSE "bind")
        /\ req[q].at = "insert" /\ \A p \in Requests : p # q => req'[p] = req[p]
        /\ UNCHANGED <<attachments, disk, cleaning, clock, overdue, promised>>
    BY <1>5, Others DEF InsertMessage, Goes, ghosts, ChatTypeOK
  <2> QED BY <2>1, ChatBounds DEF Filed, Sending
<1>6. ASSUME NEW q \in Requests, Bind(q) PROVE Filed'
  <2> DEFINE f == req[q].file
  <2>1. /\ f \in Files /\ req[q].at = "bind" /\ req[q].id # Unsent
        /\ \A p \in Requests : p # q /\ req[p].at = "register" => req[p].file # f
        /\ req[q].row.created > 0
        /\ f \notin overdue =>
             /\ attachments[f].there /\ attachments[f].created = req[q].row.created
             /\ f \in disk /\ req[q].row.created + OrphanTtl > clock
    BY <1>6, Held, ChatBounds DEF Bind, Filed, Sending, ChatTypeOK, Unsent
  <2>2. /\ attachments'[f].there /\ attachments'[f].created = req[q].row.created
        /\ attachments'[f].message # Unsent
        /\ \A g \in Files : g # f => attachments'[g] = attachments[g]
    BY <1>6, <2>1, OtherRows DEF Bind, FileRow, ChatTypeOK
  <2>3. /\ req'[q].at = "publish" /\ req'[q].file = f
        /\ \A p \in Requests : p # q => req'[p] = req[p]
        /\ UNCHANGED <<disk, cleaning, clock, overdue, promised>>
    BY <1>6, Others DEF Bind, Goes, ghosts, ChatTypeOK
  <2> HIDE DEF f
  <2>4. \A g \in Files : attachments'[g].there =>
          /\ attachments'[g].created > 0
          /\ g \notin overdue' => g \in disk' /\ attachments'[g].created + OrphanTtl > clock'
    BY <2>1, <2>2, <2>3 DEF Filed
  <2>5. \A g \in overdue' : attachments'[g].created > 0
    BY <2>1, <2>2, <2>3 DEF Filed, ChatTypeOK
  <2>6. cleaning'.todo \subseteq overdue' /\ cleaning'.file \in overdue' \cup {NoFile}
    BY <2>3 DEF Filed
  <2>7. \A p \in Requests : req'[p].at = "register" =>
          /\ req'[p].file \in disk' /\ attachments'[req'[p].file] = NoRow
          /\ req'[p].file \in Files
          /\ \A o \in Requests : o # p => req'[o].file # req'[p].file
    BY <2>1, <2>2, <2>3 DEF Filed
  <2>8. \A p \in Requests : req'[p].at \in Sending /\ req'[p].file # NoFile =>
          /\ req'[p].row.there /\ req'[p].row.created > 0
          /\ req'[p].file \notin overdue' =>
               attachments'[req'[p].file].there
               /\ attachments'[req'[p].file].created = req'[p].row.created
    BY <2>1, <2>2, <2>3, Held DEF Filed, Sending
  <2>9. \A p \in Requests : req'[p].at = "publish" /\ req'[p].file \in Files \ overdue' =>
          attachments'[req'[p].file].there /\ attachments'[req'[p].file].message # Unsent
    BY <2>1, <2>2, <2>3 DEF Filed
  <2>10. \A g \in promised' :
           /\ attachments'[g].there /\ attachments'[g].message # Unsent /\ g \in disk'
           /\ g \notin cleaning'.todo /\ g # cleaning'.file
    BY <2>2, <2>3 DEF Filed, ChatTypeOK
  <2> QED BY <2>4, <2>5, <2>6, <2>7, <2>8, <2>9, <2>10 DEF Filed
<1>7. ASSUME NEW q \in Requests, Publish(q) PROVE Filed'
  <2>1. /\ req'[q].at = "idle" /\ req'[q].file = NoFile
        /\ \A p \in Requests : p # q => req'[p] = req[p]
        /\ promised' = promised \cup ({req[q].file} \ ({NoFile} \cup overdue))
        /\ UNCHANGED <<attachments, disk, cleaning, clock, overdue>>
    BY <1>7, Others DEF Publish, Free, tables, ChatTypeOK
  <2>2. \A f \in promised' \ promised :
          /\ attachments[f].there /\ attachments[f].message # Unsent /\ f \in disk
          /\ f \notin cleaning.todo /\ f # cleaning.file
    BY <1>7, <2>1, Held DEF Publish, Filed
  <2>3. \A f \in promised' :
          /\ attachments[f].there /\ attachments[f].message # Unsent /\ f \in disk
          /\ f \notin cleaning.todo /\ f # cleaning.file
    BY <2>2 DEF Filed
  <2>4. \A p \in Requests : req'[p].at # "idle" => p # q
    BY <2>1
  <2> QED BY <2>1, <2>3, <2>4, ChatBounds DEF Filed, Sending
<1>8. ASSUME NEW q \in Requests, Fail(q) PROVE Filed'
  BY <1>8, <1>b DEF Fail, Free, Sending, tables, ghosts
<1>12. CASE FindOrphans
  <2>1. /\ cleaning'.todo = Orphans /\ cleaning'.file = NoFile
        /\ UNCHANGED <<attachments, disk, clock, overdue, promised, req>>
    BY <1>12 DEF FindOrphans, tables, ghosts
  <2>2. Orphans \subseteq overdue
    <3>1. ASSUME NEW f \in Orphans, f \notin overdue PROVE FALSE
      <4>1. /\ attachments[f].created \in Nat /\ clock \in Nat /\ f \in Files
            /\ attachments[f].created + OrphanTtl <= clock /\ attachments[f].there
        BY DEF Orphans, ChatTypeOK, Attachment
      <4>2. attachments[f].created + OrphanTtl > clock
        BY <3>1, <4>1 DEF Filed
      <4> QED BY <4>1, <4>2, ChatBounds
    <3> QED BY <3>1
  <2>3. \A f \in promised : f \notin Orphans /\ f # NoFile
    BY ChatBounds DEF Filed, Orphans, ChatTypeOK
  <2> QED BY <2>1, <2>2, <2>3 DEF Filed
<1>13. CASE UnlinkFile
  <2>1. PICK f \in cleaning.todo :
          disk' = disk \ {f} /\ cleaning' = [todo |-> cleaning.todo \ {f}, file |-> f]
    BY <1>13 DEF UnlinkFile
  <2>2. UNCHANGED <<attachments, clock, overdue, promised, req>>
    BY <1>13 DEF UnlinkFile, ghosts
  <2>3. /\ f \in overdue /\ f \in Files /\ f \notin promised
        /\ cleaning'.todo \subseteq cleaning.todo /\ f \notin cleaning'.todo /\ cleaning'.file = f
    BY <2>1 DEF Filed, ChatTypeOK
  <2>4. attachments[f] # NoRow
    BY <2>3, Fresh
  <2> QED BY <2>1, <2>2, <2>3, <2>4 DEF Filed
<1>14. CASE DeleteRow
  <2> DEFINE f == cleaning.file
  <2>1. /\ f \in Files /\ f \in overdue /\ f \notin promised /\ attachments[f].created > 0
    BY <1>14 DEF DeleteRow, Filed, ChatTypeOK
  <2>2. /\ ~attachments'[f].there /\ attachments'[f].created = attachments[f].created
        /\ \A g \in Files : g # f => attachments'[g] = attachments[g]
    BY <1>14, <2>1, OtherRows DEF DeleteRow, FileRow, ChatTypeOK
  <2>3. /\ cleaning'.todo = cleaning.todo /\ cleaning'.file = NoFile
        /\ UNCHANGED <<disk, clock, overdue, promised, req>>
    BY <1>14 DEF DeleteRow, ghosts
  <2>4. attachments[f] # NoRow
    BY <2>1, Fresh
  <2> HIDE DEF f
  <2>5. \A g \in promised : g # NoFile /\ g \in Files
    BY ChatBounds DEF ChatTypeOK
  <2>6. \A g \in overdue : attachments'[g].created > 0
    BY <2>1, <2>2 DEF Filed, ChatTypeOK
  <2>7. \A p \in Requests : req[p].at = "register" => req[p].file # f
    BY <2>4 DEF Filed
  <2> QED BY <2>1, <2>2, <2>3, <2>5, <2>6, <2>7, Held DEF Filed
<1>15. CASE Tick
  <2>1. /\ UNCHANGED <<attachments, disk, cleaning, promised, req>>
        /\ overdue \subseteq overdue'
        /\ \A f \in Files : attachments[f].there /\ f \notin overdue' =>
             ~ (attachments[f].created + OrphanTtl <= clock')
        /\ \A f \in overdue' : f \in overdue \/ (f \in Files /\ attachments[f].there)
    <3>1. /\ UNCHANGED <<attachments, disk, cleaning, promised, req>>
          /\ overdue' = overdue \cup {f \in Files : attachments[f].there
                                        /\ attachments[f].created + OrphanTtl <= clock'}
      BY <1>15 DEF Tick, tables
    <3> QED BY <3>1
  <2>2. \A f \in Files : attachments[f].created \in Nat
    BY DEF ChatTypeOK, Attachment
  <2>3. clock' \in Nat
    BY <1>15, ChatBounds DEF Tick, ChatTypeOK
  <2> QED BY <2>1, <2>2, <2>3, ChatBounds DEF Filed
<1>16. CASE ChatCrash
  <2>1. /\ \A q \in Requests : req'[q].at = "idle"
        /\ cleaning'.todo = {} /\ cleaning'.file = NoFile
        /\ UNCHANGED <<attachments, disk, overdue, promised>>
    BY <1>16 DEF ChatCrash, Free, AtRest, tables, ghosts
  <2>2. clock' \in Nat /\ clock \in Nat /\ clock' <= clock
    BY <1>16, ChatBounds DEF ChatCrash, ChatTypeOK
  <2>3. \A f \in promised : f # NoFile
    BY ChatBounds DEF ChatTypeOK
  <2>4. \A f \in Files : attachments[f].created \in Nat
    BY DEF ChatTypeOK, Attachment
  <2>5. \A f \in Files : attachments[f].created + OrphanTtl > clock =>
                         attachments[f].created + OrphanTtl > clock'
    BY <2>2, <2>4, ChatBounds
  <2> QED BY <2>1, <2>3, <2>5 DEF Filed, Sending
<1>17. CASE \/ Resume \/ UNCHANGED chatVars
            \/ \E v \in Viewers : Subscribe(v) \/ ListMessages(v) \/ Drop(v)
  <2>1. UNCHANGED <<attachments, disk, cleaning, clock, overdue, promised, req>>
    BY <1>17 DEF Resume, chatVars, Subscribe, ListMessages, Drop, tables, ghosts
  <2> QED BY <2>1 DEF Filed
<1> QED
  BY <1>1, <1>2, <1>3, <1>4, <1>5, <1>6, <1>7, <1>8, <1>12, <1>13, <1>14, <1>15, <1>16, <1>17
     DEF ChatNext

-----------------------------------------------------------------------------
(* The invariant of Chat holds at the start. *)
LEMMA ChatStarts == ASSUME ChatInit PROVE ChatInv
<1>1. ChatTypeOK
  BY TypeInit
<1>2. Numbered /\ Distinct
  BY DEF ChatInit, Numbered, Distinct, Free, NumberedStates, Saved
<1>3. Paged
  BY DEF ChatInit, Paged, Away, Page
<1>4. Filed
  BY DEF ChatInit, Filed, Free, NoRow, FileRow, AtRest, Sending
<1> QED BY <1>1, <1>2, <1>3, <1>4 DEF ChatInv

(* So it holds in every run. *)
LEMMA ChatInvariant == ChatSpec => []ChatInv
<1>1. ChatInv /\ [ChatNext]_chatVars => ChatInv'
  BY TypeStep, NumberedStep, DistinctStep, PagedStep, FiledStep DEF ChatInv
<1> QED BY <1>1, ChatStarts, PTL DEF ChatSpec

(* Rows, handlers and pages keep their shape in every run. *)
THEOREM ChatTypeCorrect == ChatSpec => []ChatTypeOK
BY ChatInvariant, PTL DEF ChatInv

(* A page that was loaded from the newest message back lacks nothing that was
   sent. *)
THEOREM PagesComplete == ChatSpec => []NothingMissed
<1>1. ChatInv => NothingMissed
  BY DEF ChatInv, Paged, NothingMissed
<1> QED BY <1>1, ChatInvariant, PTL

(* Messages are numbered in the order in which they are answered and begun,
   also across restarts. *)
THEOREM AnswersOrdered == ChatSpec => []AnsweredInOrder
<1>1. ChatInv => AnsweredInOrder
  BY DEF ChatInv, Numbered, NumberedStates, AnsweredInOrder
<1> QED BY <1>1, ChatInvariant, PTL

(* The cleanup never takes a file that was sent in time. *)
THEOREM FilesKept == ChatSpec => []SentFilesStay
<1>1. ChatInv => SentFilesStay
  BY DEF ChatInv, Filed, SentFilesStay
<1> QED BY <1>1, ChatInvariant, PTL
=============================================================================

------------------------ MODULE TradingEngine_proofs ------------------------
(***************************************************************************)
(* Proofs about TradingEngine, for every value of its constants, in this   *)
(* order, each layer from the ones before:                                 *)
(*   IInv       the types, the two disciplines of the settlement chain,    *)
(*              and that a handler at work has its order at hand;          *)
(*   Booked     rows say what their orders say, executions are balanced;   *)
(*   Accounted  no cash and no share is created or lost;                   *)
(*   Covered    nobody is short, nobody overdrawn;                         *)
(*   Knowledge, KeysApart, QueuedOnce   an order and a key trade once;     *)
(*   StopsCross stops wait for their trigger;                              *)
(*   Records    rows and ledger agree, and what is over stays;             *)
(*   Shown      the book shows what every order has left.                  *)
(* Inductive invariants and hypotheses are defined in TradingInvariants.   *)
(***************************************************************************)
EXTENDS TradingInvariants, SumTheorems, TLAPS

-----------------------------------------------------------------------------
(* What joining and leaving the settlement chain does to its jobs. *)

(* A job that joins the chain is no job of another kind; it is the only one of
   its own kind if there was none. *)
LEMMA AppendJob ==
  ASSUME NEW q \in Seq(SettlementJob), NEW kind, NEW job \in SettlementJob
  PROVE  /\ \A w : job.kind # kind /\ OneJob(q, kind, w) => OneJob(Append(q, job), kind, w)
         /\ job.kind = kind /\ OneJob(q, kind, FALSE) => OneJob(Append(q, job), kind, TRUE)
<1> DEFINE r == Append(q, job)
<1>1. /\ DOMAIN q = 1..Len(q) /\ Len(q) \in Nat
      /\ DOMAIN r = 1..(Len(q) + 1)
      /\ \A i \in 1..Len(q) : r[i] = q[i]
      /\ r[Len(q) + 1] = job
  OBVIOUS
<1> HIDE DEF r
<1>2. \A i \in DOMAIN r : r[i].kind = kind <=>
         (i \in DOMAIN q /\ q[i].kind = kind) \/ (i = Len(q) + 1 /\ job.kind = kind)
  BY <1>1
<1>3. ASSUME job.kind # kind, NEW w, OneJob(q, kind, w) PROVE OneJob(r, kind, w)
  BY <1>1, <1>2, <1>3 DEF OneJob
<1>4. ASSUME job.kind = kind, OneJob(q, kind, FALSE) PROVE OneJob(r, kind, TRUE)
  BY <1>1, <1>2, <1>4 DEF OneJob
<1> QED BY <1>3, <1>4 DEF r

(* A job that leaves the chain takes nothing of another kind with it, and was
   the only one of its own. *)
LEMMA TailJob ==
  ASSUME NEW q \in Seq(SettlementJob), q # <<>>, NEW kind
  PROVE  /\ \A w : Head(q).kind # kind /\ OneJob(q, kind, w) => OneJob(Tail(q), kind, w)
         /\ Head(q).kind = kind /\ OneJob(q, kind, TRUE) => OneJob(Tail(q), kind, FALSE)
         /\ Head(q).kind = kind => ~OneJob(q, kind, FALSE)
<1> DEFINE r == Tail(q)
<1>1. /\ DOMAIN q = 1..Len(q) /\ Len(q) \in Nat /\ Len(q) > 0
      /\ DOMAIN r = 1..(Len(q) - 1)
      /\ \A i \in 1..(Len(q) - 1) : r[i] = q[i + 1]
      /\ Head(q) = q[1]
  OBVIOUS
<1> HIDE DEF r
<1>2. ASSUME Head(q).kind # kind, NEW w, OneJob(q, kind, w) PROVE OneJob(r, kind, w)
  <2>1. \A i \in DOMAIN q : q[i].kind = kind => i - 1 \in DOMAIN r /\ r[i-1].kind = kind
    BY <1>1, <1>2
  <2>2. \A i \in DOMAIN r : r[i].kind = kind => i + 1 \in DOMAIN q /\ q[i+1].kind = kind
    BY <1>1
  <2> QED BY <1>1, <1>2, <2>1, <2>2 DEF OneJob
<1>3. ASSUME Head(q).kind = kind, OneJob(q, kind, TRUE) PROVE OneJob(r, kind, FALSE)
  <2>1. 1 \in DOMAIN q /\ q[1].kind = kind
    BY <1>1, <1>3
  <2>2. \A i \in DOMAIN r : i + 1 \in DOMAIN q /\ i + 1 # 1 /\ r[i] = q[i+1]
    BY <1>1
  <2>3. \A i \in DOMAIN r : r[i].kind # kind
    BY <1>3, <2>1, <2>2 DEF OneJob
  <2> QED BY <2>3 DEF OneJob
<1>4. ASSUME Head(q).kind = kind PROVE ~OneJob(q, kind, FALSE)
  BY <1>1, <1>4 DEF OneJob
<1> QED BY <1>2, <1>3, <1>4 DEF r

-----------------------------------------------------------------------------
(* What the operators on books, accounts and rows return. *)

(* Every function of the book yields rows. *)
LEMMA BookRows ==
  ASSUME ConstantsAssumption, NEW b \in SUBSET Row
  PROVE  /\ Positive(b) \subseteq Row
         /\ \A o \in Orders, s \in Nat : \A n : Resting(o, n, s) \subseteq Row
         /\ \A o : RemoveAll(b, o) \subseteq Row
         /\ \A o, n : RemoveQty(b, o, n) \subseteq Row
         /\ \A mid \in Marks, s \in Nat : Refresh(b, mid, s) \subseteq Row
<1>1. Positive(b) \subseteq Row
  BY DEF Positive
<1>2. ASSUME NEW o \in Orders, NEW n, NEW s \in Nat
      PROVE  Resting(o, n, s) \subseteq Row
  BY DEF Resting, Positive, Row, BookSide, Side, ConstantsAssumption, OrderData
<1>3. \A o : RemoveAll(b, o) \subseteq Row
  BY DEF RemoveAll
<1>4. ASSUME NEW o, NEW n
      PROVE  RemoveQty(b, o, n) \subseteq Row
  <2> DEFINE Behind(r) == SumFunctionOnSet([s \in b |-> s.qty],
                                         {s \in b : s.oid = o /\ s.seq > r.seq})
             Cut(r) == IF r.oid # o \/ n <= Behind(r) THEN 0
                       ELSE IF n - Behind(r) < r.qty THEN n - Behind(r) ELSE r.qty
  <2>1. RemoveQty(b, o, n) = Positive({[r EXCEPT !.qty = r.qty - Cut(r)] : r \in b})
    BY DEF RemoveQty
  <2> HIDE DEF Cut
  <2> QED BY <2>1 DEF Positive, Row
<1>5. ASSUME NEW mid \in Marks, NEW s \in Nat
      PROVE  Refresh(b, mid, s) \subseteq Row
  BY <1>3 DEF Refresh, Positive, Row, ConstantsAssumption
<1> QED BY <1>1, <1>2, <1>3, <1>4, <1>5

(* So does what a plan leaves of the book. *)
LEMMA ConsumeRows ==
  ASSUME BookOK, NEW take
  PROVE  Consume(take) \subseteq Row
BY DEF Consume, Positive, Row, BookOK

(* A settlement keeps the ledger a ledger. *)
LEMMA SettleLedger ==
  ASSUME ConstantsAssumption, NEW l \in Ledger, NEW side, NEW n \in Nat, NEW total \in Int
  PROVE  /\ \A a \in Accounts : Settle(l, a, side, n, total) \in Ledger
         /\ External(l, side, n, total) \in Ledger
         /\ \A o \in Orders : Traded(l, o, n) \in Ledger
<1>1. /\ Fee \in Nat /\ l.fees \in Nat /\ l.outShares \in Int /\ l.outCash \in Int
      /\ l.cash \in [Accounts -> Int] /\ l.shares \in [Accounts -> Int]
      /\ l.traded \in [Orders -> Nat]
      /\ l = [cash |-> l.cash, shares |-> l.shares, traded |-> l.traded,
              fees |-> l.fees, outShares |-> l.outShares, outCash |-> l.outCash]
  BY DEF ConstantsAssumption, Ledger
<1>2. ASSUME NEW a \in Accounts PROVE Settle(l, a, side, n, total) \in Ledger
  <2> DEFINE paid == IF side = "buy" THEN l.cash[a] - total - Fee
                                     ELSE l.cash[a] + total - Fee
             held == IF side = "buy" THEN l.shares[a] + n ELSE l.shares[a] - n
  <2>1. Settle(l, a, side, n, total) =
          [cash |-> [l.cash EXCEPT ![a] = paid],
           shares |-> [l.shares EXCEPT ![a] = held], traded |-> l.traded,
           fees |-> l.fees + Fee, outShares |-> l.outShares, outCash |-> l.outCash]
    BY <1>1 DEF Settle
  <2>2. paid \in Int /\ held \in Int
    BY <1>1
  <2> QED BY <1>1, <2>1, <2>2 DEF Ledger
<1>3. External(l, side, n, total) \in Ledger
  <2>1. External(l, side, n, total) =
          [cash |-> l.cash, shares |-> l.shares, traded |-> l.traded, fees |-> l.fees,
           outShares |-> IF side = "buy" THEN l.outShares - n ELSE l.outShares + n,
           outCash |-> IF side = "buy" THEN l.outCash + total ELSE l.outCash - total]
    BY <1>1 DEF External
  <2> QED BY <1>1, <2>1 DEF Ledger
<1>4. ASSUME NEW o \in Orders PROVE Traded(l, o, n) \in Ledger
  BY DEF Traded, Ledger
<1> QED BY <1>2, <1>3, <1>4

(* The ledger a counterparty's settlement leaves is one. *)
LEMMA CounterLedger ==
  ASSUME ConstantsAssumption, NEW l \in Ledger, NEW f \in ExecutionData,
         NEW c \in Orders
  PROVE  /\ SettleCounterparty(l, f, c) \in Ledger
         /\ f.counter[c] \in Nat /\ CounterCost(f, c) \in Int /\ Acct(c) \in Accounts
<1>1. f.counter[c] \in Nat /\ Detail[c].price \in Nat /\ Acct(c) \in Accounts
  BY DEF ExecutionData, ConstantsAssumption, OrderData, Acct
<1>2. CounterCost(f, c) \in Int
  BY <1>1 DEF CounterCost
<1> QED BY <1>1, <1>2, SettleLedger DEF SettleCounterparty

(* The row of an order stays a row, whichever field a handler writes. *)
LEMMA RowEdits ==
  ASSUME NEW row \in OrderRow
  PROVE  /\ \A st \in Status : [row EXCEPT !.status = st] \in OrderRow
         /\ \A n \in Int, st \in Status :
              [row EXCEPT !.filled = n, !.status = st] \in OrderRow
         /\ \A r \in Nat : [row EXCEPT !.retries = r] \in OrderRow
         /\ \A r \in Nat, st \in Status :
              [row EXCEPT !.retries = r, !.status = st] \in OrderRow
         /\ \A t \in BOOLEAN : [row EXCEPT !.triggered = t] \in OrderRow
BY DEF OrderRow

(* The row a fill leaves is one. *)
LEMMA RowAfterFill ==
  ASSUME NEW o \in Orders, NEW row \in OrderRow, NEW n \in Nat,
         NEW f \in ExecutionData
  PROVE  /\ Progress(o, row, n) \in OrderRow
         /\ Recorded(o, row, f) \in OrderRow
<1>1. row.filled \in Int /\ f.counter[o] \in Nat /\ row.status \in Status
  BY DEF OrderRow, ExecutionData
<1>2. \A m \in Int, st \in Status : [row EXCEPT !.filled = m, !.status = st] \in OrderRow
  BY RowEdits
<1>3. Progress(o, row, n) \in OrderRow
  <2> DEFINE m == row.filled + n
             st == IF m >= Detail[o].qty THEN "filled"
                   ELSE IF Type(o) \in Immediate THEN "partial" ELSE "pending"
  <2>1. m \in Int /\ st \in Status
    BY <1>1 DEF Status
  <2>2. Progress(o, row, n) = [row EXCEPT !.filled = m, !.status = st]
    BY DEF Progress
  <2> HIDE DEF m, st
  <2> QED BY <1>2, <2>1, <2>2
<1>4. Recorded(o, row, f) \in OrderRow
  <2> DEFINE m == row.filled + f.counter[o]
             st == IF m >= Detail[o].qty THEN "filled"
                   ELSE row.status
  <2>1. m \in Int /\ st \in Status
    BY <1>1 DEF Status
  <2>2. Recorded(o, row, f) = [row EXCEPT !.filled = m, !.status = st]
    BY <1>1 DEF Recorded
  <2> HIDE DEF m, st
  <2> QED BY <1>2, <2>1, <2>2
<1> QED BY <1>3, <1>4

(* What the handlers start from. *)
LEMMA Fresh ==
  ASSUME ConstantsAssumption
  PROVE  /\ NewRow \in OrderRow /\ Pending \in OrderRow
         /\ NoFill \in ExecutionData /\ NoTx.ledger \in Ledger
<1>1. NewRow \in OrderRow
  BY DEF NewRow, OrderRow, Status
<1>2. Pending \in OrderRow
  <2>1. "pending" \in Status
    BY DEF Status
  <2> QED BY <1>1, <2>1, RowEdits DEF Pending
<1>3. NoFill \in ExecutionData
  BY DEF NoFill, ExecutionData
<1>4. NoTx.ledger \in Ledger
  BY DEF NoTx, Ledger, ConstantsAssumption
<1> QED BY <1>1, <1>2, <1>3, <1>4

-----------------------------------------------------------------------------
(* The inductive invariant. *)

(* The engine starts in the invariant. *)
LEMMA InitIInv == ASSUME ConstantsAssumption, Init PROVE IInv
<1>1. TablesOK /\ FrameOK /\ SettlementOK /\ AgentOK /\ EnvOK
  <2>1. TablesOK /\ FrameOK /\ EnvOK
    BY Fresh DEF Init, TablesOK, FrameOK, EnvOK, NoTx
  <2>2. SettlementOK
    BY Fresh DEF Init, SettlementOK, NoTx
  <2>3. AgentOK
    BY Fresh DEF Init, AgentOK, NoTrade
  <2> QED BY <2>1, <2>2, <2>3
<1>2. BookOK
  <2>1. mark \in Marks /\ 0 \in Nat /\ {} \in SUBSET Row
    BY DEF Init
  <2>2. book \subseteq Row
    BY <2>1, BookRows DEF Init
  <2> QED BY <2>1, <2>2 DEF BookOK, Init
<1>3. QueuesOK
  BY DEF QueuesOK, Init
<1>4. ReservationDiscipline /\ AgentDiscipline /\ LocalsInPlace
  BY DEF Init, ReservationDiscipline, AgentDiscipline, LocalsInPlace, OneJob,
         NoTx, NoTrade
<1> QED BY <1>1, <1>2, <1>3, <1>4 DEF IInv, TypeOK

(* Clients, the tick loop and the risk check: they only queue work or refresh
   the quotes. *)
LEMMA EnqueueOK ==
  ASSUME IInv, NEW kind \in {"submit", "cancel", "sweep"},
         NEW o \in Orders \cup {None}, kind # "sweep" => o \in Orders,
         NEW cash \in Int, Enqueue(kind, o, cash),
         UNCHANGED <<settlementQueue, pc, cur, tx>>
  PROVE  QueuesOK' /\ LocalsInPlace'
<1> DEFINE job == [kind |-> kind, oid |-> o, cash |-> cash]
<1>1. job \in OrderJob
  BY DEF OrderJob
<1>2. job.kind = kind /\ job.oid = o /\ orderQueue' = Append(orderQueue, job)
  BY DEF Enqueue
<1> HIDE DEF job
<1>3. orderQueue \in Seq(OrderJob)
  BY DEF IInv, TypeOK, QueuesOK
<1>4. /\ orderQueue' \in Seq(OrderJob) /\ orderQueue' # <<>>
      /\ DOMAIN orderQueue' = 1..(Len(orderQueue) + 1)
      /\ DOMAIN orderQueue = 1..Len(orderQueue)
      /\ \A i \in 1..Len(orderQueue) : orderQueue'[i] = orderQueue[i]
      /\ orderQueue'[Len(orderQueue) + 1] = job
  BY <1>1, <1>2, <1>3
<1>5. \A i \in DOMAIN orderQueue' :
        orderQueue'[i].kind # "sweep" => orderQueue'[i].oid \in Orders
  BY <1>2, <1>3, <1>4 DEF IInv, LocalsInPlace
<1> QED BY <1>4, <1>5 DEF IInv, TypeOK, QueuesOK, LocalsInPlace

(* What the clients and the clock ask for keeps it. *)
LEMMA EnvironmentStep ==
  ASSUME ConstantsAssumption, IInv, Environment
  PROVE  IInv'
<1> USE DEF IInv, TypeOK, TablesOK, BookOK, FrameOK, SettlementOK, AgentOK, EnvOK,
            bookVars, frame, env, market
<1>1. ASSUME NEW o \in Orders, PlaceOrder(o) PROVE IInv'
  <2>1. ledger.cash[Acct(o)] \in Int
    BY CounterLedger, Fresh DEF Ledger
  <2>2. QueuesOK' /\ LocalsInPlace'
    BY <1>1, <2>1, EnqueueOK DEF PlaceOrder
  <2> QED BY <1>1, <2>2 DEF PlaceOrder, ReservationDiscipline, AgentDiscipline
<1>2. ASSUME NEW o \in Orders, RequestCancel(o) PROVE IInv'
  <2>1. QueuesOK' /\ LocalsInPlace'
    BY <1>2, EnqueueOK DEF RequestCancel
  <2> QED BY <1>2, <2>1 DEF RequestCancel, ReservationDiscipline, AgentDiscipline
<1>3. ASSUME RequestSweep PROVE IInv'
  <2>1. QueuesOK' /\ LocalsInPlace'
    BY <1>3, EnqueueOK DEF RequestSweep
  <2> QED BY <1>3, <2>1 DEF RequestSweep, ReservationDiscipline, AgentDiscipline
<1>4. ASSUME NEW a \in Accounts, MarginCall(a) PROVE IInv'
  <2> DEFINE job == [kind |-> "liquidate", acct |-> a]
  <2>1. job \in SettlementJob /\ job.kind # "fill" /\ job.kind # "counter"
    BY DEF SettlementJob
  <2> HIDE DEF job
  <2>2. settlementQueue' = Append(settlementQueue, job)
    BY <1>4 DEF MarginCall, job
  <2>3. QueuesOK'
    BY <1>4, <2>1, <2>2 DEF MarginCall, QueuesOK
  <2>4. ReservationDiscipline' /\ AgentDiscipline'
    <3>1. /\ settlementQueue \in Seq(SettlementJob) /\ reserved \in BOOLEAN
          /\ OneJob(settlementQueue, "fill", reserved)
          /\ OneJob(settlementQueue, "counter", agent.phase = "settling")
      BY DEF QueuesOK, ReservationDiscipline, AgentDiscipline
    <3>2. OneJob(settlementQueue', "fill", reserved)
      BY <2>1, <2>2, <3>1, AppendJob
    <3>3. OneJob(settlementQueue', "counter", agent.phase = "settling")
      BY <2>1, <2>2, <3>1, AppendJob
    <3> QED BY <1>4, <3>2, <3>3
            DEF MarginCall, ReservationDiscipline, AgentDiscipline
  <2> QED BY <1>4, <2>3, <2>4 DEF MarginCall, LocalsInPlace
<1>5. ASSUME Tick PROVE IInv'
  <2>1. BookOK'
    <3>1. /\ mark' \in Marks /\ quoteSequence \in Nat
          /\ quoteSequence' \in Nat /\ ticks' \in Nat
      BY <1>5 DEF Tick
    <3>2. \A b \in SUBSET Row : Refresh(b, mark', quoteSequence) \subseteq Row
      BY <3>1, BookRows
    <3> QED BY <1>5, <3>1, <3>2 DEF Tick, Change, Books
  <2> QED BY <1>5, <2>1
          DEF Tick, Change, Books, QueuesOK, ReservationDiscipline, AgentDiscipline, LocalsInPlace
<1> QED BY <1>1, <1>2, <1>3, <1>4, <1>5 DEF Environment

(* The two ways an order handler lets go of the processor for good: it returns,
   or it reserves the symbol and waits. *)
LEMMA ReturnOK ==
  ASSUME ConstantsAssumption, IInv, Return, orderQueue # <<>>, UNCHANGED tx
  PROVE  /\ orderQueue' \in Seq(OrderJob) /\ FrameOK' /\ LocalsInPlace'
         /\ pc' = "idle"
<1>1. orderQueue' \in Seq(OrderJob)
  BY DEF Return, IInv, TypeOK, QueuesOK
<1>2. FrameOK'
  BY Fresh DEF Return, FrameOK
<1>3. \A i \in DOMAIN orderQueue' :
        i + 1 \in DOMAIN orderQueue /\ orderQueue'[i] = orderQueue[i + 1]
  BY DEF Return, IInv, TypeOK, QueuesOK
<1>4. LocalsInPlace'
  BY <1>3 DEF LocalsInPlace, Return, IInv
<1> QED BY <1>1, <1>2, <1>4 DEF Return

(* Books that are published or set aside hold rows. *)
LEMMA ReserveOK ==
  ASSUME ConstantsAssumption, IInv, NEW o \in Orders, NEW take,
         NEW extra \in SUBSET Row, Reserve(o, take, extra), UNCHANGED agent
  PROVE  /\ book' \subseteq Row /\ onCommit' \subseteq Row /\ onRollback' \subseteq Row
         /\ reserved' = TRUE /\ pc' = "settling" /\ fill' \in ExecutionData
         /\ settlementQueue' \in Seq(SettlementJob)
         /\ ReservationDiscipline' /\ AgentDiscipline'
<1> DEFINE job == [kind |-> "fill", acct |-> Acct(o)]
<1>1. job \in SettlementJob /\ job.kind = "fill" /\ job.kind # "counter"
  BY DEF SettlementJob, ConstantsAssumption, OrderData, Acct
<1> HIDE DEF job
<1>2. settlementQueue \in Seq(SettlementJob) /\ settlementQueue' = Append(settlementQueue, job)
  BY DEF Reserve, job, IInv, TypeOK, QueuesOK
<1>3. /\ ~reserved
      /\ OneJob(settlementQueue, "fill", reserved)
      /\ OneJob(settlementQueue, "counter", agent.phase = "settling")
  BY DEF Reserve, IInv, ReservationDiscipline, AgentDiscipline
<1>4. OneJob(settlementQueue', "fill", TRUE)
  <2>1. OneJob(settlementQueue, "fill", FALSE)
    BY <1>3 DEF OneJob
  <2>2. OneJob(Append(settlementQueue, job), "fill", TRUE)
    BY <1>1, <1>2, <2>1, AppendJob
  <2> QED BY <1>2, <2>2
<1>5. OneJob(settlementQueue', "counter", agent.phase = "settling")
  <2>1. OneJob(Append(settlementQueue, job), "counter", agent.phase = "settling")
    BY <1>1, <1>2, <1>3, AppendJob
  <2> QED BY <1>2, <2>1
<1>6. /\ book' \subseteq Row /\ onCommit' \subseteq Row /\ onRollback' \subseteq Row
      /\ reserved' = TRUE /\ pc' = "settling" /\ fill' \in ExecutionData
  BY ConsumeRows DEF Reserve, IInv, TypeOK, BookOK
<1>7. ReservationDiscipline'
  BY <1>4, <1>6 DEF ReservationDiscipline
<1>8. AgentDiscipline'
  BY <1>5 DEF AgentDiscipline, IInv
<1> QED BY <1>1, <1>2, <1>6, <1>7, <1>8

(* submitOrder *)
LEMMA SubmitStep ==
  ASSUME ConstantsAssumption, IInv,
         \/ SubmitRefused \/ PlaceAndCross \/ PlaceAndRest
         \/ SubmitSettled \/ SubmitFailed \/ Unbook
         \/ \E o \in Orders : SubmitImmediate(o) \/ SubmitUnfilled(o) \/ SubmitSave(o)
  PROVE  IInv'
<1> USE DEF IInv, TypeOK, TablesOK, BookOK, SettlementOK, AgentOK, EnvOK,
            bookVars, env, market
<1>1. ASSUME \/ SubmitRefused \/ SubmitSettled
             \/ \E o \in Orders : SubmitUnfilled(o)
      PROVE  IInv'
  <2>1. /\ orderQueue # <<>> /\ Return /\ pc # "settling"
        /\ UNCHANGED <<orders, ledger, market, bookVars, settlementQueue, tx, agent, env>>
    BY <1>1 DEF SubmitRefused, SubmitSettled, SubmitUnfilled, Running
  <2>2. orderQueue' \in Seq(OrderJob) /\ FrameOK' /\ LocalsInPlace' /\ pc' = "idle"
    BY <2>1, ReturnOK
  <2> QED BY <2>1, <2>2 DEF QueuesOK, ReservationDiscipline, AgentDiscipline
<1>2. ASSUME NEW o \in Orders, SubmitImmediate(o) PROVE IInv'
  <2>1. PICK take \in SubmitPlans(o) : Reserve(o, take, {})
    BY <1>2 DEF SubmitImmediate
  <2>2. /\ book' \subseteq Row /\ onCommit' \subseteq Row /\ onRollback' \subseteq Row
        /\ reserved' = TRUE /\ pc' = "settling" /\ fill' \in ExecutionData
        /\ settlementQueue' \in Seq(SettlementJob)
        /\ ReservationDiscipline' /\ AgentDiscipline'
    BY <1>2, <2>1, ReserveOK DEF SubmitImmediate
  <2>3. FrameOK' /\ QueuesOK' /\ LocalsInPlace'
    BY <1>2, <2>2, Fresh DEF SubmitImmediate, FrameOK, QueuesOK, LocalsInPlace, Running
  <2> QED BY <1>2, <2>2, <2>3 DEF SubmitImmediate
<1>3. ASSUME NEW o \in Orders, SubmitSave(o) PROVE IInv'
  <2>1. TablesOK'
    BY <1>3, Fresh DEF SubmitSave
  <2>2. CASE Rests(o)
    BY <1>3, <2>1, <2>2, Fresh
    DEF SubmitSave, FrameOK, QueuesOK, ReservationDiscipline, AgentDiscipline,
        LocalsInPlace, Running
  <2>3. CASE ~Rests(o)
    <3>1. orderQueue # <<>> /\ Return /\ UNCHANGED tx /\ pc # "settling"
      BY <1>3, <2>3 DEF SubmitSave, Running
    <3>2. orderQueue' \in Seq(OrderJob) /\ FrameOK' /\ LocalsInPlace' /\ pc' = "idle"
      BY <3>1, ReturnOK
    <3> QED BY <1>3, <2>1, <3>1, <3>2
            DEF SubmitSave, QueuesOK, ReservationDiscipline, AgentDiscipline
  <2> QED BY <2>2, <2>3
<1>4. ASSUME PlaceAndCross PROVE IInv'
  <2> DEFINE rest == Resting(cur, Detail[cur].qty, quoteSequence)
  <2>1. cur \in Orders /\ rest \in SUBSET Row
    BY <1>4, BookRows DEF PlaceAndCross, LocalsInPlace
  <2>2. PICK take : Reserve(cur, take, rest)
    BY <1>4 DEF PlaceAndCross
  <2> HIDE DEF rest
  <2>3. /\ book' \subseteq Row /\ onCommit' \subseteq Row /\ onRollback' \subseteq Row
        /\ reserved' = TRUE /\ pc' = "settling" /\ fill' \in ExecutionData
        /\ settlementQueue' \in Seq(SettlementJob)
        /\ ReservationDiscipline' /\ AgentDiscipline'
    BY <1>4, <2>1, <2>2, ReserveOK DEF PlaceAndCross
  <2>4. FrameOK' /\ QueuesOK' /\ LocalsInPlace'
    BY <1>4, <2>3 DEF PlaceAndCross, FrameOK, QueuesOK, LocalsInPlace
  <2> QED BY <1>4, <2>3, <2>4 DEF PlaceAndCross
<1>5. ASSUME PlaceAndRest PROVE IInv'
  <2> DEFINE rest == Resting(cur, Detail[cur].qty, quoteSequence)
  <2>1. rest \in SUBSET Row /\ quoteSequence' \in Nat
    <3>1. cur \in Orders /\ quoteSequence \in Nat /\ quoteSequence' = quoteSequence + 1
      BY <1>5 DEF PlaceAndRest, LocalsInPlace
    <3>2. rest \in SUBSET Row
      BY <3>1, BookRows
    <3> QED BY <3>1, <3>2
  <2>2. Change([b \in Books |-> b \cup rest])
    BY <1>5 DEF PlaceAndRest
  <2> HIDE DEF rest
  <2>3. BookOK' /\ UNCHANGED reserved
    BY <1>5, <2>1, <2>2 DEF PlaceAndRest, Change, Books
  <2>4. orderQueue # <<>> /\ Return /\ pc # "settling"
    BY <1>5 DEF PlaceAndRest, LocalsInPlace
  <2>5. orderQueue' \in Seq(OrderJob) /\ FrameOK' /\ LocalsInPlace' /\ pc' = "idle"
    BY <1>5, <2>4, ReturnOK DEF PlaceAndRest
  <2> QED BY <1>5, <2>3, <2>4, <2>5
          DEF PlaceAndRest, QueuesOK, ReservationDiscipline, AgentDiscipline
<1>6. ASSUME SubmitFailed PROVE IInv'
  <2>1. CASE Type(cur) \in Immediate
    <3>1. /\ orderQueue # <<>> /\ Return /\ pc # "settling"
          /\ UNCHANGED <<orders, ledger, market, bookVars, settlementQueue, tx, agent, env>>
      BY <1>6, <2>1 DEF SubmitFailed, Running
    <3>2. orderQueue' \in Seq(OrderJob) /\ FrameOK' /\ LocalsInPlace' /\ pc' = "idle"
      BY <3>1, ReturnOK
    <3> QED BY <3>1, <3>2 DEF QueuesOK, ReservationDiscipline, AgentDiscipline
  <2>2. CASE Type(cur) \notin Immediate
    <3>1. own \in OrderRow /\ "cancelled" \in Status
      BY DEF FrameOK, Status
    <3>2. [own EXCEPT !.status = "cancelled"] \in OrderRow
      BY <3>1, RowEdits
    <3>3. TablesOK'
      BY <1>6, <2>2, <3>2 DEF SubmitFailed
    <3> QED BY <1>6, <2>2, <3>3
            DEF SubmitFailed, FrameOK, QueuesOK, ReservationDiscipline, AgentDiscipline,
                LocalsInPlace
  <2> QED BY <2>1, <2>2
<1>7. ASSUME Unbook PROVE IInv'
  <2>1. BookOK' /\ UNCHANGED reserved
    <3>1. \A b \in SUBSET Row : RemoveAll(b, cur) \subseteq Row
      BY BookRows
    <3> QED BY <1>7, <3>1 DEF Unbook, Change, Books
  <2>2. CASE Running("sweep")
    BY <1>7, <2>1, <2>2
    DEF Unbook, FrameOK, QueuesOK, ReservationDiscipline, AgentDiscipline, LocalsInPlace
  <2>3. CASE ~Running("sweep")
    <3>1. orderQueue # <<>> /\ Return /\ pc # "settling"
      BY <1>7, <2>3 DEF Unbook, LocalsInPlace
    <3>2. orderQueue' \in Seq(OrderJob) /\ FrameOK' /\ LocalsInPlace' /\ pc' = "idle"
      BY <1>7, <3>1, ReturnOK DEF Unbook
    <3> QED BY <1>7, <2>1, <3>1, <3>2
            DEF Unbook, QueuesOK, ReservationDiscipline, AgentDiscipline
  <2> QED BY <2>2, <2>3
<1> QED BY <1>1, <1>2, <1>3, <1>4, <1>5, <1>6, <1>7

(* cancelOrder *)
LEMMA CancelStep ==
  ASSUME ConstantsAssumption, IInv, CancelMiss \/ CancelRead \/ CancelSave
  PROVE  IInv'
<1> USE DEF IInv, TypeOK, TablesOK, BookOK, SettlementOK, AgentOK, EnvOK,
            bookVars, env, market
<1>1. ASSUME CancelMiss PROVE IInv'
  <2>1. orderQueue # <<>> /\ Return /\ pc # "settling" /\ UNCHANGED tx
    BY <1>1 DEF CancelMiss, Running
  <2>2. orderQueue' \in Seq(OrderJob) /\ FrameOK' /\ LocalsInPlace' /\ pc' = "idle"
    BY <2>1, ReturnOK
  <2> QED BY <1>1, <2>1, <2>2
          DEF CancelMiss, QueuesOK, ReservationDiscipline, AgentDiscipline
<1>2. ASSUME CancelRead PROVE IInv'
  <2>1. Job.oid \in Orders /\ orderQueue # <<>>
    BY <1>2 DEF CancelRead, Running, Job, LocalsInPlace, QueuesOK
  <2>2. FrameOK'
    BY <1>2, <2>1 DEF CancelRead, FrameOK
  <2> QED BY <1>2, <2>1, <2>2
          DEF CancelRead, QueuesOK, ReservationDiscipline, AgentDiscipline, LocalsInPlace
<1>3. ASSUME CancelSave PROVE IInv'
  <2>1. own \in OrderRow /\ "cancelled" \in Status
    BY DEF FrameOK, Status
  <2>2. [own EXCEPT !.status = "cancelled"] \in OrderRow
    BY <2>1, RowEdits
  <2>3. TablesOK'
    BY <1>3, <2>2 DEF CancelSave
  <2> QED BY <1>3, <2>3
          DEF CancelSave, FrameOK, QueuesOK, ReservationDiscipline, AgentDiscipline,
              LocalsInPlace
<1> QED BY <1>1, <1>2, <1>3

(* The copies a sweep works on are rows, triggered or not. *)
LEMMA FiredRow ==
  ASSUME IInv, NEW o \in Orders
  PROVE  Fired(o) \in OrderRow /\ stale[o] \in OrderRow /\ stale[o].retries \in Nat
<1>1. stale[o] \in OrderRow
  BY DEF IInv, TypeOK, FrameOK
<1>2. (stale[o].triggered \/ Type(o) \in Stops) \in BOOLEAN /\ stale[o].retries \in Nat
  BY <1>1 DEF OrderRow
<1>3. \A t \in BOOLEAN : [stale[o] EXCEPT !.triggered = t] \in OrderRow
  BY <1>1, RowEdits
<1>4. Fired(o) = [stale[o] EXCEPT !.triggered = stale[o].triggered \/ Type(o) \in Stops]
  BY DEF Fired
<1> QED BY <1>1, <1>2, <1>3, <1>4

(* checkPendingOrders *)
LEMMA SweepStep ==
  ASSUME ConstantsAssumption, IInv,
         \/ SweepLoad \/ SweepEnd \/ SweepSettled \/ SweepFailed
         \/ \E o \in Orders :
              SweepSkip(o) \/ SweepReject(o) \/ SweepExecute(o) \/ SweepUnfilled(o)
  PROVE  IInv'
<1> USE DEF IInv, TypeOK, TablesOK, BookOK, SettlementOK, AgentOK, EnvOK,
            bookVars, env, market
<1>1. ASSUME SweepLoad PROVE IInv'
  <2>1. FrameOK'
    BY <1>1 DEF SweepLoad, FrameOK
  <2> QED BY <1>1, <2>1
          DEF SweepLoad, QueuesOK, ReservationDiscipline, AgentDiscipline, LocalsInPlace,
              Running
<1>2. ASSUME SweepEnd PROVE IInv'
  <2>1. orderQueue # <<>> /\ Return /\ pc # "settling" /\ UNCHANGED tx
    BY <1>2 DEF SweepEnd, LocalsInPlace
  <2>2. orderQueue' \in Seq(OrderJob) /\ FrameOK' /\ LocalsInPlace' /\ pc' = "idle"
    BY <2>1, ReturnOK
  <2> QED BY <1>2, <2>1, <2>2
          DEF SweepEnd, QueuesOK, ReservationDiscipline, AgentDiscipline
<1>3. ASSUME SweepSettled PROVE IInv'
  <2>1. TablesOK' /\ FrameOK'
    BY <1>3 DEF SweepSettled, FrameOK
  <2> QED BY <1>3, <2>1
          DEF SweepSettled, QueuesOK, ReservationDiscipline, AgentDiscipline, LocalsInPlace
<1>4. ASSUME SweepFailed PROVE IInv'
  <2>1. own \in OrderRow /\ own.retries + 1 \in Nat /\ "cancelled" \in Status
    BY DEF FrameOK, Status, OrderRow
  <2>2. /\ [own EXCEPT !.retries = own.retries + 1] \in OrderRow
        /\ [own EXCEPT !.status = "cancelled"] \in OrderRow
    BY <2>1, RowEdits
  <2>3. TablesOK' /\ FrameOK'
    BY <1>4, <2>2 DEF SweepFailed, FrameOK
  <2> QED BY <1>4, <2>3
          DEF SweepFailed, QueuesOK, ReservationDiscipline, AgentDiscipline, LocalsInPlace
<1>5. ASSUME NEW o \in Orders, SweepSkip(o) PROVE IInv'
  <2>1. FrameOK'
    BY <1>5 DEF SweepSkip, FrameOK
  <2> QED BY <1>5, <2>1
          DEF SweepSkip, QueuesOK, ReservationDiscipline, AgentDiscipline, LocalsInPlace
<1>6. ASSUME NEW o \in Orders, SweepReject(o) PROVE IInv'
  <2>1. Fired(o) \in OrderRow /\ "cancelled" \in Status
    BY FiredRow DEF Status
  <2>2. [Fired(o) EXCEPT !.status = "cancelled"] \in OrderRow
    BY <2>1, RowEdits
  <2>3. TablesOK' /\ FrameOK'
    BY <1>6, <2>1, <2>2 DEF SweepReject, FrameOK
  <2> QED BY <1>6, <2>3
          DEF SweepReject, QueuesOK, ReservationDiscipline, AgentDiscipline, LocalsInPlace
<1>7. ASSUME NEW o \in Orders, SweepExecute(o) PROVE IInv'
  <2>1. PICK take : Reserve(o, take, {})
    BY <1>7 DEF SweepExecute
  <2>2. /\ book' \subseteq Row /\ onCommit' \subseteq Row /\ onRollback' \subseteq Row
        /\ reserved' = TRUE /\ pc' = "settling" /\ fill' \in ExecutionData
        /\ settlementQueue' \in Seq(SettlementJob)
        /\ ReservationDiscipline' /\ AgentDiscipline'
    BY <1>7, <2>1, ReserveOK DEF SweepExecute
  <2>3. FrameOK' /\ QueuesOK' /\ LocalsInPlace'
    BY <1>7, <2>2, FiredRow DEF SweepExecute, FrameOK, QueuesOK, LocalsInPlace
  <2> QED BY <1>7, <2>2, <2>3 DEF SweepExecute
<1>8. ASSUME NEW o \in Orders, SweepUnfilled(o) PROVE IInv'
  <2> DEFINE row == Fired(o)
             r == row.retries + 1
             st == IF stale[o].retries + 1 >= MaxRetries THEN "cancelled" ELSE row.status
  <2>1. row \in OrderRow /\ r \in Nat /\ st \in Status
    BY FiredRow DEF Status, OrderRow
  <2>2. \/ orders' = orders
        \/ orders' = [orders EXCEPT ![o] = [row EXCEPT !.retries = r, !.status = st]]
    BY <1>8 DEF SweepUnfilled
  <2> HIDE DEF row, r, st
  <2>3. [row EXCEPT !.retries = r, !.status = st] \in OrderRow
    BY <2>1, RowEdits
  <2>4. FrameOK'
    BY <1>8 DEF SweepUnfilled, FrameOK
  <2>5. orders' \in [Orders -> OrderRow]
    BY <2>2, <2>3
  <2>6. TablesOK'
    BY <1>8, <2>5 DEF SweepUnfilled
  <2> QED BY <1>8, <2>4, <2>6
          DEF SweepUnfilled, QueuesOK, ReservationDiscipline, AgentDiscipline, LocalsInPlace
<1> QED BY <1>1, <1>2, <1>3, <1>4, <1>5, <1>6, <1>7, <1>8

(* The order chain keeps it. *)
LEMMA OrderHandlerStep ==
  ASSUME ConstantsAssumption, IInv, OrderHandler
  PROVE  IInv'
BY SubmitStep, CancelStep, SweepStep DEF OrderHandler

(* A settlement at work means a handler that waits for it. *)
LEMMA FillReserved ==
  ASSUME IInv, Settling("fill")
  PROVE  reserved
<1> SUFFICES ASSUME ~reserved PROVE FALSE
  OBVIOUS
<1>1. /\ settlementQueue \in Seq(SettlementJob) /\ settlementQueue # <<>>
      /\ Head(settlementQueue).kind = "fill" /\ OneJob(settlementQueue, "fill", reserved)
  BY DEF Settling, IInv, TypeOK, QueuesOK, ReservationDiscipline
<1>2. OneJob(settlementQueue, "fill", FALSE)
  BY <1>1 DEF OneJob
<1> QED BY <1>1, <1>2, TailJob

(* A settlement that ends lets the waiting handler go on. *)
LEMMA ReleaseOK ==
  ASSUME ConstantsAssumption, IInv, Settling("fill"), NEW b \in SUBSET Row,
         NEW answer \in {"settled", "failed"}, Release(b, answer),
         UNCHANGED <<agent, cur, orderQueue>>
  PROVE  /\ book' \subseteq Row /\ onCommit' \subseteq Row /\ onRollback' \subseteq Row
         /\ reserved' = FALSE /\ pc' = answer
         /\ QueuesOK' /\ SettlementOK'
         /\ ReservationDiscipline' /\ AgentDiscipline' /\ LocalsInPlace'
<1>1. /\ settlementQueue \in Seq(SettlementJob) /\ settlementQueue # <<>>
      /\ Head(settlementQueue).kind = "fill" /\ Head(settlementQueue).kind # "counter"
      /\ OneJob(settlementQueue, "fill", reserved)
      /\ OneJob(settlementQueue, "counter", agent.phase = "settling")
      /\ settlementQueue' = Tail(settlementQueue)
  BY DEF Settling, Release, IInv, TypeOK, QueuesOK, ReservationDiscipline, AgentDiscipline
<1>2. reserved /\ OneJob(settlementQueue', "fill", FALSE)
  <2>1. reserved /\ OneJob(settlementQueue, "fill", TRUE)
    BY <1>1, FillReserved DEF OneJob
  <2> QED BY <1>1, <2>1, TailJob
<1>3. OneJob(settlementQueue', "counter", agent.phase = "settling")
  BY <1>1, TailJob
<1>4. QueuesOK'
  BY <1>1 DEF QueuesOK, IInv, TypeOK
<1>5. SettlementOK'
  BY Fresh DEF Release, NoTx, SettlementOK
<1>6. pc = "settling"
  BY <1>2 DEF IInv, ReservationDiscipline
<1>7. ReservationDiscipline'
  BY <1>2 DEF Release, ReservationDiscipline
<1>8. AgentDiscipline'
  BY <1>3 DEF AgentDiscipline, IInv
<1>9. LocalsInPlace'
  BY <1>6 DEF Release, NoTx, LocalsInPlace, IInv
<1> QED BY <1>4, <1>5, <1>7, <1>8, <1>9 DEF Release

(* settleFiniteFill *)
LEMMA SettleStep ==
  ASSUME ConstantsAssumption, IInv,
         \/ SettleOwn \/ SettleCommit \/ SettleAbort
         \/ \E c \in Orders : SettleCounter(c)
  PROVE  IInv'
<1> USE DEF IInv, TypeOK, TablesOK, BookOK, FrameOK, AgentOK, EnvOK,
            bookVars, frame, env, market
<1>1. ASSUME SettleOwn PROVE IInv'
  <2>1. pc = "settling" /\ cur \in Orders
    <3>1. reserved
      BY <1>1, FillReserved DEF SettleOwn
    <3> QED BY <3>1 DEF ReservationDiscipline, LocalsInPlace
  <2>2. /\ Acct(cur) \in Accounts /\ fill.filled \in Nat /\ fill.cost \in Int
        /\ fill.external \in Nat /\ fill.externalCost \in Int
        /\ CounterOrders(fill) \subseteq Orders
    BY <2>1 DEF ConstantsAssumption, OrderData, Acct, ExecutionData, CounterOrders
  <2> DEFINE s == Settle(ledger, Acct(cur), Side(cur), fill.filled, fill.cost)
             e == External(s, Side(cur), fill.external, fill.externalCost)
  <2>3. s \in Ledger
    BY <2>1, <2>2, SettleLedger
  <2>4. e \in Ledger
    BY <2>1, <2>2, <2>3, SettleLedger
  <2>5. Traded(e, cur, fill.filled) \in Ledger
    BY <2>1, <2>2, <2>4, SettleLedger
  <2>6. SettlementOK'
    BY <1>1, <2>2, <2>5 DEF SettleOwn, SettlementOK
  <2> QED BY <1>1, <2>6
          DEF SettleOwn, QueuesOK, ReservationDiscipline, AgentDiscipline, LocalsInPlace
<1>2. ASSUME NEW c \in Orders, SettleCounter(c) PROVE IInv'
  <2>1. /\ tx.ledger \in Ledger /\ tx.fill \in ExecutionData /\ orders[c] \in OrderRow
        /\ tx.fill.counter[c] \in Nat
    BY DEF SettlementOK, ExecutionData
  <2>2. /\ SettleCounterparty(tx.ledger, tx.fill, c) \in Ledger
        /\ Progress(c, orders[c], tx.fill.counter[c]) \in OrderRow
    BY <2>1, CounterLedger, RowAfterFill
  <2>3. SettlementOK'
    BY <1>2, <2>2 DEF SettleCounter, SettlementOK
  <2>4. tx'.phase \notin {"reading", "saving"}
    BY <1>2 DEF SettleCounter, SettlementOK
  <2> QED BY <1>2, <2>3, <2>4
          DEF SettleCounter, QueuesOK, ReservationDiscipline, AgentDiscipline, LocalsInPlace
<1>3. ASSUME SettleCommit PROVE IInv'
  <2>1. Settling("fill") /\ UNCHANGED <<agent, cur, orderQueue>>
    BY <1>3 DEF SettleCommit
  <2>2. OwnTraded(onCommit) \in SUBSET Row
    BY BookRows DEF OwnTraded
  <2>3. Release(OwnTraded(onCommit), "settled")
    BY <1>3 DEF SettleCommit
  <2>4. /\ book' \subseteq Row /\ onCommit' \subseteq Row /\ onRollback' \subseteq Row
        /\ reserved' = FALSE /\ pc' = "settled" /\ QueuesOK' /\ SettlementOK'
        /\ ReservationDiscipline' /\ AgentDiscipline' /\ LocalsInPlace'
    BY <2>1, <2>2, <2>3, ReleaseOK
  <2>5. cur \in Orders /\ own \in OrderRow /\ fill.filled \in Nat /\ fill \in ExecutionData
    BY <2>1, <2>4 DEF LocalsInPlace, ExecutionData
  <2>6. own' \in OrderRow
    BY <1>3, <2>5, RowAfterFill DEF SettleCommit
  <2>7. TablesOK'
    BY <1>3, <2>6 DEF SettleCommit, SettlementOK
  <2> QED BY <1>3, <2>4, <2>6, <2>7 DEF SettleCommit
<1>4. ASSUME SettleAbort PROVE IInv'
  <2>1. /\ Settling("fill") /\ UNCHANGED <<agent, cur, orderQueue>>
        /\ Release(onRollback, "failed") /\ onRollback \in SUBSET Row
    BY <1>4 DEF SettleAbort
  <2>2. /\ book' \subseteq Row /\ onCommit' \subseteq Row /\ onRollback' \subseteq Row
        /\ reserved' = FALSE /\ pc' = "failed" /\ QueuesOK' /\ SettlementOK'
        /\ ReservationDiscipline' /\ AgentDiscipline' /\ LocalsInPlace'
    BY <2>1, ReleaseOK
  <2> QED BY <1>4, <2>2 DEF SettleAbort
<1> QED BY <1>1, <1>2, <1>3, <1>4

(* The other jobs of the chain leave without touching the reservation. *)
LEMMA LiquidationOut ==
  ASSUME IInv, Settling("liquidate"), settlementQueue' = Tail(settlementQueue),
         UNCHANGED <<reserved, pc, agent, orderQueue>>
  PROVE  QueuesOK' /\ ReservationDiscipline' /\ AgentDiscipline'
<1>1. /\ settlementQueue \in Seq(SettlementJob) /\ settlementQueue # <<>>
      /\ Head(settlementQueue).kind # "fill" /\ Head(settlementQueue).kind # "counter"
      /\ OneJob(settlementQueue, "fill", reserved)
      /\ OneJob(settlementQueue, "counter", agent.phase = "settling")
  BY DEF Settling, IInv, TypeOK, QueuesOK, ReservationDiscipline, AgentDiscipline
<1>2. OneJob(settlementQueue', "fill", reserved)
  BY <1>1, TailJob
<1>3. OneJob(settlementQueue', "counter", agent.phase = "settling")
  BY <1>1, TailJob
<1> QED BY <1>1, <1>2, <1>3
        DEF QueuesOK, ReservationDiscipline, AgentDiscipline, IInv, TypeOK

(* forceLiquidate *)
LEMMA LiquidationStep ==
  ASSUME ConstantsAssumption, IInv,
         \/ LiquidationEnd \/ LiquidationNothing \/ LiquidationFails
         \/ LiquidationRead \/ LiquidationSave
         \/ \E c \in Orders : LiquidationCounter(c) \/ LiquidationRefused(c)
         \/ \E a \in Accounts : LiquidationSell(a)
  PROVE  IInv'
<1> USE DEF IInv, TypeOK, TablesOK, BookOK, FrameOK, AgentOK, EnvOK,
            bookVars, frame, env, market
<1>1. ASSUME NEW a \in Accounts, LiquidationSell(a) PROVE IInv'
  <2>1. PICK take : /\ Execution(take) \in ExecutionData
                    /\ book' = Consume(take)
                    /\ tx' = [NoTx EXCEPT !.phase = "counters",
                                 !.todo = CounterOrders(Execution(take)),
                                 !.fill = Execution(take)]
    BY <1>1 DEF LiquidationSell
  <2>2. book' \subseteq Row
    BY <2>1, ConsumeRows
  <2> DEFINE f == Execution(take)
  <2>3. CounterOrders(f) \subseteq Orders
    BY DEF CounterOrders
  <2>4. tx' = [phase |-> "counters", ledger |-> NoTx.ledger,
              orders |-> [o \in Orders |-> NewRow], todo |-> CounterOrders(f),
              fill |-> f, saving |-> None]
    BY <2>1 DEF NoTx
  <2>5. SettlementOK'
    <3> HIDE DEF f
    <3> QED BY <2>1, <2>3, <2>4, Fresh DEF SettlementOK, f
  <2> QED BY <1>1, <2>2, <2>4, <2>5
          DEF LiquidationSell, QueuesOK, ReservationDiscipline, AgentDiscipline,
              LocalsInPlace
<1>2. ASSUME NEW c \in Orders, LiquidationCounter(c) PROVE IInv'
  <2>1. SettleCounterparty(ledger, tx.fill, c) \in Ledger
    BY CounterLedger DEF SettlementOK
  <2>2. SettlementOK' /\ tx'.saving \in Orders
    BY <1>2 DEF LiquidationCounter, SettlementOK
  <2> QED BY <1>2, <2>1, <2>2
          DEF LiquidationCounter, QueuesOK, ReservationDiscipline, AgentDiscipline,
              LocalsInPlace
<1>8. ASSUME LiquidationRead PROVE IInv'
  <2>1. SettlementOK' /\ tx'.saving = tx.saving /\ tx.saving \in Orders
    BY <1>8 DEF LiquidationRead, SettlementOK, LocalsInPlace
  <2> QED BY <1>8, <2>1
          DEF LiquidationRead, QueuesOK, ReservationDiscipline, AgentDiscipline,
              LocalsInPlace
<1>3. ASSUME LiquidationSave PROVE IInv'
  <2>1. /\ tx.saving \in Orders /\ tx.orders[tx.saving] \in OrderRow
        /\ tx.fill \in ExecutionData
    BY <1>3 DEF LiquidationSave, LocalsInPlace, SettlementOK
  <2>2. Recorded(tx.saving, tx.orders[tx.saving], tx.fill) \in OrderRow
    BY <2>1, RowAfterFill
  <2>3. SettlementOK' /\ tx'.phase \notin {"reading", "saving"}
    BY <1>3 DEF LiquidationSave, SettlementOK
  <2> QED BY <1>3, <2>2, <2>3
          DEF LiquidationSave, QueuesOK, ReservationDiscipline, AgentDiscipline,
              LocalsInPlace
<1>4. ASSUME NEW c \in Orders, LiquidationRefused(c) PROVE IInv'
  <2> DEFINE rest == Resting(c, tx.fill.counter[c], quoteSequence)
  <2>1. rest \in SUBSET Row
    BY BookRows
  <2>2. Change([b \in Books |-> b \cup rest])
    BY <1>4 DEF LiquidationRefused
  <2> HIDE DEF rest
  <2>3. BookOK' /\ UNCHANGED reserved
    BY <1>4, <2>1, <2>2 DEF LiquidationRefused, Change, Books
  <2>4. SettlementOK' /\ tx'.phase \notin {"reading", "saving"}
    BY <1>4 DEF LiquidationRefused, SettlementOK
  <2> QED BY <1>4, <2>3, <2>4
          DEF LiquidationRefused, QueuesOK, ReservationDiscipline, AgentDiscipline,
              LocalsInPlace
<1>5. ASSUME LiquidationEnd PROVE IInv'
  <2> DEFINE a == Head(settlementQueue).acct
  <2>1. /\ a \in Accounts
        /\ tx.fill.filled \in Nat /\ tx.fill.cost \in Int
        /\ tx.fill.external \in Nat /\ tx.fill.externalCost \in Int
    <3>1. settlementQueue \in Seq(SettlementJob) /\ settlementQueue # <<>>
      BY <1>5 DEF LiquidationEnd, Settling, QueuesOK
    <3>2. Head(settlementQueue) \in SettlementJob
      BY <3>1
    <3>3. a \in Accounts
      BY <3>2 DEF SettlementJob
    <3>4. tx.fill \in ExecutionData
      BY DEF SettlementOK
    <3> QED BY <3>3, <3>4 DEF ExecutionData
  <2> HIDE DEF a
  <2> DEFINE s == Settle(ledger, a, "sell", tx.fill.filled, tx.fill.cost)
  <2>3. s \in Ledger
    BY <2>1, SettleLedger
  <2>4. External(s, "sell", tx.fill.external, tx.fill.externalCost) \in Ledger
    BY <2>1, <2>3, SettleLedger
  <2>5. TablesOK'
    BY <1>5, <2>4 DEF LiquidationEnd, a
  <2>6. QueuesOK' /\ ReservationDiscipline' /\ AgentDiscipline'
    BY <1>5, LiquidationOut DEF LiquidationEnd
  <2>7. SettlementOK' /\ tx'.phase \notin {"reading", "saving"}
    BY <1>5, Fresh DEF LiquidationEnd, NoTx, SettlementOK
  <2> QED BY <1>5, <2>5, <2>6, <2>7 DEF LiquidationEnd, LocalsInPlace
<1>6. ASSUME LiquidationNothing PROVE IInv'
  <2>1. QueuesOK' /\ ReservationDiscipline' /\ AgentDiscipline'
    BY <1>6, LiquidationOut DEF LiquidationNothing
  <2> QED BY <1>6, <2>1 DEF LiquidationNothing, LocalsInPlace, SettlementOK
<1>7. ASSUME LiquidationFails PROVE IInv'
  <2>1. QueuesOK' /\ ReservationDiscipline' /\ AgentDiscipline'
    BY <1>7, LiquidationOut DEF LiquidationFails
  <2>2. SettlementOK' /\ tx'.phase \notin {"reading", "saving"}
    BY <1>7, Fresh DEF LiquidationFails, NoTx, SettlementOK
  <2> QED BY <1>7, <2>1, <2>2 DEF LiquidationFails, LocalsInPlace
<1> QED BY <1>1, <1>2, <1>3, <1>4, <1>5, <1>6, <1>7, <1>8

(* A counterparty job in the settlement chain is an AI trader's. *)
LEMMA CounterWaits ==
  ASSUME IInv, Settling("counter")
  PROVE  agent.phase = "settling"
<1> SUFFICES ASSUME agent.phase # "settling" PROVE FALSE
  OBVIOUS
<1>1. /\ settlementQueue \in Seq(SettlementJob) /\ settlementQueue # <<>>
      /\ Head(settlementQueue).kind = "counter"
      /\ OneJob(settlementQueue, "counter", agent.phase = "settling")
  BY DEF Settling, IInv, TypeOK, QueuesOK, AgentDiscipline
<1>2. OneJob(settlementQueue, "counter", FALSE)
  BY <1>1 DEF OneJob
<1> QED BY <1>1, <1>2, TailJob

(* When it leaves the chain, no other is left. *)
LEMMA CounterOut ==
  ASSUME IInv, Settling("counter"), settlementQueue' = Tail(settlementQueue),
         UNCHANGED <<reserved, pc, orderQueue>>
  PROVE  /\ QueuesOK' /\ ReservationDiscipline'
         /\ OneJob(settlementQueue', "counter", FALSE)
<1>1. /\ settlementQueue \in Seq(SettlementJob) /\ settlementQueue # <<>>
      /\ Head(settlementQueue).kind # "fill" /\ Head(settlementQueue).kind = "counter"
      /\ OneJob(settlementQueue, "fill", reserved)
      /\ OneJob(settlementQueue, "counter", agent.phase = "settling")
  BY DEF Settling, IInv, TypeOK, QueuesOK, ReservationDiscipline, AgentDiscipline
<1>2. OneJob(settlementQueue', "fill", reserved)
  BY <1>1, TailJob
<1>3. OneJob(settlementQueue, "counter", TRUE)
  BY <1>1, CounterWaits DEF OneJob
<1>4. OneJob(settlementQueue', "counter", FALSE)
  BY <1>1, <1>3, TailJob
<1>5. QueuesOK' /\ ReservationDiscipline'
  BY <1>1, <1>2 DEF QueuesOK, ReservationDiscipline, IInv, TypeOK
<1> QED BY <1>4, <1>5

(* The AI traders *)
LEMMA AgentStep ==
  ASSUME ConstantsAssumption, IInv,
         Agents \/ SettleAgentCounter \/ SettleAgentFails
  PROVE  IInv'
<1> USE DEF IInv, TypeOK, TablesOK, BookOK, FrameOK, SettlementOK, EnvOK,
            bookVars, frame, env, market
<1>1. ASSUME NEW x \in AgentOrders, AgentTrade(x) PROVE IInv'
  <2>1. PICK take : /\ Execution(take) \in ExecutionData
                    /\ book' = Consume(take)
                    /\ agent' = [agent EXCEPT !.phase = "next", !.used = @ \cup {x},
                                    !.todo = CounterOrders(Execution(take)),
                                    !.fill = Execution(take)]
    BY <1>1 DEF AgentTrade
  <2>2. book' \subseteq Row
    BY <2>1, ConsumeRows
  <2>3. CounterOrders(Execution(take)) \subseteq Orders
    BY DEF CounterOrders
  <2> DEFINE f == Execution(take)
             counterparties == CounterOrders(f)
  <2> HIDE DEF f, counterparties
  <2>4. AgentOK' /\ agent'.phase = "next" /\ agent.phase = "idle"
    <3>1. f \in ExecutionData /\ counterparties \subseteq Orders
      BY <2>1, <2>3 DEF f, counterparties
    <3> DEFINE used == agent.used \cup {x}
    <3>2. used \subseteq AgentOrders
      BY <1>1 DEF AgentTrade, AgentOK
    <3>3. agent' = [agent EXCEPT !.phase = "next", !.used = used,
                                 !.todo = counterparties, !.fill = f]
      BY <2>1 DEF f, counterparties
    <3>4. agent.phase = "idle"
      BY <1>1 DEF AgentTrade
    <3> HIDE DEF used
    <3> QED BY <3>1, <3>2, <3>3, <3>4 DEF AgentOK
  <2>5. AgentDiscipline'
    BY <1>1, <2>4 DEF AgentTrade, AgentDiscipline, OneJob
  <2> QED BY <1>1, <2>2, <2>4, <2>5
          DEF AgentTrade, QueuesOK, ReservationDiscipline, LocalsInPlace
<1>2. ASSUME NEW c \in Orders, AgentCounter(c) PROVE IInv'
  <2> DEFINE job == [kind |-> "counter", acct |-> Acct(c)]
  <2>1. job \in SettlementJob /\ job.kind = "counter" /\ job.kind # "fill"
    BY DEF SettlementJob, ConstantsAssumption, OrderData, Acct
  <2> HIDE DEF job
  <2>2. /\ settlementQueue \in Seq(SettlementJob)
        /\ settlementQueue' = Append(settlementQueue, job)
        /\ OneJob(settlementQueue, "fill", reserved)
        /\ OneJob(settlementQueue, "counter", agent.phase = "settling")
        /\ agent.phase = "next"
    BY <1>2 DEF AgentCounter, job, QueuesOK, ReservationDiscipline, AgentDiscipline
  <2>3. OneJob(Append(settlementQueue, job), "fill", reserved)
    BY <2>1, <2>2, AppendJob
  <2>4. OneJob(settlementQueue, "counter", FALSE)
    BY <2>2 DEF OneJob
  <2>5. OneJob(Append(settlementQueue, job), "counter", TRUE)
    BY <2>1, <2>2, <2>4, AppendJob
  <2>6. AgentOK' /\ agent'.phase = "settling" /\ agent'.order \in Orders
    BY <1>2 DEF AgentCounter, AgentOK
  <2>7. ReservationDiscipline'
    BY <1>2, <2>2, <2>3 DEF AgentCounter, ReservationDiscipline
  <2>8. AgentDiscipline'
    BY <2>2, <2>5, <2>6 DEF AgentDiscipline, OneJob
  <2> QED BY <1>2, <2>1, <2>2, <2>6, <2>7, <2>8 DEF AgentCounter, QueuesOK, LocalsInPlace
<1>3. ASSUME SettleAgentCounter PROVE IInv'
  <2> DEFINE c == agent.order
             s == SettleCounterparty(ledger, agent.fill, c)
  <2>1. agent.phase = "settling" /\ c \in Orders
    BY <1>3, CounterWaits DEF SettleAgentCounter, AgentDiscipline
  <2>2. agent.fill \in ExecutionData
    BY DEF AgentOK
  <2>3. /\ s \in Ledger /\ agent.fill.counter[c] \in Nat
        /\ CounterCost(agent.fill, c) \in Int
    BY <2>1, <2>2, CounterLedger
  <2>4. External(s, Side(c), agent.fill.counter[c], CounterCost(agent.fill, c)) \in Ledger
    BY <2>3, SettleLedger
  <2>5. TablesOK'
    BY <1>3, <2>4 DEF SettleAgentCounter
  <2>6. AgentOK' /\ agent'.phase # "settling" /\ agent'.order = agent.order
    <3>1. CASE CanSettleCounter(ledger, agent.fill, c)
      <4>1. agent' = [agent EXCEPT !.phase = "reading"]
        BY <1>3, <3>1 DEF SettleAgentCounter
      <4> QED BY <4>1 DEF AgentOK
    <3>2. CASE ~CanSettleCounter(ledger, agent.fill, c)
      <4>1. agent' = [agent EXCEPT !.phase = "refused"]
        BY <1>3, <3>2 DEF SettleAgentCounter
      <4> QED BY <4>1 DEF AgentOK
    <3> QED BY <3>1, <3>2
  <2>7. QueuesOK' /\ ReservationDiscipline' /\ OneJob(settlementQueue', "counter", FALSE)
    BY <1>3, CounterOut DEF SettleAgentCounter
  <2>8. AgentDiscipline'
    BY <2>1, <2>6, <2>7 DEF AgentDiscipline, OneJob
  <2> QED BY <1>3, <2>5, <2>6, <2>7, <2>8 DEF SettleAgentCounter, LocalsInPlace
<1>4. ASSUME SettleAgentFails PROVE IInv'
  <2>1. AgentOK' /\ agent'.phase = "idle"
    BY <1>4, Fresh DEF SettleAgentFails, AgentOK, NoTrade
  <2>2. QueuesOK' /\ ReservationDiscipline' /\ OneJob(settlementQueue', "counter", FALSE)
    BY <1>4, CounterOut DEF SettleAgentFails
  <2>3. AgentDiscipline'
    BY <2>1, <2>2 DEF AgentDiscipline, OneJob
  <2> QED BY <1>4, <2>1, <2>2, <2>3 DEF SettleAgentFails, LocalsInPlace
<1>8. ASSUME AgentRead PROVE IInv'
  <2>1. agent.order \in Orders /\ orders[agent.order] \in OrderRow
    BY <1>8 DEF AgentRead, AgentDiscipline
  <2>2. AgentOK' /\ agent'.phase = "saving" /\ agent'.order = agent.order
    BY <1>8, <2>1 DEF AgentRead, AgentOK
  <2>3. AgentDiscipline'
    BY <1>8, <2>1, <2>2 DEF AgentRead, AgentDiscipline, OneJob
  <2> QED BY <1>8, <2>2, <2>3
          DEF AgentRead, QueuesOK, ReservationDiscipline, LocalsInPlace
<1>5. ASSUME AgentSave PROVE IInv'
  <2>1. agent.order \in Orders /\ agent.row \in OrderRow /\ agent.fill \in ExecutionData
    BY <1>5 DEF AgentSave, AgentDiscipline, AgentOK
  <2>2. Recorded(agent.order, agent.row, agent.fill) \in OrderRow
    BY <2>1, RowAfterFill
  <2>3. AgentOK' /\ agent'.phase = "next" /\ agent.phase = "saving"
    BY <1>5, Fresh DEF AgentSave, AgentOK
  <2>4. AgentDiscipline'
    BY <1>5, <2>3 DEF AgentSave, AgentDiscipline, OneJob
  <2> QED BY <1>5, <2>2, <2>3, <2>4
          DEF AgentSave, QueuesOK, ReservationDiscipline, LocalsInPlace
<1>6. ASSUME AgentRestore PROVE IInv'
  <2> DEFINE rest == Resting(agent.order, agent.fill.counter[agent.order], quoteSequence)
  <2>1. rest \in SUBSET Row
    <3>1. agent.order \in Orders /\ quoteSequence \in Nat
      BY <1>6 DEF AgentRestore, AgentDiscipline
    <3> QED BY <3>1, BookRows
  <2>2. Change([b \in Books |-> b \cup rest])
    BY <1>6 DEF AgentRestore
  <2> HIDE DEF rest
  <2>3. BookOK' /\ UNCHANGED reserved
    BY <1>6, <2>1, <2>2 DEF AgentRestore, Change, Books
  <2>4. AgentOK' /\ agent'.phase = "next" /\ agent.phase = "refused"
    BY <1>6 DEF AgentRestore, AgentOK
  <2>5. AgentDiscipline'
    BY <1>6, <2>4 DEF AgentRestore, AgentDiscipline, OneJob
  <2> QED BY <1>6, <2>3, <2>4, <2>5
          DEF AgentRestore, QueuesOK, ReservationDiscipline, LocalsInPlace
<1>7. ASSUME AgentDone PROVE IInv'
  <2>1. AgentOK' /\ agent'.phase = "idle" /\ agent.phase = "next"
    BY <1>7, Fresh DEF AgentDone, AgentOK, NoTrade
  <2>2. AgentDiscipline'
    BY <1>7, <2>1 DEF AgentDone, AgentDiscipline, OneJob
  <2> QED BY <1>7, <2>1, <2>2
          DEF AgentDone, QueuesOK, ReservationDiscipline, LocalsInPlace
<1> QED BY <1>1, <1>2, <1>3, <1>4, <1>5, <1>6, <1>7, <1>8 DEF Agents

-----------------------------------------------------------------------------
(* Theorems. *)

(* Every step keeps the invariant. *)
LEMMA NextIInv == ASSUME ConstantsAssumption, IInv, [Next]_vars PROVE IInv'
<1>1. CASE UNCHANGED vars
  BY <1>1 DEF vars, bookVars, frame, env, market, IInv, TypeOK, TablesOK, BookOK, FrameOK,
              QueuesOK, SettlementOK, AgentOK, EnvOK, ReservationDiscipline,
              AgentDiscipline, LocalsInPlace
<1>2. CASE Next
  BY <1>2, EnvironmentStep, OrderHandlerStep, SettleStep, LiquidationStep, AgentStep
  DEF Next, Settlement
<1> QED BY <1>1, <1>2

(* In every reachable state a handler at work has its order at hand, and the two
   chains hold what they should (runOrderExclusive, runExclusive). *)
THEOREM Inductive == Spec => []IInv
<1>1. Init => IInv
  BY InitIInv, ConstantsAssumption
<1>2. IInv /\ [Next]_vars => IInv'
  BY NextIInv, ConstantsAssumption
<1> QED BY <1>1, <1>2, PTL DEF Spec

(* Whatever is ordered, cancelled, refreshed, refused or failing, every variable
   keeps its shape. *)
THEOREM TypeCorrect == Spec => []TypeOK
<1>1. IInv => TypeOK
  BY DEF IInv
<1> QED BY <1>1, Inductive, PTL

(* The symbol is reserved exactly while one handler waits for the one fill job of
   the settlement chain: executeFinite, settleFiniteFill and releaseExecution pair
   up on every path, so no execution is released twice or never queued. *)
THEOREM Reserved == Spec => []ReservationDiscipline
<1>1. IInv => ReservationDiscipline
  BY DEF IInv
<1> QED BY <1>1, Inductive, PTL

(* An AI trade has at most one counterparty job in the chain and is waiting for
   it: settleCounterFills settles the rows it took one at a time. *)
THEOREM OneCounterparty == Spec => []AgentDiscipline
<1>1. IInv => AgentDiscipline
  BY DEF IInv
<1> QED BY <1>1, Inductive, PTL

-----------------------------------------------------------------------------
(* What books hold. *)

(* A set of one element is finite. *)
LEMMA SingletonFinite == ASSUME NEW x PROVE IsFiniteSet({x})
<1>1. IsFiniteSet({} \cup {x})
  BY FS_AddElement, FS_EmptySet
<1>2. {} \cup {x} = {x}
  OBVIOUS
<1> QED BY <1>1, <1>2

(* The rows a handler puts into a book or leaves in it are true. *)
LEMMA TrueRows ==
  ASSUME ConstantsAssumption, NEW b \in SUBSET Row, RowsTrue(b)
  PROVE  /\ \A o \in Orders, s \in Nat : \A n :
              Rests(o) => RowsTrue(b \cup Resting(o, n, s))
         /\ \A o : RowsTrue(RemoveAll(b, o))
         /\ \A o, n : RowsTrue(RemoveQty(b, o, n))
         /\ \A mid \in Marks, s \in Nat : RowsTrue(Refresh(b, mid, s))
<1>1. ASSUME NEW o \in Orders, NEW s \in Nat, NEW n, Rests(o)
      PROVE  RowsTrue(b \cup Resting(o, n, s))
  <2> DEFINE r == [oid |-> o, side |-> BookSide(Side(o)),
                   price |-> Detail[o].price, qty |-> n, seq |-> s]
  <2>1. Resting(o, n, s) \subseteq {r}
    BY DEF Resting, Positive
  <2>2. IsFiniteSet({r})
    BY SingletonFinite
  <2>3. IsFiniteSet(b \cup Resting(o, n, s))
    <3>1. IsFiniteSet(Resting(o, n, s))
      BY <2>1, <2>2, FS_Subset
    <3> QED BY <3>1, FS_Union DEF RowsTrue
  <2>4. RowTrue(r)
    BY <1>1 DEF RowTrue
  <2> QED BY <2>1, <2>3, <2>4 DEF RowsTrue
<1>2. \A o : RowsTrue(RemoveAll(b, o))
  <2> SUFFICES ASSUME NEW o PROVE RowsTrue(RemoveAll(b, o))
    OBVIOUS
  <2>1. RemoveAll(b, o) \subseteq b
    BY DEF RemoveAll
  <2> QED BY <2>1, FS_Subset DEF RowsTrue
<1>3. ASSUME NEW o, NEW n
      PROVE  RowsTrue(RemoveQty(b, o, n))
  <2> DEFINE Behind(r) == SumFunctionOnSet([s \in b |-> s.qty],
                                         {s \in b : s.oid = o /\ s.seq > r.seq})
             Cut(r) == IF r.oid # o \/ n <= Behind(r) THEN 0
                       ELSE IF n - Behind(r) < r.qty THEN n - Behind(r) ELSE r.qty
             after == [r \in b |-> [r EXCEPT !.qty = r.qty - Cut(r)]]
  <2>1. RemoveQty(b, o, n) = Positive({[r EXCEPT !.qty = r.qty - Cut(r)] : r \in b})
    BY DEF RemoveQty
  <2> HIDE DEF Cut
  <2>2. {[r EXCEPT !.qty = r.qty - Cut(r)] : r \in b} = {after[r] : r \in b}
    OBVIOUS
  <2>3. \A r \in b : RowTrue(after[r])
    <3> SUFFICES ASSUME NEW r \in b PROVE RowTrue(after[r])
      OBVIOUS
    <3>1. RowTrue(r) /\ r \in Row
      BY DEF RowsTrue
    <3>2. /\ after[r].oid = r.oid /\ after[r].side = r.side
          /\ after[r].price = r.price
      BY <3>1 DEF Row
    <3> HIDE DEF after
    <3> QED BY <3>1, <3>2 DEF RowTrue
  <2>4. DOMAIN after = b /\ IsFiniteSet(b)
    BY DEF RowsTrue
  <2> HIDE DEF after
  <2>5. IsFiniteSet({after[r] : r \in b})
    BY <2>4, ImageFinite
  <2>6. RemoveQty(b, o, n) \subseteq {after[r] : r \in b}
    BY <2>1, <2>2 DEF Positive
  <2> QED BY <2>3, <2>5, <2>6, FS_Subset DEF RowsTrue
<1>4. ASSUME NEW mid \in Marks, NEW s \in Nat
      PROVE  RowsTrue(Refresh(b, mid, s))
  <2> DEFINE ask == [oid |-> Synthetic, side |-> "ask", price |-> mid + Spread,
                     qty |-> Depth, seq |-> s]
             bid == [oid |-> Synthetic, side |-> "bid", price |-> mid - Spread,
                     qty |-> Depth, seq |-> s]
  <2>1. Refresh(b, mid, s) \subseteq RemoveAll(b, Synthetic) \cup {ask, bid}
    BY DEF Refresh, Positive
  <2>2. IsFiniteSet({ask, bid})
    <3> HIDE DEF ask, bid
    <3>1. {ask, bid} = {ask} \cup {bid}
      OBVIOUS
    <3>2. IsFiniteSet({ask})
      BY SingletonFinite
    <3>3. IsFiniteSet({ask} \cup {bid})
      BY <3>2, FS_AddElement
    <3> QED BY <3>1, <3>3
  <2>3. IsFiniteSet(Refresh(b, mid, s))
    <3>1. IsFiniteSet(RemoveAll(b, Synthetic))
      BY <1>2 DEF RowsTrue
    <3>2. IsFiniteSet(RemoveAll(b, Synthetic) \cup {ask, bid})
      BY <2>2, <3>1, FS_Union
    <3> QED BY <2>1, <3>2, FS_Subset
  <2>4. RowTrue(ask) /\ RowTrue(bid)
    BY DEF RowTrue
  <2> HIDE DEF ask, bid
  <2>5. \A r \in Refresh(b, mid, s) : RowTrue(r)
    BY <1>2, <2>1, <2>4 DEF RowsTrue
  <2> QED BY <2>3, <2>5 DEF RowsTrue
<1> QED BY <1>1, <1>2, <1>3, <1>4

(* An execution leaves true rows. *)
LEMMA ConsumeTrue ==
  ASSUME BookOK, RowsTrue(book), NEW take
  PROVE  RowsTrue(Consume(take))
<1> DEFINE after == [r \in book |->
                       IF r \in DOMAIN take THEN [r EXCEPT !.qty = r.qty - take[r]] ELSE r]
<1>1. Consume(take) \subseteq {after[r] : r \in book}
  BY DEF Consume, Positive
<1>2. DOMAIN after = book /\ IsFiniteSet(book)
  BY DEF RowsTrue
<1>3. \A r \in book : RowTrue(after[r])
  <2> SUFFICES ASSUME NEW r \in book PROVE RowTrue(after[r])
    OBVIOUS
  <2>1. RowTrue(r) /\ r \in Row
    BY DEF RowsTrue, BookOK
  <2>2. /\ after[r].oid = r.oid /\ after[r].side = r.side
        /\ after[r].price = r.price
    BY <2>1 DEF Row
  <2> HIDE DEF after
  <2> QED BY <2>1, <2>2 DEF RowTrue
<1> HIDE DEF after
<1>4. IsFiniteSet({after[r] : r \in book})
  BY <1>2, ImageFinite
<1> QED BY <1>1, <1>3, <1>4, FS_Subset DEF RowsTrue

(* A plan takes rows of the other side, each as it stands in the book. *)
LEMMA PlanOverRows ==
  ASSUME BookOK, NEW rows \in SUBSET book, NEW qty, qty \in Nat,
         NEW take \in PlansOver(rows, qty)
  PROVE  /\ take \in [rows -> Nat] /\ DOMAIN take = rows
         /\ \A r \in rows : take[r] <= r.qty /\ r \in Row
         /\ Filled(take) \in 1..qty
BY DEF PlansOver, IsPlan, BookOK

(* Sums over what an execution takes, part by part. *)
LEMMA TakenByOrder ==
  ASSUME ConstantsAssumption, BookOK, RowsTrue(book), NEW rows \in SUBSET book,
         NEW g \in [rows -> Int], NEW part \in [Orders -> Int], NEW synthetic,
         \A o \in Orders : part[o] = SumFunctionOnSet(g, {r \in rows : r.oid = o}),
         synthetic = SumFunctionOnSet(g, {r \in rows : r.oid = Synthetic})
  PROVE  SumFunction(g) = synthetic + SumFunctionOnSet(part, Orders)
<1> DEFINE P == Orders \cup {Synthetic}
           rowsOf == [p \in P |-> {r \in rows : r.oid = p}]
           G == [p \in P |-> SumFunctionOnSet(g, rowsOf[p])]
<1>1. IsFiniteSet(rows) /\ DOMAIN g = rows
  BY FS_Subset DEF RowsTrue
<1>2. IsFiniteSet(P) /\ IsFiniteSet(Orders) /\ Synthetic \notin Orders
  BY FS_AddElement DEF ConstantsAssumption
<1>3. Parts(rows, P, rowsOf)
  <2>1. \A r \in rows : r.oid \in P
    BY DEF BookOK, Row
  <2>2. \A r \in rows : r \in rowsOf[r.oid]
    BY <2>1
  <2>3. /\ \A p \in P : rowsOf[p] \subseteq rows
        /\ \A p, q \in P : p # q => rowsOf[p] \cap rowsOf[q] = {}
    OBVIOUS
  <2> HIDE DEF rowsOf, P
  <2> QED BY <1>1, <1>2, <2>1, <2>2, <2>3 DEF Parts
<1>5. \A p \in P : G[p] \in Int
  <2> SUFFICES ASSUME NEW p \in P PROVE G[p] \in Int
    OBVIOUS
  <2>1. IsFiniteSet(rowsOf[p]) /\ \A r \in rowsOf[p] : g[r] \in Int
    BY <1>1, FS_Subset
  <2> QED BY <2>1, SumInt
<1>6. G[Synthetic] = synthetic /\ \A o \in Orders : G[o] = part[o]
  OBVIOUS
<1>7. SumFunctionOnSet(g, rows) = SumFunctionOnSet(G, P)
  <2>1. \A r \in rows : g[r] \in Int
    OBVIOUS
  <2>2. \A p \in P : G[p] = SumFunctionOnSet(g, rowsOf[p])
    OBVIOUS
  <2> HIDE DEF rowsOf, P, G
  <2> QED BY <1>3, <2>1, <2>2, SumByPart
<1> HIDE DEF G
<1>8. SumFunctionOnSet(G, P) = G[Synthetic] + SumFunctionOnSet(G, Orders)
  BY <1>2, <1>5, SumAdd
<1>9. SumFunctionOnSet(G, Orders) = SumFunctionOnSet(part, Orders)
  BY <1>2, <1>5, <1>6, SumAgree
<1>10. SumFunction(g) = SumFunctionOnSet(g, rows)
  BY <1>1 DEF SumFunction
<1> QED BY <1>6, <1>7, <1>8, <1>9, <1>10

(* Orders that gave nothing do not count. *)
LEMMA OnlyCounterOrders ==
  ASSUME ConstantsAssumption, NEW f \in ExecutionData, NEW part \in [Orders -> Int],
         \A o \in Orders : f.counter[o] = 0 => part[o] = 0
  PROVE  SumFunctionOnSet(part, Orders) = SumFunctionOnSet(part, CounterOrders(f))
<1> DEFINE C == CounterOrders(f)
           D == Orders \ C
<1>1. C \cup D = Orders /\ C \cap D = {} /\ \A o \in D : part[o] = 0
  BY DEF CounterOrders, ExecutionData
<1> HIDE DEF C, D
<1>2. IsFiniteSet(C) /\ IsFiniteSet(D)
  BY <1>1, FS_Subset DEF ConstantsAssumption
<1>3. SumFunctionOnSet(part, C \cup D) = SumFunctionOnSet(part, C) + SumFunctionOnSet(part, D)
  BY <1>1, <1>2, SumUnion
<1>4. SumFunctionOnSet(part, D) = 0
  BY <1>1, <1>2, SumZero
<1>5. SumFunctionOnSet(part, C) \in Int
  BY <1>1, <1>2, SumInt
<1> QED BY <1>1, <1>3, <1>4, <1>5 DEF C

(* The product of two natural numbers is one. *)
LEMMA Product ==
  ASSUME NEW n \in Nat, NEW p \in Nat
  PROVE  n * p \in Nat /\ (n > 0 => n * p >= p)
<1>1. n * p \in Nat
  OBVIOUS
<1>2. ASSUME n > 0 PROVE n * p >= p
  <2>1. n * p = (n - 1) * p + p
    OBVIOUS
  <2>2. (n - 1) * p \in Nat
    <3>1. n - 1 \in Nat
      BY <1>2
    <3> DEFINE k == n - 1
    <3>2. k \in Nat BY <3>1
    <3> HIDE DEF k
    <3>3. k * p \in Nat
      BY <3>2
    <3> QED BY <3>3 DEF k
  <2> QED BY <2>1, <2>2
<1> QED BY <1>1, <1>2

(* The counterparties of a plan are resting orders of the other side, and what
   they and the quotes give is what the taker gets, share for share. *)
LEMMA ExecutionBalanced ==
  ASSUME ConstantsAssumption, BookOK, RowsTrue(book), NEW rows \in SUBSET book,
         NEW side \in {"buy", "sell"}, \A r \in rows : r.side # BookSide(side),
         NEW qty \in Nat, NEW take \in PlansOver(rows, qty),
         Execution(take) \in ExecutionData
  PROVE  Balanced(Execution(take), side)
<1> DEFINE f == Execution(take)
<1>1. /\ take \in [rows -> Nat] /\ DOMAIN take = rows
      /\ \A r \in rows : r \in Row /\ RowTrue(r)
      /\ Filled(take) \in 1..qty
  BY PlanOverRows DEF RowsTrue
<1>2. IsFiniteSet(rows)
  BY FS_Subset DEF RowsTrue
<1>3. /\ f \in ExecutionData
      /\ f.filled = SumFunction(take) /\ f.cost = SumFunction(Worth(take))
      /\ f.counter \in [Orders -> Nat]
      /\ \A o \in Orders : f.counter[o] = SumFunctionOnSet(take, {r \in rows : r.oid = o})
      /\ f.external = SumFunctionOnSet(take, {r \in rows : r.oid = Synthetic})
      /\ f.externalCost = SumFunctionOnSet(Worth(take), {r \in rows : r.oid = Synthetic})
  BY <1>1 DEF Execution, ExecutionData, Filled, Cost, TakenFrom, RowsOf
<1> HIDE DEF f
<1>4. ASSUME NEW c \in CounterOrders(f) PROVE Rests(c) /\ Side(c) # side
  <2> DEFINE R == {r \in rows : r.oid = c}
  <2>1. c \in Orders /\ SumFunctionOnSet(take, R) > 0
    BY <1>3 DEF CounterOrders
  <2>2. R # {}
    <3> SUFFICES ASSUME R = {} PROVE FALSE
      OBVIOUS
    <3>1. SumFunctionOnSet(take, {}) = 0
      BY SumEmpty
    <3> HIDE DEF R
    <3> QED BY <2>1, <3>1
  <2>3. PICK r \in rows : r.oid = c
    BY <2>2
  <2>4. RowTrue(r) /\ c # Synthetic
    BY <1>1, <2>1, <2>3 DEF ConstantsAssumption
  <2> QED BY <2>3, <2>4 DEF RowTrue
<1>5. f.filled = f.external + SumFunctionOnSet(f.counter, CounterOrders(f))
  <2>1. take \in [rows -> Int] /\ f.counter \in [Orders -> Int]
    BY <1>1, <1>3
  <2>2. SumFunction(take) = f.external + SumFunctionOnSet(f.counter, Orders)
    BY <1>3, <2>1, TakenByOrder
  <2>3. SumFunctionOnSet(f.counter, Orders) = SumFunctionOnSet(f.counter, CounterOrders(f))
    BY <1>3, <2>1, OnlyCounterOrders
  <2> QED BY <1>3, <2>2, <2>3
<1>6. Worth(take) \in [rows -> Int]
  BY <1>1 DEF Worth, Row
<1>7. CounterWorth(f) \in [Orders -> Int]
  <2>1. \A o \in Orders : f.counter[o] \in Int /\ Detail[o].price \in Int
    BY <1>3 DEF ConstantsAssumption, OrderData
  <2>2. \A o \in Orders : f.counter[o] * Detail[o].price \in Int
    BY <2>1
  <2> QED BY <2>2 DEF CounterWorth, CounterCost
<1>8. ASSUME NEW o \in Orders
      PROVE  CounterWorth(f)[o] = SumFunctionOnSet(Worth(take), {r \in rows : r.oid = o})
  <2> DEFINE R == {r \in rows : r.oid = o}
             p == Detail[o].price
             W == Worth(take)
  <2>1. IsFiniteSet(R) /\ p \in Int
    BY <1>2, FS_Subset DEF ConstantsAssumption, OrderData
  <2>2. \A r \in R : r.price = p
    BY <1>1 DEF RowTrue, ConstantsAssumption
  <2>3. \A r \in R : take[r] \in Int /\ W[r] = take[r] * p
    BY <1>1, <2>2 DEF Worth
  <2> HIDE DEF R, p, W
  <2>4. SumFunctionOnSet(W, R) = SumFunctionOnSet(take, R) * p
    BY <2>1, <2>3, SumScale
  <2> QED BY <1>3, <2>4 DEF CounterWorth, CounterCost, R, p, W
<1>9. f.cost = f.externalCost + SumFunctionOnSet(CounterWorth(f), CounterOrders(f))
  <2>1. SumFunction(Worth(take)) = f.externalCost + SumFunctionOnSet(CounterWorth(f), Orders)
    BY <1>3, <1>6, <1>7, <1>8, TakenByOrder
  <2>2. \A o \in Orders : f.counter[o] = 0 => CounterWorth(f)[o] = 0
    BY DEF CounterWorth, CounterCost, ConstantsAssumption, OrderData
  <2>3. SumFunctionOnSet(CounterWorth(f), Orders)
          = SumFunctionOnSet(CounterWorth(f), CounterOrders(f))
    BY <1>3, <1>7, <2>2, OnlyCounterOrders
  <2> QED BY <1>3, <2>1, <2>3
<1>10. ASSUME FeeCovered PROVE f.cost >= Fee
  <2>1. \A r \in rows : r.price \in Nat /\ r.price >= Fee
    <3> SUFFICES ASSUME NEW r \in rows PROVE r.price \in Nat /\ r.price >= Fee
      OBVIOUS
    <3>1. r.price \in Int /\ RowTrue(r) /\ Fee \in Nat
      BY <1>1 DEF Row, ConstantsAssumption
    <3>2. CASE r.oid \in Orders /\ Rests(r.oid) /\ r.price = Detail[r.oid].price
      <4>1. Detail[r.oid].price >= Fee
        BY <1>10, <3>2 DEF FeeCovered
      <4> QED BY <3>1, <3>2, <4>1
    <3>3. CASE \E m \in Marks : r.price \in {m - Spread, m + Spread}
      <4>1. PICK m \in Marks : r.price \in {m - Spread, m + Spread}
        BY <3>3
      <4>2. m - Spread >= Fee /\ m \in Nat /\ Spread \in Nat
        BY <1>10 DEF FeeCovered, ConstantsAssumption
      <4> QED BY <3>1, <4>1, <4>2
    <3> QED BY <3>1, <3>2, <3>3 DEF RowTrue
  <2>2. PICK r \in rows : take[r] > 0
    <3> SUFFICES ASSUME \A r \in rows : ~(take[r] > 0) PROVE FALSE
      OBVIOUS
    <3>1. \A r \in rows : take[r] = 0
      BY <1>1
    <3>2. SumFunction(take) = 0
      BY <1>1, <1>2, <3>1, SumZero DEF SumFunction
    <3> QED BY <1>1, <3>2 DEF Filled
  <2> DEFINE W == Worth(take)
  <2>3. DOMAIN W = rows /\ \A s \in rows : W[s] = take[s] * s.price
    BY <1>1 DEF Worth
  <2>4. \A s \in rows : take[s] * s.price \in Nat /\ (take[s] > 0 => take[s] * s.price >= s.price)
    BY <1>1, <2>1, Product
  <2> HIDE DEF W
  <2>5. W[r] <= SumFunctionOnSet(W, rows)
    BY <1>2, <2>3, <2>4, SumTerm
  <2>6. SumFunctionOnSet(W, rows) \in Nat
    BY <1>2, <2>3, <2>4, SumNat
  <2>7. f.cost = SumFunctionOnSet(W, rows)
    BY <1>3, <2>3 DEF SumFunction, W
  <2>8. Fee \in Nat
    BY DEF ConstantsAssumption
  <2>9. W[r] \in Nat /\ W[r] >= r.price
    BY <2>2, <2>3, <2>4
  <2> QED BY <2>1, <2>5, <2>6, <2>7, <2>8, <2>9
<1> QED BY <1>1, <1>3, <1>4, <1>5, <1>9, <1>10 DEF Balanced, Filled, f

-----------------------------------------------------------------------------
(* What books hold, step by step. *)

(* Which steps touch the book, and how. *)
LEMMA BookMoves ==
  ASSUME [Next]_vars
  PROVE  \/ UNCHANGED <<book, onCommit, onRollback>>
         \/ Tick \/ PlaceAndCross \/ PlaceAndRest \/ Unbook \/ SettleCommit \/ SettleAbort
         \/ AgentRestore
         \/ \E o \in Orders : SubmitImmediate(o) \/ SweepExecute(o) \/ LiquidationRefused(o)
         \/ \E a \in Accounts : LiquidationSell(a)
         \/ \E x \in AgentOrders : AgentTrade(x)
<1> USE DEF bookVars
<1>1. CASE UNCHANGED vars
  BY <1>1 DEF vars
<1>2. CASE Environment
  BY <1>2 DEF Environment, PlaceOrder, RequestCancel, RequestSweep, MarginCall
<1>3. CASE OrderHandler
  BY <1>3 DEF OrderHandler, SubmitRefused, SubmitUnfilled, SubmitSave, SubmitSettled,
     SubmitFailed, CancelMiss, CancelRead, CancelSave, SweepLoad, SweepEnd, SweepSettled,
     SweepFailed, SweepSkip, SweepReject, SweepUnfilled
<1>4. CASE Settlement
  BY <1>4 DEF Settlement, SettleOwn, SettleCounter, LiquidationEnd, LiquidationNothing,
     LiquidationCounter, LiquidationRead, LiquidationSave, LiquidationFails,
     SettleAgentCounter, SettleAgentFails
<1>5. CASE Agents
  BY <1>5 DEF Agents, AgentCounter, AgentRead, AgentSave, AgentDone
<1> QED BY <1>1, <1>2, <1>3, <1>4, <1>5 DEF Next

(* While a fill is being settled the order handler waits for it. *)
LEMMA FillWaits ==
  ASSUME IInv, Settling("fill")
  PROVE  /\ pc = "settling" /\ cur \in Orders /\ reserved
         /\ fill \in ExecutionData
BY FillReserved DEF IInv, TypeOK, FrameOK, ReservationDiscipline, LocalsInPlace

(* A change made to every book that waits keeps the books true. *)
LEMMA ChangeTrue ==
  ASSUME BooksTrue, NEW changed, Change(changed), \A b \in Books : RowsTrue(changed[b])
  PROVE  BooksTrue'
<1>1. book \in Books /\ onCommit \in Books /\ onRollback \in Books
  BY DEF Books
<1>2. /\ RowsTrue(changed[book]) /\ RowsTrue(changed[onCommit])
      /\ RowsTrue(changed[onRollback])
  BY <1>1
<1>3. /\ book' = book \/ book' = changed[book]
      /\ onCommit' = onCommit \/ onCommit' = changed[onCommit]
      /\ onRollback' = onRollback \/ onRollback' = changed[onRollback]
  BY DEF Change
<1>4. /\ RowsTrue(book)' = RowsTrue(book') /\ RowsTrue(onCommit)' = RowsTrue(onCommit')
      /\ RowsTrue(onRollback)' = RowsTrue(onRollback')
  BY DEF RowsTrue, RowTrue
<1> QED BY <1>2, <1>3, <1>4 DEF BooksTrue

(* A row added to every book. *)
LEMMA RestTrue ==
  ASSUME ConstantsAssumption, IInv, BooksTrue, NEW o \in Orders, Rests(o), NEW n,
         Change([b \in Books |-> b \cup Resting(o, n, quoteSequence)])
  PROVE  BooksTrue'
<1>1. \A b \in Books : b \in SUBSET Row /\ RowsTrue(b)
  BY DEF Books, BooksTrue, IInv, TypeOK, BookOK
<1>2. quoteSequence \in Nat
  BY DEF IInv, TypeOK, BookOK
<1>3. \A b \in Books : RowsTrue(b \cup Resting(o, n, quoteSequence))
  BY <1>1, <1>2, TrueRows
<1> DEFINE changed == [b \in Books |-> b \cup Resting(o, n, quoteSequence)]
<1>4. \A b \in Books : RowsTrue(changed[b])
  BY <1>3
<1> HIDE DEF changed
<1> QED BY <1>4, ChangeTrue DEF changed

(* Publishing an execution keeps the books true. *)
LEMMA ReserveTrue ==
  ASSUME ConstantsAssumption, IInv, BooksTrue, NEW o \in Orders, NEW take, NEW extra,
         Reserve(o, take, extra), \A b \in SUBSET Row : RowsTrue(b) => RowsTrue(b \cup extra)
  PROVE  BooksTrue'
<1>1. book \in SUBSET Row /\ RowsTrue(book)
  BY DEF BooksTrue, IInv, TypeOK, BookOK
<1>2. Consume(take) \in SUBSET Row /\ RowsTrue(Consume(take))
  BY <1>1, ConsumeRows, ConsumeTrue DEF IInv, TypeOK
<1>3. RowsTrue(Consume(take) \cup extra) /\ RowsTrue(book \cup extra)
  BY <1>1, <1>2
<1> QED BY <1>3 DEF Reserve, BooksTrue

(* Every step keeps the books true. *)
LEMMA BooksTrueStep ==
  ASSUME ConstantsAssumption, IInv, BooksTrue, FillsTrue, [Next]_vars
  PROVE  BooksTrue'
<1> DEFINE Same == UNCHANGED <<book, onCommit, onRollback>>
<1>1. \A b \in Books : b \in SUBSET Row /\ RowsTrue(b)
  BY DEF Books, BooksTrue, IInv, TypeOK, BookOK
<1>2. book \in Books /\ onCommit \in Books /\ onRollback \in Books /\ quoteSequence \in Nat
  BY DEF Books, IInv, TypeOK, BookOK
<1>3. RowsTrue({})
  BY FS_EmptySet DEF RowsTrue
<1>4. CASE Same
  BY <1>4 DEF BooksTrue
<1>5. CASE Tick
  <2>1. mark' \in Marks
    BY <1>5 DEF Tick
  <2>2. \A b \in Books : RowsTrue(Refresh(b, mark', quoteSequence))
    BY <1>1, <1>2, <2>1, TrueRows
  <2> DEFINE changed == [b \in Books |-> Refresh(b, mark', quoteSequence)]
  <2>3. (\A b \in Books : RowsTrue(changed[b])) /\ Change(changed)
    BY <1>5, <2>2 DEF Tick
  <2> HIDE DEF changed
  <2> QED BY <2>3, ChangeTrue
<1>6. CASE PlaceAndCross
  <2> DEFINE rest == Resting(cur, Detail[cur].qty, quoteSequence)
  <2>1. cur \in Orders /\ Rests(cur)
    BY <1>6 DEF PlaceAndCross, FillsTrue, OwnFillTrue, IInv, LocalsInPlace
  <2>2. \A b \in SUBSET Row : RowsTrue(b) => RowsTrue(b \cup rest)
    BY <1>2, <2>1, TrueRows
  <2>3. PICK take : Reserve(cur, take, rest)
    BY <1>6 DEF PlaceAndCross
  <2> HIDE DEF rest
  <2> QED BY <2>1, <2>2, <2>3, ReserveTrue
<1>7. CASE PlaceAndRest
  <2>1. cur \in Orders /\ Rests(cur)
    BY <1>7 DEF PlaceAndRest, FillsTrue, OwnFillTrue, IInv, LocalsInPlace
  <2> QED BY <1>7, <2>1, RestTrue DEF PlaceAndRest
<1>8. CASE Unbook
  <2> DEFINE changed == [b \in Books |-> RemoveAll(b, cur)]
  <2>1. \A b \in Books : RowsTrue(RemoveAll(b, cur))
    BY <1>1, TrueRows
  <2>2. (\A b \in Books : RowsTrue(changed[b])) /\ Change(changed)
    BY <1>8, <2>1 DEF Unbook
  <2> HIDE DEF changed
  <2> QED BY <2>2, ChangeTrue
<1>9. CASE SettleCommit
  <2>1. RowsTrue(OwnTraded(onCommit))
    BY <1>1, <1>2, TrueRows DEF OwnTraded
  <2> QED BY <1>3, <1>9, <2>1 DEF SettleCommit, Release, BooksTrue
<1>10. CASE SettleAbort
  BY <1>1, <1>2, <1>3, <1>10 DEF SettleAbort, Release, BooksTrue
<1>11. CASE AgentRestore
  <2>1. agent.order \in Orders /\ Rests(agent.order)
    BY <1>11 DEF AgentRestore, FillsTrue, AgentFillTrue, CounterOrders
  <2> QED BY <1>11, <2>1, RestTrue DEF AgentRestore
<1>12. ASSUME NEW o \in Orders, SubmitImmediate(o) \/ SweepExecute(o) PROVE BooksTrue'
  <2>1. PICK take : Reserve(o, take, {})
    BY <1>12 DEF SubmitImmediate, SweepExecute
  <2>2. \A b \in SUBSET Row : RowsTrue(b) => RowsTrue(b \cup {})
    <3>1. \A b \in SUBSET Row : b \cup {} = b
      OBVIOUS
    <3> QED BY <3>1
  <2> QED BY <2>1, <2>2, ReserveTrue
<1>13. ASSUME NEW o \in Orders, LiquidationRefused(o) PROVE BooksTrue'
  <2>1. Rests(o)
    BY <1>13, FillWaits
    DEF LiquidationRefused, Settling, FillsTrue, TxFillTrue, Balanced
  <2> QED BY <1>13, <2>1, RestTrue DEF LiquidationRefused
<1>14. ASSUME NEW a \in Accounts, LiquidationSell(a) PROVE BooksTrue'
  <2>1. PICK take : book' = Consume(take)
    BY <1>14 DEF LiquidationSell
  <2>2. RowsTrue(book')
    BY <1>1, <1>2, <2>1, ConsumeTrue DEF IInv, TypeOK
  <2> QED BY <1>14, <2>2 DEF LiquidationSell, BooksTrue
<1>15. ASSUME NEW x \in AgentOrders, AgentTrade(x) PROVE BooksTrue'
  <2>1. PICK take : book' = Consume(take)
    BY <1>15 DEF AgentTrade
  <2>2. RowsTrue(book')
    BY <1>1, <1>2, <2>1, ConsumeTrue DEF IInv, TypeOK
  <2> QED BY <1>15, <2>2 DEF AgentTrade, BooksTrue
<1> QED BY <1>4, <1>5, <1>6, <1>7, <1>8, <1>9, <1>10, <1>11, <1>12, <1>13, <1>14, <1>15,
           BookMoves

-----------------------------------------------------------------------------
(* Executions are balanced. *)

(* The job at the head of the chain stays there while others join. *)
LEMMA HeadStays ==
  ASSUME IInv, NEW job, settlementQueue' = Append(settlementQueue, job), settlementQueue # <<>>
  PROVE  settlementQueue' # <<>> /\ Head(settlementQueue') = Head(settlementQueue)
<1>1. settlementQueue \in Seq(SettlementJob)
  BY DEF IInv, TypeOK, QueuesOK
<1>2. Len(settlementQueue) > 0 /\ Len(settlementQueue) \in Nat
  BY <1>1
<1>3. /\ Head(settlementQueue) = settlementQueue[1]
      /\ Head(Append(settlementQueue, job)) = Append(settlementQueue, job)[1]
      /\ Append(settlementQueue, job)[1] = settlementQueue[1]
      /\ Append(settlementQueue, job) # <<>>
  BY <1>1, <1>2
<1> QED BY <1>3

(* What a plan takes from rows of the other side is balanced. *)
LEMMA PlanBalanced ==
  ASSUME ConstantsAssumption, IInv, BooksTrue, NEW acct, NEW side \in {"buy", "sell"},
         NEW limit, NEW qty \in Nat, NEW take \in Plans(acct, side, qty, limit),
         Execution(take) \in ExecutionData
  PROVE  Balanced(Execution(take), side)
<1> DEFINE rows == Executable(acct, side, limit)
<1>1. rows \in SUBSET book /\ \A r \in rows : r.side # BookSide(side)
  BY DEF Executable
<1>2. take \in PlansOver(rows, qty)
  BY DEF Plans
<1>3. BookOK /\ RowsTrue(book)
  BY DEF IInv, TypeOK, BooksTrue
<1> HIDE DEF rows
<1> QED BY <1>1, <1>2, <1>3, ExecutionBalanced

(* What an AI trade takes comes from resting orders. *)
LEMMA AgentPlanBalanced ==
  ASSUME ConstantsAssumption, IInv, BooksTrue, NEW x \in AgentOrders,
         NEW take \in AgentPlans(x), Execution(take) \in ExecutionData
  PROVE  Balanced(Execution(take), x.side)
<1> DEFINE rows == {r \in Executable(None, x.side, 0) : r.oid # Synthetic}
<1>1. rows \in SUBSET book /\ \A r \in rows : r.side # BookSide(x.side)
  BY DEF Executable
<1>2. take \in PlansOver(rows, x.qty)
  BY DEF AgentPlans
<1>3. BookOK /\ RowsTrue(book)
  BY DEF IInv, TypeOK, BooksTrue
<1>4. x.side \in {"buy", "sell"} /\ x.qty \in Nat
  BY DEF ConstantsAssumption
<1> HIDE DEF rows
<1> QED BY <1>1, <1>2, <1>3, <1>4, ExecutionBalanced

(* Which steps touch what the running handler holds, and how. *)
LEMMA HandlerMoves ==
  ASSUME ConstantsAssumption, IInv, [Next]_vars
  PROVE  \/ UNCHANGED <<pc, cur, fill>>
         \/ pc' \notin {"placing", "settling"}
         \/ PlaceAndCross
         \/ \E o \in Orders : SubmitSave(o) \/ SubmitImmediate(o) \/ SweepExecute(o)
<1> USE DEF frame
<1>1. CASE UNCHANGED vars
  BY <1>1 DEF vars
<1>2. CASE Environment
  BY <1>2 DEF Environment, PlaceOrder, RequestCancel, RequestSweep, MarginCall, Tick
<1>3. CASE OrderHandler
  BY <1>3 DEF OrderHandler, Return, SubmitRefused, SubmitUnfilled, SubmitSettled,
     PlaceAndRest, Unbook,
     SubmitFailed, CancelMiss, CancelRead, CancelSave, SweepLoad, SweepEnd, SweepSettled,
     SweepFailed, SweepSkip, SweepReject, SweepUnfilled
<1>4. CASE Settlement
  BY <1>4 DEF Settlement, Release, SettleOwn, SettleCounter, SettleCommit, SettleAbort,
     LiquidationEnd, LiquidationNothing, LiquidationSell, LiquidationRefused,
     LiquidationCounter, LiquidationRead, LiquidationSave, LiquidationFails,
     SettleAgentCounter, SettleAgentFails
<1>5. CASE Agents
  BY <1>5 DEF Agents, AgentTrade, AgentRestore, AgentCounter, AgentRead, AgentSave, AgentDone
<1> QED BY <1>1, <1>2, <1>3, <1>4, <1>5 DEF Next

(* The execution an order handler waits for stays balanced. *)
LEMMA OwnFillStep ==
  ASSUME ConstantsAssumption, IInv, BooksTrue, OwnFillTrue, [Next]_vars, IInv'
  PROVE  OwnFillTrue'
<1>1. ASSUME UNCHANGED <<pc, cur, fill>> PROVE OwnFillTrue'
  BY <1>1 DEF OwnFillTrue, Balanced, CounterOrders, CounterWorth, CounterCost, FeeCovered, Rests
<1>2. ASSUME pc' \notin {"placing", "settling"} PROVE OwnFillTrue'
  BY <1>2 DEF OwnFillTrue
<1>3. ASSUME PlaceAndCross PROVE OwnFillTrue'
  <2>1. cur \in Orders /\ cur' = cur
    BY <1>3 DEF PlaceAndCross, IInv, LocalsInPlace
  <2>2. PICK take \in Plans(Acct(cur), Side(cur), Detail[cur].qty, Detail[cur].price) :
          /\ Execution(take) \in ExecutionData
          /\ fill' = Execution(take) /\ pc' = "settling"
    BY <1>3 DEF PlaceAndCross, Reserve
  <2>3. Side(cur) \in {"buy", "sell"} /\ Detail[cur].qty \in Nat
    BY <2>1 DEF Side, ConstantsAssumption, OrderData
  <2>4. Balanced(Execution(take), Side(cur))
    BY <2>2, <2>3, PlanBalanced
  <2> QED BY <2>1, <2>2, <2>4 DEF OwnFillTrue
<1>4. ASSUME NEW o \in Orders, SubmitSave(o) PROVE OwnFillTrue'
  BY <1>4 DEF SubmitSave, Return, OwnFillTrue
<1>5. ASSUME NEW o \in Orders, SubmitImmediate(o) PROVE OwnFillTrue'
  <2>1. PICK take \in SubmitPlans(o) :
          /\ Execution(take) \in ExecutionData
          /\ fill' = Execution(take) /\ pc' = "settling"
    BY <1>5 DEF SubmitImmediate, Reserve
  <2>2. Side(o) \in {"buy", "sell"} /\ Detail[o].qty \in Nat
    BY DEF Side, ConstantsAssumption, OrderData
  <2>3. take \in Plans(Acct(o), Side(o), Detail[o].qty, Limit(o))
    BY DEF SubmitPlans
  <2>4. Balanced(Execution(take), Side(o))
    BY <2>1, <2>2, <2>3, PlanBalanced
  <2> QED BY <1>5, <2>1, <2>4 DEF OwnFillTrue, SubmitImmediate
<1>6. ASSUME NEW o \in Orders, SweepExecute(o) PROVE OwnFillTrue'
  <2>1. PICK take \in SweepPlans(o) :
          /\ Execution(take) \in ExecutionData
          /\ fill' = Execution(take) /\ pc' = "settling"
    BY <1>6 DEF SweepExecute, Reserve
  <2>2. Side(o) \in {"buy", "sell"} /\ Remaining(o, stale[o]) \in Nat
    <3>1. stale[o] \in OrderRow /\ Detail[o] \in OrderData
      BY FiredRow DEF ConstantsAssumption
    <3>2. stale[o].filled \in Int /\ Detail[o].qty \in Int /\ Side(o) \in {"buy", "sell"}
      BY <3>1 DEF OrderRow, OrderData, Side, ConstantsAssumption
    <3>3. Remaining(o, stale[o]) > 0
      BY <1>6 DEF SweepExecute, Fires
    <3> QED BY <3>2, <3>3 DEF Remaining
  <2>3. take \in Plans(Acct(o), Side(o), Remaining(o, stale[o]), Limit(o))
    BY DEF SweepPlans
  <2>4. Balanced(Execution(take), Side(o))
    BY <2>1, <2>2, <2>3, PlanBalanced
  <2> QED BY <1>6, <2>1, <2>4 DEF OwnFillTrue, SweepExecute
<1> QED BY <1>1, <1>2, <1>3, <1>4, <1>5, <1>6, HandlerMoves

(* Which steps touch the running settlement, and how. *)
LEMMA SettlementMoves ==
  ASSUME [Next]_vars
  PROVE  \/ /\ UNCHANGED <<tx, ledger>>
            /\ settlementQueue' = settlementQueue
               \/ \E job : settlementQueue' = Append(settlementQueue, job)
            /\ pc = "settling" => UNCHANGED <<fill, pc, cur>>
         \/ LiquidationNothing \/ SettleAgentCounter \/ SettleAgentFails
         \/ SettleCommit \/ SettleAbort \/ LiquidationEnd \/ LiquidationFails
         \/ SettleOwn \/ LiquidationRead \/ LiquidationSave
         \/ \E c \in Orders : SettleCounter(c) \/ LiquidationCounter(c) \/ LiquidationRefused(c)
         \/ \E a \in Accounts : LiquidationSell(a)
<1> USE DEF frame
<1>1. CASE UNCHANGED vars
  BY <1>1 DEF vars
<1>2. CASE Environment
  BY <1>2 DEF Environment, PlaceOrder, RequestCancel, RequestSweep, MarginCall, Tick
<1>3. CASE OrderHandler
  <2>1. ASSUME \/ SubmitRefused \/ PlaceAndCross \/ PlaceAndRest \/ SubmitSettled
               \/ SubmitFailed \/ Unbook
               \/ \E o \in Orders : SubmitImmediate(o) \/ SubmitUnfilled(o) \/ SubmitSave(o)
        PROVE  /\ UNCHANGED <<tx, ledger>> /\ pc # "settling"
               /\ settlementQueue' = settlementQueue
                  \/ \E job : settlementQueue' = Append(settlementQueue, job)
    BY <2>1 DEF Return, Reserve, SubmitRefused, SubmitUnfilled, SubmitSettled,
       PlaceAndRest, PlaceAndCross, SubmitImmediate, SubmitSave, Unbook, SubmitFailed
  <2>2. ASSUME \/ CancelMiss \/ CancelRead \/ CancelSave
               \/ SweepLoad \/ SweepEnd \/ SweepSettled \/ SweepFailed
               \/ \E o \in Orders :
                    SweepSkip(o) \/ SweepReject(o) \/ SweepExecute(o) \/ SweepUnfilled(o)
        PROVE  /\ UNCHANGED <<tx, ledger>> /\ pc # "settling"
               /\ settlementQueue' = settlementQueue
                  \/ \E job : settlementQueue' = Append(settlementQueue, job)
    BY <2>2 DEF Reserve, CancelMiss, CancelRead, CancelSave, SweepLoad, SweepEnd,
       SweepSettled, SweepFailed, SweepSkip, SweepReject, SweepUnfilled, SweepExecute
  <2> QED BY <1>3, <2>1, <2>2 DEF OrderHandler
<1>4. CASE Settlement
  BY <1>4 DEF Settlement
<1>5. CASE Agents
  BY <1>5 DEF Agents, AgentTrade, AgentRestore, AgentCounter, AgentRead, AgentSave, AgentDone
<1> QED BY <1>1, <1>2, <1>3, <1>4, <1>5 DEF Next

(* So does the one the open settlement works on. *)
LEMMA TxFillStep ==
  ASSUME ConstantsAssumption, IInv, BooksTrue, FillsTrue, [Next]_vars, IInv'
  PROVE  TxFillTrue'
<1> USE DEF FillsTrue
<1>1. ASSUME UNCHANGED tx, pc = "settling" => UNCHANGED <<fill, pc, cur>>,
             settlementQueue' = settlementQueue
             \/ \E job : settlementQueue' = Append(settlementQueue, job)
      PROVE  TxFillTrue'
  <2> SUFFICES ASSUME tx.phase # "none" PROVE TxFillTrue'
    BY <1>1 DEF TxFillTrue
  <2>1. Settling("fill") => UNCHANGED fill
    BY <1>1, FillWaits
  <2>2. settlementQueue # <<>>
    BY DEF TxFillTrue, Settling
  <2>3. settlementQueue' # <<>> /\ Head(settlementQueue') = Head(settlementQueue)
    BY <1>1, <2>2, HeadStays
  <2>4. (Settling("fill") => Settling("fill")') /\ (Settling("liquidate") => Settling("liquidate")')
    BY <2>3 DEF Settling
  <2> QED BY <1>1, <2>1, <2>4 DEF TxFillTrue, Balanced, CounterOrders, CounterWorth, CounterCost
<1>2. ASSUME LiquidationNothing \/ SettleAgentCounter \/ SettleAgentFails
      PROVE  TxFillTrue'
  BY <1>2 DEF TxFillTrue, LiquidationNothing, SettleAgentCounter, SettleAgentFails, Settling
<1>3. ASSUME SettleCommit \/ SettleAbort \/ LiquidationEnd \/ LiquidationFails
      PROVE  TxFillTrue'
  BY <1>3 DEF TxFillTrue, NoTx, Release, SettleCommit, SettleAbort, LiquidationEnd,
     LiquidationFails
<1>4. ASSUME SettleOwn PROVE TxFillTrue'
  <2>1. /\ tx'.phase = "counters" /\ tx'.fill = fill' /\ tx'.todo = CounterOrders(tx'.fill)
        /\ settlementQueue' = settlementQueue /\ Settling("fill")
    BY <1>4 DEF SettleOwn, frame
  <2> QED BY <2>1 DEF TxFillTrue, Settling, CounterOrders
<1>5. ASSUME NEW c \in Orders, SettleCounter(c) PROVE TxFillTrue'
  <2>1. tx'.phase = "counters" /\ tx'.fill = tx.fill /\ tx'.todo \subseteq tx.todo
        /\ UNCHANGED <<fill, settlementQueue>> /\ Settling("fill") /\ tx.phase = "counters"
    BY <1>5 DEF SettleCounter, frame, IInv, TypeOK, SettlementOK
  <2> QED BY <2>1 DEF TxFillTrue, Settling, CounterOrders
<1>6. ASSUME NEW c \in Orders, LiquidationCounter(c) \/ LiquidationRefused(c) PROVE TxFillTrue'
  <2>1. /\ tx'.fill = tx.fill /\ tx'.todo \subseteq tx.todo /\ c \in tx.todo
        /\ tx'.phase # "counters" => tx'.saving = c
        /\ UNCHANGED <<settlementQueue>> /\ Settling("liquidate") /\ tx.phase = "counters"
    <3>1. CASE LiquidationCounter(c)
      BY <3>1 DEF LiquidationCounter, IInv, TypeOK, SettlementOK
    <3>2. CASE LiquidationRefused(c)
      BY <3>2 DEF LiquidationRefused, IInv, TypeOK, SettlementOK
    <3> QED BY <1>6, <3>1, <3>2
  <2>2. Balanced(tx.fill, "sell")
    BY <2>1 DEF TxFillTrue, Settling
  <2> QED BY <2>1, <2>2 DEF TxFillTrue, Settling, Balanced, CounterOrders, CounterWorth, CounterCost
<1>7. ASSUME LiquidationRead \/ LiquidationSave PROVE TxFillTrue'
  <2>1. /\ tx'.fill = tx.fill /\ tx'.todo \subseteq tx.todo
        /\ tx'.phase # "counters" => tx'.saving = tx.saving
        /\ UNCHANGED <<settlementQueue>> /\ Settling("liquidate")
        /\ tx.phase \in {"reading", "saving"}
    <3>1. CASE LiquidationRead
      BY <3>1 DEF LiquidationRead, IInv, TypeOK, SettlementOK
    <3>2. CASE LiquidationSave
      BY <3>2 DEF LiquidationSave, IInv, TypeOK, SettlementOK
    <3> QED BY <1>7, <3>1, <3>2
  <2>2. Balanced(tx.fill, "sell")
    BY <2>1 DEF TxFillTrue, Settling
  <2> QED BY <2>1, <2>2 DEF TxFillTrue, Settling, Balanced, CounterOrders, CounterWorth, CounterCost
<1>8. ASSUME NEW a \in Accounts, LiquidationSell(a) PROVE TxFillTrue'
  <2>1. PICK take \in LiquidationPlans(a) :
          /\ Execution(take) \in ExecutionData
          /\ tx' = [NoTx EXCEPT !.phase = "counters",
                     !.todo = CounterOrders(Execution(take)), !.fill = Execution(take)]
    BY <1>8 DEF LiquidationSell
  <2>2. ledger.shares[a] \in Nat /\ take \in Plans(a, "sell", ledger.shares[a], 0)
    BY <2>1 DEF LiquidationPlans, IInv, TypeOK, TablesOK, Ledger
  <2>3. Balanced(Execution(take), "sell")
    BY <2>1, <2>2, PlanBalanced
  <2>4. /\ tx'.phase = "counters" /\ tx'.fill = Execution(take)
        /\ tx'.todo = CounterOrders(Execution(take))
    BY <2>1 DEF NoTx
  <2>5. Settling("liquidate") /\ UNCHANGED settlementQueue
    BY <1>8 DEF LiquidationSell
  <2> QED BY <2>3, <2>4, <2>5
             DEF TxFillTrue, Settling, Balanced, CounterOrders, CounterWorth, CounterCost
<1> QED BY <1>1, <1>2, <1>3, <1>4, <1>5, <1>6, <1>7, <1>8, SettlementMoves

(* Which steps move the AI trader. *)
LEMMA AgentMoves ==
  ASSUME [Next]_vars
  PROVE  \/ UNCHANGED agent
         \/ agent' = [NoTrade EXCEPT !.used = agent.used]
         \/ SettleAgentCounter \/ AgentRead \/ AgentSave \/ AgentRestore
         \/ \E c \in Orders : AgentCounter(c)
         \/ \E x \in AgentOrders : AgentTrade(x)
<1>1. CASE UNCHANGED vars
  BY <1>1 DEF vars
<1>2. CASE Environment
  BY <1>2 DEF Environment, PlaceOrder, RequestCancel, RequestSweep, MarginCall, Tick
<1>3. CASE OrderHandler
  BY <1>3 DEF OrderHandler, SubmitRefused, SubmitUnfilled, SubmitSettled, SubmitImmediate,
     SubmitSave, PlaceAndRest, PlaceAndCross, Unbook,
     SubmitFailed, CancelMiss, CancelRead, CancelSave, SweepLoad, SweepEnd, SweepSettled,
     SweepFailed, SweepSkip, SweepReject, SweepUnfilled, SweepExecute
<1>4. CASE Settlement
  BY <1>4 DEF Settlement, SettleOwn, SettleCounter, SettleCommit, SettleAbort,
     LiquidationEnd, LiquidationNothing, LiquidationSell, LiquidationRefused,
     LiquidationCounter, LiquidationRead, LiquidationSave, LiquidationFails, SettleAgentFails
<1>5. CASE Agents
  BY <1>5 DEF Agents, AgentDone
<1> QED BY <1>1, <1>2, <1>3, <1>4, <1>5 DEF Next

(* The locals of an AI trade stay true. *)
LEMMA AgentFillStep ==
  ASSUME ConstantsAssumption, IInv, BooksTrue, FillsTrue, [Next]_vars
  PROVE  AgentFillTrue'
<1> USE DEF FillsTrue
<1>1. ASSUME UNCHANGED agent PROVE AgentFillTrue'
  BY <1>1 DEF AgentFillTrue, CounterOrders
<1>2. ASSUME agent' = [NoTrade EXCEPT !.used = agent.used] PROVE AgentFillTrue'
  BY <1>2 DEF AgentFillTrue, NoTrade
<1>3. ASSUME SettleAgentCounter \/ AgentRead \/ AgentSave \/ AgentRestore PROVE AgentFillTrue'
  <2>1. agent.phase \notin {"idle", "next"}
    BY <1>3, CounterWaits DEF SettleAgentCounter, AgentRead, AgentSave, AgentRestore
  <2>2. /\ agent'.fill = agent.fill /\ agent'.todo = agent.todo
        /\ agent'.phase # "next" => agent'.order = agent.order
    <3>1. CASE SettleAgentCounter
      BY <3>1 DEF SettleAgentCounter, IInv, TypeOK, AgentOK
    <3>2. CASE AgentRead
      BY <3>2 DEF AgentRead, IInv, TypeOK, AgentOK
    <3>3. CASE AgentSave \/ AgentRestore
      BY <3>3 DEF AgentSave, AgentRestore, IInv, TypeOK, AgentOK
    <3> QED BY <1>3, <3>1, <3>2, <3>3
  <2> QED BY <2>1, <2>2 DEF AgentFillTrue, CounterOrders
<1>4. ASSUME NEW c \in Orders, AgentCounter(c) PROVE AgentFillTrue'
  <2>1. /\ agent.phase = "next" /\ c \in agent.todo
        /\ agent'.fill = agent.fill /\ agent'.todo \subseteq agent.todo
        /\ agent'.order = c
    BY <1>4 DEF AgentCounter, IInv, TypeOK, AgentOK
  <2> QED BY <2>1 DEF AgentFillTrue, CounterOrders
<1>5. ASSUME NEW x \in AgentOrders, AgentTrade(x) PROVE AgentFillTrue'
  <2>1. PICK take \in AgentPlans(x) :
          /\ Execution(take) \in ExecutionData
          /\ agent' = [agent EXCEPT !.phase = "next", !.used = @ \cup {x},
                      !.todo = CounterOrders(Execution(take)), !.fill = Execution(take)]
    BY <1>5 DEF AgentTrade
  <2>2. Balanced(Execution(take), x.side)
    BY <2>1, AgentPlanBalanced
  <2>3. /\ agent'.fill = Execution(take) /\ agent'.todo = CounterOrders(Execution(take))
        /\ agent'.phase = "next"
    BY <2>1 DEF IInv, TypeOK, AgentOK
  <2> QED BY <2>2, <2>3 DEF AgentFillTrue, Balanced, CounterOrders
<1> QED BY <1>1, <1>2, <1>3, <1>4, <1>5, AgentMoves

(* The first books and executions are true. *)
LEMMA InitTrue ==
  ASSUME ConstantsAssumption, Init
  PROVE  BooksTrue /\ FillsTrue
<1>1. RowsTrue({})
  BY FS_EmptySet DEF RowsTrue
<1>2. {} \in SUBSET Row /\ mark \in Marks /\ 0 \in Nat
  BY DEF Init
<1>3. RowsTrue(book)
  BY <1>1, <1>2, TrueRows DEF Init
<1>4. FillsTrue
  BY DEF Init, FillsTrue, OwnFillTrue, TxFillTrue, AgentFillTrue, NoTx, NoTrade
<1> QED BY <1>1, <1>3, <1>4 DEF BooksTrue, Init

(* Every row of every book is what its order says, and in every execution what the
   taker gives is what the counterparties and the quotes get (executeFinite,
   placeRestingOrder, refreshOrderBook). *)
THEOREM Booked == Spec => [](BooksTrue /\ FillsTrue)
<1>1. Init => BooksTrue /\ FillsTrue
  BY InitTrue, ConstantsAssumption
<1>2. IInv /\ IInv' /\ (BooksTrue /\ FillsTrue) /\ [Next]_vars => (BooksTrue /\ FillsTrue)'
  BY ConstantsAssumption, BooksTrueStep, OwnFillStep, TxFillStep, AgentFillStep DEF FillsTrue
<1> QED BY <1>1, <1>2, Inductive, PTL DEF Spec

-----------------------------------------------------------------------------
(* Totals of cash and shares. *)

(* What a settlement does to the sums of cash and shares. *)
LEMMA SettleSums ==
  ASSUME ConstantsAssumption, NEW l \in Ledger, NEW a \in Accounts,
         NEW side \in {"buy", "sell"}, NEW n \in Nat, NEW total \in Int
  PROVE  LET s == Settle(l, a, side, n, total)
         IN  /\ CashIn(s) = IF side = "buy" THEN CashIn(l) - total ELSE CashIn(l) + total
             /\ SharesIn(s) = IF side = "buy" THEN SharesIn(l) + n ELSE SharesIn(l) - n
<1> DEFINE s == Settle(l, a, side, n, total)
           paid == IF side = "buy" THEN l.cash[a] - total - Fee ELSE l.cash[a] + total - Fee
           held == IF side = "buy" THEN l.shares[a] + n ELSE l.shares[a] - n
<1>1. /\ Fee \in Nat /\ l.fees \in Nat /\ l.outShares \in Int /\ l.outCash \in Int
      /\ l.cash \in [Accounts -> Int] /\ l.shares \in [Accounts -> Int]
      /\ IsFiniteSet(Accounts)
      /\ l = [cash |-> l.cash, shares |-> l.shares, traded |-> l.traded,
              fees |-> l.fees, outShares |-> l.outShares, outCash |-> l.outCash]
  BY DEF ConstantsAssumption, Ledger
<1>2. /\ s.cash = [l.cash EXCEPT ![a] = paid] /\ s.shares = [l.shares EXCEPT ![a] = held]
      /\ s.fees = l.fees + Fee /\ s.outShares = l.outShares /\ s.outCash = l.outCash
  BY <1>1 DEF Settle
<1>3. l.cash[a] \in Int /\ l.shares[a] \in Int /\ paid \in Int /\ held \in Int
  BY <1>1
<1> HIDE DEF s
<1>4. SumFunction(s.cash) = SumFunction(l.cash) - l.cash[a] + paid
  <2> HIDE DEF paid
  <2> QED BY <1>1, <1>2, <1>3, SumChange
<1>5. SumFunction(s.shares) = SumFunction(l.shares) - l.shares[a] + held
  <2> HIDE DEF held
  <2> QED BY <1>1, <1>2, <1>3, SumChange
<1>6. SumFunction(l.cash) \in Int /\ SumFunction(l.shares) \in Int
  <2>1. DOMAIN l.cash = Accounts /\ DOMAIN l.shares = Accounts
        /\ (\A x \in Accounts : l.cash[x] \in Int) /\ (\A x \in Accounts : l.shares[x] \in Int)
    BY <1>1
  <2> QED BY <1>1, <2>1, SumInt DEF SumFunction
<1>7. CashIn(s) = IF side = "buy" THEN CashIn(l) - total ELSE CashIn(l) + total
  BY <1>1, <1>2, <1>3, <1>4, <1>6 DEF CashIn
<1>8. SharesIn(s) = IF side = "buy" THEN SharesIn(l) + n ELSE SharesIn(l) - n
  BY <1>1, <1>2, <1>3, <1>5, <1>6 DEF SharesIn
<1> QED BY <1>7, <1>8 DEF s

(* The totals of a ledger are integers. *)
LEMMA SumsInt ==
  ASSUME ConstantsAssumption, NEW l \in Ledger
  PROVE  CashIn(l) \in Int /\ SharesIn(l) \in Int
<1>1. /\ l.fees \in Nat /\ l.outShares \in Int /\ l.outCash \in Int
      /\ IsFiniteSet(Accounts)
      /\ DOMAIN l.cash = Accounts /\ DOMAIN l.shares = Accounts
      /\ \A x \in Accounts : l.cash[x] \in Int
      /\ \A x \in Accounts : l.shares[x] \in Int
  BY DEF ConstantsAssumption, Ledger
<1>2. SumFunction(l.cash) \in Int /\ SumFunction(l.shares) \in Int
  BY <1>1, SumInt DEF SumFunction
<1> QED BY <1>1, <1>2 DEF CashIn, SharesIn

(* What the quotes and the AI traders take and give, in totals. *)
LEMMA ExternalSums ==
  ASSUME ConstantsAssumption, NEW l \in Ledger,
         NEW side \in {"buy", "sell"}, NEW n \in Nat, NEW total \in Int
  PROVE  LET s == External(l, side, n, total)
         IN  /\ CashIn(s) = IF side = "buy" THEN CashIn(l) + total ELSE CashIn(l) - total
             /\ SharesIn(s) = IF side = "buy" THEN SharesIn(l) - n ELSE SharesIn(l) + n
<1> DEFINE s == External(l, side, n, total)
<1>1. /\ l.fees \in Nat /\ l.outShares \in Int /\ l.outCash \in Int
      /\ l = [cash |-> l.cash, shares |-> l.shares, traded |-> l.traded,
              fees |-> l.fees, outShares |-> l.outShares, outCash |-> l.outCash]
  BY DEF Ledger
<1>2. /\ s.cash = l.cash /\ s.shares = l.shares /\ s.fees = l.fees
      /\ s.outShares = IF side = "buy" THEN l.outShares - n ELSE l.outShares + n
      /\ s.outCash = IF side = "buy" THEN l.outCash + total ELSE l.outCash - total
  BY <1>1 DEF External
<1> HIDE DEF s
<1>3. SumFunction(l.cash) \in Int /\ SumFunction(l.shares) \in Int
  <2>1. /\ IsFiniteSet(Accounts)
        /\ DOMAIN l.cash = Accounts /\ DOMAIN l.shares = Accounts
        /\ \A x \in Accounts : l.cash[x] \in Int
        /\ \A x \in Accounts : l.shares[x] \in Int
    BY DEF ConstantsAssumption, Ledger
  <2> QED BY <2>1, SumInt DEF SumFunction
<1>4. CashIn(s) = IF side = "buy" THEN CashIn(l) + total ELSE CashIn(l) - total
  BY <1>1, <1>2, <1>3 DEF CashIn
<1>5. SharesIn(s) = IF side = "buy" THEN SharesIn(l) - n ELSE SharesIn(l) + n
  BY <1>1, <1>2, <1>3 DEF SharesIn
<1> QED BY <1>4, <1>5 DEF s

(* Recording a trade moves neither cash nor shares. *)
LEMMA TradedSums ==
  ASSUME NEW l \in Ledger, NEW o, NEW n
  PROVE  CashIn(Traded(l, o, n)) = CashIn(l) /\ SharesIn(Traded(l, o, n)) = SharesIn(l)
BY DEF Traded, CashIn, SharesIn, Ledger

(* What settling a counterparty does to the totals. *)
LEMMA CounterSums ==
  ASSUME ConstantsAssumption, NEW l \in Ledger, NEW f \in ExecutionData, NEW c \in Orders
  PROVE  LET s == SettleCounterparty(l, f, c)
             total == CounterCost(f, c)
             n == f.counter[c]
         IN  /\ CashIn(s) = IF Side(c) = "buy" THEN CashIn(l) - total ELSE CashIn(l) + total
             /\ SharesIn(s) = IF Side(c) = "buy" THEN SharesIn(l) + n ELSE SharesIn(l) - n
<1> DEFINE s == Settle(l, Acct(c), Side(c), f.counter[c], CounterCost(f, c))
<1>1. f.counter[c] \in Nat /\ CounterCost(f, c) \in Int /\ Acct(c) \in Accounts
      /\ Side(c) \in {"buy", "sell"}
  BY CounterLedger DEF Side, ConstantsAssumption, OrderData
<1>2. s \in Ledger
  BY <1>1, SettleLedger
<1>3. /\ CashIn(s) = IF Side(c) = "buy" THEN CashIn(l) - CounterCost(f, c)
                                        ELSE CashIn(l) + CounterCost(f, c)
      /\ SharesIn(s) = IF Side(c) = "buy" THEN SharesIn(l) + f.counter[c]
                                          ELSE SharesIn(l) - f.counter[c]
  BY <1>1, SettleSums
<1> HIDE DEF s
<1>4. SettleCounterparty(l, f, c) = Traded(s, c, f.counter[c])
  BY DEF SettleCounterparty, s
<1> QED BY <1>2, <1>3, <1>4, TradedSums

(* What the counterparties still owe shrinks by what one of them settles. *)
LEMMA OwingSums ==
  ASSUME ConstantsAssumption, NEW f \in ExecutionData, NEW owing \in SUBSET Orders
  PROVE  /\ SumFunctionOnSet(f.counter, owing) \in Int
         /\ SumFunctionOnSet(CounterWorth(f), owing) \in Int
         /\ owing = {} => /\ SumFunctionOnSet(f.counter, owing) = 0
                          /\ SumFunctionOnSet(CounterWorth(f), owing) = 0
         /\ \A c \in owing :
              /\ SumFunctionOnSet(f.counter, owing)
                   = f.counter[c] + SumFunctionOnSet(f.counter, owing \ {c})
              /\ SumFunctionOnSet(CounterWorth(f), owing)
                   = CounterCost(f, c) + SumFunctionOnSet(CounterWorth(f), owing \ {c})
<1> DEFINE W == CounterWorth(f)
           N == f.counter
<1>1. \A c \in owing : /\ N[c] \in Int /\ W[c] \in Int /\ W[c] = CounterCost(f, c)
  <2> TAKE c \in owing
  <2>1. c \in Orders /\ f.counter[c] \in Nat /\ Detail[c].price \in Nat
    BY DEF ExecutionData, ConstantsAssumption, OrderData
  <2>2. f.counter[c] * Detail[c].price \in Int
    BY <2>1
  <2> QED BY <2>1, <2>2 DEF CounterWorth, CounterCost
<1>2. IsFiniteSet(owing)
  BY FS_Subset DEF ConstantsAssumption
<1> HIDE DEF W, N
<1>3. SumFunctionOnSet(N, owing) \in Int /\ SumFunctionOnSet(W, owing) \in Int
  BY <1>1, <1>2, SumInt
<1>4. SumFunctionOnSet(N, {}) = 0 /\ SumFunctionOnSet(W, {}) = 0
  BY SumEmpty
<1>5. ASSUME NEW c \in owing
      PROVE  /\ SumFunctionOnSet(N, owing) = N[c] + SumFunctionOnSet(N, owing \ {c})
             /\ SumFunctionOnSet(W, owing) = W[c] + SumFunctionOnSet(W, owing \ {c})
  BY <1>1, <1>2, SumRemove
<1> QED BY <1>1, <1>3, <1>4, <1>5 DEF W, N

(* The own settlement leaves exactly what its counterparties owe. *)
LEMMA OwnLacking ==
  ASSUME ConstantsAssumption, NEW l \in Ledger, NEW f \in ExecutionData, NEW o \in Orders,
         Whole(l), Balanced(f, Side(o))
  PROVE  Lacking(Traded(External(Settle(l, Acct(o), Side(o), f.filled, f.cost),
                                 Side(o), f.external, f.externalCost), o, f.filled),
                 f, Side(o), CounterOrders(f))
<1> DEFINE s == Settle(l, Acct(o), Side(o), f.filled, f.cost)
           e == External(s, Side(o), f.external, f.externalCost)
           t == Traded(e, o, f.filled)
<1>1. /\ Acct(o) \in Accounts /\ Side(o) \in {"buy", "sell"}
      /\ f.filled \in Nat /\ f.cost \in Int /\ f.external \in Nat /\ f.externalCost \in Int
      /\ CounterOrders(f) \in SUBSET Orders
  BY DEF Acct, Side, ConstantsAssumption, OrderData, ExecutionData, CounterOrders
<1>2. s \in Ledger
  BY <1>1, SettleLedger
<1>3. /\ CashIn(s) = IF Side(o) = "buy" THEN CashIn(l) - f.cost ELSE CashIn(l) + f.cost
      /\ SharesIn(s) = IF Side(o) = "buy" THEN SharesIn(l) + f.filled ELSE SharesIn(l) - f.filled
  BY <1>1, SettleSums
<1> HIDE DEF s
<1>4. e \in Ledger
  BY <1>1, <1>2, SettleLedger
<1>5. /\ CashIn(e) = IF Side(o) = "buy" THEN CashIn(s) + f.externalCost ELSE CashIn(s) - f.externalCost
      /\ SharesIn(e) = IF Side(o) = "buy" THEN SharesIn(s) - f.external ELSE SharesIn(s) + f.external
  BY <1>1, <1>2, ExternalSums
<1> HIDE DEF e
<1>6. CashIn(t) = CashIn(e) /\ SharesIn(t) = SharesIn(e)
  BY <1>4, TradedSums
<1> DEFINE N == SumFunctionOnSet(f.counter, CounterOrders(f))
           W == SumFunctionOnSet(CounterWorth(f), CounterOrders(f))
<1>7. N \in Int /\ W \in Int
  BY <1>1, OwingSums
<1>8. f.filled = f.external + N /\ f.cost = f.externalCost + W
  BY DEF Balanced
<1>9. CashIn(l) = SumFunction(InitCash) /\ SharesIn(l) = SumFunction(InitShares)
      /\ CashIn(l) \in Int /\ SharesIn(l) \in Int
  BY SumsInt DEF Whole
<1> HIDE DEF N, W, t
<1>10. IF Side(o) = "buy"
       THEN CashIn(t) + W = SumFunction(InitCash) /\ SharesIn(t) - N = SumFunction(InitShares)
       ELSE CashIn(t) - W = SumFunction(InitCash) /\ SharesIn(t) + N = SumFunction(InitShares)
  BY <1>1, <1>3, <1>5, <1>6, <1>7, <1>8, <1>9
<1> QED BY <1>10 DEF Lacking, N, W, t, e, s

(* After a counterparty has settled, the rest is what is lacking. *)
LEMMA CounterLacking ==
  ASSUME ConstantsAssumption, NEW l \in Ledger, NEW f \in ExecutionData,
         NEW side \in {"buy", "sell"}, NEW owing \in SUBSET Orders, NEW c \in owing,
         Side(c) # side, Lacking(l, f, side, owing)
  PROVE  Lacking(SettleCounterparty(l, f, c), f, side, owing \ {c})
<1> DEFINE s == SettleCounterparty(l, f, c)
           N == SumFunctionOnSet(f.counter, owing)
           W == SumFunctionOnSet(CounterWorth(f), owing)
           N2 == SumFunctionOnSet(f.counter, owing \ {c})
           W2 == SumFunctionOnSet(CounterWorth(f), owing \ {c})
<1>1. Side(c) \in {"buy", "sell"} /\ f.counter[c] \in Nat /\ CounterCost(f, c) \in Int
  BY CounterLedger DEF Side, ConstantsAssumption, OrderData
<1>2. /\ CashIn(s) = IF Side(c) = "buy" THEN CashIn(l) - CounterCost(f, c)
                                        ELSE CashIn(l) + CounterCost(f, c)
      /\ SharesIn(s) = IF Side(c) = "buy" THEN SharesIn(l) + f.counter[c]
                                          ELSE SharesIn(l) - f.counter[c]
  BY CounterSums
<1>3. CashIn(l) \in Int /\ SharesIn(l) \in Int
  BY SumsInt
<1>4. N = f.counter[c] + N2 /\ W = CounterCost(f, c) + W2
  BY OwingSums
<1>5. N2 \in Int /\ W2 \in Int
  <2>1. owing \ {c} \in SUBSET Orders
    OBVIOUS
  <2> QED BY <2>1, OwingSums
<1>6. IF side = "buy"
      THEN CashIn(l) + W = SumFunction(InitCash) /\ SharesIn(l) - N = SumFunction(InitShares)
      ELSE CashIn(l) - W = SumFunction(InitCash) /\ SharesIn(l) + N = SumFunction(InitShares)
  BY DEF Lacking
<1> HIDE DEF s, N, W, N2, W2
<1>7. IF side = "buy"
      THEN CashIn(s) + W2 = SumFunction(InitCash) /\ SharesIn(s) - N2 = SumFunction(InitShares)
      ELSE CashIn(s) - W2 = SumFunction(InitCash) /\ SharesIn(s) + N2 = SumFunction(InitShares)
  BY <1>1, <1>2, <1>3, <1>4, <1>5, <1>6
<1> QED BY <1>7 DEF Lacking, s, N2, W2

(* A counterparty of an AI trade exchanges with the outside what it settles. *)
LEMMA AgentWhole ==
  ASSUME ConstantsAssumption, NEW l \in Ledger, NEW f \in ExecutionData, NEW c \in Orders,
         Whole(l)
  PROVE  Whole(External(SettleCounterparty(l, f, c), Side(c), f.counter[c], CounterCost(f, c)))
<1> DEFINE s == SettleCounterparty(l, f, c)
<1>1. /\ Side(c) \in {"buy", "sell"} /\ f.counter[c] \in Nat /\ CounterCost(f, c) \in Int
      /\ s \in Ledger
  BY CounterLedger DEF Side, ConstantsAssumption, OrderData
<1>2. CashIn(l) \in Int /\ SharesIn(l) \in Int
  BY SumsInt
<1>3. /\ CashIn(s) = IF Side(c) = "buy" THEN CashIn(l) - CounterCost(f, c)
                                        ELSE CashIn(l) + CounterCost(f, c)
      /\ SharesIn(s) = IF Side(c) = "buy" THEN SharesIn(l) + f.counter[c]
                                          ELSE SharesIn(l) - f.counter[c]
  BY CounterSums
<1> HIDE DEF s
<1> DEFINE e == External(s, Side(c), f.counter[c], CounterCost(f, c))
<1>4. /\ CashIn(e) = IF Side(c) = "buy" THEN CashIn(s) + CounterCost(f, c)
                                        ELSE CashIn(s) - CounterCost(f, c)
      /\ SharesIn(e) = IF Side(c) = "buy" THEN SharesIn(s) - f.counter[c]
                                          ELSE SharesIn(s) + f.counter[c]
  BY <1>1, ExternalSums
<1> HIDE DEF e
<1>5. CashIn(e) = CashIn(l) /\ SharesIn(e) = SharesIn(l)
  BY <1>1, <1>2, <1>3, <1>4
<1> QED BY <1>5 DEF Whole, e, s

-----------------------------------------------------------------------------
(* Settlement conserves cash and shares. *)

(* A job that joins the chain, and one that leaves it. *)
LEMMA CalledStep ==
  ASSUME ConstantsAssumption, IInv, CalledTrue, [Next]_vars
  PROVE  CalledTrue' /\ (called' = {} => called = {})
<1> USE DEF CalledTrue, env
<1>0. settlementQueue \in Seq(SettlementJob)
  BY DEF IInv, TypeOK, QueuesOK
<1>1. ASSUME UNCHANGED <<settlementQueue, called>>
      PROVE CalledTrue' /\ (called' = {} => called = {})
  BY <1>1
<1>2. ASSUME UNCHANGED called, settlementQueue # <<>>, settlementQueue' = Tail(settlementQueue)
      PROVE  CalledTrue' /\ (called' = {} => called = {})
  <2>1. \A i \in DOMAIN settlementQueue' :
          i + 1 \in DOMAIN settlementQueue /\ settlementQueue'[i] = settlementQueue[i + 1]
    BY <1>0, <1>2
  <2> QED BY <1>2, <2>1
<1>3. ASSUME NEW job \in SettlementJob, settlementQueue' = Append(settlementQueue, job),
             called \subseteq called', job.kind = "liquidate" => job.acct \in called'
      PROVE  CalledTrue' /\ (called' = {} => called = {})
  <2>1. \A i \in DOMAIN settlementQueue' :
          \/ i \in DOMAIN settlementQueue /\ settlementQueue'[i] = settlementQueue[i]
          \/ settlementQueue'[i] = job
    BY <1>0, <1>3
  <2> QED BY <1>3, <2>1
<1>4. ASSUME NEW o \in Orders, NEW take, NEW extra, Reserve(o, take, extra), UNCHANGED called
      PROVE  CalledTrue' /\ (called' = {} => called = {})
  <2> DEFINE job == [kind |-> "fill", acct |-> Acct(o)]
  <2>1. job \in SettlementJob /\ job.kind # "liquidate" /\ settlementQueue' = Append(settlementQueue, job)
    BY <1>4 DEF Reserve, SettlementJob, ConstantsAssumption, OrderData, Acct
  <2> HIDE DEF job
  <2> QED BY <1>3, <1>4, <2>1
<1>5. CASE UNCHANGED vars
  BY <1>1, <1>5 DEF vars
<1>6. CASE Environment
  <2>1. ASSUME NEW a \in Accounts, MarginCall(a) PROVE CalledTrue' /\ (called' = {} => called = {})
    <3> DEFINE job == [kind |-> "liquidate", acct |-> a]
    <3>1. job \in SettlementJob /\ job.acct \in called' /\ called \subseteq called'
          /\ settlementQueue' = Append(settlementQueue, job)
      BY <2>1 DEF MarginCall, SettlementJob
    <3> HIDE DEF job
    <3> QED BY <1>3, <3>1
  <2> QED BY <1>1, <1>6, <2>1 DEF Environment, PlaceOrder, RequestCancel, RequestSweep, Tick
<1>7. CASE OrderHandler
  <2>1. CASE PlaceAndCross
    <3>1. UNCHANGED called /\ cur \in Orders
      BY <2>1 DEF PlaceAndCross, IInv, LocalsInPlace
    <3>2. PICK take : Reserve(cur, take, Resting(cur, Detail[cur].qty, quoteSequence))
      BY <2>1 DEF PlaceAndCross
    <3> QED BY <1>4, <3>1, <3>2
  <2>2. ASSUME NEW o \in Orders, SubmitImmediate(o) \/ SweepExecute(o)
        PROVE  CalledTrue' /\ (called' = {} => called = {})
    <3>1. UNCHANGED called
      BY <2>2 DEF SubmitImmediate, SweepExecute
    <3>2. PICK take : Reserve(o, take, {})
      BY <2>2 DEF SubmitImmediate, SweepExecute
    <3> QED BY <1>4, <3>1, <3>2
  <2>3. \/ UNCHANGED <<settlementQueue, called>> \/ PlaceAndCross
        \/ \E o \in Orders : SubmitImmediate(o) \/ SweepExecute(o)
    BY <1>7 DEF OrderHandler, SubmitRefused, SubmitUnfilled, SubmitSave, SubmitSettled,
       SubmitFailed, Unbook, PlaceAndRest, CancelMiss, CancelRead, CancelSave, SweepLoad,
       SweepEnd, SweepSettled, SweepFailed, SweepSkip, SweepReject, SweepUnfilled
  <2> QED BY <1>1, <2>1, <2>2, <2>3
<1>8. CASE Settlement
  <2>1. /\ UNCHANGED called
        /\ \/ UNCHANGED settlementQueue
           \/ settlementQueue # <<>> /\ settlementQueue' = Tail(settlementQueue)
    BY <1>8 DEF Settlement, Settling, Release, SettleOwn, SettleCounter, SettleCommit,
       SettleAbort, LiquidationEnd, LiquidationNothing, LiquidationSell, LiquidationRefused,
       LiquidationCounter, LiquidationRead, LiquidationSave, LiquidationFails,
       SettleAgentCounter, SettleAgentFails
  <2> QED BY <1>1, <1>2, <2>1
<1>9. CASE Agents
  <2>1. ASSUME NEW c \in Orders, AgentCounter(c) PROVE CalledTrue' /\ (called' = {} => called = {})
    <3> DEFINE job == [kind |-> "counter", acct |-> Acct(c)]
    <3>1. job \in SettlementJob /\ job.kind # "liquidate" /\ UNCHANGED called
          /\ settlementQueue' = Append(settlementQueue, job)
      BY <2>1 DEF AgentCounter, SettlementJob, ConstantsAssumption, OrderData, Acct
    <3> HIDE DEF job
    <3> QED BY <1>3, <3>1
  <2> QED BY <1>1, <1>9, <2>1 DEF Agents, AgentTrade, AgentRead, AgentSave, AgentRestore, AgentDone
<1> QED BY <1>5, <1>6, <1>7, <1>8, <1>9 DEF Next

(* Without a margin call a running transaction is a fill's. *)
LEMMA NobodyCalled ==
  ASSUME IInv, FillsTrue, CalledTrue, called = {}
  PROVE  ~Settling("liquidate") /\ (tx.phase # "none" => Settling("fill") /\ tx.phase = "counters"
                                                          /\ tx.fill = fill)
<1>1. ASSUME Settling("liquidate") PROVE FALSE
  <2>1. settlementQueue \in Seq(SettlementJob) /\ settlementQueue # <<>>
    BY <1>1 DEF Settling, IInv, TypeOK, QueuesOK
  <2>2. 1 \in DOMAIN settlementQueue /\ Head(settlementQueue) = settlementQueue[1]
    BY <2>1
  <2> QED BY <1>1, <2>2 DEF Settling, CalledTrue
<1> QED BY <1>1 DEF FillsTrue, TxFillTrue

(* Every step keeps the accounts whole, or lacking what is still owed. *)
LEMMA AccountedStep ==
  ASSUME ConstantsAssumption, IInv, FillsTrue, Accounted, [Next]_vars
  PROVE  Accounted'
<1>1. CalledTrue' /\ (called' = {} => called = {})
  BY CalledStep DEF CalledTrue, Accounted
<1> SUFFICES ASSUME called = {} PROVE WholeOrLacking'
  BY <1>1 DEF CalledTrue, Accounted, WholeOrLacking
<1>2. WholeOrLacking /\ CalledTrue
  BY DEF CalledTrue, Accounted, WholeOrLacking
<1>3. ~Settling("liquidate") /\ (tx.phase # "none" => Settling("fill") /\ tx.phase = "counters"
                                                      /\ tx.fill = fill)
  BY <1>2, NobodyCalled
<1>4. tx.ledger \in Ledger /\ tx.fill \in ExecutionData /\ ledger \in Ledger /\ tx.todo \in SUBSET Orders
  BY DEF IInv, TypeOK, SettlementOK, TablesOK
<1>5. ASSUME UNCHANGED <<tx, ledger>>, pc = "settling" => UNCHANGED <<fill, pc, cur>>
      PROVE  WholeOrLacking'
  <2>1. tx.phase # "none" => cur' = cur
    BY <1>3, <1>5, FillWaits
  <2> QED BY <1>2, <1>5, <2>1
             DEF WholeOrLacking, Whole, CashIn, SharesIn, Lacking, CounterWorth, CounterCost
<1>6. ASSUME SettleAgentCounter \/ SettleAgentFails PROVE WholeOrLacking'
  <2>1. tx.phase = "none" /\ UNCHANGED tx /\ Settling("counter")
    BY <1>3, <1>6 DEF SettleAgentCounter, SettleAgentFails, Settling
  <2>2. agent.fill \in ExecutionData /\ agent.order \in Orders
    BY <2>1, CounterWaits DEF IInv, TypeOK, AgentOK, AgentDiscipline
  <2>3. Whole(ledger)'
    <3>1. CASE UNCHANGED ledger
      BY <1>2, <3>1 DEF WholeOrLacking, Whole, CashIn, SharesIn
    <3>2. CASE ledger' = External(SettleCounterparty(ledger, agent.fill, agent.order),
                               Side(agent.order), agent.fill.counter[agent.order],
                               CounterCost(agent.fill, agent.order))
      <4>1. Whole(ledger')
        BY <1>2, <1>4, <2>2, <3>2, AgentWhole DEF WholeOrLacking
      <4> QED BY <4>1 DEF Whole, CashIn, SharesIn
    <3> QED BY <1>6, <3>1, <3>2 DEF SettleAgentCounter, SettleAgentFails
  <2> QED BY <2>1, <2>3 DEF WholeOrLacking
<1>7. ASSUME SettleCommit PROVE WholeOrLacking'
  <2>1. /\ tx.todo = {} /\ ledger' = tx.ledger /\ tx' = NoTx /\ tx.phase # "none"
    BY <1>7 DEF SettleCommit, Release
  <2>2. Lacking(tx.ledger, tx.fill, Side(cur), {})
    BY <1>2, <2>1 DEF WholeOrLacking
  <2>3. SumFunctionOnSet(tx.fill.counter, {}) = 0 /\ SumFunctionOnSet(CounterWorth(tx.fill), {}) = 0
    BY <1>4, OwingSums
  <2>4. CashIn(tx.ledger) \in Int /\ SharesIn(tx.ledger) \in Int
    BY <1>4, SumsInt
  <2>5. Whole(ledger')
    BY <2>1, <2>2, <2>3, <2>4 DEF Lacking, Whole
  <2> QED BY <2>1, <2>5 DEF WholeOrLacking, NoTx, Whole, CashIn, SharesIn
<1>8. ASSUME SettleAbort PROVE WholeOrLacking'
  BY <1>2, <1>8 DEF SettleAbort, Release, WholeOrLacking, NoTx, Whole, CashIn, SharesIn
<1>9. ASSUME SettleOwn PROVE WholeOrLacking'
  <2>1. cur \in Orders /\ fill \in ExecutionData /\ Balanced(fill, Side(cur))
    BY <1>9, FillWaits DEF SettleOwn, FillsTrue, OwnFillTrue
  <2> DEFINE l == Traded(External(Settle(ledger, Acct(cur), Side(cur), fill.filled, fill.cost),
                                  Side(cur), fill.external, fill.externalCost), cur, fill.filled)
  <2>2. Lacking(l, fill, Side(cur), CounterOrders(fill))
    BY <1>2, <1>4, <2>1, OwnLacking DEF WholeOrLacking
  <2>3. tx'.ledger = l /\ tx'.fill = fill /\ tx'.todo = CounterOrders(fill)
        /\ UNCHANGED <<cur, ledger>>
    BY <1>9 DEF SettleOwn, frame
  <2> HIDE DEF l
  <2>4. Lacking(tx'.ledger, tx'.fill, Side(cur'), tx'.todo)
    BY <2>2, <2>3
  <2> QED BY <1>2, <2>3, <2>4
          DEF WholeOrLacking, Whole, CashIn, SharesIn, Lacking, CounterWorth, CounterCost
<1>10. ASSUME NEW c \in Orders, SettleCounter(c) PROVE WholeOrLacking'
  <2>1. /\ c \in tx.todo /\ tx.phase # "none" /\ UNCHANGED <<cur, ledger>>
        /\ tx'.ledger = SettleCounterparty(tx.ledger, tx.fill, c)
        /\ tx'.fill = tx.fill /\ tx'.todo = tx.todo \ {c}
    BY <1>10 DEF SettleCounter, frame, IInv, TypeOK, SettlementOK
  <2>2. Side(cur) \in {"buy", "sell"} /\ Side(c) # Side(cur)
    <3>1. tx.fill = fill /\ pc = "settling" /\ cur \in Orders
      BY <1>3, <2>1, FillWaits
    <3>2. c \in CounterOrders(fill) /\ Balanced(fill, Side(cur))
      BY <2>1, <3>1 DEF FillsTrue, TxFillTrue, OwnFillTrue
    <3> QED BY <3>1, <3>2 DEF Balanced, Side, ConstantsAssumption, OrderData
  <2>3. Lacking(tx.ledger, tx.fill, Side(cur), tx.todo)
    BY <1>2, <2>1 DEF WholeOrLacking
  <2>4. Lacking(SettleCounterparty(tx.ledger, tx.fill, c), tx.fill, Side(cur), tx.todo \ {c})
    BY <1>4, <2>1, <2>2, <2>3, CounterLacking
  <2>5. Lacking(tx'.ledger, tx'.fill, Side(cur'), tx'.todo)
    BY <2>1, <2>4
  <2> QED BY <1>2, <2>1, <2>5
          DEF WholeOrLacking, Whole, CashIn, SharesIn, Lacking, CounterWorth, CounterCost
<1>11. ~(LiquidationNothing \/ LiquidationEnd \/ LiquidationFails \/ LiquidationRead
         \/ LiquidationSave)
       /\ (\A c \in Orders : ~(LiquidationCounter(c) \/ LiquidationRefused(c)))
       /\ (\A a \in Accounts : ~LiquidationSell(a))
  BY <1>3 DEF LiquidationNothing, LiquidationEnd, LiquidationFails, LiquidationRead,
     LiquidationSave, LiquidationCounter, LiquidationRefused, LiquidationSell
<1> QED BY <1>5, <1>6, <1>7, <1>8, <1>9, <1>10, <1>11, SettlementMoves

(* The first ledger is whole. *)
LEMMA InitAccounted ==
  ASSUME ConstantsAssumption, Init
  PROVE  Accounted
<1>1. ledger = NoTx.ledger /\ tx.phase = "none" /\ settlementQueue = <<>>
  BY DEF Init, NoTx
<1>2. SumFunction(InitCash) \in Int /\ SumFunction(InitShares) \in Int
  <2>1. /\ DOMAIN InitCash = Accounts /\ DOMAIN InitShares = Accounts /\ IsFiniteSet(Accounts)
        /\ \A a \in Accounts : InitCash[a] \in Int
        /\ \A a \in Accounts : InitShares[a] \in Int
    BY DEF ConstantsAssumption
  <2> QED BY <2>1, SumInt DEF SumFunction
<1>3. Whole(ledger)
  BY <1>1, <1>2 DEF Whole, CashIn, SharesIn, NoTx
<1> QED BY <1>1, <1>3 DEF Accounted, CalledTrue, WholeOrLacking

(* Until the first margin call no cash and no share is created or lost, whatever
   the interleaving, the aborts and the AI trades (settleFiniteFill). *)
THEOREM SettlementConserves == Spec => [](called = {} => Conserved)
<1>1. Init => Accounted
  BY InitAccounted, ConstantsAssumption
<1>2. IInv /\ (BooksTrue /\ FillsTrue) /\ Accounted /\ [Next]_vars => Accounted'
  BY ConstantsAssumption, AccountedStep
<1>3. Accounted => (called = {} => Conserved)
  BY DEF Accounted, WholeOrLacking, Conserved
<1> QED BY <1>1, <1>2, <1>3, Inductive, Booked, PTL DEF Spec

(* So without margin accounts none is ever created or lost (settleFillInner and
   updateCounterpartyOrder credit what their counterparts give). *)
THEOREM NothingCreated == Marginal = {} => (Spec => []Conserved)
<1>1. SUFFICES ASSUME Marginal = {}
               PROVE  Spec => []Conserved
  OBVIOUS
<1>2. IInv => called = {}
  BY <1>1 DEF IInv, TypeOK, EnvOK
<1> QED BY <1>2, Inductive, SettlementConserves, PTL

-----------------------------------------------------------------------------
(* Nobody is short, nobody overdrawn. *)

(* Whoever sells holds the shares, so nobody ends up short; whoever buys can pay,
   and a sale brings its fee. *)
LEMMA SettleCovered ==
  ASSUME ConstantsAssumption, NEW l \in Ledger, NEW a \in Accounts,
         NEW side \in {"buy", "sell"}, NEW n \in Nat, NEW total \in Int
  PROVE  LET s == Settle(l, a, side, n, total)
         IN  /\ Holds(l) /\ (side = "sell" => l.shares[a] >= n) => Holds(s)
             /\ side = "buy" => \A x \in Accounts : s.shares[x] >= l.shares[x]
             /\ Pays(l) /\ (side = "buy" => l.cash[a] >= total + Fee)
                /\ (side = "sell" => total >= Fee) => Pays(s)
<1>1. /\ Fee \in Nat
      /\ l.cash \in [Accounts -> Int] /\ l.shares \in [Accounts -> Int]
      /\ l = [cash |-> l.cash, shares |-> l.shares, traded |-> l.traded,
              fees |-> l.fees, outShares |-> l.outShares, outCash |-> l.outCash]
  BY DEF ConstantsAssumption, Ledger
<1> DEFINE s == Settle(l, a, side, n, total)
<1>2. /\ s.cash = [l.cash EXCEPT ![a] = IF side = "buy" THEN l.cash[a] - total - Fee
                                                       ELSE l.cash[a] + total - Fee]
      /\ s.shares = [l.shares EXCEPT ![a] = IF side = "buy" THEN l.shares[a] + n
                                                           ELSE l.shares[a] - n]
  BY <1>1 DEF Settle
<1> HIDE DEF s
<1>3. ASSUME Holds(l), side = "sell" => l.shares[a] >= n PROVE Holds(s)
  BY <1>1, <1>2, <1>3 DEF Holds
<1>4. ASSUME side = "buy" PROVE \A x \in Accounts : s.shares[x] >= l.shares[x]
  BY <1>1, <1>2, <1>4
<1>5. ASSUME Pays(l), side = "buy" => l.cash[a] >= total + Fee, side = "sell" => total >= Fee
      PROVE  Pays(s)
  BY <1>1, <1>2, <1>5 DEF Pays
<1> QED BY <1>3, <1>4, <1>5 DEF s

(* What the quotes give costs no account anything. *)
LEMMA OutsideCovered ==
  ASSUME NEW l \in Ledger, NEW side, NEW n, NEW total, NEW o
  PROVE  /\ External(l, side, n, total).shares = l.shares
         /\ External(l, side, n, total).cash = l.cash
         /\ Traded(l, o, n).shares = l.shares /\ Traded(l, o, n).cash = l.cash
BY DEF External, Traded, Ledger

(* A counterparty that can settle stays covered. *)
LEMMA CounterCovered ==
  ASSUME ConstantsAssumption, NEW l \in Ledger, NEW f \in ExecutionData,
         NEW c \in CounterOrders(f), Rests(c), CanSettleCounter(l, f, c)
  PROVE  LET s == SettleCounterparty(l, f, c)
         IN  /\ Holds(l) => Holds(s)
             /\ Side(c) = "buy" => \A x \in Accounts : s.shares[x] >= l.shares[x]
             /\ FeeCovered /\ Pays(l) => Pays(s)
<1> DEFINE n == f.counter[c]
           total == CounterCost(f, c)
           s == Settle(l, Acct(c), Side(c), n, total)
<1>1. /\ c \in Orders /\ n \in Nat /\ n > 0 /\ total \in Int /\ Acct(c) \in Accounts
      /\ Side(c) \in {"buy", "sell"} /\ Detail[c].price \in Nat
  BY CounterLedger DEF Side, ConstantsAssumption, OrderData, CounterOrders
<1>2. FeeCovered => total >= Fee
  <2>1. total >= Detail[c].price /\ Detail[c].price \in Nat
    BY <1>1, Product DEF CounterCost
  <2>2. FeeCovered => Detail[c].price >= Fee
    BY <1>1 DEF FeeCovered
  <2>3. Fee \in Nat
    BY DEF ConstantsAssumption
  <2> HIDE DEF total
  <2> QED BY <1>1, <2>1, <2>2, <2>3
<1>3. /\ Side(c) = "buy" => l.cash[Acct(c)] >= total + Fee
      /\ Side(c) = "sell" => l.shares[Acct(c)] >= n
  BY DEF CanSettleCounter, CanSettle
<1>4. s \in Ledger
  BY <1>1, SettleLedger
<1> HIDE DEF n, total
<1>5. /\ Holds(l) => Holds(s)
      /\ Side(c) = "buy" => \A x \in Accounts : s.shares[x] >= l.shares[x]
      /\ FeeCovered /\ Pays(l) => Pays(s)
  BY <1>1, <1>2, <1>3, SettleCovered
<1> HIDE DEF s
<1>6. SettleCounterparty(l, f, c) = Traded(s, c, f.counter[c])
  BY DEF SettleCounterparty, s, n, total
<1>7. /\ Traded(s, c, f.counter[c]).shares = s.shares
      /\ Traded(s, c, f.counter[c]).cash = s.cash
  BY <1>4, OutsideCovered
<1> QED BY <1>5, <1>6, <1>7 DEF Holds, Pays

(* Every step keeps shares and cash covered. *)
LEMMA CoveredStep ==
  ASSUME ConstantsAssumption, IInv, FillsTrue, Covered, [Next]_vars
  PROVE  Covered'
<1> USE DEF Covered, HoldingsCovered, CashCovered
<1>1. /\ tx.ledger \in Ledger /\ tx.fill \in ExecutionData /\ ledger \in Ledger
      /\ tx.todo \in SUBSET Orders
  BY DEF IInv, TypeOK, SettlementOK, TablesOK
<1>2. ASSUME UNCHANGED <<tx, ledger>>, pc = "settling" => UNCHANGED <<fill, pc, cur>>,
             settlementQueue' = settlementQueue
             \/ \E job : settlementQueue' = Append(settlementQueue, job)
      PROVE  Covered'
  <2>1. CASE tx.phase = "none"
    BY <1>2, <2>1 DEF Holds, Pays, FeeCovered, Rests
  <2>2. CASE tx.phase # "none"
    <3>1. settlementQueue # <<>>
      BY <2>2 DEF FillsTrue, TxFillTrue, Settling
    <3>2. settlementQueue' # <<>> /\ Head(settlementQueue') = Head(settlementQueue)
      BY <1>2, <3>1, HeadStays
    <3>3. Settling("fill")' = Settling("fill")
      BY <3>1, <3>2 DEF Settling
    <3> QED BY <1>2, <3>2, <3>3 DEF Holds, Pays, FeeCovered, Rests
  <2> QED BY <2>1, <2>2
<1>3. ASSUME LiquidationNothing PROVE Covered'
  BY <1>3 DEF LiquidationNothing, Holds, Pays, FeeCovered, Rests
<1>4. ASSUME SettleAgentCounter \/ SettleAgentFails PROVE Covered'
  <2>1. tx.phase = "none" /\ UNCHANGED tx /\ Settling("counter")
    BY <1>4 DEF SettleAgentCounter, SettleAgentFails, Settling, FillsTrue, TxFillTrue
  <2> DEFINE c == agent.order
             s == SettleCounterparty(ledger, agent.fill, c)
             e == External(s, Side(c), agent.fill.counter[c], CounterCost(agent.fill, c))
  <2>2. agent.fill \in ExecutionData /\ c \in CounterOrders(agent.fill) /\ Rests(c) /\ c \in Orders
    BY <2>1, CounterWaits DEF IInv, TypeOK, AgentOK, AgentDiscipline, FillsTrue, AgentFillTrue,
       CounterOrders
  <2>3. ASSUME CanSettleCounter(ledger, agent.fill, c), ledger' = e
        PROVE  Holds(ledger') /\ (FeeCovered => Pays(ledger'))
    <3>1. s \in Ledger
      BY <1>1, <2>2, CounterLedger
    <3>2. Holds(s) /\ (FeeCovered => Pays(s))
      BY <1>1, <2>2, <2>3, CounterCovered
    <3> HIDE DEF s
    <3>3. e.shares = s.shares /\ e.cash = s.cash
      BY <3>1, OutsideCovered
    <3> QED BY <2>3, <3>2, <3>3 DEF Holds, Pays
  <2>4. Holds(ledger') /\ (FeeCovered => Pays(ledger'))
    BY <1>4, <2>3 DEF SettleAgentCounter, SettleAgentFails
  <2> QED BY <2>1, <2>4 DEF Holds, Pays, FeeCovered, Rests
<1>5. ASSUME SettleCommit PROVE Covered'
  BY <1>5 DEF SettleCommit, Release, NoTx, Holds, Pays, FeeCovered, Rests
<1>6. ASSUME SettleAbort \/ LiquidationFails PROVE Covered'
  BY <1>6 DEF SettleAbort, LiquidationFails, Release, NoTx, Holds, Pays, FeeCovered, Rests
<1>7. ASSUME LiquidationEnd PROVE Covered'
  <2> DEFINE a == Head(settlementQueue).acct
             s == Settle(ledger, a, "sell", tx.fill.filled, tx.fill.cost)
             e == External(s, "sell", tx.fill.external, tx.fill.externalCost)
  <2>1. Settling("liquidate") /\ ~Settling("fill") /\ tx.phase # "none" /\ ledger' = e /\ tx' = NoTx
    BY <1>7 DEF LiquidationEnd, Settling
  <2>2. Balanced(tx.fill, "sell") /\ ledger.shares[a] >= tx.fill.filled
    BY <2>1 DEF FillsTrue, TxFillTrue
  <2>3. a \in Accounts
    <3>1. settlementQueue \in Seq(SettlementJob) /\ settlementQueue # <<>>
      BY <2>1 DEF Settling, IInv, TypeOK, QueuesOK
    <3>2. Head(settlementQueue) \in SettlementJob
      BY <3>1
    <3> QED BY <3>2 DEF SettlementJob
  <2>4. tx.fill.filled \in Nat /\ tx.fill.cost \in Int /\ (FeeCovered => tx.fill.cost >= Fee)
    BY <1>1, <2>2 DEF ExecutionData, Balanced
  <2> HIDE DEF a
  <2>5. s \in Ledger
    BY <1>1, <2>3, <2>4, SettleLedger
  <2>6. Holds(s) /\ (FeeCovered => Pays(s))
    BY <1>1, <2>2, <2>3, <2>4, SettleCovered
  <2> HIDE DEF s
  <2>7. e.shares = s.shares /\ e.cash = s.cash
    BY <2>5, OutsideCovered
  <2>8. Holds(ledger') /\ (FeeCovered => Pays(ledger'))
    BY <2>1, <2>6, <2>7 DEF Holds, Pays
  <2> QED BY <2>1, <2>8 DEF NoTx, Holds, Pays, FeeCovered, Rests
<1>8. ASSUME SettleOwn PROVE Covered'
  <2> DEFINE n == fill.filled
             total == fill.cost
             s == Settle(ledger, Acct(cur), Side(cur), n, total)
             e == External(s, Side(cur), fill.external, fill.externalCost)
             t == Traded(e, cur, n)
  <2>1. /\ cur \in Orders /\ fill \in ExecutionData /\ Balanced(fill, Side(cur))
        /\ Settling("fill")
    BY <1>8, FillWaits DEF SettleOwn, FillsTrue, OwnFillTrue
  <2>2. /\ Acct(cur) \in Accounts /\ Side(cur) \in {"buy", "sell"} /\ n \in Nat /\ total \in Int
        /\ fill.external \in Nat /\ fill.externalCost \in Int
        /\ (FeeCovered => total >= Fee)
    BY <2>1 DEF Acct, Side, ConstantsAssumption, OrderData, ExecutionData, Balanced
  <2>3. /\ Side(cur) = "buy" => ledger.cash[Acct(cur)] >= total + Fee
        /\ Side(cur) = "sell" => ledger.shares[Acct(cur)] >= n
    BY <1>8 DEF SettleOwn, CanSettleOwn, CanSettle
  <2>4. s \in Ledger
    BY <1>1, <2>2, SettleLedger
  <2>5. Holds(s) /\ (FeeCovered => Pays(s))
    <3> HIDE DEF n, total
    <3> QED BY <1>1, <2>2, <2>3, SettleCovered
  <2> HIDE DEF s
  <2>6. e \in Ledger /\ e.shares = s.shares /\ e.cash = s.cash
    <3>1. e \in Ledger
      BY <2>2, <2>4, SettleLedger
    <3>2. e.shares = s.shares /\ e.cash = s.cash
      BY <2>4, OutsideCovered
    <3> QED BY <3>1, <3>2
  <2> HIDE DEF e
  <2>7. t.shares = e.shares /\ t.cash = e.cash
    BY <2>6, OutsideCovered
  <2>8. tx'.ledger = t /\ UNCHANGED <<ledger, settlementQueue>>
    BY <1>8 DEF SettleOwn, e, s
  <2>9. Holds(tx'.ledger) /\ (FeeCovered => Pays(tx'.ledger))
    BY <2>5, <2>6, <2>7, <2>8 DEF Holds, Pays
  <2> QED BY <2>1, <2>8, <2>9 DEF Settling, Holds, Pays, FeeCovered, Rests
<1>9. ASSUME NEW c \in Orders, SettleCounter(c) PROVE Covered'
  <2>1. /\ c \in tx.todo /\ tx.phase # "none" /\ UNCHANGED <<ledger, settlementQueue>>
        /\ Settling("fill") /\ CanSettleCounter(tx.ledger, tx.fill, c)
        /\ tx'.ledger = SettleCounterparty(tx.ledger, tx.fill, c)
    BY <1>9 DEF SettleCounter, CounterOk, IInv, TypeOK, SettlementOK
  <2>2. c \in CounterOrders(tx.fill) /\ Rests(c)
    <3>1. tx.fill = fill /\ pc = "settling"
      BY <2>1, FillWaits DEF FillsTrue, TxFillTrue, Settling
    <3> QED BY <2>1, <3>1 DEF FillsTrue, TxFillTrue, OwnFillTrue, Balanced
  <2>3. Holds(tx'.ledger) /\ (FeeCovered => Pays(tx'.ledger))
    BY <1>1, <2>1, <2>2, CounterCovered
  <2> QED BY <2>1, <2>3 DEF Settling, Holds, Pays, FeeCovered, Rests
<1>10. ASSUME NEW c \in Orders, LiquidationCounter(c) PROVE Covered'
  <2>1. /\ c \in tx.todo /\ tx.phase # "none" /\ UNCHANGED <<settlementQueue>>
        /\ Settling("liquidate") /\ ~Settling("fill") /\ CanSettleCounter(ledger, tx.fill, c)
        /\ ledger' = SettleCounterparty(ledger, tx.fill, c) /\ tx'.fill = tx.fill
    BY <1>10 DEF LiquidationCounter, Settling, IInv, TypeOK, SettlementOK
  <2>2. c \in CounterOrders(tx.fill) /\ Rests(c) /\ Side(c) = "buy"
    <3>1. Balanced(tx.fill, "sell") /\ c \in CounterOrders(tx.fill)
      BY <2>1 DEF FillsTrue, TxFillTrue
    <3> QED BY <3>1 DEF Balanced, Side, ConstantsAssumption, OrderData
  <2>3. /\ Holds(ledger') /\ (FeeCovered => Pays(ledger'))
        /\ \A x \in Accounts : ledger'.shares[x] >= ledger.shares[x]
    BY <1>1, <2>1, <2>2, CounterCovered
  <2>4. Head(settlementQueue).acct \in Accounts
    <3>1. settlementQueue \in Seq(SettlementJob) /\ settlementQueue # <<>>
      BY <2>1 DEF Settling, IInv, TypeOK, QueuesOK
    <3>2. Head(settlementQueue) \in SettlementJob
      BY <3>1
    <3> QED BY <3>2 DEF SettlementJob
  <2> DEFINE a == Head(settlementQueue).acct
  <2>5. ledger'.shares[a] >= tx.fill.filled
    <3>1. ledger.shares[a] >= tx.fill.filled /\ ledger'.shares[a] >= ledger.shares[a]
      BY <2>1, <2>3, <2>4
    <3>2. tx.fill.filled \in Nat /\ ledger.shares[a] \in Int /\ ledger'.shares[a] \in Int
      <4>1. ledger' \in Ledger
        BY <1>1, <2>1, <2>2, CounterLedger
      <4> QED BY <1>1, <2>4, <4>1 DEF ExecutionData, Ledger
    <3> HIDE DEF a
    <3> QED BY <3>1, <3>2
  <2> QED BY <2>1, <2>3, <2>5 DEF Settling, Holds, Pays, FeeCovered, Rests
<1>11. ASSUME LiquidationRead \/ LiquidationSave PROVE Covered'
  <2>1. /\ tx'.fill = tx.fill /\ UNCHANGED <<ledger, settlementQueue>> /\ tx.phase # "none"
        /\ Settling("liquidate") /\ ~Settling("fill")
    <3>1. CASE LiquidationRead
      BY <3>1 DEF LiquidationRead, Settling, IInv, TypeOK, SettlementOK
    <3>2. CASE LiquidationSave
      BY <3>2 DEF LiquidationSave, Settling, IInv, TypeOK, SettlementOK
    <3> QED BY <1>11, <3>1, <3>2
  <2> QED BY <2>1 DEF Settling, Holds, Pays, FeeCovered, Rests
<1>13. ASSUME NEW c \in Orders, LiquidationRefused(c) PROVE Covered'
  <2>1. /\ tx'.fill = tx.fill /\ UNCHANGED <<ledger, settlementQueue>> /\ tx.phase # "none"
        /\ Settling("liquidate") /\ ~Settling("fill")
    BY <1>13 DEF LiquidationRefused, Settling, IInv, TypeOK, SettlementOK
  <2> QED BY <2>1 DEF Settling, Holds, Pays, FeeCovered, Rests
<1>12. ASSUME NEW a \in Accounts, LiquidationSell(a) PROVE Covered'
  <2>1. PICK take \in LiquidationPlans(a) :
          tx' = [NoTx EXCEPT !.phase = "counters",
                     !.todo = CounterOrders(Execution(take)), !.fill = Execution(take)]
    BY <1>12 DEF LiquidationSell
  <2>2. take \in Plans(a, "sell", ledger.shares[a], 0) /\ ledger.shares[a] \in Int
    BY <1>1, <2>1 DEF LiquidationPlans, Ledger
  <2>3. Filled(take) \in 1..ledger.shares[a] /\ tx'.fill.filled = Filled(take)
    BY <2>1, <2>2 DEF Plans, PlansOver, IsPlan, NoTx, Execution
  <2>4. /\ UNCHANGED <<ledger, settlementQueue>> /\ ~Settling("fill")
        /\ a = Head(settlementQueue).acct
    BY <1>12 DEF LiquidationSell, Settling
  <2> QED BY <2>2, <2>3, <2>4 DEF Settling, Holds, Pays, FeeCovered, Rests
<1> QED BY <1>2, <1>3, <1>4, <1>5, <1>6, <1>7, <1>8, <1>9, <1>10, <1>11, <1>12, <1>13,
           SettlementMoves

(* The first ledger is covered. *)
LEMMA InitCovered ==
  ASSUME ConstantsAssumption, Init
  PROVE  Covered
BY DEF Init, NoTx, Covered, HoldingsCovered, CashCovered, Holds, Pays, ConstantsAssumption

(* No account ever sells a share it does not hold, forced sales, AI trades and
   failing writes included (validateOrder, settleFillInner, forceLiquidate). *)
THEOREM NobodyShort == Spec => []Holds(ledger)
<1>1. Init => Covered
  BY InitCovered, ConstantsAssumption
<1>2. IInv /\ (BooksTrue /\ FillsTrue) /\ Covered /\ [Next]_vars => Covered'
  BY ConstantsAssumption, CoveredStep
<1>3. Covered => Holds(ledger)
  BY DEF Covered, HoldingsCovered
<1> QED BY <1>1, <1>2, <1>3, Inductive, Booked, PTL DEF Spec

(* No account ever spends cash it does not have, if no fee exceeds the price of a
   share (settleFillInner). *)
THEOREM FeesNeverOverdraw == FeeCovered => (Spec => []Solvent)
<1>0. SUFFICES ASSUME FeeCovered PROVE Spec => []Solvent
  OBVIOUS
<1>1. Init => Covered
  BY InitCovered, ConstantsAssumption
<1>2. IInv /\ (BooksTrue /\ FillsTrue) /\ Covered /\ [Next]_vars => Covered'
  BY ConstantsAssumption, CoveredStep
<1>3. Covered => Solvent
  BY <1>0 DEF Covered, HoldingsCovered, CashCovered, Solvent
<1> QED BY <1>1, <1>2, <1>3, Inductive, Booked, PTL DEF Spec

-----------------------------------------------------------------------------
(* Frames, rows and the orders that are known. *)

(* Which steps move the running order handler, and how. *)
LEMMA FrameMoves ==
  ASSUME [Next]_vars
  PROVE  \/ UNCHANGED frame
         \/ Return
         \/ /\ SubmitFailed \/ CancelSave
            /\ pc \in {"failed", "cancelling"} /\ pc' = "unbook"
            /\ UNCHANGED <<cur, own, fill, todo, stale>>
         \/ /\ Unbook \/ SweepSettled \/ SweepFailed
               \/ \E o \in Orders : SweepSkip(o) \/ SweepUnfilled(o)
            /\ pc' = "sweeping" /\ todo' \subseteq todo /\ stale' = stale
         \/ /\ SweepFailed /\ pc = "failed" /\ pc' = "unbook"
            /\ UNCHANGED <<cur, own, fill, todo, stale>>
         \/ SweepLoad \/ CancelRead \/ PlaceAndCross \/ SettleCommit \/ SettleAbort
         \/ \E o \in Orders : \/ SweepReject(o) \/ SweepExecute(o) \/ SubmitImmediate(o)
                              \/ SubmitSave(o) /\ Rests(o)
<1> USE DEF frame
<1>1. CASE UNCHANGED vars
  BY <1>1 DEF vars
<1>2. CASE Environment
  BY <1>2 DEF Environment, PlaceOrder, RequestCancel, RequestSweep, MarginCall, Tick
<1>3. CASE OrderHandler
  <2>1. ASSUME \/ SubmitRefused \/ PlaceAndRest \/ SubmitSettled \/ CancelMiss \/ SweepEnd
               \/ \E o \in Orders : SubmitUnfilled(o) \/ (SubmitSave(o) /\ ~Rests(o))
        PROVE  Return
    BY <2>1 DEF SubmitRefused, PlaceAndRest, SubmitSettled, CancelMiss, SweepEnd,
       SubmitUnfilled, SubmitSave
  <2>2. ASSUME SubmitFailed
        PROVE  Return \/ (/\ pc = "failed" /\ pc' = "unbook"
                          /\ UNCHANGED <<cur, own, fill, todo, stale>>)
    BY <2>2 DEF SubmitFailed
  <2>3. ASSUME CancelSave
        PROVE  pc = "cancelling" /\ pc' = "unbook" /\ UNCHANGED <<cur, own, fill, todo, stale>>
    BY <2>3 DEF CancelSave
  <2>4. ASSUME Unbook
        PROVE  Return \/ (pc' = "sweeping" /\ todo' \subseteq todo /\ stale' = stale)
    BY <2>4 DEF Unbook
  <2>5. ASSUME SweepSettled \/ \E o \in Orders : SweepSkip(o) \/ SweepUnfilled(o)
        PROVE  pc' = "sweeping" /\ todo' \subseteq todo /\ stale' = stale
    BY <2>5 DEF SweepSettled, SweepSkip, SweepUnfilled
  <2>6. ASSUME SweepFailed
        PROVE  \/ pc' = "sweeping" /\ todo' \subseteq todo /\ stale' = stale
               \/ pc = "failed" /\ pc' = "unbook" /\ UNCHANGED <<cur, own, fill, todo, stale>>
    BY <2>6 DEF SweepFailed
  <2> QED BY <1>3, <2>1, <2>2, <2>3, <2>4, <2>5, <2>6 DEF OrderHandler
<1>4. CASE Settlement
  BY <1>4 DEF Settlement, SettleOwn, SettleCounter,
     LiquidationEnd, LiquidationNothing, LiquidationSell, LiquidationRefused,
     LiquidationCounter, LiquidationRead, LiquidationSave, LiquidationFails,
     SettleAgentCounter, SettleAgentFails
<1>5. CASE Agents
  BY <1>5 DEF Agents, AgentTrade, AgentRestore, AgentCounter, AgentRead, AgentSave, AgentDone
<1> QED BY <1>1, <1>2, <1>3, <1>4, <1>5 DEF Next

Retried(o) ==
  [Fired(o) EXCEPT !.retries = @ + 1,
                   !.status = IF stale[o].retries + 1 >= MaxRetries THEN "cancelled" ELSE @]

(* Which steps write the row of an order, and what. *)
LEMMA OrderWrites ==
  ASSUME IInv, [Next]_vars, NEW o \in Orders
  PROVE  \/ orders'[o] = orders[o]
         \/ SubmitSave(o) /\ orders'[o] = Pending
         \/ /\ SubmitFailed \/ CancelSave \/ SweepFailed
            /\ o = cur /\ orders'[o] = [own EXCEPT !.status = "cancelled"]
         \/ SweepFailed /\ o = cur /\ Type(o) \in Stops /\ orders'[o] = [own EXCEPT !.retries = @ + 1]
         \/ SweepSettled /\ o = cur /\ orders'[o] = own
         \/ SweepReject(o) /\ orders'[o] = [Fired(o) EXCEPT !.status = "cancelled"]
         \/ SweepUnfilled(o) /\ Type(o) \in Stops /\ orders'[o] = Retried(o)
         \/ /\ SettleCommit
            /\ \/ o = cur /\ orders'[o] = own' /\ own' = Progress(cur, own, fill.filled)
               \/ o # cur /\ o \in CounterOrders(tx.fill) /\ orders'[o] = tx.orders[o]
         \/ /\ LiquidationSave /\ o = tx.saving
            /\ orders'[o] = Recorded(o, tx.orders[o], tx.fill)
         \/ AgentSave /\ o = agent.order /\ orders'[o] = Recorded(o, agent.row, agent.fill)
<1>0. orders \in [Orders -> OrderRow] /\ orders = [p \in Orders |-> orders[p]]
  BY DEF IInv, TypeOK, TablesOK
<1>1. CASE UNCHANGED vars
  BY <1>1 DEF vars
<1>2. CASE Environment
  BY <1>2 DEF Environment, PlaceOrder, RequestCancel, RequestSweep, MarginCall, Tick
<1>3. CASE OrderHandler
  <2>1. ASSUME \/ SubmitRefused \/ PlaceAndRest \/ PlaceAndCross \/ SubmitSettled \/ CancelMiss
               \/ CancelRead \/ SweepEnd \/ SweepLoad \/ Unbook
               \/ \E p \in Orders : SubmitUnfilled(p) \/ SubmitImmediate(p) \/ SweepSkip(p)
                                    \/ SweepExecute(p)
        PROVE  UNCHANGED orders
    BY <2>1 DEF SubmitRefused, PlaceAndRest, PlaceAndCross, SubmitSettled, CancelMiss,
       CancelRead, SweepEnd, SweepLoad, Unbook, SubmitUnfilled, SubmitImmediate, SweepSkip,
       SweepExecute
  <2>2. ASSUME NEW p \in Orders, SubmitSave(p)
        PROVE  orders'[o] = orders[o] \/ (o = p /\ orders'[o] = Pending)
    BY <1>0, <2>2 DEF SubmitSave
  <2>3. ASSUME SubmitFailed \/ CancelSave
       
        PROVE  orders'[o] = orders[o] \/ (o = cur /\ orders'[o] = [own EXCEPT !.status = "cancelled"])
    BY <1>0, <2>3 DEF SubmitFailed, CancelSave
  <2>4. ASSUME SweepFailed
        PROVE  \/ orders'[o] = orders[o]
               \/ o = cur /\ orders'[o] = [own EXCEPT !.status = "cancelled"]
               \/ o = cur /\ Type(o) \in Stops /\ orders'[o] = [own EXCEPT !.retries = @ + 1]
    BY <1>0, <2>4 DEF SweepFailed
  <2>5. ASSUME SweepSettled PROVE orders'[o] = orders[o] \/ (o = cur /\ orders'[o] = own)
    BY <1>0, <2>5 DEF SweepSettled
  <2>6. ASSUME NEW p \in Orders, SweepReject(p)
        PROVE  \/ orders'[o] = orders[o]
               \/ o = p /\ orders'[o] = [Fired(o) EXCEPT !.status = "cancelled"]
    BY <1>0, <2>6 DEF SweepReject
  <2>7. ASSUME NEW p \in Orders, SweepUnfilled(p)
        PROVE  \/ orders'[o] = orders[o]
               \/ o = p /\ Type(o) \in Stops /\ orders'[o] = Retried(o)
    <3>1. orders' = orders \/ (Type(p) \in Stops /\ orders' = [orders EXCEPT ![p] = Retried(p)])
      BY <2>7 DEF SweepUnfilled, Retried
    <3> QED BY <1>0, <3>1
  <2> QED BY <1>3, <2>1, <2>2, <2>3, <2>4, <2>5, <2>6, <2>7 DEF OrderHandler
<1>4. CASE Settlement
  <2>1. ASSUME \/ SettleOwn \/ SettleAbort \/ LiquidationEnd \/ LiquidationNothing
               \/ LiquidationRead \/ LiquidationFails \/ SettleAgentCounter \/ SettleAgentFails
               \/ \E c \in Orders : SettleCounter(c) \/ LiquidationCounter(c) \/ LiquidationRefused(c)
               \/ \E a \in Accounts : LiquidationSell(a)
        PROVE  UNCHANGED orders
    BY <2>1 DEF SettleOwn, SettleAbort, LiquidationEnd, LiquidationNothing, LiquidationRead,
       LiquidationFails, SettleAgentCounter, SettleAgentFails, SettleCounter,
       LiquidationCounter, LiquidationRefused, LiquidationSell
  <2>2. ASSUME SettleCommit
        PROVE  \/ orders'[o] = orders[o]
               \/ o = cur /\ orders'[o] = own' /\ own' = Progress(cur, own, fill.filled)
               \/ o # cur /\ o \in CounterOrders(tx.fill) /\ orders'[o] = tx.orders[o]
    BY <2>2 DEF SettleCommit
  <2>3. ASSUME LiquidationSave
        PROVE  \/ orders'[o] = orders[o]
               \/ o = tx.saving /\ orders'[o] = Recorded(o, tx.orders[o], tx.fill)
    BY <1>0, <2>3 DEF LiquidationSave
  <2> QED BY <1>4, <2>1, <2>2, <2>3 DEF Settlement
<1>5. CASE Agents
  <2>1. ASSUME AgentSave
        PROVE  \/ orders'[o] = orders[o]
               \/ o = agent.order /\ orders'[o] = Recorded(o, agent.row, agent.fill)
    BY <1>0, <2>1 DEF AgentSave
  <2> QED BY <1>5, <2>1 DEF Agents, AgentTrade, AgentRestore, AgentCounter, AgentRead, AgentDone
<1> QED BY <1>1, <1>2, <1>3, <1>4, <1>5 DEF Next

(* The status each of these rows has. *)
LEMMA RowStatus ==
  ASSUME NEW row \in OrderRow, NEW o
  PROVE  /\ [row EXCEPT !.status = "cancelled"].status = "cancelled"
         /\ [row EXCEPT !.retries = @ + 1].status = row.status
         /\ \A n : Progress(o, row, n).status \in {"filled", "partial", "pending"}
         /\ \A f : Recorded(o, row, f).status \in {"filled", row.status}
BY DEF OrderRow, Progress, Recorded

(* The rows the sweep writes are the rows of orders it has read. *)
LEMMA StaleStatus ==
  ASSUME IInv, NEW o \in Orders
  PROVE  /\ Fired(o).status = stale[o].status
         /\ [Fired(o) EXCEPT !.status = "cancelled"].status = "cancelled"
         /\ Retried(o).status \in {"cancelled", stale[o].status}
<1>1. Fired(o) \in OrderRow /\ stale[o] \in OrderRow
  BY FiredRow
<1>2. Fired(o).status = stale[o].status
  BY <1>1 DEF Fired, OrderRow
<1>3. Retried(o).status \in {"cancelled", Fired(o).status}
  BY <1>1 DEF Retried, OrderRow
<1>4. [Fired(o) EXCEPT !.status = "cancelled"].status = "cancelled"
  BY <1>1, RowStatus
<1> QED BY <1>2, <1>3, <1>4

(* A row that is written is the row of a live order, and stays known. *)
LEMMA StaysKnown ==
  ASSUME ConstantsAssumption, IInv, FillsTrue, Knowledge, [Next]_vars, NEW o \in Orders
  PROVE  /\ Known(o) => Known(o)'
         /\ Known(o)' => Live(o) \/ SubmitSave(o)
<1> USE DEF Knowledge, Known
<1>1. own \in OrderRow /\ tx.orders[o] \in OrderRow /\ agent.row \in OrderRow
      /\ orders \in [Orders -> OrderRow]
  BY DEF IInv, TypeOK, FrameOK, SettlementOK, AgentOK, TablesOK
<1>2. CASE orders'[o] = orders[o]
  BY <1>2 DEF Live
<1>3. CASE SubmitSave(o) /\ orders'[o] = Pending
  BY <1>3 DEF Pending, NewRow
<1>4. CASE /\ SubmitFailed \/ CancelSave \/ SweepFailed
           /\ o = cur /\ orders'[o] = [own EXCEPT !.status = "cancelled"]
  <2>1. Handling
    BY <1>4 DEF SubmitFailed, CancelSave, SweepFailed, Handling
  <2> QED BY <1>1, <1>4, <2>1, RowStatus DEF Live
<1>5. CASE SweepFailed /\ o = cur /\ orders'[o] = [own EXCEPT !.retries = @ + 1]
  <2>1. Handling
    BY <1>5 DEF SweepFailed, Handling
  <2> QED BY <1>1, <1>5, <2>1, RowStatus DEF Live, CopiesKnown
<1>6. CASE SweepSettled /\ o = cur /\ orders'[o] = own
  <2>1. Handling
    BY <1>6 DEF SweepSettled, Handling
  <2> QED BY <1>1, <1>6, <2>1 DEF Live, CopiesKnown
<1>7. CASE SweepReject(o) /\ orders'[o] = [Fired(o) EXCEPT !.status = "cancelled"]
  <2>1. o \in todo
    BY <1>7 DEF SweepReject
  <2> QED BY <1>7, <2>1, StaleStatus DEF Live, TradesKnown
<1>8. CASE SweepUnfilled(o) /\ orders'[o] = Retried(o)
  <2>1. o \in todo
    BY <1>8 DEF SweepUnfilled
  <2> QED BY <1>8, <2>1, StaleStatus DEF Live, TradesKnown, CopiesKnown
<1>9. CASE SettleCommit /\ o = cur /\ orders'[o] = own' /\ own' = Progress(cur, own, fill.filled)
  <2>1. Handling
    BY <1>9, FillWaits DEF SettleCommit, Handling
  <2> QED BY <1>1, <1>9, <2>1, RowStatus DEF Live
<1>10. CASE SettleCommit /\ o \in CounterOrders(tx.fill) /\ orders'[o] = tx.orders[o]
  BY <1>10 DEF SettleCommit, Live, TradesKnown, CopiesKnown
<1>11. CASE LiquidationSave /\ o = tx.saving /\ orders'[o] = Recorded(o, tx.orders[o], tx.fill)
  <2>1. tx.phase = "saving" /\ o \in CounterOrders(tx.fill)
    BY <1>11 DEF LiquidationSave, FillsTrue, TxFillTrue
  <2> QED BY <1>1, <1>11, <2>1, RowStatus DEF Live, TradesKnown, CopiesKnown
<1>12. CASE AgentSave /\ o = agent.order /\ orders'[o] = Recorded(o, agent.row, agent.fill)
  <2>1. agent.phase = "saving" /\ o \in CounterOrders(agent.fill)
    BY <1>12 DEF AgentSave, FillsTrue, AgentFillTrue
  <2>2. orders[o].status # "absent" /\ agent.row.status # "absent"
    BY <2>1 DEF TradesKnown, CopiesKnown
  <2>3. Recorded(o, agent.row, agent.fill).status \in {"filled", agent.row.status}
    BY <1>1, RowStatus
  <2> QED BY <1>12, <2>2, <2>3 DEF Live
<1> QED BY <1>2, <1>3, <1>4, <1>5, <1>6, <1>7, <1>8, <1>9, <1>10, <1>11, <1>12, OrderWrites

(* An order becomes live only when submitOrder has accepted it. *)
LEMMA NewLive ==
  ASSUME ConstantsAssumption, IInv, FillsTrue, Knowledge, [Next]_vars, NEW o \in Orders, Live(o)'
  PROVE  Live(o) \/ SubmitSave(o) \/ SubmitImmediate(o)
<1> USE DEF Knowledge
<1>2. CASE Known(o)'
  BY <1>2, StaysKnown
<1>3. CASE Handling' /\ cur' = o
  <2>1. CASE UNCHANGED frame
    BY <1>3, <2>1 DEF frame, Handling, Live
  <2>2. CASE Return \/ pc' \in {"sweeping"} \/ SweepLoad
    BY <1>3, <2>2 DEF Return, SweepLoad, Handling
  <2>3. CASE UNCHANGED cur /\ pc \in {"failed", "cancelling", "placing", "settling"}
    BY <1>3, <2>3 DEF Handling, Live
  <2>4. CASE CancelRead
    BY <1>3, <2>4 DEF CancelRead, Live, Known
  <2>5. CASE PlaceAndCross
    BY <2>3, <2>5 DEF PlaceAndCross
  <2>6. CASE SettleCommit \/ SettleAbort
    BY <2>3, <2>6, FillWaits DEF SettleCommit, SettleAbort
  <2>7. ASSUME NEW p \in Orders, SweepReject(p) \/ SweepExecute(p) PROVE Live(o)
    <3>1. p = o /\ p \in todo
      BY <1>3, <2>7 DEF SweepReject, SweepExecute
    <3> QED BY <3>1 DEF TradesKnown, Live
  <2>8. ASSUME NEW p \in Orders, SubmitImmediate(p) \/ (SubmitSave(p) /\ Rests(p))
        PROVE  SubmitSave(o) \/ SubmitImmediate(o)
    <3>1. p = o
      BY <1>3, <2>8 DEF SubmitImmediate, SubmitSave
    <3> QED BY <2>8, <3>1
  <2>9. \/ UNCHANGED frame \/ Return \/ pc' = "sweeping" \/ SweepLoad \/ CancelRead
        \/ PlaceAndCross \/ SettleCommit \/ SettleAbort
        \/ UNCHANGED cur /\ pc \in {"failed", "cancelling"}
        \/ \E p \in Orders : SweepReject(p) \/ SweepExecute(p)
        \/ \E p \in Orders : SubmitImmediate(p) \/ (SubmitSave(p) /\ Rests(p))
    BY FrameMoves
  <2>10. ASSUME \E p \in Orders : SweepReject(p) \/ SweepExecute(p) PROVE Live(o)
    BY <2>7, <2>10
  <2>11. ASSUME \E p \in Orders : SubmitImmediate(p) \/ (SubmitSave(p) /\ Rests(p))
         PROVE  SubmitSave(o) \/ SubmitImmediate(o)
    BY <2>8, <2>11
  <2> QED BY <2>1, <2>2, <2>3, <2>4, <2>5, <2>6, <2>9, <2>10, <2>11
<1> QED BY <1>2, <1>3 DEF Live, Known, Handling

(* Two live orders never share a client key. *)
LEMMA KeysApartStep ==
  ASSUME ConstantsAssumption, IInv, FillsTrue, Knowledge, KeysApart, [Next]_vars
  PROVE  KeysApart'
<1>1. SUFFICES ASSUME NEW o \in Keyed, NEW p \in Keyed, SameKey(o, p), Live(o)', Live(p)'
               PROVE  FALSE
  BY DEF KeysApart, Keyed, SameKey, Acct
<1>2. o \in Orders /\ p \in Orders /\ o # p /\ SameKey(p, o)
      /\ Detail[o].key # None /\ Detail[p].key # None
  BY <1>1 DEF Keyed, SameKey
<1>3. ASSUME NEW x \in Orders, NEW y \in Orders, SameKey(x, y), Detail[x].key # None,
             x = Job.oid, Accepted(x), pc = "idle", Live(y)'
      PROVE  FALSE
  <2>1. y # Job.oid /\ Live(y)
    BY <1>3, NewLive DEF SameKey, SubmitSave, SubmitImmediate
  <2>2. Known(y)
    BY <1>3, <2>1 DEF Live, Handling
  <2>3. Duplicate(x)
    BY <1>3, <2>2 DEF Duplicate, SameKey, Known
  <2> QED BY <1>3, <2>3 DEF Accepted
<1>4. ~(Live(o) /\ Live(p))
  BY <1>1 DEF KeysApart
<1>5. \/ o = Job.oid /\ Accepted(o) /\ pc = "idle"
      \/ p = Job.oid /\ Accepted(p) /\ pc = "idle"
  BY <1>1, <1>2, <1>4, NewLive DEF SubmitSave, SubmitImmediate
<1> QED BY <1>1, <1>2, <1>3, <1>5

-----------------------------------------------------------------------------
(* Where rows and executions come from. *)

(* Where the rows of an edited book come from. *)
LEMMA RowOrigins ==
  ASSUME NEW b \in SUBSET Row
  PROVE  /\ \A o, n, s : \A r \in Resting(o, n, s) : r.oid = o
         /\ \A o : RemoveAll(b, o) \subseteq b
         /\ \A o, n : \A r \in RemoveQty(b, o, n) : \E s \in b : r.oid = s.oid
         /\ \A mid, s : \A r \in Refresh(b, mid, s) : r \in b \/ r.oid = Synthetic
<1>1. \A o, n, s : \A r \in Resting(o, n, s) : r.oid = o
  BY DEF Resting, Positive
<1>2. \A o : RemoveAll(b, o) \subseteq b
  BY DEF RemoveAll
<1>3. ASSUME NEW o, NEW n, NEW r \in RemoveQty(b, o, n)
      PROVE  \E s \in b : r.oid = s.oid
  <2> DEFINE Behind(s) == SumFunctionOnSet([t \in b |-> t.qty],
                                         {t \in b : t.oid = o /\ t.seq > s.seq})
             Cut(s) == IF s.oid # o \/ n <= Behind(s) THEN 0
                       ELSE IF n - Behind(s) < s.qty THEN n - Behind(s) ELSE s.qty
  <2>1. RemoveQty(b, o, n) = Positive({[s EXCEPT !.qty = s.qty - Cut(s)] : s \in b})
    BY DEF RemoveQty
  <2> HIDE DEF Cut
  <2>2. PICK s \in b : r = [s EXCEPT !.qty = s.qty - Cut(s)]
    BY <2>1 DEF Positive
  <2> QED BY <2>2 DEF Row
<1>4. \A mid, s : \A r \in Refresh(b, mid, s) : r \in b \/ r.oid = Synthetic
  BY DEF Refresh, RemoveAll, Positive
<1> QED BY <1>1, <1>2, <1>3, <1>4

(* What an execution leaves was in the book. *)
LEMMA ConsumeOrigins ==
  ASSUME BookOK, NEW take, NEW r \in Consume(take)
  PROVE  \E s \in book : r.oid = s.oid
BY DEF Consume, Positive, BookOK, Row

(* An execution takes from orders that had rows in the book. *)
LEMMA CounterRows ==
  ASSUME BookOK, NEW rows \in SUBSET book, NEW qty \in Nat, NEW take \in PlansOver(rows, qty),
         NEW c \in CounterOrders(Execution(take))
  PROVE  \E r \in rows : r.oid = c
<1>1. DOMAIN take = rows
  BY PlanOverRows
<1>2. SumFunctionOnSet(take, {r \in rows : r.oid = c}) > 0
  BY <1>1 DEF CounterOrders, Execution, TakenFrom, RowsOf
<1>3. SumFunctionOnSet(take, {}) = 0
  BY SumEmpty
<1>4. {r \in rows : r.oid = c} # {}
  <2> SUFFICES ASSUME {r \in rows : r.oid = c} = {} PROVE FALSE
    OBVIOUS
  <2> DEFINE R == {r \in rows : r.oid = c}
  <2>1. R = {} /\ SumFunctionOnSet(take, R) > 0
    BY <1>2
  <2> HIDE DEF R
  <2> QED BY <1>3, <2>1
<1> QED BY <1>4

(* The counterparties of a plan had rows it could execute. *)
LEMMA PlanCounters ==
  ASSUME BookOK, NEW acct, NEW side, NEW qty \in Nat, NEW limit,
         NEW take \in Plans(acct, side, qty, limit), NEW c \in CounterOrders(Execution(take))
  PROVE  \E r \in Executable(acct, side, limit) : r.oid = c
<1>1. Executable(acct, side, limit) \in SUBSET book
  BY DEF Executable
<1>2. take \in PlansOver(Executable(acct, side, limit), qty)
  BY DEF Plans
<1> QED BY <1>1, <1>2, CounterRows

(* Every row of a book is a quote, was in a book before, or is put there by the
   handler of its order or after a refused settlement. *)
LEMMA RowsArrive ==
  ASSUME ConstantsAssumption, IInv, [Next]_vars, NEW o \in Orders, InSomeBook(o)'
  PROVE  \/ InSomeBook(o)
         \/ pc = "placing" /\ o = cur /\ (PlaceAndCross \/ PlaceAndRest)
         \/ LiquidationRefused(o)
         \/ AgentRestore /\ o = agent.order
<1> DEFINE rows == book \cup onCommit \cup onRollback
<1>0. /\ o # Synthetic /\ BookOK
      /\ \A b \in Books : b \in SUBSET Row /\ b \subseteq rows
  BY DEF ConstantsAssumption, Books, IInv, TypeOK, BookOK
<1>1. PICK r \in book' \cup onCommit' \cup onRollback' : r.oid = o
  BY DEF InSomeBook
<1>2. \A b \in Books : \A s \in b : s.oid = o => InSomeBook(o)
  BY <1>0 DEF InSomeBook
<1>3. book \in Books /\ onCommit \in Books /\ onRollback \in Books
  BY DEF Books
<1>4. ASSUME NEW changed, Change(changed)
      PROVE  InSomeBook(o) \/ \E b \in Books : r \in changed[b]
  BY <1>1, <1>2, <1>3, <1>4 DEF Change
<1>5. ASSUME NEW c, NEW n,
             Change([b \in Books |-> b \cup Resting(c, n, quoteSequence)])
      PROVE  InSomeBook(o) \/ c = o
  <2> DEFINE changed == [b \in Books |-> b \cup Resting(c, n, quoteSequence)]
  <2>1. \A b \in Books : changed[b] = b \cup Resting(c, n, quoteSequence)
    OBVIOUS
  <2>2. Change(changed)
    BY <1>5
  <2> HIDE DEF changed
  <2>3. InSomeBook(o) \/ \E b \in Books : r \in changed[b]
    BY <1>4, <2>2
  <2>4. \A s \in Resting(c, n, quoteSequence) : s.oid = c
    BY RowOrigins
  <2> QED BY <1>1, <1>2, <2>1, <2>3, <2>4
<1>6. ASSUME NEW take, NEW extra, NEW c \in Orders, Reserve(c, take, extra)
      PROVE  InSomeBook(o) \/ r \in extra
  <2>1. r \in book \/ r \in extra \/ r \in Consume(take)
    BY <1>1, <1>6 DEF Reserve
  <2>2. r \in Consume(take) => InSomeBook(o)
    BY <1>0, <1>1, <1>2, <1>3, ConsumeOrigins
  <2> QED BY <1>1, <1>2, <1>3, <2>1, <2>2
<1>7. ASSUME NEW take, book' = Consume(take), UNCHANGED <<onCommit, onRollback>>
      PROVE  InSomeBook(o)
  BY <1>0, <1>1, <1>2, <1>3, <1>7, ConsumeOrigins
<1>8. CASE UNCHANGED <<book, onCommit, onRollback>>
  BY <1>1, <1>2, <1>3, <1>8
<1>9. CASE Tick
  <2> DEFINE changed == [b \in Books |-> Refresh(b, mark', quoteSequence)]
  <2>1. \A b \in Books : changed[b] = Refresh(b, mark', quoteSequence)
    OBVIOUS
  <2>2. Change(changed)
    BY <1>9 DEF Tick
  <2> HIDE DEF changed
  <2>3. InSomeBook(o) \/ \E b \in Books : r \in changed[b]
    BY <1>4, <2>2
  <2>4. \A b \in Books : \A s \in Refresh(b, mark', quoteSequence) : s \in b \/ s.oid = Synthetic
    BY <1>0, RowOrigins
  <2> QED BY <1>0, <1>1, <1>2, <2>1, <2>3, <2>4
<1>10. CASE PlaceAndCross
  <2>1. cur \in Orders /\ pc = "placing"
    BY <1>10 DEF PlaceAndCross, IInv, LocalsInPlace
  <2>2. PICK take : Reserve(cur, take, Resting(cur, Detail[cur].qty, quoteSequence))
    BY <1>10 DEF PlaceAndCross
  <2>3. \A s \in Resting(cur, Detail[cur].qty, quoteSequence) : s.oid = cur
    BY RowOrigins
  <2> QED BY <1>1, <1>6, <1>10, <2>1, <2>2, <2>3
<1>11. CASE PlaceAndRest
  BY <1>5, <1>11 DEF PlaceAndRest
<1>12. CASE Unbook
  <2> DEFINE changed == [b \in Books |-> RemoveAll(b, cur)]
  <2>1. \A b \in Books : changed[b] = RemoveAll(b, cur)
    OBVIOUS
  <2>2. Change(changed)
    BY <1>12 DEF Unbook
  <2> HIDE DEF changed
  <2>3. InSomeBook(o) \/ \E b \in Books : r \in changed[b]
    BY <1>4, <2>2
  <2>4. \A b \in Books : RemoveAll(b, cur) \subseteq b
    BY <1>0, RowOrigins
  <2> QED BY <1>1, <1>2, <2>1, <2>3, <2>4
<1>13. CASE SettleCommit
  <2>1. r \in OwnTraded(onCommit)
    BY <1>1, <1>13 DEF SettleCommit, Release
  <2>2. \E s \in onCommit : r.oid = s.oid
    <3>1. onCommit \in SUBSET Row
      BY <1>0, <1>3
    <3>2. RemoveAll(onCommit, cur) \subseteq onCommit
      BY <3>1, RowOrigins
    <3>3. \A p, n : \A s \in RemoveQty(onCommit, p, n) : \E t \in onCommit : s.oid = t.oid
      BY <3>1, RowOrigins, Zenon
    <3> QED BY <2>1, <3>2, <3>3 DEF OwnTraded
  <2> QED BY <1>1, <1>2, <1>3, <2>2
<1>14. CASE SettleAbort
  BY <1>1, <1>2, <1>3, <1>14 DEF SettleAbort, Release
<1>15. CASE AgentRestore
  <2> DEFINE c == agent.order
             n == agent.fill.counter[c]
  <2>0. Change([b \in Books |-> b \cup Resting(c, n, quoteSequence)])
    BY <1>15 DEF AgentRestore
  <2> HIDE DEF c, n
  <2>1. InSomeBook(o) \/ c = o
    BY <1>5, <2>0
  <2> QED BY <1>15, <2>1 DEF c
<1>16. ASSUME NEW c \in Orders, SubmitImmediate(c) \/ SweepExecute(c) PROVE InSomeBook(o)
  <2>1. PICK take : Reserve(c, take, {})
    BY <1>16 DEF SubmitImmediate, SweepExecute
  <2> QED BY <1>6, <2>1
<1>17. ASSUME NEW c \in Orders, LiquidationRefused(c)
       PROVE  InSomeBook(o) \/ LiquidationRefused(o)
  <2>1. InSomeBook(o) \/ c = o
    BY <1>5, <1>17 DEF LiquidationRefused
  <2> QED BY <1>17, <2>1
<1>18. ASSUME NEW a \in Accounts, LiquidationSell(a) PROVE InSomeBook(o)
  BY <1>7, <1>18 DEF LiquidationSell
<1>19. ASSUME NEW x \in AgentOrders, AgentTrade(x) PROVE InSomeBook(o)
  BY <1>7, <1>19 DEF AgentTrade
<1> QED BY <1>8, <1>9, <1>10, <1>11, <1>12, <1>13, <1>14, <1>15, <1>16, <1>17, <1>18, <1>19,
           BookMoves

(* Whoever gives shares to a new execution had a row in the book. *)
LEMMA NewFills ==
  ASSUME ConstantsAssumption, IInv, [Next]_vars, NEW c \in Orders
  PROVE  /\ pc' = "settling" /\ c \in CounterOrders(fill)' =>
              \/ pc = "settling" /\ fill' = fill /\ cur' = cur
              \/ \E r \in book : r.oid = c
         /\ tx'.phase # "none" /\ c \in CounterOrders(tx'.fill) =>
              \/ tx.phase # "none" /\ tx'.fill = tx.fill
              \/ SettleOwn /\ tx'.fill = fill
              \/ \E r \in book : r.oid = c
         /\ agent'.phase # "idle" /\ c \in CounterOrders(agent'.fill) =>
              \/ agent.phase # "idle" /\ agent'.fill = agent.fill
              \/ \E r \in book : r.oid = c
<1>0. BookOK
  BY DEF IInv, TypeOK
<1>1. ASSUME pc' = "settling", c \in CounterOrders(fill)'
      PROVE  \/ pc = "settling" /\ fill' = fill /\ cur' = cur
             \/ \E r \in book : r.oid = c
  <2> DEFINE P == \E r \in book : r.oid = c
  <2>1. ASSUME NEW acct, NEW side, NEW qty \in Nat, NEW limit,
               NEW take \in Plans(acct, side, qty, limit), fill' = Execution(take)
        PROVE  P
    <3>1. c \in CounterOrders(Execution(take))
      BY <1>1, <2>1 DEF CounterOrders
    <3>2. \E r \in Executable(acct, side, limit) : r.oid = c
      BY <1>0, <3>1, PlanCounters
    <3> QED BY <3>2 DEF Executable
  <2> HIDE DEF P
  <2>2. CASE PlaceAndCross
    <3>1. PICK take \in Plans(Acct(cur), Side(cur), Detail[cur].qty, Detail[cur].price) :
            fill' = Execution(take)
      BY <2>2 DEF PlaceAndCross, Reserve
    <3>2. Detail[cur].qty \in Nat
      BY <2>2 DEF PlaceAndCross, IInv, LocalsInPlace, ConstantsAssumption, OrderData
    <3> QED BY <2>1, <3>1, <3>2 DEF P
  <2>3. ASSUME NEW o \in Orders, SubmitImmediate(o) PROVE P
    <3>1. PICK take \in Plans(Acct(o), Side(o), Detail[o].qty, Limit(o)) : fill' = Execution(take)
      BY <2>3 DEF SubmitImmediate, SubmitPlans, Reserve
    <3>2. Detail[o].qty \in Nat
      BY DEF ConstantsAssumption, OrderData
    <3> QED BY <2>1, <3>1, <3>2
  <2>4. ASSUME NEW o \in Orders, SweepExecute(o) PROVE P
    <3>1. PICK take \in Plans(Acct(o), Side(o), Remaining(o, stale[o]), Limit(o)) :
            fill' = Execution(take)
      BY <2>4 DEF SweepExecute, SweepPlans, Reserve
    <3>2. Remaining(o, stale[o]) \in Nat
      <4>1. stale[o] \in OrderRow /\ Detail[o] \in OrderData
        BY FiredRow DEF ConstantsAssumption
      <4>2. stale[o].filled \in Int /\ Detail[o].qty \in Int
        BY <4>1 DEF OrderRow, OrderData, ConstantsAssumption
      <4>3. Remaining(o, stale[o]) > 0
        BY <2>4 DEF SweepExecute, Fires
      <4> QED BY <4>2, <4>3 DEF Remaining
    <3> QED BY <2>1, <3>1, <3>2
  <2>5. ASSUME NEW o \in Orders, SubmitSave(o) PROVE FALSE
    BY <1>1, <2>5 DEF SubmitSave, Return
  <2> QED BY <1>1, <2>2, <2>3, <2>4, <2>5, HandlerMoves DEF P
<1>2. ASSUME tx'.phase # "none", c \in CounterOrders(tx'.fill)
      PROVE  \/ tx.phase # "none" /\ tx'.fill = tx.fill
             \/ SettleOwn /\ tx'.fill = fill
             \/ \E r \in book : r.oid = c
  <2>1. CASE UNCHANGED tx
    BY <1>2, <2>1
  <2>2. CASE LiquidationNothing \/ SettleAgentCounter \/ SettleAgentFails
    BY <1>2, <2>2 DEF LiquidationNothing, SettleAgentCounter, SettleAgentFails
  <2>3. CASE SettleCommit \/ SettleAbort \/ LiquidationEnd \/ LiquidationFails
    BY <1>2, <2>3 DEF NoTx, Release, SettleCommit, SettleAbort, LiquidationEnd, LiquidationFails
  <2>4. CASE SettleOwn
    BY <2>4 DEF SettleOwn
  <2>5. CASE LiquidationRead
    BY <2>5 DEF LiquidationRead, IInv, TypeOK, SettlementOK
  <2>8. CASE LiquidationSave
    BY <2>8 DEF LiquidationSave, IInv, TypeOK, SettlementOK
  <2>6. ASSUME NEW d \in Orders, SettleCounter(d) \/ LiquidationCounter(d) \/ LiquidationRefused(d)
        PROVE  tx.phase # "none" /\ tx'.fill = tx.fill
    BY <2>6 DEF SettleCounter, LiquidationCounter, LiquidationRefused, IInv, TypeOK, SettlementOK
  <2>7. ASSUME NEW a \in Accounts, LiquidationSell(a) PROVE \E r \in book : r.oid = c
    <3>1. PICK take \in LiquidationPlans(a) : tx'.fill = Execution(take)
      BY <2>7 DEF LiquidationSell, NoTx
    <3>2. ledger.shares[a] \in Nat /\ take \in Plans(a, "sell", ledger.shares[a], 0)
      BY <3>1 DEF LiquidationPlans, IInv, TypeOK, TablesOK, Ledger
    <3>3. \E r \in Executable(a, "sell", 0) : r.oid = c
      BY <1>0, <1>2, <3>1, <3>2, PlanCounters
    <3> QED BY <3>3 DEF Executable
  <2> QED BY <2>1, <2>2, <2>3, <2>4, <2>5, <2>6, <2>7, <2>8, SettlementMoves
<1>3. ASSUME agent'.phase # "idle", c \in CounterOrders(agent'.fill)
      PROVE  \/ agent.phase # "idle" /\ agent'.fill = agent.fill
             \/ \E r \in book : r.oid = c
  <2>1. CASE UNCHANGED agent
    BY <1>3, <2>1
  <2>2. CASE agent' = [NoTrade EXCEPT !.used = agent.used]
    BY <1>3, <2>2 DEF NoTrade
  <2>3. CASE SettleAgentCounter
    BY <2>3, CounterWaits DEF SettleAgentCounter, IInv, TypeOK, AgentOK
  <2>4. CASE AgentRead
    BY <2>4 DEF AgentRead, IInv, TypeOK, AgentOK
  <2>7. CASE AgentSave \/ AgentRestore
    BY <2>7 DEF AgentSave, AgentRestore, IInv, TypeOK, AgentOK
  <2>5. ASSUME NEW d \in Orders, AgentCounter(d)
        PROVE  agent.phase # "idle" /\ agent'.fill = agent.fill
    BY <2>5 DEF AgentCounter, IInv, TypeOK, AgentOK
  <2>6. ASSUME NEW x \in AgentOrders, AgentTrade(x) PROVE \E r \in book : r.oid = c
    <3>1. PICK take \in AgentPlans(x) : agent'.fill = Execution(take)
      BY <2>6 DEF AgentTrade, IInv, TypeOK, AgentOK
    <3> DEFINE rows == {r \in Executable(None, x.side, 0) : r.oid # Synthetic}
    <3>2. rows \in SUBSET book /\ take \in PlansOver(rows, x.qty) /\ x.qty \in Nat
      BY <3>1 DEF AgentPlans, Executable, ConstantsAssumption
    <3> HIDE DEF rows
    <3>3. \E r \in rows : r.oid = c
      BY <1>0, <1>3, <3>1, <3>2, CounterRows
    <3> QED BY <3>2, <3>3
  <2> QED BY <2>1, <2>2, <2>3, <2>4, <2>5, <2>6, <2>7, AgentMoves
<1> QED BY <1>1, <1>2, <1>3

-----------------------------------------------------------------------------
(* Which steps record a trade. *)

(* What a settlement adds to the traded count of each order. *)
LEMMA LedgerFields ==
  ASSUME NEW l \in Ledger
  PROVE  /\ l.cash \in [Accounts -> Int] /\ l.shares \in [Accounts -> Int]
         /\ l.traded \in [Orders -> Nat]
         /\ l = [cash |-> l.cash, shares |-> l.shares, traded |-> l.traded,
                 fees |-> l.fees, outShares |-> l.outShares, outCash |-> l.outCash]
BY DEF Ledger

(* Settling with the quotes trades no order. *)
LEMMA ExternalTrades ==
  ASSUME NEW l \in Ledger, NEW side, NEW n, NEW total
  PROVE  External(l, side, n, total).traded = l.traded
BY LedgerFields DEF External

(* Settling an account records no trade. *)
LEMMA SettleTrades ==
  ASSUME NEW l \in Ledger, NEW a, NEW side, NEW n, NEW total
  PROVE  Settle(l, a, side, n, total).traded = l.traded
<1>1. CASE side = "buy"
  BY <1>1, LedgerFields DEF Settle
<1>2. CASE side # "buy"
  BY <1>2, LedgerFields DEF Settle
<1> QED BY <1>1, <1>2

(* Recording a trade changes what its order has traded, and no other. *)
LEMMA TradedTrades ==
  ASSUME NEW l \in Ledger, NEW o, NEW n
  PROVE  \A p \in Orders :
           Traded(l, o, n).traded[p] = IF p = o THEN l.traded[p] + n ELSE l.traded[p]
BY LedgerFields DEF Traded

(* Settling a counterparty records its trade, and no other. *)
LEMMA CounterTrades ==
  ASSUME ConstantsAssumption, NEW l \in Ledger, NEW f \in ExecutionData, NEW c \in Orders
  PROVE  \A p \in Orders : SettleCounterparty(l, f, c).traded[p]
           = IF p = c THEN l.traded[p] + f.counter[c] ELSE l.traded[p]
<1> DEFINE s == Settle(l, Acct(c), Side(c), f.counter[c], CounterCost(f, c))
<1>1. s.traded = l.traded
  BY SettleTrades
<1>2. s \in Ledger
  BY CounterLedger, SettleLedger
<1> HIDE DEF s
<1>3. \A p \in Orders : Traded(s, c, f.counter[c]).traded[p]
        = IF p = c THEN s.traded[p] + f.counter[c] ELSE s.traded[p]
  BY <1>2, TradedTrades
<1> QED BY <1>1, <1>3 DEF SettleCounterparty, s

(* Which steps trade an order, and by how much. *)
LEMMA TradedMoves ==
  ASSUME ConstantsAssumption, IInv, FillsTrue, [Next]_vars, NEW o \in Orders
  PROVE  \/ ledger'.traded[o] = ledger.traded[o]
         \/ SettleCommit /\ ledger' = tx.ledger
         \/ /\ LiquidationCounter(o)
            /\ ledger'.traded[o] = ledger.traded[o] + tx.fill.counter[o]
         \/ /\ SettleAgentCounter /\ o = agent.order
            /\ agent' = [agent EXCEPT !.phase = "reading"]
            /\ ledger'.traded[o] = ledger.traded[o] + agent.fill.counter[o]
<1>0. /\ ledger \in Ledger /\ tx.fill \in ExecutionData /\ agent.fill \in ExecutionData
      /\ ledger.traded \in [Orders -> Nat]
  BY DEF IInv, TypeOK, TablesOK, SettlementOK, AgentOK, Ledger
<1>1. CASE UNCHANGED ledger
  BY <1>1
<1>2. CASE SettleCommit
  BY <1>2 DEF SettleCommit
<1>3. ASSUME NEW c \in Orders, LiquidationCounter(c)
      PROVE  \/ ledger'.traded[o] = ledger.traded[o]
             \/ c = o /\ ledger'.traded[o] = ledger.traded[o] + tx.fill.counter[o]
  <2>1. ledger'.traded[o] = IF o = c THEN ledger.traded[o] + tx.fill.counter[c]
                            ELSE ledger.traded[o]
    BY <1>0, <1>3, CounterTrades DEF LiquidationCounter
  <2> QED BY <1>0, <2>1
<1>4. CASE SettleAgentCounter
  <2>1. CASE UNCHANGED ledger
    BY <2>1
  <2>2. CASE /\ agent' = [agent EXCEPT !.phase = "reading"]
             /\ ledger' = External(SettleCounterparty(ledger, agent.fill, agent.order),
                               Side(agent.order), agent.fill.counter[agent.order],
                               CounterCost(agent.fill, agent.order))
    <3> DEFINE s == SettleCounterparty(ledger, agent.fill, agent.order)
    <3>0. agent.order \in Orders
      BY <1>4, CounterWaits DEF SettleAgentCounter, IInv, AgentDiscipline
    <3>1. s \in Ledger
      BY <1>0, <3>0, CounterLedger
    <3>3. s.traded[o] = IF o = agent.order
                        THEN ledger.traded[o] + agent.fill.counter[agent.order]
                        ELSE ledger.traded[o]
      BY <1>0, <3>0, CounterTrades
    <3> HIDE DEF s
    <3>2. ledger'.traded = s.traded
      BY <2>2, <3>1 DEF s, External, Ledger
    <3> QED BY <1>0, <1>4, <2>2, <3>0, <3>2, <3>3
  <2> QED BY <1>4, <2>1, <2>2 DEF SettleAgentCounter
<1>5. CASE LiquidationEnd
  <2> DEFINE a == Head(settlementQueue).acct
             s == Settle(ledger, a, "sell", tx.fill.filled, tx.fill.cost)
  <2>1. a \in Accounts
    <3>1. settlementQueue \in Seq(SettlementJob) /\ settlementQueue # <<>>
      BY <1>5 DEF LiquidationEnd, Settling, IInv, TypeOK, QueuesOK
    <3>2. Head(settlementQueue) \in SettlementJob
      BY <3>1
    <3> QED BY <3>2 DEF SettlementJob
  <2>2. tx.fill.filled \in Nat /\ tx.fill.cost \in Int
    BY <1>0 DEF ExecutionData
  <2>3. s \in Ledger /\ s.traded = ledger.traded
    <3> HIDE DEF a
    <3>1. s \in Ledger
      BY <1>0, <2>1, <2>2, SettleLedger
    <3>2. s.traded = ledger.traded
      BY <1>0, SettleTrades
    <3> QED BY <3>1, <3>2
  <2>4. ledger' = External(s, "sell", tx.fill.external, tx.fill.externalCost)
    BY <1>5 DEF LiquidationEnd
  <2> HIDE DEF s
  <2> QED BY <2>3, <2>4 DEF External, Ledger
<1>6. CASE \/ LiquidationNothing \/ SettleAgentFails \/ SettleAbort \/ LiquidationFails
           \/ SettleOwn \/ LiquidationRead \/ LiquidationSave
           \/ \E c \in Orders : SettleCounter(c) \/ LiquidationRefused(c)
           \/ \E a \in Accounts : LiquidationSell(a)
  BY <1>6 DEF LiquidationNothing, SettleAgentFails, SettleAbort, LiquidationFails,
     SettleOwn, LiquidationRead, LiquidationSave, SettleCounter, LiquidationRefused,
     LiquidationSell
<1> QED BY <1>1, <1>2, <1>3, <1>4, <1>5, <1>6, SettlementMoves

(* What an open transaction of a player's settlement has traded so far. *)
LEMMA TxTradedMoves ==
  ASSUME ConstantsAssumption, IInv, FillsTrue, [Next]_vars, tx'.phase # "none", Settling("fill")'
  PROVE  /\ pc = "settling" /\ cur \in Orders /\ UNCHANGED <<pc, cur, fill>>
         /\ Settling("fill")
         /\ \/ tx.phase # "none" /\ tx' = tx
            \/ /\ SettleOwn
               /\ \A p \in Orders : tx'.ledger.traded[p]
                    = IF p = cur THEN ledger.traded[p] + fill.filled ELSE ledger.traded[p]
            \/ \E c \in Orders :
                 /\ SettleCounter(c)
                 /\ \A p \in Orders : tx'.ledger.traded[p]
                      = IF p = c THEN tx.ledger.traded[p] + tx.fill.counter[c]
                        ELSE tx.ledger.traded[p]
<1>0. /\ ledger \in Ledger /\ tx.ledger \in Ledger
      /\ tx.fill \in ExecutionData /\ fill \in ExecutionData
  BY DEF IInv, TypeOK, TablesOK, SettlementOK, FrameOK
<1>1. CASE /\ UNCHANGED tx
           /\ settlementQueue' = settlementQueue
              \/ \E job : settlementQueue' = Append(settlementQueue, job)
           /\ pc = "settling" => UNCHANGED <<fill, pc, cur>>
  <2>1. settlementQueue # <<>>
    BY <1>1 DEF FillsTrue, TxFillTrue, Settling
  <2>2. Head(settlementQueue') = Head(settlementQueue)
    BY <1>1, <2>1, HeadStays
  <2>3. Settling("fill")
    BY <2>1, <2>2 DEF Settling
  <2> QED BY <1>1, <2>3, FillWaits
<1>2. CASE LiquidationNothing \/ SettleAgentCounter \/ SettleAgentFails
  BY <1>2 DEF LiquidationNothing, SettleAgentCounter, SettleAgentFails, FillsTrue, TxFillTrue,
     Settling
<1>3. CASE SettleCommit \/ SettleAbort \/ LiquidationEnd \/ LiquidationFails
  BY <1>3 DEF NoTx, Release, SettleCommit, SettleAbort, LiquidationEnd, LiquidationFails
<1>4. CASE SettleOwn
  <2> DEFINE s == Settle(ledger, Acct(cur), Side(cur), fill.filled, fill.cost)
             e == External(s, Side(cur), fill.external, fill.externalCost)
  <2>1. Settling("fill") /\ UNCHANGED <<pc, cur, fill>>
        /\ tx'.ledger = Traded(e, cur, fill.filled)
    BY <1>4 DEF SettleOwn, frame
  <2>2. cur \in Orders /\ pc = "settling"
    BY <2>1, FillWaits
  <2>3. Acct(cur) \in Accounts /\ fill.filled \in Nat /\ fill.cost \in Int
        /\ fill.external \in Nat /\ fill.externalCost \in Int
    BY <1>0, <2>2 DEF Acct, ConstantsAssumption, OrderData, ExecutionData
  <2>7. s.traded = ledger.traded
    BY <1>0, SettleTrades
  <2>4. s \in Ledger
    BY <1>0, <2>2, <2>3, SettleLedger
  <2> HIDE DEF s
  <2>8. e.traded = s.traded
    BY <2>4, ExternalTrades
  <2>5. e \in Ledger
    BY <2>3, <2>4, SettleLedger
  <2> HIDE DEF e
  <2>6. \A p \in Orders : Traded(e, cur, fill.filled).traded[p]
          = IF p = cur THEN e.traded[p] + fill.filled ELSE e.traded[p]
    BY <2>5, TradedTrades
  <2> QED BY <1>4, <2>1, <2>2, <2>6, <2>7, <2>8
<1>5. ASSUME NEW c \in Orders, SettleCounter(c)
      PROVE  /\ Settling("fill") /\ UNCHANGED <<pc, cur, fill>>
             /\ \A p \in Orders : tx'.ledger.traded[p]
                  = IF p = c THEN tx.ledger.traded[p] + tx.fill.counter[c]
                    ELSE tx.ledger.traded[p]
  <2>1. /\ Settling("fill") /\ UNCHANGED <<pc, cur, fill>>
        /\ tx'.ledger = SettleCounterparty(tx.ledger, tx.fill, c)
    BY <1>5 DEF SettleCounter, frame, IInv, TypeOK, SettlementOK
  <2>2. \A p \in Orders : SettleCounterparty(tx.ledger, tx.fill, c).traded[p]
          = IF p = c THEN tx.ledger.traded[p] + tx.fill.counter[c] ELSE tx.ledger.traded[p]
    BY <1>0, CounterTrades
  <2> QED BY <2>1, <2>2
<1>6. ASSUME NEW c \in Orders, LiquidationCounter(c) \/ LiquidationRefused(c) PROVE FALSE
  BY <1>6 DEF LiquidationCounter, LiquidationRefused, Settling
<1>7. CASE LiquidationRead \/ LiquidationSave \/ \E a \in Accounts : LiquidationSell(a)
  BY <1>7 DEF LiquidationRead, LiquidationSave, LiquidationSell, Settling
<1> QED BY <1>1, <1>2, <1>3, <1>4, <1>5, <1>6, <1>7, FillWaits, SettlementMoves

-----------------------------------------------------------------------------
(* Only known orders trade; retries trade once. *)

(* A row of a book belongs to an order that is saved. *)
LEMMA BookKnown ==
  ASSUME TradesKnown, NEW o \in Orders
  PROVE  /\ InSomeBook(o) => Known(o)
         /\ (\E r \in book : r.oid = o) => Known(o)
BY DEF TradesKnown, InSomeBook

(* A commit leaves every order it writes known. *)
LEMMA CommitKnown ==
  ASSUME ConstantsAssumption, IInv, FillsTrue, Knowledge, SettleCommit, NEW o \in Orders,
         o = cur \/ o \in CounterOrders(tx.fill)
  PROVE  Known(o)'
<1> USE DEF Knowledge, Known
<1>0. own \in OrderRow
  BY DEF IInv, TypeOK, FrameOK
<1>1. CASE o = cur
  <2>1. orders'[o] = Progress(cur, own, fill.filled)
    BY <1>1 DEF SettleCommit
  <2> QED BY <1>0, <2>1, RowStatus
<1>2. CASE o # cur /\ o \in CounterOrders(tx.fill)
  <2>1. orders'[o] = tx.orders[o]
    BY <1>2 DEF SettleCommit
  <2> QED BY <1>2, <2>1 DEF SettleCommit, CopiesKnown
<1> QED BY <1>1, <1>2

(* Every step trades only what is known. *)
LEMMA TradesKnownStep ==
  ASSUME ConstantsAssumption, IInv, FillsTrue, Knowledge, [Next]_vars
  PROVE  TradesKnown'
<1> USE DEF Knowledge
<1>0. /\ ledger.traded \in [Orders -> Nat] /\ tx.ledger.traded \in [Orders -> Nat]
      /\ fill.filled \in Nat
      /\ tx.fill.counter \in [Orders -> Nat] /\ agent.fill.counter \in [Orders -> Nat]
  BY DEF IInv, TypeOK, TablesOK, SettlementOK, AgentOK, FrameOK, Ledger, ExecutionData
<1>1. ASSUME NEW o \in Orders, Known(o) PROVE Known(o)'
  BY <1>1, StaysKnown
<1>2. ASSUME NEW o \in Orders, ledger'.traded[o] > 0 PROVE Known(o)'
  <2>1. CASE ledger'.traded[o] = ledger.traded[o]
    BY <1>1, <1>2, <2>1 DEF TradesKnown
  <2>2. CASE SettleCommit /\ ledger' = tx.ledger
    <3>1. tx.phase # "none" /\ Settling("fill") /\ tx.ledger.traded[o] > 0
      BY <1>2, <2>2 DEF SettleCommit
    <3>2. Known(o) \/ o = cur
      BY <3>1 DEF TradesKnown
    <3> QED BY <1>1, <2>2, <3>2, CommitKnown
  <2>3. CASE LiquidationCounter(o)
    <3>1. tx.phase # "none" /\ o \in CounterOrders(tx.fill)
      BY <2>3 DEF LiquidationCounter, FillsTrue, TxFillTrue
    <3> QED BY <1>1, <3>1 DEF TradesKnown
  <2>4. CASE SettleAgentCounter /\ o = agent.order
    <3>1. agent.phase # "idle" /\ o \in CounterOrders(agent.fill)
      BY <2>4, CounterWaits DEF SettleAgentCounter, FillsTrue, AgentFillTrue
    <3> QED BY <1>1, <3>1 DEF TradesKnown
  <2> QED BY <2>1, <2>2, <2>3, <2>4, TradedMoves
<1>3. ASSUME tx'.phase # "none", Settling("fill")', NEW o \in Orders, tx'.ledger.traded[o] > 0
      PROVE  Known(o)' \/ o = cur'
  <2>0. cur' = cur /\ cur \in Orders /\ pc = "settling" /\ Settling("fill")
    BY <1>3, TxTradedMoves
  <2>1. CASE tx.phase # "none" /\ tx' = tx
    BY <1>1, <1>3, <2>0, <2>1 DEF TradesKnown
  <2>2. CASE /\ SettleOwn
             /\ \A p \in Orders : tx'.ledger.traded[p]
                  = IF p = cur THEN ledger.traded[p] + fill.filled ELSE ledger.traded[p]
    BY <1>0, <1>1, <1>3, <2>0, <2>2 DEF TradesKnown
  <2>3. ASSUME NEW c \in Orders, SettleCounter(c),
               \A p \in Orders : tx'.ledger.traded[p]
                      = IF p = c THEN tx.ledger.traded[p] + tx.fill.counter[c]
                        ELSE tx.ledger.traded[p]
        PROVE  Known(o)' \/ o = cur'
    <3>1. tx.phase # "none" /\ c \in CounterOrders(tx.fill)
      BY <2>3 DEF SettleCounter, FillsTrue, TxFillTrue
    <3>2. Known(c)
      BY <3>1 DEF TradesKnown
    <3>3. o # c => tx.ledger.traded[o] > 0
      BY <1>3, <2>3
    <3> QED BY <1>1, <2>0, <3>1, <3>2, <3>3 DEF TradesKnown
  <2> QED BY <1>3, <2>1, <2>2, <2>3, TxTradedMoves
<1>4. ASSUME NEW o \in Orders, InSomeBook(o)' PROVE Known(o)'
  <2>1. CASE InSomeBook(o)
    BY <1>1, <2>1, BookKnown
  <2>2. CASE pc = "placing" /\ o = cur
    BY <1>1, <2>2 DEF TradesKnown
  <2>3. CASE LiquidationRefused(o)
    <3>1. tx.phase # "none" /\ o \in CounterOrders(tx.fill)
      BY <2>3 DEF LiquidationRefused, FillsTrue, TxFillTrue
    <3> QED BY <1>1, <3>1 DEF TradesKnown
  <2>4. CASE AgentRestore /\ o = agent.order
    <3>1. agent.phase # "idle" /\ o \in CounterOrders(agent.fill)
      BY <2>4 DEF AgentRestore, FillsTrue, AgentFillTrue
    <3> QED BY <1>1, <3>1 DEF TradesKnown
  <2> QED BY <1>4, <2>1, <2>2, <2>3, <2>4, RowsArrive
<1>5. ASSUME NEW c \in Orders, pc' = "settling", c \in CounterOrders(fill)' PROVE Known(c)'
  <2>1. CASE \E r \in book : r.oid = c
    BY <1>1, <2>1, BookKnown
  <2>2. CASE pc = "settling" /\ fill' = fill
    BY <1>1, <1>5, <2>2 DEF TradesKnown, CounterOrders
  <2> QED BY <1>5, <2>1, <2>2, NewFills
<1>6. ASSUME NEW c \in Orders, tx'.phase # "none", c \in CounterOrders(tx'.fill) PROVE Known(c)'
  <2>1. CASE \E r \in book : r.oid = c
    BY <1>1, <2>1, BookKnown
  <2>2. CASE tx.phase # "none" /\ tx'.fill = tx.fill
    BY <1>1, <1>6, <2>2 DEF TradesKnown, CounterOrders
  <2>3. CASE SettleOwn /\ tx'.fill = fill
    <3>1. pc = "settling"
      BY <2>3, FillWaits DEF SettleOwn
    <3> QED BY <1>1, <1>6, <2>3, <3>1 DEF TradesKnown, CounterOrders
  <2> QED BY <1>6, <2>1, <2>2, <2>3, NewFills
<1>7. ASSUME NEW c \in Orders, agent'.phase # "idle", c \in CounterOrders(agent'.fill)
      PROVE  Known(c)'
  <2>1. CASE \E r \in book : r.oid = c
    BY <1>1, <2>1, BookKnown
  <2>2. CASE agent.phase # "idle" /\ agent'.fill = agent.fill
    BY <1>1, <1>7, <2>2 DEF TradesKnown, CounterOrders
  <2> QED BY <1>7, <2>1, <2>2, NewFills
<1>8. ASSUME NEW c \in Orders, pc' = "placing", c = cur' PROVE Known(c)'
  <2>1. CASE UNCHANGED <<pc, cur, fill>>
    BY <1>1, <1>8, <2>1 DEF TradesKnown
  <2>2. CASE PlaceAndCross \/ \E o \in Orders : SubmitImmediate(o) \/ SweepExecute(o)
    BY <1>8, <2>2 DEF PlaceAndCross, SubmitImmediate, SweepExecute, Reserve
  <2>3. ASSUME NEW o \in Orders, SubmitSave(o) PROVE Known(c)'
    <3>1. o = c
      BY <1>8, <2>3 DEF SubmitSave, Return
    <3> QED BY <2>3, <3>1 DEF SubmitSave, Known, Pending, NewRow, IInv, TypeOK, TablesOK
  <2> QED BY <1>8, <2>1, <2>2, <2>3, HandlerMoves
<1>9. ASSUME NEW c \in Orders, c \in todo' PROVE Known(c)'
  <2>1. CASE c \in todo
    BY <1>1, <2>1 DEF TradesKnown
  <2>2. CASE SweepLoad
    BY <1>1, <1>9, <2>2 DEF SweepLoad, Known
  <2>3. CASE UNCHANGED frame \/ Return \/ todo' \subseteq todo
    BY <1>9, <2>1, <2>3 DEF frame, Return
  <2>4. CASE CancelRead \/ PlaceAndCross \/ SettleCommit \/ SettleAbort
    BY <1>9, <2>1, <2>4 DEF CancelRead, PlaceAndCross, SettleCommit, SettleAbort
  <2>5. ASSUME NEW p \in Orders, \/ SweepReject(p) \/ SweepExecute(p) \/ SubmitImmediate(p)
                                 \/ SubmitSave(p)
        PROVE  Known(c)'
    BY <1>9, <2>1, <2>5 DEF SweepReject, SweepExecute, SubmitImmediate, SubmitSave, Return
  <2>6. \/ UNCHANGED frame \/ Return \/ todo' \subseteq todo \/ SweepLoad \/ CancelRead
        \/ PlaceAndCross \/ SettleCommit \/ SettleAbort
        \/ \E p \in Orders : \/ SweepReject(p) \/ SweepExecute(p) \/ SubmitImmediate(p)
                             \/ SubmitSave(p)
    BY FrameMoves
  <2> QED BY <2>2, <2>3, <2>4, <2>5, <2>6
<1> QED BY <1>2, <1>3, <1>4, <1>5, <1>6, <1>7, <1>8, <1>9 DEF TradesKnown, InSomeBook, CounterOrders

(* Every copy of a row is one of a known order. *)
LEMMA CopiesKnownStep ==
  ASSUME ConstantsAssumption, IInv, FillsTrue, Knowledge, [Next]_vars
  PROVE  CopiesKnown'
<1> USE DEF Knowledge
<1>0. own \in OrderRow /\ orders \in [Orders -> OrderRow]
  BY DEF IInv, TypeOK, FrameOK, TablesOK
<1>1. ASSUME Handling' PROVE own'.status # "absent"
  <2>1. CASE UNCHANGED frame
    BY <1>1, <2>1 DEF frame, Handling, CopiesKnown
  <2>2. CASE Return \/ pc' = "sweeping"
    BY <1>1, <2>2 DEF Return, Handling
  <2>3. CASE pc \in {"failed", "cancelling"} /\ UNCHANGED own
    BY <2>3 DEF Handling, CopiesKnown
  <2>4. CASE CancelRead
    BY <2>4 DEF CancelRead
  <2>5. CASE PlaceAndCross
    BY <2>5 DEF PlaceAndCross, Handling, CopiesKnown
  <2>6. CASE SettleCommit
    BY <1>0, <2>6, RowStatus DEF SettleCommit
  <2>7. CASE SettleAbort
    BY <2>7, FillWaits DEF SettleAbort, Handling, CopiesKnown
  <2>8. ASSUME NEW p \in Orders, SweepReject(p) \/ SweepExecute(p) PROVE own'.status # "absent"
    <3>1. p \in todo /\ own' = Fired(p)
      BY <2>8 DEF SweepReject, SweepExecute
    <3> QED BY <3>1, StaleStatus DEF CopiesKnown
  <2>9. ASSUME NEW p \in Orders, SubmitImmediate(p) \/ (SubmitSave(p) /\ Rests(p))
        PROVE  own'.status # "absent"
    BY <2>9 DEF SubmitImmediate, SubmitSave, Pending, NewRow
  <2>10. \/ UNCHANGED frame \/ Return \/ pc' = "sweeping" \/ CancelRead
         \/ PlaceAndCross \/ SettleCommit \/ SettleAbort
         \/ UNCHANGED own /\ pc \in {"failed", "cancelling"}
         \/ \E p \in Orders : SweepReject(p) \/ SweepExecute(p)
         \/ \E p \in Orders : SubmitImmediate(p) \/ (SubmitSave(p) /\ Rests(p))
    BY FrameMoves DEF SweepLoad
  <2> QED BY <2>1, <2>2, <2>3, <2>4, <2>5, <2>6, <2>7, <2>8, <2>9, <2>10
<1>2. ASSUME NEW o \in todo' PROVE stale'[o].status # "absent"
  <2>1. CASE UNCHANGED stale /\ todo' \subseteq todo
    BY <2>1 DEF CopiesKnown
  <2>2. CASE SweepLoad
    BY <1>2, <2>2 DEF SweepLoad
  <2>3. CASE UNCHANGED frame \/ Return
    BY <1>2, <2>1, <2>3 DEF frame, Return
  <2>4. CASE CancelRead \/ PlaceAndCross \/ SettleCommit \/ SettleAbort
    BY <1>2, <2>1, <2>4 DEF CancelRead, PlaceAndCross, SettleCommit, SettleAbort
  <2>5. ASSUME NEW p \in Orders, SweepReject(p) \/ SweepExecute(p) \/ SubmitImmediate(p)
                                 \/ (SubmitSave(p) /\ Rests(p))
        PROVE  UNCHANGED <<stale, todo>>
    BY <1>2, <2>5 DEF SweepReject, SweepExecute, SubmitImmediate, SubmitSave
  <2>6. \/ UNCHANGED frame \/ Return \/ (UNCHANGED stale /\ todo' \subseteq todo)
        \/ SweepLoad \/ CancelRead \/ PlaceAndCross \/ SettleCommit \/ SettleAbort
        \/ \E p \in Orders : SweepReject(p) \/ SweepExecute(p) \/ SubmitImmediate(p)
                             \/ (SubmitSave(p) /\ Rests(p))
    BY FrameMoves
  <2> QED BY <2>1, <2>2, <2>3, <2>4, <2>5, <2>6
<1>3. ASSUME tx'.phase = "saving" PROVE tx'.orders[tx'.saving].status # "absent"
  <2>1. CASE UNCHANGED tx
    BY <1>3, <2>1 DEF CopiesKnown
  <2>2. CASE LiquidationRead
    <3>1. tx.saving \in CounterOrders(tx.fill) /\ tx.phase # "none"
      BY <2>2 DEF LiquidationRead, FillsTrue, TxFillTrue
    <3>2. Known(tx.saving)
      BY <3>1 DEF TradesKnown, CounterOrders
    <3>3. tx'.saving = tx.saving /\ tx'.orders = orders
      BY <2>2 DEF LiquidationRead, IInv, TypeOK, SettlementOK
    <3> QED BY <3>2, <3>3 DEF Known
  <2>3. CASE LiquidationNothing \/ SettleAgentCounter \/ SettleAgentFails
    BY <2>1, <2>3 DEF LiquidationNothing, SettleAgentCounter, SettleAgentFails
  <2>4. CASE SettleCommit \/ SettleAbort \/ LiquidationEnd \/ LiquidationFails
    BY <1>3, <2>4 DEF NoTx, Release, SettleCommit, SettleAbort, LiquidationEnd, LiquidationFails
  <2>5. CASE SettleOwn
    BY <1>3, <2>5 DEF SettleOwn
  <2>6. CASE LiquidationSave
    BY <1>3, <2>6 DEF LiquidationSave, IInv, TypeOK, SettlementOK
  <2>7. ASSUME NEW c \in Orders, SettleCounter(c) \/ LiquidationCounter(c) \/ LiquidationRefused(c)
        PROVE  FALSE
    BY <1>3, <2>7 DEF SettleCounter, LiquidationCounter, LiquidationRefused, IInv, TypeOK,
       SettlementOK
  <2>8. ASSUME NEW a \in Accounts, LiquidationSell(a) PROVE FALSE
    BY <1>3, <2>8 DEF LiquidationSell, NoTx
  <2> QED BY <2>1, <2>2, <2>3, <2>4, <2>5, <2>6, <2>7, <2>8, SettlementMoves
<1>4. ASSUME tx'.phase # "none", Settling("fill")', NEW c \in CounterOrders(tx'.fill)
      PROVE  tx'.orders[c].status # "absent"
  <2>0. Settling("fill") /\ c \in Orders /\ pc = "settling"
    BY <1>4, TxTradedMoves DEF CounterOrders
  <2>1. CASE tx.phase # "none" /\ tx' = tx
    BY <1>4, <2>0, <2>1 DEF CopiesKnown
  <2>2. CASE SettleOwn
    <3>1. tx'.orders = orders /\ tx'.fill = fill
      BY <2>2 DEF SettleOwn
    <3>2. Known(c)
      BY <1>4, <2>0, <3>1 DEF TradesKnown
    <3> QED BY <3>1, <3>2 DEF Known
  <2>3. ASSUME NEW d \in Orders, SettleCounter(d) PROVE tx'.orders[c].status # "absent"
    <3>1. tx.orders \in [Orders -> OrderRow] /\ tx'.fill = tx.fill
          /\ tx'.orders = [tx.orders EXCEPT ![d] = Progress(d, orders[d], tx.fill.counter[d])]
          /\ tx.phase # "none"
      BY <2>3 DEF SettleCounter, IInv, TypeOK, SettlementOK
    <3>2. Progress(d, orders[d], tx.fill.counter[d]).status # "absent"
      BY <1>0, RowStatus
    <3>3. tx.orders[c].status # "absent"
      BY <1>4, <2>0, <3>1 DEF CopiesKnown
    <3> QED BY <2>0, <3>1, <3>2, <3>3
  <2> QED BY <1>4, <2>1, <2>2, <2>3, TxTradedMoves
<1>5. ASSUME agent'.phase = "saving" PROVE agent'.row.status # "absent"
  <2>1. CASE UNCHANGED agent
    BY <1>5, <2>1 DEF CopiesKnown
  <2>2. CASE AgentRead
    <3>1. agent.order \in CounterOrders(agent.fill) /\ agent.phase # "idle"
      BY <2>2 DEF AgentRead, FillsTrue, AgentFillTrue
    <3>2. Known(agent.order)
      BY <3>1 DEF TradesKnown, CounterOrders
    <3>3. agent'.row = orders[agent.order]
      BY <2>2 DEF AgentRead, IInv, TypeOK, AgentOK
    <3> QED BY <3>2, <3>3 DEF Known
  <2>3. CASE agent' = [NoTrade EXCEPT !.used = agent.used]
    BY <1>5, <2>3 DEF NoTrade
  <2>4. CASE SettleAgentCounter
    BY <1>5, <2>1, <2>4 DEF SettleAgentCounter, IInv, TypeOK, AgentOK
  <2>5. CASE AgentSave \/ AgentRestore
    BY <1>5, <2>5 DEF AgentSave, AgentRestore, IInv, TypeOK, AgentOK
  <2>6. ASSUME NEW c \in Orders, AgentCounter(c) PROVE FALSE
    BY <1>5, <2>6 DEF AgentCounter, IInv, TypeOK, AgentOK
  <2>7. ASSUME NEW x \in AgentOrders, AgentTrade(x) PROVE FALSE
    BY <1>5, <2>7 DEF AgentTrade, IInv, TypeOK, AgentOK
  <2> QED BY <2>1, <2>2, <2>3, <2>4, <2>5, <2>6, <2>7, AgentMoves
<1> QED BY <1>1, <1>2, <1>3, <1>4, <1>5 DEF CopiesKnown, CounterOrders

(* At first nothing is known, and nothing has traded. *)
LEMMA InitKnowledge ==
  ASSUME ConstantsAssumption, Init
  PROVE  Knowledge /\ KeysApart
<1>1. ledger.traded = [o \in Orders |-> 0] /\ tx.phase = "none" /\ agent.phase = "idle"
      /\ pc = "idle" /\ todo = {} /\ onCommit = {} /\ onRollback = {}
      /\ \A o \in Orders : orders[o].status = "absent"
  BY DEF Init, NoTx, NoTrade, NewRow
<1>2. \A r \in book : r.oid \notin Orders
  BY DEF Init, Refresh, RemoveAll, Positive, ConstantsAssumption
<1> QED BY <1>1, <1>2
           DEF Knowledge, TradesKnown, CopiesKnown, KeysApart, Live, Known, Handling, Keyed

(* The retries of one client request trade at most once between them. *)
THEOREM RetriesTradeOnce == Spec => []OneTradePerKey
<1> DEFINE J == Knowledge /\ KeysApart
<1>1. Init => J
  BY InitKnowledge, ConstantsAssumption
<1>2. IInv /\ (BooksTrue /\ FillsTrue) /\ J /\ [Next]_vars => J'
  BY ConstantsAssumption, KeysApartStep, TradesKnownStep, CopiesKnownStep DEF Knowledge
<1>3. IInv /\ J => OneTradePerKey
  <2> SUFFICES ASSUME IInv, J, NEW o \in Keyed, NEW p \in Keyed, SameKey(o, p)
               PROVE  ledger.traded[o] = 0 \/ ledger.traded[p] = 0
    BY DEF OneTradePerKey, SameKey
  <2>1. o \in Orders /\ p \in Orders /\ ledger.traded \in [Orders -> Nat]
    BY DEF Keyed, IInv, TypeOK, TablesOK, Ledger
  <2>2. ~(Known(o) /\ Known(p))
    BY DEF KeysApart, Live
  <2> QED BY <2>1, <2>2 DEF Knowledge, TradesKnown
<1> QED BY <1>1, <1>2, <1>3, Inductive, Booked, PTL DEF Spec

-----------------------------------------------------------------------------
(* An order is submitted once. *)

(* Which steps touch the order chain, and how. *)
LEMMA OrderQueueMoves ==
  ASSUME ConstantsAssumption, IInv, [Next]_vars
  PROVE  \/ /\ orderQueue' = orderQueue /\ requested' = requested
            /\ pc' = "idle" => pc = "idle"
         \/ Return /\ orderQueue # <<>> /\ requested' = requested
         \/ \E o \in Orders : PlaceOrder(o)
         \/ /\ \E kind \in {"cancel", "sweep"} : \E o :
                 Enqueue(kind, o, 0) /\ (kind = "sweep" => Sweeps)
            /\ UNCHANGED <<requested, orders, frame>>
<1> USE DEF frame, env
<1>0. pc # "idle" => orderQueue # <<>>
  BY DEF IInv, LocalsInPlace
<1>1. CASE UNCHANGED vars
  BY <1>1 DEF vars
<1>2. CASE Environment
  <2>1. ASSUME NEW o \in Orders, RequestCancel(o)
        PROVE  Enqueue("cancel", o, 0) /\ UNCHANGED <<requested, orders, frame>>
    BY <2>1 DEF RequestCancel
  <2>2. ASSUME RequestSweep
        PROVE  Enqueue("sweep", None, 0) /\ Sweeps /\ UNCHANGED <<requested, orders, frame>>
    BY <2>2 DEF RequestSweep
  <2>3. ASSUME Tick \/ \E a \in Accounts : MarginCall(a)
        PROVE  orderQueue' = orderQueue /\ requested' = requested /\ pc' = pc
    BY <2>3 DEF Tick, MarginCall
  <2> QED BY <1>2, <2>1, <2>2, <2>3 DEF Environment
<1>3. CASE OrderHandler
  <2>1. UNCHANGED requested
    BY <1>3 DEF OrderHandler, SubmitRefused, SubmitUnfilled, SubmitSave, SubmitImmediate,
       PlaceAndCross, PlaceAndRest, SubmitSettled, SubmitFailed, Unbook, CancelMiss, CancelRead,
       CancelSave, SweepLoad, SweepEnd, SweepSettled, SweepFailed, SweepSkip, SweepReject,
       SweepExecute, SweepUnfilled
  <2>2. ASSUME \/ SubmitRefused \/ PlaceAndRest \/ SubmitSettled \/ CancelMiss \/ SweepEnd
               \/ \E o \in Orders : SubmitUnfilled(o)
        PROVE  Return /\ orderQueue # <<>>
    BY <1>0, <2>2 DEF SubmitRefused, PlaceAndRest, SubmitSettled, CancelMiss, SweepEnd,
       SubmitUnfilled, Running
  <2>3. ASSUME SubmitFailed \/ Unbook \/ \E o \in Orders : SubmitSave(o)
        PROVE  (Return /\ orderQueue # <<>>) \/ (orderQueue' = orderQueue /\ pc' # "idle")
    BY <1>0, <2>3 DEF SubmitFailed, Unbook, SubmitSave, Running
  <2>4. ASSUME \/ PlaceAndCross \/ CancelRead \/ CancelSave \/ SweepLoad \/ SweepSettled
               \/ SweepFailed
               \/ \E o \in Orders : \/ SubmitImmediate(o) \/ SweepSkip(o) \/ SweepReject(o)
                                    \/ SweepExecute(o) \/ SweepUnfilled(o)
        PROVE  orderQueue' = orderQueue /\ pc' # "idle"
    BY <2>4 DEF PlaceAndCross, CancelRead, CancelSave, SweepLoad, SweepSettled, SweepFailed,
       SubmitImmediate, SweepSkip, SweepReject, SweepExecute, SweepUnfilled, Reserve
  <2> QED BY <1>3, <2>1, <2>2, <2>3, <2>4 DEF OrderHandler
<1>4. CASE Settlement
  BY <1>4 DEF Settlement, SettleOwn, SettleCounter, SettleCommit, SettleAbort, Release,
     LiquidationEnd, LiquidationNothing, LiquidationSell, LiquidationRefused,
     LiquidationCounter, LiquidationRead, LiquidationSave, LiquidationFails,
     SettleAgentCounter, SettleAgentFails
<1>5. CASE Agents
  BY <1>5 DEF Agents, AgentTrade, AgentRestore, AgentCounter, AgentRead, AgentSave, AgentDone
<1> QED BY <1>1, <1>2, <1>3, <1>4, <1>5 DEF Next

(* Every step keeps an order once in the chain and unknown before its turn. *)
LEMMA FreshStep ==
  ASSUME ConstantsAssumption, IInv, FillsTrue, Knowledge, QueuedOnce, [Next]_vars
  PROVE  QueuedOnce'
<1> USE DEF Submits
<1>0. /\ orderQueue \in Seq(OrderJob) /\ requested \in SUBSET Orders
      /\ \A i \in DOMAIN orderQueue : orderQueue[i].kind = "submit" => orderQueue[i].oid \in Orders
  BY DEF IInv, TypeOK, QueuesOK, EnvOK, LocalsInPlace
<1>1. ASSUME NEW o \in Orders, SubmitSave(o) \/ SubmitImmediate(o)
      PROVE  /\ 1 \in Submits(orderQueue) /\ o = orderQueue[1].oid
             /\ Return \/ pc' # "idle"
  <2>1. Running("submit") /\ o = Job.oid /\ (Return \/ pc' # "idle")
    BY <1>1 DEF SubmitSave, SubmitImmediate, Reserve
  <2> QED BY <1>0, <2>1 DEF Running, Job
<1>2. ASSUME NEW o \in Orders, Live(o)'
      PROVE  Live(o) \/ SubmitSave(o) \/ SubmitImmediate(o)
  BY <1>2, NewLive
<1>3. ASSUME requested \subseteq requested', NEW o \in Orders, Live(o)' PROVE o \in requested'
  BY <1>1, <1>2, <1>3 DEF QueuedOnce
(* A job that has not had its turn is still unknown after a step. *)
<1>4. ASSUME NEW i \in Submits(orderQueue), i > 1, NEW o \in Orders, o = orderQueue[i].oid,
             Live(o)'
      PROVE  FALSE
  <2>1. ~Live(o)
    BY <1>4 DEF QueuedOnce
  <2>2. SubmitSave(o) \/ SubmitImmediate(o)
    BY <1>2, <1>4, <2>1
  <2> QED BY <1>1, <1>4, <2>2 DEF QueuedOnce
<1>5. CASE orderQueue' = orderQueue /\ requested' = requested /\ (pc' = "idle" => pc = "idle")
  <2>1. ASSUME NEW i \in Submits(orderQueue), pc' = "idle", NEW o \in Orders,
               o = orderQueue[i].oid, Live(o)'
        PROVE  FALSE
    <3>1. ~Live(o)
      BY <1>5, <2>1 DEF QueuedOnce
    <3>2. ~Return
      <4>1. i \in 1..Len(orderQueue) /\ Len(orderQueue) \in Nat
        BY <1>0
      <4>2. orderQueue # <<>>
        BY <1>0, <4>1
      <4>3. Len(Tail(orderQueue)) = Len(orderQueue) - 1
        BY <1>0, <4>2
      <4> QED BY <1>5, <4>1, <4>3 DEF Return
    <3> QED BY <1>1, <1>2, <2>1, <3>1, <3>2
  <2>2. \A i \in Submits(orderQueue) : /\ orderQueue[i].oid \in requested'
                                       /\ orderQueue[i].oid \in Orders
    BY <1>0, <1>5 DEF QueuedOnce
  <2>3. \A i \in Submits(orderQueue) : \A o \in Orders :
          o = orderQueue[i].oid /\ (i > 1 \/ pc' = "idle") => ~Live(o)'
    BY <1>4, <2>1
  <2>4. \A i \in Submits(orderQueue') : \A o \in Orders :
          o = orderQueue'[i].oid /\ (i > 1 \/ pc' = "idle") => ~Live(o)'
    BY <1>5, <2>3
  <2> QED BY <1>3, <1>5, <2>2, <2>4 DEF QueuedOnce
<1>6. CASE Return /\ orderQueue # <<>> /\ requested' = requested
  <2>1. \A i \in DOMAIN orderQueue' :
          i + 1 \in DOMAIN orderQueue /\ orderQueue'[i] = orderQueue[i + 1]
          /\ i \in Nat /\ i > 0
    BY <1>0, <1>6 DEF Return
  <2>2. \A i \in Submits(orderQueue') :
          i + 1 \in Submits(orderQueue) /\ orderQueue'[i] = orderQueue[i + 1]
          /\ i \in Nat /\ i + 1 > 1
    BY <2>1
  <2>3. \A i \in Submits(orderQueue') : /\ orderQueue'[i].oid \in requested'
                                        /\ orderQueue'[i].oid \in Orders
    BY <1>0, <1>6, <2>2 DEF QueuedOnce
  <2>5. \A i \in Submits(orderQueue') : \A o \in Orders : o = orderQueue'[i].oid => ~Live(o)'
    BY <1>4, <2>2
  <2>4. \A i, j \in Submits(orderQueue') : orderQueue'[i].oid = orderQueue'[j].oid => i = j
    BY <2>2 DEF QueuedOnce
  <2> QED BY <1>3, <1>6, <2>3, <2>4, <2>5 DEF QueuedOnce
<1>7. ASSUME NEW o \in Orders, PlaceOrder(o) PROVE QueuedOnce'
  <2> DEFINE job == [kind |-> "submit", oid |-> o, cash |-> ledger.cash[Acct(o)]]
             n == Len(orderQueue) + 1
  <2>1. /\ o \notin requested /\ requested' = requested \cup {o}
        /\ orderQueue' = Append(orderQueue, job) /\ UNCHANGED <<orders, pc, cur>>
    BY <1>7 DEF PlaceOrder, Enqueue, frame
  <2>2. \A p : Live(p)' = Live(p)
    BY <2>1 DEF Live, Known, Handling
  <2>3. job.oid = o
    OBVIOUS
  <2> HIDE DEF job
  <2>4. /\ \A i \in DOMAIN orderQueue' :
             \/ i \in DOMAIN orderQueue /\ orderQueue'[i] = orderQueue[i]
             \/ i = n /\ orderQueue'[i] = job
    BY <1>0, <2>1
  <2>5. ~Live(o)
    BY <2>1 DEF QueuedOnce
  <2>6. \A i \in Submits(orderQueue') :
          \/ i \in Submits(orderQueue) /\ orderQueue'[i] = orderQueue[i]
             /\ orderQueue'[i].oid \in requested
          \/ i = n /\ orderQueue'[i].oid = o
    BY <2>3, <2>4 DEF QueuedOnce
  <2>7. \A i, j \in Submits(orderQueue') : orderQueue'[i].oid = orderQueue'[j].oid => i = j
    BY <2>1, <2>6 DEF QueuedOnce
  <2>8. \A i \in Submits(orderQueue') :
          /\ orderQueue'[i].oid \in requested'
          /\ i > 1 \/ pc' = "idle" => ~Live(orderQueue'[i].oid)
    BY <2>1, <2>5, <2>6 DEF QueuedOnce
  <2> QED BY <1>3, <2>1, <2>2, <2>7, <2>8 DEF QueuedOnce
<1>8. ASSUME NEW kind \in {"cancel", "sweep"}, NEW o, Enqueue(kind, o, 0),
             UNCHANGED <<requested, orders, frame>>
      PROVE  QueuedOnce'
  <2> DEFINE job == [kind |-> kind, oid |-> o, cash |-> 0]
  <2>1. orderQueue' = Append(orderQueue, job) /\ UNCHANGED <<orders, pc, cur, requested>>
    BY <1>8 DEF Enqueue, frame
  <2>2. \A p : Live(p)' = Live(p)
    BY <2>1 DEF Live, Known, Handling
  <2>3. job.kind # "submit"
    OBVIOUS
  <2> HIDE DEF job
  <2>4. \A i \in Submits(orderQueue') : i \in Submits(orderQueue) /\ orderQueue'[i] = orderQueue[i]
    BY <1>0, <2>1, <2>3
  <2> QED BY <1>3, <2>1, <2>2, <2>4 DEF QueuedOnce
<1> QED BY <1>5, <1>6, <1>7, <1>8, OrderQueueMoves

(* At first nothing is in the chain. *)
LEMMA InitFresh == ASSUME ConstantsAssumption, Init PROVE QueuedOnce
BY DEF Init, QueuedOnce, Submits, Live, Known, Handling, NewRow

(* An order is submitted once, known from its save on, and never alive beside
   another with its client key (submitOrder's duplicate check). *)
THEOREM SubmittedOnce == Spec => [](Knowledge /\ KeysApart /\ QueuedOnce)
<1> DEFINE J == Knowledge /\ KeysApart /\ QueuedOnce
<1>1. Init => J
  BY InitKnowledge, InitFresh, ConstantsAssumption
<1>2. IInv /\ (BooksTrue /\ FillsTrue) /\ J /\ [Next]_vars => J'
  BY ConstantsAssumption, KeysApartStep, TradesKnownStep, CopiesKnownStep, FreshStep DEF Knowledge
<1> QED BY <1>1, <1>2, Inductive, Booked, PTL DEF Spec

-----------------------------------------------------------------------------
(* Stops wait for their trigger. *)

(* Only a fresh order is saved by submitOrder. *)
LEMMA SavedFresh ==
  ASSUME ConstantsAssumption, IInv, QueuedOnce, NEW o \in Orders, SubmitSave(o) \/ SubmitImmediate(o)
  PROVE  ~Live(o)
<1>1. orderQueue \in Seq(OrderJob) /\ Running("submit") /\ pc = "idle" /\ o = Job.oid
  BY DEF IInv, TypeOK, QueuesOK, SubmitSave, SubmitImmediate
<1>2. 1 \in DOMAIN orderQueue /\ orderQueue[1].kind = "submit" /\ orderQueue[1].oid = o
  BY <1>1 DEF Running, Job
<1> QED BY <1>1, <1>2 DEF QueuedOnce, Submits

(* Recording an outcome keeps the trigger mark of a row. *)
LEMMA RowTriggered ==
  ASSUME NEW row \in OrderRow, NEW o, NEW n
  PROVE  /\ [row EXCEPT !.status = "cancelled"].triggered = row.triggered
         /\ [row EXCEPT !.retries = @ + 1].triggered = row.triggered
         /\ Progress(o, row, n).triggered = row.triggered
BY DEF OrderRow, Progress

(* A stop the sweep fires is marked. *)
LEMMA FiredTriggered ==
  ASSUME IInv, NEW o \in Orders, Type(o) \in Stops
  PROVE  /\ Fired(o).triggered /\ Retried(o).triggered
         /\ [Fired(o) EXCEPT !.status = "cancelled"].triggered
<1>1. Fired(o) \in OrderRow /\ stale[o] \in OrderRow
  BY FiredRow
<1>2. Fired(o).triggered
  BY <1>1 DEF Fired, OrderRow
<1> QED BY <1>1, <1>2 DEF Retried, OrderRow

(* A stop without a price stays out of the book. *)
LEMMA StopsNeverRest ==
  ASSUME ConstantsAssumption, StopsUnpriced, NEW o \in Orders, Type(o) \in Stops
  PROVE  ~Rests(o) /\ Type(o) \notin Immediate
BY DEF StopsUnpriced, Rests, Stops, Immediate

(* Every step keeps the stops that trade marked. *)
LEMMA StopsCrossStep ==
  ASSUME ConstantsAssumption, StopsUnpriced, IInv, FillsTrue, Knowledge, QueuedOnce, StopsCross,
         [Next]_vars
  PROVE  StopsCross'
<1>0. /\ own \in OrderRow /\ orders \in [Orders -> OrderRow]
      /\ ledger.traded \in [Orders -> Nat] /\ tx.ledger.traded \in [Orders -> Nat]
      /\ fill.filled \in Nat
      /\ (Handling => cur \in Orders)
  BY DEF IInv, TypeOK, TablesOK, SettlementOK, FrameOK, Ledger, ExecutionData, LocalsInPlace,
     Handling
(* A stop is never a counterparty. *)
<1>1. ASSUME NEW o \in Orders, Type(o) \in Stops
      PROVE  /\ ~LiquidationCounter(o)
             /\ ~(SettleAgentCounter /\ o = agent.order)
             /\ ~(LiquidationSave /\ o = tx.saving)
             /\ ~(AgentSave /\ o = agent.order)
             /\ ~(SettleCommit /\ o \in CounterOrders(tx.fill))
             /\ ~SettleCounter(o)
             /\ ~(pc = "placing" /\ o = cur)
  <2>1. ~Rests(o)
    BY <1>1, StopsNeverRest
  <2>2. ~(pc = "placing" /\ o = cur)
    BY <2>1 DEF FillsTrue, OwnFillTrue
  <2>3. ~(agent.phase \notin {"idle", "next"} /\ o = agent.order)
    BY <2>1 DEF FillsTrue, AgentFillTrue
  <2>4. ~(tx.phase # "none" /\ o \in CounterOrders(tx.fill))
    <3>1. CASE Settling("liquidate")
      BY <2>1, <3>1 DEF FillsTrue, TxFillTrue, Balanced, Settling
    <3>2. CASE Settling("fill")
      BY <2>1, <3>2, FillWaits DEF FillsTrue, TxFillTrue, OwnFillTrue, Balanced, Settling
    <3> QED BY <3>1, <3>2 DEF FillsTrue, TxFillTrue
  <2>5. tx.phase # "none" => tx.todo \subseteq CounterOrders(tx.fill)
                             /\ (tx.phase # "counters" => tx.saving \in CounterOrders(tx.fill))
    BY DEF FillsTrue, TxFillTrue
  <2>6. ~LiquidationCounter(o) /\ ~SettleCounter(o)
    BY <2>4, <2>5 DEF LiquidationCounter, SettleCounter
  <2>7. ~(SettleAgentCounter /\ o = agent.order)
    BY <2>3, CounterWaits DEF SettleAgentCounter
  <2>8. ~(LiquidationSave /\ o = tx.saving)
    BY <2>4, <2>5 DEF LiquidationSave
  <2>9. ~(AgentSave /\ o = agent.order)
    BY <2>3 DEF AgentSave
  <2>10. ~(SettleCommit /\ o \in CounterOrders(tx.fill))
    BY <2>4 DEF SettleCommit
  <2> QED BY <2>2, <2>6, <2>7, <2>8, <2>9, <2>10
<1>2. SettleCommit => pc = "settling" /\ Handling /\ cur' = cur /\ own' = Progress(cur, own, fill.filled)
  BY FillWaits DEF SettleCommit, Handling
(* What a write does to the row of a stop that has traded. *)
<1>3. ASSUME NEW o \in Orders, Type(o) \in Stops, ledger.traded[o] > 0, ~SettleCommit
      PROVE  orders'[o].triggered
  <2>1. orders[o].triggered /\ (Handling /\ cur = o => own.triggered)
    BY <1>3 DEF StopsCross, StopsFillAfterTrigger
  <2>2. CASE orders'[o] = orders[o]
    BY <2>1, <2>2
  <2>3. CASE SubmitSave(o)
    <3>1. ~Known(o)
      BY <2>3, SavedFresh DEF Live
    <3> QED BY <1>3, <3>1 DEF Knowledge, TradesKnown
  <2>4. CASE /\ SubmitFailed \/ CancelSave \/ SweepFailed \/ SweepSettled
             /\ o = cur
             /\ \/ orders'[o] = own
                \/ orders'[o] = [own EXCEPT !.status = "cancelled"]
                \/ orders'[o] = [own EXCEPT !.retries = @ + 1]
    <3>1. Handling
      BY <2>4 DEF SubmitFailed, CancelSave, SweepFailed, SweepSettled, Handling
    <3>2. /\ [own EXCEPT !.status = "cancelled"].triggered = own.triggered
          /\ [own EXCEPT !.retries = @ + 1].triggered = own.triggered
      BY <1>0, RowTriggered
    <3> QED BY <2>1, <2>4, <3>1, <3>2
  <2>5. CASE orders'[o] = [Fired(o) EXCEPT !.status = "cancelled"] \/ orders'[o] = Retried(o)
    <3>1. /\ Retried(o).triggered
          /\ [Fired(o) EXCEPT !.status = "cancelled"].triggered
      BY <1>3, FiredTriggered
    <3> QED BY <2>5, <3>1
  <2> QED BY <1>1, <1>3, <2>2, <2>3, <2>4, <2>5, OrderWrites
<1>4. ASSUME NEW o \in Orders, Type(o) \in Stops, ledger'.traded[o] > 0
      PROVE  orders'[o].triggered
  <2>1. CASE SettleCommit
    <3>1. CASE o = cur
      <4>1. own.triggered /\ orders'[o] = own'
        BY <1>2, <1>4, <2>1, <3>1 DEF StopsCross, SettleCommit
      <4> QED BY <1>0, <1>2, <2>1, <3>1, <4>1, RowTriggered
    <3>2. CASE o # cur
      <4>1. orders'[o] = orders[o]
        BY <1>1, <1>4, <2>1, <3>2 DEF SettleCommit
      <4>2. tx.phase # "none" /\ Settling("fill") /\ tx.ledger.traded[o] > 0
        BY <1>4, <2>1 DEF SettleCommit
      <4> QED BY <1>4, <3>2, <4>1, <4>2 DEF StopsCross
    <3> QED BY <3>1, <3>2
  <2>2. CASE ~SettleCommit
    <3>1. ledger'.traded[o] = ledger.traded[o]
      BY <1>1, <1>4, <2>2, TradedMoves
    <3> QED BY <1>3, <1>4, <2>2, <3>1
  <2> QED BY <2>1, <2>2
<1>5. ASSUME Handling', Type(cur') \in Stops, pc' = "settling" \/ ledger'.traded[cur'] > 0
      PROVE  own'.triggered
  <2>1. CASE UNCHANGED frame
    <3>1. cur' = cur /\ own' = own /\ pc' = pc /\ Handling /\ cur \in Orders
      BY <1>0, <1>5, <2>1 DEF frame, Handling
    <3>2. ~SettleCommit
      BY <1>2, <3>1 DEF SettleCommit, Release
    <3>3. ledger'.traded[cur] = ledger.traded[cur]
      BY <1>1, <1>5, <3>1, <3>2, TradedMoves
    <3> QED BY <1>5, <3>1, <3>3 DEF StopsCross
  <2>2. CASE Return \/ pc' = "sweeping"
    BY <1>5, <2>2 DEF Return, Handling
  <2>3. CASE /\ SubmitFailed \/ CancelSave \/ SweepFailed
             /\ pc \in {"failed", "cancelling"} /\ pc' = "unbook" /\ UNCHANGED <<cur, own>>
    <3>1. UNCHANGED ledger /\ Handling
      BY <2>3 DEF SubmitFailed, CancelSave, SweepFailed, Handling
    <3> QED BY <1>5, <2>3, <3>1 DEF StopsCross
  <2>4. CASE CancelRead
    <3>1. /\ orderQueue \in Seq(OrderJob) /\ orderQueue # <<>> /\ Head(orderQueue).kind = "cancel"
          /\ own' = orders[cur'] /\ cur' = Job.oid /\ UNCHANGED ledger /\ pc' = "cancelling"
      BY <2>4 DEF CancelRead, Running, IInv, TypeOK, QueuesOK
    <3>2. cur' \in Orders
      <4>1. 1 \in DOMAIN orderQueue /\ Head(orderQueue) = orderQueue[1]
        BY <3>1
      <4> QED BY <3>1, <4>1 DEF Job, IInv, LocalsInPlace
    <3> QED BY <1>5, <3>1, <3>2 DEF StopsCross, StopsFillAfterTrigger
  <2>5. CASE PlaceAndCross
    <3>1. pc = "placing" /\ cur' = cur /\ cur \in Orders
      BY <1>0, <2>5 DEF PlaceAndCross, Handling
    <3> QED BY <1>1, <1>5, <3>1
  <2>6. CASE SettleCommit
    <3>1. own.triggered
      BY <1>2, <1>5, <2>6 DEF StopsCross
    <3> QED BY <1>0, <1>2, <2>6, <3>1, RowTriggered
  <2>7. CASE SettleAbort
    <3>1. UNCHANGED <<cur, own>> /\ pc = "settling" /\ Handling
      BY <2>7, FillWaits DEF SettleAbort, Handling
    <3> QED BY <1>5, <3>1 DEF StopsCross
  <2>8. ASSUME NEW p \in Orders, SweepReject(p) \/ SweepExecute(p) PROVE own'.triggered
    <3>1. cur' = p /\ own' = Fired(p)
      BY <2>8 DEF SweepReject, SweepExecute
    <3> QED BY <1>5, <3>1, FiredTriggered
  <2>9. ASSUME NEW p \in Orders, SubmitImmediate(p) \/ (SubmitSave(p) /\ Rests(p))
        PROVE  FALSE
    <3>1. cur' = p /\ (Rests(p) \/ Type(p) \in Immediate)
      BY <1>5, <2>9 DEF SubmitImmediate, SubmitSave
    <3> QED BY <1>5, <3>1, StopsNeverRest
  <2>10. \/ UNCHANGED frame \/ Return \/ pc' = "sweeping" \/ CancelRead
         \/ PlaceAndCross \/ SettleCommit \/ SettleAbort
         \/ /\ SubmitFailed \/ CancelSave \/ SweepFailed
            /\ pc \in {"failed", "cancelling"} /\ pc' = "unbook" /\ UNCHANGED <<cur, own>>
         \/ \E p \in Orders : SweepReject(p) \/ SweepExecute(p)
         \/ \E p \in Orders : SubmitImmediate(p) \/ (SubmitSave(p) /\ Rests(p))
    BY FrameMoves DEF SweepLoad
  <2> QED BY <2>1, <2>2, <2>3, <2>4, <2>5, <2>6, <2>7, <2>8, <2>9, <2>10
<1>6. ASSUME tx'.phase # "none", Settling("fill")', NEW o \in Orders, Type(o) \in Stops,
             tx'.ledger.traded[o] > 0
      PROVE  orders'[o].triggered \/ o = cur'
  <2>0. cur' = cur /\ cur \in Orders /\ pc = "settling" /\ Settling("fill")
    BY <1>6, TxTradedMoves
  <2> SUFFICES ASSUME o # cur PROVE orders'[o].triggered
    BY <2>0
  <2>1. orders[o].triggered
    <3>1. CASE tx.phase # "none" /\ tx' = tx
      BY <1>6, <2>0, <3>1 DEF StopsCross
    <3>2. CASE /\ SettleOwn
               /\ \A p \in Orders : tx'.ledger.traded[p]
                    = IF p = cur THEN ledger.traded[p] + fill.filled ELSE ledger.traded[p]
      BY <1>6, <3>2 DEF StopsCross, StopsFillAfterTrigger
    <3>3. ASSUME NEW c \in Orders, SettleCounter(c),
                 \A p \in Orders : tx'.ledger.traded[p]
                        = IF p = c THEN tx.ledger.traded[p] + tx.fill.counter[c]
                          ELSE tx.ledger.traded[p]
          PROVE  orders[o].triggered
      <4>1. o # c /\ tx.phase # "none"
        BY <1>1, <1>6, <3>3 DEF SettleCounter
      <4> QED BY <1>6, <2>0, <3>3, <4>1 DEF StopsCross
    <3> QED BY <1>6, <3>1, <3>2, <3>3, TxTradedMoves
  <2>2. ~SettleCommit
    BY <1>6 DEF SettleCommit, Release, NoTx
  <2>3. orders'[o] = orders[o]
    <3>1. ~SubmitSave(o) /\ ~SweepReject(o) /\ ~SweepUnfilled(o)
          /\ ~SubmitFailed /\ ~CancelSave /\ ~SweepFailed /\ ~SweepSettled
      BY <2>0 DEF SubmitSave, SweepReject, SweepUnfilled, SubmitFailed, CancelSave, SweepFailed,
         SweepSettled
    <3> QED BY <1>1, <1>6, <2>2, <3>1, OrderWrites
  <2> QED BY <2>1, <2>3
<1> QED BY <1>4, <1>5, <1>6 DEF StopsCross, StopsFillAfterTrigger

(* A stop order trades only after the market has crossed its trigger. *)
THEOREM StopsWait == StopsUnpriced => (Spec => []StopsFillAfterTrigger)
<1>1. SUFFICES ASSUME StopsUnpriced PROVE Spec => []StopsFillAfterTrigger
  OBVIOUS
<1>2. Init => StopsCross
  BY DEF Init, StopsCross, StopsFillAfterTrigger, NoTx, Handling
<1>3. IInv /\ (BooksTrue /\ FillsTrue) /\ (Knowledge /\ KeysApart /\ QueuedOnce) /\ StopsCross
      /\ [Next]_vars => StopsCross'
  BY <1>1, ConstantsAssumption, StopsCrossStep
<1>4. StopsCross => StopsFillAfterTrigger
  BY DEF StopsCross
<1> QED BY <1>2, <1>3, <1>4, Inductive, Booked, SubmittedOnce, PTL DEF Spec

-----------------------------------------------------------------------------
(* Rows match the ledger: the records. *)

(* Without AI traders and margin calls the settlement chain holds fills only. *)
LEMMA CalmSettles ==
  ASSUME IInv, Calm
  PROVE  ~Settling("liquidate") /\ ~Settling("counter")
<1>1. ~Settling("counter")
  BY CounterWaits DEF Calm
<1>2. ~Settling("liquidate")
  <2> SUFFICES ASSUME Settling("liquidate") PROVE FALSE
    OBVIOUS
  <2>1. settlementQueue \in Seq(SettlementJob) /\ settlementQueue # <<>>
        /\ Head(settlementQueue).kind = "liquidate"
    BY DEF Settling, IInv, TypeOK, QueuesOK
  <2>2. 1 \in DOMAIN settlementQueue /\ settlementQueue[1].kind = "liquidate"
    BY <2>1
  <2> QED BY <2>2 DEF Calm, CalledTrue
<1> QED BY <1>1, <1>2

(* Nothing disturbs the chains. *)
LEMMA CalmStep ==
  ASSUME ConstantsAssumption, AgentOrders = {}, Marginal = {}, IInv, Calm, [Next]_vars
  PROVE  Calm'
<1>1. CalledTrue'
  BY CalledStep DEF Calm
<1>2. agent'.phase = "idle"
  <2>1. ~SettleAgentCounter /\ ~AgentRead /\ ~AgentSave /\ ~AgentRestore
        /\ \A c \in Orders : ~AgentCounter(c)
    BY CalmSettles DEF Calm, SettleAgentCounter, AgentRead, AgentSave, AgentRestore, AgentCounter
  <2> QED BY <2>1, AgentMoves DEF Calm, NoTrade
<1>3. called' = {}
  <2> USE DEF Calm
  <2>1. CASE UNCHANGED called
    BY <2>1
  <2>2. ASSUME NEW a \in Accounts, MarginCall(a) PROVE FALSE
    BY <2>2 DEF MarginCall
  <2>3. CASE UNCHANGED vars
    BY <2>3 DEF vars, env
  <2>4. CASE Environment
    BY <2>1, <2>2, <2>4 DEF Environment, PlaceOrder, RequestCancel, RequestSweep, Tick, env
  <2>5. CASE OrderHandler
    BY <2>1, <2>5 DEF env, OrderHandler, SubmitRefused, SubmitUnfilled, SubmitSave, SubmitImmediate,
       PlaceAndCross, PlaceAndRest, SubmitSettled, SubmitFailed, Unbook, CancelMiss, CancelRead,
       CancelSave, SweepLoad, SweepEnd, SweepSettled, SweepFailed, SweepSkip, SweepReject,
       SweepExecute, SweepUnfilled
  <2>6. CASE Settlement
    BY <2>1, <2>6 DEF env, Settlement, SettleOwn, SettleCounter, SettleCommit, SettleAbort, Release,
       LiquidationEnd, LiquidationNothing, LiquidationSell, LiquidationRefused,
       LiquidationCounter, LiquidationRead, LiquidationSave, LiquidationFails,
       SettleAgentCounter, SettleAgentFails
  <2>7. CASE Agents
    BY <2>1, <2>7 DEF env, Agents, AgentTrade, AgentRestore, AgentCounter, AgentRead, AgentSave,
       AgentDone
  <2> QED BY <2>3, <2>4, <2>5, <2>6, <2>7 DEF Next
<1> QED BY <1>1, <1>2, <1>3 DEF Calm

(* Then only settlements of fills write the ledger. *)
LEMMA CalmMoves ==
  ASSUME IInv, Calm, FillsTrue
  PROVE  /\ ~SettleAgentCounter /\ ~AgentSave /\ ~LiquidationSave
         /\ \A c : ~LiquidationCounter(c)
         /\ tx.phase # "none" => Settling("fill") /\ pc = "settling" /\ tx.fill = fill
                                 /\ tx.phase = "counters" /\ tx.todo \subseteq CounterOrders(fill)
<1>1. ~SettleAgentCounter /\ ~AgentSave /\ ~LiquidationSave /\ \A c : ~LiquidationCounter(c)
  BY CalmSettles DEF Calm, SettleAgentCounter, AgentSave, LiquidationSave, LiquidationCounter
<1>2. tx.phase # "none" => Settling("fill") /\ pc = "settling" /\ tx.fill = fill
                           /\ tx.phase = "counters" /\ tx.todo \subseteq CounterOrders(fill)
  BY CalmSettles, FillWaits DEF FillsTrue, TxFillTrue
<1> QED BY <1>1, <1>2

(* The shares on the row after each write. *)
LEMMA RowFilled ==
  ASSUME NEW row \in OrderRow, NEW o, NEW n
  PROVE  /\ [row EXCEPT !.status = "cancelled"].filled = row.filled
         /\ [row EXCEPT !.retries = @ + 1].filled = row.filled
         /\ Progress(o, row, n).filled = row.filled + n
BY DEF OrderRow, Progress

(* Firing a stop trades nothing. *)
LEMMA FiredFilled ==
  ASSUME IInv, NEW o \in Orders
  PROVE  /\ Fired(o).filled = stale[o].filled /\ Retried(o).filled = stale[o].filled
         /\ [Fired(o) EXCEPT !.status = "cancelled"].filled = stale[o].filled
<1>1. Fired(o) \in OrderRow /\ stale[o] \in OrderRow
  BY FiredRow
<1>2. Fired(o).filled = stale[o].filled
  BY <1>1 DEF Fired, OrderRow
<1> QED BY <1>1, <1>2 DEF Retried, OrderRow

(* An order that is not known has traded nothing. *)
LEMMA UnknownEmpty ==
  ASSUME IInv, Knowledge, OrdersTrue, NEW o \in Orders, ~Known(o)
  PROVE  orders[o].filled = 0 /\ orders[o].status = "absent" /\ ledger.traded[o] = 0
<1>1. ledger.traded[o] \in Nat
  BY DEF IInv, TypeOK, TablesOK, Ledger
<1> QED BY <1>1 DEF Knowledge, TradesKnown, Known, OrdersTrue

(* Which step writes the row of an order the handler does not hold. *)
LEMMA QuietWrites ==
  ASSUME ConstantsAssumption, IInv, FillsTrue, Knowledge, QueuedOnce, Calm, Records,
         [Next]_vars, NEW o \in Orders
  PROVE  \/ orders'[o] = orders[o]
         \/ SubmitSave(o) /\ orders'[o] = Pending /\ ~Known(o) /\ pc = "idle"
         \/ /\ o = cur /\ pc \in {"failed", "cancelling"}
            /\ SubmitFailed \/ CancelSave \/ SweepFailed
            /\ \/ orders'[o] = [own EXCEPT !.status = "cancelled"]
               \/ orders'[o] = [own EXCEPT !.retries = @ + 1]
         \/ /\ SweepReject(o) \/ SweepUnfilled(o)
            /\ o \in todo /\ pc = "sweeping"
            /\ \/ orders'[o] = [Fired(o) EXCEPT !.status = "cancelled"]
               \/ orders'[o] = Retried(o)
         \/ /\ SettleCommit /\ pc = "settling"
            /\ \/ o = cur /\ orders'[o] = own' /\ own' = Progress(cur, own, fill.filled)
               \/ o # cur /\ o \in CounterOrders(fill) /\ orders'[o] = tx.orders[o]
<1>1. CASE SubmitSave(o) /\ orders'[o] = Pending
  BY <1>1, SavedFresh DEF Live, SubmitSave
<1>2. CASE /\ SubmitFailed \/ CancelSave \/ SweepFailed
           /\ o = cur
           /\ \/ orders'[o] = [own EXCEPT !.status = "cancelled"]
              \/ orders'[o] = [own EXCEPT !.retries = @ + 1]
  BY <1>2 DEF SubmitFailed, CancelSave, SweepFailed
<1>3. CASE SweepSettled /\ o = cur /\ orders'[o] = own
  BY <1>3 DEF SweepSettled, Records, CopyTrue
<1>4. CASE /\ SweepReject(o) \/ SweepUnfilled(o)
           /\ \/ orders'[o] = [Fired(o) EXCEPT !.status = "cancelled"]
              \/ orders'[o] = Retried(o)
  BY <1>4 DEF SweepReject, SweepUnfilled
<1>5. CASE /\ SettleCommit
           /\ \/ o = cur /\ orders'[o] = own' /\ own' = Progress(cur, own, fill.filled)
              \/ o # cur /\ o \in CounterOrders(tx.fill) /\ orders'[o] = tx.orders[o]
  <2>1. tx.phase # "none"
    BY <1>5 DEF SettleCommit
  <2> QED BY <1>5, <2>1, CalmMoves
<1> QED BY <1>1, <1>2, <1>3, <1>4, <1>5, CalmMoves, OrderWrites

(* Every step keeps the orders table true. *)
LEMMA OrdersTrueStep ==
  ASSUME ConstantsAssumption, IInv, FillsTrue, Knowledge, QueuedOnce, Calm, Records, [Next]_vars
  PROVE  OrdersTrue'
<1>0. /\ own \in OrderRow /\ ledger.traded \in [Orders -> Nat]
      /\ orders \in [Orders -> OrderRow] /\ fill.filled \in Nat
  BY DEF IInv, TypeOK, TablesOK, FrameOK, Ledger, ExecutionData
<1>1. SUFFICES ASSUME NEW o \in Orders
               PROVE  orders'[o].filled = ledger'.traded[o] /\ ledger'.traded[o] <= Detail[o].qty
  BY DEF OrdersTrue
<1>2. orders[o].filled = ledger.traded[o] /\ ledger.traded[o] <= Detail[o].qty
  BY DEF Records, OrdersTrue
<1>3. CASE SettleCommit
  <2>1. /\ tx.phase # "none" /\ pc = "settling" /\ tx.fill = fill /\ tx.todo = {}
        /\ ledger' = tx.ledger
    BY <1>3, CalmMoves DEF SettleCommit
  <2>2. CASE o = cur
    <3>1. orders'[o] = Progress(cur, own, fill.filled)
      BY <1>3, <2>2 DEF SettleCommit
    <3>2. tx.ledger.traded[o] = ledger.traded[o] + fill.filled
      BY <2>1, <2>2 DEF Records, TxRecorded
    <3>3. own.filled = orders[o].filled /\ own.filled + fill.filled <= Detail[o].qty
      BY <2>1, <2>2 DEF Records, CopyTrue
    <3> QED BY <1>0, <1>2, <2>1, <3>1, <3>2, <3>3, RowFilled
  <2>3. CASE o # cur /\ o \in CounterOrders(fill)
    <3>1. orders'[o] = tx.orders[o]
      BY <1>3, <2>1, <2>3 DEF SettleCommit
    <3> QED BY <2>1, <2>3, <3>1 DEF Records, TxRecorded
  <2>4. CASE o # cur /\ o \notin CounterOrders(fill)
    <3>1. orders'[o] = orders[o]
      BY <1>3, <2>1, <2>4 DEF SettleCommit
    <3> QED BY <1>2, <2>1, <2>4, <3>1 DEF Records, TxRecorded
  <2> QED BY <2>2, <2>3, <2>4
<1>4. CASE ~SettleCommit
  <2>1. ledger'.traded[o] = ledger.traded[o]
    BY <1>4, CalmMoves, TradedMoves
  <2>2. CASE orders'[o] = orders[o]
    BY <1>2, <2>1, <2>2
  <2>3. CASE orders'[o] = Pending /\ ~Known(o)
    BY <1>2, <2>1, <2>3, UnknownEmpty DEF Pending, NewRow, Records
  <2>4. CASE /\ o = cur /\ pc \in {"failed", "cancelling"}
             /\ \/ orders'[o] = [own EXCEPT !.status = "cancelled"]
                \/ orders'[o] = [own EXCEPT !.retries = @ + 1]
    <3>1. own.filled = orders[o].filled
      BY <2>4 DEF Records, CopyTrue
    <3> QED BY <1>0, <1>2, <2>1, <2>4, <3>1, RowFilled
  <2>5. CASE /\ o \in todo /\ pc = "sweeping"
             /\ \/ orders'[o] = [Fired(o) EXCEPT !.status = "cancelled"]
                \/ orders'[o] = Retried(o)
    <3>1. stale[o] = orders[o]
      BY <2>5 DEF Records, WaitTrue, Waiting, Handling
    <3> QED BY <1>2, <2>1, <2>5, <3>1, FiredFilled
  <2> QED BY <1>4, <2>2, <2>3, <2>4, <2>5, QuietWrites
<1> QED BY <1>3, <1>4

(* The copies the sweep has still to visit stay fresh. *)
LEMMA WaitTrueStep ==
  ASSUME ConstantsAssumption, IInv, FillsTrue, Knowledge, QueuedOnce, Calm, Records,
         NoStaleFill, [Next]_vars
  PROVE  WaitTrue'
<1>1. SUFFICES ASSUME NEW o \in Orders, Waiting(o)'
               PROVE  stale'[o] = orders'[o] /\ orders'[o].status = "pending"
  BY DEF WaitTrue
<1>2. CASE SweepLoad
  BY <1>1, <1>2 DEF SweepLoad, Waiting
<1>3. ASSUME Waiting(o), stale' = stale
      PROVE  stale'[o] = orders'[o] /\ orders'[o].status = "pending"
  <2>1. stale[o] = orders[o] /\ orders[o].status = "pending" /\ o \in todo
        /\ ~(Handling /\ o = cur) /\ pc # "idle"
    BY <1>3 DEF Records, WaitTrue, CopyTrue, Waiting
  <2>2. CASE orders'[o] = orders[o]
    BY <1>3, <2>1, <2>2
  <2>3. CASE o = cur /\ pc \in {"failed", "cancelling", "settling"}
    BY <2>1, <2>3 DEF Handling
  <2>4. CASE SweepReject(o)
    BY <1>1, <2>4 DEF SweepReject, Waiting, Handling
  <2>5. CASE SweepUnfilled(o)
    BY <1>1, <2>5 DEF SweepUnfilled, Waiting
  <2>6. CASE pc = "settling" /\ o \in CounterOrders(fill)
    BY <2>1, <2>6 DEF NoStaleFill
  <2> QED BY <2>1, <2>2, <2>3, <2>4, <2>5, <2>6, QuietWrites
<1>4. ASSUME ~SweepLoad PROVE Waiting(o) /\ stale' = stale
  <2>1. CASE UNCHANGED frame
    BY <1>1, <2>1 DEF frame, Waiting, Handling
  <2>2. CASE Return
    BY <1>1, <2>2 DEF Return, Waiting
  <2>3. CASE SubmitFailed \/ CancelSave \/ SweepFailed \/ SweepSettled \/ Unbook
    <3>1. CASE SubmitFailed \/ CancelSave
      BY <1>1, <3>1 DEF SubmitFailed, CancelSave, Return, Waiting, Handling
    <3>2. CASE SweepFailed \/ SweepSettled
      BY <1>1, <3>2 DEF SweepFailed, SweepSettled, Waiting, Handling
    <3>3. CASE Unbook
      BY <1>1, <3>3 DEF Unbook, Return, Waiting, Handling
    <3> QED BY <2>3, <3>1, <3>2, <3>3
  <2>4. ASSUME NEW p \in Orders, SweepSkip(p) \/ SweepUnfilled(p)
        PROVE  Waiting(o) /\ stale' = stale
    BY <1>1, <2>4 DEF SweepSkip, SweepUnfilled, Waiting, Handling
  <2>5. CASE CancelRead
    BY <1>1, <2>5 DEF CancelRead, Waiting, Handling
  <2>6. CASE PlaceAndCross \/ SettleCommit \/ SettleAbort
    <3>1. pc \in {"placing", "settling"} /\ pc' \in {"settling", "settled", "failed"}
          /\ UNCHANGED <<cur, todo, stale>>
      BY <2>6, FillWaits DEF PlaceAndCross, SettleCommit, SettleAbort, Release, Reserve
    <3> QED BY <1>1, <3>1 DEF Waiting, Handling
  <2>7. ASSUME NEW p \in Orders, \/ SweepReject(p) \/ SweepExecute(p) \/ SubmitImmediate(p)
                                 \/ (SubmitSave(p) /\ Rests(p))
        PROVE  Waiting(o) /\ stale' = stale
    BY <1>1, <2>7 DEF SweepReject, SweepExecute, SubmitImmediate, SubmitSave, Waiting, Handling
  <2>8. \/ UNCHANGED frame \/ Return \/ SubmitFailed \/ CancelSave \/ SweepFailed
        \/ SweepSettled \/ Unbook \/ CancelRead \/ PlaceAndCross \/ SettleCommit \/ SettleAbort
        \/ \E p \in Orders : SweepSkip(p) \/ SweepUnfilled(p)
        \/ \E p \in Orders : \/ SweepReject(p) \/ SweepExecute(p) \/ SubmitImmediate(p)
                             \/ (SubmitSave(p) /\ Rests(p))
    BY <1>4, FrameMoves
  <2> QED BY <2>1, <2>2, <2>3, <2>4, <2>5, <2>6, <2>7, <2>8
<1> QED BY <1>2, <1>3, <1>4

-----------------------------------------------------------------------------
(* Rows match the ledger: the handler's copy and the open transaction. *)

(* An account's own orders are never its counterparties. *)
LEMMA OtherAccount ==
  ASSUME BookOK, NEW o \in Orders, NEW side, NEW qty \in Nat, NEW limit,
         NEW take \in Plans(Acct(o), side, qty, limit)
  PROVE  o \notin CounterOrders(Execution(take))
<1>1. SUFFICES ASSUME o \in CounterOrders(Execution(take)) PROVE FALSE
  OBVIOUS
<1>2. PICK r \in Executable(Acct(o), side, limit) : r.oid = o
  BY <1>1, PlanCounters
<1>3. r.oid = Synthetic
  BY <1>2 DEF Executable
<1> QED BY <1>2, <1>3, ConstantsAssumption DEF ConstantsAssumption

(* A plan never takes more than was asked. *)
LEMMA PlanFits ==
  ASSUME NEW acct, NEW side, NEW qty \in Nat, NEW limit, NEW take \in Plans(acct, side, qty, limit)
  PROVE  Execution(take).filled <= qty
BY DEF Plans, PlansOver, IsPlan, Execution

(* The copy the handler holds stays true. *)
LEMMA CopyTrueStep ==
  ASSUME ConstantsAssumption, IInv, FillsTrue, Knowledge, QueuedOnce, Calm, Records, [Next]_vars
  PROVE  CopyTrue'
<1> USE DEF CopyTrue
<1>0. /\ own \in OrderRow /\ orders \in [Orders -> OrderRow] /\ fill \in ExecutionData
      /\ fill.filled \in Nat /\ stale \in [Orders -> OrderRow]
      /\ (Handling => cur \in Orders) /\ CopyTrue
      /\ BookOK
  BY DEF IInv, TypeOK, TablesOK, FrameOK, Ledger, ExecutionData, LocalsInPlace, Records, Handling
<1>1. CASE UNCHANGED frame
  <2>1. UNCHANGED <<pc, cur, own, fill, todo>>
    BY <1>1 DEF frame
  <2>2. pc \in {"placing", "settling", "failed", "cancelling", "settled"} => orders'[cur] = orders[cur]
    <3>1. SUFFICES ASSUME pc \in {"placing", "settling", "failed", "cancelling", "settled"}
                   PROVE  orders'[cur] = orders[cur]
      OBVIOUS
    <3>2. cur \in Orders
      BY <1>0, <3>1 DEF Handling
    <3>3. ~SettleCommit /\ ~SubmitFailed /\ ~CancelSave /\ ~SweepFailed
      BY <2>1, <3>1, FillWaits
         DEF SettleCommit, Release, SubmitFailed, Return, CancelSave, SweepFailed
    <3> QED BY <3>1, <3>2, <3>3, QuietWrites
  <2> QED BY <1>0, <2>1, <2>2
<1>2. CASE Return
  BY <1>2 DEF Return
<1>3. CASE pc' \in {"unbook", "sweeping"}
  BY <1>3
<1>4. CASE CancelRead
  <2>1. orders' = orders /\ own' = orders[cur'] /\ pc' = "cancelling"
        /\ orders[cur'].status = "pending"
    BY <1>4 DEF CancelRead
  <2> QED BY <2>1
<1>5. CASE PlaceAndCross
  <2>1. pc = "placing" /\ pc' = "settling" /\ UNCHANGED <<cur, own, orders>> /\ cur \in Orders
        /\ own = Pending
    BY <1>0, <1>5 DEF PlaceAndCross, Reserve, Handling
  <2>2. PICK take \in Plans(Acct(cur), Side(cur), Detail[cur].qty, Detail[cur].price) :
          fill' = Execution(take)
    BY <1>5 DEF PlaceAndCross, Reserve
  <2>3. Detail[cur].qty \in Nat
    BY <2>1, ConstantsAssumption DEF ConstantsAssumption, OrderData
  <2>4. fill'.filled <= Detail[cur].qty /\ fill'.filled \in Nat
    <3>1. fill' \in ExecutionData
      BY <1>5 DEF PlaceAndCross, Reserve
    <3> QED BY <2>2, <2>3, <3>1, PlanFits DEF ExecutionData
  <2>5. cur \notin CounterOrders(fill')
    BY <1>0, <2>1, <2>2, <2>3, OtherAccount
  <2>6. own'.filled = 0
    BY <2>1 DEF Pending, NewRow
  <2>7. 0 + fill'.filled <= Detail[cur].qty
    BY <2>4
  <2> QED BY <1>0, <2>1, <2>5, <2>6, <2>7 DEF CounterOrders
<1>6. CASE SettleCommit
  <2>1. pc' = "settled" /\ cur' = cur /\ pc = "settling" /\ cur \in Orders
        /\ orders'[cur] = own'
    <3>1. pc = "settling" /\ cur \in Orders
      BY <1>0, <1>6, FillWaits DEF SettleCommit, Handling
    <3> QED BY <1>6, <3>1 DEF SettleCommit, Release
  <2> QED BY <2>1
<1>7. CASE SettleAbort
  <2>1. pc = "settling" /\ pc' = "failed" /\ UNCHANGED <<cur, own, orders>>
    BY <1>7, FillWaits DEF SettleAbort, Release
  <2> QED BY <1>0, <2>1
<1>8. ASSUME NEW p \in Orders, SubmitSave(p), Rests(p)
      PROVE  CopyTrue'
  <2>1. pc' = "placing" /\ cur' = p /\ own' = Pending /\ todo' = todo /\ pc = "idle"
        /\ orders'[p] = Pending
    BY <1>0, <1>8 DEF SubmitSave
  <2>2. Pending.status = "pending"
    BY DEF Pending, NewRow
  <2> QED BY <1>0, <2>1, <2>2
<1>9. ASSUME NEW p \in Orders, SubmitImmediate(p)
      PROVE  CopyTrue'
  <2>1. pc' = "settling" /\ cur' = p /\ own' = Pending /\ orders' = orders
    BY <1>9 DEF SubmitImmediate, Reserve
  <2>2. PICK take \in Plans(Acct(p), Side(p), Detail[p].qty, Limit(p)) : fill' = Execution(take)
    BY <1>9 DEF SubmitImmediate, SubmitPlans, Reserve
  <2>3. Detail[p].qty \in Nat
    BY ConstantsAssumption DEF ConstantsAssumption, OrderData
  <2>4. fill'.filled <= Detail[p].qty /\ fill'.filled \in Nat
    <3>1. fill' \in ExecutionData
      BY <1>9 DEF SubmitImmediate, Reserve
    <3> QED BY <2>2, <2>3, <3>1, PlanFits DEF ExecutionData
  <2>5. p \notin CounterOrders(fill')
    BY <1>0, <2>2, <2>3, OtherAccount
  <2>6. orders[p].filled = 0 /\ orders[p].status = "absent"
    BY <1>9, SavedFresh, UnknownEmpty DEF Live, Records
  <2>7. own'.filled = 0
    BY <2>1 DEF Pending, NewRow
  <2>8. 0 + fill'.filled <= Detail[p].qty
    BY <2>4
  <2> QED BY <2>1, <2>5, <2>6, <2>7, <2>8 DEF CounterOrders
<1>10. ASSUME NEW p \in Orders, SweepExecute(p)
       PROVE  CopyTrue'
  <2>1. pc' = "settling" /\ cur' = p /\ own' = Fired(p) /\ orders' = orders
        /\ pc = "sweeping" /\ p \in todo
    BY <1>10 DEF SweepExecute, Reserve
  <2>2. stale[p] = orders[p] /\ orders[p].status = "pending"
    BY <2>1 DEF Records, WaitTrue, Waiting, Handling
  <2>3. own'.filled = orders[p].filled
    BY <2>1, <2>2, FiredFilled
  <2>4. PICK take \in Plans(Acct(p), Side(p), Remaining(p, stale[p]), Limit(p)) :
          fill' = Execution(take)
    BY <1>10 DEF SweepExecute, SweepPlans, Reserve
  <2>5. /\ Remaining(p, stale[p]) \in Nat
        /\ Remaining(p, stale[p]) = Detail[p].qty - orders[p].filled
        /\ Detail[p].qty \in Nat /\ orders[p].filled \in Int
    <3>1. Detail[p].qty \in Nat /\ stale[p].filled \in Int
      BY <1>0, ConstantsAssumption DEF ConstantsAssumption, OrderData, OrderRow
    <3>2. Remaining(p, stale[p]) > 0
      BY <1>10 DEF SweepExecute, Fires
    <3> QED BY <2>2, <3>1, <3>2 DEF Remaining
  <2>6. fill'.filled <= Detail[p].qty - orders[p].filled /\ fill'.filled \in Nat
    <3>1. fill' \in ExecutionData
      BY <1>10 DEF SweepExecute, Reserve
    <3> QED BY <2>4, <2>5, <3>1, PlanFits DEF ExecutionData
  <2>7. p \notin CounterOrders(fill')
    BY <1>0, <2>4, <2>5, OtherAccount
  <2>8. orders[p].filled + fill'.filled <= Detail[p].qty
    BY <2>5, <2>6
  <2> QED BY <2>1, <2>2, <2>3, <2>7, <2>8 DEF CounterOrders
<1>11. CASE SweepLoad
  BY <1>11 DEF SweepLoad
<1>12. \/ UNCHANGED frame \/ Return \/ pc' \in {"unbook", "sweeping"} \/ SweepLoad
       \/ CancelRead \/ PlaceAndCross \/ SettleCommit \/ SettleAbort
       \/ \E p \in Orders : \/ SweepExecute(p) \/ SubmitImmediate(p)
                            \/ (SubmitSave(p) /\ Rests(p))
  <2>1. ASSUME NEW p \in Orders, SweepReject(p) PROVE pc' = "unbook"
    BY <2>1 DEF SweepReject
  <2> QED BY <2>1, FrameMoves
<1> QED BY <1>1, <1>2, <1>3, <1>4, <1>5, <1>6, <1>7, <1>8, <1>9, <1>10, <1>11, <1>12

(* A step that leaves the settlement open writes no row but its counterparties'
   copies. *)
LEMMA TxRecordedStep ==
  ASSUME ConstantsAssumption, IInv, FillsTrue, Knowledge, QueuedOnce, Calm, Records, [Next]_vars,
         IInv', Calm', FillsTrue'
  PROVE  TxRecorded'
<1>0. /\ tx.ledger \in Ledger /\ tx.ledger.traded \in [Orders -> Nat]
      /\ fill.counter \in [Orders -> Nat] /\ fill.filled \in Nat
      /\ tx.orders \in [Orders -> OrderRow] /\ orders \in [Orders -> OrderRow]
      /\ ledger.traded \in [Orders -> Nat]
  BY DEF IInv, TypeOK, TablesOK, SettlementOK, FrameOK, Ledger, ExecutionData
<1>1. SUFFICES ASSUME tx'.phase # "none" PROVE TxRecorded'
  BY DEF TxRecorded
<1>2. Settling("fill")' /\ tx'.fill = fill' /\ tx'.todo \subseteq CounterOrders(fill)'
  <2>1. ~Settling("liquidate")'
    <3> SUFFICES ASSUME Settling("liquidate")' PROVE FALSE
      OBVIOUS
    <3>1. settlementQueue' \in Seq(SettlementJob) /\ settlementQueue' # <<>>
          /\ Head(settlementQueue').kind = "liquidate"
      BY DEF Settling, IInv, TypeOK, QueuesOK
    <3>2. 1 \in DOMAIN settlementQueue' /\ settlementQueue'[1].kind = "liquidate"
      BY <3>1
    <3> QED BY <3>2 DEF Calm, CalledTrue
  <2> QED BY <1>1, <2>1 DEF FillsTrue, TxFillTrue
<1>3. /\ pc = "settling" /\ cur \in Orders /\ UNCHANGED <<pc, cur, fill>> /\ Settling("fill")
  BY <1>1, <1>2, TxTradedMoves
<1>4. cur \notin CounterOrders(fill)
  BY <1>3 DEF Records, CopyTrue
<1>5. ~SettleCommit
  BY <1>3 DEF SettleCommit, Release
<1>6. \A o \in Orders : orders'[o] = orders[o] /\ ledger'.traded[o] = ledger.traded[o]
  <2> TAKE o \in Orders
  <2>1. ledger'.traded[o] = ledger.traded[o]
    BY <1>5, CalmMoves, TradedMoves
  <2>2. orders'[o] = orders[o]
    BY <1>3, <1>5, QuietWrites
  <2> QED BY <2>1, <2>2
<1>7. CounterOrders(fill)' = CounterOrders(fill) /\ fill' = fill /\ cur' = cur
  BY <1>3 DEF CounterOrders
<1>8. CASE tx.phase # "none" /\ tx' = tx
  <2>1. SUFFICES ASSUME NEW o \in Orders
                 PROVE  IF o = cur THEN tx.ledger.traded[o] = ledger.traded[o] + fill.filled
      ELSE IF o \in CounterOrders(fill) \ tx.todo
           THEN /\ tx.ledger.traded[o] = ledger.traded[o] + fill.counter[o]
                /\ tx.orders[o].filled = tx.ledger.traded[o]
                /\ tx.orders[o] = Progress(o, orders[o], fill.counter[o])
                /\ tx.ledger.traded[o] <= Detail[o].qty
                /\ orders[o].status = "pending"
      ELSE tx.ledger.traded[o] = ledger.traded[o]
    BY <1>6, <1>7, <1>8 DEF TxRecorded
  <2> QED BY <1>8 DEF Records, TxRecorded
<1>9. CASE /\ SettleOwn
           /\ \A p \in Orders : tx'.ledger.traded[p]
                = IF p = cur THEN ledger.traded[p] + fill.filled ELSE ledger.traded[p]
  <2>1. tx'.todo = CounterOrders(fill)
    BY <1>9 DEF SettleOwn
  <2> QED BY <1>6, <1>7, <1>9, <2>1 DEF TxRecorded
<1>10. ASSUME NEW c \in Orders, SettleCounter(c),
              \A p \in Orders : tx'.ledger.traded[p]
                 = IF p = c THEN tx.ledger.traded[p] + tx.fill.counter[c]
                   ELSE tx.ledger.traded[p]
       PROVE  TxRecorded'
  <2>1. /\ tx.phase # "none" /\ tx.fill = fill /\ c \in tx.todo /\ c \in CounterOrders(fill)
        /\ c # cur
    BY <1>4, <1>10, CalmMoves DEF SettleCounter
  <2>2. orders[c].status = "pending" /\ orders[c].filled + fill.counter[c] <= Detail[c].qty
    BY <1>10, <2>1 DEF SettleCounter, CounterOk
  <2>3. tx.ledger.traded[c] = ledger.traded[c] /\ orders[c].filled = ledger.traded[c]
    BY <2>1 DEF Records, TxRecorded, OrdersTrue
  <2>4. tx'.orders[c] = Progress(c, orders[c], fill.counter[c])
        /\ tx'.todo = tx.todo \ {c}
        /\ \A p \in Orders : p # c => tx'.orders[p] = tx.orders[p]
    BY <1>0, <1>10, <2>1 DEF SettleCounter, IInv, TypeOK, SettlementOK
  <2>5. tx'.orders[c].filled = orders[c].filled + fill.counter[c]
    BY <1>0, <2>4, RowFilled
  <2>6. ASSUME NEW o \in Orders
        PROVE  IF o = cur THEN tx'.ledger.traded[o] = ledger.traded[o] + fill.filled
      ELSE IF o \in CounterOrders(fill) \ tx'.todo
           THEN /\ tx'.ledger.traded[o] = ledger.traded[o] + fill.counter[o]
                /\ tx'.orders[o].filled = tx'.ledger.traded[o]
                /\ tx'.orders[o] = Progress(o, orders[o], fill.counter[o])
                /\ tx'.ledger.traded[o] <= Detail[o].qty
                /\ orders[o].status = "pending"
      ELSE tx'.ledger.traded[o] = ledger.traded[o]
    <3>1. CASE o = c
      BY <1>10, <2>1, <2>2, <2>3, <2>4, <2>5, <3>1
    <3>2. CASE o # c
      <4>1. tx'.ledger.traded[o] = tx.ledger.traded[o] /\ tx'.orders[o] = tx.orders[o]
            /\ (o \in tx'.todo <=> o \in tx.todo)
        BY <1>10, <2>4, <3>2
      <4> QED BY <2>1, <4>1 DEF Records, TxRecorded
    <3> QED BY <3>1, <3>2
  <2> QED BY <1>6, <1>7, <2>6 DEF TxRecorded
<1> QED BY <1>1, <1>2, <1>8, <1>9, <1>10, TxTradedMoves

-----------------------------------------------------------------------------
(* Rows match the ledger. *)

(* A row that is history is written by no step, and its order trades no more. *)
LEMMA HistoryStays ==
  ASSUME ConstantsAssumption, IInv, FillsTrue, Knowledge, QueuedOnce, Calm, Records, [Next]_vars,
         NEW o \in Orders, orders[o].status \in {"filled", "cancelled", "partial"}
  PROVE  orders'[o] = orders[o] /\ ledger'.traded[o] = ledger.traded[o]
<1>1. ~(SettleCommit /\ (o = cur \/ o \in CounterOrders(fill)))
  <2>1. SUFFICES ASSUME SettleCommit, o = cur \/ o \in CounterOrders(fill) PROVE FALSE
    OBVIOUS
  <2>2. pc = "settling" /\ tx.phase # "none" /\ tx.todo = {}
    BY <2>1, FillWaits DEF SettleCommit
  <2>3. CASE o = cur
    BY <2>2, <2>3 DEF Records, CopyTrue
  <2>4. CASE o # cur /\ o \in CounterOrders(fill)
    BY <2>2, <2>4 DEF Records, TxRecorded
  <2> QED BY <2>1, <2>3, <2>4
<1>2. orders'[o] = orders[o]
  <2>1. CASE SubmitSave(o) /\ ~Known(o)
    BY <2>1 DEF Known
  <2>2. CASE o = cur /\ pc \in {"failed", "cancelling"}
    BY <2>2 DEF Records, CopyTrue
  <2>3. CASE o \in todo /\ pc = "sweeping"
    BY <2>3 DEF Records, WaitTrue, Waiting, Handling
  <2> QED BY <1>1, <2>1, <2>2, <2>3, QuietWrites
<1>3. ledger'.traded[o] = ledger.traded[o]
  <2>1. CASE SettleCommit /\ ledger' = tx.ledger
    <3>1. o # cur /\ o \notin CounterOrders(fill) /\ tx.phase # "none"
      BY <1>1, <2>1 DEF SettleCommit
    <3> QED BY <2>1, <3>1 DEF Records, TxRecorded
  <2> QED BY <2>1, CalmMoves, TradedMoves
<1> QED BY <1>2, <1>3

(* The records stay true together. *)
LEMMA RecordsStep ==
  ASSUME ConstantsAssumption, AgentOrders = {}, Marginal = {}, NoStaleFill,
         IInv, FillsTrue, Knowledge, QueuedOnce, Calm, Records, [Next]_vars, IInv', FillsTrue'
  PROVE  Calm' /\ Records'
<1>1. Calm'
  BY CalmStep
<1>2. OrdersTrue'
  BY OrdersTrueStep
<1>3. CopyTrue'
  BY CopyTrueStep
<1>4. WaitTrue'
  BY WaitTrueStep
<1>5. TxRecorded'
  BY <1>1, TxRecordedStep
<1> QED BY <1>1, <1>2, <1>3, <1>4, <1>5 DEF Records

(* They are at first. *)
LEMMA InitRecords ==
  ASSUME ConstantsAssumption, Init
  PROVE  Calm /\ Records
<1>1. Calm
  BY DEF Init, Calm, CalledTrue, NoTrade
<1>2. OrdersTrue
  BY ConstantsAssumption DEF Init, OrdersTrue, NoTx, NewRow, OrderData, ConstantsAssumption
<1>3. CopyTrue /\ WaitTrue /\ TxRecorded
  BY DEF Init, CopyTrue, WaitTrue, TxRecorded, Waiting, NoTx, CounterOrders, NoFill
<1> QED BY <1>1, <1>2, <1>3 DEF Records

(* True records are recorded fills. *)
LEMMA RecordsAgree ==
  ASSUME IInv, FillsTrue, Calm, Records
  PROVE  FillsRecorded
<1>1. agent.phase = "idle" /\ tx.phase \in {"none", "counters"}
  BY CalmMoves DEF Calm
<1>2. \A o \in Orders : orders[o].filled \in Int
  BY DEF IInv, TypeOK, TablesOK, OrderRow
<1>3. \A o \in Orders : Unrecorded(o) = 0
  BY <1>1 DEF Unrecorded
<1> QED BY <1>2, <1>3 DEF FillsRecorded, Records, OrdersTrue

(* Without AI traders and margin calls the records stay true as long as no sweep
   fills an order it has still to visit. *)
LEMMA RecordsHold == Undisturbed => (Spec /\ []NoStaleFill => [](Calm /\ Records))
<1>1. SUFFICES ASSUME Undisturbed PROVE Spec /\ []NoStaleFill => [](Calm /\ Records)
  OBVIOUS
<1>2. Init => Calm /\ Records
  BY InitRecords, ConstantsAssumption
<1>3. /\ NoStaleFill /\ IInv /\ (BooksTrue /\ FillsTrue) /\ (Knowledge /\ KeysApart /\ QueuedOnce)
      /\ (Calm /\ Records) /\ [Next]_vars /\ IInv' /\ (BooksTrue /\ FillsTrue)'
      => (Calm /\ Records)'
  BY <1>1, RecordsStep, ConstantsAssumption DEF Undisturbed
<1> QED BY <1>2, <1>3, Inductive, Booked, SubmittedOnce, PTL DEF Spec

(* Then what the orders table says was traded is what the accounts were charged
   for, whoever wrote the row last.  Configurations MCStaleCopy and MCAgentRace
   show what happens without the hypotheses. *)
THEOREM RowsMatchLedger == Undisturbed => (Spec /\ []NoStaleFill => []FillsRecorded)
<1>1. SUFFICES ASSUME Undisturbed PROVE Spec /\ []NoStaleFill => []FillsRecorded
  OBVIOUS
<1>2. IInv /\ (BooksTrue /\ FillsTrue) /\ (Calm /\ Records) => FillsRecorded
  BY RecordsAgree
<1>3. Spec /\ []NoStaleFill => [](Calm /\ Records)
  BY <1>1, RecordsHold
<1> QED BY <1>2, <1>3, Inductive, Booked, PTL

(* ... and a filled, cancelled or partly filled immediate order is never written
   or traded again. *)
THEOREM HistoryIsFinal == Undisturbed => (Spec /\ []NoStaleFill => TerminalIsFinal)
<1>1. SUFFICES ASSUME Undisturbed PROVE Spec /\ []NoStaleFill => TerminalIsFinal
  OBVIOUS
<1>2. IInv /\ (BooksTrue /\ FillsTrue) /\ (Knowledge /\ KeysApart /\ QueuedOnce)
      /\ (Calm /\ Records) /\ [Next]_vars
      => [\A o \in Orders : orders[o].status \in {"filled", "cancelled", "partial"} =>
            orders'[o] = orders[o] /\ ledger'.traded[o] = ledger.traded[o]]_vars
  BY HistoryStays, ConstantsAssumption
<1>3. Spec /\ []NoStaleFill => [](Calm /\ Records)
  BY <1>1, RecordsHold
<1> QED BY <1>2, <1>3, Inductive, Booked, SubmittedOnce, PTL DEF Spec, TerminalIsFinal

(* Without the tick loop's sweep no copy waits, so none can be stale. *)
THEOREM NothingWaits == ~Sweeps => (Spec => []NoStaleFill)
<1>1. SUFFICES ASSUME ~Sweeps PROVE Spec => []NoStaleFill
  OBVIOUS
<1> DEFINE J == /\ \A i \in DOMAIN orderQueue : orderQueue[i].kind # "sweep"
                /\ todo = {} /\ pc # "sweeping"
<1>2. Init => J
  BY DEF Init
<1>3. IInv /\ J /\ [Next]_vars => J'
  <2>1. SUFFICES ASSUME IInv, J, [Next]_vars PROVE J'
    OBVIOUS
  <2>2. orderQueue \in Seq(OrderJob)
    BY <2>1 DEF IInv, TypeOK, QueuesOK
  <2>3. ~Running("sweep")
    BY <2>1, <2>2 DEF Running
  <2>4. \A i \in DOMAIN orderQueue' : orderQueue'[i].kind # "sweep"
    <3>1. CASE orderQueue' = orderQueue
      BY <2>1, <3>1
    <3>2. CASE Return /\ orderQueue # <<>>
      <4>1. \A i \in DOMAIN orderQueue' :
              i + 1 \in DOMAIN orderQueue /\ orderQueue'[i] = orderQueue[i + 1]
        BY <2>2, <3>2 DEF Return
      <4> QED BY <2>1, <4>1
    <3>3. ASSUME NEW kind, NEW o, NEW c, kind # "sweep",
                 orderQueue' = Append(orderQueue, [kind |-> kind, oid |-> o, cash |-> c])
          PROVE  \A i \in DOMAIN orderQueue' : orderQueue'[i].kind # "sweep"
      <4> DEFINE job == [kind |-> kind, oid |-> o, cash |-> c]
      <4>1. job.kind # "sweep" /\ orderQueue' = Append(orderQueue, job)
        BY <3>3
      <4> HIDE DEF job
      <4>2. \A i \in DOMAIN orderQueue' : \/ i \in DOMAIN orderQueue /\ orderQueue'[i] = orderQueue[i]
                                          \/ orderQueue'[i] = job
        BY <2>2, <4>1
      <4> QED BY <2>1, <4>1, <4>2
    <3>4. ASSUME NEW o \in Orders, PlaceOrder(o)
          PROVE  \A i \in DOMAIN orderQueue' : orderQueue'[i].kind # "sweep"
      <4>1. orderQueue' = Append(orderQueue, [kind |-> "submit", oid |-> o, cash |-> ledger.cash[Acct(o)]])
        BY <3>4 DEF PlaceOrder, Enqueue
      <4> QED BY <3>3, <4>1
    <3>5. ASSUME NEW o, Enqueue("cancel", o, 0)
          PROVE  \A i \in DOMAIN orderQueue' : orderQueue'[i].kind # "sweep"
      <4>1. orderQueue' = Append(orderQueue, [kind |-> "cancel", oid |-> o, cash |-> 0])
        BY <3>5 DEF Enqueue
      <4> QED BY <3>3, <4>1
    <3> QED BY <1>1, <2>1, <3>1, <3>2, <3>4, <3>5, OrderQueueMoves, ConstantsAssumption
  <2>5. todo' = {} /\ pc' # "sweeping"
    <3>1. ~SweepLoad /\ ~SweepSettled /\ ~SweepFailed
          /\ \A o \in Orders : ~SweepSkip(o) /\ ~SweepUnfilled(o) /\ ~SweepReject(o) /\ ~SweepExecute(o)
      BY <2>1, <2>3 DEF SweepLoad, SweepSettled, SweepFailed, SweepSkip, SweepUnfilled,
         SweepReject, SweepExecute
    <3>2. CASE UNCHANGED frame
      BY <2>1, <3>2 DEF frame
    <3>3. CASE Return
      BY <3>3 DEF Return
    <3>4. CASE Unbook
      BY <2>1, <2>3, <3>4 DEF Unbook, Return
    <3>5. CASE CancelRead \/ SettleCommit \/ SettleAbort \/ PlaceAndCross
      BY <2>1, <3>5 DEF CancelRead, SettleCommit, SettleAbort, Release, PlaceAndCross, Reserve
    <3>6. ASSUME NEW o \in Orders, SubmitImmediate(o) \/ (SubmitSave(o) /\ Rests(o))
          PROVE  todo' = {} /\ pc' # "sweeping"
      BY <2>1, <3>6 DEF SubmitImmediate, SubmitSave, Reserve
    <3>7. CASE pc' = "unbook" /\ todo' = todo
      BY <2>1, <3>7
    <3> QED BY <2>1, <3>1, <3>2, <3>3, <3>4, <3>5, <3>6, <3>7, FrameMoves
  <2> QED BY <2>4, <2>5
<1>4. J => NoStaleFill
  BY DEF NoStaleFill
<1> HIDE DEF J
<1> QED BY <1>2, <1>3, <1>4, Inductive, PTL DEF Spec

-----------------------------------------------------------------------------
(* What a book shows of an order. *)

(* placeRestingOrder adds one row, or none. *)
LEMMA RestingRows ==
  ASSUME NEW p \in Orders, NEW m \in Nat, NEW s
  PROVE  /\ m = 0 => Resting(p, m, s) = {}
         /\ m > 0 => Resting(p, m, s) = {[oid |-> p, side |-> BookSide(Side(p)),
                                         price |-> Detail[p].price, qty |-> m, seq |-> s]}
BY DEF Resting, Positive

(* A new row shows its own order only. *)
LEMMA ShowsResting ==
  ASSUME NEW b \in SUBSET Row, NEW o \in Orders, NEW n, Shows(b, o, n),
         NEW p \in Orders, NEW m \in Nat, NEW s
  PROVE  /\ p # o => Shows(b \cup Resting(p, m, s), o, n)
         /\ p = o /\ n = 0 => Shows(b \cup Resting(p, m, s), o, m)
<1> DEFINE row == [oid |-> p, side |-> BookSide(Side(p)), price |-> Detail[p].price,
                   qty |-> m, seq |-> s]
<1>1. row.oid = p /\ row.qty = m
  OBVIOUS
<1>2. \A r \in b : r.qty \in Nat \ {0}
  BY DEF Row
<1>3. /\ m = 0 => Resting(p, m, s) = {}
      /\ m > 0 => Resting(p, m, s) = {row}
  BY RestingRows
<1> HIDE DEF row
<1>4. CASE m = 0
  BY <1>2, <1>3, <1>4 DEF Shows
<1>5. CASE m > 0
  <2>1. \A r : r \in b \cup Resting(p, m, s) <=> r \in b \/ r = row
    BY <1>3, <1>5
  <2> QED BY <1>1, <1>2, <2>1, <1>5 DEF Shows
<1> QED BY <1>4, <1>5

(* A removal removes its own order only. *)
LEMMA ShowsRemoveAll ==
  ASSUME NEW b, NEW o \in Orders, NEW n, NEW p
  PROVE  /\ p # o /\ Shows(b, o, n) => Shows(RemoveAll(b, p), o, n)
         /\ p = o => Shows(RemoveAll(b, p), o, 0)
BY DEF Shows, RemoveAll

(* Fresh quotes hide no order. *)
LEMMA ShowsRefresh ==
  ASSUME ConstantsAssumption, NEW b, NEW o \in Orders, NEW n, Shows(b, o, n), NEW mid, NEW s
  PROVE  Shows(Refresh(b, mid, s), o, n)
<1>1. \A r \in Refresh(b, mid, s) : r \in RemoveAll(b, Synthetic) \/ r.oid = Synthetic
  BY DEF Refresh, Positive
<1>2. RemoveAll(b, Synthetic) \subseteq Refresh(b, mid, s)
  BY DEF Refresh
<1>3. Synthetic # o
  BY DEF ConstantsAssumption
<1>4. Shows(RemoveAll(b, Synthetic), o, n)
  BY <1>3, ShowsRemoveAll
<1> QED BY <1>1, <1>2, <1>3, <1>4 DEF Shows

(* What a book shows of an order is the total of its rows. *)
LEMMA ShowsTotal ==
  ASSUME NEW b \in SUBSET Row, NEW o \in Orders, NEW n \in Int, n >= 0, Shows(b, o, n)
  PROVE  SumFunctionOnSet([r \in b |-> r.qty], {r \in b : r.oid = o}) = n
<1> DEFINE f == [r \in b |-> r.qty]
           S == {r \in b : r.oid = o}
<1>1. \A r \in b : r.qty \in Nat \ {0} /\ f[r] = r.qty
  BY DEF Row
<1>2. CASE S = {}
  <2>1. n = 0
    BY <1>2 DEF Shows
  <2> QED BY <1>2, <2>1, SumEmpty
<1>3. ASSUME NEW r \in S PROVE SumFunctionOnSet(f, S) = n
  <2>1. S = {r} /\ r.qty = n
    BY <1>3 DEF Shows
  <2>2. IsFiniteSet(S)
    BY <2>1, FS_Singleton
  <2>3. \A x \in S : f[x] \in Int
    BY <1>1
  <2> HIDE DEF S, f
  <2>4. SumFunctionOnSet(f, S) = f[r] + SumFunctionOnSet(f, S \ {r})
    BY <1>3, <2>2, <2>3, SumRemove
  <2>5. S \ {r} = {} /\ f[r] = n
    BY <1>1, <2>1, <1>3 DEF S
  <2> QED BY <2>4, <2>5, SumEmpty
<1> QED BY <1>2, <1>3

(* A removal by quantity takes it from the one row of its order. *)
LEMMA ShowsRemoveQty ==
  ASSUME NEW b \in SUBSET Row, NEW o \in Orders, NEW n \in Int, Shows(b, o, n),
         NEW p \in Orders, NEW m \in Nat
  PROVE  /\ p # o => Shows(RemoveQty(b, p, m), o, n)
         /\ p = o /\ m < n => Shows(RemoveQty(b, p, m), o, n - m)
         /\ p = o /\ n = 0 => Shows(RemoveQty(b, p, m), o, 0)
<1> DEFINE Behind(r) ==
             SumFunctionOnSet([s \in b |-> s.qty], {s \in b : s.oid = p /\ s.seq > r.seq})
           Cut(r) == IF r.oid # p \/ m <= Behind(r) THEN 0
                     ELSE IF m - Behind(r) < r.qty THEN m - Behind(r) ELSE r.qty
           After(r) == [r EXCEPT !.qty = r.qty - Cut(r)]
<1>0. \A r \in b : r.qty \in Nat \ {0} /\ After(r).oid = r.oid /\ After(r).qty = r.qty - Cut(r)
  BY DEF Row
<1>1. RemoveQty(b, p, m) = {r \in {After(s) : s \in b} : r.qty \in Nat \ {0}}
  BY DEF RemoveQty, Positive
<1>2. CASE p # o
  <2>1. \A r \in b : r.oid = o => After(r) = r
    <3> SUFFICES ASSUME NEW r \in b, r.oid = o PROVE After(r) = r
      OBVIOUS
    <3>1. Cut(r) = 0
      BY <1>2
    <3> QED BY <1>0, <3>1 DEF Row
  <2> HIDE DEF After
  <2>2. \A r \in b : After(r).oid = r.oid
    BY <1>0
  <2>3. \A r : r \in RemoveQty(b, p, m) /\ r.oid = o => r \in b
    BY <1>1, <2>1, <2>2
  <2>4. \A r \in b : r.oid = o => r \in RemoveQty(b, p, m)
    BY <1>0, <1>1, <2>1
  <2> QED BY <1>2, <2>3, <2>4 DEF Shows
<1>3. CASE p = o /\ m < n
  <2>1. PICK r \in b : r.oid = o /\ r.qty = n
    BY <1>3 DEF Shows
  <2>2. {s \in b : s.oid = p /\ s.seq > r.seq} = {}
    <3>1. r.seq \in Nat
      BY <2>1 DEF Row
    <3> QED BY <1>3, <2>1, <3>1 DEF Shows
  <2>3. Behind(r) = 0
    BY <2>2, SumEmpty
  <2>4. Cut(r) = m
    <3> HIDE DEF Behind
    <3> QED BY <1>3, <2>1, <2>3
  <2> HIDE DEF After, Cut
  <2>5. After(r).oid = o /\ After(r).qty = n - m /\ n - m \in Nat \ {0}
    BY <1>0, <1>3, <2>1, <2>4
  <2>6. After(r) \in RemoveQty(b, p, m)
    BY <1>1, <2>1, <2>5
  <2>7. \A s \in RemoveQty(b, p, m) : s.oid = o => s = After(r)
    <3> SUFFICES ASSUME NEW s \in b, After(s).oid = o PROVE After(s) = After(r)
      BY <1>1
    <3>1. s = r
      BY <1>0, <2>1 DEF Shows
    <3> QED BY <3>1
  <2> QED BY <1>3, <2>5, <2>6, <2>7 DEF Shows
<1>4. CASE p = o /\ n = 0
  <2>1. \A r \in b : r.oid # o
    BY <1>0, <1>4 DEF Shows
  <2> HIDE DEF After
  <2>2. \A r \in RemoveQty(b, p, m) : r.oid # o
    BY <1>0, <1>1, <2>1
  <2>3. Shows(RemoveQty(b, p, m), o, 0)
    BY <2>2 DEF Shows
  <2> QED BY <1>4, <2>3
<1> QED BY <1>2, <1>3, <1>4

(* An execution leaves of an order's row what it has not taken. *)
LEMMA ShowsConsume ==
  ASSUME BookOK, NEW rows \in SUBSET book, NEW qty \in Nat, NEW take \in PlansOver(rows, qty),
         NEW o \in Orders, NEW n \in Int, n >= 0, Shows(book, o, n)
  PROVE  /\ Execution(take).counter[o] \in Nat
         /\ Shows(Consume(take), o, n - Execution(take).counter[o])
<1>0. /\ take \in [rows -> 0..qty] /\ DOMAIN take = rows
      /\ \A r \in rows : take[r] \in Nat /\ take[r] <= r.qty
      /\ \A r \in book : r \in Row /\ r.qty \in Nat \ {0}
  BY DEF PlansOver, IsPlan, BookOK, Row
<1> DEFINE Left(r) == IF r \in DOMAIN take THEN [r EXCEPT !.qty = r.qty - take[r]] ELSE r
           S == RowsOf(take, o)
<1>1. Consume(take) = {r \in {Left(s) : s \in book} : r.qty \in Nat \ {0}}
  BY DEF Consume, Positive
<1>2. Execution(take).counter[o] = SumFunctionOnSet(take, S)
  BY DEF Execution, TakenFrom
<1>3. \A r \in book : Left(r).oid = r.oid
                      /\ Left(r).qty = IF r \in rows THEN r.qty - take[r] ELSE r.qty
  BY <1>0 DEF Row
<1>4. S \subseteq rows /\ \A r \in S : r.oid = o /\ r \in book
  BY <1>0 DEF RowsOf
<1> HIDE DEF Left
<1>5. CASE S = {}
  <2>1. Execution(take).counter[o] = 0
    BY <1>2, <1>5, SumEmpty
  <2>2. \A r \in book : r.oid = o => Left(r) = r
    BY <1>0, <1>5 DEF RowsOf, Left
  <2>3. \A r : r \in Consume(take) /\ r.oid = o => r \in book
    BY <1>1, <1>3, <2>2
  <2>4. \A r \in book : r.oid = o => r \in Consume(take)
    BY <1>0, <1>1, <2>2
  <2>5. n - 0 = n
    OBVIOUS
  <2> QED BY <2>1, <2>3, <2>4, <2>5 DEF Shows
<1>6. ASSUME NEW r \in S
      PROVE  /\ Execution(take).counter[o] \in Nat
             /\ Shows(Consume(take), o, n - Execution(take).counter[o])
  <2>1. S = {r} /\ r.qty = n /\ r \in rows /\ r \in book /\ r.oid = o
    BY <1>4, <1>6 DEF Shows
  <2> HIDE DEF S
  <2>2. SumFunctionOnSet(take, S) = take[r] + SumFunctionOnSet(take, S \ {r})
    <3>1. IsFiniteSet(S)
      BY <2>1, FS_Singleton
    <3>2. \A x \in S : take[x] \in Int
      BY <1>0, <2>1
    <3> QED BY <1>6, <3>1, <3>2, SumRemove
  <2>3. Execution(take).counter[o] = take[r]
    <3>1. S \ {r} = {}
      BY <2>1
    <3>2. SumFunctionOnSet(take, S \ {r}) = 0
      BY <3>1, SumEmpty
    <3>3. take[r] \in Nat
      BY <1>0, <2>1
    <3> QED BY <1>2, <2>2, <3>2, <3>3
  <2>4. take[r] \in Nat /\ take[r] <= n
    BY <1>0, <2>1
  <2>5. Left(r).oid = o /\ Left(r).qty = n - take[r]
    BY <1>3, <2>1
  <2>6. \A s \in Consume(take) : s.oid = o => s = Left(r)
    <3> SUFFICES ASSUME NEW s \in book, Left(s).oid = o PROVE Left(s) = Left(r)
      BY <1>1
    <3>1. s = r
      BY <1>3, <2>1 DEF Shows
    <3> QED BY <3>1
  <2>7. n - take[r] > 0 => Left(r) \in Consume(take)
    BY <1>1, <2>1, <2>4, <2>5
  <2> QED BY <2>3, <2>4, <2>5, <2>6, <2>7 DEF Shows
<1> QED BY <1>5, <1>6

-----------------------------------------------------------------------------
(* Quotes follow the mark. *)

(* Which steps move the mark and the reservation. *)
LEMMA MarkMoves ==
  ASSUME [Next]_vars
  PROVE  /\ Tick \/ mark' = mark
         /\ \/ reserved' = reserved
            \/ PlaceAndCross \/ SettleCommit \/ SettleAbort
            \/ \E o \in Orders : SubmitImmediate(o) \/ SweepExecute(o)
<1> USE DEF market, bookVars
<1>1. CASE UNCHANGED vars
  BY <1>1 DEF vars
<1>2. CASE Environment
  BY <1>2 DEF Environment, PlaceOrder, RequestCancel, RequestSweep, MarginCall, Tick, Change
<1>3. CASE OrderHandler
  BY <1>3 DEF OrderHandler, SubmitRefused, SubmitUnfilled, SubmitSave, SubmitImmediate,
     PlaceAndCross, PlaceAndRest, SubmitSettled, SubmitFailed, Unbook, CancelMiss, CancelRead,
     CancelSave, SweepLoad, SweepEnd, SweepSettled, SweepFailed, SweepSkip, SweepReject,
     SweepExecute, SweepUnfilled, Change
<1>4. CASE Settlement
  BY <1>4 DEF Settlement, SettleOwn, SettleCounter, SettleCommit, SettleAbort,
     LiquidationEnd, LiquidationNothing, LiquidationSell, LiquidationRefused,
     LiquidationCounter, LiquidationRead, LiquidationSave, LiquidationFails,
     SettleAgentCounter, SettleAgentFails, Change
<1>5. CASE Agents
  BY <1>5 DEF Agents, AgentTrade, AgentRestore, AgentCounter, AgentRead, AgentSave, AgentDone,
     Change
<1> QED BY <1>1, <1>2, <1>3, <1>4, <1>5 DEF Next

(* Resting rows and removals leave the quotes as they are. *)
LEMMA CurrentOps ==
  ASSUME ConstantsAssumption, NEW b \in SUBSET Row, Current(b)
  PROVE  /\ \A o \in Orders : \A n, s : Current(b \cup Resting(o, n, s))
         /\ \A o : Current(RemoveAll(b, o))
         /\ \A o \in Orders : \A n : Current(RemoveQty(b, o, n))
<1>1. \A o \in Orders : \A n, s : Current(b \cup Resting(o, n, s))
  BY DEF Current, Resting, Positive, ConstantsAssumption
<1>2. \A o : Current(RemoveAll(b, o))
  BY DEF Current, RemoveAll
<1>3. ASSUME NEW o \in Orders, NEW n PROVE Current(RemoveQty(b, o, n))
  <2> DEFINE Behind(s) ==
               SumFunctionOnSet([t \in b |-> t.qty], {t \in b : t.oid = o /\ t.seq > s.seq})
             Cut(s) == IF s.oid # o \/ n <= Behind(s) THEN 0
                       ELSE IF n - Behind(s) < s.qty THEN n - Behind(s) ELSE s.qty
  <2>1. RemoveQty(b, o, n) = Positive({[s EXCEPT !.qty = s.qty - Cut(s)] : s \in b})
    BY DEF RemoveQty
  <2> HIDE DEF Cut
  <2>2. \A s \in b : /\ [s EXCEPT !.qty = s.qty - Cut(s)].oid = s.oid
                     /\ [s EXCEPT !.qty = s.qty - Cut(s)].price = s.price
    BY DEF Row
  <2>3. \A r \in RemoveQty(b, o, n) : \E s \in b : r.oid = s.oid /\ r.price = s.price
    <3> SUFFICES ASSUME NEW s \in b, NEW r, r = [s EXCEPT !.qty = s.qty - Cut(s)]
                 PROVE  \E t \in b : r.oid = t.oid /\ r.price = t.price
      BY <2>1 DEF Positive
    <3> QED BY <2>2
  <2> QED BY <2>3 DEF Current
<1> QED BY <1>1, <1>2, <1>3

(* So does an execution. *)
LEMMA CurrentConsume ==
  ASSUME BookOK, Current(book), NEW take
  PROVE  Current(Consume(take))
<1>1. ASSUME NEW r \in Consume(take) PROVE \E s \in book : r.oid = s.oid /\ r.price = s.price
  BY <1>1 DEF Consume, Positive, BookOK, Row
<1> QED BY <1>1 DEF Current

(* Fresh quotes are the new mark's. *)
LEMMA CurrentRefresh ==
  ASSUME NEW b, NEW m, NEW s
  PROVE  \A r \in Refresh(b, m, s) : r.oid = Synthetic => r.price \in {m - Spread, m + Spread}
BY DEF Refresh, Positive, RemoveAll

(* Every step keeps the quotes of the books that will be published current. *)
LEMMA QuotesCurrentStep ==
  ASSUME ConstantsAssumption, IInv, QuotesCurrent, [Next]_vars
  PROVE  QuotesCurrent'
<1>0. /\ BookOK /\ book \in SUBSET Row /\ onCommit \in SUBSET Row /\ onRollback \in SUBSET Row
      /\ book \in Books /\ onCommit \in Books /\ onRollback \in Books
  BY DEF IInv, TypeOK, BookOK, Books
<1>1. CASE Tick
  <2>1. \A b : \A r \in Refresh(b, mark', quoteSequence) :
           r.oid = Synthetic => r.price \in {mark' - Spread, mark' + Spread}
    BY CurrentRefresh
  <2>2. \/ /\ reserved /\ reserved' = reserved
           /\ onCommit' = Refresh(onCommit, mark', quoteSequence)
           /\ onRollback' = Refresh(onRollback, mark', quoteSequence)
        \/ ~reserved /\ reserved' = reserved /\ book' = Refresh(book, mark', quoteSequence)
    BY <1>0, <1>1 DEF Tick, Change
  <2> QED BY <2>1, <2>2 DEF QuotesCurrent, Current
<1>2. CASE mark' = mark
  <2>0. \A b : Current(b)' <=> \A r \in b' : r.oid = Synthetic => r.price \in {mark - Spread, mark + Spread}
    BY <1>2 DEF Current
  <2>1. CASE UNCHANGED <<book, onCommit, onRollback, reserved>>
    BY <1>2, <2>1 DEF QuotesCurrent, Current
  <2>2. ASSUME NEW changed, Change(changed), \A b \in Books : Current(b) => Current(changed[b])
        PROVE  QuotesCurrent'
    <3>1. CASE reserved
      <4>1. onCommit' = changed[onCommit] /\ onRollback' = changed[onRollback] /\ reserved'
        BY <2>2, <3>1 DEF Change
      <4>2. Current(changed[onCommit]) /\ Current(changed[onRollback])
        BY <1>0, <2>2, <3>1 DEF QuotesCurrent
      <4> QED BY <1>2, <4>1, <4>2 DEF QuotesCurrent, Current
    <3>2. CASE ~reserved
      <4>1. book' = changed[book] /\ ~reserved'
        BY <2>2, <3>2 DEF Change
      <4>2. Current(changed[book])
        BY <1>0, <2>2, <3>2 DEF QuotesCurrent
      <4> QED BY <1>2, <4>1, <4>2 DEF QuotesCurrent, Current
    <3> QED BY <3>1, <3>2
  <2>3. ASSUME NEW o \in Orders, NEW n, Change([b \in Books |-> b \cup Resting(o, n, quoteSequence)])
        PROVE  QuotesCurrent'
    <3>1. \A b \in Books : Current(b) => Current(b \cup Resting(o, n, quoteSequence))
      BY <1>0, CurrentOps DEF Books
    <3> QED BY <2>2, <2>3, <3>1
  <2>4. CASE Unbook
    <3>1. \A b \in Books : Current(b) => Current(RemoveAll(b, cur))
      BY <1>0, CurrentOps DEF Books
    <3>2. Change([b \in Books |-> RemoveAll(b, cur)])
      BY <2>4 DEF Unbook
    <3> QED BY <2>2, <3>1, <3>2
  <2>5. CASE PlaceAndRest
    <3>1. cur \in Orders
      BY <2>5 DEF PlaceAndRest, IInv, LocalsInPlace
    <3> QED BY <2>3, <2>5, <3>1 DEF PlaceAndRest
  <2>6. CASE AgentRestore
    <3>1. agent.order \in Orders
      BY <2>6 DEF AgentRestore, IInv, AgentDiscipline
    <3> QED BY <2>3, <2>6, <3>1 DEF AgentRestore
  <2>7. ASSUME NEW o \in Orders, LiquidationRefused(o) PROVE QuotesCurrent'
    BY <2>3, <2>7 DEF LiquidationRefused
  <2>8. ASSUME NEW o \in Orders, NEW take, NEW extra, Reserve(o, take, extra),
               \A b \in SUBSET Row : Current(b) => Current(b \cup extra),
               Consume(take) \in SUBSET Row
        PROVE  QuotesCurrent'
    <3>1. ~reserved /\ reserved' /\ onCommit' = Consume(take) \cup extra /\ onRollback' = book \cup extra
      BY <2>8 DEF Reserve
    <3>2. Current(book) /\ Current(Consume(take))
      BY <1>0, <3>1, CurrentConsume DEF QuotesCurrent
    <3>3. Current(book \cup extra) /\ Current(Consume(take) \cup extra)
      BY <1>0, <2>8, <3>2
    <3> QED BY <1>2, <3>1, <3>3 DEF QuotesCurrent, Current
  <2>9. CASE PlaceAndCross
    <3>1. PICK take \in Plans(Acct(cur), Side(cur), Detail[cur].qty, Detail[cur].price) :
             Reserve(cur, take, Resting(cur, Detail[cur].qty, quoteSequence))
      BY <2>9 DEF PlaceAndCross
    <3>2. cur \in Orders
      BY <2>9 DEF PlaceAndCross, IInv, LocalsInPlace
    <3>3. Consume(take) \in SUBSET Row
      BY <1>0, ConsumeRows
    <3>4. \A b \in SUBSET Row : Current(b) => Current(b \cup Resting(cur, Detail[cur].qty, quoteSequence))
      BY <3>2, CurrentOps
    <3> QED BY <2>8, <3>1, <3>2, <3>3, <3>4
  <2>10. ASSUME NEW o \in Orders, SubmitImmediate(o) \/ SweepExecute(o) PROVE QuotesCurrent'
    <3>1. PICK take : Reserve(o, take, {})
      BY <2>10 DEF SubmitImmediate, SweepExecute
    <3>2. Consume(take) \in SUBSET Row
      BY <1>0, ConsumeRows
    <3>3. \A b \in SUBSET Row : Current(b) => Current(b \cup {})
      <4>1. \A b : b \cup {} = b
        OBVIOUS
      <4> QED BY <4>1
    <3> QED BY <2>8, <3>1, <3>2, <3>3
  <2>11. CASE SettleCommit
    <3>1. cur \in Orders /\ reserved /\ ~reserved' /\ book' = OwnTraded(onCommit)
      BY <2>11, FillWaits DEF SettleCommit, Release
    <3>2. Current(onCommit)
      BY <3>1 DEF QuotesCurrent
    <3>3. Current(OwnTraded(onCommit))
      BY <1>0, <3>1, <3>2, CurrentOps DEF OwnTraded
    <3> QED BY <1>2, <3>1, <3>3 DEF QuotesCurrent, Current
  <2>12. CASE SettleAbort
    <3>1. reserved /\ ~reserved' /\ book' = onRollback
      BY <2>12, FillWaits DEF SettleAbort, Release
    <3> QED BY <1>2, <3>1 DEF QuotesCurrent, Current
  <2>13. ASSUME NEW take, book' = Consume(take), ~reserved, reserved' = reserved
         PROVE QuotesCurrent'
    <3>1. Current(Consume(take))
      BY <1>0, <2>13, CurrentConsume DEF QuotesCurrent
    <3> QED BY <1>2, <2>13, <3>1 DEF QuotesCurrent, Current
  <2>14. ASSUME NEW a \in Accounts, LiquidationSell(a) PROVE QuotesCurrent'
    <3>1. ~reserved /\ reserved' = reserved
      BY <2>14 DEF LiquidationSell, LiquidationPlans
    <3>2. PICK take : book' = Consume(take)
      BY <2>14 DEF LiquidationSell
    <3> QED BY <2>13, <3>1, <3>2
  <2>15. ASSUME NEW x \in AgentOrders, AgentTrade(x) PROVE QuotesCurrent'
    <3>1. ~reserved /\ reserved' = reserved
      BY <2>15 DEF AgentTrade
    <3>2. PICK take : book' = Consume(take)
      BY <2>15 DEF AgentTrade
    <3> QED BY <2>13, <3>1, <3>2
  <2>16. CASE UNCHANGED <<book, onCommit, onRollback>>
    BY <2>1, <2>9, <2>10, <2>11, <2>12, <2>16, MarkMoves
  <2>17. CASE Tick
    BY <1>1, <2>17
  <2> QED BY <2>4, <2>5, <2>6, <2>7, <2>9, <2>10, <2>11, <2>12, <2>14, <2>15, <2>16, <2>17,
             BookMoves
<1> QED BY <1>1, <1>2, MarkMoves

(* Once waiting changes are applied, the quotes are the last mark's. *)
THEOREM QuotesFollowMark == Spec => []QuotesCurrent
<1>1. Init => QuotesCurrent
  BY CurrentRefresh DEF Init, QuotesCurrent, Current
<1>2. IInv /\ QuotesCurrent /\ [Next]_vars => QuotesCurrent'
  BY ConstantsAssumption, QuotesCurrentStep
<1> QED BY <1>1, <1>2, Inductive, PTL DEF Spec

-----------------------------------------------------------------------------
(* The book matches the orders table: the commit. *)

Apart == {"placing", "settling", "unbook"}
books == <<book, onCommit, onRollback, reserved>>

(* What is left of the next-state relation in the calm. *)
LEMMA CalmActions ==
  ASSUME Undisturbed, IInv, FillsTrue, Calm, [Next]_vars
  PROVE  \/ UNCHANGED <<frame, orders, books>>
         \/ UNCHANGED <<orders, books>> /\ pc \notin Apart /\ pc' \notin Apart
         \/ Tick \/ PlaceAndCross \/ PlaceAndRest \/ Unbook \/ SettleCommit \/ SettleAbort
         \/ SweepSettled
         \/ /\ SubmitFailed \/ CancelSave \/ SweepFailed
            /\ pc \in {"failed", "cancelling"} /\ pc' = "unbook" /\ cur' = cur
            /\ orders' = [orders EXCEPT ![cur] = [own EXCEPT !.status = "cancelled"]]
            /\ UNCHANGED books
         \/ /\ SweepFailed /\ pc = "failed" /\ pc' = "sweeping" /\ Type(cur) \in Stops
            /\ orders' = [orders EXCEPT ![cur] = [own EXCEPT !.retries = @ + 1]]
            /\ UNCHANGED books
         \/ \E o \in Orders : \/ SubmitSave(o) \/ SubmitImmediate(o) \/ SweepReject(o)
                              \/ SweepExecute(o) \/ SweepUnfilled(o)
<1> USE DEF bookVars, books, frame
<1>1. CASE UNCHANGED vars
  BY <1>1 DEF vars
<1>2. CASE Environment
  BY <1>2 DEF Environment, PlaceOrder, RequestCancel, RequestSweep, MarginCall
<1>3. CASE OrderHandler
  <2>1. ASSUME \/ SubmitRefused \/ SubmitSettled \/ CancelMiss \/ CancelRead \/ SweepLoad \/ SweepEnd
               \/ \E o \in Orders : SubmitUnfilled(o) \/ SweepSkip(o)
        PROVE  UNCHANGED <<orders, books>> /\ pc \notin Apart /\ pc' \notin Apart
    BY <2>1 DEF SubmitRefused, SubmitUnfilled, SubmitSettled, CancelMiss, CancelRead, SweepLoad,
       SweepEnd, SweepSkip, Return, Apart
  <2>2. CASE SubmitFailed
    BY <2>2 DEF SubmitFailed, Return, Apart
  <2>3. CASE CancelSave
    BY <2>3 DEF CancelSave
  <2>4. CASE SweepFailed
    BY <2>4 DEF SweepFailed
  <2> QED BY <1>3, <2>1, <2>2, <2>3, <2>4 DEF OrderHandler
<1>4. CASE Settlement
  <2>1. ~Settling("liquidate") /\ ~SettleAgentCounter /\ ~Settling("counter")
    BY CalmSettles, CalmMoves
  <2> QED BY <1>4, <2>1 DEF Settlement, SettleOwn, SettleCounter, LiquidationEnd,
     LiquidationNothing, LiquidationSell, LiquidationRefused, LiquidationCounter,
     LiquidationRead, LiquidationSave, LiquidationFails, SettleAgentFails
<1>5. CASE Agents
  BY <1>5 DEF Agents, AgentTrade, AgentRestore, AgentCounter, AgentRead, AgentSave, AgentDone,
     Calm, Undisturbed
<1> QED BY <1>1, <1>2, <1>3, <1>4, <1>5 DEF Next

(* An order never owes less than nothing. *)
LEMMA OwedNat ==
  ASSUME ConstantsAssumption, IInv, OrdersTrue, NEW o \in Orders
  PROVE  /\ Owed(o) \in Nat /\ Detail[o].qty \in Nat
         /\ orders[o].filled \in Nat /\ orders[o].filled <= Detail[o].qty
<1>1. ledger.traded[o] \in Nat /\ Detail[o].qty \in Nat
  BY DEF IInv, TypeOK, TablesOK, Ledger, ConstantsAssumption, OrderData
<1> QED BY <1>1 DEF OrdersTrue, Owed

(* An order that is no counterparty gives nothing. *)
LEMMA NotCounter ==
  ASSUME IInv, NEW o \in Orders, o \notin CounterOrders(fill)
  PROVE  fill.counter[o] = 0
BY DEF IInv, TypeOK, FrameOK, ExecutionData, CounterOrders

(* Publishing an execution. *)
LEMMA ShownReserve ==
  ASSUME ConstantsAssumption, IInv, OrdersTrue, NEW acct, NEW side, NEW qty \in Nat, NEW limit,
         NEW take \in Plans(acct, side, qty, limit), NEW o \in Orders, NEW n \in Nat,
         Shows(book, o, n)
  PROVE  Shows(Consume(take), o, n - Execution(take).counter[o])
<1>1. Executable(acct, side, limit) \in SUBSET book
  BY DEF Executable
<1>2. take \in PlansOver(Executable(acct, side, limit), qty)
  BY DEF Plans
<1> QED BY <1>1, <1>2, ShowsConsume DEF IInv, TypeOK

(* What the commit leaves of the rows of the two sides. *)
LEMMA CommitShows ==
  ASSUME ConstantsAssumption, StopsUnpriced, IInv, FillsTrue, Calm, Records, Shown, Placed,
         SettleCommit, NEW o \in Orders
  PROVE  Shows(book', o, Owed(o)')
<1>0. /\ reserved /\ pc = "settling" /\ cur \in Orders /\ tx.phase # "none" /\ tx.todo = {}
      /\ tx.fill = fill /\ onCommit \in SUBSET Row
      /\ own \in OrderRow /\ fill.filled \in Nat /\ fill.counter \in [Orders -> Nat]
  BY FillWaits, CalmMoves DEF SettleCommit, IInv, TypeOK, BookOK, FrameOK, ExecutionData
<1>1. /\ book' = OwnTraded(onCommit)
      /\ Owed(o)' = IF orders'[o].status = "pending" /\ Rests(o)
                    THEN Detail[o].qty - orders'[o].filled ELSE 0
  BY DEF SettleCommit, Release, Owed, Rests
<1>2. Shows(onCommit, o, Owed(o) - fill.counter[o])
  BY <1>0 DEF Shown
<1>3. /\ Owed(o) \in Nat /\ Detail[o].qty \in Nat
      /\ orders[o].filled \in Nat /\ orders[o].filled <= Detail[o].qty
  BY OwedNat DEF Records
<1>4. CASE o = cur
  <2>1. fill.counter[o] = 0
    BY <1>0, <1>4, NotCounter DEF Records, CopyTrue
  <2>2. Shows(onCommit, o, Owed(o))
    <3>1. Owed(o) - fill.counter[o] = Owed(o)
      BY <1>3, <2>1
    <3> QED BY <1>2, <3>1
  <2>3. orders'[o] = Progress(o, own, fill.filled) /\ own.filled = orders[o].filled
    BY <1>0, <1>4 DEF SettleCommit, Records, CopyTrue
  <2>4. /\ orders'[o].filled = own.filled + fill.filled
        /\ orders'[o].status = IF own.filled + fill.filled >= Detail[o].qty THEN "filled"
                               ELSE IF Type(o) \in Immediate THEN "partial" ELSE "pending"
    BY <1>0, <2>3 DEF Progress, OrderRow
  <2>5. CASE ~Rests(o)
    <3>1. Owed(o) = 0 /\ Owed(o)' = 0
      BY <1>1, <2>5 DEF Owed
    <3>2. Shows(onCommit, o, 0)
      BY <2>2, <3>1
    <3>3. Shows(RemoveAll(onCommit, o), o, 0)
      BY ShowsRemoveAll
    <3>4. Shows(RemoveQty(onCommit, o, fill.filled), o, 0)
      <4>1. ASSUME NEW n \in Int, n = 0 PROVE Shows(RemoveQty(onCommit, o, fill.filled), o, 0)
        <5>1. Shows(onCommit, o, n)
          BY <3>2, <4>1
        <5> QED BY <1>0, <4>1, <5>1, ShowsRemoveQty
      <4> QED BY <4>1
    <3>5. Shows(OwnTraded(onCommit), o, 0)
      BY <1>4, <3>2, <3>3, <3>4 DEF OwnTraded
    <3> QED BY <1>1, <3>1, <3>5
  <2>6. CASE Rests(o)
    <3>1. orders[o].status = "pending" /\ Owed(o) = Detail[o].qty - own.filled
          /\ Type(o) \notin Immediate
      BY <1>0, <1>4, <2>3, <2>6 DEF Placed, Owed, Rests
    <3>2. CASE own.filled + fill.filled >= Detail[o].qty
      <4>1. Owed(o)' = 0
        BY <1>1, <2>4, <3>2
      <4>2. Shows(OwnTraded(onCommit), o, 0)
        BY <1>4, <3>1, <3>2, ShowsRemoveAll DEF OwnTraded
      <4> QED BY <1>1, <4>1, <4>2
    <3>3. CASE ~(own.filled + fill.filled >= Detail[o].qty)
      <4>1. Owed(o)' = Owed(o) - fill.filled /\ fill.filled < Owed(o)
        BY <1>0, <1>1, <1>3, <2>3, <2>4, <2>6, <3>1, <3>3
      <4>2. OwnTraded(onCommit) = RemoveQty(onCommit, o, fill.filled)
        BY <1>4, <3>1, <3>3 DEF OwnTraded
      <4>3. Shows(RemoveQty(onCommit, o, fill.filled), o, Owed(o) - fill.filled)
        <5> DEFINE n == Owed(o)
        <5>1. n \in Int /\ fill.filled < n /\ Shows(onCommit, o, n)
          BY <1>3, <2>2, <4>1
        <5> HIDE DEF n
        <5>2. Shows(RemoveQty(onCommit, o, fill.filled), o, n - fill.filled)
          BY <1>0, <5>1, ShowsRemoveQty
        <5> QED BY <5>2 DEF n
      <4> QED BY <1>1, <4>1, <4>2, <4>3
    <3> QED BY <3>2, <3>3
  <2> QED BY <2>5, <2>6
<1>5. CASE o # cur
  <2>1. Owed(o) - fill.counter[o] \in Int
    BY <1>0, <1>3
  <2>2. Shows(OwnTraded(onCommit), o, Owed(o) - fill.counter[o])
    BY <1>0, <1>2, <1>5, <2>1, ShowsRemoveAll, ShowsRemoveQty DEF OwnTraded
  <2>3. CASE o \in CounterOrders(fill)
    <3>1. /\ orders'[o] = Progress(o, orders[o], fill.counter[o])
          /\ orders[o].status = "pending" /\ Rests(o)
          /\ tx.ledger.traded[o] = ledger.traded[o] + fill.counter[o]
          /\ tx.ledger.traded[o] <= Detail[o].qty /\ orders[o].filled = ledger.traded[o]
      BY <1>0, <1>5, <2>3
         DEF SettleCommit, Records, TxRecorded, OrdersTrue, FillsTrue, OwnFillTrue, Balanced
    <3>2. orders[o] \in OrderRow /\ Type(o) \notin Immediate
      BY <3>1 DEF IInv, TypeOK, TablesOK, Rests
    <3>3. /\ orders'[o].filled = orders[o].filled + fill.counter[o]
          /\ orders'[o].status = IF orders[o].filled + fill.counter[o] >= Detail[o].qty
                                 THEN "filled" ELSE "pending"
      BY <3>1, <3>2 DEF Progress, OrderRow
    <3>4. Owed(o) = Detail[o].qty - orders[o].filled
      BY <3>1 DEF Owed
    <3>5. Owed(o)' = Owed(o) - fill.counter[o]
      BY <1>0, <1>1, <1>3, <3>1, <3>3, <3>4
    <3> QED BY <1>1, <2>2, <3>5
  <2>4. CASE o \notin CounterOrders(fill)
    <3>1. orders'[o] = orders[o] /\ fill.counter[o] = 0
      BY <1>0, <1>5, <2>4, NotCounter DEF SettleCommit
    <3>2. Owed(o)' = Owed(o) - fill.counter[o]
      BY <1>1, <1>3, <3>1 DEF Owed
    <3> QED BY <1>1, <2>2, <3>2
  <2> QED BY <2>3, <2>4
<1> QED BY <1>4, <1>5

-----------------------------------------------------------------------------
(* The book matches the orders table. *)

(* Every step keeps the books showing what the orders owe. *)
LEMMA ShownStep ==
  ASSUME ConstantsAssumption, Undisturbed, StopsUnpriced, IInv, FillsTrue, Knowledge, QueuedOnce,
         Calm, Records, Shown, Placed, [Next]_vars
  PROVE  Shown' /\ Placed'
<1>0. /\ BookOK /\ book \in SUBSET Row /\ onCommit \in SUBSET Row /\ onRollback \in SUBSET Row
      /\ book \in Books /\ onCommit \in Books /\ onRollback \in Books
      /\ orders \in [Orders -> OrderRow] /\ own \in OrderRow
      /\ (reserved <=> pc = "settling") /\ reserved \in BOOLEAN
      /\ \A o \in Orders : Owed(o) \in Nat
      /\ (pc \notin {"idle", "sweeping"} => cur \in Orders)
  BY OwedNat
     DEF IInv, TypeOK, BookOK, Books, TablesOK, FrameOK, ReservationDiscipline, LocalsInPlace, Records
<1>1. \A o \in Orders : Owed(o)' = IF orders'[o].status = "pending" /\ Rests(o)
                                   THEN Detail[o].qty - orders'[o].filled ELSE 0
  BY DEF Owed, Rests
<1>2. \A o \in Orders : orders'[o] = orders[o] => Owed(o)' = Owed(o)
  BY <1>1 DEF Owed
<1>3. \A o \in Orders : Shows(book', o, Owed(o)') <=> Shows(book, o, Owed(o))'
  BY DEF Shows
(* A step outside the handler's critical states that leaves the books alone. *)
<1>4. ASSUME UNCHANGED books, pc \notin {"placing", "settling", "unbook"},
             \A o \in Orders : (pc' \in {"placing", "unbook"} /\ o = cur') \/ Owed(o)' = Owed(o)
      PROVE  Shown'
  BY <1>0, <1>4 DEF Shown, Shows, books
<1>5. CASE UNCHANGED <<frame, orders, books>>
  <2>1. UNCHANGED <<pc, cur, fill, orders, book, onCommit, onRollback, reserved>>
    BY <1>5 DEF frame, books
  <2>2. Shown'
    BY <1>2, <2>1 DEF Shown, Shows
  <2>3. Placed'
    BY <2>1 DEF Placed, Rests, Shows
  <2> QED BY <2>2, <2>3
<1>6. CASE UNCHANGED <<orders, books>> /\ pc \notin Apart /\ pc' \notin Apart
  <2>1. Shown'
    BY <1>2, <1>4, <1>6 DEF Apart
  <2> QED BY <1>6, <2>1 DEF Apart, Placed
<1>7. CASE Tick
  <2>1. UNCHANGED <<pc, cur, fill, orders, reserved>>
    BY <1>7 DEF Tick, frame, Change
  <2>2. \A b \in Books : \A o \in Orders : \A n : Shows(b, o, n) => Shows(Refresh(b, mark', quoteSequence), o, n)
    BY ShowsRefresh
  <2>3. CASE reserved
    <3>1. /\ onCommit' = Refresh(onCommit, mark', quoteSequence)
          /\ onRollback' = Refresh(onRollback, mark', quoteSequence) /\ UNCHANGED book
      BY <1>0, <1>7, <2>3 DEF Tick, Change
    <3>2. ASSUME NEW o \in Orders
          PROVE  Shows(onRollback', o, Owed(o)) /\ Shows(onCommit', o, Owed(o) - fill.counter[o])
      BY <1>0, <2>2, <2>3, <3>1 DEF Shown
    <3>3. Shown'
      BY <1>2, <2>1, <2>3, <3>2 DEF Shown, Shows
    <3>4. Placed'
      BY <2>1, <3>1 DEF Placed, Rests, Shows
    <3> QED BY <3>3, <3>4
  <2>4. CASE ~reserved
    <3>1. book' = Refresh(book, mark', quoteSequence)
      BY <1>0, <1>7, <2>4 DEF Tick, Change
    <3>2. ASSUME NEW o \in Orders, ~(pc \in {"placing", "unbook"} /\ o = cur)
          PROVE  Shows(book', o, Owed(o))
      BY <1>0, <2>2, <2>4, <3>1, <3>2 DEF Shown
    <3>3. Shown'
      BY <1>2, <2>1, <2>4, <3>2 DEF Shown, Shows
    <3>4. pc = "placing" => Shows(book', cur, 0)
      BY <1>0, <2>2, <3>1 DEF Placed
    <3>5. Placed'
      BY <2>1, <3>4 DEF Placed, Rests, Shows
    <3> QED BY <3>3, <3>5
  <2> QED BY <2>3, <2>4
<1>8. CASE PlaceAndRest
  <2>1. /\ pc = "placing" /\ pc' = "idle" /\ ~reserved /\ cur \in Orders /\ Rests(cur)
        /\ UNCHANGED <<orders, reserved>>
    BY <1>0, <1>8 DEF PlaceAndRest, Return, Change, FillsTrue, OwnFillTrue
  <2>2. book' = book \cup Resting(cur, Detail[cur].qty, quoteSequence)
    BY <1>0, <1>8, <2>1 DEF PlaceAndRest, Change
  <2>3. orders[cur] = Pending /\ Shows(book, cur, 0) /\ Detail[cur].qty \in Nat
    BY <2>1, OwedNat DEF Placed, Records
  <2>4. Owed(cur) = Detail[cur].qty
    BY <2>1, <2>3 DEF Owed, Pending, NewRow
  <2>5. ASSUME NEW o \in Orders PROVE Shows(book', o, Owed(o))
    <3>1. CASE o = cur
      BY <1>0, <2>2, <2>3, <2>4, <3>1, ShowsResting
    <3>2. CASE o # cur
      <4>1. Shows(book, o, Owed(o))
        BY <2>1, <3>2 DEF Shown
      <4> QED BY <1>0, <2>1, <2>2, <2>3, <3>2, <4>1, ShowsResting
    <3> QED BY <3>1, <3>2
  <2>6. Shown'
    BY <1>2, <2>1, <2>5 DEF Shown, Shows
  <2> QED BY <2>1, <2>6 DEF Placed
<1>9. CASE Unbook
  <2>1. /\ pc = "unbook" /\ pc' \in {"idle", "sweeping"} /\ ~reserved /\ cur \in Orders
        /\ UNCHANGED <<orders, reserved>>
    BY <1>0, <1>9 DEF Unbook, Return, Change
  <2>2. book' = RemoveAll(book, cur)
    BY <1>0, <1>9, <2>1 DEF Unbook, Change
  <2>3. ASSUME NEW o \in Orders PROVE Shows(book', o, Owed(o))
    <3>1. CASE o = cur
      <4>1. Owed(o) = 0
        BY <2>1, <3>1 DEF Placed, Owed
      <4> QED BY <2>2, <3>1, <4>1, ShowsRemoveAll
    <3>2. CASE o # cur
      <4>1. Shows(book, o, Owed(o))
        BY <2>1, <3>2 DEF Shown
      <4> QED BY <2>2, <3>2, <4>1, ShowsRemoveAll
    <3> QED BY <3>1, <3>2
  <2>4. Shown'
    BY <1>2, <2>1, <2>3 DEF Shown, Shows
  <2> QED BY <2>1, <2>4 DEF Placed
<1>10. ASSUME NEW o \in Orders, SubmitImmediate(o) \/ SweepExecute(o) PROVE Shown' /\ Placed'
  <2>1. /\ pc \in {"idle", "sweeping"} /\ pc' = "settling" /\ cur' = o /\ orders' = orders
        /\ ~reserved /\ reserved'
    BY <1>10 DEF SubmitImmediate, SweepExecute, Reserve
  <2>20. PICK qty \in Nat : \E take \in Plans(Acct(o), Side(o), qty, Limit(o)) : Reserve(o, take, {})
    <3>1. CASE SubmitImmediate(o)
      <4>1. Detail[o].qty \in Nat
        BY OwedNat DEF Records
      <4> QED BY <3>1, <4>1 DEF SubmitImmediate, SubmitPlans
    <3>2. CASE SweepExecute(o)
      <4>1. Remaining(o, stale[o]) \in Nat
        <5>1. Detail[o].qty \in Nat /\ stale[o].filled \in Int /\ Remaining(o, stale[o]) > 0
          BY <3>2, OwedNat DEF Records, SweepExecute, Fires, IInv, TypeOK, FrameOK, OrderRow
        <5> QED BY <5>1 DEF Remaining
      <4> QED BY <3>2, <4>1 DEF SweepExecute, SweepPlans
    <3> QED BY <1>10, <3>1, <3>2
  <2>2. PICK take \in Plans(Acct(o), Side(o), qty, Limit(o)) :
          /\ fill' = Execution(take)
          /\ onCommit' = Consume(take) \cup {}
          /\ onRollback' = book \cup {}
    BY <2>20 DEF Reserve
  <2>3. ASSUME NEW p \in Orders
        PROVE  Shows(onRollback', p, Owed(p)) /\ Shows(onCommit', p, Owed(p) - fill'.counter[p])
    <3>1. Shows(book, p, Owed(p)) /\ Owed(p) \in Nat
      BY <1>0, <2>1 DEF Shown
    <3>2. Shows(Consume(take), p, Owed(p) - Execution(take).counter[p])
      BY <3>1, ShownReserve DEF Records
    <3>3. onCommit' = Consume(take) /\ onRollback' = book
      BY <2>2
    <3> QED BY <2>2, <3>1, <3>2, <3>3
  <2>4. Shown'
    BY <1>2, <2>1, <2>3 DEF Shown, Shows
  <2>5. Rests(o) => orders[o].status = "pending"
    <3>1. CASE SubmitImmediate(o)
      BY <3>1 DEF SubmitImmediate, Rests
    <3>2. CASE SweepExecute(o)
      <4>1. Waiting(o)
        BY <3>2 DEF SweepExecute, Waiting, Handling
      <4> QED BY <4>1 DEF Records, WaitTrue
    <3> QED BY <1>10, <3>1, <3>2
  <2>6. Placed'
    BY <2>1, <2>5 DEF Placed, Rests
  <2> QED BY <2>4, <2>6
<1>11. CASE PlaceAndCross
  <2>1. /\ pc = "placing" /\ pc' = "settling" /\ cur' = cur /\ orders' = orders /\ cur \in Orders
        /\ ~reserved /\ reserved' /\ Rests(cur)
    BY <1>0, <1>11 DEF PlaceAndCross, Reserve, FillsTrue, OwnFillTrue
  <2> DEFINE extra == Resting(cur, Detail[cur].qty, quoteSequence)
  <2>2. PICK take \in Plans(Acct(cur), Side(cur), Detail[cur].qty, Detail[cur].price) :
          /\ fill' = Execution(take) /\ Execution(take) \in ExecutionData
          /\ onCommit' = Consume(take) \cup extra
          /\ onRollback' = book \cup extra
    BY <1>11 DEF PlaceAndCross, Reserve
  <2>3. orders[cur] = Pending /\ Shows(book, cur, 0) /\ Detail[cur].qty \in Nat
    BY <2>1, OwedNat DEF Placed, Records
  <2>4. Owed(cur) = Detail[cur].qty
    BY <2>1, <2>3 DEF Owed, Pending, NewRow
  <2>5. Consume(take) \in SUBSET Row
    BY <1>0, ConsumeRows
  <2>6. Execution(take).counter[cur] = 0
    <3>1. cur \notin CounterOrders(Execution(take))
      BY <1>0, <2>1, <2>2, <2>3, OtherAccount
    <3> QED BY <2>1, <2>2, <3>1 DEF CounterOrders, ExecutionData
  <2> HIDE DEF extra
  <2>7. ASSUME NEW p \in Orders
        PROVE  Shows(onRollback', p, Owed(p)) /\ Shows(onCommit', p, Owed(p) - fill'.counter[p])
    <3>1. CASE p = cur
      <4>1. ASSUME NEW n \in Nat, n = 0 PROVE Shows(Consume(take), cur, 0)
        <5>1. Shows(book, cur, n)
          BY <2>3, <4>1
        <5>2. Shows(Consume(take), cur, n - Execution(take).counter[cur])
          BY <2>1, <2>2, <2>3, <5>1, ShownReserve DEF Records
        <5>3. n - Execution(take).counter[cur] = 0
          BY <2>6, <4>1
        <5> QED BY <5>2, <5>3
      <4>2. Shows(Consume(take), cur, 0)
        BY <4>1
      <4>3. /\ Shows(book \cup extra, cur, Detail[cur].qty)
            /\ Shows(Consume(take) \cup extra, cur, Detail[cur].qty)
        BY <1>0, <2>1, <2>3, <2>5, <4>2, ShowsResting DEF extra
      <4>4. Detail[cur].qty - fill'.counter[cur] = Detail[cur].qty
        BY <2>2, <2>3, <2>6
      <4> QED BY <2>2, <2>4, <3>1, <4>3, <4>4
    <3>2. CASE p # cur
      <4>1. Shows(book, p, Owed(p)) /\ Owed(p) \in Nat
        BY <1>0, <2>1, <3>2 DEF Shown
      <4>2. Shows(Consume(take), p, Owed(p) - Execution(take).counter[p])
        BY <2>3, <4>1, ShownReserve DEF Records
      <4>3. /\ Shows(book \cup extra, p, Owed(p))
            /\ Shows(Consume(take) \cup extra, p, Owed(p) - Execution(take).counter[p])
        BY <1>0, <2>1, <2>3, <2>5, <3>2, <4>1, <4>2, ShowsResting DEF extra
      <4> QED BY <2>2, <4>3
    <3> QED BY <3>1, <3>2
  <2>8. Shown'
    BY <1>2, <2>1, <2>7 DEF Shown, Shows
  <2>9. orders[cur].status = "pending"
    BY <2>3 DEF Pending, NewRow
  <2>10. Placed'
    BY <2>1, <2>9 DEF Placed, Rests
  <2> QED BY <2>8, <2>10
<1>12. CASE SettleCommit
  <2>1. pc' = "settled" /\ ~reserved'
    BY <1>12 DEF SettleCommit, Release
  <2>2. \A o \in Orders : Shows(book', o, Owed(o)')
    BY <1>12, CommitShows
  <2>3. Shown'
    BY <2>1, <2>2 DEF Shown, Shows
  <2> QED BY <2>1, <2>3 DEF Placed
<1>13. CASE SettleAbort
  <2>1. pc' = "failed" /\ ~reserved' /\ reserved /\ book' = onRollback /\ orders' = orders
    BY <1>13, FillWaits DEF SettleAbort, Release
  <2>2. Shown'
    BY <1>2, <2>1 DEF Shown, Shows
  <2> QED BY <2>1, <2>2 DEF Placed
<1>14. CASE SweepSettled
  <2>1. UNCHANGED books /\ pc = "settled" /\ pc' = "sweeping" /\ own = orders[cur]
        /\ orders' = [orders EXCEPT ![cur] = own]
    BY <1>14 DEF SweepSettled, bookVars, books, Records, CopyTrue
  <2>2. \A o \in Orders : orders'[o] = orders[o]
    BY <1>0, <2>1
  <2>3. Shown'
    BY <1>2, <1>4, <2>1, <2>2
  <2> QED BY <2>1, <2>3 DEF Placed
<1>15. CASE /\ SubmitFailed \/ CancelSave \/ SweepFailed
            /\ pc \in {"failed", "cancelling"} /\ pc' = "unbook" /\ cur' = cur
            /\ orders' = [orders EXCEPT ![cur] = [own EXCEPT !.status = "cancelled"]]
            /\ UNCHANGED books
  <2>1. cur \in Orders /\ \A o \in Orders : o # cur => orders'[o] = orders[o]
    BY <1>0, <1>15
  <2>2. orders'[cur].status = "cancelled"
    BY <1>0, <1>15, <2>1 DEF OrderRow
  <2>3. Shown'
    BY <1>2, <1>4, <1>15, <2>1
  <2> QED BY <1>15, <2>2, <2>3 DEF Placed
<1>16. CASE /\ SweepFailed /\ pc = "failed" /\ pc' = "sweeping" /\ Type(cur) \in Stops
            /\ orders' = [orders EXCEPT ![cur] = [own EXCEPT !.retries = @ + 1]]
            /\ UNCHANGED books
  <2>1. cur \in Orders /\ \A o \in Orders : o # cur => orders'[o] = orders[o]
    BY <1>0, <1>16
  <2>2. Owed(cur) = 0
    BY <1>16, <2>1, StopsNeverRest DEF Owed
  <2>3. \A o \in Orders : Owed(o)' = Owed(o)
    <3> SUFFICES ASSUME NEW o \in Orders PROVE Owed(o)' = Owed(o)
      OBVIOUS
    <3>1. CASE o = cur
      <4>1. Owed(o)' = 0
        BY <1>1, <1>16, <3>1, <2>1, StopsNeverRest
      <4> QED BY <2>2, <3>1, <4>1
    <3> QED BY <1>2, <2>1, <3>1
  <2>4. Shown'
    BY <1>4, <1>16, <2>3
  <2> QED BY <1>16, <2>4 DEF Placed
<1>17. ASSUME NEW o \in Orders, SubmitSave(o) PROVE Shown' /\ Placed'
  <2>1. /\ UNCHANGED books /\ pc = "idle" /\ orders' = [orders EXCEPT ![o] = Pending]
        /\ IF Rests(o) THEN pc' = "placing" /\ cur' = o ELSE pc' = "idle"
    BY <1>17 DEF SubmitSave, bookVars, books, Return
  <2>2. orders'[o] = Pending /\ \A p \in Orders : p # o => orders'[p] = orders[p]
    BY <1>0, <2>1
  <2>3. Owed(o) = 0
    BY <1>17, SavedFresh, UnknownEmpty DEF Live, Records, Owed
  <2>4. ~Rests(o) => Owed(o)' = 0
    BY <1>1
  <2>5. \A p \in Orders : (pc' = "placing" /\ p = cur') \/ Owed(p)' = Owed(p)
    BY <1>2, <2>1, <2>2, <2>3, <2>4
  <2>6. Shown'
    BY <1>4, <2>1, <2>5
  <2>7. Shows(book, o, 0)
    <3>1. Shows(book, o, Owed(o))
      BY <1>0, <2>1 DEF Shown
    <3> QED BY <2>3, <3>1
  <2>8. pc' = "placing" => cur' = o /\ orders'[cur'] = Pending /\ Shows(book', cur', 0)
    BY <2>1, <2>2, <2>7 DEF books
  <2>9. Placed'
    BY <2>1, <2>8 DEF Placed, Shows
  <2> QED BY <2>6, <2>9
<1>18. ASSUME NEW o \in Orders, SweepReject(o) PROVE Shown' /\ Placed'
  <2>1. /\ UNCHANGED books /\ pc = "sweeping" /\ pc' = "unbook" /\ cur' = o
        /\ orders' = [orders EXCEPT ![o] = [Fired(o) EXCEPT !.status = "cancelled"]]
    BY <1>18 DEF SweepReject, bookVars, books
  <2>2. \A p \in Orders : p # o => orders'[p] = orders[p]
    BY <1>0, <2>1
  <2>3. orders'[o].status = "cancelled"
    BY <1>0, <2>1, FiredRow DEF OrderRow
  <2>4. Shown'
    BY <1>2, <1>4, <2>1, <2>2
  <2> QED BY <2>1, <2>3, <2>4 DEF Placed
<1>19. ASSUME NEW o \in Orders, SweepUnfilled(o) PROVE Shown' /\ Placed'
  <2>1. /\ UNCHANGED books /\ pc = "sweeping" /\ pc' = pc
        /\ \A p \in Orders : p # o => orders'[p] = orders[p]
        /\ Type(o) \notin Stops => orders' = orders
    BY <1>0, <1>19 DEF SweepUnfilled, bookVars, books
  <2>2. Owed(o)' = Owed(o)
    <3>1. CASE Type(o) \in Stops
      <4>1. ~Rests(o)
        BY <3>1, StopsNeverRest
      <4>2. Owed(o) = 0 /\ Owed(o)' = 0
        BY <1>1, <4>1 DEF Owed
      <4> QED BY <4>2
    <3> QED BY <1>2, <2>1, <3>1
  <2>3. Shown'
    BY <1>2, <1>4, <2>1, <2>2
  <2> QED BY <2>1, <2>3 DEF Placed
<1> QED BY <1>5, <1>6, <1>7, <1>8, <1>9, <1>10, <1>11, <1>12, <1>13, <1>14, <1>15, <1>16, <1>17,
           <1>18, <1>19, CalmActions

(* The first book shows no order, and none owes anything. *)
LEMMA InitShown ==
  ASSUME ConstantsAssumption, Init
  PROVE  Shown /\ Placed
<1>1. \A o \in Orders : Owed(o) = 0
  BY DEF Init, Owed, NewRow
<1>2. \A o \in Orders : Shows({}, o, 0)
  BY DEF Shows
<1>3. \A o \in Orders : Shows(book, o, 0)
  BY <1>2, ShowsRefresh DEF Init
<1>4. Shown
  BY <1>1, <1>3 DEF Init, Shown
<1> QED BY <1>4 DEF Init, Placed

(* A quiet book shows exactly what is owed. *)
LEMMA BookTotals ==
  ASSUME ConstantsAssumption, IInv, Records, Shown, Quiet, NEW o \in Orders
  PROVE  InBook(o) = Owed(o)
<1>1. ~reserved /\ pc = "idle" /\ book \in SUBSET Row
  BY DEF Quiet, IInv, ReservationDiscipline, TypeOK, BookOK
<1>2. Shows(book, o, Owed(o)) /\ Owed(o) \in Nat
  BY <1>1, OwedNat DEF Shown, Records
<1> QED BY <1>1, <1>2, ShowsTotal DEF InBook

(* When nothing is under way the book shows exactly what the orders table still
   owes: no ghost row, no lost row, no wrong quantity (placeRestingOrder,
   removeRestingOrder, deferBookChange). *)
THEOREM BookMatchesOrders ==
  Undisturbed /\ StopsUnpriced => (Spec /\ []NoStaleFill => []BookBacked)
<1>1. SUFFICES ASSUME Undisturbed, StopsUnpriced PROVE Spec /\ []NoStaleFill => []BookBacked
  OBVIOUS
<1>2. Init => Shown /\ Placed
  BY InitShown, ConstantsAssumption
<1>3. /\ IInv /\ (BooksTrue /\ FillsTrue) /\ (Knowledge /\ KeysApart /\ QueuedOnce)
      /\ (Calm /\ Records) /\ (Shown /\ Placed) /\ [Next]_vars
      => (Shown /\ Placed)'
  BY <1>1, ConstantsAssumption, ShownStep
<1>4. IInv /\ (Calm /\ Records) /\ (Shown /\ Placed) /\ QuotesCurrent => BookBacked
  BY ConstantsAssumption, BookTotals DEF BookBacked
<1>5. Spec /\ []NoStaleFill => [](Calm /\ Records)
  BY <1>1, RecordsHold
<1> QED BY <1>2, <1>3, <1>4, <1>5, Inductive, Booked, SubmittedOnce, QuotesFollowMark, PTL DEF Spec

=============================================================================

------------------------------ MODULE ReduceOnly ------------------------------
(***************************************************************************)
(* The reduce-only unwind of one symbol, across three services:            *)
(*   risk        claims an attempt in the table reduce_only_executions and *)
(*               only then publishes the order (_dispatch_paper_unwind_    *)
(*               order, Database.prepare_reduce_only_attempt);             *)
(*   execution   binds the claim, hands the order to the adapter and books *)
(*               the answer (process_order, Database.prepare_reduce_only   *)
(*               and finalize_reduce_only);                                *)
(*   db_writer   books ordinary fills into the same positions row          *)
(*               (process_trade_event, update_position_from_trade).        *)
(*                                                                         *)
(* A step is one database transaction, one Redis operation or one adapter  *)
(* call.  prepare_reduce_only locks the positions row, so concurrent       *)
(* claims of the symbol are serialised; a loser of the primary key is      *)
(* retried and then finds the row.  db_writer runs in autocommit mode: its *)
(* read and its write of the row are two steps.                            *)
(***************************************************************************)
EXTENDS Integers, FiniteSets, Functions

CONSTANTS
    Ops,           \* logical operation keys
    Direct,        \* those whose order another producer publishes, unclaimed
    Legacy,        \* those with a READY claim left by an earlier release
    SideOf, QtyOf, \* side and requested quantity a key stands for
    MaxAttempts,   \* max_attempts
    RiskThreads,   \* threads (or instances) of risk that dispatch unwinds
    Executors,     \* instances of execution subscribed to the orders topic
    NoAttempt,     \* "no attempt in hand"
    Positions,     \* possible signed positions at the start
    Trades,        \* ordinary fills: positive a BUY, negative a SELL
    AnswerKinds,   \* what the adapter may answer
    DbFaults,      \* TRUE: a transaction or a publish may fail
    Crashes,       \* TRUE: risk and execution may crash
    MaxTrades      \* bound: ordinary fills

Attempts == Ops \X (1..MaxAttempts)

ASSUME ReduceOnlyAssumption ==
    /\ IsFiniteSet(Ops)
    /\ Direct \subseteq Ops /\ Legacy \subseteq Ops
    /\ \A j, k \in Legacy : j = k
    /\ SideOf \in [Ops -> {"BUY", "SELL"}] /\ QtyOf \in [Ops -> Nat]
    /\ MaxAttempts \in Nat \ {0}
    /\ NoAttempt \notin Attempts
    /\ Positions \subseteq Int /\ Trades \subseteq Int
    /\ AnswerKinds \subseteq {"FILLED", "REJECTED", "SUBMITTED", "PARTIALLY_FILLED", "odd"}
    /\ DbFaults \in BOOLEAN /\ Crashes \in BOOLEAN /\ MaxTrades \in Nat

VARIABLES
    position,  \* the open positions row, signed; 0: there is none
    row,       \* attempt -> its row of reduce_only_executions
    rpc, job,  \* risk thread -> where it is, and the attempt it decided on
    wire,      \* executor -> orders published and not yet received
    sent,      \* keys of Direct whose order has been published
    epc, work, \* executor -> where it is, and the attempt it works on
    answer,    \* executor -> the adapter's answer
    gate,      \* execution's kill, hold or shutdown gate blocks
    trades,    \* db_writer: ordinary fills so far
    trade,     \* db_writer: the fill in hand, 0 if none
    seen,      \* db_writer: the position it read
    handed,    \* history: attempt -> adapter submissions
    filled,    \* history: attempt -> quantity filled at the venue
    holdings,  \* history: net of everything filled, what is really held
    raced,     \* history: a booking fell between db_writer's read and write
    clamped    \* history: db_writer booked a fill it does not book exactly

riskVars  == <<rpc, job>>
execVars  == <<epc, work, answer>>
tradeVars == <<trades, trade, seen, clamped>>
venueVars == <<handed, filled>>
vars == <<position, row, riskVars, wire, sent, execVars, gate, tradeVars,
          venueVars, holdings, raced>>

-----------------------------------------------------------------------------
(* services/execution/reduce_only.py.                                       *)

Abs(n) == IF n < 0 THEN -n ELSE n
Sign(n) == IF n < 0 THEN -1 ELSE IF n > 0 THEN 1 ELSE 0
Least(m, n) == IF m < n THEN m ELSE n

SideMatches(p, side) == (p > 0 /\ side = "SELL") \/ (p < 0 /\ side = "BUY")

\* prepare_reduce_only: is the request allowed, and how much of it.
Allowed(p, side, qty, reserved) ==
    qty > 0 /\ p # 0 /\ ~reserved /\ SideMatches(p, side)

SubmittedQuantity(p, qty) == Least(qty, Abs(p))

\* apply_reduce_only_result and the status finalize_reduce_only stores for it.
Outcome(status, reason, qty, after) ==
    [status |-> status, reason |-> reason, filled |-> qty, after |-> after]
FillPasses(p, side, submitted, f) ==
    LET after == IF side = "BUY" THEN p + f ELSE p - f IN
    /\ 0 <= f /\ f <= submitted
    /\ Abs(after) <= Abs(p) /\ p * after >= 0
ApplyResult(p, side, submitted, a) ==
    CASE a.status = "REJECTED" ->
            Outcome("REJECTED", IF a.filled = 0 THEN "REJECTED" ELSE "BLOCKED", 0, p)
      [] a.status \in {"FILLED", "PARTIALLY_FILLED"}
            /\ FillPasses(p, side, submitted, a.filled) ->
            Outcome(IF a.filled < submitted THEN "PARTIALLY_FILLED" ELSE "FILLED",
                    "FILLED", a.filled, IF side = "BUY" THEN p + a.filled ELSE p - a.filled)
      [] OTHER -> Outcome("BLOCKED", "BLOCKED", 0, p)

-----------------------------------------------------------------------------
(* Rows of reduce_only_executions.                                          *)

Row(status, reason, before, submitted, qty) ==
    [status |-> status, reason |-> reason, before |-> before,
     submitted |-> submitted, filled |-> qty]
NoRow == Row("none", "none", 0, 0, 0)
Claim(a, reason) ==
    Row("PREPARED", reason, position, SubmittedQuantity(position, QtyOf[a[1]]), 0)

Prepared == {a \in Attempts : row[a].status = "PREPARED"}
Success == {"FILLED", "PARTIALLY_FILLED"}

\* Mutation: any REJECTED row is retryable, whatever was filled.
RetryableAnyReject(r) == r.status = "REJECTED"

\* is_retryable_reduce_only_terminal.
Retryable(r) == r.status = "REJECTED" /\ r.reason = "REJECTED" /\ r.filled = 0

\* _decide_reduce_only_attempt: the first attempt that is not retryable is
\* created or resumed; a terminal one, or none within max_attempts, blocks.
Decided(k) ==
    {n \in 1..MaxAttempts :
        /\ \A m \in 1..(n - 1) : Retryable(row[<<k, m>>])
        /\ row[<<k, n>>].status \in {"none", "PREPARED"}}

\* Mutation: PREPARED rows of the symbol are not counted as reservations.
MayClaimUnreserved(a) == Allowed(position, SideOf[a[1]], QtyOf[a[1]], FALSE)

\* The reservation check of a new claim, under the lock of the positions row.
MayClaim(a) == Allowed(position, SideOf[a[1]], QtyOf[a[1]], Prepared # {})

\* Mutations of the bind: an already bound claim is bound again; the status is
\* left out of the WHERE clause.
BindableAgain(r) == r.status = "PREPARED"
BindableByReason(r) == r.status # "none" /\ r.reason # "ADAPTER_BOUND"

\* The compare-and-set updates _claim_dispatch_ownership and
\* _bind_prepared_for_adapter: the reasons they accept (QUANTITY_CLAMPED is
\* treated as READY throughout).
DispatchClaimable(r) == r.status = "PREPARED" /\ r.reason = "READY"
Bindable(r) == r.status = "PREPARED" /\ r.reason \in {"READY", "DISPATCH_CLAIMED"}

-----------------------------------------------------------------------------
NoAnswer == [status |-> "none", filled |-> 0]

\* A claim under the identity before attempts were numbered, which
\* _decide_reduce_only_attempt takes for attempt 1.
LegacyClaim(k) == k \in Legacy /\ Allowed(position, SideOf[k], QtyOf[k], FALSE)

Init ==
    /\ position \in Positions
    /\ row = [a \in Attempts |->
                IF a[2] = 1 /\ LegacyClaim(a[1]) THEN Claim(a, "READY") ELSE NoRow]
    /\ rpc = [t \in RiskThreads |-> "idle"] /\ job = [t \in RiskThreads |-> NoAttempt]
    /\ wire = [e \in Executors |-> {}] /\ sent = {}
    /\ epc = [e \in Executors |-> "idle"] /\ work = [e \in Executors |-> NoAttempt]
    /\ answer = [e \in Executors |-> NoAnswer]
    /\ gate = FALSE
    /\ trades = 0 /\ trade = 0 /\ seen = 0 /\ clamped = FALSE
    /\ handed = [a \in Attempts |-> 0] /\ filled = [a \in Attempts |-> 0]
    /\ holdings = position /\ raced = FALSE

-----------------------------------------------------------------------------
(* Risk.                                                                    *)

RiskGoto(t, label, a) ==
    rpc' = [rpc EXCEPT ![t] = label] /\ job' = [job EXCEPT ![t] = a]

\* _trigger_proactive_unwind or _maybe_auto_unwind, up to the end of the first
\* transaction of prepare_reduce_only_attempt.  A block changes nothing.
Trigger(t, k) ==
    /\ rpc[t] = "idle" /\ k \notin Direct
    /\ \E n \in Decided(k) : RiskGoto(t, "claim", <<k, n>>)
    /\ UNCHANGED <<sent, position, row, wire, execVars, gate, tradeVars, venueVars,
                   holdings, raced>>

\* The second transaction, prepare_reduce_only(persist_blocked = False,
\* bind_for_adapter = False), on whatever the row is by now.
ClaimDispatch(t) ==
    LET a == job[t] IN
    /\ rpc[t] = "claim"
    /\ \/ /\ row[a].status = "none" /\ MayClaim(a)
          /\ row' = [row EXCEPT ![a] = Claim(a, "DISPATCH_CLAIMED")]
          /\ RiskGoto(t, "send", a)
       \/ /\ DispatchClaimable(row[a])
          /\ row' = [row EXCEPT ![a].reason = "DISPATCH_CLAIMED"]
          /\ RiskGoto(t, "send", a)
       \/ /\ \/ row[a].status = "none" /\ ~MayClaim(a)
             \/ row[a].status # "none" /\ ~DispatchClaimable(row[a])
             \/ DbFaults
          /\ RiskGoto(t, "idle", NoAttempt) /\ UNCHANGED row
    /\ UNCHANGED <<sent, position, wire, execVars, gate, tradeVars, venueVars,
                   holdings, raced>>

\* send_order: publish to every subscriber; a Redis error is swallowed and so
\* is a message nobody listens to.
Send(t) ==
    /\ rpc[t] = "send"
    /\ \/ wire' = [e \in Executors |-> wire[e] \cup {job[t]}]
       \/ DbFaults /\ UNCHANGED wire
    /\ RiskGoto(t, "idle", NoAttempt)
    /\ UNCHANGED <<sent, position, row, execVars, gate, tradeVars, venueVars,
                   holdings, raced>>

\* A reduce-only order that no claim of risk precedes.
PublishDirect(k) ==
    /\ k \in Direct \ sent /\ sent' = sent \cup {k}
    /\ wire' = [e \in Executors |-> wire[e] \cup {<<k, 1>>}]
    /\ UNCHANGED <<position, row, riskVars, execVars, gate, tradeVars,
                   venueVars, holdings, raced>>

RiskCrash(t) ==
    /\ Crashes /\ rpc[t] # "idle" /\ RiskGoto(t, "idle", NoAttempt)
    /\ UNCHANGED <<sent, position, row, wire, execVars, gate, tradeVars,
                   venueVars, holdings, raced>>

-----------------------------------------------------------------------------
(* Execution.                                                               *)

ExecGoto(e, label, a) ==
    epc' = [epc EXCEPT ![e] = label] /\ work' = [work EXCEPT ![e] = a]
ExecDone(e) == ExecGoto(e, "idle", NoAttempt) /\ answer' = [answer EXCEPT ![e] = NoAnswer]

\* An order arrives; a closed gate rejects it and leaves the claim as it is.
Receive(e, a) ==
    /\ epc[e] = "idle" /\ a \in wire[e]
    /\ wire' = [wire EXCEPT ![e] = @ \ {a}]
    /\ IF gate THEN UNCHANGED <<epc, work>> ELSE ExecGoto(e, "bind", a)
    /\ UNCHANGED <<sent, position, row, riskVars, answer, gate, tradeVars, venueVars,
                   holdings, raced>>

\* prepare_reduce_only(): bind a claim for one submission, or claim and bind at
\* once; a request that may not claim leaves a BLOCKED row, a duplicate is
\* rejected, and so is everything when the transaction fails.
Bind(e) ==
    LET a == work[e] IN
    /\ epc[e] = "bind"
    /\ \/ /\ row[a].status = "none" /\ MayClaim(a)
          /\ row' = [row EXCEPT ![a] = Claim(a, "ADAPTER_BOUND")]
          /\ ExecGoto(e, "recheck", a) /\ UNCHANGED answer
       \/ /\ Bindable(row[a])
          /\ row' = [row EXCEPT ![a].reason = "ADAPTER_BOUND"]
          /\ ExecGoto(e, "recheck", a) /\ UNCHANGED answer
       \/ /\ row[a].status = "none" /\ ~MayClaim(a)
          /\ row' = [row EXCEPT ![a] = Row("BLOCKED", "BLOCKED", position, 0, 0)]
          /\ ExecDone(e)
       \/ /\ (row[a].status # "none" /\ ~Bindable(row[a])) \/ DbFaults
          /\ ExecDone(e) /\ UNCHANGED row
    /\ UNCHANGED <<sent, position, wire, riskVars, gate, tradeVars, venueVars,
                   holdings, raced>>

\* The kill re-check before the adapter handoff; the bound claim stays.
Recheck(e) ==
    /\ epc[e] = "recheck"
    /\ IF gate THEN ExecDone(e) ELSE ExecGoto(e, "submit", work[e]) /\ UNCHANGED answer
    /\ UNCHANGED <<sent, position, row, wire, riskVars, gate, tradeVars, venueVars,
                   holdings, raced>>

\* What the adapter may answer to a submission of quantity q: the mock fills,
\* rejects or (resting) only submits; "odd" are answers of a broken adapter.
Answers(q) ==
    {[status |-> "FILLED", filled |-> f] :
        f \in {q : i \in AnswerKinds \cap {"FILLED"}} \cup
              {q + 1 : i \in AnswerKinds \cap {"odd"}}}
    \cup {[status |-> "REJECTED", filled |-> f] :
        f \in {0 : i \in AnswerKinds \cap {"REJECTED"}} \cup
              {q : i \in AnswerKinds \cap {"odd"}}}
    \cup {[status |-> "SUBMITTED", filled |-> 0] : i \in AnswerKinds \cap {"SUBMITTED"}}
    \cup {[status |-> "PARTIALLY_FILLED", filled |-> f] :
        f \in {x \in 0..(q - 1) : "PARTIALLY_FILLED" \in AnswerKinds}}

SignedFill(a, f) == IF SideOf[a[1]] = "BUY" THEN f ELSE -f

\* The adapter call; an exception ends process_order and the claim stays.
Submit(e) ==
    LET a == work[e] IN
    /\ epc[e] = "submit"
    /\ \/ \E x \in Answers(row[a].submitted) :
             /\ answer' = [answer EXCEPT ![e] = x]
             /\ handed' = [handed EXCEPT ![a] = @ + 1]
             /\ filled' = [filled EXCEPT ![a] = @ + x.filled]
             /\ holdings' = holdings + SignedFill(a, x.filled)
             /\ ExecGoto(e, "finalize", a)
       \/ DbFaults /\ ExecDone(e) /\ UNCHANGED <<handed, filled, holdings>>
    /\ UNCHANGED <<sent, position, row, wire, riskVars, gate, tradeVars, raced>>

\* Mutation: the position is not compared with the one prepared on.
PositionUnchecked(a) == TRUE

\* The positions row at finalisation must be the one the claim was made on.
PositionUnmoved(a) == position = row[a].before

\* finalize_reduce_only: books the answer and the row in one transaction.  No
\* open positions row raises, as a failing database does: the claim stays.
Finalize(e) ==
    LET a == work[e]
        o == IF PositionUnmoved(a)
             THEN ApplyResult(row[a].before, SideOf[a[1]], row[a].submitted, answer[e])
             ELSE Outcome("BLOCKED", "BLOCKED", 0, position)
    IN
    /\ epc[e] = "finalize"
    /\ \/ /\ row[a].status = "PREPARED" /\ position # 0
          /\ row' = [row EXCEPT ![a].status = o.status, ![a].reason = o.reason,
                                ![a].filled = o.filled]
          /\ position' = o.after
          /\ raced' = (raced \/ (trade # 0 /\ o.after # position))
       \/ /\ row[a].status # "PREPARED" \/ position = 0 \/ DbFaults
          /\ UNCHANGED <<row, position, raced>>
    /\ ExecDone(e)
    /\ UNCHANGED <<sent, wire, riskVars, gate, tradeVars, venueVars, holdings>>

\* The service dies and comes back; what it had not received is lost.
ExecCrash(e) ==
    /\ Crashes /\ (epc[e] # "idle" \/ wire[e] # {})
    /\ ExecDone(e) /\ wire' = [wire EXCEPT ![e] = {}]
    /\ UNCHANGED <<sent, position, row, riskVars, gate, tradeVars, venueVars,
                   holdings, raced>>

\* The kill switch, the supervisor's hold or a bot shutdown (module KillCancel).
ToggleGate ==
    /\ gate' = ~gate
    /\ UNCHANGED <<sent, position, row, riskVars, wire, execVars, tradeVars,
                   venueVars, holdings, raced>>

-----------------------------------------------------------------------------
(* db_writer: an ordinary fill q.                                           *)

\* The size update_position_from_trade writes, from the position s it read; a
\* BUY always adds to the size, a SELL closes or reduces.
NewPosition(s, q) ==
    IF s = 0 THEN (IF q > 0 THEN q ELSE 0)
    ELSE IF q > 0 THEN Sign(s) * (Abs(s) + q)
    ELSE IF -q >= Abs(s) THEN 0 ELSE Sign(s) * (Abs(s) + q)

\* process_trade_event up to _fetch_open_position.
TradeRead(q) ==
    /\ trade = 0 /\ trades < MaxTrades /\ trades' = trades + 1
    /\ trade' = q /\ seen' = position
    /\ holdings' = holdings + q
    /\ clamped' = (clamped \/ NewPosition(position, q) # position + q)
    /\ UNCHANGED <<sent, position, row, riskVars, wire, execVars, gate, venueVars, raced>>

\* Insert, or UPDATE ... WHERE closed_at IS NULL: a row closed meanwhile takes
\* no update; if no row was open at the first read, there is a second one.
TradeWrite ==
    /\ trade # 0
    /\ position' = IF seen = 0 THEN NewPosition(position, trade)
                   ELSE IF position = 0 THEN 0 ELSE NewPosition(seen, trade)
    /\ trade' = 0 /\ seen' = 0
    /\ UNCHANGED <<sent, row, riskVars, wire, execVars, gate, trades, clamped,
                   venueVars, holdings, raced>>

-----------------------------------------------------------------------------
RiskStep(t) == (\E k \in Ops : Trigger(t, k)) \/ ClaimDispatch(t) \/ Send(t)
ExecStep(e) ==
    \/ \E a \in Attempts : Receive(e, a)
    \/ Bind(e) \/ Recheck(e) \/ Submit(e) \/ Finalize(e)

Next ==
    \/ \E t \in RiskThreads : RiskStep(t) \/ RiskCrash(t)
    \/ \E e \in Executors : ExecStep(e) \/ ExecCrash(e)
    \/ \E k \in Ops : PublishDirect(k)
    \/ ToggleGate
    \/ (\E q \in Trades : TradeRead(q)) \/ TradeWrite

Spec == Init /\ [][Next]_vars

-----------------------------------------------------------------------------
Rows == [status : {"none", "PREPARED", "BLOCKED", "REJECTED"} \cup Success,
         reason : {"none", "READY", "DISPATCH_CLAIMED", "ADAPTER_BOUND",
                   "REJECTED", "BLOCKED", "FILLED"},
         before : Int, submitted : Nat, filled : Nat]

AnswerTypes == [status : {"none", "FILLED", "REJECTED", "SUBMITTED", "PARTIALLY_FILLED"},
                filled : Nat]

TableTypes == position \in Int /\ row \in [Attempts -> Rows]
RiskTypes ==
    /\ rpc \in [RiskThreads -> {"idle", "claim", "send"}]
    /\ job \in [RiskThreads -> Attempts \cup {NoAttempt}]
    /\ wire \in [Executors -> SUBSET Attempts] /\ sent \subseteq Direct
ExecTypes ==
    /\ epc \in [Executors -> {"idle", "bind", "recheck", "submit", "finalize"}]
    /\ work \in [Executors -> Attempts \cup {NoAttempt}]
    /\ answer \in [Executors -> AnswerTypes]
WriterTypes == trades \in 0..MaxTrades /\ trade \in Int /\ seen \in Int
FlagTypes == gate \in BOOLEAN /\ raced \in BOOLEAN /\ clamped \in BOOLEAN
HistoryTypes ==
    handed \in [Attempts -> Nat] /\ filled \in [Attempts -> Nat] /\ holdings \in Int

\* The types of the tables, of the services' local state and of the channel.
TypeOK == TableTypes /\ RiskTypes /\ ExecTypes /\ WriterTypes /\ FlagTypes /\ HistoryTypes

\* "Dadurch gibt es hoechstens eine Adapter-Submission pro Attempt-order_id":
\* over duplicate deliveries, two instances and restarts in between.
AtMostOneSubmission == \A a \in Attempts : handed[a] <= 1

\* The symbol never carries two active claims, so no two exits can be sized
\* against the same position.
OneActiveClaim == \A a, b \in Prepared : a = b

\* A logical unwind succeeds at most once, and a later attempt exists only
\* behind attempts that were rejected with nothing filled, although risk
\* decides on the attempt in one transaction and claims it in another.
AttemptLineage ==
    \A k \in Ops : \A n \in 2..MaxAttempts :
        row[<<k, n>>].status # "none" =>
            \A m \in 1..(n - 1) : row[<<k, m>>].status = "REJECTED" /\ filled[<<k, m>>] = 0

\* abs(position_after) <= abs(position_before) and no change of side: nothing
\* but db_writer's own write may enlarge or flip the position.
ReduceOnlyNeverIncreases ==
    [][trade' = trade => Abs(position') <= Abs(position) /\ position' * position >= 0]_vars

\* "Ein finalisierter Claim kann nicht erneut auf den Positionsstand angewandt
\* werden": no late answer, duplicate order or second instance changes a row
\* that has left PREPARED.
FinalisedStays ==
    [][\A a \in Attempts : row[a].status \notin {"none", "PREPARED"} => row'[a] = row[a]]_vars

\* Fills at the venue that no FILLED or PARTIALLY_FILLED row has booked.
UnbookedFill ==
    [a \in Attempts |-> IF row[a].status \in Success THEN 0 ELSE SignedFill(a, filled[a])]
Unbooked == SumFunctionOnSet(UnbookedFill, Attempts)

\* What the positions row says and what is still to be booked add up to what
\* is held: every fill is booked once, by one owner.
Exact == holdings = position + trade + Unbooked

\* The books are exact however claims, duplicates, crashes and ordinary fills
\* interleave, unless a finalisation fell into db_writer's read and write.
BooksExact == ~clamped /\ ~raced => Exact

\* "Positions table is source-of-truth for current holdings"
\* (update_position_from_trade), with no exception.
PositionsAreHoldings == ~clamped => Exact
===============================================================================

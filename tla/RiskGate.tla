------------------------------ MODULE RiskGate ------------------------------
(***************************************************************************)
(* Exposure accounting of the risk service (services/risk/service.py): the *)
(* main thread checks a signal against the limits, reserves its notional   *)
(* and publishes the order; the order-result listener, a second thread,    *)
(* releases the reservation and books the fill.  They share risk_state     *)
(* without a lock.  The price is one, so a notional is a quantity; the     *)
(* paper unwind is off (ReduceOnly models it).                             *)
(***************************************************************************)
EXTENDS Integers, Sequences, FiniteSets, FiniteSetsExt

CONSTANTS
    Symbols,
    Signals,        \* signals that may arrive, each at most once
    SymbolOf,       \* Signals -> Symbols
    SignalSide,     \* Signals -> {"BUY", "SELL"}
    Seconds,        \* timestamps of signals; a client_id is a symbol and a second
    Sizes,          \* quantities calculate_position_size may return
    MaxExposure,    \* balance * max_total_exposure_pct
    MaxPosition,    \* balance * max_position_pct
    ResultStatuses, \* what the execution service may answer
    MaxRestarts     \* bound on restarts of the risk service

ASSUME RiskGateAssumption ==
    /\ IsFiniteSet(Symbols) /\ IsFiniteSet(Sizes)
    /\ SymbolOf \in [Signals -> Symbols]
    /\ SignalSide \in [Signals -> {"BUY", "SELL"}]
    /\ Sizes \subseteq Nat
    /\ MaxExposure \in Nat /\ MaxPosition \in Nat /\ MaxRestarts \in Nat
    /\ ResultStatuses \subseteq {"FILLED", "PARTIALLY_FILLED", "REJECTED", "SUBMITTED"}

Clients == Symbols \X Seconds
ClientOf(o) == <<SymbolOf[o.sig], o.ts>>

VARIABLES
    \* risk_state, shared by both threads
    positions, total_exposure, pending_exposure,
    pending_position_qty, pending_reservations, pending_qty_reservations,
    \* the threads: program counter, order or result in hand, value read
    mpc, order, mread,
    lpc, result, rread,
    running, restarts,
    \* Redis topics; the fills at the venue and how many db_writer has booked
    inbox, orders, results, fills, booked,
    \* history: what happened that the accounting does not survive
    odd

riskState == <<positions, total_exposure, pending_exposure,
               pending_position_qty, pending_reservations, pending_qty_reservations>>
mainVars == <<mpc, order, mread>>
listenerVars == <<lpc, result, rread>>
worldVars == <<fills, booked>>
gateVars == <<riskState, mainVars, listenerVars, running, restarts,
          inbox, orders, results, worldVars, odd>>

NoOrder == [sig |-> "none", ts |-> 0, qty |-> 0, reduce |-> FALSE]
NoResult == [sig |-> "none", ts |-> 0, status |-> "none", filled |-> 0]

Magnitude(n) == IF n < 0 THEN -n ELSE n
Signed(s, q) == IF SignalSide[s] = "BUY" THEN q ELSE -q
Gross(p) == SumFunctionOnSet([y \in Symbols |-> Magnitude(p[y])], Symbols)

Book(p, a) == [p EXCEPT ![SymbolOf[a.sig]] = @ + Signed(a.sig, a.filled)]
Flat == [y \in Symbols |-> 0]

\* What a fill comes to for a symbol, and the first n fills together.
Part(a, y) == IF SymbolOf[a.sig] = y THEN Signed(a.sig, a.filled) ELSE 0
Held(n) == [y \in Symbols |-> SumFunctionOnSet([i \in 1..n |-> Part(fills[i], y)], 1..n)]
venue == Held(Len(fills))

GateInit ==
    /\ positions = [y \in Symbols |-> 0]
    /\ total_exposure = 0 /\ pending_exposure = 0
    /\ pending_position_qty = [y \in Symbols |-> 0]
    /\ pending_reservations = [c \in Clients |-> 0]
    /\ pending_qty_reservations = [c \in Clients |-> 0]
    /\ mpc = "idle" /\ order = NoOrder /\ mread = 0
    /\ lpc = "idle" /\ result = NoResult /\ rread = 0
    /\ running = "up" /\ restarts = 0
    /\ inbox = Signals /\ orders = <<>> /\ results = <<>>
    /\ fills = <<>> /\ booked = 0
    /\ odd = {}

-----------------------------------------------------------------------------
\* Main thread: process_signal and send_order.

\* _is_reduce_only_allowed: the signal closes some of the booked position.
ReduceOnlyAllowed(s) ==
    \/ positions[SymbolOf[s]] > 0 /\ SignalSide[s] = "SELL"
    \/ positions[SymbolOf[s]] < 0 /\ SignalSide[s] = "BUY"

ExposureBelowLimit == total_exposure + pending_exposure < MaxExposure
PositionBelowLimit(s) == Magnitude(positions[SymbolOf[s]]) < MaxPosition

\* A signal passes the gates before sizing, or is blocked: admit is the answer
\* of the kill switch, decide_trade, shutdown, allocation and circuit breaker,
\* and of the decision contract, which is asked after sizing and changes
\* nothing; early_live and the probe are exempt from risk-off.
Screen(s) ==
    /\ running = "up" /\ mpc = "idle" /\ s \in inbox
    /\ inbox' = inbox \ {s}
    /\ \E admit, risk_off, exempt \in BOOLEAN, ts \in Seconds :
         LET reduce == ReduceOnlyAllowed(s)
             passes == /\ admit
                       /\ risk_off => reduce \/ exempt
                       /\ reduce \/ ExposureBelowLimit
                       /\ PositionBelowLimit(s)
         IN IF passes
            THEN mpc' = "size" /\ order' = [sig |-> s, ts |-> ts, qty |-> 0, reduce |-> reduce]
            ELSE UNCHANGED <<mpc, order>>
    /\ UNCHANGED <<riskState, mread, listenerVars, running, restarts,
                   orders, results, worldVars, odd>>

MainIdle == mpc' = "idle" /\ order' = NoOrder /\ mread' = 0

\* calculate_position_size, then the clamp of a reduce-only order to the
\* position booked now (it may have gone since the gates); zero skips.
Size ==
    LET open == Magnitude(positions[SymbolOf[order.sig]]) IN
    /\ mpc = "size"
    /\ \E q \in Sizes :
         LET quantity == IF order.reduce /\ open < q THEN open ELSE q IN
         IF quantity = 0
         THEN MainIdle
         ELSE /\ order' = [order EXCEPT !.qty = quantity]
              /\ mpc' = IF order.reduce THEN "reserve" ELSE "gate"
              /\ UNCHANGED mread
    /\ UNCHANGED <<riskState, listenerVars, running, restarts, inbox,
                   orders, results, worldVars, odd>>

\* compute_projected_exposure_usdt reads the exposure; float() is a call, at
\* which the interpreter may switch threads before the pending one is read.
ReadExposure ==
    /\ mpc = "gate"
    /\ mread' = total_exposure /\ mpc' = "decide"
    /\ UNCHANGED <<riskState, order, listenerVars, running, restarts, inbox,
                   orders, results, worldVars, odd>>

\* Mutation: reserved exposure left out of the projection.
ProjectedFilled(total, q) == total + q

ProjectedExposure(total, q) == total + pending_exposure + q
ProjectedPosition(y, q) == Magnitude(positions[y] + pending_position_qty[y] + q)

\* The hard gates on projected exposure and projected position.
HardGate ==
    LET y == SymbolOf[order.sig] IN
    /\ mpc = "decide"
    /\ IF /\ ProjectedExposure(mread, order.qty) < MaxExposure
          /\ ProjectedPosition(y, Signed(order.sig, order.qty)) < MaxPosition
       THEN mpc' = "reserve" /\ mread' = 0 /\ UNCHANGED order
       ELSE MainIdle
    /\ odd' = odd \cup {h \in {"switch"} : mread # total_exposure}
    /\ UNCHANGED <<riskState, listenerVars, running, restarts, inbox,
                   orders, results, worldVars>>

\* Mutation: a reduce-only order leaves no reservation under its client id.
ReserveIncreasing ==
    LET c == ClientOf(order) IN
    /\ mpc = "reserve"
    /\ pending_exposure' = pending_exposure + order.qty
    /\ pending_reservations' =
         [pending_reservations EXCEPT ![c] = IF order.reduce THEN @ ELSE order.qty]
    /\ mread' = pending_position_qty[SymbolOf[order.sig]]
    /\ mpc' = "reserveQty"
    /\ UNCHANGED <<positions, total_exposure, pending_position_qty,
                   pending_qty_reservations, order, listenerVars, running,
                   restarts, inbox, orders, results, worldVars, odd>>

\* Reserve exposure under the client id; read the pending quantity.
Reserve ==
    LET c == ClientOf(order) IN
    /\ mpc = "reserve"
    /\ pending_exposure' = pending_exposure + order.qty
    /\ pending_reservations' = [pending_reservations EXCEPT ![c] = order.qty]
    /\ mread' = pending_position_qty[SymbolOf[order.sig]]
    /\ mpc' = "reserveQty"
    /\ odd' = odd \cup {h \in {"shared"} :
                          \/ pending_reservations[c] # 0 \/ pending_qty_reservations[c] # 0
                          \/ lpc # "idle" /\ ClientOf(result) = c}
                  \cup {h \in {"switch"} : lpc = "store"}
    /\ UNCHANGED <<positions, total_exposure, pending_position_qty,
                   pending_qty_reservations, order, listenerVars, running,
                   restarts, inbox, orders, results, worldVars>>

\* Store the pending quantity computed from the value read.
ReserveQty ==
    LET y == SymbolOf[order.sig]
        q == Signed(order.sig, order.qty)
    IN
    /\ mpc = "reserveQty"
    /\ pending_position_qty' = [pending_position_qty EXCEPT ![y] = mread + q]
    /\ pending_qty_reservations' =
         [pending_qty_reservations EXCEPT ![ClientOf(order)] = q]
    /\ mpc' = "send"
    /\ odd' = odd \cup {h \in {"switch"} :
                          mread # pending_position_qty[y] \/ lpc = "storeQty"}
    /\ UNCHANGED <<positions, total_exposure, pending_exposure,
                   pending_reservations, order, mread, listenerVars, running,
                   restarts, inbox, orders, results, worldVars>>

\* send_order: published (the topic delivers at most once), or the contract
\* check or the publish fails.  The reservation of an order that was not sent
\* stays.
SendOrder ==
    /\ mpc = "send"
    /\ \/ orders' = Append(orders, order) /\ UNCHANGED odd
       \/ odd' = odd \cup {"unsent"} /\ UNCHANGED orders
    /\ MainIdle
    /\ UNCHANGED <<riskState, listenerVars, running, restarts, inbox, results, worldVars>>

-----------------------------------------------------------------------------
\* The listener thread: handle_order_result.

Floor(n) == IF n > 0 THEN n ELSE 0

\* A result arrives: pop its reservation and read the pending exposure.
\* max() is a call, at which the interpreter may switch threads before the
\* store.
Release ==
    LET c == ClientOf(Head(results))
        rest == pending_exposure - pending_reservations[c]
    IN
    /\ running = "up" /\ lpc = "idle" /\ results # <<>>
    /\ result' = Head(results) /\ results' = Tail(results)
    /\ pending_reservations' = [pending_reservations EXCEPT ![c] = 0]
    /\ IF pending_reservations[c] = 0
       THEN lpc' = "qty" /\ UNCHANGED rread
       ELSE lpc' = "store" /\ rread' = Floor(rest)
    /\ UNCHANGED <<positions, total_exposure, pending_exposure, pending_position_qty,
                   pending_qty_reservations, mainVars, running, restarts, inbox,
                   orders, worldVars, odd>>

StoreRelease ==
    /\ lpc = "store"
    /\ pending_exposure' = rread
    /\ lpc' = "qty" /\ rread' = 0
    /\ UNCHANGED <<positions, total_exposure, pending_position_qty,
                   pending_reservations, pending_qty_reservations, mainVars, result,
                   running, restarts, inbox, orders, results, worldVars, odd>>

\* The same for the pending quantity of the symbol.
ReleaseQty ==
    LET c == ClientOf(result) IN
    /\ lpc = "qty"
    /\ pending_qty_reservations' = [pending_qty_reservations EXCEPT ![c] = 0]
    /\ IF pending_qty_reservations[c] = 0
       THEN lpc' = "book" /\ UNCHANGED rread
       ELSE /\ rread' = pending_position_qty[SymbolOf[result.sig]]
                          - pending_qty_reservations[c]
            /\ lpc' = "storeQty"
    /\ UNCHANGED <<positions, total_exposure, pending_exposure,
                   pending_position_qty, pending_reservations, mainVars, result,
                   running, restarts, inbox, orders, results, worldVars, odd>>

StoreReleaseQty ==
    /\ lpc = "storeQty"
    /\ pending_position_qty' =
         [pending_position_qty EXCEPT ![SymbolOf[result.sig]] = rread]
    /\ lpc' = "book" /\ rread' = 0
    /\ UNCHANGED <<positions, total_exposure, pending_exposure,
                   pending_reservations, pending_qty_reservations, mainVars, result,
                   running, restarts, inbox, orders, results, worldVars, odd>>

\* Mutation: partial fills are not booked.
CompleteFill == {"FILLED"}

FillStatuses == {"FILLED", "PARTIALLY_FILLED"}

\* _update_exposure for a fill; any other status is only reported.
UpdateExposure ==
    /\ lpc = "book"
    /\ IF result.status \in FillStatuses
       THEN positions' = Book(positions, result) /\ total_exposure' = Gross(positions')
       ELSE UNCHANGED <<positions, total_exposure>>
    /\ lpc' = "idle" /\ result' = NoResult
    /\ UNCHANGED <<pending_exposure, pending_position_qty,
                   pending_reservations, pending_qty_reservations, mainVars, rread,
                   running, restarts, inbox, orders, results, worldVars, odd>>

-----------------------------------------------------------------------------
\* The rest of the system.

\* The execution service handles the next order: a fill, a rejection, or a
\* resting order that fills later without a result.  A reduce-only order
\* never adds to the position (module ReduceOnly).  The result may be lost.
ResultsOf(o) ==
    LET y == SymbolOf[o.sig]
        closing == IF venue[y] * Signed(o.sig, 1) < 0 THEN Magnitude(venue[y]) ELSE 0
        most == IF o.reduce /\ closing < o.qty THEN closing ELSE o.qty
    IN  {a \in {[sig |-> o.sig, ts |-> o.ts, status |-> k, filled |-> f] :
                  k \in ResultStatuses, f \in 0..o.qty} :
           CASE a.status = "FILLED" -> a.filled = most /\ most > 0
             [] a.status = "PARTIALLY_FILLED" -> a.filled \in 1..(most - 1)
             [] OTHER -> a.filled = 0}

Execute ==
    /\ orders # <<>>
    /\ orders' = Tail(orders)
    /\ \E a \in ResultsOf(Head(orders)) :
         LET fill == IF a.status = "SUBMITTED" THEN [a EXCEPT !.filled = Head(orders).qty]
                                               ELSE a
             now == {h \in {"resting"} : a.status = "SUBMITTED"}
         IN
         /\ fills' = IF fill.filled > 0 THEN Append(fills, fill) ELSE fills
         /\ \/ results' = Append(results, a) /\ odd' = odd \cup now
            \/ odd' = odd \cup now \cup {"lost"} /\ UNCHANGED results
    /\ UNCHANGED <<riskState, mainVars, listenerVars, running, restarts, inbox, booked>>

\* The process dies and its memory is gone.
Crash ==
    /\ running = "up" /\ restarts < MaxRestarts
    /\ running' = "down" /\ restarts' = restarts + 1
    /\ positions' = [y \in Symbols |-> 0]
    /\ total_exposure' = 0 /\ pending_exposure' = 0
    /\ pending_position_qty' = [y \in Symbols |-> 0]
    /\ pending_reservations' = [c \in Clients |-> 0]
    /\ pending_qty_reservations' = [c \in Clients |-> 0]
    /\ MainIdle
    /\ lpc' = "idle" /\ result' = NoResult /\ rread' = 0
    /\ results' = <<>>
    /\ UNCHANGED <<inbox, orders, worldVars, odd>>

\* connect_redis subscribes to the results: earlier ones reach nobody.
Subscribe ==
    /\ running = "down"
    /\ running' = "subscribed" /\ results' = <<>>
    /\ UNCHANGED <<riskState, mainVars, listenerVars, restarts, inbox,
                   orders, worldVars, odd>>

\* The positions table after the first n fills: db_writer opens no short and
\* hears nothing of the fill of a resting order.
DbBook(p, a) == IF a.status = "SUBMITTED" THEN p
                ELSE [y \in Symbols |-> Floor(Book(p, a)[y])]
Table[n \in 0..Len(fills)] == IF n = 0 THEN Flat ELSE DbBook(Table[n - 1], fills[n])

\* A position was short at some time, which the positions table never shows.
Shorted == \E n \in DOMAIN fills, y \in Symbols : Held(n)[y] < 0

\* The positions table is empty while the orders table, in which the rows of
\* some complete fills may be missing, shows a net position.
Mismatch(p) ==
    /\ p = Flat
    /\ \E rows \in SUBSET {i \in DOMAIN fills : fills[i].status = "FILLED"} :
         SumFunctionOnSet([i \in rows |-> Signed(fills[i].sig, fills[i].filled)], rows) # 0

\* bootstrap_state_from_db: take the positions table as db_writer has it by
\* now, or exit on a mismatch (and be started again).
Bootstrap ==
    /\ running = "subscribed"
    /\ booked' \in booked..Len(fills)
    /\ \/ /\ running' = "up"
          /\ positions' = Table[booked'] /\ total_exposure' = Gross(positions')
          /\ odd' = odd \cup {h \in {"restart"} :
                \/ orders # <<>> \/ results # <<>> \/ booked' < Len(fills)
                \/ Shorted}
       \/ /\ Mismatch(Table[booked'])
          /\ running' = "down" /\ UNCHANGED <<positions, total_exposure, odd>>
    /\ UNCHANGED <<pending_exposure, pending_position_qty,
                   pending_reservations, pending_qty_reservations, mainVars,
                   listenerVars, restarts, inbox, orders, results, fills>>

-----------------------------------------------------------------------------
MainStep == Size \/ ReadExposure \/ HardGate \/ Reserve \/ ReserveQty \/ SendOrder
ListenerStep == \/ Release \/ StoreRelease \/ ReleaseQty
                \/ StoreReleaseQty \/ UpdateExposure

GateNext ==
    \/ \E s \in Signals : Screen(s)
    \/ MainStep
    \/ ListenerStep
    \/ Execute
    \/ Crash \/ Subscribe \/ Bootstrap

GateSpec == GateInit /\ [][GateNext]_gateVars

-----------------------------------------------------------------------------

InSeq(q) == {q[i] : i \in DOMAIN q}
Quiet == running = "up" /\ mpc = "idle" /\ lpc = "idle" /\ orders = <<>> /\ results = <<>>

\* An order on its way to the venue, or whose result is on its way back, is
\* reserved in full: the reservation is made before the order can be answered
\* and only its own result takes it away.
ReservedInFlight ==
    running = "up" /\ odd \cap {"shared", "restart"} = {} =>
        /\ \A o \in InSeq(orders) : pending_reservations[ClientOf(o)] = o.qty
        /\ \A a \in InSeq(results) :
             pending_reservations[ClientOf(a)] >= a.filled

\* What the system is exposed to: the positions at the venue and the orders
\* on their way that may add to them.
Committed ==
    Gross(venue) + SumFunction([i \in DOMAIN orders |-> IF orders[i].reduce THEN 0 ELSE orders[i].qty])

\* Lost orders, lost results and failed publishes never let the exposure past
\* the limit by more than one order: what the listener has released and not
\* yet booked.
OvershootBounded ==
    odd \subseteq {"unsent", "lost"} => Committed < MaxExposure + Max(Sizes \cup {1})

\* When nothing is under way and nothing went wrong, no reservation is left
\* and the books agree with the venue.
DrainedWhenQuiet ==
    Quiet /\ odd = {} =>
        /\ pending_exposure = 0
        /\ \A c \in Clients : pending_reservations[c] = 0
        /\ \A y \in Symbols : pending_position_qty[y] = 0
        /\ positions = venue /\ total_exposure = Gross(venue)
=============================================================================

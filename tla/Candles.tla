------------------------------- MODULE Candles -------------------------------
(***************************************************************************)
(* The candle aggregator (services/candles): the main thread takes trades  *)
(* from a topic and closes a window when a trade of a later one arrives,   *)
(* the sweep thread closes windows that the clock has passed.  They share  *)
(* the dict of windows without a lock.  A trade is a number, its place in  *)
(* the order of arrival, and its timestamp; prices and quantities are left *)
(* out: a candle is the set of trades it was made from.                    *)
(***************************************************************************)
EXTENDS Integers, Sequences, FiniteSets, SequencesExt

CONSTANTS
    Symbols,
    Interval,       \* interval_seconds
    MaxTime,        \* bound on the clock
    MaxTrades,      \* bound on the number of trades
    MaxDelay,       \* how far a timestamp may lie behind the clock
    MaxRestarts     \* bound on restarts of the process

ASSUME CandlesAssumption ==
    /\ Interval \in Nat \ {0} /\ MaxTime \in Nat /\ MaxTrades \in Nat
    /\ MaxDelay \in Nat /\ MaxRestarts \in Nat

VARIABLES
    now,
    trades,         \* the trades received: symbol and ts
    windows,        \* aggregator.windows, keyed by symbol
    running,
    mpc, mcandle,   \* main: step, completed candle in hand
    spc, sts, size, \* sweep: step, current_ts, size of the dict when iterated,
    todo, expired,  \*   symbols not yet visited, expired_symbols,
    scandles,       \*   completed candles in hand
    stream,         \* the candles emitted
    restarts,
    odd             \* history: circumstances the aggregation does not survive

mainVars == <<mpc, mcandle>>
sweepVars == <<spc, sts, size, todo, expired, scandles>>
vars == <<now, trades, windows, running, mainVars, sweepVars, stream, restarts, odd>>

NoWindow == [start |-> -1, trades |-> {}]
NoCandle == [symbol |-> "none", start |-> -1, trades |-> {}]

Keys(w) == {y \in Symbols : w[y].start # -1}
Candle(y) == [symbol |-> y, start |-> windows[y].start, trades |-> windows[y].trades]

\* The trade in hand is the last one received.
Trade == Last(trades)

Init ==
    /\ now = 0 /\ trades = <<>> /\ stream = <<>> /\ restarts = 0 /\ odd = {}
    /\ windows = [y \in Symbols |-> NoWindow]
    /\ running = FALSE /\ mpc = "start" /\ mcandle = NoCandle
    /\ spc = "boot" /\ sts = 0 /\ size = 0
    /\ todo = {} /\ expired = <<>> /\ scandles = <<>>

\* _align_timestamp
Align(ts) == (ts \div Interval) * Interval

\* is_complete
IsComplete(w, ts) == ts >= w.start + Interval

MainBusy == mpc \in {"close", "open", "update", "emit"}
SweepBusy == spc \in {"scan", "del", "emit"}

-----------------------------------------------------------------------------
\* Main thread: run, process_trade, _emit_candle.

\* run starts the sweep thread and then sets running.
Start ==
    /\ mpc = "start"
    /\ running' = TRUE /\ mpc' = "idle"
    /\ UNCHANGED <<now, trades, windows, mcandle, sweepVars, stream, restarts, odd>>

\* A trade is older than the one before it, or its window has ended already.
Late(y, ts) ==
    \/ \E i \in DOMAIN trades : trades[i].symbol = y /\ trades[i].ts > ts
    \/ IsComplete([start |-> Align(ts)], now)

\* A trade arrives; the window it ends is complete.
Receive(y, ts) ==
    /\ mpc = "idle" /\ Len(trades) < MaxTrades
    /\ ts \in 0..now /\ now - ts <= MaxDelay
    /\ trades' = Append(trades, [symbol |-> y, ts |-> ts])
    /\ IF y \in Keys(windows) /\ IsComplete(windows[y], ts)
       THEN mpc' = "close" /\ mcandle' = IF windows[y].trades = {} THEN NoCandle ELSE Candle(y)
       ELSE mpc' = "open" /\ UNCHANGED mcandle
    /\ odd' = odd \cup {h \in {"late"} : Late(y, ts)} \cup {h \in {"overlap"} : SweepBusy}
    /\ UNCHANGED <<now, windows, running, sweepVars, stream, restarts>>

\* KeyError: process_trade returns no candles and the trade is gone.
DropTrade == mpc' = "idle" /\ mcandle' = NoCandle /\ UNCHANGED windows

\* The completed window is deleted, if the sweep has not done so.
Close ==
    /\ mpc = "close"
    /\ IF Trade.symbol \in Keys(windows)
       THEN /\ windows' = [windows EXCEPT ![Trade.symbol] = NoWindow]
            /\ mpc' = "open" /\ UNCHANGED mcandle
       ELSE DropTrade
    /\ UNCHANGED <<now, trades, running, sweepVars, stream, restarts, odd>>

\* A window is created if there is none.  A key inserted while the sweep
\* iterates over the dict comes after those it has still to visit.
Open ==
    LET y == Trade.symbol IN
    /\ mpc = "open"
    /\ IF y \in Keys(windows)
       THEN UNCHANGED <<windows, todo>>
       ELSE /\ windows' = [windows EXCEPT ![y] = [start |-> Align(Trade.ts), trades |-> {}]]
            /\ todo' = IF spc = "scan" THEN todo \cup {y} ELSE todo
    /\ mpc' = "update"
    /\ UNCHANGED <<now, trades, running, mcandle, spc, sts, size, expired, scandles,
                   stream, restarts, odd>>

Emitting(c) == IF c = NoCandle THEN "idle" ELSE "emit"

\* update_trade on the window of the symbol: it may be gone when it is looked
\* up, or be deleted between the lookup and the update.
Update ==
    LET y == Trade.symbol IN
    /\ mpc = "update"
    /\ IF y \in Keys(windows)
       THEN /\ windows' = [windows EXCEPT ![y].trades = @ \cup {Len(trades)}]
            /\ mpc' = Emitting(mcandle) /\ UNCHANGED mcandle
       ELSE \/ DropTrade
            \/ mpc' = Emitting(mcandle) /\ UNCHANGED <<windows, mcandle>>
    /\ UNCHANGED <<now, trades, running, sweepVars, stream, restarts, odd>>

\* xadd, or an error that the loop logs: the candle is gone.
Emit ==
    /\ mpc = "emit"
    /\ \/ stream' = Append(stream, mcandle) /\ UNCHANGED odd
       \/ odd' = odd \cup {"redis"} /\ UNCHANGED stream
    /\ mpc' = "idle" /\ mcandle' = NoCandle
    /\ UNCHANGED <<now, trades, windows, running, sweepVars, restarts>>

-----------------------------------------------------------------------------
\* Sweep thread: _sweep_expired_windows, get_completed_windows.

\* An exception nobody catches, or the end of the loop: the thread ends.
ThreadEnds == /\ spc' = "dead" /\ sts' = 0 /\ size' = 0
              /\ todo' = {} /\ expired' = <<>> /\ scandles' = <<>>

\* The loop is entered only if running has been set.
SweepBoot ==
    /\ spc = "boot"
    /\ IF running THEN spc' = "idle" /\ UNCHANGED <<sts, size, todo, expired, scandles>>
                  ELSE ThreadEnds
    /\ UNCHANGED <<now, trades, windows, running, mainVars, stream, restarts, odd>>

\* Mutation: the sweep goes by the time of the last trade.
EventTime == IF trades = <<>> THEN 0 ELSE Trade.ts

\* time.time() in whole seconds.
SweepTime == now

SweepBegin ==
    /\ spc = "idle" /\ Keys(windows) # {}
    /\ spc' = "scan" /\ sts' = SweepTime
    /\ size' = Cardinality(Keys(windows)) /\ todo' = Keys(windows)
    /\ odd' = odd \cup {h \in {"overlap"} : MainBusy}
    /\ UNCHANGED <<now, trades, windows, running, mainVars, expired, scandles, stream,
                   restarts>>

\* The next window of the iteration, which fails when the dict has changed
\* size; at its end the expired windows are deleted.
Visit ==
    /\ spc = "scan"
    /\ \/ Cardinality(Keys(windows)) # size /\ ThreadEnds
       \/ /\ Cardinality(Keys(windows)) = size
          /\ \E y \in todo :
               /\ todo' = todo \ {y}
               /\ IF y \in Keys(windows) /\ IsComplete(windows[y], sts)
                  THEN /\ expired' = Append(expired, y)
                       /\ scandles' = IF windows[y].trades = {} THEN scandles
                                      ELSE Append(scandles, Candle(y))
                  ELSE UNCHANGED <<expired, scandles>>
          /\ UNCHANGED <<spc, sts, size>>
       \/ /\ Cardinality(Keys(windows)) = size /\ todo = {}
          /\ spc' = IF expired = <<>> THEN "idle" ELSE "del"
          /\ sts' = 0 /\ size' = 0 /\ UNCHANGED <<todo, expired, scandles>>
    /\ UNCHANGED <<now, trades, windows, running, mainVars, stream, restarts, odd>>

\* Mutation: expired windows are emitted and stay.
Forget(y) == windows

Delete(y) == [windows EXCEPT ![y] = NoWindow]

\* del self.windows[symbol]: a KeyError ends the thread, the candles in hand
\* with it.
DeleteExpired ==
    /\ spc = "del"
    /\ IF Head(expired) \in Keys(windows)
       THEN /\ windows' = Delete(Head(expired))
            /\ expired' = Tail(expired)
            /\ spc' = IF Len(expired) > 1 THEN "del"
                      ELSE IF scandles = <<>> THEN "idle" ELSE "emit"
            /\ UNCHANGED <<sts, size, todo, scandles>>
       ELSE ThreadEnds /\ UNCHANGED windows
    /\ UNCHANGED <<now, trades, running, mainVars, stream, restarts, odd>>

\* xadd, or an error that ends the thread.
SweepEmit ==
    /\ spc = "emit"
    /\ \/ /\ stream' = Append(stream, Head(scandles))
          /\ scandles' = Tail(scandles)
          /\ spc' = IF Len(scandles) > 1 THEN "emit" ELSE "idle"
          /\ UNCHANGED <<sts, size, todo, expired, odd>>
       \/ odd' = odd \cup {"redis"} /\ ThreadEnds /\ UNCHANGED stream
    /\ UNCHANGED <<now, trades, windows, running, mainVars, restarts>>

-----------------------------------------------------------------------------
Tick ==
    /\ now < MaxTime /\ now' = now + 1
    /\ UNCHANGED <<trades, windows, running, mainVars, sweepVars, stream, restarts, odd>>

\* The process ends (the topic's connection fails in the main loop) and is
\* started again; open windows are not kept.
Restart ==
    /\ restarts < MaxRestarts /\ restarts' = restarts + 1
    /\ windows' = [y \in Symbols |-> NoWindow]
    /\ running' = FALSE /\ mpc' = "start" /\ mcandle' = NoCandle
    /\ spc' = "boot" /\ sts' = 0 /\ size' = 0
    /\ todo' = {} /\ expired' = <<>> /\ scandles' = <<>>
    /\ odd' = odd \cup {"restart"}
    /\ UNCHANGED <<now, trades, stream>>

MainStep == \/ Start \/ \E y \in Symbols, ts \in 0..MaxTime : Receive(y, ts)
            \/ Close \/ Open \/ Update \/ Emit
SweepStep == SweepBoot \/ SweepBegin \/ Visit \/ DeleteExpired \/ SweepEmit
Next == MainStep \/ SweepStep \/ Tick \/ Restart

\* Neither thread is suspended for ever.
Spec == Init /\ [][Next]_vars /\ WF_vars(MainStep) /\ WF_vars(SweepStep)

-----------------------------------------------------------------------------

\* Every place a trade is kept in: an open window, a candle in hand, a candle
\* emitted.  A window that the sweep has already copied is counted once.
Held(t) ==
    {<<"window", y>> : y \in {y \in Symbols : t \in windows[y].trades /\ y \notin Range(expired)}}
    \cup {<<"main">> : c \in {c \in {mcandle} : t \in c.trades /\ mpc # "close"}}
    \cup {<<"sweep", i>> : i \in {i \in DOMAIN scandles : t \in scandles[i].trades}}
    \cup {<<"stream", i>> : i \in {i \in DOMAIN stream : t \in stream[i].trades}}

\* As long as a trade and a sweep do not overlap and Redis answers, each trade
\* taken from the topic is in one candle or open window, late ones included.
EveryTradeOnce ==
    odd \subseteq {"late"} =>
        \A t \in DOMAIN trades :
            (t = Len(trades) /\ mpc \in {"close", "open", "update"}) \/ Cardinality(Held(t)) = 1

\* The candles of a symbol are emitted in the order of their windows, one for
\* each window, which is what the last six entries of the stream are taken for
\* by _update_market_state.  It takes trades in time and in order and threads
\* that do not overlap; lost candles and restarts do not disturb it.
StreamOrdered ==
    odd \subseteq {"redis", "restart"} =>
        \A i, j \in DOMAIN stream :
            i < j /\ stream[i].symbol = stream[j].symbol => stream[i].start < stream[j].start

\* A window that the clock has passed is closed, even when no further trade
\* arrives, as long as the sweep thread lives.
ExpiredWindowsClose ==
    \A y \in Symbols :
        (y \in Keys(windows) /\ IsComplete(windows[y], now))
            ~> (y \notin Keys(windows) \/ ~IsComplete(windows[y], now) \/ spc = "dead")
=============================================================================

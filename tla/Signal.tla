-------------------------------- MODULE Signal --------------------------------
(***************************************************************************)
(* The breakout strategies of the signal engine (services/signal).  A tick *)
(* is judged against the channel of the ticks before it and only then put  *)
(* into the history, which is pruned as it grows.  primary_breakout_v1     *)
(* counts its channel in time, donchian_breakout_v1 in bars.  Ticks are    *)
(* raw trades from a topic: they come at irregular times and late ones     *)
(* happen.  A tick that is lost, one of another symbol, and one whose      *)
(* market_state read fails leave this state alone: they are stutters.      *)
(***************************************************************************)
EXTENDS Integers, Sequences, FiniteSetsExt

CONSTANTS
    Bars,               \* what a tick may carry: high, low and close
    EntryLookback,      \* entry_lookback_minutes, in units of the clock
    ExitLookback,
    EntryBars,          \* entry_channel_bars
    ExitBars,
    Buffer,             \* breakout_buffer, in percent
    Cooldown,           \* min_minutes_between_entries
    Staleness,          \* market_state_staleness_s
    MaxTime,            \* bound on the clock
    MaxTicks,           \* bound on the ticks of one life of the process
    MaxSkew,            \* how late a tick may be
    MaxRestarts         \* bound on restarts

\* SignalConfig.validate
ASSUME SignalAssumption ==
    /\ Bars \subseteq [high : Nat \ {0}, low : Nat \ {0}, close : Nat \ {0}]
    /\ EntryLookback \in Nat \ {0} /\ ExitLookback \in Nat \ {0}
    /\ EntryBars \in Nat \ {0} /\ ExitBars \in Nat \ {0}
    /\ Buffer \in Nat /\ Cooldown \in Nat /\ Staleness \in Nat \ {0}
    /\ MaxTime \in Nat /\ MaxTicks \in Nat /\ MaxSkew \in Nat /\ MaxRestarts \in Nat

VARIABLES
    strategy,       \* config.strategy_id
    history,        \* _high_history and _low_history: appended and pruned alike
    lastEntry,      \* _last_entry_ts_ms, -1 before the first entry
    open,           \* _position_open_by_symbol
    market,         \* the market_state key: ts, -1 when absent, and regime
    clock,          \* the newest event time there is
    restarts,
    seen,           \* history: every tick handled since the process started
    log             \* history: every signal since then, with its tick's place

vars == <<strategy, history, lastEntry, open, market, clock, restarts, seen, log>>

NoMarket == [ts |-> -1, trend |-> FALSE]

Cold ==
    /\ history = <<>> /\ lastEntry = -1 /\ open = FALSE
    /\ seen = <<>> /\ log = <<>>

Init ==
    /\ strategy \in {"primary", "donchian"}
    /\ Cold
    /\ market = NoMarket /\ clock = 0 /\ restarts = 0

-------------------------------------------------------------------------------
(* The channel *)

\* The places in h that the window of the lookback covers.
Window(h, ts, lookback) == {i \in DOMAIN h : h[i].ts >= ts - lookback}

\* Mutation: any entry in the window will do.
SomeHistory(h, ts, lookback) == Window(h, ts, lookback) # {}

\* entry_warmup_ok and exit_warmup_ok: the oldest entry of the window.
Warm(h, ts, lookback) == \E i \in Window(h, ts, lookback) : ts - h[i].ts >= lookback

\* The last n bars.
LastBars(h, n) == {i \in DOMAIN h : i > Len(h) - n}

\* close_now < lowest_low, and the Donchian lower_level
BelowChannel(h, ts, close) ==
    \/ /\ strategy = "primary" /\ Warm(h, ts, ExitLookback)
       /\ \A i \in Window(h, ts, ExitLookback) : close < h[i].low
    \/ /\ strategy = "donchian" /\ Len(h) >= ExitBars
       /\ \A i \in LastBars(h, ExitBars) : close < h[i].low

\* close_now > highest_high * (1 + breakout_buffer), and the Donchian upper_level
AboveChannel(h, ts, close) ==
    \/ /\ strategy = "primary" /\ Warm(h, ts, EntryLookback)
       /\ \A i \in Window(h, ts, EntryLookback) : 100 * close > (100 + Buffer) * h[i].high
    \/ /\ strategy = "donchian" /\ Len(h) >= EntryBars
       /\ \A i \in LastBars(h, EntryBars) : close > h[i].high

\* Mutation: pruned to the shorter lookback.
PruneShort(h, ts) ==
    LET limit == ts - Min({EntryLookback, ExitLookback})
        bars == Min({EntryBars, ExitBars})
        kept == IF strategy = "primary" THEN {i \in DOMAIN h : h[i].ts >= limit} ELSE LastBars(h, bars)
    IN SubSeq(h, Min(kept), Len(h))

\* _update_breakout_history and _update_donchian_history, after the append:
\* entries are popped from the head only, until the head is young enough.
Prune(h, ts) ==
    LET limit == ts - Max({EntryLookback, ExitLookback})
        bars == Max({EntryBars, ExitBars})
        kept == IF strategy = "primary" THEN {i \in DOMAIN h : h[i].ts >= limit} ELSE LastBars(h, bars)
    IN SubSeq(h, Min(kept), Len(h))

-------------------------------------------------------------------------------
(* The decision *)

\* Mutation: the time since the last entry taken without its sign.
EitherSide(ts) == lastEntry # -1 /\ (ts - lastEntry) \in 0 .. Cooldown - 1

\* cooldown_active, cooldown_allows_entry
CoolingDown(ts) == lastEntry # -1 /\ ts - lastEntry < Cooldown

\* market_state_fresh, regime_fresh, has_trend_regime
TrendFresh(ts) == market.ts # -1 /\ ts - market.ts <= Staleness /\ market.trend

Sells(ts, bar) == open /\ BelowChannel(history, ts, bar.close)

\* The primary strategy does not ask whether a position is open.
Buys(ts, bar, blocked) ==
    /\ ~Sells(ts, bar)
    /\ AboveChannel(history, ts, bar.close)
    /\ ~blocked /\ ~CoolingDown(ts)
    /\ strategy = "primary" => TrendFresh(ts)
    /\ strategy = "donchian" => ~open

Tick(ts, bar) == [ts |-> ts, high |-> bar.high, low |-> bar.low, close |-> bar.close]

\* _position_open_by_symbol after a signal
Holding(side) == side = "BUY"

\* Append after the decision, whatever the decision was.
Remember(ts, bar) ==
    /\ Len(seen) < MaxTicks
    /\ history' = Prune(Append(history, Tick(ts, bar)), ts)
    /\ seen' = Append(seen, Tick(ts, bar))

\* The flags are set here; whether publish_signal then gets the signal out does
\* not change them.
Emit(side, ts) ==
    /\ open' = Holding(side)
    /\ log' = Append(log, [side |-> side, place |-> Len(seen) + 1])
    /\ lastEntry' = IF side = "BUY" THEN ts ELSE lastEntry

Exit(ts, bar) ==
    /\ Sells(ts, bar)
    /\ Remember(ts, bar)
    /\ Emit("SELL", ts)
    /\ UNCHANGED <<strategy, market, clock, restarts>>

Enter(ts, bar) ==
    /\ Buys(ts, bar, FALSE)
    /\ Remember(ts, bar)
    /\ Emit("BUY", ts)
    /\ UNCHANGED <<strategy, market, clock, restarts>>

\* blocked: the tick carries shutdown_active, risk_blocked or another such flag.
Pass(ts, bar, blocked) ==
    /\ ~Sells(ts, bar) /\ ~Buys(ts, bar, blocked)
    /\ Remember(ts, bar)
    /\ UNCHANGED <<strategy, lastEntry, open, market, clock, restarts, log>>

-------------------------------------------------------------------------------
(* The surroundings *)

\* The candle service writes the key; its time to live ends.
WriteMarket(trend) ==
    /\ market' = [ts |-> clock, trend |-> trend]
    /\ UNCHANGED <<strategy, history, lastEntry, open, clock, restarts, seen, log>>

ExpireMarket ==
    /\ market # NoMarket /\ market' = NoMarket
    /\ UNCHANGED <<strategy, history, lastEntry, open, clock, restarts, seen, log>>

Advance ==
    /\ clock < MaxTime /\ clock' = clock + 1
    /\ UNCHANGED <<strategy, history, lastEntry, open, market, restarts, seen, log>>

\* The engine keeps nothing outside its memory.
Restart ==
    /\ restarts < MaxRestarts /\ restarts' = restarts + 1
    /\ history' = <<>> /\ lastEntry' = -1 /\ open' = FALSE /\ seen' = <<>> /\ log' = <<>>
    /\ UNCHANGED <<strategy, market, clock>>

Next ==
    \/ \E ts \in {t \in clock - MaxSkew .. clock : t >= 0}, bar \in Bars :
          \/ Exit(ts, bar)
          \/ Enter(ts, bar)
          \/ \E blocked \in BOOLEAN : Pass(ts, bar, blocked)
    \/ \E trend \in BOOLEAN : WriteMarket(trend)
    \/ ExpireMarket \/ Advance \/ Restart

Spec == Init /\ [][Next]_vars

-------------------------------------------------------------------------------
(* Properties *)

Newest(i) == \A j \in 1 .. i - 1 : seen[j].ts <= seen[i].ts

\* Pruning loses nothing a decision needs: for the next tick that is not a
\* late one the pruned history puts a price above or below the channel exactly
\* when everything handled since the start would.
PruningExact ==
    \A ts \in clock .. clock + 1, bar \in Bars :
       /\ BelowChannel(history, ts, bar.close) <=> BelowChannel(seen, ts, bar.close)
       /\ AboveChannel(history, ts, bar.close) <=> AboveChannel(seen, ts, bar.close)

\* A BUY on a tick that was not late is above every price handled in the
\* lookback before it, and the process had watched the market for the whole
\* lookback; a SELL likewise.
SignalsJustified ==
    \A k \in DOMAIN log :
       LET i == log[k].place
           t == seen[i]
           back == IF log[k].side = "BUY" THEN EntryLookback ELSE ExitLookback
       IN strategy = "primary" /\ Newest(i) =>
          /\ \E j \in 1 .. i - 1 : seen[j].ts <= t.ts - back
          /\ \A j \in 1 .. i - 1 : t.ts - seen[j].ts <= back =>
                IF log[k].side = "BUY" THEN t.close > seen[j].high ELSE t.close < seen[j].low

\* Two entries of one life of the process lie a cooldown apart in event time,
\* late ticks included.
EntriesSpaced ==
    \A j, k \in DOMAIN log :
       j < k /\ log[j].side = "BUY" /\ log[k].side = "BUY" =>
          seen[log[k].place].ts - seen[log[j].place].ts >= Cooldown
===============================================================================

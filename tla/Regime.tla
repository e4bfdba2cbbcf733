------------------------------- MODULE Regime -------------------------------
(***************************************************************************)
(* How a market regime reaches the gates of the risk service: the candles  *)
(* service writes candles to a stream and, with the newest regime it finds *)
(* there, the market state of the symbol; the regime service reads the     *)
(* candles, confirms a change of regime and announces it on a second       *)
(* stream; the risk service follows that stream (risk_off_active) and      *)
(* reads the market state for every signal (decide_trade).  A candle is    *)
(* its time and what its indicators say; returns, signal strength and      *)
(* account figures pass their checks.                                      *)
(***************************************************************************)
EXTENDS Integers, Sequences, FiniteSets, FiniteSetsExt, SequencesExt

CONSTANTS
    Symbols,
    Kinds,             \* readings a candle may give, among AllKinds
    WarmUp,            \* candles before the indicators are defined
    ConfirmationBars,  \* confirmation_bars
    Heartbeat,         \* heartbeat_interval_s
    Staleness,         \* regime_staleness_seconds
    Ttl,               \* market_state_ttl_seconds
    SilenceMax,        \* data_silence_s_max
    MinHistory,        \* candles before a market state is written
    LookBack,          \* regime entries the lookup reads
    MaxTime, MaxFaults, MaxRestarts   \* bounds

AllKinds == {"chaotic", "trend", "range", "between", "zeroClose", "missing", "undated"}
NoPrices == {"missing", "undated"}

ASSUME RegimeAssumption ==
    /\ Kinds \subseteq AllKinds
    /\ {WarmUp, Heartbeat, Staleness, Ttl, SilenceMax, MinHistory, MaxTime,
        MaxFaults, MaxRestarts} \subseteq Nat
    /\ ConfirmationBars \in Nat \ {0} /\ LookBack \in Nat \ {0}

VARIABLES
    now,
    candles,        \* stream.candles_1m
    regimes,        \* stream.regime_signals
    pending,        \* candles service: time of the candle to be enriched
    market,         \* market_state:{symbol}
    \* regime service
    last_id, seen, current_regime, candidate, count, last_emitted,
    \* risk service
    risk_off, rpc, rlast,
    faults, restarts,
    \* history: the last raw readings, and what went wrong
    raws, odd

regimeVars == <<last_id, seen, current_regime, candidate, count, last_emitted, raws>>
riskVars == <<risk_off, rpc, rlast>>
vars == <<now, candles, regimes, pending, market, regimeVars, riskVars, faults,
          restarts, odd>>

None == -1
Unset == "unset"   \* a key that current_regime does not hold yet
Epoch == -1000     \* time zero, long before the first candle
NoMarket == [at |-> None, regime |-> "none"]

Init ==
    /\ now = 0 /\ candles = <<>> /\ regimes = <<>>
    /\ pending = [y \in Symbols |-> None] /\ market = [y \in Symbols |-> NoMarket]
    /\ last_id = 0 /\ seen = [y \in Symbols |-> 0]
    /\ current_regime = [y \in Symbols |-> Unset]
    /\ candidate = [y \in Symbols |-> "none"] /\ count = [y \in Symbols |-> 0]
    /\ last_emitted = [y \in Symbols |-> None]
    /\ risk_off = FALSE /\ rpc = "start" /\ rlast = 0
    /\ faults = 0 /\ restarts = 0
    /\ raws = [y \in Symbols |-> <<>>]
    /\ odd = {}

-----------------------------------------------------------------------------
\* Candles service.

\* A candle of the current minute, or an entry of another producer without
\* prices or without prices and time, is appended to the stream.
CandleClosed(y, k) ==
    /\ pending[y] = None
    /\ \A i \in DOMAIN candles : candles[i].symbol = y => candles[i].ts < now
    /\ candles' = Append(candles, [symbol |-> y, ts |-> now, kind |-> k])
    /\ pending' = [pending EXCEPT ![y] = IF k \in NoPrices THEN None ELSE now]
    /\ UNCHANGED <<now, regimes, market, regimeVars, riskVars, faults, restarts, odd>>

\* Mutation: the oldest valid entry.
Oldest(valid) == Min(valid)

\* The entries are read newest first.
Choice(valid) == Max(valid)

\* Age of a regime entry at the time of the candle, neither future nor stale.
ValidAt(ts, e) == ts - e.ts >= 0 /\ ts - e.ts <= Staleness

\* _lookup_regime_id: the newest valid entry of the symbol among the last ones
\* of the stream; an unknown regime has no id.
LookupRegime(y, ts) ==
    LET recent == {i \in DOMAIN regimes : i > Len(regimes) - LookBack}
        valid == {i \in recent : regimes[i].symbol = y /\ ValidAt(ts, regimes[i])}
    IN  IF valid = {} \/ regimes[Choice(valid)].regime = "UNKNOWN" THEN "none"
        ELSE regimes[Choice(valid)].regime

\* _update_market_state
UpdateMarketState(y) ==
    /\ pending[y] # None
    /\ IF Cardinality({i \in DOMAIN candles :
                         candles[i].symbol = y /\ candles[i].kind \notin NoPrices}) >= MinHistory
       THEN market' = [market EXCEPT ![y] =
                         [at |-> now, regime |-> LookupRegime(y, pending[y])]]
       ELSE UNCHANGED market
    /\ pending' = [pending EXCEPT ![y] = None]
    /\ UNCHANGED <<now, candles, regimes, regimeVars, riskVars, faults, restarts, odd>>

-----------------------------------------------------------------------------
\* Regime service.

\* classify_raw_regime
ClassifyRawRegime(k, current) ==
    CASE k = "zeroClose" -> "UNKNOWN"
      [] k = "chaotic" -> "HIGH_VOL_CHAOTIC"
      [] k = "trend" -> "TREND"
      [] k = "range" -> "RANGE"
      [] k = "between" -> current

\* _emit_regime: xadd, then the time of the emission; an error leaves both.
Emit(c, regime) ==
    \/ /\ regimes' = Append(regimes,
                 [symbol |-> c.symbol, ts |-> c.ts, regime |-> regime, at |-> now])
       /\ last_emitted' = [last_emitted EXCEPT ![c.symbol] = now]
       /\ UNCHANGED <<faults, odd>>
    \/ /\ faults < MaxFaults /\ faults' = faults + 1 /\ odd' = odd \cup {"fault"}
       /\ UNCHANGED <<regimes, last_emitted>>

NoEmit == UNCHANGED <<regimes, last_emitted, faults, odd>>

\* _handle_missing_ohlcv: the regime is unknown at once, but a candidate stays.
\* get() does not fill in the default, so a symbol never looked up is announced
\* as well.
HandleMissing(c) ==
    /\ IF current_regime[c.symbol] = "UNKNOWN"
       THEN NoEmit /\ UNCHANGED current_regime
       ELSE /\ current_regime' = [current_regime EXCEPT ![c.symbol] = "UNKNOWN"]
            /\ Emit([c EXCEPT !.ts = IF c.kind = "undated" THEN Epoch ELSE @], "UNKNOWN")
    /\ UNCHANGED <<seen, candidate, count, raws>>

Due(y) == last_emitted[y] = None \/ now - last_emitted[y] > Heartbeat

\* Mutation: a candidate keeps its count when another reading replaces it.
CountOn(y, raw) == count[y] + 1

CountOf(y, raw) == IF candidate[y] = raw THEN count[y] + 1 ELSE 1

Confirmed(n) == n >= ConfirmationBars

\* The last readings, as many as confirm a change.
Newest(q) == SubSeq(q, IF Len(q) > ConfirmationBars THEN Len(q) - ConfirmationBars + 1 ELSE 1,
                    Len(q))

\* current_regime[key]: the lookup stores the default of a missing key.
Current(y) == IF current_regime[y] = Unset THEN "UNKNOWN" ELSE current_regime[y]

\* _derive_regime once the indicators are defined.
DeriveRegime(c) ==
    LET y == c.symbol
        raw == ClassifyRawRegime(c.kind, Current(y))
        n == CountOf(y, raw)
    IN
    /\ raws' = [raws EXCEPT ![y] = Newest(Append(@, raw))]
    /\ \/ /\ raw = Current(y)
          /\ candidate' = [candidate EXCEPT ![y] = "none"]
          /\ count' = [count EXCEPT ![y] = 0]
          /\ IF raw # "UNKNOWN" /\ Due(y) THEN Emit(c, raw) ELSE NoEmit
          /\ current_regime' = [current_regime EXCEPT ![y] = raw]
       \/ /\ raw # Current(y) /\ ~Confirmed(n)
          /\ candidate' = [candidate EXCEPT ![y] = raw]
          /\ count' = [count EXCEPT ![y] = n]
          /\ current_regime' = [current_regime EXCEPT ![y] = Current(y)]
          /\ NoEmit
       \/ /\ raw # Current(y) /\ Confirmed(n)
          /\ current_regime' = [current_regime EXCEPT ![y] = raw]
          /\ candidate' = [candidate EXCEPT ![y] = "none"]
          /\ count' = [count EXCEPT ![y] = 0]
          /\ Emit(c, raw)

\* The next entry of the candle stream; its id is kept before it is handled.
RegimeStep ==
    /\ last_id < Len(candles) /\ last_id' = last_id + 1
    /\ LET c == candles[last_id + 1] IN
       IF c.kind \in NoPrices
       THEN HandleMissing(c)
       ELSE /\ seen' = [seen EXCEPT ![c.symbol] = @ + 1]
            /\ IF seen[c.symbol] < WarmUp
               THEN NoEmit /\ UNCHANGED <<current_regime, candidate, count, raws>>
               ELSE DeriveRegime(c)
    /\ UNCHANGED <<now, candles, pending, market, riskVars, restarts>>

\* The service reads the candle stream from its start again.
RegimeRestart ==
    /\ restarts < MaxRestarts /\ restarts' = restarts + 1
    /\ last_id' = 0 /\ seen' = [y \in Symbols |-> 0]
    /\ current_regime' = [y \in Symbols |-> Unset]
    /\ candidate' = [y \in Symbols |-> "none"] /\ count' = [y \in Symbols |-> 0]
    /\ last_emitted' = [y \in Symbols |-> None] /\ raws' = [y \in Symbols |-> <<>>]
    /\ odd' = odd \cup {"replay"}
    /\ UNCHANGED <<now, candles, regimes, pending, market, riskVars, faults>>

-----------------------------------------------------------------------------
\* Risk service.

\* Mutation: only the chaotic regime turns risk off.
OnlyChaotic == {"HIGH_VOL_CHAOTIC"}

RiskOffRegimes == {"HIGH_VOL_CHAOTIC", "UNKNOWN"}

\* The listener thread fails closed, then takes the newest entry.
RegimeThreadStarts ==
    /\ rpc = "start" /\ rpc' = "boot" /\ risk_off' = TRUE
    /\ UNCHANGED <<now, candles, regimes, pending, market, regimeVars, rlast, faults,
                   restarts, odd>>

RegimeBootstrap ==
    /\ rpc = "boot"
    /\ rlast' = Len(regimes)
    /\ IF regimes = <<>>
       THEN rpc' = "newest" /\ UNCHANGED risk_off
       ELSE rpc' = "follow" /\ risk_off' = (Last(regimes).regime \in RiskOffRegimes)
    /\ UNCHANGED <<now, candles, regimes, pending, market, regimeVars, faults, restarts, odd>>

\* The next entry is applied.
RegimeUpdate ==
    /\ rpc \in {"follow", "newest"} /\ rlast < Len(regimes)
    /\ rlast' = rlast + 1 /\ rpc' = "follow"
    /\ risk_off' = (regimes[rlast + 1].regime \in RiskOffRegimes)
    /\ UNCHANGED <<now, candles, regimes, pending, market, regimeVars, faults, restarts, odd>>

\* "$" stands for the newest entry at the time of each read: what arrives
\* between two reads is never seen.
RegimeMissed ==
    /\ rpc = "newest" /\ rlast < Len(regimes)
    /\ rlast' = Len(regimes)
    /\ odd' = odd \cup {"missed"}
    /\ UNCHANGED <<now, candles, regimes, pending, market, regimeVars, risk_off, rpc,
                   faults, restarts>>

RiskRestart ==
    /\ restarts < MaxRestarts /\ restarts' = restarts + 1
    /\ risk_off' = FALSE /\ rpc' = "start" /\ rlast' = 0
    /\ UNCHANGED <<now, candles, regimes, pending, market, regimeVars, faults,
                   odd>>

\* The last tick before the market state was written is recent.
NotSilent(y) == now - market[y].at <= SilenceMax

\* process_signal lets a signal on y through that adds to a position and is not
\* exempt: decide_trade on the market state, then the risk-off gate.
Admits(y) ==
    /\ market[y].at # None /\ now - market[y].at < Ttl
    /\ NotSilent(y)
    /\ market[y].regime \in {"TREND", "RANGE"}
    /\ ~risk_off

Tick ==
    /\ now < MaxTime /\ now' = now + 1
    /\ UNCHANGED <<candles, regimes, pending, market, regimeVars, riskVars, faults,
                   restarts, odd>>

Next ==
    \/ \E y \in Symbols, k \in Kinds : CandleClosed(y, k)
    \/ \E y \in Symbols : UpdateMarketState(y)
    \/ RegimeStep \/ RegimeRestart
    \/ RegimeThreadStarts \/ RegimeBootstrap \/ RegimeUpdate \/ RegimeMissed \/ RiskRestart
    \/ Tick

Spec == Init /\ [][Next]_vars

-----------------------------------------------------------------------------

\* A regime other than UNKNOWN takes over only when the last ConfirmationBars
\* candles with prices all read so, whatever came between them.
SwitchConfirmed ==
    [][\A y \in Symbols :
         current_regime'[y] \notin {current_regime[y], "UNKNOWN", Unset} =>
             raws'[y] = [i \in 1..ConfirmationBars |-> current_regime'[y]]]_vars

\* The last entry of a symbol, if there is one and it is dated.
LastOf(y) == {i \in DOMAIN regimes :
                 /\ regimes[i].symbol = y /\ regimes[i].ts # Epoch
                 /\ \A j \in DOMAIN regimes : regimes[j].symbol = y => j <= i}

\* While the last announcement for a symbol is chaotic or unknown, signals on
\* it are admitted for no longer than the last tick counts as recent, however
\* far the risk service is behind on the stream of regimes.
ChaosStopsTrading ==
    "replay" \notin odd =>
        \A y \in Symbols : \A i \in LastOf(y) :
            Admits(y) /\ regimes[i].regime \in {"HIGH_VOL_CHAOTIC", "UNKNOWN"} =>
                now - regimes[i].at <= SilenceMax

\* Once the risk service has caught up, risk is off exactly when the symbol
\* announced last is chaotic or unknown to the regime service: a change is
\* announced with the step that makes it, and UNKNOWN is announced as well.
RiskOffFollows ==
    rpc = "follow" /\ rlast = Len(regimes) /\ odd = {} =>
        risk_off = (current_regime[Last(regimes).symbol] \in {"HIGH_VOL_CHAOTIC", "UNKNOWN"})
=============================================================================

---------------------------- MODULE CandlesProofs ----------------------------
(***************************************************************************)
(* Proofs about Candles, for any symbols, interval, delay of trades and    *)
(* bounds.                                                                 *)
(***************************************************************************)
EXTENDS Candles, SequenceTheorems, FiniteSetTheorems, TLAPS

Trades == [symbol : Symbols, ts : Nat]
CandleSet == [symbol : Symbols, start : Nat, trades : SUBSET Nat]

\* The clock, the trades, the windows and the main thread.
MainTypes ==
    /\ now \in Nat /\ trades \in Seq(Trades)
    /\ windows \in [Symbols -> [start : Nat \cup {-1}, trades : SUBSET Nat]]
    /\ mpc \in {"start", "idle", "close", "open", "update", "emit"}
    /\ mcandle \in CandleSet \cup {NoCandle}
\* The sweep thread and the stream.
SweepTypes ==
    /\ spc \in {"boot", "idle", "scan", "del", "emit", "dead"} /\ sts \in Nat
    /\ todo \subseteq Symbols /\ expired \in Seq(Symbols)
    /\ scandles \in Seq(CandleSet) /\ stream \in Seq(CandleSet)
Types == MainTypes /\ SweepTypes

\* A window that is not open is empty; an open one starts on the grid.
WindowShape ==
    \A y \in Symbols : IF windows[y].start = -1 THEN windows[y].trades = {}
                       ELSE \E t \in Nat : windows[y].start = Align(t)
\* What the threads have in hand at each step.
MainShape ==
    /\ mpc \in {"start", "idle"} => mcandle = NoCandle
    /\ MainBusy => Len(trades) > 0
    /\ mpc = "emit" => mcandle # NoCandle
SweepShape ==
    /\ ~SweepBusy => expired = <<>> /\ scandles = <<>>
    /\ spc = "scan" => sts <= now /\ \A i \in 1..Len(scandles) : scandles[i].symbol \in Range(expired)
    /\ spc = "del" => expired # <<>>
    /\ spc = "emit" => expired = <<>> /\ scandles # <<>>
\* A window becomes a candle only when it has ended.
Ended ==
    /\ \A i \in 1..Len(stream) : stream[i].start + Interval <= now
    /\ \A i \in 1..Len(scandles) : scandles[i].start + Interval <= now
    /\ mcandle.start + Interval <= now \/ mcandle = NoCandle
Shape == WindowShape /\ MainShape /\ SweepShape /\ Ended

\* As long as they do not overlap, each thread finds the windows as it left them.
Apart ==
    "overlap" \notin odd =>
        /\ ~(MainBusy /\ SweepBusy)
        /\ mpc \in {"close", "update"} => Trade.symbol \in Keys(windows)
        /\ mpc = "close" =>
             /\ windows[Trade.symbol].start + Interval <= Trade.ts
             /\ mcandle = IF windows[Trade.symbol].trades = {} THEN NoCandle ELSE Candle(Trade.symbol)
        /\ spc = "scan" =>
             size = Cardinality(Keys(windows)) /\ todo \subseteq Keys(windows) \ Range(expired)
        /\ Range(expired) \subseteq Keys(windows)
        /\ \A i, j \in 1..Len(expired) : expired[i] = expired[j] => i = j
        /\ \A i \in 1..Len(scandles) :
             scandles[i].symbol \in Keys(windows) => scandles[i].symbol \in Range(expired)
        /\ \A i, j \in 1..Len(scandles) : scandles[i].symbol = scandles[j].symbol => i = j

\* What is emitted of a symbol lies before what is in hand, that before what is
\* open, and that before the trade that ends it.
Before(i, y, start) == stream[i].symbol = y => stream[i].start < start
InOrder ==
    /\ \A i, j \in 1..Len(stream) : i < j => Before(i, stream[j].symbol, stream[j].start)
    /\ \A y \in Keys(windows), i \in 1..Len(stream) : Before(i, y, windows[y].start)
    /\ \A j \in 1..Len(scandles), i \in 1..Len(stream) :
         Before(i, scandles[j].symbol, scandles[j].start)
    /\ mpc \in {"close", "open"} =>
         \A i \in 1..Len(stream) : Before(i, Trade.symbol, Align(Trade.ts))
    /\ mcandle # NoCandle =>
         /\ \A i \in 1..Len(stream) : Before(i, mcandle.symbol, mcandle.start)
         /\ mcandle.symbol = Trade.symbol /\ mcandle.start < Align(Trade.ts)
         /\ mpc # "close" /\ mcandle.symbol \in Keys(windows) =>
              mcandle.start < windows[mcandle.symbol].start
Ordered == "late" \notin odd /\ "overlap" \notin odd => InOrder

\* The places of a trade, by kind.
InWindow(t, y) == t \in windows[y].trades /\ y \notin Range(expired)
InMain(t) == t \in mcandle.trades /\ mpc # "close"
InSweep(t, i) == t \in scandles[i].trades
InStream(t, i) == t \in stream[i].trades
Somewhere(t) ==
    \/ \E y \in Symbols : InWindow(t, y)
    \/ InMain(t)
    \/ \E i \in 1..Len(scandles) : InSweep(t, i)
    \/ \E i \in 1..Len(stream) : InStream(t, i)
NotTwice(t) ==
    /\ \A y, z \in Symbols : InWindow(t, y) /\ InWindow(t, z) => y = z
    /\ \A i, j \in 1..Len(scandles) : InSweep(t, i) /\ InSweep(t, j) => i = j
    /\ \A i, j \in 1..Len(stream) : InStream(t, i) /\ InStream(t, j) => i = j
    /\ \A y \in Symbols, i \in 1..Len(scandles) : ~(InWindow(t, y) /\ InSweep(t, i))
    /\ \A y \in Symbols, i \in 1..Len(stream) : ~(InWindow(t, y) /\ InStream(t, i))
    /\ \A i \in 1..Len(scandles), j \in 1..Len(stream) : ~(InSweep(t, i) /\ InStream(t, j))
    /\ InMain(t) => /\ \A y \in Symbols : ~InWindow(t, y)
                    /\ \A i \in 1..Len(scandles) : ~InSweep(t, i)
                    /\ \A i \in 1..Len(stream) : ~InStream(t, i)
InHand(t) == t = Len(trades) /\ mpc \in {"close", "open", "update"}
Kept ==
    odd \subseteq {"late"} =>
        \A t \in Nat :
           /\ NotTwice(t)
           /\ Somewhere(t) <=> t \in 1..Len(trades) /\ ~InHand(t)

IInv == Types /\ Shape /\ Apart /\ Ordered /\ Kept
-----------------------------------------------------------------------------
(* The grid.                                                                *)

LEMMA Product ==
    ASSUME NEW p \in Nat, NEW q \in Nat, NEW n \in Nat \ {0}, q < p
    PROVE  q * n + n <= p * n
<1>1. PICK d \in Nat : p = q + 1 + d
  <2>1. p - q - 1 \in Nat /\ p = q + 1 + (p - q - 1)
    OBVIOUS
  <2>2. QED
    BY <2>1
<1>2. p * n = q * n + n + d * n /\ d * n \in Nat /\ q * n \in Nat
  BY <1>1
<1>3. QED
  BY <1>2

\* _align_timestamp, by the quotient q.
LEMMA AlignBounds ==
    ASSUME NEW ts \in Nat
    PROVE  /\ Align(ts) \in Nat /\ Align(ts) <= ts /\ ts < Align(ts) + Interval
           /\ \E q \in Nat : Align(ts) = q * Interval
<1>1. Interval \in Nat /\ Interval > 0
  BY CandlesAssumption
<1> DEFINE q == ts \div Interval
<1>2. q \in Nat /\ ts = Interval * q + (ts % Interval) /\ ts % Interval \in 0..(Interval - 1)
  BY <1>1
<1> HIDE DEF q
<1>3. Interval * q = q * Interval /\ q * Interval \in Nat
  BY <1>1, <1>2
<1>4. Align(ts) = q * Interval
  BY DEF Align, q
<1>5. QED
  BY <1>1, <1>2, <1>3, <1>4

\* A trade that ends a window starts a later one.
LEMMA AlignLater ==
    ASSUME NEW t \in Nat, NEW ts \in Nat, Align(t) + Interval <= ts
    PROVE  Align(t) < Align(ts)
<1>1. Interval \in Nat \ {0}
  BY CandlesAssumption
<1>2. PICK q \in Nat : Align(t) = q * Interval
  BY AlignBounds
<1>3. PICK p \in Nat : Align(ts) = p * Interval
  BY AlignBounds
<1>4. /\ Align(t) \in Nat /\ Align(ts) \in Nat /\ ts < Align(ts) + Interval
  BY AlignBounds
<1>5. CASE q < p
  <2>1. Align(t) + Interval <= Align(ts)
    BY <1>1, <1>2, <1>3, <1>5, Product
  <2>2. QED
    BY <1>1, <1>4, <2>1
<1>6. CASE p < q
  <2>1. Align(ts) + Interval <= Align(t)
    BY <1>1, <1>2, <1>3, <1>6, Product
  <2>2. QED
    BY <1>1, <1>4, <2>1
<1>7. CASE p = q
  BY <1>1, <1>2, <1>3, <1>4, <1>7
<1>8. QED
  BY <1>5, <1>6, <1>7

-----------------------------------------------------------------------------
(* Sequences.                                                               *)

LEMMA AppendFacts ==
    ASSUME NEW S, NEW q \in Seq(S), NEW e \in S
    PROVE  /\ Append(q, e) \in Seq(S) /\ Append(q, e) # <<>>
           /\ Len(Append(q, e)) = Len(q) + 1 /\ Len(q) \in Nat
           /\ \A i \in 1..Len(q) : Append(q, e)[i] = q[i]
           /\ Append(q, e)[Len(q) + 1] = e
           /\ \A i \in 1..(Len(q) + 1) : i \in 1..Len(q) \/ i = Len(q) + 1
           /\ Range(Append(q, e)) = Range(q) \cup {e}
<1>1. /\ Append(q, e) \in Seq(S) /\ Append(q, e) # <<>>
      /\ Len(Append(q, e)) = Len(q) + 1 /\ Len(q) \in Nat
      /\ \A i \in 1..Len(q) : Append(q, e)[i] = q[i]
      /\ Append(q, e)[Len(q) + 1] = e
      /\ DOMAIN q = 1..Len(q) /\ DOMAIN Append(q, e) = 1..(Len(q) + 1)
  BY AppendProperties, LenProperties
<1>2. \A i \in 1..(Len(q) + 1) : i \in 1..Len(q) \/ i = Len(q) + 1
  BY <1>1
<1>3. Len(q) + 1 \in 1..(Len(q) + 1) /\ \A i \in 1..Len(q) : i \in 1..(Len(q) + 1)
  BY <1>1
<1>4. Range(Append(q, e)) = Range(q) \cup {e}
  BY <1>1, <1>2, <1>3 DEF Range
<1>5. QED
  BY <1>1, <1>2, <1>4

LEMMA TailFacts ==
    ASSUME NEW S, NEW q \in Seq(S), q # <<>>
    PROVE  /\ Head(q) \in S /\ Head(q) = q[1] /\ Len(q) \in Nat /\ Len(q) >= 1
           /\ Tail(q) \in Seq(S) /\ Len(Tail(q)) = Len(q) - 1
           /\ \A i \in 1..(Len(q) - 1) : Tail(q)[i] = q[i + 1] /\ i + 1 \in 1..Len(q)
           /\ Range(q) = Range(Tail(q)) \cup {Head(q)}
<1>1. /\ Head(q) \in S /\ Head(q) = q[1] /\ Len(q) \in Nat /\ Len(q) >= 1
      /\ Tail(q) \in Seq(S) /\ Len(Tail(q)) = Len(q) - 1
      /\ \A i \in 1..(Len(q) - 1) : Tail(q)[i] = q[i + 1]
  BY HeadTailProperties, LenProperties, EmptySeq
<1>2. \A i \in 1..(Len(q) - 1) : i + 1 \in 1..Len(q)
  BY <1>1
<1>3. DOMAIN q = 1..Len(q) /\ DOMAIN Tail(q) = 1..(Len(q) - 1)
  BY <1>1, LenProperties
<1>4. \A i \in 1..Len(q) : i = 1 \/ (i - 1 \in 1..(Len(q) - 1) /\ (i - 1) + 1 = i)
  BY <1>1
<1>5. Range(q) \subseteq Range(Tail(q)) \cup {Head(q)}
  <2> SUFFICES ASSUME NEW i \in 1..Len(q) PROVE q[i] \in Range(Tail(q)) \cup {Head(q)}
    BY <1>3 DEF Range
  <2>1. CASE i = 1
    BY <1>1, <2>1
  <2>2. CASE i # 1
    <3>1. i - 1 \in 1..(Len(q) - 1) /\ Tail(q)[i - 1] = q[i]
      BY <1>1, <1>4, <2>2
    <3>2. QED
      BY <1>3, <3>1 DEF Range
  <2>3. QED
    BY <2>1, <2>2
<1>6. Range(Tail(q)) \cup {Head(q)} \subseteq Range(q)
  <2>1. 1 \in 1..Len(q)
    BY <1>1
  <2>2. QED
    BY <1>1, <1>2, <1>3, <2>1 DEF Range
<1>7. QED
  BY <1>1, <1>2, <1>5, <1>6
-----------------------------------------------------------------------------
(* Types.                                                                   *)

LEMMA Facts ==
    ASSUME Types
    PROVE  /\ now \in Nat /\ Len(trades) \in Nat /\ Len(stream) \in Nat
           /\ Len(scandles) \in Nat /\ Len(expired) \in Nat /\ Interval \in Nat \ {0}
           /\ DOMAIN trades = 1..Len(trades) /\ DOMAIN stream = 1..Len(stream)
           /\ DOMAIN scandles = 1..Len(scandles) /\ DOMAIN expired = 1..Len(expired)
           /\ \A i \in 1..Len(stream) : stream[i].start \in Nat
           /\ \A i \in 1..Len(scandles) : scandles[i].start \in Nat /\ scandles[i].symbol \in Symbols
           /\ \A y \in Symbols : windows[y].start \in Nat \cup {-1} /\ windows[y].trades \in SUBSET Nat
           /\ \A y \in Symbols : y \in Keys(windows) <=> windows[y].start # -1
           /\ \A y \in Keys(windows) : y \in Symbols /\ windows[y].start \in Nat /\ Candle(y) \in CandleSet
           /\ Len(trades) > 0 => Trade.symbol \in Symbols /\ Trade.ts \in Nat
<1>1. /\ now \in Nat /\ Len(trades) \in Nat /\ Len(stream) \in Nat
      /\ Len(scandles) \in Nat /\ Len(expired) \in Nat /\ Interval \in Nat \ {0}
      /\ DOMAIN trades = 1..Len(trades) /\ DOMAIN stream = 1..Len(stream)
      /\ DOMAIN scandles = 1..Len(scandles) /\ DOMAIN expired = 1..Len(expired)
  BY LenProperties, CandlesAssumption DEF Types, MainTypes, SweepTypes
<1>2. /\ \A i \in 1..Len(stream) : stream[i] \in CandleSet
      /\ \A i \in 1..Len(scandles) : scandles[i] \in CandleSet
      /\ \A i \in 1..Len(trades) : trades[i] \in Trades
  BY ElementOfSeq DEF Types, MainTypes, SweepTypes
<1>3. /\ \A i \in 1..Len(stream) : stream[i].start \in Nat
      /\ \A i \in 1..Len(scandles) : scandles[i].start \in Nat /\ scandles[i].symbol \in Symbols
  BY <1>2 DEF CandleSet
<1>4. \A y \in Symbols : windows[y].start \in Nat \cup {-1} /\ windows[y].trades \in SUBSET Nat
  BY DEF Types, MainTypes
<1>5. \A y \in Symbols : y \in Keys(windows) <=> windows[y].start # -1
  BY DEF Keys
<1>6. ASSUME NEW y \in Keys(windows)
      PROVE  y \in Symbols /\ windows[y].start \in Nat /\ Candle(y) \in CandleSet
  <2>1. y \in Symbols /\ windows[y].start # -1
    BY DEF Keys
  <2>2. windows[y].start \in Nat
    BY <1>4, <2>1
  <2>3. QED
    BY <1>4, <2>1, <2>2 DEF Candle, CandleSet
<1>7. ASSUME Len(trades) > 0 PROVE Trade.symbol \in Symbols /\ Trade.ts \in Nat
  <2>1. trades[Len(trades)] \in Trades
    BY <1>1, <1>2, <1>7
  <2>2. QED
    BY <2>1 DEF Trade, Last, Trades
<1>8. QED
  BY <1>1, <1>3, <1>4, <1>5, <1>6, <1>7

\* What the actions assign, in the terms of the proofs.
LEMMA ReceiveOutcome ==
    ASSUME Types, Shape, NEW y \in Symbols, NEW ts, Receive(y, ts)
    PROVE  /\ mpc = "idle" /\ mcandle = NoCandle /\ ts \in 0..now /\ ts \in Nat
           /\ trades' \in Seq(Trades) /\ Len(trades') = Len(trades) + 1
           /\ Trade'.symbol = y /\ Trade'.ts = ts
           /\ UNCHANGED <<now, windows, running, sweepVars, stream, restarts>>
           /\ odd \subseteq odd'
           /\ "late" \notin odd' => now < Align(ts) + Interval
           /\ "overlap" \notin odd' => ~SweepBusy
           /\ \/ /\ y \in Keys(windows) /\ windows[y].start + Interval <= ts /\ mpc' = "close"
                 /\ mcandle' = IF windows[y].trades = {} THEN NoCandle ELSE Candle(y)
              \/ mpc' = "open" /\ mcandle' = NoCandle
<1>1. /\ mpc = "idle" /\ ts \in 0..now /\ trades' = Append(trades, [symbol |-> y, ts |-> ts])
      /\ UNCHANGED <<now, windows, running, sweepVars, stream, restarts>>
      /\ odd' = odd \cup {h \in {"late"} : Late(y, ts)} \cup {h \in {"overlap"} : SweepBusy}
  BY DEF Receive
<1>2. ts \in Nat /\ now \in Nat /\ trades \in Seq(Trades)
  BY <1>1 DEF Types, MainTypes
<1>3. [symbol |-> y, ts |-> ts] \in Trades
  BY <1>2 DEF Trades
<1>4. /\ trades' \in Seq(Trades) /\ Len(trades') = Len(trades) + 1
      /\ trades'[Len(trades) + 1] = [symbol |-> y, ts |-> ts]
  BY <1>1, <1>2, <1>3, AppendFacts
<1>5. Trade'.symbol = y /\ Trade'.ts = ts
  BY <1>4 DEF Trade, Last
<1>6. mcandle = NoCandle
  BY <1>1 DEF Shape, MainShape
<1>7. "late" \notin odd' => now < Align(ts) + Interval
  <2>1. Align(ts) \in Nat /\ Interval \in Nat
    BY <1>2, AlignBounds, CandlesAssumption
  <2>2. "late" \notin odd' => ~IsComplete([start |-> Align(ts)], now)
    BY <1>1 DEF Late
  <2>3. QED
    BY <1>2, <2>1, <2>2 DEF IsComplete
<1>8. \/ /\ y \in Keys(windows) /\ windows[y].start + Interval <= ts /\ mpc' = "close"
         /\ mcandle' = IF windows[y].trades = {} THEN NoCandle ELSE Candle(y)
      \/ mpc' = "open" /\ mcandle' = NoCandle
  <2>1. CASE y \in Keys(windows) /\ IsComplete(windows[y], ts)
    <3>1. windows[y].start + Interval <= ts
      BY <1>2, <2>1, Facts DEF IsComplete
    <3>2. QED
      BY <2>1, <3>1 DEF Receive
  <2>2. CASE ~(y \in Keys(windows) /\ IsComplete(windows[y], ts))
    BY <1>6, <2>2 DEF Receive
  <2>3. QED
    BY <2>1, <2>2
<1>9. QED
  BY <1>1, <1>2, <1>4, <1>5, <1>6, <1>7, <1>8

LEMMA WindowUpdate ==
    ASSUME NEW S, NEW T, NEW w \in [start : S, trades : T], NEW x
    PROVE  [w EXCEPT !.trades = x] = [start |-> w.start, trades |-> x]
<1>1. PICK s \in S, q \in T : w = [start |-> s, trades |-> q]
  OBVIOUS
<1>2. QED
  BY <1>1

\* Main: a window goes, comes or takes the trade.
LEMMA WindowOutcome ==
    ASSUME Types, Shape, Close \/ Open \/ Update
    PROVE  /\ mpc \in {"close", "open", "update"} /\ mpc' # "close"
           /\ Len(trades) > 0 /\ Trade.symbol \in Symbols /\ Trade.ts \in Nat
           /\ UNCHANGED <<now, trades, running, spc, sts, size, expired, scandles, stream, restarts, odd>>
           /\ mcandle' \in {mcandle, NoCandle}
           /\ mpc' \in {"idle", "open", "update", "emit"}
           /\ mpc' = "idle" => mcandle' = NoCandle
           /\ mpc' = "emit" => mcandle' # NoCandle
           /\ todo' \subseteq Symbols /\ (spc # "scan" => todo' = todo)
           /\ \A z \in Symbols : z # Trade.symbol => windows'[z] = windows[z]
           /\ \/ windows' = windows
              \/ Close /\ windows'[Trade.symbol] = NoWindow
              \/ /\ Open /\ Trade.symbol \notin Keys(windows)
                 /\ windows'[Trade.symbol] = [start |-> Align(Trade.ts), trades |-> {}]
              \/ /\ Update /\ Trade.symbol \in Keys(windows)
                 /\ windows'[Trade.symbol] =
                       [start |-> windows[Trade.symbol].start,
                        trades |-> windows[Trade.symbol].trades \cup {Len(trades)}]
           /\ windows' \in [Symbols -> [start : Nat \cup {-1}, trades : SUBSET Nat]]
<1> DEFINE y == Trade.symbol
           W == [start : Nat \cup {-1}, trades : SUBSET Nat]
<1>1. mpc \in {"close", "open", "update"}
  BY DEF Close, Open, Update
<1>2. Len(trades) > 0 /\ y \in Symbols /\ Trade.ts \in Nat /\ Len(trades) \in Nat
      /\ windows \in [Symbols -> W] /\ todo \subseteq Symbols
  BY <1>1, Facts DEF Shape, MainShape, MainBusy, Types, MainTypes, SweepTypes
<1>3. CASE Close
  <2>1. /\ UNCHANGED <<now, trades, running, sweepVars, stream, restarts, odd>> /\ mpc = "close"
        /\ \/ /\ windows' = [windows EXCEPT ![y] = NoWindow] /\ mpc' = "open" /\ mcandle' = mcandle
           \/ windows' = windows /\ mpc' = "idle" /\ mcandle' = NoCandle
    BY <1>3 DEF Close, DropTrade
  <2>2. NoWindow \in W
    BY DEF NoWindow
  <2>3. QED
    BY <1>2, <1>3, <2>1, <2>2 DEF sweepVars
<1>4. CASE Open
  <2>1. /\ UNCHANGED <<now, trades, running, mcandle, spc, sts, size, expired, scandles, stream, restarts, odd>>
        /\ mpc = "open" /\ mpc' = "update"
        /\ \/ windows' = windows /\ todo' = todo
           \/ /\ y \notin Keys(windows)
              /\ windows' = [windows EXCEPT ![y] = [start |-> Align(Trade.ts), trades |-> {}]]
              /\ todo' = IF spc = "scan" THEN todo \cup {y} ELSE todo
    BY <1>4 DEF Open
  <2>2. [start |-> Align(Trade.ts), trades |-> {}] \in W
    BY <1>2, AlignBounds
  <2>3. QED
    BY <1>2, <1>4, <2>1, <2>2
<1>5. CASE Update
  <2> DEFINE w == [start |-> windows[y].start, trades |-> windows[y].trades \cup {Len(trades)}]
  <2>1. /\ UNCHANGED <<now, trades, running, sweepVars, stream, restarts, odd>> /\ mpc = "update"
        /\ \/ /\ y \in Keys(windows)
              /\ windows' = [windows EXCEPT ![y].trades = @ \cup {Len(trades)}]
              /\ mpc' = Emitting(mcandle) /\ mcandle' = mcandle
           \/ windows' = windows /\ mpc' = "idle" /\ mcandle' = NoCandle
           \/ windows' = windows /\ mpc' = Emitting(mcandle) /\ mcandle' = mcandle
    BY <1>5 DEF Update, DropTrade
  <2>2. /\ mpc' = "idle" \/ mpc' = "emit"
        /\ mpc' = "idle" => mcandle' = NoCandle
        /\ mpc' = "emit" => mcandle' # NoCandle
    BY <2>1 DEF Emitting
  <2>3. w \in W /\ windows[y] \in W
    BY <1>2
  <2>4. [windows[y] EXCEPT !.trades = @ \cup {Len(trades)}] = w
    BY <2>3, WindowUpdate
  <2>5. [windows EXCEPT ![y].trades = @ \cup {Len(trades)}] = [windows EXCEPT ![y] = w]
    BY <1>2, <2>4
  <2>6. windows' = windows \/ (y \in Keys(windows) /\ windows' = [windows EXCEPT ![y] = w])
    BY <2>1, <2>5
  <2>7. mcandle' \in {mcandle, NoCandle}
    BY <2>1
  <2>8. /\ windows' \in [Symbols -> W]
        /\ \A z \in Symbols : z # y => windows'[z] = windows[z]
        /\ windows' = windows \/ (y \in Keys(windows) /\ windows'[y] = w)
    BY <1>2, <2>3, <2>6
  <2>9. QED
    BY <1>2, <1>5, <2>1, <2>2, <2>7, <2>8 DEF sweepVars
<1>6. QED
  BY <1>3, <1>4, <1>5
\* Sweep: the iteration fails, takes one window, or ends.
LEMMA VisitOutcome ==
    ASSUME Types, Visit
    PROVE  /\ spc = "scan"
           /\ UNCHANGED <<now, trades, windows, running, mainVars, stream, restarts, odd>>
           /\ \/ Cardinality(Keys(windows)) # size /\ ThreadEnds
              \/ \E y \in todo :
                   /\ todo' = todo \ {y} /\ spc' = "scan" /\ sts' = sts /\ size' = size
                   /\ \/ UNCHANGED <<expired, scandles>>
                      \/ /\ y \in Keys(windows) /\ windows[y].start + Interval <= sts
                         /\ expired' = Append(expired, y)
                         /\ \/ windows[y].trades = {} /\ scandles' = scandles
                            \/ windows[y].trades # {} /\ scandles' = Append(scandles, Candle(y))
              \/ /\ spc' = IF expired = <<>> THEN "idle" ELSE "del"
                 /\ sts' = 0 /\ UNCHANGED <<todo, expired, scandles>>
<1>1. /\ spc = "scan"
      /\ UNCHANGED <<now, trades, windows, running, mainVars, stream, restarts, odd>>
  BY DEF Visit
<1>2. \A y \in Symbols : y \in Keys(windows) /\ IsComplete(windows[y], sts) =>
         windows[y].start + Interval <= sts
  BY Facts DEF IsComplete, Types, SweepTypes
<1>3. CASE Cardinality(Keys(windows)) # size /\ ThreadEnds
  BY <1>1, <1>3
<1>4. CASE /\ spc' = IF expired = <<>> THEN "idle" ELSE "del"
           /\ sts' = 0 /\ size' = 0 /\ UNCHANGED <<todo, expired, scandles>>
  BY <1>1, <1>4
<1>5. CASE \E y \in todo :
             /\ todo' = todo \ {y} /\ UNCHANGED <<spc, sts, size>>
             /\ IF y \in Keys(windows) /\ IsComplete(windows[y], sts)
                THEN /\ expired' = Append(expired, y)
                     /\ scandles' = IF windows[y].trades = {} THEN scandles
                                    ELSE Append(scandles, Candle(y))
                ELSE UNCHANGED <<expired, scandles>>
  <2>1. PICK y \in todo :
             /\ todo' = todo \ {y} /\ UNCHANGED <<spc, sts, size>>
             /\ IF y \in Keys(windows) /\ IsComplete(windows[y], sts)
                THEN /\ expired' = Append(expired, y)
                     /\ scandles' = IF windows[y].trades = {} THEN scandles
                                    ELSE Append(scandles, Candle(y))
                ELSE UNCHANGED <<expired, scandles>>
    BY <1>5
  <2>2. y \in Symbols
    BY DEF Types, SweepTypes
  <2>3. QED
    BY <1>1, <1>2, <2>1, <2>2
<1>6. QED
  BY <1>3, <1>4, <1>5 DEF Visit

\* Sweep: a window is deleted.
LEMMA DeleteOutcome ==
    ASSUME Types, Shape, DeleteExpired
    PROVE  /\ spc = "del" /\ expired # <<>> /\ Head(expired) \in Symbols
           /\ UNCHANGED <<now, trades, running, mainVars, stream, restarts, odd>>
           /\ windows' \in [Symbols -> [start : Nat \cup {-1}, trades : SUBSET Nat]]
           /\ \A z \in Symbols : z # Head(expired) => windows'[z] = windows[z]
           /\ \/ Head(expired) \notin Keys(windows) /\ ThreadEnds /\ windows' = windows
              \/ /\ windows'[Head(expired)] = NoWindow /\ expired' = Tail(expired)
                 /\ UNCHANGED <<sts, size, todo, scandles>>
                 /\ spc' = IF Len(expired) > 1 THEN "del"
                           ELSE IF scandles = <<>> THEN "idle" ELSE "emit"
<1>1. spc = "del" /\ UNCHANGED <<now, trades, running, mainVars, stream, restarts, odd>>
  BY DEF DeleteExpired
<1>2. expired # <<>> /\ Head(expired) \in Symbols
  <2>1. expired # <<>> /\ expired \in Seq(Symbols)
    BY <1>1 DEF Shape, SweepShape, Types, SweepTypes
  <2>2. QED
    BY <2>1, TailFacts
<1>3. /\ windows \in [Symbols -> [start : Nat \cup {-1}, trades : SUBSET Nat]]
      /\ NoWindow \in [start : Nat \cup {-1}, trades : SUBSET Nat]
  BY DEF Types, MainTypes, NoWindow
<1>4. CASE Head(expired) \in Keys(windows)
  <2>1. /\ windows' = [windows EXCEPT ![Head(expired)] = NoWindow]
        /\ expired' = Tail(expired) /\ UNCHANGED <<sts, size, todo, scandles>>
        /\ spc' = IF Len(expired) > 1 THEN "del"
                  ELSE IF scandles = <<>> THEN "idle" ELSE "emit"
    BY <1>4 DEF DeleteExpired, Delete
  <2>2. QED
    BY <1>1, <1>2, <1>3, <2>1
<1>5. CASE Head(expired) \notin Keys(windows)
  BY <1>1, <1>2, <1>3, <1>5 DEF DeleteExpired
<1>6. QED
  BY <1>4, <1>5

-----------------------------------------------------------------------------
(* The shape of the state, step by step.                                    *)

LEMMA SweepShapeStays ==
    ASSUME SweepShape, UNCHANGED <<spc, sts, expired, scandles>>, Types,
           now' \in Nat, now' >= now
    PROVE  SweepShape'
<1>1. sts \in Nat /\ now \in Nat
  BY DEF Types, MainTypes, SweepTypes
<1>2. QED
  BY <1>1 DEF SweepShape, SweepBusy, Range

LEMMA MainShapeStep ==
    ASSUME Types, Shape, NEW y \in Symbols, NEW ts, Receive(y, ts)
    PROVE  Types' /\ Shape'
<1>1. /\ mpc = "idle" /\ mcandle = NoCandle /\ ts \in 0..now /\ ts \in Nat
      /\ trades' \in Seq(Trades) /\ Len(trades') = Len(trades) + 1
      /\ UNCHANGED <<now, windows, running, sweepVars, stream, restarts>>
      /\ \/ /\ y \in Keys(windows) /\ windows[y].start + Interval <= ts /\ mpc' = "close"
            /\ mcandle' = IF windows[y].trades = {} THEN NoCandle ELSE Candle(y)
         \/ mpc' = "open" /\ mcandle' = NoCandle
  BY ReceiveOutcome
<1>2. /\ mcandle' \in CandleSet \cup {NoCandle}
      /\ mcandle'.start + Interval <= now \/ mcandle' = NoCandle
  <2>1. CASE mcandle' = NoCandle
    BY <2>1
  <2>2. CASE y \in Keys(windows) /\ windows[y].start + Interval <= ts /\ mcandle' = Candle(y)
    <3>1. mcandle' \in CandleSet /\ mcandle'.start = windows[y].start /\ windows[y].start \in Nat
      BY <2>2, Facts DEF Candle
    <3>2. QED
      BY <1>1, <2>2, <3>1, Facts
  <2>3. QED
    BY <1>1, <2>1, <2>2
<1>3. Types'
  BY <1>1, <1>2 DEF Types, MainTypes, SweepTypes, sweepVars
<1>4. WindowShape'
  BY <1>1 DEF Shape, WindowShape
<1>5. MainShape'
  BY <1>1, Facts DEF MainShape, MainBusy
<1>6. SweepShape'
  BY <1>1, SweepShapeStays, Facts DEF Shape, sweepVars
<1>7. Ended'
  BY <1>1, <1>2 DEF Shape, Ended, sweepVars
<1>8. QED
  BY <1>3, <1>4, <1>5, <1>6, <1>7 DEF Shape

LEMMA WindowShapeStep ==
    ASSUME Types, Shape, Close \/ Open \/ Update
    PROVE  Types' /\ Shape'
<1>1. /\ Len(trades) > 0 /\ Trade.symbol \in Symbols /\ Trade.ts \in Nat
      /\ UNCHANGED <<now, trades, running, spc, sts, size, expired, scandles, stream, restarts, odd>>
      /\ mcandle' \in {mcandle, NoCandle}
      /\ mpc' \in {"idle", "open", "update", "emit"}
      /\ mpc' = "idle" => mcandle' = NoCandle
      /\ mpc' = "emit" => mcandle' # NoCandle
      /\ todo' \subseteq Symbols
      /\ \A z \in Symbols : z # Trade.symbol => windows'[z] = windows[z]
      /\ \/ windows' = windows
         \/ windows'[Trade.symbol] = NoWindow
         \/ windows'[Trade.symbol] = [start |-> Align(Trade.ts), trades |-> {}]
         \/ /\ Trade.symbol \in Keys(windows)
            /\ windows'[Trade.symbol].start = windows[Trade.symbol].start
      /\ windows' \in [Symbols -> [start : Nat \cup {-1}, trades : SUBSET Nat]]
  BY WindowOutcome
<1>2. Types'
  BY <1>1 DEF Types, MainTypes, SweepTypes
<1>3. WindowShape'
  <2> SUFFICES ASSUME NEW y \in Symbols
               PROVE  IF windows'[y].start = -1 THEN windows'[y].trades = {}
                      ELSE \E t \in Nat : windows'[y].start = Align(t)
    BY DEF WindowShape, Align
  <2>1. CASE windows'[y] = windows[y]
    BY <2>1 DEF Shape, WindowShape
  <2>2. CASE windows'[y] = NoWindow
    BY <2>2 DEF NoWindow
  <2>3. CASE windows'[y] = [start |-> Align(Trade.ts), trades |-> {}]
    <3>1. windows'[y].start = Align(Trade.ts) /\ windows'[y].trades = {}
      BY <2>3
    <3>2. QED
      BY <1>1, <3>1
  <2>4. CASE y \in Keys(windows) /\ windows'[y].start = windows[y].start
    BY <2>4, Facts DEF Shape, WindowShape
  <2>5. QED
    BY <1>1, <2>1, <2>2, <2>3, <2>4
<1>4. MainShape'
  BY <1>1 DEF MainShape, MainBusy
<1>5. SweepShape'
  BY <1>1, SweepShapeStays, Facts DEF Shape
<1>6. Ended'
  BY <1>1 DEF Shape, Ended
<1>7. QED
  BY <1>2, <1>3, <1>4, <1>5, <1>6 DEF Shape

\* The thread has nothing in hand.
LEMMA RestShape ==
    ASSUME Types, Shape, ThreadEnds, UNCHANGED <<now, trades, windows, mainVars, stream>>
    PROVE  Types' /\ Shape'
<1>1. /\ spc' = "dead" /\ sts' = 0 /\ todo' = {} /\ expired' = <<>> /\ scandles' = <<>>
      /\ Len(scandles') = 0 /\ expired' \in Seq(Symbols) /\ scandles' \in Seq(CandleSet)
  BY EmptySeq DEF ThreadEnds
<1>2. Types'
  BY <1>1 DEF Types, MainTypes, SweepTypes, mainVars
<1>3. WindowShape' /\ MainShape'
  BY DEF Shape, WindowShape, MainShape, MainBusy, mainVars
<1>4. SweepShape' /\ Ended'
  BY <1>1 DEF Shape, SweepShape, SweepBusy, Ended, mainVars
<1>5. QED
  BY <1>2, <1>3, <1>4 DEF Shape
LEMMA VisitShape ==
    ASSUME Types, Shape, Visit
    PROVE  Types' /\ Shape'
<1>1. spc = "scan" /\ UNCHANGED <<now, trades, windows, running, mainVars, stream, restarts, odd>>
  BY VisitOutcome
<1>2. WindowShape' /\ MainShape'
  BY <1>1 DEF Shape, WindowShape, MainShape, MainBusy, mainVars
<1>3. /\ sts \in Nat /\ sts <= now /\ now \in Nat /\ todo \subseteq Symbols
      /\ expired \in Seq(Symbols) /\ scandles \in Seq(CandleSet)
      /\ \A i \in 1..Len(scandles) : scandles[i].symbol \in Range(expired)
      /\ \A i \in 1..Len(scandles) : scandles[i].start + Interval <= now
  BY <1>1 DEF Types, MainTypes, SweepTypes, Shape, SweepShape, Ended
<1>4. ASSUME spc' \in {"scan", "idle", "del"}, sts' \in Nat, sts' <= now, todo' \subseteq Symbols,
             expired' \in Seq(Symbols), scandles' \in Seq(CandleSet),
             \A i \in 1..Len(scandles') : scandles'[i].symbol \in Range(expired')
                                          /\ scandles'[i].start + Interval <= now,
             spc' = "idle" => expired' = <<>>, spc' = "del" => expired' # <<>>
      PROVE  Types' /\ Shape'
  <2>1. Types'
    BY <1>1, <1>4 DEF Types, MainTypes, SweepTypes, mainVars
  <2>2. expired' = <<>> => scandles' = <<>>
    <3>1. expired' = <<>> => Range(expired') = {}
      BY EmptySeq DEF Range
    <3>2. expired' = <<>> => Len(scandles') = 0
      BY <1>4, <3>1, LenProperties
    <3>3. QED
      BY <1>4, <3>2, EmptySeq
  <2>3. SweepShape'
    BY <1>1, <1>4, <2>2 DEF SweepShape, SweepBusy, Range
  <2>4. Ended'
    BY <1>1, <1>4 DEF Shape, Ended, mainVars
  <2>5. QED
    BY <1>2, <2>1, <2>3, <2>4 DEF Shape
<1>5. CASE ThreadEnds
  BY <1>1, <1>5, RestShape
<1>6. CASE /\ spc' = IF expired = <<>> THEN "idle" ELSE "del"
           /\ sts' = 0 /\ UNCHANGED <<todo, expired, scandles>>
  BY <1>3, <1>4, <1>6
<1>7. ASSUME NEW y \in todo, todo' = todo \ {y}, spc' = "scan", sts' = sts,
             UNCHANGED <<expired, scandles>>
      PROVE  Types' /\ Shape'
  BY <1>3, <1>4, <1>7
<1>8. ASSUME NEW y \in todo, todo' = todo \ {y}, spc' = "scan", sts' = sts,
             y \in Keys(windows), windows[y].start + Interval <= sts, expired' = Append(expired, y),
             scandles' = scandles \/ scandles' = Append(scandles, Candle(y))
      PROVE  Types' /\ Shape'
  <2>1. y \in Symbols
    BY <1>3
  <2>2. expired' \in Seq(Symbols) /\ Range(expired') = Range(expired) \cup {y}
    BY <1>3, <1>8, <2>1, AppendFacts
  <2>3. CASE scandles' = scandles
    BY <1>3, <1>4, <1>8, <2>2, <2>3
  <2>4. CASE scandles' = Append(scandles, Candle(y))
    <3>1. /\ Candle(y) \in CandleSet /\ Candle(y).symbol = y /\ Candle(y).start = windows[y].start
          /\ windows[y].start \in Nat
      BY <1>8, Facts DEF Candle
    <3>2. Candle(y).start + Interval <= now
      BY <1>3, <1>8, <3>1, Facts
    <3>3. /\ scandles' \in Seq(CandleSet) /\ Len(scandles') = Len(scandles) + 1
          /\ \A i \in 1..Len(scandles) : scandles'[i] = scandles[i]
          /\ scandles'[Len(scandles) + 1] = Candle(y)
          /\ \A i \in 1..(Len(scandles) + 1) : i \in 1..Len(scandles) \/ i = Len(scandles) + 1
      BY <1>3, <2>4, <3>1, AppendFacts
    <3>4. \A i \in 1..Len(scandles') : scandles'[i].symbol \in Range(expired')
                                       /\ scandles'[i].start + Interval <= now
      BY <1>3, <2>2, <3>1, <3>2, <3>3
    <3>5. QED
      BY <1>3, <1>4, <1>8, <2>2, <3>3, <3>4
  <2>5. QED
    BY <1>8, <2>3, <2>4
<1>9. QED
  BY <1>5, <1>6, <1>7, <1>8, VisitOutcome

LEMMA DeleteShape ==
    ASSUME Types, Shape, DeleteExpired
    PROVE  Types' /\ Shape'
<1>1. /\ spc = "del" /\ expired # <<>> /\ Head(expired) \in Symbols
      /\ UNCHANGED <<now, trades, running, mainVars, stream, restarts, odd>>
      /\ windows' \in [Symbols -> [start : Nat \cup {-1}, trades : SUBSET Nat]]
      /\ \A z \in Symbols : z # Head(expired) => windows'[z] = windows[z]
  BY DeleteOutcome
<1>2. CASE ThreadEnds /\ windows' = windows
  BY <1>1, <1>2, RestShape
<1>3. CASE /\ windows'[Head(expired)] = NoWindow /\ expired' = Tail(expired)
           /\ UNCHANGED <<sts, size, todo, scandles>>
           /\ spc' = IF Len(expired) > 1 THEN "del"
                     ELSE IF scandles = <<>> THEN "idle" ELSE "emit"
  <2>1. expired' \in Seq(Symbols) /\ Len(expired') = Len(expired) - 1
        /\ Len(expired) \in Nat /\ Len(expired) >= 1
    BY <1>1, <1>3, TailFacts DEF Types, SweepTypes
  <2>2. Types'
    BY <1>1, <1>3, <2>1 DEF Types, MainTypes, SweepTypes, mainVars
  <2>3. WindowShape'
    <3> SUFFICES ASSUME NEW y \in Symbols
                 PROVE  IF windows'[y].start = -1 THEN windows'[y].trades = {}
                        ELSE \E t \in Nat : windows'[y].start = Align(t)
      BY DEF WindowShape, Align
    <3>1. CASE y = Head(expired)
      BY <1>3, <3>1 DEF NoWindow
    <3>2. CASE y # Head(expired)
      BY <1>1, <3>2 DEF Shape, WindowShape
    <3>3. QED
      BY <3>1, <3>2
  <2>4. MainShape' /\ Ended'
    BY <1>1, <1>3 DEF Shape, MainShape, MainBusy, Ended, mainVars
  <2>5. SweepShape'
    <3>1. CASE Len(expired) > 1
      <4>1. Len(expired') > 0
        BY <2>1, <3>1
      <4>2. expired' # <<>>
        BY <4>1, EmptySeq
      <4>3. QED
        BY <1>3, <3>1, <4>2 DEF SweepShape, SweepBusy
    <3>2. CASE ~(Len(expired) > 1)
      <4>1. Len(expired') = 0
        BY <2>1, <3>2
      <4>2. expired' = <<>>
        BY <2>1, <4>1, EmptySeq
      <4>3. QED
        BY <1>3, <3>2, <4>2 DEF SweepShape, SweepBusy
    <3>3. QED
      BY <3>1, <3>2
  <2>6. QED
    BY <2>2, <2>3, <2>4, <2>5 DEF Shape
<1>4. QED
  BY <1>2, <1>3, DeleteOutcome

LEMMA SweepEmitOutcome ==
    ASSUME Types, Shape, SweepEmit
    PROVE  /\ spc = "emit" /\ expired = <<>> /\ scandles # <<>>
           /\ UNCHANGED <<now, trades, windows, running, mainVars, restarts>>
           /\ \/ /\ stream' = Append(stream, Head(scandles)) /\ scandles' = Tail(scandles)
                 /\ spc' = IF Len(scandles) > 1 THEN "emit" ELSE "idle"
                 /\ UNCHANGED <<sts, size, todo, expired, odd>>
              \/ odd' = odd \cup {"redis"} /\ ThreadEnds /\ UNCHANGED stream
BY DEF SweepEmit, Shape, SweepShape

LEMMA SweepEmitShape ==
    ASSUME Types, Shape, SweepEmit
    PROVE  Types' /\ Shape'
<1>1. /\ spc = "emit" /\ expired = <<>> /\ scandles # <<>>
      /\ UNCHANGED <<now, trades, windows, running, mainVars, restarts>>
  BY SweepEmitOutcome
<1>2. CASE ThreadEnds /\ UNCHANGED stream
  BY <1>1, <1>2, RestShape
<1>3. CASE /\ stream' = Append(stream, Head(scandles)) /\ scandles' = Tail(scandles)
           /\ spc' = IF Len(scandles) > 1 THEN "emit" ELSE "idle"
           /\ UNCHANGED <<sts, size, todo, expired, odd>>
  <2>1. /\ Head(scandles) \in CandleSet /\ Head(scandles) = scandles[1] /\ Len(scandles) \in Nat
        /\ Len(scandles) >= 1 /\ Tail(scandles) \in Seq(CandleSet)
        /\ Len(Tail(scandles)) = Len(scandles) - 1
        /\ \A i \in 1..(Len(scandles) - 1) : Tail(scandles)[i] = scandles[i + 1] /\ i + 1 \in 1..Len(scandles)
    BY <1>1, TailFacts DEF Types, SweepTypes
  <2>2. /\ stream' \in Seq(CandleSet) /\ Len(stream') = Len(stream) + 1
        /\ \A i \in 1..Len(stream) : stream'[i] = stream[i]
        /\ stream'[Len(stream) + 1] = Head(scandles)
        /\ \A i \in 1..(Len(stream) + 1) : i \in 1..Len(stream) \/ i = Len(stream) + 1
    BY <1>3, <2>1, AppendFacts DEF Types, SweepTypes
  <2>3. Types'
    BY <1>1, <1>3, <2>1, <2>2 DEF Types, MainTypes, SweepTypes, mainVars
  <2>4. WindowShape' /\ MainShape'
    BY <1>1 DEF Shape, WindowShape, MainShape, MainBusy, mainVars
  <2>5. Ended'
    <3>1. /\ \A i \in 1..Len(stream) : stream[i].start + Interval <= now
          /\ \A i \in 1..Len(scandles) : scandles[i].start + Interval <= now
          /\ mcandle.start + Interval <= now \/ mcandle = NoCandle
      BY DEF Shape, Ended
    <3>2. \A i \in 1..Len(stream') : stream'[i].start + Interval <= now
      BY <2>1, <2>2, <3>1
    <3>3. \A i \in 1..Len(scandles') : scandles'[i].start + Interval <= now
      BY <1>3, <2>1, <3>1
    <3>4. QED
      BY <1>1, <3>1, <3>2, <3>3 DEF Ended, mainVars
  <2>6. SweepShape'
    <3>1. CASE Len(scandles) > 1
      <4>1. Len(scandles') > 0
        BY <1>3, <2>1, <3>1
      <4>2. scandles' # <<>>
        BY <4>1, EmptySeq
      <4>3. QED
        BY <1>1, <1>3, <3>1, <4>2 DEF SweepShape, SweepBusy
    <3>2. CASE ~(Len(scandles) > 1)
      <4>1. Len(scandles') = 0 /\ scandles' \in Seq(CandleSet)
        BY <1>3, <2>1, <3>2
      <4>2. scandles' = <<>>
        BY <4>1, EmptySeq
      <4>3. QED
        BY <1>1, <1>3, <3>2, <4>2 DEF SweepShape, SweepBusy
    <3>3. QED
      BY <3>1, <3>2
  <2>7. QED
    BY <2>3, <2>4, <2>5, <2>6 DEF Shape
<1>4. QED
  BY <1>2, <1>3, SweepEmitOutcome

\* xadd by the main thread.
LEMMA EmitOutcome ==
    ASSUME Types, Shape, Emit
    PROVE  /\ mpc = "emit" /\ mcandle # NoCandle /\ mcandle \in CandleSet
           /\ mpc' = "idle" /\ mcandle' = NoCandle
           /\ UNCHANGED <<now, trades, windows, running, sweepVars, restarts>>
           /\ \/ /\ odd' = odd /\ stream' \in Seq(CandleSet) /\ Len(stream') = Len(stream) + 1
                 /\ \A i \in 1..Len(stream) : stream'[i] = stream[i]
                 /\ stream'[Len(stream) + 1] = mcandle
                 /\ \A i \in 1..(Len(stream) + 1) : i \in 1..Len(stream) \/ i = Len(stream) + 1
              \/ odd' = odd \cup {"redis"} /\ stream' = stream
<1>1. /\ mpc = "emit" /\ mpc' = "idle" /\ mcandle' = NoCandle
      /\ UNCHANGED <<now, trades, windows, running, sweepVars, restarts>>
      /\ \/ stream' = Append(stream, mcandle) /\ odd' = odd
         \/ odd' = odd \cup {"redis"} /\ stream' = stream
  BY DEF Emit
<1>2. mcandle # NoCandle /\ mcandle \in CandleSet /\ stream \in Seq(CandleSet)
  BY <1>1 DEF Shape, MainShape, Types, MainTypes, SweepTypes
<1>3. QED
  BY <1>1, <1>2, AppendFacts

LEMMA EmitShape ==
    ASSUME Types, Shape, Emit
    PROVE  Types' /\ Shape'
<1>1. /\ mpc = "emit" /\ mcandle # NoCandle /\ mcandle \in CandleSet
      /\ mpc' = "idle" /\ mcandle' = NoCandle
      /\ UNCHANGED <<now, trades, windows, running, sweepVars, restarts>>
  BY EmitOutcome
<1>2. stream' \in Seq(CandleSet) /\ \A i \in 1..Len(stream') : stream'[i].start + Interval <= now
  BY <1>1, EmitOutcome DEF Shape, Ended, Types, SweepTypes
<1>3. Types'
  BY <1>1, <1>2 DEF Types, MainTypes, SweepTypes, sweepVars
<1>4. WindowShape' /\ MainShape' /\ Ended'
  BY <1>1, <1>2 DEF Shape, WindowShape, MainShape, MainBusy, Ended, sweepVars
<1>5. SweepShape'
  BY <1>1, SweepShapeStays, Facts DEF Shape, sweepVars
<1>6. QED
  BY <1>3, <1>4, <1>5 DEF Shape
LEMMA OtherShape ==
    ASSUME Types, Shape, Start \/ SweepBoot \/ SweepBegin \/ Tick \/ Restart \/ UNCHANGED vars
    PROVE  Types' /\ Shape'
<1>1. WindowShape /\ MainShape /\ SweepShape /\ Ended
  BY DEF Shape
<1>2. CASE Start
  <2>1. /\ mpc = "start" /\ mpc' = "idle"
        /\ UNCHANGED <<now, trades, windows, mcandle, sweepVars, stream, restarts, odd>>
    BY <1>2 DEF Start
  <2>2. Types' /\ WindowShape' /\ MainShape' /\ Ended'
    BY <1>1, <2>1 DEF Types, MainTypes, SweepTypes, WindowShape, MainShape, MainBusy, Ended, sweepVars
  <2>3. SweepShape'
    BY <1>1, <2>1, SweepShapeStays, Facts DEF sweepVars
  <2>4. QED
    BY <2>2, <2>3 DEF Shape
<1>3. CASE SweepBoot
  <2>1. UNCHANGED <<now, trades, windows, running, mainVars, stream, restarts, odd>> /\ spc = "boot"
    BY <1>3 DEF SweepBoot
  <2>2. CASE ThreadEnds
    BY <2>1, <2>2, RestShape
  <2>3. CASE spc' = "idle" /\ UNCHANGED <<sts, size, todo, expired, scandles>>
    <3>1. Types' /\ WindowShape' /\ MainShape' /\ Ended'
      BY <1>1, <2>1, <2>3 DEF Types, MainTypes, SweepTypes, WindowShape, MainShape, MainBusy, Ended, mainVars
    <3>2. SweepShape'
      BY <1>1, <2>1, <2>3 DEF SweepShape, SweepBusy
    <3>3. QED
      BY <3>1, <3>2 DEF Shape
  <2>4. QED
    BY <1>3, <2>2, <2>3 DEF SweepBoot
<1>4. CASE SweepBegin
  <2>1. /\ spc = "idle" /\ spc' = "scan" /\ sts' = now /\ todo' = Keys(windows)
        /\ UNCHANGED <<now, trades, windows, running, mainVars, expired, scandles, stream, restarts>>
    BY <1>4 DEF SweepBegin, SweepTime
  <2>2. scandles = <<>> /\ Len(scandles) = 0
    BY <1>1, <2>1, EmptySeq DEF SweepShape, SweepBusy
  <2>3. Types' /\ WindowShape' /\ MainShape' /\ Ended'
    BY <1>1, <2>1 DEF Types, MainTypes, SweepTypes, WindowShape, MainShape, MainBusy, Ended, mainVars, Keys
  <2>4. SweepShape'
    BY <2>1, <2>2, Facts DEF SweepShape, SweepBusy
  <2>5. QED
    BY <2>3, <2>4 DEF Shape
<1>5. CASE Tick \/ UNCHANGED vars
  <2>1. /\ now' \in Nat /\ now' >= now
        /\ UNCHANGED <<trades, windows, running, mainVars, sweepVars, stream, restarts, odd>>
    BY <1>5, Facts DEF Tick, vars
  <2>2. Types' /\ WindowShape' /\ MainShape'
    BY <1>1, <2>1 DEF Types, MainTypes, SweepTypes, WindowShape, MainShape, MainBusy, mainVars, sweepVars
  <2>3. SweepShape'
    BY <1>1, <2>1, SweepShapeStays DEF sweepVars
  <2>4. Ended'
    <3>1. \A i \in 1..Len(stream) : stream[i].start + Interval <= now'
      BY <1>1, <2>1, Facts DEF Ended
    <3>2. \A i \in 1..Len(scandles) : scandles[i].start + Interval <= now'
      BY <1>1, <2>1, Facts DEF Ended
    <3>3. mcandle.start + Interval <= now' \/ mcandle = NoCandle
      <4>1. CASE mcandle # NoCandle
        <5>1. mcandle.start \in Nat /\ mcandle.start + Interval <= now
          BY <1>1, <4>1 DEF Types, MainTypes, CandleSet, Ended
        <5>2. QED
          BY <2>1, <5>1, Facts
      <4>2. QED
        BY <4>1
    <3>4. QED
      BY <2>1, <3>1, <3>2, <3>3 DEF Ended, mainVars, sweepVars
  <2>5. QED
    BY <2>2, <2>3, <2>4 DEF Shape
<1>6. CASE Restart
  <2>1. /\ windows' = [y \in Symbols |-> NoWindow] /\ mpc' = "start" /\ mcandle' = NoCandle
        /\ spc' = "boot" /\ sts' = 0 /\ todo' = {} /\ expired' = <<>> /\ scandles' = <<>>
        /\ UNCHANGED <<now, trades, stream>>
    BY <1>6 DEF Restart
  <2>2. /\ <<>> \in Seq(Symbols) /\ <<>> \in Seq(CandleSet) /\ Len(scandles') = 0
    BY <2>1, EmptySeq
  <2>3. windows' \in [Symbols -> [start : Nat \cup {-1}, trades : SUBSET Nat]]
    BY <2>1 DEF NoWindow
  <2>4. Types'
    BY <2>1, <2>2, <2>3 DEF Types, MainTypes, SweepTypes
  <2>5. WindowShape' /\ MainShape' /\ SweepShape'
    BY <2>1 DEF WindowShape, MainShape, MainBusy, SweepShape, SweepBusy, NoWindow
  <2>6. Ended'
    BY <1>1, <2>1, <2>2 DEF Ended
  <2>7. QED
    BY <2>4, <2>5, <2>6 DEF Shape
<1>7. QED
  BY <1>2, <1>3, <1>4, <1>5, <1>6

LEMMA ShapeStep ==
    ASSUME Types, Shape, [Next]_vars
    PROVE  Types' /\ Shape'
BY MainShapeStep, WindowShapeStep, EmitShape, VisitShape, DeleteShape, SweepEmitShape, OtherShape
   DEF Next, MainStep, SweepStep

-----------------------------------------------------------------------------
(* Threads that do not overlap.                                             *)

\* A step that leaves the windows and what the threads hold of them alone.
LEMMA ApartStays ==
    ASSUME Apart, UNCHANGED <<windows, todo, size, expired, scandles>>,
           "overlap" \notin odd' => "overlap" \notin odd /\ ~(MainBusy' /\ SweepBusy'),
           spc' = "scan" => spc = "scan",
           mpc' \notin {"close", "update"}
    PROVE  Apart'
BY DEF Apart, Keys, Range

LEMMA ApartMain ==
    ASSUME Types, Shape, Apart,
           Close \/ Open \/ Update \/ \E y \in Symbols, ts \in 0..MaxTime : Receive(y, ts)
    PROVE  Apart'
<1>1. CASE \E y \in Symbols, ts \in 0..MaxTime : Receive(y, ts)
  <2>1. PICK y \in Symbols, ts \in 0..MaxTime : Receive(y, ts)
    BY <1>1
  <2>2. /\ Trade'.symbol = y /\ Trade'.ts = ts
        /\ UNCHANGED <<windows, sweepVars>> /\ odd \subseteq odd'
        /\ "overlap" \notin odd' => ~SweepBusy
        /\ \/ /\ y \in Keys(windows) /\ windows[y].start + Interval <= ts /\ mpc' = "close"
              /\ mcandle' = IF windows[y].trades = {} THEN NoCandle ELSE Candle(y)
           \/ mpc' = "open" /\ mcandle' = NoCandle
    BY <2>1, ReceiveOutcome
  <2> SUFFICES ASSUME "overlap" \notin odd'
               PROVE  Apart'
    BY DEF Apart
  <2>3. ~SweepBusy' /\ "overlap" \notin odd /\ spc' # "scan"
    BY <2>2 DEF SweepBusy, sweepVars
  <2>4. /\ mpc' \in {"close", "update"} => Trade'.symbol \in Keys(windows)'
        /\ mpc' = "close" =>
             /\ windows'[Trade'.symbol].start + Interval <= Trade'.ts
             /\ mcandle' = IF windows'[Trade'.symbol].trades = {} THEN NoCandle ELSE Candle(Trade.symbol)'
    BY <2>2 DEF Keys, Candle
  <2>5. /\ Range(expired)' \subseteq Keys(windows)'
        /\ \A i, j \in 1..Len(expired') : expired'[i] = expired'[j] => i = j
        /\ \A i \in 1..Len(scandles') :
             scandles'[i].symbol \in Keys(windows)' => scandles'[i].symbol \in Range(expired)'
        /\ \A i, j \in 1..Len(scandles') : scandles'[i].symbol = scandles'[j].symbol => i = j
    BY <2>2, <2>3 DEF Apart, Keys, Range, sweepVars
  <2>6. QED
    BY <2>3, <2>4, <2>5 DEF Apart
<1>2. CASE Close \/ Open \/ Update
  <2> DEFINE y == Trade.symbol
  <2>1. /\ mpc \in {"close", "open", "update"} /\ mpc' \in {"idle", "open", "update", "emit"}
        /\ y \in Symbols /\ Trade.ts \in Nat
        /\ UNCHANGED <<now, trades, running, spc, sts, size, expired, scandles, stream, restarts, odd>>
        /\ \A z \in Symbols : z # y => windows'[z] = windows[z]
        /\ spc # "scan" => todo' = todo
    BY <1>2, WindowOutcome
  <2> SUFFICES ASSUME "overlap" \notin odd, "overlap" \notin odd'
               PROVE  Apart'
    BY <2>1 DEF Apart
  <2>2. ~SweepBusy /\ ~SweepBusy' /\ spc' # "scan"
    BY <2>1 DEF Apart, MainBusy, SweepBusy
  <2>3. /\ expired' = <<>> /\ scandles' = <<>> /\ Len(expired') = 0 /\ Len(scandles') = 0
        /\ Range(expired') = {}
    BY <2>1, <2>2, EmptySeq DEF Shape, SweepShape, Range
  <2>4. mpc' = "update" => Trade'.symbol \in Keys(windows)'
    <3> SUFFICES ASSUME mpc' = "update" PROVE y \in Keys(windows')
      BY <2>1 DEF Trade
    <3>1. Open
      BY <1>2 DEF Close, Open, Update, DropTrade, Emitting
    <3>2. CASE y \in Keys(windows)
      BY <3>1, <3>2 DEF Open, Keys
    <3>3. CASE y \notin Keys(windows)
      <4>1. windows' = [windows EXCEPT ![y] = [start |-> Align(Trade.ts), trades |-> {}]]
        BY <3>1, <3>3 DEF Open
      <4>2. windows'[y] = [start |-> Align(Trade.ts), trades |-> {}]
        BY <2>1, <4>1 DEF Types, MainTypes
      <4>3. windows'[y].start = Align(Trade.ts) /\ Align(Trade.ts) \in Nat
        BY <2>1, <4>2, AlignBounds
      <4>4. QED
        BY <2>1, <4>3 DEF Keys
    <3>4. QED
      BY <3>2, <3>3
  <2>5. QED
    BY <2>1, <2>2, <2>3, <2>4 DEF Apart
<1>3. QED
  BY <1>1, <1>2

LEMMA ApartVisit ==
    ASSUME Types, Shape, Apart, Visit
    PROVE  Apart'
<1>1. spc = "scan" /\ UNCHANGED <<now, trades, windows, running, mainVars, stream, restarts, odd>>
  BY VisitOutcome
<1> SUFFICES ASSUME "overlap" \notin odd, "overlap" \notin odd'
             PROVE  Apart'
  BY <1>1 DEF Apart
<1>2. ~MainBusy /\ ~MainBusy' /\ mpc' = mpc /\ mpc \notin {"close", "update"}
  BY <1>1 DEF Apart, MainBusy, SweepBusy, mainVars
<1>3. /\ size = Cardinality(Keys(windows)) /\ todo \subseteq Keys(windows) \ Range(expired)
      /\ Range(expired) \subseteq Keys(windows)
      /\ \A i, j \in 1..Len(expired) : expired[i] = expired[j] => i = j
      /\ \A i, j \in 1..Len(scandles) : scandles[i].symbol = scandles[j].symbol => i = j
      /\ \A i \in 1..Len(scandles) : scandles[i].symbol \in Range(expired)
      /\ expired \in Seq(Symbols) /\ scandles \in Seq(CandleSet) /\ todo \subseteq Symbols
  BY <1>1 DEF Apart, Shape, SweepShape, Types, SweepTypes
<1>4. Keys(windows)' = Keys(windows) /\ Keys(windows') = Keys(windows)
  BY <1>1 DEF Keys
<1>5. ASSUME spc' = "scan" => size' = size /\ todo' \subseteq Keys(windows) \ Range(expired'),
             Range(expired') \subseteq Keys(windows),
             \A i, j \in 1..Len(expired') : expired'[i] = expired'[j] => i = j,
             \A i \in 1..Len(scandles') : scandles'[i].symbol \in Range(expired'),
             \A i, j \in 1..Len(scandles') : scandles'[i].symbol = scandles'[j].symbol => i = j
      PROVE  Apart'
  BY <1>2, <1>3, <1>4, <1>5 DEF Apart, Range
<1>6. CASE ThreadEnds
  BY <1>3, <1>4, <1>5, <1>6, EmptySeq DEF ThreadEnds, Range
<1>7. CASE /\ spc' = IF expired = <<>> THEN "idle" ELSE "del"
           /\ sts' = 0 /\ UNCHANGED <<todo, expired, scandles>>
  BY <1>3, <1>5, <1>7
<1>8. ASSUME NEW y \in todo, todo' = todo \ {y}, spc' = "scan", size' = size,
             UNCHANGED <<expired, scandles>>
      PROVE  Apart'
  BY <1>3, <1>5, <1>8
<1>9. ASSUME NEW y \in todo, todo' = todo \ {y}, spc' = "scan", size' = size,
             y \in Keys(windows), expired' = Append(expired, y),
             scandles' = scandles \/ scandles' = Append(scandles, Candle(y))
      PROVE  Apart'
  <2>1. y \in Symbols /\ y \notin Range(expired)
    BY <1>3
  <2>2. /\ expired' \in Seq(Symbols) /\ Range(expired') = Range(expired) \cup {y}
        /\ Len(expired') = Len(expired) + 1 /\ expired'[Len(expired) + 1] = y
        /\ \A i \in 1..Len(expired) : expired'[i] = expired[i]
        /\ \A i \in 1..(Len(expired) + 1) : i \in 1..Len(expired) \/ i = Len(expired) + 1
    BY <1>3, <1>9, <2>1, AppendFacts
  <2>3. \A i \in 1..Len(expired) : expired[i] # y
    BY <1>3, <2>1, Facts DEF Range
  <2>4. \A i, j \in 1..Len(expired') : expired'[i] = expired'[j] => i = j
    BY <1>3, <2>2, <2>3
  <2>5. CASE scandles' = scandles
    BY <1>3, <1>5, <1>9, <2>2, <2>4, <2>5
  <2>6. CASE scandles' = Append(scandles, Candle(y))
    <3>1. Candle(y) \in CandleSet /\ Candle(y).symbol = y
      BY <1>9, Facts DEF Candle
    <3>2. /\ Len(scandles') = Len(scandles) + 1
          /\ \A i \in 1..Len(scandles) : scandles'[i] = scandles[i]
          /\ scandles'[Len(scandles) + 1] = Candle(y)
          /\ \A i \in 1..(Len(scandles) + 1) : i \in 1..Len(scandles) \/ i = Len(scandles) + 1
      BY <1>3, <2>6, <3>1, AppendFacts
    <3>3. \A i \in 1..Len(scandles) : scandles[i].symbol # y
      BY <1>3, <2>1
    <3>4. \A i \in 1..Len(scandles') : scandles'[i].symbol \in Range(expired')
      BY <1>3, <2>2, <3>1, <3>2
    <3>5. \A i, j \in 1..Len(scandles') : scandles'[i].symbol = scandles'[j].symbol => i = j
      BY <1>3, <3>1, <3>2, <3>3
    <3>6. QED
      BY <1>3, <1>5, <1>9, <2>2, <2>4, <3>4, <3>5
  <2>7. QED
    BY <1>9, <2>5, <2>6
<1>10. QED
  BY <1>6, <1>7, <1>8, <1>9, VisitOutcome
LEMMA ApartDelete ==
    ASSUME Types, Shape, Apart, DeleteExpired
    PROVE  Apart'
<1>1. /\ spc = "del" /\ expired # <<>> /\ Head(expired) \in Symbols
      /\ UNCHANGED <<now, trades, running, mainVars, stream, restarts, odd>>
      /\ \A z \in Symbols : z # Head(expired) => windows'[z] = windows[z]
  BY DeleteOutcome
<1> SUFFICES ASSUME "overlap" \notin odd, "overlap" \notin odd'
             PROVE  Apart'
  BY <1>1 DEF Apart
<1>2. ~MainBusy /\ ~MainBusy' /\ mpc' \notin {"close", "update"}
  BY <1>1 DEF Apart, MainBusy, SweepBusy, mainVars
<1>3. /\ Range(expired) \subseteq Keys(windows)
      /\ \A i, j \in 1..Len(expired) : expired[i] = expired[j] => i = j
      /\ \A i, j \in 1..Len(scandles) : scandles[i].symbol = scandles[j].symbol => i = j
      /\ \A i \in 1..Len(scandles) :
            scandles[i].symbol \in Keys(windows) => scandles[i].symbol \in Range(expired)
      /\ expired \in Seq(Symbols) /\ scandles \in Seq(CandleSet)
  BY DEF Apart, Types, SweepTypes
<1>4. /\ Head(expired) = expired[1] /\ Len(expired) \in Nat /\ Len(expired) >= 1
      /\ Tail(expired) \in Seq(Symbols) /\ Len(Tail(expired)) = Len(expired) - 1
      /\ \A i \in 1..(Len(expired) - 1) : Tail(expired)[i] = expired[i + 1] /\ i + 1 \in 1..Len(expired)
      /\ Range(expired) = Range(Tail(expired)) \cup {Head(expired)}
  BY <1>1, <1>3, TailFacts
<1>5. CASE Head(expired) \notin Keys(windows)
  BY <1>3, <1>4, <1>5
<1>6. CASE /\ windows'[Head(expired)] = NoWindow /\ expired' = Tail(expired)
           /\ UNCHANGED <<sts, size, todo, scandles>>
           /\ spc' = IF Len(expired) > 1 THEN "del"
                     ELSE IF scandles = <<>> THEN "idle" ELSE "emit"
  <2>1. Keys(windows') = Keys(windows) \ {Head(expired)}
    BY <1>1, <1>6 DEF Keys, NoWindow
  <2>2. Head(expired) \notin Range(Tail(expired))
    <3> SUFFICES ASSUME NEW i \in 1..(Len(expired) - 1) PROVE Tail(expired)[i] # Head(expired)
      BY <1>4, LenProperties DEF Range
    <3>1. i + 1 \in 1..Len(expired) /\ 1 \in 1..Len(expired) /\ i + 1 # 1
      BY <1>4
    <3>2. QED
      BY <1>3, <1>4, <3>1
  <2>3. Range(expired') \subseteq Keys(windows')
    BY <1>3, <1>4, <1>6, <2>1, <2>2
  <2>4. \A i, j \in 1..Len(expired') : expired'[i] = expired'[j] => i = j
    <3> SUFFICES ASSUME NEW i \in 1..(Len(expired) - 1), NEW j \in 1..(Len(expired) - 1),
                        Tail(expired)[i] = Tail(expired)[j]
                 PROVE  i = j
      BY <1>4, <1>6
    <3>1. expired[i + 1] = expired[j + 1] /\ i + 1 \in 1..Len(expired) /\ j + 1 \in 1..Len(expired)
      BY <1>4
    <3>2. i + 1 = j + 1
      BY <1>3, <3>1
    <3>3. QED
      BY <1>4, <3>2
  <2>5. \A i \in 1..Len(scandles) :
            scandles[i].symbol \in Keys(windows') => scandles[i].symbol \in Range(expired')
    BY <1>3, <1>4, <1>6, <2>1
  <2>6. spc' # "scan"
    BY <1>6
  <2>7. QED
    BY <1>2, <1>3, <1>6, <2>3, <2>4, <2>5, <2>6 DEF Apart
<1>7. QED
  BY <1>5, <1>6, DeleteOutcome

LEMMA ApartSweepEmit ==
    ASSUME Types, Shape, Apart, SweepEmit
    PROVE  Apart'
<1>1. /\ spc = "emit" /\ expired = <<>> /\ scandles # <<>>
      /\ UNCHANGED <<now, trades, windows, running, mainVars, restarts>>
      /\ "overlap" \in odd' <=> "overlap" \in odd
  BY SweepEmitOutcome
<1> SUFFICES ASSUME "overlap" \notin odd, "overlap" \notin odd'
             PROVE  Apart'
  BY <1>1 DEF Apart
<1>2. ~MainBusy /\ ~MainBusy' /\ mpc' \notin {"close", "update"}
  BY <1>1 DEF Apart, MainBusy, SweepBusy, mainVars
<1>3. /\ expired' = <<>> /\ Len(expired') = 0 /\ Range(expired') = {} /\ spc' # "scan"
  BY <1>1, SweepEmitOutcome, EmptySeq DEF ThreadEnds, Range
<1>4. Keys(windows') = Keys(windows)
  BY <1>1 DEF Keys
<1>5. Range(expired) = {}
  BY <1>1, EmptySeq DEF Range
<1>6. /\ \A i \in 1..Len(scandles) : scandles[i].symbol \notin Keys(windows)
      /\ \A i, j \in 1..Len(scandles) : scandles[i].symbol = scandles[j].symbol => i = j
  BY <1>5 DEF Apart
<1>7. /\ \A i \in 1..Len(scandles') : scandles'[i].symbol \notin Keys(windows)
      /\ \A i, j \in 1..Len(scandles') : scandles'[i].symbol = scandles'[j].symbol => i = j
  <2>1. CASE scandles' = <<>>
    BY <2>1, EmptySeq
  <2>2. CASE scandles' = Tail(scandles)
    <3>1. /\ Len(scandles) \in Nat /\ Len(Tail(scandles)) = Len(scandles) - 1
          /\ \A i \in 1..(Len(scandles) - 1) :
                Tail(scandles)[i] = scandles[i + 1] /\ i + 1 \in 1..Len(scandles)
      BY <1>1, TailFacts DEF Types, SweepTypes
    <3>2. \A i \in 1..Len(scandles') : scandles'[i].symbol \notin Keys(windows)
      BY <1>6, <2>2, <3>1
    <3>3. ASSUME NEW i \in 1..(Len(scandles) - 1), NEW j \in 1..(Len(scandles) - 1),
                 Tail(scandles)[i].symbol = Tail(scandles)[j].symbol
          PROVE  i = j
      <4>1. i + 1 = j + 1
        BY <1>6, <3>1, <3>3
      <4>2. QED
        BY <3>1, <4>1
    <3>4. QED
      BY <2>2, <3>1, <3>2, <3>3
  <2>3. QED
    BY <2>1, <2>2, SweepEmitOutcome DEF ThreadEnds
<1>8. QED
  BY <1>2, <1>3, <1>4, <1>7 DEF Apart

LEMMA ApartOther ==
    ASSUME Types, Shape, Apart,
           Start \/ Emit \/ SweepBoot \/ SweepBegin \/ Tick \/ Restart \/ UNCHANGED vars
    PROVE  Apart'
<1>1. CASE Start
  BY <1>1, ApartStays DEF Start, MainBusy, sweepVars
<1>2. CASE Emit
  BY <1>2, ApartStays DEF Emit, MainBusy, sweepVars
<1>3. CASE SweepBoot
  <2>1. UNCHANGED <<now, trades, windows, running, mainVars, stream, restarts, odd>> /\ spc = "boot"
    BY <1>3 DEF SweepBoot
  <2>2. expired = <<>> /\ scandles = <<>>
    BY <2>1 DEF Shape, SweepShape, SweepBusy
  <2>3. expired' = expired /\ scandles' = scandles /\ spc' \in {"idle", "dead"}
    BY <1>3, <2>2 DEF SweepBoot, ThreadEnds
  <2>4. Trade' = Trade /\ Keys(windows)' = Keys(windows)
    BY <2>1 DEF Trade, Keys
  <2>5. QED
    BY <2>1, <2>3, <2>4 DEF Apart, SweepBusy, Range, Candle, mainVars
<1>4. CASE SweepBegin
  <2>1. /\ spc = "idle" /\ spc' = "scan" /\ todo' = Keys(windows) /\ size' = Cardinality(Keys(windows))
        /\ UNCHANGED <<now, trades, windows, running, mainVars, expired, scandles, stream, restarts>>
        /\ odd' = odd \cup {h \in {"overlap"} : MainBusy}
    BY <1>4 DEF SweepBegin
  <2>2. expired = <<>> /\ Range(expired) = {}
    BY <2>1, EmptySeq DEF Shape, SweepShape, SweepBusy, Range
  <2>3. "overlap" \notin odd' => "overlap" \notin odd /\ ~MainBusy
    BY <2>1
  <2>4. MainBusy' = MainBusy /\ mpc' = mpc /\ (~MainBusy => mpc \notin {"close", "update"})
    BY <2>1 DEF MainBusy, mainVars
  <2>5. Keys(windows)' = Keys(windows) /\ Range(expired)' = Range(expired)
    BY <2>1 DEF Keys, Range
  <2>6. QED
    BY <2>1, <2>2, <2>3, <2>4, <2>5 DEF Apart
<1>5. CASE Tick \/ UNCHANGED vars
  <2>1. UNCHANGED <<trades, windows, mainVars, sweepVars, stream, odd>>
    BY <1>5 DEF Tick, vars
  <2>2. Trade' = Trade /\ Keys(windows)' = Keys(windows) /\ Range(expired)' = Range(expired)
        /\ MainBusy' = MainBusy /\ SweepBusy' = SweepBusy
    BY <2>1 DEF Trade, Keys, Range, MainBusy, SweepBusy, mainVars, sweepVars
  <2>3. QED
    BY <2>1, <2>2 DEF Apart, Candle, mainVars, sweepVars
<1>6. CASE Restart
  <2>1. /\ windows' = [y \in Symbols |-> NoWindow] /\ mpc' = "start"
        /\ spc' = "boot" /\ expired' = <<>> /\ scandles' = <<>>
    BY <1>6 DEF Restart
  <2>2. Range(expired') = {} /\ Len(expired') = 0 /\ Len(scandles') = 0
    BY <2>1, EmptySeq DEF Range
  <2>3. QED
    BY <2>1, <2>2 DEF Apart, MainBusy
<1>7. QED
  BY <1>1, <1>2, <1>3, <1>4, <1>5, <1>6

LEMMA ApartStep ==
    ASSUME Types, Shape, Apart, [Next]_vars
    PROVE  Apart'
BY ApartMain, ApartVisit, ApartDelete, ApartSweepEmit, ApartOther DEF Next, MainStep, SweepStep
-----------------------------------------------------------------------------
(* The order of the stream.                                                 *)

\* What InOrder says of the next state when the stream stays.
LEMMA OrderStays ==
    ASSUME InOrder, stream' = stream,
           \A y \in Keys(windows'), i \in 1..Len(stream) : Before(i, y, windows'[y].start),
           \A j \in 1..Len(scandles'), i \in 1..Len(stream) :
               Before(i, scandles'[j].symbol, scandles'[j].start),
           mpc' \in {"close", "open"} =>
               \A i \in 1..Len(stream) : Before(i, Trade'.symbol, Align(Trade'.ts)),
           mcandle' # NoCandle =>
             /\ \A i \in 1..Len(stream) : Before(i, mcandle'.symbol, mcandle'.start)
             /\ mcandle'.symbol = Trade'.symbol /\ mcandle'.start < Align(Trade'.ts)
             /\ mpc' # "close" /\ mcandle'.symbol \in Keys(windows') =>
                  mcandle'.start < windows'[mcandle'.symbol].start
    PROVE  InOrder'
BY DEF InOrder, Before, Keys, Align

LEMMA OrderReceive ==
    ASSUME Types, Shape, Ordered, NEW y \in Symbols, NEW ts, Receive(y, ts)
    PROVE  Ordered'
<1> SUFFICES ASSUME "late" \notin odd', "overlap" \notin odd' PROVE InOrder'
  BY DEF Ordered
<1>1. /\ mpc = "idle" /\ ts \in 0..now /\ ts \in Nat
      /\ Trade'.symbol = y /\ Trade'.ts = ts
      /\ UNCHANGED <<now, windows, running, sweepVars, stream, restarts>>
      /\ odd \subseteq odd' /\ now < Align(ts) + Interval
      /\ \/ /\ y \in Keys(windows) /\ windows[y].start + Interval <= ts /\ mpc' = "close"
            /\ mcandle' = IF windows[y].trades = {} THEN NoCandle ELSE Candle(y)
         \/ mpc' = "open" /\ mcandle' = NoCandle
  BY ReceiveOutcome
<1>2. InOrder
  BY <1>1 DEF Ordered
<1>3. \A z \in Keys(windows'), i \in 1..Len(stream) : Before(i, z, windows'[z].start)
  BY <1>1, <1>2 DEF InOrder
<1>4. \A j \in 1..Len(scandles'), i \in 1..Len(stream) :
         Before(i, scandles'[j].symbol, scandles'[j].start)
  BY <1>1, <1>2 DEF InOrder, sweepVars
<1>5. \A i \in 1..Len(stream) : Before(i, y, Align(ts))
  <2> SUFFICES ASSUME NEW i \in 1..Len(stream) PROVE stream[i].start < Align(ts)
    BY DEF Before
  <2>1. stream[i].start + Interval <= now /\ stream[i].start \in Nat /\ Align(ts) \in Nat
    BY <1>1, Facts, AlignBounds DEF Shape, Ended
  <2>2. QED
    BY <1>1, <2>1, Facts
<1>6. ASSUME mcandle' # NoCandle
      PROVE  /\ \A i \in 1..Len(stream) : Before(i, mcandle'.symbol, mcandle'.start)
             /\ mcandle'.symbol = y /\ mcandle'.start < Align(ts) /\ mpc' = "close"
  <2>1. /\ y \in Keys(windows) /\ windows[y].start + Interval <= ts /\ mpc' = "close"
        /\ mcandle'.symbol = y /\ mcandle'.start = windows[y].start
    BY <1>1, <1>6 DEF Candle
  <2>2. PICK t \in Nat : windows[y].start = Align(t)
    BY <2>1, Facts DEF Shape, WindowShape
  <2>3. windows[y].start < Align(ts)
    BY <1>1, <2>1, <2>2, AlignLater
  <2>4. QED
    BY <1>2, <2>1, <2>3 DEF InOrder
<1>7. QED
  BY <1>1, <1>2, <1>3, <1>4, <1>5, <1>6, OrderStays

LEMMA OrderWindow ==
    ASSUME Types, Shape, Apart, Ordered, Close \/ Open \/ Update
    PROVE  Ordered'
<1> DEFINE y == Trade.symbol
<1>1. /\ Len(trades) > 0 /\ y \in Symbols /\ Trade.ts \in Nat
      /\ UNCHANGED <<now, trades, running, spc, sts, size, expired, scandles, stream, restarts, odd>>
      /\ \A z \in Symbols : z # y => windows'[z] = windows[z]
      /\ mcandle' \in {mcandle, NoCandle}
  BY WindowOutcome
<1> SUFFICES ASSUME "late" \notin odd, "overlap" \notin odd, InOrder PROVE InOrder'
  BY <1>1 DEF Ordered
<1>2. Trade' = Trade
  BY <1>1 DEF Trade
<1>3. ASSUME y \in Keys(windows') =>
                \/ y \in Keys(windows) /\ windows'[y].start = windows[y].start /\ mpc # "close"
                \/ mpc = "open" /\ windows'[y].start = Align(Trade.ts),
             mpc' \in {"close", "open"} => mpc = "close"
      PROVE  InOrder'
  <2>1. ASSUME NEW z \in Keys(windows') PROVE z \in Symbols /\ (z # y => z \in Keys(windows))
    BY <1>1 DEF Keys
  <2>2. ASSUME NEW z \in Keys(windows'), NEW i \in 1..Len(stream) PROVE Before(i, z, windows'[z].start)
    <3>1. CASE z # y
      BY <1>1, <2>1, <3>1 DEF InOrder
    <3>2. CASE z = y
      BY <1>3, <3>2 DEF InOrder
    <3>3. QED
      BY <3>1, <3>2
  <2>3. mpc' \in {"close", "open"} =>
             \A i \in 1..Len(stream) : Before(i, Trade.symbol, Align(Trade.ts))
    BY <1>3 DEF InOrder
  <2>4. ASSUME mcandle' # NoCandle
        PROVE  /\ \A i \in 1..Len(stream) : Before(i, mcandle'.symbol, mcandle'.start)
               /\ mcandle'.symbol = y /\ mcandle'.start < Align(Trade.ts)
               /\ mcandle'.symbol \in Keys(windows') => mcandle'.start < windows'[mcandle'.symbol].start
    <3>1. mcandle' = mcandle /\ mcandle # NoCandle
      BY <1>1, <2>4
    <3>2. /\ \A i \in 1..Len(stream) : Before(i, mcandle.symbol, mcandle.start)
          /\ mcandle.symbol = y /\ mcandle.start < Align(Trade.ts)
          /\ mpc # "close" /\ mcandle.symbol \in Keys(windows) => mcandle.start < windows[mcandle.symbol].start
      BY <3>1 DEF InOrder
    <3>3. QED
      BY <1>3, <3>1, <3>2
  <2>5. \A j \in 1..Len(scandles'), i \in 1..Len(stream) :
           Before(i, scandles'[j].symbol, scandles'[j].start)
    BY <1>1 DEF InOrder
  <2>6. QED
    BY <1>1, <1>2, <2>2, <2>3, <2>4, <2>5, OrderStays
<1>4. windows \in [Symbols -> [start : Nat \cup {-1}, trades : SUBSET Nat]]
  BY DEF Types, MainTypes
<1>5. CASE Close
  <2>1. mpc = "close" /\ y \in Keys(windows)
    BY <1>5 DEF Close, Apart
  <2>2. windows' = [windows EXCEPT ![y] = NoWindow]
    BY <1>5, <2>1 DEF Close
  <2>3. y \notin Keys(windows')
    BY <1>1, <1>4, <2>2 DEF Keys, NoWindow
  <2>4. QED
    BY <1>3, <2>1, <2>3
<1>6. CASE Open
  <2>1. mpc = "open" /\ mpc' = "update"
    BY <1>6 DEF Open
  <2>2. CASE y \in Keys(windows)
    BY <1>3, <1>6, <2>1, <2>2 DEF Open
  <2>3. CASE y \notin Keys(windows)
    <3>1. windows' = [windows EXCEPT ![y] = [start |-> Align(Trade.ts), trades |-> {}]]
      BY <1>6, <2>3 DEF Open
    <3>2. windows'[y].start = Align(Trade.ts)
      BY <1>1, <1>4, <3>1
    <3>3. QED
      BY <1>3, <2>1, <3>2
  <2>4. QED
    BY <2>2, <2>3
<1>7. CASE Update
  <2>1. mpc = "update" /\ mpc' \notin {"close", "open"}
    BY <1>7 DEF Update, DropTrade, Emitting
  <2>2. \/ windows' = windows
        \/ y \in Keys(windows) /\ windows'[y].start = windows[y].start
    <3>1. \/ windows' = windows
          \/ y \in Keys(windows) /\ windows' = [windows EXCEPT ![y].trades = @ \cup {Len(trades)}]
      BY <1>7 DEF Update, DropTrade
    <3>2. [windows EXCEPT ![y].trades = @ \cup {Len(trades)}][y].start = windows[y].start
      BY <1>1, <1>4
    <3>3. QED
      BY <3>1, <3>2
  <2>3. QED
    BY <1>3, <2>1, <2>2
<1>8. QED
  BY <1>5, <1>6, <1>7

\* A candle is added to the stream.
LEMMA OrderAdds ==
    ASSUME Types, InOrder, NEW c, Len(stream') = Len(stream) + 1,
           \A i \in 1..Len(stream) : stream'[i] = stream[i], stream'[Len(stream) + 1] = c,
           \A i \in 1..Len(stream) : Before(i, c.symbol, c.start),
           UNCHANGED <<windows>>,
           c.symbol \in Keys(windows) => c.start < windows[c.symbol].start,
           \A j \in 1..Len(scandles') :
              /\ c.symbol # scandles'[j].symbol
              /\ \A i \in 1..Len(stream) : Before(i, scandles'[j].symbol, scandles'[j].start),
           mpc' \notin {"close", "open"}, mcandle' = NoCandle
    PROVE  InOrder'
<1> DEFINE n == Len(stream)
<1>1. n \in Nat /\ \A i \in 1..(n + 1) : i \in 1..n \/ i = n + 1
  BY Facts
<1>2. ASSUME NEW i \in 1..(n + 1), NEW j \in 1..(n + 1), i < j, stream'[i].symbol = stream'[j].symbol
      PROVE  stream'[i].start < stream'[j].start
  <2>1. i \in 1..n
    BY <1>1, <1>2
  <2>2. CASE j \in 1..n
    BY <1>2, <2>1, <2>2 DEF InOrder, Before
  <2>3. CASE j = n + 1
    BY <1>2, <2>1, <2>3 DEF Before
  <2>4. QED
    BY <1>1, <2>2, <2>3
<1>3. ASSUME NEW y \in Keys(windows), NEW i \in 1..(n + 1), stream'[i].symbol = y
      PROVE  stream'[i].start < windows[y].start
  <2>1. CASE i \in 1..n
    BY <1>3, <2>1 DEF InOrder, Before
  <2>2. CASE i = n + 1
    BY <1>3, <2>2
  <2>3. QED
    BY <1>1, <2>1, <2>2
<1>4. ASSUME NEW j \in 1..Len(scandles'), NEW i \in 1..(n + 1), stream'[i].symbol = scandles'[j].symbol
      PROVE  stream'[i].start < scandles'[j].start
  <2>1. i \in 1..n
    BY <1>1, <1>4
  <2>2. QED
    BY <1>4, <2>1 DEF Before
<1>5. Keys(windows)' = Keys(windows)
  BY DEF Keys
<1>6. QED
  BY <1>2, <1>3, <1>4, <1>5 DEF InOrder, Before

LEMMA OrderEmit ==
    ASSUME Types, Shape, Apart, Ordered, Emit
    PROVE  Ordered'
<1>1. /\ mpc = "emit" /\ mcandle # NoCandle /\ mpc' = "idle" /\ mcandle' = NoCandle
      /\ UNCHANGED <<windows, sweepVars>>
  BY EmitOutcome
<1> SUFFICES ASSUME "late" \notin odd', "overlap" \notin odd' PROVE InOrder'
  BY DEF Ordered
<1>2. "overlap" \notin odd /\ InOrder
  BY EmitOutcome DEF Ordered
<1>3. scandles' = <<>> /\ Len(scandles') = 0
  BY <1>1, <1>2, EmptySeq DEF Apart, MainBusy, Shape, SweepShape, sweepVars
<1>4. CASE stream' = stream
  BY <1>1, <1>2, <1>3, <1>4, OrderStays DEF InOrder
<1>5. CASE /\ Len(stream') = Len(stream) + 1
           /\ \A i \in 1..Len(stream) : stream'[i] = stream[i]
           /\ stream'[Len(stream) + 1] = mcandle
  <2>1. /\ \A i \in 1..Len(stream) : Before(i, mcandle.symbol, mcandle.start)
        /\ mcandle.symbol \in Keys(windows) => mcandle.start < windows[mcandle.symbol].start
    BY <1>1, <1>2 DEF InOrder
  <2>2. QED
    BY <1>1, <1>2, <1>3, <1>5, <2>1, OrderAdds
<1>6. QED
  BY <1>4, <1>5, EmitOutcome

\* While the sweep is busy the main thread has nothing in hand.
LEMMA MainRests ==
    ASSUME Types, Shape, Apart, SweepBusy, "overlap" \notin odd
    PROVE  mpc \in {"start", "idle"} /\ mcandle = NoCandle
<1>1. ~MainBusy
  BY DEF Apart
<1>2. mpc \in {"start", "idle"}
  BY <1>1 DEF MainBusy, Types, MainTypes
<1>3. QED
  BY <1>2 DEF Shape, MainShape

LEMMA OrderVisit ==
    ASSUME Types, Shape, Apart, Ordered, Visit
    PROVE  Ordered'
<1>1. spc = "scan" /\ UNCHANGED <<windows, trades, mainVars, stream, odd>>
  BY VisitOutcome
<1> SUFFICES ASSUME "late" \notin odd, "overlap" \notin odd, InOrder PROVE InOrder'
  BY <1>1 DEF Ordered
<1>2. mpc' \notin {"close", "open"} /\ mcandle' = NoCandle
  BY <1>1, MainRests DEF SweepBusy, mainVars
<1>3. \A y \in Keys(windows'), i \in 1..Len(stream) : Before(i, y, windows'[y].start)
  BY <1>1 DEF InOrder
<1>4. \A j \in 1..Len(scandles), i \in 1..Len(stream) :
         Before(i, scandles[j].symbol, scandles[j].start)
  BY DEF InOrder
<1>5. \A j \in 1..Len(scandles'), i \in 1..Len(stream) :
         Before(i, scandles'[j].symbol, scandles'[j].start)
  <2>1. CASE ThreadEnds
    BY <2>1, EmptySeq DEF ThreadEnds
  <2>2. CASE scandles' = scandles
    BY <1>4, <2>2
  <2>3. ASSUME NEW y \in Keys(windows), scandles' = Append(scandles, Candle(y))
        PROVE  \A j \in 1..Len(scandles'), i \in 1..Len(stream) :
                  Before(i, scandles'[j].symbol, scandles'[j].start)
    <3>1. Candle(y) \in CandleSet /\ Candle(y).symbol = y /\ Candle(y).start = windows[y].start
      BY Facts DEF Candle
    <3>2. /\ Len(scandles') = Len(scandles) + 1
          /\ \A j \in 1..Len(scandles) : scandles'[j] = scandles[j]
          /\ scandles'[Len(scandles) + 1] = Candle(y)
          /\ \A j \in 1..(Len(scandles) + 1) : j \in 1..Len(scandles) \/ j = Len(scandles) + 1
      BY <2>3, <3>1, AppendFacts DEF Types, SweepTypes
    <3>3. \A i \in 1..Len(stream) : Before(i, y, windows[y].start)
      BY DEF InOrder
    <3>4. QED
      BY <1>4, <3>1, <3>2, <3>3
  <2>4. QED
    BY <2>1, <2>2, <2>3, VisitOutcome
<1>6. QED
  BY <1>1, <1>2, <1>3, <1>5, OrderStays

LEMMA OrderDelete ==
    ASSUME Types, Shape, Apart, Ordered, DeleteExpired
    PROVE  Ordered'
<1>1. spc = "del" /\ UNCHANGED <<trades, mainVars, stream, odd>>
  BY DeleteOutcome
<1> SUFFICES ASSUME "late" \notin odd, "overlap" \notin odd, InOrder PROVE InOrder'
  BY <1>1 DEF Ordered
<1>2. mpc' \notin {"close", "open"} /\ mcandle' = NoCandle
  BY <1>1, MainRests DEF SweepBusy, mainVars
<1>3. ASSUME NEW y \in Keys(windows'), NEW i \in 1..Len(stream)
      PROVE  Before(i, y, windows'[y].start)
  <2>1. y \in Keys(windows) /\ windows'[y] = windows[y]
    BY DeleteOutcome DEF Keys, NoWindow
  <2>2. QED
    BY <2>1 DEF InOrder
<1>4. \A j \in 1..Len(scandles'), i \in 1..Len(stream) :
         Before(i, scandles'[j].symbol, scandles'[j].start)
  <2>1. scandles' = scandles \/ scandles' = <<>>
    BY DeleteOutcome DEF ThreadEnds
  <2>2. QED
    BY <2>1, EmptySeq DEF InOrder
<1>5. QED
  BY <1>1, <1>2, <1>3, <1>4, OrderStays

LEMMA OrderSweepEmit ==
    ASSUME Types, Shape, Apart, Ordered, SweepEmit
    PROVE  Ordered'
<1>1. /\ spc = "emit" /\ expired = <<>> /\ scandles # <<>> /\ UNCHANGED <<windows, mainVars>>
  BY SweepEmitOutcome
<1> SUFFICES ASSUME "late" \notin odd', "overlap" \notin odd' PROVE InOrder'
  BY DEF Ordered
<1>2. "overlap" \notin odd /\ InOrder
  BY SweepEmitOutcome DEF Ordered
<1>3. mpc' \notin {"close", "open"} /\ mcandle' = NoCandle
  BY <1>1, <1>2, MainRests DEF SweepBusy, mainVars
<1>4. CASE stream' = stream /\ ThreadEnds
  <2>1. Len(scandles') = 0
    BY <1>4, EmptySeq DEF ThreadEnds
  <2>2. QED
    BY <1>1, <1>2, <1>3, <1>4, <2>1, OrderStays DEF InOrder
<1>5. CASE stream' = Append(stream, Head(scandles)) /\ scandles' = Tail(scandles)
  <2> DEFINE c == Head(scandles)
  <2>1. /\ c \in CandleSet /\ c = scandles[1] /\ Len(scandles) \in Nat /\ Len(scandles) >= 1
        /\ Len(scandles') = Len(scandles) - 1
        /\ \A j \in 1..(Len(scandles) - 1) :
              scandles'[j] = scandles[j + 1] /\ j + 1 \in 1..Len(scandles)
    BY <1>1, <1>5, TailFacts DEF Types, SweepTypes
  <2>2. /\ Len(stream') = Len(stream) + 1 /\ \A i \in 1..Len(stream) : stream'[i] = stream[i]
        /\ stream'[Len(stream) + 1] = c
    BY <1>5, <2>1, AppendFacts DEF Types, SweepTypes
  <2>3. 1 \in 1..Len(scandles) /\ \A j \in 1..(Len(scandles) - 1) : j + 1 # 1
    BY <2>1
  <2>4. Range(expired) = {}
    BY <1>1, EmptySeq DEF Range
  <2>5. /\ c.symbol \notin Keys(windows)
        /\ \A j \in 1..(Len(scandles) - 1) : c.symbol # scandles[j + 1].symbol
    BY <1>2, <2>1, <2>3, <2>4 DEF Apart
  <2>6. /\ \A i \in 1..Len(stream) : Before(i, c.symbol, c.start)
        /\ \A j \in 1..(Len(scandles) - 1), i \in 1..Len(stream) :
              Before(i, scandles[j + 1].symbol, scandles[j + 1].start)
    BY <1>2, <2>1, <2>3 DEF InOrder
  <2> HIDE DEF c
  <2>7. QED
    BY <1>1, <1>2, <1>3, <2>1, <2>2, <2>5, <2>6, OrderAdds
<1>6. QED
  BY <1>4, <1>5, SweepEmitOutcome

LEMMA OrderOther ==
    ASSUME Types, Shape, Apart, Ordered,
           Start \/ SweepBoot \/ SweepBegin \/ Tick \/ Restart \/ UNCHANGED vars
    PROVE  Ordered'
<1>1. odd \subseteq odd' /\ stream' = stream /\ trades' = trades
  BY DEF Start, SweepBoot, SweepBegin, Tick, Restart, vars
<1> SUFFICES ASSUME InOrder PROVE InOrder'
  BY <1>1 DEF Ordered
<1>2. CASE Restart
  <2>1. /\ windows' = [y \in Symbols |-> NoWindow] /\ mpc' = "start" /\ mcandle' = NoCandle
        /\ scandles' = <<>>
    BY <1>2 DEF Restart
  <2>2. Keys(windows') = {} /\ Len(scandles') = 0
    BY <2>1, EmptySeq DEF Keys, NoWindow
  <2>3. QED
    BY <1>1, <2>1, <2>2, OrderStays
<1>3. ASSUME UNCHANGED <<windows, mcandle>>, mpc' = mpc \/ (mpc' = "idle" /\ mpc # "close"),
             scandles' = scandles \/ scandles' = <<>>
      PROVE  InOrder'
  <2>1. \A j \in 1..Len(scandles'), i \in 1..Len(stream) :
           Before(i, scandles'[j].symbol, scandles'[j].start)
    BY <1>3, EmptySeq DEF InOrder
  <2>2. Trade' = Trade
    BY <1>1 DEF Trade
  <2>3. QED
    BY <1>1, <1>3, <2>1, <2>2, OrderStays DEF InOrder
<1>4. QED
  BY <1>2, <1>3 DEF Start, SweepBoot, SweepBegin, Tick, ThreadEnds, vars, mainVars, sweepVars

LEMMA OrderStep ==
    ASSUME Types, Shape, Apart, Ordered, [Next]_vars
    PROVE  Ordered'
BY OrderReceive, OrderWindow, OrderEmit, OrderVisit, OrderDelete, OrderSweepEmit, OrderOther
   DEF Next, MainStep, SweepStep
-----------------------------------------------------------------------------
(* The places of a trade: what the steps do with each of them.              *)

LEMMA PlacesStay ==
    ASSUME NEW t, NotTwice(t), Len(scandles') = Len(scandles), Len(stream') = Len(stream),
           \A y \in Symbols : InWindow(t, y)' <=> InWindow(t, y),
           InMain(t)' <=> InMain(t),
           \A i \in 1..Len(scandles) : InSweep(t, i)' <=> InSweep(t, i),
           \A i \in 1..Len(stream) : InStream(t, i)' <=> InStream(t, i)
    PROVE  NotTwice(t)' /\ (Somewhere(t)' <=> Somewhere(t))
BY DEF NotTwice, Somewhere

\* A window goes to the candle that the main thread has in hand.
LEMMA WindowToMain ==
    ASSUME NEW t, NotTwice(t), Len(scandles') = Len(scandles), Len(stream') = Len(stream),
           NEW x \in Symbols,
           \A y \in Symbols : InWindow(t, y)' <=> InWindow(t, y) /\ y # x,
           ~InMain(t), InMain(t)' <=> InWindow(t, x),
           \A i \in 1..Len(scandles) : InSweep(t, i)' <=> InSweep(t, i),
           \A i \in 1..Len(stream) : InStream(t, i)' <=> InStream(t, i)
    PROVE  NotTwice(t)' /\ (Somewhere(t)' <=> Somewhere(t))
BY DEF NotTwice, Somewhere

\* The candle that the main thread has in hand goes to the stream.
LEMMA MainToStream ==
    ASSUME NEW t, NotTwice(t), Types,
           Len(scandles') = Len(scandles), Len(stream') = Len(stream) + 1,
           \A y \in Symbols : InWindow(t, y)' <=> InWindow(t, y),
           ~InMain(t)',
           \A i \in 1..Len(scandles) : InSweep(t, i)' <=> InSweep(t, i),
           \A i \in 1..Len(stream) : InStream(t, i)' <=> InStream(t, i),
           NEW n \in Nat, n = Len(stream) + 1, InStream(t, n)' <=> InMain(t)
    PROVE  NotTwice(t)' /\ (Somewhere(t)' <=> Somewhere(t))
<1>1. /\ \A i \in 1..(Len(stream) + 1) : i \in 1..Len(stream) \/ i = n
      /\ \A i \in 1..Len(stream) : i \in 1..(Len(stream) + 1)
      /\ n \in 1..(Len(stream) + 1)
  BY Facts
<1>2. NotTwice(t)'
  BY <1>1 DEF NotTwice
<1>3. Somewhere(t)' <=> Somewhere(t)
  BY <1>1 DEF Somewhere
<1>4. QED
  BY <1>2, <1>3

\* A window goes to a candle that the sweep has in hand.
LEMMA WindowToSweep ==
    ASSUME NEW t, NotTwice(t), Types,
           Len(scandles') = Len(scandles) + 1, Len(stream') = Len(stream),
           NEW x \in Symbols,
           \A y \in Symbols : InWindow(t, y)' <=> InWindow(t, y) /\ y # x,
           InMain(t)' <=> InMain(t),
           \A i \in 1..Len(scandles) : InSweep(t, i)' <=> InSweep(t, i),
           NEW n \in Nat, n = Len(scandles) + 1, InSweep(t, n)' <=> InWindow(t, x),
           \A i \in 1..Len(stream) : InStream(t, i)' <=> InStream(t, i)
    PROVE  NotTwice(t)' /\ (Somewhere(t)' <=> Somewhere(t))
<1>1. /\ \A i \in 1..(Len(scandles) + 1) : i \in 1..Len(scandles) \/ i = n
      /\ \A i \in 1..Len(scandles) : i \in 1..(Len(scandles) + 1)
      /\ n \in 1..(Len(scandles) + 1)
  BY Facts
<1>2. NotTwice(t)'
  BY <1>1 DEF NotTwice
<1>3. Somewhere(t)' <=> Somewhere(t)
  BY <1>1 DEF Somewhere
<1>4. QED
  BY <1>2, <1>3

\* The first candle that the sweep has in hand goes to the stream.
LEMMA SweepToStream ==
    ASSUME NEW t, NotTwice(t), Types, Len(scandles) >= 1,
           Len(scandles') = Len(scandles) - 1, Len(stream') = Len(stream) + 1,
           \A y \in Symbols : InWindow(t, y)' <=> InWindow(t, y),
           InMain(t)' <=> InMain(t),
           \A i \in 1..(Len(scandles) - 1) : InSweep(t, i)' <=> InSweep(t, i + 1),
           \A i \in 1..Len(stream) : InStream(t, i)' <=> InStream(t, i),
           NEW n \in Nat, n = Len(stream) + 1, InStream(t, n)' <=> InSweep(t, 1)
    PROVE  NotTwice(t)' /\ (Somewhere(t)' <=> Somewhere(t))
<1>1. /\ \A i \in 1..(Len(stream) + 1) : i \in 1..Len(stream) \/ i = n
      /\ \A i \in 1..Len(stream) : i \in 1..(Len(stream) + 1)
      /\ n \in 1..(Len(stream) + 1)
  BY Facts
<1>2. /\ \A i \in 1..(Len(scandles) - 1) : i + 1 \in 1..Len(scandles) /\ i + 1 # 1
      /\ \A i \in 1..Len(scandles) : i = 1 \/ (\E j \in 1..(Len(scandles) - 1) : j + 1 = i)
      /\ \A i, j \in 1..(Len(scandles) - 1) : i + 1 = j + 1 => i = j
      /\ 1 \in 1..Len(scandles)
  <2>1. Len(scandles) \in Nat
    BY Facts
  <2>2. ASSUME NEW i \in 1..Len(scandles), i # 1
        PROVE  i - 1 \in 1..(Len(scandles) - 1) /\ (i - 1) + 1 = i
    BY <2>1, <2>2
  <2>3. \A i \in 1..Len(scandles) : i = 1 \/ (\E j \in 1..(Len(scandles) - 1) : j + 1 = i)
    BY <2>2
  <2>4. QED
    BY <2>1, <2>3
<1>3. NotTwice(t)'
  BY <1>1, <1>2 DEF NotTwice
<1>4. Somewhere(t)' <=> Somewhere(t)
  <2>1. (\E i \in 1..Len(scandles) : InSweep(t, i))
           => InSweep(t, 1) \/ \E i \in 1..(Len(scandles) - 1) : InSweep(t, i)'
    <3> SUFFICES ASSUME NEW i \in 1..Len(scandles), InSweep(t, i), i # 1
                 PROVE  \E j \in 1..(Len(scandles) - 1) : InSweep(t, j)'
      OBVIOUS
    <3>1. PICK j \in 1..(Len(scandles) - 1) : j + 1 = i
      BY <1>2
    <3>2. QED
      BY <3>1
  <2>2. (\E i \in 1..(Len(scandles) - 1) : InSweep(t, i)')
           => \E i \in 1..Len(scandles) : InSweep(t, i)
    BY <1>2
  <2>3. (\E i \in 1..(Len(stream) + 1) : InStream(t, i)')
           <=> InSweep(t, 1) \/ \E i \in 1..Len(stream) : InStream(t, i)
    BY <1>1
  <2>4. InSweep(t, 1) => \E i \in 1..Len(scandles) : InSweep(t, i)
    BY <1>2
  <2>5. QED
    BY <2>1, <2>2, <2>3, <2>4 DEF Somewhere
<1>5. QED
  BY <1>3, <1>4

\* While the main thread is busy the sweep has nothing in hand.
LEMMA SweepRests ==
    ASSUME Types, Shape, Apart, MainBusy, "overlap" \notin odd
    PROVE  ~SweepBusy /\ Range(expired) = {} /\ scandles = <<>> /\ Len(scandles) = 0
<1>1. ~SweepBusy
  BY DEF Apart
<1>2. expired = <<>> /\ scandles = <<>>
  BY <1>1 DEF Shape, SweepShape
<1>3. QED
  BY <1>1, <1>2, EmptySeq DEF Range

\* Where a trade is to be after a step, and the cases in which nothing moves.
LEMMA KeptStays ==
    ASSUME Kept, odd \subseteq odd',
           ASSUME NEW t \in Nat, odd' \subseteq {"late"}, NotTwice(t)
           PROVE  /\ NotTwice(t)' /\ (Somewhere(t)' <=> Somewhere(t))
                  /\ t \in 1..Len(trades') /\ ~InHand(t)' <=> t \in 1..Len(trades) /\ ~InHand(t)
    PROVE  Kept'
BY DEF Kept

LEMMA KeptReceive ==
    ASSUME Types, Shape, Kept, NEW y \in Symbols, NEW ts, Receive(y, ts)
    PROVE  Kept'
<1>1. /\ mpc = "idle" /\ mcandle = NoCandle /\ Len(trades') = Len(trades) + 1
      /\ UNCHANGED <<windows, sweepVars, stream>> /\ odd \subseteq odd'
      /\ mpc' = "close" \/ (mpc' = "open" /\ mcandle' = NoCandle)
  BY ReceiveOutcome
<1> SUFFICES ASSUME NEW t \in Nat, NotTwice(t)
             PROVE  /\ NotTwice(t)' /\ (Somewhere(t)' <=> Somewhere(t))
                    /\ t \in 1..Len(trades') /\ ~InHand(t)' <=> t \in 1..Len(trades) /\ ~InHand(t)
  BY <1>1, KeptStays
<1>2. ~InMain(t) /\ ~InMain(t)'
  BY <1>1 DEF InMain, NoCandle
<1>3. /\ \A z \in Symbols : InWindow(t, z)' <=> InWindow(t, z)
      /\ \A i \in 1..Len(scandles) : InSweep(t, i)' <=> InSweep(t, i)
      /\ \A i \in 1..Len(stream) : InStream(t, i)' <=> InStream(t, i)
  BY <1>1 DEF InWindow, InSweep, InStream, sweepVars
<1>4. Len(scandles') = Len(scandles) /\ Len(stream') = Len(stream)
  BY <1>1 DEF sweepVars
<1>5. t \in 1..Len(trades') /\ ~InHand(t)' <=> t \in 1..Len(trades) /\ ~InHand(t)
  BY <1>1, Facts DEF InHand
<1>6. QED
  BY <1>2, <1>3, <1>4, <1>5, PlacesStay

LEMMA KeptClose ==
    ASSUME Types, Shape, Apart, Kept, Close
    PROVE  Kept'
<1> DEFINE y == Trade.symbol
<1>1. /\ Len(trades) > 0 /\ y \in Symbols
      /\ UNCHANGED <<trades, expired, scandles, stream, odd>>
      /\ \A z \in Symbols : z # y => windows'[z] = windows[z]
  BY WindowOutcome
<1> SUFFICES ASSUME NEW t \in Nat, odd \subseteq {"late"}, NotTwice(t)
             PROVE  /\ NotTwice(t)' /\ (Somewhere(t)' <=> Somewhere(t))
                    /\ t \in 1..Len(trades') /\ ~InHand(t)' <=> t \in 1..Len(trades) /\ ~InHand(t)
  BY <1>1, KeptStays
<1>2. /\ mpc = "close" /\ y \in Keys(windows)
      /\ mcandle = IF windows[y].trades = {} THEN NoCandle ELSE Candle(y)
  BY DEF Close, Apart
<1>3. /\ windows' = [windows EXCEPT ![y] = NoWindow] /\ mpc' = "open" /\ mcandle' = mcandle
  BY <1>2 DEF Close
<1>4. Range(expired) = {}
  BY <1>2, SweepRests DEF MainBusy
<1>5. windows'[y].trades = {}
  BY <1>1, <1>3 DEF Types, MainTypes, NoWindow
<1>6. mcandle.trades = windows[y].trades
  BY <1>2 DEF NoCandle, Candle
<1>7. ~InMain(t) /\ (InMain(t)' <=> InWindow(t, y))
  BY <1>2, <1>3, <1>4, <1>6 DEF InMain, InWindow
<1>8. /\ \A z \in Symbols : InWindow(t, z)' <=> InWindow(t, z) /\ z # y
      /\ \A i \in 1..Len(scandles) : InSweep(t, i)' <=> InSweep(t, i)
      /\ \A i \in 1..Len(stream) : InStream(t, i)' <=> InStream(t, i)
  BY <1>1, <1>4, <1>5 DEF InWindow, InSweep, InStream
<1>9. InHand(t)' <=> InHand(t)
  BY <1>1, <1>2, <1>3 DEF InHand
<1> HIDE DEF y
<1>10. QED
  BY <1>1, <1>7, <1>8, <1>9, WindowToMain

LEMMA KeptOpen ==
    ASSUME Types, Shape, Apart, Kept, Open
    PROVE  Kept'
<1> DEFINE y == Trade.symbol
<1>1. /\ Len(trades) > 0 /\ y \in Symbols
      /\ UNCHANGED <<trades, expired, scandles, stream, odd>>
      /\ \A z \in Symbols : z # y => windows'[z] = windows[z]
  BY WindowOutcome
<1> SUFFICES ASSUME NEW t \in Nat, NotTwice(t)
             PROVE  /\ NotTwice(t)' /\ (Somewhere(t)' <=> Somewhere(t))
                    /\ t \in 1..Len(trades') /\ ~InHand(t)' <=> t \in 1..Len(trades) /\ ~InHand(t)
  BY <1>1, KeptStays
<1>2. mpc = "open" /\ mpc' = "update" /\ mcandle' = mcandle
  BY DEF Open
<1>3. windows'[y].trades = windows[y].trades
  <2>1. CASE y \in Keys(windows)
    BY <2>1 DEF Open
  <2>2. CASE y \notin Keys(windows)
    <3>1. windows' = [windows EXCEPT ![y] = [start |-> Align(Trade.ts), trades |-> {}]]
      BY <2>2 DEF Open
    <3>2. windows'[y].trades = {}
      BY <1>1, <3>1 DEF Types, MainTypes
    <3>3. windows[y].trades = {}
      BY <1>1, <2>2, Facts DEF Shape, WindowShape
    <3>4. QED
      BY <3>2, <3>3
  <2>3. QED
    BY <2>1, <2>2
<1>4. /\ \A z \in Symbols : InWindow(t, z)' <=> InWindow(t, z)
      /\ \A i \in 1..Len(scandles) : InSweep(t, i)' <=> InSweep(t, i)
      /\ \A i \in 1..Len(stream) : InStream(t, i)' <=> InStream(t, i)
  BY <1>1, <1>3 DEF InWindow, InSweep, InStream
<1>5. (InHand(t)' <=> InHand(t)) /\ (InMain(t)' <=> InMain(t))
  BY <1>1, <1>2 DEF InHand, InMain
<1> HIDE DEF y
<1>6. QED
  BY <1>1, <1>4, <1>5, PlacesStay

LEMMA KeptUpdate ==
    ASSUME Types, Shape, Apart, Kept, Update
    PROVE  Kept'
<1> DEFINE y == Trade.symbol
           n == Len(trades)
<1>1. /\ n > 0 /\ n \in Nat /\ y \in Symbols
      /\ UNCHANGED <<trades, expired, scandles, stream, odd>>
      /\ \A z \in Symbols : z # y => windows'[z] = windows[z]
  BY WindowOutcome, Facts
<1> SUFFICES ASSUME NEW t \in Nat, odd \subseteq {"late"}
             PROVE  NotTwice(t)' /\ (Somewhere(t)' <=> t \in 1..Len(trades') /\ ~InHand(t)')
  BY <1>1 DEF Kept
<1>2. NotTwice(t) /\ (Somewhere(t) <=> t \in 1..n /\ ~InHand(t))
  BY DEF Kept
<1>3. mpc = "update" /\ y \in Keys(windows)
  BY DEF Update, Apart
<1>4. /\ windows' = [windows EXCEPT ![y].trades = @ \cup {n}]
      /\ mpc' \in {"idle", "emit"} /\ mcandle' = mcandle
  BY <1>3 DEF Update, Emitting
<1>5. windows'[y].trades = windows[y].trades \cup {n}
  BY <1>1, <1>4 DEF Types, MainTypes
<1>6. Range(expired) = {}
  BY <1>3, SweepRests DEF MainBusy
<1>7. /\ \A z \in Symbols : InWindow(t, z)' <=> InWindow(t, z) \/ (t = n /\ z = y)
      /\ \A i \in 1..Len(scandles) : InSweep(t, i)' <=> InSweep(t, i)
      /\ \A i \in 1..Len(stream) : InStream(t, i)' <=> InStream(t, i)
  BY <1>1, <1>5, <1>6 DEF InWindow, InSweep, InStream
<1>8. InMain(t)' <=> InMain(t)
  BY <1>3, <1>4 DEF InMain
<1>9. ~InHand(t)' /\ (InHand(t) <=> t = n)
  BY <1>3, <1>4 DEF InHand
<1> HIDE DEF y, n
<1>10. CASE t # n
  <2>1. NotTwice(t)' /\ (Somewhere(t)' <=> Somewhere(t))
    BY <1>1, <1>2, <1>7, <1>8, <1>10, PlacesStay
  <2>2. QED
    BY <1>1, <1>2, <1>9, <1>10, <2>1 DEF n
<1>11. CASE t = n
  <2>1. ~Somewhere(t)
    BY <1>2, <1>9, <1>11
  <2>2. /\ \A z \in Symbols : InWindow(t, z)' <=> z = y
        /\ \A i \in 1..Len(scandles) : ~InSweep(t, i)'
        /\ \A i \in 1..Len(stream) : ~InStream(t, i)'
        /\ ~InMain(t)'
    BY <1>7, <1>8, <1>11, <2>1 DEF Somewhere
  <2>3. NotTwice(t)' /\ Somewhere(t)'
    BY <1>1, <2>2 DEF NotTwice, Somewhere
  <2>4. t \in 1..Len(trades')
    BY <1>1, <1>11 DEF n
  <2>5. QED
    BY <1>9, <2>3, <2>4
<1>12. QED
  BY <1>10, <1>11

LEMMA KeptEmit ==
    ASSUME Types, Shape, Kept, Emit
    PROVE  Kept'
<1>1. /\ mpc = "emit" /\ mpc' = "idle" /\ mcandle' = NoCandle
      /\ UNCHANGED <<trades, windows, sweepVars>> /\ odd \subseteq odd'
  BY EmitOutcome
<1> SUFFICES ASSUME NEW t \in Nat, odd' \subseteq {"late"}, NotTwice(t)
             PROVE  /\ NotTwice(t)' /\ (Somewhere(t)' <=> Somewhere(t))
                    /\ t \in 1..Len(trades') /\ ~InHand(t)' <=> t \in 1..Len(trades) /\ ~InHand(t)
  BY <1>1, KeptStays
<1>2. PICK n \in Nat : n = Len(stream) + 1
  BY Facts
<1>3. /\ Len(stream') = n /\ stream'[n] = mcandle
      /\ \A i \in 1..Len(stream) : stream'[i] = stream[i]
  BY <1>2, EmitOutcome
<1>4. ~InMain(t)' /\ (InStream(t, n)' <=> InMain(t))
  BY <1>1, <1>3 DEF InMain, InStream, NoCandle
<1>5. /\ \A z \in Symbols : InWindow(t, z)' <=> InWindow(t, z)
      /\ \A i \in 1..Len(scandles) : InSweep(t, i)' <=> InSweep(t, i)
      /\ \A i \in 1..Len(stream) : InStream(t, i)' <=> InStream(t, i)
      /\ Len(scandles') = Len(scandles)
  BY <1>1, <1>3 DEF InWindow, InSweep, InStream, sweepVars
<1>6. t \in 1..Len(trades') /\ ~InHand(t)' <=> t \in 1..Len(trades) /\ ~InHand(t)
  BY <1>1 DEF InHand
<1>7. QED
  BY <1>2, <1>3, <1>4, <1>5, <1>6, MainToStream

LEMMA KeptVisit ==
    ASSUME Types, Shape, Apart, Kept, Visit
    PROVE  Kept'
<1>1. spc = "scan" /\ UNCHANGED <<trades, windows, mainVars, stream, odd>>
  BY VisitOutcome
<1> SUFFICES ASSUME NEW t \in Nat, odd \subseteq {"late"}, NotTwice(t)
             PROVE  /\ NotTwice(t)' /\ (Somewhere(t)' <=> Somewhere(t))
                    /\ t \in 1..Len(trades') /\ ~InHand(t)' <=> t \in 1..Len(trades) /\ ~InHand(t)
  BY <1>1, KeptStays
<1>2. size = Cardinality(Keys(windows)) /\ todo \subseteq Keys(windows) \ Range(expired)
  BY <1>1 DEF Apart
<1>3. /\ t \in 1..Len(trades') /\ ~InHand(t)' <=> t \in 1..Len(trades) /\ ~InHand(t)
      /\ InMain(t)' <=> InMain(t)
      /\ Len(stream') = Len(stream) /\ \A i \in 1..Len(stream) : InStream(t, i)' <=> InStream(t, i)
  BY <1>1 DEF InHand, InMain, InStream, mainVars
<1>4. CASE UNCHANGED <<expired, scandles>>
  <2>1. /\ \A z \in Symbols : InWindow(t, z)' <=> InWindow(t, z)
        /\ \A i \in 1..Len(scandles) : InSweep(t, i)' <=> InSweep(t, i)
        /\ Len(scandles') = Len(scandles)
    BY <1>1, <1>4 DEF InWindow, InSweep
  <2>2. QED
    BY <1>3, <2>1, PlacesStay
<1>5. ASSUME NEW y \in todo, expired' = Append(expired, y),
             \/ windows[y].trades = {} /\ scandles' = scandles
             \/ windows[y].trades # {} /\ scandles' = Append(scandles, Candle(y))
      PROVE  NotTwice(t)' /\ (Somewhere(t)' <=> Somewhere(t))
  <2>1. y \in Symbols /\ y \in Keys(windows) /\ y \notin Range(expired) /\ Candle(y) \in CandleSet
    BY <1>2, Facts
  <2>2. Range(expired') = Range(expired) \cup {y}
    BY <1>5, <2>1, AppendFacts DEF Types, SweepTypes
  <2>3. \A z \in Symbols : InWindow(t, z)' <=> InWindow(t, z) /\ z # y
    BY <1>1, <2>2 DEF InWindow
  <2>4. CASE windows[y].trades = {} /\ scandles' = scandles
    <3>1. ~InWindow(t, y)
      BY <2>4 DEF InWindow
    <3>2. \A z \in Symbols : InWindow(t, z)' <=> InWindow(t, z)
      BY <2>3, <3>1
    <3>3. /\ \A i \in 1..Len(scandles) : InSweep(t, i)' <=> InSweep(t, i)
          /\ Len(scandles') = Len(scandles)
      BY <2>4 DEF InSweep
    <3>4. QED
      BY <1>3, <3>2, <3>3, PlacesStay
  <2>5. CASE scandles' = Append(scandles, Candle(y))
    <3>1. PICK n \in Nat : n = Len(scandles) + 1
      BY Facts
    <3>2. /\ Len(scandles') = n /\ scandles'[n] = Candle(y)
          /\ \A i \in 1..Len(scandles) : scandles'[i] = scandles[i]
      BY <2>1, <2>5, <3>1, AppendFacts DEF Types, SweepTypes
    <3>3. InSweep(t, n)' <=> InWindow(t, y)
      BY <2>1, <3>2 DEF InSweep, InWindow, Candle
    <3>4. \A i \in 1..Len(scandles) : InSweep(t, i)' <=> InSweep(t, i)
      BY <3>2 DEF InSweep
    <3>5. QED
      BY <1>3, <2>1, <2>3, <3>1, <3>2, <3>3, <3>4, WindowToSweep
  <2>6. QED
    BY <1>5, <2>4, <2>5
<1>6. QED
  BY <1>2, <1>3, <1>4, <1>5, VisitOutcome

LEMMA KeptDelete ==
    ASSUME Types, Shape, Apart, Kept, DeleteExpired
    PROVE  Kept'
<1> DEFINE h == Head(expired)
<1>1. /\ spc = "del" /\ expired # <<>> /\ h \in Symbols
      /\ UNCHANGED <<trades, mainVars, stream, odd>>
      /\ \A z \in Symbols : z # h => windows'[z] = windows[z]
  BY DeleteOutcome
<1> SUFFICES ASSUME NEW t \in Nat, odd \subseteq {"late"}, NotTwice(t)
             PROVE  /\ NotTwice(t)' /\ (Somewhere(t)' <=> Somewhere(t))
                    /\ t \in 1..Len(trades') /\ ~InHand(t)' <=> t \in 1..Len(trades) /\ ~InHand(t)
  BY <1>1, KeptStays
<1>2. Range(expired) = Range(Tail(expired)) \cup {h} /\ Range(expired) \subseteq Keys(windows)
  BY <1>1, TailFacts DEF Types, SweepTypes, Apart
<1>3. windows'[h] = NoWindow /\ expired' = Tail(expired) /\ scandles' = scandles
  BY <1>2, DeleteOutcome
<1>4. \A z \in Symbols : InWindow(t, z)' <=> InWindow(t, z)
  <2> SUFFICES ASSUME NEW z \in Symbols PROVE InWindow(t, z)' <=> InWindow(t, z)
    OBVIOUS
  <2>1. CASE z = h
    BY <1>2, <1>3, <2>1 DEF InWindow, NoWindow
  <2>2. CASE z # h
    BY <1>1, <1>2, <1>3, <2>2 DEF InWindow
  <2>3. QED
    BY <2>1, <2>2
<1>5. /\ t \in 1..Len(trades') /\ ~InHand(t)' <=> t \in 1..Len(trades) /\ ~InHand(t)
      /\ InMain(t)' <=> InMain(t)
      /\ Len(stream') = Len(stream) /\ \A i \in 1..Len(stream) : InStream(t, i)' <=> InStream(t, i)
      /\ Len(scandles') = Len(scandles)
      /\ \A i \in 1..Len(scandles) : InSweep(t, i)' <=> InSweep(t, i)
  BY <1>1, <1>3 DEF InHand, InMain, InStream, InSweep, mainVars
<1>6. QED
  BY <1>4, <1>5, PlacesStay

LEMMA KeptSweepEmit ==
    ASSUME Types, Shape, Kept, SweepEmit
    PROVE  Kept'
<1>1. /\ expired = <<>> /\ scandles # <<>> /\ UNCHANGED <<trades, windows, mainVars>>
      /\ odd \subseteq odd'
  BY SweepEmitOutcome
<1> SUFFICES ASSUME NEW t \in Nat, odd' \subseteq {"late"}, NotTwice(t)
             PROVE  /\ NotTwice(t)' /\ (Somewhere(t)' <=> Somewhere(t))
                    /\ t \in 1..Len(trades') /\ ~InHand(t)' <=> t \in 1..Len(trades) /\ ~InHand(t)
  BY <1>1, KeptStays
<1>2. /\ stream' = Append(stream, Head(scandles)) /\ scandles' = Tail(scandles)
      /\ expired' = expired
  BY SweepEmitOutcome
<1>3. /\ Head(scandles) \in CandleSet /\ Head(scandles) = scandles[1]
      /\ Len(scandles) \in Nat /\ Len(scandles) >= 1
      /\ Len(scandles') = Len(scandles) - 1
      /\ \A i \in 1..(Len(scandles) - 1) : scandles'[i] = scandles[i + 1]
  BY <1>1, <1>2, TailFacts DEF Types, SweepTypes
<1>4. PICK n \in Nat : n = Len(stream) + 1
  BY Facts
<1>5. /\ Len(stream') = n /\ stream'[n] = scandles[1]
      /\ \A i \in 1..Len(stream) : stream'[i] = stream[i]
  BY <1>2, <1>3, <1>4, AppendFacts DEF Types, SweepTypes
<1>6. /\ \A z \in Symbols : InWindow(t, z)' <=> InWindow(t, z)
      /\ InMain(t)' <=> InMain(t)
      /\ \A i \in 1..Len(stream) : InStream(t, i)' <=> InStream(t, i)
      /\ InStream(t, n)' <=> InSweep(t, 1)
      /\ \A i \in 1..(Len(scandles) - 1) : InSweep(t, i)' <=> InSweep(t, i + 1)
  BY <1>1, <1>2, <1>3, <1>5 DEF InWindow, InMain, InStream, InSweep, mainVars
<1>7. t \in 1..Len(trades') /\ ~InHand(t)' <=> t \in 1..Len(trades) /\ ~InHand(t)
  BY <1>1 DEF InHand, mainVars
<1>8. QED
  BY <1>3, <1>4, <1>5, <1>6, <1>7, SweepToStream

LEMMA KeptOther ==
    ASSUME Types, Shape, Kept,
           Start \/ SweepBoot \/ SweepBegin \/ Tick \/ Restart \/ UNCHANGED vars
    PROVE  Kept'
<1>1. odd \subseteq odd' /\ stream' = stream /\ trades' = trades
  BY DEF Start, SweepBoot, SweepBegin, Tick, Restart, vars
<1> SUFFICES ASSUME NEW t \in Nat, odd' \subseteq {"late"}, NotTwice(t)
             PROVE  /\ NotTwice(t)' /\ (Somewhere(t)' <=> Somewhere(t))
                    /\ t \in 1..Len(trades') /\ ~InHand(t)' <=> t \in 1..Len(trades) /\ ~InHand(t)
  BY <1>1, KeptStays
<1>2. ~Restart
  BY DEF Restart
<1>3. UNCHANGED <<windows, mcandle>> /\ (mpc' = mpc \/ (mpc = "start" /\ mpc' = "idle"))
  BY <1>2 DEF Start, SweepBoot, SweepBegin, Tick, vars, mainVars
<1>4. UNCHANGED <<expired, scandles>>
  <2>1. CASE SweepBoot
    BY <2>1 DEF SweepBoot, ThreadEnds, Shape, SweepShape, SweepBusy
  <2>2. QED
    BY <1>2, <2>1 DEF Start, SweepBegin, Tick, vars, sweepVars
<1>5. /\ \A z \in Symbols : InWindow(t, z)' <=> InWindow(t, z)
      /\ InMain(t)' <=> InMain(t)
      /\ Len(stream') = Len(stream) /\ \A i \in 1..Len(stream) : InStream(t, i)' <=> InStream(t, i)
      /\ Len(scandles') = Len(scandles)
      /\ \A i \in 1..Len(scandles) : InSweep(t, i)' <=> InSweep(t, i)
      /\ InHand(t)' <=> InHand(t)
  BY <1>1, <1>3, <1>4 DEF InWindow, InMain, InStream, InSweep, InHand
<1>6. QED
  BY <1>1, <1>5, PlacesStay

LEMMA KeptStep ==
    ASSUME Types, Shape, Apart, Kept, [Next]_vars
    PROVE  Kept'
BY KeptReceive, KeptClose, KeptOpen, KeptUpdate, KeptEmit, KeptVisit, KeptDelete, KeptSweepEmit,
   KeptOther DEF Next, MainStep, SweepStep
-----------------------------------------------------------------------------
(* The theorems.                                                            *)

LEMMA InitHolds ==
    ASSUME Init
    PROVE  IInv
<1>1. /\ now = 0 /\ trades = <<>> /\ stream = <<>> /\ odd = {}
      /\ windows = [y \in Symbols |-> NoWindow]
      /\ mpc = "start" /\ mcandle = NoCandle
      /\ spc = "boot" /\ sts = 0 /\ todo = {} /\ expired = <<>> /\ scandles = <<>>
  BY DEF Init
<1>2. Len(trades) = 0 /\ Len(stream) = 0 /\ Len(scandles) = 0 /\ Len(expired) = 0
  BY <1>1, EmptySeq
<1>3. Keys(windows) = {} /\ Range(expired) = {}
  BY <1>1 DEF Keys, NoWindow, Range
<1>4. Types
  BY <1>1 DEF Types, MainTypes, SweepTypes, NoWindow
<1>5. Shape
  BY <1>1, <1>2 DEF Shape, WindowShape, MainShape, SweepShape, Ended, MainBusy, SweepBusy, NoWindow
<1>6. Apart
  BY <1>1, <1>2, <1>3 DEF Apart, MainBusy
<1>7. Ordered
  BY <1>1, <1>2, <1>3 DEF Ordered, InOrder
<1>8. Kept
  BY <1>1, <1>2 DEF Kept, NotTwice, Somewhere, InWindow, InMain, NoWindow, NoCandle
<1>9. QED
  BY <1>4, <1>5, <1>6, <1>7, <1>8 DEF IInv

\* The two threads keep the windows, the candles in hand and the stream as the
\* parts of IInv say.
THEOREM Consistent == Spec => []IInv
<1>1. Init => IInv
  BY InitHolds
<1>2. IInv /\ [Next]_vars => IInv'
  BY ShapeStep, ApartStep, OrderStep, KeptStep DEF IInv
<1>3. QED
  BY <1>1, <1>2, PTL DEF Spec

\* Candles of a symbol are emitted in the order of their windows and one for
\* each window, whoever of process_trade and the sweep closes the windows.
THEOREM CandlesInOrder == Spec => []StreamOrdered
<1>1. IInv => StreamOrdered
  <2> SUFFICES ASSUME IInv, odd \subseteq {"redis", "restart"}
               PROVE  \A i, j \in DOMAIN stream :
                         i < j /\ stream[i].symbol = stream[j].symbol => stream[i].start < stream[j].start
    BY DEF StreamOrdered
  <2>1. InOrder
    BY DEF IInv, Ordered
  <2>2. DOMAIN stream = 1..Len(stream)
    BY Facts DEF IInv
  <2>3. QED
    BY <2>1, <2>2 DEF InOrder, Before
<1>2. QED
  BY <1>1, Consistent, PTL

\* The places that EveryTradeOnce counts are those of NotTwice and Somewhere.
LEMMA HeldOnce ==
    ASSUME Types, NEW t, NotTwice(t), Somewhere(t)
    PROVE  Cardinality(Held(t)) = 1
<1> DEFINE W == {<<"window", y>> : y \in {y \in Symbols : t \in windows[y].trades /\ y \notin Range(expired)}}
           M == {<<"main">> : c \in {c \in {mcandle} : t \in c.trades /\ mpc # "close"}}
           S == {<<"sweep", i>> : i \in {i \in DOMAIN scandles : t \in scandles[i].trades}}
           R == {<<"stream", i>> : i \in {i \in DOMAIN stream : t \in stream[i].trades}}
<1>1. Held(t) = W \cup M \cup S \cup R
  BY DEF Held
<1>2. DOMAIN scandles = 1..Len(scandles) /\ DOMAIN stream = 1..Len(stream)
  BY Facts
<1>3. /\ W = {<<"window", y>> : y \in {y \in Symbols : InWindow(t, y)}}
      /\ S = {<<"sweep", i>> : i \in {i \in 1..Len(scandles) : InSweep(t, i)}}
      /\ R = {<<"stream", i>> : i \in {i \in 1..Len(stream) : InStream(t, i)}}
  BY <1>2, Zenon DEF InWindow, InSweep, InStream
<1>4. (InMain(t) => M = {<<"main">>}) /\ (~InMain(t) => M = {})
  BY DEF InMain
<1> HIDE DEF W, M, S, R
<1>5. \E p : Held(t) = {p}
  <2>1. CASE InMain(t)
    <3>1. W = {} /\ S = {} /\ R = {}
      BY <1>3, <2>1 DEF NotTwice
    <3>2. QED
      BY <1>1, <1>4, <2>1, <3>1
  <2>2. ASSUME NEW y \in Symbols, InWindow(t, y) PROVE Held(t) = {<<"window", y>>}
    <3>1. ~InMain(t) /\ M = {}
      BY <1>4, <2>2 DEF NotTwice
    <3>2. S = {} /\ R = {}
      BY <1>3, <2>2 DEF NotTwice
    <3>3. {z \in Symbols : InWindow(t, z)} = {y}
      BY <2>2 DEF NotTwice
    <3>4. W = {<<"window", y>>}
      BY <1>3, <3>3
    <3>5. QED
      BY <1>1, <3>1, <3>2, <3>4
  <2>3. ASSUME NEW i \in 1..Len(scandles), InSweep(t, i) PROVE Held(t) = {<<"sweep", i>>}
    <3>1. ~InMain(t) /\ M = {}
      BY <1>4, <2>3 DEF NotTwice
    <3>2. W = {} /\ R = {}
      BY <1>3, <2>3 DEF NotTwice
    <3>3. {j \in 1..Len(scandles) : InSweep(t, j)} = {i}
      BY <2>3 DEF NotTwice
    <3>4. S = {<<"sweep", i>>}
      BY <1>3, <3>3
    <3>5. QED
      BY <1>1, <3>1, <3>2, <3>4
  <2>4. ASSUME NEW i \in 1..Len(stream), InStream(t, i) PROVE Held(t) = {<<"stream", i>>}
    <3>1. ~InMain(t) /\ M = {}
      BY <1>4, <2>4 DEF NotTwice
    <3>2. W = {} /\ S = {}
      BY <1>3, <2>4 DEF NotTwice
    <3>3. {j \in 1..Len(stream) : InStream(t, j)} = {i}
      BY <2>4 DEF NotTwice
    <3>4. R = {<<"stream", i>>}
      BY <1>3, <3>3
    <3>5. QED
      BY <1>1, <3>1, <3>2, <3>4
  <2>5. QED
    BY <2>1, <2>2, <2>3, <2>4 DEF Somewhere
<1>6. QED
  BY <1>5, FS_Singleton

\* No trade is lost and none is counted in two candles, as long as the threads
\* do not overlap, Redis answers and the process lives.
THEOREM TradesOnce == Spec => []EveryTradeOnce
<1>1. IInv => EveryTradeOnce
  <2> SUFFICES ASSUME IInv, odd \subseteq {"late"}, NEW t \in DOMAIN trades, ~InHand(t)
               PROVE  Cardinality(Held(t)) = 1
    BY DEF EveryTradeOnce, InHand
  <2>1. t \in 1..Len(trades) /\ t \in Nat
    BY Facts DEF IInv
  <2>2. NotTwice(t) /\ Somewhere(t)
    BY <2>1 DEF IInv, Kept
  <2>3. QED
    BY <2>2, HeldOnce DEF IInv
<1>2. QED
  BY <1>1, Consistent, PTL

===============================================================================

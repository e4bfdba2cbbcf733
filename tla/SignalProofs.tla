----------------------------- MODULE SignalProofs -----------------------------
(***************************************************************************)
(* Proofs about Signal, for any bars, lookbacks, channel lengths, buffer,  *)
(* cooldown and lateness of ticks.                                         *)
(***************************************************************************)
EXTENDS Signal, SequenceTheorems, WellFoundedInduction, TLAPS

Ticks == [ts : Nat, high : Nat, low : Nat, close : Nat]
Signals == [side : {"BUY", "SELL"}, place : Nat]

\* The types of the engine's state.
SignalTypes ==
    /\ strategy \in {"primary", "donchian"} /\ open \in BOOLEAN
    /\ history \in Seq(Ticks) /\ seen \in Seq(Ticks) /\ log \in Seq(Signals)
    /\ lastEntry \in Nat \cup {-1} /\ clock \in Nat

LongestLookback == Max({EntryLookback, ExitLookback})
LongestChannel == Max({EntryBars, ExitBars})

\* The history is the tail of what was handled ...
Dropped == Len(seen) - Len(history)
Suffix ==
    /\ Len(history) <= Len(seen)
    /\ \A i \in 1..Len(history) : history[i] = seen[Dropped + i]
\* ... and what was dropped is too old for any lookback, as seen from some tick
\* handled since, or behind enough bars.
Outdated ==
    strategy = "primary" =>
        \A j \in 1..Dropped : \E k \in 1..Len(seen) :
            seen[j].ts + LongestLookback < seen[k].ts
LongEnough == strategy = "donchian" => Dropped = 0 \/ Len(history) >= LongestChannel
Timely == \A i \in 1..Len(seen) : seen[i].ts <= clock
Pruned == Suffix /\ Outdated /\ LongEnough /\ Timely

\* Every signal has a tick, and no entry is later than the last one.
Placed == \A k \in 1..Len(log) : log[k].place \in 1..Len(seen)
LastIsLatest ==
    \A k \in 1..Len(log) : log[k].side = "BUY" => seen[log[k].place].ts <= lastEntry

IInv == SignalTypes /\ Pruned /\ Placed /\ LastIsLatest /\ EntriesSpaced /\ SignalsJustified

-----------------------------------------------------------------------------
(* Least and greatest elements.                                             *)

LEMMA LeastNatural ==
    ASSUME NEW S \in SUBSET Nat, S # {}
    PROVE  \E m \in S : \A n \in S : m <= n
<1> DEFINE R == OpToRel(<, Nat)
<1>1. IsWellFoundedOn(R, Nat)
  BY NatLessThanWellFounded, Zenon
<1>2. \A i, j \in Nat : i < j => <<i, j>> \in R
  BY DEF OpToRel
<1> HIDE DEF R
<1>3. PICK m \in S : \A n \in S : ~(<<n, m>> \in R)
  BY <1>1, WFMin
<1>4. m \in Nat /\ \A n \in S : n \in Nat
  OBVIOUS
<1>5. \A n \in S : ~(n < m)
  BY <1>2, <1>3, <1>4
<1>6. QED
  BY <1>4, <1>5

LEMMA MinIsLeast ==
    ASSUME NEW S \in SUBSET Nat, S # {}
    PROVE  Min(S) \in S /\ \A n \in S : Min(S) <= n
BY LeastNatural DEF Min

LEMMA MaxOfTwo ==
    ASSUME NEW m \in Nat, NEW n \in Nat
    PROVE  Max({m, n}) \in {m, n} /\ Max({m, n}) >= m /\ Max({m, n}) >= n
<1>1. \E x \in {m, n} : \A y \in {m, n} : x >= y
  <2>1. CASE m >= n
    BY <2>1
  <2>2. CASE n >= m
    BY <2>2
  <2>3. QED
    BY <2>1, <2>2
<1>2. QED
  BY <1>1 DEF Max

LEMMA Longest ==
    /\ LongestLookback \in Nat /\ LongestLookback >= EntryLookback /\ LongestLookback >= ExitLookback
    /\ LongestChannel \in Nat \ {0} /\ LongestChannel >= EntryBars /\ LongestChannel >= ExitBars
BY MaxOfTwo, SignalAssumption DEF LongestLookback, LongestChannel

-----------------------------------------------------------------------------
(* Pruning.                                                                 *)

\* Popping from the head keeps a tail: what goes is older than the longest
\* lookback (primary), and enough bars stay (Donchian).
LEMMA PruneResult ==
    ASSUME NEW h \in Seq(Ticks), NEW ts \in Nat, Len(h) >= 1, h[Len(h)].ts = ts,
           strategy \in {"primary", "donchian"}
    PROVE  \E d \in 0..(Len(h) - 1) :
              /\ Prune(h, ts) \in Seq(Ticks) /\ Len(Prune(h, ts)) = Len(h) - d
              /\ \A i \in 1..(Len(h) - d) : Prune(h, ts)[i] = h[d + i]
              /\ strategy = "primary" => \A i \in 1..d : h[i].ts + LongestLookback < ts
              /\ strategy = "donchian" => d = 0 \/ Len(h) - d >= LongestChannel
<1> DEFINE Kept(i) == IF strategy = "primary" THEN h[i].ts >= ts - LongestLookback
                      ELSE i > Len(h) - LongestChannel
           kept == {i \in DOMAIN h : Kept(i)}
           m == Min(kept)
<1>1. Prune(h, ts) = SubSeq(h, m, Len(h))
  <2>1. CASE strategy = "primary"
    BY <2>1 DEF Prune, LongestLookback
  <2>2. CASE strategy # "primary"
    BY <2>2 DEF Prune, LongestChannel, LastBars
  <2>3. QED
    BY <2>1, <2>2
<1>2. DOMAIN h = 1..Len(h) /\ Len(h) \in Nat /\ \A i \in 1..Len(h) : h[i] \in Ticks
  BY LenProperties, ElementOfSeq
<1>3. \A i \in 1..Len(h) : h[i].ts \in Nat
  BY <1>2 DEF Ticks
<1>4. kept \in SUBSET Nat /\ Len(h) \in kept
  BY <1>2, <1>3, Longest
<1> HIDE DEF m
<1>5. m \in kept /\ \A i \in kept : m <= i
  <2> HIDE DEF kept
  <2>1. QED
    BY <1>4, MinIsLeast DEF m
<1>6. m \in 1..Len(h) /\ \A i \in 1..Len(h) : i < m => ~Kept(i)
  BY <1>2, <1>5
<1>7. strategy = "primary" => \A i \in 1..(m - 1) : h[i].ts + LongestLookback < ts
  BY <1>2, <1>3, <1>6, Longest
<1>8. strategy = "donchian" => m = 1 \/ Len(h) - (m - 1) >= LongestChannel
  <2> SUFFICES ASSUME strategy = "donchian", m # 1 PROVE Len(h) - (m - 1) >= LongestChannel
    OBVIOUS
  <2>1. m - 1 \in 1..Len(h) /\ ~(m - 1 > Len(h) - LongestChannel)
    BY <1>2, <1>6
  <2>2. QED
    BY <1>2, <1>6, <2>1, Longest
<1> HIDE DEF kept
<1>9. /\ SubSeq(h, m, Len(h)) \in Seq(Ticks) /\ Len(SubSeq(h, m, Len(h))) = Len(h) - m + 1
      /\ \A i \in 1..(Len(h) - m + 1) : SubSeq(h, m, Len(h))[i] = h[m + i - 1]
  <2>1. m \in Int /\ Len(h) \in Int /\ m <= Len(h) /\ \A i \in m..Len(h) : h[i] \in Ticks
    BY <1>2, <1>6
  <2>2. QED
    BY <2>1, SubSeqProperties
<1>10. m - 1 \in 0..(Len(h) - 1)
  BY <1>2, <1>6
<1> DEFINE d == m - 1
<1>11. /\ d \in 0..(Len(h) - 1) /\ Len(h) - d = Len(h) - m + 1
       /\ strategy = "donchian" => d = 0 \/ Len(h) - d >= LongestChannel
       /\ \A i \in 1..(Len(h) - d) : m + i - 1 = d + i
  BY <1>2, <1>6, <1>8, <1>10
<1>12. /\ Len(Prune(h, ts)) = Len(h) - d
       /\ \A i \in 1..(Len(h) - d) : Prune(h, ts)[i] = h[d + i]
  BY <1>1, <1>9, <1>11
<1>13. QED
  BY <1>1, <1>7, <1>9, <1>11, <1>12

\* Handling a tick: it is appended after the decision, and the history stays
\* the tail that matters.
LEMMA RememberStep ==
    ASSUME SignalTypes, Pruned, NEW ts \in 0..clock, NEW bar \in Bars, Remember(ts, bar),
           strategy' = strategy, clock' = clock
    PROVE  /\ history' \in Seq(Ticks) /\ seen' \in Seq(Ticks) /\ Pruned'
           /\ Len(seen') = Len(seen) + 1 /\ seen'[Len(seen) + 1] = Tick(ts, bar)
           /\ \A i \in 1..Len(seen) : seen'[i] = seen[i]
<1> DEFINE x == Tick(ts, bar)
           h == Append(history, x)
<1>0. ts \in Nat
  BY DEF SignalTypes
<1>1. x \in Ticks /\ x.ts = ts
  BY <1>0, SignalAssumption DEF Tick, Ticks
<1>2. history \in Seq(Ticks) /\ seen \in Seq(Ticks) /\ Len(history) \in Nat /\ Len(seen) \in Nat
  BY LenProperties DEF SignalTypes
<1> HIDE DEF x
<1>3. /\ h \in Seq(Ticks) /\ Len(h) = Len(history) + 1 /\ h[Len(history) + 1] = x
      /\ \A i \in 1..Len(history) : h[i] = history[i]
  BY <1>1, <1>2, AppendProperties
<1>4. seen' = Append(seen, x) /\ history' = Prune(h, ts)
  BY DEF Remember, x
<1>5. /\ seen' \in Seq(Ticks) /\ Len(seen') = Len(seen) + 1 /\ seen'[Len(seen) + 1] = x
      /\ \A i \in 1..Len(seen) : seen'[i] = seen[i]
  BY <1>1, <1>2, <1>4, AppendProperties
<1> HIDE DEF h
<1>6. PICK d \in 0..(Len(h) - 1) :
        /\ history' \in Seq(Ticks) /\ Len(history') = Len(h) - d
        /\ \A i \in 1..(Len(h) - d) : history'[i] = h[d + i]
        /\ strategy = "primary" => \A i \in 1..d : h[i].ts + LongestLookback < ts
        /\ strategy = "donchian" => d = 0 \/ Len(h) - d >= LongestChannel
  <2>1. Len(h) >= 1 /\ h[Len(h)].ts = ts
    BY <1>1, <1>2, <1>3
  <2>2. QED
    BY <1>0, <1>3, <1>4, <2>1, PruneResult DEF SignalTypes
<1>7. /\ Dropped \in Nat /\ Len(history) <= Len(seen)
      /\ \A i \in 1..Len(history) : history[i] = seen[Dropped + i]
  BY <1>2 DEF Pruned, Suffix, Dropped
<1>8. Dropped' = Dropped + d /\ Len(history') \in Nat /\ Len(history') = Len(history) + 1 - d
  BY <1>2, <1>3, <1>5, <1>6 DEF Dropped
<1>9. \A i \in 1..Len(h) : h[i] = seen'[Dropped + i]
  <2> SUFFICES ASSUME NEW i \in 1..Len(h) PROVE h[i] = seen'[Dropped + i]
    OBVIOUS
  <2>1. CASE i = Len(history) + 1
    BY <1>2, <1>3, <1>5, <2>1 DEF Dropped
  <2>2. CASE i \in 1..Len(history)
    <3>1. Dropped + i \in 1..Len(seen)
      BY <1>2, <1>7, <2>2 DEF Dropped
    <3>2. QED
      BY <1>3, <1>5, <1>7, <2>2, <3>1
  <2>3. QED
    BY <1>2, <1>3, <2>1, <2>2
<1>10. Suffix'
  <2>1. Len(history') <= Len(seen')
    BY <1>2, <1>5, <1>7, <1>8
  <2>2. ASSUME NEW i \in 1..Len(history') PROVE history'[i] = seen'[Dropped' + i]
    <3>1. i \in 1..(Len(h) - d) /\ d + i \in 1..Len(h) /\ Dropped' + i = Dropped + (d + i)
      BY <1>2, <1>3, <1>6, <1>7, <1>8
    <3>2. history'[i] = h[d + i] /\ h[d + i] = seen'[Dropped + (d + i)]
      BY <1>6, <1>9, <3>1
    <3>3. QED
      BY <3>1, <3>2
  <2>3. QED
    BY <2>1, <2>2 DEF Suffix
<1>11. Outdated'
  <2> SUFFICES ASSUME strategy = "primary", NEW j \in 1..Dropped'
               PROVE  \E k \in 1..Len(seen') : seen'[j].ts + LongestLookback < seen'[k].ts
    BY DEF Outdated, LongestLookback
  <2>1. CASE j \in 1..Dropped
    <3>1. PICK k \in 1..Len(seen) : seen[j].ts + LongestLookback < seen[k].ts
      BY <2>1 DEF Pruned, Outdated
    <3>2. j \in 1..Len(seen) /\ k \in 1..Len(seen')
      BY <1>2, <1>5, <1>7, <2>1 DEF Dropped
    <3>3. QED
      BY <1>5, <3>1, <3>2
  <2>2. CASE j \in (Dropped + 1)..(Dropped + d)
    <3>1. j - Dropped \in 1..d /\ j - Dropped \in 1..Len(h) /\ Dropped + (j - Dropped) = j
      BY <1>3, <1>6, <1>7, <2>2
    <3>2. h[j - Dropped].ts + LongestLookback < ts /\ h[j - Dropped] = seen'[j]
      BY <1>6, <1>9, <3>1
    <3>3. Len(seen) + 1 \in 1..Len(seen') /\ seen'[Len(seen) + 1].ts = ts
      BY <1>1, <1>2, <1>5
    <3>4. QED
      BY <3>2, <3>3
  <2>3. QED
    BY <1>6, <1>7, <1>8, <2>1, <2>2
<1>12. LongEnough'
  <2>1. strategy = "donchian" /\ d = 0 => Dropped' = 0 \/ Len(history') >= LongestChannel
    BY <1>2, <1>7, <1>8, Longest DEF Pruned, LongEnough
  <2>2. strategy = "donchian" /\ d # 0 => Len(history') >= LongestChannel
    BY <1>6
  <2>3. QED
    BY <2>1, <2>2 DEF LongEnough, LongestChannel
<1>13. Timely'
  BY <1>1, <1>2, <1>5 DEF Pruned, Timely
<1>14. QED
  BY <1>5, <1>6, <1>10, <1>11, <1>12, <1>13 DEF Pruned, x

\* Seen from a tick that is not late, what a window covers was not dropped.
LEMMA WindowTail ==
    ASSUME SignalTypes, Pruned, strategy = "primary",
           NEW ts \in Nat, \A k \in 1..Len(seen) : seen[k].ts <= ts,
           NEW lookback \in Nat, lookback <= LongestLookback
    PROVE  /\ \A i \in Window(history, ts, lookback) :
                 Dropped + i \in Window(seen, ts, lookback) /\ history[i] = seen[Dropped + i]
           /\ \A j \in Window(seen, ts, lookback) :
                 /\ j - Dropped \in Window(history, ts, lookback)
                 /\ history[j - Dropped] = seen[j]
<1>1. /\ DOMAIN history = 1..Len(history) /\ DOMAIN seen = 1..Len(seen)
      /\ Len(history) \in Nat /\ Len(seen) \in Nat
      /\ \A j \in 1..Len(seen) : seen[j] \in Ticks
  BY LenProperties, ElementOfSeq DEF SignalTypes
<1>2. /\ Dropped \in Nat /\ Dropped + Len(history) = Len(seen)
      /\ \A i \in 1..Len(history) : history[i] = seen[Dropped + i]
  BY <1>1 DEF Pruned, Suffix, Dropped
<1>3. ASSUME NEW i \in Window(history, ts, lookback)
      PROVE  Dropped + i \in Window(seen, ts, lookback) /\ history[i] = seen[Dropped + i]
  <2>1. i \in 1..Len(history) /\ history[i].ts >= ts - lookback
    BY <1>1 DEF Window
  <2>2. Dropped + i \in 1..Len(seen) /\ history[i] = seen[Dropped + i]
    BY <1>1, <1>2, <2>1
  <2>3. QED
    BY <1>1, <2>1, <2>2 DEF Window
<1>4. ASSUME NEW j \in Window(seen, ts, lookback)
      PROVE  /\ j - Dropped \in Window(history, ts, lookback)
             /\ history[j - Dropped] = seen[j]
  <2>1. j \in 1..Len(seen) /\ seen[j].ts >= ts - lookback /\ seen[j].ts \in Nat
    BY <1>1 DEF Window, Ticks
  <2>2. j \notin 1..Dropped
    <3> SUFFICES ASSUME j \in 1..Dropped PROVE FALSE
      OBVIOUS
    <3>1. PICK k \in 1..Len(seen) : seen[j].ts + LongestLookback < seen[k].ts
      BY DEF Pruned, Outdated
    <3>2. seen[k].ts \in Nat /\ seen[k].ts <= ts
      BY <1>1 DEF Ticks
    <3>3. QED
      BY <2>1, <3>1, <3>2, Longest
  <2>3. j - Dropped \in 1..Len(history) /\ Dropped + (j - Dropped) = j
    BY <1>1, <1>2, <2>1, <2>2
  <2>4. history[j - Dropped] = seen[j]
    BY <1>2, <2>3
  <2>5. QED
    BY <1>1, <2>1, <2>3, <2>4 DEF Window
<1>5. QED
  BY <1>3, <1>4

\* The last bars of the history are the last bars handled.
LEMMA BarsTail ==
    ASSUME SignalTypes, Pruned, strategy = "donchian",
           NEW n \in Nat, n <= LongestChannel
    PROVE  /\ Len(history) >= n <=> Len(seen) >= n
           /\ \A i \in LastBars(history, n) :
                 Dropped + i \in LastBars(seen, n) /\ history[i] = seen[Dropped + i]
           /\ \A j \in LastBars(seen, n) : Len(history) >= n =>
                 j - Dropped \in LastBars(history, n) /\ history[j - Dropped] = seen[j]
<1>1. /\ DOMAIN history = 1..Len(history) /\ DOMAIN seen = 1..Len(seen)
      /\ Len(history) \in Nat /\ Len(seen) \in Nat
  BY LenProperties DEF SignalTypes
<1>2. /\ Dropped \in Nat /\ Dropped + Len(history) = Len(seen)
      /\ \A i \in 1..Len(history) : history[i] = seen[Dropped + i]
  BY <1>1 DEF Pruned, Suffix, Dropped
<1>3. Len(history) >= n <=> Len(seen) >= n
  BY <1>1, <1>2, Longest DEF Pruned, LongEnough
<1>4. ASSUME NEW i \in LastBars(history, n)
      PROVE  Dropped + i \in LastBars(seen, n) /\ history[i] = seen[Dropped + i]
  <2>1. i \in 1..Len(history) /\ i > Len(history) - n
    BY <1>1 DEF LastBars
  <2>2. Dropped + i \in 1..Len(seen) /\ Dropped + i > Len(seen) - n
    BY <1>1, <1>2, <2>1
  <2>3. QED
    BY <1>1, <1>2, <2>1, <2>2 DEF LastBars
<1>5. ASSUME NEW j \in LastBars(seen, n), Len(history) >= n
      PROVE  j - Dropped \in LastBars(history, n) /\ history[j - Dropped] = seen[j]
  <2>1. j \in 1..Len(seen) /\ j > Len(seen) - n
    BY <1>1 DEF LastBars
  <2>2. j - Dropped \in 1..Len(history) /\ j - Dropped > Len(history) - n /\ Dropped + (j - Dropped) = j
    BY <1>1, <1>2, <1>5, <2>1
  <2>3. QED
    BY <1>1, <1>2, <2>2 DEF LastBars
<1>6. QED
  BY <1>3, <1>4, <1>5

\* Hence the channel of the history is the channel of everything handled.
LEMMA ChannelSame ==
    ASSUME SignalTypes, Pruned, NEW ts \in Nat, \A k \in 1..Len(seen) : seen[k].ts <= ts,
           NEW close \in Nat
    PROVE  /\ BelowChannel(history, ts, close) <=> BelowChannel(seen, ts, close)
           /\ AboveChannel(history, ts, close) <=> AboveChannel(seen, ts, close)
<1>1. CASE strategy = "primary"
  <2>1. ASSUME NEW back \in {EntryLookback, ExitLookback}
        PROVE  /\ \A i \in Window(history, ts, back) :
                     Dropped + i \in Window(seen, ts, back) /\ history[i] = seen[Dropped + i]
               /\ \A j \in Window(seen, ts, back) :
                     j - Dropped \in Window(history, ts, back) /\ history[j - Dropped] = seen[j]
    BY <1>1, WindowTail, Longest, SignalAssumption
  <2>2. ASSUME NEW back \in {EntryLookback, ExitLookback}
        PROVE  Warm(history, ts, back) <=> Warm(seen, ts, back)
    BY <2>1 DEF Warm
  <2>3. BelowChannel(history, ts, close) <=> BelowChannel(seen, ts, close)
    BY <1>1, <2>1, <2>2 DEF BelowChannel
  <2>4. AboveChannel(history, ts, close) <=> AboveChannel(seen, ts, close)
    BY <1>1, <2>1, <2>2 DEF AboveChannel
  <2>5. QED
    BY <2>3, <2>4
<1>2. CASE strategy = "donchian"
  <2>1. ASSUME NEW n \in {EntryBars, ExitBars}
        PROVE  /\ Len(history) >= n <=> Len(seen) >= n
               /\ \A i \in LastBars(history, n) :
                     Dropped + i \in LastBars(seen, n) /\ history[i] = seen[Dropped + i]
               /\ \A j \in LastBars(seen, n) : Len(history) >= n =>
                     j - Dropped \in LastBars(history, n) /\ history[j - Dropped] = seen[j]
    BY <1>2, BarsTail, Longest, SignalAssumption
  <2>2. BelowChannel(history, ts, close) <=> BelowChannel(seen, ts, close)
    BY <1>2, <2>1 DEF BelowChannel
  <2>3. AboveChannel(history, ts, close) <=> AboveChannel(seen, ts, close)
    BY <1>2, <2>1 DEF AboveChannel
  <2>4. QED
    BY <2>2, <2>3
<1>3. QED
  BY <1>1, <1>2 DEF SignalTypes

LEMMA PrunedIsExact == SignalTypes /\ Pruned => PruningExact
<1> SUFFICES ASSUME SignalTypes, Pruned, NEW ts \in clock..(clock + 1), NEW bar \in Bars
             PROVE  /\ BelowChannel(history, ts, bar.close) <=> BelowChannel(seen, ts, bar.close)
                    /\ AboveChannel(history, ts, bar.close) <=> AboveChannel(seen, ts, bar.close)
  BY DEF PruningExact
<1>1. ts \in Nat /\ clock \in Nat /\ clock <= ts /\ bar.close \in Nat
  BY SignalAssumption DEF SignalTypes
<1>2. \A k \in 1..Len(seen) : seen[k].ts <= ts
  <2> SUFFICES ASSUME NEW k \in 1..Len(seen) PROVE seen[k].ts <= ts
    OBVIOUS
  <2>1. seen[k] \in Ticks /\ seen[k].ts <= clock
    BY ElementOfSeq DEF SignalTypes, Pruned, Timely
  <2>2. QED
    BY <1>1, <2>1 DEF Ticks
<1>3. QED
  BY <1>1, <1>2, ChannelSame

-----------------------------------------------------------------------------
(* Signals.                                                                 *)

\* What a signal on the tick x, coming after the ticks q, must have seen.
Watched(q, x, side) ==
    LET back == IF side = "BUY" THEN EntryLookback ELSE ExitLookback IN
    /\ \E j \in 1..Len(q) : q[j].ts <= x.ts - back
    /\ \A j \in 1..Len(q) : x.ts - q[j].ts <= back =>
          IF side = "BUY" THEN x.close > q[j].high ELSE x.close < q[j].low

\* SignalsJustified for one signal s on the ticks q.
Backed(q, s) ==
    (\A j \in 1..(s.place - 1) : q[j].ts <= q[s.place].ts) =>
       LET back == IF s.side = "BUY" THEN EntryLookback ELSE ExitLookback IN
       /\ \E j \in 1..(s.place - 1) : q[j].ts <= q[s.place].ts - back
       /\ \A j \in 1..(s.place - 1) : q[s.place].ts - q[j].ts <= back =>
             IF s.side = "BUY" THEN q[s.place].close > q[j].high
                               ELSE q[s.place].close < q[j].low

LEMMA JustifiedIsBacked ==
    SignalsJustified <=> (strategy = "primary" => \A k \in DOMAIN log : Backed(seen, log[k]))
BY DEF SignalsJustified, Backed, Newest

\* Later ticks take nothing from a signal.
LEMMA BackedStays ==
    ASSUME NEW q, NEW r, NEW s, s.place \in Nat, \A j \in 1..s.place : r[j] = q[j],
           s.place >= 1, Backed(q, s)
    PROVE  Backed(r, s)
<1>1. /\ r[s.place] = q[s.place]
      /\ \A j \in 1..(s.place - 1) : r[j] = q[j]
  OBVIOUS
<1>2. QED
  BY <1>1 DEF Backed

\* A price above the buffered high is above the high.
LEMMA BufferedHigh ==
    ASSUME NEW b \in Nat, NEW h \in Nat, NEW c \in Nat, 100 * c > (100 + b) * h
    PROVE  c > h
<1>1. b * h \in Nat /\ (100 + b) * h = 100 * h + b * h
  OBVIOUS
<1>2. QED
  BY <1>1

\* The decision to buy or sell, on a tick that is not late, rests on every
\* price handled in the lookback.
LEMMA DecisionWatched ==
    ASSUME SignalTypes, Pruned, strategy = "primary", NEW ts \in Nat, NEW bar \in Bars,
           \A k \in 1..Len(seen) : seen[k].ts <= ts
    PROVE  /\ Sells(ts, bar) => Watched(seen, Tick(ts, bar), "SELL")
           /\ Buys(ts, bar, FALSE) => Watched(seen, Tick(ts, bar), "BUY")
<1>1. bar.close \in Nat /\ Tick(ts, bar).ts = ts /\ Tick(ts, bar).close = bar.close
  BY SignalAssumption DEF Tick
<1>2. /\ BelowChannel(history, ts, bar.close) <=> BelowChannel(seen, ts, bar.close)
      /\ AboveChannel(history, ts, bar.close) <=> AboveChannel(seen, ts, bar.close)
  BY <1>1, ChannelSame
<1>3. /\ DOMAIN seen = 1..Len(seen) /\ EntryLookback \in Nat /\ ExitLookback \in Nat /\ Buffer \in Nat
      /\ \A j \in 1..Len(seen) : seen[j].ts \in Nat /\ seen[j].high \in Nat /\ seen[j].low \in Nat
  <2>1. DOMAIN seen = 1..Len(seen) /\ \A j \in 1..Len(seen) : seen[j] \in Ticks
    BY LenProperties, ElementOfSeq DEF SignalTypes
  <2>2. QED
    BY <2>1, SignalAssumption DEF Ticks
<1>4. ASSUME Sells(ts, bar) PROVE Watched(seen, Tick(ts, bar), "SELL")
  <2>1. /\ \E i \in 1..Len(seen) : ts - seen[i].ts >= ExitLookback
        /\ \A i \in 1..Len(seen) : seen[i].ts >= ts - ExitLookback => bar.close < seen[i].low
    BY <1>2, <1>3, <1>4 DEF Sells, BelowChannel, Warm, Window
  <2>2. QED
    BY <1>1, <1>3, <2>1 DEF Watched
<1>5. ASSUME Buys(ts, bar, FALSE) PROVE Watched(seen, Tick(ts, bar), "BUY")
  <2>1. /\ \E i \in 1..Len(seen) : ts - seen[i].ts >= EntryLookback
        /\ \A i \in 1..Len(seen) : seen[i].ts >= ts - EntryLookback =>
              100 * bar.close > (100 + Buffer) * seen[i].high
    BY <1>2, <1>3, <1>5 DEF Buys, AboveChannel, Warm, Window
  <2>2. \A i \in 1..Len(seen) : seen[i].ts >= ts - EntryLookback => bar.close > seen[i].high
    BY <1>1, <1>3, <2>1, BufferedHigh
  <2>3. QED
    BY <1>1, <1>3, <2>1, <2>2 DEF Watched
<1>6. QED
  BY <1>4, <1>5

\* A signal after a decision that was entitled to it.
LEMMA EmitStep ==
    ASSUME IInv, NEW ts \in 0..clock, NEW bar \in Bars, Remember(ts, bar),
           NEW side \in {"BUY", "SELL"}, Emit(side, ts), UNCHANGED <<strategy, clock>>,
           side = "BUY" => ~CoolingDown(ts),
           strategy = "primary" /\ (\A k \in 1..Len(seen) : seen[k].ts <= ts) =>
              Watched(seen, Tick(ts, bar), side)
    PROVE  IInv'
<1> DEFINE x == Tick(ts, bar)
           n == Len(log)
           p == Len(seen) + 1
<1>1. /\ SignalTypes /\ Pruned /\ Placed /\ LastIsLatest /\ EntriesSpaced /\ SignalsJustified
      /\ ts \in Nat /\ Cooldown \in Nat
  BY SignalAssumption DEF IInv, SignalTypes
<1>2. /\ history' \in Seq(Ticks) /\ seen' \in Seq(Ticks) /\ Pruned'
      /\ Len(seen') = p /\ seen'[p] = x
      /\ \A i \in 1..Len(seen) : seen'[i] = seen[i]
  BY <1>1, RememberStep
<1>3. /\ Len(seen) \in Nat /\ n \in Nat /\ DOMAIN log = 1..n
      /\ \A i \in 1..Len(seen) : seen[i].ts \in Nat
      /\ \A k \in 1..n : log[k].side \in {"BUY", "SELL"} /\ log[k].place \in 1..Len(seen)
  <2>1. /\ Len(seen) \in Nat /\ n \in Nat /\ DOMAIN log = 1..n
        /\ \A i \in 1..Len(seen) : seen[i] \in Ticks
        /\ \A k \in 1..n : log[k] \in Signals
    BY <1>1, LenProperties, ElementOfSeq DEF SignalTypes
  <2>2. QED
    BY <1>1, <2>1 DEF Ticks, Signals, Placed
<1>4. /\ log' \in Seq(Signals) /\ Len(log') = n + 1 /\ DOMAIN log' = 1..(n + 1)
      /\ log'[n + 1].side = side /\ log'[n + 1].place = p
      /\ \A k \in 1..n : log'[k] = log[k]
  <2> DEFINE s == [side |-> side, place |-> p]
  <2>1. s \in Signals /\ log \in Seq(Signals) /\ log' = Append(log, s)
    BY <1>1, <1>3 DEF Emit, Signals, SignalTypes
  <2> HIDE DEF s
  <2>2. /\ log' \in Seq(Signals) /\ Len(log') = n + 1 /\ log'[n + 1] = s
        /\ \A k \in 1..n : log'[k] = log[k]
    BY <2>1, AppendProperties
  <2>3. DOMAIN log' = 1..(n + 1)
    BY <2>2, LenProperties
  <2>4. QED
    BY <2>2, <2>3 DEF s
<1>5. x.ts = ts
  BY DEF Tick
<1>6. lastEntry' = (IF side = "BUY" THEN ts ELSE lastEntry) /\ open' \in BOOLEAN
  BY DEF Emit, Holding
<1>7. \A k \in 1..n : log[k].side = "BUY" =>
         /\ seen[log[k].place].ts <= lastEntry /\ lastEntry \in Nat
         /\ side = "BUY" => ts - seen[log[k].place].ts >= Cooldown
  BY <1>1, <1>3 DEF LastIsLatest, SignalTypes, CoolingDown
<1> HIDE DEF x, n, p
<1>8. SignalTypes'
  BY <1>1, <1>2, <1>4, <1>6 DEF SignalTypes
<1>9. Placed'
  <2> SUFFICES ASSUME NEW k \in 1..(n + 1) PROVE log'[k].place \in 1..Len(seen')
    BY <1>4 DEF Placed
  <2>1. CASE k \in 1..n
    BY <1>2, <1>3, <1>4, <2>1 DEF p
  <2>2. CASE k = n + 1
    BY <1>2, <1>3, <1>4, <2>2 DEF p
  <2>3. QED
    BY <1>3, <2>1, <2>2
<1>10. LastIsLatest'
  <2> SUFFICES ASSUME NEW k \in 1..(n + 1), log'[k].side = "BUY"
               PROVE  seen'[log'[k].place].ts <= lastEntry'
    BY <1>4 DEF LastIsLatest
  <2>1. CASE k \in 1..n
    <3>1. log'[k] = log[k] /\ seen'[log[k].place] = seen[log[k].place]
      BY <1>2, <1>3, <1>4, <2>1
    <3>2. QED
      BY <1>1, <1>3, <1>6, <1>7, <2>1, <3>1
  <2>2. CASE k = n + 1
    BY <1>1, <1>2, <1>4, <1>5, <1>6, <2>2
  <2>3. QED
    BY <1>3, <2>1, <2>2
<1>11. EntriesSpaced'
  <2> SUFFICES ASSUME NEW j \in 1..(n + 1), NEW k \in 1..(n + 1), j < k,
                      log'[j].side = "BUY", log'[k].side = "BUY"
               PROVE  seen'[log'[k].place].ts - seen'[log'[j].place].ts >= Cooldown
    BY <1>4 DEF EntriesSpaced
  <2>0. j \in 1..n /\ (k \in 1..n \/ k = n + 1)
    <3>1. n \in Nat
      BY <1>3
    <3>2. QED
      BY <3>1
  <2>1. j \in 1..n /\ log'[j] = log[j] /\ seen'[log[j].place] = seen[log[j].place]
    BY <1>2, <1>3, <1>4, <2>0
  <2>2. CASE k \in 1..n
    <3>1. log'[k] = log[k] /\ seen'[log[k].place] = seen[log[k].place]
      BY <1>2, <1>3, <1>4, <2>2
    <3>2. QED
      BY <1>1, <1>3, <2>1, <2>2, <3>1 DEF EntriesSpaced
  <2>3. CASE k = n + 1
    BY <1>2, <1>4, <1>5, <1>7, <2>1, <2>3
  <2>4. QED
    BY <2>0, <2>2, <2>3
<1>12. SignalsJustified'
  <2> SUFFICES ASSUME strategy = "primary", NEW k \in 1..(n + 1) PROVE Backed(seen', log'[k])
    BY <1>4 DEF SignalsJustified, Backed, Newest
  <2>1. CASE k \in 1..n
    <3>1. /\ log'[k] = log[k] /\ log[k].place \in Nat /\ log[k].place >= 1
          /\ \A j \in 1..log[k].place : seen'[j] = seen[j]
      <4>1. log'[k] = log[k] /\ log[k].place \in 1..Len(seen) /\ Len(seen) \in Nat
        BY <1>3, <1>4, <2>1
      <4>2. QED
        BY <1>2, <4>1
    <3>2. Backed(seen, log[k])
      BY <1>1, <1>3, <2>1, JustifiedIsBacked
    <3>3. QED
      BY <3>1, <3>2, BackedStays
  <2>2. CASE k = n + 1
    <3>1. log'[k].place = p /\ log'[k].side = side /\ p - 1 = Len(seen) /\ seen'[p] = x
      BY <1>2, <1>3, <1>4, <2>2 DEF p
    <3>2. SUFFICES ASSUME \A j \in 1..Len(seen) : seen'[j].ts <= ts
                   PROVE  Watched(seen, x, side)
      BY <1>2, <1>5, <3>1 DEF Backed, Watched
    <3>3. \A j \in 1..Len(seen) : seen[j].ts <= ts
      BY <1>2, <3>2
    <3>4. QED
      BY <3>3 DEF x
  <2>3. QED
    BY <1>3, <2>1, <2>2
<1>13. QED
  BY <1>2, <1>8, <1>9, <1>10, <1>11, <1>12 DEF IInv

\* A tick without a signal.
LEMMA PassStep ==
    ASSUME IInv, NEW ts \in 0..clock, NEW bar \in Bars, Remember(ts, bar),
           UNCHANGED <<strategy, clock, lastEntry, open, log>>
    PROVE  IInv'
<1>1. SignalTypes /\ Pruned /\ Placed /\ LastIsLatest /\ EntriesSpaced /\ SignalsJustified
  BY DEF IInv
<1>2. /\ history' \in Seq(Ticks) /\ seen' \in Seq(Ticks) /\ Pruned'
      /\ Len(seen') = Len(seen) + 1
      /\ \A i \in 1..Len(seen) : seen'[i] = seen[i]
  BY <1>1, RememberStep
<1>3. /\ Len(seen) \in Nat /\ DOMAIN log = 1..Len(log)
      /\ \A k \in 1..Len(log) : log[k].place \in 1..Len(seen)
  BY <1>1, LenProperties DEF SignalTypes, Placed
<1>4. SignalTypes' /\ Placed'
  BY <1>1, <1>2, <1>3 DEF SignalTypes, Placed
<1>5. LastIsLatest' /\ EntriesSpaced'
  BY <1>1, <1>2, <1>3 DEF LastIsLatest, EntriesSpaced
<1>6. SignalsJustified'
  <2> SUFFICES ASSUME strategy = "primary", NEW k \in 1..Len(log) PROVE Backed(seen', log[k])
    BY <1>3 DEF SignalsJustified, Backed, Newest
  <2>1. /\ log[k].place \in Nat /\ log[k].place >= 1
        /\ \A j \in 1..log[k].place : seen'[j] = seen[j]
    BY <1>2, <1>3
  <2>2. Backed(seen, log[k])
    BY <1>1, <1>3, JustifiedIsBacked
  <2>3. QED
    BY <2>1, <2>2, BackedStays
<1>7. QED
  BY <1>2, <1>4, <1>5, <1>6 DEF IInv
-----------------------------------------------------------------------------
(* Every step.                                                              *)

\* The time passes, and the market state comes and goes.
LEMMA QuietStep ==
    ASSUME IInv, UNCHANGED <<strategy, history, lastEntry, open, seen, log>>,
           clock' \in Nat, clock' >= clock
    PROVE  IInv'
<1>1. SignalTypes /\ Pruned /\ Placed /\ LastIsLatest /\ EntriesSpaced /\ SignalsJustified
  BY DEF IInv
<1>2. SignalTypes'
  BY <1>1 DEF SignalTypes
<1>3. Timely'
  <2> SUFFICES ASSUME NEW i \in 1..Len(seen) PROVE seen[i].ts <= clock'
    BY DEF Timely
  <2>1. seen[i] \in Ticks /\ seen[i].ts <= clock /\ clock \in Nat
    BY <1>1, ElementOfSeq DEF SignalTypes, Pruned, Timely
  <2>2. QED
    BY <2>1 DEF Ticks
<1>4. Dropped' = Dropped
  BY DEF Dropped
<1>5. Suffix' /\ Outdated' /\ LongEnough'
  BY <1>1, <1>4 DEF Pruned, Suffix, Outdated, LongEnough, LongestLookback, LongestChannel
<1>6. Placed' /\ LastIsLatest' /\ EntriesSpaced'
  BY <1>1 DEF Placed, LastIsLatest, EntriesSpaced
<1>7. SignalsJustified'
  BY <1>1, JustifiedIsBacked DEF SignalsJustified, Backed, Newest
<1>8. QED
  BY <1>2, <1>3, <1>5, <1>6, <1>7 DEF IInv, Pruned

\* A process that has handled nothing.
LEMMA ColdStart ==
    ASSUME strategy \in {"primary", "donchian"}, clock \in Nat, Cold
    PROVE  IInv
<1>1. /\ history = <<>> /\ lastEntry = -1 /\ open = FALSE /\ seen = <<>> /\ log = <<>>
      /\ Len(history) = 0 /\ Len(seen) = 0 /\ Len(log) = 0 /\ DOMAIN log = {}
  BY EmptySeq DEF Cold
<1>2. SignalTypes
  BY <1>1, EmptySeq DEF SignalTypes
<1>3. Pruned
  BY <1>1 DEF Pruned, Suffix, Outdated, LongEnough, Timely, Dropped
<1>4. Placed /\ LastIsLatest /\ EntriesSpaced /\ SignalsJustified
  BY <1>1 DEF Placed, LastIsLatest, EntriesSpaced, SignalsJustified
<1>5. QED
  BY <1>2, <1>3, <1>4 DEF IInv

LEMMA NextStep ==
    ASSUME IInv, [Next]_vars
    PROVE  IInv'
<1>1. SignalTypes /\ Pruned /\ clock \in Nat /\ MaxSkew \in Nat
  BY SignalAssumption DEF IInv, SignalTypes
<1>2. ASSUME NEW ts \in {t \in clock - MaxSkew .. clock : t >= 0}, NEW bar \in Bars,
             \/ Exit(ts, bar)
             \/ Enter(ts, bar)
             \/ \E blocked \in BOOLEAN : Pass(ts, bar, blocked)
      PROVE  IInv'
  <2>1. ts \in 0..clock /\ ts \in Nat
    BY <1>1
  <2>2. CASE Exit(ts, bar)
    <3>1. /\ Sells(ts, bar) /\ Remember(ts, bar) /\ Emit("SELL", ts)
          /\ UNCHANGED <<strategy, clock>>
      BY <2>2 DEF Exit
    <3>2. strategy = "primary" /\ (\A k \in 1..Len(seen) : seen[k].ts <= ts) =>
             Watched(seen, Tick(ts, bar), "SELL")
      BY <1>1, <2>1, <3>1, DecisionWatched
    <3>3. QED
      BY <2>1, <3>1, <3>2, EmitStep
  <2>3. CASE Enter(ts, bar)
    <3>1. /\ Buys(ts, bar, FALSE) /\ Remember(ts, bar) /\ Emit("BUY", ts)
          /\ UNCHANGED <<strategy, clock>>
      BY <2>3 DEF Enter
    <3>2. strategy = "primary" /\ (\A k \in 1..Len(seen) : seen[k].ts <= ts) =>
             Watched(seen, Tick(ts, bar), "BUY")
      BY <1>1, <2>1, <3>1, DecisionWatched
    <3>3. ~CoolingDown(ts)
      BY <3>1 DEF Buys
    <3>4. QED
      BY <2>1, <3>1, <3>2, <3>3, EmitStep
  <2>4. CASE \E blocked \in BOOLEAN : Pass(ts, bar, blocked)
    <3>1. Remember(ts, bar) /\ UNCHANGED <<strategy, clock, lastEntry, open, log>>
      BY <2>4 DEF Pass
    <3>2. QED
      BY <2>1, <3>1, PassStep
  <2>5. QED
    BY <1>2, <2>2, <2>3, <2>4
<1>3. ASSUME NEW trend \in BOOLEAN, WriteMarket(trend) PROVE IInv'
  BY <1>1, <1>3, QuietStep DEF WriteMarket
<1>4. CASE ExpireMarket
  BY <1>1, <1>4, QuietStep DEF ExpireMarket
<1>5. CASE Advance
  BY <1>1, <1>5, QuietStep DEF Advance
<1>6. CASE Restart
  <2>1. strategy' \in {"primary", "donchian"} /\ clock' \in Nat /\ Cold'
    BY <1>1, <1>6 DEF Restart, Cold, SignalTypes
  <2>2. (strategy \in {"primary", "donchian"} /\ clock \in Nat /\ Cold => IInv)'
    BY ColdStart, PTL
  <2>3. QED
    BY <2>1, <2>2
<1>7. CASE UNCHANGED vars
  BY <1>1, <1>7, QuietStep DEF vars
<1>8. QED
  BY <1>2, <1>3, <1>4, <1>5, <1>6, <1>7 DEF Next

-----------------------------------------------------------------------------
(* The theorems.                                                            *)

\* The pruned history stays the tail of what was handled, everything dropped is
\* out of reach, and the signals so far are justified and spaced.
THEOREM Sound == Spec => []IInv
<1>1. Init => IInv
  BY ColdStart DEF Init
<1>2. IInv /\ [Next]_vars => IInv'
  BY NextStep
<1>3. QED
  BY <1>1, <1>2, PTL DEF Spec

\* _update_breakout_history and _update_donchian_history never drop an entry
\* that a later tick in time could be judged by.
THEOREM PruningSafe == Spec => []PruningExact
<1>1. IInv => PruningExact
  BY PrunedIsExact DEF IInv
<1>2. QED
  BY <1>1, Sound, PTL

\* Every signal of the primary strategy on a tick in time is a breakout from
\* all prices of a full lookback, pruning, late ticks and restarts included.
THEOREM BreakoutsReal == Spec => []SignalsJustified
<1>1. IInv => SignalsJustified
  BY DEF IInv
<1>2. QED
  BY <1>1, Sound, PTL

\* Entries lie a cooldown apart, whatever the order the ticks come in.
THEOREM CooldownKept == Spec => []EntriesSpaced
<1>1. IInv => EntriesSpaced
  BY DEF IInv
<1>2. QED
  BY <1>1, Sound, PTL

===============================================================================

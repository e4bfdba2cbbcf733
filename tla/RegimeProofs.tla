---------------------------- MODULE RegimeProofs ----------------------------
(***************************************************************************)
(* Proofs about Regime, for any symbols, readings, number of confirmation  *)
(* bars, lookback, staleness and bounds.                                   *)
(***************************************************************************)
EXTENDS Regime, SequenceTheorems, WellFoundedInduction, TLAPS

Regimes == {"UNKNOWN", "HIGH_VOL_CHAOTIC", "TREND", "RANGE"}
Entries == [symbol : Symbols, ts : Nat, kind : AllKinds]
Announcements == [symbol : Symbols, ts : Nat \cup {Epoch}, regime : Regimes, at : Nat]
States == [at : Nat \cup {None}, regime : Regimes \cup {"none"}]

\* The streams and the market states.
StreamTypes ==
    /\ now \in Nat
    /\ candles \in Seq(Entries) /\ regimes \in Seq(Announcements)
    /\ pending \in [Symbols -> Nat \cup {None}] /\ market \in [Symbols -> States]
\* The two services.
ServiceTypes ==
    /\ last_id \in 0..Len(candles)
    /\ current_regime \in [Symbols -> Regimes \cup {Unset}]
    /\ candidate \in [Symbols -> Regimes \cup {"none"}]
    /\ count \in [Symbols -> Nat] /\ raws \in [Symbols -> Seq(Regimes)]
    /\ rlast \in 0..Len(regimes) /\ risk_off \in BOOLEAN
    /\ rpc \in {"start", "boot", "newest", "follow"}
Types == StreamTypes /\ ServiceTypes

\* A candidate has been read by the last count candles, and is not confirmed.
Agrees(q, n, r) == n <= Len(q) /\ \A i \in 1..Len(q) : i > Len(q) - n => q[i] = r
Counting ==
    \A y \in Symbols :
        /\ Len(raws[y]) <= ConfirmationBars
        /\ candidate[y] # "none" =>
              count[y] < ConfirmationBars /\ Agrees(raws[y], count[y], candidate[y])

\* The stream of regimes ends with what the regime service holds ...
Announced ==
    odd = {} =>
        /\ \A i \in 1..Len(regimes) : current_regime[regimes[i].symbol] # Unset
        /\ Len(regimes) > 0 =>
              regimes[Len(regimes)].regime = current_regime[regimes[Len(regimes)].symbol]
\* ... and the risk service with what it has read.
Followed == rpc = "follow" => rlast >= 1 /\ (risk_off <=> regimes[rlast].regime \in RiskOffRegimes)

\* The candles of a symbol are in order, and a candle to be enriched is the last.
CandlesOrdered ==
    /\ \A i, j \in 1..Len(candles) :
          i < j /\ candles[i].symbol = candles[j].symbol => candles[i].ts < candles[j].ts
    /\ \A i \in 1..Len(candles) : candles[i].ts <= now
    /\ \A y \in Symbols : pending[y] # None =>
          \A i \in 1..Len(candles) : candles[i].symbol = y => candles[i].ts <= pending[y]
\* So are the announcements of a symbol, which follow its candles.
Handled(e) == \E k \in 1..last_id : candles[k].symbol = e.symbol /\ candles[k].ts = e.ts
AnnouncementsOrdered ==
    "replay" \notin odd =>
        /\ \A i \in 1..Len(regimes) : regimes[i].ts # Epoch => Handled(regimes[i])
        /\ \A i, j \in 1..Len(regimes) :
              i < j /\ regimes[i].symbol = regimes[j].symbol /\ regimes[j].ts # Epoch =>
                  regimes[i].ts <= regimes[j].ts
\* A market state that allows trading is no younger than the last announcement
\* that forbids it.
MarketOlder ==
    /\ \A y \in Symbols : market[y].at <= now
    /\ "replay" \notin odd =>
         \A y \in Symbols : \A i \in LastOf(y) :
            market[y].regime \in {"TREND", "RANGE"} /\ regimes[i].regime \in RiskOffRegimes =>
                market[y].at <= regimes[i].at
MarketInv == CandlesOrdered /\ AnnouncementsOrdered /\ MarketOlder

IInv == Types /\ Counting /\ Announced /\ Followed /\ MarketInv
-----------------------------------------------------------------------------
(* Sequences and sets.                                                      *)

LEMMA GreatestInRange ==
    ASSUME NEW n \in Nat, NEW S \in SUBSET (1..n), S # {}
    PROVE  Max(S) \in S /\ \A i \in S : i <= Max(S)
<1> DEFINE R == OpToRel(<, Nat)
           D == {n - i : i \in S}
<1>1. IsWellFoundedOn(R, Nat)
  BY NatLessThanWellFounded, Zenon
<1>2. \A i, j \in Nat : i < j => <<i, j>> \in R
  BY DEF OpToRel
<1>3. D \in SUBSET Nat /\ D # {}
  OBVIOUS
<1> HIDE DEF R, D
<1>4. PICK d \in D : \A e \in D : ~(<<e, d>> \in R)
  BY <1>1, <1>3, WFMin
<1>5. PICK m \in S : d = n - m
  BY <1>4 DEF D
<1>6. ASSUME NEW i \in S PROVE m >= i
  <2>1. n - i \in D /\ n - i \in Nat /\ d \in Nat
    BY <1>3, <1>4 DEF D
  <2>2. ~(n - i < d)
    BY <1>2, <1>4, <2>1
  <2>3. i \in Nat /\ m \in Nat
    OBVIOUS
  <2>4. QED
    BY <1>5, <2>2, <2>3
<1>7. Max(S) \in S /\ \A i \in S : Max(S) >= i
  BY <1>6 DEF Max
<1>8. QED
  BY <1>7

\* The readings kept after one more of them.
LEMMA NewestReadings ==
    ASSUME NEW q \in Seq(Regimes), NEW r \in Regimes, Len(q) <= ConfirmationBars
    PROVE  LET p == Newest(Append(q, r)) IN
           /\ p \in Seq(Regimes) /\ Len(p) <= ConfirmationBars /\ Len(p) >= 1
           /\ Len(p) = Len(q) + 1 \/ Len(p) = ConfirmationBars
           /\ p[Len(p)] = r
           /\ \A i \in 1..(Len(p) - 1) : p[i] = q[i + (Len(q) + 1 - Len(p))]
<1> DEFINE a == Append(q, r)
           p == Newest(a)
           m == IF Len(a) > ConfirmationBars THEN Len(a) - ConfirmationBars + 1 ELSE 1
<1>1. /\ a \in Seq(Regimes) /\ Len(a) = Len(q) + 1 /\ a[Len(q) + 1] = r
      /\ \A i \in 1..Len(q) : a[i] = q[i] 
      /\ Len(q) \in Nat /\ ConfirmationBars \in Nat \ {0}
  BY AppendProperties, LenProperties, RegimeAssumption
<1>2. p = SubSeq(a, m, Len(a))
  BY DEF Newest
<1> HIDE DEF a, p
<1>3. m \in Int /\ Len(a) \in Int /\ m \in 1..Len(a) /\ Len(a) - m + 1 <= ConfirmationBars
      /\ (m = 1 \/ Len(a) - m + 1 = ConfirmationBars)
  BY <1>1
<1> HIDE DEF m
<1>4. \A i \in m..Len(a) : a[i] \in Regimes
  <2>1. \A i \in 1..Len(a) : a[i] \in Regimes
    BY <1>1, ElementOfSeq
  <2>2. QED
    BY <1>3, <2>1
<1>5. /\ p \in Seq(Regimes) /\ Len(p) = Len(a) - m + 1
      /\ \A i \in 1..(Len(a) - m + 1) : p[i] = a[m + i - 1]
  <2>1. m <= Len(a)
    BY <1>3
  <2>2. QED
    BY <1>2, <1>3, <1>4, <2>1, SubSeqProperties
<1>6. p[Len(p)] = r
  <2>1. Len(p) \in 1..(Len(a) - m + 1) /\ m + Len(p) - 1 = Len(q) + 1
    BY <1>1, <1>3, <1>5
  <2>2. QED
    BY <1>1, <1>5, <2>1
<1>7. \A i \in 1..(Len(p) - 1) : p[i] = q[i + (Len(q) + 1 - Len(p))]
  <2> SUFFICES ASSUME NEW i \in 1..(Len(p) - 1) PROVE p[i] = q[i + (Len(q) + 1 - Len(p))]
    OBVIOUS
  <2>1. i \in 1..(Len(a) - m + 1) /\ m + i - 1 \in 1..Len(q) /\ m + i - 1 = i + (Len(q) + 1 - Len(p))
    BY <1>1, <1>3, <1>5
  <2>2. QED
    BY <1>1, <1>5, <2>1
<1>8. QED
  BY <1>1, <1>3, <1>5, <1>6, <1>7 DEF p, a

-----------------------------------------------------------------------------
(* The regime service.                                                      *)

LEMMA RawRegime ==
    ASSUME NEW k \in AllKinds \ NoPrices, NEW r \in Regimes
    PROVE  ClassifyRawRegime(k, r) \in Regimes
BY DEF ClassifyRawRegime, AllKinds, NoPrices, Regimes

\* One more reading goes with the candidate, or starts one.
LEMMA CountedReading ==
    ASSUME Types, Counting, NEW y \in Symbols, NEW raw \in Regimes
    PROVE  /\ CountOf(y, raw) \in 1..ConfirmationBars
           /\ Newest(Append(raws[y], raw)) \in Seq(Regimes)
           /\ Len(Newest(Append(raws[y], raw))) <= ConfirmationBars
           /\ Agrees(Newest(Append(raws[y], raw)), CountOf(y, raw), raw)
<1> DEFINE q == raws[y]
           p == Newest(Append(q, raw))
           n == CountOf(y, raw)
<1>1. /\ q \in Seq(Regimes) /\ Len(q) \in Nat /\ count[y] \in Nat
      /\ ConfirmationBars \in Nat \ {0} /\ Len(q) <= ConfirmationBars
  BY LenProperties, RegimeAssumption DEF Types, ServiceTypes, Counting
<1>2. /\ p \in Seq(Regimes) /\ Len(p) <= ConfirmationBars /\ Len(p) >= 1 /\ Len(p) \in Nat
      /\ Len(p) = Len(q) + 1 \/ Len(p) = ConfirmationBars
      /\ p[Len(p)] = raw
      /\ \A i \in 1..(Len(p) - 1) : p[i] = q[i + (Len(q) + 1 - Len(p))]
  BY <1>1, NewestReadings, LenProperties
<1>3. \/ n = 1
      \/ /\ n = count[y] + 1 /\ count[y] < ConfirmationBars /\ count[y] <= Len(q)
         /\ \A i \in 1..Len(q) : i > Len(q) - count[y] => q[i] = raw
  <2>1. raw # "none"
    BY DEF Regimes
  <2>2. QED
    BY <2>1 DEF CountOf, Counting, Agrees
<1> HIDE DEF n, p, q
<1>4. n \in 1..ConfirmationBars /\ n <= Len(p)
  BY <1>1, <1>2, <1>3
<1>5. ASSUME NEW i \in 1..Len(p), i > Len(p) - n PROVE p[i] = raw
  <2>1. CASE i = Len(p)
    BY <1>2, <2>1
  <2>2. CASE i # Len(p)
    <3> DEFINE j == i + (Len(q) + 1 - Len(p))
    <3>1. i \in 1..(Len(p) - 1) /\ n # 1
      BY <1>2, <1>5, <2>2
    <3>2. j \in 1..Len(q) /\ j > Len(q) - count[y]
      BY <1>1, <1>2, <1>3, <1>5, <3>1
    <3>3. p[i] = q[j] /\ q[j] = raw
      BY <1>2, <1>3, <3>1, <3>2
    <3>4. QED
      BY <3>3
  <2>3. QED
    BY <2>1, <2>2
<1>6. QED
  BY <1>2, <1>4, <1>5 DEF Agrees, n, p, q
\* The candle the regime service takes next.
Hand == candles[last_id + 1]
Announcement(t) ==
    [symbol |-> Hand.symbol, ts |-> t, regime |-> current_regime'[Hand.symbol], at |-> now]

LEMMA HandType ==
    ASSUME Types, RegimeStep
    PROVE  Hand \in Entries /\ last_id' = last_id + 1 /\ last_id \in Nat /\ last_id + 1 \in 1..Len(candles)
<1>1. last_id \in Nat /\ Len(candles) \in Nat /\ candles \in Seq(Entries)
  BY LenProperties DEF Types, StreamTypes, ServiceTypes
<1>2. last_id' = last_id + 1 /\ last_id + 1 \in 1..Len(candles)
  BY <1>1 DEF RegimeStep
<1>3. QED
  BY <1>1, <1>2, ElementOfSeq DEF Hand

\* The cases of a step.
LEMMA RegimeStepCases ==
    ASSUME Types, RegimeStep
    PROVE  \/ Hand.kind \in NoPrices /\ HandleMissing(Hand)
           \/ /\ Hand.kind \notin NoPrices
              /\ NoEmit /\ UNCHANGED <<current_regime, candidate, count, raws>>
           \/ Hand.kind \notin NoPrices /\ DeriveRegime(Hand)
BY DEF RegimeStep, Hand

\* A change of regime is announced with the step that makes it, unless the
\* write fails; the first lookup of a symbol is no change.
LEMMA RegimeStepOutcome ==
    ASSUME Types, RegimeStep
    PROVE  /\ current_regime' \in [Symbols -> Regimes \cup {Unset}]
           /\ \A y \in Symbols : y # Hand.symbol => current_regime'[y] = current_regime[y]
           /\ \/ /\ regimes' = regimes /\ odd' = odd
                 /\ \/ current_regime'[Hand.symbol] = current_regime[Hand.symbol]
                    \/ current_regime[Hand.symbol] = Unset /\ current_regime'[Hand.symbol] = "UNKNOWN"
              \/ /\ odd' = odd /\ current_regime'[Hand.symbol] \in Regimes
                 /\ \E t \in {Hand.ts, Epoch} : regimes' = Append(regimes, Announcement(t))
              \/ regimes' = regimes /\ odd' = odd \cup {"fault"}
<1> DEFINE y == Hand.symbol
<1>1. /\ Hand \in Entries /\ y \in Symbols /\ Hand.kind \in AllKinds
      /\ current_regime \in [Symbols -> Regimes \cup {Unset}]
  BY HandType DEF Types, ServiceTypes, Entries
<1>2. CASE Hand.kind \in NoPrices /\ HandleMissing(Hand)
  <2>1. CASE current_regime[y] = "UNKNOWN"
    BY <1>1, <1>2, <2>1 DEF HandleMissing, NoEmit
  <2>2. CASE current_regime[y] # "UNKNOWN"
    <3> DEFINE t == IF Hand.kind = "undated" THEN Epoch ELSE Hand.ts
    <3>1. /\ current_regime' = [current_regime EXCEPT ![y] = "UNKNOWN"]
          /\ Emit([Hand EXCEPT !.ts = t], "UNKNOWN")
      BY <1>2, <2>2 DEF HandleMissing
    <3>2. /\ current_regime'[y] = "UNKNOWN" /\ current_regime' \in [Symbols -> Regimes \cup {Unset}]
          /\ \A z \in Symbols : z # y => current_regime'[z] = current_regime[z]
      BY <1>1, <3>1 DEF Regimes
    <3>3. [Hand EXCEPT !.ts = t].symbol = y /\ [Hand EXCEPT !.ts = t].ts = t
      BY <1>1 DEF Entries
    <3>4. t \in {Hand.ts, Epoch}
      OBVIOUS
    <3> HIDE DEF t
    <3>5. \/ regimes' = Append(regimes, Announcement(t)) /\ odd' = odd
          \/ regimes' = regimes /\ odd' = odd \cup {"fault"}
      BY <3>1, <3>2, <3>3 DEF Emit, Announcement
    <3>6. QED
      BY <3>2, <3>4, <3>5 DEF Regimes
  <2>3. QED
    BY <2>1, <2>2
<1>3. CASE /\ Hand.kind \notin NoPrices
           /\ NoEmit /\ UNCHANGED <<current_regime, candidate, count, raws>>
  BY <1>1, <1>3 DEF NoEmit
<1>4. CASE Hand.kind \notin NoPrices /\ DeriveRegime(Hand)
  <2> DEFINE raw == ClassifyRawRegime(Hand.kind, Current(y))
             n == CountOf(y, raw)
  <2>1. Current(y) \in Regimes /\ (current_regime[y] # Unset => Current(y) = current_regime[y])
        /\ (current_regime[y] = Unset => Current(y) = "UNKNOWN")
    BY <1>1 DEF Current, Regimes, Unset
  <2>2. raw \in Regimes
    BY <1>1, <1>4, <2>1, RawRegime
  <2>3. \/ /\ raw = Current(y) /\ current_regime' = [current_regime EXCEPT ![y] = raw]
           /\ Emit(Hand, raw) \/ NoEmit
        \/ current_regime' = [current_regime EXCEPT ![y] = Current(y)] /\ NoEmit
        \/ current_regime' = [current_regime EXCEPT ![y] = raw] /\ Emit(Hand, raw)
    <3> HIDE DEF raw, n
    <3>1. QED
      BY <1>4 DEF DeriveRegime, raw, n
  <2> HIDE DEF raw
  <2>4. PICK r \in Regimes : /\ current_regime' = [current_regime EXCEPT ![y] = r]
                             /\ Emit(Hand, r) \/ (NoEmit /\ r = Current(y))
    BY <2>1, <2>2, <2>3
  <2>5. /\ current_regime'[y] = r /\ current_regime' \in [Symbols -> Regimes \cup {Unset}]
        /\ \A z \in Symbols : z # y => current_regime'[z] = current_regime[z]
    BY <1>1, <2>4
  <2>6. CASE Emit(Hand, r)
    BY <2>5, <2>6 DEF Emit, Announcement
  <2>7. CASE NoEmit /\ r = Current(y)
    BY <2>1, <2>5, <2>7 DEF NoEmit
  <2>8. QED
    BY <2>4, <2>6, <2>7
<1>5. QED
  BY <1>2, <1>3, <1>4, RegimeStepCases

\* The count of a candidate goes with the readings, and only a candidate that
\* all of them agree on takes over.
LEMMA ConfirmStep ==
    ASSUME Types, Counting, RegimeStep
    PROVE  /\ candidate' \in [Symbols -> Regimes \cup {"none"}]
           /\ count' \in [Symbols -> Nat] /\ raws' \in [Symbols -> Seq(Regimes)] /\ Counting'
           /\ \A y \in Symbols :
                 current_regime'[y] \notin {current_regime[y], "UNKNOWN", Unset} =>
                     raws'[y] = [i \in 1..ConfirmationBars |-> current_regime'[y]]
<1> DEFINE y == Hand.symbol
           Switched(z) == current_regime'[z] \notin {current_regime[z], "UNKNOWN", Unset} =>
                             raws'[z] = [i \in 1..ConfirmationBars |-> current_regime'[z]]
<1>1. /\ y \in Symbols /\ Hand.kind \in AllKinds
      /\ current_regime \in [Symbols -> Regimes \cup {Unset}]
      /\ candidate \in [Symbols -> Regimes \cup {"none"}]
      /\ count \in [Symbols -> Nat] /\ raws \in [Symbols -> Seq(Regimes)]
  BY HandType DEF Types, ServiceTypes, Entries
<1>2. ConfirmationBars \in Nat \ {0}
  BY RegimeAssumption
<1>3. CASE Hand.kind \in NoPrices /\ HandleMissing(Hand)
  <2>1. /\ UNCHANGED <<candidate, count, raws>>
        /\ \/ current_regime' = current_regime
           \/ current_regime' = [current_regime EXCEPT ![y] = "UNKNOWN"]
    BY <1>3 DEF HandleMissing
  <2>2. Counting'
    BY <2>1 DEF Counting, Agrees
  <2>3. QED
    BY <1>1, <2>1, <2>2
<1>4. CASE /\ Hand.kind \notin NoPrices
           /\ NoEmit /\ UNCHANGED <<current_regime, candidate, count, raws>>
  <2>1. Counting'
    BY <1>4 DEF Counting, Agrees
  <2>2. QED
    BY <1>1, <1>4, <2>1
<1>5. CASE Hand.kind \notin NoPrices /\ DeriveRegime(Hand)
  <2> DEFINE raw == ClassifyRawRegime(Hand.kind, Current(y))
             n == CountOf(y, raw)
             p == Newest(Append(raws[y], raw))
  <2>1. Current(y) \in Regimes /\ Current(y) \in {current_regime[y], "UNKNOWN"}
    BY <1>1 DEF Current, Regimes, Unset
  <2>2. raw \in Regimes /\ raw # "none"
    <3>1. raw \in Regimes
      BY <1>1, <1>5, <2>1, RawRegime
    <3>2. QED
      BY <3>1 DEF Regimes
  <2> HIDE DEF raw
  <2>3. n \in 1..ConfirmationBars /\ p \in Seq(Regimes) /\ Len(p) <= ConfirmationBars /\ Agrees(p, n, raw)
    BY <1>1, <2>2, CountedReading
  <2>4. /\ raws' = [raws EXCEPT ![y] = p]
        /\ \/ /\ raw = Current(y)
              /\ candidate' = [candidate EXCEPT ![y] = "none"] /\ count' = [count EXCEPT ![y] = 0]
              /\ current_regime' = [current_regime EXCEPT ![y] = raw]
           \/ /\ ~Confirmed(n)
              /\ candidate' = [candidate EXCEPT ![y] = raw] /\ count' = [count EXCEPT ![y] = n]
              /\ current_regime' = [current_regime EXCEPT ![y] = Current(y)]
           \/ /\ Confirmed(n)
              /\ candidate' = [candidate EXCEPT ![y] = "none"] /\ count' = [count EXCEPT ![y] = 0]
              /\ current_regime' = [current_regime EXCEPT ![y] = raw]
    <3> HIDE DEF n, p
    <3>1. QED
      BY <1>5 DEF DeriveRegime, raw, n, p
  <2> HIDE DEF n, p
  <2>5. /\ raws' \in [Symbols -> Seq(Regimes)] /\ raws'[y] = p
        /\ \A z \in Symbols : z # y => raws'[z] = raws[z]
    BY <1>1, <2>3, <2>4
  <2>6. /\ candidate' \in [Symbols -> Regimes \cup {"none"}] /\ count' \in [Symbols -> Nat]
        /\ \A z \in Symbols : z # y => candidate'[z] = candidate[z] /\ count'[z] = count[z]
        /\ \/ candidate'[y] = "none"
           \/ candidate'[y] = raw /\ count'[y] = n /\ ~Confirmed(n)
    <3>1. n \in Nat
      BY <1>2, <2>3
    <3>2. PICK c \in Regimes \cup {"none"}, m \in Nat :
            /\ candidate' = [candidate EXCEPT ![y] = c] /\ count' = [count EXCEPT ![y] = m]
            /\ c = "none" \/ (c = raw /\ m = n /\ ~Confirmed(n))
      BY <2>2, <2>4, <3>1
    <3>3. QED
      BY <1>1, <3>2
  <2>7. Counting'
    <3> SUFFICES ASSUME NEW z \in Symbols
                 PROVE  /\ Len(raws'[z]) <= ConfirmationBars
                        /\ candidate'[z] # "none" =>
                              /\ count'[z] < ConfirmationBars
                              /\ Agrees(raws'[z], count'[z], candidate'[z])
      BY DEF Counting, Agrees
    <3>1. CASE z # y
      BY <2>5, <2>6, <3>1 DEF Counting
    <3>2. CASE z = y
      BY <1>2, <2>3, <2>5, <2>6, <3>2 DEF Confirmed
    <3>3. QED
      BY <3>1, <3>2
  <2>8. /\ \A z \in Symbols : z # y => current_regime'[z] = current_regime[z]
        /\ \/ current_regime'[y] \in {current_regime[y], "UNKNOWN"}
           \/ current_regime'[y] = raw /\ Confirmed(n)
    BY <1>1, <2>1, <2>4
  <2>9. Confirmed(n) => p = [i \in 1..ConfirmationBars |-> raw]
    <3> SUFFICES ASSUME Confirmed(n) PROVE p = [i \in 1..ConfirmationBars |-> raw]
      OBVIOUS
    <3>1. n = ConfirmationBars /\ Len(p) = ConfirmationBars
      BY <1>2, <2>3, LenProperties DEF Confirmed, Agrees
    <3>2. \A i \in 1..ConfirmationBars : p[i] = raw
      BY <1>2, <2>3, <3>1 DEF Agrees
    <3>3. p = [i \in 1..ConfirmationBars |-> p[i]]
      BY <2>3, <3>1, LenProperties
    <3>4. QED
      BY <3>2, <3>3
  <2>10. \A z \in Symbols : Switched(z)
    BY <2>5, <2>8, <2>9
  <2>11. QED
    BY <2>5, <2>6, <2>7, <2>10
<1>6. QED
  BY <1>3, <1>4, <1>5, RegimeStepCases
-----------------------------------------------------------------------------
(* The announcements and those who read them.                               *)

\* What a step of the regime service does to the stream of regimes.
LEMMA StreamGrows ==
    ASSUME Types, RegimeStep
    PROVE  /\ regimes' \in Seq(Announcements)
           /\ \/ regimes' = regimes
              \/ /\ odd' = odd /\ Len(regimes') = Len(regimes) + 1
                 /\ \A i \in 1..Len(regimes) : regimes'[i] = regimes[i]
                 /\ \E t \in {Hand.ts, Epoch} : regimes'[Len(regimes) + 1] = Announcement(t)
<1>1. regimes \in Seq(Announcements) /\ now \in Nat /\ Hand \in Entries
  BY HandType DEF Types, StreamTypes
<1>2. CASE regimes' = regimes
  BY <1>1, <1>2
<1>3. CASE /\ odd' = odd /\ current_regime'[Hand.symbol] \in Regimes
           /\ \E t \in {Hand.ts, Epoch} : regimes' = Append(regimes, Announcement(t))
  <2>1. PICK t \in {Hand.ts, Epoch} : regimes' = Append(regimes, Announcement(t))
    BY <1>3
  <2>2. Announcement(t) \in Announcements
    BY <1>1, <1>3 DEF Announcement, Announcements, Entries
  <2>3. /\ regimes' \in Seq(Announcements) /\ Len(regimes') = Len(regimes) + 1
        /\ \A i \in 1..Len(regimes) : regimes'[i] = regimes[i]
        /\ regimes'[Len(regimes) + 1] = Announcement(t)
    BY <1>1, <2>1, <2>2, AppendProperties
  <2>4. QED
    BY <1>3, <2>3
<1>4. QED
  BY <1>2, <1>3, RegimeStepOutcome

LEMMA AnnouncedStep ==
    ASSUME Types, Announced, RegimeStep
    PROVE  Announced'
<1> SUFFICES ASSUME odd' = {}
             PROVE  /\ \A i \in 1..Len(regimes') : current_regime'[regimes'[i].symbol] # Unset
                    /\ Len(regimes') > 0 =>
                          regimes'[Len(regimes')].regime = current_regime'[regimes'[Len(regimes')].symbol]
  BY DEF Announced
<1> DEFINE y == Hand.symbol
<1>1. /\ regimes \in Seq(Announcements) /\ Len(regimes) \in Nat
      /\ \A i \in 1..Len(regimes) : regimes[i] \in Announcements
  BY LenProperties, ElementOfSeq DEF Types, StreamTypes
<1>2. \A i \in 1..Len(regimes) : regimes[i].symbol \in Symbols
  BY <1>1 DEF Announcements
<1>3. odd' \in {odd, odd \cup {"fault"}}
  BY RegimeStepOutcome
<1>4. odd = {} /\ odd' = odd /\ odd' # odd \cup {"fault"}
  BY <1>3
<1>5. /\ \A i \in 1..Len(regimes) : current_regime[regimes[i].symbol] # Unset
      /\ Len(regimes) > 0 =>
            regimes[Len(regimes)].regime = current_regime[regimes[Len(regimes)].symbol]
  BY <1>4 DEF Announced
<1>6. CASE /\ regimes' = regimes
           /\ \/ current_regime'[y] = current_regime[y]
              \/ current_regime[y] = Unset /\ current_regime'[y] = "UNKNOWN"
  <2>1. \A z \in Symbols : current_regime[z] # Unset => current_regime'[z] = current_regime[z]
    BY <1>6, RegimeStepOutcome
  <2>2. \A i \in 1..Len(regimes) : current_regime'[regimes[i].symbol] = current_regime[regimes[i].symbol]
    BY <1>2, <1>5, <2>1
  <2>3. QED
    BY <1>1, <1>5, <1>6, <2>2
<1>7. CASE /\ current_regime'[y] \in Regimes
           /\ \E t \in {Hand.ts, Epoch} : regimes' = Append(regimes, Announcement(t))
  <2>1. PICK t \in {Hand.ts, Epoch} : regimes' = Append(regimes, Announcement(t))
    BY <1>7
  <2>2. /\ Len(regimes') = Len(regimes) + 1 /\ regimes'[Len(regimes) + 1] = Announcement(t)
        /\ \A i \in 1..Len(regimes) : regimes'[i] = regimes[i]
    BY <1>1, <2>1
  <2>3. Announcement(t).symbol = y /\ Announcement(t).regime = current_regime'[y]
    BY DEF Announcement
  <2>4. current_regime'[y] # Unset
    BY <1>7 DEF Regimes, Unset
  <2>5. \A z \in Symbols : current_regime[z] # Unset => current_regime'[z] # Unset
    BY <2>4, RegimeStepOutcome
  <2>6. ASSUME NEW i \in 1..Len(regimes') PROVE current_regime'[regimes'[i].symbol] # Unset
    <3>1. CASE i = Len(regimes) + 1
      BY <2>2, <2>3, <2>4, <3>1
    <3>2. CASE i \in 1..Len(regimes)
      BY <1>2, <1>5, <2>2, <2>5, <3>2
    <3>3. QED
      BY <1>1, <2>2, <3>1, <3>2
  <2>7. QED
    BY <2>2, <2>3, <2>6
<1>8. QED
  BY <1>4, <1>6, <1>7, RegimeStepOutcome

\* The listener of the risk service after any growth of the stream.
LEMMA FollowedStays ==
    ASSUME Types, Followed, UNCHANGED riskVars, \A i \in 1..Len(regimes) : regimes'[i] = regimes[i]
    PROVE  Followed'
<1>1. rpc = "follow" => rlast \in 1..Len(regimes)
  BY DEF Types, ServiceTypes, Followed
<1>2. QED
  BY <1>1 DEF Followed, riskVars, RiskOffRegimes

\* A step of the listener.
LEMMA ListenerStep ==
    ASSUME Types, Followed, RegimeBootstrap \/ RegimeUpdate \/ RegimeMissed
    PROVE  /\ Followed' /\ rlast' \in 0..Len(regimes) /\ risk_off' \in BOOLEAN
           /\ rpc' \in {"start", "boot", "newest", "follow"}
<1>1. /\ regimes \in Seq(Announcements) /\ Len(regimes) \in Nat /\ rlast \in Nat /\ rlast <= Len(regimes)
      /\ risk_off \in BOOLEAN /\ rpc \in {"start", "boot", "newest", "follow"}
  BY LenProperties DEF Types, StreamTypes, ServiceTypes
<1>2. CASE RegimeBootstrap
  <2>1. CASE regimes = <<>>
    BY <1>1, <1>2, <2>1 DEF RegimeBootstrap, Followed
  <2>2. CASE regimes # <<>>
    <3>1. Len(regimes) >= 1 /\ Last(regimes) = regimes[Len(regimes)]
      BY <1>1, <2>2, EmptySeq DEF Last
    <3>2. /\ rlast' = Len(regimes) /\ rpc' = "follow" /\ regimes' = regimes
          /\ risk_off' = (Last(regimes).regime \in RiskOffRegimes)
      BY <1>2, <2>2 DEF RegimeBootstrap
    <3>3. risk_off' \in BOOLEAN /\ (risk_off' <=> regimes[rlast'].regime \in RiskOffRegimes)
      <4> DEFINE off == Last(regimes).regime \in RiskOffRegimes
      <4>1. off \in BOOLEAN
        OBVIOUS
      <4>2. risk_off' = off /\ (off <=> regimes[rlast'].regime \in RiskOffRegimes)
        BY <3>1, <3>2
      <4> HIDE DEF off
      <4>3. QED
        BY <4>1, <4>2
    <3>4. QED
      BY <1>1, <3>1, <3>2, <3>3 DEF Followed
  <2>3. QED
    BY <2>1, <2>2
<1>3. CASE RegimeUpdate
  <2>1. /\ rlast' = rlast + 1 /\ rpc' = "follow" /\ regimes' = regimes /\ rlast < Len(regimes)
        /\ risk_off' = (regimes[rlast + 1].regime \in RiskOffRegimes)
    BY <1>3 DEF RegimeUpdate
  <2>2. risk_off' \in BOOLEAN /\ (risk_off' <=> regimes[rlast'].regime \in RiskOffRegimes)
    <3> DEFINE off == regimes[rlast + 1].regime \in RiskOffRegimes
    <3>1. off \in BOOLEAN
      OBVIOUS
    <3>2. risk_off' = off /\ (off <=> regimes[rlast'].regime \in RiskOffRegimes)
      BY <2>1
    <3> HIDE DEF off
    <3>3. QED
      BY <3>1, <3>2
  <2>3. QED
    BY <1>1, <2>1, <2>2 DEF Followed
<1>4. CASE RegimeMissed
  BY <1>1, <1>4 DEF RegimeMissed, Followed
<1>5. QED
  BY <1>2, <1>3, <1>4
-----------------------------------------------------------------------------
(* The market state.                                                        *)

LEMMA StreamFacts ==
    ASSUME Types
    PROVE  /\ Len(candles) \in Nat /\ Len(regimes) \in Nat /\ now \in Nat
           /\ DOMAIN regimes = 1..Len(regimes) /\ DOMAIN candles = 1..Len(candles)
           /\ last_id \in Nat /\ last_id <= Len(candles)
           /\ \A i \in 1..Len(candles) : candles[i].ts \in Nat /\ candles[i].symbol \in Symbols
           /\ \A i \in 1..Len(regimes) : /\ regimes[i].ts \in Nat \cup {Epoch}
                                         /\ regimes[i].symbol \in Symbols /\ regimes[i].at \in Nat
           /\ \A y \in Symbols : market[y].at \in Nat \cup {None} /\ pending[y] \in Nat \cup {None}
           /\ Epoch = -1000 /\ None = -1
<1>1. /\ Len(candles) \in Nat /\ Len(regimes) \in Nat /\ now \in Nat
      /\ DOMAIN regimes = 1..Len(regimes) /\ DOMAIN candles = 1..Len(candles)
      /\ \A i \in 1..Len(candles) : candles[i] \in Entries
      /\ \A i \in 1..Len(regimes) : regimes[i] \in Announcements
      /\ \A y \in Symbols : market[y] \in States /\ pending[y] \in Nat \cup {None}
  BY LenProperties, ElementOfSeq DEF Types, StreamTypes
<1>2. last_id \in Nat /\ last_id <= Len(candles)
  BY <1>1 DEF Types, ServiceTypes
<1>3. \A i \in 1..Len(candles) : candles[i].ts \in Nat /\ candles[i].symbol \in Symbols
  BY <1>1 DEF Entries
<1>4. \A i \in 1..Len(regimes) : /\ regimes[i].ts \in Nat \cup {Epoch}
                                 /\ regimes[i].symbol \in Symbols /\ regimes[i].at \in Nat
  BY <1>1 DEF Announcements
<1>5. \A y \in Symbols : market[y].at \in Nat \cup {None}
  BY <1>1 DEF States
<1>6. QED
  BY <1>1, <1>2, <1>3, <1>4, <1>5 DEF Epoch, None

\* Steps that leave the streams and the market state alone.
LEMMA MarketQuiet ==
    ASSUME Types, MarketInv, UNCHANGED <<candles, regimes, pending, market, last_id>>,
           now' \in Nat, now' >= now, "replay" \in odd => "replay" \in odd'
    PROVE  MarketInv'
<1>1. CandlesOrdered /\ AnnouncementsOrdered /\ MarketOlder
  BY DEF MarketInv
<1>2. CandlesOrdered'
  BY <1>1, StreamFacts DEF CandlesOrdered
<1>3. AnnouncementsOrdered'
  BY <1>1 DEF AnnouncementsOrdered, Handled
<1>4. MarketOlder'
  <2>1. \A y \in Symbols : market[y].at <= now'
    BY <1>1, StreamFacts DEF MarketOlder
  <2>2. \A y \in Symbols : LastOf(y)' = LastOf(y)
    BY DEF LastOf
  <2>3. QED
    BY <1>1, <2>1, <2>2 DEF MarketOlder, RiskOffRegimes
<1>5. QED
  BY <1>2, <1>3, <1>4 DEF MarketInv

\* The services start to read the candles anew: the order is lost.
LEMMA MarketReplayed ==
    ASSUME Types, MarketInv, UNCHANGED <<candles, regimes, pending, market, now>>, "replay" \in odd'
    PROVE  MarketInv'
BY DEF MarketInv, CandlesOrdered, AnnouncementsOrdered, MarketOlder

LEMMA CandleStep ==
    ASSUME Types, MarketInv, NEW y \in Symbols, NEW k \in Kinds, CandleClosed(y, k)
    PROVE  MarketInv' /\ candles' \in Seq(Entries) /\ pending' \in [Symbols -> Nat \cup {None}]
           /\ Len(candles') = Len(candles) + 1
<1> DEFINE c == [symbol |-> y, ts |-> now, kind |-> k]
           n == Len(candles)
<1>1. CandlesOrdered /\ AnnouncementsOrdered /\ MarketOlder
  BY DEF MarketInv
<1>2. c \in Entries /\ candles \in Seq(Entries) /\ pending \in [Symbols -> Nat \cup {None}]
  BY RegimeAssumption DEF Entries, Types, StreamTypes
<1>3. /\ candles' = Append(candles, c) /\ UNCHANGED <<now, regimes, market, last_id, odd>>
      /\ \A i \in 1..n : candles[i].symbol = y => candles[i].ts < now
      /\ pending[y] = None
      /\ pending' = [pending EXCEPT ![y] = IF k \in NoPrices THEN None ELSE now]
  BY StreamFacts DEF CandleClosed, regimeVars
<1> HIDE DEF c
<1>4. /\ candles' \in Seq(Entries) /\ Len(candles') = n + 1 /\ candles'[n + 1] = c
      /\ \A i \in 1..n : candles'[i] = candles[i]
  BY <1>2, <1>3, AppendProperties
<1>5. c.symbol = y /\ c.ts = now
  BY DEF c
<1>6. pending' \in [Symbols -> Nat \cup {None}]
  BY <1>2, <1>3, StreamFacts
<1>7. CandlesOrdered'
  <2>1. ASSUME NEW i \in 1..(n + 1), NEW j \in 1..(n + 1), i < j, candles'[i].symbol = candles'[j].symbol
        PROVE  candles'[i].ts < candles'[j].ts
    <3>1. i \in 1..n /\ (j \in 1..n \/ j = n + 1)
      <4>1. n \in Nat
        BY StreamFacts
      <4>2. QED
        BY <2>1, <4>1
    <3>2. CASE j \in 1..n
      BY <1>1, <1>4, <2>1, <3>1, <3>2 DEF CandlesOrdered
    <3>3. CASE j = n + 1
      BY <1>3, <1>4, <1>5, <2>1, <3>1, <3>3
    <3>4. QED
      BY <3>1, <3>2, <3>3
  <2>2. ASSUME NEW i \in 1..(n + 1) PROVE candles'[i].ts <= now
    <3>1. i \in 1..n \/ i = n + 1
      BY StreamFacts
    <3>2. QED
      BY <1>1, <1>4, <1>5, <3>1, StreamFacts DEF CandlesOrdered
  <2>3. ASSUME NEW z \in Symbols, pending'[z] # None, NEW i \in 1..(n + 1), candles'[i].symbol = z
        PROVE  candles'[i].ts <= pending'[z]
    <3>1. CASE z = y
      <4>1. pending'[z] = now
        BY <1>2, <1>3, <2>3, <3>1
      <4>2. QED
        BY <2>2, <4>1
    <3>2. CASE z # y
      <4>1. pending'[z] = pending[z] /\ i # n + 1
        BY <1>2, <1>3, <1>4, <1>5, <2>3, <3>2
      <4>2. i \in 1..n
        BY <4>1, StreamFacts
      <4>3. QED
        BY <1>1, <1>4, <2>3, <4>1, <4>2 DEF CandlesOrdered
    <3>3. QED
      BY <3>1, <3>2
  <2>4. QED
    BY <1>3, <1>4, <2>1, <2>2, <2>3 DEF CandlesOrdered
<1>8. AnnouncementsOrdered'
  <2>1. \A i \in 1..last_id : candles'[i] = candles[i]
    BY <1>4, StreamFacts
  <2>2. \A e : Handled(e) => Handled(e)'
    BY <1>3, <2>1 DEF Handled
  <2>3. QED
    BY <1>1, <1>3, <2>2 DEF AnnouncementsOrdered
<1>9. MarketOlder'
  <2>1. \A z \in Symbols : LastOf(z)' = LastOf(z)
    BY <1>3 DEF LastOf
  <2>2. QED
    BY <1>1, <1>3, <2>1 DEF MarketOlder, RiskOffRegimes
<1>10. QED
  BY <1>4, <1>6, <1>7, <1>8, <1>9 DEF MarketInv

\* _lookup_regime_id finds a regime that allows trading only if the last dated
\* announcement of the symbol is one.
LEMMA LookupNewest ==
    ASSUME Types, MarketInv, "replay" \notin odd, NEW y \in Symbols, pending[y] # None,
           LookupRegime(y, pending[y]) \in {"TREND", "RANGE"}, NEW i \in LastOf(y)
    PROVE  regimes[i].regime \notin RiskOffRegimes
<1> DEFINE ts == pending[y]
           recent == {j \in DOMAIN regimes : j > Len(regimes) - LookBack}
           valid == {j \in recent : regimes[j].symbol = y /\ ValidAt(ts, regimes[j])}
           m == Choice(valid)
<1>1. LookBack \in Nat /\ Staleness \in Nat
  BY RegimeAssumption
<1>2. valid # {} /\ regimes[m].regime \in {"TREND", "RANGE"}
  BY DEF LookupRegime
<1>3. valid \in SUBSET (1..Len(regimes))
  BY StreamFacts
<1>4. m \in valid /\ \A j \in valid : j <= m
  <2>1. Len(regimes) \in Nat
    BY StreamFacts
  <2> HIDE DEF valid
  <2>2. QED
    BY <1>2, <1>3, <2>1, GreatestInRange DEF Choice
<1>5. /\ m \in 1..Len(regimes) /\ m > Len(regimes) - LookBack
      /\ regimes[m].symbol = y /\ ValidAt(ts, regimes[m])
  BY <1>4, StreamFacts
<1> HIDE DEF m
<1>6. /\ i \in 1..Len(regimes) /\ regimes[i].symbol = y /\ regimes[i].ts # Epoch /\ m <= i
  BY <1>5, StreamFacts DEF LastOf
<1>7. SUFFICES ASSUME m # i PROVE FALSE
  BY <1>2 DEF RiskOffRegimes
<1>8. i > Len(regimes) - LookBack /\ m < i
  BY <1>1, <1>5, <1>6, <1>7, StreamFacts
<1>9. ~(i \in valid)
  <2>1. i # m /\ ~(i <= m)
    BY <1>5, <1>6, <1>8, StreamFacts
  <2> HIDE DEF valid
  <2>2. QED
    BY <1>4, <2>1
<1>10. ~ValidAt(ts, regimes[i])
  BY <1>6, <1>8, <1>9, StreamFacts
<1>11. regimes[m].ts <= regimes[i].ts
  BY <1>5, <1>6, <1>8 DEF MarketInv, AnnouncementsOrdered
<1>12. regimes[i].ts <= ts
  <2>1. PICK k \in 1..last_id : candles[k].symbol = y /\ candles[k].ts = regimes[i].ts
    BY <1>6 DEF MarketInv, AnnouncementsOrdered, Handled
  <2>2. k \in 1..Len(candles)
    BY StreamFacts
  <2>3. QED
    BY <2>1, <2>2 DEF MarketInv, CandlesOrdered
<1>13. regimes[m].ts \in Int /\ regimes[i].ts \in Int /\ ts \in Int
  BY <1>5, <1>6, StreamFacts
<1>14. QED
  BY <1>1, <1>5, <1>10, <1>11, <1>12, <1>13 DEF ValidAt

LEMMA MarketStep ==
    ASSUME Types, MarketInv, NEW y \in Symbols, UpdateMarketState(y)
    PROVE  MarketInv' /\ market' \in [Symbols -> States] /\ pending' \in [Symbols -> Nat \cup {None}]
<1>1. CandlesOrdered /\ AnnouncementsOrdered /\ MarketOlder
  BY DEF MarketInv
<1>2. /\ market \in [Symbols -> States] /\ pending \in [Symbols -> Nat \cup {None}] /\ now \in Nat
  BY DEF Types, StreamTypes
<1>3. /\ pending[y] # None /\ pending' = [pending EXCEPT ![y] = None]
      /\ UNCHANGED <<now, candles, regimes, last_id, odd>>
      /\ \/ market' = market
         \/ market' = [market EXCEPT ![y] = [at |-> now, regime |-> LookupRegime(y, pending[y])]]
  BY DEF UpdateMarketState, regimeVars
<1>4. LookupRegime(y, pending[y]) \in Regimes \cup {"none"}
  <2> DEFINE recent == {j \in DOMAIN regimes : j > Len(regimes) - LookBack}
             valid == {j \in recent : regimes[j].symbol = y /\ ValidAt(pending[y], regimes[j])}
  <2>1. CASE valid = {}
    BY <2>1 DEF LookupRegime
  <2>2. CASE valid # {}
    <3>1. valid \in SUBSET (1..Len(regimes))
      BY StreamFacts
    <3>2. Choice(valid) \in 1..Len(regimes)
      <4> HIDE DEF valid
      <4>1. QED
        BY <2>2, <3>1, GreatestInRange, StreamFacts DEF Choice
    <3>3. regimes[Choice(valid)] \in Announcements
      BY <3>2, ElementOfSeq DEF Types, StreamTypes
    <3>4. regimes[Choice(valid)].regime \in Regimes
      BY <3>3 DEF Announcements
    <3>5. LookupRegime(y, pending[y]) \in {"none", regimes[Choice(valid)].regime}
      BY DEF LookupRegime
    <3>6. QED
      BY <3>4, <3>5
  <2>3. QED
    BY <2>1, <2>2
<1>5. [at |-> now, regime |-> LookupRegime(y, pending[y])] \in States
  BY <1>2, <1>4 DEF States
<1>6. market' \in [Symbols -> States] /\ pending' \in [Symbols -> Nat \cup {None}]
  BY <1>2, <1>3, <1>5
<1>7. CandlesOrdered'
  BY <1>1, <1>2, <1>3 DEF CandlesOrdered
<1>8. AnnouncementsOrdered'
  BY <1>1, <1>3 DEF AnnouncementsOrdered, Handled
<1>9. MarketOlder'
  <2>1. \A z \in Symbols : LastOf(z)' = LastOf(z)
    BY <1>3 DEF LastOf
  <2>2. ASSUME NEW z \in Symbols
        PROVE  /\ market'[z].at <= now
               /\ "replay" \notin odd => \A i \in LastOf(z) :
                     market'[z].regime \in {"TREND", "RANGE"} /\ regimes[i].regime \in RiskOffRegimes =>
                        market'[z].at <= regimes[i].at
    <3>1. CASE market'[z] = market[z]
      BY <1>1, <3>1 DEF MarketOlder
    <3>2. CASE z = y /\ market'[z] = [at |-> now, regime |-> LookupRegime(y, pending[y])]
      <4>1. market'[z].at = now /\ market'[z].regime = LookupRegime(y, pending[y])
        BY <3>2
      <4>2. QED
        BY <1>2, <1>3, <3>2, <4>1, LookupNewest
    <3>3. QED
      BY <1>2, <1>3, <3>1, <3>2
  <2>3. QED
    BY <1>3, <2>1, <2>2 DEF MarketOlder, RiskOffRegimes
<1>10. QED
  BY <1>6, <1>7, <1>8, <1>9 DEF MarketInv
LEMMA ServiceMarketStep ==
    ASSUME Types, MarketInv, RegimeStep
    PROVE  MarketInv'
<1> DEFINE n == Len(regimes)
<1>1. CandlesOrdered /\ AnnouncementsOrdered /\ MarketOlder
  BY DEF MarketInv
<1>2. UNCHANGED <<now, candles, pending, market>>
  BY DEF RegimeStep
<1>3. /\ Hand.symbol \in Symbols /\ Hand.ts \in Nat /\ last_id' = last_id + 1
      /\ last_id \in Nat /\ last_id + 1 \in 1..Len(candles)
  BY HandType DEF Entries
<1>4. "replay" \notin odd' => "replay" \notin odd
  BY RegimeStepOutcome
<1>5. CandlesOrdered'
  BY <1>1, <1>2 DEF CandlesOrdered
<1>6. \A e : Handled(e) => Handled(e)'
  BY <1>2, <1>3 DEF Handled
<1>7. CASE regimes' = regimes
  <2>1. AnnouncementsOrdered'
    BY <1>1, <1>4, <1>6, <1>7 DEF AnnouncementsOrdered
  <2>2. \A y \in Symbols : LastOf(y)' = LastOf(y)
    BY <1>7 DEF LastOf
  <2>3. MarketOlder'
    BY <1>1, <1>2, <1>4, <1>7, <2>2 DEF MarketOlder, RiskOffRegimes
  <2>4. QED
    BY <1>5, <2>1, <2>3 DEF MarketInv
<1>8. CASE /\ Len(regimes') = n + 1
           /\ \A i \in 1..n : regimes'[i] = regimes[i]
           /\ \E t \in {Hand.ts, Epoch} : regimes'[n + 1] = Announcement(t)
  <2>1. PICK t \in {Hand.ts, Epoch} : regimes'[n + 1] = Announcement(t)
    BY <1>8
  <2>2. /\ regimes'[n + 1].symbol = Hand.symbol /\ regimes'[n + 1].ts = t
        /\ regimes'[n + 1].at = now
    BY <2>1 DEF Announcement
  <2>3. n \in Nat /\ Epoch = -1000
    BY StreamFacts
  <2>4. ASSUME "replay" \notin odd, NEW i \in 1..(n + 1), regimes'[i].ts # Epoch
        PROVE  \E k \in 1..(last_id + 1) :
                   candles[k].symbol = regimes'[i].symbol /\ candles[k].ts = regimes'[i].ts
    <3>1. CASE i \in 1..n
      <4>1. PICK k \in 1..last_id : candles[k].symbol = regimes[i].symbol /\ candles[k].ts = regimes[i].ts
        BY <1>1, <1>8, <2>4, <3>1 DEF AnnouncementsOrdered, Handled
      <4>2. k \in 1..(last_id + 1)
        BY <1>3
      <4>3. QED
        BY <1>8, <3>1, <4>1, <4>2
    <3>2. CASE i = n + 1
      <4>1. last_id + 1 \in 1..(last_id + 1) /\ t = Hand.ts
        BY <1>3, <2>2, <2>4, <3>2
      <4>2. QED
        BY <2>2, <3>2, <4>1 DEF Hand
    <3>3. QED
      BY <2>3, <3>1, <3>2
  <2>5. ASSUME "replay" \notin odd, NEW i \in 1..(n + 1), NEW j \in 1..(n + 1), i < j,
               regimes'[i].symbol = regimes'[j].symbol, regimes'[j].ts # Epoch
        PROVE  regimes'[i].ts <= regimes'[j].ts
    <3>1. i \in 1..n /\ (j \in 1..n \/ j = n + 1)
      BY <2>3, <2>5
    <3>2. CASE j \in 1..n
      BY <1>1, <1>8, <2>5, <3>1, <3>2 DEF AnnouncementsOrdered
    <3>3. CASE j = n + 1
      <4>1. regimes[i].symbol = Hand.symbol /\ regimes'[i] = regimes[i] /\ regimes'[j].ts = Hand.ts
        BY <1>8, <2>2, <2>5, <3>1, <3>3
      <4>2. CASE regimes[i].ts = Epoch
        BY <1>3, <2>3, <4>1, <4>2
      <4>3. CASE regimes[i].ts # Epoch
        <5>1. PICK k \in 1..last_id : candles[k].symbol = regimes[i].symbol /\ candles[k].ts = regimes[i].ts
          BY <1>1, <2>5, <3>1, <4>3 DEF AnnouncementsOrdered, Handled
        <5>2. k \in 1..Len(candles) /\ k < last_id + 1
          BY <1>3, StreamFacts
        <5>3. candles[k].ts < candles[last_id + 1].ts
          BY <1>1, <1>3, <4>1, <5>1, <5>2 DEF CandlesOrdered, Hand
        <5>4. candles[k].ts < Hand.ts /\ candles[k].ts \in Nat
          BY <5>2, <5>3, StreamFacts DEF Hand
        <5>5. QED
          BY <1>3, <4>1, <5>1, <5>4
      <4>4. QED
        BY <4>2, <4>3
    <3>4. QED
      BY <3>1, <3>2, <3>3
  <2>6. AnnouncementsOrdered'
    BY <1>2, <1>3, <1>4, <1>8, <2>4, <2>5 DEF AnnouncementsOrdered, Handled
  <2>7. ASSUME NEW y \in Symbols, NEW i \in LastOf(y)', i \in 1..n PROVE i \in LastOf(y)
    <3>1. DOMAIN regimes = 1..n /\ DOMAIN regimes' = 1..(n + 1)
      BY <1>8, StreamGrows, StreamFacts, LenProperties
    <3>2. /\ regimes'[i].symbol = y /\ regimes'[i].ts # Epoch
          /\ \A j \in 1..(n + 1) : regimes'[j].symbol = y => j <= i
      BY <3>1 DEF LastOf
    <3>3. \A j \in 1..n : j \in 1..(n + 1)
      BY <2>3
    <3>4. QED
      BY <1>8, <2>7, <3>1, <3>2, <3>3 DEF LastOf
  <2>8. MarketOlder'
    <3>1. \A y \in Symbols : market'[y].at <= now'
      BY <1>1, <1>2 DEF MarketOlder
    <3>2. ASSUME "replay" \notin odd, NEW y \in Symbols, NEW i \in LastOf(y)',
                 market[y].regime \in {"TREND", "RANGE"}, regimes'[i].regime \in RiskOffRegimes
          PROVE  market[y].at <= regimes'[i].at
      <4>1. i \in 1..(n + 1)
        BY <1>8, StreamGrows, LenProperties DEF LastOf
      <4>2. CASE i = n + 1
        BY <1>1, <2>2, <4>2 DEF MarketOlder
      <4>3. CASE i \in 1..n
        BY <1>1, <1>8, <2>7, <3>2, <4>3 DEF MarketOlder
      <4>4. QED
        BY <2>3, <4>1, <4>2, <4>3
    <3>3. QED
      BY <1>2, <1>4, <3>1, <3>2 DEF MarketOlder, RiskOffRegimes
  <2>9. QED
    BY <1>5, <2>6, <2>8 DEF MarketInv
<1>9. QED
  BY <1>7, <1>8, StreamGrows

-----------------------------------------------------------------------------
(* Every step.                                                              *)

LEMMA InitInv == Init => IInv
<1> SUFFICES ASSUME Init PROVE IInv
  OBVIOUS
<1>1. /\ candles = <<>> /\ regimes = <<>> /\ Len(candles) = 0 /\ Len(regimes) = 0
      /\ candles \in Seq(Entries) /\ regimes \in Seq(Announcements)
      /\ <<>> \in Seq(Regimes) /\ DOMAIN regimes = {} /\ Len(<<>>) = 0
  BY EmptySeq DEF Init
<1>2. Types
  <2>1. NoMarket \in States
    BY DEF NoMarket, States
  <2>2. StreamTypes
    BY <1>1, <2>1 DEF Init, StreamTypes
  <2>3. ServiceTypes
    <3>1. raws \in [Symbols -> Seq(Regimes)] /\ count \in [Symbols -> Nat]
      BY <1>1 DEF Init
    <3>2. /\ current_regime \in [Symbols -> Regimes \cup {Unset}]
          /\ candidate \in [Symbols -> Regimes \cup {"none"}]
      BY DEF Init
    <3>3. last_id = 0 /\ rlast = 0 /\ risk_off = FALSE /\ rpc = "start"
      BY DEF Init
    <3>4. last_id \in 0..Len(candles) /\ rlast \in 0..Len(regimes)
      BY <1>1, <3>3
    <3>5. QED
      BY <3>1, <3>2, <3>3, <3>4 DEF ServiceTypes
  <2>4. QED
    BY <2>2, <2>3 DEF Types
<1>3. Counting
  BY <1>1, RegimeAssumption DEF Init, Counting
<1>4. Announced /\ Followed
  BY <1>1 DEF Init, Announced, Followed
<1>5. CandlesOrdered /\ AnnouncementsOrdered
  BY <1>1 DEF Init, CandlesOrdered, AnnouncementsOrdered
<1>6. MarketOlder
  BY <1>1 DEF Init, MarketOlder, LastOf, NoMarket, None
<1>7. QED
  BY <1>2, <1>3, <1>4, <1>5, <1>6 DEF IInv, MarketInv

\* The parts of the invariant that only the regime service touches.
LEMMA ServiceQuiet ==
    ASSUME IInv, UNCHANGED <<regimes, current_regime, candidate, count, raws>>,
           odd \subseteq odd'
    PROVE  Counting' /\ Announced'
<1>1. Counting'
  BY DEF IInv, Counting, Agrees
<1>2. Announced'
  BY DEF IInv, Announced
<1>3. QED
  BY <1>1, <1>2

LEMMA NextStep ==
    ASSUME IInv, [Next]_vars
    PROVE  IInv'
<1>1. Types /\ Counting /\ Announced /\ Followed /\ MarketInv /\ StreamTypes /\ ServiceTypes
  BY DEF IInv, Types
<1>2. ASSUME NEW y \in Symbols, NEW k \in Kinds, CandleClosed(y, k) PROVE IInv'
  <2>1. MarketInv' /\ candles' \in Seq(Entries) /\ pending' \in [Symbols -> Nat \cup {None}]
        /\ Len(candles') = Len(candles) + 1
    BY <1>1, <1>2, CandleStep
  <2>2. UNCHANGED <<now, regimes, market, regimeVars, riskVars, faults, restarts, odd>>
    BY <1>2 DEF CandleClosed
  <2>3. Types'
    BY <1>1, <2>1, <2>2, StreamFacts DEF Types, StreamTypes, ServiceTypes, regimeVars, riskVars
  <2>4. Counting' /\ Announced' /\ Followed'
    BY <1>1, <2>2, ServiceQuiet, FollowedStays DEF regimeVars
  <2>5. QED
    BY <2>1, <2>3, <2>4 DEF IInv
<1>3. ASSUME NEW y \in Symbols, UpdateMarketState(y) PROVE IInv'
  <2>1. MarketInv' /\ market' \in [Symbols -> States] /\ pending' \in [Symbols -> Nat \cup {None}]
    BY <1>1, <1>3, MarketStep
  <2>2. UNCHANGED <<now, candles, regimes, regimeVars, riskVars, faults, restarts, odd>>
    BY <1>3 DEF UpdateMarketState
  <2>3. Types'
    BY <1>1, <2>1, <2>2 DEF Types, StreamTypes, ServiceTypes, regimeVars, riskVars
  <2>4. Counting' /\ Announced' /\ Followed'
    BY <1>1, <2>2, ServiceQuiet, FollowedStays DEF regimeVars
  <2>5. QED
    BY <2>1, <2>3, <2>4 DEF IInv
<1>4. CASE RegimeStep
  <2>1. UNCHANGED <<now, candles, pending, market, riskVars, restarts>>
    BY <1>4 DEF RegimeStep
  <2>2. /\ candidate' \in [Symbols -> Regimes \cup {"none"}]
        /\ count' \in [Symbols -> Nat] /\ raws' \in [Symbols -> Seq(Regimes)] /\ Counting'
    BY <1>1, <1>4, ConfirmStep
  <2>3. /\ regimes' \in Seq(Announcements) /\ \A i \in 1..Len(regimes) : regimes'[i] = regimes[i]
        /\ Len(regimes') \in {Len(regimes), Len(regimes) + 1}
    BY <1>1, <1>4, StreamGrows
  <2>4. Announced' /\ MarketInv' /\ Followed'
    BY <1>1, <1>4, <2>1, <2>3, AnnouncedStep, ServiceMarketStep, FollowedStays
  <2>5. current_regime' \in [Symbols -> Regimes \cup {Unset}] /\ last_id' \in 0..Len(candles)
    BY <1>1, <1>4, RegimeStepOutcome, HandType
  <2>6. rlast \in 0..Len(regimes')
    BY <1>1, <2>3, StreamFacts DEF ServiceTypes
  <2>7. Types'
    BY <1>1, <2>1, <2>2, <2>3, <2>5, <2>6 DEF Types, StreamTypes, ServiceTypes, riskVars
  <2>8. QED
    BY <2>2, <2>4, <2>7 DEF IInv
<1>5. CASE RegimeRestart
  <2>1. UNCHANGED <<now, candles, regimes, pending, market, riskVars, faults>> /\ "replay" \in odd'
    BY <1>5 DEF RegimeRestart
  <2>2. /\ last_id' = 0 /\ current_regime' = [y \in Symbols |-> Unset]
        /\ candidate' = [y \in Symbols |-> "none"] /\ count' = [y \in Symbols |-> 0]
        /\ raws' = [y \in Symbols |-> <<>>]
    BY <1>5 DEF RegimeRestart
  <2>3. <<>> \in Seq(Regimes) /\ Len(<<>>) = 0
    BY EmptySeq
  <2>4. Types'
    BY <1>1, <2>1, <2>2, <2>3, StreamFacts DEF Types, StreamTypes, ServiceTypes, riskVars
  <2>5. Counting'
    BY <2>2, <2>3, RegimeAssumption DEF Counting
  <2>6. MarketInv' /\ Followed' /\ Announced'
    BY <1>1, <2>1, MarketReplayed, FollowedStays DEF Announced
  <2>7. QED
    BY <2>4, <2>5, <2>6 DEF IInv
<1>6. CASE RegimeBootstrap \/ RegimeUpdate \/ RegimeMissed
  <2>1. /\ Followed' /\ rlast' \in 0..Len(regimes) /\ risk_off' \in BOOLEAN
        /\ rpc' \in {"start", "boot", "newest", "follow"}
    BY <1>1, <1>6, ListenerStep
  <2>2. UNCHANGED <<now, candles, regimes, pending, market, regimeVars>>
        /\ odd \subseteq odd'
    BY <1>6 DEF RegimeBootstrap, RegimeUpdate, RegimeMissed
  <2>3. Types'
    BY <1>1, <2>1, <2>2 DEF Types, StreamTypes, ServiceTypes, regimeVars
  <2>4. Counting' /\ Announced' /\ MarketInv'
    BY <1>1, <2>2, ServiceQuiet, MarketQuiet, StreamFacts DEF regimeVars
  <2>5. QED
    BY <2>1, <2>3, <2>4 DEF IInv
<1>7. CASE RegimeThreadStarts \/ RiskRestart
  <2>1. /\ UNCHANGED <<now, candles, regimes, pending, market, regimeVars, odd>>
        /\ rpc' \in {"boot", "start"} /\ risk_off' \in BOOLEAN /\ rlast' \in {0, rlast}
    BY <1>7 DEF RegimeThreadStarts, RiskRestart
  <2>2. Types' /\ Followed'
    BY <1>1, <2>1, StreamFacts DEF Types, StreamTypes, ServiceTypes, regimeVars, Followed
  <2>3. Counting' /\ Announced' /\ MarketInv'
    BY <1>1, <2>1, ServiceQuiet, MarketQuiet, StreamFacts DEF regimeVars
  <2>4. QED
    BY <2>2, <2>3 DEF IInv
<1>8. CASE Tick \/ UNCHANGED vars
  <2>1. /\ UNCHANGED <<candles, regimes, pending, market, regimeVars, riskVars, odd>>
        /\ now' \in Nat /\ now' >= now
    BY <1>1, <1>8, StreamFacts DEF Tick, vars
  <2>2. Types'
    BY <1>1, <2>1 DEF Types, StreamTypes, ServiceTypes, regimeVars, riskVars
  <2>3. Counting' /\ Announced' /\ MarketInv' /\ Followed'
    BY <1>1, <2>1, ServiceQuiet, MarketQuiet, FollowedStays DEF regimeVars
  <2>4. QED
    BY <2>2, <2>3 DEF IInv
<1>9. QED
  BY <1>2, <1>3, <1>4, <1>5, <1>6, <1>7, <1>8 DEF Next
-----------------------------------------------------------------------------
(* The theorems.                                                            *)

\* The invariant of the three services: the candidate's count matches the
\* readings, the stream of regimes ends with what the regime service holds, the
\* risk service holds what it has read, and a market state that allows trading
\* is older than a later announcement that forbids it.
THEOREM Coherent == Spec => []IInv
<1>1. Init => IInv
  BY InitInv
<1>2. IInv /\ [Next]_vars => IInv'
  BY NextStep
<1>3. QED
  BY <1>1, <1>2, PTL DEF Spec

\* _derive_regime switches to a known regime only after confirmation_bars
\* readings in a row, however candles without prices come between them.
THEOREM SwitchesConfirmed == Spec => SwitchConfirmed
<1> DEFINE Step == \A y \in Symbols :
               current_regime'[y] \notin {current_regime[y], "UNKNOWN", Unset} =>
                   raws'[y] = [i \in 1..ConfirmationBars |-> current_regime'[y]]
<1>1. IInv /\ [Next]_vars => [Step]_vars
  <2> SUFFICES ASSUME IInv, Next PROVE Step
    OBVIOUS
  <2>1. Types /\ Counting
    BY DEF IInv
  <2>2. CASE RegimeStep
    BY <2>1, <2>2, ConfirmStep
  <2>3. CASE RegimeRestart
    BY <2>3 DEF RegimeRestart
  <2>4. CASE current_regime' = current_regime
    BY <2>4
  <2>5. QED
    BY <2>2, <2>3, <2>4 DEF Next, CandleClosed, UpdateMarketState, RegimeThreadStarts,
       RegimeBootstrap, RegimeUpdate, RegimeMissed, RiskRestart, Tick, regimeVars
<1>2. QED
  BY <1>1, Coherent, PTL DEF Spec, SwitchConfirmed

\* A risk service that has caught up has risk off exactly when the regime
\* service holds a chaotic or unknown regime for the symbol announced last.
THEOREM RiskOffTracks == Spec => []RiskOffFollows
<1>1. IInv => RiskOffFollows
  <2> SUFFICES ASSUME IInv, rpc = "follow", rlast = Len(regimes), odd = {}
               PROVE  risk_off = (current_regime[Last(regimes).symbol] \in {"HIGH_VOL_CHAOTIC", "UNKNOWN"})
    BY DEF RiskOffFollows
  <2>1. /\ rlast >= 1 /\ (risk_off <=> regimes[rlast].regime \in RiskOffRegimes) /\ risk_off \in BOOLEAN
    BY DEF IInv, Followed, Types, ServiceTypes
  <2>2. regimes[rlast].regime = current_regime[regimes[rlast].symbol]
    <3>1. Len(regimes) \in Nat
      BY StreamFacts DEF IInv
    <3>2. QED
      BY <2>1, <3>1 DEF IInv, Announced
  <2>3. Last(regimes) = regimes[rlast]
    BY DEF Last
  <2> DEFINE held == current_regime[Last(regimes).symbol] \in {"HIGH_VOL_CHAOTIC", "UNKNOWN"}
  <2>4. (risk_off <=> held) /\ held \in BOOLEAN
    BY <2>1, <2>2, <2>3 DEF RiskOffRegimes
  <2> HIDE DEF held
  <2>5. risk_off = held
    BY <2>1, <2>4
  <2>6. QED
    BY <2>5 DEF held
<1>2. QED
  BY <1>1, Coherent, PTL

\* decide_trade admits signals on a symbol announced chaotic or unknown for no
\* longer than its market state counts as recent, without any help from the
\* risk service's own listener.
THEOREM ChaosHalts == Spec => []ChaosStopsTrading
<1>1. IInv => ChaosStopsTrading
  <2> SUFFICES ASSUME IInv, "replay" \notin odd, NEW y \in Symbols, NEW i \in LastOf(y), Admits(y),
                      regimes[i].regime \in {"HIGH_VOL_CHAOTIC", "UNKNOWN"}
               PROVE  now - regimes[i].at <= SilenceMax
    BY DEF ChaosStopsTrading
  <2>1. market[y].at <= regimes[i].at
    BY DEF IInv, MarketInv, MarketOlder, Admits, RiskOffRegimes
  <2>2. now - market[y].at <= SilenceMax /\ SilenceMax \in Nat
    BY RegimeAssumption DEF Admits, NotSilent
  <2>3. market[y].at \in Int /\ regimes[i].at \in Int /\ now \in Int
    BY StreamFacts DEF IInv, LastOf
  <2>4. QED
    BY <2>1, <2>2, <2>3
<1>2. QED
  BY <1>1, Coherent, PTL

===============================================================================

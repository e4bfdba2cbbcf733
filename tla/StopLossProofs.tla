--------------------------- MODULE StopLossProofs ---------------------------
(***************************************************************************)
(* Proofs about StopLoss for every set of positions, prices, percentages   *)
(* and grids.                                                              *)
(***************************************************************************)
EXTENDS StopLoss, TLAPS

-----------------------------------------------------------------------------
\* Arithmetic of the grids.

(* Division of integers by a positive one, with the remainder bounded.      *)
LEMMA DivBounds ==
    ASSUME NEW x \in Int, NEW g \in Nat \ {0}
    PROVE  /\ x \div g \in Int
           /\ (x \div g) * g <= x
           /\ x < (x \div g) * g + g
  BY SMT

(* Multiplication keeps an order.                                           *)
LEMMA MulMono ==
    ASSUME NEW a \in Int, NEW b \in Int, NEW k \in Nat, a <= b
    PROVE  a * k <= b * k
  BY SMT

(* A positive factor on both sides can be dropped.                          *)
LEMMA MulCancel ==
    ASSUME NEW a \in Int, NEW b \in Int, NEW k \in Nat \ {0}, a * k < b * k
    PROVE  a < b
  BY SMT

(* The same of <=.                                                          *)
LEMMA MulCancelLe ==
    ASSUME NEW a \in Int, NEW b \in Int, NEW k \in Nat \ {0}, a * k <= b * k
    PROVE  a <= b
  BY SMT

(* A long position: the rounded price is at or below the rounded stop when  *)
(* the price is at or below the stop.  Rounding the stop up by as much as a *)
(* step makes up for rounding the entry price down.                         *)
LEMMA LongNeverLate ==
    ASSUME NEW W \in Nat \ {0}, NEW H \in Nat \ {0}, NEW M \in Nat \ {0},
           NEW E \in Int, NEW x \in Int, NEW c \in Int,
           NEW e \in Int, e = E \div M, e > 0,
           NEW q \in Int, q = c \div H, q > 0, q < W,
           NEW b \in Int, b = x \div M,
           x * (W * H) <= E * (W * H - c)
    PROVE  b <= (e * (W - q) + W - 1) \div W
<1> DEFINE s == W - q
           S == (e * s + W - 1) \div W
<1>1. s \in Nat \ {0} /\ s < W /\ e * s \in Int
  BY SMT
<1>2. e * M <= E /\ E < (e + 1) * M /\ E \in Nat
  <2>1. e * M <= E /\ E < e * M + M
    BY DivBounds
  <2>2. (e + 1) * M = e * M + M /\ e * M > 0
    BY SMT
  <2> QED BY <2>1, <2>2, SMT
<1>3. W * H - c <= s * H
  <2>1. q * H <= c
    BY DivBounds
  <2>2. s * H = W * H - q * H /\ W * H \in Int /\ q * H \in Int
    BY SMT
  <2> QED BY <2>1, <2>2, SMT
<1>4. x * W <= E * s
  <2>1. (W * H - c) * E <= (s * H) * E
    BY <1>1, <1>2, <1>3, MulMono, SMT
  <2>2. (x * W) * H <= (E * s) * H
    <3>1. (x * W) * H = x * (W * H) /\ (E * s) * H = (s * H) * E
          /\ (W * H - c) * E = E * (W * H - c)
      BY <1>1, SMT
    <3>2. (W * H - c) * E \in Int /\ (s * H) * E \in Int /\ x * (W * H) \in Int
      BY <1>1, SMT
    <3> QED BY <2>1, <3>1, <3>2, SMT
  <2>3. x * W \in Int /\ E * s \in Int
    BY <1>1, SMT
  <2> QED BY <2>2, <2>3, MulCancelLe
<1>5. b * W < (e + 1) * s
  <2>1. b * M <= x
    BY DivBounds
  <2>2. (b * M) * W <= x * W
    BY <2>1, MulMono, SMT
  <2>3. E * s < ((e + 1) * M) * s
    BY <1>1, <1>2, SMT
  <2>4. (b * W) * M < ((e + 1) * s) * M
    <3>1. (b * W) * M = (b * M) * W /\ ((e + 1) * s) * M = ((e + 1) * M) * s
      BY <1>1, SMT
    <3>2. (b * M) * W \in Int /\ x * W \in Int /\ E * s \in Int /\ ((e + 1) * M) * s \in Int
      BY <1>1, SMT
    <3> QED BY <1>4, <2>2, <2>3, <3>1, <3>2, SMT
  <2>5. b * W \in Int /\ (e + 1) * s \in Int
    BY <1>1, SMT
  <2> HIDE DEF s
  <2> QED BY <2>4, <2>5, MulCancel
<1>6. b * W <= e * s + W - 1
  <2>1. (e + 1) * s = e * s + s /\ b * W \in Int
    BY <1>1, SMT
  <2> QED BY <1>1, <1>5, <2>1, SMT
<1>7. S \in Int /\ e * s + W - 1 < S * W + W
  <2>1. e * s + W - 1 \in Int
    BY <1>1
  <2> HIDE DEF s
  <2> QED BY <2>1, DivBounds
<1>8. b * W < (S + 1) * W
  <2>1. (S + 1) * W = S * W + W /\ b * W \in Int /\ S * W \in Int
    BY <1>7, SMT
  <2> HIDE DEF S, s
  <2> QED BY <1>1, <1>6, <1>7, <2>1, SMT
<1>9. b < S + 1
  <2> HIDE DEF S
  <2> QED BY <1>7, <1>8, MulCancel, SMT
<1> HIDE DEF S
<1>10. b <= S
  BY <1>7, <1>9, SMT
<1> QED BY <1>10 DEF S

(* A short position: the stop is rounded down from values rounded down.     *)
LEMMA ShortNeverLate ==
    ASSUME NEW W \in Nat \ {0}, NEW H \in Nat \ {0}, NEW M \in Nat \ {0},
           NEW E \in Int, NEW x \in Int, NEW c \in Int,
           NEW e \in Int, e = E \div M, e > 0,
           NEW q \in Int, q = c \div H, q > 0, q < W,
           NEW b \in Int, b = x \div M,
           x * (W * H) >= E * (W * H + c)
    PROVE  b >= (e * (W + q)) \div W
<1> DEFINE t == W + q
           S == (e * t) \div W
<1>1. t \in Nat \ {0} /\ e * t \in Int
  BY SMT
<1>2. e * M <= E /\ E \in Nat
  <2>1. e * M <= E
    BY DivBounds
  <2>2. e * M > 0
    BY SMT
  <2> QED BY <2>1, <2>2, SMT
<1>3. t * H <= W * H + c
  <2>1. q * H <= c
    BY DivBounds
  <2>2. t * H = W * H + q * H /\ W * H \in Int /\ q * H \in Int
    BY SMT
  <2> QED BY <2>1, <2>2, SMT
<1>4. E * t <= x * W
  <2>1. (t * H) * E <= (W * H + c) * E
    BY <1>1, <1>2, <1>3, MulMono, SMT
  <2>2. (E * t) * H <= (x * W) * H
    <3>1. (x * W) * H = x * (W * H) /\ (E * t) * H = (t * H) * E
          /\ (W * H + c) * E = E * (W * H + c)
      BY <1>1, SMT
    <3>2. (W * H + c) * E \in Int /\ (t * H) * E \in Int /\ x * (W * H) \in Int
      BY <1>1, SMT
    <3> QED BY <2>1, <3>1, <3>2, SMT
  <2>3. x * W \in Int /\ E * t \in Int
    BY <1>1, SMT
  <2> QED BY <2>2, <2>3, MulCancelLe
<1>5. S \in Int /\ S * W <= e * t
  <2> HIDE DEF t
  <2> QED BY <1>1, DivBounds
<1>6. (e * t) * M <= x * W
  <2>1. (e * M) * t <= E * t
    BY <1>1, <1>2, MulMono, SMT
  <2>2. (e * t) * M = (e * M) * t /\ E * t \in Int /\ (e * M) * t \in Int /\ x * W \in Int
    BY <1>1, SMT
  <2> QED BY <1>4, <2>1, <2>2, SMT
<1>7. x * W < ((b + 1) * M) * W
  <2>1. x < b * M + M
    BY DivBounds
  <2>2. (b + 1) * M = b * M + M /\ b * M \in Int
    BY SMT
  <2>3. x < (b + 1) * M /\ (b + 1) * M \in Int
    BY <2>1, <2>2, SMT
  <2> QED BY <2>3, SMT
<1>8. (S * W) * M <= (e * t) * M
  <2> HIDE DEF S, t
  <2> QED BY <1>1, <1>5, MulMono, SMT
<1>9. S < b + 1
  <2> HIDE DEF S, t
  <2>1. S * (W * M) < (b + 1) * (W * M)
    <3>1. S * (W * M) = (S * W) * M /\ (b + 1) * (W * M) = ((b + 1) * M) * W
      BY <1>5, SMT
    <3>2. (S * W) * M \in Int /\ (e * t) * M \in Int /\ x * W \in Int
          /\ ((b + 1) * M) * W \in Int
      BY <1>1, <1>5, SMT
    <3> QED BY <1>6, <1>7, <1>8, <3>1, <3>2, SMT
  <2>2. W * M \in Nat \ {0}
    BY SMT
  <2> QED BY <1>5, <2>1, <2>2, MulCancel, SMT
<1> HIDE DEF S
<1>10. b >= S
  BY <1>5, <1>9, SMT
<1> QED BY <1>10 DEF S

(* The trigger of the code fires whenever the configured stop is breached   *)
(* and nothing blocks.                                                      *)
LEMMA TriggerNeverLate ==
    ASSUME NEW p \in Positions, NEW o \in Observations, NEW c \in Percents,
           ~Blocks(p, o, c), Breached(p, o, c)
    PROVE  Triggered(p, o, c)
<1> DEFINE e == Q(p.entry, Money)
           q == Q(c, Ratio)
           b == Q(o.price, Money)
<1>1. /\ p.entry \in Int /\ o.price \in Int /\ c \in Int
      /\ Money \in Nat \ {0} /\ Ratio \in Nat \ {0} /\ Whole \in Nat \ {0}
  BY StopLossAssumption
<1>2. e \in Int /\ e = p.entry \div Money /\ q \in Int /\ q = c \div Ratio
      /\ b \in Int /\ b = o.price \div Money
  BY <1>1, DivBounds DEF Q
<1>3. p.side \in {"LONG", "SHORT"}
  BY DEF Breached
<1>4. e > 0 /\ q > 0 /\ q < Whole
  <2>1. ~(e <= 0) /\ ~(q <= 0) /\ ~(q >= Whole)
    BY <1>3 DEF Blocks
  <2> HIDE DEF e, q
  <2> QED BY <1>1, <1>2, <2>1, SMT
<1>5. CASE p.side = "LONG"
  <2>1. o.price * (Whole * Ratio) <= p.entry * (Whole * Ratio - c)
    BY <1>5 DEF Breached
  <2>2. b <= (e * (Whole - q) + Whole - 1) \div Whole
    <3> HIDE DEF e, q, b
    <3> QED BY <1>1, <1>2, <1>4, <2>1, LongNeverLate
  <2> QED BY <1>5, <2>2 DEF Triggered, ComputeStopPrice, CeilDiv
<1>6. CASE p.side = "SHORT"
  <2>1. o.price * (Whole * Ratio) >= p.entry * (Whole * Ratio + c)
    BY <1>6 DEF Breached
  <2>2. b >= (e * (Whole + q)) \div Whole
    <3> HIDE DEF e, q, b
    <3> QED BY <1>1, <1>2, <1>4, <2>1, ShortNeverLate
  <2> QED BY <1>6, <2>2 DEF Triggered, ComputeStopPrice
<1> QED BY <1>3, <1>5, <1>6

-----------------------------------------------------------------------------
(* Type correctness: among others, an event has one record, and every step  *)
(* after the trigger handles a real event.                                  *)
THEOREM TypeCorrect == Spec => []TypeOK
<1>1. Init => TypeOK
  <2> SUFFICES ASSUME Init PROVE TypeOK
    OBVIOUS
  <2>1. intents \in Seq(Events)
    BY DEF Init
  <2> QED BY <2>1, Zenon DEF Init, TypeOK, Outcome
<1>2. TypeOK /\ [Next]_vars => TypeOK'
  <2> SUFFICES ASSUME TypeOK, [Next]_vars PROVE TypeOK'
    OBVIOUS
  <2> USE DEF TypeOK, store
  <2>1. CASE Initialize
    BY <2>1 DEF Initialize
  <2>2. ASSUME NEW p \in Positions, NEW o \in Observations, Consume(p, o) PROVE TypeOK'
    <3>1. EventOf(p, pct) \in Events
      BY DEF Events
    <3>2. Breached(p, o, pct) \in BOOLEAN
      BY DEF Breached
    <3> QED BY <2>2, <3>1, <3>2 DEF Consume, Return, Outcome
  <2>3. CASE Prepare
    <3>1. event \in Events /\ pct' = pct /\ event' = event /\ file' = file
          /\ intents' = intents /\ started' = started /\ crashes' = crashes
      BY <2>3 DEF Prepare
    <3>2. CASE Return("BLOCKED", event, TRUE) /\ UNCHANGED <<prepared, finalized>>
      BY <3>1, <3>2 DEF Return, Outcome
    <3>3. CASE prepared' = prepared \cup {event} /\ finalized' = finalized \ {event}
               /\ pc' = "accept" /\ UNCHANGED outcome
      <4>1. prepared' \subseteq Events /\ finalized' \subseteq Events
            /\ prepared' \cap finalized' = {}
        BY <3>1, <3>3
      <4> QED BY <3>1, <3>3, <4>1
    <3> QED BY <2>3, <3>2, <3>3 DEF Prepare
  <2>4. CASE Accept
    <3>1. event \in Events /\ pct' = pct /\ event' = event /\ UNCHANGED store
          /\ started' = started /\ crashes' = crashes
      BY <2>4 DEF Accept
    <3>2. intents' \in Seq(Events)
      BY <2>4, <3>1 DEF Accept
    <3>3. CASE pc' = "finalize" /\ UNCHANGED outcome
      BY <3>1, <3>2, <3>3
    <3>4. CASE SinkFailed
      BY <3>1, <3>2, <3>4 DEF SinkFailed, Return, Outcome
    <3> QED BY <2>4, <3>3, <3>4 DEF Accept
  <2>5. CASE Finalize
    <3>1. event \in Events /\ pct' = pct /\ event' = event /\ file' = file
          /\ intents' = intents /\ started' = started /\ crashes' = crashes
      BY <2>5 DEF Finalize
    <3>2. CASE Return("BLOCKED", event, TRUE) /\ UNCHANGED <<prepared, finalized>>
      BY <3>1, <3>2 DEF Return, Outcome
    <3>3. CASE Commit /\ Return("EXIT_INTENT_EMITTED", event, TRUE)
      <4>1. prepared' \subseteq Events /\ finalized' \subseteq Events
            /\ prepared' \cap finalized' = {}
        BY <3>1, <3>3 DEF Commit
      <4> QED BY <3>1, <3>3, <4>1 DEF Return, Outcome
    <3> QED BY <2>5, <3>2, <3>3 DEF Finalize
  <2>6. CASE Crash
    BY <2>6 DEF Crash, Outcome
  <2>7. CASE Damage
    BY <2>7 DEF Damage, Damaged
  <2>8. CASE UNCHANGED vars
    BY <2>8 DEF vars
  <2> QED BY <2>1, <2>2, <2>3, <2>4, <2>5, <2>6, <2>7, <2>8 DEF Next
<1> QED BY <1>1, <1>2, PTL DEF Spec

-----------------------------------------------------------------------------
(* The inductive strengthening of AtMostOnce and OutcomeHonest: whatever    *)
(* reached the sink has a record, a record says no more than what happened, *)
(* and each step of the hand-over knows how far its event has come.         *)
HandOver ==
    /\ Delivered \subseteq Recorded
    /\ pc = "prepare" => event \notin Recorded
    /\ pc = "accept" => event \in prepared /\ event \notin Delivered
    /\ pc = "finalize" => event \in Delivered

IInv == TypeOK /\ HandOver /\ AtMostOnce /\ OutcomeHonest

(* What the sink has received after one more intent.                        *)
LEMMA DeliveredAppend ==
    ASSUME NEW e \in Events, intents \in Seq(Events), intents' = Append(intents, e)
    PROVE  Delivered' = Delivered \cup {e}
<1>1. /\ DOMAIN intents' = 1..(Len(intents) + 1) /\ DOMAIN intents = 1..Len(intents)
      /\ Len(intents) \in Nat
      /\ \A i \in 1..Len(intents) : intents'[i] = intents[i]
      /\ intents'[Len(intents) + 1] = e
  OBVIOUS
<1>2. DOMAIN intents' = DOMAIN intents \cup {Len(intents) + 1}
  BY <1>1
<1>3. ASSUME NEW d \in Delivered' PROVE d \in Delivered \cup {e}
  <2>1. PICK i \in DOMAIN intents' : d = intents'[i]
    BY <1>3 DEF Delivered
  <2> QED BY <1>1, <1>2, <2>1 DEF Delivered
<1>4. ASSUME NEW d \in Delivered \cup {e} PROVE d \in Delivered'
  <2>1. CASE d = e
    BY <1>1, <1>2, <2>1 DEF Delivered
  <2>2. CASE d \in Delivered
    <3>1. PICK i \in DOMAIN intents : d = intents[i]
      BY <2>2 DEF Delivered
    <3>2. i \in DOMAIN intents' /\ intents'[i] = d
      BY <1>1, <1>2, <3>1
    <3> QED BY <3>2 DEF Delivered
  <2> QED BY <1>4, <2>1, <2>2
<1> QED BY <1>3, <1>4

(* An intent for an event not delivered yet keeps AtMostOnce.               *)
LEMMA AppendOnce ==
    ASSUME NEW e \in Events, intents \in Seq(Events), intents' = Append(intents, e),
           AtMostOnce, e \notin Delivered
    PROVE  AtMostOnce'
<1>1. /\ DOMAIN intents' = 1..(Len(intents) + 1) /\ DOMAIN intents = 1..Len(intents)
      /\ Len(intents) \in Nat
      /\ \A i \in 1..Len(intents) : intents'[i] = intents[i]
      /\ intents'[Len(intents) + 1] = e
  OBVIOUS
<1>2. \A i \in 1..Len(intents) : intents'[i] # e
  BY <1>1 DEF Delivered
<1> QED BY <1>1, <1>2 DEF AtMostOnce

(* The strengthened invariant holds, for every set of positions and prices. *)
THEOREM Protected == Spec => []IInv
<1>1. Init => IInv
  <2> SUFFICES ASSUME Init PROVE IInv
    OBVIOUS
  <2>1. TypeOK
    <3>1. intents \in Seq(Events)
      BY DEF Init
    <3> QED BY <3>1, Zenon DEF Init, TypeOK, Outcome
  <2>2. DOMAIN intents = {}
    BY DEF Init
  <2> QED BY <2>1, <2>2 DEF Init, IInv, HandOver, AtMostOnce, OutcomeHonest, Delivered,
                            Recorded, Outcome
<1>2. IInv /\ TypeOK' /\ [Next]_vars => IInv'
  <2> SUFFICES ASSUME IInv, TypeOK', [Next]_vars PROVE IInv'
    OBVIOUS
  <2>1. ASSUME intents' = intents PROVE Delivered' = Delivered /\ AtMostOnce'
    BY <2>1 DEF Delivered, AtMostOnce, IInv
  <2>2. CASE Initialize
    <3>1. intents' = intents
      BY <2>2 DEF Initialize
    <3> QED BY <2>1, <2>2, <3>1 DEF Initialize, IInv, HandOver, OutcomeHonest, Recorded
  <2>3. ASSUME NEW p \in Positions, NEW o \in Observations, Consume(p, o) PROVE IInv'
    <3>1. intents' = intents /\ prepared' = prepared /\ finalized' = finalized
      BY <2>3 DEF Consume, store
    <3>2. HandOver'
      BY <2>1, <2>3, <3>1 DEF Consume, Return, IInv, HandOver, Recorded
    <3>3. OutcomeHonest'
      BY <2>1, <2>3, <3>1 DEF Consume, Return, Outcome, IInv, OutcomeHonest
    <3> QED BY <2>1, <3>1, <3>2, <3>3 DEF IInv
  <2>4. CASE Prepare
    <3>1. intents' = intents /\ event' = event /\ event \notin Recorded
      BY <2>4 DEF Prepare, IInv, HandOver
    <3>2. HandOver'
      BY <2>1, <2>4, <3>1 DEF Prepare, Return, IInv, HandOver, Recorded
    <3>3. OutcomeHonest'
      BY <2>1, <2>4, <3>1 DEF Prepare, Return, Outcome, IInv, OutcomeHonest, Recorded
    <3> QED BY <2>1, <3>1, <3>2, <3>3 DEF IInv
  <2>5. CASE Accept
    <3>1. /\ event' = event /\ prepared' = prepared /\ finalized' = finalized
          /\ event \in prepared /\ event \notin Delivered /\ event \in Events
          /\ intents \in Seq(Events)
      BY <2>5 DEF Accept, IInv, HandOver, TypeOK, store
    <3>2. \/ intents' = intents /\ pc' = "idle"
          \/ intents' = Append(intents, event) /\ pc' \in {"idle", "finalize"}
      BY <2>5 DEF Accept, SinkFailed, Return
    <3>3. \/ outcome' = outcome \/ outcome'.decision = "BLOCKED"
      BY <2>5 DEF Accept, SinkFailed, Return, Outcome
    <3>4. CASE intents' = intents /\ pc' = "idle"
      BY <2>1, <3>1, <3>3, <3>4 DEF IInv, HandOver, OutcomeHonest, Recorded
    <3>5. CASE intents' = Append(intents, event) /\ pc' \in {"idle", "finalize"}
      <4>1. Delivered' = Delivered \cup {event}
        BY <3>1, <3>5, DeliveredAppend
      <4>2. AtMostOnce'
        BY <3>1, <3>5, AppendOnce DEF IInv
      <4>3. HandOver'
        BY <3>1, <3>5, <4>1 DEF IInv, HandOver, Recorded
      <4>4. OutcomeHonest'
        BY <3>1, <3>3, <4>1 DEF IInv, OutcomeHonest
      <4> QED BY <4>2, <4>3, <4>4 DEF IInv
    <3> QED BY <3>2, <3>4, <3>5
  <2>6. CASE Finalize
    <3>1. intents' = intents /\ event' = event /\ event \in Delivered /\ pc' = "idle"
      BY <2>6 DEF Finalize, Return, IInv, HandOver
    <3>2. HandOver'
      BY <2>1, <2>6, <3>1 DEF Finalize, Commit, IInv, HandOver, Recorded
    <3>3. OutcomeHonest'
      BY <2>1, <2>6, <3>1 DEF Finalize, Commit, Return, Outcome, IInv, OutcomeHonest
    <3> QED BY <2>1, <3>1, <3>2, <3>3 DEF IInv
  <2>7. CASE Crash
    <3>1. intents' = intents /\ prepared' = prepared /\ finalized' = finalized
          /\ pc' = "idle" /\ outcome'.decision = "none"
      BY <2>7 DEF Crash, store, Outcome
    <3> QED BY <2>1, <3>1 DEF IInv, HandOver, OutcomeHonest, Recorded
  <2>8. CASE Damage
    <3>1. intents' = intents /\ prepared' = prepared /\ finalized' = finalized
          /\ pc' = pc /\ event' = event /\ outcome' = outcome
      BY <2>8 DEF Damage, Damaged
    <3> QED BY <2>1, <3>1 DEF IInv, HandOver, OutcomeHonest, Recorded
  <2>9. CASE UNCHANGED vars
    <3>1. intents' = intents /\ prepared' = prepared /\ finalized' = finalized
          /\ pc' = pc /\ event' = event /\ outcome' = outcome
      BY <2>9 DEF vars, store
    <3> QED BY <2>1, <3>1 DEF IInv, HandOver, OutcomeHonest, Recorded
  <2> QED BY <2>2, <2>3, <2>4, <2>5, <2>6, <2>7, <2>8, <2>9 DEF Next
<1> QED BY <1>1, <1>2, TypeCorrect, PTL DEF Spec

(* No protection event gets two exit intents, whatever crashes, sink        *)
(* failures and losses of the file occur.                                   *)
THEOREM ExactlyOnceAtMost == Spec => []AtMostOnce
<1>1. IInv => AtMostOnce
  BY DEF IInv
<1> QED BY <1>1, Protected, PTL

(* Reports and records are true.                                            *)
THEOREM OutcomesHonest == Spec => []OutcomeHonest
<1>1. IInv => OutcomeHonest
  BY DEF IInv
<1> QED BY <1>1, Protected, PTL

(* For every grid, percentage and price: rounding never delays protection.  *)
THEOREM RoundingNeverLate == Spec => []NeverLate
<1>1. Init => NeverLate
  BY DEF Init, Outcome, NeverLate
<1>2. TypeOK /\ NeverLate /\ [Next]_vars => NeverLate'
  <2> SUFFICES ASSUME TypeOK, NeverLate, [Next]_vars PROVE NeverLate'
    OBVIOUS
  <2>1. ASSUME NEW p \in Positions, NEW o \in Observations, Consume(p, o) PROVE NeverLate'
    <3>1. pct \in Percents
      BY DEF TypeOK
    <3>2. ~Blocks(p, o, pct) /\ ~Triggered(p, o, pct) => ~Breached(p, o, pct)
      BY <3>1, TriggerNeverLate
    <3> QED BY <2>1, <3>2 DEF Consume, Return, Outcome, NeverLate
  <2>2. CASE Initialize \/ Damage \/ UNCHANGED vars
    BY <2>2 DEF Initialize, Damage, vars, NeverLate
  <2>3. CASE Prepare
    BY <2>3 DEF Prepare, Return, Outcome, NeverLate
  <2>4. CASE Accept
    BY <2>4 DEF Accept, SinkFailed, Return, Outcome, NeverLate
  <2>5. CASE Finalize
    BY <2>5 DEF Finalize, Return, Outcome, NeverLate
  <2>6. CASE Crash
    BY <2>6 DEF Crash, Outcome, NeverLate
  <2> QED BY <2>1, <2>2, <2>3, <2>4, <2>5, <2>6 DEF Next
<1> QED BY <1>1, <1>2, TypeCorrect, PTL DEF Spec
-----------------------------------------------------------------------------
(* The consumer implements the one-shot hand-over of OneShot: preparing a    *)
(* record is the claim, the sink taking the intent the hand-over, and every  *)
(* other step, a crash or the loss of the file included, changes neither.    *)
THEOREM Implements == Spec => DeliversOnce
<1>1. Init => Once!Init
  <2> SUFFICES ASSUME Init PROVE Recorded = {} /\ Delivered = {}
    BY DEF Once!Init
  <2>1. DOMAIN intents = {}
    BY DEF Init
  <2> QED BY <2>1 DEF Init, Recorded, Delivered
<1>2. IInv /\ [Next]_vars => [Once!Next]_<<Recorded, Delivered>>
  <2> SUFFICES ASSUME IInv, [Next]_vars PROVE [Once!Next]_<<Recorded, Delivered>>
    OBVIOUS
  <2>1. ASSUME intents' = intents, prepared' = prepared, finalized' = finalized
        PROVE  Recorded' = Recorded /\ Delivered' = Delivered
    BY <2>1 DEF Recorded, Delivered
  <2>2. CASE Initialize \/ Crash \/ Damage \/ UNCHANGED vars
    <3>1. intents' = intents /\ prepared' = prepared /\ finalized' = finalized
      BY <2>2 DEF Initialize, Crash, Damage, Damaged, vars, store
    <3> QED BY <2>1, <3>1
  <2>3. ASSUME NEW p \in Positions, NEW o \in Observations, Consume(p, o)
        PROVE  UNCHANGED <<Recorded, Delivered>>
    <3>1. intents' = intents /\ prepared' = prepared /\ finalized' = finalized
      BY <2>3 DEF Consume, store
    <3> QED BY <2>1, <3>1
  <2>4. CASE Prepare
    <3>1. event \notin Recorded /\ event \in Events /\ intents' = intents
      BY <2>4 DEF Prepare, IInv, HandOver, TypeOK
    <3>2. \/ Recorded' = Recorded \/ Recorded' = Recorded \cup {event}
      BY <2>4, <3>1 DEF Prepare, Recorded
    <3>3. Delivered' = Delivered
      BY <3>1 DEF Delivered
    <3> QED BY <3>1, <3>2, <3>3 DEF Once!Next, Once!Claim
  <2>5. CASE Accept
    <3>1. /\ event \in Recorded \ Delivered /\ event \in Events /\ intents \in Seq(Events)
          /\ Recorded' = Recorded
      BY <2>5 DEF Accept, IInv, HandOver, TypeOK, Recorded, store
    <3>2. intents' = intents \/ intents' = Append(intents, event)
      BY <2>5 DEF Accept
    <3>3. Delivered' = Delivered \/ Delivered' = Delivered \cup {event}
      <4>1. CASE intents' = intents
        BY <4>1 DEF Delivered
      <4>2. CASE intents' = Append(intents, event)
        BY <3>1, <4>2, DeliveredAppend
      <4> QED BY <3>2, <4>1, <4>2
    <3> QED BY <3>1, <3>3 DEF Once!Next, Once!HandOver
  <2>6. CASE Finalize
    <3>1. event \in Delivered /\ Delivered \subseteq Recorded /\ intents' = intents
      BY <2>6 DEF Finalize, IInv, HandOver
    <3>2. Recorded' = Recorded
      BY <2>6, <3>1 DEF Finalize, Commit, Recorded
    <3>3. Delivered' = Delivered
      BY <3>1 DEF Delivered
    <3> QED BY <3>2, <3>3
  <2> QED BY <2>2, <2>3, <2>4, <2>5, <2>6 DEF Next
<1> QED BY <1>1, <1>2, Protected, PTL DEF Spec, DeliversOnce, Once!Spec
=============================================================================

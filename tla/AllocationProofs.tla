--------------------------- MODULE AllocationProofs ---------------------------
(***************************************************************************)
(* Proofs about Allocation, for any strategies and order of the rules, any *)
(* regimes, percentages, times and bounds: the risk service follows the    *)
(* decisions, a shutdown bars by the allocation alone, and a cooldown is   *)
(* respected.  The argument compares both services with the stream of      *)
(* decisions between them (Recorded, Granted), which survives restarts.    *)
(***************************************************************************)
EXTENDS Allocation, SequenceTheorems, NaturalsInduction, WellFoundedInduction, TLAPS

Decisions == [strategy : Strategies, pct : Nat, cooldown : Int, ts : Nat]
Allocations == [pct : Nat, cooldown : Int, fresh : BOOLEAN]
Grants == [pct : Nat, cooldown : Int]
Contexts == [ts : Nat, regime : Regimes, shut : SUBSET Strategies, read : Nat]

StreamTypes ==
    /\ now \in Nat
    /\ regimes \in Seq([ts : Nat, regime : Regimes])
    /\ fills \in Seq([ts : Nat])
    /\ shutdowns \in Seq([ts : Nat, strategy : Strategies])
    /\ decisions \in Seq(Decisions)

ServiceTypes ==
    /\ up \in {"start", "run"}
    /\ current_regime \in Regimes /\ candidate \in Regimes \cup {"none"} /\ since \in Int
    /\ allocations \in [Strategies -> Allocations] /\ shutdown_ids \in SUBSET Strategies
    /\ last_regime \in Nat /\ last_fill \in Nat /\ last_shutdown \in Nat

RiskTypes ==
    /\ ralloc \in [Strategies -> Grants] /\ rlast \in 0..Len(decisions)
    /\ rshutdown \in SUBSET Strategies /\ rslast \in Nat
    /\ faults \in SUBSET {"bootstrap", "allocation", "risk"} /\ restarts \in Nat

TypeOK == StreamTypes /\ ServiceTypes /\ RiskTypes

\* What the streams carry has happened.
InPast ==
    /\ \A i \in DOMAIN regimes : regimes[i].ts <= now
    /\ \A i \in DOMAIN fills : fills[i].ts <= now
    /\ \A i \in DOMAIN shutdowns : shutdowns[i].ts <= now

\* Among the first n decisions in d, the last one about s grants p; there is none.
Latest(d, s, n, p) ==
    \E i \in 1..n : /\ d[i].strategy = s /\ d[i].pct = p
                    /\ \A j \in (i + 1)..n : d[j].strategy # s
Unheard(d, s, n) == \A j \in 1..n : d[j].strategy # s

\* The stream ends with what the allocation service computed ...
Recorded ==
    "bootstrap" \notin faults =>
        \A s \in Strategies :
            ~allocations[s].fresh => Latest(decisions, s, Len(decisions), allocations[s].pct)

\* ... and the risk service grants what the part it has read says, or nothing.
Granted ==
    \A s \in Strategies :
        \/ Latest(decisions, s, rlast, ralloc[s].pct)
        \/ /\ ralloc[s].pct = 0
           /\ rlast > LookBack \/ Unheard(decisions, s, rlast)

\* What the service has read of the shutdowns since its start is computed in.
ShutOff ==
    /\ up = "start" => shutdown_ids = {}
    /\ \A s \in shutdown_ids : allocations[s].pct = 0 /\ ~allocations[s].fresh

\* A cooldown runs only without an allocation; every cooldown decided on is over
\* or still running in the service, unless that has been restarted.
Cooling ==
    /\ \A s \in Strategies : allocations[s].pct > 0 => allocations[s].cooldown = None
    /\ "allocation" \notin faults =>
          \A i \in DOMAIN decisions :
              \/ decisions[i].cooldown <= now
              \/ decisions[i].cooldown = allocations[decisions[i].strategy].cooldown

AllocationInv == TypeOK /\ InPast /\ Recorded /\ Granted /\ ShutOff /\ Cooling
\* Any nonempty set of naturals has a least element.
LEMMA LeastNatural ==
    ASSUME NEW S \in SUBSET Nat, S # {}
    PROVE  \E m \in S : \A n \in S : m <= n
<1> DEFINE R == OpToRel(<, Nat)
<1>1. IsWellFoundedOn(R, Nat)
  BY NatLessThanWellFounded, Zenon
<1>2. \A i, j \in Nat : i < j => <<i, j>> \in R
  BY DEF OpToRel
<1> HIDE DEF R
<1>3. PICK m \in S : \A n \in S : ~(<<n, m>> \in R)
  BY <1>1, WFMin
<1>4. m \in Nat /\ \A n \in S : n \in Nat
  OBVIOUS
<1>5. \A n \in S : ~(n < m)
  BY <1>2, <1>3, <1>4
<1>6. QED
  BY <1>4, <1>5

\* Induction over the naturals.
LEMMA Induction ==
    ASSUME NEW S, 0 \in S, \A n \in Nat : n \in S => n + 1 \in S
    PROVE  Nat \subseteq S
<1>1. SUFFICES ASSUME Nat \ S # {} PROVE FALSE
  OBVIOUS
<1>2. PICK m \in Nat \ S : \A n \in Nat \ S : m <= n
  BY <1>1, LeastNatural
<1>3. m # 0 /\ m - 1 \in Nat /\ m - 1 \in S
  BY <1>2
<1>4. QED
  BY <1>2, <1>3

\* A nonempty set of indices has a greatest one.
LEMMA LastIndex ==
    ASSUME NEW n \in Nat, NEW S \in SUBSET (1..n), S # {}
    PROVE  \E m \in S : \A k \in S : k <= m
<1> DEFINE T == {n - k : k \in S}
<1>1. T \in SUBSET Nat /\ T # {}
  <2>1. \A k \in S : n - k \in Nat
    OBVIOUS
  <2>2. PICK k : k \in S
    OBVIOUS
  <2>3. QED
    BY <2>1, <2>2
<1>2. PICK t \in T : \A u \in T : t <= u
  BY <1>1, LeastNatural
<1>3. PICK m \in S : t = n - m
  OBVIOUS
<1>4. \A k \in S : n - m <= n - k
  BY <1>2, <1>3
<1>5. QED
  BY <1>4

LEMMA MaxIs ==
    ASSUME NEW n \in Nat, NEW S \in SUBSET (1..n), S # {}
    PROVE  Max(S) \in S /\ \A k \in S : k <= Max(S)
<1>1. \E m \in S : \A k \in S : k <= m
  BY LastIndex
<1>2. \E m \in S : \A k \in S : m >= k
  BY <1>1
<1>3. QED
  BY <1>2 DEF Max

-----------------------------------------------------------------------------
(* The loop over the rules: the equation of Emission, and what it emits.    *)

New(k, c, v) == Updated(Order[k], c, v[Order[k]])
Emitting(k, c, v) == Emits(Order[k], New(k, c, v), c)
Entry(k, c, v) == Decision(Order[k], New(k, c, v), c)
Loop(g, N, c, v) ==
    [n \in 0..N |-> IF n = 0 THEN <<>>
                    ELSE IF Emitting(n, c, v) THEN Append(g[n - 1], Entry(n, c, v))
                    ELSE g[n - 1]]

LEMMA OrderType ==
    /\ Order \in Seq(Strategies) /\ Len(Order) \in Nat /\ DOMAIN Order = 1..Len(Order)
    /\ \A k \in 1..Len(Order) : Order[k] \in Strategies
    /\ \A s \in Strategies : \E k \in 1..Len(Order) : s = Order[k]
<1>1. Order \in Seq(Strategies)
  BY AllocationAssumption
<1>2. Len(Order) \in Nat /\ DOMAIN Order = 1..Len(Order)
  BY <1>1
<1>3. \A k \in 1..Len(Order) : Order[k] \in Strategies
  BY <1>1
<1>4. \A s \in Strategies : \E k \in 1..Len(Order) : s = Order[k]
  BY <1>2 DEF Strategies, Range
<1>5. QED
  BY <1>1, <1>2, <1>3, <1>4

LEMMA LoopExists ==
    ASSUME NEW c, NEW v
    PROVE  \A N \in Nat : \E g : g = Loop(g, N, c, v)
<1> DEFINE G == {N \in Nat : \E g : g = Loop(g, N, c, v)}
<1>1. 0 \in G
  <2> DEFINE g == [n \in 0..0 |-> <<>>]
  <2>1. g = Loop(g, 0, c, v)
    BY DEF Loop
  <2>2. QED
    BY <2>1
<1>2. ASSUME NEW N \in Nat, N \in G PROVE N + 1 \in G
  <2>1. PICK g : g = Loop(g, N, c, v)
    BY <1>2
  <2> DEFINE h == Loop(g, N + 1, c, v)
  <2>2. \A n \in 0..N : h[n] = g[n]
    <3>1. TAKE n \in 0..N
    <3>2. n \in 0..(N + 1)
      OBVIOUS
    <3>3. h[n] = IF n = 0 THEN <<>>
                 ELSE IF Emitting(n, c, v) THEN Append(g[n - 1], Entry(n, c, v)) ELSE g[n - 1]
      BY <3>2 DEF Loop
    <3>4. g[n] = IF n = 0 THEN <<>>
                 ELSE IF Emitting(n, c, v) THEN Append(g[n - 1], Entry(n, c, v)) ELSE g[n - 1]
      BY <2>1 DEF Loop
    <3>5. QED
      BY <3>3, <3>4
  <2>3. \A n \in 0..(N + 1) : n # 0 => h[n - 1] = g[n - 1]
    BY <2>2
  <2> HIDE DEF h
  <2>4. Loop(g, N + 1, c, v) = Loop(h, N + 1, c, v)
    BY <2>3 DEF Loop
  <2>5. QED
    BY <2>4 DEF h
<1>3. QED
  <2> HIDE DEF G
  <2>1. Nat \subseteq G
    BY <1>1, <1>2, Induction
  <2>2. QED
    BY <2>1 DEF G

LEMMA EmissionLoop ==
    ASSUME NEW c, NEW v
    PROVE  Emission(c, v) = Loop(Emission(c, v), Len(Order), c, v)
<1>1. Emission(c, v) = CHOOSE g : g = Loop(g, Len(Order), c, v)
  BY DEF Emission, Loop, Emitting, Entry, New
<1>2. \E g : g = Loop(g, Len(Order), c, v)
  BY LoopExists, OrderType
<1>3. QED
  BY <1>1, <1>2

LEMMA EmissionStep ==
    ASSUME NEW c, NEW v
    PROVE  /\ Emission(c, v)[0] = <<>>
           /\ \A n \in 1..Len(Order) :
                 Emission(c, v)[n] = IF Emitting(n, c, v)
                                     THEN Append(Emission(c, v)[n - 1], Entry(n, c, v))
                                     ELSE Emission(c, v)[n - 1]
<1> DEFINE g == Emission(c, v)
<1>1. g = Loop(g, Len(Order), c, v)
  BY EmissionLoop
<1> HIDE DEF g
<1>2. /\ g[0] = <<>>
      /\ \A n \in 1..Len(Order) :
           g[n] = IF Emitting(n, c, v) THEN Append(g[n - 1], Entry(n, c, v)) ELSE g[n - 1]
  <2>1. Len(Order) \in Nat
    BY OrderType
  <2>2. \A n \in 0..Len(Order) :
           g[n] = IF n = 0 THEN <<>>
                  ELSE IF Emitting(n, c, v) THEN Append(g[n - 1], Entry(n, c, v)) ELSE g[n - 1]
    BY <1>1, Zenon DEF Loop
  <2>3. 0 \in 0..Len(Order) /\ \A n \in 1..Len(Order) : n \in 0..Len(Order) /\ n # 0
    BY <2>1
  <2>4. QED
    BY <2>2, <2>3, Zenon
<1>3. QED
  BY <1>2 DEF g

\* What a recomputation makes of a strategy.
LEMMA UpdatedIs ==
    ASSUME TypeOK, NEW c \in Contexts, NEW s \in Strategies, NEW x
    PROVE  /\ Cooled(s, c) \in Int
           /\ Cooled(s, c) # allocations[s].cooldown =>
                 Cooled(s, c) = None /\ allocations[s].cooldown <= c.ts
           /\ Updated(s, c, x) \in Allocations
           /\ ~Updated(s, c, x).fresh
           /\ s \in c.shut => Updated(s, c, x).pct = 0
           /\ Updated(s, c, x).pct > 0 => Cooled(s, c) = None
           /\ Updated(s, c, x).cooldown =
                 IF allocations[s].pct > 0 /\ Updated(s, c, x).pct = 0 THEN c.ts + Cooldown
                 ELSE Cooled(s, c)
<1>1. allocations[s] \in Allocations
  BY DEF TypeOK, ServiceTypes
<1>2. allocations[s].pct \in Nat /\ allocations[s].cooldown \in Int /\ c.ts \in Nat /\ c.regime \in Regimes
  BY <1>1 DEF Allocations, Contexts
<1>3. Cooldown \in Nat /\ Rules[s][c.regime] \in Nat
  BY <1>2, AllocationAssumption
<1>4. /\ Cooled(s, c) \in Int
      /\ Cooled(s, c) # allocations[s].cooldown =>
            Cooled(s, c) = None /\ allocations[s].cooldown <= c.ts
  BY <1>2 DEF Cooled, None
<1> DEFINE t == Target(s, c, x)
<1>5. /\ t \in Nat
      /\ s \in c.shut => t = 0
      /\ t > 0 => Cooled(s, c) = None
  BY <1>2, <1>3 DEF Target, Barred
<1>6. Updated(s, c, x) = [pct |-> t,
                          cooldown |-> IF allocations[s].pct > 0 /\ t = 0 THEN c.ts + Cooldown
                                       ELSE Cooled(s, c),
                          fresh |-> FALSE]
  BY DEF Updated
<1> HIDE DEF t
<1>7. c.ts + Cooldown \in Int
  BY <1>2, <1>3
<1>8. QED
  BY <1>4, <1>5, <1>6, <1>7 DEF Allocations

\* What is emitted: an entry for each of the first n that has something to say.
Exact(e, n, c, v) ==
    /\ e \in Seq(Decisions)
    /\ \A i \in 1..Len(e) : \E k \in 1..n : e[i] = Entry(k, c, v)
    /\ \A k \in 1..n : Emitting(k, c, v) => \E i \in 1..Len(e) : e[i] = Entry(k, c, v)

LEMMA EntryType ==
    ASSUME TypeOK, NEW c \in Contexts, NEW v, NEW k \in 1..Len(Order)
    PROVE  /\ Entry(k, c, v) \in Decisions
           /\ Entry(k, c, v).strategy = Order[k]
           /\ Entry(k, c, v).pct = New(k, c, v).pct
           /\ Entry(k, c, v).cooldown = New(k, c, v).cooldown
<1>1. Order[k] \in Strategies
  BY OrderType
<1>2. New(k, c, v) \in Allocations
  BY <1>1, UpdatedIs DEF New
<1>3. c.ts \in Nat
  BY DEF Contexts
<1>4. QED
  BY <1>1, <1>2, <1>3 DEF Entry, Decision, Decisions, Allocations

LEMMA AppendExact ==
    ASSUME NEW n \in Nat, NEW c, NEW v, NEW e, Exact(e, n, c, v), Entry(n + 1, c, v) \in Decisions
    PROVE  Exact(IF Emitting(n + 1, c, v) THEN Append(e, Entry(n + 1, c, v)) ELSE e, n + 1, c, v)
<1>1. /\ e \in Seq(Decisions)
      /\ \A i \in 1..Len(e) : \E k \in 1..n : e[i] = Entry(k, c, v)
      /\ \A k \in 1..n : Emitting(k, c, v) => \E i \in 1..Len(e) : e[i] = Entry(k, c, v)
  BY DEF Exact
<1>2. /\ \A k \in 1..n : k \in 1..(n + 1)
      /\ n + 1 \in 1..(n + 1)
      /\ \A k \in 1..(n + 1) : k # n + 1 => k \in 1..n
  OBVIOUS
<1>3. CASE ~Emitting(n + 1, c, v)
  BY <1>1, <1>2, <1>3, Zenon DEF Exact
<1>4. CASE Emitting(n + 1, c, v)
  <2> DEFINE x == Entry(n + 1, c, v)
             f == Append(e, x)
  <2>1. x \in Decisions
    OBVIOUS
  <2>2. Len(e) \in Nat
    BY <1>1
  <2> HIDE DEF x
  <2>3. /\ f \in Seq(Decisions) /\ Len(f) = Len(e) + 1 /\ f[Len(e) + 1] = x
        /\ \A i \in 1..Len(e) : f[i] = e[i]
    BY <1>1, <2>1, <2>2
  <2> HIDE DEF f
  <2>4. /\ \A i \in 1..Len(f) : i # Len(e) + 1 => i \in 1..Len(e)
        /\ \A i \in 1..Len(e) : i \in 1..Len(f)
        /\ Len(e) + 1 \in 1..Len(f)
    BY <2>2, <2>3
  <2>5. \A i \in 1..Len(f) : \E k \in 1..(n + 1) : f[i] = Entry(k, c, v)
    BY <1>1, <1>2, <2>3, <2>4, Zenon DEF x
  <2>6. \A k \in 1..(n + 1) : Emitting(k, c, v) => \E i \in 1..Len(f) : f[i] = Entry(k, c, v)
    BY <1>1, <1>2, <2>3, <2>4, Zenon DEF x
  <2>7. Exact(f, n + 1, c, v)
    BY <2>3, <2>5, <2>6, Zenon DEF Exact
  <2>8. QED
    BY <1>4, <2>7, Zenon DEF f, x
<1>5. QED
  BY <1>3, <1>4, Zenon

LEMMA Emitted ==
    ASSUME TypeOK, NEW c \in Contexts, NEW v
    PROVE  \A n \in 0..Len(Order) : Exact(Emission(c, v)[n], n, c, v)
<1> DEFINE S == {n \in Nat : n <= Len(Order) => Exact(Emission(c, v)[n], n, c, v)}
<1>1. 0 \in S
  <2>1. Exact(<<>>, 0, c, v)
    BY DEF Exact
  <2>2. QED
    BY <2>1, EmissionStep
<1>2. ASSUME NEW n \in Nat, n \in S PROVE n + 1 \in S
  <2>1. SUFFICES ASSUME n + 1 <= Len(Order) PROVE Exact(Emission(c, v)[n + 1], n + 1, c, v)
    OBVIOUS
  <2>2. n + 1 \in 1..Len(Order) /\ n <= Len(Order) /\ (n + 1) - 1 = n
    BY <2>1, OrderType
  <2>3. Exact(Emission(c, v)[n], n, c, v)
    BY <1>2, <2>2
  <2>4. Emission(c, v)[n + 1] = IF Emitting(n + 1, c, v)
                                THEN Append(Emission(c, v)[n], Entry(n + 1, c, v))
                                ELSE Emission(c, v)[n]
    BY <2>2, EmissionStep
  <2>5. Entry(n + 1, c, v) \in Decisions
    BY <2>2, EntryType
  <2>6. QED
    BY <2>3, <2>4, <2>5, AppendExact
<1>3. QED
  <2> HIDE DEF S
  <2>1. Nat \subseteq S
    BY <1>1, <1>2, Induction
  <2>2. \A n \in 0..Len(Order) : n \in Nat /\ n <= Len(Order)
    BY OrderType
  <2>3. QED
    BY <2>1, <2>2 DEF S

-----------------------------------------------------------------------------
(* The stream of decisions only grows.                                      *)

Appended ==
    /\ decisions' \in Seq(Decisions) /\ Len(decisions) <= Len(decisions')
    /\ \A i \in 1..Len(decisions) : decisions'[i] = decisions[i]

LEMMA EmissionAppended ==
    ASSUME TypeOK, NEW c \in Contexts, NEW v, NEW m \in 0..Len(Order),
           decisions' = decisions \o Emission(c, v)[m]
    PROVE  /\ Appended
           /\ \A i \in (Len(decisions) + 1)..Len(decisions') :
                 \E k \in 1..m : decisions'[i] = Entry(k, c, v)
           /\ \A k \in 1..m : Emitting(k, c, v) =>
                 \E i \in (Len(decisions) + 1)..Len(decisions') : decisions'[i] = Entry(k, c, v)
<1> DEFINE e == Emission(c, v)[m]
<1>1. Exact(e, m, c, v)
  BY Emitted
<1> HIDE DEF e
<1>2. e \in Seq(Decisions) /\ decisions \in Seq(Decisions) /\ decisions' = decisions \o e
  BY <1>1 DEF Exact, TypeOK, StreamTypes, e
<1>3. /\ decisions' \in Seq(Decisions)
      /\ Len(decisions) \in Nat /\ Len(e) \in Nat /\ Len(decisions') = Len(decisions) + Len(e)
      /\ \A i \in 1..Len(decisions) : decisions'[i] = decisions[i]
      /\ \A i \in 1..Len(e) : decisions'[Len(decisions) + i] = e[i]
  BY <1>2, ConcatProperties
<1>4. \A i \in (Len(decisions) + 1)..Len(decisions') : \E k \in 1..m : decisions'[i] = Entry(k, c, v)
  <2>1. TAKE i \in (Len(decisions) + 1)..Len(decisions')
  <2>2. i - Len(decisions) \in 1..Len(e) /\ Len(decisions) + (i - Len(decisions)) = i
    BY <1>3
  <2>3. decisions'[i] = e[i - Len(decisions)]
    BY <1>3, <2>2
  <2>4. QED
    BY <1>1, <2>2, <2>3 DEF Exact
<1>5. \A k \in 1..m : Emitting(k, c, v) =>
         \E i \in (Len(decisions) + 1)..Len(decisions') : decisions'[i] = Entry(k, c, v)
  <2>1. TAKE k \in 1..m
  <2>2. HAVE Emitting(k, c, v)
  <2>3. PICK i \in 1..Len(e) : e[i] = Entry(k, c, v)
    BY <1>1, <2>2 DEF Exact
  <2>4. Len(decisions) + i \in (Len(decisions) + 1)..Len(decisions')
    BY <1>3
  <2>5. QED
    BY <1>3, <2>3, <2>4
<1>6. Len(decisions) <= Len(decisions')
  BY <1>3
<1>7. QED
  BY <1>3, <1>4, <1>5, <1>6, Zenon DEF Appended

LEMMA SameAppended ==
    ASSUME TypeOK, UNCHANGED decisions PROVE Appended
BY DEF TypeOK, StreamTypes, Appended

LEMMA PrefixSays ==
    ASSUME NEW d, NEW e, NEW n \in Nat, \A i \in 1..n : e[i] = d[i], NEW s, NEW p
    PROVE  /\ Latest(d, s, n, p) => Latest(e, s, n, p)
           /\ Unheard(d, s, n) => Unheard(e, s, n)
<1>1. \A i \in 1..n : \A j \in (i + 1)..n : j \in 1..n
  OBVIOUS
<1>2. QED
  BY <1>1, Zenon DEF Latest, Unheard

LEMMA GrantedStays ==
    ASSUME TypeOK, Granted, Appended, UNCHANGED <<ralloc, rlast>>
    PROVE  Granted'
<1>1. rlast \in Nat /\ \A i \in 1..rlast : decisions'[i] = decisions[i]
  BY DEF TypeOK, RiskTypes, StreamTypes, Appended
<1>2. \A s, p : /\ Latest(decisions, s, rlast, p) => Latest(decisions', s, rlast, p)
                /\ Unheard(decisions, s, rlast) => Unheard(decisions', s, rlast)
  BY <1>1, PrefixSays
<1>3. QED
  BY <1>2 DEF Granted

\* The last of the first n decisions of a longer stream, when the rest does not
\* speak of s; and when it does, always with the same percentage.
LEMMA LatestGrows ==
    ASSUME NEW d, NEW e, NEW n \in Nat, NEW m \in Nat, n <= m, \A i \in 1..n : e[i] = d[i],
           NEW s, NEW p, \A i \in (n + 1)..m : e[i].strategy = s => e[i].pct = p,
           \/ Latest(d, s, n, p)
           \/ \E i \in (n + 1)..m : e[i].strategy = s
    PROVE  Latest(e, s, m, p)
<1> DEFINE S == {i \in 1..m : e[i].strategy = s}
<1>1. CASE \E i \in (n + 1)..m : e[i].strategy = s
  <2>1. PICK i \in (n + 1)..m : e[i].strategy = s
    BY <1>1
  <2>2. i \in S /\ S \in SUBSET (1..m)
    BY <2>1
  <2>3. PICK l \in S : \A k \in S : k <= l
    BY <2>2, LastIndex
  <2>4. l \in 1..m /\ i <= l /\ e[l].strategy = s
    BY <2>2, <2>3
  <2>5. l \in (n + 1)..m
    BY <2>4
  <2>6. \A j \in (l + 1)..m : e[j].strategy # s
    <3>1. \A j \in (l + 1)..m : j \in 1..m /\ ~(j <= l)
      BY <2>4
    <3>2. QED
      BY <2>3, <3>1
  <2>7. QED
    BY <2>4, <2>5, <2>6 DEF Latest
<1>2. CASE ~\E i \in (n + 1)..m : e[i].strategy = s
  <2>1. PICK i \in 1..n : /\ d[i].strategy = s /\ d[i].pct = p
                          /\ \A j \in (i + 1)..n : d[j].strategy # s
    BY <1>2 DEF Latest
  <2>2. i \in 1..m /\ e[i].strategy = s /\ e[i].pct = p
    BY <2>1
  <2>3. \A j \in (i + 1)..m : j \in (n + 1)..m \/ (j \in (i + 1)..n /\ j \in 1..n)
    OBVIOUS
  <2>4. \A j \in (i + 1)..m : e[j].strategy # s
    BY <1>2, <2>1, <2>3
  <2>5. QED
    BY <2>2, <2>4 DEF Latest
<1>3. QED
  BY <1>1, <1>2

\* Two last decisions are the same one.
LEMMA LatestUnique ==
    ASSUME NEW d, NEW n \in Nat, NEW s, NEW p, NEW q, Latest(d, s, n, p), Latest(d, s, n, q)
    PROVE  p = q
<1>1. PICK i \in 1..n : /\ d[i].strategy = s /\ d[i].pct = p
                        /\ \A j \in (i + 1)..n : d[j].strategy # s
  BY DEF Latest
<1>2. PICK k \in 1..n : /\ d[k].strategy = s /\ d[k].pct = q
                        /\ \A j \in (k + 1)..n : d[j].strategy # s
  BY DEF Latest
<1>3. i = k \/ i \in (k + 1)..n \/ k \in (i + 1)..n
  OBVIOUS
<1>4. QED
  BY <1>1, <1>2, <1>3

-----------------------------------------------------------------------------
(* A pass over the rules: the state of the first n strategies is new, and   *)
(* the first m of them have been emitted for.                               *)

Pass(m, n, c, v) ==
    /\ allocations' = [s \in Strategies |-> IF s \in First(n) THEN Updated(s, c, v[s])
                                            ELSE allocations[s]]
    /\ decisions' = decisions \o Emission(c, v)[m]

LEMMA FirstIs ==
    /\ First(Len(Order)) = Strategies
    /\ \A n \in 1..Len(Order) : First(n) \subseteq Strategies
    /\ \A n \in 1..Len(Order) : \A k \in 1..n : Order[k] \in First(n)
BY OrderType DEF First

LEMMA RecomputePasses ==
    ASSUME NEW c, Recompute(c)
    PROVE  \E v : Pass(Len(Order), Len(Order), c, v)
<1>1. PICK v \in Verdicts(c) :
          /\ allocations' = [s \in Strategies |-> Updated(s, c, v[s])]
          /\ decisions' = decisions \o Emission(c, v)[Len(Order)]
  BY DEF Recompute
<1>2. QED
  BY <1>1, FirstIs DEF Pass

LEMMA PassTypes ==
    ASSUME TypeOK, NEW c \in Contexts, NEW v, NEW m \in 0..Len(Order), NEW n \in 0..Len(Order),
           Pass(m, n, c, v)
    PROVE  /\ Appended
           /\ allocations' \in [Strategies -> Allocations]
<1>1. Appended
  BY EmissionAppended DEF Pass
<1>2. \A s \in Strategies : Updated(s, c, v[s]) \in Allocations /\ allocations[s] \in Allocations
  BY UpdatedIs DEF TypeOK, ServiceTypes
<1>3. QED
  BY <1>1, <1>2 DEF Pass

\* What was emitted says what the state has become.
LEMMA PassEntries ==
    ASSUME TypeOK, NEW c \in Contexts, NEW v, NEW m \in 0..Len(Order), NEW n \in 0..Len(Order),
           m <= n, Pass(m, n, c, v)
    PROVE  \A i \in (Len(decisions) + 1)..Len(decisions') :
              /\ decisions'[i].strategy \in First(n) /\ decisions'[i].strategy \in Strategies
              /\ decisions'[i].pct = allocations'[decisions'[i].strategy].pct
              /\ decisions'[i].cooldown = allocations'[decisions'[i].strategy].cooldown
<1>1. TAKE i \in (Len(decisions) + 1)..Len(decisions')
<1>2. PICK k \in 1..m : decisions'[i] = Entry(k, c, v)
  BY EmissionAppended DEF Pass
<1>3. k \in 1..n /\ k \in 1..Len(Order) /\ n \in 1..Len(Order)
  BY <1>2, OrderType
<1>4. Order[k] \in First(n) /\ Order[k] \in Strategies
  BY <1>3, FirstIs, OrderType
<1>5. allocations'[Order[k]] = New(k, c, v)
  BY <1>4 DEF Pass, New
<1>6. /\ Entry(k, c, v).strategy = Order[k] /\ Entry(k, c, v).pct = New(k, c, v).pct
      /\ Entry(k, c, v).cooldown = New(k, c, v).cooldown
  BY <1>3, EntryType
<1>7. QED
  BY <1>2, <1>4, <1>5, <1>6

LEMMA PassRecorded ==
    ASSUME TypeOK, Recorded, NEW c \in Contexts, NEW v, Pass(Len(Order), Len(Order), c, v),
           UNCHANGED faults
    PROVE  Recorded'
<1> DEFINE N == Len(Order)
           m == Len(decisions)
           l == Len(decisions')
           e == decisions'
<1>1. N \in 0..N /\ N <= N
  BY OrderType
<1>2. SUFFICES ASSUME "bootstrap" \notin faults, NEW s \in Strategies
               PROVE  Latest(e, s, l, allocations'[s].pct)
  BY DEF Recorded
<1> DEFINE p == allocations'[s].pct
<1>3. PICK k \in 1..N : s = Order[k]
  BY OrderType
<1>4. Appended
  BY <1>1, PassTypes
<1>5. m \in Nat /\ l \in Nat /\ m <= l /\ \A i \in 1..m : e[i] = decisions[i]
  BY <1>4 DEF Appended, TypeOK, StreamTypes
<1>6. \A i \in (m + 1)..l : e[i].strategy = s => e[i].pct = p
  BY <1>1, PassEntries
<1>7. allocations'[s] = Updated(s, c, v[s])
  BY FirstIs DEF Pass
<1> HIDE DEF e, p
<1>8. ASSUME Emitting(k, c, v) PROVE Latest(e, s, l, p)
  <2>1. PICK i \in (m + 1)..l : decisions'[i] = Entry(k, c, v)
    BY <1>1, <1>3, <1>8, EmissionAppended DEF Pass
  <2>2. decisions'[i].strategy = s
    BY <1>3, <2>1, EntryType
  <2>3. \E j \in (m + 1)..l : e[j].strategy = s
    BY <2>2 DEF e
  <2> HIDE DEF m, l
  <2>4. QED
    BY <1>5, <1>6, <2>3, LatestGrows
<1>9. ASSUME ~Emitting(k, c, v) PROVE Latest(e, s, l, p)
  <2>1. ~allocations[s].fresh /\ allocations'[s].pct = allocations[s].pct
    BY <1>3, <1>7, <1>9 DEF Emitting, Emits, New
  <2>2. Latest(decisions, s, m, p)
    BY <1>2, <2>1 DEF Recorded, p
  <2> HIDE DEF m, l
  <2>3. QED
    BY <1>5, <1>6, <2>2, LatestGrows
<1>10. QED
  BY <1>8, <1>9 DEF p

LEMMA PassShut ==
    ASSUME TypeOK, NEW c \in Contexts, NEW v, Pass(Len(Order), Len(Order), c, v),
           NEW s \in c.shut
    PROVE  allocations'[s].pct = 0 /\ ~allocations'[s].fresh
<1>1. s \in Strategies
  BY DEF Contexts
<1>2. allocations'[s] = Updated(s, c, v[s])
  BY <1>1, FirstIs DEF Pass
<1>3. QED
  BY <1>1, <1>2, UpdatedIs

LEMMA PassCooling ==
    ASSUME TypeOK, Cooling, NEW c \in Contexts, c.ts <= now, NEW v,
           NEW m \in 0..Len(Order), NEW n \in 0..Len(Order), m <= n, Pass(m, n, c, v),
           UNCHANGED now, "allocation" \in faults => "allocation" \in faults'
    PROVE  Cooling'
<1>1. Appended
  BY PassTypes
<1>2. \A s \in Strategies : allocations'[s] = Updated(s, c, v[s]) \/ allocations'[s] = allocations[s]
  BY DEF Pass
<1>3. \A s \in Strategies : /\ allocations[s].pct \in Nat /\ allocations[s].cooldown \in Int
                            /\ Updated(s, c, v[s]).pct \in Nat
  BY UpdatedIs DEF TypeOK, ServiceTypes, Allocations
<1>4. ASSUME NEW s \in Strategies, allocations'[s].pct > 0 PROVE allocations'[s].cooldown = None
  <2>1. CASE allocations'[s] = allocations[s]
    BY <1>4, <2>1 DEF Cooling
  <2>2. CASE allocations'[s] = Updated(s, c, v[s])
    BY <1>3, <1>4, <2>2, UpdatedIs
  <2>3. QED
    BY <1>2, <2>1, <2>2
<1>5. ASSUME "allocation" \notin faults', NEW i \in DOMAIN decisions'
      PROVE  \/ decisions'[i].cooldown <= now
             \/ decisions'[i].cooldown = allocations'[decisions'[i].strategy].cooldown
  <2>1. Len(decisions) \in Nat /\ Len(decisions') \in Nat /\ i \in 1..Len(decisions')
    BY <1>1, <1>5 DEF Appended, TypeOK, StreamTypes
  <2>2. CASE i \in (Len(decisions) + 1)..Len(decisions')
    BY <2>2, PassEntries
  <2>3. CASE i \in 1..Len(decisions)
    <3> DEFINE s == decisions[i].strategy
               x == decisions[i].cooldown
               u == Updated(s, c, v[s])
    <3>0. decisions[i] \in Decisions
      BY <2>3 DEF TypeOK, StreamTypes
    <3>1. decisions'[i] = decisions[i] /\ i \in DOMAIN decisions /\ s \in Strategies /\ x \in Int
      <4>1. decisions'[i] = decisions[i]
        BY <1>1, <2>3 DEF Appended
      <4>2. i \in DOMAIN decisions
        BY <2>3 DEF TypeOK, StreamTypes
      <4>3. s \in Strategies /\ x \in Int
        BY <3>0 DEF Decisions
      <4>4. QED
        BY <4>1, <4>2, <4>3
    <3>2. x <= now \/ x = allocations[s].cooldown
      BY <1>5, <3>1 DEF Cooling
    <3>3. allocations[s].pct > 0 => allocations[s].cooldown = None
      BY <3>1 DEF Cooling
    <3>4. now \in Nat /\ c.ts \in Nat /\ c.ts <= now /\ None <= now
      BY DEF TypeOK, StreamTypes, Contexts, None
    <3>5. /\ Cooled(s, c) # allocations[s].cooldown => allocations[s].cooldown <= c.ts
          /\ u.cooldown = IF allocations[s].pct > 0 /\ u.pct = 0 THEN c.ts + Cooldown
                          ELSE Cooled(s, c)
      BY <3>1, UpdatedIs
    <3>6. allocations[s].pct \in Nat /\ allocations[s].cooldown \in Int
      BY <1>3, <3>1
    <3>7. allocations'[s] = u \/ allocations'[s] = allocations[s]
      BY <1>2, <3>1
    <3> HIDE DEF s, x, u
    <3>8. x <= now \/ x = u.cooldown
      BY <3>1, <3>2, <3>3, <3>4, <3>5, <3>6
    <3>9. x <= now \/ x = allocations'[s].cooldown
      BY <3>2, <3>7, <3>8
    <3>10. QED
      BY <3>1, <3>9 DEF s, x
  <2>4. QED
    BY <2>1, <2>2, <2>3
<1>6. QED
  BY <1>4, <1>5 DEF Cooling

-----------------------------------------------------------------------------
(* The actions.                                                             *)

\* No allocation begins before the cooldowns the strategy was given have passed.
Respects ==
    \A s \in Strategies :
        "allocation" \notin faults /\ allocations[s].pct = 0 /\ allocations'[s].pct > 0 =>
            \A i \in DOMAIN decisions :
                decisions[i].strategy = s => decisions[i].cooldown <= now

LEMMA SameRespects == ASSUME UNCHANGED allocations PROVE Respects
BY DEF Respects

LEMMA PassRespects ==
    ASSUME AllocationInv, NEW c \in Contexts, c.ts <= now, NEW v, NEW m, NEW n, Pass(m, n, c, v)
    PROVE  Respects
<1>1. SUFFICES ASSUME NEW s \in Strategies, "allocation" \notin faults,
                      allocations[s].pct = 0, allocations'[s].pct > 0,
                      NEW i \in DOMAIN decisions, decisions[i].strategy = s
               PROVE  decisions[i].cooldown <= now
  BY DEF Respects
<1>2. TypeOK /\ Cooling
  BY DEF AllocationInv
<1>3. allocations'[s] = Updated(s, c, v[s]) \/ allocations'[s] = allocations[s]
  BY DEF Pass
<1>4. Updated(s, c, v[s]).pct > 0
  BY <1>1, <1>3
<1>5. Cooled(s, c) = None /\ (Cooled(s, c) # allocations[s].cooldown => allocations[s].cooldown <= c.ts)
  BY <1>2, <1>4, UpdatedIs
<1>6. now \in Nat /\ c.ts \in Nat /\ allocations[s].cooldown \in Int
  BY <1>2 DEF TypeOK, StreamTypes, ServiceTypes, Allocations, Contexts
<1>7. allocations[s].cooldown <= now
  BY <1>5, <1>6 DEF None
<1>8. decisions[i].cooldown <= now \/ decisions[i].cooldown = allocations[s].cooldown
  BY <1>1, <1>2 DEF Cooling
<1>9. QED
  BY <1>7, <1>8

LEMMA RecomputeStep ==
    ASSUME AllocationInv, NEW c \in Contexts, c.ts <= now, Recompute(c),
           UNCHANGED <<now, faults, ralloc, rlast>>
    PROVE  /\ Appended /\ allocations' \in [Strategies -> Allocations]
           /\ Recorded' /\ Granted' /\ Cooling' /\ Respects
           /\ \A s \in c.shut : allocations'[s].pct = 0 /\ ~allocations'[s].fresh
<1>1. PICK v : Pass(Len(Order), Len(Order), c, v)
  BY RecomputePasses
<1>2. Len(Order) \in 0..Len(Order) /\ Len(Order) <= Len(Order)
  BY OrderType
<1>3. TypeOK /\ Recorded /\ Granted /\ Cooling
  BY DEF AllocationInv
<1>4. Appended /\ allocations' \in [Strategies -> Allocations]
  BY <1>1, <1>2, <1>3, PassTypes
<1>5. Recorded'
  BY <1>1, <1>3, PassRecorded
<1>6. Granted'
  BY <1>3, <1>4, GrantedStays
<1>7. Cooling'
  BY <1>1, <1>2, <1>3, PassCooling
<1>8. \A s \in c.shut : allocations'[s].pct = 0 /\ ~allocations'[s].fresh
  BY <1>1, <1>3, PassShut
<1>9. Respects
  BY <1>1, <1>2, PassRespects
<1>10. QED
  BY <1>4, <1>5, <1>6, <1>7, <1>8, <1>9

LEMMA NoRecomputeStep ==
    ASSUME AllocationInv, NoRecompute, UNCHANGED <<now, faults, ralloc, rlast>>
    PROVE  /\ Appended /\ allocations' \in [Strategies -> Allocations]
           /\ Recorded' /\ Granted' /\ Cooling' /\ Respects
<1>1. TypeOK /\ Recorded /\ Granted /\ Cooling /\ UNCHANGED <<allocations, decisions>>
  BY DEF AllocationInv, NoRecompute
<1>2. Appended
  BY <1>1, SameAppended
<1>3. allocations' \in [Strategies -> Allocations]
  BY <1>1 DEF TypeOK, ServiceTypes
<1>4. Granted'
  BY <1>1, <1>2, GrantedStays
<1>5. Recorded' /\ Cooling'
  BY <1>1 DEF Recorded, Cooling
<1>6. Respects
  BY <1>1, SameRespects
<1>7. QED
  BY <1>2, <1>3, <1>4, <1>5, <1>6

\* A handler that has done with the stream: what is left of the types.
LEMMA HandlerTypes ==
    ASSUME TypeOK, InPast, Appended, allocations' \in [Strategies -> Allocations],
           UNCHANGED <<now, streams, risk>>,
           up' \in {"start", "run"}, current_regime' \in Regimes,
           candidate' \in Regimes \cup {"none"}, since' \in Int,
           shutdown_ids' \in SUBSET Strategies,
           last_regime' \in Nat, last_fill' \in Nat, last_shutdown' \in Nat,
           faults' \in SUBSET {"bootstrap", "allocation", "risk"}, restarts' \in Nat
    PROVE  TypeOK' /\ InPast'
<1>1. StreamTypes'
  BY DEF TypeOK, StreamTypes, Appended, streams
<1>2. ServiceTypes'
  BY DEF ServiceTypes
<1>3. rlast' \in 0..Len(decisions')
  <2>1. rlast \in 0..Len(decisions) /\ rlast' = rlast
    BY DEF TypeOK, RiskTypes, risk
  <2>2. Len(decisions) \in Nat /\ Len(decisions') \in Nat /\ Len(decisions) <= Len(decisions')
    BY DEF TypeOK, StreamTypes, Appended
  <2>3. QED
    BY <2>1, <2>2
<1>4. RiskTypes'
  BY <1>3 DEF TypeOK, RiskTypes, risk
<1>5. QED
  BY <1>1, <1>2, <1>4 DEF TypeOK, InPast, streams

LEMMA ElementAt ==
    ASSUME NEW S, NEW q \in Seq(S), NEW i \in DOMAIN q PROVE q[i] \in S
OBVIOUS

LEMMA EntriesAre ==
    ASSUME TypeOK, InPast
    PROVE  /\ \A i \in DOMAIN regimes : /\ regimes[i] \in [ts : Nat, regime : Regimes]
                                       /\ regimes[i].ts <= now
           /\ \A i \in DOMAIN fills : fills[i] \in [ts : Nat] /\ fills[i].ts <= now
           /\ \A i \in DOMAIN shutdowns : /\ shutdowns[i] \in [ts : Nat, strategy : Strategies]
                                         /\ shutdowns[i].ts <= now
<1>1. \A i \in DOMAIN regimes : regimes[i] \in [ts : Nat, regime : Regimes]
  BY ElementAt, Zenon DEF TypeOK, StreamTypes
<1>2. \A i \in DOMAIN fills : fills[i] \in [ts : Nat]
  BY ElementAt, Zenon DEF TypeOK, StreamTypes
<1>3. \A i \in DOMAIN shutdowns : shutdowns[i] \in [ts : Nat, strategy : Strategies]
  BY ElementAt, Zenon DEF TypeOK, StreamTypes
<1>4. QED
  BY <1>1, <1>2, <1>3 DEF InPast

LEMMA StartStep ==
    ASSUME AllocationInv, ServiceStart PROVE AllocationInv' /\ Respects
<1>1. /\ up = "start" /\ up' = "run" /\ last_regime' = Len(regimes)
      /\ UNCHANGED <<now, streams, candidate, since, shutdown_ids, last_fill, last_shutdown,
                     risk, faults, restarts>>
  BY DEF ServiceStart
<1>2. TypeOK /\ InPast /\ ShutOff
  BY DEF AllocationInv
<1>3. UNCHANGED <<now, faults, ralloc, rlast>>
  BY <1>1 DEF risk
<1>4. regimes \in Seq([ts : Nat, regime : Regimes])
  BY <1>2 DEF TypeOK, StreamTypes
<1>5. shutdown_ids' = {}
  BY <1>1, <1>2 DEF ShutOff
<1>6. /\ Appended /\ allocations' \in [Strategies -> Allocations]
      /\ Recorded' /\ Granted' /\ Cooling' /\ Respects /\ current_regime' \in Regimes
  <2>1. CASE regimes = <<>>
    <3>1. NoRecompute /\ current_regime' = current_regime
      BY <2>1 DEF ServiceStart
    <3>2. QED
      BY <1>2, <1>3, <3>1, NoRecomputeStep DEF TypeOK, ServiceTypes
  <2>2. CASE regimes # <<>>
    <3> DEFINE r == Last(regimes)
               c == Context(r.ts, r.regime, {}, 0)
    <3>1. current_regime' = r.regime /\ Recompute(c)
      BY <2>2 DEF ServiceStart
    <3>2. Len(regimes) \in DOMAIN regimes /\ r = regimes[Len(regimes)]
      BY <1>4, <2>2 DEF Last
    <3>3. r \in [ts : Nat, regime : Regimes] /\ r.ts <= now
      BY <1>2, <3>2, EntriesAre
    <3>4. c \in Contexts /\ c.ts <= now
      BY <3>3 DEF Context, Contexts
    <3> HIDE DEF r, c
    <3>5. QED
      BY <1>3, <3>1, <3>3, <3>4, RecomputeStep
  <2>3. QED
    BY <2>1, <2>2
<1>7. TypeOK' /\ InPast'
  <2>1. last_regime' \in Nat
    BY <1>1, <1>4
  <2>2. QED
    BY <1>1, <1>2, <1>6, <2>1, HandlerTypes DEF TypeOK, ServiceTypes, RiskTypes
<1>8. ShutOff'
  BY <1>5 DEF ShutOff
<1>9. QED
  BY <1>6, <1>7, <1>8 DEF AllocationInv

LEMMA BootstrapFailsStep ==
    ASSUME AllocationInv, BootstrapFails PROVE AllocationInv' /\ Respects
<1>1. /\ up = "start" /\ up' = "run" /\ restarts' = restarts + 1
      /\ faults' = faults \cup {"bootstrap"}
      /\ UNCHANGED <<now, streams, candidate, since, shutdown_ids, last_regime, last_fill,
                     last_shutdown, risk>>
  BY DEF BootstrapFails
<1>2. TypeOK /\ InPast /\ ShutOff /\ Cooling /\ Granted
  BY DEF AllocationInv
<1>3. UNCHANGED <<now, ralloc, rlast>> /\ ("allocation" \in faults => "allocation" \in faults')
  BY <1>1 DEF risk
<1>4. regimes \in Seq([ts : Nat, regime : Regimes])
  BY <1>2 DEF TypeOK, StreamTypes
<1>5. shutdown_ids' = {}
  BY <1>1, <1>2 DEF ShutOff
<1>6. /\ Appended /\ allocations' \in [Strategies -> Allocations]
      /\ Cooling' /\ Respects /\ current_regime' \in Regimes
  <2>1. CASE NoRecompute /\ UNCHANGED current_regime
    <3>1. Appended
      BY <1>2, <2>1, SameAppended DEF NoRecompute
    <3>2. Cooling'
      BY <1>2, <1>3, <2>1 DEF Cooling, NoRecompute
    <3>3. Respects
      BY <2>1, SameRespects DEF NoRecompute
    <3>4. QED
      BY <1>2, <2>1, <3>1, <3>2, <3>3 DEF NoRecompute, TypeOK, ServiceTypes
  <2>2. CASE ~(NoRecompute /\ UNCHANGED current_regime)
    <3> DEFINE r == Last(regimes)
               c == Context(r.ts, r.regime, {}, 0)
    <3>1. regimes # <<>> /\ current_regime' = r.regime
      BY <2>2 DEF BootstrapFails
    <3>2. PICK n \in DOMAIN Order, v \in Verdicts(c) : Pass(n - 1, n, c, v)
      BY <2>2 DEF BootstrapFails, Pass
    <3>3. Len(regimes) \in DOMAIN regimes /\ r = regimes[Len(regimes)]
      BY <1>4, <3>1 DEF Last
    <3>4. r \in [ts : Nat, regime : Regimes] /\ r.ts <= now
      BY <1>2, <3>3, EntriesAre
    <3>5. c \in Contexts /\ c.ts <= now
      BY <3>4 DEF Context, Contexts
    <3>6. n \in 0..Len(Order) /\ n - 1 \in 0..Len(Order) /\ n - 1 <= n
      BY OrderType
    <3> HIDE DEF r, c
    <3>7. Appended /\ allocations' \in [Strategies -> Allocations]
      BY <1>2, <3>2, <3>5, <3>6, PassTypes
    <3>8. Cooling'
      BY <1>2, <1>3, <3>2, <3>5, <3>6, PassCooling
    <3>9. Respects
      BY <3>2, <3>5, <3>6, PassRespects
    <3>10. QED
      BY <3>1, <3>4, <3>7, <3>8, <3>9
  <2>3. QED
    BY <2>1, <2>2
<1>7. TypeOK' /\ InPast'
  <2>1. /\ restarts' \in Nat
        /\ faults' \in SUBSET {"bootstrap", "allocation", "risk"}
    BY <1>1, <1>2 DEF TypeOK, RiskTypes
  <2>2. QED
    BY <1>1, <1>2, <1>6, <2>1, HandlerTypes DEF TypeOK, ServiceTypes, RiskTypes
<1>8. Granted'
  BY <1>2, <1>3, <1>6, GrantedStays
<1>9. ShutOff' /\ Recorded'
  BY <1>1, <1>5 DEF ShutOff, Recorded
<1>10. QED
  BY <1>6, <1>7, <1>8, <1>9 DEF AllocationInv

LEMMA RegimeStep ==
    ASSUME AllocationInv, HandleRegime PROVE AllocationInv' /\ Respects
<1> DEFINE e == regimes[last_regime + 1]
           c == Context(e.ts, e.regime, shutdown_ids, last_fill)
<1>1. /\ up = "run" /\ last_regime < Len(regimes) /\ last_regime' = last_regime + 1
      /\ UNCHANGED <<now, streams, up, shutdown_ids, last_fill, last_shutdown, risk, faults, restarts>>
  BY DEF HandleRegime
<1>2. TypeOK /\ InPast /\ ShutOff
  BY DEF AllocationInv
<1>3. UNCHANGED <<now, faults, ralloc, rlast>>
  BY <1>1 DEF risk
<1>4. last_regime + 1 \in DOMAIN regimes
  BY <1>1, <1>2 DEF TypeOK, StreamTypes, ServiceTypes
<1>5. e \in [ts : Nat, regime : Regimes] /\ e.ts <= now
  BY <1>2, <1>4, EntriesAre
<1>6. \/ /\ NoRecompute /\ UNCHANGED current_regime
         /\ \/ candidate' = "none" /\ since' = None
            \/ candidate' = e.regime /\ since' = e.ts
            \/ UNCHANGED <<candidate, since>>
      \/ /\ Recompute(c) /\ current_regime' = e.regime
         /\ candidate' = "none" /\ since' = None
  BY DEF HandleRegime, NoCandidate
<1>7. /\ candidate' \in Regimes \cup {"none"} /\ since' \in Int /\ current_regime' \in Regimes
  BY <1>2, <1>5, <1>6 DEF TypeOK, ServiceTypes, None
<1>8. c \in Contexts /\ c.ts <= now /\ c.shut = shutdown_ids
  BY <1>2, <1>5 DEF Context, Contexts, TypeOK, ServiceTypes
<1> HIDE DEF e, c
<1>9. /\ Appended /\ allocations' \in [Strategies -> Allocations]
      /\ Recorded' /\ Granted' /\ Cooling' /\ Respects
      /\ \A s \in shutdown_ids : allocations'[s].pct = 0 /\ ~allocations'[s].fresh
  <2>1. CASE NoRecompute
    BY <1>2, <1>3, <2>1, NoRecomputeStep DEF NoRecompute, ShutOff
  <2>2. CASE Recompute(c)
    BY <1>3, <1>8, <2>2, RecomputeStep
  <2>3. QED
    BY <1>6, <2>1, <2>2
<1>10. TypeOK' /\ InPast'
  <2>1. last_regime' \in Nat
    BY <1>1, <1>2 DEF TypeOK, ServiceTypes
  <2>2. QED
    BY <1>1, <1>2, <1>7, <1>9, <2>1, HandlerTypes DEF TypeOK, ServiceTypes, RiskTypes
<1>11. ShutOff'
  BY <1>1, <1>9 DEF ShutOff
<1>12. QED
  BY <1>9, <1>10, <1>11 DEF AllocationInv

LEMMA FillStep ==
    ASSUME AllocationInv, HandleFill PROVE AllocationInv' /\ Respects
<1> DEFINE k == last_fill + 1
           c == Context(fills[k].ts, current_regime, shutdown_ids, k)
<1>1. /\ up = "run" /\ last_fill < Len(fills) /\ last_fill' = k /\ Recompute(c)
      /\ UNCHANGED <<now, streams, up, current_regime, candidate, since, shutdown_ids,
                     last_regime, last_shutdown, risk, faults, restarts>>
  BY DEF HandleFill
<1>2. TypeOK /\ InPast /\ ShutOff
  BY DEF AllocationInv
<1>3. UNCHANGED <<now, faults, ralloc, rlast>>
  BY <1>1 DEF risk
<1>4. k \in DOMAIN fills /\ k \in Nat
  BY <1>1, <1>2 DEF TypeOK, StreamTypes, ServiceTypes
<1>5. fills[k].ts \in Nat /\ fills[k].ts <= now
  BY <1>2, <1>4, EntriesAre
<1>6. c \in Contexts /\ c.ts <= now /\ c.shut = shutdown_ids
  BY <1>2, <1>4, <1>5 DEF Context, Contexts, TypeOK, ServiceTypes
<1> HIDE DEF k, c
<1>7. /\ Appended /\ allocations' \in [Strategies -> Allocations]
      /\ Recorded' /\ Granted' /\ Cooling' /\ Respects
      /\ \A s \in shutdown_ids : allocations'[s].pct = 0 /\ ~allocations'[s].fresh
  BY <1>1, <1>3, <1>6, RecomputeStep
<1>8. TypeOK' /\ InPast'
  BY <1>1, <1>2, <1>4, <1>7, HandlerTypes DEF TypeOK, ServiceTypes, RiskTypes
<1>9. ShutOff'
  BY <1>1, <1>7 DEF ShutOff
<1>10. QED
  BY <1>7, <1>8, <1>9 DEF AllocationInv

LEMMA ShutdownStep ==
    ASSUME AllocationInv, HandleShutdown PROVE AllocationInv' /\ Respects
<1> DEFINE e == shutdowns[last_shutdown + 1]
           ids == shutdown_ids \cup {e.strategy}
           c == Context(e.ts, current_regime, ids, last_fill)
<1>1. /\ up = "run" /\ last_shutdown < Len(shutdowns) /\ last_shutdown' = last_shutdown + 1
      /\ shutdown_ids' = ids /\ Recompute(c)
      /\ UNCHANGED <<now, streams, up, current_regime, candidate, since, last_regime,
                     last_fill, risk, faults, restarts>>
  BY DEF HandleShutdown
<1>2. TypeOK /\ InPast
  BY DEF AllocationInv
<1>3. UNCHANGED <<now, faults, ralloc, rlast>>
  BY <1>1 DEF risk
<1>4. last_shutdown + 1 \in DOMAIN shutdowns /\ last_shutdown + 1 \in Nat
  BY <1>1, <1>2 DEF TypeOK, StreamTypes, ServiceTypes
<1>5. e \in [ts : Nat, strategy : Strategies] /\ e.ts <= now
  BY <1>2, <1>4, EntriesAre
<1>6. ids \in SUBSET Strategies
  BY <1>2, <1>5 DEF TypeOK, ServiceTypes
<1>7. c \in Contexts /\ c.ts <= now /\ c.shut = ids
  BY <1>2, <1>5, <1>6 DEF Context, Contexts, TypeOK, ServiceTypes
<1> HIDE DEF e, ids, c
<1>8. /\ Appended /\ allocations' \in [Strategies -> Allocations]
      /\ Recorded' /\ Granted' /\ Cooling' /\ Respects
      /\ \A s \in ids : allocations'[s].pct = 0 /\ ~allocations'[s].fresh
  BY <1>1, <1>3, <1>7, RecomputeStep
<1>9. TypeOK' /\ InPast'
  BY <1>1, <1>2, <1>4, <1>6, <1>8, HandlerTypes DEF TypeOK, ServiceTypes, RiskTypes
<1>10. ShutOff'
  BY <1>1, <1>8 DEF ShutOff
<1>11. QED
  BY <1>8, <1>9, <1>10 DEF AllocationInv

LEMMA HandlingTypes ==
    ASSUME TypeOK, InPast, NEW c \in Handling PROVE c \in Contexts
<1>1. \A i \in DOMAIN regimes : regimes[i].ts \in Nat /\ regimes[i].regime \in Regimes
  BY EntriesAre
<1>2. \A i \in DOMAIN fills : fills[i].ts \in Nat /\ i \in Nat
  BY EntriesAre DEF TypeOK, StreamTypes
<1>3. \A i \in DOMAIN shutdowns : shutdowns[i].ts \in Nat /\ shutdowns[i].strategy \in Strategies
  BY EntriesAre
<1>4. current_regime \in Regimes /\ shutdown_ids \in SUBSET Strategies /\ last_fill \in Nat
  BY DEF TypeOK, ServiceTypes
<1>5. \A ts \in Nat, r \in Regimes, h \in SUBSET Strategies, n \in Nat : Context(ts, r, h, n) \in Contexts
  BY DEF Context, Contexts
<1>6. CASE \E i \in DOMAIN regimes : c = Context(regimes[i].ts, regimes[i].regime, shutdown_ids, last_fill)
  BY <1>1, <1>4, <1>5, <1>6
<1>7. CASE \E i \in DOMAIN fills : c = Context(fills[i].ts, current_regime, shutdown_ids, i)
  BY <1>2, <1>4, <1>5, <1>7
<1>8. CASE \E i \in DOMAIN shutdowns :
              c = Context(shutdowns[i].ts, current_regime,
                          shutdown_ids \cup {shutdowns[i].strategy}, last_fill)
  BY <1>3, <1>4, <1>5, <1>8
<1>9. QED
  BY <1>6, <1>7, <1>8, Zenon DEF Handling

LEMMA CrashStep ==
    ASSUME AllocationInv, ServiceCrash PROVE AllocationInv' /\ Respects
<1>1. /\ restarts' = restarts + 1 /\ faults' = faults \cup {"allocation"}
      /\ up' = "start" /\ current_regime' = "UNKNOWN" /\ candidate' = "none" /\ since' = None
      /\ allocations' = [s \in Strategies |-> NoState] /\ shutdown_ids' = {}
      /\ last_regime' = 0 /\ last_fill' = 0 /\ last_shutdown' = 0
      /\ UNCHANGED <<now, streams, risk>>
  BY DEF ServiceCrash, Lost
<1>2. TypeOK /\ InPast /\ Granted
  BY DEF AllocationInv
<1>3. Appended
  <2>1. CASE UNCHANGED decisions
    BY <1>2, <2>1, SameAppended
  <2>2. CASE ~UNCHANGED decisions
    <3>1. PICK c \in Handling, n \in 1..(Len(Order) - 1) :
             \E v \in Verdicts(c) : decisions' = decisions \o Emission(c, v)[n]
      BY <2>2 DEF ServiceCrash
    <3>2. PICK v \in Verdicts(c) : decisions' = decisions \o Emission(c, v)[n]
      BY <3>1
    <3>3. n \in 0..Len(Order)
      BY OrderType
    <3>4. c \in Contexts
      BY <1>2, HandlingTypes
    <3>5. QED
      BY <1>2, <3>2, <3>3, <3>4, EmissionAppended
  <2>3. QED
    BY <2>1, <2>2
<1>4. Granted'
  BY <1>1, <1>2, <1>3, GrantedStays DEF risk
<1>5. /\ allocations' \in [Strategies -> Allocations]
      /\ \A s \in Strategies : allocations'[s].fresh /\ allocations'[s].pct = 0
  BY <1>1 DEF NoState, Allocations, None
<1>6. TypeOK' /\ InPast'
  <2>1. /\ restarts' \in Nat /\ faults' \in SUBSET {"bootstrap", "allocation", "risk"}
        /\ since' \in Int /\ current_regime' \in Regimes
    BY <1>1, <1>2, AllocationAssumption DEF TypeOK, RiskTypes, None
  <2>2. QED
    BY <1>1, <1>2, <1>3, <1>5, <2>1, HandlerTypes
<1>7. Recorded' /\ ShutOff' /\ Cooling'
  BY <1>1, <1>5 DEF Recorded, ShutOff, Cooling
<1>8. QED
  BY <1>4, <1>5, <1>6, <1>7 DEF AllocationInv, Respects

LEMMA EntryAdded ==
    ASSUME NEW S, NEW q \in Seq(S), NEW e \in S, NEW u, e.ts <= u, \A i \in DOMAIN q : q[i].ts <= u
    PROVE  /\ Append(q, e) \in Seq(S)
           /\ \A i \in DOMAIN Append(q, e) : Append(q, e)[i].ts <= u
<1>1. \A i \in DOMAIN Append(q, e) : Append(q, e)[i] = e \/ (i \in DOMAIN q /\ Append(q, e)[i] = q[i])
  OBVIOUS
<1>2. QED
  BY <1>1

LEMMA InputStep ==
    ASSUME AllocationInv, Input PROVE AllocationInv' /\ Respects
<1>1. UNCHANGED <<decisions, service, risk, faults, restarts>> /\ now' \in now..MaxTime
  BY DEF Input
<1>2. TypeOK /\ InPast /\ Recorded /\ Granted /\ ShutOff /\ Cooling
  BY DEF AllocationInv
<1>3. now \in Nat /\ now' \in Nat /\ now <= now'
  BY <1>1, <1>2 DEF TypeOK, StreamTypes
<1>4. \/ /\ \E r \in Regimes : regimes' = Append(regimes, [ts |-> now', regime |-> r])
         /\ UNCHANGED <<fills, shutdowns>>
      \/ /\ fills' = Append(fills, [ts |-> now'])
         /\ UNCHANGED <<regimes, shutdowns>>
      \/ /\ \E s \in Strategies : shutdowns' = Append(shutdowns, [ts |-> now', strategy |-> s])
         /\ UNCHANGED <<regimes, fills>>
  BY DEF Input, Announce, Fill, Shutdown
<1>5. /\ regimes \in Seq([ts : Nat, regime : Regimes])
      /\ fills \in Seq([ts : Nat])
      /\ shutdowns \in Seq([ts : Nat, strategy : Strategies])
  BY <1>2 DEF TypeOK, StreamTypes
<1>6. /\ \A i \in DOMAIN regimes : regimes[i].ts <= now'
      /\ \A i \in DOMAIN fills : fills[i].ts <= now'
      /\ \A i \in DOMAIN shutdowns : shutdowns[i].ts <= now'
  BY <1>2, <1>3, EntriesAre
<1>7. /\ regimes' \in Seq([ts : Nat, regime : Regimes])
      /\ fills' \in Seq([ts : Nat])
      /\ shutdowns' \in Seq([ts : Nat, strategy : Strategies])
      /\ \A i \in DOMAIN regimes' : regimes'[i].ts <= now'
      /\ \A i \in DOMAIN fills' : fills'[i].ts <= now'
      /\ \A i \in DOMAIN shutdowns' : shutdowns'[i].ts <= now'
  <2> DEFINE u == now'
  <2>1. u \in Nat /\ u <= u
    BY <1>3
  <2> HIDE DEF u
  <2>2. ASSUME NEW r \in Regimes, regimes' = Append(regimes, [ts |-> u, regime |-> r])
        PROVE  /\ regimes' \in Seq([ts : Nat, regime : Regimes])
               /\ \A i \in DOMAIN regimes' : regimes'[i].ts <= u
    <3> DEFINE e == [ts |-> u, regime |-> r]
    <3>1. e \in [ts : Nat, regime : Regimes] /\ e.ts <= u
      BY <2>1
    <3> HIDE DEF e
    <3>2. QED
      BY <1>5, <1>6, <2>2, <3>1, EntryAdded DEF e, u
  <2>3. ASSUME fills' = Append(fills, [ts |-> u])
        PROVE  /\ fills' \in Seq([ts : Nat])
               /\ \A i \in DOMAIN fills' : fills'[i].ts <= u
    <3> DEFINE e == [ts |-> u]
    <3>1. e \in [ts : Nat] /\ e.ts <= u
      BY <2>1
    <3> HIDE DEF e
    <3>2. QED
      BY <1>5, <1>6, <2>3, <3>1, EntryAdded DEF e, u
  <2>4. ASSUME NEW s \in Strategies, shutdowns' = Append(shutdowns, [ts |-> u, strategy |-> s])
        PROVE  /\ shutdowns' \in Seq([ts : Nat, strategy : Strategies])
               /\ \A i \in DOMAIN shutdowns' : shutdowns'[i].ts <= u
    <3> DEFINE e == [ts |-> u, strategy |-> s]
    <3>1. e \in [ts : Nat, strategy : Strategies] /\ e.ts <= u
      BY <2>1
    <3> HIDE DEF e
    <3>2. QED
      BY <1>5, <1>6, <2>4, <3>1, EntryAdded DEF e, u
  <2>5. QED
    BY <1>4, <1>5, <1>6, <2>2, <2>3, <2>4, Zenon DEF u
<1>8. StreamTypes' /\ InPast'
  BY <1>1, <1>2, <1>3, <1>7 DEF TypeOK, StreamTypes, InPast
<1>9. ServiceTypes' /\ RiskTypes'
  BY <1>1, <1>2 DEF TypeOK, ServiceTypes, RiskTypes, service, risk
<1>10. Recorded' /\ Granted' /\ ShutOff'
  BY <1>1, <1>2 DEF Recorded, Granted, ShutOff, service, risk
<1>11. Cooling'
  <2>1. \A i \in DOMAIN decisions : decisions[i].cooldown \in Int
    <3>1. \A i \in DOMAIN decisions : decisions[i] \in Decisions
      BY <1>2, ElementAt, Zenon DEF TypeOK, StreamTypes
    <3>2. QED
      BY <3>1 DEF Decisions
  <2>2. \A i \in DOMAIN decisions : decisions[i].cooldown <= now => decisions[i].cooldown <= now'
    BY <1>3, <2>1
  <2>3. QED
    BY <1>1, <1>2, <2>2 DEF Cooling, service
<1>12. Respects
  BY <1>1, SameRespects DEF service
<1>13. QED
  BY <1>8, <1>9, <1>10, <1>11, <1>12 DEF AllocationInv, TypeOK

LEMMA FollowStep ==
    ASSUME AllocationInv, FollowDecision PROVE AllocationInv' /\ Respects
<1> DEFINE n == rlast + 1
           d == decisions[n]
           g == [pct |-> d.pct, cooldown |-> d.cooldown]
<1>1. /\ rlast < Len(decisions) /\ rlast' = n
      /\ ralloc' = [ralloc EXCEPT ![d.strategy] = g]
      /\ UNCHANGED <<now, streams, decisions, service, rshutdown, rslast, faults, restarts>>
  BY DEF FollowDecision
<1>2. TypeOK /\ InPast /\ Recorded /\ Granted /\ ShutOff /\ Cooling
  BY DEF AllocationInv
<1>3. rlast \in Nat /\ n \in Nat /\ Len(decisions) \in Nat /\ n \in 1..n /\ n \in 0..Len(decisions)
  BY <1>1, <1>2 DEF TypeOK, StreamTypes, RiskTypes
<1>4. n \in DOMAIN decisions
  BY <1>1, <1>3, <1>2 DEF TypeOK, StreamTypes
<1>5. d \in Decisions
  BY <1>2, <1>4, ElementAt, Zenon DEF TypeOK, StreamTypes
<1>6. d.strategy \in Strategies /\ g \in Grants /\ g.pct = d.pct
  BY <1>5 DEF Decisions, Grants
<1>7. TypeOK'
  <2>1. StreamTypes' /\ ServiceTypes'
    BY <1>1, <1>2 DEF TypeOK, StreamTypes, ServiceTypes, streams, service
  <2> HIDE DEF n, d, g
  <2>2. ralloc' \in [Strategies -> Grants]
    BY <1>1, <1>2, <1>6 DEF TypeOK, RiskTypes
  <2>3. RiskTypes'
    BY <1>1, <1>2, <1>3, <2>2 DEF TypeOK, RiskTypes
  <2>4. QED
    BY <2>1, <2>3 DEF TypeOK
<1>8. Granted'
  <2>1. SUFFICES ASSUME NEW s \in Strategies
                 PROVE  \/ Latest(decisions, s, n, ralloc'[s].pct)
                        \/ ralloc'[s].pct = 0 /\ (n > LookBack \/ Unheard(decisions, s, n))
    BY <1>1 DEF Granted
  <2>2. CASE s = d.strategy
    <3>1. ralloc'[s].pct = d.pct
      BY <1>1, <1>2, <1>6, <2>2 DEF TypeOK, RiskTypes
    <3>2. (n + 1)..n = {}
      BY <1>3
    <3>3. Latest(decisions, s, n, d.pct)
      BY <1>3, <2>2, <3>2 DEF Latest
    <3>4. QED
      BY <3>1, <3>3
  <2>3. CASE s # d.strategy
    <3> DEFINE p == ralloc[s].pct
    <3>1. ralloc'[s].pct = p
      BY <1>1, <1>2, <1>6, <2>3 DEF TypeOK, RiskTypes
    <3>2. \/ Latest(decisions, s, rlast, p)
          \/ p = 0 /\ (rlast > LookBack \/ Unheard(decisions, s, rlast))
      BY <1>2 DEF Granted
    <3>3. \A i \in (rlast + 1)..n : decisions[i].strategy # s
      BY <1>3, <2>3
    <3>4. rlast <= n
      BY <1>3
    <3> HIDE DEF p, n, d
    <3>5. Latest(decisions, s, rlast, p) => Latest(decisions, s, n, p)
      BY <1>3, <3>3, <3>4, LatestGrows
    <3>6. Unheard(decisions, s, rlast) => Unheard(decisions, s, n)
      BY <1>3, <3>3 DEF Unheard
    <3>7. rlast > LookBack => n > LookBack
      BY <1>3, <3>4, AllocationAssumption
    <3>8. QED
      BY <3>1, <3>2, <3>5, <3>6, <3>7
  <2>4. QED
    BY <2>2, <2>3
<1>9. InPast' /\ Recorded' /\ ShutOff' /\ Cooling'
  BY <1>1, <1>2 DEF InPast, Recorded, ShutOff, Cooling, streams, service
<1>10. Respects
  BY <1>1, SameRespects DEF service
<1>11. QED
  BY <1>7, <1>8, <1>9, <1>10 DEF AllocationInv

LEMMA FollowShutdownStep ==
    ASSUME AllocationInv, FollowShutdown PROVE AllocationInv' /\ Respects
<1>1. /\ rslast < Len(shutdowns) /\ rslast' = rslast + 1
      /\ rshutdown' = rshutdown \cup {shutdowns[rslast + 1].strategy}
      /\ UNCHANGED <<now, streams, decisions, service, ralloc, rlast, faults, restarts>>
  BY DEF FollowShutdown
<1>2. TypeOK /\ InPast /\ Recorded /\ Granted /\ ShutOff /\ Cooling
  BY DEF AllocationInv
<1>3. rslast + 1 \in DOMAIN shutdowns
  BY <1>1, <1>2 DEF TypeOK, StreamTypes, RiskTypes
<1>4. shutdowns[rslast + 1].strategy \in Strategies
  BY <1>2, <1>3, EntriesAre
<1>5. StreamTypes' /\ ServiceTypes'
  BY <1>1, <1>2 DEF TypeOK, StreamTypes, ServiceTypes, streams, service
<1>6. RiskTypes'
  BY <1>1, <1>2, <1>4 DEF TypeOK, RiskTypes
<1>7. InPast' /\ Recorded' /\ Granted' /\ ShutOff' /\ Cooling'
  BY <1>1, <1>2 DEF InPast, Recorded, Granted, ShutOff, Cooling, streams, service
<1>8. Respects
  BY <1>1, SameRespects DEF service
<1>9. QED
  BY <1>5, <1>6, <1>7, <1>8 DEF AllocationInv, TypeOK

LEMMA RestartStep ==
    ASSUME AllocationInv, RiskRestart PROVE AllocationInv' /\ Respects
<1> DEFINE n == Len(decisions)
           of(s) == {i \in {j \in DOMAIN decisions : j > Len(decisions) - LookBack} :
                        decisions[i].strategy = s}
           g(s) == [pct |-> decisions[Max(of(s))].pct, cooldown |-> decisions[Max(of(s))].cooldown]
<1>1. /\ restarts' = restarts + 1 /\ faults' = faults \cup {"risk"}
      /\ rlast' = n /\ rshutdown' = {} /\ rslast' = 0
      /\ ralloc' = [s \in Strategies |-> IF of(s) = {} THEN NoDecision ELSE g(s)]
      /\ UNCHANGED <<now, streams, decisions, service>>
  BY DEF RiskRestart
<1>2. TypeOK /\ InPast /\ Recorded /\ ShutOff /\ Cooling
  BY DEF AllocationInv
<1>3. n \in Nat /\ DOMAIN decisions = 1..n /\ LookBack \in Nat
  BY <1>2, AllocationAssumption DEF TypeOK, StreamTypes
<1>4. ASSUME NEW s \in Strategies, of(s) # {}
      PROVE  /\ Max(of(s)) \in 1..n /\ decisions[Max(of(s))].strategy = s
             /\ \A j \in (Max(of(s)) + 1)..n : decisions[j].strategy # s
             /\ decisions[Max(of(s))] \in Decisions
  <2> DEFINE m == Max(of(s))
  <2>1. of(s) \in SUBSET (1..n)
    BY <1>3
  <2>2. m \in of(s) /\ \A k \in of(s) : k <= m
    BY <1>3, <1>4, <2>1, MaxIs
  <2>3. m \in 1..n /\ decisions[m].strategy = s /\ m > n - LookBack
    BY <1>3, <2>2
  <2>4. decisions[m] \in Decisions
    BY <1>2, <1>3, <2>3, ElementAt, Zenon DEF TypeOK, StreamTypes
  <2> HIDE DEF m
  <2>5. ASSUME NEW j \in (m + 1)..n, decisions[j].strategy = s PROVE FALSE
    <3>1. j \in of(s)
      BY <1>3, <2>3, <2>5
    <3>2. ~(j <= m)
      BY <1>3, <2>3
    <3>3. QED
      BY <2>2, <3>1, <3>2
  <2>6. QED
    BY <2>3, <2>4, <2>5 DEF m
<1>5. ASSUME NEW s \in Strategies, of(s) = {}
      PROVE  n > LookBack \/ Unheard(decisions, s, n)
  <2>1. CASE n > LookBack
    BY <2>1
  <2>2. CASE ~(n > LookBack)
    <3>1. \A j \in 1..n : j > n - LookBack
      BY <1>3, <2>2
    <3>2. QED
      BY <1>3, <1>5, <3>1 DEF Unheard
  <2>3. QED
    BY <2>1, <2>2
<1> HIDE DEF of
<1>6. \A s \in Strategies : ralloc'[s] = IF of(s) = {} THEN NoDecision ELSE g(s)
  BY <1>1
<1>7. Granted'
  <2>1. SUFFICES ASSUME NEW s \in Strategies
                 PROVE  \/ Latest(decisions, s, n, ralloc'[s].pct)
                        \/ ralloc'[s].pct = 0 /\ (n > LookBack \/ Unheard(decisions, s, n))
    BY <1>1 DEF Granted
  <2>2. CASE of(s) = {}
    <3>0. ralloc'[s] = NoDecision
      BY <1>6, <2>2, Zenon
    <3>1. ralloc'[s].pct = 0
      BY <3>0 DEF NoDecision
    <3>2. QED
      BY <1>5, <2>2, <3>1
  <2>3. CASE of(s) # {}
    <3>0. ralloc'[s] = g(s)
      BY <1>6, <2>3, Zenon
    <3>1. ralloc'[s].pct = decisions[Max(of(s))].pct
      BY <3>0
    <3>2. QED
      BY <1>4, <2>3, <3>1 DEF Latest
  <2>4. QED
    BY <2>2, <2>3
<1>8. TypeOK'
  <2>1. \A s \in Strategies : (IF of(s) = {} THEN NoDecision ELSE g(s)) \in Grants
    <3>1. NoDecision \in Grants
      BY DEF NoDecision, Grants, None
    <3>2. \A s \in Strategies : of(s) # {} => g(s) \in Grants
      BY <1>4 DEF Decisions, Grants
    <3>3. QED
      BY <3>1, <3>2
  <2>2. ralloc' \in [Strategies -> Grants]
    BY <1>1, <2>1
  <2>3. n \in 0..n
    BY <1>3
  <2>4. StreamTypes' /\ ServiceTypes'
    BY <1>1, <1>2 DEF TypeOK, StreamTypes, ServiceTypes, streams, service
  <2>5. RiskTypes'
    BY <1>1, <1>2, <2>2, <2>3 DEF TypeOK, RiskTypes
  <2>6. QED
    BY <2>4, <2>5 DEF TypeOK
<1>9. InPast' /\ Recorded' /\ ShutOff' /\ Cooling'
  BY <1>1, <1>2 DEF InPast, Recorded, ShutOff, Cooling, streams, service
<1>10. Respects
  BY <1>1, SameRespects DEF service
<1>11. QED
  BY <1>7, <1>8, <1>9, <1>10 DEF AllocationInv

-----------------------------------------------------------------------------
(* The theorems.                                                            *)

LEMMA AllocationInit == ASSUME Init PROVE AllocationInv
<1>1. TypeOK
  BY AllocationAssumption
  DEF Init, TypeOK, StreamTypes, ServiceTypes, RiskTypes, NoState, NoDecision, None, Allocations, Grants
<1>2. InPast /\ Recorded /\ ShutOff /\ Cooling
  BY DEF Init, InPast, Recorded, ShutOff, Cooling, NoState
<1>3. Granted
  BY DEF Init, Granted, NoDecision, Unheard
<1>4. QED
  BY <1>1, <1>2, <1>3 DEF AllocationInv

LEMMA AllocationStep == AllocationInv /\ [Next]_vars => AllocationInv' /\ [Respects]_vars
<1>1. SUFFICES ASSUME AllocationInv, [Next]_vars PROVE AllocationInv' /\ [Respects]_vars
  OBVIOUS
<1>2. CASE UNCHANGED vars
  BY <1>1, <1>2 DEF vars, streams, service, risk, AllocationInv, TypeOK, StreamTypes,
     ServiceTypes, RiskTypes, InPast, Recorded, Granted, ShutOff, Cooling
<1>3. QED
  BY <1>1, <1>2, InputStep, StartStep, BootstrapFailsStep, RegimeStep, FillStep, ShutdownStep,
     CrashStep, FollowStep, FollowShutdownStep, RestartStep DEF Next

LEMMA AllocationAlways == Spec => []AllocationInv
<1>1. Init => AllocationInv
  BY AllocationInit
<1>2. QED
  BY <1>1, AllocationStep, PTL DEF Spec

LEMMA FollowedInState == AllocationInv => DecisionsFollowed
<1>1. SUFFICES ASSUME AllocationInv, "bootstrap" \notin faults, rlast = Len(decisions),
                      NEW s \in Strategies, ~allocations[s].fresh
               PROVE  /\ ralloc[s].pct \in {0, allocations[s].pct}
                      /\ Len(decisions) <= LookBack => ralloc[s].pct = allocations[s].pct
  BY DEF DecisionsFollowed
<1> DEFINE n == Len(decisions)
<1>2. n \in Nat /\ LookBack \in Nat
  BY <1>1, AllocationAssumption DEF AllocationInv, TypeOK, StreamTypes
<1>3. Latest(decisions, s, n, allocations[s].pct)
  BY <1>1 DEF AllocationInv, Recorded
<1>4. \/ Latest(decisions, s, n, ralloc[s].pct)
      \/ ralloc[s].pct = 0 /\ (n > LookBack \/ Unheard(decisions, s, n))
  BY <1>1 DEF AllocationInv, Granted
<1> HIDE DEF n
<1>5. CASE Latest(decisions, s, n, ralloc[s].pct)
  <2>1. ralloc[s].pct = allocations[s].pct
    BY <1>2, <1>3, <1>5, LatestUnique
  <2>2. QED
    BY <2>1
<1>6. CASE ralloc[s].pct = 0 /\ (n > LookBack \/ Unheard(decisions, s, n))
  <2>1. ~Unheard(decisions, s, n)
    BY <1>3 DEF Latest, Unheard
  <2>2. ~(n <= LookBack)
    BY <1>2, <1>6, <2>1
  <2>3. QED
    BY <1>6, <2>2 DEF n
<1>7. QED
  BY <1>4, <1>5, <1>6

LEMMA BarredInState == AllocationInv => ShutdownBarsTwice
<1>1. SUFFICES ASSUME AllocationInv, "bootstrap" \notin faults, rlast = Len(decisions),
                      NEW s \in shutdown_ids
               PROVE  ralloc[s].pct = 0 /\ ~Admits(s)
  BY DEF ShutdownBarsTwice
<1>2. s \in Strategies /\ allocations[s].pct = 0 /\ ~allocations[s].fresh /\ up = "run"
  BY <1>1 DEF AllocationInv, TypeOK, ServiceTypes, ShutOff
<1>3. ralloc[s].pct \in {0, allocations[s].pct}
  BY <1>1, <1>2, FollowedInState DEF DecisionsFollowed
<1>4. QED
  BY <1>2, <1>3 DEF Admits

\* The services and the streams keep their types, for any rules and bounds.
THEOREM AllocationTypeCorrect == Spec => []TypeOK
<1>1. AllocationInv => TypeOK
  BY DEF AllocationInv
<1>2. QED
  BY <1>1, AllocationAlways, PTL

\* Once the risk service has read every decision of the stream, it grants a
\* strategy what the allocation service last computed for it, or nothing where
\* it read only the end of the stream, whatever restarts there have been.
THEOREM RiskFollowsDecisions == Spec => []DecisionsFollowed
BY AllocationAlways, FollowedInState, PTL

\* A shutdown that the allocation service has handled bars the strategy in the
\* risk service by its allocation alone.
THEOREM ShutdownBarsByAllocation == Spec => []ShutdownBarsTwice
BY AllocationAlways, BarredInState, PTL

\* As long as the allocation service has not been restarted, a strategy whose
\* allocation ended gets none again before its cooldown has passed.
THEOREM CooldownHolds == Spec => CooldownRespected
<1>1. AllocationInv /\ [Next]_vars => [Respects]_vars
  BY AllocationStep
<1>2. [][Respects]_vars => CooldownRespected
  BY PTL DEF CooldownRespected, Respects
<1>3. QED
  BY <1>1, <1>2, AllocationAlways, PTL DEF Spec

===============================================================================

----------------------------- MODULE Allocation -----------------------------
(***************************************************************************)
(* The allocation service (services/allocation) and what the risk service  *)
(* makes of its decisions.  Allocation reads regimes, fills and shutdowns  *)
(* from three streams, in any order between them, and appends decisions to *)
(* a fourth; the risk service follows decisions and shutdowns with a       *)
(* thread each.  Streams survive restarts, the memory of a service does    *)
(* not.  The performance of a strategy is what the rule makes of it: not   *)
(* ready, or not above the median, or above it.                            *)
(***************************************************************************)
EXTENDS Integers, Sequences, FiniteSets, FiniteSetsExt, SequencesExt

CONSTANTS
    Order,          \* the strategies, in the order of the rules
    Regimes,
    Rules,          \* allocation in percent of a strategy in a regime
    EarlyLive,      \* allocation granted without performance (two percent)
    MinStable,      \* regime_min_stable_seconds
    Cooldown,       \* cooldown_seconds
    LookBack,       \* decisions the risk service reads at its start
    MaxTime, MaxRegimes, MaxBacklog, MaxLag, MaxEvents, MaxRestarts   \* bounds

Strategies == Range(Order)

ASSUME AllocationAssumption ==
    /\ Order \in Seq(Strategies) /\ IsInjective(Order)
    /\ Rules \in [Strategies -> [Regimes -> Nat]] /\ "UNKNOWN" \in Regimes
    /\ {EarlyLive, MaxTime, MaxRegimes, MaxBacklog, MaxLag, MaxEvents, MaxRestarts} \subseteq Nat
    /\ {MinStable, Cooldown, LookBack} \subseteq Nat \ {0}

VARIABLES
    now,
    regimes, fills, shutdowns, decisions,     \* the streams
    \* allocation service
    up, current_regime, candidate, since, allocations, shutdown_ids,
    last_regime, last_fill, last_shutdown,
    \* risk service: allocation thread, shutdown thread
    ralloc, rlast, rshutdown, rslast,
    \* history: what went wrong and how often
    faults, restarts

streams == <<regimes, fills, shutdowns>>
service == <<up, current_regime, candidate, since, allocations, shutdown_ids,
             last_regime, last_fill, last_shutdown>>
risk == <<ralloc, rlast, rshutdown, rslast>>
vars == <<now, streams, decisions, service, risk, faults, restarts>>

None == -1
NoState == [pct |-> 0, cooldown |-> None, fresh |-> TRUE]
NoDecision == [pct |-> 0, cooldown |-> None]

Init ==
    /\ now = 0 /\ regimes = <<>> /\ fills = <<>> /\ shutdowns = <<>> /\ decisions = <<>>
    /\ up = "start" /\ current_regime = "UNKNOWN" /\ candidate = "none" /\ since = None
    /\ allocations = [s \in Strategies |-> NoState] /\ shutdown_ids = {}
    /\ last_regime = 0 /\ last_fill = 0 /\ last_shutdown = 0
    /\ ralloc = [s \in Strategies |-> NoDecision] /\ rlast = 0
    /\ rshutdown = {} /\ rslast = 0
    /\ faults = {} /\ restarts = 0

-----------------------------------------------------------------------------
\* The inputs: regime signals, fills, shutdowns.

\* MaxBacklog bounds how far the service lags behind the regimes (what comes
\* while it is down might as well have come unread before).
Announce(r) ==
    /\ Len(regimes) < MaxRegimes /\ Len(regimes) - last_regime < MaxBacklog
    /\ regimes' = Append(regimes, [ts |-> now', regime |-> r])
    /\ UNCHANGED <<fills, shutdowns>>

Room == Len(fills) + Len(shutdowns) < MaxEvents

\* A shutdown without a strategy bars none and recomputes only, as a fill does.
Fill == /\ Room /\ fills' = Append(fills, [ts |-> now'])
        /\ UNCHANGED <<regimes, shutdowns>>
Shutdown(s) == /\ Room /\ shutdowns' = Append(shutdowns, [ts |-> now', strategy |-> s])
               /\ UNCHANGED <<regimes, fills>>

\* The clock moves on with the entries: nothing else in the services reads it
\* but the risk service's test of a cooldown.
Input ==
    /\ now' \in now..MaxTime
    /\ \/ \E r \in Regimes : Announce(r)
       \/ Fill
       \/ \E s \in Strategies : Shutdown(s)
    /\ UNCHANGED <<decisions, service, risk, faults, restarts>>

-----------------------------------------------------------------------------
\* Allocation service.  A recomputation at ts uses the regime, the shutdowns and
\* the fills that the entry being handled leaves behind.

Context(ts, regime, shut, read) ==
    [ts |-> ts, regime |-> regime, shut |-> shut, read |-> read]

\* _compute_performance and the median of the strategies that are ready: at
\* most half of those that are ready lie above their median, and none is ready
\* before a fill has been read.
Verdicts(c) ==
    {v \in [Strategies -> {"notReady", "below", "above"}] :
        /\ c.read = 0 => \A s \in Strategies : v[s] = "notReady"
        /\ 2 * Cardinality({s \in Strategies : v[s] = "above"})
             <= Cardinality({s \in Strategies : v[s] # "notReady"})}

\* A cooldown that is over by the time of the entry is forgotten.
Cooled(s, c) == IF allocations[s].cooldown # None /\ allocations[s].cooldown <= c.ts
                THEN None ELSE allocations[s].cooldown

\* Mutation: the cooldown does not keep the target at zero.
ShutOnly(s, c) == s \in c.shut

\* Mutation: a strategy shut down keeps its allocation.
CoolingOnly(s, c) == Cooled(s, c) # None

\* No allocation whatever the rule says.
Barred(s, c) == s \in c.shut \/ Cooled(s, c) # None

\* The target of one strategy; performance matters only to one that has none.
Target(s, c, verdict) ==
    LET base == IF Barred(s, c) THEN 0 ELSE Rules[s][c.regime]
        blocked == \/ verdict = "notReady" /\ base > EarlyLive
                   \/ verdict = "below"
    IN  IF base > 0 /\ allocations[s].pct = 0 /\ blocked THEN 0 ELSE base

\* The new state: a cooldown starts when an allocation ends.
Updated(s, c, verdict) ==
    LET target == Target(s, c, verdict) IN
    [pct |-> target,
     cooldown |-> IF allocations[s].pct > 0 /\ target = 0 THEN c.ts + Cooldown
                  ELSE Cooled(s, c),
     fresh |-> FALSE]

\* Mutation: nothing is emitted for an unchanged state after a start.
ChangedOnly(s, new, c) == new.pct # allocations[s].pct \/ new.cooldown # Cooled(s, c)

\* A decision is emitted when something changed, and once after a start.
Emits(s, new, c) == \/ new.pct # allocations[s].pct \/ new.cooldown # Cooled(s, c)
                    \/ allocations[s].fresh

Decision(s, new, c) ==
    [strategy |-> s, pct |-> new.pct, cooldown |-> new.cooldown, ts |-> c.ts]

\* The decisions that the loop over the rules has emitted after each strategy.
Emission(c, v) ==
    LET new(s) == Updated(s, c, v[s])
        emitted[n \in 0..Len(Order)] ==
            IF n = 0 THEN <<>>
            ELSE IF Emits(Order[n], new(Order[n]), c)
            THEN Append(emitted[n - 1], Decision(Order[n], new(Order[n]), c))
            ELSE emitted[n - 1]
    IN  emitted

\* _recompute_allocations.  MaxLag bounds how far the risk service lags behind.
Recompute(c) ==
    /\ Len(decisions) - rlast <= MaxLag
    /\ \E v \in Verdicts(c) :
          /\ allocations' = [s \in Strategies |-> Updated(s, c, v[s])]
          /\ decisions' = decisions \o Emission(c, v)[Len(Order)]

\* The first n strategies in the order of the rules.
First(n) == {Order[i] : i \in 1..n}

NoRecompute == UNCHANGED <<allocations, decisions>>

\* run: the newest regime is taken as it is, without the stability check.
ServiceStart ==
    /\ up = "start" /\ up' = "run"
    /\ last_regime' = Len(regimes)
    /\ IF regimes = <<>>
       THEN NoRecompute /\ UNCHANGED current_regime
       ELSE /\ current_regime' = Last(regimes).regime
            /\ Recompute(Context(Last(regimes).ts, current_regime', {}, 0))
    /\ UNCHANGED <<now, streams, candidate, since, shutdown_ids, last_fill, last_shutdown,
                   risk, faults, restarts>>

\* run: an exception of the bootstrap is only logged.  It comes from the read of
\* the stream or from the emission for the next strategy, whose state is new by
\* then; the stream is read from its start.
BootstrapFails ==
    /\ up = "start" /\ up' = "run"
    /\ restarts < MaxRestarts /\ restarts' = restarts + 1
    /\ faults' = faults \cup {"bootstrap"}
    /\ \/ NoRecompute /\ UNCHANGED current_regime
       \/ /\ regimes # <<>> /\ current_regime' = Last(regimes).regime
          /\ LET c == Context(Last(regimes).ts, current_regime', {}, 0) IN
             \E n \in DOMAIN Order, v \in Verdicts(c) :
                /\ allocations' = [s \in Strategies |-> IF s \in First(n) THEN Updated(s, c, v[s])
                                                        ELSE allocations[s]]
                /\ decisions' = decisions \o Emission(c, v)[n - 1]
    /\ UNCHANGED <<now, streams, candidate, since, shutdown_ids, last_regime, last_fill,
                   last_shutdown, risk>>

Stable(ts) == ts - since >= MinStable

NoCandidate == candidate' = "none" /\ since' = None

\* _handle_regime_signal and _update_regime.
HandleRegime ==
    LET e == regimes[last_regime + 1] IN
    /\ up = "run" /\ last_regime < Len(regimes)
    /\ last_regime' = last_regime + 1
    /\ \/ /\ e.regime = current_regime
          /\ NoCandidate
          /\ NoRecompute /\ UNCHANGED current_regime
       \/ /\ e.regime \notin {current_regime, candidate}
          /\ candidate' = e.regime /\ since' = e.ts
          /\ NoRecompute /\ UNCHANGED current_regime
       \/ /\ e.regime = candidate /\ ~Stable(e.ts)
          /\ NoRecompute /\ UNCHANGED <<current_regime, candidate, since>>
       \/ /\ e.regime = candidate /\ Stable(e.ts)
          /\ current_regime' = e.regime /\ NoCandidate
          /\ Recompute(Context(e.ts, e.regime, shutdown_ids, last_fill))
    /\ UNCHANGED <<now, streams, up, shutdown_ids, last_fill, last_shutdown, risk, faults, restarts>>

HandleFill ==
    /\ up = "run" /\ last_fill < Len(fills)
    /\ last_fill' = last_fill + 1
    /\ Recompute(Context(fills[last_fill'].ts, current_regime, shutdown_ids, last_fill'))
    /\ UNCHANGED <<now, streams, up, current_regime, candidate, since, shutdown_ids,
                   last_regime, last_shutdown, risk, faults, restarts>>

HandleShutdown ==
    LET e == shutdowns[last_shutdown + 1] IN
    /\ up = "run" /\ last_shutdown < Len(shutdowns)
    /\ last_shutdown' = last_shutdown + 1
    /\ shutdown_ids' = shutdown_ids \cup {e.strategy}
    /\ Recompute(Context(e.ts, current_regime, shutdown_ids', last_fill))
    /\ UNCHANGED <<now, streams, up, current_regime, candidate, since, last_regime,
                   last_fill, risk, faults, restarts>>

\* The memory of the process is gone; it is started again.
Lost ==
    /\ up' = "start" /\ current_regime' = "UNKNOWN" /\ candidate' = "none" /\ since' = None
    /\ allocations' = [s \in Strategies |-> NoState] /\ shutdown_ids' = {}
    /\ last_regime' = 0 /\ last_fill' = 0 /\ last_shutdown' = 0
    /\ UNCHANGED <<now, streams, risk>>

\* The recomputations the loop may be in.
Handling ==
    {Context(e.ts, e.regime, shutdown_ids, last_fill) :
        e \in {regimes[i] : i \in {j \in DOMAIN regimes : /\ j = last_regime + 1
                                                        /\ regimes[j].regime = candidate
                                                        /\ Stable(regimes[j].ts)}}} \cup
    {Context(fills[i].ts, current_regime, shutdown_ids, i) :
        i \in DOMAIN fills \cap {last_fill + 1}} \cup
    {Context(e.ts, current_regime, shutdown_ids \cup {e.strategy}, last_fill) :
        e \in {shutdowns[i] : i \in DOMAIN shutdowns \cap {last_shutdown + 1}}}

\* The loop catches nothing: an error ends the process, and one between two
\* emissions of a recomputation leaves the first of them behind.
ServiceCrash ==
    /\ restarts < MaxRestarts /\ restarts' = restarts + 1
    /\ faults' = faults \cup {"allocation"}
    /\ Lost
    /\ \/ UNCHANGED decisions
       \/ /\ up = "run"
          /\ \E c \in Handling, n \in 1..(Len(Order) - 1) :
                \E v \in Verdicts(c) : decisions' = decisions \o Emission(c, v)[n]

-----------------------------------------------------------------------------
\* Risk service.

FollowDecision ==
    LET d == decisions[rlast + 1] IN
    /\ rlast < Len(decisions)
    /\ rlast' = rlast + 1
    /\ ralloc' = [ralloc EXCEPT ![d.strategy] = [pct |-> d.pct, cooldown |-> d.cooldown]]
    /\ UNCHANGED <<now, streams, decisions, service, rshutdown, rslast, faults, restarts>>

\* The shutdown thread reads its stream from the start.
FollowShutdown ==
    /\ rslast < Len(shutdowns)
    /\ rslast' = rslast + 1
    /\ rshutdown' = rshutdown \cup {shutdowns[rslast + 1].strategy}
    /\ UNCHANGED <<now, streams, decisions, service, ralloc, rlast, faults,
                   restarts>>

\* A restart: the memory is gone and the bootstrap of the allocation thread takes
\* the newest of the last decisions of each strategy.
RiskRestart ==
    LET recent == {i \in DOMAIN decisions : i > Len(decisions) - LookBack}
        of(s) == {i \in recent : decisions[i].strategy = s}
    IN
    /\ restarts < MaxRestarts /\ restarts' = restarts + 1
    /\ faults' = faults \cup {"risk"}
    /\ rlast' = Len(decisions)
    /\ ralloc' = [s \in Strategies |->
                    IF of(s) = {} THEN NoDecision
                    ELSE [pct |-> decisions[Max(of(s))].pct,
                          cooldown |-> decisions[Max(of(s))].cooldown]]
    /\ rshutdown' = {} /\ rslast' = 0
    /\ UNCHANGED <<now, streams, decisions, service>>

\* _allocation_allowed and the shutdown gate of process_signal.
Admits(s) ==
    /\ s \notin rshutdown
    /\ ~(ralloc[s].cooldown # None /\ ralloc[s].cooldown > now)
    /\ ralloc[s].pct > 0

Next ==
    \/ Input
    \/ ServiceStart \/ BootstrapFails \/ HandleRegime \/ HandleFill \/ HandleShutdown \/ ServiceCrash
    \/ FollowDecision \/ FollowShutdown \/ RiskRestart

Spec == Init /\ [][Next]_vars

-----------------------------------------------------------------------------
(* CooldownRespected.  As long as the service has not been restarted, a      *)
(* strategy whose allocation ended gets none again before the cooldown it    *)
(* was given has passed on the clock, although the three streams are read in *)
(* any order and an entry handled later may carry an earlier time.           *)
CooldownRespected ==
    [][\A s \in Strategies :
         "allocation" \notin faults /\ allocations[s].pct = 0 /\ allocations'[s].pct > 0 =>
            \A i \in DOMAIN decisions :
                decisions[i].strategy = s => decisions[i].cooldown <= now]_vars

(* DecisionsFollowed.  Once the risk service has read every decision, it     *)
(* grants a strategy what the allocation service last computed for it, also  *)
(* after restarts of either, in the middle of a recomputation too; reading   *)
(* only the last few decisions at its start can only make it grant less.     *)
(* (A bootstrap whose exception was swallowed is excepted.)                  *)
DecisionsFollowed ==
    "bootstrap" \notin faults /\ up = "run" /\ rlast = Len(decisions) =>
        \A s \in {x \in Strategies : ~allocations[x].fresh} :
            /\ ralloc[s].pct \in {0, allocations[s].pct}
            /\ Len(decisions) <= LookBack => ralloc[s].pct = allocations[s].pct

(* ShutdownBarsTwice.  A shutdown that the allocation service has handled    *)
(* bars the strategy in the risk service by its allocation alone, that is    *)
(* also when the risk service has been restarted and has not yet read the    *)
(* shutdown stream.                                                          *)
ShutdownBarsTwice ==
    "bootstrap" \notin faults /\ rlast = Len(decisions) =>
        \A s \in shutdown_ids : ralloc[s].pct = 0 /\ ~Admits(s)
=============================================================================

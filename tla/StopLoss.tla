------------------------------ MODULE StopLoss ------------------------------
(***************************************************************************)
(* Stop-loss protection (core/safety/stop_loss): the price trigger with    *)
(* its fixed-point rounding, and the consumer that turns a breach into one *)
(* exit intent over a two-phase record file.  The caller passes any known  *)
(* position and any price in any order; the process may die between two    *)
(* steps and the file may be lost or damaged.  Prices, quantities and the  *)
(* stop percentage are integers of a raw unit, finer than the grid the     *)
(* code rounds to; an unknown value is None.                               *)
(***************************************************************************)
EXTENDS Integers, Sequences

CONSTANTS
    Positions,      \* [symbol, side, quantity, entry, id] the caller may pass
    Observations,   \* [symbol, price, age] the caller may pass
    Percents,       \* stop_loss_pct a start may be configured with, raw
    Money,          \* raw units in one step of the price and quantity grids
    Ratio,          \* raw units in one step of the ratio grid
    Whole,          \* steps of the ratio grid in 100 percent
    MaxAge,         \* max_price_age_ms
    MaxCrashes,     \* bound
    MaxIntents      \* bound on the intents followed

None == -1
Sides == {"LONG", "SHORT", "FLAT", "UNKNOWN"}

ASSUME StopLossAssumption ==
    /\ {Money, Ratio, Whole} \subseteq Nat \ {0} /\ {MaxAge, MaxCrashes, MaxIntents} \subseteq Nat
    /\ Percents \subseteq Int
    /\ \A p \in Positions : p.side \in Sides /\ p.quantity \in Int /\ p.entry \in Int
    /\ \A o \in Observations : o.price \in Int /\ o.age \in Int

VARIABLES
    pct,            \* the configured stop
    pc, event,      \* where consume is, and the event it handles
    file,           \* the state file: missing, corrupt or ok
    prepared, finalized,    \* the events with a record of that state
    intents,        \* events whose intent the sink took, in order
    outcome,        \* what consume last returned
    started, crashes

store == <<file, prepared, finalized>>
vars == <<pct, pc, event, store, intents, outcome, started, crashes>>

-----------------------------------------------------------------------------
\* The trigger.

\* _q, ROUND_DOWN: the step of the grid at or below.
Q(x, grid) == x \div grid

\* Mutation: the long stop is rounded down.
FloorDiv(x, y) == x \div y

\* _q, ROUND_UP, of a quotient.
CeilDiv(x, y) == (x + y - 1) \div y

\* compute_stop_price, of values on their grids.
ComputeStopPrice(side, entry, percent) ==
    IF side = "LONG" THEN CeilDiv(entry * (Whole - percent), Whole)
    ELSE (entry * (Whole + percent)) \div Whole

\* evaluate_stop_loss_trigger: what is unknown, invalid or stale blocks.
Blocks(p, o, c) ==
    \/ p.symbol # o.symbol
    \/ p.side = "UNKNOWN"
    \/ Q(c, Ratio) <= 0 \/ Q(c, Ratio) >= Whole
    \/ /\ p.side # "FLAT"
       /\ \/ Q(p.quantity, Money) <= 0 \/ Q(p.entry, Money) <= 0 \/ p.id = None
          \/ Q(o.price, Money) <= 0
          \/ o.age < 0 \/ o.age > MaxAge

Triggered(p, o, c) ==
    LET stop == ComputeStopPrice(p.side, Q(p.entry, Money), Q(c, Ratio)) IN
    \/ p.side = "LONG" /\ Q(o.price, Money) <= stop
    \/ p.side = "SHORT" /\ Q(o.price, Money) >= stop

\* _identity_payload: the position and its stop, not the price observed.
EventOf(p, c) ==
    [symbol |-> p.symbol, id |-> p.id, side |-> p.side, quantity |-> Q(p.quantity, Money),
     entry |-> Q(p.entry, Money), percent |-> Q(c, Ratio)]

Events == {EventOf(p, c) : p \in Positions, c \in Percents}
NoEvent == [symbol |-> None, id |-> None, side |-> "UNKNOWN", quantity |-> None,
            entry |-> None, percent |-> None]

\* The stop as configured, before any rounding.
Breached(p, o, c) ==
    \/ p.side = "LONG" /\ o.price * (Whole * Ratio) <= p.entry * (Whole * Ratio - c)
    \/ p.side = "SHORT" /\ o.price * (Whole * Ratio) >= p.entry * (Whole * Ratio + c)

-----------------------------------------------------------------------------
Outcome(decision, e, breached) ==
    [decision |-> decision, event |-> e, breached |-> breached]

Init ==
    /\ pct \in Percents /\ pc = "idle" /\ event = NoEvent
    /\ file = "missing" /\ prepared = {} /\ finalized = {}
    /\ intents = <<>> /\ outcome = Outcome("none", NoEvent, FALSE)
    /\ started = FALSE /\ crashes = 0

\* FileStopLossDedupStore.initialize, which the operator calls once.
Initialize ==
    /\ ~started /\ started' = TRUE
    /\ file' = "ok"
    /\ UNCHANGED <<pct, pc, event, prepared, finalized, intents, outcome, crashes>>

Return(decision, e, breached) == pc' = "idle" /\ outcome' = Outcome(decision, e, breached)

\* Mutation: a record that is only prepared does not count.
OnlyFinalized == finalized

\* The events with a record.
Recorded == prepared \cup finalized

\* consume up to the point where an intent is to be emitted: _read, load and
\* _evaluate_stored_record.
Consume(p, o) ==
    LET e == EventOf(p, pct)
        breached == Breached(p, o, pct)
    IN
    /\ pc = "idle" /\ Len(intents) < MaxIntents
    /\ \/ /\ Blocks(p, o, pct)
          /\ Return("BLOCKED", NoEvent, breached) /\ UNCHANGED event
       \/ /\ ~Blocks(p, o, pct) /\ ~Triggered(p, o, pct)
          /\ Return("NO_TRIGGER", NoEvent, breached) /\ UNCHANGED event
       \/ /\ ~Blocks(p, o, pct) /\ Triggered(p, o, pct)
          /\ \/ /\ file # "ok" \/ (e \in Recorded /\ e \notin finalized)
                /\ Return("BLOCKED", e, breached) /\ UNCHANGED event
             \/ /\ file = "ok" /\ e \in finalized
                /\ Return("DUPLICATE_SUPPRESSED", e, breached) /\ UNCHANGED event
             \/ /\ file = "ok" /\ e \notin Recorded
                /\ pc' = "prepare" /\ event' = e /\ UNCHANGED outcome
    /\ UNCHANGED <<pct, store, intents, started, crashes>>

\* _upsert reads the file again; it fails when that is gone or damaged, and may
\* fail to write.
CanWrite == file = "ok"

\* _emit_exit_intent: the record first.
Prepare ==
    /\ pc = "prepare"
    /\ \/ /\ CanWrite
          /\ prepared' = prepared \cup {event} /\ finalized' = finalized \ {event}
          /\ pc' = "accept" /\ UNCHANGED outcome
       \/ Return("BLOCKED", event, TRUE) /\ UNCHANGED <<prepared, finalized>>
    /\ UNCHANGED <<pct, event, file, intents, started, crashes>>

\* Mutation: a sink that raised is taken for one that accepted.
IgnoreFailure == pc' = "finalize" /\ UNCHANGED outcome

SinkFailed == Return("BLOCKED", event, TRUE)

\* sink.accept: a sink that raises may still have taken the intent.
Accept ==
    /\ pc = "accept"
    /\ \/ /\ intents' = Append(intents, event)
          /\ pc' = "finalize" /\ UNCHANGED outcome
       \/ /\ intents' \in {intents, Append(intents, event)}
          /\ SinkFailed
    /\ UNCHANGED <<pct, event, store, started, crashes>>

Commit == finalized' = finalized \cup {event} /\ prepared' = prepared \ {event}

\* The commit; a failure is reported, and the record stays prepared.
Finalize ==
    /\ pc = "finalize"
    /\ \/ /\ CanWrite /\ Commit
          /\ Return("EXIT_INTENT_EMITTED", event, TRUE)
       \/ Return("BLOCKED", event, TRUE) /\ UNCHANGED <<prepared, finalized>>
    /\ UNCHANGED <<pct, event, file, intents, started, crashes>>

\* The process dies anywhere and starts again, perhaps with another stop.
Crash ==
    /\ crashes < MaxCrashes /\ crashes' = crashes + 1
    /\ pct' \in Percents /\ pc' = "idle" /\ event' = NoEvent
    /\ outcome' = Outcome("none", NoEvent, FALSE)
    /\ UNCHANGED <<store, intents, started>>

\* Mutation: a file that is gone is one without records.
EmptyStore == file' = "ok" /\ prepared' = {} /\ finalized' = {}

Damaged == file' \in {"missing", "corrupt"} /\ UNCHANGED <<prepared, finalized>>

\* The file is deleted or damaged from outside.
Damage ==
    /\ file = "ok" /\ Damaged
    /\ UNCHANGED <<pct, pc, event, intents, outcome, started, crashes>>

Next ==
    \/ Initialize
    \/ \E p \in Positions, o \in Observations : Consume(p, o)
    \/ Prepare \/ Accept \/ Finalize
    \/ Crash \/ Damage

Spec == Init /\ [][Next]_vars

-----------------------------------------------------------------------------
TypeOK ==
    /\ pct \in Percents /\ pc \in {"idle", "prepare", "accept", "finalize"}
    /\ event \in Events \cup {NoEvent} /\ (pc # "idle" => event \in Events)
    /\ file \in {"missing", "corrupt", "ok"} /\ started \in BOOLEAN
    /\ prepared \subseteq Events /\ finalized \subseteq Events
    /\ prepared \cap finalized = {}
    /\ intents \in Seq(Events)
    /\ outcome \in [decision : {"none", "BLOCKED", "NO_TRIGGER", "DUPLICATE_SUPPRESSED",
                                "EXIT_INTENT_EMITTED"},
                    event : Events \cup {NoEvent}, breached : BOOLEAN]
    /\ crashes \in Nat

(* AtMostOnce.  No protection event ever gets a second exit intent: not by   *)
(* repeated prices, not after a crash between any two of record, hand-over   *)
(* and commit, not after a sink that took the intent and raised, not after   *)
(* the file was lost or damaged (consumer.py: "Restart or replay never       *)
(* produces a second intent for the same event").                            *)
AtMostOnce ==
    \A i, j \in DOMAIN intents : intents[i] = intents[j] => i = j

Delivered == {intents[i] : i \in DOMAIN intents}

(* OutcomeHonest.  An event is reported as emitted or as a duplicate, and    *)
(* recorded as finalized, only when its own intent has reached the sink: no  *)
(* older record swallows a newer event, and no failure of a step in between  *)
(* passes for a success.                                                     *)
OutcomeHonest ==
    /\ finalized \subseteq Delivered
    /\ outcome.decision \in {"EXIT_INTENT_EMITTED", "DUPLICATE_SUPPRESSED"} =>
         outcome.event \in Delivered

(* NeverLate.  Whatever the rounding of entry, percentage, price and stop    *)
(* does, a price that breaches the configured stop is never answered with    *)
(* "no trigger" (compute_stop_price: "quantization can only make protection  *)
(* fire earlier, never later").                                              *)
NeverLate == outcome.decision = "NO_TRIGGER" => ~outcome.breached

Once == INSTANCE OneShot WITH Items <- Events, claimed <- Recorded, done <- Delivered

(* DeliversOnce.  The consumer with its file implements the one-shot         *)
(* hand-over: the record is written before the intent leaves (dedup_state.py *)
(* "prepare persists the protection event before an exit intent is emitted"),*)
(* is never withdrawn by a later step, and admits one hand-over.             *)
DeliversOnce == Once!Spec
=============================================================================

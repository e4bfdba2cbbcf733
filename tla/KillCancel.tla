------------------------------ MODULE KillCancel ------------------------------
(***************************************************************************)
(* The execution service's order path and its kill-cancel machinery:       *)
(* services/execution/{service,kill_cancel,open_order_registry}.py over    *)
(* the adapters of core/contracts/external_adapter_registry.py.            *)
(*                                                                         *)
(* Three threads of one process share a registry of open orders, a         *)
(* coordinator with a lock, and a supervisor:                              *)
(*   "order"  message_loop -> process_order, one order at a time;          *)
(*   "sup"    the supervisor's poll loop (and, before it, main's startup); *)
(*   "shut"   listen_bot_shutdown -> _handle_bot_shutdown.                 *)
(* Outside the process: the kill-switch state file, the shutdown stream,   *)
(* the open-order ledger file and the venue.  The process may crash.       *)
(*                                                                         *)
(* A step is one critical section, one read of the kill file, or one       *)
(* adapter call; everything else the code does between two such points is  *)
(* thread-local and belongs to the step before it.                         *)
(***************************************************************************)
EXTENDS Naturals

CONSTANTS
    Orders,           \* internal order ids
    NoOrder,          \* "no order in hand"
    ReduceOnly,       \* the orders carrying reduce_only = TRUE
    Modes,            \* the adapter configurations to consider
    CancelBehaviors,  \* what the mock adapter may do with a cancel
    PositionsKnown,   \* TRUE: the coordinator has a position snapshot
    LedgerFaults,     \* TRUE: a ledger write may fail with OSError
    MaxKills,         \* bound: activations of the kill switch
    MaxShutdowns,     \* bound: entries of the bot-shutdown stream
    MaxCrashes        \* bound: crashes of the process

AllModes == {"resting", "filling", "mexc", "dryrun"}
AllBehaviors == {"confirm", "reject", "error", "accepted_unconfirmed", "malformed"}

ASSUME ConstantsAssumption ==
    /\ NoOrder \notin Orders
    /\ ReduceOnly \subseteq Orders
    /\ Modes \subseteq AllModes
    /\ CancelBehaviors \subseteq AllBehaviors
    /\ PositionsKnown \in BOOLEAN
    /\ LedgerFaults \in BOOLEAN
    /\ MaxKills \in Nat /\ MaxShutdowns \in Nat /\ MaxCrashes \in Nat

Threads == {"order", "sup", "shut"}
OpenStatuses == {"PENDING", "SUBMITTED"}        \* the adapters never answer PARTIALLY_FILLED
RecordStatuses == OpenStatuses \cup {"FAILED"}
VenueTerminal == {"FILLED", "CANCELLED"}
Results == {"none", "SUBMITTED", "FILLED", "REJECTED", "FAILED"}
Verdicts == {"none", "PASS", "HOLD", "FAIL"}

VARIABLES
    mode,        \* the adapter the process was configured with
    kill,        \* what a read of the kill-switch file answers: TRUE is active
    kills,       \* activations so far
    crashes,     \* crashes so far
    venue,       \* order -> its status at the venue
    registry,    \* order -> status of its OpenOrderRecord, "none" if there is none
    ledger,      \* the same on disk
    pc,          \* thread -> where it is
    cur,         \* the order process_order is working on
    result,      \* the ExecutionResult.status it holds
    inbox,       \* orders not yet delivered by Redis
    published,   \* order -> status published on order_results
    botShutdown, \* bot_shutdown_active
    stream,      \* length of the bot-shutdown stream
    cursor,      \* listen_bot_shutdown's last_id
    owner,       \* holder of the coordinator's lock
    snap,        \* reconcile: the registry as list_open saw it
    todo,        \* reconcile: discovered orders not yet handled
    target,      \* reconcile: the order in _cancel_one
    step,        \* reconcile: where _cancel_one is
    response,    \* reconcile: the CancelOrderResponse
    residual,    \* reconcile: some evidence is residual_open
    killEvent,   \* _active_kill_event_id is set
    fills,       \* _fill_after_kill
    manifest,    \* _last_manifest: its verdict and the registry it discovered
    returned,    \* thread -> verdict of the manifest its reconcile returned
    up,          \* the startup gate is through and the threads run
    polled,      \* the kill state poll_once read
    lastActive,  \* _last_active
    hold,        \* _hold_new_orders
    accepted,    \* _orders_accepted
    closed,      \* history: orders whose record was dropped as confirmed terminal
    confirmed,   \* history: orders whose cancel this process has seen confirmed
    calm         \* history: kill was inactive at some time since registration

envVars   == <<mode, kill, kills, crashes>>
storeVars == <<registry, ledger, closed>>
orderVars == <<cur, result, inbox, published>>
shutVars  == <<botShutdown, stream, cursor>>
recVars   == <<owner, snap, todo, target, step, response, residual>>
coordVars == <<killEvent, fills, manifest, returned, confirmed>>
supVars   == <<up, polled, lastActive, hold, accepted>>
ghostVars == <<calm>>
vars == <<envVars, venue, storeVars, pc, orderVars, shutVars, recVars,
          coordVars, supVars, ghostVars>>

-----------------------------------------------------------------------------
NoRecords == [o \in Orders |-> "none"]

Init ==
    /\ mode \in Modes
    /\ kill \in BOOLEAN /\ kills = 0 /\ crashes = 0
    /\ venue = [o \in Orders |-> "absent"]
    /\ registry = NoRecords /\ ledger = NoRecords /\ closed = {}
    /\ pc = [t \in Threads |-> IF t = "sup" THEN "boot" ELSE "idle"]
    /\ cur = NoOrder /\ result = "none"
    /\ inbox = Orders /\ published = [o \in Orders |-> "none"]
    /\ botShutdown = FALSE /\ stream = 0 /\ cursor = 0
    /\ owner = "none" /\ snap = NoRecords /\ todo = {} /\ target = NoOrder
    /\ step = "next" /\ response = "none" /\ residual = FALSE
    /\ killEvent = FALSE /\ fills = {} /\ confirmed = {}
    /\ manifest = [verdict |-> "none", snap |-> NoRecords]
    /\ returned = [t \in Threads |-> "none"]
    /\ up = FALSE /\ polled = FALSE /\ lastActive = FALSE
    /\ hold = TRUE /\ accepted = FALSE
    /\ calm = [o \in Orders |-> FALSE]

At(t, label) == pc[t] = label
Goto(t, label) == pc' = [pc EXCEPT ![t] = label]

-----------------------------------------------------------------------------
(* OpenOrderRegistry.  Every stored record has residual_open = TRUE: the    *)
(* only writes of FALSE are followed by the deletion of the record, so the  *)
(* record is its status here.                                               *)

\* _persist_unlocked: write-and-rename, OSError is logged and swallowed.
Persisted(r) == {r} \cup (IF LedgerFaults THEN {ledger} ELSE {})

Store(r) == registry' = r /\ ledger' \in Persisted(r)

Has(o) == registry[o] # "none"

\* OpenOrderRecord.is_open, the filter of list_open.
IsOpen(s) == s \in OpenStatuses

\* Mutation: the record is kept in memory only.
RegisterInMemory(o, s) == registry' = [registry EXCEPT ![o] = s] /\ UNCHANGED <<ledger, closed>>

\* register(): upsert with the given status.
Register(o, s) == Store([registry EXCEPT ![o] = s]) /\ UNCHANGED closed

\* update_status(..., confirmed_terminal = FALSE): nothing if there is no record.
UpdateStatus(o, s) ==
    /\ IF Has(o) THEN Store([registry EXCEPT ![o] = s])
                 ELSE UNCHANGED <<registry, ledger>>
    /\ UNCHANGED closed

\* update_status(..., confirmed_terminal = TRUE), also through
\* mark_cancel_outcome(confirmed = TRUE): the record is deleted.
DropConfirmed(o) ==
    /\ IF Has(o) THEN Store([registry EXCEPT ![o] = "none"])
                 ELSE UNCHANGED <<registry, ledger>>
    /\ closed' = closed \cup {o}

\* Mutation: an unconfirmed cancel deletes the record.
ForgetResidual(o) ==
    Store([registry EXCEPT ![o] = "none"]) /\ UNCHANGED closed

\* mark_cancel_outcome(confirmed = FALSE): the record stays as residual.
KeepResidual(o) == UpdateStatus(o, registry[o])

-----------------------------------------------------------------------------
(* Kill switch, as its readers see it: a missing, empty or corrupt file     *)
(* reads as active (module KillSwitch).  Activation and deactivation come   *)
(* from the operator through the risk service's endpoints.                  *)

Activate ==
    /\ ~kill /\ kills < MaxKills
    /\ kill' = TRUE /\ kills' = kills + 1
    /\ UNCHANGED <<mode, crashes, venue, storeVars, pc, orderVars, shutVars,
                   recVars, coordVars, supVars, ghostVars>>

Deactivate ==
    /\ kill /\ kill' = FALSE
    /\ calm' = [o \in Orders |-> TRUE]
    /\ UNCHANGED <<mode, kills, crashes, venue, storeVars, pc, orderVars,
                   shutVars, recVars, coordVars, supVars>>

-----------------------------------------------------------------------------
(* process_order, in the "order" thread.                                    *)

\* Every early return publishes a REJECTED result.
Reject == Goto("order", "publish") /\ result' = "REJECTED"

\* A message arrives and is parsed.  A malformed payload is dropped; a
\* missing decision_id or run_mode = shadow is rejected at once.
Receive(o) ==
    /\ up /\ At("order", "idle") /\ o \in inbox
    /\ inbox' = inbox \ {o}
    /\ \/ Goto("order", "killGate") /\ cur' = o /\ UNCHANGED result
       \/ Reject /\ cur' = o
       \/ UNCHANGED <<pc, cur, result>>
    /\ UNCHANGED <<envVars, venue, storeVars, published, shutVars, recVars,
                   coordVars, supVars, ghostVars>>

\* First read of the kill file.
KillGate ==
    /\ At("order", "killGate")
    /\ \/ kill /\ Reject
       \/ ~kill /\ Goto("order", "holdGate") /\ UNCHANGED result
    /\ UNCHANGED <<envVars, venue, storeVars, cur, inbox, published, shutVars,
                   recVars, coordVars, supVars, ghostVars>>

MayAccept == ~hold /\ accepted /\ ~botShutdown

\* Supervisor hold, then bot shutdown, then the reduce-only preparation
\* (module ReduceOnly), which may also reject and rejects on MEXC.
HoldGate ==
    /\ At("order", "holdGate")
    /\ \/ ~MayAccept /\ Reject
       \/ MayAccept /\ cur \in ReduceOnly /\ Reject
       \/ /\ MayAccept
          /\ cur \in ReduceOnly => mode \in {"resting", "filling"}
          /\ Goto("order", "register") /\ UNCHANGED result
    /\ UNCHANGED <<envVars, venue, storeVars, cur, inbox, published, shutVars,
                   recVars, coordVars, supVars, ghostVars>>

\* _register_order_pre_submit.
RegisterPreSubmit ==
    /\ At("order", "register")
    /\ Register(cur, "PENDING")
    /\ calm' = [calm EXCEPT ![cur] = ~kill]
    /\ Goto("order", "recheck")
    /\ UNCHANGED <<envVars, venue, orderVars, shutVars, recVars, coordVars,
                   supVars>>

\* Mutation: the second read of the kill file is left out.
RecheckSkipped ==
    /\ At("order", "recheck") /\ Goto("order", "submit")
    /\ UNCHANGED <<envVars, venue, storeVars, orderVars, shutVars, recVars,
                   coordVars, supVars, ghostVars>>

\* Second read of the kill file, right before the adapter handoff; active
\* enters on_kill_transition, which sets _last_active and reconciles.
Recheck ==
    /\ At("order", "recheck")
    /\ \/ /\ kill
          /\ Goto("order", "wait") /\ result' = "REJECTED"
          /\ lastActive' = TRUE
       \/ /\ ~kill
          /\ Goto("order", "submit")
          /\ UNCHANGED <<result, lastActive>>
    /\ UNCHANGED <<envVars, venue, storeVars, cur, inbox, published, shutVars,
                   recVars, coordVars, up, polled, hold, accepted, ghostVars>>

\* What the adapter does at the venue and the status process_order holds
\* afterwards.  A reduce-only order also passes finalize_reduce_only, which
\* turns a resting answer, a blocked fill or its own error into FAILED.
\* LiveExecutor._parse_mexc_response ends in a log line that reads
\* result.execution_price, a field ExecutionResult does not have: its
\* exception becomes _create_error_result, whatever the venue answered.
Answer(v, r) == [venue |-> v, result |-> r]
\* Mutation: the mock's answer is lost in an exception, as the live one's is.
AnswersLost(o) == {Answer(v, "REJECTED") : v \in {"absent", "FILLED"}}
Answers(o) ==
    CASE mode = "resting" ->
            {Answer("SUBMITTED", IF o \in ReduceOnly THEN "FAILED" ELSE "SUBMITTED")}
      [] mode = "filling" ->
            {Answer("FILLED", "FILLED"), Answer("absent", "REJECTED")} \cup
            (IF o \in ReduceOnly
             THEN {Answer("FILLED", "FAILED"), Answer("absent", "FAILED")} ELSE {})
      [] mode = "mexc" ->
            {Answer(v, "REJECTED") : v \in {"absent", "SUBMITTED", "FILLED"}}
      [] OTHER -> {Answer("absent", "FILLED")}

\* The adapter call returns an answer, or raises before it reaches the venue:
\* process_order then returns None and the record stays.
Submit ==
    /\ At("order", "submit")
    /\ \/ \E a \in Answers(cur) :
             /\ venue' = [venue EXCEPT ![cur] = a.venue]
             /\ result' = a.result
             /\ Goto("order", "apply") /\ UNCHANGED cur
       \/ /\ Goto("order", "idle") /\ cur' = NoOrder /\ result' = "none"
          /\ UNCHANGED venue
    /\ UNCHANGED <<envVars, storeVars, inbox, published, shutVars, recVars,
                   coordVars, supVars, ghostVars>>

\* _apply_execution_result_to_registry reads active_kill_event_id without
\* the coordinator's lock ...
ApplyRead ==
    /\ At("order", "apply")
    /\ Goto("order", IF killEvent /\ result = "FILLED" THEN "note" ELSE "update")
    /\ UNCHANGED <<envVars, venue, storeVars, orderVars, shutVars, recVars,
                   coordVars, supVars, ghostVars>>

\* ... and then books the fill under that lock (note_fill_after_kill) ...
NoteFillAfterKill ==
    /\ At("order", "note") /\ owner = "none"
    /\ fills' = fills \cup {cur}
    /\ KeepResidual(cur)
    /\ Goto("order", "publish")
    /\ UNCHANGED <<envVars, venue, orderVars, shutVars, recVars, killEvent,
                   manifest, returned, confirmed, supVars, ghostVars>>

\* ... or updates the registry.
ApplyUpdate ==
    /\ At("order", "update")
    /\ \/ result = "SUBMITTED" /\ Register(cur, "SUBMITTED")
       \/ result = "FAILED" /\ UpdateStatus(cur, "FAILED")
       \/ result \in {"FILLED", "REJECTED"} /\ DropConfirmed(cur)
    /\ Goto("order", "publish")
    /\ UNCHANGED <<envVars, venue, orderVars, shutVars, recVars, coordVars,
                   supVars, ghostVars>>

\* Mutation: the internal status is published as it is.
RawStatus(r) == r

\* ExecutionResult._schema_status: what subscribers of order_results read.
SchemaStatus(r) == IF r \in {"FILLED", "REJECTED"} THEN r ELSE "ERROR"

\* _publish_result; an exception of Redis ends process_order without it.
Publish ==
    /\ At("order", "publish")
    /\ published' \in {published, [published EXCEPT ![cur] = SchemaStatus(result)]}
    /\ Goto("order", "idle") /\ cur' = NoOrder /\ result' = "none"
    /\ UNCHANGED <<envVars, venue, storeVars, inbox, shutVars, recVars,
                   coordVars, supVars, ghostVars>>

OrderStep ==
    \/ KillGate \/ HoldGate \/ RegisterPreSubmit \/ Recheck \/ Submit
    \/ ApplyRead \/ NoteFillAfterKill \/ ApplyUpdate \/ Publish

\* A live venue fills an open order on its own.
VenueFill(o) ==
    /\ mode = "mexc" /\ venue[o] = "SUBMITTED"
    /\ venue' = [venue EXCEPT ![o] = "FILLED"]
    /\ UNCHANGED <<envVars, storeVars, pc, orderVars, shutVars, recVars,
                   coordVars, supVars, ghostVars>>

-----------------------------------------------------------------------------
(* KillCancelCoordinator.reconcile, run by thread t under the lock.  The    *)
(* kill_event_id hashes a fresh timestamp on every call (activated_at is a  *)
(* string, so the supervisor passes utcnow()), hence the set of orders      *)
(* confirmed under that id is empty when a call starts and its early return *)
(* in _cancel_one is never taken.                                           *)

SupportsCancel == mode \in {"resting", "filling"}

Discovered == {o \in Orders : IsOpen(registry[o])}

\* Take the lock, set the active kill event, list_open.  An adapter without
\* cancel leaves every discovered order STATUS_UNKNOWN and residual.
ReconcileStart(t) ==
    /\ At(t, "wait") /\ owner = "none"
    /\ Goto(t, "reconcile") /\ owner' = t
    /\ killEvent' = TRUE
    /\ snap' = registry
    /\ IF SupportsCancel
       THEN /\ todo' = Discovered /\ residual' = FALSE
            /\ UNCHANGED <<registry, ledger>>
       ELSE /\ todo' = {} /\ residual' = (Discovered # {})
            /\ IF Discovered = {} THEN UNCHANGED <<registry, ledger>>
                                  ELSE Store(registry)
    /\ UNCHANGED <<envVars, venue, closed, orderVars, shutVars, target, step,
                   response, fills, manifest, returned, confirmed, supVars,
                   ghostVars>>

\* The order is done with: confirmed terminal, or residual.
Settle(o, isConfirmed) ==
    /\ IF isConfirmed THEN DropConfirmed(o) ELSE KeepResidual(o)
    /\ confirmed' = IF isConfirmed THEN confirmed \cup {o} ELSE confirmed
    /\ residual' = (residual \/ ~isConfirmed)
    /\ todo' = todo \ {o} /\ target' = NoOrder /\ step' = "next" /\ response' = "none"

\* Mutation: the cancel is sent without looking at the venue first.
PreReadBlind(t, o) ==
    /\ owner = t /\ step = "next" /\ o \in todo
    /\ UpdateStatus(o, snap[o])
    /\ target' = o /\ step' = "cancel"
    /\ UNCHANGED <<envVars, venue, pc, orderVars, shutVars, owner, snap, todo,
                   response, residual, coordVars, supVars, ghostVars>>

\* _cancel_one, first read of the venue: already terminal there, or mark the
\* record CANCEL_REQUESTED, writing back the status the snapshot had.
PreRead(t, o) ==
    /\ owner = t /\ step = "next" /\ o \in todo
    /\ \/ venue[o] \in VenueTerminal /\ Settle(o, TRUE)
       \/ /\ venue[o] \notin VenueTerminal
          /\ UpdateStatus(o, snap[o])
          /\ target' = o /\ step' = "cancel"
          /\ UNCHANGED <<todo, response, residual, confirmed>>
    /\ UNCHANGED <<envVars, venue, pc, orderVars, shutVars, owner, snap,
                   killEvent, fills, manifest, returned, supVars, ghostVars>>

\* MockExecutionAdapter.cancel_order under each cancel_behavior.
CancelResponse(b) ==
    CASE b \in {"reject", "malformed"} -> "refused"
      [] b = "accepted_unconfirmed" -> "accepted"
      [] venue[target] = "absent" -> "refused"
      [] venue[target] = "FILLED" -> "accepted"
      [] OTHER -> "confirmed"

\* The cancel call; an exception is CANCEL_ERROR, residual.
CancelCall(t) ==
    /\ owner = t /\ step = "cancel"
    /\ \E b \in CancelBehaviors :
          \/ b = "error" /\ Settle(target, FALSE) /\ UNCHANGED venue
          \/ /\ b # "error"
             /\ response' = CancelResponse(b) /\ step' = "readback"
             /\ venue' = IF b = "confirm" /\ venue[target] = "SUBMITTED"
                         THEN [venue EXCEPT ![target] = "CANCELLED"] ELSE venue
             /\ UNCHANGED <<storeVars, todo, target, residual, confirmed>>
    /\ UNCHANGED <<envVars, pc, orderVars, shutVars, owner, snap, killEvent,
                   fills, manifest, returned, supVars, ghostVars>>

\* Confirmed when the venue says so on readback or the response said so;
\* accepted without confirmation, refused or unknown stays residual.
CancelConfirmed == venue[target] \in VenueTerminal \/ response = "confirmed"

Readback(t) ==
    /\ owner = t /\ step = "readback"
    /\ Settle(target, CancelConfirmed)
    /\ UNCHANGED <<envVars, venue, pc, orderVars, shutVars, owner, snap,
                   killEvent, fills, manifest, returned, supVars, ghostVars>>

\* Mutation: residual open orders do not keep the verdict from PASS.
VerdictBlind == IF fills # {} THEN "FAIL" ELSE IF PositionsKnown THEN "PASS" ELSE "HOLD"

Verdict == IF fills # {} THEN "FAIL"
           ELSE IF residual \/ ~PositionsKnown THEN "HOLD" ELSE "PASS"

\* Mutation: the lock is not released.
FinishLocked(t) ==
    /\ owner = t /\ step = "next" /\ todo = {} /\ ~At(t, "post")
    /\ manifest' = [verdict |-> Verdict, snap |-> snap]
    /\ returned' = [returned EXCEPT ![t] = IF t = "shut" THEN "none" ELSE Verdict]
    /\ snap' = NoRecords /\ residual' = FALSE
    /\ Goto(t, IF t = "shut" THEN "idle" ELSE "post")
    /\ UNCHANGED <<envVars, venue, storeVars, orderVars, shutVars, owner, todo, target,
                   step, response, killEvent, fills, confirmed, supVars, ghostVars>>

\* The manifest is stored, the lock released.
ReconcileFinish(t) ==
    /\ owner = t /\ step = "next" /\ todo = {}
    /\ manifest' = [verdict |-> Verdict, snap |-> snap]
    /\ returned' = [returned EXCEPT ![t] = IF t = "shut" THEN "none" ELSE Verdict]
    /\ owner' = "none" /\ snap' = NoRecords /\ residual' = FALSE
    /\ Goto(t, IF t = "shut" THEN "idle" ELSE "post")
    /\ UNCHANGED <<envVars, venue, storeVars, orderVars, shutVars, todo, target,
                   step, response, killEvent, fills, confirmed, supVars, ghostVars>>

\* The second half of on_kill_transition and run_startup_gate: take over the
\* verdict.  process_order then publishes its rejection; startup lets the
\* threads run.
Post(t) ==
    /\ At(t, "post")
    /\ hold' = TRUE
    /\ accepted' = (returned[t] = "PASS" /\ (accepted \/ ~up))
    /\ up' = TRUE
    /\ returned' = [returned EXCEPT ![t] = "none"]
    /\ Goto(t, IF t = "order" THEN "publish" ELSE "idle")
    /\ UNCHANGED <<envVars, venue, storeVars, orderVars, shutVars, recVars,
                   killEvent, fills, manifest, confirmed, polled, lastActive,
                   ghostVars>>

ReconcileStep(t) ==
    \/ ReconcileStart(t) \/ (\E o \in Orders : PreRead(t, o)) \/ CancelCall(t)
    \/ Readback(t) \/ ReconcileFinish(t) \/ Post(t)
-----------------------------------------------------------------------------
(* KillCancelSupervisor.                                                    *)

\* _ensure_kill_cancel_stack at startup: load the ledger, read the kill file;
\* inactive opens the gate, active reconciles first (run_startup_gate).
Boot ==
    /\ At("sup", "boot")
    /\ registry' = ledger
    /\ lastActive' = kill
    /\ IF kill THEN Goto("sup", "wait") /\ UNCHANGED <<hold, accepted, up>>
       ELSE Goto("sup", "idle") /\ hold' = FALSE /\ accepted' = TRUE /\ up' = TRUE
    /\ UNCHANGED <<envVars, venue, ledger, closed, orderVars, shutVars, recVars,
                   coordVars, polled, ghostVars>>

\* poll_once reads the kill file outside any lock ...
PollRead ==
    /\ up /\ At("sup", "idle")
    /\ polled' = kill /\ Goto("sup", "act")
    /\ UNCHANGED <<envVars, venue, storeVars, orderVars, shutVars, recVars,
                   coordVars, up, lastActive, hold, accepted, ghostVars>>

\* Mutations of the poll: inactive does not resume acceptance; inactive does
\* not reset _last_active, so the next activation is no rising edge.
PollNoResume ==
    /\ At("sup", "act") /\ lastActive' = polled
    /\ Goto("sup", IF polled /\ ~lastActive THEN "wait" ELSE "idle")
    /\ UNCHANGED <<envVars, venue, storeVars, orderVars, shutVars, recVars,
                   coordVars, up, polled, hold, accepted, ghostVars>>
PollLatched ==
    /\ At("sup", "act") /\ lastActive' = (lastActive \/ polled)
    /\ Goto("sup", IF polled /\ ~lastActive THEN "wait" ELSE "idle")
    /\ hold' = (hold /\ polled) /\ accepted' = (accepted \/ ~polled)
    /\ UNCHANGED <<envVars, venue, storeVars, orderVars, shutVars, recVars,
                   coordVars, up, polled, ghostVars>>

\* ... and acts on what it read: a rising edge reconciles, a repeated active
\* does nothing, inactive resumes acceptance.
PollAct ==
    /\ At("sup", "act")
    /\ lastActive' = polled
    /\ \/ polled /\ ~lastActive /\ Goto("sup", "wait") /\ UNCHANGED <<hold, accepted>>
       \/ polled /\ lastActive /\ Goto("sup", "idle") /\ UNCHANGED <<hold, accepted>>
       \/ ~polled /\ Goto("sup", "idle") /\ hold' = FALSE /\ accepted' = TRUE
    /\ UNCHANGED <<envVars, venue, storeVars, orderVars, shutVars, recVars,
                   coordVars, up, polled, ghostVars>>

SupStep == Boot \/ PollRead \/ PollAct

-----------------------------------------------------------------------------
(* Bot shutdown.                                                            *)

\* The risk service appends to the bot-shutdown stream (external).
EmitBotShutdown ==
    /\ stream < MaxShutdowns /\ stream' = stream + 1
    /\ UNCHANGED <<envVars, venue, storeVars, pc, orderVars, botShutdown, cursor,
                   recVars, coordVars, supVars, ghostVars>>

\* listen_bot_shutdown reads the next entry (from "0-0" after a restart) and
\* _handle_bot_shutdown blocks all orders and reconciles.
HandleBotShutdown ==
    /\ up /\ At("shut", "idle") /\ cursor < stream
    /\ cursor' = cursor + 1 /\ botShutdown' = TRUE
    /\ Goto("shut", "wait")
    /\ UNCHANGED <<envVars, venue, storeVars, orderVars, stream, recVars,
                   coordVars, supVars, ghostVars>>

-----------------------------------------------------------------------------
\* The process dies and comes back at its startup: memory is gone, the ledger
\* and the stream are not.  The mock venue lives in the process's memory.
Crash ==
    /\ crashes < MaxCrashes /\ ~At("sup", "boot")
    /\ crashes' = crashes + 1
    /\ venue' = IF mode = "mexc" THEN venue ELSE [o \in Orders |-> "absent"]
    /\ registry' = NoRecords
    /\ pc' = [t \in Threads |-> IF t = "sup" THEN "boot" ELSE "idle"]
    /\ cur' = NoOrder /\ result' = "none"
    /\ botShutdown' = FALSE /\ cursor' = 0
    /\ owner' = "none" /\ snap' = NoRecords /\ todo' = {} /\ target' = NoOrder
    /\ step' = "next" /\ response' = "none" /\ residual' = FALSE
    /\ killEvent' = FALSE /\ fills' = {} /\ confirmed' = {}
    /\ manifest' = [verdict |-> "none", snap |-> NoRecords]
    /\ returned' = [t \in Threads |-> "none"]
    /\ up' = FALSE /\ polled' = FALSE /\ lastActive' = FALSE
    /\ hold' = TRUE /\ accepted' = FALSE
    /\ UNCHANGED <<mode, kill, kills, ledger, closed, inbox, published, stream,
                   ghostVars>>

Next ==
    \/ Activate \/ Deactivate
    \/ \E o \in Orders : Receive(o) \/ VenueFill(o)
    \/ OrderStep
    \/ SupStep
    \/ EmitBotShutdown \/ HandleBotShutdown
    \/ \E t \in Threads : ReconcileStep(t)
    \/ Crash

Spec == Init /\ [][Next]_vars

\* Each thread keeps running: the message loop finishes the order in hand,
\* the supervisor's loop polls, the shutdown listener reads its stream, and a
\* reconcile that holds the lock completes.  Nothing is assumed of the
\* operator, the venue, Redis deliveries or crashes.
Fairness ==
    /\ WF_vars(OrderStep)
    /\ WF_vars(SupStep)
    /\ WF_vars(HandleBotShutdown)
    /\ \A t \in Threads : WF_vars(ReconcileStep(t))

FairSpec == Spec /\ Fairness
-----------------------------------------------------------------------------
(* Properties.                                                              *)

OrderLabels == {"idle", "killGate", "holdGate", "register", "recheck", "submit",
                "apply", "note", "update", "publish", "wait", "reconcile", "post"}
SupLabels == {"boot", "idle", "act", "wait", "reconcile", "post"}
ShutLabels == {"idle", "wait", "reconcile"}

Records == [Orders -> RecordStatuses \cup {"none"}]

FlagTypes ==
    /\ kill \in BOOLEAN /\ botShutdown \in BOOLEAN /\ residual \in BOOLEAN
    /\ killEvent \in BOOLEAN /\ up \in BOOLEAN /\ polled \in BOOLEAN
    /\ lastActive \in BOOLEAN /\ hold \in BOOLEAN /\ accepted \in BOOLEAN
    /\ calm \in [Orders -> BOOLEAN]

CounterTypes ==
    /\ kills \in 0..MaxKills /\ crashes \in 0..MaxCrashes
    /\ stream \in 0..MaxShutdowns /\ cursor \in 0..stream

StoreTypes == registry \in Records /\ ledger \in Records /\ closed \subseteq Orders

ControlTypes ==
    /\ pc \in [Threads -> OrderLabels \cup SupLabels]
    /\ pc["order"] \in OrderLabels /\ pc["sup"] \in SupLabels /\ pc["shut"] \in ShutLabels
    /\ cur \in Orders \cup {NoOrder} /\ result \in Results
    /\ inbox \subseteq Orders
    /\ published \in [Orders -> {"none", "FILLED", "REJECTED", "ERROR"}]

ReconcileTypes ==
    /\ mode \in Modes
    /\ venue \in [Orders -> {"absent", "SUBMITTED"} \cup VenueTerminal]
    /\ owner \in Threads \cup {"none"} /\ snap \in Records
    /\ todo \subseteq Orders /\ target \in Orders \cup {NoOrder}
    /\ step \in {"next", "cancel", "readback"}
    /\ response \in {"none", "refused", "accepted", "confirmed"}
    /\ fills \subseteq Orders /\ confirmed \subseteq Orders
    /\ manifest \in [verdict : Verdicts, snap : Records]
    /\ returned \in [Threads -> Verdicts]

\* The types of the state of the execution service, its files and the venue.
TypeOK == FlagTypes /\ CounterTypes /\ StoreTypes /\ ControlTypes /\ ReconcileTypes

Loaded == ~At("sup", "boot")

\* Registering before the adapter call keeps custody of every order: whatever
\* the interleaving of the order path, a reconcile and a crash, an order open
\* at the venue is in the registry of the running process and, for the next
\* one, in the ledger, until some answer was taken for its confirmed end.
CustodyKept ==
    \A o \in Orders : venue[o] = "SUBMITTED" /\ o \notin closed =>
        /\ ledger[o] # "none"
        /\ Loaded => registry[o] # "none"

\* An order reaches the venue only if the kill switch was inactive at some
\* time after its registration: the second read of the kill file in
\* process_order, not the first one, decides.
KillRespected == \A o \in Orders : venue[o] # "absent" => calm[o]

\* A PASS manifest means what the contract says: every order the reconcile
\* discovered is cancelled or filled at the venue, even if its submission was
\* still under way when the reconcile listed it.
PassIsHonest ==
    manifest.verdict = "PASS" =>
        \A o \in Orders : IsOpen(manifest.snap[o]) => venue[o] \in VenueTerminal

\* "No duplicate confirmed cancels": a later reconcile never sends a cancel
\* for an order whose end this process has already seen confirmed, although
\* a late register() of the order thread can bring its record back.
NoDuplicateCancel == step = "cancel" => target \notin confirmed

\* What subscribers of order_results read as REJECTED never reached the
\* venue; a gate's rejection and a rejection by the mock alike.
RejectedNeverTraded ==
    \A o \in Orders : published[o] = "REJECTED" /\ mode # "mexc" => venue[o] = "absent"

\* A residual is never removed silently: a record disappears only together
\* with the booking of its confirmed end, or by a crash that leaves it in the
\* ledger.
NoSilentRemoval ==
    [][\A o \in Orders : registry[o] # "none" /\ registry'[o] = "none" =>
          o \in closed' \/ (crashes' # crashes /\ ledger'[o] # "none")]_vars

\* Once the kill switch stays inactive, new orders are accepted again
\* (poll_once), whatever a reconcile still running writes afterwards.
AcceptanceResumes == <>[](~kill) => <>[](~hold /\ accepted)

\* Once it stays active, the supervisor's hold comes up and stays up, even
\* after a poll acted on a stale "inactive".
HoldComesUp == <>[]kill => <>[]hold

\* process_order always comes back to its message loop: it is never stuck
\* behind the coordinator's lock.
OrderFinishes == ~At("order", "idle") ~> At("order", "idle")
==============================================================================

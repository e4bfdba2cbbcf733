--------------------------- MODULE KillCancelProofs ---------------------------
(***************************************************************************)
(* Proofs about KillCancel, for any set of orders, any adapter             *)
(* configuration, any bounds, and about KillSwitch, the file it polls.     *)
(***************************************************************************)
EXTENDS KillCancel, KillSwitch, TLAPS

\* What the type invariant needs to be inductive: who is at work holds an
\* order, and who holds the lock is in reconcile.
Held ==
    /\ owner # "none" => pc[owner] = "reconcile"
    /\ pc["order"] # "idle" => cur \in Orders
    /\ step # "next" => target \in Orders

\* process_order sees each order once, and between the registration and the
\* adapter call the kill switch was inactive at some time.
BeforeSubmit == {"killGate", "holdGate", "register", "recheck", "submit"}
Once ==
    /\ \A o \in inbox : venue[o] = "absent"
    /\ cur \notin inbox
    /\ pc["order"] \in BeforeSubmit => venue[cur] = "absent"
Calm ==
    /\ pc["order"] = "recheck" /\ ~kill => calm[cur]
    /\ pc["order"] = "submit" => calm[cur]
KillInv == TypeOK /\ Held /\ Once /\ Calm /\ KillRespected

\* While main loads the ledger no other thread runs.
Alone == ~Loaded => ~up /\ pc["order"] = "idle" /\ pc["shut"] = "idle"

\* Without write errors the ledger is the registry, and the order in hand is
\* in it from its registration on.
Mirrors == IF Loaded THEN registry = ledger ELSE registry = NoRecords
Recorded(o) == o \in closed \/ ledger[o] # "none"
Custody ==
    /\ \A o \in todo : snap[o] # "none"
    /\ \A o \in Orders : venue[o] = "SUBMITTED" => Recorded(o)
    /\ pc["order"] \in {"recheck", "submit"} => Recorded(cur)
CustodyInv == TypeOK /\ Held /\ Alone /\ Mirrors /\ Custody

\* A step loses no record but by booking its end.
KeepsCustody ==
    /\ closed \subseteq closed'
    /\ \A o \in Orders : ledger[o] # "none" => o \in closed' \/ ledger'[o] # "none"

\* The registry's operations keep records well typed.
LEMMA StoreType ==
    ASSUME StoreTypes, NEW r \in Records, Store(r)
    PROVE  registry' \in Records /\ ledger' \in Records
BY DEF Store, Persisted, StoreTypes

LEMMA RecordUpdate ==
    ASSUME NEW r \in Records, NEW o \in Orders,
           NEW s \in RecordStatuses \cup {"none"}
    PROVE  [r EXCEPT ![o] = s] \in Records
BY DEF Records

LEMMA StatusTypes ==
    /\ {"PENDING", "SUBMITTED", "FAILED", "none"} \subseteq RecordStatuses \cup {"none"}
    /\ NoRecords \in Records
BY DEF RecordStatuses, OpenStatuses, NoRecords, Records

LEMMA RegistryOpsType ==
    ASSUME StoreTypes, NEW o \in Orders, NEW s \in RecordStatuses \cup {"none"},
           Register(o, s) \/ UpdateStatus(o, s) \/ DropConfirmed(o) \/ KeepResidual(o)
    PROVE  StoreTypes'
<1>1. registry \in Records /\ ledger \in Records /\ closed \subseteq Orders
  BY DEF StoreTypes
<1>2. registry[o] \in RecordStatuses \cup {"none"}
  BY <1>1 DEF Records
<1>3. ASSUME NEW x \in RecordStatuses \cup {"none"}, UpdateStatus(o, x)
      PROVE  StoreTypes'
  BY <1>1, <1>3, RecordUpdate, StoreType DEF UpdateStatus, StoreTypes
<1>4. CASE Register(o, s)
  BY <1>1, <1>4, RecordUpdate, StoreType DEF Register, StoreTypes
<1>5. CASE DropConfirmed(o)
  BY <1>1, <1>5, RecordUpdate, StoreType, StatusTypes DEF DropConfirmed, StoreTypes
<1>6. QED
  BY <1>2, <1>3, <1>4, <1>5 DEF KeepResidual

\* What holds initially: the process at its startup, nothing registered.
LEMMA InitType == Init => TypeOK /\ Held
<1> SUFFICES ASSUME Init PROVE TypeOK /\ Held
  OBVIOUS
<1>1. FlagTypes
  BY DEF Init, FlagTypes
<1>2. CounterTypes
  BY ConstantsAssumption DEF Init, CounterTypes
<1>3. StoreTypes
  BY StatusTypes DEF Init, StoreTypes
<1>4. ControlTypes /\ Held
  BY DEF Init, ControlTypes, Held, Threads, OrderLabels, SupLabels, ShutLabels, Results
<1>5. ReconcileTypes
  BY StatusTypes DEF Init, ReconcileTypes, Threads, Verdicts
<1>6. QED
  BY <1>1, <1>2, <1>3, <1>4, <1>5 DEF TypeOK

\* Every action keeps the Boolean flags Boolean.
LEMMA FlagStep ==
    ASSUME FlagTypes, [Next]_vars
    PROVE  FlagTypes'
<1> USE DEF FlagTypes, envVars, storeVars, orderVars, shutVars, recVars,
            coordVars, supVars, ghostVars, At, Goto
<1>1. CASE Activate
  BY <1>1 DEF Activate
<1>2. CASE Deactivate
  BY <1>2 DEF Deactivate
<1>3. ASSUME NEW o \in Orders, Receive(o) PROVE FlagTypes'
  BY <1>3 DEF Receive, Reject
<1>4. CASE RegisterPreSubmit
  BY <1>4 DEF RegisterPreSubmit
<1>5. CASE Recheck
  BY <1>5 DEF Recheck
<1>6. ASSUME NEW t \in Threads, ReconcileStart(t) PROVE FlagTypes'
  BY <1>6 DEF ReconcileStart
<1>7. ASSUME NEW t \in Threads, NEW o \in Orders, PreRead(t, o)
      PROVE  FlagTypes'
  BY <1>7 DEF PreRead, Settle
<1>8. ASSUME NEW t \in Threads, CancelCall(t) PROVE FlagTypes'
  BY <1>8 DEF CancelCall, Settle
<1>9. ASSUME NEW t \in Threads, Readback(t) PROVE FlagTypes'
  BY <1>9 DEF Readback, Settle
<1>10. ASSUME NEW t \in Threads, ReconcileFinish(t) PROVE FlagTypes'
  BY <1>10 DEF ReconcileFinish
<1>11. ASSUME NEW t \in Threads, Post(t) PROVE FlagTypes'
  BY <1>11 DEF Post
<1>12. CASE Boot
  BY <1>12 DEF Boot
<1>13. CASE PollRead
  BY <1>13 DEF PollRead
<1>14. CASE PollAct
  BY <1>14 DEF PollAct
<1>15. CASE HandleBotShutdown
  BY <1>15 DEF HandleBotShutdown
<1>16. CASE Crash
  BY <1>16 DEF Crash
<1>17. CASE (\E o \in Orders : VenueFill(o)) \/ KillGate \/ HoldGate \/ Submit
          \/ ApplyRead \/ NoteFillAfterKill \/ ApplyUpdate \/ Publish \/
          EmitBotShutdown \/ UNCHANGED vars
  BY <1>17 DEF VenueFill, KillGate, Reject, HoldGate, Submit, ApplyRead,
     NoteFillAfterKill, ApplyUpdate, Publish, EmitBotShutdown, vars
<1>18. QED
  BY <1>1, <1>2, <1>3, <1>4, <1>5, <1>6, <1>7, <1>8, <1>9, <1>10, <1>11,
     <1>12, <1>13, <1>14, <1>15, <1>16, <1>17 DEF Next, OrderStep, SupStep,
     ReconcileStep

\* Every action keeps the counters within their bounds.
LEMMA CounterStep ==
    ASSUME CounterTypes, [Next]_vars
    PROVE  CounterTypes'
<1> USE DEF CounterTypes, envVars, storeVars, orderVars, shutVars, recVars,
            coordVars, supVars, ghostVars, At, Goto
<1>1. CASE Activate
  BY <1>1, ConstantsAssumption DEF Activate
<1>2. CASE EmitBotShutdown
  BY <1>2, ConstantsAssumption DEF EmitBotShutdown
<1>3. CASE HandleBotShutdown
  BY <1>3, ConstantsAssumption DEF HandleBotShutdown
<1>4. CASE Crash
  BY <1>4, ConstantsAssumption DEF Crash
<1>5. CASE Deactivate \/ (\E o \in Orders : Receive(o)) \/
          (\E o \in Orders : VenueFill(o)) \/ KillGate \/ HoldGate \/
          RegisterPreSubmit \/ Recheck \/ Submit \/ ApplyRead \/
          NoteFillAfterKill \/ ApplyUpdate \/ Publish \/
          (\E t \in Threads : ReconcileStart(t)) \/
          (\E t \in Threads, o \in Orders : PreRead(t, o)) \/
          (\E t \in Threads : CancelCall(t)) \/
          (\E t \in Threads : Readback(t)) \/
          (\E t \in Threads : ReconcileFinish(t)) \/
          (\E t \in Threads : Post(t)) \/ Boot \/ PollRead \/ PollAct \/
          UNCHANGED vars
  BY <1>5 DEF Deactivate, Receive, Reject, VenueFill, KillGate, HoldGate,
     RegisterPreSubmit, Recheck, Submit, ApplyRead, NoteFillAfterKill,
     ApplyUpdate, Publish, ReconcileStart, PreRead, CancelCall, Readback,
     ReconcileFinish, Post, Boot, PollRead, PollAct, vars
<1>6. QED
  BY <1>1, <1>2, <1>3, <1>4, <1>5 DEF Next, OrderStep, SupStep,
     ReconcileStep

\* Every action keeps the registry and the ledger maps of records.
LEMMA StoreStep ==
    ASSUME StoreTypes, ControlTypes, ReconcileTypes, Held, [Next]_vars
    PROVE  StoreTypes'
<1> USE DEF ControlTypes, ReconcileTypes, Held, envVars, storeVars, orderVars, shutVars, recVars,
            coordVars, supVars, ghostVars, At, Goto
<1>1. CASE RegisterPreSubmit
  BY <1>1, RegistryOpsType, StatusTypes DEF RegisterPreSubmit
<1>2. CASE NoteFillAfterKill
  BY <1>2, RegistryOpsType, StatusTypes DEF NoteFillAfterKill
<1>3. CASE ApplyUpdate
  BY <1>3, RegistryOpsType, StatusTypes DEF ApplyUpdate
<1>4. ASSUME NEW t \in Threads, ReconcileStart(t) PROVE StoreTypes'
  BY <1>4, StoreType DEF ReconcileStart, StoreTypes
<1>5. ASSUME NEW t \in Threads, NEW o \in Orders, PreRead(t, o)
      PROVE  StoreTypes'
  BY <1>5, RegistryOpsType, StatusTypes DEF PreRead, Settle, Records
<1>6. ASSUME NEW t \in Threads, CancelCall(t) PROVE StoreTypes'
  BY <1>6, RegistryOpsType, StatusTypes DEF CancelCall, Settle, StoreTypes
<1>7. ASSUME NEW t \in Threads, Readback(t) PROVE StoreTypes'
  BY <1>7, RegistryOpsType, StatusTypes DEF Readback, Settle
<1>8. CASE Boot
  BY <1>8 DEF Boot, StoreTypes
<1>9. CASE Crash
  BY <1>9, StatusTypes DEF Crash, StoreTypes
<1>10. CASE Activate \/ Deactivate \/ (\E o \in Orders : Receive(o)) \/
          (\E o \in Orders : VenueFill(o)) \/ KillGate \/ HoldGate \/
          Recheck \/ Submit \/ ApplyRead \/ Publish \/
          (\E t \in Threads : ReconcileFinish(t)) \/
          (\E t \in Threads : Post(t)) \/ PollRead \/ PollAct \/
          EmitBotShutdown \/ HandleBotShutdown \/ UNCHANGED vars
  BY <1>10 DEF Activate, Deactivate, Receive, Reject, VenueFill, KillGate,
     HoldGate, Recheck, Submit, ApplyRead, Publish, ReconcileFinish, Post,
     PollRead, PollAct, EmitBotShutdown, HandleBotShutdown, vars, StoreTypes
<1>11. QED
  BY <1>1, <1>2, <1>3, <1>4, <1>5, <1>6, <1>7, <1>8, <1>9, <1>10 DEF Next,
     OrderStep, SupStep, ReconcileStep

\* What process_order may hold after the adapter call, and the cancel's response.
LEMMA AnswerTypes ==
    ASSUME NEW o \in Orders, NEW a \in Answers(o)
    PROVE  /\ a.venue \in {"absent", "SUBMITTED", "FILLED"}
           /\ a.result \in {"SUBMITTED", "FILLED", "REJECTED", "FAILED"}
BY DEF Answers, Answer

LEMMA ResponseTypes ==
    ASSUME NEW b PROVE CancelResponse(b) \in {"refused", "accepted", "confirmed"}
BY DEF CancelResponse

\* Every thread stays on its labels, and whoever is at work holds an order.
LEMMA ControlStep ==
    ASSUME ControlTypes, ReconcileTypes, Held, [Next]_vars
    PROVE  ControlTypes' /\ Held'
<1> USE DEF ControlTypes, Held, Threads, OrderLabels, SupLabels,
            ShutLabels, Results, envVars, storeVars, orderVars, shutVars, recVars,
            coordVars, supVars, ghostVars, At, Goto
<1>owner. owner \in Threads \cup {"none"}
  BY DEF ReconcileTypes
<1> USE <1>owner
<1>1. ASSUME NEW o \in Orders, Receive(o) PROVE ControlTypes' /\ Held'
  BY <1>1 DEF Receive, Reject
<1>2. CASE KillGate
  BY <1>2 DEF KillGate, Reject
<1>3. CASE HoldGate
  BY <1>3 DEF HoldGate, Reject
<1>4. CASE RegisterPreSubmit
  BY <1>4 DEF RegisterPreSubmit
<1>5. CASE Recheck
  BY <1>5 DEF Recheck
<1>6. CASE Submit
  BY <1>6, AnswerTypes DEF Submit
<1>7. CASE ApplyRead
  BY <1>7 DEF ApplyRead
<1>8. CASE NoteFillAfterKill
  BY <1>8 DEF NoteFillAfterKill
<1>9. CASE ApplyUpdate
  BY <1>9 DEF ApplyUpdate
<1>10. CASE Publish
  BY <1>10 DEF Publish, SchemaStatus
<1>11. ASSUME NEW t \in Threads, ReconcileStart(t)
       PROVE  ControlTypes' /\ Held'
  BY <1>11 DEF ReconcileStart
<1>12. ASSUME NEW t \in Threads, NEW o \in Orders, PreRead(t, o)
       PROVE  ControlTypes' /\ Held'
  BY <1>12 DEF PreRead, Settle, ReconcileTypes
<1>13. ASSUME NEW t \in Threads, CancelCall(t) PROVE ControlTypes' /\ Held'
  BY <1>13 DEF CancelCall, Settle
<1>14. ASSUME NEW t \in Threads, Readback(t) PROVE ControlTypes' /\ Held'
  BY <1>14 DEF Readback, Settle
<1>15. ASSUME NEW t \in Threads, ReconcileFinish(t)
       PROVE  ControlTypes' /\ Held'
  BY <1>15 DEF ReconcileFinish
<1>16. ASSUME NEW t \in Threads, Post(t) PROVE ControlTypes' /\ Held'
  BY <1>16 DEF Post
<1>17. CASE Boot
  BY <1>17 DEF Boot
<1>18. CASE PollRead
  BY <1>18 DEF PollRead
<1>19. CASE PollAct
  BY <1>19 DEF PollAct
<1>20. CASE HandleBotShutdown
  BY <1>20 DEF HandleBotShutdown
<1>21. CASE Crash
  BY <1>21 DEF Crash
<1>22. CASE Activate \/ Deactivate \/ (\E o \in Orders : VenueFill(o)) \/
          EmitBotShutdown \/ UNCHANGED vars
  BY <1>22 DEF Activate, Deactivate, VenueFill, EmitBotShutdown, vars
<1>23. QED
  BY <1>1, <1>2, <1>3, <1>4, <1>5, <1>6, <1>7, <1>8, <1>9, <1>10, <1>11,
     <1>12, <1>13, <1>14, <1>15, <1>16, <1>17, <1>18, <1>19, <1>20, <1>21,
     <1>22 DEF Next, OrderStep, SupStep, ReconcileStep

\* Every action keeps the types of the venue and of the reconcile.
LEMMA ReconcileStepType ==
    ASSUME StoreTypes, ControlTypes, ReconcileTypes, Held, [Next]_vars
    PROVE  ReconcileTypes'
<1> USE DEF ReconcileTypes, Held, VenueTerminal, Verdicts, envVars, storeVars, orderVars, shutVars, recVars,
            coordVars, supVars, ghostVars, At, Goto
<1>1. ASSUME NEW o \in Orders, VenueFill(o) PROVE ReconcileTypes'
  BY <1>1 DEF VenueFill
<1>2. CASE Submit
  BY <1>2, AnswerTypes DEF Submit, ControlTypes
<1>3. CASE NoteFillAfterKill
  BY <1>3 DEF NoteFillAfterKill, ControlTypes
<1>4. ASSUME NEW t \in Threads, ReconcileStart(t) PROVE ReconcileTypes'
  BY <1>4 DEF ReconcileStart, Discovered, StoreTypes
<1>5. ASSUME NEW t \in Threads, NEW o \in Orders, PreRead(t, o)
      PROVE  ReconcileTypes'
  BY <1>5 DEF PreRead, Settle
<1>6. ASSUME NEW t \in Threads, CancelCall(t) PROVE ReconcileTypes'
  BY <1>6, ResponseTypes DEF CancelCall, Settle
<1>7. ASSUME NEW t \in Threads, Readback(t) PROVE ReconcileTypes'
  BY <1>7 DEF Readback, Settle
<1>8. ASSUME NEW t \in Threads, ReconcileFinish(t) PROVE ReconcileTypes'
  BY <1>8, StatusTypes DEF ReconcileFinish, Verdict, Threads
<1>9. ASSUME NEW t \in Threads, Post(t) PROVE ReconcileTypes'
  BY <1>9 DEF Post, Threads
<1>10. CASE Crash
  BY <1>10, StatusTypes DEF Crash, Threads
<1>11. CASE Activate \/ Deactivate \/ (\E o \in Orders : Receive(o)) \/
          KillGate \/ HoldGate \/ RegisterPreSubmit \/ Recheck \/ ApplyRead
          \/ ApplyUpdate \/ Publish \/ Boot \/ PollRead \/ PollAct \/
          EmitBotShutdown \/ HandleBotShutdown \/ UNCHANGED vars
  BY <1>11 DEF Activate, Deactivate, Receive, Reject, KillGate, HoldGate,
     RegisterPreSubmit, Recheck, ApplyRead, ApplyUpdate, Publish, Boot,
     PollRead, PollAct, EmitBotShutdown, HandleBotShutdown, vars
<1>12. QED
  BY <1>1, <1>2, <1>3, <1>4, <1>5, <1>6, <1>7, <1>8, <1>9, <1>10, <1>11 DEF
     Next, OrderStep, SupStep, ReconcileStep

\* The type invariant is inductive together with Held.
LEMMA TypeStep == TypeOK /\ Held /\ [Next]_vars => TypeOK' /\ Held'
BY FlagStep, CounterStep, StoreStep, ControlStep, ReconcileStepType DEF TypeOK

\* Type correctness of the execution service: every reachable state of the
\* order path, the registry, the reconcile and the supervisor is well typed.
THEOREM TypeCorrect == Spec => []TypeOK
<1>1. TypeOK /\ Held /\ [Next]_vars => TypeOK' /\ Held'
  BY TypeStep
<1>2. QED
  BY InitType, <1>1, PTL DEF Spec

\* Every action keeps orders unsubmitted until a calm moment after their
\* registration.
LEMMA KillStep ==
    ASSUME TypeOK, Held, Once, Calm, KillRespected, [Next]_vars
    PROVE  Once' /\ Calm' /\ KillRespected'
<1> USE DEF TypeOK, Once, Calm, KillRespected, BeforeSubmit, Held, ControlTypes,
            ReconcileTypes, FlagTypes, envVars, storeVars, orderVars, shutVars, recVars,
            coordVars, supVars, ghostVars, At, Goto
<1>1. CASE Activate
  BY <1>1 DEF Activate
<1>2. CASE Deactivate
  BY <1>2 DEF Deactivate
<1>3. ASSUME NEW o \in Orders, Receive(o)
      PROVE  Once' /\ Calm' /\ KillRespected'
  BY <1>3 DEF Receive, Reject
<1>4. ASSUME NEW o \in Orders, VenueFill(o)
      PROVE  Once' /\ Calm' /\ KillRespected'
  BY <1>4 DEF VenueFill
<1>5. CASE KillGate
  BY <1>5 DEF KillGate, Reject
<1>6. CASE HoldGate
  BY <1>6 DEF HoldGate, Reject
<1>7. CASE RegisterPreSubmit
  BY <1>7 DEF RegisterPreSubmit
<1>8. CASE Recheck
  BY <1>8 DEF Recheck
<1>9. CASE Submit
  <2>1. UNCHANGED <<kill, inbox, calm>> /\ pc'["order"] \in {"apply", "idle"}
    BY <1>9 DEF Submit, Threads
  <2>2. cur \in Orders /\ calm[cur]
    BY <1>9 DEF Submit
  <2>3. \A o \in Orders : o # cur => venue'[o] = venue[o]
    BY <1>9 DEF Submit
  <2>4. cur' \in {cur, NoOrder}
    BY <1>9 DEF Submit
  <2>5. QED
    BY <2>1, <2>2, <2>3, <2>4, ConstantsAssumption
<1>10. CASE ApplyRead
  BY <1>10 DEF ApplyRead
<1>11. CASE NoteFillAfterKill
  BY <1>11 DEF NoteFillAfterKill
<1>12. CASE ApplyUpdate
  BY <1>12 DEF ApplyUpdate
<1>13. CASE Publish
  BY <1>13, ConstantsAssumption DEF Publish
<1>14. ASSUME NEW t \in Threads, ReconcileStart(t)
       PROVE  Once' /\ Calm' /\ KillRespected'
  BY <1>14 DEF ReconcileStart
<1>15. ASSUME NEW t \in Threads, NEW o \in Orders, PreRead(t, o)
       PROVE  Once' /\ Calm' /\ KillRespected'
  BY <1>15 DEF PreRead, Settle
<1>16. ASSUME NEW t \in Threads, CancelCall(t)
       PROVE  Once' /\ Calm' /\ KillRespected'
  BY <1>16 DEF CancelCall, Settle
<1>17. ASSUME NEW t \in Threads, Readback(t)
       PROVE  Once' /\ Calm' /\ KillRespected'
  BY <1>17 DEF Readback, Settle
<1>18. ASSUME NEW t \in Threads, ReconcileFinish(t)
       PROVE  Once' /\ Calm' /\ KillRespected'
  BY <1>18 DEF ReconcileFinish
<1>19. ASSUME NEW t \in Threads, Post(t)
       PROVE  Once' /\ Calm' /\ KillRespected'
  BY <1>19 DEF Post
<1>20. CASE Boot
  <2>1. UNCHANGED <<venue, kill, cur, inbox, calm>> /\ pc'["order"] = pc["order"]
    BY <1>20 DEF Boot, Threads
  <2>2. QED
    BY <2>1
<1>21. CASE PollRead
  BY <1>21 DEF PollRead
<1>22. CASE PollAct
  <2>1. UNCHANGED <<venue, kill, cur, inbox, calm>> /\ pc'["order"] = pc["order"]
    BY <1>22 DEF PollAct, Threads
  <2>2. QED
    BY <2>1
<1>23. CASE HandleBotShutdown
  BY <1>23 DEF HandleBotShutdown
<1>24. CASE Crash
  <2>1. /\ UNCHANGED <<kill, inbox, calm>> /\ pc'["order"] = "idle" /\ cur' = NoOrder
        /\ venue' = venue \/ venue' = [o \in Orders |-> "absent"]
    BY <1>24 DEF Crash, Threads
  <2>2. QED
    BY <2>1, ConstantsAssumption
<1>25. CASE EmitBotShutdown \/ UNCHANGED vars
  BY <1>25 DEF EmitBotShutdown, vars
<1>26. QED
  BY <1>1, <1>2, <1>3, <1>4, <1>5, <1>6, <1>7, <1>8, <1>9, <1>10, <1>11,
     <1>12, <1>13, <1>14, <1>15, <1>16, <1>17, <1>18, <1>19, <1>20, <1>21,
     <1>22, <1>23, <1>24, <1>25 DEF Next, OrderStep, SupStep, ReconcileStep

\* The second read of the kill file protects the venue: an order is handed to
\* the adapter only if the kill switch was inactive at some time since the
\* order was registered, in every interleaving of the three threads, the
\* operator and crashes (process_order, 911-947).
THEOREM KillSwitchRespected == Spec => []KillRespected
<1>1. Init => KillInv
  BY InitType, ConstantsAssumption
     DEF Init, KillInv, Once, Calm, KillRespected, BeforeSubmit, Threads
<1>2. KillInv /\ [Next]_vars => KillInv'
  BY TypeStep, KillStep DEF KillInv
<1>3. KillInv => KillRespected
  BY DEF KillInv
<1>4. QED
  BY <1>1, <1>2, <1>3, PTL DEF Spec

\* Only main runs before the ledger is loaded.
LEMMA AloneStep ==
    ASSUME TypeOK, Held, Alone, [Next]_vars
    PROVE  Alone' /\ (Loaded /\ ~Loaded' => crashes' # crashes)
<1> USE DEF Alone, Loaded, Held, ControlTypes, Threads, envVars, storeVars, orderVars, shutVars, recVars,
            coordVars, supVars, ghostVars, At, Goto
<1>1. ASSUME NEW o \in Orders, Receive(o)
      PROVE  Alone' /\ (Loaded /\ ~Loaded' => crashes' # crashes)
  BY <1>1 DEF Receive, Reject, TypeOK
<1>2. CASE KillGate
  BY <1>2 DEF KillGate, Reject, TypeOK
<1>3. CASE HoldGate
  BY <1>3 DEF HoldGate, Reject, TypeOK
<1>4. CASE RegisterPreSubmit
  BY <1>4 DEF RegisterPreSubmit, TypeOK
<1>5. CASE Recheck
  BY <1>5 DEF Recheck, TypeOK
<1>6. CASE Submit
  BY <1>6 DEF Submit, TypeOK
<1>7. CASE ApplyRead
  BY <1>7 DEF ApplyRead, TypeOK
<1>8. CASE NoteFillAfterKill
  BY <1>8 DEF NoteFillAfterKill, TypeOK
<1>9. CASE ApplyUpdate
  BY <1>9 DEF ApplyUpdate, TypeOK
<1>10. CASE Publish
  BY <1>10 DEF Publish, TypeOK
<1>11. ASSUME NEW t \in Threads, ReconcileStart(t)
       PROVE  Alone' /\ (Loaded /\ ~Loaded' => crashes' # crashes)
  BY <1>11 DEF ReconcileStart, TypeOK
<1>12. ASSUME NEW t \in Threads, NEW o \in Orders, PreRead(t, o)
       PROVE  Alone' /\ (Loaded /\ ~Loaded' => crashes' # crashes)
  BY <1>12 DEF PreRead, Settle
<1>13. ASSUME NEW t \in Threads, CancelCall(t)
       PROVE  Alone' /\ (Loaded /\ ~Loaded' => crashes' # crashes)
  BY <1>13 DEF CancelCall, Settle
<1>14. ASSUME NEW t \in Threads, Readback(t)
       PROVE  Alone' /\ (Loaded /\ ~Loaded' => crashes' # crashes)
  BY <1>14 DEF Readback, Settle
<1>15. ASSUME NEW t \in Threads, ReconcileFinish(t)
       PROVE  Alone' /\ (Loaded /\ ~Loaded' => crashes' # crashes)
  BY <1>15 DEF ReconcileFinish, TypeOK
<1>16. ASSUME NEW t \in Threads, Post(t)
       PROVE  Alone' /\ (Loaded /\ ~Loaded' => crashes' # crashes)
  BY <1>16 DEF Post, TypeOK
<1>17. CASE Boot
  BY <1>17 DEF Boot, TypeOK
<1>18. CASE PollRead
  BY <1>18 DEF PollRead, TypeOK
<1>19. CASE PollAct
  BY <1>19 DEF PollAct, TypeOK
<1>20. CASE HandleBotShutdown
  BY <1>20 DEF HandleBotShutdown, TypeOK
<1>21. CASE Crash
  BY <1>21 DEF Crash, TypeOK, CounterTypes
<1>22. CASE Activate \/ Deactivate \/ (\E o \in Orders : VenueFill(o)) \/
          EmitBotShutdown \/ UNCHANGED vars
  BY <1>22 DEF Activate, Deactivate, VenueFill, EmitBotShutdown, vars
<1>23. QED
  BY <1>1, <1>2, <1>3, <1>4, <1>5, <1>6, <1>7, <1>8, <1>9, <1>10, <1>11,
     <1>12, <1>13, <1>14, <1>15, <1>16, <1>17, <1>18, <1>19, <1>20, <1>21,
     <1>22 DEF Next, OrderStep, SupStep, ReconcileStep

\* Without write errors a registry operation is mirrored by the ledger, and only
\* DropConfirmed takes a record away.
LEMMA Mirrored ==
    ASSUME ~LedgerFaults, NEW r, Store(r) PROVE registry' = r /\ ledger' = r
BY DEF Store, Persisted

LEMMA OpsKeepCustody ==
    ASSUME ~LedgerFaults, StoreTypes, registry = ledger,
           NEW o \in Orders, NEW s \in RecordStatuses,
           Register(o, s) \/ UpdateStatus(o, s) \/ DropConfirmed(o) \/ KeepResidual(o)
    PROVE  registry' = ledger' /\ KeepsCustody
<1>1. registry \in Records /\ "none" \notin RecordStatuses
  BY DEF StoreTypes, RecordStatuses, OpenStatuses
<1>2. ASSUME NEW x, x # "none", UpdateStatus(o, x)
      PROVE  registry' = ledger' /\ KeepsCustody
  BY <1>1, <1>2, Mirrored DEF UpdateStatus, KeepsCustody, Records
<1>3. CASE Register(o, s)
  BY <1>1, <1>3, Mirrored DEF Register, KeepsCustody, Records
<1>4. CASE DropConfirmed(o)
  BY <1>1, <1>4, Mirrored DEF DropConfirmed, KeepsCustody, Records
<1>5. CASE KeepResidual(o) /\ Has(o)
  BY <1>2, <1>5 DEF KeepResidual, Has
<1>6. CASE KeepResidual(o) /\ ~Has(o)
  BY <1>6 DEF KeepResidual, UpdateStatus, KeepsCustody
<1>7. QED
  BY <1>1, <1>2, <1>3, <1>4, <1>5, <1>6

LEMMA Statuses == "PENDING" \in RecordStatuses /\ "SUBMITTED" \in RecordStatuses
                  /\ "FAILED" \in RecordStatuses
BY DEF RecordStatuses, OpenStatuses

\* Without write errors every step keeps the ledger equal to the registry and
\* loses no record silently.
LEMMA MirrorStep ==
    ASSUME ~LedgerFaults, TypeOK, Held, Alone, Mirrors, Custody, [Next]_vars
    PROVE  Mirrors' /\ KeepsCustody
<1> USE DEF Loaded, Threads, envVars, storeVars, orderVars, shutVars, recVars,
            coordVars, supVars, ghostVars, At, Goto
<1>1. CASE RegisterPreSubmit
  BY <1>1, OpsKeepCustody, Statuses DEF RegisterPreSubmit, Mirrors, Alone, Held,
     TypeOK, ControlTypes
<1>2. CASE NoteFillAfterKill
  BY <1>2, OpsKeepCustody, Statuses DEF NoteFillAfterKill, Mirrors, Alone, Held,
     TypeOK, ControlTypes
<1>3. CASE ApplyUpdate
  BY <1>3, OpsKeepCustody, Statuses DEF ApplyUpdate, Mirrors, Alone, Held,
     TypeOK, ControlTypes
<1>4. ASSUME NEW t \in Threads, ReconcileStart(t)
      PROVE  Mirrors' /\ KeepsCustody
  <2>1. Loaded
    BY <1>4 DEF ReconcileStart, Alone
  <2>2. registry' = registry /\ ledger' = ledger /\ closed' = closed
    BY <1>4, <2>1, Mirrored DEF ReconcileStart, Mirrors
  <2>3. QED
    BY <1>4, <2>1, <2>2 DEF ReconcileStart, Mirrors, KeepsCustody, TypeOK, ControlTypes
<1>5. ASSUME NEW t \in Threads, NEW o \in Orders, PreRead(t, o)
      PROVE  Mirrors' /\ KeepsCustody
  <2>1. Loaded
    BY <1>5 DEF PreRead, Alone, Held
  <2>2. snap[o] \in RecordStatuses
    BY <1>5 DEF PreRead, Custody, TypeOK, ReconcileTypes, Records
  <2>3. DropConfirmed(o) \/ UpdateStatus(o, snap[o])
    BY <1>5 DEF PreRead, Settle
  <2>4. QED
    BY <1>5, <2>1, <2>2, <2>3, OpsKeepCustody, Statuses DEF PreRead, Mirrors, TypeOK
<1>6. ASSUME NEW t \in Threads, CancelCall(t) PROVE Mirrors' /\ KeepsCustody
  <2>1. Loaded /\ target \in Orders
    BY <1>6 DEF CancelCall, Alone, Held
  <2>2. KeepResidual(target) \/ UNCHANGED storeVars
    BY <1>6 DEF CancelCall, Settle
  <2>3. QED
    BY <1>6, <2>1, <2>2, OpsKeepCustody, Statuses DEF CancelCall, Mirrors, KeepsCustody, TypeOK
<1>7. ASSUME NEW t \in Threads, Readback(t) PROVE Mirrors' /\ KeepsCustody
  <2>1. Loaded /\ target \in Orders
    BY <1>7 DEF Readback, Alone, Held
  <2>2. DropConfirmed(target) \/ KeepResidual(target)
    BY <1>7 DEF Readback, Settle
  <2>3. QED
    BY <1>7, <2>1, <2>2, OpsKeepCustody, Statuses DEF Readback, Mirrors, TypeOK
<1>8. ASSUME NEW t \in Threads, ReconcileFinish(t)
      PROVE  Mirrors' /\ KeepsCustody
  BY <1>8 DEF ReconcileFinish, Mirrors, KeepsCustody, TypeOK, ControlTypes,
     Held
<1>9. ASSUME NEW t \in Threads, Post(t) PROVE Mirrors' /\ KeepsCustody
  BY <1>9 DEF Post, Mirrors, KeepsCustody, TypeOK, ControlTypes, Held
<1>10. CASE Boot
  BY <1>10 DEF Boot, Mirrors, KeepsCustody, TypeOK, ControlTypes
<1>11. CASE Crash
  BY <1>11 DEF Crash, Mirrors, KeepsCustody
<1>12. ASSUME storeVars' = storeVars, pc'["sup"] = "boot" <=> pc["sup"] = "boot"
       PROVE  Mirrors' /\ KeepsCustody
  BY <1>12 DEF Mirrors, KeepsCustody
<1>13. ASSUME NEW o \in Orders, Receive(o) PROVE Mirrors' /\ KeepsCustody
  BY <1>12, <1>13 DEF Receive, Reject, TypeOK, ControlTypes
<1>14. CASE KillGate \/ HoldGate
  BY <1>12, <1>14 DEF KillGate, HoldGate, Reject, TypeOK, ControlTypes
<1>15. CASE Recheck \/ Submit \/ ApplyRead \/ Publish
  <2>1. storeVars' = storeVars /\ pc'["sup"] = pc["sup"]
    BY <1>15 DEF Recheck, Submit, ApplyRead, Publish, TypeOK, ControlTypes
  <2>2. QED
    BY <1>12, <2>1
<1>16. CASE PollRead \/ PollAct \/ HandleBotShutdown
  BY <1>12, <1>16 DEF PollRead, PollAct, HandleBotShutdown, TypeOK, ControlTypes
<1>17. CASE Activate \/ Deactivate \/ (\E o \in Orders : VenueFill(o)) \/
            EmitBotShutdown \/ UNCHANGED vars
  BY <1>12, <1>17 DEF Activate, Deactivate, VenueFill, EmitBotShutdown, vars
<1>18. QED
  BY <1>1, <1>2, <1>3, <1>4, <1>5, <1>6, <1>7, <1>8, <1>9, <1>10, <1>11,
     <1>13, <1>14, <1>15, <1>16, <1>17 DEF Next, OrderStep, SupStep, ReconcileStep

\* Whoever is in custody stays there; what a step may add to the duties.
NewlyHeld ==
    /\ \A o \in todo' : snap'[o] # "none"
    /\ \A o \in Orders : venue'[o] = "SUBMITTED" =>
          venue[o] = "SUBMITTED" \/ (o = cur /\ pc["order"] = "submit")
    /\ pc'["order"] \in {"recheck", "submit"} =>
          /\ cur' = cur
          /\ pc["order"] \in {"recheck", "submit"} \/ ledger'[cur] = "PENDING"

\* Each step's new duties, by action.
LEMMA DutyStep ==
    ASSUME ~LedgerFaults, TypeOK, Held, Custody, [Next]_vars
    PROVE  NewlyHeld
<1> USE DEF NewlyHeld, Custody, envVars, storeVars, orderVars, shutVars, recVars,
            coordVars, supVars, ghostVars, At, Goto
<1>1. ASSUME NEW o \in Orders, Receive(o) PROVE NewlyHeld
  BY <1>1 DEF Receive, Reject, Threads, TypeOK, ControlTypes
<1>2. ASSUME NEW o \in Orders, VenueFill(o) PROVE NewlyHeld
  BY <1>2 DEF VenueFill, TypeOK, ReconcileTypes
<1>3. CASE KillGate
  BY <1>3 DEF KillGate, Reject, Threads, TypeOK, ControlTypes
<1>4. CASE HoldGate
  BY <1>4 DEF HoldGate, Reject, Threads, TypeOK, ControlTypes
<1>5. CASE RegisterPreSubmit
  <2>1. ledger'[cur] = "PENDING"
    BY <1>5, Mirrored DEF RegisterPreSubmit, Register, Held, TypeOK, StoreTypes, Records
  <2>2. QED
    BY <1>5, <2>1 DEF RegisterPreSubmit, Threads, TypeOK, ControlTypes
<1>6. CASE Recheck
  BY <1>6 DEF Recheck, Threads, TypeOK, ControlTypes
<1>7. CASE Submit
  <2>1. /\ UNCHANGED <<todo, snap>> /\ pc'["order"] \notin {"recheck", "submit"}
        /\ \A o \in Orders : o # cur => venue'[o] = venue[o]
    BY <1>7 DEF Submit, Threads, TypeOK, ControlTypes, ReconcileTypes
  <2>2. QED
    BY <1>7, <2>1 DEF Submit
<1>8. CASE ApplyRead
  BY <1>8 DEF ApplyRead, Threads, TypeOK, ControlTypes
<1>9. CASE NoteFillAfterKill
  BY <1>9 DEF NoteFillAfterKill, Threads, TypeOK, ControlTypes
<1>10. CASE ApplyUpdate
  BY <1>10 DEF ApplyUpdate, Threads, TypeOK, ControlTypes
<1>11. CASE Publish
  BY <1>11 DEF Publish, Threads, TypeOK, ControlTypes
<1>12. ASSUME NEW t \in Threads, ReconcileStart(t) PROVE NewlyHeld
  <2>1. \A o \in Discovered : registry[o] # "none"
    BY DEF Discovered, IsOpen, OpenStatuses
  <2>2. \A o \in todo' : snap'[o] # "none"
    BY <1>12, <2>1 DEF ReconcileStart
  <2>3. QED
    BY <1>12, <2>2 DEF ReconcileStart, Threads, TypeOK, ControlTypes
<1>13. ASSUME NEW t \in Threads, NEW o \in Orders, PreRead(t, o)
       PROVE  NewlyHeld
  BY <1>13 DEF PreRead, Settle
<1>14. ASSUME NEW t \in Threads, CancelCall(t) PROVE NewlyHeld
  <2>1. /\ todo' \subseteq todo
        /\ UNCHANGED <<snap, pc, cur>>
        /\ venue' = venue \/ venue' = [venue EXCEPT ![target] = "CANCELLED"]
    BY <1>14 DEF CancelCall, Settle
  <2>2. QED
    BY <2>1 DEF TypeOK, ReconcileTypes
<1>15. ASSUME NEW t \in Threads, Readback(t) PROVE NewlyHeld
  BY <1>15 DEF Readback, Settle
<1>16. ASSUME NEW t \in Threads, ReconcileFinish(t) PROVE NewlyHeld
  BY <1>16 DEF ReconcileFinish, Threads, TypeOK, ControlTypes
<1>17. ASSUME NEW t \in Threads, Post(t) PROVE NewlyHeld
  BY <1>17 DEF Post, Threads, TypeOK, ControlTypes
<1>18. CASE Boot
  BY <1>18 DEF Boot, Threads, TypeOK, ControlTypes
<1>19. CASE PollRead
  BY <1>19 DEF PollRead, Threads, TypeOK, ControlTypes
<1>20. CASE PollAct
  BY <1>20 DEF PollAct, Threads, TypeOK, ControlTypes
<1>21. CASE HandleBotShutdown
  BY <1>21 DEF HandleBotShutdown, Threads, TypeOK, ControlTypes
<1>22. CASE Crash
  BY <1>22 DEF Crash, Threads, TypeOK, ControlTypes
<1>23. CASE Activate \/ Deactivate \/ EmitBotShutdown \/ UNCHANGED vars
  BY <1>23 DEF Activate, Deactivate, EmitBotShutdown, vars
<1>24. QED
  BY <1>1, <1>2, <1>3, <1>4, <1>5, <1>6, <1>7, <1>8, <1>9, <1>10, <1>11,
     <1>12, <1>13, <1>14, <1>15, <1>16, <1>17, <1>18, <1>19, <1>20, <1>21,
     <1>22, <1>23 DEF Next, OrderStep, SupStep, ReconcileStep

LEMMA CustodyStep ==
    ASSUME ~LedgerFaults, CustodyInv, [Next]_vars
    PROVE  CustodyInv' /\ KeepsCustody
<1>1. TypeOK' /\ Held'
  BY TypeStep DEF CustodyInv
<1>2. Alone'
  BY AloneStep DEF CustodyInv
<1>3. Mirrors' /\ KeepsCustody
  BY MirrorStep DEF CustodyInv
<1>4. \A o \in Orders : Recorded(o) => Recorded(o)'
  BY <1>3 DEF KeepsCustody, Recorded
<1>5. NewlyHeld
  BY DutyStep DEF CustodyInv
<1>6. cur \in Orders \/ pc["order"] = "idle"
  BY DEF CustodyInv, Held
<1>7. \A o \in Orders : (venue[o] = "SUBMITTED")' => Recorded(o)'
  BY <1>4, <1>5 DEF CustodyInv, Custody, NewlyHeld
<1>8. (pc["order"] \in {"recheck", "submit"} => Recorded(cur))'
  <2>1. SUFFICES ASSUME pc'["order"] \in {"recheck", "submit"} PROVE Recorded(cur)'
    OBVIOUS
  <2>2. cur' = cur /\ cur' \in Orders
    BY <1>1, <1>5, <2>1 DEF NewlyHeld, Held
  <2>3. CASE ledger'[cur] = "PENDING"
    BY <2>2, <2>3 DEF Recorded
  <2>4. CASE pc["order"] \in {"recheck", "submit"}
    BY <1>4, <2>2, <2>4 DEF CustodyInv, Custody, Recorded
  <2>5. QED
    BY <1>5, <2>1, <2>3, <2>4 DEF NewlyHeld
<1>9. (\A o \in todo : snap[o] # "none")'
  BY <1>5 DEF NewlyHeld
<1>10. Custody'
  BY <1>7, <1>8, <1>9 DEF Custody
<1>11. QED
  BY <1>1, <1>2, <1>3, <1>10 DEF CustodyInv

LEMMA CustodyInit == Init => CustodyInv
<1> SUFFICES ASSUME Init PROVE CustodyInv
  OBVIOUS
<1>1. TypeOK /\ Held
  BY InitType
<1>2. Alone /\ Mirrors
  BY DEF Init, Alone, Mirrors, Loaded, At, Threads
<1>3. Custody
  BY DEF Init, Custody, Threads
<1>4. QED
  BY <1>1, <1>2, <1>3 DEF CustodyInv

\* Registration before the adapter call keeps custody: while ledger writes do
\* not fail, an order open at the venue is in the ledger and in the registry
\* of a running process, or its end was booked, in every interleaving of the
\* order path, reconciles, polls and crashes (open_order_registry.py).
THEOREM CustodyOfOpenOrders ==
    ASSUME ~LedgerFaults PROVE Spec => []CustodyKept
<1>1. Init => CustodyInv
  BY CustodyInit
<1>2. CustodyInv /\ [Next]_vars => CustodyInv'
  BY CustodyStep
<1>3. CustodyInv => CustodyKept
  BY DEF CustodyInv, Custody, Mirrors, Recorded, CustodyKept
<1>4. QED
  BY <1>1, <1>2, <1>3, PTL DEF Spec

\* While ledger writes do not fail, no step removes a record without booking
\* its end; a crash empties the registry but leaves the ledger
\* (update_status, mark_cancel_outcome, load_from_ledger).
THEOREM RecordsNeverLost ==
    ASSUME ~LedgerFaults PROVE Spec => NoSilentRemoval
<1> DEFINE Silent(o) == registry[o] # "none" /\ registry'[o] = "none"
           Excused(o) == o \in closed' \/ (crashes' # crashes /\ ledger'[o] # "none")
<1>1. Init => CustodyInv
  BY CustodyInit
<1>2. CustodyInv /\ [Next]_vars => CustodyInv'
  BY CustodyStep
<1>3. CustodyInv /\ [Next]_vars => [\A o \in Orders : Silent(o) => Excused(o)]_vars
  <2> SUFFICES ASSUME CustodyInv, [Next]_vars, NEW o \in Orders, Silent(o)
               PROVE  Excused(o)
    OBVIOUS
  <2>1. KeepsCustody /\ Mirrors /\ Mirrors'
    BY CustodyStep DEF CustodyInv
  <2>2. Loaded /\ ledger[o] # "none"
    BY <2>1 DEF Mirrors, NoRecords
  <2>3. o \in closed' \/ ledger'[o] # "none"
    BY <2>1, <2>2 DEF KeepsCustody
  <2>4. Loaded /\ ~Loaded' => crashes' # crashes
    BY AloneStep DEF CustodyInv
  <2>5. QED
    BY <2>1, <2>2, <2>3, <2>4 DEF Mirrors
<1>4. QED
  BY <1>1, <1>2, <1>3, PTL DEF Spec, NoSilentRemoval

\* The end of an order at the venue.
Ended(o) == venue[o] \in VenueTerminal

\* What the cancel's honesty rests on: a confirmation stands for an end at the
\* venue, and each order the reconcile listed is still to be handled, ended at
\* the venue, or counted as residual.
Seen == \A o \in confirmed : Ended(o)
Answered == step = "readback" /\ response = "confirmed" => Ended(target)
Accounted == \A o \in Orders : IsOpen(snap[o]) => o \in todo \/ Ended(o) \/ residual
CancelInv == Seen /\ Answered /\ Accounted /\ NoDuplicateCancel /\ PassIsHonest

\* What the honesty of a rejection rests on: an order is published once, after
\* its processing, and a rejection in hand is of an order not at the venue.
Unheard ==
    /\ \A o \in inbox : published[o] = "none"
    /\ pc["order"] # "idle" => published[cur] = "none"
RejectionTrue ==
    mode # "mexc" /\ result = "REJECTED" => cur \in Orders /\ venue[cur] = "absent"
RejectInv == Unheard /\ RejectionTrue /\ RejectedNeverTraded

\* Only the adapter call, a cancel, a fill at the venue and a crash change the
\* venue, and but for a crash an end at the venue is final: process_order
\* submits only what is not there yet.
LEMMA VenueStep ==
    ASSUME TypeOK, Held, Once, [Next]_vars
    PROVE  \/ Crash
           \/ \A o \in Orders :
                /\ Ended(o) => venue'[o] = venue[o]
                /\ venue[o] = "absent" /\ ~(Submit /\ o = cur) => venue'[o] = "absent"
<1> DEFINE Kept == \A o \in Orders :
                     /\ Ended(o) => venue'[o] = venue[o]
                     /\ venue[o] = "absent" /\ ~(Submit /\ o = cur) => venue'[o] = "absent"
<1> USE DEF Ended, VenueTerminal, TypeOK, ReconcileTypes
<1>1. ASSUME NEW o \in Orders, VenueFill(o) PROVE Kept
  BY <1>1 DEF VenueFill
<1>2. CASE Submit
  <2>1. venue[cur] = "absent"
    BY <1>2 DEF Once, BeforeSubmit, Submit, At
  <2>2. \A o \in Orders : o # cur => venue'[o] = venue[o]
    BY <1>2 DEF Submit
  <2>3. QED
    BY <1>2, <2>1, <2>2
<1>3. ASSUME NEW t \in Threads, CancelCall(t) PROVE Kept
  BY <1>3 DEF CancelCall
<1>4. CASE venue' = venue
  BY <1>4
<1>5. CASE Activate \/ Deactivate \/ (\E o \in Orders : Receive(o)) \/
          KillGate \/ HoldGate \/ RegisterPreSubmit \/ Recheck \/ ApplyRead
          \/ NoteFillAfterKill \/ ApplyUpdate \/ Publish \/ Boot \/ PollRead
          \/ PollAct \/ EmitBotShutdown \/ HandleBotShutdown \/ UNCHANGED vars
          \/ (\E t \in Threads : ReconcileStart(t)) \/
          (\E t \in Threads, o \in Orders : PreRead(t, o)) \/
          (\E t \in Threads : Readback(t)) \/
          (\E t \in Threads : ReconcileFinish(t)) \/
          (\E t \in Threads : Post(t))
  BY <1>4, <1>5 DEF Activate, Deactivate, Receive, KillGate, HoldGate,
     RegisterPreSubmit, Recheck, ApplyRead, NoteFillAfterKill, ApplyUpdate,
     Publish, Boot, PollRead, PollAct, EmitBotShutdown, HandleBotShutdown,
     vars, ReconcileStart, PreRead, Readback, ReconcileFinish, Post
<1>6. QED
  BY <1>1, <1>2, <1>3, <1>5 DEF Next, OrderStep, SupStep, ReconcileStep

\* Booking the end of an order, or its residual, keeps the account of the
\* orders the reconcile listed.
LEMMA SettleStep ==
    ASSUME TypeOK, CancelInv, NEW o \in Orders, NEW c \in BOOLEAN, Settle(o, c),
           c => Ended(o), UNCHANGED <<venue, snap, manifest>>
    PROVE  CancelInv'
<1>1. Seen'
  BY DEF CancelInv, Seen, Settle, Ended
<1>2. Answered' /\ NoDuplicateCancel'
  BY DEF Answered, NoDuplicateCancel, Settle
<1>3. Accounted'
  BY DEF CancelInv, Accounted, Settle, Ended, TypeOK, FlagTypes
<1>4. PassIsHonest'
  BY DEF CancelInv, PassIsHonest
<1>5. QED
  BY <1>1, <1>2, <1>3, <1>4 DEF CancelInv

\* A response "confirmed" comes from an order that is cancelled by then.
LEMMA ConfirmedResponse ==
    ASSUME TypeOK, NEW b \in CancelBehaviors, b # "error", target \in Orders,
           CancelResponse(b) = "confirmed",
           venue' = IF b = "confirm" /\ venue[target] = "SUBMITTED"
                    THEN [venue EXCEPT ![target] = "CANCELLED"] ELSE venue
    PROVE  venue'[target] \in VenueTerminal
<1>1. b = "confirm"
  BY ConstantsAssumption DEF AllBehaviors, CancelResponse
<1>2. venue[target] \in {"SUBMITTED", "CANCELLED"}
  BY <1>1 DEF CancelResponse, TypeOK, ReconcileTypes, VenueTerminal
<1>3. QED
  BY <1>1, <1>2 DEF TypeOK, ReconcileTypes, VenueTerminal

\* Every action keeps the account of the cancels.
LEMMA CancelStep ==
    ASSUME TypeOK, Held, Once, CancelInv, [Next]_vars
    PROVE  CancelInv'
<1>v. Crash \/ \A o \in Orders : Ended(o) => Ended(o)'
  BY VenueStep DEF Ended
<1>t. snap \in Records /\ todo \subseteq Orders /\ confirmed \subseteq Orders
  BY DEF TypeOK, ReconcileTypes
<1>1. ASSUME NEW t \in Threads, ReconcileStart(t) PROVE CancelInv'
  <2>1. UNCHANGED <<venue, target, step, response, manifest, confirmed>>
    BY <1>1 DEF ReconcileStart
  <2>2. Accounted'
    BY <1>1 DEF ReconcileStart, Accounted, Discovered
  <2>3. QED
    BY <2>1, <2>2 DEF CancelInv, Seen, Answered, NoDuplicateCancel, PassIsHonest, Ended
<1>2. ASSUME NEW t \in Threads, NEW o \in Orders, PreRead(t, o)
      PROVE  CancelInv'
  <2>1. UNCHANGED <<venue, snap, manifest>>
    BY <1>2 DEF PreRead
  <2>2. CASE Ended(o) /\ Settle(o, TRUE)
    BY <2>1, <2>2, SettleStep
  <2>3. CASE /\ ~Ended(o) /\ target' = o /\ step' = "cancel"
             /\ UNCHANGED <<todo, residual, confirmed>>
    BY <2>1, <2>3 DEF CancelInv, Seen, Answered, Accounted, NoDuplicateCancel,
       PassIsHonest, Ended
  <2>4. QED
    BY <1>2, <2>2, <2>3 DEF PreRead, Ended
<1>3. ASSUME NEW t \in Threads, CancelCall(t) PROVE CancelInv'
  <2>1. target \in Orders /\ UNCHANGED <<snap, manifest>>
    BY <1>3 DEF CancelCall, Held
  <2>2. CASE Settle(target, FALSE) /\ UNCHANGED venue
    BY <2>1, <2>2, SettleStep
  <2>3. ASSUME NEW b \in CancelBehaviors, b # "error",
               response' = CancelResponse(b), step' = "readback",
               venue' = IF b = "confirm" /\ venue[target] = "SUBMITTED"
                        THEN [venue EXCEPT ![target] = "CANCELLED"] ELSE venue,
               UNCHANGED <<todo, target, residual, confirmed>>
        PROVE  CancelInv'
    <3>1. Answered'
      BY <2>1, <2>3, ConfirmedResponse DEF Answered, Ended
    <3>2. \A o \in Orders : Ended(o) => Ended(o)'
      BY <2>3 DEF Ended, VenueTerminal, TypeOK, ReconcileTypes
    <3>3. Seen' /\ Accounted' /\ PassIsHonest'
      BY <2>1, <2>3, <3>2, <1>t DEF CancelInv, Seen, Accounted, PassIsHonest, Ended
    <3>4. QED
      BY <2>3, <3>1, <3>3 DEF CancelInv, NoDuplicateCancel
  <2>4. QED
    BY <1>3, <2>2, <2>3 DEF CancelCall
<1>4. ASSUME NEW t \in Threads, Readback(t) PROVE CancelInv'
  <2>1. target \in Orders /\ UNCHANGED <<venue, snap, manifest>>
    BY <1>4 DEF Readback, Held
  <2>2. CancelConfirmed \in BOOLEAN /\ (CancelConfirmed => Ended(target))
    BY <1>4 DEF CancelConfirmed, Readback, CancelInv, Answered, Ended
  <2>3. QED
    BY <1>4, <2>1, <2>2, SettleStep DEF Readback
<1>5. ASSUME NEW t \in Threads, ReconcileFinish(t) PROVE CancelInv'
  <2>1. UNCHANGED <<venue, todo, target, step, response, confirmed>> /\ snap' = NoRecords
    BY <1>5 DEF ReconcileFinish
  <2>2. Accounted'
    BY <2>1 DEF Accounted, NoRecords, IsOpen, OpenStatuses
  <2>3. PassIsHonest'
    <3>1. manifest' = [verdict |-> Verdict, snap |-> snap] /\ todo = {}
      BY <1>5 DEF ReconcileFinish
    <3>2. Verdict = "PASS" => ~residual
      BY DEF Verdict
    <3>3. QED
      BY <2>1, <3>1, <3>2 DEF CancelInv, Accounted, PassIsHonest, Ended
  <2>4. QED
    BY <2>1, <2>2, <2>3 DEF CancelInv, Seen, Answered, NoDuplicateCancel, Ended
<1>6. CASE Crash
  BY <1>6 DEF Crash, CancelInv, Seen, Answered, Accounted, NoDuplicateCancel,
     PassIsHonest, NoRecords, IsOpen, OpenStatuses
<1>7. CASE ~Crash /\ UNCHANGED <<snap, todo, target, step, response, residual,
                                 manifest, confirmed>>
  <2>1. Seen' /\ Accounted' /\ PassIsHonest'
    BY <1>7, <1>v, <1>t DEF CancelInv, Seen, Accounted, PassIsHonest, Ended
  <2>2. QED
    BY <1>7, <1>v, <2>1 DEF CancelInv, Answered, NoDuplicateCancel, Held, Ended
<1>8. CASE Activate \/ Deactivate \/ (\E o \in Orders : Receive(o)) \/
          (\E o \in Orders : VenueFill(o)) \/ KillGate \/ HoldGate \/
          RegisterPreSubmit \/ Recheck \/ Submit \/ ApplyRead \/
          NoteFillAfterKill \/ ApplyUpdate \/ Publish \/ Boot \/ PollRead
          \/ PollAct \/ EmitBotShutdown \/ HandleBotShutdown \/
          (\E t \in Threads : Post(t)) \/ UNCHANGED vars
  <2>1. UNCHANGED <<snap, todo, target, step, response, residual, manifest, confirmed>>
    BY <1>8 DEF Activate, Deactivate, Receive, VenueFill, KillGate, HoldGate,
       RegisterPreSubmit, Recheck, Submit, ApplyRead, NoteFillAfterKill,
       ApplyUpdate, Publish, Boot, PollRead, PollAct, EmitBotShutdown,
       HandleBotShutdown, Post, vars, recVars, coordVars
  <2>2. QED
    BY <2>1, <1>6, <1>7
<1>9. QED
  BY <1>1, <1>2, <1>3, <1>4, <1>5, <1>6, <1>8 DEF Next, OrderStep, SupStep,
     ReconcileStep

\* The mock and the dry run answer REJECTED only for what they did not book.
LEMMA RejectedAnswer ==
    ASSUME TypeOK, mode # "mexc", NEW o \in Orders, NEW a \in Answers(o),
           a.result = "REJECTED"
    PROVE  a.venue = "absent"
BY DEF Answers, Answer

\* Every action keeps rejections true.
LEMMA RejectStep ==
    ASSUME TypeOK, Held, Once, RejectInv, [Next]_vars
    PROVE  RejectInv'
<1> USE DEF RejectInv, Unheard, RejectionTrue, RejectedNeverTraded, ControlTypes,
            envVars, orderVars, At, Goto
<1>t. /\ cur \in Orders \cup {NoOrder} /\ inbox \subseteq Orders /\ NoOrder \notin Orders
      /\ published \in [Orders -> {"none", "FILLED", "REJECTED", "ERROR"}]
      /\ pc["order"] # "idle" => cur \in Orders
  BY ConstantsAssumption DEF TypeOK, Held
<1>v. Crash \/ Submit \/ \A o \in Orders : venue[o] = "absent" => venue'[o] = "absent"
  BY VenueStep
<1>1. ASSUME NEW o \in Orders, Receive(o) PROVE RejectInv'
  BY <1>1, <1>t DEF Receive, Reject, Once, Threads, TypeOK
<1>2. CASE KillGate \/ HoldGate \/ Recheck
  <2>1. /\ UNCHANGED <<mode, venue, cur, inbox, published>>
        /\ pc["order"] \in BeforeSubmit
    BY <1>2 DEF KillGate, HoldGate, Recheck, BeforeSubmit
  <2>2. cur \in Orders /\ venue[cur] = "absent" /\ published[cur] = "none"
    BY <2>1, <1>t DEF Once, BeforeSubmit
  <2>3. QED
    BY <2>1, <2>2
<1>3. CASE Submit
  <2>1. /\ pc["order"] = "submit" /\ cur \in Orders /\ published[cur] = "none"
        /\ UNCHANGED <<mode, inbox, published>>
    BY <1>3, <1>t DEF Submit
  <2>2. \A o \in Orders : o # cur => venue'[o] = venue[o]
    BY <1>3 DEF Submit, TypeOK, ReconcileTypes
  <2>3. Unheard' /\ RejectedNeverTraded'
    BY <1>3, <2>1, <2>2, <1>t DEF Submit, TypeOK, Threads
  <2>4. RejectionTrue'
    BY <1>3, <2>1, RejectedAnswer DEF Submit, TypeOK, ReconcileTypes
  <2>5. QED
    BY <2>3, <2>4
<1>4. CASE Publish
  <2>1. /\ UNCHANGED <<mode, venue, inbox>> /\ pc'["order"] = "idle" /\ result' = "none"
        /\ cur \in Orders /\ cur \notin inbox
    BY <1>4, <1>t DEF Publish, Once, TypeOK, Threads
  <2>2. published' \in {published, [published EXCEPT ![cur] = SchemaStatus(result)]}
    BY <1>4 DEF Publish
  <2>3. SchemaStatus(result) = "REJECTED" => result = "REJECTED"
    BY DEF SchemaStatus
  <2>4. QED
    BY <2>1, <2>2, <2>3, <1>t
<1>5. CASE Crash
  BY <1>5, <1>t DEF Crash, Threads
<1>6. CASE /\ ~Crash /\ ~Submit
           /\ UNCHANGED <<mode, cur, result, inbox, published>>
           /\ pc["order"] = "idle" => pc'["order"] = "idle"
  BY <1>6, <1>v, <1>t
<1>7. CASE Activate \/ Deactivate \/ (\E o \in Orders : VenueFill(o)) \/
          RegisterPreSubmit \/ ApplyRead \/ NoteFillAfterKill \/ ApplyUpdate
          \/ Boot \/ PollRead \/ PollAct \/ EmitBotShutdown \/
          HandleBotShutdown \/ (\E t \in Threads : ReconcileStep(t)) \/
          UNCHANGED vars
  <2>1. UNCHANGED <<mode, cur, result, inbox, published>>
    BY <1>7 DEF Activate, Deactivate, VenueFill, RegisterPreSubmit, ApplyRead,
       NoteFillAfterKill, ApplyUpdate, Boot, PollRead, PollAct, EmitBotShutdown,
       HandleBotShutdown, ReconcileStep, ReconcileStart, PreRead, CancelCall,
       Readback, ReconcileFinish, Post, vars
  <2>2. pc["order"] = "idle" => pc'["order"] = "idle"
    <3> USE DEF Threads, TypeOK
    <3>1. CASE RegisterPreSubmit \/ ApplyRead \/ NoteFillAfterKill \/ ApplyUpdate
      BY <3>1 DEF RegisterPreSubmit, ApplyRead, NoteFillAfterKill, ApplyUpdate
    <3>2. CASE Boot
      BY <3>2 DEF Boot
    <3>3. CASE PollRead \/ PollAct \/ HandleBotShutdown
      BY <3>3 DEF PollRead, PollAct, HandleBotShutdown
    <3>4. ASSUME NEW t \in Threads, ReconcileStart(t) \/ ReconcileFinish(t) \/ Post(t)
          PROVE  pc["order"] = "idle" => pc'["order"] = "idle"
      BY <3>4 DEF ReconcileStart, ReconcileFinish, Post, Held
    <3>5. ASSUME NEW t \in Threads,
                 (\E o \in Orders : PreRead(t, o)) \/ CancelCall(t) \/ Readback(t)
          PROVE  pc' = pc
      BY <3>5 DEF PreRead, CancelCall, Readback
    <3>6. CASE Activate \/ Deactivate \/ (\E o \in Orders : VenueFill(o)) \/
              EmitBotShutdown \/ UNCHANGED vars
      BY <3>6 DEF Activate, Deactivate, VenueFill, EmitBotShutdown, vars
    <3>7. QED
      BY <1>7, <3>1, <3>2, <3>3, <3>4, <3>5, <3>6 DEF ReconcileStep
  <2>3. QED
    BY <2>1, <2>2, <1>3, <1>5, <1>6
<1>8. QED
  BY <1>1, <1>2, <1>3, <1>4, <1>5, <1>7 DEF Next, OrderStep, SupStep

\* The honest account of cancels and rejections, as one inductive invariant.
HonestInv == KillInv /\ CancelInv /\ RejectInv

LEMMA HonestInit == Init => HonestInv
<1> SUFFICES ASSUME Init PROVE HonestInv
  OBVIOUS
<1>1. TypeOK /\ Held
  BY InitType
<1>2. Once /\ Calm /\ KillRespected
  BY ConstantsAssumption DEF Init, Once, Calm, KillRespected, BeforeSubmit, Threads
<1>3. CancelInv
  BY DEF Init, CancelInv, Seen, Answered, Accounted, NoDuplicateCancel,
     PassIsHonest, NoRecords, IsOpen, OpenStatuses
<1>4. RejectInv
  BY DEF Init, RejectInv, Unheard, RejectionTrue, RejectedNeverTraded, Threads
<1>5. QED
  BY <1>1, <1>2, <1>3, <1>4 DEF HonestInv, KillInv

\* The inductive invariant holds in every reachable state.
THEOREM Honest == Spec => []HonestInv
<1>1. HonestInv /\ [Next]_vars => HonestInv'
  BY TypeStep, KillStep, CancelStep, RejectStep DEF HonestInv, KillInv
<1>2. QED
  BY HonestInit, <1>1, PTL DEF Spec

\* A manifest's PASS is the truth about every order the reconcile listed, for
\* any number of orders, of reconciles by the three threads one after the
\* other, of submissions under way while it ran, and of failed ledger writes:
\* _cancel_one drops an order only on an end seen at the venue, and nothing
\* but a crash, which forgets the manifest, undoes an end (kill_cancel.py).
THEOREM ManifestHonest == Spec => []PassIsHonest
<1>1. HonestInv => PassIsHonest
  BY DEF HonestInv, CancelInv
<1>2. QED
  BY <1>1, Honest, PTL

\* No duplicate confirmed cancels: an order whose end this process has seen is
\* never cancelled again by a later reconcile, although its record may come
\* back by a late register() of the order thread (_cancel_one's first read).
THEOREM CancelledOnce == Spec => []NoDuplicateCancel
<1>1. HonestInv => NoDuplicateCancel
  BY DEF HonestInv, CancelInv
<1>2. QED
  BY <1>1, Honest, PTL

\* With the mock or the dry-run adapter an order published as REJECTED never
\* reached the venue and never will (process_order, _publish_result).
THEOREM RejectionFinal == Spec => []RejectedNeverTraded
<1>1. HonestInv => RejectedNeverTraded
  BY DEF HonestInv, RejectInv
<1>2. QED
  BY <1>1, Honest, PTL

-------------------------------------------------------------------------------
(* The kill switch file (module KillSwitch), for any number of concurrent   *)
(* requests, inodes and possible contents: while the file existed from the  *)
(* start and no write has failed, an activation sticks and only a           *)
(* deactivation opens.                                                      *)

Wanted == {"ACTIVE", "INACTIVE"}
Ensuring == {"ensureOpen", "ensureWrite", "ensureReplace"}
Steps == {"idle", "construct", "open", "write", "replace", "return"}

SwitchTypeOK ==
    /\ state \in Inodes \cup {None} /\ tmp \in Inodes \cup {None}
    /\ content \in [Inodes -> Contents]
    /\ kpc \in [Callers -> Steps \cup Ensuring]
    /\ op \in [Callers -> Wanted] /\ writing \in [Callers -> Wanted]
    /\ fd \in [Callers -> Inodes \cup {None}]
    /\ \A c \in Callers : kpc[c] \in {"write", "ensureWrite"} => fd[c] \in Inodes
    /\ overlap \in [Callers -> BOOLEAN] /\ stuck \in BOOLEAN /\ clean \in BOOLEAN

\* What the history says: a request marked as not overlapped runs beside no
\* deactivation, and none has begun since an activation stuck.
Undisturbed ==
    /\ \A c \in Callers : kpc[c] # "idle" /\ ~overlap[c] => ~Deactivating
    /\ stuck => ~Deactivating

\* Nobody creates the file anew; every writer writes what its request wants.
Straight ==
    /\ state # None
    /\ \A c \in Callers : kpc[c] \notin Ensuring
    /\ \A c \in Callers : kpc[c] \in {"open", "write", "replace"} => writing[c] = op[c]

\* INACTIVE in the temporary file is about to be renamed by a deactivation that
\* is still running, whoever else renames it first.
Fresh ==
    tmp # None /\ content[tmp] = "INACTIVE" =>
        \E c \in Callers : kpc[c] = "replace" /\ op[c] = "INACTIVE"

\* What an activation has achieved by each of its steps, alone or through the
\* writers that took its temporary file away.
Achieved ==
    /\ \A c \in Callers : ~overlap[c] =>
          /\ kpc[c] \in {"write", "replace"} => ReadsActive \/ tmp # None
          /\ kpc[c] = "return" => ReadsActive
    /\ stuck => ReadsActive

IInv == SwitchTypeOK /\ Undisturbed /\ (clean => Straight /\ Fresh /\ Achieved)

-------------------------------------------------------------------------------
(* Files, descriptors and requests keep their types.                         *)
LEMMA SwitchTypeStep == SwitchTypeOK /\ [SwitchNext]_switchVars => SwitchTypeOK'
<1> SUFFICES ASSUME SwitchTypeOK, [SwitchNext]_switchVars PROVE SwitchTypeOK'
  OBVIOUS
<1> USE DEF SwitchTypeOK, Steps, Ensuring, Wanted, Contents, CallerAt, CallerGoto
<1>1. ASSUME NEW c \in Callers, NEW want \in Wanted, Request(c, want) PROVE SwitchTypeOK'
  <2>1. overlap' \in [Callers -> BOOLEAN]
    BY <1>1 DEF Request, Deactivating
  <2>2. stuck' \in BOOLEAN
    BY <1>1 DEF Request
  <2> QED BY <1>1, <2>1, <2>2 DEF Request
<1>2. ASSUME NEW c \in Callers, Construct(c) PROVE SwitchTypeOK'
  BY <1>2 DEF Construct
<1>3. ASSUME NEW c \in Callers, Open(c, "ensureOpen", "ensureWrite") \/ Open(c, "open", "write")
      PROVE  SwitchTypeOK'
  <2>1. PICK i \in Inodes : /\ tmp' = i /\ fd' = [fd EXCEPT ![c] = i]
                            /\ content' = [content EXCEPT ![i] = "empty"]
    BY <1>3 DEF Open, Free
  <2>2. /\ kpc' = [kpc EXCEPT ![c] = "ensureWrite"] \/ kpc' = [kpc EXCEPT ![c] = "write"]
        /\ UNCHANGED <<state, op, writing, calls, overlap, stuck, clean>>
    BY <1>3 DEF Open
  <2> QED BY <2>1, <2>2
<1>4. ASSUME NEW c \in Callers,
             Write(c, "ensureWrite", "ensureReplace") \/ Write(c, "write", "replace")
      PROVE  SwitchTypeOK'
  BY <1>4 DEF Write
<1>5. ASSUME NEW c \in Callers,
             Replace(c, "ensureReplace", "open") \/ Replace(c, "replace", "return")
      PROVE  SwitchTypeOK'
  BY <1>5 DEF Replace
<1>6. ASSUME NEW c \in Callers, WriteFails(c) PROVE SwitchTypeOK'
  BY <1>6 DEF WriteFails
<1>7. ASSUME NEW c \in Callers, Return(c) PROVE SwitchTypeOK'
  BY <1>7 DEF Return
<1>8. CASE UNCHANGED switchVars
  BY <1>8 DEF switchVars
<1> QED BY <1>1, <1>2, <1>3, <1>4, <1>5, <1>6, <1>7, <1>8 DEF SwitchNext, CallerStep

(* Whatever the file held at the start, the types are right.                 *)
LEMMA TypeInit == SwitchInit => SwitchTypeOK
<1> SUFFICES ASSUME SwitchInit PROVE SwitchTypeOK
  OBVIOUS
<1>1. PICK c \in InitialFile, i \in Inodes :
         /\ state = IF c = None THEN None ELSE i
         /\ content = [j \in Inodes |-> IF j = i /\ c # None THEN c ELSE "empty"]
         /\ clean = (c # None)
  BY DEF SwitchInit
<1>2. content \in [Inodes -> Contents] /\ clean \in BOOLEAN /\ state \in Inodes \cup {None}
  BY <1>1, KillSwitchAssumption DEF Contents
<1> QED BY <1>2 DEF SwitchInit, SwitchTypeOK, Steps, Ensuring, Wanted

(* Type correctness, for any number of requests and inodes.                  *)
THEOREM SwitchTypeCorrect == SwitchSpec => []SwitchTypeOK
  BY TypeInit, SwitchTypeStep, PTL DEF SwitchSpec

-------------------------------------------------------------------------------
(* A deactivation in progress is one before the step too, unless the step is *)
(* its request.                                                              *)
LEMMA UndisturbedStep ==
    ASSUME SwitchTypeOK, Undisturbed, [SwitchNext]_switchVars
    PROVE  Undisturbed'
<1> USE DEF SwitchTypeOK, Undisturbed, Deactivating, CallerAt, CallerGoto
<1>1. ASSUME NEW c \in Callers, NEW want \in Wanted, Request(c, want) PROVE Undisturbed'
  <2>1. CASE want = "INACTIVE"
    BY <1>1, <2>1 DEF Request
  <2>2. CASE want = "ACTIVE"
    <3>1. Deactivating' => Deactivating
      BY <1>1, <2>2 DEF Request
    <3> QED BY <1>1, <2>2, <3>1 DEF Request
  <2> QED BY <2>1, <2>2 DEF Wanted
<1>2. ASSUME NEW c \in Callers, CallerStep(c), ~Return(c) PROVE Undisturbed'
  <2>1. /\ UNCHANGED <<op, overlap, stuck>> /\ kpc[c] # "idle"
        /\ \A d \in Callers : d # c => kpc'[d] = kpc[d]
    BY <1>2 DEF CallerStep, Construct, Open, Write, Replace, WriteFails
  <2>2. Deactivating' => Deactivating
    BY <2>1
  <2> QED BY <2>1, <2>2
<1>3. ASSUME NEW c \in Callers, Return(c) PROVE Undisturbed'
  BY <1>3 DEF Return
<1>4. CASE UNCHANGED switchVars
  BY <1>4 DEF switchVars
<1> QED BY <1>1, <1>2, <1>3, <1>4 DEF SwitchNext, Wanted

(* While no write fails, nobody takes the way over a missing file.           *)
LEMMA CleanStep ==
    ASSUME SwitchTypeOK, clean', clean => Straight, [SwitchNext]_switchVars
    PROVE  /\ clean /\ Straight
           /\ \/ \E c \in Callers, want \in Wanted : Request(c, want)
              \/ \E c \in Callers :
                    \/ Construct(c) \/ Open(c, "open", "write") \/ Write(c, "write", "replace")
                    \/ Replace(c, "replace", "return") \/ Return(c)
              \/ UNCHANGED switchVars
<1>1. clean
  BY DEF SwitchNext, CallerStep, Request, Construct, Open, Write, Replace, WriteFails, Return, switchVars, SwitchTypeOK
<1>2. ASSUME NEW c \in Callers, CallerStep(c)
      PROVE  \/ Construct(c) \/ Open(c, "open", "write") \/ Write(c, "write", "replace")
             \/ Replace(c, "replace", "return") \/ Return(c)
  BY <1>1, <1>2 DEF CallerStep, Open, Write, Replace, WriteFails, Straight, Ensuring, CallerAt
<1> QED BY <1>1, <1>2 DEF SwitchNext, Wanted

LEMMA StraightStep ==
    ASSUME SwitchTypeOK, clean', clean => Straight, [SwitchNext]_switchVars
    PROVE  Straight'
<1>0. Straight
  BY CleanStep
<1> USE DEF SwitchTypeOK, Straight, Ensuring, CallerAt, CallerGoto
<1>1. ASSUME NEW c \in Callers, NEW want \in Wanted, Request(c, want) PROVE Straight'
  BY <1>0, <1>1 DEF Request
<1>2. ASSUME NEW c \in Callers, Construct(c) PROVE Straight'
  BY <1>0, <1>2 DEF Construct, EnsureNeeded
<1>3. ASSUME NEW c \in Callers, Open(c, "open", "write") \/ Write(c, "write", "replace")
                                \/ Return(c)
      PROVE  Straight'
  BY <1>0, <1>3 DEF Open, Write, Return
<1>4. ASSUME NEW c \in Callers, Replace(c, "replace", "return") PROVE Straight'
  BY <1>0, <1>4 DEF Replace
<1>5. CASE UNCHANGED switchVars
  BY <1>0, <1>5 DEF switchVars
<1> QED BY <1>1, <1>2, <1>3, <1>4, <1>5, CleanStep

-------------------------------------------------------------------------------
\* The part of the invariant that holds while no write fails.
Clean == Straight /\ Fresh /\ Achieved

(* INACTIVE leaves the temporary file no later than the deactivation that    *)
(* wrote it has renamed it.                                                  *)
LEMMA FreshStep ==
    ASSUME SwitchTypeOK, clean', clean => Clean, [SwitchNext]_switchVars
    PROVE  Fresh'
<1>0. Straight /\ Fresh
  BY CleanStep DEF Clean
<1> USE DEF SwitchTypeOK, CallerAt, CallerGoto
<1>1. ASSUME NEW c \in Callers, Request(c, "ACTIVE") \/ Request(c, "INACTIVE") \/ Construct(c)
                                \/ Return(c)
      PROVE  Fresh'
  <2>1. /\ tmp' = tmp /\ content' = content
        /\ \A d \in Callers : kpc[d] = "replace" => kpc'[d] = "replace" /\ op'[d] = op[d]
    BY <1>1 DEF Request, Construct, Return
  <2> QED BY <1>0, <2>1 DEF Fresh
<1>2. ASSUME NEW c \in Callers, Open(c, "open", "write") PROVE Fresh'
  <2>1. PICK i \in Inodes : tmp' = i /\ content' = [content EXCEPT ![i] = "empty"]
    BY <1>2 DEF Open, Free
  <2> QED BY <2>1 DEF Fresh
<1>3. ASSUME NEW c \in Callers, Write(c, "write", "replace") PROVE Fresh'
  <2>1. /\ tmp' = tmp /\ op' = op /\ fd[c] \in Inodes /\ writing[c] = op[c]
        /\ content' = [content EXCEPT ![fd[c]] = writing[c]]
        /\ kpc'[c] = "replace" /\ \A d \in Callers : d # c => kpc'[d] = kpc[d]
    BY <1>0, <1>3 DEF Write, Straight
  <2>2. CASE tmp = fd[c]
    BY <2>1, <2>2 DEF Fresh
  <2>3. CASE tmp # fd[c]
    BY <1>0, <2>1, <2>3 DEF Fresh
  <2> QED BY <2>2, <2>3
<1>4. ASSUME NEW c \in Callers, Replace(c, "replace", "return") PROVE Fresh'
  BY <1>4 DEF Replace, Fresh
<1>5. CASE UNCHANGED switchVars
  BY <1>0, <1>5 DEF switchVars, Fresh
<1> QED BY <1>0, <1>1, <1>2, <1>3, <1>4, <1>5, CleanStep DEF Wanted

(* The switch opens only by a write or a rename while a deactivation runs.   *)
LEMMA OnlyDeactivationOpens ==
    ASSUME SwitchTypeOK, clean', clean => Clean, [SwitchNext]_switchVars, ~Deactivating
    PROVE  /\ ReadsActive => ReadsActive'
           /\ tmp # None => ReadsActive' \/ (tmp' # None /\ UNCHANGED <<state>>)
<1>0. Straight /\ Fresh
  BY CleanStep DEF Clean
<1>00. state \in Inodes /\ None \notin Inodes
  BY <1>0, KillSwitchAssumption DEF Straight, SwitchTypeOK
<1> USE DEF SwitchTypeOK, CallerAt, CallerGoto, ReadsActive, StoredActive
<1>1. ASSUME NEW c \in Callers, Request(c, "ACTIVE") \/ Request(c, "INACTIVE") \/ Construct(c)
                                \/ Return(c)
      PROVE  UNCHANGED <<state, tmp, content>>
  BY <1>1 DEF Request, Construct, Return
<1>2. ASSUME NEW c \in Callers, Open(c, "open", "write")
      PROVE  state' = state /\ tmp' # None /\ (ReadsActive => ReadsActive')
  <2>1. PICK i \in Inodes : /\ tmp' = i /\ content' = [content EXCEPT ![i] = "empty"]
                            /\ state' = state
    BY <1>2 DEF Open, Free
  <2> QED BY <1>00, <2>1
<1>3. ASSUME NEW c \in Callers, Write(c, "write", "replace")
      PROVE  state' = state /\ tmp' = tmp /\ (ReadsActive => ReadsActive')
  <2>1. op[c] = "ACTIVE" /\ writing[c] = op[c] /\ fd[c] \in Inodes
    BY <1>0, <1>3 DEF Write, Straight, Deactivating, Wanted
  <2> QED BY <1>00, <1>3, <2>1 DEF Write
<1>4. ASSUME NEW c \in Callers, Replace(c, "replace", "return")
      PROVE  (ReadsActive => ReadsActive') /\ (tmp # None => ReadsActive')
  <2>1. tmp # None => content[tmp] # "INACTIVE"
    BY <1>0 DEF Fresh, Deactivating
  <2> QED BY <1>4, <2>1 DEF Replace
<1>5. CASE UNCHANGED switchVars
  BY <1>5 DEF switchVars
<1> QED BY <1>0, <1>1, <1>2, <1>3, <1>4, <1>5, CleanStep DEF Wanted

(* An activation that no deactivation overlaps gets its way.                 *)
LEMMA AchievedStep ==
    ASSUME SwitchTypeOK, Undisturbed, clean', clean => Clean, [SwitchNext]_switchVars
    PROVE  Achieved'
<1>0. Straight /\ Fresh /\ Achieved
  BY CleanStep DEF Clean
<1> USE DEF SwitchTypeOK, CallerAt, CallerGoto
\* Requests that go on as they were.
<1>a. ASSUME NEW d \in Callers, kpc'[d] # "idle", ~overlap'[d], overlap'[d] = overlap[d],
             kpc[d] \in {"write", "replace", "return"}, kpc'[d] = kpc[d]
      PROVE  /\ kpc'[d] \in {"write", "replace"} => ReadsActive' \/ tmp' # None
             /\ kpc'[d] = "return" => ReadsActive'
  <2>1. ~Deactivating
    BY <1>a DEF Undisturbed
  <2> QED BY <1>0, <1>a, <2>1, OnlyDeactivationOpens DEF Achieved
<1>b. stuck => ReadsActive'
  BY <1>0, OnlyDeactivationOpens DEF Undisturbed, Achieved
<1>1. ASSUME NEW c \in Callers, NEW want \in Wanted, Request(c, want) PROVE Achieved'
  <2>1. /\ kpc'[c] = "construct" /\ \A d \in Callers : d # c => kpc'[d] = kpc[d]
        /\ \A d \in Callers : d # c /\ ~overlap'[d] => overlap'[d] = overlap[d]
        /\ (stuck' => stuck)
    BY <1>1 DEF Request
  <2> QED BY <1>a, <1>b, <2>1 DEF Achieved
<1>2. ASSUME NEW c \in Callers, Construct(c) PROVE Achieved'
  <2>1. /\ kpc'[c] \in {"open", "ensureOpen"} /\ \A d \in Callers : d # c => kpc'[d] = kpc[d]
        /\ overlap' = overlap /\ stuck' = stuck
    BY <1>2 DEF Construct
  <2> QED BY <1>a, <1>b, <2>1 DEF Achieved
<1>3. ASSUME NEW c \in Callers, Open(c, "open", "write") PROVE Achieved'
  <2>1. /\ kpc'[c] = "write" /\ \A d \in Callers : d # c => kpc'[d] = kpc[d]
        /\ overlap' = overlap /\ stuck' = stuck /\ tmp' # None
    BY <1>3, KillSwitchAssumption DEF Open, Free
  <2> QED BY <1>a, <1>b, <2>1 DEF Achieved
<1>4. ASSUME NEW c \in Callers, Write(c, "write", "replace") PROVE Achieved'
  <2>1. /\ kpc[c] = "write" /\ kpc'[c] = "replace" /\ \A d \in Callers : d # c => kpc'[d] = kpc[d]
        /\ overlap' = overlap /\ stuck' = stuck /\ tmp' = tmp
    BY <1>4 DEF Write
  <2>2. ~overlap[c] => ReadsActive' \/ tmp' # None
    BY <1>0, <2>1, OnlyDeactivationOpens DEF Achieved, Undisturbed
  <2> QED BY <1>a, <1>b, <2>1, <2>2 DEF Achieved
<1>5. ASSUME NEW c \in Callers, Replace(c, "replace", "return") PROVE Achieved'
  <2>1. /\ kpc[c] = "replace" /\ kpc'[c] = "return" /\ \A d \in Callers : d # c => kpc'[d] = kpc[d]
        /\ overlap' = overlap /\ stuck' = stuck /\ tmp' = None
    BY <1>5 DEF Replace
  <2>2. ~overlap[c] => ReadsActive'
    BY <1>0, <2>1, OnlyDeactivationOpens DEF Achieved, Undisturbed
  <2> QED BY <1>a, <1>b, <2>1, <2>2 DEF Achieved
<1>6. ASSUME NEW c \in Callers, Return(c) PROVE Achieved'
  <2>1. /\ kpc[c] = "return" /\ kpc'[c] = "idle" /\ \A d \in Callers : d # c => kpc'[d] = kpc[d]
        /\ overlap' = overlap /\ UNCHANGED <<state, content>>
        /\ (stuck' => stuck \/ ~overlap[c])
    BY <1>6 DEF Return
  <2>2. ~overlap[c] => ReadsActive'
    BY <1>0, <2>1 DEF Achieved, ReadsActive
  <2> QED BY <1>a, <1>b, <2>1, <2>2 DEF Achieved
<1>7. CASE UNCHANGED switchVars
  BY <1>0, <1>7 DEF switchVars, Achieved, ReadsActive
<1> QED BY <1>0, <1>1, <1>2, <1>3, <1>4, <1>5, <1>6, <1>7, CleanStep

-------------------------------------------------------------------------------
(* The inductive invariant.                                                  *)
THEOREM Steady == SwitchSpec => []IInv
<1>1. SwitchInit => IInv
  <2> SUFFICES ASSUME SwitchInit PROVE IInv
    OBVIOUS
  <2>1. kpc = [c \in Callers |-> "idle"] /\ stuck = FALSE /\ tmp = None
    BY DEF SwitchInit
  <2>2. clean => state # None
    BY KillSwitchAssumption DEF SwitchInit
  <2> QED BY <2>1, <2>2, TypeInit DEF IInv, Undisturbed, Deactivating, Straight, Ensuring, Fresh,
                                      Achieved
<1>2. IInv /\ [SwitchNext]_switchVars => IInv'
  <2> SUFFICES ASSUME IInv, [SwitchNext]_switchVars PROVE IInv'
    OBVIOUS
  <2> QED BY SwitchTypeStep, UndisturbedStep, StraightStep, FreshStep, AchievedStep DEF IInv, Clean
<1> QED BY <1>1, <1>2, PTL DEF SwitchSpec

(* Once an activation that no deactivation overlapped has returned, every    *)
(* read says active until a deactivation begins, however many writers mix up *)
(* the one temporary file.                                                   *)
THEOREM ActivationHolds == SwitchSpec => []ActivationSticks
<1>1. IInv => ActivationSticks
  BY DEF IInv, Achieved, ActivationSticks
<1> QED BY <1>1, Steady, PTL

(* Only while a deactivation runs can the switch open.                       *)
THEOREM OpensByDeactivation == SwitchSpec => CleanOnlyDeactivateOpens
<1>1. IInv /\ [SwitchNext]_switchVars => [clean' /\ ReadsActive /\ ~ReadsActive' => Deactivating]_switchVars
  BY OnlyDeactivationOpens DEF IInv, Clean
<1> QED BY <1>1, Steady, PTL DEF SwitchSpec, CleanOnlyDeactivateOpens

===============================================================================

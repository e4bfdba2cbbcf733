---------------------------- MODULE CampaignProofs ----------------------------
(***************************************************************************)
(* What the campaign runner guarantees for every number of run keys, every *)
(* sample, every budget and any number of crashes: evidence is written     *)
(* once, attempts are bounded, and COMPLETED is earned.                    *)
(***************************************************************************)
EXTENDS Campaign, TLAPS

Phases == {"none", "PLANNED", "PRIMARY_RUNNING", "PRIMARY_EVIDENCE_COMPLETE",
           "PRIMARY_COMPLETE", "REPRODUCTION_PLANNED", "REPRODUCTION_RUNNING",
           "REPRODUCTION_COMPLETE", "COMPLETED", "BLOCKED"}

\* The steps of the runner with an attempt in hand, by what is written already.
Attempting == {"execute", "persist", "compare", "mismatch"}
Committing == {"result", "succeeded"}
Working == Attempting \cup Committing \cup {"marker"}

TypeOK ==
    /\ phase \in Phases
    /\ env \in [Items -> [status : {"none", "RUNNING", "FAILED", "SUCCEEDED"},
                          attempt : Nat, fp : Results \cup {NoResult}]]
    /\ result \in [Items -> Results \cup {NoResult}]
    /\ marker \in [Items -> BOOLEAN]
    /\ comparison \in [Items -> {"none", "PASS", "MISMATCH"}]
    /\ at \in Nat
    /\ got \in Results \cup {NoResult}
    /\ started \in [Items -> Nat]

\* An attempt is counted in the envelope before it begins, and within the budget.
Counted ==
    \A i \in Items :
        /\ started[i] <= env[i].attempt /\ env[i].attempt <= MaxAttempts
        /\ env[i].status = "none" => env[i].attempt = 0

\* What the files say of the item that the runner is working on.
InHand ==
    /\ pc \in Working => at \in Items
    /\ pc \in Attempting \cup Committing => env[at].status = "RUNNING"
    /\ pc \in {"persist", "compare", "mismatch"} => at \in Repro
    /\ pc \in {"persist", "compare"} \cup Committing => got \in Results
    /\ pc \in {"compare", "succeeded"} => result[at] = got
    /\ pc = "marker" => /\ env[at].status = "SUCCEEDED"
                        /\ result[at] = env[at].fp /\ result[at] \in Results

Done(i) == env[i].status = "SUCCEEDED" /\ Whole(i)

\* A PASS is written once, after the primary result is final, and it is the
\* only way to commit a reproduction.
Agreement ==
    /\ pc \in Working /\ at \in Repro => phase = "REPRODUCTION_RUNNING"
    /\ pc \in Attempting /\ at \in Repro => comparison[at] # "PASS"
    /\ pc \in Committing \cup {"marker"} /\ at \in Repro => comparison[at] = "PASS"
    /\ pc \in Committing /\ at \in Repro => got = result[at - N]
    /\ \A i \in Repro : comparison[i] = "PASS" =>
          /\ env[i].status \in {"RUNNING", "SUCCEEDED"}
          /\ result[i] = result[i - N] /\ Done(i - N)

Earned(i) == Done(i) /\ result[i] = result[i - N]

\* The phases in which the primary items are done.
PrimaryOver == {"PRIMARY_EVIDENCE_COMPLETE", "PRIMARY_COMPLETE", "REPRODUCTION_PLANNED",
                "REPRODUCTION_RUNNING", "REPRODUCTION_COMPLETE", "COMPLETED"}

\* How far the phase says the campaign is, it is.
Progress ==
    /\ phase \in PrimaryOver => PrimaryDone
    /\ phase \in {"REPRODUCTION_COMPLETE", "COMPLETED"} => \A i \in Repro : Earned(i)
    /\ phase = "REPRODUCTION_RUNNING" /\ pc \in Working \cup {"loop"} =>
          \A i \in Repro : i < at => Earned(i)
    /\ pc = "complete" => R = 0 \/ phase = "REPRODUCTION_COMPLETE"

IInv == TypeOK /\ Counted /\ InHand /\ Agreement /\ Progress

-------------------------------------------------------------------------------
(* A reproduction and the run key it reproduces are different items.         *)
LEMMA ItemSets ==
    /\ Items \subseteq Nat /\ Primary \subseteq Items /\ Repro \subseteq Items
    /\ Primary \cap Repro = {} /\ Items = Primary \cup Repro
    /\ \A i \in Repro : i - N \in Primary /\ i - N # i
    /\ \A i \in Repro : i >= N + 1 /\ i < N + R + 1
    /\ \A i \in Primary : i < N + 1
    /\ R = 0 => Repro = {}
    /\ N \in Nat /\ R \in Nat
  BY CampaignAssumption DEF Items, Primary, Repro

\* The steps that move the phase and leave the items alone.
PhaseStep == Dispatch \/ Count \/ Reproduce \/ Complete \/ Block \/ LoopEnd

(* A step that moves the phase: its target and where the runner goes next.   *)
LEMMA PhaseMoves ==
    ASSUME PhaseStep, at \in Nat
    PROVE  /\ UNCHANGED <<lock, inventory, env, result, marker, comparison, got, crashes,
                          started>>
           /\ pc' \in {"loop", "count", "reproduce", "complete", "release"}
           /\ at' \in Nat
<1>1. ASSUME NEW to, NEW step, Move(to, step)
      PROVE  /\ UNCHANGED <<lock, inventory, env, result, marker, comparison, got, crashes,
                            started>>
             /\ pc' \in {step, "release"}
  BY <1>1 DEF Move, Goto
<1>2. CASE Dispatch
  BY <1>1, <1>2 DEF Dispatch
<1>3. CASE Count
  BY <1>1, <1>3 DEF Count
<1>4. CASE Reproduce
  BY <1>1, <1>4, ItemSets DEF Reproduce
<1>5. CASE Complete \/ Block
  BY <1>1, <1>5 DEF Complete, Block
<1>6. CASE LoopEnd
  BY <1>1, <1>6 DEF LoopEnd
<1> QED BY <1>2, <1>3, <1>4, <1>5, <1>6 DEF PhaseStep

(* Every phase written is one of the ten.                                    *)
LEMMA PhaseTyped ==
    ASSUME PhaseStep, phase \in Phases
    PROVE  phase' \in Phases
<1>1. ASSUME NEW to \in Phases, NEW step, Move(to, step) PROVE phase' \in Phases
  BY <1>1 DEF Move
<1> USE DEF Phases
<1>2. CASE Dispatch
  BY <1>1, <1>2 DEF Dispatch
<1>3. CASE Count
  BY <1>1, <1>3 DEF Count
<1>4. CASE Reproduce
  BY <1>1, <1>4 DEF Reproduce
<1>5. CASE Complete \/ Block \/ LoopEnd
  BY <1>1, <1>5 DEF Complete, Block, LoopEnd
<1> QED BY <1>2, <1>3, <1>4, <1>5 DEF PhaseStep

(* The files, the runner and the history keep their types.                   *)
LEMMA TypeStep == TypeOK /\ [Next]_vars => TypeOK'
<1> SUFFICES ASSUME TypeOK, [Next]_vars PROVE TypeOK'
  OBVIOUS
<1> USE DEF TypeOK, files, local
<1>1. CASE PhaseStep
  BY <1>1, PhaseMoves, PhaseTyped
<1>2. CASE Start \/ Acquire \/ WriteLock \/ Release \/ Crash \/ Adopt
  BY <1>2 DEF Start, Acquire, WriteLock, Release, Crash, Adopt
<1>3. CASE WriteEnvelope \/ AdoptPhase
  BY <1>3 DEF WriteEnvelope, AdoptPhase, Phases
<1>4. ASSUME NEW i \in Items, Skip(i) \/ Finalize(i) \/ Refuse(i) \/ Succeed(i) \/ Raise(i)
      PROVE  TypeOK'
  BY <1>4, ItemSets DEF Skip, Finalize, Refuse, Succeed, Raise
<1>5. ASSUME NEW i \in Items, Begin(i) PROVE TypeOK'
  BY <1>5 DEF Begin
<1>6. ASSUME NEW i \in Items, Fail(i) \/ Mismatch(i) PROVE TypeOK'
  BY <1>6, ItemSets DEF Fail, Mismatch, Failed
<1>7. ASSUME NEW i \in Items, CommitResult(i) \/ Persist(i) PROVE TypeOK'
  BY <1>7 DEF CommitResult, Persist
<1>8. ASSUME NEW i \in Items, CommitEnvelope(i) PROVE TypeOK'
  BY <1>8 DEF CommitEnvelope
<1>9. ASSUME NEW i \in Items, CommitMarker(i) PROVE TypeOK'
  BY <1>9, ItemSets DEF CommitMarker
<1>10. ASSUME NEW i \in Items, Compare(i) PROVE TypeOK'
  BY <1>10 DEF Compare
<1>11. CASE UNCHANGED vars
  BY <1>11 DEF vars
<1> QED BY <1>1, <1>2, <1>3, <1>4, <1>5, <1>6, <1>7, <1>8, <1>9, <1>10, <1>11
        DEF Next, Step, PhaseStep

(* Type correctness, for every number of run keys and every budget.          *)
THEOREM TypeCorrect == Spec => []TypeOK
<1>1. Init => TypeOK
  <2> SUFFICES ASSUME Init PROVE TypeOK
    OBVIOUS
  <2>1. /\ comparison \in [Items -> {"none", "PASS", "MISMATCH"}]
        /\ at \in Nat /\ got \in Results \cup {NoResult} /\ started \in [Items -> Nat]
    BY DEF Init
  <2>2. CASE phase = "none" /\ env = [i \in Items |-> NoEnvelope]
             /\ result = [i \in Items |-> NoResult] /\ marker = [i \in Items |-> FALSE]
    BY <2>1, <2>2 DEF TypeOK, NoEnvelope, Phases
  <2>3. ASSUME NEW r \in [Primary -> Results], phase = "PLANNED",
               env = [i \in Items |-> IF i \in Primary
                         THEN [status |-> "SUCCEEDED", attempt |-> 1, fp |-> r[i]]
                         ELSE NoEnvelope],
               result = [i \in Items |-> IF i \in Primary THEN r[i] ELSE NoResult],
               marker = [i \in Items |-> i \in Primary]
        PROVE  TypeOK
    BY <2>1, <2>3 DEF TypeOK, NoEnvelope, Phases
  <2> QED BY <2>2, <2>3 DEF Init
<1> QED BY <1>1, TypeStep, PTL DEF Spec

-------------------------------------------------------------------------------
\* A successful item is never touched again, and a marker never removed.
Frozen ==
    \A i \in Items :
        /\ env[i].status = "SUCCEEDED" => env'[i] = env[i] /\ result'[i] = result[i]
        /\ marker[i] => marker'[i]

(* Every write of an envelope or a result is to an item that is not yet      *)
(* SUCCEEDED: the runner has it RUNNING in hand, or found it FAILED or       *)
(* without an envelope.                                                      *)
LEMMA FrozenStep ==
    ASSUME TypeOK, InHand, [Next]_vars
    PROVE  Frozen
<1> USE DEF TypeOK, Frozen, files, local
<1>1. CASE PhaseStep
  BY <1>1, PhaseMoves
<1>2. CASE Start \/ Acquire \/ WriteLock \/ Release \/ Crash \/ Adopt \/ WriteEnvelope \/ AdoptPhase
  BY <1>2 DEF Start, Acquire, WriteLock, Release, Crash, Adopt, WriteEnvelope, AdoptPhase
<1>3. ASSUME NEW i \in Items, Skip(i) \/ Finalize(i) \/ Refuse(i) \/ Succeed(i) \/ Raise(i)
                              \/ Compare(i)
      PROVE  Frozen
  BY <1>3 DEF Skip, Finalize, Refuse, Succeed, Raise, Compare
<1>4. ASSUME NEW i \in Items, Begin(i) PROVE Frozen
  BY <1>4 DEF Begin, Startable
<1>5. ASSUME NEW i \in Items, Fail(i) \/ Mismatch(i) PROVE Frozen
  BY <1>5 DEF Fail, Mismatch, Failed, InHand, Attempting
<1>6. ASSUME NEW i \in Items, CommitResult(i) \/ Persist(i) PROVE Frozen
  BY <1>6 DEF CommitResult, Persist, InHand, Attempting, Committing
<1>7. ASSUME NEW i \in Items, CommitEnvelope(i) PROVE Frozen
  BY <1>7 DEF CommitEnvelope, InHand, Committing
<1>8. ASSUME NEW i \in Items, CommitMarker(i) PROVE Frozen
  BY <1>8 DEF CommitMarker
<1>9. CASE UNCHANGED vars
  BY <1>9 DEF vars
<1> QED BY <1>1, <1>2, <1>3, <1>4, <1>5, <1>6, <1>7, <1>8, <1>9 DEF Next, Step, PhaseStep

(* So what is done stays done.                                               *)
LEMMA DoneStays ==
    ASSUME TypeOK, Frozen
    PROVE  /\ \A i \in Items : Done(i) => Done(i)'
           /\ PrimaryDone => PrimaryDone'
           /\ \A i \in Repro : Earned(i) /\ Done(i - N) => Earned(i)'
<1>1. \A i \in Items : Done(i) => Done(i)' /\ result'[i] = result[i]
  BY DEF Done, Whole, Frozen, TypeOK
<1>2. PrimaryDone <=> \A i \in Primary : Done(i)
  BY DEF PrimaryDone, Done
<1>3. PrimaryDone' <=> \A i \in Primary : Done(i)'
  BY DEF PrimaryDone, Done
<1> QED BY <1>1, <1>2, <1>3, ItemSets DEF Earned

-------------------------------------------------------------------------------
(* The budget: the envelope counts an attempt no later than the runner       *)
(* begins it.                                                                *)
LEMMA CountedStep ==
    ASSUME TypeOK, InHand, Counted, [Next]_vars
    PROVE  Counted'
<1> USE DEF TypeOK, Counted, files, local
<1>1. CASE PhaseStep
  BY <1>1, PhaseMoves
<1>2. CASE Start \/ Acquire \/ WriteLock \/ Release \/ Crash \/ Adopt \/ WriteEnvelope \/ AdoptPhase
  BY <1>2 DEF Start, Acquire, WriteLock, Release, Crash, Adopt, WriteEnvelope, AdoptPhase
<1>3. ASSUME NEW i \in Items, Skip(i) \/ Finalize(i) \/ Refuse(i) \/ Succeed(i) \/ Raise(i)
                              \/ Compare(i) \/ CommitResult(i) \/ Persist(i) \/ CommitMarker(i)
      PROVE  Counted'
  BY <1>3 DEF Skip, Finalize, Refuse, Succeed, Raise, Compare, CommitResult, Persist, CommitMarker
<1>4. ASSUME NEW i \in Items, Begin(i) PROVE Counted'
  <2>1. env[i].attempt + 1 <= MaxAttempts
    BY <1>4, CampaignAssumption DEF Begin, Startable, Retriable
  <2>2. /\ env'[i].attempt = env[i].attempt + 1 /\ env'[i].status = "RUNNING"
        /\ started'[i] = started[i] + 1
        /\ \A j \in Items \ {i} : env'[j] = env[j] /\ started'[j] = started[j]
    BY <1>4 DEF Begin
  <2> QED BY <2>1, <2>2
<1>5. ASSUME NEW i \in Items, Fail(i) \/ Mismatch(i) PROVE Counted'
  <2>1. env'[i].attempt = env[i].attempt /\ env'[i].status = "FAILED"
    BY <1>5 DEF Fail, Mismatch, Failed
  <2>2. started' = started /\ \A j \in Items \ {i} : env'[j] = env[j]
    BY <1>5 DEF Fail, Mismatch, Failed
  <2> QED BY <2>1, <2>2
<1>6. ASSUME NEW i \in Items, CommitEnvelope(i) PROVE Counted'
  <2>1. env'[i].attempt = env[i].attempt /\ env'[i].status = "SUCCEEDED"
    BY <1>6 DEF CommitEnvelope
  <2>2. started' = started /\ \A j \in Items \ {i} : env'[j] = env[j]
    BY <1>6 DEF CommitEnvelope
  <2> QED BY <2>1, <2>2
<1>7. CASE UNCHANGED vars
  BY <1>7 DEF vars
<1> QED BY <1>1, <1>2, <1>3, <1>4, <1>5, <1>6, <1>7 DEF Next, Step, PhaseStep

-------------------------------------------------------------------------------
(* The steps of the runner outside an item, and those of everyone else: no   *)
(* item is in hand afterwards, or nothing about it has changed.              *)
Outside == Start \/ Acquire \/ WriteLock \/ Release \/ Crash \/ WriteEnvelope \/ PhaseStep

LEMMA OutsideStep ==
    ASSUME TypeOK, Outside
    PROVE  pc' \notin Working /\ UNCHANGED <<env, result, marker, comparison>>
<1> USE DEF Working, Attempting, Committing, files, Goto
<1>1. CASE PhaseStep
  BY <1>1, PhaseMoves DEF TypeOK
<1>2. CASE Start \/ Acquire \/ WriteLock \/ Release \/ Crash \/ WriteEnvelope
  BY <1>2 DEF Start, Acquire, WriteLock, Release, Crash, WriteEnvelope
<1> QED BY <1>1, <1>2 DEF Outside

LEMMA InHandStep ==
    ASSUME TypeOK, InHand, [Next]_vars
    PROVE  InHand'
<1> USE DEF TypeOK, InHand, Working, Attempting, Committing, files, local, Goto
<1>1. CASE Outside
  <2>1. pc' \notin Working
    BY <1>1, OutsideStep
  <2> QED BY <2>1
<1>2. CASE Adopt \/ AdoptPhase
  BY <1>2 DEF Adopt, AdoptPhase
<1>3. ASSUME NEW i \in Items, Skip(i) \/ Refuse(i) \/ Raise(i) \/ CommitMarker(i) PROVE InHand'
  BY <1>3 DEF Skip, Refuse, Raise, CommitMarker, InLoop
<1>4. ASSUME NEW i \in Items, Finalize(i) PROVE InHand'
  BY <1>4 DEF Finalize, InLoop, Finalizable
<1>5. ASSUME NEW i \in Items, Begin(i) PROVE InHand'
  BY <1>5 DEF Begin, InLoop
<1>6. ASSUME NEW i \in Items, Succeed(i) PROVE InHand'
  BY <1>6, ItemSets DEF Succeed
<1>7. ASSUME NEW i \in Items, Fail(i) \/ Mismatch(i) PROVE InHand'
  BY <1>7 DEF Fail, Mismatch
<1>8. ASSUME NEW i \in Items, CommitResult(i) \/ Persist(i) PROVE InHand'
  BY <1>8 DEF CommitResult, Persist
<1>9. ASSUME NEW i \in Items, CommitEnvelope(i) PROVE InHand'
  <2>1. /\ env'[i].status = "SUCCEEDED" /\ env'[i].fp = got /\ result' = result /\ at' = i
        /\ pc' = "marker" /\ result[i] = got /\ got \in Results
    BY <1>9 DEF CommitEnvelope
  <2> QED BY <2>1
<1>10. ASSUME NEW i \in Items, Compare(i) PROVE InHand'
  BY <1>10 DEF Compare
<1>11. CASE UNCHANGED vars
  BY <1>11 DEF vars
<1> QED BY <1>1, <1>2, <1>3, <1>4, <1>5, <1>6, <1>7, <1>8, <1>9, <1>10, <1>11
        DEF Next, Step, PhaseStep, Outside

-------------------------------------------------------------------------------
(* A PASS and what it stands for.                                            *)
LEMMA AgreementStep ==
    ASSUME TypeOK, InHand, Agreement, Progress, Frozen, [Next]_vars
    PROVE  Agreement'
<1> DEFINE Pass(i) == comparison[i] = "PASS" =>
              /\ env[i].status \in {"RUNNING", "SUCCEEDED"}
              /\ result[i] = result[i - N] /\ Done(i - N)
           InStep == /\ pc \in Working /\ at \in Repro => phase = "REPRODUCTION_RUNNING"
                     /\ pc \in Attempting /\ at \in Repro => comparison[at] # "PASS"
                     /\ pc \in Committing \cup {"marker"} /\ at \in Repro => comparison[at] = "PASS"
                     /\ pc \in Committing /\ at \in Repro => got = result[at - N]
<1>0. Agreement = (InStep /\ \A i \in Repro : Pass(i))
  BY DEF Agreement
<1>00. SUFFICES InStep' /\ \A i \in Repro : Pass(i)'
  BY DEF Agreement
\* A run key that is done keeps its result.
<1>a. \A i \in Repro : Done(i - N) => Done(i - N)' /\ result'[i - N] = result[i - N]
  <2>1. \A j \in Items : Done(j) => Done(j)' /\ result'[j] = result[j]
    BY DoneStays DEF Done, Frozen
  <2> QED BY <2>1, ItemSets
\* Nothing changed for the item itself.
<1>b. ASSUME NEW i \in Repro, comparison'[i] = comparison[i], env'[i].status = env[i].status,
             result'[i] = result[i]
      PROVE  Pass(i)'
  BY <1>0, <1>a, <1>b
<1> USE DEF TypeOK, files, local, Goto
<1>1. CASE Outside
  <2>1. pc' \notin Working /\ UNCHANGED <<env, result, marker, comparison>>
    BY <1>1, OutsideStep
  <2>2. \A i \in Repro : Pass(i)'
    BY <1>b, <2>1
  <2> QED BY <2>1, <2>2 DEF Working
<1>2. CASE Adopt \/ AdoptPhase
  <2>1. UNCHANGED <<env, result, marker, comparison, pc, at, got>>
        /\ (phase = "REPRODUCTION_RUNNING" => phase' = phase)
    BY <1>2 DEF Adopt, AdoptPhase
  <2>2. \A i \in Repro : Pass(i)'
    BY <1>b, <2>1
  <2> QED BY <1>0, <2>1, <2>2
<1> USE DEF Working, Attempting, Committing
<1>3. ASSUME NEW i \in Items, Skip(i) \/ Refuse(i) \/ Raise(i) \/ CommitMarker(i)
      PROVE  InStep' /\ \A j \in Repro : Pass(j)'
  <2>1. UNCHANGED <<env, result, comparison>> /\ pc' \in {"loop", "release"}
    BY <1>3 DEF Skip, Refuse, Raise, CommitMarker, InLoop
  <2>2. \A j \in Repro : Pass(j)'
    BY <1>b, <2>1
  <2> QED BY <2>1, <2>2
<1>4. ASSUME NEW i \in Items, Finalize(i) PROVE InStep' /\ \A j \in Repro : Pass(j)'
  <2>1. UNCHANGED <<env, result, marker, comparison, at, phase>> /\ pc' = "result"
        /\ at = i /\ got' = result[i] /\ comparison[i] = "PASS" /\ i \in Repro
        /\ phase = "REPRODUCTION_RUNNING"
    BY <1>4, ItemSets DEF Finalize, InLoop, Finalizable, Passed
  <2>2. \A j \in Repro : Pass(j)'
    BY <1>b, <2>1
  <2> QED BY <1>0, <2>1, <2>2
<1>5. ASSUME NEW i \in Items, Begin(i) PROVE InStep' /\ \A j \in Repro : Pass(j)'
  <2>1. UNCHANGED <<result, marker, comparison, phase>> /\ pc' = "execute"
        /\ at' = i /\ at = i /\ env[i].status \in {"none", "FAILED"}
        /\ (i \in Repro => phase = "REPRODUCTION_RUNNING")
        /\ \A j \in Items \ {i} : env'[j] = env[j]
    BY <1>5, ItemSets DEF Begin, InLoop, Startable
  <2>2. i \in Repro => comparison[i] # "PASS"
    BY <1>0, <2>1
  <2>3. \A j \in Repro : Pass(j)'
    BY <1>b, <2>1, <2>2, ItemSets
  <2> QED BY <2>1, <2>2, <2>3
<1>6. ASSUME NEW i \in Items, Succeed(i) PROVE InStep' /\ \A j \in Repro : Pass(j)'
  <2>1. UNCHANGED <<env, result, marker, comparison, phase>>
        /\ at' = i /\ at = i /\ pc = "execute"
        /\ (i \in Repro => pc' = "persist") /\ (i \in Primary => pc' = "result")
    BY <1>6, ItemSets DEF Succeed
  <2>2. \A j \in Repro : Pass(j)'
    BY <1>b, <2>1
  <2> QED BY <1>0, <2>1, <2>2, ItemSets
<1>7. ASSUME NEW i \in Items, Fail(i) \/ Mismatch(i) PROVE InStep' /\ \A j \in Repro : Pass(j)'
  <2>1. UNCHANGED <<result, marker, comparison, phase>> /\ pc' \in {"block", "loop"}
        /\ at = i /\ pc \in Attempting /\ \A j \in Items \ {i} : env'[j] = env[j]
    BY <1>7 DEF Fail, Mismatch, Failed
  <2>2. i \in Repro => comparison[i] # "PASS"
    BY <1>0, <2>1
  <2>3. \A j \in Repro : Pass(j)'
    BY <1>b, <2>1, <2>2, ItemSets
  <2> QED BY <2>1, <2>3
<1>8. ASSUME NEW i \in Items, CommitResult(i) PROVE InStep' /\ \A j \in Repro : Pass(j)'
  <2>1. UNCHANGED <<env, marker, comparison, phase, at, got>> /\ pc = "result"
        /\ pc' = "succeeded" /\ at = i /\ result'[i] = got
        /\ \A j \in Items \ {i} : result'[j] = result[j]
    BY <1>8 DEF CommitResult
  <2>2. i \in Repro => result'[i] = result[i - N] /\ comparison[i] = "PASS"
    BY <1>0, <2>1
  <2>3. \A j \in Repro : Pass(j)'
    <3> SUFFICES ASSUME NEW j \in Repro PROVE Pass(j)'
      OBVIOUS
    <3>1. CASE j = i
      BY <1>0, <1>a, <2>1, <2>2, <3>1
    <3>2. CASE j # i
      BY <1>b, <2>1, <3>2, ItemSets
    <3> QED BY <3>1, <3>2
  <2> QED BY <1>0, <2>1, <2>2, <2>3, ItemSets
<1>9. ASSUME NEW i \in Items, CommitEnvelope(i) PROVE InStep' /\ \A j \in Repro : Pass(j)'
  <2>1. UNCHANGED <<result, marker, comparison, phase, at, got>> /\ pc = "succeeded"
        /\ pc' = "marker" /\ at = i /\ env'[i].status = "SUCCEEDED"
        /\ \A j \in Items \ {i} : env'[j] = env[j]
    BY <1>9 DEF CommitEnvelope
  <2>2. \A j \in Repro : Pass(j)'
    <3> SUFFICES ASSUME NEW j \in Repro PROVE Pass(j)'
      OBVIOUS
    <3>1. CASE j = i
      BY <1>0, <1>a, <2>1, <3>1
    <3>2. CASE j # i
      BY <1>b, <2>1, <3>2, ItemSets
    <3> QED BY <3>1, <3>2
  <2> QED BY <1>0, <2>1, <2>2
<1>10. ASSUME NEW i \in Items, Persist(i) PROVE InStep' /\ \A j \in Repro : Pass(j)'
  <2>1. UNCHANGED <<env, marker, comparison, phase, at, got>> /\ pc = "persist"
        /\ pc' = "compare" /\ at = i /\ \A j \in Items \ {i} : result'[j] = result[j]
    BY <1>10 DEF Persist
  <2>2. i \in Repro => comparison[i] # "PASS"
    BY <1>0, <2>1
  <2>3. \A j \in Repro : Pass(j)'
    BY <1>b, <2>1, <2>2, ItemSets
  <2> QED BY <1>0, <2>1, <2>2, <2>3
<1>11. ASSUME NEW i \in Items, Compare(i) PROVE InStep' /\ \A j \in Repro : Pass(j)'
  <2>1. UNCHANGED <<env, result, marker, phase, at, got>> /\ pc = "compare" /\ at = i
        /\ i \in Repro /\ result[i] = got /\ env[i].status = "RUNNING"
        /\ phase = "REPRODUCTION_RUNNING"
        /\ \A j \in Items \ {i} : comparison'[j] = comparison[j]
    BY <1>0, <1>11 DEF Compare, InHand
  <2>2. \/ got = result[i - N] /\ comparison'[i] = "PASS" /\ pc' = "result"
        \/ comparison'[i] # "PASS" /\ pc' = "mismatch"
    BY <1>11 DEF Compare
  <2>3. Done(i - N)
    BY <2>1, ItemSets DEF Progress, PrimaryOver, PrimaryDone, Done
  <2>4. \A j \in Repro : Pass(j)'
    <3> SUFFICES ASSUME NEW j \in Repro PROVE Pass(j)'
      OBVIOUS
    <3>1. CASE j = i
      BY <1>a, <2>1, <2>2, <2>3, <3>1
    <3>2. CASE j # i
      BY <1>b, <2>1, <3>2, ItemSets
    <3> QED BY <3>1, <3>2
  <2> QED BY <2>1, <2>2, <2>4
<1>12. CASE UNCHANGED vars
  <2>1. UNCHANGED <<env, result, marker, comparison, pc, at, got, phase>>
    BY <1>12 DEF vars
  <2>2. \A i \in Repro : Pass(i)'
    BY <1>b, <2>1
  <2> QED BY <1>0, <2>1, <2>2
<1> QED BY <1>1, <1>2, <1>3, <1>4, <1>5, <1>6, <1>7, <1>8, <1>9, <1>10, <1>11, <1>12
        DEF Next, Step, PhaseStep, Outside

-------------------------------------------------------------------------------
(* The phase never runs ahead of the evidence.                               *)
LEMMA ProgressStep ==
    ASSUME TypeOK, InHand, Agreement, Progress, Frozen, [Next]_vars
    PROVE  Progress'
<1> DEFINE AllEarned == \A i \in Repro : Earned(i)
           SoFar == \A i \in Repro : i < at => Earned(i)
           Looping == Working \cup {"loop"}
\* What is earned stays earned once the primary items are done.
<1>a. /\ PrimaryDone => PrimaryDone'
      /\ PrimaryDone => \A i \in Repro : Earned(i) => Earned(i)'
  BY DoneStays, ItemSets DEF PrimaryDone, Done
<1>b. phase \in PrimaryOver => PrimaryDone
  BY DEF Progress
<1> USE DEF TypeOK, files, local, Goto, PrimaryOver
\* The phase stays and the runner is in no loop, or as far in it as before.
<1>c. ASSUME phase' = phase, pc' # "complete" \/ pc' = pc,
             pc' \notin Looping \/ (pc \in Looping /\ at' = at)
      PROVE  Progress'
  BY <1>a, <1>b, <1>c DEF Progress
<1>1. CASE Start \/ Acquire \/ WriteLock \/ Release \/ Crash
  <2>1. phase' = phase /\ pc' \in {"lock", "lockwrite", "envelope", "idle"}
    BY <1>1 DEF Start, Acquire, WriteLock, Release, Crash
  <2> QED BY <1>c, <2>1 DEF Working, Attempting, Committing
<1>2. CASE WriteEnvelope
  <2>1. pc' = "dispatch" /\ (phase' = phase \/ phase' = "PLANNED")
    BY <1>2 DEF WriteEnvelope
  <2>2. CASE phase' = phase
    BY <1>c, <2>1, <2>2 DEF Working, Attempting, Committing
  <2>3. CASE phase' = "PLANNED"
    BY <2>1, <2>3 DEF Progress
  <2> QED BY <2>1, <2>2, <2>3
<1>3. CASE Adopt
  BY <1>3, <1>c DEF Adopt
<1>4. CASE AdoptPhase
  <2>1. /\ PrimaryDone /\ pc' = pc
        /\ phase \in {"PLANNED", "PRIMARY_EVIDENCE_COMPLETE"}
        /\ phase' \in {"PRIMARY_EVIDENCE_COMPLETE", "PRIMARY_COMPLETE"}
    BY <1>4 DEF AdoptPhase
  <2>2. pc = "complete" => R = 0
    BY <2>1 DEF Progress
  <2> QED BY <1>a, <2>1, <2>2 DEF Progress
\* Where a legal move leads, and what stays as it was otherwise.
<1>5. ASSUME NEW to, NEW step, Move(to, step)
      PROVE  \/ phase' = to /\ pc' = step /\ (to = phase \/ to \in Legal(phase))
             \/ phase' = phase /\ pc' = "release"
  BY <1>5 DEF Move
<1>6. ASSUME phase' = phase, pc' \in {"release", "count", "reproduce"} PROVE Progress'
  BY <1>c, <1>6 DEF Working, Attempting, Committing
<1>7. ASSUME phase' = "BLOCKED", pc' = "release" PROVE Progress'
  BY <1>7 DEF Progress, Working, Attempting, Committing
<1>8. CASE Dispatch
  <2>1. CASE phase \in Terminal /\ Move(phase, "release")
    BY <1>5, <1>6, <2>1
  <2>2. CASE Move("PRIMARY_RUNNING", "loop")
    <3>1. CASE phase' = "PRIMARY_RUNNING" /\ pc' = "loop"
      BY <3>1 DEF Progress
    <3> QED BY <1>5, <1>6, <2>2, <3>1
  <2>3. CASE Move(phase, "count")
    BY <1>5, <1>6, <2>3
  <2> QED BY <1>8, <2>1, <2>2, <2>3 DEF Dispatch
<1>9. CASE Count
  <2>1. CASE Move(phase, "release") \/ Move(phase, "reproduce")
    BY <1>5, <1>6, <2>1
  <2>2. CASE Move("BLOCKED", "release")
    BY <1>5, <1>6, <1>7, <2>2
  <2>3. CASE PrimaryDone /\ Move("PRIMARY_COMPLETE", "reproduce")
    <3>1. CASE phase' = "PRIMARY_COMPLETE" /\ pc' = "reproduce"
      BY <1>a, <2>3, <3>1 DEF Progress, Working, Attempting, Committing
    <3> QED BY <1>5, <1>6, <2>3, <3>1
  <2> QED BY <1>9, <2>1, <2>2, <2>3 DEF Count
<1>10. CASE Reproduce
  <2>1. at' = N + 1
    BY <1>10 DEF Reproduce
  <2>2. CASE (R = 0 \/ phase = "REPRODUCTION_COMPLETE") /\ Move(phase, "complete")
    <3>1. CASE phase' = phase /\ pc' = "complete"
      BY <1>a, <1>b, <2>2, <3>1 DEF Progress, Working, Attempting, Committing
    <3> QED BY <1>5, <1>6, <2>2, <3>1
  <2>3. CASE phase = "PRIMARY_COMPLETE" /\ Move("REPRODUCTION_PLANNED", "reproduce")
    <3>1. CASE phase' = "REPRODUCTION_PLANNED" /\ pc' = "reproduce"
      BY <1>a, <1>b, <2>3, <3>1 DEF Progress, Working, Attempting, Committing
    <3> QED BY <1>5, <1>6, <2>3, <3>1
  <2>4. CASE phase \in {"REPRODUCTION_PLANNED", "REPRODUCTION_RUNNING"}
             /\ Move("REPRODUCTION_RUNNING", "loop")
    <3>1. CASE phase' = "REPRODUCTION_RUNNING" /\ pc' = "loop"
      <4>1. \A i \in Repro : ~(i < at')
        BY <2>1, ItemSets
      <4> QED BY <1>a, <1>b, <2>4, <3>1, <4>1 DEF Progress
    <3> QED BY <1>5, <1>6, <2>4, <3>1
  <2>5. CASE Move(phase, "release")
    BY <1>5, <1>6, <2>5
  <2> QED BY <1>10, <2>2, <2>3, <2>4, <2>5 DEF Reproduce
<1>11. CASE Complete
  <2>1. pc = "complete" /\ Move("COMPLETED", "release")
    BY <1>11 DEF Complete
  <2>2. CASE phase' = "COMPLETED" /\ pc' = "release" /\ (phase = "COMPLETED" \/ "COMPLETED" \in Legal(phase))
    <3>1. phase \in {"COMPLETED", "PRIMARY_COMPLETE", "REPRODUCTION_COMPLETE"}
      BY <2>2 DEF Legal
    <3>2. PrimaryDone /\ (R = 0 \/ \A i \in Repro : Earned(i))
      BY <1>b, <2>1, <3>1 DEF Progress
    <3>3. \A i \in Repro : Earned(i)'
      BY <1>a, <3>2, ItemSets
    <3> QED BY <1>a, <2>2, <3>2, <3>3 DEF Progress, Working, Attempting, Committing
  <2> QED BY <1>5, <1>6, <2>1, <2>2
<1>12. CASE Block
  BY <1>5, <1>6, <1>7, <1>12 DEF Block
<1>13. CASE LoopEnd
  <2>1. CASE Move(phase, "count")
    BY <1>5, <1>6, <2>1
  <2>2. CASE pc = "loop" /\ at = N + R + 1 /\ phase = "REPRODUCTION_RUNNING"
             /\ Move("REPRODUCTION_COMPLETE", "complete")
    <3>1. CASE phase' = "REPRODUCTION_COMPLETE" /\ pc' = "complete"
      <4>1. \A i \in Repro : Earned(i)'
        BY <1>a, <1>b, <2>2, ItemSets DEF Progress
      <4> QED BY <1>a, <1>b, <2>2, <3>1, <4>1 DEF Progress, Working, Attempting, Committing
    <3> QED BY <1>5, <1>6, <2>2, <3>1
  <2> QED BY <1>13, <2>1, <2>2 DEF LoopEnd
<1> USE DEF Working, Attempting, Committing
\* The item just handled is earned, if it is a reproduction.
<1>14. ASSUME NEW i \in Items, pc \in Looping, at = i, at' = i + 1, pc' = "loop", phase' = phase,
              i \in Primary \/ phase # "REPRODUCTION_RUNNING" \/ Earned(i)'
       PROVE  Progress'
  <2>1. ASSUME phase = "REPRODUCTION_RUNNING", NEW j \in Repro, j < at' PROVE Earned(j)'
    <3>1. j < at \/ j = i
      BY <1>14, <2>1, ItemSets
    <3>2. CASE j < at
      BY <1>a, <1>b, <1>14, <2>1, <3>2 DEF Progress
    <3>3. CASE j = i
      BY <1>14, <2>1, <3>3, ItemSets
    <3> QED BY <3>1, <3>2, <3>3
  <2> QED BY <1>a, <1>b, <1>14, <2>1 DEF Progress
<1>15. ASSUME NEW i \in Items, Skip(i) PROVE Progress'
  <2>1. pc = "loop" /\ pc' = "loop" /\ at = i /\ at' = i + 1 /\ phase' = phase
    BY <1>15 DEF Skip, InLoop
  <2>2. i \in Repro => Earned(i) /\ Done(i - N)
    BY <1>15 DEF Skip, Skippable, Passed, Earned, Done, Agreement
  <2>3. i \in Repro => Earned(i)'
    BY <2>2, DoneStays
  <2> QED BY <1>14, <2>1, <2>3, ItemSets
<1>16. ASSUME NEW i \in Items, CommitMarker(i) PROVE Progress'
  <2>1. pc = "marker" /\ pc' = "loop" /\ at = i /\ at' = i + 1 /\ phase' = phase
        /\ UNCHANGED <<env, result>> /\ marker'[i]
    BY <1>16 DEF CommitMarker
  <2>2. i \in Repro => result[i] = result[i - N]
    BY <2>1 DEF Agreement
  <2>3. i \in Repro => Earned(i)'
    BY <2>1, <2>2, CampaignAssumption DEF InHand, Earned, Done, Whole
  <2> QED BY <1>14, <2>1, <2>3, ItemSets
<1>17. ASSUME NEW i \in Items, Fail(i) PROVE Progress'
  <2>1. phase' = phase /\ pc = "execute" /\ at = i
        /\ (pc' = "block" \/ (i \in Primary /\ pc' = "loop" /\ at' = i + 1))
    BY <1>17, ItemSets DEF Fail
  <2> QED BY <1>14, <1>c, <2>1
<1>18. ASSUME NEW i \in Items, Finalize(i) \/ Begin(i) \/ Refuse(i) \/ Succeed(i) \/ Raise(i)
                 \/ CommitResult(i) \/ CommitEnvelope(i) \/ Persist(i) \/ Compare(i) \/ Mismatch(i)
       PROVE  Progress'
  <2>1. /\ phase' = phase /\ at' = at /\ pc \in Looping
        /\ pc' \in Working \cup {"release", "block"}
    BY <1>18 DEF Finalize, Begin, Refuse, Succeed, Raise, CommitResult, CommitEnvelope, Persist,
                 Compare, Mismatch, InLoop
  <2> QED BY <1>c, <2>1
<1>19. CASE UNCHANGED vars
  BY <1>c, <1>19 DEF vars
<1> QED BY <1>1, <1>2, <1>3, <1>4, <1>8, <1>9, <1>10, <1>11, <1>12, <1>13, <1>15, <1>16, <1>17,
           <1>18, <1>19 DEF Next, Step

-------------------------------------------------------------------------------
(* A new namespace, and one with the complete primary results of an older    *)
(* runner, satisfy the invariant.                                            *)
LEMMA InitInv == Init /\ TypeOK => IInv
<1> SUFFICES ASSUME Init, TypeOK PROVE IInv
  OBVIOUS
<1>1. pc = "idle" /\ started = [i \in Items |-> 0] /\ comparison = [i \in Items |-> "none"]
      /\ phase \in {"none", "PLANNED"}
  BY DEF Init
<1>2. InHand /\ Progress
  BY <1>1 DEF InHand, Progress, PrimaryOver, Working, Attempting, Committing
<1>3. Agreement
  BY <1>1, ItemSets DEF Agreement, Working, Attempting, Committing
<1>4. Counted
  <2>1. CASE env = [i \in Items |-> NoEnvelope]
    BY <1>1, <2>1, CampaignAssumption DEF Counted, NoEnvelope
  <2>2. ASSUME NEW r \in [Primary -> Results],
               env = [i \in Items |-> IF i \in Primary
                         THEN [status |-> "SUCCEEDED", attempt |-> 1, fp |-> r[i]]
                         ELSE NoEnvelope]
        PROVE  Counted
    <3> SUFFICES ASSUME NEW i \in Items
                 PROVE  /\ started[i] <= env[i].attempt /\ env[i].attempt <= MaxAttempts
                        /\ env[i].status = "none" => env[i].attempt = 0
      BY DEF Counted
    <3>1. CASE i \in Primary
      BY <1>1, <2>2, <3>1, CampaignAssumption
    <3>2. CASE i \notin Primary
      BY <1>1, <2>2, <3>2, CampaignAssumption DEF NoEnvelope
    <3> QED BY <3>1, <3>2
  <2> QED BY <2>1, <2>2 DEF Init
<1> QED BY <1>2, <1>3, <1>4 DEF IInv

(* The inductive invariant, over crashes between any two writes.             *)
THEOREM Recoverable == Spec => []IInv
<1>1. IInv /\ [Next]_vars => IInv'
  <2> SUFFICES ASSUME IInv, [Next]_vars PROVE IInv'
    OBVIOUS
  <2>1. Frozen
    BY FrozenStep DEF IInv
  <2> QED BY <2>1, TypeStep, CountedStep, InHandStep, AgreementStep, ProgressStep DEF IInv
<1> QED BY <1>1, InitInv, TypeCorrect, PTL DEF Spec

(* COMPLETED is earned: every primary result whole, every reproduction of    *)
(* the sample whole and equal to it, whatever crashes, resumes and adoptions *)
(* came before.                                                              *)
THEOREM CompletionEarned == Spec => []CompletedEarned
<1>1. IInv => CompletedEarned
  BY DEF IInv, Progress, PrimaryOver, CompletedEarned, Earned, Done
<1> QED BY <1>1, Recoverable, PTL

(* No item is executed more often than max_attempts_per_run, over all        *)
(* restarts together.                                                        *)
THEOREM BudgetKept == Spec => []AttemptsBounded
<1>1. IInv => AttemptsBounded
  <2> SUFFICES ASSUME IInv, NEW i \in Items PROVE started[i] <= MaxAttempts
    BY DEF AttemptsBounded
  <2>1. started[i] \in Nat /\ env[i].attempt \in Nat /\ MaxAttempts \in Nat
    BY CampaignAssumption DEF IInv, TypeOK
  <2> QED BY <2>1 DEF IInv, Counted
<1> QED BY <1>1, Recoverable, PTL

(* Evidence is written once.                                                 *)
THEOREM EvidenceWrittenOnce == Spec => EvidenceFrozen
<1>1. IInv /\ [Next]_vars =>
        [\A i \in Items : env[i].status = "SUCCEEDED" =>
            env'[i] = env[i] /\ result'[i] = result[i]]_vars
  BY FrozenStep DEF IInv, Frozen
<1> QED BY <1>1, Recoverable, PTL DEF Spec, EvidenceFrozen
===============================================================================

------------------------------- MODULE Campaign -------------------------------
(***************************************************************************)
(* The sensitivity campaign of tools/arvp_vacation: execute_campaign runs  *)
(* every primary item, re-runs a sample of them and compares, and moves    *)
(* the campaign through its phases.  Everything that survives is a file    *)
(* replaced atomically: the lock, the campaign envelope with the phase and,*)
(* for each item, its envelope, result, marker and comparison.  The runner *)
(* may die between any two writes and is then started again; the adoption  *)
(* tool may run at any time beside it.  Fingerprints of the same           *)
(* authorization always match and are left out; a result is what the       *)
(* comparison can tell apart.  One runner at a time: a second one would be *)
(* let in by the lock (see Acquire), and is outside this model.            *)
(***************************************************************************)
EXTENDS Integers, FiniteSets

CONSTANTS
    N,              \* the number of run keys
    R,              \* the number of those that are reproduced, the first ones
    Results,        \* what an execution may yield
    MaxAttempts,    \* max_attempts_per_run
    MaxStreak,      \* max_consecutive_failures
    MaxFailures,    \* max_total_failures
    MaxCrashes      \* bound on crashes

NoResult == "none"

\* validate_resource_budget, build_reproduction_plan; a fingerprint is never absent.
ASSUME CampaignAssumption ==
    /\ NoResult \notin Results
    /\ N \in Nat \ {0} /\ R \in 0 .. N
    /\ MaxAttempts \in Nat \ {0} /\ MaxStreak \in Nat \ {0}
    /\ MaxFailures \in Nat /\ MaxStreak <= MaxFailures /\ MaxCrashes \in Nat

\* An item is a run key, or N more than the run key it reproduces.
Primary == 1 .. N
Repro == N + 1 .. N + R
Items == Primary \cup Repro

VARIABLES
    lock,           \* .campaign.lock: absent, created but empty, or written
    phase,          \* campaign_phase, "none" before the envelope is written
    inventory,      \* primary_evidence_inventory.json exists
    env,            \* run_envelope.json: status, attempt and result_fingerprint
    result, marker, comparison,     \* the other files of an item
    pc, at, got,    \* of the runner: step, item, result in hand,
    streak, failures,               \* consecutive_failures, total_failures
    crashes,
    started         \* history: executions begun, for each item

files == <<lock, phase, inventory, env, result, marker, comparison>>
local == <<at, got, streak, failures>>
vars == <<files, pc, local, crashes, started>>

NoEnvelope == [status |-> "none", attempt |-> 0, fp |-> NoResult]

\* A new namespace, or the complete primary results of a runner from before
\* there were phases.
Init ==
    /\ lock = "none" /\ inventory = FALSE /\ crashes = 0
    /\ \/ /\ phase = "none"
          /\ env = [i \in Items |-> NoEnvelope]
          /\ result = [i \in Items |-> NoResult]
          /\ marker = [i \in Items |-> FALSE]
       \/ /\ phase = "PLANNED"
          /\ \E r \in [Primary -> Results] :
                /\ env = [i \in Items |-> IF i \in Primary
                             THEN [status |-> "SUCCEEDED", attempt |-> 1, fp |-> r[i]]
                             ELSE NoEnvelope]
                /\ result = [i \in Items |-> IF i \in Primary THEN r[i] ELSE NoResult]
          /\ marker = [i \in Items |-> i \in Primary]
    /\ comparison = [i \in Items |-> "none"]
    /\ pc = "idle" /\ at = 1 /\ got = NoResult /\ streak = 0 /\ failures = 0
    /\ started = [i \in Items |-> 0]

Goto(step) == pc' = step

-------------------------------------------------------------------------------
(* The lock and the phase *)

\* The checks of the authorization and the budget come before any file is touched.
Start ==
    /\ pc = "idle" /\ Goto("lock")
    /\ streak' = 0 /\ failures' = 0
    /\ UNCHANGED <<files, at, got, crashes, started>>

\* acquire_campaign_lock: the token is the fingerprint of the authorization,
\* which also names the directory, so every runner here has the same one.
Acquire ==
    /\ pc = "lock"
    /\ \/ lock = "none" /\ lock' = "empty" /\ Goto("lockwrite")
       \/ lock = "token" /\ lock' = lock /\ Goto("envelope")
       \/ lock = "empty" /\ lock' = lock /\ Goto("idle")
    /\ UNCHANGED <<phase, inventory, env, result, marker, comparison, local, crashes, started>>

WriteLock ==
    /\ pc = "lockwrite"
    /\ \/ lock' = "token" /\ Goto("envelope")
       \/ lock' = "none" /\ Goto("idle")
    /\ UNCHANGED <<phase, inventory, env, result, marker, comparison, local, crashes, started>>

\* write_campaign_envelope
WriteEnvelope ==
    /\ pc = "envelope" /\ Goto("dispatch")
    /\ phase' = IF phase = "none" THEN "PLANNED" ELSE phase
    /\ UNCHANGED <<lock, inventory, env, result, marker, comparison, local, crashes, started>>

\* release_campaign_lock; an empty lock raises and stays.
Release ==
    /\ pc = "release" /\ Goto("idle")
    /\ lock' = IF lock = "token" THEN "none" ELSE lock
    /\ UNCHANGED <<phase, inventory, env, result, marker, comparison, local, crashes, started>>

Terminal == {"COMPLETED", "BLOCKED"}

Legal(from) ==
    CASE from = "PLANNED" -> {"PRIMARY_RUNNING", "PRIMARY_EVIDENCE_COMPLETE", "BLOCKED"}
      [] from = "PRIMARY_RUNNING" -> {"PRIMARY_COMPLETE", "BLOCKED"}
      [] from = "PRIMARY_EVIDENCE_COMPLETE" -> {"PRIMARY_COMPLETE", "BLOCKED"}
      [] from = "PRIMARY_COMPLETE" -> {"REPRODUCTION_PLANNED", "COMPLETED", "BLOCKED"}
      [] from = "REPRODUCTION_PLANNED" -> {"REPRODUCTION_RUNNING", "BLOCKED"}
      [] from = "REPRODUCTION_RUNNING" -> {"REPRODUCTION_COMPLETE", "BLOCKED"}
      [] from = "REPRODUCTION_COMPLETE" -> {"COMPLETED", "BLOCKED"}
      [] OTHER -> {}

\* update_campaign_phase: raises, and the runner leaves, on an illegal transition.
Move(to, step) ==
    /\ IF to = phase \/ to \in Legal(phase)
       THEN phase' = to /\ Goto(step)
       ELSE phase' = phase /\ Goto("release")
    /\ UNCHANGED <<lock, inventory, env, result, marker, comparison, got, streak, failures,
                   crashes, started>>

\* The result and the marker that a SUCCEEDED envelope needs are there.
Whole(i) == marker[i] /\ result[i] # NoResult /\ result[i] = env[i].fp

\* count_primary_succeeded: a SUCCEEDED item that is not whole raises.
PrimaryPartial == \E i \in Primary : env[i].status = "SUCCEEDED" /\ ~Whole(i)
PrimaryDone == \A i \in Primary : env[i].status = "SUCCEEDED" /\ Whole(i)

\* execute_campaign up to the first loop
Dispatch ==
    /\ pc = "dispatch"
    /\ \/ phase \in Terminal /\ at' = at /\ Move(phase, "release")
       \/ phase \in {"PLANNED", "PRIMARY_RUNNING"} /\ at' = 1
          /\ Move("PRIMARY_RUNNING", "loop")
       \/ phase \notin Terminal \cup {"PLANNED", "PRIMARY_RUNNING"} /\ at' = at
          /\ Move(phase, "count")

\* The count after the primary loop, and on a resume past it
Count ==
    /\ pc = "count" /\ at' = at
    /\ \/ PrimaryPartial /\ Move(phase, "release")
       \/ ~PrimaryPartial /\ ~PrimaryDone /\ Move("BLOCKED", "release")
       \/ /\ PrimaryDone
          /\ CASE phase = "PRIMARY_RUNNING" -> Move("PRIMARY_COMPLETE", "reproduce")
               [] phase = "PRIMARY_EVIDENCE_COMPLETE" ->
                     IF inventory THEN Move("PRIMARY_COMPLETE", "reproduce")
                                  ELSE Move(phase, "release")
               [] OTHER -> Move(phase, "reproduce")

\* The phases of the reproduction, one write at a time; none when it is disabled
Reproduce ==
    /\ pc = "reproduce"
    /\ at' = N + 1
    /\ CASE R = 0 -> Move(phase, "complete")
         [] phase = "PRIMARY_COMPLETE" -> Move("REPRODUCTION_PLANNED", "reproduce")
         [] phase \in {"REPRODUCTION_PLANNED", "REPRODUCTION_RUNNING"} ->
               Move("REPRODUCTION_RUNNING", "loop")
         [] phase = "REPRODUCTION_COMPLETE" -> Move(phase, "complete")
         [] OTHER -> Move(phase, "release")

\* COMPLETED; the hand-off for delivery that follows touches none of these files.
Complete == pc = "complete" /\ at' = at /\ Move("COMPLETED", "release")

Block == pc = "block" /\ at' = at /\ Move("BLOCKED", "release")

-------------------------------------------------------------------------------
(* The loops over the items *)

\* inspect_run_for_resume and inspect_reproduction_for_resume

\* Mutation: a failed comparison counts as one that was made.
Compared(i) == comparison[i] # "none"

\* The comparison a reproduction needs.
Passed(i) == comparison[i] = "PASS"

Skippable(i) ==
    env[i].status = "SUCCEEDED" /\ Whole(i) /\ (i \in Repro => Passed(i))

Finalizable(i) ==
    /\ i \in Repro /\ env[i].status = "RUNNING"
    /\ result[i] # NoResult /\ Passed(i)

\* Mutation: the last attempt counted as one still to be had.
OneMore(i) == env[i].attempt <= MaxAttempts

Retriable(i) == env[i].attempt < MaxAttempts

\* Mutation: a SUCCEEDED item without its marker is run again.
RunAgain(i) ==
    env[i].status = "none" \/ (env[i].status \in {"FAILED", "SUCCEEDED"} /\ Retriable(i))

Startable(i) == env[i].status = "none" \/ (env[i].status = "FAILED" /\ Retriable(i))

LoopEnd ==
    /\ pc = "loop" /\ at' = at
    /\ \/ at = N + 1 /\ phase = "PRIMARY_RUNNING" /\ Move(phase, "count")
       \/ at = N + R + 1 /\ phase = "REPRODUCTION_RUNNING"
          /\ Move("REPRODUCTION_COMPLETE", "complete")

InLoop(i) ==
    /\ pc = "loop" /\ at = i
    /\ i \in Primary \/ phase = "REPRODUCTION_RUNNING"

Skip(i) ==
    /\ InLoop(i) /\ Skippable(i)
    /\ at' = i + 1
    /\ UNCHANGED <<files, pc, got, streak, failures, crashes, started>>

\* The crash window between a PASS comparison and the success marker.
Finalize(i) ==
    /\ InLoop(i) /\ Finalizable(i)
    /\ got' = result[i] /\ Goto("result")
    /\ UNCHANGED <<files, at, streak, failures, crashes, started>>

\* The RUNNING envelope; a retry counts on from the envelope before.
Begin(i) ==
    /\ InLoop(i) /\ Startable(i)
    /\ env' = [env EXCEPT ![i] =
                  [status |-> "RUNNING", attempt |-> env[i].attempt + 1, fp |-> NoResult]]
    /\ started' = [started EXCEPT ![i] = @ + 1]
    /\ Goto("execute")
    /\ UNCHANGED <<lock, phase, inventory, result, marker, comparison, local, crashes>>

\* Nothing else can be resumed: RUNNING, a partial success, a spent item. An
\* authorization that has expired before an attempt ends the runner likewise.
Refuse(i) ==
    /\ InLoop(i) /\ ~Skippable(i) /\ ~Finalizable(i)
    /\ Goto("release")
    /\ UNCHANGED <<files, local, crashes, started>>

\* The executor returns a result, or raises.
Succeed(i) ==
    /\ pc = "execute" /\ at = i
    /\ \E r \in Results : got' = r
    /\ streak' = IF i \in Primary THEN 0 ELSE streak
    /\ Goto(IF i \in Primary THEN "result" ELSE "persist")
    /\ UNCHANGED <<files, at, failures, crashes, started>>

Raise(i) ==
    /\ pc = "execute" /\ at = i /\ Goto("release")
    /\ UNCHANGED <<files, local, crashes, started>>

Failed(i) == [env EXCEPT ![i].status = "FAILED"]

\* An exit code other than 0: assert_failure_thresholds for a primary item, the
\* end of the campaign for a reproduction.
Fail(i) ==
    /\ pc = "execute" /\ at = i
    /\ env' = Failed(i)
    /\ IF i \in Primary
       THEN /\ streak' = streak + 1
            /\ failures' = failures + 1
       ELSE UNCHANGED <<streak, failures>>
    /\ IF i \in Repro \/ streak' >= MaxStreak \/ failures' >= MaxFailures
       THEN Goto("block") /\ at' = at
       ELSE Goto("loop") /\ at' = i + 1
    /\ UNCHANGED <<lock, phase, inventory, result, marker, comparison, got, crashes, started>>

\* commit_successful_result and its reproduction twin: result, envelope, marker.
CommitResult(i) ==
    /\ pc = "result" /\ at = i
    /\ result' = [result EXCEPT ![i] = got] /\ Goto("succeeded")
    /\ UNCHANGED <<lock, phase, inventory, env, marker, comparison, local, crashes, started>>

CommitEnvelope(i) ==
    /\ pc = "succeeded" /\ at = i
    /\ env' = [env EXCEPT ![i].status = "SUCCEEDED", ![i].fp = got] /\ Goto("marker")
    /\ UNCHANGED <<lock, phase, inventory, result, marker, comparison, local, crashes, started>>

CommitMarker(i) ==
    /\ pc = "marker" /\ at = i
    /\ marker' = [marker EXCEPT ![i] = TRUE] /\ Goto("loop")
    /\ at' = i + 1
    /\ UNCHANGED <<lock, phase, inventory, env, result, comparison, got, streak, failures,
                   crashes, started>>

\* persist_reproduction_result, while the envelope still says RUNNING
Persist(i) ==
    /\ pc = "persist" /\ at = i
    /\ result' = [result EXCEPT ![i] = got] /\ Goto("compare")
    /\ UNCHANGED <<lock, phase, inventory, env, marker, comparison, local, crashes, started>>

\* compare_reproduction_results with the primary result read back
Compare(i) ==
    /\ pc = "compare" /\ at = i
    /\ LET same == got = result[i - N]
       IN /\ comparison' = [comparison EXCEPT ![i] = IF same THEN "PASS" ELSE "MISMATCH"]
          /\ Goto(IF same THEN "result" ELSE "mismatch")
    /\ UNCHANGED <<lock, phase, inventory, env, result, marker, local, crashes, started>>

Mismatch(i) ==
    /\ pc = "mismatch" /\ at = i
    /\ env' = Failed(i) /\ Goto("block")
    /\ UNCHANGED <<lock, phase, inventory, result, marker, comparison, local, crashes, started>>

-------------------------------------------------------------------------------
(* Crashes and the adoption of older results *)

Crash ==
    /\ pc # "idle" /\ crashes < MaxCrashes
    /\ crashes' = crashes + 1 /\ Goto("idle")
    /\ UNCHANGED <<files, local, started>>

\* adopt_primary_evidence: the inventory, then the phase, then the promotion.
Adopt ==
    /\ PrimaryDone /\ ~inventory
    /\ phase \in {"PLANNED", "PRIMARY_EVIDENCE_COMPLETE", "PRIMARY_COMPLETE", "BLOCKED"}
    /\ inventory' = TRUE
    /\ UNCHANGED <<lock, phase, env, result, marker, comparison, pc, local, crashes, started>>

AdoptPhase ==
    /\ PrimaryDone /\ inventory
    /\ phase' = CASE phase = "PLANNED" -> "PRIMARY_EVIDENCE_COMPLETE"
                  [] phase = "PRIMARY_EVIDENCE_COMPLETE" -> "PRIMARY_COMPLETE"
                  [] OTHER -> phase
    /\ phase' # phase
    /\ UNCHANGED <<lock, inventory, env, result, marker, comparison, pc, local, crashes, started>>

Step ==
    \/ Acquire \/ WriteLock \/ WriteEnvelope \/ Release
    \/ Dispatch \/ Count \/ Reproduce \/ Complete \/ Block \/ LoopEnd
    \/ \E i \in Items :
          \/ Skip(i) \/ Finalize(i) \/ Begin(i) \/ Refuse(i)
          \/ Succeed(i) \/ Raise(i) \/ Fail(i)
          \/ CommitResult(i) \/ CommitEnvelope(i) \/ CommitMarker(i)
          \/ Persist(i) \/ Compare(i) \/ Mismatch(i)

Next ==
    \/ Start \/ Step \/ Crash
    \/ Adopt \/ AdoptPhase

Spec == Init /\ [][Next]_vars

-------------------------------------------------------------------------------
(* Properties *)

\* A COMPLETED campaign has earned it whatever crashes came before: every run
\* key has its whole primary result, and every reproduction of the sample is
\* whole and equal to the primary result it was compared with.
CompletedEarned ==
    phase = "COMPLETED" =>
       /\ PrimaryDone
       /\ \A i \in Repro : env[i].status = "SUCCEEDED" /\ Whole(i) /\ result[i] = result[i - N]

\* However often the runner dies and is started again, an item is never
\* executed more often than the budget allows.
AttemptsBounded == \A i \in Items : started[i] <= MaxAttempts

\* Evidence is written once: from the moment an item's envelope says SUCCEEDED
\* its result is never replaced by another.
EvidenceFrozen ==
    [][\A i \in Items : env[i].status = "SUCCEEDED" =>
          env'[i] = env[i] /\ result'[i] = result[i]]_vars
===============================================================================

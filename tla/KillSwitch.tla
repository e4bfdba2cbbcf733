------------------------------ MODULE KillSwitch ------------------------------
(***************************************************************************)
(* core/safety/kill_switch.py: the kill switch kept in one state file that *)
(* the risk service's endpoints write (services/risk/service.py) and risk  *)
(* and execution read with get_kill_switch_details(create_if_missing=False)*)
(*                                                                         *)
(* Requests run in threads of their own.  Every write goes through the one *)
(* temporary file <state>.tmp and a rename, so files are modelled as       *)
(* inodes: opening for writing truncates the inode the path names (or      *)
(* makes one), a rename moves the path, a descriptor keeps its inode.      *)
(***************************************************************************)
EXTENDS Naturals

CONSTANTS
    Callers,      \* request threads of the risk service
    Inodes,       \* file inodes
    None,         \* no inode: the path does not exist
    InitialFile,  \* possible contents of the state file at the start; None: no file
    WriteFaults,  \* TRUE: open, write or rename may fail
    MaxCalls      \* bound: requests in all

Contents == {"ACTIVE", "INACTIVE", "empty"}

ASSUME KillSwitchAssumption ==
    /\ None \notin Inodes /\ None \notin Contents
    /\ InitialFile \subseteq Contents \cup {None}
    /\ WriteFaults \in BOOLEAN /\ MaxCalls \in Nat

VARIABLES
    state,    \* the inode of the state file, or None
    tmp,      \* the inode of the temporary file, or None
    content,  \* inode -> what it holds; "empty" stands for any unparsable text
    kpc,       \* caller -> where it is
    op,       \* caller -> the content its request wants: ACTIVE or INACTIVE
    writing,  \* caller -> the content its _write_state writes
    fd,       \* caller -> the inode it has open
    calls,    \* requests so far
    overlap,  \* history: caller -> a deactivation ran during its request
    stuck,    \* history: an activation has returned and no deactivation began since
    clean     \* history: the file existed at the start and no write has failed

switchVars == <<state, tmp, content, kpc, op, writing, fd, calls, overlap, stuck, clean>>

-----------------------------------------------------------------------------
SwitchInit ==
    /\ \E c \in InitialFile, i \in Inodes :
          /\ state = IF c = None THEN None ELSE i
          /\ content = [j \in Inodes |-> IF j = i /\ c # None THEN c ELSE "empty"]
          /\ clean = (c # None)
    /\ tmp = None
    /\ kpc = [c \in Callers |-> "idle"]
    /\ op = [c \in Callers |-> "ACTIVE"]
    /\ writing = [c \in Callers |-> "ACTIVE"]
    /\ fd = [c \in Callers |-> None]
    /\ calls = 0
    /\ overlap = [c \in Callers |-> FALSE]
    /\ stuck = FALSE

\* Mutation: only the token ACTIVE reads as active.
ReadsActiveToken == state # None /\ content[state] = "ACTIVE"

\* _read_state: an empty or corrupt file and an unknown token read as active.
StoredActive(text) == text # "INACTIVE"

\* get_kill_switch_details(create_if_missing=False)[0]: so does a missing file.
ReadsActive == state = None \/ StoredActive(content[state])

Deactivating == \E c \in Callers : kpc[c] # "idle" /\ op[c] = "INACTIVE"

CallerAt(c, label) == kpc[c] = label
CallerGoto(c, label) == kpc' = [kpc EXCEPT ![c] = label]

\* Inodes that no path and no descriptor refers to.
Free == {i \in Inodes : i # state /\ i # tmp /\ \A c \in Callers : fd[c] # i}

\* POST /kill-switch/activate and /kill-switch/deactivate.
Request(c, want) ==
    /\ CallerAt(c, "idle") /\ calls < MaxCalls
    /\ calls' = calls + 1
    /\ op' = [op EXCEPT ![c] = want]
    /\ overlap' = [d \in Callers |->
                     IF d = c THEN Deactivating \/ want = "INACTIVE"
                     ELSE overlap[d] \/ want = "INACTIVE"]
    /\ stuck' = (stuck /\ want = "ACTIVE")
    /\ CallerGoto(c, "construct")
    /\ UNCHANGED <<state, tmp, content, writing, fd, clean>>

\* The test of _ensure_state_file_exists.
EnsureNeeded == state = None

\* KillSwitch.__init__: a missing file is first created INACTIVE.
Construct(c) ==
    /\ CallerAt(c, "construct")
    /\ CallerGoto(c, IF EnsureNeeded THEN "ensureOpen" ELSE "open")
    /\ writing' = [writing EXCEPT ![c] = IF EnsureNeeded THEN "INACTIVE" ELSE op[c]]
    /\ UNCHANGED <<state, tmp, content, op, fd, calls, overlap, stuck, clean>>

\* _write_state, open(temp_file, "w"): truncate the temporary file or make it.
Open(c, from, to) ==
    /\ CallerAt(c, from)
    /\ \E i \in IF tmp = None THEN Free ELSE {tmp} :
          /\ tmp' = i
          /\ fd' = [fd EXCEPT ![c] = i]
          /\ content' = [content EXCEPT ![i] = "empty"]
    /\ CallerGoto(c, to)
    /\ UNCHANGED <<state, op, writing, calls, overlap, stuck, clean>>

\* _write_state, write and close: the text reaches the inode at once.
Write(c, from, to) ==
    /\ CallerAt(c, from)
    /\ content' = [content EXCEPT ![fd[c]] = writing[c]]
    /\ fd' = [fd EXCEPT ![c] = None]
    /\ CallerGoto(c, to)
    /\ UNCHANGED <<state, tmp, op, writing, calls, overlap, stuck, clean>>

\* _write_state, temp_file.replace(state_file): renames whatever inode the
\* temporary path names by now; FileNotFoundError is swallowed.
Replace(c, from, to) ==
    /\ CallerAt(c, from)
    /\ state' = IF tmp = None THEN state ELSE tmp
    /\ tmp' = None
    /\ CallerGoto(c, to)
    /\ writing' = [writing EXCEPT ![c] = op[c]]
    /\ UNCHANGED <<content, op, fd, calls, overlap, stuck, clean>>

\* Any of the three raises: logged, swallowed, _write_state returns.
WriteFails(c) ==
    /\ WriteFaults
    /\ \/ kpc[c] \in {"ensureOpen", "ensureWrite", "ensureReplace"} /\ CallerGoto(c, "open")
       \/ kpc[c] \in {"open", "write", "replace"} /\ CallerGoto(c, "return")
    /\ fd' = [fd EXCEPT ![c] = None]
    /\ writing' = [writing EXCEPT ![c] = op[c]]
    /\ clean' = FALSE
    /\ UNCHANGED <<state, tmp, content, op, calls, overlap, stuck>>

\* activate and deactivate return True, whatever became of the write.
Return(c) ==
    /\ CallerAt(c, "return") /\ CallerGoto(c, "idle")
    /\ stuck' = IF op[c] = "ACTIVE" /\ ~overlap[c] THEN TRUE ELSE stuck
    /\ UNCHANGED <<state, tmp, content, op, writing, fd, calls, overlap, clean>>

CallerStep(c) ==
    \/ Construct(c)
    \/ Open(c, "ensureOpen", "ensureWrite") \/ Write(c, "ensureWrite", "ensureReplace")
    \/ Replace(c, "ensureReplace", "open")
    \/ Open(c, "open", "write") \/ Write(c, "write", "replace")
    \/ Replace(c, "replace", "return")
    \/ WriteFails(c) \/ Return(c)

SwitchNext == \E c \in Callers :
            (\E want \in {"ACTIVE", "INACTIVE"} : Request(c, want)) \/ CallerStep(c)

SwitchSpec == SwitchInit /\ [][SwitchNext]_switchVars

-----------------------------------------------------------------------------

\* Where the file existed from the start and no write has failed, an active
\* switch opens only while a deactivate is running, however the writers mix up
\* their shared temporary file (_write_state).
CleanOnlyDeactivateOpens ==
    [][clean' /\ ReadsActive /\ ~ReadsActive' => Deactivating]_switchVars

\* Activation sticks (same condition): once an activate that no deactivate
\* overlapped has returned, every read answers active until the next
\* deactivate begins.
ActivationSticks == clean /\ stuck => ReadsActive
===============================================================================

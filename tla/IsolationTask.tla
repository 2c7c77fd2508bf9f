--------------------------- MODULE IsolationTask ---------------------------
(***************************************************************************)
(* One task of the isolation worker: executeRestrictedWorkerTask and       *)
(* runWindowsProcessRestricted in the Node host, one step per await; the   *)
(* bridge process (Run of win32-bridge.ps1), one step per wait or per      *)
(* decision of its loop; its two ReadBounded tasks; and the process tree   *)
(* in the Job Object, with the promises of Windows that the bridge relies  *)
(* on: a terminated or closed job kills its processes, a pipe ends when    *)
(* its writers are gone, a refused process is notified.                    *)
(***************************************************************************)
EXTENDS Integers, FiniteSets

CONSTANTS MaxLive,      \* limits.maxProcessCount
          MaxIncidents, \* bound of the run: aborts, overruns, floods, marks
          None

Streams == {"stdout", "stderr"}
Usage == {"CPU_LIMIT", "MEMORY_LIMIT", "PROCESS_COUNT_LIMIT"}
Budgets == Usage \cup {"WALL_CLOCK_LIMIT"}
Reasons == Budgets \cup {"OUTPUT_LIMIT", "CANCELLED"}

ASSUME IsolationAssumption ==
    /\ MaxLive \in Nat \ {0}
    /\ None \notin Reasons \cup {"host", "tool", "part", "whole", "root"}

VARIABLES
    task,      \* the await at which the task is
    alive,     \* whether the Node host lives
    signal,    \* whether the caller's AbortSignal is aborted
    cancelled, \* `cancelled' of invokeBridge
    writing,   \* the cancellation marker is being written
    marker,    \* None, or who created the file at cancellationPath
    result,    \* what the task resolved with
    bridge,    \* where Run is; "gone" once the bridge process has ended
    clean,     \* whether it ended with exit code 0
    reason,    \* terminationReason
    waited,    \* whether this round's wait found the root process ended
    charge,    \* the overrun found after the loop and not yet recorded
    response,  \* what Run returns
    stdout,    \* how much of it has reached the host: None, "part", "whole"
    reader,    \* where each ReadBounded is
    job,       \* the Job Object's handle: "none", "open" or "closed"
    doomed,    \* the job was terminated or its last handle closed
    inJob,     \* whether the root process was created inside the job
    root,      \* the root process; "zero" or "other" once it has exited
    live,      \* the number of live processes of the tree
    over,      \* the budgets that have been used up
    notes,     \* the messages at the completion port
    flood,     \* the streams on which more than the budget was written
    removed,   \* history: whose marker the tool has deleted
    atExit     \* history: over when the root process exited by itself

host == <<task, alive, signal, cancelled, writing, marker, result>>
run == <<bridge, clean, reason, waited, charge, response, stdout, reader>>
tree == <<job, doomed, inJob, root, live, over, notes, flood, removed, atExit>>
vars == <<host, run, tree>>

Init ==
    /\ task = "called" /\ alive = TRUE /\ signal = FALSE
    /\ cancelled = FALSE /\ writing = FALSE /\ marker = None /\ result = None
    /\ bridge = "absent" /\ clean = FALSE /\ reason = None /\ waited = FALSE
    /\ charge = None /\ response = None /\ stdout = None
    /\ reader = [s \in Streams |-> "off"]
    /\ job = "none" /\ doomed = FALSE /\ inJob = FALSE
    /\ root = "none" /\ live = 0
    /\ over = {} /\ notes = {} /\ flood = {} /\ removed = {} /\ atExit = {}

-----------------------------------------------------------------------------
(* The host *)

\* The things that may go wrong with one task, all in any order; a run looks at
\* MaxIncidents of them at a time.
Incidents ==
    Cardinality(over) + Cardinality(flood) + Cardinality(removed)
      + (IF signal THEN 1 ELSE 0) + (IF marker = "tool" THEN 1 ELSE 0)
Room == Incidents < MaxIncidents

Blocked(why) == [status |-> "BLOCKED", code |-> why]
NotStarted(why) == [status |-> "FAILED_TO_START", code |-> why]

\* What is asked for, as far as resolveIsolationProvider tells it apart; every
\* feature of a canonical requirement is a supported one.
Requirements == {"invalid", "PROCESS_RESTRICTED", "OS_SANDBOXED"}

resolveIsolationProvider(requirement, available) ==
    IF requirement = "invalid" THEN "INVALID_ISOLATION_REQUIREMENT"
    ELSE IF requirement # "PROCESS_RESTRICTED"
      THEN "MINIMUM_ISOLATION_LEVEL_UNAVAILABLE"
    ELSE IF ~available THEN "PROCESS_RESTRICTED_PROVIDER_UNAVAILABLE"
    ELSE "SELECTED"

Settle(with) == task' = "settled" /\ result' = with

\* The probe has answered; up to the next await nothing can intervene.
ProbeAnswers(requirement, available, known) ==
    LET decision == resolveIsolationProvider(requirement, available) IN
    /\ alive /\ task = "called"
    /\ CASE decision # "SELECTED" -> Settle(Blocked(decision))
         [] decision = "SELECTED" /\ signal ->
              Settle(NotStarted("REQUEST_CANCELLED_BEFORE_START"))
         [] decision = "SELECTED" /\ ~signal /\ ~known ->
              Settle(NotStarted("TRUSTED_TOOL_NOT_FOUND"))
         [] OTHER -> task' = "validating" /\ UNCHANGED result
    /\ UNCHANGED <<alive, signal, cancelled, writing, marker, run, tree>>

\* An await of runWindowsProcessRestricted throws, or spawn itself fails.
PreparationFails ==
    /\ alive /\ task \in {"validating", "staging"}
    /\ Settle(NotStarted("WINDOWS_PROCESS_RESTRICTED_FAILED"))
    /\ UNCHANGED <<alive, signal, cancelled, writing, marker, run, tree>>

RequestValidated ==
    /\ alive /\ task = "validating"
    /\ task' = "staging"
    /\ UNCHANGED <<alive, signal, cancelled, writing, marker, result, run, tree>>

\* onAbort: once, and the marker is written behind its back.
onAbort ==
    IF cancelled
    THEN UNCHANGED <<cancelled, writing>>
    ELSE cancelled' = TRUE /\ writing' = TRUE

\* Mutant of BridgeSpawned: the signal is not looked at again.
BridgeSpawnedBlindly ==
    /\ alive /\ task = "staging"
    /\ task' = "waiting" /\ bridge' = "checking"
    /\ UNCHANGED <<alive, signal, cancelled, writing, marker, result, clean, reason,
                   waited, charge, response, stdout, reader, tree>>

\* invokeBridge: spawn, register the listener, and look at the signal again.
BridgeSpawned ==
    /\ alive /\ task = "staging"
    /\ task' = "waiting" /\ bridge' = "checking"
    /\ IF signal THEN onAbort ELSE UNCHANGED <<cancelled, writing>>
    /\ UNCHANGED <<alive, signal, marker, result, clean, reason, waited, charge,
                   response, stdout, reader, tree>>

\* The caller aborts; the listener is there only while the bridge runs.
Abort ==
    /\ alive /\ task # "settled" /\ ~signal /\ Room
    /\ signal' = TRUE
    /\ IF task = "waiting" THEN onAbort ELSE UNCHANGED <<cancelled, writing>>
    /\ UNCHANGED <<task, alive, marker, result, run, tree>>

\* The bridge process ends: its job handle is the only one, so the job closes
\* and takes its processes with it; what Run and its readers knew is lost.
BridgeEnds(well) ==
    /\ bridge' = "gone" /\ clean' = well
    /\ reader' = [s \in Streams |-> "off"]
    /\ reason' = None /\ waited' = FALSE /\ charge' = None /\ notes' = {}
    /\ job' = (IF job = "open" THEN "closed" ELSE job)
    /\ doomed' = (doomed \/ job = "open")

BridgeRuns == bridge \notin {"absent", "gone"}

MarkerWritten ==
    /\ alive /\ writing /\ marker = None
    /\ writing' = FALSE /\ marker' = "host"
    /\ UNCHANGED <<task, alive, signal, cancelled, result, run, tree>>

\* The write fails, with EEXIST or otherwise: the bridge is killed instead.
MarkerFails ==
    /\ alive /\ writing
    /\ writing' = FALSE
    /\ IF BridgeRuns
       THEN /\ BridgeEnds(FALSE)
            /\ stdout' \in (IF bridge = "writing" THEN {None, "part"} ELSE {stdout})
       ELSE UNCHANGED <<bridge, clean, reader, reason, waited, charge, notes,
                        job, doomed, stdout>>
    /\ UNCHANGED <<task, alive, signal, cancelled, marker, result, response,
                   inJob, root, live, over, flood, removed, atExit>>

outcome(answer) ==
    CASE answer.status = "COMPLETED" /\ answer.exitCode = "zero" -> "SUCCEEDED"
      [] answer.reason = "CANCELLED" -> "CANCELLED"
      [] answer.reason = "WALL_CLOCK_LIMIT" -> "TIMED_OUT"
      [] OTHER -> "FAILED"

\* createEvidence refuses an answer that does not vouch for a closed tree.
Vouched(answer) == answer.rootProcessId # None /\ answer.active = 0

\* The whole answer has been received and parsed.
Received ==
    IF response.status = "FAILED_TO_START" THEN NotStarted(response.code)
    ELSE IF ~Vouched(response)
      THEN NotStarted("WINDOWS_PROCESS_RESTRICTED_FAILED")
    ELSE [status |-> response.status, reason |-> response.reason,
          evidence |-> outcome(response)]

\* The "close" event of the bridge and what runWindowsProcessRestricted
\* makes of it.
BridgeClosed ==
    /\ alive /\ task = "waiting" /\ bridge = "gone"
    /\ Settle(IF ~cancelled /\ ~clean
                THEN NotStarted("WINDOWS_PROCESS_RESTRICTED_FAILED")
              ELSE IF cancelled /\ stdout = None
                THEN NotStarted("CANCELLATION_BRIDGE_LOST")
              ELSE IF stdout # "whole"
                THEN NotStarted("WINDOWS_PROCESS_RESTRICTED_FAILED")
              ELSE Received)
    /\ UNCHANGED <<alive, signal, cancelled, writing, marker, run, tree>>

HostDies ==
    /\ alive /\ task # "settled"
    /\ alive' = FALSE
    /\ UNCHANGED <<task, signal, cancelled, writing, marker, result, run, tree>>

-----------------------------------------------------------------------------
(* The bridge *)

\* Interlocked.CompareExchange(ref terminationReason, code, 0).
First(current, codes) ==
    IF current # None \/ codes = {} THEN {current} ELSE codes

\* The host is opened and lives, the executable is the trusted one, the pipes
\* and the job with its limits are there.
BridgeChecks ==
    /\ bridge = "checking" /\ alive
    /\ bridge' = "armed" /\ job' = "open"
    /\ UNCHANGED <<host, clean, reason, waited, charge, response, stdout, reader,
                   doomed, inJob, root, live, over, notes, flood, removed, atExit>>

\* CreateProcessW with CREATE_SUSPENDED and PROC_THREAD_ATTRIBUTE_JOB_LIST.
BridgeCreates ==
    /\ bridge = "armed"
    /\ bridge' = "created"
    /\ root' = "suspended" /\ live' = 1 /\ inJob' = TRUE
    /\ UNCHANGED <<host, clean, reason, waited, charge, response, stdout, reader,
                   job, doomed, over, notes, flood, removed, atExit>>

\* IsProcessInJob, the host once more, the readers, ResumeThread.
BridgeResumes ==
    /\ bridge = "created" /\ inJob /\ alive
    /\ bridge' = "watching"
    /\ reader' = [s \in Streams |-> "reading"]
    /\ root' = "running"
    /\ UNCHANGED <<host, clean, reason, waited, charge, response, stdout,
                   job, doomed, inJob, live, over, notes, flood, removed, atExit>>

\* A round of the loop begins: WaitForSingleObject(process, 20).
BridgeWaits ==
    /\ bridge = "watching"
    /\ waited' = (root \in {"zero", "other"})
    /\ bridge' = "judging"
    /\ UNCHANGED <<host, clean, reason, charge, response, stdout, reader, tree>>

\* Mutant of ActiveCount: the root process stands for the whole tree.
ActiveCountOfRoot == IF root \in {"suspended", "running"} THEN 1 ELSE 0

\* activeProcessCount, as ReadUsage finds it in the job's accounting.
ActiveCount == live

\* The else-if chain over the host, the marker, the clock and the usage.
Judgement ==
    IF ~alive \/ marker # None THEN {"CANCELLED"}
    ELSE IF "WALL_CLOCK_LIMIT" \in over THEN {"WALL_CLOCK_LIMIT"}
    ELSE IF "CPU_LIMIT" \in over THEN {"CPU_LIMIT"}
    ELSE IF "MEMORY_LIMIT" \in over THEN {"MEMORY_LIMIT"}
    ELSE IF ActiveCount > MaxLive THEN {"PROCESS_COUNT_LIMIT"}
    ELSE {}

\* ... and goes on: the notifications, the usage, the chain; a reason ends the
\* job and the loop, the end of the root process ends the loop.
BridgeJudges ==
    /\ bridge = "judging"
    /\ notes' = {}
    /\ \E noted \in First(reason, notes) : reason' \in First(noted, Judgement)
    /\ bridge' = (IF reason' # None \/ waited THEN "closing" ELSE "watching")
    /\ doomed' = (doomed \/ reason' # None)
    /\ UNCHANGED <<host, clean, waited, charge, response, stdout, reader,
                   job, inJob, root, live, over, flood, removed, atExit>>

\* After the loop: usage is read once more, and reason tested ...
BridgeRereads ==
    /\ bridge = "closing"
    /\ charge' = (CASE reason = None /\ "CPU_LIMIT" \in over -> "CPU_LIMIT"
                    [] reason = None /\ "CPU_LIMIT" \notin over
                         /\ "MEMORY_LIMIT" \in over -> "MEMORY_LIMIT"
                    [] OTHER -> None)
    /\ bridge' = "charging"
    /\ UNCHANGED <<host, clean, reason, waited, response, stdout, reader, tree>>

\* ... and then assigned, whatever a reader has written meanwhile; the job is
\* terminated.
BridgeCharges ==
    /\ bridge = "charging"
    /\ reason' = (IF charge # None THEN charge ELSE reason)
    /\ charge' = None
    /\ doomed' = TRUE
    /\ bridge' = "draining"
    /\ UNCHANGED <<host, clean, waited, response, stdout, reader,
                   job, inJob, root, live, over, notes, flood, removed, atExit>>

BridgeDrains ==
    /\ bridge = "draining" /\ ActiveCount = 0
    /\ bridge' = "joining"
    /\ UNCHANGED <<host, clean, reason, waited, charge, response, stdout, reader,
                   tree>>

\* Returning from Run, by either way, closes the job.
Return(answer) ==
    /\ response' = answer
    /\ bridge' = "writing"
    /\ job' = (IF job = "open" THEN "closed" ELSE job)
    /\ doomed' = (doomed \/ job = "open")
    /\ UNCHANGED <<host, clean, reason, waited, charge, stdout, reader,
                   inJob, root, live, over, notes, flood, removed, atExit>>

Joined == \A s \in Streams : reader[s] # "reading"

Completion ==
    [status |-> IF reason = None THEN "COMPLETED" ELSE "TERMINATED",
     exitCode |-> IF reason = None THEN root ELSE None,
     reason |-> reason, rootProcessId |-> "root", active |-> ActiveCount]

\* Mutant of BridgeAnswers: the reason is read before the readers are joined.
BridgeAnswersEarly == bridge = "joining" /\ Return(Completion)

BridgeAnswers == bridge = "joining" /\ Joined /\ Return(Completion)

\* Everything that makes Run throw: a Win32 call, a dead host, a foreign
\* executable, a tree or a reader that does not end in time.
BridgeThrows ==
    /\ bridge \in {"checking", "armed", "created", "judging", "draining", "joining"}
    /\ Return([status |-> "FAILED_TO_START", code |-> "BRIDGE_FAILURE"])

BridgeWrites ==
    /\ bridge = "writing"
    /\ stdout' = "whole"
    /\ BridgeEnds(TRUE)
    /\ UNCHANGED <<host, response, inJob, root, live, over, flood,
                   removed, atExit>>

\* The bridge process is killed from outside or crashes.
BridgeDies ==
    /\ BridgeRuns
    /\ BridgeEnds(FALSE)
    /\ stdout' \in (IF bridge = "writing" THEN {None, "part"} ELSE {stdout})
    /\ UNCHANGED <<host, response, inJob, root, live, over, flood,
                   removed, atExit>>

\* ReadBounded: one byte too many sets the reason and ends the job; or the
\* last writer has gone.
ReaderOverruns(s) ==
    /\ reader[s] = "reading" /\ s \in flood
    /\ reader' = [reader EXCEPT ![s] = "stopped"]
    /\ reason' \in First(reason, {"OUTPUT_LIMIT"})
    /\ doomed' = TRUE
    /\ UNCHANGED <<host, bridge, clean, waited, charge, response, stdout,
                   job, inJob, root, live, over, notes, flood, removed, atExit>>

ReaderEnds(s) ==
    /\ reader[s] = "reading" /\ s \notin flood /\ live = 0
    /\ reader' = [reader EXCEPT ![s] = "ended"]
    /\ UNCHANGED <<host, bridge, clean, reason, waited, charge, response, stdout,
                   tree>>

-----------------------------------------------------------------------------
(* The process tree and its clock *)

\* A tree that runs; a job being terminated lets nothing more happen.
Busy == root \notin {"none", "suspended"} /\ live > 0 /\ ~doomed
RootRuns == root = "running"

ToolSpawns ==
    /\ Busy /\ live < MaxLive
    /\ live' = live + 1
    /\ UNCHANGED <<host, run, job, doomed, inJob, root, over, notes, flood,
                   removed, atExit>>

\* The job refuses a process over the limit and says so.
SpawnRefused ==
    /\ Busy /\ live = MaxLive /\ Room
    /\ "PROCESS_COUNT_LIMIT" \notin over
    /\ over' = over \cup {"PROCESS_COUNT_LIMIT"}
    /\ notes' = notes \cup {"PROCESS_COUNT_LIMIT"}
    /\ UNCHANGED <<host, run, job, doomed, inJob, root, live, flood,
                   removed, atExit>>

\* CPU time or memory is used up; the kernel may post a message, too.
UsageOver(b) ==
    /\ Busy /\ b \in {"CPU_LIMIT", "MEMORY_LIMIT"} \ over /\ Room
    /\ over' = over \cup {b}
    /\ notes' \in {notes, notes \cup {b}}
    /\ UNCHANGED <<host, run, job, doomed, inJob, root, live, flood,
                   removed, atExit>>

ClockOver ==
    /\ BridgeRuns /\ "WALL_CLOCK_LIMIT" \notin over /\ Room
    /\ over' = over \cup {"WALL_CLOCK_LIMIT"}
    /\ UNCHANGED <<host, run, job, doomed, inJob, root, live, notes, flood,
                   removed, atExit>>

ToolFloods(s) ==
    /\ Busy /\ s \notin flood /\ Room
    /\ flood' = flood \cup {s}
    /\ UNCHANGED <<host, run, job, doomed, inJob, root, live, over, notes, atExit,
                   removed>>

\* cancellationPath is in the tool's working directory, where it may write.
ToolMarks ==
    /\ Busy /\ marker = None /\ Room
    /\ marker' = "tool"
    /\ UNCHANGED <<task, alive, signal, cancelled, writing, result, run, tree>>

\* ... and deletes what is there, before or after the bridge has looked: onAbort
\* does not write it again.
ToolUnmarks ==
    /\ Busy /\ marker # None /\ Room
    /\ marker' = None /\ removed' = removed \cup {marker}
    /\ UNCHANGED <<task, alive, signal, cancelled, writing, result, run, job,
                   doomed, inJob, root, live, over, notes, flood, atExit>>

RootExits(code) ==
    /\ Busy /\ RootRuns
    /\ root' = code /\ live' = live - 1 /\ atExit' = over
    /\ UNCHANGED <<host, run, job, doomed, inJob, over, notes, flood, removed>>

DescendantExits ==
    /\ Busy /\ live > (IF RootRuns THEN 1 ELSE 0)
    /\ live' = live - 1
    /\ UNCHANGED <<host, run, job, doomed, inJob, root, over, notes, flood,
                   removed, atExit>>

\* The kernel ends the processes of a terminated or closed job one by one.
Killed ==
    /\ doomed /\ inJob /\ live > 0
    /\ live' = live - 1
    /\ root' \in (IF root \notin {"running", "suspended"} THEN {root}
                  ELSE IF live = 1 THEN {"other"} ELSE {root, "other"})
    /\ UNCHANGED <<host, run, job, doomed, inJob, over, notes, flood,
                   removed, atExit>>

-----------------------------------------------------------------------------

HostStep ==
    \/ \E q \in Requirements, a \in BOOLEAN, k \in BOOLEAN : ProbeAnswers(q, a, k)
    \/ PreparationFails \/ RequestValidated \/ BridgeSpawned
    \/ MarkerWritten \/ MarkerFails \/ BridgeClosed

BridgeStep ==
    \/ BridgeChecks \/ BridgeCreates \/ BridgeResumes
    \/ BridgeWaits \/ BridgeJudges \/ BridgeRereads \/ BridgeCharges
    \/ BridgeDrains \/ BridgeAnswers \/ BridgeThrows \/ BridgeWrites

ReaderStep(s) == ReaderOverruns(s) \/ ReaderEnds(s)

TreeStep ==
    \/ ToolSpawns \/ SpawnRefused \/ ToolMarks \/ ToolUnmarks \/ DescendantExits
    \/ \E b \in Usage : UsageOver(b)
    \/ \E s \in Streams : ToolFloods(s)
    \/ \E code \in {"zero", "other"} : RootExits(code)

Next ==
    \/ HostStep \/ Abort \/ HostDies
    \/ BridgeStep \/ BridgeDies
    \/ \E s \in Streams : ReaderStep(s)
    \/ TreeStep \/ ClockOver \/ Killed

\* The event loop of the host, the bridge and its readers go on, and the
\* kernel finishes a kill.  Nothing makes the tool end, the caller abort or
\* the budgets run out.
Fairness ==
    /\ WF_vars(HostStep)
    /\ WF_vars(BridgeStep)
    /\ \A s \in Streams : WF_vars(ReaderStep(s))
    /\ WF_vars(Killed)

Spec == Init /\ [][Next]_vars /\ Fairness

-----------------------------------------------------------------------------
(* Properties *)

TypeOK ==
    /\ task \in {"called", "validating", "staging", "waiting", "settled"}
    /\ alive \in BOOLEAN /\ signal \in BOOLEAN /\ cancelled \in BOOLEAN
    /\ writing \in BOOLEAN /\ marker \in {None, "host", "tool"}
    /\ bridge \in {"absent", "checking", "armed", "created", "watching", "judging",
                   "closing", "charging", "draining", "joining", "writing", "gone"}
    /\ reason \in Reasons \cup {None} /\ waited \in BOOLEAN
    /\ stdout \in {None, "part", "whole"}
    /\ reader \in [Streams -> {"off", "reading", "stopped", "ended"}]
    /\ job \in {"none", "open", "closed"}
    /\ doomed \in BOOLEAN /\ inJob \in BOOLEAN
    /\ root \in {"none", "suspended", "running", "zero", "other"}
    /\ live \in 0..MaxLive
    /\ over \subseteq Budgets /\ notes \subseteq Usage /\ flood \subseteq Streams
    /\ removed \subseteq {"host", "tool"}

HasEvidence == task = "settled" /\ "evidence" \in DOMAIN result

\* Evidence says processTreeTerminated: from the moment it is given no process
\* of the tree is alive, and none ever starts, whichever of exit, limit,
\* cancellation, timeout and the end of the host or the bridge came first.
EvidenceClosed == HasEvidence => live = 0 /\ root \in {"zero", "other"}

\* The tool has cancelled, even if it took its marker away again.
ToolMarked == marker = "tool" \/ "tool" \in removed

\* A termination reason is the truth about the task: the limit it names was
\* used up, or somebody cancelled; a reader that records its overrun while the
\* bridge charges another one changes the reason, and not to a false one.
ReasonTrue ==
    HasEvidence /\ result.status = "TERMINATED" =>
        CASE result.reason \in Budgets -> result.reason \in over
          [] result.reason = "OUTPUT_LIMIT" -> flood # {}
          [] result.reason = "CANCELLED" -> signal \/ ToolMarked

\* The evidence of a task is true.
EvidenceTrue == EvidenceClosed /\ ReasonTrue

\* A task that completed kept its budgets: the root process used none up
\* before it exited, and no output was cut off, although the readers finish
\* and the notifications arrive after the bridge has seen the exit.
BudgetKept ==
    HasEvidence /\ result.status = "COMPLETED" =>
        atExit \cap Usage = {} /\ flood = {}

\* A task whose wall clock has run out is answered even when its tool never
\* ends, and so is a cancelled one, unless its tool deletes the host's marker
\* before the bridge looks for it: an abort is not lost between the first check
\* of the signal and the listener, nor behind a marker that cannot be written or
\* that the tool had made itself.  A tool that does delete it has until the wall
\* clock.
StopsSettle ==
    /\ "WALL_CLOCK_LIMIT" \in over ~> (task = "settled" \/ ~alive)
    /\ signal ~> (task = "settled" \/ ~alive \/ "host" \in removed)

\* No process outlives its task, its bridge or its host: after the answer and
\* after the death of either process the tree comes to an end.
TreeEnds == (task = "settled" \/ ~alive \/ bridge = "gone") ~> live = 0

\* A task that is stopped is answered, and its tree ends.
TaskEnds == StopsSettle /\ TreeEnds
=============================================================================

-------------------------- MODULE IsolationProofs --------------------------
(***************************************************************************)
(* What the evidence of an isolation task says is true, for every limit on *)
(* the process count and in every order of exits, overruns, cancellations  *)
(* and deaths of the host and the bridge.                                  *)
(***************************************************************************)
EXTENDS IsolationTask, TLAPS

Exited == {"zero", "other"}

\* Where Run is, before its processes are there, while it has readers, and
\* after its loop.
Early == {"absent", "checking", "armed"}
AfterLoop == {"closing", "charging", "draining", "joining"}
Reading == {"watching", "judging"} \cup AfterLoop

\* Why a reason is the truth; a host that is dead is never answered.
Holds(code) ==
    CASE code \in Budgets -> code \in over
      [] code = "OUTPUT_LIMIT" -> flood # {}
      [] code = "CANCELLED" -> signal \/ ToolMarked \/ ~alive

TypeInv ==
    /\ task \in {"called", "validating", "staging", "waiting", "settled"}
    /\ alive \in BOOLEAN /\ signal \in BOOLEAN /\ cancelled \in BOOLEAN
    /\ writing \in BOOLEAN /\ marker \in {None, "host", "tool"}
    /\ bridge \in Early \cup Reading \cup {"created", "writing", "gone"}
    /\ reason \in Reasons \cup {None} /\ charge \in Reasons \cup {None}
    /\ waited \in BOOLEAN /\ stdout \in {None, "part", "whole"}
    /\ reader \in [Streams -> {"off", "reading", "stopped", "ended"}]
    /\ job \in {"none", "open", "closed"}
    /\ doomed \in BOOLEAN /\ inJob \in BOOLEAN
    /\ root \in {"none", "suspended", "running"} \cup Exited
    /\ live \in 0 .. MaxLive
    /\ over \subseteq Budgets /\ notes \subseteq Usage /\ flood \subseteq Streams
    /\ atExit \subseteq over /\ removed \subseteq {"host", "tool"}

\* The bridge begins after the task was staged; a cancellation was asked for.
HostInv ==
    /\ task \in {"called", "validating", "staging"} => bridge = "absent"
    /\ cancelled \/ writing \/ marker = "host" => signal

\* The tree begins with the root process, which lives as one of it; nothing
\* ends it before it is resumed.
TreeInv ==
    /\ bridge \in Early => root = "none" /\ live = 0 /\ over \cap Usage = {}
    /\ bridge \in Early \cup {"created"} => ~doomed
    /\ bridge = "created" => root = "suspended" /\ over \cap Usage = {}
    /\ bridge \in Reading \cup {"created"} => root # "none"
    /\ root \in {"running", "suspended"} => live > 0

\* What the bridge knows is so: its reason, its messages, its last charge.
ReasonInv ==
    /\ reason # None => Holds(reason)
    /\ notes \subseteq over
    /\ charge # None => charge \in over

\* A reader that stopped gave the reason; one that has ended saw all of it.
ReaderInv ==
    \A s \in Streams :
        /\ reader[s] = "stopped" => reason # None
        /\ reader[s] = "ended" => s \notin flood /\ live = 0
        /\ bridge \in Reading => reader[s] # "off"
        /\ bridge \in Early \cup {"created"} => reader[s] = "off"

\* A refused process is noted until it is a reason; and the round that saw the
\* exit saw everything that was used up before.
LoopInv ==
    /\ bridge \notin {"writing", "gone"} /\ "PROCESS_COUNT_LIMIT" \in over =>
          "PROCESS_COUNT_LIMIT" \in notes \/ reason # None
    /\ bridge = "judging" /\ waited => root \in Exited
    /\ bridge \in AfterLoop /\ reason = None =>
          root \in Exited /\ atExit \cap Usage = {}
    /\ bridge = "joining" => live = 0

\* What an answer of Run says of the tree.
AnswerTrue(answer) ==
    \/ answer = [status |-> "FAILED_TO_START", code |-> "BRIDGE_FAILURE"]
    \/ /\ answer.status \in {"COMPLETED", "TERMINATED"}
       /\ live = 0 /\ root \in Exited
       /\ answer.status = "COMPLETED" => atExit \cap Usage = {} /\ flood = {}
       /\ answer.status = "TERMINATED" => /\ answer.reason \in Reasons
                                          /\ Holds(answer.reason)

AnswerInv ==
    /\ stdout = "whole" => bridge = "gone"
    /\ bridge = "writing" \/ stdout = "whole" => AnswerTrue(response)

\* A task with evidence is over, and the host with it has not died.
ResultInv ==
    HasEvidence => /\ bridge = "gone" /\ alive
                   /\ result.status = "TERMINATED" => result.reason \in Reasons

IInv == /\ TypeInv /\ HostInv /\ TreeInv /\ ReasonInv /\ ReaderInv /\ LoopInv
        /\ AnswerInv /\ ResultInv /\ EvidenceTrue /\ BudgetKept
-----------------------------------------------------------------------------
(* What a step leaves of the truth of an answer and of the evidence.       *)

LEMMA NoneIsNone ==
    /\ None \notin Reasons /\ None \notin Budgets /\ None \notin Usage
    /\ None \notin {"host", "tool", "part", "whole", "root"}
    /\ MaxLive \in Nat /\ MaxLive > 0
    BY IsolationAssumption DEF Reasons, Budgets

\* What is used up stays so, and so does a cancellation.
Grows ==
    /\ over \subseteq over' /\ flood \subseteq flood'
    /\ signal => signal'
    /\ ToolMarked => ToolMarked'
    /\ ~alive => ~alive'

LEMMA HoldsOn ==
    ASSUME NEW code \in Reasons, Holds(code), Grows PROVE Holds(code)'
    BY DEF Holds, Grows, Reasons, Budgets, Usage

\* ReasonTrue is Holds, of a task whose host lives.
LEMMA TrueReason ==
    ASSUME alive, NEW code \in Reasons
    PROVE  Holds(code) <=> CASE code \in Budgets -> code \in over
                             [] code = "OUTPUT_LIMIT" -> flood # {}
                             [] code = "CANCELLED" -> signal \/ ToolMarked
    BY DEF Holds, Reasons, Budgets, Usage

LEMMA Evidence ==
    ASSUME IInv, HasEvidence
    PROVE  /\ bridge = "gone" /\ alive /\ live = 0 /\ root \in Exited
           /\ result.status = "COMPLETED" => atExit \cap Usage = {} /\ flood = {}
           /\ result.status = "TERMINATED" =>
                 result.reason \in Reasons /\ Holds(result.reason)
<1>1. /\ bridge = "gone" /\ alive
      /\ result.status = "TERMINATED" => result.reason \in Reasons
    BY DEF IInv, ResultInv
<1>2. live = 0 /\ root \in Exited
    BY DEF IInv, EvidenceTrue, EvidenceClosed, Exited
<1>3. result.status = "COMPLETED" => atExit \cap Usage = {} /\ flood = {}
    BY DEF IInv, BudgetKept
<1>4. result.status = "TERMINATED" => Holds(result.reason)
    BY <1>1, TrueReason DEF IInv, EvidenceTrue, ReasonTrue
<1> QED BY <1>1, <1>2, <1>3, <1>4

\* Evidence that says as much is true.
LEMMA TrueEvidence ==
    ASSUME HasEvidence' =>
              /\ bridge' = "gone" /\ alive' /\ live' = 0 /\ root' \in Exited
              /\ result'.status = "COMPLETED" =>
                    atExit' \cap Usage = {} /\ flood' = {}
              /\ result'.status = "TERMINATED" =>
                    result'.reason \in Reasons /\ Holds(result.reason)'
    PROVE  ResultInv' /\ EvidenceTrue' /\ BudgetKept'
<1>1. ResultInv'
    BY DEF ResultInv
<1>2. EvidenceClosed'
    BY DEF EvidenceClosed, Exited
<1>3. BudgetKept'
    BY DEF BudgetKept
<1>4. ReasonTrue'
  <2>1. ASSUME alive', NEW code \in Reasons, Holds(code)'
        PROVE  CASE code \in Budgets -> code \in over'
                 [] code = "OUTPUT_LIMIT" -> flood' # {}
                 [] code = "CANCELLED" -> signal' \/ ToolMarked'
    BY <2>1 DEF Holds, Reasons, Budgets, Usage
  <2>2. ASSUME HasEvidence', result'.status = "TERMINATED"
        PROVE  CASE result'.reason \in Budgets -> result'.reason \in over'
                 [] result'.reason = "OUTPUT_LIMIT" -> flood' # {}
                 [] result'.reason = "CANCELLED" -> signal' \/ ToolMarked'
    <3>1. PICK code \in Reasons : code = result'.reason /\ Holds(code)' /\ alive'
        BY <2>2
    <3>2. (CASE code \in Budgets -> code \in over'
             [] code = "OUTPUT_LIMIT" -> flood' # {}
             [] code = "CANCELLED" -> signal' \/ ToolMarked')
        BY <2>1, <3>1
    <3> QED BY <3>1, <3>2
  <2> QED BY <2>2 DEF ReasonTrue
<1> QED BY <1>1, <1>2, <1>3, <1>4 DEF EvidenceTrue

\* A step that answers nothing.
LEMMA NoAnswer ==
    ASSUME IInv, Grows, UNCHANGED <<task, result, response, stdout>>,
           bridge' = "writing" => bridge = "writing",
           bridge = "gone" => bridge' = "gone",
           task = "settled" => alive' = alive,
           live = 0 /\ bridge \in {"writing", "gone"} =>
              UNCHANGED <<live, root, atExit, flood>>
    PROVE  AnswerInv' /\ ResultInv' /\ EvidenceTrue' /\ BudgetKept'
<1>1. ASSUME AnswerTrue(response), bridge \in {"writing", "gone"}
      PROVE  AnswerTrue(response)'
  <2>1. ASSUME response.status \in {"COMPLETED", "TERMINATED"},
               live = 0, root \in Exited,
               response.status = "COMPLETED" =>
                  atExit \cap Usage = {} /\ flood = {},
               response.status = "TERMINATED" =>
                  response.reason \in Reasons /\ Holds(response.reason)
        PROVE  AnswerTrue(response)'
    <3>1. response.status = "TERMINATED" => Holds(response.reason)'
        BY <2>1, HoldsOn
    <3> QED BY <1>1, <2>1, <3>1 DEF AnswerTrue
  <2> QED BY <1>1, <2>1 DEF AnswerTrue
<1>2. AnswerInv'
    BY <1>1 DEF IInv, AnswerInv
<1>3. HasEvidence' => HasEvidence
    BY DEF HasEvidence
<1>4. ASSUME HasEvidence
      PROVE  /\ bridge' = "gone" /\ alive' /\ live' = 0 /\ root' \in Exited
             /\ result'.status = "COMPLETED" =>
                   atExit' \cap Usage = {} /\ flood' = {}
             /\ result'.status = "TERMINATED" =>
                   result'.reason \in Reasons /\ Holds(result.reason)'
  <2>1. result.status = "TERMINATED" => Holds(result.reason)'
    BY <1>4, Evidence, HoldsOn
  <2> QED BY <1>4, <2>1, Evidence DEF HasEvidence
<1> QED BY <1>2, <1>3, <1>4, TrueEvidence

\* The reason stays true.
LEMMA ReasonOn ==
    ASSUME IInv, Grows, reason' = reason, notes' \subseteq over',
           charge' = charge
    PROVE  ReasonInv'
<1>1. reason # None => reason \in Reasons /\ Holds(reason)
    BY DEF IInv, TypeInv, ReasonInv
<1>2. reason # None => Holds(reason)'
    BY <1>1, HoldsOn
<1>3. charge' # None => charge' \in over'
    BY DEF IInv, ReasonInv, Grows
<1> QED BY <1>2, <1>3 DEF ReasonInv
-----------------------------------------------------------------------------
(* The host.                                                               *)

\* A step of the host that touches neither the bridge nor the tree.
LEMMA HostOnly ==
    ASSUME IInv, Grows, UNCHANGED <<run, tree>>
    PROVE  TreeInv' /\ ReasonInv' /\ ReaderInv' /\ LoopInv'
<1>1. TreeInv'
    BY DEF IInv, TreeInv, run, tree
<1>2. ReasonInv'
  <2>1. notes' \subseteq over' /\ reason' = reason /\ charge' = charge
    BY DEF IInv, ReasonInv, run, tree
  <2> QED BY <2>1, ReasonOn
<1>3. ReaderInv'
    BY DEF IInv, ReaderInv, run, tree
<1>4. LoopInv'
    BY DEF IInv, LoopInv, run, tree
<1> QED BY <1>1, <1>2, <1>3, <1>4

\* A task that is answered without evidence.
LEMMA NoEvidence ==
    ASSUME NEW why, result' \in {Blocked(why), NotStarted(why)}
    PROVE  ~HasEvidence'
<1>1. "evidence" \notin DOMAIN Blocked(why) /\ "evidence" \notin DOMAIN NotStarted(why)
    BY DEF Blocked, NotStarted
<1> QED BY <1>1 DEF HasEvidence

LEMMA AnswerOn ==
    ASSUME IInv, Grows, UNCHANGED <<run, tree>> PROVE AnswerInv'
<1>1. ASSUME AnswerTrue(response) PROVE AnswerTrue(response)'
  <2>1. ASSUME response.status = "TERMINATED", response.reason \in Reasons,
               Holds(response.reason)
        PROVE  Holds(response.reason)'
    BY <2>1, HoldsOn DEF run
  <2>2. UNCHANGED <<response, live, root, atExit, flood>>
    BY DEF run, tree
  <2> QED BY <1>1, <2>1, <2>2 DEF AnswerTrue
<1> QED BY <1>1 DEF IInv, AnswerInv, run

\* The steps before the bridge.
LEMMA PreparesKeeps ==
    ASSUME IInv,
           \/ \E q \in Requirements, a \in BOOLEAN, k \in BOOLEAN :
                 ProbeAnswers(q, a, k)
           \/ PreparationFails \/ RequestValidated
    PROVE  IInv'
<1>1. /\ task \in {"called", "validating", "staging"}
      /\ UNCHANGED <<alive, signal, cancelled, writing, marker, run, tree>>
    BY DEF ProbeAnswers, PreparationFails, RequestValidated
<1>2. \/ task' \in {"validating", "staging"} /\ result' = result
      \/ task' = "settled" /\ \E why : result' \in {Blocked(why), NotStarted(why)}
  <2>1. ASSUME NEW q \in Requirements, NEW a \in BOOLEAN, NEW k \in BOOLEAN,
               ProbeAnswers(q, a, k)
        PROVE  \/ task' \in {"validating", "staging"} /\ result' = result
               \/ task' = "settled" /\ \E why : result' \in {Blocked(why), NotStarted(why)}
    BY <2>1 DEF ProbeAnswers, Settle
  <2> QED BY <2>1 DEF PreparationFails, RequestValidated, Settle
<1>3. ~HasEvidence'
    BY <1>2, NoEvidence DEF HasEvidence
<1>4. Grows
    BY <1>1 DEF Grows, ToolMarked, tree
<1>5. TypeInv' /\ HostInv'
    BY <1>1, <1>2 DEF IInv, TypeInv, HostInv, run, tree
<1>6. ResultInv' /\ EvidenceTrue' /\ BudgetKept'
    BY <1>3, TrueEvidence
<1> QED BY <1>1, <1>4, <1>5, <1>6, HostOnly, AnswerOn DEF IInv

\* The signal, the marker and the death of the host.
LEMMA SignalKeeps ==
    ASSUME IInv, Abort \/ HostDies \/ MarkerWritten PROVE IInv'
<1>1. UNCHANGED <<task, result, run, tree>>
    BY DEF Abort, HostDies, MarkerWritten
<1>2. task = "settled" => alive' = alive
    BY DEF Abort, HostDies, MarkerWritten
<1>3. /\ alive' \in BOOLEAN /\ signal' \in BOOLEAN /\ cancelled' \in BOOLEAN
      /\ writing' \in BOOLEAN /\ marker' \in {None, "host", "tool"}
      /\ signal => signal'
      /\ ~alive => ~alive'
      /\ ToolMarked => ToolMarked'
      /\ cancelled' \/ writing' \/ marker' = "host" => signal'
  <2>1. CASE Abort
    BY <1>1, <2>1 DEF ToolMarked, tree, Abort, onAbort, IInv, TypeInv, HostInv
  <2>2. CASE HostDies
    BY <1>1, <2>2 DEF ToolMarked, tree, HostDies, IInv, TypeInv, HostInv
  <2>3. CASE MarkerWritten
    BY <1>1, <2>3, NoneIsNone DEF ToolMarked, tree, MarkerWritten, IInv, TypeInv, HostInv
  <2> QED BY <2>1, <2>2, <2>3
<1>5. Grows
  <2>1. over \subseteq over' /\ flood \subseteq flood'
    BY <1>1 DEF tree
  <2>2. (signal => signal') /\ (~alive => ~alive')
        /\ (ToolMarked => ToolMarked')
    BY <1>3
  <2> QED BY <2>1, <2>2 DEF Grows, ToolMarked
<1>6. TypeInv'
    BY <1>1, <1>3 DEF IInv, TypeInv, run, tree
<1>7. HostInv'
    BY <1>1, <1>3 DEF IInv, HostInv, run
<1>4. AnswerInv' /\ ResultInv' /\ EvidenceTrue' /\ BudgetKept'
    BY <1>1, <1>2, <1>5, NoAnswer DEF run, tree
<1> QED BY <1>1, <1>4, <1>5, <1>6, <1>7, HostOnly DEF IInv

LEMMA SpawnedKeeps ==
    ASSUME IInv, BridgeSpawned PROVE IInv'
<1>1. /\ task = "staging" /\ task' = "waiting" /\ bridge = "absent"
      /\ bridge' = "checking"
      /\ UNCHANGED <<alive, signal, marker, result, clean, reason, waited, charge,
                     response, stdout, reader, tree>>
    BY DEF BridgeSpawned, IInv, HostInv
<1>2. Grows
    BY <1>1 DEF Grows, ToolMarked, tree
<1>3. TypeInv'
    BY ZenonT(60), <1>1 DEF BridgeSpawned, onAbort, IInv, TypeInv, tree, Early
<1>4. HostInv'
    BY <1>1 DEF BridgeSpawned, onAbort, IInv, TypeInv, HostInv
<1>5. TreeInv' /\ ReaderInv'
    BY <1>1 DEF IInv, TreeInv, ReaderInv, tree, Early, Reading, AfterLoop
<1>6. ReasonInv'
    BY <1>1, <1>2, ReasonOn DEF IInv, ReasonInv, tree
<1>7. LoopInv'
    BY <1>1 DEF IInv, LoopInv, tree, AfterLoop
<1>8. AnswerInv'
    BY <1>1 DEF IInv, AnswerInv
<1>9. ResultInv' /\ EvidenceTrue' /\ BudgetKept'
    BY <1>1, TrueEvidence DEF HasEvidence
<1> QED BY <1>3, <1>4, <1>5, <1>6, <1>7, <1>8, <1>9 DEF IInv
-----------------------------------------------------------------------------
(* The end of the bridge.                                                  *)

\* The bridge process is gone and its answer, if it had one, received or not.
LEMMA EndsKeeps ==
    ASSUME IInv, NEW well \in BOOLEAN, BridgeRuns, BridgeEnds(well),
           UNCHANGED <<task, alive, signal, result, response, inJob, root, live,
                       over, flood, removed, atExit>>,
           cancelled' = cancelled, writing' => writing, writing' \in BOOLEAN,
           marker' = marker,
           \/ stdout' = "whole" /\ bridge = "writing"
           \/ stdout' \in {None, "part"}
           \/ stdout' = stdout /\ bridge # "writing"
    PROVE  IInv'
<1>1. /\ bridge \notin {"absent", "gone"} /\ stdout # "whole"
      /\ bridge' = "gone" /\ reader' = [s \in Streams |-> "off"]
      /\ reason' = None /\ waited' = FALSE /\ charge' = None /\ notes' = {}
    BY DEF BridgeRuns, BridgeEnds, IInv, AnswerInv
<1>2. Grows
    BY DEF Grows, ToolMarked, IInv, TypeInv
<1>3. TypeInv'
  <2>1. stdout' \in {None, "part", "whole"}
    BY DEF IInv, TypeInv
  <2>2. /\ job' \in {"none", "open", "closed"} /\ doomed' \in BOOLEAN
    BY DEF BridgeEnds, IInv, TypeInv
  <2> QED BY ZenonT(60), <1>1, <2>1, <2>2 DEF IInv, TypeInv
<1>4. HostInv'
    BY <1>1 DEF IInv, HostInv
<1>5. TreeInv' /\ ReaderInv' /\ LoopInv' /\ ReasonInv'
  <2>1. TreeInv'
    BY <1>1 DEF IInv, TreeInv, Early, Reading, AfterLoop
  <2>2. ReaderInv'
    BY <1>1 DEF ReaderInv, Early, Reading, AfterLoop
  <2>3. LoopInv'
    BY <1>1 DEF LoopInv, AfterLoop
  <2>4. ReasonInv'
    BY <1>1 DEF ReasonInv
  <2> QED BY <2>1, <2>2, <2>3, <2>4
<1>6. AnswerInv'
  <2>1. CASE stdout' = "whole"
    <3>1. bridge = "writing" /\ AnswerTrue(response)
        BY <1>1, <2>1, NoneIsNone DEF IInv, AnswerInv
    <3>2. ASSUME response.status = "TERMINATED", response.reason \in Reasons,
                 Holds(response.reason)
          PROVE  Holds(response.reason)'
        BY <1>2, <3>2, HoldsOn
    <3>3. AnswerTrue(response)'
        BY <3>1, <3>2 DEF AnswerTrue
    <3> QED BY <1>1, <3>3 DEF AnswerInv
  <2>2. CASE stdout' # "whole"
    BY <1>1, <2>2 DEF AnswerInv
  <2> QED BY <2>1, <2>2
<1>7. ~HasEvidence'
  <2>1. ~HasEvidence
    BY <1>1, Evidence
  <2> QED BY <2>1 DEF HasEvidence
<1>8. ResultInv' /\ EvidenceTrue' /\ BudgetKept'
    BY <1>7, TrueEvidence
<1> QED BY <1>3, <1>4, <1>5, <1>6, <1>8 DEF IInv

LEMMA BridgeGoneKeeps ==
    ASSUME IInv, BridgeWrites \/ BridgeDies PROVE IInv'
<1>1. CASE BridgeWrites
  <2>1. BridgeRuns /\ bridge = "writing" /\ BridgeEnds(TRUE) /\ stdout' = "whole"
    BY <1>1 DEF BridgeWrites, BridgeRuns
  <2>2. writing' \in BOOLEAN /\ (writing' => writing)
    BY <1>1 DEF BridgeWrites, host, IInv, TypeInv
  <2> QED BY <1>1, <2>1, <2>2, EndsKeeps DEF BridgeWrites, host
<1>2. CASE BridgeDies
  <2>1. /\ BridgeRuns /\ BridgeEnds(FALSE)
        /\ stdout' \in {None, "part"} \/ (stdout' = stdout /\ bridge # "writing")
    BY <1>2 DEF BridgeDies
  <2>2. writing' \in BOOLEAN /\ (writing' => writing)
    BY <1>2 DEF BridgeDies, host, IInv, TypeInv
  <2> QED BY <1>2, <2>1, <2>2, EndsKeeps DEF BridgeDies, host
<1> QED BY <1>1, <1>2

LEMMA MarkerFailsKeeps ==
    ASSUME IInv, MarkerFails PROVE IInv'
<1>1. CASE BridgeRuns
  <2>1. /\ BridgeEnds(FALSE)
        /\ stdout' \in {None, "part"} \/ (stdout' = stdout /\ bridge # "writing")
    BY <1>1 DEF MarkerFails
  <2> QED BY <1>1, <2>1, EndsKeeps DEF MarkerFails
<1>2. CASE ~BridgeRuns
  <2>1. /\ UNCHANGED <<task, alive, signal, cancelled, marker, result, run, tree>>
        /\ writing' = FALSE /\ writing' \in BOOLEAN
    BY <1>2 DEF MarkerFails, run, tree
  <2>2. Grows
    BY <2>1 DEF Grows, ToolMarked, tree
  <2>3. TypeInv'
    BY <2>1 DEF IInv, TypeInv, run, tree
  <2>5. HostInv'
    BY <2>1 DEF IInv, HostInv, run
  <2>4. AnswerInv' /\ ResultInv' /\ EvidenceTrue' /\ BudgetKept'
    BY <2>1, <2>2, NoAnswer DEF run, tree
  <2> QED BY <2>1, <2>2, <2>3, <2>4, <2>5, HostOnly DEF IInv
<1> QED BY <1>1, <1>2

\* The evidence is the answer of Run, received whole.
LEMMA BridgeClosedKeeps ==
    ASSUME IInv, BridgeClosed PROVE IInv'
<1>1. /\ alive /\ task = "waiting" /\ bridge = "gone" /\ task' = "settled"
      /\ UNCHANGED <<alive, signal, cancelled, writing, marker, run, tree>>
    BY DEF BridgeClosed, Settle
<1>2. \/ \E why : result' = NotStarted(why)
      \/ /\ stdout = "whole" /\ response.status # "FAILED_TO_START"
         /\ result' = [status |-> response.status, reason |-> response.reason,
                       evidence |-> outcome(response)]
    BY DEF BridgeClosed, Settle, Received
<1>3. Grows
    BY <1>1 DEF Grows, ToolMarked, tree
<1>4. TypeInv' /\ HostInv'
    BY <1>1 DEF IInv, TypeInv, HostInv, run, tree
<1>5. ASSUME stdout = "whole", response.status # "FAILED_TO_START",
             result' = [status |-> response.status, reason |-> response.reason,
                        evidence |-> outcome(response)]
      PROVE  /\ bridge' = "gone" /\ alive' /\ live' = 0 /\ root' \in Exited
             /\ result'.status = "COMPLETED" =>
                   atExit' \cap Usage = {} /\ flood' = {}
             /\ result'.status = "TERMINATED" =>
                   result'.reason \in Reasons /\ Holds(result.reason)'
  <2>1. AnswerTrue(response)
    BY <1>5 DEF IInv, AnswerInv
  <2>2. /\ live = 0 /\ root \in Exited
        /\ response.status = "COMPLETED" => atExit \cap Usage = {} /\ flood = {}
        /\ response.status = "TERMINATED" =>
              response.reason \in Reasons /\ Holds(response.reason)
    BY <1>5, <2>1 DEF AnswerTrue
  <2>3. result'.status = response.status /\ result'.reason = response.reason
    BY <1>5
  <2>4. ASSUME response.status = "TERMINATED" PROVE Holds(result.reason)'
    BY <1>3, <2>2, <2>3, <2>4, HoldsOn
  <2> QED BY <1>1, <2>2, <2>3, <2>4 DEF run, tree
<1>6. ASSUME NEW why, result' = NotStarted(why) PROVE ~HasEvidence'
    BY <1>6, NoEvidence
<1>7. ResultInv' /\ EvidenceTrue' /\ BudgetKept'
    BY <1>2, <1>5, <1>6, TrueEvidence
<1> QED BY <1>1, <1>3, <1>4, <1>7, HostOnly, AnswerOn DEF IInv
-----------------------------------------------------------------------------
(* The process tree.                                                       *)

\* A step of a tree that has a live process, once it was resumed or killed.
LEMMA TreeKeeps ==
    ASSUME IInv, Grows, live > 0, bridge \notin Early \cup {"created"},
           UNCHANGED <<task, alive, signal, cancelled, writing, result, run,
                       job, doomed, inJob>>,
           marker' \in {marker, "tool", None},
           removed' \in SUBSET {"host", "tool"},
           root' \in {"none", "suspended", "running"} \cup Exited,
           live' \in 0 .. MaxLive, over' \subseteq Budgets,
           notes' \subseteq Usage \cap over', notes \subseteq notes',
           flood' \subseteq Streams, atExit' \subseteq over',
           root # "none" => root' # "none", root \in Exited => root' = root,
           root' \in {"running", "suspended"} => live' > 0,
           "PROCESS_COUNT_LIMIT" \in over' =>
              "PROCESS_COUNT_LIMIT" \in over \cup notes',
           root \in Exited => atExit' = atExit
    PROVE  IInv'
<1>1. TypeInv'
    BY DEF IInv, TypeInv, run
<1>2. HostInv'
    BY NoneIsNone DEF IInv, TypeInv, HostInv, run
<1>3. TreeInv'
    BY DEF IInv, TreeInv, run, Early, Reading, AfterLoop
<1>4. ReasonInv'
    BY ReasonOn DEF run
<1>5. \A s \in Streams : reader[s] # "ended"
    BY DEF IInv, TypeInv, ReaderInv
<1>6. ReaderInv'
    BY <1>5 DEF IInv, ReaderInv, run
<1>7. LoopInv'
  <2>1. bridge # "joining"
    BY DEF IInv, LoopInv
  <2>2. bridge \in AfterLoop /\ reason = None =>
           root' \in Exited /\ atExit' \cap Usage = {}
    BY DEF IInv, LoopInv
  <2>3. bridge = "judging" /\ waited => root' \in Exited
    BY DEF IInv, LoopInv
  <2>4. bridge \notin {"writing", "gone"} /\ "PROCESS_COUNT_LIMIT" \in over' =>
           "PROCESS_COUNT_LIMIT" \in notes' \/ reason # None
    BY DEF IInv, LoopInv
  <2>5. UNCHANGED <<bridge, waited, reason>>
    BY DEF run
  <2> QED BY <2>1, <2>2, <2>3, <2>4, <2>5 DEF LoopInv
<1>8. AnswerInv' /\ ResultInv' /\ EvidenceTrue' /\ BudgetKept'
    BY NoAnswer DEF run
<1> QED BY <1>1, <1>2, <1>3, <1>4, <1>6, <1>7, <1>8 DEF IInv

LEMMA BusyKeeps ==
    ASSUME IInv, TreeStep PROVE IInv'
<1>1. /\ Busy /\ live > 0 /\ root \notin {"none", "suspended"}
      /\ bridge \notin Early \cup {"created"}
    BY DEF TreeStep, ToolSpawns, SpawnRefused, ToolMarks, ToolUnmarks,
       DescendantExits, UsageOver, ToolFloods, RootExits, Busy, IInv, TreeInv
<1>2. /\ live \in 0 .. MaxLive /\ MaxLive \in Nat
      /\ root \in {"running"} \cup Exited
      /\ over \subseteq Budgets /\ notes \subseteq Usage \cap over
      /\ atExit \subseteq over /\ flood \subseteq Streams
      /\ marker \in {None, "host", "tool"} /\ Usage \subseteq Budgets
      /\ removed \in SUBSET {"host", "tool"}
    BY <1>1, NoneIsNone DEF IInv, TypeInv, ReasonInv, Budgets
<1>3. CASE ToolSpawns
  <2>1. live' \in 0 .. MaxLive /\ live' > 0
    BY <1>1, <1>2, <1>3 DEF ToolSpawns
  <2>2. UNCHANGED <<host, run, job, doomed, inJob, root, over, notes, flood,
                    removed, atExit>>
    BY <1>3 DEF ToolSpawns
  <2>3. Grows
    BY <2>2 DEF Grows, ToolMarked, host
  <2> QED BY <1>1, <1>2, <2>1, <2>2, <2>3, TreeKeeps DEF host
<1>4. CASE SpawnRefused
  <2>1. /\ over' = over \cup {"PROCESS_COUNT_LIMIT"}
        /\ notes' = notes \cup {"PROCESS_COUNT_LIMIT"}
        /\ UNCHANGED <<host, run, job, doomed, inJob, root, live, flood,
                       removed, atExit>>
    BY <1>4 DEF SpawnRefused
  <2>2. Grows
    BY <2>1 DEF Grows, ToolMarked, host
  <2>3. /\ over' \subseteq Budgets /\ notes' \subseteq Usage \cap over'
        /\ atExit' \subseteq over' /\ notes \subseteq notes'
        /\ "PROCESS_COUNT_LIMIT" \in over \cup notes'
    BY <1>2, <2>1 DEF Usage, Budgets
  <2> QED BY <1>1, <1>2, <2>1, <2>2, <2>3, TreeKeeps DEF host
<1>5. ASSUME NEW b \in Usage, UsageOver(b) PROVE IInv'
  <2>1. /\ over' = over \cup {b} /\ notes' \in {notes, notes \cup {b}}
        /\ b # "PROCESS_COUNT_LIMIT"
        /\ UNCHANGED <<host, run, job, doomed, inJob, root, live, flood,
                       removed, atExit>>
    BY <1>5 DEF UsageOver
  <2>2. Grows
    BY <2>1 DEF Grows, ToolMarked, host
  <2>3. /\ over' \subseteq Budgets /\ notes' \subseteq Usage \cap over'
        /\ atExit' \subseteq over' /\ notes \subseteq notes'
        /\ "PROCESS_COUNT_LIMIT" \in over' =>
              "PROCESS_COUNT_LIMIT" \in over \cup notes'
    BY <1>2, <2>1
  <2> QED BY <1>1, <1>2, <2>1, <2>2, <2>3, TreeKeeps DEF host
<1>6. ASSUME NEW s \in Streams, ToolFloods(s) PROVE IInv'
  <2>1. /\ flood' = flood \cup {s}
        /\ UNCHANGED <<host, run, job, doomed, inJob, root, live, over, notes,
                       removed, atExit>>
    BY <1>6 DEF ToolFloods
  <2>2. Grows /\ flood' \subseteq Streams
    BY <1>2, <2>1 DEF Grows, ToolMarked, host
  <2> QED BY <1>1, <1>2, <2>1, <2>2, TreeKeeps DEF host
<1>7. CASE ToolMarks
  <2>1. /\ marker' = "tool"
        /\ UNCHANGED <<task, alive, signal, cancelled, writing, result, run, tree>>
    BY <1>7 DEF ToolMarks
  <2>2. Grows
    BY <2>1 DEF Grows, ToolMarked, tree
  <2> QED BY <1>1, <1>2, <2>1, <2>2, TreeKeeps DEF tree
<1>10. CASE ToolUnmarks
  <2>1. /\ marker \in {"host", "tool"} /\ marker' = None
        /\ removed' = removed \cup {marker}
        /\ UNCHANGED <<task, alive, signal, cancelled, writing, result, run, job,
                       doomed, inJob, root, live, over, notes, flood, atExit>>
    BY <1>2, <1>10 DEF ToolUnmarks
  <2>2. Grows /\ removed' \subseteq {"host", "tool"}
    BY <2>1, NoneIsNone DEF Grows, ToolMarked, IInv, TypeInv
  <2> QED BY <1>1, <1>2, <2>1, <2>2, TreeKeeps
<1>8. CASE DescendantExits
  <2>1. /\ live' = live - 1 /\ live' \in 0 .. MaxLive
        /\ root = "running" => live' > 0
    BY <1>1, <1>2, <1>8 DEF DescendantExits, RootRuns
  <2>2. UNCHANGED <<host, run, job, doomed, inJob, root, over, notes, flood,
                    removed, atExit>>
    BY <1>8 DEF DescendantExits
  <2>3. Grows
    BY <2>2 DEF Grows, ToolMarked, host
  <2>4. root' \in {"running", "suspended"} => live' > 0
    BY <1>2, <2>1, <2>2 DEF Exited
  <2> QED BY <1>1, <1>2, <2>1, <2>2, <2>3, <2>4, TreeKeeps DEF host
<1>9. ASSUME NEW code \in Exited, RootExits(code) PROVE IInv'
  <2>1. /\ root = "running" /\ root' = code /\ live' = live - 1 /\ atExit' = over
        /\ UNCHANGED <<host, run, job, doomed, inJob, over, notes, flood, removed>>
    BY <1>9 DEF RootExits, RootRuns
  <2>2. Grows /\ live' \in 0 .. MaxLive
    BY <1>1, <1>2, <2>1 DEF Grows, ToolMarked, host
  <2>3. /\ root \notin Exited /\ root' \in Exited /\ root' # "none"
        /\ root' \notin {"running", "suspended"}
    BY <2>1 DEF Exited
  <2> QED BY <1>1, <1>2, <2>1, <2>2, <2>3, TreeKeeps DEF host
<1> QED BY <1>3, <1>4, <1>5, <1>6, <1>7, <1>8, <1>9, <1>10 DEF TreeStep, Exited

LEMMA KilledKeeps ==
    ASSUME IInv, Killed PROVE IInv'
<1>1. /\ doomed /\ live > 0 /\ live' = live - 1
      /\ root' \in IF root \notin {"running", "suspended"} THEN {root}
                   ELSE IF live = 1 THEN {"other"} ELSE {root, "other"}
      /\ UNCHANGED <<host, run, job, doomed, inJob, over, notes, flood,
                     removed, atExit>>
    BY DEF Killed
<1>2. bridge \notin Early \cup {"created"}
    BY <1>1 DEF IInv, TreeInv
<1>3. /\ live \in 0 .. MaxLive /\ MaxLive \in Nat
      /\ root \in {"none", "suspended", "running"} \cup Exited
      /\ over \subseteq Budgets /\ notes \subseteq Usage \cap over
      /\ atExit \subseteq over /\ flood \subseteq Streams
      /\ removed \in SUBSET {"host", "tool"}
    BY NoneIsNone DEF IInv, TypeInv, ReasonInv
<1>4. live' \in 0 .. MaxLive
    BY <1>1, <1>3
<1>5. /\ root' \in {"none", "suspended", "running"} \cup Exited
      /\ root # "none" => root' # "none"
      /\ root \in Exited => root' = root
    BY <1>1, <1>3 DEF Exited
<1>7. root' \in {"running", "suspended"} => live' > 0
  <2>1. CASE live = 1
    BY <1>1, <2>1
  <2>2. CASE live # 1
    BY <1>1, <1>3, <2>2
  <2> QED BY <2>1, <2>2
<1>6. Grows
    BY <1>1 DEF Grows, ToolMarked, host
<1> QED BY <1>1, <1>2, <1>3, <1>4, <1>5, <1>6, <1>7, TreeKeeps DEF host

LEMMA ClockKeeps ==
    ASSUME IInv, ClockOver PROVE IInv'
<1>1. /\ over' = over \cup {"WALL_CLOCK_LIMIT"}
      /\ UNCHANGED <<host, run, job, doomed, inJob, root, live, notes, flood,
                     removed, atExit>>
    BY DEF ClockOver
<1>2. /\ "WALL_CLOCK_LIMIT" \in Budgets /\ "WALL_CLOCK_LIMIT" \notin Usage
    BY DEF Budgets, Usage
<1>3. Grows
    BY <1>1 DEF Grows, ToolMarked, host
<1>4. TypeInv' /\ HostInv'
    BY <1>1, <1>2 DEF IInv, TypeInv, HostInv, host, run
<1>5. TreeInv' /\ ReaderInv'
    BY <1>1, <1>2 DEF IInv, TreeInv, ReaderInv, run
<1>6. ReasonInv'
    BY <1>1, <1>3, ReasonOn DEF IInv, ReasonInv, run
<1>7. LoopInv'
    BY <1>1 DEF IInv, LoopInv, run
<1>8. AnswerInv' /\ ResultInv' /\ EvidenceTrue' /\ BudgetKept'
    BY <1>1, <1>3, NoAnswer DEF host, run
<1> QED BY <1>4, <1>5, <1>6, <1>7, <1>8 DEF IInv
-----------------------------------------------------------------------------
(* The bridge.                                                             *)

\* What a step of Run leaves alone that does not return.
LEMMA BridgeOn ==
    ASSUME IInv, UNCHANGED <<host, response, stdout, over, flood, removed, atExit>>,
           bridge \notin {"absent", "writing", "gone"},
           bridge' \notin {"absent", "writing", "gone"}
    PROVE  Grows /\ HostInv' /\ AnswerInv' /\ ResultInv' /\ EvidenceTrue' /\ BudgetKept'
<1>1. Grows
    BY DEF Grows, ToolMarked, host
<1>2. HostInv'
    BY DEF IInv, HostInv, host
<1>3. AnswerInv' /\ ResultInv' /\ EvidenceTrue' /\ BudgetKept'
    BY <1>1, NoAnswer DEF host
<1> QED BY <1>1, <1>2, <1>3

LEMMA ChecksKeeps ==
    ASSUME IInv, BridgeChecks PROVE IInv'
<1>1. /\ bridge = "checking" /\ bridge' = "armed" /\ job' = "open"
      /\ UNCHANGED <<host, clean, reason, waited, charge, response, stdout, reader,
                     doomed, inJob, root, live, over, notes, flood, removed, atExit>>
    BY DEF BridgeChecks
<1>2. Grows /\ HostInv' /\ AnswerInv' /\ ResultInv' /\ EvidenceTrue' /\ BudgetKept'
    BY <1>1, BridgeOn
<1>3. TypeInv'
    BY <1>1 DEF IInv, TypeInv, host, Early
<1>4. TreeInv' /\ ReaderInv' /\ LoopInv'
    BY <1>1 DEF IInv, TreeInv, ReaderInv, LoopInv, Early, Reading, AfterLoop
<1>5. ReasonInv'
    BY <1>1, <1>2, ReasonOn DEF IInv, ReasonInv
<1> QED BY <1>2, <1>3, <1>4, <1>5 DEF IInv

LEMMA CreatesKeeps ==
    ASSUME IInv, BridgeCreates PROVE IInv'
<1>1. /\ bridge = "armed" /\ bridge' = "created"
      /\ root' = "suspended" /\ live' = 1 /\ inJob' = TRUE
      /\ UNCHANGED <<host, clean, reason, waited, charge, response, stdout, reader,
                     job, doomed, over, notes, flood, removed, atExit>>
    BY DEF BridgeCreates
<1>2. Grows /\ HostInv' /\ AnswerInv' /\ ResultInv' /\ EvidenceTrue' /\ BudgetKept'
    BY <1>1, BridgeOn
<1>3. TypeInv'
  <2>1. live' \in 0 .. MaxLive
    BY <1>1, NoneIsNone
  <2> QED BY <1>1, <2>1 DEF IInv, TypeInv, host
<1>4. TreeInv'
    BY <1>1 DEF IInv, TreeInv, Early, Reading, AfterLoop
<1>5. ReaderInv'
    BY <1>1 DEF IInv, ReaderInv, Early, Reading, AfterLoop
<1>6. LoopInv'
    BY <1>1 DEF IInv, LoopInv, AfterLoop
<1>7. ReasonInv'
    BY <1>1, <1>2, ReasonOn DEF IInv, ReasonInv
<1> QED BY <1>2, <1>3, <1>4, <1>5, <1>6, <1>7 DEF IInv

LEMMA ResumesKeeps ==
    ASSUME IInv, BridgeResumes PROVE IInv'
<1>1. /\ bridge = "created" /\ bridge' = "watching"
      /\ reader' = [s \in Streams |-> "reading"]
      /\ root' = "running"
      /\ UNCHANGED <<host, clean, reason, waited, charge, response, stdout,
                     job, doomed, inJob, live, over, notes, flood, removed, atExit>>
    BY DEF BridgeResumes
<1>2. Grows /\ HostInv' /\ AnswerInv' /\ ResultInv' /\ EvidenceTrue' /\ BudgetKept'
    BY <1>1, BridgeOn
<1>3. TypeInv'
    BY <1>1 DEF IInv, TypeInv, host, Reading
<1>4. TreeInv'
    BY <1>1 DEF IInv, TreeInv, Early
<1>5. ReaderInv'
    BY <1>1 DEF ReaderInv, Early
<1>6. LoopInv'
    BY <1>1 DEF IInv, LoopInv, AfterLoop
<1>7. ReasonInv'
    BY <1>1, <1>2, ReasonOn DEF IInv, ReasonInv
<1> QED BY <1>2, <1>3, <1>4, <1>5, <1>6, <1>7 DEF IInv

LEMMA WaitsKeeps ==
    ASSUME IInv, BridgeWaits PROVE IInv'
<1>1. /\ bridge = "watching" /\ bridge' = "judging"
      /\ waited' = (root \in Exited) /\ waited' \in BOOLEAN
      /\ UNCHANGED <<host, clean, reason, charge, response, stdout, reader, tree>>
    BY DEF BridgeWaits, Exited
<1>2. Grows /\ HostInv' /\ AnswerInv' /\ ResultInv' /\ EvidenceTrue' /\ BudgetKept'
    BY <1>1, BridgeOn DEF tree
<1>3. TypeInv'
    BY <1>1 DEF IInv, TypeInv, host, tree, Reading
<1>4. TreeInv'
    BY <1>1 DEF IInv, TreeInv, Early, Reading, tree
<1>5. ReaderInv'
    BY <1>1 DEF IInv, ReaderInv, Early, Reading, tree
<1>6. LoopInv'
    BY <1>1 DEF IInv, LoopInv, AfterLoop, tree
<1>7. ReasonInv'
    BY <1>1, <1>2, ReasonOn DEF IInv, ReasonInv, tree
<1> QED BY <1>2, <1>3, <1>4, <1>5, <1>6, <1>7 DEF IInv

\* A judgement is the truth, and the limit on the processes is the job's own.
LEMMA JudgementHolds ==
    ASSUME IInv, NEW code \in Judgement
    PROVE  code \in Reasons /\ Holds(code) /\ code # "PROCESS_COUNT_LIMIT"
<1>1. ~(ActiveCount > MaxLive)
    BY NoneIsNone DEF ActiveCount, IInv, TypeInv
<1>2. ~alive \/ marker # None => signal \/ ToolMarked \/ ~alive
    BY DEF IInv, TypeInv, HostInv, ToolMarked
<1>3. CASE ~alive \/ marker # None
    BY <1>2, <1>3 DEF Judgement, Holds, Reasons, Budgets, Usage
<1>4. CASE ~(~alive \/ marker # None)
  <2>1. code \in over \cap {"WALL_CLOCK_LIMIT", "CPU_LIMIT", "MEMORY_LIMIT"}
    BY <1>1, <1>4 DEF Judgement
  <2> QED BY <2>1 DEF Holds, Reasons, Budgets, Usage
<1> QED BY <1>3, <1>4

LEMMA JudgesKeeps ==
    ASSUME IInv, BridgeJudges PROVE IInv'
<1>1. /\ bridge = "judging" /\ notes' = {}
      /\ bridge' = (IF reason' # None \/ waited THEN "closing" ELSE "watching")
      /\ doomed' = (doomed \/ reason' # None)
      /\ UNCHANGED <<host, clean, waited, charge, response, stdout, reader,
                     job, inJob, root, live, over, flood, removed, atExit>>
    BY DEF BridgeJudges
<1>2. PICK noted \in First(reason, notes) : reason' \in First(noted, Judgement)
    BY DEF BridgeJudges
<1>3. bridge' \in {"watching", "closing"}
    BY <1>1
<1>4. Grows /\ HostInv' /\ AnswerInv' /\ ResultInv' /\ EvidenceTrue' /\ BudgetKept'
    BY <1>1, <1>3, BridgeOn
<1>5. /\ notes \subseteq Usage \cap over /\ atExit \subseteq over
      /\ reason \in Reasons \cup {None} /\ Usage \subseteq Reasons
      /\ reason # None => Holds(reason)
    BY DEF IInv, TypeInv, ReasonInv, Reasons, Budgets
\* A reason or a message that is there stays the reason.
<1>6. /\ reason # None => reason' = reason
      /\ reason = None /\ notes # {} => reason' \in notes
      /\ reason = None /\ notes = {} => reason' \in Judgement \cup {None}
      /\ reason = None /\ notes = {} /\ reason' = None => Judgement = {}
  <2>1. CASE reason # None
    BY <1>2, <2>1 DEF First
  <2>2. CASE reason = None /\ notes # {}
    <3>1. noted \in notes /\ noted # None
        BY <1>2, <1>5, <2>2, NoneIsNone DEF First
    <3> QED BY <1>2, <2>2, <3>1 DEF First
  <2>3. CASE reason = None /\ notes = {}
    <3>1. noted = None
        BY <1>2, <2>3 DEF First
    <3>2. Judgement = {} => reason' = None
        BY <1>2, <3>1 DEF First
    <3>3. Judgement # {} => reason' \in Judgement
        BY <1>2, <3>1 DEF First
    <3>4. ASSUME reason' = None PROVE Judgement = {}
        BY <3>3, <3>4, JudgementHolds, NoneIsNone
    <3> QED BY <2>3, <3>2, <3>3, <3>4
  <2> QED BY <2>1, <2>2, <2>3
<1>7. reason' # None => reason' \in Reasons /\ Holds(reason')
  <2>1. CASE reason # None
    BY <1>5, <1>6, <2>1
  <2>2. CASE reason = None /\ notes # {}
    <3>1. PICK code \in Usage \cap over : code = reason'
        BY <1>5, <1>6, <2>2
    <3>2. Holds(code) /\ code \in Reasons
        BY <3>1 DEF Holds, Reasons, Budgets, Usage
    <3> QED BY <3>1, <3>2
  <2>3. CASE reason = None /\ notes = {} /\ reason' # None
    BY <1>6, <2>3, JudgementHolds
  <2> QED BY <2>1, <2>2, <2>3
<1>8. ReasonInv'
  <2>1. ASSUME reason' # None PROVE Holds(reason)'
    <3>1. PICK code \in Reasons : code = reason' /\ Holds(code)
        BY <1>7, <2>1
    <3>2. Holds(code)'
        BY <1>4, <3>1, HoldsOn
    <3> QED BY <3>1, <3>2
  <2>2. charge' # None => charge' \in over'
    BY <1>1 DEF IInv, ReasonInv
  <2> QED BY <1>1, <2>1, <2>2 DEF ReasonInv
<1>9. TypeInv'
  <2>1. doomed' \in BOOLEAN
    BY <1>1 DEF IInv, TypeInv
  <2>2. bridge' \in Reading
    BY <1>3 DEF Reading, AfterLoop
  <2> QED BY <1>1, <1>7, <2>1, <2>2 DEF IInv, TypeInv, host
<1>10. TreeInv'
    BY <1>1, <1>3 DEF IInv, TreeInv, Early, Reading, AfterLoop
<1>11. ReaderInv'
    BY <1>1, <1>3, <1>6 DEF IInv, ReaderInv, Early, Reading, AfterLoop
<1>12. LoopInv'
  <2>1. "PROCESS_COUNT_LIMIT" \in over => reason' # None
    BY <1>1, <1>5, <1>6, NoneIsNone DEF IInv, LoopInv
  <2>2. ASSUME reason' = None, bridge' \in AfterLoop
        PROVE  root \in Exited /\ atExit \cap Usage = {}
    <3>1. waited /\ root \in Exited
        BY <1>1, <2>2 DEF IInv, LoopInv, AfterLoop
    <3>2. reason = None /\ notes = {} /\ Judgement = {}
        BY <1>5, <1>6, <2>2, NoneIsNone
    <3>3. "CPU_LIMIT" \notin over /\ "MEMORY_LIMIT" \notin over
        BY <3>2 DEF Judgement
    <3> QED BY <1>5, <2>1, <2>2, <3>1, <3>3 DEF Usage
  <2> QED BY <1>1, <1>3, <2>1, <2>2 DEF LoopInv
<1> QED BY <1>4, <1>8, <1>9, <1>10, <1>11, <1>12 DEF IInv

LEMMA RereadsKeeps ==
    ASSUME IInv, BridgeRereads PROVE IInv'
<1>1. /\ bridge = "closing" /\ bridge' = "charging"
      /\ charge' \in {None} \cup (over \cap Usage)
      /\ UNCHANGED <<host, clean, reason, waited, response, stdout, reader, tree>>
    BY DEF BridgeRereads, Usage
<1>2. Grows /\ HostInv' /\ AnswerInv' /\ ResultInv' /\ EvidenceTrue' /\ BudgetKept'
    BY <1>1, BridgeOn DEF tree
<1>3. TypeInv'
    BY <1>1 DEF IInv, TypeInv, host, tree, Reading, AfterLoop, Reasons, Budgets
<1>4. TreeInv'
    BY <1>1 DEF IInv, TreeInv, Early, Reading, AfterLoop, tree
<1>5. ReaderInv'
    BY <1>1 DEF IInv, ReaderInv, Early, Reading, AfterLoop, tree
<1>6. LoopInv'
    BY <1>1 DEF IInv, LoopInv, AfterLoop, tree
<1>7. ReasonInv'
  <2>1. reason # None => reason \in Reasons /\ Holds(reason)
    BY DEF IInv, TypeInv, ReasonInv
  <2>2. reason # None => Holds(reason)'
    BY <1>1, <1>2, <2>1, HoldsOn
  <2> QED BY <1>1, <2>2 DEF IInv, ReasonInv, tree
<1> QED BY <1>2, <1>3, <1>4, <1>5, <1>6, <1>7 DEF IInv

\* The charge replaces what a reader has found meanwhile: both are true.
LEMMA ChargesKeeps ==
    ASSUME IInv, BridgeCharges PROVE IInv'
<1>1. /\ bridge = "charging" /\ bridge' = "draining"
      /\ reason' = (IF charge # None THEN charge ELSE reason)
      /\ charge' = None /\ doomed' = TRUE
      /\ UNCHANGED <<host, clean, waited, response, stdout, reader,
                     job, inJob, root, live, over, notes, flood, removed, atExit>>
    BY DEF BridgeCharges
<1>2. Grows /\ HostInv' /\ AnswerInv' /\ ResultInv' /\ EvidenceTrue' /\ BudgetKept'
    BY <1>1, BridgeOn
<1>3. TypeInv'
    BY <1>1 DEF IInv, TypeInv, host, Reading, AfterLoop
<1>4. TreeInv'
    BY <1>1 DEF IInv, TreeInv, Early, Reading, AfterLoop
<1>5. ReaderInv'
    BY <1>1 DEF IInv, ReaderInv, Early, Reading, AfterLoop
<1>6. LoopInv'
    BY <1>1 DEF IInv, LoopInv, AfterLoop
<1>7. ReasonInv'
  <2>1. ASSUME reason' # None PROVE reason' \in Reasons /\ Holds(reason')
    <3>1. CASE charge # None
      <4>1. PICK code \in Budgets \cap over : code = reason'
          BY <1>1, <3>1 DEF IInv, TypeInv, ReasonInv
      <4>2. Holds(code) /\ code \in Reasons
          BY <4>1 DEF Holds, Reasons, Budgets, Usage
      <4> QED BY <4>1, <4>2
    <3>2. CASE charge = None
        BY <1>1, <2>1, <3>2 DEF IInv, TypeInv, ReasonInv
    <3> QED BY <3>1, <3>2
  <2>2. ASSUME reason' # None PROVE Holds(reason)'
    <3>1. PICK code \in Reasons : code = reason' /\ Holds(code)
        BY <2>1, <2>2
    <3>2. Holds(code)'
        BY <1>2, <3>1, HoldsOn
    <3> QED BY <3>1, <3>2
  <2> QED BY <1>1, <2>2 DEF IInv, ReasonInv
<1> QED BY <1>2, <1>3, <1>4, <1>5, <1>6, <1>7 DEF IInv

LEMMA DrainsKeeps ==
    ASSUME IInv, BridgeDrains PROVE IInv'
<1>1. /\ bridge = "draining" /\ live = 0 /\ bridge' = "joining"
      /\ UNCHANGED <<host, clean, reason, waited, charge, response, stdout, reader,
                     tree>>
    BY DEF BridgeDrains, ActiveCount
<1>2. Grows /\ HostInv' /\ AnswerInv' /\ ResultInv' /\ EvidenceTrue' /\ BudgetKept'
    BY <1>1, BridgeOn DEF tree
<1>3. TypeInv'
    BY <1>1 DEF IInv, TypeInv, host, tree, Reading, AfterLoop
<1>4. TreeInv'
    BY <1>1 DEF IInv, TreeInv, Early, Reading, AfterLoop, tree
<1>5. ReaderInv'
    BY <1>1 DEF IInv, ReaderInv, Early, Reading, AfterLoop, tree
<1>6. LoopInv'
    BY <1>1 DEF IInv, LoopInv, AfterLoop, tree
<1>7. ReasonInv'
    BY <1>1, <1>2, ReasonOn DEF IInv, ReasonInv, tree
<1> QED BY <1>2, <1>3, <1>4, <1>5, <1>6, <1>7 DEF IInv
-----------------------------------------------------------------------------
(* The answer and the readers.                                             *)

\* Run returns; what it returns is true of the tree.
LEMMA ReturnKeeps ==
    ASSUME IInv, NEW answer, Return(answer), AnswerTrue(answer),
           bridge \notin {"absent", "gone"}
    PROVE  IInv'
<1>1. /\ response' = answer /\ bridge' = "writing"
      /\ job' = (IF job = "open" THEN "closed" ELSE job)
      /\ doomed' = (doomed \/ job = "open")
      /\ UNCHANGED <<host, clean, reason, waited, charge, stdout, reader,
                     inJob, root, live, over, notes, flood, removed, atExit>>
    BY DEF Return
<1>2. Grows
    BY <1>1 DEF Grows, ToolMarked, host
<1>3. TypeInv'
  <2>1. job' \in {"none", "open", "closed"} /\ doomed' \in BOOLEAN
    BY <1>1 DEF IInv, TypeInv
  <2> QED BY <1>1, <2>1 DEF IInv, TypeInv, host
<1>4. HostInv'
    BY <1>1 DEF IInv, HostInv, host
<1>5. TreeInv'
    BY <1>1 DEF IInv, TreeInv, Early, Reading, AfterLoop
<1>6. ReaderInv'
    BY <1>1 DEF IInv, ReaderInv, Early, Reading, AfterLoop
<1>7. LoopInv'
    BY <1>1 DEF LoopInv, AfterLoop
<1>8. ReasonInv'
    BY <1>1, <1>2, ReasonOn DEF IInv, ReasonInv
<1>9. AnswerInv'
  <2>1. ASSUME answer.status = "TERMINATED", answer.reason \in Reasons,
               Holds(answer.reason)
        PROVE  Holds(response.reason)'
    BY <1>1, <1>2, <2>1, HoldsOn
  <2>2. AnswerTrue(response)'
    BY <1>1, <2>1 DEF AnswerTrue
  <2>3. stdout' # "whole"
    BY <1>1 DEF IInv, AnswerInv
  <2> QED BY <2>2, <2>3 DEF AnswerInv
<1>10. ResultInv' /\ EvidenceTrue' /\ BudgetKept'
  <2>1. ~HasEvidence
    BY Evidence
  <2>2. ~HasEvidence'
    BY <1>1, <2>1 DEF HasEvidence, host
  <2> QED BY <2>2, TrueEvidence
<1> QED BY <1>3, <1>4, <1>5, <1>6, <1>7, <1>8, <1>9, <1>10 DEF IInv

\* With its readers joined and no reason given, a run kept its budgets.
LEMMA AnswersKeeps ==
    ASSUME IInv, BridgeAnswers PROVE IInv'
<1>1. bridge = "joining" /\ Joined /\ Return(Completion)
    BY DEF BridgeAnswers
<1>2. live = 0 /\ root # "none" /\ root \in Exited
    BY <1>1 DEF IInv, TypeInv, TreeInv, LoopInv, Exited, Reading, AfterLoop
<1>3. CASE reason = None
  <2>1. Completion.status = "COMPLETED"
    BY <1>3 DEF Completion
  <2>2. \A s \in Streams : reader[s] = "ended"
    BY <1>1, <1>3 DEF IInv, TypeInv, ReaderInv, Joined, Reading, AfterLoop
  <2>3. flood = {}
    BY <2>2 DEF IInv, TypeInv, ReaderInv
  <2>4. atExit \cap Usage = {}
    BY <1>1, <1>3 DEF IInv, LoopInv, AfterLoop
  <2>5. AnswerTrue(Completion)
    BY <1>2, <2>1, <2>3, <2>4 DEF AnswerTrue
  <2> QED BY <1>1, <2>5, ReturnKeeps
<1>4. CASE reason # None
  <2>1. Completion.status = "TERMINATED" /\ Completion.reason = reason
    BY <1>4 DEF Completion
  <2>2. reason \in Reasons /\ Holds(reason)
    BY <1>4 DEF IInv, TypeInv, ReasonInv
  <2>3. AnswerTrue(Completion)
    BY <1>2, <2>1, <2>2 DEF AnswerTrue
  <2> QED BY <1>1, <2>3, ReturnKeeps
<1> QED BY <1>3, <1>4

LEMMA ThrowsKeeps ==
    ASSUME IInv, BridgeThrows PROVE IInv'
<1>1. /\ bridge \notin {"absent", "gone"}
      /\ Return([status |-> "FAILED_TO_START", code |-> "BRIDGE_FAILURE"])
    BY DEF BridgeThrows
<1>2. AnswerTrue([status |-> "FAILED_TO_START", code |-> "BRIDGE_FAILURE"])
    BY DEF AnswerTrue
<1> QED BY <1>1, <1>2, ReturnKeeps

LEMMA ReaderKeeps ==
    ASSUME IInv, NEW s \in Streams, ReaderStep(s) PROVE IInv'
<1>1. /\ reader[s] = "reading"
      /\ UNCHANGED <<host, bridge, clean, waited, charge, response, stdout,
                     job, inJob, root, live, over, notes, flood, removed, atExit>>
    BY DEF ReaderStep, ReaderOverruns, ReaderEnds, tree
<1>2. bridge \notin Early \cup {"created"}
    BY <1>1 DEF IInv, ReaderInv
<1>3. Grows
    BY <1>1 DEF Grows, ToolMarked, host
<1>4. AnswerInv' /\ ResultInv' /\ EvidenceTrue' /\ BudgetKept'
    BY <1>1, <1>3, NoAnswer DEF host
<1>5. HostInv'
    BY <1>1 DEF IInv, HostInv, host
<1>6. CASE ReaderOverruns(s)
  <2>1. /\ reader' = [reader EXCEPT ![s] = "stopped"] /\ doomed' = TRUE
        /\ s \in flood
        /\ reason' = IF reason = None THEN "OUTPUT_LIMIT" ELSE reason
    BY <1>6 DEF ReaderOverruns, First
  <2>2. TypeInv'
    BY <1>1, <2>1 DEF IInv, TypeInv, host, Reasons
  <2>3. TreeInv'
    BY <1>1, <1>2, <2>1 DEF IInv, TreeInv
  <2>4. reason' # None
    BY <2>1, NoneIsNone DEF Reasons
  <2>5. ReaderInv'
    <3>1. reader \in [Streams -> {"off", "reading", "stopped", "ended"}]
        BY DEF IInv, TypeInv
    <3> QED BY <1>1, <1>2, <2>1, <2>4, <3>1 DEF IInv, ReaderInv
  <2>6. LoopInv'
    BY <1>1, <2>4 DEF IInv, LoopInv
  <2>7. Holds(reason)'
    <3>1. PICK code \in Reasons : code = reason' /\ Holds(code)
      <4>1. CASE reason = None
        <5>1. Holds("OUTPUT_LIMIT")
            BY <2>1 DEF Holds, Budgets, Usage
        <5> QED BY <2>1, <4>1, <5>1 DEF Reasons
      <4>2. CASE reason # None
        BY <2>1, <4>2 DEF IInv, TypeInv, ReasonInv
      <4> QED BY <4>1, <4>2
    <3>2. Holds(code)'
        BY <1>3, <3>1, HoldsOn
    <3> QED BY <3>1, <3>2
  <2>8. ReasonInv'
    BY <1>1, <2>7 DEF IInv, ReasonInv
  <2> QED BY <1>4, <1>5, <2>2, <2>3, <2>5, <2>6, <2>8 DEF IInv
<1>7. CASE ReaderEnds(s)
  <2>1. /\ reader' = [reader EXCEPT ![s] = "ended"]
        /\ s \notin flood /\ live = 0
        /\ UNCHANGED <<reason, doomed>>
    BY <1>7 DEF ReaderEnds, tree
  <2>2. TypeInv'
    BY <1>1, <2>1 DEF IInv, TypeInv, host
  <2>3. TreeInv'
    BY <1>1, <2>1 DEF IInv, TreeInv
  <2>4. ReaderInv'
    <3>1. reader \in [Streams -> {"off", "reading", "stopped", "ended"}]
        BY DEF IInv, TypeInv
    <3> QED BY <1>1, <1>2, <2>1, <3>1 DEF IInv, ReaderInv
  <2>5. LoopInv'
    BY <1>1, <2>1 DEF IInv, LoopInv
  <2>6. ReasonInv'
    BY <1>1, <1>3, <2>1, ReasonOn DEF IInv, ReasonInv
  <2> QED BY <1>4, <1>5, <2>2, <2>3, <2>4, <2>5, <2>6 DEF IInv
<1> QED BY <1>6, <1>7 DEF ReaderStep
-----------------------------------------------------------------------------
(* The evidence.                                                           *)

LEMMA InitInv == Init => IInv
<1> SUFFICES ASSUME Init PROVE IInv
    OBVIOUS
<1>1. TypeInv
  <2>1. live \in 0 .. MaxLive
    BY NoneIsNone DEF Init
  <2>2. reader \in [Streams -> {"off", "reading", "stopped", "ended"}]
    BY DEF Init
  <2> QED BY <2>1, <2>2 DEF Init, TypeInv, Early
<1>2. HostInv /\ TreeInv /\ ReasonInv
    BY NoneIsNone DEF Init, HostInv, TreeInv, ReasonInv, Early, Reading, AfterLoop
<1>3. ReaderInv /\ LoopInv
    BY DEF Init, ReaderInv, LoopInv, Early, Reading, AfterLoop
<1>4. AnswerInv
    BY NoneIsNone DEF Init, AnswerInv
<1>5. ResultInv /\ EvidenceTrue /\ BudgetKept
    BY DEF Init, ResultInv, EvidenceTrue, EvidenceClosed, ReasonTrue, BudgetKept,
       HasEvidence
<1> QED BY <1>1, <1>2, <1>3, <1>4, <1>5 DEF IInv

LEMMA StutterKeeps == ASSUME IInv, UNCHANGED vars PROVE IInv'
<1>1. UNCHANGED <<host, run, tree>>
    BY DEF vars
<1>2. Grows
    BY <1>1 DEF Grows, ToolMarked, host, tree
<1>3. TypeInv' /\ HostInv'
    BY <1>1 DEF IInv, TypeInv, HostInv, host, run, tree
<1>4. AnswerInv' /\ ResultInv' /\ EvidenceTrue' /\ BudgetKept'
    BY <1>1, <1>2, NoAnswer DEF host, run, tree
<1> QED BY <1>1, <1>2, <1>3, <1>4, HostOnly DEF IInv

LEMMA NextInv == IInv /\ [Next]_vars => IInv'
<1> SUFFICES ASSUME IInv, [Next]_vars PROVE IInv'
    OBVIOUS
<1>1. CASE HostStep
    BY <1>1, PreparesKeeps, SpawnedKeeps, SignalKeeps, MarkerFailsKeeps,
       BridgeClosedKeeps DEF HostStep
<1>2. CASE Abort \/ HostDies
    BY <1>2, SignalKeeps
<1>3. CASE BridgeStep
    BY <1>3, ChecksKeeps, CreatesKeeps, ResumesKeeps, WaitsKeeps, JudgesKeeps,
       RereadsKeeps, ChargesKeeps, DrainsKeeps, AnswersKeeps, ThrowsKeeps,
       BridgeGoneKeeps DEF BridgeStep
<1>4. CASE BridgeDies
    BY <1>4, BridgeGoneKeeps
<1>5. CASE \E s \in Streams : ReaderStep(s)
    BY <1>5, ReaderKeeps
<1>6. CASE TreeStep
    BY <1>6, BusyKeeps
<1>7. CASE ClockOver
    BY <1>7, ClockKeeps
<1>8. CASE Killed
    BY <1>8, KilledKeeps
<1>9. CASE UNCHANGED vars
    BY <1>9, StutterKeeps
<1> QED BY <1>1, <1>2, <1>3, <1>4, <1>5, <1>6, <1>7, <1>8, <1>9 DEF Next

LEMMA InvHolds == Spec => []IInv
<1>1. Init /\ [][Next]_vars => []IInv
    BY InitInv, NextInv, PTL
<1> QED BY <1>1, PTL DEF Spec

\* Every variable keeps to its values: the states of host, bridge, readers, job and
\* tree are those executeRestrictedWorkerTask and Run name, and never more
\* processes live than the job's limit allows.
THEOREM IsolationTypeCorrect == Spec => []TypeOK
<1>1. IInv => TypeOK
    BY DEF IInv, TypeInv, TypeOK, Early, AfterLoop, Reading, Exited
<1> QED BY <1>1, InvHolds, PTL

\* Whatever ends a task, its evidence is true: when runWindowsProcessRestricted
\* gives it, no process of the tree lives and none starts later, and the reason
\* it names for a termination did occur, although a reader of win32-bridge.ps1
\* and its main loop write terminationReason without a common lock.
THEOREM EvidenceIsTrue == Spec => []EvidenceTrue
<1>1. IInv => EvidenceTrue
    BY DEF IInv
<1> QED BY <1>1, InvHolds, PTL

\* A task reported as completed used up none of its budgets before its root
\* process exited, and none of its output was cut off: Run reads the usage, the
\* notifications and the readers after the exit and before it answers.
THEOREM BudgetIsKept == Spec => []BudgetKept
<1>1. IInv => BudgetKept
    BY DEF IInv
<1> QED BY <1>1, InvHolds, PTL
=============================================================================

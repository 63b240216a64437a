--------------------------- MODULE ProcessBridge ----------------------------
(***************************************************************************)
(* The Basecamp backend that runs one proofgate command at a time in one   *)
(* QProcess: start, cancel with a delayed kill, and the reports of         *)
(* operationFinished.  Operations are numbered in the order in which start *)
(* accepts them.                                                           *)
(*                                                                         *)
(* QProcess is external: start does nothing while a process is not ended,  *)
(* waitForStarted sees it run, fail or still starting after                *)
(* kStartTimeoutMs; finished is emitted once for a process that ran,       *)
(* together with its return to NotRunning.                                 *)
(***************************************************************************)
EXTENDS Naturals, Sequences, FiniteSets

CONSTANTS
    Binaries,         \* paths the user may enter for the proofgate binary
    DefaultBinary,    \* what the constructor finds without a setting
    Arguments,        \* argument lists: [command, flags], flags with their paths
    MaxOperations,    \* bound on the operations started in one session
    MaxTimers         \* bound on the kill timers pending at once

ASSUME ProcessBridgeBounds == MaxOperations \in Nat

VARIABLES
    settings,   \* QSettings: set of at most one configured binary
    ui,         \* [busy, binary, error, exit_code, reports]: what the view sees
    buffers,    \* the operations whose output is in m_stdout and m_stderr
    operation,  \* number of the last accepted start
    child,      \* the operation whose process the QProcess holds, 0 if NotRunning
    state,      \* QProcess::state
    timers,     \* armed kill timers, each by the operation that was cancelled
    cancelled,  \* history: operations for which cancel returned true
    overdue,    \* history: waitForStarted gave up on a process that was still starting
    signals     \* signals the child received

process == <<child, state, timers, cancelled, overdue, signals>>
bridge == <<settings, ui, buffers, operation, process>>

ExitCodes == {0, 1}      \* 1 stands for every other exit and for a crash
NotStarted == 2          \* the exit code -1

\* The constructor's view: the configured binary, or the one that is found.
view(configured) ==
    [busy |-> FALSE,
     binary |-> IF configured = {} THEN DefaultBinary ELSE CHOOSE b \in configured : TRUE,
     error |-> FALSE, exit_code |-> 0, reports |-> << >>]

BridgeInit ==
    /\ settings = {}
    /\ ui = view(settings)
    /\ buffers = {}
    /\ operation = 0
    /\ child = 0
    /\ state = "NotRunning"
    /\ timers = << >>
    /\ cancelled = {}
    /\ overdue = FALSE
    /\ signals = {}

\* The destructor kills what still runs, with the QProcess go its timers, and the
\* application is opened again.
Reopen ==
    /\ ui' = view(settings)
    /\ buffers' = {}
    /\ operation' = 0
    /\ child' = 0
    /\ state' = "NotRunning"
    /\ timers' = << >>
    /\ cancelled' = {}
    /\ overdue' = FALSE
    /\ signals' = {}
    /\ UNCHANGED settings

\* configureProofgateBinary; executable is what QFileInfo says at that moment.
ConfigureProofgateBinary(path, executable) ==
    /\ ~ui.busy
    /\ IF executable
       THEN /\ ui' = [ui EXCEPT !.binary = path, !.error = FALSE]
            /\ settings' = {path}
       ELSE /\ ui' = [ui EXCEPT !.error = TRUE]
            /\ UNCHANGED settings
    /\ UNCHANGED <<buffers, operation, process>>

\* Clearing busy and emitting operationFinished; the report goes to the operation
\* the view believes to be running and carries what the buffers hold.
report(v, op, exit_code, error, output) ==
    [v EXCEPT !.busy = FALSE, !.error = error, !.exit_code = exit_code,
              !.reports = Append(@, [op |-> op, success |-> exit_code = 0,
                                     output |-> output])]

\* Mutant: the early return is missing.
fail_to_start_always(v, op) == report(v, op, NotStarted, TRUE, {})

\* failToStart returns at once when the failure was reported already.
fail_to_start(v, op) == IF v.busy THEN report(v, op, NotStarted, TRUE, {}) ELSE v

\* The flags whose files validateRequiredInputs looks at, if they are given.
required_flags(arguments) ==
    CASE arguments.command = "prove"   -> {"--gate", "--input", "--account-snapshot"}
      [] arguments.command = "present" -> {"--proof", "--challenge", "--presenter-key"}
      [] OTHER                         -> {}

missing_inputs(arguments, readable) ==
    {flag \in required_flags(arguments) \cap DOMAIN arguments.flags :
       arguments.flags[flag] \notin readable}

\* start refuses before it touches the process: the binary cannot be run, or an
\* input file is missing.
StartRefused(arguments, executable, readable) ==
    /\ ~ui.busy
    /\ \/ /\ ~executable
          /\ ui' = [ui EXCEPT !.error = TRUE]
       \/ /\ executable
          /\ missing_inputs(arguments, readable) # {}
          /\ ui' = [ui EXCEPT !.error = TRUE, !.exit_code = NotStarted]
    /\ UNCHANGED <<settings, buffers, operation, process>>

\* start up to QProcess::start: the operation is accepted, what the view shows of
\* the last one is cleared and busy is set.
Accept(arguments, readable) ==
    /\ ~ui.busy
    /\ missing_inputs(arguments, readable) = {}
    /\ operation < MaxOperations
    /\ operation' = operation + 1
    /\ buffers' = {}
    /\ UNCHANGED settings

accepted == [ui EXCEPT !.busy = TRUE, !.error = FALSE, !.exit_code = 0]

\* The new process runs, or QProcess still holds an older one that runs.
Start(arguments, readable) ==
    /\ Accept(arguments, readable)
    /\ ui' = accepted
    /\ state' = "Running"
    /\ child' = IF state = "NotRunning" THEN operation' ELSE child
    /\ signals' = IF state = "NotRunning" THEN {} ELSE signals
    /\ UNCHANGED <<timers, cancelled, overdue>>

\* errorOccurred(FailedToStart) reports from inside waitForStarted, and start
\* calls failToStart again when waitForStarted has returned false.
StartFails(arguments, readable) ==
    /\ Accept(arguments, readable)
    /\ state # "Running"
    /\ ui' = fail_to_start(fail_to_start(accepted, operation'), operation')
    /\ state' = "NotRunning"
    /\ child' = 0
    /\ UNCHANGED <<timers, cancelled, signals, overdue>>

\* waitForStarted gives up on a process that is still starting.
StartTimesOut(arguments, readable) ==
    /\ Accept(arguments, readable)
    /\ state # "Running"
    /\ ui' = fail_to_start(accepted, operation')
    /\ overdue' = TRUE
    /\ state' = "Starting"
    /\ child' = IF state = "NotRunning" THEN operation' ELSE child
    /\ signals' = IF state = "NotRunning" THEN {} ELSE signals
    /\ UNCHANGED <<timers, cancelled>>

\* A process that waitForStarted gave up on fails, or runs after all.
LateFailure ==
    /\ state = "Starting"
    /\ ui' = fail_to_start(ui, operation)
    /\ state' = "NotRunning"
    /\ child' = 0
    /\ UNCHANGED <<settings, buffers, operation, timers, cancelled, signals, overdue>>

LateStart ==
    /\ state = "Starting"
    /\ state' = "Running"
    /\ UNCHANGED <<settings, ui, buffers, operation, child, timers, cancelled, signals,
                   overdue>>

\* The process wrote something; lastError shows stderr, written or not.
DrainOutput ==
    /\ state = "Running"
    /\ buffers' = buffers \cup {child}
    /\ \E error \in BOOLEAN : ui' = [ui EXCEPT !.error = error]
    /\ UNCHANGED <<settings, operation, process>>

\* Mutant: only SIGTERM, no kill after the grace period.
CancelWithoutTimer ==
    /\ ui.busy
    /\ state # "NotRunning"
    /\ Len(timers) < MaxTimers
    /\ signals' = signals \cup {"TERM"}
    /\ cancelled' = cancelled \cup {operation}
    /\ UNCHANGED <<settings, ui, buffers, operation, child, state, timers, overdue>>

\* cancel: terminate now, kill in kCancelGraceMs.  It may be pressed again.
Cancel ==
    /\ ui.busy
    /\ state # "NotRunning"
    /\ Len(timers) < MaxTimers
    /\ signals' = signals \cup {"TERM"}
    /\ timers' = Append(timers, operation)
    /\ cancelled' = cancelled \cup {operation}
    /\ UNCHANGED <<settings, ui, buffers, operation, child, state, overdue>>

\* The oldest timer fires: whatever the QProcess runs now is killed.
KillTimer ==
    /\ timers # << >>
    /\ timers' = Tail(timers)
    /\ signals' = IF state # "NotRunning" THEN signals \cup {"KILL"} ELSE signals
    /\ UNCHANGED <<settings, ui, buffers, operation, child, state, cancelled, overdue>>

\* Mutant: the report leaves the view busy.
FinishStillBusy(exit_code, written) ==
    /\ state = "Running"
    /\ buffers' = buffers \cup written
    /\ ui' = [report(ui, operation, exit_code, exit_code # 0, buffers') EXCEPT !.busy = TRUE]
    /\ state' = "NotRunning"
    /\ child' = 0
    /\ UNCHANGED <<settings, operation, timers, cancelled, signals, overdue>>

\* The process ends, by itself or by a signal; finish drains what it had written
\* and reports.  A failure always has an error text, a success has one when
\* something was written to stderr.
Finish(exit_code, written) ==
    /\ state = "Running"
    /\ buffers' = buffers \cup written
    /\ \E error \in BOOLEAN :
         /\ exit_code # 0 => error
         /\ error => exit_code # 0 \/ buffers' # {}
         /\ ui' = report(ui, operation, exit_code, error, buffers')
    /\ state' = "NotRunning"
    /\ child' = 0
    /\ UNCHANGED <<settings, operation, timers, cancelled, signals, overdue>>

Ends == \E exit_code \in ExitCodes, written \in {{}, {child}} : Finish(exit_code, written)

BridgeNext ==
    \/ \E path \in Binaries, executable \in BOOLEAN :
         ConfigureProofgateBinary(path, executable)
    \/ \E arguments \in Arguments :
         \E readable \in SUBSET {arguments.flags[flag] : flag \in DOMAIN arguments.flags} :
           \/ \E executable \in BOOLEAN : StartRefused(arguments, executable, readable)
           \/ Start(arguments, readable)
           \/ StartFails(arguments, readable)
           \/ StartTimesOut(arguments, readable)
    \/ LateFailure \/ LateStart \/ DrainOutput
    \/ Cancel \/ KillTimer \/ Ends
    \/ Reopen

\* Timers fire, and a process that was sent SIGKILL ends.  A command may run for
\* ever and may ignore SIGTERM, and nobody has to press a button.
BridgeSpec ==
    /\ BridgeInit /\ [][BridgeNext]_bridge
    /\ WF_bridge(KillTimer)
    /\ WF_bridge("KILL" \in signals /\ Ends)

---------------------------------------------------------------------------
(* Properties.                                                             *)

Reports(op) == {i \in DOMAIN ui.reports : ui.reports[i].op = op}

\* Types, and that the view is never busy without a running process whose end will
\* free it.
BridgeTypeOK ==
    /\ settings \subseteq Binaries
    /\ ui.binary \in Binaries \cup {DefaultBinary}
    /\ operation \in 0 .. MaxOperations /\ child \in 0 .. operation
    /\ state \in {"NotRunning", "Starting", "Running"}
    /\ signals \subseteq {"TERM", "KILL"}
    /\ ui.busy => state = "Running"

\* Every accepted operation is reported once it is over and not before, and exactly
\* once although a failed start is noticed twice, by the signal and by
\* waitForStarted; its report carries no output of another operation.  Only a
\* process that starts after waitForStarted gave up on it is reported again when it
\* ends, and can leave its output to the next operation.  The free view never looks
\* as if the last operation had succeeded when it failed, although starts that are
\* refused and newly configured binaries set and clear its error text.
ReportedTruly ==
    /\ \A op \in 1 .. operation :
         IF op = operation /\ ui.busy
         THEN Reports(op) = {}
         ELSE /\ Reports(op) # {}
              /\ ~overdue => /\ Cardinality(Reports(op)) = 1
                             /\ \A i \in Reports(op) : ui.reports[i].output \subseteq {op}
    /\ ~ui.busy /\ ui.reports # << >> /\ ~ui.reports[Len(ui.reports)].success
         => ui.exit_code # 0 \/ ui.error

\* A cancelled operation ends even when its process ignores SIGTERM.
CancelledEnds ==
    \A op \in 1 .. MaxOperations :
      op \in cancelled ~> (Reports(op) # {} \/ op \notin cancelled)

\* "selecting Cancel terminates the child process, so an interrupted proof must be
\* restarted": the restarted operation is not the one that Cancel kills.
OnlyCancelledAreKilled ==
    ~overdue /\ "KILL" \in signals /\ state # "NotRunning" => child \in cancelled
=============================================================================

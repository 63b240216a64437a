------------------------- MODULE Channels_proofs ----------------------------
(***************************************************************************)
(* Proofs about the two channels that carry what commands say: the bridge  *)
(* from the desktop app to the process of a command, and the transfer of a *)
(* presentation over a conversation.                                       *)
(***************************************************************************)
EXTENDS ProcessBridge, Messaging, SequenceTheorems, FiniteSetTheorems,
        WellFoundedInduction, TLAPS

(***************************************************************************)
(* The process bridge, for any binaries, commands and number of operations:*)
(* the view is never busy without a running process, every operation is    *)
(* reported when it is over and, unless waitForStarted gave up on a        *)
(* process, exactly once and with its own output only.                     *)
(*                                                                         *)
(* ReportedTruly does not say why a report that is made now is the first   *)
(* of its operation and carries no foreign output.  The invariant adds it: *)
(* the view is busy exactly while the process of the last operation runs,  *)
(* and the buffers were cleared when that operation was accepted.          *)
(***************************************************************************)

---------------------------------------------------------------------------
(* The inductive invariant.                                                *)

ReportRecord == [op : Nat, success : BOOLEAN, output : SUBSET Nat]

Codes == ExitCodes \cup {NotStarted}

View == [busy : BOOLEAN, binary : Binaries \cup {DefaultBinary}, error : BOOLEAN,
         exit_code : Codes, reports : Seq(ReportRecord)]

\* What operationFinished carries.
Finished(op, exit_code, output) ==
    [op |-> op, success |-> exit_code = 0, output |-> output]

Types ==
    /\ settings \subseteq Binaries
    /\ ui \in View
    /\ buffers \subseteq Nat
    /\ operation \in 0 .. MaxOperations /\ child \in 0 .. operation
    /\ state \in {"NotRunning", "Starting", "Running"}
    /\ signals \subseteq {"TERM", "KILL"}

\* Unless a start was given up, the view is busy while the last operation runs.
Synchronous ==
    /\ ui.busy => state = "Running"
    /\ state = "NotRunning" <=> child = 0
    /\ ~overdue => /\ state # "Starting"
                   /\ state = "Running" => ui.busy /\ child = operation
                   /\ ui.busy => buffers \subseteq {operation}

\* What there is to say of one operation.
Reported(op) ==
    IF op = operation /\ ui.busy
    THEN Reports(op) = {}
    ELSE /\ Reports(op) # {}
         /\ ~overdue => /\ Cardinality(Reports(op)) = 1
                        /\ \A i \in Reports(op) : ui.reports[i].output \subseteq {op}

FailureShows ==
    ~ui.busy /\ ui.reports # << >> /\ ~ui.reports[Len(ui.reports)].success =>
      ui.exit_code # 0

Accounts ==
    /\ \A i \in DOMAIN ui.reports : ui.reports[i].op \in 1 .. operation
    /\ \A op \in 1 .. operation : Reported(op)

BridgeInv == Types /\ Synchronous /\ FailureShows /\ Accounts

---------------------------------------------------------------------------
(* The reports.                                                            *)

\* Steps that report nothing and accept nothing.
LEMMA NothingReported ==
    ASSUME BridgeInv, ui'.reports = ui.reports, ui'.busy = ui.busy,
           ui'.exit_code = ui.exit_code \/ ui'.exit_code # 0,
           UNCHANGED <<operation, overdue>>
    PROVE  FailureShows' /\ Accounts'
<1>1. \A op : Reports(op)' = Reports(op)
  BY DEF Reports
<1>2. FailureShows'
  BY DEF BridgeInv, FailureShows
<1>3. \A op \in 1 .. operation : Reported(op)'
  BY <1>1 DEF BridgeInv, Accounts, Reported
<1>4. QED
  BY <1>2, <1>3 DEF BridgeInv, Accounts

\* operationFinished adds one report and leaves the others as they are.
LEMMA ReportAdds ==
    ASSUME Types, NEW o \in Nat, NEW code, NEW out \in SUBSET Nat,
           ui'.reports = Append(ui.reports, Finished(o, code, out))
    PROVE  /\ Len(ui.reports) \in Nat /\ DOMAIN ui.reports = 1 .. Len(ui.reports)
           /\ Len(ui'.reports) = Len(ui.reports) + 1
           /\ DOMAIN ui'.reports = 1 .. (Len(ui.reports) + 1)
           /\ \A i \in DOMAIN ui.reports : ui'.reports[i] = ui.reports[i]
           /\ ui'.reports[Len(ui.reports) + 1].op = o
           /\ ui'.reports[Len(ui.reports) + 1].success <=> code = 0
           /\ ui'.reports[Len(ui.reports) + 1].output = out
           /\ \A op : Reports(op)' = IF op = o THEN Reports(op) \cup {Len(ui.reports) + 1}
                                     ELSE Reports(op)
<1> DEFINE r == Finished(o, code, out)
           n == Len(ui.reports)
<1>1. ui.reports \in Seq(ReportRecord)
  BY DEF Types, View
<1>2. /\ r \in ReportRecord
      /\ r.op = o /\ (r.success <=> code = 0) /\ r.output = out
  BY DEF Finished, ReportRecord
<1> HIDE DEF r
<1>3. /\ ui'.reports \in Seq(ReportRecord) /\ Len(ui'.reports) = n + 1
      /\ \A i \in 1 .. n : ui'.reports[i] = ui.reports[i]
      /\ ui'.reports[n + 1] = r
  BY <1>1, <1>2, AppendProperties DEF r
<1>4. n \in Nat /\ DOMAIN ui.reports = 1 .. n /\ DOMAIN ui'.reports = 1 .. (n + 1)
  BY <1>1, <1>3, LenProperties
<1>5. ASSUME NEW op
      PROVE  Reports(op)' = IF op = o THEN Reports(op) \cup {n + 1} ELSE Reports(op)
  <2>1. \A i : i \in Reports(op)' <=> i \in 1 .. (n + 1) /\ ui'.reports[i].op = op
    BY <1>4 DEF Reports
  <2>2. \A i : i \in Reports(op) <=> i \in 1 .. n /\ ui.reports[i].op = op
    BY <1>4 DEF Reports
  <2>3. \A i : i \in 1 .. (n + 1) <=> i \in 1 .. n \/ i = n + 1
    BY <1>4
  <2>4. \A i : i \in Reports(op)' <=> i \in Reports(op) \/ (i = n + 1 /\ op = o)
    BY <1>2, <1>3, <1>4, <2>1, <2>2, <2>3
  <2>5. QED
    BY <2>4
<1>6. QED
  BY <1>2, <1>3, <1>4, <1>5

\* A report for the last operation, which may have been accepted in the same step.
LEMMA LastReported ==
    ASSUME BridgeInv, NEW code, NEW out \in SUBSET Nat,
           operation' = operation \/ (operation' = operation + 1 /\ ~ui.busy),
           operation' \in Nat, operation' # 0,
           ui'.reports = Append(ui.reports, Finished(operation', code, out)),
           ~ui'.busy, ui'.exit_code = code,
           ~overdue' => ~overdue, ~overdue' => out \subseteq {operation'},
           ~overdue' /\ operation' = operation => ui.busy
    PROVE  FailureShows' /\ Accounts'
<1> DEFINE n == Len(ui.reports)
<1>1. /\ n \in Nat /\ DOMAIN ui.reports = 1 .. n
      /\ Len(ui'.reports) = n + 1 /\ DOMAIN ui'.reports = 1 .. (n + 1)
      /\ \A i \in DOMAIN ui.reports : ui'.reports[i] = ui.reports[i]
      /\ ui'.reports[n + 1].op = operation'
      /\ ui'.reports[n + 1].success <=> code = 0
      /\ ui'.reports[n + 1].output = out
      /\ \A op : Reports(op)' = IF op = operation' THEN Reports(op) \cup {n + 1}
                                ELSE Reports(op)
  BY ReportAdds DEF BridgeInv
<1> HIDE DEF n
<1>2. operation \in Nat
  BY ProcessBridgeBounds DEF BridgeInv, Types
<1>3. FailureShows'
  BY <1>1 DEF FailureShows
<1>4. \A i \in DOMAIN ui'.reports : ui'.reports[i].op \in 1 .. operation'
  <2> SUFFICES ASSUME NEW i \in DOMAIN ui'.reports
               PROVE  ui'.reports[i].op \in 1 .. operation'
    OBVIOUS
  <2>1. CASE i = n + 1
    BY <1>1, <2>1
  <2>2. CASE i \in DOMAIN ui.reports
    BY <1>1, <1>2, <2>2 DEF BridgeInv, Accounts
  <2>3. QED
    BY <1>1, <2>1, <2>2
<1>5. ASSUME NEW op \in 1 .. operation'
      PROVE  Reported(op)'
  <2>1. CASE op # operation'
    <3>1. op \in 1 .. operation /\ ~(op = operation /\ ui.busy)
      BY <1>2, <2>1
    <3>2. Reports(op)' = Reports(op) /\ Reports(op) \subseteq DOMAIN ui.reports
      BY <1>1, <2>1 DEF Reports
    <3>3. Reported(op)
      BY <3>1 DEF BridgeInv, Accounts
    <3>4. \A i \in Reports(op) : ui'.reports[i] = ui.reports[i]
      BY <1>1, <3>2
    <3>5. QED
      BY <2>1, <3>1, <3>2, <3>3, <3>4 DEF Reported
  <2>2. CASE op = operation'
    <3>1. Reports(op)' = Reports(op) \cup {n + 1}
      BY <1>1, <2>2
    <3>2. ASSUME ~overdue' PROVE Reports(op) = {}
      <4>1. CASE operation' = operation
        BY <2>2, <3>2, <4>1 DEF BridgeInv, Accounts, Reported
      <4>2. CASE operation' = operation + 1
        BY <1>2, <2>2, <4>2 DEF BridgeInv, Accounts, Reports
      <4>3. QED
        BY <4>1, <4>2
    <3>3. ~overdue' => Reports(op)' = {n + 1}
      BY <3>1, <3>2
    <3>4. Cardinality({n + 1}) = 1
      BY FS_Singleton
    <3>5. QED
      BY <1>1, <2>2, <3>1, <3>3, <3>4 DEF Reported
  <2>3. QED
    BY <2>1, <2>2
<1>6. QED
  BY <1>3, <1>4, <1>5 DEF Accounts

\* The view after a report.
IsReport(w, v, op, exit_code, output) ==
    /\ w \in View /\ w.busy = FALSE /\ w.exit_code = exit_code
    /\ w.reports = Append(v.reports, Finished(op, exit_code, output))

\* report keeps the shape of the view and frees it.
LEMMA ReportShape ==
    ASSUME NEW v \in View, NEW op \in Nat, NEW exit_code \in Codes, NEW error \in BOOLEAN,
           NEW output \in SUBSET Nat
    PROVE  IsReport(report(v, op, exit_code, error, output), v, op, exit_code, output)
<1> DEFINE r == Finished(op, exit_code, output)
           w == report(v, op, exit_code, error, output)
<1>1. r \in ReportRecord
  BY DEF Finished, ReportRecord
<1>2. v.reports \in Seq(ReportRecord)
  BY DEF View
<1>3. w = [v EXCEPT !.busy = FALSE, !.error = error, !.exit_code = exit_code,
                    !.reports = Append(v.reports, r)]
  BY DEF report, View, Finished
<1> HIDE DEF r, w
<1>4. Append(v.reports, r) \in Seq(ReportRecord)
  BY <1>1, <1>2, AppendProperties
<1>5. /\ w \in View /\ w.busy = FALSE /\ w.exit_code = exit_code
      /\ w.reports = Append(v.reports, r)
  BY <1>3, <1>4 DEF View
<1>6. QED
  BY <1>5 DEF IsReport, r, w

---------------------------------------------------------------------------
(* The steps.                                                              *)

\* The user's settings, refused starts and everything that only signals or drains.
LEMMA QuietStep ==
    ASSUME BridgeInv,
           \/ \E path \in Binaries, executable \in BOOLEAN :
                ConfigureProofgateBinary(path, executable)
           \/ \E arguments, executable, readable :
                StartRefused(arguments, executable, readable)
           \/ LateStart \/ DrainOutput \/ Cancel \/ KillTimer
    PROVE  BridgeInv'
<1>1. /\ ui'.reports = ui.reports /\ ui'.busy = ui.busy /\ ui' \in View
      /\ ui'.exit_code = ui.exit_code \/ ui'.exit_code # 0
      /\ UNCHANGED <<operation, overdue>>
  <2>1. CASE UNCHANGED ui /\ UNCHANGED <<operation, overdue>>
    BY <2>1 DEF BridgeInv, Types
  <2>2. CASE \E path \in Binaries, executable \in BOOLEAN :
               ConfigureProofgateBinary(path, executable)
    BY <2>2 DEF ConfigureProofgateBinary, BridgeInv, Types, View, process
  <2>3. CASE \E arguments, executable, readable :
               StartRefused(arguments, executable, readable)
    <3>1. \/ ui' = [ui EXCEPT !.error = TRUE]
          \/ ui' = [ui EXCEPT !.error = TRUE, !.exit_code = NotStarted]
      BY <2>3 DEF StartRefused
    <3>2. UNCHANGED <<operation, overdue>>
      BY <2>3 DEF StartRefused, process
    <3>3. NotStarted \in Codes /\ NotStarted # 0 /\ ui \in View
      BY DEF Codes, NotStarted, BridgeInv, Types
    <3>4. CASE ui' = [ui EXCEPT !.error = TRUE]
      BY <3>2, <3>3, <3>4 DEF View
    <3>5. CASE ui' = [ui EXCEPT !.error = TRUE, !.exit_code = NotStarted]
      BY <3>2, <3>3, <3>5 DEF View
    <3>6. QED
      BY <3>1, <3>4, <3>5
  <2>4. CASE DrainOutput
    BY <2>4 DEF DrainOutput, BridgeInv, Types, View, process
  <2>5. QED
    BY <2>1, <2>2, <2>3, <2>4 DEF LateStart, Cancel, KillTimer
<1>2. FailureShows' /\ Accounts'
  BY <1>1, NothingReported
<1>3. Types'
  <2>1. settings' \subseteq Binaries
    BY DEF ConfigureProofgateBinary, StartRefused, LateStart, DrainOutput, Cancel,
           KillTimer, BridgeInv, Types
  <2>2. child \in Nat
    BY ProcessBridgeBounds DEF BridgeInv, Types
  <2>3. buffers' \subseteq Nat /\ child' = child
    BY <2>2
    DEF ConfigureProofgateBinary, StartRefused, LateStart, DrainOutput, Cancel,
        KillTimer, BridgeInv, Types, process
  <2>4. state' \in {"NotRunning", "Starting", "Running"} /\ signals' \subseteq {"TERM", "KILL"}
    BY DEF ConfigureProofgateBinary, StartRefused, LateStart, DrainOutput, Cancel,
           KillTimer, BridgeInv, Types, process
  <2>5. QED
    BY <1>1, <2>1, <2>3, <2>4 DEF BridgeInv, Types
<1>4. Synchronous'
  <2>1. CASE LateStart
    BY <1>1, <2>1 DEF LateStart, BridgeInv, Synchronous
  <2>2. CASE DrainOutput
    BY <1>1, <2>2 DEF DrainOutput, BridgeInv, Synchronous, process
  <2>3. CASE UNCHANGED <<buffers, child, state>>
    BY <1>1, <2>3 DEF BridgeInv, Synchronous
  <2>4. QED
    BY <2>1, <2>2, <2>3 DEF ConfigureProofgateBinary, StartRefused, Cancel, KillTimer, process
<1>5. QED
  BY <1>2, <1>3, <1>4 DEF BridgeInv

\* Accepting an operation keeps the shape of the view.
LEMMA AcceptedShape ==
    ASSUME ui \in View
    PROVE  accepted \in View /\ accepted.busy = TRUE /\ accepted.reports = ui.reports
BY DEF accepted, View, Codes, ExitCodes

\* start when the process runs, or when an older one still does.
LEMMA StartStep ==
    ASSUME BridgeInv, NEW arguments, NEW readable, Start(arguments, readable)
    PROVE  BridgeInv'
<1>1. /\ ~ui.busy /\ operation \in Nat /\ operation < MaxOperations
      /\ operation' = operation + 1 /\ buffers' = {} /\ UNCHANGED settings
      /\ state' = "Running" /\ UNCHANGED overdue
      /\ child' = IF state = "NotRunning" THEN operation + 1 ELSE child
      /\ signals' \subseteq signals
  BY ProcessBridgeBounds DEF Start, Accept, BridgeInv, Types
<1>2. ui' \in View /\ ui'.busy /\ ui'.reports = ui.reports
  BY AcceptedShape DEF Start, BridgeInv, Types
<1>3. Types'
  BY <1>1, <1>2, ProcessBridgeBounds DEF BridgeInv, Types
<1>4. Synchronous'
  BY <1>1, <1>2 DEF BridgeInv, Types, Synchronous
<1>5. FailureShows'
  BY <1>2 DEF FailureShows
<1>6. \A op : Reports(op)' = Reports(op)
  BY <1>2 DEF Reports
<1>7. Reports(operation + 1) = {}
  BY <1>1 DEF BridgeInv, Accounts, Reports
<1>8. ASSUME NEW op \in 1 .. (operation + 1)
      PROVE  Reported(op)'
  <2>1. CASE op = operation + 1
    BY <1>1, <1>2, <1>6, <1>7, <2>1 DEF Reported
  <2>2. CASE op \in 1 .. operation
    BY <1>1, <1>2, <1>6, <2>2 DEF Reported, BridgeInv, Accounts
  <2>3. QED
    BY <1>1, <2>1, <2>2
<1>9. Accounts'
  BY <1>1, <1>2, <1>8 DEF BridgeInv, Accounts
<1>10. QED
  BY <1>3, <1>4, <1>5, <1>9 DEF BridgeInv

\* A start that fails, which is noticed twice, or that is given up.
LEMMA FailStep ==
    ASSUME BridgeInv, NEW arguments, NEW readable,
           StartFails(arguments, readable) \/ StartTimesOut(arguments, readable)
    PROVE  BridgeInv'
<1>1. /\ ~ui.busy /\ operation \in Nat /\ operation < MaxOperations
      /\ operation' = operation + 1 /\ buffers' = {} /\ UNCHANGED settings
  BY ProcessBridgeBounds DEF StartFails, StartTimesOut, Accept, BridgeInv, Types
<1> DEFINE v == accepted
           w == report(v, operation + 1, NotStarted, TRUE, {})
<1>2. v \in View /\ v.busy = TRUE /\ v.reports = ui.reports
  BY AcceptedShape DEF BridgeInv, Types
<1>3. IsReport(w, v, operation + 1, NotStarted, {})
  <2>1. NotStarted \in Codes /\ operation + 1 \in Nat /\ {} \in SUBSET Nat
    BY <1>1 DEF Codes
  <2> HIDE DEF v
  <2>2. QED
    BY <1>2, <2>1, ReportShape
<1>4. ui' = w
  <2>1. fail_to_start(v, operation + 1) = w
    BY <1>2 DEF fail_to_start
  <2>2. fail_to_start(w, operation + 1) = w
    BY <1>3 DEF fail_to_start, IsReport
  <2>3. QED
    BY <1>1, <2>1, <2>2 DEF StartFails, StartTimesOut
<1> HIDE DEF v, w
<1>5. ui'.reports = Append(ui.reports, Finished(operation', NotStarted, {}))
  BY <1>1, <1>2, <1>3, <1>4 DEF IsReport
<1>6. /\ state' \in {"NotRunning", "Starting"} /\ signals' \subseteq signals
      /\ ~overdue' => ~overdue
      /\ child' \in 0 .. (operation + 1)
      /\ state' = "NotRunning" <=> child' = 0
      /\ ~overdue' => state' = "NotRunning"
  BY <1>1, ProcessBridgeBounds DEF StartFails, StartTimesOut, BridgeInv, Types, Synchronous
<1>7. ui' \in View /\ ~ui'.busy /\ ui'.exit_code = NotStarted
  BY <1>3, <1>4 DEF IsReport
<1>8. Types'
  BY <1>1, <1>6, <1>7, ProcessBridgeBounds DEF BridgeInv, Types
<1>9. Synchronous'
  BY <1>6, <1>7 DEF Synchronous
<1>10. FailureShows' /\ Accounts'
  <2>1. operation' \in Nat \ {0} /\ {} \in SUBSET Nat /\ operation' # operation
    BY <1>1
  <2>2. QED
    BY <1>1, <1>5, <1>6, <1>7, <2>1, LastReported
<1>11. QED
  BY <1>8, <1>9, <1>10 DEF BridgeInv

\* A process that was given up fails: nobody waits for it any more.
LEMMA LateFailureStep ==
    ASSUME BridgeInv, LateFailure
    PROVE  BridgeInv'
<1>1. ~ui.busy
  BY DEF LateFailure, BridgeInv, Synchronous
<1>2. /\ ui' = ui /\ state' = "NotRunning" /\ child' = 0
      /\ UNCHANGED <<settings, buffers, operation, signals, overdue>>
  BY <1>1 DEF LateFailure, fail_to_start
<1>3. FailureShows' /\ Accounts'
  BY <1>2, NothingReported
<1>4. Types' /\ Synchronous'
  BY <1>1, <1>2, ProcessBridgeBounds DEF BridgeInv, Types, Synchronous
<1>5. QED
  BY <1>3, <1>4 DEF BridgeInv

\* The process ends and is reported.
LEMMA FinishStep ==
    ASSUME BridgeInv, NEW exit_code \in ExitCodes, NEW written \in {{}, {child}},
           Finish(exit_code, written)
    PROVE  BridgeInv'
<1>1. /\ state = "Running" /\ state' = "NotRunning" /\ child' = 0
      /\ buffers' = buffers \cup written
      /\ UNCHANGED <<settings, operation, signals, overdue>>
  BY DEF Finish
<1>2. /\ operation \in Nat \ {0} /\ child \in Nat /\ buffers' \in SUBSET Nat
      /\ exit_code \in Codes
  <2>1. operation \in Nat /\ child \in 1 .. operation
    BY <1>1, ProcessBridgeBounds DEF BridgeInv, Types, Synchronous
  <2>2. buffers' \in SUBSET Nat
    <3>1. buffers \subseteq Nat /\ written \subseteq {child} /\ child \in Nat
      BY <2>1 DEF BridgeInv, Types
    <3>2. QED
      BY <1>1, <3>1
  <2>3. QED
    BY <2>1, <2>2 DEF Codes
<1>3. PICK error \in BOOLEAN : ui' = report(ui, operation, exit_code, error, buffers')
  BY DEF Finish
<1>4. ui \in View
  BY DEF BridgeInv, Types
<1>5. IsReport(ui', ui, operation, exit_code, buffers')
  BY <1>2, <1>3, <1>4, ReportShape
<1>6. ~overdue => ui.busy /\ buffers' \subseteq {operation}
  BY <1>1 DEF BridgeInv, Synchronous
<1>7. /\ ui' \in View /\ ~ui'.busy /\ ui'.exit_code = exit_code
      /\ ui'.reports = Append(ui.reports, Finished(operation', exit_code, buffers'))
  BY <1>1, <1>5 DEF IsReport
<1>8. FailureShows' /\ Accounts'
  <2>1. PICK out \in SUBSET Nat : out = buffers'
    BY <1>2
  <2>2. /\ operation' \in Nat /\ operation' # 0
        /\ ui'.reports = Append(ui.reports, Finished(operation', exit_code, out))
    BY <1>1, <1>2, <1>7, <2>1
  <2>3. ~overdue' => out \subseteq {operation'}
    BY <1>1, <1>6, <2>1
  <2>4. ~overdue' => ~overdue /\ ui.busy
    BY <1>1, <1>6
  <2>5. QED
    BY <1>1, <1>7, <2>2, <2>3, <2>4, LastReported
<1>9. Types' /\ Synchronous'
  BY <1>1, <1>2, <1>7 DEF BridgeInv, Types, Synchronous
<1>10. QED
  BY <1>8, <1>9 DEF BridgeInv

\* The view with which the application opens is free and has nothing to report.
LEMMA FreshView ==
    ASSUME NEW configured, configured \subseteq Binaries
    PROVE  /\ view(configured) \in View /\ ~view(configured).busy
           /\ view(configured).reports = << >>
<1>1. (IF configured = {} THEN DefaultBinary ELSE CHOOSE b \in configured : TRUE)
         \in Binaries \cup {DefaultBinary}
  OBVIOUS
<1>2. 0 \in Codes /\ << >> \in Seq(ReportRecord)
  BY DEF Codes, ExitCodes
<1>3. QED
  BY <1>1, <1>2 DEF view, View

---------------------------------------------------------------------------
(* The theorems.                                                           *)

\* The invariant of the bridge.
THEOREM BridgeInductive == BridgeSpec => []BridgeInv
<1>1. BridgeInit => BridgeInv
  <2> SUFFICES ASSUME BridgeInit PROVE BridgeInv
    OBVIOUS
  <2>1. ui \in View /\ ~ui.busy /\ ui.reports = << >> /\ settings = {}
    BY FreshView DEF BridgeInit
  <2>2. Types /\ Synchronous
    BY <2>1, ProcessBridgeBounds DEF BridgeInit, Types, Synchronous
  <2>3. FailureShows /\ Accounts
    BY <2>1 DEF BridgeInit, FailureShows, Accounts
  <2>4. QED
    BY <2>2, <2>3 DEF BridgeInv
<1>2. BridgeInv /\ [BridgeNext]_bridge => BridgeInv'
  <2> SUFFICES ASSUME BridgeInv, [BridgeNext]_bridge PROVE BridgeInv'
    OBVIOUS
  <2>1. CASE \/ \E path \in Binaries, executable \in BOOLEAN :
                  ConfigureProofgateBinary(path, executable)
             \/ LateStart \/ DrainOutput \/ Cancel \/ KillTimer
    BY <2>1, QuietStep
  <2>2. ASSUME NEW arguments \in Arguments,
               NEW readable \in
                 SUBSET {arguments.flags[flag] : flag \in DOMAIN arguments.flags},
               \/ \E executable \in BOOLEAN : StartRefused(arguments, executable, readable)
               \/ Start(arguments, readable)
               \/ StartFails(arguments, readable)
               \/ StartTimesOut(arguments, readable)
        PROVE  BridgeInv'
    BY <2>2, QuietStep, StartStep, FailStep
  <2>3. CASE LateFailure
    BY <2>3, LateFailureStep
  <2>4. CASE Ends
    BY <2>4, FinishStep DEF Ends
  <2>5. CASE Reopen
    <3>1. /\ ui' \in View /\ ~ui'.busy /\ ui'.reports = << >>
          /\ UNCHANGED settings
      BY <2>5, FreshView DEF Reopen, BridgeInv, Types
    <3>2. Types' /\ Synchronous'
      BY <2>5, <3>1, ProcessBridgeBounds DEF Reopen, BridgeInv, Types, Synchronous
    <3>3. FailureShows' /\ Accounts'
      BY <2>5, <3>1 DEF Reopen, FailureShows, Accounts
    <3>4. QED
      BY <3>2, <3>3 DEF BridgeInv
  <2>6. CASE UNCHANGED bridge
    <3>1. UNCHANGED <<settings, ui, buffers, operation, child, state, overdue, signals>>
      BY <2>6 DEF bridge, process
    <3>2. FailureShows' /\ Accounts'
      BY <3>1, NothingReported
    <3>3. QED
      BY <3>1, <3>2 DEF BridgeInv, Types, Synchronous
  <2>7. QED
    BY <2>1, <2>2, <2>3, <2>4, <2>5, <2>6 DEF BridgeNext
<1>3. QED
  BY <1>1, <1>2, PTL DEF BridgeSpec

\* Every value stays in its type, and the view is never busy without a running
\* process: no start that fails or is given up leaves the buttons disabled for good.
THEOREM BridgeTypeCorrect == BridgeSpec => []BridgeTypeOK
<1>1. BridgeInv => BridgeTypeOK
  BY DEF BridgeInv, Types, Synchronous, BridgeTypeOK, View
<1>2. QED
  BY <1>1, BridgeInductive, PTL

\* Every operation is reported when it is over, once and with its own output, in
\* any sequence of starts, cancels, failures and settings; the exceptions are those
\* of a process that waitForStarted gave up on.
THEOREM Reporting == BridgeSpec => []ReportedTruly
<1>1. BridgeInv => ReportedTruly
  BY DEF BridgeInv, Accounts, Reported, FailureShows, ReportedTruly
<1>2. QED
  BY <1>1, BridgeInductive, PTL

(***************************************************************************)
(* The transfer, for any transfers, chunk sizes, windows and posts of      *)
(* others: what is received is what was packed, and an honest transfer is  *)
(* never rejected.                                                         *)
(*                                                                         *)
(* A result says nothing of the messages it was assembled from, and the    *)
(* buffer nothing of who posted them.  The invariant therefore follows the *)
(* messages: what is posted or still to be sent under a transfer id is     *)
(* noise or comes from the one bundle packed under that id, what the       *)
(* receiver keeps was posted by whom it expects, and a receive that ended  *)
(* ended for a reason.                                                     *)
(***************************************************************************)

---------------------------------------------------------------------------
(* Tables, joined sequences and cut sequences.                             *)

\* A set of natural numbers that is not empty has a least element.
LEMMA LeastIndex ==
    ASSUME NEW S, S \subseteq Nat, S # {}
    PROVE  \E m \in S : \A j \in S : m <= j
<1> DEFINE R == OpToRel(<, Nat)
<1>1. IsWellFoundedOn(R, Nat)
  BY NatLessThanWellFounded
<1>2. \A x, y \in Nat : x < y => <<x, y>> \in R
  BY DEF OpToRel
<1> HIDE DEF R
<1>3. PICK m \in S : \A j \in S : ~(<<j, m>> \in R)
  BY <1>1, WFMin
<1>4. \A j \in S : m <= j
  <2> SUFFICES ASSUME NEW j \in S PROVE m <= j
    OBVIOUS
  <2>1. m \in Nat /\ j \in Nat /\ ~(j < m)
    BY <1>2, <1>3
  <2>2. QED
    BY <2>1
<1>5. QED
  BY <1>4

\* Induction over a range of indices, with a set for the property.
LEMMA IndexInduction ==
    ASSUME NEW lo \in Nat, NEW hi \in Nat, NEW S, lo \in S,
           \A i \in lo .. hi : i # hi /\ i \in S => i + 1 \in S
    PROVE  \A i \in lo .. hi : i \in S
<1> DEFINE Missing == {i \in lo .. hi : i \notin S}
<1> SUFFICES ASSUME Missing # {} PROVE FALSE
  OBVIOUS
<1>1. Missing \subseteq Nat
  OBVIOUS
<1>2. PICK m \in Missing : \A j \in Missing : m <= j
  <2> HIDE DEF Missing
  <2>1. QED
    BY <1>1, LeastIndex
<1>3. m \in lo .. hi /\ m \notin S /\ m # lo
  OBVIOUS
<1>4. m - 1 \in lo .. hi /\ m - 1 \notin Missing
  <2> HIDE DEF Missing
  <2>1. QED
    BY <1>2, <1>3
<1>5. m - 1 \in S
  BY <1>4
<1>6. QED
  <2> HIDE DEF Missing
  <2>1. (m - 1) + 1 \in S
    BY <1>3, <1>4, <1>5
  <2>2. QED
    BY <1>3, <2>1

\* A table f that starts with first and goes on as step says.
Follows(f, lo, hi, first, step) ==
    /\ DOMAIN f = lo .. hi
    /\ f = [i \in lo .. hi |-> IF i = lo THEN first ELSE step[i][f[i - 1]]]

HasTable(lo, hi, X, first, step) ==
    \E f \in [lo .. hi -> X] : Follows(f, lo, hi, first, step)

\* A recursive definition over a range of indices has a solution.
LEMMA TableExists ==
    ASSUME NEW lo \in Nat, NEW hi \in Nat, lo <= hi, NEW X, NEW first \in X,
           NEW step, \A i \in lo .. hi : i # lo => step[i] \in [X -> X]
    PROVE  HasTable(lo, hi, X, first, step)
<1> DEFINE S == {n \in lo .. hi : \E f \in [lo .. n -> X] : Follows(f, lo, n, first, step)}
<1>1. lo \in S
  <2> DEFINE g == [i \in lo .. lo |-> first]
  <2>1. g \in [lo .. lo -> X] /\ Follows(g, lo, lo, first, step)
    BY DEF Follows
  <2> HIDE DEF g
  <2>2. QED
    BY <2>1
<1>2. ASSUME NEW n \in lo .. hi, n # hi, n \in S PROVE n + 1 \in S
  <2>0. n \in Nat /\ lo <= n /\ n + 1 \in lo .. hi
    BY <1>2
  <2>1. PICK f \in [lo .. n -> X] : Follows(f, lo, n, first, step)
    BY <1>2
  <2> HIDE DEF S
  <2> DEFINE g == [i \in lo .. (n + 1) |-> IF i <= n THEN f[i] ELSE step[n + 1][f[n]]]
  <2>2. n \in lo .. n /\ f[n] \in X /\ step[n + 1] \in [X -> X]
    BY <2>0
  <2>3. step[n + 1][f[n]] \in X
    BY <2>2
  <2>4. g \in [lo .. (n + 1) -> X]
    BY <2>0, <2>3
  <2>5. ASSUME NEW i \in lo .. (n + 1)
        PROVE  g[i] = IF i = lo THEN first ELSE step[i][g[i - 1]]
    <3>1. CASE i <= n
      <4>1. i \in lo .. n /\ g[i] = f[i]
        BY <3>1, <2>0
      <4>2. f[i] = IF i = lo THEN first ELSE step[i][f[i - 1]]
        BY <4>1, <2>1 DEF Follows
      <4>3. i # lo => g[i - 1] = f[i - 1]
        BY <3>1, <2>0
      <4> HIDE DEF g
      <4>4. QED
        BY <4>1, <4>2, <4>3
    <3>2. CASE i = n + 1
      <4>1. g[i] = step[n + 1][f[n]] /\ g[i - 1] = f[n] /\ i # lo
        BY <3>2, <2>0
      <4> HIDE DEF g
      <4>2. QED
        BY <4>1, <3>2
    <3>3. QED
      BY <3>1, <3>2, <2>0
  <2>6. Follows(g, lo, n + 1, first, step)
    BY <2>4, <2>5 DEF Follows
  <2> HIDE DEF g
  <2>7. \E h \in [lo .. (n + 1) -> X] : Follows(h, lo, n + 1, first, step)
    BY <2>4, <2>6
  <2>8. QED
    BY <2>0, <2>7 DEF S
<1>3. hi \in lo .. hi
  OBVIOUS
<1>4. \A i \in lo .. hi : i # hi /\ i \in S => i + 1 \in S
  BY <1>2
<1>5. hi \in S
  <2> HIDE DEF S
  <2>1. QED
    BY <1>1, <1>4, <1>3, IndexInduction
<1>6. QED
  BY <1>5 DEF HasTable

\* What FlattenSeq goes through: each piece is put behind those before it.
Joins(f, seqs, k) ==
    /\ DOMAIN f = 1 .. k
    /\ f[1] = seqs[1]
    /\ \A i \in 2 .. k : f[i] = f[i - 1] \o seqs[i]
    /\ FlattenSeq(seqs) = f[k]

\* There is such a table, so FlattenSeq is what it says.
LEMMA FlattenUnfolds ==
    ASSUME NEW S, NEW k \in Nat, k # 0, NEW seqs \in Seq(Seq(S)), Len(seqs) = k
    PROVE  \E f : Joins(f, seqs, k)
<1> DEFINE F(f) == f = [i \in 1 .. k |-> IF i = 1 THEN seqs[i] ELSE f[i - 1] \o seqs[i]]
           flatten == CHOOSE f : F(f)
           step == [i \in 2 .. k |-> [x \in Seq(S) |-> x \o seqs[i]]]
<1>1. FlattenSeq(seqs) = flatten[k]
  BY DEF FlattenSeq
<1>0. \A i \in 1 .. k : seqs[i] \in Seq(S)
  BY ElementOfSeq
<1>2. \A i \in 1 .. k : i # 1 => step[i] \in [Seq(S) -> Seq(S)]
  <2> SUFFICES ASSUME NEW i \in 1 .. k, i # 1 PROVE step[i] \in [Seq(S) -> Seq(S)]
    OBVIOUS
  <2>1. step[i] = [x \in Seq(S) |-> x \o seqs[i]]
    OBVIOUS
  <2>2. \A x \in Seq(S) : x \o seqs[i] \in Seq(S)
    BY <1>0, ConcatProperties
  <2> HIDE DEF step
  <2>3. QED
    BY <2>1, <2>2
<1>3. \E f : F(f)
  <2>1. 1 \in Nat /\ 1 <= k /\ 1 \in 1 .. k /\ seqs[1] \in Seq(S)
    BY <1>0
  <2>2. HasTable(1, k, Seq(S), seqs[1], step)
    <3> HIDE DEF step
    <3>1. QED
      BY <1>2, <2>1, TableExists
  <2>3. PICK f \in [1 .. k -> Seq(S)] : Follows(f, 1, k, seqs[1], step)
    BY <2>2 DEF HasTable
  <2>4. ASSUME NEW i \in 1 .. k
        PROVE  f[i] = IF i = 1 THEN seqs[i] ELSE f[i - 1] \o seqs[i]
    <3>1. f[i] = IF i = 1 THEN seqs[1] ELSE step[i][f[i - 1]]
      <4> HIDE DEF step
      <4>1. QED
        BY <2>3 DEF Follows
    <3>2. i # 1 => f[i - 1] \in Seq(S) /\ i \in 2 .. k
      OBVIOUS
    <3>3. i # 1 => step[i][f[i - 1]] = f[i - 1] \o seqs[i]
      BY <3>2
    <3>4. QED
      BY <3>1, <3>3
  <2>5. F(f)
    BY <2>4
  <2>6. QED
    <3> HIDE DEF F
    <3>1. QED
      BY <2>5
<1>4. F(flatten)
  <2> HIDE DEF F
  <2>1. QED
    BY <1>3
<1>5. \A i \in 1 .. k : flatten[i] = IF i = 1 THEN seqs[i] ELSE flatten[i - 1] \o seqs[i]
  <2> HIDE DEF flatten
  <2>1. QED
    BY <1>4
<1>6. DOMAIN flatten = 1 .. k
  <2> HIDE DEF flatten
  <2>1. QED
    BY <1>4
<1> HIDE DEF flatten, F
<1>7. 1 \in 1 .. k /\ \A i \in 2 .. k : i \in 1 .. k /\ i # 1
  OBVIOUS
<1>8. Joins(flatten, seqs, k)
  BY <1>1, <1>5, <1>6, <1>7 DEF Joins
<1>9. QED
  BY <1>8

\* Joined pieces consist of what the pieces consist of.
LEMMA FlattenElements ==
    ASSUME NEW S, NEW k \in Nat, k # 0, NEW seqs \in Seq(Seq(S)), Len(seqs) = k
    PROVE  FlattenSeq(seqs) \in Seq(S)
<1>1. PICK f : Joins(f, seqs, k)
  BY FlattenUnfolds
<1>2. \A i \in 1 .. k : seqs[i] \in Seq(S)
  BY ElementOfSeq
<1> DEFINE P == {i \in 1 .. k : f[i] \in Seq(S)}
<1>3. 1 \in P
  BY <1>1, <1>2 DEF Joins
<1>4. \A i \in 1 .. k : i # k /\ i \in P => i + 1 \in P
  <2> SUFFICES ASSUME NEW i \in 1 .. k, i # k, f[i] \in Seq(S) PROVE i + 1 \in P
    OBVIOUS
  <2>1. i + 1 \in 2 .. k /\ (i + 1) - 1 = i /\ i + 1 \in 1 .. k
    OBVIOUS
  <2>2. f[i + 1] = f[i] \o seqs[i + 1]
    BY <1>1, <2>1 DEF Joins
  <2>3. f[i + 1] \in Seq(S)
    BY <1>2, <2>1, <2>2, ConcatProperties
  <2>4. QED
    BY <2>1, <2>3
<1>5. k \in P
  <2>1. k \in 1 .. k
    OBVIOUS
  <2> HIDE DEF P
  <2>2. QED
    BY <1>3, <1>4, <2>1, IndexInduction
<1>6. QED
  BY <1>1, <1>5 DEF Joins

\* slice::chunks in numbers: q pieces, all full but the last.
LEMMA ChunkCount ==
    ASSUME NEW l \in Nat, l # 0, NEW n \in Nat, n # 0, NEW q, q = (l + n - 1) \div n
    PROVE  /\ q \in Nat /\ q # 0
           /\ (q - 1) * n < l
           /\ l <= q * n
<1>1. l + n - 1 \in Nat /\ q \in Nat
  OBVIOUS
<1>2. n * q <= l + n - 1 /\ l + n - 1 < n * q + n
  BY <1>1
<1>3. q # 0
  BY <1>1, <1>2
<1>4. (q - 1) * n = n * q - n /\ q * n = n * q
  BY <1>1
<1>5. n * q \in Nat
  BY <1>1
<1>6. QED
  BY <1>1, <1>2, <1>3, <1>4, <1>5

\* Pieces of at most n bytes from S that are s when they are joined.
Pieces(cut, s, n, S) ==
    /\ Len(cut) \in Nat /\ Len(cut) # 0 /\ cut \in Seq(Seq(S))
    /\ \A i \in 1 .. Len(cut) : Len(cut[i]) <= n
    /\ FlattenSeq(cut) = s

\* The pieces of slice::chunks, joined again, are the bytes that were cut.
LEMMA ChunksJoin ==
    ASSUME NEW S, NEW s \in Seq(S), s # << >>, NEW n \in Nat, n # 0
    PROVE  Pieces(chunks(s, n), s, n, S)
<1> DEFINE l == Len(s)
           q == (l + n - 1) \div n
           upTo(i) == IF i * n < l THEN i * n ELSE l
           piece(i) == SubSeq(s, (i - 1) * n + 1, upTo(i))
           cut == chunks(s, n)
<1>1. l \in Nat /\ l # 0 /\ \A i \in 1 .. l : s[i] \in S
  BY LenProperties, EmptySeq, ElementOfSeq
<1>2. cut = [i \in 1 .. q |-> piece(i)]
  BY DEF chunks
<1>3. q \in Nat /\ q # 0 /\ (q - 1) * n < l /\ l <= q * n
  <2> HIDE DEF l
  <2>1. QED
    BY <1>1, ChunkCount
<1> HIDE DEF l, q, piece, cut
<1>4. ASSUME NEW i \in 1 .. q
      PROVE  /\ (i - 1) * n \in Nat /\ (i - 1) * n < l
             /\ upTo(i) \in Nat /\ (i - 1) * n <= upTo(i) /\ upTo(i) <= l
             /\ upTo(i) <= (i - 1) * n + n
             /\ i # 1 => upTo(i - 1) = (i - 1) * n
  <2>1. (i - 1) * n \in Nat /\ i * n \in Nat /\ (q - 1) * n \in Nat
    BY <1>3
  <2>2. (i - 1) * n <= (q - 1) * n
    BY <1>3
  <2>3. i * n = (i - 1) * n + n
    BY <1>3
  <2>4. QED
    BY <1>1, <1>3, <2>1, <2>2, <2>3
<1>5. upTo(q) = l
  BY <1>1, <1>3
<1>6. upTo(1) \in Nat /\ upTo(1) <= l /\ upTo(1) <= n
  BY <1>1, <1>3
<1> HIDE DEF upTo
<1>7. ASSUME NEW i \in 1 .. q
      PROVE  piece(i) \in Seq(S) /\ Len(piece(i)) <= n
  <2> DEFINE a == (i - 1) * n
             b == upTo(i)
  <2>1. a \in Nat /\ b \in Nat /\ a <= b /\ b <= l /\ b <= a + n
    BY <1>4
  <2>2. piece(i) = SubSeq(s, a + 1, b)
    BY DEF piece
  <2> HIDE DEF a, b
  <2>3. \A j \in (a + 1) .. b : s[j] \in S
    BY <1>1, <2>1
  <2>4. /\ SubSeq(s, a + 1, b) \in Seq(S)
        /\ Len(SubSeq(s, a + 1, b)) = IF a + 1 <= b THEN b - (a + 1) + 1 ELSE 0
    BY <2>1, <2>3, SubSeqProperties
  <2>5. QED
    BY <2>1, <2>2, <2>4
<1>8. Len(cut) = q /\ cut \in Seq(Seq(S)) /\ \A i \in 1 .. q : cut[i] = piece(i)
  BY <1>2, <1>3, <1>7
<1>9. FlattenSeq(cut) = s
  <2>1. PICK f : Joins(f, cut, q)
    BY <1>3, <1>8, FlattenUnfolds
  <2> DEFINE P == {i \in 1 .. q : f[i] = SubSeq(s, 1, upTo(i))}
  <2>2. 1 \in P
    <3>1. f[1] = cut[1] /\ 1 \in 1 .. q
      BY <1>3, <2>1 DEF Joins
    <3>2. (1 - 1) * n + 1 = 1
      OBVIOUS
    <3>3. piece(1) = SubSeq(s, 1, upTo(1))
      BY <3>2 DEF piece
    <3>4. QED
      BY <1>8, <3>1, <3>3
  <2>3. \A i \in 1 .. q : i # q /\ i \in P => i + 1 \in P
    <3> SUFFICES ASSUME NEW i \in 1 .. q, i # q, f[i] = SubSeq(s, 1, upTo(i))
                 PROVE  i + 1 \in P
      OBVIOUS
    <3> DEFINE a == i * n
               b == upTo(i + 1)
    <3>1. i + 1 \in 2 .. q /\ i + 1 \in 1 .. q /\ (i + 1) - 1 = i /\ i + 1 # 1
      BY <1>3
    <3>2. a \in Nat /\ b \in Nat /\ a <= b /\ b <= l /\ upTo(i) = a
      BY <1>4, <3>1
    <3>3. piece(i + 1) = SubSeq(s, a + 1, b)
      BY <3>1 DEF piece
    <3>4. f[i + 1] = f[i] \o cut[i + 1]
      BY <2>1, <3>1 DEF Joins
    <3> HIDE DEF a, b
    <3>5. 1 \in 1 .. (Len(s) + 1) /\ a \in (1 - 1) .. Len(s) /\ b \in a .. Len(s)
      BY <1>1, <3>2 DEF l
    <3>6. SubSeq(s, 1, a) \o SubSeq(s, a + 1, b) = SubSeq(s, 1, b)
      BY <3>5, ConcatAdjacentSubSeq
    <3>7. f[i + 1] = SubSeq(s, 1, b)
      BY <1>8, <3>1, <3>2, <3>3, <3>4, <3>6
    <3>8. QED
      BY <3>1, <3>7 DEF b
  <2>4. q \in P
    <3>1. q \in 1 .. q
      BY <1>3
    <3> HIDE DEF P
    <3>2. QED
      BY <1>3, <2>2, <2>3, <3>1, IndexInduction
  <2>5. f[q] = SubSeq(s, 1, Len(s))
    BY <1>5, <2>4 DEF l
  <2>6. QED
    BY <2>1, <2>5, SubSeqFull DEF Joins
<1>10. QED
  BY <1>3, <1>7, <1>8, <1>9 DEF cut, Pieces

---------------------------------------------------------------------------
(* What a send command posts.                                              *)

\* The messages of a transfer: q chunks with the pieces of the envelope's bytes,
\* and the manifest that commits to them.
Messages(t, e, q, cut) ==
    {Chunk(t, i - 1, q, cut[i]) : i \in 1 .. q} \cup {Manifest(t, e, q)}

IsTransfer(t, e, q, cut) ==
    /\ e \in Envelopes /\ e.transport = "LogosMessaging"
    /\ Len(e.bytes) <= MAX_TRANSFER_BYTES
    /\ q \in 1 .. MAX_CHUNKS
    /\ cut \in [1 .. q -> Seq(ToSet(e.bytes))]
    /\ \A i \in 1 .. q : Len(cut[i]) <= MAX_CHUNK_BYTES
    /\ FlattenSeq(cut) = e.bytes

\* A bundle that was packed.
Bundle(t, e, n) == ToSet(pack_envelope(e, n, t).value)

IsPacked(t, e, n) ==
    /\ pack_envelope(e, n, t).value \in Seq(Bundle(t, e, n))
    /\ \E q, cut : IsTransfer(t, e, q, cut) /\ Bundle(t, e, n) = Messages(t, e, q, cut)

\* pack_envelope cuts the envelope's bytes into such a transfer.
LEMMA PackMakes ==
    ASSUME NEW t, NEW e \in Envelopes, NEW n \in Nat,
           pack_envelope(e, n, t).code = "Ok"
    PROVE  IsPacked(t, e, n)
<1> DEFINE cut == chunks(e.bytes, n)
           q == Len(cut)
           heads == [i \in 1 .. q |-> Chunk(t, i - 1, q, cut[i])]
           last == Manifest(t, e, q)
           B == Messages(t, e, q, cut)
<1>1. e.bytes \in Seq(ToSet(e.bytes)) /\ e.bytes # << >>
  BY MessagingAssumption DEF IsSerialized
<1>2. /\ e.transport = "LogosMessaging" /\ n \in 1 .. MAX_CHUNK_BYTES
      /\ ~(Len(e.bytes) > MAX_TRANSFER_BYTES) /\ ~(q > MAX_CHUNKS)
      /\ pack_envelope(e, n, t).value = heads \o <<last>>
  <2> HIDE DEF cut, heads, last
  <2>1. QED
    BY DEF pack_envelope, Ok, Err, cut, heads, last
<1>3. MAX_CHUNKS \in Nat /\ MAX_CHUNK_BYTES \in Nat /\ MAX_TRANSFER_BYTES \in Nat
  BY MessagingAssumption
<1>4. n # 0 /\ n <= MAX_CHUNK_BYTES
  BY <1>2, <1>3
<1>5. /\ q \in Nat /\ q # 0 /\ cut \in Seq(Seq(ToSet(e.bytes)))
      /\ \A i \in 1 .. q : Len(cut[i]) <= n
      /\ FlattenSeq(cut) = e.bytes
  <2>1. Pieces(cut, e.bytes, n, ToSet(e.bytes))
    BY <1>1, <1>4, ChunksJoin
  <2>2. QED
    BY <2>1 DEF Pieces
<1> HIDE DEF cut
<1>6. IsTransfer(t, e, q, cut)
  <2>1. cut \in [1 .. q -> Seq(ToSet(e.bytes))]
    BY <1>5
  <2>2. \A i \in 1 .. q : Len(cut[i]) \in Nat
    BY <2>1, LenProperties
  <2>3. Len(e.bytes) \in Nat
    BY <1>1, LenProperties
  <2>4. \A i \in 1 .. q : Len(cut[i]) <= MAX_CHUNK_BYTES
    BY <1>3, <1>4, <1>5, <2>2
  <2>5. q \in 1 .. MAX_CHUNKS
    BY <1>2, <1>3, <1>5
  <2>6. Len(e.bytes) <= MAX_TRANSFER_BYTES
    BY <1>2, <1>3, <2>3
  <2> HIDE DEF q
  <2>7. QED
    BY <1>2, <1>5, <2>1, <2>4, <2>5, <2>6 DEF IsTransfer
<1> HIDE DEF q
<1>7. heads \in Seq(B) /\ Len(heads) = q /\ <<last>> \in Seq(B) /\ Len(<<last>>) = 1
  <2>1. \A i \in 1 .. q : heads[i] \in B
    BY DEF Messages
  <2>2. last \in B
    BY DEF Messages
  <2>3. heads \in [1 .. q -> B]
    BY <2>1
  <2> HIDE DEF B, heads, last
  <2>4. QED
    BY <1>5, <2>2, <2>3
<1>8. /\ heads \o <<last>> \in Seq(B) /\ Len(heads \o <<last>>) = q + 1
      /\ \A i \in 1 .. (q + 1) :
            (heads \o <<last>>)[i] = IF i <= q THEN heads[i] ELSE <<last>>[i - q]
  <2> HIDE DEF B, heads, last
  <2>1. QED
    BY <1>7, ConcatProperties
<1> DEFINE s == pack_envelope(e, n, t).value
<1>9. ToSet(s) = B
  <2>1. DOMAIN s = 1 .. (q + 1) /\ \A i \in 1 .. (q + 1) : s[i] \in B
    <3> HIDE DEF B, heads, last
    <3>1. s \in Seq(B) /\ Len(s) = q + 1
      BY <1>2, <1>8
    <3> HIDE DEF s
    <3>2. QED
      BY <3>1, ElementOfSeq, LenProperties
  <2>2. \A i \in 1 .. q : s[i] = Chunk(t, i - 1, q, cut[i])
    <3>1. \A i \in 1 .. q : i \in 1 .. (q + 1) /\ i <= q
      BY <1>5
    <3>2. \A i \in 1 .. q : s[i] = heads[i]
      <4> HIDE DEF heads, last
      <4>1. QED
        BY <1>2, <1>8, <3>1
    <3>3. QED
      BY <3>2
  <2>3. s[q + 1] = last
    <3>1. q + 1 \in 1 .. (q + 1) /\ ~(q + 1 <= q) /\ (q + 1) - q = 1
      BY <1>5
    <3> HIDE DEF heads, last
    <3>2. QED
      BY <1>2, <1>8, <3>1
  <2>4. \A x \in B : x \in ToSet(s)
    <3> SUFFICES ASSUME NEW x \in B PROVE x \in ToSet(s)
      OBVIOUS
    <3> HIDE DEF s
    <3>1. CASE x = last
      <4>1. q + 1 \in 1 .. (q + 1)
        BY <1>5
      <4> HIDE DEF last
      <4>2. QED
        BY <2>1, <2>3, <3>1, <4>1 DEF ToSet
    <3>2. CASE \E i \in 1 .. q : x = Chunk(t, i - 1, q, cut[i])
      <4>1. PICK i \in 1 .. q : x = Chunk(t, i - 1, q, cut[i])
        BY <3>2
      <4>2. i \in 1 .. (q + 1) /\ s[i] = x
        BY <1>5, <2>2, <4>1
      <4>3. QED
        BY <2>1, <4>2 DEF ToSet
    <3>3. QED
      BY <3>1, <3>2 DEF Messages
  <2>5. ToSet(s) \subseteq B
    <3> HIDE DEF s, B
    <3>1. QED
      BY <2>1 DEF ToSet
  <2>6. QED
    <3> HIDE DEF s, B
    <3>1. QED
      BY <2>4, <2>5
<1>10. Bundle(t, e, n) = B /\ s \in Seq(B)
  <2> HIDE DEF B, heads, last
  <2>1. QED
    BY <1>2, <1>8, <1>9 DEF Bundle
<1>11. QED
  BY <1>6, <1>10 DEF IsPacked

\* Every message of a transfer is valid; the manifest and, by their index, the
\* chunks are told apart.
LEMMA TransferMessages ==
    ASSUME NEW t, NEW e, NEW q, NEW cut, IsTransfer(t, e, q, cut),
           NEW m \in Messages(t, e, q, cut)
    PROVE  /\ m.kind \in {"chunk", "manifest"}
           /\ m.transfer_id = t
           /\ m.chunk_count = q
           /\ validate_wire_body(m)
           /\ m.kind = "manifest" => m = Manifest(t, e, q)
           /\ m.kind = "chunk" => /\ m.chunk_index \in 0 .. q - 1
                                  /\ m = Chunk(t, m.chunk_index, q, cut[m.chunk_index + 1])
                                  /\ m.data = cut[m.chunk_index + 1]
<1>0. MAX_CHUNKS \in Nat /\ q \in Nat /\ q \in 1 .. MAX_CHUNKS
  BY MessagingAssumption DEF IsTransfer
<1>1. CASE m = Manifest(t, e, q)
  <2>1. m.kind = "manifest" /\ m.transfer_id = t /\ m.chunk_count = q
        /\ m.envelope_bytes = Len(e.bytes)
    BY <1>1 DEF Manifest
  <2>2. validate_wire_body(m)
    BY <1>0, <2>1 DEF validate_wire_body, IsTransfer
  <2>3. QED
    BY <1>1, <2>1, <2>2
<1>2. CASE \E i \in 1 .. q : m = Chunk(t, i - 1, q, cut[i])
  <2>1. PICK i \in 1 .. q : m = Chunk(t, i - 1, q, cut[i])
    BY <1>2
  <2>2. /\ m.kind = "chunk" /\ m.transfer_id = t /\ m.chunk_count = q
        /\ m.chunk_index = i - 1 /\ m.data = cut[i]
    BY <2>1 DEF Chunk
  <2>3. i - 1 \in 0 .. q - 1 /\ (i - 1) + 1 = i /\ i - 1 < q
    BY <1>0
  <2>4. validate_wire_body(m)
    BY <1>0, <2>2, <2>3 DEF validate_wire_body, IsTransfer
  <2>5. QED
    BY <2>1, <2>2, <2>3, <2>4
<1>3. QED
  BY <1>1, <1>2 DEF Messages

\* No two messages of one transfer conflict.
LEMMA NoConflicts ==
    ASSUME NEW t, NEW e, NEW q, NEW cut, IsTransfer(t, e, q, cut),
           NEW m \in Messages(t, e, q, cut), NEW o \in Messages(t, e, q, cut)
    PROVE  ~conflict(m, o)
<1>1. /\ m.kind \in {"chunk", "manifest"}
      /\ m.kind = "manifest" => m = Manifest(t, e, q)
      /\ m.kind = "chunk" => m = Chunk(t, m.chunk_index, q, cut[m.chunk_index + 1])
  BY TransferMessages
<1>2. /\ o.kind \in {"chunk", "manifest"}
      /\ o.kind = "manifest" => o = Manifest(t, e, q)
      /\ o.kind = "chunk" => o = Chunk(t, o.chunk_index, q, cut[o.chunk_index + 1])
  BY TransferMessages
<1>3. QED
  BY <1>1, <1>2 DEF conflict

\* The messages of M name every chunk of a transfer.
AllChunks(M, q) ==
    \A i \in 0 .. q - 1 : \E m \in M : m.kind = "chunk" /\ m.chunk_index = i

\* Cardinality as Messaging uses it is that of the theorems on finite sets.
LEMMA SameCardinality ==
    ASSUME NEW S
    PROVE  Cardinality(S) = Cardinality(S)
BY DEF Cardinality, Cardinality

\* PartialTransfer::assemble on messages of one transfer: it succeeds when they
\* are complete, and otherwise there is something left to wait for.
LEMMA AssembleHonest ==
    ASSUME NEW t, NEW e, NEW q, NEW cut, IsTransfer(t, e, q, cut),
           NEW M, M \subseteq Messages(t, e, q, cut)
    PROVE  /\ assemble(M, t).code \in {"NoTransfer", "IncompleteTransfer", "Ok"}
           /\ Manifest(t, e, q) \in M /\ AllChunks(M, q) => assemble(M, t).code = "Ok"
<1> DEFINE own == {m \in M : m.kind # "text" /\ m.transfer_id = t}
           manifests == {m \in own : m.kind = "manifest"}
           manifest == CHOOSE m \in manifests : TRUE
           parts == {m \in own : m.kind = "chunk"}
           indexes == {m.chunk_index : m \in parts}
           count == manifest.chunk_count
           part(i) == CHOOSE m \in parts : m.chunk_index = i - 1
           missing == (0 .. count - 1) \ indexes
           miscounted == {m.chunk_index : m \in {x \in parts : x.chunk_count # count}}
           joined == FlattenSeq([i \in 1 .. count |-> part(i).data])
           parsed == {x \in Envelopes : x.bytes = joined}
           x == CHOOSE y \in parsed : TRUE
           R == assemble(M, t)
<1>0. q \in Nat /\ q \in 1 .. MAX_CHUNKS
  BY MessagingAssumption DEF IsTransfer
<1>1. ASSUME NEW m \in M
      PROVE  /\ m.kind \in {"chunk", "manifest"} /\ m.transfer_id = t /\ m.chunk_count = q
             /\ m.kind = "manifest" => m = Manifest(t, e, q)
             /\ m.kind = "chunk" => /\ m.chunk_index \in 0 .. q - 1
                                    /\ m.data = cut[m.chunk_index + 1]
  BY TransferMessages
<1>2. R = IF manifests = {} THEN Err("NoTransfer")
          ELSE IF Cardinality(indexes) # count THEN Err("IncompleteTransfer")
          ELSE IF \E i \in missing : \A j \in miscounted : i < j
               THEN Err("IncompleteTransfer")
          ELSE IF miscounted # {} THEN Err("InvalidWireMessage")
          ELSE IF joined_wrongly(manifest, joined) THEN Err("IntegrityFailure")
          ELSE IF parsed = {} THEN Err("InvalidWireMessage")
          ELSE IF x.transport # "LogosMessaging" THEN Err("WrongTransport")
          ELSE IF \/ x.context_hash # manifest.context_hash
                  \/ x.challenge_digest # manifest.challenge_digest
               THEN Err("IntegrityFailure")
          ELSE Ok(<<t, x>>)
  BY Zenon DEF assemble
<1>3. manifests # {} <=> Manifest(t, e, q) \in M
  <2>1. Manifest(t, e, q).kind = "manifest"
    BY DEF Manifest
  <2>2. QED
    BY <1>1, <2>1
<1>4. CASE manifests = {}
  <2>1. R = Err("NoTransfer") /\ ~(Manifest(t, e, q) \in M)
    <3> HIDE DEF manifests, indexes, count, missing, miscounted, joined, parsed, x, R, manifest
    <3>1. QED
      BY <1>2, <1>3, <1>4
  <2>2. QED
    BY <2>1 DEF Err
<1>5. CASE manifests # {}
  <2>1. manifest \in M /\ manifest = Manifest(t, e, q) /\ count = q
    <3>1. manifest \in manifests
      BY <1>5
    <3> HIDE DEF manifest
    <3>2. QED
      BY <1>1, <3>1
  <2>2. indexes \subseteq 0 .. q - 1
    BY <1>1
  <2>3. miscounted = {}
    <3> HIDE DEF manifest
    <3>1. QED
      BY <1>1, <2>1
  <2>4. Cardinality(0 .. q - 1) = q /\ IsFiniteSet(0 .. q - 1)
    <3>1. 0 \in Int /\ q - 1 \in Int /\ ~(0 > q - 1) /\ (q - 1) - 0 + 1 = q
      BY <1>0
    <3>2. QED
      BY <3>1, FS_Interval
  <2>5. AllChunks(M, q) => indexes = 0 .. q - 1
    <3> SUFFICES ASSUME AllChunks(M, q), NEW i \in 0 .. q - 1 PROVE i \in indexes
      BY <2>2
    <3>1. PICK m \in M : m.kind = "chunk" /\ m.chunk_index = i
      BY DEF AllChunks
    <3>2. m \in parts
      BY <1>1, <3>1
    <3>3. QED
      BY <3>1, <3>2
  <2>6. Cardinality(indexes) = count => indexes = 0 .. q - 1
    <3> HIDE DEF indexes, manifest
    <3>1. QED
      BY <2>1, <2>2, <2>4, FS_Subset, SameCardinality
  <2>7. AllChunks(M, q) => Cardinality(indexes) = count
    <3> HIDE DEF indexes, manifest
    <3>1. QED
      BY <2>1, <2>4, <2>5, SameCardinality
  <2>8. CASE Cardinality(indexes) # count
    <3>1. R = Err("IncompleteTransfer")
      <4> HIDE DEF manifests, indexes, count, missing, miscounted, parsed, x, R
      <4>1. QED
        BY <1>2, <1>5, <2>8
    <3> HIDE DEF manifests, indexes, count, R
    <3>2. QED
      BY <2>7, <2>8, <3>1 DEF Err, R
  <2>9. CASE Cardinality(indexes) = count
    <3>1. indexes = 0 .. q - 1
      <4> HIDE DEF indexes, count
      <4>1. QED
        BY <2>6, <2>9
    <3>2. missing = {}
      <4> HIDE DEF indexes, manifest
      <4>1. QED
        BY <2>1, <3>1
    <3>3. ASSUME NEW i \in 1 .. q PROVE part(i).data = cut[i]
      <4>1. i - 1 \in 0 .. q - 1 /\ (i - 1) + 1 = i
        BY <1>0
      <4>2. i - 1 \in indexes
        <5> HIDE DEF indexes
        <5>1. QED
          BY <3>1, <4>1
      <4>3. \E m \in parts : m.chunk_index = i - 1
        BY <4>2
      <4> HIDE DEF parts
      <4>4. part(i) \in parts /\ part(i).chunk_index = i - 1
        BY <4>3
      <4> HIDE DEF part
      <4>5. QED
        BY <1>1, <4>1, <4>4 DEF parts
    <3>4. joined = e.bytes
      <4>1. cut = [i \in 1 .. q |-> part(i).data]
        <5>1. cut = [i \in 1 .. q |-> cut[i]]
          BY DEF IsTransfer
        <5> HIDE DEF part
        <5>2. QED
          BY <3>3, <5>1
      <4>2. joined = FlattenSeq([i \in 1 .. q |-> part(i).data])
        <5> HIDE DEF manifest, part
        <5>1. QED
          BY <2>1
      <4> HIDE DEF part, joined
      <4>3. QED
        BY <4>1, <4>2 DEF IsTransfer
    <3>5. parsed = {e}
      <4>1. e \in Envelopes /\ \A f \in Envelopes : e.bytes = f.bytes => e = f
        BY MessagingAssumption DEF IsTransfer, IsSerialized
      <4> HIDE DEF joined
      <4>2. QED
        BY <3>4, <4>1
    <3>6. x = e
      <4> HIDE DEF parsed
      <4>1. QED
        BY <3>5
    <3>7. ~joined_wrongly(manifest, joined)
      <4> HIDE DEF manifest, joined
      <4>1. QED
        BY <2>1, <3>4 DEF joined_wrongly, Manifest
    <3>8. /\ x.transport = "LogosMessaging" /\ x.context_hash = manifest.context_hash
          /\ x.challenge_digest = manifest.challenge_digest
      <4> HIDE DEF manifest, x
      <4>1. QED
        BY <2>1, <3>6 DEF IsTransfer, Manifest
    <3>9. R = Ok(<<t, x>>)
      <4> HIDE DEF manifests, indexes, count, missing, miscounted, joined, parsed, x, R, manifest
      <4>1. QED
        BY <1>2, <1>5, <2>3, <2>9, <3>2, <3>5, <3>7, <3>8
    <3>10. QED
      BY <3>9 DEF Ok
  <2>10. QED
    BY <2>8, <2>9
<1>6. QED
  BY <1>4, <1>5

\* What a successful assemble found: a manifest of the transfer in M, and the
\* envelope whose bytes the manifest's hash commits to.
IsAssembled(M, t, value) ==
    \E m \in M, e \in Envelopes :
      /\ m.kind = "manifest" /\ m.transfer_id = t
      /\ value = <<t, e>> /\ e.bytes = m.envelope_sha256

\* PartialTransfer::assemble on any messages, whoever posted them.
LEMMA AssembleSound ==
    ASSUME NEW M, NEW t, assemble(M, t).code = "Ok"
    PROVE  IsAssembled(M, t, assemble(M, t).value)
<1> DEFINE own == {m \in M : m.kind # "text" /\ m.transfer_id = t}
           manifests == {m \in own : m.kind = "manifest"}
           manifest == CHOOSE m \in manifests : TRUE
           parts == {m \in own : m.kind = "chunk"}
           indexes == {m.chunk_index : m \in parts}
           count == manifest.chunk_count
           part(i) == CHOOSE m \in parts : m.chunk_index = i - 1
           missing == (0 .. count - 1) \ indexes
           miscounted == {m.chunk_index : m \in {x \in parts : x.chunk_count # count}}
           joined == FlattenSeq([i \in 1 .. count |-> part(i).data])
           parsed == {x \in Envelopes : x.bytes = joined}
           x == CHOOSE y \in parsed : TRUE
           R == assemble(M, t)
<1>1. R = IF manifests = {} THEN Err("NoTransfer")
          ELSE IF Cardinality(indexes) # count THEN Err("IncompleteTransfer")
          ELSE IF \E i \in missing : \A j \in miscounted : i < j
               THEN Err("IncompleteTransfer")
          ELSE IF miscounted # {} THEN Err("InvalidWireMessage")
          ELSE IF joined_wrongly(manifest, joined) THEN Err("IntegrityFailure")
          ELSE IF parsed = {} THEN Err("InvalidWireMessage")
          ELSE IF x.transport # "LogosMessaging" THEN Err("WrongTransport")
          ELSE IF \/ x.context_hash # manifest.context_hash
                  \/ x.challenge_digest # manifest.challenge_digest
               THEN Err("IntegrityFailure")
          ELSE Ok(<<t, x>>)
  BY Zenon DEF assemble
<1>2. \A c \in {"NoTransfer", "IncompleteTransfer", "InvalidWireMessage", "IntegrityFailure",
                "WrongTransport"} : Err(c).code # "Ok"
  BY DEF Err
<1>3. /\ manifests # {} /\ ~joined_wrongly(manifest, joined) /\ parsed # {}
      /\ R = Ok(<<t, x>>)
  <2>0. R.code = "Ok"
    OBVIOUS
  <2> HIDE DEF manifests, indexes, count, missing, miscounted, joined, parsed, x, R, manifest
  <2>1. QED
    BY <1>1, <1>2, <2>0
<1>4. manifest \in M /\ manifest.kind = "manifest" /\ manifest.transfer_id = t
  <2>1. manifest \in manifests
    BY <1>3
  <2> HIDE DEF manifest
  <2>2. QED
    BY <2>1
<1>5. x \in Envelopes /\ x.bytes = joined
  <2>1. x \in parsed
    <3> HIDE DEF parsed
    <3>1. QED
      BY <1>3
  <2> HIDE DEF x, joined
  <2>2. QED
    BY <2>1
<1>6. joined = manifest.envelope_sha256
  <2> HIDE DEF joined, manifest
  <2>1. QED
    BY <1>3 DEF joined_wrongly
<1>7. R.value = <<t, x>>
  <2> HIDE DEF manifests, manifest, joined, parsed, x, R
  <2>1. QED
    BY <1>3 DEF Ok
<1>8. QED
  <2> HIDE DEF manifest, joined, x, R
  <2>1. QED
    BY <1>4, <1>5, <1>6, <1>7 DEF IsAssembled, R

\* What a successful unpack_envelope found, of the requested transfer if one was.
IsUnpacked(M, requested, value) ==
    \E t : IsAssembled(M, t, value) /\ (requested # {} => t \in requested)

\* unpack_envelope on any messages.
LEMMA UnpackSound ==
    ASSUME NEW messages, NEW requested, unpack_envelope(messages, requested).code = "Ok"
    PROVE  IsUnpacked(ToSet(messages), requested,
                      unpack_envelope(messages, requested).value)
<1> DEFINE manifests == {i \in DOMAIN messages : messages[i].kind = "manifest"}
           chosen == IF requested # {} THEN requested
                     ELSE IF manifests = {} THEN {}
                     ELSE {messages[Max(manifests)].transfer_id}
           clashes == {i \in DOMAIN messages :
                         \E j \in 1 .. i - 1 : conflict(messages[i], messages[j])}
           t == CHOOSE t \in chosen : TRUE
           first == IF messages[CHOOSE i \in clashes : \A j \in clashes : i <= j].kind = "chunk"
                    THEN "ConflictingChunk" ELSE "ConflictingManifest"
           R == unpack_envelope(messages, requested)
<1>1. R = IF clashes # {} THEN Err(first)
          ELSE IF chosen = {} THEN Err("NoTransfer")
          ELSE assemble(ToSet(messages), t)
  BY Zenon DEF unpack_envelope, None, Some
<1>2. Err(first).code # "Ok" /\ Err("NoTransfer").code # "Ok"
  BY DEF Err
<1>3. requested # {} => chosen = requested
  OBVIOUS
<1>4. R.code = "Ok"
  OBVIOUS
<1> HIDE DEF chosen, clashes, first, R
<1>5. chosen # {} /\ R = assemble(ToSet(messages), t)
  BY <1>1, <1>2, <1>4
<1>6. t \in chosen
  BY <1>5
<1> HIDE DEF t
<1>7. IsAssembled(ToSet(messages), t, R.value)
  BY <1>4, <1>5, AssembleSound
<1>8. QED
  BY <1>3, <1>6, <1>7 DEF IsUnpacked, R

\* unpack_envelope for a requested transfer on messages that do not clash.
LEMMA UnpackHonest ==
    ASSUME NEW messages, NEW t,
           \A i, j \in DOMAIN messages : ~conflict(messages[i], messages[j]),
           NEW l \in Nat, DOMAIN messages = 1 .. l
    PROVE  unpack_envelope(messages, {t}) = assemble(ToSet(messages), t)
<1> DEFINE clashes == {i \in DOMAIN messages :
                         \E j \in 1 .. i - 1 : conflict(messages[i], messages[j])}
<1>1. clashes = {}
  <2>1. \A i \in 1 .. l : \A j \in 1 .. i - 1 : j \in 1 .. l
    OBVIOUS
  <2>2. QED
    BY <2>1
<1>2. (CHOOSE x \in {t} : TRUE) = t /\ {t} # {}
  OBVIOUS
<1> HIDE DEF clashes
<1>3. QED
  BY <1>1, <1>2 DEF unpack_envelope, None, Some, clashes

---------------------------------------------------------------------------
(* What a receive command keeps.                                           *)

\* The posts that the receiver looks at, and those of them it keeps.
Regarded(p) == from_expected(p) /\ ~ignored(p.content, args.requested)

Relevant ==
    {p.content : p \in {x \in posts : Regarded(x) /\ validate_wire_body(x.content)}}

NoRepetition(s) == \A i, j \in DOMAIN s : s[i] = s[j] => i = j

Buffered(s) ==
    /\ s \in Seq(Relevant)
    /\ Len(s) <= MAX_PENDING_WIRE_MESSAGES
    /\ NoRepetition(s)

Pendings == [code : {"Ok", "InvalidWireMessage", "TooManyPending"},
             contents : {s \in Seq(Relevant) : Buffered(s)}]

\* Appending something new to a sequence without repetition.
LEMMA AppendNew ==
    ASSUME NEW S, NEW s \in Seq(S), NEW m \in S, NoRepetition(s), m \notin ToSet(s)
    PROVE  /\ Append(s, m) \in Seq(S) /\ Len(Append(s, m)) = Len(s) + 1
           /\ NoRepetition(Append(s, m))
<1> DEFINE a == Append(s, m)
           l == Len(s)
<1>1. /\ a \in Seq(S) /\ Len(a) = l + 1 /\ a[l + 1] = m
      /\ \A i \in 1 .. l : a[i] = s[i]
  BY AppendProperties
<1>2. l \in Nat /\ DOMAIN s = 1 .. l /\ DOMAIN a = 1 .. (l + 1)
  BY <1>1, LenProperties
<1> HIDE DEF a, l
<1>3. \A i \in 1 .. l : s[i] # m
  BY <1>2 DEF ToSet
<1>4. ASSUME NEW i \in 1 .. (l + 1), NEW j \in 1 .. (l + 1), a[i] = a[j]
      PROVE  i = j
  <2>1. CASE i \in 1 .. l /\ j \in 1 .. l
    BY <1>1, <1>2, <1>4, <2>1 DEF NoRepetition
  <2>2. CASE i = l + 1 /\ j = l + 1
    BY <2>2
  <2>3. CASE i = l + 1 /\ j \in 1 .. l
    BY <1>1, <1>3, <1>4, <2>3
  <2>4. CASE j = l + 1 /\ i \in 1 .. l
    BY <1>1, <1>3, <1>4, <2>4
  <2>5. QED
    BY <1>2, <2>1, <2>2, <2>3, <2>4
<1>5. NoRepetition(a)
  BY <1>2, <1>4 DEF NoRepetition
<1>6. QED
  BY <1>1, <1>5 DEF a, l

\* The two updates observe makes.
LEMMA PendingUpdate ==
    ASSUME NEW acc, acc = [code |-> acc.code, contents |-> acc.contents], NEW v
    PROVE  /\ [acc EXCEPT !.code = v] = [code |-> v, contents |-> acc.contents]
           /\ [acc EXCEPT !.contents = v] = [code |-> acc.code, contents |-> v]
OBVIOUS

\* observe keeps the buffer within its limit and without repetition.
LEMMA ObserveKeeps ==
    ASSUME NEW acc \in Pendings, NEW p \in posts,
           from_expected(p)
    PROVE  observe(acc, p.content, args.requested) \in Pendings
<1> DEFINE m == p.content
           next == observe(acc, m, args.requested)
<1>0. /\ acc.code \in {"Ok", "InvalidWireMessage", "TooManyPending"}
      /\ acc.contents \in Seq(Relevant) /\ Buffered(acc.contents)
      /\ acc = [code |-> acc.code, contents |-> acc.contents]
  BY DEF Pendings
<1>1. CASE next = acc
  BY <1>1
<1>2. CASE \E c \in {"InvalidWireMessage", "TooManyPending"} : next = [acc EXCEPT !.code = c]
  <2>1. PICK c \in {"InvalidWireMessage", "TooManyPending"} : next = [acc EXCEPT !.code = c]
    BY <1>2
  <2>2. next = [code |-> c, contents |-> acc.contents]
    BY <1>0, <2>1, PendingUpdate
  <2> HIDE DEF next
  <2>3. QED
    BY <1>0, <2>2 DEF Pendings, next
<1>3. CASE /\ next = [acc EXCEPT !.contents = Append(acc.contents, m)]
           /\ validate_wire_body(m) /\ ~ignored(m, args.requested)
           /\ m \notin ToSet(acc.contents)
           /\ ~(Len(acc.contents) >= MAX_PENDING_WIRE_MESSAGES)
  <2> DEFINE s == acc.contents
  <2>1. m \in Relevant
    BY <1>3 DEF Relevant, Regarded
  <2>2. NoRepetition(s) /\ Len(s) \in Nat /\ MAX_PENDING_WIRE_MESSAGES \in Nat
    BY <1>0, LenProperties, MessagingAssumption DEF Buffered
  <2>3. /\ Append(s, m) \in Seq(Relevant) /\ Len(Append(s, m)) = Len(s) + 1
        /\ NoRepetition(Append(s, m))
    BY <1>0, <1>3, <2>1, <2>2, AppendNew
  <2>4. Buffered(Append(s, m))
    BY <1>3, <2>2, <2>3 DEF Buffered
  <2>5. next = [code |-> acc.code, contents |-> Append(s, m)]
    BY <1>0, <1>3, PendingUpdate
  <2> HIDE DEF next
  <2>6. QED
    BY <1>0, <2>3, <2>4, <2>5 DEF Pendings, next
<1>4. QED
  BY <1>1, <1>2, <1>3 DEF observe

\* The rounds of the loop over the messages of a window.
Observes(f, window) ==
    /\ f[0] = [code |-> "Ok", contents |-> contents]
    /\ \A i \in 1 .. Len(window) :
         f[i] = IF from_expected(window[i])
                THEN observe(f[i - 1], window[i].content, args.requested)
                ELSE f[i - 1]

\* observed goes through the window message by message.
LEMMA ObservedUnfolds ==
    ASSUME Buffered(contents), NEW window \in Seq(posts)
    PROVE  Observes(observed(window), window)
<1> DEFINE l == Len(window)
           Go(i, x) == IF from_expected(window[i])
                       THEN observe(x, window[i].content, args.requested)
                       ELSE x
           first == [code |-> "Ok", contents |-> contents]
           F(f) == f = [i \in 0 .. l |-> IF i = 0 THEN first ELSE Go(i, f[i - 1])]
           pending == CHOOSE f : F(f)
           step == [i \in 1 .. l |-> [x \in Pendings |-> Go(i, x)]]
<1>1. observed(window) = pending
  BY Zenon DEF observed
<1>2. l \in Nat /\ \A i \in 1 .. l : window[i] \in posts
  BY LenProperties, ElementOfSeq
<1>3. first \in Pendings
  BY DEF Pendings, Buffered
<1>4. \A i \in 1 .. l : \A x \in Pendings : Go(i, x) \in Pendings
  <2> SUFFICES ASSUME NEW i \in 1 .. l, NEW x \in Pendings PROVE Go(i, x) \in Pendings
    OBVIOUS
  <2>1. window[i] \in posts
    BY <1>2
  <2>2. from_expected(window[i]) =>
          observe(x, window[i].content, args.requested) \in Pendings
    BY <2>1, ObserveKeeps
  <2>3. QED
    BY <2>2
<1> HIDE DEF l, Go, first
<1>5. \A i \in 0 .. l : i # 0 => step[i] \in [Pendings -> Pendings]
  <2> SUFFICES ASSUME NEW i \in 0 .. l, i # 0 PROVE step[i] \in [Pendings -> Pendings]
    OBVIOUS
  <2>1. i \in 1 .. l
    BY <1>2
  <2>2. step[i] = [x \in Pendings |-> Go(i, x)]
    BY <2>1
  <2> HIDE DEF step
  <2>3. QED
    BY <1>4, <2>1, <2>2
<1>6. \E f : F(f)
  <2>1. 0 \in Nat /\ 0 <= l
    BY <1>2
  <2>2. HasTable(0, l, Pendings, first, step)
    <3> HIDE DEF step
    <3>1. QED
      BY <1>2, <1>3, <1>5, <2>1, TableExists
  <2>3. PICK f \in [0 .. l -> Pendings] : Follows(f, 0, l, first, step)
    BY <2>2 DEF HasTable
  <2>4. ASSUME NEW i \in 0 .. l
        PROVE  f[i] = IF i = 0 THEN first ELSE Go(i, f[i - 1])
    <3>1. f[i] = IF i = 0 THEN first ELSE step[i][f[i - 1]]
      <4> HIDE DEF step
      <4>1. QED
        BY <2>3 DEF Follows
    <3>2. i # 0 => i \in 1 .. l /\ f[i - 1] \in Pendings
      BY <1>2
    <3>3. i # 0 => step[i][f[i - 1]] = Go(i, f[i - 1])
      BY <3>2
    <3> HIDE DEF step
    <3>4. QED
      BY <3>1, <3>3
  <2>5. F(f)
    BY <2>4
  <2>6. QED
    <3> HIDE DEF F
    <3>1. QED
      BY <2>5
<1>7. F(pending)
  <2> HIDE DEF F
  <2>1. QED
    BY <1>6
<1>8. \A i \in 0 .. l : pending[i] = IF i = 0 THEN first ELSE Go(i, pending[i - 1])
  <2> HIDE DEF pending
  <2>1. QED
    BY <1>7
<1> HIDE DEF pending, F
<1>9. 0 \in 0 .. l /\ \A i \in 1 .. l : i \in 0 .. l /\ i # 0
  BY <1>2
<1>10. pending[0] = first /\ \A i \in 1 .. l : pending[i] = Go(i, pending[i - 1])
  BY <1>8, <1>9
<1>11. QED
  BY <1>1, <1>10 DEF Observes, Go, first, l

\* After a window the buffer is as it should be.
LEMMA ObservedKeeps ==
    ASSUME Buffered(contents), NEW window \in Seq(posts)
    PROVE  observed(window)[Len(window)] \in Pendings
<1> DEFINE f == observed(window)
           l == Len(window)
           P == {i \in 0 .. l : f[i] \in Pendings}
<1>1. l \in Nat /\ \A i \in 1 .. l : window[i] \in posts
  BY LenProperties, ElementOfSeq
<1>2. Observes(f, window)
  BY ObservedUnfolds
<1> HIDE DEF f
<1>3. 0 \in P
  BY <1>1, <1>2 DEF Observes, Pendings, Buffered
<1>4. \A i \in 0 .. l : i # l /\ i \in P => i + 1 \in P
  <2> SUFFICES ASSUME NEW i \in 0 .. l, i # l, f[i] \in Pendings PROVE i + 1 \in P
    OBVIOUS
  <2>1. i + 1 \in 1 .. l /\ (i + 1) - 1 = i /\ i + 1 \in 0 .. l
    BY <1>1
  <2>2. f[i + 1] = IF from_expected(window[i + 1])
                   THEN observe(f[i], window[i + 1].content, args.requested)
                   ELSE f[i]
    BY <1>2, <2>1 DEF Observes
  <2>3. window[i + 1] \in posts
    BY <1>1, <2>1
  <2>4. f[i + 1] \in Pendings
    BY <2>2, <2>3, ObserveKeeps
  <2>5. QED
    BY <2>1, <2>4
<1>5. l \in P
  <2>1. l \in 0 .. l /\ 0 \in Nat
    BY <1>1
  <2> HIDE DEF P, l
  <2>2. QED
    BY <1>1, <1>3, <1>4, <2>1, IndexInduction
<1>6. QED
  BY <1>5 DEF f

\* The receiver regards messages of B only, they are valid, and the buffer has room
\* for all of them.
Honest(B) ==
    /\ \A p \in posts : Regarded(p) => p.content \in B
    /\ \A m \in B : validate_wire_body(m)
    /\ \A s \in Seq(B) : \A m \in B :
         NoRepetition(s) /\ m \notin ToSet(s) => Len(s) < MAX_PENDING_WIRE_MESSAGES

\* Then observe finds nothing to complain about.
LEMMA ObservedHonest ==
    ASSUME Buffered(contents), NEW window \in Seq(posts),
           NEW B, Honest(B)
    PROVE  observed(window)[Len(window)].code = "Ok"
<1> DEFINE f == observed(window)
           l == Len(window)
           P == {i \in 0 .. l : f[i] \in Pendings /\ f[i].code = "Ok"}
<1>1. l \in Nat /\ \A i \in 1 .. l : window[i] \in posts
  BY LenProperties, ElementOfSeq
<1>2. Observes(f, window)
  BY ObservedUnfolds
<1>3. Relevant \subseteq B
  BY DEF Honest, Relevant
<1> HIDE DEF f
<1>4. 0 \in P
  BY <1>1, <1>2 DEF Observes, Pendings, Buffered
<1>5. \A i \in 0 .. l : i # l /\ i \in P => i + 1 \in P
  <2> SUFFICES ASSUME NEW i \in 0 .. l, i # l, f[i] \in Pendings, f[i].code = "Ok"
               PROVE  i + 1 \in P
    OBVIOUS
  <2> DEFINE acc == f[i]
             p == window[i + 1]
             m == p.content
  <2>1. i + 1 \in 1 .. l /\ (i + 1) - 1 = i /\ i + 1 \in 0 .. l
    BY <1>1
  <2>2. f[i + 1] = IF from_expected(p)
                   THEN observe(acc, m, args.requested)
                   ELSE acc
    BY <1>2, <2>1 DEF Observes
  <2>3. p \in posts
    BY <1>1, <2>1
  <2> HIDE DEF acc, p
  <2>4. f[i + 1] \in Pendings
    BY <2>2, <2>3, ObserveKeeps DEF acc
  <2>5. acc \in Pendings /\ acc.code = "Ok"
    BY DEF acc
  <2>6. acc.contents \in Seq(B) /\ NoRepetition(acc.contents) /\ Len(acc.contents) \in Nat
    <3>1. acc.contents \in Seq(Relevant) /\ Buffered(acc.contents)
      BY <2>5 DEF Pendings
    <3>2. QED
      BY <1>3, <3>1, SeqMonotonic, LenProperties DEF Buffered
  <2>7. ASSUME from_expected(p) PROVE observe(acc, m, args.requested).code = "Ok"
    <3>1. CASE ignored(m, args.requested)
      BY <2>5, <3>1 DEF observe
    <3>2. CASE ~ignored(m, args.requested)
      <4>1. m \in B /\ validate_wire_body(m)
        BY <2>3, <2>7, <3>2 DEF Honest, Regarded
      <4>2. m \notin ToSet(acc.contents) => ~(Len(acc.contents) >= MAX_PENDING_WIRE_MESSAGES)
        BY <2>6, <4>1, MessagingAssumption DEF Honest
      <4>3. \/ observe(acc, m, args.requested) = acc
            \/ observe(acc, m, args.requested) =
                 [acc EXCEPT !.contents = Append(acc.contents, m)]
        BY <2>5, <4>1, <4>2 DEF observe
      <4>4. [acc EXCEPT !.contents = Append(acc.contents, m)].code = "Ok"
        BY <2>5 DEF Pendings
      <4>5. QED
        BY <2>5, <4>3, <4>4
    <3>3. QED
      BY <3>1, <3>2
  <2>8. f[i + 1].code = "Ok"
    BY <2>2, <2>5, <2>7
  <2>9. QED
    BY <2>1, <2>4, <2>8
<1>6. l \in P
  <2>1. l \in 0 .. l /\ 0 \in Nat
    BY <1>1
  <2> HIDE DEF P, l
  <2>2. QED
    BY <1>1, <1>4, <1>5, <2>1, IndexInduction
<1>7. QED
  BY <1>6 DEF f

\* The messages of one transfer fit into the buffer.
LEMMA TransferFits ==
    ASSUME NEW t, NEW e, NEW q, NEW cut, IsTransfer(t, e, q, cut),
           NEW s \in Seq(Messages(t, e, q, cut)), NEW m \in Messages(t, e, q, cut),
           NoRepetition(s), m \notin ToSet(s)
    PROVE  Len(s) < MAX_PENDING_WIRE_MESSAGES
<1> DEFINE B == Messages(t, e, q, cut)
           a == Append(s, m)
           l == Len(s) + 1
           rank(x) == IF x.kind = "manifest" THEN 0 ELSE x.chunk_index + 1
           f == [i \in 1 .. l |-> rank(a[i])]
<1>0. /\ q \in Nat /\ MAX_CHUNKS \in Nat /\ q <= MAX_CHUNKS
      /\ MAX_PENDING_WIRE_MESSAGES \in Nat /\ MAX_CHUNKS + 1 <= MAX_PENDING_WIRE_MESSAGES
  BY MessagingAssumption DEF IsTransfer
<1>1. a \in Seq(B) /\ Len(a) = l /\ NoRepetition(a) /\ l \in Nat
  BY AppendNew, LenProperties
<1>2. DOMAIN a = 1 .. l /\ \A i \in 1 .. l : a[i] \in B
  BY <1>1, LenProperties, ElementOfSeq
<1> HIDE DEF a, l
<1>3. \A x \in B : /\ x.kind \in {"chunk", "manifest"}
                   /\ x.kind = "manifest" => x = Manifest(t, e, q)
                   /\ x.kind = "chunk" =>
                        /\ x.chunk_index \in 0 .. q - 1
                        /\ x = Chunk(t, x.chunk_index, q, cut[x.chunk_index + 1])
  BY TransferMessages
<1> HIDE DEF B
<1>4. \A x \in B : rank(x) \in 0 .. q
  BY <1>0, <1>3
<1>5. \A x, y \in B : rank(x) = rank(y) => x = y
  BY <1>0, <1>3
<1> HIDE DEF rank
<1>6. f \in Injection(1 .. l, 0 .. q)
  <2>1. f \in [1 .. l -> 0 .. q]
    BY <1>2, <1>4
  <2>2. ASSUME NEW i \in 1 .. l, NEW j \in 1 .. l, f[i] = f[j] PROVE i = j
    <3>1. rank(a[i]) = rank(a[j])
      BY <2>2
    <3>2. a[i] = a[j]
      BY <1>2, <1>5, <3>1
    <3>3. QED
      BY <1>1, <1>2, <3>2 DEF NoRepetition
  <2> HIDE DEF f
  <2>3. QED
    BY <2>1, <2>2 DEF Injection, IsInjective
<1>7. IsFiniteSet(0 .. q) /\ Cardinality(0 .. q) = q + 1 /\ Cardinality(1 .. l) = l
  BY <1>0, <1>1, FS_Interval
<1>8. l <= q + 1
  <2> HIDE DEF f
  <2>1. QED
    BY <1>6, <1>7, FS_Injection
<1>9. Len(s) \in Nat
  BY LenProperties
<1>10. QED
  BY <1>0, <1>8, <1>9 DEF l

\* Nothing but the messages of one transfer is regarded: that is honest.
LEMMA TransferIsHonest ==
    ASSUME NEW t, NEW e, NEW q, NEW cut, IsTransfer(t, e, q, cut),
           \A p \in posts : Regarded(p) => p.content \in Messages(t, e, q, cut)
    PROVE  Honest(Messages(t, e, q, cut))
<1>1. \A m \in Messages(t, e, q, cut) : validate_wire_body(m)
  BY TransferMessages
<1>2. \A s \in Seq(Messages(t, e, q, cut)) : \A m \in Messages(t, e, q, cut) :
        NoRepetition(s) /\ m \notin ToSet(s) => Len(s) < MAX_PENDING_WIRE_MESSAGES
  BY TransferFits
<1>3. QED
  BY <1>1, <1>2 DEF Honest

---------------------------------------------------------------------------
(* The inductive invariant of the transfer.                                *)

\* The messages of transfer t, cut into pieces of n bytes.
Made(t, n) == UNION {Bundle(t, e, n) : e \in packed[t]}

\* What is still to be sent of t, and what was posted, comes from one bundle.
Covers(t, n) ==
    /\ \A e \in packed[t] : pack_envelope(e, n, t).code = "Ok"
    /\ outbox[t] \in Seq(Made(t, n))
    /\ \A p \in posts \ Noise :
         p.content.transfer_id = t => p.sender = SenderOf(t) /\ p.content \in Made(t, n)

Origin ==
    /\ args \in [requested : Requests, expected_sender : ExpectedSenders]
    /\ packed \in [Transfers -> SUBSET Envelopes]
    /\ outbox = [t \in Transfers |-> outbox[t]]
    /\ \A t \in Transfers : \A e, f \in packed[t] : e = f
    /\ \A p \in posts \ Noise : p.content.transfer_id \in Transfers
    /\ \A t \in Transfers : \E n \in Nat : Covers(t, n)

\* The bundle made for t holds the messages of one transfer.
MadeOf(t, n, e, q, cut) ==
    /\ packed[t] = {e} /\ IsTransfer(t, e, q, cut)
    /\ Made(t, n) = Messages(t, e, q, cut)

\* Whatever is posted under t comes from such a bundle.
LEMMA MadeIsMessage ==
    ASSUME Origin, NEW t \in Transfers, NEW n \in Nat, Covers(t, n),
           NEW m \in Made(t, n)
    PROVE  \E e, q, cut : MadeOf(t, n, e, q, cut)
<1>1. PICK e \in packed[t] : m \in Bundle(t, e, n)
  BY DEF Made
<1>2. e \in Envelopes /\ packed[t] = {e}
  BY DEF Origin
<1>3. IsPacked(t, e, n)
  BY <1>1, <1>2, PackMakes DEF Covers
<1>4. PICK q, cut : IsTransfer(t, e, q, cut) /\ Bundle(t, e, n) = Messages(t, e, q, cut)
  BY <1>3 DEF IsPacked
<1>5. Made(t, n) = Bundle(t, e, n)
  BY <1>2 DEF Made
<1>6. MadeOf(t, n, e, q, cut)
  BY <1>2, <1>4, <1>5 DEF MadeOf
<1>7. QED
  BY <1>6

\* Post p is a manifest of transfer t that the receiver accepts and that commits to e.
Commits(p, t, e) ==
    /\ p \in posts
    /\ \A s \in args.expected_sender : p.sender = s
    /\ p.content.kind = "manifest" /\ p.content.transfer_id = t
    /\ p.content.envelope_sha256 = e.bytes
    /\ ForgesNoManifest(p.sender) =>
         t \in Transfers /\ p.sender = SenderOf(t) /\ packed[t] = {e}

\* A kept manifest was posted, and by the command that packed the envelope unless its
\* sender forges manifests.
LEMMA ManifestCommits ==
    ASSUME Origin, NEW m \in Relevant, m.kind = "manifest",
           NEW e \in Envelopes, m.envelope_sha256 = e.bytes
    PROVE  \E p : Commits(p, m.transfer_id, e)
<1>1. PICK p \in posts : Regarded(p) /\ p.content = m
  BY DEF Relevant
<1> DEFINE t == m.transfer_id
<1>2. ASSUME ForgesNoManifest(p.sender)
      PROVE  t \in Transfers /\ p.sender = SenderOf(t) /\ packed[t] = {e}
  <2>1. p \in posts \ Noise
    BY <1>1, <1>2 DEF ForgesNoManifest
  <2>2. t \in Transfers
    BY <1>1, <2>1 DEF Origin
  <2>3. PICK n \in Nat : Covers(t, n)
    BY <2>2 DEF Origin
  <2>4. p.sender = SenderOf(t) /\ m \in Made(t, n)
    BY <1>1, <2>1, <2>3 DEF Covers
  <2> HIDE DEF t
  <2>5. PICK f, q, cut : MadeOf(t, n, f, q, cut)
    BY <2>2, <2>3, <2>4, MadeIsMessage
  <2>6. m = Manifest(t, f, q)
    BY <2>4, <2>5, TransferMessages DEF MadeOf
  <2>7. m.envelope_sha256 = f.bytes /\ f \in Envelopes
    BY <2>5, <2>6 DEF Manifest, MadeOf, IsTransfer
  <2>8. e = f
    BY <2>7, MessagingAssumption DEF IsSerialized
  <2>9. QED
    BY <2>2, <2>4, <2>5, <2>8 DEF MadeOf
<1>3. Commits(p, t, e)
  BY <1>1, <1>2 DEF Commits, Regarded, from_expected
<1>4. QED
  BY <1>3

\* What ReceivedWasPacked says of a result.
WasPacked(value) ==
    /\ args.requested # {} => value[1] \in args.requested
    /\ \E p : Commits(p, value[1], value[2])

\* What unpack_envelope makes of kept messages is committed to by an accepted sender.
LEMMA UnpackedWasPacked ==
    ASSUME Origin, NEW s \in Seq(Relevant),
           unpack_envelope(s, args.requested).code = "Ok"
    PROVE  WasPacked(unpack_envelope(s, args.requested).value)
<1> DEFINE value == unpack_envelope(s, args.requested).value
<1>1. IsUnpacked(ToSet(s), args.requested, value)
  BY UnpackSound
<1>2. ToSet(s) \subseteq Relevant
  BY ElementOfSeq, LenProperties DEF ToSet
<1> HIDE DEF value
<1>3. PICK t : IsAssembled(ToSet(s), t, value) /\ (args.requested # {} => t \in args.requested)
  BY <1>1 DEF IsUnpacked
<1>4. PICK m \in ToSet(s), e \in Envelopes :
         /\ m.kind = "manifest" /\ m.transfer_id = t
         /\ value = <<t, e>> /\ e.bytes = m.envelope_sha256
  BY <1>3 DEF IsAssembled
<1>5. \E p : Commits(p, t, e)
  BY <1>2, <1>4, ManifestCommits
<1>6. value[1] = t /\ value[2] = e
  BY <1>4
<1>7. WasPacked(value)
  BY <1>3, <1>5, <1>6 DEF WasPacked
<1>8. QED
  BY <1>7 DEF value

\* The messages a receive regards that asks for t and expects its sender, who keeps to
\* the bundle, are those of t.
Asked(t) ==
    t \in args.requested /\ SenderOf(t) \in args.expected_sender /\ KeepsToBundle(t)

OnlyTransfer(t, e, q, cut) ==
    /\ packed[t] = {e} /\ IsTransfer(t, e, q, cut)
    /\ \A p \in posts : Regarded(p) => p.content \in Messages(t, e, q, cut)

\* The arguments of such a receive.
LEMMA AskedArgs ==
    ASSUME Origin, NEW t, Asked(t)
    PROVE  t \in Transfers /\ args.requested = {t} /\ args.expected_sender = {SenderOf(t)}
<1>1. args.requested \in Requests /\ args.expected_sender \in ExpectedSenders
  BY DEF Origin
<1>2. \A x, y \in args.requested : x = y
  BY <1>1, MessagingAssumption
<1>3. \A x, y \in args.expected_sender : x = y
  BY <1>1, MessagingAssumption
<1>4. args.requested \subseteq Transfers
  BY <1>1, MessagingAssumption
<1>5. QED
  BY <1>1, <1>2, <1>3, <1>4 DEF Asked

\* Noise under that id has another sender, and other transfers another id.
LEMMA AskedRegards ==
    ASSUME Origin, NEW t, Asked(t)
    PROVE  \/ \A p \in posts : ~Regarded(p)
           \/ \E e, q, cut : OnlyTransfer(t, e, q, cut)
<1>1. t \in Transfers /\ args.requested = {t} /\ args.expected_sender = {SenderOf(t)}
  BY AskedArgs
<1>2. PICK n \in Nat : Covers(t, n)
  BY <1>1 DEF Origin
<1>3. ASSUME NEW p \in posts, Regarded(p) PROVE p.content \in Made(t, n)
  <2>1. p.sender = SenderOf(t) /\ p.content.kind # "text" /\ p.content.transfer_id = t
    BY <1>1, <1>3 DEF Regarded, from_expected, ignored
  <2>2. p \notin Noise
    BY <2>1 DEF Asked, KeepsToBundle
  <2>3. QED
    BY <1>2, <2>1, <2>2 DEF Covers
<1>4. CASE Made(t, n) = {}
  BY <1>3, <1>4
<1>5. CASE Made(t, n) # {}
  <2>1. PICK m : m \in Made(t, n)
    BY <1>5
  <2>2. PICK e, q, cut : MadeOf(t, n, e, q, cut)
    BY <1>1, <1>2, <2>1, MadeIsMessage
  <2>3. OnlyTransfer(t, e, q, cut)
    BY <1>3, <2>2 DEF OnlyTransfer, MadeOf
  <2>4. QED
    BY <2>3
<1>6. QED
  BY <1>4, <1>5

\* Some message of every bundle of t is not in s.
Lacks(t, s) ==
    \A e \in packed[t], n \in ChunkSizes :
      pack_envelope(e, n, t).code = "Ok" => ~(Bundle(t, e, n) \subseteq ToSet(s))

\* A requested transfer is recognised when it is complete, and waited for until then.
Recognised(t, s) ==
    LET code == unpack_envelope(s, {t}).code
    IN  code \in {"NoTransfer", "IncompleteTransfer", "Ok"} /\ (code # "Ok" => Lacks(t, s))

\* Kept messages of one transfer: all of them assemble, or one is missing.
LEMMA TransferRecognised ==
    ASSUME Origin, NEW t, NEW e, NEW q, NEW cut,
           OnlyTransfer(t, e, q, cut), NEW s \in Seq(Relevant)
    PROVE  Recognised(t, s)
<1> DEFINE B == Messages(t, e, q, cut)
           M == ToSet(s)
           l == Len(s)
<1>1. IsTransfer(t, e, q, cut) /\ packed[t] = {e} /\ Relevant \subseteq B
  BY DEF OnlyTransfer, Relevant
<1>2. s \in Seq(B) /\ l \in Nat /\ DOMAIN s = 1 .. l /\ \A i \in 1 .. l : s[i] \in B
  BY <1>1, SeqMonotonic, LenProperties, ElementOfSeq
<1>3. M \subseteq B
  BY <1>2 DEF ToSet
<1> HIDE DEF B, l
<1>4. \A i, j \in DOMAIN s : ~conflict(s[i], s[j])
  BY <1>1, <1>2, NoConflicts DEF B
<1>5. unpack_envelope(s, {t}) = assemble(M, t)
  BY <1>2, <1>4, UnpackHonest
<1> HIDE DEF M
<1>6. /\ assemble(M, t).code \in {"NoTransfer", "IncompleteTransfer", "Ok"}
      /\ Manifest(t, e, q) \in M /\ AllChunks(M, q) => assemble(M, t).code = "Ok"
  BY <1>1, <1>3, AssembleHonest DEF B
<1>7. ASSUME NEW n \in ChunkSizes, pack_envelope(e, n, t).code = "Ok",
             Bundle(t, e, n) \subseteq M
      PROVE  Manifest(t, e, q) \in M /\ AllChunks(M, q)
  <2>1. e \in Envelopes /\ n \in Nat
    BY <1>1, MessagingAssumption DEF IsTransfer
  <2>2. IsPacked(t, e, n)
    BY <1>7, <2>1, PackMakes
  <2>3. PICK r, cut2 : IsTransfer(t, e, r, cut2) /\ Bundle(t, e, n) = Messages(t, e, r, cut2)
    BY <2>2 DEF IsPacked
  <2>4. /\ Manifest(t, e, r) \in M
        /\ \A i \in 1 .. r : Chunk(t, i - 1, r, cut2[i]) \in M
    BY <1>7, <2>3 DEF Messages
  <2>5. Manifest(t, e, r) \in B
    BY <1>3, <2>4
  <2>6. Manifest(t, e, r).chunk_count = q
    BY <1>1, <2>5, TransferMessages DEF B
  <2>7. r = q
    BY <2>6 DEF Manifest
  <2>8. ASSUME NEW i \in 0 .. q - 1
        PROVE  \E m \in M : m.kind = "chunk" /\ m.chunk_index = i
    <3>1. i + 1 \in 1 .. q /\ (i + 1) - 1 = i
      BY <1>1, MessagingAssumption DEF IsTransfer
    <3>2. Chunk(t, i, q, cut2[i + 1]) \in M
      BY <2>4, <2>7, <3>1
    <3>3. QED
      BY <3>2 DEF Chunk
  <2>9. QED
    BY <2>4, <2>7, <2>8 DEF AllChunks
<1>8. assemble(M, t).code # "Ok" => Lacks(t, s)
  BY <1>1, <1>6, <1>7 DEF Lacks, M
<1>9. QED
  BY <1>5, <1>6, <1>8 DEF Recognised

\* A bundle has a manifest, which the receiver keeps only when t was packed.
LEMMA UnpackedLacks ==
    ASSUME NEW t, NEW e \in Envelopes, NEW n \in ChunkSizes,
           pack_envelope(e, n, t).code = "Ok"
    PROVE  \E m \in Bundle(t, e, n) : m.kind = "manifest" /\ m.transfer_id = t
<1>1. n \in Nat
  BY MessagingAssumption
<1>2. IsPacked(t, e, n)
  BY <1>1, PackMakes
<1>3. PICK q, cut : IsTransfer(t, e, q, cut) /\ Bundle(t, e, n) = Messages(t, e, q, cut)
  BY <1>2 DEF IsPacked
<1>4. Manifest(t, e, q) \in Bundle(t, e, n)
  BY <1>3 DEF Messages
<1>5. QED
  BY <1>4 DEF Manifest

\* Nothing was kept, so the manifest of every bundle is missing.
LEMMA NothingRecognised ==
    ASSUME Origin, NEW t \in Transfers,
           \A p \in posts : ~Regarded(p), NEW s \in Seq(Relevant)
    PROVE  Recognised(t, s)
<1>1. Relevant = {}
  BY DEF Relevant
<1>2. s = << >>
  BY <1>1
<1>3. DOMAIN s = 1 .. 0 /\ ToSet(s) = {} /\ 0 \in Nat
  BY <1>2 DEF ToSet
<1>4. unpack_envelope(s, {t}) = assemble({}, t)
  <2>1. \A i, j \in DOMAIN s : ~conflict(s[i], s[j])
    BY <1>3
  <2>2. QED
    BY <1>3, <2>1, UnpackHonest
<1>5. assemble({}, t).code = "NoTransfer"
  BY DEF assemble, Err
<1>6. Lacks(t, s)
  <2> SUFFICES ASSUME NEW e \in packed[t], NEW n \in ChunkSizes,
                      pack_envelope(e, n, t).code = "Ok"
               PROVE  ~(Bundle(t, e, n) \subseteq ToSet(s))
    BY DEF Lacks
  <2>1. e \in Envelopes
    BY DEF Origin
  <2>2. \E m \in Bundle(t, e, n) : m.kind = "manifest" /\ m.transfer_id = t
    BY <2>1, UnpackedLacks
  <2>3. QED
    BY <1>3, <2>2
<1>7. QED
  BY <1>4, <1>5, <1>6 DEF Recognised

\* In either case the receive waits or succeeds.
LEMMA AskedRecognised ==
    ASSUME Origin, NEW t, Asked(t), NEW s \in Seq(Relevant)
    PROVE  Recognised(t, s)
<1>1. t \in Transfers
  BY AskedArgs
<1>2. QED
  BY <1>1, AskedRegards, NothingRecognised, TransferRecognised

\* And observe never ends it.
LEMMA AskedObserved ==
    ASSUME Origin, Buffered(contents), NEW t, Asked(t),
           NEW window \in Seq(posts)
    PROVE  observed(window)[Len(window)].code = "Ok"
<1>1. CASE \A p \in posts : ~Regarded(p)
  <2>1. Honest({})
    BY <1>1 DEF Honest
  <2>2. QED
    BY <2>1, ObservedHonest
<1>2. CASE \E e, q, cut : OnlyTransfer(t, e, q, cut)
  <2>1. PICK e, q, cut : OnlyTransfer(t, e, q, cut)
    BY <1>2
  <2>2. Honest(Messages(t, e, q, cut))
    BY <2>1, TransferIsHonest DEF OnlyTransfer
  <2>3. QED
    BY <2>2, ObservedHonest
<1>3. QED
  BY <1>1, <1>2, AskedRegards

Causes == {"ReceiveTimeout"} \cup {get_messages(r) : r \in Replies}

\* Why a receive ended.
Received == pc = "received" => WasPacked(result.value)

Failed ==
    pc = "failed" =>
      \A t : Asked(t) => /\ result.code \in Causes
                         /\ result.code = "ReceiveTimeout" => Lacks(t, contents)

WireInv ==
    /\ Origin
    /\ Buffered(contents)
    /\ pc \in {"polling", "received", "failed"}
    /\ Received
    /\ Failed

---------------------------------------------------------------------------
(* The steps of the transfer.                                              *)

\* What the receiver keeps stays relevant while messages are posted.
LEMMA StaysBuffered ==
    ASSUME Buffered(contents), posts \subseteq posts', args' = args, contents' = contents
    PROVE  Buffered(contents)'
<1>1. Relevant \subseteq Relevant'
  BY DEF Relevant, Regarded, from_expected
<1>2. contents \in Seq(Relevant')
  BY <1>1, SeqMonotonic DEF Buffered
<1>3. QED
  BY <1>2 DEF Buffered, NoRepetition

\* messaging send packs.
LEMMA PackStep ==
    ASSUME WireInv, NEW t \in Transfers, NEW e \in Envelopes,
           NEW n \in ChunkSizes, NEW copies \in Copies, Pack(t, e, n, copies)
    PROVE  WireInv'
<1> DEFINE value == pack_envelope(e, n, t).value
           sent == [copy \in 1 .. copies |-> value]
<1>1. /\ packed[t] = {} /\ copies \in 1 .. 3
      /\ pack_envelope(e, n, t).code = "Ok"
      /\ packed' = [packed EXCEPT ![t] = {e}]
      /\ outbox' = [outbox EXCEPT ![t] = FlattenSeq(sent)]
      /\ posts' = posts /\ args' = args /\ contents' = contents
      /\ elapsed' = elapsed /\ result' = result /\ pc' = pc
  BY Zenon DEF Pack, receiver, None, Some
<1>2. n \in Nat
  BY MessagingAssumption
<1>3. FlattenSeq(sent) \in Seq(Bundle(t, e, n))
  <2>1. value \in Seq(Bundle(t, e, n))
    BY <1>1, <1>2, PackMakes DEF IsPacked
  <2> HIDE DEF value
  <2>2. copies \in Nat /\ copies # 0
    BY <1>1
  <2>3. sent \in [1 .. copies -> Seq(Bundle(t, e, n))]
    BY <2>1
  <2> HIDE DEF sent
  <2>4. sent \in Seq(Seq(Bundle(t, e, n))) /\ Len(sent) = copies
    BY <2>2, <2>3
  <2>5. QED
    BY <2>2, <2>4, FlattenElements
<1> HIDE DEF value, sent
<1>4. /\ packed \in [Transfers -> SUBSET Envelopes]
      /\ outbox = [u \in Transfers |-> outbox[u]]
  BY DEF WireInv, Origin
<1>5. /\ packed'[t] = {e} /\ outbox'[t] = FlattenSeq(sent)
      /\ \A u \in Transfers : u # t => packed'[u] = packed[u] /\ outbox'[u] = outbox[u]
  BY <1>1, <1>4
<1>6. Origin'
  <2>1. args' \in [requested : Requests, expected_sender : ExpectedSenders]
    BY <1>1 DEF WireInv, Origin
  <2>2. packed' \in [Transfers -> SUBSET Envelopes] /\ outbox' = [u \in Transfers |-> outbox'[u]]
    BY <1>1, <1>4
  <2>3. \A u \in Transfers : \A x, y \in packed'[u] : x = y
    BY <1>5 DEF WireInv, Origin
  <2>4. \A p \in posts' \ Noise : p.content.transfer_id \in Transfers
    BY <1>1 DEF WireInv, Origin
  <2>5. ASSUME NEW u \in Transfers, u # t PROVE \E k \in Nat : Covers(u, k)'
    <3>1. PICK k \in Nat : Covers(u, k)
      BY DEF WireInv, Origin
    <3>2. Made(u, k)' = Made(u, k)
      BY <1>5, <2>5 DEF Made
    <3>3. Covers(u, k)'
      BY <1>1, <1>5, <2>5, <3>1, <3>2 DEF Covers
    <3>4. QED
      BY <3>3
  <2>6. Covers(t, n)'
    <3>1. PICK k \in Nat : Covers(t, k)
      BY DEF WireInv, Origin
    <3>2. Made(t, k) = {}
      BY <1>1 DEF Made
    <3>3. \A p \in posts \ Noise : p.content.transfer_id # t
      BY <3>1, <3>2 DEF Covers
    <3>4. Made(t, n)' = Bundle(t, e, n)
      BY <1>5 DEF Made
    <3>5. QED
      BY <1>1, <1>3, <1>5, <3>3, <3>4 DEF Covers
  <2>7. \A u \in Transfers : \E k \in Nat : Covers(u, k)'
    BY <1>2, <2>5, <2>6
  <2>8. QED
    BY <2>1, <2>2, <2>3, <2>4, <2>7 DEF Origin
<1>7. Buffered(contents)'
  BY <1>1, StaysBuffered DEF WireInv
<1>8. Received'
  <2> SUFFICES ASSUME pc' = "received" PROVE WasPacked(result.value)'
    BY DEF Received
  <2>1. WasPacked(result.value)
    BY <1>1 DEF WireInv, Received
  <2>2. PICK p : Commits(p, result.value[1], result.value[2])
    BY <2>1 DEF WasPacked
  <2>3. ASSUME ForgesNoManifest(p.sender)
        PROVE  packed'[result.value[1]] = packed[result.value[1]]
    BY <1>1, <1>5, <2>2, <2>3 DEF Commits
  <2>4. Commits(p, result.value[1], result.value[2])'
    BY <1>1, <2>2, <2>3 DEF Commits, ForgesNoManifest
  <2>5. QED
    BY <1>1, <2>1, <2>4 DEF WasPacked
<1>9. Failed'
  <2> SUFFICES ASSUME pc' = "failed", NEW u, Asked(u)'
               PROVE  /\ result'.code \in Causes
                      /\ result'.code = "ReceiveTimeout" => Lacks(u, contents)'
    BY DEF Failed, Causes, get_messages, Replies, call
  <2>1. Asked(u)
    BY <1>1 DEF Asked
  <2>2. result.code \in Causes /\ (result.code = "ReceiveTimeout" => Lacks(u, contents))
    BY <1>1, <2>1 DEF WireInv, Failed
  <2>3. u \in Transfers
    BY <2>1, AskedArgs DEF WireInv
  <2>4. CASE u # t
    <3>1. packed'[u] = packed[u]
      BY <1>5, <2>3, <2>4
    <3>2. Lacks(u, contents) => Lacks(u, contents)'
      BY <1>1, <3>1 DEF Lacks
    <3>3. QED
      BY <1>1, <2>2, <3>2
  <2>5. CASE u = t
    <3>1. ASSUME NEW k \in ChunkSizes, pack_envelope(e, k, t).code = "Ok"
          PROVE  ~(Bundle(t, e, k) \subseteq ToSet(contents))
      <4>1. \E m \in Bundle(t, e, k) : m.kind = "manifest" /\ m.transfer_id = t
        BY <3>1, UnpackedLacks
      <4>2. \A p \in posts : ~Regarded(p)
        BY <1>1, <2>1, <2>5, AskedRegards DEF WireInv, OnlyTransfer
      <4>3. Relevant = {}
        BY <4>2 DEF Relevant
      <4>4. ToSet(contents) \subseteq Relevant
        BY ElementOfSeq, LenProperties DEF ToSet, WireInv, Buffered
      <4>5. QED
        BY <4>1, <4>3, <4>4
    <3>2. Lacks(t, contents)'
      BY <1>1, <1>5, <3>1 DEF Lacks
    <3>3. QED
      BY <1>1, <2>2, <2>5, <3>2
  <2>6. QED
    BY <2>4, <2>5
<1>10. QED
  BY <1>1, <1>6, <1>7, <1>8, <1>9 DEF WireInv

\* Steps in which the receiver does nothing and nothing is packed.
LEMMA VerdictStays ==
    ASSUME Received, Failed, posts \subseteq posts',
           UNCHANGED <<packed, args, contents, result, pc>>
    PROVE  Received' /\ Failed'
<1>1. WasPacked(result.value) => WasPacked(result.value)'
  <2>1. \A p, t, e : Commits(p, t, e) => Commits(p, t, e)'
    BY DEF Commits
  <2>2. QED
    BY <2>1 DEF WasPacked
<1>2. \A t : Asked(t)' => Asked(t)
  BY DEF Asked
<1>3. \A t : Lacks(t, contents) => Lacks(t, contents)'
  BY DEF Lacks
<1>4. QED
  BY <1>1, <1>2, <1>3 DEF Received, Failed, Causes

\* messaging send posts the next message, or gives up.
LEMMA SendStep ==
    ASSUME WireInv, NEW t \in Transfers, NEW reply,
           SendMessage(t, reply)
    PROVE  WireInv'
<1> DEFINE new == Post(SenderOf(t), Head(outbox[t]))
<1>1. /\ outbox[t] # << >>
      /\ posts' = posts \/ posts' = posts \cup {new}
      /\ \/ outbox' = [outbox EXCEPT ![t] = Tail(outbox[t])]
         \/ outbox' = [outbox EXCEPT ![t] = << >>]
      /\ packed' = packed /\ args' = args /\ contents' = contents
      /\ elapsed' = elapsed /\ result' = result /\ pc' = pc
  BY DEF SendMessage, receiver
<1>2. PICK n \in Nat : Covers(t, n)
  BY DEF WireInv, Origin
<1>3. /\ Head(outbox[t]) \in Made(t, n) /\ Tail(outbox[t]) \in Seq(Made(t, n))
      /\ << >> \in Seq(Made(t, n))
  BY <1>1, <1>2, HeadTailProperties DEF Covers
<1>4. new.sender = SenderOf(t) /\ new.content = Head(outbox[t])
  BY DEF Post
<1>5. new.content.transfer_id = t
  <2>1. PICK e, q, cut : MadeOf(t, n, e, q, cut)
    BY <1>2, <1>3, MadeIsMessage DEF WireInv
  <2>2. Head(outbox[t]).transfer_id = t
    BY <1>3, <2>1, TransferMessages DEF MadeOf
  <2>3. QED
    BY <1>4, <2>2
<1> HIDE DEF new
<1>6. /\ outbox' = [u \in Transfers |-> outbox'[u]] /\ outbox'[t] \in Seq(Made(t, n))
      /\ \A u \in Transfers : u # t => outbox'[u] = outbox[u]
  <2>1. outbox = [u \in Transfers |-> outbox[u]]
    BY DEF WireInv, Origin
  <2>2. QED
    BY <1>1, <1>3, <2>1
<1>7. \A u, k : Made(u, k)' = Made(u, k)
  BY <1>1 DEF Made
<1>8. Covers(t, n)'
  BY <1>1, <1>2, <1>3, <1>4, <1>6, <1>7 DEF Covers
<1>9. ASSUME NEW u \in Transfers, u # t PROVE \E k \in Nat : Covers(u, k)'
  <2>1. PICK k \in Nat : Covers(u, k)
    BY DEF WireInv, Origin
  <2>2. Covers(u, k)'
    BY <1>1, <1>5, <1>6, <1>7, <1>9, <2>1 DEF Covers
  <2>3. QED
    BY <2>2
<1>10. Origin'
  <2>1. \A u \in Transfers : \E k \in Nat : Covers(u, k)'
    BY <1>8, <1>9
  <2>2. \A p \in posts' \ Noise : p.content.transfer_id \in Transfers
    BY <1>1, <1>5 DEF WireInv, Origin
  <2>3. QED
    BY <1>1, <1>6, <2>1, <2>2 DEF WireInv, Origin
<1>11. Buffered(contents)'
  BY <1>1, StaysBuffered DEF WireInv
<1>12. Received' /\ Failed'
  BY <1>1, VerdictStays DEF WireInv
<1>13. QED
  BY <1>1, <1>10, <1>11, <1>12 DEF WireInv

\* Steps that touch neither the conversation nor what the receiver kept.
LEMMA OriginStays ==
    ASSUME Origin, UNCHANGED <<outbox, packed, posts, args>>
    PROVE  Origin'
<1>1. \A u, k : Made(u, k)' = Made(u, k)
  BY DEF Made
<1>2. \A u, k : Covers(u, k) => Covers(u, k)'
  BY <1>1 DEF Covers
<1>3. QED
  BY <1>2 DEF Origin

\* One round of the receiver's loop.
LEMMA PollStep ==
    ASSUME WireInv, NEW window \in Windows, Poll(window)
    PROVE  WireInv'
<1> DEFINE seen == observed(window)[Len(window)]
           outcome == IF seen.code # "Ok" THEN Err(seen.code)
                      ELSE unpack_envelope(seen.contents, args.requested)
<1>1. /\ pc = "polling"
      /\ contents' = seen.contents
      /\ \/ /\ outcome.code \notin Recoverable
            /\ result' = outcome
            /\ pc' = IF outcome.code = "Ok" THEN "received" ELSE "failed"
         \/ /\ outcome.code \in Recoverable
            /\ result' = Err("ReceiveTimeout") /\ pc' = "failed"
         \/ pc' = pc
      /\ outbox' = outbox /\ packed' = packed /\ posts' = posts /\ args' = args
  <2> HIDE DEF seen, outcome
  <2>1. QED
    BY DEF Poll, sender, seen, outcome
<1>2. window \in Seq(posts)
  BY MessagingAssumption DEF Windows, BoundedSeq, SeqOf
<1>3. seen \in Pendings
  BY <1>2, ObservedKeeps DEF WireInv
<1>4. \A t : Asked(t) => seen.code = "Ok"
  BY <1>2, AskedObserved DEF WireInv
<1> HIDE DEF seen
<1>5. seen.contents \in Seq(Relevant) /\ Buffered(seen.contents)
  BY <1>3 DEF Pendings
<1>6. Origin'
  BY <1>1, OriginStays DEF WireInv
<1>7. Buffered(contents)'
  <2>1. Relevant' = Relevant
    BY <1>1 DEF Relevant, Regarded, from_expected
  <2>2. QED
    BY <1>1, <1>5, <2>1 DEF Buffered, NoRepetition
<1>8. Received'
  <2> SUFFICES ASSUME pc' = "received" PROVE WasPacked(result.value)'
    BY DEF Received
  <2>1. outcome.code = "Ok" /\ result' = outcome
    <3> HIDE DEF outcome
    <3>1. QED
      BY <1>1
  <2>2. /\ unpack_envelope(seen.contents, args.requested).code = "Ok"
        /\ outcome = unpack_envelope(seen.contents, args.requested)
    BY <2>1 DEF Err
  <2>3. WasPacked(outcome.value)
    BY <1>5, <2>2, UnpackedWasPacked DEF WireInv
  <2> HIDE DEF outcome
  <2>4. \A p, t, e : Commits(p, t, e) => Commits(p, t, e)'
    BY <1>1 DEF Commits
  <2>5. QED
    BY <1>1, <2>1, <2>3, <2>4 DEF WasPacked
<1>9. Failed'
  <2> SUFFICES ASSUME pc' = "failed", NEW t, Asked(t)'
               PROVE  /\ result'.code \in Causes
                      /\ result'.code = "ReceiveTimeout" => Lacks(t, contents)'
    BY DEF Failed, Causes, get_messages, Replies, call
  <2>1. Asked(t)
    BY <1>1 DEF Asked
  <2>2. seen.code = "Ok" /\ args.requested = {t}
    BY <1>4, <2>1, AskedArgs DEF WireInv
  <2>3. outcome = unpack_envelope(seen.contents, {t})
    BY <2>2
  <2>4. Recognised(t, seen.contents)
    BY <1>5, <2>1, AskedRecognised DEF WireInv
  <2> HIDE DEF outcome
  <2>5. /\ outcome.code \in {"NoTransfer", "IncompleteTransfer", "Ok"}
        /\ outcome.code # "Ok" => Lacks(t, seen.contents)
    BY <2>3, <2>4 DEF Recognised
  <2>6. outcome.code # "Ok" /\ result' = Err("ReceiveTimeout")
    BY <1>1, <2>5 DEF Recoverable
  <2>7. result'.code = "ReceiveTimeout"
    BY <2>6 DEF Err
  <2>8. Lacks(t, contents)'
    BY <1>1, <2>5, <2>6 DEF Lacks
  <2>9. QED
    BY <2>7, <2>8 DEF Causes
<1>10. QED
  <2> HIDE DEF outcome
  <2>1. pc' \in {"polling", "received", "failed"}
    BY <1>1
  <2>2. QED
    BY <1>6, <1>7, <1>8, <1>9, <2>1 DEF WireInv

\* Time passes, and the daemon may not answer.
LEMMA OtherWireStep ==
    ASSUME WireInv, \/ Timeout \/ UNCHANGED vars
                    \/ \E reply \in Replies : PollFails(reply)
    PROVE  WireInv'
<1>1. /\ outbox' = outbox /\ packed' = packed /\ posts' = posts /\ args' = args
      /\ contents' = contents
      /\ \/ result' = result /\ pc' = pc
         \/ /\ pc' = "failed"
            /\ \E reply \in Replies : result' = Err(get_messages(reply))
  BY DEF Timeout, PollFails, sender, vars
<1>2. Origin' /\ Buffered(contents)'
  BY <1>1, OriginStays, StaysBuffered DEF WireInv
<1>3. CASE result' = result /\ pc' = pc
  BY <1>1, <1>2, <1>3, VerdictStays DEF WireInv
<1>4. CASE /\ pc' = "failed"
           /\ \E reply \in Replies : result' = Err(get_messages(reply))
  <2>1. PICK reply \in Replies : result' = Err(get_messages(reply))
    BY <1>4
  <2>2. get_messages(reply) # "ReceiveTimeout"
    BY DEF get_messages, call
  <2>3. result'.code = get_messages(reply)
    BY <2>1 DEF Err
  <2>4. result'.code \in Causes
    BY <2>3 DEF Causes
  <2>5. Failed'
    BY <2>2, <2>3, <2>4 DEF Failed, Causes
  <2>6. QED
    BY <1>2, <1>4, <2>5 DEF WireInv, Received
<1>5. QED
  BY <1>1, <1>3, <1>4

---------------------------------------------------------------------------
(* The theorems about the transfer.                                        *)

\* The invariant of the transfer holds in every state, for any transfers, senders,
\* envelopes and posts of others, and whatever the conversation loses, repeats or
\* reorders.
THEOREM TransferInductive == Spec => []WireInv
<1>1. Init => WireInv
  <2> SUFFICES ASSUME Init PROVE WireInv
    OBVIOUS
  <2>1. /\ outbox = [t \in Transfers |-> << >>]
        /\ packed = [t \in Transfers |-> {}]
        /\ posts = Noise /\ contents = << >> /\ pc = "polling"
        /\ args \in [requested : Requests, expected_sender : ExpectedSenders]
    BY DEF Init, None
  <2>2. ASSUME NEW t \in Transfers PROVE Covers(t, 0)
    BY <2>1 DEF Covers
  <2>3. Origin
    BY <2>1, <2>2 DEF Origin
  <2>4. Buffered(contents)
    BY <2>1, MessagingAssumption DEF Buffered, NoRepetition
  <2>5. QED
    BY <2>1, <2>3, <2>4 DEF WireInv, Received, Failed
<1>2. WireInv /\ [Next]_vars => WireInv'
  <2> SUFFICES ASSUME WireInv, [Next]_vars PROVE WireInv'
    OBVIOUS
  <2>1. ASSUME NEW t \in Transfers, NEW e \in Envelopes, NEW n \in ChunkSizes,
               NEW copies \in Copies, Pack(t, e, n, copies)
        PROVE  WireInv'
    BY <2>1, PackStep
  <2>2. ASSUME NEW t \in Transfers, NEW reply \in Replies, SendMessage(t, reply)
        PROVE  WireInv'
    BY <2>2, SendStep
  <2>3. ASSUME NEW window \in Windows, Poll(window) PROVE WireInv'
    BY <2>3, PollStep
  <2>4. CASE Timeout \/ UNCHANGED vars
    BY <2>4, OtherWireStep
  <2>5. ASSUME NEW reply \in Replies, PollFails(reply) PROVE WireInv'
    BY <2>5, OtherWireStep
  <2>6. QED
    BY <2>1, <2>2, <2>3, <2>4, <2>5 DEF Next
<1>3. QED
  BY <1>1, <1>2, PTL DEF Spec

\* The buffer of observed messages stays within its limit and holds no message
\* twice (PendingWireMessages::observe).
THEOREM TransferTypeCorrect == Spec => []TypeOK
<1>1. WireInv => TypeOK
  BY DEF WireInv, Buffered, NoRepetition, TypeOK
<1>2. QED
  BY <1>1, TransferInductive, PTL

\* Whatever chunks and manifests anyone posts under any transfer id, what
\* receive_envelope hands on is what a manifest of an accepted sender commits to, and
\* the envelope that sender packed under that id if he forges no manifests.
THEOREM OnlyWhatWasPacked == Spec => []ReceivedWasPacked
<1>1. WireInv => ReceivedWasPacked
  BY DEF WireInv, Received, WasPacked, Commits, ReceivedWasPacked, None, Some
<1>2. QED
  BY <1>1, TransferInductive, PTL

\* A receive that asks for a transfer and expects its sender, who keeps to the bundle, is
\* never ended by a protocol error or a full buffer, and never misses a transfer that
\* is complete, whatever other identities post.
THEOREM HonestTransferGetsThrough == Spec => []HonestNeverRejected
<1>1. WireInv => HonestNeverRejected
  <2> SUFFICES ASSUME WireInv, NEW t \in args.requested, pc = "failed",
                      SenderOf(t) \in args.expected_sender, KeepsToBundle(t)
               PROVE  /\ result.code \in Causes
                      /\ result.code = "ReceiveTimeout" => Lacks(t, contents)
    BY Zenon DEF Causes, Lacks, Bundle, HonestNeverRejected
  <2>1. Asked(t)
    BY DEF Asked
  <2>2. QED
    BY <2>1 DEF WireInv, Failed
<1>2. QED
  BY <1>1, TransferInductive, PTL
=============================================================================

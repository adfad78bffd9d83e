---------------------------- MODULE CommitReport ----------------------------
(***************************************************************************)
(* What confirm_install / confirm_remove tell the client about a commit.   *)
(*                                                                         *)
(* libzypp's commit() drives the report receivers of callbacks.cc, either  *)
(* the classic per-package family or the SingleTrans (SA) family.  They    *)
(* buffer raw rpm output per receiver, and write problems, scriptlet       *)
(* failures and (after a failure) the buffered output into the bounded     *)
(* CommitFailureLog.  When commit() has returned or thrown, the tool       *)
(* builds its one final frame from the log, the rejected keys and          *)
(* libzypp's step list.                                                    *)
(*                                                                         *)
(* libzypp itself is the environment: it may take the steps in any order,  *)
(* fail any of them, end an SA report without finish(), give up with an    *)
(* exception or return a result with failed steps.                         *)
(***************************************************************************)
EXTENDS Naturals, Sequences

CONSTANTS
  Steps,        \* the steps of the transaction
  Kind,         \* Kind[s]: the type of step s, see Kinds
  MaxEntries,   \* CommitFailureLog::kMaxEntries (200)
  MaxPending,   \* kMaxPendingLines (100)
  MaxEvents     \* bound of the model: lines rpm writes and scripts, cleanups
                \* and transaction phases it runs

Kinds == {"install", "multi", "erase"}

ASSUME KindAssumption == Kind \in [Steps -> Kinds]
ASSUME EventsAssumption == MaxEvents \in Nat

\* The two capacities of the code are related: the Error of a failed step and
\* the output flushed after it must fit into the log together.
ASSUME CapacityAssumption ==
  /\ MaxPending \in Nat \ {0}
  /\ MaxEntries \in Nat
  /\ MaxPending < MaxEntries

Whole  == "transaction"        \* owner of what belongs to no single step
Owners == Steps \union {Whole}

Classic   == {"install", "remove"}
SA        == {"installSA", "removeSA", "scriptSA", "transactionSA", "cleanupSA"}
Receivers == Classic \union SA

\* CommitPhase, and the phase each receiver records under.
PhaseOf(r) ==
  IF r \in {"install", "installSA"} THEN "install"
  ELSE IF r \in {"remove", "removeSA"} THEN "remove"
  ELSE IF r = "scriptSA" THEN "script"
  ELSE IF r = "transactionSA" THEN "transaction"
  ELSE "cleanup"
Phases     == {"download", "install", "remove", "script", "cleanup",
               "transaction", "preload"}
Severities == {"detail", "warning", "error"}

\* CommitFailureDetail; "from" is a history field: whose output it really is.
Entries == [package : Owners, phase : Phases, severity : Severities,
            from : Owners]
Entry(package, phase, severity) ==
  [package |-> package, phase |-> phase, severity |-> severity,
   from |-> package]

None     == "none"
Reports  == [recv : Receivers \union {None}, step : Owners]
NoReport == [recv |-> None, step |-> Whole]

VARIABLES
  tool,         \* "confirm_install" or "confirm_remove"
  singleTrans,  \* ZYppCommitPolicy::singleTransModeEnabled()
  pc,           \* progress of commit(): see PCs
  stage,        \* stage[s]: STEP_TODO, STEP_DONE or STEP_ERROR
  changed,      \* steps that did touch the system
  attempted,    \* ZYppCommitResult::attemptToModify()
  threw,        \* commit() ended with an exception
  report,       \* the report rpm is running under, or NoReport
  pending,      \* pending[r]: owners of the lines in receiver r's _pending
  log,          \* CommitFailureLog::_entries
  truncated,    \* CommitFailureLog::_truncated
  keyRejected,  \* GpgKeyGate::hasRejections()
  frame,        \* the final frame, NoFrame before it is written
  events,       \* bound of the model: how many of these happened
  recorded,     \* history: how many entries were ever recorded
  warned,       \* history: steps with a scriptlet failure
  culprit       \* history: the step whose failure made commit() throw

vars == <<tool, singleTrans, pc, stage, changed, attempted, threw, report,
          pending, log, truncated, keyRejected, frame, events, recorded,
          warned, culprit>>
system == <<stage, changed>>
fate   == <<pc, attempted, threw, culprit>>
logger == <<log, truncated, recorded>>
fixed  == <<tool, singleTrans>>

PCs == {"preload", "download", "transact", "ended", "reported"}

Frames ==
  [code : {None, "result", "KEY_NOT_TRUSTED", "COMMIT_FAILED",
           "COMMIT_PREPARE_FAILED", "EXCEPTION"},
   failed : SUBSET Steps, skipped : SUBSET Steps, listed : SUBSET Steps,
   details : Seq(Entries), truncated : BOOLEAN]

\* A frame with neither step lists nor details.
Bare(code) ==
  [code |-> code, failed |-> {}, skipped |-> {}, listed |-> {},
   details |-> <<>>, truncated |-> FALSE]

NoFrame == Bare(None)

\* The types of everything but the final frame.
StateOK ==
  /\ tool \in {"confirm_install", "confirm_remove"}
  /\ singleTrans \in BOOLEAN
  /\ pc \in PCs
  /\ stage \in [Steps -> {"todo", "done", "error"}]
  /\ changed \in SUBSET Steps
  /\ attempted \in BOOLEAN
  /\ threw \in BOOLEAN
  /\ report \in Reports
  /\ pending \in [Receivers -> Seq(Owners)]
  /\ \A r \in Receivers : Len(pending[r]) <= MaxPending
  /\ log \in Seq(Entries)
  /\ Len(log) <= MaxEntries
  /\ truncated \in BOOLEAN
  /\ keyRejected \in BOOLEAN
  /\ events \in 0 .. MaxEvents
  /\ recorded \in Nat
  /\ warned \in SUBSET Owners
  /\ culprit \in Owners \union {None}

TypeOK == StateOK /\ frame \in Frames

Init ==
  /\ tool \in {"confirm_install", "confirm_remove"}
  /\ singleTrans \in BOOLEAN
  /\ pc = "preload"
  /\ stage = [s \in Steps |-> "todo"]
  /\ changed = {}
  /\ attempted = FALSE
  /\ threw = FALSE
  /\ report = NoReport
  /\ pending = [r \in Receivers |-> <<>>]
  /\ log = <<>>
  /\ truncated = FALSE
  /\ keyRejected = FALSE
  /\ frame = NoFrame
  /\ events = 0
  /\ recorded = 0
  /\ warned = {}
  /\ culprit = None

Reporting == report # NoReport    \* rpm is running under a report

-----------------------------------------------------------------------------
(* CommitFailureLog and the pending buffers.                               *)

\* The last n elements of s.
Tailing(s, n) == IF Len(s) > n THEN SubSeq(s, Len(s) - n + 1, Len(s)) ELSE s

\* Fault: a log without a limit.
RecordUnbounded(entries) ==
  /\ log' = log \o entries
  /\ truncated' = truncated
  /\ recorded' = recorded + Len(entries)

\* Fault: a full log that drops what comes in, not what is oldest.
RecordHead(entries) ==
  /\ log' = SubSeq(log \o entries, 1, IF Len(log \o entries) > MaxEntries
                                      THEN MaxEntries
                                      ELSE Len(log \o entries))
  /\ truncated' = (truncated \/ Len(log \o entries) > MaxEntries)
  /\ recorded' = recorded + Len(entries)

\* Fault: one entry too many fits before the log calls itself truncated.
RecordLate(entries) ==
  /\ log' = Tailing(log \o entries, MaxEntries)
  /\ truncated' = (truncated \/ Len(log \o entries) > MaxEntries + 1)
  /\ recorded' = recorded + Len(entries)

\* record(), once per entry: a full log loses its oldest entry.
Record(entries) ==
  /\ log' = Tailing(log \o entries, MaxEntries)
  /\ truncated' = (truncated \/ Len(log \o entries) > MaxEntries)
  /\ recorded' = recorded + Len(entries)

HasErrors == \E i \in 1 .. Len(log) : log[i].severity = "error"

\* pushPending(): a full buffer loses its oldest line.
PushPending(r, owner) ==
  pending' = [pending EXCEPT ![r] = Tailing(Append(@, owner), MaxPending)]

ClearPending(r) == pending' = [pending EXCEPT ![r] = <<>>]

\* flushPending(): every buffered line becomes a Detail of the given package.
Flushed(r, package) ==
  [i \in 1 .. Len(pending[r]) |->
    [package |-> package, phase |-> PhaseOf(r), severity |-> "detail",
     from |-> pending[r][i]]]

-----------------------------------------------------------------------------
(* Before the point of no return.                                          *)

\* commit() ends with an exception; s is the step it can be blamed on, if any.
Throw(s) ==
  /\ pc' = "ended"
  /\ threw' = TRUE
  /\ culprit' = s
  /\ UNCHANGED attempted

\* McpCommitPreloadReceive::finish(SUCCESS or MISS).
PreloadFinish ==
  /\ pc = "preload"
  /\ pc' = "download"
  /\ \/ UNCHANGED logger
     \/ Record(<<Entry(Whole, "preload", "error")>>)
  /\ UNCHANGED <<fixed, system, attempted, threw, culprit, report, pending,
                 keyRejected, frame, events, warned>>

\* McpDownloadReceive::problem() and finish(), with or without a reason.  The
\* ABORT makes commit() throw, or libzypp counts the package as missing.  In
\* DownloadAsNeeded mode this happens between the steps of the transaction.
DownloadProblem(s) ==
  /\ \/ pc = "download"
     \/ pc = "transact" /\ ~singleTrans /\ ~Reporting
  /\ stage[s] = "todo"
  /\ \E n \in 1 .. 2 : Record([i \in 1 .. n |-> Entry(s, "download", "error")])
  /\ stage' = [stage EXCEPT ![s] = "error"]
  /\ Throw(s) \/ UNCHANGED fate
  /\ UNCHANGED <<fixed, changed, report, pending, keyRejected, frame, events,
                 warned>>

\* GpgKeyGate::recordRejection() by a trust callback; libzypp gives up or goes
\* on without the key.
RejectKey ==
  /\ pc = "download"
  /\ ~keyRejected
  /\ keyRejected' = TRUE
  /\ Throw(None) \/ UNCHANGED fate
  /\ UNCHANGED <<fixed, system, report, pending, logger, frame, events, warned>>

\* commit_active was acknowledged and no package is missing.
BeginTransaction ==
  /\ pc = "download"
  /\ \A s \in Steps : stage[s] # "error"
  /\ pc' = "transact"
  /\ attempted' = TRUE
  /\ UNCHANGED <<fixed, system, threw, culprit, report, pending, logger,
                 keyRejected, frame, events, warned>>

-----------------------------------------------------------------------------
(* The rpm transaction.                                                    *)

StepReceiver(s) ==
  IF Kind[s] = "erase"
  THEN IF singleTrans THEN "removeSA"  ELSE "remove"
  ELSE IF singleTrans THEN "installSA" ELSE "install"

Open(r, owner) ==
  /\ pc = "transact" /\ ~Reporting
  /\ report' = [recv |-> r, step |-> owner]
  /\ UNCHANGED <<fixed, system, fate, pending, logger, keyRejected, frame,
                 warned>>

\* start() of an install or remove receiver.
StartStep(s) ==
  /\ stage[s] = "todo"
  /\ Open(StepReceiver(s), s)
  /\ UNCHANGED events

CountEvent == events < MaxEvents /\ events' = events + 1

\* start() of the script, cleanup and transaction receivers.
StartScript(owner) == singleTrans /\ CountEvent /\ Open("scriptSA", owner)
StartCleanup(s) ==
  /\ singleTrans /\ CountEvent
  /\ Kind[s] # "erase" /\ stage[s] = "done"
  /\ Open("cleanupSA", s)
StartPhase == singleTrans /\ CountEvent /\ Open("transactionSA", Whole)

Line == pc = "transact" /\ CountEvent

\* report(): a routine line of rpm output is only buffered ...
RoutineLine ==
  /\ Line /\ Reporting
  /\ PushPending(report.recv, report.step)
  /\ UNCHANGED <<fixed, system, fate, report, logger, keyRejected, frame,
                 warned>>

\* Fault: a scriptlet failure buffered like any other line.
ScriptletLineBuffered ==
  /\ Line /\ Reporting
  /\ PushPending(report.recv, report.step)
  /\ warned' = warned \union {report.step}
  /\ UNCHANGED <<fixed, system, fate, report, logger, keyRejected, frame>>

\* ... one that looks like a scriptlet failure is recorded at once.
ScriptletLine ==
  /\ Line /\ Reporting
  /\ Record(<<Entry(report.step, PhaseOf(report.recv), "warning")>>)
  /\ warned' = warned \union {report.step}
  /\ UNCHANGED <<fixed, system, fate, report, pending, keyRejected, frame>>

\* McpSingleTransReceive::report(): war, or err / crt.
LogLine ==
  /\ Line /\ singleTrans
  /\ \/ /\ Record(<<Entry(Whole, "transaction", "warning")>>)
        /\ warned' = warned \union {Whole}
     \/ /\ Record(<<Entry(Whole, "transaction", "error")>>)
        /\ UNCHANGED warned
  /\ UNCHANGED <<fixed, system, fate, report, pending, keyRejected, frame>>

IsStepReport == report.recv \notin {"scriptSA", "transactionSA", "cleanupSA"}

\* Fault: a finish() that keeps the output of a step that went well.
FinishOkKeeping ==
  /\ pc = "transact" /\ Reporting
  /\ IF IsStepReport
     THEN /\ stage' = [stage EXCEPT ![report.step] = "done"]
          /\ changed' = changed \union {report.step}
     ELSE UNCHANGED system
  /\ report' = NoReport
  /\ UNCHANGED <<fixed, fate, pending, logger, keyRejected, frame, events,
                 warned>>

\* finish(NO_ERROR), for an SA report followed by reportend().
FinishOk ==
  /\ pc = "transact" /\ Reporting
  /\ IF IsStepReport
     THEN /\ stage' = [stage EXCEPT ![report.step] = "done"]
          /\ changed' = changed \union {report.step}
     ELSE UNCHANGED system
  /\ ClearPending(report.recv)
  /\ report' = NoReport
  /\ UNCHANGED <<fixed, fate, logger, keyRejected, frame, events, warned>>

\* McpCommitScriptSAReceive::finish(WARN): non-fatal, its output is dropped.
FinishWarn ==
  /\ pc = "transact" /\ Reporting
  /\ report.recv = "scriptSA"
  /\ Record(<<Entry(report.step, "script", "warning")>>)
  /\ warned' = warned \union {report.step}
  /\ ClearPending("scriptSA")
  /\ report' = NoReport
  /\ UNCHANGED <<fixed, system, fate, keyRejected, frame, events>>

\* finish(error): n Errors first, then the buffered output as Detail.
CloseFailed(n) ==
  /\ Record([i \in 1 .. n |->
               Entry(report.step, PhaseOf(report.recv), "error")]
            \o Flushed(report.recv, report.step))
  /\ ClearPending(report.recv)
  /\ report' = NoReport
  /\ UNCHANGED <<fixed, keyRejected, frame, events, warned>>

\* A step that failed may have touched the system.
StepFailed ==
  /\ stage' = [stage EXCEPT ![report.step] = "error"]
  /\ changed' \in {changed, changed \union {report.step}}

\* McpInstallReceive, McpRemoveReceive: an Error from problem() and one from
\* finish() if there is a reason.  problem() returns ABORT: commit() throws,
\* or libzypp goes on with the next step.
ClassicStepFails ==
  /\ pc = "transact" /\ report.recv \in Classic
  /\ \E n \in 1 .. 2 : CloseFailed(n)
  /\ StepFailed
  /\ Throw(report.step) \/ UNCHANGED fate

\* McpInstallSAReceive, McpRemoveSAReceive: no Error entry at all.
SAStepFails ==
  /\ pc = "transact" /\ report.recv \in {"installSA", "removeSA"}
  /\ CloseFailed(0)
  /\ StepFailed
  /\ UNCHANGED fate

\* McpCommitScriptSAReceive::finish(CRITICAL).
ScriptFails ==
  /\ pc = "transact" /\ report.recv = "scriptSA"
  /\ CloseFailed(1)
  /\ UNCHANGED <<system, fate>>

PhaseFails ==
  /\ pc = "transact" /\ report.recv = "transactionSA"
  /\ CloseFailed(1)
  /\ UNCHANGED <<system, fate>>

CleanupFails ==
  /\ pc = "transact" /\ report.recv = "cleanupSA"
  /\ CloseFailed(0)
  /\ UNCHANGED <<system, fate>>

\* reportend() of an SA report whose finish() never came.
ReportEnd ==
  /\ pc = "transact" /\ Reporting
  /\ report.recv \in SA
  /\ ClearPending(report.recv)
  /\ report' = NoReport
  /\ UNCHANGED <<fixed, system, fate, logger, keyRejected, frame, events,
                 warned>>

-----------------------------------------------------------------------------
(* The end of commit() and the tool's final frame.                         *)

AllDone == \A s \in Steps : stage[s] = "done"
Failed  == {s \in Steps : stage[s] = "error"}

\* commit() returns: everything was done, packages are missing (nothing was
\* touched), or the transaction came to an end with failed steps.
CommitReturns ==
  /\ \/ pc = "download" /\ Failed # {}
     \/ pc = "transact" /\ ~Reporting /\ (AllDone \/ Failed # {})
  /\ pc' = "ended"
  /\ UNCHANGED <<fixed, system, attempted, threw, culprit, report, pending,
                 logger, keyRejected, frame, events, warned>>

\* commit() throws for a reason no receiver saw (a declined commit_active, the
\* rpm database, a dead helper process).
CommitThrows ==
  /\ pc \in {"preload", "download", "transact"} /\ ~Reporting
  /\ Throw(None)
  /\ UNCHANGED <<fixed, system, report, pending, logger, keyRejected, frame,
                 events, warned>>

\* commitFailureToJson(); "steps" is result.transactionStepList(), which is
\* empty when commit() threw.
CommitFailure(code, steps) ==
  [code |-> code, failed |-> steps \intersect Failed,
   skipped |-> steps \ Failed, listed |-> {}, details |-> log,
   truncated |-> truncated]

IsIssue(entry) == entry.severity # "detail"

\* commitIssuesToJson(): the entries that are issues, in the order of the log.
IssuesOf(entries) ==
  LET upTo[n \in 0 .. Len(entries)] ==
        IF n = 0 THEN <<>>
        ELSE IF IsIssue(entries[n]) THEN Append(upTo[n - 1], entries[n])
        ELSE upTo[n - 1]
  IN  upTo[Len(entries)]

\* The result frame; its warnings are the issues of the log, and only steps of
\* the tool's own type are listed.
Success ==
  [code |-> "result", failed |-> {}, skipped |-> {},
   listed |-> {s \in Steps :
                Kind[s] = IF tool = "confirm_install" THEN "install" ELSE "erase"},
   details |-> IssuesOf(log), truncated |-> FALSE]

\* Only confirm_install looks at the rejected keys.
KeyError == tool = "confirm_install" /\ keyRejected

\* catch (zypp::Exception): key error, COMMIT_FAILED, or rethrow to main().
FrameOfThrown ==
  IF KeyError THEN Bare("KEY_NOT_TRUSTED")
  ELSE IF HasErrors THEN CommitFailure("COMMIT_FAILED", {})
  ELSE Bare("EXCEPTION")

\* commit() returned a result.
FrameOfReturned ==
  IF KeyError THEN Bare("KEY_NOT_TRUSTED")
  ELSE IF AllDone THEN Success
  ELSE CommitFailure(IF attempted THEN "COMMIT_FAILED"
                     ELSE "COMMIT_PREPARE_FAILED", Steps)

Tell(f) ==
  /\ pc = "ended"
  /\ frame' = f
  /\ pc' = "reported"
  /\ UNCHANGED <<fixed, system, attempted, threw, culprit, report, pending,
                 logger, keyRejected, events, warned>>

\* Fault: writeCommitFailure(result) in the catch block, where result is still
\* the empty object and attemptToModify() always FALSE.
ReportThrownPrepare ==
  /\ threw
  /\ Tell(IF KeyError THEN Bare("KEY_NOT_TRUSTED")
          ELSE IF HasErrors THEN CommitFailure("COMMIT_PREPARE_FAILED", {})
          ELSE Bare("EXCEPTION"))

ReportThrown   == threw /\ Tell(FrameOfThrown)
ReportReturned == ~threw /\ Tell(FrameOfReturned)

Over == pc = "reported" /\ UNCHANGED vars

Next ==
  \/ PreloadFinish \/ RejectKey \/ BeginTransaction
  \/ \E s \in Steps : DownloadProblem(s) \/ StartStep(s) \/ StartCleanup(s)
  \/ \E owner \in Owners : StartScript(owner)
  \/ StartPhase
  \/ RoutineLine \/ ScriptletLine \/ LogLine
  \/ FinishOk \/ FinishWarn \/ ReportEnd
  \/ ClassicStepFails \/ SAStepFails \/ ScriptFails \/ PhaseFails
  \/ CleanupFails
  \/ CommitReturns \/ CommitThrows
  \/ ReportThrown \/ ReportReturned
  \/ Over

Spec == Init /\ [][Next]_vars

-----------------------------------------------------------------------------
(* Safety.                                                                 *)

Told == frame.code # None

\* COMMIT_PREPARE_FAILED promises "nothing was installed" / "removed": it is
\* never the answer to a commit that touched the system, however it ended.
PrepareFailedTouchedNothing ==
  Told => (frame.code = "COMMIT_PREPARE_FAILED" => changed = {})

\* When the failure of a step or a download aborts the commit, the client gets
\* a COMMIT_FAILED frame with the Error that names it, however much output was
\* flushed into the bounded log on top of it (or the more specific key error).
FailureNamesItsCulprit ==
  Told /\ culprit # None /\ ~KeyError =>
    /\ frame.code = "COMMIT_FAILED"
    /\ \E i \in 1 .. Len(frame.details) :
         frame.details[i].severity = "error" /\ frame.details[i].package = culprit

\* Buffered output is never attributed to another step than the one that wrote
\* it, in particular not to a later step of the same receiver.
DetailsBelongToTheirStep ==
  \A i \in 1 .. Len(log) : log[i].from = log[i].package

\* A scriptlet failure in a transaction that otherwise succeeds is reported as
\* a warning of that package; it can be missing only if the log overflowed.
ScriptletFailuresAreReported ==
  Told /\ frame.code = "result" /\ ~truncated =>
    \A owner \in warned : \E i \in 1 .. Len(frame.details) :
      /\ frame.details[i].package = owner
      /\ frame.details[i].severity = "warning"

\* A failure frame says that it is truncated iff an entry was lost.
LossIsAnnounced ==
  Told /\ frame.code \in {"COMMIT_FAILED", "COMMIT_PREPARE_FAILED"} =>
    (frame.truncated <=> Len(frame.details) < recorded)

\* mcp-server-zypp.changes 0.1.1: a failed commit is reported "including which
\* packages failed vs. were skipped".  A skipped package was not changed.
SkippedWereNotDone ==
  Told => \A s \in frame.skipped : stage[s] # "done"

\* commitfailurelog.h:48-51: "raw rpm output is recorded unconditionally", and
\* h:125-126: "Detail entries are recorded on every commit, successful ones
\* included".
RawOutputIsRecorded == [][RoutineLine => recorded' > recorded]_vars

-----------------------------------------------------------------------------
(* The inductive invariant behind the safety properties.                   *)

\* The log has lost entries exactly if it says so.
LogInv ==
  /\ Len(log) <= recorded
  /\ truncated <=> Len(log) < recorded

\* Nothing is changed before the transaction began.
TouchInv == changed # {} \/ pc = "transact" => attempted

\* Only the receiver that is reporting holds output, all of it from the step it
\* reports on; the receivers of steps report on steps.
OwnerInv ==
  /\ report.recv = None => report = NoReport
  /\ Reporting /\ IsStepReport => report.step \in Steps
  /\ \A r \in Receivers : \A i \in 1 .. Len(pending[r]) :
       report.recv = r /\ pending[r][i] = report.step

\* The step that made commit() throw has its Error in the log.
Named(step) ==
  \E i \in 1 .. Len(log) : log[i].severity = "error" /\ log[i].package = step
CulpritInv ==
  culprit # None => threw /\ pc \in {"ended", "reported"} /\ Named(culprit)

\* The frame is what the state it was built from still says.
FrameInv ==
  IF pc = "reported"
  THEN frame = IF threw THEN FrameOfThrown ELSE FrameOfReturned
  ELSE frame = NoFrame

ReportInv ==
  /\ StateOK
  /\ LogInv /\ TouchInv /\ OwnerInv /\ CulpritInv /\ FrameInv
  /\ DetailsBelongToTheirStep
=============================================================================

----------------------------- MODULE WorkerCall -----------------------------
(***************************************************************************)
(* One confirm_install call: the proxy's worker.Invoke (frame loop and     *)
(* cancellation watcher), the zypp-mcp-tool process it started (argument   *)
(* and solver phase, download, commit_active handshake, rpm transaction),  *)
(* the two pipes between them, the signals, the MCP client that may cancel *)
(* and the human who answers trust questions.                              *)
(*                                                                         *)
(* Every action below is one atomic step of one of these parties; the      *)
(* proxy's critical section (mu) is split in two steps so that the client  *)
(* can cancel in the middle of it.                                         *)
(***************************************************************************)
EXTENDS Naturals, Sequences

CONSTANTS
  Packages,      \* the steps of the planned transaction
  PipeCapacity   \* frames the worker's stdout pipe holds before a write blocks

ASSUME PipeAssumption == PipeCapacity \in Nat \ {0}

VARIABLES
  \* --- proxy ---
  proxyUp,           \* FALSE once the proxy process has died
  ctxCancelled,      \* ctx.Err() # nil: the client cancelled (never reset)
  stillCancellable,  \* the latch of invokeIO
  mu,                \* holder of invokeIO's mutex: "free" or "loop"
  loop,              \* the frame loop, see LoopStates
  reply,             \* the frame the loop is about to write to the worker
  watcher,           \* the ctx.Done() goroutine, see WatcherStates
  lastResult,        \* lastResult of invokeIO: "none", "result" or "error"
  returned,          \* what Invoke returned, "no" while it runs
  signalled,         \* history: signals the watcher has sent
  \* --- pipes ---
  stdin,             \* replies on their way to the worker
  stdout,            \* frames on their way to the proxy
  \* --- worker ---
  wpc,               \* where the worker is, see WorkerStates
  fate,              \* how the process stands, see Fates
  gCancelled,        \* g_cancelled of cancellation.cc
  pastPonr,          \* pastPointOfNoReturn() of callbacks.cc
  asNeeded,          \* libzypp's DownloadAsNeeded mode, fixed for a call
  fetched,           \* packages downloaded and checked
  installed,         \* packages rpm has changed
  rejected,          \* packages whose key GpgKeyGate recorded as rejected
  asking,            \* the packages (at most one) whose key is in question
  cause              \* why the commit stopped early, see Causes

proxyVars  == <<proxyUp, ctxCancelled, stillCancellable, mu, loop, reply,
                watcher, lastResult, returned, signalled>>
pipeVars   == <<stdin, stdout>>
workerVars == <<wpc, fate, gCancelled, pastPonr, asNeeded, fetched,
                installed, rejected, asking, cause>>
vars       == <<proxyVars, pipeVars, workerVars>>

LoopStates    == {"reading", "deciding", "asking", "replying", "closed"}
WatcherStates == {"waiting", "terminating", "grace", "expired", "killing",
                  "gone"}
WorkerStates  == {"boot", "prepare", "download", "awaitAnswer", "awaitAck",
                  "transact", "report", "exiting"}
Fates         == {"running", "exited", "sigterm", "sigkill", "sigpipe",
                  "crashed"}
Causes        == {"none", "refused", "cancel", "ack", "key", "keyCancel",
                  "download", "rpm"}

(***************************************************************************)
(* Wire protocol.  decline and declineCancelled are the same bytes         *)
(* ({"answer":"decline"}); the model tells a decline the human gave (or a  *)
(* dead proxy implies) from one the proxy made up because ctx is done.     *)
(***************************************************************************)
Acks    == {"ackTrue", "ackFalse"}
Answers == {"accept", "decline", "declineCancelled"}
Replies == Acks \union Answers
Finals  == {"result", "error"}
Frames  == {"progress", "elicitation", "commitActive", "commitFinished"}
           \union Finals

TypeOK ==
  /\ proxyUp \in BOOLEAN
  /\ ctxCancelled \in BOOLEAN
  /\ stillCancellable \in BOOLEAN
  /\ mu \in {"free", "loop"}
  /\ loop \in LoopStates
  /\ reply \in Replies
  /\ watcher \in WatcherStates
  /\ lastResult \in {"none"} \union Finals
  /\ returned \in {"no", "failed"} \union Finals
  /\ signalled \in SUBSET {"term", "kill"}
  /\ stdin \in Seq(Replies)
  /\ stdout \in Seq(Frames)
  /\ wpc \in WorkerStates
  /\ fate \in Fates
  /\ gCancelled \in BOOLEAN
  /\ pastPonr \in BOOLEAN
  /\ asNeeded \in BOOLEAN
  /\ fetched \in SUBSET Packages
  /\ installed \in SUBSET Packages
  /\ rejected \in SUBSET Packages
  /\ asking \in SUBSET Packages
  /\ cause \in Causes

Init ==
  /\ proxyUp = TRUE
  /\ ctxCancelled = FALSE
  /\ stillCancellable = TRUE
  /\ mu = "free"
  /\ loop = "reading"
  /\ reply = "decline"
  /\ watcher = "waiting"
  /\ lastResult = "none"
  /\ returned = "no"
  /\ signalled = {}
  /\ stdin = <<>>
  /\ stdout = <<>>
  /\ wpc = "boot"
  /\ fate = "running"
  /\ gCancelled = FALSE
  /\ pastPonr = FALSE
  /\ asNeeded \in BOOLEAN
  /\ fetched = {}
  /\ installed = {}
  /\ rejected = {}
  /\ asking = {}
  /\ cause = "none"

-----------------------------------------------------------------------------
(* The worker's side of the pipes.                                         *)

Running == fate = "running"

\* McpTransport::writeFrame: blocks while the pipe is full; once the proxy
\* has died the frame is lost (the write may also kill us: WorkerSigpipe).
Emit(frame) ==
  IF proxyUp
  THEN /\ Len(stdout) < PipeCapacity
       /\ stdout' = Append(stdout, frame)
  ELSE UNCHANGED stdout

\* McpTransport::readFrame: blocks until a frame or end of file.
StdinReadable == stdin # <<>> \/ ~proxyUp
NextReply     == IF stdin = <<>> THEN "eof" ELSE Head(stdin)
DropReply     == stdin' = IF stdin = <<>> THEN <<>> ELSE Tail(stdin)

\* Fault: a poll that ignores pastPointOfNoReturn().
ShouldAbortUngated == gCancelled

\* shouldAbortNow() / skipElicitation().
ShouldAbortNow == gCancelled /\ ~pastPonr

\* libzypp downloads before commit_active, or, in DownloadAsNeeded mode,
\* after it and interleaved with the install steps.
Fetching == IF asNeeded THEN wpc = "transact" ELSE wpc = "download"

\* commit() is over (returned or threw) and the tool reports what happened.
StopCommit(why) ==
  /\ wpc' = "report"
  /\ cause' = why

-----------------------------------------------------------------------------
(* The worker.                                                             *)

\* main(): until installCancellationHandler() has run a SIGTERM kills.
InstallHandler ==
  /\ Running /\ wpc = "boot"
  /\ wpc' = "prepare"
  /\ UNCHANGED <<proxyVars, pipeVars, fate, gCancelled, pastPonr, asNeeded,
                 fetched, installed, rejected, asking, cause>>

\* PERMISSION_DENIED, LOCKED, a bad argument, SOLVER_ERROR or an unconfirmed
\* license: the tool ends with an error frame before commit().
Refuse ==
  /\ Running /\ wpc = "prepare"
  /\ StopCommit("refused")
  /\ UNCHANGED <<proxyVars, pipeVars, fate, gCancelled, pastPonr, asNeeded,
                 fetched, installed, rejected, asking>>

StartCommit ==
  /\ Running /\ wpc = "prepare"
  /\ wpc' = "download"
  /\ UNCHANGED <<proxyVars, pipeVars, fate, gCancelled, pastPonr, asNeeded,
                 fetched, installed, rejected, asking, cause>>

\* McpDownloadReceive::progress and ::finish (McpCommitPreloadReceive::progress
\* behaves the same): a progress frame, then the cancellation poll.
Download(p) ==
  /\ Running /\ Fetching
  /\ p \notin fetched
  /\ Emit("progress")
  /\ IF ShouldAbortNow
     THEN /\ StopCommit("cancel")
          /\ UNCHANGED fetched
     ELSE /\ fetched' = fetched \union {p}
          /\ UNCHANGED <<wpc, cause>>
  /\ UNCHANGED <<proxyVars, stdin, fate, gCancelled, pastPonr, asNeeded,
                 installed, rejected, asking>>

\* McpDownloadReceive::problem: record an Error and ABORT.
DownloadFails ==
  /\ Running /\ Fetching
  /\ fetched # Packages
  /\ StopCommit("download")
  /\ UNCHANGED <<proxyVars, pipeVars, fate, gCancelled, pastPonr, asNeeded,
                 fetched, installed, rejected, asking>>

\* askUserToAcceptKey, ACCEPT_PACKAGE_KEY_REQUEST, ...: ask the client, unless
\* a cancelled call still before the point of no return makes it pointless
\* (libzypp then aborts, or goes on without the question being put).
Elicit(p) ==
  /\ Running /\ Fetching
  /\ p \notin fetched
  /\ IF ShouldAbortNow
     THEN /\ rejected' = rejected \union {p}
          /\ \/ StopCommit("cancel") /\ UNCHANGED fetched
             \/ fetched' = fetched \union {p} /\ UNCHANGED <<wpc, cause>>
          /\ UNCHANGED <<stdout, asking>>
     ELSE /\ Emit("elicitation")
          /\ wpc' = "awaitAnswer"
          /\ asking' = {p}
          /\ UNCHANGED <<rejected, cause, fetched>>
  /\ UNCHANGED <<proxyVars, stdin, fate, gCancelled, pastPonr, asNeeded,
                 installed>>

\* Fault: a reader that leaves the answer in the pipe.
ReadAnswerPeeking ==
  /\ Running /\ wpc = "awaitAnswer"
  /\ StdinReadable
  /\ fetched' = fetched \union asking
  /\ asking' = {}
  /\ wpc' = IF pastPonr THEN "transact" ELSE "download"
  /\ UNCHANGED <<proxyVars, pipeVars, fate, gCancelled, pastPonr, asNeeded,
                 installed, rejected, cause>>

\* The rest of these handlers: anything but an acceptance (a decline, end of
\* file, a frame without "answer") is a rejection, recorded in GpgKeyGate.
\* libzypp then either aborts the commit or goes on without the question.
ReadAnswer ==
  /\ Running /\ wpc = "awaitAnswer"
  /\ StdinReadable
  /\ DropReply
  /\ asking' = {}
  /\ \/ /\ NextReply = "accept"
        /\ fetched' = fetched \union asking
        /\ wpc' = IF pastPonr THEN "transact" ELSE "download"
        /\ UNCHANGED <<rejected, cause>>
     \/ /\ NextReply # "accept"
        /\ rejected' = rejected \union asking
        /\ \/ /\ fetched' = fetched \union asking
              /\ wpc' = IF pastPonr THEN "transact" ELSE "download"
              /\ UNCHANGED cause
           \/ /\ StopCommit(IF NextReply = "declineCancelled"
                            THEN "keyCancel" ELSE "key")
              /\ UNCHANGED fetched
  /\ UNCHANGED <<proxyVars, stdout, fate, gCancelled, pastPonr, asNeeded,
                 installed>>

\* McpCommitActiveReceive::start, first half.
Activate ==
  /\ Running /\ wpc = "download"
  /\ asNeeded \/ fetched = Packages
  /\ Emit("commitActive")
  /\ wpc' = "awaitAck"
  /\ UNCHANGED <<proxyVars, stdin, fate, gCancelled, pastPonr, asNeeded,
                 fetched, installed, rejected, asking, cause>>

\* Fault: a handshake satisfied by any frame.
ReadAckAny ==
  /\ Running /\ wpc = "awaitAck"
  /\ StdinReadable
  /\ DropReply
  /\ pastPonr' = TRUE
  /\ wpc' = "transact"
  /\ UNCHANGED <<proxyVars, stdout, fate, gCancelled, asNeeded, fetched,
                 installed, rejected, asking, cause>>

\* Second half: only an explicit {"ack":true} enters the transaction.
ReadAck ==
  /\ Running /\ wpc = "awaitAck"
  /\ StdinReadable
  /\ DropReply
  /\ IF NextReply = "ackTrue"
     THEN /\ pastPonr' = TRUE
          /\ wpc' = "transact"
          /\ UNCHANGED cause
     ELSE /\ StopCommit("ack")
          /\ UNCHANGED pastPonr
  /\ UNCHANGED <<proxyVars, stdout, fate, gCancelled, asNeeded, fetched,
                 installed, rejected, asking>>

\* One rpm step that worked (start, progress, finish of its receiver).
InstallStep(p) ==
  /\ Running /\ wpc = "transact"
  /\ p \in fetched \ installed
  /\ Emit("progress")
  /\ installed' = installed \union {p}
  /\ UNCHANGED <<proxyVars, stdin, wpc, fate, gCancelled, pastPonr, asNeeded,
                 fetched, rejected, asking, cause>>

\* One that did not: problem() returns ABORT, commit() ends early.
InstallFails ==
  /\ Running /\ wpc = "transact"
  /\ fetched \ installed # {}
  /\ Emit("progress")
  /\ StopCommit("rpm")
  /\ UNCHANGED <<proxyVars, stdin, fate, gCancelled, pastPonr, asNeeded,
                 fetched, installed, rejected, asking>>

\* All steps done: McpCommitActiveReceive::reportend, commit() returns.
FinishCommit ==
  /\ Running /\ wpc = "transact"
  /\ installed = Packages
  /\ Emit("commitFinished")
  /\ wpc' = "report"
  /\ UNCHANGED <<proxyVars, stdin, fate, gCancelled, pastPonr, asNeeded,
                 fetched, installed, rejected, asking, cause>>

\* Fault: a report that looks at the commit alone and not at the rejected keys.
ReportIgnoringKeys ==
  /\ Running /\ wpc = "report"
  /\ Emit(IF cause = "none" THEN "result" ELSE "error")
  /\ wpc' = "exiting"
  /\ UNCHANGED <<proxyVars, stdin, fate, gCancelled, pastPonr, asNeeded,
                 fetched, installed, rejected, asking, cause>>

\* tool_confirm_install after commit(): a rejected key is an error whether
\* commit() threw or returned; otherwise the outcome of the commit decides.
Report ==
  /\ Running /\ wpc = "report"
  /\ Emit(IF cause = "none" /\ rejected = {} THEN "result" ELSE "error")
  /\ wpc' = "exiting"
  /\ UNCHANGED <<proxyVars, stdin, fate, gCancelled, pastPonr, asNeeded,
                 fetched, installed, rejected, asking, cause>>

Exit ==
  /\ Running /\ wpc = "exiting"
  /\ fate' = "exited"
  /\ UNCHANGED <<proxyVars, pipeVars, wpc, gCancelled, pastPonr, asNeeded,
                 fetched, installed, rejected, asking, cause>>

WorkerStep ==
  \/ InstallHandler \/ Refuse \/ StartCommit
  \/ \E p \in Packages : Download(p) \/ Elicit(p) \/ InstallStep(p)
  \/ DownloadFails \/ ReadAnswer \/ Activate \/ ReadAck
  \/ InstallFails \/ FinishCommit \/ Report \/ Exit

-----------------------------------------------------------------------------
(* The proxy's frame loop (invokeIO) and the human behind the client.      *)

LoopReady == proxyUp /\ loop = "reading" /\ stdout # <<>>
Frame     == Head(stdout)

\* Fault: a loop that keeps every frame it is not told to answer.
LoopReceiveAny ==
  /\ LoopReady
  /\ Frame \in {"progress", "commitFinished"} \union Finals
  /\ stdout' = Tail(stdout)
  /\ lastResult' = Frame
  /\ UNCHANGED <<proxyUp, ctxCancelled, stillCancellable, mu, loop, reply,
                 watcher, returned, signalled, stdin, workerVars>>

\* progress frames and commit_finished change nothing; a final frame is kept.
LoopReceive ==
  /\ LoopReady
  /\ Frame \in {"progress", "commitFinished"} \union Finals
  /\ stdout' = Tail(stdout)
  /\ lastResult' = IF Frame \in Finals THEN Frame ELSE lastResult
  /\ UNCHANGED <<proxyUp, ctxCancelled, stillCancellable, mu, loop, reply,
                 watcher, returned, signalled, stdin, workerVars>>

\* Fault: a decision made outside the critical section.
LoopDecideUnlocked ==
  /\ LoopReady /\ Frame = "commitActive"
  /\ stdout' = Tail(stdout)
  /\ reply' = IF ctxCancelled THEN "ackFalse" ELSE "ackTrue"
  /\ loop' = "deciding"
  /\ UNCHANGED <<proxyUp, ctxCancelled, stillCancellable, mu, watcher,
                 lastResult, returned, signalled, stdin, workerVars>>

\* commit_active, first half of the critical section: read ctx.Err().
LoopDecide ==
  /\ LoopReady /\ Frame = "commitActive"
  /\ mu = "free"
  /\ mu' = "loop"
  /\ stdout' = Tail(stdout)
  /\ reply' = IF ctxCancelled THEN "ackFalse" ELSE "ackTrue"
  /\ loop' = "deciding"
  /\ UNCHANGED <<proxyUp, ctxCancelled, stillCancellable, watcher,
                 lastResult, returned, signalled, stdin, workerVars>>

\* Fault: a latch set on the frame itself, whatever was decided.
LoopLatchAlways ==
  /\ proxyUp /\ loop = "deciding"
  /\ stillCancellable' = FALSE
  /\ mu' = "free"
  /\ loop' = "replying"
  /\ UNCHANGED <<proxyUp, ctxCancelled, reply, watcher, lastResult,
                 returned, signalled, pipeVars, workerVars>>

\* Second half: latch if we proceed, and unlock.
LoopLatch ==
  /\ proxyUp /\ loop = "deciding"
  /\ stillCancellable' = (stillCancellable /\ reply # "ackTrue")
  /\ mu' = "free"
  /\ loop' = "replying"
  /\ UNCHANGED <<proxyUp, ctxCancelled, reply, watcher, lastResult,
                 returned, signalled, pipeVars, workerVars>>

\* Fault: a loop that drops a question once ctx is done.
LoopElicitDropping ==
  /\ LoopReady /\ Frame = "elicitation"
  /\ stdout' = Tail(stdout)
  /\ loop' = IF ctxCancelled THEN "reading" ELSE "asking"
  /\ UNCHANGED <<proxyUp, ctxCancelled, stillCancellable, mu, reply, watcher,
                 lastResult, returned, signalled, stdin, workerVars>>

\* elicitation: decline at once if ctx is done, else ask through onFrame.
LoopElicit ==
  /\ LoopReady /\ Frame = "elicitation"
  /\ stdout' = Tail(stdout)
  /\ IF ctxCancelled
     THEN loop' = "replying" /\ reply' = "declineCancelled"
     ELSE loop' = "asking" /\ UNCHANGED reply
  /\ UNCHANGED <<proxyUp, ctxCancelled, stillCancellable, mu, watcher,
                 lastResult, returned, signalled, stdin, workerVars>>

\* handleElicitation: session.Elicit(ctx, ...) returns the human's answer ...
HumanAnswers ==
  /\ proxyUp /\ loop = "asking"
  /\ reply' \in {"accept", "decline"}
  /\ loop' = "replying"
  /\ UNCHANGED <<proxyUp, ctxCancelled, stillCancellable, mu, watcher,
                 lastResult, returned, signalled, pipeVars, workerVars>>

\* ... or fails because ctx is done, which is answered with a decline.
ElicitCancelled ==
  /\ proxyUp /\ loop = "asking"
  /\ ctxCancelled
  /\ reply' = "declineCancelled"
  /\ loop' = "replying"
  /\ UNCHANGED <<proxyUp, ctxCancelled, stillCancellable, mu, watcher,
                 lastResult, returned, signalled, pipeVars, workerVars>>

\* writeFrame(stdin, ...); an error (the worker is gone) is ignored.
LoopReply ==
  /\ proxyUp /\ loop = "replying"
  /\ stdin' = IF Running THEN Append(stdin, reply) ELSE stdin
  /\ loop' = "reading"
  /\ UNCHANGED <<proxyUp, ctxCancelled, stillCancellable, mu, reply, watcher,
                 lastResult, returned, signalled, stdout, workerVars>>

\* readFrame sees end of file; the deferred close(workerDone) runs.
LoopEof ==
  /\ proxyUp /\ loop = "reading"
  /\ stdout = <<>> /\ ~Running
  /\ loop' = "closed"
  /\ UNCHANGED <<proxyUp, ctxCancelled, stillCancellable, mu, reply, watcher,
                 lastResult, returned, signalled, pipeVars, workerVars>>

\* cmd.Wait() and the four returns of Invoke: a final frame wins over the
\* exit status, without one the call fails.
InvokeReturns ==
  /\ proxyUp /\ loop = "closed"
  /\ returned = "no" /\ ~Running
  /\ returned' = IF lastResult = "none" THEN "failed" ELSE lastResult
  /\ UNCHANGED <<proxyUp, ctxCancelled, stillCancellable, mu, loop, reply,
                 watcher, lastResult, signalled, pipeVars, workerVars>>

LoopStep ==
  \/ LoopReceive \/ LoopDecide \/ LoopLatch \/ LoopElicit \/ ElicitCancelled
  \/ LoopReply \/ LoopEof \/ InvokeReturns

-----------------------------------------------------------------------------
(* The cancellation watcher.                                               *)

WorkerDone == loop = "closed"   \* the workerDone channel is closed

\* SIGTERM reaches the worker: fatal before its handler is installed,
\* a flag afterwards (SA_RESTART: a blocking read goes on).
DeliverSigterm ==
  /\ fate' = IF Running /\ wpc = "boot" THEN "sigterm" ELSE fate
  /\ gCancelled' = (gCancelled \/ (Running /\ wpc # "boot"))

\* select: ctx.Done() fires, lock, read the latch, unlock.
WatcherWake ==
  /\ proxyUp /\ watcher = "waiting"
  /\ ctxCancelled
  /\ mu = "free"
  /\ watcher' = IF stillCancellable THEN "terminating" ELSE "gone"
  /\ UNCHANGED <<proxyUp, ctxCancelled, stillCancellable, mu, loop, reply,
                 lastResult, returned, signalled, pipeVars, workerVars>>

WatcherTerminate ==
  /\ proxyUp /\ watcher = "terminating"
  /\ signalled' = signalled \union {"term"}
  /\ DeliverSigterm
  /\ watcher' = "grace"
  /\ UNCHANGED <<proxyUp, ctxCancelled, stillCancellable, mu, loop, reply,
                 lastResult, returned, pipeVars, wpc, pastPonr, asNeeded,
                 fetched, installed, rejected, asking, cause>>

\* select: <-workerDone, in the first or in the grace-period select.
WatcherSeesDone ==
  /\ proxyUp /\ watcher \in {"waiting", "grace"}
  /\ WorkerDone
  /\ watcher' = "gone"
  /\ UNCHANGED <<proxyUp, ctxCancelled, stillCancellable, mu, loop, reply,
                 lastResult, returned, signalled, pipeVars, workerVars>>

\* select: time.After(gracePeriod).  Time is abstracted: it may fire at once.
GraceExpires ==
  /\ proxyUp /\ watcher = "grace"
  /\ watcher' = "expired"
  /\ UNCHANGED <<proxyUp, ctxCancelled, stillCancellable, mu, loop, reply,
                 lastResult, returned, signalled, pipeVars, workerVars>>

\* Fault: a watcher that gives up after the grace period.
WatcherGivesUp ==
  /\ proxyUp /\ watcher = "expired"
  /\ watcher' = "gone"
  /\ UNCHANGED <<proxyUp, ctxCancelled, stillCancellable, mu, loop, reply,
                 lastResult, returned, signalled, pipeVars, workerVars>>

WatcherRecheck ==
  /\ proxyUp /\ watcher = "expired"
  /\ mu = "free"
  /\ watcher' = IF stillCancellable THEN "killing" ELSE "gone"
  /\ UNCHANGED <<proxyUp, ctxCancelled, stillCancellable, mu, loop, reply,
                 lastResult, returned, signalled, pipeVars, workerVars>>

WatcherKill ==
  /\ proxyUp /\ watcher = "killing"
  /\ signalled' = signalled \union {"kill"}
  /\ fate' = IF Running THEN "sigkill" ELSE fate
  /\ watcher' = "gone"
  /\ UNCHANGED <<proxyUp, ctxCancelled, stillCancellable, mu, loop, reply,
                 lastResult, returned, pipeVars, wpc, gCancelled, pastPonr,
                 asNeeded, fetched, installed, rejected, asking, cause>>

WatcherStep ==
  \/ WatcherWake \/ WatcherTerminate \/ WatcherSeesDone \/ GraceExpires
  \/ WatcherRecheck \/ WatcherKill

-----------------------------------------------------------------------------
(* The rest of the world.                                                  *)

ClientCancels ==
  /\ proxyUp /\ returned = "no"
  /\ ~ctxCancelled
  /\ ctxCancelled' = TRUE
  /\ UNCHANGED <<proxyUp, stillCancellable, mu, loop, reply, watcher,
                 lastResult, returned, signalled, pipeVars, workerVars>>

\* Someone other than the proxy (a service manager, an operator) sends the
\* worker a SIGTERM.
StrangerTerminates ==
  /\ Running /\ ~gCancelled
  /\ DeliverSigterm
  /\ UNCHANGED <<proxyVars, pipeVars, wpc, pastPonr, asNeeded, fetched,
                 installed, rejected, asking, cause>>

WorkerCrashes ==
  /\ Running
  /\ fate' = "crashed"
  /\ UNCHANGED <<proxyVars, pipeVars, wpc, gCancelled, pastPonr, asNeeded,
                 fetched, installed, rejected, asking, cause>>

\* The proxy process ends: what it had not read from stdout is lost, what it
\* had written to stdin can still be read.
ProxyDies ==
  /\ proxyUp /\ returned = "no"
  /\ proxyUp' = FALSE
  /\ stdout' = <<>>
  /\ UNCHANGED <<ctxCancelled, stillCancellable, mu, loop, reply, watcher,
                 lastResult, returned, signalled, stdin, workerVars>>

\* A write to the broken pipe under SIGPIPE's default disposition.
WorkerSigpipe ==
  /\ ~proxyUp /\ Running
  /\ wpc \in {"download", "transact", "report"}
  /\ fate' = "sigpipe"
  /\ UNCHANGED <<proxyVars, pipeVars, wpc, gCancelled, pastPonr, asNeeded,
                 fetched, installed, rejected, asking, cause>>

\* The call is over; nothing is left to happen.
Over ==
  /\ ~Running
  /\ ~proxyUp \/ (returned # "no" /\ watcher = "gone")
  /\ UNCHANGED vars

Next ==
  \/ WorkerStep
  \/ LoopStep
  \/ HumanAnswers
  \/ WatcherStep
  \/ ClientCancels \/ StrangerTerminates \/ WorkerCrashes
  \/ ProxyDies \/ WorkerSigpipe
  \/ Over

Spec == Init /\ [][Next]_vars

\* The Go scheduler runs both goroutines, timers fire.  Nothing is assumed of
\* the worker (a download may hang) or of the human.
ProxyFairness == WF_vars(LoopStep) /\ WF_vars(WatcherStep)
ProxyFairSpec == Spec /\ ProxyFairness

\* The worker makes progress too; the human still owes nobody an answer.
WorkerFairness == WF_vars(WorkerStep)

-----------------------------------------------------------------------------
(* Safety.                                                                 *)

\* The proxy signals no worker that has entered the rpm transaction: neither
\* the SIGTERM nor the SIGKILL of invokeIO's watcher reaches a worker whose
\* commit_active was acknowledged, whatever the order of the client's cancel,
\* the frame, the grace timer and the acknowledgement.
TransactionNeverSignalled == pastPonr => signalled = {}

\* The comment above the re-check (worker.go:210-224): once the watcher has
\* seen the latch open, it finds it open again when the grace period is over,
\* so the SIGKILL backstop is never lost to a call that was let through.
RecheckNeverDiffers == watcher \in {"expired", "killing"} => stillCancellable

\* Acknowledgements and answers share one pipe with no request ids: a reply
\* that waits in it always answers the question the worker is blocked on,
\* there is at most one, and an idle worker's pipe is empty.
RepliesMatchQuestions ==
  Running =>
    /\ Len(stdin) <= 1
    /\ stdin # <<>> => \/ wpc = "awaitAck" /\ NextReply \in Acks
                       \/ wpc = "awaitAnswer" /\ NextReply \in Answers

\* A cancellation poll or a skipped question stops a commit only while
\* nothing has been changed, also when the SIGTERM comes from elsewhere
\* (callbacks.cc:37-50).
PollNeverAbortsTransaction == cause = "cancel" => installed = {}

\* The client is told "installed" only if every package was changed and no
\* signing key was rejected on the way.
ResultIsHonest ==
  returned = "result" => installed = Packages /\ rejected = {}

\* What worker.go:93-95 and callbacks.cc:75-78 say of a call past the point of
\* no return: cancellation is silently ignored and the worker runs to
\* completion; trust decisions are never short-circuited.  So no transaction
\* ends early because the proxy answered a trust question itself.
CancelIgnoredOncePast == pastPonr => cause # "keyCancel"

-----------------------------------------------------------------------------
(* The contract.                                                           *)

\* The call is committed from the moment the loop has decided to proceed; the
\* watcher cannot look at the latch before it is set (mu).
CallPhase ==
  IF ~stillCancellable \/ (loop = "deciding" /\ reply = "ackTrue")
  THEN "committed"
  ELSE IF ctxCancelled THEN "cancelled" ELSE "open"

Contract == INSTANCE CancelContract WITH phase <- CallPhase

\* The call implements CancelContract: cancelled and committed exclude each
\* other for good, packages change only in a committed call and signals are
\* sent only in a cancelled one.
ImplementsContract == Contract!Spec

-----------------------------------------------------------------------------
(* The inductive invariant behind the safety properties.                   *)

InPipe(frame, pipe) == \E i \in 1 .. Len(pipe) : pipe[i] = frame

\* mu is held exactly while the loop decides, and an acknowledgement that was
\* acted on, is under way or is about to be written has been latched first.
LatchInv ==
  /\ mu = "loop" <=> loop = "deciding"
  /\ \/ pastPonr
     \/ InPipe("ackTrue", stdin)
     \/ loop = "replying" /\ reply = "ackTrue"
     => ~stillCancellable

\* A watcher past its first look at the latch, or one that has already sent a
\* signal, belongs to a call that can no longer be committed.
WatcherInv ==
  /\ \/ signalled # {}
     \/ watcher \in {"terminating", "grace", "expired", "killing"}
     => CallPhase = "cancelled"
  /\ watcher \in {"grace", "expired", "killing"} => "term" \in signalled

\* Only a worker past the point of no return runs rpm steps, and a "result"
\* anywhere on its way to the client was written by a worker that had
\* finished the whole transaction with no key rejected.
ReportInv ==
  /\ wpc = "transact" => pastPonr
  /\ wpc = "report" /\ cause = "none" => installed = Packages
  /\ \/ InPipe("result", stdout)
     \/ lastResult = "result"
     \/ returned = "result"
     => wpc = "exiting" /\ installed = Packages /\ rejected = {}

\* The strengthening the theorems of WorkerCallProofs rest on.
CallInv == LatchInv /\ WatcherInv /\ ReportInv

\* A poll stopped the commit, if at all, before the first rpm step, and a commit
\* that was stopped does not go on.
PollInv ==
  /\ installed # {} => pastPonr
  /\ cause = "cancel" => wpc \in {"report", "exiting"} /\ installed = {}

Questions    == {"elicitation", "commitActive"}
NoneAsked(q) == \A i \in 1 .. Len(q) : q[i] \notin Questions
LastAsked(q, f) ==
  /\ Len(q) > 0 /\ q[Len(q)] = f
  /\ \A i \in 1 .. Len(q) - 1 : q[i] \notin Questions

\* Where the one open question is: in the pipe to the proxy as the frame f
\* behind everything else, with the loop in a state of Busy or about to be
\* answered, or answered by one of the replies R.
OpenQuestion(f, Busy, R) ==
  \/ LastAsked(stdout, f) /\ loop = "reading" /\ stdin = <<>>
  \/ /\ NoneAsked(stdout) /\ stdin = <<>>
     /\ loop \in Busy \/ (loop = "replying" /\ reply \in R)
     /\ loop = "deciding" => reply \in R
  \/ NoneAsked(stdout) /\ loop = "reading" /\ Len(stdin) = 1 /\ stdin[1] \in R

\* At most one question is open over worker, pipes and loop, and it is the one
\* the worker waits for; of a dead proxy nothing is left but the answer it gave.
QuestionInv ==
  Running =>
    /\ RepliesMatchQuestions
    /\ proxyUp =>
         /\ wpc = "awaitAck" => OpenQuestion("commitActive", {"deciding"}, Acks)
         /\ wpc = "awaitAnswer" => OpenQuestion("elicitation", {"asking"}, Answers)
         /\ wpc \notin {"awaitAck", "awaitAnswer"} =>
              NoneAsked(stdout) /\ loop = "reading" /\ stdin = <<>>

-----------------------------------------------------------------------------
(* Liveness.                                                               *)

CallEnded == returned # "no" \/ ~proxyUp

\* A call cancelled before the latch returns, even if the worker hangs in a
\* download or on a lock and ignores SIGTERM, and even if the human never
\* answers an open question: SIGKILL is the liveness backstop
\* (worker.go:87-91).
CancelledCallReturns ==
  (ctxCancelled /\ stillCancellable) ~> (CallEnded \/ ~stillCancellable)

\* With a worker that makes progress, every cancelled call returns, a
\* committed one included: an open trust question does not block it.
CancelNeverHangs == WorkerFairness => (ctxCancelled ~> CallEnded)

\* With a worker that makes progress, the only thing a call ever waits for
\* without bound is a human who is being asked: no handshake leaves worker and
\* proxy waiting for each other.
OnlyTheHumanBlocks == WorkerFairness => []<>(CallEnded \/ loop = "asking")
=============================================================================

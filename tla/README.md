# A verification model of mcp-server-zypp

mcp-server-zypp lets an MCP client (an LLM agent with a human behind it) query
and change the packages of an openSUSE system. A Go **proxy** speaks MCP; for
every tool call it starts a fresh C++ **worker** (`zypp-mcp-tool`), which uses
libzypp, and relays frames between the worker's pipes and the client. This
directory holds TLA+ modules of the parts in which an error is hard to test
for: cancellation against the start of an irreversible rpm transaction, the
trust questions, the license gate across the separate processes of plan and
confirm, what the client is told about a transaction afterwards, and what a
request becomes on its way through argument parsing and the Requester.

```
client -- MCP --> proxy (Go) -- frames --> worker (C++) --> libzypp, rpm
                    |                        |
 Registration       |   Framing              |  QueryTools: PackageQueries, UpdateQuery
                    |     FrameChannel       |  PackageArgs
                    WorkerCall               |  RequesterSessions: Requester, PatchRequester
                      CancelContract         |  ConfirmGate (several workers, one machine)
                    TrustDialog              |  CommitReport
```

Check a run with `tlc -config <cfg> <module>` and the proofs with
`tlapm <name>Proofs.tla`. `PROJECT.json` maps every definition to the source
lines it models and lists runs, mutants, hazards, findings and theorems.

## Inventory of the system

| Component | State it keeps | Operations | Interacts with | What is hard | What makes it correct |
|---|---|---|---|---|---|
| Worker invocation (`proxy/internal/worker/worker.go`) | latch `stillCancellable` under `mu`, last result, channel `workerDone` | `Invoke`, `invokeIO` frame loop, cancellation watcher, `readFrame` / `writeFrame` | worker pipes, SIGTERM / SIGKILL, MCP context, `onFrame` | two goroutines, a timer and the client race for the latch | no signal after the acknowledgement; a cancelled call returns; success is true |
| Elicitation and progress relay (`proxy/internal/tools/tools.go`) | none | `handleElicitation`, `progressMessage`, `handleProgress` | client session, frame loop | a human may never answer; ctx may end at any time | each question gets one answer; decline is the default |
| Tool discovery (`tools.go: Register`, `discoverWorkers`) | registered names | run `--list-tools`, filter root tools, register | every `zypp-mcp-*` binary | two binaries with one name, none at all, a binary replaced later | no root tool without root, no duplicate, none forgotten |
| Proxy process (`cmd/mcp-server-zypp`) | signal context | flags, stdio / HTTP transport | all of the above | it may die while workers run | workers survive or stop safely |
| Worker process (`worker/src/main.cc`) | registry, arguments | install handler, parse, dispatch, exit code | context, tools | SIGTERM before the handler; the ZYpp lock | exactly one final frame per call |
| Transport (`transport.cc`) | none | `writeFrame`, `readFrame` | stdin, stdout | blocking, end of file in a frame, broken pipe | whole frames in order, the end is seen |
| Cancellation flag (`cancellation.cc`) | `g_cancelled` | handler, `isCancelled` | download callbacks | SA_RESTART: blocked reads go on | honoured only before the point of no return |
| Trust callbacks (`callbacks.cc` 329-607) | point-of-no-return flag, reply pipe | `askUserTo*`, package key `report` | key gate, transport | free text answers, two vocabularies; shares stdin with the acknowledgement | fail closed; every refusal is recorded |
| Commit report receivers (`callbacks.cc` 609-1398) | `_pending`, `_package` per receiver | start / progress / report / finish / reportend, two families | failure log, transport | state across callbacks; reports without finish | output is attributed to its step |
| Failure log (`commitfailurelog.*`) | bounded entries, truncated flag | `record`, `hasErrors` | receivers, confirm tools | drop-oldest may lose the error | the error that stopped the commit survives |
| Key gate (`gpgkeygate.*`) | rejected keys | `recordRejection`, `hasRejections` | trust callbacks, confirm_install | never retracted | a rejection is never a plain success |
| confirm_install / confirm_remove | result of `commit()` | set-up, solve, license gate, commit, final frame | all worker parts | `commit()` may throw after changes | the final frame tells the truth |
| plan_* and license gate (`transaction.cc`) | none between calls | `setupInstall`, `setupRemove`, `collectLicensesToConfirm`, `checkLicensesAccepted` | solver pool | plan and confirm are two processes | no unconfirmed license is installed |
| Solver requests (`solver/*`) | selections, feedback, views of a session | install / remove / update / patch decisions, `applySelections` | libzypp pool and resolver | many branches on locks, repositories, vendors, versions; state left from the job before | nothing unasked; nothing refused in silence |
| Argument parsing (`packageargs.*`) | do / dont sets | `preprocess`, `argsToCaps` | used by the tests of the repository; no tool calls it yet | joining at operators, order of conflicting mentions | a spec is never both do and dont |
| System loading (`context.cc`, `system.cc`) | lazy ZYpp pointer (the lock) | `loadLiveSystem`, `loadSystemFromArg` | libzypp lock | two workers at once, unprivileged ones without the lock | one process of root at a time; LOCKED otherwise |
| Query tools (`search_packages`, `find_*`, `updates`) | none | validate, query, filter, format | pool | picklist positions, filters that overlap | no match lost, no row invented |

`PROJECT.json` repeats the list with each part's status (`components`) and lists
the dangerous places line by line (`hazards`).

## Modules

### CancelContract (abstract)

What one call promises about cancellation. `phase` goes from `open` to
`committed` or to `cancelled`, once. Packages change only in a committed call,
signals are sent only in a cancelled one (SIGKILL only after SIGTERM), and a
returned `result` means that every package was changed.

### WorkerCall (refines CancelContract)

One `confirm_install` call: proxy loop, watcher, worker, the two pipes, the
client and the human.

| Variables | Code |
|---|---|
| `ctxCancelled`, `stillCancellable`, `mu`, `lastResult` | the locals of `invokeIO` and `ctx.Err()` |
| `loop`, `reply` | where the frame loop is, the reply it is about to write |
| `watcher`, `signalled` | the `ctx.Done()` goroutine; history of its signals |
| `stdin`, `stdout` | the pipes; `stdout` holds `PipeCapacity` frames, then a write blocks |
| `wpc`, `cause` | where the worker is, and why the commit stopped early |
| `gCancelled`, `pastPonr` | `g_cancelled`, `pastPointOfNoReturn()` |
| `fetched`, `installed`, `rejected`, `asking` | packages downloaded, changed by rpm, refused by a trust decision, in question |
| `asNeeded` | libzypp's DownloadAsNeeded mode, in which downloads and trust questions come after `commit_active` |
| `fate`, `proxyUp` | how the worker process stands; whether the proxy lives |

Each action is one atomic step of one party. The critical section of
`commit_active` is two actions (`LoopDecide` reads `ctx.Err()`, `LoopLatch`
sets the latch) because the client can cancel between them; `mu` keeps the
watcher out. A poll (`Download`), a question (`Elicit`, `HumanAnswers` or
`ElicitCancelled`, `LoopReply`, `ReadAnswer`) and the handshake (`Activate`,
`LoopDecide`, `LoopLatch`, `LoopReply`, `ReadAck`) are sequences of such steps.
Faults of the environment: a SIGTERM from elsewhere, a worker crash at any
point, the death of the proxy at any point, SIGPIPE on the next write.

The two forms of `{"answer":"decline"}` (from the human, or made up by the
proxy because ctx is done) are the same bytes; the model names them apart so
that a property can speak of the difference. Nothing in the worker branches on
it except the history `cause`.

### FrameChannel (abstract) and Framing (refines it)

WorkerCall's pipes carry whole frames. `FrameChannel` states that promise:
payloads arrive whole and in order, and the reader learns of the end only after
the last one. `Framing` is the code below it, symbol by symbol.

| Variables / actions | Code |
|---|---|
| `pipe`, `unwritten`, `Write` | the kernel's pipe of `PipeSize` symbols, `writeFrame` in `transport.cc` and `worker.go` |
| `Leave` | the writer exits or is killed, between any two symbols |
| `header`, `length`, `body`, `ReadHeader`, `ReadBody` | the locals and loops of the two `readFrame`s |
| `HeaderCut` | end of file in a header: the proxy gives up, the worker goes on with what it has (its `getline` loop ends) |
| `BodyCut` | end of file in a payload |

A header is the key, the digits of the length and the blank line. Payloads may
contain what looks like a header or like a blank line.

### TrustDialog

The trust questions of one call with their contents: the eight callbacks of the
key ring, digest and package key receivers, `handleElicitation` in the proxy,
the person who types free text, and `GpgKeyGate`'s record of refusals. WorkerCall
shows how a question interleaves with acknowledgement and signals; here is what
an answer means.

| Variables / actions | Code |
|---|---|
| `question`, `Ask`, `Return` | the callback that blocks in `readFrame`, `parseAnswer` / `parseBoolAnswer` |
| `Skip` | `skipElicitation()`: cancelled and not past the point of no return |
| `said`, `Answer`, `Forward` | `session.Elicit` and what `handleElicitation` makes of its outcome |
| `rejected`, `Recorded` | `GpgKeyGate::_rejected`, each key once |
| `trusted`, `imported`, `log` | history: verdicts handed to libzypp |
| `ctxDone`, `cancelled`, `past`, `proxyUp` | cancellation, SIGTERM, point of no return, death of the proxy |

### ConfirmGate

`plan_install`, `confirm_install`, `plan_remove` and `confirm_remove` as worker
processes that run at the same time on one machine. Every call is a process of
its own, so the only thing a confirm knows of a plan is the list of
`license_id`s its client copied into `accepted_licenses`.

| Variables | Code |
|---|---|
| `installed`, `published` | rpm database; cached repository metadata (`LS_NOREFRESH`) |
| `lock` | the ZYpp lock, taken by `getZYpp()` in a process of root, held until the process ends |
| `pc`, `call` | where a process is; its tool, arguments, privilege and `accepted_licenses` |
| `pool` | what `ToolContext::load` read |
| `job`, `plan` | what the Requester selected and `applySelections` handed on; what `resolvePool()` made of it |
| `shown`, `agreed` | history: license texts a client has seen, and has accepted |

| Actions | Code |
|---|---|
| `Start`, `RejectJson` | `main` up to the dispatch |
| `Deny` | `geteuid()` in the confirm tools |
| `FindLocked`, `Load` | `load()`: for root `LOCKED`, or the lock and the pool; for others the pool |
| `NothingSelected`, `Select` | `setupInstall`, `setupRemove`, `Requester::install` and `remove` |
| `Unsolvable`, `Resolve` | `resolvePool()` |
| `ShowPlan` | `planInstallToJson`, `planRemoveToJson` |
| `RefuseLicenses`, `PassLicenses` | `checkLicensesAccepted` |
| `Commit` | `commit()`, whole or in part |
| `Die`, `Refresh` | the environment |

The solver is external and any of its answers is allowed that fulfils the job,
leaves no requirement open and contains nothing needless. A license is its text;
`LicenseId` stands for the hash. A build is a name, a version and a repository;
the rpm database forgets the repository, so the code looks at the name and
version of an installed package only (`SameNVRA`), and the model's property uses
the repository only to know which text the package really came under. Plans,
refreshes, confirms of other versions and removals follow each other in any
order.

The lock is libzypp's: `getZYpp()`, which `ToolContext::load` calls, takes it only
in a process of root (`NeedsLock`). A plan tool needs no root, so an unprivileged
plan is never `LOCKED`, runs beside a confirm or a refresh of root, and may show a
plan for a system that has changed meanwhile; its client may then accept licenses
from it, and the confirm has to cope. Hence `PoolIsTheSystem` is about root's calls,
the only ones that get to commit. Such a plan reads the system in one step here,
before or after a commit or refresh of somebody else, or where a failed commit
stopped, never in the middle of one that goes on.

One thing is read into the model from how libzypp is used: repositories have one
priority.

### Requester, PatchRequester, RequesterSessions

`Requester` is a session of `solverequest::Requester` about packages: the
strategy setters, jobs one after the other, the decisions for every match, and
`applySelections`. It is also what `setupInstall` and `setupRemove` do between
the lock and the solver (`ConfirmGate.Select` is the same step as one action).

| Variables | Code |
|---|---|
| `pool` | the packages as `PoolQuery`, `ui::Selectable` and `Capability` lookups see them, with the locked ones |
| `opts`, `byCap`, `byName` | `Options`, `_forceByCap`, `_forceByName` |
| `job`, `current`, `submitted` | the submitted `Job`, the member `_current`, and how many came |
| `dos`, `donts`, `spec`, `names`, `absent` | the loops of `install()` and `remove()`, the count `notInstalled` |
| `session` | `_selections`, `_feedback` and the four views kept beside them (`_toinst`, `_toremove`, `_requires`, `_conflicts`) |
| `resolver` | what `applySelections()` did to the pool and the resolver |
| `finished` | history: specs the session is done with |

| Actions and operators | Code |
|---|---|
| `SetForceByCap`, `SetForceByName` | the setters of `options.h` that undo each other |
| `Submit`, `FinishJob` | `submit()` and the hand-over from install to remove |
| `StartMatching` ... `EndMatching`, `Candidate` | `install()` by name: one best match per name, the choice of candidate for an installed package |
| `UpdateTo` (`Request`, `Verdict`, `PassedOver`) | `updateTo()` |
| `NotFoundByName`, `InstallByCap` | the two ends of a name nobody has |
| `RemoveByName`, `RemoveNotByName`, `RemoveByCap` | `remove()` |
| `SetToInstall`, `SetToRemove`, `AddRequirement`, `AddConflict` | the four ways to select, with their locks |
| `GiveUp`, `ApplySelections` | what the tools make of a session |

What libzypp chooses (best match, update candidate, highest build) is a set of
allowed answers; where it says "any", every one of them is tried.

`PatchRequester` is the same session about patches: `updatePatches()` with its
two passes, `installPatch()` and `PatchFilter`. `RequesterSessions` joins the
two; they share the options, the place in the session and `_current`.

### PackageArgs

The constructor of `PackageArgs`, one step per string: `preprocess` puts strings
together at comparison operators, `argsToCaps` sorts them into `dos` and `donts`
in the order of the `std::set`. A string is a sequence of tokens. Nothing but the
repository's tests calls this class at present.

### PackageQueries, UpdateQuery, QueryTools

The four read-only tools. Each call is refused for its arguments, finds the
system locked (`locked`, which only a process of root can) or answers; the answer is an operator of request and pool
(`SearchRows`, `ProviderRows`, `DependentRows`, `Listed`), translated filter by
filter. What a pattern or a capability matches is libsolv's answer and a
constant. `QueryTools` puts the tools behind one dispatch.

### Registration

`discoverWorkers` and `Register` at start-up: the set of worker binaries found
(`binaries`), each asked in the order of names (`binary`) and looked through
descriptor by descriptor; then calls of what was registered, dispatched by a
worker binary that may have been replaced meanwhile (`Replace`).

### CommitReport

What the tool tells the client about a commit. libzypp's `commit()` is the
environment: it drives the receivers in any order that respects the report
protocol (start before output before finish; an SA report may end without
finish; a classic report always ends with finish), may fail any step, and
returns or throws. The receivers' `_pending` buffers, the bounded log, the key
gate and the final frame of both confirm tools are the program. Log and buffer
are sequences of entries without text; each entry carries a history field
`from`, the step whose output it really is.

### MC modules

The `MC...` modules only give the constants their values and the symmetry sets.
`MCRequesterSessions.BoundedSpec` also bounds which second jobs follow a first.

Operators with a comment that begins with "Fault:" are not part of a
specification: they are plausible slips of the code (a forgotten lock, an
unguarded poll, a log that drops its newest entry), and each property of a
passing run is violated when one of them replaces the action or operator below
it.

## Runs

| Run | Properties | What it shows |
|---|---|---|
| `call_safety` | `TypeOK` `TransactionNeverSignalled` `RecheckNeverDiffers` `RepliesMatchQuestions` `PollNeverAbortsTransaction` `ResultIsHonest` `ImplementsContract` | no signal hits a transaction; the SIGKILL re-check never differs from the first look; replies answer the right question and never pile up; polls never abort a started transaction; success is true; the call implements CancelContract |
| `call_live` | `CancelledCallReturns` `CancelNeverHangs` `OnlyTheHumanBlocks` | a call cancelled before the latch returns even if the worker hangs and the human never answers; with a live worker every cancelled call returns, and only an open question can hold up a call |
| `framing` | `ImplementsChannel` `ReaderCatchesUp` | both readers get whole frames in order whatever the payloads look like, take no cut frame for one, miss none that was finished, and learn of the end |
| `trust` | `ConsentDecides` `RefusalsAreReported` `PastQuestionsAreAsked` | a verdict grants something exactly if a person accepted this question with a word of its vocabulary; `KEY_NOT_TRUSTED` names exactly the refused keys; past the point of no return no question is refused unasked |
| `gate_safety` | `EveryLicenseAgreed` `PoolIsTheSystem` `OnlyConfirmsChangeIt` | no license slips past the gate over any history of plans, confirms, refusals, refreshes, deaths and half-done commits; the pool a call of root works on is the system, whatever root or an unprivileged plan does beside it; only root's confirm calls change it |
| `requests` | `NoUnaskedDowngrade` `VendorKept` `SetOnSystemCannotFail` `RemoveByNameStaysByName` `RefusalLosesNothing` `UpdateNeverPicks` `UpdateStackGoesAlone` `EveryNeededPatchAnswered` | no downgrade and no change of vendor nobody asked for; nothing leaks from one job into the next; a selection the pool would refuse never reaches it; the update stack goes alone; no needed patch disappears |
| `arguments` | `CutsDoNotMatter` `SidesAreSettled` `RepoWasNamed` | however a request is cut at its operators it is put together again; nothing is both wanted and unwanted; a colon names a repository only where the caller named one |
| `queries` | `RowsAreReal` `EveryMatchIsShown` `PatchFiltersMeanWhatTheySay` | the picklist filter loses no match; no row names a repository that does not have it; patch filters mean what their descriptions say, but for two combinations |
| `registration` | `EveryToolIsServed` `RootGateIsExact` | a proxy that starts serves every tool its user may call, one binary per name; a call arrives; no root tool runs for others though a binary be replaced |
| `report_safety` | `TypeOK` `PrepareFailedTouchedNothing` `FailureNamesItsCulprit` `DetailsBelongToTheirStep` `ScriptletFailuresAreReported` `LossIsAnnounced` | `COMMIT_PREPARE_FAILED` means nothing changed; the step that stopped the commit is named in spite of the bounded log; output is attributed to its own step; scriptlet failures reach the client; `truncated` is exact |
| `call_trust_declined` (violation) | `CancelIgnoredOncePast` | finding 1 |
| `gate_replacement` (violation) | `EveryLicenseAgreed` | finding 2 |

### Bounds, and why they are enough

| Run | Bounds | Distinct states |
|---|---|---|
| `call_safety` | 3 packages (symmetric), `PipeCapacity` 2 | 88,221 |
| `call_live` | 2 packages, `PipeCapacity` 1, no symmetry | 61,246 |
| `framing` | `Base` 2, `PipeSize` 3, `MaxFrames` 3, 4 payloads | 11,418 |
| `trust` | 2 keys (symmetric), 6 texts, `MaxQuestions` 2 | 1,893,274 |
| `gate_safety` | 2 processes (symmetric), 6 builds of 3 packages, 3 metadata states, 2 texts, `Asked` | 1,320,377 |
| `requests` | packages: 3 names, 8 items, `MaxJobs` 2 with `SecondJobs`; patches: 3 names, `MaxPatchJobs` 2 | 756,714 |
| `arguments` | up to 3 strings, plus all cuts of up to 3 requests | 43,612 |
| `queries` | 2 editions, 2 repositories and @System, 2 patterns; patches: 2 categories, days 0 and 1, one CVE, one bug | 156,320 |
| `registration` | up to 3 entries, `MaxOffers` 2, `MaxReplacements` 1 | 140,421 |
| `report_safety` | 1 install and 1 erase step, `MaxEntries` 3, `MaxPending` 2, `MaxEvents` 3 | 1,291,868 |

*WorkerCall.* Three packages allow one done, one in question and one to come,
which is all a step distinguishes; a pipe of one frame makes the worker block on
every write and a pipe of two lets a frame wait behind another.

*Framing.* Lengths are written in binary, so that already a length of 2 has two
digits and a number cut in the middle is another number; the pipe is shorter
than any frame, so writer and reader always interleave inside one. One payload
is a header, one starts with a blank line, one has the end of a header in its
middle. Three frames let a shifted reader go wrong twice.

*TrustDialog.* Two questions are one before and one after the point of no
return, of the same or of different keys and kinds; the record of a refusal and
the flag are all that one question leaves to the next. Every word of either
vocabulary is there, and one of neither.

*ConfirmGate.* Two processes compete for everything; a third would only wait as
well. One package needs a capability two others provide, has a license that
stays the same for one upgrade and changes with the next, and shares the new
text with another package; the three metadata states make a version appear in
one or two repositories and disappear. `Asked` bounds what clients ask for: all
four tools, by name and by capability, with and without root (`plan_remove`, which
shows no license, with root only), with each kind of bad argument. `accepted_licenses` is any set of ids of texts that were shown.

*Requester.* A decision is taken name by name, and reads one installed package,
its available builds, the locks of that name and the options. `MCPools` has for
one name the same build, an older and a newer one, one of another vendor, one of
another architecture and one in a repository of better priority, in ten
combinations with and without locks; for the other the cases of "somebody else
provides it". The options are the default and each one by itself. Nine specs
cover name, wildcard, version, architecture, repository and an unknown name.
Every single job is tried on every pool; two jobs, which can influence each
other through `_current` and the session only, on a smaller pool (`SecondJobs`).
Patches: two versions of a patch of the update stack in every state, a plain
patch, and a patch that is optional or asks the user something.

*PackageArgs.* What becomes of a string depends on its neighbours only, so three
are enough for "first", "between" and "last"; the sets of `argsToCaps` depend on
the parity of the mentions, which three show.

*QueryTools.* A row depends on one identity and its twins: two editions and two
repositories give an installed package a twin in none, one or both, and a
candidate of another edition. `MCPatchSets` has every single patch, and all of
them at once.

*Registration.* Duplicates need two binaries or two descriptors of one binary;
a third entry lets something follow the one that fails or is skipped.

*CommitReport.* The capacities keep the relation of the code, 100 < 200
(`MaxPending < MaxEntries`): two lines fill a buffer, three entries fill the log
and a fourth overflows it. `MaxEvents` bounds output lines, log lines and script,
cleanup and phase reports, which rpm could otherwise repeat for ever.

Deadlock is checked in the WorkerCall, ConfirmGate and CommitReport runs, where
the end of a call is an action of its own. The other systems stop when a
session, a request or a dialog is over, so their runs switch the check off.

### Fairness

`ProxyFairness` is weak fairness of the frame loop and of the watcher: they are
goroutines that the Go scheduler runs when they can, and timers fire. It does
not include `HumanAnswers`, and `CancelledCallReturns` needs nothing else,
because the SIGKILL is there for workers that hang. `CancelNeverHangs` and
`OnlyTheHumanBlocks` ask whether the handshakes themselves can hang, and so have
weak fairness of the worker's steps (`WorkerFairness`) as an antecedent.
`Framing.FairSpec` assumes that a reader that has called `readFrame` reads what is
there; nothing is assumed of the writer. Nobody owes a cancellation, a crash or a
signal from elsewhere.

## Findings

1. **A cancel past the point of no return is not ignored** (`call_trust_declined`).
   `invokeIO` declines every elicitation once `ctx` is done, without looking at
   the latch (`worker.go:309`), and an elicitation already open is declined by
   `handleElicitation`. In DownloadAsNeeded mode trust questions come after
   `commit_active`, so a cancel there refuses a key and can end a half-applied
   transaction. The comments say cancellation is "silently ignored" from then on
   (`worker.go:93-95`) and that trust decisions are "never short-circuited once
   the transaction may have started" (`callbacks.cc:75-78`).
2. **A removal can install a package past the license gate**
   (`gate_replacement`). `confirm_remove` has no license check and `plan_remove`
   shows no additions, but the solver may fill a requirement that the removal
   opens by installing another provider. `README.md:4-6` promises removals with
   license acceptance.

### Further disagreements

Each of these is a property of a module that says what a comment, a schema or a
test says; TLC refutes it when it takes the place of the properties of the
configuration named. Unless noted it is an `INVARIANT`.

| Property, configuration | The text | The code |
|---|---|---|
| `SkippedWereNotDone`, `MCCommitReport.cfg` | `mcp-server-zypp.changes:44-45`: "which packages failed vs. were skipped" | `commitFailureToJson` has the buckets failed and not failed only: steps that were done are listed as skipped (`transaction.cc:541-550`) |
| `RawOutputIsRecorded` (`PROPERTY`), `MCCommitReport.cfg` | `commitfailurelog.h:48-51`, `:125-126`: raw output is recorded on every commit | the receivers drop it with every step that went well (`callbacks.cc:641-649`) |
| `BadInputNeverLocks`, `MCConfirmGate.cfg` | `validate.h:15-16`: "no ZYpp lock acquired for bad input"; `context.cc:21-22` | the plan and confirm tools load the system before they validate (`confirm_install.cc:62-64`, `transaction.cc:117-125`) |
| `EveryLicenseAgreed`, `MCConfirmGate_twins.cfg` as it is | `mcp-server-zypp.changes:33-34`: skipped "only when the license text is provably unchanged" | the installed text is taken from the first available build of that version, whatever its repository (`transaction.cc:435`) |
| `MatchesAreAnswered`, `MCRequesterSessions.cfg` | `requester.cc:193`: "Wildcards are supported" | one installed match that no repository has ends the loop for all names (`requester.cc:241-247`) |
| `UpdateNeverAdds` (`PROPERTY`), same | `solverrequester_test.cc:849`: "only if some version of the package is already installed"; `requester.cc:203-205` | the capability path adds the requirement for an update, too (`requester.cc:326-330`) |
| `ProvidersAreUpdated`, same | `requester.cc:201-202`: "In both cases check for already installed packages, and if found, hand over to updateTo()" | the capability path reports the provider and stops (`requester.cc:319`) |
| `RepoIsRespected`, same | `requester.cc:206`: "issue the request restricted to it" | for a locked package, and with best effort, the requirement has no repository (`requester.cc:747`, `602-609`) |
| `RemovalHonoursRepo`, same | `transaction.cc:85`, schema: "Restrict removal to packages from this repository alias." | `remove()` looks in all repositories (`requester.cc:341`) |
| `UnwantedPatchCanBeForced`, same | `feedback.h:75-76`: "Can be forced via Options::force." | a locked patch is refused before any option is looked at (`requester.cc:498`) |
| `SuspiciousPatchFilterReported`, same | `patchfilter.h:7-9`: "which the caller (Requester) drains into its own feedback vector" | nobody reads `warnings()` (`patchfilter.h:50`) |
| `OneOfTwoSurvives`, `MCPackageArgs.cfg` | `packagespec.h:29-31`: "rule out one of two conflicting entries" | both are dropped, and a third mention decides alone (`packageargs.cc:247-253`) |
| `EmptyStringsDoNotMatter`, `MCPackageArgs_empty.cfg` as it is | `packageargs.cc:34`: "Preprocess asserts not to store empty strings" | an empty string counts as one that ends with an operator and tears a comparison apart (`packageargs.cc:62-68`) |
| `PackageKeysNeverBlock`, `MCTrustDialog.cfg` | `callbacks.h:36-41`: "answers synchronously ... rather than blocking on an elicitation" | `report()` asks and blocks like the others (`callbacks.cc:522-528`) |
| `NotInstalledMeansNot`, `MCQueryTools.cfg` | `search_packages.cc:55`: "Show only packages not yet installed" | with details an available build of an installed package stays in the list (`search_packages.cc:118-119`) |
| `RowsComeFromTheRepo`, same | `search_packages.cc:70`: "Restrict search to this repository alias." | without details a match is shown as its installed object or candidate, wherever that is (`:199-222`) |
| `TwinAppears`, same | `tools.h:120-121`: "The available twin will appear separately." | with `repo=@System` the twin is filtered out, too (`find_providers.cc:80-83`) |
| `DefaultMatchIsSubstrings`, same | `search_packages.cc:28`: the default is "substrings" | wildcards are recognised only when `match` is absent (`:125-137`) |
| `CaseMakesNoDifference`, same | `validate.h:43`: "Comparison is case-insensitive." | the value goes on unchanged and is compared exactly (`tools.h:40-46`) |
| `EveryCveIsAFilter`, same | `updates.cc:40`: "Filter patches that fix the specified CVE identifier" | a CVE and a bug together widen the list (`updates.cc:76-85`) |
| `EveryDateIsALimit`, same | `updates.cc:35`: "issued up to but not including this date" | 1970-01-01 counts as no date (`updates.cc:218`) |

## Proofs

Eight modules prove what the runs show of safety, for every value of the
constants. Assumptions are named in the module that declares the constants, and
TLC evaluates them on every run.

### WorkerCallProofs

For every set of packages and every pipe capacity: `TypeCorrect` (`TypeOK`),
`CallInvCorrect` (the inductive strengthening `CallInv`), `NeverSignalled`,
`RecheckAgrees`, `Honest` (three safety invariants) and `Implements`
(`Spec => ImplementsContract`).

None of the safety properties is inductive by itself. `CallInv` has three parts,
each proved to be kept by every action: *LatchInv* (the mutex is held exactly
while the loop decides; an acknowledgement in the worker, in the pipe or about to
be written was latched first), *WatcherInv* (a watcher past its first look at the
latch, or any signal sent, implies that the call's phase is `cancelled`; it needs
LatchInv because the watcher looks only when the mutex is free), and *ReportInv*
(only a worker past the point of no return runs rpm steps; a `result` in the
pipe, in the loop or returned was written after the whole transaction was done
and no key rejected). For the refinement each action is a step of the contract
under the mapping `CallPhase`, or leaves all of the contract's variables alone;
the interesting cases are `LoopDecide` (Commit), `ClientCancels` (Cancel),
`WatcherTerminate` and `WatcherKill` (Signal, by WatcherInv), `InstallStep`
(Change, by LatchInv and ReportInv) and `InvokeReturns` (Return, by ReportInv).
The only assumption is that the pipe capacity is a positive number, and the type
proof does not even use that.

Two more theorems, `RepliesAreMatched` (`RepliesMatchQuestions`) and
`PollsAreHarmless` (`PollNeverAbortsTransaction`), complete the safety properties
of the call. `RepliesMatchQuestions` speaks of one pipe only; what keeps it is that at most one
question is open over the worker, both pipes and the loop together. `QuestionInv`
says so: while the worker waits, its question (`OpenQuestion`) is the last frame of
`stdout` with an idle loop and an empty `stdin`, or is being decided, or is
answered on `stdin` by one reply of the right kind; while it does not wait, nothing
is asked and `stdin` is empty. Each step moves the question one place on (`AskingOne`,
`DecideStep`, `ResolveStep`, `ReplyStep`, `Answered`) or leaves it where it is
(`AskingNothing`, `ReceiveStep`, `Elsewhere`). Of a dead proxy only the reply it
had already written is left. `PollInv`: a poll that stops a commit came before
the acknowledgement, and a stopped commit runs no step.

### ConfirmGateProofs

For every set of processes, packages, texts, metadata states and requests:
`TypeCorrect`, `PoolStaysTrue` (`PoolIsTheSystem`) and `OnlyConfirms`
(`OnlyConfirmsChangeIt`), without any assumption but that `Nobody` is no process
and that the bounds are of the right type. `GateInvCorrect` and `LicensesAgreed`
(`EveryLicenseAgreed`) hold under `Trusted`: builds of one name and version have
one text (`SameText`), license ids do not collide (`IdsAreDistinct`), and a
removal installs nothing (`~Replacements`). Finding 2 and the run of
`MCConfirmGate_twins.cfg` are what happens without the last and the first.

`HolderInv` says that the lock is held by exactly the process of root that is
between load and end, that its pool is the system, and that a confirm tool which
works is root's. A refresh and a second load of root need a free lock, what an
unprivileged process does touches neither lock nor system, and a commit is made by
the holder and ends its process, so it is inductive with the types. `GateInv` adds
that an accepted id is that of an agreed text, and that a process about to commit
installs agreed texts only. Its crucial step is `PassLicenses`: a package of the
plan either is in the list of licenses, so its id was accepted and, as ids are
distinct, its text was agreed to; or every installed version has the same text as
the repository's build of that version, hence (`SameText`) as the installed
build, which by `EveryLicenseAgreed` was agreed to. `GateIsTight` is that step as
a lemma.

### RequesterProofs

For every pool in which a name is installed once, every set of jobs and options:
`TypeCorrect`, `StrategyExclusive`, `NoDowngrade`, `VendorIsKept`,
`SetOnSystemSucceeds`, `ViewsCorrect`, `LocksAreKept` and `UpdatesStayUpdates`.

They all follow from `Inductive` (`IInv`): every selection and view so far *fits*
(it is typed, of this pool, and its downgrade, vendor and lock are permitted by
the options or by a spec the session was asked), the operation `_current` is that
of the running job, and the loop variables are those of the spec in work. The
notion `Sound(o, S)` says the same of an outcome `o` for the specs `S`; a lemma
each shows that the four ways to select, `UpdateTo` and the combinations `Then`
and `Each` are sound, so that for an action it is enough that it adds a sound
outcome (`DoneKeeps`, `VisitKeeps`). The crucial lemma is `CandidateFits`: each of
the five ways to a candidate for an installed package keeps its vendor unless
something allows it; `RequestSound` has the downgrade. That the pool never changes is part of `IInv`:
`ApplySelections` drops the locks of a package it marks unforced, and it marks none
that has any, because a sound session has no unforced pick of a locked name.

What a session *refuses* is the subject of `AnswersInductive` (`AInv`), from which
`RemovalsStayByName` (`RemoveByNameStaysByName`) and `RefusalsLoseNothing`
(`RefusalLosesNothing`) follow. `Sound` says nothing of a spec that selects
nothing, so `AInv` asks the pool whether a spec of the session finds anything
(`Finds`). With one of the overrides on, a session that selected something has a
spec that finds something and one that refused has finished one that does not
(`Answers`); and unless the session is by capability, a conflict stands for the exact
build of a locked package or for a removal of which no installed package matches.
`Honest` says this of the outcome of one spec, and holds of each of the four ways
to select (the `Mild` ones neither refuse nor add a conflict). `Matching` and
`Progress` tie the loops to it: a package the loop over matches passed by was
absent and not to be installed, and only a refusal ends a tool call refused.

Patch sessions have an invariant of their own, `PatchInductive` (`PInv`), for every
set of patches in which a name and a date make one patch (`PatchAssumption`):
`UpdateStackAlone` (`UpdateStackGoesAlone`) and `NeededPatchesAreAnswered`
(`EveryNeededPatchAnswered`). It follows the two passes of `updatePatches()`:
`FirstPass` says that whatever the first one marked belongs to the update stack,
`SecondPass` that the second one only runs when no patch of the update stack can be
taken, and that each patch it has visited is selected or has its refusal;
`Dropping` that with-update is dropped exactly when the first one marked something. `PatchRequester` and the jobs share the
variables of a session, so a step of the one is shown to leave the other's part
alone.

### TrustDialogProofs

For every set of keys and texts and any number of questions: `TypeCorrect`,
`ConsentIsDecisive`, `ImportsTyped`, `RefusalsReported` and `PastQuestionsAsked`,
from `Inductive` (`IInv`). `AnswerInv` carries the argument: whatever lies on the
worker's stdin while a question is open grants something under *this* question's
vocabulary exactly if the person accepted this question's form with a word of it;
end of file and the proxy's `decline` grant nothing under either. `AskedInv` says
that a reply in the pipe of a living proxy comes from a question that was put.

### CommitReportProofs

For every transaction, any number of events and every pair of capacities in which
the log is longer than a pending buffer (`CapacityAssumption`; 200 and 100 in the
code): `Typed` (`TypeOK`), `PrepareFailedIsClean` (`PrepareFailedTouchedNothing`),
`CulpritIsNamed` (`FailureNamesItsCulprit`), `OutputIsAttributed`
(`DetailsBelongToTheirStep`) and `LossIsTold` (`LossIsAnnounced`), from `Inductive`
(`ReportInv`), and `ScriptletsAreTold` (`ScriptletFailuresAreReported`).

`LogInv` relates the flag to what was lost, `TouchInv` the changes to
`attemptToModify()`, `OwnerInv` says that only the receiver that reports holds
lines and all of them come from its step, `CulpritInv` that the Error of the step
to blame is in the log, and `FrameInv` that the frame is still what the state
gives. `EntrySurvives` is where the capacities matter: an entry stays in the log
while fewer than `MaxEntries` come after it, and a failing step flushes at most
`MaxPending` lines on its Errors, after which nothing is recorded any more.

The frame is made by a loop over the log (`SelectSeq`, a recursive definition), so
its type and the scriptlet failures in it need induction on the length of the log.
The library's induction theorems take a predicate as a parameter, which no
installed prover can instantiate; but its well-founded order on finite sets is a
set, gives a least element to every set of numbers (`LeastNat`), and so induction
for a *set* of numbers (`NatInd`). `WarnInv` says that until the log overflows it
keeps the entry of every step that warned.

### ParsingProofs

The two parsers, which share the lemmas about where the pieces of a joined sequence
lie (`IsOffset`, `Placed`, `PlaceNext`).

*Package arguments.* For every set of aliases, kinds and argument lists of strings: `SidesSettled`
(`SidesAreSettled`), `ReposWereNamed` (`RepoWasNamed`) and `CutsJoined`
(`CutsDoNotMatter`).

`ArgsInv` follows `argsToCaps`: every spec of a side has a compiled string of that
side which stands for it and was already seen (`Witnessed`), and a capability whose
strings seen so far agree has its spec (`Settled`). What `remove_duplicate` erases
is a capability whose strings disagree, so both survive the erasing. `RepoNamed` is
the lemma for the prefix: the shortest known alias before a colon.

`CutsJoined` follows `preprocess`, for lists of requests with at most one operator
each and that one inside (`RequestsAssumption`). The pieces of a cut are placed in
the argument list by offsets (`FlattenIs`, by `NatInd`), and `CutInv` says where in
which request the parser is: between two requests, after the first piece, or after
an operator of its own, and what it stored so far. A list may be a cut of several
lists of requests, so the invariant speaks of each. `FirstPiece`, `SecondPiece`
and `ThirdPiece` are the three ways one string moves the parser on; that a first
piece never starts with an operator and a last one never ends with one
(`Bounded`) is why what stands next to a request does not matter.

*Frames.* `FramingImplementsChannel` (`ImplementsChannel`): for every base greater
than 1, every pipe size, either reader and all non-empty payloads, what they look
like included, `Framing` implements `FrameChannel`. The caps on header and payload
length are not in the module, so this is about payloads that they let pass.

`Digits` is a recursive function and `Value` a fold. `DigitsIs` and `ValueIs` give
both their equations, by functions on `0..N` that agree where both are defined, and
`LengthReadsBack` says that a whole header is read as the length it was written for.
`WireInv` says that there is one stream, the frames of all payloads written or begun
(`OnWire`), of which the reader has taken `r` symbols while pipe and writer have the
rest in order (`Flow`), and which symbol of which frame the reader is at (`InHeader`,
`InBody`). So what looks like a header in a payload is never met in a header
(`HeaderMeets`, `BodyMeets`); a payload is complete for the reader only after its
last symbol was written; and at an empty pipe behind a vanished writer everything
sent was received (`NothingLeft`), which is why the length of a header that was cut
off, though it be another number, is never read to its end.

### RegistrationProofs

For every directory with no file name twice, in which no binary has one tool both
with and without root, and which offers at most `MaxOffers` tools per binary
(`DirectoriesAssumption`): `ServesEveryTool` (`EveryToolIsServed`) and
`GateIsExact` (`RootGateIsExact`).

`RegInv`: until a binary is replaced, the registered tools are those of the
descriptors already looked at which this user may call, each with a binary that
offers it (`Started`); of a replaced one only the tool's own check is left
(`OnlyRootRunsRootTools`). The step that needs most is the last one of a binary:
with no descriptor pending, all its tools are among those looked at.

### QueryToolsProofs

For every finite pool with editions and priorities in Nat, every set of patches and
every request: `RowsExist` (`RowsAreReal`), `MatchesAreShown` (`EveryMatchIsShown`)
and `FiltersAreMeant` (`PatchFiltersMeanWhatTheySay`).

What has to be shown is about the functions of request and pool that give the
rows; that an answer has these rows (`QueryInv`) is only the way to the state
machine. `BestExists`: among
finitely many solvables there is one no other is better than, so the candidate of
a name is one of them. `TwinStandsIn`: a match that the picklist filter drops has
the installed twin in the list.

### Proved and in no run; only model-checked

Proved, and not repeated as a property of a run: `CallInv`, `QuestionInv`,
`GateInv`, `ReportInv`, `WarnInv`, `AInv`, `PInv`, `ArgsInv`, `CutInv`, `WireInv`,
`RegInv`, the types of ConfirmGate, Requester and TrustDialog,
`StrategyIsOneOfThree`, `ViewsMatchSelections`, `LocksSurvive`, `ImportsWereTyped`.

Only model-checked: the liveness properties, since fairness and ENABLED are out of
the prover's reach.

## Not modelled, and why

- Progress notifications in the proxy (`handleProgress`, `progressMessage`): they
  are formatted and sent, and change no state. In CommitReport a progress frame
  is part of the action that emits it.
- Text of frames, results and feedback, and the layout of rows: formatting.
- The caps on header and payload length and headers that do not parse: no writer
  of this program produces them. Likewise a final frame that is no valid JSON.
- Flags, transports and signal handling of `cmd/mcp-server-zypp`: start-up I/O;
  its end is `ProxyDies`, which may come at any moment.
- The worker's USAGE frame: the proxy never starts a worker without a tool.
- Types of JSON values: `invalid`, `notBool` and `ArgKinds` stand for any value
  that is refused.
- `PackageArgs` for arguments that are already specs, which copies them; what
  libzypp makes of a capability's spelling.
- `GpgKeyGate::accept`: nothing calls it, so `isAccepted` is false.
- What libzypp's solver decides, and the resolver switches only it reads
  (`no_recommends`, `clean_deps`): outside this code. So are solver testcases as
  a plan's system.
- In ConfirmGate: the request's `repo` and solver options, locks and vendors
  (they are in Requester), packages with several installed versions, and rpm run
  behind libzypp's back.
- The start of the worker process and `cmd.Wait` are one step each.
- Tests, packaging and the build are no part of the program; they were read for
  what they claim about it.

## Plan

Done: `CancelContract`, `WorkerCall`, `CommitReport`, `ConfirmGate`, `Requester`
with patches, `PackageArgs`, `TrustDialog`, the query tools, `Registration`,
`Framing`; proofs of every safety property of the passing runs, the refinements of
CancelContract and FrameChannel among them.

To come: the caps on header and payload length in `Framing`, with payloads beyond
them.

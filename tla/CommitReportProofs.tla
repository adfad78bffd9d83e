------------------------- MODULE CommitReportProofs -------------------------
(***************************************************************************)
(* What the client is told about a commit, for every transaction, every     *)
(* pair of capacities in which the log is longer than a pending buffer, and *)
(* any number of events.                                                    *)
(***************************************************************************)
EXTENDS CommitReport, Integers, FiniteSetTheorems, TLAPS

-----------------------------------------------------------------------------
(* The log and the pending buffers.                                        *)

\* The last n elements of a sequence are what is left without the first d.
LEMMA TailingProperties ==
  ASSUME NEW S, NEW s \in Seq(S), NEW n \in Nat
  PROVE  /\ Tailing(s, n) \in Seq(S)
         /\ \E d \in Nat :
              /\ Len(s) = Len(Tailing(s, n)) + d /\ Len(Tailing(s, n)) <= n
              /\ d > 0 => Len(Tailing(s, n)) = n
              /\ \A i \in 1 .. Len(Tailing(s, n)) : Tailing(s, n)[i] = s[i + d]
  <1>1. CASE Len(s) > n
    <2> DEFINE t == SubSeq(s, Len(s) - n + 1, Len(s))
    <2>1. t \in Seq(S) /\ Len(t) = n
      BY <1>1
    <2>2. PICK d \in Nat : d = Len(s) - n
      BY <1>1
    <2>3. \A i \in 1 .. n : t[i] = s[i + d]
      <3>1. \A i \in 1 .. n : t[i] = s[i + (Len(s) - n)]
        BY <1>1
      <3>2. QED
        BY <2>2, <3>1
    <2>4. Tailing(s, n) = t
      BY <1>1 DEF Tailing
    <2>5. Len(s) = Len(t) + d
      BY <2>1, <2>2
    <2> HIDE DEF t
    <2>6. QED
      BY <1>1, <2>1, <2>2, <2>3, <2>4, <2>5
  <1>2. CASE ~(Len(s) > n)
    BY <1>2 DEF Tailing
  <1>3. QED
    BY <1>1, <1>2

\* An entry stays in the log if fewer than MaxEntries are recorded after it.
LEMMA EntrySurvives ==
  ASSUME log \in Seq(Entries), NEW es \in Seq(Entries), Record(es),
         NEW k \in 1 .. Len(es), Len(es) - k < MaxEntries
  PROVE  \E i \in 1 .. Len(log') : log'[i] = es[k]
  <1> DEFINE all == log \o es
  <1>1. PICK a \in Nat, e \in Nat : a = Len(log) /\ e = Len(es)
    OBVIOUS
  <1>2. all \in Seq(Entries) /\ Len(all) = a + e /\ all[a + k] = es[k]
    BY <1>1
  <1>3. log' = Tailing(all, MaxEntries) /\ MaxEntries \in Nat
    BY CapacityAssumption DEF Record
  <1> HIDE DEF all
  <1>4. PICK d \in Nat :
          /\ Len(all) = Len(Tailing(all, MaxEntries)) + d
          /\ Len(Tailing(all, MaxEntries)) <= MaxEntries
          /\ d > 0 => Len(Tailing(all, MaxEntries)) = MaxEntries
          /\ \A i \in 1 .. Len(Tailing(all, MaxEntries)) :
               Tailing(all, MaxEntries)[i] = all[i + d]
    BY <1>2, <1>3, TailingProperties
  <1>5. PICK n \in Nat : n = Len(log')
    <2>1. log' \in Seq(Entries)
      BY <1>2, <1>3, TailingProperties
    <2>2. QED
      BY <2>1
  <1>6. /\ k \in 1 .. e /\ e - k < MaxEntries
        /\ n <= MaxEntries /\ (d > 0 => n = MaxEntries)
        /\ a + e = n + d
        /\ \A i \in 1 .. n : log'[i] = all[i + d]
    <2>1. k \in 1 .. e /\ e - k < MaxEntries
      BY <1>1
    <2>2. n <= MaxEntries /\ (d > 0 => n = MaxEntries)
      BY <1>3, <1>4, <1>5
    <2>3. a + e = n + d /\ \A i \in 1 .. n : log'[i] = all[i + d]
      BY <1>2, <1>3, <1>4, <1>5
    <2>4. QED
      BY <2>1, <2>2, <2>3
  <1>7. PICK i \in 1 .. n : i + d = a + k
    <2> DEFINE i == a + k - d
    <2>1. d \in Nat /\ a \in Nat /\ e \in Nat /\ n \in Nat /\ k \in 1 .. e
      BY <1>1, <1>4, <1>5, <1>6
    <2>2. i \in Int /\ i + d = a + k
      BY <2>1
    <2>3. 1 <= i /\ i <= n
      BY <1>3, <1>6, <2>1
    <2> HIDE DEF i
    <2>4. QED
      BY <2>1, <2>2, <2>3
  <1>8. QED
    BY <1>2, <1>5, <1>6, <1>7

Attributed(entries) ==
  \A i \in 1 .. Len(entries) : entries[i].from = entries[i].package

\* record() keeps the log typed, bounded, honest about its losses and its
\* entries with their steps.
LEMMA RecordKeeps ==
  ASSUME StateOK, LogInv, DetailsBelongToTheirStep,
         NEW es \in Seq(Entries), Record(es), Attributed(es)
  PROVE  /\ log' \in Seq(Entries) /\ Len(log') <= MaxEntries
         /\ recorded' \in Nat /\ truncated' \in BOOLEAN
         /\ LogInv' /\ DetailsBelongToTheirStep'
  <1> DEFINE all == log \o es
  <1>1. /\ log \in Seq(Entries) /\ recorded \in Nat /\ truncated \in BOOLEAN
        /\ MaxEntries \in Nat
    BY CapacityAssumption DEF StateOK
  <1>2. PICK a \in Nat, e \in Nat : a = Len(log) /\ e = Len(es) /\ a <= MaxEntries
    BY <1>1 DEF StateOK
  <1>3. all \in Seq(Entries) /\ Len(all) = a + e
    BY <1>1, <1>2
  <1>4. \A i \in 1 .. a + e : all[i].from = all[i].package
    <2>1. \A i \in 1 .. a : all[i] = log[i] /\ log[i].from = log[i].package
      BY <1>1, <1>2 DEF DetailsBelongToTheirStep
    <2>2. \A i \in 1 .. e : all[a + i] = es[i] /\ es[i].from = es[i].package
      BY <1>1, <1>2 DEF Attributed
    <2> HIDE DEF all
    <2>3. ASSUME NEW i \in 1 .. a + e, i > a PROVE all[i].from = all[i].package
      <3>1. PICK j \in 1 .. e : i = a + j
        <4>1. i - a \in 1 .. e /\ i = a + (i - a)
          BY <1>2, <2>3
        <4>2. QED
          BY <4>1
      <3>2. QED
        BY <2>2, <3>1
    <2>4. QED
      BY <1>2, <2>1, <2>3
  <1>5. /\ log' = Tailing(all, MaxEntries)
        /\ truncated' <=> truncated \/ Len(all) > MaxEntries
        /\ truncated' \in BOOLEAN
        /\ recorded' = recorded + e
    BY <1>1, <1>2 DEF Record
  <1> HIDE DEF all
  <1>6. log' \in Seq(Entries)
    BY <1>1, <1>3, <1>5, TailingProperties
  <1>7. PICK d \in Nat :
          /\ Len(all) = Len(Tailing(all, MaxEntries)) + d
          /\ Len(Tailing(all, MaxEntries)) <= MaxEntries
          /\ d > 0 => Len(Tailing(all, MaxEntries)) = MaxEntries
          /\ \A i \in 1 .. Len(Tailing(all, MaxEntries)) :
               Tailing(all, MaxEntries)[i] = all[i + d]
    BY <1>1, <1>3, TailingProperties
  <1>8. PICK n \in Nat : n = Len(log')
    BY <1>6
  <1>9. n <= MaxEntries /\ n <= recorded' /\ (truncated' <=> n < recorded')
    BY <1>1, <1>2, <1>3, <1>5, <1>7, <1>8 DEF LogInv
  <1>10. ASSUME NEW i \in 1 .. n PROVE log'[i].from = log'[i].package
    <2>1. a + e = n + d /\ log'[i] = all[i + d]
      BY <1>2, <1>3, <1>5, <1>7, <1>8
    <2>2. i + d \in 1 .. a + e
      BY <1>2, <1>7, <1>8, <2>1
    <2>3. QED
      BY <1>4, <2>1, <2>2
  <1>11. QED
    BY <1>1, <1>5, <1>6, <1>8, <1>9, <1>10 DEF LogInv, DetailsBelongToTheirStep

LEMMA EntryIsOne ==
  ASSUME NEW package \in Owners, NEW phase \in Phases, NEW severity \in Severities
  PROVE  /\ Entry(package, phase, severity) \in Entries
         /\ Entry(package, phase, severity).from = package
         /\ Entry(package, phase, severity).package = package
         /\ Entry(package, phase, severity).severity = severity
  BY DEF Entry, Entries

LEMMA PhaseIsOne == \A r \in Receivers : PhaseOf(r) \in Phases
  BY DEF Receivers, Classic, SA, PhaseOf, Phases

\* n entries for one owner.
Repeat(n, package, phase, severity) ==
  [i \in 1 .. n |-> Entry(package, phase, severity)]

IsRepeat(es, n, package, severity) ==
  /\ es \in Seq(Entries) /\ Len(es) = n
  /\ \A i \in 1 .. n : es[i].severity = severity /\ es[i].package = package

LEMMA RepeatIsLog ==
  ASSUME NEW n \in 0 .. 2, NEW package \in Owners, NEW phase \in Phases,
         NEW severity \in Severities
  PROVE  /\ IsRepeat(Repeat(n, package, phase, severity), n, package, severity)
         /\ Attributed(Repeat(n, package, phase, severity))
  BY EntryIsOne DEF Repeat, IsRepeat, Attributed

LEMMA SingleIsLog ==
  ASSUME NEW package \in Owners, NEW phase \in Phases, NEW severity \in Severities
  PROVE  LET es == <<Entry(package, phase, severity)>> IN
           es \in Seq(Entries) /\ Attributed(es)
  BY EntryIsOne DEF Attributed

\* The buffered output of the receiver that reports, as Details of its step.
LEMMA FlushedIsLog ==
  ASSUME StateOK, OwnerInv, Reporting
  PROVE  LET es == Flushed(report.recv, report.step) IN
           es \in Seq(Entries) /\ Len(es) <= MaxPending /\ Attributed(es)
  <1>1. report.recv \in Receivers /\ report.step \in Owners
    BY DEF StateOK, OwnerInv, Reporting, Reports
  <1>2. /\ pending[report.recv] \in Seq(Owners)
        /\ Len(pending[report.recv]) <= MaxPending
        /\ \A i \in 1 .. Len(pending[report.recv]) : pending[report.recv][i] = report.step
    BY <1>1 DEF StateOK, OwnerInv
  <1>3. PhaseOf(report.recv) \in Phases
    BY <1>1, PhaseIsOne
  <1>4. "detail" \in Severities
    BY DEF Severities
  <1> DEFINE es == Flushed(report.recv, report.step)
             n  == Len(pending[report.recv])
  <1>5. \A i \in 1 .. n :
          [package |-> report.step, phase |-> PhaseOf(report.recv),
           severity |-> "detail", from |-> pending[report.recv][i]] \in Entries
    BY <1>1, <1>2, <1>3, <1>4 DEF Entries
  <1>6. es = [i \in 1 .. n |->
                [package |-> report.step, phase |-> PhaseOf(report.recv),
                 severity |-> "detail", from |-> pending[report.recv][i]]]
    BY DEF Flushed
  <1>7. n \in Nat /\ es \in [1 .. n -> Entries]
    BY <1>2, <1>5, <1>6
  <1>8. es \in Seq(Entries) /\ Len(es) = n
    BY <1>7
  <1>9. \A i \in 1 .. n : es[i].from = es[i].package
    BY <1>2, <1>6
  <1>10. QED
    BY <1>2, <1>8, <1>9 DEF Attributed

\* A failed report: n Errors first, then the output it flushes.
FailureEntries(n) ==
  [i \in 1 .. n |-> Entry(report.step, PhaseOf(report.recv), "error")]
  \o Flushed(report.recv, report.step)

LEMMA FailureIsLog ==
  ASSUME StateOK, OwnerInv, Reporting, NEW n \in 0 .. 2
  PROVE  /\ FailureEntries(n) \in Seq(Entries) /\ Attributed(FailureEntries(n))
         /\ Len(FailureEntries(n)) \in n .. n + MaxPending
         /\ \A i \in 1 .. n :
              /\ FailureEntries(n)[i].severity = "error"
              /\ FailureEntries(n)[i].package = report.step
  <1> DEFINE errors == Repeat(n, report.step, PhaseOf(report.recv), "error")
             output == Flushed(report.recv, report.step)
             es     == errors \o output
  <1>1. report.recv \in Receivers /\ report.step \in Owners
    BY DEF StateOK, OwnerInv, Reporting, Reports
  <1>2. /\ errors \in Seq(Entries) /\ Len(errors) = n /\ Attributed(errors)
        /\ \A i \in 1 .. n : errors[i].severity = "error" /\ errors[i].package = report.step
    <2>1. PhaseOf(report.recv) \in Phases /\ "error" \in Severities
      BY <1>1, PhaseIsOne DEF Severities
    <2>2. IsRepeat(errors, n, report.step, "error") /\ Attributed(errors)
      BY <1>1, <2>1, RepeatIsLog
    <2> HIDE DEF errors
    <2>3. QED
      BY <2>2 DEF IsRepeat
  <1>3. output \in Seq(Entries) /\ Len(output) <= MaxPending /\ Attributed(output)
    BY FlushedIsLog
  <1>0. FailureEntries(n) = es
    BY DEF FailureEntries, Repeat
  <1> HIDE DEF errors, output
  <1>4. PICK m \in Nat : m = Len(output) /\ m <= MaxPending
    BY <1>3
  <1>5. /\ es \in Seq(Entries) /\ Len(es) = n + m
        /\ \A i \in 1 .. n : es[i] = errors[i]
        /\ \A i \in 1 .. m : es[n + i] = output[i]
    BY <1>2, <1>3, <1>4
  <1> HIDE DEF es
  <1>6. ASSUME NEW i \in 1 .. n + m PROVE es[i].from = es[i].package
    <2>1. CASE i <= n
      BY <1>2, <1>5, <2>1 DEF Attributed
    <2>2. CASE i > n
      <3>1. PICK j \in 1 .. m : i = n + j
        <4>1. i - n \in 1 .. m /\ i = n + (i - n)
          BY <1>4, <2>2
        <4>2. QED
          BY <4>1
      <3>2. QED
        BY <1>3, <1>4, <1>5, <3>1 DEF Attributed
    <2>3. QED
      BY <1>4, <2>1, <2>2
  <1>7. Len(es) \in n .. n + MaxPending
    BY <1>4, <1>5, CapacityAssumption
  <1>8. QED
    BY <1>0, <1>2, <1>5, <1>6, <1>7 DEF Attributed

-----------------------------------------------------------------------------
(* The inductive invariant.                                                *)

\* An action that leaves the report, the buffers and the log alone, and does
\* not end the commit.
LEMMA ElsewhereKeeps ==
  ASSUME ReportInv, UNCHANGED <<report, pending, logger>>
  PROVE  LogInv' /\ OwnerInv' /\ DetailsBelongToTheirStep'
  BY DEF ReportInv, LogInv, OwnerInv, DetailsBelongToTheirStep, logger, Reporting,
     IsStepReport

LEMMA OutputCleared ==
  ASSUME ReportInv, Reporting, ClearPending(report.recv), report' = NoReport
  PROVE  /\ OwnerInv'
         /\ pending' \in [Receivers -> Seq(Owners)]
         /\ \A r \in Receivers : Len(pending'[r]) <= MaxPending
         /\ report' \in Reports
  <1>1. /\ pending \in [Receivers -> Seq(Owners)]
        /\ \A r \in Receivers : Len(pending[r]) <= MaxPending
    BY DEF ReportInv, StateOK
  <1>2. /\ report' \in Reports /\ report'.recv = None
        /\ ~Reporting'
    BY DEF Reports, NoReport, Owners, Reporting
  <1>3. ASSUME NEW r \in Receivers PROVE pending'[r] = <<>>
    <2>1. CASE r = report.recv
      BY <1>1, <2>1 DEF ClearPending
    <2>2. CASE r # report.recv
      <3>1. pending'[r] = pending[r] /\ pending[r] \in Seq(Owners)
        BY <1>1, <2>2 DEF ClearPending
      <3>2. \A i \in 1 .. Len(pending[r]) : FALSE
        BY <2>2 DEF ReportInv, OwnerInv
      <3>3. QED
        BY <3>1, <3>2
    <2>3. QED
      BY <2>1, <2>2
  <1>4. pending' \in [Receivers -> Seq(Owners)]
    <2>1. <<>> \in Seq(Owners)
      OBVIOUS
    <2>2. QED
      BY <1>1, <2>1 DEF ClearPending
  <1>5. \A r \in Receivers : Len(pending'[r]) <= MaxPending
    BY <1>3, CapacityAssumption
  <1>6. OwnerInv'
    BY <1>2, <1>3 DEF OwnerInv, NoReport
  <1>7. QED
    BY <1>2, <1>4, <1>5, <1>6

\* While commit() runs nobody is to blame and nothing was said.
LEMMA StillSilent ==
  ASSUME ReportInv, pc \notin {"ended", "reported"}, pc' # "reported",
         UNCHANGED frame,
         \/ UNCHANGED culprit
         \/ threw' /\ pc' = "ended" /\ (culprit' # None => Named(culprit)')
  PROVE  FrameInv' /\ CulpritInv'
  <1>1. culprit = None /\ frame = NoFrame
    BY DEF ReportInv, CulpritInv, FrameInv
  <1>2. FrameInv'
    BY <1>1 DEF FrameInv
  <1>3. CulpritInv'
    BY <1>1 DEF CulpritInv
  <1>4. QED
    BY <1>2, <1>3

\* A closed report: what an action that ends one must do.
LEMMA ClosingKeeps ==
  ASSUME ReportInv, Reporting, pc = "transact", ClearPending(report.recv),
         report' = NoReport, UNCHANGED <<fixed, attempted, keyRejected, frame, events>>,
         stage' \in [Steps -> {"todo", "done", "error"}], changed' \in SUBSET Steps,
         warned' \in SUBSET Owners, culprit' \in Owners \union {None},
         threw' \in BOOLEAN, pc' \in {"transact", "ended"},
         \/ UNCHANGED culprit
         \/ threw' /\ pc' = "ended" /\ (culprit' # None => Named(culprit)'),
         \/ UNCHANGED logger
         \/ \E es \in Seq(Entries) : Record(es) /\ Attributed(es)
  PROVE  ReportInv'
  <1>1. /\ log' \in Seq(Entries) /\ Len(log') <= MaxEntries
        /\ recorded' \in Nat /\ truncated' \in BOOLEAN
        /\ LogInv' /\ DetailsBelongToTheirStep'
    <2>1. CASE UNCHANGED logger
      BY <2>1 DEF ReportInv, StateOK, LogInv, DetailsBelongToTheirStep, logger
    <2>2. CASE \E es \in Seq(Entries) : Record(es) /\ Attributed(es)
      BY <2>2, RecordKeeps DEF ReportInv
    <2>3. QED
      BY <2>1, <2>2
  <1>2. /\ OwnerInv' /\ report' \in Reports
        /\ pending' \in [Receivers -> Seq(Owners)]
        /\ \A r \in Receivers : Len(pending'[r]) <= MaxPending
    BY OutputCleared
  <1>3. FrameInv' /\ CulpritInv'
    BY StillSilent
  <1>4. TouchInv'
    BY DEF ReportInv, TouchInv
  <1>5. StateOK'
    BY <1>1, <1>2 DEF ReportInv, StateOK, fixed, PCs
  <1>6. QED
    BY <1>1, <1>2, <1>3, <1>4, <1>5 DEF ReportInv

\* A step outside of any closing: it may record, the report and the buffers stay.
LEMMA RecordingKeeps ==
  ASSUME ReportInv, pc \notin {"ended", "reported"}, UNCHANGED <<report, pending, frame>>,
         NEW es \in Seq(Entries), Record(es), Attributed(es),
         pc' # "reported",
         \/ UNCHANGED culprit
         \/ threw' /\ pc' = "ended" /\ (culprit' # None => Named(culprit)')
  PROVE  /\ log' \in Seq(Entries) /\ Len(log') <= MaxEntries
         /\ recorded' \in Nat /\ truncated' \in BOOLEAN
         /\ LogInv' /\ OwnerInv' /\ CulpritInv' /\ FrameInv'
         /\ DetailsBelongToTheirStep'
  <1>1. OwnerInv'
    BY DEF ReportInv, OwnerInv, Reporting, IsStepReport
  <1>2. QED
    BY <1>1, RecordKeeps, StillSilent DEF ReportInv

LEMMA BeforeStep ==
  ASSUME ReportInv, RejectKey \/ BeginTransaction \/ CommitReturns \/ CommitThrows
  PROVE  ReportInv'
  <1>1. UNCHANGED <<report, pending, logger>>
    BY DEF RejectKey, BeginTransaction, CommitReturns, CommitThrows
  <1>2. LogInv' /\ OwnerInv' /\ DetailsBelongToTheirStep'
    BY <1>1, ElsewhereKeeps
  <1>3. FrameInv' /\ CulpritInv'
    <2>1. /\ pc \notin {"ended", "reported"} /\ pc' # "reported" /\ UNCHANGED frame
          /\ UNCHANGED culprit \/ (threw' /\ pc' = "ended" /\ culprit' = None)
      BY DEF RejectKey, BeginTransaction, CommitReturns, CommitThrows, Throw, fate
    <2>2. QED
      BY <2>1, StillSilent
  <1>4. TouchInv'
    BY DEF ReportInv, TouchInv, RejectKey, BeginTransaction, CommitReturns,
       CommitThrows, Throw, fate, system
  <1>5. StateOK'
    BY DEF ReportInv, StateOK, PCs, RejectKey, BeginTransaction, CommitReturns,
       CommitThrows, Throw, fate, system, fixed, logger
  <1>6. QED
    BY <1>2, <1>3, <1>4, <1>5 DEF ReportInv

LEMMA PreloadStep ==
  ASSUME ReportInv, PreloadFinish
  PROVE  ReportInv'
  <1> USE DEF PreloadFinish
  <1>1. CASE UNCHANGED logger
    <2>1. LogInv' /\ OwnerInv' /\ DetailsBelongToTheirStep'
      BY <1>1, ElsewhereKeeps
    <2>2. FrameInv' /\ CulpritInv'
      BY StillSilent
    <2>3. StateOK' /\ TouchInv'
      BY <1>1 DEF ReportInv, StateOK, TouchInv, PCs, system, fixed, logger
    <2>4. QED
      BY <2>1, <2>2, <2>3 DEF ReportInv
  <1>2. CASE Record(<<Entry(Whole, "preload", "error")>>)
    <2>1. PICK es \in Seq(Entries) : Record(es) /\ Attributed(es)
      BY <1>2, SingleIsLog DEF Owners, Phases, Severities
    <2>2. /\ log' \in Seq(Entries) /\ Len(log') <= MaxEntries
          /\ recorded' \in Nat /\ truncated' \in BOOLEAN
          /\ LogInv' /\ OwnerInv' /\ CulpritInv' /\ FrameInv'
          /\ DetailsBelongToTheirStep'
      BY <2>1, RecordingKeeps
    <2>3. StateOK' /\ TouchInv'
      BY <2>2 DEF ReportInv, StateOK, TouchInv, PCs, system, fixed
    <2>4. QED
      BY <2>2, <2>3 DEF ReportInv
  <1>3. QED
    BY <1>1, <1>2

LEMMA DownloadStep ==
  ASSUME ReportInv, NEW s \in Steps, DownloadProblem(s)
  PROVE  ReportInv'
  <1> USE DEF DownloadProblem
  <1>1. PICK n \in 1 .. 2 : Record(Repeat(n, s, "download", "error"))
    BY DEF Repeat
  <1>2. PICK es : /\ es = Repeat(n, s, "download", "error")
                  /\ Record(es) /\ IsRepeat(es, n, s, "error") /\ Attributed(es)
    BY <1>1, RepeatIsLog DEF Owners, Phases, Severities
  <1>3. pc \notin {"ended", "reported"} /\ pc' # "reported" /\ UNCHANGED <<report, pending, frame>>
    BY DEF Throw, fate
  <1>4. Named(s)'
    <2>1. n \in 1 .. Len(es) /\ Len(es) - n < MaxEntries /\ es \in Seq(Entries)
      BY <1>1, <1>2, CapacityAssumption DEF IsRepeat
    <2>2. \E i \in 1 .. Len(log') : log'[i] = es[n]
      BY <1>2, <2>1, EntrySurvives DEF ReportInv, StateOK
    <2>3. es[n].severity = "error" /\ es[n].package = s
      BY <1>1, <1>2 DEF IsRepeat
    <2>4. QED
      BY <2>2, <2>3 DEF Named
  <1>5. \/ UNCHANGED culprit
        \/ threw' /\ pc' = "ended" /\ culprit' = s
    BY DEF Throw, fate
  <1>6. /\ log' \in Seq(Entries) /\ Len(log') <= MaxEntries
        /\ recorded' \in Nat /\ truncated' \in BOOLEAN
        /\ LogInv' /\ OwnerInv' /\ CulpritInv' /\ FrameInv'
        /\ DetailsBelongToTheirStep'
    <2>1. \/ UNCHANGED culprit
          \/ threw' /\ pc' = "ended" /\ (culprit' # None => Named(culprit)')
      BY <1>4, <1>5 DEF Named
    <2>2. es \in Seq(Entries) /\ Record(es) /\ Attributed(es)
      BY <1>2 DEF IsRepeat
    <2>3. QED
      BY <1>3, <2>1, <2>2, RecordingKeeps
  <1>7. TouchInv'
    BY DEF ReportInv, TouchInv, Throw, fate
  <1>8. StateOK'
    BY <1>6 DEF ReportInv, StateOK, PCs, Throw, fate, fixed, Owners
  <1>9. QED
    BY <1>6, <1>7, <1>8 DEF ReportInv

\* A line that is recorded at once.
LEMMA LineStep ==
  ASSUME ReportInv, ScriptletLine \/ LogLine
  PROVE  ReportInv'
  <1> USE DEF ScriptletLine, LogLine, Line, CountEvent
  <1>1. PICK es \in Seq(Entries) : Record(es) /\ Attributed(es)
    <2>1. ASSUME Reporting PROVE report.recv \in Receivers /\ report.step \in Owners
      BY <2>1 DEF ReportInv, StateOK, OwnerInv, Reporting, Reports
    <2>2. CASE ScriptletLine
      BY <2>1, <2>2, SingleIsLog, PhaseIsOne DEF Severities
    <2>3. CASE LogLine
      BY <2>3, SingleIsLog DEF Owners, Phases, Severities
    <2>4. QED
      BY <2>2, <2>3
  <1>2. /\ pc = "transact" /\ pc' = "transact"
        /\ UNCHANGED <<report, pending, frame, culprit>>
    BY DEF fate
  <1>3. /\ log' \in Seq(Entries) /\ Len(log') <= MaxEntries
        /\ recorded' \in Nat /\ truncated' \in BOOLEAN
        /\ LogInv' /\ OwnerInv' /\ CulpritInv' /\ FrameInv'
        /\ DetailsBelongToTheirStep'
    BY <1>1, <1>2, RecordingKeeps
  <1>4. TouchInv'
    BY DEF ReportInv, TouchInv, fate, system
  <1>5. events' \in 0 .. MaxEvents /\ warned' \in SUBSET Owners
    BY EventsAssumption DEF ReportInv, StateOK, Reporting, Reports, Owners
  <1>6. StateOK'
    BY <1>3, <1>5 DEF ReportInv, StateOK, fate, system, fixed
  <1>7. QED
    BY <1>3, <1>4, <1>6 DEF ReportInv

\* start() of any receiver.
LEMMA OpeningStep ==
  ASSUME ReportInv, NEW r \in Receivers, NEW owner \in Owners, Open(r, owner),
         r \notin {"scriptSA", "transactionSA", "cleanupSA"} => owner \in Steps,
         UNCHANGED events \/ CountEvent
  PROVE  ReportInv'
  <1> USE DEF Open
  <1>1. LogInv' /\ DetailsBelongToTheirStep'
    BY DEF ReportInv, LogInv, DetailsBelongToTheirStep, logger
  <1>2. r # None /\ report'.recv = r /\ report'.step = owner /\ report' \in Reports
    BY DEF Receivers, Classic, SA, None, Reports
  <1>3. OwnerInv'
    <2>1. report.recv = None
      BY DEF Reporting, NoReport
    <2>2. \A q \in Receivers : \A i \in 1 .. Len(pending'[q]) : FALSE
      BY <2>1 DEF ReportInv, OwnerInv, Receivers, Classic, SA, None
    <2>3. QED
      BY <1>2, <2>2 DEF OwnerInv, IsStepReport
  <1>4. FrameInv' /\ CulpritInv'
    BY StillSilent DEF fate
  <1>5. TouchInv'
    BY DEF ReportInv, TouchInv, fate, system
  <1>6. events' \in 0 .. MaxEvents
    BY EventsAssumption DEF ReportInv, StateOK, CountEvent
  <1>7. StateOK'
    BY <1>2, <1>6 DEF ReportInv, StateOK, fate, system, fixed, logger
  <1>8. QED
    BY <1>1, <1>3, <1>4, <1>5, <1>7 DEF ReportInv

LEMMA StartingStep ==
  ASSUME ReportInv,
         \/ \E s \in Steps : StartStep(s) \/ StartCleanup(s)
         \/ \E owner \in Owners : StartScript(owner)
         \/ StartPhase
  PROVE  ReportInv'
  <1> USE DEF Receivers, Classic, SA, Owners
  <1>1. ASSUME NEW s \in Steps, StartStep(s) PROVE ReportInv'
    <2>1. StepReceiver(s) \in Receivers
      BY DEF StepReceiver
    <2>2. QED
      BY <1>1, <2>1, OpeningStep DEF StartStep
  <1>2. ASSUME NEW s \in Steps, StartCleanup(s) PROVE ReportInv'
    BY <1>2, OpeningStep DEF StartCleanup
  <1>3. ASSUME NEW owner \in Owners, StartScript(owner) PROVE ReportInv'
    BY <1>3, OpeningStep DEF StartScript
  <1>4. CASE StartPhase
    BY <1>4, OpeningStep DEF StartPhase
  <1>5. QED
    BY <1>1, <1>2, <1>3, <1>4

\* A buffered line belongs to the step that is reported on.
LEMMA RoutineStep ==
  ASSUME ReportInv, RoutineLine
  PROVE  ReportInv'
  <1> USE DEF RoutineLine, Line, CountEvent
  <1>1. LogInv' /\ DetailsBelongToTheirStep'
    BY DEF ReportInv, LogInv, DetailsBelongToTheirStep, logger
  <1>2. /\ report.recv \in Receivers /\ report.step \in Owners /\ MaxPending \in Nat
        /\ pending \in [Receivers -> Seq(Owners)]
        /\ \A r \in Receivers : Len(pending[r]) <= MaxPending
    BY CapacityAssumption DEF ReportInv, StateOK, OwnerInv, Reporting, Reports
  <1> DEFINE q == pending[report.recv]
             l == Append(q, report.step)
             t == Tailing(l, MaxPending)
  <1>3. q \in Seq(Owners) /\ \A i \in 1 .. Len(q) : q[i] = report.step
    BY <1>2 DEF ReportInv, OwnerInv
  <1>4. pending' = [pending EXCEPT ![report.recv] = t]
    BY DEF PushPending
  <1> HIDE DEF q
  <1>5. l \in Seq(Owners) /\ Len(l) \in Nat /\ \A i \in 1 .. Len(l) : l[i] = report.step
    BY <1>2, <1>3
  <1> HIDE DEF l
  <1>6. t \in Seq(Owners)
    BY <1>2, <1>5, TailingProperties
  <1>7. PICK d \in Nat : /\ Len(l) = Len(t) + d /\ Len(t) <= MaxPending
                         /\ \A i \in 1 .. Len(t) : t[i] = l[i + d]
    BY <1>2, <1>5, TailingProperties
  <1> HIDE DEF t
  <1>8. PICK n \in Nat : n = Len(t)
    BY <1>6
  <1>9. ASSUME NEW i \in 1 .. n PROVE t[i] = report.step
    <2>1. i + d \in 1 .. Len(l)
      BY <1>5, <1>7, <1>8
    <2>2. QED
      BY <1>5, <1>7, <1>8, <2>1
  <1>10. /\ pending' \in [Receivers -> Seq(Owners)]
         /\ \A r \in Receivers : pending'[r] = IF r = report.recv THEN t ELSE pending[r]
    BY <1>2, <1>4, <1>6
  <1>11. \A r \in Receivers : Len(pending'[r]) <= MaxPending
    BY <1>2, <1>7, <1>10
  <1>12. OwnerInv'
    <2>1. ASSUME NEW r \in Receivers, NEW i \in 1 .. Len(pending'[r])
          PROVE  report.recv = r /\ pending'[r][i] = report.step
      <3>1. CASE r = report.recv
        BY <1>8, <1>9, <1>10, <3>1
      <3>2. CASE r # report.recv
        BY <1>10, <3>2 DEF ReportInv, OwnerInv
      <3>3. QED
        BY <3>1, <3>2
    <2>2. QED
      BY <2>1 DEF ReportInv, OwnerInv, Reporting, IsStepReport
  <1>13. FrameInv' /\ CulpritInv'
    BY StillSilent DEF fate
  <1>14. TouchInv'
    BY DEF ReportInv, TouchInv, fate, system
  <1>15. StateOK'
    BY <1>10, <1>11, EventsAssumption DEF ReportInv, StateOK, fate, system, fixed, logger
  <1>16. QED
    BY <1>1, <1>12, <1>13, <1>14, <1>15 DEF ReportInv

\* finish() without an error, and reportend() without finish().
LEMMA FinishStep ==
  ASSUME ReportInv, FinishOk \/ FinishWarn \/ ReportEnd
  PROVE  ReportInv'
  <1>1. /\ Reporting /\ pc = "transact" /\ report' = NoReport
        /\ ClearPending(report.recv)
        /\ UNCHANGED <<fixed, fate, keyRejected, frame, events>>
    BY DEF FinishOk, FinishWarn, ReportEnd
  <1>2. UNCHANGED <<attempted, threw, culprit>> /\ pc' = "transact"
    BY <1>1 DEF fate
  <1>3. report.recv \in Receivers /\ report.step \in Owners
    BY <1>1 DEF ReportInv, StateOK, OwnerInv, Reporting, Reports
  <1>4. stage' \in [Steps -> {"todo", "done", "error"}] /\ changed' \in SUBSET Steps
    <2>1. stage \in [Steps -> {"todo", "done", "error"}] /\ changed \in SUBSET Steps
      BY DEF ReportInv, StateOK
    <2>2. CASE UNCHANGED system
      BY <2>1, <2>2 DEF system
    <2>3. CASE FinishOk /\ IsStepReport
      BY <1>1, <2>1, <2>3 DEF FinishOk, ReportInv, OwnerInv
    <2>4. QED
      BY <2>2, <2>3 DEF FinishOk, FinishWarn, ReportEnd
  <1>5. warned' \in SUBSET Owners
    BY <1>3 DEF FinishOk, FinishWarn, ReportEnd, ReportInv, StateOK
  <1>6. \/ UNCHANGED logger
        \/ \E es \in Seq(Entries) : Record(es) /\ Attributed(es)
    <2>1. CASE FinishWarn
      <3>1. LET es == <<Entry(report.step, "script", "warning")>> IN
              es \in Seq(Entries) /\ Attributed(es)
        BY <1>3, SingleIsLog DEF Phases, Severities
      <3>2. QED
        BY <2>1, <3>1 DEF FinishWarn
    <2>2. QED
      BY <2>1 DEF FinishOk, ReportEnd
  <1>7. culprit' \in Owners \union {None} /\ threw' \in BOOLEAN
    BY <1>2 DEF ReportInv, StateOK
  <1>8. QED
    BY <1>1, <1>2, <1>4, <1>5, <1>6, <1>7, ClosingKeeps

\* finish() with an error; if commit() throws for it, its Error is in the log.
LEMMA FailedStep ==
  ASSUME ReportInv,
         ClassicStepFails \/ SAStepFails \/ ScriptFails \/ PhaseFails \/ CleanupFails
  PROVE  ReportInv'
  <1>1. PICK n \in 0 .. 2 : CloseFailed(n) /\ (ClassicStepFails => n > 0)
    BY DEF ClassicStepFails, SAStepFails, ScriptFails, PhaseFails, CleanupFails
  <1>2. Reporting /\ pc = "transact"
    BY DEF ClassicStepFails, SAStepFails, ScriptFails, PhaseFails, CleanupFails,
       Reporting, NoReport, Classic, None
  <1>3. /\ report' = NoReport /\ ClearPending(report.recv)
        /\ UNCHANGED <<fixed, keyRejected, frame, events, warned>>
        /\ Record(FailureEntries(n))
    BY <1>1 DEF CloseFailed, FailureEntries
  <1>4. report.recv \in Receivers /\ report.step \in Owners
    BY <1>2 DEF ReportInv, StateOK, OwnerInv, Reporting, Reports
  <1>5. /\ FailureEntries(n) \in Seq(Entries) /\ Attributed(FailureEntries(n))
        /\ Len(FailureEntries(n)) \in n .. n + MaxPending
        /\ \A i \in 1 .. n : /\ FailureEntries(n)[i].severity = "error"
                            /\ FailureEntries(n)[i].package = report.step
    BY <1>1, <1>2, FailureIsLog DEF ReportInv
  <1>6. stage' \in [Steps -> {"todo", "done", "error"}] /\ changed' \in SUBSET Steps
    <2>1. stage \in [Steps -> {"todo", "done", "error"}] /\ changed \in SUBSET Steps
      BY DEF ReportInv, StateOK
    <2>2. CASE UNCHANGED system
      BY <2>1, <2>2 DEF system
    <2>3. CASE ClassicStepFails \/ SAStepFails
      <3>1. IsStepReport /\ StepFailed
        BY <2>3 DEF ClassicStepFails, SAStepFails, IsStepReport, Classic
      <3>2. report.step \in Steps
        BY <1>2, <3>1 DEF ReportInv, OwnerInv
      <3>3. QED
        BY <2>1, <3>1, <3>2 DEF StepFailed
    <2>4. QED
      BY <2>2, <2>3 DEF ScriptFails, PhaseFails, CleanupFails
  <1>7. \/ UNCHANGED fate
        \/ ClassicStepFails /\ Throw(report.step)
    BY DEF ClassicStepFails, SAStepFails, ScriptFails, PhaseFails, CleanupFails
  <1>8. /\ pc' \in {"transact", "ended"} /\ attempted' = attempted
        /\ threw' \in BOOLEAN /\ culprit' \in Owners \union {None}
    BY <1>2, <1>4, <1>7 DEF Throw, fate, ReportInv, StateOK
  <1>9. \/ UNCHANGED culprit
        \/ threw' /\ pc' = "ended" /\ (culprit' # None => Named(culprit)')
    <2>1. CASE UNCHANGED fate
      BY <2>1 DEF fate
    <2>2. CASE ClassicStepFails /\ Throw(report.step)
      <3>1. n \in 1 .. Len(FailureEntries(n)) /\ Len(FailureEntries(n)) - n < MaxEntries
        BY <1>1, <1>5, <2>2, CapacityAssumption
      <3>2. \E i \in 1 .. Len(log') : log'[i] = FailureEntries(n)[n]
        BY <1>3, <1>5, <3>1, EntrySurvives DEF ReportInv, StateOK
      <3>3. n \in 1 .. n
        BY <1>1, <2>2
      <3>4. QED
        BY <1>5, <2>2, <3>2, <3>3 DEF Named, Throw
    <2>3. QED
      BY <1>7, <2>1, <2>2
  <1>10. warned' \in SUBSET Owners
    BY <1>3 DEF ReportInv, StateOK
  <1>11. QED
    BY <1>2, <1>3, <1>5, <1>6, <1>8, <1>9, <1>10, ClosingKeeps

\* The frame depends on nothing but the outcome.
LEMMA SameFrame ==
  ASSUME UNCHANGED <<fixed, system, attempted, logger, keyRejected>>
  PROVE  (FrameOfThrown)' = FrameOfThrown /\ (FrameOfReturned)' = FrameOfReturned
  <1>1. UNCHANGED <<tool, stage, log, truncated>>
    BY DEF fixed, system, logger
  <1>2. (Success)' = Success
    <2> DEFINE wanted == {s \in Steps :
                  Kind[s] = IF tool = "confirm_install" THEN "install" ELSE "erase"}
               issues == IssuesOf(log)
    <2>1. wanted' = wanted
      BY <1>1
    <2>2. issues' = issues
      BY <1>1, Zenon
    <2> HIDE DEF wanted, issues
    <2> DEFINE shown(w, i) == [code |-> "result", failed |-> {}, skipped |-> {},
                               listed |-> w, details |-> i, truncated |-> FALSE]
    <2>3. Success = shown(wanted, issues) /\ (Success)' = shown(wanted', issues')
      BY Zenon DEF Success, wanted, issues
    <2>4. QED
      BY <2>1, <2>2, <2>3
  <1>3. /\ (KeyError)' <=> KeyError
        /\ (HasErrors)' <=> HasErrors
        /\ (AllDone)' <=> AllDone
    BY <1>1 DEF KeyError, HasErrors, AllDone
  <1>4. \A code, steps : (CommitFailure(code, steps))' = CommitFailure(code, steps)
    BY <1>1, Zenon DEF CommitFailure, Failed
  <1>5. QED
    BY <1>2, <1>3, <1>4 DEF FrameOfThrown, FrameOfReturned

\* The final frame.
LEMMA TellingStep ==
  ASSUME ReportInv, ReportThrown \/ ReportReturned
  PROVE  ReportInv'
  <1> USE DEF ReportThrown, ReportReturned, Tell
  <1>1. LogInv' /\ OwnerInv' /\ DetailsBelongToTheirStep'
    BY ElsewhereKeeps
  <1>2. FrameInv'
    <2>1. /\ (FrameOfThrown)' = FrameOfThrown /\ (FrameOfReturned)' = FrameOfReturned
          /\ threw' = threw /\ pc' = "reported"
      BY SameFrame
    <2>2. QED
      BY <2>1 DEF FrameInv
  <1>3. CulpritInv'
    BY DEF ReportInv, CulpritInv, Named, logger
  <1>4. TouchInv'
    BY DEF ReportInv, TouchInv, system
  <1>5. StateOK'
    BY DEF ReportInv, StateOK, PCs, fixed, system, logger
  <1>6. QED
    BY <1>1, <1>2, <1>3, <1>4, <1>5 DEF ReportInv

LEMMA Stuttering == ReportInv /\ UNCHANGED vars => ReportInv'
  <1> SUFFICES ASSUME ReportInv, UNCHANGED vars PROVE ReportInv'
    OBVIOUS
  <1> USE DEF vars
  <1>1. LogInv' /\ OwnerInv' /\ DetailsBelongToTheirStep'
    BY ElsewhereKeeps DEF logger
  <1>2. FrameInv'
    BY SameFrame DEF ReportInv, FrameInv, fixed, system, logger
  <1>3. CulpritInv' /\ TouchInv'
    BY DEF ReportInv, CulpritInv, Named, TouchInv
  <1>4. StateOK'
    BY DEF ReportInv, StateOK
  <1>5. QED
    BY <1>1, <1>2, <1>3, <1>4 DEF ReportInv

LEMMA ReportInvInit == Init => ReportInv
  <1> SUFFICES ASSUME Init PROVE ReportInv
    OBVIOUS
  <1> USE DEF Init
  <1>1. StateOK
    <2>1. log \in Seq(Entries) /\ Len(log) = 0
      OBVIOUS
    <2>2. /\ pending \in [Receivers -> Seq(Owners)]
          /\ \A r \in Receivers : Len(pending[r]) = 0
      OBVIOUS
    <2>3. report \in Reports /\ stage \in [Steps -> {"todo", "done", "error"}]
      BY DEF Reports, NoReport, Owners
    <2>4. Len(log) <= MaxEntries /\ \A r \in Receivers : Len(pending[r]) <= MaxPending
      BY <2>1, <2>2, CapacityAssumption
    <2>5. events \in 0 .. MaxEvents /\ recorded \in Nat
      BY EventsAssumption
    <2>6. QED
      BY <2>1, <2>2, <2>3, <2>4, <2>5 DEF StateOK, PCs
  <1>2. LogInv /\ TouchInv /\ CulpritInv /\ FrameInv /\ DetailsBelongToTheirStep
    BY DEF LogInv, TouchInv, CulpritInv, FrameInv, DetailsBelongToTheirStep
  <1>3. OwnerInv
    BY DEF OwnerInv, Reporting
  <1>4. QED
    BY <1>1, <1>2, <1>3 DEF ReportInv

\* The inductive invariant: types, an honest log, attributed output, and a frame
\* that is what the state says.
THEOREM Inductive == Spec => []ReportInv
  <1>1. ReportInv /\ [Next]_vars => ReportInv'
    BY BeforeStep, PreloadStep, DownloadStep, LineStep, StartingStep, RoutineStep,
       FinishStep, FailedStep, TellingStep, Stuttering DEF Next, Over
  <1>2. QED
    BY <1>1, ReportInvInit, PTL DEF Spec

-----------------------------------------------------------------------------
(* Induction over the natural numbers, for the loop over the log.          *)

\* A nonempty set of natural numbers has a least element: the intervals 1..n are
\* finite sets, which strict inclusion orders well.
LEMMA LeastNat ==
  ASSUME NEW T \in SUBSET Nat, T # {}
  PROVE  \E n \in T : \A m \in T : n <= m
<1> DEFINE Below == {1..n : n \in T}
           R == StrictSubsetOrdering(Nat)
<1>1. IsWellFoundedOn(R, FiniteSubsetsOf(Nat))
  BY FS_StrictSubsetOrderingWellFounded
<1>2. Below \subseteq FiniteSubsetsOf(Nat) /\ Below # {}
  <2>1. ASSUME NEW n \in T PROVE 1..n \in FiniteSubsetsOf(Nat)
    <3>1. IsFiniteSet(1..n) /\ 1..n \subseteq Nat
      BY FS_Interval
    <3> QED
      BY <3>1 DEF FiniteSubsetsOf
  <2> QED
    BY <2>1
<1> HIDE DEF R
<1>3. PICK B \in Below : \A C \in Below : <<C, B>> \notin R
  BY <1>1, <1>2, WFMin
<1>4. PICK n \in T : B = 1..n
  BY <1>3
<1>5. ASSUME NEW m \in T PROVE n <= m
  <2>1. 1..m \in Below /\ 1..m \subseteq Nat /\ 1..n \subseteq Nat
    OBVIOUS
  <2>2. ~(1..m \subseteq 1..n /\ 1..m # 1..n)
    BY <1>3, <1>4, <2>1 DEF R, StrictSubsetOrdering
  <2>3. n \in Nat /\ m \in Nat
    OBVIOUS
  <2>4. m < n => 1..m \subseteq 1..n /\ n \in 1..n /\ n \notin 1..m
    BY <2>3
  <2> QED
    BY <2>2, <2>3, <2>4
<1> QED
  BY <1>5

\* Induction, over the set of the numbers for which the claim holds.
LEMMA NatInd ==
  ASSUME NEW S, 0 \in S, \A n \in Nat : n \in S => n + 1 \in S
  PROVE  Nat \subseteq S
<1> SUFFICES ASSUME Nat \ S # {} PROVE FALSE
  OBVIOUS
<1>1. PICK n \in Nat \ S : \A m \in Nat \ S : n <= m
  BY LeastNat
<1>2. n - 1 \in Nat /\ n - 1 \in S /\ (n - 1) + 1 = n
  BY <1>1
<1> QED
  BY <1>1, <1>2

\* One turn of the loop: what was kept of n entries, from what was kept of n - 1.
KeepNext(s, kept, n) ==
  IF IsIssue(s[n]) THEN Append(kept, s[n]) ELSE kept

IsLoop(f, s, N) ==
  f = [n \in 0 .. N |-> IF n = 0 THEN <<>> ELSE KeepNext(s, f[n - 1], n)]

LEMMA LoopExists ==
  ASSUME NEW s, NEW N \in Nat
  PROVE  \E f : IsLoop(f, s, N)
  <1> DEFINE S == {n \in Nat : \E f : IsLoop(f, s, n)}
  <1>1. 0 \in S
    <2>1. IsLoop([n \in 0 .. 0 |-> <<>>], s, 0)
      BY DEF IsLoop
    <2>2. QED
      BY <2>1
  <1>2. ASSUME NEW n \in Nat, n \in S PROVE n + 1 \in S
    <2>1. PICK f : IsLoop(f, s, n)
      BY <1>2
    <2> DEFINE g == [i \in 0 .. n + 1 |-> IF i = n + 1 THEN KeepNext(s, f[n], n + 1)
                                         ELSE f[i]]
               h == [i \in 0 .. n + 1 |-> IF i = 0 THEN <<>>
                                         ELSE KeepNext(s, g[i - 1], i)]
    <2>2. \A i \in 0 .. n : f[i] = IF i = 0 THEN <<>> ELSE KeepNext(s, f[i - 1], i)
      BY <2>1 DEF IsLoop
    <2>3. ASSUME NEW i \in 0 .. n + 1 PROVE g[i] = h[i]
      <3>1. CASE i = n + 1
        <4>1. i # 0 /\ i - 1 = n /\ n \in 0 .. n + 1 /\ n # n + 1
          BY <3>1
        <4>2. QED
          BY <3>1, <4>1
      <3>2. CASE i # n + 1
        <4>1. i \in 0 .. n /\ (i # 0 => i - 1 \in 0 .. n + 1 /\ i - 1 # n + 1)
          BY <3>2
        <4>2. QED
          BY <2>2, <3>2, <4>1
      <3>3. QED
        BY <3>1, <3>2
    <2>4. g = h
      BY <2>3
    <2> HIDE DEF g
    <2>5. IsLoop(g, s, n + 1)
      BY <2>4 DEF IsLoop
    <2>6. QED
      BY <2>5
  <1> HIDE DEF S
  <1>3. N \in S
    BY <1>1, <1>2, NatInd
  <1>4. QED
    BY <1>3 DEF S

\* What the loop keeps is a log, and no issue is left out.
LEMMA IssuesAreKept ==
  ASSUME NEW s \in Seq(Entries)
  PROVE  /\ IssuesOf(s) \in Seq(Entries)
         /\ \A i \in 1 .. Len(s) : IsIssue(s[i]) =>
              \E j \in 1 .. Len(IssuesOf(s)) : IssuesOf(s)[j] = s[i]
  <1> DEFINE f == CHOOSE f : IsLoop(f, s, Len(s))
             Kept(n) == \A i \in 1 .. n : IsIssue(s[i]) =>
                          \E j \in 1 .. Len(f[n]) : f[n][j] = s[i]
             S == {n \in Nat : n <= Len(s) => f[n] \in Seq(Entries) /\ Kept(n)}
  <1>1. PICK N \in Nat : N = Len(s)
    OBVIOUS
  <1>2. IsLoop(f, s, N)
    BY <1>1, LoopExists
  <1>3. IssuesOf(s) = f[N]
    BY <1>1, Zenon DEF IssuesOf, IsLoop, KeepNext
  <1> HIDE DEF f
  <1>4. /\ f[0] = <<>>
        /\ \A n \in 1 .. N : f[n] = KeepNext(s, f[n - 1], n)
    BY <1>2 DEF IsLoop
  <1>5. 0 \in S
    <2>1. f[0] \in Seq(Entries)
      BY <1>4
    <2>2. \A i \in 1 .. 0 : FALSE
      OBVIOUS
    <2>3. QED
      BY <2>1, <2>2
  <1>6. ASSUME NEW n \in Nat, n \in S PROVE n + 1 \in S
    <2> SUFFICES ASSUME n + 1 <= N
                 PROVE  f[n + 1] \in Seq(Entries) /\ Kept(n + 1)
      BY <1>1
    <2>1. f[n] \in Seq(Entries) /\ Kept(n)
      BY <1>1, <1>6
    <2>2. f[n + 1] = KeepNext(s, f[n], n + 1) /\ s[n + 1] \in Entries
      <3>1. n + 1 \in 1 .. N /\ (n + 1) - 1 = n
        OBVIOUS
      <3>2. QED
        BY <1>1, <1>4, <3>1
    <2>3. PICK t \in Seq(Entries), m \in Nat : t = f[n] /\ m = Len(t)
      BY <2>1
    <2>4. \A i \in 1 .. n + 1 : i \in 1 .. n \/ i = n + 1
      OBVIOUS
    <2>5. CASE IsIssue(s[n + 1])
      <3>1. /\ f[n + 1] = Append(t, s[n + 1])
            /\ Len(f[n + 1]) = m + 1 /\ f[n + 1] \in Seq(Entries)
            /\ f[n + 1][m + 1] = s[n + 1]
            /\ \A j \in 1 .. m : f[n + 1][j] = t[j]
        BY <2>2, <2>3, <2>5 DEF KeepNext
      <3>2. ASSUME NEW i \in 1 .. n, IsIssue(s[i])
            PROVE  \E j \in 1 .. Len(f[n + 1]) : f[n + 1][j] = s[i]
        <4>1. PICK j \in 1 .. m : t[j] = s[i]
          BY <2>1, <2>3, <3>2
        <4>2. j \in 1 .. m + 1
          OBVIOUS
        <4>3. QED
          BY <3>1, <4>1, <4>2
      <3>3. m + 1 \in 1 .. Len(f[n + 1])
        BY <3>1
      <3>4. QED
        BY <2>4, <3>1, <3>2, <3>3
    <2>6. CASE ~IsIssue(s[n + 1])
      <3>1. f[n + 1] = f[n]
        BY <2>2, <2>6 DEF KeepNext
      <3>2. QED
        BY <2>1, <2>4, <2>6, <3>1
    <2>7. QED
      BY <2>5, <2>6
  <1> HIDE DEF S
  <1>7. N \in S
    BY <1>5, <1>6, NatInd
  <1>8. QED
    BY <1>1, <1>3, <1>7 DEF S

-----------------------------------------------------------------------------
(* What the client can rely on.                                            *)

\* The fields of a frame that tells of a failure.
LEMMA FailureFields ==
  ASSUME NEW code, NEW steps
  PROVE  /\ CommitFailure(code, steps).code = code
         /\ CommitFailure(code, steps).details = log
         /\ CommitFailure(code, steps).truncated = truncated
  BY DEF CommitFailure, Bare

LEMMA OtherCodes ==
  /\ \A code : Bare(code).code = code
  /\ Success.code = "result" /\ NoFrame.code = None
  BY DEF Bare, Success, NoFrame

\* COMMIT_PREPARE_FAILED is told of untouched systems only
\* (confirm_install.cc:113-126, confirm_remove.cc:75-101).
THEOREM PrepareFailedIsClean == Spec => []PrepareFailedTouchedNothing
  <1>1. ReportInv => PrepareFailedTouchedNothing
    BY FailureFields, OtherCodes DEF ReportInv, TouchInv, FrameInv, FrameOfThrown,
       FrameOfReturned, PrepareFailedTouchedNothing, None
  <1>2. QED
    BY <1>1, Inductive, PTL

\* The step for which commit() gave up is named, however much output was flushed
\* on top of its Error into the bounded log (commitfailurelog.cc, callbacks.cc).
THEOREM CulpritIsNamed == Spec => []FailureNamesItsCulprit
  <1>1. ASSUME ReportInv, Told, culprit # None, ~KeyError
        PROVE  frame = CommitFailure("COMMIT_FAILED", {}) /\ Named(culprit)
    <2>1. pc = "reported" /\ threw /\ Named(culprit)
      BY <1>1, OtherCodes DEF ReportInv, FrameInv, CulpritInv, Told
    <2>2. HasErrors
      BY <2>1 DEF Named, HasErrors
    <2>3. QED
      BY <1>1, <2>1, <2>2 DEF ReportInv, FrameInv, FrameOfThrown
  <1>2. ReportInv => FailureNamesItsCulprit
    BY <1>1, FailureFields DEF FailureNamesItsCulprit, Named
  <1>3. QED
    BY <1>2, Inductive, PTL

\* Buffered rpm output is reported for the step that wrote it
\* (pushPending, flushPending and the finish handlers of callbacks.cc).
THEOREM OutputIsAttributed == Spec => []DetailsBelongToTheirStep
  <1>1. ReportInv => DetailsBelongToTheirStep
    BY DEF ReportInv
  <1>2. QED
    BY <1>1, Inductive, PTL

\* A failure frame calls itself truncated exactly if an entry was lost
\* (CommitFailureLog::record).
THEOREM LossIsTold == Spec => []LossIsAnnounced
  <1>1. ReportInv => LossIsAnnounced
    BY FailureFields, OtherCodes DEF ReportInv, LogInv, FrameInv, FrameOfThrown,
       FrameOfReturned, LossIsAnnounced, Told, None
  <1>2. QED
    BY <1>1, Inductive, PTL

\* Every state and every frame, the answer to the client included, is of its type.
THEOREM Typed == Spec => []TypeOK
  <1>1. NoFrame \in Frames /\ \A code \in {"KEY_NOT_TRUSTED", "EXCEPTION"} : Bare(code) \in Frames
    BY DEF NoFrame, Bare, Frames
  <1>2. ASSUME ReportInv PROVE Success \in Frames
    <2>1. IssuesOf(log) \in Seq(Entries)
      BY <1>2, IssuesAreKept DEF ReportInv, StateOK
    <2>2. QED
      BY <2>1 DEF Success, Frames
  <1>3. ASSUME ReportInv,
               NEW code \in {"COMMIT_FAILED", "COMMIT_PREPARE_FAILED"}, NEW steps \in SUBSET Steps
        PROVE  CommitFailure(code, steps) \in Frames
    BY <1>3 DEF ReportInv, StateOK, CommitFailure, Failed, Frames
  <1>4. ReportInv => frame \in Frames
    BY <1>1, <1>2, <1>3 DEF ReportInv, FrameInv, FrameOfThrown, FrameOfReturned
  <1>5. ReportInv => TypeOK
    BY <1>4 DEF ReportInv, TypeOK
  <1>6. QED
    BY <1>5, Inductive, PTL

-----------------------------------------------------------------------------
(* Scriptlet failures.                                                     *)

\* As long as the log lost nothing, it holds a warning for every step that had a
\* scriptlet failure.
Warned(owner) ==
  \E i \in 1 .. Len(log) : log[i].package = owner /\ log[i].severity = "warning"
WarnInv == truncated \/ \A owner \in warned : Warned(owner)

\* A log that lost nothing was only added to.
LEMMA RecordAppends ==
  ASSUME StateOK, NEW es \in Seq(Entries), Record(es), ~truncated'
  PROVE  ~truncated /\ log' = log \o es
  <1> DEFINE all == log \o es
  <1>1. all \in Seq(Entries) /\ MaxEntries \in Nat
    BY CapacityAssumption DEF StateOK
  <1>2. ~truncated /\ ~(Len(all) > MaxEntries) /\ log' = Tailing(all, MaxEntries)
    BY DEF Record
  <1>3. QED
    BY <1>1, <1>2 DEF Tailing

\* Every one of the owners has a warning among the entries.
Warns(es, owners) ==
  \A owner \in owners : \E i \in 1 .. Len(es) :
    es[i].package = owner /\ es[i].severity = "warning"

LEMMA WarningsStay ==
  ASSUME StateOK, WarnInv, NEW es \in Seq(Entries), Record(es), NEW new,
         Warns(es, new), warned' = warned \union new
  PROVE  WarnInv'
  <1> SUFFICES ASSUME ~truncated', NEW owner \in warned' PROVE Warned(owner)'
    BY DEF WarnInv
  <1>1. ~truncated /\ log' = log \o es /\ log \in Seq(Entries)
    BY RecordAppends DEF StateOK
  <1>0. PICK a \in Nat, e \in Nat : a = Len(log) /\ e = Len(es)
    BY <1>1
  <1>2. /\ a = Len(log) /\ e = Len(es) /\ Len(log') = a + e
        /\ \A i \in 1 .. a : log'[i] = log[i]
        /\ \A i \in 1 .. e : log'[a + i] = es[i]
    BY <1>0, <1>1
  <1>3. CASE owner \in warned
    <2>1. PICK i \in 1 .. a : log[i].package = owner /\ log[i].severity = "warning"
      BY <1>1, <1>2, <1>3 DEF WarnInv, Warned
    <2>2. i \in 1 .. a + e
      BY <1>2
    <2>3. QED
      BY <1>2, <2>1, <2>2 DEF Warned
  <1>4. CASE owner \in new
    <2>1. PICK i \in 1 .. e : es[i].package = owner /\ es[i].severity = "warning"
      BY <1>2, <1>4 DEF Warns
    <2>2. a + i \in 1 .. a + e
      BY <1>2
    <2>3. QED
      BY <1>2, <2>1, <2>2 DEF Warned
  <1>5. QED
    BY <1>3, <1>4

\* One warning of a step, recorded alone.
LEMMA WarningOfStep ==
  ASSUME NEW owner \in Owners, NEW phase \in Phases
  PROVE  LET es == <<Entry(owner, phase, "warning")>> IN
           es \in Seq(Entries) /\ Warns(es, {owner})
  <1> DEFINE es == <<Entry(owner, phase, "warning")>>
  <1>1. es \in Seq(Entries) /\ Len(es) = 1 /\ es[1] = Entry(owner, phase, "warning")
    BY SingleIsLog DEF Severities
  <1>2. es[1].package = owner /\ es[1].severity = "warning"
    BY <1>1, EntryIsOne DEF Severities
  <1> HIDE DEF es
  <1>3. QED
    BY <1>1, <1>2 DEF es, Warns

LEMMA WarnStep ==
  ASSUME ReportInv, WarnInv, [Next]_vars
  PROVE  WarnInv'
  <1> USE DEF ReportInv
  <1>1. CASE UNCHANGED <<logger, warned>>
    BY <1>1 DEF WarnInv, Warned, logger
  <1>2. ASSUME NEW es \in Seq(Entries), Record(es), UNCHANGED warned PROVE WarnInv'
    <2>1. warned' = warned \union {} /\ Warns(es, {})
      BY <1>2 DEF Warns
    <2>2. QED
      BY <1>2, <2>1, WarningsStay
  <1>3. ASSUME NEW owner \in Owners, NEW phase \in Phases,
               Record(<<Entry(owner, phase, "warning")>>), warned' = warned \union {owner}
        PROVE  WarnInv'
    <2>1. PICK es \in Seq(Entries) : Record(es) /\ Warns(es, {owner})
      BY <1>3, WarningOfStep
    <2>2. QED
      BY <1>3, <2>1, WarningsStay
  <1>4. CASE PreloadFinish
    <2>1. <<Entry(Whole, "preload", "error")>> \in Seq(Entries)
      BY SingleIsLog DEF Owners, Phases, Severities
    <2>2. QED
      BY <1>1, <1>2, <1>4, <2>1 DEF PreloadFinish
  <1>5. ASSUME NEW s \in Steps, DownloadProblem(s) PROVE WarnInv'
    <2>1. PICK n \in 1 .. 2 : Record(Repeat(n, s, "download", "error"))
      BY <1>5 DEF DownloadProblem, Repeat
    <2>2. PICK es : Record(es) /\ IsRepeat(es, n, s, "error")
      BY <2>1, RepeatIsLog DEF Owners, Phases, Severities
    <2>3. QED
      BY <1>2, <1>5, <2>2 DEF DownloadProblem, IsRepeat
  <1>6. ASSUME Reporting
        PROVE report.step \in Owners /\ PhaseOf(report.recv) \in Phases
    BY <1>6, PhaseIsOne DEF StateOK, OwnerInv, Reporting, Reports
  <1>7. CASE ScriptletLine
    BY <1>3, <1>6, <1>7 DEF ScriptletLine
  <1>8. CASE LogLine
    <2>1. Whole \in Owners /\ "transaction" \in Phases /\ "error" \in Severities
      BY DEF Owners, Phases, Severities
    <2>2. <<Entry(Whole, "transaction", "error")>> \in Seq(Entries)
      BY <2>1, SingleIsLog
    <2>3. QED
      BY <1>2, <1>3, <1>8, <2>1, <2>2 DEF LogLine
  <1>9. CASE FinishWarn
    <2>1. "script" \in Phases
      BY DEF Phases
    <2>2. QED
      BY <1>3, <1>6, <1>9, <2>1 DEF FinishWarn
  <1>10. CASE ClassicStepFails \/ SAStepFails \/ ScriptFails \/ PhaseFails \/ CleanupFails
    <2>1. PICK n \in 0 .. 2 : CloseFailed(n)
      BY <1>10 DEF ClassicStepFails, SAStepFails, ScriptFails, PhaseFails, CleanupFails
    <2>2. Reporting
      BY <1>10 DEF ClassicStepFails, SAStepFails, ScriptFails, PhaseFails, CleanupFails,
         Reporting, NoReport, Classic, None
    <2>3. Record(FailureEntries(n)) /\ UNCHANGED warned
      BY <2>1 DEF CloseFailed, FailureEntries
    <2>4. FailureEntries(n) \in Seq(Entries)
      BY <2>2, FailureIsLog
    <2>5. QED
      BY <1>2, <2>3, <2>4
  <1>11. CASE RejectKey \/ BeginTransaction \/ CommitReturns \/ CommitThrows
    BY <1>1, <1>11 DEF RejectKey, BeginTransaction, CommitReturns, CommitThrows
  <1>12. CASE \/ \E s \in Steps : StartStep(s) \/ StartCleanup(s)
              \/ \E owner \in Owners : StartScript(owner)
              \/ StartPhase
    BY <1>1, <1>12 DEF StartStep, StartCleanup, StartScript, StartPhase, Open
  <1>13. CASE RoutineLine \/ FinishOk \/ ReportEnd
    BY <1>1, <1>13 DEF RoutineLine, FinishOk, ReportEnd
  <1>14. CASE ReportThrown \/ ReportReturned
    BY <1>1, <1>14 DEF ReportThrown, ReportReturned, Tell
  <1>15. CASE Over \/ UNCHANGED vars
    BY <1>1, <1>15 DEF Over, vars, logger
  <1>16. QED
    BY <1>4, <1>5, <1>7, <1>8, <1>9, <1>10, <1>11, <1>12, <1>13, <1>14, <1>15 DEF Next

\* A scriptlet that failed in a transaction that otherwise went well is told as a
\* warning of its package, unless the log overflowed
\* (commitIssuesToJson, McpCommitScriptSAReceive::finish, pushPending's callers).
THEOREM ScriptletsAreTold == Spec => []ScriptletFailuresAreReported
  <1>1. Init => WarnInv
    BY DEF Init, WarnInv
  <1>2. ASSUME ReportInv, WarnInv, Told, frame.code = "result", ~truncated,
               NEW owner \in warned
        PROVE  \E j \in 1 .. Len(frame.details) :
                 frame.details[j].package = owner /\ frame.details[j].severity = "warning"
    <2>1. PICK i \in 1 .. Len(log) : log[i].package = owner /\ log[i].severity = "warning"
      BY <1>2 DEF WarnInv, Warned
    <2>2. frame.details = IssuesOf(log)
      <3>1. frame = Success
        BY <1>2, FailureFields, OtherCodes DEF ReportInv, FrameInv, FrameOfThrown,
           FrameOfReturned, None
      <3>2. QED
        BY <3>1 DEF Success
    <2>3. IsIssue(log[i])
      BY <2>1 DEF IsIssue
    <2>4. log \in Seq(Entries)
      BY <1>2 DEF ReportInv, StateOK
    <2>5. PICK j \in 1 .. Len(IssuesOf(log)) : IssuesOf(log)[j] = log[i]
      BY <2>3, <2>4, IssuesAreKept
    <2>6. QED
      BY <2>1, <2>2, <2>5
  <1>3. ReportInv /\ WarnInv => ScriptletFailuresAreReported
    BY <1>2 DEF ScriptletFailuresAreReported
  <1>4. ReportInv /\ WarnInv /\ [Next]_vars => WarnInv'
    BY WarnStep
  <1>5. QED
    BY <1>1, <1>3, <1>4, Inductive, PTL DEF Spec
==============================================================================

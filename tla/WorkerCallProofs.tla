-------------------------- MODULE WorkerCallProofs --------------------------
(***************************************************************************)
(* What holds of a call of a worker, its cancellation, its polls and its    *)
(* questions, for every set of packages and every pipe capacity.            *)
(***************************************************************************)
EXTENDS WorkerCall, TLAPS

\* The pipes stay sequences when a frame is taken out of them.
LEMMA PipeTypes ==
  ASSUME NEW S, NEW q \in Seq(S)
  PROVE  /\ <<>> \in Seq(S)
         /\ q # <<>> => Head(q) \in S /\ Tail(q) \in Seq(S)
  OBVIOUS

\* Writing a frame and reading a reply keep the pipes' types.
LEMMA EmitTypes ==
  ASSUME TypeOK, NEW f \in Frames, Emit(f)
  PROVE  stdout' \in Seq(Frames)
  <1>1. stdout \in Seq(Frames) BY DEF TypeOK
  <1>2. Append(stdout, f) \in Seq(Frames) BY <1>1
  <1>3. QED BY <1>1, <1>2 DEF Emit

LEMMA DropReplyTypes ==
  ASSUME TypeOK, DropReply
  PROVE  stdin' \in Seq(Replies)
  <1>1. stdin \in Seq(Replies) BY DEF TypeOK
  <1>2. QED BY <1>1, PipeTypes DEF DropReply

LEMMA FrameNames ==
  /\ "progress" \in Frames /\ "elicitation" \in Frames
  /\ "commitActive" \in Frames /\ "commitFinished" \in Frames
  /\ "result" \in Frames /\ "error" \in Frames
  BY DEF Frames, Finals

\* Type correctness: every variable of the call keeps its type.
THEOREM TypeCorrect == Spec => []TypeOK
<1>1. Init => TypeOK
  <2> SUFFICES ASSUME Init PROVE TypeOK
    OBVIOUS
  <2>1. stdin \in Seq(Replies) /\ stdout \in Seq(Frames)
    BY DEF Init
  <2>2. /\ signalled \in SUBSET {"term", "kill"}
        /\ fetched \in SUBSET Packages /\ installed \in SUBSET Packages
        /\ rejected \in SUBSET Packages /\ asking \in SUBSET Packages
    BY DEF Init
  <2>3. QED
    BY <2>1, <2>2 DEF Init, TypeOK, LoopStates, WatcherStates, WorkerStates,
         Fates, Causes, Replies, Acks, Answers, Finals
<1>2. TypeOK /\ [Next]_vars => TypeOK'
  <2> SUFFICES ASSUME TypeOK, [Next]_vars PROVE TypeOK'
    OBVIOUS
  <2> USE DEF TypeOK, LoopStates, WatcherStates, WorkerStates, Fates, Causes,
              Replies, Acks, Answers, Frames, Finals, proxyVars, pipeVars,
              workerVars, Running
  <2>1. CASE InstallHandler BY <2>1 DEF InstallHandler
  <2>2. CASE Refuse BY <2>2 DEF Refuse, StopCommit
  <2>3. CASE StartCommit BY <2>3 DEF StartCommit
  <2>4. ASSUME NEW p \in Packages, Download(p) PROVE TypeOK'
    <3> HIDE DEF Frames, Replies, Finals
    <3>1. stdout' \in Seq(Frames)
      BY <2>4, EmitTypes, FrameNames DEF Download
    <3>2. fetched' \in SUBSET Packages BY <2>4 DEF Download
    <3>3. QED BY <2>4, <3>1, <3>2 DEF Download, StopCommit
  <2>5. ASSUME NEW p \in Packages, Elicit(p) PROVE TypeOK'
    <3> HIDE DEF Frames, Replies, Finals
    <3>1. stdout' \in Seq(Frames) BY <2>5, EmitTypes, FrameNames DEF Elicit
    <3>2. /\ fetched' \in SUBSET Packages /\ rejected' \in SUBSET Packages
          /\ asking' \in SUBSET Packages
      BY <2>5 DEF Elicit
    <3>3. wpc' \in WorkerStates /\ cause' \in Causes
      BY <2>5 DEF Elicit, StopCommit
    <3>4. UNCHANGED <<proxyVars, stdin, fate, gCancelled, pastPonr, asNeeded,
                      installed>>
      BY <2>5 DEF Elicit
    <3> HIDE DEF Causes, Fates, WorkerStates
    <3>5. QED BY <3>1, <3>2, <3>3, <3>4
  <2>6. ASSUME NEW p \in Packages, InstallStep(p) PROVE TypeOK'
    <3> HIDE DEF Frames, Replies, Finals
    <3>1. stdout' \in Seq(Frames)
      BY <2>6, EmitTypes, FrameNames DEF InstallStep
    <3>2. installed' \in SUBSET Packages BY <2>6 DEF InstallStep
    <3>3. QED BY <2>6, <3>1, <3>2 DEF InstallStep
  <2>7. CASE DownloadFails BY <2>7 DEF DownloadFails, StopCommit
  <2>8. CASE ReadAnswer
    <3> HIDE DEF Frames, Replies, Finals
    <3>1. stdin' \in Seq(Replies) BY <2>8, DropReplyTypes DEF ReadAnswer
    <3>2. /\ fetched' \in SUBSET Packages /\ rejected' \in SUBSET Packages
          /\ asking' \in SUBSET Packages
      BY <2>8 DEF ReadAnswer
    <3>3. wpc' \in WorkerStates /\ cause' \in Causes
      BY <2>8 DEF ReadAnswer, StopCommit
    <3>4. UNCHANGED <<proxyVars, stdout, fate, gCancelled, pastPonr, asNeeded,
                      installed>>
      BY <2>8 DEF ReadAnswer
    <3> HIDE DEF Causes, Fates, WorkerStates
    <3>5. QED BY <3>1, <3>2, <3>3, <3>4
  <2>9. CASE Activate
    <3> HIDE DEF Frames, Replies, Finals
    <3>1. stdout' \in Seq(Frames)
      BY <2>9, EmitTypes, FrameNames DEF Activate
    <3>2. QED BY <2>9, <3>1 DEF Activate
  <2>10. CASE ReadAck
    <3>1. stdin' \in Seq(Replies)
      BY <2>10, DropReplyTypes DEF ReadAck
    <3>2. /\ wpc' \in WorkerStates /\ cause' \in Causes
          /\ pastPonr' \in BOOLEAN
      BY <2>10 DEF ReadAck, StopCommit
    <3>3. UNCHANGED <<proxyVars, stdout, fate, gCancelled, asNeeded, fetched,
                      installed, rejected, asking>>
      BY <2>10 DEF ReadAck
    <3> HIDE DEF Frames, Replies, Finals, Causes, Fates, WorkerStates
    <3>4. QED BY <3>1, <3>2, <3>3
  <2>11. CASE InstallFails
    <3> HIDE DEF Frames, Replies, Finals
    <3>1. stdout' \in Seq(Frames)
      BY <2>11, EmitTypes, FrameNames DEF InstallFails
    <3>2. QED BY <2>11, <3>1 DEF InstallFails, StopCommit
  <2>12. CASE FinishCommit
    <3> HIDE DEF Frames, Replies, Finals
    <3>1. stdout' \in Seq(Frames)
      BY <2>12, EmitTypes, FrameNames DEF FinishCommit
    <3>2. QED BY <2>12, <3>1 DEF FinishCommit
  <2>13. CASE Report
    <3> HIDE DEF Frames, Replies, Finals
    <3>1. stdout' \in Seq(Frames)
      BY <2>13, EmitTypes, FrameNames DEF Report
    <3>2. QED BY <2>13, <3>1 DEF Report
  <2>14. CASE Exit BY <2>14 DEF Exit
  <2>15. CASE LoopReceive BY <2>15 DEF LoopReceive, LoopReady, Frame
  <2>16. CASE LoopDecide BY <2>16 DEF LoopDecide, LoopReady, Frame
  <2>17. CASE LoopLatch BY <2>17 DEF LoopLatch
  <2>18. CASE LoopElicit BY <2>18 DEF LoopElicit, LoopReady, Frame
  <2>19. CASE ElicitCancelled BY <2>19 DEF ElicitCancelled
  <2>20. CASE LoopReply BY <2>20 DEF LoopReply
  <2>21. CASE LoopEof BY <2>21 DEF LoopEof
  <2>22. CASE InvokeReturns BY <2>22 DEF InvokeReturns
  <2>23. CASE HumanAnswers BY <2>23 DEF HumanAnswers
  <2>24. CASE WatcherWake BY <2>24 DEF WatcherWake
  <2>25. CASE WatcherTerminate BY <2>25 DEF WatcherTerminate, DeliverSigterm
  <2>26. CASE WatcherSeesDone BY <2>26 DEF WatcherSeesDone
  <2>27. CASE GraceExpires BY <2>27 DEF GraceExpires
  <2>28. CASE WatcherRecheck BY <2>28 DEF WatcherRecheck
  <2>29. CASE WatcherKill BY <2>29 DEF WatcherKill
  <2>30. CASE ClientCancels BY <2>30 DEF ClientCancels
  <2>31. CASE StrangerTerminates
    BY <2>31 DEF StrangerTerminates, DeliverSigterm
  <2>32. CASE WorkerCrashes BY <2>32 DEF WorkerCrashes
  <2>33. CASE ProxyDies
    <3>1. stdout' \in Seq(Frames)
      BY <2>33, PipeTypes DEF ProxyDies
    <3>2. UNCHANGED <<stdin, workerVars>> /\ proxyUp' \in BOOLEAN
      BY <2>33 DEF ProxyDies
    <3>3. UNCHANGED <<ctxCancelled, stillCancellable, mu, loop, reply,
                      watcher, lastResult, returned, signalled>>
      BY <2>33 DEF ProxyDies
    <3> HIDE DEF Frames, Replies, Finals, Causes, Fates, WorkerStates
    <3>4. QED BY <3>1, <3>2, <3>3
  <2>34. CASE WorkerSigpipe BY <2>34 DEF WorkerSigpipe
  <2>35. CASE UNCHANGED vars BY <2>35 DEF vars
  <2>36. QED
    BY <2>1, <2>2, <2>3, <2>4, <2>5, <2>6, <2>7, <2>8, <2>9, <2>10, <2>11,
       <2>12, <2>13, <2>14, <2>15, <2>16, <2>17, <2>18, <2>19, <2>20, <2>21,
       <2>22, <2>23, <2>24, <2>25, <2>26, <2>27, <2>28, <2>29, <2>30, <2>31,
       <2>32, <2>33, <2>34, <2>35
       DEF Next, WorkerStep, LoopStep, WatcherStep, Over
<1>3. QED BY <1>1, <1>2, PTL DEF Spec

-----------------------------------------------------------------------------
\* A frame is in a pipe after a write iff it was there or is the one written,
\* and a frame still there after a read was there before it.
LEMMA InPipeAppend ==
  ASSUME NEW S, NEW q \in Seq(S), NEW f \in S, NEW g \in S
  PROVE  InPipe(f, Append(q, g)) <=> InPipe(f, q) \/ f = g
  BY DEF InPipe

LEMMA InPipeTail ==
  ASSUME NEW S, NEW q \in Seq(S), q # <<>>, NEW f \in S
  PROVE  /\ InPipe(f, Tail(q)) => InPipe(f, q)
         /\ InPipe(Head(q), q)
  BY DEF InPipe

LEMMA InPipeEmpty == \A f : ~InPipe(f, <<>>)
  BY DEF InPipe

\* Reading a reply adds nothing to the pipe, and an acknowledgement that is
\* read was in it.
LEMMA DropReplyKeeps ==
  ASSUME TypeOK, DropReply
  PROVE  /\ InPipe("ackTrue", stdin') => InPipe("ackTrue", stdin)
         /\ NextReply = "ackTrue" => InPipe("ackTrue", stdin)
  <1>0. stdin \in Seq(Replies) /\ "ackTrue" \in Replies
    BY DEF TypeOK, Replies, Acks
  <1>1. CASE stdin = <<>>
    BY <1>1 DEF DropReply, NextReply
  <1>2. CASE stdin # <<>>
    BY <1>0, <1>2, InPipeTail DEF DropReply, NextReply
  <1>3. QED BY <1>1, <1>2

\* LatchInv is inductive: the loop acknowledges only what it has latched.
LEMMA LatchInvStep == TypeOK /\ LatchInv /\ [Next]_vars => LatchInv'
  <1> SUFFICES ASSUME TypeOK, LatchInv, [Next]_vars PROVE LatchInv'
    OBVIOUS
  <1> USE DEF LatchInv, TypeOK, proxyVars, pipeVars, workerVars, Running
  <1>0. "ackTrue" \in Replies
    BY DEF Replies, Acks
  <1>1. CASE InstallHandler
    BY <1>1 DEF InstallHandler
  <1>2. CASE Refuse
    BY <1>2 DEF Refuse, StopCommit
  <1>3. CASE StartCommit
    BY <1>3 DEF StartCommit
  <1>4. ASSUME NEW p \in Packages, Download(p) PROVE LatchInv'
    BY <1>4 DEF Download, Emit, StopCommit
  <1>5. ASSUME NEW p \in Packages, Elicit(p) PROVE LatchInv'
    BY <1>5 DEF Elicit, Emit, StopCommit
  <1>6. ASSUME NEW p \in Packages, InstallStep(p) PROVE LatchInv'
    BY <1>6 DEF InstallStep, Emit
  <1>7. CASE DownloadFails
    BY <1>7 DEF DownloadFails, StopCommit
  <1>8. CASE ReadAnswer
    <2>1. InPipe("ackTrue", stdin') => InPipe("ackTrue", stdin)
      BY <1>8, DropReplyKeeps DEF ReadAnswer
    <2>2. UNCHANGED <<proxyVars, pastPonr>>
      BY <1>8 DEF ReadAnswer
    <2>3. QED BY <2>1, <2>2
  <1>9. CASE Activate
    BY <1>9 DEF Activate, Emit
  <1>10. CASE ReadAck
    <2>1. /\ InPipe("ackTrue", stdin') => InPipe("ackTrue", stdin)
          /\ NextReply = "ackTrue" => InPipe("ackTrue", stdin)
      BY <1>10, DropReplyKeeps DEF ReadAck
    <2>2. /\ UNCHANGED proxyVars
          /\ pastPonr' => pastPonr \/ NextReply = "ackTrue"
      BY <1>10 DEF ReadAck
    <2>3. QED BY <2>1, <2>2
  <1>11. CASE InstallFails
    BY <1>11 DEF InstallFails, Emit, StopCommit
  <1>12. CASE FinishCommit
    BY <1>12 DEF FinishCommit, Emit
  <1>13. CASE Report
    BY <1>13 DEF Report, Emit
  <1>14. CASE Exit
    BY <1>14 DEF Exit
  <1>15. CASE LoopReceive
    BY <1>15 DEF LoopReceive, LoopReady, Frame
  <1>16. CASE LoopDecide
    BY <1>16 DEF LoopDecide, LoopReady, Frame
  <1>17. CASE LoopLatch
    BY <1>17 DEF LoopLatch
  <1>18. CASE LoopElicit
    BY <1>18 DEF LoopElicit, LoopReady, Frame
  <1>19. CASE ElicitCancelled
    BY <1>19 DEF ElicitCancelled
  <1>20. CASE LoopReply
    <2>1. InPipe("ackTrue", stdin')
            => InPipe("ackTrue", stdin) \/ reply = "ackTrue"
      BY <1>0, <1>20, InPipeAppend DEF LoopReply
    <2>2. QED BY <2>1, <1>20 DEF LoopReply
  <1>21. CASE LoopEof
    BY <1>21 DEF LoopEof
  <1>22. CASE InvokeReturns
    BY <1>22 DEF InvokeReturns
  <1>23. CASE HumanAnswers
    BY <1>23 DEF HumanAnswers
  <1>24. CASE WatcherWake
    BY <1>24 DEF WatcherWake
  <1>25. CASE WatcherTerminate
    BY <1>25 DEF WatcherTerminate, DeliverSigterm
  <1>26. CASE WatcherSeesDone
    BY <1>26 DEF WatcherSeesDone
  <1>27. CASE GraceExpires
    BY <1>27 DEF GraceExpires
  <1>28. CASE WatcherRecheck
    BY <1>28 DEF WatcherRecheck
  <1>29. CASE WatcherKill
    BY <1>29 DEF WatcherKill
  <1>30. CASE ClientCancels
    BY <1>30 DEF ClientCancels
  <1>31. CASE StrangerTerminates
    BY <1>31 DEF StrangerTerminates, DeliverSigterm
  <1>32. CASE WorkerCrashes
    BY <1>32 DEF WorkerCrashes
  <1>33. CASE ProxyDies
    BY <1>33 DEF ProxyDies
  <1>34. CASE WorkerSigpipe
    BY <1>34 DEF WorkerSigpipe
  <1>35. CASE UNCHANGED vars
    BY <1>35 DEF vars
  <1>36. QED
    BY <1>1, <1>2, <1>3, <1>4, <1>5, <1>6, <1>7, <1>8, <1>9, <1>10, <1>11,
       <1>12, <1>13, <1>14, <1>15, <1>16, <1>17, <1>18, <1>19,
       <1>20, <1>21, <1>22, <1>23, <1>24, <1>25, <1>26, <1>27,
       <1>28, <1>29, <1>30, <1>31, <1>32, <1>33, <1>34, <1>35
       DEF Next, WorkerStep, LoopStep, WatcherStep, Over

-----------------------------------------------------------------------------
\* WatcherInv is inductive given LatchInv: the watcher looks at the latch only
\* outside the loop's critical section, and a call that is cancelled with the
\* latch open stays so.
LEMMA WatcherInvStep ==
  TypeOK /\ LatchInv /\ WatcherInv /\ [Next]_vars => WatcherInv'
  <1> SUFFICES ASSUME TypeOK, LatchInv, WatcherInv, [Next]_vars
               PROVE  WatcherInv'
    OBVIOUS
  <1> USE DEF LatchInv, WatcherInv, CallPhase, TypeOK, proxyVars, pipeVars,
              workerVars, Running
  <1>1. CASE InstallHandler
    BY <1>1 DEF InstallHandler
  <1>2. CASE Refuse
    BY <1>2 DEF Refuse, StopCommit
  <1>3. CASE StartCommit
    BY <1>3 DEF StartCommit
  <1>4. ASSUME NEW p \in Packages, Download(p) PROVE WatcherInv'
    BY <1>4 DEF Download, Emit, StopCommit
  <1>5. ASSUME NEW p \in Packages, Elicit(p) PROVE WatcherInv'
    BY <1>5 DEF Elicit, Emit, StopCommit
  <1>6. ASSUME NEW p \in Packages, InstallStep(p) PROVE WatcherInv'
    BY <1>6 DEF InstallStep, Emit
  <1>7. CASE DownloadFails
    BY <1>7 DEF DownloadFails, StopCommit
  <1>8. CASE ReadAnswer
    BY <1>8 DEF ReadAnswer, DropReply, StopCommit
  <1>9. CASE Activate
    BY <1>9 DEF Activate, Emit
  <1>10. CASE ReadAck
    BY <1>10 DEF ReadAck, DropReply, NextReply, StopCommit
  <1>11. CASE InstallFails
    BY <1>11 DEF InstallFails, Emit, StopCommit
  <1>12. CASE FinishCommit
    BY <1>12 DEF FinishCommit, Emit
  <1>13. CASE Report
    BY <1>13 DEF Report, Emit
  <1>14. CASE Exit
    BY <1>14 DEF Exit
  <1>15. CASE LoopReceive
    BY <1>15 DEF LoopReceive, LoopReady, Frame
  <1>16. CASE LoopDecide
    BY <1>16 DEF LoopDecide, LoopReady, Frame
  <1>17. CASE LoopLatch
    BY <1>17 DEF LoopLatch
  <1>18. CASE LoopElicit
    BY <1>18 DEF LoopElicit, LoopReady, Frame
  <1>19. CASE ElicitCancelled
    BY <1>19 DEF ElicitCancelled
  <1>20. CASE LoopReply
    BY <1>20 DEF LoopReply
  <1>21. CASE LoopEof
    BY <1>21 DEF LoopEof
  <1>22. CASE InvokeReturns
    BY <1>22 DEF InvokeReturns
  <1>23. CASE HumanAnswers
    BY <1>23 DEF HumanAnswers
  <1>24. CASE WatcherWake
    BY <1>24 DEF WatcherWake
  <1>25. CASE WatcherTerminate
    BY <1>25 DEF WatcherTerminate, DeliverSigterm
  <1>26. CASE WatcherSeesDone
    BY <1>26 DEF WatcherSeesDone
  <1>27. CASE GraceExpires
    BY <1>27 DEF GraceExpires
  <1>28. CASE WatcherRecheck
    BY <1>28 DEF WatcherRecheck
  <1>29. CASE WatcherKill
    BY <1>29 DEF WatcherKill
  <1>30. CASE ClientCancels
    BY <1>30 DEF ClientCancels
  <1>31. CASE StrangerTerminates
    BY <1>31 DEF StrangerTerminates, DeliverSigterm
  <1>32. CASE WorkerCrashes
    BY <1>32 DEF WorkerCrashes
  <1>33. CASE ProxyDies
    BY <1>33 DEF ProxyDies
  <1>34. CASE WorkerSigpipe
    BY <1>34 DEF WorkerSigpipe
  <1>35. CASE UNCHANGED vars
    BY <1>35 DEF vars
  <1>36. QED
    BY <1>1, <1>2, <1>3, <1>4, <1>5, <1>6, <1>7, <1>8, <1>9, <1>10, <1>11,
       <1>12, <1>13, <1>14, <1>15, <1>16, <1>17, <1>18, <1>19,
       <1>20, <1>21, <1>22, <1>23, <1>24, <1>25, <1>26, <1>27,
       <1>28, <1>29, <1>30, <1>31, <1>32, <1>33, <1>34, <1>35
       DEF Next, WorkerStep, LoopStep, WatcherStep, Over

-----------------------------------------------------------------------------
\* A write adds its frame to stdout and nothing else; a read adds nothing.
LEMMA EmitAdds ==
  ASSUME TypeOK, NEW f \in Frames, Emit(f)
  PROVE  InPipe("result", stdout') => InPipe("result", stdout) \/ f = "result"
  <1>1. stdout \in Seq(Frames) /\ "result" \in Frames
    BY DEF TypeOK, Frames, Finals
  <1>2. QED BY <1>1, InPipeAppend DEF Emit

LEMMA ReceiveKeeps ==
  ASSUME TypeOK, LoopReady, stdout' = Tail(stdout)
  PROVE  /\ InPipe("result", stdout') => InPipe("result", stdout)
         /\ Frame = "result" => InPipe("result", stdout)
  <1>1. stdout \in Seq(Frames) /\ "result" \in Frames /\ stdout # <<>>
    BY DEF TypeOK, Frames, Finals, LoopReady
  <1>2. QED BY <1>1, InPipeTail DEF Frame

\* ReportInv is inductive: packages change only in the transaction, and a
\* worker that has written its result only exits.
LEMMA ReportInvStep ==
  TypeOK /\ ReportInv /\ [Next]_vars => ReportInv'
  <1> SUFFICES ASSUME TypeOK, ReportInv, [Next]_vars
               PROVE  ReportInv'
    OBVIOUS
  <1> USE DEF ReportInv, TypeOK, proxyVars, pipeVars, workerVars, Running
  <1>0. {"progress", "elicitation", "commitActive", "commitFinished",
         "result", "error"} \subseteq Frames
    BY DEF Frames, Finals
  <1>1. CASE InstallHandler
    BY <1>1 DEF InstallHandler
  <1>2. CASE Refuse
    BY <1>2 DEF Refuse, StopCommit
  <1>3. CASE StartCommit
    BY <1>3 DEF StartCommit
  <1>4. ASSUME NEW p \in Packages, Download(p) PROVE ReportInv'
    <2>1. InPipe("result", stdout') => InPipe("result", stdout)
      BY <1>0, <1>4, EmitAdds DEF Download
    <2>2. QED BY <2>1, <1>4 DEF Download, Fetching, StopCommit
  <1>5. ASSUME NEW p \in Packages, Elicit(p) PROVE ReportInv'
    <2>1. InPipe("result", stdout') => InPipe("result", stdout)
      BY <1>0, <1>5, EmitAdds DEF Elicit
    <2>2. QED BY <2>1, <1>5 DEF Elicit, Fetching, StopCommit
  <1>6. ASSUME NEW p \in Packages, InstallStep(p) PROVE ReportInv'
    <2>1. InPipe("result", stdout') => InPipe("result", stdout)
      BY <1>0, <1>6, EmitAdds DEF InstallStep
    <2>2. QED BY <2>1, <1>6 DEF InstallStep
  <1>7. CASE DownloadFails
    BY <1>7 DEF DownloadFails, Fetching, StopCommit
  <1>8. CASE ReadAnswer
    BY <1>8 DEF ReadAnswer, StopCommit
  <1>9. CASE Activate
    <2>1. InPipe("result", stdout') => InPipe("result", stdout)
      BY <1>0, <1>9, EmitAdds DEF Activate
    <2>2. QED BY <2>1, <1>9 DEF Activate
  <1>10. CASE ReadAck
    BY <1>10 DEF ReadAck, StopCommit
  <1>11. CASE InstallFails
    <2>1. InPipe("result", stdout') => InPipe("result", stdout)
      BY <1>0, <1>11, EmitAdds DEF InstallFails
    <2>2. QED BY <2>1, <1>11 DEF InstallFails, StopCommit
  <1>12. CASE FinishCommit
    <2>1. InPipe("result", stdout') => InPipe("result", stdout)
      BY <1>0, <1>12, EmitAdds DEF FinishCommit
    <2>2. QED BY <2>1, <1>12 DEF FinishCommit
  <1>13. CASE Report
    <2>1. InPipe("result", stdout')
            => InPipe("result", stdout) \/ (cause = "none" /\ rejected = {})
      BY <1>0, <1>13, EmitAdds DEF Report
    <2>2. QED BY <2>1, <1>13 DEF Report
  <1>14. CASE Exit
    BY <1>14 DEF Exit
  <1>15. CASE LoopReceive
    <2>1. /\ InPipe("result", stdout') => InPipe("result", stdout)
          /\ Frame = "result" => InPipe("result", stdout)
      BY <1>15, ReceiveKeeps DEF LoopReceive
    <2>2. QED BY <2>1, <1>15 DEF LoopReceive
  <1>16. CASE LoopDecide
    <2>1. InPipe("result", stdout') => InPipe("result", stdout)
      BY <1>16, ReceiveKeeps DEF LoopDecide
    <2>2. QED BY <2>1, <1>16 DEF LoopDecide
  <1>17. CASE LoopLatch
    BY <1>17 DEF LoopLatch
  <1>18. CASE LoopElicit
    <2>1. InPipe("result", stdout') => InPipe("result", stdout)
      BY <1>18, ReceiveKeeps DEF LoopElicit
    <2>2. QED BY <2>1, <1>18 DEF LoopElicit
  <1>19. CASE ElicitCancelled
    BY <1>19 DEF ElicitCancelled
  <1>20. CASE LoopReply
    BY <1>20 DEF LoopReply
  <1>21. CASE LoopEof
    BY <1>21 DEF LoopEof
  <1>22. CASE InvokeReturns
    BY <1>22 DEF InvokeReturns
  <1>23. CASE HumanAnswers
    BY <1>23 DEF HumanAnswers
  <1>24. CASE WatcherWake
    BY <1>24 DEF WatcherWake
  <1>25. CASE WatcherTerminate
    BY <1>25 DEF WatcherTerminate, DeliverSigterm
  <1>26. CASE WatcherSeesDone
    BY <1>26 DEF WatcherSeesDone
  <1>27. CASE GraceExpires
    BY <1>27 DEF GraceExpires
  <1>28. CASE WatcherRecheck
    BY <1>28 DEF WatcherRecheck
  <1>29. CASE WatcherKill
    BY <1>29 DEF WatcherKill
  <1>30. CASE ClientCancels
    BY <1>30 DEF ClientCancels
  <1>31. CASE StrangerTerminates
    BY <1>31 DEF StrangerTerminates, DeliverSigterm
  <1>32. CASE WorkerCrashes
    BY <1>32 DEF WorkerCrashes
  <1>33. CASE ProxyDies
    BY <1>33, InPipeEmpty DEF ProxyDies
  <1>34. CASE WorkerSigpipe
    BY <1>34 DEF WorkerSigpipe
  <1>35. CASE UNCHANGED vars
    BY <1>35 DEF vars
  <1>36. QED
    BY <1>1, <1>2, <1>3, <1>4, <1>5, <1>6, <1>7, <1>8, <1>9, <1>10, <1>11,
       <1>12, <1>13, <1>14, <1>15, <1>16, <1>17, <1>18, <1>19,
       <1>20, <1>21, <1>22, <1>23, <1>24, <1>25, <1>26, <1>27,
       <1>28, <1>29, <1>30, <1>31, <1>32, <1>33, <1>34, <1>35
       DEF Next, WorkerStep, LoopStep, WatcherStep, Over

-----------------------------------------------------------------------------
\* The strengthened invariant of the call holds in every reachable state.
THEOREM CallInvCorrect == Spec => []CallInv
<1>1. Init => CallInv
  BY DEF Init, CallInv, LatchInv, WatcherInv, ReportInv, CallPhase, InPipe
<1>2. TypeOK /\ CallInv /\ [Next]_vars => CallInv'
  BY LatchInvStep, WatcherInvStep, ReportInvStep DEF CallInv
<1>3. QED BY <1>1, <1>2, TypeCorrect, PTL DEF Spec

\* The proxy never signals a worker that has entered the rpm transaction: an
\* acknowledged call has latched (LatchInv), a signalled one has not.
THEOREM NeverSignalled == Spec => []TransactionNeverSignalled
<1>1. CallInv => TransactionNeverSignalled
  BY DEF CallInv, LatchInv, WatcherInv, CallPhase, TransactionNeverSignalled
<1>2. QED BY <1>1, CallInvCorrect, PTL

\* The watcher's re-check before SIGKILL can never see another latch value
\* than its first look did, as worker.go:210-224 argues informally.
THEOREM RecheckAgrees == Spec => []RecheckNeverDiffers
<1>1. CallInv => RecheckNeverDiffers
  BY DEF CallInv, WatcherInv, CallPhase, RecheckNeverDiffers
<1>2. QED BY <1>1, CallInvCorrect, PTL

\* Success is reported only for a transaction that was carried out in full and
\* in which no signing key was rejected.
THEOREM Honest == Spec => []ResultIsHonest
<1>1. CallInv => ResultIsHonest
  BY DEF CallInv, ReportInv, ResultIsHonest
<1>2. QED BY <1>1, CallInvCorrect, PTL

-----------------------------------------------------------------------------
\* Every step of the call is a step of the contract or leaves it untouched.
LEMMA ContractStep ==
  TypeOK /\ CallInv /\ [Next]_vars => [Contract!Next]_(Contract!vars)
  <1> SUFFICES ASSUME TypeOK, CallInv, [Next]_vars
               PROVE  [Contract!Next]_(Contract!vars)
    OBVIOUS
  <1> DEFINE Untouched == UNCHANGED <<CallPhase, installed, signalled, returned>>
  <1> USE DEF CallPhase, proxyVars, pipeVars, workerVars, Running
  <1>1. CASE InstallHandler \/ Refuse \/ StartCommit \/ DownloadFails
    <2>1. Untouched
      BY <1>1 DEF InstallHandler, Refuse, StartCommit, DownloadFails
    <2>2. QED BY <2>1 DEF Contract!vars
  <1>2. ASSUME NEW p \in Packages, Download(p) \/ Elicit(p) PROVE Untouched
    BY <1>2 DEF Download, Elicit
  <1>3. CASE ReadAnswer \/ Activate \/ ReadAck
    <2>1. Untouched BY <1>3 DEF ReadAnswer, Activate, ReadAck
    <2>2. QED BY <2>1 DEF Contract!vars
  <1>4. CASE InstallFails \/ FinishCommit \/ Report \/ Exit
    <2>1. Untouched BY <1>4 DEF InstallFails, FinishCommit, Report, Exit
    <2>2. QED BY <2>1 DEF Contract!vars
  <1>5. ASSUME NEW p \in Packages, InstallStep(p) PROVE Contract!Change(p)
    <2>1. CallPhase = "committed"
      BY <1>5 DEF InstallStep, CallInv, LatchInv, ReportInv
    <2>2. /\ installed' = installed \union {p}
          /\ UNCHANGED <<CallPhase, signalled, returned>>
      BY <1>5 DEF InstallStep
    <2>3. QED BY <2>1, <2>2 DEF Contract!Change
  <1>6. CASE LoopReceive \/ LoopElicit \/ ElicitCancelled \/ HumanAnswers
    <2>1. Untouched
      BY <1>6 DEF LoopReceive, LoopElicit, ElicitCancelled, HumanAnswers,
           LoopReady
    <2>2. QED BY <2>1 DEF Contract!vars
  <1>7. CASE LoopDecide
    <2>1. UNCHANGED <<installed, signalled, returned>>
      BY <1>7 DEF LoopDecide
    <2>2. CASE CallPhase = "open"
      <3>1. CallPhase' = "committed"
        BY <1>7, <2>2 DEF LoopDecide, TypeOK
      <3>2. QED BY <2>1, <2>2, <3>1 DEF Contract!Next, Contract!Commit
    <2>3. CASE CallPhase # "open"
      <3>1. CallPhase' = CallPhase
        BY <1>7, <2>3 DEF LoopDecide, LoopReady
      <3>2. QED BY <2>1, <3>1 DEF Contract!vars
    <2>4. QED BY <2>2, <2>3
  <1>8. CASE LoopLatch
    <2>1. Untouched BY <1>8 DEF LoopLatch, TypeOK
    <2>2. QED BY <2>1 DEF Contract!vars
  <1>9. CASE LoopReply \/ LoopEof
    <2>1. Untouched BY <1>9 DEF LoopReply, LoopEof
    <2>2. QED BY <2>1 DEF Contract!vars
  <1>10. CASE InvokeReturns
    <2>1. /\ returned = "no" /\ returned' \in {"result", "error", "failed"}
          /\ returned' = "result" => lastResult = "result"
          /\ UNCHANGED <<CallPhase, installed, signalled>>
      BY <1>10 DEF InvokeReturns, TypeOK, Finals
    <2>2. lastResult = "result" => installed = Packages
      BY DEF CallInv, ReportInv
    <2>3. QED BY <2>1, <2>2 DEF Contract!Next, Contract!Return
  <1>11. CASE WatcherWake \/ WatcherSeesDone \/ GraceExpires \/ WatcherRecheck
    <2>1. Untouched
      BY <1>11 DEF WatcherWake, WatcherSeesDone, GraceExpires, WatcherRecheck
    <2>2. QED BY <2>1 DEF Contract!vars
  <1>12. CASE WatcherTerminate
    <2>1. CallPhase = "cancelled"
      BY <1>12 DEF WatcherTerminate, CallInv, WatcherInv
    <2>2. /\ signalled' = signalled \union {"term"}
          /\ UNCHANGED <<CallPhase, installed, returned>>
      BY <1>12 DEF WatcherTerminate
    <2>3. QED BY <2>1, <2>2 DEF Contract!Next, Contract!Signal
  <1>13. CASE WatcherKill
    <2>1. CallPhase = "cancelled" /\ "term" \in signalled
      BY <1>13 DEF WatcherKill, CallInv, WatcherInv
    <2>2. /\ signalled' = signalled \union {"kill"}
          /\ UNCHANGED <<CallPhase, installed, returned>>
      BY <1>13 DEF WatcherKill
    <2>3. QED BY <2>1, <2>2 DEF Contract!Next, Contract!Signal
  <1>14. CASE ClientCancels
    <2>1. UNCHANGED <<installed, signalled, returned>>
      BY <1>14 DEF ClientCancels
    <2>2. CASE CallPhase = "open"
      <3>1. CallPhase' = "cancelled" BY <1>14, <2>2 DEF ClientCancels
      <3>2. QED BY <2>1, <2>2, <3>1 DEF Contract!Next, Contract!Cancel
    <2>3. CASE CallPhase # "open"
      <3>1. CallPhase' = CallPhase BY <1>14, <2>3 DEF ClientCancels
      <3>2. QED BY <2>1, <3>1 DEF Contract!vars
    <2>4. QED BY <2>2, <2>3
  <1>15. CASE StrangerTerminates \/ WorkerCrashes \/ ProxyDies \/ WorkerSigpipe
    <2>1. Untouched
      BY <1>15 DEF StrangerTerminates, WorkerCrashes, ProxyDies, WorkerSigpipe
    <2>2. QED BY <2>1 DEF Contract!vars
  <1>16. CASE UNCHANGED vars
    <2>1. Untouched BY <1>16 DEF vars
    <2>2. QED BY <2>1 DEF Contract!vars
  <1>17. ASSUME NEW p \in Packages, Download(p) \/ Elicit(p)
         PROVE  [Contract!Next]_(Contract!vars)
    BY <1>2, <1>17 DEF Contract!vars
  <1>18. ASSUME NEW p \in Packages, InstallStep(p)
         PROVE  [Contract!Next]_(Contract!vars)
    BY <1>5, <1>18 DEF Contract!Next
  <1>19. QED
    BY <1>1, <1>3, <1>4, <1>6, <1>7, <1>8, <1>9, <1>10, <1>11, <1>12, <1>13,
       <1>14, <1>15, <1>16, <1>17, <1>18
       DEF Next, WorkerStep, LoopStep, WatcherStep, Over

\* The proxy and the worker together implement CancelContract: a call is
\* cancelled or committed, exclusively and for good.
THEOREM Implements == Spec => ImplementsContract
<1>1. Init => Contract!Init
  BY DEF Init, Contract!Init, CallPhase
<1>2. TypeOK /\ CallInv /\ [Next]_vars => [Contract!Next]_(Contract!vars)
  BY ContractStep
<1>3. QED
  BY <1>1, <1>2, TypeCorrect, CallInvCorrect, PTL
     DEF Spec, ImplementsContract, Contract!Spec

-----------------------------------------------------------------------------
(* Polls.                                                                   *)

LEMMA PollInvStep == ReportInv /\ PollInv /\ [Next]_vars => PollInv'
  <1> SUFFICES ASSUME ReportInv, PollInv, [Next]_vars PROVE PollInv'
    OBVIOUS
  <1> USE DEF PollInv
  <1>1. ASSUME UNCHANGED <<installed, pastPonr, wpc, cause>> PROVE PollInv'
    BY <1>1
  <1>2. CASE LoopStep \/ HumanAnswers \/ WatcherStep \/ ClientCancels
    BY <1>1, <1>2 DEF LoopStep, LoopReceive, LoopDecide, LoopLatch, LoopElicit,
       ElicitCancelled, LoopReply, LoopEof, InvokeReturns, HumanAnswers,
       WatcherStep, WatcherWake, WatcherTerminate, WatcherSeesDone, GraceExpires,
       WatcherRecheck, WatcherKill, ClientCancels, workerVars
  <1>3. CASE \/ StrangerTerminates \/ WorkerCrashes \/ ProxyDies \/ WorkerSigpipe
             \/ Over \/ UNCHANGED vars
    BY <1>1, <1>3 DEF StrangerTerminates, WorkerCrashes, ProxyDies, WorkerSigpipe,
       Over, vars, workerVars
  <1>4. CASE InstallHandler \/ Refuse \/ StartCommit \/ DownloadFails
    BY <1>4 DEF InstallHandler, Refuse, StartCommit, DownloadFails, StopCommit, Fetching
  <1>5. ASSUME NEW p \in Packages, Download(p) \/ Elicit(p) PROVE PollInv'
    BY <1>5 DEF Download, Elicit, ShouldAbortNow, StopCommit, Fetching
  <1>6. ASSUME NEW p \in Packages, InstallStep(p) PROVE PollInv'
    BY <1>6 DEF InstallStep, ReportInv
  <1>7. CASE ReadAnswer \/ Activate \/ ReadAck
    BY <1>7 DEF ReadAnswer, Activate, ReadAck, StopCommit
  <1>8. CASE InstallFails \/ FinishCommit \/ Report \/ Exit
    BY <1>8 DEF InstallFails, FinishCommit, Report, Exit, StopCommit
  <1>9. QED
    BY <1>2, <1>3, <1>4, <1>5, <1>6, <1>7, <1>8 DEF Next, WorkerStep

\* A SIGTERM seen by a poll never ends a transaction that has changed a package,
\* whoever sent it (callbacks.cc:37-50).
THEOREM PollsAreHarmless == Spec => []PollNeverAbortsTransaction
  <1>1. Init => PollInv
    BY DEF Init, PollInv
  <1>2. CallInv => ReportInv
    BY DEF CallInv
  <1>3. PollInv => PollNeverAbortsTransaction
    BY DEF PollInv, PollNeverAbortsTransaction
  <1>4. QED
    BY <1>1, <1>2, <1>3, PollInvStep, CallInvCorrect, PTL DEF Spec

-----------------------------------------------------------------------------
(* Questions in a pipe.                                                     *)

\* A frame that asks nothing changes nothing, a question becomes the last.
LEMMA AppendAsked ==
  ASSUME NEW q \in Seq(Frames), NEW f \in Frames, NoneAsked(q)
  PROVE  /\ f \notin Questions => NoneAsked(Append(q, f))
         /\ f \in Questions => LastAsked(Append(q, f), f)
  BY DEF NoneAsked, LastAsked

LEMMA TailUnasked ==
  ASSUME NEW q \in Seq(Frames), q # <<>>, NoneAsked(q)
  PROVE  NoneAsked(Tail(q)) /\ Head(q) \notin Questions
  BY DEF NoneAsked

\* Behind the question there is nothing, before it nothing is asked.
LEMMA TailAsked ==
  ASSUME NEW q \in Seq(Frames), NEW f \in Questions, LastAsked(q, f)
  PROVE  /\ Head(q) \notin Questions => LastAsked(Tail(q), f)
         /\ Head(q) \in Questions => Head(q) = f /\ NoneAsked(Tail(q))
  <1>0. q # <<>>
    BY DEF LastAsked
  <1>1. PICK n \in Nat : n = Len(q) /\ n >= 1
    BY <1>0
  <1>2. /\ Head(q) = q[1] /\ Tail(q) \in Seq(Frames) /\ Len(Tail(q)) = n - 1
        /\ \A i \in 1 .. n - 1 : Tail(q)[i] = q[i + 1]
    BY <1>0, <1>1
  <1>3. CASE n = 1
    <2>1. Head(q) = f
      BY <1>1, <1>2, <1>3 DEF LastAsked
    <2>2. NoneAsked(Tail(q))
      BY <1>2, <1>3 DEF NoneAsked
    <2>3. QED
      BY <2>1, <2>2
  <1>4. CASE n > 1
    <2>1. Head(q) \notin Questions
      BY <1>1, <1>2, <1>4 DEF LastAsked
    <2>3. LastAsked(Tail(q), f)
      BY <1>1, <1>2, <1>4 DEF LastAsked
    <2>4. QED
      BY <2>1, <2>3
  <1>5. QED
    BY <1>1, <1>3, <1>4

-----------------------------------------------------------------------------
(* The one open question.                                                   *)

Awaiting == {"awaitAck", "awaitAnswer"}

\* A worker that waits for nothing has nothing in its pipe.
LEMMA IdlePipe ==
  ASSUME QuestionInv, Running, wpc \notin Awaiting
  PROVE  stdin = <<>>
  BY DEF QuestionInv, RepliesMatchQuestions, Awaiting

\* Steps that touch neither pipes nor loop nor the worker's place.
LEMMA Elsewhere ==
  ASSUME QuestionInv, UNCHANGED <<stdin, stdout, loop, reply, wpc>>,
         Running' => Running, proxyUp' => proxyUp
  PROVE  QuestionInv'
  BY DEF QuestionInv, RepliesMatchQuestions, NextReply, OpenQuestion, NoneAsked, LastAsked

\* Steps of a worker that asks nothing, before and after.
LEMMA AskingNothing ==
  ASSUME TypeOK, QuestionInv, Running, wpc \notin Awaiting, wpc' \notin Awaiting,
         UNCHANGED <<proxyUp, loop, reply, stdin>>,
         NEW f \in Frames \ Questions, stdout' \in {stdout, Append(stdout, f)}
  PROVE  QuestionInv'
  <1>1. stdin' = <<>>
    BY IdlePipe
  <1>2. proxyUp => NoneAsked(stdout) /\ loop = "reading"
    BY DEF QuestionInv, Awaiting
  <1>3. NoneAsked(stdout) => NoneAsked(stdout')
    BY AppendAsked DEF TypeOK
  <1>4. NoneAsked(stdout') <=> NoneAsked(stdout)'
    BY DEF NoneAsked
  <1>5. QED
    BY <1>1, <1>2, <1>3, <1>4 DEF QuestionInv, RepliesMatchQuestions, Awaiting

\* The frame f goes out and the worker waits at w.
LEMMA AskingOne ==
  ASSUME TypeOK, QuestionInv, Running, wpc \notin Awaiting,
         UNCHANGED <<proxyUp, loop, reply, stdin>>,
         NEW f \in Questions, Emit(f),
         wpc' = IF f = "commitActive" THEN "awaitAck" ELSE "awaitAnswer"
  PROVE  QuestionInv'
  <1>1. stdin = <<>> /\ stdin' = <<>>
    BY IdlePipe
  <1>2. proxyUp => /\ NoneAsked(stdout) /\ loop = "reading"
                   /\ stdout' = Append(stdout, f)
    BY DEF QuestionInv, Awaiting, Emit
  <1>3. proxyUp => LastAsked(stdout', f)
    BY <1>2, AppendAsked DEF TypeOK, Questions, Frames
  <1>4. LastAsked(stdout', f) => LastAsked(stdout, f)'
    BY DEF LastAsked
  <1>5. f \in {"elicitation", "commitActive"}
    BY DEF Questions
  <1>6. RepliesMatchQuestions'
    BY <1>1 DEF RepliesMatchQuestions
  <1>7. proxyUp' /\ wpc' = "awaitAck" => OpenQuestion("commitActive", {"deciding"}, Acks)'
    BY <1>1, <1>2, <1>3, <1>4, <1>5 DEF OpenQuestion
  <1>8. proxyUp' /\ wpc' = "awaitAnswer" => OpenQuestion("elicitation", {"asking"}, Answers)'
    BY <1>1, <1>2, <1>3, <1>4, <1>5 DEF OpenQuestion
  <1>9. wpc' \in {"awaitAck", "awaitAnswer"}
    OBVIOUS
  <1>10. QED
    BY <1>6, <1>7, <1>8, <1>9 DEF QuestionInv

\* The answer is read, and nothing is left.
LEMMA Answered ==
  ASSUME TypeOK, QuestionInv, Running, wpc \in Awaiting, wpc' \notin Awaiting,
         UNCHANGED <<proxyUp, loop, reply, stdout>>, StdinReadable, DropReply
  PROVE  QuestionInv'
  <1>1. Len(stdin) <= 1 /\ stdin \in Seq(Replies)
    BY DEF QuestionInv, RepliesMatchQuestions, TypeOK
  <1>2. stdin' = <<>>
    <2>1. CASE stdin = <<>>
      BY <2>1 DEF DropReply
    <2>2. CASE stdin # <<>>
      BY <1>1, <2>2 DEF DropReply
    <2>3. QED
      BY <2>1, <2>2
  <1>3. proxyUp => NoneAsked(stdout) /\ loop = "reading"
    BY DEF QuestionInv, OpenQuestion, Awaiting, StdinReadable
  <1>4. NoneAsked(stdout) => NoneAsked(stdout)'
    BY DEF NoneAsked
  <1>5. QED
    BY <1>2, <1>3, <1>4 DEF QuestionInv, RepliesMatchQuestions, Awaiting

\* The loop takes a frame: one that asks nothing leaves the question behind it,
\* a question is the one the worker waits for, and the last thing in the pipe.
LEMMA Taken ==
  ASSUME TypeOK, QuestionInv, Running, LoopReady, stdout' = Tail(stdout)
  PROVE  /\ stdin = <<>> \/ (Len(stdin) = 1 /\ Frame \notin Questions)
         /\ Frame \notin Questions =>
              /\ NoneAsked(stdout) => NoneAsked(stdout)'
              /\ \A f \in Questions : LastAsked(stdout, f) => LastAsked(stdout, f)'
         /\ Frame \in Questions =>
              /\ NoneAsked(stdout)'
              /\ wpc = IF Frame = "commitActive" THEN "awaitAck" ELSE "awaitAnswer"
  <1>1. stdout \in Seq(Frames) /\ stdout # <<>> /\ proxyUp /\ loop = "reading"
    BY DEF TypeOK, LoopReady
  <1>2. NoneAsked(stdout) => NoneAsked(Tail(stdout)) /\ Frame \notin Questions
    BY <1>1, TailUnasked DEF Frame
  <1>3. ASSUME NEW f \in Questions, LastAsked(stdout, f)
        PROVE  /\ Frame \notin Questions => LastAsked(Tail(stdout), f)
               /\ Frame \in Questions => Frame = f /\ NoneAsked(Tail(stdout))
    BY <1>1, <1>3, TailAsked DEF Frame, Questions, Frames
  <1>4. /\ NoneAsked(Tail(stdout)) => NoneAsked(stdout)'
        /\ \A f : LastAsked(Tail(stdout), f) => LastAsked(stdout, f)'
    BY DEF NoneAsked, LastAsked
  <1>5. \/ NoneAsked(stdout) /\ (stdin = <<>> \/ Len(stdin) = 1)
        \/ LastAsked(stdout, "commitActive") /\ wpc = "awaitAck" /\ stdin = <<>>
        \/ LastAsked(stdout, "elicitation") /\ wpc = "awaitAnswer" /\ stdin = <<>>
    BY <1>1 DEF QuestionInv, OpenQuestion
  <1>6. "commitActive" \in Questions /\ "elicitation" \in Questions
    BY DEF Questions
  <1>7. QED
    BY <1>2, <1>3, <1>4, <1>5, <1>6

LEMMA ReceiveStep ==
  ASSUME TypeOK, QuestionInv, Running, LoopReceive
  PROVE  QuestionInv'
  <1>1. /\ LoopReady /\ loop = "reading" /\ proxyUp /\ stdout' = Tail(stdout)
        /\ Frame \notin Questions
        /\ UNCHANGED <<stdin, loop, reply, wpc, fate, proxyUp>>
    BY DEF LoopReceive, LoopReady, Questions, Finals, workerVars
  <1>2. /\ NoneAsked(stdout) => NoneAsked(stdout)'
        /\ LastAsked(stdout, "commitActive") => LastAsked(stdout, "commitActive")'
        /\ LastAsked(stdout, "elicitation") => LastAsked(stdout, "elicitation")'
    BY <1>1, Taken DEF Questions
  <1>3. RepliesMatchQuestions'
    BY <1>1 DEF QuestionInv, RepliesMatchQuestions, NextReply
  <1>4. wpc' = "awaitAck" => OpenQuestion("commitActive", {"deciding"}, Acks)'
    BY <1>1, <1>2 DEF QuestionInv, OpenQuestion
  <1>5. wpc' = "awaitAnswer" => OpenQuestion("elicitation", {"asking"}, Answers)'
    BY <1>1, <1>2 DEF QuestionInv, OpenQuestion
  <1>6. QED
    BY <1>1, <1>2, <1>3, <1>4, <1>5 DEF QuestionInv

LEMMA DecideStep ==
  ASSUME TypeOK, QuestionInv, Running, LoopDecide \/ LoopElicit
  PROVE  QuestionInv'
  <1>1. /\ LoopReady /\ proxyUp /\ stdout' = Tail(stdout) /\ Frame \in Questions
        /\ UNCHANGED <<stdin, wpc, fate, proxyUp>>
    BY DEF LoopDecide, LoopElicit, LoopReady, Questions, workerVars
  <1>2. stdin = <<>> /\ NoneAsked(stdout)'
    BY <1>1, Taken
  <1>3. RepliesMatchQuestions'
    BY <1>1, <1>2 DEF RepliesMatchQuestions
  <1>4. CASE LoopDecide
    <2>1. wpc = "awaitAck" /\ loop' = "deciding" /\ reply' \in Acks
      BY <1>1, <1>4, Taken DEF LoopDecide, Acks
    <2>2. OpenQuestion("commitActive", {"deciding"}, Acks)'
      BY <1>1, <1>2, <2>1 DEF OpenQuestion
    <2>3. QED
      BY <1>1, <1>3, <2>1, <2>2 DEF QuestionInv
  <1>5. CASE LoopElicit
    <2>1. wpc = "awaitAnswer"
      BY <1>1, <1>5, Taken DEF LoopElicit
    <2>2. loop' = "asking" \/ (loop' = "replying" /\ reply' \in Answers)
      BY <1>5 DEF LoopElicit, Answers
    <2>3. OpenQuestion("elicitation", {"asking"}, Answers)'
      BY <1>1, <1>2, <2>2 DEF OpenQuestion
    <2>4. QED
      BY <1>1, <1>3, <2>1, <2>3 DEF QuestionInv
  <1>6. QED
    BY <1>4, <1>5

\* The loop, or the human through it, makes up its mind.
LEMMA ResolveStep ==
  ASSUME QuestionInv, Running, LoopLatch \/ HumanAnswers \/ ElicitCancelled
  PROVE  QuestionInv'
  <1>1. /\ proxyUp /\ loop' = "replying"
        /\ UNCHANGED <<pipeVars, wpc, fate, proxyUp>>
        /\ \/ loop = "deciding" /\ reply' = reply
           \/ loop = "asking" /\ reply' \in Answers
    BY DEF LoopLatch, HumanAnswers, ElicitCancelled, workerVars, Answers
  <1>2. /\ NoneAsked(stdout) => NoneAsked(stdout)'
        /\ stdin' = stdin /\ RepliesMatchQuestions'
    BY <1>1 DEF QuestionInv, RepliesMatchQuestions, NextReply, NoneAsked, pipeVars
  <1>3. /\ wpc = "awaitAck" => OpenQuestion("commitActive", {"deciding"}, Acks)'
        /\ wpc = "awaitAnswer" => OpenQuestion("elicitation", {"asking"}, Answers)'
        /\ wpc \in {"awaitAck", "awaitAnswer"}
    BY <1>1, <1>2 DEF QuestionInv, OpenQuestion
  <1>4. QED
    BY <1>1, <1>2, <1>3 DEF QuestionInv

LEMMA ReplyStep ==
  ASSUME TypeOK, QuestionInv, Running, LoopReply
  PROVE  QuestionInv'
  <1>1. /\ proxyUp /\ loop = "replying" /\ loop' = "reading"
        /\ UNCHANGED <<stdout, wpc, fate, proxyUp>>
        /\ stdin' = Append(stdin, reply)
    BY DEF LoopReply, workerVars
  <1>2. /\ stdin = <<>> /\ NoneAsked(stdout)
        /\ \/ wpc = "awaitAck" /\ reply \in Acks
           \/ wpc = "awaitAnswer" /\ reply \in Answers
    BY <1>1 DEF QuestionInv, OpenQuestion
  <1>3. stdin' = <<reply>>
    BY <1>1, <1>2 DEF TypeOK
  <1>4. Len(stdin') = 1 /\ stdin'[1] = reply /\ Head(stdin') = reply /\ stdin' # <<>>
    BY <1>3
  <1>5. NoneAsked(stdout)'
    BY <1>1, <1>2 DEF NoneAsked
  <1>6. RepliesMatchQuestions'
    BY <1>1, <1>2, <1>4 DEF RepliesMatchQuestions, NextReply
  <1>7. /\ wpc = "awaitAck" => OpenQuestion("commitActive", {"deciding"}, Acks)'
        /\ wpc = "awaitAnswer" => OpenQuestion("elicitation", {"asking"}, Answers)'
    BY <1>1, <1>2, <1>4, <1>5 DEF OpenQuestion, Acks, Answers
  <1>8. QED
    BY <1>1, <1>2, <1>6, <1>7 DEF QuestionInv

\* Steps of the worker that ask nothing.
LEMMA QuietStep ==
  ASSUME TypeOK, QuestionInv, Running, wpc \notin Awaiting, wpc' \notin Awaiting,
         UNCHANGED <<proxyVars, stdin>>,
         NEW f \in Frames \ Questions, UNCHANGED stdout \/ Emit(f)
  PROVE  QuestionInv'
  <1>1. stdout' \in {stdout, Append(stdout, f)}
    BY DEF Emit
  <1>2. UNCHANGED <<proxyUp, loop, reply, stdin>>
    BY DEF proxyVars
  <1>3. QED
    BY <1>1, <1>2, AskingNothing

LEMMA WorkerQuestion == TypeOK /\ QuestionInv /\ WorkerStep => QuestionInv'
  <1> SUFFICES ASSUME TypeOK, QuestionInv, WorkerStep PROVE QuestionInv'
    OBVIOUS
  <1> USE DEF Awaiting
  <1>0. /\ Running
        /\ {"progress", "commitFinished", "result", "error"} = Frames \ Questions
    BY DEF WorkerStep, InstallHandler, Refuse, StartCommit, Download, Elicit,
       InstallStep, DownloadFails, ReadAnswer, Activate, ReadAck, InstallFails,
       FinishCommit, Report, Exit, Frames, Questions, Finals
  <1>1. CASE InstallHandler \/ Refuse \/ StartCommit \/ DownloadFails
    <2>1. /\ wpc \notin Awaiting /\ wpc' \notin Awaiting
          /\ UNCHANGED <<proxyVars, stdin>> /\ UNCHANGED stdout
      BY <1>1 DEF InstallHandler, Refuse, StartCommit, DownloadFails, StopCommit,
         Fetching, pipeVars
    <2>2. QED
      BY <1>0, <2>1, QuietStep
  <1>2. ASSUME NEW p \in Packages, Download(p) \/ InstallStep(p) PROVE QuestionInv'
    <2>1. /\ wpc \notin Awaiting /\ wpc' \notin Awaiting
          /\ UNCHANGED <<proxyVars, stdin>> /\ Emit("progress")
      BY <1>2 DEF Download, InstallStep, StopCommit, Fetching
    <2>2. QED
      BY <1>0, <2>1, QuietStep
  <1>3. ASSUME NEW p \in Packages, Elicit(p) PROVE QuestionInv'
    <2>1. CASE ShouldAbortNow
      <3>1. /\ wpc \notin Awaiting /\ wpc' \notin Awaiting
            /\ UNCHANGED <<proxyVars, stdin>> /\ UNCHANGED stdout
        BY <1>3, <2>1 DEF Elicit, StopCommit, Fetching
      <3>2. QED
        BY <1>0, <3>1, QuietStep
    <2>2. CASE ~ShouldAbortNow
      <3>1. /\ wpc \notin Awaiting /\ wpc' = "awaitAnswer"
            /\ UNCHANGED <<proxyUp, loop, reply, stdin>> /\ Emit("elicitation")
        BY <1>3, <2>2 DEF Elicit, Fetching, proxyVars
      <3>2. "elicitation" \in Questions
        BY DEF Questions
      <3>3. QED
        BY <1>0, <3>1, <3>2, AskingOne
    <2>3. QED
      BY <2>1, <2>2
  <1>4. CASE Activate
    <2>1. /\ wpc \notin Awaiting /\ wpc' = "awaitAck"
          /\ UNCHANGED <<proxyUp, loop, reply, stdin>> /\ Emit("commitActive")
      BY <1>4 DEF Activate, proxyVars
    <2>2. "commitActive" \in Questions
      BY DEF Questions
    <2>3. QED
      BY <1>0, <2>1, <2>2, AskingOne
  <1>5. CASE ReadAnswer \/ ReadAck
    <2>1. /\ wpc \in Awaiting /\ wpc' \notin Awaiting
          /\ UNCHANGED <<proxyUp, loop, reply, stdout>> /\ StdinReadable /\ DropReply
      BY <1>5 DEF ReadAnswer, ReadAck, StopCommit, proxyVars
    <2>2. QED
      BY <1>0, <2>1, Answered
  <1>6. CASE InstallFails \/ FinishCommit \/ Report
    <2>1. PICK f \in Frames \ Questions : Emit(f)
      BY <1>0, <1>6 DEF InstallFails, FinishCommit, Report
    <2>2. /\ wpc \notin Awaiting /\ wpc' \notin Awaiting
          /\ UNCHANGED <<proxyVars, stdin>>
      BY <1>6 DEF InstallFails, FinishCommit, Report, StopCommit
    <2>3. QED
      BY <1>0, <2>1, <2>2, QuietStep
  <1>7. CASE Exit
    BY <1>7 DEF Exit, Running, QuestionInv
  <1>8. QED
    BY <1>1, <1>2, <1>3, <1>4, <1>5, <1>6, <1>7 DEF WorkerStep

LEMMA QuestionInvStep == TypeOK /\ QuestionInv /\ [Next]_vars => QuestionInv'
  <1> SUFFICES ASSUME TypeOK, QuestionInv, [Next]_vars PROVE QuestionInv'
    OBVIOUS
  <1>1. ASSUME ~Running' PROVE QuestionInv'
    BY <1>1 DEF QuestionInv
  <1>2. CASE WorkerStep
    BY <1>2, WorkerQuestion
  <1>3. CASE LoopStep \/ HumanAnswers
    <2>1. fate' = fate
      BY <1>3 DEF LoopStep, LoopReceive, LoopDecide, LoopLatch, LoopElicit,
         ElicitCancelled, LoopReply, LoopEof, InvokeReturns, HumanAnswers, workerVars
    <2>2. CASE ~Running
      BY <1>1, <2>1, <2>2 DEF Running
    <2>3. CASE Running
      <3>1. ~LoopEof /\ ~InvokeReturns
        BY <2>3 DEF LoopEof, InvokeReturns
      <3>2. QED
        BY <1>3, <2>3, <3>1, ReceiveStep, DecideStep, ResolveStep, ReplyStep
           DEF LoopStep
    <2>4. QED
      BY <2>2, <2>3
  <1>4. CASE WatcherStep \/ ClientCancels \/ StrangerTerminates \/ UNCHANGED vars
    <2>1. UNCHANGED <<stdin, stdout, loop, reply, wpc, proxyUp>>
      BY <1>4 DEF WatcherStep, WatcherWake, WatcherTerminate, WatcherSeesDone,
         GraceExpires, WatcherRecheck, WatcherKill, ClientCancels,
         StrangerTerminates, vars, proxyVars, pipeVars, workerVars
    <2>2. Running' => Running
      BY <1>4 DEF WatcherStep, WatcherWake, WatcherTerminate, WatcherSeesDone,
         GraceExpires, WatcherRecheck, WatcherKill, ClientCancels, DeliverSigterm,
         StrangerTerminates, Running, vars, workerVars
    <2>3. QED
      BY <2>1, <2>2, Elsewhere
  <1>5. CASE WorkerCrashes \/ WorkerSigpipe
    BY <1>1, <1>5 DEF WorkerCrashes, WorkerSigpipe, Running
  <1>6. CASE ProxyDies
    BY <1>6 DEF ProxyDies, QuestionInv, RepliesMatchQuestions, NextReply, Running,
       workerVars
  <1>7. CASE Over
    BY <1>7, Elsewhere DEF Over, vars, proxyVars, pipeVars, workerVars, Running
  <1>8. QED
    BY <1>2, <1>3, <1>4, <1>5, <1>6, <1>7 DEF Next

\* Acknowledgements and trust answers travel without request ids on one pipe
\* (worker.go:262-321, callbacks.cc:1311): the reply in it always belongs
\* to the question the worker is blocked on.
THEOREM RepliesAreMatched == Spec => []RepliesMatchQuestions
  <1>1. Init => QuestionInv
    BY DEF Init, QuestionInv, RepliesMatchQuestions, NoneAsked
  <1>2. QuestionInv => RepliesMatchQuestions
    BY DEF QuestionInv, RepliesMatchQuestions
  <1>3. QED
    BY <1>1, <1>2, QuestionInvStep, TypeCorrect, PTL DEF Spec
==============================================================================

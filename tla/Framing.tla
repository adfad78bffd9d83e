------------------------------- MODULE Framing -------------------------------
(***************************************************************************)
(* The Content-Length framing of the pipes between proxy and worker, symbol  *)
(* by symbol: writeFrame and readFrame of transport.cc (worker) and of       *)
(* worker.go (proxy). Either side may be the reader. The writer may exit or  *)
(* die between any two symbols, the pipe is short, and a payload may look    *)
(* like a header.                                                           *)
(*                                                                         *)
(* A header is the key "Content-Length: ", the digits of the length and the  *)
(* blank line; its bounds (64 bytes to write, 4096 to read) and the 256 MiB  *)
(* bound on a payload are never reached by these writers and left out.      *)
(***************************************************************************)
EXTENDS Naturals, Sequences, SequencesExt

CONSTANTS
    Payloads,       \* non-empty sequences of symbols, below those bounds
    Base,           \* of the number system the length is written in
    PipeSize,       \* symbols the pipe holds
    MaxFrames       \* bound: frames written

Key == <<"key", 0>>
BlankLine == <<"blank line", 0>>
Digit(d) == <<"digit", d>>
Letter == <<"letter", 0>>
IsDigit(s) == s[1] = "digit"
Symbols == {"key", "blank line", "digit", "letter"} \X Nat

ASSUME FramingAssumption ==
    Base \in Nat \ {0, 1} /\ PipeSize \in Nat \ {0} /\ MaxFrames \in Nat
ASSUME PayloadAssumption == \A p \in Payloads : p \in Seq(Symbols) /\ p # <<>>

VARIABLES
    reader,         \* "proxy" or "worker"
    payload,        \* what is being written
    unwritten,      \* symbols of that frame not yet in the pipe
    sent,           \* payloads written to their last symbol
    gone,           \* the writer has exited or died: end of file behind the pipe
    pipe,
    state,          \* of the reader: "header", "body" or "ended"
    header, length, body,   \* locals of readFrame
    received        \* what readFrame returned so far

writerVars == <<payload, unwritten, sent, gone>>
readerVars == <<state, header, length, body, received>>
wireVars == <<reader, pipe, writerVars, readerVars>>

-----------------------------------------------------------------------------
(* writeFrame *)

Digits[n \in Nat] ==
    IF n < Base THEN <<Digit(n)>> ELSE Append(Digits[n \div Base], Digit(n % Base))

Frame(p) == <<Key>> \o Digits[Len(p)] \o <<BlankLine>> \o p

WriteFrame(p) ==
    /\ ~gone /\ unwritten = <<>> /\ Len(sent) < MaxFrames
    /\ payload' = p /\ unwritten' = Frame(p)
    /\ UNCHANGED <<reader, pipe, sent, gone>> /\ UNCHANGED readerVars

Write ==
    /\ ~gone /\ unwritten # <<>> /\ Len(pipe) < PipeSize
    /\ pipe' = Append(pipe, Head(unwritten)) /\ unwritten' = Tail(unwritten)
    /\ sent' = IF Len(unwritten) = 1 THEN Append(sent, payload) ELSE sent
    /\ UNCHANGED <<reader, payload, gone>> /\ UNCHANGED readerVars

\* At any point: a worker crash, SIGKILL, the end of a call or of the proxy.
Leave ==
    /\ ~gone /\ gone' = TRUE
    /\ UNCHANGED <<reader, pipe, payload, unwritten, sent>> /\ UNCHANGED readerVars

-----------------------------------------------------------------------------
(* readFrame *)

\* Fault: the hang-up is looked at before the pipe is empty.
EndOfFileOnHangup == gone

EndOfFile == gone /\ pipe = <<>>

\* The number its digits write.
Value(h) == FoldLeft(LAMBDA n, s : IF IsDigit(s) THEN n * Base + s[2] ELSE n, 0, h)

\* stoul / Atoi of what stands behind the key; no key and no digit give 0, which
\* is refused like a length of 0.
ContentLength(h) ==
    IF Key \in ToSet(h)
    THEN Value(SubSeq(h, CHOOSE k \in DOMAIN h : h[k] = Key, Len(h)))
    ELSE 0

StartBody(h) ==
    /\ length' = ContentLength(h) /\ body' = <<>> /\ header' = <<>>
    /\ state' = IF length' = 0 THEN "ended" ELSE "body"
    /\ UNCHANGED received

ReadHeader ==
    /\ state = "header" /\ pipe # <<>> /\ pipe' = Tail(pipe)
    /\ IF Head(pipe) = BlankLine
       THEN StartBody(header)
       ELSE header' = Append(header, Head(pipe)) /\ UNCHANGED <<state, length, body, received>>
    /\ UNCHANGED reader /\ UNCHANGED writerVars

\* The proxy gives up; the worker goes on with what it has, be the number cut.
HeaderCut ==
    /\ state = "header" /\ EndOfFile
    /\ IF reader = "worker" /\ header # <<>>
       THEN StartBody(header)
       ELSE state' = "ended" /\ UNCHANGED <<header, length, body, received>>
    /\ UNCHANGED <<reader, pipe>> /\ UNCHANGED writerVars

\* Fault: one symbol more than the length.
ReadBodyAndOneMore ==
    /\ state = "body" /\ pipe # <<>> /\ pipe' = Tail(pipe)
    /\ IF Len(body) = length
       THEN received' = Append(received, body) /\ state' = "header" /\ UNCHANGED body
       ELSE body' = Append(body, Head(pipe)) /\ UNCHANGED <<state, received>>
    /\ UNCHANGED <<reader, header, length>> /\ UNCHANGED writerVars

ReadBody ==
    /\ state = "body" /\ pipe # <<>> /\ pipe' = Tail(pipe)
    /\ IF Len(body) + 1 = length
       THEN /\ received' = Append(received, Append(body, Head(pipe)))
            /\ state' = "header" /\ UNCHANGED body
       ELSE body' = Append(body, Head(pipe)) /\ UNCHANGED <<state, received>>
    /\ UNCHANGED <<reader, header, length>> /\ UNCHANGED writerVars

\* Fault: a short read is repeated for the rest.
BodyCutRetried ==
    /\ state = "body" /\ EndOfFile /\ header' = <<>>
    /\ UNCHANGED <<reader, pipe, state, length, body, received>> /\ UNCHANGED writerVars

BodyCut ==
    /\ state = "body" /\ EndOfFile /\ state' = "ended"
    /\ UNCHANGED <<reader, pipe, header, length, body, received>> /\ UNCHANGED writerVars

WireInit ==
    /\ reader \in {"proxy", "worker"} /\ pipe = <<>>
    /\ payload = <<>> /\ unwritten = <<>> /\ sent = <<>> /\ gone = FALSE
    /\ state = "header" /\ header = <<>> /\ length = 0 /\ body = <<>> /\ received = <<>>

Read == ReadHeader \/ HeaderCut \/ ReadBody \/ BodyCut

WireNext == (\E p \in Payloads : WriteFrame(p)) \/ Write \/ Leave \/ Read

WireSpec == WireInit /\ [][WireNext]_wireVars

\* A reader that called readFrame reads what is there. Nothing is assumed of the
\* writer, which may stop in the middle of a frame.
FairSpec == WireSpec /\ WF_wireVars(Read)

-----------------------------------------------------------------------------
\* transport.h:14, framing is by length: the pipe of whole frames that WorkerCall
\* is built on. What readFrame returns is what was written, payload by payload,
\* whatever the payloads look like; a reader that sees the end has seen every
\* frame that was finished, and one that was cut off is not taken for a frame.
Channel == INSTANCE FrameChannel WITH ended <- state = "ended"
ImplementsChannel == Channel!Spec

\* Every finished frame arrives although the writer may never write again.
FramesArrive == \A n \in 1..MaxFrames : Len(sent) >= n ~> Len(received) >= n

\* After the writer is gone the reader learns of it, in the middle of a frame too.
EndIsSeen == gone ~> state = "ended"

\* worker.go:350-394 and transport.cc:43-113: no call of readFrame waits for what
\* cannot come any more, nor for more than was sent.
ReaderCatchesUp == FramesArrive /\ EndIsSeen
=============================================================================

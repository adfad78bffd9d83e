----------------------------- MODULE TrustDialog -----------------------------
(***************************************************************************)
(* The trust questions of one call, from the libzypp callback that asks to  *)
(* the verdict libzypp gets: the key ring and digest receivers of the       *)
(* worker (callbacks.cc), the proxy that turns an elicitation frame into an  *)
(* MCP elicitation (handleElicitation, tools.go), the person who answers     *)
(* with free text, and the record of refused keys (gpgkeygate.cc).          *)
(*                                                                         *)
(* WorkerCall has the same questions without their contents and shows how   *)
(* they interleave with acknowledgements and signals.  Here every answer    *)
(* is a text, and each question has its own vocabulary.                     *)
(***************************************************************************)
EXTENDS Naturals, Sequences, FiniteSets

CONSTANTS
    Keys,           \* keys a file or a package is signed with
    Texts,          \* what a person may type
    NoText,         \* the form came back without a string "answer"
    NoKey,          \* a question that is not about a key
    MaxQuestions    \* bound: questions of one call

ASSUME TextsAssumption == {"import", "trust", "true", "yes", "accept"} \subseteq Texts /\ NoText \notin Texts
ASSUME KeysAssumption == NoKey \notin Keys
ASSUME BoundAssumption == MaxQuestions \in Nat \ {0}

VARIABLES
    question,       \* the callback that is running, or NoQuestion
    said,           \* what became of it on the client's side
    reply,          \* what the worker reads from stdin
    ctxDone,        \* the client cancelled the call
    cancelled,      \* SIGTERM reached the worker
    past,           \* the rpm transaction may have started
    proxyUp,
    rejected,       \* GpgKeyGate::_rejected
    trusted,        \* keys libzypp was told to trust in this call
    imported,       \* keys libzypp was told to import
    log             \* the verdicts so far

vars == <<question, said, reply, ctxDone, cancelled, past, proxyUp, rejected, trusted, imported, log>>

KeyKinds    == {"trust_key", "accept_verification_failed", "trust_package_key"}
OtherKinds  == {"accept_unsigned_file", "accept_unknown_key",
                "accept_no_digest", "accept_unknown_digest", "accept_wrong_digest"}
Questions   == [kind : KeyKinds, key : Keys] \cup [kind : OtherKinds, key : {NoKey}]
NoQuestion  == [kind |-> "none", key |-> NoKey]

\* What the person did: accepted the form with a text, refused it, closed it; the
\* client failed or was gone ("error"); or nobody was asked ("unasked").
NoAnswer    == [action |-> "unasked", text |-> NoText]
Answers     == [action : {"accept", "decline", "cancel", "error"}, text : Texts \cup {NoText}]
\* Frames on the worker's stdin; NoReply: nothing yet; EndOfFile: the proxy is gone.
NoReply     == "noreply"
EndOfFile   == "eof"
Verdicts    == {"import", "temporary", "yes", "no"}

-----------------------------------------------------------------------------
(* The proxy *)

\* handleElicitation: anything but an accepted form with a text declines.
Forward(a) == IF a.action # "accept" \/ a.text = NoText THEN "decline" ELSE a.text

-----------------------------------------------------------------------------
(* The worker *)

\* Fault: a stray SIGTERM silences the questions of a started transaction.
SkipWheneverCancelled == cancelled

\* shouldAbortNow: false from commit_active on
SkipElicitation == cancelled /\ ~past

\* Fault: every question understands every affirmative word.
VerdictInOneVocabulary(kind, r) ==
    IF r \in {"import", "trust", "true", "yes", "accept"}
    THEN IF kind = "trust_key" THEN "import" ELSE "yes"
    ELSE "no"

\* parseAnswer and parseBoolAnswer: end of file and any other word refuse.
Verdict(kind, r) ==
    IF kind = "trust_key"
    THEN CASE r = "import" -> "import" [] r = "trust" -> "temporary" [] OTHER -> "no"
    ELSE IF r \in {"true", "yes", "accept"} THEN "yes" ELSE "no"

\* recordRejection
Recorded(k) == IF \E n \in DOMAIN rejected : rejected[n] = k THEN rejected ELSE Append(rejected, k)

\* Fault: only a refusal a person spoke is recorded.
ConcludeUnrecorded(q, v, a) ==
    /\ rejected' = IF q.kind \in KeyKinds /\ v = "no" /\ a # NoAnswer THEN Recorded(q.key) ELSE rejected
    /\ trusted' = IF q.kind \in KeyKinds /\ v # "no" THEN trusted \cup {q.key} ELSE trusted
    /\ imported' = IF v = "import" THEN imported \cup {q.key} ELSE imported
    /\ log' = Append(log, [kind |-> q.kind, key |-> q.key, said |-> a, verdict |-> v])

\* The callback returns v; a refused key is recorded.
Conclude(q, v, a) ==
    /\ rejected' = IF q.kind \in KeyKinds /\ v = "no" THEN Recorded(q.key) ELSE rejected
    /\ trusted' = IF q.kind \in KeyKinds /\ v # "no" THEN trusted \cup {q.key} ELSE trusted
    /\ imported' = IF v = "import" THEN imported \cup {q.key} ELSE imported
    /\ log' = Append(log, [kind |-> q.kind, key |-> q.key, said |-> a, verdict |-> v])

Idle == question = NoQuestion /\ Len(log) < MaxQuestions

\* A cancelled call refuses without asking.
Skip(q) ==
    /\ Idle /\ SkipElicitation
    /\ Conclude(q, "no", NoAnswer)
    /\ UNCHANGED <<question, said, reply, ctxDone, cancelled, past, proxyUp>>

\* The elicitation frame goes out and the callback blocks on stdin.
Ask(q) ==
    /\ Idle /\ ~SkipElicitation
    /\ question' = q /\ said' = NoAnswer
    /\ reply' = IF proxyUp THEN NoReply ELSE EndOfFile
    /\ UNCHANGED <<ctxDone, cancelled, past, proxyUp, rejected, trusted, imported, log>>

\* The person, or the failing client, answers; session.Elicit fails when ctx is done.
Answer(a) ==
    /\ question # NoQuestion /\ reply = NoReply /\ proxyUp
    /\ ctxDone => a.action = "error"
    /\ said' = a /\ reply' = Forward(a)
    /\ UNCHANGED <<question, ctxDone, cancelled, past, proxyUp, rejected, trusted, imported, log>>

Return ==
    /\ question # NoQuestion /\ reply # NoReply
    /\ Conclude(question, Verdict(question.kind, reply), said)
    /\ question' = NoQuestion /\ said' = NoAnswer /\ reply' = NoReply
    /\ UNCHANGED <<ctxDone, cancelled, past, proxyUp>>

-----------------------------------------------------------------------------
(* Around the questions *)

ClientCancels ==
    /\ proxyUp /\ ~ctxDone /\ ctxDone' = TRUE
    /\ UNCHANGED <<question, said, reply, cancelled, past, proxyUp, rejected, trusted, imported, log>>

\* From the proxy while the call can be cancelled; from anybody at any time.
Sigterm ==
    /\ ~cancelled /\ cancelled' = TRUE
    /\ UNCHANGED <<question, said, reply, ctxDone, past, proxyUp, rejected, trusted, imported, log>>

CommitActive ==
    /\ question = NoQuestion /\ ~past /\ ~cancelled /\ proxyUp /\ past' = TRUE
    /\ UNCHANGED <<question, said, reply, ctxDone, cancelled, proxyUp, rejected, trusted, imported, log>>

\* An answer already written stays in the pipe.
ProxyDies ==
    /\ proxyUp /\ proxyUp' = FALSE
    /\ reply' = IF question # NoQuestion /\ reply = NoReply THEN EndOfFile ELSE reply
    /\ UNCHANGED <<question, said, ctxDone, cancelled, past, rejected, trusted, imported, log>>

Init ==
    /\ question = NoQuestion /\ said = NoAnswer /\ reply = NoReply
    /\ ctxDone = FALSE /\ cancelled = FALSE /\ past = FALSE /\ proxyUp = TRUE
    /\ rejected = <<>> /\ trusted = {} /\ imported = {} /\ log = <<>>

Next ==
    \/ \E q \in Questions : Skip(q) \/ Ask(q)
    \/ \E a \in Answers : Answer(a)
    \/ Return \/ ClientCancels \/ Sigterm \/ CommitActive \/ ProxyDies

Spec == Init /\ [][Next]_vars
-----------------------------------------------------------------------------
Ids == DOMAIN log
Vocabulary(kind) == IF kind = "trust_key" THEN {"import", "trust"} ELSE {"true", "yes", "accept"}

\* The variables of the dialog.
TypeOK ==
    /\ question \in Questions \cup {NoQuestion} /\ said \in Answers \cup {NoAnswer}
    /\ reply \in Texts \cup {"decline", NoReply, EndOfFile}
    /\ ctxDone \in BOOLEAN /\ cancelled \in BOOLEAN /\ past \in BOOLEAN /\ proxyUp \in BOOLEAN
    /\ rejected \in Seq(Keys) /\ trusted \subseteq Keys /\ imported \subseteq Keys
    /\ log \in Seq([kind : KeyKinds \cup OtherKinds, key : Keys \cup {NoKey},
                     said : Answers \cup {NoAnswer}, verdict : Verdicts])

\* README.md:29: a verdict grants something exactly if a person accepted the form
\* of this very question with a word of its vocabulary; no cancellation, no dead
\* proxy, no failing client and no other question's answer ever grants anything.
ConsentDecides ==
    \A n \in Ids : log[n].verdict # "no" <=>
        log[n].said.action = "accept" /\ log[n].said.text \in Vocabulary(log[n].kind)

\* A key outlives the call in the rpm database only if a person typed "import",
\* and every key libzypp was told to trust stands in a granted verdict.
ImportsWereTyped ==
    /\ imported \subseteq trusted
    /\ \A k \in imported : \E n \in Ids : log[n].key = k /\ log[n].said.text = "import"
    /\ \A k \in trusted : \E n \in Ids : log[n].key = k /\ log[n].verdict # "no"

\* The keys KEY_NOT_TRUSTED names are exactly those some question was refused for,
\* asked or not, each once.
RefusalsAreReported ==
    /\ {rejected[n] : n \in DOMAIN rejected} =
            {log[n].key : n \in {m \in Ids : log[m].kind \in KeyKinds /\ log[m].verdict = "no"}}
    /\ \A m, n \in DOMAIN rejected : rejected[m] = rejected[n] => m = n

\* callbacks.cc:75: from the point of no return on, while the proxy lives, no
\* question is refused by the worker alone: it was sent and answered first.
PastQuestionsAreAsked ==
    [][past /\ proxyUp /\ log' # log => log'[Len(log')].said # NoAnswer]_vars

\* callbacks.h:39-41: report() "answers synchronously from the ToolContext-owned
\* GpgKeyGate" "rather than blocking on an elicitation".
PackageKeysNeverBlock == question.kind # "trust_package_key"
=============================================================================

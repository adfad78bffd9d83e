-------------------------- MODULE TrustDialogProofs --------------------------
(***************************************************************************)
(* Proofs about TrustDialog, for every set of keys, every set of texts a     *)
(* person may type (the words the worker itself uses on the pipe included),   *)
(* and any number of questions.                                             *)
(*                                                                         *)
(* What carries the argument is AnswerInv: whatever lies on the worker's      *)
(* stdin grants something exactly if the person who was asked consented to    *)
(* this very question.  The properties of the log follow, because a verdict   *)
(* is recorded only when a callback returns.                                *)
(***************************************************************************)
EXTENDS TrustDialog, TLAPS

Consents(kind, a) == a.action = "accept" /\ a.text \in Vocabulary(kind)

\* The reply on its way to the worker means what the person said.
AnswerInv ==
    question # NoQuestion =>
        /\ Verdict(question.kind, reply) # "no" <=> Consents(question.kind, said)
        /\ Verdict(question.kind, reply) = "import" => said.text = "import"

\* While the proxy lives, only an answer of the client ends the wait.
AskedInv == question # NoQuestion /\ reply # NoReply /\ proxyUp => said \in Answers

IInv == /\ TypeOK /\ AnswerInv /\ AskedInv
        /\ ConsentDecides /\ ImportsWereTyped /\ RefusalsAreReported

-----------------------------------------------------------------------------
\* What handleElicitation forwards is a consent exactly if the person gave one.
LEMMA ForwardMeans ==
    ASSUME NEW a \in Answers, NEW kind \in KeyKinds \cup OtherKinds
    PROVE  /\ Verdict(kind, Forward(a)) # "no" <=> Consents(kind, a)
           /\ Verdict(kind, Forward(a)) = "import" => a.text = "import"
           /\ Forward(a) \in Texts \cup {"decline"}
<1>1. /\ a.action \in {"accept", "decline", "cancel", "error"} /\ a.text \in Texts \cup {NoText}
      /\ NoText \notin {"import", "trust", "true", "yes", "accept"}
  BY TextsAssumption DEF Answers
<1>2. CASE a.action # "accept" \/ a.text = NoText
  BY <1>1, <1>2 DEF Forward, Verdict, Consents, Vocabulary
<1>3. CASE a.action = "accept" /\ a.text # NoText
  BY <1>1, <1>3 DEF Forward, Verdict, Consents, Vocabulary
<1> QED  BY <1>2, <1>3

\* A verdict is one of four words, and only a file key can be imported.
LEMMA VerdictType ==
    ASSUME NEW kind, NEW r
    PROVE  Verdict(kind, r) \in Verdicts /\ (Verdict(kind, r) = "import" => kind = "trust_key")
BY DEF Verdict, Verdicts

\* Nobody has said anything yet, and silence and end of file grant nothing.
LEMMA SilenceRefuses ==
    ASSUME NEW kind
    PROVE  Verdict(kind, NoReply) = "no" /\ Verdict(kind, EndOfFile) = "no" /\ ~Consents(kind, NoAnswer)
BY DEF Verdict, NoReply, EndOfFile, Consents, NoAnswer

\* A question is about a key if its kind is.
LEMMA QuestionType ==
    ASSUME NEW q \in Questions
    PROVE  /\ q.kind \in KeyKinds \cup OtherKinds /\ q.key \in Keys \cup {NoKey}
           /\ q.kind \in KeyKinds => q.key \in Keys
           /\ q # NoQuestion
BY DEF Questions, KeyKinds, OtherKinds, NoQuestion

\* recordRejection adds the key it is given, unless it is there.
LEMMA RecordedSet ==
    ASSUME TypeOK, NEW k \in Keys,
           \A m, n \in DOMAIN rejected : rejected[m] = rejected[n] => m = n
    PROVE  /\ Recorded(k) \in Seq(Keys)
           /\ {Recorded(k)[n] : n \in DOMAIN Recorded(k)} = {rejected[n] : n \in DOMAIN rejected} \cup {k}
           /\ \A m, n \in DOMAIN Recorded(k) : Recorded(k)[m] = Recorded(k)[n] => m = n
<1>1. rejected \in Seq(Keys)  BY DEF TypeOK
<1>2. CASE \E n \in DOMAIN rejected : rejected[n] = k
  BY <1>1, <1>2 DEF Recorded
<1>3. CASE \A n \in DOMAIN rejected : rejected[n] # k
  <2> DEFINE s == Append(rejected, k)
  <2>1. Recorded(k) = s  BY <1>3 DEF Recorded
  <2>2. s \in Seq(Keys) /\ DOMAIN s = 1..(Len(rejected) + 1) /\ DOMAIN rejected = 1..Len(rejected)
        /\ Len(rejected) \in Nat
    BY <1>1
  <2>3. s[Len(rejected) + 1] = k /\ \A n \in DOMAIN rejected : s[n] = rejected[n]
    BY <1>1
  <2>4. {s[n] : n \in DOMAIN s} = {rejected[n] : n \in DOMAIN rejected} \cup {k}
    BY <2>2, <2>3
  <2>5. \A m, n \in DOMAIN s : s[m] = s[n] => m = n
    BY <2>2, <2>3, <1>3
  <2> QED  BY <2>1, <2>2, <2>4, <2>5
<1> QED  BY <1>2, <1>3

-----------------------------------------------------------------------------
\* A callback that returns a verdict the person meant keeps the record of the call.
LEMMA ConcludeKeeps ==
    ASSUME TypeOK, ConsentDecides, ImportsWereTyped, RefusalsAreReported,
           NEW q \in Questions, NEW v \in Verdicts, NEW a \in Answers \cup {NoAnswer},
           v # "no" <=> Consents(q.kind, a),
           v = "import" => q.kind = "trust_key" /\ a.text = "import",
           Conclude(q, v, a)
    PROVE  /\ rejected' \in Seq(Keys) /\ trusted' \subseteq Keys /\ imported' \subseteq Keys
           /\ log' \in Seq([kind : KeyKinds \cup OtherKinds, key : Keys \cup {NoKey},
                            said : Answers \cup {NoAnswer}, verdict : Verdicts])
           /\ ConsentDecides' /\ ImportsWereTyped' /\ RefusalsAreReported'
<1> DEFINE Entry == [kind : KeyKinds \cup OtherKinds, key : Keys \cup {NoKey},
                     said : Answers \cup {NoAnswer}, verdict : Verdicts]
           e == [kind |-> q.kind, key |-> q.key, said |-> a, verdict |-> v]
           L == Len(log)
<1>1. e \in Entry /\ e.kind = q.kind /\ e.key = q.key /\ e.said = a /\ e.verdict = v
  BY QuestionType
<1>2. log \in Seq(Entry) /\ rejected \in Seq(Keys) /\ trusted \subseteq Keys /\ imported \subseteq Keys
  BY DEF TypeOK
<1>3. log' = Append(log, e)  BY DEF Conclude
<1> HIDE DEF e, Entry
<1>4. log' \in Seq(Entry)  BY <1>1, <1>2, <1>3
<1>5. L \in Nat /\ DOMAIN log = 1..L /\ DOMAIN log' = 1..(L + 1)
      /\ log'[L + 1] = e /\ \A n \in DOMAIN log : log'[n] = log[n]
  BY <1>1, <1>2, <1>3
<1>6. Ids' = Ids \cup {L + 1} /\ L + 1 \notin Ids
  BY <1>5 DEF Ids
<1>7. \A n \in Ids : log'[n] = log[n]
  BY <1>5 DEF Ids
<1>8. q.kind \in KeyKinds \cup OtherKinds /\ (q.kind \in KeyKinds => q.key \in Keys)
      /\ (q.kind = "trust_key" => q.kind \in KeyKinds)
  BY QuestionType DEF KeyKinds
<1>9. trusted' = (IF q.kind \in KeyKinds /\ v # "no" THEN trusted \cup {q.key} ELSE trusted)
      /\ imported' = (IF v = "import" THEN imported \cup {q.key} ELSE imported)
      /\ rejected' = (IF q.kind \in KeyKinds /\ v = "no" THEN Recorded(q.key) ELSE rejected)
  BY DEF Conclude
<1>10. trusted' \subseteq Keys /\ imported' \subseteq Keys
  BY <1>2, <1>8, <1>9
<1>11. ConsentDecides'
  <2> SUFFICES ASSUME NEW n \in Ids'
               PROVE  log'[n].verdict # "no" <=>
                        log'[n].said.action = "accept" /\ log'[n].said.text \in Vocabulary(log'[n].kind)
    BY DEF ConsentDecides
  <2>1. CASE n \in Ids  BY <2>1, <1>7 DEF ConsentDecides
  <2>2. CASE n = L + 1  BY <2>2, <1>1, <1>5 DEF Consents
  <2> QED  BY <2>1, <2>2, <1>6
<1>12. ImportsWereTyped'
  <2>1. imported' \subseteq trusted'
    BY <1>8, <1>9 DEF ImportsWereTyped
  <2>2. ASSUME NEW k \in imported'
        PROVE  \E n \in Ids' : log'[n].key = k /\ log'[n].said.text = "import"
    <3>1. CASE k \in imported
      <4>1. PICK n \in Ids : log[n].key = k /\ log[n].said.text = "import"
        BY <3>1 DEF ImportsWereTyped
      <4> QED  BY <4>1, <1>6, <1>7
    <3>2. CASE k \notin imported
      <4>1. v = "import" /\ k = q.key  BY <3>2, <2>2, <1>9
      <4> QED  BY <4>1, <1>1, <1>5, <1>6
    <3> QED  BY <3>1, <3>2
  <2>3. ASSUME NEW k \in trusted'
        PROVE  \E n \in Ids' : log'[n].key = k /\ log'[n].verdict # "no"
    <3>1. CASE k \in trusted
      <4>1. PICK n \in Ids : log[n].key = k /\ log[n].verdict # "no"
        BY <3>1 DEF ImportsWereTyped
      <4> QED  BY <4>1, <1>6, <1>7
    <3>2. CASE k \notin trusted
      <4>1. v # "no" /\ k = q.key  BY <3>2, <2>3, <1>9
      <4> QED  BY <4>1, <1>1, <1>5, <1>6
    <3> QED  BY <3>1, <3>2
  <2> QED  BY <2>1, <2>2, <2>3 DEF ImportsWereTyped
<1>13. rejected' \in Seq(Keys) /\ RefusalsAreReported'
  <2> DEFINE Refused == {log[n].key : n \in {m \in Ids : log[m].kind \in KeyKinds /\ log[m].verdict = "no"}}
             After == {log'[n].key : n \in {m \in Ids' : log'[m].kind \in KeyKinds /\ log'[m].verdict = "no"}}
  <2>1. {rejected[n] : n \in DOMAIN rejected} = Refused
        /\ \A m, n \in DOMAIN rejected : rejected[m] = rejected[n] => m = n
    BY DEF RefusalsAreReported
  <2>2. CASE q.kind \in KeyKinds /\ v = "no"
    <3>1. After = Refused \cup {q.key}
      BY <2>2, <1>1, <1>5, <1>6, <1>7
    <3>2. rejected' = Recorded(q.key) /\ q.key \in Keys  BY <2>2, <1>8, <1>9
    <3> DEFINE R == Recorded(q.key)
    <3>3. /\ R \in Seq(Keys)
          /\ {R[n] : n \in DOMAIN R} = {rejected[n] : n \in DOMAIN rejected} \cup {q.key}
          /\ \A m, n \in DOMAIN R : R[m] = R[n] => m = n
      BY <3>2, <2>1, RecordedSet
    <3> HIDE DEF R
    <3>4. rejected' = R  BY <3>2 DEF R
    <3> HIDE DEF Refused, After
    <3>5. {rejected'[n] : n \in DOMAIN rejected'} = After
      <4>1. {rejected[n] : n \in DOMAIN rejected} \cup {q.key} = After  BY <3>1, <2>1
      <4>2. {R[n] : n \in DOMAIN R} = After  BY <3>3, <4>1
      <4> QED  BY <3>4, <4>2, Zenon
    <3> USE DEF After
    <3>6. rejected' \in Seq(Keys) /\ \A m, n \in DOMAIN rejected' : rejected'[m] = rejected'[n] => m = n
      BY <3>3, <3>4
    <3> QED  BY <3>5, <3>6 DEF RefusalsAreReported
  <2>3. CASE ~(q.kind \in KeyKinds /\ v = "no")
    <3>1. After = Refused
      BY <2>3, <1>1, <1>5, <1>6, <1>7
    <3>2. rejected' = rejected  BY <2>3, <1>9
    <3> QED  BY <3>1, <3>2, <2>1, <1>2 DEF RefusalsAreReported
  <2> QED  BY <2>2, <2>3
<1> QED  BY <1>4, <1>10, <1>11, <1>12, <1>13 DEF Entry

-----------------------------------------------------------------------------
\* The properties of the record depend on no other variable.
LEMMA RecordUnchanged ==
    ASSUME ConsentDecides, ImportsWereTyped, RefusalsAreReported,
           UNCHANGED <<rejected, trusted, imported, log>>
    PROVE  ConsentDecides' /\ ImportsWereTyped' /\ RefusalsAreReported'
BY DEF ConsentDecides, ImportsWereTyped, RefusalsAreReported, Ids

LEMMA InitInv == Init => IInv
<1> SUFFICES ASSUME Init PROVE IInv
  OBVIOUS
<1>0. \A S : <<>> \in Seq(S)
  OBVIOUS
<1>1. TypeOK
  <2>1. question \in Questions \cup {NoQuestion} /\ said \in Answers \cup {NoAnswer}
        /\ reply \in Texts \cup {"decline", NoReply, EndOfFile}
    BY DEF Init
  <2>2. rejected = <<>> /\ log = <<>>
    BY DEF Init
  <2>3. /\ ctxDone \in BOOLEAN /\ cancelled \in BOOLEAN /\ past \in BOOLEAN /\ proxyUp \in BOOLEAN
        /\ trusted \subseteq Keys /\ imported \subseteq Keys
    BY DEF Init
  <2> QED  BY <1>0, <2>1, <2>2, <2>3, Zenon DEF TypeOK
<1>2. AnswerInv /\ AskedInv
  BY DEF Init, AnswerInv, AskedInv
<1>3. DOMAIN log = {} /\ DOMAIN rejected = {} /\ trusted = {} /\ imported = {}
  BY DEF Init
<1>4. ConsentDecides /\ ImportsWereTyped
  BY <1>3 DEF ConsentDecides, ImportsWereTyped, Ids
<1>5. RefusalsAreReported
  BY <1>3 DEF RefusalsAreReported, Ids
<1> QED  BY <1>1, <1>2, <1>4, <1>5 DEF IInv

LEMMA StepInv == IInv /\ [Next]_vars => IInv'
<1> SUFFICES ASSUME IInv, [Next]_vars PROVE IInv'
  OBVIOUS
<1>0. /\ TypeOK /\ AnswerInv /\ AskedInv /\ ConsentDecides /\ ImportsWereTyped /\ RefusalsAreReported
  BY DEF IInv
<1>1. ASSUME NEW q \in Questions, Skip(q) PROVE IInv'
  <2>1. Conclude(q, "no", NoAnswer) /\ UNCHANGED <<question, said, reply, ctxDone, cancelled, past, proxyUp>>
    BY <1>1 DEF Skip
  <2>2. ~Consents(q.kind, NoAnswer)  BY SilenceRefuses
  <2>3. "no" \in Verdicts /\ "no" # "import"  BY DEF Verdicts
  <2>4. /\ rejected' \in Seq(Keys) /\ trusted' \subseteq Keys /\ imported' \subseteq Keys
        /\ log' \in Seq([kind : KeyKinds \cup OtherKinds, key : Keys \cup {NoKey},
                         said : Answers \cup {NoAnswer}, verdict : Verdicts])
        /\ ConsentDecides' /\ ImportsWereTyped' /\ RefusalsAreReported'
    BY <1>0, <2>1, <2>2, <2>3, ConcludeKeeps
  <2>5. TypeOK' /\ AnswerInv' /\ AskedInv'
    BY <1>0, <2>1, <2>4 DEF TypeOK, AnswerInv, AskedInv, Consents
  <2> QED  BY <2>4, <2>5 DEF IInv
<1>2. ASSUME NEW q \in Questions, Ask(q) PROVE IInv'
  <2>1. /\ question' = q /\ said' = NoAnswer /\ reply' = (IF proxyUp THEN NoReply ELSE EndOfFile)
        /\ UNCHANGED <<ctxDone, cancelled, past, proxyUp, rejected, trusted, imported, log>>
    BY <1>2 DEF Ask
  <2>2. TypeOK'  BY <1>0, <2>1 DEF TypeOK
  <2>3. AnswerInv'
    BY <2>1, SilenceRefuses, VerdictType DEF AnswerInv, Consents
  <2>4. AskedInv'  BY <2>1 DEF AskedInv
  <2> QED  BY <2>1, <2>2, <2>3, <2>4, <1>0, RecordUnchanged DEF IInv
<1>3. ASSUME NEW a \in Answers, Answer(a) PROVE IInv'
  <2>1. /\ question # NoQuestion /\ said' = a /\ reply' = Forward(a)
        /\ UNCHANGED <<question, ctxDone, cancelled, past, proxyUp, rejected, trusted, imported, log>>
    BY <1>3 DEF Answer
  <2>2. question \in Questions /\ question.kind \in KeyKinds \cup OtherKinds
    BY <1>0, <2>1, QuestionType DEF TypeOK
  <2>3. TypeOK'  BY <1>0, <2>1, <2>2, ForwardMeans DEF TypeOK
  <2>4. AnswerInv'  BY <2>1, <2>2, ForwardMeans DEF AnswerInv
  <2>5. AskedInv'  BY <2>1 DEF AskedInv
  <2> QED  BY <2>1, <2>3, <2>4, <2>5, <1>0, RecordUnchanged DEF IInv
<1>4. ASSUME Return PROVE IInv'
  <2> DEFINE v == Verdict(question.kind, reply)
  <2>1. /\ question # NoQuestion /\ reply # NoReply /\ Conclude(question, v, said)
        /\ question' = NoQuestion /\ said' = NoAnswer /\ reply' = NoReply
        /\ UNCHANGED <<ctxDone, cancelled, past, proxyUp>>
    BY <1>4 DEF Return
  <2>2. question \in Questions /\ said \in Answers \cup {NoAnswer}
    BY <1>0, <2>1 DEF TypeOK
  <2>3. v \in Verdicts /\ (v = "import" => question.kind = "trust_key")
    BY VerdictType
  <2>4. (v # "no" <=> Consents(question.kind, said)) /\ (v = "import" => said.text = "import")
    BY <1>0, <2>1 DEF AnswerInv
  <2> HIDE DEF v
  <2>5. /\ rejected' \in Seq(Keys) /\ trusted' \subseteq Keys /\ imported' \subseteq Keys
        /\ log' \in Seq([kind : KeyKinds \cup OtherKinds, key : Keys \cup {NoKey},
                         said : Answers \cup {NoAnswer}, verdict : Verdicts])
        /\ ConsentDecides' /\ ImportsWereTyped' /\ RefusalsAreReported'
    BY <1>0, <2>1, <2>2, <2>3, <2>4, ConcludeKeeps
  <2>6. TypeOK' /\ AnswerInv' /\ AskedInv'
    BY <1>0, <2>1, <2>5 DEF TypeOK, AnswerInv, AskedInv
  <2> QED  BY <2>5, <2>6 DEF IInv
<1>5. ASSUME ProxyDies PROVE IInv'
  <2>1. /\ proxyUp /\ proxyUp' = FALSE
        /\ reply' = (IF question # NoQuestion /\ reply = NoReply THEN EndOfFile ELSE reply)
        /\ UNCHANGED <<question, said, ctxDone, cancelled, past, rejected, trusted, imported, log>>
    BY <1>5 DEF ProxyDies
  <2>2. TypeOK'  BY <1>0, <2>1 DEF TypeOK
  <2>3. AnswerInv'
    <3>1. CASE question # NoQuestion /\ reply = NoReply
      BY <3>1, <1>0, <2>1, SilenceRefuses DEF AnswerInv, Consents, Vocabulary
    <3>2. CASE ~(question # NoQuestion /\ reply = NoReply)
      BY <3>2, <1>0, <2>1 DEF AnswerInv, Consents, Vocabulary
    <3> QED  BY <3>1, <3>2
  <2>4. AskedInv'  BY <2>1 DEF AskedInv
  <2> QED  BY <2>1, <2>2, <2>3, <2>4, <1>0, RecordUnchanged DEF IInv
<1>6. ASSUME ClientCancels \/ Sigterm \/ CommitActive \/ UNCHANGED vars PROVE IInv'
  <2>1. /\ UNCHANGED <<question, said, reply, proxyUp, rejected, trusted, imported, log>>
        /\ ctxDone' \in BOOLEAN /\ cancelled' \in BOOLEAN /\ past' \in BOOLEAN
    BY <1>0, <1>6 DEF ClientCancels, Sigterm, CommitActive, vars, TypeOK
  <2>2. TypeOK' /\ AnswerInv' /\ AskedInv'
    BY <1>0, <2>1 DEF TypeOK, AnswerInv, AskedInv, Consents, Vocabulary
  <2> QED  BY <2>1, <2>2, <1>0, RecordUnchanged DEF IInv
<1> QED  BY <1>1, <1>2, <1>3, <1>4, <1>5, <1>6 DEF Next

\* The inductive invariant of a call's trust questions.
THEOREM Inductive == Spec => []IInv
<1> QED  BY InitInv, StepInv, PTL DEF Spec

\* The dialog keeps its types.
THEOREM TypeCorrect == Spec => []TypeOK
<1>1. IInv => TypeOK  BY DEF IInv
<1> QED  BY <1>1, Inductive, PTL

\* callbacks.cc:84-107: a key or a file is accepted exactly if a person who was
\* asked this question answered with one of its words.
THEOREM ConsentIsDecisive == Spec => []ConsentDecides
<1>1. IInv => ConsentDecides  BY DEF IInv
<1> QED  BY <1>1, Inductive, PTL

\* callbacks.cc:373-385: a key is imported only after a person typed "import".
THEOREM ImportsTyped == Spec => []ImportsWereTyped
<1>1. IInv => ImportsWereTyped  BY DEF IInv
<1> QED  BY <1>1, Inductive, PTL

\* gpgkeygate.cc:29-38: the client is told of every refused key, and of no other.
THEOREM RefusalsReported == Spec => []RefusalsAreReported
<1>1. IInv => RefusalsAreReported  BY DEF IInv
<1> QED  BY <1>1, Inductive, PTL

\* callbacks.cc:62-82: past the point of no return no question is refused unasked.
THEOREM PastQuestionsAsked == Spec => PastQuestionsAreAsked
<1>1. IInv /\ [Next]_vars => [past /\ proxyUp /\ log' # log => log'[Len(log')].said # NoAnswer]_vars
  <2> SUFFICES ASSUME IInv, Next, past, proxyUp, log' # log
               PROVE  log'[Len(log')].said # NoAnswer
    BY DEF vars
  <2>1. Return
    <3>1. ASSUME NEW q \in Questions PROVE ~Skip(q)
      BY DEF Skip, SkipElicitation
    <3> QED  BY <3>1 DEF Next, Ask, Answer, ClientCancels, Sigterm, CommitActive, ProxyDies
  <2>2. question # NoQuestion /\ reply # NoReply
        /\ \E v : log' = Append(log, [kind |-> question.kind, key |-> question.key, said |-> said, verdict |-> v])
    BY <2>1 DEF Return, Conclude
  <2>3. said \in Answers /\ NoAnswer \notin Answers
    BY <2>2 DEF IInv, AskedInv, Answers, NoAnswer
  <2>4. log \in Seq([kind : KeyKinds \cup OtherKinds, key : Keys \cup {NoKey},
                     said : Answers \cup {NoAnswer}, verdict : Verdicts])
    BY DEF IInv, TypeOK
  <2>5. log'[Len(log')].said = said
    BY <2>2, <2>4
  <2> QED  BY <2>3, <2>5
<1> QED  BY <1>1, Inductive, PTL DEF Spec, PastQuestionsAreAsked
=============================================================================

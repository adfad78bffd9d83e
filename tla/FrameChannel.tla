----------------------------- MODULE FrameChannel -----------------------------
(***************************************************************************)
(* What the two pipes between proxy and worker promise, and what WorkerCall  *)
(* takes for granted: whole payloads arrive in the order they were sent, and *)
(* the reader learns of the end only after the last of them.                *)
(***************************************************************************)
EXTENDS Naturals, Sequences

CONSTANTS Payloads

VARIABLES sent, received, gone, ended

Init == sent = <<>> /\ received = <<>> /\ gone = FALSE /\ ended = FALSE

Send(p) == ~gone /\ sent' = Append(sent, p) /\ UNCHANGED <<received, gone, ended>>

Receive ==
    /\ ~ended /\ Len(received) < Len(sent)
    /\ received' = Append(received, sent[Len(received) + 1])
    /\ UNCHANGED <<sent, gone, ended>>

\* The writer exits or dies; a payload it had not finished is not sent.
Leave == ~gone /\ gone' = TRUE /\ UNCHANGED <<sent, received, ended>>

End == gone /\ received = sent /\ ended' = TRUE /\ UNCHANGED <<sent, received, gone>>

Next == (\E p \in Payloads : Send(p)) \/ Receive \/ Leave \/ End

Spec == Init /\ [][Next]_<<sent, received, gone, ended>>
=============================================================================

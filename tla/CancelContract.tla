--------------------------- MODULE CancelContract ---------------------------
(***************************************************************************)
(* What one call of a state-changing tool (confirm_install) promises the   *)
(* MCP client about cancellation, whatever happens in between:             *)
(*                                                                         *)
(*   - the call is either cancelled or committed, never first the one and  *)
(*     then the other;                                                     *)
(*   - packages change only in a committed call;                           *)
(*   - the proxy signals the worker only in a cancelled call, and SIGTERM  *)
(*     always comes before SIGKILL;                                        *)
(*   - a success reported to the client means every package was changed.   *)
(*                                                                         *)
(* WorkerCall implements this module (see WorkerCall!Contract).            *)
(***************************************************************************)
CONSTANT Packages      \* the steps of the planned rpm transaction

VARIABLES
  phase,       \* "open", then for good "committed" or "cancelled"
  installed,   \* packages rpm has changed on the system
  signalled,   \* signals the proxy has sent to the worker
  returned     \* what the client was told: "no" while the call is running

vars == <<phase, installed, signalled, returned>>

Init ==
  /\ phase = "open"
  /\ installed = {}
  /\ signalled = {}
  /\ returned = "no"

Cancel ==
  /\ phase = "open"
  /\ phase' = "cancelled"
  /\ UNCHANGED <<installed, signalled, returned>>

Commit ==
  /\ phase = "open"
  /\ phase' = "committed"
  /\ UNCHANGED <<installed, signalled, returned>>

Change(p) ==
  /\ phase = "committed"
  /\ installed' = installed \union {p}
  /\ UNCHANGED <<phase, signalled, returned>>

Signal(s) ==
  /\ phase = "cancelled"
  /\ s = "kill" => "term" \in signalled
  /\ signalled' = signalled \union {s}
  /\ UNCHANGED <<phase, installed, returned>>

Return(r) ==
  /\ returned = "no"
  /\ r = "result" => installed = Packages
  /\ returned' = r
  /\ UNCHANGED <<phase, installed, signalled>>

Next ==
  \/ Cancel
  \/ Commit
  \/ \E p \in Packages : Change(p)
  \/ \E s \in {"term", "kill"} : Signal(s)
  \/ \E r \in {"result", "error", "failed"} : Return(r)

Spec == Init /\ [][Next]_vars
=============================================================================

--------------------------- MODULE PatchRequester ---------------------------
(***************************************************************************)
(* The patches of a solverequest::Requester session: updatePatches(), which*)
(* marks the needed patches of the update stack alone first and all others *)
(* only if there were none, and installPatch(), which install() calls for  *)
(* the patches a name matches.                                             *)
(***************************************************************************)
EXTENDS Integers, FiniteSets

CONSTANTS
  Pools,      \* bound: the sets of patches a session may find
  OptionSets, \* bound: the options it may be created with
  MaxJobs,    \* bound: jobs submitted to one session
  Categories, \* the categories libzypp knows
  Forever,    \* the date limit of a filter without one
  NoPatch     \* PoolItem()

\* A patch: [name, date, status, restart, optional, interactive, category,
\* locked].  One with a later date is a later version of the same patch.
\* Options: [force, skipInteractive, skipOptional, ignored, withUpdate, before,
\* categories], where ignored are the interactive flags rebootReqNonInteractive
\* and autoAgreeWithLicenses take out.

VARIABLES
  patches,    \* the patches in the pool
  opts,       \* the options of the session
  pc,         \* where the session is
  current,    \* Requester::_current
  stackOnly,  \* Job::updateStackOnly
  ignore,     \* the pass: ignore_pkgmgmt
  todo,       \* names (or matches) the loop has not visited yet
  marked,     \* any_marked
  batch,      \* jobs submitted so far
  selections, \* patches selected: [patch, kind, batch]
  feedback,   \* what was reported: [id, patch, batch]
  dropped     \* Effects::droppedWithUpdate

loopVars == <<ignore, todo, marked>>
vars == <<patches, opts, pc, current, stackOnly, loopVars, batch, selections,
          feedback, dropped>>

Named(n)    == {p \in patches : p.name = n}
HasLocks(n) == \E p \in Named(n) : p.locked

Newest(P) == CHOOSE p \in P : \A q \in P : q.date <= p.date

-----------------------------------------------------------------------------
(* installPatch()                                                          *)

\* Options::patchFilter: the first criterion the patch misses.
Missmatch(p) ==
  IF p.date > opts.before THEN "PATCH_TOO_NEW"
  ELSE IF opts.categories # {} /\ p.category \notin opts.categories
       THEN "PATCH_WRONG_CAT"
  ELSE "none"

\* Why a needed patch is not taken.
Refusal(p) ==
  IF p.locked THEN "PATCH_UNWANTED"
  ELSE IF opts.skipOptional /\ p.optional THEN "PATCH_OPTIONAL"
  ELSE IF opts.skipInteractive /\ p.interactive \ opts.ignored # {}
       THEN "PATCH_INTERACTIVE_SKIPPED"
  ELSE Missmatch(p)

\* In the first pass a needed patch outside the update stack is passed over in
\* silence.
Considered(p, pass) == pass = 1 \/ p.restart

Taken(p, pass) ==
  p.status = "needed" /\ Considered(p, pass) /\ Refusal(p) = "none"

Reported(p, pass) ==
  IF p.status # "needed"
  THEN IF current \notin {"Install", "Update"} THEN {}
       ELSE {IF p.status = "satisfied" THEN "ALREADY_INSTALLED" ELSE "PATCH_NOT_NEEDED"}
  ELSE IF ~Considered(p, pass) THEN {}
  ELSE IF Refusal(p) # "none" THEN {Refusal(p)}
  ELSE IF opts.force THEN {"FORCED_INSTALL"}
  ELSE {"SET_TO_INSTALL"} \union (IF HasLocks(p.name) THEN {"INSTALLED_LOCKED"} ELSE {})

InstallPatch(p, pass) ==
  /\ selections' = selections \union
       (IF ~Taken(p, pass) THEN {}
        ELSE {[patch |-> p, batch |-> batch,
               kind |-> IF HasLocks(p.name) /\ ~opts.force
                        THEN "AddRequire" ELSE "SetToInstall"]})
  /\ feedback' = feedback \union
       {[id |-> id, patch |-> p, batch |-> batch] : id \in Reported(p, pass)}
  /\ marked' = (marked \/ Taken(p, pass))

-----------------------------------------------------------------------------
Init ==
  /\ patches \in Pools
  /\ opts \in OptionSets
  /\ pc = "ready" /\ current = "Install" /\ stackOnly = FALSE
  /\ ignore = 0 /\ todo = {} /\ marked = FALSE
  /\ batch = 0 /\ selections = {} /\ feedback = {} /\ dropped = FALSE

\* install(): the best match of every name asked for.
SubmitInstall(op) ==
  /\ pc = "ready" /\ batch < MaxJobs
  /\ current' = op
  /\ \E N \in SUBSET {p.name : p \in patches} \ {{}} : todo' = N
  /\ ignore' = 1 /\ marked' = FALSE
  /\ batch' = batch + 1
  /\ pc' = "matching"
  /\ UNCHANGED <<patches, opts, stackOnly, selections, feedback, dropped>>

VisitMatch(n) ==
  /\ pc = "matching" /\ n \in todo
  /\ \E p \in {q \in Named(n) : q.locked => \A r \in Named(n) : r.locked} :
       InstallPatch(p, 1)
  /\ todo' = todo \ {n}
  /\ pc' = IF todo' = {} THEN "ready" ELSE pc
  /\ UNCHANGED <<patches, opts, current, stackOnly, ignore, batch, dropped>>

SubmitUpdatePatches(only) ==
  /\ pc = "ready" /\ batch < MaxJobs
  /\ current' = "UpdatePatches"
  /\ stackOnly' = only
  /\ ignore' = 0 /\ marked' = FALSE
  /\ todo' = {p.name : p \in patches}
  /\ batch' = batch + 1
  /\ pc' = "marking"
  /\ UNCHANGED <<patches, opts, selections, feedback, dropped>>

\* Fault: the candidate is the newest one even when it is past the limit.
CandidateUndated(n) == Newest(Named(n))

\* A date limit ignores newer candidates (bnc #919709).
Candidate(n) ==
  LET InTime == {p \in Named(n) : p.date <= opts.before}
  IN IF InTime = {} THEN Newest(Named(n)) ELSE Newest(InTime)

Visit(n) ==
  /\ pc = "marking" /\ n \in todo
  /\ InstallPatch(Candidate(n), ignore)
  /\ todo' = todo \ {n}
  /\ UNCHANGED <<patches, opts, pc, current, stackOnly, ignore, batch, dropped>>

\* Fault: the second pass follows whatever the first one marked.
EndFirstPassAlwaysGoingOn ==
  /\ pc = "marking" /\ todo = {} /\ ignore = 0
  /\ IF stackOnly THEN pc' = "ready" /\ UNCHANGED <<todo, ignore>>
     ELSE /\ ignore' = 1 /\ todo' = {p.name : p \in patches}
          /\ UNCHANGED pc
  /\ dropped' = (dropped \/ (marked /\ opts.withUpdate))
  /\ feedback' = IF marked /\ opts.withUpdate
                 THEN feedback \union {[id |-> "DROPPED_WITH_UPDATE",
                                        patch |-> NoPatch, batch |-> batch]}
                 ELSE feedback
  /\ UNCHANGED <<patches, opts, current, stackOnly, marked, batch, selections>>

EndFirstPass ==
  /\ pc = "marking" /\ todo = {} /\ ignore = 0
  /\ dropped' = (dropped \/ (marked /\ opts.withUpdate))
  /\ feedback' = IF marked /\ opts.withUpdate
                 THEN feedback \union {[id |-> "DROPPED_WITH_UPDATE",
                                        patch |-> NoPatch, batch |-> batch]}
                 ELSE feedback
  /\ IF marked \/ stackOnly
     THEN pc' = "ready" /\ UNCHANGED <<todo, ignore>>
     ELSE /\ ignore' = 1 /\ todo' = {p.name : p \in patches}
          /\ UNCHANGED pc
  /\ UNCHANGED <<patches, opts, current, stackOnly, marked, batch, selections>>

EndSecondPass ==
  /\ pc = "marking" /\ todo = {} /\ ignore = 1
  /\ pc' = "ready"
  /\ UNCHANGED <<patches, opts, current, stackOnly, loopVars, batch, selections,
                 feedback, dropped>>

Next ==
  \/ \E op \in {"Install", "Update"} : SubmitInstall(op)
  \/ \E only \in BOOLEAN : SubmitUpdatePatches(only)
  \/ \E n \in todo : VisitMatch(n) \/ Visit(n)
  \/ EndFirstPass \/ EndSecondPass

Spec == Init /\ [][Next]_vars

-----------------------------------------------------------------------------
(* Correctness.                                                            *)

Batch(b)   == {x \in selections : x.batch = b}
OfJob(b)   == {f \in feedback : f.batch = b}
Updating   == current = "UpdatePatches" /\ batch > 0

\* One updatePatches() never marks patches of the update stack together with
\* others: they are to be installed first, by the tools they replace.
UpdateStackAlone ==
  Updating =>
    \/ \A x \in Batch(batch) : x.patch.restart
    \/ \A x \in Batch(batch) : ~x.patch.restart /\ ~stackOnly

\* with-update is dropped, and the caller told so, exactly when the session has
\* restricted itself to the update stack.
DropIsAnnounced ==
  /\ dropped = (\E f \in feedback : f.id = "DROPPED_WITH_UPDATE")
  /\ Updating /\ pc = "ready" /\ opts.withUpdate =>
       ((\E x \in Batch(batch) : x.patch.restart)
          = (\E f \in OfJob(batch) : f.id = "DROPPED_WITH_UPDATE"))

\* When updatePatches() is over and the update stack was not the subject, every
\* needed patch, in its newest version the date limit allows, was selected or
\* refused for a reason the caller is told.
NeededPatchesAnswered ==
  Updating /\ pc = "ready" /\ ~stackOnly
    /\ (\A x \in Batch(batch) : ~x.patch.restart) =>
    \A p \in patches :
      /\ p.status = "needed" /\ p.date <= opts.before
      /\ \A q \in Named(p.name) : p.date < q.date => q.date > opts.before
      => \/ \E x \in Batch(batch) : x.patch = p
         \/ \E f \in OfJob(batch) : f.patch = p

-----------------------------------------------------------------------------
(* What comments say of the session and it does not do.                    *)

\* "Patch was requested but is locked (set to ignore). Can be forced via
\* Options::force." (feedback.h:75-76)
UnwantedCanBeForced ==
  opts.force => \A f \in feedback : f.id # "PATCH_UNWANTED"

\* The warnings about filter values nobody knows are what "the caller
\* (Requester) drains into its own feedback vector" (patchfilter.h:8).
SuspiciousFilterReported ==
  pc = "ready" /\ batch > 0 /\ opts.categories \ Categories # {} =>
    \E f \in feedback : f.id = "SUSPICIOUS_CATEGORY_FILTER"
=============================================================================

-------------------------- MODULE RequesterSessions --------------------------
(***************************************************************************)
(* Sessions of solverequest::Requester of either sort: jobs about packages   *)
(* (Requester) and jobs about patches (PatchRequester).  The options, the    *)
(* place in the session and the running operation are the same members; one  *)
(* session is looked at with one sort of jobs.                              *)
(***************************************************************************)
EXTENDS Requester

CONSTANTS
  PatchPools, PatchOptions, MaxPatchJobs, \* bounds of the sessions about patches
  Categories, Forever, NoPatch

VARIABLES
  patches, stackOnly, ignore, todo, marked, batch, selections, feedback, dropped

Patch == INSTANCE PatchRequester
           WITH Pools <- PatchPools, OptionSets <- PatchOptions, MaxJobs <- MaxPatchJobs

\* A name and a date make one patch.
ASSUME PatchAssumption ==
  \A P \in PatchPools :
    /\ P # {}
    /\ \A p \in P : p.date \in Nat
    /\ \A p, q \in P : p.name = q.name /\ p.date = q.date => p = q

ASSUME BoundAssumption ==
  /\ MaxPatchJobs \in Nat /\ Forever \in Nat
  /\ \A o \in PatchOptions : o.before \in Nat

packageVars == <<pool, byCap, byName, job, submitted, dos, donts, loopVars, session,
                 finished, resolver>>
patchVars == <<patches, stackOnly, ignore, todo, marked, batch, selections, feedback,
               dropped>>

AboutPatches == patches # {}

AnyInit ==
  \/ /\ Init
     /\ patches = {} /\ stackOnly = FALSE /\ ignore = 0 /\ todo = {} /\ marked = FALSE
     /\ batch = 0 /\ selections = {} /\ feedback = {} /\ dropped = FALSE
  \/ /\ Patch!Init
     /\ pool = [items |-> {}, locked |-> {}] /\ byCap = FALSE /\ byName = FALSE
     /\ job = NoSpec /\ submitted = 0 /\ dos = {} /\ donts = {}
     /\ spec = NoSpec /\ names = {} /\ absent = {}
     /\ session = Nothing /\ finished = {} /\ resolver = Untouched

PackageJobs == ~AboutPatches /\ Next /\ UNCHANGED patchVars
PatchJobs   == AboutPatches /\ Patch!Next /\ UNCHANGED packageVars

SessionSpec == AnyInit /\ [][PackageJobs \/ PatchJobs]_<<vars, patchVars>>

-----------------------------------------------------------------------------
\* requester.cc:406-464: one updatePatches() takes the update stack alone, and
\* with-update is dropped, aloud, exactly then.
UpdateStackGoesAlone == Patch!UpdateStackAlone /\ Patch!DropIsAnnounced

\* requester.cc:423-435, 492-536: every needed patch the date limit allows is
\* selected or refused for a reason the caller is told.
EveryNeededPatchAnswered == Patch!NeededPatchesAnswered

\* feedback.h:75-76 and patchfilter.h:8, see PatchRequester.
UnwantedPatchCanBeForced == Patch!UnwantedCanBeForced
SuspiciousPatchFilterReported == Patch!SuspiciousFilterReported
=============================================================================

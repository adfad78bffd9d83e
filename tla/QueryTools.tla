------------------------------ MODULE QueryTools ------------------------------
(***************************************************************************)
(* The four read-only tools behind one dispatch: a call of check_updates     *)
(* goes through UpdateQuery, any other through PackageQueries.  They share   *)
(* the frame of a call: argument check, lock, answer.                       *)
(***************************************************************************)
EXTENDS PackageQueries

CONSTANTS
    Categories, Severities, Dates, Issues, None, Malformed, PatchSets,
    UpdateRequests      \* the calls of check_updates to look at

VARIABLE patches        \* the patches of the pool

Updates == INSTANCE UpdateQuery WITH Requests <- UpdateRequests

ASSUME DatesAssumption == Dates \subseteq Nat
ASSUME NoneAssumption ==
    None \notin Categories /\ None \notin Severities /\ None \notin Dates /\ Malformed # None
ASSUME IssuesAssumption == \A i \in Issues :
    i.type \in {"cve", "bugzilla"} /\ i.id # None /\ i = [type |-> i.type, id |-> i.id]
ASSUME PatchesAssumption == PatchSets \subseteq SUBSET Updates!Patches
ASSUME RequestsAssumption ==
    /\ \A r \in UpdateRequests : r.tool = "updates"
    /\ \A r \in Requests : r.tool \in {"search", "providers", "dependents"}

AnyInit == \/ Init /\ patches = {}
           \/ Updates!Init /\ pool = {} /\ loaded = FALSE

CheckUpdates == request.tool = "updates" /\ Updates!Next /\ UNCHANGED <<pool, loaded>>
ListPackages == request.tool # "updates" /\ Next /\ UNCHANGED patches

QuerySpec == AnyInit /\ [][CheckUpdates \/ ListPackages]_<<vars, patches>>

-----------------------------------------------------------------------------
\* updates.cc:15-53: check_updates lists exactly the patches every given filter
\* describes, in every combination but the two named in UpdateQuery.
PatchFiltersMeanWhatTheySay == request.tool = "updates" => Updates!FiltersMeanWhatTheySay

\* updates.cc:40 and :35, each filter by itself.
EveryCveIsAFilter == request.tool = "updates" => Updates!CveIsAFilter
EveryDateIsALimit == request.tool = "updates" => Updates!DateIsALimit
=============================================================================

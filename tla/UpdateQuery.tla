----------------------------- MODULE UpdateQuery -----------------------------
(***************************************************************************)
(* check_updates (worker/src/tools/updates.cc): validate six optional       *)
(* filters, load the system, and list the patches that pass.                *)
(*                                                                         *)
(* Dates are days since the epoch, what zypp::Date holds at midnight in UTC;  *)
(* a Date that was never set holds 0 as well.                               *)
(***************************************************************************)
EXTENDS Naturals, FiniteSets

CONSTANTS
    Categories, Severities,
    Dates,              \* days a patch may be issued on
    Issues,             \* references of patches: [type, id]
    None,               \* an argument the caller left out
    Malformed,          \* a value of an argument that does not parse
    PatchSets,          \* the pools to look at, each a set of patches
    Requests            \* the calls to look at

VARIABLES request, patches, locked, phase, code, rows
vars == <<request, patches, locked, phase, code, rows>>

Patches == [needed : BOOLEAN, category : Categories, severity : Severities,
            date : Dates, issues : SUBSET Issues]

Arguments == {"category", "severity", "date", "cve", "bugzilla"}
Given(r, name) == r[name] # None
Invalid(r) == r.notBool \/ \E name \in Arguments : r[name] = Malformed

-----------------------------------------------------------------------------
\* "filterDate && timestamp >= filterDate" skips a patch; a Date converts to
\* false when it is 0.
DatePasses(p, r) ==
    LET filterDate == IF Given(r, "date") THEN r.date ELSE 0
    IN filterDate = 0 \/ p.date < filterDate

\* patchMatchesIssue: any reference that is the CVE or the bug will do.
IssueMatches(p, r) ==
    \/ ~Given(r, "cve") /\ ~Given(r, "bugzilla")
    \/ \E i \in p.issues : \/ i.type = "cve" /\ i.id = r.cve
                           \/ i.type = "bugzilla" /\ i.id = r.bugzilla

\* Fault: a patch that is not needed is listed when it is of the asked category.
PassesByCategory(p, r) ==
    /\ r.applicableOnly /\ ~Given(r, "category") => p.needed
    /\ Given(r, "category") => p.category = r.category
    /\ Given(r, "severity") => p.severity = r.severity
    /\ DatePasses(p, r) /\ IssueMatches(p, r)

Passes(p, r) ==
    /\ r.applicableOnly => p.needed
    /\ Given(r, "category") => p.category = r.category
    /\ Given(r, "severity") => p.severity = r.severity
    /\ DatePasses(p, r) /\ IssueMatches(p, r)

Listed(r) == {p \in patches : Passes(p, r)}

-----------------------------------------------------------------------------
Reject ==
    /\ phase = "called" /\ Invalid(request)
    /\ phase' = "done" /\ code' = "EXCEPTION"
    /\ UNCHANGED <<request, patches, locked, rows>>

\* loadSystemFromArg: the ZYpp lock is taken here, or LOCKED ends the call.
Load ==
    /\ phase = "called" /\ ~Invalid(request)
    /\ IF locked THEN phase' = "done" /\ code' = "LOCKED"
                 ELSE phase' = "loaded" /\ UNCHANGED code
    /\ UNCHANGED <<request, patches, locked, rows>>

List ==
    /\ phase = "loaded"
    /\ rows' = Listed(request) /\ phase' = "done" /\ code' = "result"
    /\ UNCHANGED <<request, patches, locked>>

Init ==
    /\ request \in Requests /\ patches \in PatchSets /\ locked \in BOOLEAN
    /\ phase = "called" /\ code = "none" /\ rows = {}

Next == Reject \/ Load \/ List

Spec == Init /\ [][Next]_vars

-----------------------------------------------------------------------------
Answered == phase = "done" /\ code = "result"

\* What the schema says of each argument, one by one (updates.cc:15-53).
Meaning(p, r) ==
    [applicable |-> r.applicableOnly => p.needed,
     category   |-> Given(r, "category") => p.category = r.category,
     severity   |-> Given(r, "severity") => p.severity = r.severity,
     date       |-> Given(r, "date") => p.date < r.date,
     cve        |-> Given(r, "cve") => [type |-> "cve", id |-> r.cve] \in p.issues,
     bugzilla   |-> Given(r, "bugzilla") => [type |-> "bugzilla", id |-> r.bugzilla] \in p.issues]
Agrees(p, r) == \A f \in DOMAIN Meaning(p, r) : Meaning(p, r)[f]

\* The list is exactly the patches every given filter describes, in every
\* combination but two: both issue arguments, and the first day of the epoch.
FiltersMeanWhatTheySay ==
    Answered /\ ~(Given(request, "cve") /\ Given(request, "bugzilla")) /\ request.date # 0 =>
        rows = {p \in patches : Agrees(p, request)}

\* updates.cc:40: "Filter patches that fix the specified CVE identifier".
CveIsAFilter ==
    Answered => \A p \in rows : Meaning(p, request).cve

\* updates.cc:35: "Select patches issued up to but not including this date".
DateIsALimit ==
    Answered => \A p \in rows : Meaning(p, request).date
=============================================================================

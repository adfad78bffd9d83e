---------------------------- MODULE PackageQueries ----------------------------
(***************************************************************************)
(* The read-only tools that list packages: search_packages, find_providers  *)
(* and find_dependents.  Each validates its arguments, loads the system and  *)
(* answers with one frame; an answer is a function of the request and of the *)
(* pool, so the interesting part is which rows it has.                      *)
(*                                                                         *)
(* A solvable is an identity (name, kind, edition) in a repository; an       *)
(* installed package is a solvable of @System and may have a twin: the same  *)
(* identity in a repository.  What a pattern, a capability or a dependency   *)
(* matches is libsolv's answer, given by the operator constants.            *)
(***************************************************************************)
EXTENDS Naturals, FiniteSets

CONSTANTS
    Idents,             \* identities: [name, kind, ed]
    Hidden,             \* the user-invisible patterns among them
    Repos, Priority,    \* repositories and their rank, 0 first
    Hits(_, _),         \* identities the search pattern matches: attribute, mode
    DescriptionHits,    \* identities whose summary or description it matches
    Providers,          \* identities that provide the capability asked for
    Named(_),           \* identities the package name finds: exactly or not
    Depends(_, _),      \* identities in a relation to an identity
    Pools, Requests     \* the systems and the calls to look at

SYSTEM == "@System"
Solvables == [id : Idents, repo : Repos \cup {SYSTEM}]

ASSUME HiddenAssumption == Hidden \subseteq {i \in Idents : i.kind = "pattern"}
ASSUME ReposAssumption == SYSTEM \notin Repos /\ Priority \in [Repos -> Nat]
ASSUME EditionsAssumption == \A i \in Idents : i.ed \in Nat
ASSUME PoolsAssumption == \A p \in Pools : p \subseteq Solvables /\ IsFiniteSet(p)

VARIABLES request, pool, locked, phase, loaded, code, rows
vars == <<request, pool, locked, phase, loaded, code, rows>>

(* An enum argument: what the caller wrote, "" when absent, and whether it   *)
(* is written as in the schema.  validate.h accepts any case and hands the   *)
(* text on unchanged.                                                       *)
Absent == [value |-> "", asWritten |-> TRUE]

\* A comparison of the code with a literal.
Is(arg, literal) == arg.value = literal /\ arg.asWritten

-----------------------------------------------------------------------------
(* The pool *)

Available == {s \in pool : s.repo # SYSTEM}
Twins(s) == {t \in Available : t.id = s.id}
Same(i, j) == i.name = j.name /\ i.kind = j.kind
InstalledObj(i) == {s \in pool : s.repo = SYSTEM /\ Same(s.id, i)}
AnyInstalled(i) == InstalledObj(i) # {}

\* Selectable::picklistPos: an installed solvable with a twin has no position.
InPicklist(s) == s.repo # SYSTEM \/ Twins(s) = {}

PicklistAccept(s, installedOnly) ==
    InPicklist(s) /\ (installedOnly => AnyInstalled(s.id))

\* kindFromString and the filter of find_providers and find_dependents
KindOf(type) == IF type \in {"patch", "pattern", "product"} THEN type ELSE "package"
PassesFilters(s, r) ==
    /\ r.type = "all" \/ s.id.kind = KindOf(r.type)
    /\ r.repo = "" \/ s.repo = r.repo

\* identicalAvailableObj, candidateObj: the best priority wins, then the edition
Best(ss) == CHOOSE s \in ss : \A t \in ss :
    \/ Priority[s.repo] < Priority[t.repo]
    \/ Priority[s.repo] = Priority[t.repo] /\ s.id.ed >= t.id.ed

Row(s) == [id |-> s.id, repo |-> s.repo]

-----------------------------------------------------------------------------
(* search_packages *)

\* "/.../" and wildcards are looked for only when "match" is absent.
SearchMode(r) ==
    CASE r.match = Absent /\ r.special -> "pattern"
      [] Is(r.match, "words") -> "words"
      [] Is(r.match, "exact") -> "exact"
      [] OTHER -> "substrings"

\* searchInToAttr
SearchAttr(r) ==
    IF \E a \in {"provides", "requires", "recommends", "conflicts", "obsoletes"} : Is(r.searchIn, a)
    THEN r.searchIn.value ELSE "name"

\* The solvables the PoolQuery delivers.
Matched(r) == {s \in pool :
    /\ s.id \in Hits(SearchAttr(r), SearchMode(r)) \cup (IF r.descriptions THEN DescriptionHits ELSE {})
    /\ r.type # "" => s.id.kind = KindOf(r.type)
    /\ r.repo # "" => s.repo = r.repo
    /\ r.notInstalledOnly => s.repo # SYSTEM}

DetailRows(r) == {Row(s) : s \in {m \in Matched(r) : PicklistAccept(m, r.installedOnly)}}

\* The installed object and the candidate of a name.
Installed(i) == CHOOSE s \in InstalledObj(i) : TRUE
Candidate(i) == Best({s \in Available : Same(s.id, i)})

\* Fault: the repository is the candidate's, which may be of another edition.
RepresentativeOfCandidate(i) ==
    IF ~AnyInstalled(i) THEN Row(Candidate(i))
    ELSE IF Twins(Installed(i)) = {} THEN Row(Installed(i))
    ELSE [id |-> Installed(i).id, repo |-> Candidate(i).repo]

\* The installed object under its origin repository, else the candidate.
Representative(i) ==
    IF ~AnyInstalled(i) THEN Row(Candidate(i))
    ELSE IF Twins(Installed(i)) = {} THEN Row(Installed(i))
    ELSE [id |-> Installed(i).id, repo |-> Best(Twins(Installed(i))).repo]

\* Selectable::theObj, whose visibility decides about a pattern
TheObj(i) == IF AnyInstalled(i) THEN Installed(i).id ELSE Candidate(i).id

NameRows(r) == {Representative(i) : i \in {m.id : m \in {s \in Matched(r) :
    /\ TheObj(s.id) \notin Hidden
    /\ r.installedOnly => AnyInstalled(s.id)
    /\ r.notInstalledOnly => ~AnyInstalled(s.id)}}}

SearchRows(r) == IF r.details THEN DetailRows(r) ELSE NameRows(r)

-----------------------------------------------------------------------------
(* find_providers and find_dependents *)

ProviderRows(r) == {Row(s) : s \in {m \in pool :
    m.id \in Providers /\ PassesFilters(m, r) /\ PicklistAccept(m, r.installedOnly)}}

\* relationToAttr
RelationAttr(r) ==
    IF \E a \in {"recommends", "conflicts", "obsoletes"} : Is(r.relation, a)
    THEN r.relation.value ELSE "requires"

\* Packages of that name, installed or not.
Seeds(r) == {s \in pool : s.id.kind = "package" /\ s.id \in Named(r.exact)}

\* Fault: only the last seed's dependents are kept.
DependentRowsOfOne(r) == IF Seeds(r) = {} THEN {} ELSE
    LET seed == CHOOSE s \in Seeds(r) : TRUE
    IN {Row(s) : s \in {m \in pool : m.id \in Depends(RelationAttr(r), seed.id)
                            /\ PassesFilters(m, r) /\ PicklistAccept(m, r.installedOnly)}}

DependentRows(r) == {Row(s) : s \in {m \in pool :
    /\ \E seed \in Seeds(r) : m.id \in Depends(RelationAttr(r), seed.id)
    /\ PassesFilters(m, r) /\ PicklistAccept(m, r.installedOnly)}}

-----------------------------------------------------------------------------
(* The call *)

Invalid(r) == r.invalid \/ (r.tool = "search" /\ r.installedOnly /\ r.notInstalledOnly)

\* validate:: throws before loadSystemFromArg; main() reports EXCEPTION.
Reject ==
    /\ phase = "called" /\ Invalid(request)
    /\ phase' = "done" /\ code' = "EXCEPTION" /\ UNCHANGED <<request, pool, locked, loaded, rows>>

Load ==
    /\ phase = "called" /\ ~Invalid(request)
    /\ IF locked THEN phase' = "done" /\ code' = "LOCKED" /\ UNCHANGED loaded
                 ELSE phase' = "loaded" /\ loaded' = TRUE /\ UNCHANGED code
    /\ UNCHANGED <<request, pool, locked, rows>>

AnswerWith(found, notFound) ==
    /\ phase' = "done"
    /\ IF notFound THEN code' = "NOT_FOUND" /\ UNCHANGED rows
                   ELSE code' = "result" /\ rows' = found
    /\ UNCHANGED <<request, pool, locked, loaded>>

Search ==
    /\ phase = "loaded" /\ request.tool = "search"
    /\ AnswerWith(SearchRows(request), FALSE)

FindProviders ==
    /\ phase = "loaded" /\ request.tool = "providers"
    /\ LET found == ProviderRows(request) IN AnswerWith(found, found = {})

FindDependents ==
    /\ phase = "loaded" /\ request.tool = "dependents"
    /\ AnswerWith(DependentRows(request), Seeds(request) = {})

Init ==
    /\ request \in Requests /\ pool \in Pools /\ locked \in BOOLEAN
    /\ phase = "called" /\ loaded = FALSE /\ code = "none" /\ rows = {}

Next == Reject \/ Load \/ Search \/ FindProviders \/ FindDependents

Spec == Init /\ [][Next]_vars

-----------------------------------------------------------------------------
Answered(tool) == phase = "done" /\ code = "result" /\ request.tool = tool
Listing == \E tool \in {"search", "providers", "dependents"} : Answered(tool)

\* Only identities of the pool are shown, each under a repository that has it.
RowsAreReal == Listing => \A row \in rows : \E s \in pool : s.id = row.id /\ s.repo = row.repo

\* Without a repository in the request nothing that matches is lost: a dropped
\* installed solvable is there under the repository of a twin.
EveryMatchIsShown ==
    Listing /\ request.repo = "" /\ ~request.installedOnly
    =>  LET kept == {row.id : row \in rows} IN
        /\ request.tool = "search" /\ ~request.notInstalledOnly =>
                \A s \in Matched(request) :
                    IF request.details THEN s.id \in kept
                    ELSE TheObj(s.id) \in Hidden \/ \E i \in kept : Same(i, s.id)
        /\ request.tool = "providers" =>
                \A s \in pool : s.id \in Providers /\ PassesFilters(s, request) => s.id \in kept
        /\ request.tool = "dependents" =>
                \A seed \in Seeds(request) : \A s \in pool :
                    s.id \in Depends(RelationAttr(request), seed.id) /\ PassesFilters(s, request)
                        => s.id \in kept

\* search_packages.cc:55: not_installed_only shows "only packages not yet installed".
NotInstalledMeansNot ==
    Answered("search") /\ request.notInstalledOnly => \A row \in rows : ~AnyInstalled(row.id)

\* search_packages.cc:70: "Restrict search to this repository alias."
RowsComeFromTheRepo ==
    Answered("search") /\ request.repo # "" => \A row \in rows : row.repo = request.repo

\* tools.h:121: of an installed solvable with a twin "the available twin will
\* appear separately", so no installed provider that was asked for is missing.
TwinAppears ==
    phase = "done" /\ code \in {"result", "NOT_FOUND"} /\ request.tool = "providers" => \A s \in pool :
        s.repo = SYSTEM /\ s.id \in Providers /\ PassesFilters(s, request)
            => \E row \in rows : row.id = s.id

\* search_packages.cc:28: the default of "match" is "substrings": a caller may
\* leave it out or write it.
DefaultMatchIsSubstrings ==
    Answered("search") /\ request.match.value = "substrings" =>
        rows = SearchRows([request EXCEPT !.match = Absent])

\* validate.h:43: enum values are compared case-insensitively, so the case the
\* caller writes a relation in makes no difference.
CaseMakesNoDifference ==
    Answered("dependents") =>
        rows = DependentRows([request EXCEPT !.relation.asWritten = TRUE])
=============================================================================

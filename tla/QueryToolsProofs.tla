-------------------------- MODULE QueryToolsProofs --------------------------
(***************************************************************************)
(* What the rows of the read-only tools are, for every pool of solvables,   *)
(* every pool of patches and every request.  An answer is a function of the *)
(* request and of the pool, which is all the invariant says; the work is in *)
(* the functions: that there is a best solvable among finitely many, and    *)
(* that a solvable the picklist drops has a twin that stands in for it.     *)
(***************************************************************************)
EXTENDS QueryTools, FiniteSetTheorems, TLAPS

-----------------------------------------------------------------------------
(* The best of several solvables.                                          *)

Better(t, s) ==
  \/ Priority[t.repo] < Priority[s.repo]
  \/ Priority[t.repo] = Priority[s.repo] /\ t.id.ed > s.id.ed

\* Among finitely many available solvables one is the best: one with the fewest
\* better ones, in the library's order on finite sets.
LEMMA BestExists ==
  ASSUME pool \in Pools, NEW ss \in SUBSET Available, ss # {}
  PROVE  Best(ss) \in ss
  <1> DEFINE Betters(s) == {t \in ss : Better(t, s)}
             All == {Betters(s) : s \in ss}
             R == StrictSubsetOrdering(ss)
  <1>1. \A s \in ss : Priority[s.repo] \in Nat /\ s.id.ed \in Nat
    BY ReposAssumption, EditionsAssumption, PoolsAssumption DEF Available, Solvables
  <1>2. IsFiniteSet(ss)
    BY PoolsAssumption, FS_Subset DEF Available
  <1>3. IsWellFoundedOn(R, FiniteSubsetsOf(ss))
    BY FS_StrictSubsetOrderingWellFounded
  <1>4. All \subseteq FiniteSubsetsOf(ss) /\ All # {}
    <2>1. FiniteSubsetsOf(ss) = SUBSET ss
      BY <1>2, FS_FiniteSubsetsOfFinite
    <2>2. \A s \in ss : Betters(s) \in SUBSET ss
      OBVIOUS
    <2> HIDE DEF Betters
    <2>3. QED
      BY <2>1, <2>2
  <1> HIDE DEF R
  <1>5. PICK B \in All : \A C \in All : <<C, B>> \notin R
    BY <1>3, <1>4, WFMin
  <1>6. PICK s \in ss : B = Betters(s)
    BY <1>5
  <1>7. ASSUME NEW t \in ss, Better(t, s) PROVE FALSE
    <2>1. Betters(t) \subseteq Betters(s)
      <3>1. ASSUME NEW u \in ss, Better(u, t) PROVE Better(u, s)
        BY <1>1, <1>7, <3>1 DEF Better
      <3>2. QED
        BY <3>1
    <2>2. t \in Betters(s) /\ t \notin Betters(t)
      BY <1>1, <1>7 DEF Better
    <2>3. <<Betters(t), Betters(s)>> \in R
      BY <2>1, <2>2 DEF R, StrictSubsetOrdering
    <2>4. QED
      BY <1>5, <1>6, <2>3
  <1>8. \A t \in ss : \/ Priority[s.repo] < Priority[t.repo]
                      \/ Priority[s.repo] = Priority[t.repo] /\ s.id.ed >= t.id.ed
    BY <1>1, <1>7 DEF Better
  <1>9. QED
    BY <1>8 DEF Best

-----------------------------------------------------------------------------
(* The row that represents a name.                                         *)

LEMMA RepresentativeIs ==
  ASSUME pool \in Pools, NEW m \in pool
  PROVE  /\ \E s \in pool : /\ s.id = Representative(m.id).id
                             /\ s.repo = Representative(m.id).repo
         /\ Same(Representative(m.id).id, m.id)
  <1> DEFINE ss  == {s \in Available : Same(s.id, m.id)}
             obj == Installed(m.id)
  <1>0. PICK row : row = Representative(m.id)
    OBVIOUS
  <1> SUFFICES (\E s \in pool : s.id = row.id /\ s.repo = row.repo) /\ Same(row.id, m.id)
    BY <1>0
  <1>1. Available \subseteq pool
    BY DEF Available
  <1>2. CASE ~AnyInstalled(m.id)
    <2>1. m.repo # SYSTEM
      BY <1>2 DEF AnyInstalled, InstalledObj, Same
    <2>2. m \in ss
      BY <2>1 DEF Available, Same
    <2>3. Best(ss) \in ss
      BY <2>2, BestExists
    <2>4. row = Row(Best(ss))
      BY <1>0, <1>2 DEF Representative, Candidate
    <2>5. PICK b : b = Best(ss) /\ b \in Available /\ Same(b.id, m.id)
      BY <2>3
    <2>6. QED
      BY <1>1, <2>4, <2>5 DEF Row
  <1>3. CASE AnyInstalled(m.id)
    <2>1. obj \in InstalledObj(m.id)
      BY <1>3 DEF AnyInstalled, Installed
    <2>2. PICK o : o = obj /\ o \in pool /\ Same(o.id, m.id)
      BY <2>1 DEF InstalledObj
    <2>3. row = IF Twins(o) = {} THEN Row(o) ELSE [id |-> o.id, repo |-> Best(Twins(o)).repo]
      BY <1>0, <1>3, <2>2 DEF Representative
    <2>4. Twins(o) # {} => Best(Twins(o)) \in Available /\ Best(Twins(o)).id = o.id
      <3>1. Twins(o) \in SUBSET Available
        BY DEF Twins
      <3>2. Twins(o) # {} => Best(Twins(o)) \in Twins(o)
        BY <3>1, BestExists
      <3>3. QED
        BY <3>2 DEF Twins
    <2>5. PICK b : b = Best(Twins(o))
      OBVIOUS
    <2>6. CASE Twins(o) = {}
      <3>1. row.id = o.id /\ row.repo = o.repo
        BY <2>3, <2>6 DEF Row
      <3>2. QED
        BY <2>2, <3>1
    <2>7. CASE Twins(o) # {}
      <3>1. b \in pool /\ b.id = o.id
        BY <1>1, <2>4, <2>5, <2>7
      <3>2. row.id = o.id /\ row.repo = b.repo
        BY <2>3, <2>5, <2>7
      <3>3. QED
        BY <2>2, <3>1, <3>2
    <2>8. QED
      BY <2>6, <2>7
  <1>4. QED
    BY <1>2, <1>3

\* A solvable the picklist does not have is an installed one, and a twin of it
\* is there.
LEMMA TwinStandsIn ==
  ASSUME NEW s \in pool, ~InPicklist(s)
  PROVE  \E t \in pool : t.id = s.id /\ t.repo # SYSTEM /\ InPicklist(t)
  BY DEF InPicklist, Twins, Available

-----------------------------------------------------------------------------
(* The invariant.                                                          *)

QueryInv ==
  /\ request.tool = "updates" =>
       /\ patches \in PatchSets
       /\ Updates!Answered => rows = Updates!Listed(request)
  /\ request.tool # "updates" =>
       /\ pool \in Pools
       /\ Answered("search") => rows = SearchRows(request)
       /\ Answered("providers") => rows = ProviderRows(request)
       /\ Answered("dependents") => rows = DependentRows(request)

LEMMA QueryInit == AnyInit => QueryInv
  BY RequestsAssumption DEF AnyInit, Init, Updates!Init, QueryInv, Answered, Updates!Answered

\* The answers are functions of the pool.
LEMMA SamePool ==
  ASSUME UNCHANGED pool
  PROVE  \A r : /\ SearchRows(r)' = SearchRows(r)
                /\ ProviderRows(r)' = ProviderRows(r)
                /\ DependentRows(r)' = DependentRows(r)
  <1>1. Available' = Available
    BY DEF Available
  <1>2. \A s : Twins(s)' = Twins(s)
    BY <1>1 DEF Twins
  <1>3. \A i : InstalledObj(i)' = InstalledObj(i)
    BY DEF InstalledObj
  <1>4. \A i : AnyInstalled(i)' = AnyInstalled(i)
    BY <1>3 DEF AnyInstalled
  <1>5. \A s : InPicklist(s)' = InPicklist(s)
    BY <1>2 DEF InPicklist
  <1>6. \A s, only : PicklistAccept(s, only)' = PicklistAccept(s, only)
    BY <1>4, <1>5 DEF PicklistAccept
  <1>7. \A r : Matched(r)' = Matched(r)
    BY DEF Matched
  <1>8. \A i : Candidate(i)' = Candidate(i) /\ Installed(i)' = Installed(i)
    <2>1. ASSUME NEW i PROVE Candidate(i)' = Candidate(i)
      <3>1. PICK av : av = {s \in Available : Same(s.id, i)}
        OBVIOUS
      <3>2. av = {s \in Available' : Same(s.id, i)}
        BY <1>1, <3>1
      <3>3. Candidate(i) = Best(av) /\ Candidate(i)' = Best(av)
        BY <3>1, <3>2, Zenon DEF Candidate
      <3>4. QED
        BY <3>3
    <2>2. ASSUME NEW i PROVE Installed(i)' = Installed(i)
      <3>1. PICK inst : inst = InstalledObj(i)
        OBVIOUS
      <3>2. inst = InstalledObj(i)'
        BY <1>3, <3>1
      <3>3. /\ Installed(i) = CHOOSE s \in inst : TRUE
            /\ Installed(i)' = CHOOSE s \in inst : TRUE
        BY <3>1, <3>2, Zenon DEF Installed
      <3>4. QED
        BY <3>3
    <2>3. QED
      BY <2>1, <2>2
  <1>9. \A s : Best(Twins(s))' = Best(Twins(s))
    <2>1. ASSUME NEW s PROVE Best(Twins(s))' = Best(Twins(s))
      <3>1. PICK twins : twins = Twins(s)
        OBVIOUS
      <3>2. twins = Twins(s)'
        BY <1>2, <3>1
      <3>3. QED
        BY <3>1, <3>2, Zenon
    <2>2. QED
      BY <2>1
  <1>10. \A i : Representative(i)' = Representative(i) /\ TheObj(i)' = TheObj(i)
    BY <1>2, <1>4, <1>8, <1>9 DEF Representative, TheObj, Row
  <1>11. \A r : DetailRows(r)' = DetailRows(r)
    BY <1>6, <1>7 DEF DetailRows
  <1>12. \A r : NameRows(r)' = NameRows(r)
    BY <1>4, <1>7, <1>10 DEF NameRows
  <1>13. \A r : Seeds(r)' = Seeds(r)
    BY DEF Seeds
  <1>14. \A r : SearchRows(r)' = SearchRows(r)
    BY <1>11, <1>12 DEF SearchRows
  <1>15. \A r : ProviderRows(r)' = ProviderRows(r)
    BY <1>6 DEF ProviderRows
  <1>16. \A r : DependentRows(r)' = DependentRows(r)
    BY <1>6, <1>13 DEF DependentRows
  <1>17. QED
    BY <1>14, <1>15, <1>16

LEMMA UpdatesStep ==
  ASSUME QueryInv, CheckUpdates
  PROVE  QueryInv'
  <1>1. request' = request /\ request.tool = "updates" /\ UNCHANGED patches
    BY DEF CheckUpdates, Updates!Next, Updates!Reject, Updates!Load, Updates!List
  <1>2. \A r : Updates!Listed(r)' = Updates!Listed(r)
    BY <1>1 DEF Updates!Listed
  <1>3. Updates!Answered' => rows' = Updates!Listed(request)
    BY DEF CheckUpdates, Updates!Next, Updates!Reject, Updates!Load, Updates!List,
       Updates!Answered
  <1>4. QED
    BY <1>1, <1>2, <1>3 DEF QueryInv

LEMMA PackagesStep ==
  ASSUME QueryInv, ListPackages
  PROVE  QueryInv'
  <1> USE DEF ListPackages, Next, Reject, Load, Search, FindProviders, FindDependents,
          AnswerWith
  <1>1. request' = request /\ request.tool # "updates" /\ UNCHANGED pool
    OBVIOUS
  <1>2. \A r : /\ SearchRows(r)' = SearchRows(r)
               /\ ProviderRows(r)' = ProviderRows(r)
               /\ DependentRows(r)' = DependentRows(r)
    BY <1>1, SamePool
  <1>3. /\ Answered("search")' => rows' = SearchRows(request)
        /\ Answered("providers")' => rows' = ProviderRows(request)
        /\ Answered("dependents")' => rows' = DependentRows(request)
    BY <1>1 DEF Answered
  <1>4. QED
    BY <1>1, <1>2, <1>3 DEF QueryInv

LEMMA QueryStutter ==
  ASSUME QueryInv, UNCHANGED <<vars, patches>>
  PROVE  QueryInv'
  <1>1. UNCHANGED <<request, pool, phase, code, rows, patches>>
    BY DEF vars
  <1>2. \A r : Updates!Listed(r)' = Updates!Listed(r)
    BY <1>1 DEF Updates!Listed
  <1>3. \A tool : Answered(tool)' <=> Answered(tool)
    BY <1>1 DEF Answered
  <1>4. Updates!Answered' <=> Updates!Answered
    BY <1>1 DEF Updates!Answered
  <1>5. QED
    BY <1>1, <1>2, <1>3, <1>4, SamePool DEF QueryInv

\* What the theorems below need of the state machine: the rows of an answer are
\* those the request and the pool determine, and the pool is typed.
LEMMA QueryInvHolds == QuerySpec => []QueryInv
  <1>1. QueryInv /\ [CheckUpdates \/ ListPackages]_<<vars, patches>> => QueryInv'
    BY UpdatesStep, PackagesStep, QueryStutter
  <1>2. QED
    BY <1>1, QueryInit, PTL DEF QuerySpec

-----------------------------------------------------------------------------
(* Packages.                                                               *)

\* No tool shows an identity that is not in the pool, or under a repository that
\* does not have it (search_packages.cc, find_providers.cc, find_dependents.cc).
THEOREM RowsExist == QuerySpec => []RowsAreReal
  <1>1. ASSUME QueryInv, Listing, NEW row \in rows
        PROVE  \E s \in pool : s.id = row.id /\ s.repo = row.repo
    <2>1. request.tool # "updates" /\ pool \in Pools
      BY <1>1 DEF QueryInv, Listing, Answered
    <2>2. CASE rows = SearchRows(request)
      <3>1. CASE row \in DetailRows(request)
        <4>1. PICK s \in Matched(request) : row = Row(s)
          BY <3>1 DEF DetailRows
        <4>2. s \in pool
          BY DEF Matched
        <4>3. QED
          BY <4>1, <4>2 DEF Row
      <3>2. CASE row \in NameRows(request)
        <4>1. PICK m \in pool : row = Representative(m.id)
          BY <3>2 DEF NameRows, Matched
        <4>2. QED
          BY <2>1, <4>1, RepresentativeIs
      <3>3. QED
        BY <1>1, <2>2, <3>1, <3>2 DEF SearchRows
    <2>3. CASE rows = ProviderRows(request)
      BY <1>1, <2>3 DEF ProviderRows, Row
    <2>4. CASE rows = DependentRows(request)
      BY <1>1, <2>4 DEF DependentRows, Row
    <2>5. QED
      BY <1>1, <2>1, <2>2, <2>3, <2>4 DEF QueryInv, Listing
  <1>2. QueryInv => RowsAreReal
    BY <1>1 DEF RowsAreReal
  <1>3. QED
    BY <1>2, QueryInvHolds, PTL

\* What a request without a repository matches is shown, an installed solvable
\* with a twin under the twin's repository (PicklistIterator, tools.h).
THEOREM MatchesAreShown == QuerySpec => []EveryMatchIsShown
  <1>1. ASSUME QueryInv, Listing, request.repo = "", ~request.installedOnly
        PROVE  LET kept == {row.id : row \in rows} IN
               /\ request.tool = "search" /\ ~request.notInstalledOnly =>
                    \A s \in Matched(request) :
                      IF request.details THEN s.id \in kept
                      ELSE TheObj(s.id) \in Hidden \/ \E i \in kept : Same(i, s.id)
               /\ request.tool = "providers" =>
                    \A s \in pool : s.id \in Providers /\ PassesFilters(s, request) => s.id \in kept
               /\ request.tool = "dependents" =>
                    \A seed \in Seeds(request) : \A s \in pool :
                      s.id \in Depends(RelationAttr(request), seed.id) /\ PassesFilters(s, request)
                        => s.id \in kept
    <2> DEFINE kept == {row.id : row \in rows}
    <2>1. request.tool # "updates" /\ pool \in Pools
      BY <1>1 DEF QueryInv, Listing, Answered
    <2>2. \A s, t : t.id = s.id /\ PassesFilters(s, request) => PassesFilters(t, request)
      BY <1>1 DEF PassesFilters
    <2>3. \A s \in pool : \E t \in pool : t.id = s.id /\ PicklistAccept(t, request.installedOnly)
                                          /\ (t = s \/ t.repo # SYSTEM)
      BY <1>1, TwinStandsIn DEF PicklistAccept
    <2>4. \A s : Row(s).id = s.id
      BY DEF Row
    <2>5. ASSUME request.tool = "search", ~request.notInstalledOnly,
                 NEW s \in Matched(request)
          PROVE  IF request.details THEN s.id \in kept
                 ELSE TheObj(s.id) \in Hidden \/ \E i \in kept : Same(i, s.id)
      <3>1. rows = SearchRows(request) /\ s \in pool
        BY <1>1, <2>1, <2>5 DEF QueryInv, Listing, Answered, Matched
      <3>2. CASE request.details
        <4>1. rows = DetailRows(request)
          BY <3>1, <3>2 DEF SearchRows
        <4>2. PICK t \in pool : t.id = s.id /\ PicklistAccept(t, request.installedOnly)
          BY <2>3, <3>1
        <4>3. t \in Matched(request)
          BY <1>1, <2>5, <4>2 DEF Matched
        <4>4. Row(t) \in rows
          BY <4>1, <4>2, <4>3 DEF DetailRows
        <4>5. QED
          BY <2>4, <3>2, <4>2, <4>4
      <3>3. CASE ~request.details
        <4>1. rows = NameRows(request)
          BY <3>1, <3>3 DEF SearchRows
        <4>2. CASE TheObj(s.id) \notin Hidden
          <5>1. Representative(s.id) \in rows
            BY <1>1, <2>5, <4>1, <4>2 DEF NameRows
          <5>2. Same(Representative(s.id).id, s.id)
            BY <2>1, <3>1, RepresentativeIs
          <5>3. QED
            BY <3>3, <5>1, <5>2
        <4>3. QED
          BY <3>3, <4>2
      <3>4. QED
        BY <3>2, <3>3
    <2>6. ASSUME request.tool = "providers", NEW s \in pool,
                 s.id \in Providers, PassesFilters(s, request)
          PROVE  s.id \in kept
      <3>1. rows = ProviderRows(request)
        BY <1>1, <2>1, <2>6 DEF QueryInv, Listing, Answered
      <3>2. PICK t \in pool : t.id = s.id /\ PicklistAccept(t, request.installedOnly)
        BY <2>3
      <3>3. PassesFilters(t, request) /\ t.id \in Providers
        BY <2>2, <2>6, <3>2
      <3>4. Row(t) \in rows
        BY <3>1, <3>2, <3>3 DEF ProviderRows
      <3>5. QED
        BY <2>4, <3>2, <3>4
    <2>7. ASSUME request.tool = "dependents", NEW seed \in Seeds(request), NEW s \in pool,
                 s.id \in Depends(RelationAttr(request), seed.id), PassesFilters(s, request)
          PROVE  s.id \in kept
      <3>1. rows = DependentRows(request)
        BY <1>1, <2>1, <2>7 DEF QueryInv, Listing, Answered
      <3>2. PICK t \in pool : t.id = s.id /\ PicklistAccept(t, request.installedOnly)
        BY <2>3
      <3>3. PassesFilters(t, request) /\ t.id \in Depends(RelationAttr(request), seed.id)
        BY <2>2, <2>7, <3>2
      <3>4. Row(t) \in rows
        BY <3>1, <3>2, <3>3 DEF DependentRows
      <3>5. QED
        BY <2>4, <3>2, <3>4
    <2>8. QED
      BY <2>5, <2>6, <2>7
  <1>2. QueryInv => EveryMatchIsShown
    BY <1>1 DEF EveryMatchIsShown
  <1>3. QED
    BY <1>2, QueryInvHolds, PTL

-----------------------------------------------------------------------------
(* Patches.                                                                *)

\* What the code tests is what the schema says, field by field.
LEMMA PassesIsAgrees ==
  ASSUME NEW p \in Updates!Patches, NEW r,
         ~(Updates!Given(r, "cve") /\ Updates!Given(r, "bugzilla")), r.date # 0
  PROVE  Updates!Passes(p, r) <=> Updates!Agrees(p, r)
  <1>1. Updates!Agrees(p, r) <=>
          /\ r.applicableOnly => p.needed
          /\ Updates!Given(r, "category") => p.category = r.category
          /\ Updates!Given(r, "severity") => p.severity = r.severity
          /\ Updates!Given(r, "date") => p.date < r.date
          /\ Updates!Given(r, "cve") => [type |-> "cve", id |-> r.cve] \in p.issues
          /\ Updates!Given(r, "bugzilla") => [type |-> "bugzilla", id |-> r.bugzilla] \in p.issues
    <2>1. DOMAIN Updates!Meaning(p, r) =
            {"applicable", "category", "severity", "date", "cve", "bugzilla"}
      BY DEF Updates!Meaning
    <2>2. /\ Updates!Meaning(p, r)["applicable"] = (r.applicableOnly => p.needed)
          /\ Updates!Meaning(p, r)["category"]
               = (Updates!Given(r, "category") => p.category = r.category)
          /\ Updates!Meaning(p, r)["severity"]
               = (Updates!Given(r, "severity") => p.severity = r.severity)
          /\ Updates!Meaning(p, r)["date"] = (Updates!Given(r, "date") => p.date < r.date)
          /\ Updates!Meaning(p, r)["cve"]
               = (Updates!Given(r, "cve") => [type |-> "cve", id |-> r.cve] \in p.issues)
          /\ Updates!Meaning(p, r)["bugzilla"]
               = (Updates!Given(r, "bugzilla")
                    => [type |-> "bugzilla", id |-> r.bugzilla] \in p.issues)
      BY DEF Updates!Meaning
    <2>3. QED
      BY <2>1, <2>2, Zenon DEF Updates!Agrees
  <1>2. Updates!DatePasses(p, r) <=> (Updates!Given(r, "date") => p.date < r.date)
    BY DEF Updates!DatePasses, Updates!Given
  <1>3. p.issues \subseteq Issues
    BY DEF Updates!Patches
  <1>4. \A i \in p.issues : i.id # None /\ i = [type |-> i.type, id |-> i.id]
    BY <1>3, IssuesAssumption
  <1>5. Updates!IssueMatches(p, r) <=>
          /\ Updates!Given(r, "cve") => [type |-> "cve", id |-> r.cve] \in p.issues
          /\ Updates!Given(r, "bugzilla") => [type |-> "bugzilla", id |-> r.bugzilla] \in p.issues
    <2>1. CASE ~Updates!Given(r, "cve") /\ ~Updates!Given(r, "bugzilla")
      BY <2>1 DEF Updates!IssueMatches
    <2>2. CASE Updates!Given(r, "cve") /\ ~Updates!Given(r, "bugzilla")
      BY <1>4, <2>2 DEF Updates!IssueMatches, Updates!Given
    <2>3. CASE ~Updates!Given(r, "cve") /\ Updates!Given(r, "bugzilla")
      BY <1>4, <2>3 DEF Updates!IssueMatches, Updates!Given
    <2>4. QED
      BY <2>1, <2>2, <2>3
  <1>6. QED
    BY <1>1, <1>2, <1>5 DEF Updates!Passes

\* check_updates lists exactly the patches that every given filter describes, in
\* every combination but the two with a defect (updates.cc:15-53, 60-130).
THEOREM FiltersAreMeant == QuerySpec => []PatchFiltersMeanWhatTheySay
  <1>1. QueryInv => PatchFiltersMeanWhatTheySay
    <2> SUFFICES ASSUME QueryInv, request.tool = "updates", Updates!Answered,
                        ~(Updates!Given(request, "cve") /\ Updates!Given(request, "bugzilla")),
                        request.date # 0
                 PROVE  rows = {p \in patches : Updates!Agrees(p, request)}
      BY DEF PatchFiltersMeanWhatTheySay, Updates!FiltersMeanWhatTheySay
    <2>1. patches \subseteq Updates!Patches /\ rows = Updates!Listed(request)
      BY PatchesAssumption DEF QueryInv
    <2>2. \A p \in patches : Updates!Passes(p, request) <=> Updates!Agrees(p, request)
      BY <2>1, PassesIsAgrees
    <2>3. QED
      BY <2>1, <2>2 DEF Updates!Listed
  <1>2. QED
    BY <1>1, QueryInvHolds, PTL
=============================================================================

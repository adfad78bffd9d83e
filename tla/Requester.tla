----------------------------- MODULE Requester -----------------------------
(***************************************************************************)
(* A session of solverequest::Requester (worker/src/solver): the caller    *)
(* sets the selection strategy, submits Install, Remove and Update jobs    *)
(* one after the other, and finally replays the selections on the          *)
(* resolver.  A session never touches the pool, so the pool and the locks  *)
(* in it are chosen once, in the initial state.                            *)
(*                                                                         *)
(* Packages only: patches take another path through the same session and   *)
(* are the subject of PatchRequester.  Selections and feedback are sets,   *)
(* the code keeps vectors; nothing reads their order but applySelections,  *)
(* which replays one status change or one resolver job per element.        *)
(***************************************************************************)
EXTENDS Integers, FiniteSets

CONSTANTS
  Pools,      \* bound: the pools a session may find, see PoolAssumption
  OptionSets, \* bound: the options it may be created with
  Jobs,       \* bound: the jobs that may be submitted
  MaxJobs,    \* bound: how many jobs one session takes
  Provides,   \* Provides[n]: the capabilities a package named n provides
  Priority,   \* Priority[r]: repository priority, a smaller number is better
  System,     \* the repository "@System" of installed packages
  AnyRepo, AnyArch, \* what a request without a restriction has
  NoItem, NoSpec            \* PoolItem(), PackageSpec()

\* A package in the pool: [name, ed, arch, vendor, repo].  A job:
\* [op, dos, donts].  A PackageSpec: [cap, glob, ed, arch, repo, modified],
\* where glob is the set of package names the given name matches.
Specs == UNION {j.dos \union j.donts : j \in Jobs}
Items == UNION {p.items : p \in Pools}
Names == {i.name : i \in Items}
AnyEd == 0

ASSUME PoolAssumption ==
  \A p \in Pools : /\ p = [items |-> p.items, locked |-> p.locked]
                   /\ p.locked \subseteq p.items
                   /\ \A i \in p.items : i.ed \in Nat \ {AnyEd}
                   /\ \A i, j \in p.items :
                        i.repo = System /\ j.repo = System /\ i.name = j.name
                          => i = j

ASSUME JobAssumption ==
  /\ MaxJobs \in Nat
  /\ \A j \in Jobs : j.op \in {"Install", "Remove", "Update"}
  /\ \A s \in Specs : s.ed \in Nat

ASSUME OptionAssumption == \A o \in OptionSets : o.force \in BOOLEAN

ASSUME NoneAssumption == NoItem \notin Items /\ NoSpec \notin Specs \union Jobs

VARIABLES
  pool,      \* [items, locked]: the loaded packages and the locked ones
  opts,      \* Options: force, oldpackage, bestEffort, allowVendorChange,
             \* fromRepos
  byCap,     \* Options::_forceByCap
  byName,    \* Options::_forceByName
  pc,        \* where the session is
  job,       \* the last job submitted
  current,   \* Requester::_current
  dos,       \* specs of the job still to install
  donts,     \* specs of the job still to remove
  spec,      \* the spec install() is working on
  names,     \* its best matches not visited yet
  absent,    \* matches found not installed (the count notInstalled)
  session,   \* what the session has accumulated
  submitted, \* history: jobs submitted so far
  finished,  \* history: specs done: [op, as, spec]
  resolver   \* what applySelections() handed to pool and resolver

optionVars  == <<pool, opts, byCap, byName>>
jobVars     == <<job, current, submitted>>
loopVars    == <<spec, names, absent>>
vars == <<optionVars, pc, jobVars, dos, donts, loopVars, session, finished,
          resolver>>

-----------------------------------------------------------------------------
(* The pool as the queries see it.                                         *)

Named(n)     == {i \in pool.items : i.name = n}
Available(n) == {i \in Named(n) : i.repo # System}
Installed(n) == {i \in Named(n) : i.repo = System}
IsLocked(i)  == i \in pool.locked

HasLocks(n)  == Named(n) \intersect pool.locked # {}

TheOne(I) == IF I = {} THEN NoItem ELSE CHOOSE i \in I : TRUE

InstalledObj(n) == TheOne(Installed(n))

Identical(i, j) ==
  /\ i.name = j.name /\ i.ed = j.ed
  /\ i.arch = j.arch /\ i.vendor = j.vendor

\* No repository (of Options::fromRepos or of the spec) means all of them.
SpecRepos(s) == IF s.repo # AnyRepo THEN {s.repo} ELSE opts.fromRepos

Matches(s, repos) ==
  {i \in pool.items : /\ i.name \in s.glob
                      /\ repos = {} \/ i.repo \in repos
                      /\ s.ed = AnyEd \/ i.ed = s.ed
                      /\ s.arch = AnyArch \/ i.arch = s.arch}

WhatProvides(s) ==
  {i \in pool.items : s.cap \in Provides[i.name] /\ (s.ed = AnyEd \/ i.ed = s.ed)}

InstalledProviders(s) == {i \in WhatProvides(s) : i.repo = System}

\* libzypp's own choices, as far as the code relies on them.  PoolItemBest
\* prefers what is not locked, then the repository, then the edition.
Outranks(i, j) ==
  /\ i.repo # System /\ j.repo # System
  /\ Priority[i.repo] <= Priority[j.repo]
  /\ i.ed >= j.ed
  /\ Priority[i.repo] < Priority[j.repo] \/ i.ed > j.ed

BestMatches(s, n) ==
  LET M    == {i \in Matches(s, SpecRepos(s)) : i.name = n}
      Free == {i \in M : ~IsLocked(i)}
      Pick == IF Free # {} THEN Free ELSE M
  IN {i \in Pick : ~ \E j \in Pick : Outranks(j, i)}

Highest(n) == {i \in Available(n) : \A j \in Available(n) : j.ed <= i.ed}

\* Selectable::updateCandidateObj() keeps vendor and architecture and asks the
\* best repository only.
UpdateCandidates(n) ==
  LET inst == InstalledObj(n)
      Same == {i \in Available(n) : i.vendor = inst.vendor /\ i.arch = inst.arch}
      Best == {i \in Same : /\ ~ \E j \in Same : Outranks(j, i)
                            /\ \A j \in Same : Priority[i.repo] <= Priority[j.repo]}
      New  == {i \in Best : i.ed > inst.ed}
  IN IF New = {} THEN {NoItem} ELSE New

-----------------------------------------------------------------------------
(* What a session accumulates, and the four ways it selects something.     *)

Capability(what, rel, ed) == [what |-> what, rel |-> rel, ed |-> ed]
Exactly(i)  == Capability(i.name, "eq", i.ed)
AsParsed(s) == Capability(s.cap, IF s.ed = AnyEd THEN "any" ELSE "eq", s.ed)

Selection(kind, item, cap, forced) ==
  [kind |-> kind, item |-> item, cap |-> cap, forced |-> forced]

Says(id, s, i) == {[id |-> id, spec |-> s, item |-> i]}

Outcome(selections, feedback, toinst, toremove, requires, conflicts) ==
  [selections |-> selections, feedback |-> feedback, toinst |-> toinst,
   toremove |-> toremove, requires |-> requires, conflicts |-> conflicts]

Only(f) == Outcome({}, f, {}, {}, {}, {})

Nothing == Only({})

Then(a, b) ==
  Outcome(a.selections \union b.selections, a.feedback \union b.feedback,
          a.toinst \union b.toinst, a.toremove \union b.toremove,
          a.requires \union b.requires, a.conflicts \union b.conflicts)

Each(S) ==
  Outcome(UNION {a.selections : a \in S}, UNION {a.feedback : a \in S},
          UNION {a.toinst : a \in S}, UNION {a.toremove : a \in S},
          UNION {a.requires : a \in S}, UNION {a.conflicts : a \in S})

Picked(i) == Selection("SetToInstall", i, NoSpec, opts.force)

\* Fault: locks are not looked at.
SetToInstallLockBlind(i) ==
  Outcome({Picked(i)},
          Says(IF opts.force THEN "FORCED_INSTALL" ELSE "SET_TO_INSTALL", NoSpec, i),
          {i}, {}, {}, {})

Required(cap) == Selection("AddRequire", NoItem, cap, FALSE)

SaysLocked(id, i) == Says(id, NoSpec, i) \union Says("INSTALLED_LOCKED", NoSpec, i)

SetToInstall(i) ==
  IF ~opts.force /\ HasLocks(i.name)
  THEN Outcome({Required(Exactly(i))}, SaysLocked("SET_TO_INSTALL", i),
               {}, {}, {Exactly(i)}, {})
  ELSE Outcome({Picked(i)},
               Says(IF opts.force THEN "FORCED_INSTALL" ELSE "SET_TO_INSTALL",
                    NoSpec, i),
               {i}, {}, {}, {})

Conflicted(cap) == Selection("AddConflict", NoItem, cap, FALSE)

SetToRemove(i) ==
  IF HasLocks(i.name)
  THEN Outcome({Conflicted(Exactly(i))}, SaysLocked("SET_TO_REMOVE", i),
               {}, {}, {}, {Exactly(i)})
  ELSE Outcome({Selection("SetToRemove", i, NoSpec, FALSE)},
               Says("SET_TO_REMOVE", NoSpec, i), {}, {i}, {}, {})

AddRequirement(s, cap) ==
  Outcome({Required(cap)}, Says("ADDED_REQUIREMENT", s, NoItem), {}, {}, {cap}, {})

AddConflict(s) ==
  Outcome({Conflicted(AsParsed(s))}, Says("ADDED_CONFLICT", s, NoItem),
          {}, {}, {}, {AsParsed(s)})

-----------------------------------------------------------------------------
(* updateTo(): what to do about a package that is installed.               *)

\* The caller asked for a repository, a version or an architecture.
UserConstraints(s) ==
  \/ s.ed # AnyEd \/ s.arch # AnyArch
  \/ opts.fromRepos # {} \/ s.repo # AnyRepo

\* Fault: an older candidate needs no permission.
MayReplaceAnything(s, inst, sel) == TRUE

MayReplace(s, inst, sel) ==
  \/ sel.ed > inst.ed
  \/ sel.ed = inst.ed /\ sel.arch # inst.arch /\ s.arch # AnyArch
  \/ sel.ed = inst.ed /\ s.repo # AnyRepo
  \/ opts.force \/ opts.oldpackage

Acts(s, inst, sel) ==
  /\ ~Identical(inst, sel) \/ opts.force
  /\ opts.bestEffort \/ MayReplace(s, inst, sel)

Request(s, inst, sel) ==
  IF ~Acts(s, inst, sel) THEN Nothing
  ELSE IF opts.bestEffort
       THEN AddRequirement(NoSpec, Capability(inst.name, "gt", inst.ed))
  ELSE SetToInstall(sel)

AlreadyThere(s, inst, sel) ==
  Identical(inst, sel) \/ (~Acts(s, inst, sel) /\ inst.ed = sel.ed)

\* The report ends early when the caller forced what it asked about.
Forced(s, inst, sel) ==
  IF AlreadyThere(s, inst, sel) THEN opts.force
  ELSE inst.ed > sel.ed /\ (opts.force \/ opts.oldpackage)

\* What is said about the chosen item itself ...
Verdict(s, inst, sel, highest) ==
  IF AlreadyThere(s, inst, sel)
  THEN (IF current = "Install" THEN Says("ALREADY_INSTALLED", s, sel) ELSE {})
       \union (IF Identical(inst, highest) \/ highest.ed <= inst.ed
               THEN Says("NO_UPD_CANDIDATE", s, sel) ELSE {})
  ELSE IF inst.ed > sel.ed THEN Says("SELECTED_IS_OLDER", s, sel) ELSE {}

\* ... and about a higher one that was passed over.
PassedOver(s, inst, sel, highest) ==
  IF Identical(sel, highest) \/ highest.ed <= inst.ed THEN {}
  ELSE UNION {
    IF UserConstraints(s)
    THEN Says("UPD_CANDIDATE_USER_RESTRICTED", s, sel) ELSE {},
    IF IsLocked(sel) /\ (IsLocked(inst) \/ IsLocked(highest))
    THEN Says("UPD_CANDIDATE_IS_LOCKED", s, sel) ELSE {},
    IF highest.vendor # inst.vendor /\ ~opts.allowVendorChange
    THEN Says("UPD_CANDIDATE_CHANGES_VENDOR", s, sel) ELSE {},
    IF Priority[highest.repo] > Priority[sel.repo]
    THEN Says("UPD_CANDIDATE_HAS_LOWER_PRIO", s, sel) ELSE {}}

UpdateTo(s, sel, highest) ==
  LET inst == InstalledObj(sel.name)
  IN Then(Request(s, inst, sel),
          IF Forced(s, inst, sel) THEN Nothing
          ELSE Only(Verdict(s, inst, sel, highest)
                      \union PassedOver(s, inst, sel, highest)))

-----------------------------------------------------------------------------
(* The session.                                                            *)

Untouched == [install |-> {}, remove |-> {}, require |-> {}, conflict |-> {}]

Init ==
  /\ pool \in Pools
  /\ opts \in OptionSets
  /\ byCap = FALSE /\ byName = FALSE
  /\ pc = "options"
  /\ job = NoSpec
  /\ current = "Install"
  /\ dos = {} /\ donts = {}
  /\ spec = NoSpec /\ names = {} /\ absent = {}
  /\ session = Nothing
  /\ submitted = 0 /\ finished = {}
  /\ resolver = Untouched

SetForceByCap(v) ==
  /\ pc = "options"
  /\ byCap' = v
  /\ byName' = (byName /\ ~v)
  /\ UNCHANGED <<pool, opts, pc, jobVars, dos, donts, loopVars, session,
                 finished, resolver>>

SetForceByName(v) ==
  /\ pc = "options"
  /\ byName' = v
  /\ byCap' = (byCap /\ ~v)
  /\ UNCHANGED <<pool, opts, pc, jobVars, dos, donts, loopVars, session,
                 finished, resolver>>

Create ==
  /\ pc = "options"
  /\ pc' = "ready"
  /\ UNCHANGED <<optionVars, jobVars, dos, donts, loopVars, session, finished,
                 resolver>>

\* Fault: _current keeps the operation of the job before.
SubmitStale(j) ==
  /\ pc = "ready" /\ submitted < MaxJobs
  /\ job' = j
  /\ current' = IF job = NoSpec THEN current ELSE job.op
  /\ dos' = j.dos
  /\ donts' = IF j.op = "Update" THEN {} ELSE j.donts
  /\ submitted' = submitted + 1
  /\ pc' = "dispatch"
  /\ UNCHANGED <<optionVars, loopVars, session, finished, resolver>>

\* An update ignores what its job asks to remove.
Submit(j) ==
  /\ pc = "ready" /\ submitted < MaxJobs
  /\ job' = j
  /\ current' = j.op
  /\ dos' = j.dos
  /\ donts' = IF j.op = "Update" THEN {} ELSE j.donts
  /\ submitted' = submitted + 1
  /\ pc' = "dispatch"
  /\ UNCHANGED <<optionVars, loopVars, session, finished, resolver>>

\* install() and remove() are over with s, and the session has o to add.
Done(s, o) ==
  /\ session' = Then(session, o)
  /\ finished' = finished \union
       {[op |-> job.op, as |-> IF s \in dos THEN "do" ELSE "dont", spec |-> s]}
  /\ dos' = dos \ {s}
  /\ donts' = IF s \in dos THEN donts ELSE donts \ {s}
  /\ pc' = "dispatch"
  /\ UNCHANGED <<optionVars, jobVars, resolver>>

-----------------------------------------------------------------------------
(* install()                                                               *)

MatchNames(s) == {i.name : i \in Matches(s, SpecRepos(s))}

StartMatching(s) ==
  /\ pc = "dispatch" /\ s \in dos
  /\ ~byCap /\ MatchNames(s) # {}
  /\ spec' = s /\ names' = MatchNames(s) /\ absent' = {}
  /\ pc' = "matching"
  /\ UNCHANGED <<optionVars, jobVars, dos, donts, session, finished, resolver>>

\* The loop visits one best match per name.
Visit(n, o) ==
  /\ session' = Then(session, o)
  /\ names' = names \ {n}
  /\ UNCHANGED <<optionVars, pc, jobVars, dos, donts, spec, finished, resolver>>

\* This return ends the loop for the names not visited yet, too.
VisitNotInRepos(n) ==
  LET inst == InstalledObj(n)
  IN /\ pc = "matching" /\ n \in names
     /\ inst # NoItem /\ Available(n) = {}
     /\ Done(spec, Only((IF opts.force THEN {}
                         ELSE Says("ALREADY_INSTALLED", spec, inst))
                        \union Says("NOT_IN_REPOS", spec, inst)))
     /\ spec' = NoSpec /\ names' = {} /\ absent' = {}

\* Fault: the vendor of the best match is not compared.
CandidateAnyVendor(s, inst, sit, best, highest) ==
  CASE UserConstraints(s)                              -> sit
    [] ~UserConstraints(s) /\ opts.force              -> highest
    [] ~UserConstraints(s) /\ ~opts.force /\ best # NoItem -> best
    [] OTHER                                           -> sit

\* A locked candidate gives way to a newer match that is not locked.
Candidate(s, inst, sit, best, highest) ==
  LET givesWay == best # NoItem /\ IsLocked(best) /\ ~IsLocked(sit) /\ sit.ed > inst.ed
      otherVendor == inst.vendor # sit.vendor
  IN IF UserConstraints(s) THEN sit
     ELSE IF opts.force THEN highest
     ELSE IF best # NoItem /\ ~givesWay THEN best
     ELSE IF otherVendor /\ ~opts.allowVendorChange THEN inst
     ELSE sit

VisitInstalled(n) ==
  /\ pc = "matching" /\ n \in names
  /\ InstalledObj(n) # NoItem /\ Available(n) # {}
  /\ \E sit \in BestMatches(spec, n), best \in UpdateCandidates(n),
        highest \in Highest(n) :
       Visit(n, UpdateTo(spec,
                  Candidate(spec, InstalledObj(n), sit, best, highest), highest))
  /\ UNCHANGED absent

VisitNotInstalled(n) ==
  /\ pc = "matching" /\ n \in names
  /\ InstalledObj(n) = NoItem
  /\ \/ /\ current = "Install"
        /\ \E sit \in BestMatches(spec, n) : Visit(n, SetToInstall(sit))
        /\ UNCHANGED absent
     \/ /\ current # "Install"
        /\ Visit(n, Nothing)
        /\ absent' = absent \union {n}

EndMatching ==
  /\ pc = "matching" /\ names = {}
  /\ Done(spec, IF absent = MatchNames(spec)
                THEN Only(Says("NOT_INSTALLED", spec, NoItem)) ELSE Nothing)
  /\ spec' = NoSpec /\ names' = {} /\ absent' = {}

NotFoundByName(s) ==
  /\ pc = "dispatch" /\ s \in dos
  /\ ~byCap /\ MatchNames(s) = {}
  /\ byName \/ s.modified
  /\ Done(s, Only(Says("NOT_FOUND_NAME", s, NoItem)))
  /\ UNCHANGED loopVars

TryingCaps(s) ==
  IF byCap THEN {} ELSE Says("NOT_FOUND_NAME_TRYING_CAPS", s, NoItem)

InstallByCap(s) ==
  /\ pc = "dispatch" /\ s \in dos
  /\ byCap \/ (MatchNames(s) = {} /\ ~byName /\ ~s.modified)
  /\ Done(s, Then(Only(TryingCaps(s)),
       IF WhatProvides(s) = {} THEN Only(Says("NOT_FOUND_CAP", s, NoItem))
       ELSE IF InstalledProviders(s) = {} THEN AddRequirement(s, AsParsed(s))
       ELSE IF current # "Install" THEN Nothing
       ELSE Only(UNION {Says("ALREADY_INSTALLED", s, i) : i \in InstalledProviders(s)})))
  /\ UNCHANGED loopVars

-----------------------------------------------------------------------------
(* remove(), after everything to install                                   *)

InstalledMatches(s) == {i \in Matches(s, {}) : i.repo = System}

RemoveByName(s) ==
  /\ pc = "dispatch" /\ dos = {} /\ s \in donts
  /\ ~byCap /\ InstalledMatches(s) # {}
  /\ Done(s, Each({SetToRemove(i) : i \in InstalledMatches(s)}))
  /\ UNCHANGED loopVars

RemoveNotByName(s) ==
  /\ pc = "dispatch" /\ dos = {} /\ s \in donts
  /\ ~byCap /\ InstalledMatches(s) = {}
  /\ byName \/ (s.modified /\ Matches(s, {}) = {})
  /\ Done(s, Only(Says(IF Matches(s, {}) = {} THEN "NOT_FOUND_NAME"
                       ELSE "NOT_INSTALLED", s, NoItem)))
  /\ UNCHANGED loopVars

\* Fault: a removal by name only goes on to capabilities, too.
RemoveByCapAnyway(s) ==
  /\ pc = "dispatch" /\ dos = {} /\ s \in donts
  /\ byCap \/ InstalledMatches(s) = {}
  /\ Done(s, Then(Only(Says("NOT_INSTALLED", s, NoItem)),
                  IF InstalledProviders(s) = {} THEN Nothing ELSE AddConflict(s)))
  /\ UNCHANGED loopVars

\* Fault: a name that was found goes on to the capability of that name.
RemoveByCapToo(s) ==
  /\ pc = "dispatch" /\ dos = {} /\ s \in donts
  /\ ~byName
  /\ Done(s, Then(Each({SetToRemove(i) : i \in InstalledMatches(s)}),
                  IF InstalledProviders(s) = {} THEN Nothing ELSE AddConflict(s)))
  /\ UNCHANGED loopVars

RemoveByCap(s) ==
  /\ pc = "dispatch" /\ dos = {} /\ s \in donts
  /\ byCap \/ (/\ InstalledMatches(s) = {} /\ ~byName
               /\ Matches(s, {}) # {} \/ ~s.modified)
  /\ LET Found == IF byCap \/ Matches(s, {}) = {} THEN {}
                  ELSE Says("NOT_INSTALLED", s, NoItem)
     IN Done(s, Then(Only(Found \union TryingCaps(s)),
          IF WhatProvides(s) = {} THEN Only(Says("NOT_FOUND_CAP", s, NoItem))
          ELSE IF InstalledProviders(s) = {}
               THEN Only(Says("NO_INSTALLED_PROVIDER", s, NoItem))
          ELSE AddConflict(s)))
  /\ UNCHANGED loopVars

FinishJob ==
  /\ pc = "dispatch" /\ dos = {} /\ donts = {}
  /\ pc' = "ready"
  /\ UNCHANGED <<optionVars, jobVars, dos, donts, loopVars, session, finished,
                 resolver>>

-----------------------------------------------------------------------------
(* What setupInstall() and setupRemove() make of the session.              *)

HasFeedback(id) == \E f \in session.feedback : f.id = id

GivesUpOn ==
  {"NOT_FOUND_NAME", "NOT_FOUND_CAP"}
    \union (IF job.op = "Remove" THEN {"NOT_INSTALLED", "NO_INSTALLED_PROVIDER"}
            ELSE {})

GiveUp ==
  /\ pc = "ready" /\ submitted > 0
  /\ \E id \in GivesUpOn : HasFeedback(id)
  /\ pc' = "refused"
  /\ UNCHANGED <<optionVars, jobVars, dos, donts, loopVars, session, finished,
                 resolver>>

Selected(kind) == {x \in session.selections : x.kind = kind}

\* Selectable::setOnSystem() drops the locks of the package it marks.
ApplySelections ==
  /\ pc = "ready" /\ submitted > 0
  /\ \A id \in GivesUpOn : ~HasFeedback(id)
  /\ pc' = "applied"
  /\ resolver' = [install  |-> {x.item : x \in Selected("SetToInstall")},
                  remove   |-> {x.item : x \in Selected("SetToRemove")},
                  require  |-> {x.cap : x \in Selected("AddRequire")},
                  conflict |-> {x.cap : x \in Selected("AddConflict")}]
  /\ pool' = [pool EXCEPT !.locked =
       {i \in @ : \A x \in Selected("SetToInstall") :
                    x.forced \/ x.item.name # i.name}]
  /\ UNCHANGED <<opts, byCap, byName, jobVars, dos, donts, loopVars, session,
                 finished>>

Install ==
  \/ \E s \in dos : StartMatching(s) \/ NotFoundByName(s) \/ InstallByCap(s)
  \/ \E n \in names : \/ VisitNotInRepos(n) \/ VisitInstalled(n)
                       \/ VisitNotInstalled(n)
  \/ EndMatching

Remove ==
  \E s \in donts : RemoveByName(s) \/ RemoveNotByName(s) \/ RemoveByCap(s)

Next ==
  \/ \E v \in BOOLEAN : SetForceByCap(v) \/ SetForceByName(v)
  \/ Create
  \/ \E j \in Jobs : Submit(j)
  \/ Install \/ Remove \/ FinishJob
  \/ GiveUp \/ ApplySelections

Spec == Init /\ [][Next]_vars

-----------------------------------------------------------------------------
(* Correctness.                                                            *)

CapabilityType ==
  [what : Names \union {s.cap : s \in Specs}, rel : {"any", "eq", "gt"}, ed : Nat]

SelectionType ==
  [kind   : {"SetToInstall", "SetToRemove", "AddRequire", "AddConflict"},
   item   : Items \union {NoItem},
   cap    : CapabilityType \union {NoSpec},
   forced : BOOLEAN]

\* Every variable keeps its type; in particular the loop has matches left only
\* while install() is in it.
TypeOK ==
  /\ pool.items \subseteq Items /\ pool.locked \subseteq pool.items
  /\ opts \in OptionSets /\ byCap \in BOOLEAN /\ byName \in BOOLEAN
  /\ pc \in {"options", "ready", "dispatch", "matching", "refused", "applied"}
  /\ job \in Jobs \union {NoSpec}
  /\ current \in {"Install", "Remove", "Update"}
  /\ dos \subseteq Specs /\ donts \subseteq Specs
  /\ names \subseteq Names /\ absent \subseteq Names
  /\ spec \in Specs \union {NoSpec} /\ (spec # NoSpec <=> pc = "matching")
  /\ submitted \in 0 .. MaxJobs
  /\ session.selections \subseteq SelectionType
  /\ session.toinst \subseteq Items /\ session.toremove \subseteq Items

\* The two overrides of the three-state strategy exclude each other, whatever
\* the setters were called with before (options.h:52-65).
StrategyIsOneOfThree == ~(byCap /\ byName)

Asked == {f.spec : f \in finished} \union (IF spec = NoSpec THEN {} ELSE {spec})

\* A package picked by name is never older than the installed one it replaces
\* unless force or oldpackage allows it, whichever of the five ways to a
\* candidate and whichever repository and version restriction led there.
NoUnaskedDowngrade ==
  \A x \in Selected("SetToInstall") :
    LET inst == InstalledObj(x.item.name)
    IN inst # NoItem /\ x.item.ed < inst.ed => opts.force \/ opts.oldpackage

\* A package picked by name changes the vendor of an installed one only if the
\* caller allowed it, forced it, or named a repository, version or
\* architecture for it.
VendorKept ==
  \A x \in Selected("SetToInstall") :
    LET inst == InstalledObj(x.item.name)
    IN inst # NoItem /\ x.item.vendor # inst.vendor =>
         \/ opts.force \/ opts.allowVendorChange
         \/ \E s \in Asked : x.item.name \in s.glob /\ UserConstraints(s)

\* What applySelections() relies on when it ignores the result of
\* setOnSystem() (apply.cc:25-41): an unforced pick is an available item of a
\* package nobody locked.
SetOnSystemCannotFail ==
  pc # "applied" =>
    \A x \in Selected("SetToInstall") :
      ~x.forced => x.item \in Available(x.item.name) /\ ~HasLocks(x.item.name)

\* toInstall(), toRemove(), dep_requires() and dep_conflicts() are kept by hand
\* next to the selections; a caller who trusts them and the resolver that gets
\* the selections see the same request.
ViewsMatchSelections ==
  /\ session.toinst   = {x.item : x \in Selected("SetToInstall")}
  /\ session.toremove = {x.item : x \in Selected("SetToRemove")}
  /\ session.requires = {x.cap : x \in Selected("AddRequire")}
  /\ session.conflicts = {x.cap : x \in Selected("AddConflict")}
  /\ pc = "applied" =>
       resolver = [install |-> session.toinst, remove |-> session.toremove,
                   require |-> session.requires, conflict |-> session.conflicts]

\* A conflict with a capability takes every provider of it away.  Unless the
\* session is by capability, one stands for a removal that may leave names and
\* found no installed package of its name, or for the exact build of a locked
\* package (requester.cc:373-395; bnc #458318, test remove8).
RemoveByNameStaysByName ==
  ~byCap => \A c \in session.conflicts :
    \/ \E i \in pool.items : HasLocks(i.name) /\ c = Exactly(i)
    \/ /\ ~byName
       /\ \E f \in finished : /\ f.as = "dont" /\ InstalledMatches(f.spec) = {}
                              /\ c = AsParsed(f.spec)

\* While an Update job runs, a package that is not installed is never picked,
\* whatever job the session worked on before.
UpdateNeverPicks ==
  [][job' # NoSpec /\ job'.op = "Update" =>
       \A x \in session'.selections \ session.selections :
         x.kind = "SetToInstall" => InstalledObj(x.item.name) # NoItem]_vars

\* Replaying the selections leaves every lock where it was.
LocksSurvive == [][pool'.locked = pool.locked]_vars

\* A tool call that ends with NOT_FOUND, or with an empty removal, drops a
\* session that had selected nothing.  It is so because both tools turn one of
\* the overrides on: with neither, NOT_INSTALLED can go with a conflict.
RefusalLosesNothing ==
  \A f \in finished :
    pc = "refused" /\ finished = {f} /\ (byCap \/ byName) => session.selections = {}

-----------------------------------------------------------------------------
(* What comments, tests and schemas say of the session and it does not do. *)

\* "Wildcards are supported" (requester.cc:193): every installed package the
\* given name matches is selected, or reported on.
MatchesAreAnswered ==
  \A f \in finished :
    f.as = "do" /\ ~byCap =>
      \A i \in Matches(f.spec, SpecRepos(f.spec)) :
        InstalledObj(i.name) # NoItem =>
          \/ \E x \in session.selections : x.item # NoItem /\ x.item.name = i.name
          \/ \E g \in session.feedback : g.item # NoItem /\ g.item.name = i.name

\* "update == the same as install, but only if some version of the package is
\* already installed" (solverrequester_test.cc:849): an update adds no request
\* for something nobody provides yet.
UpdateNeverAdds ==
  [][job' # NoSpec /\ job'.op = "Update" =>
       \/ session'.selections \subseteq session.selections
       \/ \E s \in dos : \/ InstalledProviders(s) # {}
                         \/ \E n \in s.glob : InstalledObj(n) # NoItem]_vars

\* "In both cases check for already installed packages, and if found, hand
\* over to updateTo()" (requester.cc:201): an installed provider that has an
\* update is updated, or the caller is told why not.
ProvidersAreUpdated ==
  \A f \in finished :
    f.as = "do" /\ byCap =>
      \A i \in InstalledProviders(f.spec) :
        UpdateCandidates(i.name) # {NoItem} /\ ~HasLocks(i.name) =>
          \E x \in session.selections : x.item # NoItem /\ x.item.name = i.name

\* "If the spec contains a repo, issue the request restricted to it"
\* (requester.cc:206): all that a single request with a repository selects,
\* by name as setupInstall() then asks, comes from that repository.
RepoIsRespected ==
  \A f \in finished :
    finished = {f} /\ f.as = "do" /\ byName /\ f.spec.repo # AnyRepo =>
      \A x \in session.selections :
        x.kind = "SetToInstall" /\ x.item.repo = f.spec.repo

\* "Restrict removal to packages from this repository alias"
\* (transaction.cc:87): nothing is removed that the repository does not have.
RemovalHonoursRepo ==
  \A f \in finished :
    finished = {f} /\ f.as = "dont" /\ f.spec.repo # AnyRepo =>
      \A x \in Selected("SetToRemove") :
        \E a \in Available(x.item.name) : a.repo = f.spec.repo
=============================================================================

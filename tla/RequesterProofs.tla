-------------------------- MODULE RequesterProofs --------------------------
(***************************************************************************)
(* What holds of a Requester session for every pool, every set of options  *)
(* and every sequence of jobs.  The argument: each of the four ways to     *)
(* select something returns an outcome that is Sound, a session is the     *)
(* union of outcomes, and a union of sound outcomes is sound.  What the    *)
(* session refuses takes a second invariant, AInv, which says of each spec *)
(* whether there was anything to find.  The second part is about sessions  *)
(* that update patches.                                                    *)
(***************************************************************************)
EXTENDS RequesterSessions, TLAPS

\* An installed package of that name may make way for item, the specs S given.
Replaceable(item, S) ==
  LET inst == InstalledObj(item.name)
  IN inst # NoItem =>
       /\ item.ed < inst.ed => opts.force \/ opts.oldpackage
       /\ item.vendor # inst.vendor =>
            \/ opts.force \/ opts.allowVendorChange
            \/ \E s \in S : item.name \in s.glob /\ UserConstraints(s)

\* What one selection promises, when the specs S have been asked for.
Fits(x, S) ==
  /\ x \in SelectionType
  /\ x.kind \in {"SetToInstall", "SetToRemove"} => x.item \in pool.items
  /\ x.kind = "SetToInstall" =>
       /\ Replaceable(x.item, S)
       /\ ~x.forced => x.item.repo # System /\ ~HasLocks(x.item.name)

OfKind(o, kind) == {x \in o.selections : x.kind = kind}

\* The four derived sets are what the selections say.
Consistent(o) ==
  /\ o.toinst    = {x.item : x \in OfKind(o, "SetToInstall")}
  /\ o.toremove  = {x.item : x \in OfKind(o, "SetToRemove")}
  /\ o.requires  = {x.cap : x \in OfKind(o, "AddRequire")}
  /\ o.conflicts = {x.cap : x \in OfKind(o, "AddConflict")}

Sound(o, S) == (\A x \in o.selections : Fits(x, S)) /\ Consistent(o)

-----------------------------------------------------------------------------
(* Outcomes.                                                               *)

LEMMA NothingSound == \A S : Sound(Nothing, S)
  BY DEF Nothing, Only, Outcome, Sound, Consistent, OfKind

LEMMA OnlySound == \A f, S : Sound(Only(f), S)
  BY DEF Only, Outcome, Sound, Consistent, OfKind

LEMMA ThenConsistent ==
  ASSUME NEW a, NEW b, Consistent(a), Consistent(b)
  PROVE  Consistent(Then(a, b))
  BY DEF Consistent, OfKind, Then, Outcome

LEMMA ThenSound ==
  ASSUME NEW a, NEW b, NEW S, Sound(a, S), Sound(b, S)
  PROVE  Sound(Then(a, b), S)
<1>1. \A x \in Then(a, b).selections : Fits(x, S)
  BY DEF Sound, Then, Outcome
<1> QED
  BY <1>1, ThenConsistent DEF Sound

LEMMA EachSound ==
  ASSUME NEW T, NEW S, \A a \in T : Sound(a, S)
  PROVE  Sound(Each(T), S)
<1>1. \A x \in Each(T).selections : Fits(x, S)
  BY DEF Sound, Each, Outcome
<1>2. Consistent(Each(T))
  BY DEF Sound, Consistent, OfKind, Each, Outcome
<1> QED
  BY <1>1, <1>2 DEF Sound

LEMMA SoundForMore ==
  ASSUME NEW o, NEW S, NEW T, S \subseteq T, Sound(o, S)
  PROVE  Sound(o, T)
  BY DEF Sound, Fits, Replaceable

-----------------------------------------------------------------------------
(* The pool.                                                               *)

LEMMA PoolFacts ==
  ASSUME pool \in Pools
  PROVE  /\ pool = [items |-> pool.items, locked |-> pool.locked]
         /\ pool.items \subseteq Items /\ pool.locked \subseteq pool.items
         /\ NoItem \notin pool.items
         /\ \A i \in pool.items : i.ed \in Nat /\ i.name \in Names
  BY PoolAssumption, NoneAssumption DEF Items, Names

LEMMA InstalledObjFacts ==
  ASSUME pool \in Pools, NEW n
  PROVE  /\ InstalledObj(n) # NoItem <=> Installed(n) # {}
         /\ InstalledObj(n) # NoItem => InstalledObj(n) \in Installed(n)
         /\ \A i \in Installed(n) : i = InstalledObj(n)
<1>1. \A i, j \in Installed(n) : i = j
  BY PoolAssumption DEF Installed, Named
<1>2. Installed(n) # {} => InstalledObj(n) \in Installed(n)
  BY DEF InstalledObj, TheOne
<1>3. NoItem \notin Installed(n)
  BY PoolFacts DEF Installed, Named
<1> QED
  BY <1>1, <1>2, <1>3 DEF InstalledObj, TheOne

-----------------------------------------------------------------------------
(* The four ways to select something.                                      *)

LEMMA ExactlyTyped ==
  ASSUME pool \in Pools, NEW i \in pool.items
  PROVE  Exactly(i) \in CapabilityType
  BY PoolFacts DEF Exactly, Capability, CapabilityType

LEMMA AsParsedTyped ==
  ASSUME NEW s \in Specs
  PROVE  AsParsed(s) \in CapabilityType
  BY JobAssumption DEF AsParsed, Capability, CapabilityType

LEMMA RequiredSound ==
  ASSUME NEW cap \in CapabilityType, NEW f, NEW S
  PROVE  Sound(Outcome({Required(cap)}, f, {}, {}, {cap}, {}), S)
<1>1. Required(cap) \in SelectionType /\ Required(cap).kind = "AddRequire"
      /\ Required(cap).cap = cap
  BY DEF Required, Selection, SelectionType
<1>2. Fits(Required(cap), S)
  BY <1>1 DEF Fits
<1>3. Consistent(Outcome({Required(cap)}, f, {}, {}, {cap}, {}))
  BY <1>1 DEF Consistent, OfKind, Outcome
<1> QED
  BY <1>2, <1>3 DEF Sound, Outcome

LEMMA ConflictedSound ==
  ASSUME NEW cap \in CapabilityType, NEW f, NEW S
  PROVE  Sound(Outcome({Conflicted(cap)}, f, {}, {}, {}, {cap}), S)
<1>1. Conflicted(cap) \in SelectionType /\ Conflicted(cap).kind = "AddConflict"
      /\ Conflicted(cap).cap = cap
  BY DEF Conflicted, Selection, SelectionType
<1>2. Fits(Conflicted(cap), S)
  BY <1>1 DEF Fits
<1>3. Consistent(Outcome({Conflicted(cap)}, f, {}, {}, {}, {cap}))
  BY <1>1 DEF Consistent, OfKind, Outcome
<1> QED
  BY <1>2, <1>3 DEF Sound, Outcome

LEMMA SetToInstallSound ==
  ASSUME pool \in Pools, opts \in OptionSets, NEW i \in pool.items, NEW S,
         Replaceable(i, S), ~opts.force => i.repo # System
  PROVE  Sound(SetToInstall(i), S)
<1>1. CASE ~opts.force /\ HasLocks(i.name)
  BY <1>1, ExactlyTyped, RequiredSound DEF SetToInstall
<1>2. CASE ~(~opts.force /\ HasLocks(i.name))
  <2> DEFINE f == Says(IF opts.force THEN "FORCED_INSTALL" ELSE "SET_TO_INSTALL",
                       NoSpec, i)
  <2>1. SetToInstall(i) = Outcome({Picked(i)}, f, {i}, {}, {}, {})
    BY <1>2 DEF SetToInstall
  <2>2. Picked(i) \in SelectionType /\ Picked(i).kind = "SetToInstall"
        /\ Picked(i).item = i /\ Picked(i).forced = opts.force
    BY PoolFacts, OptionAssumption DEF Picked, Selection, SelectionType
  <2>3. Fits(Picked(i), S)
    BY <1>2, <2>2 DEF Fits
  <2>4. Consistent(Outcome({Picked(i)}, f, {i}, {}, {}, {}))
    BY <2>2 DEF Consistent, OfKind, Outcome
  <2> QED
    BY <2>1, <2>3, <2>4 DEF Sound, Outcome
<1> QED
  BY <1>1, <1>2

LEMMA SetToRemoveSound ==
  ASSUME pool \in Pools, NEW i \in pool.items, NEW S
  PROVE  Sound(SetToRemove(i), S)
<1>1. CASE HasLocks(i.name)
  BY <1>1, ExactlyTyped, ConflictedSound DEF SetToRemove
<1>2. CASE ~HasLocks(i.name)
  <2> DEFINE x == Selection("SetToRemove", i, NoSpec, FALSE)
             o == Outcome({x}, Says("SET_TO_REMOVE", NoSpec, i), {}, {i}, {}, {})
  <2>1. SetToRemove(i) = o
    BY <1>2 DEF SetToRemove
  <2>2. x \in SelectionType /\ x.kind = "SetToRemove" /\ x.item = i
    BY PoolFacts DEF Selection, SelectionType
  <2>3. Fits(x, S)
    BY <2>2 DEF Fits
  <2>4. Consistent(o)
    BY <2>2 DEF Consistent, OfKind, Outcome
  <2>5. o.selections = {x}
    BY DEF Outcome
  <2> HIDE DEF x, o
  <2> QED
    BY <2>1, <2>3, <2>4, <2>5 DEF Sound
<1> QED
  BY <1>1, <1>2

LEMMA AddRequirementSound ==
  ASSUME NEW s, NEW cap \in CapabilityType, NEW S
  PROVE  Sound(AddRequirement(s, cap), S)
  BY RequiredSound DEF AddRequirement

LEMMA AddConflictSound ==
  ASSUME NEW s \in Specs, NEW S
  PROVE  Sound(AddConflict(s), S)
  BY AsParsedTyped, ConflictedSound DEF AddConflict

-----------------------------------------------------------------------------
(* An installed package: the candidate, and what updateTo() makes of it.   *)

\* The vendor changes only where somebody allowed it.
VendorFits(item, s) ==
  item.vendor # InstalledObj(item.name).vendor =>
    \/ opts.force \/ opts.allowVendorChange
    \/ item.name \in s.glob /\ UserConstraints(s)

LEMMA CandidateFits ==
  ASSUME pool \in Pools, NEW s, NEW n, InstalledObj(n) # NoItem,
         NEW sit \in BestMatches(s, n), NEW best \in UpdateCandidates(n),
         NEW highest \in Highest(n)
  PROVE  LET c == Candidate(s, InstalledObj(n), sit, best, highest)
         IN c \in pool.items /\ c.name = n /\ VendorFits(c, s)
<1> DEFINE inst == InstalledObj(n)
           c == Candidate(s, inst, sit, best, highest)
<1>1. inst \in pool.items /\ inst.name = n
  BY InstalledObjFacts DEF Installed, Named
<1>2. sit \in pool.items /\ sit.name = n /\ n \in s.glob
  BY DEF BestMatches, Matches
<1>3. highest \in pool.items /\ highest.name = n
  BY DEF Highest, Available, Named
<1>4. best # NoItem =>
        best \in pool.items /\ best.name = n /\ best.vendor = inst.vendor
  BY DEF UpdateCandidates, Available, Named
<1>5. c \in {inst, sit, highest, best}
      /\ (c = best => best # NoItem \/ c \in {inst, sit, highest})
  BY DEF Candidate
<1>6. c \in pool.items /\ c.name = n
  BY <1>1, <1>2, <1>3, <1>4, <1>5
<1>7. VendorFits(c, s)
  <2>1. CASE UserConstraints(s)
    BY <1>2, <1>6, <2>1 DEF VendorFits
  <2>2. CASE ~UserConstraints(s) /\ ~opts.force
    <3>1. c.vendor # inst.vendor => opts.allowVendorChange
      BY <1>4, <2>2 DEF Candidate
    <3> QED
      BY <1>6, <3>1 DEF VendorFits
  <2>3. CASE opts.force
    BY <2>3 DEF VendorFits
  <2> QED
    BY <2>1, <2>2, <2>3
<1> QED
  BY <1>6, <1>7

LEMMA RequestSound ==
  ASSUME pool \in Pools, opts \in OptionSets, NEW s, NEW sel \in pool.items,
         InstalledObj(sel.name) # NoItem, VendorFits(sel, s), NEW S, s \in S
  PROVE  Sound(Request(s, InstalledObj(sel.name), sel), S)
<1> DEFINE inst == InstalledObj(sel.name)
<1>1. inst \in pool.items /\ inst.name = sel.name
  BY InstalledObjFacts DEF Installed, Named
<1>2. CASE ~Acts(s, inst, sel)
  BY <1>2, NothingSound DEF Request
<1>3. CASE Acts(s, inst, sel) /\ opts.bestEffort
  <2>1. Capability(inst.name, "gt", inst.ed) \in CapabilityType
    BY <1>1, PoolFacts DEF Capability, CapabilityType
  <2> QED
    BY <1>3, <2>1, AddRequirementSound DEF Request
<1>4. CASE Acts(s, inst, sel) /\ ~opts.bestEffort
  <2>1. Request(s, inst, sel) = SetToInstall(sel)
    BY <1>4 DEF Request
  <2>2. sel.ed < inst.ed => opts.force \/ opts.oldpackage
    BY <1>1, <1>4, PoolFacts DEF Acts, MayReplace
  <2>3. Replaceable(sel, S)
    BY <2>2 DEF Replaceable, VendorFits
  <2>4. ~opts.force => sel.repo # System
    <3>1. sel.repo = System => sel = inst
      BY InstalledObjFacts DEF Installed, Named
    <3> QED
      BY <1>4, <3>1 DEF Acts, Identical
  <2> QED
    BY <2>1, <2>3, <2>4, SetToInstallSound
<1> QED
  BY <1>2, <1>3, <1>4

LEMMA UpdateToSound ==
  ASSUME pool \in Pools, opts \in OptionSets, NEW s, NEW sel \in pool.items,
         InstalledObj(sel.name) # NoItem, VendorFits(sel, s), NEW S, s \in S,
         NEW highest
  PROVE  Sound(UpdateTo(s, sel, highest), S)
<1> DEFINE said == Verdict(s, InstalledObj(sel.name), sel, highest)
                     \union PassedOver(s, InstalledObj(sel.name), sel, highest)
<1>1. Sound(Request(s, InstalledObj(sel.name), sel), S)
  BY RequestSound
<1>2. Sound(IF Forced(s, InstalledObj(sel.name), sel) THEN Nothing ELSE Only(said), S)
  BY NothingSound, OnlySound
<1> QED
  BY <1>1, <1>2, ThenSound DEF UpdateTo

-----------------------------------------------------------------------------
(* The inductive invariant.                                                *)

Bookkeeping ==
  /\ opts \in OptionSets /\ byCap \in BOOLEAN /\ byName \in BOOLEAN
  /\ StrategyIsOneOfThree
  /\ pc \in {"options", "ready", "dispatch", "matching", "refused", "applied"}
  /\ job \in Jobs \union {NoSpec}
  /\ current \in {"Install", "Remove", "Update"}
  /\ job # NoSpec => current = job.op
  /\ dos \subseteq Specs /\ donts \subseteq Specs
  /\ names \subseteq Names /\ absent \subseteq Names
  /\ spec \in Specs \union {NoSpec} /\ (spec # NoSpec <=> pc = "matching")
  /\ submitted \in 0 .. MaxJobs

Handed ==
  pc = "applied" =>
    resolver = [install |-> session.toinst, remove |-> session.toremove,
                require |-> session.requires, conflict |-> session.conflicts]

\* The first conjunct says that a session never changes the pool: it would
\* only lose locks, and a Sound session has no unforced pick of a locked name.
IInv ==
  /\ pool \in Pools
  /\ Bookkeeping
  /\ Sound(session, Asked)
  /\ Handed

LEMMA InitIInv == Init => IInv
<1> SUFFICES ASSUME Init PROVE IInv
  OBVIOUS
<1>1. Bookkeeping
  <2>1. submitted \in 0 .. MaxJobs
    BY JobAssumption DEF Init
  <2>2. byCap \in BOOLEAN /\ byName \in BOOLEAN /\ StrategyIsOneOfThree
    BY DEF Init, StrategyIsOneOfThree
  <2>3. job \in Jobs \union {NoSpec} /\ (job # NoSpec => current = job.op)
    BY DEF Init
  <2> QED
    BY <2>1, <2>2, <2>3 DEF Init, Bookkeeping
<1>2. Sound(session, Asked)
  BY NothingSound DEF Init
<1> QED
  BY <1>1, <1>2 DEF Init, IInv, Handed

\* What a step of the loops adds is sound, whatever has been asked for before.
LEMMA DoneSound ==
  ASSUME IInv, NEW s, NEW o, Done(s, o), spec \in {s, NoSpec},
         spec' \in {NoSpec, spec}, spec' = spec => spec = NoSpec,
         \A S : s \in S => Sound(o, S)
  PROVE  Sound(session', Asked')
<1> DEFINE r == [op |-> job.op, as |-> IF s \in dos THEN "do" ELSE "dont", spec |-> s]
<1>0. finished' = finished \union {r} /\ r.spec = s
  BY DEF Done
<1> HIDE DEF r
<1>1. s \in Asked'
  BY <1>0 DEF Asked
<1>2. Asked \subseteq Asked'
  BY <1>0, <1>1 DEF Asked
<1>3. Sound(session, Asked')
  BY <1>2, SoundForMore DEF IInv
<1>4. Sound(o, Asked')
  BY <1>1
<1> QED
  BY <1>3, <1>4, ThenSound DEF Done

LEMMA VisitSound ==
  ASSUME IInv, NEW n, NEW o, Visit(n, o), Sound(o, Asked)
  PROVE  Sound(session', Asked')
<1>1. Asked' = Asked
  BY DEF Visit, Asked
<1>2. Sound(Then(session, o), Asked)
  BY ThenSound DEF IInv
<1> QED
  BY <1>1, <1>2 DEF Visit

\* The bookkeeping of the two ends of a step.
LEMMA DoneKeeps ==
  ASSUME IInv, NEW s \in Specs, NEW o, Done(s, o),
         \/ pc = "dispatch" /\ UNCHANGED loopVars
         \/ spec' = NoSpec /\ names' = {} /\ absent' = {}
  PROVE  UNCHANGED <<pool, opts>> /\ Bookkeeping' /\ Handed'
  BY DEF IInv, Bookkeeping, Handed, Done, StrategyIsOneOfThree, optionVars,
         jobVars, loopVars

LEMMA VisitKeeps ==
  ASSUME IInv, NEW n \in names, NEW o, Visit(n, o), pc = "matching",
         absent' \subseteq absent \union {n}
  PROVE  UNCHANGED <<pool, opts>> /\ Bookkeeping' /\ Handed'
  BY DEF IInv, Bookkeeping, Handed, Visit, StrategyIsOneOfThree, optionVars,
         jobVars

LEMMA MatchNamesTyped ==
  ASSUME pool \in Pools, NEW s
  PROVE  MatchNames(s) \subseteq Names
  BY PoolFacts DEF MatchNames, Matches

-----------------------------------------------------------------------------
(* One lemma per group of actions.                                         *)

Kept == UNCHANGED <<pool, opts>> /\ Bookkeeping' /\ Handed' /\ Sound(session', Asked')

LEMMA ControlKeeps ==
  ASSUME IInv,
         \/ \E v \in BOOLEAN : SetForceByCap(v) \/ SetForceByName(v)
         \/ Create \/ (\E j \in Jobs : Submit(j)) \/ FinishJob \/ GiveUp
         \/ UNCHANGED vars
  PROVE  Kept
<1> USE DEF IInv, Bookkeeping, Handed, StrategyIsOneOfThree, optionVars, jobVars,
            loopVars, Kept, Asked
<1>1. CASE \E v \in BOOLEAN : SetForceByCap(v)
  BY <1>1 DEF SetForceByCap
<1>2. CASE \E v \in BOOLEAN : SetForceByName(v)
  BY <1>2 DEF SetForceByName
<1>3. CASE Create
  BY <1>3 DEF Create
<1>4. CASE \E j \in Jobs : Submit(j)
  <2> PICK j \in Jobs : Submit(j)
    BY <1>4
  <2>1. j.dos \subseteq Specs /\ j.donts \subseteq Specs
    BY DEF Specs
  <2>2. submitted + 1 \in 0 .. MaxJobs
    BY JobAssumption DEF Submit
  <2> QED
    BY <2>1, <2>2, JobAssumption, NoneAssumption DEF Submit
<1>5. CASE FinishJob
  BY <1>5 DEF FinishJob
<1>6. CASE GiveUp
  BY <1>6 DEF GiveUp
<1>7. CASE UNCHANGED vars
  BY <1>7 DEF vars
<1> QED
  BY <1>1, <1>2, <1>3, <1>4, <1>5, <1>6, <1>7

\* No selection of a Sound session takes a lock away.
LEMMA ApplyKeeps ==
  ASSUME IInv, ApplySelections
  PROVE  Kept
<1>1. \A i \in pool.locked : \A x \in Selected("SetToInstall") :
        x.forced \/ x.item.name # i.name
  BY PoolFacts DEF IInv, Sound, Fits, Selected, HasLocks, Named
<1>2. {i \in pool.locked : \A x \in Selected("SetToInstall") :
          x.forced \/ x.item.name # i.name} = pool.locked
  BY <1>1
<1>3. pool' = pool
  <2>1. pool' = [pool EXCEPT !.locked = pool.locked]
    BY <1>2 DEF ApplySelections
  <2> QED
    BY <2>1, PoolFacts DEF IInv
<1>4. Handed'
  BY DEF ApplySelections, Handed, IInv, Sound, Consistent, OfKind, Selected
<1>5. Bookkeeping' /\ opts' = opts
  BY DEF ApplySelections, IInv, Bookkeeping, StrategyIsOneOfThree, jobVars, loopVars
<1>6. session' = session /\ Asked' = Asked
  BY DEF ApplySelections, loopVars, Asked
<1> QED
  BY <1>3, <1>4, <1>5, <1>6 DEF Kept, IInv

LEMMA InstallDispatchKeeps ==
  ASSUME IInv, NEW s \in dos, StartMatching(s) \/ NotFoundByName(s) \/ InstallByCap(s)
  PROVE  Kept
<1>1. CASE StartMatching(s)
  <2>1. Bookkeeping'
    BY <1>1, MatchNamesTyped, NoneAssumption
    DEF StartMatching, IInv, Bookkeeping, StrategyIsOneOfThree, optionVars, jobVars
  <2>2. session' = session /\ Asked \subseteq Asked'
    BY <1>1 DEF StartMatching, IInv, Bookkeeping, Asked
  <2>3. Sound(session', Asked')
    BY <2>2, SoundForMore DEF IInv
  <2> QED
    BY <1>1, <2>1, <2>3 DEF StartMatching, Kept, Handed, optionVars
<1>2. CASE NotFoundByName(s)
  <2> DEFINE o == Only(Says("NOT_FOUND_NAME", s, NoItem))
  <2>1. Done(s, o) /\ spec = NoSpec /\ spec' = NoSpec /\ UNCHANGED loopVars
        /\ pc = "dispatch" /\ s \in Specs
    BY <1>2 DEF NotFoundByName, IInv, Bookkeeping, loopVars
  <2>2. \A S : Sound(o, S)
    BY OnlySound
  <2> HIDE DEF o
  <2> QED
    BY <2>1, <2>2, DoneSound, DoneKeeps DEF Kept
<1>3. CASE InstallByCap(s)
  <2> DEFINE p == IF WhatProvides(s) = {} THEN Only(Says("NOT_FOUND_CAP", s, NoItem))
                  ELSE IF InstalledProviders(s) = {} THEN AddRequirement(s, AsParsed(s))
                  ELSE IF current # "Install" THEN Nothing
                  ELSE Only(UNION {Says("ALREADY_INSTALLED", s, i)
                                     : i \in InstalledProviders(s)})
             o == Then(Only(TryingCaps(s)), p)
  <2>1. Done(s, o) /\ spec = NoSpec /\ spec' = NoSpec /\ UNCHANGED loopVars
        /\ pc = "dispatch" /\ s \in Specs
    BY <1>3 DEF InstallByCap, IInv, Bookkeeping, loopVars
  <2>2. \A S : Sound(p, S)
    BY <2>1, OnlySound, NothingSound, AddRequirementSound, AsParsedTyped
  <2> HIDE DEF p
  <2>3. \A S : Sound(o, S)
    BY <2>2, OnlySound, ThenSound
  <2> HIDE DEF o
  <2> QED
    BY <2>1, <2>3, DoneSound, DoneKeeps DEF Kept
<1> QED
  BY <1>1, <1>2, <1>3

LEMMA MatchingKeeps ==
  ASSUME IInv, NEW n \in names,
         VisitNotInRepos(n) \/ VisitInstalled(n) \/ VisitNotInstalled(n)
  PROVE  Kept
<1>0. pool \in Pools /\ opts \in OptionSets
  BY DEF IInv, Bookkeeping
<1>1. CASE VisitNotInRepos(n)
  <2> DEFINE f == (IF opts.force THEN {}
                   ELSE Says("ALREADY_INSTALLED", spec, InstalledObj(n)))
                  \union Says("NOT_IN_REPOS", spec, InstalledObj(n))
  <2>1. Done(spec, Only(f)) /\ spec # NoSpec /\ spec \in Specs
        /\ spec' = NoSpec /\ names' = {} /\ absent' = {}
    BY <1>1 DEF VisitNotInRepos, IInv, Bookkeeping
  <2>2. \A S : Sound(Only(f), S)
    BY OnlySound
  <2> HIDE DEF f
  <2> QED
    BY <2>1, <2>2, DoneSound, DoneKeeps DEF Kept
<1>2. CASE VisitInstalled(n)
  <2>1. PICK sit \in BestMatches(spec, n), best \in UpdateCandidates(n),
             highest \in Highest(n) :
          Visit(n, UpdateTo(spec, Candidate(spec, InstalledObj(n), sit, best, highest),
                            highest))
    BY <1>2 DEF VisitInstalled
  <2> DEFINE c == Candidate(spec, InstalledObj(n), sit, best, highest)
  <2>2. c \in pool.items /\ c.name = n /\ VendorFits(c, spec)
    BY <1>0, <1>2, CandidateFits DEF VisitInstalled
  <2>3. spec \in Asked
    BY <1>2 DEF VisitInstalled, IInv, Bookkeeping, Asked
  <2>4. InstalledObj(n) # NoItem /\ pc = "matching" /\ absent' = absent
    BY <1>2 DEF VisitInstalled
  <2> HIDE DEF c
  <2>5. Sound(UpdateTo(spec, c, highest), Asked)
    BY <1>0, <2>2, <2>3, <2>4, UpdateToSound
  <2>6. Visit(n, UpdateTo(spec, c, highest))
    BY <2>1 DEF c
  <2> QED
    BY <2>4, <2>5, <2>6, VisitSound, VisitKeeps DEF Kept
<1>3. CASE VisitNotInstalled(n)
  <2>0. InstalledObj(n) = NoItem /\ pc = "matching" /\ absent' \subseteq absent \union {n}
    BY <1>3 DEF VisitNotInstalled
  <2>1. CASE \E sit \in BestMatches(spec, n) : Visit(n, SetToInstall(sit))
    <3>1. PICK sit \in BestMatches(spec, n) : Visit(n, SetToInstall(sit))
      BY <2>1
    <3>2. sit \in pool.items /\ sit.name = n
      BY DEF BestMatches, Matches
    <3>3. sit.repo # System
      BY <1>0, <2>0, <3>2, InstalledObjFacts DEF Installed, Named
    <3>4. Replaceable(sit, Asked)
      BY <2>0, <3>2 DEF Replaceable
    <3>5. Sound(SetToInstall(sit), Asked)
      BY <1>0, <3>2, <3>3, <3>4, SetToInstallSound
    <3> QED
      BY <2>0, <3>1, <3>5, VisitSound, VisitKeeps DEF Kept
  <2>2. CASE Visit(n, Nothing)
    BY <2>0, <2>2, NothingSound, VisitSound, VisitKeeps DEF Kept
  <2> QED
    BY <1>3, <2>1, <2>2 DEF VisitNotInstalled
<1> QED
  BY <1>1, <1>2, <1>3

LEMMA EndMatchingKeeps ==
  ASSUME IInv, EndMatching
  PROVE  Kept
<1> DEFINE o == IF absent = MatchNames(spec)
                THEN Only(Says("NOT_INSTALLED", spec, NoItem)) ELSE Nothing
<1>1. Done(spec, o) /\ spec # NoSpec /\ spec \in Specs
      /\ spec' = NoSpec /\ names' = {} /\ absent' = {}
  BY DEF EndMatching, IInv, Bookkeeping
<1>2. \A S : Sound(o, S)
  BY OnlySound, NothingSound
<1> HIDE DEF o
<1> QED
  BY <1>1, <1>2, DoneSound, DoneKeeps DEF Kept

LEMMA RemoveKeeps ==
  ASSUME IInv, NEW s \in donts, RemoveByName(s) \/ RemoveNotByName(s) \/ RemoveByCap(s)
  PROVE  Kept
<1>0. s \in Specs /\ pool \in Pools
  BY DEF IInv, Bookkeeping
<1>1. CASE RemoveByName(s)
  <2> DEFINE o == Each({SetToRemove(i) : i \in InstalledMatches(s)})
  <2>1. Done(s, o) /\ spec = NoSpec /\ spec' = NoSpec /\ UNCHANGED loopVars
        /\ pc = "dispatch"
    BY <1>1 DEF RemoveByName, IInv, Bookkeeping, loopVars
  <2>2. \A i \in InstalledMatches(s) : i \in pool.items
    BY DEF InstalledMatches, Matches
  <2>3. ASSUME NEW S PROVE \A a \in {SetToRemove(i) : i \in InstalledMatches(s)} : Sound(a, S)
    BY <1>0, <2>2, SetToRemoveSound
  <2>4. \A S : Sound(o, S)
    BY <2>3, EachSound
  <2> HIDE DEF o
  <2> QED
    BY <1>0, <2>1, <2>4, DoneSound, DoneKeeps DEF Kept
<1>2. CASE RemoveNotByName(s)
  <2> DEFINE f == Says(IF Matches(s, {}) = {} THEN "NOT_FOUND_NAME"
                       ELSE "NOT_INSTALLED", s, NoItem)
  <2>1. Done(s, Only(f)) /\ spec = NoSpec /\ spec' = NoSpec /\ UNCHANGED loopVars
        /\ pc = "dispatch"
    BY <1>2 DEF RemoveNotByName, IInv, Bookkeeping, loopVars
  <2>2. \A S : Sound(Only(f), S)
    BY OnlySound
  <2> HIDE DEF f
  <2> QED
    BY <1>0, <2>1, <2>2, DoneSound, DoneKeeps DEF Kept
<1>3. CASE RemoveByCap(s)
  <2> DEFINE f == (IF byCap \/ Matches(s, {}) = {} THEN {}
                   ELSE Says("NOT_INSTALLED", s, NoItem)) \union TryingCaps(s)
             p == IF WhatProvides(s) = {} THEN Only(Says("NOT_FOUND_CAP", s, NoItem))
                  ELSE IF InstalledProviders(s) = {}
                       THEN Only(Says("NO_INSTALLED_PROVIDER", s, NoItem))
                  ELSE AddConflict(s)
  <2>1. Done(s, Then(Only(f), p)) /\ spec = NoSpec /\ spec' = NoSpec
        /\ UNCHANGED loopVars /\ pc = "dispatch"
    BY <1>3 DEF RemoveByCap, IInv, Bookkeeping, loopVars
  <2>2. \A S : Sound(p, S)
    BY <1>0, OnlySound, AddConflictSound
  <2> HIDE DEF f, p
  <2>3. \A S : Sound(Then(Only(f), p), S)
    BY <2>2, OnlySound, ThenSound
  <2> QED
    BY <1>0, <2>1, <2>3, DoneSound, DoneKeeps DEF Kept
<1> QED
  BY <1>1, <1>2, <1>3

LEMMA StepKeeps ==
  ASSUME IInv, [Next]_vars
  PROVE  Kept
<1>1. CASE Install
  BY <1>1, InstallDispatchKeeps, MatchingKeeps, EndMatchingKeeps DEF Install
<1>2. CASE Remove
  BY <1>2, RemoveKeeps DEF Remove
<1>3. CASE ApplySelections
  BY <1>3, ApplyKeeps
<1>4. CASE ~Install /\ ~Remove /\ ~ApplySelections
  BY <1>4, ControlKeeps DEF Next
<1> QED
  BY <1>1, <1>2, <1>3, <1>4

LEMMA KeptIInv ==
  ASSUME IInv, Kept
  PROVE  IInv'
<1>1. Sound(session, Asked)'
  BY DEF Kept, Sound, Fits, Replaceable, Consistent, OfKind, InstalledObj, Installed,
         Named, HasLocks, UserConstraints
<1> QED
  BY <1>1 DEF Kept, IInv

THEOREM Inductive == Spec => []IInv
<1>1. IInv /\ [Next]_vars => IInv'
  BY StepKeeps, KeptIInv
<1> QED
  BY InitIInv, <1>1, PTL DEF Spec

-----------------------------------------------------------------------------
(* What a session selects and what it refuses, spec by spec.  Of a spec the  *)
(* session is done with, the pool says whether there was anything to find;   *)
(* with one of the overrides on, only such a spec selects and only any other *)
(* is refused.                                                             *)

Running == [op |-> job.op, as |-> "do", spec |-> spec]

Tasks == finished \union (IF pc = "matching" THEN {Running} ELSE {})

Finds(t) ==
  IF t.as = "do"
  THEN IF byCap THEN WhatProvides(t.spec) # {}
       ELSE \E n \in MatchNames(t.spec) : t.op = "Install" \/ InstalledObj(n) # NoItem
  ELSE IF byCap THEN InstalledProviders(t.spec) # {}
       ELSE InstalledMatches(t.spec) # {}

Refusals == {"NOT_FOUND_NAME", "NOT_FOUND_CAP", "NOT_INSTALLED", "NO_INSTALLED_PROVIDER"}

Refuses(o) == \E f \in o.feedback : f.id \in Refusals

LockedBuild(c) == \E i \in pool.items : HasLocks(i.name) /\ c = Exactly(i)

ByFallBack(c, t) ==
  ~byName /\ t.as = "dont" /\ InstalledMatches(t.spec) = {} /\ c = AsParsed(t.spec)

\* What the outcome o of the task t says.
Honest(o, t) ==
  /\ byCap \/ byName => /\ o.selections # {} => Finds(t)
                        /\ Refuses(o) => ~Finds(t)
  /\ ~byCap => \A x \in o.selections :
                 x.kind = "AddConflict" => LockedBuild(x.cap) \/ ByFallBack(x.cap, t)

Matching ==
  /\ pc \in {"dispatch", "matching"} => job # NoSpec
  /\ pc = "matching" => ~byCap /\ spec \in dos /\ names \subseteq MatchNames(spec)
  /\ pc # "matching" => absent = {}
  /\ \A n \in absent : current # "Install" /\ InstalledObj(n) = NoItem

Answers ==
  /\ byCap \/ byName => /\ session.selections # {} => \E t \in Tasks : Finds(t)
                        /\ Refuses(session) => \E t \in finished : ~Finds(t)
  /\ ~byCap => \A x \in session.selections :
                 x.kind = "AddConflict" =>
                   LockedBuild(x.cap) \/ \E t \in finished : ByFallBack(x.cap, t)

Progress ==
  /\ pc = "options" => session = Nothing /\ finished = {}
  /\ pc = "refused" => Refuses(session)

AInv == Matching /\ Answers /\ Progress

-----------------------------------------------------------------------------
(* What the four ways to select something say.                             *)

\* Neither a refusal nor a conflict.
Mild(o) == ~Refuses(o) /\ \A x \in o.selections : x.kind # "AddConflict"

LEMMA NothingMild == Mild(Nothing)
  BY DEF Mild, Refuses, Nothing, Only, Outcome

LEMMA OnlyMild ==
  ASSUME NEW f, \A g \in f : g.id \notin Refusals
  PROVE  Mild(Only(f))
  BY DEF Mild, Refuses, Only, Outcome

LEMMA ThenMild ==
  ASSUME NEW a, NEW b, Mild(a), Mild(b)
  PROVE  Mild(Then(a, b))
  BY DEF Mild, Refuses, Then, Outcome

LEMMA SetToInstallMild == \A i : Mild(SetToInstall(i))
<1> SUFFICES ASSUME NEW i PROVE Mild(SetToInstall(i))
  OBVIOUS
<1>1. \A f \in SetToInstall(i).feedback : f.id \notin Refusals
  BY DEF SetToInstall, Outcome, Says, SaysLocked, Refusals
<1>2. \A x \in SetToInstall(i).selections : x.kind # "AddConflict"
  BY DEF SetToInstall, Outcome, Picked, Required, Selection
<1> QED
  BY <1>1, <1>2 DEF Mild, Refuses

LEMMA AddRequirementMild == \A s, cap : Mild(AddRequirement(s, cap))
  BY DEF Mild, Refuses, AddRequirement, Outcome, Says, Refusals, Required, Selection

LEMMA UpdateToMild == \A s, sel, highest : Mild(UpdateTo(s, sel, highest))
<1> SUFFICES ASSUME NEW s, NEW sel, NEW highest PROVE Mild(UpdateTo(s, sel, highest))
  OBVIOUS
<1> DEFINE inst == InstalledObj(sel.name)
<1>1. Mild(Request(s, inst, sel))
  BY NothingMild, SetToInstallMild, AddRequirementMild DEF Request
<1>2. \A f \in Verdict(s, inst, sel, highest) : f.id \notin Refusals
  BY DEF Verdict, Says, Refusals
<1>3. \A f \in PassedOver(s, inst, sel, highest) : f.id \notin Refusals
  BY DEF PassedOver, Says, Refusals
<1>4. Mild(Only(Verdict(s, inst, sel, highest) \union PassedOver(s, inst, sel, highest)))
  BY <1>2, <1>3, OnlyMild
<1> QED
  BY <1>1, <1>4, NothingMild, ThenMild DEF UpdateTo

-----------------------------------------------------------------------------
(* AInv is inductive, given IInv.                                          *)

LEMMA InitAInv == Init => AInv
  BY NothingMild DEF Init, AInv, Matching, Answers, Progress, Tasks, Mild, Nothing, Only,
                     Outcome, Refuses

\* What a task finds is a matter of the pool and the options.
LEMMA PoolDecides ==
  ASSUME UNCHANGED optionVars
  PROVE  /\ \A t : Finds(t)' <=> Finds(t)
         /\ \A c : LockedBuild(c)' <=> LockedBuild(c)
         /\ \A c, t : ByFallBack(c, t)' <=> ByFallBack(c, t)
         /\ \A s : MatchNames(s)' = MatchNames(s)
         /\ \A n : InstalledObj(n)' = InstalledObj(n)
<1>1. \A s, R : Matches(s, R)' = Matches(s, R)
  BY DEF optionVars, Matches
<1>2. \A s : SpecRepos(s)' = SpecRepos(s)
  BY DEF optionVars, SpecRepos
<1>3. \A s : MatchNames(s)' = MatchNames(s)
  BY <1>1, <1>2 DEF MatchNames
<1>4. \A n : InstalledObj(n)' = InstalledObj(n)
  BY DEF optionVars, InstalledObj, Installed, Named
<1>5. \A s : InstalledMatches(s)' = InstalledMatches(s)
  BY <1>1 DEF InstalledMatches
<1>6. \A s : WhatProvides(s)' = WhatProvides(s)
  BY DEF optionVars, WhatProvides
<1>7. \A s : InstalledProviders(s)' = InstalledProviders(s)
  BY <1>6 DEF InstalledProviders
<1>8. \A t : Finds(t)' <=> Finds(t)
  BY <1>3, <1>4, <1>5, <1>6, <1>7 DEF Finds, optionVars
<1>9. \A c : LockedBuild(c)' <=> LockedBuild(c)
  BY DEF LockedBuild, HasLocks, Named, optionVars
<1>10. \A c, t : ByFallBack(c, t)' <=> ByFallBack(c, t)
  BY <1>5 DEF ByFallBack, optionVars
<1> QED
  BY <1>3, <1>4, <1>8, <1>9, <1>10

\* The record install() and remove() leave of s.
TaskOf(s) == [op |-> job.op, as |-> IF s \in dos THEN "do" ELSE "dont", spec |-> s]

LEMMA DoneAnswers ==
  ASSUME AInv, NEW s, NEW o, Done(s, o), Honest(o, TaskOf(s)),
         pc = "dispatch" \/ (pc = "matching" /\ s = spec), absent' = {}
  PROVE  AInv'
<1>1. finished' = finished \union {TaskOf(s)}
  BY DEF Done, TaskOf
<1>2. UNCHANGED optionVars /\ pc' = "dispatch" /\ job' = job
      /\ session' = Then(session, o)
  BY DEF Done, jobVars
<1>3. Tasks \subseteq finished' /\ finished' = Tasks'
  <2>1. pc = "matching" => Running = TaskOf(s)
    BY DEF AInv, Matching, Running, TaskOf
  <2> QED
    BY <1>1, <1>2, <2>1 DEF Tasks
<1> DEFINE t == TaskOf(s)
<1>4. t \in finished'
  BY <1>1
<1> HIDE DEF t
<1>5. Honest(o, t)
  BY DEF t
<1>6. byCap \/ byName => /\ session'.selections # {} => \E r \in Tasks' : Finds(r)
                         /\ Refuses(session)' => \E r \in finished' : ~Finds(r)
  BY <1>1, <1>2, <1>3, <1>4, <1>5 DEF AInv, Answers, Honest, Refuses, Then, Outcome
<1>7. ~byCap => \A x \in session'.selections :
                  x.kind = "AddConflict" =>
                    LockedBuild(x.cap) \/ \E r \in finished' : ByFallBack(x.cap, r)
  BY <1>1, <1>2, <1>4, <1>5 DEF AInv, Answers, Honest, Then, Outcome
<1>8. Answers'
  BY <1>2, <1>6, <1>7, PoolDecides DEF Answers, optionVars
<1>9. Matching' /\ Progress'
  BY <1>2 DEF AInv, Matching, Progress
<1> QED
  BY <1>8, <1>9 DEF AInv

LEMMA VisitAnswers ==
  ASSUME IInv, AInv, pc = "matching", NEW n \in names, NEW o, Visit(n, o), Mild(o),
         o.selections # {} => current = "Install" \/ InstalledObj(n) # NoItem,
         \A m \in absent' \ absent : current # "Install" /\ InstalledObj(m) = NoItem
  PROVE  AInv'
<1>1. UNCHANGED <<optionVars, pc, job, current, dos, spec, finished>>
      /\ session' = Then(session, o) /\ names' \subseteq names
  BY DEF Visit, jobVars
<1>2. Tasks' = Tasks /\ Running \in Tasks
  BY <1>1 DEF Tasks, Running
<1>3. o.selections # {} => Finds(Running)
  BY DEF Finds, Running, IInv, Bookkeeping, AInv, Matching
<1>4. byCap \/ byName => /\ session'.selections # {} => \E t \in Tasks' : Finds(t)
                         /\ Refuses(session)' => \E t \in finished' : ~Finds(t)
  BY <1>1, <1>2, <1>3 DEF AInv, Answers, Mild, Refuses, Then, Outcome
<1>5. ~byCap => \A x \in session'.selections :
                  x.kind = "AddConflict" =>
                    LockedBuild(x.cap) \/ \E t \in finished' : ByFallBack(x.cap, t)
  BY <1>1 DEF AInv, Answers, Mild, Then, Outcome
<1>6. Answers'
  BY <1>1, <1>4, <1>5, PoolDecides DEF Answers, optionVars
<1>7. Matching'
  BY <1>1, PoolDecides DEF AInv, Matching, optionVars
<1>8. Progress'
  BY <1>1 DEF AInv, Progress
<1> QED
  BY <1>6, <1>7, <1>8 DEF AInv

\* A step that leaves the session as it was.
LEMMA IdleAnswers ==
  ASSUME AInv, UNCHANGED <<optionVars, session, finished>>, Tasks \subseteq Tasks'
  PROVE  Answers'
<1>1. byCap \/ byName => /\ session.selections # {} => \E t \in Tasks' : Finds(t)
                         /\ Refuses(session) => \E t \in finished' : ~Finds(t)
  BY DEF AInv, Answers
<1>2. ~byCap => \A x \in session.selections :
                  x.kind = "AddConflict" =>
                    LockedBuild(x.cap) \/ \E t \in finished' : ByFallBack(x.cap, t)
  BY DEF AInv, Answers
<1>3. Refuses(session)' <=> Refuses(session)
  BY DEF Refuses
<1> QED
  BY <1>1, <1>2, <1>3, PoolDecides DEF Answers, optionVars

LEMMA MildHonest ==
  ASSUME NEW o, NEW t, Mild(o), o.selections = {} \/ Finds(t)
  PROVE  Honest(o, t)
  BY DEF Mild, Honest

LEMMA OnlyHonest ==
  ASSUME NEW f, NEW t, (\E g \in f : g.id \in Refusals) => (byCap \/ byName => ~Finds(t))
  PROVE  Honest(Only(f), t)
  BY DEF Honest, Only, Outcome, Refuses

LEMMA ThenHonest ==
  ASSUME NEW a, NEW b, NEW t, Honest(a, t), Honest(b, t)
  PROVE  Honest(Then(a, b), t)
  BY DEF Honest, Then, Outcome, Refuses

-----------------------------------------------------------------------------
(* One lemma per group of actions, again.                                  *)

LEMMA ControlAnswers ==
  ASSUME IInv, AInv,
         \/ \E v \in BOOLEAN : SetForceByCap(v) \/ SetForceByName(v)
         \/ Create \/ (\E j \in Jobs : Submit(j)) \/ FinishJob \/ GiveUp
         \/ ApplySelections \/ UNCHANGED vars
  PROVE  AInv'
<1>1. CASE \E v \in BOOLEAN : SetForceByCap(v) \/ SetForceByName(v)
  <2>1. session' = Nothing /\ finished' = {} /\ pc' = "options" /\ absent' = absent
        /\ pc = "options"
    BY <1>1 DEF SetForceByCap, SetForceByName, AInv, Progress, jobVars, loopVars
  <2>2. Answers' /\ Progress'
    BY <2>1, NothingMild
    DEF Answers, Progress, Mild, Refuses, Tasks, Nothing, Only, Outcome
  <2>3. Matching'
    BY <2>1 DEF AInv, Matching
  <2> QED
    BY <2>2, <2>3 DEF AInv
<1>2. CASE Create
  <2>1. UNCHANGED <<optionVars, session, finished, jobVars, loopVars>> /\ pc' = "ready"
        /\ pc = "options"
    BY <1>2 DEF Create
  <2>2. Tasks \subseteq Tasks' /\ Progress'
    BY <2>1 DEF Tasks, Progress
  <2>3. Matching'
    BY <2>1 DEF AInv, Matching, loopVars
  <2> QED
    BY <2>1, <2>2, <2>3, IdleAnswers DEF AInv
<1>3. CASE \E j \in Jobs : Submit(j)
  <2>1. PICK j \in Jobs : Submit(j)
    BY <1>3
  <2>2. UNCHANGED <<optionVars, session, finished, loopVars>> /\ pc' = "dispatch"
        /\ pc = "ready" /\ job' # NoSpec
    BY <2>1, NoneAssumption DEF Submit
  <2>3. Tasks \subseteq Tasks' /\ Progress' /\ Matching'
    BY <2>2, PoolDecides DEF Tasks, AInv, Progress, Matching, loopVars
  <2> QED
    BY <2>2, <2>3, IdleAnswers DEF AInv
<1>4. CASE FinishJob \/ GiveUp
  <2>1. UNCHANGED <<optionVars, session, finished, jobVars, loopVars>>
        /\ pc' \in {"ready", "refused"} /\ pc \in {"dispatch", "ready"}
    BY <1>4 DEF FinishJob, GiveUp
  <2>2. pc' = "refused" => Refuses(session')
    BY <1>4 DEF FinishJob, GiveUp, HasFeedback, GivesUpOn, Refuses, Refusals
  <2>3. Tasks \subseteq Tasks' /\ Progress'
    BY <2>1, <2>2 DEF Tasks, Progress, Refuses
  <2>4. Matching'
    <3>1. job # NoSpec \/ pc' # "dispatch"
      BY <2>1
    <3> QED
      BY <2>1, PoolDecides DEF AInv, Matching, loopVars, jobVars
  <2> QED
    BY <2>1, <2>3, <2>4, IdleAnswers DEF AInv
<1>5. CASE ApplySelections
  <2>1. pool' = pool
    BY <1>5, ApplyKeeps DEF Kept
  <2>2. UNCHANGED <<optionVars, session, finished, jobVars, loopVars>> /\ pc' = "applied"
        /\ pc = "ready"
    BY <1>5, <2>1 DEF ApplySelections, optionVars
  <2>3. Tasks \subseteq Tasks' /\ Progress' /\ Matching'
    BY <2>2, PoolDecides DEF Tasks, AInv, Progress, Matching, loopVars, jobVars
  <2> QED
    BY <2>2, <2>3, IdleAnswers DEF AInv
<1>6. CASE UNCHANGED vars
  <2>1. UNCHANGED <<optionVars, session, finished, jobVars, loopVars, pc, dos>>
    BY <1>6 DEF vars
  <2>2. Tasks \subseteq Tasks' /\ Progress'
    BY <2>1 DEF Tasks, Running, AInv, Progress, Refuses, loopVars, jobVars
  <2>3. Matching'
    BY <2>1, PoolDecides DEF AInv, Matching, loopVars, jobVars, optionVars
  <2> QED
    BY <2>1, <2>2, <2>3, IdleAnswers DEF AInv
<1> QED
  BY <1>1, <1>2, <1>3, <1>4, <1>5, <1>6

LEMMA InstallDispatchAnswers ==
  ASSUME IInv, AInv, NEW s \in dos,
         StartMatching(s) \/ NotFoundByName(s) \/ InstallByCap(s)
  PROVE  AInv'
<1> DEFINE t == TaskOf(s)
<1>0. t.op = job.op /\ t.as = "do" /\ t.spec = s
  BY DEF TaskOf
<1> HIDE DEF t
<1>1. CASE StartMatching(s)
  <2>1. UNCHANGED <<optionVars, session, finished, jobVars, dos>> /\ pc' = "matching"
        /\ pc = "dispatch" /\ spec' = s /\ names' = MatchNames(s) /\ absent' = {} /\ ~byCap
    BY <1>1 DEF StartMatching
  <2>2. Tasks \subseteq Tasks' /\ Progress'
    BY <2>1 DEF Tasks, Progress
  <2>3. MatchNames(s)' = MatchNames(s)
    BY <2>1, PoolDecides
  <2>4. Matching'
    BY <2>1, <2>3 DEF AInv, Matching, jobVars, optionVars
  <2> QED
    BY <2>1, <2>2, <2>4, IdleAnswers DEF AInv
<1>2. CASE NotFoundByName(s)
  <2>1. ~byCap /\ MatchNames(s) = {}
        /\ Done(s, Only(Says("NOT_FOUND_NAME", s, NoItem)))
        /\ pc = "dispatch" /\ absent' = {}
    BY <1>2 DEF NotFoundByName, AInv, Matching, loopVars
  <2>2. Honest(Only(Says("NOT_FOUND_NAME", s, NoItem)), t)
    BY <1>0, <2>1, OnlyHonest DEF Finds
  <2> QED
    BY <2>1, <2>2, DoneAnswers DEF t
<1>3. CASE InstallByCap(s)
  <2> DEFINE p == IF WhatProvides(s) = {} THEN Only(Says("NOT_FOUND_CAP", s, NoItem))
                  ELSE IF InstalledProviders(s) = {} THEN AddRequirement(s, AsParsed(s))
                  ELSE IF current # "Install" THEN Nothing
                  ELSE Only(UNION {Says("ALREADY_INSTALLED", s, i)
                                     : i \in InstalledProviders(s)})
             o == Then(Only(TryingCaps(s)), p)
  <2>1. Done(s, o) /\ pc = "dispatch" /\ absent' = {}
    BY <1>3 DEF InstallByCap, AInv, Matching, loopVars
  <2>2. byName => byCap
    BY <1>3 DEF InstallByCap
  <2>3. Honest(p, t)
    <3>1. CASE WhatProvides(s) = {}
      BY <1>0, <2>2, <3>1, OnlyHonest DEF Finds
    <3>2. CASE WhatProvides(s) # {} /\ InstalledProviders(s) = {}
      <4>1. byCap => Finds(t)
        BY <1>0, <3>2 DEF Finds
      <4> QED
        BY <2>2, <3>2, <4>1, AddRequirementMild DEF Honest, Mild
    <3>3. CASE WhatProvides(s) # {} /\ InstalledProviders(s) # {} /\ current # "Install"
      <4>1. Nothing.selections = {}
        BY DEF Nothing, Only, Outcome
      <4> QED
        BY <3>3, <4>1, NothingMild, MildHonest
    <3>4. CASE WhatProvides(s) # {} /\ InstalledProviders(s) # {} /\ current = "Install"
      <4>1. \A g \in UNION {Says("ALREADY_INSTALLED", s, i) : i \in InstalledProviders(s)} :
              g.id \notin Refusals
        BY DEF Says, Refusals
      <4> QED
        BY <3>4, <4>1, OnlyHonest
    <3> QED
      BY <3>1, <3>2, <3>3, <3>4
  <2>4. Honest(Only(TryingCaps(s)), t)
    <3>1. \A g \in TryingCaps(s) : g.id \notin Refusals
      BY DEF TryingCaps, Says, Refusals
    <3> QED
      BY <3>1, OnlyHonest
  <2> HIDE DEF p
  <2>5. Honest(o, t)
    BY <2>3, <2>4, ThenHonest
  <2> HIDE DEF o
  <2> QED
    BY <2>1, <2>5, DoneAnswers DEF t
<1> QED
  BY <1>1, <1>2, <1>3

LEMMA MatchingAnswers ==
  ASSUME IInv, AInv, NEW n \in names,
         VisitNotInRepos(n) \/ VisitInstalled(n) \/ VisitNotInstalled(n)
  PROVE  AInv'
<1>1. CASE VisitNotInRepos(n)
  <2> DEFINE f == (IF opts.force THEN {}
                   ELSE Says("ALREADY_INSTALLED", spec, InstalledObj(n)))
                  \union Says("NOT_IN_REPOS", spec, InstalledObj(n))
  <2>1. Done(spec, Only(f)) /\ pc = "matching" /\ absent' = {}
    BY <1>1 DEF VisitNotInRepos
  <2>2. \A g \in f : g.id \notin Refusals
    BY DEF Says, Refusals
  <2> HIDE DEF f
  <2>3. Honest(Only(f), TaskOf(spec))
    BY <2>2, OnlyHonest
  <2> QED
    BY <2>1, <2>3, DoneAnswers
<1>2. CASE VisitInstalled(n)
  <2>1. PICK sit \in BestMatches(spec, n), best \in UpdateCandidates(n),
             highest \in Highest(n) :
          Visit(n, UpdateTo(spec, Candidate(spec, InstalledObj(n), sit, best, highest),
                            highest))
    BY <1>2 DEF VisitInstalled
  <2> DEFINE o == UpdateTo(spec, Candidate(spec, InstalledObj(n), sit, best, highest),
                           highest)
  <2>2. Mild(o)
    BY UpdateToMild
  <2>3. Visit(n, o)
    BY <2>1
  <2>4. pc = "matching" /\ InstalledObj(n) # NoItem /\ absent' = absent
    BY <1>2 DEF VisitInstalled
  <2> HIDE DEF o
  <2> QED
    BY <2>2, <2>3, <2>4, VisitAnswers
<1>3. CASE VisitNotInstalled(n)
  <2>0. InstalledObj(n) = NoItem /\ pc = "matching"
    BY <1>3 DEF VisitNotInstalled
  <2>1. CASE current = "Install"
    <3>1. PICK sit \in BestMatches(spec, n) : Visit(n, SetToInstall(sit))
      BY <1>3, <2>1 DEF VisitNotInstalled
    <3>2. absent' = absent
      BY <1>3, <2>1 DEF VisitNotInstalled
    <3> QED
      BY <2>0, <2>1, <3>1, <3>2, SetToInstallMild, VisitAnswers
  <2>2. CASE current # "Install"
    <3>1. Visit(n, Nothing) /\ absent' = absent \union {n}
      BY <1>3, <2>2 DEF VisitNotInstalled
    <3>2. Nothing.selections = {}
      BY DEF Nothing, Only, Outcome
    <3> QED
      BY <2>0, <2>2, <3>1, <3>2, NothingMild, VisitAnswers
  <2> QED
    BY <2>1, <2>2
<1> QED
  BY <1>1, <1>2, <1>3

\* NOT_INSTALLED is said of a spec only when each of its matches is absent.
LEMMA EndMatchingAnswers ==
  ASSUME IInv, AInv, EndMatching
  PROVE  AInv'
<1> DEFINE o == IF absent = MatchNames(spec)
                THEN Only(Says("NOT_INSTALLED", spec, NoItem)) ELSE Nothing
           t == TaskOf(spec)
<1>1. Done(spec, o) /\ pc = "matching" /\ absent' = {}
  BY DEF EndMatching
<1>2. t.op = current /\ t.as = "do" /\ t.spec = spec
  BY <1>1 DEF TaskOf, AInv, Matching, IInv, Bookkeeping
<1> HIDE DEF t
<1>3. Honest(o, t)
  <2>1. CASE absent = MatchNames(spec)
    <3>1. ~Finds(t)
      BY <1>1, <1>2, <2>1 DEF Finds, AInv, Matching
    <3> QED
      BY <2>1, <3>1, OnlyHonest
  <2>2. CASE absent # MatchNames(spec)
    <3>1. Nothing.selections = {}
      BY DEF Nothing, Only, Outcome
    <3> QED
      BY <2>2, <3>1, NothingMild, MildHonest
  <2> QED
    BY <2>1, <2>2
<1> HIDE DEF o
<1> QED
  BY <1>1, <1>3, DoneAnswers DEF t

LEMMA RemoveAnswers ==
  ASSUME IInv, AInv, NEW s \in donts,
         RemoveByName(s) \/ RemoveNotByName(s) \/ RemoveByCap(s)
  PROVE  AInv'
<1> DEFINE t == TaskOf(s)
<1>0. pc = "dispatch" /\ absent' = {} /\ t.as = "dont" /\ t.spec = s
  BY DEF RemoveByName, RemoveNotByName, RemoveByCap, TaskOf, AInv, Matching, loopVars
<1> HIDE DEF t
<1>1. CASE RemoveByName(s)
  <2> DEFINE o == Each({SetToRemove(i) : i \in InstalledMatches(s)})
  <2>1. Done(s, o) /\ Finds(t)
    BY <1>0, <1>1 DEF RemoveByName, Finds
  <2>2. \A i \in InstalledMatches(s) : i \in pool.items
    BY DEF InstalledMatches, Matches
  <2>3. \A i : \A f \in SetToRemove(i).feedback : f.id \notin Refusals
    BY DEF SetToRemove, Outcome, Says, SaysLocked, Refusals
  <2>4. \A i \in pool.items : \A x \in SetToRemove(i).selections :
          x.kind = "AddConflict" => LockedBuild(x.cap)
    BY DEF SetToRemove, Outcome, Selection, Conflicted, LockedBuild
  <2>5. ~Refuses(o)
    BY <2>3 DEF Refuses, Each, Outcome
  <2>6. \A x \in o.selections : x.kind = "AddConflict" => LockedBuild(x.cap)
    BY <2>2, <2>4 DEF Each, Outcome
  <2> HIDE DEF o
  <2>7. Honest(o, t)
    BY <2>1, <2>5, <2>6 DEF Honest
  <2> QED
    BY <1>0, <2>1, <2>7, DoneAnswers DEF t
<1>2. CASE RemoveNotByName(s)
  <2> DEFINE f == Says(IF Matches(s, {}) = {} THEN "NOT_FOUND_NAME"
                       ELSE "NOT_INSTALLED", s, NoItem)
  <2>1. Done(s, Only(f)) /\ ~Finds(t)
    BY <1>0, <1>2 DEF RemoveNotByName, Finds
  <2> HIDE DEF f
  <2>2. Honest(Only(f), t)
    BY <2>1, OnlyHonest
  <2> QED
    BY <1>0, <2>1, <2>2, DoneAnswers DEF t
<1>3. CASE RemoveByCap(s)
  <2> DEFINE f == (IF byCap \/ Matches(s, {}) = {} THEN {}
                   ELSE Says("NOT_INSTALLED", s, NoItem)) \union TryingCaps(s)
             p == IF WhatProvides(s) = {} THEN Only(Says("NOT_FOUND_CAP", s, NoItem))
                  ELSE IF InstalledProviders(s) = {}
                       THEN Only(Says("NO_INSTALLED_PROVIDER", s, NoItem))
                  ELSE AddConflict(s)
  <2>1. Done(s, Then(Only(f), p)) /\ (byName => byCap)
        /\ (~byCap => InstalledMatches(s) = {} /\ ~byName)
    BY <1>3 DEF RemoveByCap
  <2>2. Honest(Only(f), t)
    <3>1. byCap => \A g \in f : g.id \notin Refusals
      BY DEF TryingCaps, Says, Refusals
    <3> HIDE DEF f
    <3> QED
      BY <2>1, <3>1, OnlyHonest
  <2>3. Honest(p, t)
    <3>1. CASE InstalledProviders(s) = {}
      <4>1. \E g : p = Only(g)
        BY <3>1
      <4>2. byCap => ~Finds(t)
        BY <1>0, <3>1 DEF Finds
      <4> HIDE DEF p
      <4> QED
        BY <2>1, <4>1, <4>2, OnlyHonest
    <3>2. CASE InstalledProviders(s) # {}
      <4>1. p = AddConflict(s)
        BY <3>2 DEF InstalledProviders
      <4>2. byCap => Finds(t)
        BY <1>0, <3>2 DEF Finds
      <4>3. ~Refuses(AddConflict(s))
        BY DEF Refuses, AddConflict, Outcome, Says, Refusals
      <4>4. \A x \in AddConflict(s).selections : x.cap = AsParsed(s)
        BY DEF AddConflict, Outcome, Conflicted, Selection
      <4> HIDE DEF p
      <4> QED
        BY <1>0, <2>1, <4>1, <4>2, <4>3, <4>4 DEF Honest, ByFallBack
    <3> QED
      BY <3>1, <3>2
  <2> HIDE DEF f, p
  <2>4. Honest(Then(Only(f), p), t)
    BY <2>2, <2>3, ThenHonest
  <2> QED
    BY <1>0, <2>1, <2>4, DoneAnswers DEF t
<1> QED
  BY <1>1, <1>2, <1>3

THEOREM AnswersInductive == Spec => []AInv
<1>1. IInv /\ AInv /\ [Next]_vars => AInv'
  <2> SUFFICES ASSUME IInv, AInv, [Next]_vars PROVE AInv'
    OBVIOUS
  <2>1. CASE Install
    BY <2>1, InstallDispatchAnswers, MatchingAnswers, EndMatchingAnswers DEF Install
  <2>2. CASE Remove
    BY <2>2, RemoveAnswers DEF Remove
  <2>3. CASE ~Install /\ ~Remove
    BY <2>3, ControlAnswers DEF Next
  <2> QED
    BY <2>1, <2>2, <2>3
<1> QED
  BY InitAInv, Inductive, <1>1, PTL DEF Spec

-----------------------------------------------------------------------------
(* The results.                                                            *)

LEMMA SelectedFits ==
  ASSUME IInv, NEW x \in Selected("SetToInstall")
  PROVE  Fits(x, Asked) /\ x.kind = "SetToInstall"
  BY DEF IInv, Sound, Selected

\* Requester's variables keep their types: a selection of the wrong kind, or of
\* an item the pool does not have, cannot be built.
THEOREM TypeCorrect == Spec => []TypeOK
<1>1. IInv => TypeOK
  <2> SUFFICES ASSUME IInv PROVE TypeOK
    OBVIOUS
  <2>1. session.selections \subseteq SelectionType
    BY DEF IInv, Sound, Fits
  <2>2. session.toinst \subseteq Items /\ session.toremove \subseteq Items
    BY PoolFacts DEF IInv, Sound, Consistent, OfKind, Fits
  <2> QED
    BY <2>1, <2>2, PoolFacts DEF IInv, Bookkeeping, TypeOK
<1> QED
  BY <1>1, Inductive, PTL

\* Options::setForceByCap() and setForceByName() never leave both on.
THEOREM StrategyExclusive == Spec => []StrategyIsOneOfThree
<1>1. IInv => StrategyIsOneOfThree
  BY DEF IInv, Bookkeeping
<1> QED
  BY <1>1, Inductive, PTL

\* install() and updateTo() never pick an older package unasked.
THEOREM NoDowngrade == Spec => []NoUnaskedDowngrade
<1>1. IInv => NoUnaskedDowngrade
  BY SelectedFits DEF NoUnaskedDowngrade, Fits, Replaceable
<1> QED
  BY <1>1, Inductive, PTL

\* install() and updateTo() never change a vendor unasked.
THEOREM VendorIsKept == Spec => []VendorKept
<1>1. IInv => VendorKept
  BY SelectedFits DEF VendorKept, Fits, Replaceable
<1> QED
  BY <1>1, Inductive, PTL

\* applySelections() may ignore what setOnSystem() returns.
THEOREM SetOnSystemSucceeds == Spec => []SetOnSystemCannotFail
<1>1. IInv => SetOnSystemCannotFail
  <2> SUFFICES ASSUME IInv, NEW x \in Selected("SetToInstall"), ~x.forced
               PROVE x.item \in Available(x.item.name) /\ ~HasLocks(x.item.name)
    BY DEF SetOnSystemCannotFail
  <2> QED
    BY SelectedFits DEF Fits, Available, Named
<1> QED
  BY <1>1, Inductive, PTL

\* The hand-kept views of a session are what its selections say.
THEOREM ViewsCorrect == Spec => []ViewsMatchSelections
<1>1. IInv => ViewsMatchSelections
  BY DEF IInv, Handed, Sound, Consistent, OfKind, Selected, ViewsMatchSelections
<1> QED
  BY <1>1, Inductive, PTL

\* applySelections() takes no lock away.
THEOREM LocksAreKept == Spec => LocksSurvive
<1>1. IInv /\ [Next]_vars => [pool'.locked = pool.locked]_vars
  BY StepKeeps DEF Kept
<1> QED
  BY <1>1, Inductive, PTL DEF Spec, LocksSurvive

\* An Update job picks installed packages only: _current is that of the job.
THEOREM UpdatesStayUpdates == Spec => UpdateNeverPicks
<1> DEFINE P == job' # NoSpec /\ job'.op = "Update" =>
       \A x \in session'.selections \ session.selections :
         x.kind = "SetToInstall" => InstalledObj(x.item.name) # NoItem
<1>1. ASSUME IInv, [Next]_vars PROVE P
  <2> SUFFICES ASSUME job' # NoSpec, job'.op = "Update",
                      NEW x \in session'.selections \ session.selections,
                      x.kind = "SetToInstall"
               PROVE  InstalledObj(x.item.name) # NoItem
    OBVIOUS
  <2>0. pool \in Pools /\ (job # NoSpec => current = job.op)
    BY <1>1 DEF IInv, Bookkeeping
  <2>1. ASSUME NEW n \in names, VisitInstalled(n)
        PROVE  InstalledObj(x.item.name) # NoItem
    <3>1. PICK sit \in BestMatches(spec, n), best \in UpdateCandidates(n),
               highest \in Highest(n) :
            Visit(n, UpdateTo(spec, Candidate(spec, InstalledObj(n), sit, best, highest),
                              highest))
      BY <2>1 DEF VisitInstalled
    <3> DEFINE c == Candidate(spec, InstalledObj(n), sit, best, highest)
    <3>2. c.name = n /\ InstalledObj(n) # NoItem
      BY <2>0, <2>1, CandidateFits DEF VisitInstalled
    <3> HIDE DEF c
    <3>3. x \in UpdateTo(spec, c, highest).selections
      BY <3>1 DEF Visit, Then, Outcome, c
    <3>4. x \in Request(spec, InstalledObj(c.name), c).selections
      BY <3>3 DEF UpdateTo, Then, Outcome, Only, Nothing
    <3>5. x.item = c
      BY <3>4 DEF Request, Nothing, Only, Outcome, AddRequirement, Required,
                  SetToInstall, Picked, Selection
    <3> QED
      BY <3>2, <3>5
  <2>2. ASSUME NEW n \in names, VisitNotInRepos(n) \/ VisitNotInstalled(n)
        PROVE  FALSE
    <3>1. job' = job
      BY <2>2 DEF VisitNotInRepos, VisitNotInstalled, Visit, Done, jobVars
    <3>2. session' = Then(session, Nothing) \/ \E f : session' = Then(session, Only(f))
      BY <2>0, <2>2, <3>1 DEF VisitNotInRepos, VisitNotInstalled, Visit, Done
    <3> QED
      BY <3>2 DEF Then, Outcome, Nothing, Only
  <2>3. ASSUME EndMatching \/ \E s \in dos : NotFoundByName(s) PROVE FALSE
    BY <2>3 DEF EndMatching, NotFoundByName, Done, Then, Outcome, Nothing, Only
  <2>4. ASSUME NEW s \in dos, InstallByCap(s) PROVE FALSE
    <3> DEFINE p == IF WhatProvides(s) = {} THEN Only(Says("NOT_FOUND_CAP", s, NoItem))
                    ELSE IF InstalledProviders(s) = {}
                         THEN AddRequirement(s, AsParsed(s))
                    ELSE IF current # "Install" THEN Nothing
                    ELSE Only(UNION {Says("ALREADY_INSTALLED", s, i)
                                       : i \in InstalledProviders(s)})
    <3>1. \A y \in p.selections : y.kind # "SetToInstall"
      BY DEF Nothing, Only, Outcome, AddRequirement, Required, Selection
    <3>2. session' = Then(session, Then(Only(TryingCaps(s)), p))
      BY <2>4 DEF InstallByCap, Done
    <3> HIDE DEF p
    <3> QED
      BY <3>1, <3>2 DEF Then, Outcome, Only
  <2>5. ASSUME NEW s \in donts, RemoveByName(s) PROVE FALSE
    <3>1. \A i : \A y \in SetToRemove(i).selections : y.kind # "SetToInstall"
      BY DEF SetToRemove, Outcome, Conflicted, Selection
    <3> QED
      BY <2>5, <3>1 DEF RemoveByName, Done, Then, Each, Outcome
  <2>6. ASSUME NEW s \in donts, RemoveNotByName(s) \/ RemoveByCap(s) PROVE FALSE
    <3>1. CASE RemoveNotByName(s)
      BY <3>1 DEF RemoveNotByName, Done, Then, Outcome, Only
    <3>2. CASE RemoveByCap(s)
      <4> DEFINE f == (IF byCap \/ Matches(s, {}) = {} THEN {}
                       ELSE Says("NOT_INSTALLED", s, NoItem)) \union TryingCaps(s)
                 p == IF WhatProvides(s) = {} THEN Only(Says("NOT_FOUND_CAP", s, NoItem))
                      ELSE IF InstalledProviders(s) = {}
                           THEN Only(Says("NO_INSTALLED_PROVIDER", s, NoItem))
                      ELSE AddConflict(s)
      <4>1. \A y \in p.selections : y.kind # "SetToInstall"
        BY DEF Only, Outcome, AddConflict, Conflicted, Selection
      <4>2. session' = Then(session, Then(Only(f), p))
        BY <3>2 DEF RemoveByCap, Done
      <4> HIDE DEF f, p
      <4> QED
        BY <4>1, <4>2 DEF Then, Outcome, Only
    <3> QED
      BY <2>6, <3>1, <3>2
  <2>7. CASE session' = session
    BY <2>7
  <2>8. CASE session' # session
    <3>1. ~(\E s \in dos : StartMatching(s))
      BY <2>8 DEF StartMatching
    <3>2. Install \/ Remove
      <4>1. \A v : ~SetForceByCap(v) /\ ~SetForceByName(v)
        BY <2>8 DEF SetForceByCap, SetForceByName
      <4>2. ~Create /\ ~FinishJob /\ ~GiveUp /\ ~ApplySelections /\ \A j : ~Submit(j)
        BY <2>8 DEF Create, FinishJob, GiveUp, ApplySelections, Submit
      <4>3. Next
        BY <1>1, <2>8 DEF vars
      <4> QED
        BY <4>1, <4>2, <4>3 DEF Next
    <3> QED
      BY <2>1, <2>2, <2>3, <2>4, <2>5, <2>6, <3>1, <3>2 DEF Install, Remove
  <2> QED
    BY <2>7, <2>8
<1>2. IInv /\ [Next]_vars => [P]_vars
  BY <1>1
<1> HIDE DEF P
<1>3. Spec => [][P]_vars
  BY <1>2, Inductive, PTL DEF Spec
<1> QED
  BY <1>3 DEF UpdateNeverPicks, P

\* Unless the session is by capability, remove() adds a conflict only for a
\* locked build or after it found no installed package of that name.
THEOREM RemovalsStayByName == Spec => []RemoveByNameStaysByName
<1>1. IInv /\ AInv => RemoveByNameStaysByName
  <2> SUFFICES ASSUME IInv, AInv, ~byCap, NEW c \in session.conflicts
               PROVE  \/ LockedBuild(c)
                      \/ ~byName /\ \E f \in finished :
                           /\ f.as = "dont" /\ InstalledMatches(f.spec) = {}
                           /\ c = AsParsed(f.spec)
    BY DEF RemoveByNameStaysByName, LockedBuild
  <2>1. PICK x \in session.selections : x.kind = "AddConflict" /\ c = x.cap
    BY DEF IInv, Sound, Consistent, OfKind
  <2> QED
    BY <2>1 DEF AInv, Answers, ByFallBack
<1> QED
  BY <1>1, Inductive, AnswersInductive, PTL

\* A tool call for one spec, with one of the overrides on as the tools have it,
\* drops nothing when it ends with NOT_FOUND.
THEOREM RefusalsLoseNothing == Spec => []RefusalLosesNothing
<1>1. AInv => RefusalLosesNothing
  <2> SUFFICES ASSUME AInv, NEW f \in finished, pc = "refused", finished = {f},
                      byCap \/ byName
               PROVE  session.selections = {}
    BY DEF RefusalLosesNothing
  <2>1. Refuses(session) /\ Tasks = {f}
    BY DEF AInv, Progress, Tasks
  <2> QED
    BY <2>1 DEF AInv, Answers
<1> QED
  BY <1>1, AnswersInductive, PTL

-----------------------------------------------------------------------------
(* Sessions about patches.  The argument follows the two passes of          *)
(* updatePatches(): what the first one marks is of the update stack, and    *)
(* the second one only runs when the candidate of no patch of the update    *)
(* stack could be taken.                                                    *)

PatchNames == {p.name : p \in patches}

Marking == AboutPatches /\ Patch!Updating

\* Visited in the second pass: selected, or refused aloud.
IsAnswered(p) ==
  p.status = "needed" => \/ \E x \in Patch!Batch(batch) : x.patch = p
                         \/ \E f \in Patch!OfJob(batch) : f.patch = p

Typed ==
  /\ AboutPatches => patches \in PatchPools /\ opts \in PatchOptions
  /\ batch \in Nat
  /\ \A x \in selections : x.batch \in Nat /\ x.batch <= batch
  /\ \A f \in feedback : f.batch \in Nat /\ f.batch <= batch
  /\ ~AboutPatches => batch = 0

Control ==
  AboutPatches =>
    /\ pc = "marking" => Patch!Updating
    /\ pc = "matching" => current \in {"Install", "Update"}
    /\ Patch!Updating => /\ ignore \in {0, 1} /\ todo \subseteq PatchNames
                         /\ pc = "ready" => todo = {}

FirstPass ==
  Marking /\ ignore = 0 =>
    /\ \A x \in Patch!Batch(batch) : x.patch.restart
    /\ \A n \in PatchNames \ todo : Patch!Taken(Patch!Candidate(n), 0) => marked
    /\ pc = "ready" => marked \/ stackOnly

SecondPass ==
  Marking /\ ignore = 1 =>
    /\ \A x \in Patch!Batch(batch) : ~x.patch.restart
    /\ ~stackOnly
    /\ \A n \in PatchNames : ~Patch!Taken(Patch!Candidate(n), 0)
    /\ \A n \in PatchNames \ todo : IsAnswered(Patch!Candidate(n))

Drops(F) == \E f \in F : f.id = "DROPPED_WITH_UPDATE"

Dropping ==
  /\ dropped = Drops(feedback)
  /\ Marking => /\ marked <=> Patch!Batch(batch) # {}
                /\ Drops(Patch!OfJob(batch))
                     <=> ignore = 0 /\ pc = "ready" /\ marked /\ opts.withUpdate

PInv == Typed /\ Control /\ FirstPass /\ SecondPass /\ Dropping

-----------------------------------------------------------------------------
(* installPatch().                                                         *)

\* A refusal is one of installPatch()'s own words.
LEMMA ReportedIds ==
  ASSUME NEW p, NEW pass, NEW id \in Patch!Reported(p, pass)
  PROVE  id # "DROPPED_WITH_UPDATE"
<1>1. Patch!Refusal(p) # "DROPPED_WITH_UPDATE"
  BY DEF Patch!Refusal, Patch!Missmatch
<1> QED
  BY <1>1 DEF Patch!Reported

\* In the second pass a needed patch is taken or refused aloud.
LEMMA SecondPassAnswers ==
  ASSUME NEW p, p.status = "needed", ~Patch!Taken(p, 1)
  PROVE  Patch!Refusal(p) \in Patch!Reported(p, 1)
  BY DEF Patch!Taken, Patch!Considered, Patch!Reported

\* What installPatch() does to the batch.
Adds(p, pass) ==
  /\ Patch!Batch(batch) \subseteq Patch!Batch(batch)'
  /\ \A x \in Patch!Batch(batch)' : \/ x \in Patch!Batch(batch)
                                    \/ x.patch = p /\ Patch!Taken(p, pass)
  /\ Patch!Taken(p, pass) => \E x \in Patch!Batch(batch)' : x.patch = p
  /\ Patch!OfJob(batch) \subseteq Patch!OfJob(batch)'
  /\ Drops(feedback') = Drops(feedback)
  /\ Drops(Patch!OfJob(batch)') = Drops(Patch!OfJob(batch))
  /\ marked' <=> marked \/ Patch!Taken(p, pass)
  /\ pass = 1 => IsAnswered(p)'

LEMMA InstallPatchAdds ==
  ASSUME Typed, NEW p, NEW pass, Patch!InstallPatch(p, pass),
         UNCHANGED <<patches, opts, current, batch>>
  PROVE  Adds(p, pass) /\ Typed'
<1> DEFINE new == {[id |-> id, patch |-> p, batch |-> batch] : id \in Patch!Reported(p, pass)}
           x == [patch |-> p, batch |-> batch,
                 kind |-> IF Patch!HasLocks(p.name) /\ ~opts.force
                          THEN "AddRequire" ELSE "SetToInstall"]
<1>1. feedback' = feedback \union new
  BY DEF Patch!InstallPatch
<1>2. \A f \in new : f.batch = batch /\ f.patch = p /\ f.id # "DROPPED_WITH_UPDATE"
  BY ReportedIds
<1>3. x.patch = p /\ x.batch = batch
  OBVIOUS
<1>4. selections' = selections \union (IF Patch!Taken(p, pass) THEN {x} ELSE {})
  BY DEF Patch!InstallPatch
<1> HIDE DEF x
<1>5. marked' <=> marked \/ Patch!Taken(p, pass)
  BY DEF Patch!InstallPatch
<1>6. pass = 1 => IsAnswered(p)'
  <2> SUFFICES ASSUME pass = 1, p.status = "needed"
               PROVE  \/ \E y \in Patch!Batch(batch)' : y.patch = p
                      \/ \E f \in Patch!OfJob(batch)' : f.patch = p
    BY DEF IsAnswered
  <2>1. CASE Patch!Taken(p, pass)
    BY <1>3, <1>4, <2>1 DEF Patch!Batch
  <2>2. CASE ~Patch!Taken(p, pass)
    <3>1. Patch!Refusal(p) \in Patch!Reported(p, pass)
      BY <2>2, SecondPassAnswers
    <3>2. PICK f \in new : TRUE
      BY <3>1
    <3> QED
      BY <1>1, <1>2, <3>2 DEF Patch!OfJob
  <2> QED
    BY <2>1, <2>2
<1> HIDE DEF new
<1>7. Typed'
  BY <1>1, <1>2, <1>3, <1>4 DEF Typed, AboutPatches
<1>8. /\ Patch!Batch(batch) \subseteq Patch!Batch(batch)'
      /\ \A y \in Patch!Batch(batch)' : \/ y \in Patch!Batch(batch)
                                        \/ y.patch = p /\ Patch!Taken(p, pass)
      /\ Patch!Taken(p, pass) => \E y \in Patch!Batch(batch)' : y.patch = p
  BY <1>3, <1>4 DEF Patch!Batch
<1>9. /\ Patch!OfJob(batch) \subseteq Patch!OfJob(batch)'
      /\ Drops(feedback') = Drops(feedback)
      /\ Drops(Patch!OfJob(batch)') = Drops(Patch!OfJob(batch))
  BY <1>1, <1>2 DEF Patch!OfJob, Drops
<1> QED
  BY <1>5, <1>6, <1>7, <1>8, <1>9 DEF Adds

LEMMA PatchesDecide ==
  ASSUME UNCHANGED <<patches, opts>>
  PROVE  /\ PatchNames' = PatchNames
         /\ \A n : Patch!Candidate(n)' = Patch!Candidate(n)
         /\ \A p, pass : Patch!Taken(p, pass)' <=> Patch!Taken(p, pass)
<1>1. \A n : Patch!Candidate(n)' = Patch!Candidate(n)
  BY DEF Patch!Candidate, Patch!Newest, Patch!Named
<1>2. \A p, pass : Patch!Taken(p, pass)' <=> Patch!Taken(p, pass)
  BY DEF Patch!Taken, Patch!Considered, Patch!Refusal, Patch!Missmatch
<1> QED
  BY <1>1, <1>2 DEF PatchNames

-----------------------------------------------------------------------------
(* PInv is inductive.                                                      *)

LEMMA InitPInv == AnyInit => PInv
<1>1. ASSUME AnyInit PROVE Typed
  BY <1>1 DEF AnyInit, Patch!Init, Typed, AboutPatches
<1>2. ASSUME AnyInit PROVE batch = 0 /\ feedback = {} /\ dropped = FALSE /\ pc # "marking"
                           /\ (AboutPatches => pc = "ready")
  BY <1>2 DEF AnyInit, Patch!Init, Init, AboutPatches
<1>3. ASSUME AnyInit PROVE ~Marking /\ ~Patch!Updating
  BY <1>2, <1>3 DEF Marking, Patch!Updating
<1> QED
  BY <1>1, <1>2, <1>3 DEF PInv, Control, FirstPass, SecondPass, Dropping, Drops

\* A session about packages has no patches, and a new job no selections.
LEMMA NotMarking ==
  ASSUME PInv, Typed', dropped' = Drops(feedback'), ~Marking', Control'
  PROVE  PInv'
  BY DEF PInv, FirstPass, SecondPass, Dropping

LEMMA PackageJobsKeep ==
  ASSUME PInv, PackageJobs
  PROVE  PInv'
<1>1. UNCHANGED patchVars /\ ~AboutPatches /\ ~AboutPatches'
  BY DEF PackageJobs, patchVars, AboutPatches
<1>2. Typed' /\ dropped' = Drops(feedback')
  BY <1>1 DEF PInv, Typed, Dropping, Drops, patchVars
<1>3. ~Marking' /\ Control'
  BY <1>1 DEF Marking, Control
<1> QED
  BY <1>2, <1>3, NotMarking

LEMMA StutterKeeps ==
  ASSUME PInv, UNCHANGED <<vars, patchVars>>
  PROVE  PInv'
<1>1. UNCHANGED <<opts, pc, current, patches, stackOnly, ignore, todo, marked, batch,
                  selections, feedback, dropped>>
  BY DEF vars, optionVars, jobVars, patchVars
<1> QED
  BY <1>1, PatchesDecide
  DEF PInv, Typed, Control, FirstPass, SecondPass, Dropping, Marking, AboutPatches,
      Patch!Updating, Patch!Batch, Patch!OfJob, IsAnswered, Drops, PatchNames

\* install() of patches is no updatePatches().
LEMMA InstallKeeps ==
  ASSUME PInv, AboutPatches,
         \/ \E op \in {"Install", "Update"} : Patch!SubmitInstall(op)
         \/ \E n \in todo : Patch!VisitMatch(n)
  PROVE  PInv'
<1>1. CASE \E op \in {"Install", "Update"} : Patch!SubmitInstall(op)
  <2>1. PICK op \in {"Install", "Update"} : Patch!SubmitInstall(op)
    BY <1>1
  <2>2. /\ UNCHANGED <<patches, opts, selections, feedback, dropped>>
        /\ batch' = batch + 1 /\ current' = op /\ pc' = "matching"
    BY <2>1 DEF Patch!SubmitInstall
  <2>3. Typed' /\ dropped' = Drops(feedback')
    BY <2>2 DEF PInv, Typed, Dropping, AboutPatches
  <2>4. ~Marking' /\ Control'
    BY <2>1, <2>2 DEF Marking, Control, Patch!Updating
  <2> QED
    BY <2>3, <2>4, NotMarking
<1>2. CASE \E n \in todo : Patch!VisitMatch(n)
  <2>1. PICK n \in todo : Patch!VisitMatch(n)
    BY <1>2
  <2>2. PICK p : Patch!InstallPatch(p, 1)
    BY <2>1 DEF Patch!VisitMatch
  <2>3. UNCHANGED <<patches, opts, current, batch, dropped>> /\ pc = "matching"
        /\ pc' \in {"matching", "ready"}
    BY <2>1 DEF Patch!VisitMatch
  <2>4. Adds(p, 1) /\ Typed'
    BY <2>2, <2>3, InstallPatchAdds DEF PInv
  <2>5. dropped' = Drops(feedback')
    BY <2>3, <2>4 DEF PInv, Dropping, Adds
  <2>6. current \in {"Install", "Update"}
    BY <2>3 DEF PInv, Control
  <2>7. ~Marking' /\ Control'
    BY <2>3, <2>6 DEF Marking, Control, Patch!Updating
  <2> QED
    BY <2>4, <2>5, <2>7, NotMarking
<1> QED
  BY <1>1, <1>2

LEMMA SubmitUpdatePatchesKeeps ==
  ASSUME PInv, AboutPatches, NEW only, Patch!SubmitUpdatePatches(only)
  PROVE  PInv'
<1>1. /\ UNCHANGED <<patches, opts, selections, feedback, dropped>>
      /\ batch' = batch + 1 /\ current' = "UpdatePatches" /\ pc' = "marking"
      /\ ignore' = 0 /\ marked' = FALSE /\ todo' = PatchNames
  BY DEF Patch!SubmitUpdatePatches, PatchNames
<1>2. Patch!Batch(batch)' = {} /\ Patch!OfJob(batch)' = {}
  BY <1>1 DEF PInv, Typed, Patch!Batch, Patch!OfJob
<1>3. Typed'
  BY <1>1 DEF PInv, Typed, AboutPatches
<1>4. Control'
  BY <1>1, PatchesDecide DEF PInv, Typed, Control, Patch!Updating
<1>5. FirstPass' /\ SecondPass'
  BY <1>1, <1>2, PatchesDecide DEF FirstPass, SecondPass
<1>6. Dropping'
  <2>1. dropped' = Drops(feedback')
    BY <1>1 DEF PInv, Dropping
  <2>2. ~Drops(Patch!OfJob(batch)')
    BY <1>2 DEF Drops
  <2> QED
    BY <1>1, <1>2, <2>1, <2>2 DEF Dropping
<1> QED
  BY <1>3, <1>4, <1>5, <1>6 DEF PInv

\* The candidate of a name is taken in the first pass only if it is of the
\* update stack, and then no second pass follows.
LEMMA PatchVisitKeeps ==
  ASSUME PInv, AboutPatches, NEW n \in todo, Patch!Visit(n)
  PROVE  PInv'
<1>0. PICK p, pass : p = Patch!Candidate(n) /\ pass = ignore
  OBVIOUS
<1>1. /\ UNCHANGED <<patches, opts, pc, current, stackOnly, ignore, batch, dropped>>
      /\ pc = "marking" /\ todo' = todo \ {n} /\ Patch!InstallPatch(p, pass)
  BY <1>0 DEF Patch!Visit
<1>3. Adds(p, pass) /\ Typed'
  BY <1>1, InstallPatchAdds DEF PInv
<1>4. Patch!Updating /\ Marking /\ ignore \in {0, 1} /\ n \in PatchNames /\ Control'
  BY <1>1, PatchesDecide DEF PInv, Control, Marking, Patch!Updating, AboutPatches
<1>5. FirstPass'
  <2> SUFFICES ASSUME ignore = 0
               PROVE  /\ \A x \in Patch!Batch(batch)' : x.patch.restart
                      /\ \A m \in PatchNames \ todo' :
                           Patch!Taken(Patch!Candidate(m), 0) => marked'
    BY <1>1, PatchesDecide DEF FirstPass
  <2>1. Patch!Taken(p, 0) => p.restart
    BY DEF Patch!Taken, Patch!Considered
  <2> QED
    BY <1>1, <1>0, <1>3, <1>4, <2>1 DEF PInv, FirstPass, Adds
<1>6. SecondPass'
  <2> SUFFICES ASSUME ignore = 1
               PROVE  /\ \A x \in Patch!Batch(batch)' : ~x.patch.restart
                      /\ ~stackOnly
                      /\ \A m \in PatchNames : ~Patch!Taken(Patch!Candidate(m), 0)
                      /\ \A m \in PatchNames \ todo' : IsAnswered(Patch!Candidate(m))'
    BY <1>1, PatchesDecide DEF SecondPass
  <2>1. ~stackOnly /\ \A m \in PatchNames : ~Patch!Taken(Patch!Candidate(m), 0)
    BY <1>4 DEF PInv, SecondPass
  <2>2. \A q : IsAnswered(q) => IsAnswered(q)'
    BY <1>3 DEF Adds, IsAnswered
  <2>3. \A m \in PatchNames \ todo' : IsAnswered(Patch!Candidate(m))'
    <3> SUFFICES ASSUME NEW m \in PatchNames \ todo'
                 PROVE  IsAnswered(Patch!Candidate(m))'
      OBVIOUS
    <3>1. PICK q : q = Patch!Candidate(m)
      OBVIOUS
    <3>2. IsAnswered(q) \/ q = p
      BY <1>0, <1>1, <1>4, <3>1 DEF PInv, SecondPass
    <3>3. IsAnswered(q)'
      BY <1>0, <1>3, <2>2, <3>2 DEF Adds
    <3>4. Patch!Candidate(m)' = q
      BY <1>1, <3>1, PatchesDecide
    <3> QED
      BY <3>3, <3>4 DEF IsAnswered
  <2>4. Patch!Taken(p, 1) /\ ~Patch!Taken(p, 0) => ~p.restart
    BY DEF Patch!Taken, Patch!Considered
  <2> QED
    BY <1>0, <1>3, <1>4, <2>1, <2>3, <2>4 DEF PInv, SecondPass, Adds
<1>7. Dropping'
  BY <1>1, <1>3, <1>4 DEF PInv, Dropping, Adds
<1> QED
  BY <1>3, <1>4, <1>5, <1>6, <1>7 DEF PInv

\* With everything visited, the first pass either marked something or showed
\* that no candidate of the update stack can be taken.
LEMMA EndFirstPassKeeps ==
  ASSUME PInv, AboutPatches, Patch!EndFirstPass
  PROVE  PInv'
<1> DEFINE new == {[id |-> "DROPPED_WITH_UPDATE", patch |-> NoPatch, batch |-> batch]}
           drop == marked /\ opts.withUpdate
<1>1. /\ UNCHANGED <<patches, opts, current, stackOnly, marked, batch, selections>>
      /\ pc = "marking" /\ todo = {} /\ ignore = 0
      /\ dropped' = (dropped \/ drop)
      /\ feedback' = IF drop THEN feedback \union new ELSE feedback
      /\ marked \/ stackOnly => pc' = "ready" /\ UNCHANGED <<todo, ignore>>
      /\ ~(marked \/ stackOnly) => pc' = "marking" /\ ignore' = 1 /\ todo' = PatchNames
  BY DEF Patch!EndFirstPass, PatchNames
<1>2. \A f \in new : f.batch = batch /\ f.id = "DROPPED_WITH_UPDATE"
  OBVIOUS
<1>3. new # {}
  OBVIOUS
<1> HIDE DEF new
<1>4. Patch!Updating /\ Marking /\ PatchNames' = PatchNames
      /\ Patch!Batch(batch)' = Patch!Batch(batch)
  BY <1>1, PatchesDecide DEF PInv, Control, Marking, Patch!Updating, AboutPatches,
                             Patch!Batch
<1>5. Typed'
  BY <1>1, <1>2 DEF PInv, Typed, AboutPatches
<1>6. Control'
  BY <1>1, <1>4 DEF PInv, Control, Patch!Updating
<1>7. FirstPass'
  BY <1>1, <1>4, PatchesDecide DEF PInv, FirstPass
<1>8. SecondPass'
  <2> SUFFICES ASSUME ignore' = 1
               PROVE  /\ Patch!Batch(batch)' = {} /\ ~stackOnly'
                      /\ \A m \in PatchNames : ~Patch!Taken(Patch!Candidate(m), 0)'
                      /\ PatchNames' \ todo' = {}
    BY <1>4 DEF SecondPass
  <2>1. ~marked /\ ~stackOnly /\ todo' = PatchNames
    BY <1>1
  <2>2. \A m \in PatchNames : ~Patch!Taken(Patch!Candidate(m), 0)
    BY <1>1, <1>4, <2>1 DEF PInv, FirstPass
  <2>3. Patch!Batch(batch) = {}
    BY <1>4, <2>1 DEF PInv, Dropping
  <2> QED
    BY <1>1, <1>4, <2>1, <2>2, <2>3, PatchesDecide
<1>9. Dropping'
  <2>1. ~Drops(Patch!OfJob(batch))
    BY <1>1, <1>4 DEF PInv, Dropping
  <2>2. Drops(Patch!OfJob(batch)') <=> drop
    BY <1>1, <1>2, <1>3, <2>1 DEF Drops, Patch!OfJob
  <2>3. dropped' = Drops(feedback')
    BY <1>1, <1>2, <1>3 DEF PInv, Dropping, Drops
  <2> QED
    BY <1>1, <1>4, <2>2, <2>3 DEF PInv, Dropping
<1> QED
  BY <1>5, <1>6, <1>7, <1>8, <1>9 DEF PInv

LEMMA EndSecondPassKeeps ==
  ASSUME PInv, AboutPatches, Patch!EndSecondPass
  PROVE  PInv'
<1>1. /\ UNCHANGED <<patches, opts, current, stackOnly, ignore, todo, marked, batch,
                     selections, feedback, dropped>>
      /\ pc = "marking" /\ pc' = "ready" /\ todo = {} /\ ignore = 1
  BY DEF Patch!EndSecondPass, Patch!loopVars
<1>2. Patch!Updating /\ Marking
  BY <1>1 DEF PInv, Control, Marking
<1>3. Typed' /\ Control'
  BY <1>1, PatchesDecide DEF PInv, Typed, Control, Patch!Updating, AboutPatches
<1>4. FirstPass' /\ Dropping'
  BY <1>1, <1>2 DEF PInv, FirstPass, Dropping, Patch!Batch, Patch!OfJob, Drops
<1>5. SecondPass'
  BY <1>1, <1>2, PatchesDecide
  DEF PInv, SecondPass, IsAnswered, Patch!Batch, Patch!OfJob
<1> QED
  BY <1>3, <1>4, <1>5 DEF PInv

THEOREM PatchInductive == SessionSpec => []PInv
<1>1. PInv /\ [PackageJobs \/ PatchJobs]_<<vars, patchVars>> => PInv'
  <2> SUFFICES ASSUME PInv, [PackageJobs \/ PatchJobs]_<<vars, patchVars>> PROVE PInv'
    OBVIOUS
  <2>1. CASE PatchJobs
    <3>1. AboutPatches
      BY <2>1 DEF PatchJobs
    <3>2. CASE \/ \E op \in {"Install", "Update"} : Patch!SubmitInstall(op)
               \/ \E n \in todo : Patch!VisitMatch(n)
      BY <3>1, <3>2, InstallKeeps
    <3>3. CASE \E only \in BOOLEAN : Patch!SubmitUpdatePatches(only)
      BY <3>1, <3>3, SubmitUpdatePatchesKeeps
    <3>4. CASE \E n \in todo : Patch!Visit(n)
      BY <3>1, <3>4, PatchVisitKeeps
    <3>5. CASE Patch!EndFirstPass \/ Patch!EndSecondPass
      BY <3>1, <3>5, EndFirstPassKeeps, EndSecondPassKeeps
    <3> QED
      BY <2>1, <3>2, <3>3, <3>4, <3>5 DEF PatchJobs, Patch!Next
  <2> QED
    BY <2>1, PackageJobsKeep, StutterKeeps
<1> QED
  BY InitPInv, <1>1, PTL DEF SessionSpec

-----------------------------------------------------------------------------
(* The results.                                                            *)

LEMMA UpdatingIsMarking ==
  ASSUME PInv, Patch!Updating
  PROVE  Marking
  BY DEF PInv, Typed, Marking, Patch!Updating

\* updatePatches() takes the patches of the update stack alone, and says that it
\* dropped with-update exactly when it has taken one.
THEOREM UpdateStackAlone == SessionSpec => []UpdateStackGoesAlone
<1>1. ASSUME PInv PROVE Patch!UpdateStackAlone
  <2> SUFFICES ASSUME Patch!Updating
               PROVE  \/ \A x \in Patch!Batch(batch) : x.patch.restart
                      \/ \A x \in Patch!Batch(batch) : ~x.patch.restart /\ ~stackOnly
    BY DEF Patch!UpdateStackAlone
  <2>1. Marking /\ ignore \in {0, 1}
    BY <1>1, UpdatingIsMarking DEF PInv, Control, Marking
  <2> QED
    BY <1>1, <2>1 DEF PInv, FirstPass, SecondPass
<1>2. ASSUME PInv PROVE Patch!DropIsAnnounced
  <2>1. dropped = (\E f \in feedback : f.id = "DROPPED_WITH_UPDATE")
    BY <1>2 DEF PInv, Dropping, Drops
  <2>2. ASSUME Patch!Updating, pc = "ready", opts.withUpdate
        PROVE  (\E x \in Patch!Batch(batch) : x.patch.restart)
                 <=> (\E f \in Patch!OfJob(batch) : f.id = "DROPPED_WITH_UPDATE")
    <3>1. Marking /\ ignore \in {0, 1}
      BY <1>2, <2>2, UpdatingIsMarking DEF PInv, Control, Marking
    <3>2. (\E f \in Patch!OfJob(batch) : f.id = "DROPPED_WITH_UPDATE")
            <=> ignore = 0 /\ Patch!Batch(batch) # {}
      BY <1>2, <2>2, <3>1 DEF PInv, Dropping, Drops
    <3> QED
      BY <1>2, <3>1, <3>2 DEF PInv, FirstPass, SecondPass
  <2> QED
    BY <2>1, <2>2 DEF Patch!DropIsAnnounced
<1>3. PInv => UpdateStackGoesAlone
  BY <1>1, <1>2 DEF UpdateStackGoesAlone
<1> QED
  BY <1>3, PatchInductive, PTL

\* The date limit picks the newest patch of a name it allows.
LEMMA CandidateInTime ==
  ASSUME PInv, NEW p \in patches, p.date <= opts.before,
         \A q \in Patch!Named(p.name) : p.date < q.date => q.date > opts.before
  PROVE  Patch!Candidate(p.name) = p
<1> DEFINE InTime == {q \in Patch!Named(p.name) : q.date <= opts.before}
<1>0. AboutPatches /\ patches \in PatchPools /\ opts \in PatchOptions
  BY DEF PInv, Typed, AboutPatches
<1>1. opts.before \in Nat /\ \A q \in patches : q.date \in Nat
  BY <1>0, PatchAssumption, BoundAssumption
<1>2. p \in InTime /\ \A q \in InTime : q.date <= p.date
  BY <1>1 DEF Patch!Named
<1>3. \A q \in InTime : q \in patches /\ q.name = p.name
  BY DEF Patch!Named
<1>4. Patch!Candidate(p.name) = Patch!Newest(InTime)
  BY <1>2 DEF Patch!Candidate
<1> HIDE DEF InTime
<1>5. /\ Patch!Newest(InTime) \in InTime
      /\ \A q \in InTime : q.date <= Patch!Newest(InTime).date
  BY <1>2 DEF Patch!Newest
<1> DEFINE c == Patch!Newest(InTime)
<1>6. c \in patches /\ c.name = p.name /\ c.date <= p.date /\ p.date <= c.date
  BY <1>2, <1>3, <1>5
<1> HIDE DEF c
<1>7. c = p
  BY <1>0, <1>1, <1>6, PatchAssumption
<1> QED
  BY <1>4, <1>7 DEF c

\* updatePatches() selects or reports every needed patch the date limit allows.
THEOREM NeededPatchesAreAnswered == SessionSpec => []EveryNeededPatchAnswered
<1>1. PInv => EveryNeededPatchAnswered
  <2> SUFFICES ASSUME PInv, Patch!Updating, pc = "ready", ~stackOnly,
                      \A x \in Patch!Batch(batch) : ~x.patch.restart,
                      NEW p \in patches, p.status = "needed", p.date <= opts.before,
                      \A q \in Patch!Named(p.name) : p.date < q.date => q.date > opts.before
               PROVE  \/ \E x \in Patch!Batch(batch) : x.patch = p
                      \/ \E f \in Patch!OfJob(batch) : f.patch = p
    BY DEF EveryNeededPatchAnswered, Patch!NeededPatchesAnswered
  <2>1. Marking /\ ignore \in {0, 1} /\ todo = {}
    BY UpdatingIsMarking DEF PInv, Control, Marking
  <2>2. ignore = 1
    BY <2>1 DEF PInv, FirstPass, Dropping
  <2>3. p.name \in PatchNames
    BY DEF PatchNames
  <2>4. Patch!Candidate(p.name) = p
    BY CandidateInTime
  <2>5. IsAnswered(p)
    BY <2>1, <2>2, <2>3, <2>4 DEF PInv, SecondPass
  <2> QED
    BY <2>5 DEF IsAnswered
<1> QED
  BY <1>1, PatchInductive, PTL
=============================================================================

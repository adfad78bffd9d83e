------------------------ MODULE MCRequesterSessions ------------------------
(* Small instances of Requester and PatchRequester. *)
EXTENDS RequesterSessions, TLC

Item(n, e, a, v, r) == [name |-> n, ed |-> e, arch |-> a, vendor |-> v, repo |-> r]

\* Package "a": what may be installed, and what the repositories may have: the
\* same build, an older one, an update, one of another vendor, one of another
\* architecture.  Package "b" can be installed or on offer, and another
\* package, "c", provides the capability "b".
InstA  == Item("a", 2, "x86", "suse", "system")
SameA  == Item("a", 2, "x86", "suse", "main")
OldA   == Item("a", 1, "x86", "suse", "main")
NewA   == Item("a", 3, "x86", "suse", "upd")
OtherA == Item("a", 4, "x86", "packman", "misc")
ArchA  == Item("a", 2, "arm", "suse", "main")
InstB  == Item("b", 1, "x86", "suse", "system")
AvailB == Item("b", 1, "x86", "suse", "main")
InstC  == Item("c", 1, "x86", "suse", "system")

MCPriority == [r \in {"system", "main", "upd", "misc"} |-> IF r = "upd" THEN 80 ELSE 99]
MCProvides == [n \in {"a", "b", "c"} |-> IF n = "c" THEN {"c", "b"} ELSE {n}]

SomeA == {{}, {InstA}, {NewA}, {InstA, SameA}, {InstA, OldA}, {InstA, OtherA},
          {InstA, NewA, OtherA}, {InstA, SameA, ArchA}, {InstA, OldA, NewA},
          {InstA, SameA, NewA, OtherA}}
SomeB == {{}, {InstB}, {AvailB}, {InstB, AvailB, InstC}, {AvailB, InstC}}

LocksOn(items) ==
  {l \in {{}, {InstA}, {NewA}, {InstA, NewA}, {InstB}} : l \subseteq items}

PoolsOf(as, bs) ==
  UNION {{[items |-> a \union b, locked |-> l] : l \in LocksOn(a \union b)}
          : a \in as, b \in bs}

MCPools == PoolsOf(SomeA, SomeB)
FewPools == PoolsOf({{}, {NewA}, {InstA, OldA, NewA}}, {{}, {AvailB}, {InstB, AvailB, InstC}})

Option(f, o, b, v, r) ==
  [force |-> f, oldpackage |-> o, bestEffort |-> b, allowVendorChange |-> v,
   fromRepos |-> r]
DefaultOptions == Option(FALSE, FALSE, FALSE, FALSE, {})
MCOptions ==
  {DefaultOptions, Option(TRUE, FALSE, FALSE, FALSE, {}),
   Option(FALSE, TRUE, FALSE, FALSE, {}), Option(FALSE, FALSE, TRUE, FALSE, {}),
   Option(FALSE, FALSE, FALSE, TRUE, {}), Option(FALSE, FALSE, FALSE, FALSE, {"misc"})}
FewOptions == {DefaultOptions, Option(TRUE, FALSE, FALSE, FALSE, {})}

Asks(c, g, e, a, r, m) ==
  [cap |-> c, glob |-> g, ed |-> e, arch |-> a, repo |-> r, modified |-> m]

ByNameA   == Asks("a", {"a"}, 0, AnyArch, AnyRepo, FALSE)
Wildcard  == Asks("*", {"a", "b"}, 0, AnyArch, AnyRepo, FALSE)
NameB     == Asks("b", {"b"}, 0, AnyArch, AnyRepo, FALSE)
MCSpecs ==
  {ByNameA, Wildcard, NameB,
   Asks("a", {"a"}, 1, AnyArch, AnyRepo, FALSE),
   Asks("a", {"a"}, 4, AnyArch, AnyRepo, TRUE),
   Asks("a", {"a"}, 0, "arm", AnyRepo, FALSE),
   Asks("a", {"a"}, 0, AnyArch, "main", FALSE),
   Asks("a", {"a"}, 0, AnyArch, "misc", FALSE),
   Asks("z", {}, 0, AnyArch, AnyRepo, FALSE)}

Job(op, yes, no) == [op |-> op, dos |-> yes, donts |-> no]

\* What the tools submit: one spec to install, to remove or to update.
OneSpecJobs ==
  {Job(op, {s}, {}) : op \in {"Install", "Update"}, s \in MCSpecs}
  \union {Job("Remove", {}, {s}) : s \in MCSpecs}

\* Sessions of several jobs, and jobs that install and remove.
SessionJobs ==
  {Job("Install", {ByNameA}, {}), Job("Install", {ByNameA}, {NameB}),
   Job("Install", {Wildcard}, {}), Job("Remove", {ByNameA}, {NameB}),
   Job("Update", {ByNameA, NameB}, {}), Job("Update", {Wildcard}, {NameB})}
MCJobs == OneSpecJobs \union SessionJobs

\* Bound: a second job is submitted only where both belong to such a session, on
\* the few pools and options.
SecondJobs ==
  submitted > 1 => /\ job \in SessionJobs /\ opts \in FewOptions
                   /\ \E p \in FewPools : p.items = pool.items
                   /\ \A f \in finished : \E j \in SessionJobs : f.spec \in j.dos \union j.donts

BoundedSpec ==
  AnyInit /\ [][(PackageJobs /\ SecondJobs') \/ PatchJobs]_<<vars, patchVars>>

-----------------------------------------------------------------------------
MCPatch(n, d, s, r, o, i, c, l) ==
  [name |-> n, date |-> d, status |-> s, restart |-> r, optional |-> o,
   interactive |-> i, category |-> c, locked |-> l]

Status == {"needed", "satisfied", "irrelevant"}

\* Two versions of a patch that may be of the update stack or locked, one of a
\* plain patch, and one that is optional or asks the user something.
LockedIfNeeded(P) == {p \in P : p.locked => p.status = "needed"}
Stack == LockedIfNeeded({MCPatch("stack", d, s, TRUE, FALSE, {}, "security", l)
            : d \in {1, 2}, s \in Status, l \in BOOLEAN})
Plain == LockedIfNeeded({MCPatch("plain", 2, s, FALSE, FALSE, {}, "security", l)
            : s \in Status, l \in BOOLEAN})
Fussy == {MCPatch("fussy", 1, "needed", FALSE, o, i, c, FALSE)
            : o \in BOOLEAN, i \in {{}, {"reboot"}, {"license"}, {"message"}},
              c \in {"security", "recommended"}}

MCPatchPools ==
  {{a, b} : a \in Stack, b \in Plain \union Fussy}
  \union {{a, b, c} : a \in {p \in Stack : p.date = 1}, b \in {p \in Stack : p.date = 2},
                      c \in {p \in Plain : ~p.locked}}

PatchOption(f, si, so, ig, wu, bf, cs) ==
  [force |-> f, skipInteractive |-> si, skipOptional |-> so, ignored |-> ig,
   withUpdate |-> wu, before |-> bf, categories |-> cs]

MCPatchOptions ==
  {PatchOption(FALSE, FALSE, FALSE, {}, wu, bf, {}) : wu \in BOOLEAN, bf \in {1, Forever}}
  \union {PatchOption(TRUE, FALSE, FALSE, {}, FALSE, Forever, {}),
          PatchOption(FALSE, TRUE, TRUE, {"reboot"}, FALSE, Forever, {}),
          PatchOption(FALSE, TRUE, FALSE, {"license"}, TRUE, Forever, {"security"}),
          PatchOption(FALSE, FALSE, FALSE, {}, FALSE, 1, {"recommended", "bogus"})}
=============================================================================

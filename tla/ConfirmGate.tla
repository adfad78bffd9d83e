---------------------------- MODULE ConfirmGate ----------------------------
(***************************************************************************)
(* plan_install, confirm_install, plan_remove and confirm_remove as worker *)
(* processes that share one machine: the ZYpp lock, the rpm database and   *)
(* the cached repository metadata.  Every call is a fresh process, so what *)
(* a client learned from a plan reaches a confirm only as the license_ids  *)
(* it passes in accepted_licenses.  The lock is between processes of root: *)
(* a plan for an unprivileged user reads the system without it.            *)
(*                                                                         *)
(* What happens inside commit() is the subject of WorkerCall and           *)
(* CommitReport; here it either changes all it should or only a part.      *)
(***************************************************************************)
EXTENDS Integers, FiniteSets

CONSTANTS
  Calls,        \* worker processes that may run at the same time
  Nobody,       \* lock holder when the ZYpp lock is free
  NoCall,       \* what an idle process was asked
  Builds,       \* packages: records [name, edition, repo]
  Snapshots,    \* bound: the sets of builds the metadata may list
  Targets,      \* names and capabilities that may be asked for
  Asked,        \* bound: what clients ask for, see Questions
  Requires,     \* Requires[n]: capabilities a package of name n needs
  Provides,     \* Provides[n]: capabilities it offers, n among them
  Eula,         \* Eula[b]: the text licenseToConfirm() has for an available b
  NoText,       \* the empty text, or needToAcceptLicense() is false
  LicenseId,    \* licenseId(): text to license_id
  Replacements  \* may the solver satisfy a removal by installing something

Names == {b.name : b \in Builds}
Texts == {Eula[b] : b \in Builds}

ASSUME CallsAssumption ==
  Nobody \notin Calls

ASSUME DataAssumption ==
  /\ Snapshots \subseteq SUBSET Builds
  /\ Replacements \in BOOLEAN

\* licenseId() hashes the text with 64-bit FNV-1a: no two texts in use
\* collide.
IdsAreDistinct ==
  \A s, t \in Texts : LicenseId[s] = LicenseId[t] => s = t

VARIABLES
  installed,  \* the rpm database: builds (the database forgets the repo)
  published,  \* builds in the metadata cache
  lock,       \* holder of the ZYpp lock
  pc,         \* where each process is
  call,       \* what each process was asked
  pool,       \* the pool each process has loaded
  job,        \* what setupInstall() / setupRemove() selected
  plan,       \* the solver's answer
  shown,      \* history: license texts the client has been shown
  agreed      \* history: license texts it has accepted

systemVars  == <<installed, published>>
historyVars == <<shown, agreed>>
vars == <<systemVars, lock, pc, call, pool, job, plan, historyVars>>

Tools    == {"plan_install", "confirm_install", "plan_remove",
             "confirm_remove"}
Confirms == {"confirm_install", "confirm_remove"}
Installs == {"plan_install", "confirm_install"}

\* How good the arguments are: a --arg that is no JSON object, one that
\* setupInstall()/setupRemove() reject, an accepted_licenses that is not a
\* list of strings, or all fine.
ArgKinds == {"noJson", "bad", "badLicenses", "fine"}

\* A call without its accepted_licenses.
Questions ==
  [tool : Tools, target : Targets, via : {"name", "cap"}, args : ArgKinds,
   root : BOOLEAN]

Requests ==
  [tool : Tools, target : Targets, via : {"name", "cap"}, args : ArgKinds,
   root : BOOLEAN, accepted : SUBSET {LicenseId[t] : t \in Texts}]

ASSUME AskedAssumption == Asked \subseteq Questions

Asking(q, ids) ==
  [tool |-> q.tool, target |-> q.target, via |-> q.via, args |-> q.args,
   root |-> q.root, accepted |-> ids]

\* A pool that has been loaded, and one that has not.
Pools    == [installed : SUBSET Builds, published : SUBSET Builds]
NoPool   == [installed |-> {}, published |-> {}]

Jobs     == [kind : {"nothing", "install", "require", "remove", "conflict"},
             builds : SUBSET Builds, cap : Targets \union {NoText}]
NoJob    == [kind |-> "nothing", builds |-> {}, cap |-> NoText]

Plans    == [add : SUBSET Builds, drop : SUBSET Builds]
NoPlan   == [add |-> {}, drop |-> {}]

Steps    == {"idle", "started", "loaded", "selected", "resolved",
             "committing"}
Working  == {"loaded", "selected", "resolved", "committing"}

TypeOK ==
  /\ installed \in SUBSET Builds
  /\ published \in SUBSET Builds
  /\ lock \in Calls \union {Nobody}
  /\ pc \in [Calls -> Steps]
  /\ call \in [Calls -> Requests \union {NoCall}]
  /\ pool \in [Calls -> Pools]
  /\ job \in [Calls -> Jobs]
  /\ plan \in [Calls -> Plans]
  /\ shown \in SUBSET Texts
  /\ agreed \in SUBSET Texts

Init ==
  /\ installed = {}
  /\ published \in Snapshots
  /\ lock = Nobody
  /\ pc = [c \in Calls |-> "idle"]
  /\ call = [c \in Calls |-> NoCall]
  /\ pool = [c \in Calls |-> NoPool]
  /\ job = [c \in Calls |-> NoJob]
  /\ plan = [c \in Calls |-> NoPlan]
  /\ shown = {}
  /\ agreed = {}

-----------------------------------------------------------------------------
(* Selection: what setupInstall() and setupRemove() get from the Requester. *)

\* The builds of the best repository (the lowest number) in a set.
First(S) == {b \in S : \A o \in S : b.repo <= o.repo}

\* PoolItemBest / updateCandidateObj(): the highest edition, from the best
\* repository that has it.
Best(S) == First({b \in S : \A o \in S : b.edition >= o.edition})

Providers(S, cap) == {b \in S : cap \in Provides[b.name]}
Named(S, name)    == {b \in S : b.name = name}

\* Nothing in the pool matches: NOT_FOUND_NAME, NOT_FOUND_CAP.
NotFound(p, req) ==
  LET known == p.installed \union p.published
  IN IF req.via = "name" THEN Named(known, req.target) = {}
                         ELSE Providers(known, req.target) = {}

\* NOT_INSTALLED, NO_INSTALLED_PROVIDER.
NothingToRemove(p, req) ==
  IF req.via = "name" THEN Named(p.installed, req.target) = {}
                      ELSE Providers(p.installed, req.target) = {}

\* Requester::install.  By name: the best candidate, if it is newer than what
\* is installed.  By capability: a requirement, unless it is satisfied.
InstallJob(p, req) ==
  LET have  == Named(p.installed, req.target)
      offer == Named(p.published, req.target)
      best  == Best(offer)   \* one build, none if nothing is on offer
  IN CASE req.via = "cap" /\ Providers(p.installed, req.target) = {} ->
            [kind |-> "require", builds |-> {}, cap |-> req.target]
       [] /\ req.via = "name" /\ offer # {}
          /\ \A b \in best, i \in have : b.edition > i.edition ->
            [kind |-> "install", builds |-> best, cap |-> NoText]
       [] OTHER -> NoJob

\* Requester::remove.  By name: what is installed under it.  By capability: a
\* conflict with it.
RemoveJob(p, req) ==
  IF req.via = "name"
  THEN [kind |-> "remove", builds |-> Named(p.installed, req.target),
        cap |-> NoText]
  ELSE [kind |-> "conflict", builds |-> {}, cap |-> req.target]

-----------------------------------------------------------------------------
(* The solver (libsolv behind Resolver::resolvePool): any plan that fulfils *)
(* the job, leaves no requirement open and does nothing needless.           *)

\* One build per name: a new one replaces the old.
After(inst, add, drop) ==
  {i \in inst : i \notin drop /\ \A b \in add : b.name # i.name} \union add

Consistent(S) ==
  \A i \in S : \A cap \in Requires[i.name] : Providers(S, cap) # {}

Fulfils(S, j) ==
  CASE j.kind = "nothing"  -> TRUE
    [] j.kind = "install"  -> j.builds \subseteq S
    [] j.kind = "require"  -> Providers(S, j.cap) # {}
    [] j.kind = "remove"   -> \A b \in j.builds : Named(S, b.name) = {}
    [] j.kind = "conflict" -> Providers(S, j.cap) = {}

Works(p, j, s) ==
  LET S == After(p.installed, s.add, s.drop)
  IN /\ \A a, b \in s.add : a.name = b.name => a = b
     /\ Consistent(S) /\ Fulfils(S, j)

Solutions(p, j) ==
  {s \in [add : SUBSET p.published, drop : SUBSET p.installed] :
     /\ Works(p, j, s)
     /\ \A b \in s.add  : ~Works(p, j, [s EXCEPT !.add = @ \ {b}])
     /\ \A i \in s.drop : ~Works(p, j, [s EXCEPT !.drop = @ \ {i}])
     /\ j.kind \in {"remove", "conflict"} /\ ~Replacements => s.add = {}}

-----------------------------------------------------------------------------
(* The license gate.                                                       *)

SameNVRA(a, b) == a.name = b.name /\ a.edition = b.edition

\* An rpm database entry carries no license text; collectLicensesToConfirm
\* takes the one of the first available build with the same name, version,
\* release and architecture.  No text if no repository has it any more.
KnownText(p, i) ==
  {Eula[a] : a \in First({x \in p.published : SameNVRA(x, i)})}

\* Fault: an installed package is taken for an agreed license.
MustConfirmFresh(p, b) ==
  /\ Eula[b] # NoText
  /\ Named(p.installed, b.name) = {}

\* collectLicensesToConfirm, for one package: not asked again if the text is
\* that of every installed version.
MustConfirm(p, b) ==
  /\ Eula[b] # NoText
  /\ LET have == Named(p.installed, b.name)
     IN have = {} \/ \E i \in have : Eula[b] \notin KnownText(p, i)

\* collectLicensesToConfirm: the texts, packages that share one grouped.
ToConfirm(c) == {Eula[b] : b \in {x \in plan[c].add : MustConfirm(pool[c], x)}}

\* checkLicensesAccepted: the texts the client has not accepted.
Pending(c) == {t \in ToConfirm(c) : LicenseId[t] \notin call[c].accepted}

-----------------------------------------------------------------------------
(* The processes.                                                          *)

\* The process writes its one frame and ends, or dies; the lock goes with it.
Finish(c) ==
  /\ pc' = [pc EXCEPT ![c] = "idle"]
  /\ call' = [call EXCEPT ![c] = NoCall]
  /\ lock' = IF lock = c THEN Nobody ELSE lock
  /\ pool' = [pool EXCEPT ![c] = NoPool]
  /\ job' = [job EXCEPT ![c] = NoJob]
  /\ plan' = [plan EXCEPT ![c] = NoPlan]

\* A client starts a call.  The ids it accepts are of texts it was shown.
Start(c) ==
  /\ pc[c] = "idle"
  /\ \E q \in Asked, ids \in SUBSET {LicenseId[t] : t \in shown} :
       /\ q.tool # "confirm_install" => ids = {}
       /\ call' = [call EXCEPT ![c] = Asking(q, ids)]
       /\ agreed' = agreed \union {t \in shown : LicenseId[t] \in ids}
  /\ pc' = [pc EXCEPT ![c] = "started"]
  /\ UNCHANGED <<systemVars, lock, pool, job, plan, shown>>

\* main(): --arg is not a JSON object (INVALID_ARG).
RejectJson(c) ==
  /\ pc[c] = "started" /\ call[c].args = "noJson"
  /\ Finish(c)
  /\ UNCHANGED <<systemVars, historyVars>>

\* Fault: only the installing tool asks who runs it.
MustBeRootToInstall(req) == req.tool = "confirm_install"

\* Both confirm tools ask.
MustBeRoot(req) == req.tool \in Confirms

\* geteuid() # 0: PERMISSION_DENIED.
Deny(c) ==
  /\ pc[c] = "started" /\ call[c].args # "noJson"
  /\ MustBeRoot(call[c]) /\ ~call[c].root
  /\ Finish(c)
  /\ UNCHANGED <<systemVars, historyVars>>

MayLoad(c) ==
  /\ pc[c] = "started" /\ call[c].args # "noJson"
  /\ MustBeRoot(call[c]) => call[c].root

\* getZYpp() asks for the ZYpp lock on behalf of root only; anybody else reads
\* the system without it.
NeedsLock(c) == call[c].root

\* It throws ZYppFactoryException, for another process has the lock: LOCKED.
FindLocked(c) ==
  /\ MayLoad(c) /\ NeedsLock(c) /\ lock # Nobody
  /\ Finish(c)
  /\ UNCHANGED <<systemVars, historyVars>>

\* Fault: a load that takes the lock if it is free and goes on if it is not.
LoadAnyway(c) ==
  /\ MayLoad(c)
  /\ lock' = IF NeedsLock(c) /\ lock = Nobody THEN c ELSE lock
  /\ pool' = [pool EXCEPT ![c] = [installed |-> installed,
                                  published |-> published]]
  /\ pc' = [pc EXCEPT ![c] = "loaded"]
  /\ UNCHANGED <<systemVars, call, job, plan, historyVars>>

\* ToolContext::load: the lock, if it takes one, then the database and the
\* metadata.  An unprivileged process reads them beside whoever holds it.
Load(c) ==
  /\ MayLoad(c)
  /\ \/ NeedsLock(c) /\ lock = Nobody /\ lock' = c
     \/ ~NeedsLock(c) /\ UNCHANGED lock
  /\ pool' = [pool EXCEPT ![c] = [installed |-> installed,
                                  published |-> published]]
  /\ pc' = [pc EXCEPT ![c] = "loaded"]
  /\ UNCHANGED <<systemVars, call, job, plan, historyVars>>

\* setupInstall / setupRemove end the call: a bad argument (EXCEPTION),
\* NOT_FOUND, or an empty removal plan.
NothingSelected(c) ==
  /\ pc[c] = "loaded"
  /\ \/ call[c].args = "bad"
     \/ NotFound(pool[c], call[c])
     \/ call[c].tool \notin Installs /\ NothingToRemove(pool[c], call[c])
  /\ Finish(c)
  /\ UNCHANGED <<systemVars, historyVars>>

\* They hand a job to the resolver (applySelections).
Select(c) ==
  /\ pc[c] = "loaded" /\ call[c].args # "bad"
  /\ ~NotFound(pool[c], call[c])
  /\ IF call[c].tool \in Installs
     THEN job' = [job EXCEPT ![c] = InstallJob(pool[c], call[c])]
     ELSE /\ ~NothingToRemove(pool[c], call[c])
          /\ job' = [job EXCEPT ![c] = RemoveJob(pool[c], call[c])]
  /\ pc' = [pc EXCEPT ![c] = "selected"]
  /\ UNCHANGED <<systemVars, lock, call, pool, plan, historyVars>>

\* resolvePool() fails: SOLVER_ERROR.
Unsolvable(c) ==
  /\ pc[c] = "selected"
  /\ Solutions(pool[c], job[c]) = {}
  /\ Finish(c)
  /\ UNCHANGED <<systemVars, historyVars>>

\* It succeeds.  confirm_remove goes straight on to commit().
Resolve(c) ==
  /\ pc[c] = "selected"
  /\ \E s \in Solutions(pool[c], job[c]) : plan' = [plan EXCEPT ![c] = s]
  /\ pc' = [pc EXCEPT ![c] = IF call[c].tool = "confirm_remove"
                             THEN "committing" ELSE "resolved"]
  /\ UNCHANGED <<systemVars, lock, call, pool, job, historyVars>>

\* planInstallToJson and planRemoveToJson; the former lists the licenses.
ShowPlan(c) ==
  /\ pc[c] = "resolved" /\ call[c].tool \notin Confirms
  /\ shown' = IF call[c].tool = "plan_install"
              THEN shown \union ToConfirm(c) ELSE shown
  /\ Finish(c)
  /\ UNCHANGED <<systemVars, agreed>>

\* accepted_licenses is no list of strings (EXCEPTION), or a license is
\* missing from it: LICENSE_CONFIRMATION_REQUIRED lists the missing ones.
RefuseLicenses(c) ==
  /\ pc[c] = "resolved" /\ call[c].tool = "confirm_install"
  /\ \/ call[c].args = "badLicenses" /\ UNCHANGED shown
     \/ /\ call[c].args # "badLicenses" /\ Pending(c) # {}
        /\ shown' = shown \union Pending(c)
  /\ Finish(c)
  /\ UNCHANGED <<systemVars, agreed>>

PassLicenses(c) ==
  /\ pc[c] = "resolved" /\ call[c].tool = "confirm_install"
  /\ call[c].args # "badLicenses" /\ Pending(c) = {}
  /\ pc' = [pc EXCEPT ![c] = "committing"]
  /\ UNCHANGED <<systemVars, lock, call, pool, job, plan, historyVars>>

\* ZYpp::commit does the plan, or, when a step fails, a part of it.
Commit(c) ==
  /\ pc[c] = "committing"
  /\ \E add \in SUBSET plan[c].add, drop \in SUBSET plan[c].drop :
       installed' = After(installed, add, drop)
  /\ Finish(c)
  /\ UNCHANGED <<published, historyVars>>

\* The process dies: killed, cancelled or crashed (during commit() see
\* Commit, which may stop anywhere).
Die(c) ==
  /\ pc[c] # "idle"
  /\ Finish(c)
  /\ UNCHANGED <<systemVars, historyVars>>

\* Another ZYpp program of root refreshes the metadata; it needs the lock too.
Refresh ==
  /\ lock = Nobody
  /\ published' \in Snapshots \ {published}
  /\ UNCHANGED <<installed, lock, pc, call, pool, job, plan, historyVars>>

CallStep(c) ==
  \/ Start(c) \/ RejectJson(c) \/ Deny(c) \/ FindLocked(c) \/ Load(c)
  \/ NothingSelected(c) \/ Select(c) \/ Unsolvable(c) \/ Resolve(c)
  \/ ShowPlan(c) \/ RefuseLicenses(c) \/ PassLicenses(c) \/ Commit(c)
  \/ Die(c)

Next == Refresh \/ \E c \in Calls : CallStep(c)

Spec == Init /\ [][Next]_vars

-----------------------------------------------------------------------------
(* Properties.                                                             *)

\* Builds of the same name and version come with the same license, whatever
\* repository they are in.
SameText ==
  \A a, b \in Builds : SameNVRA(a, b) => Eula[a] = Eula[b]

\* Everything on the system came under a license text the client has agreed
\* to (or has none), whatever calls, refusals, upgrades, refreshes and partial
\* commits led there: the promise of the license gate.
EveryLicenseAgreed ==
  \A i \in installed : Eula[i] = NoText \/ Eula[i] \in agreed

\* What root's call solved, showed or checked licenses for is what it commits
\* to: from loading to the end of the call its pool is the system as it is,
\* whatever other calls and refreshes run beside it.  (An unprivileged plan has
\* no lock; its pool may be out of date by the time it is shown.)
PoolIsTheSystem ==
  \A c \in Calls : pc[c] \in Working /\ call[c].root =>
    pool[c] = [installed |-> installed, published |-> published]

\* Why EveryLicenseAgreed holds, as an inductive invariant of the code's steps:
\* root's call has the lock from loading to the end and its pool stays what it
\* was read from; a confirm tool that works is root's; a removal selects nothing
\* to install and its plan installs nothing; a license_id a call accepts is of a
\* text the client agreed to; and a process that has passed the license gate
\* installs agreed texts only.
GateInv ==
  /\ EveryLicenseAgreed
  /\ PoolIsTheSystem
  /\ \A c \in Calls :
       /\ pc[c] \in Working /\ call[c].root <=> lock = c
       /\ pc[c] \in Working /\ call[c].tool \in Confirms => call[c].root
       /\ pc[c] = "selected" /\ call[c].tool \notin Installs =>
            job[c].kind \in {"remove", "conflict"}
       /\ pc[c] # "idle" =>
            \A t \in Texts : LicenseId[t] \in call[c].accepted => t \in agreed
       /\ pc[c] = "committing" =>
            /\ call[c].tool \in Confirms
            /\ \A b \in plan[c].add : Eula[b] = NoText \/ Eula[b] \in agreed

\* The system is changed by calls of a confirm tool run by root, one at a time,
\* and by nothing else; a plan or an unprivileged call leaves it alone.
OnlyConfirmsChangeIt ==
  [][installed' # installed =>
       \E c \in Calls : /\ lock = c /\ pc[c] = "committing"
                        /\ call[c].tool \in Confirms /\ call[c].root]_vars

\* What validate.h says of the argument checks: a call with bad input never
\* gets to hold the ZYpp lock.
BadInputNeverLocks ==
  \A c \in Calls : lock = c => call[c].args = "fine"

=============================================================================

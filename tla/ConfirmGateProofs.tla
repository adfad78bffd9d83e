-------------------------- MODULE ConfirmGateProofs --------------------------
(***************************************************************************)
(* Machine-checked theorems about ConfirmGate, for every set of processes, *)
(* packages, licenses and repository states, and for every solver.         *)
(***************************************************************************)
EXTENDS ConfirmGate, TLAPS

\* What the Requester selects and the solver answers are made of builds.
LEMMA JobTypes ==
  ASSUME NEW p \in Pools, NEW req \in Requests
  PROVE  InstallJob(p, req) \in Jobs /\ RemoveJob(p, req) \in Jobs
  <1>1. req.target \in Targets
    BY DEF Requests
  <1>2. /\ Best(Named(p.published, req.target)) \in SUBSET Builds
        /\ Named(p.installed, req.target) \in SUBSET Builds
    BY DEF Best, First, Named, Pools
  <1>3. QED
    BY <1>1, <1>2 DEF InstallJob, RemoveJob, Jobs, NoJob

LEMMA PlanTypes ==
  ASSUME NEW p \in Pools, NEW j \in Jobs, NEW s \in Solutions(p, j)
  PROVE  s \in Plans
  BY DEF Solutions, Pools, Plans

\* A commit, whole or partial, leaves builds; each was there or was planned.
LEMMA AfterBuilds ==
  ASSUME NEW inst, NEW add, NEW drop
  PROVE  After(inst, add, drop) \subseteq inst \union add
  BY DEF After

\* A process that ends holds nothing.
LEMMA FinishTypes ==
  ASSUME TypeOK, NEW c \in Calls, Finish(c)
  PROVE  /\ pc' \in [Calls -> Steps]
         /\ call' \in [Calls -> Requests \union {NoCall}]
         /\ lock' \in Calls \union {Nobody}
         /\ pool' \in [Calls -> Pools]
         /\ job' \in [Calls -> Jobs]
         /\ plan' \in [Calls -> Plans]
  <1>1. /\ NoPool \in Pools /\ NoJob \in Jobs /\ NoPlan \in Plans
        /\ "idle" \in Steps
    BY DEF NoPool, Pools, NoJob, Jobs, NoPlan, Plans, Steps
  <1> HIDE DEF NoPool, NoJob, NoPlan
  <1>2. QED
    BY <1>1 DEF TypeOK, Finish

\* A process that runs has been asked something.
CallKnown == \A c \in Calls : pc[c] # "idle" => call[c] \in Requests

\* Type correctness: every variable keeps its type, whatever the calls do.
THEOREM TypeCorrect == Spec => [](TypeOK /\ CallKnown)
<1>1. Init => TypeOK /\ CallKnown
  BY DataAssumption
     DEF Init, TypeOK, CallKnown, NoPool, Pools, NoJob, Jobs, NoPlan, Plans, Steps
<1>2. TypeOK /\ CallKnown /\ [Next]_vars => TypeOK' /\ CallKnown'
  <2> SUFFICES ASSUME TypeOK, CallKnown, [Next]_vars PROVE TypeOK' /\ CallKnown'
    OBVIOUS
  <2>f. ASSUME NEW c \in Calls, Finish(c) PROVE CallKnown'
    BY <2>f DEF Finish, CallKnown, TypeOK
  <2>0. ASSUME NEW c \in Calls PROVE ToConfirm(c) \in SUBSET Texts
    <3>1. plan[c].add \subseteq Builds
      BY DEF TypeOK, Plans
    <3>2. QED
      BY <3>1 DEF ToConfirm, Texts
  <2>1. CASE Refresh
    BY <2>1, DataAssumption DEF Refresh, TypeOK, CallKnown, historyVars
  <2>2. ASSUME NEW c \in Calls, Start(c) PROVE TypeOK' /\ CallKnown'
    <3>1. PICK q \in Asked, ids \in SUBSET {LicenseId[t] : t \in shown} :
            /\ call' = [call EXCEPT ![c] = Asking(q, ids)]
            /\ agreed' = agreed \union {t \in shown : LicenseId[t] \in ids}
      BY <2>2 DEF Start
    <3>2. Asking(q, ids) \in Requests
      BY AskedAssumption DEF Asking, Requests, Questions, TypeOK
    <3>3. /\ pc' = [pc EXCEPT ![c] = "started"]
          /\ UNCHANGED <<systemVars, lock, pool, job, plan, shown>>
      BY <2>2 DEF Start
    <3> HIDE DEF Requests, Asking
    <3>4. QED
      BY <3>1, <3>2, <3>3 DEF TypeOK, CallKnown, Steps, systemVars
  <2>3. ASSUME NEW c \in Calls, RejectJson(c) PROVE TypeOK' /\ CallKnown'
    BY <2>3, <2>f, FinishTypes DEF RejectJson, TypeOK, systemVars, historyVars
  <2>4. ASSUME NEW c \in Calls, Deny(c) PROVE TypeOK' /\ CallKnown'
    BY <2>4, <2>f, FinishTypes DEF Deny, TypeOK, systemVars, historyVars
  <2>5. ASSUME NEW c \in Calls, FindLocked(c) PROVE TypeOK' /\ CallKnown'
    BY <2>5, <2>f, FinishTypes DEF FindLocked, TypeOK, systemVars, historyVars
  <2>6. ASSUME NEW c \in Calls, Load(c) PROVE TypeOK' /\ CallKnown'
    <3>1. [installed |-> installed, published |-> published] \in Pools
      BY DEF TypeOK, Pools
    <3>2. QED
      BY <2>6, <3>1 DEF Load, MayLoad, NeedsLock, TypeOK, CallKnown, Steps,
                        systemVars, historyVars
  <2>7. ASSUME NEW c \in Calls, NothingSelected(c) PROVE TypeOK' /\ CallKnown'
    BY <2>7, <2>f, FinishTypes
       DEF NothingSelected, TypeOK, systemVars, historyVars
  <2>8. ASSUME NEW c \in Calls, Select(c) PROVE TypeOK' /\ CallKnown'
    <3>1. pool[c] \in Pools /\ call[c] \in Requests
      BY <2>8 DEF Select, TypeOK, CallKnown
    <3>2. job' \in [Calls -> Jobs]
      BY <2>8, <3>1, JobTypes DEF Select, TypeOK
    <3>3. QED
      BY <2>8, <3>2 DEF Select, TypeOK, CallKnown, Steps, systemVars, historyVars
  <2>9. ASSUME NEW c \in Calls, Unsolvable(c) PROVE TypeOK' /\ CallKnown'
    BY <2>9, <2>f, FinishTypes DEF Unsolvable, TypeOK, systemVars, historyVars
  <2>10. ASSUME NEW c \in Calls, Resolve(c) PROVE TypeOK' /\ CallKnown'
    <3>1. plan' \in [Calls -> Plans]
      BY <2>10, PlanTypes DEF Resolve, TypeOK
    <3>2. QED
      BY <2>10, <3>1 DEF Resolve, TypeOK, CallKnown, Steps, systemVars,
                         historyVars
  <2>11. ASSUME NEW c \in Calls, ShowPlan(c) PROVE TypeOK' /\ CallKnown'
    BY <2>11, <2>f, <2>0, FinishTypes DEF ShowPlan, TypeOK, systemVars
  <2>12. ASSUME NEW c \in Calls, RefuseLicenses(c) PROVE TypeOK' /\ CallKnown'
    <3>1. Pending(c) \in SUBSET Texts
      BY <2>0 DEF Pending
    <3>2. shown' \in SUBSET Texts
      BY <2>12, <3>1 DEF RefuseLicenses, TypeOK
    <3>3. QED
      BY <2>12, <2>f, <3>2, FinishTypes DEF RefuseLicenses, TypeOK, systemVars
  <2>13. ASSUME NEW c \in Calls, PassLicenses(c) PROVE TypeOK' /\ CallKnown'
    BY <2>13 DEF PassLicenses, TypeOK, CallKnown, Steps, systemVars, historyVars
  <2>14. ASSUME NEW c \in Calls, Commit(c) PROVE TypeOK' /\ CallKnown'
    <3>1. installed' \in SUBSET Builds
      BY <2>14, AfterBuilds DEF Commit, TypeOK, Plans
    <3>2. QED
      BY <2>14, <2>f, <3>1, FinishTypes DEF Commit, TypeOK, historyVars
  <2>15. ASSUME NEW c \in Calls, Die(c) PROVE TypeOK' /\ CallKnown'
    BY <2>15, <2>f, FinishTypes DEF Die, TypeOK, systemVars, historyVars
  <2>16. CASE UNCHANGED vars
    BY <2>16 DEF vars, TypeOK, CallKnown, systemVars, historyVars
  <2>17. QED
    BY <2>1, <2>2, <2>3, <2>4, <2>5, <2>6, <2>7, <2>8, <2>9, <2>10, <2>11,
       <2>12, <2>13, <2>14, <2>15, <2>16 DEF Next, CallStep
<1>3. QED BY <1>1, <1>2, PTL DEF Spec

-----------------------------------------------------------------------------
\* What the lock and the root check give, whatever the data: a process of root
\* has the lock from loading to its end, and no other process ever has it; its
\* pool is the system; a confirm tool that works is root's, and only a confirm
\* tool commits.
HolderPart(c) ==
  /\ pc[c] \in Working /\ call[c].root <=> lock = c
  /\ pc[c] \in Working /\ call[c].root =>
       pool[c] = [installed |-> installed, published |-> published]
  /\ pc[c] \in Working /\ call[c].tool \in Confirms => call[c].root
  /\ pc[c] = "committing" => call[c].tool \in Confirms

HolderInv == \A c \in Calls : HolderPart(c)

LEMMA HolderInvStep ==
  ASSUME TypeOK, HolderInv, [Next]_vars
  PROVE  HolderInv'
<1> SUFFICES ASSUME NEW d \in Calls PROVE HolderPart(d)'
  BY DEF HolderInv
<1>0. HolderPart(d)
  BY DEF HolderInv
<1>f. ASSUME NEW c \in Calls, Finish(c),
             UNCHANGED systemVars \/ pc[c] = "committing"
      PROVE  HolderPart(d)'
  <2>1. CASE d = c
    BY <1>f, <2>1, CallsAssumption DEF HolderPart, Finish, TypeOK, Working
  <2>2. CASE d # c
    <3>1. /\ pc'[d] = pc[d] /\ call'[d] = call[d] /\ pool'[d] = pool[d]
          /\ lock' = d <=> lock = d
      BY <1>f, <2>2, CallsAssumption DEF Finish, TypeOK
    <3>2. CASE UNCHANGED systemVars
      BY <1>0, <3>1, <3>2 DEF HolderPart, systemVars
    <3>3. CASE pc[c] = "committing"
      <4>1. lock = c
        BY <3>3 DEF HolderInv, HolderPart, Working
      <4>2. lock' # d /\ ~(pc'[d] \in Working /\ call'[d].root)
        BY <1>0, <2>2, <3>1, <4>1 DEF HolderPart
      <4>3. QED BY <1>0, <3>1, <4>2 DEF HolderPart
    <3>4. QED BY <1>f, <3>2, <3>3
  <2>3. QED BY <2>1, <2>2
<1>1. CASE Refresh
  BY <1>0, <1>1, CallsAssumption DEF Refresh, HolderPart, Working, historyVars
<1>2. ASSUME NEW c \in Calls, Start(c) PROVE HolderPart(d)'
  <2>1. /\ pc[c] = "idle" /\ pc' = [pc EXCEPT ![c] = "started"]
        /\ UNCHANGED <<systemVars, lock, pool, job, plan, shown>>
        /\ \A x \in Calls \ {c} : call'[x] = call[x]
    BY <1>2 DEF Start, TypeOK
  <2>2. QED
    BY <1>0, <2>1 DEF HolderPart, Working, TypeOK, systemVars
<1>3. ASSUME NEW c \in Calls,
             \/ RejectJson(c) \/ Deny(c) \/ FindLocked(c) \/ NothingSelected(c)
             \/ Unsolvable(c) \/ Die(c) \/ ShowPlan(c) \/ RefuseLicenses(c)
      PROVE  HolderPart(d)'
  BY <1>3, <1>f DEF RejectJson, Deny, FindLocked, NothingSelected, Unsolvable,
                    Die, ShowPlan, RefuseLicenses
<1>4. ASSUME NEW c \in Calls, Load(c) PROVE HolderPart(d)'
  <2>1. /\ pc[c] = "started" /\ pc' = [pc EXCEPT ![c] = "loaded"]
        /\ call[c].tool \in Confirms => call[c].root
        /\ pool' = [pool EXCEPT ![c] = [installed |-> installed,
                                        published |-> published]]
        /\ UNCHANGED <<installed, published, call>>
    BY <1>4 DEF Load, MayLoad, MustBeRoot, systemVars
  <2>2. \/ call[c].root /\ lock = Nobody /\ lock' = c
        \/ ~call[c].root /\ lock' = lock
    BY <1>4 DEF Load, NeedsLock
  <2>3. CASE d = c
    BY <1>0, <2>1, <2>2, <2>3 DEF HolderPart, Working, TypeOK
  <2>4. CASE d # c
    <3>1. lock' = d <=> lock = d
      BY <2>2, <2>4, CallsAssumption
    <3>2. QED
      BY <1>0, <2>1, <2>4, <3>1 DEF HolderPart, TypeOK
  <2>5. QED BY <2>3, <2>4
<1>5. ASSUME NEW c \in Calls, Select(c) PROVE HolderPart(d)'
  BY <1>0, <1>5 DEF Select, HolderPart, Working, TypeOK, systemVars
<1>6. ASSUME NEW c \in Calls, Resolve(c) PROVE HolderPart(d)'
  BY <1>0, <1>6 DEF Resolve, HolderPart, Working, TypeOK, systemVars, Confirms
<1>7. ASSUME NEW c \in Calls, PassLicenses(c) PROVE HolderPart(d)'
  BY <1>0, <1>7
     DEF PassLicenses, HolderPart, Working, TypeOK, systemVars, Confirms
<1>8. ASSUME NEW c \in Calls, Commit(c) PROVE HolderPart(d)'
  BY <1>8, <1>f DEF Commit, Working
<1>9. CASE UNCHANGED vars
  BY <1>0, <1>9 DEF vars, HolderPart, systemVars
<1>10. QED
  BY <1>1, <1>2, <1>3, <1>4, <1>5, <1>6, <1>7, <1>8, <1>9 DEF Next, CallStep

THEOREM HolderInvCorrect == Spec => []HolderInv
<1>1. Init => HolderInv
  BY CallsAssumption DEF Init, HolderInv, HolderPart, Working
<1>2. TypeOK /\ HolderInv /\ [Next]_vars => HolderInv'
  BY HolderInvStep
<1>3. QED BY <1>1, <1>2, TypeCorrect, PTL DEF Spec

\* The pool root's call works on is the system, up to the end of the call: no
\* other call, privileged or not, can come between its plan and its commit.
THEOREM PoolStaysTrue == Spec => []PoolIsTheSystem
<1>1. HolderInv => PoolIsTheSystem
  BY DEF HolderInv, HolderPart, PoolIsTheSystem
<1>2. QED BY <1>1, HolderInvCorrect, PTL

\* Only a confirm tool run by root changes the system, with the lock in hand.
THEOREM OnlyConfirms == Spec => OnlyConfirmsChangeIt
<1>1. HolderInv /\ [Next]_vars =>
        [installed' # installed =>
           \E c \in Calls : /\ lock = c /\ pc[c] = "committing"
                            /\ call[c].tool \in Confirms /\ call[c].root]_vars
  <2> SUFFICES ASSUME HolderInv, Next, installed' # installed
               PROVE  \E c \in Calls : /\ lock = c /\ pc[c] = "committing"
                                       /\ call[c].tool \in Confirms
                                       /\ call[c].root
    OBVIOUS
  <2>1. PICK c \in Calls : Commit(c)
    BY DEF Next, CallStep, Refresh, Start, RejectJson, Deny, FindLocked, Load,
           NothingSelected, Select, Unsolvable, Resolve, ShowPlan,
           RefuseLicenses, PassLicenses, Die, systemVars
  <2>2. QED
    BY <2>1 DEF Commit, HolderInv, HolderPart, Working
<1>2. QED BY <1>1, HolderInvCorrect, PTL DEF Spec, OnlyConfirmsChangeIt

-----------------------------------------------------------------------------
\* The steps that end a call keep what the others rely on, as long as they
\* leave the system and the history alone.
CallPart(c) ==
  /\ pc[c] \in Working /\ call[c].root <=> lock = c
  /\ pc[c] \in Working /\ call[c].tool \in Confirms => call[c].root
  /\ pc[c] = "selected" /\ call[c].tool \notin Installs =>
       job[c].kind \in {"remove", "conflict"}
  /\ pc[c] # "idle" =>
       \A t \in Texts : LicenseId[t] \in call[c].accepted => t \in agreed
  /\ pc[c] = "committing" =>
       /\ call[c].tool \in Confirms
       /\ \A b \in plan[c].add : Eula[b] = NoText \/ Eula[b] \in agreed

LEMMA GateInvParts ==
  GateInv <=> /\ EveryLicenseAgreed /\ PoolIsTheSystem
              /\ \A c \in Calls : CallPart(c)
  BY DEF GateInv, CallPart

LEMMA FinishKeeps ==
  ASSUME TypeOK, \A d \in Calls : CallPart(d), NEW c \in Calls, Finish(c),
         UNCHANGED agreed
  PROVE  /\ \A d \in Calls : CallPart(d)'
         /\ \A d \in Calls : pc'[d] \in Working =>
              pc[d] \in Working /\ pool'[d] = pool[d] /\ call'[d] = call[d] /\ d # c
  <1>1. ASSUME NEW d \in Calls PROVE CallPart(d)'
    <2>1. CASE d = c
      BY <2>1, CallsAssumption DEF CallPart, Finish, TypeOK, Working
    <2>2. CASE d # c
      <3>1. /\ pc'[d] = pc[d] /\ call'[d] = call[d] /\ job'[d] = job[d]
            /\ plan'[d] = plan[d]
        BY <2>2 DEF Finish, TypeOK
      <3>2. lock' = d <=> lock = d
        BY <2>2, CallsAssumption DEF Finish
      <3>3. QED
        BY <3>1, <3>2 DEF CallPart
    <2>3. QED BY <2>1, <2>2
  <1>2. ASSUME NEW d \in Calls, pc'[d] \in Working
        PROVE  pc[d] \in Working /\ pool'[d] = pool[d] /\ call'[d] = call[d] /\ d # c
    BY <1>2 DEF Finish, TypeOK, Working
  <1>3. QED BY <1>1, <1>2

\* The license gate: once nothing is pending, each text the plan brings is
\* agreed to, by this call or when the installed version came.
LEMMA GateIsTight ==
  ASSUME TypeOK, GateInv, SameText, NEW c \in Calls,
         pc[c] = "resolved", call[c].tool \in Confirms, Pending(c) = {}
  PROVE  \A b \in plan[c].add : Eula[b] = NoText \/ Eula[b] \in agreed
  <1> SUFFICES ASSUME NEW b \in plan[c].add, Eula[b] # NoText
               PROVE  Eula[b] \in agreed
    OBVIOUS
  <1>1. b \in Builds /\ Eula[b] \in Texts
    BY DEF TypeOK, Plans, Texts
  <1>2. pool[c] = [installed |-> installed, published |-> published]
    <2>1. pc[c] \in Working /\ call[c].root
      BY DEF GateInv, Working
    <2>2. QED BY <2>1 DEF GateInv, PoolIsTheSystem
  <1>3. CASE MustConfirm(pool[c], b)
    <2>1. Eula[b] \in ToConfirm(c)
      BY <1>3 DEF ToConfirm
    <2>2. LicenseId[Eula[b]] \in call[c].accepted
      BY <2>1 DEF Pending
    <2>3. QED
      BY <1>1, <2>2 DEF GateInv
  <1>4. CASE ~MustConfirm(pool[c], b)
    <2>1. PICK i \in installed : Eula[b] \in KnownText(pool[c], i)
      BY <1>2, <1>4 DEF MustConfirm, Named
    <2>2. PICK a \in published : SameNVRA(a, i) /\ Eula[b] = Eula[a]
      BY <1>2, <2>1 DEF KnownText, First
    <2>3. Eula[b] = Eula[i]
      BY <2>2 DEF SameText, TypeOK
    <2>4. QED
      BY <2>3 DEF GateInv, EveryLicenseAgreed
  <1>5. QED BY <1>3, <1>4

\* The gate's invariant is inductive when a license text is known by its name
\* and version, no two texts share a license_id, and the solver removes
\* packages only by removing.
Trusted == SameText /\ IdsAreDistinct /\ ~Replacements

LEMMA GateInvStep ==
  ASSUME Trusted, TypeOK, CallKnown, GateInv, [Next]_vars
  PROVE  GateInv'
<1> DEFINE Parts == \A d \in Calls : CallPart(d)
<1>0. Parts /\ EveryLicenseAgreed /\ PoolIsTheSystem
  BY GateInvParts
<1>a. SUFFICES Parts' /\ EveryLicenseAgreed' /\ PoolIsTheSystem'
  <2>1. GateInv' <=> /\ EveryLicenseAgreed' /\ PoolIsTheSystem'
                     /\ \A c \in Calls : CallPart(c)'
    BY DEF GateInv, CallPart, EveryLicenseAgreed, PoolIsTheSystem
  <2>2. QED BY <2>1
\* A call that ends without touching system or agreement.
<1>f. ASSUME NEW c \in Calls, Finish(c), UNCHANGED systemVars, agreed' = agreed
      PROVE  Parts' /\ EveryLicenseAgreed' /\ PoolIsTheSystem'
  <2>1. Parts' /\ \A d \in Calls : pc'[d] \in Working =>
                    /\ pc[d] \in Working /\ pool'[d] = pool[d]
                    /\ call'[d] = call[d] /\ d # c
    BY <1>0, <1>f, FinishKeeps
  <2>2. EveryLicenseAgreed'
    BY <1>0, <1>f DEF EveryLicenseAgreed, systemVars
  <2>3. PoolIsTheSystem'
    BY <1>0, <1>f, <2>1 DEF PoolIsTheSystem, systemVars
  <2>4. QED BY <2>1, <2>2, <2>3
\* Where the system does not change, agreement only grows.
<1>g. ASSUME UNCHANGED installed, agreed \subseteq agreed'
      PROVE  EveryLicenseAgreed'
  BY <1>0, <1>g DEF EveryLicenseAgreed
<1>1. CASE Refresh
  <2>1. \A d \in Calls : ~(pc[d] \in Working /\ call[d].root)
    BY <1>1, <1>0, CallsAssumption DEF Refresh, CallPart
  <2>2. Parts'
    BY <1>1, <1>0 DEF Refresh, CallPart, historyVars
  <2>3. PoolIsTheSystem'
    BY <1>1, <2>1 DEF Refresh, PoolIsTheSystem
  <2>4. QED BY <1>1, <1>g, <2>2, <2>3 DEF Refresh, historyVars
<1>2. ASSUME NEW c \in Calls, Start(c)
      PROVE  Parts' /\ EveryLicenseAgreed' /\ PoolIsTheSystem'
  <2>1. PICK q \in Asked, ids \in SUBSET {LicenseId[t] : t \in shown} :
          /\ call' = [call EXCEPT ![c] = Asking(q, ids)]
          /\ agreed' = agreed \union {t \in shown : LicenseId[t] \in ids}
    BY <1>2 DEF Start
  <2>2. /\ pc[c] = "idle" /\ pc' = [pc EXCEPT ![c] = "started"]
        /\ UNCHANGED <<systemVars, lock, pool, job, plan, shown>>
    BY <1>2 DEF Start
  <2>3. agreed \subseteq agreed'
    BY <2>1
  <2>4. ASSUME NEW t \in Texts, LicenseId[t] \in ids PROVE t \in agreed'
    <3>1. PICK s \in shown : LicenseId[s] = LicenseId[t]
      BY <2>4
    <3>2. s = t
      BY <3>1 DEF Trusted, IdsAreDistinct, TypeOK
    <3>3. QED
      BY <2>1, <2>4, <3>1, <3>2
  <2>5. ASSUME NEW d \in Calls PROVE CallPart(d)'
    <3>1. CASE d = c
      <4>1. call'[d].accepted = ids
        BY <2>1, <3>1 DEF TypeOK, Asking
      <4>2. pc'[d] = "started" /\ lock' # d
        BY <2>2, <3>1, <1>0 DEF TypeOK, CallPart, Working
      <4>3. QED
        BY <2>4, <4>1, <4>2 DEF CallPart, Working
    <3>2. CASE d # c
      <4>1. pc'[d] = pc[d] /\ call'[d] = call[d]
        BY <2>1, <2>2, <3>2 DEF TypeOK
      <4>2. lock' = lock /\ job' = job /\ plan' = plan
        BY <2>2
      <4>3. QED
        BY <1>0, <2>3, <4>1, <4>2 DEF CallPart
    <3>3. QED BY <3>1, <3>2
  <2>6. PoolIsTheSystem'
    <3>1. ASSUME NEW d \in Calls, pc'[d] \in Working
          PROVE  pc[d] \in Working /\ call'[d] = call[d] /\ pool'[d] = pool[d]
      BY <2>1, <2>2, <3>1 DEF TypeOK, Working
    <3>2. QED
      BY <1>0, <2>2, <3>1 DEF PoolIsTheSystem, systemVars
  <2>7. QED
    BY <1>g, <2>2, <2>3, <2>5, <2>6 DEF systemVars
<1>3. ASSUME NEW c \in Calls,
             RejectJson(c) \/ Deny(c) \/ FindLocked(c) \/ NothingSelected(c)
             \/ Unsolvable(c) \/ Die(c)
      PROVE  Parts' /\ EveryLicenseAgreed' /\ PoolIsTheSystem'
  BY <1>3, <1>f DEF RejectJson, Deny, FindLocked, NothingSelected, Unsolvable,
                    Die, historyVars
<1>4. ASSUME NEW c \in Calls, ShowPlan(c) \/ RefuseLicenses(c)
      PROVE  Parts' /\ EveryLicenseAgreed' /\ PoolIsTheSystem'
  BY <1>4, <1>f DEF ShowPlan, RefuseLicenses
<1>5. ASSUME NEW c \in Calls, Load(c)
      PROVE  Parts' /\ EveryLicenseAgreed' /\ PoolIsTheSystem'
  <2>1. /\ pc[c] = "started" /\ pc' = [pc EXCEPT ![c] = "loaded"]
        /\ call[c].tool \in Confirms => call[c].root
        /\ pool' = [pool EXCEPT ![c] = [installed |-> installed,
                                        published |-> published]]
        /\ UNCHANGED <<installed, published, call, job, plan, agreed>>
    BY <1>5 DEF Load, MayLoad, MustBeRoot, systemVars, historyVars
  <2>2. \/ call[c].root /\ lock = Nobody /\ lock' = c
        \/ ~call[c].root /\ lock' = lock
    BY <1>5 DEF Load, NeedsLock
  <2>3. ASSUME NEW d \in Calls PROVE CallPart(d)'
    <3>1. CASE d = c
      <4>1. pc'[d] = "loaded" /\ (call'[d].root <=> lock' = d)
        BY <1>0, <2>1, <2>2, <3>1 DEF CallPart, Working, TypeOK
      <4>2. QED
        BY <1>0, <2>1, <3>1, <4>1 DEF CallPart, Working
    <3>2. CASE d # c
      <4>1. pc'[d] = pc[d] /\ (lock' = d <=> lock = d)
        BY <2>1, <2>2, <3>2, CallsAssumption DEF TypeOK
      <4>2. QED
        BY <1>0, <2>1, <4>1 DEF CallPart
    <3>3. QED BY <3>1, <3>2
  <2>4. PoolIsTheSystem'
    BY <1>0, <2>1 DEF PoolIsTheSystem, TypeOK
  <2>5. QED
    BY <1>g, <2>1, <2>3, <2>4
<1>6. ASSUME NEW c \in Calls, Select(c)
      PROVE  Parts' /\ EveryLicenseAgreed' /\ PoolIsTheSystem'
  <2>1. /\ pc[c] = "loaded" /\ pc' = [pc EXCEPT ![c] = "selected"]
        /\ UNCHANGED <<systemVars, lock, call, pool, plan, historyVars>>
    BY <1>6 DEF Select
  <2>2. /\ \A d \in Calls \ {c} : job'[d] = job[d]
        /\ call[c].tool \notin Installs =>
             job'[c].kind \in {"remove", "conflict"}
    BY <1>6 DEF Select, TypeOK, RemoveJob
  <2>3. ASSUME NEW d \in Calls PROVE CallPart(d)'
    BY <1>0, <2>1, <2>2 DEF CallPart, Working, TypeOK, historyVars
  <2>4. PoolIsTheSystem'
    BY <1>0, <2>1 DEF PoolIsTheSystem, TypeOK, systemVars, Working
  <2>5. QED
    BY <1>g, <2>1, <2>3, <2>4 DEF systemVars, historyVars
<1>7. ASSUME NEW c \in Calls, Resolve(c)
      PROVE  Parts' /\ EveryLicenseAgreed' /\ PoolIsTheSystem'
  <2>1. PICK s \in Solutions(pool[c], job[c]) : plan' = [plan EXCEPT ![c] = s]
    BY <1>7 DEF Resolve
  <2>2. /\ pc[c] = "selected"
        /\ pc' = [pc EXCEPT ![c] = IF call[c].tool = "confirm_remove"
                                   THEN "committing" ELSE "resolved"]
        /\ UNCHANGED <<systemVars, lock, call, pool, job, historyVars>>
    BY <1>7 DEF Resolve
  <2>3. call[c].tool = "confirm_remove" => s.add = {}
    BY <1>0, <2>2 DEF Trusted, CallPart, Installs, Solutions
  <2>4. ASSUME NEW d \in Calls PROVE CallPart(d)'
    <3>1. CASE d = c
      <4>1. plan'[d] = s /\ (pc'[d] = "committing" => s.add = {})
        BY <2>1, <2>2, <2>3, <3>1 DEF TypeOK
      <4>2. pc'[d] \in {"committing", "resolved"}
        BY <2>2, <3>1 DEF TypeOK
      <4>3. pc'[d] = "committing" => call[d].tool \in Confirms
        BY <2>2, <3>1 DEF TypeOK, Confirms
      <4>4. QED
        BY <1>0, <2>2, <3>1, <4>1, <4>2, <4>3 DEF CallPart, Working, historyVars
    <3>2. CASE d # c
      <4>1. plan'[d] = plan[d] /\ pc'[d] = pc[d]
        BY <2>1, <2>2, <3>2 DEF TypeOK
      <4>2. QED
        BY <1>0, <2>2, <4>1 DEF CallPart, historyVars
    <3>3. QED BY <3>1, <3>2
  <2>5. PoolIsTheSystem'
    BY <1>0, <2>2 DEF PoolIsTheSystem, TypeOK, systemVars, Working
  <2>6. QED
    BY <1>g, <2>2, <2>4, <2>5 DEF systemVars, historyVars
<1>8. ASSUME NEW c \in Calls, PassLicenses(c)
      PROVE  Parts' /\ EveryLicenseAgreed' /\ PoolIsTheSystem'
  <2>1. /\ pc[c] = "resolved" /\ pc' = [pc EXCEPT ![c] = "committing"]
        /\ UNCHANGED <<systemVars, lock, call, pool, job, plan, historyVars>>
    BY <1>8 DEF PassLicenses
  <2>2. \A b \in plan[c].add : Eula[b] = NoText \/ Eula[b] \in agreed
    BY <1>8, GateIsTight DEF PassLicenses, Trusted, Confirms
  <2>3. ASSUME NEW d \in Calls PROVE CallPart(d)'
    BY <1>0, <1>8, <2>1, <2>2
       DEF PassLicenses, CallPart, Working, TypeOK, Confirms, historyVars
  <2>4. PoolIsTheSystem'
    BY <1>0, <2>1 DEF PoolIsTheSystem, TypeOK, systemVars, Working
  <2>5. QED
    BY <1>g, <2>1, <2>3, <2>4 DEF systemVars, historyVars
<1>9. ASSUME NEW c \in Calls, Commit(c)
      PROVE  Parts' /\ EveryLicenseAgreed' /\ PoolIsTheSystem'
  <2>1. PICK add \in SUBSET plan[c].add, drop \in SUBSET plan[c].drop :
          installed' = After(installed, add, drop)
    BY <1>9 DEF Commit
  <2>2. pc[c] = "committing" /\ Finish(c) /\ UNCHANGED <<published, historyVars>>
    BY <1>9 DEF Commit
  <2>3. EveryLicenseAgreed'
    <3>1. installed' \subseteq installed \union plan[c].add
      BY <2>1, AfterBuilds
    <3>2. \A b \in plan[c].add : Eula[b] = NoText \/ Eula[b] \in agreed
      BY <1>0, <2>2 DEF CallPart
    <3>3. QED
      BY <1>0, <2>2, <3>1, <3>2 DEF EveryLicenseAgreed, historyVars
  <2>4. /\ Parts'
        /\ \A d \in Calls : pc'[d] \in Working =>
             pc[d] \in Working /\ call'[d] = call[d] /\ d # c
    BY <1>0, <2>2, FinishKeeps DEF historyVars
  <2>5. \A d \in Calls : ~(pc'[d] \in Working /\ call'[d].root)
    <3>1. lock = c
      BY <1>0, <2>2 DEF CallPart, Working
    <3>2. QED
      BY <1>0, <2>4, <3>1 DEF CallPart
  <2>6. QED
    BY <2>3, <2>4, <2>5 DEF PoolIsTheSystem
<1>10. CASE UNCHANGED vars
  <2>1. Parts'
    BY <1>0, <1>10 DEF vars, CallPart, systemVars, historyVars
  <2>2. PoolIsTheSystem'
    BY <1>0, <1>10 DEF vars, PoolIsTheSystem, systemVars
  <2>3. QED
    BY <1>10, <1>g, <2>1, <2>2 DEF vars, systemVars, historyVars
<1>11. QED
  BY <1>1, <1>2, <1>3, <1>4, <1>5, <1>6, <1>7, <1>8, <1>9, <1>10
     DEF Next, CallStep

\* The license gate's invariant holds throughout.
THEOREM GateInvCorrect ==
  ASSUME Trusted
  PROVE  Spec => []GateInv
<1>1. Init => GateInv
  BY CallsAssumption
     DEF Init, GateInv, EveryLicenseAgreed, PoolIsTheSystem, Working
<1>2. TypeOK /\ CallKnown /\ GateInv /\ [Next]_vars => GateInv'
  BY GateInvStep
<1>3. QED BY <1>1, <1>2, TypeCorrect, PTL DEF Spec

\* Nothing gets onto the system under a license the client has not agreed to.
THEOREM LicensesAgreed ==
  ASSUME Trusted
  PROVE  Spec => []EveryLicenseAgreed
<1>1. GateInv => EveryLicenseAgreed
  BY DEF GateInv
<1>2. QED BY <1>1, GateInvCorrect, PTL

=============================================================================

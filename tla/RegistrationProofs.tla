------------------------- MODULE RegistrationProofs -------------------------
(***************************************************************************)
(* What Register() and the dispatch of a call promise for every directory   *)
(* of worker binaries.  The descriptors seen so far are the invariant's     *)
(* subject: what is registered is what they offer this user, each name by   *)
(* one of them.  It says so only while no binary was replaced; after that   *)
(* the tools' own root check is all there is.                               *)
(***************************************************************************)
EXTENDS Registration, Integers, TLAPS

\* The descriptors Register() has looked at.
Seen == {d \in Descriptors :
           /\ d[1] \notin binaries
           /\ phase = "adding" /\ d[1] = binary =>
                d[2] + Len(pending) <= Len(dir[binary].offers)}

\* The tools still to be looked at are the rest of what the binary offers.
Listed ==
  /\ binary \in Workers(dir) /\ binary \notin binaries
  /\ dir[binary].offers # Broken
  /\ pending \in Seq(Tools) /\ Len(pending) <= Len(dir[binary].offers)
  /\ \A i \in 1..Len(pending) :
       pending[i] = dir[binary].offers[(Len(dir[binary].offers) - Len(pending)) + i]

\* The name is registered for what this descriptor offers.
Source(d, n) ==
  ~Gated(Of(d)) /\ Of(d).name = n /\ dir[d[1]].file = registered[n].file

Matches ==
  /\ \A d \in Seen : ~Gated(Of(d)) => Of(d).name \in DOMAIN registered
  /\ \A n \in DOMAIN registered : \E d \in Seen : Source(d, n)
  /\ \A d, e \in Seen : ~Gated(Of(d)) /\ ~Gated(Of(e)) /\ Of(d).name = Of(e).name => d = e

Started ==
  /\ dir \in Directories
  /\ binaries \subseteq Workers(dir)
  /\ phase = "start" => registered = <<>>
  /\ phase = "adding" => Listed
  /\ phase = "serving" => binaries = {}
  /\ phase \in {"listing", "adding", "serving"} => Matches
  /\ call # NoCall => call.outcome = "ran"

RegInv ==
  /\ replacements \in Nat
  /\ OnlyRootRunsRootTools
  /\ Untouched => Started

-----------------------------------------------------------------------------
(* The directory.                                                          *)

LEMMA DirectoryIs ==
  ASSUME NEW d \in Directories
  PROVE  /\ d \in Seq(EntryType)
         /\ \A k, m \in 1..Len(d) : d[k].file = d[m].file => k = m
         /\ \A k \in 1..Len(d) : d[k].offers # Broken =>
              /\ d[k].offers \in Seq(Tools)
              /\ Len(d[k].offers) <= MaxOffers
              /\ \A i, j \in 1..Len(d[k].offers) :
                   d[k].offers[i].name = d[k].offers[j].name
                     => d[k].offers[i].root = d[k].offers[j].root
  <1>1. d \in Seq(EntryType)
    BY DirectoriesAssumption
  <1>2. \A k \in 1..Len(d) : d[k] \in EntryType
    BY <1>1
  <1>3. \A k \in 1..Len(d) : d[k].offers # Broken => d[k].offers \in Seq(Tools)
    BY <1>2 DEF EntryType
  <1>4. QED
    BY <1>1, <1>3, DirectoriesAssumption

\* A descriptor is one of the offers of a worker binary.
LEMMA DescriptorIs ==
  ASSUME dir \in Directories, NEW d \in Descriptors
  PROVE  /\ d[1] \in Workers(dir) /\ d[1] \in 1..Len(dir) /\ d = <<d[1], d[2]>>
         /\ dir[d[1]].offers # Broken /\ dir[d[1]].offers \in Seq(Tools)
         /\ d[2] \in 1..Len(dir[d[1]].offers)
         /\ Of(d) \in Tools
  <1>1. d[1] \in Workers(dir) /\ d[2] \in 1..MaxOffers /\ d = <<d[1], d[2]>>
    BY DEF Descriptors
  <1>2. dir[d[1]].offers # Broken /\ d[2] <= Len(dir[d[1]].offers)
    BY DEF Descriptors
  <1>3. d[1] \in 1..Len(dir)
    BY <1>1 DEF Workers
  <1>4. dir[d[1]].offers \in Seq(Tools)
    BY <1>2, <1>3, DirectoryIs
  <1>5. PICK q \in Seq(Tools), j \in 1..MaxOffers : q = dir[d[1]].offers /\ j = d[2]
    BY <1>1, <1>4
  <1>6. j \in 1..Len(q) /\ q[j] \in Tools
    BY <1>2, <1>5, BoundAssumption
  <1>7. QED
    BY <1>1, <1>2, <1>3, <1>4, <1>5, <1>6 DEF Of

-----------------------------------------------------------------------------
(* The loop over the tools of one binary.                                  *)

\* The descriptor at the head of the list.
NextUp == <<binary, (Len(dir[binary].offers) - Len(pending)) + 1>>

LEMMA OneMoreSeen ==
  ASSUME dir \in Directories, phase = "adding", Listed, pending # <<>>,
         pending' = Tail(pending), UNCHANGED <<dir, phase, binaries, binary>>
  PROVE  /\ NextUp \in Descriptors /\ NextUp \notin Seen /\ Of(NextUp) = Head(pending)
         /\ Seen' = Seen \union {NextUp}
         /\ Listed'
  <1>1. /\ binary \in 1..Len(dir) /\ dir[binary].offers \in Seq(Tools)
        /\ Len(dir[binary].offers) <= MaxOffers
    BY DirectoryIs DEF Listed, Workers
  <1>2. PICK q \in Seq(Tools), p \in Seq(Tools), n \in Nat, m \in Nat :
          /\ q = dir[binary].offers /\ p = pending
          /\ n = Len(q) /\ m = Len(p)
    BY <1>1 DEF Listed
  <1>3. /\ m <= n /\ n <= MaxOffers /\ m > 0
        /\ \A i \in 1..m : p[i] = q[(n - m) + i]
    BY <1>1, <1>2 DEF Listed
  <1>4. PICK t \in Seq(Tools) :
          /\ t = Tail(p) /\ Len(t) = m - 1
          /\ \A i \in 1..m - 1 : t[i] = p[i + 1]
    <2>1. p \in Seq(Tools) /\ p # <<>> /\ Len(p) = m
      BY <1>2, <1>3
    <2> DEFINE t == Tail(p)
    <2>2. t \in Seq(Tools) /\ Len(t) = m - 1
      BY <2>1
    <2>3. \A i \in 1..m - 1 : t[i] = p[i + 1]
      BY <2>1
    <2> HIDE DEF t
    <2>4. QED
      BY <2>2, <2>3 DEF t
  <1>5. NextUp = <<binary, (n - m) + 1>>
    BY <1>2 DEF NextUp
  <1>6. NextUp \in Descriptors
    <2>1. (n - m) + 1 \in 1..MaxOffers /\ (n - m) + 1 <= n
      BY <1>3, BoundAssumption
    <2>2. QED
      BY <1>2, <1>5, <2>1 DEF Descriptors, Listed
  <1>7. Of(NextUp) = Head(pending)
    <2>1. 1 \in 1..m /\ Head(p) = p[1]
      BY <1>2, <1>3
    <2>2. p[1] = q[(n - m) + 1]
      BY <1>3, <2>1
    <2>3. QED
      BY <1>2, <1>5, <2>1, <2>2 DEF Of
  <1>8. NextUp \notin Seen
    BY <1>2, <1>3, <1>5 DEF Seen
  <1>9. Descriptors' = Descriptors
    BY DEF Descriptors, Workers
  <1>10. ASSUME NEW d \in Descriptors
         PROVE  d \in Seen' <=> d \in Seen \/ d = NextUp
    <2>1. d[2] \in Nat /\ d = <<d[1], d[2]>>
      BY BoundAssumption DEF Descriptors
    <2>2. Len(pending') = m - 1
      BY <1>2, <1>4
    <2>3. CASE d[1] = binary
      <3>1. d \in Seen <=> d[2] + m <= n
        BY <1>2, <2>3 DEF Seen, Listed
      <3>2. d \in Seen' <=> d[2] + (m - 1) <= n
        BY <1>2, <1>9, <2>2, <2>3 DEF Seen, Listed
      <3>3. d = NextUp <=> d[2] = (n - m) + 1
        BY <1>5, <2>1, <2>3
      <3>4. QED
        <4>1. PICK x \in Nat : x = d[2]
          BY <2>1
        <4>2. n \in Nat /\ m \in Nat
          BY <1>2
        <4>3. x + (m - 1) <= n <=> x + m <= n \/ x = (n - m) + 1
          BY <4>1, <4>2
        <4>4. QED
          BY <3>1, <3>2, <3>3, <4>1, <4>3
    <2>4. CASE d[1] # binary
      <3>1. d \in Seen <=> d \in Seen'
        BY <1>9, <2>4 DEF Seen
      <3>2. d # NextUp
        BY <1>5, <2>4
      <3>3. QED
        BY <3>1, <3>2
    <2>5. QED
      BY <2>3, <2>4
  <1>11. Seen' = Seen \union {NextUp}
    BY <1>6, <1>9, <1>10 DEF Seen
  <1>12. Listed'
    <2>1. ASSUME NEW i \in 1..m - 1 PROVE t[i] = q[(n - (m - 1)) + i]
      <3>1. i + 1 \in 1..m
        BY <1>2, <1>3
      <3>2. t[i] = q[(n - m) + (i + 1)]
        BY <1>3, <1>4, <3>1
      <3>3. (n - m) + (i + 1) = (n - (m - 1)) + i
        <4>1. n \in Int /\ m \in Int /\ i \in Int
          BY <1>2
        <4>2. QED
          BY <4>1
      <3>4. QED
        BY <3>2, <3>3
    <2>2. m - 1 <= n
      BY <1>2, <1>3
    <2>3. QED
      BY <1>2, <1>4, <2>1, <2>2 DEF Listed, Workers
  <1>13. QED
    BY <1>6, <1>7, <1>8, <1>11, <1>12

-----------------------------------------------------------------------------
(* The steps of the start-up, while no binary is replaced.                  *)

\* Nothing of what a descriptor is changes as long as the directory does not.
LEMMA SameDirectory ==
  ASSUME UNCHANGED <<dir, isRoot>>
  PROVE  /\ Descriptors' = Descriptors /\ Workers(dir)' = Workers(dir)
         /\ \A d : Of(d)' = Of(d)
         /\ \A td : Gated(td)' = Gated(td)
  BY DEF Descriptors, Workers, Of, Gated

LEMMA SameMatches ==
  ASSUME Matches, Seen' = Seen, UNCHANGED <<dir, isRoot, registered>>
  PROVE  Matches'
  BY SameDirectory DEF Matches, Source

LEMMA DiscoverStep ==
  ASSUME Started, Discover
  PROVE  Started'
  <1> USE DEF Discover, envVars, Started
  <1>1. binaries' \subseteq Workers(dir)' /\ UNCHANGED dir
    BY SameDirectory
  <1>2. Seen' = {}
    <2>1. \A d \in Descriptors' : d[1] \in binaries'
      BY SameDirectory DEF Descriptors
    <2>2. QED
      BY <2>1 DEF Seen
  <1>3. DOMAIN registered' = {}
    BY DEF Started
  <1>4. Matches'
    BY <1>2, <1>3 DEF Matches
  <1>5. QED
    BY <1>1, <1>4

LEMMA ListToolsStep ==
  ASSUME Started, ListTools
  PROVE  Started'
  <1> USE DEF ListTools, envVars
  <1>1. PICK b \in binaries : b = binary'
    OBVIOUS
  <1>2. b \in Workers(dir) /\ b \in 1..Len(dir) /\ dir \in Directories
    BY <1>1 DEF Started, Workers
  <1>3. CASE dir[b].offers = Broken
    BY <1>1, <1>3, SameDirectory DEF Started
  <1>4. CASE dir[b].offers # Broken
    <2>1. dir[b].offers \in Seq(Tools)
      BY <1>2, <1>4, DirectoryIs
    <2>2. PICK q \in Seq(Tools), n \in Nat : q = dir[b].offers /\ n = Len(q)
      BY <2>1
    <2>3. pending' = q /\ phase' = "adding" /\ binaries' = binaries \ {b}
      BY <1>1, <1>4, <2>2
    <2>4. Listed'
      <3>1. n <= n /\ \A i \in 1..n : q[i] = q[(n - n) + i]
        BY <2>2
      <3>2. QED
        BY <1>1, <1>2, <1>4, <2>2, <2>3, <3>1, SameDirectory DEF Listed
    <2>5. ASSUME NEW d \in Descriptors PROVE d \in Seen' <=> d \in Seen
      <3>1. d[2] \in 1..MaxOffers
        BY DEF Descriptors
      <3>2. CASE d[1] = b
        <4>1. d \notin Seen
          BY <1>1, <3>2 DEF Seen
        <4>2. ~(d[2] + n <= n)
          BY <2>2, <3>1, BoundAssumption
        <4>3. d \notin Seen'
          BY <1>1, <2>2, <2>3, <3>2, <4>2 DEF Seen
        <4>4. QED
          BY <4>1, <4>3
      <3>3. CASE d[1] # b
        BY <1>1, <2>3, <3>3, SameDirectory DEF Seen
      <3>4. QED
        BY <3>2, <3>3
    <2>6. Seen' = Seen
      BY <2>5, SameDirectory DEF Seen
    <2>7. Matches'
      BY <2>6, SameMatches DEF Started
    <2>8. QED
      BY <2>3, <2>4, <2>7, SameDirectory DEF Started
  <1>5. QED
    BY <1>3, <1>4

LEMMA NextBinaryStep ==
  ASSUME Started, NextBinary
  PROVE  Started'
  <1> USE DEF NextBinary, envVars
  <1>1. ASSUME NEW d \in Descriptors PROVE d \in Seen' <=> d \in Seen
    <2>1. d[2] \in Nat /\ d[2] <= Len(dir[d[1]].offers) /\ Len(pending) = 0
      BY BoundAssumption DEF Descriptors
    <2>2. d[2] + Len(pending) = d[2]
      BY <2>1
    <2>3. QED
      BY <2>1, <2>2, SameDirectory DEF Seen
  <1>2. Seen' = Seen
    BY <1>1, SameDirectory DEF Seen
  <1>3. QED
    BY <1>2, SameDirectory, SameMatches DEF Started

LEMMA EndStep ==
  ASSUME Started, EndRegister \/ Duplicate
  PROVE  Started'
  <1> USE DEF EndRegister, Duplicate, envVars
  <1>1. CASE phase' = "failed"
    BY <1>1, SameDirectory DEF Started
  <1>2. CASE phase' # "failed"
    <2>1. phase = "listing" /\ phase' = "serving" /\ binaries' = {}
      BY <1>2
    <2>2. Seen' = Seen
      BY <2>1, SameDirectory DEF Seen
    <2>3. QED
      BY <2>1, <2>2, SameDirectory, SameMatches DEF Started
  <1>3. QED
    BY <1>1, <1>2

LEMMA SkipStep ==
  ASSUME Started, SkipRootOnly
  PROVE  Started'
  <1> USE DEF SkipRootOnly, envVars
  <1>1. /\ NextUp \in Descriptors /\ NextUp \notin Seen /\ Of(NextUp) = Head(pending)
        /\ Seen' = Seen \union {NextUp} /\ Listed'
    BY OneMoreSeen DEF Started
  <1>2. Gated(Of(NextUp))
    BY <1>1
  <1>3. Matches'
    <2>1. PICK seen, new : seen = Seen /\ new = NextUp /\ Seen' = seen \union {new}
      BY <1>1
    <2>2. Gated(Of(new))
      BY <1>2, <2>1
    <2>3. Matches
      BY DEF Started
    <2>4. QED
      BY <2>1, <2>2, <2>3, SameDirectory DEF Matches, Source
  <1>4. QED
    BY <1>1, <1>3, SameDirectory DEF Started

LEMMA AddStep ==
  ASSUME Started, AddTool
  PROVE  Started'
  <1> USE DEF AddTool, envVars
  <1>1. /\ NextUp \in Descriptors /\ NextUp \notin Seen /\ Of(NextUp) = Head(pending)
        /\ Seen' = Seen \union {NextUp} /\ Listed'
    BY OneMoreSeen DEF Started
  <1>2. PICK seen, new, td : /\ seen = Seen /\ new = NextUp /\ td = Head(pending)
                             /\ Seen' = seen \union {new}
    BY <1>1
  <1>3. ~Gated(Of(new)) /\ Of(new) = td /\ new[1] = binary
    BY <1>1, <1>2 DEF NextUp
  <1>4. /\ DOMAIN registered' = {td.name} \union DOMAIN registered
        /\ td.name \notin DOMAIN registered
        /\ registered'[td.name].file = dir[binary].file
        /\ \A n \in DOMAIN registered : registered'[n] = registered[n]
    BY <1>2 DEF Added
  <1>5. Matches
    BY DEF Started
  <1>6. \A d \in Seen' : ~Gated(Of(d)) => Of(d).name \in DOMAIN registered'
    BY <1>2, <1>3, <1>4, <1>5 DEF Matches
  <1>7. \A n \in DOMAIN registered' : \E d \in Seen' : Source(d, n)'
    <2>1. Source(new, td.name)'
      BY <1>3, <1>4, SameDirectory DEF Source
    <2>2. ASSUME NEW n \in DOMAIN registered PROVE \E d \in seen : Source(d, n)'
      <3>1. PICK d \in seen : Source(d, n)
        BY <1>2, <1>5, <2>2 DEF Matches
      <3>2. Source(d, n)'
        BY <1>4, <2>2, <3>1, SameDirectory DEF Source
      <3>3. QED
        BY <3>2
    <2>3. QED
      BY <1>2, <1>4, <2>1, <2>2
  <1>8. \A d, e \in Seen' : ~Gated(Of(d)) /\ ~Gated(Of(e)) /\ Of(d).name = Of(e).name => d = e
    <2>1. \A d \in seen : ~Gated(Of(d)) => Of(d).name # td.name
      BY <1>2, <1>4, <1>5 DEF Matches
    <2>2. QED
      BY <1>2, <1>3, <1>5, <2>1 DEF Matches
  <1>9. Matches'
    BY <1>6, <1>7, <1>8, SameDirectory DEF Matches
  <1>10. QED
    BY <1>1, <1>9, SameDirectory DEF Started

-----------------------------------------------------------------------------
(* Calls.                                                                  *)

\* The tools of the entry a call goes to are looked up by the file name alone.
LEMMA CallStep ==
  ASSUME Started, NEW tool \in DOMAIN registered, Call(tool)
  PROVE  Started'
  <1> USE DEF Call
  <1>1. dir \in Directories /\ Matches
    BY DEF Started
  <1>2. PICK d \in Seen : Source(d, tool)
    BY <1>1 DEF Matches
  <1>3. d \in Descriptors
    BY DEF Seen
  <1>4. PICK k, j : k = d[1] /\ j = d[2]
    OBVIOUS
  <1>5. /\ k \in 1..Len(dir) /\ dir[k].offers # Broken /\ dir[k].offers \in Seq(Tools)
        /\ j \in 1..Len(dir[k].offers)
        /\ dir[k].file = registered[tool].file
        /\ dir[k].offers[j].name = tool /\ ~Gated(dir[k].offers[j])
    BY <1>1, <1>2, <1>3, <1>4, DescriptorIs DEF Source, Of
  <1>6. Entry(registered[tool].file) = k
    <2>1. DOMAIN dir = 1..Len(dir)
      BY <1>1, DirectoryIs
    <2>2. \A m \in DOMAIN dir : dir[m].file = registered[tool].file => m = k
      BY <1>1, <1>5, <2>1, DirectoryIs
    <2>3. QED
      BY <1>5, <2>1, <2>2 DEF Entry
  <1>7. PICK e : e = dir[k]
    OBVIOUS
  <1>8. DOMAIN e.offers = 1..Len(e.offers)
    BY <1>5, <1>7
  <1>9. Offers(e, tool)
    BY <1>5, <1>7, <1>8 DEF Offers
  <1>10. NeedsRoot(e, tool) => isRoot
    <2>1. ASSUME NeedsRoot(e, tool) PROVE isRoot
      <3>1. PICK i \in 1..Len(e.offers) : e.offers[i] = [name |-> tool, root |-> TRUE]
        BY <1>8, <2>1 DEF NeedsRoot, ToSet
      <3>2. \A a, b \in 1..Len(e.offers) :
              e.offers[a].name = e.offers[b].name => e.offers[a].root = e.offers[b].root
        <4>1. \A a, b \in 1..Len(dir[k].offers) :
                dir[k].offers[a].name = dir[k].offers[b].name
                  => dir[k].offers[a].root = dir[k].offers[b].root
          BY <1>1, <1>5, DirectoryIs
        <4>2. QED
          BY <1>7, <4>1
      <3>3. e.offers[i].name = tool /\ e.offers[i].root = TRUE
        BY <3>1
      <3>4. e.offers[j].root = TRUE
        BY <1>5, <1>7, <3>2, <3>3
      <3>5. ~(e.offers[j].root /\ ~isRoot)
        BY <1>5, <1>7 DEF Gated
      <3>6. QED
        BY <3>4, <3>5
    <2>2. QED
      BY <2>1
  <1>11. Outcome(e, tool) = "ran"
    BY <1>5, <1>7, <1>9, <1>10 DEF Outcome
  <1>12. call'.outcome = "ran"
    BY <1>6, <1>7, <1>11
  <1>13. Seen' = Seen
    BY SameDirectory DEF Seen
  <1>14. Matches'
    BY <1>1, <1>13, SameMatches
  <1>15. QED
    BY <1>12, <1>14, SameDirectory DEF Started

\* No tool that needs root runs for anybody else, whatever was replaced.
LEMMA RootStep ==
  ASSUME OnlyRootRunsRootTools, [Next]_vars
  PROVE  OnlyRootRunsRootTools'
  <1>1. CASE UNCHANGED <<call, isRoot>>
    BY <1>1 DEF OnlyRootRunsRootTools
  <1>2. ASSUME NEW tool, Call(tool) PROVE OnlyRootRunsRootTools'
    <2>1. PICK e : /\ call'.outcome = Outcome(e, tool)
                   /\ call'.needsRoot = NeedsRoot(e, tool)
      BY <1>2 DEF Call
    <2>2. isRoot' = isRoot
      BY <1>2 DEF Call
    <2>3. Outcome(e, tool) = "ran" => ~(NeedsRoot(e, tool) /\ ~isRoot)
      BY DEF Outcome
    <2>4. QED
      BY <2>1, <2>2, <2>3 DEF OnlyRootRunsRootTools
  <1>3. QED
    BY <1>1, <1>2 DEF Next, vars, envVars, Discover, ListTools, NextBinary,
       SkipRootOnly, Duplicate, AddTool, EndRegister, Replace

-----------------------------------------------------------------------------
(* The inductive invariant.                                                *)

LEMMA RegStep == RegInv /\ [Next]_vars => RegInv'
  <1> SUFFICES ASSUME RegInv, [Next]_vars PROVE RegInv'
    OBVIOUS
  <1>1. OnlyRootRunsRootTools'
    BY RootStep DEF RegInv
  <1>2. CASE \E k \in DOMAIN dir, offers \in Replacements : Replace(k, offers)
    <2>1. replacements' = replacements + 1 /\ replacements \in Nat
      BY <1>2 DEF Replace, RegInv
    <2>2. QED
      BY <1>1, <2>1 DEF RegInv, Untouched
  <1>3. CASE UNCHANGED replacements
    <2>1. SUFFICES ASSUME Untouched, Started PROVE Started'
      BY <1>1, <1>3 DEF RegInv, Untouched
    <2>2. CASE UNCHANGED vars
      <3>1. Seen' = Seen
        BY <2>2, SameDirectory DEF Seen, vars
      <3>2. Listed <=> Listed'
        BY <2>2, SameDirectory DEF Listed, vars
      <3>3. QED
        BY <2>1, <2>2, <3>1, <3>2, SameDirectory, SameMatches DEF Started, vars
    <2>3. CASE \E k \in DOMAIN dir, offers \in Replacements : Replace(k, offers)
      <3>1. replacements' = replacements + 1 /\ replacements \in Nat
        BY <2>3 DEF Replace, RegInv
      <3>2. QED
        BY <1>3, <3>1
    <2>4. QED
      BY <2>1, <2>2, <2>3, DiscoverStep, ListToolsStep, NextBinaryStep, EndStep,
         SkipStep, AddStep, CallStep DEF Next
  <1>4. QED
    BY <1>2, <1>3 DEF Next, vars, envVars, Discover, ListTools, NextBinary,
       SkipRootOnly, Duplicate, AddTool, EndRegister, Call

LEMMA RegInit == Init => RegInv
  BY DEF Init, RegInv, Started, OnlyRootRunsRootTools, NoCall, Untouched

\* The inductive invariant: while no binary was replaced, what is registered is
\* what the descriptors seen so far offer this user.
THEOREM RegInductive == Spec => []RegInv
  <1>1. QED
    BY RegInit, RegStep, PTL DEF Spec

\* A proxy that serves has one binary for every tool of every worker its user
\* may call, and nothing else (Register and discoverWorkers, tools.go:63-147).
THEOREM ServesEveryTool == Spec => []EveryToolIsServed
  <1>1. ASSUME RegInv PROVE EveryToolIsServed
    <2> SUFFICES ASSUME phase = "serving", Untouched
                 PROVE  EveryToolIsServed
      BY DEF EveryToolIsServed, ServedAreTheAllowed, NamesAreUnambiguous
    <2>1. Matches /\ binaries = {}
      BY <1>1 DEF RegInv, Started
    <2>2. Seen = Descriptors
      BY <2>1 DEF Seen
    <2>3. NamesAreUnambiguous
      BY <2>1, <2>2 DEF NamesAreUnambiguous, Matches
    <2>4. ServedAreTheAllowed
      <3> DEFINE allowed == {Of(d).name : d \in {e \in Descriptors : ~Gated(Of(e))}}
      <3>1. ASSUME NEW n \in DOMAIN registered
            PROVE  /\ n \in allowed
                   /\ \E d \in Descriptors :
                        Of(d).name = n /\ dir[d[1]].file = registered[n].file
        <4>1. PICK d \in Descriptors : Source(d, n)
          BY <2>1, <2>2, <3>1 DEF Matches
        <4>2. QED
          BY <4>1 DEF Source
      <3>2. allowed \subseteq DOMAIN registered
        BY <2>1, <2>2 DEF Matches
      <3>3. DOMAIN registered = allowed
        BY <3>1, <3>2
      <3> HIDE DEF allowed
      <3>4. QED
        BY <3>1, <3>3 DEF ServedAreTheAllowed, allowed
    <2>5. QED
      BY <2>3, <2>4 DEF EveryToolIsServed
  <1>2. QED
    BY <1>1, RegInductive, PTL

\* What the root gate of the start-up lets through no tool denies, and what a
\* replaced binary smuggles past the gate the tool's own check stops (tools.go:84,
\* confirm_install.cc:51).
THEOREM GateIsExact == Spec => []RootGateIsExact
  <1>1. RegInv => RootGateIsExact
    BY DEF RegInv, Started, RootGateIsExact, CallsArrive
  <1>2. QED
    BY <1>1, RegInductive, PTL
=============================================================================

---------------------------- MODULE Registration ----------------------------
(***************************************************************************)
(* How a tool gets from a worker binary to a client: Register and           *)
(* discoverWorkers (proxy, tools.go) at start-up, worker.ListTools and the   *)
(* worker's --list-tools, and later the dispatch of a call by the worker's   *)
(* main(), which knows nothing of what was registered.                      *)
(*                                                                         *)
(* The directory is read in the order of its names; a worker binary may be   *)
(* replaced at any time, by an update of the program itself for instance.   *)
(***************************************************************************)
EXTENDS Naturals, Sequences, FiniteSets, SequencesExt

CONSTANTS
    Directories,    \* contents of the worker directory, in the order of the names
    Replacements,   \* what a binary may offer after it was replaced
    Broken,         \* what a binary offers whose --list-tools fails
    MaxReplacements,\* bound: how often a binary is replaced
    MaxOffers       \* bound: tools of one binary

(* An entry has a file name, says whether it looks like a worker, and offers *)
(* a sequence of tools [name, root], or Broken.                             *)

VARIABLES
    dir,            \* the entries now
    isRoot,         \* uid of the proxy is 0
    phase,          \* "start", "listing", "adding", "serving" or "failed"
    binaries,       \* indices of the binaries not yet asked
    binary,         \* the index of the binary that is asked
    pending,        \* descriptors of the current binary not yet looked at
    registered,     \* tool name -> [file, root]; added to the MCP server as well
    replacements,
    call            \* the last call: [tool, outcome, needsRoot]

vars == <<dir, isRoot, phase, binaries, binary, pending, registered, replacements, call>>
envVars == <<isRoot, replacements, call>>

ASSUME BoundAssumption == MaxReplacements \in Nat /\ MaxOffers \in Nat

\* A directory has no name twice; a worker's registry has no name both with and
\* without root (kRegistry in main.cc names every tool once).
Tools == [name : STRING, root : BOOLEAN]
EntryType == [file : STRING, isDir : BOOLEAN, prefixed : BOOLEAN, tests : BOOLEAN,
              executable : BOOLEAN, offers : {Broken} \cup Seq(Tools)]
ASSUME DirectoriesAssumption == \A d \in Directories :
    /\ d \in Seq(EntryType)
    /\ \A k, m \in 1..Len(d) : d[k].file = d[m].file => k = m
    /\ \A k \in 1..Len(d) : d[k].offers # Broken =>
            /\ Len(d[k].offers) <= MaxOffers
            /\ \A i, j \in 1..Len(d[k].offers) :
                    d[k].offers[i].name = d[k].offers[j].name
                        => d[k].offers[i].root = d[k].offers[j].root

-----------------------------------------------------------------------------
(* discoverWorkers *)

IsWorker(e) == ~e.isDir /\ e.prefixed /\ ~e.tests /\ e.executable

Workers(d) == {k \in 1..Len(d) : IsWorker(d[k])}

Discover ==
    /\ phase = "start"
    /\ binaries' = Workers(dir)
    /\ phase' = IF binaries' = {} THEN "failed" ELSE "listing"
    /\ UNCHANGED <<dir, binary, pending, registered>> /\ UNCHANGED envVars

(* Register *)

\* The binaries are asked in the order of their names.  One that cannot list its
\* tools ends the start-up, whatever was added.
ListTools ==
    /\ phase = "listing"
    /\ binary' \in {k \in binaries : \A m \in binaries : k <= m}
    /\ binaries' = binaries \ {binary'}
    /\ IF dir[binary'].offers = Broken
       THEN phase' = "failed" /\ UNCHANGED pending
       ELSE phase' = "adding" /\ pending' = dir[binary'].offers
    /\ UNCHANGED <<dir, registered>> /\ UNCHANGED envVars

NextBinary ==
    /\ phase = "adding" /\ pending = <<>>
    /\ phase' = "listing"
    /\ UNCHANGED <<dir, binaries, binary, pending, registered>> /\ UNCHANGED envVars

Gated(td) == td.root /\ ~isRoot

\* Fault: break where the loop says continue.
SkipAfterRootOnly ==
    /\ phase = "adding" /\ pending # <<>> /\ Gated(Head(pending))
    /\ pending' = <<>>
    /\ UNCHANGED <<dir, phase, binaries, binary, registered>> /\ UNCHANGED envVars

SkipRootOnly ==
    /\ phase = "adding" /\ pending # <<>> /\ Gated(Head(pending))
    /\ pending' = Tail(pending)
    /\ UNCHANGED <<dir, phase, binaries, binary, registered>> /\ UNCHANGED envVars

Duplicate ==
    /\ phase = "adding" /\ pending # <<>> /\ ~Gated(Head(pending))
    /\ Head(pending).name \in DOMAIN registered
    /\ phase' = "failed"
    /\ UNCHANGED <<dir, binaries, binary, pending, registered>> /\ UNCHANGED envVars

Added(td) == [n \in {td.name} \cup DOMAIN registered |->
                IF n = td.name THEN [file |-> dir[binary].file, root |-> td.root] ELSE registered[n]]

\* Fault: the root gate is not looked at.
AddToolUngated ==
    /\ phase = "adding" /\ pending # <<>>
    /\ Head(pending).name \notin DOMAIN registered
    /\ registered' = Added(Head(pending)) /\ pending' = Tail(pending)
    /\ UNCHANGED <<dir, phase, binaries, binary>> /\ UNCHANGED envVars

AddTool ==
    /\ phase = "adding" /\ pending # <<>> /\ ~Gated(Head(pending))
    /\ Head(pending).name \notin DOMAIN registered
    /\ registered' = Added(Head(pending)) /\ pending' = Tail(pending)
    /\ UNCHANGED <<dir, phase, binaries, binary>> /\ UNCHANGED envVars

EndRegister ==
    /\ phase = "listing" /\ binaries = {}
    /\ phase' = IF DOMAIN registered = {} THEN "failed" ELSE "serving"
    /\ UNCHANGED <<dir, binaries, binary, pending, registered>> /\ UNCHANGED envVars

-----------------------------------------------------------------------------
(* Calls and the world around *)

Entry(file) == CHOOSE k \in DOMAIN dir : dir[k].file = file
Offers(e, tool) == e.offers # Broken /\ \E k \in DOMAIN e.offers : e.offers[k].name = tool
NeedsRoot(e, tool) == e.offers # Broken /\ [name |-> tool, root |-> TRUE] \in ToSet(e.offers)

\* Fault: the tool relies on the proxy to hide it from other users.
OutcomeByTheProxy(e, tool) ==
    IF e.offers = Broken THEN "no process"
    ELSE IF ~Offers(e, tool) THEN "UNKNOWN_TOOL"
    ELSE "ran"

\* main(): the tool runs, or is unknown; a broken binary does not even start.
\* A tool that needs root looks for itself.
Outcome(e, tool) ==
    IF e.offers = Broken THEN "no process"
    ELSE IF ~Offers(e, tool) THEN "UNKNOWN_TOOL"
    ELSE IF NeedsRoot(e, tool) /\ ~isRoot THEN "PERMISSION_DENIED"
    ELSE "ran"

Call(tool) ==
    /\ phase = "serving" /\ tool \in DOMAIN registered
    /\ LET e == dir[Entry(registered[tool].file)] IN
       call' = [tool |-> tool, outcome |-> Outcome(e, tool), needsRoot |-> NeedsRoot(e, tool)]
    /\ UNCHANGED <<dir, isRoot, phase, binaries, binary, pending, registered, replacements>>

Replace(k, offers) ==
    /\ replacements < MaxReplacements /\ dir[k].offers # offers /\ IsWorker(dir[k])
    /\ dir' = [dir EXCEPT ![k].offers = offers] /\ replacements' = replacements + 1
    /\ UNCHANGED <<isRoot, phase, binaries, binary, pending, registered, call>>

NoCall == [tool |-> "none", outcome |-> "none", needsRoot |-> FALSE]
Init ==
    /\ dir \in Directories /\ isRoot \in BOOLEAN /\ phase = "start"
    /\ binaries = {} /\ binary = 0 /\ pending = <<>> /\ registered = <<>>
    /\ replacements = 0 /\ call = NoCall

Next ==
    \/ Discover \/ ListTools \/ NextBinary \/ SkipRootOnly \/ Duplicate \/ AddTool \/ EndRegister
    \/ \E tool \in DOMAIN registered : Call(tool)
    \/ \E k \in DOMAIN dir, offers \in Replacements : Replace(k, offers)

Spec == Init /\ [][Next]_vars

-----------------------------------------------------------------------------
\* every descriptor of every worker, by the binary and the position it stands at
Descriptors == {d \in Workers(dir) \X (1..MaxOffers) :
                    dir[d[1]].offers # Broken /\ d[2] <= Len(dir[d[1]].offers)}
Of(d) == dir[d[1]].offers[d[2]]
Untouched == replacements = 0

\* A proxy that serves offers every tool its user may call, of every worker
\* binary, under the binary that offers it, and nothing else.
ServedAreTheAllowed ==
    phase = "serving" /\ Untouched =>
        /\ DOMAIN registered = {Of(d).name : d \in {e \in Descriptors : ~Gated(Of(e))}}
        /\ \A n \in DOMAIN registered : \E d \in Descriptors :
                Of(d).name = n /\ dir[d[1]].file = registered[n].file

\* tools.go:61, "the LLM cannot disambiguate": no served name is offered twice to
\* this user, by two binaries or by one.
NamesAreUnambiguous ==
    phase = "serving" /\ Untouched =>
        \A d, e \in Descriptors : ~Gated(Of(d)) /\ ~Gated(Of(e)) /\ Of(d).name = Of(e).name => d = e

\* tools.go:63-111: a start that succeeds has one binary for every tool of every
\* worker this user may call.
EveryToolIsServed == ServedAreTheAllowed /\ NamesAreUnambiguous

\* A call of a served tool runs it, whoever the user is, as long as no binary was
\* replaced after the start; the worker's own checks find nothing the root gate
\* let through.
CallsArrive ==
    Untouched /\ call # NoCall => call.outcome = "ran"

\* The proxy looks at requires_root once, at start-up; the binary it runs later may
\* be another one. Still no tool that needs root runs for anybody else.
OnlyRootRunsRootTools ==
    call.outcome = "ran" /\ call.needsRoot => isRoot

\* The gate at start-up and the tool's own check agree: what the one lets through
\* the other never denies, and what a replacement smuggles past the one the other
\* stops.
RootGateIsExact == CallsArrive /\ OnlyRootRunsRootTools
=============================================================================

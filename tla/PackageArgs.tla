----------------------------- MODULE PackageArgs -----------------------------
(***************************************************************************)
(* PackageArgs (worker/src/solver/packageargs.cc): the command line form of *)
(* a request.  The constructor first compiles the argument strings, joining *)
(* the pieces of a comparison ("vim" ">=" "1" is one request, preprocess),  *)
(* and then sorts the compiled strings into what is wanted and what is not  *)
(* (dos and donts, argsToCaps).                                             *)
(*                                                                         *)
(* A string is a sequence of tokens: names, versions, comparison operators, *)
(* ":" "(" and the four modifiers.  The empty sequence is the empty string. *)
(* Capability::guessPackageSpec is outside the program; here two texts are  *)
(* the same capability when kind and tokens agree.                          *)
(***************************************************************************)
EXTENDS Naturals, Sequences, FiniteSets, SequencesExt

CONSTANTS
    Operators,      \* comparison operators
    EqOperators,    \* those of them that contain "="
    Aliases,        \* the known repository aliases, each a sequence of tokens
    Kinds,          \* the resolvable kinds; "package" is one of them
    Inputs          \* the argument lists a caller passes

ASSUME TokensAssumption == EqOperators \subseteq Operators
ASSUME KindsAssumption == "package" \in Kinds
ASSUME InputsAssumption == Inputs \subseteq Seq(Seq(STRING))
ASSUME AliasesAssumption == Aliases \subseteq Seq(STRING)

VARIABLES
    args,           \* the strings the caller passed
    kind,           \* the kind of the request
    doByDefault,    \* PackageArgs::Options
    i,              \* the next string to compile
    arg, op,        \* the string being put together; an operator waits for its right hand side
    stored,         \* what was put into _args, in that order (_args is its range)
    todo,           \* compiled strings argsToCaps has not seen
    dos, donts,     \* the two sets of specs
    phase           \* "compile", "sort", "parsed" or "thrown"

vars == <<args, kind, doByDefault, i, arg, op, stored, todo, dos, donts, phase>>
compileVars == <<i, arg, op, stored>>

InstallModifiers == {"+", "~"}
RemoveModifiers  == {"-", "!"}

\* The place of a string in the std::set _args, as far as it is known whatever
\* the names: '!' < '+' < '-' < names < '~'.
Rank(a) == CASE a[1] = "!" -> 1 [] a[1] = "+" -> 2 [] a[1] = "-" -> 3 [] a[1] = "~" -> 5
             [] OTHER -> 4

-----------------------------------------------------------------------------
(* preprocess *)

StandaloneOperator(a)  == Len(a) = 1 /\ a[1] \in Operators
\* find_last_of("=<>") == size() - 1, which is npos == npos for the empty string
EndsWithOperator(a)    == a # <<>> => Last(a) \in Operators
StartsWithOperator(a)  == a # <<>> /\ Head(a) \in Operators

\* storeIfNotEmpty
Stored(a) == IF a = <<>> THEN stored ELSE Append(stored, a)

Tmp == args[i]

\* Fault: off by one.
AtTheEdgeOffByOne == i = 1 \/ i = Len(args) - 1

AtTheEdge == i = 1 \/ i = Len(args)

Compiling == phase = "compile" /\ i <= Len(args)
NextString == i' = i + 1 /\ UNCHANGED <<args, kind, doByDefault, todo, dos, donts, phase>>

\* The right hand side of an operator completes the string.
JoinOperand ==
    /\ Compiling /\ op
    /\ stored' = Stored(arg \o Tmp) /\ arg' = <<>> /\ op' = FALSE
    /\ NextString

JoinOperator ==
    /\ Compiling /\ ~op /\ StandaloneOperator(Tmp) /\ ~AtTheEdge
    /\ arg' = arg \o Tmp /\ op' = TRUE
    /\ NextString /\ UNCHANGED stored

\* "zypper=" starts a string of its own and waits for the version
OpenOperator ==
    /\ Compiling /\ ~op /\ ~StandaloneOperator(Tmp)
    /\ EndsWithOperator(Tmp) /\ i < Len(args)
    /\ stored' = Stored(arg) /\ arg' = Tmp /\ op' = TRUE
    /\ NextString

\* ">=3.2.1" completes the string before it
JoinComparison ==
    /\ Compiling /\ ~op /\ ~StandaloneOperator(Tmp) /\ ~(EndsWithOperator(Tmp) /\ i < Len(args))
    /\ i > 1 /\ StartsWithOperator(Tmp)
    /\ stored' = Stored(arg \o Tmp) /\ arg' = <<>> /\ UNCHANGED op
    /\ NextString

\* Anything else starts a string.
StartString ==
    /\ Compiling /\ ~op
    /\ IF StandaloneOperator(Tmp)
       THEN AtTheEdge
       ELSE ~(EndsWithOperator(Tmp) /\ i < Len(args)) /\ ~(i > 1 /\ StartsWithOperator(Tmp))
    /\ stored' = Stored(arg) /\ arg' = Tmp /\ UNCHANGED op
    /\ NextString

EndCompile ==
    /\ phase = "compile" /\ i > Len(args)
    /\ stored' = Stored(arg) /\ arg' = <<>>
    /\ todo' = ToSet(stored') /\ phase' = "sort"
    /\ UNCHANGED <<args, kind, doByDefault, i, op, dos, donts>>

-----------------------------------------------------------------------------
(* argsToCaps *)

HasModifier(a) == a[1] \in InstallModifiers \cup RemoveModifiers
\* the string without its modifier
Unmodified(a)  == IF HasModifier(a) THEN Tail(a) ELSE a
Unwanted(a)    == \/ a[1] \in RemoveModifiers
                  \/ ~HasModifier(a) /\ ~doByDefault

\* Colons that may end a repo prefix: the ones before any "(" or "=".
RepoColons(a) == {p \in 1..Len(a) :
                    a[p] = ":" /\ \A q \in 1..p : a[q] # "(" /\ a[q] \notin EqOperators}
KnownPrefixes(a) == {p \in RepoColons(a) : SubSeq(a, 1, p - 1) \in Aliases}
\* Fault: the longest prefix wins.
RepoEndLongest(a) == IF KnownPrefixes(a) = {} THEN 0
                     ELSE CHOOSE p \in KnownPrefixes(a) : \A q \in KnownPrefixes(a) : p >= q

\* the shortest known prefix; 0 if there is none
RepoEnd(a) == IF KnownPrefixes(a) = {} THEN 0
              ELSE CHOOSE p \in KnownPrefixes(a) : \A q \in KnownPrefixes(a) : p <= q

Repo(a) == SubSeq(a, 1, RepoEnd(a) - 1)
Text(a) == SubSeq(a, RepoEnd(a) + 1, Len(a))

\* ResKind::explicitBuiltin, and the kind of the request prepended otherwise
HasKind(t) == Len(t) > 1 /\ t[1] \in Kinds /\ t[2] = ":"
Capability(t) == IF HasKind(t) THEN <<t[1]>> \o SubSeq(t, 3, Len(t)) ELSE <<kind>> \o t

\* The spec a compiled string stands for.
SpecOf(a) == LET u == Unmodified(a)
            IN [cap |-> Capability(Text(u)), repo |-> Repo(u)]
\* std::set with PackageSpecCompare: one spec per capability, the first one stays
Has(set, s)    == \E t \in set : t.cap = s.cap
Insert(set, s) == IF Has(set, s) THEN set ELSE set \cup {s}
Erase(set, s)  == {t \in set : t.cap # s.cap}

\* A modifier without a name, or an option given as a package name.
Misplaced(a) == \/ HasModifier(a) /\ Len(a) = 1
                \/ LET t == Text(Unmodified(a)) IN t # <<>> /\ t[1] = "-"

\* The strings that may be next in the order of the set.
First == {a \in todo : \A b \in todo : Rank(a) <= Rank(b)}

Reject(a) ==
    /\ phase = "sort" /\ a \in First /\ Misplaced(a)
    /\ phase' = "thrown"
    /\ UNCHANGED <<args, kind, doByDefault, todo, dos, donts>> /\ UNCHANGED compileVars

\* Fault: a contradicted spec is only looked for on its own side.
SortKeepingBoth(a) ==
    /\ phase = "sort" /\ a \in First /\ ~Misplaced(a)
    /\ todo' = todo \ {a}
    /\ IF Unwanted(a)
       THEN donts' = Insert(donts, SpecOf(a)) /\ UNCHANGED dos
       ELSE dos' = Insert(dos, SpecOf(a)) /\ UNCHANGED donts
    /\ UNCHANGED <<args, kind, doByDefault, phase>> /\ UNCHANGED compileVars

\* Fault: the two sides are swapped for a string without a modifier.
SortSwapped(a) ==
    /\ phase = "sort" /\ a \in First /\ ~Misplaced(a)
    /\ todo' = todo \ {a}
    /\ LET s == SpecOf(a) IN
       IF Unwanted(a) # ~HasModifier(a)
       THEN IF Has(dos, s) THEN dos' = Erase(dos, s) /\ UNCHANGED donts
                           ELSE donts' = Insert(donts, s) /\ UNCHANGED dos
       ELSE IF Has(donts, s) THEN donts' = Erase(donts, s) /\ UNCHANGED dos
                             ELSE dos' = Insert(dos, s) /\ UNCHANGED donts
    /\ UNCHANGED <<args, kind, doByDefault, phase>> /\ UNCHANGED compileVars

\* A spec the other side has is erased there and stored nowhere (remove_duplicate).
Sort(a) ==
    /\ phase = "sort" /\ a \in First /\ ~Misplaced(a)
    /\ todo' = todo \ {a}
    /\ LET s == SpecOf(a) IN
       IF Unwanted(a)
       THEN IF Has(dos, s) THEN dos' = Erase(dos, s) /\ UNCHANGED donts
                           ELSE donts' = Insert(donts, s) /\ UNCHANGED dos
       ELSE IF Has(donts, s) THEN donts' = Erase(donts, s) /\ UNCHANGED dos
                             ELSE dos' = Insert(dos, s) /\ UNCHANGED donts
    /\ UNCHANGED <<args, kind, doByDefault, phase>> /\ UNCHANGED compileVars

EndSort ==
    /\ phase = "sort" /\ todo = {}
    /\ phase' = "parsed"
    /\ UNCHANGED <<args, kind, doByDefault, todo, dos, donts>> /\ UNCHANGED compileVars

-----------------------------------------------------------------------------
Init ==
    /\ args \in Inputs /\ kind \in Kinds /\ doByDefault \in BOOLEAN
    /\ i = 1 /\ arg = <<>> /\ op = FALSE /\ stored = <<>>
    /\ todo = {} /\ dos = {} /\ donts = {} /\ phase = "compile"

Next ==
    \/ JoinOperand \/ JoinOperator \/ OpenOperator \/ JoinComparison \/ StartString
    \/ EndCompile
    \/ \E a \in todo : Reject(a) \/ Sort(a)
    \/ EndSort

Spec == Init /\ [][Next]_vars

-----------------------------------------------------------------------------
Specs == [cap : Seq(STRING), repo : Seq(STRING)]

\* The ways a caller may cut one request into strings: at neither, either or
\* both sides of its operator.
Cuts(r) ==
    {<<r>>} \cup UNION {LET l == SubSeq(r, 1, k - 1)
                            o == <<r[k]>>
                            v == SubSeq(r, k + 1, Len(r))
                        IN {<<l, o, v>>, <<l \o o, v>>, <<l, o \o v>>} :
                        k \in {n \in 2..Len(r) - 1 : r[n] \in Operators}}
CutsOfAll(rs) == {FlattenSeq(w) : w \in {w \in [1..Len(rs) -> UNION {Cuts(rs[k]) : k \in 1..Len(rs)}] :
                                        \A k \in 1..Len(rs) : w[k] \in Cuts(rs[k])}}
CONSTANT Requests   \* lists of requests, each a sequence of tokens

\* A request is a name, or what stands to the left and to the right of an
\* operator.
IsRequest(r) ==
    /\ r \in Seq(STRING) \ {<<>>}
    /\ \A n \in 1..Len(r) : r[n] \in Operators =>
            n # 1 /\ n # Len(r) /\ \A m \in 1..Len(r) : r[m] \in Operators => m = n
ASSUME RequestsAssumption == \A rs \in Requests : rs \in Seq(Seq(STRING)) /\ \A k \in 1..Len(rs) : IsRequest(rs[k])

\* However the caller cuts a list of requests at their operators, and whatever
\* stands next to what, the parser puts exactly these requests together again.
CutsDoNotMatter ==
    phase = "sort" => \A rs \in Requests :
        FlattenSeq(rs) = FlattenSeq(args) /\ args \in CutsOfAll(rs) => stored = rs

\* Nothing is both wanted and unwanted, whichever strings named it.
DosAndDontsApart ==
    \A s \in dos : \A t \in donts : s.cap # t.cap

\* The sides the compiled strings ask for a capability.
Sides(c) == {Unwanted(a) : a \in {b \in ToSet(stored) : SpecOf(b).cap = c}}
NamedCaps == {SpecOf(a).cap : a \in ToSet(stored)}

\* A capability whose strings all agree ends on their side and on no other.
AgreementDecides ==
    phase = "parsed" =>
        \A c \in NamedCaps : \A side \in BOOLEAN :
            Sides(c) = {side} =>
                /\ c \in {s.cap : s \in (IF side THEN donts ELSE dos)}
                /\ c \notin {s.cap : s \in (IF side THEN dos ELSE donts)}

\* Each capability stands on one side at most, and on the one its strings ask for.
SidesAreSettled == DosAndDontsApart /\ AgreementDecides

\* What the parser keeps of a repository is one the caller named with this
\* capability; a colon inside a version or a "name(...)" never names one.
RepoWasNamed ==
    \A s \in dos \cup donts : s.repo = <<>> \/
        /\ s.repo \in Aliases
        /\ \E a \in ToSet(stored) : LET u == Unmodified(a) IN
             /\ Len(u) > Len(s.repo)
             /\ SubSeq(u, 1, Len(s.repo) + 1) = Append(s.repo, ":")
             /\ \A b \in Aliases : Len(b) < Len(s.repo) => SubSeq(u, 1, Len(b) + 1) # Append(b, ":")

\* packagespec.h:29: "we must rule out one of two conflicting entries".
OneOfTwoSurvives ==
    phase = "parsed" => NamedCaps = {s.cap : s \in dos \cup donts}

\* packageargs.h:95: arguments are joined at comparison operators, exactly as
\* zypper does; empty strings are not stored, so they should not matter either.
EmptyStringsDoNotMatter ==
    phase = "sort" => \A rs \in Requests :
        SelectSeq(args, LAMBDA a : a # <<>>) \in CutsOfAll(rs) => stored = rs
=============================================================================

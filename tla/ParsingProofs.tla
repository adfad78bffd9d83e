---------------------------- MODULE ParsingProofs ----------------------------
(***************************************************************************)
(* The two parsers: of package arguments (PackageArgs) and of the frames on  *)
(* the wire (Framing).  They share the lemmas about where the pieces of a    *)
(* joined sequence lie.                                                     *)
(*                                                                         *)
(* What argsToCaps() makes of every argument list, every set of aliases and *)
(* every order of the compiled strings: the two sides are settled, and a    *)
(* repository is one the caller named.  The invariant gives every spec of a *)
(* side a compiled string of that side that stands for it, and every        *)
(* capability whose strings agree so far a spec.                            *)
(*                                                                         *)
(* What preprocess() makes of every list of requests, however it is cut:    *)
(* the cutting invariant says where in which request the parser is.         *)
(*                                                                         *)
(* What readFrame() makes of what writeFrame() wrote, for all payloads, every *)
(* number base and pipe, and a writer that may vanish between any two        *)
(* symbols: the invariant of the wire says which symbol of which frame the   *)
(* reader is at.                                                            *)
(***************************************************************************)
EXTENDS PackageArgs, Framing, FiniteSetTheorems, SequenceTheorems, TLAPS

-----------------------------------------------------------------------------
(* Numbers.  The library's induction takes a predicate, which no backend can *)
(* instantiate; its order on finite sets is a set, and gives least numbers.  *)

LEMMA LeastNat ==
  ASSUME NEW T \in SUBSET Nat, T # {}
  PROVE  \E n \in T : \A m \in T : n <= m
<1> DEFINE Below == {1..n : n \in T}
           R == StrictSubsetOrdering(Nat)
<1>1. IsWellFoundedOn(R, FiniteSubsetsOf(Nat))
  BY FS_StrictSubsetOrderingWellFounded
<1>2. Below \subseteq FiniteSubsetsOf(Nat) /\ Below # {}
  <2>1. ASSUME NEW n \in T PROVE 1..n \in FiniteSubsetsOf(Nat)
    <3>1. IsFiniteSet(1..n) /\ 1..n \subseteq Nat
      BY FS_Interval
    <3> QED
      BY <3>1 DEF FiniteSubsetsOf
  <2> QED
    BY <2>1
<1> HIDE DEF R
<1>3. PICK B \in Below : \A C \in Below : <<C, B>> \notin R
  BY <1>1, <1>2, WFMin
<1>4. PICK n \in T : B = 1..n
  BY <1>3
<1>5. ASSUME NEW m \in T PROVE n <= m
  <2>1. 1..m \in Below /\ 1..m \subseteq Nat /\ 1..n \subseteq Nat
    OBVIOUS
  <2>2. ~(1..m \subseteq 1..n /\ 1..m # 1..n)
    BY <1>3, <1>4, <2>1 DEF R, StrictSubsetOrdering
  <2>3. n \in Nat /\ m \in Nat
    OBVIOUS
  <2>4. m < n => 1..m \subseteq 1..n /\ n \in 1..n /\ n \notin 1..m
    BY <2>3
  <2> QED
    BY <2>2, <2>3, <2>4
<1> QED
  BY <1>5

LEMMA NatInd ==
  ASSUME NEW S, 0 \in S, \A n \in Nat : n \in S => n + 1 \in S
  PROVE  Nat \subseteq S
<1> SUFFICES ASSUME Nat \ S # {} PROVE FALSE
  OBVIOUS
<1>1. PICK n \in Nat \ S : \A m \in Nat \ S : n <= m
  BY LeastNat
<1>2. n - 1 \in Nat /\ n - 1 \in S /\ (n - 1) + 1 = n
  BY <1>1
<1> QED
  BY <1>1, <1>2

-----------------------------------------------------------------------------
(* The repository prefix of one string.                                    *)

\* What RepoWasNamed says of the string u that names the repository r.
Names(u, r) ==
  /\ Len(u) > Len(r)
  /\ SubSeq(u, 1, Len(r) + 1) = Append(r, ":")
  /\ \A b \in Aliases : Len(b) < Len(r) => SubSeq(u, 1, Len(b) + 1) # Append(b, ":")

LEMMA PrefixSeq ==
  ASSUME NEW u \in Seq(STRING), NEW p \in 1..Len(u)
  PROVE  /\ SubSeq(u, 1, p - 1) \in Seq(STRING)
         /\ Len(SubSeq(u, 1, p - 1)) = p - 1
         /\ SubSeq(u, 1, p) = Append(SubSeq(u, 1, p - 1), u[p])
  OBVIOUS

\* The shortest known prefix wins, and no colon after a "(" or a "=" counts.
LEMMA RepoNamed ==
  ASSUME NEW u \in Seq(STRING)
  PROVE  Repo(u) = <<>> \/ (Repo(u) \in Aliases /\ Names(u, Repo(u)))
<1>1. CASE KnownPrefixes(u) = {}
  BY <1>1 DEF Repo, RepoEnd
<1>2. CASE KnownPrefixes(u) # {}
  <2>1. KnownPrefixes(u) \in SUBSET Nat
    BY DEF KnownPrefixes, RepoColons
  <2>2. \E p \in KnownPrefixes(u) : \A q \in KnownPrefixes(u) : p <= q
    BY <1>2, <2>1, LeastNat
  <2>3. RepoEnd(u) \in KnownPrefixes(u) /\ \A q \in KnownPrefixes(u) : RepoEnd(u) <= q
    BY <1>2, <2>2 DEF RepoEnd
  <2>4. PICK p \in 1..Len(u) : p = RepoEnd(u)
    BY <2>3 DEF KnownPrefixes, RepoColons
  <2> DEFINE r == SubSeq(u, 1, p - 1)
  <2>5. r = Repo(u)
    BY <2>4 DEF Repo
  <2>6. /\ u[p] = ":" /\ r \in Aliases
        /\ \A q \in 1..p : u[q] # "(" /\ u[q] \notin EqOperators
    BY <2>3, <2>4 DEF KnownPrefixes, RepoColons
  <2>7. r \in Seq(STRING) /\ Len(r) = p - 1 /\ SubSeq(u, 1, p) = Append(r, ":")
    BY <2>6, PrefixSeq
  <2>8. ASSUME NEW b \in Aliases, Len(b) < Len(r),
               SubSeq(u, 1, Len(b) + 1) = Append(b, ":")
        PROVE  FALSE
    <3>1. b \in Seq(STRING) /\ p \in Nat
      BY AliasesAssumption
    <3>2. PICK q \in Nat : q = Len(b) + 1
      BY <3>1
    <3>3. q \in 1..Len(u) /\ q < p
      BY <2>7, <2>8, <3>1, <3>2
    <3>4. SubSeq(u, 1, q) = Append(b, ":")
      BY <2>8, <3>2
    <3>5. \A k \in 1..q : SubSeq(u, 1, q)[k] = u[k]
      BY <3>3
    <3>6. SubSeq(u, 1, q - 1) = b /\ u[q] = ":"
      <4>1. u[q] = ":"
        BY <3>1, <3>2, <3>4, <3>5
      <4>2. \A k \in 1..q - 1 : b[k] = u[k]
        BY <3>1, <3>2, <3>4, <3>5
      <4>3. SubSeq(u, 1, q - 1) \in Seq(STRING) /\ Len(SubSeq(u, 1, q - 1)) = q - 1
            /\ \A k \in 1..q - 1 : SubSeq(u, 1, q - 1)[k] = u[k]
        BY <3>3
      <4>4. SubSeq(u, 1, q - 1) = b
        BY <3>1, <3>2, <4>2, <4>3
      <4> QED
        BY <4>1, <4>4
    <3>7. \A k \in 1..q : k \in 1..p
      BY <3>3
    <3>8. q \in KnownPrefixes(u)
      BY <2>6, <3>3, <3>6, <3>7 DEF KnownPrefixes, RepoColons
    <3> QED
      BY <2>3, <2>4, <3>3, <3>8
  <2>9. Names(u, r)
    BY <2>7, <2>8 DEF Names
  <2> QED
    BY <2>5, <2>6, <2>9
<1> QED
  BY <1>1, <1>2

-----------------------------------------------------------------------------
(* The inductive invariant.                                                *)

\* The compiled strings argsToCaps has seen.
Seen == ToSet(stored) \ todo

Compiled ==
  /\ args \in Seq(Seq(STRING)) /\ i \in Nat \ {0} /\ arg \in Seq(STRING)
  /\ stored \in Seq(Seq(STRING) \ {<<>>})

Control ==
  /\ todo \subseteq ToSet(stored)
  /\ phase = "compile" => todo = {} /\ dos = {} /\ donts = {}
  /\ phase = "parsed" => todo = {}

\* Every spec comes from a string that asks for its side.
Witnessed ==
  /\ \A s \in dos   : \E a \in Seen : s = SpecOf(a) /\ ~Unwanted(a)
  /\ \A s \in donts : \E a \in Seen : s = SpecOf(a) /\ Unwanted(a)

\* The seen strings that stand for the capability c.
For(c) == {a \in Seen : SpecOf(a).cap = c}

Settled ==
  phase # "compile" =>
    \A c : For(c) # {} =>
      /\ (\A a \in For(c) : ~Unwanted(a)) => \E s \in dos   : s.cap = c
      /\ (\A a \in For(c) : Unwanted(a))  => \E s \in donts : s.cap = c

ArgsInv == Compiled /\ Control /\ Witnessed /\ Settled /\ DosAndDontsApart

LEMMA InitArgsInv == Init => ArgsInv
<1> SUFFICES ASSUME Init PROVE ArgsInv
  OBVIOUS
<1>1. Compiled
  BY InputsAssumption DEF Init, Compiled
<1>2. Control /\ Witnessed /\ Settled /\ DosAndDontsApart
  BY DEF Init, Control, Witnessed, Settled, DosAndDontsApart
<1> QED
  BY <1>1, <1>2 DEF ArgsInv

\* storeIfNotEmpty keeps empty strings out.
LEMMA StoredTyped ==
  ASSUME Compiled, NEW a \in Seq(STRING)
  PROVE  Stored(a) \in Seq(Seq(STRING) \ {<<>>})
  BY DEF Compiled, Stored

Step == JoinOperand \/ JoinOperator \/ OpenOperator \/ JoinComparison \/ StartString

LEMMA CompileKeeps ==
  ASSUME ArgsInv, Step
  PROVE  ArgsInv'
<1>1. Compiling /\ i' = i + 1 /\ UNCHANGED <<args, kind, doByDefault, todo, dos, donts, phase>>
  BY DEF Step, JoinOperand, JoinOperator, OpenOperator, JoinComparison, StartString,
         NextString
<1>2. Tmp \in Seq(STRING)
  BY <1>1 DEF ArgsInv, Compiled, Compiling, Tmp
<1>3. /\ arg \o Tmp \in Seq(STRING) /\ arg \in Seq(STRING) /\ <<>> \in Seq(STRING)
      /\ stored \in Seq(Seq(STRING) \ {<<>>})
  BY <1>2 DEF ArgsInv, Compiled
<1>4. /\ arg' \in {<<>>, Tmp, arg \o Tmp}
      /\ stored' \in {stored, Stored(arg), Stored(arg \o Tmp)}
  BY DEF Step, JoinOperand, JoinOperator, OpenOperator, JoinComparison, StartString
<1>5. Compiled'
  <2>1. Stored(arg) \in Seq(Seq(STRING) \ {<<>>})
        /\ Stored(arg \o Tmp) \in Seq(Seq(STRING) \ {<<>>})
    BY <1>3, StoredTyped DEF ArgsInv
  <2>2. i' \in Nat \ {0} /\ args' \in Seq(Seq(STRING))
    BY <1>1 DEF ArgsInv, Compiled
  <2> QED
    BY <1>2, <1>3, <1>4, <2>1, <2>2 DEF Compiled
<1>6. phase = "compile" /\ todo = {} /\ dos = {} /\ donts = {}
  BY <1>1 DEF Compiling, ArgsInv, Control
<1>7. Control' /\ Witnessed' /\ Settled' /\ DosAndDontsApart'
  BY <1>1, <1>6 DEF Control, Witnessed, Settled, DosAndDontsApart
<1> QED
  BY <1>5, <1>7 DEF ArgsInv

LEMMA EndCompileKeeps ==
  ASSUME ArgsInv, EndCompile
  PROVE  ArgsInv'
<1>1. /\ UNCHANGED <<args, i, dos, donts>> /\ arg' = <<>> /\ phase' = "sort"
      /\ stored' = Stored(arg) /\ todo' = ToSet(stored')
  BY DEF EndCompile
<1>2. arg \in Seq(STRING) /\ <<>> \in Seq(STRING) /\ args \in Seq(Seq(STRING))
      /\ i \in Nat \ {0}
  BY DEF ArgsInv, Compiled
<1>3. Compiled'
  BY <1>1, <1>2, StoredTyped DEF ArgsInv, Compiled
<1>4. dos = {} /\ donts = {} /\ Seen' = {}
  BY <1>1 DEF EndCompile, ArgsInv, Control, Seen
<1>5. Control' /\ Witnessed' /\ DosAndDontsApart'
  BY <1>1, <1>4 DEF Control, Witnessed, DosAndDontsApart
<1>6. Settled'
  BY <1>4 DEF Settled, For
<1> QED
  BY <1>3, <1>5, <1>6 DEF ArgsInv

\* What a string stands for is fixed.
LEMMA MeaningFixed ==
  ASSUME UNCHANGED <<kind, doByDefault>>
  PROVE  \A a : SpecOf(a)' = SpecOf(a) /\ (Unwanted(a)' <=> Unwanted(a))
<1>1. \A a : Unwanted(a)' <=> Unwanted(a)
  BY DEF Unwanted, HasModifier
<1>2. \A t : Capability(t)' = Capability(t)
  BY DEF Capability, HasKind
<1>3. \A a : SpecOf(a)' = SpecOf(a)
  BY <1>2 DEF SpecOf, Unmodified, HasModifier, Text, Repo, RepoEnd, KnownPrefixes, RepoColons
<1> QED
  BY <1>1, <1>3

\* A spec that was contradicted leaves, and no string was ever for both sides
\* of an agreeing capability.
LEMMA SortKeeps ==
  ASSUME ArgsInv, NEW a \in todo, Sort(a)
  PROVE  ArgsInv'
<1> DEFINE s == SpecOf(a)
<1>1. /\ UNCHANGED <<args, kind, doByDefault, i, arg, op, stored, phase>>
      /\ phase = "sort" /\ todo' = todo \ {a}
  BY DEF Sort, compileVars
<1>2. /\ Unwanted(a) /\ Has(dos, s) => dos' = Erase(dos, s) /\ donts' = donts
      /\ Unwanted(a) /\ ~Has(dos, s) => dos' = dos /\ donts' = Insert(donts, s)
      /\ ~Unwanted(a) /\ Has(donts, s) => donts' = Erase(donts, s) /\ dos' = dos
      /\ ~Unwanted(a) /\ ~Has(donts, s) => donts' = donts /\ dos' = Insert(dos, s)
  BY DEF Sort
<1>3. Seen' = Seen \union {a} /\ a \in ToSet(stored)
  BY <1>1 DEF Seen, ArgsInv, Control
<1>4. \A b : SpecOf(b)' = SpecOf(b) /\ (Unwanted(b)' <=> Unwanted(b))
  BY <1>1, MeaningFixed
<1>5. Compiled' /\ Control'
  BY <1>1 DEF ArgsInv, Compiled, Control
<1>6. Witnessed'
  <2>1. /\ \A t \in dos'   : t \in dos \/ (t = s /\ ~Unwanted(a))
        /\ \A t \in donts' : t \in donts \/ (t = s /\ Unwanted(a))
    BY <1>2 DEF Insert, Erase
  <2>2. /\ \A t \in dos'   : \E b \in Seen' : t = SpecOf(b) /\ ~Unwanted(b)
        /\ \A t \in donts' : \E b \in Seen' : t = SpecOf(b) /\ Unwanted(b)
    BY <1>3, <2>1 DEF ArgsInv, Witnessed
  <2> QED
    BY <1>4, <2>2 DEF Witnessed
<1>7. DosAndDontsApart'
  BY <1>2 DEF ArgsInv, DosAndDontsApart, Has, Insert, Erase
<1>8. Settled'
  <2> SUFFICES ASSUME NEW c, For(c)' # {}
               PROVE  /\ (\A b \in For(c)' : ~Unwanted(b)) => \E t \in dos'   : t.cap = c
                      /\ (\A b \in For(c)' : Unwanted(b))  => \E t \in donts' : t.cap = c
    BY <1>4 DEF Settled
  <2>1. For(c)' = {b \in Seen \union {a} : SpecOf(b).cap = c}
    BY <1>3, <1>4 DEF For
  <2>2. CASE s.cap # c
    <3>1. For(c)' = For(c)
      BY <2>1, <2>2 DEF For
    <3>2. /\ \A t \in dos   : t.cap = c => t \in dos'
          /\ \A t \in donts : t.cap = c => t \in donts'
      BY <1>2, <2>2 DEF Insert, Erase
    <3> QED
      BY <1>1, <3>1, <3>2 DEF ArgsInv, Settled
  <2>3. CASE s.cap = c
    <3>1. a \in For(c)' /\ For(c) \subseteq For(c)'
      BY <2>1, <2>3 DEF For
    <3>2. Has(dos, s) => \E b \in For(c) : ~Unwanted(b)
      BY <2>3 DEF Has, ArgsInv, Witnessed, For
    <3>3. Has(donts, s) => \E b \in For(c) : Unwanted(b)
      BY <2>3 DEF Has, ArgsInv, Witnessed, For
    <3>4. /\ \E t \in Insert(dos, s)   : t.cap = c
          /\ \E t \in Insert(donts, s) : t.cap = c
      BY <2>3 DEF Insert, Has
    <3> QED
      BY <1>2, <3>1, <3>2, <3>3, <3>4
  <2> QED
    BY <2>2, <2>3
<1> QED
  BY <1>5, <1>6, <1>7, <1>8 DEF ArgsInv

\* Steps that end the sorting, and stuttering.
LEMMA OthersKeep ==
  ASSUME ArgsInv, EndSort \/ (\E a \in todo : Reject(a)) \/ UNCHANGED vars
  PROVE  ArgsInv'
<1>1. UNCHANGED <<args, kind, doByDefault, i, arg, op, stored, todo, dos, donts>>
  BY DEF EndSort, Reject, compileVars, vars
<1>2. phase' = phase \/ (phase = "sort" /\ phase' = "thrown")
      \/ (phase = "sort" /\ phase' = "parsed" /\ todo = {})
  BY DEF EndSort, Reject, vars
<1>3. \A b : SpecOf(b)' = SpecOf(b) /\ (Unwanted(b)' <=> Unwanted(b))
  BY <1>1, MeaningFixed
<1>4. Seen' = Seen
  BY <1>1 DEF Seen
<1>5. \A c : For(c)' = For(c)
  BY <1>3, <1>4 DEF For
<1>6. Compiled' /\ Control' /\ DosAndDontsApart'
  BY <1>1, <1>2 DEF ArgsInv, Compiled, Control, DosAndDontsApart
<1>7. Witnessed'
  BY <1>1, <1>3, <1>4 DEF ArgsInv, Witnessed
<1>8. Settled'
  BY <1>1, <1>2, <1>3, <1>5 DEF ArgsInv, Settled
<1> QED
  BY <1>6, <1>7, <1>8 DEF ArgsInv

THEOREM ArgsInductive == Spec => []ArgsInv
<1>1. ArgsInv /\ [Next]_vars => ArgsInv'
  BY CompileKeeps, EndCompileKeeps, SortKeeps, OthersKeep DEF Next, Step
<1> QED
  BY InitArgsInv, <1>1, PTL DEF Spec

-----------------------------------------------------------------------------
(* The results.                                                            *)

\* PackageArgs never wants and refuses the same capability, and a capability
\* whose strings agree ends on their side and on no other.
THEOREM SidesSettled == Spec => []SidesAreSettled
<1>1. ASSUME ArgsInv PROVE AgreementDecides
  <2> SUFFICES ASSUME phase = "parsed", NEW c \in NamedCaps, NEW side \in BOOLEAN,
                      Sides(c) = {side}
               PROVE  /\ c \in {s.cap : s \in (IF side THEN donts ELSE dos)}
                      /\ c \notin {s.cap : s \in (IF side THEN dos ELSE donts)}
    BY DEF AgreementDecides
  <2>1. Seen = ToSet(stored)
    BY <1>1 DEF ArgsInv, Control, Seen
  <2>2. For(c) # {} /\ \A a \in For(c) : Unwanted(a) \in Sides(c)
    BY <2>1 DEF For, NamedCaps, Sides
  <2>3. \A a \in For(c) : Unwanted(a) = side
    BY <2>2
  <2>4. \A a : Unwanted(a) \in BOOLEAN
    BY DEF Unwanted
  <2>5. CASE side = TRUE
    <3>1. \A a \in For(c) : Unwanted(a)
      BY <2>3, <2>5
    <3>2. \E s \in donts : s.cap = c
      BY <1>1, <2>2, <3>1 DEF ArgsInv, Settled
    <3>3. \A s \in dos : s.cap # c
      BY <1>1, <3>1 DEF ArgsInv, Witnessed, For
    <3> QED
      BY <2>5, <3>2, <3>3
  <2>6. CASE side = FALSE
    <3>1. \A a \in For(c) : ~Unwanted(a)
      BY <2>3, <2>6
    <3>2. \E s \in dos : s.cap = c
      BY <1>1, <2>2, <3>1 DEF ArgsInv, Settled
    <3>3. \A s \in donts : s.cap # c
      BY <1>1, <3>1 DEF ArgsInv, Witnessed, For
    <3> QED
      BY <2>6, <3>2, <3>3
  <2> QED
    BY <2>5, <2>6
<1>2. ArgsInv => SidesAreSettled
  BY <1>1 DEF ArgsInv, SidesAreSettled
<1> QED
  BY <1>2, ArgsInductive, PTL

\* A string loses its modifier and stays a sequence of tokens.
LEMMA TailOfStrings ==
  ASSUME NEW S, NEW a \in Seq(S), a # <<>>
  PROVE  Tail(a) \in Seq(S)
OBVIOUS

\* A repository PackageArgs keeps with a spec is the shortest alias that some
\* string names as its prefix.
THEOREM ReposWereNamed == Spec => []RepoWasNamed
<1>1. ASSUME ArgsInv PROVE RepoWasNamed
  <2> SUFFICES ASSUME NEW s \in dos \union donts
               PROVE  \/ s.repo = <<>>
                      \/ /\ s.repo \in Aliases
                         /\ \E a \in ToSet(stored) : Names(Unmodified(a), s.repo)
    BY DEF RepoWasNamed, Names
  <2>1. PICK a \in ToSet(stored) : s = SpecOf(a)
    BY <1>1 DEF ArgsInv, Witnessed, Seen
  <2>2. a \in Seq(STRING) \ {<<>>}
    <3>1. stored \in Seq(Seq(STRING) \ {<<>>})
      BY <1>1 DEF ArgsInv, Compiled
    <3> QED
      BY <2>1, <3>1 DEF ToSet
  <2>3. Unmodified(a) \in Seq(STRING)
    <3>1. Tail(a) \in Seq(STRING) /\ a \in Seq(STRING)
      BY <2>2, TailOfStrings
    <3> QED
      BY <3>1, Zenon DEF Unmodified
  <2>4. s.repo = Repo(Unmodified(a))
    BY <2>1 DEF SpecOf
  <2> QED
    BY <2>1, <2>3, <2>4, RepoNamed
<1>2. ArgsInv => RepoWasNamed
  BY <1>1
<1> QED
  BY <1>2, ArgsInductive, PTL

-----------------------------------------------------------------------------
(* Sequences joined.                                                       *)

LEMMA JoinIs ==
  ASSUME NEW T, NEW s \in Seq(T), NEW t \in Seq(T)
  PROVE  /\ s \o t \in Seq(T) /\ Len(s \o t) = Len(s) + Len(t)
         /\ Len(s) \in Nat /\ Len(t) \in Nat
         /\ \A n \in 1..Len(s) : (s \o t)[n] = s[n]
         /\ \A n \in 1..Len(t) : (s \o t)[Len(s) + n] = t[n]
  OBVIOUS

-----------------------------------------------------------------------------
(* The strings of a list of cut requests, one after the other.             *)

\* The loop of FlattenSeq.
FlatNext(w, f, n) == IF n = 1 THEN w[n] ELSE f[n - 1] \o w[n]
IsFlat(f, w, N) == f = [n \in 1..N |-> FlatNext(w, f, n)]

LEMMA FlatExists ==
  ASSUME NEW w, NEW N \in Nat
  PROVE  \E f : IsFlat(f, w, N)
<1> DEFINE S == {n \in Nat : \E f : IsFlat(f, w, n)}
<1>1. 0 \in S
  <2>1. IsFlat([n \in 1..0 |-> <<>>], w, 0)
    BY DEF IsFlat
  <2> QED
    BY <2>1
<1>2. ASSUME NEW n \in Nat, n \in S PROVE n + 1 \in S
  <2>1. PICK f : IsFlat(f, w, n)
    BY <1>2
  <2> DEFINE g == [k \in 1..n + 1 |-> IF k = n + 1 THEN FlatNext(w, f, n + 1) ELSE f[k]]
             h == [k \in 1..n + 1 |-> FlatNext(w, g, k)]
  <2>2. \A k \in 1..n : f[k] = FlatNext(w, f, k)
    BY <2>1 DEF IsFlat
  <2>3. \A k \in 1..n : g[k] = f[k]
    OBVIOUS
  <2>4. ASSUME NEW k \in 1..n + 1 PROVE g[k] = h[k]
    <3>1. g[k] = FlatNext(w, f, k)
      BY <2>2
    <3>2. k # 1 => k - 1 \in 1..n
      OBVIOUS
    <3>3. k # 1 => g[k - 1] = f[k - 1]
      BY <2>3, <3>2
    <3> HIDE DEF g
    <3>4. h[k] = FlatNext(w, f, k)
      BY <3>3 DEF FlatNext
    <3> QED
      BY <3>1, <3>4
  <2>5. g = h
    BY <2>4
  <2> HIDE DEF g
  <2>6. IsFlat(g, w, n + 1)
    BY <2>5 DEF IsFlat
  <2> QED
    BY <2>6
<1> HIDE DEF S
<1>3. N \in S
  BY <1>1, <1>2, NatInd
<1> QED
  BY <1>3 DEF S

\* off says where the pieces of a sequence of sequences are in the whole of it.
IsOffset(off, w) ==
  /\ off \in [0..Len(w) -> Nat] /\ off[0] = 0
  /\ \A k \in 1..Len(w) : off[k] = off[k - 1] + Len(w[k])

LEMMA OffsetsGrow ==
  ASSUME NEW T, NEW w \in Seq(Seq(T)), NEW off, IsOffset(off, w)
  PROVE  \A n, k \in 0..Len(w) : k <= n => off[k] <= off[n]
<1> DEFINE S == {n \in Nat : n <= Len(w) => \A k \in 0..n : off[k] <= off[n]}
<1>0. PICK N \in Nat : N = Len(w)
  OBVIOUS
<1>1. /\ \A k \in 0..N : off[k] \in Nat
      /\ \A k \in 1..N : off[k] = off[k - 1] + Len(w[k])
  BY <1>0 DEF IsOffset
<1>2. 0 \in S
  BY <1>0, <1>1
<1>3. ASSUME NEW n \in Nat, n \in S PROVE n + 1 \in S
  <2> SUFFICES ASSUME n + 1 <= N, NEW k \in 0..n + 1 PROVE off[k] <= off[n + 1]
    BY <1>0
  <2>1. n + 1 \in 1..N /\ (n + 1) - 1 = n /\ n \in 0..N /\ k \in 0..N /\ N \in Nat
    BY <1>0
  <2>2. w[n + 1] \in Seq(T)
    BY <1>0, <2>1
  <2>3. Len(w[n + 1]) \in Nat
    BY <2>2
  <2>4. off[n + 1] = off[n] + Len(w[n + 1]) /\ off[n] \in Nat /\ off[k] \in Nat
    BY <1>1, <2>1
  <2>5. k # n + 1 => off[k] <= off[n]
    BY <1>0, <1>3, <2>1
  <2> QED
    BY <2>3, <2>4, <2>5
<1> HIDE DEF S
<1>4. Nat \subseteq S
  BY <1>2, <1>3, NatInd
<1> QED
  BY <1>0, <1>4 DEF S

\* The first n pieces are in u.
Placed(u, off, w, n) ==
  \A k \in 1..n : \A m \in 1..Len(w[k]) :
    off[k - 1] + m \in 1..Len(u) /\ u[off[k - 1] + m] = w[k][m]

LEMMA PlaceNext ==
  ASSUME NEW T, NEW s \in Seq(T), NEW t \in Seq(T), NEW n \in Nat, NEW off, NEW w,
         off[n] = Len(s), w[n + 1] = t, Placed(s, off, w, n)
  PROVE  Placed(s \o t, off, w, n + 1)
<1>1. PICK u : u = s \o t
  OBVIOUS
<1>2. /\ Len(s) \in Nat /\ Len(t) \in Nat /\ Len(u) = Len(s) + Len(t)
      /\ \A k \in 1..Len(s) : u[k] = s[k]
      /\ \A k \in 1..Len(t) : u[Len(s) + k] = t[k]
  BY <1>1, JoinIs
<1>3. ASSUME NEW k \in 1..n + 1, NEW m \in 1..Len(w[k])
      PROVE  off[k - 1] + m \in 1..Len(u) /\ u[off[k - 1] + m] = w[k][m]
  <2>1. CASE k = n + 1
    <3>1. k - 1 = n /\ m \in 1..Len(t) /\ m \in Nat
      BY <1>2, <2>1
    <3>2. off[k - 1] + m = Len(s) + m /\ u[Len(s) + m] = t[m]
      BY <1>2, <3>1
    <3>3. Len(s) + m \in 1..Len(u)
      BY <1>2, <3>1
    <3> QED
      BY <2>1, <3>2, <3>3
  <2>2. CASE k # n + 1
    <3>1. k \in 1..n
      BY <2>2
    <3>2. off[k - 1] + m \in 1..Len(s) /\ s[off[k - 1] + m] = w[k][m]
      BY <3>1 DEF Placed
    <3>3. \A p \in 1..Len(s) : p \in 1..Len(u) /\ u[p] = s[p]
      BY <1>2
    <3> QED
      BY <3>2, <3>3
  <2> QED
    BY <2>1, <2>2
<1> QED
  BY <1>1, <1>3 DEF Placed

LEMMA FlattenIs ==
  ASSUME NEW T, NEW w \in Seq(Seq(T))
  PROVE  \E off : /\ IsOffset(off, w)
                  /\ Len(FlattenSeq(w)) = off[Len(w)]
                  /\ Placed(FlattenSeq(w), off, w, Len(w))
<1>0. PICK N \in Nat : N = Len(w)
  OBVIOUS
<1>1. CASE N = 0
  <2>1. FlattenSeq(w) = w
    BY <1>0, <1>1 DEF FlattenSeq
  <2>2. IsOffset([k \in 0..0 |-> 0], w) /\ [k \in 0..0 |-> 0][0] = 0
    BY <1>0, <1>1 DEF IsOffset
  <2> QED
    BY <1>0, <1>1, <2>1, <2>2 DEF Placed
<1>2. CASE N # 0
  <2>1. PICK f : IsFlat(f, w, N) /\ FlattenSeq(w) = f[N]
    <3>1. FlattenSeq(w) = (CHOOSE f : IsFlat(f, w, N))[N]
      BY <1>0, <1>2, Zenon DEF FlattenSeq, IsFlat, FlatNext
    <3> QED
      BY <3>1, FlatExists
  <2>2. PICK off : off = [k \in 0..N |-> IF k = 0 THEN 0 ELSE Len(f[k])]
    OBVIOUS
  <2>3. off[0] = 0 /\ \A k \in 1..N : off[k] = Len(f[k])
    BY <1>0, <2>2
  <2>4. /\ f[1] = w[1] /\ \A n \in 2..N : f[n] = f[n - 1] \o w[n]
        /\ \A n \in 1..N : w[n] \in Seq(T)
    <3>1. \A n \in 1..N : f[n] = FlatNext(w, f, n)
      BY <2>1 DEF IsFlat
    <3>2. 1 \in 1..N /\ \A n \in 2..N : n \in 1..N /\ n # 1
      BY <1>0, <1>2
    <3>3. f[1] = w[1] /\ \A n \in 2..N : f[n] = f[n - 1] \o w[n]
      BY <3>1, <3>2 DEF FlatNext
    <3>4. \A n \in 1..N : w[n] \in Seq(T)
      BY <1>0
    <3> QED
      BY <3>3, <3>4
  <2> DEFINE Good(n) == /\ f[n] \in Seq(T) /\ off[n] = off[n - 1] + Len(w[n])
                        /\ Placed(f[n], off, w, n)
             S == {n \in Nat : n \in 1..N => Good(n)}
  <2>5. 1 \in 1..N => Good(1)
    <3> SUFFICES ASSUME 1 \in 1..N PROVE Good(1)
      OBVIOUS
    <3>1. w[1] \in Seq(T) /\ f[1] = w[1] /\ off[1] = Len(w[1]) /\ off[0] = 0 /\ Len(w[1]) \in Nat
      BY <2>3, <2>4
    <3>2. \A k \in 1..1 : k = 1 /\ k - 1 = 0
      OBVIOUS
    <3>3. Placed(w[1], off, w, 1)
      BY <3>1, <3>2 DEF Placed
    <3> QED
      BY <3>1, <3>3
  <2>6. ASSUME NEW n \in Nat, n + 1 \in 1..N, n # 0, Good(n)
        PROVE  Good(n + 1)
    <3>1. n \in 1..N /\ n + 1 \in 2..N /\ (n + 1) - 1 = n
      BY <2>6
    <3>2. PICK s, t : s = f[n] /\ t = w[n + 1] /\ s \in Seq(T) /\ t \in Seq(T)
      BY <2>4, <2>6, <3>1
    <3>3. f[n + 1] = s \o t /\ off[n] = Len(s) /\ off[n + 1] = Len(s \o t)
      <4>1. f[n + 1] = f[(n + 1) - 1] \o w[n + 1]
        BY <2>4, <3>1
      <4>2. f[n + 1] = s \o t
        BY <3>1, <3>2, <4>1
      <4>3. off[n] = Len(f[n]) /\ off[n + 1] = Len(f[n + 1])
        BY <2>3, <3>1
      <4> QED
        BY <3>2, <4>2, <4>3
    <3>4. Placed(s \o t, off, w, n + 1)
      BY <2>6, <3>2, <3>3, PlaceNext
    <3>5. s \o t \in Seq(T) /\ Len(s \o t) = Len(s) + Len(t)
      BY <3>2
    <3> QED
      BY <3>1, <3>2, <3>3, <3>4, <3>5
  <2> HIDE DEF Good
  <2>7. \A n \in 1..N : Good(n)
    <3>1. 0 \in S
      OBVIOUS
    <3>2. ASSUME NEW n \in Nat, n \in S PROVE n + 1 \in S
      <4>1. n # 0 /\ n + 1 \in 1..N => n \in 1..N
        BY <1>0
      <4> QED
        BY <2>5, <2>6, <3>2, <4>1
    <3> HIDE DEF S
    <3>3. Nat \subseteq S
      BY <3>1, <3>2, NatInd
    <3>4. \A n \in 1..N : n \in Nat
      OBVIOUS
    <3> QED
      BY <3>3, <3>4 DEF S
  <2>8. IsOffset(off, w)
    <3>1. \A k \in 1..N : Len(f[k]) \in Nat
      BY <2>7 DEF Good
    <3>2. off \in [0..N -> Nat]
      BY <2>2, <3>1
    <3> QED
      BY <1>0, <2>3, <2>7, <3>2 DEF IsOffset, Good
  <2>9. Placed(f[N], off, w, N) /\ off[N] = Len(f[N])
    <3>1. N \in 1..N
      BY <1>0, <1>2
    <3> QED
      BY <2>3, <2>7, <3>1 DEF Good
  <2> QED
    BY <1>0, <2>1, <2>8, <2>9
<1> QED
  BY <1>1, <1>2

-----------------------------------------------------------------------------
(* One request in pieces.                                                  *)

\* Neither piece nor request has an operator but the one between its sides.
Plain(s) == s \in Seq(STRING) \ {<<>>} /\ \A n \in 1..Len(s) : s[n] \notin Operators

\* The pieces of one request, by their number.
Pieces(c, r) ==
  /\ Len(c) = 1 => c[1] = r
  /\ Len(c) = 2 => c[1] \o c[2] = r /\ (EndsWithOperator(c[1]) \/ StartsWithOperator(c[2]))
  /\ Len(c) = 3 => /\ (c[1] \o c[2]) \o c[3] = r
                   /\ StandaloneOperator(c[2]) /\ ~EndsWithOperator(c[1])

\* No piece is empty, a request starts and ends with something else than an
\* operator, and an operator alone is in the middle.
Bounded(c) ==
  /\ c \in Seq(Seq(STRING) \ {<<>>}) /\ Len(c) \in 1..3
  /\ ~StartsWithOperator(c[1]) /\ ~StandaloneOperator(c[1])
  /\ ~EndsWithOperator(c[Len(c)]) /\ ~StandaloneOperator(c[Len(c)])

LEMMA PlainEnds ==
  ASSUME NEW s, Plain(s)
  PROVE  ~StartsWithOperator(s) /\ ~StandaloneOperator(s) /\ ~EndsWithOperator(s)
<1>1. Len(s) \in Nat /\ Len(s) # 0 /\ s \in Seq(STRING) /\ s # <<>>
  BY DEF Plain
<1>2. 1 \in 1..Len(s) /\ Len(s) \in 1..Len(s) /\ Head(s) = s[1]
  BY <1>1
<1> QED
  BY <1>1, <1>2 DEF Plain, StartsWithOperator, StandaloneOperator, EndsWithOperator, Last

\* A request in one piece has its operator inside.
LEMMA WholeEnds ==
  ASSUME NEW r, IsRequest(r)
  PROVE  ~StartsWithOperator(r) /\ ~StandaloneOperator(r) /\ ~EndsWithOperator(r)
<1>1. Len(r) \in Nat /\ Len(r) # 0 /\ r \in Seq(STRING) /\ r # <<>>
  BY DEF IsRequest
<1>2. 1 \in 1..Len(r) /\ Len(r) \in 1..Len(r) /\ Head(r) = r[1]
  BY <1>1
<1>3. r[1] \notin Operators /\ r[Len(r)] \notin Operators
  BY <1>2 DEF IsRequest
<1> QED
  BY <1>1, <1>2, <1>3 DEF StartsWithOperator, StandaloneOperator, EndsWithOperator, Last

\* A sequence taken apart at one of its elements.
\* l, o and v are the elements of r before the k-th, the k-th and those after it.
Parts(r, l, o, v, k) ==
  /\ Len(l) + 1 = k /\ Len(o) = 1 /\ o[1] = r[k] /\ k + Len(v) = Len(r)
  /\ \A n \in 1..Len(l) : l[n] = r[n]
  /\ \A n \in 1..Len(v) : v[n] = r[k + n]

LEMMA JoinsThree ==
  ASSUME NEW T, NEW r \in Seq(T), NEW l \in Seq(T), NEW o \in Seq(T), NEW v \in Seq(T),
         NEW k \in Nat,
         Parts(r, l, o, v, k)
  PROVE  (l \o o) \o v = r /\ l \o (o \o v) = r
<1>1. PICK a : a = l \o o
  OBVIOUS
<1>2. /\ a \in Seq(T) /\ Len(a) = Len(l) + Len(o)
      /\ \A n \in 1..Len(l) : a[n] = l[n]
      /\ \A n \in 1..Len(o) : a[Len(l) + n] = o[n]
  BY <1>1, JoinIs
<1>3. PICK b : b = a \o v
  OBVIOUS
<1>4. /\ b \in Seq(T) /\ Len(b) = Len(a) + Len(v)
      /\ \A n \in 1..Len(a) : b[n] = a[n]
      /\ \A n \in 1..Len(v) : b[Len(a) + n] = v[n]
  <2>1. a \in Seq(T)
    BY <1>2
  <2> QED
    BY <2>1, <1>3, JoinIs
<1>5. Len(l) \in Nat /\ Len(v) \in Nat /\ Len(r) \in Nat
  OBVIOUS
<1>6. Len(a) = k /\ Len(b) = Len(r)
  BY <1>2, <1>4, <1>5 DEF Parts
<1>7. a[k] = r[k]
  <2>1. Len(l) + 1 = k /\ 1 \in 1..Len(o) /\ o[1] = r[k]
    BY DEF Parts
  <2> QED
    BY <1>2, <2>1
<1>10. ASSUME NEW n \in 1..Len(r) PROVE b[n] = r[n]
  <2>0. k + Len(v) = Len(r) /\ Len(l) + 1 = k
    BY DEF Parts
  <2>1. CASE n > k
    <3>1. n - k \in 1..Len(v) /\ k + (n - k) = n
      BY <1>5, <2>0, <2>1
    <3>2. b[k + (n - k)] = v[n - k]
      BY <1>4, <1>6, <3>1
    <3>3. v[n - k] = r[k + (n - k)]
      BY <3>1 DEF Parts
    <3> QED
      BY <3>1, <3>2, <3>3
  <2>2. CASE n = k
    <3>1. k \in 1..Len(a)
      BY <1>6, <2>2
    <3> QED
      BY <1>4, <1>7, <2>2, <3>1
  <2>3. CASE n < k
    <3>1. n \in 1..Len(l) /\ n \in 1..Len(a)
      BY <1>5, <1>6, <2>0, <2>3
    <3>2. l[n] = r[n]
      BY <3>1 DEF Parts
    <3> QED
      BY <1>2, <1>4, <3>1, <3>2
  <2> QED
    BY <1>5, <2>1, <2>2, <2>3
<1>11. b = r
  <2>1. b \in Seq(T)
    BY <1>4
  <2> QED
    BY <2>1, <1>6, <1>10, SeqEqual
<1>12. l \o (o \o v) = (l \o o) \o v
  BY ConcatAssociative, SMTT(30)
<1> QED
  BY <1>1, <1>3, <1>11, <1>12

\* The ends of two sequences joined.
LEMMA JoinEnds ==
  ASSUME NEW T, NEW s \in Seq(T), NEW t \in Seq(T), Len(s) > 0, Len(t) > 0
  PROVE  /\ s \o t \in Seq(T) /\ Len(s \o t) > 1
         /\ (s \o t)[1] = s[1] /\ (s \o t)[Len(s \o t)] = t[Len(t)]
<1>1. PICK u : u = s \o t
  OBVIOUS
<1>2. /\ u \in Seq(T) /\ Len(u) = Len(s) + Len(t) /\ Len(s) \in Nat /\ Len(t) \in Nat
      /\ \A n \in 1..Len(s) : u[n] = s[n]
      /\ \A n \in 1..Len(t) : u[Len(s) + n] = t[n]
  BY <1>1, JoinIs
<1>3. 1 \in 1..Len(s) /\ Len(t) \in 1..Len(t)
  BY <1>2
<1> QED
  BY <1>1, <1>2, <1>3

LEMMA SplitIs ==
  ASSUME NEW T, NEW r \in Seq(T), NEW k \in 2..Len(r) - 1,
         NEW l, l = SubSeq(r, 1, k - 1), NEW o, o = <<r[k]>>, NEW v, v = SubSeq(r, k + 1, Len(r))
  PROVE  /\ l \in Seq(T) /\ o \in Seq(T) /\ v \in Seq(T)
         /\ Len(l) > 0 /\ Len(o) = 1 /\ Len(v) > 0 /\ o[1] = r[k]
         /\ (l \o o) \o v = r /\ l \o (o \o v) = r
         /\ \A n \in 1..Len(l) : l[n] = r[n] /\ n \in 1..Len(r) /\ n # k
         /\ \A n \in 1..Len(v) : v[n] = r[k + n] /\ k + n \in 1..Len(r) /\ k + n # k
<1>1. PICK N \in Nat : N = Len(r)
  OBVIOUS
<1>2. k \in Nat /\ k > 1 /\ k < N /\ r[k] \in T
  BY <1>1
<1>3. l \in Seq(T)
  BY <1>1, <1>2
<1>4. o \in Seq(T)
  BY <1>2
<1>5. v \in Seq(T)
  BY <1>1, <1>2
<1>6. Len(l) = k - 1 /\ \A n \in 1..k - 1 : l[n] = r[n]
  BY <1>1, <1>2
<1>7. Len(v) = N - k /\ \A n \in 1..N - k : v[n] = r[k + n]
  <2>1. Len(v) = N - k
    BY <1>1, <1>2, <1>5
  <2>2. ASSUME NEW n \in 1..N - k PROVE v[n] = r[k + n]
    <3>1. v[n] = r[(k + 1) + n - 1]
      BY <1>1, <1>2, <1>5
    <3>2. (k + 1) + n - 1 = k + n
      BY <1>2
    <3> QED
      BY <3>1, <3>2
  <2> QED
    BY <2>1, <2>2
<1>8. Len(o) = 1 /\ o[1] = r[k]
  OBVIOUS
<1>13. \A n \in 1..k - 1 : n \in 1..Len(r) /\ n # k
  BY <1>1, <1>2
<1>14. \A n \in 1..N - k : k + n \in 1..Len(r) /\ k + n # k
  BY <1>1, <1>2
<1>15. Len(l) > 0 /\ Len(v) > 0
  BY <1>1, <1>2, <1>6, <1>7
<1>16. (l \o o) \o v = r /\ l \o (o \o v) = r
  <2>1. Len(l) + 1 = k /\ \A n \in 1..Len(l) : l[n] = r[n]
    BY <1>2, <1>6
  <2>2. k + Len(v) = Len(r) /\ \A n \in 1..Len(v) : v[n] = r[k + n]
    BY <1>1, <1>2, <1>7
  <2>3. Parts(r, l, o, v, k)
    BY <1>8, <2>1, <2>2 DEF Parts
  <2> QED
    BY <1>2, <1>3, <1>4, <1>5, <2>3, JoinsThree
<1>17. /\ \A n \in 1..Len(l) : l[n] = r[n] /\ n \in 1..Len(r) /\ n # k
       /\ \A n \in 1..Len(v) : v[n] = r[k + n] /\ k + n \in 1..Len(r) /\ k + n # k
  BY <1>6, <1>7, <1>13, <1>14
<1> QED
  BY <1>3, <1>4, <1>5, <1>8, <1>15, <1>16, <1>17

LEMMA CutIs ==
  ASSUME NEW r, IsRequest(r), NEW c \in Cuts(r)
  PROVE  Pieces(c, r) /\ Bounded(c)
<1>1. CASE c = <<r>>
  <2>1. c \in Seq(Seq(STRING) \ {<<>>}) /\ Len(c) = 1 /\ c[1] = r /\ r \in Seq(STRING) \ {<<>>}
    BY <1>1 DEF IsRequest
  <2> QED
    BY <1>1, <2>1, WholeEnds DEF Pieces, Bounded
<1>2. CASE c # <<r>>
  <2>1. PICK k \in {n \in 2..Len(r) - 1 : r[n] \in Operators} :
          c \in {<<SubSeq(r, 1, k - 1), <<r[k]>>, SubSeq(r, k + 1, Len(r))>>,
                 <<SubSeq(r, 1, k - 1) \o <<r[k]>>, SubSeq(r, k + 1, Len(r))>>,
                 <<SubSeq(r, 1, k - 1), <<r[k]>> \o SubSeq(r, k + 1, Len(r))>>}
    BY <1>2 DEF Cuts
  <2>2. r \in Seq(STRING) /\ k \in 2..Len(r) - 1 /\ k \in 1..Len(r) /\ r[k] \in Operators
    BY <2>1 DEF IsRequest
  <2>3. PICK l, o, v : l = SubSeq(r, 1, k - 1) /\ o = <<r[k]>> /\ v = SubSeq(r, k + 1, Len(r))
    OBVIOUS
  <2>4. /\ l \in Seq(STRING) /\ o \in Seq(STRING) /\ v \in Seq(STRING)
        /\ Len(l) > 0 /\ Len(o) = 1 /\ Len(v) > 0 /\ o[1] = r[k]
    BY <2>2, <2>3, SplitIs
  <2>5. (l \o o) \o v = r /\ l \o (o \o v) = r
    BY <2>2, <2>3, SplitIs
  <2>6. /\ \A n \in 1..Len(l) : l[n] = r[n] /\ n \in 1..Len(r) /\ n # k
        /\ \A n \in 1..Len(v) : v[n] = r[k + n] /\ k + n \in 1..Len(r) /\ k + n # k
    BY <2>2, <2>3, SplitIs
  <2>7. l # <<>> /\ o # <<>> /\ v # <<>>
    <3>1. Len(l) # 0 /\ Len(o) # 0 /\ Len(v) # 0
      BY <2>4
    <3> QED
      BY <3>1
  <2>8. Plain(l) /\ Plain(v)
    <3>1. \A m \in 1..Len(r) : r[m] \in Operators => m = k
      BY <2>2 DEF IsRequest
    <3> QED
      BY <2>4, <2>6, <2>7, <3>1 DEF Plain
  <2>9. StandaloneOperator(o) /\ o[1] \in Operators
    BY <2>2, <2>4 DEF StandaloneOperator
  <2>10. CASE c = <<l, o, v>>
    <3>1. c \in Seq(Seq(STRING) \ {<<>>}) /\ Len(c) = 3 /\ c[1] = l /\ c[2] = o /\ c[3] = v
      BY <2>4, <2>7, <2>10
    <3>2. (c[1] \o c[2]) \o c[3] = r
      BY <2>5, <2>10, <3>1
    <3> QED
      BY <2>8, <2>9, <3>1, <3>2, PlainEnds DEF Pieces, Bounded
  <2>11. CASE c = <<l \o o, v>>
    <3>1. PICK a : a = l \o o
      OBVIOUS
    <3>2. a \in Seq(STRING) /\ Len(a) > 1 /\ a[1] = l[1] /\ a[Len(a)] = o[1]
      <4>1. l \in Seq(STRING) /\ o \in Seq(STRING) /\ Len(l) > 0 /\ Len(o) > 0
        BY <2>4
      <4>2. a \in Seq(STRING) /\ Len(a) > 1 /\ a[1] = l[1] /\ a[Len(a)] = o[Len(o)]
        BY <3>1, <4>1, JoinEnds
      <4>3. Len(o) = 1
        BY <2>4
      <4> QED
        BY <4>2, <4>3
    <3>3. a # <<>> /\ Len(a) # 1
      BY <3>2
    <3>4. a[1] \notin Operators /\ a[Len(a)] \in Operators /\ Head(a) = a[1]
      <4>1. l[1] \notin Operators
        <5>1. 1 \in 1..Len(l)
          BY <2>4
        <5> QED
          BY <2>8, <5>1 DEF Plain
      <4> QED
        BY <2>9, <3>2, <3>3, <4>1
    <3>5. EndsWithOperator(a) /\ ~StartsWithOperator(a) /\ ~StandaloneOperator(a)
      BY <3>2, <3>3, <3>4
      DEF EndsWithOperator, StartsWithOperator, StandaloneOperator, Last
    <3>6. c \in Seq(Seq(STRING) \ {<<>>}) /\ Len(c) = 2 /\ c[1] = a /\ c[2] = v
      BY <2>4, <2>7, <2>11, <3>1, <3>2, <3>3
    <3>7. c[1] \o c[2] = r
      BY <2>5, <2>11, <3>1, <3>6
    <3> QED
      BY <2>8, <3>5, <3>6, <3>7, PlainEnds DEF Pieces, Bounded
  <2>12. CASE c = <<l, o \o v>>
    <3>1. PICK a : a = o \o v
      OBVIOUS
    <3>2. a \in Seq(STRING) /\ Len(a) > 1 /\ a[1] = o[1] /\ a[Len(a)] = v[Len(v)]
      <4>1. o \in Seq(STRING) /\ v \in Seq(STRING) /\ Len(o) > 0 /\ Len(v) > 0
        BY <2>4
      <4> QED
        BY <3>1, <4>1, JoinEnds
    <3>3. a # <<>> /\ Len(a) # 1
      BY <3>2
    <3>4. a[1] \in Operators /\ a[Len(a)] \notin Operators /\ Head(a) = a[1]
      <4>1. v[Len(v)] \notin Operators
        <5>1. Len(v) \in 1..Len(v)
          BY <2>4
        <5> QED
          BY <2>8, <5>1 DEF Plain
      <4> QED
        BY <2>9, <3>2, <3>3, <4>1
    <3>5. StartsWithOperator(a) /\ ~EndsWithOperator(a) /\ ~StandaloneOperator(a)
      BY <3>2, <3>3, <3>4
      DEF EndsWithOperator, StartsWithOperator, StandaloneOperator, Last
    <3>6. c \in Seq(Seq(STRING) \ {<<>>}) /\ Len(c) = 2 /\ c[1] = l /\ c[2] = a
      BY <2>4, <2>7, <2>12, <3>1, <3>2, <3>3
    <3>7. c[1] \o c[2] = r
      BY <2>5, <2>12, <3>1, <3>6
    <3> QED
      BY <2>8, <3>5, <3>6, <3>7, PlainEnds DEF Pieces, Bounded
  <2> QED
    BY <2>1, <2>3, <2>10, <2>11, <2>12
<1> QED
  BY <1>1, <1>2

-----------------------------------------------------------------------------
(* Where the parser is.                                                    *)

\* The arguments are the pieces w of the requests rs, at the places off.
Cutting(rs, w, off) ==
  /\ rs \in Seq(Seq(STRING) \ {<<>>})
  /\ w \in Seq(Seq(Seq(STRING))) /\ Len(w) = Len(rs)
  /\ \A k \in 1..Len(rs) : Pieces(w[k], rs[k]) /\ Bounded(w[k])
  /\ IsOffset(off, w)
  /\ Len(args) = off[Len(rs)]
  /\ Placed(args, off, w, Len(rs))

\* Before the first piece of request k + 1: request k is stored, or the next
\* string that starts something else will store it.
Between(rs, off, k) ==
  /\ i = off[k] + 1 /\ op = FALSE
  /\ \/ arg = <<>> /\ stored = SubSeq(rs, 1, k)
     \/ k > 0 /\ arg = rs[k] /\ stored = SubSeq(rs, 1, k - 1)

\* After the first piece of request k + 1.
AfterOne(rs, w, off, k) ==
  /\ i = off[k] + 2 /\ Len(w[k + 1]) > 1 /\ stored = SubSeq(rs, 1, k)
  /\ arg = w[k + 1][1] /\ op = EndsWithOperator(w[k + 1][1])

\* After its operator.
AfterTwo(rs, w, off, k) ==
  /\ i = off[k] + 3 /\ Len(w[k + 1]) = 3 /\ stored = SubSeq(rs, 1, k)
  /\ arg = w[k + 1][1] \o w[k + 1][2] /\ op = TRUE

At(rs, w, off) ==
  \/ \E k \in 0..Len(rs) : Between(rs, off, k)
  \/ \E k \in 0..Len(rs) - 1 : AfterOne(rs, w, off, k) \/ AfterTwo(rs, w, off, k)

\* For every list of requests the arguments are a cut of.
CutInv ==
  \A rs \in Requests : args \in CutsOfAll(rs) =>
    \E w, off : /\ Cutting(rs, w, off)
                /\ phase = "compile" => At(rs, w, off)
                /\ phase # "compile" => stored = rs

LEMMA CutsAreCutting ==
  ASSUME NEW rs \in Requests, args \in CutsOfAll(rs)
  PROVE  \E w, off : Cutting(rs, w, off)
<1>1. rs \in Seq(Seq(STRING)) /\ \A k \in 1..Len(rs) : IsRequest(rs[k])
  BY RequestsAssumption
<1>2. PICK w \in [1..Len(rs) -> UNION {Cuts(rs[k]) : k \in 1..Len(rs)}] :
        args = FlattenSeq(w) /\ \A k \in 1..Len(rs) : w[k] \in Cuts(rs[k])
  BY DEF CutsOfAll
<1>3. \A k \in 1..Len(rs) : Pieces(w[k], rs[k]) /\ Bounded(w[k])
  BY <1>1, <1>2, CutIs
<1>4. \A k \in 1..Len(rs) : w[k] \in Seq(Seq(STRING))
  BY <1>3 DEF Bounded
<1>5. w \in [1..Len(rs) -> Seq(Seq(STRING))] /\ Len(rs) \in Nat
  BY <1>1, <1>2, <1>4
<1>6. w \in Seq(Seq(Seq(STRING))) /\ Len(w) = Len(rs)
  BY <1>5
<1>7. PICK off : /\ IsOffset(off, w)
                 /\ Len(FlattenSeq(w)) = off[Len(w)]
                 /\ Placed(FlattenSeq(w), off, w, Len(w))
  BY <1>6, FlattenIs
<1>8. rs \in Seq(Seq(STRING) \ {<<>>})
  <2>1. \A k \in 1..Len(rs) : rs[k] \in Seq(STRING) \ {<<>>}
    BY <1>1 DEF IsRequest
  <2>2. rs \in [1..Len(rs) -> Seq(STRING)] /\ Len(rs) \in Nat
    BY <1>1, LenProperties
  <2>3. rs \in [1..Len(rs) -> Seq(STRING) \ {<<>>}]
    BY <2>1, <2>2
  <2> QED
    BY <2>2, <2>3, SeqDef
<1> QED
  BY <1>2, <1>3, <1>6, <1>7, <1>8 DEF Cutting

\* The numbers of pieces.
LEMMA Counts ==
  \A n : n = 1 \/ n = 2 \/ n = 3 =>
    /\ 1 \in 1..n /\ (n = 1 \/ n > 1)
    /\ n > 1 => 2 \in 1..n /\ (n = 2 \/ n = 3)
    /\ n = 3 => 3 \in 1..n
  OBVIOUS

\* The k-th request begins before the last string, and its pieces follow each
\* other.
LEMMA NextRequest ==
  ASSUME NEW rs, NEW w, NEW off, Cutting(rs, w, off), NEW k \in 0..Len(rs) - 1,
         NEW c, c = w[k + 1]
  PROVE  /\ k \in Nat /\ k + 1 \in 0..Len(rs) /\ off[k] \in Nat
         /\ (Len(c) = 1 \/ Len(c) = 2 \/ Len(c) = 3) /\ off[k + 1] = off[k] + Len(c)
         /\ off[k + 1] <= Len(args) /\ Len(args) \in Nat
         /\ Pieces(c, rs[k + 1]) /\ Bounded(c)
         /\ \A m \in 1..Len(c) : args[off[k] + m] = c[m]
         /\ rs[k + 1] # <<>> /\ SubSeq(rs, 1, k + 1) = Append(SubSeq(rs, 1, k), rs[k + 1])
<1>1. /\ Len(rs) \in Nat /\ k \in Nat /\ k + 1 \in 1..Len(rs) /\ (k + 1) - 1 = k
      /\ k \in 0..Len(rs) /\ k + 1 \in 0..Len(rs) /\ Len(rs) \in 0..Len(rs)
      /\ k + 1 <= Len(rs)
  BY DEF Cutting
<1>2. /\ off \in [0..Len(rs) -> Nat] /\ Len(args) = off[Len(rs)]
      /\ off[k + 1] = off[k] + Len(c)
  <2>1. Len(w) = Len(rs) /\ IsOffset(off, w) /\ Len(args) = off[Len(rs)]
    BY DEF Cutting
  <2> QED
    BY <1>1, <2>1 DEF IsOffset
<1>3. off[k + 1] <= off[Len(rs)]
  <2>1. PICK T : T = Seq(STRING)
    OBVIOUS
  <2>2. w \in Seq(Seq(T)) /\ IsOffset(off, w) /\ Len(w) = Len(rs)
    BY <2>1 DEF Cutting
  <2>3. \A n, m \in 0..Len(w) : m <= n => off[m] <= off[n]
    BY <2>2, OffsetsGrow
  <2> QED
    BY <1>1, <2>2, <2>3
<1>4. Pieces(c, rs[k + 1]) /\ Bounded(c)
  BY <1>1 DEF Cutting
<1>5. \A m \in 1..Len(c) : args[off[k] + m] = c[m]
  <2>1. Placed(args, off, w, Len(rs))
    BY DEF Cutting
  <2> QED
    BY <1>1, <2>1 DEF Placed
<1>6. rs \in Seq(Seq(STRING) \ {<<>>})
  BY DEF Cutting
<1>7. rs[k + 1] # <<>>
  BY <1>1, <1>6
<1>8. SubSeq(rs, 1, k + 1) = Append(SubSeq(rs, 1, k), rs[k + 1])
  BY <1>1, <1>6
<1>9. Len(c) = 1 \/ Len(c) = 2 \/ Len(c) = 3
  <2>1. Len(c) \in 1..3
    BY <1>4 DEF Bounded
  <2> QED
    BY <2>1
<1>10. off[k] \in Nat /\ off[k + 1] <= Len(args) /\ Len(args) \in Nat
  BY <1>1, <1>2, <1>3
<1> QED
  BY <1>1, <1>2, <1>4, <1>5, <1>7, <1>8, <1>9, <1>10, Zenon

LEMMA NextLength ==
  ASSUME NEW rs, NEW w, NEW off, Cutting(rs, w, off), NEW k \in 0..Len(rs) - 1
  PROVE  /\ off[k] \in Nat /\ off[k + 1] = off[k] + Len(w[k + 1])
         /\ off[k + 1] <= Len(args) /\ Len(args) \in Nat
         /\ Len(w[k + 1]) = 1 \/ Len(w[k + 1]) = 2 \/ Len(w[k + 1]) = 3
<1>1. PICK c : c = w[k + 1]
  OBVIOUS
<1>2. /\ off[k] \in Nat /\ off[k + 1] = off[k] + Len(c)
      /\ off[k + 1] <= Len(args) /\ Len(args) \in Nat
  BY <1>1, NextRequest
<1>3. Len(c) = 1 \/ Len(c) = 2 \/ Len(c) = 3
  <2>1. Bounded(c)
    BY <1>1, NextRequest, Zenon
  <2>2. Len(c) \in 1..3
    BY <2>1 DEF Bounded
  <2> QED
    BY <2>2
<1> QED
  BY <1>1, <1>2, <1>3

\* What storeIfNotEmpty stores between two requests.
LEMMA BetweenStores ==
  ASSUME NEW rs, NEW w, NEW off, Cutting(rs, w, off), NEW k \in 0..Len(rs),
         Between(rs, off, k)
  PROVE  Stored(arg) = SubSeq(rs, 1, k)
<1>1. rs \in Seq(Seq(STRING) \ {<<>>}) /\ Len(rs) \in Nat /\ k \in Nat
  BY DEF Cutting
<1>2. CASE arg = <<>> /\ stored = SubSeq(rs, 1, k)
  BY <1>2 DEF Stored
<1>3. CASE k > 0 /\ arg = rs[k] /\ stored = SubSeq(rs, 1, k - 1)
  <2>1. k \in 1..Len(rs) /\ rs[k] # <<>>
    BY <1>1, <1>3
  <2>2. SubSeq(rs, 1, k) = Append(SubSeq(rs, 1, k - 1), rs[k])
    BY <1>1, <2>1
  <2> QED
    BY <1>3, <2>1, <2>2 DEF Stored
<1> QED
  BY <1>2, <1>3 DEF Between

\* Where there is a next string there is a next request.
LEMMA MoreToCome ==
  ASSUME Step, NEW rs, NEW w, NEW off, Cutting(rs, w, off),
         NEW k \in 0..Len(rs), Between(rs, off, k)
  PROVE  k \in 0..Len(rs) - 1
<1>1. i = off[k] + 1 /\ i <= Len(args)
  BY DEF Between, Step, JoinOperand, JoinOperator, OpenOperator, JoinComparison,
         StartString, Compiling
<1>2. Len(args) = off[Len(rs)] /\ off[Len(rs)] \in Nat /\ Len(rs) \in Nat
  BY DEF Cutting, IsOffset
<1>3. k # Len(rs)
  BY <1>1, <1>2
<1> QED
  BY <1>2, <1>3

\* The next string is the first piece of a request.
LEMMA FirstPiece ==
  ASSUME ArgsInv, Step, NEW rs, NEW w, NEW off, Cutting(rs, w, off),
         NEW k \in 0..Len(rs) - 1, Between(rs, off, k)
  PROVE  At(rs, w, off)'
<1>1. /\ i = off[k] + 1 /\ op = FALSE /\ i <= Len(args) /\ i' = i + 1
      /\ UNCHANGED args
  BY DEF Between, Step, JoinOperand, JoinOperator, OpenOperator, JoinComparison,
         StartString, Compiling, NextString
<1>2. PICK c : c = w[k + 1]
  OBVIOUS
<1>3. PICK r : r = rs[k + 1]
  OBVIOUS
<1>4. /\ k \in Nat /\ k + 1 \in 0..Len(rs) /\ off[k] \in Nat
      /\ off[k + 1] = off[k] + Len(c) /\ off[k + 1] <= Len(args) /\ Len(args) \in Nat
  BY <1>2, NextRequest
<1>7. Len(c) = 1 \/ Len(c) = 2 \/ Len(c) = 3
  BY <1>2, NextRequest
<1>6. Pieces(c, r) /\ Bounded(c)
  BY <1>2, <1>3, NextRequest
<1>5. \A m \in 1..Len(c) : args[off[k] + m] = c[m]
  BY <1>2, NextRequest
<1>8. Tmp = c[1] /\ ~StartsWithOperator(Tmp) /\ ~StandaloneOperator(Tmp)
  <2>1. 1 \in 1..Len(c)
    BY <1>7, Counts, Zenon
  <2> QED
    BY <1>1, <1>6, <1>5, <2>1 DEF Tmp, Bounded
<1>9. Stored(arg) = SubSeq(rs, 1, k)
  <2>1. k \in 0..Len(rs)
    BY <1>4 DEF Cutting
  <2> QED
    BY <2>1, BetweenStores
<1>10. (EndsWithOperator(Tmp) <=> op') /\ arg' = Tmp /\ stored' = SubSeq(rs, 1, k)
  <2>1. EndsWithOperator(Tmp) => Len(c) > 1
    BY <1>8, <1>6, <1>7 DEF Bounded
  <2>2. EndsWithOperator(Tmp) => i < Len(args)
    BY <1>1, <1>4, <1>7, <2>1
  <2> QED
    BY <1>1, <1>8, <1>9, <2>2
    DEF Step, JoinOperand, JoinOperator, OpenOperator, JoinComparison, StartString
<1>11. op' \in BOOLEAN
  BY <1>1 DEF Step, JoinOperand, JoinOperator, OpenOperator, JoinComparison, StartString
<1>12. CASE Len(c) = 1
  <2>1. c[1] = r
    BY <1>12, <1>6 DEF Pieces
  <2>2. ~EndsWithOperator(Tmp)
    BY <1>8, <1>12, <1>6 DEF Bounded
  <2>3. /\ i' = off[k + 1] + 1 /\ op' = FALSE /\ k + 1 > 0 /\ arg' = rs[k + 1]
        /\ (k + 1) - 1 = k
    BY <1>1, <1>3, <1>4, <1>8, <1>10, <1>11, <1>12, <2>1, <2>2
  <2>4. Between(rs, off, k + 1)'
    BY <1>10, <2>3 DEF Between
  <2> QED
    BY <1>4, <2>4 DEF At
<1>13. CASE Len(c) > 1
  <2>1. i' = off[k] + 2
    BY <1>1, <1>4
  <2>2. op' = EndsWithOperator(c[1])
    BY <1>8, <1>10, <1>11, Zenon DEF EndsWithOperator
  <2>3. AfterOne(rs, w, off, k)'
    BY <1>2, <1>8, <1>10, <1>13, <2>1, <2>2 DEF AfterOne
  <2> QED
    BY <2>3 DEF At
<1> QED
  BY <1>7, <1>12, <1>13, Counts, Zenon

\* The next string is the second piece.
LEMMA SecondPiece ==
  ASSUME ArgsInv, Step, NEW rs, NEW w, NEW off, Cutting(rs, w, off),
         NEW k \in 0..Len(rs) - 1, AfterOne(rs, w, off, k)
  PROVE  At(rs, w, off)'
<1>1. /\ i <= Len(args) /\ i' = i + 1 /\ UNCHANGED args
  BY DEF Step, JoinOperand, JoinOperator, OpenOperator, JoinComparison,
         StartString, Compiling, NextString
<1>2. PICK c : c = w[k + 1]
  OBVIOUS
<1>3. PICK r : r = rs[k + 1]
  OBVIOUS
<1>4. /\ k \in Nat /\ k + 1 \in 0..Len(rs) /\ off[k] \in Nat
      /\ off[k + 1] = off[k] + Len(c) /\ off[k + 1] <= Len(args) /\ Len(args) \in Nat
  BY <1>2, NextRequest
<1>5. Len(c) = 1 \/ Len(c) = 2 \/ Len(c) = 3
  BY <1>2, NextRequest
<1>6. Pieces(c, r) /\ Bounded(c)
  BY <1>2, <1>3, NextRequest
<1>7. \A m \in 1..Len(c) : args[off[k] + m] = c[m]
  BY <1>2, NextRequest
<1>8. r # <<>> /\ SubSeq(rs, 1, k + 1) = Append(SubSeq(rs, 1, k), r)
  BY <1>3, NextRequest
<1>9. Len(c) > 1
  BY <1>2 DEF AfterOne
<1>10. 2 \in 1..Len(c) /\ (Len(c) = 2 \/ Len(c) = 3)
  BY <1>5, <1>9, Counts, Zenon
<1>11. /\ i = off[k] + 2 /\ stored = SubSeq(rs, 1, k)
      /\ arg = c[1] /\ op = EndsWithOperator(c[1])
  BY <1>2 DEF AfterOne
<1>12. i > 1 /\ i # 1
  BY <1>4, <1>11
<1>13. Tmp = c[2]
  BY <1>11, <1>7, <1>10 DEF Tmp
<1>14. CASE Len(c) = 2
  <2>1. arg \o Tmp = r /\ (op \/ StartsWithOperator(Tmp))
    <3>1. c[1] \o c[2] = r /\ (EndsWithOperator(c[1]) \/ StartsWithOperator(c[2]))
      BY <1>14, <1>6 DEF Pieces
    <3> QED
      BY <1>11, <1>13, <3>1
  <2>2. ~EndsWithOperator(Tmp) /\ ~StandaloneOperator(Tmp)
    BY <1>13, <1>14, <1>6 DEF Bounded
  <2>3. stored' = Stored(arg \o Tmp) /\ arg' = <<>> /\ op' = FALSE
    BY <1>12, <2>1, <2>2
    DEF Step, JoinOperand, JoinOperator, OpenOperator, JoinComparison, StartString
  <2>4. stored' = SubSeq(rs, 1, k + 1)
    BY <1>11, <1>8, <2>1, <2>3 DEF Stored
  <2>5. i' = off[k + 1] + 1
    BY <1>1, <1>4, <1>11, <1>14
  <2>6. Between(rs, off, k + 1)'
    BY <2>3, <2>4, <2>5 DEF Between
  <2> QED
    BY <1>4, <2>6 DEF At
<1>15. CASE Len(c) = 3
  <2>1. StandaloneOperator(Tmp) /\ ~op
    <3>1. StandaloneOperator(c[2]) /\ ~EndsWithOperator(c[1])
      BY <1>15, <1>6 DEF Pieces
    <3> QED
      BY <1>11, <1>13, <3>1
  <2>2. ~AtTheEdge
    BY <1>4, <1>11, <1>12, <1>15 DEF AtTheEdge
  <2>3. arg' = arg \o Tmp /\ op' = TRUE /\ stored' = stored
    BY <2>1, <2>2
    DEF Step, JoinOperand, JoinOperator, OpenOperator, JoinComparison, StartString
  <2>4. i' = off[k] + 3
    BY <1>1, <1>4, <1>11
  <2>5. AfterTwo(rs, w, off, k)'
    BY <1>2, <1>11, <1>13, <1>15, <2>3, <2>4 DEF AfterTwo
  <2> QED
    BY <2>5 DEF At
<1> QED
  BY <1>14, <1>15, <1>10

\* The next string is the right hand side of an operator of its own.
LEMMA ThirdPiece ==
  ASSUME ArgsInv, Step, NEW rs, NEW w, NEW off, Cutting(rs, w, off),
         NEW k \in 0..Len(rs) - 1, AfterTwo(rs, w, off, k)
  PROVE  At(rs, w, off)'
<1>1. /\ i <= Len(args) /\ i' = i + 1 /\ UNCHANGED args
  BY DEF Step, JoinOperand, JoinOperator, OpenOperator, JoinComparison,
         StartString, Compiling, NextString
<1>2. PICK c : c = w[k + 1]
  OBVIOUS
<1>3. PICK r : r = rs[k + 1]
  OBVIOUS
<1>4. /\ k \in Nat /\ k + 1 \in 0..Len(rs) /\ off[k] \in Nat
      /\ off[k + 1] = off[k] + Len(c)
  BY <1>2, NextRequest
<1>5. Pieces(c, r)
  BY <1>2, <1>3, NextRequest
<1>6. \A m \in 1..Len(c) : args[off[k] + m] = c[m]
  BY <1>2, NextRequest
<1>7. r # <<>> /\ SubSeq(rs, 1, k + 1) = Append(SubSeq(rs, 1, k), r)
  BY <1>3, NextRequest
<1>8. /\ i = off[k] + 3 /\ Len(c) = 3 /\ stored = SubSeq(rs, 1, k)
      /\ arg = c[1] \o c[2] /\ op = TRUE
  BY <1>2 DEF AfterTwo
<1>9. Tmp = c[3]
  <2>1. 3 \in 1..Len(c)
    <3>1. Len(c) = 3
      BY <1>8
    <3> QED
      BY <3>1, Counts, Zenon
  <2> QED
    BY <1>8, <1>6, <2>1 DEF Tmp
<1>10. arg \o Tmp = r
  <2>1. (c[1] \o c[2]) \o c[3] = r
    BY <1>8, <1>5 DEF Pieces
  <2> QED
    BY <1>8, <1>9, <2>1
<1>11. stored' = Stored(arg \o Tmp) /\ arg' = <<>> /\ op' = FALSE
  BY <1>8
  DEF Step, JoinOperand, JoinOperator, OpenOperator, JoinComparison, StartString
<1>12. stored' = SubSeq(rs, 1, k + 1)
  BY <1>8, <1>10, <1>11, <1>7 DEF Stored
<1>13. i' = off[k + 1] + 1
  BY <1>1, <1>4, <1>8
<1>14. Between(rs, off, k + 1)'
  BY <1>11, <1>12, <1>13 DEF Between
<1> QED
  BY <1>4, <1>14 DEF At

LEMMA CutInit == Init => CutInv
<1> SUFFICES ASSUME Init, NEW rs \in Requests, args \in CutsOfAll(rs)
             PROVE  \E w, off : Cutting(rs, w, off) /\ At(rs, w, off)
  BY DEF CutInv, Init
<1>1. PICK w, off : Cutting(rs, w, off)
  BY CutsAreCutting
<1>2. Len(rs) \in Nat /\ rs \in Seq(Seq(STRING) \ {<<>>}) /\ off[0] = 0
  BY <1>1 DEF Cutting, IsOffset
<1>3. SubSeq(rs, 1, 0) = <<>> /\ 0 \in 0..Len(rs)
  BY <1>2
<1>4. Between(rs, off, 0)
  BY <1>2, <1>3 DEF Between, Init
<1> QED
  BY <1>1, <1>3, <1>4 DEF At

\* The last request is complete when there is no string left.
LEMMA AllJoined ==
  ASSUME EndCompile, NEW rs, NEW w, NEW off, Cutting(rs, w, off), At(rs, w, off)
  PROVE  stored' = rs
<1>1. i > Len(args) /\ stored' = Stored(arg)
  BY DEF EndCompile
<1>2. CASE \E k \in 0..Len(rs) - 1 : AfterOne(rs, w, off, k) \/ AfterTwo(rs, w, off, k)
  <2>1. PICK k \in 0..Len(rs) - 1 : AfterOne(rs, w, off, k) \/ AfterTwo(rs, w, off, k)
    BY <1>2
  <2>2. PICK c, n : c = w[k + 1] /\ n = Len(c)
    OBVIOUS
  <2>3. /\ off[k] \in Nat /\ off[k + 1] = off[k] + Len(w[k + 1])
        /\ off[k + 1] <= Len(args) /\ Len(args) \in Nat
        /\ Len(w[k + 1]) = 1 \/ Len(w[k + 1]) = 2 \/ Len(w[k + 1]) = 3
    BY NextLength
  <2>5. off[k] \in Nat /\ off[k + 1] = off[k] + n /\ off[k + 1] <= Len(args) /\ Len(args) \in Nat
        /\ (n = 1 \/ n = 2 \/ n = 3)
    BY <2>2, <2>3
  <2>6. (i = off[k] + 2 /\ n > 1) \/ (i = off[k] + 3 /\ n = 3)
    BY <2>1, <2>2 DEF AfterOne, AfterTwo
  <2> QED
    BY <1>1, <2>5, <2>6
<1>3. CASE \E k \in 0..Len(rs) : Between(rs, off, k)
  <2>1. PICK k \in 0..Len(rs) : Between(rs, off, k)
    BY <1>3
  <2>2. k = Len(rs)
    <3> SUFFICES ASSUME k # Len(rs) PROVE FALSE
      OBVIOUS
    <3>1. Len(rs) \in Nat /\ k \in 0..Len(rs) - 1
      BY DEF Cutting
    <3>2. PICK c, n : c = w[k + 1] /\ n = Len(c)
      OBVIOUS
    <3>3. off[k] \in Nat /\ off[k + 1] = off[k] + n /\ off[k + 1] <= Len(args)
          /\ Len(args) \in Nat /\ (n = 1 \/ n = 2 \/ n = 3)
      BY <3>1, <3>2, NextRequest
    <3>4. i = off[k] + 1
      BY <2>1 DEF Between
    <3> QED
      BY <1>1, <3>3, <3>4
  <2>3. stored' = SubSeq(rs, 1, Len(rs))
    BY <1>1, <2>1, <2>2, BetweenStores
  <2>4. rs \in Seq(Seq(STRING) \ {<<>>})
    BY DEF Cutting
  <2> QED
    BY <2>3, <2>4
<1> QED
  BY <1>2, <1>3 DEF At

LEMMA CutKeeps ==
  ASSUME ArgsInv, CutInv, [Next]_vars
  PROVE  CutInv'
<1> SUFFICES ASSUME NEW rs \in Requests, (args \in CutsOfAll(rs))'
             PROVE  \E w, off : /\ Cutting(rs, w, off)'
                                /\ (phase = "compile" => At(rs, w, off))'
                                /\ (phase # "compile" => stored = rs)'
  BY DEF CutInv
<1>1. UNCHANGED args
  BY DEF Next, vars, JoinOperand, JoinOperator, OpenOperator, JoinComparison, StartString,
         NextString, EndCompile, Reject, Sort, EndSort
<1>2. PICK w, off : /\ Cutting(rs, w, off)
                    /\ phase = "compile" => At(rs, w, off)
                    /\ phase # "compile" => stored = rs
  BY <1>1 DEF CutInv
<1>3. Cutting(rs, w, off)'
  BY <1>1, <1>2 DEF Cutting
<1>4. CASE Step
  <2>1. phase = "compile" /\ phase' = phase
    BY <1>4 DEF Step, JoinOperand, JoinOperator, OpenOperator, JoinComparison,
       StartString, Compiling, NextString
  <2>2. At(rs, w, off)'
    <3>1. CASE \E k \in 0..Len(rs) : Between(rs, off, k)
      BY <1>2, <1>4, <3>1, MoreToCome, FirstPiece
    <3>2. CASE \E k \in 0..Len(rs) - 1 : AfterOne(rs, w, off, k) \/ AfterTwo(rs, w, off, k)
      BY <1>2, <1>4, <3>2, SecondPiece, ThirdPiece
    <3> QED
      BY <1>2, <2>1, <3>1, <3>2 DEF At
  <2> QED
    BY <1>3, <2>1, <2>2
<1>5. CASE EndCompile
  <2>1. stored' = rs
    BY <1>2, <1>5, AllJoined DEF EndCompile
  <2>2. phase' = "sort"
    BY <1>5 DEF EndCompile
  <2> QED
    BY <1>3, <2>1, <2>2
<1>6. CASE (\E a \in todo : Reject(a) \/ Sort(a)) \/ EndSort
  <2>1. phase = "sort" /\ phase' # "compile" /\ stored' = stored
    BY <1>6 DEF Reject, Sort, EndSort, compileVars
  <2> QED
    BY <1>2, <1>3, <2>1
<1>7. CASE UNCHANGED vars
  <2>1. UNCHANGED <<args, i, arg, op, stored, phase>>
    BY <1>7 DEF vars
  <2>2. At(rs, w, off)' <=> At(rs, w, off)
    BY <2>1 DEF At, Between, AfterOne, AfterTwo
  <2> QED
    BY <1>2, <1>3, <2>1, <2>2
<1> QED
  BY <1>4, <1>5, <1>6, <1>7 DEF Next, Step

\* However a caller cuts a list of requests at their operators, preprocess puts
\* the same requests together again, next to whatever they stand.
THEOREM CutsJoined == Spec => []CutsDoNotMatter
<1>1. CutInv => CutsDoNotMatter
  BY DEF CutInv, CutsDoNotMatter
<1>2. ArgsInv /\ CutInv /\ [Next]_vars => CutInv'
  BY CutKeeps
<1> QED
  BY <1>1, <1>2, CutInit, ArgsInductive, PTL DEF Spec

-----------------------------------------------------------------------------
(* The digits of a length.                                                *)

LEMMA DivideIs ==
  ASSUME NEW n \in Nat
  PROVE  /\ Base \in Nat /\ n \div Base \in Nat /\ n % Base \in Nat
         /\ n = (n \div Base) * Base + (n % Base)
         /\ n >= Base => n \div Base < n
<1>1. PICK b \in Nat : b = Base /\ b > 1
  BY FramingAssumption
<1>2. n \div b \in Nat /\ n % b \in Nat
  BY <1>1
<1>3. n = (n \div b) * b + (n % b)
  BY <1>1
<1>4. n >= b => n \div b < n
  <2>1. PICK q \in Nat, m \in Nat : q = n \div b /\ m = n % b
    BY <1>2
  <2>2. n = q * b + m
    BY <1>3, <2>1
  <2>3. n >= b /\ q >= n => FALSE
    BY <1>1, <2>2
  <2> QED
    BY <2>1, <2>3
<1> QED
  BY <1>1, <1>2, <1>3, <1>4

DigitsNext(f, n) == IF n < Base THEN <<Digit(n)>> ELSE Append(f[n \div Base], Digit(n % Base))
IsDigits(f, N) == f = [n \in 0..N |-> DigitsNext(f, n)]

LEMMA DigitsDef == Digits = CHOOSE f : f = [n \in Nat |-> DigitsNext(f, n)]
  BY Zenon DEF Digits, DigitsNext

LEMMA DigitsExist ==
  ASSUME NEW N \in Nat
  PROVE  \E f : IsDigits(f, N)
<1> DEFINE S == {n \in Nat : \E f : IsDigits(f, n)}
<1>0. Base \in Nat /\ Base > 1
  BY FramingAssumption
<1>1. 0 \in S
  <2> DEFINE f == [n \in 0..0 |-> <<Digit(n)>>]
  <2>1. \A n \in 0..0 : n < Base
    BY <1>0
  <2>2. f = [n \in 0..0 |-> DigitsNext(f, n)]
    BY <2>1 DEF DigitsNext
  <2> QED
    BY <2>2 DEF IsDigits
<1>2. ASSUME NEW n \in Nat, n \in S PROVE n + 1 \in S
  <2>1. PICK f : IsDigits(f, n)
    BY <1>2
  <2> DEFINE g == [k \in 0..n + 1 |-> IF k = n + 1 THEN DigitsNext(f, n + 1) ELSE f[k]]
             h == [k \in 0..n + 1 |-> DigitsNext(g, k)]
  <2>2. \A k \in 0..n : f[k] = DigitsNext(f, k)
    BY <2>1 DEF IsDigits
  <2>3. \A k \in 0..n : g[k] = f[k]
    OBVIOUS
  <2>4. ASSUME NEW k \in 0..n + 1 PROVE g[k] = h[k]
    <3>1. g[k] = DigitsNext(f, k)
      BY <2>2
    <3>2. ~(k < Base) => k \div Base \in 0..n
      <4>1. k \in Nat /\ k <= n + 1
        OBVIOUS
      <4>2. ~(k < Base) => k \div Base \in Nat /\ k \div Base < k
        BY <1>0, <4>1, DivideIs
      <4> QED
        BY <4>1, <4>2
    <3>3. ~(k < Base) => g[k \div Base] = f[k \div Base]
      BY <2>3, <3>2
    <3> HIDE DEF g
    <3>4. h[k] = DigitsNext(f, k)
      BY <3>3 DEF DigitsNext
    <3> QED
      BY <3>1, <3>4
  <2>5. g = h
    BY <2>4
  <2> HIDE DEF g
  <2>6. IsDigits(g, n + 1)
    BY <2>5 DEF IsDigits
  <2> QED
    BY <2>6
<1> HIDE DEF S
<1>3. N \in S
  BY <1>1, <1>2, NatInd
<1> QED
  BY <1>3 DEF S

LEMMA DigitsUnique ==
  ASSUME NEW N \in Nat, NEW M \in Nat, NEW f, NEW g, IsDigits(f, N), IsDigits(g, M)
  PROVE  \A k \in Nat : k <= N /\ k <= M => f[k] = g[k]
<1> DEFINE S == {n \in Nat : \A k \in 0..n : k <= N /\ k <= M => f[k] = g[k]}
<1>1. /\ \A k \in 0..N : f[k] = DigitsNext(f, k)
      /\ \A k \in 0..M : g[k] = DigitsNext(g, k)
  BY DEF IsDigits
<1>2. ASSUME NEW k \in Nat, k <= N, k <= M, \A m \in Nat : m < k => f[m] = g[m]
      PROVE  f[k] = g[k]
  <2>1. ~(k < Base) => k \div Base \in Nat /\ k \div Base < k
    BY DivideIs
  <2>2. ~(k < Base) => f[k \div Base] = g[k \div Base]
    BY <1>2, <2>1
  <2>3. DigitsNext(f, k) = DigitsNext(g, k)
    BY <2>2 DEF DigitsNext
  <2> QED
    BY <1>1, <1>2, <2>3
<1>3. 0 \in S
  <2>1. \A m \in Nat : ~(m < 0)
    OBVIOUS
  <2>2. 0 <= N /\ 0 <= M => f[0] = g[0]
    BY <1>2, <2>1
  <2>3. \A k \in 0..0 : k = 0
    OBVIOUS
  <2> QED
    BY <2>2, <2>3
<1>4. ASSUME NEW n \in Nat, n \in S PROVE n + 1 \in S
  <2> SUFFICES ASSUME NEW k \in 0..n + 1, k <= N, k <= M PROVE f[k] = g[k]
    OBVIOUS
  <2>1. \A m \in Nat : m < k => m \in 0..n /\ m <= N /\ m <= M
    OBVIOUS
  <2>2. \A m \in Nat : m < k => f[m] = g[m]
    BY <1>4, <2>1
  <2> QED
    BY <1>2, <2>2
<1> HIDE DEF S
<1>5. Nat \subseteq S
  BY <1>3, <1>4, NatInd
<1>6. ASSUME NEW k \in Nat, k <= N, k <= M PROVE f[k] = g[k]
  <2>1. k \in S /\ k \in 0..k
    BY <1>5
  <2> QED
    BY <1>6, <2>1 DEF S
<1> QED
  BY <1>6

LEMMA DigitsIs ==
  \A n \in Nat : Digits[n] = DigitsNext(Digits, n)
<1> DEFINE F(n) == CHOOSE f : IsDigits(f, n)
           D == [n \in Nat |-> F(n)[n]]
           E == [n \in Nat |-> DigitsNext(D, n)]
<1>1. \A n \in Nat : IsDigits(F(n), n)
  BY DigitsExist
<1>2. ASSUME NEW n \in Nat PROVE D[n] = E[n]
  <2>0. n \in 0..n /\ Base \in Nat /\ Base > 1
    BY FramingAssumption
  <2>1. PICK f : f = F(n) /\ IsDigits(f, n) /\ f[n] = DigitsNext(f, n) /\ D[n] = f[n]
    <3>1. PICK f : f = F(n) /\ IsDigits(f, n) /\ D[n] = f[n]
      BY <1>1
    <3>2. f[n] = DigitsNext(f, n)
      BY <2>0, <3>1 DEF IsDigits
    <3> QED
      BY <3>1, <3>2
  <2>2. ~(n < Base) => D[n \div Base] = f[n \div Base]
    <3> SUFFICES ASSUME ~(n < Base) PROVE D[n \div Base] = f[n \div Base]
      OBVIOUS
    <3>1. PICK k \in Nat : k = n \div Base /\ k <= n
      BY <2>0, DivideIs
    <3>2. PICK g : g = F(k) /\ IsDigits(g, k) /\ D[k] = g[k]
      BY <1>1, <3>1
    <3>3. g[k] = f[k]
      <4>1. IsDigits(f, n) /\ IsDigits(g, k) /\ k <= k /\ k <= n
        BY <2>1, <3>1, <3>2
      <4> QED
        BY <4>1, DigitsUnique
    <3> QED
      BY <3>1, <3>2, <3>3
  <2> HIDE DEF D
  <2>3. DigitsNext(D, n) = DigitsNext(f, n)
    BY <2>2 DEF DigitsNext
  <2> QED
    BY <2>1, <2>3
<1>3. D = E
  BY <1>2
<1> HIDE DEF D
<1>4. \E f : f = [n \in Nat |-> DigitsNext(f, n)]
  BY <1>3
<1>5. Digits = [n \in Nat |-> DigitsNext(Digits, n)]
  BY <1>4, DigitsDef, Zenon
<1>6. PICK f : f = Digits
  OBVIOUS
<1>7. f = [n \in Nat |-> DigitsNext(f, n)]
  BY <1>5, <1>6
<1>8. \A n \in Nat : f[n] = DigitsNext(f, n)
  BY <1>7
<1> QED
  BY <1>6, <1>8

LEMMA DigitsTyped ==
  \A n \in Nat : /\ Digits[n] \in Seq({"digit"} \X Nat) /\ Digits[n] # <<>>
                 /\ \A k \in 1..Len(Digits[n]) : IsDigit(Digits[n][k]) /\ Digits[n][k] \in Symbols
<1> DEFINE T == {"digit"} \X Nat
           S == {n \in Nat : \A m \in 0..n : Digits[m] \in Seq(T) /\ Digits[m] # <<>>}
<1>0. Base \in Nat /\ Base > 1
  BY FramingAssumption
<1>1. ASSUME NEW n \in Nat, \A m \in Nat : m < n => Digits[m] \in Seq(T) /\ Digits[m] # <<>>
      PROVE  Digits[n] \in Seq(T) /\ Digits[n] # <<>>
  <2>1. CASE n < Base
    <3>1. Digits[n] = <<Digit(n)>> /\ Digit(n) \in T
      BY <2>1, DigitsIs DEF DigitsNext, Digit
    <3> QED
      BY <3>1
  <2>2. CASE ~(n < Base)
    <3>1. Digits[n] = Append(Digits[n \div Base], Digit(n % Base))
      BY <2>2, DigitsIs DEF DigitsNext
    <3>2. n \div Base \in Nat /\ n \div Base < n /\ n % Base \in Nat
      BY <1>0, <2>2, DivideIs
    <3>3. PICK d : d = Digits[n \div Base] /\ d \in Seq(T)
      BY <1>1, <3>2
    <3>4. PICK e \in T : e = Digit(n % Base)
      BY <3>2 DEF Digit
    <3>5. Digits[n] = Append(d, e)
      BY <3>1, <3>3, <3>4
    <3> QED
      BY <3>3, <3>5
  <2> QED
    BY <2>1, <2>2
<1>2. 0 \in S
  <2>1. Digits[0] \in Seq(T) /\ Digits[0] # <<>>
    <3>1. \A m \in Nat : ~(m < 0)
      OBVIOUS
    <3> QED
      BY <1>1, <3>1
  <2>2. \A m \in 0..0 : m = 0
    OBVIOUS
  <2> QED
    BY <2>1, <2>2
<1>3. ASSUME NEW n \in Nat, n \in S PROVE n + 1 \in S
  <2>1. \A m \in Nat : m < n + 1 => m \in 0..n
    OBVIOUS
  <2>2. Digits[n + 1] \in Seq(T) /\ Digits[n + 1] # <<>>
    BY <1>1, <1>3, <2>1
  <2>3. \A m \in 0..n + 1 : m \in 0..n \/ m = n + 1
    OBVIOUS
  <2> QED
    BY <1>3, <2>2, <2>3
<1> HIDE DEF S
<1>4. Nat \subseteq S
  BY <1>2, <1>3, NatInd
<1>5. ASSUME NEW n \in Nat PROVE Digits[n] \in Seq(T) /\ Digits[n] # <<>>
  <2>1. n \in S /\ n \in 0..n
    BY <1>4
  <2> QED
    BY <2>1 DEF S
<1>6. ASSUME NEW n \in Nat, NEW k \in 1..Len(Digits[n])
      PROVE  IsDigit(Digits[n][k]) /\ Digits[n][k] \in Symbols
  <2>1. PICK d : d = Digits[n] /\ d \in Seq(T) /\ k \in 1..Len(d)
    BY <1>5, <1>6
  <2>2. d[k] \in {"digit"} \X Nat
    BY <2>1
  <2>3. PICK t \in Nat : d[k] = <<"digit", t>>
    BY <2>2
  <2>4. IsDigit(<<"digit", t>>)
    BY DEF IsDigit
  <2>5. <<"digit", t>> \in Symbols
    BY DEF Symbols
  <2> QED
    BY <2>1, <2>3, <2>4, <2>5
<1> QED
  BY <1>5, <1>6

-----------------------------------------------------------------------------
(* The fold of Value.                                                      *)

Plus(n, s) == IF IsDigit(s) THEN n * Base + s[2] ELSE n
Turn(it, ds, s) == IF s = {} THEN 0 ELSE Plus(it[s \ {Max(s)}], ds[Max(s)])
IsTurns(it, ds, D) == it = [s \in SUBSET D |-> Turn(it, ds, s)]

LEMMA PlusDigit ==
  \A n, d : Plus(n, Digit(d)) = n * Base + d
<1> SUFFICES ASSUME NEW n, NEW d PROVE Plus(n, Digit(d)) = n * Base + d
  OBVIOUS
<1>1. Digit(d)[1] = "digit" /\ Digit(d)[2] = d
  BY DEF Digit
<1> QED
  BY <1>1 DEF Plus, IsDigit

LEMMA ValueDef ==
  ASSUME NEW ds
  PROVE  Value(ds) = (CHOOSE it : IsTurns(it, ds, DOMAIN ds))[DOMAIN ds]
  BY Zenon DEF Value, FoldLeft, MapThenFoldSet, IsTurns, Turn, Plus

LEMMA MaxIs ==
  ASSUME NEW N \in Nat, NEW s \in SUBSET (1..N), N \in s
  PROVE  Max(s) = N
<1>1. \A y \in s : N >= y
  OBVIOUS
<1>2. Max(s) \in s /\ \A y \in s : Max(s) >= y
  BY <1>1 DEF Max
<1>3. PICK m : m = Max(s)
  OBVIOUS
<1>4. m \in s /\ m >= N
  BY <1>2, <1>3
<1>5. m \in Nat /\ N >= m
  BY <1>1, <1>4
<1> QED
  BY <1>3, <1>4, <1>5

LEMMA TurnsExist ==
  ASSUME NEW ds, NEW N \in Nat
  PROVE  \E it : IsTurns(it, ds, 1..N)
<1> DEFINE S == {n \in Nat : \E it : IsTurns(it, ds, 1..n)}
<1>1. 0 \in S
  <2> DEFINE it == [s \in SUBSET (1..0) |-> 0]
  <2>1. \A s \in SUBSET (1..0) : s = {}
    OBVIOUS
  <2>2. it = [s \in SUBSET (1..0) |-> Turn(it, ds, s)]
    BY <2>1 DEF Turn
  <2> QED
    BY <2>2 DEF IsTurns
<1>2. ASSUME NEW n \in Nat, n \in S PROVE n + 1 \in S
  <2>1. PICK f : IsTurns(f, ds, 1..n)
    BY <1>2
  <2> DEFINE g == [s \in SUBSET (1..n + 1) |-> IF n + 1 \in s THEN Turn(f, ds, s) ELSE f[s]]
             h == [s \in SUBSET (1..n + 1) |-> Turn(g, ds, s)]
  <2>2. \A s \in SUBSET (1..n) : f[s] = Turn(f, ds, s)
    BY <2>1 DEF IsTurns
  <2>3. \A s \in SUBSET (1..n) : s \in SUBSET (1..n + 1) /\ n + 1 \notin s
    OBVIOUS
  <2>4. \A s \in SUBSET (1..n) : g[s] = f[s]
    BY <2>3
  <2>5. ASSUME NEW s \in SUBSET (1..n + 1) PROVE g[s] = h[s]
    <3>1. n + 1 \notin s => s \in SUBSET (1..n)
      OBVIOUS
    <3>2. g[s] = Turn(f, ds, s)
      BY <2>2, <3>1
    <3>3. s # {} => s \ {Max(s)} \in SUBSET (1..n)
      <4>1. CASE n + 1 \in s
        <5>1. Max(s) = n + 1
          BY <4>1, MaxIs
        <5> QED
          BY <5>1
      <4>2. CASE n + 1 \notin s
        BY <3>1, <4>2
      <4> QED
        BY <4>1, <4>2
    <3>4. s # {} => g[s \ {Max(s)}] = f[s \ {Max(s)}]
      BY <2>4, <3>3
    <3> HIDE DEF g
    <3>5. h[s] = Turn(f, ds, s)
      BY <3>4 DEF Turn
    <3> QED
      BY <3>2, <3>5
  <2>6. g = h
    BY <2>5
  <2> HIDE DEF g
  <2>7. IsTurns(g, ds, 1..n + 1)
    BY <2>6 DEF IsTurns
  <2> QED
    BY <2>7
<1> HIDE DEF S
<1>3. N \in S
  BY <1>1, <1>2, NatInd
<1> QED
  BY <1>3 DEF S

\* The value of the first k digits is v[k].
Reads(v, ds, N) == v[0] = 0 /\ \A k \in 1..N : v[k] = Plus(v[k - 1], ds[k])

LEMMA ValueIs ==
  ASSUME NEW T, NEW ds \in Seq(T)
  PROVE  \E v : Reads(v, ds, Len(ds)) /\ Value(ds) = v[Len(ds)]
<1>1. PICK N \in Nat : N = Len(ds) /\ DOMAIN ds = 1..N
  OBVIOUS
<1>2. PICK it : IsTurns(it, ds, 1..N) /\ Value(ds) = it[1..N]
  <2>1. Value(ds) = (CHOOSE it : IsTurns(it, ds, 1..N))[1..N]
    BY <1>1, ValueDef
  <2> QED
    BY <2>1, TurnsExist
<1>3. PICK v : v = [k \in 0..N |-> it[1..k]]
  OBVIOUS
<1>4. \A s \in SUBSET (1..N) : it[s] = Turn(it, ds, s)
  BY <1>2 DEF IsTurns
<1>5. v[0] = 0
  <2>1. 1..0 = {} /\ {} \in SUBSET (1..N) /\ 0 \in 0..N
    OBVIOUS
  <2>2. it[{}] = 0
    BY <1>4, <2>1 DEF Turn
  <2> QED
    BY <1>3, <2>1, <2>2
<1>6. ASSUME NEW k \in 1..N PROVE v[k] = Plus(v[k - 1], ds[k])
  <2>1. k \in 0..N /\ k - 1 \in 0..N /\ k \in Nat /\ k \in 1..k /\ 1..k \in SUBSET (1..N)
    OBVIOUS
  <2>2. Max(1..k) = k
    BY <2>1, MaxIs
  <2>3. ((1..k) \ {k}) = (1..(k - 1)) /\ 1..k # {}
    <3>1. \A j : j \in (1..k) \ {k} <=> j \in 1..(k - 1)
      BY <2>1
    <3> QED
      BY <2>1, <3>1
  <2>4. it[1..k] = Turn(it, ds, 1..k)
    BY <1>4, <2>1
  <2>5. it[1..k] = Plus(it[1..(k - 1)], ds[k])
    BY <2>2, <2>3, <2>4 DEF Turn
  <2>6. v[k] = it[1..k] /\ v[k - 1] = it[1..(k - 1)]
    BY <1>3, <2>1
  <2> QED
    BY <2>5, <2>6
<1> QED
  <2>1. v[N] = it[1..N]
    BY <1>1, <1>3
  <2> QED
    BY <1>1, <1>2, <1>5, <1>6, <2>1 DEF Reads

Right(n) == \A v : Reads(v, Digits[n], Len(Digits[n])) => v[Len(Digits[n])] = n

\* What the digits say.
LEMMA ReadsBack ==
  \A n \in Nat : Right(n)
<1> DEFINE S == {n \in Nat : \A m \in 0..n : Right(m)}
<1>0. Base \in Nat /\ Base > 1
  BY FramingAssumption
<1>1. ASSUME NEW n \in Nat, \A m \in Nat : m < n => Right(m) PROVE Right(n)
  <2> SUFFICES ASSUME NEW v, Reads(v, Digits[n], Len(Digits[n]))
               PROVE  v[Len(Digits[n])] = n
    BY DEF Right
  <2>1. CASE n < Base
    <3>1. Digits[n] = <<Digit(n)>>
      BY <2>1, DigitsIs DEF DigitsNext
    <3>2. Len(Digits[n]) = 1 /\ Digits[n][1] = Digit(n)
      BY <3>1
    <3>3. v[0] = 0 /\ v[1] = Plus(v[1 - 1], Digit(n))
      BY <3>2 DEF Reads
    <3>4. v[1] = n
      BY <1>0, <3>3, PlusDigit
    <3> QED
      BY <3>2, <3>4
  <2>2. CASE ~(n < Base)
    <3>1. PICK q, m : q = n \div Base /\ m = n % Base
      OBVIOUS
    <3>2. q \in Nat /\ q < n /\ m \in Nat /\ n = q * Base + m
      BY <1>0, <2>2, <3>1, DivideIs
    <3>3. Digits[n] = Append(Digits[q], Digit(m))
      BY <2>2, <3>1, DigitsIs DEF DigitsNext
    <3>4. PICK d, N : d = Digits[q] /\ N = Len(d) /\ d \in Seq({"digit"} \X Nat) /\ N \in Nat
      <4>1. PICK d : d = Digits[q] /\ d \in Seq({"digit"} \X Nat)
        BY <3>2, DigitsTyped
      <4>2. Len(d) \in Nat
        BY <4>1
      <4> QED
        BY <4>1, <4>2
    <3>5. PICK e : e = Digits[n] /\ e = Append(d, Digit(m))
      BY <3>3, <3>4
    <3>6. Len(e) = N + 1 /\ e[N + 1] = Digit(m) /\ \A k \in 1..N : e[k] = d[k]
      BY <3>4, <3>5
    <3>7. Reads(v, d, N) /\ v[N + 1] = Plus(v[(N + 1) - 1], e[N + 1])
      <4>1. v[0] = 0 /\ \A k \in 1..N + 1 : v[k] = Plus(v[k - 1], e[k])
        BY <3>5, <3>6 DEF Reads
      <4>2. \A k \in 1..N : k \in 1..N + 1
        BY <3>4
      <4>3. N + 1 \in 1..N + 1
        BY <3>4
      <4> QED
        BY <3>6, <4>1, <4>2, <4>3 DEF Reads
    <3>8. v[N] = q
      BY <1>1, <3>2, <3>4, <3>7 DEF Right
    <3>9. v[N + 1] = q * Base + m
      <4>1. (N + 1) - 1 = N
        BY <3>4
      <4> QED
        BY <3>2, <3>6, <3>7, <3>8, <4>1, PlusDigit
    <3> QED
      BY <3>2, <3>5, <3>6, <3>9
  <2> QED
    BY <2>1, <2>2
<1>2. 0 \in S
  <2>1. \A m \in Nat : ~(m < 0)
    OBVIOUS
  <2>2. Right(0)
    BY <1>1, <2>1
  <2>3. \A m \in 0..0 : m = 0
    OBVIOUS
  <2> QED
    BY <2>2, <2>3
<1>3. ASSUME NEW n \in Nat, n \in S PROVE n + 1 \in S
  <2>1. \A m \in Nat : m < n + 1 => m \in 0..n
    OBVIOUS
  <2>2. Right(n + 1)
    BY <1>1, <1>3, <2>1
  <2>3. \A m \in 0..n + 1 : m \in 0..n \/ m = n + 1
    OBVIOUS
  <2> QED
    BY <1>3, <2>2, <2>3
<1> HIDE DEF S
<1>4. Nat \subseteq S
  BY <1>2, <1>3, NatInd
<1>5. ASSUME NEW n \in Nat PROVE Right(n)
  <2>1. n \in S /\ n \in 0..n
    BY <1>4
  <2> QED
    BY <2>1 DEF S
<1> QED
  BY <1>5

-----------------------------------------------------------------------------
(* The parts of a frame.                                                  *)

\* What stands before the blank line.
HeadOf(p) == <<Key>> \o Digits[Len(p)]

LEMMA MarksAre ==
  /\ Key \in Symbols /\ BlankLine \in Symbols /\ ~IsDigit(Key) /\ ~IsDigit(BlankLine)
  /\ Key # BlankLine
<1>1. Key[1] = "key" /\ BlankLine[1] = "blank line"
  BY DEF Key, BlankLine
<1>2. Key \in Symbols /\ BlankLine \in Symbols
  BY DEF Key, BlankLine, Symbols
<1> QED
  BY <1>1, <1>2 DEF IsDigit

LEMMA PayloadIs ==
  ASSUME NEW p \in Payloads
  PROVE  p \in Seq(Symbols) /\ Len(p) \in Nat /\ Len(p) > 0
<1>1. p \in Seq(Symbols) /\ p # <<>>
  BY PayloadAssumption
<1> QED
  BY <1>1

LEMMA HeadIs ==
  ASSUME NEW p \in Payloads
  PROVE  /\ HeadOf(p) \in Seq(Symbols) /\ Len(HeadOf(p)) \in Nat
         /\ Len(HeadOf(p)) = Len(Digits[Len(p)]) + 1
         /\ Len(Digits[Len(p)]) \in Nat \ {0}
         /\ HeadOf(p)[1] = Key
         /\ \A k \in 1..Len(Digits[Len(p)]) : /\ HeadOf(p)[k + 1] = Digits[Len(p)][k]
                                              /\ IsDigit(HeadOf(p)[k + 1])
         /\ \A k \in 1..Len(HeadOf(p)) : HeadOf(p)[k] # BlankLine
<1>1. PICK D : D = Digits[Len(p)] /\ D # <<>> /\ D \in Seq({"digit"} \X Nat)
  BY PayloadIs, DigitsTyped
<1>2. Len(D) \in Nat /\ Len(D) # 0 /\ D \in [1..Len(D) -> {"digit"} \X Nat]
  BY <1>1
<1>3. \A k \in 1..Len(D) : IsDigit(D[k]) /\ D[k] \in Symbols
  BY <1>1, PayloadIs, DigitsTyped
<1>4. D \in Seq(Symbols)
  BY <1>2, <1>3
<1>5. <<Key>> \in Seq(Symbols) /\ Len(<<Key>>) = 1 /\ <<Key>>[1] = Key
  BY MarksAre
<1>6. PICK h : h = HeadOf(p) /\ h = <<Key>> \o D
  BY <1>1 DEF HeadOf
<1>7. h \in Seq(Symbols) /\ Len(h) = 1 + Len(D) /\ h[1] = Key
      /\ \A k \in 1..Len(D) : h[1 + k] = D[k]
  BY <1>4, <1>5, <1>6, JoinIs
<1>8. \A k \in 1..Len(D) : 1 + k = k + 1
  OBVIOUS
<1>9. \A k \in 1..Len(D) : h[k + 1] = D[k] /\ IsDigit(h[k + 1])
  BY <1>3, <1>7, <1>8
<1>10. ASSUME NEW k \in 1..Len(h) PROVE h[k] # BlankLine
  <2>1. CASE k = 1
    BY <1>7, <2>1, MarksAre
  <2>2. CASE k # 1
    <3>1. k - 1 \in 1..Len(D) /\ (k - 1) + 1 = k
      BY <1>2, <1>7, <2>2
    <3> QED
      BY <1>9, <3>1, MarksAre
  <2> QED
    BY <2>1, <2>2
<1> QED
  BY <1>1, <1>2, <1>6, <1>7, <1>9, <1>10

\* The length that readFrame takes from a whole header is the length of the
\* payload that writeFrame put it before (worker.go, transport.cc).
THEOREM LengthReadsBack ==
  ASSUME NEW p \in Payloads
  PROVE  ContentLength(HeadOf(p)) = Len(p)
<1>1. PICK D, d : D = Digits[Len(p)] /\ d = Len(D)
  OBVIOUS
<1>2. PICK h : h = HeadOf(p)
  OBVIOUS
<1>3. /\ h \in Seq(Symbols) /\ Len(h) = d + 1 /\ d \in Nat /\ h[1] = Key
      /\ \A k \in 1..d : h[k + 1] = D[k] /\ IsDigit(h[k + 1])
  BY <1>1, <1>2, HeadIs
<1>4. Key \in ToSet(h)
  <2>1. 1 \in DOMAIN h
    BY <1>3
  <2> QED
    BY <1>3, <2>1 DEF ToSet
<1>5. (CHOOSE k \in DOMAIN h : h[k] = Key) = 1
  <2>1. \A k \in DOMAIN h : h[k] = Key => k = 1
    <3> SUFFICES ASSUME NEW k \in DOMAIN h, h[k] = Key, k # 1 PROVE FALSE
      OBVIOUS
    <3>1. k - 1 \in 1..d /\ (k - 1) + 1 = k
      BY <1>3
    <3> QED
      BY <1>3, <3>1, MarksAre
  <2>2. 1 \in DOMAIN h
    BY <1>3
  <2> QED
    BY <1>3, <2>1, <2>2
<1>6. SubSeq(h, 1, Len(h)) = h
  BY <1>3
<1>7. ContentLength(h) = Value(h)
  BY <1>4, <1>5, <1>6 DEF ContentLength
<1>8. PICK v : Reads(v, h, d + 1) /\ Value(h) = v[d + 1]
  <2>1. PICK v : Reads(v, h, Len(h)) /\ Value(h) = v[Len(h)]
    BY <1>3, ValueIs
  <2> QED
    BY <1>3, <2>1
<1>9. PICK u : u = [k \in 0..d |-> v[k + 1]]
  OBVIOUS
<1>10. Reads(u, D, d)
  <2>1. /\ v[0] = 0
        /\ \A k \in 1..d + 1 : v[k] = Plus(v[k - 1], h[k])
    BY <1>8 DEF Reads
  <2>2. u[0] = 0
    <3>1. 1 \in 1..d + 1 /\ 1 - 1 = 0
      BY <1>3
    <3>2. v[1] = Plus(0, Key)
      BY <1>3, <2>1, <3>1
    <3>3. v[1] = 0
      BY <3>2, MarksAre DEF Plus
    <3>4. 0 \in 0..d /\ 0 + 1 = 1
      BY <1>3
    <3> QED
      BY <1>9, <3>3, <3>4
  <2>3. ASSUME NEW k \in 1..d PROVE u[k] = Plus(u[k - 1], D[k])
    <3>1. k + 1 \in 1..d + 1 /\ (k + 1) - 1 = k /\ k - 1 \in 0..d /\ k \in 0..d /\ (k - 1) + 1 = k
      BY <1>3
    <3>2. v[k + 1] = Plus(v[k], D[k])
      BY <1>3, <2>1, <3>1
    <3>3. u[k] = v[k + 1] /\ u[k - 1] = v[k]
      BY <1>9, <3>1
    <3> QED
      BY <3>2, <3>3
  <2> QED
    BY <2>2, <2>3 DEF Reads
<1>11. u[d] = Len(p)
  <2>1. Right(Len(p))
    BY PayloadIs, ReadsBack
  <2> QED
    BY <1>1, <1>10, <2>1 DEF Right
<1>12. u[d] = v[d + 1]
  BY <1>3, <1>9
<1> QED
  BY <1>2, <1>7, <1>8, <1>11, <1>12

LEMMA FrameIs ==
  ASSUME NEW p \in Payloads
  PROVE  /\ Frame(p) \in Seq(Symbols)
         /\ Len(Frame(p)) = Len(HeadOf(p)) + 1 + Len(p)
         /\ \A k \in 1..Len(HeadOf(p)) : Frame(p)[k] = HeadOf(p)[k]
         /\ Frame(p)[Len(HeadOf(p)) + 1] = BlankLine
         /\ \A k \in 1..Len(p) : Frame(p)[Len(HeadOf(p)) + 1 + k] = p[k]
<1>1. PICK h : h = HeadOf(p) /\ h \in Seq(Symbols)
  BY HeadIs
<1>2. <<BlankLine>> \in Seq(Symbols) /\ Len(<<BlankLine>>) = 1 /\ <<BlankLine>>[1] = BlankLine
  BY MarksAre
<1>3. PICK b : b = <<BlankLine>>
  OBVIOUS
<1>4. PICK g : g = h \o b
  OBVIOUS
<1>5. /\ g \in Seq(Symbols) /\ Len(g) = Len(h) + 1 /\ Len(h) \in Nat
      /\ \A k \in 1..Len(h) : g[k] = h[k]
      /\ \A k \in 1..1 : g[Len(h) + k] = b[k]
  BY <1>1, <1>2, <1>3, <1>4, JoinIs
<1>6. g[Len(h) + 1] = BlankLine
  <2>1. 1 \in 1..1
    OBVIOUS
  <2> QED
    BY <1>2, <1>3, <1>5, <2>1
<1>7. p \in Seq(Symbols) /\ Len(p) \in Nat
  BY PayloadIs
<1>8. PICK f : f = g \o p
  OBVIOUS
<1>9. /\ f \in Seq(Symbols) /\ Len(f) = Len(g) + Len(p)
      /\ \A k \in 1..Len(g) : f[k] = g[k]
      /\ \A k \in 1..Len(p) : f[Len(g) + k] = p[k]
  <2>1. PICK q : q = p
    OBVIOUS
  <2>2. g \in Seq(Symbols) /\ q \in Seq(Symbols) /\ f = g \o q
    BY <1>5, <1>7, <1>8, <2>1
  <2>3. /\ f \in Seq(Symbols) /\ Len(f) = Len(g) + Len(q)
        /\ \A k \in 1..Len(g) : f[k] = g[k]
        /\ \A k \in 1..Len(q) : f[Len(g) + k] = q[k]
    BY <2>2, JoinIs
  <2> QED
    BY <2>1, <2>3
<1>10. \A k \in 1..Len(h) : k \in 1..Len(g)
  BY <1>5
<1>11. Len(h) + 1 \in 1..Len(g)
  BY <1>5
<1>12. f = Frame(p)
  BY <1>1, <1>3, <1>4, <1>8 DEF Frame, HeadOf
<1> QED
  BY <1>1, <1>5, <1>6, <1>9, <1>10, <1>11, <1>12

-----------------------------------------------------------------------------
(* What is on the wire: the frames one after the other, and which of their  *)
(* symbols are still to be read.                                            *)

FramesOf(os) == [k \in 1..Len(os) |-> Frame(os[k])]

\* full is the frames of os, off says where each of them begins.
OnWire(os, off, full) ==
  /\ os \in Seq(Payloads) /\ full \in Seq(Symbols)
  /\ IsOffset(off, FramesOf(os)) /\ Len(full) = off[Len(os)]
  /\ Placed(full, off, FramesOf(os), Len(os))

\* The payloads written, with the one that is being written.
Offered == IF unwritten = <<>> THEN sent ELSE Append(sent, payload)

WireTyped ==
  /\ sent \in Seq(Payloads) /\ pipe \in Seq(Symbols) /\ unwritten \in Seq(Symbols)
  /\ received \in Seq(Payloads) /\ header \in Seq(Symbols) /\ body \in Seq(Symbols)
  /\ gone \in BOOLEAN
  /\ unwritten # <<>> => payload \in Payloads /\ Len(unwritten) <= Len(Frame(payload))

\* The reader has taken r symbols; the pipe and the writer have the others.
Flow(full, r) ==
  /\ r \in Nat /\ r + Len(pipe) + Len(unwritten) = Len(full)
  /\ \A j \in 1..Len(pipe) : pipe[j] = full[r + j]
  /\ \A j \in 1..Len(unwritten) : unwritten[j] = full[r + Len(pipe) + j]

InHeader(os, off, r, n) ==
  /\ r = off[n] + Len(header)
  /\ header # <<>> =>
       /\ n < Len(os) /\ Len(header) <= Len(HeadOf(os[n + 1]))
       /\ \A j \in 1..Len(header) : header[j] = HeadOf(os[n + 1])[j]

InBody(os, off, r, n) ==
  /\ header = <<>> /\ n < Len(os) /\ length = Len(os[n + 1]) /\ Len(body) < length
  /\ r = off[n] + Len(HeadOf(os[n + 1])) + 1 + Len(body)
  /\ \A j \in 1..Len(body) : body[j] = os[n + 1][j]

AllRead == gone /\ pipe = <<>> /\ received = sent

ReadSoFar == Len(received) <= Len(sent) /\ \A k \in 1..Len(received) : received[k] = sent[k]

Reading(os, off, r) ==
  \/ state = "header" /\ InHeader(os, off, r, Len(received))
  \/ state = "body" /\ InBody(os, off, r, Len(received))
  \/ state \in {"body", "ended"} /\ AllRead

Wire(os, off, full, r) ==
  /\ OnWire(os, off, full) /\ os = Offered /\ Flow(full, r)
  /\ ReadSoFar /\ Reading(os, off, r)

WireInv == WireTyped /\ \E os, off, full, r : Wire(os, off, full, r)

LEMMA NoFrames ==
  OnWire(<<>>, [k \in 0..0 |-> 0], <<>>)
<1>1. FramesOf(<<>>) = <<>> /\ Len(<<>>) = 0
  BY DEF FramesOf
<1>2. <<>> \in Seq(Payloads) /\ <<>> \in Seq(Symbols)
  OBVIOUS
<1>3. IsOffset([k \in 0..0 |-> 0], <<>>)
  BY DEF IsOffset
<1>4. Placed(<<>>, [k \in 0..0 |-> 0], <<>>, 0)
  BY DEF Placed
<1>5. [k \in 0..0 |-> 0][0] = 0
  OBVIOUS
<1> QED
  BY <1>1, <1>2, <1>3, <1>4, <1>5 DEF OnWire

LEMMA FramesTyped ==
  ASSUME NEW os \in Seq(Payloads)
  PROVE  /\ FramesOf(os) \in Seq(Seq(Symbols)) /\ Len(FramesOf(os)) = Len(os)
         /\ Len(os) \in Nat
         /\ \A k \in 1..Len(os) : os[k] \in Payloads /\ FramesOf(os)[k] = Frame(os[k])
<1>1. Len(os) \in Nat /\ \A k \in 1..Len(os) : os[k] \in Payloads
  OBVIOUS
<1>2. \A k \in 1..Len(os) : Frame(os[k]) \in Seq(Symbols)
  BY <1>1, FrameIs
<1>3. FramesOf(os) \in [1..Len(os) -> Seq(Symbols)]
  BY <1>2 DEF FramesOf
<1>4. FramesOf(os) \in Seq(Seq(Symbols)) /\ Len(FramesOf(os)) = Len(os)
  BY <1>1, <1>3
<1>5. \A k \in 1..Len(os) : FramesOf(os)[k] = Frame(os[k])
  BY DEF FramesOf
<1> QED
  BY <1>1, <1>4, <1>5

\* Where the frames are.
LEMMA WireIs ==
  ASSUME NEW os, NEW off, NEW full, OnWire(os, off, full)
  PROVE  /\ Len(os) \in Nat /\ Len(full) \in Nat /\ Len(full) = off[Len(os)]
         /\ \A k \in 0..Len(os) : off[k] \in Nat
         /\ \A k, n \in 0..Len(os) : k <= n => off[k] <= off[n]
         /\ \A n \in Nat : n < Len(os) =>
              /\ os[n + 1] \in Payloads /\ off[n + 1] = off[n] + Len(Frame(os[n + 1]))
              /\ \A m \in 1..Len(Frame(os[n + 1])) : full[off[n] + m] = Frame(os[n + 1])[m]
<1>1. /\ os \in Seq(Payloads) /\ full \in Seq(Symbols) /\ Len(full) = off[Len(os)]
      /\ IsOffset(off, FramesOf(os)) /\ Placed(full, off, FramesOf(os), Len(os))
  BY DEF OnWire
<1>2. /\ FramesOf(os) \in Seq(Seq(Symbols)) /\ Len(FramesOf(os)) = Len(os)
      /\ Len(os) \in Nat
      /\ \A k \in 1..Len(os) : os[k] \in Payloads /\ FramesOf(os)[k] = Frame(os[k])
  BY <1>1, FramesTyped
<1>3. /\ \A k \in 0..Len(os) : off[k] \in Nat
      /\ \A k \in 1..Len(os) : off[k] = off[k - 1] + Len(FramesOf(os)[k])
  BY <1>1, <1>2 DEF IsOffset
<1>4. \A k, n \in 0..Len(os) : k <= n => off[k] <= off[n]
  BY <1>1, <1>2, OffsetsGrow
<1>5. ASSUME NEW n \in Nat, n < Len(os)
      PROVE  /\ os[n + 1] \in Payloads /\ off[n + 1] = off[n] + Len(Frame(os[n + 1]))
             /\ \A m \in 1..Len(Frame(os[n + 1])) : full[off[n] + m] = Frame(os[n + 1])[m]
  <2>1. PICK k : k = n + 1 /\ k \in 1..Len(os) /\ k - 1 = n
    BY <1>2, <1>5
  <2>2. os[k] \in Payloads /\ FramesOf(os)[k] = Frame(os[k])
    BY <1>2, <2>1
  <2>3. off[k] = off[n] + Len(Frame(os[k]))
    BY <1>3, <2>1, <2>2
  <2>4. \A m \in 1..Len(FramesOf(os)[k]) : full[off[k - 1] + m] = FramesOf(os)[k][m]
    BY <1>1, <2>1 DEF Placed
  <2> QED
    BY <2>1, <2>2, <2>3, <2>4
<1>6. Len(full) \in Nat
  BY <1>1
<1> QED
  BY <1>1, <1>2, <1>3, <1>4, <1>5, <1>6

LEMMA OneMore ==
  ASSUME NEW os, NEW off, NEW full, OnWire(os, off, full), NEW p \in Payloads
  PROVE  \E off2 : /\ OnWire(Append(os, p), off2, full \o Frame(p))
                   /\ \A k \in 0..Len(os) : off2[k] = off[k]
<1>1. /\ os \in Seq(Payloads) /\ full \in Seq(Symbols) /\ Len(full) = off[Len(os)]
      /\ IsOffset(off, FramesOf(os)) /\ Placed(full, off, FramesOf(os), Len(os))
  BY DEF OnWire
<1>2. PICK f : f = Frame(p) /\ f \in Seq(Symbols)
  BY FrameIs
<1>3. PICK N \in Nat : N = Len(os)
  BY <1>1
<1>4. PICK os2 : os2 = Append(os, p)
  OBVIOUS
<1>5. /\ os2 \in Seq(Payloads) /\ Len(os2) = N + 1 /\ os2[N + 1] = p
      /\ \A k \in 1..N : os2[k] = os[k]
  BY <1>1, <1>3, <1>4
<1>6. PICK w, w2 : w = FramesOf(os) /\ w2 = FramesOf(os2)
  OBVIOUS
<1>7. /\ w \in Seq(Seq(Symbols)) /\ Len(w) = N /\ \A k \in 1..N : w[k] = Frame(os[k])
      /\ w2 \in Seq(Seq(Symbols)) /\ Len(w2) = N + 1
      /\ \A k \in 1..N + 1 : w2[k] = Frame(os2[k])
  BY <1>1, <1>3, <1>5, <1>6, FramesTyped
<1>8. w2[N + 1] = f /\ \A k \in 1..N : w2[k] = w[k]
  <2>1. N + 1 \in 1..N + 1 /\ \A k \in 1..N : k \in 1..N + 1
    BY <1>3
  <2> QED
    BY <1>2, <1>5, <1>7, <2>1
<1>9. PICK off2 : off2 = [k \in 0..N + 1 |-> IF k = N + 1 THEN off[N] + Len(f) ELSE off[k]]
  OBVIOUS
<1>10. off \in [0..N -> Nat] /\ off[0] = 0 /\ \A k \in 1..N : off[k] = off[k - 1] + Len(w[k])
  BY <1>1, <1>3, <1>6, <1>7 DEF IsOffset
<1>11. /\ \A k \in 0..N : off2[k] = off[k]
       /\ off2[N + 1] = off[N] + Len(f)
  BY <1>3, <1>9
<1>12. Len(f) \in Nat /\ off[N] \in Nat
  BY <1>2, <1>3, <1>10
<1>13. IsOffset(off2, w2)
  <2>1. off2 \in [0..N + 1 -> Nat]
    <3>1. ASSUME NEW k \in 0..N + 1
          PROVE  (IF k = N + 1 THEN off[N] + Len(f) ELSE off[k]) \in Nat
      <4>1. k # N + 1 => k \in 0..N
        BY <1>3
      <4>2. \A j \in 0..N : off[j] \in Nat
        BY <1>10
      <4>3. off[N] + Len(f) \in Nat
        BY <1>12
      <4> QED
        BY <4>1, <4>2, <4>3
    <3> QED
      BY <1>9, <3>1
  <2>2. off2[0] = 0
    BY <1>3, <1>10, <1>11
  <2>3. ASSUME NEW k \in 1..N + 1 PROVE off2[k] = off2[k - 1] + Len(w2[k])
    <3>1. CASE k = N + 1
      <4>1. k - 1 = N /\ N \in 0..N
        BY <1>3, <3>1
      <4> QED
        BY <1>8, <1>11, <3>1, <4>1
    <3>2. CASE k # N + 1
      <4>1. k \in 1..N /\ k \in 0..N /\ k - 1 \in 0..N
        BY <1>3, <3>2
      <4> QED
        BY <1>8, <1>10, <1>11, <4>1
    <3> QED
      BY <3>1, <3>2
  <2> QED
    BY <1>7, <2>1, <2>2, <2>3 DEF IsOffset
<1>14. PICK g : g = full \o f
  OBVIOUS
<1>15. g \in Seq(Symbols) /\ Len(g) = Len(full) + Len(f)
  BY <1>1, <1>2, <1>14, JoinIs
<1>16. Placed(full, off2, w2, N)
  <2>1. ASSUME NEW k \in 1..N, NEW m \in 1..Len(w2[k])
        PROVE  off2[k - 1] + m \in 1..Len(full) /\ full[off2[k - 1] + m] = w2[k][m]
    <3>1. off2[k - 1] = off[k - 1] /\ w2[k] = w[k]
      <4>1. k - 1 \in 0..N
        BY <1>3
      <4> QED
        BY <1>8, <1>11, <4>1
    <3>2. m \in 1..Len(w[k])
      BY <3>1
    <3>3. off[k - 1] + m \in 1..Len(full) /\ full[off[k - 1] + m] = w[k][m]
      BY <1>1, <1>3, <1>6, <3>2 DEF Placed
    <3> QED
      BY <3>1, <3>3
  <2> QED
    BY <2>1 DEF Placed
<1>17. Placed(g, off2, w2, N + 1)
  <2>1. off2[N] = Len(full)
    <3>1. N \in 0..N
      BY <1>3
    <3> QED
      BY <1>1, <1>3, <1>11, <3>1
  <2>2. full \in Seq(Symbols) /\ f \in Seq(Symbols) /\ w2[N + 1] = f
    BY <1>1, <1>2, <1>8
  <2>3. Placed(full \o f, off2, w2, N + 1)
    BY <1>3, <1>16, <2>1, <2>2, PlaceNext
  <2> QED
    BY <1>14, <2>3
<1>18. Len(g) = off2[N + 1]
  BY <1>1, <1>3, <1>11, <1>15
<1>19. OnWire(os2, off2, g)
  BY <1>5, <1>6, <1>13, <1>15, <1>17, <1>18 DEF OnWire
<1> QED
  BY <1>2, <1>3, <1>4, <1>11, <1>14, <1>19

-----------------------------------------------------------------------------
(* Where the reader is.                                                   *)

LEMMA OfferedIs ==
  ASSUME WireTyped, NEW os, os = Offered
  PROVE  /\ Len(sent) \in Nat /\ \A k \in 1..Len(sent) : os[k] = sent[k]
         /\ unwritten = <<>> => os = sent
         /\ unwritten # <<>> => Len(os) = Len(sent) + 1 /\ os[Len(sent) + 1] = payload
         /\ Len(sent) <= Len(os)
<1>1. sent \in Seq(Payloads)
  BY DEF WireTyped
<1>2. CASE unwritten = <<>>
  <2>1. os = sent
    BY <1>2 DEF Offered
  <2> QED
    BY <1>1, <1>2, <2>1
<1>3. CASE unwritten # <<>>
  <2>1. os = Append(sent, payload)
    BY <1>3 DEF Offered
  <2>2. payload \in Payloads
    BY <1>3 DEF WireTyped
  <2> QED
    BY <1>1, <1>3, <2>1, <2>2
<1> QED
  BY <1>2, <1>3

LEMMA LengthsAre ==
  ASSUME WireTyped
  PROVE  /\ Len(pipe) \in Nat /\ Len(unwritten) \in Nat /\ Len(header) \in Nat
         /\ Len(body) \in Nat /\ Len(received) \in Nat /\ Len(sent) \in Nat
         /\ (pipe # <<>> => Len(pipe) > 0) /\ (unwritten # <<>> => Len(unwritten) > 0)
         /\ (header = <<>> => Len(header) = 0) /\ (pipe = <<>> => Len(pipe) = 0)
         /\ (unwritten = <<>> => Len(unwritten) = 0)
<1>1. PICK a, b, c, d, e, f : /\ a = pipe /\ b = unwritten /\ c = header /\ d = body
                              /\ e = received /\ f = sent
  OBVIOUS
<1>2. /\ a \in Seq(Symbols) /\ b \in Seq(Symbols) /\ c \in Seq(Symbols) /\ d \in Seq(Symbols)
      /\ e \in Seq(Payloads) /\ f \in Seq(Payloads)
  BY <1>1 DEF WireTyped
<1>3. /\ Len(a) \in Nat /\ (a # <<>> => Len(a) > 0) /\ (a = <<>> => Len(a) = 0)
      /\ Len(b) \in Nat /\ (b # <<>> => Len(b) > 0) /\ (b = <<>> => Len(b) = 0)
  BY <1>2
<1>4. /\ Len(c) \in Nat /\ (c = <<>> => Len(c) = 0)
      /\ Len(d) \in Nat /\ Len(e) \in Nat /\ Len(f) \in Nat
  BY <1>2
<1> QED
  BY <1>1, <1>3, <1>4

\* In a header the next symbol is the next of that header, or its blank line.
LEMMA HeaderMeets ==
  ASSUME WireTyped, NEW os, NEW off, NEW full, NEW r, Wire(os, off, full, r),
         state = "header", pipe # <<>>
  PROVE  /\ Len(received) < Len(os) /\ os[Len(received) + 1] \in Payloads
         /\ r = off[Len(received)] + Len(header)
         /\ Len(header) <= Len(HeadOf(os[Len(received) + 1]))
         /\ \A j \in 1..Len(header) : header[j] = HeadOf(os[Len(received) + 1])[j]
         /\ Head(pipe) = Frame(os[Len(received) + 1])[Len(header) + 1]
<1>1. OnWire(os, off, full) /\ os = Offered /\ Flow(full, r) /\ ReadSoFar
  BY DEF Wire
<1>2. InHeader(os, off, r, Len(received))
  BY DEF Wire, Reading
<1>3. PICK n, h : n = Len(received) /\ h = Len(header)
  OBVIOUS
<1>4. n \in Nat /\ h \in Nat /\ n <= Len(sent) /\ Len(sent) <= Len(os) /\ Len(os) \in Nat
  BY <1>1, <1>3, LengthsAre, OfferedIs, WireIs DEF ReadSoFar
<1>5. r = off[n] + h
  BY <1>2, <1>3 DEF InHeader
<1>6. r < Len(full)
  BY <1>1, LengthsAre DEF Flow
<1>7. n < Len(os)
  <2>1. CASE header # <<>>
    BY <1>2, <1>3, <2>1 DEF InHeader
  <2>2. CASE header = <<>>
    <3>1. h = 0
      BY <1>3, <2>2, LengthsAre
    <3>2. off[n] < off[Len(os)] /\ off[n] \in Nat
      BY <1>1, <1>4, <1>5, <1>6, <3>1, WireIs
    <3>3. n # Len(os)
      BY <1>4, <3>2
    <3> QED
      BY <1>4, <3>3
  <2> QED
    BY <2>1, <2>2
<1>8. PICK p : p = os[n + 1]
  OBVIOUS
<1>9. /\ p \in Payloads /\ off[n] \in Nat
      /\ \A m \in 1..Len(Frame(p)) : full[off[n] + m] = Frame(p)[m]
  BY <1>1, <1>4, <1>7, <1>8, WireIs
<1>10. Len(HeadOf(p)) \in Nat /\ Len(Frame(p)) = Len(HeadOf(p)) + 1 + Len(p) /\ Len(p) \in Nat
  BY <1>9, HeadIs, FrameIs, PayloadIs
<1>11. h <= Len(HeadOf(p)) /\ \A j \in 1..h : header[j] = HeadOf(p)[j]
  <2>1. CASE header # <<>>
    BY <1>2, <1>3, <1>8, <2>1 DEF InHeader
  <2>2. CASE header = <<>>
    <3>1. h = 0
      BY <1>3, <2>2, LengthsAre
    <3> QED
      BY <1>10, <3>1
  <2> QED
    BY <2>1, <2>2
<1>12. Head(pipe) = full[r + 1]
  <2>1. 1 \in 1..Len(pipe)
    BY LengthsAre
  <2>2. pipe[1] = full[r + 1]
    BY <1>1, <2>1 DEF Flow
  <2>3. Head(pipe) = pipe[1]
    BY DEF WireTyped
  <2> QED
    BY <2>2, <2>3
<1>13. full[off[n] + (h + 1)] = Frame(p)[h + 1]
  <2>1. h + 1 \in 1..Len(Frame(p))
    BY <1>4, <1>10, <1>11
  <2> QED
    BY <1>9, <2>1
<1>14. off[n] + (h + 1) = r + 1
  BY <1>4, <1>5, <1>9
<1> QED
  BY <1>3, <1>5, <1>7, <1>8, <1>9, <1>11, <1>12, <1>13, <1>14

\* In a body the next symbol is the next of that payload, and the last one of
\* them was written when the whole payload was.
LEMMA BodyMeets ==
  ASSUME WireTyped, NEW os, NEW off, NEW full, NEW r, Wire(os, off, full, r),
         state = "body", pipe # <<>>
  PROVE  /\ InBody(os, off, r, Len(received)) /\ os[Len(received) + 1] \in Payloads
         /\ Head(pipe) = os[Len(received) + 1][Len(body) + 1]
         /\ Len(body) + 1 = length => Len(received) < Len(sent)
<1>1. OnWire(os, off, full) /\ os = Offered /\ Flow(full, r) /\ ReadSoFar
  BY DEF Wire
<1>2. InBody(os, off, r, Len(received))
  BY DEF Wire, Reading, AllRead
<1>3. PICK n, b : n = Len(received) /\ b = Len(body)
  OBVIOUS
<1>4. n \in Nat /\ b \in Nat /\ n <= Len(sent) /\ Len(sent) \in Nat
  BY <1>1, <1>3, LengthsAre DEF ReadSoFar
<1>5. PICK p : p = os[n + 1]
  OBVIOUS
<1>6. /\ n < Len(os) /\ length = Len(p) /\ b < length
      /\ r = off[n] + Len(HeadOf(p)) + 1 + b
  BY <1>2, <1>3, <1>5 DEF InBody
<1>7. /\ p \in Payloads /\ off[n] \in Nat /\ off[n + 1] = off[n] + Len(Frame(p))
      /\ \A m \in 1..Len(Frame(p)) : full[off[n] + m] = Frame(p)[m]
  BY <1>1, <1>4, <1>5, <1>6, WireIs
<1>8. PICK h : h = Len(HeadOf(p))
  OBVIOUS
<1>9. /\ h \in Nat /\ Len(Frame(p)) = h + 1 + Len(p) /\ Len(p) \in Nat
      /\ \A k \in 1..Len(p) : Frame(p)[h + 1 + k] = p[k]
  BY <1>7, <1>8, HeadIs, FrameIs, PayloadIs
<1>13. off[n] \in Nat /\ r = off[n] + h + 1 + b
  BY <1>6, <1>7, <1>8, Zenon
<1>10. Head(pipe) = full[r + 1]
  <2>1. 1 \in 1..Len(pipe)
    BY LengthsAre
  <2>2. pipe[1] = full[r + 1]
    BY <1>1, <2>1 DEF Flow
  <2>3. Head(pipe) = pipe[1]
    BY DEF WireTyped
  <2> QED
    BY <2>2, <2>3
<1>11. full[r + 1] = p[b + 1]
  <2>1. b + 1 \in 1..Len(p)
    BY <1>4, <1>6, <1>9
  <2>2. h + 1 + (b + 1) \in 1..Len(Frame(p))
    BY <1>9, <2>1
  <2>3. off[n] + (h + 1 + (b + 1)) = r + 1
    BY <1>4, <1>9, <1>13, SMT
  <2>4. full[off[n] + (h + 1 + (b + 1))] = Frame(p)[h + 1 + (b + 1)]
    BY <1>7, <2>2
  <2> QED
    BY <1>9, <2>1, <2>3, <2>4
<1>12. ASSUME b + 1 = length PROVE n < Len(sent)
  <2> SUFFICES ASSUME n = Len(sent) PROVE FALSE
    BY <1>4
  <2>1. unwritten # <<>> /\ Len(os) = n + 1
    <3>1. os # sent
      BY <1>6
    <3> QED
      BY <1>1, <3>1, OfferedIs
  <2>2. Len(full) = off[n + 1]
    BY <1>1, <2>1, WireIs
  <2>3. r + 1 = off[n + 1]
    <3>1. off[n + 1] = off[n] + (h + 1 + length) /\ b + 1 = length
      BY <1>6, <1>7, <1>9, <1>12
    <3>2. PICK o \in Nat : o = off[n]
      BY <1>7
    <3>3. r = o + h + 1 + b /\ off[n + 1] = o + (h + 1 + (b + 1))
      BY <1>13, <3>1, <3>2, Zenon
    <3> QED
      BY <1>4, <1>9, <3>2, <3>3
  <2>4. r + Len(pipe) + Len(unwritten) = Len(full) /\ r \in Nat
    BY <1>1 DEF Flow
  <2>5. Len(pipe) \in Nat /\ Len(pipe) > 0 /\ Len(unwritten) \in Nat /\ Len(unwritten) > 0
    BY <2>1, LengthsAre
  <2> QED
    BY <2>2, <2>3, <2>4, <2>5
<1> QED
  BY <1>2, <1>3, <1>5, <1>7, <1>10, <1>11, <1>12

\* A reader that sees an empty pipe behind it has what was written.
LEMMA NothingLeft ==
  ASSUME WireTyped, NEW os, NEW off, NEW full, NEW r, Wire(os, off, full, r),
         pipe = <<>>, state \in {"header", "body"}
  PROVE  received = sent
<1>1. OnWire(os, off, full) /\ os = Offered /\ Flow(full, r) /\ ReadSoFar
  BY DEF Wire
<1> SUFFICES ASSUME received # sent PROVE FALSE
  OBVIOUS
<1>2. PICK n, m : n = Len(received) /\ m = Len(sent)
  OBVIOUS
<1>3. n \in Nat /\ m \in Nat /\ n < m /\ m <= Len(os) /\ Len(os) \in Nat
  <2>1. n \in Nat /\ m \in Nat /\ n <= m /\ m <= Len(os) /\ Len(os) \in Nat
    BY <1>1, <1>2, LengthsAre, OfferedIs, WireIs DEF ReadSoFar
  <2>2. n # m
    <3> SUFFICES ASSUME n = m PROVE received = sent
      OBVIOUS
    <3>1. received \in Seq(Payloads) /\ sent \in Seq(Payloads) /\ Len(received) = Len(sent)
      BY <1>2 DEF WireTyped
    <3>2. \A k \in 1..Len(received) : received[k] = sent[k]
      BY <1>1 DEF ReadSoFar
    <3> QED
      BY <3>1, <3>2
  <2> QED
    BY <2>1, <2>2
<1>4. PICK p : p = os[n + 1]
  OBVIOUS
<1>5. /\ p \in Payloads /\ off[n] \in Nat /\ off[n + 1] = off[n] + Len(Frame(p))
      /\ off[n + 1] <= off[m] /\ off[m] \in Nat
  <2>1. n + 1 \in 0..Len(os) /\ m \in 0..Len(os) /\ n \in 0..Len(os) /\ n + 1 <= m
    BY <1>3
  <2>2. off[n + 1] <= off[m] /\ off[m] \in Nat /\ off[n] \in Nat
    BY <1>1, <2>1, WireIs
  <2>3. p \in Payloads /\ off[n + 1] = off[n] + Len(Frame(p))
    BY <1>1, <1>3, <1>4, WireIs
  <2> QED
    BY <2>2, <2>3
<1>6. /\ Len(HeadOf(p)) \in Nat /\ Len(Frame(p)) = Len(HeadOf(p)) + 1 + Len(p)
      /\ Len(p) \in Nat /\ Len(p) > 0
  BY <1>5, HeadIs, FrameIs, PayloadIs
<1>7. r >= off[m]
  <2>1. r + Len(unwritten) = off[Len(os)] /\ r \in Nat /\ Len(unwritten) \in Nat
    <3>1. r \in Nat /\ r + Len(pipe) + Len(unwritten) = Len(full)
      BY <1>1 DEF Flow
    <3>2. Len(pipe) = 0 /\ Len(unwritten) \in Nat
      BY LengthsAre
    <3>3. Len(full) = off[Len(os)]
      BY <1>1, WireIs
    <3> QED
      BY <3>1, <3>2, <3>3
  <2>2. CASE unwritten = <<>>
    <3>1. os = sent /\ Len(unwritten) = 0
      BY <1>1, <2>2, OfferedIs, LengthsAre
    <3> QED
      BY <1>2, <1>5, <2>1, <3>1
  <2>3. CASE unwritten # <<>>
    <3>1. Len(os) = m + 1 /\ os[m + 1] = payload
      BY <1>1, <1>2, <2>3, OfferedIs
    <3>2. off[m + 1] = off[m] + Len(Frame(os[m + 1]))
      <4>1. m \in Nat /\ m < Len(os)
        BY <1>3, <3>1
      <4> QED
        BY <1>1, <4>1, WireIs
    <3>3. Len(unwritten) <= Len(Frame(payload)) /\ Len(Frame(payload)) \in Nat
      <4>1. payload \in Payloads /\ Len(unwritten) <= Len(Frame(payload))
        BY <2>3 DEF WireTyped
      <4>2. Frame(payload) \in Seq(Symbols)
        BY <4>1, FrameIs
      <4>3. Len(Frame(payload)) \in Nat
        BY <4>2
      <4> QED
        BY <4>1, <4>3
    <3>4. r + Len(unwritten) = off[m] + Len(Frame(payload))
      BY <2>1, <3>1, <3>2
    <3> QED
      BY <1>5, <2>1, <3>3, <3>4
  <2> QED
    BY <2>2, <2>3
<1>8. r < off[n + 1]
  <2>1. CASE state = "header"
    <3>1. InHeader(os, off, r, n)
      BY <1>2, <2>1 DEF Wire, Reading
    <3>2. PICK h : h = Len(header) /\ h \in Nat
      BY LengthsAre
    <3>3. r = off[n] + h
      BY <3>1, <3>2 DEF InHeader
    <3>4. h <= Len(HeadOf(p))
      <4>1. CASE header # <<>>
        BY <1>4, <3>1, <3>2, <4>1 DEF InHeader
      <4>2. CASE header = <<>>
        BY <1>6, <3>2, <4>2, LengthsAre
      <4> QED
        BY <4>1, <4>2
    <3> QED
      BY <1>5, <1>6, <3>2, <3>3, <3>4
  <2>2. CASE state = "body"
    <3>1. InBody(os, off, r, n)
      BY <1>2, <2>2 DEF Wire, Reading, AllRead
    <3>2. PICK b : b = Len(body) /\ b \in Nat
      BY LengthsAre
    <3>3. r = off[n] + Len(HeadOf(p)) + 1 + b /\ b < Len(p)
      BY <1>4, <3>1, <3>2 DEF InBody
    <3> QED
      BY <1>5, <1>6, <3>2, <3>3
  <2> QED
    BY <2>1, <2>2
<1>9. r \in Nat
  BY <1>1 DEF Flow
<1>10. off[n + 1] \in Nat
  BY <1>5, <1>6
<1> QED
  BY <1>5, <1>7, <1>8, <1>9, <1>10

-----------------------------------------------------------------------------
(* The steps.                                                             *)

\* In the middle of the stream, not behind its end.
Busy(os, off, r) ==
  \/ state = "header" /\ InHeader(os, off, r, Len(received))
  \/ state = "body" /\ InBody(os, off, r, Len(received))

LEMMA BusyIs ==
  ASSUME NEW os, NEW off, NEW full, NEW r, Wire(os, off, full, r), ~gone
  PROVE  Busy(os, off, r)
BY DEF Wire, Reading, AllRead, Busy

LEMMA BusyReads ==
  ASSUME NEW os, NEW off, NEW r, Busy(os, off, r)
  PROVE  Reading(os, off, r)
BY DEF Busy, Reading

\* One frame more behind what is read changes nothing for the reader.
LEMMA BusyGrows ==
  ASSUME WireTyped, NEW os, NEW off, NEW os2, NEW off2, NEW r, Busy(os, off, r),
         Len(os) \in Nat, Len(os2) \in Nat, Len(received) <= Len(os), Len(os) <= Len(os2),
         \A k \in 0..Len(os) : off2[k] = off[k], \A k \in 1..Len(os) : os2[k] = os[k]
  PROVE  Busy(os2, off2, r)
<1>1. PICK n : n = Len(received) /\ n \in Nat
  BY LengthsAre
<1>2. off2[n] = off[n] /\ (n < Len(os) => os2[n + 1] = os[n + 1] /\ n < Len(os2))
  BY <1>1
<1>3. InHeader(os, off, r, n) => InHeader(os2, off2, r, n)
  BY <1>2 DEF InHeader
<1>4. InBody(os, off, r, n) => InBody(os2, off2, r, n)
  BY <1>2 DEF InBody
<1> QED
  BY <1>1, <1>3, <1>4 DEF Busy

LEMMA BusyStays ==
  ASSUME NEW os, NEW off, NEW r, Busy(os, off, r), UNCHANGED readerVars
  PROVE  Reading(os, off, r)'
<1>1. Busy(os, off, r)'
  <2>1. InHeader(os, off, r, Len(received)) => InHeader(os, off, r, Len(received))'
    BY DEF InHeader, readerVars
  <2>2. InBody(os, off, r, Len(received)) => InBody(os, off, r, Len(received))'
    BY DEF InBody, readerVars
  <2>3. state' = state
    BY DEF readerVars
  <2> QED
    BY <2>1, <2>2, <2>3 DEF Busy
<1> QED
  BY <1>1 DEF Busy, Reading

LEMMA WireStarts == WireInit => WireInv
<1> SUFFICES ASSUME WireInit PROVE WireInv
  OBVIOUS
<1>1. WireTyped
  <2>1. <<>> \in Seq(Payloads) /\ <<>> \in Seq(Symbols)
    OBVIOUS
  <2> QED
    BY <2>1 DEF WireInit, WireTyped
<1> DEFINE zero == [k \in 0..0 |-> 0]
<1>2. PICK off : off = zero
  OBVIOUS
<1>9. off[0] = 0
  BY <1>2
<1>3. OnWire(<<>>, off, <<>>)
  BY <1>2, NoFrames
<1>4. <<>> = Offered
  BY DEF Offered, WireInit
<1>5. Flow(<<>>, 0)
  BY DEF Flow, WireInit
<1>6. ReadSoFar
  BY DEF ReadSoFar, WireInit
<1>7. Reading(<<>>, off, 0)
  <2>1. InHeader(<<>>, off, 0, 0)
    BY <1>9 DEF InHeader, WireInit
  <2>2. state = "header" /\ Len(received) = 0
    BY DEF WireInit
  <2> QED
    BY <2>1, <2>2 DEF Reading
<1>8. Wire(<<>>, off, <<>>, 0)
  BY <1>3, <1>4, <1>5, <1>6, <1>7 DEF Wire
<1> QED
  BY <1>1, <1>8 DEF WireInv

LEMMA WriteFrameKeeps ==
  ASSUME WireInv, NEW p \in Payloads, WriteFrame(p)
  PROVE  WireInv'
<1>1. /\ ~gone /\ unwritten = <<>> /\ payload' = p /\ unwritten' = Frame(p)
      /\ pipe' = pipe /\ sent' = sent /\ gone' = gone /\ UNCHANGED readerVars
  BY DEF WriteFrame
<1>2. WireTyped
  BY DEF WireInv
<1>3. PICK os, off, full, r : Wire(os, off, full, r)
  BY DEF WireInv
<1>4. OnWire(os, off, full) /\ os = Offered /\ Flow(full, r) /\ ReadSoFar
  BY <1>3 DEF Wire
<1>5. os = sent /\ os \in Seq(Payloads)
  BY <1>1, <1>4 DEF Offered, OnWire
<1>6. PICK off2 : /\ OnWire(Append(os, p), off2, full \o Frame(p))
                  /\ \A k \in 0..Len(os) : off2[k] = off[k]
  BY <1>4, OneMore
<1>7. PICK os2, f, g : os2 = Append(os, p) /\ f = Frame(p) /\ g = full \o f
  OBVIOUS
<1>8. f \in Seq(Symbols) /\ f # <<>> /\ Len(f) \in Nat
  <2>1. f \in Seq(Symbols) /\ Len(f) = Len(HeadOf(p)) + 1 + Len(p)
    BY <1>7, FrameIs
  <2>2. Len(HeadOf(p)) \in Nat /\ Len(p) \in Nat
    BY HeadIs, PayloadIs
  <2>3. Len(f) > 0
    BY <2>1, <2>2
  <2> QED
    BY <2>1, <2>3
<1>9. WireTyped'
  <2>1. unwritten' = f /\ payload' = p /\ f = Frame(p)
    BY <1>1, <1>7
  <2>2. /\ unwritten' \in Seq(Symbols) /\ payload' \in Payloads
        /\ Len(unwritten') <= Len(Frame(payload'))
    <3>1. Len(f) <= Len(Frame(p))
      BY <1>7, <1>8
    <3> QED
      BY <1>8, <2>1, <3>1
  <2>3. /\ sent' = sent /\ pipe' = pipe /\ received' = received /\ header' = header
        /\ body' = body /\ gone' = gone
    BY <1>1 DEF readerVars
  <2> QED
    BY <1>2, <2>2, <2>3 DEF WireTyped
<1>10. os2 = Offered'
  BY <1>1, <1>5, <1>7, <1>8 DEF Offered
<1>11. full \in Seq(Symbols) /\ Len(full) \in Nat
  BY <1>4 DEF OnWire
<1>12. /\ Len(g) = Len(full) + Len(f)
       /\ \A k \in 1..Len(full) : g[k] = full[k]
       /\ \A k \in 1..Len(f) : g[Len(full) + k] = f[k]
  BY <1>7, <1>8, <1>11, JoinIs
<1>13. Flow(g, r)'
  <2>1. PICK m : m = Len(pipe) /\ m \in Nat /\ Len(unwritten) = 0
    BY <1>1, <1>2, LengthsAre
  <2>2. /\ r \in Nat /\ r + m = Len(full)
        /\ \A j \in 1..m : pipe[j] = full[r + j]
    BY <1>4, <2>1 DEF Flow
  <2>3. \A j \in 1..m : pipe[j] = g[r + j]
    <3>1. \A j \in 1..m : r + j \in 1..Len(full)
      BY <2>1, <2>2
    <3> QED
      BY <1>12, <2>2, <3>1
  <2>4. r + m + Len(f) = Len(g) /\ \A j \in 1..Len(f) : f[j] = g[r + m + j]
    BY <1>12, <2>2
  <2>5. pipe' = pipe /\ unwritten' = f
    BY <1>1, <1>7
  <2> QED
    BY <2>1, <2>2, <2>3, <2>4, <2>5 DEF Flow
<1>14. ReadSoFar'
  BY <1>1, <1>4 DEF ReadSoFar, readerVars
<1>15. Reading(os2, off2, r)'
  <2>1. Busy(os, off, r)
    BY <1>1, <1>3, BusyIs
  <2>2. Len(os2) = Len(os) + 1 /\ Len(os) \in Nat /\ \A k \in 1..Len(os) : os2[k] = os[k]
    BY <1>5, <1>7
  <2>3. Len(received) <= Len(os)
    BY <1>4, <1>5 DEF ReadSoFar
  <2>4. Busy(os2, off2, r)
    BY <1>2, <1>6, <2>1, <2>2, <2>3, BusyGrows
  <2> QED
    BY <1>1, <2>4, BusyStays
<1>16. Wire(os2, off2, g, r)'
  <2>1. OnWire(os2, off2, g)
    BY <1>6, <1>7
  <2> QED
    BY <1>10, <1>13, <1>14, <1>15, <2>1 DEF Wire
<1> QED
  BY <1>9, <1>16 DEF WireInv

LEMMA WriteKeeps ==
  ASSUME WireInv, Write
  PROVE  /\ WireInv'
         /\ sent' = sent \/ \E p \in Payloads : sent' = Append(sent, p)
<1>1. /\ ~gone /\ unwritten # <<>> /\ payload' = payload
      /\ pipe' = Append(pipe, Head(unwritten)) /\ unwritten' = Tail(unwritten)
      /\ sent' = IF Len(unwritten) = 1 THEN Append(sent, payload) ELSE sent
      /\ gone' = gone /\ UNCHANGED readerVars
  BY DEF Write
<1>2. WireTyped
  BY DEF WireInv
<1>3. PICK os, off, full, r : Wire(os, off, full, r)
  BY DEF WireInv
<1>4. OnWire(os, off, full) /\ os = Offered /\ Flow(full, r) /\ ReadSoFar
  BY <1>3 DEF Wire
<1>5. payload \in Payloads /\ Len(unwritten) <= Len(Frame(payload))
  BY <1>1, <1>2 DEF WireTyped
<1>6. PICK u, q : u = unwritten /\ q = pipe
  OBVIOUS
<1>7. u \in Seq(Symbols) /\ u # <<>> /\ q \in Seq(Symbols)
  BY <1>1, <1>2, <1>6 DEF WireTyped
<1>8. PICK u2, q2 : u2 = Tail(u) /\ q2 = Append(q, Head(u))
  OBVIOUS
<1>9. /\ u2 \in Seq(Symbols) /\ Len(u2) = Len(u) - 1 /\ Len(u) \in Nat /\ Len(u) > 0
      /\ \A k \in 1..Len(u2) : u2[k] = u[k + 1]
      /\ (u2 = <<>> <=> Len(u) = 1)
  <2>1. Len(u) \in Nat /\ Len(u) > 0
    BY <1>7
  <2>2. u2 \in Seq(Symbols) /\ Len(u2) = Len(u) - 1
    BY <1>7, <1>8, <2>1
  <2>3. \A k \in 1..(Len(u) - 1) : u2[k] = u[k + 1]
    BY <1>7, <1>8, <2>1
  <2>4. u2 = <<>> <=> Len(u2) = 0
    BY <2>2, EmptySeq, Zenon
  <2> QED
    BY <2>1, <2>2, <2>3, <2>4
<1>10. /\ q2 \in Seq(Symbols) /\ Len(q2) = Len(q) + 1 /\ Len(q) \in Nat
       /\ q2[Len(q) + 1] = u[1] /\ \A k \in 1..Len(q) : q2[k] = q[k]
  <2>1. Head(u) = u[1] /\ u[1] \in Symbols
    BY <1>7, <1>9
  <2> QED
    BY <1>7, <1>8, <2>1
<1>11. unwritten' = u2 /\ pipe' = q2
  BY <1>1, <1>6, <1>8
<1>12. sent \in Seq(Payloads) /\ Append(sent, payload) \in Seq(Payloads)
  BY <1>2, <1>5 DEF WireTyped
<1>13. sent' = sent \/ sent' = Append(sent, payload)
  BY <1>1
<1>14. WireTyped'
  <2>1. received' = received /\ header' = header /\ body' = body
    BY <1>1 DEF readerVars
  <2>2. Len(Frame(payload)) \in Nat
    <3>1. Frame(payload) \in Seq(Symbols)
      BY <1>5, FrameIs
    <3> QED
      BY <3>1
  <2>3. Len(u2) <= Len(Frame(payload))
    BY <1>5, <1>6, <1>9, <2>2
  <2>4. sent' \in Seq(Payloads)
    BY <1>12, <1>13
  <2>5. /\ unwritten' \in Seq(Symbols) /\ pipe' \in Seq(Symbols) /\ payload' \in Payloads
        /\ Len(unwritten') <= Len(Frame(payload'))
    BY <1>1, <1>5, <1>9, <1>10, <1>11, <2>3
  <2> QED
    BY <1>1, <1>2, <2>1, <2>4, <2>5 DEF WireTyped
<1>15. os = Append(sent, payload)
  BY <1>1, <1>4 DEF Offered
<1>16. os = Offered'
  <2>1. CASE Len(u) = 1
    BY <1>1, <1>6, <1>9, <1>11, <1>15, <2>1 DEF Offered
  <2>2. CASE Len(u) # 1
    BY <1>1, <1>6, <1>9, <1>11, <1>15, <2>2 DEF Offered
  <2> QED
    BY <2>1, <2>2
<1>17. Flow(full, r)'
  <2>1. /\ r \in Nat /\ r + Len(q) + Len(u) = Len(full)
        /\ \A j \in 1..Len(q) : q[j] = full[r + j]
        /\ \A j \in 1..Len(u) : u[j] = full[r + Len(q) + j]
    BY <1>4, <1>6 DEF Flow
  <2>2. r + Len(q2) + Len(u2) = Len(full)
    <3>1. PICK a \in Nat, b \in Nat : a = Len(q) /\ b = Len(u)
      BY <1>9, <1>10
    <3>2. Len(q2) = a + 1 /\ Len(u2) = b - 1 /\ r + a + b = Len(full) /\ r \in Nat
      BY <1>9, <1>10, <2>1, <3>1
    <3> QED
      BY <3>1, <3>2, SMT
  <2>3. ASSUME NEW j \in 1..Len(q2) PROVE q2[j] = full[r + j]
    <3>1. CASE j = Len(q) + 1
      <4>1. 1 \in 1..Len(u) /\ r + Len(q) + 1 = r + (Len(q) + 1)
        BY <1>9, <1>10, <2>1
      <4> QED
        BY <1>10, <2>1, <3>1, <4>1
    <3>2. CASE j # Len(q) + 1
      <4>1. j \in 1..Len(q)
        BY <1>10, <3>2
      <4> QED
        BY <1>10, <2>1, <4>1
    <3> QED
      BY <3>1, <3>2
  <2>4. ASSUME NEW j \in 1..Len(u2) PROVE u2[j] = full[r + Len(q2) + j]
    <3>1. j + 1 \in 1..Len(u) /\ r + Len(q) + (j + 1) = r + Len(q2) + j
      BY <1>9, <1>10, <2>1
    <3>2. u[j + 1] = full[r + Len(q) + (j + 1)]
      BY <2>1, <3>1
    <3> QED
      BY <1>9, <3>1, <3>2
  <2> QED
    BY <1>11, <2>1, <2>2, <2>3, <2>4 DEF Flow
<1>18. ReadSoFar'
  <2>1. received' = received
    BY <1>1 DEF readerVars
  <2>2. Len(received) \in Nat /\ Len(sent) \in Nat
    BY <1>2, LengthsAre
  <2>3. Len(sent) <= Len(sent') /\ \A k \in 1..Len(sent) : sent'[k] = sent[k]
    BY <1>12, <1>13
  <2>4. Len(received) <= Len(sent) /\ \A k \in 1..Len(received) : received[k] = sent[k]
    BY <1>4 DEF ReadSoFar
  <2>5. Len(received) <= Len(sent') /\ \A k \in 1..Len(received) : received[k] = sent'[k]
    <3>1. Len(sent') \in Nat
      BY <1>12, <1>13
    <3> QED
      BY <2>2, <2>3, <2>4, <3>1
  <2> QED
    BY <2>1, <2>5 DEF ReadSoFar
<1>19. Reading(os, off, r)'
  BY <1>1, <1>3, BusyIs, BusyStays
<1>20. Wire(os, off, full, r)'
  BY <1>4, <1>16, <1>17, <1>18, <1>19 DEF Wire
<1> QED
  BY <1>5, <1>13, <1>14, <1>20 DEF WireInv

LEMMA SameSeq ==
  ASSUME NEW T, NEW s \in Seq(T), NEW t \in Seq(T), Len(s) = Len(t),
         \A k \in 1..Len(s) : s[k] = t[k]
  PROVE  s = t
OBVIOUS

\* One symbol is taken off the pipe.
LEMMA FlowTaken ==
  ASSUME WireTyped, NEW full, NEW r, Flow(full, r), pipe # <<>>,
         pipe' = Tail(pipe), unwritten' = unwritten
  PROVE  Flow(full, r + 1)' /\ pipe' \in Seq(Symbols) /\ Head(pipe) \in Symbols
<1>1. PICK q, u : q = pipe /\ u = unwritten
  OBVIOUS
<1>2. q \in Seq(Symbols) /\ q # <<>> /\ u \in Seq(Symbols)
  BY <1>1 DEF WireTyped
<1>3. Len(q) \in Nat /\ Len(q) > 0 /\ Len(u) \in Nat
  BY <1>2
<1>4. PICK q2 : q2 = Tail(q)
  OBVIOUS
<1>5. q2 \in Seq(Symbols) /\ Len(q2) = Len(q) - 1
  BY <1>2, <1>3, <1>4
<1>6. \A k \in 1..(Len(q) - 1) : q2[k] = q[k + 1]
  BY <1>2, <1>3, <1>4
<1>7. Head(q) \in Symbols
  BY <1>2
<1>8. /\ r \in Nat /\ r + Len(q) + Len(u) = Len(full)
      /\ \A j \in 1..Len(q) : q[j] = full[r + j]
      /\ \A j \in 1..Len(u) : u[j] = full[r + Len(q) + j]
  BY <1>1 DEF Flow
<1>9. PICK a \in Nat, b \in Nat : a = Len(q) /\ b = Len(u) /\ a > 0 /\ Len(q2) = a - 1
  BY <1>3, <1>5
<1>10. r + 1 \in Nat /\ (r + 1) + Len(q2) + Len(u) = Len(full) /\ (r + 1) + Len(q2) = r + Len(q)
  <2>1. PICK c : c = Len(q2)
    OBVIOUS
  <2>2. r \in Nat /\ r + a + b = Len(full) /\ c = a - 1
    BY <1>8, <1>9, <2>1
  <2>3. r + 1 \in Nat /\ (r + 1) + c + b = Len(full) /\ (r + 1) + c = r + a
    BY <2>2, SMT
  <2> QED
    BY <1>9, <2>1, <2>3, Zenon
<1>11. ASSUME NEW j \in 1..Len(q2) PROVE q2[j] = full[(r + 1) + j]
  <2>1. j + 1 \in 1..Len(q) /\ r + (j + 1) = (r + 1) + j /\ j \in 1..(Len(q) - 1)
    BY <1>8, <1>9
  <2> QED
    BY <1>6, <1>8, <2>1
<1>12. pipe' = q2 /\ unwritten' = u
  BY <1>1, <1>4
<1>13. Flow(full, r + 1)'
  BY <1>8, <1>10, <1>11, <1>12 DEF Flow
<1> QED
  BY <1>1, <1>5, <1>7, <1>12, <1>13

LEMMA ReadHeaderKeeps ==
  ASSUME WireInv, ReadHeader
  PROVE  WireInv' /\ state' # "ended"
<1>1. /\ state = "header" /\ pipe # <<>> /\ pipe' = Tail(pipe)
      /\ payload' = payload /\ unwritten' = unwritten /\ sent' = sent /\ gone' = gone
      /\ received' = received
  BY DEF ReadHeader, writerVars, StartBody
<1>2. WireTyped
  BY DEF WireInv
<1>3. PICK os, off, full, r : Wire(os, off, full, r)
  BY DEF WireInv
<1>4. OnWire(os, off, full) /\ os = Offered /\ Flow(full, r) /\ ReadSoFar
  BY <1>3 DEF Wire
<1>5. PICK n, p, h : n = Len(received) /\ p = os[n + 1] /\ h = Len(header)
  OBVIOUS
<1>6. /\ n < Len(os) /\ p \in Payloads /\ r = off[n] + h /\ h <= Len(HeadOf(p))
      /\ \A j \in 1..h : header[j] = HeadOf(p)[j]
      /\ Head(pipe) = Frame(p)[h + 1]
  BY <1>1, <1>2, <1>3, <1>5, HeaderMeets
<1>7. /\ HeadOf(p) \in Seq(Symbols) /\ Len(HeadOf(p)) \in Nat
      /\ \A k \in 1..Len(HeadOf(p)) : HeadOf(p)[k] # BlankLine /\ Frame(p)[k] = HeadOf(p)[k]
      /\ Frame(p)[Len(HeadOf(p)) + 1] = BlankLine
  BY <1>6, HeadIs, FrameIs
<1>8. h \in Nat /\ n \in Nat /\ off[n] \in Nat
  BY <1>2, <1>4, <1>5, <1>6, LengthsAre, WireIs
<1>9. Flow(full, r + 1)' /\ pipe' \in Seq(Symbols) /\ Head(pipe) \in Symbols
  BY <1>1, <1>2, <1>4, FlowTaken
<1>10. os = Offered' /\ ReadSoFar'
  BY <1>1, <1>4 DEF Offered, ReadSoFar
<1>11. CASE Head(pipe) = BlankLine
  <2>1. h = Len(HeadOf(p))
    <3> SUFFICES ASSUME h # Len(HeadOf(p)) PROVE FALSE
      OBVIOUS
    <3>1. h + 1 \in 1..Len(HeadOf(p))
      BY <1>6, <1>7, <1>8
    <3> QED
      BY <1>6, <1>7, <1>11, <3>1
  <2>2. header = HeadOf(p)
    <3>1. header \in Seq(Symbols)
      BY <1>2 DEF WireTyped
    <3> QED
      BY <1>5, <1>6, <1>7, <2>1, <3>1, SameSeq, Zenon
  <2>3. ContentLength(header) = Len(p) /\ Len(p) \in Nat /\ Len(p) > 0
    BY <1>6, <2>2, LengthReadsBack, PayloadIs
  <2>4. StartBody(header)
    BY <1>11 DEF ReadHeader
  <2>5. length' = Len(p) /\ body' = <<>> /\ header' = <<>> /\ state' = "body"
    BY <2>3, <2>4 DEF StartBody
  <2>6. r + 1 = off[n] + Len(HeadOf(p)) + 1 + 0
    BY <1>6, <1>7, <1>8, <2>1
  <2>7. InBody(os, off, r + 1, n)'
    BY <1>5, <1>6, <2>3, <2>5, <2>6 DEF InBody
  <2>8. Reading(os, off, r + 1)'
    BY <1>1, <1>5, <2>5, <2>7 DEF Reading
  <2>9. WireTyped'
    BY <1>1, <1>2, <1>9, <2>5 DEF WireTyped
  <2>10. Wire(os, off, full, r + 1)'
    BY <1>4, <1>9, <1>10, <2>8 DEF Wire
  <2> QED
    BY <2>5, <2>9, <2>10 DEF WireInv
<1>12. CASE Head(pipe) # BlankLine
  <2>1. /\ header' = Append(header, Head(pipe)) /\ state' = "header" /\ body' = body
        /\ length' = length
    BY <1>1, <1>12 DEF ReadHeader
  <2>2. h + 1 <= Len(HeadOf(p))
    BY <1>6, <1>7, <1>8, <1>12
  <2>3. PICK e, g, g2 : e = Head(pipe) /\ g = header /\ g2 = Append(g, e)
    OBVIOUS
  <2>4. g \in Seq(Symbols) /\ e \in Symbols /\ Len(g) = h
    BY <1>2, <1>5, <1>9, <2>3 DEF WireTyped
  <2>5. /\ g2 \in Seq(Symbols) /\ Len(g2) = h + 1 /\ g2[h + 1] = e
        /\ \A j \in 1..h : g2[j] = g[j]
    BY <2>3, <2>4
  <2>6. e = HeadOf(p)[h + 1]
    <3>1. h + 1 \in 1..Len(HeadOf(p))
      BY <1>7, <1>8, <2>2
    <3> QED
      BY <1>6, <1>7, <2>3, <3>1
  <2>7. \A j \in 1..(h + 1) : g2[j] = HeadOf(p)[j]
    <3>1. \A j \in 1..(h + 1) : j \in 1..h \/ j = h + 1
      BY <1>8
    <3> QED
      BY <1>6, <2>3, <2>5, <2>6, <3>1
  <2>8. header' = g2
    BY <2>1, <2>3
  <2>9. InHeader(os, off, r + 1, n)'
    <3>1. r + 1 = off[n] + (h + 1)
      BY <1>6, <1>8
    <3> QED
      BY <1>5, <1>6, <2>2, <2>5, <2>7, <2>8, <3>1 DEF InHeader
  <2>10. Reading(os, off, r + 1)'
    BY <1>1, <1>5, <2>1, <2>9 DEF Reading
  <2>11. WireTyped'
    BY <1>1, <1>2, <1>9, <2>1, <2>5, <2>8 DEF WireTyped
  <2>12. Wire(os, off, full, r + 1)'
    BY <1>4, <1>9, <1>10, <2>10 DEF Wire
  <2> QED
    BY <2>1, <2>11, <2>12 DEF WireInv
<1> QED
  BY <1>11, <1>12

LEMMA ReadBodyKeeps ==
  ASSUME WireInv, ReadBody
  PROVE  /\ WireInv' /\ state' # "ended"
         /\ \/ received' = received
            \/ /\ Len(received) < Len(sent)
               /\ received' = Append(received, sent[Len(received) + 1])
<1>1. /\ state = "body" /\ pipe # <<>> /\ pipe' = Tail(pipe)
      /\ payload' = payload /\ unwritten' = unwritten /\ sent' = sent /\ gone' = gone
      /\ header' = header /\ length' = length
  BY DEF ReadBody, writerVars
<1>2. WireTyped
  BY DEF WireInv
<1>3. PICK os, off, full, r : Wire(os, off, full, r)
  BY DEF WireInv
<1>4. OnWire(os, off, full) /\ os = Offered /\ Flow(full, r) /\ ReadSoFar
  BY <1>3 DEF Wire
<1>5. PICK n, p, b, h : /\ n = Len(received) /\ p = os[n + 1] /\ b = Len(body)
                        /\ h = Len(HeadOf(p))
  OBVIOUS
<1>6. /\ InBody(os, off, r, n) /\ p \in Payloads
      /\ Head(pipe) = p[b + 1] /\ (b + 1 = length => n < Len(sent))
  BY <1>1, <1>2, <1>3, <1>5, BodyMeets
<1>7. /\ header = <<>> /\ n < Len(os) /\ length = Len(p) /\ b < length
      /\ r = off[n] + h + 1 + b /\ \A j \in 1..b : body[j] = p[j]
  BY <1>5, <1>6 DEF InBody
<1>8. /\ h \in Nat /\ n \in Nat /\ b \in Nat /\ off[n] \in Nat /\ Len(p) \in Nat
      /\ off[n + 1] = off[n] + (h + 1 + Len(p)) /\ p \in Seq(Symbols)
  <2>1. n \in Nat /\ b \in Nat
    BY <1>2, <1>5, LengthsAre
  <2>2. h \in Nat /\ Len(p) \in Nat /\ p \in Seq(Symbols)
    BY <1>5, <1>6, HeadIs, PayloadIs
  <2>3. n \in 0..Len(os) /\ Len(os) \in Nat
    BY <1>4, <1>7, <2>1, WireIs
  <2>4. off[n] \in Nat /\ off[n + 1] = off[n] + Len(Frame(p))
    <3>1. off[n] \in Nat
      BY <1>4, <2>3, WireIs
    <3>2. off[n + 1] = off[n] + Len(Frame(os[n + 1]))
      BY <1>4, <1>7, <2>1, WireIs
    <3> QED
      BY <1>5, <3>1, <3>2, Zenon
  <2>5. Len(Frame(p)) = h + 1 + Len(p)
    BY <1>5, <1>6, FrameIs
  <2> QED
    BY <2>1, <2>2, <2>4, <2>5
<1>9. Flow(full, r + 1)' /\ pipe' \in Seq(Symbols) /\ Head(pipe) \in Symbols
  BY <1>1, <1>2, <1>4, FlowTaken
<1>10. os = Offered'
  BY <1>1, <1>4 DEF Offered
<1>11. PICK e, g, g2 : e = Head(pipe) /\ g = body /\ g2 = Append(g, e)
  OBVIOUS
<1>12. g \in Seq(Symbols) /\ e \in Symbols /\ Len(g) = b
  BY <1>2, <1>5, <1>9, <1>11 DEF WireTyped
<1>13. /\ g2 \in Seq(Symbols) /\ Len(g2) = b + 1 /\ g2[b + 1] = e
       /\ \A j \in 1..b : g2[j] = g[j]
  BY <1>11, <1>12
<1>14. \A j \in 1..(b + 1) : g2[j] = p[j]
  <2>1. \A j \in 1..(b + 1) : j \in 1..b \/ j = b + 1
    BY <1>8
  <2> QED
    BY <1>6, <1>7, <1>11, <1>13, <2>1
<1>15. CASE b + 1 = length
  <2>1. g2 = p
    BY <1>7, <1>8, <1>13, <1>14, <1>15, SameSeq
  <2>2. received' = Append(received, p) /\ state' = "header" /\ body' = body
    <3>1. received' = Append(received, Append(body, Head(pipe)))
      BY <1>5, <1>15 DEF ReadBody
    <3>2. state' = "header" /\ body' = body
      BY <1>5, <1>15 DEF ReadBody
    <3> QED
      BY <1>11, <2>1, <3>1, <3>2
  <2>3. n < Len(sent) /\ Len(sent) \in Nat /\ p = sent[n + 1]
    <3>1. n < Len(sent) /\ Len(sent) \in Nat
      BY <1>2, <1>6, <1>15, LengthsAre
    <3>2. n + 1 \in 1..Len(sent)
      BY <1>8, <3>1
    <3> QED
      BY <1>2, <1>4, <1>5, <3>1, <3>2, OfferedIs
  <2>4. PICK c, c2 : c = received /\ c2 = Append(c, p)
    OBVIOUS
  <2>5. c \in Seq(Payloads) /\ Len(c) = n
    BY <1>2, <1>5, <2>4 DEF WireTyped
  <2>6. /\ c2 \in Seq(Payloads) /\ Len(c2) = n + 1 /\ c2[n + 1] = p
        /\ \A k \in 1..n : c2[k] = c[k]
    BY <1>6, <2>4, <2>5
  <2>7. received' = c2
    BY <2>2, <2>4
  <2>8. ReadSoFar'
    <3>1. \A k \in 1..n : c[k] = sent[k]
      BY <1>4, <1>5, <2>4 DEF ReadSoFar
    <3>2. \A k \in 1..(n + 1) : k \in 1..n \/ k = n + 1
      BY <1>8
    <3>3. n + 1 <= Len(sent) /\ \A k \in 1..(n + 1) : c2[k] = sent[k]
      BY <1>8, <2>3, <2>6, <3>1, <3>2
    <3> QED
      BY <1>1, <2>6, <2>7, <3>3 DEF ReadSoFar
  <2>9. InHeader(os, off, r + 1, n + 1)'
    <3>1. r + 1 = off[n + 1] + 0
      <4>1. PICK o \in Nat, l \in Nat : o = off[n] /\ l = Len(p)
        BY <1>8
      <4>2. r = o + h + 1 + b /\ off[n + 1] = o + (h + 1 + l) /\ l = b + 1
        BY <1>7, <1>8, <1>15, <4>1, Zenon
      <4> QED
        BY <1>8, <4>1, <4>2
    <3>2. header' = <<>> /\ Len(<<>>) = 0
      BY <1>1, <1>7
    <3> QED
      BY <3>1, <3>2 DEF InHeader
  <2>10. Reading(os, off, r + 1)'
    <3>1. Len(received') = n + 1 /\ state' = "header"
      BY <2>2, <2>6, <2>7
    <3> QED
      BY <2>9, <3>1 DEF Reading
  <2>11. WireTyped'
    BY <1>1, <1>2, <1>9, <2>2, <2>6, <2>7 DEF WireTyped
  <2>12. Wire(os, off, full, r + 1)'
    BY <1>4, <1>9, <1>10, <2>8, <2>10 DEF Wire
  <2>13. WireInv'
    BY <2>11, <2>12 DEF WireInv
  <2> QED
    BY <1>5, <2>2, <2>3, <2>13
<1>16. CASE b + 1 # length
  <2>1. body' = g2 /\ state' = "body" /\ received' = received
    BY <1>1, <1>5, <1>11, <1>16 DEF ReadBody
  <2>2. ReadSoFar'
    BY <1>1, <1>4, <2>1 DEF ReadSoFar
  <2>3. InBody(os, off, r + 1, n)'
    <3>1. b + 1 < length /\ r + 1 = off[n] + h + 1 + (b + 1)
      <4>1. PICK o \in Nat, l \in Nat : o = off[n] /\ l = Len(p)
        BY <1>8
      <4>2. r = o + h + 1 + b /\ b < l /\ b + 1 # l /\ length = l
        BY <1>7, <1>16, <4>1, Zenon
      <4>3. h \in Nat /\ b \in Nat
        BY <1>8
      <4>5. b < l /\ b + 1 # l => b + 1 < l
        BY <4>1, <4>3
      <4>6. (o + h + 1 + b) + 1 = o + h + 1 + (b + 1)
        BY <4>1, <4>3
      <4>4. b + 1 < l /\ r + 1 = o + h + 1 + (b + 1)
        BY <4>2, <4>5, <4>6, Zenon
      <4> QED
        BY <4>1, <4>2, <4>4, Zenon
    <3> QED
      BY <1>1, <1>5, <1>7, <1>13, <1>14, <2>1, <3>1 DEF InBody
  <2>4. Reading(os, off, r + 1)'
    BY <1>5, <2>1, <2>3 DEF Reading
  <2>5. WireTyped'
    BY <1>1, <1>2, <1>9, <1>13, <2>1 DEF WireTyped
  <2>6. Wire(os, off, full, r + 1)'
    BY <1>4, <1>9, <1>10, <2>2, <2>4 DEF Wire
  <2> QED
    BY <2>1, <2>5, <2>6 DEF WireInv
<1> QED
  BY <1>15, <1>16

\* What ends here has read everything.
LEMMA CutKeepsWire ==
  ASSUME WireInv, state \in {"header", "body"}, EndOfFile, UNCHANGED <<reader, pipe>>,
         UNCHANGED writerVars, received' = received, state' \in {"body", "ended"},
         header' \in Seq(Symbols), body' \in Seq(Symbols)
  PROVE  WireInv' /\ gone /\ received = sent
<1>1. /\ gone /\ pipe = <<>> /\ pipe' = pipe /\ gone' = gone /\ sent' = sent
      /\ unwritten' = unwritten /\ payload' = payload
  BY DEF EndOfFile, writerVars
<1>2. WireTyped
  BY DEF WireInv
<1>3. PICK os, off, full, r : Wire(os, off, full, r)
  BY DEF WireInv
<1>4. OnWire(os, off, full) /\ os = Offered /\ Flow(full, r) /\ ReadSoFar
  BY <1>3 DEF Wire
<1>5. received = sent
  BY <1>1, <1>2, <1>3, NothingLeft
<1>6. os = Offered' /\ Flow(full, r)' /\ ReadSoFar'
  BY <1>1, <1>4 DEF Offered, Flow, ReadSoFar
<1>7. Reading(os, off, r)'
  BY <1>1, <1>5 DEF Reading, AllRead
<1>8. Wire(os, off, full, r)'
  BY <1>4, <1>6, <1>7 DEF Wire
<1>9. WireTyped'
  BY <1>1, <1>2 DEF WireTyped
<1> QED
  BY <1>1, <1>5, <1>8, <1>9 DEF WireInv

LEMMA WireKept ==
  WireInv /\ [WireNext]_wireVars =>
    WireInv' /\ [Channel!Next]_<<sent, received, gone, state = "ended">>
<1> SUFFICES ASSUME WireInv, [WireNext]_wireVars
             PROVE  WireInv' /\ [Channel!Next]_<<sent, received, gone, state = "ended">>
  OBVIOUS
<1> DEFINE e == state = "ended"
<1>0. WireTyped
  BY DEF WireInv
<1>1. ASSUME NEW p \in Payloads, WriteFrame(p)
      PROVE  WireInv' /\ UNCHANGED <<sent, received, gone, e>>
  BY <1>1, WriteFrameKeeps DEF WriteFrame, readerVars
<1>2. CASE Write
  <2>1. WireInv' /\ (sent' = sent \/ \E p \in Payloads : sent' = Append(sent, p))
    BY <1>2, WriteKeeps
  <2>2. ~gone /\ received' = received /\ gone' = gone /\ state' = state
    BY <1>2 DEF Write, readerVars
  <2> QED
    BY <2>1, <2>2 DEF Channel!Next, Channel!Send
<1>3. CASE Leave
  <2>1. /\ ~gone /\ gone' = TRUE /\ UNCHANGED <<pipe, payload, unwritten, sent>>
        /\ UNCHANGED readerVars
    BY <1>3 DEF Leave
  <2>2. PICK os, off, full, r : Wire(os, off, full, r)
    BY DEF WireInv
  <2>3. Reading(os, off, r)'
    BY <2>1, <2>2, BusyIs, BusyStays
  <2>4. os = Offered' /\ Flow(full, r)' /\ ReadSoFar'
    BY <2>1, <2>2 DEF Wire, Offered, Flow, ReadSoFar, readerVars
  <2>5. Wire(os, off, full, r)'
    BY <2>2, <2>3, <2>4 DEF Wire
  <2>6. WireTyped'
    BY <1>0, <2>1 DEF WireTyped, readerVars
  <2>7. Channel!Leave
    BY <2>1 DEF Channel!Leave, readerVars
  <2> QED
    BY <2>5, <2>6, <2>7 DEF WireInv, Channel!Next
<1>4. CASE ReadHeader
  <2>1. WireInv' /\ state' # "ended"
    BY <1>4, ReadHeaderKeeps
  <2>2. state = "header" /\ sent' = sent /\ received' = received /\ gone' = gone
    BY <1>4 DEF ReadHeader, StartBody, writerVars
  <2> QED
    BY <2>1, <2>2
<1>5. CASE HeaderCut
  <2>1. /\ state = "header" /\ EndOfFile /\ UNCHANGED <<reader, pipe>> /\ UNCHANGED writerVars
        /\ received' = received /\ state' \in {"body", "ended"}
    BY <1>5 DEF HeaderCut, StartBody
  <2>2. header' \in Seq(Symbols) /\ body' \in Seq(Symbols)
    <3>1. header \in Seq(Symbols) /\ body \in Seq(Symbols) /\ <<>> \in Seq(Symbols)
      BY <1>0, EmptySeq DEF WireTyped
    <3>2. \/ header' = <<>> /\ body' = <<>>
          \/ header' = header /\ body' = body
      BY <1>5 DEF HeaderCut, StartBody
    <3> QED
      BY <3>1, <3>2
  <2>3. WireInv' /\ gone /\ received = sent
    BY <2>1, <2>2, CutKeepsWire
  <2> QED
    BY <2>1, <2>3 DEF Channel!Next, Channel!End, writerVars
<1>6. CASE ReadBody
  <2>1. /\ WireInv' /\ state' # "ended"
        /\ \/ received' = received
           \/ /\ Len(received) < Len(sent)
              /\ received' = Append(received, sent[Len(received) + 1])
    BY <1>6, ReadBodyKeeps
  <2>2. state = "body" /\ sent' = sent /\ gone' = gone
    BY <1>6 DEF ReadBody, writerVars
  <2> QED
    BY <2>1, <2>2 DEF Channel!Next, Channel!Receive
<1>7. CASE BodyCut
  <2>1. /\ state = "body" /\ EndOfFile /\ UNCHANGED <<reader, pipe>> /\ UNCHANGED writerVars
        /\ received' = received /\ state' = "ended" /\ header' = header /\ body' = body
    BY <1>7 DEF BodyCut
  <2>2. header' \in Seq(Symbols) /\ body' \in Seq(Symbols)
    BY <1>0, <2>1 DEF WireTyped
  <2>3. WireInv' /\ gone /\ received = sent
    BY <2>1, <2>2, CutKeepsWire
  <2> QED
    BY <2>1, <2>3 DEF Channel!Next, Channel!End, writerVars
<1>8. CASE UNCHANGED wireVars
  <2>1. PICK os, off, full, r : Wire(os, off, full, r)
    BY DEF WireInv
  <2>2. Wire(os, off, full, r)'
    BY <1>8, <2>1 DEF Wire, Offered, Flow, ReadSoFar, Reading, InHeader, InBody, AllRead,
       wireVars, readerVars, writerVars
  <2>3. WireTyped'
    BY <1>0, <1>8 DEF WireTyped, wireVars, readerVars, writerVars
  <2> QED
    BY <1>8, <2>2, <2>3 DEF WireInv, wireVars, readerVars, writerVars
<1> QED
  BY <1>1, <1>2, <1>3, <1>4, <1>5, <1>6, <1>7, <1>8 DEF WireNext, Read

\* The pipe of frames that the other modules take for granted: readFrame returns
\* what was written, payload by payload, whatever the payloads look like and
\* wherever the writer stops (transport.h:14).
THEOREM FramingImplementsChannel == WireSpec => ImplementsChannel
<1>1. WireInit => Channel!Init
  BY DEF WireInit, Channel!Init
<1> QED
  BY <1>1, WireStarts, WireKept, PTL DEF WireSpec, ImplementsChannel, Channel!Spec
=============================================================================

---------------------------- MODULE MCQueryTools ----------------------------
\* Two editions of a package in two repositories and installed, one visible and
\* one hidden pattern; every such pool, and every request of three slices.  For
\* check_updates two categories, three days from the epoch on, one CVE and one bug;
\* every single patch, no patch and all of them, and every request over them.
EXTENDS QueryTools

a1 == [name |-> "a", kind |-> "package", ed |-> 1]
a2 == [name |-> "a", kind |-> "package", ed |-> 2]
v1 == [name |-> "v", kind |-> "pattern", ed |-> 1]
h1 == [name |-> "h", kind |-> "pattern", ed |-> 1]

MCIdents == {a1, a2, v1, h1}
MCHidden == {h1}
MCPriority == [r \in Repos |-> IF r = "r1" THEN 0 ELSE 1]

MCHits(attr, mode) ==
    CASE mode = "pattern" -> {a1, a2, h1}
      [] mode = "exact"   -> {v1}
      [] attr = "name"    -> {a1, a2, v1}
      [] OTHER            -> {a2, h1}
MCProviders == {a1, a2, h1}
MCNamed(exact) == IF exact THEN {a1, a2} ELSE {a1, a2, v1}
MCDepends(rel, i) ==
    CASE rel = "requires"   -> IF i = a1 THEN {a2, h1} ELSE {v1}
      [] rel = "recommends" -> IF i = a2 THEN {a1} ELSE {}
      [] OTHER              -> {}

Places == {[id |-> i, repo |-> r] : i \in {a1, a2}, r \in {"r1", "r2", SYSTEM}}
            \cup {[id |-> h1, repo |-> "r2"]}
\* at most one installed edition of the name
MCPools == {p \cup {[id |-> v1, repo |-> "r1"]} :
                p \in {q \in SUBSET Places : Cardinality({s \in q : s.repo = SYSTEM}) <= 1}}

Arg(v, w) == [value |-> v, asWritten |-> w]
Base == [tool |-> "search", invalid |-> FALSE, type |-> "", repo |-> "", installedOnly |-> FALSE,
         match |-> Absent, special |-> FALSE, searchIn |-> Absent, descriptions |-> FALSE,
         notInstalledOnly |-> FALSE, details |-> FALSE, relation |-> Absent, exact |-> TRUE]

MCSearches == {[Base EXCEPT !.type = ty, !.repo = r, !.installedOnly = io, !.notInstalledOnly = no,
                            !.details = d, !.match = m, !.special = sp] :
        ty \in {"", "pattern"}, r \in {"", "r2"}, io \in BOOLEAN, no \in BOOLEAN, d \in BOOLEAN,
        m \in {Absent, Arg("substrings", TRUE)}, sp \in BOOLEAN}
    \cup {[Base EXCEPT !.searchIn = Arg("provides", w), !.descriptions = de, !.details = d,
                       !.match = Arg(m, TRUE)] :
        w \in BOOLEAN, de \in BOOLEAN, d \in BOOLEAN, m \in {"words", "exact"}} \cup {[Base EXCEPT !.match = Arg("exact", FALSE)]}
MCProviderCalls == {[Base EXCEPT !.tool = "providers", !.type = ty, !.repo = r, !.installedOnly = io,
                                 !.invalid = inv] :
        ty \in {"", "all", "pattern"}, r \in {"", "r1", SYSTEM}, io \in BOOLEAN, inv \in BOOLEAN}
MCDependentCalls == {[Base EXCEPT !.tool = "dependents", !.type = ty, !.repo = r, !.installedOnly = io,
                                  !.relation = rel, !.exact = ex] :
        ty \in {"", "all"}, r \in {"", "r1"}, io \in BOOLEAN,
        rel \in {Absent, Arg("recommends", TRUE), Arg("recommends", FALSE), Arg("requires", TRUE)},
        ex \in BOOLEAN}
MCRequests == MCSearches \cup MCProviderCalls \cup MCDependentCalls

MCIssues == {[type |-> "cve", id |-> 1], [type |-> "bugzilla", id |-> 1]}
Every == [needed : BOOLEAN, category : Categories, severity : {"low"}, date : {0, 1}, issues : SUBSET MCIssues]
MCPatchSets == {{p} : p \in Every} \cup {{}, Every}
Filters == [tool : {"updates"}, applicableOnly : BOOLEAN, notBool : {FALSE},
            category : {None, "security"}, severity : {None, "low"},
            date : {None, 0, 1, 2}, cve : {None, 1}, bugzilla : {None, 1}]
MCUpdateRequests == Filters \cup {[r EXCEPT !.date = Malformed] : r \in Filters}
                            \cup {[r EXCEPT !.notBool = TRUE] : r \in Filters}
=============================================================================

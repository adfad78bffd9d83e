---------------------------- MODULE MCRegistration ----------------------------
\* Directories of up to three entries: workers that offer one or two of three
\* tools, a broken worker, a test binary, a subdirectory, a file of another
\* program and one that is not executable.
EXTENDS Registration

Tool(n, r) == [name |-> n, root |-> r]
Plan == Tool("plan", FALSE)
Confirm == Tool("confirm", TRUE)
MCOffers == {<<Plan>>, <<Confirm>>, <<Plan, Confirm>>, <<Confirm, Plan>>, <<Tool("confirm", FALSE)>>, <<Plan, Plan>>,
             <<Tool("search", FALSE)>>, <<>>}
Entries ==
    {[isDir |-> FALSE, prefixed |-> TRUE, tests |-> FALSE, executable |-> TRUE, offers |-> o] :
        o \in MCOffers \cup {Broken}}
    \cup {[isDir |-> d, prefixed |-> p, tests |-> t, executable |-> x, offers |-> Broken] :
        <<d, p, t, x>> \in {<<TRUE, TRUE, FALSE, TRUE>>, <<FALSE, FALSE, FALSE, TRUE>>,
                            <<FALSE, TRUE, TRUE, TRUE>>, <<FALSE, TRUE, FALSE, FALSE>>}}
File(k) == <<"w1", "w2", "w3">>[k]
Filed(es) == [k \in DOMAIN es |-> [file |-> File(k), isDir |-> es[k].isDir, prefixed |-> es[k].prefixed,
                tests |-> es[k].tests, executable |-> es[k].executable, offers |-> es[k].offers]]
MCDirectories == {Filed(es) : es \in UNION {[1..n -> Entries] : n \in 0..3}}
MCReplacements == {<<Plan>>, <<Confirm>>, Broken}
=============================================================================

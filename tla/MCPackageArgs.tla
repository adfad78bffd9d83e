---------------------------- MODULE MCPackageArgs ----------------------------
\* Three names, one version and one operator; two aliases, one of them with a
\* colon and the other its prefix; a second kind.
EXTENDS PackageArgs

MCOperators == {">="}
MCAliases   == {<<"repo">>, <<"repo", ":", "sub">>}

\* Lists of requests cut in every way: with and without an operator, side by side.
Single == {<<"vim">>, <<"vim", ">=", "1">>, <<"joe", ">=", "1">>, <<"-", "joe">>}
MCRequests == UNION {[1..n -> Single] : n \in 1..2} \cup {<<<<"joe">>, <<"vim", ">=", "1">>, <<"vim">>>>}
Cut == UNION {CutsOfAll(rs) : rs \in MCRequests}

\* Any three strings, well formed or not, the empty one included.
Odd == {<<>>, <<"vim">>, <<">=">>, <<"vim", ">=">>, <<">=", "1">>}
\* Three strings that agree or contradict each other about one capability.
Sided == {<<"vim">>, <<"-", "vim">>, <<"+", "vim">>, <<"~", "vim">>, <<"!", "repo", ":", "vim">>,
          <<"repo", ":", "sub", ":", "vim">>, <<"package", ":", "vim">>, <<"vim", "(", "repo", ":", "x">>,
          <<"-">>, <<"-", "-", "vim">>}
MCInputs == Cut \cup UNION {[1..n -> Odd] : n \in 1..3} \cup UNION {[1..n -> Sided] : n \in 0..3}

\* Cut lists with one empty string somewhere.
MCWithEmpty == UNION {{SubSeq(c, 1, k) \o <<<<>>>> \o SubSeq(c, k + 1, Len(c)) : k \in 0..Len(c)} :
                        c \in CutsOfAll(<<<<"vim", ">=", "1">>>>)}
=============================================================================

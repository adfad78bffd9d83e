--------------------------- MODULE MCConfirmGate ---------------------------
(* Small instances of ConfirmGate. *)
EXTENDS ConfirmGate, TLC

CONSTANTS c1, c2, A, B, None, IdA, IdB

Symmetry == Permutations(Calls)

Build(n, e, r) == [name |-> n, edition |-> e, repo |-> r]

\* An application needs what two libraries provide.  Its license is the same
\* for versions 1 and 2, changes with version 3 to the text the library "alt"
\* has as well, and version 1 is in two repositories.
\* The second state of the metadata lacks the libraries.
MCBuilds == {Build("app", 1, 1), Build("app", 1, 2), Build("app", 2, 1),
             Build("app", 3, 1), Build("lib", 1, 1), Build("alt", 1, 1)}

MCSnapshots ==
  {{Build("app", 1, 2), Build("lib", 1, 1), Build("alt", 1, 1)},
   {Build("app", 1, 1), Build("app", 1, 2), Build("app", 2, 1)},
   {Build("app", 1, 1), Build("app", 3, 1), Build("alt", 1, 1)}}

MCRequires == [n \in {"app", "lib", "alt"} |-> IF n = "app" THEN {"so"} ELSE {}]
MCProvides == [n \in {"app", "lib", "alt"} |-> IF n = "app" THEN {"app"}
                                               ELSE {n, "so"}]
MCTargets  == {"app", "lib", "so"}

Question(tool, target, via, args, root) ==
  [tool |-> tool, target |-> target, via |-> via, args |-> args, root |-> root]

\* Root's calls, unprivileged ones and ones with bad arguments.
MCAsked ==
  {Question(t, "app", v, "fine", TRUE) : t \in Installs, v \in {"name", "cap"}}
  \union {Question("confirm_remove", "app", "name", "fine", TRUE),
          Question("confirm_remove", "lib", "name", "fine", TRUE),
          Question("confirm_remove", "so", "cap", "fine", TRUE),
          Question("plan_remove", "app", "name", "fine", TRUE)}
  \union {Question(t, "app", "name", "fine", FALSE)
           : t \in Confirms \union {"plan_install"}}
  \union {Question("confirm_install", "app", "name", a, TRUE)
           : a \in {"noJson", "bad", "badLicenses"}}

\* The same text for the same name and version, whatever the repository.
MCEula ==
  [b \in MCBuilds |-> CASE b.name = "app" -> IF b.edition < 3 THEN A ELSE B
                        [] b.name = "alt" -> B
                        [] OTHER          -> None]

\* Repository 1 publishes another text with the same name and version.
MCEulaPerRepo ==
  [b \in MCBuilds |-> CASE b.name = "app" -> IF b.repo = 1 THEN A ELSE B
                        [] OTHER          -> None]

MCLicenseId == A :> IdA @@ B :> IdB @@ None :> None
=============================================================================

---------------------------- MODULE MCInspection ----------------------------
(* Instances of Inspection for model checking.                             *)
EXTENDS Inspection, TLC

File(kind, has) == [kind |-> kind, at |-> {}, size |-> 1, has |-> has]
Empty == [format |-> "data", whole |-> TRUE, members |-> {}, record |-> "matching", requires |-> {},
          modules |-> <<>>, image |-> {}, size |-> 1, has |-> {}]

\* Two releases of one project, the second with a native library and more
\* requirements; a source distribution; an npm package with lifecycle scripts,
\* whole and cut short; an image; a wheel and an image the scanner fails on.
First == [Empty EXCEPT !.format = "zip", !.members = {File("py", {})}, !.modules = <<{}>>]
Second == [First EXCEPT !.members = @ \cup {File("native", {})}, !.requires = {"more"},
                        !.modules = <<{"high"}>>]
Source == [Empty EXCEPT !.format = "tar", !.members = {File("package", {"lifecycle"}), File("py", {"network"})}]
Package == [Empty EXCEPT !.format = "tar", !.members = {[File("package", {"lifecycle"}) EXCEPT !.size = 3]}]
Cut == [Package EXCEPT !.whole = FALSE]
Image == [Empty EXCEPT !.format = "json", !.image = {"root"}]
Broken == [First EXCEPT !.record = "broken"]
Odd == [Image EXCEPT !.image = {"odd"}]

SomeContents == {First, Second, Source, Package, Cut, Image, Broken, Odd}

Ask(route, ecosystem, project, version, form, content) ==
    [route |-> route, ecosystem |-> ecosystem, project |-> project, version |-> version,
     form |-> form, content |-> content, age |-> 48, mutable |-> FALSE, declared |-> TRUE,
     yanked |-> FALSE, env |-> "ci", force |-> FALSE, sandbox |-> FALSE]

Library(route, version) ==
    Ask(route, "pypi", "lib", version, "whl", IF version = 1 THEN First ELSE Second)
Kit(ecosystem) == Ask("universal", ecosystem, "kit", 1, "tgz", Package)
Pull == Ask("universal", "oci", "lib", None, "oci.json", Image)

SomeJobs ==
    {Library(route, version) : route \in {"legacy", "universal"}, version \in 1 .. 2}
    \cup {[Library("legacy", 1) EXCEPT !.sandbox = TRUE], [Library("universal", 2) EXCEPT !.env = "prod"],
          [Library("legacy", 1) EXCEPT !.age = None, !.project = "other"]}
    \cup {Ask(route, "pypi", "lib", 1, "tar.gz", Source) : route \in {"legacy", "universal"}}
    \cup {Kit("npm"), Kit("generic"), [Kit("npm") EXCEPT !.force = TRUE],
          [Kit("npm") EXCEPT !.form = "other"], [Kit("npm") EXCEPT !.content = Cut],
          [Kit("npm") EXCEPT !.content = Cut, !.form = "other"],
          [Kit("npm") EXCEPT !.content = Cut, !.force = TRUE],
          [Kit("npm") EXCEPT !.version = 2, !.form = "other"]}
    \cup {[Library("legacy", 2) EXCEPT !.yanked = TRUE], [Library("legacy", 2) EXCEPT !.content = Broken],
          [Kit("generic") EXCEPT !.project = "lib"]}
    \cup {[Pull EXCEPT !.content = Odd], [Pull EXCEPT !.env = "prod"], [Pull EXCEPT !.env = "prod", !.mutable = TRUE]}

Base == [mode |-> "enforce", allow |-> {}, minimum |-> [dev |-> 0, ci |-> 0, prod |-> 24],
         max |-> 3, review |-> 3, sandboxProd |-> TRUE, denyMutable |-> TRUE,
         reviewMutable |-> TRUE, digestGeneric |-> TRUE]
SomePolicies == {Base, [Base EXCEPT !.sandboxProd = FALSE, !.allow = {"native_code", "references_network"}]}

Symmetry == Permutations(Requests)
=============================================================================

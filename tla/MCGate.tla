------------------------------- MODULE MCGate -------------------------------
(* Instances of Gate, with lockfiles and what the parser finds in them.    *)
EXTENDS GatedBuild, TLC

CONSTANTS l1, g1, g2

\* A lockfile that lies in some directory, with its own permit file.
OneName == [l \in Lockfiles |-> "package-lock.json"]
OwnFiles == [l \in Lockfiles |-> l]

SomeNames == {"tool", "Tool", "kit"}
LowerCase == [n \in SomeNames |-> IF n = "Tool" THEN "tool" ELSE n]

NpmLock(packages, dependencies) ==
    [format |-> "npm", lines |-> {}, packages |-> packages, dependencies |-> dependencies]
PipLock(lines) == [format |-> "pip", lines |-> lines, packages |-> {}, dependencies |-> {}]

\* A lockfile that has a package in the current form and, in the old form, another
\* one that only the first depends on.
Entering(place, name) == [at |-> place, name |-> name, link |-> FALSE, version |-> "1",
                          alias |-> "none", resolved |-> "registry"]
Leaf(name) == [name |-> name, version |-> "1", dependencies |-> {}]
Nested == NpmLock({Entering("root", "tool"), Entering("module", "kit")},
                  {[Leaf("kit") EXCEPT !.dependencies = {Leaf("tool")}]})

\* A requirements file that the parser takes, and one that it refuses: it leaves
\* the version of one project to pip.
Requiring(name, exact) == [kind |-> "requirement", name |-> name, exact |-> exact]
Pinned == PipLock({[kind |-> "blank"], Requiring("Tool", {"1"})})
Loose == PipLock({Requiring("Tool", {"1"}), Requiring("kit", {})})

SomeTexts == {Nested, Pinned, Loose}
SomeDeps == UNION {Parsed(t) : t \in Texts}
ParsedPins == [t \in Texts |-> Parsed(t)]

GateSymmetry == Permutations(Gates)
=============================================================================

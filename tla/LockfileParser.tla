--------------------------- MODULE LockfileParser ---------------------------
(***************************************************************************)
(* parse_lockfile (src/palsy/lockfiles.py): the coordinates that a         *)
(* lockfile pins, beside what pip and npm are bound to by that lockfile.   *)
(*                                                                         *)
(* A requirements file is the set of its lines, a package-lock.json the    *)
(* set of its "packages" entries and the forest of its "dependencies"; the *)
(* order of either only tells which of several errors is reported.         *)
(***************************************************************************)
EXTENDS Naturals, FiniteSets

CONSTANTS
    Names,     \* names of packages, as lockfiles write them
    Normal,    \* Normal[n]: n without capital letters
    Versions,  \* versions that a registry may have
    Depth      \* bound: how many dependencies lie above another in a lockfile

ASSUME ParserAssumption ==
    /\ Normal \in [Names -> Names]
    /\ "none" \notin Names
    /\ Versions \cap {"none", "url", "alias"} = {}
    /\ Depth \in Nat

\* PyPI takes names that differ in case for one, npm does not.
Lower(name) == Normal[name]

\* Lines by how they begin: blank or a comment, "-r" or "-c", a global option,
\* which may name another index, another option, what is not a requirement; or
\* a requirement, with the versions it demands with "==".
Line == [kind : {"blank", "include", "index", "global", "option", "invalid"}]
        \cup [kind : {"requirement"}, name : Names, exact : SUBSET Versions]

\* An entry of "packages": what its path ends in, whether it is a link, and
\* fields: the version, the package's own name if it is not the path's, and
\* where "resolved" points to.
Entry == [at : {"root", "workspace", "module"}, name : Names, link : BOOLEAN,
          version : Versions \cup {"url", "none"}, alias : Names \cup {"none"},
          resolved : {"registry", "elsewhere"}]

\* The nodes of "dependencies", by how many lie above them.
Levels(forest) ==
    LET level[k \in 0 .. Depth] ==
            IF k = 0 THEN forest ELSE UNION {node.dependencies : node \in level[k - 1]}
    IN  level

\* A lockfile; the version of a node may be a URL or name another package.
IsLockfile(text) ==
    /\ text.format \in {"pip", "npm", "other"}
    /\ text.lines \subseteq Line
    /\ text.packages \subseteq Entry
    /\ \A k \in 0 .. Depth : \A node \in Levels(text.dependencies)[k] :
          node.name \in Names /\ node.version \in Versions \cup {"url", "alias", "none"}

Coordinate(ecosystem, name, version) ==
    [ecosystem |-> ecosystem, name |-> name, version |-> version]

-----------------------------------------------------------------------------
(* The parser.                                                             *)

\* _parse_requirements_txt: the lines it raises for, and the coordinates.
LineRaises(line) ==
    \/ line.kind \in {"include", "option", "invalid"}
    \/ line.kind = "requirement" /\ Cardinality(line.exact) # 1

Required(lines) ==
    UNION {{Coordinate("pypi", Lower(r.name), v) : v \in r.exact} :
           r \in {line \in lines : line.kind = "requirement"}}

\* Faulty: the dependencies of dependencies are left out.
WalkTop(forest) == forest

\* _walk_package_lock_dependencies
Walk(forest) == UNION {Levels(forest)[k] : k \in 0 .. Depth}

\* _parse_package_lock_json: the packages it looks at.
Found(text) ==
    {p \in text.packages : p.at = "module" /\ ~p.link} \cup Walk(text.dependencies)

\* _append_npm_coordinate, which lets go of what has no version.
Appended(found) ==
    {Coordinate("npm", Lower(p.name), p.version) : p \in {q \in found : q.version # "none"}}

LockfileRaises(text) ==
    CASE text.format = "pip" -> \E line \in text.lines : LineRaises(line)
      [] text.format = "npm" -> \E p \in Found(text) : p.version = "url"
      [] text.format = "other" -> TRUE

\* parse_lockfile: none if it raises, which it also does if there is none.
Parsed(text) ==
    CASE LockfileRaises(text) -> {}
      [] ~LockfileRaises(text) /\ text.format = "pip" -> Required(text.lines)
      [] ~LockfileRaises(text) /\ text.format = "npm" -> Appended(Found(text))

-----------------------------------------------------------------------------
(* What the lockfile binds the package managers to.                        *)

\* The releases that pip may install of the projects that a requirements file
\* lists, unless an option names another index.  It is not all that pip fetches:
\* the parser asks neither for a complete list nor for hashes, so that pip adds
\* the projects that the listed ones depend on, and it takes the file of a release
\* that suits the platform, where the gate assesses one file per release.
PipLocks(text) ==
    IF \E line \in text.lines : line.kind = "index" THEN {}
    ELSE UNION {{Coordinate("pypi", Lower(r.name), v) :
                 v \in IF Cardinality(r.exact) = 1 THEN r.exact ELSE Versions} :
                r \in {line \in text.lines : line.kind = "requirement"}}

\* An npm lockfile is complete, and a version on the registry is one tarball.  An
\* old npm fetches the forest, where the version says what is fetched,
Fetched(forest) ==
    UNION {{Coordinate("npm", n.name, n.version) :
            n \in {m \in Levels(forest)[k] : m.version \in Versions}} : k \in 0 .. Depth}

\* and any other the packages that resolve to the registry.
NpmLocks(text) ==
    {Coordinate("npm", IF p.alias = "none" THEN p.name ELSE p.alias, p.version) :
        p \in {q \in text.packages : /\ q.at = "module" /\ ~q.link
                                     /\ q.resolved = "registry" /\ q.version \in Versions}}
    \cup Fetched(text.dependencies)

Locked(text) == IF text.format = "pip" THEN PipLocks(text) ELSE NpmLocks(text)

\* What is locked and not assessed: a package under an alias, or one whose name
\* has capital letters.
Missed(text) ==
    {c \in Locked(text) :
        /\ c.ecosystem = "npm"
        /\ c.name # Lower(c.name) \/ \E p \in text.packages : p.alias = c.name}

=============================================================================

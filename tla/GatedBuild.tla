----------------------------- MODULE GatedBuild -----------------------------
(***************************************************************************)
(* The gate with its parser: what a lockfile for which verify-permit       *)
(* accepts a permit binds the build to.  A dependency of Gate is the       *)
(* coordinate of a release; what the log knows of it is the one file that  *)
(* the gate resolved it to.                                                *)
(***************************************************************************)
EXTENDS Gate, LockfileParser

ASSUME PinsAreParsed ==
    /\ \A t \in Texts : IsLockfile(t)
    /\ Pins = [t \in Texts |-> Parsed(t)]

\* README.md:247, "admits an exact dependency graph", as far as the lockfile, as it
\* is now, is exact: when verify-permit accepts a permit for it, every release
\* that it binds npm or pip to, a package of an npm lockfile or a project that a
\* requirements file lists, has been allowed for the environment, but for what
\* the parser misses.
LockedWasAdmitted ==
    \A f \in PermitFiles, l \in Lockfiles, e \in Envs :
        Accepts(f, l, e) =>
            \A c \in Locked(lockfile[l].text) \ Missed(lockfile[l].text) :
                <<c, e, "allow">> \in decisions

=============================================================================

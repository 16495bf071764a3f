------------------------------- MODULE Sandbox -------------------------------
(***************************************************************************)
(* The sandbox: DockerSandboxRunner and its harness (src/palsy/sandbox.py), *)
(* as the set of the reports that a run may end with.  An event is         *)
(* "hostile" (a high one of the kinds the policy denies for), "high" or    *)
(* "medium"; the output is a sequence of sets of events, in the order they *)
(* are printed.                                                            *)
(***************************************************************************)
EXTENDS Naturals, Sequences

Events == {"hostile", "high", "medium"}

\* The harness installs the artefact through the subprocess.Popen it has
\* replaced and audits: its own call is a process spawn.
Installing == <<{"hostile"}, {"medium"}>>

\* What importing a module prints: its source is opened, and audited, whatever
\* else it does.  Nothing was installed when pip refused the artefact, which
\* is mounted under a name without a suffix, and then every import fails.
ImportEvents(module, installed) == {"medium"} \cup (IF installed THEN module ELSE {})

\* Faulty: events are looked for under a prefix that the harness does not print.
OutputUnparsed(modules, installed) == <<>>

Output(modules, installed) ==
    Installing \o (IF installed THEN <<>> ELSE <<{"medium"}>>)
        \o [i \in DOMAIN modules |-> ImportEvents(modules[i], installed)]

\* The reports' events, of an output of which the end is kept: what follows
\* some point, in the middle of what one module printed perhaps.
Printed(output) == UNION {output[i] : i \in DOMAIN output}
Tails(output) ==
    UNION {{part \cup Printed(SubSeq(output, k + 1, Len(output))) : part \in SUBSET output[k]} :
           k \in DOMAIN output}

\* kept says what became of the output: all of it is there, its end is, or the
\* run did not come to its own end.
Report(state, events, kept) == [state |-> state, events |-> events, kept |-> kept]

\* The harness ends by itself, with exit code 0, and printed little or much.
Completed(output) ==
    {Report("executed", Printed(output), "all")} \cup {Report("executed", e, "end") : e \in Tails(output)}

\* It is killed by the timeout, which loses what had been read until then, or by
\* the container's limits; or Docker could start no container and printed
\* nothing.  A timeout is an event, and so is an exit code other than 0.
Aborted(output) ==
    UNION {{Report("executed", e \cup late, "lost") : late \in {{"medium"}, {"high"}, {"medium", "high"}}} :
           e \in SUBSET Printed(output)}

\* There is no docker command, or it cannot be run; or reading its output fails,
\* after it was started.
Unread == {Report(state, {"high"}, "lost") : state \in {"failed", "executed"}}

\* DockerSandboxRunner.run and run_sandbox_if_enabled
Reports(backend, modules) ==
    IF backend = "docker"
    THEN Unread \cup
         UNION {Completed(o) \cup Aborted(o) : o \in {Output(modules, i) : i \in BOOLEAN}}
    ELSE {Report("disabled", {}, "lost")}

=============================================================================

----------------------------- MODULE MCFirewall -----------------------------
(* Instances of Firewall for model checking.                               *)
EXTENDS Firewall, TLC

CONSTANT c1

\* Upstream may answer with any content.
AnyContent == [p \in Paths |-> Contents]

\* Upstream always answers with the same content.
OneContent == [p \in Paths |-> {c1}]

\* Each request is told the digest of that content.
OneDigest == [p \in Paths |-> {{c1}}]

\* Each request is told another digest, by its caller or by a registry that has
\* replaced a file, or none, as for a generic URL.
AnyDigest == [p \in Paths |-> {Contents} \cup {{c} : c \in Contents}]

IdSymmetry == Permutations(PermitIds)
RaceSymmetry == IdSymmetry \cup Permutations(Assessors) \cup Permutations(Contents)
=============================================================================

----------------------------- MODULE MCDownload -----------------------------
(* Instances of Download for model checking.                               *)
EXTENDS Download, TLC

CONSTANTS c1, c2

\* An upstream that always sends the same, and one that changes its mind.
TwoUpstreams == {{c1}, {c1, c2}}

RequestSymmetry == Permutations(Requests)
=============================================================================

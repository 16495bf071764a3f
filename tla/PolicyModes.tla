---------------------------- MODULE PolicyModes ----------------------------
(***************************************************************************)
(* What the admission service may rely on about PolicyEngine.evaluate      *)
(* (src/palsy/policy.py) without knowing the artefact: which decisions it  *)
(* can return in each mode.  Firewall uses it, Policy shows that evaluate  *)
(* keeps to it.                                                            *)
(***************************************************************************)

Modes == {"observe", "warn", "enforce"}
Decisions == {"allow", "review", "deny"}

Verdicts(mode, revoked) ==
    CASE mode = "observe" -> {"allow"}
      [] mode # "observe" /\ revoked -> {"deny"}
      [] mode = "warn" /\ ~revoked -> {"allow", "deny"}
      [] mode = "enforce" /\ ~revoked -> {"allow", "review", "deny"}

=============================================================================

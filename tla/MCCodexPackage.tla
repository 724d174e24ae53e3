---------------------------- MODULE MCCodexPackage ----------------------------
(* Options for CodexPackage: the codex package with its archive, replacing  *)
(* an earlier one and given a bwrap that only Linux takes, so that the rest *)
(* is built; and an app-server package made from given binaries.            *)
EXTENDS CodexPackage, TLC

MCJobs == {[variant |-> "codex", force |-> TRUE, archive |-> TRUE, given |-> {"bwrap"}],
           [variant |-> "codex-app-server", force |-> FALSE, archive |-> FALSE, given |-> {"entrypoint", "host"}]}
\* Packagers are interchangeable.
PackagerSymmetry == Permutations(Packagers)
=============================================================================

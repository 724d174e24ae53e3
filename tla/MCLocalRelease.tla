--------------------------- MODULE MCLocalRelease ---------------------------
(* A small instance of LocalRelease: two Linux targets with bwrap, the one   *)
(* the tests run for and the one that is released, and a target without.    *)
EXTENDS LocalRelease

MCBinariesOf == [t \in {"gnu", "musl", "mac"} |->
                   IF t = "mac" THEN {"codex"} ELSE {"codex", "bwrap"}]
MCDefault == [target |-> "unset", testTarget |-> "unset", tests |-> TRUE,
              build |-> "default", collect |-> "default"]
\* The default invocation, a cross build without tests, a collection of what an
\* earlier run compiled, and a build whose binaries are left in cargo's directory.
MCEnvironments == {MCDefault,
                   [MCDefault EXCEPT !.target = "mac", !.tests = FALSE],
                   [MCDefault EXCEPT !.target = "musl", !.tests = FALSE, !.build = "skip"],
                   [MCDefault EXCEPT !.testTarget = "musl", !.collect = "skip"]}
\* One environment is enough to build twice into one directory, the disagreement
\* of README, section 5.
MCTwice == {[MCDefault EXCEPT !.target = "mac", !.tests = FALSE]}
=============================================================================

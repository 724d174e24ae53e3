-------------------------- MODULE MCClientLifecycle --------------------------
(* Model values of ClientLifecycle; the tasks are interchangeable.          *)
EXTENDS ClientLifecycle, TLC

CallerSymmetry == Permutations(Callers)
=============================================================================

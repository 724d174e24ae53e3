------------------------- MODULE MCUpstreamRelease -------------------------
(* Instances of UpstreamRelease for TLC. *)
EXTENDS UpstreamRelease

\* A push changes the patches.
NewPatches == [k \in 1..MaxRevision |-> k]

ByHand(level, focus, suffix, reuse) ==
    [event |-> "dispatch", called |-> FALSE, level |-> level, focus |-> focus, tag |-> 0,
     suffix |-> suffix, reuse |-> reuse]
Call(event, tag) ==
    [event |-> event, called |-> TRUE, level |-> "full", focus |-> FALSE, tag |-> tag,
     suffix |-> 0, reuse |-> FALSE]

NoDispatches == {}
\* By hand: a release, a rebuild, a focused run, a republication, a sentinel,
\* a check; and called by rust-release.yml, by hand or for a pushed tag.
AllDispatches ==
    {ByHand("full", FALSE, 0, FALSE), ByHand("full", FALSE, 1, FALSE), ByHand("full", TRUE, 0, FALSE),
     ByHand("full", FALSE, 0, TRUE), ByHand("sentinel", FALSE, 0, FALSE),
     ByHand("cheap", FALSE, 0, FALSE), Call("dispatch", 1), Call("dispatch", 2), Call("push", 2)}
\* Instances for two of the disagreements of README, section 5.
OneSentinel == {ByHand("sentinel", FALSE, 0, FALSE)}
PushedTag == {Call("push", 1)}
=============================================================================

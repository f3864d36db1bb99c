---------------------------- MODULE MCRunIngest ----------------------------
(***************************************************************************)
(* Small instances of RunIngest.                                           *)
(***************************************************************************)
EXTENDS RunIngest, TLC

CONSTANTS a, b, c

HandlerSymmetry == Permutations(Handlers)

\* Planned tests carry distinct ids, as the reporter computes them.
NoPlan == {<<>>}
OnePlan == {<<>>, <<a>>}

Result(t, s) == [testId |-> t, status |-> s]

\* One flush for a new or known test, one that re-reports another outcome,
\* one that spans two tests, and a malformed one that names a test twice.
MixedBatches ==
    {<<Result(a, "timedout")>>, <<Result(c, "passed")>>,
     <<Result(a, "failed"), Result(b, "flaky")>>,
     <<Result(b, "skipped"), Result(b, "passed")>>}

NoBatches == {}
TwoBatches == {<<Result(a, "passed")>>, <<Result(b, "failed")>>}

Unsharded == {NoShard}
TwoShards == {[index |-> 1, total |-> 2], [index |-> 2, total |-> 2]}
=============================================================================

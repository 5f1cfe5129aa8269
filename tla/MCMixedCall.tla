---------------------------- MODULE MCMixedCall ----------------------------
(***************************************************************************)
(* MixedCall on a small process: a kernel without calls, one with calls    *)
(* before and after its own operations, one that calls a sibling and then  *)
(* does not compile, one that passes a computed value, one that passes too *)
(* few inputs, one that calls a sibling twice, one with a call in its      *)
(* loop, and one whose call in the loop passes nothing.                    *)
(***************************************************************************)
EXTENDS MixedCall

CONSTANTS plain, mixed, broken, computed, short, twice, looping, ticking, sum, copy, tick

MCKernels == {plain, mixed, broken, computed, short, twice, looping, ticking}

MCIsPtr == [k \in MCKernels |->
  CASE k = plain   -> <<FALSE, TRUE, TRUE>>
    [] k = ticking -> <<TRUE, TRUE, TRUE>>
    [] OTHER       -> <<TRUE, FALSE, TRUE>>]

MCLoopIsPtr == [k \in MCKernels |->
  IF k = ticking THEN <<FALSE, FALSE, FALSE>> ELSE <<FALSE, FALSE>>]

MCSiblings == {sum, copy, tick}

MCParams == [s \in MCSiblings |->
  CASE s = sum  -> <<"ptr", "scalar">>
    [] s = copy -> <<"ptr">>
    [] s = tick -> <<>>]

Other == [op |-> "other"]

Arg(i) == [of |-> "host", index |-> i]

CallIn(block, s, inputs) == [op |-> "call", sibling |-> s, block |-> block, inputs |-> inputs]

MCBody == [k \in MCKernels |->
  CASE k = plain    -> <<Other>>
    [] k = mixed    -> <<CallIn("entry", sum, <<Arg(2), Arg(1)>>), Other,
                         CallIn("entry", copy, <<Arg(0)>>)>>
    [] k = broken   -> <<CallIn("entry", copy, <<Arg(2)>>), [op |-> "invalid"]>>
    [] k = computed -> <<Other, CallIn("entry", sum, <<Arg(0), [of |-> "computed", index |-> 0]>>)>>
    [] k = short    -> <<CallIn("entry", sum, <<Arg(0)>>)>>
    [] k = twice    -> <<CallIn("entry", copy, <<Arg(0)>>), CallIn("entry", copy, <<Arg(2)>>)>>
    [] k = looping  -> <<CallIn("entry", copy, <<Arg(0)>>),
                         CallIn("loop", sum, <<Arg(2), [of |-> "loop", index |-> 1]>>)>>
    [] k = ticking -> <<CallIn("entry", copy, <<Arg(2)>>), CallIn("loop", tick, <<>>)>>]
=============================================================================

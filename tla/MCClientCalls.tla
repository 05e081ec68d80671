------------------------------ MODULE MCClientCalls ------------------------------
(***************************************************************************)
(* Instances of ClientCalls for TLC, with the fairness of its components.  *)
(***************************************************************************)
EXTENDS ClientCalls

CONSTANTS sel, ins

SqlOps == {sel, ins}
SqlWrites == {ins}
Names3 == <<"us", "us-2", "us-3">>
TwoBatches == {<<sel, ins>>, <<ins, ins>>}

\* Nothing of a component that rests is enabled: fairness asks nothing of it.
FairSpec == Spec /\ SqlFairness /\ ApiFairness /\ BuildFairness

\* An SQL call, a request and an image build come to an end, whatever is lost,
\* throttled or interrupted.
EveryCallEnds == EverySqlCallSettles /\ EveryRequestEnds /\ EveryBuildEnds
=============================================================================

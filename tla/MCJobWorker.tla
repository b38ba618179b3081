---------------------------- MODULE MCJobWorker -----------------------------
(* JobWorker on small instances: two deliveries and four jobs let both       *)
(* incidents propose and both continuations run, or one incident be          *)
(* interrupted and resubmitted.                                              *)
EXTENDS JobWorkerRefinement, JobWorkerInv, TLC

CONSTANTS d1, d2

TwoDeliveries == {d1, d2}
OneDelivery == {d1}
AllRegistered == {}
FirstUnregistered == {1}

\* Job ids are ordered, deliveries are not: they occur only as dedupe keys.
DeliverySymmetry == Permutations(TwoDeliveries)
=============================================================================

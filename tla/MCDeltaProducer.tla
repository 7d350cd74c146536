--------------------------- MODULE MCDeltaProducer --------------------------
(***************************************************************************)
(* Instances of DeltaProducer for TLC: two pods and two IPs, so that an IP *)
(* is recycled while its last owner still reports it, and edits that       *)
(* change nothing but labels.                                              *)
(***************************************************************************)
EXTENDS DeltaProducer, TLC

CONSTANTS i1, i2, web, db

Pod(ip, owner, labels, start, serving) ==
  [ip |-> ip, owner |-> owner, labels |-> labels, start |-> start, serving |-> serving]

A(v) == <<"a", v>>
B(v) == <<"b", v>>

\* A label without a value gives way to one with a value, and comes back.
MCPodStates == { Pod(i1, web, {A("")}, 1, TRUE), Pod(i1, web, {B("x")}, 1, TRUE), Pod(i1, web, {A("")}, 1, FALSE),
                 Pod(i1, db, {}, 2, TRUE), Pod(i2, db, {}, 2, TRUE) }
\* Labels that all have values.
MCValued    == { Pod(i1, web, {}, 1, TRUE), Pod(i1, web, {A("x")}, 1, TRUE), Pod(i1, web, {}, 1, FALSE),
                 Pod(i1, db, {}, 2, TRUE), Pod(i2, db, {}, 2, TRUE) }
\* Pods differ in their state only.
PodSymmetry == Permutations(Pods)
=============================================================================

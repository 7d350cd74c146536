---------------------------- MODULE MCConfigHash ----------------------------
(***************************************************************************)
(* Instances of ConfigHash for TLC: a ConfigMap and a Secret, a Deployment *)
(* that references the ConfigMap and a StatefulSet that references both.   *)
(***************************************************************************)
EXTENDS ConfigHash

CONSTANTS cm, sec, proxy, agent

Obj(l, h, s) == [labelled |-> l, hard |-> h, soft |-> s]

\* Two hashed values, an edit of ignored data, and no label.
MCObjects == {Obj(TRUE, 1, 0), Obj(TRUE, 2, 0), Obj(TRUE, 1, 1), Obj(FALSE, 2, 1)}
MCInitial == {Obj(TRUE, 1, 0)}

MCKindOf == [w \in {proxy, agent} |-> IF w = proxy THEN "Deployment" ELSE "StatefulSet"]
MCRefs   == [w \in {proxy, agent} |-> IF w = proxy THEN {cm} ELSE {cm, sec}]
=============================================================================

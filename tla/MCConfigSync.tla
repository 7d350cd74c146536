---------------------------- MODULE MCConfigSync ----------------------------
(***************************************************************************)
(* Instances of ConfigSync for TLC: one source ConfigMap with two keys,    *)
(* of which the first is ensured.                                          *)
(***************************************************************************)
EXTENDS ConfigSync

CONSTANTS s1, k1, k2, a, b

Data(x, y) == [k \in {k1, k2} |-> IF k = k1 THEN x ELSE y]

\* The first key changes, the second goes away or comes back.
MCRevisions == {Data(a, a), Data(b, Absent)}
MCSources   == <<s1>>
MCKeys      == <<k1, k2>>
MCEnsured   == <<k1>>
=============================================================================

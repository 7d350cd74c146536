-------------------------- MODULE MCCertProjection --------------------------
(***************************************************************************)
(* CertProjection for TLC: two stems, the second of a Secret that is not   *)
(* of type kubernetes.io/tls, and two versions of what a Secret holds.     *)
(***************************************************************************)
EXTENDS CertProjection

CONSTANTS s1, s2

MCStemOrder == <<s1, s2>>
MCOpaque    == {s2}
=============================================================================

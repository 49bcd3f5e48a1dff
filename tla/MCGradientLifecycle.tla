------------------------ MODULE MCGradientLifecycle ------------------------
(***************************************************************************)
(* A 2-bit instance of GradientLifecycle whose joining peer 1 has the      *)
(* established peer 0 as its ring-nearest: established peers {0, 3} in     *)
(* the order 3, 0, joining peer 1, one Identified peer, degree bound 1.   *)
(***************************************************************************)
EXTENDS GradientLifecycle

MCEstablished == {0, 3}
MCJoining     == {1}
MCOrder       == <<3, 0, 1>>

=============================================================================

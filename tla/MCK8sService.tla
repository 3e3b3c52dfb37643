---------------------------- MODULE MCK8sService ----------------------------
(***************************************************************************)
(* Instances of K8sService for TLC: two challenges of one team, whose      *)
(* slugs have nothing in common or of which one begins with the other.     *)
(***************************************************************************)
EXTENDS K8sService, TLC

CONSTANTS web, web2, t1

OneTeam == web :> t1 @@ web2 :> t1
NoPrefix == web :> {} @@ web2 :> {}
WebPrefix == web :> {web2} @@ web2 :> {}
=============================================================================

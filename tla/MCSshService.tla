---------------------------- MODULE MCSshService ----------------------------
(***************************************************************************)
(* Instances of SshService for TLC: two workers on one host or on two.     *)
(***************************************************************************)
EXTENDS SshService, TLC

CONSTANTS w1, w2, x1, x2

OneHost == w1 :> x1 @@ w2 :> x1
TwoHosts == w1 :> x1 @@ w2 :> x2
=============================================================================

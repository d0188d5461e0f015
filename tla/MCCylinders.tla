------------------------------ MODULE MCCylinders ------------------------------
(* Cylinders with a bag of two places, a bag and a depot of one.                  *)
EXTENDS Cylinders, TLC

CONSTANTS b1, b2, depot

MCRoom == b1 :> 2 @@ b2 :> 1 @@ depot :> 1
================================================================================

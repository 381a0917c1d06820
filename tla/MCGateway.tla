----------------------------- MODULE MCGateway -----------------------------
(***************************************************************************)
(* The program with two configured devices, so that configuration may fail *)
(* after the first and Clear is interrupted between the two.  Legacy mode  *)
(* on and off are both initial choices of SetUp.                           *)
(***************************************************************************)
EXTENDS Gateway

CONSTANTS hall, cellar

MCDevices == {hall, cellar}
=============================================================================

---------------------------- MODULE MCChaincast ----------------------------
(***************************************************************************)
(* The chaincast on the installations of firmware/dampercontrol/README.md  *)
(* and on a ladder of three.                                               *)
(***************************************************************************)
EXTENDS Chaincast, TLC

\* README.md:58-98: id 1 has dampers 0 and 1, id 2 has damper 2 and the fan.
Deployed == 1 :> {"d0", "d1"} @@ 2 :> {"d2"}

\* Three microcontrollers with a damper each.
OneEach == 1 :> {"d0"} @@ 2 :> {"d1"} @@ 3 :> {"d2"}
=============================================================================

------------------------------ MODULE MCReplay ------------------------------
(***************************************************************************)
(* Games on a small board, played to their end and kept.                   *)
(***************************************************************************)
EXTENDS Replay

MCLag == {-1, 0, 1}
=============================================================================

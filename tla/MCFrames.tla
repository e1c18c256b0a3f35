------------------------------ MODULE MCFrames ------------------------------
(* Instances of Frames for TLC.                                            *)
EXTENDS Frames
=============================================================================

----------------------------- MODULE MCTasking ------------------------------
(* Instances of Tasking for TLC: a keyboard on the master PIC, a disk on   *)
(* the slave.                                                              *)
EXTENDS Tasking, TLC

MCDevices == "keyboard" :> "master" @@ "disk" :> "slave"
=============================================================================

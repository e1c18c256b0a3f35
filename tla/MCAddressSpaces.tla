-------------------------- MODULE MCAddressSpaces ---------------------------
(* Instances of AddressSpaces for TLC.                                     *)
EXTENDS AddressSpaces
=============================================================================

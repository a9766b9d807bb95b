---------------------------- MODULE MCLogBuffer ----------------------------
(* A small instance of LogBuffer for TLC.                                  *)
EXTENDS LogBuffer

MCMAC == {"m1", "m2"}
MCService == {"dhcp", "http"}
MCLevel == {0, 4}
=============================================================================

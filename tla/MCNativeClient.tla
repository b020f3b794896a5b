--------------------------- MODULE MCNativeClient ---------------------------
(* Both commands, two requests, and as many failures as the .cfg allows.   *)
EXTENDS NativeClientProperties, TLC
=============================================================================

--------------------------- MODULE MCFeatherBridge ---------------------------
(* FeatherBridge with one key and queues that are soon full.               *)
EXTENDS FeatherBridge

CONSTANT keyA

MCKeys == {keyA}
MCReports == {{}, {keyA}}
=============================================================================

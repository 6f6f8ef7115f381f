--------------------------- MODULE MCFeatherSource ---------------------------
(* FeatherSource with two keys, one of which a boot report cannot carry.   *)
EXTENDS FeatherSource

CONSTANTS keyA, mediaKey

MCKeys == {keyA}
MCOtherKeys == {mediaKey}
MCReports == {{}, {keyA}, {keyA, mediaKey}}
=============================================================================

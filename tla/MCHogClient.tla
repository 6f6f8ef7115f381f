----------------------------- MODULE MCHogClient -----------------------------
(* HogClient with the keyboard and a second one, whose reports are split   *)
(* over two fragments.                                                     *)
EXTENDS HogClient

CONSTANTS g915, other, handleA, handleB, keyA, mediaKey, firstReport, secondReport

MCPeers == {g915, other}
MCHandles == {handleA, handleB}
MCKeys == {keyA}
MCOtherKeys == {mediaKey}
MCReportKeys == {firstReport, secondReport}

Report(key, kind, usages) == [key |-> key, kind |-> kind, usages |-> usages]

MCReports == {Report(firstReport, "keyboard", {}),
              Report(firstReport, "keyboard", {keyA}),
              Report(secondReport, "keyboard", {}),
              Report(secondReport, "keyboard", {keyA, mediaKey}),
              Report(secondReport, "other", {keyA})}

=============================================================================

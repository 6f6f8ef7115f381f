---------------------------- MODULE MCReportPipe ----------------------------
(* ReportPipe with one modifier and two keys, typed in a fixed cycle plus  *)
(* a shortcut, so that most pairs of states are not steps of the source.   *)
EXTENDS ReportPipe

CONSTANTS shift, keyA, keyB

MCModifiers == {shift}
MCKeys == {keyA, keyB}
MCRecovery == {{}, {shift}}
MCSteps == { <<{}, {keyA}>>, <<{keyA}, {keyA, keyB}>>, <<{keyA, keyB}, {keyB}>>,
             <<{keyB}, {}>>, <<{keyB}, {shift, keyB}>>, <<{shift, keyB}, {shift}>>,
             <<{shift}, {}>> }
=============================================================================

----------------------------- MODULE HidDecoder -----------------------------
(***************************************************************************)
(* The report decoder of the Pico bridge, hid_keyboard_decoder.c.          *)
(*                                                                         *)
(* A keyboard may split its keys over several input reports.  The last     *)
(* keys of each (service_index, report_id) are kept as a fragment, and the *)
(* keyboard's state is the union of the fragments.                         *)
(*                                                                         *)
(* What the report descriptor makes of a report's bytes is BTstack's work  *)
(* and is abstracted to three kinds of report: "malformed" (its id or its  *)
(* length is not what the descriptor says), "other" (no keyboard fields)   *)
(* and "keyboard".                                                         *)
(***************************************************************************)
EXTENDS KeyboardState

CONSTANTS
    ReportKeys,     \* the (service_index, report_id) pairs reports come from
    MaxFragments    \* APP_HID_MAX_REPORT_FRAGMENTS

ASSUME DecoderAssumption == MaxFragments \in Nat

ReportKinds == {"malformed", "other", "keyboard"}

HidReports == [key : ReportKeys, kind : ReportKinds, usages : KeyboardStates]

Decoders == [fragments : UNION {[keys -> KeyboardStates] : keys \in SUBSET ReportKeys},
             state     : KeyboardStates]

ResetDecoder == [fragments |-> [key \in {} |-> Released], state |-> Released]

MergeFragments(fragments) == UNION {fragments[key] : key \in DOMAIN fragments}

\* allocate_fragment: the report's own slot, or a free one.
HasFragment(decoder, key) ==
    \/ key \in DOMAIN decoder.fragments
    \/ Cardinality(DOMAIN decoder.fragments) < MaxFragments

\* Takes the report for the whole keyboard.
DecodeSlip(decoder, report) ==
    IF report.kind # "keyboard" \/ ~HasFragment(decoder, report.key) THEN decoder
    ELSE LET fragments == [key \in {report.key} |-> report.usages]
         IN  [fragments |-> fragments, state |-> MergeFragments(fragments)]

\* The decoder after a report; its state is published when it has changed.
Decode(decoder, report) ==
    IF report.kind # "keyboard" \/ ~HasFragment(decoder, report.key) THEN decoder
    ELSE LET fragments == [key \in DOMAIN decoder.fragments \cup {report.key} |->
                              IF key = report.key THEN report.usages
                              ELSE decoder.fragments[key]]
         IN  [fragments |-> fragments, state |-> MergeFragments(fragments)]
=============================================================================

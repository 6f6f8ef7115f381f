--------------------------- MODULE KeyboardState ---------------------------
(***************************************************************************)
(* The canonical keyboard state of src/firmware/common/core and its        *)
(* encoding as the 8-byte boot report.                                     *)
(*                                                                         *)
(* keyboard_state_t is a 256-bit usage bitmap, a modifier byte and an      *)
(* error mask, so a state is the set of the usages that are down.  Usages  *)
(* are kept apart only as far as the code tells them apart: modifiers      *)
(* (0xe0..0xe7), source errors (0x01..0x03), keys a boot report can carry  *)
(* (0x04..APP_USB_KEY_USAGE_MAX) and keys it cannot.                       *)
(***************************************************************************)
EXTENDS Integers, FiniteSets

CONSTANTS
    Modifiers,            \* usages 0xe0..0xe7
    ForwardedKeys,        \* usages 0x04..APP_USB_KEY_USAGE_MAX
    UnforwardedKeys,      \* usages above APP_USB_KEY_USAGE_MAX
    SourceErrors,         \* usages 0x01..0x03 sent by the source keyboard
    BootKeyCount,         \* key slots of a boot report
    ErrorRollOver,        \* what every slot holds when the keys do not fit
    ForwardSourceErrors   \* APP_USB_FORWARD_SOURCE_ERRORS != 0

Usages == Modifiers \cup ForwardedKeys \cup UnforwardedKeys \cup SourceErrors

ASSUME UsagesAssumption ==
    /\ Modifiers \cap (ForwardedKeys \cup UnforwardedKeys \cup SourceErrors) = {}
    /\ ForwardedKeys \cap (UnforwardedKeys \cup SourceErrors) = {}
    /\ UnforwardedKeys \cap SourceErrors = {}
    /\ ErrorRollOver \notin Usages \ SourceErrors
    /\ BootKeyCount \in Nat
    /\ ForwardSourceErrors \in BOOLEAN

KeyboardStates == SUBSET Usages

Released == {}

\* Usage 0 and usages outside the bitmap change nothing.
SetUsage(state, usage, pressed) ==
    IF usage \notin Usages THEN state
    ELSE IF pressed THEN state \cup {usage} ELSE state \ {usage}

Merge(destination, source) == destination \cup source

HasNewPress(before, after) == after \ before # {}

FilterForBootReport(state) ==
    state \ (UnforwardedKeys \cup
             (IF ForwardSourceErrors THEN {} ELSE SourceErrors))

(***************************************************************************)
(* The slots of a report list the pressed keys in usage order, so the set  *)
(* of keys determines them.                                                *)
(***************************************************************************)
BootReport(state) ==
    LET keys     == state \cap ForwardedKeys
        rollOver == \/ Cardinality(keys) > BootKeyCount
                    \/ ForwardSourceErrors /\ state \cap SourceErrors # {}
    IN  [modifiers |-> state \cap Modifiers,
         keys      |-> IF rollOver THEN {ErrorRollOver} ELSE keys]

BlankReport == BootReport(Released)

BootReports == [modifiers : SUBSET Modifiers,
                keys      : SUBSET (ForwardedKeys \cup {ErrorRollOver})]
=============================================================================

--------------------------- MODULE MCUsbKeyboard ---------------------------
(* UsbKeyboard with one modifier, two keys that do not fit the boot report *)
(* together, and a source that walks through the states they make.  A key  *)
(* that no report shows can be held as well, where there is one.           *)
EXTENDS UsbKeyboard

CONSTANTS shift, keyA, keyB, ledsOff, capsLock

MCModifiers == {shift}
MCKeys == {keyA, keyB}
MCStates == {{}, {shift}, {keyA}, {keyA, keyB}}
               \cup {{key} : key \in UnforwardedKeys}
MCSteps == { <<{}, {keyA}>>, <<{keyA}, {keyA, keyB}>>, <<{keyA, keyB}, {keyA}>>,
             <<{keyA, keyB}, {}>>, <<{}, {shift}>>, <<{shift}, {keyA}>>,
             <<{keyA}, {}>> }
           \cup {<<{}, {key}>> : key \in UnforwardedKeys}
           \cup {<<{key}, {keyA}>> : key \in UnforwardedKeys}

NoLeds == {ledsOff}
CapsLed == {ledsOff, capsLock}

UsualHost == {"setsIdle", "allowsWakeup"}
HurriedHost == UsualHost \cup {"earlySuspend", "fastEnumeration"}
EarlySuspend == UsualHost \cup {"earlySuspend"}
RetainingHost == UsualHost \cup {"retainsModifiers"}
ShiftRecovery == {shift}
NoRecovery == {}
=============================================================================

-------------------------- MODULE MCEEPROMStorage --------------------------
(* Instances of EEPROMStorage for TLC: the layout of EEPROMStorage.h, scaled
   down.  As there, a part of the main section follows its check word, the
   memory test lies within the end of the input/output section, and the
   sections of the USB tasks come after it. *)
EXTENDS EEPROMStorage

CONSTANTS main, dio, mac, ip, debug, test, w1, u1

MCSections == <<main, dio, mac, ip, debug>>
MCBase == [s \in {main, dio, mac, ip, debug, test} |->
             CASE s = main -> 0 [] s = dio -> 3 [] s = test -> 5
               [] s = mac -> 7 [] s = ip -> 9 [] s = debug -> 12]
MCSize == [s \in {main, dio, mac, ip, debug, test} |->
             CASE s \in {main, dio} -> 3 [] s \in {mac, ip} -> 2 [] s \in {debug, test} -> 1]
MCWorkers == {w1}
MCUsbTasks == {u1}
MCSectionsOf == [t \in {w1, u1} |-> IF t = w1 THEN {main, dio} ELSE {mac, ip, debug}]
=============================================================================

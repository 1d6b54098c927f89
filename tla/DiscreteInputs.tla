--------------------------- MODULE DiscreteInputs ---------------------------
(***************************************************************************)
(* DiscreteIO/DIO.c, the inputs: one channel of DITbl, as DIOTask reads    *)
(* and updates it every tick, and the commands that configure it.          *)
(*                                                                         *)
(* DIOTask (priority 7) preempts the TCP workers, never the reverse, so a  *)
(* tick is one step; a command is five calls, each a critical section of   *)
(* its own, and ticks come between them.  Workers have one priority and do *)
(* not block in a command: one command at a time.                          *)
(*                                                                         *)
(* Left out: DIDownTmr, which nothing reads, and the callbacks (DIDebFnct, *)
(* DITrigFnct, pDITrigFxn), which nothing sets.  MaxVal stands for         *)
(* 0xFFFFFFFF, where the count of edges stops.                             *)
(***************************************************************************)
EXTENDS Naturals

CONSTANTS Configs,   \* what a setDIConfiguration command may carry
          MaxVal,
          MaxDelay   \* the longest delay of Configs

Levels == {0, 1}
Modes == {"LOW", "HIGH", "DIRECT", "INV", "EDGE_LOW_GOING", "EDGE_HIGH_GOING",
          "EDGE_BOTH", "TOGGLE_LOW_GOING", "TOGGLE_HIGH_GOING"}
ScanStates == {"UP", "DEBOUNCE", "RPT_START_DLY", "RPT_DLY"}
Delay == 0..MaxDelay

ASSUME ConfigsAssumption ==
    /\ MaxVal \in Nat \ {0} /\ MaxDelay \in Nat
    /\ Configs \subseteq [mode : Modes, bypassEn : BOOLEAN, val : 0..MaxVal,
                          debounceDly : Delay, rptStartDly : Delay, rptDly : Delay,
                          debounceEn : BOOLEAN]

VARIABLES
    pin,                                 \* level of the pin
    DIIn, DIVal, DIPrev,
    DIBypassEn, DIModeSel, DIDebounceEn,
    delays,                              \* DIDebounceDly, DIRptStartDly, DIRptDly
    DIScanState, DIDebounceDlyCtr, DIRptStartDlyCtr, DIRptDlyCtr,
    cmd, call,                           \* the command, and its next call (0: none)
    lows,                                \* history: low samples in a row
    settled                              \* history: see Settles

inputVars   == <<DIIn, DIVal, DIPrev>>
scanVars    == <<DIScanState, DIDebounceDlyCtr, DIRptStartDlyCtr, DIRptDlyCtr>>
configVars  == <<DIBypassEn, DIModeSel, DIDebounceEn, delays>>
historyVars == <<lows, settled>>
vars == <<pin, inputVars, scanVars, configVars, cmd, call, historyVars>>
-----------------------------------------------------------------------------
(* DIO_init, then the configuration of the EEPROM (SMC_initDIO); the channel
   of a general purpose input starts without bypass. *)
Init ==
    /\ pin = 1 /\ DIIn = 0 /\ DIVal = 0 /\ DIPrev = 0
    /\ DIBypassEn = FALSE
    /\ \E c \in Configs : /\ DIModeSel = c.mode /\ DIDebounceEn = c.debounceEn
                          /\ delays = [debounce |-> c.debounceDly,
                                       rptStart |-> c.rptStartDly, rpt |-> c.rptDly]
                          /\ cmd = c
    /\ DIScanState = "UP" /\ DIDebounceDlyCtr = 0
    /\ DIRptStartDlyCtr = 0 /\ DIRptDlyCtr = 0
    /\ call = 0 /\ lows = 0 /\ settled = TRUE
-----------------------------------------------------------------------------
(* DIRd.  A key is down when its pin is low. *)
ReadRaw ==
    /\ ~DIDebounceEn
    /\ DIIn' = pin
    /\ UNCHANGED scanVars

ReadUp ==
    /\ DIDebounceEn /\ DIScanState = "UP"
    /\ DIIn' = 1
    /\ \/ /\ pin = 0
          /\ DIScanState' = "DEBOUNCE" /\ DIDebounceDlyCtr' = delays.debounce
       \/ /\ pin = 1
          /\ UNCHANGED <<DIScanState, DIDebounceDlyCtr>>
    /\ UNCHANGED <<DIRptStartDlyCtr, DIRptDlyCtr>>

(* Mutant: the first low sample is enough. *)
ReadDebounceNow ==
    /\ DIDebounceEn /\ DIScanState = "DEBOUNCE"
    /\ DIIn' = IF pin = 0 THEN 0 ELSE DIIn
    /\ DIScanState' = IF pin = 0 THEN "RPT_START_DLY" ELSE "UP"
    /\ UNCHANGED <<DIDebounceDlyCtr, DIRptStartDlyCtr, DIRptDlyCtr>>

(* Mutant: the counter is not loaded again, here as if it never ran out. *)
ReadDebounceNever ==
    /\ DIDebounceEn /\ DIScanState = "DEBOUNCE"
    /\ DIScanState' = IF pin = 0 THEN DIScanState ELSE "UP"
    /\ UNCHANGED <<DIIn, DIDebounceDlyCtr, DIRptStartDlyCtr, DIRptDlyCtr>>

(* A counter that is 0 on entry stays 0, and the state is left by a release. *)
ReadDebounce ==
    /\ DIDebounceEn /\ DIScanState = "DEBOUNCE"
    /\ \/ /\ pin = 0 /\ DIDebounceDlyCtr > 1
          /\ DIDebounceDlyCtr' = DIDebounceDlyCtr - 1
          /\ UNCHANGED <<DIIn, DIRptStartDlyCtr, DIScanState>>
       \/ /\ pin = 0 /\ DIDebounceDlyCtr = 1
          /\ DIDebounceDlyCtr' = 0
          /\ DIIn' = 0
          /\ DIRptStartDlyCtr' = delays.rptStart
          /\ DIScanState' = "RPT_START_DLY"
       \/ /\ pin = 0 /\ DIDebounceDlyCtr = 0
          /\ UNCHANGED <<DIIn, DIDebounceDlyCtr, DIRptStartDlyCtr, DIScanState>>
       \/ /\ pin = 1
          /\ DIScanState' = "UP"
          /\ UNCHANGED <<DIIn, DIDebounceDlyCtr, DIRptStartDlyCtr>>
    /\ UNCHANGED DIRptDlyCtr

ReadRptStart ==
    /\ DIDebounceEn /\ DIScanState = "RPT_START_DLY"
    /\ \/ /\ pin = 0 /\ DIRptStartDlyCtr > 1
          /\ DIRptStartDlyCtr' = DIRptStartDlyCtr - 1
          /\ UNCHANGED <<DIIn, DIRptDlyCtr, DIScanState>>
       \/ /\ pin = 0 /\ DIRptStartDlyCtr = 1
          /\ DIRptStartDlyCtr' = 0
          /\ DIIn' = 0
          /\ DIRptDlyCtr' = delays.rpt
          /\ DIScanState' = "RPT_DLY"
       \/ /\ pin = 0 /\ DIRptStartDlyCtr = 0
          /\ UNCHANGED <<DIIn, DIRptStartDlyCtr, DIRptDlyCtr, DIScanState>>
       \/ /\ pin = 1
          /\ DIScanState' = "DEBOUNCE"
          /\ UNCHANGED <<DIIn, DIRptStartDlyCtr, DIRptDlyCtr>>
    /\ UNCHANGED DIDebounceDlyCtr

(* Mutant: the end of the repetition is not noticed. *)
ReadRptForever ==
    /\ DIDebounceEn /\ DIScanState = "RPT_DLY"
    /\ UNCHANGED <<DIIn, scanVars>>

ReadRpt ==
    /\ DIDebounceEn /\ DIScanState = "RPT_DLY"
    /\ \/ /\ pin = 0
          /\ DIRptDlyCtr' = IF DIRptDlyCtr > 1 THEN DIRptDlyCtr - 1
                            ELSE IF DIRptDlyCtr = 1 THEN delays.rpt ELSE 0
          /\ DIIn' = IF DIRptDlyCtr = 1 THEN 0 ELSE DIIn
          /\ DIScanState' = DIScanState
       \/ /\ pin = 1
          /\ DIScanState' = "DEBOUNCE"
          /\ UNCHANGED <<DIIn, DIRptDlyCtr>>
    /\ UNCHANGED <<DIDebounceDlyCtr, DIRptStartDlyCtr>>

DIRd == \/ ReadRaw \/ ReadUp \/ ReadDebounce
               \/ ReadRptStart \/ ReadRpt
-----------------------------------------------------------------------------
LowGoing  == DIPrev = 1 /\ DIIn' = 0
HighGoing == DIPrev = 0 /\ DIIn' = 1
Triggered == \/ DIModeSel = "EDGE_LOW_GOING" /\ LowGoing
             \/ DIModeSel = "EDGE_HIGH_GOING" /\ HighGoing
             \/ DIModeSel = "EDGE_BOTH" /\ (LowGoing \/ HighGoing)
Toggled == \/ DIModeSel = "TOGGLE_LOW_GOING" /\ LowGoing
           \/ DIModeSel = "TOGGLE_HIGH_GOING" /\ HighGoing
EdgeModes   == {"EDGE_LOW_GOING", "EDGE_HIGH_GOING", "EDGE_BOTH"}
ToggleModes == {"TOGGLE_LOW_GOING", "TOGGLE_HIGH_GOING"}

(* DIIsTrig. *)
Count == IF Triggered /\ DIVal < MaxVal THEN DIVal + 1 ELSE DIVal

(* DIUpdate, with the DIIn that DIRd has just read. *)
DIUpdate ==
    \/ /\ DIBypassEn
       /\ UNCHANGED <<DIVal, DIPrev>>
    \/ /\ ~DIBypassEn /\ DIModeSel \notin EdgeModes \cup ToggleModes
       /\ DIVal' = CASE DIModeSel = "LOW" -> 0 [] DIModeSel = "HIGH" -> 1
                     [] DIModeSel = "DIRECT" -> DIIn' [] DIModeSel = "INV" -> 1 - DIIn'
       /\ DIPrev' = DIPrev
    \/ /\ ~DIBypassEn /\ DIModeSel \in EdgeModes
       /\ DIVal' = Count
       /\ DIPrev' = DIIn'
    \/ /\ ~DIBypassEn /\ DIModeSel \in ToggleModes
       /\ DIVal' = IF ~Toggled THEN DIVal ELSE IF DIVal = 0 THEN 1 ELSE 0
       /\ DIPrev' = DIIn'

(* The scan has been in UP, or is not used, since the configuration changed. *)
Settles == settled \/ ~DIDebounceEn \/ DIScanState' = "UP"

(* The sensor or the key, at any time. *)
PinChanges ==
    /\ pin' = 1 - pin
    /\ UNCHANGED <<inputVars, scanVars, configVars, cmd, call, historyVars>>

(* One turn of DIOTask. *)
Tick ==
    /\ DIRd
    /\ DIUpdate
    /\ lows' = IF pin = 1 THEN 0 ELSE IF lows > MaxDelay THEN lows ELSE lows + 1
    /\ settled' = Settles
    /\ UNCHANGED <<pin, configVars, cmd, call>>
-----------------------------------------------------------------------------
(* vTCPRCBin_DiscreteIO_setDIConfiguration: five calls in this order. *)
Command ==
    /\ call = 0
    /\ cmd' \in Configs
    /\ call' = 1
    /\ UNCHANGED <<pin, inputVars, scanVars, configVars, historyVars>>

DICfgMode ==
    /\ call = 1 /\ call' = 2
    /\ DIModeSel' = cmd.mode
    /\ settled' = (settled /\ cmd.mode = DIModeSel)
    /\ UNCHANGED <<pin, inputVars, scanVars, DIBypassEn, DIDebounceEn, delays, cmd, lows>>

(* Mutant: both calls of the bypass, in the order that the outputs have. *)
DISetBypassEnLate ==
    /\ call = 2 /\ call' = 4
    /\ DIVal' = IF DIBypassEn THEN cmd.val ELSE DIVal
    /\ DIBypassEn' = cmd.bypassEn
    /\ settled' = (settled /\ cmd.bypassEn = DIBypassEn)
    /\ UNCHANGED <<pin, DIIn, DIPrev, scanVars, DIModeSel, DIDebounceEn, delays, cmd, lows>>

DISetBypassEn ==
    /\ call = 2 /\ call' = 3
    /\ DIBypassEn' = cmd.bypassEn
    /\ settled' = (settled /\ cmd.bypassEn = DIBypassEn)
    /\ UNCHANGED <<pin, inputVars, scanVars, DIModeSel, DIDebounceEn, delays, cmd, lows>>

DISetBypass ==
    /\ call = 3 /\ call' = 4
    /\ DIVal' = IF DIBypassEn THEN cmd.val ELSE DIVal
    /\ UNCHANGED <<pin, DIIn, DIPrev, scanVars, configVars, cmd, historyVars>>

DICfgDebounce ==
    /\ call = 4 /\ call' = 5
    /\ delays' = [debounce |-> cmd.debounceDly, rptStart |-> cmd.rptStartDly,
                  rpt |-> cmd.rptDly]
    /\ settled' = (settled /\ delays' = delays)
    /\ UNCHANGED <<pin, inputVars, scanVars, DIBypassEn, DIModeSel, DIDebounceEn, cmd, lows>>

DISetDebounceEn ==
    /\ call = 5 /\ call' = 0
    /\ DIDebounceEn' = cmd.debounceEn
    /\ settled' = (settled /\ cmd.debounceEn = DIDebounceEn)
    /\ UNCHANGED <<pin, inputVars, scanVars, DIBypassEn, DIModeSel, delays, cmd, lows>>
-----------------------------------------------------------------------------
Calls == DICfgMode \/ DISetBypassEn \/ DISetBypass \/ DICfgDebounce \/ DISetDebounceEn

Next == PinChanges \/ Tick \/ Command \/ Calls

Spec == Init /\ [][Next]_vars

(* DIOTask sleeps for a tick and runs again; a command that began goes on.
   Nothing is assumed of the pin. *)
FairSpec == Spec /\ WF_vars(Tick) /\ WF_vars(Calls)
-----------------------------------------------------------------------------
TypeOK ==
    /\ pin \in Levels /\ DIIn \in Levels /\ DIPrev \in Levels
    /\ DIVal \in 0..MaxVal
    /\ DIBypassEn \in BOOLEAN /\ DIModeSel \in Modes /\ DIDebounceEn \in BOOLEAN
    /\ delays \in [debounce : Delay, rptStart : Delay, rpt : Delay]
    /\ DIScanState \in ScanStates
    /\ DIDebounceDlyCtr \in Delay /\ DIRptStartDlyCtr \in Delay /\ DIRptDlyCtr \in Delay
    /\ cmd \in Configs /\ call \in 0..5
    /\ lows \in 0..(MaxDelay + 1) /\ settled \in BOOLEAN

(* A debounced input goes low only after its pin was low at one tick and at
   DIDebounceDly more in a row, whatever the pin did before. *)
DebounceFilters ==
    [][settled /\ DIDebounceEn /\ DIIn = 1 /\ DIIn' = 0 => lows' > delays.debounce]_vars

(* In the mode that counts low going edges, the bounces of a key are not
   counted: the count goes up at a tick whose pin has been low that long. *)
BouncesNotCounted ==
    [][settled /\ DIDebounceEn /\ DIModeSel = "EDGE_LOW_GOING" /\ ~DIBypassEn /\ DIVal' > DIVal
         => lows' > delays.debounce]_vars

(* A bypassed channel has the value of the command that bypassed it, from
   the end of that command on, whatever the pin does. *)
BypassHasItsValue == DIBypassEn /\ call = 0 => DIVal = cmd.val

(* DIIn, "Current state of sensor input": a pin that stays low is read as
   low in the end, unless a change of the configuration has left the scan
   between UP and its counters; one that stays high is read as high, always. *)
EdgesSeen == /\ <>[](pin = 0 /\ settled) => <>[](DIIn = 0)
             /\ <>[](pin = 1) => <>[](DIIn = 1)
=============================================================================

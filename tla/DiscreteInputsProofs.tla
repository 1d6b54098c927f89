------------------------ MODULE DiscreteInputsProofs ------------------------
(* Proofs about DiscreteInputs, for every set of configurations, every limit of
   the counts and every delay.

   A count or a debounced reading depends on the whole way from UP to the last
   low sample: FilterInv says that in DEBOUNCE the counter and the low samples so
   far add up to more than the delay, and that past DEBOUNCE the counter is used
   up and the input is low; EdgeInv, that the edges are those of the debounced
   input.  Neither holds while the scan is unsettled. *)
EXTENDS DiscreteInputs, TLAPS

(* From the call of DISetBypass on, the value is the one of the command. *)
BypassInv == DIBypassEn /\ call \in {0, 4, 5} => DIVal = cmd.val

FilterInv ==
    settled /\ DIDebounceEn =>
        /\ DIScanState = "DEBOUNCE" /\ DIDebounceDlyCtr > 0
               => DIDebounceDlyCtr + lows > delays.debounce
        /\ DIScanState \in {"RPT_START_DLY", "RPT_DLY"} => DIIn = 0 /\ DIDebounceDlyCtr = 0

EdgeInv ==
    settled /\ DIDebounceEn /\ ~DIBypassEn /\ DIModeSel \in EdgeModes => DIPrev = DIIn

IInv == TypeOK /\ BypassInv /\ FilterInv /\ EdgeInv
-----------------------------------------------------------------------------
LEMMA InitInv == Init => IInv
<1>1. SUFFICES ASSUME Init PROVE IInv
  OBVIOUS
<1>2. PICK c \in Configs : /\ DIModeSel = c.mode /\ DIDebounceEn = c.debounceEn
                           /\ delays = [debounce |-> c.debounceDly,
                                        rptStart |-> c.rptStartDly, rpt |-> c.rptDly]
                           /\ cmd = c
  BY <1>1 DEF Init
<1>3. c \in [mode : Modes, bypassEn : BOOLEAN, val : 0..MaxVal,
             debounceDly : Delay, rptStartDly : Delay, rptDly : Delay, debounceEn : BOOLEAN]
  BY ConfigsAssumption
<1>4. TypeOK
  <2>1. delays \in [debounce : Delay, rptStart : Delay, rpt : Delay]
    BY <1>2, <1>3
  <2>2. DIModeSel \in Modes /\ DIDebounceEn \in BOOLEAN /\ cmd \in Configs
    BY <1>2, <1>3
  <2>3. MaxVal \in Nat /\ MaxDelay \in Nat
    BY ConfigsAssumption
  <2>4. /\ pin = 1 /\ DIIn = 0 /\ DIVal = 0 /\ DIPrev = 0
        /\ DIScanState = "UP" /\ DIDebounceDlyCtr = 0 /\ DIRptStartDlyCtr = 0
        /\ DIRptDlyCtr = 0 /\ call = 0 /\ lows = 0
        /\ DIBypassEn \in BOOLEAN /\ settled \in BOOLEAN
    BY <1>1 DEF Init
  <2>5. 0 \in Delay /\ 0 \in 0..MaxVal /\ 0 \in 0..(MaxDelay + 1)
    BY <2>3 DEF Delay
  <2>6. call \in 0..5 /\ DIScanState \in ScanStates
    BY <2>4 DEF ScanStates
  <2>7. pin \in Levels /\ DIIn \in Levels /\ DIPrev \in Levels
    BY <2>4 DEF Levels
  <2> QED
    BY <2>1, <2>2, <2>4, <2>5, <2>6, <2>7, Zenon DEF TypeOK
<1> QED
  BY <1>1, <1>4 DEF Init, IInv, BypassInv, FilterInv, EdgeInv
-----------------------------------------------------------------------------
(* What DIRd does to a channel whose types are right. *)
LEMMA ReadTypes ==
    ASSUME TypeOK, DIRd
    PROVE  DIIn' \in Levels /\ DIScanState' \in ScanStates /\ DIDebounceDlyCtr' \in Delay
           /\ DIRptStartDlyCtr' \in Delay /\ DIRptDlyCtr' \in Delay
<1>1. CASE ReadRaw
  BY <1>1 DEF TypeOK, ReadRaw, scanVars
<1>2. CASE ReadUp
  BY <1>2 DEF TypeOK, ReadUp, Levels, ScanStates
<1>3. CASE ReadDebounce
  BY <1>3, ConfigsAssumption DEF TypeOK, ReadDebounce, Levels, ScanStates, Delay
<1>4. CASE ReadRptStart
  BY <1>4, ConfigsAssumption DEF TypeOK, ReadRptStart, Levels, ScanStates, Delay
<1>5. CASE ReadRpt
  BY <1>5, ConfigsAssumption DEF TypeOK, ReadRpt, Levels, ScanStates, Delay
<1> QED
  BY <1>1, <1>2, <1>3, <1>4, <1>5 DEF DIRd

(* What DIUpdate does with the reading. *)
LEMMA UpdateTypes ==
    ASSUME TypeOK, DIIn' \in Levels, DIUpdate
    PROVE  DIVal' \in 0..MaxVal /\ DIPrev' \in Levels
<1>1. CASE DIBypassEn /\ UNCHANGED <<DIVal, DIPrev>>
  BY <1>1 DEF TypeOK
<1>2. CASE /\ ~DIBypassEn /\ DIModeSel \notin EdgeModes \cup ToggleModes
           /\ DIVal' = CASE DIModeSel = "LOW" -> 0 [] DIModeSel = "HIGH" -> 1
                         [] DIModeSel = "DIRECT" -> DIIn' [] DIModeSel = "INV" -> 1 - DIIn'
           /\ DIPrev' = DIPrev
  <2>1. DIModeSel \in {"LOW", "HIGH", "DIRECT", "INV"}
    BY <1>2 DEF TypeOK, Modes, EdgeModes, ToggleModes
  <2> QED
    BY <1>2, <2>1, ConfigsAssumption DEF TypeOK, Levels
<1>3. CASE ~DIBypassEn /\ DIModeSel \in EdgeModes /\ DIVal' = Count /\ DIPrev' = DIIn'
  BY <1>3, ConfigsAssumption DEF TypeOK, Count
<1>4. CASE /\ ~DIBypassEn /\ DIModeSel \in ToggleModes
           /\ DIVal' = IF ~Toggled THEN DIVal ELSE IF DIVal = 0 THEN 1 ELSE 0
           /\ DIPrev' = DIIn'
  BY <1>4, ConfigsAssumption DEF TypeOK
<1> QED
  BY <1>1, <1>2, <1>3, <1>4 DEF DIUpdate

(* The step of a tick, for the four parts of the invariant. *)
LEMMA TickInv == IInv /\ Tick => IInv'
<1> SUFFICES ASSUME IInv, Tick PROVE IInv'
  OBVIOUS
<1> USE DEF IInv
<1>1. DIRd /\ DIUpdate /\ UNCHANGED <<pin, configVars, cmd, call>>
  BY DEF Tick
<1>2. lows' \in 0..(MaxDelay + 1) /\ settled' \in BOOLEAN
  BY ConfigsAssumption DEF Tick, TypeOK, Settles
<1>3. TypeOK'
  BY <1>1, <1>2, ReadTypes, UpdateTypes DEF TypeOK, configVars
<1>4. BypassInv'
  BY <1>1 DEF BypassInv, DIUpdate, configVars
<1>5. EdgeInv'
  BY <1>1 DEF EdgeInv, DIUpdate, configVars, EdgeModes, ToggleModes
<1>6. FilterInv'
  <2> SUFFICES ASSUME settled', DIDebounceEn, DIScanState' # "UP"
               PROVE  FilterInv'
    BY <1>1 DEF FilterInv, configVars
  <2>1. settled /\ UNCHANGED <<DIDebounceEn, delays>>
    BY <1>1 DEF Tick, Settles, configVars
  <2>2. /\ delays.debounce \in Delay /\ lows \in 0..(MaxDelay + 1)
        /\ DIDebounceDlyCtr \in Delay /\ MaxDelay \in Nat /\ pin \in {0, 1}
    BY ConfigsAssumption DEF TypeOK, Levels
  <2>3. lows' = IF pin = 1 THEN 0 ELSE IF lows > MaxDelay THEN lows ELSE lows + 1
    BY DEF Tick
  <2>4. CASE ReadUp
    BY <2>1, <2>2, <2>3, <2>4 DEF ReadUp, FilterInv, Delay
  <2>5. CASE ReadDebounce
    BY <2>1, <2>2, <2>3, <2>5 DEF ReadDebounce, FilterInv, Delay
  <2>6. CASE ReadRptStart
    BY <2>1, <2>2, <2>3, <2>6 DEF ReadRptStart, FilterInv, Delay
  <2>7. CASE ReadRpt
    BY <2>1, <2>2, <2>3, <2>7 DEF ReadRpt, FilterInv, Delay
  <2> QED
    BY <1>1, <2>4, <2>5, <2>6, <2>7 DEF DIRd, ReadRaw
<1> QED
  BY <1>3, <1>4, <1>5, <1>6

(* The calls of a command: what they change is unsettled until the next UP. *)
LEMMA CommandInv == IInv /\ (Command \/ Calls) => IInv'
<1> SUFFICES ASSUME IInv, Command \/ Calls PROVE IInv'
  OBVIOUS
<1> USE DEF IInv
<1>1. cmd \in [mode : Modes, bypassEn : BOOLEAN, val : 0..MaxVal,
               debounceDly : Delay, rptStartDly : Delay, rptDly : Delay, debounceEn : BOOLEAN]
  BY ConfigsAssumption DEF TypeOK
<1>2. CASE Command
  <2>1. TypeOK'
    BY <1>2 DEF Command, TypeOK, inputVars, scanVars, configVars, historyVars
  <2> QED
    BY <1>2, <2>1 DEF Command, inputVars, scanVars, configVars, historyVars,
                      BypassInv, FilterInv, EdgeInv
<1>3. CASE DICfgMode
  <2>1. TypeOK'
    BY <1>1, <1>3 DEF DICfgMode, TypeOK, inputVars, scanVars
  <2>2. BypassInv'
    BY <1>3 DEF DICfgMode, BypassInv
  <2>3. settled' => settled /\ cmd.mode = DIModeSel
    BY <1>3 DEF DICfgMode
  <2>4. FilterInv' /\ EdgeInv'
    BY <1>3, <2>3 DEF DICfgMode, inputVars, scanVars, FilterInv, EdgeInv
  <2> QED
    BY <2>1, <2>2, <2>4
<1>4. CASE DISetBypassEn
  <2>1. TypeOK'
    BY <1>1, <1>4 DEF DISetBypassEn, TypeOK, inputVars, scanVars
  <2>2. BypassInv'
    BY <1>4 DEF DISetBypassEn, BypassInv
  <2>3. settled' => settled /\ cmd.bypassEn = DIBypassEn
    BY <1>4 DEF DISetBypassEn
  <2>4. FilterInv' /\ EdgeInv'
    BY <1>4, <2>3 DEF DISetBypassEn, inputVars, scanVars, FilterInv, EdgeInv
  <2> QED
    BY <2>1, <2>2, <2>4
<1>5. CASE DISetBypass
  <2>1. TypeOK'
    BY <1>1, <1>5 DEF DISetBypass, TypeOK, scanVars, configVars, historyVars
  <2> QED
    BY <1>5, <2>1 DEF DISetBypass, scanVars, configVars, historyVars, BypassInv, FilterInv, EdgeInv
<1>6. CASE DICfgDebounce
  <2>1. TypeOK'
    BY <1>1, <1>6 DEF DICfgDebounce, TypeOK, inputVars, scanVars
  <2> QED
    BY <1>6, <2>1 DEF DICfgDebounce, inputVars, scanVars, BypassInv, FilterInv, EdgeInv
<1>7. CASE DISetDebounceEn
  <2>1. TypeOK'
    BY <1>1, <1>7 DEF DISetDebounceEn, TypeOK, inputVars, scanVars
  <2> QED
    BY <1>7, <2>1 DEF DISetDebounceEn, inputVars, scanVars, BypassInv, FilterInv, EdgeInv
<1> QED
  BY <1>2, <1>3, <1>4, <1>5, <1>6, <1>7 DEF Calls

LEMMA InvNext == IInv /\ [Next]_vars => IInv'
<1> SUFFICES ASSUME IInv, [Next]_vars PROVE IInv'
  OBVIOUS
<1>1. CASE PinChanges
  BY <1>1 DEF PinChanges, inputVars, scanVars, configVars, historyVars, IInv, TypeOK, Levels,
              BypassInv, FilterInv, EdgeInv
<1>2. CASE UNCHANGED vars
  BY <1>2 DEF vars, inputVars, scanVars, configVars, historyVars, IInv, TypeOK,
              BypassInv, FilterInv, EdgeInv
<1> QED
  BY <1>1, <1>2, TickInv, CommandInv DEF Next
-----------------------------------------------------------------------------
(* Every reachable state of a channel is well typed: counters never pass their
   delay and the count of edges never its limit. *)
THEOREM TypeCorrect == Spec => []TypeOK
<1>1. IInv => TypeOK
  BY DEF IInv
<1> QED
  BY <1>1, InitInv, InvNext, PTL DEF Spec

(* A bypassed channel has the value of the command that bypassed it from the
   end of the command on, for every configuration and sequence of levels. *)
THEOREM BypassKept == Spec => []BypassHasItsValue
<1>1. IInv => BypassHasItsValue
  BY DEF IInv, BypassInv, BypassHasItsValue
<1> QED
  BY <1>1, InitInv, InvNext, PTL DEF Spec

(* The step of DebounceFilters: only the last low sample of DEBOUNCE makes the
   input low. *)
LEMMA LowAfterDelay ==
    ASSUME IInv, [Next]_vars, settled, DIDebounceEn, DIIn = 1, DIIn' = 0
    PROVE  lows' > delays.debounce
<1>1. Tick
  BY DEF Next, PinChanges, Command, Calls, DICfgMode, DISetBypassEn, DISetBypass, DICfgDebounce,
         DISetDebounceEn, vars, inputVars
<1>2. DIRd /\ lows' = IF pin = 1 THEN 0 ELSE IF lows > MaxDelay THEN lows ELSE lows + 1
  BY <1>1 DEF Tick
<1>3. DIScanState \notin {"RPT_START_DLY", "RPT_DLY"}
  BY DEF IInv, FilterInv
<1>4. ReadDebounce /\ pin = 0 /\ DIDebounceDlyCtr = 1
  BY <1>2, <1>3 DEF DIRd, ReadRaw, ReadUp, ReadDebounce, ReadRptStart, ReadRpt
<1>5. 1 + lows > delays.debounce
  BY <1>4 DEF ReadDebounce, IInv, FilterInv
<1> QED
  BY <1>2, <1>4, <1>5, ConfigsAssumption DEF IInv, TypeOK, Delay

(* A debounced input goes low only after its pin was low for the whole delay,
   for every delay and every sequence of levels and commands. *)
THEOREM DebounceProved == Spec => DebounceFilters
<1>1. IInv /\ [Next]_vars =>
        [settled /\ DIDebounceEn /\ DIIn = 1 /\ DIIn' = 0 => lows' > delays.debounce]_vars
  BY LowAfterDelay
<1> QED
  BY <1>1, InitInv, InvNext, PTL DEF Spec, DebounceFilters

(* The count of low going edges goes up only when the pin has been low for the
   whole delay: no bounce is counted, whatever the bounces are. *)
THEOREM CountProved == Spec => BouncesNotCounted
<1>1. IInv /\ [Next]_vars =>
        [settled /\ DIDebounceEn /\ DIModeSel = "EDGE_LOW_GOING" /\ ~DIBypassEn /\ DIVal' > DIVal
            => lows' > delays.debounce]_vars
  <2> SUFFICES ASSUME IInv, [Next]_vars, settled, DIDebounceEn, DIModeSel = "EDGE_LOW_GOING",
                      ~DIBypassEn, DIVal' > DIVal
               PROVE  lows' > delays.debounce
    OBVIOUS
  <2>1. DIVal \in Nat /\ ~(DIVal > DIVal)
    BY ConfigsAssumption DEF IInv, TypeOK
  <2>2. DIUpdate
    BY <2>1 DEF Next, Tick, PinChanges, Command, Calls, DICfgMode, DISetBypassEn, DISetBypass,
                DICfgDebounce, DISetDebounceEn, vars, inputVars
  <2>3. LowGoing
    BY <2>1, <2>2 DEF DIUpdate, Count, Triggered, EdgeModes, ToggleModes
  <2>4. DIIn = 1
    BY <2>3 DEF IInv, EdgeInv, EdgeModes, LowGoing
  <2> QED
    BY <2>3, <2>4, LowAfterDelay DEF LowGoing
<1> QED
  BY <1>1, InitInv, InvNext, PTL DEF Spec, BouncesNotCounted
=============================================================================

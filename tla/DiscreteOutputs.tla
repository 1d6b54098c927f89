-------------------------- MODULE DiscreteOutputs --------------------------
(***************************************************************************)
(* DiscreteIO/DIO.c, the outputs: the channels of DOTbl, as DIOTask        *)
(* updates them every tick, and the commands that drive and configure      *)
(* them.                                                                   *)
(*                                                                         *)
(* As in DiscreteInputs, a tick is one step, a command one critical        *)
(* section after the other with ticks in between, and one command runs at  *)
(* a time.                                                                 *)
(* DO_MODE_LOW, DO_MODE_HIGH and so on lose their prefix, as does          *)
(* DO_BLINK_EN_NORMAL; DO_BLINK_EN is "EN".                                *)
(***************************************************************************)
EXTENDS Naturals

CONSTANTS Channels,
          Configs,    \* what a setDOConfiguration command may carry
          MaxTicks    \* the longest period of Configs

Modes == {"LOW", "HIGH", "DIRECT", "BLINK_SYNC", "BLINK_ASYNC"}
BlinkModes == {"EN", "NORMAL", "INV"}
Ticks == 0..MaxTicks

ASSUME ConfigsAssumption ==
    /\ MaxTicks \in Nat
    /\ Configs \subseteq [mode : Modes, inv : BOOLEAN, bypass : BOOLEAN, bypassEn : BOOLEAN,
                          blink : BlinkModes, a : Ticks, b : Ticks, syncMax : Ticks]

VARIABLES
    DOTbl,                     \* the channels
    DOSyncCtr, DOSyncCtrMax,
    cmd, channel, call,        \* the command, its channel and its next call (0: none)
    ticked                     \* history: a tick since the last call for the channel

vars == <<DOTbl, DOSyncCtr, DOSyncCtrMax, cmd, channel, call, ticked>>
-----------------------------------------------------------------------------
(* DIO_init, then the configuration of the EEPROM; the bypass starts closed. *)
Init ==
    /\ \E c \in Configs :
         /\ DOTbl = [n \in Channels |->
              [DOOut |-> FALSE, DOCtrl |-> FALSE, DOBypass |-> FALSE, DOBypassEn |-> FALSE,
               DOModeSel |-> c.mode, DOInv |-> c.inv, DOBlinkEnSel |-> c.blink,
               DOA |-> c.a, DOB |-> c.b, DOBCtr |-> 2]]
         /\ DOSyncCtrMax = c.syncMax /\ cmd = c
    /\ DOSyncCtr = 0 /\ call = 0 /\ channel \in Channels
    /\ ticked = [n \in Channels |-> FALSE]
-----------------------------------------------------------------------------
DOIsBlinkEn(do) == \/ do.DOBlinkEnSel = "EN"
                   \/ do.DOBlinkEnSel = "NORMAL" /\ do.DOBypass
                   \/ do.DOBlinkEnSel = "INV" /\ ~do.DOBypass

(* Mutant: the output is on below DOA only. *)
AssertedBelow(do) ==
    \/ do.DOModeSel = "HIGH"
    \/ do.DOModeSel = "DIRECT" /\ do.DOBypass
    \/ do.DOModeSel = "BLINK_SYNC" /\ DOIsBlinkEn(do) /\ do.DOA > DOSyncCtr
    \/ do.DOModeSel = "BLINK_ASYNC" /\ DOIsBlinkEn(do) /\ do.DOA > do.DOBCtr

Asserted(do) ==
    \/ do.DOModeSel = "HIGH"
    \/ do.DOModeSel = "DIRECT" /\ do.DOBypass
    \/ do.DOModeSel = "BLINK_SYNC" /\ DOIsBlinkEn(do) /\ do.DOA >= DOSyncCtr
    \/ do.DOModeSel = "BLINK_ASYNC" /\ DOIsBlinkEn(do) /\ do.DOA >= do.DOBCtr

Advance(ctr, max) == IF ctr < max THEN ctr + 1 ELSE 0

(* Mutant: the value of the application passes an open bypass. *)
UpdatedAlways(do) ==
    LET d == [do EXCEPT !.DOBypass = do.DOCtrl]
    IN  [d EXCEPT !.DOOut  = Asserted(d) # d.DOInv,
                  !.DOBCtr = IF d.DOModeSel = "BLINK_ASYNC" THEN Advance(@, d.DOB) ELSE @]

(* DOUpdate for one channel: the output is from before the counter advances. *)
Updated(do) ==
    LET d == [do EXCEPT !.DOBypass = IF do.DOBypassEn THEN @ ELSE do.DOCtrl]
    IN  [d EXCEPT !.DOOut  = Asserted(d) # d.DOInv,
                  !.DOBCtr = IF d.DOModeSel = "BLINK_ASYNC" THEN Advance(@, d.DOB) ELSE @]

(* One turn of DIOTask for the outputs; DOWr copies DOOut to the pin. *)
Tick ==
    /\ DOTbl' = [n \in Channels |-> Updated(DOTbl[n])]
    /\ DOSyncCtr' = Advance(DOSyncCtr, DOSyncCtrMax)
    /\ ticked' = [n \in Channels |-> TRUE]
    /\ UNCHANGED <<DOSyncCtrMax, cmd, channel, call>>
-----------------------------------------------------------------------------
(* setDOValue sets DOCtrl, and setDOToggle to its complement: only a tick can
   come between its read and its write, and that leaves DOCtrl alone. *)
DOSet(n) ==
    /\ call = 0
    /\ \E state \in BOOLEAN : DOTbl' = [DOTbl EXCEPT ![n].DOCtrl = state]
    /\ UNCHANGED <<DOSyncCtr, DOSyncCtrMax, cmd, channel, call, ticked>>

(* vTCPRCBin_DiscreteIO_setDOConfiguration: five calls in this order. *)
Command(n) ==
    /\ call = 0
    /\ cmd' \in Configs /\ channel' = n
    /\ call' = 1
    /\ UNCHANGED <<DOTbl, DOSyncCtr, DOSyncCtrMax, ticked>>

(* One call of the command, that turns the channel into do. *)
Configures(k, do) ==
    /\ call = k /\ call' = k + 1
    /\ DOTbl' = [DOTbl EXCEPT ![channel] = do]
    /\ ticked' = [ticked EXCEPT ![channel] = FALSE]
    /\ UNCHANGED <<DOSyncCtr, DOSyncCtrMax, cmd, channel>>

DOCfgMode ==
    Configures(1, [DOTbl[channel] EXCEPT !.DOModeSel = cmd.mode, !.DOInv = cmd.inv])

(* DOSetBypass does nothing unless the bypass is open already. *)
DOSetBypass ==
    Configures(2, [DOTbl[channel] EXCEPT
                     !.DOBypass = IF DOTbl[channel].DOBypassEn THEN cmd.bypass ELSE @])

DOSetBypassEn ==
    Configures(3, [DOTbl[channel] EXCEPT !.DOBypassEn = cmd.bypassEn])

DOCfgBlink ==
    Configures(4, [DOTbl[channel] EXCEPT !.DOBlinkEnSel = cmd.blink,
                                         !.DOA = cmd.a, !.DOB = cmd.b])

(* The counter of the synchronous blinking is one for all channels. *)
DOSetSyncCtrMax ==
    /\ call = 5 /\ call' = 0
    /\ DOSyncCtrMax' = cmd.syncMax
    /\ ticked' = [n \in Channels |-> FALSE]
    /\ UNCHANGED <<DOTbl, DOSyncCtr, cmd, channel>>
-----------------------------------------------------------------------------
Calls == DOCfgMode \/ DOSetBypass \/ DOSetBypassEn \/ DOCfgBlink \/ DOSetSyncCtrMax

Next == Tick \/ Calls \/ \E n \in Channels : DOSet(n) \/ Command(n)

Spec == Init /\ [][Next]_vars

(* DIOTask sleeps for a tick and runs again; a command that began goes on. *)
FairSpec == Spec /\ WF_vars(Tick) /\ WF_vars(Calls)
-----------------------------------------------------------------------------
(* The channel is configured to blink, and its on time is within its period. *)
Blinks(n) ==
    LET do == DOTbl[n] IN
    /\ call = 0 /\ DOIsBlinkEn(do)
    /\ \/ do.DOModeSel = "BLINK_ASYNC" /\ do.DOA < do.DOB
       \/ do.DOModeSel = "BLINK_SYNC" /\ do.DOA < DOSyncCtrMax

(* A blinking output goes on and off forever, also when its period, or the
   period that all channels share, was shortened below a running counter. *)
BlinkAlternates ==
    \A n \in Channels : <>[]Blinks(n) => []<>(DOTbl[n].DOOut) /\ []<>(~DOTbl[n].DOOut)

(* An output whose bypass is open, "controlled directly", keeps its level,
   whatever value the application sets and whatever the other channels do. *)
BypassOverrides ==
    [][\A n \in Channels :
         ticked[n] /\ DOTbl[n].DOBypassEn /\ DOTbl[n].DOModeSel = "DIRECT"
           => DOTbl'[n].DOOut = DOTbl[n].DOOut]_vars
=============================================================================

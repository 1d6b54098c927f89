-------------------------- MODULE DiscreteIOProofs --------------------------
(* Proofs about DiscreteOutputs and DIOConfiguration, for any number of channels
   and workers, and any configurations that commands may bring.

   An open bypass overrides because of what the last tick left behind: once a
   tick has come after the calls for a channel, its output is its bypass value,
   inverted or not (LevelInv), so that another tick computes the same level and
   the application's value is not looked at.

   DIOConfiguration: the copies that commands have of the configuration and the
   configuration in use agree unless commands overlapped (PinsInv). *)
EXTENDS DiscreteOutputs, DIOConfiguration, TLAPS

Fields == {"DOOut", "DOCtrl", "DOBypass", "DOBypassEn", "DOModeSel", "DOInv", "DOBlinkEnSel",
           "DOA", "DOB", "DOBCtr"}
IsChannel(do) ==
    /\ do = [f \in Fields |-> do[f]]
    /\ {do.DOOut, do.DOCtrl, do.DOBypass, do.DOInv} \subseteq BOOLEAN

TypeInv ==
    /\ DOTbl = [n \in Channels |-> DOTbl[n]] /\ \A n \in Channels : IsChannel(DOTbl[n])
    /\ DOMAIN ticked = Channels /\ channel \in Channels /\ cmd \in Configs

Overridden(do) == do.DOBypassEn /\ do.DOModeSel = "DIRECT"
LevelInv ==
    \A n \in Channels : ticked[n] /\ Overridden(DOTbl[n])
                          => DOTbl[n].DOOut = (DOTbl[n].DOBypass # DOTbl[n].DOInv)

IInv == TypeInv /\ LevelInv
-----------------------------------------------------------------------------
LEMMA InitInv == Init => IInv
<1> SUFFICES ASSUME Init PROVE IInv
  OBVIOUS
<1>1. PICK c \in Configs :
        /\ DOTbl = [n \in Channels |->
             [DOOut |-> FALSE, DOCtrl |-> FALSE, DOBypass |-> FALSE, DOBypassEn |-> FALSE,
              DOModeSel |-> c.mode, DOInv |-> c.inv, DOBlinkEnSel |-> c.blink,
              DOA |-> c.a, DOB |-> c.b, DOBCtr |-> 2]]
        /\ DOSyncCtrMax = c.syncMax /\ cmd = c
  BY DEF Init
<1>2. c.inv \in BOOLEAN
  BY ConfigsAssumption
<1>3. \A n \in Channels : IsChannel(DOTbl[n])
  BY <1>1, <1>2 DEF IsChannel, Fields
<1> QED
  BY <1>1, <1>3 DEF Init, IInv, TypeInv, LevelInv

(* What DOUpdate makes of a channel. *)
LEMMA Update ==
    ASSUME NEW do, IsChannel(do)
    PROVE  /\ IsChannel(Updated(do))
           /\ Overridden(Updated(do)) <=> Overridden(do)
           /\ Overridden(do) => /\ Updated(do).DOBypass = do.DOBypass
                                /\ Updated(do).DOInv = do.DOInv
                                /\ Updated(do).DOOut = (do.DOBypass # do.DOInv)
BY DEF IsChannel, Updated, Overridden, Asserted, Fields

LEMMA KeepsTick == IInv /\ Tick => IInv'
<1> SUFFICES ASSUME IInv, Tick PROVE IInv'
  OBVIOUS
<1>1. /\ DOTbl' = [n \in Channels |-> Updated(DOTbl[n])]
      /\ DOMAIN ticked' = Channels /\ channel' = channel /\ cmd' = cmd
  BY DEF Tick
<1>2. \A n \in Channels : IsChannel(DOTbl[n])
  BY DEF IInv, TypeInv
<1>3. ASSUME NEW n \in Channels
      PROVE  /\ IsChannel(DOTbl'[n])
             /\ Overridden(DOTbl'[n]) => DOTbl'[n].DOOut = (DOTbl'[n].DOBypass # DOTbl'[n].DOInv)
  BY <1>1, <1>2, Update
<1>4. TypeInv'
  BY <1>1, <1>3 DEF IInv, TypeInv
<1> QED
  BY <1>3, <1>4 DEF IInv, LevelInv

(* The application's value changes nothing else of a channel. *)
LEMMA SetsControl ==
    ASSUME IInv, NEW m \in Channels, DOSet(m), NEW n \in Channels
    PROVE  /\ IsChannel(DOTbl'[n])
           /\ \A f \in Fields \ {"DOCtrl"} : DOTbl'[n][f] = DOTbl[n][f]
<1>1. PICK state \in BOOLEAN : DOTbl' = [DOTbl EXCEPT ![m].DOCtrl = state]
  BY DEF DOSet
<1>2. IsChannel(DOTbl[n]) /\ DOMAIN DOTbl = Channels
  BY DEF IInv, TypeInv
<1>3. CASE n # m
  BY <1>1, <1>2, <1>3
<1>4. CASE n = m
  <2>1. DOTbl'[n] = [DOTbl[n] EXCEPT !.DOCtrl = state]
    BY <1>1, <1>2, <1>4
  <2> QED
    BY <1>2, <2>1 DEF IsChannel, Fields
<1> QED
  BY <1>3, <1>4

LEMMA KeepsSet == ASSUME IInv, NEW m \in Channels, DOSet(m) PROVE IInv'
<1>1. \A n \in Channels : /\ IsChannel(DOTbl'[n])
                          /\ \A f \in Fields \ {"DOCtrl"} : DOTbl'[n][f] = DOTbl[n][f]
  BY SetsControl
<1>2. TypeInv'
  BY <1>1 DEF DOSet, IInv, TypeInv
<1>3. LevelInv'
  BY <1>1 DEF DOSet, IInv, LevelInv, Overridden, Fields
<1> QED
  BY <1>2, <1>3 DEF IInv

LEMMA KeepsCalls == IInv /\ Calls => IInv'
<1> SUFFICES ASSUME IInv, Calls PROVE IInv'
  OBVIOUS
<1> DEFINE do == DOTbl[channel]
<1>1. channel \in Channels /\ IsChannel(do) /\ cmd.inv \in BOOLEAN /\ cmd.bypass \in BOOLEAN
  BY ConfigsAssumption DEF IInv, TypeInv
<1>2. CASE DOSetSyncCtrMax
  BY <1>2 DEF DOSetSyncCtrMax, IInv, TypeInv, LevelInv
<1>3. ASSUME NEW k, NEW new, IsChannel(new), Configures(k, new)
      PROVE  IInv'
  BY <1>1, <1>3 DEF Configures, IInv, TypeInv, LevelInv
<1>4. CASE DOCfgMode
  BY <1>1, <1>3, <1>4 DEF DOCfgMode, IsChannel, Fields
<1>5. CASE DOSetBypass
  BY <1>1, <1>3, <1>5 DEF DOSetBypass, IsChannel, Fields
<1>6. CASE DOSetBypassEn
  BY <1>1, <1>3, <1>6 DEF DOSetBypassEn, IsChannel, Fields
<1>7. CASE DOCfgBlink
  BY <1>1, <1>3, <1>7 DEF DOCfgBlink, IsChannel, Fields
<1> QED
  BY <1>2, <1>4, <1>5, <1>6, <1>7 DEF Calls

LEMMA InvNext == IInv /\ [Next]_vars => IInv'
<1> SUFFICES ASSUME IInv, [Next]_vars PROVE IInv'
  OBVIOUS
<1>1. ASSUME NEW n \in Channels, Command(n) PROVE IInv'
  BY <1>1 DEF Command, IInv, TypeInv, LevelInv
<1>2. CASE UNCHANGED vars
  BY <1>2 DEF vars, IInv, TypeInv, LevelInv
<1> QED
  BY <1>1, <1>2, KeepsTick, KeepsSet, KeepsCalls DEF Next
-----------------------------------------------------------------------------
(* An output whose bypass is open keeps its level at every step, whatever the
   application sets, for any number of channels and any configurations. *)
THEOREM OpenBypassOverrides == Spec => BypassOverrides
<1> DEFINE Kept == \A n \in Channels :
                     ticked[n] /\ Overridden(DOTbl[n]) => DOTbl'[n].DOOut = DOTbl[n].DOOut
<1>1. ASSUME IInv, [Next]_vars PROVE Kept
  <2> SUFFICES ASSUME NEW n \in Channels, ticked[n], Overridden(DOTbl[n])
               PROVE  DOTbl'[n].DOOut = DOTbl[n].DOOut
    OBVIOUS
  <2>1. IsChannel(DOTbl[n]) /\ DOTbl[n].DOOut = (DOTbl[n].DOBypass # DOTbl[n].DOInv)
    BY <1>1 DEF IInv, TypeInv, LevelInv
  <2>2. CASE Tick
    BY <2>1, <2>2, Update DEF Tick
  <2>3. ASSUME NEW m \in Channels, DOSet(m) PROVE DOTbl'[n].DOOut = DOTbl[n].DOOut
    BY <1>1, <2>3, SetsControl DEF Fields
  <2>4. CASE Calls
    <3>1. DOMAIN DOTbl = Channels /\ channel \in Channels /\ IsChannel(DOTbl[channel])
      BY <1>1 DEF IInv, TypeInv
    <3>2. ASSUME NEW k, NEW new, new.DOOut = DOTbl[channel].DOOut, Configures(k, new)
          PROVE  DOTbl'[n].DOOut = DOTbl[n].DOOut
      BY <3>1, <3>2 DEF Configures
    <3> QED
      BY <2>4, <3>1, <3>2 DEF Calls, DOCfgMode, DOSetBypass, DOSetBypassEn, DOCfgBlink,
                              DOSetSyncCtrMax, IsChannel, Fields
  <2>5. CASE UNCHANGED DOTbl
    BY <2>5
  <2> QED
    BY <1>1, <2>2, <2>3, <2>4, <2>5 DEF Next, vars, Command
<1>2. IInv /\ [Next]_vars =>
        [\A n \in Channels :
           ticked[n] /\ DOTbl[n].DOBypassEn /\ DOTbl[n].DOModeSel = "DIRECT"
             => DOTbl'[n].DOOut = DOTbl[n].DOOut]_vars
  BY <1>1 DEF Overridden
<1> QED
  BY <1>2, InitInv, InvNext, PTL DEF Spec, BypassOverrides
-----------------------------------------------------------------------------
(* DIOConfiguration: what it keeps for any number of workers and pins, any
   commands and any section the system starts with.  SavedAsUsed is not
   inductive: a section is written from the copy that its worker has made
   earlier, so the copies have to be right (CopyCurrent) before what is saved
   can be. *)

(* The inductive invariant. *)
PinsInv == TypeOK /\ SavedAsUsed /\ CopyCurrent

(* What commands and starts make of a section is a section. *)
LEMMA SectionChanged ==
    ASSUME NEW s, IsSection(s), NEW c \in Commands,
           c.kind = "direction" \/ c.config \in Allowed(<<c.pin, "pinConfig">>)
    PROVE  IsSection(Changed(s, c))
<1>1. ASSUME NEW i \in Items, i \in Touched(c) PROVE Value(c, i) \in Allowed(i)
  <2>1. CASE i[2] = "pinConfig"
    <3>1. Value(c, i) = Config(c)
      BY <2>1 DEF Value, Bypasses
    <3>2. Config(c) \in InputConfigs \cup OutputConfigs
      <4>1. c.kind # "direction" => c.config \in InputConfigs \cup OutputConfigs
        BY DEF Allowed
      <4> QED
        BY <4>1, PinsAssumption DEF Config, Standard
    <3> QED
      BY <2>1, <3>1, <3>2 DEF Allowed
  <2>2. CASE i[2] # "pinConfig"
    <3>1. c.kind # "direction" /\ (i[2] = "sync" => c.kind = "output")
      BY <1>1, <2>2, PinsAssumption DEF Touched
    <3> QED
      BY <2>2, <3>1, PinsAssumption DEF Value, Allowed, Bypasses
  <2> QED
    BY <2>1, <2>2
<1> QED
  BY <1>1 DEF IsSection, Changed

(* A start agrees with the section that it starts from. *)
LEMMA StartAgrees ==
    ASSUME port' = Started(saved'), commanded' = {}, NEW i \in Items
    PROVE  Agrees(saved, i)'
BY DEF Agrees

LEMMA KeepsInit == PinsInit => PinsInv
<1> SUFFICES ASSUME PinsInit PROVE PinsInv
  OBVIOUS
<1>1. Sending = {}
  BY DEF PinsInit, Sending
<1>2. \A i \in Items : Agrees(saved, i)
  BY DEF PinsInit, Agrees
<1>3. TypeOK
  BY <1>1, PinsAssumption DEF PinsInit, TypeOK, Started
<1> QED
  BY <1>1, <1>2, <1>3 DEF PinsInv, SavedAsUsed, CopyCurrent

(* Putting a command to use: its items agree with the section that it has
   changed, the others as they have agreed before. *)
LEMMA Configured ==
    ASSUME NEW c \in Commands, Configure(c), NEW section, NEW i \in Items
    PROVE  /\ i \in Touched(c) => port'[i] = InUse(i, Changed(section, c)[i]) /\ i \in commanded'
           /\ i \notin Touched(c) => /\ port'[i] = port[i] /\ (i \in commanded' <=> i \in commanded)
                                     /\ Changed(section, c)[i] = section[i]
BY DEF Configure, Changed

(* Commands set items, those that are being sent included. *)
LEMMA DirectionsSent ==
    ASSUME TypeOK, NEW u \in Sending
    PROVE  Touched(copy[u].command) \subseteq Items
<1>1. copy[u].command \in Commands
  BY DEF TypeOK
<1> QED
  BY <1>1, PinsAssumption DEF Touched, Items

(* A direction command sets its pin, and marks what it overlaps with. *)
LEMMA KeepsDirection ==
    ASSUME PinsInv, NEW w \in Workers, NEW c \in Commands, SetDIODirection(w, c)
    PROVE  PinsInv'
<1>1. /\ w \notin Sending /\ c.kind = "direction" /\ Configure(c) /\ saved' = saved
      /\ Sending' = Sending \cup {w}
      /\ copy'[w] = [command |-> c, section |-> Changed(saved, c)]
      /\ \A u \in Sending : u # w /\ copy'[u] = copy[u]
  BY DEF SetDIODirection, Send, Sending
<1>2. Touched(c) \subseteq Items
  BY <1>1 DEF Touched
<1>3. ASSUME NEW i \in Items, i \notin overlapped'
      PROVE  /\ i \in Touched(c) => Sending = {}
             /\ i \notin Touched(c) => /\ i \notin overlapped
                                       /\ \A u \in Sending : i \notin Touched(copy[u].command)
  BY <1>3 DEF SetDIODirection, Overlap, Set
<1>4. TypeOK'
  <2>1. IsSection(Changed(saved, c))
    BY <1>1, SectionChanged DEF PinsInv, TypeOK
  <2>2. overlapped' \subseteq Items
    <3>1. \A u \in Sending : Touched(copy[u].command) \subseteq Items
      BY DirectionsSent DEF PinsInv
    <3> QED
      BY <1>2, <3>1 DEF SetDIODirection, Overlap, Set, PinsInv, TypeOK
  <2> QED
    BY <1>1, <1>2, <2>1, <2>2 DEF Configure, PinsInv, TypeOK
<1>5. SavedAsUsed'
  <2> SUFFICES ASSUME NEW i \in Items, i \notin overlapped', i \notin Touched(c)
               PROVE  Agrees(saved, i)'
    BY <1>1 DEF SavedAsUsed
  <2>1. Agrees(saved, i)
    BY <1>3 DEF PinsInv, SavedAsUsed
  <2> QED
    BY <1>1, <2>1, Configured DEF Agrees
<1>6. CopyCurrent'
  <2> SUFFICES ASSUME NEW u \in Sending', NEW i \in Items, i \notin overlapped'
               PROVE  Agrees(copy[u].section, i)'
    BY DEF CopyCurrent
  <2>1. CASE u = w
    <3>1. CASE i \in Touched(c)
      BY <1>1, <2>1, <3>1, Configured DEF Agrees
    <3>2. CASE i \notin Touched(c)
      <4>1. Agrees(saved, i)
        BY <1>3, <3>2 DEF PinsInv, SavedAsUsed
      <4>2. port'[i] = port[i] /\ (i \in commanded' <=> i \in commanded)
            /\ Changed(saved, c)[i] = saved[i]
        BY <1>1, <3>2, Configured
      <4>3. copy'[u].section[i] = saved[i]
        BY <1>1, <2>1, <4>2
      <4>4. Started(copy'[u].section)[i] = Started(saved)[i]
        BY <4>3 DEF Started
      <4> QED
        BY <4>1, <4>2, <4>3, <4>4 DEF Agrees
    <3> QED
      BY <3>1, <3>2
  <2>2. CASE u # w
    <3>1. u \in Sending /\ i \notin Touched(c) /\ i \notin overlapped
      BY <1>1, <1>3, <2>2
    <3>2. Agrees(copy[u].section, i)
      BY <3>1 DEF PinsInv, CopyCurrent
    <3> QED
      BY <1>1, <3>1, <3>2, Configured DEF Agrees
  <2> QED
    BY <2>1, <2>2
<1> QED
  BY <1>4, <1>5, <1>6 DEF PinsInv

(* Writing the section back is harmless where the copy is current. *)
LEMMA KeepsWrite ==
    ASSUME PinsInv, NEW w \in Workers, WriteSection(w)
    PROVE  PinsInv'
<1>1. /\ w \in Sending /\ saved' = copy[w].section /\ UNCHANGED <<port, commanded, overlapped>>
      /\ Sending' = Sending \ {w} /\ \A u \in Sending' : copy'[u] = copy[u]
  BY DEF WriteSection, Sending
<1>2. TypeOK'
  BY <1>1 DEF PinsInv, TypeOK
<1>3. \A i \in Items \ overlapped : \A u \in Sending : Agrees(copy[u].section, i)
  BY DEF PinsInv, CopyCurrent
<1>4. SavedAsUsed'
  BY <1>1, <1>3 DEF SavedAsUsed, Agrees
<1>5. CopyCurrent'
  BY <1>1, <1>3 DEF CopyCurrent, Agrees
<1> QED
  BY <1>2, <1>4, <1>5 DEF PinsInv

(* A configuration command marks its items when a direction command sends. *)
LEMMA KeepsConfiguration ==
    ASSUME PinsInv, NEW w \in Workers, NEW c \in Commands, SetConfiguration(w, c)
    PROVE  PinsInv'
<1>1. /\ Configure(c) /\ saved' = Changed(saved, c) /\ copy' = copy /\ Sending' = Sending
      /\ c.kind \in {"input", "output"} /\ c.config \in Allowed(<<c.pin, "pinConfig">>)
  BY DEF SetConfiguration, Sending, Allowed
<1>2. Touched(c) \subseteq Items
  BY <1>1, PinsAssumption DEF Touched, Items
<1>3. ASSUME NEW i \in Items, i \notin overlapped'
      PROVE  /\ i \in Touched(c) => Sending = {}
             /\ i \notin Touched(c) => i \notin overlapped
  BY <1>3 DEF SetConfiguration, Overlap
<1>4. TypeOK'
  <2>1. IsSection(Changed(saved, c))
    BY <1>1, SectionChanged DEF PinsInv, TypeOK
  <2> QED
    BY <1>1, <1>2, <2>1 DEF SetConfiguration, Overlap, Configure, PinsInv, TypeOK
<1>5. SavedAsUsed'
  <2> SUFFICES ASSUME NEW i \in Items, i \notin overlapped',
                      \A u \in Sending : i \notin Touched(copy[u].command)
               PROVE  Agrees(saved, i)'
    BY <1>1 DEF SavedAsUsed
  <2>1. CASE i \in Touched(c)
    BY <1>1, <2>1, Configured DEF Agrees
  <2>2. CASE i \notin Touched(c)
    <3>1. Agrees(saved, i)
      BY <1>3, <2>2 DEF PinsInv, SavedAsUsed
    <3>2. port'[i] = port[i] /\ (i \in commanded' <=> i \in commanded)
          /\ Changed(saved, c)[i] = saved[i]
      BY <1>1, <2>2, Configured
    <3> QED
      BY <1>1, <3>1, <3>2 DEF Agrees, Started
  <2> QED
    BY <2>1, <2>2
<1>6. CopyCurrent'
  <2> SUFFICES ASSUME NEW u \in Sending, NEW i \in Items, i \notin overlapped'
               PROVE  Agrees(copy[u].section, i)'
    BY <1>1 DEF CopyCurrent
  <2>1. i \notin Touched(c) /\ Agrees(copy[u].section, i)
    BY <1>3 DEF PinsInv, CopyCurrent
  <2> QED
    BY <1>1, <2>1, Configured DEF Agrees
<1> QED
  BY <1>4, <1>5, <1>6 DEF PinsInv

(* A restart, whatever it cuts. *)
LEMMA KeepsRestart == PinsInv /\ Restart => PinsInv'
<1> SUFFICES ASSUME PinsInv, Restart PROVE PinsInv'
  OBVIOUS
<1>1. Sending' = {}
  BY DEF Restart, Sending
<1>2. \A i \in Items : Agrees(saved, i)'
  BY StartAgrees DEF Restart
<1>3. TypeOK'
  BY <1>1 DEF Restart, Started, PinsInv, TypeOK
<1> QED
  BY <1>1, <1>2, <1>3 DEF PinsInv, SavedAsUsed, CopyCurrent

(* PinsInv is an invariant. *)
THEOREM PinsInvariance == PinsSpec => []PinsInv
<1>1. PinsInv /\ [PinsNext]_pinsVars => PinsInv'
  <2> SUFFICES ASSUME PinsInv, [PinsNext]_pinsVars PROVE PinsInv'
    OBVIOUS
  <2>1. CASE UNCHANGED pinsVars
    BY <2>1 DEF pinsVars, PinsInv, TypeOK, SavedAsUsed, CopyCurrent, Agrees, Sending
  <2> QED
    BY <2>1, KeepsDirection, KeepsWrite, KeepsConfiguration, KeepsRestart DEF PinsNext
<1> QED
  BY <1>1, KeepsInit, PTL DEF PinsSpec

(* For any number of workers and pins and any commands, over any restarts: every
   item works as the saved section says and a start makes of it, unless the
   item's last command overlapped with another. *)
THEOREM SavedConfigurationInUse == PinsSpec => []SavedAsUsed
BY PinsInvariance, PTL DEF PinsInv

(* A direction command writes back what is in use, but for items whose last
   command overlapped with another. *)
THEOREM CopiesAreCurrent == PinsSpec => []CopyCurrent
BY PinsInvariance, PTL DEF PinsInv
=============================================================================

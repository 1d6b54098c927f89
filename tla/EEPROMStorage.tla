--------------------------- MODULE EEPROMStorage ---------------------------
(***************************************************************************)
(* System/EEPROM/EEPROMStorage.c: the configuration of the unit, a copy of *)
(* it in RAM and one in the EEPROM, in sections.                           *)
(*                                                                         *)
(* EEPROMProgram of the driver library writes word after word at an        *)
(* address that the peripheral advances; it polls and takes no lock.  TCP  *)
(* workers program the main and the input/output section, and run the      *)
(* memory test of the production tests; the USB tasks, of higher priority, *)
(* program the others.                                                     *)
(*                                                                         *)
(* Abstractions.  A word is Erased, Zero (RAM after a reset), Default, the *)
(* Pattern of the memory test, or the number of the command that set it.   *)
(* eepromCheck is right when its word is neither Erased nor Zero: INFO_set *)
(* is always given the right one.  An EEPROM that did not come up may      *)
(* still be programmed.  Bound: MaxSets commands.                          *)
(***************************************************************************)
EXTENDS Naturals, Sequences, FiniteSets

CONSTANTS Sections,     \* in the order in which INFO_init programs them
          Main, Dio,    \* tEEPROM_Data, tEEPROM_DIOCfgData
          Test,         \* tEEPROM_memoryTestData, which is no section
          Base, Size,   \* address and words of each of them
          CheckWord,    \* word of eepromCheck in Main
          Last,         \* last address of the EEPROM
          Boot,         \* main, before the kernel starts
          Workers, UsbTasks,
          SectionsOf,   \* SectionsOf[t]: what the commands of t set
          MaxSets,
          Erased, Zero, Default, Pattern, NoSection

Names == {Sections[i] : i \in 1..Len(Sections)}
Tasks == Workers \cup UsbTasks
Words(s) == 1..Size[s]
Address(s, w) == Base[s] + w - 1
AddressesOf(s) == {Address(s, w) : w \in Words(s)}

ASSUME LayoutAssumption ==
    /\ Sections \in Seq(Names) /\ Main \in Names /\ Dio \in Names /\ Test \notin Names
    /\ NoSection \notin Names \cup {Test} /\ Boot \notin Tasks
    /\ Base \in [Names \cup {Test} -> Nat] /\ Size \in [Names \cup {Test} -> Nat \ {0}]
    /\ CheckWord \in Words(Main) /\ MaxSets \in Nat
    /\ \A s \in Names \cup {Test} : AddressesOf(s) \subseteq 0..Last
    /\ \A s, u \in Names : s # u => AddressesOf(s) \cap AddressesOf(u) = {}
    /\ Address(Main, CheckWord) \notin AddressesOf(Test)
    /\ ({Default, Pattern} \cup 1..MaxSets) \cap {Erased, Zero} = {}
    /\ Workers \cap UsbTasks = {} /\ SectionsOf \in [Tasks -> SUBSET Names]

VARIABLES
    eeprom, ram,     \* the stored words, and g_sEEPROM...Data
    address,         \* EEBLOCK and EEOFFSET of the peripheral
    initOK,          \* g_ui32EEPROMInit = EEPROM_INIT_OK
    boot,            \* 0: INFO_init starts, i: programs Sections[i], then done
    prog, word,      \* per task: what it programs, and the next word of it
    sets,            \* commands so far (bounded)
    disturbed,       \* history, since the reset: other accesses to the EEPROM
    damaged          \* history: what may have left words that nobody set

vars == <<eeprom, ram, address, initOK, boot, prog, word, sets,
          disturbed, damaged>>

Done == Len(Sections) + 1
Valid(mem) == mem[Address(Main, CheckWord)] \notin {Erased, Zero}
AllZero == [s \in Names |-> [w \in Words(s) |-> Zero]]
-----------------------------------------------------------------------------
Init ==
    /\ eeprom = [a \in 0..Last |-> Erased]
    /\ ram = AllZero
    /\ address = 0 /\ initOK = FALSE /\ boot = 0
    /\ prog = [t \in Tasks \cup {Boot} |-> NoSection]
    /\ word = [t \in Tasks \cup {Boot} |-> 1]
    /\ sets = 0
    /\ disturbed = {} /\ damaged = {}

(* EEPROMProgram: it sets the address, then writes (WriteWord). *)
Program(t, s) ==
    /\ prog' = [prog EXCEPT ![t] = s]
    /\ word' = [word EXCEPT ![t] = 1]
    /\ address' = Base[s]

(* A task runs unless one of at least its priority is programming. *)
CanRun(t) == \A u \in Tasks \ {t} : prog[u] # NoSection => t \in UsbTasks /\ u \in Workers

(* The EEPROM does not come up: only the main section gets its defaults. *)
BootFails ==
    /\ boot = 0
    /\ initOK' = FALSE
    /\ ram' = [ram EXCEPT ![Main] = [w \in Words(Main) |-> Default]]
    /\ boot' = Done
    /\ UNCHANGED <<eeprom, address, prog, word, sets, disturbed, damaged>>

(* Every section is read; the defaults are needed when eepromCheck is wrong. *)
BootReads ==
    /\ boot = 0
    /\ initOK' = TRUE
    /\ ram' = [s \in Names |-> [w \in Words(s) |-> eeprom[Address(s, w)]]]
    /\ boot' = IF Valid(eeprom) THEN Done ELSE 1
    /\ UNCHANGED <<eeprom, address, prog, word, sets, disturbed, damaged>>

(* Mutant: the defaults of the main section are the only ones. *)
BootDefaultsMain ==
    /\ boot \in 1..Len(Sections) /\ prog[Boot] = NoSection
    /\ ram' = [ram EXCEPT ![Sections[boot]] =
                 [w \in Words(Sections[boot]) |-> IF boot = 1 THEN Default ELSE @[w]]]
    /\ Program(Boot, Sections[boot])
    /\ UNCHANGED <<eeprom, initOK, boot, sets, disturbed, damaged>>

BootDefaults ==
    /\ boot \in 1..Len(Sections) /\ prog[Boot] = NoSection
    /\ ram' = [ram EXCEPT ![Sections[boot]] = [w \in Words(Sections[boot]) |-> Default]]
    /\ Program(Boot, Sections[boot])
    /\ UNCHANGED <<eeprom, initOK, boot, sets, disturbed, damaged>>
-----------------------------------------------------------------------------
(* The words that a command sets: the client sends the section, but of the
   input/output section it changes one word of the copy in RAM (the copies
   that commands make of it are the subject of DIOConfiguration). *)
Changed(s) == IF s = Dio THEN {{w} : w \in Words(s)} ELSE {Words(s)}

(* Mutant: the section is programmed from its second word on. *)
SetFromSecond(t, s) ==
    /\ boot = Done /\ prog[t] = NoSection /\ CanRun(t) /\ sets < MaxSets
    /\ sets' = sets + 1
    /\ \E new \in Changed(s) :
         ram' = [ram EXCEPT ![s] = [w \in Words(s) |-> IF w \in new THEN sets' ELSE @[w]]]
    /\ prog' = [prog EXCEPT ![t] = s]
    /\ word' = [word EXCEPT ![t] = IF Size[s] > 1 THEN 2 ELSE 1]
    /\ address' = Base[s] + (word'[t] - 1)
    /\ UNCHANGED <<eeprom, initOK, boot, disturbed, damaged>>

(* INFO_set, vEEPDIOConfg_set, vEEPMACConfg_set, vEEPIpConfg_set and
   vEEPDebugConfg_set: the copy in RAM, then the EEPROM. *)
Set(t, s) ==
    /\ boot = Done /\ prog[t] = NoSection /\ CanRun(t) /\ sets < MaxSets
    /\ sets' = sets + 1
    /\ \E new \in Changed(s) :
         ram' = [ram EXCEPT ![s] = [w \in Words(s) |-> IF w \in new THEN sets' ELSE @[w]]]
    /\ Program(t, s)
    /\ disturbed' = IF \E u \in Tasks : prog[u] # NoSection
                    THEN disturbed \cup {"preempted"} ELSE disturbed
    /\ damaged' = IF initOK THEN damaged ELSE damaged \cup {"blind"}
    /\ UNCHANGED <<eeprom, initOK, boot>>

(* vTCPRCBin_ProductionTest_MemoryTestEEPROM. *)
MemoryTest(t) ==
    /\ boot = Done /\ prog[t] = NoSection /\ CanRun(t) /\ sets < MaxSets
    /\ sets' = sets + 1
    /\ Program(t, Test)
    /\ disturbed' = disturbed \cup {"tested"}
    /\ UNCHANGED <<eeprom, ram, initOK, boot, damaged>>

Datum(t) == IF prog[t] = Test THEN Pattern ELSE ram[prog[t]][word[t]]

(* One word of EEPROMProgram; the peripheral advances its address. *)
WriteWord(t) ==
    /\ prog[t] # NoSection /\ CanRun(t)
    /\ eeprom' = [eeprom EXCEPT ![address] = Datum(t)]
    /\ address' = address + 1
    /\ \/ /\ word[t] < Size[prog[t]]
          /\ word' = [word EXCEPT ![t] = @ + 1]
          /\ UNCHANGED <<prog, boot>>
       \/ /\ word[t] = Size[prog[t]]
          /\ word' = [word EXCEPT ![t] = 1]
          /\ prog' = [prog EXCEPT ![t] = NoSection]
          /\ boot' = IF t = Boot THEN boot + 1 ELSE boot
    /\ UNCHANGED <<ram, initOK, sets, disturbed, damaged>>

(* A reset at any moment, a reboot command included. *)
Crash ==
    /\ boot # 0
    /\ ram' = AllZero /\ initOK' = FALSE /\ boot' = 0
    /\ prog' = [t \in Tasks \cup {Boot} |-> NoSection]
    /\ word' = [t \in Tasks \cup {Boot} |-> 1]
    /\ disturbed' = {}
    /\ damaged' = IF boot \in 1..Len(Sections) /\ Valid(eeprom)
                  THEN damaged \cup {"cut"} ELSE damaged
    /\ UNCHANGED <<eeprom, address, sets>>
-----------------------------------------------------------------------------
Next == \/ BootFails \/ BootReads \/ BootDefaults \/ Crash
        \/ \E t \in Tasks \cup {Boot} : WriteWord(t)
        \/ \E t \in Tasks : \E s \in SectionsOf[t] : Set(t, s)
        \/ \E t \in Workers : MemoryTest(t)

Spec == Init /\ [][Next]_vars
-----------------------------------------------------------------------------
(* Has word w of section s been left to a programming that goes on? *)
Pending(s, w) == \E t \in Tasks : prog[t] = s /\ w >= word[t]

(* What a command has set is what the next start will read: the EEPROM
   agrees with RAM, but for the words that are being programmed. *)
Agrees == \A s \in Names : \A w \in Words(s) :
             ~Pending(s, w) => eeprom[Address(s, w)] = ram[s][w]

(* As long as no task preempted the programming of another, and no memory
   test ran, also when earlier resets have cut a programming. *)
StoredAsSet == boot = Done /\ initOK /\ disturbed = {} => Agrees

(* No task works with words that neither the defaults nor a command has set,
   unless a reset has cut the first programming after the check word, or a
   command came while the EEPROM was not available. *)
NothingUnset ==
    boot = Done /\ initOK /\ damaged = {} =>
        \A s \in Names : \A w \in Words(s) : ram[s][w] \notin {Erased, Zero}

(* A programming that has ended without an error has stored its words. *)
ProgramStores == boot = Done /\ initOK /\ "tested" \notin disturbed => Agrees
=============================================================================

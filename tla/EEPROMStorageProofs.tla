------------------------ MODULE EEPROMStorageProofs -------------------------
(* Proofs about EEPROMStorage, for every layout of the sections, every number of
   tasks and commands, and resets at any word.

   That the EEPROM agrees with RAM rests on the address register: the words of
   the one task that programs go where its section is (SoloInv), as long as no
   other task has moved the address.  The first start fills section after section
   (PhaseInv).  That no word is unset is a matter of what a reset may leave
   behind a valid check word (UnsetInv). *)
EXTENDS EEPROMStorage, TLAPS

All == Tasks \cup {Boot}
Programs(t) == prog[t] # NoSection
AtWord(t) == address = Address(prog[t], word[t])

TypeInv ==
    /\ DOMAIN eeprom = 0..Last /\ DOMAIN ram = Names
    /\ \A s \in Names : DOMAIN ram[s] = Words(s)
    /\ address \in Nat /\ initOK \in BOOLEAN /\ boot \in 0..Done /\ sets \in Nat
    /\ prog \in [All -> Names \cup {Test, NoSection}] /\ word \in [All -> Nat]
    /\ \A t \in All : Programs(t) => word[t] \in Words(prog[t])

Filled(s) == \A w \in Words(s) : ram[s][w] = Default /\ eeprom[Address(s, w)] = Default
PhaseInv ==
    /\ boot # Done => disturbed = {} /\ \A t \in Tasks : ~Programs(t)
    /\ boot \notin 1..Len(Sections) => ~Programs(Boot)
    /\ boot \in 1..Len(Sections) =>
         /\ initOK
         /\ \A j \in 1..(boot - 1) : Filled(Sections[j])
         /\ Programs(Boot) =>
              /\ prog[Boot] = Sections[boot] /\ AtWord(Boot)
              /\ \A w \in Words(prog[Boot]) :
                    /\ ram[prog[Boot]][w] = Default
                    /\ w < word[Boot] => eeprom[Address(prog[Boot], w)] = Default

SoloInv ==
    "preempted" \notin disturbed =>
        \A t \in Tasks : Programs(t) => AtWord(t) /\ \A u \in Tasks : Programs(u) => u = t

StoredInv ==
    disturbed = {} => /\ \A t \in Tasks : prog[t] # Test
                      /\ boot = Done /\ initOK => Agrees

IsSet(v) == v \notin {Erased, Zero}
AllStored == \A s \in Names : \A w \in Words(s) : IsSet(eeprom[Address(s, w)])
AllInRam  == \A s \in Names : \A w \in Words(s) : IsSet(ram[s][w])
UnsetInv ==
    damaged = {} =>
        /\ boot = Done /\ initOK => AllStored /\ AllInRam
        /\ boot = 0 \/ (boot = Done /\ ~initOK) => (Valid(eeprom) => AllStored)
        /\ boot = Done /\ ~initOK => /\ "preempted" \notin disturbed
                                     /\ \A t \in Tasks : prog[t] \in {NoSection, Test}

IInv == TypeInv /\ PhaseInv /\ SoloInv /\ StoredInv /\ UnsetInv
-----------------------------------------------------------------------------
(* The layout: words of sections have addresses of their own in the EEPROM. *)
LEMMA Layout ==
    ASSUME NEW s \in Names, NEW w \in Words(s)
    PROVE  /\ Address(s, w) \in 0..Last
           /\ \A u \in Names : \A v \in Words(u) : Address(s, w) = Address(u, v) => s = u /\ w = v
<1>1. Address(s, w) \in AddressesOf(s) /\ AddressesOf(s) \subseteq 0..Last
  BY LayoutAssumption DEF AddressesOf
<1>2. ASSUME NEW u \in Names, NEW v \in Words(u), Address(s, w) = Address(u, v)
      PROVE  s = u /\ w = v
  <2>1. Address(u, v) \in AddressesOf(u)
    BY DEF AddressesOf
  <2>2. s = u
    BY <1>1, <1>2, <2>1, LayoutAssumption
  <2>3. Base[s] \in Nat /\ w \in Nat /\ v \in Nat
    BY LayoutAssumption DEF Words
  <2> QED
    BY <1>2, <2>2, <2>3 DEF Address
<1> QED
  BY <1>1, <1>2

LEMMA Sizes ==
    /\ \A s \in Names \cup {Test} : Size[s] \in Nat \ {0} /\ Base[s] \in Nat
    /\ \A s \in Names \cup {Test} : 1 \in Words(s) /\ \A w \in Words(s) : w \in Nat /\ w >= 1
    /\ Len(Sections) \in Nat /\ Done = Len(Sections) + 1
    /\ \A j \in 1..Len(Sections) : Sections[j] \in Names
    /\ NoSection \notin Names \cup {Test} /\ Test \notin Names /\ Boot \notin Tasks
<1>1. \A s \in Names \cup {Test} : Size[s] \in Nat \ {0} /\ Base[s] \in Nat
  BY LayoutAssumption
<1>2. \A s \in Names \cup {Test} : 1 \in Words(s) /\ \A w \in Words(s) : w \in Nat /\ w >= 1
  BY <1>1 DEF Words
<1>3. Len(Sections) \in Nat
  BY LayoutAssumption
<1> QED
  BY <1>1, <1>2, <1>3, LayoutAssumption DEF Done, Names

LEMMA CheckAddress ==
    Main \in Names /\ CheckWord \in Words(Main) /\ Address(Main, CheckWord) \in 0..Last
BY Layout, LayoutAssumption

LEMMA InitInv == Init => IInv
<1> SUFFICES ASSUME Init PROVE IInv
  OBVIOUS
<1>1. TypeInv
  <2>1. DOMAIN eeprom = 0..Last
    BY DEF Init
  <2>2. DOMAIN ram = Names /\ \A s \in Names : DOMAIN ram[s] = Words(s)
    BY DEF Init, AllZero
  <2>3. /\ prog = [t \in All |-> NoSection] /\ word = [t \in All |-> 1]
        /\ address = 0 /\ initOK = FALSE /\ boot = 0 /\ sets = 0
    BY DEF Init, All
  <2>4. prog \in [All -> Names \cup {Test, NoSection}] /\ word \in [All -> Nat]
    BY <2>3
  <2>5. boot \in 0..Done
    BY <2>3, Sizes
  <2> QED
    BY <2>1, <2>2, <2>3, <2>4, <2>5 DEF TypeInv, Programs
<1>2. ~Valid(eeprom)
  BY CheckAddress DEF Init, Valid
<1>3. \A t \in All : ~Programs(t)
  BY DEF Init, Programs, All
<1> QED
  BY <1>1, <1>2, <1>3, Sizes DEF Init, IInv, PhaseInv, SoloInv, StoredInv, UnsetInv, All, Programs
-----------------------------------------------------------------------------
LEMMA KeepsCrash == IInv /\ Crash => IInv'
<1> SUFFICES ASSUME IInv, Crash PROVE IInv'
  OBVIOUS
<1>1. /\ boot # 0 /\ boot' = 0 /\ eeprom' = eeprom /\ disturbed' = {} /\ initOK' = FALSE
      /\ damaged' = IF boot \in 1..Len(Sections) /\ Valid(eeprom) THEN damaged \cup {"cut"} ELSE damaged
  BY DEF Crash
<1>2. \A t \in All : ~Programs(t)'
  BY DEF Crash, Programs, All
<1>3. TypeInv'
  <2>1. DOMAIN ram' = Names /\ \A s \in Names : DOMAIN ram'[s] = Words(s)
    BY DEF Crash, AllZero
  <2>2. /\ prog' = [t \in All |-> NoSection] /\ word' = [t \in All |-> 1]
        /\ address' = address /\ sets' = sets
    BY DEF Crash, All
  <2>3. prog' \in [All -> Names \cup {Test, NoSection}] /\ word' \in [All -> Nat]
    BY <2>2
  <2>4. boot' \in 0..Done
    BY <1>1, Sizes
  <2> QED
    BY <1>1, <1>2, <2>1, <2>2, <2>3, <2>4 DEF IInv, TypeInv
<1>4. UnsetInv'
  <2> SUFFICES ASSUME damaged' = {}, Valid(eeprom) PROVE AllStored
    BY <1>1, Sizes DEF UnsetInv, AllStored
  <2>1. damaged = {} /\ boot \notin 1..Len(Sections)
    BY <1>1
  <2>2. boot = Done
    BY <1>1, <2>1, Sizes DEF IInv, TypeInv
  <2> QED
    BY <2>1, <2>2 DEF IInv, UnsetInv
<1>5. PhaseInv'
  BY <1>1, <1>2, Sizes DEF PhaseInv, All
<1>6. SoloInv'
  BY <1>2 DEF SoloInv, All
<1>7. StoredInv'
  BY <1>1, <1>2, Sizes DEF StoredInv, All, Programs
<1> QED
  BY <1>3, <1>4, <1>5, <1>6, <1>7 DEF IInv

LEMMA KeepsBoot == IInv /\ (BootFails \/ BootReads) => IInv'
<1> SUFFICES ASSUME IInv, BootFails \/ BootReads PROVE IInv'
  OBVIOUS
<1>1. /\ boot = 0 /\ UNCHANGED <<eeprom, address, prog, word, sets, disturbed, damaged>>
      /\ initOK' \in BOOLEAN /\ boot' \in {1, Done}
  BY DEF BootFails, BootReads
<1>2. disturbed = {} /\ \A t \in All : ~Programs(t)
  BY <1>1, Sizes DEF IInv, PhaseInv, All
<1>3. \A t \in All : ~Programs(t)'
  BY <1>1, <1>2 DEF Programs
<1>4. TypeInv'
  <2>1. DOMAIN ram' = Names /\ \A s \in Names : DOMAIN ram'[s] = Words(s)
    BY LayoutAssumption DEF BootFails, BootReads, IInv, TypeInv
  <2> QED
    BY <1>1, <1>3, <2>1, Sizes DEF IInv, TypeInv
<1>5. SoloInv'
  BY <1>3 DEF SoloInv, All
<1>6. CASE BootFails
  <2>1. initOK' = FALSE /\ boot' = Done
    BY <1>6 DEF BootFails
  <2>2. PhaseInv'
    BY <1>1, <1>2, <1>3, <2>1, Sizes DEF PhaseInv, All
  <2>3. StoredInv'
    BY <1>3, <2>1, Sizes DEF StoredInv, All, Programs
  <2>4. UnsetInv'
    BY <1>1, <1>2, <1>3, <2>1 DEF IInv, UnsetInv, AllStored, All, Programs
  <2> QED
    BY <1>4, <1>5, <2>2, <2>3, <2>4 DEF IInv
<1>7. CASE BootReads
  <2>1. /\ initOK' = TRUE /\ boot' = IF Valid(eeprom) THEN Done ELSE 1
        /\ \A s \in Names : \A w \in Words(s) : ram'[s][w] = eeprom[Address(s, w)]
    BY <1>7 DEF BootReads
  <2>2. PhaseInv'
    BY <1>1, <1>2, <1>3, <2>1, Sizes DEF PhaseInv, All
  <2>3. StoredInv'
    BY <1>1, <1>3, <2>1, Sizes DEF StoredInv, Agrees, All, Programs
  <2>4. UnsetInv'
    <3>1. CASE Valid(eeprom)
      BY <1>1, <2>1, <3>1, Sizes DEF IInv, UnsetInv, AllStored, AllInRam
    <3>2. CASE ~Valid(eeprom)
      BY <2>1, <3>2, Sizes, LayoutAssumption DEF UnsetInv, Names
    <3> QED
      BY <3>1, <3>2
  <2> QED
    BY <1>4, <1>5, <2>2, <2>3, <2>4 DEF IInv
<1> QED
  BY <1>6, <1>7
-----------------------------------------------------------------------------
(* The start of a programming: its task is at its first word. *)
LEMMA Starts ==
    ASSUME TypeInv, NEW t \in All, NEW s \in Names \cup {Test}, Program(t, s)
    PROVE  /\ prog' \in [All -> Names \cup {Test, NoSection}] /\ word' \in [All -> Nat]
           /\ prog'[t] = s /\ word'[t] = 1 /\ address' = Address(s, 1) /\ address' \in Nat
           /\ \A u \in All \ {t} : prog'[u] = prog[u] /\ word'[u] = word[u]
           /\ \A u \in All : Programs(u)' => word'[u] \in Words(prog'[u])
<1>1. Base[s] \in Nat /\ 1 \in Words(s)
  BY Sizes
<1> QED
  BY <1>1 DEF Program, TypeInv, Address, Programs

LEMMA KeepsDefaults == IInv /\ BootDefaults => IInv'
<1> SUFFICES ASSUME IInv, BootDefaults PROVE IInv'
  OBVIOUS
<1> DEFINE s == Sections[boot]
<1>1. /\ boot \in 1..Len(Sections) /\ prog[Boot] = NoSection /\ Program(Boot, s)
      /\ ram' = [ram EXCEPT ![s] = [w \in Words(s) |-> Default]]
      /\ UNCHANGED <<eeprom, initOK, boot, sets, disturbed, damaged>>
  BY DEF BootDefaults
<1>2. s \in Names /\ boot # Done /\ boot # 0 /\ Boot \in All
  BY <1>1, Sizes DEF All
<1>3. /\ \A u \in Tasks : prog'[u] = prog[u] /\ ~Programs(u)
      /\ prog'[Boot] = s /\ word'[Boot] = 1 /\ address' = Address(s, 1)
  BY <1>1, <1>2, Starts, Sizes DEF IInv, PhaseInv, All
<1>4. TypeInv'
  BY <1>1, <1>2, Starts DEF IInv, TypeInv
<1>5. /\ \A w \in Words(s) : ram'[s][w] = Default
      /\ \A u \in Names : u # s => ram'[u] = ram[u]
  BY <1>1, <1>2 DEF IInv, TypeInv
<1>6. PhaseInv'
  <2>1. \A j \in 1..(boot - 1) : Filled(Sections[j])'
    <3> SUFFICES ASSUME NEW j \in 1..(boot - 1) PROVE Filled(Sections[j])'
      OBVIOUS
    <3>1. Sections[j] \in Names /\ Filled(Sections[j])
      BY <1>1, Sizes DEF IInv, PhaseInv
    <3> QED
      BY <1>1, <1>2, <1>5, <3>1 DEF Filled
  <2>2. \A w \in Words(s) : w \in Nat /\ w >= 1
    BY <1>2, Sizes
  <2> QED
    BY <1>1, <1>2, <1>3, <1>5, <2>1, <2>2 DEF IInv, PhaseInv, Programs, AtWord
<1> QED
  BY <1>1, <1>2, <1>3, <1>4, <1>6, Sizes DEF IInv, SoloInv, StoredInv, UnsetInv, Programs

(* A task that may run while another programs is a USB task. *)
LEMMA KeepsSet ==
    ASSUME IInv, NEW t \in Tasks, NEW s \in SectionsOf[t], Set(t, s)
    PROVE  IInv'
<1>1. /\ boot = Done /\ prog[t] = NoSection /\ Program(t, s) /\ sets' = sets + 1 /\ sets < MaxSets
      /\ disturbed' = IF \E u \in Tasks : prog[u] # NoSection
                      THEN disturbed \cup {"preempted"} ELSE disturbed
      /\ damaged' = IF initOK THEN damaged ELSE damaged \cup {"blind"}
      /\ UNCHANGED <<eeprom, initOK, boot>>
  BY DEF Set
<1>2. PICK new \in Changed(s) :
        ram' = [ram EXCEPT ![s] = [w \in Words(s) |-> IF w \in new THEN sets' ELSE @[w]]]
  BY DEF Set
<1>3. s \in Names /\ t \in All /\ t # Boot
  BY Sizes, LayoutAssumption DEF All
<1>4. /\ prog'[t] = s /\ word'[t] = 1 /\ address' = Address(s, 1)
      /\ \A u \in All \ {t} : prog'[u] = prog[u] /\ word'[u] = word[u]
  BY <1>1, <1>3, Starts DEF IInv
<1>5. /\ \A w \in Words(s) : ram'[s][w] \in {sets', ram[s][w]}
      /\ \A u \in Names : u # s => ram'[u] = ram[u]
      /\ DOMAIN ram' = Names /\ \A u \in Names : DOMAIN ram'[u] = Words(u)
  BY <1>2, <1>3 DEF IInv, TypeInv
<1>6. TypeInv'
  BY <1>1, <1>3, <1>5, Starts DEF IInv, TypeInv
<1>7. PhaseInv'
  BY <1>1, <1>3, <1>4, Sizes DEF IInv, PhaseInv, Programs, All
<1>8. ASSUME "preempted" \notin disturbed' PROVE \A u \in Tasks : prog[u] = NoSection
  BY <1>1, <1>8
<1>9. SoloInv'
  BY <1>3, <1>4, <1>8 DEF SoloInv, Programs, AtWord, All
<1>10. StoredInv'
  <2> SUFFICES ASSUME disturbed' = {} PROVE StoredInv'
    BY DEF StoredInv
  <2>1. disturbed = {} /\ \A u \in Tasks : prog[u] = NoSection
    BY <1>1
  <2>2. \A u \in Tasks : prog'[u] # Test
    BY <1>3, <1>4, <2>1, Sizes DEF All
  <2>3. ASSUME initOK', NEW u \in Names, NEW w \in Words(u), ~Pending(u, w)'
        PROVE  eeprom'[Address(u, w)] = ram'[u][w]
    <3>1. Agrees /\ ~Pending(u, w)
      BY <1>1, <2>1, <2>3, Sizes DEF IInv, StoredInv, Pending
    <3>2. u # s
      <4>1. w >= word'[t]
        BY <1>4, <2>3, Sizes
      <4> QED
        BY <1>4, <2>3, <4>1 DEF Pending
    <3> QED
      BY <1>1, <1>5, <3>1, <3>2 DEF Agrees
  <2> QED
    BY <2>2, <2>3 DEF StoredInv, Agrees
<1>11. UnsetInv'
  <2> SUFFICES ASSUME damaged' = {} PROVE UnsetInv'
    BY DEF UnsetInv
  <2>1. damaged = {} /\ initOK
    BY <1>1
  <2>2. AllStored /\ AllInRam
    BY <1>1, <2>1 DEF IInv, UnsetInv
  <2>3. sets' \in 1..MaxSets /\ IsSet(sets')
    <3>1. sets \in Nat /\ MaxSets \in Nat
      BY LayoutAssumption DEF IInv, TypeInv
    <3>2. sets' \in 1..MaxSets
      BY <1>1, <3>1
    <3> QED
      BY <3>2, LayoutAssumption DEF IsSet
  <2>4. AllStored' /\ AllInRam'
    BY <1>1, <1>3, <1>5, <2>2, <2>3 DEF AllStored, AllInRam, IsSet
  <2> QED
    BY <1>1, <2>1, <2>4, Sizes DEF UnsetInv
<1> QED
  BY <1>6, <1>7, <1>9, <1>10, <1>11 DEF IInv

LEMMA KeepsMemoryTest ==
    ASSUME IInv, NEW t \in Workers, MemoryTest(t)
    PROVE  IInv'
<1>1. /\ boot = Done /\ prog[t] = NoSection /\ Program(t, Test) /\ sets' = sets + 1 /\ CanRun(t)
      /\ disturbed' = disturbed \cup {"tested"} /\ UNCHANGED <<eeprom, ram, initOK, boot, damaged>>
  BY DEF MemoryTest
<1>2. t \in Tasks /\ t \in All /\ t # Boot /\ t \notin UsbTasks
  BY Sizes, LayoutAssumption DEF All, Tasks
<1>3. /\ prog'[t] = Test /\ word'[t] = 1 /\ address' = Address(Test, 1)
      /\ \A u \in All \ {t} : prog'[u] = prog[u] /\ word'[u] = word[u]
  BY <1>1, <1>2, Starts DEF IInv
<1>4. \A u \in Tasks : prog[u] = NoSection
  BY <1>1, <1>2 DEF CanRun
<1>5. TypeInv'
  BY <1>1, <1>2, Starts DEF IInv, TypeInv
<1>6. PhaseInv'
  BY <1>1, <1>2, <1>3, Sizes DEF IInv, PhaseInv, Programs, All
<1>7. SoloInv'
  BY <1>2, <1>3, <1>4 DEF SoloInv, Programs, AtWord, All
<1>8. StoredInv'
  BY <1>1 DEF StoredInv
<1>9. UnsetInv'
  BY <1>1, <1>3, <1>4 DEF IInv, UnsetInv, AllStored, AllInRam, All
<1> QED
  BY <1>5, <1>6, <1>7, <1>8, <1>9 DEF IInv
-----------------------------------------------------------------------------
(* A word of a programming: where the task is afterwards. *)
LEMMA Writes ==
    ASSUME TypeInv, NEW t \in All, WriteWord(t)
    PROVE  /\ Programs(t) /\ prog[t] \in Names \cup {Test} /\ word[t] \in Words(prog[t])
           /\ eeprom' = [eeprom EXCEPT ![address] = Datum(t)] /\ address' = address + 1
           /\ UNCHANGED <<ram, initOK, sets, disturbed, damaged>>
           /\ \A u \in All \ {t} : prog'[u] = prog[u] /\ word'[u] = word[u]
           /\ \/ /\ word[t] < Size[prog[t]] /\ word'[t] = word[t] + 1 /\ prog'[t] = prog[t]
                 /\ boot' = boot
              \/ /\ word[t] = Size[prog[t]] /\ prog'[t] = NoSection
                 /\ boot' = IF t = Boot THEN boot + 1 ELSE boot
           /\ DOMAIN eeprom' = 0..Last /\ address' \in Nat
           /\ prog' \in [All -> Names \cup {Test, NoSection}] /\ word' \in [All -> Nat]
           /\ \A u \in All : Programs(u)' => word'[u] \in Words(prog'[u])
<1>1. /\ prog[t] # NoSection /\ prog[t] \in Names \cup {Test} /\ word[t] \in Words(prog[t])
      /\ eeprom' = [eeprom EXCEPT ![address] = Datum(t)] /\ address' = address + 1
      /\ UNCHANGED <<ram, initOK, sets, disturbed, damaged>>
  BY DEF WriteWord, TypeInv, Programs
<1>2. Size[prog[t]] \in Nat /\ word[t] \in Nat /\ word[t] >= 1 /\ address \in Nat
  BY <1>1, Sizes DEF TypeInv
<1>3. CASE word[t] < Size[prog[t]] /\ word' = [word EXCEPT ![t] = @ + 1] /\ UNCHANGED <<prog, boot>>
  <2>1. word'[t] \in Words(prog[t]) /\ word' \in [All -> Nat]
    BY <1>2, <1>3 DEF Words, TypeInv
  <2> QED
    BY <1>1, <1>2, <1>3, <2>1 DEF TypeInv, Programs
<1>4. CASE /\ word[t] = Size[prog[t]] /\ word' = [word EXCEPT ![t] = 1]
           /\ prog' = [prog EXCEPT ![t] = NoSection] /\ boot' = IF t = Boot THEN boot + 1 ELSE boot
  BY <1>1, <1>2, <1>4 DEF TypeInv, Programs
<1> QED
  BY <1>3, <1>4 DEF WriteWord

LEMMA KeepsWriteBoot == IInv /\ WriteWord(Boot) => IInv'
<1> SUFFICES ASSUME IInv, WriteWord(Boot) PROVE IInv'
  OBVIOUS
<1> PICK s, w0 : s = prog[Boot] /\ w0 = word[Boot]
  OBVIOUS
<1>1. Boot \in All
  BY DEF All
<1>2. /\ Programs(Boot) /\ w0 \in Words(s)
      /\ eeprom' = [eeprom EXCEPT ![address] = Datum(Boot)] /\ address' = address + 1
      /\ UNCHANGED <<ram, initOK, sets, disturbed, damaged>>
      /\ \A u \in Tasks : prog'[u] = prog[u] /\ word'[u] = word[u]
  BY <1>1, Writes, Sizes DEF IInv, All
<1>3. /\ boot \in 1..Len(Sections) /\ initOK /\ s = Sections[boot] /\ s \in Names
      /\ AtWord(Boot) /\ disturbed = {} /\ \A t \in Tasks : ~Programs(t)
  BY <1>2, Sizes DEF IInv, PhaseInv
<1>4. /\ \A w \in Words(s) : ram[s][w] = Default /\ (w < w0 => eeprom[Address(s, w)] = Default)
      /\ \A j \in 1..(boot - 1) : Filled(Sections[j])
  BY <1>2, <1>3 DEF IInv, PhaseInv
<1>5. Datum(Boot) = Default
  BY <1>2, <1>3, <1>4, Sizes DEF Datum
<1>6. DOMAIN eeprom = 0..Last /\ address = Address(s, w0) /\ address \in 0..Last
  BY <1>2, <1>3, Layout DEF IInv, TypeInv, AtWord
<1>7. /\ eeprom'[Address(s, w0)] = Default
      /\ \A a \in 0..Last : eeprom[a] = Default => eeprom'[a] = Default
  BY <1>2, <1>5, <1>6
<1>8. \A j \in 1..(boot - 1) : Filled(Sections[j])'
  <2> SUFFICES ASSUME NEW j \in 1..(boot - 1) PROVE Filled(Sections[j])'
    OBVIOUS
  <2>1. Sections[j] \in Names /\ Filled(Sections[j])
    BY <1>3, <1>4, Sizes
  <2> QED
    BY <1>2, <1>7, <2>1, Layout DEF Filled
<1>9. \A w \in Words(s) : w < w0 + 1 => eeprom'[Address(s, w)] = Default
  <2>1. \A w \in Words(s) : w < w0 + 1 => w < w0 \/ w = w0
    BY <1>2, <1>3, Sizes
  <2> QED
    BY <1>3, <1>4, <1>7, <2>1, Layout
<1>10. boot' \in 0..Done /\ boot' # 0
  <2>1. boot' = boot \/ boot' = boot + 1
    BY <1>1, Writes DEF IInv
  <2> QED
    BY <1>3, <2>1, Sizes
<1>11. TypeInv'
  BY <1>1, <1>2, <1>10, Writes DEF IInv, TypeInv
<1>12. \A t \in Tasks : ~Programs(t)' /\ prog'[t] # Test
  BY <1>2, <1>3, Sizes DEF Programs
<1>13. SoloInv'
  BY <1>12 DEF SoloInv
<1>14. CASE w0 < Size[s] /\ word'[Boot] = w0 + 1 /\ prog'[Boot] = s /\ boot' = boot
  <2>1. AtWord(Boot)'
    <3>1. w0 \in Nat /\ Base[s] \in Nat
      BY <1>2, <1>3, Sizes
    <3> QED
      BY <1>2, <1>6, <1>14, <3>1 DEF AtWord, Address
  <2>2. PhaseInv'
    BY <1>2, <1>3, <1>4, <1>8, <1>9, <1>12, <1>14, <2>1 DEF PhaseInv
  <2>3. StoredInv' /\ UnsetInv'
    BY <1>3, <1>12, <1>14, Sizes DEF StoredInv, UnsetInv
  <2> QED
    BY <1>11, <1>13, <2>2, <2>3 DEF IInv
<1>15. CASE w0 = Size[s] /\ prog'[Boot] = NoSection /\ boot' = boot + 1
  <2>1. Filled(s)'
    <3>1. \A w \in Words(s) : w < w0 + 1
      BY <1>3, <1>15, Sizes DEF Words
    <3> QED
      BY <1>2, <1>4, <1>9, <3>1 DEF Filled
  <2>2. \A j \in 1..(boot' - 1) : Filled(Sections[j])'
    <3>1. \A j \in 1..(boot' - 1) : j \in 1..(boot - 1) \/ j = boot
      BY <1>3, <1>15
    <3> QED
      BY <1>3, <1>8, <2>1, <3>1
  <2>3. PhaseInv'
    BY <1>2, <1>3, <1>12, <1>15, <2>2 DEF PhaseInv, Programs
  <2>4. ASSUME boot' = Done, NEW u \in Names PROVE Filled(u)'
    BY <1>3, <1>15, <2>2, <2>4, Sizes DEF Names
  <2>5. StoredInv'
    BY <1>12, <2>4 DEF StoredInv, Agrees, Filled
  <2>6. IsSet(Default)
    BY LayoutAssumption DEF IsSet
  <2>7. UnsetInv'
    BY <1>2, <1>3, <1>10, <2>4, <2>6 DEF UnsetInv, AllStored, AllInRam, Filled
  <2> QED
    BY <1>11, <1>13, <2>3, <2>5, <2>7 DEF IInv
<1> QED
  BY <1>1, <1>14, <1>15, Writes DEF IInv

LEMMA KeepsWriteWord ==
    ASSUME IInv, NEW t \in Tasks, WriteWord(t)
    PROVE  IInv'
<1> DEFINE s == prog[t]
           w0 == word[t]
<1>1. t \in All /\ t # Boot /\ Boot \in All
  BY Sizes DEF All
<1>2. /\ Programs(t) /\ s \in Names \cup {Test} /\ w0 \in Words(s)
      /\ eeprom' = [eeprom EXCEPT ![address] = Datum(t)] /\ address' = address + 1
      /\ UNCHANGED <<ram, initOK, sets, disturbed, damaged, boot>>
      /\ \A u \in All \ {t} : prog'[u] = prog[u] /\ word'[u] = word[u]
      /\ \/ w0 < Size[s] /\ word'[t] = w0 + 1 /\ prog'[t] = s
         \/ w0 = Size[s] /\ prog'[t] = NoSection
  BY <1>1, Writes DEF IInv
<1>3. boot = Done /\ ~Programs(Boot)
  BY <1>2, Sizes DEF IInv, PhaseInv
<1>4. TypeInv'
  BY <1>1, <1>2, Writes DEF IInv, TypeInv
<1>5. PhaseInv'
  BY <1>1, <1>2, <1>3, Sizes DEF PhaseInv, Programs
<1>6. Base[s] \in Nat /\ Size[s] \in Nat /\ w0 \in Nat /\ w0 >= 1 /\ DOMAIN eeprom = 0..Last
  BY <1>2, Sizes DEF IInv, TypeInv
<1>7. SoloInv'
  <2> SUFFICES ASSUME "preempted" \notin disturbed PROVE SoloInv'
    BY <1>2 DEF SoloInv
  <2>1. AtWord(t) /\ \A u \in Tasks : Programs(u) => u = t
    BY <1>2 DEF IInv, SoloInv
  <2>2. \A u \in Tasks : Programs(u)' => u = t
    BY <1>1, <1>2, <2>1 DEF Programs, All
  <2>3. Programs(t)' => AtWord(t)'
    BY <1>2, <1>6, <2>1 DEF Programs, AtWord, Address
  <2> QED
    BY <2>2, <2>3 DEF SoloInv
<1>8. StoredInv'
  <2> SUFFICES ASSUME disturbed = {}, \A u \in Tasks : prog[u] # Test PROVE StoredInv'
    BY <1>2 DEF IInv, StoredInv
  <2>1. AtWord(t) /\ \A u \in Tasks : Programs(u) => u = t
    BY <1>2 DEF IInv, SoloInv
  <2>2. s \in Names /\ Datum(t) = ram[s][w0] /\ address = Address(s, w0)
    BY <1>2, <2>1 DEF Datum, AtWord
  <2>3. \A u \in Tasks : prog'[u] # Test
    BY <1>1, <1>2, Sizes DEF All
  <2>4. ASSUME initOK, NEW u \in Names, NEW w \in Words(u), ~Pending(u, w)'
        PROVE  eeprom'[Address(u, w)] = ram[u][w]
    <3>1. Agrees /\ Address(u, w) \in 0..Last
      BY <1>3, <2>4, Layout DEF IInv, StoredInv
    <3>2. CASE u = s /\ w = w0
      BY <1>2, <1>6, <2>2, <3>1, <3>2
    <3>3. CASE ~(u = s /\ w = w0)
      <4>1. Address(u, w) # address
        BY <1>2, <2>2, <3>3, Layout
      <4>2. ~Pending(u, w)
        <5> SUFFICES ASSUME Pending(u, w) PROVE FALSE
          OBVIOUS
        <5>1. PICK x \in Tasks : prog[x] = u /\ w >= word[x]
          BY DEF Pending
        <5>2. x = t
          BY <2>1, <5>1, Sizes DEF Programs
        <5>3. w \in Nat /\ w <= Size[u] /\ w > w0
          BY <1>6, <3>3, <5>1, <5>2 DEF Words
        <5>4. prog'[t] = u /\ w >= word'[t]
          BY <1>2, <1>6, <5>1, <5>2, <5>3
        <5> QED
          BY <2>4, <5>4 DEF Pending
      <4> QED
        BY <1>2, <1>6, <3>1, <4>1, <4>2 DEF Agrees
    <3> QED
      BY <3>2, <3>3
  <2> QED
    BY <1>2, <2>3, <2>4 DEF StoredInv, Agrees
<1>9. UnsetInv'
  <2> SUFFICES ASSUME damaged = {} PROVE UnsetInv'
    BY <1>2 DEF UnsetInv
  <2>1. CASE initOK
    <3>1. AllStored /\ AllInRam
      BY <1>3, <2>1 DEF IInv, UnsetInv
    <3>2. IsSet(Datum(t))
      BY <1>2, <3>1, LayoutAssumption DEF Datum, AllInRam, IsSet
    <3>3. AllStored'
      BY <1>2, <1>6, <3>1, <3>2, Layout DEF AllStored, IsSet
    <3> QED
      BY <1>2, <1>3, <2>1, <3>1, <3>3, Sizes DEF UnsetInv, AllInRam
  <2>2. CASE ~initOK
    <3>1. /\ "preempted" \notin disturbed /\ \A u \in Tasks : prog[u] \in {NoSection, Test}
          /\ Valid(eeprom) => AllStored
      BY <1>3, <2>2 DEF IInv, UnsetInv
    <3>2. s = Test /\ AtWord(t)
      BY <1>2, <3>1 DEF IInv, SoloInv, Programs
    <3>3. address \in AddressesOf(Test)
      BY <1>2, <3>2 DEF AtWord, AddressesOf
    <3>4. Valid(eeprom') <=> Valid(eeprom)
      BY <1>2, <1>6, <3>3, CheckAddress, LayoutAssumption DEF Valid
    <3>5. IsSet(Datum(t))
      BY <3>2, LayoutAssumption DEF Datum, IsSet
    <3>6. AllStored => AllStored'
      BY <1>2, <1>6, <3>5, Layout DEF AllStored, IsSet
    <3>7. \A u \in Tasks : prog'[u] \in {NoSection, Test}
      BY <1>1, <1>2, <3>1 DEF All
    <3> QED
      BY <1>2, <1>3, <2>2, <3>1, <3>4, <3>6, <3>7, Sizes DEF UnsetInv
  <2> QED
    BY <2>1, <2>2
<1> QED
  BY <1>4, <1>5, <1>7, <1>8, <1>9 DEF IInv

LEMMA InvNext == IInv /\ [Next]_vars => IInv'
<1> SUFFICES ASSUME IInv, [Next]_vars PROVE IInv'
  OBVIOUS
<1>1. CASE UNCHANGED vars
  BY <1>1 DEF vars, IInv, TypeInv, PhaseInv, SoloInv, StoredInv, UnsetInv, Programs, AtWord, Filled,
              Agrees, Pending, AllStored, AllInRam
<1> QED
  BY <1>1, KeepsCrash, KeepsBoot, KeepsDefaults, KeepsSet, KeepsMemoryTest, KeepsWriteBoot,
     KeepsWriteWord DEF Next
-----------------------------------------------------------------------------
(* What commands have set is what the next start reads, for every layout and any
   number of tasks, as long as no task preempted a programming and no memory
   test ran since the last reset. *)
THEOREM Stored == Spec => []StoredAsSet
<1>1. IInv => StoredAsSet
  BY DEF IInv, StoredInv, StoredAsSet
<1> QED
  BY <1>1, InitInv, InvNext, PTL DEF Spec

(* No task works with a word that was never set, wherever resets cut the
   programmings after the first start. *)
THEOREM Complete == Spec => []NothingUnset
<1>1. IInv => NothingUnset
  BY DEF IInv, UnsetInv, AllInRam, IsSet, NothingUnset
<1> QED
  BY <1>1, InitInv, InvNext, PTL DEF Spec
=============================================================================

-------------------------- MODULE DIOConfiguration --------------------------
(***************************************************************************)
(* The configuration of the input/output pins, as the commands of          *)
(* TCPBinaryCMD_DiscreteIO.c change it and vDiscreteIO_init makes it: in   *)
(* the port and its tables, in the section in RAM that goes to the EEPROM, *)
(* and in the private copy of each command.                                *)
(*                                                                         *)
(* A command copies the whole section, changes its items and writes the    *)
(* section back.  Workers have one priority, so a command is interleaved   *)
(* with others only where it blocks: vTCPRCBin_DiscreteIO_setDIODirection  *)
(* sends its response between the copy and the write.  The EEPROM is as    *)
(* the RAM (EEPROMStorage).                                                *)
(*                                                                         *)
(* Used and saved are not the same.  The tables have delays in ticks.  A   *)
(* start takes from a saved pinConfig the direction only, makes one of two *)
(* fixed configurations of it, and closes the bypasses whatever is saved.  *)
(* DOBCtr is saved and nothing reads it: it is left out.  An item "in" is  *)
(* a pin's DIModeSel, DIDebounceEn and delays, an item "out" its           *)
(* DOModeSel, DOInv, DOBlinkEnSel, DOA and DOB.                            *)
(*                                                                         *)
(* Its names are not those of DiscreteOutputs, so that one module can      *)
(* extend both.                                                            *)
(***************************************************************************)
CONSTANTS Workers, Pins,
          InputConfigs,    \* values of pinConfig with GPIO_CFG_INPUT
          OutputConfigs,   \* and without
          StdIn,           \* GPIO_CFG_IN_PU | GPIO_CFG_IN_INT_BOTH_EDGES
          StdOut,          \* GPIO_CFG_OUT_OD_PU | GPIO_CFG_OUT_STR_LOW | GPIO_CFG_OUT_LOW
          Settings,        \* of an input or an output, and doSyncCtrMax
          InTicks,         \* what the tables have of each of Settings
          Defaults,        \* the section of a first start
          Commands         \* what clients may send

SyncMax == <<"all", "sync">>
Items == (Pins \X {"pinConfig", "in", "inBypass", "out", "outBypass"}) \cup {SyncMax}
Timed == {"in", "out", "sync"}
Bypasses == {"inBypass", "outBypass"}

Allowed(i) == IF i[2] = "pinConfig" THEN InputConfigs \cup OutputConfigs
              ELSE IF i[2] \in Bypasses THEN BOOLEAN ELSE Settings
IsSection(s) == DOMAIN s = Items /\ \A i \in Items : s[i] \in Allowed(i)

ASSUME PinsAssumption ==
    /\ StdIn \in InputConfigs /\ StdOut \in OutputConfigs
    /\ IsSection(Defaults)
    /\ \A c \in Commands :
         /\ c.pin \in Pins
         /\ c.kind \in {"direction", "input", "output"}
         /\ c.kind # "direction" => c.bypass \in BOOLEAN /\ c.settings \in Settings
         /\ c.kind = "output" => c.sync \in Settings

VARIABLES
    port,        \* what GPIO_setConfig, DITbl, DOTbl and DOSyncCtrMax have of each item
    saved,       \* g_sEEPROMDIOCfgData
    copy,        \* of each worker that is in send: its command and its section
    commanded,   \* history: items that a command has set since the start
    overlapped   \* history: items whose last command overlapped with another

pinsVars == <<port, saved, copy, commanded, overlapped>>
-----------------------------------------------------------------------------
Sending == DOMAIN copy
Standard(config) == IF config \in InputConfigs THEN StdIn ELSE StdOut

(* The items a command sets.  A direction that is neither sets none. *)
Touched(c) ==
    CASE c.kind = "direction" ->
           {i \in Items : i = <<c.pin, "pinConfig">> /\ c.config \in InputConfigs \cup OutputConfigs}
      [] c.kind = "input"  -> {c.pin} \X {"pinConfig", "in", "inBypass"}
      [] c.kind = "output" -> ({c.pin} \X {"pinConfig", "out", "outBypass"}) \cup {SyncMax}

(* What it saves of them, and what the calls for the port make of that. *)
Config(c) == IF c.kind = "direction" THEN Standard(c.config) ELSE c.config
Value(c, i) == CASE i[2] = "pinConfig" -> Config(c)
                 [] i[2] \in Bypasses  -> c.bypass
                 [] i[2] = "sync"      -> c.sync
                 [] OTHER              -> c.settings
InUse(i, v) == IF i[2] \in Timed THEN InTicks[v] ELSE v

Changed(section, c) == [i \in Items |-> IF i \in Touched(c) THEN Value(c, i) ELSE section[i]]
Configure(c) ==
    /\ port' = [i \in Items |-> IF i \in Touched(c) THEN InUse(i, Value(c, i)) ELSE port[i]]
    /\ commanded' = commanded \cup Touched(c)

(* What vDiscreteIO_init makes of a section. *)
Started(section) == [i \in Items |-> IF i[2] = "pinConfig" THEN Standard(section[i])
                                     ELSE IF i[2] \in Bypasses THEN FALSE
                                     ELSE InTicks[section[i]]]

PinsInit ==
    /\ saved = Defaults /\ port = Started(Defaults)
    /\ copy = << >> /\ commanded = {} /\ overlapped = {}

(* A command begins.  Beside directions that are being sent, what it saves may
   be taken back by one of them (and theirs by it, when it will write later). *)
Overlap(c, theirs) ==
    overlapped' = IF Sending = {} THEN overlapped \ Touched(c)
                  ELSE overlapped \cup Touched(c) \cup theirs
Set == UNION {Touched(copy[u].command) : u \in Sending}

Send(w, c, section) ==
    copy' = [u \in Sending \cup {w} |-> IF u = w THEN [command |-> c, section |-> section]
                                        ELSE copy[u]]

(* Mutant: the change is not in the copy that is written back. *)
SetDIODirectionUnsaved(w, c) ==
    /\ w \notin Sending /\ c.kind = "direction"
    /\ Configure(c) /\ Send(w, c, saved)
    /\ Overlap(c, Set)
    /\ UNCHANGED saved

(* Mutant: what was asked for is saved, not what is made of it. *)
SetDIODirectionAsked(w, c) ==
    /\ w \notin Sending /\ c.kind = "direction"
    /\ Configure(c)
    /\ Send(w, c, [i \in Items |-> IF i \in Touched(c) THEN c.config ELSE saved[i]])
    /\ Overlap(c, Set)
    /\ UNCHANGED saved

(* vTCPRCBin_DiscreteIO_setDIODirection, up to its send. *)
SetDIODirection(w, c) ==
    /\ w \notin Sending /\ c.kind = "direction"
    /\ Configure(c) /\ Send(w, c, Changed(saved, c))
    /\ Overlap(c, Set)
    /\ UNCHANGED saved

(* Its vEEPDIOConfg_set, which takes back what others have saved meanwhile. *)
WriteSection(w) ==
    /\ w \in Sending
    /\ saved' = copy[w].section
    /\ copy' = [u \in Sending \ {w} |-> copy[u]]
    /\ UNCHANGED <<port, commanded, overlapped>>

(* setDIConfiguration and setDOConfiguration refuse a pinConfig of the other
   direction, and write before they send. *)
SetConfiguration(w, c) ==
    /\ w \notin Sending
    /\ \/ c.kind = "input" /\ c.config \in InputConfigs
       \/ c.kind = "output" /\ c.config \in OutputConfigs
    /\ saved' = Changed(saved, c) /\ Configure(c)
    /\ Overlap(c, {})
    /\ UNCHANGED copy

(* A reset, and vDiscreteIO_init. *)
Restart ==
    /\ port' = Started(saved)
    /\ copy' = << >> /\ commanded' = {} /\ overlapped' = {}
    /\ UNCHANGED saved
-----------------------------------------------------------------------------
PinsNext ==
    \/ \E w \in Workers, c \in Commands : SetDIODirection(w, c) \/ SetConfiguration(w, c)
    \/ \E w \in Workers : WriteSection(w)
    \/ Restart

PinsSpec == PinsInit /\ [][PinsNext]_pinsVars
-----------------------------------------------------------------------------
(* What the port has of an item is what a section says of it: as its command
   has put it to use or, when none has since the start, as the start has. *)
Agrees(section, i) ==
    port[i] = IF i \in commanded THEN InUse(i, section[i]) ELSE Started(section)[i]

TypeOK ==
    /\ DOMAIN port = Items /\ IsSection(saved)
    /\ Sending \subseteq Workers
    /\ \A w \in Sending : copy[w].command \in Commands /\ IsSection(copy[w].section)
    /\ commanded \subseteq Items /\ overlapped \subseteq Items

(* Every item works as the saved section says: since the start as its last
   command set it or, when there was none, as vDiscreteIO_init makes it of the
   section (one of two fixed configurations of a pin, closed bypasses).  The
   exceptions are an item whose direction is being set, and one whose last
   command overlapped with another: the section of a direction command may
   take back what another worker has saved. *)
SavedAsUsed ==
    \A i \in Items : \/ Agrees(saved, i)
                     \/ i \in overlapped
                     \/ \E w \in Sending : i \in Touched(copy[w].command)

(* The copy of a direction command, which it will write back as a whole, says
   of every item what is in use, its own one included, unless the item's last
   command overlapped with another. *)
CopyCurrent == \A w \in Sending : \A i \in Items \ overlapped : Agrees(copy[w].section, i)
=============================================================================

----------------------------- MODULE RS485Devices -----------------------------
(* The AVDS and the Rosen device tasks on one port: AVDSRS485Device.c and
   RosenRS485Device.c.  An AVDS unit answers nothing before it has received the
   Initialize Communication command; it forgets it when it is reset. *)
EXTENDS SerialPort

CONSTANTS avds, rosen
VARIABLE initialised     \* the AVDS unit has received that command

Asks == {"initialise", "ping", "command"}     \* what the AVDS device sends
ASSUME DevicesAssumption ==
    /\ Tasks = {avds, rosen} /\ avds # rosen
    /\ Asks \subseteq Kinds /\ Asks \cap (Tells \cup Raw) = {}

allVars == <<vars, initialised>>

DInit == Init /\ initialised = FALSE
-----------------------------------------------------------------------------
(* vAVDS485Device_taskFxn begins with InitializeCommunication. *)
Boot == want[avds] = NoKind /\ Enter(avds, "initialise") /\ UNCHANGED initialised

(* Mutant of Waiting: the device goes on after a ping that failed. *)
WaitingAnyway == pc[avds] = "idle" /\ want[avds] # NoKind

(* It waits for an event; a ping that failed is not over. *)
Waiting == pc[avds] = "idle" /\ want[avds] # NoKind /\ (want[avds] = "ping" => ok[avds])

(* vAVDS485Device_periodicPing: when no answer came, InitializeCommunication
   follows. *)
Periodic == Waiting /\ Enter(avds, "ping") /\ UNCHANGED initialised
Reinitialise ==
    /\ want[avds] = "ping" /\ ~ok[avds]
    /\ Enter(avds, "initialise") /\ UNCHANGED initialised

(* vAVDS485Device_SteveCommandsService_ValueChangeHandler *)
Command == Waiting /\ Enter(avds, "command") /\ UNCHANGED initialised

(* The services of the Rosen device. *)
Rosen == \E k \in Kinds \ Asks : Enter(rosen, k) /\ UNCHANGED initialised
-----------------------------------------------------------------------------
(* The unit. *)
Hear == Drain /\ initialised' = (initialised \/ (~damaged /\ \E r \in Sent : r.kind = "initialise"))

Answers == heard # NoRequest /\ (heard.kind \in Asks => initialised) /\ Answer /\ UNCHANGED initialised

UnitReset ==
    /\ initialised /\ initialised' = FALSE
    /\ heard' = NoRequest /\ coming' = <<>>
    /\ UNCHANGED <<taskVars, gate, readVars, driverVars, sendVars, rx, historyVars>>

TransferStep(t) == Transfer(t) /\ UNCHANGED initialised
TickStep == Tick /\ UNCHANGED initialised

DNext ==
    \/ Boot \/ Periodic \/ Reinitialise \/ Command \/ Rosen
    \/ Hear \/ Answers \/ UnitReset
    \/ \E t \in Tasks : TransferStep(t)
    \/ TickStep
    \/ (Ignore \/ Arrive) /\ UNCHANGED initialised

(* The clock of the device posts the periodic event for ever, and the gate wakes
   the longest waiting of the tasks, which have one priority: the AVDS device
   gets the gate when it asks for it again and again.  Tasks in the gate, time
   and the FIFO go on. *)
DSpec ==
    /\ DInit /\ [][DNext]_allVars
    /\ SF_allVars(Boot \/ Periodic \/ Reinitialise)
    /\ WF_allVars(Hear) /\ WF_allVars(TickStep)
    /\ \A t \in Tasks : WF_allVars(TransferStep(t))

(* However often the AVDS unit is reset, and whatever the Rosen device sends
   meanwhile, the ping finds it out and the unit is initialised again, unless
   the clock of the driver cuts the request. *)
Reinitialised == ~initialised ~> (initialised \/ damaged)
=============================================================================

--------------------------- MODULE RelayController ---------------------------
(* The relay and the temperature boxes on the ALTO Multinet:
   ALTOMultinetDevice.c and ALTOMultinetDeviceRelayControllerWorker.c.  Three
   kinds of task transfer over one serial port: the device task works on the
   commands, discovery asks every address and makes a worker for each relay box,
   and a worker sends a box what the answers of the boxes route to it.

   A transfer is one step, since the gate of the port admits one at a time.  It
   may get its answer, none, or the answer to a transfer before it that came too
   late; frames say which box they are from, and nobody looks.  Between two
   steps a task waits for the port or sleeps. *)
EXTENDS Integers, SequencesExt

CONSTANTS Relays, Temps,   \* the boxes of either type,
          Addresses,       \* in the order in which discovery asks them
          Inputs,          \* the virtual inputs of a box
          Commands,        \* for the device task
          Routings,        \* what an answer may say: requests for boxes
          Full,            \* ALTO_FRAME_DATA_PAYLOAD_SIZE
          Blocks,          \* requests there is memory for
          NoAnswer, NoCmd

Boxes == Relays \cup Temps
Puts == [input : Inputs, value : {0, 1}]
Responses == {"cluResponse", "diagnosticResponse"}     \* by the class of the frame
Answers == [op : Responses \cup {"ack", "nak"}, from : Boxes]
Unknown == 2         \* of an input or a gate that something has happened to

ASSUME MultinetAssumption ==
    /\ Relays \cap Temps = {} /\ Range(Addresses) = Boxes
    /\ Commands \subseteq [kind : {"set", "trigger", "getGate", "setGate", "status"},
                          box : Boxes, input : Inputs, value : {0, 1}]
    /\ Routings \subseteq Seq([box : Boxes, put : Puts])
    /\ Full \in Nat \ {0} /\ Blocks \in Nat
    /\ NoAnswer \notin Answers /\ NoCmd \notin Commands

VARIABLES
    vin, gates,            \* of each box: virtual inputs; those the gate selects
    list,                  \* hControllersListQueue: the boxes that have a worker
    next,                  \* of discovery: the address it asks next
    wpc, queue, batch,     \* of each worker: its place, hMsgQ, the frame it fills
    cmd, dpc,              \* the command the device task works on, and where
    bits, ack,             \* its gate (the bits that are set) and ack
    gateWas, sure,         \* history of the command: the gate when it began, unless
                           \* it was misread or not set; its ack is no earlier one,
                           \* and no frame of a worker has changed the input since
    asked                  \* history: what was last asked of each input

boxVars == <<vin, gates>>
workerVars == <<list, wpc, queue, batch>>
deviceVars == <<cmd, dpc, bits, ack, gateWas, sure>>
vars == <<boxVars, workerVars, next, deviceVars, asked>>

Nothing == /\ cmd = NoCmd /\ dpc = "idle" /\ bits = {} /\ ack = FALSE
           /\ gateWas = Unknown /\ sure = FALSE
Init ==
    /\ vin = [b \in Boxes |-> [i \in Inputs |-> 0]]
    /\ gates = [b \in Boxes |-> {}]
    /\ list = <<>> /\ next = 1
    /\ wpc = [b \in Boxes |-> "none"]
    /\ queue = [b \in Boxes |-> <<>>] /\ batch = [b \in Boxes |-> <<>>]
    /\ Nothing
    /\ asked = vin
-----------------------------------------------------------------------------
(* What a request may lead to: the box performs it or not, and the caller gets
   the answer (mine), one to an earlier transfer or none. *)
Outcomes(box, ops) ==
    LET answers(done, op) ==
            {[done |-> done, mine |-> TRUE, got |-> [op |-> op, from |-> box]]}
    IN (UNION {answers(TRUE, op) : op \in ops}) \cup answers(FALSE, "nak")
       \cup [done : BOOLEAN, mine : {FALSE}, got : Answers \cup {NoAnswer}]

(* The value that a sequence of puts leaves in an input. *)
After(puts, i, old) ==
    LET those == {k \in DOMAIN puts : puts[k].input = i} IN
    IF those = {} THEN old ELSE puts[Max(those)].value

Put(b, puts) == [vin EXCEPT ![b] = [i \in Inputs |-> After(puts, i, @[i])]]
Waits(b, i) == \E p \in Range(queue[b] \o batch[b]) : p.input = i
Queued(b, i) == \E p \in Range(queue[b]) : p.input = i
-----------------------------------------------------------------------------
(* ptALTOMultinet_findControllerWorkerInList *)
Found(b) == b \in Range(list)

(* Mutant of IsNew: whether the box that was asked has a worker. *)
IsNewAsked(b, got) == ~Found(b)

IsNew(b, got) == ~Found(got.from)

(* vALTOMultinetDeviceDiscovery: whatever frame comes, its sender is taken for
   the box that was asked. *)
Discover ==
    LET b == Addresses[next] IN
    \E got \in {o.got : o \in Outcomes(b, {"diagnosticResponse"})} :
        /\ next' = IF next = Len(Addresses) THEN 1 ELSE next + 1
        /\ \/ b \in Relays /\ got # NoAnswer /\ IsNew(b, got)
              /\ list' = Append(list, got.from)
              /\ wpc' = [wpc EXCEPT ![got.from] = "idle"]
           \/ UNCHANGED <<list, wpc>>     \* or there was no memory for a worker
        /\ UNCHANGED <<boxVars, queue, batch, deviceVars, asked>>
-----------------------------------------------------------------------------
(* vALTOMultinet_relayControllerWorkerFxnV00: a frame is filled from the queue;
   when it is empty the worker asks for the state of the outputs (Get). *)
Fill(b) ==
    LET n == IF Len(queue[b]) < Full THEN Len(queue[b]) ELSE Full IN
    /\ batch' = [batch EXCEPT ![b] = SubSeq(queue[b], 1, n)]
    /\ queue' = [queue EXCEPT ![b] = SubSeq(queue[b], n + 1, Len(queue[b]))]
    /\ wpc' = [wpc EXCEPT ![b] = "transfer"]

Wake(b) ==
    /\ wpc[b] = "idle" /\ Fill(b)
    /\ UNCHANGED <<boxVars, list, next, deviceVars, asked>>

(* Mutant of GoOn: it waits for more. *)
GoOnWaiting(b) ==
    /\ wpc[b] = "more"
    /\ queue[b] # <<>> /\ Fill(b)
    /\ UNCHANGED <<boxVars, list, next, deviceVars, asked>>

(* After a full frame it goes on with what is left, if anything is. *)
GoOn(b) ==
    /\ wpc[b] = "more"
    /\ \/ queue[b] # <<>> /\ Fill(b)
       \/ queue[b] = <<>> /\ wpc' = [wpc EXCEPT ![b] = "idle"] /\ UNCHANGED <<queue, batch>>
    /\ UNCHANGED <<boxVars, list, next, deviceVars, asked>>

HasMemory(q) == FoldFunctionOnSet(LAMBDA puts, n : n + Len(puts), 0, q, Boxes) < Blocks

(* What is asked of an input, although it may be dropped here: then it is unknown
   what the input will be, but only for want of a worker or of memory. *)
Asks(s, r) ==
    LET room == r.box \in Range(list) /\ HasMemory(s.queue) IN
    [s.asked EXCEPT ![r.box][r.put.input] = IF room THEN r.put.value ELSE Unknown]

(* Mutant of Queues: no more requests wait than fit in a frame. *)
QueuesAFrame(s, r) ==
    [queue |-> IF Found(r.box) /\ HasMemory(s.queue) /\ Len(s.queue[r.box]) < Full
               THEN [s.queue EXCEPT ![r.box] = Append(@, r.put)] ELSE s.queue,
     asked |-> Asks(s, r)]

(* ptALTOMultinet_SendMsgToControllerWorker: without a worker or memory the
   request is dropped. *)
Queues(s, r) ==
    [queue |-> IF Found(r.box) /\ HasMemory(s.queue)
               THEN [s.queue EXCEPT ![r.box] = Append(@, r.put)] ELSE s.queue,
     asked |-> Asks(s, r)]

(* The requests of an answer, one after the other. *)
QueuesAll(s, routes) ==
    LET after[k \in 0..Len(routes)] ==
            IF k = 0 THEN s ELSE Queues(after[k - 1], routes[k])
    IN  after[Len(routes)]

Routed(got) == IF got # NoAnswer /\ got.op = "cluResponse" THEN Routings ELSE {<<>>}
Exchanges == [b \in Boxes |->
    UNION {[done : {o.done}, routes : Routed(o.got)] : o \in Outcomes(b, {"cluResponse", "ack"})}]

(* vALTOMultinet_relayControllerTransferRemote: what any response of the Clu
   class says is routed, whatever it answers. *)
TransferRemote(b) ==
    /\ wpc[b] = "transfer"
    /\ \E e \in Exchanges[b] :
        LET unclear(i) == ~e.done /\ ~Queued(b, i) /\ \E p \in Range(batch[b]) : p.input = i
            s == QueuesAll([queue |-> queue,
                            asked |-> [asked EXCEPT ![b] =
                                [i \in Inputs |-> IF unclear(i) THEN Unknown ELSE @[i]]]],
                           e.routes)
        IN  /\ vin' = IF e.done THEN Put(b, batch[b]) ELSE vin
            /\ sure' = (sure /\ vin'[cmd.box][cmd.input] = vin[cmd.box][cmd.input])
            /\ queue' = s.queue /\ asked' = s.asked
    /\ wpc' = [wpc EXCEPT ![b] = IF Len(batch[b]) = Full THEN "more" ELSE "idle"]
    /\ batch' = [batch EXCEPT ![b] = <<>>]
    /\ UNCHANGED <<gates, list, next, cmd, dpc, bits, ack, gateWas>>
-----------------------------------------------------------------------------
(* The device task: a command from its queue of messages. *)
Command(c) ==
    /\ dpc = "idle" /\ cmd' = c
    /\ dpc' = CASE c.kind = "status" -> "status" [] c.kind = "setGate" -> "setGate"
                [] OTHER -> "readGate"
    /\ gateWas' = IF c.input \in gates[c.box] THEN 1 ELSE 0
    /\ UNCHANGED <<boxVars, workerVars, next, bits, ack, sure, asked>>

(* xALTOMultinet_readGateFrom: 0 without an answer, -1 when it is no response,
   else what the frame has in the place of the gates. *)
ReadGate ==
    /\ dpc = "readGate"
    /\ \E o \in Outcomes(cmd.box, {"cluResponse"}) :
        bits' \in IF o.got = NoAnswer THEN {{}}
                 ELSE IF o.got.op \notin Responses THEN {Inputs}
                 ELSE IF o.mine THEN {gates[cmd.box]} ELSE SUBSET Inputs
    /\ gateWas' = IF gateWas = 1 /\ cmd.input \notin bits' THEN Unknown ELSE gateWas
    /\ dpc' = IF cmd.kind = "getGate" THEN "respond" ELSE "setInput"
    /\ UNCHANGED <<boxVars, workerVars, next, cmd, ack, sure, asked>>

(* Mutant of Acknowledge: retVal begins with 0, as in xALTOMultinet_readGateFrom. *)
AcknowledgeNothing(o) ==
    /\ ack' = (o.got = NoAnswer \/ o.got.op = "ack")
    /\ sure' = (ack' /\ (o.mine \/ o.got = NoAnswer))

(* The caller takes any good acknowledgement for its own; without one, -1. *)
Acknowledge(o) ==
    /\ ack' = (o.got # NoAnswer /\ o.got.op = "ack")
    /\ sure' = (ack' /\ (o.mine \/ o.got = NoAnswer))

(* Mutant of LeavesGate: a trigger switches every gate. *)
LeavesGateNever == FALSE

(* A trigger leaves a gate alone that is virtual. *)
LeavesGate == cmd.kind = "trigger" /\ cmd.input \in bits

(* xALTOMultinet_setVirtualRemoteAt, to set an input or at either end of a
   trigger. *)
SetInput ==
    LET b == cmd.box   i == cmd.input
        v == IF cmd.kind = "set" THEN cmd.value ELSE IF dpc = "setInput" THEN 1 ELSE 0
    IN
    /\ dpc \in {"setInput", "clearInput"}
    /\ \E o \in Outcomes(b, {"cluResponse", "ack"}) :
        /\ Acknowledge(o)
        /\ vin' = IF o.done THEN [vin EXCEPT ![b][i] = v] ELSE vin
        /\ asked' = [asked EXCEPT ![b][i] = IF o.done /\ ~Waits(b, i) THEN v ELSE Unknown]
    /\ dpc' = IF LeavesGate THEN (IF dpc = "setInput" THEN "sleep" ELSE "respond")
              ELSE IF dpc = "setInput" THEN "setGate" ELSE "resetGate"
    /\ UNCHANGED <<gates, workerVars, next, cmd, bits, gateWas>>

(* Task_sleep(100) between the two ends. *)
Sleep ==
    /\ dpc = "sleep" /\ dpc' = "clearInput"
    /\ UNCHANGED <<boxVars, workerVars, next, cmd, bits, ack, gateWas, sure, asked>>

(* xALTOMultinet_setGateAt; only the command for the gate answers with its ack. *)
SetGate ==
    LET virtual == IF cmd.kind = "trigger" THEN dpc = "setGate" ELSE cmd.value = 1
        b == cmd.box   i == cmd.input
    IN
    /\ dpc \in {"setGate", "resetGate"}
    /\ \E o \in Outcomes(b, {"ack"}) :
        /\ gates' = IF ~o.done THEN gates
                    ELSE [gates EXCEPT ![b] = IF virtual THEN @ \cup {i} ELSE @ \ {i}]
        /\ gateWas' = IF dpc = "resetGate" /\ ~o.done THEN Unknown ELSE gateWas
        /\ IF cmd.kind = "setGate" THEN Acknowledge(o) ELSE UNCHANGED <<ack, sure>>
    /\ dpc' = IF cmd.kind = "trigger" /\ dpc = "setGate" THEN "sleep" ELSE "respond"
    /\ UNCHANGED <<vin, workerVars, next, cmd, bits, asked>>

Done == cmd' = NoCmd /\ dpc' = "idle" /\ bits' = {} /\ ack' = FALSE /\ gateWas' = Unknown /\ sure' = FALSE

(* vALTOMultinet_getDetailedStatusService_ValueChangeHandler: it responds only
   to a response. *)
DetailedStatus ==
    /\ dpc = "status"
    /\ \E o \in Outcomes(cmd.box, {"diagnosticResponse"}) :
        IF o.got # NoAnswer /\ o.got.op \in Responses
        THEN dpc' = "respond" /\ UNCHANGED <<cmd, bits, ack, gateWas, sure>>
        ELSE Done
    /\ UNCHANGED <<boxVars, workerVars, next, asked>>

(* vDevice_sendCharDataMsg, and the command is over. *)
Respond ==
    /\ dpc = "respond" /\ Done
    /\ UNCHANGED <<boxVars, workerVars, next, asked>>
-----------------------------------------------------------------------------
Device == ReadGate \/ SetInput \/ Sleep \/ SetGate \/ DetailedStatus \/ Respond
Worker(b) == Wake(b) \/ GoOn(b) \/ TransferRemote(b)
Next ==
    \/ Discover
    \/ \E b \in Boxes : Worker(b)
    \/ \E c \in Commands : Command(c)
    \/ Device

(* Discovery and the workers go round, since the port admits each of the tasks
   that wait for it; a relay box that is asked again and again answers at some
   time, and then there is memory for its worker. *)
Spec ==
    /\ Init /\ [][Next]_vars
    /\ WF_vars(Discover)
    /\ \A b \in Relays : WF_vars(Worker(b)) /\ SF_vars(Discover /\ Addresses[next] = b /\ Found(b)')
-----------------------------------------------------------------------------
(* The virtual inputs follow the requests: when nothing is queued for a box or in
   a frame to it, each of its inputs has the value last asked for, by the routing
   of another box or by a command.  Three things leave it unknown until the next
   request: a frame that was lost, a command that overtook requests in the queue,
   and a request dropped because the box had no worker or there was no memory. *)
InputsFollowRequests ==
    \A b \in Boxes : (wpc[b] # "transfer" /\ queue[b] = <<>>) =>
        \A i \in Inputs : asked[b][i] \in {vin[b][i], Unknown}

(* After a trigger the gate of the input selects what it selected before, unless
   its gate was virtual and read as physical (which the code does when no answer
   comes), or the last request to set it was lost. *)
GateRestored ==
    (dpc = "respond" /\ cmd.kind = "trigger" /\ gateWas # Unknown) =>
        ((cmd.input \in gates[cmd.box]) = (gateWas = 1))

(* A command that is answered with a good status has been performed, whatever the
   workers sent to the box meanwhile and whatever the steps after it met: its
   input or gate is as the command asks, unless a request of a worker changed the
   input again or the status was the answer to an earlier transfer. *)
AnswerMeansDone ==
    (dpc = "respond" /\ ack /\ sure) =>
        IF cmd.kind = "setGate" THEN (cmd.input \in gates[cmd.box]) = (cmd.value = 1)
        ELSE vin[cmd.box][cmd.input] = IF cmd.kind = "set" THEN cmd.value ELSE 0

(* A box has one worker, although discovery goes on for ever, and although an
   answer that comes late names another box than was asked. *)
OneWorkerPerBox == IsInjective(list)

(* Every relay box is found and polled, and polled again, so that its requests
   are sent: neither commands, lost answers nor frames that are exactly full
   stop its worker. *)
BoxServed == \A b \in Relays : []<>(wpc[b] = "transfer")
=============================================================================

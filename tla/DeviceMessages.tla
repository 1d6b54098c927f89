--------------------------- MODULE DeviceMessages ---------------------------
(***************************************************************************)
(* Devices/Devices.c and the task of every device: the list of devices,    *)
(* and the messages that other tasks send to a device.                     *)
(*                                                                         *)
(* A sender scans the list and, for each entry with the deviceID it wants, *)
(* allocates a message, enqueues it and posts DEVICE_APP_MSG_EVT.  The     *)
(* device waits for an event for at most 100 ticks, then drains its queue. *)
(*                                                                         *)
(* Queue_enqueue and Queue_dequeue of SYS/BIOS are not atomic (Queue_put   *)
(* and Queue_get are), so each is two steps on the links of the queue.     *)
(* What separates the steps is preemption: a task runs when no task of     *)
(* higher priority is ready and none of its own priority is in progress.   *)
(*                                                                         *)
(* Abstractions.  xDevice_add is one step: SMC_initThread runs it with the *)
(* highest priority.  vDevice_remove has no caller, so no device closes.   *)
(* Only the next links matter: nothing in the firmware reads a prev link   *)
(* but that of the queue head, which is tail.                              *)
(***************************************************************************)
EXTENDS Naturals, Sequences, FiniteSets

CONSTANTS Senders, Devices,
          Ids, DeviceID,   \* DeviceID[d]: the identifier its flash file gives it
          Priorities,      \* the priorities the tasks may have: each in [Tasks -> Nat]
          Nodes,           \* blocks of the heap that messages are taken from
          MaxDevices,      \* DEVICES_MAX_NUM_LIST
          MaxSent,         \* bound: calls of xDevice_sendCharDataMsg of each sender
          Q, NoNode, NoMsg, NoId

Tasks == Senders \cup Devices
Messages == UNION {[from : {s}, number : 1..MaxSent[s]] : s \in Senders}

ASSUME MessagesAssumption ==
    /\ Senders \cap Devices = {}
    /\ IsFiniteSet(Nodes) /\ Q \notin Nodes /\ NoNode \notin Nodes /\ Q # NoNode
    /\ DeviceID \in [Devices -> Ids]
    /\ Priorities \subseteq [Tasks -> Nat]
    /\ NoMsg \notin Messages
    /\ MaxDevices \in Nat /\ MaxSent \in [Senders -> Nat]

VARIABLES
    prio,             \* Task priorities: those of the device types in the flash
    list,             \* g_hDevicesListQ
    first, tail,      \* per device: the next and prev of its queue head
    link,             \* per message: its next
    content,          \* per message: what it carries, NoMsg when it is free
    appMsg,           \* per device: DEVICE_APP_MSG_EVT is set
    spc, target, pos, node, sent,   \* per sender
    dpc, elem         \* per device task

vars == <<prio, list, first, tail, link, content, appMsg,
          spc, target, pos, node, sent, dpc, elem>>
queues     == <<first, tail, link>>
senderVars == <<spc, target, pos, node, sent>>
deviceVars == <<dpc, elem>>
-----------------------------------------------------------------------------
Init ==
    /\ prio \in Priorities
    /\ list = <<>>
    /\ first = [d \in Devices |-> Q] /\ tail = [d \in Devices |-> Q]
    /\ link = [n \in Nodes |-> Q]
    /\ content = [n \in Nodes |-> NoMsg]
    /\ appMsg = [d \in Devices |-> FALSE]
    /\ spc = [s \in Senders |-> "idle"]
    /\ target = [s \in Senders |-> NoId]
    /\ pos = [s \in Senders |-> 1] /\ node = [s \in Senders |-> NoNode]
    /\ sent = [s \in Senders |-> 0]
    /\ dpc = [d \in Devices |-> "none"] /\ elem = [d \in Devices |-> NoNode]

Label(t) == IF t \in Senders THEN spc[t] ELSE dpc[t]
(* Has the processor, or has been preempted while it had it. *)
Running(t) == Label(t) \in {"scan", "link", "tail", "post", "check", "pend", "unlink", "fix"}
Ready(t)   == Running(t) \/ Label(t) = "woken"
CanRun(t)  == \A u \in Tasks \ {t} :
                 /\ Ready(u) => prio[u] <= prio[t]
                 /\ Running(u) => prio[u] # prio[t]

Listed(d) == \E i \in 1..Len(list) : list[i] = d

(* Mutant: the list is not limited by its heap. *)
AddDeviceAlways(d) ==
    /\ ~Listed(d)
    /\ \A t \in Tasks : ~Running(t)
    /\ list' = Append(list, d)
    /\ dpc' = [dpc EXCEPT ![d] = "wait"]
    /\ UNCHANGED <<prio, queues, content, appMsg, senderVars, elem>>

(* xDevice_add, and the start of the device task. *)
AddDevice(d) ==
    /\ ~Listed(d) /\ Len(list) < MaxDevices
    /\ \A t \in Tasks : ~Running(t)
    /\ list' = Append(list, d)
    /\ dpc' = [dpc EXCEPT ![d] = "wait"]
    /\ UNCHANGED <<prio, queues, content, appMsg, senderVars, elem>>
-----------------------------------------------------------------------------
(* xDevice_sendCharDataMsg is called: by a TCP worker with a request, or by a
   device with its response. *)
Send(s) ==
    /\ spc[s] = "idle" /\ sent[s] < MaxSent[s] /\ CanRun(s)
    /\ \E i \in Ids : target' = [target EXCEPT ![s] = i]
    /\ sent' = [sent EXCEPT ![s] = @ + 1]
    /\ pos' = [pos EXCEPT ![s] = 1]
    /\ spc' = [spc EXCEPT ![s] = "scan"]
    /\ UNCHANGED <<prio, list, queues, content, appMsg, node, deviceVars>>

Matches(s) == pos[s] <= Len(list) /\ DeviceID[list[pos[s]]] = target[s]

(* One turn of the loop over the list.  Without memory the message is
   dropped, though the caller counts it as sent. *)
Scan(s) ==
    /\ spc[s] = "scan" /\ CanRun(s)
    /\ \/ /\ Matches(s)
          /\ \E n \in Nodes : /\ content[n] = NoMsg
                              /\ content' = [content EXCEPT ![n] =
                                               [from |-> s, number |-> sent[s]]]
                              /\ node' = [node EXCEPT ![s] = n]
          /\ spc' = [spc EXCEPT ![s] = "link"]
          /\ UNCHANGED <<pos, target>>
       \/ /\ pos[s] <= Len(list)
          /\ Matches(s) => \A n \in Nodes : content[n] # NoMsg
          /\ pos' = [pos EXCEPT ![s] = @ + 1]
          /\ UNCHANGED <<content, node, spc, target>>
       \/ /\ pos[s] > Len(list)
          /\ spc' = [spc EXCEPT ![s] = "idle"]
          /\ target' = [target EXCEPT ![s] = NoId]
          /\ pos' = [pos EXCEPT ![s] = 1]
          /\ UNCHANGED <<content, node>>
    /\ UNCHANGED <<prio, list, queues, appMsg, sent, deviceVars>>

(* Mutant: the message is put at the head of the queue. *)
LinkFirst(s) ==
    LET d == list[pos[s]] IN
    /\ spc[s] = "link" /\ CanRun(s)
    /\ first' = [first EXCEPT ![d] = node[s]]
    /\ link' = [link EXCEPT ![node[s]] = first[d]]
    /\ spc' = [spc EXCEPT ![s] = "tail"]
    /\ UNCHANGED <<prio, list, tail, content, appMsg, target, pos, node, sent, deviceVars>>

(* Queue_enqueue: elem->next = q; q->prev->next = elem; *)
LinkLast(s) ==
    LET d == list[pos[s]] IN
    /\ spc[s] = "link" /\ CanRun(s)
    /\ \/ /\ tail[d] = Q
          /\ first' = [first EXCEPT ![d] = node[s]]
          /\ link' = [link EXCEPT ![node[s]] = Q]
       \/ /\ tail[d] # Q
          /\ first' = first
          /\ link' = [link EXCEPT ![node[s]] = Q, ![tail[d]] = node[s]]
    /\ spc' = [spc EXCEPT ![s] = "tail"]
    /\ UNCHANGED <<prio, list, tail, content, appMsg, target, pos, node, sent, deviceVars>>

(* q->prev = elem; *)
MoveTail(s) ==
    /\ spc[s] = "tail" /\ CanRun(s)
    /\ tail' = [tail EXCEPT ![list[pos[s]]] = node[s]]
    /\ spc' = [spc EXCEPT ![s] = "post"]
    /\ UNCHANGED <<prio, list, first, link, content, appMsg, target, pos, node, sent, deviceVars>>

(* Mutant: the event of the first entry of the list is posted. *)
PostFirst(s) ==
    LET d == list[1] IN
    /\ spc[s] = "post" /\ CanRun(s)
    /\ \/ dpc[d] = "wait" /\ dpc' = [dpc EXCEPT ![d] = "woken"] /\ appMsg' = appMsg
       \/ dpc[d] # "wait" /\ dpc' = dpc /\ appMsg' = [appMsg EXCEPT ![d] = TRUE]
    /\ node' = [node EXCEPT ![s] = NoNode]
    /\ pos' = [pos EXCEPT ![s] = @ + 1]
    /\ spc' = [spc EXCEPT ![s] = "scan"]
    /\ UNCHANGED <<prio, list, queues, content, target, sent, elem>>

(* Event_post(DEVICE_APP_MSG_EVT): readies the device if it waits, otherwise
   the flag stays set for its next pend.  Then the next entry of the list. *)
Post(s) ==
    LET d == list[pos[s]] IN
    /\ spc[s] = "post" /\ CanRun(s)
    /\ \/ /\ dpc[d] = "wait"
          /\ dpc' = [dpc EXCEPT ![d] = "woken"]
          /\ appMsg' = appMsg
       \/ /\ dpc[d] # "wait"
          /\ dpc' = dpc
          /\ appMsg' = [appMsg EXCEPT ![d] = TRUE]
    /\ node' = [node EXCEPT ![s] = NoNode]
    /\ pos' = [pos EXCEPT ![s] = @ + 1]
    /\ spc' = [spc EXCEPT ![s] = "scan"]
    /\ UNCHANGED <<prio, list, queues, content, target, sent, elem>>
-----------------------------------------------------------------------------
(* The pend times out after 100 ticks, or the clock posts DEVICE_PERIODIC_EVT. *)
Tick(d) ==
    /\ dpc[d] = "wait"
    /\ dpc' = [dpc EXCEPT ![d] = "woken"]
    /\ UNCHANGED <<prio, list, queues, content, appMsg, senderVars, elem>>

(* while (!Queue_empty(msgQHandle)) *)
Check(d) ==
    /\ dpc[d] \in {"woken", "check"} /\ CanRun(d)
    /\ \/ /\ first[d] # Q
          /\ dpc' = [dpc EXCEPT ![d] = "unlink"]
       \/ /\ first[d] = Q
          /\ dpc' = [dpc EXCEPT ![d] = "pend"]
    /\ UNCHANGED <<prio, list, queues, content, appMsg, senderVars, elem>>

(* Mutant: the flag that was set before the pend is lost. *)
PendForgetting(d) ==
    /\ dpc[d] = "pend" /\ CanRun(d)
    /\ dpc' = [dpc EXCEPT ![d] = "wait"]
    /\ appMsg' = [appMsg EXCEPT ![d] = FALSE]
    /\ UNCHANGED <<prio, list, queues, content, senderVars, elem>>

(* Event_pend: at once when the flag is set. *)
Pend(d) ==
    /\ dpc[d] = "pend" /\ CanRun(d)
    /\ dpc' = [dpc EXCEPT ![d] = IF appMsg[d] THEN "check" ELSE "wait"]
    /\ appMsg' = [appMsg EXCEPT ![d] = FALSE]
    /\ UNCHANGED <<prio, list, queues, content, senderVars, elem>>

(* Queue_dequeue: elem = q->next; q->next = elem->next; *)
Unlink(d) ==
    /\ dpc[d] = "unlink" /\ CanRun(d)
    /\ elem' = [elem EXCEPT ![d] = first[d]]
    /\ first' = [first EXCEPT ![d] = link[first[d]]]
    /\ dpc' = [dpc EXCEPT ![d] = "fix"]
    /\ UNCHANGED <<prio, list, tail, link, content, appMsg, senderVars>>

(* elem->next->prev = q; *)
FixTail(d) ==
    /\ dpc[d] = "fix" /\ CanRun(d)
    /\ tail' = [tail EXCEPT ![d] = IF link[elem[d]] = Q THEN Q ELSE @]
    /\ dpc' = [dpc EXCEPT ![d] = "process"]
    /\ UNCHANGED <<prio, list, first, link, content, appMsg, senderVars, elem>>

(* Mutant: the memory of the message is not returned. *)
ProcessedKeeping(d) ==
    /\ dpc[d] = "process" /\ CanRun(d)
    /\ elem' = [elem EXCEPT ![d] = NoNode]
    /\ dpc' = [dpc EXCEPT ![d] = "check"]
    /\ UNCHANGED <<prio, list, queues, content, appMsg, senderVars>>

(* The message has been processed, which blocks on the device's interface,
   and is freed. *)
Processed(d) ==
    /\ dpc[d] = "process" /\ CanRun(d)
    /\ content' = [content EXCEPT ![elem[d]] = NoMsg]
    /\ elem' = [elem EXCEPT ![d] = NoNode]
    /\ dpc' = [dpc EXCEPT ![d] = "check"]
    /\ UNCHANGED <<prio, list, queues, appMsg, senderVars>>
-----------------------------------------------------------------------------
Sending(s)   == Scan(s) \/ LinkLast(s) \/ MoveTail(s) \/ Post(s)
Draining(d)  == Check(d) \/ Pend(d) \/ Unlink(d) \/ FixTail(d) \/ Processed(d)

Next == \/ \E d \in Devices : AddDevice(d) \/ Tick(d) \/ Draining(d)
        \/ \E s \in Senders : Send(s) \/ Sending(s)

Spec == Init /\ [][Next]_vars

(* The scheduler runs every task that is ready (the sends are finite, so no
   priority starves another), and processing a message ends.  The timer is
   not needed: Tick is not fair. *)
Fairness == /\ \A s \in Senders : SF_vars(Sending(s))
            /\ \A d \in Devices : SF_vars(Draining(d))
FairSpec == Spec /\ Fairness
-----------------------------------------------------------------------------
TypeOK ==
    /\ prio \in Priorities
    /\ list \in Seq(Devices) /\ Len(list) <= MaxDevices
    /\ first \in [Devices -> Nodes \cup {Q}] /\ tail \in [Devices -> Nodes \cup {Q}]
    /\ link \in [Nodes -> Nodes \cup {Q}]
    /\ content \in [Nodes -> Messages \cup {NoMsg}]
    /\ appMsg \in [Devices -> BOOLEAN]
    /\ spc \in [Senders -> {"idle", "scan", "link", "tail", "post"}]
    /\ target \in [Senders -> Ids \cup {NoId}]
    /\ pos \in [Senders -> 1..(MaxDevices + 1)]
    /\ node \in [Senders -> Nodes \cup {NoNode}]
    /\ sent \in [Senders -> Nat] /\ \A s \in Senders : sent[s] <= MaxSent[s]
    /\ dpc \in [Devices -> {"none", "wait", "woken", "check", "pend", "unlink", "fix", "process"}]
    /\ elem \in [Devices -> Nodes \cup {NoNode}]

(* The messages of the queue of d, as its next links have them: the k-th
   (Q past the last), all of them, and what they carry in order. *)
Walk(d) ==
    LET at[k \in 0..Cardinality(Nodes)] ==
          IF k = 0 THEN first[d] ELSE IF at[k - 1] = Q THEN Q ELSE link[at[k - 1]]
    IN  at
Queued(d) == {Walk(d)[k] : k \in 0..Cardinality(Nodes)} \ {Q}
Channel(d) == [k \in 1..Cardinality(Queued(d)) |-> content[Walk(d)[k - 1]]]

(* A message that was sent is handled in the context of the device task: as
   long as it is allocated, a sender is about to link it, it is reachable in
   the queue of a device, or that device is processing it. *)
NoMessageLost ==
    \A n \in Nodes : content[n] # NoMsg =>
        \/ \E s \in Senders : spc[s] = "link" /\ node[s] = n
        \/ \E d \in Devices : n \in Queued(d) \/ elem[d] = n

(* Queue_enqueue and Queue_dequeue are used without a lock, so what the queues
   hold is right only between tasks that do not preempt each other. *)
OnePriority == \A t, u \in Tasks : prio[t] = prio[u]

(* Between tasks of one priority vDevice_enqueueCharDataMsg and the loop of the
   device task lose no message. *)
NoneLostAmongEquals == OnePriority => NoMessageLost

(* Whatever the priorities, and wherever in Check and Pend a sender preempts
   the device: a device that waits has an empty queue, or a sender is about to
   post its event.  The 100 tick timeout of the pend never is what makes the
   device look at its queue. *)
WakeupNotLost ==
    \A d \in Devices : dpc[d] = "wait" /\ first[d] # Q =>
        \E s \in Senders : spc[s] \in {"tail", "post"} /\ list[pos[s]] = d

(* Between tasks of one priority every message is processed and its memory
   returned. *)
MessageHandled ==
    \A n \in Nodes : OnePriority /\ content[n] # NoMsg ~> content[n] = NoMsg

(* Between tasks of one priority the queues implement one FIFO channel per
   device: nothing is lost, duplicated or overtaken. *)
channels == [d \in Devices |-> Channel(d)]
Channels == INSTANCE DeviceChannels WITH channel <- channels
ChannelSpec == Channels!Init /\ [][OnePriority => Channels!Next]_channels
=============================================================================

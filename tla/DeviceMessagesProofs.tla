------------------------ MODULE DeviceMessagesProofs ------------------------
(* Proofs about DeviceMessages.

   What a waiting device needs does not depend on the priorities: Base, which
   says who is between which two steps, is inductive for tasks that preempt each
   other anywhere.

   The rest holds between tasks of one priority.  The links of a queue say what
   is in it only through a walk along them.  The invariant names the walk: there
   is an assignment q of a sequence of nodes to every device such that the
   links, the tails and the owners of the nodes agree with q (Shape and Owned),
   up to the one task that may be between the two steps of an enqueue or a
   dequeue.  That there is one such task at most (OneRuns) is where the
   priorities come in. *)
EXTENDS DeviceMessages, FiniteSetTheorems, WellFoundedInduction, NaturalsInduction, TLAPS

At(sq, k)     == IF k <= Len(sq) THEN sq[k] ELSE Q
InQueue(q, n) == \E d \in Devices : \E k \in 1..Len(q[d]) : q[d][k] = n
Linking(s, d) == spc[s] = "tail" /\ list[pos[s]] = d
Handles(d)    == dpc[d] \in {"fix", "process"}

OneRuns == \A t, u \in Tasks : Running(t) /\ Running(u) => t = u

ListInv ==
    /\ \A s \in Senders :
         /\ pos[s] <= Len(list) + 1
         /\ spc[s] \in {"link", "tail", "post"} => pos[s] <= Len(list)
         /\ spc[s] # "idle" => sent[s] >= 1
    /\ \A d \in Devices : dpc[d] = "none" <=> ~Listed(d)

(* The next links of the queue of d are those of q[d], no node is in it twice
   or in another queue, and its tail is the last one unless a task is about to
   move the tail. *)
Links(q) ==
    \A d \in Devices : /\ first[d] = At(q[d], 1)
                       /\ \A k \in 1..Len(q[d]) : link[q[d][k]] = At(q[d], k + 1)
Once(q) ==
    \A d, e \in Devices : \A j \in 1..Len(q[d]), k \in 1..Len(q[e]) :
        q[d][j] = q[e][k] => d = e /\ j = k
Tails(q) ==
    /\ \A d \in Devices : (\A s \in Senders : ~Linking(s, d)) =>
         /\ Len(q[d]) > 0 => tail[d] = q[d][Len(q[d])]
         /\ Len(q[d]) = 0 /\ dpc[d] # "fix" => tail[d] = Q
    /\ \A s \in Senders : spc[s] = "tail" =>
         LET d == list[pos[s]] IN Len(q[d]) > 0 /\ node[s] = q[d][Len(q[d])]
    /\ \A d \in Devices : dpc[d] = "fix" => link[elem[d]] = At(q[d], 1)
Shape(q) == Links(q) /\ Once(q) /\ Tails(q)

(* The message of n is in a queue, with the device that handles it, or with the
   sender that will link it: in one of them exactly when it is allocated. *)
QueuedNodes(q) == \A n \in Nodes : InQueue(q, n) => content[n] # NoMsg
HandledNodes(q) ==
    /\ \A d \in Devices : ~Handles(d) => elem[d] = NoNode
    /\ \A d \in Devices : Handles(d) =>
         elem[d] \in Nodes /\ content[elem[d]] # NoMsg /\ ~InQueue(q, elem[d])
    /\ \A d, e \in Devices : Handles(d) /\ elem[d] = elem[e] => d = e
SentNodes(q) ==
    \A s \in Senders : spc[s] = "link" =>
        /\ node[s] \in Nodes /\ content[node[s]] # NoMsg /\ ~InQueue(q, node[s])
        /\ \A d \in Devices : elem[d] # node[s]
NoneLost(q) ==
    \A n \in Nodes : content[n] # NoMsg =>
        \/ \E s \in Senders : spc[s] = "link" /\ node[s] = n
        \/ InQueue(q, n)
        \/ \E d \in Devices : elem[d] = n
Owned(q) == QueuedNodes(q) /\ HandledNodes(q) /\ SentNodes(q) /\ NoneLost(q)

(* A task that is about to follow a link has a node to follow it from. *)
Ends ==
    /\ \A s \in Senders : spc[s] \in {"link", "tail"} => node[s] \in Nodes
    /\ \A d \in Devices : Handles(d) => elem[d] \in Nodes

(* From where the device finds its queue empty to where it waits, a message that
   is linked has an event that is set or about to be. *)
Posting(d) == \E s \in Senders : spc[s] \in {"tail", "post"} /\ list[pos[s]] = d
Woken ==
    /\ \A d \in Devices : dpc[d] = "none" => first[d] = Q
    /\ \A d \in Devices : dpc[d] = "unlink" => first[d] # Q
    /\ \A d \in Devices : dpc[d] = "pend" /\ first[d] # Q => appMsg[d] \/ Posting(d)
    /\ \A d \in Devices : dpc[d] = "wait" /\ first[d] # Q => Posting(d)

Base == TypeOK /\ ListInv /\ Ends /\ Woken

Inv(q) == Base /\ OneRuns /\ Shape(q) /\ Owned(q)
Queues == [Devices -> Seq(Nodes)]
IInv   == \E q \in Queues : Inv(q)
-----------------------------------------------------------------------------
(* Who runs. *)
LEMMA SenderAlone ==
    ASSUME OnePriority, TypeOK, NEW s \in Senders, CanRun(s)
    PROVE  /\ \A u \in Senders : u # s => spc[u] = "idle"
           /\ \A d \in Devices : dpc[d] \in {"none", "wait", "woken", "process"}
<1>1. \A u \in Tasks \ {s} : ~Running(u)
  BY DEF OnePriority, CanRun, Tasks
<1>2. \A u \in Senders : u # s => spc[u] = "idle"
  BY <1>1 DEF Running, Label, Tasks, TypeOK
<1>3. ASSUME NEW d \in Devices PROVE dpc[d] \in {"none", "wait", "woken", "process"}
  <2>1. d \in Tasks \ {s} /\ d \notin Senders
    BY MessagesAssumption DEF Tasks
  <2> QED BY <1>1, <2>1 DEF Running, Label, TypeOK
<1> QED BY <1>2, <1>3

LEMMA DeviceAlone ==
    ASSUME OnePriority, TypeOK, NEW d \in Devices, CanRun(d)
    PROVE  /\ \A s \in Senders : spc[s] = "idle"
           /\ \A e \in Devices : e # d => dpc[e] \in {"none", "wait", "woken", "process"}
<1>1. \A u \in Tasks \ {d} : ~Running(u)
  BY DEF OnePriority, CanRun, Tasks
<1>2. ASSUME NEW s \in Senders PROVE spc[s] = "idle"
  <2>1. s \in Tasks \ {d}
    BY MessagesAssumption DEF Tasks
  <2> QED BY <1>1, <2>1 DEF Running, Label, TypeOK
<1>3. ASSUME NEW e \in Devices, e # d PROVE dpc[e] \in {"none", "wait", "woken", "process"}
  <2>1. e \in Tasks \ {d} /\ e \notin Senders
    BY <1>3, MessagesAssumption DEF Tasks
  <2> QED BY <1>1, <2>1 DEF Running, Label, TypeOK
<1> QED BY <1>2, <1>3

(* OneRuns in terms of the labels. *)
Idle(d) == dpc[d] \in {"none", "wait", "woken", "process"}
Alone ==
    /\ \A s, u \in Senders : spc[s] # "idle" /\ spc[u] # "idle" => s = u
    /\ \A d, e \in Devices : ~Idle(d) /\ ~Idle(e) => d = e
    /\ \A s \in Senders, d \in Devices : spc[s] = "idle" \/ Idle(d)
LEMMA OneRunsLabels == TypeOK => (OneRuns <=> Alone)
<1> SUFFICES ASSUME TypeOK PROVE OneRuns <=> Alone
  OBVIOUS
<1>1. \A s \in Senders : s \in Tasks /\ s \notin Devices /\ (Running(s) <=> spc[s] # "idle")
  BY MessagesAssumption DEF Running, Label, TypeOK, Tasks
<1>2. \A d \in Devices : d \in Tasks /\ d \notin Senders /\ (Running(d) <=> ~Idle(d))
  BY MessagesAssumption DEF Running, Label, TypeOK, Tasks, Idle
<1>3. Tasks = Senders \cup Devices
  BY DEF Tasks
<1> HIDE DEF Idle
<1> QED BY <1>1, <1>2, <1>3 DEF OneRuns, Alone
-----------------------------------------------------------------------------
(* A step of a sender, or of a device, by itself. *)
SenderStep(s) == Send(s) \/ Scan(s) \/ LinkLast(s) \/ MoveTail(s) \/ Post(s)
DeviceStep(d) == AddDevice(d) \/ Tick(d) \/ Check(d) \/ Pend(d) \/ Unlink(d) \/ FixTail(d) \/ Processed(d)

LEMMA Steps ==
    ASSUME Next PROVE (\E s \in Senders : SenderStep(s)) \/ (\E d \in Devices : DeviceStep(d))
BY DEF Next, Sending, Draining, SenderStep, DeviceStep

(* What a sender is at when it has run: the device and the node it works on. *)
LEMMA AtEntry ==
    ASSUME TypeOK, ListInv, NEW s \in Senders, spc[s] \in {"link", "tail", "post"}
    PROVE  pos[s] \in 1..Len(list) /\ list[pos[s]] \in Devices /\ Listed(list[pos[s]])
BY DEF TypeOK, ListInv, Listed

(* The message that Scan makes. *)
LEMMA NewMessage ==
    ASSUME TypeOK, ListInv, NEW s \in Senders, spc[s] # "idle"
    PROVE  [from |-> s, number |-> sent[s]] \in Messages
<1>1. sent[s] \in 1..MaxSent[s]
  BY MessagesAssumption DEF TypeOK, ListInv
<1>2. [from |-> s, number |-> sent[s]] \in [from : {s}, number : 1..MaxSent[s]]
  BY <1>1
<1> QED BY <1>2 DEF Messages

LEMMA TypeSender ==
    ASSUME Base, NEW s \in Senders, SenderStep(s)
    PROVE  TypeOK'
<1> USE DEF Base
<1> USE MessagesAssumption
<1>1. CASE Send(s)
  BY <1>1 DEF Send, TypeOK, queues, deviceVars
<1>2. CASE Scan(s)
  <2>1. [from |-> s, number |-> sent[s]] \in Messages
    BY <1>2, NewMessage DEF Scan
  <2>2. pos[s] <= Len(list) => pos[s] + 1 \in 1..(MaxDevices + 1)
    BY DEF TypeOK
  <2> HIDE MessagesAssumption
  <2>3. content' \in [Nodes -> Messages \cup {NoMsg}]
    BY <1>2, <2>1 DEF Scan, TypeOK
  <2>4. pos' \in [Senders -> 1..(MaxDevices + 1)]
    BY <1>2, <2>2, MessagesAssumption DEF Scan, TypeOK
  <2> QED BY <1>2, <2>3, <2>4 DEF Scan, TypeOK, queues, deviceVars
<1>3. CASE LinkLast(s)
  <2>1. list[pos[s]] \in Devices /\ node[s] \in Nodes
    BY <1>3, AtEntry DEF LinkLast, Ends
  <2> QED BY <1>3, <2>1 DEF LinkLast, TypeOK, deviceVars
<1>4. CASE MoveTail(s)
  <2>1. list[pos[s]] \in Devices
    BY <1>4, AtEntry DEF MoveTail
  <2>2. node[s] \in Nodes
    BY <1>4 DEF MoveTail, Ends
  <2> QED BY <1>4, <2>1, <2>2 DEF MoveTail, TypeOK, deviceVars
<1>5. CASE Post(s)
  <2>1. list[pos[s]] \in Devices /\ pos[s] \in 1..Len(list)
    BY <1>5, AtEntry DEF Post
  <2>2. pos' \in [Senders -> 1..(MaxDevices + 1)]
    BY <1>5, <2>1 DEF Post, TypeOK
  <2> HIDE MessagesAssumption
  <2> QED BY <1>5, <2>1, <2>2 DEF Post, TypeOK, queues
<1> QED BY <1>1, <1>2, <1>3, <1>4, <1>5 DEF SenderStep

LEMMA TypeDevice ==
    ASSUME Base, NEW d \in Devices, DeviceStep(d)
    PROVE  TypeOK'
<1> USE DEF Base
<1> USE MessagesAssumption
<1>1. CASE AddDevice(d)
  BY <1>1 DEF AddDevice, TypeOK, queues, senderVars
<1>2. CASE Tick(d)
  BY <1>2 DEF Tick, TypeOK, queues, senderVars
<1>3. CASE Check(d)
  BY <1>3 DEF Check, TypeOK, queues, senderVars
<1>4. CASE Pend(d)
  BY <1>4 DEF Pend, TypeOK, queues, senderVars
<1>5. CASE Unlink(d)
  <2>1. first[d] \in Nodes
    BY <1>5 DEF Unlink, Woken, TypeOK
  <2> QED BY <1>5, <2>1 DEF Unlink, TypeOK, senderVars
<1>6. CASE FixTail(d)
  BY <1>6 DEF FixTail, TypeOK, senderVars
<1>7. CASE Processed(d)
  BY <1>7 DEF Processed, TypeOK, queues, senderVars
<1> QED BY <1>1, <1>2, <1>3, <1>4, <1>5, <1>6, <1>7 DEF DeviceStep

LEMMA ListSender ==
    ASSUME Base, NEW s \in Senders, SenderStep(s)
    PROVE  ListInv'
<1> USE DEF Base
<1>1. TypeOK'
  BY TypeSender
<1>6. list' = list /\ Len(list) \in Nat
  BY DEF SenderStep, Send, Scan, LinkLast, MoveTail, Post, TypeOK
<1>7. ASSUME dpc' = dpc PROVE \A d \in Devices : dpc'[d] = "none" <=> ~Listed(d)'
  BY <1>6, <1>7 DEF ListInv, Listed
<1>2. CASE Send(s)
  <2>1. dpc' = dpc
    BY <1>2 DEF Send, deviceVars
  <2>2. \A u \in Senders : u # s => pos'[u] = pos[u] /\ spc'[u] = spc[u] /\ sent'[u] = sent[u]
    BY <1>2 DEF Send, TypeOK
  <2>3. pos'[s] = 1 /\ spc'[s] = "scan" /\ sent'[s] = sent[s] + 1 /\ sent[s] \in Nat
    BY <1>2 DEF Send, TypeOK
  <2> QED BY <1>6, <1>7, <2>1, <2>2, <2>3 DEF ListInv
<1>3. CASE Scan(s)
  <2>1. dpc' = dpc /\ sent' = sent
    BY <1>3 DEF Scan, deviceVars
  <2>2. \A u \in Senders : u # s => pos'[u] = pos[u] /\ spc'[u] = spc[u]
    BY <1>3 DEF Scan, TypeOK
  <2>3. /\ pos'[s] <= Len(list) + 1
        /\ spc'[s] \in {"link", "tail", "post"} => pos'[s] <= Len(list)
        /\ sent[s] >= 1
    BY <1>3, <1>6 DEF Scan, Matches, TypeOK, ListInv
  <2> QED BY <1>6, <1>7, <2>1, <2>2, <2>3 DEF ListInv
<1>4. CASE LinkLast(s) \/ MoveTail(s)
  BY <1>4 DEF LinkLast, MoveTail, TypeOK, ListInv, Listed, deviceVars
<1>5. CASE Post(s)
  <2>1. list[pos[s]] \in Devices /\ pos[s] \in 1..Len(list)
    BY <1>5, AtEntry DEF Post
  <2>2. \A u \in Senders : u # s => pos'[u] = pos[u] /\ spc'[u] = spc[u]
    BY <1>5 DEF Post, TypeOK
  <2>3. pos'[s] <= Len(list) + 1 /\ spc'[s] = "scan" /\ sent' = sent /\ sent[s] >= 1
    BY <1>5, <1>6, <2>1 DEF Post, TypeOK, ListInv
  <2>4. \A d \in Devices : dpc'[d] = "none" <=> dpc[d] = "none"
    BY <1>5, <2>1 DEF Post, TypeOK
  <2> QED BY <1>6, <2>2, <2>3, <2>4 DEF ListInv, Listed
<1> QED BY <1>2, <1>3, <1>4, <1>5 DEF SenderStep

LEMMA ListDevice ==
    ASSUME Base, NEW d \in Devices, DeviceStep(d)
    PROVE  ListInv'
<1> USE DEF Base
<1>1. CASE AddDevice(d)
  <2>1. list' = Append(list, d) /\ list \in Seq(Devices)
    BY <1>1 DEF AddDevice, TypeOK
  <2>2. Len(list') = Len(list) + 1
    BY <2>1
  <2>3. \A e \in Devices : Listed(e)' <=> Listed(e) \/ e = d
    BY <2>1 DEF Listed
  <2>4. dpc' = [dpc EXCEPT ![d] = "wait"] /\ UNCHANGED <<spc, pos, sent>>
    BY <1>1 DEF AddDevice, senderVars
  <2>5. \A e \in Devices : dpc'[e] = "none" <=> ~Listed(e)'
    BY <2>3, <2>4 DEF TypeOK, ListInv
  <2>6. Len(list) \in Nat /\ pos \in [Senders -> Nat]
    BY <2>1 DEF TypeOK
  <2> QED BY <2>2, <2>4, <2>5, <2>6 DEF ListInv
<1>2. CASE ~AddDevice(d)
  <2>1. UNCHANGED <<list, spc, pos, sent>>
    BY <1>2 DEF DeviceStep, Tick, Check, Pend, Unlink, FixTail, Processed, senderVars
  <2>2. \A e \in Devices : dpc'[e] = "none" <=> dpc[e] = "none"
    BY <1>2 DEF DeviceStep, Tick, Check, Pend, Unlink, FixTail, Processed, TypeOK
  <2> QED BY <2>1, <2>2 DEF ListInv, Listed
<1> QED BY <1>1, <1>2
LEMMA EndsSender ==
    ASSUME Base, NEW s \in Senders, SenderStep(s)
    PROVE  Ends'
<1> USE DEF Base
<1>1. \A d \in Devices : Handles(d)' => Handles(d) /\ elem'[d] = elem[d]
  BY DEF SenderStep, Send, Scan, LinkLast, MoveTail, Post, TypeOK, Handles, deviceVars
<1>2. \A u \in Senders : u # s => spc'[u] = spc[u] /\ node'[u] = node[u]
  BY DEF SenderStep, Send, Scan, LinkLast, MoveTail, Post, TypeOK
<1>3. spc'[s] \in {"link", "tail"} => node'[s] \in Nodes
  BY DEF SenderStep, Send, Scan, LinkLast, MoveTail, Post, TypeOK, Ends
<1> QED BY <1>1, <1>2, <1>3 DEF Ends

LEMMA EndsDevice ==
    ASSUME Base, NEW d \in Devices, DeviceStep(d)
    PROVE  Ends'
<1> USE DEF Base
<1>1. UNCHANGED <<spc, node>>
  BY DEF DeviceStep, AddDevice, Tick, Check, Pend, Unlink, FixTail, Processed, senderVars
<1>2. \A e \in Devices : e # d => elem'[e] = elem[e] /\ (Handles(e)' <=> Handles(e))
  BY DEF DeviceStep, AddDevice, Tick, Check, Pend, Unlink, FixTail, Processed, TypeOK, Handles
<1>3. CASE Unlink(d)
  <2>1. first[d] \in Nodes
    BY <1>3 DEF Unlink, Woken, TypeOK
  <2>2. elem'[d] \in Nodes
    BY <1>3, <2>1 DEF Unlink, TypeOK
  <2> QED BY <1>1, <1>2, <2>2 DEF Ends
<1>4. CASE FixTail(d)
  <2>1. elem' = elem /\ Handles(d)
    BY <1>4 DEF FixTail, Handles
  <2> QED BY <1>1, <1>2, <2>1 DEF Ends
<1>5. CASE ~(Unlink(d) \/ FixTail(d))
  <2>1. ~Handles(d)'
    BY <1>5 DEF DeviceStep, AddDevice, Tick, Check, Pend, Processed, TypeOK, Handles
  <2> QED BY <1>1, <1>2, <2>1 DEF Ends
<1> QED BY <1>3, <1>4, <1>5

LEMMA WokenSender ==
    ASSUME Base, NEW s \in Senders, SenderStep(s)
    PROVE  Woken'
<1> USE DEF Base
<1>1. list' = list /\ \A u \in Senders : u # s => spc'[u] = spc[u] /\ pos'[u] = pos[u]
  BY DEF SenderStep, Send, Scan, LinkLast, MoveTail, Post, TypeOK
<1>4. CASE Send(s) \/ Scan(s)
  <2>1. UNCHANGED <<dpc, first, appMsg>> /\ spc[s] \notin {"tail", "post"}
    BY <1>4 DEF Send, Scan, queues, deviceVars
  <2>2. \A d \in Devices : Posting(d) => Posting(d)'
    BY <1>1, <2>1 DEF Posting
  <2> QED BY <2>1, <2>2 DEF Woken
<1>5. CASE LinkLast(s)
  <2>1. /\ spc[s] = "link" /\ spc'[s] = "tail" /\ UNCHANGED <<dpc, pos, appMsg>>
        /\ \A d \in Devices : d # list[pos[s]] => first'[d] = first[d]
    BY <1>5 DEF LinkLast, deviceVars, TypeOK
  <2>2. list[pos[s]] \in Devices /\ dpc[list[pos[s]]] # "none"
    BY <2>1, AtEntry DEF ListInv
  <2>3. \A d \in Devices : Posting(d) \/ d = list[pos[s]] => Posting(d)'
    BY <1>1, <2>1 DEF Posting
  <2>4. \A d \in Devices : first[d] # Q => first'[d] # Q
    <3>1. node[s] \in Nodes /\ node[s] # Q
      BY <2>1, MessagesAssumption DEF Ends
    <3>2. first' = first \/ first' = [first EXCEPT ![list[pos[s]]] = node[s]]
      BY <1>5 DEF LinkLast
    <3> QED BY <2>2, <3>1, <3>2 DEF TypeOK
  <2> QED BY <2>1, <2>2, <2>3, <2>4 DEF Woken
<1>6. CASE MoveTail(s)
  <2>1. spc[s] = "tail" /\ spc'[s] = "post" /\ UNCHANGED <<dpc, first, appMsg, pos>>
    BY <1>6 DEF MoveTail, TypeOK, deviceVars
  <2>2. \A d \in Devices : Posting(d) => Posting(d)'
    BY <1>1, <2>1 DEF Posting
  <2> QED BY <2>1, <2>2 DEF Woken
<1>7. CASE Post(s)
  <2>1. PICK e \in Devices : e = list[pos[s]]
    BY <1>7, AtEntry DEF Post
  <2>2. /\ first' = first /\ dpc'[e] # "wait" /\ ((dpc'[e] = dpc[e] /\ appMsg'[e]) \/ dpc'[e] = "woken")
        /\ \A d \in Devices : d # e => dpc'[d] = dpc[d] /\ appMsg'[d] = appMsg[d]
    BY <1>7, <2>1 DEF Post, queues, TypeOK
  <2>3. \A d \in Devices : d # e /\ Posting(d) => Posting(d)'
    BY <1>1, <2>1 DEF Posting
  <2> QED BY <2>2, <2>3 DEF Woken
<1> QED BY <1>4, <1>5, <1>6, <1>7 DEF SenderStep

LEMMA WokenDevice ==
    ASSUME Base, NEW d \in Devices, DeviceStep(d)
    PROVE  Woken'
<1> USE DEF Base
<1>1. \A e \in Devices : e # d => dpc'[e] = dpc[e] /\ first'[e] = first[e] /\ appMsg'[e] = appMsg[e]
  BY DEF DeviceStep, AddDevice, Tick, Check, Pend, Unlink, FixTail, Processed, TypeOK, queues
<1>2. UNCHANGED senderVars
  BY DEF DeviceStep, AddDevice, Tick, Check, Pend, Unlink, FixTail, Processed
<1>3. CASE AddDevice(d)
  <2>1. \A e \in Devices : ~Posting(e) /\ dpc[e] # "pend"
    <3>1. \A s \in Senders : spc[s] \notin {"tail", "post"}
      BY <1>3 DEF AddDevice, Running, Label, Tasks
    <3>2. \A e \in Devices : e \in Tasks /\ e \notin Senders
      BY MessagesAssumption DEF Tasks
    <3> QED BY <1>3, <3>1, <3>2 DEF AddDevice, Running, Label, Posting
  <2>2. dpc[d] = "none" /\ dpc'[d] = "wait" /\ first'[d] = Q
    BY <1>3 DEF AddDevice, ListInv, Woken, TypeOK, queues
  <2> QED BY <1>1, <2>1, <2>2 DEF Woken
<1>4. CASE ~AddDevice(d)
  <2>1. list' = list
    BY <1>4 DEF DeviceStep, Tick, Check, Pend, Unlink, FixTail, Processed
  <2>2. \A e \in Devices : Posting(e)' <=> Posting(e)
    BY <1>2, <2>1 DEF Posting, senderVars
  <2>3. /\ dpc'[d] \in {"none", "pend"} => first'[d] = Q
        /\ dpc'[d] = "unlink" => first'[d] # Q
        /\ dpc'[d] = "wait" /\ first'[d] # Q => Posting(d)
    BY <1>4 DEF DeviceStep, Tick, Check, Pend, Unlink, FixTail, Processed, TypeOK, queues, Woken
  <2> QED BY <1>1, <2>2, <2>3 DEF Woken
<1> QED BY <1>3, <1>4

LEMMA BaseInit == Init => Base
<1> SUFFICES ASSUME Init PROVE Base
  OBVIOUS
<1> USE MessagesAssumption
<1>1. TypeOK
  <2>1. list \in Seq(Devices) /\ Len(list) = 0
    BY DEF Init
  <2>2. pos \in [Senders -> 1..(MaxDevices + 1)]
    BY DEF Init
  <2> QED BY <2>1, <2>2 DEF Init, TypeOK
<1>2. ListInv
  BY DEF Init, ListInv, Listed
<1>3. Ends /\ Woken
  BY DEF Init, Ends, Handles, Woken
<1> QED BY <1>1, <1>2, <1>3 DEF Base

LEMMA BaseStutter == Base /\ UNCHANGED vars => Base'
<1> SUFFICES ASSUME Base, UNCHANGED vars PROVE Base'
  OBVIOUS
<1>1. UNCHANGED queues /\ UNCHANGED senderVars /\ UNCHANGED deviceVars
      /\ UNCHANGED <<prio, list, content, appMsg>>
  BY DEF vars, queues, senderVars, deviceVars
<1>2. TypeOK' /\ ListInv'
  BY <1>1 DEF Base, TypeOK, ListInv, Listed, queues, senderVars, deviceVars
<1>3. Ends' /\ Woken'
  BY <1>1 DEF Base, Ends, Handles, Woken, Posting, queues, senderVars, deviceVars
<1> QED BY <1>2, <1>3 DEF Base

(* Whatever the priorities. *)
THEOREM BaseHolds == Spec => []Base
<1>1. Base /\ [Next]_vars => Base'
  <2> SUFFICES ASSUME Base, [Next]_vars PROVE Base'
    OBVIOUS
  <2>1. ASSUME NEW s \in Senders, SenderStep(s) PROVE Base'
    BY <2>1, TypeSender, ListSender, EndsSender, WokenSender DEF Base
  <2>2. ASSUME NEW d \in Devices, DeviceStep(d) PROVE Base'
    BY <2>2, TypeDevice, ListDevice, EndsDevice, WokenDevice DEF Base
  <2> QED BY <2>1, <2>2, BaseStutter, Steps
<1> QED BY <1>1, BaseInit, PTL DEF Spec
-----------------------------------------------------------------------------
(* Between tasks of one priority, one runs. *)
LEMMA RunsSender ==
    ASSUME OnePriority, NEW q \in Queues, Inv(q), NEW s \in Senders, SenderStep(s)
    PROVE  OneRuns'
<1>1. TypeOK /\ TypeOK'
  BY TypeSender DEF Inv, Base
<1>2. CanRun(s)
  BY DEF SenderStep, Send, Scan, LinkLast, MoveTail, Post
<1>3. /\ \A u \in Senders : u # s => spc[u] = "idle"
      /\ \A d \in Devices : Idle(d)
  BY <1>1, <1>2, SenderAlone DEF Idle
<1>4. \A u \in Senders : u # s => spc'[u] = "idle"
  BY <1>1, <1>3 DEF SenderStep, Send, Scan, LinkLast, MoveTail, Post, TypeOK
<1>5. \A d \in Devices : Idle(d)'
  <2>1. CASE Post(s)
    <3>1. list[pos[s]] \in Devices
      BY <2>1, AtEntry DEF Inv, Base, Post
    <3> QED BY <1>1, <1>3, <2>1, <3>1 DEF Post, Idle, TypeOK
  <2>2. CASE dpc' = dpc
    BY <1>3, <2>2 DEF Idle
  <2> QED BY <2>1, <2>2 DEF SenderStep, Send, Scan, LinkLast, MoveTail, deviceVars
<1>6. TypeOK' => (OneRuns' <=> Alone')
  BY OneRunsLabels, PTL
<1> HIDE DEF Idle
<1>7. Alone'
  BY <1>4, <1>5 DEF Alone
<1> QED BY <1>1, <1>6, <1>7

LEMMA RunsDevice ==
    ASSUME OnePriority, NEW q \in Queues, Inv(q), NEW d \in Devices, DeviceStep(d)
    PROVE  OneRuns'
<1>1. TypeOK /\ TypeOK'
  BY TypeDevice DEF Inv, Base
<1>2. spc' = spc
  BY DEF DeviceStep, AddDevice, Tick, Check, Pend, Unlink, FixTail, Processed, senderVars
<1>3. /\ \A s, u \in Senders : spc[s] # "idle" /\ spc[u] # "idle" => s = u
      /\ \A e, f \in Devices : ~Idle(e) /\ ~Idle(f) => e = f
      /\ \A s \in Senders, e \in Devices : spc[s] = "idle" \/ Idle(e)
  BY <1>1, OneRunsLabels DEF Inv, Base, Alone
<1>4. \A e \in Devices : e # d => dpc'[e] = dpc[e]
  BY <1>1 DEF DeviceStep, AddDevice, Tick, Check, Pend, Unlink, FixTail, Processed, TypeOK
<1>5. \/ Idle(d)' 
      \/ /\ \A s \in Senders : spc[s] = "idle"
         /\ \A e \in Devices : e # d => Idle(e)
  <2>1. CASE CanRun(d)
    BY <1>1, <2>1, DeviceAlone DEF Idle
  <2>2. CASE AddDevice(d) \/ Tick(d)
    BY <1>1, <2>2 DEF AddDevice, Tick, Idle, TypeOK
  <2> QED BY <2>1, <2>2 DEF DeviceStep, Check, Pend, Unlink, FixTail, Processed
<1>6. TypeOK' => (OneRuns' <=> Alone')
  BY OneRunsLabels, PTL
<1>7. \A e \in Devices : e # d => (Idle(e)' <=> Idle(e))
  BY <1>4 DEF Idle
<1> HIDE DEF Idle
<1>8. Alone'
  <2>1. CASE Idle(d)'
    BY <1>2, <1>3, <1>7, <2>1 DEF Alone
  <2>2. CASE /\ \A s \in Senders : spc[s] = "idle"
             /\ \A e \in Devices : e # d => Idle(e)
    BY <1>2, <1>3, <1>7, <2>2 DEF Alone
  <2> QED BY <1>5, <2>1, <2>2
<1> QED BY <1>1, <1>6, <1>8

-----------------------------------------------------------------------------
(* Steps that leave the queues, or the owners of the nodes, as they are. *)
LEMMA QuietShape ==
    ASSUME NEW q \in Queues, Shape(q), UNCHANGED queues,
           \A s \in Senders : spc'[s] = "tail" <=> spc[s] = "tail",
           \A s \in Senders : spc[s] = "tail" => node'[s] = node[s] /\ list'[pos'[s]] = list[pos[s]],
           \A d \in Devices : dpc'[d] = "fix" <=> dpc[d] = "fix",
           \A d \in Devices : dpc[d] = "fix" => elem'[d] = elem[d]
    PROVE  Shape(q)'
<1>1. Links(q)'
  BY DEF Shape, Links, queues, At
<1>2. Once(q)'
  BY DEF Shape, Once
<1>3. \A s \in Senders, d \in Devices : Linking(s, d)' <=> Linking(s, d)
  BY DEF Linking
<1>4. Tails(q)'
  BY <1>3 DEF Shape, Tails, queues, At
<1> QED BY <1>1, <1>2, <1>4 DEF Shape

LEMMA QuietOwned ==
    ASSUME NEW q \in Queues, Owned(q), UNCHANGED <<content, elem>>,
           \A s \in Senders : spc'[s] = "link" <=> spc[s] = "link",
           \A s \in Senders : spc[s] = "link" => node'[s] = node[s],
           \A d \in Devices : Handles(d)' <=> Handles(d)
    PROVE  Owned(q)'
<1>1. \A n : InQueue(q, n)' <=> InQueue(q, n)
  BY DEF InQueue
<1> HIDE DEF InQueue
<1>2. QueuedNodes(q)'
  BY <1>1 DEF Owned, QueuedNodes
<1>3. HandledNodes(q)'
  BY <1>1 DEF Owned, HandledNodes
<1>4. SentNodes(q)'
  BY <1>1 DEF Owned, SentNodes
<1>5. NoneLost(q)'
  BY <1>1 DEF Owned, NoneLost
<1> QED BY <1>2, <1>3, <1>4, <1>5 DEF Owned

LEMMA QuietSender ==
    ASSUME NEW q \in Queues, Inv(q), NEW s \in Senders,
           Send(s) \/ (Scan(s) /\ content' = content) \/ Post(s)
    PROVE  Shape(q)' /\ Owned(q)'
<1> USE DEF Inv, Base
<1>1. UNCHANGED queues /\ UNCHANGED <<content, elem>> /\ list' = list
  BY DEF Send, Scan, Post, deviceVars
<1>2. /\ \A u \in Senders : u # s => spc'[u] = spc[u] /\ node'[u] = node[u] /\ pos'[u] = pos[u]
      /\ spc[s] \notin {"tail", "link"}
  BY DEF Send, Scan, Post, TypeOK
<1>3. spc'[s] \notin {"tail", "link"}
  BY <1>1, MessagesAssumption, NewMessage DEF Send, Scan, Post, TypeOK
<1>4. \A d \in Devices : Handles(d)' <=> Handles(d)
  BY DEF Send, Scan, Post, TypeOK, Handles, deviceVars
<1>5. \A d \in Devices : dpc'[d] = "fix" <=> dpc[d] = "fix"
  BY DEF Send, Scan, Post, TypeOK, deviceVars
<1>6. Shape(q)'
  BY <1>1, <1>2, <1>3, <1>5, QuietShape
<1>7. Owned(q)'
  BY <1>1, <1>2, <1>3, <1>4, QuietOwned
<1> QED BY <1>6, <1>7

LEMMA QuietDevice ==
    ASSUME NEW q \in Queues, Inv(q), NEW d \in Devices,
           AddDevice(d) \/ Tick(d) \/ Check(d) \/ Pend(d)
    PROVE  Shape(q)' /\ Owned(q)'
<1> USE DEF Inv, Base
<1>1. UNCHANGED queues /\ UNCHANGED <<content, elem>> /\ UNCHANGED senderVars
  BY DEF AddDevice, Tick, Check, Pend
<1>2. ASSUME NEW s \in Senders, spc[s] = "tail" PROVE list'[pos'[s]] = list[pos[s]]
  <2>1. CASE AddDevice(d)
    BY <1>2, <2>1 DEF AddDevice, Running, Label, Tasks
  <2> QED BY <1>1, <2>1 DEF Tick, Check, Pend, senderVars
<1>3. \A e \in Devices : e # d => dpc'[e] = dpc[e]
  BY DEF AddDevice, Tick, Check, Pend, TypeOK
<1>4. ~Handles(d) /\ ~Handles(d)'
  BY DEF AddDevice, Tick, Check, Pend, TypeOK, Handles, ListInv
<1>5. \A e \in Devices : (Handles(e)' <=> Handles(e)) /\ (dpc'[e] = "fix" <=> dpc[e] = "fix")
  BY <1>3, <1>4 DEF Handles
<1>6. Shape(q)'
  BY <1>1, <1>2, <1>5, QuietShape DEF senderVars
<1>7. Owned(q)'
  BY <1>1, <1>5, QuietOwned DEF senderVars
<1> QED BY <1>6, <1>7
-----------------------------------------------------------------------------
(* The steps that move a node from one owner to the next. *)
LEMMA KeepsAllocate ==
    ASSUME OnePriority, NEW q \in Queues, Inv(q), NEW s \in Senders,
           Scan(s), content' # content
    PROVE  Shape(q)' /\ Owned(q)'
<1> USE DEF Inv, Base
<1>1. PICK n \in Nodes :
        /\ content[n] = NoMsg
        /\ content' = [content EXCEPT ![n] = [from |-> s, number |-> sent[s]]]
        /\ node' = [node EXCEPT ![s] = n] /\ spc' = [spc EXCEPT ![s] = "link"]
        /\ UNCHANGED <<pos, list, dpc, elem>> /\ UNCHANGED queues
  BY DEF Scan, deviceVars
<1>2. spc[s] = "scan" /\ CanRun(s)
  BY DEF Scan
<1>3. content'[n] # NoMsg
  BY <1>1, <1>2, NewMessage, MessagesAssumption DEF TypeOK
<1>4. \A u \in Senders : u # s => spc[u] = "idle" /\ spc'[u] = "idle"
  BY <1>1, <1>2, SenderAlone DEF TypeOK
<1>5. \A m \in Nodes : m # n => content'[m] = content[m]
  BY <1>1 DEF TypeOK
<1>6. spc'[s] = "link" /\ node'[s] = n
  BY <1>1 DEF TypeOK
<1>7. Shape(q)'
  <2>1. \A u \in Senders : spc[u] # "tail" /\ spc'[u] # "tail"
    BY <1>2, <1>4, <1>6
  <2> QED BY <1>1, <2>1, QuietShape
<1>8. ~InQueue(q, n) /\ \A d \in Devices : elem[d] # n
  <2>1. \A d \in Devices : elem[d] # n
    BY <1>1, MessagesAssumption DEF Owned, HandledNodes
  <2> QED BY <1>1, <2>1 DEF Owned, QueuedNodes
<1>9. \A m : InQueue(q, m)' <=> InQueue(q, m)
  BY DEF InQueue
<1> HIDE DEF InQueue
<1>10. QueuedNodes(q)'
  BY <1>3, <1>5, <1>9 DEF Owned, QueuedNodes
<1>11. HandledNodes(q)'
  <2>1. \A d \in Devices : Handles(d)' <=> Handles(d)
    BY <1>1 DEF Handles
  <2> QED BY <1>1, <1>5, <1>8, <1>9, <2>1 DEF Owned, HandledNodes
<1>12. SentNodes(q)'
  BY <1>1, <1>3, <1>4, <1>6, <1>8, <1>9 DEF SentNodes
<1>13. NoneLost(q)'
  BY <1>1, <1>2, <1>4, <1>5, <1>6, <1>9 DEF Owned, NoneLost
<1> QED BY <1>7, <1>10, <1>11, <1>12, <1>13 DEF Owned

(* q with n appended for d, and q without the first node of d. *)
Put(q, d, n) == [q EXCEPT ![d] = Append(@, n)]
Rest(q, d)   == [q EXCEPT ![d] = Tail(@)]

LEMMA PutShape ==
    ASSUME NEW q \in Queues, NEW d \in Devices, NEW n \in Nodes
    PROVE  /\ Put(q, d, n) \in Queues
           /\ \A e \in Devices : e # d => Put(q, d, n)[e] = q[e]
           /\ Put(q, d, n)[d] \in Seq(Nodes)
           /\ Len(q[d]) \in Nat /\ Len(Put(q, d, n)[d]) = Len(q[d]) + 1
           /\ \A k \in 1..Len(q[d]) : Put(q, d, n)[d][k] = q[d][k] /\ q[d][k] \in Nodes
           /\ Put(q, d, n)[d][Len(q[d]) + 1] = n
<1>1. q[d] \in Seq(Nodes)
  BY DEF Queues
<1>2. Append(q[d], n) \in Seq(Nodes)
  BY <1>1
<1>3. Put(q, d, n)[d] = Append(q[d], n)
  BY DEF Put, Queues
<1>4. Put(q, d, n) \in Queues /\ \A e \in Devices : e # d => Put(q, d, n)[e] = q[e]
  BY <1>2 DEF Put, Queues
<1> QED BY <1>1, <1>2, <1>3, <1>4

LEMMA RestShape ==
    ASSUME NEW q \in Queues, NEW d \in Devices, Len(q[d]) > 0
    PROVE  /\ Rest(q, d) \in Queues
           /\ \A e \in Devices : e # d => Rest(q, d)[e] = q[e]
           /\ Rest(q, d)[d] \in Seq(Nodes)
           /\ Len(q[d]) \in Nat /\ Len(Rest(q, d)[d]) = Len(q[d]) - 1
           /\ \A k \in 1..(Len(q[d]) - 1) : Rest(q, d)[d][k] = q[d][k + 1]
           /\ \A k \in 1..Len(q[d]) : q[d][k] \in Nodes
<1>1. q[d] \in Seq(Nodes) /\ q[d] # <<>>
  BY DEF Queues
<1>2. Tail(q[d]) \in Seq(Nodes)
  BY <1>1
<1>3. Rest(q, d)[d] = Tail(q[d])
  BY DEF Rest, Queues
<1>4. Rest(q, d) \in Queues /\ \A e \in Devices : e # d => Rest(q, d)[e] = q[e]
  BY <1>2 DEF Rest, Queues
<1> QED BY <1>1, <1>2, <1>3, <1>4

LEMMA KeepsLink ==
    ASSUME OnePriority, NEW q \in Queues, Inv(q), NEW s \in Senders, LinkLast(s),
           NEW r, r = Put(q, list[pos[s]], node[s])
    PROVE  Shape(r)' /\ Owned(r)'
<1> USE DEF Inv, Base
<1> DEFINE d == list[pos[s]]
           n == node[s]
           L == Len(q[d])
<1>1. spc[s] = "link" /\ CanRun(s) /\ d \in Devices /\ Listed(d)
  BY AtEntry DEF LinkLast
<1>2. n \in Nodes /\ content[n] # NoMsg /\ ~InQueue(q, n) /\ \A e \in Devices : elem[e] # n
  BY <1>1 DEF Owned, SentNodes
<1>3. /\ spc' = [spc EXCEPT ![s] = "tail"]
      /\ UNCHANGED <<list, tail, content, pos, node, dpc, elem>>
  BY DEF LinkLast, deviceVars
<1>4. /\ \A u \in Senders : u # s => spc[u] = "idle" /\ spc'[u] = "idle"
      /\ spc'[s] = "tail"
      /\ \A e \in Devices : dpc[e] # "fix"
  BY <1>1, <1>3, SenderAlone DEF TypeOK
<1>5. /\ r \in Queues /\ r[d] \in Seq(Nodes) /\ \A e \in Devices : e # d => r[e] = q[e]
      /\ L \in Nat /\ Len(r[d]) = L + 1 /\ r[d][L + 1] = n
      /\ \A k \in 1..L : r[d][k] = q[d][k] /\ q[d][k] \in Nodes
  <2>1. r = Put(q, d, n)
    OBVIOUS
  <2> HIDE DEF d, n
  <2> QED BY <1>1, <1>2, <2>1, PutShape
<1>6. (L = 0 => tail[d] = Q) /\ (L > 0 => tail[d] = q[d][L] /\ tail[d] # Q)
  <2>1. \A u \in Senders : ~Linking(u, d)
    BY <1>1, <1>4 DEF Linking
  <2>2. L > 0 => q[d][L] \in Nodes
    BY <1>5
  <2>3. dpc[d] # "fix"
    BY <1>1, <1>4
  <2> HIDE DEF d, n
  <2> QED BY <1>1, <2>1, <2>2, <2>3, MessagesAssumption DEF Shape, Tails
<1>7. \A e \in Devices : \A k \in 1..Len(q[e]) : q[e][k] # n
  BY <1>2 DEF InQueue
<1>8. /\ L = 0 => first' = [first EXCEPT ![d] = n] /\ link' = [link EXCEPT ![n] = Q]
      /\ L > 0 => first' = first /\ link' = [link EXCEPT ![n] = Q, ![q[d][L]] = n]
  BY <1>6 DEF LinkLast
<1>9. /\ link'[n] = Q /\ (L > 0 => link'[q[d][L]] = n)
      /\ \A m \in Nodes : m # n /\ (L > 0 => m # q[d][L]) => link'[m] = link[m]
  <2>1. CASE L = 0
    BY <1>2, <1>8, <2>1 DEF TypeOK
  <2>2. CASE L > 0
    <3>1. q[d][L] \in Nodes /\ q[d][L] # n
      BY <1>1, <1>5, <1>7, <2>2
    <3> QED BY <1>2, <1>8, <2>2, <3>1 DEF TypeOK
  <2> QED BY <1>5, <2>1, <2>2
<1>10. \A e \in Devices : e # d => first'[e] = first[e]
  <2>1. CASE L = 0
    BY <1>1, <1>8, <2>1 DEF TypeOK
  <2>2. CASE L > 0
    BY <1>8, <2>2
  <2> QED BY <1>5, <2>1, <2>2
<1>11. first'[d] = At(r[d], 1)
  <2>1. CASE L = 0
    BY <1>1, <1>5, <1>8, <2>1 DEF TypeOK, At
  <2>2. CASE L > 0
    BY <1>1, <1>5, <1>8, <2>2 DEF At, Shape, Links
  <2> QED BY <1>5, <2>1, <2>2
<1> HIDE DEF d, n, L
<1>12. Links(r)'
  <2>1. ASSUME NEW e \in Devices, e # d
        PROVE  first'[e] = At(r[e], 1) /\ \A k \in 1..Len(r[e]) : link'[r[e][k]] = At(r[e], k + 1)
    <3>1. first'[e] = At(r[e], 1)
      BY <1>5, <1>10, <2>1 DEF Shape, Links
    <3>2. ASSUME NEW k \in 1..Len(q[e]) PROVE link'[q[e][k]] = At(q[e], k + 1)
      <4>1. q[e][k] \in Nodes /\ q[e][k] # n
        BY <1>7 DEF Queues
      <4>2. L > 0 => q[e][k] # q[d][L]
        BY <1>1, <1>5, <2>1 DEF Shape, Once, L
      <4> QED BY <1>9, <4>1, <4>2 DEF Shape, Links
    <3> QED BY <1>5, <2>1, <3>1, <3>2
  <2>2. ASSUME NEW k \in 1..Len(r[d]) PROVE link'[r[d][k]] = At(r[d], k + 1)
    <3>1. CASE k = L + 1
      BY <1>5, <1>9, <3>1 DEF At
    <3>2. CASE k = L /\ L > 0
      BY <1>5, <1>9, <3>2 DEF At
    <3>3. CASE k < L
      <4>1. q[d][k] \in Nodes /\ q[d][k] # n /\ r[d][k] = q[d][k] /\ r[d][k + 1] = q[d][k + 1]
        <5>1. k \in 1..L /\ k + 1 \in 1..L
          BY <1>5, <3>3
        <5>2. q[d][k] # n
          BY <1>1, <1>7, <5>1 DEF L
        <5> QED BY <1>5, <5>1, <5>2
      <4>2. q[d][k] # q[d][L]
        BY <1>1, <1>5, <3>3 DEF Shape, Once, L
      <4>3. link[q[d][k]] = q[d][k + 1]
        BY <1>1, <1>5, <3>3 DEF Shape, Links, L, At
      <4> QED BY <1>5, <1>9, <3>3, <4>1, <4>2, <4>3 DEF At
    <3> QED BY <1>5, <3>1, <3>2, <3>3
  <2>3. \A e \in Devices : /\ first'[e] = At(r[e], 1)
                            /\ \A k \in 1..Len(r[e]) : link'[r[e][k]] = At(r[e], k + 1)
    BY <1>11, <2>1, <2>2
  <2> QED BY <2>3 DEF Links, At
<1>13. \A e \in Devices : \A j \in 1..Len(r[e]) :
         \/ e = d /\ j = L + 1 /\ r[e][j] = n
         \/ j \in 1..Len(q[e]) /\ r[e][j] = q[e][j] /\ r[e][j] # n
  BY <1>1, <1>5, <1>7 DEF L
<1>14. Once(r)'
  <2> SUFFICES ASSUME NEW e \in Devices, NEW f \in Devices,
                      NEW j \in 1..Len(r[e]), NEW k \in 1..Len(r[f]), r[e][j] = r[f][k]
               PROVE  e = f /\ j = k
    BY DEF Once
  <2>1. \/ e = d /\ j = L + 1 /\ r[e][j] = n
        \/ j \in 1..Len(q[e]) /\ r[e][j] = q[e][j] /\ r[e][j] # n
    BY <1>13
  <2>2. \/ f = d /\ k = L + 1 /\ r[f][k] = n
        \/ k \in 1..Len(q[f]) /\ r[f][k] = q[f][k] /\ r[f][k] # n
    BY <1>13
  <2>3. CASE r[e][j] = n
    BY <2>1, <2>2, <2>3
  <2>4. CASE r[e][j] # n
    BY <2>1, <2>2, <2>4 DEF Shape, Once
  <2> QED BY <2>3, <2>4
<1>15. Tails(r)'
  <2>1. ASSUME NEW e \in Devices, e # d, \A u \in Senders : ~Linking(u, e)'
        PROVE  \A u \in Senders : ~Linking(u, e)
    BY <1>1, <1>4 DEF Linking
  <2>2. spc'[s] = "tail" /\ list'[pos'[s]] = d
    BY <1>3, <1>4 DEF d
  <2>3. \A e \in Devices : (\A u \in Senders : ~Linking(u, e)') =>
         /\ Len(r[e]) > 0 => tail'[e] = r[e][Len(r[e])]
         /\ Len(r[e]) = 0 /\ dpc'[e] # "fix" => tail'[e] = Q
    <3> SUFFICES ASSUME NEW e \in Devices, \A u \in Senders : ~Linking(u, e)'
                 PROVE  /\ Len(r[e]) > 0 => tail'[e] = r[e][Len(r[e])]
                        /\ Len(r[e]) = 0 /\ dpc'[e] # "fix" => tail'[e] = Q
      OBVIOUS
    <3>1. e # d
      BY <2>2 DEF Linking
    <3>2. /\ Len(q[e]) > 0 => tail[e] = q[e][Len(q[e])]
          /\ Len(q[e]) = 0 /\ dpc[e] # "fix" => tail[e] = Q
      BY <2>1, <3>1 DEF Shape, Tails
    <3> QED BY <1>3, <1>5, <3>1, <3>2
  <2>4. \A u \in Senders : spc'[u] = "tail" =>
          LET e == list'[pos'[u]] IN Len(r[e]) > 0 /\ node'[u] = r[e][Len(r[e])]
    BY <1>3, <1>4, <1>5 DEF d, n
  <2>5. \A e \in Devices : dpc'[e] # "fix"
    BY <1>3, <1>4
  <2> QED BY <2>3, <2>4, <2>5 DEF Tails
<1>16. \A m : InQueue(r, m) <=> InQueue(q, m) \/ m = n
  <2>1. ASSUME NEW m, InQueue(r, m) PROVE InQueue(q, m) \/ m = n
    BY <1>13, <2>1 DEF InQueue
  <2>2. ASSUME NEW m, InQueue(q, m) PROVE InQueue(r, m)
    <3>0. PICK e \in Devices : \E k \in 1..Len(q[e]) : q[e][k] = m
      BY <2>2 DEF InQueue
    <3>2. PICK k \in 1..Len(q[e]) : q[e][k] = m
      BY <3>0
    <3>1. k \in 1..Len(r[e]) /\ r[e][k] = m
      BY <1>5, <3>2 DEF L
    <3> QED BY <3>1 DEF InQueue
  <2>3. InQueue(r, n)
    <3>1. L + 1 \in 1..Len(r[d])
      BY <1>5
    <3> QED BY <1>1, <1>5, <3>1 DEF InQueue
  <2> HIDE DEF InQueue
  <2> QED BY <2>1, <2>2, <2>3
<1>17. \A m : InQueue(r, m)' <=> InQueue(r, m)
  BY DEF InQueue
<1>18. Owned(r)'
  <2> HIDE DEF InQueue
  <2>1. QueuedNodes(r)'
    BY <1>2, <1>3, <1>16, <1>17 DEF Owned, QueuedNodes
  <2>2. HandledNodes(r)'
    <3>1. \A e \in Devices : Handles(e)' <=> Handles(e)
      BY <1>3 DEF Handles
    <3> QED BY <1>2, <1>3, <1>16, <1>17, <3>1 DEF Owned, HandledNodes
  <2>3. SentNodes(r)'
    BY <1>4 DEF SentNodes
  <2>4. NoneLost(r)'
    <3>1. \A u \in Senders : spc[u] = "link" => node[u] = n
      BY <1>4 DEF n
    <3> QED BY <1>3, <1>16, <1>17, <3>1 DEF Owned, NoneLost
  <2> QED BY <2>1, <2>2, <2>3, <2>4 DEF Owned
<1> QED BY <1>12, <1>14, <1>15, <1>18 DEF Shape

LEMMA KeepsMoveTail ==
    ASSUME OnePriority, NEW q \in Queues, Inv(q), NEW s \in Senders, MoveTail(s)
    PROVE  Shape(q)' /\ Owned(q)'
<1> USE DEF Inv, Base
<1> DEFINE d == list[pos[s]]
<1>1. spc[s] = "tail" /\ CanRun(s) /\ d \in Devices
  BY AtEntry DEF MoveTail
<1>2. /\ tail' = [tail EXCEPT ![d] = node[s]] /\ spc' = [spc EXCEPT ![s] = "post"]
      /\ UNCHANGED <<list, first, link, content, pos, node, dpc, elem>>
  BY DEF MoveTail, deviceVars
<1>3. \A u \in Senders : spc'[u] # "tail" /\ (spc'[u] = "link" <=> spc[u] = "link")
  BY <1>1, <1>2, SenderAlone DEF TypeOK
<1>4. Len(q[d]) > 0 /\ node[s] = q[d][Len(q[d])]
  BY <1>1 DEF Shape, Tails
<1>5. \A e \in Devices : e # d => \A u \in Senders : ~Linking(u, e)
  BY <1>1, SenderAlone DEF Linking
<1> HIDE DEF d
<1>6. Links(q)' /\ Once(q)'
  BY <1>2 DEF Shape, Links, Once, At
<1>7. Tails(q)'
  <2>1. \A e \in Devices : /\ Len(q[e]) > 0 => tail'[e] = q[e][Len(q[e])]
                           /\ Len(q[e]) = 0 /\ dpc[e] # "fix" => tail'[e] = Q
    BY <1>1, <1>2, <1>4, <1>5 DEF Shape, Tails, TypeOK
  <2>2. \A e \in Devices : dpc'[e] = "fix" => link'[elem'[e]] = At(q[e], 1)
    BY <1>2 DEF Shape, Tails
  <2> QED BY <1>2, <1>3, <2>1, <2>2 DEF Tails, At
<1>8. Owned(q)'
  <2>1. \A e \in Devices : Handles(e)' <=> Handles(e)
    BY <1>2 DEF Handles
  <2> QED BY <1>2, <1>3, <2>1, QuietOwned
<1> QED BY <1>6, <1>7, <1>8 DEF Shape

LEMMA KeepsUnlink ==
    ASSUME OnePriority, NEW q \in Queues, Inv(q), NEW d \in Devices, Unlink(d),
           NEW r, r = Rest(q, d)
    PROVE  Len(q[d]) > 0 /\ Shape(r)' /\ Owned(r)'
<1> USE DEF Inv, Base
<1> DEFINE n == q[d][1]
           L == Len(q[d])
<1>1. dpc[d] = "unlink" /\ CanRun(d) /\ first[d] # Q
  BY DEF Unlink, Woken
<1>2. L \in Nat /\ L > 0 /\ n \in Nodes /\ first[d] = n
  <2>1. q[d] \in Seq(Nodes)
    BY DEF Queues
  <2> QED BY <1>1, <2>1 DEF Shape, Links, At
<1>3. /\ r \in Queues /\ r[d] \in Seq(Nodes) /\ \A e \in Devices : e # d => r[e] = q[e]
      /\ Len(r[d]) = L - 1
      /\ \A k \in 1..(L - 1) : r[d][k] = q[d][k + 1]
      /\ \A k \in 1..L : q[d][k] \in Nodes
  BY <1>2, RestShape
<1> HIDE DEF n, L
<1>4. /\ elem' = [elem EXCEPT ![d] = n] /\ first' = [first EXCEPT ![d] = link[n]]
      /\ dpc' = [dpc EXCEPT ![d] = "fix"]
      /\ UNCHANGED <<list, tail, link, content>> /\ UNCHANGED senderVars
  BY <1>2 DEF Unlink
<1>5. \A s \in Senders : spc[s] = "idle" /\ spc'[s] = "idle"
  BY <1>1, <1>4, DeviceAlone DEF senderVars
<1>6. \A e \in Devices : e # d => /\ dpc'[e] = dpc[e] /\ dpc[e] # "fix" /\ elem'[e] = elem[e]
                                  /\ first'[e] = first[e] /\ (Handles(e)' <=> Handles(e))
  BY <1>1, <1>4, DeviceAlone DEF TypeOK, Handles
<1>7. elem'[d] = n /\ dpc'[d] = "fix" /\ first'[d] = link[n] /\ Handles(d)' /\ ~Handles(d)
  BY <1>1, <1>4 DEF TypeOK, Handles
<1>8. link[n] = At(r[d], 1)
  <2>1. link[n] = At(q[d], 2)
    BY <1>2 DEF Shape, Links, n, L
  <2> QED BY <1>2, <1>3, <2>1 DEF At, L
<1>9. Links(r)'
  <2>1. ASSUME NEW k \in 1..Len(r[d]) PROVE link[r[d][k]] = At(r[d], k + 1)
    <3>1. k + 1 \in 1..L /\ k \in 1..(L - 1) /\ r[d][k] = q[d][k + 1]
      BY <1>2, <1>3
    <3>2. link[q[d][k + 1]] = At(q[d], k + 2)
      BY <3>1 DEF Shape, Links, L
    <3>3. At(q[d], k + 2) = At(r[d], k + 1)
      BY <1>2, <1>3, <3>1 DEF At, L
    <3> QED BY <3>1, <3>2, <3>3
  <2>2. \A e \in Devices : /\ first'[e] = At(r[e], 1)
                            /\ \A k \in 1..Len(r[e]) : link[r[e][k]] = At(r[e], k + 1)
    BY <1>3, <1>6, <1>7, <1>8, <2>1 DEF Shape, Links
  <2> QED BY <1>4, <2>2 DEF Links, At
<1>10. \A e \in Devices : \A j \in 1..Len(r[e]) :
         \/ e # d /\ j \in 1..Len(q[e]) /\ r[e][j] = q[e][j]
         \/ e = d /\ j + 1 \in 1..Len(q[d]) /\ j # 0 /\ r[e][j] = q[d][j + 1]
  BY <1>2, <1>3 DEF L
<1>11. Once(r)'
  <2> SUFFICES ASSUME NEW e \in Devices, NEW f \in Devices,
                      NEW j \in 1..Len(r[e]), NEW k \in 1..Len(r[f]), r[e][j] = r[f][k]
               PROVE  e = f /\ j = k
    BY DEF Once
  <2>1. \/ e # d /\ j \in 1..Len(q[e]) /\ r[e][j] = q[e][j]
        \/ e = d /\ j + 1 \in 1..Len(q[d]) /\ j # 0 /\ r[e][j] = q[d][j + 1]
    BY <1>10
  <2>2. \/ f # d /\ k \in 1..Len(q[f]) /\ r[f][k] = q[f][k]
        \/ f = d /\ k + 1 \in 1..Len(q[d]) /\ k # 0 /\ r[f][k] = q[d][k + 1]
    BY <1>10
  <2>3. j \in Nat /\ k \in Nat
    OBVIOUS
  <2> QED BY <2>1, <2>2, <2>3 DEF Shape, Once
<1>12. Tails(r)'
  <2>1. \A s \in Senders, e \in Devices : spc[s] # "tail" /\ ~Linking(s, e)
    BY <1>5 DEF Linking
  <2>2. \A e \in Devices \ {d} : /\ Len(r[e]) > 0 => tail'[e] = r[e][Len(r[e])]
                                 /\ Len(r[e]) = 0 /\ dpc'[e] # "fix" => tail'[e] = Q
    BY <1>3, <1>4, <1>6, <2>1 DEF Shape, Tails
  <2>3. Len(r[d]) > 0 => tail'[d] = r[d][Len(r[d])]
    <3>1. tail[d] = q[d][L]
      BY <1>2, <2>1 DEF Shape, Tails, L
    <3>2. L - 1 > 0 => L - 1 \in 1..(L - 1) /\ (L - 1) + 1 = L
      BY <1>2
    <3> QED BY <1>3, <1>4, <3>1, <3>2
  <2>4. \A e \in Devices : dpc'[e] = "fix" => link'[elem'[e]] = At(r[e], 1)
    BY <1>4, <1>6, <1>7, <1>8
  <2>5. \A e \in Devices : /\ Len(r[e]) > 0 => tail'[e] = r[e][Len(r[e])]
                           /\ Len(r[e]) = 0 /\ dpc'[e] # "fix" => tail'[e] = Q
    BY <1>7, <2>2, <2>3
  <2> QED BY <1>5, <2>4, <2>5 DEF Tails, At
<1>13. InQueue(q, n) /\ ~InQueue(r, n)
  <2>1. InQueue(q, n)
    <3>1. 1 \in 1..Len(q[d])
      BY <1>2 DEF L
    <3> QED BY <3>1 DEF InQueue, n
  <2>2. ASSUME NEW e \in Devices, NEW j \in 1..Len(r[e]) PROVE r[e][j] # n
    <3>1. 1 \in 1..Len(q[d]) /\ j \in Nat
      BY <1>2 DEF L
    <3> QED BY <1>10, <3>1 DEF Shape, Once, n
  <2> QED BY <2>1, <2>2 DEF InQueue
<1>14. \A m : InQueue(r, m) => InQueue(q, m)
  BY <1>10 DEF InQueue
<1>15. ASSUME NEW m, InQueue(q, m), m # n PROVE InQueue(r, m)
  <2>1. PICK e \in Devices : \E k \in 1..Len(q[e]) : q[e][k] = m
    BY <1>15 DEF InQueue
  <2>2. PICK k \in 1..Len(q[e]) : q[e][k] = m
    BY <2>1
  <2>3. CASE e # d
    BY <1>3, <2>2, <2>3 DEF InQueue
  <2>4. CASE e = d
    <3>1. k # 1
      BY <1>15, <2>2, <2>4 DEF n
    <3>2. k - 1 \in 1..Len(r[d]) /\ k - 1 \in 1..(L - 1) /\ k - 1 + 1 = k
      BY <1>2, <1>3, <2>2, <2>4, <3>1 DEF L
    <3>3. r[d][k - 1] = m
      BY <1>3, <2>2, <2>4, <3>2
    <3> QED BY <3>2, <3>3 DEF InQueue
  <2> QED BY <2>3, <2>4
<1>16. \A m : InQueue(r, m)' <=> InQueue(r, m)
  BY DEF InQueue
<1>17. Owned(r)'
  <2> HIDE DEF InQueue
  <2>1. QueuedNodes(r)'
    BY <1>4, <1>14, <1>16 DEF Owned, QueuedNodes
  <2>2. content[n] # NoMsg /\ \A e \in Devices : Handles(e) => elem[e] # n
    BY <1>2, <1>13 DEF Owned, QueuedNodes, HandledNodes
  <2>3. NoNode # n
    BY <1>2, MessagesAssumption
  <2>4. HandledNodes(r)'
    <3>1. \A e \in Devices : ~Handles(e)' => elem'[e] = NoNode
      BY <1>6, <1>7 DEF Owned, HandledNodes
    <3>2. \A e \in Devices : Handles(e)' =>
            elem'[e] \in Nodes /\ content'[elem'[e]] # NoMsg /\ ~InQueue(r, elem[e])'
      <4>1. ~InQueue(r, n)' /\ \A e \in Devices : Handles(e) => ~InQueue(r, elem[e])
        BY <1>13, <1>14, <1>16 DEF Owned, HandledNodes
      <4> QED BY <1>2, <1>4, <1>6, <1>7, <1>16, <2>2, <4>1 DEF Owned, HandledNodes
    <3>3. \A e, f \in Devices : Handles(e)' /\ elem'[e] = elem'[f] => e = f
      BY <1>6, <1>7, <2>2, <2>3 DEF Owned, HandledNodes
    <3> QED BY <3>1, <3>2, <3>3 DEF HandledNodes
  <2>5. SentNodes(r)'
    BY <1>5 DEF SentNodes
  <2>6. NoneLost(r)'
    <3>1. \A m \in Nodes : content[m] # NoMsg => InQueue(q, m) \/ \E e \in Devices : elem[e] = m
      BY <1>5 DEF Owned, NoneLost
    <3>2. \A m \in Nodes : (\E e \in Devices : elem[e] = m) => \E e \in Devices : elem'[e] = m
      BY <1>6, <1>7, MessagesAssumption DEF Owned, HandledNodes
    <3> QED BY <1>4, <1>7, <1>15, <1>16, <3>1, <3>2 DEF NoneLost
  <2> QED BY <2>1, <2>4, <2>5, <2>6 DEF Owned
<1>18. Len(q[d]) > 0
  BY <1>2 DEF L
<1> QED BY <1>9, <1>11, <1>12, <1>17, <1>18 DEF Shape

LEMMA KeepsFix ==
    ASSUME OnePriority, NEW q \in Queues, Inv(q), NEW d \in Devices, FixTail(d)
    PROVE  Shape(q)' /\ Owned(q)'
<1> USE DEF Inv, Base
<1>1. dpc[d] = "fix" /\ CanRun(d) /\ link[elem[d]] = At(q[d], 1)
  BY DEF FixTail, Shape, Tails
<1>2. /\ tail' = [tail EXCEPT ![d] = IF link[elem[d]] = Q THEN Q ELSE @]
      /\ dpc' = [dpc EXCEPT ![d] = "process"]
      /\ UNCHANGED <<list, first, link, content, elem>> /\ UNCHANGED senderVars
  BY DEF FixTail
<1>3. \A s \in Senders : spc[s] = "idle" /\ spc'[s] = "idle"
  BY <1>1, <1>2, DeviceAlone DEF senderVars
<1>4. \A s \in Senders, e \in Devices : ~Linking(s, e)
  BY <1>3 DEF Linking
<1>5. q[d] \in Seq(Nodes)
  BY DEF Queues
<1>6. (link[elem[d]] = Q) <=> (Len(q[d]) = 0)
  BY <1>1, <1>5, MessagesAssumption DEF At
<1>7. Links(q)' /\ Once(q)'
  BY <1>2 DEF Shape, Links, Once, At
<1>8. Tails(q)'
  <2>1. /\ Len(q[d]) > 0 => tail'[d] = q[d][Len(q[d])]
        /\ Len(q[d]) = 0 => tail'[d] = Q
    BY <1>2, <1>4, <1>5, <1>6 DEF Shape, Tails, TypeOK
  <2>2. \A e \in Devices \ {d} : /\ Len(q[e]) > 0 => tail'[e] = q[e][Len(q[e])]
                                 /\ Len(q[e]) = 0 /\ dpc'[e] # "fix" => tail'[e] = Q
    BY <1>2, <1>4 DEF Shape, Tails, TypeOK
  <2>3. \A e \in Devices : dpc'[e] = "fix" => link'[elem'[e]] = At(q[e], 1)
    BY <1>2 DEF Shape, Tails, TypeOK
  <2> QED BY <1>3, <2>1, <2>2, <2>3 DEF Tails, At
<1>9. \A e \in Devices : Handles(e)' <=> Handles(e)
  BY <1>1, <1>2 DEF Handles, TypeOK
<1>10. Owned(q)'
  BY <1>2, <1>3, <1>9, QuietOwned DEF senderVars
<1> QED BY <1>7, <1>8, <1>10 DEF Shape

LEMMA KeepsProcessed ==
    ASSUME OnePriority, NEW q \in Queues, Inv(q), NEW d \in Devices, Processed(d)
    PROVE  Shape(q)' /\ Owned(q)'
<1> USE DEF Inv, Base
<1> DEFINE n == elem[d]
<1>1. dpc[d] = "process" /\ CanRun(d) /\ Handles(d)
  BY DEF Processed, Handles
<1>2. n \in Nodes /\ ~InQueue(q, n) /\ NoNode # n
  BY <1>1, MessagesAssumption DEF Owned, HandledNodes
<1>3. \A e \in Devices : e # d => elem[e] # n
  BY <1>1 DEF Owned, HandledNodes
<1> HIDE DEF n
<1>4. /\ content' = [content EXCEPT ![n] = NoMsg] /\ elem' = [elem EXCEPT ![d] = NoNode]
      /\ dpc' = [dpc EXCEPT ![d] = "check"]
      /\ list' = list /\ UNCHANGED queues /\ UNCHANGED senderVars
  BY DEF Processed, n
<1>5. \A s \in Senders : spc[s] = "idle" /\ spc'[s] = "idle"
  BY <1>1, <1>4, DeviceAlone DEF senderVars
<1>6. \A e \in Devices : e # d => dpc'[e] = dpc[e] /\ elem'[e] = elem[e] /\ (Handles(e)' <=> Handles(e))
  BY <1>4 DEF TypeOK, Handles
<1>7. elem'[d] = NoNode /\ dpc'[d] = "check" /\ ~Handles(d)'
  BY <1>4 DEF TypeOK, Handles
<1>8. content'[n] = NoMsg /\ \A m \in Nodes : m # n => content'[m] = content[m]
  BY <1>2, <1>4 DEF TypeOK
<1>9. Shape(q)'
  <2>1. \A e \in Devices : (dpc'[e] = "fix" <=> dpc[e] = "fix") /\ (dpc[e] = "fix" => elem'[e] = elem[e])
    BY <1>1, <1>6, <1>7
  <2> QED BY <1>4, <1>5, <2>1, QuietShape
<1>10. \A m : InQueue(q, m)' <=> InQueue(q, m)
  BY DEF InQueue
<1> HIDE DEF InQueue
<1>11. QueuedNodes(q)'
  BY <1>2, <1>8, <1>10 DEF Owned, QueuedNodes
<1>12. HandledNodes(q)'
  <2>1. \A e \in Devices : Handles(e)' =>
          /\ e # d /\ Handles(e) /\ elem'[e] = elem[e] /\ elem[e] \in Nodes
          /\ content'[elem[e]] # NoMsg /\ ~InQueue(q, elem[e])
    BY <1>3, <1>6, <1>7, <1>8 DEF Owned, HandledNodes
  <2>2. \A e \in Devices : ~Handles(e)' => elem'[e] = NoNode
    BY <1>6, <1>7 DEF Owned, HandledNodes
  <2>3. \A e, f \in Devices : Handles(e)' /\ elem'[e] = elem'[f] => e = f
    BY <1>6, <1>7, <2>1, MessagesAssumption DEF Owned, HandledNodes
  <2> QED BY <1>10, <2>1, <2>2, <2>3 DEF HandledNodes
<1>13. SentNodes(q)'
  BY <1>5 DEF SentNodes
<1>14. NoneLost(q)'
  BY <1>5, <1>6, <1>8, <1>10 DEF Owned, NoneLost, n
<1> QED BY <1>9, <1>11, <1>12, <1>13, <1>14 DEF Owned

-----------------------------------------------------------------------------
(* A step links one node to a queue, or unlinks one, or leaves all queues. *)
LEMMA InvSender ==
    ASSUME OnePriority, NEW q \in Queues, Inv(q), NEW s \in Senders, SenderStep(s)
    PROVE  \E r \in Queues : Inv(r)' /\ (r = IF LinkLast(s) THEN Put(q, list[pos[s]], node[s]) ELSE q)
<1>1. Base' /\ OneRuns'
  BY TypeSender, ListSender, EndsSender, WokenSender, RunsSender DEF Inv, Base
<1>2. CASE LinkLast(s)
  <2>1. list[pos[s]] \in Devices /\ node[s] \in Nodes
    BY <1>2, AtEntry DEF LinkLast, Inv, Base, Owned, SentNodes
  <2>2. PICK r \in Queues : r = Put(q, list[pos[s]], node[s])
    BY <2>1, PutShape
  <2>3. Shape(r)' /\ Owned(r)'
    BY <1>2, <2>2, KeepsLink
  <2> QED BY <1>1, <1>2, <2>2, <2>3 DEF Inv
<1>3. CASE ~LinkLast(s)
  <2>1. Shape(q)' /\ Owned(q)'
    BY <1>3, QuietSender, KeepsAllocate, KeepsMoveTail DEF SenderStep
  <2> QED BY <1>1, <1>3, <2>1 DEF Inv
<1> QED BY <1>2, <1>3

LEMMA InvDevice ==
    ASSUME OnePriority, NEW q \in Queues, Inv(q), NEW d \in Devices, DeviceStep(d)
    PROVE  \E r \in Queues : Inv(r)' /\ (r = IF Unlink(d) THEN Rest(q, d) ELSE q)
<1>1. Base' /\ OneRuns'
  BY TypeDevice, ListDevice, EndsDevice, WokenDevice, RunsDevice DEF Inv, Base
<1>2. CASE Unlink(d)
  <2>1. Len(q[d]) > 0
    BY <1>2, KeepsUnlink
  <2>2. PICK r \in Queues : r = Rest(q, d)
    BY <2>1, RestShape
  <2>3. Shape(r)' /\ Owned(r)'
    BY <1>2, <2>2, KeepsUnlink
  <2> QED BY <1>1, <1>2, <2>2, <2>3 DEF Inv
<1>3. CASE ~Unlink(d)
  <2>1. Shape(q)' /\ Owned(q)'
    BY <1>3, QuietDevice, KeepsFix, KeepsProcessed DEF DeviceStep
  <2> QED BY <1>1, <1>3, <2>1 DEF Inv
<1> QED BY <1>2, <1>3

LEMMA InvInit == Init => IInv
<1> SUFFICES ASSUME Init PROVE IInv
  OBVIOUS
<1> DEFINE q == [d \in Devices |-> <<>>]
<1> USE MessagesAssumption
<1>1. q \in Queues /\ \A d \in Devices : Len(q[d]) = 0 /\ At(q[d], 1) = Q
  BY DEF Queues, At
<1>2. \A n : ~InQueue(q, n)
  BY <1>1 DEF InQueue
<1>3. Base
  BY BaseInit
<1>4. OneRuns
  BY <1>3, OneRunsLabels DEF Base, Init, Alone, Idle
<1> HIDE DEF q
<1>7. Links(q) /\ Once(q)
  BY <1>1 DEF Init, Links, Once
<1>8. Tails(q)
  BY <1>1 DEF Init, Tails
<1>9. Owned(q)
  <2> HIDE DEF InQueue
  <2> QED BY <1>2 DEF Init, Owned, QueuedNodes, HandledNodes, SentNodes, NoneLost, Handles
<1> QED BY <1>1, <1>3, <1>4, <1>7, <1>8, <1>9 DEF IInv, Inv, Shape

LEMMA InvStutter == ASSUME NEW q \in Queues, Inv(q), UNCHANGED vars PROVE Inv(q)'
<1> USE DEF Inv, Base
<1>1. UNCHANGED queues /\ UNCHANGED senderVars /\ UNCHANGED deviceVars /\ UNCHANGED <<list, content, appMsg>>
  BY DEF vars, queues, senderVars, deviceVars
<1>2. Shape(q)'
  BY <1>1, QuietShape DEF senderVars, deviceVars
<1>3. \A d \in Devices : Handles(d)' <=> Handles(d)
  BY <1>1 DEF Handles, deviceVars
<1>4. Owned(q)'
  BY <1>1, <1>3, QuietOwned DEF senderVars, deviceVars
<1>5. Base'
  BY BaseStutter
<1>6. OneRuns'
  BY <1>1 DEF OneRuns, Running, Label, senderVars, deviceVars
<1> QED BY <1>2, <1>4, <1>5, <1>6

LEMMA InvNext == OnePriority /\ IInv /\ [Next]_vars => IInv'
<1> SUFFICES ASSUME OnePriority, NEW q \in Queues, Inv(q), [Next]_vars PROVE IInv'
  BY DEF IInv
<1>1. CASE UNCHANGED vars
  BY <1>1, InvStutter DEF IInv
<1>2. ASSUME NEW s \in Senders, SenderStep(s) PROVE IInv'
  BY <1>2, InvSender DEF IInv
<1>3. ASSUME NEW d \in Devices, DeviceStep(d) PROVE IInv'
  BY <1>3, InvDevice DEF IInv
<1> QED BY <1>1, <1>2, <1>3, Steps

LEMMA PrioritiesStay == [Next]_vars => prio' = prio
BY Steps DEF vars, SenderStep, Send, Scan, LinkLast, MoveTail, Post,
             DeviceStep, AddDevice, Tick, Check, Pend, Unlink, FixTail, Processed

(* Between tasks of one priority the invariant holds in every state. *)
THEOREM InvHolds == Spec => [](OnePriority => IInv)
<1>1. (OnePriority => IInv) /\ [Next]_vars => (OnePriority => IInv)'
  <2>1. [Next]_vars /\ OnePriority' => OnePriority
    BY PrioritiesStay DEF OnePriority
  <2> QED BY <2>1, InvNext
<1> QED BY <1>1, InvInit, PTL DEF Spec
-----------------------------------------------------------------------------
(* What a walk along the links finds.  Nothing here is proved by induction: two
   functions that satisfy one recursive equation, if they differed, would differ
   at a least argument, and there they do not. *)
LEMMA Least ==
    ASSUME NEW T \in SUBSET Nat, T # {}
    PROVE  \E k \in T : \A j \in T : k <= j
<1>1. PICK k \in T : \A j \in T : ~ (<<j, k>> \in OpToRel(<, Nat))
  BY NatLessThanWellFounded, WFMin
<1>2. k \in Nat /\ \A j \in T : j \in Nat /\ ~ (j < k)
  BY <1>1 DEF OpToRel
<1>3. \A j \in T : k <= j
  BY <1>2
<1> QED BY <1>1, <1>3

N == Cardinality(Nodes)
Walks(d, at) == at = [k \in 0..N |->
    IF k = 0 THEN first[d] ELSE IF at[k - 1] = Q THEN Q ELSE link[at[k - 1]]]

LEMMA WalkUnique ==
    ASSUME NEW d \in Devices, NEW f, Walks(d, f), N \in Nat
    PROVE  Walk(d) = f
<1> DEFINE W == Walk(d)
<1>1. Walks(d, W)
  BY DEF Walk, Walks, N
<1> HIDE DEF W
<1>2. W = [k \in 0..N |-> W[k]] /\ f = [k \in 0..N |-> f[k]]
  BY <1>1 DEF Walks
<1> DEFINE T == {k \in 0..N : W[k] # f[k]}
<1>3. ASSUME T # {} PROVE FALSE
  <2>1. T \in SUBSET Nat
    OBVIOUS
  <2>2. PICK k \in T : \A j \in T : k <= j
    BY <1>3, <2>1, Least
  <2>3. k \in 0..N /\ W[k] # f[k]
    OBVIOUS
  <2>4. k # 0
    BY <1>1, <2>3 DEF Walks
  <2>5. k - 1 \in 0..N /\ W[k - 1] = f[k - 1]
    BY <2>2, <2>3, <2>4
  <2>6. W[k] = f[k]
    BY <1>1, <2>3, <2>4, <2>5 DEF Walks
  <2> QED BY <2>3, <2>6
<1>4. \A k \in 0..N : W[k] = f[k]
  BY <1>3
<1>5. W = f
  BY <1>2, <1>4
<1> QED BY <1>5 DEF W

(* The queue of d is q[d], as Walk and Queued and Channel see it. *)
Carried(sq) == [k \in 1..Len(sq) |-> content[sq[k]]]

LEMMA QueueFound ==
    ASSUME NEW q \in Queues, Links(q), Once(q), NEW d \in Devices
    PROVE  /\ Len(q[d]) \in Nat /\ Queued(d) = {q[d][k] : k \in 1..Len(q[d])}
           /\ Channel(d) = Carried(q[d])
<1> DEFINE L == Len(q[d])
           f == [k \in 0..N |-> At(q[d], k + 1)]
<1>1. L \in Nat /\ (\A k \in 1..L : q[d][k] \in Nodes) /\ q[d] \in Seq(Nodes)
  BY DEF Queues
<1>2. L <= N /\ N \in Nat
  <2> DEFINE g == [k \in 1..L |-> q[d][k]]
  <2>1. g \in Injection(1..L, Nodes)
    BY <1>1 DEF Injection, IsInjective, Once
  <2>2. Cardinality(1..L) = L
    BY <1>1, FS_Interval
  <2> HIDE DEF g
  <2> QED BY <2>1, <2>2, FS_Injection, FS_CardinalityType, MessagesAssumption DEF N
<1>3. Walks(d, f)
  <2>1. ASSUME NEW k \in 0..N
        PROVE  f[k] = IF k = 0 THEN first[d] ELSE IF f[k - 1] = Q THEN Q ELSE link[f[k - 1]]
    <3>1. CASE k = 0
      BY <3>1 DEF Links
    <3>2. CASE k # 0
      <4>1. k - 1 \in 0..N /\ f[k - 1] = At(q[d], k) /\ f[k] = At(q[d], k + 1)
        BY <1>2, <3>2
      <4>2. CASE k <= L
        BY <1>1, <3>2, <4>1, <4>2, MessagesAssumption DEF Links, At
      <4>3. CASE k > L
        BY <1>1, <3>2, <4>1, <4>3 DEF At
      <4> QED BY <1>1, <4>2, <4>3
    <3> QED BY <3>1, <3>2
  <2>2. f = [k \in 0..N |-> IF k = 0 THEN first[d] ELSE IF f[k - 1] = Q THEN Q ELSE link[f[k - 1]]]
    BY <2>1
  <2> QED BY <2>2 DEF Walks
<1>4. Walk(d) = f
  <2> HIDE DEF f
  <2> QED BY <1>2, <1>3, WalkUnique
<1>5. \A k \in 1..L : k - 1 \in 0..N /\ Walk(d)[k - 1] = q[d][k] /\ q[d][k] # Q
  BY <1>1, <1>2, <1>4, MessagesAssumption DEF At
<1>6. \A k \in 0..N : Walk(d)[k] # Q => k + 1 \in 1..L /\ Walk(d)[k] = q[d][k + 1]
  BY <1>1, <1>4 DEF At
<1>7. Queued(d) = {q[d][k] : k \in 1..L}
  <2> HIDE DEF f, L
  <2> QED BY <1>5, <1>6 DEF Queued, N
<1>8. Cardinality(Queued(d)) = L
  <2> DEFINE g == [k \in 1..L |-> q[d][k]]
  <2>1. g \in [1..L -> Queued(d)] /\ (\A j, k \in 1..L : g[j] = g[k] => j = k)
    BY <1>7 DEF Once
  <2>2. \A n \in Queued(d) : \E k \in 1..L : g[k] = n
    BY <1>7
  <2>3. g \in Bijection(1..L, Queued(d))
    BY <2>1, <2>2 DEF Bijection, Injection, IsInjective, Surjection
  <2>4. Cardinality(1..L) = L /\ IsFiniteSet(1..L)
    BY <1>1, FS_Interval
  <2> QED BY <2>3, <2>4, FS_Bijection DEF ExistsBijection
<1>9. Channel(d) = Carried(q[d])
  <2> HIDE DEF f
  <2> QED BY <1>5, <1>8 DEF Channel, Carried
<1> QED BY <1>1, <1>7, <1>9
-----------------------------------------------------------------------------
(* TypeOK: no sender and no device follows a link that is not there, whatever
   the priorities and the number of tasks, devices and nodes: a preempted
   enqueue may lose a message, but leaves no wild pointer. *)
THEOREM TypesKept == Spec => []TypeOK
<1>1. Base => TypeOK
  BY DEF Base
<1> QED BY <1>1, BaseHolds, PTL

(* vDevice_enqueueCharDataMsg and the loop of the device task lose no message
   between tasks of one priority. *)
THEOREM MessagesKept == Spec => []NoneLostAmongEquals
<1>1. IInv => NoMessageLost
  <2> SUFFICES ASSUME NEW q \in Queues, Inv(q), NEW n \in Nodes, content[n] # NoMsg
               PROVE  \/ \E s \in Senders : spc[s] = "link" /\ node[s] = n
                      \/ \E d \in Devices : n \in Queued(d) \/ elem[d] = n
    BY DEF IInv, NoMessageLost
  <2>1. CASE InQueue(q, n)
    <3>1. PICK d \in Devices : \E k \in 1..Len(q[d]) : q[d][k] = n
      BY <2>1 DEF InQueue
    <3>2. n \in Queued(d)
      BY <3>1, QueueFound DEF Inv, Shape
    <3> QED BY <3>2
  <2>2. CASE ~InQueue(q, n)
    BY <2>2 DEF Inv, Owned, NoneLost
  <2> QED BY <2>1, <2>2
<1>2. (OnePriority => IInv) => NoneLostAmongEquals
  BY <1>1 DEF NoneLostAmongEquals
<1> QED BY <1>2, InvHolds, PTL

(* Event_post after the enqueue, and the check of the queue before Event_pend,
   leave no device waiting beside a message, wherever the device and the senders
   preempt each other. *)
THEOREM WakeupsKept == Spec => []WakeupNotLost
<1>1. Base => WakeupNotLost
  BY DEF Base, Woken, Posting, WakeupNotLost
<1> QED BY <1>1, BaseHolds, PTL
-----------------------------------------------------------------------------
(* The channels before and after a step. *)
LEMMA ChannelsFound ==
    \A q \in Queues : Inv(q) => \A d \in Devices : Channel(d) = Carried(q[d])
BY QueueFound DEF Inv, Base, Shape

LEMMA ChannelsFoundNext ==
    \A q \in Queues : Inv(q)' => \A d \in Devices : Channel(d)' = Carried(q[d])'
<1>1. (\A q \in Queues : Inv(q) => \A d \in Devices : Channel(d) = Carried(q[d]))'
  BY ChannelsFound, PTL
<1> QED BY <1>1

LEMMA CarriedSeq ==
    ASSUME NEW q \in Queues, Inv(q), NEW d \in Devices
    PROVE  Carried(q[d]) \in Seq(Messages \cup {NoMsg}) /\ Len(Carried(q[d])) = Len(q[d])
<1>1. Len(q[d]) \in Nat /\ \A k \in 1..Len(q[d]) : content[q[d][k]] \in Messages \cup {NoMsg}
  BY DEF Queues, Inv, Base, TypeOK
<1>2. [k \in 1..Len(q[d]) |-> content[q[d][k]]] \in [1..Len(q[d]) -> Messages \cup {NoMsg}]
  BY <1>1
<1> QED BY <1>1, <1>2 DEF Carried

(* Queue_enqueue appends, with its first step. *)
LEMMA LinkPuts ==
    ASSUME NEW q \in Queues, Inv(q), NEW s \in Senders, LinkLast(s),
           NEW r \in Queues, Inv(r)', r = Put(q, list[pos[s]], node[s])
    PROVE  \E d \in Devices, m \in Messages : Channels!Put(d, m)
<1>0. PICK d, n : d = list[pos[s]] /\ n = node[s]
  OBVIOUS
<1>1. d \in Devices /\ n \in Nodes /\ content[n] \in Messages
  <2>1. d \in Devices
    BY <1>0, AtEntry DEF LinkLast, Inv, Base
  <2>2. n \in Nodes /\ content[n] # NoMsg
    BY <1>0 DEF LinkLast, Inv, Base, Owned, SentNodes
  <2> QED BY <2>1, <2>2 DEF Inv, Base, TypeOK
<1>2. r = Put(q, d, n) /\ content' = content
  BY <1>0 DEF LinkLast
<1>3. \A e \in Devices : Channel(e) = Carried(q[e]) /\ Channel(e)' = Carried(r[e])'
  BY ChannelsFound, ChannelsFoundNext
<1>7. /\ \A e \in Devices : e # d => r[e] = q[e]
      /\ Len(q[d]) \in Nat /\ Len(r[d]) = Len(q[d]) + 1 /\ r[d][Len(q[d]) + 1] = n
      /\ \A k \in 1..Len(q[d]) : r[d][k] = q[d][k] /\ q[d][k] \in Nodes
  <2>0. PICK p : p = Put(q, d, n)
    OBVIOUS
  <2>1. /\ \A e \in Devices : e # d => p[e] = q[e]
        /\ Len(q[d]) \in Nat /\ Len(p[d]) = Len(q[d]) + 1 /\ p[d][Len(q[d]) + 1] = n
        /\ \A k \in 1..Len(q[d]) : p[d][k] = q[d][k] /\ q[d][k] \in Nodes
    BY <1>1, <2>0, PutShape
  <2>2. r = p
    BY <1>2, <2>0
  <2> QED BY <2>1, <2>2
<1>4. \A e \in Devices : e # d => Channel(e)' = Channel(e)
  BY <1>2, <1>3, <1>7 DEF Carried
<1>5. Carried(r[d])' = Append(Carried(q[d]), content[n])
  <2>1. Carried(r[d])' = [k \in 1..(Len(q[d]) + 1) |-> content[r[d][k]]]
    BY <1>2, <1>7 DEF Carried
  <2>2. Carried(q[d]) \in Seq(Messages \cup {NoMsg}) /\ Len(Carried(q[d])) = Len(q[d])
    BY <1>1, CarriedSeq
  <2>3. Append(Carried(q[d]), content[n]) =
          [k \in 1..(Len(q[d]) + 1) |-> IF k <= Len(q[d]) THEN Carried(q[d])[k] ELSE content[n]]
    BY <1>1, <1>7, <2>2
  <2>4. \A k \in 1..(Len(q[d]) + 1) :
          content[r[d][k]] = IF k <= Len(q[d]) THEN Carried(q[d])[k] ELSE content[n]
    BY <1>7 DEF Carried
  <2> QED BY <2>1, <2>3, <2>4
<1>6. channels' = [channels EXCEPT ![d] = Append(@, content[n])]
  BY <1>1, <1>3, <1>4, <1>5 DEF channels
<1> QED BY <1>1, <1>6 DEF Channels!Put, channels

(* Queue_dequeue takes the first, with its first step. *)
LEMMA UnlinkTakes ==
    ASSUME NEW q \in Queues, Inv(q), NEW d \in Devices, Unlink(d), Len(q[d]) > 0,
           NEW r \in Queues, Inv(r)', r = Rest(q, d)
    PROVE  Channels!Take(d)
<1>1. content' = content
  BY DEF Unlink
<1>2. \A e \in Devices : Channel(e) = Carried(q[e]) /\ Channel(e)' = Carried(r[e])'
  BY ChannelsFound, ChannelsFoundNext
<1>6. /\ \A e \in Devices : e # d => r[e] = q[e]
      /\ Len(q[d]) \in Nat /\ Len(r[d]) = Len(q[d]) - 1
      /\ \A k \in 1..(Len(q[d]) - 1) : r[d][k] = q[d][k + 1]
  BY RestShape
<1>3. \A e \in Devices : e # d => Channel(e)' = Channel(e)
  <2> SUFFICES ASSUME NEW e \in Devices, e # d PROVE Carried(r[e])' = Carried(q[e])
    BY <1>2
  <2>1. r[e] = q[e]
    BY <1>6
  <2> QED BY <1>1, <2>1 DEF Carried
<1>4. Carried(r[d])' = Tail(Carried(q[d])) /\ Carried(q[d]) # <<>>
  <2>1. Carried(r[d])' = [k \in 1..(Len(q[d]) - 1) |-> content[q[d][k + 1]]]
    BY <1>1, <1>6 DEF Carried
  <2>2. Carried(q[d]) \in Seq(Messages \cup {NoMsg}) /\ Len(Carried(q[d])) = Len(q[d])
    BY CarriedSeq
  <2>3. Carried(q[d]) # <<>>
    BY <2>2
  <2>4. Tail(Carried(q[d])) = [k \in 1..(Len(q[d]) - 1) |-> Carried(q[d])[k + 1]]
    BY <1>6, <2>2, <2>3
  <2>5. \A k \in 1..(Len(q[d]) - 1) : Carried(q[d])[k + 1] = content[q[d][k + 1]]
    BY <1>6 DEF Carried
  <2> QED BY <2>1, <2>3, <2>4, <2>5
<1>5. channels' = [channels EXCEPT ![d] = Tail(@)] /\ channels[d] # <<>>
  BY <1>2, <1>3, <1>4 DEF channels
<1> QED BY <1>5 DEF Channels!Take, channels

(* Everything else leaves what the queued messages carry as it is. *)
LEMMA OthersStutter ==
    ASSUME NEW q \in Queues, Inv(q), Inv(q)',
           content' = content
             \/ (\E s \in Senders : Scan(s)) \/ (\E d \in Devices : Processed(d))
    PROVE  channels' = channels
<1>1. \A d \in Devices : \A k \in 1..Len(q[d]) : content'[q[d][k]] = content[q[d][k]]
  <2> SUFFICES ASSUME NEW d \in Devices, NEW k \in 1..Len(q[d])
               PROVE  content'[q[d][k]] = content[q[d][k]]
    OBVIOUS
  <2>1. q[d][k] \in Nodes /\ InQueue(q, q[d][k]) /\ content[q[d][k]] # NoMsg
    BY DEF Queues, InQueue, Inv, Base, Owned, QueuedNodes
  <2>2. ASSUME NEW s \in Senders, Scan(s) PROVE content'[q[d][k]] = content[q[d][k]]
    BY <2>1, <2>2 DEF Scan, Inv, Base, TypeOK
  <2>3. ASSUME NEW e \in Devices, Processed(e) PROVE content'[q[d][k]] = content[q[d][k]]
    <3>1. elem[e] # q[d][k]
      BY <2>1, <2>3 DEF Processed, Inv, Base, Owned, HandledNodes, Handles
    <3> QED BY <2>1, <2>3, <3>1 DEF Processed, Inv, Base, TypeOK
  <2> QED BY <2>2, <2>3
<1>2. \A d \in Devices : Channel(d) = Carried(q[d]) /\ Channel(d)' = Carried(q[d])'
  BY ChannelsFound, ChannelsFoundNext
<1> QED BY <1>1, <1>2 DEF channels, Carried

LEMMA ChannelInit == Init => Channels!Init
<1> SUFFICES ASSUME Init PROVE Channels!Init
  OBVIOUS
<1>1. ASSUME NEW d \in Devices PROVE Channel(d) = <<>>
  <2> DEFINE q == [e \in Devices |-> <<>>]
  <2>1. q \in Queues /\ Links(q) /\ Once(q)
    BY DEF Queues, Links, Once, At, Init
  <2>2. Channel(d) = Carried(q[d])
    <3> HIDE DEF q
    <3> QED BY <2>1, QueueFound
  <2> QED BY <2>2 DEF Carried
<1> QED BY <1>1 DEF Channels!Init, channels

LEMMA ChannelStep ==
    OnePriority /\ IInv /\ [Next]_vars => [Channels!Next]_channels
<1> SUFFICES ASSUME OnePriority, NEW q \in Queues, Inv(q), [Next]_vars
             PROVE  Channels!Next \/ channels' = channels
  BY DEF IInv
<1>1. CASE UNCHANGED vars
  <2>1. Inv(q)' /\ content' = content
    BY <1>1, InvStutter DEF vars
  <2> QED BY <2>1, OthersStutter
<1>2. ASSUME NEW s \in Senders, SenderStep(s) PROVE Channels!Next \/ channels' = channels
  <2>1. PICK r \in Queues :
          Inv(r)' /\ (r = IF LinkLast(s) THEN Put(q, list[pos[s]], node[s]) ELSE q)
    BY <1>2, InvSender
  <2>2. CASE LinkLast(s)
    BY <2>1, <2>2, LinkPuts DEF Channels!Next
  <2>3. CASE ~LinkLast(s)
    <3>1. content' = content \/ Scan(s)
      BY <1>2, <2>3 DEF SenderStep, Send, MoveTail, Post
    <3> QED BY <2>1, <2>3, <3>1, OthersStutter
  <2> QED BY <2>2, <2>3
<1>3. ASSUME NEW d \in Devices, DeviceStep(d) PROVE Channels!Next \/ channels' = channels
  <2>1. PICK r \in Queues : Inv(r)' /\ (r = IF Unlink(d) THEN Rest(q, d) ELSE q)
    BY <1>3, InvDevice
  <2>2. CASE Unlink(d)
    <3>1. Len(q[d]) > 0
      BY <2>2, KeepsUnlink
    <3> QED BY <2>1, <2>2, <3>1, UnlinkTakes DEF Channels!Next
  <2>3. CASE ~Unlink(d)
    <3>1. content' = content \/ Processed(d)
      BY <1>3, <2>3 DEF DeviceStep, AddDevice, Tick, Check, Pend, FixTail
    <3> QED BY <2>1, <2>3, <3>1, OthersStutter
  <2> QED BY <2>2, <2>3
<1> QED BY <1>1, <1>2, <1>3, Steps

(* The linked lists of SYS/BIOS, with the list of devices and its senders, are
   one FIFO channel per device, between tasks of one priority. *)
THEOREM QueuesAreChannels == Spec => ChannelSpec
<1>1. (OnePriority => IInv) /\ [Next]_vars => [OnePriority => Channels!Next]_channels
  BY ChannelStep
<1> QED BY <1>1, ChannelInit, InvHolds, PTL DEF Spec, ChannelSpec
=============================================================================

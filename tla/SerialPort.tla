------------------------------ MODULE SerialPort ------------------------------
(* One RS-485 port of src/Interfaces/IFUART.cpp.  Device tasks transfer: write
   a request and, unless readCount is 0, read the answer with the automaton of
   the AVDS protocol.  The driver is enabled for the write, and disabled by a
   one-shot clock when the transmit FIFO must be empty.

   Time is the system tick.  An answer is three tokens, or one of a Raw request.  Requests
   and tokens are "own", of the transfer in the gate, or "old", of one before
   it; the checksum tells whether a frame is of one answer, nothing tells of
   which.  The line is half duplex: what arrives while the driver is enabled is
   lost.  The unit at its other end has one request at a time. *)
EXTENDS Integers, Sequences

CONSTANTS Tasks, Kinds,
          Tells,           \* the kinds of request with readCount 0,
          Plain,           \* those of IF_TRANSACTION_RX_PROTOCOL_NONE,
          Raw,             \* and those of IF_TRANSACTION_RX_PROTOCOL_ROSEN485
          TimerTicks,      \* 2 + 160000 / baudRate
          FifoTicks,       \* what 16 bytes in the transmit FIFO take
          ReadTicks,       \* readTimeout
          MaxReceived,     \* bound: tokens in the receive buffer
          NoTask, NoKind, NoRequest

Ages == {"own", "old"}
Requests == [age : Ages, kind : Kinds]

ASSUME PortAssumption ==
    /\ Tells \cup Plain \cup Raw \subseteq Kinds /\ NoKind \notin Kinds
    /\ NoTask \notin Tasks /\ NoRequest \notin Requests
    /\ FifoTicks \in Nat \ {0} /\ TimerTicks \in Nat /\ ReadTicks \in Nat
    /\ FifoTicks <= TimerTicks /\ TimerTicks <= ReadTicks

VARIABLES
    pc, want, ok,          \* of each task: its place, what it asks, what it got
    gate,                  \* hBSPSerial_gateTransfer: its owner
    left, got,             \* of the owner: its readTimeout, the frame so far
    enabled, timer,        \* driverEnablePin; timeoutClk, 0 when stopped
    leaving, fifo, damaged,\* requests not yet whole on the line; ticks the FIFO
                           \* still takes; the clock has cut a request
    heard, coming, rx,     \* the request at the unit; tokens on the line, received
    stale,                 \* an old token was received after the flush, or the
                           \* flush had no memory
    quick                  \* since the clock last stood still, a transfer ended
                           \* that did not wait for a fresh answer

taskVars == <<pc, want, ok>>
readVars == <<left, got>>
driverVars == <<enabled, timer>>
sendVars == <<leaving, fifo, damaged>>
lineVars == <<heard, coming, rx>>
historyVars == <<stale, quick>>
vars == <<taskVars, gate, readVars, driverVars, sendVars, lineVars, historyVars>>

Parts == <<"preamble", "length", "payload">>
Tokens == [part : {"byte", "preamble", "length", "payload"}, age : Ages]
Frame(r) == IF r.kind \in Raw
            THEN <<[part |-> "byte", age |-> r.age]>>
            ELSE [i \in 1..3 |-> [part |-> Parts[i], age |-> r.age]]
Whole(k) == IF k \in Raw THEN 1 ELSE 3

Labels == {"idle", "flush", "enable", "write", "start", "receive",
           "sleep", "leave"}
Goto(t, l) == pc' = [pc EXCEPT ![t] = l]
At(l) == gate # NoTask /\ pc[gate] = l
Own == IF gate = NoTask THEN NoRequest ELSE [age |-> "own", kind |-> want[gate]]

Init ==
    /\ pc = [t \in Tasks |-> "idle"] /\ want = [t \in Tasks |-> NoKind]
    /\ ok = [t \in Tasks |-> TRUE]
    /\ gate = NoTask /\ left = 0 /\ got = <<>>
    /\ enabled = FALSE /\ timer = 0
    /\ leaving = {} /\ fifo = 0 /\ damaged = FALSE
    /\ heard = NoRequest /\ coming = <<>> /\ rx = <<>>
    /\ stale = FALSE /\ quick = FALSE
-----------------------------------------------------------------------------
(* bIFUART_transfer: the caller has waited in GateMutexPri_enter. *)
Enter(t, k) ==
    /\ pc[t] = "idle" /\ gate = NoTask
    /\ gate' = t
    /\ want' = [want EXCEPT ![t] = k]
    /\ ok' = [ok EXCEPT ![t] = TRUE]
    /\ Goto(t, "flush")
    /\ UNCHANGED <<readVars, driverVars, sendVars, lineVars, historyVars>>

(* Mutant of Flush: the receiver is not flushed. *)
FlushNot(t) ==
    /\ pc[t] = "flush"
    /\ stale' = FALSE
    /\ Goto(t, "enable")
    /\ UNCHANGED <<want, ok, gate, readVars, driverVars, sendVars, lineVars, quick>>

(* xIFUART_RXflush, but for Plain requests: what was received is read and
   dropped, if there is memory for it. *)
Flush(t) ==
    /\ pc[t] = "flush"
    /\ \/ want[t] \notin Plain /\ rx' = <<>>
       \/ (want[t] \in Plain \/ rx # <<>>) /\ rx' = rx
    /\ stale' = (want[t] \notin Tells /\ rx' # <<>>)
    /\ Goto(t, "enable")
    /\ UNCHANGED <<want, ok, gate, readVars, driverVars, sendVars, heard, coming, quick>>

(* xIFUART_sendData: the driver is enabled and UART_write begins. *)
Enable(t) ==
    /\ pc[t] = "enable"
    /\ enabled' = TRUE
    /\ leaving' = leaving \cup {Own}
    /\ Goto(t, "write")
    /\ UNCHANGED <<want, ok, gate, readVars, timer, fifo, damaged, lineVars, historyVars>>

(* UART_write returns with its last bytes in the FIFO. *)
Written(t) ==
    /\ pc[t] = "write"
    /\ fifo' = FifoTicks
    /\ Goto(t, "start")
    /\ UNCHANGED <<want, ok, gate, readVars, driverVars, leaving, damaged, lineVars, historyVars>>

(* What follows the write; the pause of writeCount ticks before a Raw answer is
   one tick. *)
Receive(t) ==
    \/ want[t] \in Tells /\ Goto(t, "leave") /\ left' = left
    \/ want[t] \in Raw /\ Goto(t, "sleep") /\ left' = ReadTicks + 1
    \/ want[t] \notin Tells \cup Raw /\ Goto(t, "receive") /\ left' = ReadTicks

(* Mutant of StartTimer: without the two ticks that are added. *)
StartTimerShort(t) ==
    /\ pc[t] = "start"
    /\ timer' = TimerTicks - 1
    /\ Receive(t)
    /\ quick' = (quick /\ ~enabled)
    /\ UNCHANGED <<want, ok, gate, got, enabled, sendVars, lineVars, stale>>

(* Mutant of StartTimer: only when an answer is expected. *)
StartTimerToRead(t) ==
    /\ pc[t] = "start"
    /\ timer' = IF want[t] \in Tells THEN timer ELSE TimerTicks
    /\ Receive(t)
    /\ quick' = (quick /\ ~enabled)
    /\ UNCHANGED <<want, ok, gate, got, enabled, sendVars, lineVars, stale>>

(* Clock_start: a clock that is running starts again. *)
StartTimer(t) ==
    /\ pc[t] = "start"
    /\ timer' = TimerTicks
    /\ Receive(t)
    /\ quick' = (quick /\ ~enabled)
    /\ UNCHANGED <<want, ok, gate, got, enabled, sendVars, lineVars, stale>>
-----------------------------------------------------------------------------
(* xIFUART_receiveData takes whatever is there. *)
ReadRaw(t) ==
    /\ pc[t] = "receive" /\ want[t] \in Raw /\ rx # <<>>
    /\ rx' = Tail(rx)
    /\ got' = Append(got, Head(rx))
    /\ Goto(t, "leave")
    /\ UNCHANGED <<want, ok, gate, left, driverVars, sendVars, heard, coming, historyVars>>

(* xIFUART_receiveAVDSFrameData takes the next token.  Before the preamble it
   skips; a length that is none may be refused, or pass for one; the payload is
   whatever follows. *)
ReadByte(t) ==
    /\ pc[t] = "receive" /\ want[t] \notin Raw /\ rx # <<>>
    /\ rx' = Tail(rx)
    /\ LET part == Head(rx).part
           next == Append(got, Head(rx)) IN
       \/ /\ Len(got) < 1
          /\ got' = IF part = Parts[Len(got) + 1] THEN next ELSE <<>>
          /\ pc' = pc
       \/ Len(got) = 1 /\ got' = next /\ pc' = pc
       \/ Len(got) = 1 /\ part # "length" /\ got' = next /\ Goto(t, "leave")
       \/ Len(got) = 2 /\ got' = next /\ Goto(t, "leave")
    /\ UNCHANGED <<want, ok, gate, left, driverVars, sendVars, heard, coming, historyVars>>

(* Nothing is there: Task_sleep(1). *)
Sleep(t) ==
    /\ pc[t] = "receive" /\ rx = <<>>
    /\ Goto(t, "sleep")
    /\ UNCHANGED <<want, ok, gate, readVars, driverVars, sendVars, lineVars, historyVars>>

Aged(tokens) == [i \in DOMAIN tokens |-> [tokens[i] EXCEPT !.age = "old"]]
Result(t) ==
    IF want[t] \in Tells THEN "told"
    ELSE IF Len(got) < Whole(want[t]) THEN "failed"
    ELSE IF \A i \in 1..Len(got) : got[i].age = got[1].age THEN got[1].age ELSE "mixed"

(* GateMutexPri_leave: true when as many bytes were read as were asked for. *)
Leave(t) ==
    /\ pc[t] = "leave"
    /\ gate' = NoTask /\ left' = 0 /\ got' = <<>>
    /\ ok' = [ok EXCEPT ![t] = Result(t) # "failed"]
    /\ leaving' = {[r EXCEPT !.age = "old"] : r \in leaving}
    /\ heard' = IF heard = NoRequest THEN heard ELSE [heard EXCEPT !.age = "old"]
    /\ coming' = Aged(coming) /\ rx' = Aged(rx)
    /\ quick' = (timer > 0 /\ (want[t] \in Tells \/ stale \/ quick))
    /\ stale' = FALSE
    /\ Goto(t, "idle")
    /\ UNCHANGED <<want, driverVars, fifo, damaged>>
-----------------------------------------------------------------------------
Down(n) == IF n > 0 THEN n - 1 ELSE 0

(* The system tick: vDriverEnableTimeout when the clock runs out, and the end
   of Task_sleep.  Bytes leave the FIFO before their time is over. *)
Tick ==
    /\ fifo # 1 /\ (fifo > 0 \/ timer > 0 \/ At("sleep"))
    /\ fifo' = Down(fifo) /\ timer' = Down(timer)
    /\ enabled' = (enabled /\ timer # 1)
    /\ damaged' = (damaged \/ (timer = 1 /\ enabled /\ leaving # {}))
    /\ \/ At("sleep") /\ left' = left - 1
          /\ Goto(gate, IF left = 1 THEN "leave" ELSE "receive")
       \/ ~At("sleep") /\ UNCHANGED <<pc, left>>
    /\ UNCHANGED <<want, ok, gate, got, leaving, lineVars, historyVars>>

(* What has gone: all but a request that is still being written. *)
Sent == IF At("write") THEN leaving \ {Own} ELSE leaving

(* The FIFO is empty: the unit has the last request, unless the clock cut it. *)
Drain ==
    /\ fifo > 0 /\ fifo' = 0
    /\ leaving' = leaving \ Sent
    /\ damaged' = FALSE
    /\ \/ /\ ~damaged /\ \E r \in Sent : heard' = r /\ (Own \in Sent => r = Own)
       \/ (damaged \/ Sent = {}) /\ heard' = heard
    /\ UNCHANGED <<pc, want, ok, gate, readVars, driverVars, coming, rx, historyVars>>

(* The unit answers, or has not understood. *)
Answer ==
    /\ heard # NoRequest /\ heard.kind \notin Tells /\ coming = <<>>
    /\ coming' = Frame(heard) /\ heard' = NoRequest
    /\ UNCHANGED <<taskVars, gate, readVars, driverVars, sendVars, rx, historyVars>>

Ignore ==
    /\ heard # NoRequest /\ heard' = NoRequest
    /\ UNCHANGED <<taskVars, gate, readVars, driverVars, sendVars, coming, rx, historyVars>>

Arrive ==
    /\ coming # <<>> /\ coming' = Tail(coming)
    /\ \/ (enabled \/ Len(rx) = MaxReceived) /\ UNCHANGED <<rx, stale>>
       \/ /\ ~enabled /\ Len(rx) < MaxReceived /\ rx' = Append(rx, Head(coming))
          /\ stale' = (stale \/ (Head(coming).age = "old" /\ gate # NoTask /\ ~At("flush")))
    /\ UNCHANGED <<taskVars, gate, readVars, driverVars, sendVars, heard, quick>>

Transfer(t) ==
    \/ Flush(t) \/ Enable(t) \/ Written(t) \/ StartTimer(t)
    \/ ReadRaw(t) \/ ReadByte(t) \/ Sleep(t) \/ Leave(t)
Next ==
    \/ \E t \in Tasks : Transfer(t) \/ \E k \in Kinds : Enter(t, k)
    \/ Tick \/ Drain \/ Answer \/ Ignore \/ Arrive
Spec == Init /\ [][Next]_vars
-----------------------------------------------------------------------------
(* No request is cut off on the line: while bytes of one are still leaving, the
   driver is disabled only if a transfer that did not wait for a fresh answer
   ended within the time of the clock before.  (The clock is one for all
   transfers of the port, and sending does not stop it.) *)
NotCutOff == (leaving # {} /\ ~enabled) => quick

(* A caller is told of an answer to an earlier request only when that answer
   came after the flush, or there was no memory to flush: what arrived before
   is never taken for the answer, whoever's it was. *)
AnswersOwn == \A t \in Tasks : (pc[t] = "leave" /\ Result(t) = "old") => stale

(* The driver is never left enabled, which would silence the units: it is so
   while a write is under way or the clock that disables it runs. *)
DriverReleased == enabled => timer > 0 \/ At("write") \/ At("start")
=============================================================================

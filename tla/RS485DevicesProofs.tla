-------------------------- MODULE RS485DevicesProofs --------------------------
(* The clock of the driver, the flush and the answers, proved for every number
   of kinds of request and every length of the clock, the FIFO and the read. *)
EXTENDS RS485Devices, TLAPS

(* Where the transfer in the gate is: before its write, in it, or after it. *)
Early == gate = NoTask \/ At("flush") \/ At("enable")
Sending == At("write") \/ At("start")
Waits == At("receive") \/ At("sleep")
Reading == Waits \/ At("leave")
Reads == gate # NoTask /\ want[gate] \notin Tells

Of(s, age) == \A i \in 1..Len(s) : s[i].age = age

PortTypeOK ==
    /\ pc \in [Tasks -> Labels] /\ want \in [Tasks -> Kinds \cup {NoKind}]
    /\ gate \in Tasks \cup {NoTask} /\ left \in Nat
    /\ enabled \in BOOLEAN /\ timer \in Nat /\ fifo \in Nat
    /\ leaving \subseteq Requests /\ heard \in Requests \cup {NoRequest}
    /\ got \in Seq(Tokens) /\ coming \in Seq(Tokens) /\ rx \in Seq(Tokens)
    /\ stale \in BOOLEAN /\ quick \in BOOLEAN

(* The task that is not idle has the gate, and has asked for something. *)
GateInv == \A t \in Tasks : (pc[t] # "idle" <=> gate = t) /\ (gate = t => want[t] \in Kinds)

(* Nothing is of this transfer before its write, and nothing is received while
   the driver is enabled. *)
OldInv ==
    /\ Early => /\ \A r \in leaving : r.age = "old"
                /\ heard # NoRequest => heard.age = "old"
                /\ Of(coming, "old")
    /\ Early \/ (Sending /\ enabled) => Of(rx, "old")
    /\ Early \/ Sending => got = <<>>

(* Unless it is stale, what is received after the flush is of this transfer. *)
OwnInv == (Reads /\ ~At("flush") /\ ~stale) => Of(rx, "own") /\ Of(got, "own")

(* The FIFO is empty before the clock has run out. *)
FifoInv ==
    /\ fifo <= FifoTicks /\ (~Sending => fifo <= timer)
    /\ \A r \in leaving : fifo > 0 \/ (At("write") /\ r = Own)

(* When the driver is enabled, and until when the clock runs. *)
TimeInv ==
    /\ enabled => timer > 0 \/ Sending
    /\ Waits => left > 0 /\ timer <= left
    /\ ~quick => /\ Early \/ Sending => timer = 0
                 /\ Sending \/ (Reading /\ timer > 0) => enabled
    /\ (~quick /\ ~stale /\ Reads /\ Reading /\ timer > 0) =>
           rx = <<>> /\ got = <<>> /\ ~At("leave")

IInv == PortTypeOK /\ GateInv /\ OldInv /\ OwnInv /\ FifoInv /\ TimeInv
-----------------------------------------------------------------------------
(* Lemmas on sequences of tokens. *)

(* The empty sequence, and a sequence that is of either age. *)
LEMMA EmptyTokens ==
    /\ <<>> \in Seq(Tokens) /\ \A a \in Ages : Of(<<>>, a)
    /\ \A s \in Seq(Tokens) : Of(s, "old") /\ Of(s, "own") => s = <<>>
<1>1. \A s \in Seq(Tokens) : s # <<>> => 1 \in 1..Len(s)
  OBVIOUS
<1> QED
  BY <1>1 DEF Of

(* The first token and the rest of a sequence. *)
LEMMA TailTokens ==
    ASSUME NEW s \in Seq(Tokens), s # <<>>
    PROVE  /\ Tail(s) \in Seq(Tokens) /\ Head(s) \in Tokens
           /\ \A a \in Ages : Of(s, a) => Of(Tail(s), a) /\ Head(s).age = a
<1>1. Len(s) > 0 /\ Head(s) = s[1] /\ Tail(s) \in Seq(Tokens) /\ s[1] \in Tokens
  OBVIOUS
<1>2. /\ Len(Tail(s)) = Len(s) - 1
      /\ \A i \in 1..Len(Tail(s)) : Tail(s)[i] = s[i + 1]
  BY <1>1
<1> QED
  BY <1>1, <1>2 DEF Of

(* A token more. *)
LEMMA AppendToken ==
    ASSUME NEW s \in Seq(Tokens), NEW x \in Tokens
    PROVE  /\ Append(s, x) \in Seq(Tokens) /\ Append(s, x) # <<>>
           /\ \A a \in Ages : Of(s, a) /\ x.age = a => Of(Append(s, x), a)
<1>1. /\ Append(s, x) \in Seq(Tokens) /\ Len(Append(s, x)) = Len(s) + 1
      /\ \A i \in 1..Len(s) + 1 : Append(s, x)[i] = IF i = Len(s) + 1 THEN x ELSE s[i]
  OBVIOUS
<1> QED
  BY <1>1 DEF Of

(* An answer is of the age of its request. *)
LEMMA FrameTokens ==
    ASSUME NEW r \in Requests
    PROVE  Frame(r) \in Seq(Tokens) /\ Of(Frame(r), r.age)
<1>1. r.age \in Ages
  BY DEF Requests
<1>2. CASE r.kind \in Raw
  BY <1>1, <1>2 DEF Frame, Of, Tokens
<1>3. CASE r.kind \notin Raw
  <2>1. \A i \in 1..3 : Parts[i] \in {"byte", "preamble", "length", "payload"}
    BY DEF Parts
  <2>2. Frame(r) = [i \in 1..3 |-> [part |-> Parts[i], age |-> r.age]]
    BY <1>3 DEF Frame
  <2>3. Frame(r) \in [1..3 -> Tokens]
    BY <1>1, <2>1, <2>2 DEF Tokens
  <2>4. \A n \in Nat : \A f \in [1..n -> Tokens] : f \in Seq(Tokens) /\ Len(f) = n
    OBVIOUS
  <2>5. Frame(r) \in Seq(Tokens) /\ Len(Frame(r)) = 3
    BY <2>3, <2>4
  <2> QED
    BY <2>2, <2>5 DEF Of
<1> QED
  BY <1>2, <1>3

(* What was of this transfer is old after it. *)
LEMMA AgedTokens ==
    ASSUME NEW s \in Seq(Tokens)
    PROVE  Aged(s) \in Seq(Tokens) /\ Of(Aged(s), "old")
<1>1. \A x \in Tokens : [x EXCEPT !.age = "old"] \in Tokens /\ [x EXCEPT !.age = "old"].age = "old"
  BY DEF Tokens, Ages
<1>2. Aged(s) = [i \in 1..Len(s) |-> [s[i] EXCEPT !.age = "old"]]
  BY DEF Aged
<1>3. Aged(s) \in [1..Len(s) -> Tokens] /\ Len(s) \in Nat
  BY <1>1, <1>2
<1>4. Aged(s) \in Seq(Tokens) /\ Len(Aged(s)) = Len(s)
  BY <1>3
<1> QED
  BY <1>1, <1>2, <1>4 DEF Of
-----------------------------------------------------------------------------
(* The transfer keeps the invariant, step by step. *)

(* A transfer that begins finds nothing of its own. *)
LEMMA KeepsEnter ==
    ASSUME IInv, NEW t \in Tasks, NEW k \in Kinds, Enter(t, k)
    PROVE  IInv'
<1> USE PortAssumption DEF IInv, Enter, Goto, Early, Sending, Waits, Reading, Reads,
        At, taskVars, readVars, driverVars, sendVars, lineVars, historyVars
<1>1. PortTypeOK'
  BY DEF PortTypeOK, Labels
<1>2. GateInv'
  BY DEF GateInv, PortTypeOK
<1>3. OldInv'
  BY DEF OldInv, GateInv, PortTypeOK, Of
<1>4. OwnInv'
  BY DEF OwnInv, OldInv, GateInv, PortTypeOK, Of
<1>5. FifoInv'
  BY DEF FifoInv, GateInv, PortTypeOK
<1>6. TimeInv'
  BY DEF TimeInv, GateInv, PortTypeOK
<1> QED
  BY <1>1, <1>2, <1>3, <1>4, <1>5, <1>6

(* After the flush nothing is received that is not stale. *)
LEMMA KeepsFlush ==
    ASSUME IInv, NEW t \in Tasks, Flush(t)
    PROVE  IInv'
<1> USE PortAssumption DEF IInv, Flush, Goto, Early, Sending, Waits, Reading, Reads,
        At, taskVars, readVars, driverVars, sendVars, lineVars, historyVars
<1>1. PortTypeOK'
  BY EmptyTokens DEF PortTypeOK, Labels
<1>2. GateInv'
  BY DEF GateInv, PortTypeOK
<1>3. OldInv'
  BY DEF OldInv, GateInv, PortTypeOK, Of
<1>4. OwnInv'
  BY EmptyTokens DEF OwnInv, OldInv, GateInv, PortTypeOK, Ages
<1>5. FifoInv'
  BY DEF FifoInv, GateInv, PortTypeOK
<1>6. TimeInv'
  BY DEF TimeInv, GateInv, PortTypeOK
<1> QED
  BY <1>1, <1>2, <1>3, <1>4, <1>5, <1>6

(* The driver is enabled before anything of the request leaves. *)
LEMMA KeepsEnable ==
    ASSUME IInv, NEW t \in Tasks, Enable(t)
    PROVE  IInv'
<1> USE PortAssumption DEF IInv, Enable, Goto, Own, Early, Sending, Waits, Reading,
        Reads, At, taskVars, readVars, driverVars, sendVars, lineVars, historyVars
<1>1. PortTypeOK'
  <2>1. Own \in Requests
    BY DEF Own, Requests, Ages, GateInv, PortTypeOK
  <2> QED BY <2>1 DEF PortTypeOK, Labels
<1>2. GateInv'
  BY DEF GateInv, PortTypeOK
<1>3. OldInv'
  BY DEF OldInv, GateInv, PortTypeOK, Of
<1>4. OwnInv'
  BY DEF OwnInv, OldInv, GateInv, PortTypeOK, Of
<1>5. FifoInv'
  BY DEF FifoInv, GateInv, PortTypeOK
<1>6. TimeInv'
  BY DEF TimeInv, GateInv, PortTypeOK
<1> QED
  BY <1>1, <1>2, <1>3, <1>4, <1>5, <1>6

(* What has been written is in the FIFO. *)
LEMMA KeepsWritten ==
    ASSUME IInv, NEW t \in Tasks, Written(t)
    PROVE  IInv'
<1> USE PortAssumption DEF IInv, Written, Goto, Own, Early, Sending, Waits, Reading,
        Reads, At, taskVars, readVars, driverVars, sendVars, lineVars, historyVars
<1>1. PortTypeOK'
  BY DEF PortTypeOK, Labels
<1>2. GateInv'
  BY DEF GateInv, PortTypeOK
<1>3. OldInv'
  BY DEF OldInv, GateInv, PortTypeOK, Of
<1>4. OwnInv'
  BY DEF OwnInv, OldInv, GateInv, PortTypeOK, Of
<1>5. FifoInv'
  BY DEF FifoInv, GateInv, PortTypeOK
<1>6. TimeInv'
  BY DEF TimeInv, GateInv, PortTypeOK
<1> QED
  BY <1>1, <1>2, <1>3, <1>4, <1>5, <1>6

(* The clock takes longer than the FIFO, and less than the wait for the answer. *)
LEMMA KeepsStartTimer ==
    ASSUME IInv, NEW t \in Tasks, StartTimer(t)
    PROVE  IInv'
<1> USE PortAssumption DEF IInv, StartTimer, Receive, Goto, Own, Early, Sending,
        Waits, Reading, Reads, At, taskVars, readVars, driverVars, sendVars,
        lineVars, historyVars
<1>1. PortTypeOK'
  BY DEF PortTypeOK, Labels
<1>2. GateInv'
  BY DEF GateInv, PortTypeOK
<1>3. OldInv'
  BY DEF OldInv, GateInv, PortTypeOK, Of
<1>4. OwnInv'
  BY DEF OwnInv, OldInv, GateInv, PortTypeOK, Of
<1>5. FifoInv'
  BY DEF FifoInv, GateInv, PortTypeOK
<1>6. TimeInv'
  <2>1. enabled /\ Reads /\ ~stale => rx = <<>> /\ got = <<>>
    BY EmptyTokens DEF OldInv, OwnInv, GateInv, PortTypeOK
  <2> QED BY <2>1 DEF TimeInv, GateInv, PortTypeOK
<1> QED
  BY <1>1, <1>2, <1>3, <1>4, <1>5, <1>6

(* A byte is read: the driver is disabled by then. *)
LEMMA KeepsReadRaw ==
    ASSUME IInv, NEW t \in Tasks, ReadRaw(t)
    PROVE  IInv'
<1> USE PortAssumption DEF IInv, ReadRaw, Goto, Early, Sending, Waits, Reading,
        Reads, At, taskVars, readVars, driverVars, sendVars, lineVars, historyVars
<1>1. PortTypeOK'
  BY AppendToken, TailTokens, EmptyTokens DEF PortTypeOK, Labels
<1>2. GateInv'
  BY DEF GateInv, PortTypeOK
<1>3. OldInv'
  BY TailTokens DEF OldInv, GateInv, PortTypeOK, Ages
<1>4. OwnInv'
  BY AppendToken, TailTokens, EmptyTokens DEF OwnInv, GateInv, PortTypeOK, Ages
<1>5. FifoInv'
  BY DEF FifoInv, GateInv, PortTypeOK
<1>6. TimeInv'
  BY DEF TimeInv, GateInv, PortTypeOK
<1> QED
  BY <1>1, <1>2, <1>3, <1>4, <1>5, <1>6

(* A token is read: the driver is disabled by then. *)
LEMMA KeepsReadByte ==
    ASSUME IInv, NEW t \in Tasks, ReadByte(t)
    PROVE  IInv'
<1> USE PortAssumption DEF IInv, ReadByte, Goto, Early, Sending, Waits, Reading,
        Reads, At, taskVars, readVars, driverVars, sendVars, lineVars, historyVars
<1>1. PortTypeOK'
  BY AppendToken, TailTokens, EmptyTokens DEF PortTypeOK, Labels
<1>2. GateInv'
  BY DEF GateInv, PortTypeOK
<1>3. OldInv'
  BY TailTokens DEF OldInv, GateInv, PortTypeOK, Ages
<1>4. OwnInv'
  <2>1. SUFFICES ASSUME Reads /\ ~At("flush") /\ ~stale
               PROVE  Of(rx', "own") /\ Of(got', "own")
    BY DEF OwnInv, GateInv, PortTypeOK
  <2>2. Of(rx, "own") /\ Of(got, "own")
    BY <2>1 DEF OwnInv
  <2>3. Of(rx', "own") /\ Head(rx) \in Tokens /\ Head(rx).age = "own"
    BY <2>2, TailTokens DEF PortTypeOK, Ages
  <2>4. got' = <<>> \/ got' = Append(got, Head(rx))
    OBVIOUS
  <2>5. Of(<<>>, "own") /\ Of(Append(got, Head(rx)), "own")
    BY <2>2, <2>3, AppendToken, EmptyTokens DEF PortTypeOK, Ages
  <2> QED
    BY <2>3, <2>4, <2>5
<1>5. FifoInv'
  BY DEF FifoInv, GateInv, PortTypeOK
<1>6. TimeInv'
  BY DEF TimeInv, GateInv, PortTypeOK
<1> QED
  BY <1>1, <1>2, <1>3, <1>4, <1>5, <1>6

(* Nothing is read. *)
LEMMA KeepsSleep ==
    ASSUME IInv, NEW t \in Tasks, Sleep(t)
    PROVE  IInv'
<1> USE PortAssumption DEF IInv, Sleep, Goto, Early, Sending, Waits, Reading, Reads,
        At, taskVars, readVars, driverVars, sendVars, lineVars, historyVars
<1>1. PortTypeOK'
  BY DEF PortTypeOK, Labels
<1>2. GateInv'
  BY DEF GateInv, PortTypeOK
<1>3. OldInv'
  BY DEF OldInv, GateInv, PortTypeOK, Of
<1>4. OwnInv'
  BY DEF OwnInv, OldInv, GateInv, PortTypeOK, Of
<1>5. FifoInv'
  BY DEF FifoInv, GateInv, PortTypeOK
<1>6. TimeInv'
  BY DEF TimeInv, GateInv, PortTypeOK
<1> QED
  BY <1>1, <1>2, <1>3, <1>4, <1>5, <1>6

(* What is left of the transfer is old, and the clock has run out unless it was quick. *)
LEMMA KeepsLeave ==
    ASSUME IInv, NEW t \in Tasks, Leave(t)
    PROVE  IInv'
<1> USE PortAssumption DEF IInv, Leave, Goto, Early, Sending, Waits, Reading, Reads,
        At, taskVars, readVars, driverVars, sendVars, lineVars, historyVars
<1>1. PortTypeOK'
  BY AgedTokens, EmptyTokens DEF PortTypeOK, Labels, Requests, Ages
<1>2. GateInv'
  BY DEF GateInv, PortTypeOK
<1>3. OldInv'
  BY AgedTokens, EmptyTokens DEF OldInv, GateInv, PortTypeOK, Requests, Ages
<1>4. OwnInv'
  BY DEF OwnInv, OldInv, GateInv, PortTypeOK, Of
<1>5. FifoInv'
  BY DEF FifoInv, GateInv, PortTypeOK
<1>6. TimeInv'
  BY DEF TimeInv, GateInv, PortTypeOK
<1> QED
  BY <1>1, <1>2, <1>3, <1>4, <1>5, <1>6

(* The clock runs out after the FIFO is empty and before the wait is over. *)
LEMMA KeepsTick ==
    ASSUME IInv, Tick
    PROVE  IInv'
<1> USE PortAssumption DEF IInv, Tick, Down, Goto, Own, Early, Sending, Waits,
        Reading, Reads, At, taskVars, readVars, driverVars, sendVars, lineVars,
        historyVars
<1>1. PortTypeOK'
  <2>1. left' \in Nat
    BY DEF TimeInv, PortTypeOK
  <2>2. pc' \in [Tasks -> Labels]
    BY DEF PortTypeOK, Labels
  <2> QED BY <2>1, <2>2 DEF PortTypeOK
<1>2. GateInv'
  BY DEF GateInv, PortTypeOK
<1>3. OldInv'
  BY DEF OldInv, GateInv, PortTypeOK, Of
<1>4. OwnInv'
  BY DEF OwnInv, OldInv, GateInv, PortTypeOK, Of
<1>5. FifoInv'
  BY DEF FifoInv, GateInv, PortTypeOK
<1>6. TimeInv'
  <2>1. (enabled' => enabled /\ timer # 1) /\ (enabled /\ timer # 1 => enabled')
    OBVIOUS
  <2>2. timer' = IF timer > 0 THEN timer - 1 ELSE 0
    OBVIOUS
  <2>3. CASE At("sleep")
    <3>1. gate \in Tasks /\ left > 0 /\ timer <= left /\ ~Sending /\ ~Early /\ Reading
      BY <2>3 DEF TimeInv, PortTypeOK
    <3>2. CASE left = 1
      <4>1. timer' = 0 /\ At("leave")'
        BY <2>2, <2>3, <3>1, <3>2 DEF PortTypeOK
      <4> QED
        BY <2>1, <3>1, <4>1 DEF TimeInv, PortTypeOK
    <3>3. CASE left # 1
      <4>1. At("receive")' /\ left' = left - 1
        BY <2>3, <3>1, <3>3 DEF PortTypeOK
      <4> QED
        BY <2>1, <2>2, <3>1, <3>3, <4>1 DEF TimeInv, PortTypeOK
    <3> QED
      BY <3>2, <3>3
  <2>4. CASE ~At("sleep")
    <3>1. UNCHANGED <<pc, gate, left, rx, got, want, stale, quick>>
      BY <2>4
    <3>2. ~Waits' \/ At("receive")
      BY <2>4, <3>1
    <3> QED
      BY <2>1, <2>2, <3>1, <3>2 DEF TimeInv, PortTypeOK
  <2> QED BY <2>3, <2>4
<1> QED
  BY <1>1, <1>2, <1>3, <1>4, <1>5, <1>6

(* The unit gets what has left. *)
LEMMA KeepsDrain ==
    ASSUME IInv, Drain
    PROVE  IInv'
<1> USE PortAssumption DEF IInv, Drain, Own, Early, Sending, Waits, Reading, Reads,
        At, taskVars, readVars, driverVars, sendVars, lineVars, historyVars
<1>1. PortTypeOK'
  BY DEF PortTypeOK, Labels, Sent
<1>2. GateInv'
  BY DEF GateInv, PortTypeOK
<1>3. OldInv'
  BY DEF OldInv, GateInv, PortTypeOK, Sent
<1>4. OwnInv'
  BY DEF OwnInv, OldInv, GateInv, PortTypeOK, Of
<1>5. FifoInv'
  BY DEF FifoInv, GateInv, PortTypeOK, Sent
<1>6. TimeInv'
  BY DEF TimeInv, GateInv, PortTypeOK
<1> QED
  BY <1>1, <1>2, <1>3, <1>4, <1>5, <1>6

(* The answer is of the age of its request. *)
LEMMA KeepsAnswer ==
    ASSUME IInv, Answer
    PROVE  IInv'
<1> USE PortAssumption DEF IInv, Answer, Own, Early, Sending, Waits, Reading, Reads,
        At, taskVars, readVars, driverVars, sendVars, lineVars, historyVars
<1>1. PortTypeOK'
  BY FrameTokens DEF PortTypeOK, Labels
<1>2. GateInv'
  BY DEF GateInv, PortTypeOK
<1>3. OldInv'
  BY FrameTokens DEF OldInv, GateInv, PortTypeOK
<1>4. OwnInv'
  BY DEF OwnInv, OldInv, GateInv, PortTypeOK, Of
<1>5. FifoInv'
  BY DEF FifoInv, GateInv, PortTypeOK
<1>6. TimeInv'
  BY DEF TimeInv, GateInv, PortTypeOK
<1> QED
  BY <1>1, <1>2, <1>3, <1>4, <1>5, <1>6

(* A request is not answered. *)
LEMMA KeepsIgnore ==
    ASSUME IInv, Ignore
    PROVE  IInv'
<1> USE PortAssumption DEF IInv, Ignore, Own, Early, Sending, Waits, Reading, Reads,
        At, taskVars, readVars, driverVars, sendVars, lineVars, historyVars
<1>1. PortTypeOK'
  BY DEF PortTypeOK, Labels
<1>2. GateInv'
  BY DEF GateInv, PortTypeOK
<1>3. OldInv'
  BY DEF OldInv, GateInv, PortTypeOK, Of
<1>4. OwnInv'
  BY DEF OwnInv, OldInv, GateInv, PortTypeOK, Of
<1>5. FifoInv'
  BY DEF FifoInv, GateInv, PortTypeOK
<1>6. TimeInv'
  BY DEF TimeInv, GateInv, PortTypeOK
<1> QED
  BY <1>1, <1>2, <1>3, <1>4, <1>5, <1>6

(* A token is received only while the driver is disabled. *)
LEMMA KeepsArrive ==
    ASSUME IInv, Arrive
    PROVE  IInv'
<1> USE PortAssumption DEF IInv, Arrive, Own, Early, Sending, Waits, Reading, Reads,
        At, taskVars, readVars, driverVars, sendVars, lineVars, historyVars
<1>1. PortTypeOK'
  BY AppendToken, TailTokens DEF PortTypeOK, Labels
<1>2. GateInv'
  BY DEF GateInv, PortTypeOK
<1>3. OldInv'
  BY AppendToken, TailTokens DEF OldInv, GateInv, PortTypeOK, Ages
<1>4. OwnInv'
  <2>1. CASE rx' = rx /\ stale' = stale
    BY <2>1 DEF OwnInv
  <2>2. CASE /\ rx' = Append(rx, Head(coming)) /\ gate # NoTask /\ ~At("flush")
             /\ stale' = (stale \/ (Head(coming).age = "old" /\ gate # NoTask /\ ~At("flush")))
    <3>1. Head(coming) \in Tokens /\ Head(coming).age \in Ages
      BY TailTokens DEF PortTypeOK, Tokens
    <3>2. ~stale' => ~stale /\ Head(coming).age = "own"
      BY <2>2, <3>1 DEF Ages
    <3> QED
      BY <2>2, <3>1, <3>2, AppendToken DEF OwnInv, PortTypeOK, Ages
  <2> QED
    BY <2>1, <2>2 DEF OwnInv
<1>5. FifoInv'
  BY DEF FifoInv, GateInv, PortTypeOK
<1>6. TimeInv'
  BY DEF TimeInv, GateInv, PortTypeOK
<1> QED
  BY <1>1, <1>2, <1>3, <1>4, <1>5, <1>6

(* The unit forgets the request and its answer. *)
LEMMA KeepsUnitReset ==
    ASSUME IInv, UnitReset
    PROVE  IInv'
<1> USE PortAssumption DEF IInv, UnitReset, Own, Early, Sending, Waits, Reading,
        Reads, At, taskVars, readVars, driverVars, sendVars, lineVars, historyVars
<1>1. PortTypeOK'
  BY EmptyTokens DEF PortTypeOK, Labels
<1>2. GateInv'
  BY DEF GateInv, PortTypeOK
<1>3. OldInv'
  BY EmptyTokens DEF OldInv, GateInv, PortTypeOK, Ages
<1>4. OwnInv'
  BY DEF OwnInv, OldInv, GateInv, PortTypeOK, Of
<1>5. FifoInv'
  BY DEF FifoInv, GateInv, PortTypeOK
<1>6. TimeInv'
  BY DEF TimeInv, GateInv, PortTypeOK
<1> QED
  BY <1>1, <1>2, <1>3, <1>4, <1>5, <1>6
-----------------------------------------------------------------------------
(* At the start nothing has been sent. *)
LEMMA IInvInit == DInit => IInv
<1> SUFFICES ASSUME DInit PROVE IInv
  OBVIOUS
<1> USE PortAssumption DEF DInit, Init
<1>1. PortTypeOK
  BY EmptyTokens DEF PortTypeOK, Labels
<1>2. GateInv
  BY DEF GateInv
<1>3. OldInv
  BY EmptyTokens DEF OldInv, Ages
<1>4. OwnInv
  BY DEF OwnInv, Reads
<1>5. FifoInv /\ TimeInv
  BY DEF FifoInv, TimeInv, Sending, Waits, Reading, At
<1> QED
  BY <1>1, <1>2, <1>3, <1>4, <1>5 DEF IInv

(* A step that changes none of the variables. *)
LEMMA IInvStutter == IInv /\ UNCHANGED vars => IInv'
BY DEF IInv, vars, taskVars, readVars, driverVars, sendVars, lineVars, historyVars,
       PortTypeOK, GateInv, OldInv, OwnInv, FifoInv, TimeInv, Early, Sending, Waits,
       Reading, Reads, At, Own

(* Every step of the devices, the units and time. *)
LEMMA IInvNext == IInv /\ [DNext]_allVars => IInv'
<1> SUFFICES ASSUME IInv, [DNext]_allVars PROVE IInv'
  OBVIOUS
<1>1. ASSUME NEW t \in Tasks, NEW k \in Kinds, Enter(t, k) PROVE IInv'
  BY <1>1, KeepsEnter
<1>2. CASE Boot \/ Periodic \/ Reinitialise \/ Command \/ Rosen
  <2>1. avds \in Tasks /\ rosen \in Tasks /\ Asks \subseteq Kinds
    BY DevicesAssumption
  <2> QED
    BY <1>1, <1>2, <2>1 DEF Boot, Periodic, Reinitialise, Command, Rosen, Asks
<1>3. ASSUME NEW t \in Tasks, Transfer(t) PROVE IInv'
  BY <1>3, KeepsFlush, KeepsEnable, KeepsWritten, KeepsStartTimer, KeepsReadRaw,
     KeepsReadByte, KeepsSleep, KeepsLeave DEF Transfer
<1>4. CASE Hear
  BY <1>4, KeepsDrain DEF Hear
<1>5. CASE Answers
  BY <1>5, KeepsAnswer DEF Answers
<1>6. CASE UnitReset
  BY <1>6, KeepsUnitReset
<1>7. CASE TickStep
  BY <1>7, KeepsTick DEF TickStep
<1>8. CASE Ignore \/ Arrive
  BY <1>8, KeepsIgnore, KeepsArrive
<1>9. CASE UNCHANGED allVars
  BY <1>9, IInvStutter DEF allVars
<1> QED
  BY <1>2, <1>3, <1>4, <1>5, <1>6, <1>7, <1>8, <1>9 DEF DNext, TransferStep

(* The invariant on which the other theorems rest. *)
THEOREM PortInvariant == DSpec => []IInv
<1>1. DInit => IInv
  BY IInvInit
<1>2. IInv /\ [DNext]_allVars => IInv'
  BY IInvNext
<1> QED
  BY <1>1, <1>2, PTL DEF DSpec

(* The clock of the driver never cuts a request, but after a transfer that did
   not wait for a fresh answer: while bytes leave, the clock has not run out
   (FifoInv), and until then the driver stays enabled (TimeInv). *)
THEOREM RequestsWhole == DSpec => []NotCutOff
<1>1. IInv => NotCutOff
  <2> SUFFICES ASSUME IInv, ~quick, leaving # {} PROVE enabled
    BY DEF NotCutOff, IInv, PortTypeOK
  <2>1. CASE Sending
    BY <2>1 DEF IInv, TimeInv
  <2>2. CASE ~Sending
    <3>1. fifo > 0 /\ fifo <= timer
      BY <2>2 DEF IInv, FifoInv, Sending
    <3>2. timer > 0
      BY <3>1 DEF IInv, PortTypeOK
    <3>3. Early \/ Sending \/ Reading
      BY DEF IInv, PortTypeOK, GateInv, Labels, Early, Sending, Reading, Waits, At
    <3> QED
      BY <2>2, <3>2, <3>3 DEF IInv, TimeInv
  <2> QED
    BY <2>1, <2>2
<1> QED
  BY <1>1, PortInvariant, PTL

(* An answer to an earlier request is given to a caller only when it came after
   the flush: without it, all that was read is of this transfer (OwnInv). *)
THEOREM AnswersFresh == DSpec => []AnswersOwn
<1>1. IInv => AnswersOwn
  <2> SUFFICES ASSUME IInv, NEW t \in Tasks, pc[t] = "leave", Result(t) = "old", ~stale
               PROVE  FALSE
    BY DEF AnswersOwn, IInv, PortTypeOK
  <2>1. gate = t /\ gate # NoTask
    BY PortAssumption DEF IInv, GateInv
  <2>2. want[t] \notin Tells /\ Len(got) >= Whole(want[t]) /\ got[1].age = "old"
    BY DEF Result, Whole, IInv, PortTypeOK
  <2>3. Of(got, "own")
    BY <2>1, <2>2 DEF IInv, OwnInv, Reads, At
  <2>4. Len(got) >= 1
    BY <2>2 DEF Whole, IInv, PortTypeOK
  <2> QED
    BY <2>2, <2>3, <2>4 DEF Of, IInv, PortTypeOK
<1> QED
  BY <1>1, PortInvariant, PTL

(* The driver is enabled only in a write or while the clock runs. *)
THEOREM DriverReleases == DSpec => []DriverReleased
<1>1. IInv => DriverReleased
  BY DEF IInv, TimeInv, Sending, DriverReleased
<1> QED
  BY <1>1, PortInvariant, PTL
=============================================================================

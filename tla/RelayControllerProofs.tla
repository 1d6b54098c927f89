------------------------ MODULE RelayControllerProofs ------------------------
(* Proofs about RelayController, for every number of boxes and inputs, every
   routing and every command.

   The gate of an input is restored along a path of up to seven steps that forks
   at what was read of it.  GateInv says at each of them what the history and the
   bits that were read still have to do with the gate; SureInv says what a good
   acknowledgement, until the command is answered, still has to do with the input
   it was for.  FollowInv says for every input, wherever its requests are on their
   way, that the last of them is what was asked for. *)
EXTENDS RelayController, WellFoundedInduction, NaturalsInduction, TLAPS

TypeInv ==
    /\ DOMAIN vin = Boxes /\ \A b \in Boxes : DOMAIN vin[b] = Inputs
    /\ list \in Seq(Boxes) /\ gates \in [Boxes -> SUBSET Inputs]
    /\ dpc \in {"idle", "readGate", "setInput", "sleep", "clearInput", "setGate", "resetGate",
                "status", "respond"}
    /\ cmd \in Commands \cup {NoCmd} /\ (dpc # "idle" => cmd \in Commands)
    /\ (dpc = "status" => cmd.kind = "status")
    /\ (dpc = "readGate" => cmd.kind \in {"set", "trigger", "getGate"})
    /\ (dpc = "setInput" => cmd.kind \in {"set", "trigger"})
    /\ (dpc = "setGate" => cmd.kind \in {"set", "trigger", "setGate"})
    /\ (dpc \in {"sleep", "clearInput", "resetGate"} => cmd.kind = "trigger")
    /\ ack \in BOOLEAN /\ gateWas \in {0, 1, Unknown}

Selected == cmd.input \in gates[cmd.box]
GateInv ==
    (dpc # "idle" /\ cmd.kind = "trigger" /\ gateWas # Unknown) =>
        /\ dpc \in {"readGate", "setInput", "respond"} => (Selected <=> gateWas = 1)
        /\ dpc \in {"sleep", "clearInput"} /\ cmd.input \in bits => (Selected <=> gateWas = 1)
        /\ dpc \in {"setInput", "sleep", "clearInput"} /\ gateWas = 1 => cmd.input \in bits
        /\ dpc \in {"setGate", "resetGate"} => gateWas = 0 /\ cmd.input \notin bits

(* What the command has put into its input so far. *)
Wanted == IF cmd.kind = "set" THEN cmd.value
          ELSE IF dpc \in {"resetGate", "respond"} THEN 0 ELSE 1
SureInv ==
    sure => /\ dpc \in {"sleep", "clearInput", "setGate", "resetGate", "respond"}
            /\ cmd.kind = "setGate" => dpc = "respond" /\ (Selected <=> cmd.value = 1)
            /\ cmd.kind # "setGate" => vin[cmd.box][cmd.input] = Wanted
            /\ cmd.kind = "set" => dpc \in {"setGate", "respond"}

IInv == TypeInv /\ IsInjective(list) /\ GateInv /\ SureInv
-----------------------------------------------------------------------------
LEMMA InitInv == Init => IInv
<1>1. Init => TypeInv /\ IsInjective(list)
  <2> SUFFICES ASSUME Init PROVE TypeInv /\ IsInjective(list)
    OBVIOUS
  <2>1. list = <<>> /\ list \in Seq(Boxes) /\ DOMAIN list = 1..0
    BY DEF Init
  <2>2. gates \in [Boxes -> SUBSET Inputs] /\ DOMAIN vin = Boxes
        /\ \A b \in Boxes : DOMAIN vin[b] = Inputs
    BY DEF Init
  <2>3. IsInjective(list)
    BY <2>1 DEF IsInjective
  <2> QED
    BY <2>1, <2>2, <2>3 DEF Init, Nothing, TypeInv
<1> QED
  BY <1>1 DEF Init, Nothing, IInv, GateInv, SureInv

(* The answers that come are frames of boxes, and a good acknowledgement of its
   own means that the box has done what was asked. *)
LEMMA OutcomeTypes ==
    ASSUME NEW b \in Boxes, NEW ops \in SUBSET {"cluResponse", "diagnosticResponse", "ack"},
           NEW o \in Outcomes(b, ops)
    PROVE  /\ o.got \in Answers \cup {NoAnswer}
           /\ o.got # NoAnswer /\ o.got.op = "ack" /\ o.mine => o.done
<1>1. NoAnswer \notin Answers
  BY MultinetAssumption
<1>2. CASE o \in {[done |-> TRUE, mine |-> TRUE, got |-> [op |-> op, from |-> b]] : op \in ops}
  <2>1. PICK op \in ops : o = [done |-> TRUE, mine |-> TRUE, got |-> [op |-> op, from |-> b]]
    BY <1>2
  <2> QED
    BY <2>1 DEF Answers, Responses
<1>3. CASE o = [done |-> FALSE, mine |-> TRUE, got |-> [op |-> "nak", from |-> b]]
  BY <1>3 DEF Answers
<1>4. CASE o \in [done : BOOLEAN, mine : {FALSE}, got : Answers \cup {NoAnswer}]
  BY <1>4
<1>5. \/ o \in {[done |-> TRUE, mine |-> TRUE, got |-> [op |-> op, from |-> b]] : op \in ops}
      \/ o = [done |-> FALSE, mine |-> TRUE, got |-> [op |-> "nak", from |-> b]]
      \/ o \in [done : BOOLEAN, mine : {FALSE}, got : Answers \cup {NoAnswer}]
  BY DEF Outcomes
<1> QED
  BY <1>2, <1>3, <1>4, <1>5

(* A worker is made only for a sender that has none. *)
LEMMA DiscoverInjective ==
    ASSUME TypeInv, IsInjective(list), NEW b \in Boxes, ~Found(b), list' = Append(list, b)
    PROVE  list' \in Seq(Boxes) /\ IsInjective(list')
<1>1. list' \in Seq(Boxes)
  BY DEF TypeInv
<1>2. Len(list) \in Nat /\ DOMAIN list = 1..Len(list) /\ DOMAIN list' = 1..(Len(list) + 1)
  BY DEF TypeInv
<1>3. /\ \A i \in 1..Len(list) : list'[i] = list[i] /\ list[i] # b
      /\ list'[Len(list) + 1] = b
  BY <1>2 DEF TypeInv, Found, Range
<1> QED
  BY <1>1, <1>2, <1>3 DEF IsInjective

LEMMA KeepsDiscover == IInv /\ Discover => IInv'
<1> SUFFICES ASSUME IInv, Discover PROVE IInv'
  OBVIOUS
<1> DEFINE b == Addresses[next]
<1>1. PICK got \in {o.got : o \in Outcomes(b, {"diagnosticResponse"})} :
        \/ b \in Relays /\ got # NoAnswer /\ IsNew(b, got) /\ list' = Append(list, got.from)
        \/ list' = list
  BY DEF Discover
<1>2. list' \in Seq(Boxes) /\ IsInjective(list')
  <2>1. CASE list' = list
    BY <2>1 DEF IInv, TypeInv
  <2>2. CASE b \in Relays /\ got # NoAnswer /\ IsNew(b, got) /\ list' = Append(list, got.from)
    <3>1. got \in Answers
      BY <1>1, <2>2, OutcomeTypes DEF Boxes
    <3> QED
      BY <2>2, <3>1, DiscoverInjective DEF IInv, IsNew, Answers
  <2> QED
    BY <1>1, <2>1, <2>2
<1> QED
  BY <1>2 DEF Discover, IInv, TypeInv, GateInv, Selected, SureInv, Wanted, boxVars, deviceVars

(* The workers leave gates, commands and the list alone, and whoever is sure of
   an input whose value they change is so no more. *)
LEMMA KeepsWorker == IInv /\ (\E b \in Boxes : Worker(b)) => IInv'
<1> SUFFICES ASSUME IInv, NEW b \in Boxes, Worker(b) PROVE IInv'
  OBVIOUS
<1>1. UNCHANGED <<gates, list, cmd, dpc, bits, ack, gateWas>>
  BY DEF Worker, Wake, GoOn, TransferRemote, boxVars, deviceVars
<1>2. DOMAIN vin' = Boxes /\ \A u \in Boxes : DOMAIN vin'[u] = Inputs
  <2>1. CASE vin' = vin
    BY <2>1 DEF IInv, TypeInv
  <2>2. CASE vin' = Put(b, batch[b])
    BY <2>2 DEF IInv, TypeInv, Put
  <2>3. CASE TransferRemote(b)
    BY <2>1, <2>2, <2>3 DEF TransferRemote
  <2>4. CASE Wake(b) \/ GoOn(b)
    BY <2>1, <2>4 DEF Wake, GoOn, boxVars
  <2> QED
    BY <2>3, <2>4 DEF Worker
<1>3. sure' => sure /\ vin'[cmd.box][cmd.input] = vin[cmd.box][cmd.input]
  BY DEF Worker, Wake, GoOn, TransferRemote, boxVars, deviceVars
<1> QED
  BY <1>1, <1>2, <1>3 DEF IInv, TypeInv, GateInv, Selected, SureInv, Wanted

(* The fields of a command. *)
LEMMA CommandTypes ==
    ASSUME NEW c \in Commands
    PROVE  c.kind \in {"set", "trigger", "getGate", "setGate", "status"} /\ c.box \in Boxes
           /\ c.input \in Inputs
BY MultinetAssumption

LEMMA KeepsCommand == IInv /\ (\E c \in Commands : Command(c)) => IInv'
<1> SUFFICES ASSUME IInv, NEW c \in Commands, Command(c) PROVE IInv'
  OBVIOUS
<1>1. UNCHANGED <<list, gates, vin, ack, sure>> /\ cmd' = c /\ ~sure
  BY DEF Command, boxVars, workerVars, IInv, SureInv
<1>2. dpc' \in {"status", "setGate", "readGate"} /\ gateWas' \in {0, 1}
      /\ (dpc' = "status" => c.kind = "status") /\ (c.kind = "trigger" => dpc' = "readGate")
      /\ (dpc' = "setGate" => c.kind = "setGate")
      /\ (dpc' = "readGate" => c.kind \in {"set", "trigger", "getGate"})
      /\ (gateWas' = 1 <=> c.input \in gates[c.box])
  BY CommandTypes DEF Command
<1>3. TypeInv'
  BY <1>1, <1>2 DEF IInv, TypeInv
<1> QED
  BY <1>1, <1>2, <1>3 DEF IInv, TypeInv, GateInv, Selected, SureInv

LEMMA KeepsReadGate == IInv /\ ReadGate => IInv'
<1> SUFFICES ASSUME IInv, ReadGate PROVE IInv'
  OBVIOUS
<1>1. /\ UNCHANGED <<list, gates, vin, cmd, ack, sure>> /\ dpc = "readGate" /\ ~sure
      /\ gateWas' = IF gateWas = 1 /\ cmd.input \notin bits' THEN Unknown ELSE gateWas
      /\ dpc' = IF cmd.kind = "getGate" THEN "respond" ELSE "setInput"
  BY DEF ReadGate, boxVars, workerVars, IInv, SureInv
<1>2. TypeInv'
  BY <1>1 DEF IInv, TypeInv
<1> QED
  BY <1>1, <1>2 DEF IInv, GateInv, Selected, SureInv

(* A caller that is sure of an acknowledgement and a box that did it. *)
LEMMA AcknowledgeInv ==
    ASSUME NEW b \in Boxes, NEW ops \in SUBSET {"cluResponse", "diagnosticResponse", "ack"},
           NEW o \in Outcomes(b, ops), Acknowledge(o)
    PROVE  ack' \in BOOLEAN /\ (sure' => o.done)
BY OutcomeTypes DEF Acknowledge

LEMMA KeepsSetInput == IInv /\ SetInput => IInv'
<1> SUFFICES ASSUME IInv, SetInput PROVE IInv'
  OBVIOUS
<1>1. /\ UNCHANGED <<list, gates, cmd, bits, gateWas>> /\ dpc \in {"setInput", "clearInput"}
      /\ dpc' = IF LeavesGate THEN (IF dpc = "setInput" THEN "sleep" ELSE "respond")
                ELSE IF dpc = "setInput" THEN "setGate" ELSE "resetGate"
  BY DEF SetInput, workerVars
<1>2. cmd \in Commands /\ cmd.box \in Boxes /\ cmd.input \in Inputs
  BY <1>1, CommandTypes DEF IInv, TypeInv
<1> PICK v : v = IF cmd.kind = "set" THEN cmd.value ELSE IF dpc = "setInput" THEN 1 ELSE 0
  OBVIOUS
<1>3. PICK o \in Outcomes(cmd.box, {"cluResponse", "ack"}) :
        /\ Acknowledge(o)
        /\ vin' = IF o.done THEN [vin EXCEPT ![cmd.box][cmd.input] = v] ELSE vin
  BY DEF SetInput
<1>4. ack' \in BOOLEAN /\ (sure' => o.done)
  BY <1>2, <1>3, AcknowledgeInv
<1>5. TypeInv'
  <2>1. DOMAIN vin' = Boxes /\ \A u \in Boxes : DOMAIN vin'[u] = Inputs
    BY <1>3 DEF IInv, TypeInv
  <2>2. (dpc' \in {"sleep", "resetGate", "respond"} => cmd.kind = "trigger")
        /\ dpc' \in {"sleep", "setGate", "resetGate", "respond"}
        /\ (dpc' = "setGate" => cmd.kind \in {"set", "trigger"})
    BY <1>1 DEF IInv, TypeInv, LeavesGate
  <2> QED
    BY <1>1, <1>4, <2>1, <2>2 DEF IInv, TypeInv
<1>7. SureInv'
  <2>1. cmd.kind # "setGate" /\ (dpc = "clearInput" => cmd.kind = "trigger")
    BY <1>1 DEF IInv, TypeInv
  <2>2. sure' => vin'[cmd.box][cmd.input] = v
    BY <1>2, <1>3, <1>4 DEF IInv, TypeInv
  <2> QED
    BY <1>1, <2>1, <2>2 DEF SureInv, Wanted, LeavesGate
<1>6. GateInv'
  BY <1>1 DEF IInv, TypeInv, GateInv, Selected, LeavesGate, Unknown
<1> QED
  BY <1>1, <1>5, <1>6, <1>7 DEF IInv

LEMMA KeepsSetGate == IInv /\ SetGate => IInv'
<1> SUFFICES ASSUME IInv, SetGate PROVE IInv'
  OBVIOUS
<1> DEFINE virtual == IF cmd.kind = "trigger" THEN dpc = "setGate" ELSE cmd.value = 1
           b == cmd.box
           i == cmd.input
<1>1. /\ UNCHANGED <<list, vin, cmd, bits>> /\ dpc \in {"setGate", "resetGate"}
      /\ dpc' = IF cmd.kind = "trigger" /\ dpc = "setGate" THEN "sleep" ELSE "respond"
  BY DEF SetGate, workerVars
<1>2. cmd \in Commands /\ b \in Boxes /\ i \in Inputs
  BY <1>1, CommandTypes DEF IInv, TypeInv
<1>3. PICK o \in Outcomes(b, {"ack"}) :
        /\ gates' = IF ~o.done THEN gates
                    ELSE [gates EXCEPT ![b] = IF virtual THEN @ \cup {i} ELSE @ \ {i}]
        /\ gateWas' = IF dpc = "resetGate" /\ ~o.done THEN Unknown ELSE gateWas
        /\ IF cmd.kind = "setGate" THEN Acknowledge(o) ELSE UNCHANGED <<ack, sure>>
  BY DEF SetGate
<1>4. ack' \in BOOLEAN /\ (cmd.kind = "setGate" => (sure' => o.done))
      /\ (cmd.kind # "setGate" => sure' = sure)
  BY <1>2, <1>3, AcknowledgeInv DEF IInv, TypeInv
<1>5. gates' \in [Boxes -> SUBSET Inputs]
  BY <1>2, <1>3 DEF IInv, TypeInv
<1>6. TypeInv'
  BY <1>1, <1>3, <1>4, <1>5 DEF IInv, TypeInv, Unknown
<1>7. GateInv'
  <2> SUFFICES ASSUME cmd.kind = "trigger", gateWas' # Unknown PROVE GateInv'
    BY <1>1 DEF GateInv
  <2>1. gateWas = 0 /\ gateWas' = 0 /\ cmd.input \notin bits
    BY <1>1, <1>3 DEF IInv, GateInv
  <2>2. CASE dpc = "setGate"
    BY <1>1, <2>1, <2>2 DEF GateInv, IInv
  <2>3. CASE dpc = "resetGate"
    <3>1. o.done /\ gates' = [gates EXCEPT ![b] = @ \ {i}]
      BY <1>3, <2>3
    <3>2. ~Selected'
      BY <1>1, <1>2, <3>1 DEF Selected, IInv, TypeInv
    <3> QED
      BY <1>1, <2>1, <2>3, <3>2 DEF GateInv
  <2> QED
    BY <1>1, <2>2, <2>3
<1>8. SureInv'
  <2>1. CASE cmd.kind = "setGate"
    <3>1. sure' => (Selected' <=> cmd.value = 1)
      BY <1>1, <1>2, <1>3, <1>4, <2>1 DEF Selected, IInv, TypeInv
    <3> QED
      BY <1>1, <2>1, <3>1 DEF SureInv
  <2>2. CASE cmd.kind # "setGate"
    <3> SUFFICES ASSUME sure' PROVE SureInv'
      BY DEF SureInv
    <3>1. sure /\ vin[cmd.box][cmd.input] = Wanted /\ (cmd.kind = "set" => dpc = "setGate")
          /\ cmd.kind \in {"set", "trigger"}
      BY <1>1, <1>4, <2>2 DEF IInv, TypeInv, SureInv
    <3>2. Wanted' = Wanted
      BY <1>1, <3>1 DEF Wanted
    <3> QED
      BY <1>1, <2>2, <3>1, <3>2 DEF SureInv
  <2> QED
    BY <2>1, <2>2
<1> QED
  BY <1>1, <1>6, <1>7, <1>8 DEF IInv

(* Between the two ends of a trigger, and at the end of a command. *)
LEMMA KeepsOthers == IInv /\ (Sleep \/ DetailedStatus \/ Respond) => IInv'
<1> SUFFICES ASSUME IInv, Sleep \/ DetailedStatus \/ Respond PROVE IInv'
  OBVIOUS
<1>1. CASE Sleep
  BY <1>1 DEF Sleep, IInv, TypeInv, GateInv, Selected, SureInv, Wanted, boxVars, workerVars
<1>2. ASSUME Done, UNCHANGED <<boxVars, workerVars>> PROVE IInv'
  BY <1>2 DEF Done, IInv, TypeInv, GateInv, SureInv, boxVars, workerVars
<1>3. CASE dpc = "status" /\ dpc' = "respond"
           /\ UNCHANGED <<boxVars, workerVars, cmd, ack, gateWas, sure>>
  BY <1>3 DEF IInv, TypeInv, GateInv, SureInv, boxVars, workerVars
<1> QED
  BY <1>1, <1>2, <1>3 DEF DetailedStatus, Respond

LEMMA InvNext == IInv /\ [Next]_vars => IInv'
<1> SUFFICES ASSUME IInv, [Next]_vars PROVE IInv'
  OBVIOUS
<1>1. CASE UNCHANGED vars
  BY <1>1 DEF vars, boxVars, workerVars, deviceVars, IInv, TypeInv, GateInv, Selected,
              SureInv, Wanted
<1> QED
  BY <1>1, KeepsDiscover, KeepsWorker, KeepsCommand, KeepsReadGate, KeepsSetInput, KeepsSetGate,
     KeepsOthers DEF Next, Device
-----------------------------------------------------------------------------
(* A box never gets a second worker, for any number of boxes and any answers. *)
THEOREM OneWorker == Spec => []OneWorkerPerBox
<1>1. IInv => OneWorkerPerBox
  BY DEF IInv, OneWorkerPerBox
<1> QED
  BY <1>1, InitInv, InvNext, PTL DEF Spec

(* A trigger puts the gate back, whatever answers are lost or come late, unless
   the gate was misread as physical or the request to put it back was lost. *)
THEOREM GatesPutBack == Spec => []GateRestored
<1>1. IInv => GateRestored
  BY DEF IInv, GateInv, Selected, GateRestored
<1> QED
  BY <1>1, InitInv, InvNext, PTL DEF Spec

(* A command answered with a good status has put its input or gate as it was
   asked to, unless a request of a worker has changed the input since or the
   answer to an earlier transfer was taken for its own. *)
THEOREM GoodStatusTrue == Spec => []AnswerMeansDone
<1>1. IInv => AnswerMeansDone
  BY DEF IInv, SureInv, Wanted, Selected, AnswerMeansDone
<1> QED
  BY <1>1, InitInv, InvNext, PTL DEF Spec
-----------------------------------------------------------------------------
(* The least and the greatest of a set of numbers. *)
LEMMA Least ==
    ASSUME NEW S \in SUBSET Nat, S # {}
    PROVE  \E k \in S : \A j \in S : k <= j
<1>1. PICK k \in S : \A j \in S : ~ (<<j, k>> \in OpToRel(<, Nat))
  BY NatLessThanWellFounded, WFMin
<1>2. k \in Nat /\ \A j \in S : j \in Nat /\ ~ (j < k)
  BY <1>1 DEF OpToRel
<1>3. \A j \in S : k <= j
  BY <1>2
<1> QED
  BY <1>1, <1>3

LEMMA Greatest ==
    ASSUME NEW n \in Nat, NEW S \in SUBSET (1..n), S # {}
    PROVE  Max(S) \in S /\ \A j \in S : j <= Max(S)
<1> DEFINE below == {n - j : j \in S}
<1>1. below \in SUBSET Nat /\ below # {}
  <2>1. \A j \in S : n - j \in Nat
    OBVIOUS
  <2> QED
    BY <2>1
<1>2. PICK k \in below : \A j \in below : k <= j
  <2> HIDE DEF below
  <2> QED
    BY <1>1, Least
<1>3. PICK m \in S : k = n - m
  OBVIOUS
<1>4. \A j \in S : n - m <= n - j
  BY <1>2, <1>3
<1>5. \A j \in S : m >= j
  BY <1>4
<1> QED
  BY <1>3, <1>5 DEF Max

(* What a sequence of puts leaves in an input: the value of the last one for it. *)
None(puts, i)   == \A k \in 1..Len(puts) : puts[k].input # i
IsLast(puts, i, k) == /\ k \in 1..Len(puts) /\ puts[k].input = i
                      /\ \A j \in 1..Len(puts) : puts[j].input = i => j <= k

LEMMA NoneOrLast ==
    ASSUME NEW puts \in Seq(Puts), NEW i
    PROVE  None(puts, i) \/ \E k \in 1..Len(puts) : IsLast(puts, i, k)
<1> DEFINE those == {k \in 1..Len(puts) : puts[k].input = i}
<1>1. CASE those = {}
  BY <1>1 DEF None
<1>2. CASE those # {}
  <2>1. those \in SUBSET (1..Len(puts)) /\ Len(puts) \in Nat
    OBVIOUS
  <2>2. Max(those) \in those /\ \A j \in those : j <= Max(those)
    <3> HIDE DEF those
    <3> QED
      BY <1>2, <2>1, Greatest
  <2> QED
    BY <2>2 DEF IsLast
<1> QED
  BY <1>1, <1>2

LEMMA AfterNone ==
    ASSUME NEW puts \in Seq(Puts), NEW i, NEW old, None(puts, i)
    PROVE  After(puts, i, old) = old
BY DEF None, After

LEMMA AfterLast ==
    ASSUME NEW puts \in Seq(Puts), NEW i, NEW old, NEW k, IsLast(puts, i, k)
    PROVE  After(puts, i, old) = puts[k].value
<1> DEFINE those == {j \in DOMAIN puts : puts[j].input = i}
<1>1. those \in SUBSET (1..Len(puts)) /\ Len(puts) \in Nat /\ k \in those
  BY DEF IsLast
<1>2. Max(those) \in those /\ \A j \in those : j <= Max(those)
  <2> HIDE DEF those
  <2> QED
    BY <1>1, Greatest
<1>3. Max(those) = k
  <2>1. \A j \in those : j <= k /\ j \in Nat
    BY DEF IsLast
  <2> PICK m : m = Max(those)
    OBVIOUS
  <2>2. m \in those /\ k <= m
    BY <1>1, <1>2
  <2>3. m <= k /\ m \in Nat /\ k \in Nat
    BY <1>1, <2>1, <2>2
  <2> QED
    BY <2>2, <2>3
<1> QED
  BY <1>1, <1>3 DEF After

LEMMA RangeConcat ==
    ASSUME NEW a \in Seq(Puts), NEW z \in Seq(Puts)
    PROVE  /\ \A k \in 1..Len(a) : a[k] \in Range(a \o z)
           /\ \A k \in 1..Len(z) : z[k] \in Range(a \o z)
<1> PICK w : w = a \o z
  OBVIOUS
<1>1. /\ w \in Seq(Puts) /\ Len(a) \in Nat /\ Len(z) \in Nat /\ Len(w) = Len(a) + Len(z)
      /\ \A k \in 1..Len(a) : w[k] = a[k]
      /\ \A k \in 1..Len(z) : w[Len(a) + k] = z[k]
  OBVIOUS
<1>2. DOMAIN w = 1..(Len(a) + Len(z))
  BY <1>1
<1>3. \A k \in 1..Len(a) : k \in DOMAIN w
  BY <1>1, <1>2
<1>4. \A k \in 1..Len(z) : Len(a) + k \in DOMAIN w
  BY <1>1, <1>2
<1>5. (\A k \in 1..Len(a) : a[k] \in Range(w)) /\ (\A k \in 1..Len(z) : z[k] \in Range(w))
  BY <1>1, <1>3, <1>4 DEF Range
<1> QED
  BY <1>5

(* One request more, and a frame taken from the front. *)
LEMMA AfterAppend ==
    ASSUME NEW puts \in Seq(Puts), NEW p \in Puts, NEW i, NEW old
    PROVE  After(Append(puts, p), i, old) = IF p.input = i THEN p.value ELSE After(puts, i, old)
<1> DEFINE more == Append(puts, p)
           L == Len(puts)
<1>1. /\ more \in Seq(Puts) /\ L \in Nat /\ Len(more) = L + 1 /\ more[L + 1] = p
      /\ \A k \in 1..L : more[k] = puts[k]
  OBVIOUS
<1> HIDE DEF more
<1>2. CASE p.input = i
  <2>1. IsLast(more, i, L + 1)
    BY <1>1, <1>2 DEF IsLast
  <2>2. After(more, i, old) = more[L + 1].value
    BY <1>1, <2>1, AfterLast, Zenon
  <2> QED
    BY <1>1, <1>2, <2>2 DEF more
<1>3. CASE p.input # i /\ None(puts, i)
  <2>1. None(more, i)
    BY <1>1, <1>3 DEF None
  <2> QED
    BY <1>1, <1>3, <2>1, AfterNone DEF more
<1>4. ASSUME p.input # i, NEW k \in 1..L, IsLast(puts, i, k)
      PROVE  After(more, i, old) = After(puts, i, old)
  <2>1. IsLast(more, i, k) /\ more[k] = puts[k]
    BY <1>1, <1>4 DEF IsLast
  <2> QED
    BY <1>1, <1>4, <2>1, AfterLast
<1> QED
  BY <1>2, <1>3, <1>4, NoneOrLast DEF more

LEMMA AfterSplit ==
    ASSUME NEW puts \in Seq(Puts), NEW n \in 0..Len(puts), NEW i, NEW old
    PROVE  /\ SubSeq(puts, 1, n) \in Seq(Puts) /\ SubSeq(puts, n + 1, Len(puts)) \in Seq(Puts)
           /\ After(SubSeq(puts, n + 1, Len(puts)), i, After(SubSeq(puts, 1, n), i, old))
                = After(puts, i, old)
<1> DEFINE L == Len(puts)
<1>0. PICK a, z : a = SubSeq(puts, 1, n) /\ z = SubSeq(puts, n + 1, L)
  OBVIOUS
<1>1. /\ L \in Nat /\ a \in Seq(Puts) /\ z \in Seq(Puts) /\ Len(a) = n /\ Len(z) = L - n
      /\ \A k \in 1..n : a[k] = puts[k]
      /\ \A k \in 1..(L - n) : z[k] = puts[n + k]
  BY <1>0
<1>4. a \in Seq(Puts) /\ z \in Seq(Puts)
  BY <1>1
<1>2. ASSUME None(z, i) PROVE After(z, i, After(a, i, old)) = After(puts, i, old)
  <2>1. After(z, i, After(a, i, old)) = After(a, i, old)
    BY <1>1, <1>2, AfterNone
  <2>2. \A j \in (n + 1)..L : puts[j].input # i
    <3> SUFFICES ASSUME NEW j \in (n + 1)..L PROVE puts[j].input # i
      OBVIOUS
    <3>1. j - n \in 1..(L - n) /\ n + (j - n) = j
      BY <1>1
    <3> QED
      BY <1>1, <1>2, <3>1 DEF None
  <2>3. CASE None(a, i)
    <3>1. None(puts, i)
      BY <1>1, <2>2, <2>3 DEF None
    <3>2. After(a, i, old) = old /\ After(puts, i, old) = old
      BY <1>4, <2>3, <3>1, AfterNone
    <3> QED
      BY <2>1, <3>2
  <2>4. ASSUME NEW k \in 1..n, IsLast(a, i, k) PROVE After(a, i, old) = After(puts, i, old)
    <3>1. IsLast(puts, i, k) /\ a[k] = puts[k]
      BY <1>1, <2>2, <2>4 DEF IsLast
    <3>2. After(a, i, old) = a[k].value
      BY <1>4, <2>4, AfterLast
    <3>3. After(puts, i, old) = puts[k].value
      BY <3>1, AfterLast, Zenon
    <3> QED
      BY <3>1, <3>2, <3>3
  <2> QED
    BY <1>1, <1>4, <2>1, <2>3, <2>4, NoneOrLast
<1>3. ASSUME NEW k \in 1..(L - n), IsLast(z, i, k)
      PROVE  After(z, i, After(a, i, old)) = After(puts, i, old)
  <2>1. \A j \in 1..L : puts[j].input = i => j <= n + k
    <3> SUFFICES ASSUME NEW j \in 1..L, puts[j].input = i, j > n PROVE j <= n + k
      BY <1>1
    <3>1. j - n \in 1..(L - n) /\ n + (j - n) = j
      BY <1>1
    <3>2. j - n <= k
      BY <1>1, <1>3, <3>1 DEF IsLast
    <3> QED
      BY <1>1, <3>2
  <2>2. IsLast(puts, i, n + k) /\ z[k] = puts[n + k]
    BY <1>1, <1>3, <2>1 DEF IsLast
  <2>3. After(z, i, After(a, i, old)) = z[k].value
    BY <1>4, <1>3, AfterLast
  <2>4. After(puts, i, old) = puts[n + k].value
    BY <2>2, AfterLast, Zenon
  <2> QED
    BY <2>2, <2>3, <2>4
<1> QED
  BY <1>0, <1>1, <1>2, <1>3, NoneOrLast

LEMMA AfterLastOnly ==
    ASSUME NEW puts \in Seq(Puts), NEW i, NEW x, NEW y, ~None(puts, i)
    PROVE  After(puts, i, x) = After(puts, i, y)
BY NoneOrLast, AfterLast
-----------------------------------------------------------------------------
(* The requests of an answer, one after the other.  The recursive function of
   QueuesAll exists on 0..n for every n, since there is no least n for which it
   does not, and what every request keeps is kept by all of them. *)
Step(s, routes, f, n) ==
    f = [k \in 0..n |-> IF k = 0 THEN s ELSE Queues(f[k - 1], routes[k])]

LEMMA StepExists ==
    ASSUME NEW s, NEW routes, NEW n \in Nat
    PROVE  \E f : Step(s, routes, f, n)
<1> DEFINE S == {m \in Nat : ~ \E f : Step(s, routes, f, m)}
<1>1. ASSUME S # {} PROVE FALSE
  <2>1. PICK m \in S : \A j \in S : m <= j
    <3>1. S \in SUBSET Nat
      OBVIOUS
    <3> HIDE DEF S
    <3> QED
      BY <1>1, <3>1, Least
  <2>2. m \in Nat /\ ~ \E f : Step(s, routes, f, m)
    OBVIOUS
  <2>3. CASE m = 0
    <3> DEFINE f == [k \in 0..0 |-> s]
    <3>1. f = [k \in 0..0 |-> IF k = 0 THEN s ELSE Queues(f[k - 1], routes[k])]
      OBVIOUS
    <3>2. Step(s, routes, f, m)
      BY <2>3, <3>1 DEF Step
    <3> QED
      BY <2>2, <3>2
  <2>4. CASE m # 0
    <3>1. m - 1 \in Nat /\ m - 1 \notin S
      BY <2>1, <2>2, <2>4
    <3>2. PICK g : Step(s, routes, g, m - 1)
      BY <3>1
    <3> DEFINE f == [k \in 0..m |-> IF k = m THEN Queues(g[m - 1], routes[m]) ELSE g[k]]
    <3>3. \A k \in 0..(m - 1) : g[k] = IF k = 0 THEN s ELSE Queues(g[k - 1], routes[k])
      BY <3>2 DEF Step
    <3>4. \A k \in 0..m : f[k] = IF k = 0 THEN s ELSE Queues(f[k - 1], routes[k])
      <4> SUFFICES ASSUME NEW k \in 0..m
                   PROVE  f[k] = IF k = 0 THEN s ELSE Queues(f[k - 1], routes[k])
        OBVIOUS
      <4>1. CASE k = m
        <5>1. m - 1 \in 0..m /\ m - 1 # m /\ f[m - 1] = g[m - 1]
          BY <2>2, <2>4
        <5> QED
          BY <2>2, <2>4, <4>1, <5>1
      <4>2. CASE k # m
        <5>1. k \in 0..(m - 1) /\ f[k] = g[k]
          BY <2>2, <4>2
        <5>2. k # 0 => f[k - 1] = g[k - 1]
          BY <2>2, <4>2
        <5> QED
          BY <3>3, <5>1, <5>2
      <4> QED
        BY <4>1, <4>2
    <3>5. f = [k \in 0..m |-> IF k = 0 THEN s ELSE Queues(f[k - 1], routes[k])]
      BY <3>4
    <3>6. Step(s, routes, f, m)
      BY <3>5 DEF Step
    <3> QED
      BY <2>2, <3>6
  <2> QED
    BY <2>3, <2>4
<1> QED
  BY <1>1

LEMMA QueuesAllSteps ==
    ASSUME NEW s, NEW routes, Len(routes) \in Nat
    PROVE  \E f : Step(s, routes, f, Len(routes)) /\ QueuesAll(s, routes) = f[Len(routes)]
<1> DEFINE f == CHOOSE f : f = [k \in 0..Len(routes) |->
                                 IF k = 0 THEN s ELSE Queues(f[k - 1], routes[k])]
<1>1. Step(s, routes, f, Len(routes))
  BY StepExists DEF Step
<1>2. QueuesAll(s, routes) = f[Len(routes)]
  BY DEF QueuesAll
<1> HIDE DEF f
<1> QED
  BY <1>1, <1>2
-----------------------------------------------------------------------------
(* What the frames on their way will leave in the inputs. *)
Sent == [b \in Boxes |-> [i \in Inputs |-> After(batch[b], i, vin[b][i])]]

(* The requests of q, put after them, leave what was asked for last. *)
Follows(q, a, sent) ==
    \A b \in Boxes, i \in Inputs : a[b][i] \in {After(q[b], i, sent[b][i]), Unknown}

QueueTypes(q, a) ==
    /\ q \in [Boxes -> Seq(Puts)]
    /\ DOMAIN a = Boxes /\ \A b \in Boxes : DOMAIN a[b] = Inputs
QueueInv ==
    /\ QueueTypes(queue, asked) /\ batch \in [Boxes -> Seq(Puts)] /\ DOMAIN wpc = Boxes
    /\ \A b \in Boxes : wpc[b] # "transfer" => batch[b] = <<>>
FollowInv == QueueInv /\ Follows(queue, asked, Sent)

Routes == Seq([box : Boxes, put : Puts])

LEMMA RouteKept ==
    ASSUME NEW s, NEW sent, NEW r \in [box : Boxes, put : Puts],
           QueueTypes(s.queue, s.asked), Follows(s.queue, s.asked, sent),
           NEW t, t = Queues(s, r)
    PROVE  QueueTypes(t.queue, t.asked) /\ Follows(t.queue, t.asked, sent)
<1> DEFINE taken == Found(r.box) /\ HasMemory(s.queue)
<1>1. r.box \in Boxes /\ r.put \in Puts /\ r.put.input \in Inputs
  BY DEF Puts
<1>2. /\ t.queue = IF taken THEN [s.queue EXCEPT ![r.box] = Append(@, r.put)] ELSE s.queue
      /\ t.asked = [s.asked EXCEPT ![r.box][r.put.input] = IF taken THEN r.put.value ELSE Unknown]
  BY DEF Queues, Asks, Found
<1> HIDE DEF taken
<1>3. QueueTypes(t.queue, t.asked)
  BY <1>1, <1>2 DEF QueueTypes
<1>4. ASSUME NEW b \in Boxes, NEW i \in Inputs
      PROVE  t.asked[b][i] \in {After(t.queue[b], i, sent[b][i]), Unknown}
  <2>1. CASE b # r.box
    <3>1. t.asked[b] = s.asked[b] /\ t.queue[b] = s.queue[b]
      BY <1>2, <2>1 DEF QueueTypes
    <3> QED
      BY <3>1 DEF Follows
  <2>2. CASE b = r.box
    <3>1. t.asked[b][i] = IF r.put.input # i THEN s.asked[b][i]
                          ELSE IF taken THEN r.put.value ELSE Unknown
      BY <1>1, <1>2, <2>2 DEF QueueTypes
    <3>2. CASE taken
      <4>1. t.queue[b] = Append(s.queue[b], r.put) /\ s.queue[b] \in Seq(Puts)
        BY <1>2, <2>2, <3>2 DEF QueueTypes
      <4>2. After(t.queue[b], i, sent[b][i]) =
              IF r.put.input = i THEN r.put.value ELSE After(s.queue[b], i, sent[b][i])
        BY <1>1, <4>1, AfterAppend
      <4> QED
        BY <3>1, <3>2, <4>2 DEF Follows
    <3>3. CASE ~taken
      BY <1>2, <3>1, <3>3 DEF Follows
    <3> QED
      BY <3>2, <3>3
  <2> QED
    BY <2>1, <2>2
<1> QED
  BY <1>3, <1>4 DEF Follows

LEMMA RoutesKept ==
    ASSUME NEW s, NEW sent, NEW routes \in Routes,
           QueueTypes(s.queue, s.asked), Follows(s.queue, s.asked, sent),
           NEW t, t = QueuesAll(s, routes)
    PROVE  QueueTypes(t.queue, t.asked) /\ Follows(t.queue, t.asked, sent)
<1> DEFINE Good(x) == QueueTypes(x.queue, x.asked) /\ Follows(x.queue, x.asked, sent)
           L == Len(routes)
<1>1. L \in Nat /\ \A k \in 1..L : routes[k] \in [box : Boxes, put : Puts]
  <2>1. PICK R : R = [box : Boxes, put : Puts]
    OBVIOUS
  <2>2. routes \in Seq(R)
    BY <2>1 DEF Routes
  <2>3. L \in Nat /\ \A k \in 1..L : routes[k] \in R
    BY <2>2
  <2> QED
    BY <2>1, <2>3
<1>2. PICK f : Step(s, routes, f, L) /\ t = f[L]
  BY <1>1, QueuesAllSteps
<1>3. \A k \in 0..L : f[k] = IF k = 0 THEN s ELSE Queues(f[k - 1], routes[k])
  BY <1>2 DEF Step
<1>4. Good(s)
  OBVIOUS
<1>5. ASSUME NEW x, Good(x), NEW r \in [box : Boxes, put : Puts] PROVE Good(Queues(x, r))
  BY <1>5, RouteKept
<1> HIDE DEF Good
<1> DEFINE S == {k \in 0..L : ~Good(f[k])}
<1>6. ASSUME S # {} PROVE FALSE
  <2>1. PICK m \in S : \A j \in S : m <= j
    <3>1. S \in SUBSET Nat
      OBVIOUS
    <3> HIDE DEF S
    <3> QED
      BY <1>6, <3>1, Least
  <2>2. m \in 0..L /\ ~Good(f[m])
    OBVIOUS
  <2>3. m # 0
    BY <1>3, <1>4, <2>2
  <2>4. m - 1 \in 0..L /\ m \in 1..L /\ Good(f[m - 1])
    BY <1>1, <2>1, <2>2, <2>3
  <2>5. Good(Queues(f[m - 1], routes[m]))
    BY <1>1, <1>5, <2>4
  <2> QED
    BY <1>3, <2>2, <2>3, <2>5
<1>7. Good(t)
  BY <1>1, <1>2, <1>6
<1> QED
  BY <1>7 DEF Good
-----------------------------------------------------------------------------
LEMMA FollowInit == Init => FollowInv
<1> SUFFICES ASSUME Init PROVE FollowInv
  OBVIOUS
<1>1. QueueInv
  BY DEF Init, QueueInv, QueueTypes
<1>2. ASSUME NEW b \in Boxes, NEW i \in Inputs
      PROVE  asked[b][i] = After(queue[b], i, Sent[b][i])
  <2>1. /\ asked[b][i] = vin[b][i] /\ queue[b] = <<>> /\ batch[b] = <<>> /\ <<>> \in Seq(Puts)
        /\ None(<<>>, i)
    BY <1>2 DEF Init, None
  <2>2. Sent[b][i] = After(batch[b], i, vin[b][i])
    BY <1>2 DEF Sent
  <2> QED
    BY <2>1, <2>2, AfterNone
<1> QED
  BY <1>1, <1>2 DEF FollowInv, Follows

(* A frame is filled from the front of the queue: what it leaves, and then the
   rest, is what the queue would have left. *)
LEMMA FollowFill ==
    ASSUME FollowInv, NEW b \in Boxes, batch[b] = <<>>, Fill(b), UNCHANGED <<vin, asked>>
    PROVE  FollowInv'
<1> DEFINE n == IF Len(queue[b]) < Full THEN Len(queue[b]) ELSE Full
           L == Len(queue[b])
<1>1. queue[b] \in Seq(Puts) /\ L \in Nat /\ n \in 0..L
  BY MultinetAssumption DEF FollowInv, QueueInv, QueueTypes
<1>2. /\ batch' = [batch EXCEPT ![b] = SubSeq(queue[b], 1, n)]
      /\ queue' = [queue EXCEPT ![b] = SubSeq(queue[b], n + 1, L)]
      /\ wpc' = [wpc EXCEPT ![b] = "transfer"]
  BY DEF Fill
<1> HIDE DEF n, L
<1>3. SubSeq(queue[b], 1, n) \in Seq(Puts) /\ SubSeq(queue[b], n + 1, L) \in Seq(Puts)
  BY <1>1, AfterSplit DEF L
<1>4. QueueInv'
  BY <1>2, <1>3 DEF FollowInv, QueueInv, QueueTypes
<1>5. ASSUME NEW c \in Boxes, NEW i \in Inputs
      PROVE  After(queue'[c], i, Sent'[c][i]) = After(queue[c], i, Sent[c][i])
  <2>1. Sent'[c][i] = After(batch'[c], i, vin[c][i]) /\ Sent[c][i] = After(batch[c], i, vin[c][i])
    BY DEF Sent
  <2>2. CASE c # b
    BY <1>2, <2>1, <2>2 DEF FollowInv, QueueInv, QueueTypes
  <2>3. CASE c = b
    <3>1. batch'[c] = SubSeq(queue[b], 1, n) /\ queue'[c] = SubSeq(queue[b], n + 1, L)
      BY <1>2, <2>3 DEF FollowInv, QueueInv, QueueTypes
    <3>2. After(queue'[c], i, Sent'[c][i]) = After(queue[b], i, vin[c][i])
      BY <1>1, <2>1, <3>1, AfterSplit DEF L
    <3>3. Sent[c][i] = vin[c][i]
      <4>1. <<>> \in Seq(Puts) /\ None(<<>>, i)
        BY DEF None
      <4> QED
        BY <2>1, <2>3, <4>1, AfterNone
    <3> QED
      BY <2>3, <3>2, <3>3
  <2> QED
    BY <2>2, <2>3
<1> QED
  BY <1>4, <1>5 DEF FollowInv, Follows

(* A transfer: a frame that the box has performed has left what it carried; an
   input whose request was lost with the frame, and is not queued again, is
   unknown. *)
LEMMA FollowTransfer ==
    ASSUME FollowInv, IInv, NEW b \in Boxes, TransferRemote(b) PROVE FollowInv'
<1>1. PICK e, unclear, s :
          /\ e \in Exchanges[b] /\ unclear \in [Inputs -> BOOLEAN]
          /\ \A i \in Inputs : unclear[i] <=>
               (~e.done /\ ~Queued(b, i) /\ \E p \in Range(batch[b]) : p.input = i)
          /\ s.queue = queue
          /\ s.asked = [asked EXCEPT ![b] = [i \in Inputs |-> IF unclear[i] THEN Unknown ELSE @[i]]]
          /\ vin' = IF e.done THEN Put(b, batch[b]) ELSE vin
          /\ queue' = QueuesAll(s, e.routes).queue /\ asked' = QueuesAll(s, e.routes).asked
  <2>1. PICK e \in Exchanges[b] :
          LET unclear(i) == ~e.done /\ ~Queued(b, i) /\ \E p \in Range(batch[b]) : p.input = i
              s == QueuesAll([queue |-> queue,
                            asked |-> [asked EXCEPT ![b] =
                                [i \in Inputs |-> IF unclear(i) THEN Unknown ELSE @[i]]]],
                           e.routes)
          IN  /\ vin' = IF e.done THEN Put(b, batch[b]) ELSE vin
              /\ queue' = s.queue /\ asked' = s.asked
    BY DEF TransferRemote
  <2> DEFINE unclear == [i \in Inputs |->
               ~e.done /\ ~Queued(b, i) /\ \E p \in Range(batch[b]) : p.input = i]
             s == [queue |-> queue,
                   asked |-> [asked EXCEPT ![b] =
                                [i \in Inputs |-> IF unclear[i] THEN Unknown ELSE @[i]]]]
  <2>2. unclear \in [Inputs -> BOOLEAN]
    OBVIOUS
  <2>3. [i \in Inputs |-> IF unclear[i] THEN Unknown ELSE asked[b][i]] =
        [i \in Inputs |->
           IF ~e.done /\ ~Queued(b, i) /\ \E p \in Range(batch[b]) : p.input = i
           THEN Unknown ELSE asked[b][i]]
    OBVIOUS
  <2> QED
    BY <2>1, <2>2, <2>3
<1>2. e.routes \in Routes
  <2>1. <<>> \in Routes
    BY DEF Routes
  <2>2. \A got : Routed(got) \subseteq Routes
    BY <2>1, MultinetAssumption DEF Routed, Routes
  <2> QED
    BY <1>1, <2>2 DEF Exchanges
<1>3. /\ wpc[b] = "transfer" /\ DOMAIN wpc' = Boxes /\ batch' = [batch EXCEPT ![b] = <<>>]
      /\ \A c \in Boxes : c # b => wpc'[c] = wpc[c]
  BY DEF TransferRemote, FollowInv, QueueInv
<1>4. PICK sent : sent = Sent'
  OBVIOUS
<1>5. ASSUME NEW c \in Boxes, NEW i \in Inputs, c # b PROVE sent[c][i] = Sent[c][i]
  <2>1. vin'[c] = vin[c] /\ batch'[c] = batch[c]
    BY <1>1, <1>3, <1>5 DEF Put, IInv, TypeInv, FollowInv, QueueInv
  <2> QED
    BY <1>4, <2>1 DEF Sent
<1>6. ASSUME NEW i \in Inputs
      PROVE  sent[b][i] = IF e.done THEN Sent[b][i] ELSE vin[b][i]
  <2>1. batch'[b] = <<>> /\ <<>> \in Seq(Puts) /\ None(<<>>, i)
    BY <1>3 DEF None, FollowInv, QueueInv
  <2>2. sent[b][i] = vin'[b][i]
    BY <1>4, <2>1, AfterNone DEF Sent
  <2>3. e.done => vin'[b][i] = After(batch[b], i, vin[b][i])
    BY <1>1 DEF Put, IInv, TypeInv
  <2> QED
    BY <1>1, <2>2, <2>3 DEF Sent
<1>7. QueueTypes(s.queue, s.asked)
  BY <1>1 DEF FollowInv, QueueInv, QueueTypes
<1>8. Follows(s.queue, s.asked, sent)
  <2> SUFFICES ASSUME NEW c \in Boxes, NEW i \in Inputs
               PROVE  s.asked[c][i] \in {After(queue[c], i, sent[c][i]), Unknown}
    BY <1>1 DEF Follows
  <2>0. asked[c][i] \in {After(queue[c], i, Sent[c][i]), Unknown}
    BY DEF FollowInv, Follows
  <2>1. CASE c # b
    <3>1. s.asked[c] = asked[c]
      BY <1>1, <2>1 DEF FollowInv, QueueInv, QueueTypes
    <3> QED
      BY <1>5, <2>0, <2>1, <3>1
  <2>2. CASE c = b
    <3>1. s.asked[b][i] = IF unclear[i] THEN Unknown ELSE asked[b][i]
      BY <1>1 DEF FollowInv, QueueInv, QueueTypes
    <3>2. CASE e.done \/ unclear[i]
      BY <1>1, <1>6, <2>0, <2>2, <3>1, <3>2
    <3>3. CASE ~e.done /\ Queued(b, i)
      <4>1. queue[b] \in Seq(Puts) /\ ~None(queue[b], i)
        BY <3>3 DEF Queued, Range, None, FollowInv, QueueInv, QueueTypes
      <4>2. After(queue[b], i, sent[b][i]) = After(queue[b], i, Sent[b][i])
        BY <4>1, AfterLastOnly
      <4>3. ~unclear[i]
        BY <1>1, <3>3
      <4> QED
        BY <2>0, <2>2, <3>1, <4>2, <4>3
    <3>4. CASE ~e.done /\ ~ \E p \in Range(batch[b]) : p.input = i
      <4>1. batch[b] \in Seq(Puts) /\ None(batch[b], i)
        BY <3>4 DEF Range, None, FollowInv, QueueInv
      <4>2. Sent[b][i] = vin[b][i]
        BY <4>1, AfterNone DEF Sent
      <4>3. ~unclear[i]
        BY <1>1, <3>4
      <4> QED
        BY <1>6, <2>0, <2>2, <3>1, <3>4, <4>2, <4>3
    <3> QED
      BY <1>1, <3>2, <3>3, <3>4
  <2> QED
    BY <2>1, <2>2
<1>9. QueueTypes(queue', asked') /\ Follows(queue', asked', sent)
  BY <1>1, <1>2, <1>7, <1>8, RoutesKept
<1>10. QueueInv'
  <2>1. batch' \in [Boxes -> Seq(Puts)]
    BY <1>3 DEF FollowInv, QueueInv
  <2>2. \A c \in Boxes : wpc'[c] # "transfer" => batch'[c] = <<>>
    BY <1>3 DEF FollowInv, QueueInv
  <2> QED
    BY <1>3, <1>9, <2>1, <2>2 DEF QueueInv, QueueTypes
<1> QED
  BY <1>4, <1>9, <1>10 DEF FollowInv, Follows

(* A command is sent past the queue: what it sets is known only when no request
   for the input waits. *)
LEMMA FollowSetInput == IInv /\ FollowInv /\ SetInput => FollowInv'
<1> SUFFICES ASSUME IInv, FollowInv, SetInput PROVE FollowInv'
  OBVIOUS
<1>0. PICK b, i, v : /\ b = cmd.box /\ i = cmd.input
                     /\ v = IF cmd.kind = "set" THEN cmd.value ELSE IF dpc = "setInput" THEN 1 ELSE 0
  OBVIOUS
<1>1. b \in Boxes /\ i \in Inputs
  <2>1. cmd \in Commands
    BY DEF SetInput, IInv, TypeInv
  <2> QED
    BY <1>0, <2>1, CommandTypes
<1>2. /\ UNCHANGED <<queue, batch, wpc>>
      /\ \/ /\ vin' = [vin EXCEPT ![b][i] = v]
            /\ asked' = [asked EXCEPT ![b][i] = IF Waits(b, i) THEN Unknown ELSE v]
         \/ vin' = vin /\ asked' = [asked EXCEPT ![b][i] = Unknown]
  BY <1>0 DEF SetInput, workerVars
<1>3. QueueInv'
  BY <1>2 DEF FollowInv, QueueInv, QueueTypes
<1>4. CASE vin' = vin /\ asked' = [asked EXCEPT ![b][i] = Unknown]
  <2>1. \A c \in Boxes, j \in Inputs : asked'[c][j] \in {asked[c][j], Unknown}
    BY <1>1, <1>4 DEF FollowInv, QueueInv, QueueTypes
  <2>2. queue' = queue /\ Sent' = Sent
    BY <1>2, <1>4 DEF Sent
  <2> QED
    BY <1>3, <2>1, <2>2 DEF FollowInv, Follows
<1>5. ASSUME /\ vin' = [vin EXCEPT ![b][i] = v]
             /\ asked' = [asked EXCEPT ![b][i] = IF Waits(b, i) THEN Unknown ELSE v],
             NEW c \in Boxes, NEW j \in Inputs
      PROVE  asked'[c][j] \in {After(queue'[c], j, Sent'[c][j]), Unknown}
  <2>1. Sent'[c][j] = After(batch[c], j, vin'[c][j])
    BY <1>2 DEF Sent
  <2>2. CASE c = b /\ j = i
    <3>1. vin'[c][j] = v /\ asked'[c][j] = IF Waits(b, i) THEN Unknown ELSE v
      BY <1>1, <1>5, <2>2 DEF IInv, TypeInv, FollowInv, QueueInv, QueueTypes
    <3>2. ASSUME ~Waits(b, i) PROVE After(queue'[c], j, Sent'[c][j]) = v
      <4>1. queue[b] \in Seq(Puts) /\ batch[b] \in Seq(Puts)
        BY <1>1 DEF FollowInv, QueueInv, QueueTypes
      <4>2. None(queue[b], i) /\ None(batch[b], i)
        <5>1. /\ \A k \in 1..Len(queue[b]) : queue[b][k] \in Range(queue[b] \o batch[b])
              /\ \A k \in 1..Len(batch[b]) : batch[b][k] \in Range(queue[b] \o batch[b])
          BY <4>1, RangeConcat
        <5> QED
          BY <3>2, <5>1 DEF Waits, None
      <4> QED
        BY <1>2, <2>1, <2>2, <3>1, <4>1, <4>2, AfterNone
    <3> QED
      BY <3>1, <3>2
  <2>3. CASE ~(c = b /\ j = i)
    <3>1. vin'[c][j] = vin[c][j] /\ asked'[c][j] = asked[c][j]
      BY <1>1, <1>5, <2>3 DEF IInv, TypeInv, FollowInv, QueueInv, QueueTypes
    <3> QED
      BY <1>2, <2>1, <3>1 DEF FollowInv, Follows, Sent
  <2> QED
    BY <2>2, <2>3
<1> QED
  BY <1>2, <1>3, <1>4, <1>5 DEF FollowInv, Follows

LEMMA DiscoverMakes ==
    ASSUME Discover
    PROVE  \/ UNCHANGED <<list, wpc>>
           \/ \E b \in Boxes : /\ ~Found(b) /\ list' = Append(list, b)
                              /\ wpc' = [wpc EXCEPT ![b] = "idle"]
<1> DEFINE b == Addresses[next]
<1>1. PICK got \in {o.got : o \in Outcomes(b, {"diagnosticResponse"})} :
        \/ /\ b \in Relays /\ got # NoAnswer /\ IsNew(b, got)
           /\ list' = Append(list, got.from) /\ wpc' = [wpc EXCEPT ![got.from] = "idle"]
        \/ UNCHANGED <<list, wpc>>
  BY DEF Discover
<1>2. ASSUME b \in Relays, got # NoAnswer PROVE got.from \in Boxes
  <2>1. got \in Answers
    BY <1>1, <1>2, OutcomeTypes DEF Boxes
  <2> QED
    BY <2>1 DEF Answers
<1> QED
  BY <1>1, <1>2 DEF IsNew

(* A worker that is made is put in the list, and stays there. *)
Listed == DOMAIN wpc = Boxes /\ \A b \in Boxes : wpc[b] # "none" => Found(b)

LEMMA ListedNext == IInv /\ Listed /\ [Next]_vars => Listed'
<1> SUFFICES ASSUME IInv, Listed, [Next]_vars PROVE Listed'
  OBVIOUS
<1>1. CASE UNCHANGED <<list, wpc>>
  BY <1>1 DEF Listed, Found
<1>2. ASSUME NEW b \in Boxes, NEW w, wpc[b] # "none",
             wpc' = [wpc EXCEPT ![b] = w], list' = list
      PROVE  Listed'
  BY <1>2 DEF Listed, Found
<1>3. ASSUME NEW b \in Boxes, Worker(b) PROVE Listed'
  <2>1. wpc[b] # "none" /\ list' = list /\ \E w : wpc' = [wpc EXCEPT ![b] = w]
    BY <1>3 DEF Worker, Wake, GoOn, Fill, TransferRemote
  <2> QED
    BY <1>2, <2>1
<1>4. CASE Discover
  <2>1. CASE \E b \in Boxes : list' = Append(list, b) /\ wpc' = [wpc EXCEPT ![b] = "idle"]
    <3>1. PICK b \in Boxes : list' = Append(list, b) /\ wpc' = [wpc EXCEPT ![b] = "idle"]
      BY <2>1
    <3>2. list \in Seq(Boxes)
      BY DEF IInv, TypeInv
    <3>3. /\ Len(list) \in Nat /\ Len(list') = Len(list) + 1 /\ list'[Len(list) + 1] = b
          /\ \A k \in 1..Len(list) : list'[k] = list[k]
      BY <3>1, <3>2
    <3>4. DOMAIN list = 1..Len(list) /\ DOMAIN list' = 1..Len(list')
      BY <3>1, <3>2
    <3>5. \A c : c = b \/ Found(c) => Found(c)'
      BY <3>3, <3>4 DEF Found, Range
    <3> QED
      BY <3>1, <3>5 DEF Listed
  <2>2. CASE UNCHANGED <<list, wpc>>
    BY <1>1, <2>2
  <2> QED
    BY <1>4, <2>1, <2>2, DiscoverMakes
<1>5. CASE Device
  BY <1>1, <1>5 DEF Device, ReadGate, SetInput, Sleep, SetGate, DetailedStatus, Respond, workerVars
<1>6. ASSUME NEW c \in Commands, Command(c) PROVE Listed'
  BY <1>1, <1>6 DEF Command, workerVars
<1>7. CASE UNCHANGED vars
  BY <1>1, <1>7 DEF vars, workerVars
<1> QED
  BY <1>3, <1>4, <1>5, <1>6, <1>7 DEF Next

LEMMA FollowDiscover == Listed /\ FollowInv /\ Discover => FollowInv'
<1> SUFFICES ASSUME Listed, FollowInv, Discover PROVE FollowInv'
  OBVIOUS
<1>1. UNCHANGED <<vin, queue, batch, asked>>
  BY DEF Discover, boxVars
<1>2. DOMAIN wpc' = Boxes /\ \A b \in Boxes : wpc'[b] # "transfer" => batch[b] = <<>>
  <2>1. wpc' = wpc \/ \E b \in Boxes : ~Found(b) /\ wpc' = [wpc EXCEPT ![b] = "idle"]
    BY DiscoverMakes
  <2> QED
    BY <2>1 DEF Listed, FollowInv, QueueInv
<1> QED
  BY <1>1, <1>2 DEF FollowInv, QueueInv, QueueTypes, Follows, Sent

LEMMA FollowNext == IInv /\ Listed /\ FollowInv /\ [Next]_vars => FollowInv'
<1> SUFFICES ASSUME IInv, Listed, FollowInv, [Next]_vars PROVE FollowInv'
  OBVIOUS
<1>1. ASSUME UNCHANGED <<vin, queue, batch, asked, wpc>> PROVE FollowInv'
  BY <1>1 DEF FollowInv, QueueInv, QueueTypes, Follows, Sent
<1>2. ASSUME NEW b \in Boxes, Worker(b) PROVE FollowInv'
  <2>1. CASE TransferRemote(b)
    BY <2>1, FollowTransfer
  <2>2. CASE Fill(b) /\ wpc[b] # "transfer" /\ UNCHANGED <<vin, asked>>
    BY <2>2, FollowFill DEF FollowInv, QueueInv
  <2>3. CASE wpc[b] = "more" /\ wpc' = [wpc EXCEPT ![b] = "idle"]
             /\ UNCHANGED <<vin, queue, batch, asked>>
    BY <2>3 DEF FollowInv, QueueInv, QueueTypes, Follows, Sent
  <2> QED
    BY <1>2, <2>1, <2>2, <2>3 DEF Worker, Wake, GoOn, boxVars
<1>3. CASE Device
  <2>1. CASE SetInput
    BY <2>1, FollowSetInput
  <2>2. CASE ~SetInput
    BY <1>1, <1>3, <2>2 DEF Device, ReadGate, Sleep, SetGate, DetailedStatus, Respond,
                            boxVars, workerVars
  <2> QED
    BY <2>1, <2>2
<1>4. ASSUME NEW c \in Commands, Command(c) PROVE FollowInv'
  BY <1>1, <1>4 DEF Command, boxVars, workerVars
<1>5. CASE UNCHANGED vars
  BY <1>1, <1>5 DEF vars, boxVars, workerVars
<1> QED
  BY <1>2, <1>3, <1>4, <1>5, FollowDiscover DEF Next

(* vALTOMultinet_relayControllerTransferRemote and its queue keep the inputs of
   every box as they were last asked to be, however the requests of an answer are
   spread over frames, for frames and routings of any length. *)
THEOREM RequestsFollowed == Spec => []InputsFollowRequests
<1>1. FollowInv => InputsFollowRequests
  <2> SUFFICES ASSUME FollowInv, NEW b \in Boxes, wpc[b] # "transfer", queue[b] = <<>>,
                      NEW i \in Inputs
               PROVE  asked[b][i] \in {vin[b][i], Unknown}
    BY DEF InputsFollowRequests
  <2>1. batch[b] = <<>> /\ <<>> \in Seq(Puts) /\ None(<<>>, i)
    BY DEF FollowInv, QueueInv, None
  <2>2. After(queue[b], i, Sent[b][i]) = vin[b][i]
    BY <2>1, AfterNone DEF Sent
  <2> QED
    BY <2>2 DEF FollowInv, Follows
<1>2. Init => Listed
  BY DEF Init, Listed
<1> QED
  BY <1>1, <1>2, InitInv, InvNext, ListedNext, FollowInit, FollowNext, PTL DEF Spec
=============================================================================

------------------------ MODULE TCPBinaryServerProofs ------------------------
(* The permits, the sockets and the Events of the server, proved for any number
   of clients, descriptors and permits. *)
EXTENDS TCPBinaryServer, FiniteSetTheorems, TLAPS

Talks == {"recv", "data", "decode", "kill"}     \* the worker may still post
Ends == {"close", "release", "end"}             \* it has posted KILL

(* What the server and a worker work with. *)
WorkerInv ==
    /\ spc = "accept" => errorCounter < MaxErrors
    /\ spc \in {"listen", "create", "pend"} => errorCounter = 0
    /\ spc = "create" =>
           accepted \in Conns /\ clientfd[accepted] \in Fds /\ wpc[accepted] = "none"
    /\ \A c \in Conns :
        /\ wpc[c] # "none" => clientfd[c] \in Fds
        /\ wpc[c] \in {"data", "decode"} => rx[c] \in Conns
        /\ wpc[c] \in {"none", "start"} => tpc[c] = "none" /\ flags[c] = {} /\ got[c] = {}
        /\ tpc[c] # "none" => clientfd[c] \in Fds

(* A descriptor stands for a connection until its worker, or the server that
   could not create one, closes it. *)
SocketInv ==
    \A f \in Fds : sockets[f] # NoConn =>
        /\ clientfd[sockets[f]] = f
        /\ \/ wpc[sockets[f]] \in {"start"} \cup Talks \cup {"close"}
           \/ spc = "create" /\ accepted = sockets[f]

(* The timeout task leaves its loop only when the client was silent or the
   worker has posted KILL. *)
EventInv ==
    \A c \in Conns :
        /\ tpc[c] = "run" => got[c] # {}
        /\ KILL \in flags[c] \cup got[c] => wpc[c] \in Ends
        /\ tpc[c] \in {"close", "delete"} => silent[c] \/ wpc[c] \in Ends
        /\ wpc[c] \in Talks /\ ~silent[c] => event[c] = "created"

IInv == TypeOK /\ PermitsConserved /\ WorkerInv /\ SocketInv /\ EventInv

-----------------------------------------------------------------------------
(* The number of workers is a number. *)
LEMMA ActiveFinite == IsFiniteSet(Active) /\ Cardinality(Active) \in Nat
<1>1. Active \subseteq Conns
  BY DEF Active
<1> QED
  BY <1>1, ServerAssumption, FS_Subset, FS_CardinalityType


(* The server listens, or gives up. *)
LEMMA KeepsListen ==
    ASSUME IInv, Listen
    PROVE  IInv'
<1> USE ServerAssumption DEF IInv, Listen, serverVars, workerVars, timeoutVars,
        eventVars
<1>1. PermitsConserved'
  <2>1. Active' = Active
    BY DEF Active, TypeOK
  <2> QED BY <2>1 DEF PermitsConserved, ServerOwes, TypeOK
<1>2. TypeOK'
  BY DEF TypeOK, WorkerInv, WorkerLabels, TimeoutLabels
<1>3. WorkerInv'
  BY DEF WorkerInv, TypeOK
<1>4. SocketInv'
  BY DEF SocketInv, WorkerInv, TypeOK, Talks
<1>5. EventInv'
  BY DEF EventInv, WorkerInv, TypeOK, Talks, Ends
<1> QED BY <1>1, <1>2, <1>3, <1>4, <1>5

(* A connection is accepted on a descriptor that is free. *)
LEMMA KeepsAccept ==
    ASSUME IInv, Accept
    PROVE  IInv'
<1> USE ServerAssumption DEF IInv, Accept, serverVars, workerVars, timeoutVars,
        eventVars
<1>1. PermitsConserved'
  <2>1. Active' = Active
    BY DEF Active, TypeOK
  <2> QED BY <2>1 DEF PermitsConserved, ServerOwes, TypeOK
<1>2. TypeOK'
  <2>1. PICK c \in New, f \in Fds :
             /\ sockets[f] = NoConn /\ sockets' = [sockets EXCEPT ![f] = c]
             /\ clientfd' = [clientfd EXCEPT ![c] = f] /\ accepted' = c
    OBVIOUS
  <2>2. c \in Conns /\ wpc[c] = "none" /\ clientfd[c] = NoFd
    BY DEF New
  <2> QED BY <2>1, <2>2 DEF TypeOK
<1>3. WorkerInv'
  <2>1. PICK c \in New, f \in Fds :
             /\ sockets[f] = NoConn /\ sockets' = [sockets EXCEPT ![f] = c]
             /\ clientfd' = [clientfd EXCEPT ![c] = f] /\ accepted' = c
    OBVIOUS
  <2>2. c \in Conns /\ wpc[c] = "none" /\ clientfd[c] = NoFd
    BY DEF New
  <2> QED BY <2>1, <2>2 DEF WorkerInv, TypeOK
<1>4. SocketInv'
  <2>1. PICK c \in New, f \in Fds :
             /\ sockets[f] = NoConn /\ sockets' = [sockets EXCEPT ![f] = c]
             /\ clientfd' = [clientfd EXCEPT ![c] = f] /\ accepted' = c
    OBVIOUS
  <2>2. c \in Conns /\ wpc[c] = "none" /\ clientfd[c] = NoFd
    BY DEF New
  <2>3. \A g \in Fds : sockets[g] # c
    BY <2>2 DEF SocketInv
  <2> QED BY <2>1, <2>2, <2>3 DEF SocketInv, TypeOK
<1>5. EventInv'
  BY DEF EventInv, WorkerInv, TypeOK, Talks, Ends
<1> QED BY <1>1, <1>2, <1>3, <1>4, <1>5

(* One failure more, up to the last. *)
LEMMA KeepsAcceptFails ==
    ASSUME IInv, AcceptFails
    PROVE  IInv'
<1> USE ServerAssumption DEF IInv, AcceptFails, serverVars, workerVars, timeoutVars,
        eventVars
<1>1. PermitsConserved'
  <2>1. Active' = Active
    BY DEF Active, TypeOK
  <2> QED BY <2>1 DEF PermitsConserved, ServerOwes, TypeOK
<1>2. TypeOK'
  BY DEF TypeOK, WorkerInv
<1>3. WorkerInv'
  BY DEF WorkerInv, TypeOK
<1>4. SocketInv'
  BY DEF SocketInv, WorkerInv, TypeOK, Talks
<1>5. EventInv'
  BY DEF EventInv, WorkerInv, TypeOK, Talks, Ends
<1> QED BY <1>1, <1>2, <1>3, <1>4, <1>5

(* The worker holds the permit that the server owes, or it is lost. *)
LEMMA KeepsCreateWorker ==
    ASSUME IInv, CreateWorker
    PROVE  IInv'
<1> USE ServerAssumption DEF IInv, CreateWorker, serverVars, workerVars, timeoutVars,
        eventVars
<1>1. PermitsConserved'
  <2>1. CASE wpc' = wpc /\ leaked' = leaked + 1
    <3>1. Active' = Active
      BY <2>1 DEF Active
    <3> QED BY <2>1, <3>1, ActiveFinite DEF PermitsConserved, ServerOwes, TypeOK
  <2>2. CASE wpc' = [wpc EXCEPT ![accepted] = "start"] /\ leaked' = leaked
    <3>1. Active' = Active \cup {accepted} /\ accepted \notin Active
      BY <2>2 DEF Active, WorkerInv, TypeOK
    <3>2. Cardinality(Active') = Cardinality(Active) + 1
      BY <3>1, ActiveFinite, FS_AddElement
    <3> QED BY <2>2, <3>2, ActiveFinite DEF PermitsConserved, ServerOwes, TypeOK
  <2> QED BY <2>1, <2>2
<1>2. TypeOK'
  <2>1. accepted \in Conns /\ clientfd[accepted] \in Fds
    BY DEF WorkerInv
  <2> QED BY <2>1 DEF TypeOK, WorkerLabels, CloseFd
<1>3. WorkerInv'
  BY DEF WorkerInv, TypeOK
<1>4. SocketInv'
  <2>1. accepted \in Conns /\ clientfd[accepted] \in Fds /\ wpc[accepted] = "none"
    BY DEF WorkerInv
  <2>2. CASE wpc' = [wpc EXCEPT ![accepted] = "start"] /\ sockets' = sockets
    BY <2>1, <2>2 DEF SocketInv, TypeOK, Talks
  <2>3. CASE CloseFd(clientfd[accepted]) /\ wpc' = wpc
    <3>1. \A f \in Fds : sockets[f] = accepted => f = clientfd[accepted]
      BY <2>1, ServerAssumption DEF SocketInv
    <3> QED BY <2>1, <2>3, <3>1 DEF SocketInv, TypeOK, Talks, CloseFd
  <2> QED BY <2>2, <2>3
<1>5. EventInv'
  BY DEF EventInv, WorkerInv, TypeOK, Talks, Ends
<1> QED BY <1>1, <1>2, <1>3, <1>4, <1>5

(* The server takes the permit. *)
LEMMA KeepsTakePermit ==
    ASSUME IInv, TakePermit
    PROVE  IInv'
<1> USE ServerAssumption DEF IInv, TakePermit, serverVars, workerVars, timeoutVars,
        eventVars
<1>1. PermitsConserved'
  <2>1. Active' = Active
    BY DEF Active
  <2> QED BY <2>1, ActiveFinite DEF PermitsConserved, ServerOwes, TypeOK
<1>2. TypeOK'
  BY DEF TypeOK, WorkerInv, WorkerLabels, TimeoutLabels
<1>3. WorkerInv'
  BY DEF WorkerInv, TypeOK
<1>4. SocketInv'
  BY DEF SocketInv, WorkerInv, TypeOK, Talks
<1>5. EventInv'
  BY DEF EventInv, WorkerInv, TypeOK, Talks, Ends
<1> QED BY <1>1, <1>2, <1>3, <1>4, <1>5

(* Nothing is left of the connections. *)
LEMMA KeepsReset ==
    ASSUME IInv, Reset
    PROVE  IInv'
<1> USE ServerAssumption DEF IInv, Reset, serverVars, workerVars, timeoutVars, eventVars
<1>1. PermitsConserved'
  <2>1. Active' = {}
    BY DEF Active, New
  <2> QED BY <2>1, FS_EmptySet, ServerAssumption DEF PermitsConserved, ServerOwes
<1>2. TypeOK'
  BY DEF TypeOK, WorkerInv, WorkerLabels, TimeoutLabels
<1>3. WorkerInv'
  <2>1. \A d \in Conns : wpc'[d] # "none" \/ tpc'[d] # "none" => clientfd[d] \in Fds
    BY DEF New, WorkerInv, TypeOK
  <2>2. \A d \in Conns : wpc'[d] \in {"none", "end"} /\ (wpc'[d] = "none" => tpc'[d] = "none")
    OBVIOUS
  <2> QED BY <2>1, <2>2 DEF WorkerInv
<1>4. SocketInv'
  BY DEF SocketInv, WorkerInv, TypeOK, Talks
<1>5. EventInv'
  BY DEF EventInv, WorkerInv, TypeOK, Talks, Ends
<1> QED BY <1>1, <1>2, <1>3, <1>4, <1>5

(* The Event is created before the first post. *)
LEMMA KeepsStartWorker ==
    ASSUME IInv, NEW c \in Conns, StartWorker(c)
    PROVE  IInv'
<1> USE ServerAssumption DEF IInv, StartWorker, serverVars, workerVars, timeoutVars,
        eventVars
<1>1. PermitsConserved'
  <2>1. Active' = Active
    BY DEF Active, TypeOK
  <2> QED BY <2>1 DEF PermitsConserved, ServerOwes, TypeOK
<1>2. TypeOK'
  BY DEF TypeOK, WorkerInv, WorkerLabels, TimeoutLabels
<1>3. WorkerInv'
  BY DEF WorkerInv, TypeOK
<1>4. SocketInv'
  BY DEF SocketInv, WorkerInv, TypeOK, Talks
<1>5. EventInv'
  BY DEF EventInv, WorkerInv, TypeOK, Talks, Ends
<1> QED BY <1>1, <1>2, <1>3, <1>4, <1>5

(* The descriptor stands for a connection. *)
LEMMA KeepsRecvData ==
    ASSUME IInv, NEW c \in Conns, RecvData(c)
    PROVE  IInv'
<1> USE ServerAssumption DEF IInv, RecvData, serverVars, workerVars, timeoutVars,
        eventVars
<1>1. PermitsConserved'
  <2>1. Active' = Active
    BY DEF Active, TypeOK
  <2> QED BY <2>1 DEF PermitsConserved, ServerOwes, TypeOK
<1>2. TypeOK'
  BY DEF TypeOK, WorkerInv, WorkerLabels, TimeoutLabels
<1>3. WorkerInv'
  BY DEF WorkerInv, TypeOK
<1>4. SocketInv'
  BY DEF SocketInv, WorkerInv, TypeOK, Talks
<1>5. EventInv'
  BY DEF EventInv, WorkerInv, TypeOK, Talks, Ends
<1> QED BY <1>1, <1>2, <1>3, <1>4, <1>5

(* The worker will post KILL. *)
LEMMA KeepsRecvEnd ==
    ASSUME IInv, NEW c \in Conns, RecvEnd(c)
    PROVE  IInv'
<1> USE ServerAssumption DEF IInv, RecvEnd, serverVars, workerVars, timeoutVars,
        eventVars
<1>1. PermitsConserved'
  <2>1. Active' = Active
    BY DEF Active, TypeOK
  <2> QED BY <2>1 DEF PermitsConserved, ServerOwes, TypeOK
<1>2. TypeOK'
  BY DEF TypeOK, WorkerInv, WorkerLabels, TimeoutLabels
<1>3. WorkerInv'
  BY DEF WorkerInv, TypeOK
<1>4. SocketInv'
  BY DEF SocketInv, WorkerInv, TypeOK, Talks
<1>5. EventInv'
  BY DEF EventInv, WorkerInv, TypeOK, Talks, Ends
<1> QED BY <1>1, <1>2, <1>3, <1>4, <1>5

(* The Event gets another flag than KILL. *)
LEMMA KeepsPostPeriodic ==
    ASSUME IInv, NEW c \in Conns, PostPeriodic(c)
    PROVE  IInv'
<1> USE ServerAssumption DEF IInv, PostPeriodic, EventPost, PERIODIC, KILL,
        serverVars, workerVars, timeoutVars, eventVars
<1>1. PermitsConserved'
  <2>1. Active' = Active
    BY DEF Active, TypeOK
  <2> QED BY <2>1 DEF PermitsConserved, ServerOwes, TypeOK
<1>2. TypeOK'
  BY DEF TypeOK, WorkerInv, WorkerLabels, TimeoutLabels
<1>3. WorkerInv'
  BY DEF WorkerInv, TypeOK
<1>4. SocketInv'
  BY DEF SocketInv, WorkerInv, TypeOK, Talks
<1>5. EventInv'
  <2>1. CASE /\ tpc' = [tpc EXCEPT ![c] = "run"]
             /\ UNCHANGED <<flags, event, silent>>
             /\ got' = [got EXCEPT ![c] = {PERIODIC}]
    BY <2>1 DEF EventInv, WorkerInv, TypeOK, Talks, Ends
  <2>2. CASE UNCHANGED <<tpc, got, event, silent>> /\ flags' = [flags EXCEPT ![c] = @ \cup {PERIODIC}]
    BY <2>2 DEF EventInv, WorkerInv, TypeOK, Talks, Ends
  <2>3. CASE UNCHANGED <<timeoutVars, eventVars>>
    BY <2>3 DEF EventInv, WorkerInv, TypeOK, Talks, Ends
  <2> QED BY <2>1, <2>2, <2>3
<1> QED BY <1>1, <1>2, <1>3, <1>4, <1>5

(* The request keeps the descriptor. *)
LEMMA KeepsDecode ==
    ASSUME IInv, NEW c \in Conns, Decode(c)
    PROVE  IInv'
<1> USE ServerAssumption DEF IInv, Decode, serverVars, workerVars, timeoutVars,
        eventVars
<1>1. PermitsConserved'
  <2>1. Active' = Active
    BY DEF Active, TypeOK
  <2> QED BY <2>1 DEF PermitsConserved, ServerOwes, TypeOK
<1>2. TypeOK'
  BY DEF TypeOK, WorkerInv, WorkerLabels, TimeoutLabels
<1>3. WorkerInv'
  BY DEF WorkerInv, TypeOK
<1>4. SocketInv'
  BY DEF SocketInv, WorkerInv, TypeOK, Talks
<1>5. EventInv'
  BY DEF EventInv, WorkerInv, TypeOK, Talks, Ends
<1> QED BY <1>1, <1>2, <1>3, <1>4, <1>5

(* From here on the worker does not post. *)
LEMMA KeepsPostKill ==
    ASSUME IInv, NEW c \in Conns, PostKill(c)
    PROVE  IInv'
<1> USE ServerAssumption DEF IInv, PostKill, EventPost, PERIODIC, KILL, serverVars,
        workerVars, timeoutVars, eventVars
<1>1. PermitsConserved'
  <2>1. Active' = Active
    BY DEF Active, TypeOK
  <2> QED BY <2>1 DEF PermitsConserved, ServerOwes, TypeOK
<1>2. TypeOK'
  BY DEF TypeOK, WorkerInv, WorkerLabels, TimeoutLabels
<1>3. WorkerInv'
  BY DEF WorkerInv, TypeOK
<1>4. SocketInv'
  BY DEF SocketInv, WorkerInv, TypeOK, Talks
<1>5. EventInv'
  <2>1. CASE /\ tpc' = [tpc EXCEPT ![c] = "run"]
             /\ UNCHANGED <<flags, event, silent>>
             /\ got' = [got EXCEPT ![c] = {KILL}]
    BY <2>1 DEF EventInv, WorkerInv, TypeOK, Talks, Ends
  <2>2. CASE UNCHANGED <<tpc, got, event, silent>> /\ flags' = [flags EXCEPT ![c] = @ \cup {KILL}]
    BY <2>2 DEF EventInv, WorkerInv, TypeOK, Talks, Ends
  <2>3. CASE UNCHANGED <<timeoutVars, eventVars>>
    BY <2>3 DEF EventInv, WorkerInv, TypeOK, Talks, Ends
  <2> QED BY <2>1, <2>2, <2>3
<1> QED BY <1>1, <1>2, <1>3, <1>4, <1>5

(* The descriptor of an ended connection is free. *)
LEMMA KeepsWorkerClose ==
    ASSUME IInv, NEW c \in Conns, WorkerClose(c)
    PROVE  IInv'
<1> USE ServerAssumption DEF IInv, WorkerClose, CloseFd, serverVars, workerVars,
        timeoutVars, eventVars
<1>1. PermitsConserved'
  <2>1. Active' = Active
    BY DEF Active, TypeOK
  <2> QED BY <2>1 DEF PermitsConserved, ServerOwes, TypeOK
<1>2. TypeOK'
  BY DEF TypeOK, WorkerInv, WorkerLabels, TimeoutLabels
<1>3. WorkerInv'
  BY DEF WorkerInv, TypeOK
<1>4. SocketInv'
  BY DEF SocketInv, WorkerInv, TypeOK, Talks
<1>5. EventInv'
  BY DEF EventInv, WorkerInv, TypeOK, Talks, Ends
<1> QED BY <1>1, <1>2, <1>3, <1>4, <1>5

(* The permit of the worker is available again. *)
LEMMA KeepsReleasePermit ==
    ASSUME IInv, NEW c \in Conns, ReleasePermit(c)
    PROVE  IInv'
<1> USE ServerAssumption DEF IInv, ReleasePermit, serverVars, workerVars,
        timeoutVars, eventVars
<1>1. PermitsConserved'
  <2>1. Active' = Active \ {c} /\ c \in Active
    BY DEF Active, TypeOK
  <2>2. Cardinality(Active') = Cardinality(Active) - 1
    BY <2>1, ActiveFinite, FS_RemoveElement
  <2> QED BY <2>2, ActiveFinite DEF PermitsConserved, ServerOwes, TypeOK
<1>2. TypeOK'
  <2>1. Cardinality(Active) >= 1
    <3>1. c \in Active
      BY DEF Active
    <3> QED BY <3>1, ActiveFinite, FS_EmptySet
  <2>2. permits + 1 \in 0..(Permits + 1)
    BY <2>1, ActiveFinite, ServerAssumption DEF PermitsConserved, ServerOwes, TypeOK
  <2> QED BY <2>2 DEF TypeOK, WorkerLabels
<1>3. WorkerInv'
  BY DEF WorkerInv, TypeOK
<1>4. SocketInv'
  BY DEF SocketInv, WorkerInv, TypeOK, Talks
<1>5. EventInv'
  BY DEF EventInv, WorkerInv, TypeOK, Talks, Ends
<1> QED BY <1>1, <1>2, <1>3, <1>4, <1>5

(* The flags are taken. *)
LEMMA KeepsTimeoutPend ==
    ASSUME IInv, NEW c \in Conns, TimeoutPend(c)
    PROVE  IInv'
<1> USE ServerAssumption DEF IInv, TimeoutPend, serverVars, workerVars, timeoutVars,
        eventVars
<1>1. PermitsConserved'
  <2>1. Active' = Active
    BY DEF Active, TypeOK
  <2> QED BY <2>1 DEF PermitsConserved, ServerOwes, TypeOK
<1>2. TypeOK'
  BY DEF TypeOK, WorkerInv, WorkerLabels, TimeoutLabels
<1>3. WorkerInv'
  BY DEF WorkerInv, TypeOK
<1>4. SocketInv'
  BY DEF SocketInv, WorkerInv, TypeOK, Talks
<1>5. EventInv'
  BY DEF EventInv, WorkerInv, TypeOK, Talks, Ends
<1> QED BY <1>1, <1>2, <1>3, <1>4, <1>5

(* The client was silent. *)
LEMMA KeepsTimeoutExpires ==
    ASSUME IInv, NEW c \in Conns, TimeoutExpires(c)
    PROVE  IInv'
<1> USE ServerAssumption DEF IInv, TimeoutExpires, serverVars, workerVars,
        timeoutVars, eventVars
<1>1. PermitsConserved'
  <2>1. Active' = Active
    BY DEF Active, TypeOK
  <2> QED BY <2>1 DEF PermitsConserved, ServerOwes, TypeOK
<1>2. TypeOK'
  BY DEF TypeOK, WorkerInv, WorkerLabels, TimeoutLabels
<1>3. WorkerInv'
  BY DEF WorkerInv, TypeOK
<1>4. SocketInv'
  BY DEF SocketInv, WorkerInv, TypeOK, Talks
<1>5. EventInv'
  BY DEF EventInv, WorkerInv, TypeOK, Talks, Ends
<1> QED BY <1>1, <1>2, <1>3, <1>4, <1>5

(* Without a PERIODIC flag it was KILL. *)
LEMMA KeepsTimeoutRun ==
    ASSUME IInv, NEW c \in Conns, TimeoutRun(c)
    PROVE  IInv'
<1> USE ServerAssumption DEF IInv, TimeoutRun, PERIODIC, KILL, serverVars,
        workerVars, timeoutVars, eventVars
<1>1. PermitsConserved'
  <2>1. Active' = Active
    BY DEF Active, TypeOK
  <2> QED BY <2>1 DEF PermitsConserved, ServerOwes, TypeOK
<1>2. TypeOK'
  BY DEF TypeOK, WorkerInv, WorkerLabels, TimeoutLabels
<1>3. WorkerInv'
  BY DEF WorkerInv, TypeOK
<1>4. SocketInv'
  BY DEF SocketInv, WorkerInv, TypeOK, Talks
<1>5. EventInv'
  BY DEF EventInv, WorkerInv, TypeOK, Talks, Ends
<1> QED BY <1>1, <1>2, <1>3, <1>4, <1>5

(* The descriptor is free, whoever has it by now. *)
LEMMA KeepsTimeoutClose ==
    ASSUME IInv, NEW c \in Conns, TimeoutClose(c)
    PROVE  IInv'
<1> USE ServerAssumption DEF IInv, TimeoutClose, CloseFd, serverVars, workerVars,
        timeoutVars, eventVars
<1>1. PermitsConserved'
  <2>1. Active' = Active
    BY DEF Active, TypeOK
  <2> QED BY <2>1 DEF PermitsConserved, ServerOwes, TypeOK
<1>2. TypeOK'
  BY DEF TypeOK, WorkerInv, WorkerLabels, TimeoutLabels
<1>3. WorkerInv'
  BY DEF WorkerInv, TypeOK
<1>4. SocketInv'
  BY DEF SocketInv, WorkerInv, TypeOK, Talks
<1>5. EventInv'
  BY DEF EventInv, WorkerInv, TypeOK, Talks, Ends
<1> QED BY <1>1, <1>2, <1>3, <1>4, <1>5

(* The Event is deleted. *)
LEMMA KeepsTimeoutDelete ==
    ASSUME IInv, NEW c \in Conns, TimeoutDelete(c)
    PROVE  IInv'
<1> USE ServerAssumption DEF IInv, TimeoutDelete, serverVars, workerVars,
        timeoutVars, eventVars
<1>1. PermitsConserved'
  <2>1. Active' = Active
    BY DEF Active, TypeOK
  <2> QED BY <2>1 DEF PermitsConserved, ServerOwes, TypeOK
<1>2. TypeOK'
  BY DEF TypeOK, WorkerInv, WorkerLabels, TimeoutLabels
<1>3. WorkerInv'
  BY DEF WorkerInv, TypeOK
<1>4. SocketInv'
  BY DEF SocketInv, WorkerInv, TypeOK, Talks
<1>5. EventInv'
  BY DEF EventInv, WorkerInv, TypeOK, Talks, Ends
<1> QED BY <1>1, <1>2, <1>3, <1>4, <1>5

(* A request is answered. *)
LEMMA KeepsRespond ==
    ASSUME IInv, NEW r \in requests, Respond(r)
    PROVE  IInv'
<1> USE ServerAssumption DEF IInv, Respond, serverVars, workerVars, timeoutVars,
        eventVars
<1>1. PermitsConserved'
  <2>1. Active' = Active
    BY DEF Active, TypeOK
  <2> QED BY <2>1 DEF PermitsConserved, ServerOwes, TypeOK
<1>2. TypeOK'
  BY DEF TypeOK, WorkerInv, WorkerLabels, TimeoutLabels
<1>3. WorkerInv'
  BY DEF WorkerInv, TypeOK
<1>4. SocketInv'
  BY DEF SocketInv, WorkerInv, TypeOK, Talks
<1>5. EventInv'
  BY DEF EventInv, WorkerInv, TypeOK, Talks, Ends
<1> QED BY <1>1, <1>2, <1>3, <1>4, <1>5
-----------------------------------------------------------------------------
(* The invariant holds at the start: no connection, and every permit. *)
LEMMA IInvInit == Init => IInv
<1> SUFFICES ASSUME Init PROVE IInv
  OBVIOUS
<1> USE ServerAssumption DEF Init
<1>1. PermitsConserved
  <2>1. Active = {}
    BY DEF Active
  <2> QED
    BY <2>1, FS_EmptySet DEF PermitsConserved, ServerOwes
<1>2. TypeOK
  BY DEF TypeOK, WorkerLabels, TimeoutLabels
<1>3. WorkerInv
  BY DEF WorkerInv
<1>4. SocketInv
  BY DEF SocketInv
<1>5. EventInv
  BY DEF EventInv, Talks
<1> QED
  BY <1>1, <1>2, <1>3, <1>4, <1>5 DEF IInv

(* Every step of the server, of a connection and of a device keeps it. *)
LEMMA IInvNext == IInv /\ [Next]_vars => IInv'
<1> SUFFICES ASSUME IInv, [Next]_vars PROVE IInv'
  OBVIOUS
<1>1. CASE Server \/ Crash
  BY <1>1, KeepsListen, KeepsAccept, KeepsAcceptFails, KeepsCreateWorker,
     KeepsTakePermit, KeepsReset DEF Server, Reboot, Crash
<1>2. ASSUME NEW c \in Conns, Worker(c) PROVE IInv'
  BY <1>2, KeepsStartWorker, KeepsRecvData, KeepsRecvEnd, KeepsPostPeriodic, KeepsDecode,
     KeepsPostKill, KeepsWorkerClose, KeepsReleasePermit DEF Worker
<1>3. ASSUME NEW c \in Conns, Timeout(c) PROVE IInv'
  BY <1>3, KeepsTimeoutPend, KeepsTimeoutExpires, KeepsTimeoutRun, KeepsTimeoutClose,
     KeepsTimeoutDelete DEF Timeout
<1>4. ASSUME NEW r \in requests, Respond(r) PROVE IInv'
  BY <1>4, KeepsRespond
<1>5. CASE UNCHANGED vars
  BY <1>5 DEF vars, IInv, TypeOK, PermitsConserved, ServerOwes, Active, WorkerInv,
              SocketInv, EventInv
<1> QED
  BY <1>1, <1>2, <1>3, <1>4, <1>5 DEF Next

(* The invariant on which the other theorems rest. *)
THEOREM ServerInvariant == Spec => []IInv
<1>1. Init => IInv
  BY IInvInit
<1>2. IInv /\ [Next]_vars => IInv'
  BY IInvNext
<1> QED
  BY <1>1, <1>2, PTL DEF Spec

(* Every state is well typed: accept failures in a row stay below the limit, and
   at most one permit more than there are is available. *)
THEOREM TypeCorrect == Spec => []TypeOK
BY ServerInvariant, PTL DEF IInv

(* No permit is lost but to a worker that could not be created, and none is
   posted twice, whatever the order of workers, timeouts and resets. *)
THEOREM PermitsKept == Spec => []PermitsConserved
BY ServerInvariant, PTL DEF IInv

(* The descriptor table holds only connections that are being served, although
   both tasks of a connection close its descriptor (SocketInv). *)
THEOREM SocketsReturn == Spec => []SocketsReturned
<1>1. IInv => SocketsReturned
  <2> SUFFICES ASSUME IInv, NEW f \in Fds, sockets[f] # NoConn
               PROVE  sockets[f] \in Active \/ (spc = "create" /\ sockets[f] = accepted)
    BY DEF SocketsReturned
  <2>1. sockets[f] \in Conns
    BY DEF IInv, TypeOK
  <2> QED
    BY <2>1 DEF IInv, SocketInv, Active, Talks
<1> QED
  BY <1>1, ServerInvariant, PTL

(* The timeout task deletes the Event before the worker has posted for the last
   time only when the client was silent (EventInv). *)
THEOREM EventOutlives == Spec => []EventOutlivesWorker
<1>1. IInv => EventOutlivesWorker
  BY DEF IInv, EventInv, EventOutlivesWorker, Talks
<1> QED
  BY <1>1, ServerInvariant, PTL
=============================================================================

-------------------------- MODULE TCPBinaryServer ---------------------------
(***************************************************************************)
(* Devices/RemoteController/TCPRemoteControllerBinary.c: the server task   *)
(* that accepts TCP clients, the worker task of each connection, and the   *)
(* task that closes a connection whose client stays silent.                *)
(*                                                                         *)
(* A socket is known by its descriptor, and a descriptor that is closed is *)
(* given to a later connection; sockets says which connection a descriptor *)
(* stands for now.  The worker and its timeout task share one Event and    *)
(* both close the descriptor.  Requests for a device are answered later,   *)
(* by the device, on the descriptor kept in connHandle.                    *)
(*                                                                         *)
(* Bounds: a connection of Conns is accepted at most once; a worker has at *)
(* most one unanswered request of each connection it read from.            *)
(***************************************************************************)
EXTENDS Naturals, FiniteSets

CONSTANTS Conns,      \* client connections
          Fds,        \* socket descriptors left for clients
          Permits,    \* MAXSOCKETS - 1, first count of the socket semaphore
          MaxErrors,  \* accept failures in a row before the server gives up
          NoConn, NoFd

ASSUME ServerAssumption ==
    /\ IsFiniteSet(Conns) /\ NoConn \notin Conns /\ NoFd \notin Fds
    /\ Permits \in Nat \ {0} /\ MaxErrors \in Nat \ {0}

VARIABLES
    spc, errorCounter,  \* vTCPRCBinServerFxn
    accepted,           \* its clientfd, as the connection just accepted
    permits,            \* count of semHandle
    sockets,            \* the descriptor table: which connection a descriptor is
    clientfd,           \* per connection: the descriptor its tasks keep
    wpc, rx,            \* vTCPRCBinWorker, and whose bytes recv returned
    tpc, got,           \* vTCPRCBinWorkerSocketTimeout, and what its pend returned
    event,              \* the Event of the connection: flags, or created, deleted
    flags,
    silent,             \* the pend of the timeout task has timed out
    requests,           \* requests a device has not answered yet
    leaked              \* history: permits taken for workers never created

serverVars  == <<spc, errorCounter, accepted>>
workerVars  == <<wpc, rx>>
timeoutVars == <<tpc, got, silent>>
eventVars   == <<event, flags>>
vars == <<spc, errorCounter, accepted, permits, sockets, clientfd, wpc, rx,
          tpc, got, event, flags, silent, requests, leaked>>

PERIODIC == "DEVICE_PERIODIC_EVT"
KILL     == "DEVICE_APP_KILL_EVT"
-----------------------------------------------------------------------------
Init ==
    /\ spc = "listen" /\ errorCounter = 0 /\ accepted = NoConn
    /\ permits = Permits
    /\ sockets = [f \in Fds |-> NoConn]
    /\ clientfd = [c \in Conns |-> NoFd]
    /\ wpc = [c \in Conns |-> "none"] /\ rx = [c \in Conns |-> NoConn]
    /\ tpc = [c \in Conns |-> "none"] /\ got = [c \in Conns |-> {}]
    /\ event = [c \in Conns |-> "none"] /\ flags = [c \in Conns |-> {}]
    /\ silent = [c \in Conns |-> FALSE]
    /\ requests = {} /\ leaked = 0

New == {c \in Conns : wpc[c] = "none" /\ clientfd[c] = NoFd}
(* Workers from their creation until they have posted the semaphore. *)
Active == {c \in Conns : wpc[c] \in {"start", "recv", "data", "decode", "kill",
                                     "close", "release"}}
ServerOwes == IF spc = "pend" THEN 1 ELSE 0   \* accepted, not yet counted

CloseFd(f) == sockets' = [sockets EXCEPT ![f] = NoConn]

(* socket, bind and listen; a failure goes to shutdown. *)
Listen ==
    /\ spc = "listen"
    /\ spc' \in {"accept", "shutdown"}
    /\ UNCHANGED <<errorCounter, accepted, permits, sockets, clientfd,
                   workerVars, timeoutVars, eventVars, requests, leaked>>

Accept ==
    /\ spc = "accept"
    /\ \E c \in New, f \in Fds :
         /\ sockets[f] = NoConn
         /\ sockets' = [sockets EXCEPT ![f] = c]
         /\ clientfd' = [clientfd EXCEPT ![c] = f]
         /\ accepted' = c
    /\ errorCounter' = 0
    /\ spc' = "create"
    /\ UNCHANGED <<permits, workerVars, timeoutVars, eventVars, requests, leaked>>

(* Mutant: one failure more than MaxErrors is tolerated. *)
AcceptFailsOneMore ==
    /\ spc = "accept"
    /\ errorCounter' = errorCounter + 1
    /\ spc' = IF errorCounter' <= MaxErrors THEN "accept" ELSE "shutdown"
    /\ UNCHANGED <<accepted, permits, sockets, clientfd, workerVars,
                   timeoutVars, eventVars, requests, leaked>>

(* accept timed out (SO_RCVTIMEO), found no descriptor, or lost its address. *)
AcceptFails ==
    /\ spc = "accept"
    /\ errorCounter' = errorCounter + 1
    /\ spc' = IF errorCounter' < MaxErrors THEN "accept" ELSE "shutdown"
    /\ UNCHANGED <<accepted, permits, sockets, clientfd, workerVars,
                   timeoutVars, eventVars, requests, leaked>>

(* Task_create of the worker; when it fails the socket is closed, and the
   server still goes on to pend the semaphore. *)
CreateWorker ==
    /\ spc = "create"
    /\ \/ /\ wpc' = [wpc EXCEPT ![accepted] = "start"]
          /\ UNCHANGED <<sockets, leaked>>
       \/ /\ CloseFd(clientfd[accepted])
          /\ leaked' = leaked + 1
          /\ UNCHANGED wpc
    /\ spc' = "pend"
    /\ UNCHANGED <<errorCounter, accepted, permits, clientfd, rx,
                   timeoutVars, eventVars, requests>>

TakePermit ==
    /\ spc = "pend" /\ permits > 0
    /\ permits' = permits - 1
    /\ accepted' = NoConn
    /\ spc' = "accept"
    /\ UNCHANGED <<errorCounter, sockets, clientfd, workerVars, timeoutVars,
                   eventVars, requests, leaked>>

(* After shutdown: the reboot lock of the flash file system, then a reset.
   It ends every task; the connections it cut are never accepted again. *)
Reset ==
    /\ spc' = "listen" /\ errorCounter' = 0 /\ accepted' = NoConn
    /\ permits' = Permits
    /\ sockets' = [f \in Fds |-> NoConn]
    /\ wpc' = [c \in Conns |-> IF c \in New THEN "none" ELSE "end"]
    /\ rx' = [c \in Conns |-> NoConn]
    /\ tpc' = [c \in Conns |-> IF c \in New THEN "none" ELSE "end"]
    /\ got' = [c \in Conns |-> {}]
    /\ event' = [c \in Conns |-> "none"] /\ flags' = [c \in Conns |-> {}]
    /\ silent' = [c \in Conns |-> FALSE]
    /\ requests' = {} /\ leaked' = 0
    /\ UNCHANGED clientfd

Reboot == spc = "shutdown" /\ Reset
Crash  == spc # "listen" /\ Reset
-----------------------------------------------------------------------------
(* Event_post: a task that waits gets the flag at once and becomes ready,
   otherwise the flag stays set.  On a deleted Event it writes to freed
   memory: nothing happens, or the controller crashes (Crash). *)
EventPost(c, e) ==
    \/ /\ event[c] = "created" /\ tpc[c] = "wait"
       /\ tpc' = [tpc EXCEPT ![c] = "run"]
       /\ got' = [got EXCEPT ![c] = {e}]
       /\ UNCHANGED <<flags, event, silent>>
    \/ /\ event[c] = "created" /\ tpc[c] # "wait"
       /\ flags' = [flags EXCEPT ![c] = @ \cup {e}]
       /\ UNCHANGED <<tpc, got, event, silent>>
    \/ /\ event[c] # "created"
       /\ UNCHANGED <<timeoutVars, eventVars>>

(* vTCPRCBinWorker creates the Event and the timeout task, whose creation
   may fail unnoticed. *)
StartWorker(c) ==
    /\ wpc[c] = "start"
    /\ wpc' = [wpc EXCEPT ![c] = "recv"]
    /\ event' = [event EXCEPT ![c] = "created"]
    /\ \E l \in {"pend", "end"} : tpc' = [tpc EXCEPT ![c] = l]
    /\ UNCHANGED <<serverVars, permits, sockets, clientfd, rx, got, silent,
                   flags, requests, leaked>>

(* recv reads from whatever connection the descriptor stands for. *)
RecvData(c) ==
    /\ wpc[c] = "recv" /\ sockets[clientfd[c]] # NoConn
    /\ rx' = [rx EXCEPT ![c] = sockets[clientfd[c]]]
    /\ wpc' = [wpc EXCEPT ![c] = "data"]
    /\ UNCHANGED <<serverVars, permits, sockets, clientfd, timeoutVars,
                   eventVars, requests, leaked>>

(* The client has closed, the descriptor is closed, or SO_RCVTIMEO is over. *)
RecvEnd(c) ==
    /\ wpc[c] = "recv"
    /\ wpc' = [wpc EXCEPT ![c] = "kill"]
    /\ UNCHANGED <<serverVars, permits, sockets, clientfd, rx, timeoutVars,
                   eventVars, requests, leaked>>

PostPeriodic(c) ==
    /\ wpc[c] = "data"
    /\ EventPost(c, PERIODIC)
    /\ wpc' = [wpc EXCEPT ![c] = "decode"]
    /\ UNCHANGED <<serverVars, permits, sockets, clientfd, rx, requests, leaked>>

(* TCPBin_decode answers itself, or queues a request for a device. *)
Decode(c) ==
    /\ wpc[c] = "decode"
    /\ requests' \in {requests, requests \cup {[from |-> rx[c], connHandle |-> clientfd[c]]}}
    /\ rx' = [rx EXCEPT ![c] = NoConn]
    /\ wpc' = [wpc EXCEPT ![c] = "recv"]
    /\ UNCHANGED <<serverVars, permits, sockets, clientfd, timeoutVars,
                   eventVars, leaked>>

PostKill(c) ==
    /\ wpc[c] = "kill"
    /\ EventPost(c, KILL)
    /\ wpc' = [wpc EXCEPT ![c] = "close"]
    /\ UNCHANGED <<serverVars, permits, sockets, clientfd, rx, requests, leaked>>

(* Mutant: the worker leaves the descriptor to its timeout task. *)
WorkerNoClose(c) ==
    /\ wpc[c] = "close"
    /\ wpc' = [wpc EXCEPT ![c] = "release"]
    /\ UNCHANGED <<serverVars, permits, sockets, clientfd, rx, timeoutVars,
                   eventVars, requests, leaked>>

WorkerClose(c) ==
    /\ wpc[c] = "close"
    /\ CloseFd(clientfd[c])
    /\ wpc' = [wpc EXCEPT ![c] = "release"]
    /\ UNCHANGED <<serverVars, permits, clientfd, rx, timeoutVars, eventVars,
                   requests, leaked>>

(* Mutant: the worker ends without posting the semaphore. *)
EndWithoutPost(c) ==
    /\ wpc[c] = "release"
    /\ wpc' = [wpc EXCEPT ![c] = "end"]
    /\ UNCHANGED <<serverVars, permits, sockets, clientfd, rx, timeoutVars,
                   eventVars, requests, leaked>>

ReleasePermit(c) ==
    /\ wpc[c] = "release"
    /\ permits' = permits + 1
    /\ wpc' = [wpc EXCEPT ![c] = "end"]
    /\ UNCHANGED <<serverVars, sockets, clientfd, rx, timeoutVars, eventVars,
                   requests, leaked>>
-----------------------------------------------------------------------------
(* Event_pend(DEVICE_ALL_EVENTS): takes every flag that is set, or waits. *)
TimeoutPend(c) ==
    /\ tpc[c] = "pend"
    /\ \/ /\ flags[c] = {}
          /\ tpc' = [tpc EXCEPT ![c] = "wait"]
          /\ UNCHANGED <<flags, got>>
       \/ /\ flags[c] # {}
          /\ got' = [got EXCEPT ![c] = flags[c]]
          /\ flags' = [flags EXCEPT ![c] = {}]
          /\ tpc' = [tpc EXCEPT ![c] = "run"]
    /\ UNCHANGED <<serverVars, permits, sockets, clientfd, workerVars, silent,
                   event, requests, leaked>>

(* Mutant: the pend waits forever, as the comment beside it has it. *)
TimeoutNever(c) == FALSE

(* TCPRCBINDEVICE_SOCKET_PERIOD without a flag. *)
TimeoutExpires(c) ==
    /\ tpc[c] = "wait"
    /\ silent' = [silent EXCEPT ![c] = TRUE]
    /\ tpc' = [tpc EXCEPT ![c] = "close"]
    /\ UNCHANGED <<serverVars, permits, sockets, clientfd, workerVars, got,
                   eventVars, requests, leaked>>

(* Mutant: any flag ends the loop. *)
TimeoutRunAny(c) ==
    /\ tpc[c] = "run"
    /\ tpc' = [tpc EXCEPT ![c] = "close"]
    /\ got' = [got EXCEPT ![c] = {}]
    /\ UNCHANGED <<serverVars, permits, sockets, clientfd, workerVars, silent,
                   eventVars, requests, leaked>>

(* With DEVICE_PERIODIC_EVT among the flags it pends again (and drops a
   DEVICE_APP_KILL_EVT that came with it), otherwise it leaves the loop. *)
TimeoutRun(c) ==
    /\ tpc[c] = "run"
    /\ tpc' = [tpc EXCEPT ![c] = IF PERIODIC \in got[c] THEN "pend" ELSE "close"]
    /\ got' = [got EXCEPT ![c] = {}]
    /\ UNCHANGED <<serverVars, permits, sockets, clientfd, workerVars, silent,
                   eventVars, requests, leaked>>

TimeoutClose(c) ==
    /\ tpc[c] = "close"
    /\ CloseFd(clientfd[c])
    /\ tpc' = [tpc EXCEPT ![c] = "delete"]
    /\ UNCHANGED <<serverVars, permits, clientfd, workerVars, got, silent,
                   eventVars, requests, leaked>>

TimeoutDelete(c) ==
    /\ tpc[c] = "delete"
    /\ event' = [event EXCEPT ![c] = "deleted"]
    /\ flags' = [flags EXCEPT ![c] = {}]
    /\ tpc' = [tpc EXCEPT ![c] = "end"]
    /\ UNCHANGED <<serverVars, permits, sockets, clientfd, workerVars, got,
                   silent, requests, leaked>>

(* The device has answered: vTCPRCBin_processApplicationMessage sends the
   response to connHandle. *)
Respond(r) ==
    /\ requests' = requests \ {r}
    /\ UNCHANGED <<serverVars, permits, sockets, clientfd, workerVars,
                   timeoutVars, eventVars, leaked>>
-----------------------------------------------------------------------------
Server == Listen \/ Accept \/ AcceptFails \/ CreateWorker \/ TakePermit \/ Reboot

Worker(c) ==
    \/ StartWorker(c) \/ RecvData(c) \/ RecvEnd(c) \/ PostPeriodic(c) \/ Decode(c)
    \/ PostKill(c) \/ WorkerClose(c) \/ ReleasePermit(c)

Timeout(c) == \/ TimeoutPend(c) \/ TimeoutExpires(c) \/ TimeoutRun(c)
              \/ TimeoutClose(c) \/ TimeoutDelete(c)

Next == \/ Server \/ Crash
        \/ \E c \in Conns : Worker(c) \/ Timeout(c)
        \/ \E r \in requests : Respond(r)

Spec == Init /\ [][Next]_vars

(* The tasks run; recv and Event_pend both time out.  No client has to
   connect, to send or to close. *)
Fairness == /\ WF_vars(TakePermit) /\ WF_vars(Reboot) /\ WF_vars(CreateWorker)
            /\ \A c \in Conns : WF_vars(Worker(c)) /\ WF_vars(Timeout(c))
FairSpec == Spec /\ Fairness
-----------------------------------------------------------------------------
WorkerLabels  == {"none", "start", "recv", "data", "decode", "kill", "close",
                  "release", "end"}
TimeoutLabels == {"none", "pend", "wait", "run", "close", "delete", "end"}

TypeOK ==
    /\ spc \in {"listen", "accept", "create", "pend", "shutdown"}
    /\ errorCounter \in 0..MaxErrors
    /\ accepted \in Conns \cup {NoConn}
    /\ permits \in 0..(Permits + 1)   \* a worker may end before it is counted
    /\ sockets \in [Fds -> Conns \cup {NoConn}]
    /\ clientfd \in [Conns -> Fds \cup {NoFd}]
    /\ wpc \in [Conns -> WorkerLabels] /\ rx \in [Conns -> Conns \cup {NoConn}]
    /\ tpc \in [Conns -> TimeoutLabels] /\ got \in [Conns -> SUBSET {PERIODIC, KILL}]
    /\ event \in [Conns -> {"none", "created", "deleted"}]
    /\ flags \in [Conns -> SUBSET {PERIODIC, KILL}]
    /\ silent \in [Conns -> BOOLEAN]
    /\ requests \in SUBSET [from : Conns, connHandle : Fds]
    /\ leaked \in Nat

(* The permits of the socket semaphore are conserved: each is available,
   held by a worker, or lost for good to a worker that could not be created.
   So at most one worker more than the semaphore allows is alive, and the
   server waits in vain only when every permit has been lost. *)
PermitsConserved ==
    permits + Cardinality(Active) + leaked = Permits + ServerOwes

(* A worker that has ended, and a client without a worker, leave no open
   socket behind: the table holds only connections that are being served. *)
SocketsReturned ==
    \A f \in Fds : sockets[f] # NoConn =>
        \/ sockets[f] \in Active
        \/ spc = "create" /\ sockets[f] = accepted

(* The Event is deleted under a worker that may still post it only when the
   client was silent: a worker that is killed posts it for the last time. *)
EventOutlivesWorker ==
    \A c \in Conns : wpc[c] \in {"recv", "data", "decode", "kill"} /\ ~silent[c]
                       => event[c] = "created"

(* connHandle is the handle of the relevant connection: a response goes to
   the client that asked, or to nobody. *)
ResponseToItsClient ==
    \A r \in requests : sockets[r.connHandle] \in {r.from, NoConn}

(* The timeout task ends after its worker, also when it took the KILL flag
   together with a PERIODIC flag and went on to pend. *)
TimeoutTaskEnds == \A c \in Conns : wpc[c] = "end" ~> tpc[c] = "end"

(* A server that waits for a permit gets one, unless all are lost or a
   client keeps its worker busy. *)
ServerServes ==
    (spc = "pend" /\ leaked <= Permits)
      ~> (spc # "pend" \/ \E c \in Conns : wpc[c] = "data")
=============================================================================

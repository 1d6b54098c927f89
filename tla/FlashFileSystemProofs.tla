----------------------- MODULE FlashFileSystemProofs ------------------------
(***************************************************************************)
(* Proofs about FlashFileSystem, for any number of tasks, files and        *)
(* descriptions.  The inductive invariant is IInv: the types, what the     *)
(* label of a task says of the request it serves (OpInv), and how the      *)
(* labels, the semaphore, its queue and the gate hang together (LockInv).  *)
(***************************************************************************)
EXTENDS FlashFileSystem, FiniteSetTheorems, TLAPS

OpInv ==
    \A t \in Tasks :
      /\ pc[t] \in {"openw", "write"} => op[t] \in [kind : {"setFile"}, file : Files, info : Infos]
      /\ pc[t] = "remove" => op[t] \in [kind : {"removeFile"}, file : Files]

LockInv ==
    /\ \A t \in Tasks : InGate(t) <=> gate = t
    /\ \A t, u \in Tasks : Holds(t) /\ Holds(u) => t = u
    /\ (\E t \in Tasks : Holds(t)) => sem = 0
    /\ opened /\ (\A t \in Tasks : ~Holds(t)) => sem = 1
    /\ sem = 1 => semQ = <<>>
    /\ \A i \in 1..Len(semQ) : pc[semQ[i]] = "blocked"
    /\ \A i, j \in 1..Len(semQ) : semQ[i] = semQ[j] => i = j
    /\ ~opened => /\ sem = 0 /\ semQ = <<>>
                  /\ \A t \in Tasks : ~Holds(t)
                  /\ \A t \in Remotes : pc[t] = "idle"
    /\ opened <=> pc[InitTask] \notin {"init", "open", "fault"}
    /\ opened \/ pc[InitTask] = "open" => initialized

IInv == TypeOK /\ OpInv /\ LockInv
-----------------------------------------------------------------------------
(* The labels a request leads to after the gate and after the mount. *)
LEMMA FirstLabelType ==
    ASSUME NEW r PROVE FirstLabel(r) \in {"locked", "status", "format", "mount"}
BY DEF FirstLabel

LEMMA WorkLabelType ==
    ASSUME NEW r
    PROVE  /\ WorkLabel(r) \in {"stat", "count", "openw", "remove", "opendir"}
           /\ WorkLabel(r) = "openw" => r.kind = "setFile"
           /\ WorkLabel(r) = "remove" => r.kind = "removeFile"
BY DEF WorkLabel

LEMMA ListedFinite ==
    ASSUME TypeOK PROVE Cardinality(Listed) \in Nat
<1>1. IsFiniteSet(Files)
  BY ConstantsAssumption
<1>2. Listed \subseteq Files
  BY DEF Listed
<1>3. IsFiniteSet(Listed)
  BY <1>1, <1>2, FS_Subset
<1>4. QED
  BY <1>3, FS_CardinalityType

LEMMA TypeInit == Init => TypeOK
<1> SUFFICES ASSUME Init PROVE TypeOK
  OBVIOUS
<1>1. BootLabels \in [Tasks -> Labels]
  BY DEF BootLabels, Labels
<1>2. BootRequests \in [Tasks -> Requests \cup {NoOp, StartupRequest}]
  BY DEF BootRequests
<1>3. NoSizes \in [Tasks -> Nat]
  BY DEF NoSizes
<1>4. semQ \in Seq(Tasks) /\ sem \in {0, 1} /\ gate \in Tasks \cup {NoTask}
  BY DEF Init
<1>5. /\ iter \in SUBSET Files /\ devInfo \in Infos \cup {NoInfo}
      /\ devices \in SUBSET [file : Files, info : Infos]
  BY DEF Init
<1>6. failed \in BOOLEAN /\ initialized \in BOOLEAN /\ opened \in BOOLEAN
      /\ mounted \in BOOLEAN /\ formatted \in BOOLEAN
  BY DEF Init
<1>7. flash \in [Files -> Contents]
  BY DEF Init
<1>8. pc = BootLabels /\ op = BootRequests /\ size = NoSizes
  BY DEF Init
<1>9. QED
  BY <1>1, <1>2, <1>3, <1>4, <1>5, <1>6, <1>7, <1>8 DEF TypeOK

(* The same for the state after a reset. *)
LEMMA TypeRestart == TypeOK /\ Restart => TypeOK'
<1> SUFFICES ASSUME TypeOK, Restart PROVE TypeOK'
  OBVIOUS
<1>1. BootLabels \in [Tasks -> Labels]
  BY DEF BootLabels, Labels
<1>2. BootRequests \in [Tasks -> Requests \cup {NoOp, StartupRequest}]
  BY DEF BootRequests
<1>3. NoSizes \in [Tasks -> Nat]
  BY DEF NoSizes
<1>4. semQ' \in Seq(Tasks) /\ sem' \in {0, 1} /\ gate' \in Tasks \cup {NoTask}
  BY DEF Restart
<1>5. /\ iter' \in SUBSET Files /\ devInfo' \in Infos \cup {NoInfo}
      /\ devices' \in SUBSET [file : Files, info : Infos]
  BY DEF Restart
<1>6. failed' \in BOOLEAN /\ initialized' \in BOOLEAN /\ opened' \in BOOLEAN
      /\ mounted' \in BOOLEAN
  BY DEF Restart
<1>7. flash' \in [Files -> Contents] /\ formatted' \in BOOLEAN
  BY DEF Restart, TypeOK, media
<1>8. pc' = BootLabels /\ op' = BootRequests /\ size' = NoSizes
  BY DEF Restart
<1>9. QED
  BY <1>1, <1>2, <1>3, <1>4, <1>5, <1>6, <1>7, <1>8 DEF TypeOK

(* A step that moves one task between labels keeps the labels typed. *)
LEMMA TypeGoto ==
    ASSUME TypeOK, NEW t \in Tasks, NEW l \in Labels, Goto(t, l)
    PROVE  pc' \in [Tasks -> Labels]
BY DEF TypeOK, Goto

(* Every step of an operation keeps the types. *)
LEMMA TypeOperation ==
    ASSUME TypeOK, OpInv, NEW t \in Tasks, Operation(t)
    PROVE  TypeOK'
<1> USE ConstantsAssumption
<1>1. CASE Pend(t)
  <2>1. pc' \in [Tasks -> Labels]
    BY <1>1, TypeGoto DEF Pend, Labels, HoldLabels
  <2>2. Append(semQ, t) \in Seq(Tasks)
    BY DEF TypeOK
  <2>3. semQ' \in Seq(Tasks) /\ sem' \in {0, 1}
    <3>1. \/ sem' = 0 /\ semQ' = semQ
          \/ sem' = 0 /\ semQ' = Append(semQ, t)
      BY <1>1 DEF Pend
    <3>2. QED
      BY <3>1, <2>2 DEF TypeOK
  <2>4. QED
    BY <1>1, <2>1, <2>3 DEF TypeOK, Pend, media, object, startup
<1>2. CASE Enter(t)
  BY <1>2, FirstLabelType, TypeGoto DEF TypeOK, Enter, Labels, HoldLabels, GateLabels, media, object, locks, startup
<1>3. CASE Mount(t)
  BY <1>3, WorkLabelType, TypeGoto DEF TypeOK, Mount, Labels, HoldLabels, GateLabels, media, object, locks, startup
<1>4. CASE MountFormat(t)
  BY <1>4, TypeGoto DEF TypeOK, MountFormat, Labels, HoldLabels, GateLabels, media, object, locks, startup, EraseMedia, Contents
<1>5. CASE MountAgain(t)
  BY <1>5, WorkLabelType, TypeGoto DEF TypeOK, MountAgain, Labels, HoldLabels, GateLabels, media, object, locks, startup
<1>6. CASE Unmount(t)
  BY <1>6, TypeGoto DEF TypeOK, Unmount, Labels, HoldLabels, GateLabels, media, object, locks, startup
<1>7. CASE Leave(t)
  BY <1>7, TypeGoto DEF TypeOK, Leave, Labels, HoldLabels, GateLabels, media, object, locks, startup
<1>8. CASE GetStatus(t)
  BY <1>8, TypeGoto DEF TypeOK, GetStatus, Labels, HoldLabels, GateLabels, media, object, locks, startup
<1>9. CASE Format(t)
  BY <1>9, TypeGoto DEF TypeOK, Format, Labels, HoldLabels, GateLabels, media, object, locks, startup, EraseMedia, Contents
<1>10. CASE FormatMount(t)
  BY <1>10, TypeGoto DEF TypeOK, FormatMount, Labels, HoldLabels, GateLabels, media, object, locks, startup
<1>11. CASE StatFile(t)
  <2>1. pc' \in [Tasks -> Labels]
    BY <1>11, TypeGoto DEF StatFile, Labels, HoldLabels, GateLabels
  <2>2. size' \in [Tasks -> Nat]
    <3>1. CASE size' = size
      BY <3>1 DEF TypeOK
    <3>2. CASE size' = [size EXCEPT ![t] = IF flash[op[t].file] = Empty THEN 0 ELSE 1]
      <4>1. (IF flash[op[t].file] = Empty THEN 0 ELSE 1) \in Nat
        OBVIOUS
      <4>2. QED
        BY <3>2, <4>1 DEF TypeOK
    <3>3. QED
      BY <1>11, <3>1, <3>2 DEF StatFile
  <2>3. QED
    BY <1>11, <2>1, <2>2 DEF TypeOK, StatFile, media, object, locks, startup
<1>12. CASE ReadFile(t)
  BY <1>12, TypeGoto DEF TypeOK, ReadFile, Labels, HoldLabels, GateLabels, media, object, locks, startup
<1>13. CASE CountEntries(t)
  BY <1>13, ListedFinite, TypeGoto DEF TypeOK, CountEntries, Labels, HoldLabels, GateLabels, media, object, locks, startup
<1>14. CASE FillEntries(t)
  BY <1>14, TypeGoto DEF TypeOK, FillEntries, Labels, HoldLabels, GateLabels, media, object, locks, startup
<1>15. CASE OpenForWrite(t)
  BY <1>15, TypeGoto DEF TypeOK, OpenForWrite, Labels, HoldLabels, GateLabels, media, object, locks, startup, Contents
<1>16. CASE WriteFile(t)
  BY <1>16, TypeGoto DEF TypeOK, WriteFile, Labels, HoldLabels, GateLabels, media, object, locks, startup, Contents, OpInv
<1>17. CASE RemoveFile(t)
  BY <1>17, TypeGoto DEF TypeOK, RemoveFile, Labels, HoldLabels, GateLabels, media, object, locks, startup, Contents
<1>18. CASE OpenDir(t)
  BY <1>18, TypeGoto DEF TypeOK, OpenDir, Labels, HoldLabels, GateLabels, media, object, locks, startup
<1>19. CASE ReadEntry(t)
  <2>1. PICK f \in iter : ReadEntry(t)!2!(f)
    BY <1>19 DEF ReadEntry
  <2>2. f \in Files /\ iter' \in SUBSET Files
    BY <2>1 DEF TypeOK
  <2>3. devInfo' \in Infos \cup {NoInfo}
    BY <2>1, <2>2 DEF TypeOK, Listed
  <2>4. failed' \in BOOLEAN
    BY <2>1, ZenonT(30) DEF TypeOK
  <2>5. devices' \in SUBSET [file : Files, info : Infos]
    <3>1. CASE devices' = devices
      BY <3>1 DEF TypeOK
    <3>2. CASE devInfo' \in Loadable /\ devices' = devices \cup {[file |-> f, info |-> devInfo']}
      <4>1. [file |-> f, info |-> devInfo'] \in [file : Files, info : Infos]
        BY <3>2, <2>2
      <4>2. QED
        BY <3>2, <4>1 DEF TypeOK
    <3>3. QED
      BY <2>1, <3>1, <3>2 DEF LoadDevice
  <2>6. QED
    BY <1>19, <2>2, <2>3, <2>4, <2>5 DEF TypeOK, ReadEntry, media, object, locks
<1>20. CASE CloseDir(t)
  BY <1>20, TypeGoto DEF TypeOK, CloseDir, Labels, HoldLabels, GateLabels, media, object, locks, startup
<1>21. CASE Post(t)
  <2>1. size' \in [Tasks -> Nat] /\ op' \in [Tasks -> Requests \cup {NoOp, StartupRequest}]
    BY <1>21 DEF TypeOK, Post
  <2>2. CASE semQ = <<>>
    BY <1>21, <2>1, <2>2 DEF TypeOK, Post, Goto, Labels, media, object, locks, startup
  <2>3. CASE semQ # <<>>
    <3>1. Head(semQ) \in Tasks /\ Tail(semQ) \in Seq(Tasks)
      BY <2>3 DEF TypeOK
    <3>2. pc' \in [Tasks -> Labels]
      BY <1>21, <2>3, <3>1 DEF TypeOK, Post, Labels, HoldLabels
    <3>3. QED
      BY <1>21, <2>1, <2>3, <3>1, <3>2 DEF TypeOK, Post, media, object, locks, startup
  <2>4. QED
    BY <2>2, <2>3
<1>22. QED
  BY <1>1, <1>2, <1>3, <1>4, <1>5, <1>6, <1>7, <1>8, <1>9, <1>10, <1>11, <1>12, <1>13, <1>14, <1>15, <1>16, <1>17, <1>18, <1>19, <1>20, <1>21 DEF Operation
-----------------------------------------------------------------------------
(* The requests behind the labels that write. *)
LEMMA OpInvOperation ==
    ASSUME TypeOK, OpInv, NEW t \in Tasks, Operation(t)
    PROVE  OpInv'
<1>1. CASE Mount(t) \/ MountAgain(t)
  <2>1. op' = op
    BY <1>1 DEF Mount, MountAgain, media, object, locks, startup
  <2>2. /\ pc'[t] = "openw" => op[t].kind = "setFile"
        /\ pc'[t] = "remove" => op[t].kind = "removeFile"
        /\ pc'[t] # "write"
    BY <1>1, WorkLabelType DEF Mount, MountAgain, Goto, TypeOK
  <2>3. /\ op[t].kind = "setFile" => op[t] \in [kind : {"setFile"}, file : Files, info : Infos]
        /\ op[t].kind = "removeFile" => op[t] \in [kind : {"removeFile"}, file : Files]
    BY DEF TypeOK, Requests, NoOp, StartupRequest
  <2>4. \A u \in Tasks \ {t} : pc'[u] = pc[u]
    BY <1>1 DEF Mount, MountAgain, Goto, TypeOK
  <2>5. QED
    BY <2>1, <2>2, <2>3, <2>4 DEF OpInv
<1>2. CASE Post(t)
  <2>1. \A u \in Tasks : pc'[u] \in {"openw", "write", "remove"} => pc'[u] = pc[u] /\ op'[u] = op[u]
    <3>1. CASE semQ = <<>>
      BY <1>2, <3>1 DEF Post, Goto, TypeOK
    <3>2. CASE semQ # <<>>
      <4>1. Head(semQ) \in Tasks
        BY <3>2 DEF TypeOK
      <4>2. pc' = [pc EXCEPT ![t] = "idle", ![Head(semQ)] = "enter"]
        BY <1>2, <3>2 DEF Post
      <4>3. op' = [op EXCEPT ![t] = NoOp]
        BY <1>2 DEF Post
      <4>4. QED
        BY <4>1, <4>2, <4>3 DEF TypeOK
    <3>3. QED
      BY <3>1, <3>2
  <2>2. QED
    BY <2>1 DEF OpInv
<1>3. CASE OpenForWrite(t)
  BY <1>3 DEF OpenForWrite, OpInv, Goto, TypeOK
<1>4. CASE ReadEntry(t)
  BY <1>4 DEF ReadEntry, OpInv
<1>5. CASE Enter(t)
  <2>1. pc'[t] \in {"locked", "status", "format", "mount"} /\ op' = op
    BY <1>5, FirstLabelType DEF Enter, Goto, TypeOK
  <2>2. \A u \in Tasks \ {t} : pc'[u] = pc[u]
    BY <1>5 DEF Enter, Goto, TypeOK
  <2>3. QED
    BY <2>1, <2>2 DEF OpInv
<1>6. CASE /\ op' = op
           /\ \E l \in Labels \ {"openw", "write", "remove"} : Goto(t, l)
  BY <1>6 DEF OpInv, Goto, TypeOK
<1>7. QED
  BY <1>1, <1>2, <1>3, <1>4, <1>5, <1>6
     DEF Operation, Pend, MountFormat, Unmount, Leave, GetStatus, Format,
         FormatMount, StatFile, ReadFile, CountEntries, FillEntries, WriteFile,
         RemoveFile, OpenDir, CloseDir, Labels, HoldLabels, GateLabels
-----------------------------------------------------------------------------
(* A step inside the gate that leaves the locks alone. *)
LEMMA LockInvInside ==
    ASSUME TypeOK, LockInv, NEW t \in Tasks, InGate(t),
           NEW l \in GateLabels, Goto(t, l), UNCHANGED <<locks, object>>
    PROVE  LockInv'
<1>1. pc'[t] \in GateLabels /\ pc[t] \in GateLabels
  BY DEF Goto, TypeOK, InGate
<1>2. \A u \in Tasks : u # t => pc'[u] = pc[u]
  BY DEF Goto, TypeOK
<1>3. \A u \in Tasks : /\ InGate(u)' <=> InGate(u)
                       /\ Holds(u)' <=> Holds(u)
                       /\ pc[u] = "blocked" <=> pc'[u] = "blocked"
  BY <1>1, <1>2 DEF InGate, Holds, HoldLabels, GateLabels
<1>4. \A i \in 1..Len(semQ) : semQ[i] \in Tasks
  BY DEF TypeOK
<1>5. InitTask \in Tasks /\ Remotes \subseteq Tasks
  BY DEF Tasks
<1>6. opened
  BY <1>1 DEF LockInv, Holds, HoldLabels
<1>7. pc'[InitTask] \notin {"init", "open", "fault"}
  BY <1>1, <1>2, <1>5, <1>6 DEF LockInv, GateLabels
<1>8. UNCHANGED <<sem, semQ, gate, opened, initialized>>
  BY DEF locks, object
<1>9. QED
  BY <1>3, <1>4, <1>6, <1>7, <1>8 DEF LockInv

LEMMA LockInvPend ==
    ASSUME TypeOK, LockInv, NEW t \in Tasks, Pend(t)
    PROVE  LockInv'
<1>1. pc[t] = "pend" /\ UNCHANGED <<gate, opened, initialized>>
  BY DEF Pend, object
<1>2. InitTask \in Tasks /\ Remotes \subseteq Tasks
  BY DEF Tasks
<1>3. opened
  BY <1>1, <1>2 DEF LockInv, Tasks
<1>4. \A i \in 1..Len(semQ) : semQ[i] \in Tasks /\ semQ[i] # t
  BY <1>1 DEF LockInv, TypeOK
<1>5. \A u \in Tasks : u # t => pc'[u] = pc[u]
  BY DEF Pend, Goto, TypeOK
<1>6. ~Holds(t) /\ ~InGate(t)
  BY <1>1 DEF Holds, InGate, HoldLabels, GateLabels
<1>7. CASE sem = 1
  <2>1. pc'[t] = "enter" /\ sem' = 0 /\ semQ' = semQ
    BY <1>7 DEF Pend, Goto, TypeOK
  <2>2. \A u \in Tasks : ~Holds(u)
    BY <1>7 DEF LockInv
  <2>3. \A u \in Tasks : InGate(u)' <=> InGate(u)
    BY <2>1, <1>5, <1>6 DEF InGate, GateLabels
  <2>4. \A u \in Tasks : Holds(u)' <=> u = t
    BY <2>1, <2>2, <1>5 DEF Holds, HoldLabels
  <2>5. semQ' = <<>>
    BY <1>7, <2>1 DEF LockInv
  <2>6. pc'[InitTask] \notin {"init", "open", "fault"}
    BY <2>1, <1>2, <1>3, <1>5 DEF LockInv
  <2>7. QED
    BY <1>1, <1>3, <2>1, <2>3, <2>4, <2>5, <2>6 DEF LockInv
<1>8. CASE sem = 0
  <2>1. pc'[t] = "blocked" /\ sem' = 0 /\ semQ' = Append(semQ, t)
    BY <1>8 DEF Pend, Goto, TypeOK
  <2>2. \A u \in Tasks : /\ InGate(u)' <=> InGate(u)
                         /\ Holds(u)' <=> Holds(u)
    BY <2>1, <1>5, <1>6 DEF InGate, Holds, GateLabels, HoldLabels
  <2>3. semQ \in Seq(Tasks)
    BY DEF TypeOK
  <2>4. /\ Len(semQ') = Len(semQ) + 1 /\ Len(semQ) \in Nat
        /\ \A i \in 1..Len(semQ) : semQ'[i] = semQ[i]
        /\ semQ'[Len(semQ) + 1] = t
    BY <2>1, <2>3
  <2>5. \A i \in 1..Len(semQ') : pc'[semQ'[i]] = "blocked"
    BY <2>1, <2>4, <1>4, <1>5 DEF LockInv
  <2>6. \A i, j \in 1..Len(semQ') : semQ'[i] = semQ'[j] => i = j
    BY <2>4, <1>4 DEF LockInv
  <2>7. pc'[InitTask] \notin {"init", "open", "fault"}
    BY <2>1, <1>2, <1>3, <1>5 DEF LockInv
  <2>8. QED
    BY <1>1, <1>3, <1>8, <2>1, <2>2, <2>5, <2>6, <2>7 DEF LockInv
<1>9. QED
  BY <1>7, <1>8 DEF TypeOK

LEMMA LockInvEnter ==
    ASSUME TypeOK, LockInv, NEW t \in Tasks, Enter(t)
    PROVE  LockInv'
<1>1. /\ pc[t] = "enter" /\ gate = NoTask /\ gate' = t
      /\ UNCHANGED <<sem, semQ, opened, initialized>>
  BY DEF Enter, object
<1>2. pc'[t] \in GateLabels
  BY FirstLabelType DEF Enter, Goto, TypeOK, GateLabels
<1>3. \A u \in Tasks : u # t => pc'[u] = pc[u]
  BY DEF Enter, Goto, TypeOK
<1>4. Holds(t)
  BY <1>1 DEF Holds, HoldLabels
<1>5. \A u \in Tasks : ~InGate(u)
  BY <1>1, ConstantsAssumption DEF LockInv, Tasks
<1>6. \A u \in Tasks : InGate(u)' <=> u = t
  BY <1>2, <1>3, <1>5 DEF InGate
<1>7. \A u \in Tasks : Holds(u)' <=> Holds(u)
  BY <1>2, <1>3, <1>4 DEF Holds, HoldLabels
<1>8. opened /\ InitTask \in Tasks
  BY <1>4 DEF LockInv, Tasks
<1>9. pc'[InitTask] \notin {"init", "open", "fault"}
  BY <1>2, <1>3, <1>8 DEF LockInv, GateLabels
<1>10. \A i \in 1..Len(semQ) : semQ[i] \in Tasks /\ semQ[i] # t
  BY <1>1 DEF LockInv, TypeOK
<1>11. QED
  BY <1>1, <1>3, <1>6, <1>7, <1>8, <1>9, <1>10 DEF LockInv

LEMMA LockInvLeave ==
    ASSUME TypeOK, LockInv, NEW t \in Tasks, Leave(t)
    PROVE  LockInv'
<1>1. /\ pc[t] = "leave" /\ pc'[t] = "post" /\ gate' = NoTask
      /\ UNCHANGED <<sem, semQ, opened, initialized>>
  BY DEF Leave, object, Goto, TypeOK
<1>2. \A u \in Tasks : u # t => pc'[u] = pc[u]
  BY DEF Leave, Goto, TypeOK
<1>3. InGate(t) /\ Holds(t)
  BY <1>1 DEF InGate, Holds, HoldLabels, GateLabels
<1>4. \A u \in Tasks : InGate(u) => u = t
  BY <1>3 DEF LockInv
<1>5. \A u \in Tasks : ~InGate(u)' /\ gate' # u
  BY <1>1, <1>2, <1>4, ConstantsAssumption DEF InGate, GateLabels, Tasks
<1>6. \A u \in Tasks : Holds(u)' <=> Holds(u)
  BY <1>1, <1>2, <1>3 DEF Holds, HoldLabels
<1>7. opened /\ InitTask \in Tasks
  BY <1>3 DEF LockInv, Tasks
<1>8. pc'[InitTask] \notin {"init", "open", "fault"}
  BY <1>1, <1>2, <1>7 DEF LockInv
<1>9. \A i \in 1..Len(semQ) : semQ[i] \in Tasks /\ semQ[i] # t
  BY <1>1 DEF LockInv, TypeOK
<1>10. QED
  BY <1>1, <1>2, <1>5, <1>6, <1>7, <1>8, <1>9 DEF LockInv

LEMMA LockInvPost ==
    ASSUME TypeOK, LockInv, NEW t \in Tasks, Post(t)
    PROVE  LockInv'
<1>1. pc[t] = "post" /\ UNCHANGED <<gate, opened, initialized>>
  BY DEF Post, object
<1>2. Holds(t) /\ ~InGate(t)
  BY <1>1 DEF Holds, InGate, HoldLabels, GateLabels
<1>3. opened /\ InitTask \in Tasks /\ sem = 0
  BY <1>2 DEF LockInv, Tasks
<1>4. \A u \in Tasks : u # t => ~Holds(u) /\ ~InGate(u)
  BY <1>2 DEF LockInv, Holds, InGate, HoldLabels
<1>5. CASE semQ = <<>>
  <2>1. pc'[t] = "idle" /\ sem' = 1 /\ semQ' = <<>>
    BY <1>5 DEF Post, Goto, TypeOK
  <2>2. \A u \in Tasks : u # t => pc'[u] = pc[u]
    BY <1>5 DEF Post, Goto, TypeOK
  <2>3. \A u \in Tasks : ~Holds(u)' /\ ~InGate(u)'
    BY <2>1, <2>2, <1>4 DEF Holds, InGate, HoldLabels, GateLabels
  <2>4. \A u \in Tasks : gate # u
    BY <1>2, <1>4 DEF LockInv
  <2>5. pc'[InitTask] \notin {"init", "open", "fault"}
    BY <2>1, <2>2, <1>3 DEF LockInv
  <2>6. QED
    BY <1>1, <1>3, <2>1, <2>3, <2>4, <2>5 DEF LockInv
<1>6. CASE semQ # <<>>
  <2> DEFINE h == Head(semQ)
  <2>1. /\ semQ \in Seq(Tasks) /\ h \in Tasks /\ h = semQ[1] /\ 1 \in 1..Len(semQ)
        /\ semQ' = Tail(semQ) /\ sem' = 0
    BY <1>3, <1>6 DEF Post, TypeOK
  <2>2. pc[h] = "blocked" /\ h # t
    BY <2>1, <1>1 DEF LockInv
  <2>3. pc' = [pc EXCEPT ![t] = "idle", ![h] = "enter"]
    BY <1>6 DEF Post
  <2>4. pc'[t] = "idle" /\ pc'[h] = "enter"
    BY <2>1, <2>2, <2>3 DEF TypeOK
  <2>5. \A u \in Tasks : u # t /\ u # h => pc'[u] = pc[u]
    BY <2>1, <2>3 DEF TypeOK
  <2>6. \A u \in Tasks : ~InGate(u)' /\ (Holds(u)' <=> u = h)
    BY <2>4, <2>5, <1>4 DEF Holds, InGate, HoldLabels, GateLabels
  <2>7. \A u \in Tasks : gate # u
    BY <1>2, <1>4 DEF LockInv
  <2>8. /\ Len(semQ) \in Nat /\ Len(semQ') = Len(semQ) - 1
        /\ \A i \in 1..Len(semQ') : semQ'[i] = semQ[i + 1]
    BY <2>1, <1>6
  <2>9. \A i \in 1..Len(semQ') : semQ'[i] \in Tasks /\ semQ'[i] # h /\ semQ'[i] # t
                                   /\ pc[semQ'[i]] = "blocked"
    BY <2>1, <2>8, <1>1 DEF LockInv
  <2>10. \A i \in 1..Len(semQ') : pc'[semQ'[i]] = "blocked"
    BY <2>5, <2>9
  <2>11. \A i, j \in 1..Len(semQ') : semQ'[i] = semQ'[j] => i = j
    BY <2>8 DEF LockInv
  <2>12. pc'[InitTask] \notin {"init", "open", "fault"}
    BY <2>4, <2>5, <1>3 DEF LockInv
  <2>13. QED
    BY <1>1, <1>3, <2>1, <2>6, <2>7, <2>10, <2>11, <2>12 DEF LockInv
<1>7. QED
  BY <1>5, <1>6

LEMMA LockInvOperation ==
    ASSUME TypeOK, LockInv, NEW t \in Tasks, Operation(t)
    PROVE  LockInv'
<1>1. CASE ReadEntry(t)
  <2>1. UNCHANGED <<locks, object, pc>>
    BY <1>1 DEF ReadEntry, locks, object
  <2>2. QED
    BY <2>1 DEF LockInv, locks, object, Holds, InGate
<1>2. CASE Mount(t) \/ MountAgain(t)
  BY <1>2, WorkLabelType, LockInvInside
     DEF Mount, MountAgain, InGate, GateLabels
<1>3. CASE \/ MountFormat(t) \/ Unmount(t) \/ GetStatus(t) \/ Format(t)
           \/ FormatMount(t) \/ StatFile(t) \/ ReadFile(t) \/ CountEntries(t)
           \/ FillEntries(t) \/ OpenForWrite(t) \/ WriteFile(t)
           \/ RemoveFile(t) \/ OpenDir(t) \/ CloseDir(t)
  BY <1>3, LockInvInside
     DEF MountFormat, Unmount, GetStatus, Format, FormatMount, StatFile,
         ReadFile, CountEntries, FillEntries, OpenForWrite, WriteFile,
         RemoveFile, OpenDir, CloseDir, InGate, GateLabels
<1>4. QED
  BY <1>1, <1>2, <1>3, LockInvPend, LockInvEnter, LockInvLeave, LockInvPost
     DEF Operation
-----------------------------------------------------------------------------
LEMMA InvInit == Init => IInv
<1> SUFFICES ASSUME Init PROVE IInv
  OBVIOUS
<1>1. TypeOK
  BY TypeInit
<1>2. \A t \in Tasks : pc[t] = IF t = InitTask THEN "init" ELSE "idle"
  BY DEF Init, BootLabels
<1>3. OpInv
  BY <1>2 DEF OpInv
<1>4. \A t \in Tasks : ~Holds(t) /\ ~InGate(t)
  BY <1>2 DEF Holds, InGate, HoldLabels, GateLabels
<1>5. InitTask \in Tasks /\ Remotes \subseteq Tasks /\ InitTask \notin Remotes
      /\ NoTask \notin Tasks
  BY ConstantsAssumption DEF Tasks
<1>6. sem = 0 /\ semQ = <<>> /\ gate = NoTask /\ ~opened
  BY DEF Init
<1>7. LockInv
  BY <1>2, <1>4, <1>5, <1>6 DEF LockInv
<1>8. QED
  BY <1>1, <1>3, <1>7 DEF IInv

LEMMA InvRestart == IInv /\ Restart => IInv'
<1> SUFFICES ASSUME IInv, Restart PROVE IInv'
  OBVIOUS
<1>1. TypeOK'
  BY TypeRestart DEF IInv
<1>2. \A t \in Tasks : pc'[t] = IF t = InitTask THEN "init" ELSE "idle"
  BY DEF Restart, BootLabels
<1>3. OpInv'
  BY <1>2 DEF OpInv
<1>4. \A t \in Tasks : ~Holds(t)' /\ ~InGate(t)'
  BY <1>2 DEF Holds, InGate, HoldLabels, GateLabels
<1>5. InitTask \in Tasks /\ Remotes \subseteq Tasks /\ InitTask \notin Remotes
      /\ NoTask \notin Tasks
  BY ConstantsAssumption DEF Tasks
<1>6. sem' = 0 /\ semQ' = <<>> /\ gate' = NoTask /\ ~opened'
  BY DEF Restart
<1>7. LockInv'
  BY <1>2, <1>4, <1>5, <1>6 DEF LockInv
<1>8. QED
  BY <1>1, <1>3, <1>7 DEF IInv

LEMMA InvStartup == IInv /\ (SFFSInit \/ SFFSOpen) => IInv'
<1> SUFFICES ASSUME IInv, SFFSInit \/ SFFSOpen PROVE IInv'
  OBVIOUS
<1> USE DEF IInv
<1>1. pc[InitTask] \in {"init", "open"} /\ InitTask \in Tasks /\ InitTask \notin Remotes
      /\ NoTask \notin Tasks
  BY ConstantsAssumption DEF SFFSInit, SFFSOpen, Tasks
<1>2. PICK l \in {"open", "fault", "pend"} : pc' = [pc EXCEPT ![InitTask] = l]
  BY DEF SFFSInit, SFFSOpen, Goto
<1>3. pc'[InitTask] = l /\ \A t \in Tasks : t # InitTask => pc'[t] = pc[t]
  BY <1>1, <1>2 DEF TypeOK
<1>4. ~opened /\ sem = 0 /\ semQ = <<>> /\ \A t \in Tasks : ~Holds(t) /\ ~InGate(t)
  BY <1>1 DEF LockInv, Holds, InGate, HoldLabels
<1>5. \A t \in Tasks : ~Holds(t)' /\ ~InGate(t)'
  BY <1>3, <1>4 DEF Holds, InGate, HoldLabels, GateLabels
<1>6. OpInv'
  BY <1>3 DEF OpInv, SFFSInit, SFFSOpen
<1>7. gate = NoTask
  BY <1>4 DEF LockInv, TypeOK
<1>8. pc' \in [Tasks -> Labels]
  BY <1>2 DEF TypeOK, Labels
<1>9. CASE SFFSInit
  <2>1. initialized' \in BOOLEAN /\ UNCHANGED <<opened, sem, semQ, gate>>
    BY <1>9 DEF SFFSInit, locks
  <2>2. l \in {"open", "fault"} /\ (l = "open" => initialized')
    BY <1>1, <1>3, <1>9 DEF SFFSInit, Goto, TypeOK
  <2>3. TypeOK'
    BY <1>8, <1>9, <2>1 DEF TypeOK, SFFSInit, media, startup
  <2>4. \A t \in Remotes : pc'[t] = "idle"
    BY <1>1, <1>3, <1>4 DEF LockInv, Tasks
  <2>5. LockInv'
    BY <1>1, <1>3, <1>4, <1>5, <1>7, <2>1, <2>2, <2>4 DEF LockInv
  <2>6. QED
    BY <1>6, <2>3, <2>5
<1>10. CASE SFFSOpen
  <2>1. opened' = TRUE /\ sem' = 1 /\ semQ' = <<>> /\ gate' = NoTask
        /\ initialized' = initialized
    BY <1>4, <1>10 DEF SFFSOpen
  <2>2. pc[InitTask] = "open" /\ l = "pend"
    BY <1>1, <1>3, <1>10 DEF SFFSOpen, Goto, TypeOK
  <2>3. TypeOK'
    BY <1>8, <1>10, <2>1 DEF TypeOK, SFFSOpen, media, startup
  <2>4. initialized
    BY <1>4, <2>2 DEF LockInv
  <2>5. LockInv'
    BY <1>1, <1>3, <1>5, <2>1, <2>2, <2>4 DEF LockInv
  <2>6. QED
    BY <1>6, <2>3, <2>5
<1>11. QED
  BY <1>9, <1>10

LEMMA InvRequest == IInv /\ (\E t \in Tasks : Request(t)) => IInv'
<1> SUFFICES ASSUME IInv, NEW t \in Tasks, Request(t) PROVE IInv'
  OBVIOUS
<1> USE DEF IInv
<1>1. /\ pc[t] = "idle" /\ t # InitTask /\ pc[InitTask] = "idle"
      /\ UNCHANGED <<sem, semQ, gate, opened, initialized>>
  BY DEF Request, Running, locks, object
<1>2. pc'[t] = "pend" /\ \A u \in Tasks : u # t => pc'[u] = pc[u]
  BY DEF Request, Goto, TypeOK
<1>3. pc' \in [Tasks -> Labels]
  BY TypeGoto DEF Request, Labels
<1>4. op' \in [Tasks -> Requests \cup {NoOp, StartupRequest}]
  BY DEF Request, TypeOK
<1>5. TypeOK'
  BY <1>3, <1>4 DEF TypeOK, Request, media, object, locks, startup
<1>6. \A u \in Tasks : u # t => op'[u] = op[u]
  BY DEF Request, TypeOK
<1>7. OpInv'
  BY <1>2, <1>6 DEF OpInv
<1>8. \A u \in Tasks : (Holds(u)' <=> Holds(u)) /\ (InGate(u)' <=> InGate(u))
  BY <1>1, <1>2 DEF Holds, InGate, HoldLabels, GateLabels
<1>9. \A i \in 1..Len(semQ) : semQ[i] \in Tasks /\ semQ[i] # t
  BY <1>1 DEF LockInv, TypeOK
<1>10. opened /\ InitTask \in Tasks
  BY <1>1 DEF LockInv, Tasks
<1>11. LockInv'
  BY <1>1, <1>2, <1>8, <1>9, <1>10 DEF LockInv
<1>12. QED
  BY <1>5, <1>7, <1>11

LEMMA InvNext == IInv /\ [Next]_vars => IInv'
<1> SUFFICES ASSUME IInv, [Next]_vars PROVE IInv'
  OBVIOUS
<1>1. ASSUME NEW t \in Tasks, Operation(t) PROVE IInv'
  BY <1>1, TypeOperation, OpInvOperation, LockInvOperation DEF IInv
<1>2. CASE Restart
  BY <1>2, InvRestart
<1>3. CASE UNCHANGED vars
  BY <1>3 DEF IInv, vars, TypeOK, OpInv, LockInv, Holds, InGate
<1>4. QED
  BY <1>1, <1>2, <1>3, InvStartup, InvRequest DEF Next, Crash, Reboot

(* The inductive invariant holds in every reachable state. *)
THEOREM Invariance == Spec => []IInv
BY InvInit, InvNext, PTL DEF Spec

(* Type correctness. *)
THEOREM TypeCorrect == Spec => []TypeOK
BY Invariance, PTL DEF IInv

(* No operation on the flash ever runs inside another one, whatever the
   number of remote controllers that call xSFFS_* at the same time. *)
THEOREM OneHolder == Spec => []SingleHolder
<1>1. IInv => SingleHolder
  BY DEF IInv, LockInv, SingleHolder
<1>2. QED
  BY <1>1, Invariance, PTL

(* No path through an operation loses the semaphore hSFFS_semInitialized. *)
THEOREM SemaphoreKept == Spec => []SemaphoreNotLost
<1>1. IInv => SemaphoreNotLost
  BY DEF IInv, LockInv, SemaphoreNotLost
<1>2. QED
  BY <1>1, Invariance, PTL

(* hSFFS_gateMount is redundant: whoever enters it finds it free. *)
THEOREM GateFree == Spec => []GateUncontended
<1>1. IInv => GateUncontended
  <2> SUFFICES ASSUME IInv, NEW t \in Tasks, pc[t] = "enter" PROVE gate = NoTask
    BY DEF GateUncontended
  <2>1. Holds(t) /\ ~InGate(t)
    BY DEF Holds, InGate, HoldLabels, GateLabels
  <2>2. \A u \in Tasks : InGate(u) => Holds(u)
    BY DEF InGate, Holds, HoldLabels
  <2>3. \A u \in Tasks : gate # u
    BY <2>1, <2>2 DEF IInv, LockInv
  <2>4. QED
    BY <2>3 DEF IInv, TypeOK
<1>2. QED
  BY <1>1, Invariance, PTL
-----------------------------------------------------------------------------
(* The media change only in a step of a task that is inside the gate, and
   the task that has locked the memory takes no such step. *)
LEMMA MediaSteps ==
    ASSUME IInv, NEW t \in Tasks, Operation(t), ~(UNCHANGED media)
    PROVE  InGate(t) /\ pc[t] # "locked" /\ gate' = gate
BY DEF Operation, Pend, Enter, Mount, MountFormat, MountAgain, Unmount, Leave,
       Post, GetStatus, Format, FormatMount, StatFile, ReadFile, CountEntries,
       FillEntries, OpenForWrite, WriteFile, RemoveFile, OpenDir, ReadEntry,
       CloseDir, media, locks, InGate, GateLabels

LEMMA FrozenMedia == IInv /\ [Next]_vars => (Frozen => UNCHANGED media)
<1> SUFFICES ASSUME IInv, [Next]_vars, Frozen PROVE UNCHANGED media
  OBVIOUS
<1>1. PICK t \in Tasks : pc[t] = "locked"
  BY DEF Frozen
<1>2. InGate(t)
  BY <1>1 DEF InGate, GateLabels
<1>3. ASSUME NEW u \in Tasks, Operation(u) PROVE UNCHANGED media
  <2>1. InGate(u) => u = t
    BY <1>2 DEF IInv, LockInv, InGate, Holds, HoldLabels
  <2>2. QED
    BY <1>1, <1>3, <2>1, MediaSteps
<1>4. QED
  BY <1>3 DEF Next, SFFSInit, SFFSOpen, Request, Crash, Reboot, Restart, vars, media

(* Once the memory is locked for a reboot nothing writes the flash until the
   reset: the reset that follows cuts no write and no format. *)
THEOREM RebootLockFreezes == Spec => RebootLockFreezesFlash
<1>1. IInv /\ [Next]_vars => [Frozen => UNCHANGED media]_vars
  BY FrozenMedia
<1>2. QED
  BY <1>1, Invariance, PTL DEF Spec, RebootLockFreezesFlash
-----------------------------------------------------------------------------
LEMMA StoreInit == Init => Store!Init
BY DEF Init, Store!Init, BootLabels, Frozen, Tasks

(* Only Enter brings a task to "locked", and only a reset takes it away. *)
LEMMA FrozenKept ==
    ASSUME IInv, NEW t \in Tasks, Operation(t), ~Enter(t)
    PROVE  Frozen' = Frozen
<1>1. \A u \in Tasks : pc'[u] = "locked" <=> pc[u] = "locked"
  <2>1. CASE Post(t)
    <3>1. CASE semQ = <<>>
      BY <2>1, <3>1 DEF Post, Goto, IInv, TypeOK
    <3>2. CASE semQ # <<>>
      <4>1. Head(semQ) \in Tasks /\ pc[Head(semQ)] = "blocked"
        BY <3>2 DEF IInv, TypeOK, LockInv
      <4>2. pc' = [pc EXCEPT ![t] = "idle", ![Head(semQ)] = "enter"] /\ pc[t] = "post"
        BY <2>1, <3>2 DEF Post
      <4>3. QED
        BY <4>1, <4>2 DEF IInv, TypeOK
    <3>3. QED
      BY <3>1, <3>2
  <2>2. CASE ReadEntry(t)
    BY <2>2 DEF ReadEntry
  <2>3. CASE Mount(t) \/ MountAgain(t)
    BY <2>3, WorkLabelType DEF Mount, MountAgain, Goto, IInv, TypeOK
  <2>4. CASE pc[t] # "locked" /\ \E l \in Labels \ {"locked"} : Goto(t, l)
    BY <2>4 DEF Goto, IInv, TypeOK
  <2>5. QED
    BY <2>1, <2>2, <2>3, <2>4
       DEF Operation, Pend, MountFormat, Unmount, Leave, GetStatus, Format,
           FormatMount, StatFile, ReadFile, CountEntries, FillEntries,
           OpenForWrite, WriteFile, RemoveFile, OpenDir, CloseDir, Labels,
           HoldLabels, GateLabels
<1>2. QED
  BY <1>1 DEF Frozen

LEMMA InsideNotFrozen ==
    ASSUME IInv, NEW t \in Tasks, InGate(t), pc[t] # "locked"
    PROVE  ~Frozen /\ gate = t
BY DEF IInv, LockInv, Frozen, InGate, Holds, HoldLabels, GateLabels

LEMMA StoreOperation ==
    ASSUME IInv, NEW t \in Tasks, Operation(t)
    PROVE  [Store!Next]_(Store!vars)
<1>1. CASE Enter(t)
  <2>1. gate = NoTask /\ gate' = t /\ flash' = flash
    BY <1>1 DEF Enter, media
  <2>2. \A u \in Tasks : pc[u] # "locked"
    BY <2>1, ConstantsAssumption DEF IInv, LockInv, InGate, GateLabels, Tasks
  <2>3. \A u \in Tasks : u # t => pc'[u] = pc[u]
    BY <1>1 DEF Enter, Goto, IInv, TypeOK
  <2>4. CASE pc'[t] = "locked"
    <3>1. Frozen'
      BY <2>4 DEF Frozen
    <3>2. Store!Freeze(t)
      BY <2>1, <3>1 DEF Store!Freeze
    <3>3. QED
      BY <3>2 DEF Store!Next
  <2>5. CASE pc'[t] # "locked"
    <3>1. ~Frozen /\ Frozen' = Frozen
      BY <2>2, <2>3, <2>5 DEF Frozen
    <3>2. Store!Acquire(t)
      BY <2>1, <3>1 DEF Store!Acquire
    <3>3. QED
      BY <3>2 DEF Store!Next
  <2>6. QED
    BY <2>4, <2>5
<1>2. CASE Leave(t)
  <2>1. ~Frozen /\ gate = t /\ gate' = NoTask /\ flash' = flash
    BY <1>2, InsideNotFrozen DEF Leave, InGate, GateLabels, media
  <2>2. ~Enter(t)
    BY <1>2 DEF Leave, Enter
  <2>3. Frozen' = Frozen
    BY <2>2, FrozenKept
  <2>4. Store!Release(t)
    BY <2>1, <2>3 DEF Store!Release
  <2>5. QED
    BY <2>4 DEF Store!Next
<1>3. CASE MountFormat(t) \/ Format(t)
  <2>1. /\ ~Frozen /\ gate = t /\ gate' = gate /\ ~Enter(t)
        /\ flash' = [f \in Files |-> NoFile]
    BY <1>3, InsideNotFrozen
       DEF MountFormat, Format, Enter, EraseMedia, InGate, GateLabels, locks
  <2>2. Frozen' = Frozen
    BY <2>1, FrozenKept
  <2>3. Store!EraseAll(t)
    BY <2>1, <2>2 DEF Store!EraseAll, Store!EmptyStore
  <2>4. QED
    BY <2>3 DEF Store!Next
<1>4. CASE OpenForWrite(t) \/ WriteFile(t) \/ RemoveFile(t)
  <2>1. ~Frozen /\ gate = t /\ gate' = gate /\ ~Enter(t)
    BY <1>4, InsideNotFrozen
       DEF OpenForWrite, WriteFile, RemoveFile, Enter, InGate, GateLabels, locks
  <2>2. Frozen' = Frozen
    BY <2>1, FrozenKept
  <2>3. op[t].file \in Files
    BY <1>4 DEF OpenForWrite, WriteFile, RemoveFile, IInv, OpInv
  <2>4. \/ flash' = flash
        \/ \E c \in Contents : flash' = [flash EXCEPT ![op[t].file] = c]
    BY <1>4 DEF OpenForWrite, WriteFile, RemoveFile, Contents, IInv, OpInv
  <2>5. CASE flash' = flash
    BY <2>1, <2>2, <2>5 DEF Store!vars
  <2>6. CASE \E c \in Contents : flash' = [flash EXCEPT ![op[t].file] = c]
    <3>1. PICK f \in Files : f = op[t].file
      BY <2>3
    <3>2. Store!ChangeFile(t, f)
      BY <2>1, <2>2, <2>6, <3>1 DEF Store!ChangeFile
    <3>3. QED
      BY <3>2 DEF Store!Next
  <2>7. QED
    BY <2>4, <2>5, <2>6
<1>5. CASE /\ ~Enter(t) /\ UNCHANGED <<flash, gate>>
  BY <1>5, FrozenKept DEF Store!vars
<1>6. QED
  BY <1>1, <1>2, <1>3, <1>4, <1>5
     DEF Operation, Pend, Mount, MountAgain, Unmount, Post, GetStatus,
         FormatMount, StatFile, ReadFile, CountEntries, FillEntries, OpenDir,
         ReadEntry, CloseDir, media, locks

LEMMA StoreStep == IInv /\ [Next]_vars => [Store!Next]_(Store!vars)
<1> SUFFICES ASSUME IInv, [Next]_vars PROVE [Store!Next]_(Store!vars)
  OBVIOUS
<1>1. ASSUME NEW t \in Tasks, Operation(t) PROVE [Store!Next]_(Store!vars)
  BY <1>1, StoreOperation
<1>2. CASE Restart
  <2>1. gate' = NoTask /\ flash' = flash
    BY <1>2 DEF Restart, media
  <2>2. ~Frozen'
    BY <1>2 DEF Restart, BootLabels, Frozen
  <2>3. Store!Restart
    BY <2>1, <2>2 DEF Store!Restart
  <2>4. QED
    BY <2>3 DEF Store!Next
<1>3. CASE SFFSInit \/ SFFSOpen
  <2>1. flash' = flash /\ pc[InitTask] \in {"init", "open"} /\ InitTask \in Tasks
    BY <1>3 DEF SFFSInit, SFFSOpen, media, Tasks
  <2>2. gate = NoTask /\ gate' = NoTask
    <3>1. \A u \in Tasks : ~InGate(u)
      BY <2>1 DEF IInv, LockInv, InGate, Holds, HoldLabels
    <3>2. gate = NoTask
      BY <3>1 DEF IInv, LockInv, TypeOK
    <3>3. QED
      BY <1>3, <3>2 DEF SFFSInit, SFFSOpen, locks
  <2>3. \A u \in Tasks : pc'[u] = "locked" <=> pc[u] = "locked"
    BY <1>3 DEF SFFSInit, SFFSOpen, Goto, IInv, TypeOK
  <2>4. Frozen' = Frozen
    BY <2>3 DEF Frozen
  <2>5. QED
    BY <2>1, <2>2, <2>4 DEF Store!vars
<1>4. CASE \E t \in Tasks : Request(t)
  <2>1. UNCHANGED <<flash, gate>>
    BY <1>4 DEF Request, media, locks
  <2>2. \A u \in Tasks : pc'[u] = "locked" <=> pc[u] = "locked"
    BY <1>4 DEF Request, Goto, IInv, TypeOK
  <2>3. Frozen' = Frozen
    BY <2>2 DEF Frozen
  <2>4. QED
    BY <2>1, <2>3 DEF Store!vars
<1>5. CASE UNCHANGED vars
  BY <1>5 DEF vars, Store!vars, Frozen
<1>6. QED
  BY <1>1, <1>2, <1>3, <1>4, <1>5 DEF Next, Crash, Reboot

(* The file system implements the abstract store: one owner at a time, only
   the owner changes it, one file per step, and nobody after it is frozen. *)
THEOREM ImplementsStore == Spec => StoreSpec
<1>1. Spec => Store!Init /\ [][Store!Next]_(Store!vars)
  BY StoreInit, StoreStep, Invariance, PTL DEF Spec
<1>2. QED
  BY <1>1, PTL DEF StoreSpec, Store!Spec
-----------------------------------------------------------------------------
(* What the operations keep between their own calls.  Three further invariants,
   each of which needs that a task inside the gate is alone there (LockInv):
   SPIFFS is mounted only while a task is at work on it; a size kept from one
   call to the next is still the right one; and the devices started so far are
   those of the entries already read. *)
WorkLabels == {"stat", "read", "count", "fill", "openw", "write", "remove", "opendir",
               "readdir", "unmount"}
MountInv == mounted => \E t \in Tasks : pc[t] \in WorkLabels

SizeInv ==
    \A t \in Tasks :
      /\ pc[t] \in {"stat", "read"} => op[t].file \in Files
      /\ pc[t] = "fill" => size[t] = Cardinality(Listed)
      /\ pc[t] = "read" => size[t] = IF op[t].file \in Listed THEN 1 ELSE 0

DevicesOf(read) == {[file |-> f, info |-> flash[f]] :
                      f \in {g \in Listed \cap read : flash[g] \in Loadable}}
Before == {"init", "open", "pend", "blocked", "enter", "mount", "mformat", "remount", "opendir"}
StartInv ==
    /\ pc[InitTask] \in Before \cup {"readdir", "unmount", "leave", "post", "fault", "idle"}
    /\ pc[InitTask] # "idle" => /\ op[InitTask] = StartupRequest
                                /\ \A t \in Remotes : pc[t] = "idle"
    /\ pc[InitTask] \in Before => devices = {} /\ ~failed
    /\ pc[InitTask] = "readdir" /\ ~failed => devices = DevicesOf(Files \ iter)
    /\ pc[InitTask] = "unmount" /\ ~failed => devices = DevicesOf(Files)
    /\ pc[InitTask] \in {"leave", "post"} /\ ~failed => devices \in {{}, DevicesOf(Files)}

(* A task inside the gate is alone between pend and post. *)
LEMMA Alone ==
    ASSUME IInv, NEW t \in Tasks, NEW u \in Tasks, Holds(t), Holds(u)
    PROVE  t = u
BY DEF IInv, LockInv

LEMMA MountOperation ==
    ASSUME IInv, MountInv, NEW t \in Tasks, Operation(t)
    PROVE  MountInv'
<1> SUFFICES ASSUME mounted' PROVE \E u \in Tasks : pc'[u] \in WorkLabels
  BY DEF MountInv
<1>1. ASSUME pc'[t] \in WorkLabels PROVE \E u \in Tasks : pc'[u] \in WorkLabels
  BY <1>1
<1>2. ASSUME Holds(t), pc[t] \notin WorkLabels, mounted' = mounted PROVE FALSE
  <2>1. PICK u \in Tasks : pc[u] \in WorkLabels
    BY <1>2 DEF MountInv
  <2>2. Holds(u)
    BY <2>1 DEF WorkLabels, Holds, HoldLabels, GateLabels
  <2> QED
    BY <1>2, <2>1, <2>2, Alone
<1>3. CASE Pend(t)
  <2>1. mounted' = mounted /\ pc[t] = "pend" /\ \A u \in Tasks : u # t => pc'[u] = pc[u]
    BY <1>3 DEF Pend, Goto, IInv, TypeOK
  <2> QED
    BY <2>1 DEF MountInv, WorkLabels
<1>4. CASE Enter(t) \/ MountFormat(t) \/ Leave(t) \/ Post(t) \/ Format(t)
  BY <1>2, <1>4 DEF Enter, MountFormat, Leave, Post, Format, Holds, HoldLabels, GateLabels, WorkLabels
<1>5. CASE Mount(t) \/ MountAgain(t)
  <2>1. Goto(t, WorkLabel(op[t]))
    BY <1>5 DEF Mount, MountAgain
  <2> QED
    BY <1>1, <2>1, WorkLabelType DEF Goto, IInv, TypeOK, WorkLabels
<1>6. CASE Unmount(t)
  BY <1>6 DEF Unmount
<1>7. CASE ReadEntry(t)
  BY <1>1, <1>7 DEF ReadEntry, WorkLabels
<1>8. CASE \/ GetStatus(t) \/ FormatMount(t) \/ StatFile(t) \/ ReadFile(t) \/ CountEntries(t)
           \/ FillEntries(t) \/ OpenForWrite(t) \/ WriteFile(t) \/ RemoveFile(t)
           \/ OpenDir(t) \/ CloseDir(t)
  <2>1. \E l \in WorkLabels : Goto(t, l)
    BY <1>8 DEF GetStatus, FormatMount, StatFile, ReadFile, CountEntries, FillEntries,
                OpenForWrite, WriteFile, RemoveFile, OpenDir, CloseDir, WorkLabels
  <2> QED
    BY <1>1, <2>1 DEF Goto, IInv, TypeOK
<1> QED
  BY <1>3, <1>4, <1>5, <1>6, <1>7, <1>8 DEF Operation

LEMMA MountStep == IInv /\ MountInv /\ [Next]_vars => MountInv'
<1> SUFFICES ASSUME IInv, MountInv, [Next]_vars PROVE MountInv'
  OBVIOUS
<1>1. CASE Restart
  BY <1>1 DEF Restart, MountInv
<1>2. CASE SFFSInit \/ SFFSOpen \/ \E t \in Tasks : Request(t)
  <2>1. mounted' = mounted /\ \A u \in Tasks : pc[u] \in WorkLabels => pc'[u] = pc[u]
    BY <1>2 DEF SFFSInit, SFFSOpen, Request, Goto, IInv, TypeOK, WorkLabels, Tasks
  <2> QED
    BY <2>1 DEF MountInv
<1>3. CASE UNCHANGED vars
  BY <1>3 DEF vars, MountInv
<1> QED
  BY <1>1, <1>2, <1>3, MountOperation DEF Next, Crash, Reboot

(* SPIFFS is mounted only by the task that owns the gate, and each operation
   finds it unmounted: none ever runs on what another has left mounted. *)
THEOREM MountedInside == Spec => []MountedOnlyInside
<1>1. Init => MountInv
  BY DEF Init, MountInv
<1>2. IInv /\ MountInv => MountedOnlyInside
  <2> SUFFICES ASSUME IInv, MountInv PROVE MountedOnlyInside
    OBVIOUS
  <2>1. \A t \in Tasks : pc[t] \in WorkLabels => InGate(t) /\ gate = t /\ Holds(t)
    BY DEF IInv, LockInv, InGate, Holds, HoldLabels, GateLabels, WorkLabels
  <2>2. ASSUME NEW t \in Tasks, pc[t] \in {"mount", "status", "format"}, mounted PROVE FALSE
    <3>1. PICK u \in Tasks : pc[u] \in WorkLabels
      BY <2>2 DEF MountInv
    <3>2. Holds(t) /\ Holds(u)
      BY <2>1, <2>2, <3>1 DEF Holds, HoldLabels, GateLabels
    <3> QED
      BY <2>2, <3>1, <3>2, Alone DEF WorkLabels
  <2> QED
    BY <2>1, <2>2 DEF MountInv, MountedOnlyInside
<1> QED
  BY <1>1, <1>2, MountStep, Invariance, PTL DEF Spec
-----------------------------------------------------------------------------
(* A description in the flash is replaced as a whole: no step turns one into an
   empty file, with any number of tasks and whatever is cut by a reset. *)
THEOREM NeverTruncated == Spec => NoTruncation
<1>1. IInv /\ [Next]_vars => [\A f \in Files : flash[f] \in Infos => flash'[f] # Empty]_vars
  <2> SUFFICES ASSUME IInv, [Next]_vars, NEW f \in Files, flash[f] \in Infos
               PROVE  flash'[f] # Empty
    OBVIOUS
  <2>1. Empty \notin Infos /\ NoFile \notin Infos /\ NoFile # Empty
    BY ConstantsAssumption
  <2>2. CASE flash' = flash
    BY <2>1, <2>2
  <2>3. CASE flash' = [g \in Files |-> NoFile]
    BY <2>1, <2>3
  <2>4. CASE \E t \in Tasks : OpenForWrite(t)
    BY <2>1, <2>4 DEF OpenForWrite, Exists, IInv, TypeOK
  <2>5. CASE \E t \in Tasks : WriteFile(t)
    <3>1. PICK t \in Tasks : WriteFile(t)
      BY <2>5
    <3>2. op[t].info \in Infos
      BY <3>1 DEF WriteFile, IInv, OpInv
    <3> QED
      BY <2>1, <3>1, <3>2 DEF WriteFile, IInv, TypeOK
  <2>6. CASE \E t \in Tasks : RemoveFile(t)
    BY <2>1, <2>6 DEF RemoveFile, IInv, TypeOK
  <2> QED
    BY <2>2, <2>3, <2>4, <2>5, <2>6
       DEF Next, SFFSInit, SFFSOpen, Request, Crash, Reboot, Restart, Operation, Pend, Enter, Mount,
           MountFormat, MountAgain, Unmount, Leave, Post, GetStatus, Format, FormatMount, StatFile,
           ReadFile, CountEntries, FillEntries, OpenDir, ReadEntry, CloseDir, EraseMedia, media, vars
<1> QED
  BY <1>1, Invariance, PTL DEF Spec, NoTruncation
-----------------------------------------------------------------------------
(* What a step of one task leaves alone of another. *)
LEMMA OtherTask ==
    ASSUME IInv, NEW t \in Tasks, Operation(t), NEW u \in Tasks, u # t
    PROVE  /\ pc'[u] = pc[u] \/ pc'[u] = "enter"
           /\ op'[u] = op[u] /\ size'[u] = size[u]
<1>1. CASE Post(t)
  <2>1. CASE semQ = <<>>
    BY <1>1, <2>1 DEF Post, Goto, IInv, TypeOK
  <2>2. CASE semQ # <<>>
    <3>1. Head(semQ) \in Tasks
      BY <2>2 DEF IInv, TypeOK
    <3> QED
      BY <1>1, <2>2, <3>1 DEF Post, IInv, TypeOK
  <2> QED
    BY <2>1, <2>2
<1>2. CASE ReadEntry(t)
  BY <1>2 DEF ReadEntry
<1>3. ASSUME NEW l, Goto(t, l), op' = op, \/ size' = size
                                           \/ \E n \in Nat : size' = [size EXCEPT ![t] = n]
      PROVE  pc'[u] = pc[u] /\ op'[u] = op[u] /\ size'[u] = size[u]
  BY <1>3 DEF Goto, IInv, TypeOK
<1>4. CASE CountEntries(t)
  BY <1>3, <1>4, ListedFinite DEF CountEntries, IInv
<1>5. CASE StatFile(t)
  <2>1. (IF flash[op[t].file] = Empty THEN 0 ELSE 1) \in Nat
    OBVIOUS
  <2> QED
    BY <1>3, <1>5, <2>1 DEF StatFile
<1> QED
  BY <1>1, <1>2, <1>3, <1>4, <1>5
     DEF Operation, Pend, Enter, Mount, MountFormat, MountAgain, Unmount, Leave, GetStatus, Format,
         FormatMount, ReadFile, FillEntries, OpenForWrite, WriteFile, RemoveFile, OpenDir, CloseDir

LEMMA SizeOperation ==
    ASSUME IInv, SizeInv, NEW t \in Tasks, Operation(t), NEW u \in Tasks
    PROVE  /\ pc'[u] \in {"stat", "read"} => op'[u].file \in Files
           /\ pc'[u] = "fill" => size'[u] = Cardinality(Listed')
           /\ pc'[u] = "read" => size'[u] = IF op'[u].file \in Listed' THEN 1 ELSE 0
<1>1. CASE u # t
  <2>1. SUFFICES ASSUME pc'[u] \in {"stat", "read", "fill"}
                 PROVE  Listed' = Listed /\ pc'[u] = pc[u] /\ op'[u] = op[u] /\ size'[u] = size[u]
    BY <1>1 DEF SizeInv
  <2>2. pc'[u] = pc[u] /\ op'[u] = op[u] /\ size'[u] = size[u]
    BY <1>1, <2>1, OtherTask
  <2>3. Holds(u)
    BY <2>1, <2>2 DEF Holds, HoldLabels, GateLabels
  <2>4. InGate(t) => Holds(t)
    BY DEF InGate, Holds, HoldLabels
  <2>5. UNCHANGED media
    BY <1>1, <2>3, <2>4, Alone, MediaSteps
  <2> QED
    BY <2>2, <2>5 DEF Listed, media
<1>2. CASE u = t
  <2>1. CASE Mount(t) \/ MountAgain(t)
    <3>1. op'[t] = op[t] /\ pc'[t] \in {WorkLabel(op[t]), "mformat", "leave"}
      BY <2>1 DEF Mount, MountAgain, Goto, IInv, TypeOK
    <3>2. WorkLabel(op[t]) \notin {"read", "fill"}
      BY WorkLabelType
    <3>3. WorkLabel(op[t]) = "stat" => op[t].kind = "readFile"
      BY DEF WorkLabel
    <3>4. op[t].kind = "readFile" => op[t].file \in Files
      <4>1. \/ op[t] \in [kind : {"getStatus", "format", "scan", "lockForReboot"}]
            \/ op[t] \in [kind : {"readFile", "removeFile"}, file : Files]
            \/ op[t] \in [kind : {"setFile"}, file : Files, info : Infos]
            \/ op[t] \in {NoOp, StartupRequest}
        BY DEF IInv, TypeOK, Requests
      <4>2. op[t] \in [kind : {"readFile", "removeFile"}, file : Files] => op[t].file \in Files
        OBVIOUS
      <4>3. op[t] \in [kind : {"setFile"}, file : Files, info : Infos] => op[t].file \in Files
        OBVIOUS
      <4>4. op[t] \in [kind : {"getStatus", "format", "scan", "lockForReboot"}] => op[t].kind # "readFile"
        OBVIOUS
      <4>5. op[t] \in {NoOp, StartupRequest} => op[t].kind # "readFile"
        BY DEF NoOp, StartupRequest
      <4> QED
        BY <4>1, <4>2, <4>3, <4>4, <4>5
    <3> QED
      BY <1>2, <3>1, <3>2, <3>3, <3>4
  <2>2. CASE StatFile(t)
    <3>1. op[t].file \in Files /\ op' = op /\ Listed' = Listed
      BY <2>2 DEF StatFile, SizeInv, media, Listed
    <3>2. flash[op[t].file] \in Infos \cup {NoFile, Empty}
      BY <3>1 DEF IInv, TypeOK, Contents
    <3>3. CASE pc'[t] = "read"
      <4>1. Exists(op[t].file) /\ size'[t] = IF flash[op[t].file] = Empty THEN 0 ELSE 1
        BY <2>2, <3>3 DEF StatFile, Goto, IInv, TypeOK
      <4>2. op[t].file \in Listed <=> flash[op[t].file] # Empty
        BY <3>1, <3>2, <4>1, ConstantsAssumption DEF Listed, Exists
      <4> QED
        BY <1>2, <3>1, <3>3, <4>1, <4>2
    <3>4. CASE pc'[t] = "unmount"
      BY <1>2, <3>4
    <3> QED
      BY <2>2, <3>3, <3>4 DEF StatFile, Goto, IInv, TypeOK
  <2>3. CASE CountEntries(t)
    <3>1. Listed' = Listed /\ size'[t] = Cardinality(Listed) /\ pc'[t] \in {"fill", "unmount"}
      BY <2>3 DEF CountEntries, Goto, media, Listed, IInv, TypeOK
    <3> QED
      BY <1>2, <3>1
  <2>4. CASE Post(t)
    <3>1. pc'[t] \notin {"stat", "read", "fill"}
      <4>1. CASE semQ = <<>>
        BY <2>4, <4>1 DEF Post, Goto, IInv, TypeOK
      <4>2. CASE semQ # <<>>
        BY <2>4, <4>2 DEF Post, IInv, TypeOK
      <4> QED
        BY <4>1, <4>2
    <3> QED
      BY <1>2, <3>1
  <2>5. CASE ReadEntry(t)
    BY <1>2, <2>5 DEF ReadEntry
  <2>6. CASE Enter(t)
    BY <1>2, <2>6, FirstLabelType DEF Enter, Goto, IInv, TypeOK
  <2>7. CASE \E l : l \notin {"stat", "read", "fill"} /\ Goto(t, l)
    BY <1>2, <2>7 DEF Goto, IInv, TypeOK
  <2> QED
    BY <2>1, <2>2, <2>3, <2>4, <2>5, <2>6, <2>7
       DEF Operation, Pend, MountFormat, Unmount, Leave, GetStatus, Format, FormatMount, ReadFile,
           FillEntries, OpenForWrite, WriteFile, RemoveFile, OpenDir, CloseDir
<1> QED
  BY <1>1, <1>2

LEMMA SizeStep == IInv /\ SizeInv /\ [Next]_vars => SizeInv'
<1> SUFFICES ASSUME IInv, SizeInv, [Next]_vars PROVE SizeInv'
  OBVIOUS
<1>1. CASE Restart
  BY <1>1 DEF Restart, BootLabels, SizeInv
<1>2. CASE SFFSInit \/ SFFSOpen \/ \E t \in Tasks : Request(t)
  <2>1. /\ flash' = flash /\ size' = size
        /\ \A u \in Tasks : pc'[u] \in {"stat", "read", "fill"} => pc'[u] = pc[u] /\ op'[u] = op[u]
    BY <1>2 DEF SFFSInit, SFFSOpen, Request, Goto, IInv, TypeOK, media, Tasks
  <2> QED
    BY <2>1 DEF SizeInv, Listed
<1>3. CASE UNCHANGED vars
  BY <1>3 DEF vars, SizeInv, Listed
<1>4. CASE \E t \in Tasks : Operation(t)
  BY <1>4, SizeOperation DEF SizeInv
<1> QED
  BY <1>1, <1>2, <1>3, <1>4 DEF Next, Crash, Reboot

(* The second pass over the directory and the read of a file find what the first
   pass and the stat have seen, with any number of tasks and files. *)
THEOREM RepliesAlwaysFit == Spec => []RepliesFit
<1>1. Init => SizeInv
  BY DEF Init, BootLabels, SizeInv
<1>2. SizeInv => RepliesFit
  BY DEF SizeInv, RepliesFit
<1> QED
  BY <1>1, <1>2, SizeStep, Invariance, PTL DEF Spec
-----------------------------------------------------------------------------
LEMMA StartOperation ==
    ASSUME IInv, StartInv, Operation(InitTask), InitTask \in Tasks
    PROVE  StartInv'
<1> DEFINE t == InitTask
<1>1. /\ pc[t] \in Before \cup {"readdir", "unmount", "leave", "post", "fault"}
      /\ op[t] = StartupRequest /\ \A u \in Remotes : pc[u] = "idle"
  BY DEF StartInv, Before, Operation, Pend, Enter, Mount, MountFormat, MountAgain, Unmount, Leave, Post,
         GetStatus, Format, FormatMount, StatFile, ReadFile, CountEntries, FillEntries, OpenForWrite,
         WriteFile, RemoveFile, OpenDir, ReadEntry, CloseDir
<1>2. FirstLabel(StartupRequest) = "mount" /\ WorkLabel(StartupRequest) = "opendir"
  BY DEF FirstLabel, WorkLabel, StartupRequest
<1>3. CASE Post(t)
  <2>1. semQ = <<>>
    <3>1. ASSUME semQ # <<>> PROVE FALSE
      <4>1. Head(semQ) \in Tasks /\ pc[Head(semQ)] = "blocked"
        BY <3>1 DEF IInv, TypeOK, LockInv
      <4> QED
        BY <1>1, <1>3, <4>1 DEF Post, Tasks
    <3> QED
      BY <3>1
  <2> QED
    BY <1>3, <2>1 DEF Post, Goto, IInv, TypeOK, StartInv, Before
<1>4. ASSUME Goto(t, pc'[t]), pc'[t] # "idle", op' = op
      PROVE  op'[t] = StartupRequest /\ \A u \in Remotes : pc'[u] = "idle"
  BY <1>1, <1>4, ConstantsAssumption DEF Goto, IInv, TypeOK, Tasks
<1>5. ASSUME NEW l \in Before, Goto(t, l), pc[t] \in Before, UNCHANGED <<op, devices, failed>>
      PROVE  StartInv'
  <2>1. pc'[t] = l /\ l # "idle"
    BY <1>5 DEF Goto, IInv, TypeOK, Before
  <2> QED
    BY <1>4, <1>5, <2>1 DEF StartInv, Before
<1>6. ASSUME NEW l \in {"leave", "post"}, Goto(t, l), UNCHANGED <<op, devices, failed, flash>>,
             pc[t] \in Before \cup {"unmount", "leave"}
      PROVE  StartInv'
  <2>1. pc'[t] = l /\ l # "idle"
    BY <1>6 DEF Goto, IInv, TypeOK
  <2>2. ~failed => devices \in {{}, DevicesOf(Files)}
    BY <1>6 DEF StartInv
  <2>3. DevicesOf(Files)' = DevicesOf(Files)
    BY <1>6 DEF DevicesOf, Listed
  <2> QED
    BY <1>4, <1>6, <2>1, <2>2, <2>3 DEF StartInv, Before
<1>7. CASE Pend(t) \/ Enter(t) \/ Mount(t) \/ MountFormat(t) \/ MountAgain(t)
  BY <1>1, <1>2, <1>5, <1>6, <1>7 DEF Pend, Enter, Mount, MountFormat, MountAgain, startup, media, Before
<1>8. CASE Unmount(t) \/ Leave(t)
  BY <1>6, <1>8 DEF Unmount, Leave, startup, media
<1>9. CASE OpenDir(t)
  <2>1. pc'[t] = "readdir" /\ devices' = {} /\ flash' = flash
    BY <1>9 DEF OpenDir, Goto, IInv, TypeOK, StartInv, Before, media
  <2>2. (Listed \cap (Files \ iter))' = {}
    BY <1>9, <2>1, ConstantsAssumption DEF OpenDir, Listed, Exists
  <2>3. DevicesOf(Files \ iter)' = {}
    BY <2>2 DEF DevicesOf
  <2>4. op' = op /\ Goto(t, pc'[t])
    BY <1>9, <2>1 DEF OpenDir
  <2> QED
    BY <1>4, <2>1, <2>3, <2>4 DEF StartInv, Before
<1>10. CASE CloseDir(t)
  <2>1. pc'[t] = "unmount" /\ iter = {} /\ UNCHANGED <<flash, devices, failed, op>> /\ pc[t] = "readdir"
    BY <1>10 DEF CloseDir, Goto, IInv, TypeOK, media
  <2>2. DevicesOf(Files)' = DevicesOf(Files \ iter)
    BY <2>1 DEF DevicesOf, Listed
  <2> QED
    BY <1>4, <1>10, <2>1, <2>2 DEF StartInv, Before, CloseDir
<1>11. CASE ReadEntry(t)
  <2>1. PICK f \in iter :
          /\ iter' = iter \ {f}
          /\ \/ f \notin Listed /\ UNCHANGED <<devInfo, failed, devices>>
             \/ f \in Listed /\ failed' = TRUE
             \/ /\ f \in Listed
                /\ \/ devInfo' = flash[f] /\ failed' \in {failed, TRUE}
                   \/ failed' = TRUE
                /\ LoadDevice(f, devInfo')
    BY <1>11 DEF ReadEntry
  <2>2. pc[t] = "readdir" /\ UNCHANGED <<pc, op, flash, mounted>> /\ f \in Files
    BY <1>11 DEF ReadEntry, media, IInv, TypeOK
  <2>3. SUFFICES ASSUME ~failed' PROVE devices' = DevicesOf(Files \ iter)'
    BY <1>1, <2>2 DEF StartInv, Before
  <2>4. ~failed /\ \/ f \notin Listed /\ devices' = devices
                   \/ f \in Listed /\ devInfo' = flash[f] /\ LoadDevice(f, flash[f])
    <3>1. failed' # TRUE
      BY <2>3, Zenon
    <3> QED
      BY <2>1, <2>3, <3>1, Zenon
  <2>5. devices = DevicesOf(Files \ iter)
    BY <2>2, <2>4 DEF StartInv
  <2>6. (Listed \cap (Files \ iter))' = (Listed \cap (Files \ iter)) \cup (Listed \cap {f})
    BY <2>1, <2>2 DEF Listed
  <2>7. DevicesOf(Files \ iter)' =
          DevicesOf(Files \ iter) \cup
             (IF f \in Listed /\ flash[f] \in Loadable THEN {[file |-> f, info |-> flash[f]]} ELSE {})
    BY <2>2, <2>6 DEF DevicesOf
  <2> QED
    BY <2>4, <2>5, <2>7 DEF LoadDevice
<1> QED
  BY <1>1, <1>3, <1>7, <1>8, <1>9, <1>10, <1>11
     DEF Operation, GetStatus, Format, FormatMount, StatFile, ReadFile, CountEntries, FillEntries,
         OpenForWrite, WriteFile, RemoveFile, Before

LEMMA StartStep == IInv /\ StartInv /\ [Next]_vars => StartInv'
<1> SUFFICES ASSUME IInv, StartInv, [Next]_vars PROVE StartInv'
  OBVIOUS
<1>1. InitTask \in Tasks /\ InitTask \notin Remotes /\ Tasks \ {InitTask} \subseteq Remotes
  BY ConstantsAssumption DEF Tasks
<1>2. CASE Restart
  BY <1>1, <1>2 DEF Restart, BootLabels, BootRequests, StartInv, Before, Tasks
<1>3. CASE SFFSInit \/ SFFSOpen
  <2>1. /\ pc[InitTask] \in {"init", "open"} /\ pc'[InitTask] \in {"open", "fault", "pend"}
        /\ UNCHANGED <<op, devices, failed>> /\ \A t \in Remotes : pc'[t] = pc[t]
    BY <1>1, <1>3 DEF SFFSInit, SFFSOpen, Goto, IInv, TypeOK, startup, Tasks
  <2> QED
    BY <2>1 DEF StartInv, Before
<1>4. CASE \E t \in Tasks : Request(t)
  <2>1. pc[InitTask] = "idle" /\ pc'[InitTask] = "idle"
    BY <1>1, <1>4 DEF Request, Running, Goto, IInv, TypeOK
  <2> QED
    BY <2>1 DEF StartInv, Before
<1>5. ASSUME NEW t \in Tasks, Operation(t), t # InitTask PROVE StartInv'
  <2>1. pc[t] # "idle"
    BY <1>5 DEF Operation, Pend, Enter, Mount, MountFormat, MountAgain, Unmount, Leave, Post,
         GetStatus, Format, FormatMount, StatFile, ReadFile, CountEntries, FillEntries, OpenForWrite,
         WriteFile, RemoveFile, OpenDir, ReadEntry, CloseDir
  <2>2. pc[InitTask] = "idle"
    BY <1>1, <1>5, <2>1 DEF StartInv
  <2>3. pc'[InitTask] = "idle"
    <3>1. CASE Post(t)
      <4>1. CASE semQ = <<>>
        BY <1>1, <1>5, <2>2, <3>1, <4>1 DEF Post, Goto, IInv, TypeOK
      <4>2. CASE semQ # <<>>
        <5>1. Head(semQ) \in Tasks /\ Head(semQ) # InitTask
          BY <2>2, <4>2 DEF IInv, TypeOK, LockInv
        <5> QED
          BY <1>1, <1>5, <2>2, <3>1, <4>2, <5>1 DEF Post, IInv, TypeOK
      <4> QED
        BY <4>1, <4>2
    <3>2. CASE UNCHANGED pc \/ \E l : Goto(t, l)
      BY <1>1, <1>5, <2>2, <3>2 DEF Goto, IInv, TypeOK
    <3> QED
      BY <1>5, <3>1, <3>2 DEF Operation, Pend, Enter, Mount, MountFormat, MountAgain, Unmount, Leave,
         GetStatus, Format, FormatMount, StatFile, ReadFile, CountEntries, FillEntries, OpenForWrite,
         WriteFile, RemoveFile, OpenDir, ReadEntry, CloseDir
  <2> QED
    BY <2>3 DEF StartInv, Before
<1>6. CASE UNCHANGED vars
  BY <1>6 DEF vars, StartInv, DevicesOf, Listed
<1> QED
  BY <1>1, <1>2, <1>3, <1>4, <1>5, <1>6, StartOperation DEF Next, Crash, Reboot

(* A start that returns 0 has started all the loadable descriptions, or none at
   all when no file system could be mounted, for any number of files. *)
THEOREM StartupMatches == Spec => []StartupDevicesMatch
<1>1. Init => StartInv
  BY ConstantsAssumption DEF Init, BootLabels, BootRequests, StartInv, Before, Tasks
<1>2. StartInv => StartupDevicesMatch
  <2>1. DevicesOf(Files) = {[file |-> f, info |-> flash[f]] :
                              f \in {g \in Listed : flash[g] \in Loadable}}
    BY DEF DevicesOf, Listed
  <2> QED
    BY <2>1 DEF StartInv, StartupDevicesMatch
<1> QED
  BY <1>1, <1>2, StartStep, Invariance, PTL DEF Spec
=============================================================================

-------------------------- MODULE FlashFileSystem ---------------------------
(***************************************************************************)
(* System/FlashFileSystem/FlashFileSystemStorage.c: the SPIFFS file system *)
(* of the internal flash, shared by the task that starts the system and by *)
(* the remote controllers (TCP workers, USB binary device, USB console).   *)
(*                                                                         *)
(* Every operation has the same frame: pend the binary semaphore           *)
(* hSFFS_semInitialized, enter hSFFS_gateMount, mount SPIFFS (formatting   *)
(* the flash when there is no file system on it), do its work, unmount,    *)
(* leave the gate, post the semaphore.  xSFFS_lockMemoryForReboot takes    *)
(* both locks and keeps them until the reset that follows.  Every caller   *)
(* in the firmware passes BIOS_WAIT_FOREVER, so a pend never times out.    *)
(*                                                                         *)
(* Abstractions.  Only SFFS_Internal exists (the second entry of           *)
(* SFFS_config is commented out).  An IFS_deviceInfoFile_t (100 bytes)     *)
(* fits one 128 byte SPIFFS page, so its write is one step: a file is      *)
(* absent, created and Empty, or holds one description.  Files are the     *)
(* names in the devices folder; a request for another name, or with a bad  *)
(* fileSize, returns before it touches anything.  The LED D20 and the      *)
(* formatting heartbeat are indicators and are left out.                   *)
(***************************************************************************)
EXTENDS Naturals, Sequences, FiniteSets

CONSTANTS Remotes,   \* tasks that serve remote commands
          InitTask,  \* SMC_initThread
          Files,     \* names in the devices folder
          Infos,     \* device descriptions, IFS_deviceInfoFile_t
          Loadable,  \* those whose deviceType names a device to load
          Commands,  \* the operations the remote commands ask for
          NoFile, Empty, NoInfo, NoTask

ASSUME ConstantsAssumption ==
    /\ IsFiniteSet(Files)
    /\ InitTask \notin Remotes
    /\ Loadable \subseteq Infos
    /\ Commands \subseteq {"getStatus", "format", "scan", "lockForReboot",
                           "readFile", "removeFile", "setFile"}
    /\ NoTask \notin Remotes \cup {InitTask}
    /\ NoInfo \notin Infos
    /\ NoFile \notin Infos /\ Empty \notin Infos /\ NoFile # Empty

Tasks == Remotes \cup {InitTask}
Contents == Infos \cup {NoFile, Empty}

VARIABLES
    flash,        \* the media: what each name stands for
    formatted,    \* the media: TRUE when SPIFFS finds a file system on it
    initialized, opened, mounted,   \* SFFS_Object.state
    sem, semQ,    \* count of hSFFS_semInitialized and its FIFO of waiters
    gate,         \* owner of hSFFS_gateMount
    pc, op,       \* per task: where it is, and the request it serves
    size,         \* per task: a count or a file size kept between two calls
    iter,         \* readDevicesConfiguration: directory entries left to read
    devInfo,      \* readDevicesConfiguration: the record read last
    failed,       \* readDevicesConfiguration: i32retValue is not 0
    devices       \* the devices passed to xDevice_add since the last boot

media   == <<flash, formatted>>
object  == <<initialized, opened>>
locks   == <<sem, semQ, gate>>
startup == <<iter, devInfo, failed, devices>>
vars == <<flash, formatted, initialized, opened, mounted, sem, semQ, gate,
          pc, op, size, iter, devInfo, failed, devices>>
-----------------------------------------------------------------------------
Exists(f) == flash[f] # NoFile
(* Entries whose size reaches sizeof(IFS_deviceInfoFile_t). *)
Listed == {f \in Files : flash[f] \in Infos}

NoOp == [kind |-> "none"]
Requests ==
    [kind : {"getStatus", "format", "scan", "lockForReboot"}]
      \cup [kind : {"readFile", "removeFile"}, file : Files]
      \cup [kind : {"setFile"}, file : Files, info : Infos]
StartupRequest == [kind |-> "readDevices"]

(* Between Semaphore_pend and Semaphore_post, and between enter and leave. *)
GateLabels == {"mount", "mformat", "remount", "status", "format",
               "fmount", "stat", "read", "count", "fill", "openw", "write",
               "remove", "opendir", "readdir", "unmount", "leave", "locked"}
HoldLabels == GateLabels \cup {"enter", "post"}
Labels == HoldLabels \cup {"init", "open", "fault", "idle", "pend", "blocked"}

Holds(t)  == pc[t] \in HoldLabels
InGate(t) == pc[t] \in GateLabels
Running   == pc[InitTask] = "idle"   \* SMC_initThread has returned
Frozen    == \E t \in Tasks : pc[t] = "locked"

Goto(t, label) == pc' = [pc EXCEPT ![t] = label]
-----------------------------------------------------------------------------
BootLabels   == [t \in Tasks |-> IF t = InitTask THEN "init" ELSE "idle"]
BootRequests == [t \in Tasks |-> IF t = InitTask THEN StartupRequest ELSE NoOp]
NoSizes      == [t \in Tasks |-> 0]

Init ==
    /\ flash \in [Files -> Contents]
    /\ formatted \in BOOLEAN
    /\ ~formatted => \A f \in Files : flash[f] = NoFile
    /\ initialized = FALSE /\ opened = FALSE /\ mounted = FALSE
    /\ sem = 0 /\ semQ = <<>> /\ gate = NoTask
    /\ pc = BootLabels /\ op = BootRequests /\ size = NoSizes
    /\ iter = {} /\ devInfo = NoInfo /\ failed = FALSE /\ devices = {}

(* A reset keeps the media; everything in RAM starts again. *)
Restart ==
    /\ UNCHANGED media
    /\ initialized' = FALSE /\ opened' = FALSE /\ mounted' = FALSE
    /\ sem' = 0 /\ semQ' = <<>> /\ gate' = NoTask
    /\ pc' = BootLabels /\ op' = BootRequests /\ size' = NoSizes
    /\ iter' = {} /\ devInfo' = NoInfo /\ failed' = FALSE /\ devices' = {}

(* vSFFS_init, xStorageFFS_init: SPIFFSNVS_config fails or succeeds.  When it
   fails gateOpen is not created, and hSFFS_open enters a NULL gate: fault. *)
SFFSInit ==
    /\ pc[InitTask] = "init"
    /\ \/ initialized' = TRUE  /\ Goto(InitTask, "open")
       \/ initialized' = FALSE /\ Goto(InitTask, "fault")
    /\ UNCHANGED <<media, opened, mounted, locks, op, size, startup>>

(* hStorageFFS_open: creates the semaphore with count 0, posts it, and the
   gates.  Later calls find opened set and only return the handle. *)
SFFSOpen ==
    /\ pc[InitTask] = "open"
    /\ sem' = 1 /\ gate' = NoTask /\ opened' = TRUE
    /\ Goto(InitTask, "pend")
    /\ UNCHANGED <<media, initialized, mounted, semQ, op, size, startup>>

(* A remote command reaches one of the operations. *)
Request(t) ==
    /\ Running /\ t # InitTask /\ pc[t] = "idle"
    /\ \E r \in Requests : r.kind \in Commands /\ op' = [op EXCEPT ![t] = r]
    /\ Goto(t, "pend")
    /\ UNCHANGED <<media, object, mounted, locks, size, startup>>

(* Mutant: the count is not decremented. *)
PendNotTaking(t) ==
    /\ pc[t] = "pend" /\ initialized
    /\ sem = 1
    /\ Goto(t, "enter")
    /\ UNCHANGED <<media, object, mounted, locks, op, size, startup>>

(* Semaphore_pend: take the semaphore, or wait behind the other waiters. *)
Pend(t) ==
    /\ pc[t] = "pend" /\ initialized
    /\ \/ /\ sem = 1
          /\ sem' = 0 /\ semQ' = semQ
          /\ Goto(t, "enter")
       \/ /\ sem = 0
          /\ sem' = 0 /\ semQ' = Append(semQ, t)
          /\ Goto(t, "blocked")
    /\ UNCHANGED <<media, object, mounted, gate, op, size, startup>>

FirstLabel(r) ==
    CASE r.kind = "lockForReboot" -> "locked"
      [] r.kind = "getStatus"     -> "status"
      [] r.kind = "format"        -> "format"
      [] OTHER                    -> "mount"

(* Mutant: the reboot lock is released like the lock of any operation. *)
EnterReleasing(t) ==
    /\ pc[t] = "enter" /\ gate = NoTask
    /\ Goto(t, FirstLabel(op[t]))
    /\ IF op[t].kind = "lockForReboot" THEN gate' = NoTask /\ sem' = 1
       ELSE gate' = t /\ sem' = sem
    /\ UNCHANGED <<media, object, mounted, semQ, op, size, startup>>

(* Mutant: the gate is not entered. *)
EnterNoGate(t) ==
    /\ pc[t] = "enter"
    /\ Goto(t, FirstLabel(op[t]))
    /\ UNCHANGED <<media, object, mounted, locks, op, size, startup>>

(* GateMutexPri_enter(hSFFS_gateMount). *)
Enter(t) ==
    /\ pc[t] = "enter" /\ gate = NoTask
    /\ gate' = t
    /\ Goto(t, FirstLabel(op[t]))
    /\ UNCHANGED <<media, object, mounted, sem, semQ, op, size, startup>>
-----------------------------------------------------------------------------
WorkLabel(r) ==
    CASE r.kind = "readFile"    -> "stat"
      [] r.kind = "scan"        -> "count"
      [] r.kind = "setFile"     -> "openw"
      [] r.kind = "removeFile"  -> "remove"
      [] OTHER                  -> "opendir"     \* "readDevices"

(* bStorageFFS_mount: already mounted, mounted now, refused for lack of a
   file system, or refused for another reason (the operation is skipped). *)
Mount(t) ==
    /\ pc[t] = "mount"
    /\ \/ mounted /\ mounted' = mounted /\ Goto(t, WorkLabel(op[t]))
       \/ ~mounted /\ formatted /\ mounted' = TRUE /\ Goto(t, WorkLabel(op[t]))
       \/ ~mounted /\ ~formatted /\ mounted' = FALSE /\ Goto(t, "mformat")
       \/ ~mounted /\ mounted' = FALSE /\ Goto(t, "leave")
    /\ UNCHANGED <<media, object, locks, op, size, startup>>

(* SPIFFS_format erases first and writes the file system last. *)
EraseMedia == flash' = [f \in Files |-> NoFile] /\ formatted' = FALSE

MountFormat(t) ==
    /\ pc[t] = "mformat"
    /\ EraseMedia
    /\ Goto(t, "remount")
    /\ UNCHANGED <<object, mounted, locks, op, size, startup>>

MountAgain(t) ==
    /\ pc[t] = "remount"
    /\ \/ formatted' = TRUE /\ mounted' = TRUE /\ Goto(t, WorkLabel(op[t]))
       \/ formatted' \in BOOLEAN /\ mounted' = FALSE /\ Goto(t, "leave")
    /\ UNCHANGED <<flash, object, locks, op, size, startup>>

(* Mutant: the operation returns without leaving the gate. *)
UnmountKeepingGate(t) ==
    /\ pc[t] = "unmount"
    /\ mounted' = FALSE
    /\ Goto(t, "post")
    /\ UNCHANGED <<media, object, locks, op, size, startup>>

(* bStorageFFS_unmount *)
Unmount(t) ==
    /\ pc[t] = "unmount"
    /\ mounted' = FALSE
    /\ Goto(t, "leave")
    /\ UNCHANGED <<media, object, locks, op, size, startup>>

(* Mutant: the operation returns without posting the semaphore. *)
LeaveNoPost(t) ==
    /\ pc[t] = "leave"
    /\ gate' = NoTask
    /\ Goto(t, "idle")
    /\ UNCHANGED <<media, object, mounted, sem, semQ, op, size, startup>>

(* GateMutexPri_leave *)
Leave(t) ==
    /\ pc[t] = "leave"
    /\ gate' = NoTask
    /\ Goto(t, "post")
    /\ UNCHANGED <<media, object, mounted, sem, semQ, op, size, startup>>

(* Mutant: the waiter is not readied. *)
PostNoWake(t) ==
    /\ pc[t] = "post"
    /\ op' = [op EXCEPT ![t] = NoOp]
    /\ size' = [size EXCEPT ![t] = 0]
    /\ sem' = 1
    /\ Goto(t, "idle")
    /\ UNCHANGED <<media, object, mounted, semQ, gate, startup>>

(* Semaphore_post: hand the semaphore to the first waiter, or make it
   available.  The operation returns to its caller. *)
Post(t) ==
    /\ pc[t] = "post"
    /\ op' = [op EXCEPT ![t] = NoOp]
    /\ size' = [size EXCEPT ![t] = 0]
    /\ \/ /\ semQ = <<>>
          /\ sem' = 1 /\ semQ' = semQ
          /\ Goto(t, "idle")
       \/ /\ semQ # <<>>
          /\ sem' = sem /\ semQ' = Tail(semQ)
          /\ pc' = [pc EXCEPT ![t] = "idle", ![Head(semQ)] = "enter"]
    /\ UNCHANGED <<media, object, mounted, gate, startup>>
-----------------------------------------------------------------------------
(* Mutant: the file system stays mounted. *)
GetStatusNoUnmount(t) ==
    /\ pc[t] = "status"
    /\ \/ formatted /\ mounted' = TRUE
       \/ mounted' = FALSE
    /\ Goto(t, "leave")
    /\ UNCHANGED <<media, object, locks, op, size, startup>>

(* xSFFS_getStatus mounts by itself, never formats, and unmounts. *)
GetStatus(t) ==
    /\ pc[t] = "status"
    /\ \/ formatted /\ mounted' = TRUE
       \/ mounted' = FALSE
    /\ Goto(t, "unmount")
    /\ UNCHANGED <<media, object, locks, op, size, startup>>

(* xSFFS_format: SPIFFS_unmount and SPIFFS_format, which a reset can cut. *)
Format(t) ==
    /\ pc[t] = "format"
    /\ EraseMedia
    /\ Goto(t, "fmount")
    /\ UNCHANGED <<object, mounted, locks, op, size, startup>>

FormatMount(t) ==
    /\ pc[t] = "fmount"
    /\ \/ formatted' = TRUE /\ mounted' = TRUE
       \/ formatted' \in BOOLEAN /\ mounted' = FALSE
    /\ Goto(t, "unmount")
    /\ UNCHANGED <<flash, object, locks, op, size, startup>>

(* vSFFS_getFlashReadFileNameEthernet: SPIFFS_stat gives the size of the
   buffer, a second call reads the file into it and sends it. *)
StatFile(t) ==
    /\ pc[t] = "stat"
    /\ \/ /\ Exists(op[t].file)
          /\ size' = [size EXCEPT ![t] = IF flash[op[t].file] = Empty THEN 0 ELSE 1]
          /\ Goto(t, "read")
       \/ size' = size /\ Goto(t, "unmount")
    /\ UNCHANGED <<media, object, mounted, locks, op, startup>>

ReadFile(t) ==
    /\ pc[t] = "read"
    /\ Goto(t, "unmount")
    /\ UNCHANGED <<media, object, mounted, locks, op, size, startup>>

(* Mutant: the first pass also counts the entries that are too short. *)
CountAll(t) ==
    /\ pc[t] = "count"
    /\ size' = [size EXCEPT ![t] = Cardinality({f \in Files : Exists(f)})]
    /\ Goto(t, "fill")
    /\ UNCHANGED <<media, object, mounted, locks, op, startup>>

(* vSFFS_getFlashDeviceListEthernet and
   vSFFS_getFlashConfigurationFileEthernet: a first pass over the directory
   counts the entries and sizes the reply, a second pass fills it. *)
CountEntries(t) ==
    /\ pc[t] = "count"
    /\ size' = [size EXCEPT ![t] = Cardinality(Listed)]
    /\ \/ Goto(t, "fill")
       \/ Goto(t, "unmount")          \* Memory_alloc returned NULL
    /\ UNCHANGED <<media, object, mounted, locks, op, startup>>

FillEntries(t) ==
    /\ pc[t] = "fill"
    /\ Goto(t, "unmount")
    /\ UNCHANGED <<media, object, mounted, locks, op, size, startup>>

(* Mutant: the file is opened with SPIFFS_TRUNC. *)
OpenTruncating(t) ==
    /\ pc[t] = "openw"
    /\ flash' = [flash EXCEPT ![op[t].file] = Empty]
    /\ Goto(t, "write")
    /\ UNCHANGED <<formatted, object, mounted, locks, op, size, startup>>

(* vSFFS_setFlashDataFileNameEthernet: SPIFFS_CREAT without SPIFFS_TRUNC
   creates an empty file or opens the old one; the write may fail. *)
OpenForWrite(t) ==
    /\ pc[t] = "openw"
    /\ \/ /\ flash' = IF Exists(op[t].file) THEN flash
                      ELSE [flash EXCEPT ![op[t].file] = Empty]
          /\ Goto(t, "write")
       \/ flash' = flash /\ Goto(t, "unmount")
    /\ UNCHANGED <<formatted, object, mounted, locks, op, size, startup>>

WriteFile(t) ==
    /\ pc[t] = "write"
    /\ \/ flash' = [flash EXCEPT ![op[t].file] = op[t].info]
       \/ flash' = flash
    /\ Goto(t, "unmount")
    /\ UNCHANGED <<formatted, object, mounted, locks, op, size, startup>>

(* vSFFS_removeFileNameEthernet *)
RemoveFile(t) ==
    /\ pc[t] = "remove"
    /\ \/ flash' = [flash EXCEPT ![op[t].file] = NoFile]
       \/ flash' = flash
    /\ Goto(t, "unmount")
    /\ UNCHANGED <<formatted, object, mounted, locks, op, size, startup>>
-----------------------------------------------------------------------------
(* xSFFS_readDevicesConfiguration.  devInfo is a local that is not
   initialized: it may hold anything until a record has been read. *)
OpenDir(t) ==
    /\ pc[t] = "opendir"
    /\ iter' = {f \in Files : Exists(f)}
    /\ devInfo' \in Infos \cup {NoInfo}
    /\ Goto(t, "readdir")
    /\ UNCHANGED <<media, object, mounted, locks, op, size, failed, devices>>

LoadDevice(f, info) ==
    devices' = IF info \in Loadable THEN devices \cup {[file |-> f, info |-> info]}
               ELSE devices

(* Mutant: a failed SPIFFS_read is not recorded. *)
ReadEntryIgnoring(t) ==
    /\ pc[t] = "readdir"
    /\ \E f \in iter \cap Listed :
         /\ iter' = iter \ {f}
         /\ devInfo' \in {devInfo, flash[f]}
         /\ LoadDevice(f, devInfo')
    /\ UNCHANGED <<media, object, mounted, locks, pc, op, size, failed>>

(* One turn of the loop over SPIFFS_readdir: too short an entry is skipped;
   SPIFFS_open_by_dirent may fail (-1); SPIFFS_read may fail (-2) and leaves
   devInfo as it was; SPIFFS_close may fail (-3).  The device is added from
   devInfo in every case in which the file could be opened. *)
ReadEntry(t) ==
    /\ pc[t] = "readdir"
    /\ \E f \in iter :
         /\ iter' = iter \ {f}
         /\ \/ /\ f \notin Listed
               /\ UNCHANGED <<devInfo, failed, devices>>
            \/ /\ f \in Listed
               /\ failed' = TRUE
               /\ UNCHANGED <<devInfo, devices>>
            \/ /\ f \in Listed
               /\ \/ devInfo' = flash[f] /\ failed' \in {failed, TRUE}
                  \/ devInfo' = devInfo  /\ failed' = TRUE
               /\ LoadDevice(f, devInfo')
    /\ UNCHANGED <<media, object, mounted, locks, pc, op, size>>

(* devInfo is a local of xSFFS_readDevicesConfiguration. *)
CloseDir(t) ==
    /\ pc[t] = "readdir" /\ iter = {}
    /\ Goto(t, "unmount")
    /\ devInfo' = NoInfo
    /\ UNCHANGED <<media, object, mounted, locks, op, size, iter, failed, devices>>
-----------------------------------------------------------------------------
(* The task that holds the reboot lock sleeps and resets the controller, or
   jumps to the boot loader (which restarts it after the upgrade). *)
Reboot(t) == pc[t] = "locked" /\ Restart

(* Power loss, or the watchdog: at any moment. *)
Crash == Restart

Operation(t) ==
    \/ Pend(t) \/ Enter(t) \/ Mount(t) \/ MountFormat(t) \/ MountAgain(t)
    \/ Unmount(t) \/ Leave(t) \/ Post(t) \/ GetStatus(t) \/ Format(t)
    \/ FormatMount(t) \/ StatFile(t) \/ ReadFile(t) \/ CountEntries(t)
    \/ FillEntries(t) \/ OpenForWrite(t) \/ WriteFile(t) \/ RemoveFile(t)
    \/ OpenDir(t) \/ ReadEntry(t) \/ CloseDir(t)

Next == \/ SFFSInit \/ SFFSOpen \/ Crash
        \/ \E t \in Tasks : Request(t) \/ Operation(t) \/ Reboot(t)

Spec == Init /\ [][Next]_vars

(* A task that is inside an operation goes on: it waits for the semaphore,
   for the gate, for the flash, or in the send of a reply that is made with
   both locks held (ReadFile, FillEntries), which ends when the socket takes
   the reply or the connection breaks; and the watchdog restarts a controller
   that hangs.  Nobody has to send a request and nothing has to crash. *)
Fairness == /\ WF_vars(SFFSInit) /\ WF_vars(SFFSOpen)
            /\ \A t \in Tasks : WF_vars(Operation(t)) /\ WF_vars(Reboot(t))
FairSpec == Spec /\ Fairness
-----------------------------------------------------------------------------
TypeOK ==
    /\ flash \in [Files -> Contents]
    /\ formatted \in BOOLEAN
    /\ initialized \in BOOLEAN /\ opened \in BOOLEAN /\ mounted \in BOOLEAN
    /\ sem \in {0, 1} /\ semQ \in Seq(Tasks)
    /\ gate \in Tasks \cup {NoTask}
    /\ pc \in [Tasks -> Labels]
    /\ op \in [Tasks -> Requests \cup {NoOp, StartupRequest}]
    /\ size \in [Tasks -> Nat]
    /\ iter \in SUBSET Files
    /\ devInfo \in Infos \cup {NoInfo}
    /\ failed \in BOOLEAN
    /\ devices \in SUBSET [file : Files, info : Infos]

(* At most one task is between its pend and its post, and while one is, the
   semaphore is not available: no operation ever runs inside another one,
   whatever mixture of USB, TCP and startup calls arrives. *)
SingleHolder ==
    /\ \A t, u \in Tasks : Holds(t) /\ Holds(u) => t = u
    /\ (\E t \in Tasks : Holds(t)) => sem = 0

(* The semaphore is never lost: once the storage is open and nobody is
   inside an operation, it is available and nobody waits for it. *)
SemaphoreNotLost ==
    (opened /\ \A t \in Tasks : ~Holds(t)) => sem = 1 /\ semQ = <<>>

(* GateMutexPri_enter never blocks: the semaphore already excludes the other
   tasks, so a task that holds the semaphore finds the gate free. *)
GateUncontended == \A t \in Tasks : pc[t] = "enter" => gate = NoTask

(* SPIFFS is mounted only inside an operation, so each operation mounts for
   itself (the "already mounted" return is never taken) and no operation
   leaves file descriptors behind for the next one. *)
MountedOnlyInside ==
    /\ mounted => \E t \in Tasks : InGate(t) /\ gate = t
    /\ \A t \in Tasks : pc[t] \in {"mount", "status", "format"} => ~mounted

(* The reply buffer sized by the first directory pass, or by SPIFFS_stat, is
   exactly what the second pass, or SPIFFS_read, fills. *)
RepliesFit ==
    \A t \in Tasks :
      /\ pc[t] = "fill" => size[t] = Cardinality(Listed)
      /\ pc[t] = "read" => size[t] = IF op[t].file \in Listed THEN 1 ELSE 0

(* When xSFFS_readDevicesConfiguration returns 0, it has started all the
   loadable descriptions of the flash, one device per file, or none at all.
   None is the start whose mount failed: it skips the directory and returns 0
   as well.  A start that could mount has started them all. *)
StartupDevicesMatch ==
    LET Described == {[file |-> f, info |-> flash[f]] :
                        f \in {g \in Listed : flash[g] \in Loadable}}
    IN  ~failed => /\ pc[InitTask] = "unmount" => devices = Described
                   /\ pc[InitTask] \in {"leave", "post"} => devices \in {{}, Described}

(* From the moment the memory is locked for a reboot until the reset, the
   flash does not change: a commanded reset cuts no write and no format. *)
RebootLockFreezesFlash == [][Frozen => UNCHANGED media]_vars

(* A device description is only ever replaced by a whole description or
   removed on request: it never becomes an empty file on the way. *)
NoTruncation == [][\A f \in Files : flash[f] \in Infos => flash'[f] # Empty]_vars

(* An operation that waits for the file system completes, unless the memory
   is locked for a reboot or the controller restarts. *)
OperationCompletes ==
    \A t \in Remotes : pc[t] \in {"pend", "blocked"}
                         ~> (pc[t] = "idle" \/ Frozen \/ ~Running)

(* A reboot command resets the controller in the end, even when it arrives
   behind other operations or behind another reboot. *)
RebootHappens ==
    \A t \in Remotes : op[t].kind = "lockForReboot" ~> ~Running

(* The file system implements the abstract store: its owner is the owner of
   hSFFS_gateMount, and it is frozen while a task waits for its reset. *)
Store == INSTANCE FlashStore WITH store <- flash, owner <- gate, frozen <- Frozen
StoreSpec == Store!Spec
=============================================================================

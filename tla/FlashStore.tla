----------------------------- MODULE FlashStore -----------------------------
(***************************************************************************)
(* What the flash file system promises the tasks of the controller: a      *)
(* store of configuration files that one task at a time owns, that only    *)
(* its owner changes (one file per step, or the whole store when it is     *)
(* formatted), and that nobody changes any more once a task has frozen it  *)
(* for a reboot, until the controller has restarted.                       *)
(*                                                                         *)
(* FlashFileSystem.tla implements it.                                      *)
(***************************************************************************)
CONSTANTS Tasks,     \* the tasks that use the store
          Files,     \* the file names
          Contents,  \* what a file name may stand for, NoFile included
          NoFile,    \* the content of a name that does not exist
          NoTask     \* the owner of a store nobody uses

VARIABLES store,     \* [Files -> Contents]
          owner,     \* the task inside an operation, or NoTask
          frozen     \* TRUE from the reboot lock to the restart

vars == <<store, owner, frozen>>

EmptyStore == [f \in Files |-> NoFile]

Init == /\ store \in [Files -> Contents]
        /\ owner = NoTask
        /\ frozen = FALSE

Acquire(t) == /\ owner = NoTask
              /\ owner' = t
              /\ UNCHANGED <<store, frozen>>

ChangeFile(t, f) == /\ owner = t /\ ~frozen
                    /\ \E c \in Contents : store' = [store EXCEPT ![f] = c]
                    /\ UNCHANGED <<owner, frozen>>

EraseAll(t) == /\ owner = t /\ ~frozen
               /\ store' = EmptyStore
               /\ UNCHANGED <<owner, frozen>>

Release(t) == /\ owner = t /\ ~frozen
              /\ owner' = NoTask
              /\ UNCHANGED <<store, frozen>>

(* The task that is going to restart the controller takes the store for good. *)
Freeze(t) == /\ owner = NoTask
             /\ owner' = t
             /\ frozen' = TRUE
             /\ UNCHANGED store

Restart == /\ owner' = NoTask
           /\ frozen' = FALSE
           /\ UNCHANGED store

Next == \/ \E t \in Tasks : Acquire(t) \/ EraseAll(t) \/ Release(t) \/ Freeze(t)
        \/ \E t \in Tasks, f \in Files : ChangeFile(t, f)
        \/ Restart

Spec == Init /\ [][Next]_vars
=============================================================================

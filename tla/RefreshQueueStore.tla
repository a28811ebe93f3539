-------------------------- MODULE RefreshQueueStore ---------------------------
(***************************************************************************)
(* How MatchDetailRefreshQueue keeps its items in files.  A call takes the *)
(* lock file, reads queue.json (or its backup), and writes the new state to*)
(* a temporary file that replaces queue.json.  Where a rename over an      *)
(* existing file is refused, queue.json is first moved to the backup.      *)
(* Processes may stop anywhere; the lock of a stopped one is taken over.   *)
(*                                                                         *)
(* Abstractions: a process makes one call at a time, and a new process is  *)
(* another member of Procs.  A live process writes its new lock file before*)
(* the stale lock timeout, so that only the lock of a stopped one is stale;*)
(* writing a lock file and releasing it do not fail.  (A failed write would*)
(* leave an empty lock file until it is stale, a failed release one that   *)
(* nobody takes while its owner lives: calls would time out, changing      *)
(* nothing.)                                                               *)
(* A temporary file belongs to one call and is never read by another.      *)
(***************************************************************************)
EXTENDS RefreshQueueItems

CONSTANTS
    Procs,
    SpuriousRefusals,  \* whether a rename may be refused without a file in its way
    MaxTime, MaxCalls, MaxCrashes

LockFile == [owner : Procs, written : BOOLEAN]

ASSUME RefreshStoreAssumption ==
    Missing \notin LockFile /\ Missing \notin [what : Calls, at : Nat, done : BOOLEAN]

VARIABLES
    now,
    main, backup,   \* queue.json and .backup-queue.json: a state or Missing
    lock,           \* queue.lock: its owner and whether the owner wrote it
    step,           \* where each process is
    call,           \* the call and its time
    view,           \* the state a call read
    calls, crashes

files     == <<main, backup>>
storeVars == <<now, files, lock, step, call, view, calls, crashes>>

StoreInit ==
    /\ now = 0 /\ main = Missing /\ backup = Missing /\ lock = Missing
    /\ step = [p \in Procs |-> "idle"]
    /\ call = [p \in Procs |-> Missing]
    /\ view = [p \in Procs |-> Missing]
    /\ calls = 0 /\ crashes = 0

Alive(p) == step[p] # "stopped"
GoOn(p, next) == step' = [step EXCEPT ![p] = next]

Begin(p) ==
    /\ step[p] = "idle" /\ calls < MaxCalls
    /\ calls' = calls + 1
    /\ \E c \in Calls : call' = [call EXCEPT ![p] = [what |-> c, at |-> now]]
    /\ GoOn(p, "locking")
    /\ UNCHANGED <<now, files, lock, view, crashes>>

-----------------------------------------------------------------------------
(* open(lockFilePath, 'wx') succeeds. *)
OpenLock(p) ==
    /\ step[p] = "locking" /\ lock = Missing
    /\ lock' = [owner |-> p, written |-> FALSE]
    /\ GoOn(p, "opened")
    /\ UNCHANGED <<now, files, call, view, calls, crashes>>

WriteLock(p) ==
    /\ step[p] = "opened"
    /\ lock' = IF lock = [owner |-> p, written |-> FALSE]
                 THEN [lock EXCEPT !.written = TRUE] ELSE lock
    /\ GoOn(p, "read")
    /\ UNCHANGED <<now, files, call, view, calls, crashes>>

(* A lock is stale when its owner has stopped. *)
Stale(l) == ~Alive(l.owner)

(* EEXIST: the lock is read; a stale one is to be removed. *)
Examine(p) ==
    /\ step[p] = "locking" /\ lock # Missing
    /\ Stale(lock)
    /\ GoOn(p, "stealing")
    /\ UNCHANGED <<now, files, lock, call, view, calls, crashes>>

(* unlink removes whatever lock there is by now. *)
Steal(p) ==
    /\ step[p] = "stealing"
    /\ lock' = Missing
    /\ GoOn(p, "locking")
    /\ UNCHANGED <<now, files, call, view, calls, crashes>>

(* The lock is held for too long and the call gives up. *)
TimeOut(p) ==
    /\ step[p] = "locking" /\ lock # Missing
    /\ ~Stale(lock)
    /\ GoOn(p, "idle")
    /\ call' = [call EXCEPT ![p] = Missing]
    /\ UNCHANGED <<now, files, lock, view, calls, crashes>>

-----------------------------------------------------------------------------
(* The state the files stand for. *)
StoredItems ==
    IF main # Missing THEN main ELSE IF backup # Missing THEN backup ELSE Initial

(* readState: queue.json, or the backup where it is missing, or nothing. *)
ReadState(p) ==
    /\ step[p] = "read" /\ call[p].what.do # "clear"
    /\ view' = [view EXCEPT ![p] = StoredItems]
    /\ GoOn(p, IF main = Missing /\ backup # Missing THEN "recover" ELSE "write")
    /\ UNCHANGED <<now, files, lock, call, calls, crashes>>

(* clear does not look at the files. *)
Clear(p) ==
    /\ step[p] = "read" /\ call[p].what.do = "clear"
    /\ view' = [view EXCEPT ![p] = Initial]
    /\ GoOn(p, "write")
    /\ UNCHANGED <<now, files, lock, call, calls, crashes>>

(* A recovered backup becomes queue.json; a refusal is ignored. *)
Recover(p) ==
    /\ step[p] = "recover"
    /\ \/ main' = backup /\ backup' = Missing
       \/ SpuriousRefusals /\ UNCHANGED files
    /\ GoOn(p, "write")
    /\ UNCHANGED <<now, lock, call, view, calls, crashes>>

Result(p) == Apply(view[p], call[p].what, call[p].at)

(* modified: the call finds something to write. *)
IsModified(p) ==
    LET c == call[p].what IN
    \/ c.do = "clear" \/ Result(p) # view[p]
    \/ c.do \notin {"enqueue", "prune"} /\ \E m \in c.of : view[p][m] # Missing

Skip(p) ==
    /\ step[p] = "write" /\ ~IsModified(p)
    /\ GoOn(p, "written")
    /\ UNCHANGED <<now, files, lock, call, view, calls, crashes>>

(* The rename replaces queue.json. *)
Replace(p) ==
    /\ step[p] = "write" /\ IsModified(p)
    /\ main' = Result(p)
    /\ GoOn(p, "written")
    /\ UNCHANGED <<now, backup, lock, call, view, calls, crashes>>

(* Writing the temporary file or the rename fails: the call throws. *)
WriteFails(p) ==
    /\ step[p] = "write" /\ IsModified(p)
    /\ GoOn(p, "failing")
    /\ UNCHANGED <<now, files, lock, call, view, calls, crashes>>

(* EPERM or EEXIST: the old backup goes. *)
ReplaceRefused(p) ==
    /\ step[p] = "write" /\ IsModified(p)
    /\ main # Missing \/ SpuriousRefusals
    /\ backup' = Missing
    /\ GoOn(p, "refused")
    /\ UNCHANGED <<now, main, lock, call, view, calls, crashes>>

(* queue.json becomes the backup; where there is none the call throws. *)
MoveAway(p) ==
    /\ step[p] = "refused"
    /\ IF main = Missing
         THEN GoOn(p, "failing") /\ UNCHANGED files
         ELSE backup' = main /\ main' = Missing /\ GoOn(p, "moved")
    /\ UNCHANGED <<now, lock, call, view, calls, crashes>>

(* Fault: the backup is kept where the replacement fails. *)
MoveInOnly(p) ==
    /\ step[p] = "moved"
    /\ \/ main' = Result(p) /\ GoOn(p, "replaced")
       \/ UNCHANGED main /\ GoOn(p, "replaced")
    /\ UNCHANGED <<now, backup, lock, call, view, calls, crashes>>

(* The temporary file becomes queue.json, or the backup is moved back. *)
MoveIn(p) ==
    /\ step[p] = "moved"
    /\ \/ main' = Result(p) /\ GoOn(p, "replaced") /\ UNCHANGED backup
       \/ main' = backup /\ backup' = Missing /\ GoOn(p, "failing")
    /\ UNCHANGED <<now, lock, call, view, calls, crashes>>

DropBackup(p) ==
    /\ step[p] = "replaced"
    /\ backup' = Missing
    /\ GoOn(p, "written")
    /\ UNCHANGED <<now, main, lock, call, view, calls, crashes>>

LeaveCall(p) ==
    /\ GoOn(p, "idle")
    /\ call' = [call EXCEPT ![p] = Missing]
    /\ view' = [view EXCEPT ![p] = Missing]

(* Fault: a call that throws does not release its lock. *)
ReleaseOnSuccess(p) ==
    /\ step[p] \in {"written", "failing"}
    /\ IF step[p] = "written" /\ lock = [owner |-> p, written |-> TRUE]
         THEN GoOn(p, "unlocking") /\ UNCHANGED <<call, view>>
         ELSE LeaveCall(p)
    /\ UNCHANGED <<now, files, lock, calls, crashes>>

(* release: the lock is looked at; it is given back if it is this call's. *)
Release(p) ==
    /\ step[p] \in {"written", "failing"}
    /\ IF lock = [owner |-> p, written |-> TRUE]
         THEN /\ GoOn(p, IF step[p] = "written" THEN "unlocking" ELSE "abandoning")
              /\ UNCHANGED <<call, view>>
         ELSE LeaveCall(p)
    /\ UNCHANGED <<now, files, lock, calls, crashes>>

Unlock(p) ==
    /\ step[p] \in {"unlocking", "abandoning"}
    /\ lock' = Missing
    /\ LeaveCall(p)
    /\ UNCHANGED <<now, files, calls, crashes>>

StopProcess(p) ==
    /\ step[p] \notin {"idle", "stopped"} /\ crashes < MaxCrashes
    /\ crashes' = crashes + 1
    /\ GoOn(p, "stopped")
    /\ UNCHANGED <<now, files, lock, call, view, calls>>

Clock ==
    /\ now < MaxTime /\ now' = now + 1
    /\ UNCHANGED <<files, lock, step, call, view, calls, crashes>>

StoreNext ==
    \/ \E p \in Procs :
        \/ Begin(p) \/ OpenLock(p) \/ WriteLock(p) \/ Examine(p) \/ Steal(p) \/ TimeOut(p)
        \/ ReadState(p) \/ Clear(p) \/ Recover(p) \/ Skip(p) \/ Replace(p) \/ WriteFails(p)
        \/ ReplaceRefused(p) \/ MoveAway(p) \/ MoveIn(p) \/ DropBackup(p)
        \/ Release(p) \/ Unlock(p) \/ StopProcess(p)
    \/ Clock

StoreSpec == StoreInit /\ [][StoreNext]_storeVars

-----------------------------------------------------------------------------
(* Two live processes never both believe that they hold the lock: not while  *)
(* one takes over the lock of a process that stopped, either.                *)
OneHolder ==
    \A p, q \in Procs :
        {step[p], step[q]} \cap {"idle", "locking", "stealing", "stopped"} = {} => p = q

(* A lock whose owner runs belongs to a call that is under way, and to no    *)
(* other one: no call ends and leaves the others waiting for a lock that     *)
(* nobody will give back, and no two change the items at once.               *)
LockIsInUse ==
    /\ OneHolder
    /\ lock # Missing /\ Alive(lock.owner) => step[lock.owner] \notin {"idle", "locking", "stealing"}

Asked(p) ==
    IF step[p] \in {"idle", "stopped"} THEN Missing
    ELSE [what |-> call[p].what, at |-> call[p].at,
          done |-> step[p] \in {"replaced", "written", "unlocking"}]

Promised == INSTANCE RefreshQueue WITH
                queue <- StoredItems, asked <- [p \in Procs |-> Asked(p)]

(* The files keep the promise of RefreshQueue: whatever stops or fails, every *)
(* call takes effect as a whole, at most once, and before it is answered.     *)
ImplementsQueue == Promised!Spec
=============================================================================

------------------------------ MODULE InfoPool ------------------------------
(***************************************************************************)
(* The table of publishers, subscribers, servers and clients that every    *)
(* process of a host shares (ipc_info_pool.cc): one shared-memory segment, *)
(* a header initialized by whoever gets there first, a robust mutex, and a *)
(* fixed number of entries.  A process registers one endpoint, reads the   *)
(* table (collecting the entries of dead processes on the way) and may die *)
(* between any two stores, the lock held or not.                           *)
(*                                                                         *)
(* An entry is what the table's users tell apart: in_use and the pid that  *)
(* owns it; pid 0 is the cleared field.  Strings, kinds and time stamps    *)
(* are written with the pid and never decide anything.                     *)
(***************************************************************************)
EXTENDS Naturals, FiniteSets

CONSTANTS
    Procs,       \* program instances
    NSlots,      \* kMaxEntries
    MaxPids      \* how many pids the kernel hands out in a behaviour

VARIABLES
    init,        \* header->init_state
    mtx,         \* the robust mutex: NoPid or the pid that locked it
    entry,       \* slot -> [used |-> in_use, pid |-> pid]
    nextPid,     \* next pid the kernel gives; pids are not used again
    alive,       \* pids of living processes
    pid,         \* process -> its pid, NoPid when it does not run
    pc,          \* process -> where it stands in a call
    ready,       \* process -> Impl::ready
    slot,        \* process -> ScopedRegistration::slot_ (0: none, the code's -1)
    idx,         \* process -> loop index of a scan
    seen,        \* process -> slots copied by the running snapshot
    gc           \* process -> the snapshot's gc_dead_flag

vars == <<init, mtx, entry, nextPid, alive, pid, pc, ready, slot, idx, seen, gc>>
procVars == <<nextPid, alive, pid>>

NoPid == 0
Slots == 1..NSlots
Empty == [used |-> FALSE, pid |-> NoPid]

TypeOK ==
    /\ init \in {"uninit", "inprogress", "ready"}
    /\ mtx \in 0..MaxPids
    /\ entry \in [Slots -> [used : BOOLEAN, pid : 0..MaxPids]]
    /\ nextPid \in 1..(MaxPids + 1) /\ alive \subseteq 1..MaxPids
    /\ pid \in [Procs -> 0..MaxPids]
    /\ pc \in [Procs -> {"off", "open", "initEntries", "initReady", "await",
                         "idle", "lockReg", "scanReg", "commit", "lockUnreg",
                         "clear", "clearUse", "lockSnap", "scanSnap", "collect"}]
    /\ ready \in [Procs -> BOOLEAN]
    /\ slot \in [Procs -> 0..NSlots]
    /\ idx \in [Procs -> 1..(NSlots + 1)]
    /\ seen \in [Procs -> SUBSET Slots]
    /\ gc \in [Procs -> BOOLEAN]

Init ==
    /\ init = "uninit" /\ mtx = NoPid /\ entry = [s \in Slots |-> Empty]
    /\ nextPid = 1 /\ alive = {} /\ pid = [p \in Procs |-> NoPid]
    /\ pc = [p \in Procs |-> "off"] /\ ready = [p \in Procs |-> FALSE]
    /\ slot = [p \in Procs |-> 0] /\ idx = [p \in Procs |-> 1]
    /\ seen = [p \in Procs |-> {}] /\ gc = [p \in Procs |-> FALSE]

Goto(p, l) == pc' = [pc EXCEPT ![p] = l]

(* The end of a call: what its loop kept is gone.                          *)
Return(p) ==
    /\ Goto(p, "idle")
    /\ idx' = [idx EXCEPT ![p] = 1]
    /\ seen' = [seen EXCEPT ![p] = {}]
    /\ gc' = [gc EXCEPT ![p] = FALSE]

---------------------------------------------------------------------------
(* pid_alive: kill(pid, 0), false for pid <= 0                             *)
pid_alive(q) == q # NoPid /\ q \in alive

(* robust_lock: a lock whose owner died is taken over and made consistent  *)
PlainLock(p) ==
    /\ mtx = NoPid
    /\ mtx' = pid[p]
robust_lock(p) ==
    /\ mtx = NoPid \/ mtx \notin alive
    /\ mtx' = pid[p]

Unlock(p) == mtx' = NoPid

---------------------------------------------------------------------------
(* IpcInfoPool::instance(): the segment is opened, and whoever changes      *)
(* init_state from Uninit to InProgress initializes the header; everybody   *)
(* else waits for Ready, 2000 times 1 ms, and does without the pool if it   *)
(* never comes.                                                             *)

Open(p) ==
    /\ pc[p] = "open"
    /\ \/ init = "uninit" /\ init' = "inprogress" /\ Goto(p, "initEntries")
       \/ init # "uninit" /\ Goto(p, "await") /\ UNCHANGED init
    /\ UNCHANGED <<mtx, entry, procVars, ready, slot, idx, seen, gc>>

InitEntries(p) ==
    /\ pc[p] = "initEntries"
    /\ mtx' = NoPid
    /\ entry' = [s \in Slots |-> [entry[s] EXCEPT !.used = FALSE]]
    /\ Goto(p, "initReady")
    /\ UNCHANGED <<init, procVars, ready, slot, idx, seen, gc>>

InitReady(p) ==
    /\ pc[p] = "initReady"
    /\ init' = "ready"
    /\ ready' = [ready EXCEPT ![p] = TRUE]
    /\ Goto(p, "idle")
    /\ UNCHANGED <<mtx, entry, procVars, slot, idx, seen, gc>>

Await(p) ==
    /\ pc[p] = "await" /\ init = "ready"
    /\ ready' = [ready EXCEPT ![p] = TRUE]
    /\ Goto(p, "idle")
    /\ UNCHANGED <<init, mtx, entry, procVars, slot, idx, seen, gc>>

\* Two seconds are over.  A living initializer finishes in that time.
AwaitOver(p) ==
    /\ pc[p] = "await" /\ init # "ready"
    /\ \A q \in Procs : pc[q] \notin {"initEntries", "initReady"}
    /\ Goto(p, "idle")
    /\ UNCHANGED <<init, mtx, entry, procVars, ready, slot, idx, seen, gc>>

---------------------------------------------------------------------------
(* register_entry: the first slot that is not in use.  The fields are       *)
(* stored before in_use; a table without a free slot gives -1.              *)

RegisterBegin(p) ==
    /\ pc[p] = "idle" /\ ready[p] /\ slot[p] = 0
    /\ Goto(p, "lockReg")
    /\ UNCHANGED <<init, mtx, entry, procVars, ready, slot, idx, seen, gc>>

RegisterLock(p) ==
    /\ pc[p] = "lockReg"
    /\ robust_lock(p)
    /\ idx' = [idx EXCEPT ![p] = 1]
    /\ Goto(p, "scanReg")
    /\ UNCHANGED <<init, entry, procVars, ready, slot, seen, gc>>

Taken(s) == entry[s].used

RegisterScan(p) ==
    /\ pc[p] = "scanReg" /\ idx[p] \in Slots
    /\ IF Taken(idx[p])
         THEN /\ idx' = [idx EXCEPT ![p] = @ + 1]
              /\ UNCHANGED <<entry, pc>>
         ELSE /\ entry' = [entry EXCEPT ![idx[p]].pid = pid[p]]
              /\ Goto(p, "commit")
              /\ UNCHANGED idx
    /\ UNCHANGED <<init, mtx, procVars, ready, slot, seen, gc>>

RegisterFull(p) ==
    /\ pc[p] = "scanReg" /\ idx[p] \notin Slots
    /\ Unlock(p)
    /\ Return(p)
    /\ UNCHANGED <<init, entry, procVars, ready, slot>>

RegisterCommit(p) ==
    /\ pc[p] = "commit"
    /\ entry' = [entry EXCEPT ![idx[p]].used = TRUE]
    /\ slot' = [slot EXCEPT ![p] = idx[p]]
    /\ Unlock(p)
    /\ Return(p)
    /\ UNCHANGED <<init, procVars, ready>>

---------------------------------------------------------------------------
(* ScopedRegistration::reset and unregister_entry.  The slot number is all  *)
(* that identifies the entry: whoever is in the slot is removed.            *)

UnregisterBegin(p) ==
    /\ pc[p] = "idle" /\ slot[p] # 0
    /\ Goto(p, "lockUnreg")
    /\ UNCHANGED <<init, mtx, entry, procVars, ready, slot, idx, seen, gc>>

UnregisterLock(p) ==
    /\ pc[p] = "lockUnreg"
    /\ robust_lock(p)
    /\ Goto(p, "clear")
    /\ UNCHANGED <<init, entry, procVars, ready, slot, idx, seen, gc>>

UnregisterClear(p) ==
    /\ pc[p] = "clear"
    /\ IF entry[slot[p]].used
         THEN /\ entry' = [entry EXCEPT ![slot[p]].pid = NoPid]
              /\ Goto(p, "clearUse")
              /\ UNCHANGED <<mtx, slot>>
         ELSE /\ slot' = [slot EXCEPT ![p] = 0]
              /\ Unlock(p) /\ Goto(p, "idle")
              /\ UNCHANGED entry
    /\ UNCHANGED <<init, procVars, ready, idx, seen, gc>>

UnregisterFree(p) ==
    /\ pc[p] = "clearUse"
    /\ entry' = [entry EXCEPT ![slot[p]].used = FALSE]
    /\ slot' = [slot EXCEPT ![p] = 0]
    /\ Unlock(p) /\ Goto(p, "idle")
    /\ UNCHANGED <<init, procVars, ready, idx, seen, gc>>

---------------------------------------------------------------------------
(* snapshot(gc) and gc_dead: the whole table under the lock; the entry of a *)
(* dead process is cleared if gc is set and listed as not alive otherwise.  *)

SnapshotBegin(p, collecting) ==
    /\ pc[p] = "idle" /\ ready[p]
    /\ gc' = [gc EXCEPT ![p] = collecting]
    /\ Goto(p, "lockSnap")
    /\ UNCHANGED <<init, mtx, entry, procVars, ready, slot, idx, seen>>

SnapshotLockFree(p) ==
    /\ pc[p] = "lockSnap"
    /\ idx' = [idx EXCEPT ![p] = 1]
    /\ seen' = [seen EXCEPT ![p] = {}]
    /\ Goto(p, "scanSnap")
    /\ UNCHANGED <<init, mtx, entry, procVars, ready, slot, gc>>
SnapshotLock(p) ==
    /\ pc[p] = "lockSnap"
    /\ robust_lock(p)
    /\ idx' = [idx EXCEPT ![p] = 1]
    /\ seen' = [seen EXCEPT ![p] = {}]
    /\ Goto(p, "scanSnap")
    /\ UNCHANGED <<init, entry, procVars, ready, slot, gc>>

Collects(p, s) == gc[p] /\ ~pid_alive(entry[s].pid)

SnapshotScan(p) ==
    LET i == idx[p] IN
    /\ pc[p] = "scanSnap" /\ i \in Slots
    /\ IF entry[i].used /\ Collects(p, i)
         THEN /\ entry' = [entry EXCEPT ![i].pid = NoPid]
              /\ Goto(p, "collect")
              /\ UNCHANGED <<idx, seen>>
         ELSE /\ seen' = [seen EXCEPT ![p] =
                             IF entry[i].used THEN @ \cup {i} ELSE @]
              /\ idx' = [idx EXCEPT ![p] = @ + 1]
              /\ UNCHANGED <<entry, pc>>
    /\ UNCHANGED <<init, mtx, procVars, ready, slot, gc>>

SnapshotCollect(p) ==
    /\ pc[p] = "collect"
    /\ entry' = [entry EXCEPT ![idx[p]].used = FALSE]
    /\ idx' = [idx EXCEPT ![p] = @ + 1]
    /\ Goto(p, "scanSnap")
    /\ UNCHANGED <<init, mtx, procVars, ready, slot, seen, gc>>

\* The lock is released by leaving its scope; the copy has been made.
SnapshotUnlock(p) ==
    /\ pc[p] = "scanSnap" /\ idx[p] \notin Slots
    /\ Unlock(p)
    /\ Return(p)
    /\ UNCHANGED <<init, entry, procVars, ready, slot>>

---------------------------------------------------------------------------
(* The environment: programs start with a new pid and die at any point.     *)

Start(p) ==
    /\ pc[p] = "off" /\ nextPid <= MaxPids
    /\ pid' = [pid EXCEPT ![p] = nextPid]
    /\ alive' = alive \cup {nextPid}
    /\ nextPid' = nextPid + 1
    /\ Goto(p, "open")
    /\ UNCHANGED <<init, mtx, entry, ready, slot, idx, seen, gc>>

Crash(p) ==
    /\ pc[p] # "off"
    /\ alive' = alive \ {pid[p]}
    /\ pid' = [pid EXCEPT ![p] = NoPid]
    /\ ready' = [ready EXCEPT ![p] = FALSE]
    /\ slot' = [slot EXCEPT ![p] = 0]
    /\ idx' = [idx EXCEPT ![p] = 1]
    /\ seen' = [seen EXCEPT ![p] = {}]
    /\ gc' = [gc EXCEPT ![p] = FALSE]
    /\ Goto(p, "off")
    /\ UNCHANGED <<init, mtx, entry, nextPid>>

Call(p) ==
    \/ Open(p) \/ InitEntries(p) \/ InitReady(p) \/ Await(p) \/ AwaitOver(p)
    \/ RegisterLock(p) \/ RegisterScan(p) \/ RegisterFull(p) \/ RegisterCommit(p)
    \/ UnregisterLock(p) \/ UnregisterClear(p) \/ UnregisterFree(p)
    \/ SnapshotLock(p) \/ SnapshotScan(p) \/ SnapshotCollect(p) \/ SnapshotUnlock(p)

Begin(p) ==
    \/ RegisterBegin(p) \/ UnregisterBegin(p)
    \/ \E c \in BOOLEAN : SnapshotBegin(p, c)

Next == \E p \in Procs : Start(p) \/ Crash(p) \/ Begin(p) \/ Call(p)

(* A call that has begun goes on while its process lives, and gets the     *)
(* mutex if it is free again and again (the kernel wakes a futex waiter).   *)
Fairness == \A p \in Procs : SF_vars(Call(p))

(* Programs that list the table are run again and again (dzipc_list in      *)
(* watch mode, the socket publisher's discovery thread).                    *)
SomebodyLooks ==
    \A p \in Procs : SF_vars(SnapshotBegin(p, TRUE))

Spec == Init /\ [][Next]_vars /\ Fairness /\ SomebodyLooks

---------------------------------------------------------------------------
(* LivingListed: while a process lives and has not begun to unregister, the *)
(* slot it was given is in use and is its own: no collection, no other      *)
(* registration and no crash of another process with the lock takes it.     *)
LivingListed ==
    \A p \in Procs :
        slot[p] # 0 /\ pc[p] \notin {"clear", "clearUse"} =>
            entry[slot[p]] = [used |-> TRUE, pid |-> pid[p]]

(* SnapshotExact: the copy a snapshot leaves the lock with holds exactly the *)
(* slots in use at that moment, although it looked at them one by one while  *)
(* others register, unregister and die.                                      *)
SnapshotExact ==
    \A p \in Procs :
        pc[p] = "scanSnap" /\ idx[p] \notin Slots =>
            seen[p] = {s \in Slots : entry[s].used}

(* CallsReturn: every call on the pool comes back (or its process dies),     *)
(* also when somebody died with the mutex or in the middle of initializing   *)
(* the header.                                                               *)
CallsReturn ==
    \A p \in Procs : pc[p] \notin {"off", "idle"} ~> pc[p] \in {"off", "idle"}

(* DeadAreCollected: the entry of a dead process, half written or half       *)
(* cleared ones included, does not stay for ever while somebody who reached  *)
(* the pool is left to look at the table.                                    *)
DeadAreCollected ==
    \A s \in Slots :
        (entry[s].used /\ ~(entry[s].pid \in alive))
            ~> (~entry[s].used \/ entry[s].pid \in alive \/ \A p \in Procs : ~ready[p])
=============================================================================

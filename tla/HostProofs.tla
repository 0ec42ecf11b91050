----------------------------- MODULE HostProofs -----------------------------
(***************************************************************************)
(* What the table of endpoints, the UDP sockets and the delivery of topics *)
(* keep true, for every number of processes, pids, entries, nodes and      *)
(* connects, of subscribers, confirmations and messages.                   *)
(***************************************************************************)
EXTENDS Host, FiniteSetTheorems, SequenceTheorems, TLAPS
-----------------------------------------------------------------------------
(***************************************************************************)
(* InfoPool: whoever dies where, a living process keeps its entry.         *)
(***************************************************************************)

\* Where a process can stand in a call
Places ==
    {"off", "open", "initEntries", "initReady", "await", "idle", "lockReg", "scanReg", "commit",
     "lockUnreg", "clear", "clearUse", "lockSnap", "scanSnap", "collect"}

\* Where a process holds the mutex, uses the table, initializes the header
Locked == {"scanReg", "commit", "clear", "clearUse", "scanSnap", "collect"}
Using == Locked \cup {"lockReg", "lockUnreg", "lockSnap"}
Initializing == {"initEntries", "initReady"}

\* A running process has a pid of its own, which no later one gets.
PidOK ==
    /\ \A p \in Procs : ipc[p] = "off" => pid[p] = 0
    /\ \A p \in Procs : ipc[p] # "off" => pid[p] \in alive /\ pid[p] \in 1 .. nextPid - 1
    /\ \A p, q \in Procs : pid[p] = pid[q] /\ pid[p] # 0 => p = q

\* One process initializes the header, before anybody uses the table.
InitOK ==
    /\ \A p \in Procs : ipc[p] \in Initializing => init = "inprogress"
    /\ \A p, q \in Procs : ipc[p] \in Initializing /\ ipc[q] \in Initializing => p = q
    /\ \A p \in Procs : slot[p] # 0 \/ ipc[p] \in Using => ready[p]
    /\ \A p \in Procs : ready[p] => init = "ready" /\ ipc[p] # "off"

\* Who works on the table owns the mutex.
LockOK == \A p \in Procs : ipc[p] \in Locked => mtx = pid[p]

\* What each working process left of the entry it works on
WorkOK ==
    \A p \in Procs :
        /\ ipc[p] = "commit" => idx[p] \in I!Slots /\ entry[idx[p]] = [used |-> FALSE, pid |-> pid[p]]
        /\ ipc[p] \in {"lockUnreg", "clear", "clearUse"} => slot[p] # 0
        /\ ipc[p] = "clearUse" => entry[slot[p]].pid = 0
        /\ ipc[p] = "collect" => idx[p] \in I!Slots /\ entry[idx[p]].pid = 0

\* A registered process keeps its entry until it clears it.
KeptOK ==
    \A p \in Procs :
        slot[p] # 0 /\ ipc[p] # "clearUse" => entry[slot[p]] = [used |-> TRUE, pid |-> pid[p]]

\* A running snapshot has copied the entries in use behind its index.
SeenOK ==
    \A p \in Procs :
        ipc[p] \in {"scanSnap", "collect"} =>
            seen[p] = {s \in I!Slots : s < idx[p] /\ entry[s].used}

PoolInv == I!TypeOK /\ PidOK /\ InitOK /\ LockOK /\ WorkOK /\ KeptOK /\ SeenOK
-----------------------------------------------------------------------------
\* Nobody runs, nothing is registered.
LEMMA PoolInit == I!Init => PoolInv
<1> SUFFICES ASSUME I!Init PROVE PoolInv
  OBVIOUS
<1>1. I!TypeOK
  BY HostAssumption DEF I!Init, I!TypeOK, I!Slots, I!Empty, I!NoPid
<1>2. \A p \in Procs : ipc[p] = "off" /\ slot[p] = 0 /\ pid[p] = 0 /\ ready[p] = FALSE
  BY DEF I!Init, I!NoPid
<1> QED
  BY <1>1, <1>2 DEF PoolInv, PidOK, InitOK, LockOK, WorkOK, KeptOK, SeenOK,
                    Locked, Using, Initializing

\* Numbers within the bounds of the types
LEMMA Sizes ==
    /\ 0 \in 0 .. MaxPids /\ 0 \in 0 .. NSlots /\ 1 \in 1 .. (NSlots + 1)
    /\ \A i \in I!Slots : i \in 0 .. NSlots /\ i + 1 \in 1 .. (NSlots + 1)
    /\ \A k \in 1 .. (MaxPids + 1) : k <= MaxPids =>
           k \in 1 .. MaxPids /\ k \in 0 .. MaxPids /\ k + 1 \in 1 .. (MaxPids + 1)
BY HostAssumption DEF I!Slots

\* Storing a pid or in_use in an entry
LEMMA EntryTypes ==
    ASSUME I!TypeOK, NEW i, NEW k \in 0 .. MaxPids, NEW b \in BOOLEAN
    PROVE  /\ [entry EXCEPT ![i].pid = k] \in [I!Slots -> [used : BOOLEAN, pid : 0 .. MaxPids]]
           /\ [entry EXCEPT ![i].used = b] \in [I!Slots -> [used : BOOLEAN, pid : 0 .. MaxPids]]
<1>1. \A e \in [used : BOOLEAN, pid : 0 .. MaxPids] :
        /\ [e EXCEPT !.pid = k] \in [used : BOOLEAN, pid : 0 .. MaxPids]
        /\ [e EXCEPT !.used = b] \in [used : BOOLEAN, pid : 0 .. MaxPids]
  OBVIOUS
<1> QED
  BY <1>1 DEF I!TypeOK

\* Every step keeps the types.
LEMMA PoolTypes ==
    ASSUME I!TypeOK, WorkOK, NEW p \in Procs,
           I!Start(p) \/ I!Crash(p) \/ I!Begin(p) \/ I!Call(p)
    PROVE  I!TypeOK'
<1> USE DEF I!Goto, I!procVars, I!NoPid
<1>1. CASE I!Start(p) \/ I!Crash(p)
  <2>1. nextPid' \in 1..(MaxPids + 1) /\ alive' \subseteq 1..MaxPids /\ pid' \in [Procs -> 0..MaxPids]
    <3>1. CASE I!Start(p)
      BY <3>1, Sizes DEF I!TypeOK, I!Start
    <3>2. CASE I!Crash(p)
      BY <3>2, Sizes DEF I!TypeOK, I!Crash
    <3> QED
      BY <1>1, <3>1, <3>2
  <2>2. ipc' \in [Procs -> Places]
    BY <1>1 DEF I!TypeOK, I!Start, I!Crash, Places
  <2>3. ready' \in [Procs -> BOOLEAN]
    BY <1>1 DEF I!TypeOK, I!Start, I!Crash
  <2>4. slot' \in [Procs -> 0..NSlots]
    BY <1>1, Sizes DEF I!TypeOK, I!Start, I!Crash
  <2>5. idx' \in [Procs -> 1..(NSlots + 1)]
    BY <1>1, Sizes DEF I!TypeOK, I!Start, I!Crash
  <2>6. seen' \in [Procs -> SUBSET I!Slots]
    BY <1>1 DEF I!TypeOK, I!Start, I!Crash, I!Slots
  <2>7. gc' \in [Procs -> BOOLEAN]
    BY <1>1 DEF I!TypeOK, I!Start, I!Crash
  <2>8. UNCHANGED <<init, mtx, entry>>
    BY <1>1 DEF I!Start, I!Crash
  <2> QED
    BY <2>1, <2>2, <2>3, <2>4, <2>5, <2>6, <2>7, <2>8 DEF I!TypeOK, Places, I!Slots
<1>2. CASE I!Open(p) \/ I!InitReady(p) \/ I!Await(p) \/ I!AwaitOver(p)
  <2>1. init' \in {"uninit", "inprogress", "ready"}
    BY <1>2 DEF I!TypeOK, I!Open, I!InitReady, I!Await, I!AwaitOver
  <2>2. ipc' \in [Procs -> Places]
    BY <1>2 DEF I!TypeOK, I!Open, I!InitReady, I!Await, I!AwaitOver, Places
  <2>3. ready' \in [Procs -> BOOLEAN]
    BY <1>2 DEF I!TypeOK, I!Open, I!InitReady, I!Await, I!AwaitOver
  <2>4. UNCHANGED <<mtx, entry, nextPid, alive, pid, slot, idx, seen, gc>>
    BY <1>2 DEF I!Open, I!InitReady, I!Await, I!AwaitOver
  <2> QED
    BY <2>1, <2>2, <2>3, <2>4 DEF I!TypeOK, Places, I!Slots
<1>3. CASE I!InitEntries(p)
  <2>1. mtx' \in 0..MaxPids
    BY <1>3, HostAssumption DEF I!TypeOK, I!InitEntries
  <2>2. entry' \in [I!Slots -> [used : BOOLEAN, pid : 0..MaxPids]]
    BY <1>3, Sizes DEF I!TypeOK, I!InitEntries, I!Slots
  <2>3. ipc' \in [Procs -> Places]
    BY <1>3 DEF I!TypeOK, I!InitEntries, Places
  <2>4. UNCHANGED <<init, nextPid, alive, pid, ready, slot, idx, seen, gc>>
    BY <1>3 DEF I!InitEntries
  <2> QED
    BY <2>1, <2>2, <2>3, <2>4 DEF I!TypeOK, Places, I!Slots
<1>4. CASE I!RegisterBegin(p) \/ I!UnregisterBegin(p)
  <2>1. ipc' \in [Procs -> Places]
    BY <1>4 DEF I!TypeOK, I!RegisterBegin, I!UnregisterBegin, Places
  <2>2. UNCHANGED <<init, mtx, entry, nextPid, alive, pid, ready, slot, idx, seen, gc>>
    BY <1>4 DEF I!RegisterBegin, I!UnregisterBegin
  <2> QED
    BY <2>1, <2>2 DEF I!TypeOK, Places, I!Slots
<1>5. CASE I!RegisterLock(p) \/ I!UnregisterLock(p) \/ I!SnapshotLock(p)
  <2>1. mtx' \in 0..MaxPids
    BY <1>5, HostAssumption DEF I!TypeOK, I!RegisterLock, I!UnregisterLock, I!SnapshotLock, I!robust_lock
  <2>2. ipc' \in [Procs -> Places]
    BY <1>5 DEF I!TypeOK, I!RegisterLock, I!UnregisterLock, I!SnapshotLock, I!robust_lock, Places
  <2>3. idx' \in [Procs -> 1..(NSlots + 1)]
    BY <1>5, Sizes DEF I!TypeOK, I!RegisterLock, I!UnregisterLock, I!SnapshotLock, I!robust_lock
  <2>4. seen' \in [Procs -> SUBSET I!Slots]
    BY <1>5 DEF I!TypeOK, I!RegisterLock, I!UnregisterLock, I!SnapshotLock, I!robust_lock, I!Slots
  <2>5. UNCHANGED <<init, entry, nextPid, alive, pid, ready, slot, gc>>
    BY <1>5 DEF I!RegisterLock, I!UnregisterLock, I!SnapshotLock, I!robust_lock
  <2> QED
    BY <2>1, <2>2, <2>3, <2>4, <2>5 DEF I!TypeOK, Places, I!Slots
<1>6. CASE I!RegisterScan(p)
  <2>1. entry' \in [I!Slots -> [used : BOOLEAN, pid : 0..MaxPids]]
    <3>1. pid[p] \in 0 .. MaxPids /\ entry \in [I!Slots -> [used : BOOLEAN, pid : 0 .. MaxPids]]
      BY DEF I!TypeOK
    <3>2. [entry EXCEPT ![idx[p]].pid = pid[p]] \in [I!Slots -> [used : BOOLEAN, pid : 0 .. MaxPids]]
      BY <3>1, EntryTypes
    <3> QED
      BY <1>6, <3>1, <3>2 DEF I!RegisterScan
  <2>2. ipc' \in [Procs -> Places]
    BY <1>6 DEF I!TypeOK, I!RegisterScan, Places
  <2>3. idx' \in [Procs -> 1..(NSlots + 1)]
    BY <1>6, Sizes DEF I!TypeOK, I!RegisterScan
  <2>4. UNCHANGED <<init, mtx, nextPid, alive, pid, ready, slot, seen, gc>>
    BY <1>6 DEF I!RegisterScan
  <2> QED
    BY <2>1, <2>2, <2>3, <2>4 DEF I!TypeOK, Places, I!Slots
<1>7. CASE I!RegisterFull(p) \/ I!SnapshotUnlock(p)
  <2>1. mtx' \in 0..MaxPids
    BY <1>7, HostAssumption DEF I!TypeOK, I!RegisterFull, I!SnapshotUnlock, I!Unlock, I!Return
  <2>2. ipc' \in [Procs -> Places]
    BY <1>7 DEF I!TypeOK, I!RegisterFull, I!SnapshotUnlock, I!Unlock, I!Return, Places
  <2>3. idx' \in [Procs -> 1..(NSlots + 1)]
    BY <1>7, Sizes DEF I!TypeOK, I!RegisterFull, I!SnapshotUnlock, I!Unlock, I!Return
  <2>4. seen' \in [Procs -> SUBSET I!Slots]
    BY <1>7 DEF I!TypeOK, I!RegisterFull, I!SnapshotUnlock, I!Unlock, I!Return, I!Slots
  <2>5. gc' \in [Procs -> BOOLEAN]
    BY <1>7 DEF I!TypeOK, I!RegisterFull, I!SnapshotUnlock, I!Unlock, I!Return
  <2>6. UNCHANGED <<init, entry, nextPid, alive, pid, ready, slot>>
    BY <1>7 DEF I!RegisterFull, I!SnapshotUnlock, I!Unlock, I!Return
  <2> QED
    BY <2>1, <2>2, <2>3, <2>4, <2>5, <2>6 DEF I!TypeOK, Places, I!Slots
<1>8. CASE I!RegisterCommit(p)
  <2>1. mtx' \in 0..MaxPids
    BY <1>8, HostAssumption DEF I!TypeOK, WorkOK, I!RegisterCommit, I!Unlock, I!Return
  <2>2. entry' \in [I!Slots -> [used : BOOLEAN, pid : 0..MaxPids]]
    BY <1>8, Sizes DEF I!TypeOK, WorkOK, I!RegisterCommit, I!Unlock, I!Return, I!Slots
  <2>3. ipc' \in [Procs -> Places]
    BY <1>8 DEF I!TypeOK, I!RegisterCommit, I!Unlock, I!Return, Places
  <2>4. slot' \in [Procs -> 0..NSlots]
    BY <1>8, Sizes DEF I!TypeOK, WorkOK, I!RegisterCommit, I!Unlock, I!Return
  <2>5. idx' \in [Procs -> 1..(NSlots + 1)]
    BY <1>8, Sizes DEF I!TypeOK, WorkOK, I!RegisterCommit, I!Unlock, I!Return
  <2>6. seen' \in [Procs -> SUBSET I!Slots]
    BY <1>8 DEF I!TypeOK, I!RegisterCommit, I!Unlock, I!Return, I!Slots
  <2>7. gc' \in [Procs -> BOOLEAN]
    BY <1>8 DEF I!TypeOK, I!RegisterCommit, I!Unlock, I!Return
  <2>8. UNCHANGED <<init, nextPid, alive, pid, ready>>
    BY <1>8 DEF I!RegisterCommit, I!Unlock, I!Return
  <2> QED
    BY <2>1, <2>2, <2>3, <2>4, <2>5, <2>6, <2>7, <2>8 DEF I!TypeOK, Places, I!Slots
<1>9. CASE I!UnregisterClear(p) \/ I!UnregisterFree(p)
  <2>1. mtx' \in 0..MaxPids
    BY <1>9, HostAssumption DEF I!TypeOK, I!UnregisterClear, I!UnregisterFree, I!Unlock
  <2>2. entry' \in [I!Slots -> [used : BOOLEAN, pid : 0..MaxPids]]
    <3>1. /\ entry \in [I!Slots -> [used : BOOLEAN, pid : 0 .. MaxPids]]
          /\ [entry EXCEPT ![slot[p]].pid = 0] \in [I!Slots -> [used : BOOLEAN, pid : 0 .. MaxPids]]
          /\ [entry EXCEPT ![slot[p]].used = FALSE] \in [I!Slots -> [used : BOOLEAN, pid : 0 .. MaxPids]]
      BY Sizes, EntryTypes DEF I!TypeOK
    <3> QED
      BY <1>9, <3>1 DEF I!UnregisterClear, I!UnregisterFree
  <2>3. ipc' \in [Procs -> Places]
    BY <1>9 DEF I!TypeOK, I!UnregisterClear, I!UnregisterFree, I!Unlock, Places
  <2>4. slot' \in [Procs -> 0..NSlots]
    BY <1>9, Sizes DEF I!TypeOK, I!UnregisterClear, I!UnregisterFree, I!Unlock
  <2>5. UNCHANGED <<init, nextPid, alive, pid, ready, idx, seen, gc>>
    BY <1>9 DEF I!UnregisterClear, I!UnregisterFree, I!Unlock
  <2> QED
    BY <2>1, <2>2, <2>3, <2>4, <2>5 DEF I!TypeOK, Places, I!Slots
<1>10. CASE I!SnapshotScan(p)
  <2>1. entry' \in [I!Slots -> [used : BOOLEAN, pid : 0..MaxPids]]
    <3>1. entry \in [I!Slots -> [used : BOOLEAN, pid : 0 .. MaxPids]] /\ [entry EXCEPT ![idx[p]].pid = 0] \in [I!Slots -> [used : BOOLEAN, pid : 0 .. MaxPids]]
      BY Sizes, EntryTypes DEF I!TypeOK
    <3> QED
      BY <1>10, <3>1 DEF I!SnapshotScan
  <2>2. ipc' \in [Procs -> Places]
    BY <1>10 DEF I!TypeOK, I!SnapshotScan, Places
  <2>3. idx' \in [Procs -> 1..(NSlots + 1)]
    BY <1>10, Sizes DEF I!TypeOK, I!SnapshotScan
  <2>4. seen' \in [Procs -> SUBSET I!Slots]
    <3>1. seen[p] \subseteq I!Slots /\ seen[p] \cup {idx[p]} \subseteq I!Slots
      BY <1>10 DEF I!TypeOK, I!SnapshotScan
    <3> QED
      BY <1>10, <3>1 DEF I!TypeOK, I!SnapshotScan
  <2>5. UNCHANGED <<init, mtx, nextPid, alive, pid, ready, slot, gc>>
    BY <1>10 DEF I!SnapshotScan
  <2> QED
    BY <2>1, <2>2, <2>3, <2>4, <2>5 DEF I!TypeOK, Places, I!Slots
<1>11. CASE I!SnapshotCollect(p)
  <2>1. entry' \in [I!Slots -> [used : BOOLEAN, pid : 0..MaxPids]]
    BY <1>11, Sizes DEF I!TypeOK, WorkOK, I!SnapshotCollect, I!Slots
  <2>2. ipc' \in [Procs -> Places]
    BY <1>11 DEF I!TypeOK, I!SnapshotCollect, Places
  <2>3. idx' \in [Procs -> 1..(NSlots + 1)]
    BY <1>11, Sizes DEF I!TypeOK, WorkOK, I!SnapshotCollect
  <2>4. UNCHANGED <<init, mtx, nextPid, alive, pid, ready, slot, seen, gc>>
    BY <1>11 DEF I!SnapshotCollect
  <2> QED
    BY <2>1, <2>2, <2>3, <2>4 DEF I!TypeOK, Places, I!Slots
<1>12. CASE \E c \in BOOLEAN : I!SnapshotBegin(p, c)
  <2>1. ipc' \in [Procs -> Places] /\ gc' \in [Procs -> BOOLEAN]
    BY <1>12 DEF I!TypeOK, I!SnapshotBegin, Places
  <2>2. UNCHANGED <<init, mtx, entry, nextPid, alive, pid, ready, slot, idx, seen>>
    BY <1>12 DEF I!SnapshotBegin
  <2> QED
    BY <2>1, <2>2 DEF I!TypeOK, Places, I!Slots
<1> QED
  BY <1>1, <1>2, <1>3, <1>4, <1>5, <1>6, <1>7, <1>8, <1>9, <1>10, <1>11, <1>12 DEF I!Call, I!Begin

\* A step of one process moves no other.
LEMMA PoolOthers ==
    ASSUME I!TypeOK, NEW p \in Procs,
           I!Start(p) \/ I!Crash(p) \/ I!Begin(p) \/ I!Call(p),
           NEW q \in Procs, q # p
    PROVE  /\ ipc'[q] = ipc[q] /\ pid'[q] = pid[q] /\ ready'[q] = ready[q]
           /\ slot'[q] = slot[q] /\ idx'[q] = idx[q] /\ seen'[q] = seen[q]
<1> USE DEF I!Goto, I!procVars, I!Return, I!TypeOK
<1>1. CASE I!Start(p) \/ I!Crash(p) \/ I!Begin(p)
  BY <1>1 DEF I!Start, I!Crash, I!Begin, I!RegisterBegin, I!UnregisterBegin, I!SnapshotBegin
<1>2. CASE I!Open(p) \/ I!InitEntries(p) \/ I!InitReady(p) \/ I!Await(p) \/ I!AwaitOver(p)
  BY <1>2 DEF I!Open, I!InitEntries, I!InitReady, I!Await, I!AwaitOver
<1>3. CASE I!RegisterLock(p) \/ I!RegisterScan(p) \/ I!RegisterFull(p) \/ I!RegisterCommit(p)
  BY <1>3 DEF I!RegisterLock, I!RegisterScan, I!RegisterFull, I!RegisterCommit
<1>4. CASE I!UnregisterLock(p) \/ I!UnregisterClear(p) \/ I!UnregisterFree(p)
  BY <1>4 DEF I!UnregisterLock, I!UnregisterClear, I!UnregisterFree
<1>5. CASE I!SnapshotLock(p) \/ I!SnapshotScan(p) \/ I!SnapshotCollect(p) \/ I!SnapshotUnlock(p)
  BY <1>5 DEF I!SnapshotLock, I!SnapshotScan, I!SnapshotCollect, I!SnapshotUnlock
<1> QED
  BY <1>1, <1>2, <1>3, <1>4, <1>5 DEF I!Call

\* A call neither starts nor ends a process.
LEMMA PoolCalls ==
    ASSUME I!TypeOK, NEW p \in Procs, I!Begin(p) \/ I!Call(p)
    PROVE  UNCHANGED <<nextPid, alive, pid>> /\ ipc[p] # "off" /\ ipc'[p] # "off"
<1> USE DEF I!Goto, I!procVars, I!Return, I!TypeOK
<1>1. CASE I!Begin(p)
  BY <1>1 DEF I!Begin, I!RegisterBegin, I!UnregisterBegin, I!SnapshotBegin
<1>2. CASE I!Open(p) \/ I!InitEntries(p) \/ I!InitReady(p) \/ I!Await(p) \/ I!AwaitOver(p)
  BY <1>2 DEF I!Open, I!InitEntries, I!InitReady, I!Await, I!AwaitOver
<1>3. CASE I!RegisterLock(p) \/ I!RegisterScan(p) \/ I!RegisterFull(p) \/ I!RegisterCommit(p)
  BY <1>3 DEF I!RegisterLock, I!RegisterScan, I!RegisterFull, I!RegisterCommit
<1>4. CASE I!UnregisterLock(p) \/ I!UnregisterClear(p) \/ I!UnregisterFree(p)
  BY <1>4 DEF I!UnregisterLock, I!UnregisterClear, I!UnregisterFree
<1>5. CASE I!SnapshotLock(p) \/ I!SnapshotScan(p) \/ I!SnapshotCollect(p) \/ I!SnapshotUnlock(p)
  BY <1>5 DEF I!SnapshotLock, I!SnapshotScan, I!SnapshotCollect, I!SnapshotUnlock
<1> QED
  BY <1>1, <1>2, <1>3, <1>4, <1>5 DEF I!Call

\* Every step keeps the pids apart.
LEMMA PoolPids ==
    ASSUME PoolInv, NEW p \in Procs,
           I!Start(p) \/ I!Crash(p) \/ I!Begin(p) \/ I!Call(p)
    PROVE  PidOK'
<1>0. /\ I!TypeOK /\ PidOK
      /\ \A q \in Procs : q # p => ipc'[q] = ipc[q] /\ pid'[q] = pid[q]
  BY PoolOthers DEF PoolInv
<1>1. CASE I!Start(p)
  <2>1. /\ ipc'[p] = "open" /\ pid'[p] = nextPid
        /\ alive' = alive \cup {nextPid} /\ nextPid' = nextPid + 1
    BY <1>0, <1>1 DEF I!Start, I!Goto, I!TypeOK
  <2>2. nextPid \in Nat \ {0} /\ \A q \in Procs : pid[q] \in Nat
    BY <1>0, HostAssumption DEF I!TypeOK
  <2>3. \A q \in Procs : q # p => pid[q] < nextPid
    BY <1>0, <2>2 DEF PidOK
  <2> QED
    BY <1>0, <2>1, <2>2, <2>3 DEF PidOK
<1>2. CASE I!Crash(p)
  <2>1. /\ ipc'[p] = "off" /\ pid'[p] = 0 /\ nextPid' = nextPid
        /\ alive' = alive \ {pid[p]}
    BY <1>0, <1>2 DEF I!Crash, I!Goto, I!TypeOK, I!NoPid
  <2>2. \A q \in Procs : q # p /\ ipc[q] # "off" => pid[q] # pid[p]
    BY <1>0, <2>1, HostAssumption DEF PidOK, I!TypeOK
  <2> QED
    BY <1>0, <2>1, <2>2 DEF PidOK
<1>3. CASE I!Begin(p) \/ I!Call(p)
  <2>1. UNCHANGED <<nextPid, alive, pid>> /\ ipc[p] # "off" /\ ipc'[p] # "off"
    BY <1>0, <1>3, PoolCalls
  <2> QED
    BY <1>0, <2>1 DEF PidOK
<1> QED
  BY <1>1, <1>2, <1>3

\* Every step leaves the header to one initializer.
LEMMA PoolHeader ==
    ASSUME PoolInv, NEW p \in Procs,
           I!Start(p) \/ I!Crash(p) \/ I!Begin(p) \/ I!Call(p)
    PROVE  InitOK'
<1> USE DEF I!Goto, Locked, Using, Initializing
<1>0. /\ I!TypeOK /\ InitOK
      /\ \A q \in Procs : q # p => ipc'[q] = ipc[q] /\ ready'[q] = ready[q] /\ slot'[q] = slot[q]
  BY PoolOthers DEF PoolInv
<1>1. CASE I!Start(p)
  <2>1. ipc'[p] = "open" /\ ready'[p] = ready[p] /\ slot'[p] = slot[p] /\ init' = init /\ ipc[p] = "off"
    BY <1>0, <1>1 DEF I!Start, I!TypeOK
  <2>2. ~ready[p] /\ slot[p] = 0
    BY <1>0, <2>1 DEF InitOK
  <2> QED
    BY <1>0, <2>1, <2>2 DEF InitOK
<1>2. CASE I!Crash(p)
  <2>1. ipc'[p] = "off" /\ ~ready'[p] /\ slot'[p] = 0 /\ init' = init
    BY <1>0, <1>2 DEF I!Crash, I!TypeOK
  <2> QED
    BY <1>0, <2>1 DEF InitOK
<1>3. CASE I!Open(p)
  <2>1. ready'[p] = ready[p] /\ slot'[p] = slot[p]
    BY <1>0, <1>3 DEF I!Open
  <2>2. ~ready[p] \/ init = "ready"
    BY <1>0 DEF InitOK
  <2>3. CASE init = "uninit" /\ init' = "inprogress" /\ ipc'[p] = "initEntries"
    <3>1. \A q \in Procs : ~ready[q] /\ ipc[q] \notin Initializing
      BY <1>0, <2>3 DEF InitOK
    <3> QED
      BY <1>0, <2>1, <2>3, <3>1 DEF InitOK
  <2>4. CASE init' = init /\ ipc'[p] = "await"
    BY <1>0, <1>3, <2>1, <2>4 DEF InitOK, I!Open
  <2> QED
    BY <1>0, <1>3, <2>3, <2>4 DEF I!Open, I!TypeOK
<1>4. CASE I!InitEntries(p)
  <2>1. /\ ipc[p] = "initEntries" /\ ipc'[p] = "initReady"
        /\ ready' = ready /\ slot' = slot /\ init' = init
    BY <1>0, <1>4 DEF I!InitEntries, I!TypeOK
  <2> QED
    BY <1>0, <2>1 DEF InitOK
<1>5. CASE I!InitReady(p)
  <2>1. /\ ipc[p] = "initReady" /\ ipc'[p] = "idle"
        /\ ready'[p] /\ slot' = slot /\ init' = "ready"
    BY <1>0, <1>5 DEF I!InitReady, I!TypeOK
  <2> QED
    BY <1>0, <2>1 DEF InitOK
<1>6. CASE I!Await(p) \/ I!AwaitOver(p)
  <2>1. /\ ipc'[p] = "idle" /\ slot' = slot /\ init' = init
        /\ ready'[p] = ready[p] \/ (ready'[p] /\ init = "ready")
    BY <1>0, <1>6 DEF I!Await, I!AwaitOver, I!TypeOK
  <2> QED
    BY <1>0, <2>1 DEF InitOK
<1>7. CASE I!Begin(p)
  <2>1. /\ ipc[p] = "idle" /\ ipc'[p] \in {"lockReg", "lockUnreg", "lockSnap"}
        /\ ready' = ready /\ slot' = slot /\ init' = init /\ (ready[p] \/ slot[p] # 0)
    BY <1>0, <1>7 DEF I!Begin, I!RegisterBegin, I!UnregisterBegin, I!SnapshotBegin, I!TypeOK
  <2> QED
    BY <1>0, <2>1 DEF InitOK
<1>8. CASE \/ I!RegisterLock(p) \/ I!RegisterScan(p) \/ I!RegisterFull(p) \/ I!RegisterCommit(p)
           \/ I!UnregisterLock(p) \/ I!UnregisterClear(p) \/ I!UnregisterFree(p)
           \/ I!SnapshotLock(p) \/ I!SnapshotScan(p) \/ I!SnapshotCollect(p) \/ I!SnapshotUnlock(p)
  <2>1. ipc[p] \in Using /\ ready' = ready /\ init' = init
    BY <1>8 DEF I!RegisterLock, I!RegisterScan, I!RegisterFull, I!RegisterCommit,
          I!UnregisterLock, I!UnregisterClear, I!UnregisterFree,
          I!SnapshotLock, I!SnapshotScan, I!SnapshotCollect, I!SnapshotUnlock
  <2>2. ipc'[p] \in Using \cup {"idle"}
    <3>1. CASE I!RegisterLock(p) \/ I!RegisterScan(p) \/ I!RegisterFull(p) \/ I!RegisterCommit(p)
      BY <1>0, <3>1 DEF I!RegisterLock, I!RegisterScan, I!RegisterFull, I!RegisterCommit, I!Return,
            I!TypeOK
    <3>2. CASE I!UnregisterLock(p) \/ I!UnregisterClear(p) \/ I!UnregisterFree(p)
      BY <1>0, <3>2 DEF I!UnregisterLock, I!UnregisterClear, I!UnregisterFree, I!TypeOK
    <3>3. CASE I!SnapshotLock(p) \/ I!SnapshotScan(p) \/ I!SnapshotCollect(p) \/ I!SnapshotUnlock(p)
      BY <1>0, <3>3 DEF I!SnapshotLock, I!SnapshotScan, I!SnapshotCollect, I!SnapshotUnlock,
            I!Return, I!TypeOK
    <3> QED
      BY <1>8, <3>1, <3>2, <3>3
  <2> QED
    BY <1>0, <2>1, <2>2 DEF InitOK
<1> QED
  BY <1>1, <1>2, <1>3, <1>4, <1>5, <1>6, <1>7, <1>8 DEF I!Call

\* A process with the mutex, or at the header, is alone with the table.
LEMMA Alone ==
    ASSUME PoolInv, NEW p \in Procs, ipc[p] \in Locked \cup Initializing,
           NEW q \in Procs, q # p
    PROVE  ipc[q] \notin Locked
<1> SUFFICES ASSUME ipc[q] \in Locked PROVE FALSE
  OBVIOUS
<1>1. ready[q] /\ init = "ready" /\ mtx = pid[q]
  BY DEF PoolInv, InitOK, LockOK, Using
<1>2. ipc[p] \in Locked
  BY <1>1 DEF PoolInv, InitOK, Initializing
<1>3. mtx = pid[p] /\ pid[p] # 0
  BY <1>2, HostAssumption DEF PoolInv, LockOK, PidOK, Locked, I!TypeOK
<1> QED
  BY <1>1, <1>3 DEF PoolInv, PidOK

\* Every step leaves the mutex to the process that works on the table.
LEMMA PoolLock ==
    ASSUME PoolInv, NEW p \in Procs,
           I!Start(p) \/ I!Crash(p) \/ I!Begin(p) \/ I!Call(p)
    PROVE  LockOK'
<1> USE DEF I!Goto
<1>0. /\ I!TypeOK /\ LockOK
      /\ \A q \in Procs : q # p => ipc'[q] = ipc[q] /\ pid'[q] = pid[q]
  BY PoolOthers DEF PoolInv
<1>1. ASSUME mtx' = mtx, ipc'[p] \in Locked => ipc[p] \in Locked /\ pid'[p] = pid[p] PROVE LockOK'
  BY <1>0, <1>1 DEF LockOK
<1>2. ASSUME ipc[p] \in Locked \cup Initializing, ipc'[p] \notin Locked PROVE LockOK'
  <2>1. \A q \in Procs : ipc'[q] \notin Locked
    BY <1>0, <1>2, Alone
  <2> QED
    BY <2>1 DEF LockOK
<1>3. CASE I!RegisterLock(p) \/ I!UnregisterLock(p) \/ I!SnapshotLock(p)
  <2>1. /\ mtx = 0 \/ mtx \notin alive
        /\ mtx' = pid[p] /\ pid' = pid
    BY <1>3 DEF I!RegisterLock, I!UnregisterLock, I!SnapshotLock, I!robust_lock, I!NoPid, I!procVars
  <2>2. \A q \in Procs : ipc[q] \in Locked => mtx = pid[q] /\ pid[q] \in alive /\ pid[q] # 0
    BY <1>0, HostAssumption DEF PoolInv, LockOK, PidOK, Locked, I!TypeOK
  <2> QED
    BY <1>0, <2>1, <2>2 DEF LockOK
<1>4. CASE I!Start(p) \/ I!Crash(p) \/ I!Open(p) \/ I!InitReady(p) \/ I!Await(p) \/ I!AwaitOver(p)
  <2>1. mtx' = mtx /\ ipc'[p] \notin Locked
    BY <1>0, <1>4 DEF I!Start, I!Crash, I!Open, I!InitReady, I!Await, I!AwaitOver, I!TypeOK, Locked
  <2> QED
    BY <1>1, <2>1
<1>5. CASE I!Begin(p)
  <2>1. mtx' = mtx /\ ipc'[p] \notin Locked
    BY <1>0, <1>5 DEF I!Begin, I!RegisterBegin, I!UnregisterBegin, I!SnapshotBegin, I!TypeOK, Locked
  <2> QED
    BY <1>1, <2>1
<1>6. CASE I!InitEntries(p)
  <2>1. ipc[p] \in Initializing /\ ipc'[p] \notin Locked
    BY <1>0, <1>6 DEF I!InitEntries, I!TypeOK, Locked, Initializing
  <2> QED
    BY <1>2, <2>1
<1>7. CASE I!RegisterScan(p) \/ I!SnapshotScan(p) \/ I!SnapshotCollect(p)
  <2>1. mtx' = mtx /\ pid' = pid /\ ipc[p] \in Locked
    BY <1>7 DEF I!RegisterScan, I!SnapshotScan, I!SnapshotCollect, I!procVars, Locked
  <2> QED
    BY <1>1, <2>1
<1>8. CASE I!RegisterFull(p) \/ I!RegisterCommit(p) \/ I!UnregisterFree(p) \/ I!SnapshotUnlock(p)
  <2>1. ipc[p] \in Locked /\ ipc'[p] \notin Locked
    BY <1>0, <1>8 DEF I!RegisterFull, I!RegisterCommit, I!UnregisterFree, I!SnapshotUnlock, I!Return,
          I!TypeOK, Locked
  <2> QED
    BY <1>2, <2>1
<1>9. CASE I!UnregisterClear(p)
  <2>1. ipc[p] \in Locked /\ pid' = pid
    BY <1>9 DEF I!UnregisterClear, I!procVars, Locked
  <2>2. mtx' = mtx \/ ipc'[p] \notin Locked
    BY <1>0, <1>9 DEF I!UnregisterClear, I!TypeOK, Locked
  <2> QED
    BY <1>1, <1>2, <2>1, <2>2
<1> QED
  BY <1>3, <1>4, <1>5, <1>6, <1>7, <1>8, <1>9 DEF I!Call

\* What a process has seen and done holds while the entries stay, and while it is
\* not the one that moves.
LEMMA EntriesStay ==
    ASSUME PoolInv, NEW p \in Procs,
           I!Start(p) \/ I!Crash(p) \/ I!Begin(p) \/ I!Call(p),
           entry' = entry,
           slot'[p] # 0 => slot'[p] = slot[p] /\ pid'[p] = pid[p],
           ipc'[p] \in {"lockUnreg", "clear"} => slot'[p] # 0,
           ipc'[p] \notin {"commit", "clearUse", "collect"},
           ipc[p] = "clearUse" => slot'[p] = 0,
           ipc'[p] = "scanSnap" => seen'[p] = {s \in I!Slots : s < idx'[p] /\ entry[s].used}
    PROVE  WorkOK' /\ KeptOK' /\ SeenOK'
<1>1. \A q \in Procs : q # p => /\ ipc'[q] = ipc[q] /\ pid'[q] = pid[q] /\ slot'[q] = slot[q]
                                /\ idx'[q] = idx[q] /\ seen'[q] = seen[q]
  BY PoolOthers DEF PoolInv
<1>2. WorkOK'
  BY <1>1 DEF PoolInv, WorkOK, I!Slots
<1>3. KeptOK'
  BY <1>1 DEF PoolInv, KeptOK
<1>4. SeenOK'
  <2> SUFFICES ASSUME NEW q \in Procs, ipc'[q] \in {"scanSnap", "collect"}
               PROVE  seen'[q] = {s \in I!Slots : s < idx'[q] /\ entry[s].used}
    BY DEF SeenOK, I!Slots
  <2>1. CASE q = p
    BY <2>1
  <2>2. CASE q # p
    BY <1>1, <2>2 DEF PoolInv, SeenOK
  <2> QED
    BY <2>1, <2>2
<1> QED
  BY <1>2, <1>3, <1>4

\* A registered process runs, and has a pid nobody else has.
LEMMA RegisteredRuns ==
    ASSUME PoolInv, NEW q \in Procs, slot[q] # 0
    PROVE  /\ slot[q] \in I!Slots /\ pid[q] # 0 /\ pid[q] \in alive /\ init = "ready"
           /\ \A p \in Procs : pid[p] = pid[q] => p = q
<1>1. ready[q] /\ init = "ready" /\ ipc[q] # "off"
  BY DEF PoolInv, InitOK
<1>2. slot[q] \in I!Slots
  BY HostAssumption DEF PoolInv, I!TypeOK, I!Slots
<1>3. pid[q] \in alive /\ pid[q] # 0
  BY <1>1, HostAssumption DEF PoolInv, PidOK, I!TypeOK
<1> QED
  BY <1>1, <1>2, <1>3 DEF PoolInv, PidOK

\* An entry that is committed
LEMMA Committed ==
    ASSUME NEW e \in [used : BOOLEAN, pid : 0 .. MaxPids], NEW k, e = [used |-> FALSE, pid |-> k]
    PROVE  ~e.used /\ [e EXCEPT !.used = TRUE] = [used |-> TRUE, pid |-> k]
<1>1. e.used = FALSE /\ e.pid = k
  OBVIOUS
<1>2. \A d \in [used : BOOLEAN, pid : 0 .. MaxPids] :
         d.used = TRUE /\ d.pid = k => d = [used |-> TRUE, pid |-> k]
  OBVIOUS
<1>3. /\ [e EXCEPT !.used = TRUE] \in [used : BOOLEAN, pid : 0 .. MaxPids]
      /\ [e EXCEPT !.used = TRUE].used = TRUE /\ [e EXCEPT !.used = TRUE].pid = e.pid
  OBVIOUS
<1> QED
  BY <1>1, <1>2, <1>3

\* What a registered process finds in its entry
LEMMA Kept ==
    ASSUME PoolInv, NEW q \in Procs, slot[q] # 0, ipc[q] # "clearUse"
    PROVE  /\ entry[slot[q]] = [used |-> TRUE, pid |-> pid[q]]
           /\ entry[slot[q]].used /\ entry[slot[q]].pid = pid[q]
<1>1. entry[slot[q]] = [used |-> TRUE, pid |-> pid[q]]
  BY DEF PoolInv, KeptOK
<1>2. [used |-> TRUE, pid |-> pid[q]].used /\ [used |-> TRUE, pid |-> pid[q]].pid = pid[q]
  OBVIOUS
<1> QED
  BY <1>1, <1>2

\* What others have seen and done holds if the process at work on the table leaves
\* their entries alone.
LEMMA EntriesMove ==
    ASSUME PoolInv, NEW p \in Procs, I!Call(p), ipc[p] \in Locked \cup Initializing,
           \A q \in Procs \ {p} : slot[q] # 0 => entry'[slot[q]] = entry[slot[q]],
           ipc'[p] = "commit" =>
               idx'[p] \in I!Slots /\ entry'[idx'[p]] = [used |-> FALSE, pid |-> pid'[p]],
           ipc'[p] \in {"lockUnreg", "clear", "clearUse"} => slot'[p] # 0,
           ipc'[p] = "clearUse" => entry'[slot'[p]].pid = 0,
           ipc'[p] = "collect" => idx'[p] \in I!Slots /\ entry'[idx'[p]].pid = 0,
           slot'[p] # 0 /\ ipc'[p] # "clearUse" =>
               entry'[slot'[p]] = [used |-> TRUE, pid |-> pid'[p]],
           ipc'[p] \in {"scanSnap", "collect"} =>
               seen'[p] = {s \in I!Slots : s < idx'[p] /\ entry'[s].used}
    PROVE  WorkOK' /\ KeptOK' /\ SeenOK'
<1>1. \A q \in Procs \ {p} :
         /\ ipc'[q] = ipc[q] /\ pid'[q] = pid[q] /\ slot'[q] = slot[q]
         /\ ipc[q] \notin Locked
  BY PoolOthers, Alone DEF PoolInv
<1>2. WorkOK'
  BY <1>1 DEF PoolInv, WorkOK, I!Slots, Locked
<1>3. KeptOK'
  <2>1. ASSUME NEW q \in Procs, q # p, slot'[q] # 0
        PROVE  entry'[slot'[q]] = [used |-> TRUE, pid |-> pid'[q]]
    <3>1. ipc[q] # "clearUse" /\ slot[q] # 0
      BY <1>1, <2>1 DEF Locked
    <3> QED
      BY <1>1, <2>1, <3>1, Kept
  <2> QED
    BY <2>1 DEF KeptOK
<1>4. SeenOK'
  <2> SUFFICES ASSUME NEW q \in Procs, ipc'[q] \in {"scanSnap", "collect"}
               PROVE  seen'[q] = {s \in I!Slots : s < idx'[q] /\ entry'[s].used}
    BY DEF SeenOK, I!Slots
  <2>1. q = p
    BY <1>1 DEF Locked
  <2> QED
    BY <2>1
<1> QED
  BY <1>2, <1>3, <1>4

\* Every step leaves each registered process its entry, and each process at work on
\* the table what it relies on.
LEMMA PoolEntries ==
    ASSUME PoolInv, NEW p \in Procs,
           I!Start(p) \/ I!Crash(p) \/ I!Begin(p) \/ I!Call(p)
    PROVE  WorkOK' /\ KeptOK' /\ SeenOK'
<1> USE DEF I!Goto, I!procVars, I!NoPid
<1>0. I!TypeOK /\ InitOK /\ WorkOK /\ KeptOK /\ SeenOK
  BY DEF PoolInv
<1>1. CASE I!Start(p)
  <2>1. /\ entry' = entry /\ slot'[p] = slot[p] /\ ipc'[p] = "open" /\ ipc[p] = "off"
    BY <1>0, <1>1 DEF I!Start, I!TypeOK
  <2>2. slot[p] = 0
    BY <1>0, <2>1 DEF InitOK
  <2> QED
    BY <1>1, <2>1, <2>2, EntriesStay
<1>2. CASE I!Crash(p)
  <2>1. entry' = entry /\ slot'[p] = 0 /\ ipc'[p] = "off"
    BY <1>0, <1>2 DEF I!Crash, I!TypeOK
  <2> QED
    BY <1>2, <2>1, EntriesStay
<1>3. CASE I!Begin(p)
  <2>1. /\ entry' = entry /\ slot' = slot /\ pid' = pid /\ ipc[p] = "idle"
        /\ ipc'[p] \in {"lockReg", "lockUnreg", "lockSnap"}
        /\ ipc'[p] = "lockUnreg" => slot[p] # 0
    BY <1>0, <1>3 DEF I!Begin, I!RegisterBegin, I!UnregisterBegin, I!SnapshotBegin, I!TypeOK
  <2> QED
    BY <1>3, <2>1, EntriesStay
<1>4. CASE I!Open(p) \/ I!InitReady(p) \/ I!Await(p) \/ I!AwaitOver(p) \/ I!RegisterLock(p)
  <2>1. /\ entry' = entry /\ slot' = slot /\ pid' = pid /\ ipc[p] # "clearUse"
        /\ ipc'[p] \in {"initEntries", "initReady", "await", "idle", "scanReg"}
    BY <1>0, <1>4 DEF I!Open, I!InitReady, I!Await, I!AwaitOver, I!RegisterLock, I!TypeOK
  <2>2. I!Call(p)
    BY <1>4 DEF I!Call
  <2> QED
    BY <2>1, <2>2, EntriesStay
<1>5. CASE I!InitEntries(p)
  <2>1. ipc[p] \in Initializing /\ ipc'[p] = "initReady" /\ slot' = slot
    BY <1>0, <1>5 DEF I!InitEntries, I!TypeOK, Initializing
  <2>2. \A q \in Procs : slot[q] = 0
    BY <1>0, <2>1 DEF InitOK
  <2>3. I!Call(p)
    BY <1>5 DEF I!Call
  <2> QED
    BY <2>1, <2>2, <2>3, EntriesMove
<1>6. CASE I!RegisterScan(p)
  <2>1. CASE entry[idx[p]].used
    <3>1. entry' = entry /\ slot' = slot /\ pid' = pid /\ ipc' = ipc /\ ipc[p] = "scanReg"
      BY <1>6, <2>1 DEF I!RegisterScan, I!Taken
    <3>2. I!Call(p)
      BY <1>6 DEF I!Call
    <3> QED
      BY <3>1, <3>2, EntriesStay
  <2>2. CASE ~entry[idx[p]].used
    <3>1. /\ idx[p] \in I!Slots /\ idx' = idx /\ slot' = slot /\ pid' = pid
          /\ ipc[p] = "scanReg" /\ ipc'[p] = "commit"
          /\ entry' = [entry EXCEPT ![idx[p]].pid = pid[p]]
      BY <1>0, <1>6, <2>2 DEF I!RegisterScan, I!Taken, I!TypeOK
    <3>2. entry'[idx[p]] = [used |-> FALSE, pid |-> pid[p]]
      BY <1>0, <2>2, <3>1 DEF I!TypeOK
    <3>3. \A q \in Procs : slot[q] # 0 => entry'[slot[q]] = entry[slot[q]]
      <4>1. ASSUME NEW q \in Procs, slot[q] # 0 PROVE slot[q] # idx[p]
        <5>1. ipc[q] # "clearUse"
          BY <3>1, Alone DEF Locked
        <5> QED
          BY <2>2, <4>1, <5>1, Kept
      <4> QED
        BY <1>0, <3>1, <4>1, RegisteredRuns DEF I!TypeOK
    <3>4. slot[p] # 0 => entry'[slot[p]] = [used |-> TRUE, pid |-> pid[p]]
      BY <1>0, <3>1, <3>3 DEF KeptOK
    <3>5. I!Call(p) /\ ipc[p] \in Locked
      BY <1>6, <3>1 DEF I!Call, Locked
    <3> QED
      BY <3>1, <3>2, <3>3, <3>4, <3>5, EntriesMove
  <2> QED
    BY <2>1, <2>2
<1>7. CASE I!RegisterFull(p) \/ I!SnapshotUnlock(p)
  <2>1. entry' = entry /\ slot' = slot /\ pid' = pid /\ ipc'[p] = "idle" /\ ipc[p] # "clearUse"
    BY <1>0, <1>7 DEF I!RegisterFull, I!SnapshotUnlock, I!Return, I!TypeOK
  <2>2. I!Call(p)
    BY <1>7 DEF I!Call
  <2> QED
    BY <2>1, <2>2, EntriesStay
<1>8. CASE I!RegisterCommit(p)
  <2>1. /\ ipc[p] = "commit" /\ ipc'[p] = "idle" /\ slot'[p] = idx[p] /\ pid' = pid
        /\ entry' = [entry EXCEPT ![idx[p]].used = TRUE]
    BY <1>0, <1>8 DEF I!RegisterCommit, I!Return, I!TypeOK
  <2>2. idx[p] \in I!Slots /\ entry[idx[p]] = [used |-> FALSE, pid |-> pid[p]]
    BY <1>0, <2>1 DEF WorkOK
  <2>3. entry'[idx[p]] = [used |-> TRUE, pid |-> pid[p]] /\ ~entry[idx[p]].used
    <3>1. /\ entry'[idx[p]] = [entry[idx[p]] EXCEPT !.used = TRUE]
          /\ entry[idx[p]] \in [used : BOOLEAN, pid : 0 .. MaxPids]
      BY <1>0, <2>1, <2>2 DEF I!TypeOK
    <3> QED
      BY <2>2, <3>1, Committed
  <2>4. \A q \in Procs \ {p} : slot[q] # 0 => entry'[slot[q]] = entry[slot[q]]
    <3>1. ASSUME NEW q \in Procs \ {p}, slot[q] # 0 PROVE slot[q] # idx[p]
      <4>1. ipc[q] # "clearUse"
        BY <2>1, Alone DEF Locked
      <4> QED
        BY <2>3, <3>1, <4>1, Kept
    <3> QED
      BY <1>0, <2>1, <3>1, RegisteredRuns DEF I!TypeOK
  <2>5. I!Call(p) /\ ipc[p] \in Locked
    BY <1>8, <2>1 DEF I!Call, Locked
  <2> QED
    BY <2>1, <2>3, <2>4, <2>5, EntriesMove
<1>9. CASE I!UnregisterLock(p)
  <2>1. /\ entry' = entry /\ slot' = slot /\ pid' = pid /\ ipc[p] = "lockUnreg" /\ ipc'[p] = "clear"
    BY <1>0, <1>9 DEF I!UnregisterLock, I!TypeOK
  <2>2. slot[p] # 0 /\ I!Call(p)
    BY <1>0, <1>9, <2>1 DEF WorkOK, I!Call
  <2> QED
    BY <2>1, <2>2, EntriesStay
<1>10. CASE I!UnregisterClear(p)
  <2>1. ipc[p] = "clear" /\ slot[p] # 0 /\ I!Call(p) /\ ipc[p] \in Locked
    BY <1>0, <1>10 DEF WorkOK, I!UnregisterClear, I!Call, Locked
  <2>2. entry[slot[p]] = [used |-> TRUE, pid |-> pid[p]]
    BY <1>0, <2>1 DEF KeptOK
  <2>3. /\ entry' = [entry EXCEPT ![slot[p]].pid = 0] /\ slot' = slot /\ ipc'[p] = "clearUse"
    <3>1. entry[slot[p]].used
      BY <2>1, Kept
    <3> QED
      BY <1>0, <1>10, <3>1 DEF I!UnregisterClear, I!TypeOK
  <2>4. entry'[slot[p]].pid = 0
    BY <1>0, <2>1, <2>3, RegisteredRuns DEF I!TypeOK
  <2>5. \A q \in Procs \ {p} : slot[q] # 0 => entry'[slot[q]] = entry[slot[q]]
    <3>1. ASSUME NEW q \in Procs \ {p}, slot[q] # 0 PROVE slot[q] # slot[p]
      <4>1. ipc[q] # "clearUse"
        BY <2>1, Alone DEF Locked
      <4>2. entry[slot[q]].pid = pid[q]
        BY <3>1, <4>1, Kept
      <4> QED
        BY <2>2, <3>1, <4>2, RegisteredRuns
    <3> QED
      BY <1>0, <2>3, <3>1, RegisteredRuns DEF I!TypeOK
  <2> QED
    BY <2>1, <2>3, <2>4, <2>5, EntriesMove
<1>11. CASE I!UnregisterFree(p)
  <2>1. /\ ipc[p] = "clearUse" /\ slot'[p] = 0 /\ ipc'[p] = "idle"
        /\ entry' = [entry EXCEPT ![slot[p]].used = FALSE]
    BY <1>0, <1>11 DEF I!UnregisterFree, I!TypeOK
  <2>2. entry[slot[p]].pid = 0 /\ I!Call(p) /\ ipc[p] \in Locked
    BY <1>0, <1>11, <2>1 DEF WorkOK, I!Call, Locked
  <2>3. \A q \in Procs \ {p} : slot[q] # 0 => entry'[slot[q]] = entry[slot[q]]
    <3>1. ASSUME NEW q \in Procs \ {p}, slot[q] # 0 PROVE slot[q] # slot[p]
      <4>1. ipc[q] # "clearUse"
        BY <2>2, Alone DEF Locked
      <4>2. entry[slot[q]].pid = pid[q]
        BY <3>1, <4>1, Kept
      <4> QED
        BY <2>2, <3>1, <4>2, RegisteredRuns
    <3> QED
      BY <1>0, <2>1, <3>1, RegisteredRuns DEF I!TypeOK
  <2> QED
    BY <2>1, <2>2, <2>3, EntriesMove
<1>12. CASE I!SnapshotLock(p)
  <2>1. /\ entry' = entry /\ slot' = slot /\ pid' = pid /\ ipc[p] = "lockSnap" /\ ipc'[p] = "scanSnap"
        /\ idx'[p] = 1 /\ seen'[p] = {}
    BY <1>0, <1>12 DEF I!SnapshotLock, I!TypeOK
  <2>2. \A s \in I!Slots : ~(s < 1)
    BY HostAssumption DEF I!Slots
  <2>3. I!Call(p)
    BY <1>12 DEF I!Call
  <2> QED
    BY <2>1, <2>2, <2>3, EntriesStay
<1>13. CASE I!SnapshotScan(p)
  <2>0. /\ ipc[p] = "scanSnap" /\ idx[p] \in I!Slots /\ slot' = slot /\ pid' = pid
        /\ I!Call(p) /\ ipc[p] \in Locked
    BY <1>13 DEF I!SnapshotScan, I!Call, Locked
  <2>1. seen[p] = {s \in I!Slots : s < idx[p] /\ entry[s].used}
    BY <1>0, <2>0 DEF SeenOK
  <2>2. CASE entry[idx[p]].used /\ I!Collects(p, idx[p])
    <3>1. /\ entry' = [entry EXCEPT ![idx[p]].pid = 0] /\ idx' = idx /\ seen' = seen
          /\ ipc'[p] = "collect"
      BY <1>0, <1>13, <2>2 DEF I!SnapshotScan, I!TypeOK
    <3>2. entry[idx[p]].pid = 0 \/ entry[idx[p]].pid \notin alive
      BY <2>2 DEF I!Collects, I!pid_alive
    <3>3. \A s \in I!Slots : entry'[s].used = entry[s].used
      BY <1>0, <3>1 DEF I!TypeOK
    <3>7. seen'[p] = {s \in I!Slots : s < idx'[p] /\ entry'[s].used}
      BY <2>1, <3>1, <3>3
    <3>4. entry'[idx[p]].pid = 0
      BY <1>0, <2>0, <3>1 DEF I!TypeOK
    <3>5. \A q \in Procs : slot[q] # 0 => entry'[slot[q]] = entry[slot[q]]
      <4>1. ASSUME NEW q \in Procs, slot[q] # 0 PROVE slot[q] # idx[p]
        <5>1. ipc[q] # "clearUse"
          BY <2>0, Alone DEF Locked
        <5>2. entry[slot[q]].pid = pid[q]
          BY <4>1, <5>1, Kept
        <5> QED
          BY <3>2, <4>1, <5>2, RegisteredRuns
      <4> QED
        BY <1>0, <3>1, <4>1, RegisteredRuns DEF I!TypeOK
    <3>6. slot[p] # 0 => entry'[slot[p]] = [used |-> TRUE, pid |-> pid[p]]
      BY <1>0, <2>0, <3>5 DEF KeptOK
    <3> QED
      BY <2>0, <3>1, <3>4, <3>5, <3>6, <3>7, EntriesMove
  <2>3. CASE ~(entry[idx[p]].used /\ I!Collects(p, idx[p]))
    <3>1. /\ entry' = entry /\ idx'[p] = idx[p] + 1 /\ ipc' = ipc
          /\ seen'[p] = IF entry[idx[p]].used THEN seen[p] \cup {idx[p]} ELSE seen[p]
      BY <1>0, <1>13, <2>3 DEF I!SnapshotScan, I!TypeOK
    <3>2. \A s \in I!Slots : s < idx[p] + 1 <=> s < idx[p] \/ s = idx[p]
      BY <2>0, HostAssumption DEF I!Slots
    <3>3. seen'[p] = {s \in I!Slots : s < idx'[p] /\ entry[s].used}
      BY <2>0, <2>1, <3>1, <3>2
    <3> QED
      BY <2>0, <3>1, <3>3, EntriesStay
  <2> QED
    BY <2>2, <2>3
<1>14. CASE I!SnapshotCollect(p)
  <2>1. /\ ipc[p] = "collect" /\ ipc'[p] = "scanSnap" /\ slot' = slot /\ pid' = pid /\ seen' = seen
        /\ idx'[p] = idx[p] + 1 /\ entry' = [entry EXCEPT ![idx[p]].used = FALSE]
    BY <1>0, <1>14 DEF I!SnapshotCollect, I!TypeOK
  <2>2. /\ idx[p] \in I!Slots /\ entry[idx[p]].pid = 0 /\ I!Call(p) /\ ipc[p] \in Locked
        /\ seen[p] = {s \in I!Slots : s < idx[p] /\ entry[s].used}
    BY <1>0, <1>14, <2>1 DEF WorkOK, SeenOK, I!Call, Locked
  <2>3. \A q \in Procs : slot[q] # 0 => entry'[slot[q]] = entry[slot[q]]
    <3>1. ASSUME NEW q \in Procs, slot[q] # 0 PROVE slot[q] # idx[p]
      <4>1. ipc[q] # "clearUse"
        BY <2>1, <2>2, Alone DEF Locked
      <4>2. entry[slot[q]].pid = pid[q]
        BY <3>1, <4>1, Kept
      <4> QED
        BY <2>2, <3>1, <4>2, RegisteredRuns
    <3> QED
      BY <1>0, <2>1, <3>1, RegisteredRuns DEF I!TypeOK
  <2>4. slot[p] # 0 => entry'[slot[p]] = [used |-> TRUE, pid |-> pid[p]]
    BY <1>0, <2>1, <2>3 DEF KeptOK
  <2>5. /\ ~entry'[idx[p]].used
        /\ \A s \in I!Slots : s # idx[p] => entry'[s] = entry[s]
    BY <1>0, <2>1, <2>2 DEF I!TypeOK
  <2>6. \A s \in I!Slots : s < idx[p] + 1 <=> s < idx[p] \/ s = idx[p]
    BY <2>2, HostAssumption DEF I!Slots
  <2>7. ~(idx[p] < idx[p])
    BY <2>2, HostAssumption DEF I!Slots
  <2>8. seen'[p] = {s \in I!Slots : s < idx'[p] /\ entry'[s].used}
    BY <2>1, <2>2, <2>5, <2>6, <2>7
  <2> QED
    BY <2>1, <2>2, <2>3, <2>4, <2>8, EntriesMove
<1> QED
  BY <1>1, <1>2, <1>3, <1>4, <1>5, <1>6, <1>7, <1>8, <1>9, <1>10, <1>11, <1>12, <1>13, <1>14
     DEF I!Call

\* Every step keeps the invariant.
LEMMA PoolNext == PoolInv /\ [I!Next]_I!vars => PoolInv'
<1> SUFFICES ASSUME PoolInv, [I!Next]_I!vars PROVE PoolInv'
  OBVIOUS
<1>1. CASE UNCHANGED I!vars
  BY <1>1 DEF I!vars, PoolInv, I!TypeOK, PidOK, InitOK, LockOK, WorkOK, KeptOK, SeenOK, I!Slots
<1>2. CASE I!Next
  <2>1. PICK p \in Procs : I!Start(p) \/ I!Crash(p) \/ I!Begin(p) \/ I!Call(p)
    BY <1>2 DEF I!Next
  <2>2. I!TypeOK'
    BY <2>1, PoolTypes DEF PoolInv
  <2>3. PidOK' /\ InitOK' /\ LockOK' /\ WorkOK' /\ KeptOK' /\ SeenOK'
    BY <2>1, PoolPids, PoolHeader, PoolLock, PoolEntries
  <2> QED
    BY <2>2, <2>3 DEF PoolInv
<1> QED
  BY <1>1, <1>2

\* A snapshot that has passed the last entry has copied all that are in use.
LEMMA PoolTells == PoolInv => PoolTellsTheTruth
<1> SUFFICES ASSUME PoolInv PROVE PoolTellsTheTruth
  OBVIOUS
<1>1. I!LivingListed
  BY DEF PoolInv, KeptOK, I!LivingListed
<1>2. I!SnapshotExact
  <2> SUFFICES ASSUME NEW p \in Procs, ipc[p] = "scanSnap", idx[p] \notin I!Slots
               PROVE  seen[p] = {s \in I!Slots : entry[s].used}
    BY DEF I!SnapshotExact
  <2>1. \A s \in I!Slots : s < idx[p]
    BY HostAssumption DEF PoolInv, I!TypeOK, I!Slots
  <2>2. seen[p] = {s \in I!Slots : s < idx[p] /\ entry[s].used}
    BY DEF PoolInv, SeenOK
  <2> QED
    BY <2>1, <2>2
<1> QED
  BY <1>1, <1>2 DEF PoolTellsTheTruth

\* A living process keeps the entry it registered, and a snapshot lists the entries of
\* one moment, for any processes and entries and whoever dies where
\* (ipc_info_pool.cc register_entry, unregister_entry, snapshot, gc_dead).
THEOREM TableIsTrue == I!Spec => []PoolTellsTheTruth
BY PoolInit, PoolNext, PoolTells, PTL DEF I!Spec
-----------------------------------------------------------------------------
(***************************************************************************)
(* UdpNode: a socket for each open node, and nothing but its own group's.  *)
(***************************************************************************)

\* What may lie in a node's queue, and what its socket may be
Datagrams(x) == [group : {GroupOf[x]}, port : {PortOf[x]}, from : Nodes]
Socket(x) ==
    [bound : {N!Unbound, GroupOf[x]}, member : BOOLEAN, group : {GroupOf[x]},
     port : {PortOf[x]}, queue : Seq(Datagrams(x))]

NodePlaces == {"idle", "opened", "bound", "select", "read", "forever"}

NodeTypes ==
    /\ server_fd \in [Nodes -> N!Fds \cup {N!NoFd}]
    /\ npc \in [Nodes -> NodePlaces]
    /\ DOMAIN got = Nodes /\ got = [x \in Nodes |-> got[x]]

\* Sockets and open nodes are the same number, one for each.
FdOK ==
    /\ \A f \in DOMAIN sockets : f \in N!Fds /\ \E x \in Nodes : server_fd[x] = f
    /\ \A x \in Nodes : N!IsOpen(x) => server_fd[x] \in DOMAIN sockets
    /\ \A x, y \in Nodes : N!IsOpen(x) /\ server_fd[x] = server_fd[y] => x = y

\* An open node's socket is of its group and its port, and holds nothing else.
SocketOK == \A x \in Nodes : N!IsOpen(x) => sockets[server_fd[x]] \in Socket(x)

\* A node in a call is open, and receives only if it joins its group.
CallOK ==
    \A x \in Nodes :
        /\ npc[x] # "idle" => N!IsOpen(x)
        /\ npc[x] \in {"select", "read", "forever"} => N!joins_group(x)

\* What a node got is of its group.
GotOK ==
    \A x \in Nodes : got[x] = N!Nothing \/ (got[x] \in Datagrams(x) /\ N!joins_group(x))

NodeInv == NodeTypes /\ FdOK /\ SocketOK /\ CallOK /\ GotOK

\* A set of numbers has a least one.
LEMMA Least ==
    ASSUME NEW T \in SUBSET Nat, T # {}
    PROVE  \E x \in T : \A y \in T : x <= y
<1> DEFINE R == {ss \in Nat \X Nat : ss[1] < ss[2]}
<1>1. IsWellFoundedOn(R, Nat)
  BY NatLessThanWellFounded DEF OpToRel
<1> HIDE DEF R
<1>2. PICK x \in T : \A y \in T : ~(<<y, x>> \in R)
  BY <1>1, WFMin
<1>3. \A y \in T : <<y, x>> \in Nat \X Nat /\ <<y, x>>[1] = y /\ <<y, x>>[2] = x
  OBVIOUS
<1>4. \A y \in T : ~(y < x)
  BY <1>2, <1>3 DEF R
<1> QED
  BY <1>4

\* There are more descriptors than nodes.
LEMMA FdsSuffice ==
    /\ N!Fds \subseteq Nat /\ IsFiniteSet(N!Fds) /\ N!NoFd \notin N!Fds
    /\ Cardinality(N!Fds) > Cardinality(Nodes)
<1> DEFINE c == Cardinality(Nodes)
<1>1. c \in Nat
  BY HostAssumption, FS_CardinalityType
<1>2. N!Cardinality(Nodes) = c
  BY DEF N!Cardinality, Cardinality
<1>3. N!Fds = 0 .. c * (MaxConnects + 1)
  BY <1>2 DEF N!Fds
<1> HIDE DEF c
<1>4. \A k \in Nat : \A j \in Nat : k * (j + 1) \in Nat /\ k * (j + 1) >= k
  <2>1. \A k \in Nat : \A j \in Nat : k * j \in Nat /\ k * (j + 1) = k * j + k
    OBVIOUS
  <2> QED
    BY <2>1
<1>5. c * (MaxConnects + 1) \in Nat /\ c * (MaxConnects + 1) >= c
  BY <1>1, <1>4, HostAssumption
<1> DEFINE b == c * (MaxConnects + 1)
<1>6. b \in Nat /\ b >= c
  BY <1>5
<1>7. N!Fds = 0 .. b
  BY <1>3
<1> HIDE DEF b
<1>8. IsFiniteSet(0 .. b) /\ Cardinality(0 .. b) = b + 1
  BY <1>6, FS_Interval
<1>9. N!NoFd \notin 0 .. b
  BY <1>6 DEF N!NoFd
<1> QED
  BY <1>1, <1>6, <1>7, <1>8, <1>9 DEF c

\* So a descriptor is free while a node is without, or lets go of its own.
LEMMA FreeIsFree ==
    ASSUME NodeInv, NEW x \in Nodes, NEW used \in SUBSET (DOMAIN sockets)
    PROVE  N!FreeFd(used) \in N!Fds /\ N!FreeFd(used) \notin used
<1>1. used \subseteq N!Fds
  BY DEF NodeInv, FdOK
<1>2. PICK y \in Nodes : TRUE
  OBVIOUS
<1> DEFINE f == [z \in Nodes |-> IF server_fd[z] \in used THEN server_fd[z] ELSE CHOOSE u \in used : TRUE]
<1>3. used = {} \/ f \in Surjection(Nodes, used)
  <2>1. ASSUME used # {} PROVE f \in [Nodes -> used]
    BY <2>1
  <2>2. \A u \in used : \E z \in Nodes : f[z] = u
    BY DEF NodeInv, FdOK
  <2> QED
    BY <2>1, <2>2 DEF Surjection
<1> HIDE DEF f
<1>4. N!Fds \ used # {}
  <2>1. CASE used = {}
    <3>1. Cardinality(Nodes) \in Nat /\ Cardinality(N!Fds) # 0
      BY HostAssumption, FdsSuffice, FS_CardinalityType
    <3> QED
      BY <2>1, <3>1, FS_EmptySet
  <2>2. CASE used # {}
    <3>1. IsFiniteSet(used) /\ Cardinality(used) <= Cardinality(Nodes)
      BY <1>3, <2>2, HostAssumption, FS_Surjection
    <3>2. /\ Cardinality(used) \in Nat /\ Cardinality(Nodes) \in Nat
          /\ Cardinality(N!Fds) \in Nat
      BY <3>1, HostAssumption, FdsSuffice, FS_CardinalityType
    <3>3. used # N!Fds
      BY <3>1, <3>2, FdsSuffice
    <3> QED
      BY <1>1, <3>3
  <2> QED
    BY <2>1, <2>2
<1>5. \E u \in N!Fds \ used : \A v \in N!Fds \ used : u <= v
  BY <1>4, FdsSuffice, Least
<1> QED
  BY <1>5 DEF N!FreeFd

\* No socket is open, nothing has been received.
LEMMA NodeInit == N!Init => NodeInv
<1> SUFFICES ASSUME N!Init PROVE NodeInv
  OBVIOUS
<1>1. /\ \A x \in Nodes : server_fd[x] = N!NoFd /\ npc[x] = "idle" /\ got[x] = N!Nothing
      /\ DOMAIN sockets = {}
  BY DEF N!Init
<1>2. NodeTypes
  BY DEF N!Init, NodeTypes, NodePlaces
<1> QED
  BY <1>1, <1>2 DEF NodeInv, FdOK, SocketOK, CallOK, GotOK, N!IsOpen

\* A step that opens and closes nothing keeps the invariant if every socket stays of
\* its group and its port.
LEMMA SocketsStay ==
    ASSUME NodeInv, server_fd' = server_fd, DOMAIN sockets' = DOMAIN sockets,
           \A y \in Nodes : N!IsOpen(y) => sockets'[server_fd[y]] \in Socket(y),
           NEW x \in Nodes, NEW l \in NodePlaces, npc' = [npc EXCEPT ![x] = l],
           l # "idle" => N!IsOpen(x),
           l \in {"select", "read", "forever"} => N!joins_group(x),
           NEW d, got' = got \/ got' = [got EXCEPT ![x] = d],
           got' # got => d = N!Nothing \/ (d \in Datagrams(x) /\ N!joins_group(x))
    PROVE  NodeInv'
<1>1. \A y \in Nodes : N!IsOpen(y)' <=> N!IsOpen(y)
  BY DEF N!IsOpen
<1>2. NodeTypes'
  BY DEF NodeInv, NodeTypes
<1>3. FdOK'
  BY <1>1 DEF NodeInv, FdOK
<1>4. SocketOK'
  BY <1>1 DEF NodeInv, SocketOK
<1>5. CallOK'
  BY <1>1 DEF NodeInv, CallOK, NodeTypes
<1>6. GotOK'
  BY DEF NodeInv, GotOK, NodeTypes
<1> QED
  BY <1>2, <1>3, <1>4, <1>5, <1>6 DEF NodeInv

\* Changing one node's socket leaves the others.
LEMMA OneSocket ==
    ASSUME NodeInv, NEW x \in Nodes, N!IsOpen(x), NEW s \in Socket(x),
           sockets' = [sockets EXCEPT ![server_fd[x]] = s]
    PROVE  /\ DOMAIN sockets' = DOMAIN sockets
           /\ \A y \in Nodes : N!IsOpen(y) => sockets'[server_fd[y]] \in Socket(y)
<1>1. \A y \in Nodes : N!IsOpen(y) => server_fd[y] \in DOMAIN sockets
  BY DEF NodeInv, FdOK
<1>2. \A y \in Nodes \ {x} : server_fd[y] # server_fd[x]
  BY DEF NodeInv, FdOK
<1> QED
  BY <1>1, <1>2 DEF NodeInv, SocketOK

\* A node that lets go of its socket, and enters no call, keeps the invariant.
LEMMA SocketGoes ==
    ASSUME NodeInv, NEW x \in Nodes, N!IsOpen(x),
           sockets' = N!Without(server_fd[x]),
           server_fd' = [server_fd EXCEPT ![x] = N!NoFd],
           npc' = npc \/ npc' = [npc EXCEPT ![x] = "idle"], npc'[x] = "idle",
           got' = got
    PROVE  NodeInv'
<1>1. /\ DOMAIN sockets' = DOMAIN sockets \ {server_fd[x]}
      /\ \A f \in DOMAIN sockets' : sockets'[f] = sockets[f]
  BY DEF N!Without
<1>2. /\ server_fd'[x] = N!NoFd
      /\ \A y \in Nodes \ {x} : server_fd'[y] = server_fd[y] /\ server_fd[y] # server_fd[x]
  BY DEF NodeInv, NodeTypes, FdOK
<1>3. ~N!IsOpen(x)' /\ \A y \in Nodes \ {x} : N!IsOpen(y)' <=> N!IsOpen(y)
  BY <1>2 DEF N!IsOpen
<1>4. NodeTypes'
  BY DEF NodeInv, NodeTypes, NodePlaces
<1>5. FdOK'
  <2>1. \A f \in DOMAIN sockets' : f \in N!Fds /\ \E y \in Nodes : server_fd'[y] = f
    BY <1>1, <1>2 DEF NodeInv, FdOK
  <2>2. \A y \in Nodes : N!IsOpen(y)' => server_fd'[y] \in DOMAIN sockets'
    BY <1>1, <1>2, <1>3 DEF NodeInv, FdOK
  <2>3. \A y, z \in Nodes : N!IsOpen(y)' /\ server_fd'[y] = server_fd'[z] => y = z
    <3>1. \A y \in Nodes : N!IsOpen(y)' => server_fd'[y] # N!NoFd
      BY DEF N!IsOpen
    <3> QED
      BY <1>2, <1>3, <3>1 DEF NodeInv, FdOK
  <2> QED
    BY <2>1, <2>2, <2>3 DEF FdOK
<1>6. SocketOK'
  BY <1>1, <1>2, <1>3, <1>5 DEF NodeInv, SocketOK, FdOK
<1>7. CallOK'
  BY <1>3 DEF NodeInv, CallOK, NodeTypes
<1>8. GotOK'
  BY DEF NodeInv, GotOK
<1> QED
  BY <1>4, <1>5, <1>6, <1>7, <1>8 DEF NodeInv

\* What is appended to and taken from a queue
LEMMA QueueTypes ==
    ASSUME NEW D, NEW q \in Seq(D)
    PROVE  /\ <<>> \in Seq(D)
           /\ q # <<>> => Head(q) \in D /\ Tail(q) \in Seq(D)
           /\ \A d \in D : Append(q, d) \in Seq(D)
OBVIOUS

\* Binding, joining and receiving leave a socket one of its node.
LEMMA SocketEdits ==
    ASSUME NEW x \in Nodes, NEW s \in Socket(x), NEW q \in Seq(Datagrams(x))
    PROVE  /\ [s EXCEPT !.bound = GroupOf[x]] \in Socket(x)
           /\ [s EXCEPT !.member = TRUE] \in Socket(x)
           /\ [s EXCEPT !.queue = q] \in Socket(x)
           /\ s.queue \in Seq(Datagrams(x))
           /\ s.bound \in {N!Unbound, GroupOf[x]} /\ s.port = PortOf[x]
BY DEF Socket

\* An open node's socket
LEMMA OpenSocket ==
    ASSUME NodeInv, NEW x \in Nodes, N!IsOpen(x)
    PROVE  /\ sockets[server_fd[x]] \in Socket(x) /\ server_fd[x] \in DOMAIN sockets
           /\ N!Queue(x) \in Seq(Datagrams(x))
BY SocketEdits DEF NodeInv, SocketOK, FdOK, N!Queue, Socket

\* connect with a socket of the kernel's choice, or none
LEMMA ConnectKeeps ==
    ASSUME NodeInv, NEW x \in Nodes, N!ConnectOpen(x)
    PROVE  NodeInv'
<1> DEFINE rest == IF N!IsOpen(x) THEN N!Without(server_fd[x]) ELSE sockets
           new == N!FreeFd(DOMAIN rest)
           fresh == [bound |-> N!Unbound, member |-> FALSE, group |-> GroupOf[x],
                     port |-> PortOf[x], queue |-> <<>>]
<1>0. npc[x] = "idle" /\ got' = got
  BY DEF N!ConnectOpen, N!calls
<1>1. /\ DOMAIN rest = DOMAIN sockets \ {server_fd[x]}
      /\ \A f \in DOMAIN rest : rest[f] = sockets[f]
  <2>1. CASE N!IsOpen(x)
    BY <2>1 DEF N!Without
  <2>2. CASE ~N!IsOpen(x)
    <3>1. server_fd[x] \notin DOMAIN sockets
      BY <2>2, FdsSuffice DEF NodeInv, FdOK, N!IsOpen
    <3> QED
      BY <2>2, <3>1
  <2> QED
    BY <2>1, <2>2
<1>2. new \in N!Fds /\ new \notin DOMAIN rest
  BY <1>1, FreeIsFree
<1>3. \/ /\ sockets' = [g \in DOMAIN rest \cup {new} |-> IF g = new THEN fresh ELSE rest[g]]
         /\ server_fd' = [server_fd EXCEPT ![x] = new]
         /\ npc' = [npc EXCEPT ![x] = "opened"]
      \/ /\ sockets' = rest
         /\ server_fd' = [server_fd EXCEPT ![x] = N!NoFd]
         /\ npc' = npc
  BY DEF N!ConnectOpen
<1> HIDE DEF rest, new
<1>4. \A y \in Nodes \ {x} :
         /\ N!IsOpen(y) => server_fd[y] \in DOMAIN rest
         /\ N!IsOpen(y) => rest[server_fd[y]] \in Socket(y)
         /\ server_fd[y] # new \/ ~N!IsOpen(y)
  BY <1>1, <1>2 DEF NodeInv, FdOK, SocketOK
<1>5. \A f \in DOMAIN rest : f \in N!Fds /\ \E y \in Nodes \ {x} : server_fd[y] = f
  BY <1>1 DEF NodeInv, FdOK
<1>6. \A y \in Nodes \ {x} : server_fd'[y] = server_fd[y] /\ (N!IsOpen(y)' <=> N!IsOpen(y))
  BY <1>3 DEF NodeInv, NodeTypes, N!IsOpen
<1>7. CASE /\ sockets' = [g \in DOMAIN rest \cup {new} |-> IF g = new THEN fresh ELSE rest[g]]
           /\ server_fd' = [server_fd EXCEPT ![x] = new]
           /\ npc' = [npc EXCEPT ![x] = "opened"]
  <2>1. server_fd'[x] = new /\ new # N!NoFd
    BY <1>2, <1>7, FdsSuffice DEF NodeInv, NodeTypes
  <2>2. fresh \in Socket(x)
    BY QueueTypes DEF Socket
  <2>3. /\ DOMAIN sockets' = DOMAIN rest \cup {new} /\ sockets'[new] = fresh
        /\ \A f \in DOMAIN rest : sockets'[f] = rest[f]
    BY <1>2, <1>7
  <2> HIDE DEF fresh
  <2>4. NodeTypes'
    BY <1>0, <1>2, <1>7 DEF NodeInv, NodeTypes, NodePlaces
  <2>5. FdOK'
    <3>1. \A f \in DOMAIN sockets' : f \in N!Fds /\ \E y \in Nodes : server_fd'[y] = f
      BY <1>2, <1>5, <1>6, <2>1, <2>3
    <3>2. \A y \in Nodes : N!IsOpen(y)' => server_fd'[y] \in DOMAIN sockets'
      BY <1>4, <1>6, <2>1, <2>3
    <3>3. \A y, z \in Nodes : N!IsOpen(y)' /\ server_fd'[y] = server_fd'[z] => y = z
      <4>1. \A y, z \in Nodes : N!IsOpen(y) /\ server_fd[y] = server_fd[z] => y = z
        BY DEF NodeInv, FdOK
      <4>2. \A z \in Nodes \ {x} : server_fd'[z] # new
        BY <1>4, <1>6, <2>1 DEF N!IsOpen
      <4> QED
        BY <1>6, <2>1, <4>1, <4>2
    <3> QED
      BY <3>1, <3>2, <3>3 DEF FdOK
  <2>6. SocketOK'
    <3>1. ASSUME NEW y \in Nodes, N!IsOpen(y)' PROVE sockets'[server_fd'[y]] \in Socket(y)
      BY <1>4, <1>6, <2>1, <2>2, <2>3, <3>1
    <3> QED
      BY <3>1 DEF SocketOK
  <2>7. CallOK'
    BY <1>6, <1>7, <2>1 DEF NodeInv, CallOK, NodeTypes, N!IsOpen
  <2>8. GotOK'
    BY <1>0 DEF NodeInv, GotOK
  <2> QED
    BY <2>4, <2>5, <2>6, <2>7, <2>8 DEF NodeInv
<1>8. CASE /\ sockets' = rest
           /\ server_fd' = [server_fd EXCEPT ![x] = N!NoFd]
           /\ npc' = npc
  <2>1. CASE N!IsOpen(x)
    BY <1>0, <1>8, <2>1, SocketGoes DEF rest
  <2>2. CASE ~N!IsOpen(x)
    <3>1. sockets' = sockets /\ server_fd' = server_fd
      BY <1>8, <2>2 DEF rest, N!IsOpen, NodeInv, NodeTypes
    <3> QED
      BY <1>0, <1>8, <3>1 DEF NodeInv, NodeTypes, FdOK, SocketOK, CallOK, GotOK, N!IsOpen
  <2> QED
    BY <2>1, <2>2
<1> QED
  BY <1>3, <1>7, <1>8

\* What follows socket(): bind, join, giving up
LEMMA SetupKeeps ==
    ASSUME NodeInv, NEW x \in Nodes, N!Connecting(x) \/ N!Close(x) \/ N!clear_cache(x)
    PROVE  NodeInv'
<1>0. NodeTypes /\ N!IsOpen(x)
  BY DEF NodeInv, CallOK, N!Connecting, N!Bind, N!Join, N!ProbeAddress, N!Close, N!clear_cache
<1>1. CASE N!GivesUp(x) \/ N!Close(x)
  <2>1. /\ sockets' = N!Without(server_fd[x]) /\ server_fd' = [server_fd EXCEPT ![x] = N!NoFd]
        /\ got' = got
    BY <1>1 DEF N!GivesUp, N!Close, N!calls
  <2>2. (npc' = npc \/ npc' = [npc EXCEPT ![x] = "idle"]) /\ npc'[x] = "idle"
    BY <1>0, <1>1 DEF N!GivesUp, N!Close, NodeTypes
  <2> QED
    BY <1>0, <2>1, <2>2, SocketGoes
<1> DEFINE s == sockets[server_fd[x]]
<1>2. s \in Socket(x)
  BY <1>0, OpenSocket
<1> HIDE DEF s
<1>3. ASSUME NEW l \in {"idle", "bound"}, npc' = [npc EXCEPT ![x] = l],
             NEW e \in Socket(x), sockets' = [sockets EXCEPT ![server_fd[x]] = e],
             server_fd' = server_fd, got' = got
      PROVE  NodeInv'
  <2>1. /\ DOMAIN sockets' = DOMAIN sockets
        /\ \A y \in Nodes : N!IsOpen(y) => sockets'[server_fd[y]] \in Socket(y)
    BY <1>0, <1>3, OneSocket
  <2> QED
    BY <1>0, <1>3, <2>1, SocketsStay DEF NodePlaces
<1>4. CASE N!Bind(x) /\ ~N!GivesUp(x)
  <2>1. /\ sockets' = [sockets EXCEPT ![server_fd[x]] = [s EXCEPT !.bound = GroupOf[x]]]
        /\ npc' = [npc EXCEPT ![x] = "bound"] /\ server_fd' = server_fd /\ got' = got
    BY <1>4 DEF N!Bind, N!BindsTo, N!calls, s
  <2>2. [s EXCEPT !.bound = GroupOf[x]] \in Socket(x)
    <3>1. <<>> \in Seq(Datagrams(x))
      BY QueueTypes
    <3> QED
      BY <1>2, <3>1, SocketEdits
  <2> QED
    BY <1>3, <2>1, <2>2
<1>5. CASE N!Join(x) /\ ~N!GivesUp(x)
  <2>1. /\ sockets' = [sockets EXCEPT ![server_fd[x]] = [s EXCEPT !.member = TRUE]]
        /\ npc' = [npc EXCEPT ![x] = "idle"] /\ server_fd' = server_fd /\ got' = got
    BY <1>5 DEF N!Join, N!calls, s
  <2>2. [s EXCEPT !.member = TRUE] \in Socket(x)
    <3>1. <<>> \in Seq(Datagrams(x))
      BY QueueTypes
    <3> QED
      BY <1>2, <3>1, SocketEdits
  <2> QED
    BY <1>3, <2>1, <2>2
<1>6. CASE N!ProbeAddress(x) /\ ~N!GivesUp(x)
  <2>1. sockets' = sockets /\ server_fd' = server_fd /\ got' = got /\ npc' = [npc EXCEPT ![x] = "idle"]
    BY <1>6 DEF N!ProbeAddress, N!calls
  <2> QED
    BY <1>0, <2>1, SocketsStay, OpenSocket DEF NodePlaces
<1>7. CASE N!clear_cache(x)
  <2>1. npc' = [npc EXCEPT ![x] = "idle"]
    BY <1>0, <1>7 DEF N!clear_cache, NodeTypes
  <2>2. [s EXCEPT !.queue = <<>>] \in Socket(x)
    <3>1. <<>> \in Seq(Datagrams(x))
      BY QueueTypes
    <3> QED
      BY <1>2, <3>1, SocketEdits
  <2>3. /\ sockets' = [sockets EXCEPT ![server_fd[x]] = [s EXCEPT !.queue = <<>>]]
        /\ server_fd' = server_fd /\ got' = got
    BY <1>7 DEF N!clear_cache, N!calls, s
  <2> QED
    BY <1>3, <2>1, <2>2, <2>3
<1> QED
  BY <1>1, <1>4, <1>5, <1>6, <1>7 DEF N!Connecting, N!Bind, N!Join, N!ProbeAddress

\* A datagram reaches sockets bound to its group, with its port, and no other.
LEMMA SendKeeps ==
    ASSUME NodeInv, NEW x \in Nodes, N!Send(x)
    PROVE  NodeInv'
<1> DEFINE d == [group |-> GroupOf[x], port |-> PortOf[x], from |-> x]
<1>0. NodeTypes /\ npc[x] = "idle"
  BY DEF NodeInv, N!Send
<1>1. sockets' = N!Delivered(d) /\ server_fd' = server_fd /\ npc' = npc /\ got' = got
  BY DEF N!Send, N!calls
<1>2. DOMAIN sockets' = DOMAIN sockets
  BY <1>1 DEF N!Delivered
<1>3. ASSUME NEW y \in Nodes, N!IsOpen(y) PROVE sockets'[server_fd[y]] \in Socket(y)
  <2> DEFINE s == sockets[server_fd[y]]
  <2>1. s \in Socket(y) /\ server_fd[y] \in DOMAIN sockets
    BY <1>3, OpenSocket
  <2>2. \/ sockets'[server_fd[y]] = s
        \/ N!Reaches(d, s) /\ sockets'[server_fd[y]] = [s EXCEPT !.queue = Append(s.queue, d)]
    BY <1>1, <2>1 DEF N!Delivered
  <2> HIDE DEF s
  <2>3. ASSUME N!Reaches(d, s) PROVE [s EXCEPT !.queue = Append(s.queue, d)] \in Socket(y)
    <3>1. <<>> \in Seq(Datagrams(y))
      BY QueueTypes
    <3>2. /\ s.queue \in Seq(Datagrams(y)) /\ s.port = PortOf[y]
          /\ s.bound \in {N!Unbound, GroupOf[y]}
      BY <2>1, <3>1, SocketEdits
    <3>3. s.port = PortOf[x] /\ (s.bound = GroupOf[x] \/ s.bound = N!AnyAddress)
      BY <2>3 DEF N!Reaches
    <3>4. /\ GroupOf[x] \notin {N!Unbound, N!AnyAddress}
          /\ GroupOf[y] \notin {N!Unbound, N!AnyAddress} /\ N!Unbound # N!AnyAddress
      BY HostAssumption DEF N!Unbound, N!AnyAddress
    <3>5. GroupOf[x] = GroupOf[y] /\ PortOf[x] = PortOf[y]
      BY <3>2, <3>3, <3>4
    <3>6. d \in Datagrams(y)
      BY <3>5 DEF Datagrams
    <3> HIDE DEF d
    <3>7. Append(s.queue, d) \in Seq(Datagrams(y))
      BY <3>2, <3>6, QueueTypes
    <3> QED
      BY <2>1, <3>7, SocketEdits
  <2> QED
    BY <2>1, <2>2, <2>3
<1>4. npc' = [npc EXCEPT ![x] = "idle"]
  BY <1>0, <1>1 DEF NodeTypes
<1> QED
  BY <1>1, <1>2, <1>3, <1>4, SocketsStay DEF NodePlaces

\* A receive that takes the head of its queue
LEMMA TakeKeeps ==
    ASSUME NodeInv, NEW x \in Nodes, N!IsOpen(x), N!joins_group(x), N!Queue(x) # <<>>,
           N!TakeHead(x)
    PROVE  NodeInv'
<1> DEFINE s == sockets[server_fd[x]]
           q == N!Queue(x)
<1>1. s \in Socket(x) /\ q \in Seq(Datagrams(x)) /\ s.queue = q
  BY OpenSocket DEF N!Queue
<1>2. /\ got' = [got EXCEPT ![x] = Head(q)] /\ npc' = [npc EXCEPT ![x] = "idle"]
      /\ server_fd' = server_fd
      /\ sockets' = [sockets EXCEPT ![server_fd[x]] = [s EXCEPT !.queue = Tail(q)]]
  BY DEF N!TakeHead, N!Returns, N!Queue
<1>3. q # <<>>
  OBVIOUS
<1> HIDE DEF s, q
<1>4. Head(q) \in Datagrams(x) /\ Tail(q) \in Seq(Datagrams(x))
  BY <1>1, <1>3, QueueTypes
<1>5. [s EXCEPT !.queue = Tail(q)] \in Socket(x)
  BY <1>1, <1>4, SocketEdits
<1>6. /\ DOMAIN sockets' = DOMAIN sockets
      /\ \A y \in Nodes : N!IsOpen(y) => sockets'[server_fd[y]] \in Socket(y)
  BY <1>2, <1>5, OneSocket
<1> QED
  BY <1>2, <1>4, <1>6, SocketsStay DEF NodePlaces

\* A receive that touches no queue: it goes on, or returns nothing.
LEMMA WaitKeeps ==
    ASSUME NodeInv, NEW x \in Nodes, sockets' = sockets, server_fd' = server_fd,
           NEW l \in NodePlaces, npc' = [npc EXCEPT ![x] = l],
           l = "idle" \/ (N!IsOpen(x) /\ N!joins_group(x)),
           got' = got \/ got' = [got EXCEPT ![x] = N!Nothing]
    PROVE  NodeInv'
<1>1. \A y \in Nodes : N!IsOpen(y) => sockets'[server_fd[y]] \in Socket(y)
  BY DEF NodeInv, SocketOK
<1> QED
  BY <1>1, SocketsStay

\* The three ways to receive
LEMMA ReceiveKeeps ==
    ASSUME NodeInv, NEW x \in Nodes,
           N!receive_nowait(x) \/ N!ReceiveBegin(x) \/ N!Receiving(x)
    PROVE  NodeInv'
<1>0. /\ NodeTypes
      /\ npc[x] \in {"select", "read", "forever"} => N!IsOpen(x) /\ N!joins_group(x)
  BY DEF NodeInv, CallOK
<1>1. ASSUME N!Returns(x, N!Nothing), sockets' = sockets PROVE NodeInv'
  BY <1>1, WaitKeeps DEF N!Returns, NodePlaces
<1>2. ASSUME NEW e, npc[x] \in {"select", "read", "forever"}, N!Refresh(x, e) PROVE NodeInv'
  <2>1. sockets' = sockets
    BY <1>2 DEF N!Refresh
  <2>2. CASE N!Returns(x, N!Nothing)
    BY <1>1, <2>1, <2>2
  <2>3. CASE npc' = [npc EXCEPT ![x] = "select"] /\ server_fd' = server_fd /\ got' = got
    BY <1>0, <1>2, <2>1, <2>3, WaitKeeps DEF NodePlaces
  <2> QED
    BY <1>2, <2>2, <2>3 DEF N!Refresh
<1>3. CASE N!receive_nowait(x)
  <2>1. CASE N!Receives(x) /\ N!Queue(x) # <<>>
    BY <1>3, <2>1, TakeKeeps DEF N!receive_nowait, N!Receives
  <2>2. CASE ~(N!Receives(x) /\ N!Queue(x) # <<>>)
    BY <1>1, <1>3, <2>2 DEF N!receive_nowait
  <2> QED
    BY <2>1, <2>2
<1>4. CASE N!ReceiveBegin(x)
  <2>1. /\ N!IsOpen(x) /\ N!joins_group(x) /\ sockets' = sockets /\ server_fd' = server_fd
        /\ got' = [got EXCEPT ![x] = N!Nothing]
        /\ \/ npc' = [npc EXCEPT ![x] = "select"]
           \/ npc' = [npc EXCEPT ![x] = "forever"]
    BY <1>4 DEF N!ReceiveBegin, N!Receives
  <2> QED
    BY <2>1, WaitKeeps DEF NodePlaces
<1>5. CASE N!ForeverRead(x) \/ N!ReadOk(x)
  BY <1>0, <1>5, TakeKeeps DEF N!ForeverRead, N!ReadOk
<1>6. CASE N!ForeverInterrupted(x)
  <2>1. CASE N!Returns(x, N!Nothing)
    BY <1>1, <1>6, <2>1 DEF N!ForeverInterrupted
  <2>2. CASE server_fd' = server_fd /\ npc' = npc /\ got' = got
    <3>1. npc' = [npc EXCEPT ![x] = "forever"] /\ sockets' = sockets /\ npc[x] = "forever"
      BY <1>0, <1>6, <2>2 DEF N!ForeverInterrupted, NodeTypes
    <3> QED
      BY <1>0, <2>2, <3>1, WaitKeeps DEF NodePlaces
  <2> QED
    BY <1>6, <2>1, <2>2 DEF N!ForeverInterrupted
<1>7. CASE N!SelectReady(x)
  <2>1. /\ npc[x] = "select" /\ npc' = [npc EXCEPT ![x] = "read"]
        /\ sockets' = sockets /\ server_fd' = server_fd /\ got' = got
    BY <1>7 DEF N!SelectReady, N!calls
  <2> QED
    BY <1>0, <2>1, WaitKeeps DEF NodePlaces
<1>8. CASE N!SelectTimeout(x)
  BY <1>1, <1>8 DEF N!SelectTimeout
<1>9. CASE N!SelectInterrupted(x)
  <2>1. npc[x] = "select"
    BY <1>9 DEF N!SelectInterrupted
  <2>2. CASE N!Refresh(x, N!Counted(errs[x]))
    BY <1>2, <2>1, <2>2
  <2> QED
    BY <1>1, <1>9, <2>2 DEF N!SelectInterrupted
<1>10. CASE N!ReadAgain(x)
  <2>1. npc[x] = "read"
    BY <1>10 DEF N!ReadAgain
  <2>2. CASE N!Refresh(x, N!Counted(errs[x]))
    BY <1>2, <2>1, <2>2
  <2> QED
    BY <1>1, <1>10, <2>2 DEF N!ReadAgain
<1> QED
  BY <1>3, <1>4, <1>5, <1>6, <1>7, <1>8, <1>9, <1>10 DEF N!Receiving

\* Every call of a node keeps the invariant.
LEMMA NodeNext == NodeInv /\ [N!Next]_N!vars => NodeInv'
<1> SUFFICES ASSUME NodeInv, [N!Next]_N!vars PROVE NodeInv'
  OBVIOUS
<1>1. CASE UNCHANGED N!vars
  BY <1>1 DEF N!vars, NodeInv, NodeTypes, FdOK, SocketOK, CallOK, GotOK, N!IsOpen
<1>2. ASSUME NEW x \in Nodes, N!ConnectOpen(x) PROVE NodeInv'
  BY <1>2, ConnectKeeps
<1>3. ASSUME NEW x \in Nodes, N!Connecting(x) \/ N!Close(x) \/ N!clear_cache(x) PROVE NodeInv'
  BY <1>3, SetupKeeps
<1>4. ASSUME NEW x \in Nodes, N!Send(x) PROVE NodeInv'
  BY <1>4, SendKeeps
<1>5. ASSUME NEW x \in Nodes,
             N!receive_nowait(x) \/ N!ReceiveBegin(x) \/ N!Receiving(x)
      PROVE  NodeInv'
  BY <1>5, ReceiveKeeps
<1> QED
  BY <1>1, <1>2, <1>3, <1>4, <1>5 DEF N!Next

\* One socket for each open node, and only its group's datagrams received
LEMMA NodeTells == NodeInv => NodeSocketsInOrder
<1> SUFFICES ASSUME NodeInv PROVE NodeSocketsInOrder
  OBVIOUS
<1>1. N!NoSocketLeaks
  BY DEF NodeInv, FdOK, N!NoSocketLeaks
<1>2. ASSUME NEW x \in Nodes, got[x] # N!Nothing
      PROVE  got[x].group = GroupOf[x] /\ got[x].port = PortOf[x] /\ x \notin SendOnly
  BY <1>2 DEF NodeInv, GotOK, Datagrams, N!joins_group
<1> QED
  BY <1>1, <1>2 DEF NodeSocketsInOrder, N!OwnGroupOnly

\* However connect fails half way, every open socket is one node's, and a node hears
\* its own group and port only, for any nodes, groups and ports (udp.h connect, send,
\* receive, receive_nowait, close).
THEOREM SocketsInOrder == N!Spec => []NodeSocketsInOrder
BY NodeInit, NodeNext, NodeTells, PTL DEF N!Spec
-----------------------------------------------------------------------------
(***************************************************************************)
(* TopicDelivery: no subscriber gets a message twice, and whoever is       *)
(* counted throughout a call is reached.                                   *)
(***************************************************************************)

FlatMessage == {x \in Message : x.flat}

\* TypeOK, with the sequences as such, the message of the call, and that the
\* socket path carries no DZFlat segment.
Types ==
    /\ transport \in Transports /\ schema \in [Subs -> SchemaKinds]
    /\ counted \subseteq Subs /\ registered \subseteq Locals
    /\ id \in [Subs -> Ids]
    /\ wire \in [Subs -> Seq(Message)]
    /\ mq \in [Subs -> Seq(Message)] /\ vq \in [Subs -> Seq(FlatMessage)]
    /\ \A s \in Subs : Len(mq[s]) <= QueueSize /\ Len(vq[s]) <= QueueSize
    /\ pc \in {"idle", "count", "fanout", "send"}
    /\ snap \subseteq Locals
    /\ fp.k \in 0 .. Confirm
    /\ pc # "idle" => m \in Message /\ m.n = n /\ ~m.flat
    /\ transport = "socket" =>
          \A s \in Subs : vq[s] = <<>> /\ \A i \in 1 .. Len(wire[s]) : ~wire[s][i].flat
    /\ met \in [Subs -> SUBSET Nat]
    /\ subscribed \in BOOLEAN
    /\ n \in 0 .. MaxMsgs /\ moves \in 0 .. MaxMoves

\* What is on the way to a subscriber has not met it and comes once; the message
\* of the call is on no wire yet, and has not met whoever it may be pushed to.
OnceFor(s) ==
    /\ met[s] \subseteq 1 .. n
    /\ \A i \in 1 .. Len(wire[s]) : wire[s][i].n \in (1 .. n) \ met[s]
    /\ \A i, j \in 1 .. Len(wire[s]) : i # j => wire[s][i].n # wire[s][j].n
    /\ pc # "idle" => \A i \in 1 .. Len(wire[s]) : wire[s][i].n # n
    /\ pc \in {"count", "send"} \/ (pc = "fanout" /\ s \in snap) => n \notin met[s]

Once == ~twice /\ \A s \in Subs : OnceFor(s)

\* Whom the call owes its message is counted; on the fast path, whom it has not
\* been handed to is still in the snapshot.
Reach ==
    /\ owed \subseteq counted
    /\ pc = "fanout" /\ exact => owed \subseteq handed \cup snap
    /\ CountedAreReached

-----------------------------------------------------------------------------
(* Sequences *)

\* A push keeps the queue within its size.
LEMMA PushToProperties ==
    ASSUME NEW S, NEW q \in Seq(S), NEW x \in S, Len(q) <= QueueSize
    PROVE  /\ PushTo(q, x) \in Seq(S)
           /\ Len(PushTo(q, x)) <= QueueSize
<1>1. CASE Len(q) < QueueSize
  BY <1>1, AppendProperties, LenProperties, DeliveryAssumption DEF PushTo
<1>2. CASE ~(Len(q) < QueueSize)
  <2>1. q # <<>>
    BY <1>2, DeliveryAssumption, EmptySeq
  <2>2. Tail(q) \in Seq(S) /\ Len(Tail(q)) = Len(q) - 1
    BY <2>1, HeadTailProperties
  <2> QED
    BY <1>2, <2>2, AppendProperties, LenProperties, DeliveryAssumption DEF PushTo
<1> QED
  BY <1>1, <1>2

\* The elements of a tail are those behind the head.
LEMMA TailElements ==
    ASSUME NEW S, NEW q \in Seq(S), q # <<>>
    PROVE  /\ Tail(q) \in Seq(S)
           /\ Len(q) \in Nat \ {0}
           /\ Len(Tail(q)) = Len(q) - 1
           /\ Head(q) = q[1] /\ q[1] \in S
           /\ \A i \in 1 .. Len(Tail(q)) : i + 1 \in 2 .. Len(q) /\ Tail(q)[i] = q[i + 1]
<1>1. Len(q) \in Nat \ {0}
  BY EmptySeq
<1>2. Tail(q) \in Seq(S) /\ Len(Tail(q)) = Len(q) - 1 /\ Head(q) \in S
  BY HeadTailProperties
<1>3. Head(q) = q[1]
  OBVIOUS
<1>4. \A i \in 1 .. Len(Tail(q)) : Tail(q)[i] = q[i + 1]
  BY <1>1, <1>2
<1> QED
  BY <1>1, <1>2, <1>3, <1>4, ElementOfSeq

\* Subscribers and their subsets are finitely many.
LEMMA SubsFinite == \A T \in SUBSET Subs : IsFiniteSet(T)
BY DeliveryAssumption, FS_Union, FS_Subset DEF Subs

-----------------------------------------------------------------------------
(* Types *)

\* A function one value of which changes.
LEMMA ExceptType ==
    ASSUME NEW S, NEW T, NEW f \in [S -> T], NEW x, NEW v \in T
    PROVE  [f EXCEPT ![x] = v] \in [S -> T]
OBVIOUS

\* Types says at least what TypeOK says.
LEMMA TypesImplyTypeOK == Types => TypeOK
<1> SUFFICES ASSUME Types PROVE TypeOK
  OBVIOUS
<1>1. ASSUME NEW s \in Subs
      PROVE  Range(mq[s]) \subseteq Message /\ Range(wire[s]) \subseteq Message
             /\ Range(vq[s]) \subseteq FlatMessage
  BY RangeOfSeq DEF Types
<1> QED
  BY <1>1 DEF Types, TypeOK, FlatMessage

\* Nothing is published yet.
LEMMA InitTypes == Init => Types
<1> SUFFICES ASSUME Init PROVE Types
  OBVIOUS
<1> USE DEF Init
<1>1. <<>> \in Seq(Message) /\ <<>> \in Seq(FlatMessage) /\ Len(<<>>) = 0
  BY EmptySeq
<1>2. id \in [Subs -> Ids]
  BY DeliveryAssumption
<1>3. schema \in [Subs -> SchemaKinds]
  BY DeliveryAssumption DEF SchemaKinds
<1>4. \A s \in Subs : wire[s] = <<>> /\ mq[s] = <<>> /\ vq[s] = <<>>
  OBVIOUS
<1>5. wire \in [Subs -> Seq(Message)] /\ mq \in [Subs -> Seq(Message)]
      /\ vq \in [Subs -> Seq(FlatMessage)] /\ met \in [Subs -> SUBSET Nat]
  BY <1>1
<1>6. fp.k \in 0 .. Confirm
  BY DeliveryAssumption DEF NoTopology
<1>7. transport \in Transports /\ counted \subseteq Subs /\ registered \subseteq Locals
      /\ snap \subseteq Locals /\ pc = "idle"
      /\ n \in 0 .. MaxMsgs /\ moves \in 0 .. MaxMoves
  BY DeliveryAssumption
<1>8. \A s \in Subs : Len(mq[s]) <= QueueSize /\ Len(vq[s]) <= QueueSize
  BY <1>1, <1>4, DeliveryAssumption
<1>9. \A s \in Subs : vq[s] = <<>> /\ \A i \in 1 .. Len(wire[s]) : ~wire[s][i].flat
  BY <1>1, <1>4
<1>10. subscribed \in BOOLEAN
  OBVIOUS
<1> QED
  BY <1>2, <1>3, <1>5, <1>6, <1>7, <1>8, <1>9, <1>10 DEF Types

\* Steps that leave the queues and wires alone.
LEMMA QuietTypes ==
    ASSUME Types, UNCHANGED fixed, UNCHANGED <<wire, mq, vq, met>>,
           \/ \E s \in Subs : \/ Count(s) \/ Register(s) \/ Unregister(s)
                              \/ \E i \in Ids : ResetMessage(s, i)
           \/ \E i \in Ids : PublishBegin(i)
           \/ PublishCount \/ FanoutDone \/ Discover
    PROVE  Types'
<1> USE DEF Types, fixed
<1>1. ASSUME NEW s \in Subs, Count(s) \/ Register(s) \/ Unregister(s) PROVE Types'
  <2>1. /\ moves' \in 0 .. MaxMoves /\ counted' \subseteq Subs /\ registered' \subseteq Locals
        /\ UNCHANGED <<id, pc, m, snap, fp, n, subscribed>>
    BY <1>1, DeliveryAssumption DEF Count, Register, Unregister, Move, pubVars
  <2> QED
    BY <2>1
<1>2. ASSUME NEW s \in Subs, NEW i \in Ids, ResetMessage(s, i) PROVE Types'
  <2>1. id' \in [Subs -> Ids]
    BY <1>2 DEF ResetMessage
  <2> QED
    BY <1>2, <2>1, DeliveryAssumption DEF ResetMessage, Move, pubVars
<1>3. ASSUME NEW i \in Ids, PublishBegin(i) PROVE Types'
  <2>1. m' \in Message /\ m'.n = n' /\ ~m'.flat
    BY <1>3, DeliveryAssumption DEF PublishBegin, Message
  <2> QED
    BY <1>3, <2>1, DeliveryAssumption DEF PublishBegin
<1>4. CASE PublishCount
  <2>1. fp'.k \in 0 .. Confirm
    BY <1>4, DeliveryAssumption DEF PublishCount, Gate
  <2> QED
    BY <1>4, <2>1 DEF PublishCount
<1>5. CASE FanoutDone
  BY <1>5 DEF FanoutDone, history
<1>6. CASE Discover
  BY <1>6 DEF Discover, pubVars, history
<1> QED
  BY <1>1, <1>2, <1>3, <1>4, <1>5, <1>6

\* Steps that move messages.
LEMMA MoveTypes ==
    ASSUME Types, UNCHANGED fixed,
           \/ \E s \in Subs : Uncount(s) \/ Fanout(s) \/ Receive(s) \/ Get(s) \/ GetClone(s)
           \/ ShmSend \/ SocketSend
    PROVE  Types'
<1> USE DEF Types, fixed
<1>1. ASSUME NEW s \in Subs, Uncount(s) PROVE Types'
  <2>1. <<>> \in Seq(Message) /\ Len(<<>>) = 0
    BY EmptySeq
  <2>2. wire' \in [Subs -> Seq(Message)]
    BY <1>1, <2>1 DEF Uncount
  <2>3. \A u \in Subs : wire'[u] = wire[u] \/ wire'[u] = <<>>
    BY <1>1 DEF Uncount
  <2> QED
    BY <1>1, <2>1, <2>2, <2>3, DeliveryAssumption DEF Uncount, Move, pubVars
<1>2. ASSUME NEW s \in Subs, Fanout(s) PROVE Types'
  <2>1. PushTo(mq[s], m) \in Seq(Message) /\ Len(PushTo(mq[s], m)) <= QueueSize
    BY <1>2, PushToProperties DEF Fanout
  <2>2. mq' \in [Subs -> Seq(Message)] /\ \A u \in Subs : Len(mq'[u]) <= QueueSize
    BY <1>2, <2>1 DEF Fanout
  <2>3. met' \in [Subs -> SUBSET Nat]
    BY <1>2 DEF Fanout, Meet, Message
  <2> QED
    BY <1>2, <2>2, <2>3 DEF Fanout
<1>3. ASSUME NEW s \in Subs, Receive(s) PROVE Types'
  <2> DEFINE x == Head(wire[s])
  <2>1. wire[s] \in Seq(Message) /\ wire[s] # <<>>
    BY <1>3 DEF Receive
  <2>2. /\ Tail(wire[s]) \in Seq(Message) /\ x \in Message /\ x = wire[s][1]
        /\ 1 \in 1 .. Len(wire[s])
        /\ \A i \in 1 .. Len(Tail(wire[s])) :
              i + 1 \in 1 .. Len(wire[s]) /\ Tail(wire[s])[i] = wire[s][i + 1]
    BY <2>1, TailElements
  <2>3. wire' = [wire EXCEPT ![s] = Tail(@)]
    BY <1>3 DEF Receive
  <2>4. wire' \in [Subs -> Seq(Message)]
    BY <2>2, <2>3
  <2>5. transport = "socket" =>
            \A u \in Subs : \A i \in 1 .. Len(wire'[u]) : ~wire'[u][i].flat
    BY <2>2, <2>3
  <2>6. CASE Classify(s, x) = "skip" /\ UNCHANGED <<mq, vq, met, twice>>
    BY <1>3, <2>4, <2>5, <2>6 DEF Receive, pubVars
  <2>7. CASE Classify(s, x) = "view" /\ vq' = [vq EXCEPT ![s] = PushTo(@, x)]
             /\ Meet(s, x) /\ UNCHANGED mq
    <3>1. x.flat
      BY <2>7 DEF Classify
    <3>2. x \in FlatMessage
      BY <2>2, <3>1 DEF FlatMessage
    <3>3. PushTo(vq[s], x) \in Seq(FlatMessage) /\ Len(PushTo(vq[s], x)) <= QueueSize
      BY <3>2, PushToProperties
    <3>4. vq' \in [Subs -> Seq(FlatMessage)] /\ \A u \in Subs : Len(vq'[u]) <= QueueSize
      BY <2>7, <3>3
    <3>5. met' \in [Subs -> SUBSET Nat]
      BY <2>2, <2>7 DEF Meet, Message
    <3>6. transport # "socket"
      BY <2>2, <3>1
    <3> QED
      BY <1>3, <2>4, <2>7, <3>4, <3>5, <3>6 DEF Receive, pubVars
  <2>8. CASE Classify(s, x) = "clone" /\ mq' = [mq EXCEPT ![s] = PushTo(@, x)]
             /\ Meet(s, x) /\ UNCHANGED vq
    <3>1. PushTo(mq[s], x) \in Seq(Message) /\ Len(PushTo(mq[s], x)) <= QueueSize
      BY <2>2, PushToProperties
    <3>2. mq' \in [Subs -> Seq(Message)] /\ \A u \in Subs : Len(mq'[u]) <= QueueSize
      BY <2>8, <3>1
    <3>3. met' \in [Subs -> SUBSET Nat]
      BY <2>2, <2>8 DEF Meet, Message
    <3> QED
      BY <1>3, <2>4, <2>5, <2>8, <3>2, <3>3 DEF Receive, pubVars
  <2> QED
    BY <1>3, <2>6, <2>7, <2>8 DEF Receive
<1>4. ASSUME NEW s \in Subs, Get(s) PROVE Types'
  <2>1. Tail(vq[s]) \in Seq(FlatMessage) /\ Len(Tail(vq[s])) = Len(vq[s]) - 1
        /\ Len(vq[s]) \in Nat
    BY <1>4, TailElements DEF Get
  <2>2. vq' \in [Subs -> Seq(FlatMessage)] /\ \A u \in Subs : Len(vq'[u]) <= QueueSize
    BY <1>4, <2>1, DeliveryAssumption DEF Get
  <2> QED
    BY <1>4, <2>2 DEF Get, pubVars, history
<1>5. ASSUME NEW s \in Subs, GetClone(s) PROVE Types'
  <2>1. Tail(mq[s]) \in Seq(Message) /\ Len(Tail(mq[s])) = Len(mq[s]) - 1
        /\ Len(mq[s]) \in Nat
    BY <1>5, TailElements DEF GetClone
  <2>2. mq' \in [Subs -> Seq(Message)] /\ \A u \in Subs : Len(mq'[u]) <= QueueSize
    BY <1>5, <2>1, DeliveryAssumption DEF GetClone
  <2> QED
    BY <1>5, <2>2 DEF GetClone, pubVars, history
<1>6. ASSUME NEW x \in Message, transport = "socket" => ~x.flat, Transmit(x) PROVE Types'
  <2>1. \A u \in Subs : /\ Append(wire[u], x) \in Seq(Message)
                        /\ \A i \in 1 .. Len(Append(wire[u], x)) :
                              \/ i \in 1 .. Len(wire[u]) /\ Append(wire[u], x)[i] = wire[u][i]
                              \/ Append(wire[u], x)[i] = x
    BY AppendProperties
  <2>2. wire' \in [Subs -> Seq(Message)]
    BY <1>6, <2>1 DEF Transmit
  <2>3. transport = "socket" =>
            \A u \in Subs : \A i \in 1 .. Len(wire'[u]) : ~wire'[u][i].flat
    BY <1>6, <2>1 DEF Transmit
  <2> QED
    BY <1>6, <2>2, <2>3 DEF Transmit
<1>7. CASE ShmSend
  <2>1. PICK flat \in BOOLEAN : Transmit([m EXCEPT !.flat = flat])
    BY <1>7 DEF ShmSend
  <2>2. [m EXCEPT !.flat = flat] \in Message /\ transport # "socket"
    BY <1>7 DEF ShmSend, Message
  <2> QED
    BY <1>6, <2>1, <2>2
<1>8. CASE SocketSend
  BY <1>6, <1>8 DEF SocketSend
<1> QED
  BY <1>1, <1>2, <1>3, <1>4, <1>5, <1>7, <1>8

\* Every step keeps the types.
LEMMA NextTypes == Types /\ [Next]_vars => Types'
<1> SUFFICES ASSUME Types, [Next]_vars PROVE Types'
  OBVIOUS
<1>1. CASE Next
  <2>1. UNCHANGED fixed /\ Step
    BY <1>1 DEF Next
  <2>2. CASE \/ \E s \in Subs : \/ Count(s) \/ Register(s) \/ Unregister(s)
                                \/ \E i \in Ids : ResetMessage(s, i)
             \/ \E i \in Ids : PublishBegin(i)
             \/ PublishCount \/ FanoutDone \/ Discover
    <3>1. UNCHANGED <<wire, mq, vq, met>>
      BY <2>2 DEF Count, Register, Unregister, ResetMessage, PublishBegin, PublishCount,
                  FanoutDone, Discover, history
    <3> QED
      BY <2>1, <2>2, <3>1, QuietTypes
  <2>3. CASE \/ \E s \in Subs : Uncount(s) \/ Fanout(s) \/ Receive(s) \/ Get(s) \/ GetClone(s)
             \/ ShmSend \/ SocketSend
    BY <2>1, <2>3, MoveTypes
  <2> QED
    BY <2>1, <2>2, <2>3 DEF Step
<1>2. CASE UNCHANGED vars
  BY <1>2 DEF vars, fixed, pubVars, history, Types
<1> QED
  BY <1>1, <1>2

(* TypeOK: the types, the bounds of the queues, and no DZFlat view on the  *)
(* socket path.                                                            *)
THEOREM TypeCorrect == Spec => []TypeOK
<1>1. Spec => []Types
  BY InitTypes, NextTypes, PTL DEF Spec
<1> QED
  BY <1>1, TypesImplyTypeOK, PTL

-----------------------------------------------------------------------------
(* Once *)

\* Nothing has been sent.
LEMMA InitOnce == Init => Once
<1> SUFFICES ASSUME Init PROVE Once
  OBVIOUS
<1>1. \A s \in Subs : wire[s] = <<>> /\ met[s] = {}
  BY DEF Init
<1>2. Len(<<>>) = 0
  BY EmptySeq
<1>3. pc = "idle" /\ ~twice
  BY DEF Init
<1> QED
  BY <1>1, <1>2, <1>3 DEF Once, OnceFor

\* A step of the publisher's side, or of a subscriber, that neither moves a
\* message nor moves the call on.
LEMMA StillOnce ==
    ASSUME Types, Once, UNCHANGED <<met, twice, pc, n, snap>>,
           \A s \in Subs : wire'[s] = wire[s] \/ wire'[s] = <<>>
    PROVE  Once'
<1>1. Len(<<>>) = 0
  BY EmptySeq
<1> QED
  BY <1>1 DEF Once, OnceFor

\* The call begins: its number is new.
LEMMA BeginOnce ==
    ASSUME Types, Once, NEW i \in Ids, PublishBegin(i)
    PROVE  Once'
<1>1. n \in Nat /\ n' = n + 1 /\ pc' = "count" /\ UNCHANGED <<wire, met, twice>>
  BY DeliveryAssumption DEF PublishBegin, Types
<1> QED
  BY <1>1 DEF Once, OnceFor

\* One push of the fan-out: the number is pushed to whom it has not met.
LEMMA FanoutOnce ==
    ASSUME Types, Once, NEW s \in Subs, Fanout(s)
    PROVE  Once'
<1>1. /\ pc = "fanout" /\ s \in snap /\ snap' = snap \ {s}
      /\ UNCHANGED <<wire, pc, n>>
      /\ met' = [met EXCEPT ![s] = @ \cup {m.n}]
      /\ twice' = (twice \/ m.n \in met[s])
  BY DEF Fanout, Meet
<1>2. m.n = n /\ n \in 1 .. n
  <2>1. m \in Message /\ m.n = n
    BY <1>1 DEF Types
  <2> QED
    BY <2>1, DeliveryAssumption DEF Message
<1>3. met \in [Subs -> SUBSET Nat]
  BY DEF Types
<1>4. n \notin met[s]
  BY <1>1 DEF Once, OnceFor
<1>5. ~twice'
  BY <1>1, <1>2, <1>4 DEF Once, OnceFor
<1>6. \A u \in Subs : met'[u] = IF u = s THEN met[u] \cup {n} ELSE met[u]
  BY <1>1, <1>2, <1>3
<1> QED
  BY <1>1, <1>2, <1>5, <1>6 DEF Once, OnceFor

\* The message goes onto the wires, on which it is not.
LEMMA TransmitOnce ==
    ASSUME Types, Once, pc = "send", NEW x \in Message, x.n = n, Transmit(x)
    PROVE  Once'
<1>1. /\ pc' = "idle" /\ UNCHANGED <<n, met, twice>>
      /\ wire' = [u \in Subs |-> IF u \in counted THEN Append(wire[u], x) ELSE wire[u]]
  BY DEF Transmit
<1>2. n \in 1 .. n
  BY DeliveryAssumption DEF Message
<1>3. \A u \in Subs : /\ Len(wire[u]) \in Nat
                      /\ Len(Append(wire[u], x)) = Len(wire[u]) + 1
                      /\ \A i \in 1 .. Len(wire[u]) : Append(wire[u], x)[i] = wire[u][i]
                      /\ Append(wire[u], x)[Len(wire[u]) + 1] = x
  BY AppendProperties, LenProperties DEF Types
<1>4. ASSUME NEW u \in Subs
      PROVE  /\ \A i \in 1 .. Len(wire'[u]) : wire'[u][i].n \in (1 .. n) \ met[u]
             /\ \A i, j \in 1 .. Len(wire'[u]) : i # j => wire'[u][i].n # wire'[u][j].n
  <2>1. CASE u \in counted
    <3> DEFINE q == Append(wire[u], x)
    <3>1. wire'[u] = q
      BY <1>1, <2>1
    <3>2. \A i \in 1 .. Len(q) : (i \in 1 .. Len(wire[u]) /\ q[i] = wire[u][i])
                                \/ (i = Len(wire[u]) + 1 /\ q[i] = x)
      BY <1>3
    <3>3. n \notin met[u] /\ \A i \in 1 .. Len(wire[u]) : wire[u][i].n # n
      BY DEF Once, OnceFor
    <3>4. \A i \in 1 .. Len(q) : q[i].n \in (1 .. n) \ met[u]
      BY <1>2, <3>2, <3>3 DEF Once, OnceFor
    <3>5. \A i, j \in 1 .. Len(q) : i # j => q[i].n # q[j].n
      BY <3>2, <3>3 DEF Once, OnceFor
    <3> QED
      BY <3>1, <3>4, <3>5
  <2>2. CASE u \notin counted
    BY <1>1, <2>2 DEF Once, OnceFor
  <2> QED
    BY <2>1, <2>2
<1> QED
  BY <1>1, <1>4 DEF Once, OnceFor

\* A message is received: it leaves the wire, and has not met its subscriber.
LEMMA ReceiveOnce ==
    ASSUME Types, Once, NEW s \in Subs, Receive(s)
    PROVE  Once'
<1> DEFINE x == Head(wire[s])
<1>1. wire[s] # <<>> /\ wire' = [wire EXCEPT ![s] = Tail(@)]
      /\ UNCHANGED <<pc, snap, n>>
  BY DEF Receive, pubVars
<1>2. /\ x = wire[s][1] /\ 1 \in 1 .. Len(wire[s])
      /\ \A i \in 1 .. Len(Tail(wire[s])) :
            i + 1 \in 2 .. Len(wire[s]) /\ Tail(wire[s])[i] = wire[s][i + 1]
  BY <1>1, TailElements DEF Types
<1>3. \/ UNCHANGED <<met, twice>>
      \/ met' = [met EXCEPT ![s] = @ \cup {x.n}] /\ twice' = (twice \/ x.n \in met[s])
  BY DEF Receive, Meet
<1>4. x.n \in (1 .. n) \ met[s] /\ (pc # "idle" => x.n # n)
  BY <1>2 DEF Once, OnceFor
<1>5. met \in [Subs -> SUBSET Nat] /\ wire \in [Subs -> Seq(Message)]
  BY DEF Types
<1>6. ~twice'
  BY <1>3, <1>4 DEF Once, OnceFor
<1>7. \A u \in Subs : u # s => wire'[u] = wire[u] /\ met'[u] = met[u]
  BY <1>1, <1>3, <1>5
<1>8. wire'[s] = Tail(wire[s]) /\ met'[s] \subseteq met[s] \cup {x.n}
  BY <1>1, <1>3, <1>5
<1>9. \A i \in 1 .. Len(wire'[s]) : wire'[s][i].n # x.n
  BY <1>2, <1>8 DEF Once, OnceFor
<1>10. pc' = pc /\ snap' = snap /\ n' = n
  BY <1>1
<1>11. OnceFor(s)'
  <2>1. \A i \in 1 .. Len(wire'[s]) :
            i + 1 \in 1 .. Len(wire[s]) /\ wire'[s][i] = wire[s][i + 1]
    BY <1>2, <1>8
  <2>2. \A i, j \in 1 .. Len(wire'[s]) : i # j => i + 1 # j + 1
    OBVIOUS
  <2> QED
    BY <1>4, <1>8, <1>9, <1>10, <2>1, <2>2 DEF Once, OnceFor
<1>12. ASSUME NEW u \in Subs, u # s PROVE OnceFor(u)'
  BY <1>7, <1>10, <1>12 DEF Once, OnceFor
<1> QED
  BY <1>6, <1>11, <1>12 DEF Once

\* Every step keeps it.
LEMMA NextOnce == Types /\ Once /\ [Next]_vars => Once'
<1> SUFFICES ASSUME Types, Once, [Next]_vars PROVE Once'
  OBVIOUS
<1>1. ASSUME NEW s \in Subs, NEW i \in Ids,
             Count(s) \/ Uncount(s) \/ Register(s) \/ Unregister(s) \/ Get(s) \/ GetClone(s)
             \/ ResetMessage(s, i) \/ Discover
      PROVE  Once'
  <2>1. UNCHANGED <<met, twice, pc, n, snap>>
    BY <1>1 DEF Count, Uncount, Register, Unregister, Get, GetClone, ResetMessage, Discover,
                pubVars, history
  <2>2. \A u \in Subs : wire'[u] = wire[u] \/ wire'[u] = <<>>
    BY <1>1 DEF Count, Uncount, Register, Unregister, Get, GetClone, ResetMessage, Discover, Types
  <2> QED
    BY <2>1, <2>2, StillOnce
<1>2. CASE PublishCount
  <2>1. pc = "count" /\ pc' \in {"fanout", "send"} /\ UNCHANGED <<wire, met, twice, n, snap>>
    BY <1>2 DEF PublishCount
  <2> QED
    BY <2>1 DEF Once, OnceFor
<1>3. CASE FanoutDone
  <2>1. pc' = "idle" /\ UNCHANGED <<wire, met, twice, n, snap>>
    BY <1>3 DEF FanoutDone, history
  <2> QED
    BY <2>1 DEF Once, OnceFor
<1>4. CASE ShmSend
  <2>1. PICK flat \in BOOLEAN : Transmit([m EXCEPT !.flat = flat])
    BY <1>4 DEF ShmSend
  <2>2. pc = "send" /\ m \in Message /\ m.n = n
    BY <1>4 DEF ShmSend, Types
  <2>3. [m EXCEPT !.flat = flat] \in Message /\ [m EXCEPT !.flat = flat].n = n
    BY <2>2 DEF Message
  <2> QED
    BY <2>1, <2>2, <2>3, TransmitOnce
<1>5. CASE SocketSend
  BY <1>5, TransmitOnce DEF SocketSend, Types
<1>6. CASE UNCHANGED vars
  <2>1. UNCHANGED <<met, twice, pc, n, snap, wire>>
    BY <1>6 DEF vars, pubVars, history
  <2> QED
    BY <2>1, StillOnce
<1>7. PICK i0 \in Ids : TRUE
  BY DeliveryAssumption
<1>8. CASE Discover
  <2>1. UNCHANGED <<met, twice, pc, n, snap, wire>>
    BY <1>8 DEF Discover, pubVars, history
  <2> QED
    BY <2>1, StillOnce
<1> QED
  BY <1>1, <1>2, <1>3, <1>4, <1>5, <1>6, <1>7, <1>8, BeginOnce, FanoutOnce, ReceiveOnce
  DEF Next, Step

(* GotOnce: whatever the topology does between the snapshot, the count and *)
(* the push, no subscriber gets one message twice.                         *)
THEOREM DeliveredOnce == Spec => []GotOnce
<1>1. Init => Types /\ Once
  BY InitTypes, InitOnce
<1>2. Types /\ Once /\ [Next]_vars => Types' /\ Once'
  BY NextTypes, NextOnce
<1>3. Once => GotOnce
  BY DEF Once, GotOnce
<1> QED
  BY <1>1, <1>2, <1>3, PTL DEF Spec

-----------------------------------------------------------------------------
(* Reach *)

\* Equal numbers, and a snapshot of counted subscribers: they are the counted.
LEMMA GateIsExact ==
    ASSUME Types, PublishCount, pc' = "fanout", exact'
    PROVE  snap = counted
<1>1. /\ snap \subseteq counted
      /\ Gate(fp, m.id, Cardinality(snap), Cardinality(counted)).k >= Confirm
  BY DEF PublishCount
<1>2. Cardinality(snap) = Cardinality(counted)
  BY <1>1, DeliveryAssumption DEF Gate, AllLocal
<1>3. IsFiniteSet(counted)
  BY SubsFinite DEF Types
<1> QED
  BY <1>1, <1>2, <1>3, FS_Subset

\* Every step keeps it.
LEMMA NextReach == Types /\ Reach /\ [Next]_vars => Reach'
<1> SUFFICES ASSUME Types, Reach, [Next]_vars PROVE Reach'
  OBVIOUS
<1> USE DEF Reach, CountedAreReached
<1>1. ASSUME NEW s \in Subs,
             Count(s) \/ Register(s) \/ Unregister(s) \/ Receive(s) \/ Get(s) \/ GetClone(s)
      PROVE  Reach'
  <2>1. counted \subseteq counted' /\ UNCHANGED <<owed, handed, snap, pc, exact>>
    BY <1>1 DEF Count, Register, Unregister, Receive, Get, GetClone, pubVars, history
  <2> QED
    BY <2>1
<1>2. ASSUME NEW s \in Subs, Uncount(s) PROVE Reach'
  <2>1. /\ counted' = counted \ {s} /\ owed' = owed \ {s}
        /\ UNCHANGED <<handed, snap, pc, exact>>
    BY <1>2 DEF Uncount, pubVars
  <2> QED
    BY <2>1
<1>3. ASSUME NEW s \in Subs, NEW i \in Ids, ResetMessage(s, i) PROVE Reach'
  <2>1. owed' = owed \ {s} /\ UNCHANGED <<counted, handed, snap, pc, exact>>
    BY <1>3 DEF ResetMessage, pubVars
  <2> QED
    BY <2>1
<1>4. ASSUME NEW s \in Subs, Fanout(s) PROVE Reach'
  <2>1. /\ handed' = handed \cup {s} /\ snap' = snap \ {s} /\ pc = "fanout"
        /\ UNCHANGED <<counted, owed, pc, exact>>
    BY <1>4 DEF Fanout
  <2> QED
    BY <2>1
<1>5. ASSUME NEW i \in Ids, PublishBegin(i) PROVE Reach'
  <2>1. owed' \subseteq counted /\ pc' = "count" /\ UNCHANGED counted
    BY <1>5 DEF PublishBegin
  <2> QED
    BY <2>1
<1>6. CASE PublishCount
  <2>1. UNCHANGED <<counted, owed, handed, snap>> /\ pc' \in {"fanout", "send"}
    BY <1>6 DEF PublishCount
  <2>2. pc' = "fanout" /\ exact' => snap = counted
    BY <1>6, GateIsExact
  <2> QED
    BY <2>1, <2>2
<1>7. CASE FanoutDone
  <2>1. pc = "fanout" /\ snap = {} /\ pc' = "idle" /\ UNCHANGED <<counted, owed, handed, exact>>
    BY <1>7 DEF FanoutDone, history
  <2> QED
    BY <2>1
<1>8. CASE ShmSend \/ SocketSend
  <2>1. handed' = handed \cup counted /\ pc' = "idle" /\ UNCHANGED <<counted, owed>>
    BY <1>8 DEF ShmSend, SocketSend, Transmit
  <2> QED
    BY <2>1
<1>9. CASE Discover \/ UNCHANGED vars
  <2>1. UNCHANGED <<counted, owed, handed, snap, pc, exact>>
    BY <1>9 DEF Discover, vars, pubVars, history
  <2> QED
    BY <2>1
<1> QED
  BY <1>1, <1>2, <1>3, <1>4, <1>5, <1>6, <1>7, <1>8, <1>9 DEF Next, Step

(* CountedAreReached: the fast path, once its gate is passed with a        *)
(* snapshot of counted subscribers only, leaves out nobody it owes the     *)
(* message.                                                                *)
THEOREM AllCountedReached == Spec => []CountedAreReached
<1>1. Init => Types /\ Reach
  <2>1. Init => Reach
    BY DEF Init, Reach, CountedAreReached
  <2> QED
    BY <2>1, InitTypes
<1>2. Types /\ Reach /\ [Next]_vars => Types' /\ Reach'
  BY NextTypes, NextReach
<1>3. Reach => CountedAreReached
  BY DEF Reach
<1> QED
  BY <1>1, <1>2, <1>3, PTL DEF Spec
=============================================================================

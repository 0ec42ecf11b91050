------------------------------- MODULE RwLock -------------------------------
(***************************************************************************)
(* The spinning reader-writer lock of libipc (rw_lock.h), with the one     *)
(* place that uses it: chunk_storage_info (ipc.cpp), which looks a chunk   *)
(* size up under the shared lock, lets go, and inserts the missing entry   *)
(* under the exclusive lock.                                               *)
(*                                                                         *)
(* The word lc_ is the record [w, r]: its top bit w_flag and the number of *)
(* readers in the bits of w_mask (fewer threads than 2^31).  Every step    *)
(* touches lc_ once.                                                       *)
(***************************************************************************)
EXTENDS Integers, FiniteSets

CONSTANTS
    Threads,    \* the threads that call chunk_storage_info
    MaxCalls    \* bound: calls of one thread

VARIABLES
    lc,         \* lc_
    old,        \* thread -> the value lock_shared compares lc_ with
    pc,         \* thread -> where it is
    present,    \* storages has the entry of the chunk size
    calls       \* thread -> calls made

vars == <<lc, old, pc, present, calls>>

Free == [w |-> FALSE, r |-> 0]

Init ==
    /\ lc = Free
    /\ old = [t \in Threads |-> Free]
    /\ pc = [t \in Threads |-> "out"]
    /\ present = FALSE
    /\ calls = [t \in Threads |-> 0]

\* chunk_storage_info: lock_shared loads lc_ first.
Enter(t) ==
    /\ pc[t] = "out" /\ calls[t] < MaxCalls
    /\ calls' = [calls EXCEPT ![t] = @ + 1]
    /\ old' = [old EXCEPT ![t] = lc]
    /\ pc' = [pc EXCEPT ![t] = "shared"]
    /\ UNCHANGED <<lc, present>>

\* A writer is in or waits: yield and load again.
SharedWaits(t) ==
    /\ pc[t] = "shared" /\ old[t].w
    /\ old' = [old EXCEPT ![t] = lc]
    /\ UNCHANGED <<lc, pc, present, calls>>

CanCount(t) == lc = old[t]

\* compare_exchange_weak(old, old + 1) succeeds ...
SharedCounts(t) ==
    /\ pc[t] = "shared" /\ ~old[t].w /\ CanCount(t)
    /\ lc' = [lc EXCEPT !.r = old[t].r + 1]
    /\ pc' = [pc EXCEPT ![t] = "reading"]
    /\ UNCHANGED <<old, present, calls>>

\* ... or fails and reloads old.
SharedFails(t) ==
    /\ pc[t] = "shared" /\ ~old[t].w /\ lc # old[t]
    /\ old' = [old EXCEPT ![t] = lc]
    /\ UNCHANGED <<lc, pc, present, calls>>

\* The entry is there, or not; either way unlock_shared.
UnlockShared(t) ==
    /\ pc[t] = "reading"
    /\ lc' = [lc EXCEPT !.r = @ - 1]
    /\ pc' = [pc EXCEPT ![t] = IF present THEN "out" ELSE "exclusive"]
    /\ UNCHANGED <<old, present, calls>>

\* Mutant: the writer does not wait for the readers it found.
ExclusiveOrGoesIn(t) ==
    /\ pc[t] = "exclusive"
    /\ lc' = [lc EXCEPT !.w = TRUE]
    /\ pc' = [pc EXCEPT ![t] = IF lc.w THEN "exclusive" ELSE "writing"]
    /\ UNCHANGED <<old, present, calls>>

\* lock: fetch_or(w_flag).  Free: got it; only readers: the flag is ours and
\* they must leave; a writer: try again.
ExclusiveOr(t) ==
    /\ pc[t] = "exclusive"
    /\ lc' = [lc EXCEPT !.w = TRUE]
    /\ pc' = [pc EXCEPT ![t] = CASE lc = Free -> "writing"
                                 [] lc # Free /\ ~lc.w -> "drains"
                                 [] OTHER -> "exclusive"]
    /\ UNCHANGED <<old, present, calls>>

ReadersGone(t) ==
    /\ pc[t] = "drains" /\ lc.r = 0
    /\ pc' = [pc EXCEPT ![t] = "writing"]
    /\ UNCHANGED <<lc, old, present, calls>>

\* emplace, which keeps an entry that is there, and unlock: lc_.store(0).
EmplaceUnlock(t) ==
    /\ pc[t] = "writing"
    /\ present' = TRUE
    /\ lc' = Free
    /\ pc' = [pc EXCEPT ![t] = "out"]
    /\ UNCHANGED <<old, calls>>

Step(t) ==
    \/ SharedWaits(t) \/ SharedCounts(t) \/ SharedFails(t) \/ UnlockShared(t)
    \/ ExclusiveOr(t) \/ ReadersGone(t) \/ EmplaceUnlock(t)

Next == \E t \in Threads : Enter(t) \/ Step(t)

(* A thread inside the call is scheduled. *)
Fairness == \A t \in Threads : WF_vars(Step(t))

Spec == Init /\ [][Next]_vars /\ Fairness
-----------------------------------------------------------------------------
Places == {"out", "shared", "reading", "exclusive", "drains", "writing"}

\* Type invariant.
TypeOK ==
    /\ lc \in [w : BOOLEAN, r : Nat]
    /\ old \in [Threads -> [w : BOOLEAN, r : Nat]]
    /\ pc \in [Threads -> Places]
    /\ present \in BOOLEAN
    /\ calls \in [Threads -> 0 .. MaxCalls]

Readers == {t \in Threads : pc[t] = "reading"}

(* While a thread changes the map, nobody else reads or changes it.         *)
Exclusion ==
    \A t, u \in Threads :
        pc[t] = "writing" /\ u # t => pc[u] \notin {"reading", "writing"}

(* What lc_ says: w_flag is set by exactly one thread, the one that waits   *)
(* for the readers or writes; the other bits count the readers.             *)
WordIsTrue ==
    /\ lc.r = Cardinality(Readers)
    /\ lc.w <=> \E t \in Threads : pc[t] \in {"drains", "writing"}
    /\ \A t, u \in Threads :
          pc[t] \in {"drains", "writing"} /\ pc[u] \in {"drains", "writing"} => t = u
    /\ \A t \in Threads : pc[t] = "writing" => lc.r = 0

(* Every call of chunk_storage_info comes back: no thread waits for the     *)
(* flag or for readers for ever.                                            *)
CallsReturn == \A t \in Threads : pc[t] # "out" ~> pc[t] = "out"
=============================================================================

------------------------------ MODULE LockFree ------------------------------
(***************************************************************************)
(* The structures threads work on with atomic operations alone: the ring   *)
(* of ipc::channel (ChannelRing), the unicast rings (UnicastRing), the     *)
(* queue a subscriber reads from (CircularQueue) and the reader-writer     *)
(* lock of the chunk storages (RwLock).  They share no state, only the     *)
(* rings the number of elements and, the first two, how much is pushed.    *)
(***************************************************************************)
EXTENDS ChannelRing

CONSTANTS
    Pushers, Poppers, Policies, MaxConn, MaxRd, CcMod,      \* of UnicastRing
    Consumers, NPush, Timed,                                \* of CircularQueue
    Lockers, MaxCalls                                       \* of RwLock

\* A process has finitely many threads.
ASSUME ThreadsAssumption == IsFiniteSet(Lockers) /\ MaxCalls \in Nat

VARIABLES
    policy, rd, wt, uct, data, flag, ucc, sending, taken, member, upc, cur, ubuff, popped,
    uforces, conns,
    enqueuePos, dequeuePos, sequence, qdata, qpc, pos, out, npush, log, qtaken,
    lc, old, lpc, present, calls

U == INSTANCE UnicastRing WITH
        ct <- uct, cc <- ucc, pc <- upc, buff <- ubuff, forces <- uforces

Q == INSTANCE CircularQueue WITH Capacity <- N, data <- qdata, pc <- qpc, taken <- qtaken

W == INSTANCE RwLock WITH Threads <- Lockers, pc <- lpc

unicastVars == <<policy, rd, wt, uct, data, flag, ucc, sending, taken, member, upc, cur,
                 ubuff, popped, uforces, conns>>
queueVars == <<enqueuePos, dequeuePos, sequence, qdata, qpc, pos, out, npush, log, qtaken>>
lockVars == <<lc, old, lpc, present, calls>>
-----------------------------------------------------------------------------
\* Consumers get the elements once each, whole and in order; rd_ never passes wt_,
\* wt_ never an uncommitted element, and no producer laps rd_.
UnicastInOrderOnce == U!UnicastInOrderOnce

\* Who won a position finds what was pushed for it, and the ends never pass one
\* another nor come apart by more than the capacity.
QueueTakenIsPushed == Q!QueueTakenIsPushed

\* While a thread changes the map of chunk handles, nobody else reads or changes it.
Exclusion == W!Exclusion
=============================================================================

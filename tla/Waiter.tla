------------------------------- MODULE Waiter -------------------------------
(***************************************************************************)
(* How threads of different processes wait for each other: ipc::detail::   *)
(* waiter, a condition variable, a mutex and a count of waiters in shared  *)
(* memory, used by wait_for() with predicates such as "pop() fails".       *)
(*                                                                         *)
(*   waiter.h                    wait_if, wake, quit_waiting               *)
(*   ipc.cpp                     wait_for                                  *)
(*   platform/linux/condition.h  wait, notify, broadcast                   *)
(*   platform/linux/mutex.h      robust_mutex::lock, unlock                *)
(*   platform/linux/a0/mtx.c     a0_mtx_unlock, a0_cnd_timedwait_impl,     *)
(*                               a0_cnd_wake                               *)
(*                                                                         *)
(* The kernel's futexes are modelled from how mtx.c uses them: a wait is   *)
(* refused if the futex word has changed, a requeue moves sleepers to the  *)
(* queue of the mutex, a dead owner leaves FUTEX_OWNER_DIED behind.        *)
(*                                                                         *)
(* A predicate is a count of items: a message for every receiver (a        *)
(* broadcast queue) or for any one of them (a unicast queue).              *)
(***************************************************************************)
EXTENDS Integers, FiniteSets

CONSTANTS
  Sleepers,    \* threads that call wait_for
  Timed,       \* those among them that pass a finite timeout
  Wakers,      \* threads that publish and then call notify or broadcast
  Nobody,      \* no thread
  Broadcast,   \* TRUE: an item for each and broadcast(); FALSE: one and notify()
  MaxPost,     \* bound: items published, and calls of quit_waiting
  MaxCrash     \* bound: threads that die

Threads == Sleepers \cup Wakers

ASSUME WaiterAssumption ==
  /\ IsFiniteSet(Sleepers) /\ IsFiniteSet(Wakers)
  /\ Sleepers \cap Wakers = {}
  /\ Timed \subseteq Sleepers
  /\ Nobody \notin Threads
  /\ Broadcast \in BOOLEAN
  /\ MaxPost \in Nat /\ MaxCrash \in Nat

VARIABLES
  owner,     \* thread id in a0_mtx_t::ftx
  died,      \* FUTEX_OWNER_DIED in ftx
  broken,    \* FTX_NOTRECOVERABLE in ftx
  waiters,   \* state_t::waiters
  cnd,       \* a0_cnd_t; its 2^32 values are taken to be enough for one sleep
  avail,     \* items each sleeper could take; Nobody's entry: items for anyone
  quit,      \* waiter::quit_ of each sleeper's waiter object
  spc,       \* where each sleeper is
  seen,      \* init_cnd
  ok,        \* result of cond_.wait so far
  wpc,       \* where each waker is
  all,       \* the argument of wake()
  posts,     \* published so far
  dead       \* threads that died

lockVars == <<owner, died, broken>>
vars == <<lockVars, waiters, cnd, avail, quit, spc, seen, ok, wpc, all, posts,
          dead>>

SleeperPC == {"out", "lock", "check", "wait", "futex", "asleep", "requeued",
              "relock", "back"}
WakerPC   == {"idle", "lock", "barrier", "bump", "requeue"}

Init ==
  /\ owner = Nobody /\ died = FALSE /\ broken = FALSE
  /\ waiters = 0
  /\ cnd = 0
  /\ avail = [s \in Sleepers \cup {Nobody} |-> 0]
  /\ quit = [s \in Sleepers |-> FALSE]
  /\ spc = [s \in Sleepers |-> "out"]
  /\ seen = [s \in Sleepers |-> 0]
  /\ ok = [s \in Sleepers |-> TRUE]
  /\ wpc = [w \in Wakers |-> "idle"]
  /\ all = [w \in Wakers |-> Broadcast]
  /\ posts = 0
  /\ dead = {}

\* The items the predicate of s looks at.
Item(s) == IF Broadcast THEN s ELSE Nobody

\* pred() is false; evaluating it took the item (pop()).
Take(s) ==
  /\ avail[Item(s)] > 0
  /\ avail' = [avail EXCEPT ![Item(s)] = @ - 1]
-----------------------------------------------------------------------------
(***************************************************************************)
(* The mutex.                                                              *)
(***************************************************************************)

\* lock_guard calls robust_mutex::lock, which repairs a mutex whose owner has
\* died and tries again.  lock() of a broken mutex fails and lock_guard does
\* not look.  got: the lock is held or was refused.
Lock(t, got) ==
  \/ /\ owner = Nobody /\ ~died /\ ~broken
     /\ owner' = t
     /\ got
     /\ UNCHANGED <<died, broken>>
  \/ /\ broken
     /\ got
     /\ UNCHANGED lockVars

\* Mutant: EOWNERDEAD is not handled and lock() waits for ever.
Repair_Never ==
  /\ owner = Nobody /\ died /\ broken
  /\ UNCHANGED lockVars

Repair ==
  /\ owner = Nobody /\ died /\ ~broken
  /\ died' = FALSE
  /\ UNCHANGED <<owner, broken>>

\* a0_mtx_unlock: refused unless t is the owner; without a0_mtx_consistent a
\* dead owner's mutex ends up not recoverable.
Unlock(t) ==
  \/ /\ owner = t
     /\ owner' = Nobody
     /\ died' = FALSE
     /\ broken' = died
  \/ /\ owner # t
     /\ UNCHANGED lockVars
-----------------------------------------------------------------------------
(***************************************************************************)
(* Sleepers.                                                               *)
(***************************************************************************)
Goto(s, pc) == spc' = [spc EXCEPT ![s] = pc]

\* wait_for() evaluates the predicate without the lock, a number of times.
WaitFor(s) ==
  /\ spc[s] = "out"
  /\ \/ Take(s) /\ UNCHANGED spc
     \/ /\ avail[Item(s)] = 0
        /\ Goto(s, "lock")
        /\ UNCHANGED avail
  /\ UNCHANGED <<lockVars, waiters, cnd, quit, seen, ok, wpc, all, posts, dead>>

WaitLock(s) ==
  /\ spc[s] = "lock"
  /\ \/ Lock(s, Goto(s, "check"))
     \/ Repair /\ UNCHANGED spc
  /\ UNCHANGED <<waiters, cnd, avail, quit, seen, ok, wpc, all, posts, dead>>

\* Mutant: the predicate is not evaluated again under the lock.
WaitCheck_Blind(s) ==
  /\ spc[s] = "check"
  /\ waiters' = waiters + 1
  /\ Goto(s, "wait")
  /\ UNCHANGED <<lockVars, cnd, avail, quit, seen, ok, wpc, all, posts, dead>>

\* The loop of wait_if.  quit_ is tested first and leaves the item alone.
WaitCheck(s) ==
  /\ spc[s] = "check"
  /\ \/ /\ IF quit[s] THEN UNCHANGED avail ELSE Take(s)
        /\ Unlock(s)
        /\ Goto(s, "out")
        /\ UNCHANGED waiters
     \/ /\ ~quit[s] /\ avail[Item(s)] = 0
        /\ waiters' = waiters + 1
        /\ Goto(s, "wait")
        /\ UNCHANGED <<lockVars, avail>>
  /\ UNCHANGED <<cnd, quit, seen, ok, wpc, all, posts, dead>>

\* a0_cnd_timedwait_impl: read cnd, release the mutex, ...
CndWait(s) ==
  /\ spc[s] = "wait"
  /\ seen' = [seen EXCEPT ![s] = cnd]
  /\ Unlock(s)
  /\ ok' = [ok EXCEPT ![s] = owner = s]
  /\ Goto(s, IF owner = s THEN "futex" ELSE "back")
  /\ UNCHANGED <<waiters, cnd, avail, quit, wpc, all, posts, dead>>

\* ... sleep if cnd is still the same, else (EAGAIN) go on, ...
FutexWait(s) ==
  /\ spc[s] = "futex"
  /\ Goto(s, IF cnd = seen[s] THEN "asleep" ELSE "relock")
  /\ UNCHANGED <<lockVars, waiters, cnd, avail, quit, seen, ok, wpc, all, posts,
                 dead>>

\* The timeout may also strike while the sleeper queues for the mutex.
Timeout(s) ==
  /\ s \in Timed
  /\ spc[s] \in {"asleep", "requeued"}
  /\ ok' = [ok EXCEPT ![s] = FALSE]
  /\ Goto(s, "relock")
  /\ UNCHANGED <<lockVars, waiters, cnd, avail, quit, seen, wpc, all, posts,
                 dead>>

\* ... and take the mutex again; if its last owner died that is an error.
Reacquire(s) ==
  /\ spc[s] \in {"requeued", "relock"}
  /\ \/ /\ owner = Nobody /\ ~broken
        /\ owner' = s
        /\ ok' = [ok EXCEPT ![s] = @ /\ ~died]
        /\ UNCHANGED <<died, broken>>
     \/ /\ broken
        /\ ok' = [ok EXCEPT ![s] = FALSE]
        /\ UNCHANGED lockVars
  /\ Goto(s, "back")
  /\ UNCHANGED <<waiters, cnd, avail, quit, seen, wpc, all, posts, dead>>

\* Mutant: a timeout leaves the waiter counted.
WaitBack_StaysCounted(s) ==
  /\ spc[s] = "back"
  /\ \/ ok[s] /\ waiters' = waiters - 1 /\ Goto(s, "check") /\ UNCHANGED lockVars
     \/ ~ok[s] /\ UNCHANGED waiters /\ Goto(s, "out") /\ Unlock(s)
  /\ UNCHANGED <<cnd, avail, quit, seen, ok, wpc, all, posts, dead>>

\* cond_.wait has returned: the loop goes on, or wait_if returns false.
WaitBack(s) ==
  /\ spc[s] = "back"
  /\ waiters' = waiters - 1
  /\ \/ ok[s] /\ Goto(s, "check") /\ UNCHANGED lockVars
     \/ ~ok[s] /\ Goto(s, "out") /\ Unlock(s)
  /\ UNCHANGED <<cnd, avail, quit, seen, ok, wpc, all, posts, dead>>

Sleeper(s) ==
  \/ WaitFor(s) \/ WaitLock(s) \/ WaitCheck(s) \/ CndWait(s) \/ FutexWait(s)
  \/ Timeout(s) \/ Reacquire(s) \/ WaitBack(s)
-----------------------------------------------------------------------------
(***************************************************************************)
(* Wakers.                                                                 *)
(***************************************************************************)
WGoto(w, pc) == wpc' = [wpc EXCEPT ![w] = pc]

\* push(), then notify_readers().
Post(w) ==
  /\ wpc[w] = "idle"
  /\ posts < MaxPost
  /\ posts' = posts + 1
  /\ avail' = [x \in DOMAIN avail |->
                 avail[x] + IF (x = Nobody) = Broadcast THEN 0 ELSE 1]
  /\ all' = [all EXCEPT ![w] = Broadcast]
  /\ WGoto(w, "lock")
  /\ UNCHANGED <<lockVars, waiters, cnd, quit, spc, seen, ok, dead>>

\* quit_waiting(), by another thread of the sleeper's process.
QuitWaiting(w, s) ==
  /\ wpc[w] = "idle"
  /\ posts < MaxPost
  /\ posts' = posts + 1
  /\ quit' = [quit EXCEPT ![s] = TRUE]
  /\ all' = [all EXCEPT ![w] = TRUE]
  /\ WGoto(w, "lock")
  /\ UNCHANGED <<lockVars, waiters, cnd, avail, spc, seen, ok, dead>>

\* Mutant: wake() does not take the mutex before it looks at waiters.
WakeLock_NoBarrier(w) ==
  /\ wpc[w] = "lock"
  /\ WGoto(w, "barrier")
  /\ UNCHANGED <<lockVars, waiters, cnd, avail, quit, spc, seen, ok, all, posts,
                 dead>>

\* wake() takes the mutex, ...
WakeLock(w) ==
  /\ wpc[w] = "lock"
  /\ \/ Lock(w, WGoto(w, "barrier"))
     \/ Repair /\ UNCHANGED wpc
  /\ UNCHANGED <<waiters, cnd, avail, quit, spc, seen, ok, all, posts, dead>>

\* ... releases it and stops if nobody waits; ...
WakeCheck(w) ==
  /\ wpc[w] = "barrier"
  /\ WGoto(w, IF waiters = 0 THEN "idle" ELSE "bump")
  /\ Unlock(w)
  /\ UNCHANGED <<waiters, cnd, avail, quit, spc, seen, ok, all, posts, dead>>

\* ... a0_cnd_wake changes the word ...
WakeBump(w) ==
  /\ wpc[w] = "bump"
  /\ cnd' = cnd + 1
  /\ WGoto(w, "requeue")
  /\ UNCHANGED <<lockVars, waiters, avail, quit, spc, seen, ok, all, posts, dead>>

\* Mutant: notify() moves a single sleeper.
Moved_One(w) ==
  LET A == {s \in Sleepers \ dead : spc[s] = "asleep"} IN
  {M \in SUBSET A : IF all[w] \/ A = {} THEN M = A ELSE Cardinality(M) = 1}

\* The sleepers one requeue moves: all of them, or one woken and one requeued
\* (FUTEX_CMP_REQUEUE_PI with val = 1 and val2 = 1).
Moved(w) ==
  LET A == {s \in Sleepers \ dead : spc[s] = "asleep"} IN
  {M \in SUBSET A : IF all[w] \/ Cardinality(A) <= 2 THEN M = A
                    ELSE Cardinality(M) = 2}

\* ... and requeues the sleepers, again if the word has changed since.  The
\* kernel refuses a mutex that is not recoverable.
WakeRequeue(w) ==
  /\ wpc[w] = "requeue"
  /\ \/ /\ ~broken
        /\ \E M \in Moved(w) :
             spc' = [s \in Sleepers |-> IF s \in M THEN "requeued" ELSE spc[s]]
     \/ broken /\ UNCHANGED spc
  /\ WGoto(w, "idle")
  /\ UNCHANGED <<lockVars, waiters, cnd, avail, quit, seen, ok, all, posts, dead>>

Waker(w) ==
  \/ Post(w) \/ WakeLock(w) \/ WakeCheck(w) \/ WakeBump(w) \/ WakeRequeue(w)
  \/ \E s \in Sleepers : QuitWaiting(w, s)

\* A process dies; the kernel marks the mutexes on its robust list.
Crash(t) ==
  /\ Cardinality(dead) < MaxCrash
  /\ dead' = dead \cup {t}
  /\ \/ owner = t /\ owner' = Nobody /\ died' = TRUE
     \/ owner # t /\ UNCHANGED <<owner, died>>
  /\ UNCHANGED <<broken, waiters, cnd, avail, quit, spc, seen, ok, wpc, all,
                 posts>>
-----------------------------------------------------------------------------
Next ==
  \/ \E s \in Sleepers \ dead : Sleeper(s)
  \/ \E w \in Wakers \ dead : Waker(w)
  \/ \E t \in Threads \ dead : Crash(t)

Spec == Init /\ [][Next]_vars

\* Live threads go on; the mutex serves its waiters by priority and arrival,
\* so nobody queues for it for ever; a finite timeout ends.
Fairness ==
  /\ \A s \in Sleepers :
       /\ WF_vars(s \notin dead /\ spc[s] # "out" /\ Sleeper(s))
       /\ SF_vars(s \notin dead /\ (WaitLock(s) \/ Reacquire(s)))
       /\ WF_vars(s \notin dead /\ Timeout(s))
  /\ \A w \in Wakers :
       /\ WF_vars(w \notin dead /\ wpc[w] # "idle" /\ Waker(w))
       /\ SF_vars(w \notin dead /\ WakeLock(w))

FairSpec == Spec /\ Fairness
-----------------------------------------------------------------------------
(***************************************************************************)
(* Properties.                                                             *)
(***************************************************************************)

\* Every variable keeps its type.
TypeOK ==
  /\ owner \in Threads \cup {Nobody}
  /\ died \in BOOLEAN /\ broken \in BOOLEAN
  /\ waiters \in Nat
  /\ cnd \in Nat
  /\ avail \in [Sleepers \cup {Nobody} -> Nat]
  /\ quit \in [Sleepers -> BOOLEAN]
  /\ spc \in [Sleepers -> SleeperPC]
  /\ seen \in [Sleepers -> Nat]
  /\ ok \in [Sleepers -> BOOLEAN]
  /\ wpc \in [Wakers -> WakerPC]
  /\ all \in [Wakers -> BOOLEAN]
  /\ posts \in Nat
  /\ dead \subseteq Threads

\* s sleeps, or is going to.
Sleeping(s) == \/ spc[s] = "asleep"
               \/ spc[s] = "futex" /\ seen[s] = cnd

\* The predicate s waits on has been made false, or s was told to quit.
Ready(s) == avail[Item(s)] > 0 \/ quit[s]

\* A waker that has yet to wake the sleepers, s included.
OnTheWay(w, s) == \/ wpc[w] \in {"lock", "barrier", "bump"}
                  \/ wpc[w] = "requeue" /\ spc[s] = "asleep"

\* No wakeup is lost: a receiver sleeps with a message to take, or told to
\* quit, only as long as a thread is on its way to wake it.  (A thread that
\* died on that way still counts; a broken mutex is excepted.)
NoLostWakeup ==
  \A s \in Sleepers \ dead :
    Sleeping(s) /\ Ready(s) => broken \/ \E w \in Wakers : OnTheWay(w, s)

\* A sleeper that will evaluate its predicate once more before it sleeps.
WillLook(s) == \/ spc[s] \in {"lock", "check"}
               \/ spc[s] \in {"requeued", "relock", "back"} /\ ok[s]
               \/ spc[s] = "futex" /\ seen[s] # cnd

\* notify() wakes one of those that wait for any item: while there is an item,
\* somebody is going to look at it or to wake somebody.
NotifyReachesSomebody ==
  avail[Nobody] > 0 /\ (\E s \in Sleepers : Sleeping(s)) =>
    \/ \E s \in Sleepers : WillLook(s)
    \/ \E w \in Wakers, s \in Sleepers : OnTheWay(w, s)

\* Between waiters++ and waiters--.
Counted == {s \in Sleepers : spc[s] \in {"wait", "futex", "asleep", "requeued",
                                         "relock", "back"}}

\* wake() may skip the futex call when waiters is 0: the count is exact, those
\* that died while they waited included.
WaitersExact == waiters = Cardinality(Counted)

\* wait_for() with a finite timeout returns, whatever the wakers do and whoever
\* dies.
TimedWaitReturns ==
  \A s \in Timed : spc[s] # "out" ~> spc[s] = "out" \/ s \in dead

\* notify(), broadcast() and quit_waiting() return, even if a thread dies while
\* it holds the mutex.
WakeReturns ==
  \A w \in Wakers : wpc[w] # "idle" ~> wpc[w] = "idle" \/ w \in dead

\* A wait with a timeout, and every wake, returns whoever dies.
CallsReturn == TimedWaitReturns /\ WakeReturns

\* A sleeper whose message has arrived wakes up, unless somebody has died.
WakeupHappens ==
  \A s \in Sleepers :
    spc[s] = "asleep" /\ Ready(s) ~> spc[s] # "asleep" \/ dead # {}

\* The death of a process never makes the mutex unusable for the others: the
\* next one to take it repairs it.
MutexStaysUsable == ~broken
=============================================================================

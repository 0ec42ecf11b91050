---------------------------- MODULE WaiterProofs ----------------------------
(***************************************************************************)
(* No wakeup is lost by broadcast() and quit_waiting(), and the count of   *)
(* waiters is exact, for any number of threads, messages and deaths; and   *)
(* notify() leaves no item to threads that all sleep.                      *)
(***************************************************************************)
EXTENDS Waiter, FiniteSetTheorems, TLAPS

-----------------------------------------------------------------------------
(***************************************************************************)
(* The inductive invariant.                                                *)
(***************************************************************************)

\* Inside wait_if, outside cond_.wait, a live sleeper holds the mutex, unless
\* the mutex is beyond repair, which it stays.
LockOK ==
  /\ broken => owner = Nobody
  /\ \A s \in Sleepers \ dead :
       spc[s] \in {"check", "wait", "back"} => owner = s \/ broken

\* Every wake() is a broadcast.
AllOK == \A w \in Wakers : all[w]

\* A sleeper never waits on a word from the future.
SeenOK == \A s \in Sleepers : seen[s] <= cnd

\* Whoever made the predicate of s false has not taken the mutex while s holds
\* it, and has not reached the requeue while s is not yet asleep.
Cover(s) ==
  /\ spc[s] = "wait" => \E w \in Wakers : wpc[w] = "lock"
  /\ Sleeping(s) => \E w \in Wakers : OnTheWay(w, s)

CoverOK == \A s \in Sleepers \ dead : Ready(s) => broken \/ Cover(s)

IInv == TypeOK /\ WaitersExact /\ LockOK /\ AllOK /\ SeenOK /\ CoverOK
-----------------------------------------------------------------------------
(***************************************************************************)
(* Types.                                                                  *)
(***************************************************************************)

\* One element of a function changes to a value of its range.
LEMMA Update ==
  ASSUME NEW S, NEW T, NEW f \in [S -> T], NEW x, NEW v \in T
  PROVE  [f EXCEPT ![x] = v] \in [S -> T]
OBVIOUS

\* The waiters are finitely many; removing one leaves one less.
LEMMA CountedFinite ==
  /\ IsFiniteSet(Counted)
  /\ Cardinality(Counted) \in Nat
  /\ \A s \in Counted : Cardinality(Counted) >= 1
<1>1. IsFiniteSet(Counted)
  BY WaiterAssumption, FS_Subset DEF Counted
<1>2. Cardinality(Counted) \in Nat
  BY <1>1, FS_CardinalityType
<1>3. ASSUME NEW s \in Counted PROVE Cardinality(Counted) >= 1
  BY <1>1, <1>2, <1>3, FS_EmptySet
<1> QED
  BY <1>1, <1>2, <1>3

\* Taking, releasing or repairing the mutex keeps the types of its parts.
LEMMA LockType ==
  ASSUME TypeOK, NEW t \in Threads, NEW got,
         Lock(t, got) \/ Repair \/ Unlock(t)
  PROVE  owner' \in Threads \cup {Nobody} /\ died' \in BOOLEAN /\ broken' \in BOOLEAN
BY DEF TypeOK, Lock, Repair, Unlock, lockVars

\* Taking an item keeps the type of avail.
LEMMA TakeType ==
  ASSUME TypeOK, NEW s \in Sleepers, Take(s)
  PROVE  avail' \in [Sleepers \cup {Nobody} -> Nat]
<1>1. Item(s) \in Sleepers \cup {Nobody}
  BY DEF Item
<1>2. avail[Item(s)] \in Nat /\ avail[Item(s)] > 0
  BY <1>1 DEF TypeOK, Take
<1>3. avail[Item(s)] - 1 \in Nat
  BY <1>2
<1>4. avail' = [avail EXCEPT ![Item(s)] = avail[Item(s)] - 1]
  BY DEF Take
<1> QED
  BY <1>3, <1>4, Update DEF TypeOK

\* A sleeper's step keeps the types.
LEMMA TypeSleeper ==
  ASSUME TypeOK, WaitersExact, NEW s \in Sleepers, Sleeper(s)
  PROVE  TypeOK'
<1>0. s \in Threads
  BY DEF Threads
<1>g. ASSUME NEW pc \in SleeperPC, Goto(s, pc)
      PROVE  spc' \in [Sleepers -> SleeperPC]
  BY <1>g, Update DEF Goto, TypeOK
<1>p. {"out", "lock", "check", "wait", "futex", "asleep", "requeued",
       "relock", "back"} \subseteq SleeperPC
  BY DEF SleeperPC
<1>1. CASE WaitFor(s)
  <2>1. avail' \in [Sleepers \cup {Nobody} -> Nat]
    BY <1>1, TakeType DEF WaitFor, TypeOK
  <2>2. spc' \in [Sleepers -> SleeperPC]
    BY <1>1, <1>g, <1>p DEF WaitFor, TypeOK
  <2> QED
    BY <1>1, <2>1, <2>2 DEF WaitFor, TypeOK, lockVars
<1>2. CASE WaitLock(s)
  <2>1. owner' \in Threads \cup {Nobody} /\ died' \in BOOLEAN /\ broken' \in BOOLEAN
    BY <1>0, <1>2, LockType DEF WaitLock
  <2>2. spc' \in [Sleepers -> SleeperPC]
    BY <1>2, <1>g, <1>p DEF WaitLock, Lock, TypeOK
  <2> QED
    BY <1>2, <2>1, <2>2 DEF WaitLock, TypeOK
<1>3. CASE WaitCheck(s)
  <2>1. owner' \in Threads \cup {Nobody} /\ died' \in BOOLEAN /\ broken' \in BOOLEAN
    BY <1>0, <1>3, LockType DEF WaitCheck, lockVars, TypeOK
  <2>2. spc' \in [Sleepers -> SleeperPC]
    BY <1>3, <1>g, <1>p DEF WaitCheck
  <2>3. avail' \in [Sleepers \cup {Nobody} -> Nat]
    BY <1>3, TakeType DEF WaitCheck, TypeOK
  <2>4. waiters' \in Nat
    BY <1>3 DEF WaitCheck, TypeOK
  <2> QED
    BY <1>3, <2>1, <2>2, <2>3, <2>4 DEF WaitCheck, TypeOK
<1>4. CASE CndWait(s)
  <2>1. owner' \in Threads \cup {Nobody} /\ died' \in BOOLEAN /\ broken' \in BOOLEAN
    BY <1>0, <1>4, LockType DEF CndWait
  <2>2. spc' \in [Sleepers -> SleeperPC]
    BY <1>4, <1>g, <1>p DEF CndWait
  <2>3. seen' \in [Sleepers -> Nat]
    BY <1>4, Update DEF CndWait, TypeOK
  <2>4. ok' \in [Sleepers -> BOOLEAN]
    BY <1>4, Update, (owner = s) \in BOOLEAN DEF CndWait, TypeOK
  <2> QED
    BY <1>4, <2>1, <2>2, <2>3, <2>4 DEF CndWait, TypeOK
<1>5. CASE FutexWait(s)
  <2>1. spc' \in [Sleepers -> SleeperPC]
    BY <1>5, <1>g, <1>p DEF FutexWait
  <2> QED
    BY <1>5, <2>1 DEF FutexWait, TypeOK, lockVars
<1>6. CASE Timeout(s)
  <2>1. spc' \in [Sleepers -> SleeperPC]
    BY <1>6, <1>g, <1>p DEF Timeout
  <2>2. ok' \in [Sleepers -> BOOLEAN]
    BY <1>6, Update, FALSE \in BOOLEAN DEF Timeout, TypeOK
  <2> QED
    BY <1>6, <2>1, <2>2 DEF Timeout, TypeOK, lockVars
<1>7. CASE Reacquire(s)
  <2>1. owner' \in Threads \cup {Nobody} /\ died' \in BOOLEAN /\ broken' \in BOOLEAN
    BY <1>0, <1>7 DEF Reacquire, lockVars, TypeOK
  <2>2. spc' \in [Sleepers -> SleeperPC]
    BY <1>7, <1>g, <1>p DEF Reacquire
  <2>3. (ok[s] /\ ~died) \in BOOLEAN /\ FALSE \in BOOLEAN
    OBVIOUS
  <2>4. \/ ok' = [ok EXCEPT ![s] = ok[s] /\ ~died]
        \/ ok' = [ok EXCEPT ![s] = FALSE]
    BY <1>7 DEF Reacquire
  <2>5. ok' \in [Sleepers -> BOOLEAN]
    BY <2>3, <2>4, Update DEF TypeOK
  <2> QED
    BY <1>7, <2>1, <2>2, <2>5 DEF Reacquire, TypeOK
<1>8. CASE WaitBack(s)
  <2>1. owner' \in Threads \cup {Nobody} /\ died' \in BOOLEAN /\ broken' \in BOOLEAN
    BY <1>0, <1>8, LockType DEF WaitBack, lockVars, TypeOK
  <2>2. spc' \in [Sleepers -> SleeperPC]
    BY <1>8, <1>g, <1>p DEF WaitBack
  <2>3. s \in Counted
    BY <1>8 DEF WaitBack, Counted
  <2>4. waiters' \in Nat
    BY <1>8, <2>3, CountedFinite DEF WaitBack, WaitersExact
  <2> QED
    BY <1>8, <2>1, <2>2, <2>4 DEF WaitBack, TypeOK
<1> QED
  BY <1>1, <1>2, <1>3, <1>4, <1>5, <1>6, <1>7, <1>8 DEF Sleeper
\* A requeue keeps every sleeper in the function, and in cond_.wait.
LEMMA RequeueMoves ==
  ASSUME TypeOK, NEW w \in Wakers, WakeRequeue(w)
  PROVE  /\ spc' \in [Sleepers -> SleeperPC]
         /\ \A s \in Sleepers :
              spc'[s] = spc[s] \/ (spc[s] = "asleep" /\ spc'[s] = "requeued")
<1>1. CASE broken /\ UNCHANGED spc
  BY <1>1 DEF TypeOK
<1>2. CASE /\ ~broken
           /\ \E M \in Moved(w) :
                spc' = [s \in Sleepers |-> IF s \in M THEN "requeued" ELSE spc[s]]
  <2>1. PICK M \in Moved(w) :
          spc' = [s \in Sleepers |-> IF s \in M THEN "requeued" ELSE spc[s]]
    BY <1>2
  <2>2. \A s \in M : spc[s] = "asleep"
    BY DEF Moved
  <2>3. "requeued" \in SleeperPC
    BY DEF SleeperPC
  <2>4. \A s \in Sleepers : spc[s] \in SleeperPC
    BY DEF TypeOK
  <2> QED
    BY <2>1, <2>2, <2>3, <2>4
<1> QED
  BY <1>1, <1>2 DEF WakeRequeue

\* A waker's step keeps the types.
LEMMA TypeWaker ==
  ASSUME TypeOK, NEW w \in Wakers, Waker(w)
  PROVE  TypeOK'
<1>0. w \in Threads
  BY DEF Threads
<1>g. ASSUME NEW pc \in WakerPC, WGoto(w, pc)
      PROVE  wpc' \in [Wakers -> WakerPC]
  BY <1>g, Update DEF WGoto, TypeOK
<1>p. {"idle", "lock", "barrier", "bump", "requeue"} \subseteq WakerPC
  BY DEF WakerPC
<1>1. CASE Post(w)
  <2>1. avail' \in [Sleepers \cup {Nobody} -> Nat]
    BY <1>1 DEF Post, TypeOK
  <2>2. all' \in [Wakers -> BOOLEAN]
    BY <1>1, Update, WaiterAssumption DEF Post, TypeOK
  <2>3. wpc' \in [Wakers -> WakerPC]
    BY <1>1, <1>g, <1>p DEF Post
  <2>4. posts' \in Nat
    BY <1>1 DEF Post, TypeOK
  <2> QED
    BY <1>1, <2>1, <2>2, <2>3, <2>4 DEF Post, TypeOK, lockVars
<1>2. CASE WakeLock(w)
  <2>1. owner' \in Threads \cup {Nobody} /\ died' \in BOOLEAN /\ broken' \in BOOLEAN
    BY <1>0, <1>2, LockType DEF WakeLock
  <2>2. wpc' \in [Wakers -> WakerPC]
    BY <1>2, <1>g, <1>p DEF WakeLock, Lock, TypeOK
  <2> QED
    BY <1>2, <2>1, <2>2 DEF WakeLock, TypeOK
<1>3. CASE WakeCheck(w)
  <2>1. owner' \in Threads \cup {Nobody} /\ died' \in BOOLEAN /\ broken' \in BOOLEAN
    BY <1>0, <1>3, LockType DEF WakeCheck
  <2>2. wpc' \in [Wakers -> WakerPC]
    BY <1>3, <1>g, <1>p DEF WakeCheck
  <2> QED
    BY <1>3, <2>1, <2>2 DEF WakeCheck, TypeOK
<1>4. CASE WakeBump(w)
  <2>1. wpc' \in [Wakers -> WakerPC]
    BY <1>4, <1>g, <1>p DEF WakeBump
  <2> QED
    BY <1>4, <2>1 DEF WakeBump, TypeOK, lockVars
<1>5. CASE WakeRequeue(w)
  <2>1. wpc' \in [Wakers -> WakerPC]
    BY <1>5, <1>g, <1>p DEF WakeRequeue
  <2> QED
    BY <1>5, <2>1, RequeueMoves DEF WakeRequeue, TypeOK, lockVars
<1>6. ASSUME NEW s \in Sleepers, QuitWaiting(w, s)
      PROVE  TypeOK'
  <2>1. quit' \in [Sleepers -> BOOLEAN] /\ all' \in [Wakers -> BOOLEAN]
    BY <1>6, Update, TRUE \in BOOLEAN DEF QuitWaiting, TypeOK
  <2>2. wpc' \in [Wakers -> WakerPC]
    BY <1>6, <1>g, <1>p DEF QuitWaiting
  <2>3. posts' \in Nat
    BY <1>6 DEF QuitWaiting, TypeOK
  <2> QED
    BY <1>6, <2>1, <2>2, <2>3 DEF QuitWaiting, TypeOK, lockVars
<1> QED
  BY <1>1, <1>2, <1>3, <1>4, <1>5, <1>6 DEF Waker

\* Every step keeps the types.
LEMMA TypeNext ==
  ASSUME TypeOK, WaitersExact, [Next]_vars
  PROVE  TypeOK'
<1>1. ASSUME NEW s \in Sleepers \ dead, Sleeper(s) PROVE TypeOK'
  BY <1>1, TypeSleeper
<1>2. ASSUME NEW w \in Wakers \ dead, Waker(w) PROVE TypeOK'
  BY <1>2, TypeWaker
<1>3. ASSUME NEW t \in Threads \ dead, Crash(t) PROVE TypeOK'
  BY <1>3 DEF Crash, TypeOK
<1>4. CASE UNCHANGED vars
  BY <1>4 DEF vars, lockVars, TypeOK
<1> QED
  BY <1>1, <1>2, <1>3, <1>4 DEF Next
-----------------------------------------------------------------------------
(***************************************************************************)
(* The count of waiters.                                                   *)
(***************************************************************************)

\* A step that leaves every sleeper inside or outside cond_.wait.
LEMMA CountedSame ==
  ASSUME TypeOK, WaitersExact, waiters' = waiters,
         \A s \in Sleepers : spc'[s] = spc[s] \/
           (spc[s] \in {"wait", "futex", "asleep", "requeued", "relock", "back"}
            /\ spc'[s] \in {"wait", "futex", "asleep", "requeued", "relock", "back"})
           \/ (spc[s] \in {"out", "lock", "check"}
               /\ spc'[s] \in {"out", "lock", "check"})
  PROVE  WaitersExact'
<1>1. Counted' = Counted
  BY DEF Counted
<1> QED
  BY <1>1 DEF WaitersExact

\* A sleeper's step keeps the count exact.
LEMMA ExactSleeper ==
  ASSUME TypeOK, WaitersExact, NEW s \in Sleepers, Sleeper(s)
  PROVE  WaitersExact'
<1>g. ASSUME NEW pc, Goto(s, pc)
      PROVE  spc'[s] = pc /\ \A x \in Sleepers \ {s} : spc'[x] = spc[x]
  BY <1>g DEF Goto, TypeOK
<1>1. CASE WaitFor(s) \/ WaitLock(s)
  BY <1>1, <1>g, CountedSame DEF WaitFor, WaitLock, Lock
<1>2. CASE WaitCheck(s)
  <2>1. CASE Goto(s, "out") /\ UNCHANGED waiters
    BY <1>2, <2>1, <1>g, CountedSame DEF WaitCheck
  <2>2. CASE Goto(s, "wait") /\ waiters' = waiters + 1
    <3>1. Counted' = Counted \cup {s} /\ s \notin Counted
      BY <1>2, <2>2, <1>g DEF Counted, WaitCheck
    <3>2. Cardinality(Counted \cup {s}) = Cardinality(Counted) + 1
      BY <3>1, CountedFinite, FS_AddElement
    <3> QED
      BY <2>2, <3>1, <3>2 DEF WaitersExact
  <2> QED
    BY <1>2, <2>1, <2>2 DEF WaitCheck
<1>3. CASE CndWait(s) \/ FutexWait(s) \/ Timeout(s) \/ Reacquire(s)
  BY <1>3, <1>g, CountedSame DEF CndWait, FutexWait, Timeout, Reacquire
<1>4. CASE WaitBack(s)
  <2>1. Counted' = Counted \ {s} /\ s \in Counted
    BY <1>4, <1>g DEF Counted, WaitBack
  <2>2. Cardinality(Counted \ {s}) = Cardinality(Counted) - 1
    BY <2>1, CountedFinite, FS_RemoveElement
  <2> QED
    BY <1>4, <2>1, <2>2 DEF WaitersExact, WaitBack
<1> QED
  BY <1>1, <1>2, <1>3, <1>4 DEF Sleeper

\* Every step keeps the count exact.
LEMMA ExactNext ==
  ASSUME TypeOK, WaitersExact, [Next]_vars
  PROVE  WaitersExact'
<1>1. ASSUME NEW s \in Sleepers \ dead, Sleeper(s) PROVE WaitersExact'
  BY <1>1, ExactSleeper
<1>2. ASSUME NEW w \in Wakers \ dead, Waker(w) PROVE WaitersExact'
  <2>1. waiters' = waiters
    BY <1>2 DEF Waker, Post, WakeLock, WakeCheck, WakeBump, WakeRequeue, QuitWaiting
  <2>2. \A s \in Sleepers :
          spc'[s] = spc[s] \/ (spc[s] = "asleep" /\ spc'[s] = "requeued")
    BY <1>2, RequeueMoves DEF Waker, Post, WakeLock, WakeCheck, WakeBump, QuitWaiting
  <2> QED
    BY <2>1, <2>2, CountedSame
<1>3. CASE (\E t \in Threads \ dead : Crash(t)) \/ UNCHANGED vars
  BY <1>3 DEF Crash, vars, WaitersExact, Counted
<1> QED
  BY <1>1, <1>2, <1>3 DEF Next

\* Initially nobody waits.
LEMMA InitTypes == Init => TypeOK /\ WaitersExact
<1> SUFFICES ASSUME Init PROVE TypeOK /\ WaitersExact
  OBVIOUS
<1>1. TypeOK
  BY WaiterAssumption DEF Init, TypeOK, SleeperPC, WakerPC
<1>2. Counted = {}
  BY DEF Init, Counted
<1> QED
  BY <1>1, <1>2, FS_EmptySet DEF Init, WaitersExact

\* Every variable keeps its type, and waiters is exactly the number of threads
\* between waiters++ and waiters-- of wait_if, so that wake() skips its futex
\* call only when nobody can need it: whatever dies and however often.
THEOREM ExactCount == Spec => [](TypeOK /\ WaitersExact)
<1>1. Init => TypeOK /\ WaitersExact
  BY InitTypes
<1>2. (TypeOK /\ WaitersExact) /\ [Next]_vars => (TypeOK /\ WaitersExact)'
  BY TypeNext, ExactNext
<1> QED
  BY <1>1, <1>2, PTL DEF Spec
-----------------------------------------------------------------------------
(***************************************************************************)
(* The mutex, the words read, the kind of wake.                            *)
(***************************************************************************)

\* A mutex beyond repair stays so.
LEMMA BrokenStays ==
  ASSUME TypeOK, LockOK, [Next]_vars, broken
  PROVE  broken'
<1>1. \A t \in Threads : owner # t
  BY WaiterAssumption DEF LockOK
<1>2. ASSUME NEW s \in Sleepers, Sleeper(s) PROVE broken'
  BY <1>1, <1>2 DEF Sleeper, WaitFor, WaitLock, WaitCheck, CndWait, FutexWait,
     Timeout, Reacquire, WaitBack, Lock, Unlock, Repair, lockVars, Threads
<1>3. ASSUME NEW w \in Wakers, Waker(w) PROVE broken'
  BY <1>1, <1>3 DEF Waker, Post, WakeLock, WakeCheck, WakeBump, WakeRequeue,
     QuitWaiting, Lock, Unlock, Repair, lockVars, Threads
<1> QED
  BY <1>2, <1>3 DEF Next, Crash, vars, lockVars

\* Every step keeps LockOK.
LEMMA LockNext ==
  ASSUME TypeOK, LockOK, [Next]_vars
  PROVE  LockOK'
<1>1. ASSUME NEW s \in Sleepers \ dead, Sleeper(s) PROVE LockOK'
  <2>g. ASSUME NEW pc, Goto(s, pc)
        PROVE  spc'[s] = pc /\ \A x \in Sleepers \ {s} : spc'[x] = spc[x]
    BY <2>g DEF Goto, TypeOK
  <2>n. s # Nobody /\ s \in Threads /\ dead' = dead
    BY <1>1, WaiterAssumption DEF Threads, Sleeper, WaitFor, WaitLock, WaitCheck,
       CndWait, FutexWait, Timeout, Reacquire, WaitBack
  <2>1. CASE WaitFor(s) \/ FutexWait(s) \/ Timeout(s)
    BY <2>1, <2>g, <2>n DEF WaitFor, FutexWait, Timeout, LockOK, lockVars
  <2>2. CASE WaitLock(s)
    BY <2>2, <2>g, <2>n, WaiterAssumption DEF WaitLock, Lock, Repair, LockOK, lockVars, Threads
  <2>3. CASE WaitCheck(s)
    BY <2>3, <2>g, <2>n DEF WaitCheck, Unlock, LockOK, lockVars
  <2>4. CASE CndWait(s)
    BY <2>4, <2>g, <2>n DEF CndWait, Unlock, LockOK, lockVars
  <2>5. CASE Reacquire(s)
    BY <2>5, <2>g, <2>n, WaiterAssumption DEF Reacquire, LockOK, lockVars, Threads
  <2>6. CASE WaitBack(s)
    BY <2>6, <2>g, <2>n DEF WaitBack, Unlock, LockOK, lockVars
  <2> QED
    BY <1>1, <2>1, <2>2, <2>3, <2>4, <2>5, <2>6 DEF Sleeper
<1>2. ASSUME NEW w \in Wakers \ dead, Waker(w) PROVE LockOK'
  <2>n. w \notin Sleepers /\ w # Nobody /\ dead' = dead
    BY <1>2, WaiterAssumption DEF Threads, Waker, Post, WakeLock, WakeCheck,
       WakeBump, WakeRequeue, QuitWaiting
  <2>1. CASE WakeLock(w)
    BY <2>1, <2>n, WaiterAssumption DEF WakeLock, Lock, Repair, LockOK, lockVars, Threads
  <2>2. CASE WakeCheck(w)
    BY <2>2, <2>n DEF WakeCheck, Unlock, LockOK, lockVars
  <2>3. CASE WakeRequeue(w)
    BY <2>3, <2>n, RequeueMoves DEF WakeRequeue, LockOK, lockVars
  <2>4. CASE Post(w) \/ WakeBump(w) \/ \E s \in Sleepers : QuitWaiting(w, s)
    BY <2>4, <2>n DEF Post, WakeBump, QuitWaiting, LockOK, lockVars
  <2> QED
    BY <1>2, <2>1, <2>2, <2>3, <2>4 DEF Waker
<1>3. ASSUME NEW t \in Threads \ dead, Crash(t) PROVE LockOK'
  BY <1>3 DEF Crash, LockOK
<1>4. CASE UNCHANGED vars
  BY <1>4 DEF vars, lockVars, LockOK
<1> QED
  BY <1>1, <1>2, <1>3, <1>4 DEF Next

\* Every step keeps SeenOK.
LEMMA SeenNext ==
  ASSUME TypeOK, SeenOK, [Next]_vars
  PROVE  SeenOK'
<1>1. ASSUME NEW s \in Sleepers, Sleeper(s) PROVE SeenOK'
  BY <1>1 DEF Sleeper, WaitFor, WaitLock, WaitCheck, CndWait, FutexWait, Timeout,
     Reacquire, WaitBack, SeenOK, TypeOK
<1>2. ASSUME NEW w \in Wakers, Waker(w) PROVE SeenOK'
  <2>1. seen' = seen /\ (cnd' = cnd \/ cnd' = cnd + 1)
    BY <1>2 DEF Waker, Post, WakeLock, WakeCheck, WakeBump, WakeRequeue, QuitWaiting
  <2> QED
    BY <2>1 DEF SeenOK, TypeOK
<1>3. CASE (\E t \in Threads \ dead : Crash(t)) \/ UNCHANGED vars
  BY <1>3 DEF Crash, vars, SeenOK
<1> QED
  BY <1>1, <1>2, <1>3 DEF Next

\* On a broadcast queue every step keeps AllOK.
LEMMA AllNext ==
  ASSUME Broadcast, TypeOK, AllOK, [Next]_vars
  PROVE  AllOK'
<1>1. ASSUME NEW s \in Sleepers, Sleeper(s) PROVE AllOK'
  BY <1>1 DEF Sleeper, WaitFor, WaitLock, WaitCheck, CndWait, FutexWait, Timeout,
     Reacquire, WaitBack, AllOK
<1>2. ASSUME NEW w \in Wakers, Waker(w) PROVE AllOK'
  <2>1. all' = all \/ all' = [all EXCEPT ![w] = TRUE] \/ all' = [all EXCEPT ![w] = Broadcast]
    BY <1>2 DEF Waker, Post, WakeLock, WakeCheck, WakeBump, WakeRequeue, QuitWaiting
  <2> QED
    BY <2>1 DEF AllOK, TypeOK
<1>3. CASE (\E t \in Threads \ dead : Crash(t)) \/ UNCHANGED vars
  BY <1>3 DEF Crash, vars, AllOK
<1> QED
  BY <1>1, <1>2, <1>3 DEF Next
-----------------------------------------------------------------------------
(***************************************************************************)
(* No lost wakeup.                                                         *)
(***************************************************************************)

\* A sleeper's step makes no predicate false and moves no waker.
LEMMA SleeperFrame ==
  ASSUME Broadcast, TypeOK, NEW s \in Sleepers, Sleeper(s)
  PROVE  /\ wpc' = wpc /\ cnd' = cnd /\ quit' = quit /\ dead' = dead
         /\ \A x \in Sleepers : Ready(x)' => Ready(x)
         /\ \A x \in Sleepers \ {s} : spc'[x] = spc[x] /\ seen'[x] = seen[x]
<1>1. wpc' = wpc /\ cnd' = cnd /\ quit' = quit /\ dead' = dead
  BY DEF Sleeper, WaitFor, WaitLock, WaitCheck, CndWait, FutexWait, Timeout,
     Reacquire, WaitBack
<1>2. avail' = avail \/ Take(s)
  BY DEF Sleeper, WaitFor, WaitLock, WaitCheck, CndWait, FutexWait, Timeout,
     Reacquire, WaitBack
<1>3. \A x \in Sleepers : Item(x) = x
  BY DEF Item
<1>4. \A x \in Sleepers : avail'[x] > 0 => avail[x] > 0
  BY <1>2, <1>3 DEF Take, TypeOK
<1>5. \A x \in Sleepers : Ready(x)' => Ready(x)
  BY <1>1, <1>3, <1>4 DEF Ready, Item
<1>6. \A x \in Sleepers \ {s} : spc'[x] = spc[x] /\ seen'[x] = seen[x]
  BY DEF Sleeper, WaitFor, WaitLock, WaitCheck, CndWait, FutexWait, Timeout,
     Reacquire, WaitBack, Goto, Lock, TypeOK
<1> QED
  BY <1>1, <1>5, <1>6

\* A sleeper's step keeps every sleeper covered.
LEMMA CoverSleeper ==
  ASSUME Broadcast, IInv, NEW s \in Sleepers \ dead, Sleeper(s),
         NEW x \in Sleepers \ dead, Ready(x)', ~broken
  PROVE  Cover(x)'
<1>1. Cover(x) /\ Ready(x)
  BY SleeperFrame DEF IInv, CoverOK
<1>2. wpc' = wpc /\ cnd' = cnd
  BY SleeperFrame DEF IInv
<1>3. CASE x # s
  <2>1. spc'[x] = spc[x] /\ seen'[x] = seen[x]
    BY <1>3, SleeperFrame DEF IInv
  <2> QED
    BY <1>1, <1>2, <2>1 DEF Cover, Sleeping, OnTheWay
<1>4. CASE x = s
  <2>g. ASSUME NEW pc, Goto(s, pc) PROVE spc'[s] = pc
    BY <2>g DEF Goto, IInv, TypeOK
  <2>1. CASE WaitFor(s) \/ WaitLock(s) \/ Timeout(s) \/ Reacquire(s) \/ WaitBack(s)
    <3>1. spc'[s] \in {"out", "lock", "check", "relock", "back"}
      BY <2>1, <2>g DEF WaitFor, WaitLock, Timeout, Reacquire, WaitBack, Lock
    <3> QED
      BY <1>4, <3>1 DEF Cover, Sleeping
  <2>2. CASE WaitCheck(s)
    <3>1. CASE Goto(s, "out")
      BY <1>4, <3>1, <2>g DEF Cover, Sleeping
    <3>2. CASE ~quit[s] /\ avail[Item(s)] = 0
      BY <1>1, <1>4, <3>2 DEF Ready
    <3> QED
      BY <2>2, <3>1, <3>2 DEF WaitCheck
  <2>3. CASE CndWait(s)
    <3>1. spc[s] = "wait" /\ spc'[s] \in {"futex", "back"}
      BY <2>3, <2>g DEF CndWait
    <3>2. PICK w \in Wakers : wpc[w] = "lock"
      BY <1>1, <1>4, <3>1 DEF Cover
    <3> QED
      BY <1>2, <1>4, <3>1, <3>2 DEF Cover, OnTheWay
  <2>4. CASE FutexWait(s)
    <3>1. spc[s] = "futex" /\ (spc'[s] = "relock" \/ (spc'[s] = "asleep" /\ cnd = seen[s]))
      BY <2>4, <2>g DEF FutexWait
    <3>2. CASE spc'[s] = "relock"
      BY <1>4, <3>2 DEF Cover, Sleeping
    <3>3. CASE cnd = seen[s]
      <4>1. PICK w \in Wakers : OnTheWay(w, s)
        BY <1>1, <1>4, <3>1, <3>3 DEF Cover, Sleeping
      <4>2. wpc[w] \in {"lock", "barrier", "bump"}
        BY <3>1, <4>1 DEF OnTheWay
      <4>3. OnTheWay(w, s)' /\ spc'[s] # "wait"
        BY <1>2, <3>1, <4>2 DEF OnTheWay
      <4> QED
        BY <1>4, <4>3 DEF Cover
    <3> QED
      BY <3>1, <3>2, <3>3
  <2> QED
    BY <2>1, <2>2, <2>3, <2>4 DEF Sleeper
<1> QED
  BY <1>3, <1>4

\* A waker's step keeps every sleeper covered.
LEMMA CoverWaker ==
  ASSUME Broadcast, IInv, NEW w \in Wakers \ dead, Waker(w),
         NEW x \in Sleepers \ dead, Ready(x)', ~broken
  PROVE  Cover(x)'
<1>g. ASSUME NEW pc, WGoto(w, pc)
      PROVE  wpc'[w] = pc /\ \A v \in Wakers \ {w} : wpc'[v] = wpc[v]
  BY <1>g DEF WGoto, IInv, TypeOK
<1>1. CASE Post(w) \/ \E s \in Sleepers : QuitWaiting(w, s)
  <2>1. wpc'[w] = "lock"
    BY <1>1, <1>g DEF Post, QuitWaiting
  <2> QED
    BY <2>1 DEF Cover, OnTheWay
<1>2. ASSUME avail' = avail, quit' = quit PROVE Cover(x)
  BY <1>2 DEF IInv, CoverOK, Ready, Item
<1>3. CASE WakeLock(w)
  <2>1. spc' = spc /\ cnd' = cnd /\ seen' = seen /\ Cover(x)
    BY <1>2, <1>3 DEF WakeLock
  <2>2. spc[x] # "wait"
    BY <1>3, WaiterAssumption DEF WakeLock, Lock, Repair, IInv, LockOK, Threads
  <2>3. wpc' = wpc \/ (wpc[w] = "lock" /\ wpc'[w] = "barrier" /\
                       \A v \in Wakers \ {w} : wpc'[v] = wpc[v])
    BY <1>3, <1>g DEF WakeLock, Lock
  <2>4. ASSUME NEW v \in Wakers, OnTheWay(v, x) PROVE OnTheWay(v, x)'
    BY <2>1, <2>3, <2>4 DEF OnTheWay
  <2> QED
    BY <2>1, <2>2, <2>4 DEF Cover, Sleeping
<1>4. CASE WakeCheck(w)
  <2>1. spc' = spc /\ cnd' = cnd /\ seen' = seen /\ Cover(x)
    BY <1>2, <1>4 DEF WakeCheck
  <2>2. wpc[w] = "barrier" /\ \A v \in Wakers \ {w} : wpc'[v] = wpc[v]
    BY <1>4, <1>g DEF WakeCheck
  <2>3. ASSUME Sleeping(x) PROVE wpc'[w] = "bump"
    <3>1. x \in Counted
      BY <2>3 DEF Sleeping, Counted
    <3>2. waiters # 0
      BY <3>1, CountedFinite DEF IInv, WaitersExact
    <3> QED
      BY <1>4, <1>g, <3>2 DEF WakeCheck
  <2>4. ASSUME NEW v \in Wakers, OnTheWay(v, x), Sleeping(x) PROVE OnTheWay(v, x)'
    BY <2>1, <2>2, <2>3, <2>4 DEF OnTheWay
  <2>5. Sleeping(x)' => Sleeping(x)
    BY <2>1 DEF Sleeping
  <2>6. ASSUME NEW v \in Wakers, wpc[v] = "lock" PROVE wpc'[v] = "lock"
    BY <2>2, <2>6
  <2> QED
    BY <2>1, <2>4, <2>5, <2>6 DEF Cover
<1>5. CASE WakeBump(w)
  <2>1. spc' = spc /\ cnd' = cnd + 1 /\ seen' = seen /\ Cover(x)
    BY <1>2, <1>5 DEF WakeBump
  <2>2. wpc[w] = "bump" /\ wpc'[w] = "requeue" /\ \A v \in Wakers \ {w} : wpc'[v] = wpc[v]
    BY <1>5, <1>g DEF WakeBump
  <2>3. ASSUME Sleeping(x)' PROVE spc[x] = "asleep"
    BY <2>1, <2>3 DEF Sleeping, IInv, SeenOK, TypeOK
  <2>4. ASSUME NEW v \in Wakers, OnTheWay(v, x), spc[x] = "asleep" PROVE OnTheWay(v, x)'
    BY <2>1, <2>2, <2>4 DEF OnTheWay
  <2>5. ASSUME NEW v \in Wakers, wpc[v] = "lock" PROVE wpc'[v] = "lock"
    BY <2>2, <2>5
  <2> QED
    BY <2>1, <2>3, <2>4, <2>5 DEF Cover, Sleeping
<1>6. CASE WakeRequeue(w)
  <2>1. cnd' = cnd /\ seen' = seen /\ Cover(x)
    BY <1>2, <1>6 DEF WakeRequeue
  <2>2. wpc[w] = "requeue" /\ \A v \in Wakers \ {w} : wpc'[v] = wpc[v]
    BY <1>6, <1>g DEF WakeRequeue
  <2>3. PICK M \in Moved(w) :
          spc' = [s \in Sleepers |-> IF s \in M THEN "requeued" ELSE spc[s]]
    BY <1>6 DEF WakeRequeue
  <2>4. M = {s \in Sleepers \ dead : spc[s] = "asleep"}
    BY DEF Moved, IInv, AllOK
  <2>5. CASE spc[x] = "asleep"
    BY <2>3, <2>4, <2>5 DEF Cover, Sleeping
  <2>6. CASE spc[x] # "asleep"
    <3>1. spc'[x] = spc[x]
      BY <2>3, <2>4, <2>6
    <3>2. Sleeping(x)' => Sleeping(x)
      BY <2>1, <3>1 DEF Sleeping
    <3>3. ASSUME NEW v \in Wakers, OnTheWay(v, x) PROVE OnTheWay(v, x)'
      BY <2>2, <2>6, <3>1, <3>3 DEF OnTheWay
    <3>4. ASSUME NEW v \in Wakers, wpc[v] = "lock" PROVE wpc'[v] = "lock"
      BY <2>2, <3>4
    <3> QED
      BY <2>1, <3>1, <3>2, <3>3, <3>4 DEF Cover
  <2> QED
    BY <2>5, <2>6
<1> QED
  BY <1>1, <1>3, <1>4, <1>5, <1>6 DEF Waker

\* Every step keeps CoverOK.
LEMMA CoverNext ==
  ASSUME Broadcast, IInv, [Next]_vars
  PROVE  CoverOK'
<1>0. ASSUME ~broken' PROVE ~broken
  BY <1>0, BrokenStays DEF IInv
<1> SUFFICES ASSUME NEW x \in (Sleepers \ dead)', Ready(x)', ~broken'
             PROVE  Cover(x)'
  BY DEF CoverOK
<1>1. ASSUME NEW s \in Sleepers \ dead, Sleeper(s) PROVE Cover(x)'
  <2>1. dead' = dead
    BY <1>1, SleeperFrame DEF IInv
  <2> QED
    BY <1>0, <1>1, <2>1, CoverSleeper
<1>2. ASSUME NEW w \in Wakers \ dead, Waker(w) PROVE Cover(x)'
  <2>1. dead' = dead
    BY <1>2 DEF Waker, Post, WakeLock, WakeCheck, WakeBump, WakeRequeue, QuitWaiting
  <2> QED
    BY <1>0, <1>2, <2>1, CoverWaker
<1>3. CASE (\E t \in Threads \ dead : Crash(t)) \/ UNCHANGED vars
  <2>1. dead \subseteq dead' /\ spc' = spc /\ wpc' = wpc /\ avail' = avail
        /\ quit' = quit /\ cnd' = cnd /\ seen' = seen
    BY <1>3 DEF Crash, vars
  <2>2. Ready(x)
    BY <2>1 DEF Ready, Item
  <2>3. Cover(x)
    BY <1>0, <2>1, <2>2 DEF IInv, CoverOK
  <2> QED
    BY <2>1, <2>3 DEF Cover, Sleeping, OnTheWay
<1> QED
  BY <1>1, <1>2, <1>3 DEF Next

\* On a broadcast queue no wakeup is lost: a receiver of any number, with any
\* number of senders, never sleeps past its message, or past quit_waiting(),
\* without a thread that is still on its way through wake().
THEOREM WakeupNotLost ==
  ASSUME Broadcast
  PROVE  Spec => []NoLostWakeup
<1>1. Init => IInv
  <2> SUFFICES ASSUME Init PROVE IInv
    OBVIOUS
  <2>1. TypeOK /\ WaitersExact
    BY InitTypes
  <2>2. LockOK /\ AllOK /\ SeenOK
    BY DEF Init, LockOK, AllOK, SeenOK
  <2>3. CoverOK
    BY DEF Init, CoverOK, Cover, Sleeping
  <2> QED
    BY <2>1, <2>2, <2>3 DEF IInv
<1>2. IInv /\ [Next]_vars => IInv'
  BY TypeNext, ExactNext, LockNext, SeenNext, AllNext, CoverNext DEF IInv
<1>3. IInv => NoLostWakeup
  BY DEF IInv, CoverOK, Cover, NoLostWakeup
<1> QED
  BY <1>1, <1>2, <1>3, PTL DEF Spec
-----------------------------------------------------------------------------
(***************************************************************************)
(* notify().  An item is for anyone; a waker moves two sleepers, or the    *)
(* only one.  The items left are counted against those that will look at   *)
(* them and the wakers on their way, for each sleeper that does not look.  *)
(***************************************************************************)

\* Nobody has died.
Unharmed == dead = {} /\ ~died /\ ~broken

\* Without a timeout and a death cond_.wait never fails.
ResultOK ==
  \A s \in Sleepers \ Timed :
    spc[s] \in {"futex", "asleep", "requeued", "relock", "back"} => ok[s]

\* s has found no item and will not look again by itself.
Awaits(s) == spc[s] = "wait" \/ Sleeping(s)

\* The wakers that will find s waiting.
Coming(s) ==
  {w \in Wakers : IF spc[s] = "wait" THEN wpc[w] = "lock" ELSE OnTheWay(w, s)}

\* One of them wakes all that sleep.
AllComes(s) == \E w \in Coming(s) : all[w]

\* Those that will look at the items: a thread with a timeout may give up, and one
\* that was told to quit leaves the item alone.
Lookers == {s \in Sleepers \ Timed : WillLook(s) /\ ~quit[s]}

\* Whoever was told to quit is going to be woken, with all others.
QuitOK == \A s \in Sleepers : Awaits(s) /\ quit[s] => AllComes(s)

\* For every item there is somebody that will look at it or wake somebody.
Enough(s) ==
  avail[Nobody] <= Cardinality(Lookers) + Cardinality(Coming(s)) \/ AllComes(s)
CountOK == \A s \in Sleepers : Awaits(s) => Enough(s)

\* The setting of notify(): nobody dies, and at most one thread has a timeout.
NotifyOnly ==
  /\ ~Broadcast
  /\ MaxCrash = 0
  /\ \A s, t \in Timed : s = t

NInv == /\ TypeOK /\ WaitersExact /\ LockOK /\ SeenOK
        /\ Unharmed /\ ResultOK /\ QuitOK /\ CountOK

\* A thread between the lock and the sleep owns the mutex.
LEMMA HoldsMutex ==
  ASSUME NInv, NEW s \in Sleepers, spc[s] \in {"check", "wait", "back"}
  PROVE  owner = s
BY DEF NInv, LockOK, Unharmed

\* A part of a finite set, and one that is larger.
LEMMA PartOf ==
  ASSUME NEW A, NEW B, IsFiniteSet(B), A \subseteq B
  PROVE  /\ IsFiniteSet(A) /\ Cardinality(A) \in Nat /\ Cardinality(B) \in Nat
         /\ Cardinality(A) <= Cardinality(B)
BY FS_Subset, FS_CardinalityType

\* The two sets that are counted are finite.
LEMMA BothFinite ==
  /\ IsFiniteSet(Lookers) /\ Cardinality(Lookers) \in Nat
  /\ \A s : IsFiniteSet(Coming(s)) /\ Cardinality(Coming(s)) \in Nat
<1>1. Lookers \subseteq Sleepers /\ \A s : Coming(s) \subseteq Wakers
  BY DEF Lookers, Coming
<1> QED
  BY <1>1, PartOf, WaiterAssumption

\* If nobody stops looking or coming and no item is added, enough stay.
LEMMA EnoughStays ==
  ASSUME TypeOK, TypeOK', NEW s \in Sleepers, Enough(s), avail'[Nobody] <= avail[Nobody],
         Lookers \subseteq Lookers', Coming(s) \subseteq Coming(s)',
         \A w \in Coming(s) : all'[w] = all[w]
  PROVE  Enough(s)'
<1>1. CASE AllComes(s)
  BY <1>1 DEF AllComes, Enough
<1>2. CASE avail[Nobody] <= Cardinality(Lookers) + Cardinality(Coming(s))
  <2>1. IsFiniteSet(Lookers') /\ IsFiniteSet(Coming(s)')
    <3>1. Lookers' \subseteq Sleepers /\ Coming(s)' \subseteq Wakers
      BY DEF Lookers, Coming
    <3> QED
      BY <3>1, PartOf, WaiterAssumption
  <2>2. /\ Cardinality(Lookers) <= Cardinality(Lookers')
        /\ Cardinality(Coming(s)) <= Cardinality(Coming(s)')
        /\ Cardinality(Lookers') \in Nat /\ Cardinality(Coming(s)') \in Nat
        /\ Cardinality(Lookers) \in Nat /\ Cardinality(Coming(s)) \in Nat
    BY <2>1, PartOf
  <2>3. avail[Nobody] \in Nat /\ avail'[Nobody] \in Nat
    BY DEF TypeOK
  <2>4. avail'[Nobody] <= Cardinality(Lookers') + Cardinality(Coming(s)')
    BY <1>2, <2>2, <2>3
  <2> QED
    BY <2>4 DEF Enough
<1> QED
  BY <1>1, <1>2 DEF Enough

\* Who looks takes an item: one item and one that looks less.
LEMMA EnoughTaken ==
  ASSUME TypeOK, NEW x \in Sleepers, NEW s \in Sleepers, Enough(s),
         avail[Nobody] > 0 => avail'[Nobody] = avail[Nobody] - 1,
         avail[Nobody] = 0 => avail'[Nobody] = 0,
         Lookers \ {x} \subseteq Lookers', Coming(s)' = Coming(s), all' = all
  PROVE  Enough(s)'
<1>1. CASE AllComes(s)
  BY <1>1 DEF AllComes, Enough
<1>2. CASE avail[Nobody] <= Cardinality(Lookers) + Cardinality(Coming(s))
  <2>1. IsFiniteSet(Lookers')
    <3>1. Lookers' \subseteq Sleepers
      BY DEF Lookers
    <3> QED
      BY <3>1, PartOf, WaiterAssumption
  <2>2. /\ Cardinality(Lookers \ {x}) <= Cardinality(Lookers')
        /\ Cardinality(Lookers \ {x}) \in Nat /\ Cardinality(Lookers') \in Nat
    BY <2>1, PartOf
  <2>3. Cardinality(Lookers) <= Cardinality(Lookers \ {x}) + 1
    <3>1. CASE x \in Lookers
      <4>1. Cardinality(Lookers \ {x}) = Cardinality(Lookers) - 1
        BY <3>1, BothFinite, FS_RemoveElement
      <4> QED
        BY <4>1, <2>2, BothFinite
    <3>2. CASE x \notin Lookers
      <4>1. Lookers \ {x} = Lookers
        BY <3>2
      <4> QED
        BY <4>1, <2>2
    <3> QED
      BY <3>1, <3>2
  <2>4. avail[Nobody] \in Nat /\ Cardinality(Coming(s)) \in Nat /\ Cardinality(Lookers) \in Nat
    BY BothFinite DEF TypeOK
  <2>5. avail'[Nobody] <= Cardinality(Lookers') + Cardinality(Coming(s))
    BY <1>2, <2>2, <2>3, <2>4
  <2> QED
    BY <2>5 DEF Enough
<1> QED
  BY <1>1, <1>2 DEF Enough

\* Who waits on an empty queue needs nobody.
LEMMA EmptyIsEnough ==
  ASSUME NEW s \in Sleepers, avail[Nobody] = 0
  PROVE  Enough(s)
BY BothFinite DEF Enough

\* The same, of the next state.
LEMMA EmptyIsEnoughNext ==
  ASSUME NEW s \in Sleepers, avail'[Nobody] = 0
  PROVE  Enough(s)'
<1>1. Lookers' \subseteq Sleepers /\ Coming(s)' \subseteq Wakers
  BY DEF Lookers, Coming
<1>2. Cardinality(Lookers') \in Nat /\ Cardinality(Coming(s)') \in Nat
  BY <1>1, PartOf, WaiterAssumption
<1> QED
  BY <1>2 DEF Enough

-----------------------------------------------------------------------------
\* A sleeper's step: what it leaves alone.
LEMMA OneSleeper ==
  ASSUME TypeOK, NEW s \in Sleepers, Sleeper(s)
  PROVE  /\ wpc' = wpc /\ cnd' = cnd /\ quit' = quit /\ all' = all /\ dead' = dead
         /\ \A x \in Sleepers \ {s} :
              spc'[x] = spc[x] /\ seen'[x] = seen[x] /\ ok'[x] = ok[x]
<1>1. wpc' = wpc /\ cnd' = cnd /\ quit' = quit /\ all' = all /\ dead' = dead
  BY DEF Sleeper, WaitFor, WaitLock, WaitCheck, CndWait, FutexWait, Timeout,
     Reacquire, WaitBack
<1>2. \A x \in Sleepers \ {s} : spc'[x] = spc[x] /\ seen'[x] = seen[x]
  BY DEF Sleeper, WaitFor, WaitLock, WaitCheck, CndWait, FutexWait, Timeout,
     Reacquire, WaitBack, Goto, Lock, TypeOK
<1>3. \A x \in Sleepers \ {s} : ok'[x] = ok[x]
  BY DEF Sleeper, WaitFor, WaitLock, WaitCheck, CndWait, FutexWait, Timeout,
     Reacquire, WaitBack, TypeOK
<1> QED
  BY <1>1, <1>2, <1>3

\* The others look and wait as before.
LEMMA OthersLook ==
  ASSUME TypeOK, NEW s \in Sleepers, Sleeper(s)
  PROVE  /\ Lookers \ {s} \subseteq Lookers'
         /\ \A x \in Sleepers \ {s} :
              Awaits(x)' = Awaits(x) /\ Coming(x)' = Coming(x)
<1>1. \A x \in Sleepers \ {s} : WillLook(x) => WillLook(x)'
  BY OneSleeper DEF WillLook
<1>2. ASSUME NEW x \in Sleepers \ {s} PROVE Awaits(x)' = Awaits(x)
  BY OneSleeper DEF Awaits, Sleeping
<1>3. ASSUME NEW x \in Sleepers \ {s} PROVE Coming(x)' = Coming(x)
  BY OneSleeper DEF Coming, OnTheWay
<1>4. quit' = quit
  BY OneSleeper
<1> QED
  BY <1>1, <1>2, <1>3, <1>4 DEF Lookers

\* AllComes stays if nobody who comes changes its mind.
LEMMA AllComesStays ==
  ASSUME NEW s \in Sleepers, AllComes(s), Coming(s) \subseteq Coming(s)',
         \A w \in Coming(s) : all'[w] = all[w]
  PROVE  AllComes(s)'
BY DEF AllComes

\* A sleeper that goes on, takes no item and stays a looker if it was one keeps
\* the invariants of every sleeper that waited before with as many on their way.
LEMMA StepKeeps ==
  ASSUME NInv, TypeOK', NEW s \in Sleepers, Sleeper(s), avail'[Nobody] <= avail[Nobody],
         s \in Lookers => s \in Lookers',
         Awaits(s)' => Awaits(s) /\ Coming(s) \subseteq Coming(s)'
  PROVE  QuitOK' /\ CountOK'
<1>1. Lookers \subseteq Lookers'
  BY OthersLook DEF NInv
<1>2. \A x \in Sleepers : Awaits(x)' => Awaits(x) /\ Coming(x) \subseteq Coming(x)'
  BY OthersLook DEF NInv
<1>3. quit' = quit /\ all' = all
  BY OneSleeper DEF NInv
<1>4. ASSUME NEW x \in Sleepers, Awaits(x)' PROVE Enough(x)'
  BY <1>1, <1>2, <1>3, <1>4, EnoughStays DEF NInv, CountOK
<1>5. ASSUME NEW x \in Sleepers, Awaits(x)', quit'[x] PROVE AllComes(x)'
  BY <1>2, <1>3, <1>5, AllComesStays DEF NInv, QuitOK
<1> QED
  BY <1>4, <1>5 DEF QuitOK, CountOK

\* A sleeper's step keeps both.
LEMMA NotifySleeper ==
  ASSUME NotifyOnly, NInv, TypeOK', NEW s \in Sleepers, Sleeper(s)
  PROVE  QuitOK' /\ CountOK'
<1>g. ASSUME NEW pc, Goto(s, pc) PROVE spc'[s] = pc
  BY <1>g DEF Goto, NInv, TypeOK
<1>t. /\ s \in Lookers => s \notin Timed /\ WillLook(s) /\ ~quit[s]
      /\ s \notin Timed /\ WillLook(s)' /\ ~quit[s] => s \in Lookers'
  BY OneSleeper DEF Lookers, NInv
<1>i. Item(s) = Nobody /\ avail[Nobody] \in Nat
  BY DEF NotifyOnly, Item, NInv, TypeOK
<1>a. ASSUME Take(s) PROVE avail[Nobody] > 0 /\ avail'[Nobody] = avail[Nobody] - 1
  BY <1>a, <1>i DEF Take, NInv, TypeOK
<1>o. ~died /\ ~broken /\ (s \notin Timed =>
        (spc[s] \in {"futex", "asleep", "requeued", "relock", "back"} => ok[s]))
  BY DEF NInv, Unharmed, ResultOK
<1>1. CASE WaitFor(s)
  <2>1. avail'[Nobody] <= avail[Nobody]
    BY <1>1, <1>a, <1>i DEF WaitFor
  <2>2. spc[s] = "out" /\ spc'[s] \in {"out", "lock"}
    BY <1>1, <1>g DEF WaitFor
  <2>3. ~WillLook(s) /\ ~Awaits(s)'
    BY <2>2 DEF WillLook, Awaits, Sleeping
  <2> QED
    BY <1>t, <2>1, <2>3, StepKeeps
<1>2. CASE WaitLock(s)
  <2>1. avail'[Nobody] <= avail[Nobody]
    BY <1>2, <1>i DEF WaitLock
  <2>2. spc'[s] \in {"lock", "check"}
    BY <1>2, <1>g DEF WaitLock, Lock
  <2>3. WillLook(s)' /\ ~Awaits(s)'
    BY <2>2 DEF WillLook, Awaits, Sleeping
  <2> QED
    BY <1>t, <2>1, <2>3, StepKeeps
<1>3. CASE WaitCheck(s)
  <2>1. CASE quit[s] /\ UNCHANGED avail /\ Goto(s, "out")
    <3>1. avail'[Nobody] <= avail[Nobody]
      BY <2>1, <1>i
    <3>2. ~Awaits(s)'
      BY <2>1, <1>g DEF Awaits, Sleeping
    <3> QED
      BY <1>t, <2>1, <3>1, <3>2, StepKeeps
  <2>2. CASE Take(s) /\ Goto(s, "out")
    <3>1. ~Awaits(s)' /\ quit' = quit /\ all' = all
      BY <2>2, <1>g, OneSleeper DEF Awaits, Sleeping, NInv
    <3>2. ASSUME NEW x \in Sleepers, Awaits(x)' PROVE Enough(x)'
      <4>1. x # s /\ Enough(x) /\ Coming(x)' = Coming(x)
        BY <3>1, <3>2, OthersLook DEF NInv, CountOK
      <4>2. Lookers \ {s} \subseteq Lookers'
        BY OthersLook DEF NInv
      <4> QED
        BY <1>a, <2>2, <3>1, <4>1, <4>2, EnoughTaken DEF NInv
    <3>3. ASSUME NEW x \in Sleepers, Awaits(x)', quit'[x] PROVE AllComes(x)'
      <4>1. x # s /\ Awaits(x) /\ Coming(x)' = Coming(x)
        BY <3>1, <3>3, OthersLook DEF NInv
      <4> QED
        BY <3>1, <3>3, <4>1, AllComesStays DEF NInv, QuitOK
    <3> QED
      BY <3>2, <3>3 DEF QuitOK, CountOK
  <2>3. CASE ~quit[s] /\ avail[Item(s)] = 0 /\ UNCHANGED avail
    <3>1. avail'[Nobody] = 0
      BY <2>3, <1>i
    <3>2. \A x \in Sleepers : Enough(x)'
      BY <3>1, EmptyIsEnoughNext
    <3>3. ASSUME NEW x \in Sleepers, Awaits(x)', quit'[x] PROVE AllComes(x)'
      <4>1. x # s /\ Awaits(x) /\ Coming(x)' = Coming(x) /\ all' = all /\ quit' = quit
        BY <2>3, <3>3, OneSleeper, OthersLook DEF NInv
      <4> QED
        BY <3>3, <4>1, AllComesStays DEF NInv, QuitOK
    <3> QED
      BY <3>2, <3>3 DEF QuitOK, CountOK
  <2> QED
    BY <1>3, <2>1, <2>2, <2>3 DEF WaitCheck
<1>4. CASE CndWait(s)
  <2>1. avail'[Nobody] <= avail[Nobody]
    BY <1>4, <1>i DEF CndWait
  <2>2. spc[s] = "wait" /\ spc'[s] = "futex"
    BY <1>4, <1>g, HoldsMutex DEF CndWait
  <2>3. ~WillLook(s) /\ Awaits(s)
    BY <2>2 DEF WillLook, Awaits
  <2>4. Coming(s) \subseteq Coming(s)'
    BY <2>2, OneSleeper DEF Coming, OnTheWay, NInv
  <2> QED
    BY <1>t, <2>1, <2>3, <2>4, StepKeeps
<1>5. CASE FutexWait(s)
  <2>1. avail'[Nobody] <= avail[Nobody] /\ ok' = ok
    BY <1>5, <1>i DEF FutexWait
  <2>2. CASE cnd = seen[s]
    <3>1. spc[s] = "futex" /\ spc'[s] = "asleep"
      BY <1>5, <1>g, <2>2 DEF FutexWait
    <3>2. ~WillLook(s) /\ Awaits(s)
      BY <2>2, <3>1 DEF WillLook, Awaits, Sleeping
    <3>3. Coming(s) \subseteq Coming(s)'
      BY <3>1, OneSleeper DEF Coming, OnTheWay, NInv
    <3> QED
      BY <1>t, <2>1, <3>2, <3>3, StepKeeps
  <2>3. CASE cnd # seen[s]
    <3>1. spc[s] = "futex" /\ spc'[s] = "relock"
      BY <1>5, <1>g, <2>3 DEF FutexWait
    <3>2. (s \notin Timed => WillLook(s)') /\ ~Awaits(s)'
      BY <1>o, <2>1, <3>1 DEF WillLook, Awaits, Sleeping
    <3> QED
      BY <1>t, <2>1, <3>2, StepKeeps
  <2> QED
    BY <2>2, <2>3
<1>6. CASE Timeout(s)
  <2>1. avail'[Nobody] <= avail[Nobody] /\ s \in Timed
    BY <1>6, <1>i DEF Timeout
  <2>2. ~Awaits(s)'
    BY <1>6, <1>g DEF Timeout, Awaits, Sleeping
  <2> QED
    BY <1>t, <2>1, <2>2, StepKeeps
<1>7. CASE Reacquire(s)
  <2>1. avail'[Nobody] <= avail[Nobody] /\ spc[s] \in {"requeued", "relock"}
    BY <1>7, <1>i DEF Reacquire
  <2>2. spc'[s] = "back" /\ (ok[s] => ok'[s])
    BY <1>7, <1>g, <1>o DEF Reacquire, NInv, TypeOK
  <2>3. (s \notin Timed => WillLook(s)') /\ ~Awaits(s)'
    BY <1>o, <2>1, <2>2 DEF WillLook, Awaits, Sleeping
  <2> QED
    BY <1>t, <2>1, <2>3, StepKeeps
<1>8. CASE WaitBack(s)
  <2>1. avail'[Nobody] <= avail[Nobody] /\ spc[s] = "back"
    BY <1>8, <1>i DEF WaitBack
  <2>2. spc'[s] \in {"check", "out"} /\ (ok[s] => spc'[s] = "check")
    BY <1>8, <1>g DEF WaitBack
  <2>3. (s \notin Timed => WillLook(s)') /\ ~Awaits(s)'
    BY <1>o, <2>1, <2>2 DEF WillLook, Awaits, Sleeping
  <2> QED
    BY <1>t, <2>1, <2>3, StepKeeps
<1> QED
  BY <1>1, <1>2, <1>3, <1>4, <1>5, <1>6, <1>7, <1>8 DEF Sleeper

\* A waker's step: what it leaves alone.
LEMMA OneWaker ==
  ASSUME TypeOK, NEW w \in Wakers, Waker(w)
  PROVE  /\ seen' = seen /\ ok' = ok /\ dead' = dead
         /\ \A v \in Wakers \ {w} : wpc'[v] = wpc[v] /\ all'[v] = all[v]
<1>1. seen' = seen /\ ok' = ok /\ dead' = dead
  BY DEF Waker, Post, WakeLock, WakeCheck, WakeBump, WakeRequeue, QuitWaiting
<1>2. \A v \in Wakers \ {w} : wpc'[v] = wpc[v]
  BY DEF Waker, Post, WakeLock, WakeCheck, WakeBump, WakeRequeue, QuitWaiting,
     WGoto, Lock, TypeOK
<1>3. \A v \in Wakers \ {w} : all'[v] = all[v]
  BY DEF Waker, Post, WakeLock, WakeCheck, WakeBump, WakeRequeue, QuitWaiting, TypeOK
<1> QED
  BY <1>1, <1>2, <1>3

\* A waker that adds no item and tells nobody to quit, and stays on its way to those
\* that wait, keeps both invariants.
LEMMA WakerKeeps ==
  ASSUME NInv, TypeOK', avail' = avail, quit' = quit, all' = all,
         Lookers \subseteq Lookers',
         \A x \in Sleepers :
           Awaits(x)' => Awaits(x) /\ Coming(x) \subseteq Coming(x)'
  PROVE  QuitOK' /\ CountOK'
<1>0. avail'[Nobody] <= avail[Nobody]
  BY DEF NInv, TypeOK
<1>1. ASSUME NEW x \in Sleepers, Awaits(x)' PROVE Enough(x)'
  BY <1>0, <1>1, EnoughStays DEF NInv, CountOK
<1>2. ASSUME NEW x \in Sleepers, Awaits(x)', quit'[x] PROVE AllComes(x)'
  BY <1>2, AllComesStays DEF NInv, QuitOK
<1> QED
  BY <1>1, <1>2 DEF QuitOK, CountOK

\* An item comes with a waker.
LEMMA NotifyPost ==
  ASSUME NotifyOnly, NInv, TypeOK', NEW w \in Wakers, Post(w)
  PROVE  QuitOK' /\ CountOK'
<1>1. /\ spc' = spc /\ seen' = seen /\ cnd' = cnd /\ ok' = ok /\ quit' = quit
      /\ wpc[w] = "idle" /\ wpc'[w] = "lock"
      /\ \A v \in Wakers \ {w} : wpc'[v] = wpc[v] /\ all'[v] = all[v]
  BY OneWaker DEF Post, WGoto, NInv, TypeOK, Waker
<1>2. avail'[Nobody] = avail[Nobody] + 1 /\ avail[Nobody] \in Nat
  BY DEF Post, NotifyOnly, NInv, TypeOK
<1>3. ASSUME NEW x \in Sleepers
      PROVE  w \notin Coming(x) /\ Coming(x)' = Coming(x) \cup {w}
  BY <1>1 DEF Coming, OnTheWay
<1>4. Lookers' = Lookers /\ \A x \in Sleepers : Awaits(x)' = Awaits(x)
  BY <1>1 DEF Lookers, WillLook, Awaits, Sleeping
<1>5. ASSUME NEW x \in Sleepers, AllComes(x) PROVE AllComes(x)'
  <2>1. \A v \in Coming(x) : v \in Wakers \ {w}
    BY <1>3 DEF Coming
  <2> QED
    BY <1>1, <1>3, <1>5, <2>1, AllComesStays
<1>6. ASSUME NEW x \in Sleepers, Awaits(x)' PROVE Enough(x)'
  <2>1. Enough(x)
    BY <1>4, <1>6 DEF NInv, CountOK
  <2>2. CASE AllComes(x)
    BY <1>5, <2>2 DEF Enough
  <2>3. CASE avail[Nobody] <= Cardinality(Lookers) + Cardinality(Coming(x))
    <3>1. Cardinality(Coming(x)') = Cardinality(Coming(x)) + 1
      BY <1>3, BothFinite, FS_AddElement
    <3>2. Cardinality(Lookers) \in Nat /\ Cardinality(Coming(x)) \in Nat
      BY BothFinite
    <3>3. avail'[Nobody] <= Cardinality(Lookers') + Cardinality(Coming(x)')
      BY <1>2, <1>4, <2>3, <3>1, <3>2
    <3> QED
      BY <3>3 DEF Enough
  <2> QED
    BY <2>1, <2>2, <2>3 DEF Enough
<1>7. ASSUME NEW x \in Sleepers, Awaits(x)', quit'[x] PROVE AllComes(x)'
  BY <1>1, <1>4, <1>5, <1>7 DEF NInv, QuitOK
<1> QED
  BY <1>6, <1>7 DEF QuitOK, CountOK

\* quit_waiting() wakes all.
LEMMA NotifyQuit ==
  ASSUME NInv, NEW w \in Wakers, NEW y \in Sleepers, QuitWaiting(w, y)
  PROVE  QuitOK' /\ CountOK'
<1>1. wpc'[w] = "lock" /\ all'[w]
  BY DEF QuitWaiting, WGoto, NInv, TypeOK
<1>2. ASSUME NEW x \in Sleepers PROVE AllComes(x)'
  BY <1>1 DEF AllComes, Coming, OnTheWay
<1> QED
  BY <1>2 DEF QuitOK, CountOK, Enough

\* A requeue leaves somebody asleep only if it moved somebody that will look, or
\* somebody that was told to quit and whose waker is still on its way.
LEMMA NotifyRequeue ==
  ASSUME NotifyOnly, NInv, TypeOK', NEW w \in Wakers, WakeRequeue(w)
  PROVE  QuitOK' /\ CountOK'
<1> DEFINE A == {s \in Sleepers \ dead : spc[s] = "asleep"}
<1>1. /\ cnd' = cnd /\ seen' = seen /\ ok' = ok /\ quit' = quit /\ all' = all /\ avail' = avail
      /\ wpc[w] = "requeue" /\ wpc'[w] = "idle" /\ \A v \in Wakers \ {w} : wpc'[v] = wpc[v]
  BY OneWaker DEF WakeRequeue, WGoto, NInv, TypeOK, Waker
<1>2. PICK M \in Moved(w) :
        spc' = [s \in Sleepers |-> IF s \in M THEN "requeued" ELSE spc[s]]
  BY DEF WakeRequeue, NInv, Unharmed
<1>3. /\ M \subseteq A /\ A = {s \in Sleepers : spc[s] = "asleep"}
      /\ M = A \/ (~all[w] /\ Cardinality(M) = 2)
  BY DEF Moved, NInv, Unharmed
<1>4. /\ \A x \in M : spc[x] = "asleep" /\ spc'[x] = "requeued" /\ ~Awaits(x)'
      /\ \A x \in Sleepers \ M : spc'[x] = spc[x] /\ Awaits(x)' = Awaits(x)
  <2>1. \A x \in M : x \in Sleepers /\ spc[x] = "asleep" /\ spc'[x] = "requeued"
    BY <1>2, <1>3
  <2>2. \A x \in Sleepers \ M : spc'[x] = spc[x]
    BY <1>2
  <2> QED
    BY <1>1, <2>1, <2>2 DEF Awaits, Sleeping
<1>5. Lookers \subseteq Lookers'
  <2>1. ASSUME NEW x \in Lookers PROVE x \in Lookers'
    <3>1. spc[x] # "asleep"
      BY DEF Lookers, WillLook
    <3>2. x \in Sleepers \ M
      BY <1>3, <3>1 DEF Lookers
    <3> QED
      BY <1>1, <1>4, <3>2 DEF Lookers, WillLook
  <2> QED
    BY <2>1
<1>6. ASSUME NEW x \in Sleepers, Awaits(x)', spc[x] # "asleep"
      PROVE  Enough(x)' /\ (quit'[x] => AllComes(x)')
  <2>1. x \notin M /\ Awaits(x) /\ spc'[x] = spc[x]
    BY <1>3, <1>4, <1>6
  <2>2. Coming(x) \subseteq Coming(x)'
    BY <1>1, <1>6, <2>1 DEF Coming, OnTheWay
  <2>3. Enough(x) /\ (quit[x] => AllComes(x)) /\ avail'[Nobody] <= avail[Nobody]
    BY <1>1, <2>1 DEF NInv, CountOK, QuitOK, TypeOK
  <2> QED
    BY <1>1, <1>5, <2>2, <2>3, EnoughStays, AllComesStays DEF NInv
<1>7. ASSUME NEW x \in Sleepers, Awaits(x)', spc[x] = "asleep"
      PROVE  Enough(x)' /\ (quit'[x] => AllComes(x)')
  <2>1. x \notin M /\ x \in A /\ Awaits(x) /\ spc'[x] = "asleep"
    BY <1>3, <1>4, <1>7
  <2>2. ~all[w] /\ Cardinality(M) = 2
    BY <1>3, <2>1
  <2>3. w \in Coming(x) /\ Coming(x)' = Coming(x) \ {w}
    BY <1>1, <1>7, <2>1 DEF Coming, OnTheWay
  <2>4. AllComes(x) => AllComes(x)'
    BY <1>1, <2>2, <2>3 DEF AllComes
  <2>5. Enough(x) /\ (quit[x] => AllComes(x))
    BY <2>1 DEF NInv, CountOK, QuitOK
  <2>6. PICK m \in M : m \notin Timed
    <3>1. PICK a \in M, b \in M : a # b
      <4>1. IsFiniteSet(M)
        BY <1>3, WaiterAssumption, PartOf
      <4>2. PICK a : a \in M
        BY <2>2, FS_EmptySet
      <4>3. Cardinality(M \ {a}) = Cardinality(M) - 1
        BY <4>1, <4>2, FS_RemoveElement
      <4>4. PICK b : b \in M \ {a}
        BY <2>2, <4>3, FS_EmptySet
      <4> QED
        BY <4>2, <4>4
    <3> QED
      BY <3>1 DEF NotifyOnly
  <2>7. m \in Sleepers /\ spc[m] = "asleep" /\ spc'[m] = "requeued" /\ ok[m] /\ ok'[m]
    BY <1>1, <1>3, <1>4, <2>6 DEF NInv, ResultOK
  <2>8. CASE quit[m]
    <3>1. Awaits(m) /\ Coming(m) = Coming(x)
      BY <1>7, <2>7 DEF Awaits, Sleeping, Coming, OnTheWay
    <3>2. AllComes(x)
      BY <2>7, <2>8, <3>1 DEF NInv, QuitOK, AllComes
    <3> QED
      BY <2>4, <3>2 DEF Enough
  <2>9. CASE ~quit[m] /\ ~AllComes(x)
    <3>1. m \in Lookers' /\ m \notin Lookers
      BY <1>1, <2>6, <2>7, <2>9 DEF Lookers, WillLook
    <3>2. IsFiniteSet(Lookers')
      <4>1. Lookers' \subseteq Sleepers
        BY DEF Lookers
      <4> QED
        BY <4>1, PartOf, WaiterAssumption
    <3>3. Cardinality(Lookers \cup {m}) = Cardinality(Lookers) + 1
      BY <3>1, BothFinite, FS_AddElement
    <3>4. Cardinality(Lookers \cup {m}) <= Cardinality(Lookers') /\ Cardinality(Lookers') \in Nat
      BY <1>5, <3>1, <3>2, PartOf
    <3>5. Cardinality(Coming(x)') = Cardinality(Coming(x)) - 1
      BY <2>3, BothFinite, FS_RemoveElement
    <3>6. avail[Nobody] <= Cardinality(Lookers) + Cardinality(Coming(x))
      BY <2>5, <2>9 DEF Enough
    <3>7. avail'[Nobody] <= Cardinality(Lookers') + Cardinality(Coming(x)')
      <4>1. /\ Cardinality(Lookers) \in Nat /\ Cardinality(Coming(x)) \in Nat
            /\ avail[Nobody] \in Nat /\ avail'[Nobody] = avail[Nobody]
        BY <1>1, BothFinite DEF NInv, TypeOK
      <4> QED
        BY <3>3, <3>4, <3>5, <3>6, <4>1
    <3> QED
      BY <1>1, <2>5, <2>9, <3>7 DEF Enough
  <2>a. CASE AllComes(x)
    BY <2>4, <2>a DEF Enough
  <2> QED
    BY <2>8, <2>9, <2>a
<1> QED
  BY <1>6, <1>7 DEF QuitOK, CountOK

\* A waker's step keeps both.
LEMMA NotifyWaker ==
  ASSUME NotifyOnly, NInv, TypeOK', NEW w \in Wakers, Waker(w)
  PROVE  QuitOK' /\ CountOK'
<1>g. ASSUME NEW pc, WGoto(w, pc)
      PROVE  wpc'[w] = pc /\ \A v \in Wakers \ {w} : wpc'[v] = wpc[v]
  BY <1>g DEF WGoto, NInv, TypeOK
<1>s. ASSUME spc' = spc, cnd' = cnd, quit' = quit
      PROVE  /\ Lookers \subseteq Lookers'
             /\ \A x \in Sleepers : Awaits(x)' = Awaits(x)
  BY <1>s, OneWaker DEF Lookers, WillLook, Awaits, Sleeping, NInv
<1>1. CASE Post(w)
  BY <1>1, NotifyPost
<1>2. CASE \E y \in Sleepers : QuitWaiting(w, y)
  BY <1>2, NotifyQuit
<1>3. CASE WakeLock(w)
  <2>1. avail' = avail /\ quit' = quit /\ all' = all /\ spc' = spc /\ cnd' = cnd
    BY <1>3 DEF WakeLock
  <2>2. wpc' = wpc \/ (owner = Nobody /\ wpc[w] = "lock" /\ wpc'[w] = "barrier" /\
                       \A v \in Wakers \ {w} : wpc'[v] = wpc[v])
    BY <1>3, <1>g DEF WakeLock, Lock, NInv, Unharmed
  <2>3. ASSUME NEW x \in Sleepers, Awaits(x)' PROVE Coming(x) \subseteq Coming(x)'
    <3>1. CASE wpc' = wpc
      BY <2>1, <3>1 DEF Coming, OnTheWay
    <3>2. CASE owner = Nobody
      <4>1. spc[x] # "wait"
        BY <3>2, HoldsMutex, WaiterAssumption DEF Threads
      <4> QED
        BY <2>1, <2>2, <4>1 DEF Coming, OnTheWay
    <3> QED
      BY <2>2, <3>1, <3>2
  <2> QED
    BY <1>s, <2>1, <2>3, WakerKeeps
<1>4. CASE WakeCheck(w)
  <2>1. avail' = avail /\ quit' = quit /\ all' = all /\ spc' = spc /\ cnd' = cnd
    BY <1>4 DEF WakeCheck
  <2>2. wpc[w] = "barrier" /\ \A v \in Wakers \ {w} : wpc'[v] = wpc[v]
    BY <1>4, <1>g DEF WakeCheck
  <2>3. ASSUME NEW x \in Sleepers, Awaits(x)' PROVE Coming(x) \subseteq Coming(x)'
    <3>1. x \in Counted
      BY <1>s, <2>1, <2>3 DEF Awaits, Sleeping, Counted
    <3>2. waiters # 0
      BY <3>1, CountedFinite DEF NInv, WaitersExact
    <3>3. wpc'[w] = "bump"
      BY <1>4, <1>g, <3>2 DEF WakeCheck
    <3> QED
      BY <2>1, <2>2, <3>3 DEF Coming, OnTheWay
  <2> QED
    BY <1>s, <2>1, <2>3, WakerKeeps
<1>5. CASE WakeBump(w)
  <2>1. /\ avail' = avail /\ quit' = quit /\ all' = all /\ spc' = spc /\ cnd' = cnd + 1
        /\ seen' = seen /\ ok' = ok
    BY <1>5 DEF WakeBump
  <2>2. wpc[w] = "bump" /\ wpc'[w] = "requeue" /\ \A v \in Wakers \ {w} : wpc'[v] = wpc[v]
    BY <1>5, <1>g DEF WakeBump
  <2>3. \A x \in Sleepers : seen[x] \in Nat /\ seen[x] <= cnd /\ cnd \in Nat
    BY DEF NInv, SeenOK, TypeOK
  <2>4. \A x \in Sleepers : seen[x] # cnd'
    BY <2>1, <2>3
  <2>5. Lookers \subseteq Lookers'
    BY <2>1, <2>4 DEF Lookers, WillLook
  <2>6. ASSUME NEW x \in Sleepers, Awaits(x)'
        PROVE  Awaits(x) /\ Coming(x) \subseteq Coming(x)'
    <3>1. spc[x] \in {"wait", "asleep"}
      BY <2>1, <2>4, <2>6 DEF Awaits, Sleeping
    <3> QED
      BY <2>1, <2>2, <3>1 DEF Awaits, Sleeping, Coming, OnTheWay
  <2> QED
    BY <2>1, <2>5, <2>6, WakerKeeps
<1>6. CASE WakeRequeue(w)
  BY <1>6, NotifyRequeue
<1> QED
  BY <1>1, <1>2, <1>3, <1>4, <1>5, <1>6 DEF Waker

\* Nobody dies, and so the mutex stays usable and cond_.wait without a timeout succeeds.
LEMMA UnharmedNext ==
  ASSUME NotifyOnly, NInv, [Next]_vars
  PROVE  Unharmed' /\ ResultOK'
<1>0. Unharmed /\ ResultOK /\ MaxCrash = 0
  BY DEF NInv, NotifyOnly
<1>1. ASSUME NEW s \in Sleepers, Sleeper(s) PROVE Unharmed' /\ ResultOK'
  <2>g. ASSUME NEW pc, Goto(s, pc) PROVE spc'[s] = pc
    BY <2>g DEF Goto, NInv, TypeOK
  <2>1. Unharmed'
    BY <1>0, <1>1 DEF Unharmed, Sleeper, WaitFor, WaitLock, WaitCheck, CndWait, FutexWait,
       Timeout, Reacquire, WaitBack, Lock, Unlock, Repair, lockVars
  <2>2. s \notin Timed =>
          (spc'[s] \in {"futex", "asleep", "requeued", "relock", "back"} => ok'[s])
    <3>1. CASE WaitFor(s) \/ WaitLock(s) \/ WaitCheck(s) \/ WaitBack(s)
      <4>1. spc'[s] \in {"out", "lock", "check", "wait"}
        BY <2>g, <3>1 DEF WaitFor, WaitLock, WaitCheck, WaitBack, Lock
      <4> QED
        BY <4>1
    <3>2. CASE CndWait(s)
      <4>1. owner = s /\ ok' = [ok EXCEPT ![s] = owner = s]
        BY <3>2, HoldsMutex DEF CndWait
      <4> QED
        BY <4>1 DEF NInv, TypeOK
    <3>3. CASE FutexWait(s) \/ Timeout(s)
      BY <1>0, <3>3 DEF ResultOK, FutexWait, Timeout
    <3>4. CASE Reacquire(s)
      <4>1. ok[s] => ok'[s]
        BY <1>0, <3>4 DEF Reacquire, Unharmed, NInv, TypeOK
      <4>2. s \notin Timed => ok[s]
        BY <1>0, <3>4 DEF Reacquire, ResultOK
      <4> QED
        BY <4>1, <4>2
    <3> QED
      BY <1>1, <3>1, <3>2, <3>3, <3>4 DEF Sleeper
  <2> QED
    BY <1>0, <1>1, <2>1, <2>2, OneSleeper DEF ResultOK, NInv
<1>2. ASSUME NEW w \in Wakers, Waker(w) PROVE Unharmed' /\ ResultOK'
  <2>1. Unharmed'
    BY <1>0, <1>2 DEF Unharmed, Waker, Post, WakeLock, WakeCheck, WakeBump, WakeRequeue,
       QuitWaiting, Lock, Unlock, Repair, lockVars
  <2>2. \A s \in Sleepers :
          spc'[s] = spc[s] \/ (spc[s] = "asleep" /\ spc'[s] = "requeued")
    BY <1>2, RequeueMoves DEF Waker, Post, WakeLock, WakeCheck, WakeBump, QuitWaiting, NInv
  <2>3. ok' = ok
    BY <1>2, OneWaker DEF NInv
  <2> QED
    BY <1>0, <2>1, <2>2, <2>3 DEF ResultOK
<1>3. ASSUME NEW t \in Threads \ dead, Crash(t) PROVE FALSE
  BY <1>0, <1>3, FS_EmptySet DEF Crash, Unharmed
<1>4. CASE UNCHANGED vars
  BY <1>0, <1>4 DEF vars, lockVars, Unharmed, ResultOK
<1> QED
  BY <1>1, <1>2, <1>3, <1>4 DEF Next

\* Every step keeps the invariant.
LEMMA NotifyNext ==
  ASSUME NotifyOnly, NInv, [Next]_vars
  PROVE  NInv'
<1>1. TypeOK' /\ WaitersExact' /\ LockOK' /\ SeenOK'
  BY TypeNext, ExactNext, LockNext, SeenNext DEF NInv
<1>2. Unharmed' /\ ResultOK'
  BY UnharmedNext
<1>3. QuitOK' /\ CountOK'
  <2>1. ASSUME NEW t \in Threads \ dead, Crash(t) PROVE FALSE
    BY <2>1, FS_EmptySet DEF Crash, Unharmed, NInv, NotifyOnly
  <2>2. CASE UNCHANGED vars
    <3>1. /\ spc' = spc /\ wpc' = wpc /\ avail' = avail /\ quit' = quit /\ cnd' = cnd
          /\ seen' = seen /\ ok' = ok /\ all' = all
      BY <2>2 DEF vars
    <3>2. Lookers' = Lookers
      BY <3>1 DEF Lookers, WillLook
    <3>3. \A x \in Sleepers : Awaits(x)' = Awaits(x) /\ Coming(x)' = Coming(x)
      BY <3>1 DEF Awaits, Sleeping, Coming, OnTheWay
    <3> QED
      BY <1>1, <3>1, <3>2, <3>3, WakerKeeps
  <2> QED
    BY <1>1, <2>1, <2>2, NotifySleeper, NotifyWaker DEF Next
<1> QED
  BY <1>1, <1>2, <1>3 DEF NInv

\* On a unicast queue notify() is enough: an item does not lie there while receivers
\* sleep and nobody is going to look or to wake somebody, for any number of receivers and
\* senders, and whoever is told to quit. It moves two sleepers: one of them may have run
\* out of time, so no more than one thread has a timeout.
THEOREM NotifyIsEnough ==
  ASSUME NotifyOnly
  PROVE  Spec => []NotifyReachesSomebody
<1>1. Init => NInv
  <2> SUFFICES ASSUME Init PROVE NInv
    OBVIOUS
  <2>1. TypeOK /\ WaitersExact
    BY InitTypes
  <2>2. LockOK /\ SeenOK /\ Unharmed /\ ResultOK
    BY DEF Init, LockOK, SeenOK, Unharmed, ResultOK
  <2>3. \A s \in Sleepers : ~Awaits(s)
    BY DEF Init, Awaits, Sleeping
  <2> QED
    BY <2>1, <2>2, <2>3 DEF NInv, QuitOK, CountOK
<1>2. NInv /\ [Next]_vars => NInv'
  BY NotifyNext
<1>3. NInv => NotifyReachesSomebody
  <2> SUFFICES ASSUME NInv, avail[Nobody] > 0, NEW s \in Sleepers, Sleeping(s)
               PROVE  \/ \E x \in Sleepers : WillLook(x)
                      \/ \E w \in Wakers, x \in Sleepers : OnTheWay(w, x)
    BY DEF NotifyReachesSomebody
  <2>1. Enough(s) /\ spc[s] # "wait"
    BY DEF NInv, CountOK, Awaits, Sleeping
  <2>2. CASE Lookers = {} /\ Coming(s) = {}
    <3>1. Cardinality(Lookers) = 0 /\ Cardinality(Coming(s)) = 0 /\ ~AllComes(s)
      BY <2>2, FS_EmptySet DEF AllComes
    <3> QED
      BY <2>1, <3>1 DEF Enough, NInv, TypeOK
  <2> QED
    BY <2>1, <2>2 DEF Lookers, Coming
<1> QED
  BY <1>1, <1>2, <1>3, PTL DEF Spec
=============================================================================

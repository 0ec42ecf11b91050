--------------------------- MODULE CircularQueue ---------------------------
(***************************************************************************)
(* CircularQueue<T> (include/dzIPC/common/circularqueue.h): a bounded      *)
(* queue of cells, each with a sequence number that says whose turn it is. *)
(* Any thread may push or pop; a push on a full queue takes the oldest     *)
(* element out and tries again.                                            *)
(*                                                                         *)
(* Every atomic load, store and compare-and-swap is a step.  A failing     *)
(* weak compare-and-swap is the same step whether the position moved or    *)
(* not.  Waiting: the predicate is read under wait_mtx_, but push notifies *)
(* without it, so a notification may fall between the predicate and the    *)
(* wait.                                                                   *)
(***************************************************************************)
EXTENDS Integers, FiniteSets

CONSTANTS
  Producers,   \* threads that push
  Consumers,   \* threads that pop
  Capacity,    \* capacity_; a request for 0 gives 1
  NPush,       \* bound: messages each producer pushes
  Timed        \* TRUE: pop has a deadline

Users == Producers \cup Consumers
Cells   == 0..(Capacity - 1)
NMsgs   == NPush * Cardinality(Producers)
Msgs    == Producers \X (1..NPush)
Nothing == <<>>

VARIABLES
  enqueuePos, dequeuePos,
  sequence,     \* of each cell
  data,         \* of each cell
  pc,           \* where each thread is
  pos,          \* its local pos
  out,          \* what it holds: the message it pushes, or the one it took
  npush,        \* messages it began to push
  log,          \* history: the message stored for each position
  taken         \* history: the messages consumers returned

queue == <<enqueuePos, dequeuePos, sequence, data>>
vars  == <<queue, pc, pos, out, npush, log, taken>>

Cell(p) == p % Capacity
PC == {"idle", "seqE", "casE", "store", "pub", "notify", "seqD", "casD", "take", "free",
       "test", "sleep", "asleep", "late"}

Init ==
  /\ enqueuePos = 0 /\ dequeuePos = 0
  /\ sequence = [c \in Cells |-> c]
  /\ data = [c \in Cells |-> Nothing]
  /\ pc = [t \in Users |-> "idle"]
  /\ pos = [t \in Users |-> 0]
  /\ out = [t \in Users |-> Nothing]
  /\ npush = [t \in Producers |-> 0]
  /\ log = [p \in {} |-> Nothing]
  /\ taken = {}

Go(t, l) == pc' = [pc EXCEPT ![t] = l]
SetPos(t, p) == pos' = [pos EXCEPT ![t] = p]
-----------------------------------------------------------------------------
(* push: the position is read. *)
PushBegin(t) ==
  /\ pc[t] = "idle" /\ npush[t] < NPush
  /\ npush' = [npush EXCEPT ![t] = @ + 1]
  /\ out' = [out EXCEPT ![t] = <<t, npush[t] + 1>>]
  /\ SetPos(t, enqueuePos)
  /\ Go(t, "seqE")
  /\ UNCHANGED <<queue, log, taken>>

(* try_enqueue: the cell is free, the queue is full, or somebody was       *)
(* faster.  On a full queue push_owned goes on to try_dequeue. *)
ReadSeqEnqueue(t) ==
  LET diff == sequence[Cell(pos[t])] - pos[t] IN
  /\ pc[t] = "seqE"
  /\ \/ diff = 0 /\ Go(t, "casE") /\ UNCHANGED pos
     \/ diff < 0 /\ Go(t, "seqD") /\ SetPos(t, dequeuePos)
     \/ diff > 0 /\ SetPos(t, enqueuePos) /\ UNCHANGED pc
  /\ UNCHANGED <<queue, out, npush, log, taken>>

CasEnqueue(t) ==
  /\ pc[t] = "casE"
  /\ IF enqueuePos = pos[t]
       THEN /\ enqueuePos' = pos[t] + 1 /\ Go(t, "store") /\ UNCHANGED pos
            /\ log' = [p \in DOMAIN log \cup {pos[t]} |->
                         IF p = pos[t] THEN out[t] ELSE log[p]]
       ELSE Go(t, "seqE") /\ SetPos(t, enqueuePos) /\ UNCHANGED <<enqueuePos, log>>
  /\ UNCHANGED <<dequeuePos, sequence, data, out, npush, taken>>

Store(t) ==
  /\ pc[t] = "store"
  /\ data' = [data EXCEPT ![Cell(pos[t])] = out[t]]
  /\ Go(t, "pub")
  /\ UNCHANGED <<enqueuePos, dequeuePos, sequence, pos, out, npush, log, taken>>

Publish(t) ==
  /\ pc[t] = "pub"
  /\ sequence' = [sequence EXCEPT ![Cell(pos[t])] = pos[t] + 1]
  /\ Go(t, "notify")
  /\ UNCHANGED <<enqueuePos, dequeuePos, data, pos, out, npush, log, taken>>

(* cv_.notify_one: one sleeper reads the predicate again, if there is any. *)
Notify(t) ==
  /\ pc[t] = "notify"
  /\ \/ \E c \in Consumers :
          pc[c] = "asleep" /\ pc' = [pc EXCEPT ![t] = "idle", ![c] = "test"]
     \/ /\ \A c \in Consumers : pc[c] # "asleep"
        /\ Go(t, "idle")
  /\ out' = [out EXCEPT ![t] = Nothing]
  /\ SetPos(t, 0)
  /\ UNCHANGED <<queue, npush, log, taken>>
-----------------------------------------------------------------------------
(* pop: the position is read. *)
PopBegin(t) ==
  /\ pc[t] = "idle" /\ Cardinality(taken) < NMsgs
  /\ SetPos(t, dequeuePos)
  /\ Go(t, "seqD")
  /\ UNCHANGED <<queue, out, npush, log, taken>>

(* try_dequeue: an element is there, or there is none yet - then a pusher  *)
(* tries to enqueue again and a consumer waits -, or somebody was faster. *)
ReadSeqDequeue(t) ==
  LET diff == sequence[Cell(pos[t])] - (pos[t] + 1) IN
  /\ pc[t] = "seqD"
  /\ \/ diff = 0 /\ Go(t, "casD") /\ UNCHANGED pos
     \/ /\ diff < 0
        /\ IF t \in Producers THEN Go(t, "seqE") /\ SetPos(t, enqueuePos)
                              ELSE Go(t, "test") /\ SetPos(t, 0)
     \/ diff > 0 /\ SetPos(t, dequeuePos) /\ UNCHANGED pc
  /\ UNCHANGED <<queue, out, npush, log, taken>>

(* The position is taken without looking whether it is still there. *)
CasDequeueBlind(t) ==
  /\ pc[t] = "casD"
  /\ dequeuePos' = pos[t] + 1 /\ Go(t, "take")
  /\ UNCHANGED <<enqueuePos, sequence, data, pos, out, npush, log, taken>>

CasDequeue(t) ==
  /\ pc[t] = "casD"
  /\ IF dequeuePos = pos[t]
       THEN dequeuePos' = pos[t] + 1 /\ Go(t, "take") /\ UNCHANGED pos
       ELSE Go(t, "seqD") /\ SetPos(t, dequeuePos) /\ UNCHANGED dequeuePos
  /\ UNCHANGED <<enqueuePos, sequence, data, out, npush, log, taken>>

(* A consumer keeps the message, a pusher drops it. *)
Take(t) ==
  /\ pc[t] = "take"
  /\ out' = IF t \in Consumers THEN [out EXCEPT ![t] = data[Cell(pos[t])]] ELSE out
  /\ data' = [data EXCEPT ![Cell(pos[t])] = Nothing]
  /\ Go(t, "free")
  /\ UNCHANGED <<enqueuePos, dequeuePos, sequence, pos, npush, log, taken>>

(* The cell is free for the position one lap ahead; a consumer returns. *)
Free(t) ==
  /\ pc[t] = "free"
  /\ sequence' = [sequence EXCEPT ![Cell(pos[t])] = pos[t] + Capacity]
  /\ IF t \in Producers
       THEN Go(t, "seqE") /\ SetPos(t, enqueuePos) /\ UNCHANGED <<out, taken>>
       ELSE /\ Go(t, "idle") /\ SetPos(t, 0)
            /\ taken' = taken \cup {out[t]}
            /\ out' = [out EXCEPT ![t] = Nothing]
  /\ UNCHANGED <<enqueuePos, dequeuePos, data, npush, log>>
-----------------------------------------------------------------------------
(* The predicate: there is a position to read. *)
Test(t) ==
  /\ pc[t] = "test"
  /\ IF enqueuePos # dequeuePos THEN Go(t, "seqD") /\ SetPos(t, dequeuePos)
                                ELSE Go(t, "sleep") /\ UNCHANGED pos
  /\ UNCHANGED <<queue, out, npush, log, taken>>

Sleep(t) ==
  /\ pc[t] = "sleep"
  /\ Go(t, "asleep")
  /\ UNCHANGED <<queue, pos, out, npush, log, taken>>

(* The wait is always for ever. *)
DeadlineNever(t) ==
  /\ pc[t] = "asleep" /\ FALSE
  /\ UNCHANGED vars

(* The deadline passes. *)
Deadline(t) ==
  /\ pc[t] = "asleep" /\ Timed
  /\ Go(t, "late")
  /\ UNCHANGED <<queue, pos, out, npush, log, taken>>

(* wait_until reads the predicate a last time; pop returns false. *)
TestLate(t) ==
  /\ pc[t] = "late"
  /\ IF enqueuePos # dequeuePos THEN Go(t, "seqD") /\ SetPos(t, dequeuePos)
                                ELSE Go(t, "idle") /\ UNCHANGED pos
  /\ UNCHANGED <<queue, out, npush, log, taken>>

Step(t) ==
  \/ ReadSeqEnqueue(t) \/ CasEnqueue(t) \/ Store(t) \/ Publish(t) \/ Notify(t)
  \/ ReadSeqDequeue(t) \/ CasDequeue(t) \/ Take(t) \/ Free(t)
  \/ Test(t) \/ Sleep(t) \/ Deadline(t) \/ TestLate(t)

Next ==
  \/ \E t \in Producers : PushBegin(t)
  \/ \E t \in Consumers : PopBegin(t)
  \/ \E t \in Users : Step(t)

(* Users run on; consumers keep asking. *)
Fairness ==
  /\ \A t \in Users : WF_vars(Step(t))
  /\ \A t \in Consumers : WF_vars(PopBegin(t))

Spec == Init /\ [][Next]_vars /\ Fairness
-----------------------------------------------------------------------------
(***************************************************************************)
(* Properties.                                                             *)
(***************************************************************************)
TypeOKQueue ==
  /\ enqueuePos \in 0..NMsgs /\ dequeuePos \in 0..NMsgs
  /\ DOMAIN sequence = Cells
  /\ \A c \in Cells : sequence[c] \in 0..(enqueuePos + Capacity - 1)
  /\ data \in [Cells -> Msgs \cup {Nothing}]
  /\ pc \in [Users -> PC]
  /\ pos \in [Users -> 0..NMsgs]
  /\ out \in [Users -> Msgs \cup {Nothing}]
  /\ npush \in [Producers -> 0..NPush]
  /\ DOMAIN log = 0..(enqueuePos - 1)
  /\ taken \subseteq Msgs

(* Whoever won a position finds in the cell what was pushed for that very  *)
(* position: elements are neither taken twice, nor overwritten unread, nor *)
(* read before they are stored. *)
TakenIsPushed ==
  \A t \in Users : pc[t] = "take" =>
    pos[t] \in DOMAIN log /\ data[Cell(pos[t])] = log[pos[t]]

(* The two ends never pass one another nor come apart by more than the     *)
(* capacity, whatever the threads inside push and pop are about to do. *)
EndsInOrder == enqueuePos - dequeuePos \in 0..Capacity

(* Both: try_enqueue and try_dequeue agree on what a cell's number means. *)
QueueTakenIsPushed == TakenIsPushed /\ EndsInOrder

(* Every push and every pop comes to an end ("full: drop the oldest"): no  *)
(* thread spins for ever on a cell whose turn never comes. *)
CallsReturn == \A t \in Users : pc[t] # "idle" ~> (pc[t] = "idle" \/ pc[t] = "asleep")

(* What was pushed is popped or dropped for a later push: no element stays *)
(* in the queue while consumers ask for one, even when its notification    *)
(* came to nothing. *)
QueueDrains == []<>(enqueuePos = dequeuePos)
============================================================================

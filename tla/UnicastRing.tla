---------------------------- MODULE UnicastRing ----------------------------
(***************************************************************************)
(* The unicast rings of prod_cons.h: one producer and one consumer (ss),   *)
(* one producer and many consumers (sm), many of both (mm), with the       *)
(* counting of senders and receivers of elem_array.h and elem_def.h.  An   *)
(* element is taken by one consumer only.  Writing an element takes two    *)
(* steps, so that a copy made meanwhile is torn.  A relaxed load of wt_ in *)
(* the mm producer may return an old value: its test may then say          *)
(* "somebody else moves wt_" although nobody does.                         *)
(***************************************************************************)
EXTENDS Integers, Sequences

CONSTANTS
    Pushers, Poppers,
    Policies,   \* the policies to look at, of "ss", "sm" and "mm"
    N,          \* kRingSlots
    MaxPush,    \* elements pushed in a behaviour
    MaxForce,   \* timed out sends in a behaviour
    MaxConn,    \* connections of receivers in a behaviour
    MaxRd,      \* where rd_ stops when it ran past wt_
    CcMod       \* range of the connection counter, 2^32 in the code

VARIABLES
    policy,
    rd, wt, ct, \* the indices
    data, flag, \* the elements: what they hold, and the index in f_ct_
    cc,         \* cc_, the number of receivers
    sending,    \* the producers ready_sending lets push
    taken,      \* receiver_checker's flag
    member,     \* the consumers that are connected
    pc, cur,    \* of each thread: where it is and the index it works on
    buff,       \* of each thread: what it copied
    popped,     \* the elements in the order consumers got them
    forces, conns

ringVars == <<rd, wt, ct, data, flag>>
connVars == <<cc, sending, taken, member, conns>>
threadVars == <<pc, cur, buff>>
vars == <<policy, ringVars, connVars, threadVars, popped, forces>>

Threads == Pushers \cup Poppers
Torn == MaxPush + 1
NoFlag == MaxPush + 1
Slot(i) == i % N

TypeOK ==
    /\ policy \in Policies
    /\ rd \in 0..MaxRd /\ wt \in 0..MaxPush /\ ct \in 0..MaxPush
    /\ data \in [0..(N - 1) -> 0..Torn]
    /\ flag \in [0..(N - 1) -> 0..NoFlag]
    /\ cc \in 0..(CcMod - 1)
    /\ sending \subseteq Pushers /\ member \subseteq Poppers
    /\ taken \in BOOLEAN
    /\ cur \in [Threads -> 0..MaxRd]

Init ==
    /\ policy \in Policies
    /\ rd = 0 /\ wt = 0 /\ ct = 0
    /\ data = [s \in 0..(N - 1) |-> 0]
    /\ flag = [s \in 0..(N - 1) |-> NoFlag]
    /\ cc = 0 /\ sending = {} /\ taken = FALSE /\ member = {} /\ conns = 0
    /\ pc = [t \in Threads |-> "idle"]
    /\ cur = [t \in Threads |-> 0]
    /\ buff = [t \in Threads |-> 0]
    /\ popped = <<>> /\ forces = 0

Goto(t, l) == pc' = [pc EXCEPT ![t] = l]
Done(t) ==
    /\ pc' = [pc EXCEPT ![t] = "idle"]
    /\ cur' = [cur EXCEPT ![t] = 0]
    /\ buff' = [buff EXCEPT ![t] = 0]
At(t, i, l) == Goto(t, l) /\ cur' = [cur EXCEPT ![t] = i]

-----------------------------------------------------------------------------
(* Senders and receivers *)

(* sender_checker: one producer may send at a time in ss and sm *)
ConnectSender(p) ==
    /\ p \notin sending
    /\ policy = "mm" \/ sending = {}
    /\ sending' = sending \cup {p}
    /\ UNCHANGED <<policy, ringVars, cc, taken, member, conns, threadVars, popped, forces>>

DisconnectSender(p) ==
    /\ p \in sending /\ pc[p] = "idle"
    /\ sending' = sending \ {p}
    /\ UNCHANGED <<policy, ringVars, cc, taken, member, conns, threadVars, popped, forces>>

(* receiver_checker, then conn_head: the tag only counts *)
ConnectReceiver(c) ==
    /\ conns < MaxConn
    /\ c \notin member
    /\ policy = "ss" => ~taken
    /\ taken' = (policy = "ss")
    /\ cc' = (cc + 1) % CcMod
    /\ member' = member \cup {c}
    /\ conns' = conns + 1
    /\ UNCHANGED <<policy, ringVars, sending, threadVars, popped, forces>>

(* queue_conn::disconnect: a count of 0 reads as not connected *)
DisconnectReceiver(c) ==
    /\ c \in member /\ pc[c] = "idle" /\ cc # 0
    /\ taken' = FALSE
    /\ cc' = cc - 1
    /\ member' = member \ {c}
    /\ UNCHANGED <<policy, ringVars, sending, conns, threadVars, popped, forces>>

(* force_push after a send that ran out of time: the receivers are         *)
(* disconnected, all of them in ss, one of them otherwise; false           *)
ForcePush(p) ==
    /\ forces < MaxForce
    /\ p \in sending /\ pc[p] = "idle"
    /\ forces' = forces + 1
    /\ taken' = FALSE
    /\ cc' = IF policy = "ss" THEN 0 ELSE (cc + CcMod - 1) % CcMod
    /\ UNCHANGED <<policy, ringVars, sending, member, conns, threadVars, popped>>

-----------------------------------------------------------------------------
(* push of ss and sm.  Elements carry their number, from 1 on. *)

(* One element stays free, or a full ring would look empty *)
Full(next) == Slot(next) = Slot(rd)

PushSingle(p) ==
    /\ policy # "mm" /\ p \in sending /\ pc[p] = "idle" /\ wt < MaxPush
    /\ ~Full(wt + 1)
    /\ data' = [data EXCEPT ![Slot(wt)] = Torn]
    /\ At(p, wt, "write1")
    /\ UNCHANGED <<policy, rd, wt, ct, flag, connVars, buff, popped, forces>>

PushSingleDone(p) ==
    /\ pc[p] = "write1"
    /\ data' = [data EXCEPT ![Slot(cur[p])] = cur[p] + 1]
    /\ wt' = wt + 1
    /\ Done(p)
    /\ UNCHANGED <<policy, rd, ct, flag, connVars, popped, forces>>

(* push of mm: the slot is claimed by moving ct_ *)
PushLoad(p) ==
    /\ policy = "mm" /\ p \in sending /\ pc[p] = "idle" /\ ct < MaxPush
    /\ At(p, ct, "claim")
    /\ UNCHANGED <<policy, ringVars, connVars, buff, popped, forces>>

PushFull(p) ==
    /\ pc[p] = "claim" /\ Full(cur[p] + 1)
    /\ Done(p)
    /\ UNCHANGED <<policy, ringVars, connVars, popped, forces>>

PushClaim(p) ==
    /\ pc[p] = "claim" /\ ~Full(cur[p] + 1)
    /\ IF ct = cur[p]
       THEN /\ ct' = cur[p] + 1
            /\ data' = [data EXCEPT ![Slot(cur[p])] = Torn]
            /\ Goto(p, "write")
            /\ UNCHANGED <<cur, buff>>
       ELSE UNCHANGED <<ct, data>> /\ Done(p)
    /\ UNCHANGED <<policy, rd, wt, flag, connVars, popped, forces>>

(* The element is written, then its commit flag is set *)
PushCommit(p) ==
    /\ pc[p] = "write"
    /\ data' = [data EXCEPT ![Slot(cur[p])] = cur[p] + 1]
    /\ flag' = [flag EXCEPT ![Slot(cur[p])] = cur[p]]
    /\ Goto(p, "advance")
    /\ UNCHANGED <<policy, rd, wt, ct, connVars, cur, buff, popped, forces>>

(* One round of "try update wt".  It ends when wt_ is elsewhere, or reads  *)
(* so, or when the element of the index is not committed.                  *)
PushLeave(p) ==
    /\ pc[p] = "advance"
    /\ Done(p)
    /\ UNCHANGED <<policy, ringVars, connVars, popped, forces>>

PushTakeFlag(p) ==
    /\ pc[p] = "advance"
    /\ wt = cur[p] /\ flag[Slot(cur[p])] = cur[p]
    /\ flag' = [flag EXCEPT ![Slot(cur[p])] = NoFlag]
    /\ Goto(p, "store")
    /\ UNCHANGED <<policy, rd, wt, ct, data, connVars, cur, buff, popped, forces>>

PushStore(p) ==
    /\ pc[p] = "store"
    /\ wt' = cur[p] + 1
    /\ At(p, cur[p] + 1, "advance")
    /\ UNCHANGED <<policy, rd, ct, data, flag, connVars, buff, popped, forces>>

-----------------------------------------------------------------------------
(* pop.  A consumer that was disconnected by force_push still pops. *)

PopLoad(c) ==
    /\ c \in member /\ pc[c] = "idle" /\ rd < MaxRd - 1
    /\ At(c, rd, "look")
    /\ UNCHANGED <<policy, ringVars, connVars, buff, popped, forces>>

(* ss and sm: nothing there; mm: nor is the next element committed *)
PopEmpty(c) ==
    /\ pc[c] = "look"
    /\ Slot(cur[c]) = Slot(wt)
    /\ policy = "mm" => flag[Slot(wt)] # wt
    /\ Done(c)
    /\ UNCHANGED <<policy, ringVars, connVars, popped, forces>>

(* Mutant: a consumer leaves wt_ to the producers *)
PopHelpNot(c) == FALSE /\ UNCHANGED vars

(* mm: the consumer moves wt_ over a committed element *)
PopHelp(c) ==
    /\ pc[c] = "look" /\ policy = "mm"
    /\ Slot(cur[c]) = Slot(wt) /\ flag[Slot(wt)] = wt
    /\ flag' = [flag EXCEPT ![Slot(wt)] = NoFlag]
    /\ At(c, wt, "help")
    /\ UNCHANGED <<policy, rd, wt, ct, data, connVars, buff, popped, forces>>

PopHelpStore(c) ==
    /\ pc[c] = "help"
    /\ wt' = cur[c] + 1
    /\ Done(c)
    /\ UNCHANGED <<policy, rd, ct, data, flag, connVars, popped, forces>>

PopCopy(c) ==
    /\ pc[c] = "look"
    /\ Slot(cur[c]) # Slot(wt)
    /\ buff' = [buff EXCEPT ![c] = data[Slot(cur[c])]]
    /\ Goto(c, "copied")
    /\ UNCHANGED <<policy, ringVars, connVars, cur, popped, forces>>

(* Mutant: rd_ is stored without a look at what it is *)
PopTakeBlind(c) ==
    /\ pc[c] = "copied"
    /\ rd' = cur[c] + 1
    /\ popped' = Append(popped, buff[c])
    /\ Done(c)
    /\ UNCHANGED <<policy, wt, ct, data, flag, connVars, forces>>

(* The element is the consumer's when rd_ did not move; ss adds 1 blindly *)
PopTake(c) ==
    /\ pc[c] = "copied"
    /\ IF policy = "ss" \/ rd = cur[c]
       THEN rd' = rd + 1 /\ popped' = Append(popped, buff[c])
       ELSE UNCHANGED <<rd, popped>>
    /\ Done(c)
    /\ UNCHANGED <<policy, wt, ct, data, flag, connVars, forces>>

-----------------------------------------------------------------------------
Push(p) ==
    \/ PushSingleDone(p) \/ PushFull(p) \/ PushClaim(p) \/ PushCommit(p)
    \/ PushLeave(p) \/ PushTakeFlag(p) \/ PushStore(p)

Pop(c) == PopLoad(c) \/ PopEmpty(c) \/ PopHelp(c) \/ PopHelpStore(c) \/ PopCopy(c) \/ PopTake(c)

Next ==
    \/ \E p \in Pushers : \/ ConnectSender(p) \/ DisconnectSender(p) \/ ForcePush(p)
                          \/ PushSingle(p) \/ PushLoad(p) \/ Push(p)
    \/ \E c \in Poppers : ConnectReceiver(c) \/ DisconnectReceiver(c) \/ Pop(c)

(* A call under way goes on; a connected consumer keeps popping *)
Fairness ==
    /\ \A p \in Pushers : WF_vars(Push(p))
    /\ \A c \in Poppers : WF_vars(Pop(c))

Spec == Init /\ [][Next]_vars /\ Fairness

-----------------------------------------------------------------------------
(* Consumers get the elements once each, in the order their slots were     *)
(* claimed and whole, however copies, writes and the moves of rd_ and wt_  *)
(* interleave.  A send that ran out of time on an ss ring lets a second    *)
(* consumer in beside the first, and ends that.                            *)
InOrderOnce ==
    (policy = "ss" /\ forces > 0) \/ popped = [i \in 1..Len(popped) |-> i]

(* wt_ never passes an element that is not committed, rd_ never passes wt_ *)
(* and the producers never lap rd_ (push's test and the commit flags).     *)
IndicesInOrder ==
    \/ policy = "ss" /\ forces > 0
    \/ /\ rd <= wt /\ (policy = "mm" => wt <= ct)
       /\ (IF policy = "mm" THEN ct ELSE wt) < rd + N
       /\ \A i \in rd..(wt - 1) : data[Slot(i)] = i + 1

(* Both: pop hands out what push stored, and push finds room where it looked. *)
UnicastInOrderOnce == InOrderOnce /\ IndicesInOrder

(* What is committed is popped while a consumer stays, also when all       *)
(* producers left wt_ to somebody else (the help in mm's pop).             *)
CommittedArePopped ==
    \A i \in 0..(MaxPush - 1) :
        flag[Slot(i)] = i ~> (rd > i \/ member = {} \/ (policy = "ss" /\ forces > 0))
=============================================================================

---------------------------- MODULE ChannelRing ----------------------------
(***************************************************************************)
(* The broadcast ring with many producers of prod_cons.h (ipc::channel).   *)
(* Every element has a read-counter rc_: the receivers that have not read  *)
(* it yet, the epoch of the producer that claimed it, and a number that    *)
(* every change of the counter moves on; and a flag f_ct_: the index of    *)
(* the message in it, or the index it is free for.  A producer claims the  *)
(* element at ct_ by a compare-and-exchange of rc_; force_push, after a    *)
(* send that ran out of time, does so whoever has not read it.             *)
(*                                                                         *)
(* Writing an element takes two steps, so that a copy made meanwhile is    *)
(* torn.  The compare-and-exchange of the epoch, and that of rc_, may fail *)
(* without a reason: the loop starts again.                                *)
(***************************************************************************)
EXTENDS Naturals, Sequences, FiniteSets

CONSTANTS
    Producers, Receivers,
    N,          \* kRingSlots
    MaxPush,    \* messages claimed in a behaviour
    MaxForce,   \* timed out sends in a behaviour whose receivers stay
    MaxEpoch,   \* epochs in a behaviour
    MaxMoves    \* receivers that come or go in a behaviour without them

ASSUME ChannelAssumption ==
    /\ N \in Nat \ {0}
    /\ MaxPush \in Nat /\ MaxForce \in Nat /\ MaxEpoch \in Nat /\ MaxMoves \in Nat

VARIABLES
    ct, epoch,
    el,         \* the elements: data, rem, ep, ic and flag
    cc,         \* the connected receivers
    pc, at,     \* of each producer: where it is, and what it read
    cursor,     \* of each receiver: the index it reads next
    rpc, buff,  \* of each receiver: where it is, what it read of the element
    got,        \* of each receiver: the messages it got
    next,       \* number of the next message
    owed,       \* of each receiver: the messages pushed for it
    joined,     \* a receiver connected after the start
    clash,      \* two producers won one element
    forces, moves

ringVars == <<ct, epoch, el>>
readVars == <<cursor, rpc, buff, got>>
history == <<owed, joined, clash>>
vars == <<ringVars, cc, pc, at, readVars, next, history, forces, moves>>

Slots == 0..(N - 1)
Slot(i) == i % N
Torn == 0
NoFlag == [k |-> "zero", i |-> 0]
Holds(i) == [k |-> "holds", i |-> i]
FreeFor(i) == [k |-> "free", i |-> i]
Fresh == [data |-> Torn, rem |-> {}, ep |-> 0, ic |-> 0, flag |-> NoFlag]
NoLook == [ct |-> 0, cc |-> {}, el |-> Fresh, ep |-> 0, m |-> 0, forced |-> FALSE]

Init ==
    /\ ct = 0 /\ epoch = 0
    /\ el = [s \in Slots |-> Fresh]
    /\ cc \in SUBSET Receivers
    /\ pc = [p \in Producers |-> "idle"]
    /\ at = [p \in Producers |-> NoLook]
    /\ cursor = [r \in Receivers |-> 0]
    /\ rpc = [r \in Receivers |-> "idle"]
    /\ buff = [r \in Receivers |-> Torn]
    /\ got = [r \in Receivers |-> <<>>]
    /\ next = 1
    /\ owed = [r \in Receivers |-> {}] /\ joined = FALSE /\ clash = FALSE
    /\ forces = 0 /\ moves = 0

Done(p) == pc' = [pc EXCEPT ![p] = "idle"] /\ at' = [at EXCEPT ![p] = NoLook]

-----------------------------------------------------------------------------
(* push and force_push *)

(* push begins with the epoch of the moment, force_push moves it on *)
PushBegin(p) ==
    /\ pc[p] = "idle" /\ next <= MaxPush
    /\ pc' = [pc EXCEPT ![p] = "push"]
    /\ at' = [at EXCEPT ![p] = [NoLook EXCEPT !.ep = epoch, !.m = next]]
    /\ next' = next + 1
    /\ UNCHANGED <<ringVars, cc, readVars, history, forces, moves>>

ForceBegin(p) ==
    /\ pc[p] = "idle" /\ next <= MaxPush /\ forces < MaxForce /\ epoch < MaxEpoch /\ moves = 0
    /\ epoch' = epoch + 1
    /\ pc' = [pc EXCEPT ![p] = "force"]
    /\ at' = [at EXCEPT ![p] = [NoLook EXCEPT !.ep = epoch', !.m = next, !.forced = TRUE]]
    /\ next' = next + 1 /\ forces' = forces + 1
    /\ UNCHANGED <<ct, el, cc, readVars, history, moves>>

(* The loads of one round: no receiver ends the call *)
Load(p) ==
    /\ pc[p] \in {"push", "force"}
    /\ IF cc = {} THEN Done(p)
       ELSE /\ pc' = [pc EXCEPT ![p] = IF @ = "push" THEN "try" ELSE "tryForce"]
            /\ at' = [at EXCEPT ![p] = [@ EXCEPT !.ct = ct, !.cc = cc, !.el = el[Slot(ct)]]]
    /\ UNCHANGED <<ringVars, cc, readVars, next, history, forces, moves>>

(* Somebody has not finished reading, or the flag is of another round *)
Full(p) ==
    LET e == at[p].el
    IN  \/ at[p].cc \cap e.rem # {} /\ e.ep = at[p].ep
        \/ e.rem = {} /\ e.flag \notin {NoFlag, FreeFor(at[p].ct)}

(* push returns false; the force_push that called it takes a new epoch *)
PushFull(p) ==
    /\ pc[p] = "try" /\ Full(p)
    /\ \/ ~at[p].forced /\ Done(p) /\ UNCHANGED epoch
       \/ /\ at[p].forced /\ epoch < MaxEpoch
          /\ epoch' = epoch + 1
          /\ pc' = [pc EXCEPT ![p] = "force"]
          /\ at' = [at EXCEPT ![p].ep = epoch']
    /\ UNCHANGED <<ct, el, cc, readVars, next, history, forces, moves>>

(* rc_ after the exchange of the producer that saw look; every change      *)
(* moves ic_ on (inc_rc)                                                   *)
Claimed(e, look) == [e EXCEPT !.rem = look.cc, !.ep = look.ep, !.ic = e.ic + 1]

(* rc_ as it was read: then it names the claim's epoch and receivers *)
Exchange(p) ==
    LET s == Slot(at[p].ct)
        e == at[p].el
    IN  /\ el[s].rem = e.rem /\ el[s].ep = e.ep /\ el[s].ic = e.ic
        /\ el' = [el EXCEPT ![s] = Claimed(el[s], at[p])]

(* The claim holds if the epoch is still the same *)
PushClaim(p) ==
    /\ pc[p] = "try" /\ ~Full(p)
    /\ Exchange(p)
    /\ IF epoch = at[p].ep
       THEN pc' = [pc EXCEPT ![p] = "won"] /\ UNCHANGED at
       ELSE /\ pc' = [pc EXCEPT ![p] = "push"]
            /\ at' = [at EXCEPT ![p].ep = epoch]
    /\ UNCHANGED <<ct, epoch, cc, readVars, next, history, forces, moves>>

(* A force_push that lost its epoch tries push *)
ForceClaim(p) ==
    /\ pc[p] = "tryForce"
    /\ Exchange(p)
    /\ pc' = [pc EXCEPT ![p] = IF epoch = at[p].ep THEN "won" ELSE "push"]
    /\ at' = [at EXCEPT ![p].ep = epoch]
    /\ UNCHANGED <<ct, epoch, cc, readVars, next, history, forces, moves>>

(* The exchange failed *)
Retry(p) ==
    /\ pc[p] \in {"try", "tryForce"}
    /\ pc[p] = "try" => ~Full(p)
    /\ el[Slot(at[p].ct)] # at[p].el
    /\ pc' = [pc EXCEPT ![p] = IF @ = "try" THEN "push" ELSE "force"]
    /\ UNCHANGED <<ringVars, cc, at, readVars, next, history, forces, moves>>

(* Mutant: the flag is set before the element is written *)
AdvanceFlags(p) ==
    /\ pc[p] = "won"
    /\ ct' = at[p].ct + 1
    /\ el' = [el EXCEPT ![Slot(at[p].ct)].data = Torn, ![Slot(at[p].ct)].flag = Holds(at[p].ct)]
    /\ pc' = [pc EXCEPT ![p] = "write"]
    /\ UNCHANGED <<epoch, cc, at, readVars, next, history, forces, moves>>

(* ct_ moves on and the element is being written *)
Advance(p) ==
    LET s == Slot(at[p].ct)
    IN  /\ pc[p] = "won"
        /\ ct' = at[p].ct + 1
        /\ el' = [el EXCEPT ![s].data = Torn]
        /\ pc' = [pc EXCEPT ![p] = "write"]
        /\ clash' = (clash \/ ct # at[p].ct
                     \/ \E q \in Producers \ {p} :
                           pc[q] \in {"won", "write"} /\ Slot(at[q].ct) = s)
        /\ UNCHANGED <<epoch, cc, at, readVars, next, owed, joined, forces, moves>>

Written(e, look) == [e EXCEPT !.data = look.m, !.flag = Holds(look.ct)]

(* The message is in the element, and the flag says so *)
Commit(p) ==
    LET s == Slot(at[p].ct)
    IN  /\ pc[p] = "write"
        /\ el' = [el EXCEPT ![s] = Written(el[s], at[p])]
        /\ owed' = [r \in Receivers |-> IF r \in at[p].cc \cap cc /\ cursor[r] <= at[p].ct
                                        THEN owed[r] \cup {at[p].m} ELSE owed[r]]
        /\ Done(p)
        /\ UNCHANGED <<ct, epoch, cc, readVars, next, joined, clash, forces, moves>>

-----------------------------------------------------------------------------
(* pop *)

(* The element holds the message of the cursor: it is read *)
PopRead(r) ==
    LET e == el[Slot(cursor[r])]
    IN  /\ r \in cc /\ rpc[r] = "idle"
        /\ e.flag = Holds(cursor[r])
        /\ cursor' = [cursor EXCEPT ![r] = @ + 1]
        /\ got' = [got EXCEPT ![r] = Append(@, e.data)]
        /\ rpc' = [rpc EXCEPT ![r] = "count"]
        /\ UNCHANGED <<ringVars, cc, pc, at, buff, next, history, forces, moves>>

(* rc_ is loaded; the last one, or one who finds nobody waited for, frees  *)
(* the element before it takes its bit out                                 *)
PopCount(r) ==
    LET s == Slot(cursor[r] - 1)
        last == el[s].rem \subseteq {r}
    IN  /\ rpc[r] = "count"
        /\ el' = IF last THEN [el EXCEPT ![s].flag = FreeFor(cursor[r] - 1 + N)] ELSE el
        /\ buff' = [buff EXCEPT ![r] = IF el[s].rem = {} THEN 0 ELSE el[s].ic]
        /\ rpc' = [rpc EXCEPT ![r] = IF el[s].rem = {} THEN "idle" ELSE "exchange"]
        /\ UNCHANGED <<ct, epoch, cc, pc, at, cursor, got, next, history, forces, moves>>

TakenOut(e, r) == [e EXCEPT !.rem = e.rem \ {r}, !.ic = e.ic + 1]

(* Its bit is taken out if rc_ did not change meanwhile *)
PopTakeOut(r) ==
    LET s == Slot(cursor[r] - 1)
        same == el[s].ic = buff[r]
    IN  /\ rpc[r] = "exchange"
        /\ el' = IF same THEN [el EXCEPT ![s] = TakenOut(el[s], r)] ELSE el
        /\ rpc' = [rpc EXCEPT ![r] = IF same THEN "idle" ELSE "count"]
        /\ buff' = [buff EXCEPT ![r] = 0]
        /\ UNCHANGED <<ct, epoch, cc, pc, at, cursor, got, next, history, forces, moves>>

(* connect: the lowest free bit, and the cursor of the moment *)
Connect(r) ==
    /\ moves < MaxMoves /\ forces = 0 /\ r \notin cc
    /\ cc' = cc \cup {r}
    /\ cursor' = [cursor EXCEPT ![r] = ct]
    /\ moves' = moves + 1
    /\ owed' = [owed EXCEPT ![r] = {}] /\ joined' = TRUE
    /\ got' = [got EXCEPT ![r] = <<>>]
    /\ UNCHANGED <<ringVars, pc, at, rpc, buff, next, clash, forces>>

Disconnect(r) ==
    /\ moves < MaxMoves /\ forces = 0 /\ r \in cc /\ rpc[r] = "idle"
    /\ cc' = cc \ {r}
    /\ moves' = moves + 1
    /\ UNCHANGED <<ringVars, pc, at, readVars, next, history, forces>>

-----------------------------------------------------------------------------
Produce(p) ==
    Load(p) \/ PushFull(p) \/ PushClaim(p) \/ ForceClaim(p) \/ Retry(p) \/ Advance(p) \/ Commit(p)

Pop(r) == PopRead(r) \/ PopCount(r) \/ PopTakeOut(r)

(* Nothing is claimed of what follows after two producers won one element *)
Next ==
    /\ ~clash
    /\ \/ \E p \in Producers : PushBegin(p) \/ ForceBegin(p) \/ Produce(p)
       \/ \E r \in Receivers : Pop(r) \/ Connect(r) \/ Disconnect(r)

Fairness ==
    /\ \A p \in Producers : WF_vars(~clash /\ Produce(p))
    /\ \A r \in Receivers : WF_vars(~clash /\ Pop(r))

Spec == Init /\ [][Next]_vars /\ Fairness

-----------------------------------------------------------------------------
Messages(r) == {got[r][i] : i \in 1..Len(got[r])}

TypeOK ==
    /\ ct \in 0..MaxPush /\ epoch \in 0..MaxEpoch
    /\ \A s \in Slots : el[s].data \in 0..MaxPush /\ el[s].rem \subseteq Receivers
    /\ cc \subseteq Receivers
    /\ \A r \in Receivers : cursor[r] \in 0..MaxPush

(* Without a timed out send and without a receiver that joins, no two      *)
(* producers are in one element, whatever they read before the exchange    *)
(* and whoever leaves ("only one thread/process would touch here").        *)
OneWriter == forces = 0 /\ ~joined => ~clash

(* Then a receiver never reads an element that is being written and gets   *)
(* no message twice either.  (A receiver that joins between a claim and    *)
(* the move of ct_ reads a message it is not waited for: that one may be   *)
(* torn.)                                                                  *)
ReadsWhole ==
    /\ OneWriter
    /\ \A r \in Receivers : forces = 0 /\ ~joined =>
        /\ Torn \notin Messages(r)
        /\ Cardinality(Messages(r)) = Len(got[r])

(* What was pushed for a connected receiver reaches it, as long as no send *)
(* ran out of time and nobody joined.  (A receiver that force_push         *)
(* overtakes waits for ever: pop has no way to catch up.)                  *)
PushedArrives ==
    \A r \in Receivers :
        []<>(owed[r] \subseteq Messages(r) \/ forces > 0 \/ joined \/ r \notin cc)
=============================================================================

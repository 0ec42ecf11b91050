--------------------------- MODULE TopicHandshake ---------------------------
(***************************************************************************)
(* One shared-memory topic: how a publisher (re)builds it and how its      *)
(* subscribers attach to it, notice a new publisher, and are given up.     *)
(*                                                                         *)
(*   dzIPC/common/control_plane.cc  TopicControlPlane, in shared memory    *)
(*   dzIPC/shm_pub_sub_ipc.cc       InitChannel, pub_handshake,            *)
(*                                  sub_handshake, the destructors         *)
(*   libipc/circ/elem_def.h         conn_head: the receivers' bits         *)
(*   platform/posix/shm_posix.cpp   segments: a name, a count of users     *)
(*                                                                         *)
(* Every load, store and read-modify-write of the control plane that       *)
(* another process could come between is a step of its own.  A segment is  *)
(* a number; the name of the topic leads to at most one segment, the older *)
(* ones live on in the processes that mapped them.                         *)
(*                                                                         *)
(* Time: a drain (200 ms) may always run out.  A heartbeat (every 10 ms)   *)
(* is never 2 s late while its thread lives.  There is one publisher at a  *)
(* time.  The control plane has been initialized.  subscribed_, a copy of  *)
(* peer_count > 0 for the application, is left out.                        *)
(***************************************************************************)
EXTENDS Integers, FiniteSets

CONSTANTS
  Subs,          \* subscribers
  Mortal,        \* those among them that may stop or die
  NBits,         \* connection bits of a segment (32)
  NSlots,        \* kMaxPeerSlots (64)
  MaxGen,        \* bound: publishers, one after the other
  MaxSeg,        \* bound: segments created
  QuickRestart,  \* TRUE: a publisher may follow another at once
  StaleCrash     \* TRUE: a subscriber may die with a slot it took too late for
                 \* its generation

Bits  == 1..NBits
Slots == 1..NSlots
Segs  == 1..MaxSeg

ASSUME TopicAssumption ==
  /\ IsFiniteSet(Subs) /\ Mortal \subseteq Subs
  /\ NBits \in Nat \ {0} /\ NSlots \in Nat \ {0}
  /\ MaxGen \in Nat /\ MaxSeg \in Nat
  /\ QuickRestart \in BOOLEAN /\ StaleCrash \in BOOLEAN

VARIABLES
  state,       \* TopicControl::state
  generation,  \* TopicControl::generation
  peers,       \* TopicControl::peer_count
  slot,        \* TopicControl::peers; pid and generation are never read
  name,        \* segment the topic's name leads to, 0: none
  segs,        \* segments created so far
  refs,        \* users each segment counts
  cc,          \* receivers' bits of each segment
  ppc,         \* where the publisher is
  pseg,        \* publisher_: the segment it sends to
  stale,       \* result of collect_stale_peers
  pc,          \* where each sub_handshake is
  after,       \* where it goes on after remove_peer and release_peer_slot
  gen,         \* its local generation
  attached,    \* attached_generation
  registered,  \* peer_registered
  completed,   \* handshake_completed
  mine,        \* peer_slot_, 0: -1
  conn         \* subscriber_: its segment and its bit; 0 where it has none

control == <<state, generation, peers, slot>>
segment == <<name, segs, refs, cc>>
pubVars == <<ppc, pseg, stale>>
subVars == <<pc, after, gen, attached, registered, completed, mine, conn>>
vars    == <<control, segment, pubVars, subVars>>

States  == {"Empty", "Clearing", "Ready", "Stopping"}
PubPC   == {"none", "drain", "wipe", "bump", "clear", "route", "ready", "scan",
            "reap", "leave"}
SubPC   == {"off", "gone", "top", "state", "close", "open", "gen?", "ready?",
            "add", "fail", "cc", "fill", "drop", "remove?", "remove", "release",
            "exit"}
Free    == [used |-> FALSE, cc |-> 0]
NoConn  == [seg |-> 0, bit |-> 0]
Alive(s) == pc[s] \notin {"off", "gone"}
Serving  == ppc \in {"scan", "reap"}

Init ==
  /\ state = "Empty" /\ generation = 0 /\ peers = 0
  /\ slot = [i \in Slots |-> Free]
  /\ name = 0 /\ segs = 0
  /\ refs = [x \in Segs |-> 0]
  /\ cc = [x \in Segs |-> {}]
  /\ ppc = "none" /\ pseg = 0 /\ stale = {}
  /\ pc = [s \in Subs |-> "off"]
  /\ after = [s \in Subs |-> "top"]
  /\ gen = [s \in Subs |-> 0]
  /\ attached = [s \in Subs |-> 0]
  /\ registered = [s \in Subs |-> FALSE]
  /\ completed = [s \in Subs |-> FALSE]
  /\ mine = [s \in Subs |-> 0]
  /\ conn = [s \in Subs |-> NoConn]
-----------------------------------------------------------------------------
(***************************************************************************)
(* Segments.                                                               *)
(***************************************************************************)

\* shm_open with O_CREAT, and the count of its users: the segment the name
\* leads to, or a new one.
Opened == IF name = 0 THEN segs + 1 ELSE name

OpenSegment ==
  /\ Opened \in Segs
  /\ name' = Opened
  /\ segs' = IF name = 0 THEN segs + 1 ELSE segs
  /\ refs' = [refs EXCEPT ![Opened] = @ + 1]

\* shm::release: the last user of a segment unlinks the name, whichever segment
\* the name leads to by now.
CloseSegment(x) ==
  /\ refs' = [refs EXCEPT ![x] = @ - 1]
  /\ name' = IF refs[x] <= 1 THEN 0 ELSE name
  /\ UNCHANGED segs

\* conn_head::connect: the lowest free bit, or 0.
FreeBit(x) ==
  IF Bits \subseteq cc[x] THEN 0
  ELSE CHOOSE b \in Bits \ cc[x] : \A d \in Bits \ cc[x] : b <= d

GoTo(s, l) == pc' = [pc EXCEPT ![s] = l]
-----------------------------------------------------------------------------
(***************************************************************************)
(* The publisher: InitChannel.                                             *)
(***************************************************************************)

\* The predecessor died while it served, or it stopped and its subscribers have
\* seen that and let go.
Settled ==
  \/ state = "Ready"
  \/ \A s \in Subs : Alive(s) => /\ conn[s] = NoConn
                                 /\ pc[s] \in {"top", "state"}

\* Mutant: the topic is not marked while it is rebuilt.
PubStart_Unmarked ==
  /\ ppc = "none" /\ generation < MaxGen
  /\ QuickRestart \/ Settled
  /\ ppc' = "drain"
  /\ UNCHANGED <<control, segment, pseg, stale, subVars>>

\* begin_rebuild
PubStart ==
  /\ ppc = "none" /\ generation < MaxGen
  /\ QuickRestart \/ Settled
  /\ state' = "Clearing"
  /\ ppc' = "drain"
  /\ UNCHANGED <<generation, peers, slot, segment, pseg, stale,
                 subVars>>

\* peer_count has reached 0 or the deadline has passed.
PubDrain ==
  /\ ppc = "drain"
  /\ peers' = 0
  /\ ppc' = "wipe"
  /\ UNCHANGED <<state, generation, slot, segment, pseg, stale,
                 subVars>>

\* Mutant: the slots of the last generation are kept.
PubWipe_Keep ==
  /\ ppc = "wipe"
  /\ ppc' = "bump"
  /\ UNCHANGED <<control, segment, pseg, stale, subVars>>

\* clear_all_peer_slots
PubWipe ==
  /\ ppc = "wipe"
  /\ slot' = [i \in Slots |-> Free]
  /\ ppc' = "bump"
  /\ UNCHANGED <<state, generation, peers, segment, pseg, stale,
                 subVars>>

PubBump ==
  /\ ppc = "bump"
  /\ generation' = generation + 1
  /\ ppc' = "clear"
  /\ UNCHANGED <<state, peers, slot, segment, pseg, stale, subVars>>

\* route::clear_storage
PubClear ==
  /\ ppc = "clear"
  /\ name' = 0
  /\ ppc' = "route"
  /\ UNCHANGED <<control, segs, refs, cc, pseg, stale, subVars>>

PubRoute ==
  /\ ppc = "route"
  /\ OpenSegment
  /\ pseg' = Opened
  /\ ppc' = "ready"
  /\ UNCHANGED <<control, cc, stale, subVars>>

\* set_ready
PubReady ==
  /\ ppc = "ready"
  /\ state' = "Ready"
  /\ ppc' = "scan"
  /\ UNCHANGED <<generation, peers, slot, segment, pseg, stale,
                 subVars>>
-----------------------------------------------------------------------------
(***************************************************************************)
(* The publisher: pub_handshake, and its end.                              *)
(***************************************************************************)

\* Slots nobody refreshes (peer_heartbeat, every 10 ms, whoever has the slot by
\* now): sooner or later their heartbeat is 2 s old.
Silent ==
  {i \in Slots : /\ slot[i].used /\ slot[i].cc # 0
                 /\ \A s \in Subs : Alive(s) => mine[s] # i}

\* collect_stale_peers found something.
PubCollect ==
  /\ ppc = "scan"
  /\ \E dead \in (SUBSET Silent) \ {{}} :
       /\ stale' = {slot[i].cc : i \in dead}
       /\ slot' = [i \in Slots |-> IF i \in dead THEN Free ELSE slot[i]]
  /\ ppc' = "reap"
  /\ UNCHANGED <<state, generation, peers, segment, pseg, subVars>>

\* disconnect_receivers
PubReap ==
  /\ ppc = "reap"
  /\ cc' = [cc EXCEPT ![pseg] = @ \ stale]
  /\ stale' = {}
  /\ ppc' = "scan"
  /\ UNCHANGED <<control, name, segs, refs, pseg, subVars>>

\* The thread ends: set_stopping.
PubStop ==
  /\ ppc = "scan"
  /\ state' = "Stopping"
  /\ ppc' = "leave"
  /\ UNCHANGED <<generation, peers, slot, segment, pseg, stale, subVars>>

\* ~shm_pub_ipc, drained or not: publisher_->clear() lets go of the segment and
\* unlinks the name.
PubLeave ==
  /\ ppc = "leave"
  /\ refs' = [refs EXCEPT ![pseg] = @ - 1]
  /\ name' = 0
  /\ ppc' = "none" /\ pseg' = 0
  /\ UNCHANGED <<control, segs, cc, stale, subVars>>

\* The process dies; what it counted for stays counted.
PubCrash ==
  /\ ppc # "none"
  /\ ppc' = "none" /\ pseg' = 0 /\ stale' = {}
  /\ UNCHANGED <<control, segment, subVars>>
-----------------------------------------------------------------------------
(***************************************************************************)
(* A subscriber: sub_handshake.                                            *)
(***************************************************************************)

SubStart(s) ==
  /\ pc[s] = "off"
  /\ GoTo(s, "top")
  /\ UNCHANGED <<control, segment, pubVars, after, gen, attached, registered,
                 completed, mine, conn>>

SubReadGeneration(s) ==
  /\ pc[s] = "top"
  /\ gen' = [gen EXCEPT ![s] = generation]
  /\ GoTo(s, "state")
  /\ UNCHANGED <<control, segment, pubVars, after, attached, registered,
                 completed, mine, conn>>

\* Mutant: a new generation is not noticed.
NeedsAttach_Once(s) == ~completed[s]

NeedsAttach(s) == ~completed[s] \/ attached[s] # gen[s]

\* Attach (again), nothing to do, give up, or nothing to do yet.
SubReadState(s) ==
  /\ pc[s] = "state"
  /\ LET ready == state = "Ready" /\ gen[s] # 0 IN
     \/ /\ ready /\ NeedsAttach(s)
        /\ GoTo(s, IF registered[s] THEN "remove?" ELSE "close")
        /\ after' = [after EXCEPT ![s] = "close"]
        /\ UNCHANGED <<gen, completed>>
     \/ /\ ready /\ ~NeedsAttach(s)
        /\ GoTo(s, "top")
        /\ gen' = [gen EXCEPT ![s] = 0]
        /\ UNCHANGED <<after, completed>>
     \/ /\ ~ready
        /\ completed' = [completed EXCEPT ![s] = FALSE]
        /\ GoTo(s, IF completed[s] THEN "drop" ELSE "top")
        /\ gen' = [gen EXCEPT ![s] = 0]
        /\ UNCHANGED after
  /\ UNCHANGED <<control, segment, pubVars, attached, registered, mine, conn>>

\* release(): the route is given up, its bit is not.
SubClose(s) ==
  /\ pc[s] = "close"
  /\ IF conn[s].seg = 0 THEN UNCHANGED <<name, segs, refs>>
                        ELSE CloseSegment(conn[s].seg)
  /\ conn' = [conn EXCEPT ![s] = NoConn]
  /\ GoTo(s, "open")
  /\ UNCHANGED <<control, cc, pubVars, after, gen, attached, registered,
                 completed, mine>>

\* A new route, connected if there is a free bit.
SubOpen(s) ==
  /\ pc[s] = "open"
  /\ OpenSegment
  /\ conn' = [conn EXCEPT ![s] = [seg |-> Opened, bit |-> FreeBit(Opened)]]
  /\ cc' = [cc EXCEPT ![Opened] = @ \cup ({FreeBit(Opened)} \ {0})]
  /\ attached' = [attached EXCEPT ![s] = gen[s]]
  /\ gen' = [gen EXCEPT ![s] = 0]
  /\ after' = [after EXCEPT ![s] = "top"]
  /\ GoTo(s, "gen?")
  /\ UNCHANGED <<control, pubVars, registered, completed, mine>>

\* add_peer: the two conditions, one after the other.
SubAddGeneration(s) ==
  /\ pc[s] = "gen?"
  /\ GoTo(s, IF attached[s] = generation THEN "ready?" ELSE "fail")
  /\ UNCHANGED <<control, segment, pubVars, after, gen, attached, registered,
                 completed, mine, conn>>

SubAddReady(s) ==
  /\ pc[s] = "ready?"
  /\ GoTo(s, IF state = "Ready" THEN "add" ELSE "fail")
  /\ UNCHANGED <<control, segment, pubVars, after, gen, attached, registered,
                 completed, mine, conn>>

SubAdd(s) ==
  /\ pc[s] = "add"
  /\ peers' = peers + 1
  /\ registered' = [registered EXCEPT ![s] = TRUE]
  /\ GoTo(s, "cc")
  /\ UNCHANGED <<state, generation, slot, segment, pubVars, after, gen,
                 attached, completed, mine, conn>>

\* disconnect() and the end of the route: the bit and the segment go.
DisconnectBit(s) ==
  IF conn[s].seg = 0 THEN UNCHANGED segment
  ELSE /\ cc' = [cc EXCEPT ![conn[s].seg] = @ \ {conn[s].bit}]
       /\ CloseSegment(conn[s].seg)

Disconnect(s) ==
  /\ DisconnectBit(s)
  /\ conn' = [conn EXCEPT ![s] = NoConn]

\* add_peer returned false: try again.
SubFail(s) ==
  /\ pc[s] = "fail"
  /\ Disconnect(s)
  /\ GoTo(s, "top")
  /\ UNCHANGED <<control, pubVars, after, gen, attached, registered, completed,
                 mine>>

\* acquire_peer_slot: the compare and exchange of in_use.  No bit: unregister
\* and try again.  No slot: do without.
SubAcquire(s) ==
  /\ pc[s] = "cc"
  /\ \/ /\ conn[s].bit = 0
        /\ after' = [after EXCEPT ![s] = "top"]
        /\ GoTo(s, "remove?")
        /\ UNCHANGED <<slot, mine, completed>>
     \/ /\ conn[s].bit # 0
        /\ \E i \in Slots :
             /\ ~slot[i].used /\ \A j \in 1..(i - 1) : slot[j].used
             /\ slot' = [slot EXCEPT ![i].used = TRUE]
             /\ mine' = [mine EXCEPT ![s] = i]
        /\ GoTo(s, "fill")
        /\ UNCHANGED completed
     \/ /\ conn[s].bit # 0
        /\ \A i \in Slots : slot[i].used
        /\ completed' = [completed EXCEPT ![s] = TRUE]
        /\ GoTo(s, "top")
        /\ UNCHANGED <<slot, mine>>
  /\ UNCHANGED <<state, generation, peers, segment, pubVars, after, gen,
                 attached, registered, conn>>

\* The rest of acquire_peer_slot, and the handshake is complete.
SubFill(s) ==
  /\ pc[s] = "fill"
  /\ slot' = [slot EXCEPT ![mine[s]].cc = conn[s].bit]
  /\ completed' = [completed EXCEPT ![s] = TRUE]
  /\ GoTo(s, "top")
  /\ UNCHANGED <<state, generation, peers, segment, pubVars, after, gen,
                 attached, registered, mine, conn>>

\* The topic is not ready any more.
SubDrop(s) ==
  /\ pc[s] = "drop"
  /\ Disconnect(s)
  /\ GoTo(s, IF registered[s] THEN "remove?" ELSE "top")
  /\ UNCHANGED <<control, pubVars, after, gen, attached, registered, completed,
                 mine>>

\* remove_peer: the condition, then the decrement.
SubRemoveGeneration(s) ==
  /\ pc[s] = "remove?"
  /\ GoTo(s, IF attached[s] = generation THEN "remove" ELSE "release")
  /\ UNCHANGED <<control, segment, pubVars, after, gen, attached, registered,
                 completed, mine, conn>>

SubRemove(s) ==
  /\ pc[s] = "remove"
  /\ peers' = IF peers > 0 THEN peers - 1 ELSE 0
  /\ GoTo(s, "release")
  /\ UNCHANGED <<state, generation, slot, segment, pubVars, after, gen,
                 attached, registered, completed, mine, conn>>

\* release_peer_slot, whoever has the slot by now.
SubRelease(s) ==
  /\ pc[s] = "release"
  /\ slot' = [i \in Slots |-> IF i = mine[s] THEN Free ELSE slot[i]]
  /\ mine' = [mine EXCEPT ![s] = 0]
  /\ registered' = [registered EXCEPT ![s] = FALSE]
  /\ after' = [after EXCEPT ![s] = "top"]
  /\ GoTo(s, after[s])
  /\ UNCHANGED <<state, generation, peers, segment, pubVars, gen, attached,
                 completed, conn>>

\* The loop ends: ~shm_sub_ipc.
SubStop(s) ==
  /\ pc[s] = "top"
  /\ after' = [after EXCEPT ![s] = "exit"]
  /\ GoTo(s, IF registered[s] THEN "remove?" ELSE "release")
  /\ UNCHANGED <<control, segment, pubVars, gen, attached, registered,
                 completed, mine, conn>>

\* The memory of the process is gone.
Forget(s) ==
  /\ after' = [after EXCEPT ![s] = "top"]
  /\ gen' = [gen EXCEPT ![s] = 0]
  /\ attached' = [attached EXCEPT ![s] = 0]
  /\ registered' = [registered EXCEPT ![s] = FALSE]
  /\ completed' = [completed EXCEPT ![s] = FALSE]
  /\ mine' = [mine EXCEPT ![s] = 0]
  /\ conn' = [conn EXCEPT ![s] = NoConn]

SubExit(s) ==
  /\ pc[s] = "exit"
  /\ DisconnectBit(s)
  /\ Forget(s)
  /\ GoTo(s, "gone")
  /\ UNCHANGED <<control, pubVars>>

\* The process dies.
SubCrash(s) ==
  /\ Alive(s)
  /\ \/ StaleCrash
     \/ mine[s] = 0
     \/ attached[s] = generation /\ ppc # "bump"
  /\ GoTo(s, "gone")
  /\ Forget(s)
  /\ UNCHANGED <<control, segment, pubVars>>
-----------------------------------------------------------------------------
PubStep == \/ PubDrain \/ PubWipe \/ PubBump \/ PubClear \/ PubRoute \/ PubReady
           \/ PubReap \/ PubLeave

SubStep(s) ==
  \/ SubReadGeneration(s) \/ SubReadState(s) \/ SubClose(s) \/ SubOpen(s)
  \/ SubAddGeneration(s) \/ SubAddReady(s) \/ SubAdd(s) \/ SubFail(s)
  \/ SubAcquire(s) \/ SubFill(s) \/ SubDrop(s) \/ SubRemoveGeneration(s)
  \/ SubRemove(s) \/ SubRelease(s) \/ SubExit(s)

Next ==
  \/ PubStep \/ PubStart \/ PubCollect \/ PubStop \/ PubCrash
  \/ \E s \in Subs : SubStep(s) \/ SubStart(s)
  \/ \E s \in Mortal : SubStop(s) \/ SubCrash(s)

Spec == Init /\ [][Next]_vars

\* Threads that live are scheduled.  Nobody has to start, to stop or to die, and
\* a silent slot need not be collected.
FairSpec == Spec /\ WF_vars(PubStep) /\ \A s \in Subs : WF_vars(SubStep(s))
-----------------------------------------------------------------------------
(***************************************************************************)
(* Properties.                                                             *)
(***************************************************************************)

\* The values of the variables.
TypeOK ==
  /\ state \in States /\ generation \in 0..MaxGen /\ peers \in Nat
  /\ slot \in [Slots -> [used : BOOLEAN, cc : Bits \cup {0}]]
  /\ name \in Segs \cup {0} /\ segs \in Segs \cup {0}
  /\ refs \in [Segs -> Int] /\ cc \in [Segs -> SUBSET Bits]
  /\ ppc \in PubPC /\ pseg \in Segs \cup {0} /\ stale \in SUBSET Bits
  /\ pc \in [Subs -> SubPC] /\ after \in [Subs -> {"close", "top", "exit"}]
  /\ gen \in [Subs -> 0..MaxGen] /\ attached \in [Subs -> 0..MaxGen]
  /\ registered \in [Subs -> BOOLEAN] /\ completed \in [Subs -> BOOLEAN]
  /\ mine \in [Subs -> Slots \cup {0}]
  /\ conn \in [Subs -> [seg : Segs \cup {0}, bit : Bits \cup {0}]]

\* sub_handshake has nothing left to do for s: it takes itself for attached to
\* the publisher of this generation.
Content(s) ==
  /\ pc[s] = "top"
  /\ completed[s] /\ attached[s] = generation

\* A subscriber that takes itself for attached reads the segment the publisher
\* writes, whatever was rebuilt, stopped or died while it attached.
AttachedToPublisher ==
  Serving => \A s \in Subs : Content(s) => conn[s].seg = pseg

\* collect_stale_peers and disconnect_receivers take the bit of the dead only: a
\* living subscriber keeps the bit it was given, and has it for itself.
LivingKeepTheirBit ==
  \A s \in Subs : Alive(s) /\ conn[s].bit # 0 =>
    /\ conn[s].bit \in cc[conn[s].seg]
    /\ \A t \in Subs \ {s} : Alive(t) => conn[t] # conn[s]

\* A subscriber that stays ends up connected to a publisher that stays, after any
\* number of restarts and whatever other subscribers do.
SubscriberRecovers ==
  \A s \in Subs \ Mortal :
    <>[](Serving /\ Alive(s)) =>
      <>[](/\ completed[s] /\ conn[s].bit # 0 /\ conn[s].seg = pseg
           /\ conn[s].bit \in cc[conn[s].seg])
=============================================================================

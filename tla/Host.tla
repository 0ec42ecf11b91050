-------------------------------- MODULE Host --------------------------------
(***************************************************************************)
(* What dzIPC keeps on a host beside its shared memory: the ways a message *)
(* takes to the subscribers of its topic (TopicDelivery), the table of     *)
(* endpoints all processes share (InfoPool) and the UDP sockets (UdpNode). *)
(* They share no state.                                                    *)
(***************************************************************************)
EXTENDS TopicDelivery

CONSTANTS
    Procs, NSlots, MaxPids,                                 \* of InfoPool
    Nodes, GroupOf, PortOf, SendOnly, RcvBuf, Tm, IntrLimit, AgainLimit, ForeverLimit,
    MaxSends, MaxConnects                                   \* of UdpNode

VARIABLES
    init, mtx, entry, nextPid, alive, pid, ipc, ready, slot, idx, seen, gc,
    sockets, server_fd, npc, left, errs, got, sends, connects

I == INSTANCE InfoPool WITH pc <- ipc
N == INSTANCE UdpNode WITH pc <- npc

\* The table has a size; nodes are finitely many, a group is an address of its own.
ASSUME HostAssumption ==
    /\ NSlots \in Nat /\ MaxPids \in Nat
    /\ IsFiniteSet(Nodes) /\ MaxConnects \in Nat
    /\ \A x \in Nodes : GroupOf[x] \notin {N!Unbound, N!AnyAddress}

poolVars == <<init, mtx, entry, nextPid, alive, pid, ipc, ready, slot, idx, seen, gc>>
nodeVars == <<sockets, server_fd, npc, left, errs, got, sends, connects>>
-----------------------------------------------------------------------------
\* A living process keeps the slot it registered, and a snapshot is the table at
\* one moment, whoever dies with the mutex or half way through a call.
PoolTellsTheTruth == I!LivingListed /\ I!SnapshotExact

\* No failed connect leaves a socket open, and a node receives what was sent to
\* its own group.
NodeSocketsInOrder == N!NoSocketLeaks /\ N!OwnGroupOnly
=============================================================================

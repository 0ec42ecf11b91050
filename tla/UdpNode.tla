------------------------------ MODULE UdpNode ------------------------------
(***************************************************************************)
(* The UDP nodes of one host (libipc/platform/posix/udp.h): connect with   *)
(* its error paths, send, the three ways to receive, close and             *)
(* clear_cache.  Each node is used by one thread at a time.  The kernel is *)
(* external: a table of sockets, each with the group address it is bound   *)
(* to, its membership and its receive queue.                               *)
(*                                                                         *)
(* Time is counted in ticks of the timed receive; select and recvfrom may  *)
(* be interrupted at any moment and any number of times.                   *)
(***************************************************************************)
EXTENDS Integers, Sequences, FiniteSets

CONSTANTS
    Nodes,
    GroupOf,        \* node -> its multicast group (ip)
    PortOf,         \* node -> its port
    SendOnly,       \* the nodes whose role is SendOnly
    RcvBuf,         \* datagrams a receive queue holds
    Tm,             \* ticks of a timed receive
    IntrLimit,      \* interrupted selects after which receive gives up (5)
    AgainLimit,     \* failed reads after which a timed receive gives up (10)
    ForeverLimit,   \* interrupted reads after which an endless one does (100)
    MaxSends,       \* bound: datagrams sent
    MaxConnects     \* bound: calls of connect

VARIABLES
    sockets,    \* kernel: fd -> [bound, member, queue] of the open sockets
    server_fd,  \* node -> its socket, or -1
    pc,         \* node -> "idle", "opened", "bound", "select", "read", "forever"
    left,       \* node -> ticks until the timed receive is over
    errs,       \* node -> err_cnt, of interrupted selects and failed reads
    got,        \* node -> what the latest receive returned
    sends, connects

vars == <<sockets, server_fd, pc, left, errs, got, sends, connects>>
calls == <<left, errs, got>>

NoFd == -1
Unbound == "unbound"
AnyAddress == "any"
Nothing == [group |-> Unbound, port |-> 0, from |-> "nobody"]

joins_group(n) == n \notin SendOnly
IsOpen(n) == server_fd[n] # NoFd

Init ==
    /\ sockets = [f \in {} |-> 0]
    /\ server_fd = [n \in Nodes |-> NoFd]
    /\ pc = [n \in Nodes |-> "idle"]
    /\ left = [n \in Nodes |-> 0] /\ errs = [n \in Nodes |-> 0]
    /\ got = [n \in Nodes |-> Nothing]
    /\ sends = 0 /\ connects = 0
-----------------------------------------------------------------------------
(* The kernel.                                                              *)

Fds == 0 .. Cardinality(Nodes) * (MaxConnects + 1)
FreeFd(used) == CHOOSE f \in Fds \ used : \A g \in Fds \ used : f <= g

Without(f) == [g \in DOMAIN sockets \ {f} |-> sockets[g]]

\* A socket gets what is sent to its port and to the address it is bound to; one
\* bound to any address gets every group some socket of the host has joined.
Reaches(d, s) ==
    /\ s.port = d.port
    /\ \/ s.bound = d.group /\ s.member
       \/ s.bound = AnyAddress /\ \E f \in DOMAIN sockets : sockets[f].member /\ sockets[f].group = d.group

Delivered(d) ==
    [f \in DOMAIN sockets |->
        IF Reaches(d, sockets[f]) /\ Len(sockets[f].queue) < RcvBuf
        THEN [sockets[f] EXCEPT !.queue = Append(@, d)] ELSE sockets[f]]
-----------------------------------------------------------------------------
(* connect: an open node is closed first; every failure closes the socket.  *)

ConnectOpen(n) ==
    /\ pc[n] = "idle" /\ connects < MaxConnects
    /\ connects' = connects + 1
    /\ LET rest == IF IsOpen(n) THEN Without(server_fd[n]) ELSE sockets
           new == FreeFd(DOMAIN rest)
       IN  \/ /\ sockets' = [g \in DOMAIN rest \cup {new} |->
                    IF g = new THEN [bound |-> Unbound, member |-> FALSE, group |-> GroupOf[n],
                                     port |-> PortOf[n], queue |-> <<>>]
                    ELSE rest[g]]
              /\ server_fd' = [server_fd EXCEPT ![n] = new]
              /\ pc' = [pc EXCEPT ![n] = "opened"]
           \/ /\ sockets' = rest                           \* socket() failed
              /\ server_fd' = [server_fd EXCEPT ![n] = NoFd]
              /\ UNCHANGED pc
    /\ UNCHANGED <<calls, sends>>

\* Mutant: a connect that fails returns at once.
GivesUpOpen(n) ==
    /\ UNCHANGED sockets
    /\ server_fd' = [server_fd EXCEPT ![n] = NoFd]
    /\ pc' = [pc EXCEPT ![n] = "idle"]
    /\ UNCHANGED <<calls, sends, connects>>

GivesUp(n) ==
    /\ sockets' = Without(server_fd[n])
    /\ server_fd' = [server_fd EXCEPT ![n] = NoFd]
    /\ pc' = [pc EXCEPT ![n] = "idle"]
    /\ UNCHANGED <<calls, sends, connects>>

\* The node binds the group's address, not INADDR_ANY.
BindsTo(n) == GroupOf[n]

Bind(n) ==
    /\ pc[n] = "opened" /\ joins_group(n)
    /\ \/ GivesUp(n)                                       \* inet_pton or bind failed
       \/ /\ sockets' = [sockets EXCEPT ![server_fd[n]].bound = BindsTo(n)]
          /\ pc' = [pc EXCEPT ![n] = "bound"]
          /\ UNCHANGED <<server_fd, calls, sends, connects>>

Join(n) ==
    /\ pc[n] = "bound"
    /\ \/ GivesUp(n)                                       \* IP_ADD_MEMBERSHIP failed
       \/ /\ sockets' = [sockets EXCEPT ![server_fd[n]].member = TRUE]
          /\ pc' = [pc EXCEPT ![n] = "idle"]
          /\ UNCHANGED <<server_fd, calls, sends, connects>>

\* A node that only sends neither binds nor joins, but has its address checked.
ProbeAddress(n) ==
    /\ pc[n] = "opened" /\ ~joins_group(n)
    /\ \/ GivesUp(n)                                       \* inet_pton failed
       \/ /\ pc' = [pc EXCEPT ![n] = "idle"]
          /\ UNCHANGED <<sockets, server_fd, calls, sends, connects>>

Close(n) ==
    /\ pc[n] = "idle" /\ IsOpen(n)
    /\ sockets' = Without(server_fd[n])
    /\ server_fd' = [server_fd EXCEPT ![n] = NoFd]
    /\ UNCHANGED <<pc, calls, sends, connects>>

clear_cache(n) ==
    /\ pc[n] = "idle" /\ IsOpen(n)
    /\ sockets' = [sockets EXCEPT ![server_fd[n]].queue = <<>>]
    /\ UNCHANGED <<server_fd, pc, calls, sends, connects>>

Send(n) ==
    /\ pc[n] = "idle" /\ IsOpen(n) /\ sends < MaxSends
    /\ sends' = sends + 1
    /\ sockets' = Delivered([group |-> GroupOf[n], port |-> PortOf[n], from |-> n])
    /\ UNCHANGED <<server_fd, pc, calls, connects>>
-----------------------------------------------------------------------------
(* receive                                                                  *)

Returns(n, d) ==
    /\ got' = [got EXCEPT ![n] = d]
    /\ pc' = [pc EXCEPT ![n] = "idle"]
    /\ UNCHANGED <<server_fd, left, sends, connects>>

Receives(n) == IsOpen(n) /\ joins_group(n)

Queue(n) == sockets[server_fd[n]].queue
TakeHead(n) ==
    /\ Returns(n, Head(Queue(n)))
    /\ sockets' = [sockets EXCEPT ![server_fd[n]].queue = Tail(@)]
    /\ UNCHANGED errs

receive_nowait(n) ==
    /\ pc[n] = "idle"
    /\ IF Receives(n) /\ Queue(n) # <<>>
       THEN TakeHead(n)
       ELSE Returns(n, Nothing) /\ UNCHANGED <<sockets, errs>>

ReceiveBegin(n) ==
    /\ pc[n] = "idle" /\ Receives(n)
    /\ \/ pc' = [pc EXCEPT ![n] = "select"] /\ left' = [left EXCEPT ![n] = Tm]
       \/ pc' = [pc EXCEPT ![n] = "forever"] /\ UNCHANGED left
    /\ errs' = [errs EXCEPT ![n] = 0]
    /\ got' = [got EXCEPT ![n] = Nothing]
    /\ UNCHANGED <<sockets, server_fd, sends, connects>>

\* tm == invalid_value: recvfrom blocks.
ForeverRead(n) ==
    /\ pc[n] = "forever" /\ Queue(n) # <<>>
    /\ TakeHead(n)

ForeverInterrupted(n) ==
    /\ pc[n] = "forever"
    /\ errs' = [errs EXCEPT ![n] = @ + 1]
    /\ UNCHANGED sockets
    /\ IF errs[n] + 1 >= ForeverLimit
       THEN Returns(n, Nothing)
       ELSE UNCHANGED <<server_fd, pc, left, got, sends, connects>>

SelectReady(n) ==
    /\ pc[n] = "select" /\ Queue(n) # <<>>
    /\ pc' = [pc EXCEPT ![n] = "read"]
    /\ UNCHANGED <<sockets, server_fd, calls, sends, connects>>

SelectTimeout(n) ==
    /\ pc[n] = "select"
    /\ Returns(n, Nothing) /\ UNCHANGED <<sockets, errs>>

\* refresh_time: what is left of tm; nothing left ends the call.
Refresh(n, e) ==
    /\ errs' = [errs EXCEPT ![n] = e]
    /\ UNCHANGED sockets
    /\ \E l \in 0 .. left[n] :
          IF l = 0
          THEN Returns(n, Nothing)
          ELSE /\ left' = [left EXCEPT ![n] = l]
               /\ pc' = [pc EXCEPT ![n] = "select"]
               /\ UNCHANGED <<server_fd, got, sends, connects>>

Counted(e) == e + 1

SelectInterrupted(n) ==
    /\ pc[n] = "select"
    /\ IF Counted(errs[n]) < IntrLimit
       THEN Refresh(n, Counted(errs[n]))
       ELSE Returns(n, Nothing) /\ UNCHANGED <<sockets, errs>>

ReadOk(n) == pc[n] = "read" /\ Queue(n) # <<>> /\ TakeHead(n)

\* recvfrom finds nothing (the kernel dropped it) or is interrupted.
ReadAgain(n) ==
    /\ pc[n] = "read"
    /\ IF Counted(errs[n]) < AgainLimit
       THEN Refresh(n, Counted(errs[n]))
       ELSE Returns(n, Nothing) /\ UNCHANGED <<sockets, errs>>
-----------------------------------------------------------------------------
Receiving(n) ==
    \/ ForeverRead(n) \/ ForeverInterrupted(n)
    \/ SelectReady(n) \/ SelectTimeout(n) \/ SelectInterrupted(n)
    \/ ReadOk(n) \/ ReadAgain(n)

Connecting(n) == Bind(n) \/ Join(n) \/ ProbeAddress(n)

Next == \E n \in Nodes :
    \/ ConnectOpen(n) \/ Connecting(n) \/ Close(n) \/ clear_cache(n)
    \/ Send(n) \/ receive_nowait(n) \/ ReceiveBegin(n) \/ Receiving(n)

(* A call goes on: select and recvfrom return, with or without an error.    *)
Fairness == \A n \in Nodes : WF_vars(Receiving(n)) /\ WF_vars(Connecting(n))

Spec == Init /\ [][Next]_vars /\ Fairness
-----------------------------------------------------------------------------
\* Type invariant: a call that waits has an open socket, and time left.
TypeOK ==
    /\ \A f \in DOMAIN sockets : Len(sockets[f].queue) <= RcvBuf
    /\ \A n \in Nodes :
          /\ server_fd[n] \in DOMAIN sockets \cup {NoFd}
          /\ pc[n] # "idle" => IsOpen(n)
          /\ pc[n] \in {"select", "read"} => left[n] \in 1 .. Tm

(* Every socket the kernel has open belongs to exactly one node, however    *)
(* often connect failed half way (udp.h 128-233).                           *)
NoSocketLeaks ==
    /\ \A f \in DOMAIN sockets : \E n \in Nodes : server_fd[n] = f
    /\ \A n, m \in Nodes : IsOpen(n) /\ server_fd[n] = server_fd[m] => n = m

(* Topics that share a port do not hear each other (udp.h 166-174), and a   *)
(* node that only sends hears nothing, its own datagrams least of all.      *)
OwnGroupOnly ==
    \A n \in Nodes :
        got[n] # Nothing =>
            /\ got[n].group = GroupOf[n] /\ got[n].port = PortOf[n]
            /\ n \notin SendOnly

(* A timed receive comes back, however often it is interrupted (err_cnt).   *)
ReceiveReturns == \A n \in Nodes : pc[n] \in {"select", "read"} ~> pc[n] = "idle"
=============================================================================

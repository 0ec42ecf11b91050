------------------------------ MODULE AutoPath ------------------------------
(***************************************************************************)
(* A service whose transport chooses itself (auto_ser_cli_ipc.cc) over the *)
(* UDP service it starts on (socket_ser_cli_ipc.cc): one server process    *)
(* "ser" and one client process "cli" on one host, each with               *)
(*   - a handshake thread, the only judge of whether the peer is there,    *)
(*     whose frames carry a path signal;                                   *)
(*   - a supervisor thread that, once per connection, tries to move the    *)
(*     calls to a shared-memory leg and falls back to the socket leg;      *)
(*   - the data plane of the socket leg, stopped while the leg is in use.  *)
(*                                                                         *)
(* One turn of a handshake loop (send a frame, receive one) is one step:   *)
(* what happens between the two halves commutes with one of them.  A       *)
(* direction keeps the newest frame only, which loses the older ones as    *)
(* UDP may.  The shared-memory leg is seen through the two predicates the  *)
(* supervisors use, its handshake_completed on either side (ShmService     *)
(* models the leg itself).                                                 *)
(***************************************************************************)
EXTENDS Naturals, FiniteSets

CONSTANTS
    MaxFaults,      \* exits, crashes, bursts of loss, failed builds
    OrphanMet       \* may a client meet the plane a crashed server left Ready

Sides == {"ser", "cli"}

Peer(s) == IF s = "ser" THEN "cli" ELSE "ser"

(***************************************************************************)
(* PathState of the frame, udp_id_init_msg.hpp: 0 nothing proposed,        *)
(* 1 ProposeShm, 2 ConfirmShm, 4 .. 8 withdrawals by reason.               *)
(***************************************************************************)
ProposeShm == 1
ConfirmShm == 2
WithdrawToSocket == 4
ChannelOccupied == 5

EstablishFailed == 6
RendezvousTimeout == 7
RuntimeDisconnect == 8
Signals == {0, 1, 2, 4, 5, 6, 7, 8}

(* peek_path_state's readers: decode_peer_withdraw knows 4 .. 8 *)
IsWithdraw(g) == g \in 4 .. 8

Nothing == [sig |-> 0, run |-> FALSE, here |-> FALSE]
Frame(g, r) == [sig |-> g, run |-> r, here |-> TRUE]

VARIABLES
    alive,      \* is the process of the side up
    done,       \* handshake_completed_: the loop is in StopHS
    seen,       \* peer_post_hs_seen
    fresh,      \* last_peer_frame is younger than kPeerSilentTimeoutNs
    inbox,      \* newest unread frame of the peer
    echo,       \* the client's own frame, looped back and unread
    sig,        \* hs_path_signal_, what the side announces
    psig,       \* the client's peer_path_signal_ (the server's has no reader)
    sup,        \* where the supervisor is
    attempted,  \* attempted_this_connection
    useShm,     \* use_shm_
    dp,         \* data_plane_running_ of the socket leg
    sleg,       \* the server's shared-memory leg: none, up, or left by a crash
    speer,      \* peer_count of that leg's control plane
    cleg,       \* the client's leg: none, wait, attached, or stale (an old one)
    req,        \* the call under way: none, or the leg it was written to
    faults

hsVars == <<done, seen, fresh, inbox, echo, psig>>
legVars == <<sleg, speer, cleg>>
supVars == <<sig, sup, attempted, useShm, dp>>
vars == <<alive, hsVars, supVars, legVars, req, faults>>

Init ==
    /\ alive = [s \in Sides |-> FALSE]
    /\ done = [s \in Sides |-> FALSE]
    /\ seen = [s \in Sides |-> FALSE]
    /\ fresh = [s \in Sides |-> FALSE]
    /\ inbox = [s \in Sides |-> Nothing]
    /\ echo = Nothing
    /\ sig = [s \in Sides |-> 0]
    /\ psig = 0
    /\ sup = [s \in Sides |-> "off"]
    /\ attempted = [s \in Sides |-> FALSE]
    /\ useShm = [s \in Sides |-> FALSE]
    /\ dp = [s \in Sides |-> FALSE]
    /\ sleg = "none"
    /\ speer = 0
    /\ cleg = "none"
    /\ req = "none"
    /\ faults = 0

Fault == faults < MaxFaults /\ faults' = faults + 1

-----------------------------------------------------------------------------
(* The handshake threads *)

(* A frame reaches the peer when its handshake node is open *)
Deliver(s, f) == inbox' = [inbox EXCEPT ![Peer(s)] = IF alive[Peer(s)] THEN f ELSE @,
                                       ![s] = Nothing]

(* A turn in StopHS that read no frame of the peer: silence ends the       *)
(* connection, but only once the peer was heard after a handshake.         *)
Hush(s) ==
    LET gone == seen[s] /\ ~fresh[s]
    IN  /\ done' = [done EXCEPT ![s] = ~gone]
        /\ seen' = [seen EXCEPT ![s] = @ /\ ~gone]
        /\ UNCHANGED <<fresh, psig>>

(* A turn in StopHS that read a frame of the peer: run_status ends it *)
Hear(s, f) ==
    /\ seen' = [seen EXCEPT ![s] = TRUE]
    /\ fresh' = [fresh EXCEPT ![s] = TRUE]
    /\ psig' = IF s = "cli" THEN f.sig ELSE psig
    /\ done' = [done EXCEPT ![s] = f.run]

(* server_handshake: sends in both states, completes on a client's frame *)
ServerHandshake ==
    LET f == inbox["ser"]
    IN  /\ alive["ser"]
        /\ Deliver("ser", Frame(sig["ser"], TRUE))
        /\ \/ /\ ~done["ser"]
              /\ done' = [done EXCEPT !["ser"] = f.here /\ f.run]
              /\ UNCHANGED <<seen, fresh, psig>>
           \/ /\ done["ser"] /\ ~f.here
              /\ Hush("ser")
           \/ /\ done["ser"] /\ f.here
              /\ Hear("ser", f)
        /\ UNCHANGED <<alive, echo, supVars, legVars, req, faults>>

(* client_handshake in RunHS: any frame leaves its signal, the client's    *)
(* own looped back one too; a server's frame is answered.                  *)
ClientEcho ==
    /\ alive["cli"] /\ ~done["cli"] /\ echo.here
    /\ psig' = echo.sig
    /\ echo' = Nothing
    /\ UNCHANGED <<alive, done, seen, fresh, inbox, supVars, legVars, req, faults>>

ClientAnswer ==
    LET f == inbox["cli"]
    IN  /\ alive["cli"] /\ ~done["cli"] /\ f.here
        /\ psig' = f.sig
        /\ done' = [done EXCEPT !["cli"] = f.run]
        /\ IF f.run
           THEN Deliver("cli", Frame(sig["cli"], TRUE)) /\ echo' = Frame(sig["cli"], TRUE)
           ELSE inbox' = [inbox EXCEPT !["cli"] = Nothing] /\ UNCHANGED echo
        /\ UNCHANGED <<alive, seen, fresh, supVars, legVars, req, faults>>

(* Ten sends failed: the handshake does not count as completed *)
ClientAnswerFails ==
    LET f == inbox["cli"]
    IN  /\ Fault
        /\ alive["cli"] /\ ~done["cli"] /\ f.here /\ f.run
        /\ psig' = f.sig
        /\ inbox' = [inbox EXCEPT !["cli"] = Nothing]
        /\ UNCHANGED <<alive, done, seen, fresh, echo, supVars, legVars, req>>

(* client_handshake in StopHS *)
ClientHandshake ==
    LET f == inbox["cli"]
    IN  /\ alive["cli"] /\ done["cli"]
        /\ Deliver("cli", Frame(sig["cli"], TRUE))
        /\ echo' = Frame(sig["cli"], TRUE)
        /\ IF f.here THEN Hear("cli", f) ELSE Hush("cli")
        /\ UNCHANGED <<alive, supVars, legVars, req, faults>>

(* 1.5 s pass since the last frame of the peer: while the side is in       *)
(* RunHS, because the peer is gone, or because a burst of frames was lost  *)
Age(s) ==
    /\ fresh[s]
    /\ \/ alive[s] /\ ~done[s] /\ UNCHANGED <<inbox, faults>>
       \/ ~alive[Peer(s)] /\ ~inbox[s].here /\ UNCHANGED <<inbox, faults>>
       \/ /\ Fault
          /\ inbox' = [inbox EXCEPT ![s] = Nothing]
    /\ fresh' = [fresh EXCEPT ![s] = FALSE]
    /\ UNCHANGED <<alive, done, seen, echo, psig, supVars, legVars, req>>

-----------------------------------------------------------------------------
(* The shared-memory leg *)

(* The client's leg finds a Ready control plane and counts itself in; the  *)
(* plane of a crashed server is still Ready                                *)
LegAttach ==
    /\ alive["cli"] /\ cleg = "wait"
    /\ sleg = "up" \/ (OrphanMet /\ sleg = "orphan")
    /\ cleg' = "attached"
    /\ speer' = speer + 1
    /\ UNCHANGED <<alive, hsVars, supVars, sleg, req, faults>>

(* The client's leg sees Stopping, or a newer generation *)
LegDrop ==
    /\ cleg = "stale"
    /\ cleg' = "wait"
    /\ UNCHANGED <<alive, hsVars, supVars, sleg, speer, req, faults>>

(***************************************************************************)
(* shm_leg_.reset() on either side.  remove_peer counts the client out     *)
(* only of the generation it attached to.  Nothing else lowers the count   *)
(* within a generation: the server's collection of a client that stopped   *)
(* beating frees its slot and its receiver bits, not its place in          *)
(* peer_count, so a leg whose client crashed stays "attached" for the      *)
(* server's supervisor.                                                    *)
(***************************************************************************)
ServerLegReset ==
    /\ sleg' = IF sleg = "up" THEN "none" ELSE sleg
    /\ speer' = IF sleg = "up" THEN 0 ELSE speer
    /\ cleg' = IF sleg = "up" /\ cleg = "attached" THEN "stale" ELSE cleg

ClientLegReset ==
    /\ cleg' = "none"
    /\ speer' = IF cleg = "attached" /\ speer > 0 THEN speer - 1 ELSE speer
    /\ UNCHANGED sleg

ServerLegOk == sleg = "up" /\ speer > 0

(* Mutant: a leg that exists is taken for one that is attached *)
ClientLegOkBuilt == cleg # "none"

ClientLegOk == cleg \in {"attached", "stale"}

-----------------------------------------------------------------------------
(* The server's supervisor *)

(* open_data_plane of the two sides: the four nodes of requests, responses *)
(* and their acknowledgements, then the flag                               *)
ServerOpenPlane == dp' = [dp EXCEPT !["ser"] = TRUE]
ClientOpenPlane == dp' = [dp EXCEPT !["cli"] = TRUE]

(* stop_data_plane: the server's response thread ends before the nodes are *)
(* closed; the handshake goes on                                           *)
ServerStopPlane == dp' = [dp EXCEPT !["ser"] = FALSE]
ClientStopPlane == dp' = [dp EXCEPT !["cli"] = FALSE]

(* restart_data_plane is idempotent *)
ServerRestartPlane == IF dp["ser"] THEN UNCHANGED dp ELSE ServerOpenPlane
ClientRestartPlane == IF dp["cli"] THEN UNCHANGED dp ELSE ClientOpenPlane

SupStep(s, from, to) == alive[s] /\ sup[s] = from /\ sup' = [sup EXCEPT ![s] = to]

Announce(s, g) == sig' = [sig EXCEPT ![s] = g]

(* Mutant: the data plane is not started again *)
ServerWithdrawNoRestart(g) ==
    /\ ServerLegReset
    /\ Announce("ser", g)
    /\ useShm' = [useShm EXCEPT !["ser"] = FALSE]
    /\ UNCHANGED dp

(* auto_ser_ipc::withdraw_to_socket, under leg_mtx_ *)
ServerWithdraw(g) ==
    /\ ServerLegReset
    /\ ServerRestartPlane
    /\ Announce("ser", g)
    /\ useShm' = [useShm EXCEPT !["ser"] = FALSE]

(* find_peer: the peer registered its socket leg and its process lives *)
Evidence(s) == alive[Peer(s)]

(* shm_channel_occupied: another process of the host has a leg on the      *)
(* channel, the client's own leg of the connection before included         *)
Occupied == cleg # "none"

ServerNoEvidence ==
    /\ SupStep("ser", "probe", "active") /\ done["ser"]
    /\ ~Evidence("ser")
    /\ UNCHANGED <<alive, hsVars, sig, attempted, useShm, dp, legVars, req, faults>>

ServerOccupied ==
    /\ SupStep("ser", "probe", "active") /\ done["ser"]
    /\ Evidence("ser") /\ Occupied
    /\ attempted' = [attempted EXCEPT !["ser"] = TRUE]
    /\ Announce("ser", ChannelOccupied)
    /\ UNCHANGED <<alive, hsVars, useShm, dp, legVars, req, faults>>

ServerPropose ==
    /\ SupStep("ser", "probe", "build") /\ done["ser"]
    /\ Evidence("ser") /\ ~Occupied
    /\ attempted' = [attempted EXCEPT !["ser"] = TRUE]
    /\ Announce("ser", ProposeShm)
    /\ UNCHANGED <<alive, hsVars, useShm, dp, legVars, req, faults>>

(* The leg clears the storage of an older one and becomes Ready *)
ServerBuild ==
    /\ SupStep("ser", "build", "establish")
    /\ sleg' = "up"
    /\ speer' = 0
    /\ cleg' = IF cleg = "attached" THEN "stale" ELSE cleg
    /\ UNCHANGED <<alive, hsVars, sig, attempted, useShm, dp, req, faults>>

(* InitChannel of the leg throws: before the plane is opened, or after     *)
(* begin_rebuild, which leaves the plane not Ready                         *)
ServerBuildFails ==
    /\ Fault
    /\ SupStep("ser", "build", "active")
    /\ \/ (OrphanMet \/ sleg # "orphan") /\ UNCHANGED legVars
       \/ sleg' = "none" /\ speer' = 0
          /\ cleg' = IF cleg = "attached" THEN "stale" ELSE cleg
    /\ Announce("ser", IF done["ser"] THEN EstablishFailed ELSE WithdrawToSocket)
    /\ UNCHANGED <<alive, hsVars, attempted, useShm, dp, req>>

ServerEstablished ==
    /\ SupStep("ser", "establish", "active")
    /\ ServerLegOk
    /\ Announce("ser", ConfirmShm)
    /\ ServerStopPlane
    /\ useShm' = [useShm EXCEPT !["ser"] = TRUE]
    /\ UNCHANGED <<alive, hsVars, attempted, legVars, req, faults>>

(* est_timeout_ms passes, or the handshake is lost *)
ServerGiveUp ==
    /\ SupStep("ser", "establish", "active")
    /\ ServerWithdraw(IF done["ser"] THEN RendezvousTimeout ELSE WithdrawToSocket)
    /\ UNCHANGED <<alive, hsVars, attempted, req, faults>>

ServerLost ==
    /\ SupStep("ser", "active", "probe") /\ ~done["ser"]
    /\ ServerWithdraw(WithdrawToSocket)
    /\ attempted' = [attempted EXCEPT !["ser"] = FALSE]
    /\ UNCHANGED <<alive, hsVars, req, faults>>

ServerLegLost ==
    /\ SupStep("ser", "active", "active") /\ done["ser"]
    /\ useShm["ser"] /\ ~ServerLegOk
    /\ ServerWithdraw(RuntimeDisconnect)
    /\ UNCHANGED <<alive, hsVars, attempted, req, faults>>

-----------------------------------------------------------------------------
(* The client's supervisor; route_mtx_ is held through a call *)

ClientWithdraw ==
    /\ req = "none"
    /\ ClientLegReset
    /\ ClientRestartPlane
    /\ useShm' = [useShm EXCEPT !["cli"] = FALSE]
    /\ UNCHANGED sig

ClientNoEvidence ==
    /\ SupStep("cli", "probe", "active") /\ done["cli"]
    /\ ~Evidence("cli")
    /\ UNCHANGED <<alive, hsVars, sig, attempted, useShm, dp, legVars, req, faults>>

ClientAwait ==
    /\ SupStep("cli", "probe", "wait") /\ done["cli"]
    /\ Evidence("cli")
    /\ attempted' = [attempted EXCEPT !["cli"] = TRUE]
    /\ UNCHANGED <<alive, hsVars, sig, useShm, dp, legVars, req, faults>>

ClientReady ==
    /\ SupStep("cli", "wait", "build")
    /\ psig \in {ProposeShm, ConfirmShm}
    /\ UNCHANGED <<alive, hsVars, sig, attempted, useShm, dp, legVars, req, faults>>

ClientRejected ==
    /\ SupStep("cli", "wait", "active")
    /\ IsWithdraw(psig)
    /\ Announce("cli", WithdrawToSocket)
    /\ UNCHANGED <<alive, hsVars, attempted, useShm, dp, legVars, req, faults>>

(* No verdict within est_timeout_ms, or the handshake is lost *)
ClientAwaitOver ==
    /\ SupStep("cli", "wait", "active")
    /\ psig = 0 \/ ~done["cli"]
    /\ UNCHANGED <<alive, hsVars, sig, attempted, useShm, dp, legVars, req, faults>>

ClientBuild ==
    /\ SupStep("cli", "build", "establish") /\ req = "none"
    /\ cleg' = "wait"
    /\ UNCHANGED <<alive, hsVars, sig, attempted, useShm, dp, sleg, speer, req, faults>>

ClientBuildFails ==
    /\ Fault
    /\ SupStep("cli", "build", "active")
    /\ ClientWithdraw
    /\ UNCHANGED <<alive, hsVars, attempted, req>>

ClientEstablished ==
    /\ SupStep("cli", "establish", "active") /\ req = "none"
    /\ ClientLegOk
    /\ Announce("cli", ConfirmShm)
    /\ ClientStopPlane
    /\ useShm' = [useShm EXCEPT !["cli"] = TRUE]
    /\ UNCHANGED <<alive, hsVars, attempted, legVars, req, faults>>

ClientGiveUp ==
    /\ SupStep("cli", "establish", "active")
    /\ ClientWithdraw
    /\ UNCHANGED <<alive, hsVars, attempted, req, faults>>

ClientLost ==
    /\ SupStep("cli", "active", "probe") /\ ~done["cli"]
    /\ ClientWithdraw
    /\ attempted' = [attempted EXCEPT !["cli"] = FALSE]
    /\ UNCHANGED <<alive, hsVars, req, faults>>

ClientLegLost ==
    /\ SupStep("cli", "active", "active") /\ done["cli"]
    /\ useShm["cli"] /\ ~ClientLegOk
    /\ ClientWithdraw
    /\ UNCHANGED <<alive, hsVars, attempted, req, faults>>

-----------------------------------------------------------------------------
(* A call: auto_cli_ipc::send_request picks the leg under route_mtx_ *)

(* socket_cli_ipc::send_request refuses at once while its plane is stopped *)
(* or its handshake is not complete                                        *)
SocketCallable == dp["cli"] /\ done["cli"]

CallBegin ==
    /\ alive["cli"] /\ req = "none"
    /\ \/ useShm["cli"] /\ ClientLegOk /\ req' = "shm"
       \/ ~useShm["cli"] /\ SocketCallable /\ req' = "socket"
    /\ UNCHANGED <<alive, hsVars, supVars, legVars, faults>>

(* Answered by the response thread of that leg, or given up after rev_tm *)
CallEnd ==
    /\ req # "none"
    /\ req' = "none"
    /\ UNCHANGED <<alive, hsVars, supVars, legVars, faults>>

-----------------------------------------------------------------------------
(* Processes come and go *)

(* What both InitChannels do, the data plane aside: registration in the    *)
(* pool, handshake thread, supervisor                                      *)
Start(s) ==
    /\ ~alive[s]
    /\ alive' = [alive EXCEPT ![s] = TRUE]
    /\ sup' = [sup EXCEPT ![s] = "probe"]
    /\ UNCHANGED <<hsVars, sig, attempted, useShm, legVars, req, faults>>

ServerStart ==
    /\ \/ OrphanMet \/ sleg # "orphan"
       \/ ~done["cli"] /\ ~inbox["cli"].here /\ sup["cli"] \in {"off", "probe"}
    /\ ServerOpenPlane
    /\ Start("ser")

ClientStart == ClientOpenPlane /\ Start("cli")

Gone(s, bye) ==
    /\ Fault
    /\ alive[s]
    /\ alive' = [alive EXCEPT ![s] = FALSE]
    /\ done' = [done EXCEPT ![s] = FALSE]
    /\ seen' = [seen EXCEPT ![s] = FALSE]
    /\ fresh' = [fresh EXCEPT ![s] = FALSE]
    /\ inbox' = [inbox EXCEPT ![s] = Nothing,
                              ![Peer(s)] = IF bye /\ alive[Peer(s)] THEN Frame(sig[s], FALSE) ELSE @]
    /\ echo' = IF s = "cli" THEN Nothing ELSE echo
    /\ psig' = IF s = "cli" THEN 0 ELSE psig
    /\ sig' = [sig EXCEPT ![s] = 0]
    /\ sup' = [sup EXCEPT ![s] = "off"]
    /\ attempted' = [attempted EXCEPT ![s] = FALSE]
    /\ useShm' = [useShm EXCEPT ![s] = FALSE]
    /\ dp' = [dp EXCEPT ![s] = FALSE]
    /\ req' = IF s = "cli" THEN "none" ELSE req

(* The destructors: the leg goes first, then one last frame says so *)
Leave(s) ==
    /\ s = "cli" => req = "none"
    /\ Gone(s, TRUE)
    /\ IF s = "ser" THEN ServerLegReset ELSE ClientLegReset

(* Nothing is said; a server's control plane stays Ready *)
Crash(s) ==
    /\ Gone(s, FALSE)
    /\ sleg' = IF s = "ser" /\ sleg = "up" THEN "orphan" ELSE sleg
    /\ cleg' = IF s = "cli" THEN "none" ELSE cleg
    /\ UNCHANGED speer

-----------------------------------------------------------------------------
Server ==
    \/ ServerNoEvidence \/ ServerOccupied \/ ServerPropose \/ ServerBuild
    \/ ServerEstablished \/ ServerGiveUp \/ ServerLost \/ ServerLegLost

Client ==
    \/ ClientNoEvidence \/ ClientAwait \/ ClientReady \/ ClientRejected
    \/ ClientAwaitOver \/ ClientBuild \/ ClientEstablished \/ ClientGiveUp
    \/ ClientLost \/ ClientLegLost

Failing == ServerBuildFails \/ ClientBuildFails \/ ClientAnswerFails

Next ==
    \/ ServerHandshake \/ ClientEcho \/ ClientAnswer \/ ClientHandshake
    \/ \E s \in Sides : Age(s) \/ Leave(s) \/ Crash(s)
    \/ ServerStart \/ ClientStart
    \/ LegAttach \/ LegDrop
    \/ Server \/ Client \/ Failing
    \/ CallBegin \/ CallEnd

Spec == Init /\ [][Next]_vars

(* Threads that are up keep running; a process that is down may stay down.  *)
(* Time passes: the peer's silence is noticed once the peer is gone.        *)
Fairness ==
    /\ WF_vars(ServerHandshake) /\ WF_vars(ClientEcho) /\ WF_vars(ClientAnswer)
    /\ WF_vars(ClientHandshake)
    /\ \A s \in Sides : WF_vars(~alive[Peer(s)] /\ alive[s] /\ Age(s))
    /\ WF_vars(LegAttach) /\ WF_vars(LegDrop)
    /\ WF_vars(Server) /\ SF_vars(Client) /\ WF_vars(CallEnd)

FairSpec == Spec /\ Fairness

-----------------------------------------------------------------------------
TypeOK ==
    /\ alive \in [Sides -> BOOLEAN] /\ done \in [Sides -> BOOLEAN]
    /\ seen \in [Sides -> BOOLEAN] /\ fresh \in [Sides -> BOOLEAN]
    /\ inbox \in [Sides -> [sig : Signals, run : BOOLEAN, here : BOOLEAN]]
    /\ echo \in [sig : Signals, run : BOOLEAN, here : BOOLEAN]
    /\ sig \in [Sides -> Signals] /\ psig \in Signals
    /\ sup \in [Sides -> {"off", "probe", "wait", "build", "establish", "active"}]
    /\ attempted \in [Sides -> BOOLEAN] /\ useShm \in [Sides -> BOOLEAN]
    /\ dp \in [Sides -> BOOLEAN]
    /\ sleg \in {"none", "up", "orphan"} /\ speer \in Nat
    /\ cleg \in {"none", "wait", "attached", "stale"}
    /\ req \in {"none", "socket", "shm"}
    /\ faults \in 0 .. MaxFaults

(* A side that is up always has exactly one path for its calls: the socket *)
(* data plane is stopped only when the leg takes over and runs again after *)
(* every withdrawal (auto_ser_cli_ipc.cc, "no moment at which both legs    *)
(* can send").                                                             *)
OnePath == \A s \in Sides : alive[s] => dp[s] # useShm[s]

(* A withdrawal leaves no half-dead leg behind on which the next           *)
(* connection would find the channel occupied: a leg outside an attempt is *)
(* a leg in use (withdraw_to_socket on both sides).                        *)
NoHalfDeadLeg ==
    /\ sleg = "up" => sup["ser"] = "establish" \/ useShm["ser"]
    /\ cleg # "none" => sup["cli"] = "establish" \/ useShm["cli"]

BothUp == \A s \in Sides : alive[s]

(* While both processes stay up, both handshake loops end up connected and *)
(* stay so, whatever frames were lost before (server_handshake and         *)
(* client_handshake keep sending in both states).                          *)
HandshakeRecovers ==
    <>[]BothUp => <>[](\A s \in Sides : done[s])

(* The leg's plane counts a client that crashed: crash, restart and a new  *)
(* handshake took less than the silence timeout, so the server's           *)
(* supervisor saw no connection end and takes its leg for one in use.      *)
Ghost == speer > IF cleg = "attached" THEN 1 ELSE 0

(* While both processes stay up and the server's leg counts no client that *)
(* crashed, the two supervisors, which decide separately and are never     *)
(* told the other's decision in time, do not stay on different paths:      *)
(* requests end up written where they are read.                            *)
PathsAgree ==
    <>[](BothUp /\ ~Ghost)
        => <>[](/\ useShm["ser"] = useShm["cli"]
                /\ useShm["cli"] => cleg = "attached" /\ speer > 0)

(* Stopping the server's socket plane loses no request, because a counted  *)
(* client "is already writing SHM" (auto_ser_cli_ipc.cc:436-438): while    *)
(* both processes stay up, a client that writes to the socket plane ends   *)
(* up with a server that reads it.                                         *)
SocketCallsRead == <>[]BothUp => <>[](dp["cli"] => dp["ser"])

(* The side believes in a connection with a peer that is gone, though it   *)
(* heard the peer after the handshake. *)
Deceived(s) == alive[s] /\ done[s] /\ seen[s] /\ ~alive[Peer(s)]

(* A side that heard its peer after the handshake does not take it for     *)
(* present for ever when the peer is gone for good, even if the peer's     *)
(* last frame was lost (the silence timeout of the two loops).             *)
DeathNoticed == \A s \in Sides : []<>~Deceived(s)
=============================================================================

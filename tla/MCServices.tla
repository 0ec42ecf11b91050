----------------------------- MODULE MCServices -----------------------------
(***************************************************************************)
(* The two services: a behaviour runs one of them, the other stays as it   *)
(* begins.  The fairness a property needs is its hypothesis.               *)
(***************************************************************************)
EXTENDS Services

VARIABLE which

Runs(component) == which = component

mcvars == <<which, vars, autoVars>>

MCInit ==
    /\ which \in {"service", "auto"}
    /\ Init /\ A!Init
    /\ Runs("service") \/ local

\* Bound: the message is changed only where server and client are in one process,
\* where requests still take the rings when IsNodeletEnabled says no.
ResetWithinBound == local \/ resets' = resets

MCNext ==
    \/ Runs("service") /\ Next /\ ResetWithinBound /\ UNCHANGED <<which, autoVars>>
    \/ Runs("auto") /\ A!Next /\ UNCHANGED <<which, vars>>

MCSpec == MCInit /\ [][MCNext]_mcvars

-----------------------------------------------------------------------------
\* A client that stays is served by a server that stays, if no earlier client left its
\* traces on that server's rings.
ServiceClientServed == Fairness => ClientServed

\* A handshake broken by a restart or lost frames is completed again; both sides then
\* come to use one path if the server's leg counts no client that crashed; and the
\* death of a peer that was heard from after the handshake is noticed.
AutoRecovers == A!Fairness => A!HandshakeRecovers /\ A!PathsAgree /\ A!DeathNoticed
=============================================================================

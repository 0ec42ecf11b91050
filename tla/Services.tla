------------------------------ MODULE Services ------------------------------
(***************************************************************************)
(* The services of dzIPC: send_request over shared memory with its fast    *)
(* path (ShmService), and the service that chooses between shared memory   *)
(* and the socket (AutoPath).  They share no state.                        *)
(***************************************************************************)
EXTENDS ShmService

CONSTANTS
    MaxFaults, OrphanMet                                    \* of AutoPath

VARIABLES
    alive, done, seen, fresh, inbox, echo, sig, psig, sup, attempted, useShm, dp,
    sleg, speer, cleg, req, faults

A == INSTANCE AutoPath

autoVars == <<alive, done, seen, fresh, inbox, echo, sig, psig, sup, attempted, useShm,
              dp, sleg, speer, cleg, req, faults>>
-----------------------------------------------------------------------------
\* A side that is up has exactly one path for its calls, and a shared-memory leg
\* outside an attempt is one in use.
AutoOnePath == A!OnePath /\ A!NoHalfDeadLeg
=============================================================================

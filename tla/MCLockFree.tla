----------------------------- MODULE MCLockFree -----------------------------
(***************************************************************************)
(* Small instances of LockFree and Readers.  A behaviour runs one of their *)
(* components, the others stay as they begin.  The fairness a property     *)
(* needs is its hypothesis.                                                *)
(***************************************************************************)
EXTENDS LockFree, Readers

VARIABLE which

Runs(component) == which = component

sharedVars == <<vars, unicastVars, queueVars, lockVars>>
mcvars == <<which, sharedVars, readerVars>>

MCInit ==
    /\ which \in {"channel", "unicast", "queue", "lock", "fragments", "log", "sniffer"}
    /\ Init /\ U!Init /\ Q!Init /\ W!Init /\ G!Init /\ L!Init /\ S!Init
    /\ Runs("unicast") \/ policy = "mm"
    /\ Runs("channel") \/ cc = {}
    /\ Runs("fragments") \/ kind = "route"

SharedNext ==
    /\ \/ Runs("channel") /\ Next /\ UNCHANGED <<unicastVars, queueVars, lockVars>>
       \/ Runs("unicast") /\ U!Next /\ UNCHANGED <<vars, queueVars, lockVars>>
       \/ Runs("queue") /\ Q!Next /\ UNCHANGED <<vars, unicastVars, lockVars>>
       \/ Runs("lock") /\ W!Next /\ UNCHANGED <<vars, unicastVars, queueVars>>
    /\ UNCHANGED <<which, readerVars>>

ReaderNext ==
    /\ \/ Runs("fragments") /\ G!Next /\ UNCHANGED <<logVars, sniffVars>>
       \/ Runs("log") /\ L!Next /\ UNCHANGED <<fragVars, sniffVars>>
       \/ Runs("sniffer") /\ S!Next /\ UNCHANGED <<fragVars, logVars>>
    /\ UNCHANGED <<which, sharedVars>>

MCNext == SharedNext \/ ReaderNext

MCSpec == MCInit /\ [][MCNext]_mcvars
-----------------------------------------------------------------------------
\* A committed element is popped while a consumer stays, whoever moves wt_.
UnicastCommittedArePopped == U!Fairness => U!CommittedArePopped

\* Messages come in order and once.
SnifferInOrderOnce == S!InOrderOnce
=============================================================================

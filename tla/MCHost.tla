------------------------------- MODULE MCHost -------------------------------
(***************************************************************************)
(* Small instances of Host; of the repair of lost pages under a network    *)
(* that is quicker than the windows (ReliableUdp); of the rate at which    *)
(* pages are sent (RateControl); and once more of the queue a subscriber   *)
(* reads from (CircularQueue), for its liveness.  A behaviour runs one of  *)
(* them, the others stay as they begin.  The fairness a property needs is  *)
(* its hypothesis.                                                         *)
(***************************************************************************)
EXTENDS Host, TLC

VARIABLES
    which,
    snd, report, peers, net, ackq, rx, snf, delivered, faults,
    knob, st, msg, healed, strayed,
    enqueuePos, dequeuePos, sequence, data, qpc, pos, out, npush, log, taken

\* a and b listen to different groups on one port, s only sends to a's group.
MCGroupOf == "a" :> "g1" @@ "b" :> "g2" @@ "s" :> "g1"
MCPortOf == [x \in {"a", "b", "s"} |-> 1]

\* No window closes while a datagram that would arrive in it is under way.
U == INSTANCE ReliableUdp WITH
        Receivers <- {"r1"}, Sniffers <- {"s1"}, Departed <- {"d1"}, NMsgs <- 1,
        PageCounts <- {2, 3}, BeHbMinPages <- 2, MaxNackRound <- 5, MaxHbRepeat <- 3,
        FruitlessLimit <- 2, MaxMissingPages <- 1, MaxBitmapBits <- 2, Integrity <- TRUE,
        Modes <- {"Reliable"}, MaxLoss <- 2, MaxRefused <- 1, Reorder <- 2, Timely <- TRUE

R == INSTANCE RateControl WITH
        Limits <- {0, 12}, PageCounts <- {1, 8}, Losses <- {0, 4}, PageBytes <- 1,
        TicksPerSecond <- 10, SubscriberTm <- 5, Slack <- 2, FloorDivisor <- 4,
        StepDivisor <- 4, MinPages <- 8, GateAlpha <- 1, TauDelay <- 1, MaxTauDelay <- 2,
        Scale <- 4

Q == INSTANCE CircularQueue WITH
        Producers <- {"p1", "p2"}, Consumers <- {"c1"}, Capacity <- 2, NPush <- 2,
        Timed <- TRUE, pc <- qpc

Runs(component) == which = component

udpVars == <<snd, report, peers, net, ackq, rx, snf, delivered, faults>>
rateVars == <<knob, st, msg, healed, strayed>>
queueVars == <<enqueuePos, dequeuePos, sequence, data, qpc, pos, out, npush, log, taken>>
mcvars == <<which, vars, poolVars, nodeVars, udpVars, rateVars, queueVars>>

MCInit ==
    /\ which \in {"delivery", "pool", "node", "udp", "rate", "queue"}
    /\ Init /\ I!Init /\ N!Init /\ U!Init /\ R!Init /\ Q!Init
    /\ Runs("delivery") \/ (transport = "shm" /\ schema["r1"] = "same")
    /\ Runs("rate") \/ knob = 0

MCNext ==
    \/ /\ Runs("delivery") /\ Next
       /\ UNCHANGED <<which, poolVars, nodeVars, udpVars, rateVars, queueVars>>
    \/ /\ Runs("pool") /\ I!Next
       /\ UNCHANGED <<which, vars, nodeVars, udpVars, rateVars, queueVars>>
    \/ /\ Runs("node") /\ N!Next
       /\ UNCHANGED <<which, vars, poolVars, udpVars, rateVars, queueVars>>
    \/ /\ Runs("udp") /\ U!Next
       /\ UNCHANGED <<which, vars, poolVars, nodeVars, rateVars, queueVars>>
    \/ /\ Runs("rate") /\ R!Next
       /\ UNCHANGED <<which, vars, poolVars, nodeVars, udpVars, queueVars>>
    \/ /\ Runs("queue") /\ Q!Next
       /\ UNCHANGED <<which, vars, poolVars, nodeVars, udpVars, rateVars>>

MCSpec == MCInit /\ [][MCNext]_mcvars
-----------------------------------------------------------------------------
\* Two lost datagrams and a full socket are made good.
UdpLossRecovered == U!LossRecovered

\* Once the link is healthy the rate climbs back to the limit.
RateRecovers == R!Fairness => R!Recovers

\* Every push and pop comes to an end; what was pushed is popped or dropped for a
\* later push.
QueueIsDrained == Q!Fairness => Q!CallsReturn /\ Q!QueueDrains
=============================================================================

------------------------------ MODULE Readers ------------------------------
(***************************************************************************)
(* Three readers that keep messages for themselves: the cache in which     *)
(* recv puts fragments together (Fragments), the sniffer of a route        *)
(* (Sniffer) and the event log (EventLog).  They share no state.           *)
(***************************************************************************)
EXTENDS Integers, Sequences, FiniteSets

CONSTANTS
    Writers, Sizes, NSends, RingSlots, MaxCache, MaxAge,
    MaxRestarts,                                            \* of Fragments
    Recorders, MaxQueue, MaxChunk, Duration, Metas, Huge, MaxEvents, MaxStarts,
    Failures,                                               \* of EventLog
    Ring, Chunks, MaxSlots, MaxParts, MaxSkips, MaxFails              \* of Sniffer

VARIABLES
    kind, ring, acc, fsending, nsent, cache, delivered, cut, reused, restarts,
    running, queue, chunk, open, bags, rotating, armed, blocked, writer, event, control,
    stamped, clock, starts, accepted, lost, calm,
    swt, slots, slog, wpc, sout, content, busy, owner, srpc, scur, primed, dropped,
    frags, copy, mem, last, seen, failed, joins, from, edged, skips

G == INSTANCE Fragments WITH NMsgs <- NSends, sending <- fsending

L == INSTANCE EventLog

S == INSTANCE Sniffer WITH wt <- swt, log <- slog, out <- sout, rpc <- srpc, cur <- scur

\* A message is at least one fragment, a ring has a size, and the endpoints listed
\* at start() are counted.
ASSUME ReadersAssumption ==
    /\ Sizes \subseteq Nat \ {0} /\ RingSlots \in Nat \ {0}
    /\ Metas \in Nat

fragVars == <<kind, ring, acc, fsending, nsent, cache, delivered, cut, reused, restarts>>
logVars == <<running, queue, chunk, open, bags, rotating, armed, blocked, writer, event,
             control, stamped, clock, starts, accepted, lost, calm>>
sniffVars == <<swt, slots, slog, wpc, sout, content, busy, owner, srpc, scur, primed,
               dropped, frags, copy, mem, last, seen, failed, joins, from, edged, skips>>
readerVars == <<fragVars, logVars, sniffVars>>
-----------------------------------------------------------------------------
\* recv never mixes messages unless one from before a restart is cached under the
\* same id, and returns whole ones unless a fragment was overwritten or collected,
\* though failed sends and restarts leave unfinished ones in the cache.
FragmentsWholeMessages == G!WholeMessages

\* The bags hold every event that was queued, once and in order, through stops,
\* restarts and rotations.
LogNothingLost == L!NothingLost

\* What a call returns is a message, or the end of one the cursor was set into; each
\* half of a large message is its own or a later user's of its chunk, and its own when
\* the chunk was not acquired again; and while dropped() is 0 every whole message
\* passed over has been returned or failed for want of a segment or of memory.
SnifferTellsTheTruth == S!NoWrongBytes /\ S!LargeIsLater /\ S!MissedIsReported
=============================================================================

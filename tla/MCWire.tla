------------------------------- MODULE MCWire -------------------------------
(***************************************************************************)
(* Messages on their way: the protocol that carries their pages over UDP,  *)
(* with windows that close early (ReliableUdp), and the two formats they   *)
(* have (PagedMessage, FlatSegment).  A behaviour runs one of them, the    *)
(* others stay as they begin.                                              *)
(***************************************************************************)
EXTENDS ReliableUdp

VARIABLES
    which,
    reader, fields, pc, k, wr, buf, off, out, ok,
    seg, holder, queue, lent, calls, misread, refused

P == INSTANCE PagedMessage WITH
        PageSize <- 7, PageMod <- 6, MaxFields <- 2, MsgId <- 13,
        Names <- {<<10>>, <<10, 11, 10>>, <<>>},
        Texts <- {<<>>, <<1>>, <<4, 5, 6, 7>>}

F == INSTANCE FlatSegment WITH
        Chunks <- {"c1", "c2"}, NoChunk <- "none", Holders <- {"h1", "h2"},
        MaxCap <- 16, Step <- 8, Mod <- 64, Budgets <- {2, 10, 60},
        Texts <- {<<>>, <<5>>, <<6, 7>>}, Lengths <- {0, 1, 2}, QueueLen <- 1,
        MaxCalls <- 3

Runs(component) == which = component

pagedVars == <<reader, fields, pc, k, wr, buf, off, out, ok>>
flatVars  == <<seg, holder, queue, lent, calls, misread, refused>>
mcvars    == <<which, vars, pagedVars, flatVars>>

MCInit ==
    /\ which \in {"udp", "paged", "flat"}
    /\ Init /\ P!Init /\ F!Init
    /\ Runs("paged") \/ reader = "generic"

MCNext ==
    \/ Runs("udp") /\ Next /\ UNCHANGED <<which, pagedVars, flatVars>>
    \/ Runs("paged") /\ P!Next /\ UNCHANGED <<which, vars, flatVars>>
    \/ Runs("flat") /\ F!Next /\ UNCHANGED <<which, vars, pagedVars>>

MCSpec == MCInit /\ [][MCNext]_mcvars
-----------------------------------------------------------------------------
\* Every slice of a datagram's size ends in a tail that tells what it is; both
\* readers return what the setters were given, or refuse a message cut short.
PagedReadsBack == P!SlicesTell /\ P!GenericReadsBack /\ P!GeneratedReadsBack

\* A subscriber reads what the publisher wrote and nothing of an earlier message,
\* from a chunk that has one owner and that an owned message fits.
FlatReadsBack == F!ReadBack /\ F!NothingStale /\ F!ChunkHasOneOwner /\ F!OwnedFits
=============================================================================

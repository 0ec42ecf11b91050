--------------------------- MODULE MCRouteChunks ---------------------------
(***************************************************************************)
(* Small instances of RouteChunks for TLC.                                 *)
(***************************************************************************)
EXTENDS RouteChunks, TLC

\* Receivers of one kind are interchangeable.
ReaderSymmetry == Permutations(Static) \cup Permutations(Dynamic)

\* Everything but the history of deliveries, which nothing here reads.
NoLogView == <<cc, wt, epoch, rc, data, writerVars,
               rpc, conn, cursor, ep0, got, lag, chunkVars>>
=============================================================================

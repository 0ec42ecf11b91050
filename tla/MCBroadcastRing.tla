-------------------------- MODULE MCBroadcastRing --------------------------
(***************************************************************************)
(* Small instances of BroadcastRing for TLC.                               *)
(***************************************************************************)
EXTENDS BroadcastRing, TLC

\* Receivers of one kind are interchangeable; used in safety runs only.
ReaderSymmetry == Permutations(Static) \cup Permutations(Dynamic)

\* States that differ only in the history of deliveries are the same to the
\* runs that do not look at it: no guard reads log.
NoLogView == <<cc, wt, epoch, rc, data, writerVars,
               rpc, conn, cursor, ep0, got, lag>>

\* The ring with try_send() only and a fixed set of receivers.
Reliable == INSTANCE ReliableBroadcast
              WITH Receivers <- Static, Capacity <- RingSlots,
                   MaxPub <- MaxWt, pub <- wt, recd <- log

\* Without force_push the ring implements the bounded broadcast buffer: every
\* receiver is given every message, once, complete and in order, and, if it
\* keeps calling recv(), eventually.
ImplementsReliableBroadcast == Reliable!Spec
=============================================================================

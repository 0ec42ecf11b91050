------------------------- MODULE ReliableBroadcast -------------------------
(***************************************************************************)
(* What a route promises as long as nothing is overwritten: a bounded      *)
(* broadcast buffer.  Every receiver gets every message, once, in the      *)
(* order of publication; the producer is never more than Capacity messages *)
(* ahead of the slowest receiver.                                          *)
(***************************************************************************)
EXTENDS Naturals, Sequences

CONSTANTS Receivers, Capacity, MaxPub

VARIABLES
  pub,   \* number of messages published: message n is the n-th, from 0
  recd   \* what each receiver has been given so far

vars == <<pub, recd>>

Init ==
  /\ pub = 0
  /\ recd = [r \in Receivers |-> << >>]

Publish ==
  /\ pub < MaxPub
  /\ \A r \in Receivers : pub - Len(recd[r]) < Capacity
  /\ pub' = pub + 1
  /\ UNCHANGED recd

Deliver(r) ==
  /\ Len(recd[r]) < pub
  /\ recd' = [recd EXCEPT ![r] = Append(@, Len(@))]
  /\ UNCHANGED pub

Next == Publish \/ \E r \in Receivers : Deliver(r)

\* What is delivered, and when a message may be published.
Safety == Init /\ [][Next]_vars

Spec == Safety /\ \A r \in Receivers : WF_vars(Deliver(r))
=============================================================================

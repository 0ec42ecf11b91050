------------------------------ MODULE MCWaiter ------------------------------
(***************************************************************************)
(* Small instances of Waiter for TLC.                                      *)
(***************************************************************************)
EXTENDS Waiter, TLC

\* Threads of one kind are interchangeable; used in safety runs only.
ThreadSymmetry == Permutations(Timed) \cup Permutations(Sleepers \ Timed)
                    \cup Permutations(Wakers)
=============================================================================

------------------------------- MODULE MCYarns -------------------------------
(* The instances of Yarns that TLC checks. *)
EXTENDS Yarns

\* The nice values of an application without titanic yarns.
NiceNormal == {0}

\* A bound: an execution ends when an object or a pid has been handed out while
\* in use.  Nothing is claimed of what follows but the types, which are proved.
\* What follows a yarn that returns on another thread is not cut off.
NextUntilTwice == twice = {} /\ Next

FairUntilTwice == Init /\ [][NextUntilTwice]_vars /\ Fairness

=============================================================================

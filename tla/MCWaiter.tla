------------------------------ MODULE MCWaiter ------------------------------
(* Instances of Waiter.  Tickets are interchangeable addresses.            *)
EXTENDS Waiter, TLC

Symmetric == Permutations(Tickets) \cup Permutations(Fds)
=============================================================================

------------------------------- MODULE MCUdpHub -------------------------------
(* Instance of UdpHub for TLC. *)
EXTENDS UdpHub, TLC

\* Clients are interchangeable.
Symmetry == Permutations(Client)
=============================================================================

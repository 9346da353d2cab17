------------------------------ MODULE MCRelay ------------------------------
(* Instance of Relay for TLC. *)
EXTENDS Relay

MCMaxBytes == [client |-> 2, local |-> 1]
=============================================================================

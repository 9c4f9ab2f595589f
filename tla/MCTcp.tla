------------------------------- MODULE MCTcp -------------------------------
(* An instance of TcpReassembly for TLC, with retransmissions of every     *)
(* segment.                                                                *)
EXTENDS TcpReassembly

TwoStreams == {[kind |-> "pdus", lens |-> <<2, 3, 2>>], [kind |-> "pdus", lens |-> <<5, 2>>]}
=============================================================================

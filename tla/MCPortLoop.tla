----------------------------- MODULE MCPortLoop -----------------------------
(* PortLoop with small numbers of slots, relays and descriptors.           *)
EXTENDS PortLoop
=============================================================================

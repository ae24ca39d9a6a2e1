---------------------------- MODULE MCDnsResolver ----------------------------
(* DnsResolver with a few lookups, started from the loop and from callbacks. *)
EXTENDS DnsResolver
=============================================================================

----------------------------- MODULE MCDbcPeers -----------------------------
(***************************************************************************)
(* Two nodes for TLC on one machine: connections come from the loopback    *)
(* address.  a can be found at its public address too; b is the host of    *)
(* the bootstrap name and announces no address of its own.                 *)
(***************************************************************************)
EXTENDS DbcPeers

CONSTANTS a, b, Duck, DuckId, AddrA, Loopback

MCNodes == {a, b}
MCAddrs == {Duck, DuckId, AddrA, Loopback}
MCDuckDns == {Duck, DuckId}
MCOwner == [x \in MCAddrs |-> IF x = AddrA THEN a ELSE b]
MCUndialable == {Loopback}
MCListen == [n \in MCNodes |-> IF n = a THEN {AddrA} ELSE {}]
MCEndpoint == [n \in MCNodes |-> {Loopback}]
MCWithPeer == [x \in MCAddrs |-> IF x = Duck THEN DuckId ELSE x]
MCShipped == {Duck}
=============================================================================

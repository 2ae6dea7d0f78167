------------------------ MODULE MCConnectionLimits ------------------------
(* ConnectionLimits with six connections of two clients. *)
EXTENDS ConnectionLimits

A(kind, net, host) == [kind |-> kind, net |-> net, host |-> host]

\* An IPv4 client, directly and through a dual-stack listener, and an IPv6
\* client with several addresses in a prefix that happens to look the same.
Clients == <<A("v4", 1, 0), A("mapped", 1, 0), A("v4", 1, 0),
             A("v6", 1, 1), A("v6", 1, 2), A("v6", 1, 3)>>
MCConns == 1..6
=============================================================================

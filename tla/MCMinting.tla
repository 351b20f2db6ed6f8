----------------------------- MODULE MCMinting ------------------------------
(* Minting on a small instance: two clients, one proxy; requests come      *)
(* directly or through the proxy, with a header that names either client.  *)
EXTENDS Minting, TLC

MCRoutes == [claims: {<<a>> : a \in Clients}, via: {<<>>} \cup {<<p>> : p \in Trusted}]
MCHostName == [h \in Hosts |-> h]
MCAllowed == <<>>

Symmetry == Permutations(Requests) \cup Permutations(Clients)
=============================================================================

------------------------------ MODULE TunPeers ------------------------------
(***************************************************************************)
(* The parameters of TunServer: the addresses of the pool, the clients and *)
(* their sessions.                                                         *)
(***************************************************************************)
EXTENDS Naturals, FiniteSets

CONSTANTS
    Ips,      \* the addresses of the pool
    Clients,  \* client identities
    Reconnecting,  \* those that come back while a session of theirs may live
    Sessions, \* bound: sessions of a reconnecting client
    None      \* no address, no client, no session

ASSUME TunServerAssumption ==
    /\ IsFiniteSet(Ips) /\ Reconnecting \subseteq Clients
    /\ None \notin Ips \cup Clients
    /\ None \notin (Clients \X {1}) \cup (Reconnecting \X (1..Sessions))
=============================================================================

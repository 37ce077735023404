------------------------------ MODULE PhoneDns ------------------------------
(***************************************************************************)
(* The DNS proxy on a phone (rvpn-mobile: dns_server.rs, the start-up in   *)
(* ios_tun_ffi.rs, the reconnect loop of doh_client.rs).  While the VPN is *)
(* up the system resolver sends every lookup of the device to this proxy,  *)
(* those of the VPN's own processes included: the DNS-over-WebSocket       *)
(* clients ask it for the name of the very server they dial.               *)
(***************************************************************************)
EXTENDS Naturals

CONSTANTS Tasks,       \* query tasks that may run at a time
          Nameservers, \* public nameservers asked in turn
          Retries,     \* attempts per nameserver
          Ports,       \* DNS_PORTS, in order: 1..Ports
          Asked        \* the names applications ask for

VARIABLES stage,     \* of the proxy: off, exits, bind, run, failed
          port,      \* the bound port, 0 if none
          clients,   \* exits whose DoH client was started
          doh,       \* state of each exit's connection: down, lookup, up
          net,       \* whether the public nameservers answer
          cached,    \* names whose addresses are cached
          q          \* the query tasks

vars == <<stage, port, clients, doh, net, cached, q>>

Default == "default"
Exits == {Default, "corp"}
Names == {"root", "provider", "server", "server2", "ads", "local", "www", "intra"}
ServerOf(e) == IF e = Default THEN "server" ELSE "server2"
Servers == {ServerOf(e) : e \in Exits}

\* The split-tunnel decision and the exit rules, on names; both say "tunnel"
\* of the servers' own names.
Decision(n) == CASE n = "ads" -> "block" [] n = "local" -> "bypass" [] OTHER -> "tunnel"
choose_exit(n) == IF n \in {"intra", "server2"} THEN "corp" ELSE Default

Idle == [at |-> "idle", name |-> "root", asker |-> "app", tried |-> 0, exit |-> "none"]

Init == /\ stage = "off" /\ port = 0 /\ clients = {}
        /\ doh = [e \in Exits |-> "down"]
        /\ net \in BOOLEAN
        /\ cached = {}
        /\ q = [t \in Tasks |-> Idle]

-----------------------------------------------------------------------------
(* Start-up. *)

StartDoh == /\ stage = "off"
            /\ stage' = "exits" /\ clients' = {Default}
            /\ UNCHANGED <<port, doh, net, cached, q>>

\* The client of an extra exit that cannot be started is skipped with a warning.
StartExits == /\ stage = "exits"
              /\ stage' = "bind" /\ clients' \in {{Default}, Exits}
              /\ UNCHANGED <<port, doh, net, cached, q>>

try_bind_with_fallback(busy) ==
  IF \A p \in 1..Ports : p \in busy THEN 0
  ELSE CHOOSE p \in 1..Ports : p \notin busy /\ \A o \in 1..(p - 1) : o \in busy

Bind == /\ stage = "bind"
        /\ \E busy \in SUBSET (1..Ports) :
             /\ port' = try_bind_with_fallback(busy)
             /\ stage' = IF port' = 0 THEN "failed" ELSE "run"
        /\ UNCHANGED <<clients, doh, net, cached, q>>

-----------------------------------------------------------------------------
(* A query, from its arrival to its answer. *)

Arrives(t, n, who) ==
  q[t].at = "idle" /\ q' = [q EXCEPT ![t] = [Idle EXCEPT !.at = "new", !.name = n, !.asker = who]]

AppQuery(t, n) == /\ stage = "run" /\ Arrives(t, n, "app")
                  /\ UNCHANGED <<stage, port, clients, doh, net, cached>>

\* The answer goes back to whoever asked: the connection attempt of a DoH
\* client, the lookup_host of another task, or an application.
Answer(t, ok) ==
  LET who == q[t].asker
      base == [q EXCEPT ![t] = Idle]
  IN  IF who \in Exits
      THEN /\ q' = base /\ doh' = [doh EXCEPT ![who] = IF ok THEN "up" ELSE "down"]
           /\ UNCHANGED <<cached>>
      ELSE IF who \in Tasks
      THEN /\ q' = [base EXCEPT ![who].at = IF ok THEN "found" ELSE "failed"]
           /\ cached' = IF ok THEN cached \cup {q[t].name} ELSE cached
           /\ UNCHANGED doh
      ELSE q' = base /\ UNCHANGED <<doh, cached>>

\* Where handle_query sends a query: the order of the tests is the code's.
RouteIgnoringServers(n) ==
  CASE n = "root" -> "empty"
    [] n = "provider" -> "nxdomain"
    [] Decision(n) = "block" -> "nxdomain"
    [] Decision(n) = "bypass" -> "local"
    [] OTHER -> "remote"
Route(n) ==
  CASE n = "root" -> "empty"
    [] n = "provider" -> "nxdomain"
    [] n \in Servers -> "local"
    [] Decision(n) = "block" -> "nxdomain"
    [] Decision(n) = "bypass" -> "local"
    [] OTHER -> "remote"

\* The client of the query's exit; the code has no fallback to the default.
doh_client_default(n) == Default
doh_client_for(n) == choose_exit(n)

\* AAAA queries get an empty answer whatever their name; a local name is
\* answered from the cache if it can be.
HandleQuery(t, aaaa) ==
  /\ q[t].at = "new"
  /\ LET n == q[t].name
         r == IF aaaa THEN "empty" ELSE Route(n)
     IN  \/ r \in {"empty", "nxdomain"} /\ Answer(t, FALSE)
         \/ r = "local" /\ n \in cached /\ Answer(t, TRUE)
         \/ /\ r = "local" /\ n \notin cached
            /\ q' = [q EXCEPT ![t].at = "udp"] /\ UNCHANGED <<doh, cached>>
         \/ /\ r = "remote"
            /\ q' = [q EXCEPT ![t].at = "remote", ![t].exit = doh_client_for(n)]
            /\ UNCHANGED <<doh, cached>>
  /\ UNCHANGED <<stage, port, clients, net>>

\* A missing client is a server failure; a DoH query waits for its connection
\* at most for its timeout.
ResolveRemote(t) ==
  /\ q[t].at = "remote"
  /\ Answer(t, q[t].exit \in clients /\ doh[q[t].exit] = "up")
  /\ UNCHANGED <<stage, port, clients, net>>

\* resolve_via_udp_forward: each nameserver in turn.
Attempts == Nameservers * Retries

query_nameserver_udp_raw(t) ==
  /\ q[t].at = "udp" /\ q[t].tried < Attempts
  /\ IF net THEN q' = [q EXCEPT ![t].at = "found"] /\ cached' = cached \cup {q[t].name}
            ELSE q' = [q EXCEPT ![t].tried = @ + 1] /\ UNCHANGED cached
  /\ UNCHANGED <<stage, port, clients, doh, net>>

\* All failed: the system resolver (DnsResolver::resolve), the cache first, in
\* which a recent failure of this name (negative) may still be.
resolve_via_system(t) ==
  /\ q[t].at = "udp" /\ q[t].tried = Attempts
  /\ \E negative \in BOOLEAN :
       q' = [q EXCEPT ![t].at = CASE q[t].name \in cached -> "found"
                                  [] q[t].name \notin cached /\ negative -> "failed"
                                  [] OTHER -> "system"]
  /\ UNCHANGED <<stage, port, clients, doh, net, cached>>

\* lookup_host asks the resolver of the device, which is this proxy.
SystemAsks(t, u) ==
  /\ q[t].at = "system" /\ Arrives(u, q[t].name, t)
  /\ \A w \in Tasks : q[w].asker # t
  /\ UNCHANGED <<stage, port, clients, doh, net, cached>>

\* The system resolver gives up after its own timeout.
\* The proxy's task for its query, if any, then answers no one.
SystemFails(t) ==
  /\ q[t].at = "system"
  /\ q' = [u \in Tasks |-> IF u = t THEN [q[t] EXCEPT !.at = "failed"]
                           ELSE IF q[u].asker = t THEN [q[u] EXCEPT !.asker = "gone"]
                           ELSE q[u]]
  /\ UNCHANGED <<stage, port, clients, doh, net, cached>>

\* resolve_local returns.
LocalDone(t) == /\ q[t].at \in {"found", "failed"} /\ Answer(t, q[t].at = "found")
                /\ UNCHANGED <<stage, port, clients, net>>

-----------------------------------------------------------------------------
(* The DoH clients and the world around. *)

\* run_connection starts by resolving the server's name.
Reconnect(e, t) ==
  /\ stage = "run" /\ e \in clients /\ doh[e] = "down"
  /\ Arrives(t, ServerOf(e), e)
  /\ doh' = [doh EXCEPT ![e] = "lookup"]
  /\ UNCHANGED <<stage, port, clients, net, cached>>

ConnectionLost(e) == /\ doh[e] = "up" /\ doh' = [doh EXCEPT ![e] = "down"]
                     /\ UNCHANGED <<stage, port, clients, net, cached, q>>

NetworkChanges == net' = ~net /\ UNCHANGED <<stage, port, clients, doh, cached, q>>

EntryExpires(n) == /\ n \in cached /\ cached' = cached \ {n}
                   /\ UNCHANGED <<stage, port, clients, doh, net, q>>

Step(t) == \/ HandleQuery(t, FALSE) \/ ResolveRemote(t) \/ query_nameserver_udp_raw(t)
           \/ resolve_via_system(t) \/ SystemFails(t) \/ LocalDone(t)
Redial(e) == \E t \in Tasks : Reconnect(e, t)

Next == \/ StartDoh \/ StartExits \/ Bind
        \/ \E t \in Tasks : \/ \E n \in Asked : AppQuery(t, n)
                            \/ HandleQuery(t, TRUE) /\ q[t].asker = "app"
                            \/ Step(t)
                            \/ \E u \in Tasks : SystemAsks(t, u)
        \/ \E e \in Exits : Redial(e) \/ ConnectionLost(e)
        \/ NetworkChanges
        \/ \E n \in Names : EntryExpires(n)

Spec == Init /\ [][Next]_vars

FairSpec == Spec /\ \A t \in Tasks : WF_vars(Step(t))
                 /\ \A e \in Exits : SF_vars(Redial(e))

-----------------------------------------------------------------------------

TypeOK == /\ stage \in {"off", "exits", "bind", "run", "failed"} /\ port \in 0..Ports
          /\ clients \subseteq Exits /\ doh \in [Exits -> {"down", "lookup", "up"}]
          /\ cached \subseteq Names
          /\ \A t \in Tasks : q[t].name \in Names /\ q[t].tried \in 0..Attempts

\* A name that is routed through an exit is looked up by that exit's DoH client
\* only: never by another exit's, never by a public nameserver and never by the
\* system resolver, whichever clients failed to start or are disconnected
\* (resolve_remote, doh_client_for).
RemoteStaysOnItsExit ==
  \A t \in Tasks :
    /\ q[t].at = "remote" => q[t].exit = choose_exit(q[t].name)
    /\ q[t].at \in {"udp", "system", "found"} =>
         q[t].name \in Servers \/ Decision(q[t].name) = "bypass"

\* The name of a VPN server is never looked up through a tunnel, so that the
\* lookup a reconnect waits for never waits for the connection it is to bring
\* up: once the nameservers answer for good, a started DoH client connects
\* again and again, whatever was cached, in flight or lost before
\* (server_hostnames in handle_query; start in doh_client.rs).
ExitsReconnect ==
  \A e \in Exits : (<>[](net /\ stage = "run" /\ e \in clients)) => []<>(doh[e] = "up")
=============================================================================

----------------------------- MODULE MobileDns -----------------------------
(***************************************************************************)
(* Names of a secondary exit on a phone (rvpn-mobile): the DNS server that *)
(* answers the system's queries (dns_server.rs), the DoH client of the     *)
(* exit with its cache and its connection (doh_client.rs), and the route   *)
(* map that sends packets to the exit that resolved their address          *)
(* (route_map.rs, choose_exit_name of ios_tun.rs).  Each name has its own  *)
(* address.  Times-to-live count down; a timeout of a few seconds is short *)
(* against a step of the clock.                                            *)
(***************************************************************************)
EXTENDS Naturals, Sequences, FiniteSets, FiniteSetsExt

CONSTANTS
  Domains,        \* names the router sends to the exit
  Tasks,          \* queries, one task each
  CacheCap,       \* max_cache_size of the DoH client
  RouteCap,       \* MAX_ENTRIES of the route map
  FailureTtl,     \* 30 s, of a failed resolution
  MinTold,        \* 30 s, the least get_cached_ttl and note_routed_answer use
  MinCacheTtl,    \* MIN_CACHE_TTL
  MaxCacheTtl,    \* MAX_CACHE_TTL
  ServerTtl,      \* 900 s, what the server's DnsHandler answers with
  DefaultTtl,     \* 14400 s, what stands in for a missing time-to-live
  MaxSessions     \* bound: connections of the DoH client

VARIABLES
  pc, dom,    \* the query's task, and its name
  cache,      \* DoH cache: name -> entry
  pending,    \* queries in the DoH client's map
  queue,      \* its query channel
  link,       \* its connection
  sessions,
  asked,      \* queries the server is resolving on this connection
  reply,      \* oneshot replies
  route,      \* route map: address of the name -> time left
  held,       \* history: how long some application may still use the answer
              \* it was given, when its time-to-live was read from the cache
  guessed     \* the same for the last answer, when the entry was gone and
              \* DefaultTtl stood in for its time-to-live
              \* (both are 0 once the full route map gave the address up)

vars == <<pc, dom, cache, pending, queue, link, sessions, asked, reply, route, held, guessed>>
dohVars == <<pending, queue, link, sessions, asked, reply>>

Left == 0..DefaultTtl

TypeOK ==
  /\ pc \in [Tasks -> {"idle", "wait", "hit", "answer", "nodata", "nxdomain",
                       "servfail", "local"}]
  /\ dom \in [Tasks -> Domains]
  /\ DOMAIN cache \subseteq Domains
  /\ \A d \in DOMAIN cache : cache[d] \in [left: 0..MaxCacheTtl, failed: BOOLEAN]
  /\ pending \subseteq Tasks /\ queue \in Seq(Tasks)
  /\ link \in {"down", "up"} /\ sessions \in 0..MaxSessions
  /\ asked \subseteq Tasks /\ reply \in [Tasks -> {"none", "ok", "fail"}]
  /\ DOMAIN route \subseteq Domains /\ \A d \in DOMAIN route : route[d] \in Left
  /\ held \in [Domains -> Left] /\ guessed \in [Domains -> Left]

Init ==
  /\ pc = [t \in Tasks |-> "idle"] /\ dom \in [Tasks -> Domains]
  /\ cache = [d \in {} |-> 0] /\ route = [d \in {} |-> 0]
  /\ pending = {} /\ queue = <<>> /\ link = "down" /\ sessions = 0 /\ asked = {}
  /\ reply = [t \in Tasks |-> "none"]
  /\ held = [d \in Domains |-> 0] /\ guessed = [d \in Domains |-> 0]

Put(m, d, v) == [e \in DOMAIN m \cup {d} |-> IF e = d THEN v ELSE m[e]]
Keep(m, ds) == [d \in ds |-> m[d]]

----------------------------------------------------------------------------
(* The cache and the route map.                                            *)

Cached(d) == d \in DOMAIN cache /\ cache[d].left > 0

(* Mutant: one entry too few is evicted.                                   *)
EvictedOneShort ==
  IF Cardinality(DOMAIN cache) < CacheCap THEN {DOMAIN cache}
  ELSE {s \in SUBSET {d \in DOMAIN cache : cache[d].left > 0} : Cardinality(s) = CacheCap}

(* insert_cache_entry: room is made from expired entries, then from those  *)
(* that expire first; the time-to-live of an answer is clamped.            *)
Evicted ==
  LET live == {d \in DOMAIN cache : cache[d].left > 0}
  IN  IF Cardinality(DOMAIN cache) < CacheCap THEN {DOMAIN cache}
      ELSE IF Cardinality(live) < CacheCap THEN {live}
      ELSE {s \in SUBSET live :
              /\ Cardinality(s) = CacheCap - 1
              /\ \A d \in s, e \in live \ s : cache[e].left <= cache[d].left}

Clamp(ttl) == Max({MinCacheTtl, Min({MaxCacheTtl, ttl})})

CacheInsert(d, failed) ==
  \E ds \in Evicted :
    cache' = Put(Keep(cache, ds), d,
                 [left |-> IF failed THEN FailureTtl ELSE Clamp(ServerTtl),
                  failed |-> failed])

(* get_cached_ttl, with the default the caller falls back to when another  *)
(* task's insert has evicted the entry, or it has expired.                 *)
Known(d) == Cached(d) /\ ~cache[d].failed
Told(d) == IF Known(d) THEN Max({MinTold, cache[d].left}) ELSE DefaultTtl

(* Mutant: the route lives only for the least time-to-live.                *)
RouteTtlLeast(d) == MinTold

(* note_routed_answer: how long the address is routed to the exit.         *)
RouteTtl(d) == Max({MinTold, Told(d)})

(* RouteMap::insert: what a full map keeps.  It sweeps, then drops what    *)
(* expires first.                                                          *)
RouteKept(d) ==
  LET live == {e \in DOMAIN route : route[e] > 0}
  IN  IF Cardinality(DOMAIN route) < RouteCap \/ d \in DOMAIN route THEN {DOMAIN route}
      ELSE IF Cardinality(live) < RouteCap THEN {live}
      ELSE {live \ {e} : e \in {e \in live : \A f \in live : route[e] <= route[f]}}

----------------------------------------------------------------------------
(* handle_query.  A root probe, an AAAA question and a record type other   *)
(* than A are answered empty; a DoH provider and a blocked name NXDOMAIN;  *)
(* an exit's own host name and a bypass name are resolved locally; the     *)
(* rest goes to the exit's DoH client.                                     *)
Query(t) ==
  /\ pc[t] = "idle"
  /\ \/ /\ \E r \in {"nodata", "nxdomain", "local"} : pc' = [pc EXCEPT ![t] = r]
        /\ UNCHANGED <<pending, queue>>
     \/ /\ Cached(dom[t])      \* lookup_cached, or resolve's own look
        /\ pc' = [pc EXCEPT ![t] = IF cache[dom[t]].failed THEN "servfail" ELSE "hit"]
        /\ UNCHANGED <<pending, queue>>
     \/ /\ ~Cached(dom[t])
        /\ pc' = [pc EXCEPT ![t] = "wait"]
        /\ pending' = pending \cup {t} /\ queue' = Append(queue, t)
  /\ UNCHANGED <<dom, cache, link, sessions, asked, reply, route, held, guessed>>

(* resolve gets its reply, and caches it.                                  *)
Resolved(t) ==
  /\ pc[t] = "wait" /\ reply[t] # "none"
  /\ CacheInsert(dom[t], reply[t] = "fail")
  /\ pc' = [pc EXCEPT ![t] = IF reply[t] = "ok" THEN "hit" ELSE "servfail"]
  /\ UNCHANGED <<dom, dohVars, route, held, guessed>>

(* No reply for five seconds: SERVFAIL, and the entry stays in pending.    *)
ResolveTimeout(t) ==
  /\ pc[t] = "wait" /\ reply[t] = "none"
  /\ pc' = [pc EXCEPT ![t] = "servfail"]
  /\ UNCHANGED <<dom, cache, dohVars, route, held, guessed>>

(* The time-to-live is read under a second lock of the cache, the address  *)
(* is recorded for the demux, and the answer goes out; no await between.   *)
AnswerRouted(t) ==
  /\ pc[t] = "hit"
  /\ pc' = [pc EXCEPT ![t] = "answer"]
  /\ LET d == dom[t]
         old(f, ds, e) == IF e \in ds THEN f[e] ELSE 0
     IN  \E ds \in RouteKept(d) :
           /\ route' = Put(Keep(route, ds), d, RouteTtl(d))
           /\ held' = [e \in Domains |-> IF e = d /\ Known(d) THEN Max({held[e], Told(d)})
                                         ELSE old(held, ds \cup {d}, e)]
           /\ guessed' = [e \in Domains |-> IF e # d THEN old(guessed, ds, e)
                                            ELSE IF Known(d) THEN 0 ELSE Told(d)]
  /\ UNCHANGED <<dom, cache, dohVars>>

----------------------------------------------------------------------------
(* The connection of the DoH client; its pending map outlives it.          *)
Connect ==
  /\ link = "down" /\ sessions < MaxSessions
  /\ link' = "up" /\ sessions' = sessions + 1
  /\ UNCHANGED <<pc, dom, cache, pending, queue, asked, reply, route, held, guessed>>

(* send_loop: what queued up while disconnected is sent late.              *)
SendQuery ==
  /\ link = "up" /\ queue # <<>>
  /\ queue' = Tail(queue) /\ asked' = asked \cup {Head(queue)}
  /\ UNCHANGED <<pc, dom, cache, pending, link, sessions, reply, route, held, guessed>>

(* recv_loop: the response of a query that is no longer pending is dropped,*)
(* and the reply to a task that gave up goes nowhere.                      *)
Receive(t) ==
  /\ link = "up" /\ t \in asked
  /\ asked' = asked \ {t} /\ pending' = pending \ {t}
  /\ \E r \in {"ok", "fail"} : reply' = [reply EXCEPT ![t] = r]
  /\ UNCHANGED <<pc, dom, cache, queue, link, sessions, route, held, guessed>>

(* Mutant: the end of a connection clears the pending map.                 *)
DisconnectForgetting ==
  /\ link = "up" /\ link' = "down" /\ asked' = {} /\ pending' = {}
  /\ UNCHANGED <<pc, dom, cache, queue, sessions, reply, route, held, guessed>>

Disconnect ==
  /\ link = "up" /\ link' = "down" /\ asked' = {}
  /\ UNCHANGED <<pc, dom, cache, pending, queue, sessions, reply, route, held, guessed>>

----------------------------------------------------------------------------
(* An uplink packet to the address: an expired route is swept.             *)
Lookup(d) ==
  /\ d \in DOMAIN route /\ route[d] = 0
  /\ route' = Keep(route, DOMAIN route \ {d})
  /\ UNCHANGED <<pc, dom, cache, dohVars, held, guessed>>

(* start_cleanup_task.                                                     *)
Cleanup ==
  /\ cache' = Keep(cache, {d \in DOMAIN cache : Cached(d)})
  /\ UNCHANGED <<pc, dom, dohVars, route, held, guessed>>

Down(n) == IF n > 0 THEN n - 1 ELSE 0

Tick ==
  /\ cache' = [d \in DOMAIN cache |-> [cache[d] EXCEPT !.left = Down(@)]]
  /\ route' = [d \in DOMAIN route |-> Down(route[d])]
  /\ held' = [d \in Domains |-> Down(held[d])]
  /\ guessed' = [d \in Domains |-> Down(guessed[d])]
  /\ UNCHANGED <<pc, dom, dohVars>>

Next ==
  \/ \E t \in Tasks : Query(t) \/ Resolved(t) \/ ResolveTimeout(t) \/ AnswerRouted(t)
                       \/ Receive(t)
  \/ Connect \/ SendQuery \/ Disconnect
  \/ \E d \in Domains : Lookup(d)
  \/ Cleanup \/ Tick

Spec == Init /\ [][Next]_vars

----------------------------------------------------------------------------
(* choose_exit_name sends a packet to the exit.                            *)
RoutedToExit(d) == d \in DOMAIN route /\ route[d] > 0

(* As long as an application may use an address it was given for a routed  *)
(* name, packets to it take the exit that resolved it: no later answer for *)
(* the name, cached, fresh or late, cuts the route short, and none expires *)
(* before the answer does, unless the full map gave it up for another.     *)
(* Only an answer with the stand-in time-to-live is cut short by the next: *)
(* the route is then that of the later answer (RouteMap::insert).          *)
RouteCoversAnswer ==
  \A d \in Domains : LET least == Max({held[d], guessed[d]}) IN
    least > 0 => RoutedToExit(d) /\ route[d] >= least

(* Neither the DoH cache nor the route map grows past its limit.           *)
MapsBounded == Cardinality(DOMAIN cache) <= CacheCap /\ Cardinality(DOMAIN route) <= RouteCap

(* A task that waits for the DoH client is in its pending map or has its   *)
(* reply: a reconnect drops connections, never the registration.           *)
WaiterRegistered == \A t \in Tasks : pc[t] = "wait" => t \in pending \/ reply[t] # "none"
=============================================================================

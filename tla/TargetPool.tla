----------------------------- MODULE TargetPool -----------------------------
(***************************************************************************)
(* How the server gets a TCP connection to the target of a flow            *)
(* (rvpn-server handler.rs): the session's pool of connections made in     *)
(* advance, the resolver's cache, and the race of connects to all          *)
(* addresses of a name.                                                    *)
(*                                                                         *)
(* A dialler is the session's receive loop (Recv), which connects inside   *)
(* handle_control, or one of the background tasks CreateFlow spawns.  The  *)
(* pool belongs to the session and to the tasks that hold a reference to   *)
(* it; the cache is shared by all sessions.                                *)
(***************************************************************************)
EXTENDS Naturals, Sequences, FiniteSets, TLC, SequencesExt, FiniteSetsExt

CONSTANTS
  Targets,      \* the names of the session's targets
  Elsewhere,    \* names only other sessions ask for
  Addrs,        \* addresses a lookup may return
  Blocked,      \* the addresses should_block_address refuses
  Tasks,        \* bound: background tasks at a time
  MaxFlows,     \* MAX_FLOWS_PER_SESSION
  PerTarget,    \* MAX_POOL_PER_TARGET
  MaxIdle,      \* TCP_POOL_MAX_IDLE
  Ttl,          \* time to live of a cached answer
  MaxEntries    \* DNS_CACHE_MAX_ENTRIES

Recv == 0
Diallers == Tasks \cup {Recv}
Ids == 1..(MaxFlows + Cardinality(Targets) * PerTarget + Cardinality(Tasks) + 1)

VARIABLES
  session,   \* "up", "ended"
  flows,     \* connections that carry a flow
  pool,      \* tcp_pool: Targets -> <<[id, age, quiet]>>
  cache,     \* dns_cache: the cached hosts -> [addrs, age]
  dial       \* Diallers -> what it is doing

vars == <<session, flows, pool, cache, dial>>

Idle == [pc |-> "idle", target |-> 0, addrs |-> {}]
At(pc, t, as) == [pc |-> pc, target |-> t, addrs |-> as]

Init ==
  /\ session = "up" /\ flows = {}
  /\ pool = [t \in Targets |-> <<>>]
  /\ cache = <<>>
  /\ dial = [d \in Diallers |-> Idle]

Pooled == UNION {{pool[t][i].id : i \in DOMAIN pool[t]} : t \in Targets}
NewId == Min(Ids \ (flows \cup Pooled))

(* The spawned task that connects once more to the same target.            *)
Spawn(ds, t) ==
  LET free == {d \in Tasks : ds[d].pc = "idle"} IN
  [ds EXCEPT ![Min(free)] = At("count", t, {})]

CanSpawn == \E d \in Tasks : dial[d].pc = "idle"

----------------------------------------------------------------------------
(* tcp_pool_entry_usable: not idle for too long, and a read would block.   *)
Usable(e) == e.age <= MaxIdle /\ e.quiet

(* Mutant: the first connection of the queue is taken as it is.            *)
PopAny(t) == IF pool[t] = <<>> THEN <<>> ELSE <<pool[t][1]>>

(* The usable connection at the head of the queue once the dead ones       *)
(* before it are dropped, as a sequence of at most one.                    *)
PopUsable(t) ==
  LET ok == {i \in DOMAIN pool[t] : Usable(pool[t][i])} IN
  IF ok = {} THEN <<>> ELSE <<pool[t][Min(ok)]>>

(* Mutant: the connection handed out stays in the queue.                   *)
PeekedAt(t, found) == pool[t]

(* What is left of the queue.                                              *)
Popped(t, found) ==
  IF found = <<>> THEN <<>>
  ELSE SelectSeq(pool[t], LAMBDA e : \E i, j \in DOMAIN pool[t] :
         i > j /\ pool[t][i] = e /\ pool[t][j] = found[1])

(* handle_control of CreateFlow, up to the connect.                        *)
CreateFlow(t) ==
  /\ session = "up" /\ dial[Recv].pc = "idle" /\ CanSpawn
  /\ Cardinality(flows) < MaxFlows
  /\ LET found == PopUsable(t) IN
     /\ pool' = [pool EXCEPT ![t] = Popped(t, found)]
     /\ IF found # <<>>
        THEN flows' = flows \cup {found[1].id} /\ dial' = Spawn(dial, t)
        ELSE dial' = [dial EXCEPT ![Recv] = At("cache", t, {})] /\ UNCHANGED flows
  /\ UNCHANGED <<session, cache>>

----------------------------------------------------------------------------
Allowed(as) == as \ Blocked

(* connect_with_dns_cache: a live entry or a lookup.  (A target that is an *)
(* IP literal behaves as one whose entry is always live.)                  *)
ReadCache(d) ==
  LET t == dial[d].target
      live == t \in DOMAIN cache /\ cache[t].age < Ttl IN
  /\ dial[d].pc = "cache"
  /\ dial' = [dial EXCEPT ![d] =
       IF live THEN At("race", t, Allowed(cache[t].addrs))
       ELSE At("lookup", t, {})]
  /\ UNCHANGED <<session, flows, pool, cache>>

(* Mutant: room is made before the lookup, not under the lock of the       *)
(* insert.                                                                 *)
PrunedBefore(c) == c

(* prune_dns_cache: the expired entries go, and the oldest one if the map  *)
(* is still full, the entry about to be overwritten included.              *)
Pruned(c) ==
  LET live == {h \in DOMAIN c : c[h].age < Ttl}
      oldest == CHOOSE h \in live : \A g \in live : c[g].age <= c[h].age
      kept == IF Cardinality(live) >= MaxEntries THEN live \ {oldest} ELSE live IN
  [h \in kept |-> c[h]]

Cached(h, as) == [g \in {h} |-> [addrs |-> as, age |-> 0]] @@ Pruned(cache)

(* resolve_and_cache: the names are looked up without a lock, the answer   *)
(* is stored under it.  An empty answer or an error ends the connect.      *)
Lookup(d) ==
  /\ dial[d].pc = "lookup"
  /\ \E as \in SUBSET Addrs \ {{}} :
       /\ dial' = [dial EXCEPT ![d] = At("race", dial[d].target, Allowed(as))]
       /\ cache' = Cached(dial[d].target, as)
  /\ UNCHANGED <<session, flows, pool>>

(* The session's own references are gone and no task holds one: the pool   *)
(* is dropped with the connections in it.                                  *)
Dropped(p, ds) ==
  IF session = "ended" /\ \A d \in Tasks : ds[d].pc = "idle"
  THEN [t \in Targets |-> <<>>] ELSE p

(* A dialler gives up: the receive loop logs the error and goes on.        *)
GivesUp(d) ==
  LET ds == [dial EXCEPT ![d] = Idle] IN
  /\ dial' = ds
  /\ pool' = Dropped(pool, ds)
  /\ UNCHANGED <<session, flows, cache>>

(* A background task looks at the length of the queue before it connects.  *)
Count(d) ==
  /\ dial[d].pc = "count"
  /\ IF Len(pool[dial[d].target]) < PerTarget
     THEN dial' = [dial EXCEPT ![d].pc = "cache"] /\ UNCHANGED <<session, flows, pool, cache>>
     ELSE GivesUp(d)

LookupFails(d) == dial[d].pc = "lookup" /\ GivesUp(d)

(* connect_fastest: one connect per address that is not blocked, each with *)
(* a timeout.  The first one that succeeds is taken and the others are     *)
(* aborted with the JoinSet.                                               *)
ConnectFails(d, a) ==
  /\ dial[d].pc = "race" /\ a \in dial[d].addrs
  /\ dial' = [dial EXCEPT ![d].addrs = @ \ {a}]
  /\ UNCHANGED <<session, flows, pool, cache>>

RaceLost(d) == dial[d].pc = "race" /\ dial[d].addrs = {} /\ GivesUp(d)

(* Mutant: a task whose session has ended leaves its reference behind.     *)
ConnectedLeaking(d) ==
  LET t == dial[d].target IN
  IF d = Recv
  THEN /\ flows' = flows \cup {NewId}
       /\ dial' = Spawn([dial EXCEPT ![Recv] = Idle], t)
       /\ UNCHANGED pool
  ELSE /\ dial' = [dial EXCEPT ![d] = Idle]
       /\ pool' = [pool EXCEPT ![t] = Append(@, [id |-> NewId, age |-> 0, quiet |-> TRUE])]
       /\ UNCHANGED flows

(* The receive loop makes a flow of the connection and spawns a task; a    *)
(* task puts it into the pool, whatever the length of the queue is now.    *)
Connected(d) ==
  LET t == dial[d].target
      ds == [dial EXCEPT ![d] = Idle] IN
  IF d = Recv
  THEN /\ flows' = flows \cup {NewId}
       /\ dial' = Spawn(ds, t)
       /\ UNCHANGED pool
  ELSE /\ dial' = ds
       /\ pool' = Dropped([pool EXCEPT ![t] =
                    Append(@, [id |-> NewId, age |-> 0, quiet |-> TRUE])], ds)
       /\ UNCHANGED flows

ConnectWins(d) ==
  /\ dial[d].pc = "race" /\ dial[d].addrs # {}
  /\ d = Recv => CanSpawn
  /\ Connected(d)
  /\ UNCHANGED <<session, cache>>

----------------------------------------------------------------------------
(* The far end of a pooled connection closes it, or sends something.       *)
PeerActs(t) ==
  /\ \E i \in DOMAIN pool[t] : pool[t][i].quiet /\ pool' = [pool EXCEPT ![t][i].quiet = FALSE]
  /\ UNCHANGED <<session, flows, cache, dial>>

(* resolve_and_cache of another session.                                   *)
ElsewhereResolved(h) ==
  /\ h \in Elsewhere
  /\ \E as \in SUBSET Addrs \ {{}} : cache' = Cached(h, as)
  /\ UNCHANGED <<session, flows, pool, dial>>

CloseFlow(f) ==
  /\ f \in flows
  /\ flows' = flows \ {f}
  /\ UNCHANGED <<session, pool, cache, dial>>

(* The select of MultiplexerSession::run returns: the receive loop is      *)
(* dropped wherever it waits, flows are aborted, the pool is cleared.      *)
EndSession ==
  /\ session = "up"
  /\ session' = "ended" /\ flows' = {}
  /\ pool' = [t \in Targets |-> <<>>]
  /\ dial' = [dial EXCEPT ![Recv] = Idle]
  /\ UNCHANGED cache

Older(n, max) == IF n < max THEN n + 1 ELSE n

Tick ==
  /\ cache' = [h \in DOMAIN cache |-> [cache[h] EXCEPT !.age = Older(@, Ttl)]]
  /\ pool' = [t \in Targets |->
       [i \in DOMAIN pool[t] |-> [pool[t][i] EXCEPT !.age = Older(@, MaxIdle + 1)]]]
  /\ UNCHANGED <<session, flows, dial>>

DialStep(d) ==
  \/ Count(d) \/ ReadCache(d) \/ Lookup(d) \/ LookupFails(d)
  \/ (\E a \in Addrs : ConnectFails(d, a)) \/ RaceLost(d) \/ ConnectWins(d)

Next ==
  \/ \E t \in Targets : CreateFlow(t) \/ PeerActs(t)
  \/ \E d \in Diallers : DialStep(d)
  \/ \E f \in flows : CloseFlow(f)
  \/ \E h \in Elsewhere : ElsewhereResolved(h)
  \/ EndSession \/ Tick

Spec == Init /\ [][Next]_vars

(* Lookups end and connects time out.                                      *)
Fairness == \A d \in Diallers : WF_vars(DialStep(d))

FairSpec == Spec /\ Fairness

----------------------------------------------------------------------------
TypeOK ==
  /\ session \in {"up", "ended"}
  /\ flows \subseteq Ids
  /\ pool \in [Targets -> Seq([id: Ids, age: 0..(MaxIdle + 1), quiet: BOOLEAN])]
  /\ \A h \in DOMAIN cache : h \in Targets \cup Elsewhere /\ cache[h].addrs \subseteq Addrs /\ cache[h].age \in 0..Ttl
  /\ dial \in [Diallers ->
       [pc: {"idle", "count", "cache", "lookup", "race"}, target: Targets \cup {0},
        addrs: SUBSET Addrs]]

(* A connection is in the hands of one flow or in the pool, never both,    *)
(* however CreateFlow, the background tasks and the teardown interleave.   *)
ConnectionsExclusive ==
  /\ flows \cap Pooled = {}
  /\ \A t, u \in Targets : \A i \in DOMAIN pool[t], j \in DOMAIN pool[u] :
       pool[t][i].id = pool[u][j].id => t = u /\ i = j

(* "Called before every insert so the cache never grows past MAX_ENTRIES", *)
(* also when several lookups were in flight at once.                       *)
HostCacheBounded == Cardinality(DOMAIN cache) <= MaxEntries

(* A flow is given a pooled connection only if nothing had happened to it  *)
(* when it was taken out, whatever lay before it in the queue.             *)
HandedOutAlive ==
  [][\A t \in Targets : \A i \in DOMAIN pool[t] :
       pool[t][i].id \in flows' => Usable(pool[t][i])]_vars

(* The session leaves no idle connection behind: one that a background     *)
(* task pools after the teardown goes when the task does.                  *)
PoolReleased == session = "ended" ~> Pooled = {}
=============================================================================

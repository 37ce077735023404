------------------------------ MODULE DnsCache ------------------------------
(***************************************************************************)
(* The resolver and its cache that all client tasks share                  *)
(* (rvpn-split-tunnel/src/dns_cache.rs, DnsResolver).  A resolve looks at  *)
(* the cache, lets go of the lock, asks the network, and stores what came  *)
(* back: several for one host may overlap.  Times are ages, capped at the  *)
(* largest time-to-live.                                                   *)
(***************************************************************************)
EXTENDS Integers, FiniteSets

CONSTANTS
  Hosts,
  Callers,       \* tasks inside resolve
  Ttls,          \* times-to-live of answers, in steps
  FailureTtl,    \* the 30 s of store_failure
  CacheSizes,    \* the values of cache_size
  UsizeModulus   \* 2^64 in the code: arithmetic on usize wraps

MaxAge == CHOOSE t \in Ttls \cup {FailureTtl} : \A u \in Ttls \cup {FailureTtl} : u <= t

VARIABLES
  size,      \* cache_size, from the configuration
  cache,     \* the map: host -> entry
  asking,    \* the host a caller is asking the network for, or Empty
  failedAt   \* history: age of the last failed lookup of the host

vars == <<size, cache, asking, failedAt>>

Entry == [age: 0..MaxAge, ttl: Ttls \cup {FailureTtl}, failed: BOOLEAN, ips: BOOLEAN]
Never == MaxAge + 1
Empty == "none"

TypeOK ==
  /\ size \in CacheSizes
  /\ DOMAIN cache \subseteq Hosts /\ \A h \in DOMAIN cache : cache[h] \in Entry
  /\ asking \in [Callers -> Hosts \cup {Empty}]
  /\ failedAt \in [Hosts -> 0..Never]

Init ==
  /\ size \in CacheSizes /\ cache = [h \in {} |-> 0]
  /\ asking = [c \in Callers |-> Empty]
  /\ failedAt = [h \in Hosts |-> Never]

----------------------------------------------------------------------------
Live(h) == h \in DOMAIN cache /\ cache[h].age < cache[h].ttl
Keep(m, hs) == [h \in hs |-> m[h]]

(* Mutants: room is made for one entry too few; the youngest go.           *)
EvictedOneShort(m) ==
  LET live == {h \in DOMAIN m : m[h].age < m[h].ttl}
  IN  IF Cardinality(DOMAIN m) <= size THEN {DOMAIN m}
      ELSE {s \in SUBSET live : Cardinality(s) = size}

EvictedYoungest(m) ==
  LET live == {h \in DOMAIN m : m[h].age < m[h].ttl}
  IN  IF Cardinality(DOMAIN m) < size THEN {DOMAIN m}
      ELSE {s \in SUBSET live :
              /\ Cardinality(s) < size
              /\ \A h \in s, g \in live \ s : m[g].age <= m[h].age}

(* The sets of hosts evict_if_needed may leave: all while there is room,   *)
(* else the live ones, and of those, when they still fill the cache, the   *)
(* youngest cache_size - 1 (ties fall as the hash map iterates).  For a    *)
(* size of 0 the subtraction wraps in the release build: none is removed.  *)
Evicted(m) ==
  LET live == {h \in DOMAIN m : m[h].age < m[h].ttl}
      n == Cardinality(live)
      sub == (size - 1) % UsizeModulus
      remove == IF n > sub THEN n - sub ELSE 0
  IN  IF Cardinality(DOMAIN m) < size THEN {DOMAIN m}
      ELSE IF n < size THEN {live}
      ELSE {s \in SUBSET live :
              /\ Cardinality(s) = n - remove
              /\ \A h \in s, g \in live \ s : m[g].age >= m[h].age}

(* store_ips, store_failure and store_with_ttl: evict, then insert.        *)
Stored(h, e) ==
  \E hs \in Evicted(cache) :
    cache' = [g \in hs \cup {h} |-> IF g = h THEN e ELSE cache[g]]

(* Mutant: an answer without addresses is stored as a failure.             *)
AnswerNegative(ttl, ips) == [age |-> 0, ttl |-> ttl, failed |-> ~ips, ips |-> ips]

Answer(ttl, ips) == [age |-> 0, ttl |-> ttl, failed |-> FALSE, ips |-> ips]
Failure == [age |-> 0, ttl |-> FailureTtl, failed |-> TRUE, ips |-> FALSE]

(* resolve: a live failure is an error and live addresses are the answer,  *)
(* both at once; an expired entry, and a live one without addresses, are a *)
(* miss, and the caller asks the network.                                  *)
ResolveMiss(c, h) ==
  /\ asking[c] = Empty
  /\ ~(Live(h) /\ (cache[h].failed \/ cache[h].ips))
  /\ asking' = [asking EXCEPT ![c] = h]
  /\ UNCHANGED <<size, cache, failedAt>>

(* A nameserver answers with addresses and its own time-to-live, or the    *)
(* system resolver with the configured one.                                *)
ResolveOk(c) ==
  /\ asking[c] # Empty /\ asking' = [asking EXCEPT ![c] = Empty]
  /\ \E ttl \in Ttls : Stored(asking[c], Answer(ttl, TRUE))
  /\ UNCHANGED <<size, failedAt>>

(* Every nameserver failed, and the system resolver has nothing.           *)
ResolveFails(c) ==
  /\ asking[c] # Empty /\ asking' = [asking EXCEPT ![c] = Empty]
  /\ Stored(asking[c], Failure)
  /\ failedAt' = [failedAt EXCEPT ![asking[c]] = 0]
  /\ UNCHANGED size

(* The DNS proxy stores what the server answered; it may hold no address.  *)
StoreWithTtl(h) ==
  /\ \E ttl \in Ttls, ips \in BOOLEAN : Stored(h, Answer(ttl, ips))
  /\ UNCHANGED <<size, asking, failedAt>>

CleanupCache ==
  /\ cache' = Keep(cache, {h \in DOMAIN cache : Live(h)})
  /\ UNCHANGED <<size, asking, failedAt>>

Older(n, cap) == IF n < cap THEN n + 1 ELSE n

Tick ==
  /\ cache' = [h \in DOMAIN cache |-> [cache[h] EXCEPT !.age = Older(@, MaxAge)]]
  /\ failedAt' = [h \in Hosts |-> Older(failedAt[h], Never)]
  /\ UNCHANGED <<size, asking>>

Next ==
  \/ \E c \in Callers : (\E h \in Hosts : ResolveMiss(c, h)) \/ ResolveOk(c) \/ ResolveFails(c)
  \/ \E h \in Hosts : StoreWithTtl(h)
  \/ CleanupCache \/ Tick

Spec == Init /\ [][Next]_vars

----------------------------------------------------------------------------
(* However many calls store at once, the map never holds more than         *)
(* cache_size hosts: every insert makes room first, under one write lock.  *)
(* A size of 0 means no limit, not no cache.                               *)
CacheBounded == size > 0 => Cardinality(DOMAIN cache) <= size

(* evict_if_needed takes a live answer out only when the cache is full of  *)
(* live ones, and never an answer younger than one it leaves.              *)
OldestLiveEvicted ==
  \A h \in DOMAIN cache \ DOMAIN cache' :
    Live(h) =>
      /\ Cardinality({g \in Hosts : Live(g)}) >= size
      /\ \A g \in DOMAIN cache' \cap DOMAIN cache :
           cache'[g] = cache[g] => Live(g) /\ cache[g].age <= cache[h].age
EvictsOldestLive == [][OldestLiveEvicted]_cache

(* The cache reports a failure only while a lookup of that very host has   *)
(* failed within the last FailureTtl: what it serves as negative is never  *)
(* left over from an earlier answer or another host.                       *)
NegativeIsRecent ==
  \A h \in DOMAIN cache : Live(h) /\ cache[h].failed => failedAt[h] < FailureTtl
=============================================================================

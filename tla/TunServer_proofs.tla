--------------------------- MODULE TunServer_proofs ---------------------------
(***************************************************************************)
(* Proofs about TunServer, for every pool of addresses, every set of       *)
(* clients and any number of sessions of each.                             *)
(***************************************************************************)
EXTENDS TunServer, SequenceTheorems, FiniteSetTheorems, TLAPS

\* Time limits of the provers, for a slow machine.
USE SMTT(10), ZenonT(20)

(* The collection of available addresses and the leases exclude each other *)
(* and miss no address: PoolPartition without the counting.                *)
PoolInv ==
    /\ \A k \in 1..Len(available) : owner[available[k]] = None
    /\ \A k, l \in 1..Len(available) : available[k] = available[l] => k = l
    /\ \A i \in Ips : owner[i] = None => \E k \in 1..Len(available) : available[k] = i

(* What a session between two of its steps relies on.  reclaim_expired     *)
(* keeps the lock on allocated while it holds the addresses it collected,  *)
(* and nobody leases or registers one of these meanwhile; a session about  *)
(* to register still has its lease, which is not expired; a registered     *)
(* session has not been torn down and its client holds the lease.          *)
SessionInv ==
    /\ \A c \in Conns : pc[c] = "reclaiming" =>
         /\ allocated_lock = c
         /\ \A i \in reclaimed[c] : owner[i] # None /\ i \in expired /\ senders[i] = None
    /\ \A c \in Conns : pc[c] = "register" =>
         owner[ip[c]] = ClientOf(c) /\ ip[c] \notin expired
    /\ \A i \in Ips : senders[i] # None =>
         /\ owner[i] = ClientOf(senders[i])
         /\ ip[senders[i]] = i
         /\ pc[senders[i]] \in {"running", "closing", "unregister"}

LeaseInv == PoolInv /\ SessionInv /\ OneLeasePerClient

\* The identity behind a session is one of the clients.
LEMMA ClientOfType == \A c \in Conns : ClientOf(c) \in Clients
  BY TunServerAssumption DEF Conns, ClientOf

\* None stands for no address, no client and no session.
LEMMA NoneIsNothing == None \notin Ips /\ None \notin Clients /\ None \notin Conns
  BY TunServerAssumption DEF Conns

(* The orders in which a finite set can be enumerated: each holds every    *)
(* element exactly once.                                                   *)
LEMMA Enumerations ==
    ASSUME NEW S, IsFiniteSet(S), NEW s \in SetToSeqs(S)
    PROVE  /\ s \in Seq(S)
           /\ \A k, l \in 1..Len(s) : s[k] = s[l] => k = l
           /\ \A x \in S : \E k \in 1..Len(s) : s[k] = x
<1> DEFINE n == Cardinality(S)
<1>1. n \in Nat
  BY FS_CardinalityType
<1>2. s \in [1..n -> S] /\ \A k, l \in 1..n : k # l => s[k] # s[l]
  BY DEF SetToSeqs
<1>3. s \in Seq(S) /\ Len(s) = n
  BY <1>1, <1>2
<1>4. s \in Injection(1..n, S)
  BY <1>2 DEF Injection, IsInjective
<1>5. Cardinality(1..n) = n
  <2>1. IsFiniteSet(1..n) /\ Cardinality(1..n) = IF 1 > n THEN 0 ELSE n - 1 + 1
    BY <1>1, FS_Interval
  <2> QED
    BY <1>1, <2>1
<1>6. s \in Surjection(1..n, S)
  BY <1>4, <1>5, FS_Injection
<1>7. \A x \in S : \E k \in 1..n : s[k] = x
  BY <1>6 DEF Surjection
<1> QED
  BY <1>2, <1>3, <1>7

\* Type correctness of the address pool, the sessions and the read loop.
THEOREM TypeCorrect == Spec => []TypeOK
<1> USE ClientOfType, NoneIsNothing DEF TypeOK
<1>1. Init => TypeOK
  <2> SUFFICES ASSUME Init PROVE TypeOK
    OBVIOUS
  <2>1. available \in Seq(Ips)
    BY Enumerations, TunServerAssumption DEF Init
  <2> QED
    BY <2>1 DEF Init, RlIdle
<1>2. TypeOK /\ [Next]_vars => TypeOK'
  <2> SUFFICES ASSUME TypeOK, [Next]_vars PROVE TypeOK'
    OBVIOUS
  <2> USE DEF Goto, pool, locks
  <2>1. ASSUME NEW c \in Conns, Handshake(c) \/ LockAvailable(c) \/ AbortEarly(c) \/ Close(c)
        PROVE  TypeOK'
    BY <2>1 DEF Handshake, LockAvailable, AbortEarly, Close
  <2>2. ASSUME NEW c \in Conns, Reclaim(c) PROVE TypeOK'
    BY <2>2 DEF Reclaim
  <2>3. ASSUME NEW c \in Conns, ReclaimFinish(c) PROVE TypeOK'
    <3>1. PICK order \in SetToSeqs(reclaimed[c]) : available' = available \o order
      BY Zenon, <2>3 DEF ReclaimFinish
    <3>2. IsFiniteSet(reclaimed[c])
      BY FS_Subset, TunServerAssumption
    <3>3. order \in Seq(reclaimed[c])
      BY <3>2, Enumerations
    <3>4. order \in Seq(Ips)
      BY <3>3, SeqMonotonic
    <3>5. available' \in Seq(Ips)
      BY <3>1, <3>4
    <3> QED
      BY <2>3, <3>5 DEF ReclaimFinish
  <2>4. ASSUME NEW c \in Conns, Allocate(c) PROVE TypeOK'
    <3>1. ASSUME NEW i \in Ips, Grant(c, i), UNCHANGED <<available, owner>> PROVE TypeOK'
      BY <2>4, <3>1 DEF Allocate, Grant
    <3>2. CASE /\ available # <<>> /\ Grant(c, Last(available))
               /\ owner' = [owner EXCEPT ![Last(available)] = ClientOf(c)]
               /\ available' = Front(available)
      <4>1. Last(available) \in Ips /\ Front(available) \in Seq(Ips)
        BY <3>2 DEF Last, Front
      <4> QED
        BY <2>4, <3>2, <4>1 DEF Allocate, Grant
    <3>3. CASE Goto(c, "done") /\ UNCHANGED <<pool, ip>>
      BY <2>4, <3>3 DEF Allocate
    <3> QED
      BY <2>4, <3>1, <3>2, <3>3 DEF Allocate
  <2>5. ASSUME NEW c \in Conns, Register(c) PROVE TypeOK'
    BY <2>5 DEF Register
  <2>6. ASSUME NEW c \in Conns, CheckOwner(c) PROVE TypeOK'
    BY <2>6 DEF CheckOwner
  <2>7. ASSUME NEW c \in Conns, Unregister(c) PROVE TypeOK'
    BY <2>7 DEF Unregister
  <2>8. ASSUME NEW i \in Ips, RlRead(i) \/ Expire(i) PROVE TypeOK'
    BY <2>8 DEF RlRead, Expire, Active
  <2>9. CASE RlSend \/ RlEvict
    BY <2>9 DEF RlSend, RlEvict, RlIdle
  <2>10. CASE UNCHANGED vars
    BY <2>10 DEF vars
  <2> QED
    BY <2>1, <2>2, <2>3, <2>4, <2>5, <2>6, <2>7, <2>8, <2>9, <2>10 DEF Next, Session
<1> QED
  BY <1>1, <1>2, PTL DEF Spec

(* A step keeps the partition of the pool.  Only reclaim_expired and       *)
(* allocate change it.                                                     *)
LEMMA PoolStep == TypeOK /\ LeaseInv /\ [Next]_vars => PoolInv'
<1> SUFFICES ASSUME TypeOK, LeaseInv, [Next]_vars PROVE PoolInv'
  OBVIOUS
<1> USE ClientOfType, NoneIsNothing
<1>1. ASSUME UNCHANGED <<available, owner>> PROVE PoolInv'
  BY <1>1 DEF LeaseInv, PoolInv
<1>2. ASSUME NEW c \in Conns, ReclaimFinish(c) PROVE PoolInv'
  <2>1. PICK order \in SetToSeqs(reclaimed[c]) : available' = available \o order
    BY <1>2 DEF ReclaimFinish
  <2>2. reclaimed[c] \in SUBSET Ips
    BY DEF TypeOK
  <2>3. /\ order \in Seq(reclaimed[c])
        /\ \A k, l \in 1..Len(order) : order[k] = order[l] => k = l
        /\ \A x \in reclaimed[c] : \E k \in 1..Len(order) : order[k] = x
    BY <2>2, FS_Subset, Enumerations, TunServerAssumption
  <2>4. order \in Seq(Ips) /\ available \in Seq(Ips)
    BY <2>2, <2>3, SeqMonotonic DEF TypeOK
  <2> DEFINE n == Len(available)  m == Len(order)
  <2>5. /\ n \in Nat /\ m \in Nat /\ Len(available') = n + m
        /\ \A k \in 1..n : available'[k] = available[k] /\ available[k] \in Ips
        /\ \A k \in 1..m : available'[n + k] = order[k] /\ order[k] \in reclaimed[c]
    <3>1. n \in Nat /\ m \in Nat
      BY <2>4, LenProperties
    <3>2. /\ Len(available') = n + m
          /\ \A k \in 1..(n + m) :
               available'[k] = IF k <= n THEN available[k] ELSE order[k - n]
      BY <2>1, <2>4, ConcatProperties
    <3>3. \A k \in 1..n : available[k] \in Ips
      BY <2>4, ElementOfSeq
    <3>4. \A k \in 1..m : order[k] \in reclaimed[c]
      BY <2>3, ElementOfSeq
    <3> HIDE DEF n, m
    <3>5. \A k \in 1..n : k \in 1..(n + m) /\ k <= n
      BY <3>1
    <3>6. \A k \in 1..m : n + k \in 1..(n + m) /\ ~(n + k <= n) /\ (n + k) - n = k
      BY <3>1
    <3> QED
      BY <3>1, <3>2, <3>3, <3>4, <3>5, <3>6
  <2> HIDE DEF n, m
  <2>6. \A k \in 1..n : owner[available[k]] = None
    BY DEF LeaseInv, PoolInv, n
  <2>7. \A i \in reclaimed[c] : owner[i] # None
    BY <1>2 DEF LeaseInv, SessionInv, ReclaimFinish
  <2>8. \A i \in Ips : owner'[i] = IF i \in reclaimed[c] THEN None ELSE owner[i]
    BY <1>2 DEF ReclaimFinish
  <2>9. \A k \in 1..Len(available') :
          k \in 1..n \/ \E l \in 1..m : k = n + l
    <3> TAKE k \in 1..Len(available')
    <3>1. k \in 1..n \/ (k - n \in 1..m /\ k = n + (k - n))
      BY <2>5
    <3> QED
      BY <3>1
  <2>10. ASSUME NEW k \in 1..Len(available') PROVE owner'[available'[k]] = None
    <3>1. CASE k \in 1..n
      BY <2>5, <2>6, <2>8, <3>1
    <3>2. ASSUME NEW l \in 1..m, k = n + l PROVE owner'[available'[k]] = None
      BY <2>2, <2>5, <2>8, <3>2
    <3> QED
      BY <2>9, <3>1, <3>2
  <2>11. ASSUME NEW k \in 1..Len(available'), NEW l \in 1..Len(available'),
                available'[k] = available'[l]
         PROVE  k = l
    <3>1. CASE k \in 1..n /\ l \in 1..n
      BY <2>5, <2>11, <3>1 DEF LeaseInv, PoolInv, n
    <3>2. CASE \E a, b \in 1..m : k = n + a /\ l = n + b
      <4>1. PICK a \in 1..m, b \in 1..m : k = n + a /\ l = n + b
        BY <3>2
      <4>2. order[a] = order[b]
        BY <2>5, <2>11, <4>1
      <4> QED
        BY <2>3, <4>1, <4>2 DEF m
    <3>3. CASE k \in 1..n /\ \E b \in 1..m : l = n + b
      BY <2>5, <2>6, <2>7, <2>11, <3>3
    <3>4. CASE l \in 1..n /\ \E a \in 1..m : k = n + a
      BY <2>5, <2>6, <2>7, <2>11, <3>4
    <3> QED
      BY <2>9, <3>1, <3>2, <3>3, <3>4
  <2>12. ASSUME NEW i \in Ips, owner'[i] = None
         PROVE  \E k \in 1..Len(available') : available'[k] = i
    <3>1. CASE i \in reclaimed[c]
      <4>1. PICK k \in 1..m : order[k] = i
        BY <2>3, <3>1 DEF m
      <4>2. n + k \in 1..Len(available') /\ available'[n + k] = i
        BY <2>5, <4>1
      <4> QED
        BY <4>2
    <3>2. CASE i \notin reclaimed[c]
      <4>1. PICK k \in 1..n : available[k] = i
        BY <2>8, <2>12, <3>2 DEF LeaseInv, PoolInv, n
      <4>2. k \in 1..Len(available') /\ available'[k] = i
        BY <2>5, <4>1
      <4> QED
        BY <4>2
    <3> QED
      BY <3>1, <3>2
  <2> QED
    BY <2>10, <2>11, <2>12 DEF PoolInv
<1>3. ASSUME NEW c \in Conns, Allocate(c) PROVE PoolInv'
  <2>1. CASE UNCHANGED <<available, owner>>
    BY <1>1, <2>1
  <2>2. CASE /\ available # <<>>
             /\ owner' = [owner EXCEPT ![Last(available)] = ClientOf(c)]
             /\ available' = Front(available)
    <3> DEFINE n == Len(available)  i == available[n]
    <3>1. /\ n \in Nat \ {0} /\ Len(available') = n - 1
          /\ \A k \in 1..(n - 1) : available'[k] = available[k]
          /\ \A k \in 1..n : available[k] \in Ips
      <4>1. available \in Seq(Ips) /\ n \in Nat \ {0}
        BY <2>2, EmptySeq DEF TypeOK
      <4>2. \A k \in 1..n : available[k] \in Ips
        BY <4>1, ElementOfSeq
      <4>3. 1 \in Int /\ n - 1 \in Int /\ \A k \in 1..(n - 1) : k \in 1..n
        BY <4>1
      <4>4. /\ Len(SubSeq(available, 1, n - 1)) = IF 1 <= n - 1 THEN (n - 1) - 1 + 1 ELSE 0
            /\ \A k \in 1..((n - 1) - 1 + 1) : SubSeq(available, 1, n - 1)[k] = available[1 + k - 1]
        BY <4>2, <4>3, SubSeqProperties
      <4>5. available' = SubSeq(available, 1, n - 1)
        BY <2>2 DEF Front
      <4> HIDE DEF n
      <4>6. (n - 1) - 1 + 1 = n - 1 /\ \A k \in 1..(n - 1) : 1 + k - 1 = k
        BY <4>1
      <4>7. Len(available') = n - 1
        BY <4>1, <4>4, <4>5
      <4>8. \A k \in 1..(n - 1) : available'[k] = available[k]
        BY Zenon, <4>4, <4>5, <4>6
      <4> QED
        BY <4>1, <4>2, <4>7, <4>8
    <3>2. owner' = [owner EXCEPT ![i] = ClientOf(c)]
      BY <2>2 DEF Last
    <3> HIDE DEF n, i
    <3>3. n \in 1..n /\ i \in Ips /\ available[n] = i
      BY <3>1 DEF i
    <3>4. \A j \in Ips : owner'[j] = IF j = i THEN ClientOf(c) ELSE owner[j]
      BY <3>2, <3>3 DEF TypeOK
    <3>5. \A k \in 1..(n - 1) : k \in 1..n /\ available[k] # i
      BY <3>1, <3>3 DEF LeaseInv, PoolInv, n
    <3>6. \A k \in 1..Len(available') : owner'[available'[k]] = None
      BY <3>1, <3>4, <3>5 DEF LeaseInv, PoolInv, n
    <3>7. \A k, l \in 1..Len(available') : available'[k] = available'[l] => k = l
      BY <3>1, <3>5 DEF LeaseInv, PoolInv, n
    <3>8. ASSUME NEW j \in Ips, owner'[j] = None
          PROVE  \E k \in 1..Len(available') : available'[k] = j
      <4>1. j # i /\ owner[j] = None
        BY <3>4, <3>8
      <4>2. PICK k \in 1..n : available[k] = j
        BY <4>1 DEF LeaseInv, PoolInv, n
      <4>3. k \in 1..(n - 1)
        BY <3>1, <3>3, <4>1, <4>2
      <4> QED
        BY <3>1, <4>2, <4>3
    <3> QED
      BY <3>6, <3>7, <3>8 DEF PoolInv
  <2> QED
    BY <1>3, <2>1, <2>2 DEF Allocate, pool
<1>4. ASSUME NEW c \in Conns,
             \/ Reclaim(c) \/ LockAvailable(c) \/ Register(c) \/ CheckOwner(c)
             \/ Unregister(c) \/ Handshake(c) \/ AbortEarly(c) \/ Close(c)
      PROVE  UNCHANGED <<available, owner>>
  BY <1>4 DEF Reclaim, LockAvailable, Register, CheckOwner, Unregister, Handshake,
              AbortEarly, Close, pool
<1>5. ASSUME NEW i \in Ips, RlRead(i) \/ Expire(i) PROVE UNCHANGED <<available, owner>>
  BY <1>5 DEF RlRead, Expire, pool
<1>6. ASSUME RlSend \/ RlEvict \/ UNCHANGED vars PROVE UNCHANGED <<available, owner>>
  BY <1>6 DEF RlSend, RlEvict, vars, pool
<1> QED
  BY <1>1, <1>2, <1>3, <1>4, <1>5, <1>6 DEF Next, Session

(* A step keeps what sessions rely on between their steps, and the         *)
(* uniqueness of leases.                                                   *)
LEMMA SessionStep == TypeOK /\ LeaseInv /\ [Next]_vars => SessionInv' /\ OneLeasePerClient'
<1> SUFFICES ASSUME TypeOK, LeaseInv, [Next]_vars PROVE SessionInv' /\ OneLeasePerClient'
  OBVIOUS
<1> USE ClientOfType, NoneIsNothing DEF TypeOK, LeaseInv, SessionInv, OneLeasePerClient
<1> HIDE DEF PoolInv
<1> USE DEF Goto, pool, locks
<1>1. ASSUME NEW c \in Conns, Handshake(c) \/ LockAvailable(c) \/ AbortEarly(c) \/ Close(c)
      PROVE  SessionInv' /\ OneLeasePerClient'
  BY <1>1 DEF Handshake, LockAvailable, AbortEarly, Close
<1>2. ASSUME NEW c \in Conns, Reclaim(c) PROVE SessionInv' /\ OneLeasePerClient'
  BY <1>2 DEF Reclaim, Active
<1>3. ASSUME NEW c \in Conns, ReclaimFinish(c) PROVE SessionInv' /\ OneLeasePerClient'
  BY <1>3 DEF ReclaimFinish
<1>4. ASSUME NEW c \in Conns, Allocate(c) PROVE SessionInv' /\ OneLeasePerClient'
  <2>1. \A d \in Conns : pc[d] # "reclaiming"
    BY <1>4 DEF Allocate
  <2>2. ASSUME NEW i \in Ips, owner[i] = ClientOf(c), Grant(c, i), UNCHANGED <<available, owner>>
        PROVE  SessionInv' /\ OneLeasePerClient'
    BY <1>4, <2>1, <2>2 DEF Allocate, Grant
  <2>3. CASE /\ available # <<>> /\ Grant(c, Last(available))
             /\ \A j \in Ips : owner[j] # ClientOf(c)
             /\ owner' = [owner EXCEPT ![Last(available)] = ClientOf(c)]
    <3>1. PICK i \in Ips : i = Last(available) /\ owner[i] = None
      BY <2>3, EmptySeq DEF PoolInv, Last
    <3> QED
      BY <1>4, <2>1, <2>3, <3>1 DEF Allocate, Grant
  <2>4. CASE Goto(c, "done") /\ UNCHANGED <<pool, ip>>
    BY <1>4, <2>4 DEF Allocate
  <2> QED
    BY <1>4, <2>2, <2>3, <2>4 DEF Allocate
<1>5. ASSUME NEW c \in Conns, Register(c) PROVE SessionInv' /\ OneLeasePerClient'
  BY <1>5 DEF Register, SendersWritable
<1>6. ASSUME NEW c \in Conns, CheckOwner(c) PROVE SessionInv' /\ OneLeasePerClient'
  BY <1>6 DEF CheckOwner
<1>7. ASSUME NEW c \in Conns, Unregister(c) PROVE SessionInv' /\ OneLeasePerClient'
  BY <1>7 DEF Unregister, SendersWritable
<1>8. ASSUME NEW i \in Ips, Expire(i) PROVE SessionInv' /\ OneLeasePerClient'
  BY <1>8 DEF Expire, Holders
<1>9. ASSUME NEW i \in Ips, RlRead(i) PROVE SessionInv' /\ OneLeasePerClient'
  BY <1>9 DEF RlRead
<1>10. CASE RlSend
  BY <1>10 DEF RlSend
<1>11. CASE RlEvict
  BY <1>11 DEF RlEvict, SendersWritable
<1>12. CASE UNCHANGED vars
  BY <1>12 DEF vars
<1> QED
  BY Zenon, <1>1, <1>2, <1>3, <1>4, <1>5, <1>6, <1>7, <1>8, <1>9, <1>10, <1>11, <1>12
     DEF Next, Session

\* The leases and the sessions stay consistent in every behaviour.
LEMMA LeaseInvariant == Spec => []LeaseInv
<1>1. Init => LeaseInv
  <2> SUFFICES ASSUME Init PROVE LeaseInv
    OBVIOUS
  <2>1. /\ available \in Seq(Ips)
        /\ \A k, l \in 1..Len(available) : available[k] = available[l] => k = l
        /\ \A i \in Ips : \E k \in 1..Len(available) : available[k] = i
    BY Enumerations, TunServerAssumption DEF Init
  <2>2. \A k \in 1..Len(available) : available[k] \in Ips
    BY <2>1, ElementOfSeq
  <2>3. PoolInv
    BY <2>1, <2>2 DEF Init, PoolInv
  <2>4. SessionInv /\ OneLeasePerClient
    BY DEF Init, SessionInv, OneLeasePerClient
  <2> QED
    BY <2>3, <2>4 DEF LeaseInv
<1>2. TypeOK /\ LeaseInv /\ [Next]_vars => LeaseInv'
  BY PoolStep, SessionStep DEF LeaseInv
<1> QED
  BY <1>1, <1>2, TypeCorrect, PTL DEF Spec

(* No address of the pool is lost or handed out twice: it is leased, or    *)
(* available exactly once (IpPool's two collections under two locks).      *)
THEOREM PoolStaysPartitioned == Spec => []PoolPartition
<1>1. TypeOK /\ LeaseInv => PoolPartition
  <2> SUFFICES ASSUME TypeOK, LeaseInv, NEW i \in Ips
               PROVE  Cardinality({k \in DOMAIN available : available[k] = i})
                        = IF owner[i] = None THEN 1 ELSE 0
    BY DEF PoolPartition
  <2> DEFINE At == {k \in DOMAIN available : available[k] = i}
  <2>1. DOMAIN available = 1..Len(available)
    BY LenProperties DEF TypeOK
  <2>2. CASE owner[i] = None
    <3>1. PICK k \in 1..Len(available) : available[k] = i
      BY <2>2 DEF LeaseInv, PoolInv
    <3>2. At = {k}
      BY <2>1, <3>1 DEF LeaseInv, PoolInv
    <3> QED
      BY Zenon, <2>2, <3>2, FS_Singleton
  <2>3. CASE owner[i] # None
    <3>1. At = {}
      BY <2>1, <2>3 DEF LeaseInv, PoolInv
    <3> QED
      BY <2>3, <3>1, FS_EmptySet
  <2> QED
    BY <2>2, <2>3
<1> QED
  BY <1>1, TypeCorrect, LeaseInvariant, PTL

(* However its sessions overlap, a client has at most one lease (allocate  *)
(* extends the lease it finds).                                            *)
THEOREM LeaseIsSticky == Spec => []OneLeasePerClient
<1>1. LeaseInv => OneLeasePerClient
  BY DEF LeaseInv
<1> QED
  BY <1>1, LeaseInvariant, PTL

(* The sender registered under an address belongs to the client that       *)
(* leases it: run_read_loop never routes a packet to another client.       *)
THEOREM RoutingFollowsLease == Spec => []RoutedToLeaseholder
<1>1. LeaseInv => RoutedToLeaseholder
  BY DEF LeaseInv, SessionInv, RoutedToLeaseholder, Active
<1> QED
  BY <1>1, LeaseInvariant, PTL

(* A session that is over has no sender left in client_senders, whichever  *)
(* way it ended: the owner check of unregister_client never skips the      *)
(* removal that is due.                                                    *)
THEOREM TeardownIsComplete == Spec => []NoSenderAfterTeardown
<1>1. LeaseInv => NoSenderAfterTeardown
  BY DEF LeaseInv, SessionInv, NoSenderAfterTeardown, Active
<1> QED
  BY <1>1, LeaseInvariant, PTL

(* unregister_client removes no registration but the one of the session    *)
(* that calls it.                                                          *)
THEOREM TeardownIsOwn == Spec => TeardownEvictsOnlyItself
<1>1. TypeOK /\ [Next]_vars => [EvictsOnlyOwn]_vars
  <2> SUFFICES ASSUME TypeOK, Next, NEW c \in Conns, pc[c] = "unregister", pc'[c] = "done",
                      NEW i \in Ips
               PROVE  senders'[i] = senders[i] \/ senders[i] = c
    BY DEF EvictsOnlyOwn
  <2> USE DEF TypeOK, Goto, pool, locks
  <2>1. ASSUME NEW d \in Conns, Unregister(d)
        PROVE  senders'[i] = senders[i] \/ senders[i] = c
    <3>1. d = c
      BY <2>1 DEF Unregister
    <3> QED
      BY <2>1, <3>1 DEF Unregister
  <2>2. ASSUME NEW d \in Conns, Register(d) PROVE FALSE
    BY <2>2 DEF Register
  <2>3. ASSUME NEW d \in Conns,
               \/ Reclaim(d) \/ ReclaimFinish(d) \/ LockAvailable(d) \/ Allocate(d)
               \/ CheckOwner(d) \/ Handshake(d) \/ AbortEarly(d) \/ Close(d)
        PROVE  senders' = senders
    BY <2>3 DEF Reclaim, ReclaimFinish, LockAvailable, Allocate, CheckOwner, Handshake,
                AbortEarly, Close
  <2>4. ASSUME NEW j \in Ips, RlRead(j) \/ Expire(j) PROVE senders' = senders
    BY <2>4 DEF RlRead, Expire
  <2>5. CASE RlSend
    BY <2>5 DEF RlSend
  <2>6. CASE RlEvict
    BY <2>6 DEF RlEvict
  <2> QED
    BY <2>1, <2>2, <2>3, <2>4, <2>5, <2>6 DEF Next, Session
<1> QED
  BY <1>1, TypeCorrect, PTL DEF Spec, TeardownEvictsOnlyItself

(* What the run safety checks of the lease pool on a few clients, for      *)
(* every set of clients, connections and addresses: the conjunction of the *)
(* invariants above.                                                       *)
THEOREM LeasesStaySound == Spec => []LeasesSound
<1>1. TypeOK /\ PoolPartition /\ OneLeasePerClient /\ RoutedToLeaseholder
        /\ NoSenderAfterTeardown => LeasesSound
  BY DEF LeasesSound
<1> QED
  BY <1>1, TypeCorrect, PoolStaysPartitioned, LeaseIsSticky, RoutingFollowsLease,
     TeardownIsComplete, PTL
===============================================================================

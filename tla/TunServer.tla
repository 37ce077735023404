------------------------------ MODULE TunServer ------------------------------
(***************************************************************************)
(* The TUN address pool and downlink routing of rvpn-server (tun_server.rs)*)
(* under the sessions that use it (MultiplexerSession::run, handler.rs).   *)
(* A session takes a lease for its client's identity, registers the sender *)
(* of its downlink queue under the leased address, runs, and unregisters.  *)
(* Sessions of one client overlap when it reconnects.  One read loop routes*)
(* packets from the TUN device to the registered senders.                  *)
(*                                                                         *)
(* The two std mutexes of IpPool are modelled by their holders, the tokio  *)
(* RwLock of client_senders by the set of sessions inside reclaim_expired. *)
(* Time is the event that a lease's hour is over.                          *)
(***************************************************************************)
EXTENDS Naturals, Sequences, FiniteSets, SequencesExt, TunPeers

Conns == (Clients \X {1}) \cup (Reconnecting \X (1..Sessions))
ClientOf(c) == c[1]  \* tun_client_id: the identity behind a session

VARIABLES
    available,         \* IpPool::available, popped and pushed at its end
    owner, expired,    \* IpPool::allocated: the lease of an address, its age
    senders,           \* client_senders: whose queue an address leads to
    pc, ip,            \* each session: where it is, its allocated_ip_for_tun
    reclaimed,         \* addresses a session inside reclaim_expired collected
    available_lock, allocated_lock,  \* holders of the pool's mutexes
    rl                 \* the read loop: where it is, and the sender it cloned

pool == <<available, owner, expired>>
locks == <<available_lock, allocated_lock>>
vars == <<pool, senders, pc, ip, reclaimed, locks, rl>>

TypeOK ==
    /\ available \in Seq(Ips)
    /\ owner \in [Ips -> Clients \cup {None}]
    /\ expired \in SUBSET Ips
    /\ senders \in [Ips -> Conns \cup {None}]
    /\ pc \in [Conns -> {"connect", "reclaim", "reclaiming", "allocate", "allocating",
                         "register", "running", "closing", "unregister", "done"}]
    /\ ip \in [Conns -> Ips \cup {None}]
    /\ \A c \in Conns : ip[c] = None =>
         pc[c] \notin {"register", "running", "closing", "unregister"}
    /\ reclaimed \in [Conns -> SUBSET Ips]
    /\ available_lock \in Conns \cup {None} /\ allocated_lock \in Conns \cup {None}
    /\ rl \in [pc : {"read", "send", "evict"}, ip : Ips \cup {None}, conn : Conns \cup {None}]

RlIdle == [pc |-> "read", ip |-> None, conn |-> None]

Init ==
    /\ available \in SetToSeqs(Ips)
    /\ owner = [i \in Ips |-> None] /\ expired = {}
    /\ senders = [i \in Ips |-> None]
    /\ pc = [c \in Conns |-> "connect"] /\ ip = [c \in Conns |-> None]
    /\ reclaimed = [c \in Conns |-> {}]
    /\ available_lock = None /\ allocated_lock = None
    /\ rl = RlIdle

Goto(c, l) == pc' = [pc EXCEPT ![c] = l]

\* A write lock on client_senders needs every read guard to be gone.
SendersWritable == \A c \in Conns : pc[c] # "reclaiming"

Active(i) == senders[i] # None
Holders(i) == {c \in Conns : ip[c] = i /\ pc[c] \in {"register", "closing", "unregister"}}
-----------------------------------------------------------------------------
(* A session. *)

Handshake(c) ==
    /\ pc[c] = "connect"
    /\ Goto(c, "reclaim")
    /\ UNCHANGED <<pool, senders, ip, reclaimed, locks, rl>>

\* Sessions do not keep a lease alive.
ReclaimIgnoringSessions(c) ==
    LET gone == {i \in Ips : owner[i] # None /\ i \in expired} IN
    /\ pc[c] = "reclaim" /\ allocated_lock = None
    /\ IF gone = {}
       THEN Goto(c, "allocate") /\ UNCHANGED <<reclaimed, allocated_lock>>
       ELSE /\ Goto(c, "reclaiming")
            /\ reclaimed' = [reclaimed EXCEPT ![c] = gone]
            /\ allocated_lock' = c
    /\ UNCHANGED <<pool, senders, ip, available_lock, rl>>

\* reclaim_expired takes the lock on allocated, renews the expired leases of
\* registered addresses and collects the others.
Reclaim(c) ==
    LET gone == {i \in Ips : owner[i] # None /\ i \in expired /\ ~Active(i)} IN
    /\ pc[c] = "reclaim" /\ allocated_lock = None
    /\ expired' = {i \in expired : ~Active(i)}
    /\ IF gone = {}
       THEN Goto(c, "allocate") /\ UNCHANGED <<reclaimed, allocated_lock>>
       ELSE /\ Goto(c, "reclaiming")
            /\ reclaimed' = [reclaimed EXCEPT ![c] = gone]
            /\ allocated_lock' = c
    /\ UNCHANGED <<available, owner, senders, ip, available_lock, rl>>

\* The addresses go back to the pool but their leases stay.
ReclaimKeepingLeases(c) ==
    /\ pc[c] = "reclaiming" /\ available_lock = None
    /\ \E order \in SetToSeqs(reclaimed[c]) : available' = available \o order
    /\ reclaimed' = [reclaimed EXCEPT ![c] = {}]
    /\ allocated_lock' = None
    /\ Goto(c, "allocate")
    /\ UNCHANGED <<owner, expired, senders, ip, available_lock, rl>>

\* It then takes the lock on available, still holding the first; the order
\* in which the addresses return is that of the hash map.
ReclaimFinish(c) ==
    /\ pc[c] = "reclaiming" /\ available_lock = None
    /\ \E order \in SetToSeqs(reclaimed[c]) : available' = available \o order
    /\ owner' = [i \in Ips |-> IF i \in reclaimed[c] THEN None ELSE owner[i]]
    /\ expired' = expired \ reclaimed[c]
    /\ reclaimed' = [reclaimed EXCEPT ![c] = {}]
    /\ allocated_lock' = None
    /\ Goto(c, "allocate")
    /\ UNCHANGED <<senders, ip, available_lock, rl>>

\* allocate takes the locks in the opposite order.
LockAvailable(c) ==
    /\ pc[c] = "allocate" /\ available_lock = None
    /\ available_lock' = c
    /\ Goto(c, "allocating")
    /\ UNCHANGED <<pool, senders, ip, reclaimed, allocated_lock, rl>>

Grant(c, i) ==
    /\ ip' = [ip EXCEPT ![c] = i]
    /\ expired' = expired \ {i}
    /\ Goto(c, "register")

\* A reconnecting client gets a second lease.
AllocateAlwaysFresh(c) ==
    /\ pc[c] = "allocating" /\ allocated_lock = None
    /\ available_lock' = None
    /\ available # <<>>
    /\ Grant(c, Last(available))
    /\ owner' = [owner EXCEPT ![Last(available)] = ClientOf(c)]
    /\ available' = Front(available)
    /\ UNCHANGED <<senders, reclaimed, allocated_lock, rl>>

\* An exhausted pool is not noticed.
AllocateUnchecked(c) ==
    LET mine == {i \in Ips : owner[i] = ClientOf(c)} IN
    /\ pc[c] = "allocating" /\ allocated_lock = None
    /\ available_lock' = None
    /\ \/ \E i \in mine : Grant(c, i) /\ UNCHANGED <<available, owner>>
       \/ /\ mine = {} /\ available # <<>>
          /\ Grant(c, Last(available))
          /\ owner' = [owner EXCEPT ![Last(available)] = ClientOf(c)]
          /\ available' = Front(available)
       \/ /\ mine = {} /\ available = <<>>
          /\ Goto(c, "register")
          /\ UNCHANGED <<pool, ip>>
    /\ UNCHANGED <<senders, reclaimed, allocated_lock, rl>>

\* The client's own lease if it has one, else the last available address,
\* else an error: the session runs on without an address.
Allocate(c) ==
    LET mine == {i \in Ips : owner[i] = ClientOf(c)} IN
    /\ pc[c] = "allocating" /\ allocated_lock = None
    /\ available_lock' = None
    /\ \/ \E i \in mine : Grant(c, i) /\ UNCHANGED <<available, owner>>
       \/ /\ mine = {} /\ available # <<>>
          /\ Grant(c, Last(available))
          /\ owner' = [owner EXCEPT ![Last(available)] = ClientOf(c)]
          /\ available' = Front(available)
       \/ /\ mine = {} /\ available = <<>>
          /\ Goto(c, "done")
          /\ UNCHANGED <<pool, ip>>
    /\ UNCHANGED <<senders, reclaimed, allocated_lock, rl>>

\* register_client overwrites what an older session registered.
Register(c) ==
    /\ pc[c] = "register" /\ SendersWritable
    /\ senders' = [senders EXCEPT ![ip[c]] = c]
    /\ Goto(c, "running")
    /\ UNCHANGED <<pool, ip, reclaimed, locks, rl>>

\* An error before register_client ends the session with its lease in place.
AbortEarly(c) ==
    /\ pc[c] = "register"
    /\ Goto(c, "done")
    /\ UNCHANGED <<pool, senders, ip, reclaimed, locks, rl>>

\* The select! ends: the queue's receiver is dropped.
Close(c) ==
    /\ pc[c] = "running"
    /\ Goto(c, "closing")
    /\ UNCHANGED <<pool, senders, ip, reclaimed, locks, rl>>

\* unregister_client: the owner check, under the lock on allocated.
CheckOwner(c) ==
    /\ pc[c] = "closing" /\ allocated_lock = None
    /\ Goto(c, IF owner[ip[c]] \in {None, ClientOf(c)} THEN "unregister" ELSE "done")
    /\ UNCHANGED <<pool, senders, ip, reclaimed, locks, rl>>

\* The sender is removed whoever registered it.
UnregisterAny(c) ==
    /\ pc[c] = "unregister" /\ SendersWritable
    /\ senders' = [senders EXCEPT ![ip[c]] = None]
    /\ Goto(c, "done")
    /\ UNCHANGED <<pool, ip, reclaimed, locks, rl>>

\* The sender is left behind.
UnregisterNothing(c) ==
    /\ pc[c] = "unregister" /\ SendersWritable
    /\ Goto(c, "done")
    /\ UNCHANGED <<pool, senders, ip, reclaimed, locks, rl>>

\* The sender is removed only if it is still this session's.
Unregister(c) ==
    /\ pc[c] = "unregister" /\ SendersWritable
    /\ senders' = [senders EXCEPT ![ip[c]] = IF @ = c THEN None ELSE @]
    /\ Goto(c, "done")
    /\ UNCHANGED <<pool, ip, reclaimed, locks, rl>>
-----------------------------------------------------------------------------
(* The read loop. *)

\* A packet for i: clone its sender under the read lock, then let go.
RlRead(i) ==
    /\ rl.pc = "read" /\ Active(i)
    /\ rl' = [pc |-> "send", ip |-> i, conn |-> senders[i]]
    /\ UNCHANGED <<pool, senders, pc, ip, reclaimed, locks>>

\* try_send: delivered or dropped on a full queue, or the queue is closed.
RlSend ==
    /\ rl.pc = "send"
    /\ rl' = IF pc[rl.conn] = "running" THEN RlIdle ELSE [rl EXCEPT !.pc = "evict"]
    /\ UNCHANGED <<pool, senders, pc, ip, reclaimed, locks>>

\* "removing stale sender": whatever is registered by now.
RlEvict ==
    /\ rl.pc = "evict" /\ SendersWritable
    /\ senders' = [senders EXCEPT ![rl.ip] = None]
    /\ rl' = RlIdle
    /\ UNCHANGED <<pool, pc, ip, reclaimed, locks>>

\* An hour passes since a lease was granted or renewed.  The steps between
\* allocation and registration, and those of a teardown, take far less.
Expire(i) ==
    /\ owner[i] # None /\ i \notin expired
    /\ Holders(i) = {} /\ allocated_lock = None
    /\ expired' = expired \cup {i}
    /\ UNCHANGED <<available, owner, senders, pc, ip, reclaimed, locks, rl>>
-----------------------------------------------------------------------------
Session(c) ==
    \/ Reclaim(c) \/ ReclaimFinish(c) \/ LockAvailable(c) \/ Allocate(c)
    \/ Register(c) \/ CheckOwner(c) \/ Unregister(c)

Next ==
    \/ \E c \in Conns : Session(c) \/ Handshake(c) \/ AbortEarly(c) \/ Close(c)
    \/ \E i \in Ips : RlRead(i) \/ Expire(i)
    \/ RlSend \/ RlEvict

\* The threads run: a session that can take its next step takes it.
Spec == Init /\ [][Next]_vars
FairSpec == Spec /\ \A c \in Conns : WF_vars(Session(c))
-----------------------------------------------------------------------------
(* No address is lost or handed out twice: it is leased, or available      *)
(* exactly once (IpPool, whose addresses move between two collections under*)
(* two locks).                                                             *)
PoolPartition ==
    \A i \in Ips :
        Cardinality({k \in DOMAIN available : available[k] = i})
            = IF owner[i] = None THEN 1 ELSE 0

(* Sticky leases: however its sessions overlap, a client has at most one   *)
(* lease (allocate extends the one it finds).                              *)
OneLeasePerClient ==
    \A i, j \in Ips : owner[i] = owner[j] /\ owner[i] # None => i = j

(* Downlink packets reach the leaseholder: the sender registered under an  *)
(* address belongs to the client that leases it, through reclaims,         *)
(* reconnects and late teardowns.                                          *)
RoutedToLeaseholder ==
    \A i \in Ips : Active(i) => owner[i] = ClientOf(senders[i])

(* A session that is over leaves no sender behind, which would keep its    *)
(* lease alive for ever (reclaim_expired treats it as active).             *)
NoSenderAfterTeardown ==
    \A i \in Ips : Active(i) => pc[senders[i]] # "done"

(* Leases and registrations are consistent with each other, whatever the   *)
(* sessions of all clients are doing.                                      *)
LeasesSound ==
    /\ TypeOK /\ PoolPartition /\ OneLeasePerClient
    /\ RoutedToLeaseholder /\ NoSenderAfterTeardown

(* A teardown never takes away the registration of another session         *)
(* ("a stale connection's cleanup must not evict it", unregister_client).  *)
EvictsOnlyOwn ==
    \A c \in Conns : pc[c] = "unregister" /\ pc'[c] = "done"
      => \A i \in Ips : senders'[i] = senders[i] \/ senders[i] = c
TeardownEvictsOnlyItself == [][EvictsOnlyOwn]_vars

(* The test stale_unregister_does_not_evict_new_connection: "new sender    *)
(* must survive".  The registration of a running session goes only when a  *)
(* newer session replaces it.                                              *)
NewSenderSurvives ==
    [][\A i \in Ips : Active(i) /\ pc[senders[i]] = "running" => senders'[i] # None]_vars

(* The doc of allocate: it allocates an address for a client.  Every call  *)
(* of allocate_ip returns.                                                 *)
AllocateReturns ==
    \A c \in Conns : pc[c] = "reclaim" ~> pc[c] \in {"register", "done"}
=============================================================================

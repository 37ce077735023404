-------------------------- MODULE TunnelPool_proofs --------------------------
(***************************************************************************)
(* Proofs about TunnelPool, for every pool size and maximum, flow cap,     *)
(* finite set of tunnels and of connections, and counter width.            *)
(***************************************************************************)
EXTENDS TunnelPool, FiniteSetTheorems, TLAPS

\* Time limits of the provers, for a slow machine.
USE SMTT(10), ZenonT(20)

(* A tunnel in the pool is watched; a connection past pick_tunnel holds a  *)
(* tunnel that was established; one in flow_states is past its insert; a   *)
(* tunnel not established yet has never been counted on.                   *)
ShapeInv ==
    /\ \A t \in Tunnels : InPool(t) => watcher[t] = "polling"
    /\ \A t \in Tunnels : entry[t] = "none" => life[t] = "none" /\ flow_count[t] = 0 /\ stale[t] = 0
    /\ \A f \in Flows : on[f] # NoTunnel => entry[on[f]] # "none"
    /\ \A f \in Flows : pc[f] \in {"picked", "opening", "inserted", "open"} => on[f] # NoTunnel
    /\ \A f \in listed : pc[f] \in {"inserted", "open"}

PoolInv == ShapeInv /\ ConnectingExact /\ RefillPending
-----------------------------------------------------------------------------
\* fetch_add of one, and fetch_sub of one, on a counter of Usize values.
LEMMA Wraps ==
    ASSUME NEW x \in 0..Usize - 1
    PROVE  /\ (x + 1) % Usize = IF x + 1 = Usize THEN 0 ELSE x + 1
           /\ (x + (Usize - 1)) % Usize = IF x = 0 THEN Usize - 1 ELSE x - 1
<1>1. Usize \in Nat /\ Usize > 0
  BY PoolAssumption, FS_CardinalityType
<1>2. (x + 1) % Usize = IF x + 1 = Usize THEN 0 ELSE x + 1
  BY <1>1
<1>3. (x + (Usize - 1)) % Usize = IF x = 0 THEN Usize - 1 ELSE x - 1
  BY <1>1
<1> QED
  BY <1>2, <1>3

\* Every set of connections can be counted.
LEMMA CountFlows ==
    ASSUME NEW S \in SUBSET Flows
    PROVE  IsFiniteSet(S) /\ Cardinality(S) \in Nat /\ Cardinality(S) <= Cardinality(Flows)
BY PoolAssumption, FS_Subset, FS_CardinalityType

\* Every set of tunnels can be counted.
LEMMA CountTunnels ==
    ASSUME NEW S \in SUBSET Tunnels
    PROVE  IsFiniteSet(S) /\ Cardinality(S) \in Nat
BY PoolAssumption, FS_Subset, FS_CardinalityType

\* The bounds behind the counter: its width exceeds what it counts.
LEMMA Widths ==
    /\ PoolSize \in Nat /\ PoolSize > 0 /\ PoolMax \in Nat /\ MaxFlows \in Nat
    /\ Usize \in Nat /\ MaxStale \in Nat /\ Cardinality(Flows) \in Nat
    /\ Usize > Cardinality(Flows) + MaxStale /\ NoTunnel \notin Tunnels
BY PoolAssumption, FS_CardinalityType

\* One connection starts or stops dialing.
LEMMA DialingChanges ==
    ASSUME TypeOK, NEW f \in Flows, NEW l, Goto(f, l)
    PROVE  /\ Cardinality(Dialing) \in Nat /\ Cardinality(Dialing') \in Nat
           /\ (pc[f] = "dialing") => Cardinality(Dialing) > 0
           /\ (pc[f] = "dialing" /\ l # "dialing") => Cardinality(Dialing') = Cardinality(Dialing) - 1
           /\ (pc[f] # "dialing" /\ l = "dialing") => Cardinality(Dialing') = Cardinality(Dialing) + 1
           /\ (pc[f] # "dialing" /\ l # "dialing") => Cardinality(Dialing') = Cardinality(Dialing)
<1>1. Dialing \in SUBSET Flows
  BY DEF Dialing
<1>2. IsFiniteSet(Dialing) /\ Cardinality(Dialing) \in Nat
  BY <1>1, CountFlows
<1>3. Dialing' = IF l = "dialing" THEN Dialing \cup {f} ELSE Dialing \ {f}
  BY DEF Dialing, Goto, TypeOK
<1>4. f \in Dialing <=> pc[f] = "dialing"
  BY DEF Dialing
<1>5. Cardinality(Dialing \cup {f}) = IF f \in Dialing THEN Cardinality(Dialing) ELSE Cardinality(Dialing) + 1
  BY <1>2, FS_AddElement
<1>6. Cardinality(Dialing \ {f}) = IF f \in Dialing THEN Cardinality(Dialing) - 1 ELSE Cardinality(Dialing)
  BY <1>2, FS_RemoveElement
<1>7. f \in Dialing => Cardinality(Dialing) > 0
  <2>1. Dialing \ {f} \in SUBSET Flows
    BY <1>1
  <2>2. Cardinality(Dialing \ {f}) \in Nat
    BY <2>1, CountFlows
  <2> QED
    BY <1>2, <1>6, <2>2
<1> QED
  BY <1>2, <1>3, <1>4, <1>5, <1>6, <1>7

\* ensure_target covers the target and counts each handshake it starts.
LEMMA EnsureCovers ==
    ASSUME TypeOK, NEW m \in Nat, NEW e \in Nat, EnsureTarget(m, e)
    PROVE  \E d \in Nat : /\ connecting' = connecting + d /\ spawned' = spawned + d
                          /\ m + connecting' >= PoolSize
<1> DEFINE d == IF m + (connecting + e) < PoolSize THEN PoolSize - (m + (connecting + e)) ELSE 0
<1>1. connecting \in Nat /\ spawned \in Nat
  BY DEF TypeOK
<1>2. d \in Nat /\ m + (connecting + e) + d >= PoolSize
  BY <1>1, Widths
<1>3. connecting' = connecting + e + d /\ spawned' = spawned + e + d
  BY DEF EnsureTarget
<1> HIDE DEF d
<1>4. e + d \in Nat /\ connecting' = connecting + (e + d) /\ spawned' = spawned + (e + d)
      /\ m + connecting' >= PoolSize
  BY <1>1, <1>2, <1>3, Widths
<1> QED
  BY <1>4

\* So does the end of a successful handshake.
LEMMA JoinedCovers ==
    ASSUME TypeOK, connecting >= 1, NEW e \in {0, 1}, Joined(e)
    PROVE  \E d \in Nat : /\ connecting' = connecting - 1 + d /\ spawned' = spawned - e + d
                          /\ Cardinality(Assignable) + 1 + connecting' >= PoolSize
<1> DEFINE n == Cardinality(Assignable) + 1
           d == IF n + (connecting - 1) < PoolSize THEN PoolSize - (n + (connecting - 1)) ELSE 0
<1>1. n \in Nat
  <2>1. Assignable \in SUBSET Tunnels
    BY DEF Assignable
  <2> QED
    BY <2>1, CountTunnels
<1>2. connecting' = connecting - 1 + d /\ spawned' = spawned - e + d
  BY DEF Joined
<1> HIDE DEF n
<1>3. d \in Nat /\ n + (connecting - 1) + d >= PoolSize
  BY <1>1, Widths DEF TypeOK
<1> HIDE DEF d
<1>4. n + connecting' >= PoolSize
  BY <1>1, <1>2, <1>3, Widths DEF TypeOK
<1> QED
  BY <1>2, <1>3, <1>4 DEF n

\* A failed handshake is retried when the target is not covered without it.
LEMMA RetryCovers ==
    ASSUME TypeOK, connecting >= 1, NEW e \in {0, 1}, RetryBelowTarget(e)
    PROVE  \E d \in Nat : /\ connecting' = connecting - 1 + d /\ spawned' = spawned - e + d
                          /\ Cardinality(Assignable) < PoolSize => connecting' > 0
<1> DEFINE n == Cardinality(Assignable)
           d == IF n + (connecting - 1) < PoolSize THEN 1 ELSE 0
<1>1. n \in Nat
  <2>1. Assignable \in SUBSET Tunnels
    BY DEF Assignable
  <2> QED
    BY <2>1, CountTunnels
<1>2. connecting' = connecting - 1 + d /\ spawned' = spawned - e + d
  BY DEF RetryBelowTarget
<1> HIDE DEF n
<1>3. d \in Nat /\ (n < PoolSize => connecting - 1 + d > 0)
  BY <1>1, Widths DEF TypeOK
<1> HIDE DEF d
<1> QED
  BY <1>2, <1>3 DEF n

(* Types and the accounting of handshakes are kept together: `connecting`  *)
(* is decremented where a handshake ends, and stays a natural number       *)
(* because that handshake was counted.                                     *)
LEMMA AccountStep ==
    TypeOK /\ ConnectingExact /\ [Next]_vars => TypeOK' /\ ConnectingExact'
<1> SUFFICES ASSUME TypeOK, ConnectingExact, [Next]_vars PROVE TypeOK' /\ ConnectingExact'
  OBVIOUS
<1> USE Widths DEF tunnel, inner, flows
<1> DEFINE n == Cardinality(Assignable)
<1>a. n \in Nat
  <2>1. Assignable \in SUBSET Tunnels
    BY DEF Assignable
  <2> QED
    BY <2>1, CountTunnels
<1>b. Cardinality(Dialing) \in Nat /\ connecting = spawned + Cardinality(Dialing)
  <2>1. Dialing \in SUBSET Flows
    BY DEF Dialing
  <2> QED
    BY <2>1, CountFlows DEF ConnectingExact
<1>c. \A t \in Tunnels : Cardinality(Assignable \ {t}) \in Nat
  <2> TAKE t \in Tunnels
  <2>1. Assignable \ {t} \in SUBSET Tunnels
    BY DEF Assignable
  <2> QED
    BY <2>1, CountTunnels
<1>d. pc' = pc => Dialing' = Dialing
  BY DEF Dialing
<1>e. \A x \in 0..Usize - 1 : (x + 1) % Usize \in 0..Usize - 1
                             /\ (x + (Usize - 1)) % Usize \in 0..Usize - 1
  BY Wraps
<1> HIDE DEF n
<1>1. ASSUME NEW f \in Flows, PickUnderCap(f) PROVE TypeOK' /\ ConnectingExact'
  <2>1. PICK t \in Tunnels : Take(f, t)
    BY <1>1 DEF PickUnderCap, LeastLoaded, Assignable
  <2>2. Goto(f, "picked") /\ pc[f] = "idle" /\ EnsureTarget(n, 0)
    BY <1>1, <2>1 DEF PickUnderCap, Take, n
  <2>3. Cardinality(Dialing') = Cardinality(Dialing)
    BY <2>2, DialingChanges
  <2>4. connecting' \in Nat /\ spawned' \in Nat /\ connecting' = spawned' + Cardinality(Dialing')
    BY <1>a, <1>b, <2>2, <2>3 DEF EnsureTarget, TypeOK
  <2>5. entry' \in [Tunnels -> {"none", "active", "draining", "out"}]
    BY <1>1 DEF PickUnderCap, PruneDead, TypeOK
  <2>6. pc' \in [Flows -> {"idle", "dialing", "picked", "opening", "inserted", "open"}]
        /\ on' \in [Flows -> Tunnels \cup {NoTunnel}]
    BY <2>1 DEF Take, Goto, TypeOK
  <2> QED
    BY <1>1, <2>4, <2>5, <2>6 DEF PickUnderCap, TypeOK, ConnectingExact
<1>2. ASSUME NEW f \in Flows, PickAtCap(f) PROVE TypeOK' /\ ConnectingExact'
  <2>1. PICK t \in Tunnels : Take(f, t)
    BY <1>2 DEF PickAtCap, LeastLoaded, Assignable
  <2>2. PICK e \in {0, 1} : EnsureTarget(n, e)
    BY <1>2 DEF PickAtCap, n
  <2>3. Goto(f, "picked") /\ pc[f] = "idle"
    BY <1>2, <2>1 DEF PickAtCap, Take
  <2>4. Cardinality(Dialing') = Cardinality(Dialing)
    BY <2>3, DialingChanges
  <2>5. connecting' \in Nat /\ spawned' \in Nat /\ connecting' = spawned' + Cardinality(Dialing')
    BY <1>a, <1>b, <2>2, <2>4 DEF EnsureTarget, TypeOK
  <2>6. entry' \in [Tunnels -> {"none", "active", "draining", "out"}]
    BY <1>2 DEF PickAtCap, PruneDead, TypeOK
  <2>7. pc' \in [Flows -> {"idle", "dialing", "picked", "opening", "inserted", "open"}]
        /\ on' \in [Flows -> Tunnels \cup {NoTunnel}]
    BY <2>1 DEF Take, Goto, TypeOK
  <2> QED
    BY <1>2, <2>5, <2>6, <2>7 DEF PickAtCap, TypeOK, ConnectingExact
<1>3. ASSUME NEW f \in Flows, PickDial(f) PROVE TypeOK' /\ ConnectingExact'
  <2>1. Goto(f, "dialing") /\ pc[f] = "idle"
    BY <1>3 DEF PickDial
  <2>2. Cardinality(Dialing') = Cardinality(Dialing) + 1
    BY <2>1, DialingChanges
  <2>3. entry' \in [Tunnels -> {"none", "active", "draining", "out"}]
    BY <1>3 DEF PickDial, PruneDead, TypeOK
  <2> QED
    BY <1>3, <1>b, <2>1, <2>2, <2>3 DEF PickDial, Goto, TypeOK, ConnectingExact
<1>4. ASSUME NEW f \in Flows, NEW t \in Tunnels, DialOk(f, t) PROVE TypeOK' /\ ConnectingExact'
  <2>1. Goto(f, "picked") /\ pc[f] = "dialing" /\ Joined(0) /\ Take(f, t) /\ Establish(t)
    BY <1>4 DEF DialOk, Take
  <2>2. Cardinality(Dialing') = Cardinality(Dialing) - 1 /\ Cardinality(Dialing) > 0
    BY <2>1, DialingChanges
  <2>3. connecting' \in Nat /\ spawned' \in Nat /\ connecting' = spawned' + Cardinality(Dialing')
    BY <1>a, <1>b, <2>1, <2>2 DEF Joined, TypeOK, n
  <2>4. UNCHANGED <<flow_count, stale, listed>>
    BY <1>4 DEF DialOk
  <2> QED
    BY <2>1, <2>3, <2>4 DEF Take, Goto, Establish, TypeOK, ConnectingExact
<1>5. ASSUME NEW f \in Flows, DialFail(f) PROVE TypeOK' /\ ConnectingExact'
  <2>1. Goto(f, "idle") /\ pc[f] = "dialing" /\ RetryBelowTarget(0)
    BY <1>5 DEF DialFail
  <2>2. Cardinality(Dialing') = Cardinality(Dialing) - 1 /\ Cardinality(Dialing) > 0
    BY <2>1, DialingChanges
  <2>3. connecting' \in Nat /\ spawned' \in Nat /\ connecting' = spawned' + Cardinality(Dialing')
    BY <1>a, <1>b, <2>1, <2>2 DEF RetryBelowTarget, TypeOK, n
  <2> QED
    BY <1>5, <2>1, <2>3 DEF DialFail, Goto, TypeOK, ConnectingExact
<1>6. ASSUME NEW t \in Tunnels, ConnectOk(t) PROVE TypeOK' /\ ConnectingExact'
  <2>1. Dialing' = Dialing
    BY <1>6, <1>d DEF ConnectOk
  <2>2. connecting' \in Nat /\ spawned' \in Nat /\ connecting' = spawned' + Cardinality(Dialing')
    <3>1. Joined(1) /\ spawned > 0 /\ connecting >= 1
      BY <1>6, <1>b DEF ConnectOk, TypeOK
    <3>2. PICK d \in Nat : connecting' = connecting - 1 + d /\ spawned' = spawned - 1 + d
      BY <3>1, JoinedCovers
    <3> QED
      BY <1>b, <2>1, <3>1, <3>2 DEF TypeOK
  <2> QED
    BY <1>6, <2>2 DEF ConnectOk, Establish, TypeOK, ConnectingExact
<1>7. CASE ConnectFail
  <2>1. Dialing' = Dialing
    BY <1>7, <1>d DEF ConnectFail
  <2>2. connecting' \in Nat /\ spawned' \in Nat /\ connecting' = spawned' + Cardinality(Dialing')
    BY <1>a, <1>b, <1>7, <2>1 DEF ConnectFail, RetryBelowTarget, TypeOK, n
  <2> QED
    BY <1>7, <2>2 DEF ConnectFail, TypeOK, ConnectingExact
<1>8. ASSUME NEW t \in Tunnels, WatchDead(t) PROVE TypeOK' /\ ConnectingExact'
  <2>1. Dialing' = Dialing
    BY <1>8, <1>d DEF WatchDead
  <2>2. UNCHANGED inner \/ EnsureTarget(n, 0)
    BY <1>8 DEF WatchDead, n
  <2>3. connecting' \in Nat /\ spawned' \in Nat /\ connecting' = spawned' + Cardinality(Dialing')
    BY <1>a, <1>b, <2>1, <2>2 DEF EnsureTarget, TypeOK
  <2> QED
    BY <1>8, <2>3 DEF WatchDead, PruneDead, TypeOK, ConnectingExact
<1>9. ASSUME NEW t \in Tunnels, WatchRotate(t) PROVE TypeOK' /\ ConnectingExact'
  <2>1. Dialing' = Dialing
    BY <1>9, <1>d DEF WatchRotate
  <2>2. EnsureTarget(Cardinality(Assignable \ {t}), 0)
    BY <1>9 DEF WatchRotate
  <2>3. connecting' \in Nat /\ spawned' \in Nat /\ connecting' = spawned' + Cardinality(Dialing')
    BY <1>b, <1>c, <2>1, <2>2 DEF EnsureTarget, TypeOK
  <2> QED
    BY <1>9, <2>3 DEF WatchRotate, TypeOK, ConnectingExact
<1>10. ASSUME NEW t \in Tunnels, WatchDrained(t) \/ Shutdown(t) \/ Die(t) \/ LateFrame(t)
       PROVE  TypeOK' /\ ConnectingExact'
  <2>1. Dialing' = Dialing /\ UNCHANGED inner
    BY <1>10, <1>d DEF WatchDrained, Shutdown, Die, LateFrame
  <2>2. CASE WatchDrained(t) \/ Die(t)
    BY <2>1, <2>2 DEF WatchDrained, Die, TypeOK, ConnectingExact
  <2>3. CASE Shutdown(t)
    BY <2>1, <2>3 DEF Shutdown, TypeOK, ConnectingExact
  <2>4. CASE LateFrame(t)
    <3>1. flow_count' \in [Tunnels -> 0..Usize - 1]
      BY <2>4, <1>e DEF LateFrame, AddFlow, TypeOK
    <3>2. stale' \in [Tunnels -> 0..MaxStale]
      BY <2>4 DEF LateFrame, TypeOK
    <3> QED
      BY <2>1, <2>4, <3>1, <3>2 DEF LateFrame, TypeOK, ConnectingExact
  <2> QED
    BY <1>10, <2>2, <2>3, <2>4
<1>11. ASSUME NEW f \in Flows,
              \/ OpenFlow(f) \/ CreateFlowFails(f) \/ InsertState(f) \/ CountFlow(f)
              \/ RelayEnds(f) \/ AppCloses(f)
       PROVE  TypeOK' /\ ConnectingExact'
  <2>1. PICK l \in {"idle", "opening", "inserted", "open"} : Goto(f, l)
    BY <1>11 DEF OpenFlow, CreateFlowFails, InsertState, CountFlow, RelayEnds, AppCloses
  <2>2. pc[f] # "dialing"
    BY <1>11 DEF OpenFlow, CreateFlowFails, InsertState, CountFlow, RelayEnds, AppCloses
  <2>3. Cardinality(Dialing') = Cardinality(Dialing)
    BY <2>1, <2>2, DialingChanges
  <2>4. pc' \in [Flows -> {"idle", "dialing", "picked", "opening", "inserted", "open"}]
    BY <2>1 DEF Goto, TypeOK
  <2>5. UNCHANGED <<tunnel, inner, on>> /\ listed' \in SUBSET Flows
    BY <1>11 DEF OpenFlow, CreateFlowFails, InsertState, CountFlow, RelayEnds, AppCloses, TypeOK
  <2>6. flow_count' \in [Tunnels -> 0..Usize - 1]
    BY <1>11, <1>e DEF OpenFlow, CreateFlowFails, InsertState, CountFlow, RelayEnds, AppCloses,
                        AddFlow, TypeOK
  <2>7. stale' \in [Tunnels -> 0..MaxStale]
    BY <1>11 DEF OpenFlow, CreateFlowFails, InsertState, CountFlow, RelayEnds, AppCloses, TypeOK
  <2> QED
    BY <2>3, <2>4, <2>5, <2>6, <2>7 DEF TypeOK, ConnectingExact
<1>12. ASSUME NEW f \in Flows, ServerCloses(f) PROVE TypeOK' /\ ConnectingExact'
  <2>1. Dialing' = Dialing
    BY <1>12, <1>d DEF ServerCloses
  <2>2. flow_count' \in [Tunnels -> 0..Usize - 1]
    BY Zenon, <1>12, <1>e DEF ServerCloses, AddFlow, TypeOK
  <2> QED
    BY <1>12, <2>1, <2>2 DEF ServerCloses, TypeOK, ConnectingExact
<1>13. CASE UNCHANGED vars
  BY <1>13, <1>d DEF vars, TypeOK, ConnectingExact
<1> QED
  BY <1>1, <1>2, <1>3, <1>4, <1>5, <1>6, <1>7, <1>8, <1>9, <1>10, <1>11, <1>12, <1>13
     DEF Next, Pool, Connection

\* Type correctness of the pool, its tunnels and the connections.
LEMMA AccountInvariant == Spec => [](TypeOK /\ ConnectingExact)
<1>1. Init => TypeOK /\ ConnectingExact
  <2> SUFFICES ASSUME Init PROVE TypeOK /\ ConnectingExact
    OBVIOUS
  <2>1. Dialing = {}
    BY DEF Init, Dialing
  <2>2. Cardinality(Dialing) = 0
    BY <2>1, FS_EmptySet
  <2> QED
    BY <2>2, Widths DEF Init, TypeOK, ConnectingExact
<1> QED
  BY <1>1, AccountStep, PTL DEF Spec

\* Every step keeps the shape of the pool.
LEMMA ShapeStep == TypeOK /\ TypeOK' /\ ShapeInv /\ [Next]_vars => ShapeInv'
<1> SUFFICES ASSUME TypeOK, TypeOK', ShapeInv, [Next]_vars PROVE ShapeInv'
  OBVIOUS
<1> USE Widths DEF tunnel, inner, flows, InPool, IsAlive
<1>1. ASSUME NEW f \in Flows, PickUnderCap(f) \/ PickAtCap(f) PROVE ShapeInv'
  <2>1. PICK t \in Tunnels : entry[t] = "active" /\ IsAlive(t) /\ Take(f, t)
    BY <1>1 DEF PickUnderCap, PickAtCap, LeastLoaded, Assignable
  <2>2. PruneDead /\ UNCHANGED <<life, watcher, flow_count, stale, listed>>
    BY <1>1 DEF PickUnderCap, PickAtCap
  <2>3. \A u \in Tunnels : entry'[u] = entry[u] \/ entry'[u] = "out"
    BY <2>2 DEF PruneDead, TypeOK
  <2>4. f \notin listed
    BY <1>1 DEF PickUnderCap, PickAtCap, ShapeInv
  <2>5. \A g \in Flows : (g # f => on'[g] = on[g] /\ pc'[g] = pc[g])
    BY <2>1 DEF Take, Goto, TypeOK
  <2>6. on'[f] = t /\ pc'[f] = "picked" /\ entry'[t] # "none"
    BY <2>1, <2>3 DEF Take, Goto, TypeOK
  <2>7. \A g \in Flows : on'[g] # NoTunnel => entry'[on'[g]] # "none"
    BY <2>3, <2>5, <2>6 DEF ShapeInv, TypeOK
  <2> QED
    BY <2>2, <2>3, <2>4, <2>5, <2>6, <2>7 DEF ShapeInv, TypeOK
<1>2. ASSUME NEW f \in Flows, PickDial(f) PROVE ShapeInv'
  <2>1. \A u \in Tunnels : entry'[u] = entry[u] \/ entry'[u] = "out"
    BY <1>2 DEF PickDial, PruneDead, TypeOK
  <2>2. \A g \in Flows : on'[g] # NoTunnel => entry'[on'[g]] # "none"
    BY <1>2, <2>1 DEF PickDial, ShapeInv, TypeOK
  <2> QED
    BY <1>2, <2>1, <2>2 DEF PickDial, Goto, ShapeInv, TypeOK
<1>3. ASSUME NEW f \in Flows, NEW t \in Tunnels, DialOk(f, t) PROVE ShapeInv'
  <2>1. f \notin listed
    BY <1>3 DEF DialOk, ShapeInv
  <2>2. \A g \in Flows : on'[g] # NoTunnel => entry'[on'[g]] # "none"
    BY <1>3 DEF DialOk, Establish, Take, ShapeInv, TypeOK
  <2> QED
    BY <1>3, <2>1, <2>2 DEF DialOk, Establish, Take, Goto, ShapeInv, TypeOK
<1>4. ASSUME NEW f \in Flows, DialFail(f) PROVE ShapeInv'
  BY <1>4 DEF DialFail, Goto, ShapeInv, TypeOK
<1>5. ASSUME NEW t \in Tunnels, ConnectOk(t) PROVE ShapeInv'
  <2>1. \A g \in Flows : on'[g] # NoTunnel => entry'[on'[g]] # "none"
    BY <1>5 DEF ConnectOk, Establish, ShapeInv, TypeOK
  <2> QED
    BY <1>5, <2>1 DEF ConnectOk, Establish, ShapeInv, TypeOK
<1>6. CASE ConnectFail
  BY <1>6 DEF ConnectFail, ShapeInv
<1>7. ASSUME NEW t \in Tunnels, WatchDead(t) PROVE ShapeInv'
  <2>1. \A u \in Tunnels : entry'[u] = entry[u] \/ entry'[u] = "out"
    BY <1>7 DEF WatchDead, PruneDead, TypeOK
  <2>2. entry'[t] \notin {"active", "draining"}
    BY <1>7 DEF WatchDead, PruneDead, Dead, TypeOK
  <2>3. \A g \in Flows : on'[g] # NoTunnel => entry'[on'[g]] # "none"
    BY <1>7, <2>1 DEF WatchDead, ShapeInv, TypeOK
  <2> QED
    BY <1>7, <2>1, <2>2, <2>3 DEF WatchDead, ShapeInv, TypeOK
<1>8. ASSUME NEW t \in Tunnels, WatchRotate(t) \/ WatchDrained(t) PROVE ShapeInv'
  <2>1. \A u \in Tunnels : u # t => entry'[u] = entry[u] /\ watcher'[u] = watcher[u]
    BY <1>8 DEF WatchRotate, WatchDrained, TypeOK
  <2>2. entry[t] # "none" /\ entry'[t] # "none" /\ (entry'[t] = "draining" \/ entry'[t] = "out")
        /\ (entry'[t] = "draining" => watcher'[t] = "polling")
    BY <1>8 DEF WatchRotate, WatchDrained, TypeOK
  <2>3. UNCHANGED <<life, flows>>
    BY <1>8 DEF WatchRotate, WatchDrained
  <2>4. \A g \in Flows : on'[g] # NoTunnel => entry'[on'[g]] # "none"
    BY <2>1, <2>2, <2>3 DEF ShapeInv, TypeOK
  <2> QED
    BY <2>1, <2>2, <2>3, <2>4 DEF ShapeInv, TypeOK
<1>9. ASSUME NEW t \in Tunnels, Shutdown(t) PROVE ShapeInv'
  <2>1. entry[t] # "none" => entry'[t] # "none"
    BY <1>9 DEF Shutdown
  <2>2. ~InPool(t)
    BY <1>9 DEF Shutdown, ShapeInv
  <2>3. entry[t] = "none" => life'[t] = "none"
    BY <1>9 DEF Shutdown, ShapeInv, TypeOK
  <2> QED
    BY <1>9, <2>2, <2>3 DEF Shutdown, ShapeInv, TypeOK
<1>10. ASSUME NEW t \in Tunnels, Die(t) PROVE ShapeInv'
  BY <1>10 DEF Die, ShapeInv, TypeOK
<1>11. ASSUME NEW t \in Tunnels, LateFrame(t) PROVE ShapeInv'
  <2>1. entry[t] # "none"
    BY <1>11 DEF LateFrame, ShapeInv
  <2>2. \A u \in Tunnels : u # t => flow_count'[u] = flow_count[u] /\ stale'[u] = stale[u]
    BY <1>11 DEF LateFrame, AddFlow, TypeOK
  <2> QED
    BY <1>11, <2>1, <2>2 DEF LateFrame, ShapeInv
<1>12. ASSUME NEW f \in Flows, OpenFlow(f) \/ CreateFlowFails(f) \/ InsertState(f) \/ RelayEnds(f)
       PROVE  ShapeInv'
  <2>1. UNCHANGED <<tunnel, flow_count, stale, on>>
    BY <1>12 DEF OpenFlow, CreateFlowFails, InsertState, RelayEnds
  <2>2. \A g \in Flows : pc'[g] \in {"picked", "opening", "inserted", "open"} =>
                            pc[g] \in {"picked", "opening", "inserted", "open"}
    BY <1>12 DEF OpenFlow, CreateFlowFails, InsertState, RelayEnds, Goto, TypeOK
  <2>3. \A g \in listed' : pc'[g] \in {"inserted", "open"}
    BY <1>12 DEF OpenFlow, CreateFlowFails, InsertState, RelayEnds, Goto, ShapeInv, TypeOK
  <2> QED
    BY <2>1, <2>2, <2>3 DEF ShapeInv
<1>13. ASSUME NEW f \in Flows, CountFlow(f) \/ ServerCloses(f) \/ AppCloses(f) PROVE ShapeInv'
  <2>1. on[f] \in Tunnels /\ entry[on[f]] # "none"
    BY <1>13 DEF CountFlow, ServerCloses, AppCloses, ShapeInv, TypeOK
  <2>2. \A u \in Tunnels : u # on[f] => flow_count'[u] = flow_count[u] /\ stale'[u] = stale[u]
    BY <1>13 DEF CountFlow, ServerCloses, AppCloses, AddFlow, TypeOK
  <2>3. UNCHANGED <<tunnel, on>>
    BY <1>13 DEF CountFlow, ServerCloses, AppCloses
  <2>4. \A g \in Flows : pc'[g] \in {"picked", "opening", "inserted", "open"} =>
                            pc[g] \in {"picked", "opening", "inserted", "open"}
    BY <1>13 DEF CountFlow, ServerCloses, AppCloses, Goto, TypeOK
  <2>5. \A g \in listed' : pc'[g] \in {"inserted", "open"}
    BY <1>13 DEF CountFlow, ServerCloses, AppCloses, Goto, ShapeInv, TypeOK
  <2> QED
    BY <2>1, <2>2, <2>3, <2>4, <2>5 DEF ShapeInv
<1>14. CASE UNCHANGED vars
  BY <1>14 DEF vars, ShapeInv
<1> QED
  BY <1>1, <1>2, <1>3, <1>4, <1>5, <1>6, <1>7, <1>8, <1>9, <1>10, <1>11, <1>12, <1>13, <1>14
     DEF Next, Pool, Connection

\* prune_dead leaves the assignable tunnels as they are.
LEMMA PruneKeepsAssignable ==
    ASSUME TypeOK, PruneDead, life' = life
    PROVE  Assignable' = Assignable
BY DEF TypeOK, PruneDead, Dead, Assignable, InPool, IsAlive

\* A new tunnel adds one to the assignable ones.
LEMMA EstablishAddsOne ==
    ASSUME TypeOK, NEW t \in Tunnels, Establish(t)
    PROVE  Cardinality(Assignable') = Cardinality(Assignable) + 1
<1>1. Assignable' = Assignable \cup {t} /\ t \notin Assignable /\ Assignable \in SUBSET Tunnels
  BY DEF TypeOK, Establish, Assignable, IsAlive
<1>2. IsFiniteSet(Assignable)
  BY <1>1, CountTunnels
<1> QED
  BY <1>1, <1>2, FS_AddElement

(* The refill obligation is handed on by every step: what takes a tunnel   *)
(* out of service starts its replacement, a handshake that ends is         *)
(* replaced while the target is not covered, and a death waits for a       *)
(* watcher.                                                                *)
LEMMA RefillStep ==
    TypeOK /\ ShapeInv /\ ConnectingExact /\ RefillPending /\ TypeOK' /\ [Next]_vars => RefillPending'
<1> SUFFICES ASSUME TypeOK, ShapeInv, ConnectingExact, RefillPending, TypeOK', [Next]_vars
             PROVE  RefillPending'
  OBVIOUS
<1> USE Widths DEF tunnel, inner, flows
<1> DEFINE n == Cardinality(Assignable)
<1>a. n \in Nat /\ n' \in Nat
  <2>1. Assignable \in SUBSET Tunnels /\ Assignable' \in SUBSET Tunnels
    BY DEF Assignable
  <2> QED
    BY <2>1, CountTunnels
<1>b. connecting \in Nat /\ spawned \in Nat /\ connecting' \in Nat
  BY DEF TypeOK
<1>c. ASSUME n' + connecting' >= PoolSize PROVE RefillPending'
  BY <1>a, <1>b, <1>c DEF RefillPending
<1>d. Cardinality(Dialing) \in Nat
  <2>1. Dialing \in SUBSET Flows
    BY DEF Dialing
  <2> QED
    BY <2>1, CountFlows
<1> HIDE DEF n
<1>1. ASSUME NEW f \in Flows, PickUnderCap(f) \/ PickAtCap(f) PROVE RefillPending'
  <2>1. n' = n
    BY <1>1, PruneKeepsAssignable DEF PickUnderCap, PickAtCap, n
  <2>2. PICK e \in {0, 1} : EnsureTarget(n, e)
    BY <1>1 DEF PickUnderCap, PickAtCap, n
  <2>3. n + connecting' >= PoolSize
    BY <1>a, <2>2, EnsureCovers
  <2> QED
    BY <1>c, <2>1, <2>3
<1>2. ASSUME NEW f \in Flows, PickDial(f) PROVE RefillPending'
  BY <1>2, <1>b DEF PickDial, RefillPending
<1>3. ASSUME NEW f \in Flows, NEW t \in Tunnels, DialOk(f, t) PROVE RefillPending'
  <2>1. Joined(0) /\ n' = n + 1 /\ pc[f] = "dialing" /\ Goto(f, "picked")
    BY <1>3, EstablishAddsOne DEF DialOk, Take, n
  <2>2. connecting >= 1
    BY <1>b, <1>d, <2>1, DialingChanges DEF ConnectingExact
  <2>3. n + 1 + connecting' >= PoolSize
    BY <2>1, <2>2, JoinedCovers DEF n
  <2> QED
    BY <1>c, <2>1, <2>3
<1>4. ASSUME NEW f \in Flows, DialFail(f) PROVE RefillPending'
  <2>1. RetryBelowTarget(0) /\ pc[f] = "dialing" /\ Goto(f, "idle") /\ Assignable' = Assignable
    BY <1>4 DEF DialFail, Assignable, IsAlive
  <2>2. connecting >= 1
    BY <1>b, <1>d, <2>1, DialingChanges DEF ConnectingExact
  <2>3. Cardinality(Assignable) < PoolSize => connecting' > 0
    BY <2>1, <2>2, RetryCovers
  <2> QED
    BY <2>1, <2>3 DEF RefillPending
<1>5. ASSUME NEW t \in Tunnels, ConnectOk(t) PROVE RefillPending'
  <2>1. Joined(1) /\ n' = n + 1 /\ spawned > 0
    BY <1>5, EstablishAddsOne DEF ConnectOk, n
  <2>2. connecting >= 1
    BY <1>b, <1>d, <2>1 DEF ConnectingExact
  <2>3. n + 1 + connecting' >= PoolSize
    BY <2>1, <2>2, JoinedCovers DEF n
  <2> QED
    BY <1>c, <2>1, <2>3
<1>6. CASE ConnectFail
  <2>1. RetryBelowTarget(1) /\ spawned > 0 /\ Assignable' = Assignable
    BY <1>6 DEF ConnectFail, Assignable, IsAlive
  <2>2. connecting >= 1
    BY <1>b, <1>d, <2>1 DEF ConnectingExact
  <2>3. Cardinality(Assignable) < PoolSize => connecting' > 0
    BY <2>1, <2>2, RetryCovers
  <2> QED
    BY <2>1, <2>3 DEF RefillPending
<1>7. ASSUME NEW t \in Tunnels, WatchDead(t) PROVE RefillPending'
  <2>1. Assignable' = Assignable /\ n' = n
    BY <1>7, PruneKeepsAssignable DEF WatchDead, n
  <2>2. CASE Dead = {}
    <3>1. UNCHANGED <<inner, entry>>
      BY <1>7, <2>2 DEF WatchDead, PruneDead, TypeOK
    <3> QED
      BY <2>1, <2>2, <3>1 DEF RefillPending
  <2>3. CASE Dead # {}
    <3>1. EnsureTarget(n, 0)
      BY <1>7, <2>3 DEF WatchDead, n
    <3>2. n + connecting' >= PoolSize
      BY <1>a, <3>1, EnsureCovers
    <3> QED
      BY <1>c, <2>1, <3>2
  <2> QED
    BY <2>2, <2>3
<1>8. ASSUME NEW t \in Tunnels, WatchRotate(t) PROVE RefillPending'
  <2>1. Assignable' = Assignable \ {t}
    BY <1>8 DEF WatchRotate, Assignable, IsAlive, TypeOK
  <2>2. EnsureTarget(n', 0)
    BY <1>8, <2>1 DEF WatchRotate, n
  <2>3. n' + connecting' >= PoolSize
    BY <1>a, <2>2, EnsureCovers
  <2> QED
    BY <1>c, <2>3
<1>9. ASSUME NEW t \in Tunnels, WatchDrained(t) \/ Shutdown(t) PROVE RefillPending'
  <2>1. Assignable' = Assignable
    BY <1>9 DEF WatchDrained, Shutdown, ShapeInv, Assignable, InPool, IsAlive, TypeOK
  <2>2. t \notin Dead
    BY <1>9 DEF WatchDrained, Shutdown, ShapeInv, Dead, InPool
  <2>3. \A u \in Tunnels : u # t => entry'[u] = entry[u] /\ life'[u] = life[u] /\ watcher'[u] = watcher[u]
    BY <1>9 DEF WatchDrained, Shutdown, TypeOK
  <2>4. \A u \in Dead : u \in Dead' /\ watcher'[u] = watcher[u]
    BY <2>2, <2>3 DEF Dead, InPool, IsAlive
  <2>5. connecting' = connecting /\ (entry'[t] # "none" => entry[t] # "none")
    BY <1>9 DEF WatchDrained, Shutdown
  <2>6. (\E u \in Tunnels : entry'[u] # "none") => (\E u \in Tunnels : entry[u] # "none")
    BY <2>3, <2>5
  <2> QED
    BY <2>1, <2>4, <2>5, <2>6 DEF RefillPending
<1>10. ASSUME NEW t \in Tunnels, Die(t) PROVE RefillPending'
  <2>1. entry' = entry /\ watcher' = watcher /\ connecting' = connecting
    BY <1>10 DEF Die
  <2>2. CASE InPool(t)
    <3>1. t \in Dead' /\ watcher'[t] = "polling"
      BY <1>10, <2>1, <2>2 DEF Die, Dead, InPool, IsAlive, ShapeInv, TypeOK
    <3> QED
      BY <3>1 DEF RefillPending
  <2>3. CASE ~InPool(t)
    <3>1. Assignable' = Assignable /\ Dead' = Dead
      BY <1>10, <2>1, <2>3 DEF Die, Dead, Assignable, InPool, IsAlive, TypeOK
    <3> QED
      BY <2>1, <3>1 DEF RefillPending
  <2> QED
    BY <2>2, <2>3
<1>11. CASE UNCHANGED <<tunnel, inner>>
  <2>1. Assignable' = Assignable /\ Dead' = Dead
    BY <1>11 DEF Assignable, Dead, InPool, IsAlive
  <2> QED
    BY <1>11, <2>1 DEF RefillPending
<1>12. ASSUME NEW t \in Tunnels, LateFrame(t) PROVE UNCHANGED <<tunnel, inner>>
  BY <1>12 DEF LateFrame
<1>13. ASSUME NEW f \in Flows,
              \/ OpenFlow(f) \/ CreateFlowFails(f) \/ InsertState(f) \/ CountFlow(f)
              \/ ServerCloses(f) \/ RelayEnds(f) \/ AppCloses(f)
       PROVE  UNCHANGED <<tunnel, inner>>
  BY <1>13 DEF OpenFlow, CreateFlowFails, InsertState, CountFlow, ServerCloses, RelayEnds, AppCloses
<1>14. CASE UNCHANGED vars
  BY <1>11, <1>14 DEF vars
<1> QED
  BY <1>1, <1>2, <1>3, <1>4, <1>5, <1>6, <1>7, <1>8, <1>9, <1>10, <1>11, <1>12, <1>13, <1>14
     DEF Next, Pool, Connection

\* The inductive invariant.
LEMMA PoolInvariant == Spec => [](TypeOK /\ PoolInv)
<1>1. Init => ShapeInv /\ RefillPending
  <2> SUFFICES ASSUME Init PROVE ShapeInv /\ RefillPending
    OBVIOUS
  <2>1. ShapeInv
    BY Widths DEF Init, ShapeInv, InPool
  <2>2. RefillPending
    BY DEF Init, RefillPending
  <2> QED
    BY <2>1, <2>2
<1> QED
  BY <1>1, AccountInvariant, ShapeStep, RefillStep, PTL DEF Spec, PoolInv

(* Each slot of `connecting` belongs to a handshake in flight, whatever    *)
(* mix of picks, failures, retries, deaths and rotations came before.      *)
THEOREM ConnectingStaysExact == Spec => []ConnectingExact
BY AccountInvariant, PTL

(* A used pool below its target always has a handshake in flight, or a     *)
(* dead tunnel whose watcher is going to top it up (ensure_target and the  *)
(* retry paths of pick_tunnel and spawn_connect).                          *)
THEOREM RefillNeverForgotten == Spec => []RefillPending
<1>1. PoolInv => RefillPending
  BY DEF PoolInv
<1> QED
  BY <1>1, PoolInvariant, PTL

(* A tunnel is taken out of the pool alive only by its own watcher, when   *)
(* it was draining or had no flow; and the step that takes an assignable   *)
(* tunnel out of service leaves the target covered ("so no observer ever   *)
(* sees a drain without a replacement already in flight").                 *)
THEOREM RotationStaysSafe == Spec => RotationSafe
<1>1. TypeOK /\ [Next]_vars => [DrainedBeforeRemoval /\ TargetStaysCovered]_vars
  <2> SUFFICES ASSUME TypeOK, Next, NEW t \in Tunnels, InPool(t), IsAlive(t), entry'[t] # entry[t]
               PROVE  /\ entry'[t] = "out" =>
                           /\ watcher[t] = "polling" /\ watcher'[t] \in {"closing", "failing"}
                           /\ (entry[t] = "active" => flow_count[t] = 0)
                      /\ entry[t] = "active" => Cardinality(Assignable') + connecting' >= PoolSize
    BY DEF InPool, DrainedBeforeRemoval, TargetStaysCovered
  <2> USE DEF tunnel, inner, flows
  <2>1. entry[t] \in {"active", "draining"} /\ t \notin Dead
    BY DEF InPool, Dead
  <2>2. ~PruneDead
    BY <2>1 DEF PruneDead
  <2>3. entry' # entry
    OBVIOUS
  <2>4. ASSUME NEW u \in Tunnels, Establish(u) PROVE FALSE
    BY <2>1, <2>4 DEF Establish, TypeOK
  <2>5. PICK u \in Tunnels : WatchRotate(u) \/ WatchDrained(u)
    <3>1. ASSUME NEW f \in Flows, Connection(f) PROVE FALSE
      BY Zenon, <2>2, <2>3, <2>4, <3>1
         DEF Connection, PickUnderCap, PickAtCap, PickDial, DialOk, DialFail, OpenFlow,
             CreateFlowFails, InsertState, CountFlow, ServerCloses, RelayEnds, AppCloses
    <3>2. CASE ConnectFail
      BY <2>3, <3>2 DEF ConnectFail
    <3>3. ASSUME NEW u \in Tunnels, Pool(u) PROVE WatchRotate(u) \/ WatchDrained(u)
      BY <2>2, <2>3, <2>4, <3>3 DEF Pool, ConnectOk, WatchDead, Shutdown, Die, LateFrame
    <3> QED
      BY <3>1, <3>2, <3>3 DEF Next
  <2>6. u = t
    BY <2>5 DEF WatchRotate, WatchDrained, TypeOK
  <2>7. CASE WatchDrained(t)
    BY <2>7 DEF WatchDrained, TypeOK
  <2>8. CASE WatchRotate(t)
    <3>1. Assignable' = Assignable \ {t}
      BY <2>8 DEF WatchRotate, Assignable, IsAlive, TypeOK
    <3>2. Cardinality(Assignable \ {t}) \in Nat
      <4>1. Assignable \ {t} \in SUBSET Tunnels
        BY DEF Assignable
      <4> QED
        BY <4>1, CountTunnels
    <3>3. EnsureTarget(Cardinality(Assignable \ {t}), 0)
      BY <2>8 DEF WatchRotate
    <3>4. Cardinality(Assignable \ {t}) + connecting' >= PoolSize
      BY <3>2, <3>3, EnsureCovers
    <3>5. entry'[t] = "out" => watcher[t] = "polling" /\ watcher'[t] = "closing" /\ flow_count[t] = 0
      BY <2>8 DEF WatchRotate, TypeOK
    <3> QED
      BY <3>1, <3>4, <3>5
  <2> QED
    BY <2>5, <2>6, <2>7, <2>8
<1> QED
  BY <1>1, AccountInvariant, PTL DEF Spec, RotationSafe
=============================================================================

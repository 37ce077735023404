------------------------- MODULE TunnelMirror_proofs -------------------------
(***************************************************************************)
(* The second half of the proofs about TunnelPool: flow_count mirrors      *)
(* flow_states, for every counter width that exceeds what it counts.       *)
(***************************************************************************)
EXTENDS TunnelPool_proofs

\* Time limits of the provers, for a slow machine.
USE SMTT(10), ZenonT(20)

Listed(t) == {f \in listed : on[f] = t}
Inserted(t) == {f \in Flows : on[f] = t /\ pc[f] = "inserted"}

(* The mirror of flow_states, with the increments still to come: equal to  *)
(* the entries up to one turn of the counter, which a remove_flow_state    *)
(* between the insert and the increment takes below zero.                  *)
MirrorInv ==
    \A t \in Tunnels : IsAlive(t) =>
        flow_count[t] + Cardinality(Inserted(t))
            \in {stale[t] + Cardinality(Listed(t)), stale[t] + Cardinality(Listed(t)) + Usize}

-----------------------------------------------------------------------------
\* What MirrorInv says of one tunnel, given its counts.
Mirrors(count, inserted, entries) == count + inserted \in {entries, entries + Usize}

\* The sets MirrorInv counts are bounded by the number of connections.
LEMMA MirrorCounts ==
    ASSUME TypeOK, NEW t \in Tunnels
    PROVE  /\ IsFiniteSet(Inserted(t)) /\ Cardinality(Inserted(t)) \in 0..Cardinality(Flows)
           /\ IsFiniteSet(Listed(t)) /\ Cardinality(Listed(t)) \in 0..Cardinality(Flows)
<1>1. Inserted(t) \in SUBSET Flows /\ Listed(t) \in SUBSET Flows
  BY DEF Inserted, Listed, TypeOK
<1> QED
  BY <1>1, CountFlows, Widths

\* A set with an element counts at least one.
LEMMA HasOne ==
    ASSUME NEW S, IsFiniteSet(S), NEW x \in S
    PROVE  Cardinality(S) >= 1
<1>1. Cardinality(S) \in Nat
  BY FS_CardinalityType
<1>2. Cardinality(S) # 0
  BY FS_EmptySet
<1> QED
  BY <1>1, <1>2

\* The increment may come after the counter was taken below zero.
LEMMA CountOne ==
    ASSUME NEW c \in 0..Usize - 1, NEW i \in 1..Cardinality(Flows),
           NEW e \in 0..Cardinality(Flows) + MaxStale, Mirrors(c, i, e)
    PROVE  Mirrors((c + 1) % Usize, i - 1, e)
<1>1. (c + 1) % Usize = IF c + 1 = Usize THEN 0 ELSE c + 1
  BY Wraps
<1> QED
  BY <1>1, Widths DEF Mirrors

\* An entry removed takes the counter down by one.
LEMMA UncountOne ==
    ASSUME NEW c \in 0..Usize - 1, NEW i \in 0..Cardinality(Flows),
           NEW e \in 1..Cardinality(Flows) + MaxStale, Mirrors(c, i, e)
    PROVE  Mirrors((c + (Usize - 1)) % Usize, i, e - 1)
<1>1. (c + (Usize - 1)) % Usize = IF c = 0 THEN Usize - 1 ELSE c - 1
  BY Wraps
<1> QED
  BY <1>1, Widths DEF Mirrors

\* Every step keeps the mirror of flow_states.
LEMMA MirrorStep ==
    TypeOK /\ ShapeInv /\ MirrorInv /\ TypeOK' /\ [Next]_vars => MirrorInv'
<1> SUFFICES ASSUME TypeOK, ShapeInv, MirrorInv, TypeOK', [Next]_vars, NEW t \in Tunnels, IsAlive(t)'
             PROVE  Mirrors(flow_count'[t], Cardinality(Inserted(t)'), stale'[t] + Cardinality(Listed(t)'))
  BY DEF MirrorInv, Mirrors
<1> DEFINE I == Cardinality(Inserted(t))
           L == Cardinality(Listed(t))
           Goal == Mirrors(flow_count'[t], I', stale'[t] + L')
           Still == IsAlive(t) /\ flow_count'[t] = flow_count[t] /\ stale'[t] = stale[t]
<1> USE DEF tunnel, inner, flows
<1>a. /\ flow_count[t] \in 0..Usize - 1 /\ stale[t] \in 0..MaxStale
      /\ I \in 0..Cardinality(Flows) /\ L \in 0..Cardinality(Flows)
      /\ IsFiniteSet(Inserted(t)) /\ IsFiniteSet(Listed(t))
  BY MirrorCounts DEF TypeOK
<1>b. IsAlive(t) => Mirrors(flow_count[t], I, stale[t] + L)
  BY DEF MirrorInv, Mirrors
<1>c. ASSUME Still, Inserted(t)' = Inserted(t), Listed(t)' = Listed(t) PROVE Goal
  BY <1>b, <1>c
<1>d. ASSUME NEW u \in Tunnels, Establish(u), t = u, flow_count' = flow_count, stale' = stale,
             Inserted(t)' = {}, Listed(t)' = {}
      PROVE  Goal
  <2>1. flow_count[t] = 0 /\ stale[t] = 0
    BY <1>d DEF Establish, ShapeInv
  <2>2. I' = 0 /\ L' = 0
    BY <1>d, FS_EmptySet
  <2> QED
    BY <1>d, <2>1, <2>2, Widths DEF Mirrors
<1>1. ASSUME NEW f \in Flows, PickUnderCap(f) \/ PickAtCap(f) \/ PickDial(f) \/ DialFail(f) PROVE Goal
  <2>1. pc[f] \in {"idle", "dialing"} /\ pc'[f] \in {"idle", "dialing", "picked"} /\ listed' = listed
        /\ life' = life /\ flow_count' = flow_count /\ stale' = stale
        /\ \A g \in Flows : g # f => on'[g] = on[g] /\ pc'[g] = pc[g]
    <3>1. CASE PickUnderCap(f) \/ PickAtCap(f)
      <4>1. PICK u : Take(f, u)
        BY Zenon, <3>1 DEF PickUnderCap, PickAtCap
      <4> QED
        BY <3>1, <4>1 DEF PickUnderCap, PickAtCap, Take, Goto, TypeOK
    <3>2. CASE PickDial(f) \/ DialFail(f)
      BY <3>2 DEF PickDial, DialFail, Goto, TypeOK
    <3> QED
      BY <1>1, <3>1, <3>2
  <2>2. f \notin listed
    BY <2>1 DEF ShapeInv
  <2>3. Inserted(t)' = Inserted(t) /\ Listed(t)' = Listed(t)
    BY <2>1, <2>2 DEF Inserted, Listed, TypeOK
  <2>4. Still
    BY <2>1 DEF IsAlive
  <2> QED
    BY <1>c, <2>3, <2>4
<1>2. ASSUME NEW f \in Flows, NEW u \in Tunnels, DialOk(f, u) PROVE Goal
  <2>1. pc[f] = "dialing" /\ pc'[f] = "picked" /\ listed' = listed
        /\ flow_count' = flow_count /\ stale' = stale /\ Establish(u)
        /\ \A g \in Flows : g # f => on'[g] = on[g] /\ pc'[g] = pc[g]
    BY <1>2 DEF DialOk, Take, Goto, TypeOK
  <2>2. f \notin listed
    BY <2>1 DEF ShapeInv
  <2>3. CASE t = u
    <3>1. \A g \in Flows : on[g] # u
      BY <2>1, Widths DEF Establish, ShapeInv
    <3>2. Inserted(t)' = {} /\ Listed(t)' = {}
      BY <2>1, <2>2, <2>3, <3>1 DEF Inserted, Listed, TypeOK
    <3> QED
      BY <1>d, <2>1, <2>3, <3>2
  <2>4. CASE t # u
    <3>1. Inserted(t)' = Inserted(t) /\ Listed(t)' = Listed(t)
      BY <2>1, <2>2 DEF Inserted, Listed, TypeOK
    <3>2. Still
      BY <2>1, <2>4 DEF Establish, IsAlive, TypeOK
    <3> QED
      BY <1>c, <3>1, <3>2
  <2> QED
    BY <2>3, <2>4
<1>3. ASSUME NEW u \in Tunnels, ConnectOk(u) PROVE Goal
  <2>1. Establish(u) /\ UNCHANGED flows
    BY <1>3 DEF ConnectOk
  <2>2. CASE t = u
    <3>1. \A g \in Flows : on[g] # u
      BY <2>1, Widths DEF Establish, ShapeInv
    <3>2. Inserted(t)' = {} /\ Listed(t)' = {}
      BY <2>1, <2>2, <3>1 DEF Inserted, Listed, TypeOK
    <3> QED
      BY <1>d, <2>1, <2>2, <3>2
  <2>3. CASE t # u
    <3>1. Inserted(t)' = Inserted(t) /\ Listed(t)' = Listed(t)
      BY <2>1 DEF Inserted, Listed
    <3>2. Still
      BY <2>1, <2>3 DEF Establish, IsAlive, TypeOK
    <3> QED
      BY <1>c, <3>1, <3>2
  <2> QED
    BY <2>2, <2>3
<1>4. ASSUME NEW u \in Tunnels, WatchDead(u) \/ WatchRotate(u) \/ WatchDrained(u) \/ Die(u) PROVE Goal
  <2>1. UNCHANGED flows
    BY <1>4 DEF WatchDead, WatchRotate, WatchDrained, Die
  <2>2. Inserted(t)' = Inserted(t) /\ Listed(t)' = Listed(t)
    BY <2>1 DEF Inserted, Listed
  <2>3. IsAlive(t)
    BY <1>4 DEF WatchDead, WatchRotate, WatchDrained, Die, IsAlive, TypeOK
  <2> QED
    BY <1>c, <2>1, <2>2, <2>3
<1>5. CASE ConnectFail
  <2>1. UNCHANGED <<tunnel, flows>>
    BY <1>5 DEF ConnectFail
  <2>2. Inserted(t)' = Inserted(t) /\ Listed(t)' = Listed(t) /\ Still
    BY <2>1 DEF Inserted, Listed, IsAlive
  <2> QED
    BY <1>c, <2>2
<1>6. ASSUME NEW u \in Tunnels, Shutdown(u) PROVE Goal
  <2>1. t # u
    BY <1>6 DEF Shutdown, IsAlive, TypeOK
  <2>2. Inserted(t)' = Inserted(t) /\ Listed(t)' = Listed(t)
    BY <1>6, <2>1 DEF Shutdown, Inserted, Listed
  <2>3. Still
    BY <1>6, <2>1 DEF Shutdown, IsAlive, TypeOK
  <2> QED
    BY <1>c, <2>2, <2>3
<1>7. ASSUME NEW f \in Flows, OpenFlow(f) \/ CreateFlowFails(f) \/ RelayEnds(f) PROVE Goal
  <2>1. pc[f] # "inserted" /\ pc'[f] # "inserted" /\ UNCHANGED <<tunnel, flow_count, stale, on, listed>>
        /\ \A g \in Flows : g # f => pc'[g] = pc[g]
    BY <1>7 DEF OpenFlow, CreateFlowFails, RelayEnds, Goto, TypeOK
  <2>2. Inserted(t)' = Inserted(t) /\ Listed(t)' = Listed(t) /\ Still
    BY <2>1 DEF Inserted, Listed, IsAlive
  <2> QED
    BY <1>c, <2>2
<1>8. ASSUME NEW f \in Flows, InsertState(f) PROVE Goal
  <2>1. pc[f] = "opening" /\ pc'[f] = "inserted" /\ f \notin listed /\ listed' = listed \cup {f}
        /\ UNCHANGED <<tunnel, flow_count, stale, on>> /\ \A g \in Flows : g # f => pc'[g] = pc[g]
    BY <1>8 DEF InsertState, Goto, ShapeInv, TypeOK
  <2>2. Still
    BY <2>1 DEF IsAlive
  <2>3. CASE on[f] # t
    <3>1. Inserted(t)' = Inserted(t) /\ Listed(t)' = Listed(t)
      BY <2>1, <2>3 DEF Inserted, Listed
    <3> QED
      BY <1>c, <2>2, <3>1
  <2>4. CASE on[f] = t
    <3>1. Inserted(t)' = Inserted(t) \cup {f} /\ f \notin Inserted(t)
      BY <2>1, <2>4 DEF Inserted
    <3>2. Listed(t)' = Listed(t) \cup {f} /\ f \notin Listed(t)
      BY <2>1, <2>4 DEF Listed
    <3>3. I' = I + 1 /\ L' = L + 1
      BY Zenon, <1>a, <3>1, <3>2, FS_AddElement
    <3> HIDE DEF I, L
    <3> QED
      BY <1>a, <1>b, <2>2, <3>3, Widths DEF Mirrors
  <2> QED
    BY <2>3, <2>4
<1>9. ASSUME NEW f \in Flows, CountFlow(f) PROVE Goal
  <2>1. pc[f] = "inserted" /\ pc'[f] = "open" /\ AddFlow(on[f], 1)
        /\ UNCHANGED <<tunnel, stale, on, listed>> /\ \A g \in Flows : g # f => pc'[g] = pc[g]
    BY <1>9 DEF CountFlow, Goto, TypeOK
  <2>2. Listed(t)' = Listed(t) /\ IsAlive(t)
    BY <2>1 DEF Listed, IsAlive
  <2>3. CASE on[f] # t
    <3>1. Inserted(t)' = Inserted(t) /\ flow_count'[t] = flow_count[t]
      BY <2>1, <2>3 DEF Inserted, AddFlow, TypeOK
    <3> QED
      BY <1>c, <2>1, <2>2, <3>1
  <2>4. CASE on[f] = t
    <3>1. Inserted(t)' = Inserted(t) \ {f} /\ f \in Inserted(t)
      BY <2>1, <2>4 DEF Inserted
    <3>2. I' = I - 1 /\ L' = L
      BY Zenon, <1>a, <2>2, <3>1, FS_RemoveElement
    <3>3. I >= 1
      BY <1>a, <3>1, HasOne
    <3>4. flow_count'[t] = (flow_count[t] + 1) % Usize /\ stale'[t] = stale[t]
      BY <2>1, <2>4 DEF AddFlow, TypeOK
    <3> HIDE DEF I, L
    <3>5. I \in 1..Cardinality(Flows) /\ stale[t] + L \in 0..Cardinality(Flows) + MaxStale
      BY <1>a, <3>2, <3>3, Widths
    <3>6. Mirrors((flow_count[t] + 1) % Usize, I - 1, stale[t] + L)
      BY <1>a, <1>b, <2>2, <3>5, CountOne
    <3> QED
      BY <3>2, <3>4, <3>6
  <2> QED
    BY <2>3, <2>4
<1>10. ASSUME NEW f \in Flows, ServerCloses(f) PROVE Goal
  <2>1. f \in listed /\ listed' = listed \ {f} /\ AddFlow(on[f], Usize - 1)
        /\ UNCHANGED <<tunnel, stale, pc, on>>
    BY <1>10 DEF ServerCloses
  <2>2. Inserted(t)' = Inserted(t) /\ IsAlive(t)
    BY <2>1 DEF Inserted, IsAlive
  <2>3. CASE on[f] # t
    <3>1. Listed(t)' = Listed(t) /\ flow_count'[t] = flow_count[t]
      BY <2>1, <2>3 DEF Listed, AddFlow, TypeOK
    <3> QED
      BY <1>c, <2>1, <2>2, <3>1
  <2>4. CASE on[f] = t
    <3>1. Listed(t)' = Listed(t) \ {f} /\ f \in Listed(t)
      BY <2>1, <2>4 DEF Listed
    <3>2. L' = L - 1 /\ I' = I
      BY Zenon, <1>a, <2>2, <3>1, FS_RemoveElement
    <3>3. L >= 1
      BY <1>a, <3>1, HasOne
    <3>4. flow_count'[t] = (flow_count[t] + (Usize - 1)) % Usize /\ stale'[t] = stale[t]
      BY <2>1, <2>4 DEF AddFlow, TypeOK
    <3> HIDE DEF I, L
    <3>5. stale[t] + L \in 1..Cardinality(Flows) + MaxStale /\ stale[t] + L - 1 = stale[t] + L'
      BY <1>a, <3>2, <3>3, Widths
    <3>6. Mirrors((flow_count[t] + (Usize - 1)) % Usize, I, stale[t] + L - 1)
      BY <1>a, <1>b, <2>2, <3>5, UncountOne
    <3> QED
      BY <3>2, <3>4, <3>5, <3>6
  <2> QED
    BY <2>3, <2>4
<1>11. ASSUME NEW f \in Flows, AppCloses(f) PROVE Goal
  <2>1. pc[f] = "open" /\ pc'[f] = "idle" /\ f \in listed /\ listed' = listed \ {f}
        /\ stale' = [stale EXCEPT ![on[f]] = @ + 1]
        /\ UNCHANGED <<tunnel, flow_count, on>> /\ \A g \in Flows : g # f => pc'[g] = pc[g]
    BY <1>11 DEF AppCloses, Goto, TypeOK
  <2>2. Inserted(t)' = Inserted(t) /\ IsAlive(t)
    BY <2>1 DEF Inserted, IsAlive
  <2>3. CASE on[f] # t
    <3>1. Listed(t)' = Listed(t) /\ stale'[t] = stale[t]
      BY <2>1, <2>3 DEF Listed, TypeOK
    <3> QED
      BY <1>c, <2>1, <2>2, <3>1
  <2>4. CASE on[f] = t
    <3>1. Listed(t)' = Listed(t) \ {f} /\ f \in Listed(t)
      BY <2>1, <2>4 DEF Listed
    <3>2. L' = L - 1 /\ I' = I
      BY Zenon, <1>a, <2>2, <3>1, FS_RemoveElement
    <3>3. stale'[t] = stale[t] + 1 /\ flow_count'[t] = flow_count[t]
      BY <2>1, <2>4 DEF TypeOK
    <3> HIDE DEF I, L
    <3>4. stale'[t] + L' = stale[t] + L
      BY <1>a, <3>2, <3>3, Widths
    <3> QED
      BY <1>b, <2>2, <3>2, <3>3, <3>4
  <2> QED
    BY <2>3, <2>4
<1>12. ASSUME NEW u \in Tunnels, LateFrame(u) PROVE Goal
  <2>1. stale[u] > 0 /\ stale' = [stale EXCEPT ![u] = @ - 1] /\ AddFlow(u, Usize - 1)
        /\ UNCHANGED <<tunnel, pc, on, listed>>
    BY <1>12 DEF LateFrame
  <2>2. Inserted(t)' = Inserted(t) /\ Listed(t)' = Listed(t) /\ IsAlive(t)
    BY <2>1 DEF Inserted, Listed, IsAlive
  <2>3. CASE t # u
    <3>1. stale'[t] = stale[t] /\ flow_count'[t] = flow_count[t]
      BY <2>1, <2>3 DEF AddFlow, TypeOK
    <3> QED
      BY <1>c, <2>2, <3>1
  <2>4. CASE t = u
    <3>1. flow_count'[t] = (flow_count[t] + (Usize - 1)) % Usize /\ stale'[t] = stale[t] - 1
      BY <2>1, <2>4 DEF AddFlow, TypeOK
    <3>2. I' = I /\ L' = L
      BY <2>2
    <3> HIDE DEF I, L
    <3>3. stale[t] + L \in 1..Cardinality(Flows) + MaxStale /\ stale[t] + L - 1 = stale'[t] + L'
      BY <1>a, <2>1, <2>4, <3>1, <3>2, Widths
    <3>4. Mirrors((flow_count[t] + (Usize - 1)) % Usize, I, stale[t] + L - 1)
      BY <1>a, <1>b, <2>2, <3>3, UncountOne
    <3> QED
      BY <3>1, <3>2, <3>3, <3>4
  <2> QED
    BY <2>3, <2>4
<1>13. CASE UNCHANGED vars
  <2>1. Inserted(t)' = Inserted(t) /\ Listed(t)' = Listed(t) /\ Still
    BY <1>13 DEF vars, Inserted, Listed, IsAlive
  <2> QED
    BY <1>c, <2>1
<1> QED
  BY <1>1, <1>2, <1>3, <1>4, <1>5, <1>6, <1>7, <1>8, <1>9, <1>10, <1>11, <1>12, <1>13
     DEF Next, Pool, Connection

\* The mirror holds from the start, when no tunnel is alive.
LEMMA MirrorInvariant == Spec => []MirrorInv
<1>1. Init => MirrorInv
  BY DEF Init, MirrorInv, IsAlive
<1>2. PoolInv => ShapeInv
  BY DEF PoolInv
<1> QED
  BY <1>1, <1>2, PoolInvariant, MirrorStep, PTL DEF Spec

(* flow_count is the number of flow_states entries of a tunnel that is     *)
(* alive whenever no open_flow is between its insert and its increment:    *)
(* what the striping of pick_tunnel and the drain decision read.           *)
THEOREM FlowCountStaysMirror == Spec => []FlowCountMirrors
<1>1. TypeOK /\ MirrorInv => FlowCountMirrors
  <2> SUFFICES ASSUME TypeOK, MirrorInv, NEW t \in Tunnels, IsAlive(t),
                      \A f \in Flows : on[f] = t => pc[f] # "inserted"
               PROVE  flow_count[t] = stale[t] + Cardinality(Listed(t))
    BY DEF FlowCountMirrors, Listed
  <2>1. Inserted(t) = {}
    BY DEF Inserted
  <2>2. Cardinality(Inserted(t)) = 0
    BY <2>1, FS_EmptySet
  <2>3. flow_count[t] \in 0..Usize - 1 /\ stale[t] \in 0..MaxStale
        /\ Cardinality(Listed(t)) \in 0..Cardinality(Flows)
    BY MirrorCounts DEF TypeOK
  <2> QED
    BY <2>2, <2>3, Widths DEF MirrorInv
<1> QED
  BY <1>1, AccountInvariant, MirrorInvariant, PTL

(* What the run safety checks of the counters on two tunnels and two       *)
(* connections, for any number of them and every counter width.            *)
THEOREM CountersStayExact == Spec => []CountersExact
<1>1. TypeOK /\ ConnectingExact /\ FlowCountMirrors => CountersExact
  BY DEF CountersExact
<1> QED
  BY <1>1, AccountInvariant, FlowCountStaysMirror, PTL
=============================================================================

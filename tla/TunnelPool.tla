------------------------------ MODULE TunnelPool ------------------------------
(***************************************************************************)
(* The pool of multiplexed tunnels to one exit (rvpn-client,               *)
(* tunnel_pool.rs) with the part of Socks5Tunnel it observes: liveness,    *)
(* flow_states and its mirror flow_count (socks5_tunnel.rs).               *)
(*                                                                         *)
(* A connection picks a tunnel, opens a flow on it and relays until one    *)
(* side closes.  Every tunnel has a watcher; handshakes run in the picking *)
(* task or in background tasks.  Each critical section of the pool's mutex *)
(* is one action.  Age, byte and backstop thresholds may fire at any poll. *)
(***************************************************************************)
EXTENDS Naturals, FiniteSets, FiniteSetsExt

CONSTANTS
    Tunnels,   \* bound: the tunnels ever established
    Flows,     \* connections of local applications
    NoTunnel,
    PoolSize, PoolMax, MaxFlows,  \* pool_size, pool_max, max_flows_per_conn
    MaxStale,  \* bound: entries of closed connections left in one flow_states
    Usize      \* 2^64: flow_count wraps here

ASSUME PoolAssumption ==
    /\ IsFiniteSet(Tunnels) /\ IsFiniteSet(Flows) /\ NoTunnel \notin Tunnels
    /\ PoolSize \in Nat \ {0} /\ PoolMax \in Nat /\ PoolSize <= PoolMax
    /\ MaxFlows \in Nat \ {0} /\ Usize \in Nat /\ MaxStale \in Nat
    /\ Usize > Cardinality(Flows) + MaxStale

VARIABLES
    entry,       \* "none" yet, an "active" or "draining" pool entry, or "out"
    life,        \* "alive", "dead" by itself, or shut down: "drained", "overdue"
    watcher,     \* "none", "polling", "closing" or "failing" (removed the entry), "ended"
    connecting,  \* PoolInner::connecting
    spawned,     \* background connects in flight (or waiting out a backoff)
    flow_count,  \* the atomic of each tunnel
    stale,       \* flow_states entries whose connection is gone
    pc, on,      \* each connection: where it is, the tunnel it picked
    listed       \* connections whose flow is in flow_states

tunnel == <<entry, life, watcher>>
inner == <<connecting, spawned>>
flows == <<flow_count, stale, pc, on, listed>>
vars == <<tunnel, inner, flows>>

TypeOK ==
    /\ entry \in [Tunnels -> {"none", "active", "draining", "out"}]
    /\ life \in [Tunnels -> {"none", "alive", "dead", "drained", "overdue"}]
    /\ watcher \in [Tunnels -> {"none", "polling", "closing", "failing", "ended"}]
    /\ connecting \in Nat /\ spawned \in Nat
    /\ flow_count \in [Tunnels -> 0..Usize - 1]
    /\ stale \in [Tunnels -> 0..MaxStale]
    /\ pc \in [Flows -> {"idle", "dialing", "picked", "opening", "inserted", "open"}]
    /\ on \in [Flows -> Tunnels \cup {NoTunnel}]
    /\ listed \in SUBSET Flows

Init ==
    /\ entry = [t \in Tunnels |-> "none"] /\ life = [t \in Tunnels |-> "none"]
    /\ watcher = [t \in Tunnels |-> "none"]
    /\ connecting = 0 /\ spawned = 0
    /\ flow_count = [t \in Tunnels |-> 0] /\ stale = [t \in Tunnels |-> 0]
    /\ pc = [f \in Flows |-> "idle"] /\ on = [f \in Flows |-> NoTunnel]
    /\ listed = {}
-----------------------------------------------------------------------------
(* PoolInner. *)

InPool(t) == entry[t] \in {"active", "draining"}
IsAlive(t) == life[t] = "alive"
Assignable == {t \in Tunnels : entry[t] = "active" /\ IsAlive(t)}
Dead == {t \in Tunnels : InPool(t) /\ ~IsAlive(t)}

\* prune_dead drops draining tunnels whether dead or not.
PruneDeadAndDraining ==
    entry' = [t \in Tunnels |-> IF t \in Dead \/ entry[t] = "draining" THEN "out" ELSE entry[t]]

PruneDead == entry' = [t \in Tunnels |-> IF t \in Dead THEN "out" ELSE entry[t]]

LeastLoaded(S) == {t \in S : \A u \in S : flow_count[t] <= flow_count[u]}

\* ensure_target with n assignable tunnels, after `extra` spawned connects.
EnsureTarget(n, extra) ==
    LET c == connecting + extra
        deficit == IF n + c < PoolSize THEN PoolSize - (n + c) ELSE 0
    IN  /\ connecting' = c + deficit
        /\ spawned' = spawned + extra + deficit

\* One handshake ended with an error: retry in the background below target.
RetryBelowTarget(ended) ==
    LET c == connecting - 1
        retry == IF Cardinality(Assignable) + c < PoolSize THEN 1 ELSE 0
    IN  /\ connecting' = c + retry
        /\ spawned' = spawned - ended + retry
-----------------------------------------------------------------------------
(* pick_tunnel. *)

Goto(f, l) == pc' = [pc EXCEPT ![f] = l]
Take(f, t) == on' = [on EXCEPT ![f] = t] /\ Goto(f, "picked")

\* The least-loaded assignable tunnel under the cap.
PickUnderCap(f) ==
    LET under == {t \in Assignable : flow_count[t] < MaxFlows} IN
    /\ pc[f] = "idle"
    /\ \E t \in LeastLoaded(under) : Take(f, t)
    /\ PruneDead
    /\ EnsureTarget(Cardinality(Assignable), 0)
    /\ UNCHANGED <<life, watcher, flow_count, stale, listed>>

\* All at the cap: grow toward pool_max, take the least loaded anyway.
PickAtCap(f) ==
    /\ pc[f] = "idle"
    /\ Assignable # {} /\ \A t \in Assignable : flow_count[t] >= MaxFlows
    /\ \E t \in LeastLoaded(Assignable) : Take(f, t)
    /\ PruneDead
    /\ EnsureTarget(Cardinality(Assignable),
                    IF Cardinality(Assignable) + connecting < PoolMax THEN 1 ELSE 0)
    /\ UNCHANGED <<life, watcher, flow_count, stale, listed>>

\* None assignable: connect in this task.
PickDial(f) ==
    /\ pc[f] = "idle" /\ Assignable = {}
    /\ Goto(f, "dialing")
    /\ PruneDead
    /\ connecting' = connecting + 1
    /\ UNCHANGED <<life, watcher, spawned, flow_count, stale, on, listed>>

\* A new tunnel joins the pool with its watcher.
Establish(t) ==
    /\ entry[t] = "none"
    /\ entry' = [entry EXCEPT ![t] = "active"]
    /\ life' = [life EXCEPT ![t] = "alive"]
    /\ watcher' = [watcher EXCEPT ![t] = "polling"]

\* connecting is decremented, then ensure_target counts the new tunnel.
Joined(ended) ==
    LET c == connecting - 1
        n == Cardinality(Assignable) + 1
        deficit == IF n + c < PoolSize THEN PoolSize - (n + c) ELSE 0
    IN  /\ connecting' = c + deficit
        /\ spawned' = spawned - ended + deficit

DialOk(f, t) ==
    /\ pc[f] = "dialing"
    /\ Establish(t) /\ Joined(0) /\ Take(f, t)
    /\ UNCHANGED <<flow_count, stale, listed>>


DialFail(f) ==
    /\ pc[f] = "dialing"
    /\ RetryBelowTarget(0)
    /\ Goto(f, "idle")
    /\ UNCHANGED <<tunnel, flow_count, stale, on, listed>>
-----------------------------------------------------------------------------
(* spawn_connect: a background handshake ends. *)

ConnectOk(t) ==
    /\ spawned > 0
    /\ Establish(t) /\ Joined(1)
    /\ UNCHANGED flows

\* A failed background connect is not rescheduled.
ConnectFailForGood ==
    /\ spawned > 0
    /\ connecting' = connecting - 1 /\ spawned' = spawned - 1
    /\ UNCHANGED <<tunnel, flows>>

ConnectFail ==
    /\ spawned > 0
    /\ RetryBelowTarget(1)
    /\ UNCHANGED <<tunnel, flows>>
-----------------------------------------------------------------------------
(* spawn_watcher: one poll. *)

\* The watcher of a dead tunnel tops the pool up and leaves the entry.
WatchDeadKeeping(t) ==
    /\ watcher[t] = "polling" /\ ~IsAlive(t)
    /\ watcher' = [watcher EXCEPT ![t] = "ended"]
    /\ IF Dead = {} THEN UNCHANGED inner ELSE EnsureTarget(Cardinality(Assignable), 0)
    /\ UNCHANGED <<entry, life, flows>>

WatchDead(t) ==
    /\ watcher[t] = "polling" /\ ~IsAlive(t)
    /\ watcher' = [watcher EXCEPT ![t] = "ended"]
    /\ PruneDead
    /\ IF Dead = {} THEN UNCHANGED inner ELSE EnsureTarget(Cardinality(Assignable), 0)
    /\ UNCHANGED <<life, flows>>

\* The replacement is left to a later poll.
WatchRotateAlone(t) ==
    /\ watcher[t] = "polling" /\ IsAlive(t) /\ entry[t] = "active"
    /\ entry' = [entry EXCEPT ![t] = IF flow_count[t] = 0 THEN "out" ELSE "draining"]
    /\ watcher' = [watcher EXCEPT ![t] = IF flow_count[t] = 0 THEN "closing" ELSE @]
    /\ UNCHANGED <<life, inner, flows>>

\* A rotation threshold fires; an empty tunnel leaves the pool at once.
WatchRotate(t) ==
    /\ watcher[t] = "polling" /\ IsAlive(t) /\ entry[t] = "active"
    /\ entry' = [entry EXCEPT ![t] = IF flow_count[t] = 0 THEN "out" ELSE "draining"]
    /\ watcher' = [watcher EXCEPT ![t] = IF flow_count[t] = 0 THEN "closing" ELSE @]
    /\ EnsureTarget(Cardinality(Assignable \ {t}), 0)
    /\ UNCHANGED <<life, flows>>

\* Only an empty tunnel is closed: there is no backstop.
WatchDrainedEmpty(t) ==
    /\ watcher[t] = "polling" /\ IsAlive(t) /\ entry[t] = "draining" /\ flow_count[t] = 0
    /\ entry' = [entry EXCEPT ![t] = "out"]
    /\ watcher' = [watcher EXCEPT ![t] = "closing"]
    /\ UNCHANGED <<life, inner, flows>>

\* A draining tunnel is empty, or past the drain backstop.
WatchDrained(t) ==
    /\ watcher[t] = "polling" /\ IsAlive(t) /\ entry[t] = "draining"
    /\ entry' = [entry EXCEPT ![t] = "out"]
    /\ watcher' = [watcher EXCEPT ![t] = IF flow_count[t] = 0 THEN "closing" ELSE "failing"]
    /\ UNCHANGED <<life, inner, flows>>

\* Socks5Tunnel::shutdown, once the pool's lock is released.
Shutdown(t) ==
    /\ watcher[t] \in {"closing", "failing"}
    /\ watcher' = [watcher EXCEPT ![t] = "ended"]
    /\ life' = [life EXCEPT ![t] = IF ~IsAlive(t) THEN @
                                   ELSE IF watcher[t] = "closing" THEN "drained" ELSE "overdue"]
    /\ flow_count' = [flow_count EXCEPT ![t] = 0]
    /\ stale' = [stale EXCEPT ![t] = 0]
    /\ listed' = {f \in listed : on[f] # t}
    /\ UNCHANGED <<entry, inner, pc, on>>
-----------------------------------------------------------------------------
(* Socks5Tunnel, seen from one flow. *)

\* The receive loop ends: alive is cleared; flow_states is left as it is.
Die(t) ==
    /\ IsAlive(t)
    /\ life' = [life EXCEPT ![t] = "dead"]
    /\ UNCHANGED <<entry, watcher, inner, flows>>

\* open_flow: the alive check, CreateFlow (whose send may fail on a tunnel
\* that is down), the flow_states insert, the counter.
OpenFlow(f) ==
    /\ pc[f] = "picked"
    /\ Goto(f, IF IsAlive(on[f]) THEN "opening" ELSE "idle")
    /\ UNCHANGED <<tunnel, inner, flow_count, stale, on, listed>>

CreateFlowFails(f) ==
    /\ pc[f] = "opening" /\ ~IsAlive(on[f])
    /\ Goto(f, "idle")
    /\ UNCHANGED <<tunnel, inner, flow_count, stale, on, listed>>

InsertState(f) ==
    /\ pc[f] = "opening"
    /\ Goto(f, "inserted")
    /\ listed' = listed \cup {f}
    /\ UNCHANGED <<tunnel, inner, flow_count, stale, on>>

\* The counter does not keep its width.
AddFlowUnwrapped(t, n) == flow_count' = [flow_count EXCEPT ![t] = @ + n]

\* fetch_add and, with n = Usize - 1, fetch_sub.
AddFlow(t, n) == flow_count' = [flow_count EXCEPT ![t] = (@ + n) % Usize]

CountFlow(f) ==
    /\ pc[f] = "inserted"
    /\ Goto(f, "open")
    /\ AddFlow(on[f], 1)
    /\ UNCHANGED <<tunnel, inner, stale, on, listed>>

\* FlowFailed or CloseFlow arrives: remove_flow_state.
ServerClosesUncounted(f) ==
    /\ f \in listed /\ IsAlive(on[f])
    /\ listed' = listed \ {f}
    /\ UNCHANGED <<tunnel, inner, flow_count, stale, pc, on>>

ServerCloses(f) ==
    /\ f \in listed /\ IsAlive(on[f])
    /\ listed' = listed \ {f}
    /\ AddFlow(on[f], Usize - 1)
    /\ UNCHANGED <<tunnel, inner, stale, pc, on>>

\* The flow's channel is closed, so the relay ends.
RelayEnds(f) ==
    /\ pc[f] = "open" /\ f \notin listed
    /\ Goto(f, "idle")
    /\ UNCHANGED <<tunnel, inner, flow_count, stale, on, listed>>

\* The application closes first: dropping the flow sends CloseFlow and
\* leaves its flow_states entry.
AppCloses(f) ==
    /\ pc[f] = "open" /\ f \in listed /\ stale[on[f]] < MaxStale
    /\ Goto(f, "idle")
    /\ listed' = listed \ {f}
    /\ stale' = [stale EXCEPT ![on[f]] = @ + 1]
    /\ UNCHANGED <<tunnel, inner, flow_count, on>>

\* A data frame for such an entry finds its channel closed: close_flow.  So
\* does a CloseFlow the server had sent before it saw the client's.
LateFrame(t) ==
    /\ stale[t] > 0 /\ IsAlive(t)
    /\ stale' = [stale EXCEPT ![t] = @ - 1]
    /\ AddFlow(t, Usize - 1)
    /\ UNCHANGED <<tunnel, inner, pc, on, listed>>
-----------------------------------------------------------------------------
Pool(t) ==
    \/ ConnectOk(t) \/ WatchDead(t) \/ WatchRotate(t) \/ WatchDrained(t)
    \/ Shutdown(t) \/ Die(t) \/ LateFrame(t)

Connection(f) ==
    \/ PickUnderCap(f) \/ PickAtCap(f) \/ PickDial(f)
    \/ \E t \in Tunnels : DialOk(f, t)
    \/ DialFail(f)
    \/ OpenFlow(f) \/ CreateFlowFails(f) \/ InsertState(f) \/ CountFlow(f)
    \/ ServerCloses(f) \/ RelayEnds(f) \/ AppCloses(f)

Next == ConnectFail \/ (\E t \in Tunnels : Pool(t)) \/ (\E f \in Flows : Connection(f))

Spec == Init /\ [][Next]_vars

(***************************************************************************)
(* Fairness: a watcher polls on a timer, and one whose tunnel is draining  *)
(* sees the backstop pass.  Nothing is assumed of handshakes, thresholds,  *)
(* the server or the application: a relay may be parked for good in the    *)
(* write to an application that does not read.                             *)
(***************************************************************************)
FairSpec ==
    /\ Spec
    /\ \A t \in Tunnels : WF_vars(WatchDead(t) \/ WatchDrained(t))
-----------------------------------------------------------------------------
Dialing == {f \in Flows : pc[f] = "dialing"}

(* Accounting of handshakes: every slot counted in `connecting` belongs to
   a handshake in flight, in the background or in a picking task, whatever
   mix of picks, failures, retries, deaths and rotations came before. *)
ConnectingExact == connecting = spawned + Cardinality(Dialing)

(* The pool never forgets to refill (ensure_target, the retry of a failed
   connect, the death path of the watcher): once it was used, a pool below
   its target has a handshake in flight, or holds a dead tunnel whose
   watcher is still going to top it up. *)
RefillPending ==
    (\E t \in Tunnels : entry[t] # "none") /\ Cardinality(Assignable) < PoolSize
        => connecting > 0 \/ \E t \in Dead : watcher[t] = "polling"

(* Drain completion (spawn_watcher): a tunnel is taken out of the pool alive
   only by its own watcher, and then it was draining, or rotated while it
   had no flow. *)
DrainedBeforeRemoval ==
    \A t \in Tunnels :
        InPool(t) /\ IsAlive(t) /\ entry'[t] = "out"
            => watcher[t] = "polling" /\ watcher'[t] \in {"closing", "failing"}
               /\ (entry[t] = "active" => flow_count[t] = 0)

(* Rotation (the comment "so no observer ever sees a drain without a
   replacement already in flight"): the step that takes an assignable tunnel
   out of service leaves the target covered by tunnels and handshakes. *)
TargetStaysCovered ==
    \A t \in Tunnels :
        entry[t] = "active" /\ IsAlive(t) /\ entry'[t] # "active"
            => Cardinality(Assignable') + connecting' >= PoolSize

(* Striping: a flow_states entry is never outlived by its count. Once no
   open_flow is between its insert and its increment, and the tunnel was
   not shut down meanwhile, flow_count is the number of entries. *)
FlowCountMirrors ==
    \A t \in Tunnels :
        IsAlive(t) /\ (\A f \in Flows : on[f] = t => pc[f] # "inserted")
            => flow_count[t] = stale[t] + Cardinality({f \in listed : on[f] = t})

(* The counters of the pool say what they count. *)
CountersExact == TypeOK /\ ConnectingExact /\ FlowCountMirrors

(* A tunnel leaves service only when that is safe. *)
RotationSafe == [][DrainedBeforeRemoval /\ TargetStaysCovered]_vars

(* What is to leave the pool leaves it, whatever its flows do: a draining
   tunnel, though a flow never ends (the backstop), and a dead one, though
   nobody picks (the watcher's death path). *)
PoolDrains ==
    \A t \in Tunnels : (entry[t] = "draining" \/ t \in Dead) ~> ~InPool(t)
-----------------------------------------------------------------------------
(* Module doc: "no new flows are assigned, existing flows run to completion",
   and the tunnel is shut down "once empty": a shutdown that is not the
   backstop's cuts no open flow.  The code does not keep this: the count the
   watcher reads misses connections that are still on their way. *)
DrainSparesOpenFlows ==
    [][\A t \in Tunnels : Shutdown(t) /\ watcher[t] = "closing"
         => \A f \in listed : on[f] = t => pc[f] # "open"]_vars
=============================================================================

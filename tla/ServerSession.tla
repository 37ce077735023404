--------------------------- MODULE ServerSession ---------------------------
(***************************************************************************)
(* One exit-server session of the iOS/macOS client                         *)
(* (rvpn-mobile/src/server_session.rs), driven the way ios_tun.rs and      *)
(* ios_tun_ffi.rs drive it.  The DEFAULT session is started by             *)
(* rvpn_tun_start and sends packets as they are; a SECONDARY exit is       *)
(* started lazily by the first packet the demux routes to it, and its      *)
(* packets are stashed until the server has assigned a tunnel address.     *)
(*                                                                         *)
(* Processes: the reconnect loops that start() spawns, the preconnect      *)
(* warmer, the demux thread that calls try_send_packet, and the            *)
(* application thread that calls rvpn_tun_start and rvpn_tun_stop.  What   *)
(* run_packet_relay does between its start and its end is module           *)
(* SessionRelay; here a relay takes packets and may end at any time.       *)
(***************************************************************************)
EXTENDS Integers, Sequences, FiniteSets

CONSTANTS
  Loops,        \* identities of reconnect-loop tasks (start() spawns them)
  MaxConns,     \* bound: relays that start before the path stays down
  MaxPackets,   \* bound: packets the demux routes to this session
  MaxCalls,     \* bound: rvpn_tun_stop and rvpn_tun_start calls
  Ips,          \* addresses the server may assign (positive numbers)
  PendingCap,   \* PENDING_UPLINK_CAP
  ChanCap,      \* capacity of the from_swift channel
  MaxAttempts   \* reconnect_max_attempts of the default session

VARIABLES
  role,         \* is_default
  enabled,      \* reconnect_enabled
  started,      \* is_started
  state,        \* the TunClientState the application sees
  tunnelIp,     \* tunnel_ip, 0 for None
  pending,      \* pending_uplink, packet numbers
  chan,         \* from_swift channel: packets with their source rewritten
  loop,         \* reconnect loops: pc, attempts, had_successful_session, ...
  nconn,        \* relays started so far
  slot,         \* the preconnect slot
  warmer,       \* where the warmer task is
  warming,      \* preconnect_warming
  demux,        \* the packet in the demux thread's hands
  routed,       \* packets routed so far
  calls,        \* application calls made so far
  stopping      \* the application thread is between the two halves of a stop

vars == <<role, enabled, started, state, tunnelIp, pending, chan, loop, nconn,
          slot, warmer, warming, demux, routed,
          calls, stopping>>

uplinkVars == <<pending, chan, tunnelIp>>
warmVars == <<slot, warmer, warming>>
appVars == <<role, demux, routed, calls, stopping>>

Packet == [n : 1..MaxPackets, src : Ips \cup {0}]   \* 0: source as it came
LoopPc == {"off", "top", "backoff", "connect", "dial", "redial", "dialed",
           "handshake", "agreed", "vip", "flush", "up", "relay"}

TypeOK ==
  /\ role \in {"default", "secondary"}
  /\ enabled \in BOOLEAN /\ started \in BOOLEAN
  /\ state \in {"Init", "Connecting", "Connected", "Error"}
  /\ tunnelIp \in Ips \cup {0}
  /\ pending \in Seq(1..MaxPackets) /\ Len(pending) <= PendingCap
  /\ chan \in Seq(Packet) /\ Len(chan) <= ChanCap
  /\ loop \in [Loops -> [pc : LoopPc, attempts : 0..(MaxAttempts + 1),
                         had : BOOLEAN, warm : BOOLEAN]]
  /\ nconn \in 0..MaxConns
  /\ slot \in {"none", "fresh", "stale"}
  /\ warmer \in {"off", "top", "store", "hold", "discard", "end"}
  /\ warming \in BOOLEAN
  /\ demux.at \in {"idle", "enqueue", "send", "stash"} /\ routed \in 0..MaxPackets
  /\ calls \in 0..MaxCalls /\ stopping \in BOOLEAN

Init ==
  /\ role \in {"default", "secondary"}
  /\ enabled = FALSE /\ started = FALSE /\ state = "Init" /\ tunnelIp = 0
  /\ pending = <<>> /\ chan = <<>>
  /\ loop = [l \in Loops |-> [pc |-> "off", attempts |-> 0, had |-> FALSE,
                              warm |-> FALSE]]
  /\ nconn = 0
  /\ slot = "none" /\ warmer = "off" /\ warming = FALSE
  /\ demux = [at |-> "idle", n |-> 0, src |-> 0] /\ routed = 0 /\ calls = 0
  /\ stopping = FALSE

----------------------------------------------------------------------------
(* try_send of one packet into the bounded from_swift channel.             *)
TrySend(ch, p) == IF Len(ch) < ChanCap THEN Append(ch, p) ELSE ch

(* flush_pending: rewrite and enqueue every stashed packet, in order; what *)
(* does not fit in the channel is dropped.                                 *)
Flushable(room) == SubSeq(pending, 1, IF Len(pending) <= room THEN Len(pending) ELSE room)

Stashing == demux.at = "stash"     \* the demux thread holds the stash lock

----------------------------------------------------------------------------
(* The reconnect loop of start().                                          *)

At(l, pc) == loop[l].pc = pc

Goto(l, pc) == loop' = [loop EXCEPT ![l].pc = pc]

(* connect() returned an error: count the attempt, report it unless the    *)
(* session is being stopped, and leave the loop when it is.                *)
ConnectFailed(l) ==
  /\ loop' = [loop EXCEPT ![l].pc = IF enabled THEN "top" ELSE "off",
                          ![l].attempts = IF @ <= MaxAttempts THEN @ + 1 ELSE @,
                          ![l].warm = FALSE]
  /\ state' = IF enabled THEN "Error" ELSE state

(* Mutant: the compare_exchange on preconnect_warming is left out.         *)
SpawnSecondWarmer == warming' = TRUE /\ warmer' = "top"

(* spawn_preconnect_warmer: at most one warmer.                            *)
SpawnWarmer ==
  IF warming THEN UNCHANGED <<warmer, warming>>
  ELSE warming' = TRUE /\ warmer' = "top"

(* 0 means unlimited; the setter reaches only the default session.         *)
AttemptsLimit == IF role = "default" THEN MaxAttempts ELSE 0

Exhausted(l) == AttemptsLimit > 0 /\ loop[l].attempts >= AttemptsLimit

(* The head of the loop: reconnection disabled, attempts exhausted, or a   *)
(* delay.  The delay is certain after a failed attempt, and may also be    *)
(* imposed by the flap window (module ReconnectBackoff).                   *)
LoopTop(l) ==
  /\ At(l, "top")
  /\ \/ /\ ~enabled
        /\ Goto(l, "off") /\ UNCHANGED <<state, uplinkVars, warmVars>>
     \/ /\ enabled /\ Exhausted(l) /\ ~Stashing
        /\ pending' = <<>> /\ state' = "Error" /\ Goto(l, "off")
        /\ UNCHANGED <<chan, tunnelIp, warmVars>>
     \/ /\ enabled /\ ~Exhausted(l)
        /\ \/ /\ loop' = [loop EXCEPT ![l].pc = "backoff", ![l].had = FALSE]
              /\ SpawnWarmer /\ UNCHANGED slot
           \/ /\ loop[l].had \/ loop[l].attempts = 0
              /\ loop' = [loop EXCEPT ![l].pc = "connect", ![l].had = FALSE]
              /\ UNCHANGED warmVars
        /\ UNCHANGED <<state, uplinkVars>>
  /\ UNCHANGED <<enabled, started, nconn, appVars>>

Backoff(l) ==
  /\ At(l, "backoff")
  /\ Goto(l, IF enabled THEN "connect" ELSE "off")
  /\ UNCHANGED <<enabled, started, state, uplinkVars, nconn, warmVars, appVars>>

(* connect(): state Connecting, then a warm transport if one is ready and  *)
(* no older than PRECONNECT_MAX_AGE.                                       *)
Connect(l) ==
  /\ At(l, "connect")
  /\ \/ /\ ~enabled /\ ConnectFailed(l) /\ UNCHANGED warmVars
     \/ /\ enabled /\ state' = "Connecting"
        /\ loop' = [loop EXCEPT ![l].pc = IF slot = "fresh" THEN "dialed" ELSE "dial",
                                ![l].warm = slot = "fresh"]
        /\ slot' = "none" /\ UNCHANGED <<warmer, warming>>
  /\ UNCHANGED <<enabled, started, uplinkVars, nconn, appVars>>

(* Transports that are up but not yet relaying; MaxConns bounds how many   *)
(* dials succeed altogether, after that the path stays down.               *)
Rising ==
  Cardinality({l \in Loops : loop[l].pc \in
                 {"dialed", "handshake", "agreed", "vip", "flush", "up"}})
  + (IF slot # "none" \/ warmer = "store" THEN 1 ELSE 0)

Reachable == nconn + Rising < MaxConns

(* establish_transport, from connect() or from its retry.                  *)
Dial(l) ==
  /\ loop[l].pc \in {"dial", "redial"}
  /\ \/ ConnectFailed(l)
     \/ /\ Reachable
        /\ Goto(l, IF At(l, "dial") THEN "dialed" ELSE "handshake")
        /\ UNCHANGED state
  /\ UNCHANGED <<enabled, started, uplinkVars, nconn, warmVars, appVars>>

(* The two checks of reconnect_enabled on the way up.                      *)
CheckEnabled(l) ==
  /\ loop[l].pc \in {"dialed", "agreed"}
  /\ \/ ~enabled /\ ConnectFailed(l)
     \/ /\ enabled /\ UNCHANGED state
        /\ Goto(l, IF At(l, "dialed") THEN "handshake" ELSE "vip")
  /\ UNCHANGED <<enabled, started, uplinkVars, nconn, warmVars, appVars>>

(* perform_handshake; on a warm transport a failure is retried once on a   *)
(* fresh one.                                                              *)
Handshake(l) ==
  /\ At(l, "handshake")
  /\ \/ Goto(l, "agreed") /\ UNCHANGED state
     \/ /\ loop[l].warm /\ UNCHANGED state
        /\ loop' = [loop EXCEPT ![l].pc = "redial", ![l].warm = FALSE]
     \/ ~loop[l].warm /\ ConnectFailed(l)
  /\ UNCHANGED <<enabled, started, uplinkVars, nconn, warmVars, appVars>>

(* receive_virtual_ip and the store of tunnel_ip.                          *)
AssignIp(l) ==
  /\ At(l, "vip")
  /\ \/ ConnectFailed(l) /\ UNCHANGED uplinkVars
     \/ /\ \E ip \in Ips : tunnelIp' = ip
        /\ Goto(l, "flush") /\ UNCHANGED <<state, pending, chan>>
  /\ UNCHANGED <<enabled, started, nconn, warmVars, appVars>>

(* Mutant: the stash is drained without its lock.                          *)
FlushUnlocked(l) ==
  /\ At(l, "flush")
  /\ LET fits == Flushable(ChanCap - Len(chan))
     IN  chan' = chan \o [i \in 1..Len(fits) |-> [n |-> fits[i], src |-> tunnelIp]]
  /\ pending' = <<>> /\ Goto(l, "up")
  /\ UNCHANGED <<enabled, started, state, tunnelIp, nconn, warmVars, appVars>>

(* flush_pending, after the address is stored and under the stash lock.    *)
FlushPending(l) ==
  /\ At(l, "flush") /\ ~Stashing
  /\ LET fits == Flushable(ChanCap - Len(chan))
     IN  chan' = chan \o [i \in 1..Len(fits) |-> [n |-> fits[i], src |-> tunnelIp]]
  /\ pending' = <<>> /\ Goto(l, "up")
  /\ UNCHANGED <<enabled, started, state, tunnelIp, nconn, warmVars, appVars>>

(* Connected is reported and run_packet_relay entered.                     *)
RelayStarts(l) ==
  /\ At(l, "up")
  /\ nconn' = nconn + 1
  /\ loop' = [loop EXCEPT ![l].pc = "relay", ![l].warm = FALSE]
  /\ state' = "Connected"
  /\ UNCHANGED <<enabled, started, uplinkVars, warmVars, appVars>>

(* The relay's run_tx takes a packet, until the relay ends: then Error is  *)
(* reported, connect() returns Ok and the loop goes round.  A keepalive    *)
(* that finds the path dead reports Connecting before that.                *)
RelayTakes(l) ==
  /\ At(l, "relay") /\ chan # <<>>
  /\ chan' = Tail(chan)
  /\ UNCHANGED <<enabled, started, state, pending, tunnelIp, loop, nconn, warmVars,
                 appVars>>

RelayFoundDead(l) ==
  /\ At(l, "relay") /\ state' = "Connecting"
  /\ UNCHANGED <<enabled, started, uplinkVars, loop, nconn, warmVars, appVars>>

(* Mutant: the end of a relay is not reported.                             *)
RelayEndsSilently(l) ==
  /\ At(l, "relay")
  /\ loop' = [loop EXCEPT ![l] = [pc |-> IF enabled THEN "top" ELSE "off",
                                  attempts |-> 0, had |-> TRUE, warm |-> FALSE]]
  /\ UNCHANGED <<enabled, started, state, uplinkVars, nconn, warmVars, appVars>>

RelayEnds(l) ==
  /\ At(l, "relay")
  /\ state' = "Error"
  /\ loop' = [loop EXCEPT ![l] = [pc |-> IF enabled THEN "top" ELSE "off",
                                  attempts |-> 0, had |-> TRUE, warm |-> FALSE]]
  /\ UNCHANGED <<enabled, started, uplinkVars, nconn, warmVars, appVars>>

----------------------------------------------------------------------------
(* The preconnect warmer.                                                  *)

WarmerDone == ~enabled \/ state = "Connected"

(* Establish a transport, unless there is no more need for one; a failure  *)
(* is retried after a second.                                              *)
WarmerTop ==
  /\ warmer = "top"
  /\ \/ WarmerDone /\ warmer' = "end"
     \/ ~WarmerDone /\ Reachable /\ warmer' = "store"
  /\ UNCHANGED <<slot, warming, loop, enabled, started, state, uplinkVars,
                 nconn, appVars>>

WarmerStore ==
  /\ warmer = "store"
  /\ slot' = "fresh" /\ warmer' = "hold"
  /\ UNCHANGED <<warming, loop, enabled, started, state, uplinkVars, nconn, appVars>>

(* Every 250 ms: no longer needed, consumed by connect(), or too old.      *)
WarmerHold ==
  /\ warmer = "hold"
  /\ \/ WarmerDone /\ warmer' = "discard" /\ UNCHANGED warming
     \/ ~WarmerDone /\ slot = "none" /\ warmer' = "off" /\ warming' = FALSE
     \/ ~WarmerDone /\ slot = "stale" /\ warmer' = "discard" /\ UNCHANGED warming
  /\ UNCHANGED <<slot, loop, enabled, started, state, uplinkVars, nconn, appVars>>

WarmerDiscard ==
  /\ warmer = "discard"
  /\ slot' = "none" /\ warmer' = "top"
  /\ UNCHANGED <<warming, loop, enabled, started, state, uplinkVars, nconn, appVars>>

WarmerEnd ==
  /\ warmer = "end"
  /\ slot' = "none" /\ warmer' = "off" /\ warming' = FALSE
  /\ UNCHANGED <<loop, enabled, started, state, uplinkVars, nconn, appVars>>

(* PRECONNECT_MAX_AGE passes.                                              *)
WarmAges ==
  /\ slot = "fresh" /\ slot' = "stale"
  /\ UNCHANGED <<warmer, warming, loop, enabled, started, state, uplinkVars,
                 nconn, appVars>>

----------------------------------------------------------------------------
(* The demux thread: try_send_packet for a packet routed to this exit.     *)

(* ensure_session_started: a session that is not started is enabled and    *)
(* its loop spawned.                                                       *)
SpawnLoop(l) ==
  loop' = [loop EXCEPT ![l] = [pc |-> "top", attempts |-> 0, had |-> FALSE,
                               warm |-> FALSE]]

EnsureStarted ==
  /\ role = "secondary" /\ demux.at = "idle" /\ routed < MaxPackets
  /\ \/ started /\ UNCHANGED <<enabled, started, loop>>
     \/ /\ ~started /\ enabled' = TRUE /\ started' = TRUE
        /\ \E l \in Loops : At(l, "off") /\ SpawnLoop(l)
  /\ routed' = routed + 1 /\ demux' = [at |-> "enqueue", n |-> routed + 1, src |-> 0]
  /\ UNCHANGED <<state, uplinkVars, nconn, warmVars, role, calls, stopping>>

(* A packet of the default session is sent as it is.                       *)
DefaultPacket ==
  /\ role = "default" /\ demux.at = "idle" /\ routed < MaxPackets
  /\ routed' = routed + 1 /\ demux' = [at |-> "send", n |-> routed + 1, src |-> 0]
  /\ UNCHANGED <<enabled, started, state, uplinkVars, loop, nconn, warmVars, role,
                 calls, stopping>>

(* enqueue_uplink: under the stash lock read tunnel_ip; with an address,   *)
(* release the lock, rewrite the source and try_send; without, stash.      *)
EnqueueUplink ==
  /\ demux.at = "enqueue"
  /\ demux' = [demux EXCEPT !.at = IF tunnelIp # 0 THEN "send" ELSE "stash",
                            !.src = tunnelIp]
  /\ UNCHANGED <<enabled, started, state, uplinkVars, loop, nconn, warmVars, role,
                 routed, calls, stopping>>

EnqueueRewritten ==
  /\ demux.at = "send"
  /\ chan' = TrySend(chan, [n |-> demux.n, src |-> demux.src])
  /\ demux' = [demux EXCEPT !.at = "idle"]
  /\ UNCHANGED <<enabled, started, state, pending, tunnelIp, loop, nconn,
                 warmVars, role, routed, calls, stopping>>

Stash ==
  /\ Stashing
  /\ pending' = Append(IF Len(pending) >= PendingCap THEN Tail(pending) ELSE pending,
                       demux.n)
  /\ demux' = [demux EXCEPT !.at = "idle"]
  /\ UNCHANGED <<enabled, started, state, tunnelIp, chan, loop, nconn,
                 warmVars, role, routed, calls, stopping>>

----------------------------------------------------------------------------
(* The application thread.                                                 *)

(* rvpn_tun_stop, first half: set_reconnect_enabled(false).                *)
StopDisable ==
  /\ calls < MaxCalls /\ ~stopping
  /\ enabled' = FALSE /\ stopping' = TRUE /\ calls' = calls + 1
  /\ UNCHANGED <<role, started, state, uplinkVars, loop, nconn, warmVars, demux,
                 routed>>

(* rvpn_tun_stop, second half: stop() of this session.  Its shutdown       *)
(* broadcast ends a relay (RelayEnds) if the relay's tasks receive it.     *)
Stop ==
  /\ stopping /\ ~Stashing
  /\ pending' = <<>> /\ started' = FALSE /\ stopping' = FALSE
  /\ UNCHANGED <<role, enabled, state, tunnelIp, chan, loop, nconn, warmVars, demux,
                 routed, calls>>

(* rvpn_tun_start enables reconnection on every session and starts only    *)
(* the default one.                                                        *)
StartClient ==
  /\ calls < MaxCalls /\ ~stopping
  /\ enabled' = TRUE /\ calls' = calls + 1
  /\ \/ /\ role = "secondary" \/ started
        /\ UNCHANGED <<started, loop>>
     \/ /\ role = "default" /\ ~started /\ started' = TRUE
        /\ \E l \in Loops : At(l, "off") /\ SpawnLoop(l)
  /\ UNCHANGED <<role, state, uplinkVars, nconn, warmVars, demux, routed, stopping>>

----------------------------------------------------------------------------
LoopStep(l) ==
  \/ LoopTop(l) \/ Backoff(l) \/ Connect(l) \/ Dial(l) \/ CheckEnabled(l)
  \/ Handshake(l) \/ AssignIp(l) \/ FlushPending(l) \/ RelayStarts(l)
  \/ RelayTakes(l) \/ RelayFoundDead(l) \/ RelayEnds(l)

WarmerStep == WarmerTop \/ WarmerStore \/ WarmerHold \/ WarmerDiscard \/ WarmerEnd

DemuxStep == EnsureStarted \/ DefaultPacket \/ EnqueueUplink \/ EnqueueRewritten \/ Stash

AppStep == StopDisable \/ Stop \/ StartClient

Next ==
  \/ \E l \in Loops : LoopStep(l)
  \/ WarmerStep \/ WarmAges \/ DemuxStep \/ AppStep

Spec == Init /\ [][Next]_vars

----------------------------------------------------------------------------
(* No packet is stranded in the stash: once the tunnel address is stored   *)
(* (connect, after receive_virtual_ip) nothing enters the stash any more,  *)
(* and what is in it has a flush_pending still to come.  enqueue_uplink    *)
(* keeps the stash lock from its read of tunnel_ip to its push for that.   *)
NoStrandedStash ==
  tunnelIp # 0 /\ (pending # <<>> \/ Stashing) =>
    \E l \in Loops : At(l, "flush")

(* A warm transport always has a warmer that will discard it when it is    *)
(* stale or no longer needed, and preconnect_warming says truthfully       *)
(* whether a warmer runs, so there is never a second one.                  *)
WarmTransportOwned ==
  /\ slot # "none" => warmer = "hold" \/ warmer = "discard"
  /\ warming <=> warmer # "off"

(* The session claims to be Connected only while one of its loops is       *)
(* inside run_packet_relay: the warmer stops on that claim, and the        *)
(* application shows it.                                                   *)
ConnectedMeansRelay ==
  state = "Connected" => \E l \in Loops : At(l, "relay")

(* The comment in start(): is_started is checked and set atomically "to    *)
(* prevent duplicate reconnect loops".  stop() clears it while the loop it *)
(* is to end may still be dialling.                                        *)
OneReconnectLoop == Cardinality({l \in Loops : loop[l].pc # "off"}) <= 1
=============================================================================

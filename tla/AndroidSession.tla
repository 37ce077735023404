--------------------------- MODULE AndroidSession ---------------------------
(***************************************************************************)
(* One exit-server session of the Android client                           *)
(* (rvpn-mobile/src/android_server_session.rs), driven by android_tun.rs   *)
(* and android_tun_ffi.rs.  It differs from the iOS session (module        *)
(* ServerSession) where the two sources differ: there is no preconnect     *)
(* warmer and no flap window, stop() leaves is_started alone, and the      *)
(* reconnect loop clears it when it ends.  The relay itself is module      *)
(* SessionRelay.                                                           *)
(***************************************************************************)
EXTENDS Integers, Sequences

CONSTANTS
  Loops,        \* identities of reconnect-loop tasks
  MaxConns,     \* bound: relays that start before the path stays down
  MaxPackets,   \* bound: packets sent through this session
  MaxCalls,     \* bound: rvpnTunStart and rvpnTunStop calls
  PendingCap,   \* PENDING_UPLINK_CAP
  ChanCap,      \* capacity of the from_swift channel
  MaxAttempts   \* reconnect_max_attempts of the default session

VARIABLES
  role,         \* is_default
  enabled,      \* reconnect_enabled
  started,      \* is_started
  state,        \* TunClientState
  tunnelIp,     \* whether tunnel_ip is Some
  pending,      \* pending_uplink, packet numbers
  chan,         \* from_swift channel: packet numbers
  loop,         \* reconnect loops
  nconn,        \* relays started so far
  demux,        \* the packet in the demux thread's hands
  routed,       \* packets sent so far
  calls,        \* application calls so far
  stopping      \* stop() is between its store and drop_pending

vars == <<role, enabled, started, state, tunnelIp, pending, chan, loop, nconn,
          demux, routed, calls, stopping>>

uplinkVars == <<tunnelIp, pending, chan>>
appVars == <<role, demux, routed, calls, stopping>>

Idle == [pc |-> "off", attempts |-> 0, had |-> FALSE]

TypeOK ==
  /\ role \in {"default", "secondary"}
  /\ enabled \in BOOLEAN /\ started \in BOOLEAN /\ tunnelIp \in BOOLEAN
  /\ state \in {"Init", "Connecting", "Connected", "Error"}
  /\ pending \in Seq(1..MaxPackets) /\ Len(pending) <= PendingCap
  /\ chan \in Seq(1..MaxPackets) /\ Len(chan) <= ChanCap
  /\ loop \in [Loops -> [pc : {"off", "top", "backoff", "connect", "dial", "dialed",
                               "handshake", "agreed", "vip", "flush", "up", "relay",
                               "end"},
                         attempts : 0..(MaxAttempts + 1), had : BOOLEAN]]
  /\ nconn \in 0..MaxConns
  /\ demux.at \in {"idle", "enqueue", "send", "stash"} /\ routed \in 0..MaxPackets
  /\ calls \in 0..MaxCalls /\ stopping \in BOOLEAN

Init ==
  /\ role \in {"default", "secondary"}
  /\ enabled = FALSE /\ started = FALSE /\ state = "Init" /\ tunnelIp = FALSE
  /\ pending = <<>> /\ chan = <<>> /\ nconn = 0
  /\ loop = [l \in Loops |-> Idle]
  /\ demux = [at |-> "idle", n |-> 0] /\ routed = 0
  /\ calls = 0 /\ stopping = FALSE

----------------------------------------------------------------------------
At(l, pc) == loop[l].pc = pc
Goto(l, pc) == loop' = [loop EXCEPT ![l].pc = pc]
Stashing == demux.at = "stash"     \* the demux thread holds the stash lock

AttemptsLimit == IF role = "default" THEN MaxAttempts ELSE 0
Exhausted(l) == AttemptsLimit > 0 /\ loop[l].attempts >= AttemptsLimit

(* connect() returned an error: counted, not reported.                     *)
ConnectFailed(l) ==
  loop' = [loop EXCEPT ![l].pc = IF enabled THEN "top" ELSE "end",
                       ![l].attempts = IF @ <= MaxAttempts THEN @ + 1 ELSE @]

(* The head of start()'s loop.                                             *)
LoopTop(l) ==
  /\ At(l, "top")
  /\ \/ /\ ~enabled
        /\ Goto(l, "end") /\ UNCHANGED <<state, pending>>
     \/ /\ enabled /\ Exhausted(l) /\ ~Stashing
        /\ pending' = <<>> /\ state' = "Error" /\ Goto(l, "end")
     \/ /\ enabled /\ ~Exhausted(l)
        /\ loop' = [loop EXCEPT ![l].had = FALSE,
                      ![l].pc = IF ~loop[l].had /\ loop[l].attempts > 0
                                THEN "backoff" ELSE "connect"]
        /\ UNCHANGED <<state, pending>>
  /\ UNCHANGED <<enabled, started, tunnelIp, chan, nconn, appVars>>

(* The chunked sleep: disabled meanwhile, the task returns from inside the *)
(* loop, past the store that clears is_started.                            *)
Backoff(l) ==
  /\ At(l, "backoff")
  /\ Goto(l, IF enabled THEN "connect" ELSE "off")
  /\ UNCHANGED <<enabled, started, state, uplinkVars, nconn, appVars>>

(* The statement after the loop.                                           *)
LoopEnds(l) ==
  /\ At(l, "end") /\ Goto(l, "off") /\ started' = FALSE
  /\ UNCHANGED <<enabled, state, uplinkVars, nconn, appVars>>

Connect(l) ==
  /\ At(l, "connect")
  /\ \/ ~enabled /\ ConnectFailed(l) /\ UNCHANGED state
     \/ enabled /\ state' = "Connecting" /\ Goto(l, "dial")
  /\ UNCHANGED <<enabled, started, uplinkVars, nconn, appVars>>

(* TCP, TLS and the WebSocket upgrade, each with a 5 s limit; MaxConns     *)
(* bounds how often that succeeds.                                         *)
Dial(l) ==
  /\ At(l, "dial")
  /\ \/ ConnectFailed(l)
     \/ nconn < MaxConns /\ Goto(l, "dialed")
  /\ UNCHANGED <<enabled, started, state, uplinkVars, nconn, appVars>>

CheckEnabled(l) ==
  /\ loop[l].pc \in {"dialed", "agreed"}
  /\ \/ ~enabled /\ ConnectFailed(l)
     \/ enabled /\ Goto(l, IF At(l, "dialed") THEN "handshake" ELSE "vip")
  /\ UNCHANGED <<enabled, started, state, uplinkVars, nconn, appVars>>

Handshake(l) ==
  /\ At(l, "handshake")
  /\ ConnectFailed(l) \/ Goto(l, "agreed")
  /\ UNCHANGED <<enabled, started, state, uplinkVars, nconn, appVars>>

AssignIp(l) ==
  /\ At(l, "vip")
  /\ \/ ConnectFailed(l) /\ UNCHANGED tunnelIp
     \/ tunnelIp' = TRUE /\ Goto(l, "flush")
  /\ UNCHANGED <<enabled, started, state, pending, chan, nconn, appVars>>

FlushPending(l) ==
  /\ At(l, "flush") /\ ~Stashing
  /\ LET room == ChanCap - Len(chan)
     IN  chan' = chan \o SubSeq(pending, 1, IF Len(pending) <= room THEN Len(pending) ELSE room)
  /\ pending' = <<>> /\ Goto(l, "up")
  /\ UNCHANGED <<enabled, started, state, tunnelIp, nconn, appVars>>

RelayStarts(l) ==
  /\ At(l, "up") /\ Goto(l, "relay")
  /\ nconn' = nconn + 1 /\ state' = "Connected"
  /\ UNCHANGED <<enabled, started, uplinkVars, appVars>>

RelayTakes(l) ==
  /\ At(l, "relay") /\ chan # <<>> /\ chan' = Tail(chan)
  /\ UNCHANGED <<enabled, started, state, tunnelIp, pending, loop, nconn, appVars>>

RelayEnds(l) ==
  /\ At(l, "relay") /\ state' = "Error"
  /\ loop' = [loop EXCEPT ![l] = [pc |-> IF enabled THEN "top" ELSE "end",
                                  attempts |-> 0, had |-> TRUE]]
  /\ UNCHANGED <<enabled, started, uplinkVars, nconn, appVars>>

----------------------------------------------------------------------------
(* start(): compare_exchange on is_started, then spawn.                    *)
Start ==
  IF started THEN UNCHANGED <<started, loop>>
  ELSE /\ started' = TRUE
       /\ \E l \in Loops : At(l, "off") /\ loop' = [loop EXCEPT ![l] = [Idle EXCEPT !.pc = "top"]]

(* try_send_packet: a packet routed to this exit starts a session that is  *)
(* not started; a packet of the default session is sent as it is.          *)
EnsureStarted ==
  /\ role = "secondary" /\ demux.at = "idle" /\ routed < MaxPackets
  /\ enabled' = (enabled \/ ~started) /\ Start
  /\ routed' = routed + 1 /\ demux' = [at |-> "enqueue", n |-> routed + 1]
  /\ UNCHANGED <<role, state, uplinkVars, nconn, calls, stopping>>

DefaultPacket ==
  /\ role = "default" /\ demux.at = "idle" /\ routed < MaxPackets
  /\ routed' = routed + 1 /\ demux' = [at |-> "send", n |-> routed + 1]
  /\ UNCHANGED <<role, enabled, started, state, uplinkVars, loop, nconn, calls, stopping>>

(* enqueue_uplink.                                                         *)
EnqueueUplink ==
  /\ demux.at = "enqueue"
  /\ demux' = [demux EXCEPT !.at = IF tunnelIp THEN "send" ELSE "stash"]
  /\ UNCHANGED <<role, enabled, started, state, uplinkVars, loop, nconn, routed,
                 calls, stopping>>

EnqueueRewritten ==
  /\ demux.at = "send"
  /\ chan' = IF Len(chan) < ChanCap THEN Append(chan, demux.n) ELSE chan
  /\ demux' = [demux EXCEPT !.at = "idle"]
  /\ UNCHANGED <<role, enabled, started, state, tunnelIp, pending, loop, nconn,
                 routed, calls, stopping>>

Stash ==
  /\ Stashing
  /\ pending' = Append(IF Len(pending) >= PendingCap THEN Tail(pending) ELSE pending,
                       demux.n)
  /\ demux' = [demux EXCEPT !.at = "idle"]
  /\ UNCHANGED <<role, enabled, started, state, tunnelIp, chan, loop, nconn,
                 routed, calls, stopping>>

----------------------------------------------------------------------------
(* rvpnTunStop: stop() stores reconnect_enabled, broadcasts and drops the  *)
(* stash; is_started is left to the loop.                                  *)
StopDisable ==
  /\ calls < MaxCalls /\ ~stopping
  /\ enabled' = FALSE /\ stopping' = TRUE /\ calls' = calls + 1
  /\ UNCHANGED <<role, started, state, uplinkVars, loop, nconn, demux, routed>>

(* Mutant: stop() clears is_started itself, as the iOS session does.       *)
StopClearing ==
  /\ stopping /\ ~Stashing
  /\ pending' = <<>> /\ stopping' = FALSE /\ started' = FALSE
  /\ UNCHANGED <<role, enabled, state, tunnelIp, chan, loop, nconn, demux, routed, calls>>

Stop ==
  /\ stopping /\ ~Stashing
  /\ pending' = <<>> /\ stopping' = FALSE
  /\ UNCHANGED <<role, enabled, started, state, tunnelIp, chan, loop, nconn, demux,
                 routed, calls>>

(* rvpnTunStart.                                                           *)
StartClient ==
  /\ calls < MaxCalls /\ ~stopping
  /\ enabled' = TRUE /\ calls' = calls + 1
  /\ IF role = "default" THEN Start ELSE UNCHANGED <<started, loop>>
  /\ UNCHANGED <<role, state, uplinkVars, nconn, demux, routed, stopping>>

----------------------------------------------------------------------------
LoopStep(l) ==
  \/ LoopTop(l) \/ Backoff(l) \/ LoopEnds(l) \/ Connect(l) \/ Dial(l)
  \/ CheckEnabled(l) \/ Handshake(l) \/ AssignIp(l) \/ FlushPending(l)
  \/ RelayStarts(l) \/ RelayTakes(l) \/ RelayEnds(l)

Next ==
  \/ \E l \in Loops : LoopStep(l)
  \/ EnsureStarted \/ DefaultPacket \/ EnqueueUplink \/ EnqueueRewritten \/ Stash
  \/ StopDisable \/ Stop \/ StartClient

Spec == Init /\ [][Next]_vars

----------------------------------------------------------------------------
Running(l) == loop[l].pc # "off"

(* However stops, restarts and late packets interleave, a session never    *)
(* has two reconnect loops: is_started stays set until the loop itself is  *)
(* past its last step, so the compare_exchange of start() keeps a second   *)
(* one out.                                                                *)
OneReconnectLoop ==
  /\ \A l, m \in Loops : Running(l) /\ Running(m) => l = m
  /\ \A l \in Loops : Running(l) => started

(* No packet is stranded in the stash once the tunnel address is known: a  *)
(* flush_pending is still to come.                                         *)
NoStrandedStash ==
  tunnelIp /\ (pending # <<>> \/ Stashing) => \E l \in Loops : At(l, "flush")

(* The session claims to be Connected only inside run_packet_relay.        *)
ConnectedMeansRelay ==
  state = "Connected" => \E l \in Loops : At(l, "relay")
=============================================================================

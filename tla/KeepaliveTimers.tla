-------------------------- MODULE KeepaliveTimers --------------------------
(***************************************************************************)
(* The timers at the two ends of a TUN connection: run_keepalive and       *)
(* run_rx of the iOS client (rvpn-mobile/src/server_session.rs) against    *)
(* ws_receiver and ping_task of the server (rvpn-server/src/handler.rs,    *)
(* run).  One step of the clock is five seconds.  The connection is one of *)
(* two: an idle one, whose frames take up to MaxLatency steps and whose    *)
(* client process may be suspended (the wall clock goes on, its timers do  *)
(* not, and frames wait in the socket); or a busy one, where the locks of  *)
(* run_tx and run_rx make keepalive ticks leave frames out, over a path    *)
(* without delay.                                                          *)
(***************************************************************************)
EXTENDS Naturals

CONSTANTS
  MaxLatency,    \* bound: steps a frame is under way
  MaxFreeze,     \* bound: steps the client is suspended, in all
  MaxSkips       \* bound: ticks in a row without a Binary frame

(* The constants of the code, in steps of five seconds.                    *)
ClientInterval == 3     \* 15 s
DozeGap        == 6     \* 30 s of wall clock between two ticks
ProbeGrace     == 2     \* 10 s
ClientSilence  == 6     \* 30 s
ReadTimeout    == 12    \* 60 s
ServerInterval == 6     \* 30 s
ServerSkip     == 15    \* 75 s
ServerIdle     == 18    \* 90 s
Far            == 10    \* ages of the client are not told apart beyond this

VARIABLES
  client,        \* "open", or why run_packet_relay ended
  server,        \* "open", or why run ended
  path,          \* whether the path carries frames
  cTick,         \* until the client's next keepalive tick
  cWall,         \* wall clock since its last tick
  cRx,           \* wall clock since last_rx_time
  cRead,         \* run_rx has been reading for this long
  probe,         \* doze_probe: 0 none, else 1 + its age; heard resets it
  heard,         \* rx_count moved since the probe began
  sTick,         \* until the server's next ping
  sBin,          \* since last_activity
  up, down,      \* frames under way: 0 none, else 1 + the age of the oldest
  cargo,         \* what the frames going up are: pings, Binary frames
  skips,         \* ticks in a row without a Binary frame
  busy,          \* data is flowing
  frozen,        \* the client process is suspended
  freezeLeft

vars == <<client, server, path, cTick, cWall, cRx, cRead, probe, heard, sTick,
          sBin, up, down, cargo, skips,
          busy, frozen, freezeLeft>>

clientClock == <<cTick, cWall, cRx, cRead>>

TypeOK ==
  /\ client \in {"open", "silent", "probe", "read", "peer"}
  /\ server \in {"open", "idle", "ping", "peer"}
  /\ path \in {"up", "dead"}
  /\ cTick \in 0..(ClientInterval + 1) /\ cWall \in 0..Far /\ cRx \in 0..Far
  /\ cRead \in 0..ReadTimeout /\ probe \in 0..(Far + 1) /\ heard \in BOOLEAN
  /\ sTick \in 0..ServerInterval /\ sBin \in 0..ServerIdle
  /\ up \in 0..(MaxLatency + 1) /\ down \in 0..(MaxLatency + 1)
  /\ cargo \subseteq {"ping", "bin"} /\ (up = 0 <=> cargo = {}) /\ skips \in 0..MaxSkips
  /\ busy \in BOOLEAN
  /\ frozen \in BOOLEAN /\ freezeLeft \in 0..MaxFreeze

(* A connection has just come up.  The server pings at once (the first     *)
(* tick of a tokio interval), the client skips that tick.  last_rx_time    *)
(* belongs to the session: after a reconnect it is as old as the outage.   *)
Init ==
  /\ client = "open" /\ server = "open" /\ path = "up"
  /\ cTick \in ClientInterval..(ClientInterval + 1) /\ cWall = 0 /\ cRx \in 0..Far
  /\ cRead = 0 /\ probe = 0 /\ heard = FALSE
  /\ sTick = 0 /\ sBin = 0 /\ up = 0 /\ down = 0 /\ cargo = {} /\ skips = 0
  /\ busy \in BOOLEAN
  /\ frozen = FALSE /\ freezeLeft = MaxFreeze

----------------------------------------------------------------------------
(* A frame leaves, behind those already under way; a dead path takes none. *)
Sent(q) == IF path = "dead" THEN 0 ELSE IF q = 0 THEN 1 ELSE q

Cargo(frames) == IF path = "dead" THEN {} ELSE cargo \cup frames

(* One end closes; over a working path the other sees it.                  *)
ClientEnds(why) ==
  /\ client' = why
  /\ server' = IF path = "up" /\ server = "open" THEN "peer" ELSE server

ServerEnds(why) ==
  /\ server' = why
  /\ client' = IF path = "up" /\ client = "open" THEN "peer" ELSE client

Running == client = "open" /\ ~frozen

(* What a tick does to doze_probe first: a gap of more than DozeGap starts *)
(* one, and rx_count is compared with its value at that moment.            *)
Probing == IF cWall > DozeGap /\ probe = 0 THEN 1 ELSE probe

(* Mutant: silence is left to the read timeout.                            *)
SilentAtReadTimeout == cRx > ReadTimeout

(* Nothing read for silence_timeout of wall clock.                         *)
Silent == cRx > ClientSilence

(* The ping goes out if ws_write is free, the encrypted keepalive if       *)
(* send_lock and the ratchet are; neither is waited for.  What holds       *)
(* ws_write or send_lock is a send, so a Binary frame leaves all the same; *)
(* the ratchet alone is taken while run_rx decrypts what it has just read. *)
PingAndKeepalive ==
  \/ up' = Sent(up) /\ cargo' = Cargo({"ping", "bin"}) /\ skips' = 0
  \/ busy /\ up' = Sent(up) /\ cargo' = Cargo({"bin"}) /\ skips' = 0
  \/ /\ busy /\ cRx = 0 /\ skips < MaxSkips
     /\ up' = Sent(up) /\ cargo' = Cargo({"ping"}) /\ skips' = skips + 1

(* One iteration of run_keepalive: start a probe, settle it, or check for  *)
(* silence; then the WebSocket ping and the encrypted keepalive.           *)
KeepaliveTick ==
  /\ Running /\ cTick = 0
  /\ LET fresh == Probing # probe
         survived == Probing # 0 /\ ~fresh /\ heard
         failed == Probing # 0 /\ ~fresh /\ ~heard /\ Probing - 1 > ProbeGrace
         silent == Probing = 0 /\ Silent
     IN  \/ /\ failed /\ ClientEnds("probe")
            /\ UNCHANGED <<probe, heard, up, cargo, skips, cTick, cWall>>
         \/ /\ silent /\ ClientEnds("silent")
            /\ UNCHANGED <<probe, heard, up, cargo, skips, cTick, cWall>>
         \/ /\ ~failed /\ ~silent
            /\ probe' = IF survived THEN 0 ELSE Probing
            /\ heard' = (heard /\ ~fresh /\ ~survived)
            /\ PingAndKeepalive /\ cTick' = ClientInterval /\ cWall' = 0
            /\ UNCHANGED <<client, server>>
  /\ UNCHANGED <<path, cRx, cRead, sTick, sBin, down, busy, frozen, freezeLeft>>

(* run_rx reads a ping, a pong or data: update_last_rx_time.               *)
ClientReads ==
  /\ Running /\ down # 0
  /\ down' = 0 /\ cRx' = 0 /\ cRead' = 0 /\ heard' = TRUE
  /\ UNCHANGED <<client, server, path, cTick, cWall, probe, sTick, sBin, up, cargo, skips,
                 busy, frozen, freezeLeft>>

ClientReadTimeout ==
  /\ Running /\ cRead = ReadTimeout
  /\ ClientEnds("read")
  /\ UNCHANGED <<path, clientClock, probe, heard, sTick, sBin, up, cargo, skips, down,
                 busy, frozen, freezeLeft>>

(* The server's side of a frame: the WebSocket layer answers a ping.       *)
Taken ==
  /\ server = "open" /\ up # 0
  /\ up' = 0 /\ cargo' = {}
  /\ down' = IF "ping" \in cargo THEN Sent(down) ELSE down
  /\ UNCHANGED <<client, server, path, clientClock, probe, heard, sTick, skips, busy,
                 frozen, freezeLeft>>

(* Mutant: the encrypted keepalive does not count as activity.             *)
ServerReadsIdly == Taken /\ UNCHANGED sBin

(* ws_receiver reads: a Binary frame, keepalive or data, is activity, a    *)
(* ping is not.                                                            *)
ServerReads == Taken /\ sBin' = IF "bin" \in cargo THEN 0 ELSE sBin

(* ws_sender sends data.                                                   *)
ServerData ==
  /\ busy /\ server = "open" /\ down = 0 /\ path = "up"
  /\ down' = 1
  /\ UNCHANGED <<client, server, path, clientClock, probe, heard, sTick, sBin, up, cargo,
                 skips, busy, frozen, freezeLeft>>

ServerIdleTimeout ==
  /\ server = "open" /\ sBin = ServerIdle
  /\ ServerEnds("idle")
  /\ UNCHANGED <<path, clientClock, probe, heard, sTick, sBin, up, cargo, skips, down,
                 busy, frozen, freezeLeft>>

(* ping_task: a client idle for most of the timeout ends the task, and     *)
(* with it the select! of run; else a ping.                                *)
PingTick ==
  /\ server = "open" /\ sTick = 0
  /\ \/ /\ sBin > ServerSkip /\ ServerEnds("ping")
        /\ UNCHANGED <<sTick, down>>
     \/ /\ sBin <= ServerSkip /\ down' = Sent(down) /\ sTick' = ServerInterval
        /\ UNCHANGED <<client, server>>
  /\ UNCHANGED <<path, clientClock, probe, heard, sBin, up, cargo, skips, busy, frozen,
                 freezeLeft>>

----------------------------------------------------------------------------
PathDies ==
  /\ path = "up" /\ path' = "dead" /\ up' = 0 /\ down' = 0 /\ cargo' = {}
  /\ UNCHANGED <<client, server, clientClock, probe, heard, sTick, sBin, skips, busy,
                 frozen, freezeLeft>>

Freeze ==
  /\ Running /\ ~busy /\ freezeLeft > 0 /\ frozen' = TRUE
  /\ UNCHANGED <<client, server, path, clientClock, probe, heard, sTick, sBin, up, cargo,
                 skips, down, busy, freezeLeft>>

Thaw ==
  /\ frozen /\ frozen' = FALSE
  /\ UNCHANGED <<client, server, path, clientClock, probe, heard, sTick, sBin, up, cargo,
                 skips, down, busy, freezeLeft>>

Latency == IF busy THEN 0 ELSE MaxLatency

Step(n, cap) == IF n < cap THEN n + 1 ELSE n
Older(q) == IF q = 0 THEN 0 ELSE Step(q, MaxLatency + 1)

(* Nothing is due: every timer that has run out and every frame that has   *)
(* been under way for Latency is served before the clock moves.         *)
NothingDue ==
  /\ Running => cTick > 0 /\ cRead < ReadTimeout /\ down <= Latency
  /\ server = "open" => sTick > 0 /\ sBin < ServerIdle /\ up <= Latency
  /\ frozen => freezeLeft > 0

Tick ==
  /\ client = "open" \/ server = "open"
  /\ NothingDue
  /\ cTick' = IF Running THEN cTick - 1 ELSE cTick
  /\ cRead' = IF Running THEN cRead + 1 ELSE cRead
  /\ cWall' = Step(cWall, Far) /\ cRx' = Step(cRx, Far)
  /\ probe' = IF probe = 0 THEN 0 ELSE Step(probe, Far + 1)
  /\ sTick' = IF server = "open" THEN sTick - 1 ELSE sTick
  /\ sBin' = IF server = "open" THEN sBin + 1 ELSE sBin
  /\ up' = Older(up) /\ down' = Older(down)
  /\ freezeLeft' = IF frozen THEN freezeLeft - 1 ELSE freezeLeft
  /\ UNCHANGED <<client, server, path, heard, cargo, skips, busy, frozen>>

Next ==
  \/ KeepaliveTick \/ ClientReads \/ ClientReadTimeout
  \/ ServerReads \/ ServerData \/ ServerIdleTimeout \/ PingTick
  \/ PathDies \/ Freeze \/ Thaw \/ Tick

Spec == Init /\ [][Next]_vars

----------------------------------------------------------------------------
(* A connection whose path works is never torn down by either end's        *)
(* timers, idle or not, however stale last_rx_time was when it came up and *)
(* through suspensions of up to MaxFreeze: the server's immediate ping,    *)
(* the pong of every ping, the probe after a doze and the 75 s and 90 s    *)
(* limits fit together.  A busy connection survives on any number of       *)
(* left-out pings, and MaxSkips left-out keepalives, for the server's own  *)
(* pings come just within the client's 30 s of silence; with delay, or     *)
(* after a suspension, they alone would not be enough.                     *)
WorkingPathSurvives ==
  path = "up" => client = "open" /\ server = "open"

(* Unless it has been suspended, the client gives a silent path up within  *)
(* 45 s of its last frame (30 s of silence, noticed at the next tick), well*)
(* before run_rx's own 60 s timeout.                                       *)
SilenceNoticed ==
  Running /\ freezeLeft = MaxFreeze => cRead <= ClientSilence + ClientInterval
=============================================================================

----------------------------- MODULE DesktopTun -----------------------------
(***************************************************************************)
(* The desktop client in TUN mode: the reconnect loop of run_tun           *)
(* (rvpn-client/src/main.rs), VpnTunnel::connect and its receive_loop task *)
(* (tunnel.rs), and the select loop of TunDevice::run (tun.rs).            *)
(*                                                                         *)
(* The wire carries what the server sends on the current connection; a     *)
(* frame, data or control, is only its presence.  The helper tasks of      *)
(* split_websocket are the writer channel and the reader channel, each     *)
(* open or closed.                                                         *)
(***************************************************************************)
EXTENDS Naturals, Sequences

CONSTANTS
  Ips,           \* virtual addresses the server assigns
  MaxAttempts,   \* MAX_RECONNECT_ATTEMPTS
  WireCap,       \* bound: messages in flight from the server
  MaxConns       \* bound: connections made

NoIp == 0

VARIABLES
  loop,       \* where run_tun is
  attempts,   \* reconnect_attempts
  shutdown,   \* the watch channel handle_signals sets
  wire,       \* messages from the server on this connection
  reader,     \* the reader helper's channel: "open" or "closed"
  writer,     \* the writer helper's channel: "open" or "closed"
  rx,         \* receive_loop: "none", "run" or "ended"
  connected,  \* the tunnel's AtomicBool
  vipChan,    \* the VirtualIp channel of capacity 1; NoIp: empty
  vipSent,    \* virtual_ip_sent
  lease,      \* the first address the server assigned on this connection
  virtualIp,  \* VpnTunnel.virtual_ip
  mux,        \* recv_mux_rx, the frames for the TUN device
  sending,    \* run waits in send_to_tunnel: the writer's channel is full
  device,     \* the address of the TUN device, NoIp: no device
  conns       \* connections made so far

conn == <<wire, reader, writer, rx, connected, vipChan, vipSent, lease, mux,
          sending>>
vars == <<loop, attempts, shutdown, conn, virtualIp, device, conns>>

Loops == {"top", "connect", "waitip", "device", "run", "backoff", "exited", "gaveup"}
Messages == [kind: {"vip"}, ip: Ips] \cup [kind: {"frame", "close"}]

TypeOK ==
  /\ loop \in Loops /\ attempts \in 0..MaxAttempts /\ shutdown \in BOOLEAN
  /\ wire \in Seq(Messages) /\ Len(wire) <= WireCap
  /\ reader \in {"open", "closed"} /\ writer \in {"open", "closed"}
  /\ rx \in {"none", "run", "ended"} /\ connected \in BOOLEAN
  /\ {vipChan, lease, virtualIp, device} \subseteq Ips \cup {NoIp}
  /\ {vipSent, sending} \subseteq BOOLEAN
  /\ mux \in Seq({"frame"})
  /\ conns \in 0..MaxConns

NoConn ==
  /\ wire' = <<>> /\ reader' = "closed" /\ writer' = "closed" /\ rx' = "none"
  /\ connected' = FALSE /\ vipChan' = NoIp /\ vipSent' = FALSE /\ lease' = NoIp /\ mux' = <<>>
  /\ sending' = FALSE

Init ==
  /\ loop = "top" /\ attempts = 0 /\ shutdown = FALSE
  /\ wire = <<>> /\ reader = "closed" /\ writer = "closed" /\ rx = "none"
  /\ connected = FALSE /\ vipChan = NoIp /\ vipSent = FALSE /\ lease = NoIp /\ mux = <<>>
  /\ sending = FALSE
  /\ virtualIp = NoIp /\ device = NoIp /\ conns = 0

----------------------------------------------------------------------------
(* The head of the reconnect loop.                                         *)
LoopTop ==
  /\ loop = "top"
  /\ loop' = IF shutdown THEN "exited" ELSE "connect"
  /\ UNCHANGED <<attempts, shutdown, conn, virtualIp, device, conns>>

(* connect fails before the handshake is over.                             *)
ConnectFails ==
  /\ loop = "connect"
  /\ attempts' = attempts + 1
  /\ loop' = IF attempts + 1 >= MaxAttempts THEN "gaveup" ELSE "backoff"
  /\ UNCHANGED <<shutdown, conn, virtualIp, device, conns>>

(* The handshake is done; receive_loop is spawned and connect waits for    *)
(* the address.                                                            *)
Connect ==
  /\ loop = "connect" /\ conns < MaxConns
  /\ conns' = conns + 1
  /\ loop' = "waitip"
  /\ wire' = <<>> /\ reader' = "open" /\ writer' = "open" /\ rx' = "run"
  /\ connected' = TRUE /\ vipChan' = NoIp /\ vipSent' = FALSE /\ lease' = NoIp /\ mux' = <<>>
  /\ sending' = FALSE
  /\ UNCHANGED <<attempts, shutdown, virtualIp, device>>

(* The address, the closed channel (receive_loop ended) or the 5 s timeout *)
(* end the wait; in every case connect succeeds and the attempts restart.  *)
AddressWaitEnds ==
  /\ loop = "waitip"
  /\ virtualIp' \in {vipChan, NoIp}
  /\ vipChan' = NoIp
  /\ attempts' = 0
  /\ loop' = "device"
  /\ UNCHANGED <<shutdown, wire, reader, writer, rx, connected, vipSent, sending, lease,
                 mux, device, conns>>

(* No address: the tunnel is dropped and the loop goes round at once.      *)
NoAddress ==
  /\ loop = "device" /\ virtualIp = NoIp
  /\ attempts' = attempts + 1
  /\ loop' = "top"
  /\ NoConn
  /\ UNCHANGED <<shutdown, virtualIp, device, conns>>

DeviceFails ==
  /\ loop = "device" /\ virtualIp # NoIp
  /\ attempts' = attempts + 1
  /\ loop' = "backoff"
  /\ NoConn
  /\ UNCHANGED <<shutdown, virtualIp, device, conns>>

(* What run_tun does when TunDevice::run returns an error.                 *)
RunFails ==
  /\ attempts' = attempts + 1
  /\ loop' = IF attempts + 1 >= MaxAttempts THEN "gaveup" ELSE "backoff"
  /\ device' = NoIp
  /\ NoConn

(* The device is created and run entered; run first checks the tunnel.     *)
DeviceReady ==
  /\ loop = "device" /\ virtualIp # NoIp
  /\ IF connected
     THEN loop' = "run" /\ device' = virtualIp /\ UNCHANGED <<attempts, conn>>
     ELSE RunFails
  /\ UNCHANGED <<shutdown, virtualIp, conns>>

Backoff ==
  /\ loop = "backoff"
  /\ loop' = "top"
  /\ UNCHANGED <<attempts, shutdown, conn, virtualIp, device, conns>>

----------------------------------------------------------------------------
(* Mutant: a later address replaces the one already delivered.             *)
ReceiveVipAgain ==
  /\ rx = "run" /\ wire # <<>> /\ Head(wire).kind = "vip"
  /\ wire' = Tail(wire)
  /\ IF loop = "waitip"
     THEN vipChan' = Head(wire).ip /\ vipSent' = TRUE
     ELSE UNCHANGED <<vipChan, vipSent>>
  /\ UNCHANGED <<loop, attempts, shutdown, reader, writer, rx, connected, sending, lease,
                 mux, virtualIp, device, conns>>

(* receive_loop, one message at a time.  A message that does not decode or *)
(* decrypt is skipped: it is a message the server did not send.            *)
ReceiveVip ==
  /\ rx = "run" /\ wire # <<>> /\ Head(wire).kind = "vip"
  /\ wire' = Tail(wire)
  /\ IF ~vipSent /\ loop = "waitip"
     THEN vipChan' = Head(wire).ip /\ vipSent' = TRUE
     ELSE UNCHANGED <<vipChan, vipSent>>
  /\ UNCHANGED <<loop, attempts, shutdown, reader, writer, rx, connected, sending, lease,
                 mux, virtualIp, device, conns>>

ReceiveFrame ==
  /\ rx = "run" /\ wire # <<>> /\ Head(wire).kind = "frame"
  /\ wire' = Tail(wire)
  /\ mux' = Append(mux, Head(wire).kind)
  /\ UNCHANGED <<loop, attempts, shutdown, reader, writer, rx, connected, vipChan,
                 vipSent, sending, lease, virtualIp, device, conns>>

(* Mutant: the task ends without clearing the flag.                        *)
ReceiveEndsQuietly ==
  /\ rx = "run"
  /\ \/ wire # <<>> /\ Head(wire).kind = "close"
     \/ wire = <<>> /\ reader = "closed"
  /\ wire' = <<>>
  /\ rx' = "ended"
  /\ UNCHANGED <<loop, attempts, shutdown, reader, writer, connected, vipChan, vipSent,
                 sending, lease, mux, virtualIp, device, conns>>

(* Close or the end of the reader channel: the flag first, then the task   *)
(* ends and its sender to the device is dropped.                           *)
ReceiveEnds ==
  /\ rx = "run"
  /\ \/ wire # <<>> /\ Head(wire).kind = "close"
     \/ wire = <<>> /\ reader = "closed"
  /\ wire' = <<>>
  /\ connected' = FALSE
  /\ rx' = "ended"
  /\ UNCHANGED <<loop, attempts, shutdown, reader, writer, vipChan, vipSent, sending,
                 lease, mux, virtualIp, device, conns>>

----------------------------------------------------------------------------
(* The select loop of TunDevice::run.  A packet of the device, or the 15 s *)
(* keepalive, on an open writer leaves, or waits in send_to_tunnel while   *)
(* the writer's channel is full: no branch of the loop runs meanwhile.     *)
SendWaits ==
  /\ loop = "run" /\ writer = "open" /\ ~sending
  /\ sending' = TRUE
  /\ UNCHANGED <<loop, attempts, shutdown, wire, reader, writer, rx, connected, vipChan,
                 vipSent, lease, mux, virtualIp, device, conns>>

SendReturns ==
  /\ loop = "run" /\ writer = "open" /\ sending
  /\ sending' = FALSE
  /\ UNCHANGED <<loop, attempts, shutdown, wire, reader, writer, rx, connected, vipChan,
                 vipSent, lease, mux, virtualIp, device, conns>>

(* The writer task has ended: a waiting send fails, the next one or the    *)
(* keepalive's test finds out.                                             *)
SendFindsWriterClosed ==
  /\ loop = "run" /\ writer = "closed"
  /\ RunFails
  /\ UNCHANGED <<shutdown, virtualIp, conns>>

(* recv_from_tunnel: data goes to the device, control frames are skipped.  *)
TakeFrame ==
  /\ loop = "run" /\ ~sending /\ mux # <<>>
  /\ mux' = Tail(mux)
  /\ UNCHANGED <<loop, attempts, shutdown, wire, reader, writer, rx, connected, vipChan,
                 vipSent, sending, lease, virtualIp, device, conns>>

(* The frame channel is closed and drained: run ends when the flag or the  *)
(* writer says so, else it sleeps 10 ms and asks again.                    *)
TakeFails ==
  /\ loop = "run" /\ ~sending /\ mux = <<>> /\ rx = "ended"
  /\ IF ~connected \/ writer = "closed"
     THEN RunFails
     ELSE UNCHANGED <<loop, attempts, conn, device>>
  /\ UNCHANGED <<shutdown, virtualIp, conns>>

(* Mutant: the shutdown is looked at only when the tunnel is down.         *)
RunShutdownLate ==
  /\ loop = "run" /\ shutdown /\ ~connected
  /\ loop' = "exited" /\ device' = NoIp
  /\ NoConn
  /\ UNCHANGED <<attempts, shutdown, virtualIp, conns>>

(* shutdown_rx_changed wins the select of run_tun, which drops run where   *)
(* it stands: the tunnel and the device go.                                *)
RunShutdown ==
  /\ loop = "run" /\ shutdown
  /\ loop' = "exited" /\ device' = NoIp
  /\ NoConn
  /\ UNCHANGED <<attempts, shutdown, virtualIp, conns>>

HandleSignals ==
  /\ ~shutdown
  /\ shutdown' = TRUE
  /\ UNCHANGED <<loop, attempts, conn, virtualIp, device, conns>>

----------------------------------------------------------------------------
(* The server sends (the first address it assigns is the lease of the      *)
(* connection), and either direction of the connection can end.            *)
ServerSends(m) ==
  /\ rx = "run" /\ reader = "open" /\ Len(wire) < WireCap /\ Len(mux) < WireCap
  /\ m.kind # "vip" => lease # NoIp
  /\ m.kind = "vip" /\ lease # NoIp => m.ip # lease
  /\ \A i \in DOMAIN wire : wire[i].kind # "close"
  /\ wire' = Append(wire, m)
  /\ lease' = IF m.kind = "vip" /\ lease = NoIp THEN m.ip ELSE lease
  /\ UNCHANGED <<loop, attempts, shutdown, reader, writer, rx, connected, vipChan,
                 vipSent, mux, virtualIp, device, conns, sending>>

ReaderCloses ==
  /\ reader = "open"
  /\ reader' = "closed"
  /\ UNCHANGED <<loop, attempts, shutdown, wire, writer, rx, connected, vipChan, vipSent,
                 sending, lease, mux, virtualIp, device, conns>>

WriterCloses ==
  /\ writer = "open"
  /\ writer' = "closed"
  /\ UNCHANGED <<loop, attempts, shutdown, wire, reader, rx, connected, vipChan, vipSent,
                 sending, lease, mux, virtualIp, device, conns>>

RunTun ==
  LoopTop \/ AddressWaitEnds \/ NoAddress \/ DeviceFails \/ DeviceReady \/ Backoff
RunDevice == SendWaits \/ SendReturns \/ SendFindsWriterClosed \/ TakeFrame \/ TakeFails
Receive == ReceiveVip \/ ReceiveFrame \/ ReceiveEnds

RunMoves == RunTun \/ SendFindsWriterClosed \/ RunShutdown

Next ==
  \/ RunTun \/ ConnectFails \/ Connect \/ RunDevice \/ RunShutdown \/ Receive
  \/ HandleSignals
  \/ \E m \in Messages : ServerSends(m)
  \/ ReaderCloses \/ WriterCloses

Spec == Init /\ [][Next]_vars

(* Every task is scheduled: the reconnect loop has its next step, the      *)
(* device loop serves a branch that is ready again and again (select!      *)
(* picks from the ready ones at random), and shutdown is always one of     *)
(* them.  Nothing is assumed of the server: a connect need not return, for *)
(* neither the TLS connect nor the wait for ServerHello has a timeout, and *)
(* a full channel need not drain.                                          *)
Fairness ==
  /\ WF_vars(RunTun) /\ WF_vars(Receive)
  /\ WF_vars(SendFindsWriterClosed) /\ SF_vars(TakeFrame) /\ SF_vars(TakeFails)
  /\ WF_vars(RunShutdown)

FairSpec == Spec /\ Fairness

----------------------------------------------------------------------------
(* The device carries the address the server leased on the very connection *)
(* its packets travel on, across reconnects and late or repeated VirtualIp *)
(* messages.                                                               *)
DeviceOnItsLease == loop = "run" => device = lease /\ lease # NoIp

(* TunDevice::run never spins on a tunnel nobody receives for: once        *)
(* receive_loop has dropped its sender the flag run tests is down.         *)
EndedMeansDisconnected == rx = "ended" => ~connected

(* A signal ends TUN mode whatever the tunnel is doing, provided every     *)
(* connect returns: run_tun does not race VpnTunnel::connect with the      *)
(* signal, so a server that never answers keeps the client there.          *)
ShutdownExits ==
  []<>(loop # "connect") => (shutdown ~> loop \in {"exited", "gaveup"})

(* A connection that has lost its writer is left, whatever the loop is     *)
(* doing; one that has lost its reader is left provided every send ends.   *)
DeadTunnelLeft ==
  /\ (loop = "run" /\ writer = "closed") ~> loop # "run"
  /\ []<>~sending => ((loop = "run" /\ reader = "closed") ~> loop # "run")
=============================================================================

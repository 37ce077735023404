------------------------------ MODULE MCClient ------------------------------
(***************************************************************************)
(* Instances for model checking: the encrypted send path, the relay tasks  *)
(* of a mobile session, the desktop client's TUN mode, and the DNS proxy   *)
(* of a phone; on the server, the pool of connections to targets. They     *)
(* share no variable: which names the one that runs, and the others stay   *)
(* in their initial states.                                                *)
(***************************************************************************)
EXTENDS SendPath

VARIABLES
  which,   \* the component that runs
  platform, enabled, rPc, conn, task, sig, path, probe, stopping, events,
  loop, attempts, shutdown, tWire, reader, writer, rx, connected, vipChan,
  vipSent, lease, virtualIp, mux, sending, device, conns,
  session, flows, pool, cache, dial,
  stage, port, clients, doh, net, cached, q

Relay == INSTANCE SessionRelay WITH
  MaxConns <- 1, MaxEvents <- 2, pc <- rPc

Tun == INSTANCE DesktopTun WITH
  Ips <- {1, 2}, MaxAttempts <- 2, WireCap <- 2, MaxConns <- 2, wire <- tWire

Target == INSTANCE TargetPool WITH
  Targets <- {1}, Elsewhere <- {3}, Addrs <- {11, 12}, Blocked <- {12},
  Tasks <- {1, 2}, MaxFlows <- 1, PerTarget <- 2, MaxIdle <- 0, Ttl <- 1,
  MaxEntries <- 1

Phone == INSTANCE PhoneDns WITH
  Tasks <- {"t1", "t2"}, Nameservers <- 1, Retries <- 1, Ports <- 1,
  Asked <- {"ads", "intra"}

relayVars ==
  <<platform, enabled, rPc, conn, task, sig, path, probe, stopping, events>>
tunVars ==
  <<loop, attempts, shutdown, tWire, reader, writer, rx, connected, vipChan,
    vipSent, lease, virtualIp, mux, sending, device, conns>>
targetVars ==
  <<session, flows, pool, cache, dial>>
phoneVars ==
  <<stage, port, clients, doh, net, cached, q>>
allVars == <<which, vars, relayVars, tunVars, targetVars, phoneVars>>

PackInit ==
  /\ which \in {"send", "relay", "tun", "target", "phone"}
  /\ which = "relay" \/ (which # "relay" /\ platform = "ios")
  /\ which = "phone" \/ (which # "phone" /\ net = TRUE)
  /\ Init /\ Relay!Init /\ Tun!Init /\ Target!Init /\ Phone!Init

(* A step of one component leaves the others alone.                        *)
OnlySend ==
  /\ which = "send"
  /\ UNCHANGED <<which, relayVars, tunVars, targetVars, phoneVars>>
OnlyRelay ==
  /\ which = "relay"
  /\ UNCHANGED <<which, vars, tunVars, targetVars, phoneVars>>
OnlyTun ==
  /\ which = "tun"
  /\ UNCHANGED <<which, vars, relayVars, targetVars, phoneVars>>
OnlyTarget ==
  /\ which = "target"
  /\ UNCHANGED <<which, vars, relayVars, tunVars, phoneVars>>
OnlyPhone ==
  /\ which = "phone"
  /\ UNCHANGED <<which, vars, relayVars, tunVars, targetVars>>

PackNext ==
  \/ OnlySend /\ Next
  \/ OnlyRelay /\ Relay!Next
  \/ OnlyTun /\ Tun!Next
  \/ OnlyTarget /\ Target!Next
  \/ OnlyPhone /\ Phone!Next

(* The fairness of the components. Steps these instances take finitely     *)
(* often are taken together: weak (strong) fairness of all of them at once *)
(* is weak (strong) fairness of each.                                      *)
PackFairness ==
  /\ \A t \in Senders : WF_vars(which = "send" /\ Encrypt(t))
  /\ SF_vars(which = "send" /\ DecryptLock)
  /\ WF_vars(which = "send" /\ DecryptDone)
  /\ WF_relayVars(which = "relay" /\ Relay!LoopOrStop)
  /\ \A c \in Relay!Conns : WF_relayVars(which = "relay" /\ Relay!TxStep(c))
  /\ \A c \in Relay!Conns : WF_relayVars(which = "relay" /\ Relay!RxStep(c))
  /\ \A c \in Relay!Conns : WF_relayVars(which = "relay" /\ Relay!KaStep(c))
  /\ SF_relayVars(which = "relay" /\ Relay!AnyShutdown)
  /\ WF_tunVars(which = "tun" /\ Tun!RunMoves)
  /\ WF_tunVars(which = "tun" /\ Tun!Receive)
  /\ SF_tunVars(which = "tun" /\ Tun!TakeFrame)
  /\ SF_tunVars(which = "tun" /\ Tun!TakeFails)
  /\ WF_targetVars(which = "target" /\ Target!DialStep(0))
  /\ WF_targetVars(which = "target" /\ Target!DialStep(1))
  /\ WF_targetVars(which = "target" /\ Target!DialStep(2))
  /\ \A t \in {"t1", "t2"} : WF_phoneVars(which = "phone" /\ Phone!Step(t))
  /\ \A e \in Phone!Exits : SF_phoneVars(which = "phone" /\ Phone!Redial(e))

PackSpec == PackInit /\ [][PackNext]_allVars /\ PackFairness

-----------------------------------------------------------------------------
(* Safety of a client around its connection. TUN mode: the device carries  *)
(* the address leased on the connection its packets travel on, and         *)
(* TunDevice::run never spins on a tunnel nobody receives for. DNS proxy   *)
(* of a phone: a routed name is looked up by its exit's client only.       *)
ClientSound ==
  /\ which = "send" => TypeOK
  /\ which = "relay" => Relay!TypeOK
  /\ which = "tun" =>
       Tun!TypeOK /\ Tun!DeviceOnItsLease /\ Tun!EndedMeansDisconnected
  /\ which = "phone" => Phone!TypeOK /\ Phone!RemoteStaysOnItsExit

(* A client leaves a dead path: run_packet_relay returns whichever of its  *)
(* tasks missed a broadcast (SessionRelay); the desktop leaves a           *)
(* connection that has lost its writer, or its reader if its sends end,    *)
(* and a signal ends run_tun if its connects return (DesktopTun).          *)
DeadPathsLeft ==
  /\ Relay!DeadPathAbandoned
  /\ Tun!ShutdownExits
  /\ Tun!DeadTunnelLeft

(* A pooled connection to a target has one owner, and the server's DNS     *)
(* cache is bounded (handle_control, resolve_cached; see TargetPool).      *)
TargetsSound ==
  which = "target" =>
    Target!TypeOK /\ Target!ConnectionsExclusive /\ Target!HostCacheBounded

(* A pooled connection is handed out alive and young enough, and an ended  *)
(* session gives back every one of them (see TargetPool).                  *)
TargetsReleased ==
  /\ Target!HandedOutAlive
  /\ Target!PoolReleased

(* The lookup a DoH reconnect waits for never waits for the tunnel (see    *)
(* PhoneDns).                                                              *)
ExitsReconnect == Phone!ExitsReconnect
=============================================================================

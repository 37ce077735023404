------------------------------- MODULE MCFlows ------------------------------
(***************************************************************************)
(* Instances for model checking of the components with liveness on the     *)
(* stream path: the pool of tunnels, a flow in legacy mode, and the UDP    *)
(* relay of the server. They share no variable: which names the one that   *)
(* runs, and the others stay in their initial states.                      *)
(***************************************************************************)
EXTENDS TunnelPool

VARIABLES
  which,   \* the component that runs
  app, lUp, crel, ctasks, closeSent, helpers, stop, upQ, hold, inQ, outQ,
  wireUp, wireDn, path, cUnacked, cErr, sUnacked, sErr, srel, stasks, chan,
  age, writing, tgt, lDown,
  phase, uSent, uUp, uplink, idle, forwarded, arrivals, receiver, channel,
  sender, lock, uDown, received

Legacy == INSTANCE LegacyRelay WITH
  Loads <- {<<1, 0>>, <<0, 1>>}, ChanCap <- 1, WireCap <- 1,
  IdleTimeout <- 0, up <- lUp, down <- lDown

Udp == INSTANCE UdpRelay WITH
  ChannelCap <- 1, SocketCap <- 1, IdleLimit <- 1, MaxFrames <- 3,
  MaxDatagrams <- 4, sent <- uSent, up <- uUp, down <- uDown

legacyVars ==
  <<app, lUp, crel, ctasks, closeSent, helpers, stop, upQ, hold, inQ, outQ,
    wireUp, wireDn, path, cUnacked, cErr, sUnacked, sErr, srel, stasks, chan,
    age, writing, tgt, lDown>>
udpVars ==
  <<phase, uSent, uUp, uplink, idle, forwarded, arrivals, receiver, channel,
    sender, lock, uDown, received>>
allVars == <<which, vars, legacyVars, udpVars>>

PackInit ==
  /\ which \in {"pool", "legacy", "udp"}
  /\ which = "legacy" \/ (which # "legacy" /\ lUp = 1 /\ lDown = 0)
  /\ Init /\ Legacy!Init /\ Udp!Init

(* A step of one component leaves the others alone.                        *)
OnlyPool == which = "pool" /\ UNCHANGED <<which, legacyVars, udpVars>>
OnlyLegacy == which = "legacy" /\ UNCHANGED <<which, vars, udpVars>>
OnlyUdp == which = "udp" /\ UNCHANGED <<which, vars, legacyVars>>

PackNext ==
  \/ OnlyPool /\ Next
  \/ OnlyLegacy /\ Legacy!Next
  \/ OnlyUdp /\ Udp!Next

(* The fairness of the components.                                         *)
PackFairness ==
  /\ \A t \in Tunnels :
       WF_vars(which = "pool" /\ (WatchDead(t) \/ WatchDrained(t)))
  /\ SF_legacyVars(which = "legacy" /\ Legacy!Waiting)
  /\ WF_legacyVars(which = "legacy" /\ Legacy!Finite)
  /\ WF_legacyVars(which = "legacy" /\ Legacy!Ping)
  /\ WF_legacyVars(which = "legacy" /\ Legacy!WriterTakes)
  /\ WF_legacyVars(which = "legacy" /\ Legacy!WriterSends)
  /\ WF_legacyVars(which = "legacy" /\ Legacy!ReadTarget)
  /\ WF_legacyVars(which = "legacy" /\ Legacy!WsToTarget)
  /\ WF_udpVars(which = "udp" /\ (Udp!ReadTarget \/ Udp!TargetTimeout))
  /\ SF_udpVars(which = "udp" /\ Udp!UplinkForwards)
  /\ WF_udpVars(which = "udp" /\ Udp!Resolve)
  /\ WF_udpVars(which = "udp" /\ Udp!UplinkReads)
  /\ WF_udpVars(which = "udp" /\ Udp!IdleTick)
  /\ WF_udpVars(which = "udp" /\ Udp!Enqueue)
  /\ WF_udpVars(which = "udp" /\ Udp!Sender)

PackSpec == PackInit /\ [][PackNext]_allVars /\ PackFairness

-----------------------------------------------------------------------------
(* The relays of the server lose no order. Legacy: stream_relay.rs queues  *)
(* no data and no second Close behind a Close. UDP: datagrams keep their   *)
(* order in both directions of relay_udp.                                  *)
RelaysSound ==
  /\ which = "legacy" => Legacy!TypeOK /\ Legacy!CloseIsLast
  /\ which = "udp" => Udp!TypeOK /\ Udp!RelayKeepsOrder

(* The relays end, as long as no write to a socket waits for good for its  *)
(* peer to read (none has a timeout). Legacy: once the application, the    *)
(* target or the path is gone, relay and relay_tcp both end, unless TCP is *)
(* full in both directions. UDP: the relay of a client that has gone       *)
(* silent ends.                                                            *)
RelaysEnd ==
  /\ Legacy!FlowEndsOrJams
  /\ (which = "udp" => Udp!SilentClientEnds)
=============================================================================

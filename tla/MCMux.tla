-------------------------------- MODULE MCMux -------------------------------
(***************************************************************************)
(* Instances for model checking: a multiplexed flow with both of its ends, *)
(* and the steps of its credit gate; on the server, the front of a         *)
(* connection and the receive loop of a multiplexed session; and the       *)
(* client's proxies. They share no variable: which names the one that      *)
(* runs, and the others stay in their initial states.                      *)
(***************************************************************************)
EXTENDS MuxFlow, TLC

VARIABLES
  which,   \* the component that runs
  gCredits, notify, kind, gate, want, cur, gpc, cpc, gSent, gGranted,
  tun, session, sSent, closed, packets, wire, todo, step, flows, sRelay,
  sWriter, pending, queue, sWritten, sControl, device, refused,
  fServer, port, tls, decoy, stream, closing, phase, arrived, consumed,
  replayed, answers,
  slot, life, lock, pc, attempt, mine, request, target, served

(* The requests the proxies are sent: the two that need no more than the   *)
(* socket, and one of each way a response is delimited.                    *)
Asked ==
  {[kind |-> "connect"]} \cup
  {[kind |-> "forward", method |-> m[1], form |-> m[2], keep |-> m[3]] :
     m \in {<<"get", "length", TRUE>>, <<"get", "chunked", FALSE>>, <<"get", "eof", TRUE>>,
            <<"head", "length", TRUE>>, <<"get", "bare", TRUE>>}}

(* ServerFront: an upgrade for each way a path is matched, and requests    *)
(* for a file, outside the site, for a link and without a head.            *)
Requests ==
  {[kind |-> r[1], path |-> r[2], close |-> r[3], size |-> r[4]] :
     r \in {<<"ws", <<"api", "tun">>, FALSE, 3>>, <<"ws", <<"api", "x">>, FALSE, 2>>,
            <<"ws", <<"api">>, FALSE, 4>>, <<"get", <<"d", "a">>, FALSE, 1>>,
            <<"get", <<"d", "%2e%2e", "a">>, FALSE, 2>>, <<"head", <<"l">>, TRUE, 2>>,
            <<"post", <<"d">>, FALSE, 1>>, <<"bad", <<>>, FALSE, 2>>}}
Site ==
  (<<>> :> "dir") @@ (<<"d">> :> "dir") @@ (<<"d", "a">> :> "file")
    @@ (<<"l">> :> "link") @@ (<<"a">> :> "file")

Credits == INSTANCE FlowSendCredits WITH
  Window <- 3, BufLen <- 2, MaxCredits <- 5, GrantBudget <- 5,
  Granters <- {1, 2}, credits <- gCredits, pc <- gate, sent <- gSent,
  granted <- gGranted

ASSUME Credits!CreditConstants

Session == INSTANCE MuxSession WITH
  Flows <- {1, 2}, MaxFlows <- 1, MaxFlush <- 1, QueueCap <- 1,
  ControlCap <- 1, Talkers <- {1}, MaxData <- 3, MaxPackets <- 2, WireCap <- 1,
  sent <- sSent, relay <- sRelay, writer <- sWriter, written <- sWritten,
  control <- sControl

Door == INSTANCE ServerFront WITH
  MaxHeader <- 3, HttpBuffer <- 2, Requests <- Requests, MaxRequests <- 2,
  Base <- <<"api">>, Site <- Site, server <- fServer

Proxy == INSTANCE ProxyPath WITH
  Socks <- {1}, Http <- {2}, MaxRetries <- 2, MaxTunnels <- 3,
  MaxRequests <- 2, Asked <- Asked

creditVars ==
  <<gCredits, notify, kind, gate, want, cur, gpc, cpc, gSent, gGranted>>
sessionVars ==
  <<tun, session, sSent, closed, packets, wire, todo, step, flows, sRelay,
    sWriter, pending, queue, sWritten, sControl, device, refused>>
frontVars ==
  <<fServer, port, tls, decoy, stream, closing, phase, arrived, consumed,
    replayed, answers>>
proxyVars ==
  <<slot, life, lock, pc, attempt, mine, request, target, served>>
allVars == <<which, vars, creditVars, sessionVars, frontVars, proxyVars>>

PackInit ==
  /\ which \in {"mux", "credits", "session", "front", "proxy"}
  /\ which = "credits" \/ (which # "credits" /\ kind = "relay")
  /\ which = "session" \/ (which # "session" /\ tun = FALSE)
  /\ which = "front" \/ (which # "front" /\ port = "main" /\ decoy = TRUE /\ tls = "none" /\ stream = <<>> /\ closing = TRUE)
  /\ Init /\ Credits!Init /\ Session!Init /\ Door!Init /\ Proxy!Init

(* A step of one component leaves the others alone.                        *)
OnlyMux ==
  /\ which = "mux"
  /\ UNCHANGED <<which, creditVars, sessionVars, frontVars, proxyVars>>
OnlyCredits ==
  /\ which = "credits"
  /\ UNCHANGED <<which, vars, sessionVars, frontVars, proxyVars>>
OnlySession ==
  /\ which = "session"
  /\ UNCHANGED <<which, vars, creditVars, frontVars, proxyVars>>
OnlyFront ==
  /\ which = "front"
  /\ UNCHANGED <<which, vars, creditVars, sessionVars, proxyVars>>
OnlyProxy ==
  /\ which = "proxy"
  /\ UNCHANGED <<which, vars, creditVars, sessionVars, frontVars>>

PackNext ==
  \/ OnlyMux /\ Next
  \/ OnlyCredits /\ Credits!Next
  \/ OnlySession /\ Session!Next
  \/ OnlyFront /\ Door!Next
  \/ OnlyProxy /\ Proxy!Next

(* The fairness of the components.                                         *)
PackFairness ==
  /\ WF_vars(which = "mux" /\ InsertState)
  /\ WF_vars(which = "mux" /\ Push)
  /\ WF_vars(which = "mux" /\ ChannelEnds)
  /\ WF_vars(which = "mux" /\ DropFlow)
  /\ WF_vars(which = "mux" /\ SendChunk)
  /\ WF_vars(which = "mux" /\ Park)
  /\ WF_vars(which = "mux" /\ Unpark)
  /\ WF_vars(which = "mux" /\ LoopEnds)
  /\ WF_vars(which = "mux" /\ Receiver)
  /\ WF_vars(which = "mux" /\ (ReceiveCreated \/ ReceiveClose \/ ReceiveCredit \/ ReceiveData))
  /\ WF_vars(which = "mux" /\ (ConnectFails \/ SpawnTasks))
  /\ WF_vars(which = "mux" /\ (SendControl \/ SendData))
  /\ WF_creditVars(which = "credits" /\ Credits!Consumer)
  /\ WF_creditVars(which = "credits" /\ \E g \in {1, 2} : Credits!GrantNotify(g))
  /\ WF_creditVars(which = "credits" /\ Credits!CloseNotify)
  /\ WF_sessionVars(which = "session" /\ Session!Loop)
  /\ WF_sessionVars(which = "session" /\ Session!SenderTakes)
  /\ WF_frontVars(which = "front" /\ Door!Loop)
  /\ SF_proxyVars(which = "proxy" /\ Proxy!AnyLock)
  /\ WF_proxyVars(which = "proxy" /\ Proxy!AnySettleOrResponse)

PackSpec == PackInit /\ [][PackNext]_allVars /\ PackFairness

-----------------------------------------------------------------------------
(* The credit gate of a flow: no wakeup is lost, and nothing is sent       *)
(* beyond the window and the grants (see FlowSendCredits).                 *)
CreditsSound == which = "credits" => Credits!CreditsSound

(* A consumer parked on the gate goes on once the peer has granted or the  *)
(* flow is closed (see FlowSendCredits).                                   *)
WaitEnds == which = "credits" => Credits!WaitEnds

(* The tables and queues of a session: a target receives what the client   *)
(* sent, in order and without a gap; there are never more flows than the   *)
(* limit; every running task is in reach of the cleanup; a client's IP     *)
(* packets are written to the device in full (see MuxSession).             *)
SessionSound ==
  /\ which = "session" =>
       Session!TypeOK /\ Session!UplinkIsPrefix /\ Session!FlowsBounded
  /\ which = "session" => Session!TasksInReach /\ Session!PacketsConserved

(* A flow whose target does not read never stops the receive loop (see     *)
(* MuxSession).                                                            *)
NoHeadOfLineBlocking == Session!NoHeadOfLineBlocking

(* The answers of a connection to the server's port belong to its          *)
(* requests, in order; no byte of an upgrade request is lost on its way to *)
(* the handler; the decoy serves only files below its root (see            *)
(* ServerFront).                                                           *)
FrontSound ==
  which = "front" =>
    Door!TypeOK /\ Door!AnswersMatch /\ Door!NothingSwallowed /\ Door!ServedBelowRoot

(* A WebSocket upgrade that has arrived whole reaches its handler, and a   *)
(* connection to the decoy ends wherever its client stops sending, as long *)
(* as it takes the answers that are being written (see ServerFront).       *)
FrontAnswers ==
  /\ Door!UpgradeReachesHandler
  /\ Door!DecoyConnectionEnds

(* handle_tunnel_multiplexed never replaces a live tunnel in the slot, a   *)
(* connection waiting for the slot gets a tunnel or an end however many    *)
(* dials fail ahead of it, as long as they return, and relay_http_response *)
(* returns at the end of a delimited response (see ProxyPath).             *)
ProxyTunnels ==
  /\ [](which = "proxy" => Proxy!TypeOK)
  /\ Proxy!LiveTunnelKept
  /\ Proxy!SlotReached
  /\ Proxy!KeepAliveWorks
=============================================================================

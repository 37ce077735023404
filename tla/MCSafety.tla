------------------------------ MODULE MCSafety -----------------------------
(***************************************************************************)
(* Instances for model checking of the components with safety properties   *)
(* only: the server's TUN side and the mobile clients of it (sessions on   *)
(* both platforms, the C interface, keepalive timers, reconnect delays,    *)
(* DNS with its caches, several exits); the Double Ratchet, with the       *)
(* handshake and the key files before it and the codecs, the framing and   *)
(* the WebSocket below it; the TLS session store, the rate limiter, the    *)
(* routing decision and the rewriting of addresses.                        *)
(*                                                                         *)
(* In a behaviour one component runs, and which names it.  They share the  *)
(* variables v1, v2, ..., which hold those of the one that runs, in the    *)
(* order in which its module declares them; the ones it leaves are 0.      *)
(***************************************************************************)
EXTENDS Naturals, Sequences, SequencesExt, TunPeers

VARIABLES
  which,   \* the component that runs
  v1, v2, v3, v4, v5, v6, v7, v8, v9, v10, v11, v12, v13, v14, v15, v16, v17,
  v18

(* Handshake: one session tries every client path, the other one of them.  *)
Kinds ==
  <<{"stream", "tun", "mux", "dns", "ios", "android", "doh", "flow"}, {"stream"}>>

(* Routing: a name below a listed one, a name with two addresses, and an   *)
(* address.                                                                *)
Host1 == <<"m", "g">>
Host2 == <<"b">>
Host3 == <<"us">>
Address ==
  [h \in {Host1, Host2, Host3} |->
    CASE h = Host1 -> {<<"cn">>} [] h = Host2 -> {<<"lan">>, <<"de">>} [] OTHER -> {h}]
ListDomains == [bypassD |-> {<<"g">>}, tunnelD |-> {<<"g">>}, block |-> {Host1}]
ListNets == [bypassN |-> {<<"cn">>}, tunnelN |-> {<<"de">>}]
Rules ==
  {[kind |-> "suffix", pattern |-> <<"g">>, server |-> "s1"],
   [kind |-> "wildcard", pattern |-> <<"g">>, server |-> "s2"],
   [kind |-> "suffix", pattern |-> Host1, server |-> "s3"]}
Cidrs == {[net |-> {Host3, <<"de">>}, server |-> "s1"], [net |-> {Host3}, server |-> "s2"]}

(* TunServer twice: two clients share two addresses (the constants of the  *)
(* configuration), and three of them one.                                  *)
Srv == INSTANCE TunServer WITH
  available <- v1, owner <- v2, expired <- v3, senders <- v4, pc <- v5,
  ip <- v6, reclaimed <- v7, available_lock <- v8, allocated_lock <- v9,
  rl <- v10

Crowd == INSTANCE TunServer WITH
  Ips <- {1}, Clients <- {"alice", "bob", "carol"},
  Reconnecting <- {"alice"}, Sessions <- 2, available <- v1, owner <- v2,
  expired <- v3, senders <- v4, pc <- v5, ip <- v6, reclaimed <- v7,
  available_lock <- v8, allocated_lock <- v9, rl <- v10

Pool == INSTANCE TunnelPool WITH
  Tunnels <- {1, 2}, Flows <- {"f1", "f2"}, NoTunnel <- 0, PoolSize <- 1,
  PoolMax <- 2, MaxFlows <- 1, MaxStale <- 1, Usize <- 8, entry <- v1,
  life <- v2, watcher <- v3, connecting <- v4, spawned <- v5,
  flow_count <- v6, stale <- v7, pc <- v8, on <- v9, listed <- v10

Ios == INSTANCE ServerSession WITH
  Loops <- {1, 2}, MaxConns <- 2, MaxPackets <- 1, MaxCalls <- 2, Ips <- {1},
  PendingCap <- 1, ChanCap <- 1, MaxAttempts <- 1, role <- v1, enabled <- v2,
  started <- v3, state <- v4, tunnelIp <- v5, pending <- v6, chan <- v7,
  loop <- v8, nconn <- v9, slot <- v10, warmer <- v11, warming <- v12,
  demux <- v13, routed <- v14, calls <- v15, stopping <- v16

Droid == INSTANCE AndroidSession WITH
  Loops <- {1, 2}, MaxConns <- 2, MaxPackets <- 2, MaxCalls <- 3,
  PendingCap <- 1, ChanCap <- 1, MaxAttempts <- 1, role <- v1, enabled <- v2,
  started <- v3, state <- v4, tunnelIp <- v5, pending <- v6, chan <- v7,
  loop <- v8, nconn <- v9, demux <- v10, routed <- v11, calls <- v12,
  stopping <- v13

Life == INSTANCE TunLifecycle WITH
  Threads <- {1, 2, 3}, MaxRuntimes <- 3, MaxTasks <- 2, client <- v1,
  runtime <- v2, creating <- v3, handle <- v4, built <- v5, alive <- v6,
  tasks <- v7, pc <- v8, mine <- v9

Timers == INSTANCE KeepaliveTimers WITH
  MaxLatency <- 1, MaxFreeze <- 8, MaxSkips <- 2, client <- v1, server <- v2,
  path <- v3, cTick <- v4, cWall <- v5, cRx <- v6, cRead <- v7, probe <- v8,
  heard <- v9, sTick <- v10, sBin <- v11, up <- v12, down <- v13,
  cargo <- v14, skips <- v15, busy <- v16, frozen <- v17, freezeLeft <- v18

Backoff == INSTANCE ReconnectBackoff WITH
  Window <- 7, InitialDelay <- 1, MaxDelay <- 4, Cooldown <- 2,
  MaxAttempts <- 3, MaxBurst <- 6, at <- v1, left <- v2, history <- v3,
  attempts <- v4, had <- v5, requested <- v6, connects <- v7

Dns == INSTANCE DnsTunnel WITH
  Queries <- {"q1", "q2"}, Domains <- {1}, Permits <- 1, OutCap <- 1,
  MaxSessions <- 3, task <- v1, dom <- v2, waited <- v3, queue <- v4,
  reply <- v5, link <- v6, sessions <- v7, pending <- v8, cache <- v9,
  path <- v10, up <- v11, job <- v12, resolving <- v13, lock <- v14,
  sendN <- v15, num <- v16, out <- v17, recvN <- v18

Cache == INSTANCE DnsCache WITH
  Hosts <- {"h1", "h2", "h3"}, Callers <- {1}, Ttls <- {2}, FailureTtl <- 1,
  CacheSizes <- {0, 2}, UsizeModulus <- 16, size <- v1, cache <- v2,
  asking <- v3, failedAt <- v4

Mobile == INSTANCE MobileDns WITH
  Domains <- {1, 2}, Tasks <- {1, 2}, CacheCap <- 1, RouteCap <- 1,
  FailureTtl <- 1, MinTold <- 1, MinCacheTtl <- 2, MaxCacheTtl <- 4,
  ServerTtl <- 3, DefaultTtl <- 4, MaxSessions <- 2, pc <- v1, dom <- v2,
  cache <- v3, pending <- v4, queue <- v5, link <- v6, sessions <- v7,
  asked <- v8, reply <- v9, route <- v10, held <- v11, guessed <- v12

Exit == INSTANCE MultiExit WITH
  PendingCap <- 1, ChanCap <- 1, SwiftCap <- 1, MaxPackets <- 2,
  MaxConns <- 2, config <- v1, created <- v2, learned <- v3, sess <- v4,
  pending <- v5, chan <- v6, demux <- v7, routed <- v8, wire <- v9,
  primary <- v10, relay <- v11, toSwift <- v12, notify <- v13, swift <- v14,
  replies <- v15

Cipher == INSTANCE Ratchet WITH
  MaxSkip <- 2, U32 <- 3, AliceSends <- 4, BobSends <- 2, MaxForced <- 1,
  MaxDhSteps <- 3, r <- v1, net <- v2, accepted <- v3, forced <- v4

Shake == INSTANCE Handshake WITH
  Addrs <- {1, 2}, Sessions <- {1, 2}, SrvOf <- <<1, 2>>, Kinds <- Kinds,
  MaxGen <- 2, Rekeyed <- {1}, disk <- v1, run <- v2, bundle <- v3,
  conf <- v4, file <- v5, seen <- v6, sess <- v7

Store == INSTANCE ResumptionStore WITH
  Names <- {1, 2, 3}, Capacity <- 2, MaxTickets <- 2, MaxIssued <- 3,
  order <- v1, kxHints <- v2, tls12 <- v3, tls13 <- v4, bOrder <- v5,
  bSessions <- v6, issued <- v7, taken <- v8

Limit == INSTANCE RateLimiter WITH
  Ips <- {1, 2}, MaxPerMinute <- 3, MaxConnections <- 2, Window <- 3,
  requests <- v1, admitted <- v2

Route == INSTANCE Routing WITH
  Conns <- {1}, Hosts <- {Host1, Host2, Host3}, Address <- Address,
  ListDomains <- ListDomains, ListNets <- ListNets, Private <- {<<"lan">>},
  CountryIps <- {<<"lan">>}, ChinaHosts <- {Host2}, ForceHosts <- {},
  AdHosts <- {}, Literals <- {Host3}, Rules <- Rules, Cidrs <- Cidrs,
  MaxEdits <- 1, disk <- v1, edits <- v2, data <- v3, loading <- v4,
  reload <- v5, readers <- v6, conn <- v7

Wire == INSTANCE WireCodec WITH
  Radix <- 3, MaxLen <- 3, MaxItems <- 2, MaxCipher <- 2, message <- v1,
  bytes <- v2, decoder <- v3, result <- v4

Frames == INSTANCE FramePipe WITH
  MaxPayload <- 6, Block <- 3, MaxPadded <- 6, MaxBatch <- 2,
  Sizes <- {0, 1, 3, 4, 7}, MaxFrames <- 3, mode <- v1, sent <- v2,
  refused <- v3, link <- v4, buffer <- v5, received <- v6

Ws == INSTANCE WsLink WITH
  Small <- 1, Medium <- 2, OutLen <- 2, RespLen <- 2, Sizes <- {1, 2, 3},
  MaxFrames <- 2, phase <- v1, response <- v2, down <- v3, eof <- v4,
  readBuf <- v5, sent <- v6, returned <- v7, up <- v8, written <- v9

Rewrite == INSTANCE NatRewrite WITH
  Radix <- 4, Addrs <- {<<0, 0>>, <<3, 3>>, <<1, 0>>, <<2, 3>>},
  packet <- v1, was <- v2, step <- v3

Keys == INSTANCE KeyCeremony WITH
  Paths <- {1, 2}, MaxKeys <- 2, MaxBundles <- 2, keyfile <- v1,
  bundle <- v2, private <- v3, cli <- v4, drawn <- v5, conf <- v6,
  named <- v7, server <- v8, handlers <- v9, calm <- v10, whole <- v11,
  pin <- v12, trusted <- v13

ASSUME Cipher!RatchetConstants

-----------------------------------------------------------------------------
(* The variables that a component with so many leaves unused.              *)
after16 == <<v17, v18>>
after15 == <<v16, after16>>
after13 == <<v14, v15, after15>>
after12 == <<v13, after13>>
after10 == <<v11, v12, after12>>
after9 == <<v10, after10>>
after8 == <<v9, after9>>
after7 == <<v8, after8>>
after6 == <<v7, after7>>
after4 == <<v5, v6, after6>>
after3 == <<v4, after4>>
after2 == <<v3, after3>>
slots == <<v1, v2, after2>>
allVars == <<which, slots>>

(* How many variables each has.                                            *)
Width ==
  [server |-> 10, crowd |-> 10, pool |-> 10, ios |-> 16, droid |-> 13,
   life |-> 9, timers |-> 18, backoff |-> 7, dns |-> 18, cache |-> 4,
   mobile |-> 12, exit |-> 15, ratchet |-> 4, shake |-> 7, store |-> 8,
   limit |-> 2, routing |-> 7, wire |-> 4, frames |-> 6, ws |-> 9, nat |-> 3,
   keys |-> 13]

Unused(n) == Width[which] < n

PackInit ==
  /\ which \in DOMAIN Width
  /\ IF Unused(3) THEN v3 = 0 ELSE TRUE
  /\ IF Unused(4) THEN v4 = 0 ELSE TRUE
  /\ IF Unused(5) THEN v5 = 0 ELSE TRUE
  /\ IF Unused(6) THEN v6 = 0 ELSE TRUE
  /\ IF Unused(7) THEN v7 = 0 ELSE TRUE
  /\ IF Unused(8) THEN v8 = 0 ELSE TRUE
  /\ IF Unused(9) THEN v9 = 0 ELSE TRUE
  /\ IF Unused(10) THEN v10 = 0 ELSE TRUE
  /\ IF Unused(11) THEN v11 = 0 ELSE TRUE
  /\ IF Unused(12) THEN v12 = 0 ELSE TRUE
  /\ IF Unused(13) THEN v13 = 0 ELSE TRUE
  /\ IF Unused(14) THEN v14 = 0 ELSE TRUE
  /\ IF Unused(15) THEN v15 = 0 ELSE TRUE
  /\ IF Unused(16) THEN v16 = 0 ELSE TRUE
  /\ IF Unused(17) THEN v17 = 0 ELSE TRUE
  /\ IF Unused(18) THEN v18 = 0 ELSE TRUE
  /\ CASE which = "server" -> Srv!Init
       [] which = "crowd" -> Crowd!Init
       [] which = "pool" -> Pool!Init
       [] which = "ios" -> Ios!Init
       [] which = "droid" -> Droid!Init
       [] which = "life" -> Life!Init
       [] which = "timers" -> Timers!Init
       [] which = "backoff" -> Backoff!Init
       [] which = "dns" -> Dns!Init
       [] which = "cache" -> Cache!Init
       [] which = "mobile" -> Mobile!Init
       [] which = "exit" -> Exit!Init
       [] which = "ratchet" -> Cipher!Init
       [] which = "shake" -> Shake!Init
       [] which = "store" -> Store!Init
       [] which = "limit" -> Limit!Init
       [] which = "routing" -> Route!Init
       [] which = "wire" -> Wire!Init
       [] which = "frames" -> Frames!Init
       [] which = "ws" -> Ws!Init
       [] which = "nat" -> Rewrite!Init
       [] which = "keys" -> Keys!Init

(* A step of one component leaves the rest alone.                          *)
OnlySrv == which = "server" /\ UNCHANGED <<which, after10>>
OnlyCrowd == which = "crowd" /\ UNCHANGED <<which, after10>>
OnlyPool == which = "pool" /\ UNCHANGED <<which, after10>>
OnlyIos == which = "ios" /\ UNCHANGED <<which, after16>>
OnlyDroid == which = "droid" /\ UNCHANGED <<which, after13>>
OnlyLife == which = "life" /\ UNCHANGED <<which, after9>>
OnlyTimers == which = "timers" /\ UNCHANGED <<which>>
OnlyBackoff == which = "backoff" /\ UNCHANGED <<which, after7>>
OnlyDns == which = "dns" /\ UNCHANGED <<which>>
OnlyCache == which = "cache" /\ UNCHANGED <<which, after4>>
OnlyMobile == which = "mobile" /\ UNCHANGED <<which, after12>>
OnlyExit == which = "exit" /\ UNCHANGED <<which, after15>>
OnlyCipher == which = "ratchet" /\ UNCHANGED <<which, after4>>
OnlyShake == which = "shake" /\ UNCHANGED <<which, after7>>
OnlyStore == which = "store" /\ UNCHANGED <<which, after8>>
OnlyLimit == which = "limit" /\ UNCHANGED <<which, after2>>
OnlyRoute == which = "routing" /\ UNCHANGED <<which, after7>>
OnlyWire == which = "wire" /\ UNCHANGED <<which, after4>>
OnlyFrames == which = "frames" /\ UNCHANGED <<which, after6>>
OnlyWs == which = "ws" /\ UNCHANGED <<which, after9>>
OnlyRewrite == which = "nat" /\ UNCHANGED <<which, after3>>
OnlyKeys == which = "keys" /\ UNCHANGED <<which, after13>>

PackNext ==
  \/ OnlySrv /\ Srv!Next
  \/ OnlyCrowd /\ Crowd!Next
  \/ OnlyPool /\ Pool!Next
  \/ OnlyIos /\ Ios!Next
  \/ OnlyDroid /\ Droid!Next
  \/ OnlyLife /\ Life!Next
  \/ OnlyTimers /\ Timers!Next
  \/ OnlyBackoff /\ Backoff!Next
  \/ OnlyDns /\ Dns!Next
  \/ OnlyCache /\ Cache!Next
  \/ OnlyMobile /\ Mobile!Next
  \/ OnlyExit /\ Exit!Next
  \/ OnlyCipher /\ Cipher!Next
  \/ OnlyShake /\ Shake!Next
  \/ OnlyStore /\ Store!Next
  \/ OnlyLimit /\ Limit!Next
  \/ OnlyRoute /\ Route!Next
  \/ OnlyWire /\ Wire!Next
  \/ OnlyFrames /\ Frames!Next
  \/ OnlyWs /\ Ws!Next
  \/ OnlyRewrite /\ Rewrite!Next
  \/ OnlyKeys /\ Keys!Next

PackSpec == PackInit /\ [][PackNext]_allVars

-----------------------------------------------------------------------------
(* The server's TUN side: leases and registrations are consistent with     *)
(* each other, whatever the sessions of all clients are doing (see         *)
(* TunServer).                                                             *)
LeasesSound ==
  /\ which = "server" => Srv!LeasesSound
  /\ which = "crowd" => Crowd!LeasesSound

(* A teardown never takes away the registration of another session (see    *)
(* TunServer).                                                             *)
TeardownEvictsOnlyItself ==
  [][/\ which = "server" => Srv!EvictsOnlyOwn
     /\ which = "crowd" => Crowd!EvictsOnlyOwn]_allVars


(* Mobile sessions on both platforms: a packet stashed while a session was *)
(* down is flushed or dropped, one task owns the preconnected transport,   *)
(* the application sees Connected only while a relay runs, and an Android  *)
(* session has one reconnect loop (see ServerSession and AndroidSession).  *)
SessionsSound ==
  /\ which = "ios" =>
       Ios!TypeOK /\ Ios!NoStrandedStash /\ Ios!WarmTransportOwned
  /\ which = "ios" => Ios!ConnectedMeansRelay
  /\ which = "droid" => Droid!TypeOK /\ Droid!NoStrandedStash
  /\ which = "droid" => Droid!ConnectedMeansRelay /\ Droid!OneReconnectLoop

(* TUN_CLIENT_CREATING is set exactly while one thread creates, and        *)
(* TUN_CLIENT only goes from None to a client and back (see TunLifecycle). *)
LifecycleSound ==
  /\ [](which = "life" => Life!TypeOK /\ Life!CreationOwned)
  /\ [][which = "life" => Life!NeverReplaced]_allVars


(* Responses leave the server's DNS handler in the order of their          *)
(* encryption, run_ws_session never gives up a healthy session, a          *)
(* registered query is somewhere between the client and its answer, and a  *)
(* query whose session has ended has been answered (see DnsTunnel).        *)
DnsSound ==
  /\ which = "dns" =>
       Dns!TypeOK /\ Dns!ResponsesInOrder /\ Dns!WatchdogSparesHealthy
  /\ which = "dns" => Dns!EveryQueryInTransit /\ Dns!NoQueryForgotten

(* The DNS caches stay within their sizes, a negative answer is only given *)
(* shortly after a failed lookup, of the live entries the first to expire  *)
(* is evicted, the route map knows an address at least as long as an       *)
(* application may use it, and a waiting query is where an answer or a     *)
(* disconnect will find it (see DnsCache and MobileDns).                   *)
CachesSound ==
  /\ [](which = "cache" =>
       Cache!TypeOK /\ Cache!CacheBounded /\ Cache!NegativeIsRecent)
  /\ [](which = "mobile" =>
       Mobile!TypeOK /\ Mobile!RouteCoversAnswer /\ Mobile!MapsBounded)
  /\ [](which = "mobile" => Mobile!WaiterRegistered)
  /\ [][which = "cache" => Cache!OldestLiveEvicted]_allVars

(* A packet leaves through the exit its destination was routed to or not   *)
(* at all, rules name only exits that exist, a packet waiting for the      *)
(* device has a wakeup under way, no stashed packet outlives the flush of  *)
(* its exit's connection, and every usable packet the device reads is      *)
(* addressed to it (see MultiExit).                                        *)
ExitsSound ==
  /\ which = "exit" =>
       Exit!TypeOK /\ Exit!RoutedThroughExit /\ Exit!ChosenExitExists
  /\ which = "exit" =>
       Exit!ReaderNotified /\ Exit!StashIsFlushed /\ Exit!RepliesAddressedToDevice

(* No ratchet accepts a message twice, and a gap in the numbers is bridged *)
(* up to MAX_SKIP (see Ratchet).                                           *)
MessagesSound == which = "ratchet" => Cipher!MessagesSound

(* Regenerated prekeys never make the chain keys of a handshake diverge,   *)
(* and every pin in known_hosts.json is an identity its address has        *)
(* presented (see Handshake).                                              *)
IdentitySound ==
  which = "shake" =>
    Shake!TypeOK /\ Shake!SecretsAgree /\ Shake!PinsWerePresented

(* The pin a client stores denotes the identity it trusted, and a server   *)
(* whose configuration names its bundle serves the published prekey, if it *)
(* starts in peace (see KeyCeremony).                                      *)
KeysSound ==
  which = "keys" =>
    Keys!TypeOK /\ Keys!PinDenotesTrusted /\ Keys!ServesPublishedKeys


(* check_and_record bounds the connections of an address over any window   *)
(* (see RateLimiter).                                                      *)
BurstBounded == which = "limit" => Limit!TypeOK /\ Limit!BurstBounded

(* A decision taken across a reload is the one all rule sets in force      *)
(* agree on, the exit is that of the most specific rule, and nobody holds  *)
(* the rules across a name resolution (see Routing).                       *)
RoutingSound ==
  /\ which = "routing" =>
       Route!TypeOK /\ Route!StableRulesHonoured /\ Route!ExitIsMostSpecific
  /\ which = "routing" => Route!RulesHeldBriefly

(* What is encoded is decoded or refused. Messages: a decoder returns the  *)
(* message that was encoded, or fails (WireCodec). Frames come out of      *)
(* padding, batching and framing as they went in, in whole blocks, and are *)
(* refused only for their size (FramePipe). next_frame returns the         *)
(* server's frames whole, once and in order, and a frame the client writes *)
(* can be read (WsLink). A rewritten packet keeps valid checksums, and     *)
(* rewriting its address back restores it (NatRewrite).                    *)
CodecsSound ==
  /\ which = "wire" => Wire!TypeOK /\ Wire!DecodesToItselfOrFails
  /\ which = "frames" =>
       Frames!TypeOK /\ Frames!FramesSurvive /\ Frames!WholeBlocks
  /\ which = "frames" => Frames!OnlyOversizeRefused
  /\ which = "ws" => Ws!TypeOK /\ Ws!FramesConserved /\ Ws!WrittenIsReadable
  /\ which = "nat" => Rewrite!ChecksumsStayRight /\ Rewrite!UndoRestores
=============================================================================

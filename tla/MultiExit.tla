----------------------------- MODULE MultiExit -----------------------------
(***************************************************************************)
(* The mobile client with several exit servers (rvpn-mobile ios_tun.rs,    *)
(* android_tun.rs): the checks of new(), the demultiplexing of packets     *)
(* from the device to one session per exit, address rewriting in both      *)
(* directions, and the one channel by which all sessions return packets,   *)
(* with the wakeup of the thread that reads it.                            *)
(*                                                                         *)
(* A session is reduced to what the others see of it: whether its loop     *)
(* runs, its last tunnel address, how far its connection is.  Modules      *)
(* ServerSession, AndroidSession and SessionRelay have the rest.           *)
(***************************************************************************)
EXTENDS Naturals, Sequences

CONSTANTS
  PendingCap,    \* PENDING_UPLINK_CAP
  ChanCap,       \* capacity of a session's uplink channel
  SwiftCap,      \* capacity of the channel to the device
  MaxPackets,    \* bound: packets from the device and from the servers
  MaxConns       \* bound: connections of each session

VARIABLES
  config,    \* platform, extra server names, routing rules
  created,   \* outcome of new()
  learned,   \* route_map: the exit of the destination a DNS answer gave
  sess,      \* [Exits -> the session]
  pending,   \* [Exits -> pending_uplink]
  chan,      \* [Exits -> from_swift channel]
  demux,     \* the packet in the device thread's hands
  routed,    \* history: the exit chosen for each packet
  wire,      \* history: packets a relay has sent
  primary,   \* primary_tunnel_ip, 0 for None
  relay,     \* [Exits -> the relay's receiving half and the packet it holds]
  toSwift,   \* packets for the device
  notify,    \* tokens in the packet_notify channel
  swift,     \* the device's reading thread
  replies    \* packets from servers so far

upVars == <<pending, chan, demux, routed, wire>>
downVars == <<relay, toSwift, notify, swift, replies>>
vars == <<config, created, learned, sess, upVars, primary, downVars>>

(* Names: 0 empty, 1 "default", 2 an extra server, 3 a name nobody has.    *)
Exits == {1, 2}
Default == 1
Names == 0..3

(* Destinations: 1 has a CIDR rule, 2 belongs to a domain rule, 3 neither, *)
(* 4 stands for a packet that is not IPv4.                                 *)
Dsts == 1..4
Device == 9                          \* source of a packet of the device
Assigned(e, k) == 10 * e + k         \* address of exit e's k-th connection

Fresh == [started |-> FALSE, ip |-> 0, at |-> "down", conns |-> 0]
NoPacket == [n |-> 0, dst |-> 0, src |-> 0]
At(at, p, e) == [at |-> at, p |-> p, exit |-> e]

(* A packet from a server: its destination, and whether it has an IPv4     *)
(* header that can be rewritten.                                           *)
Reply(dst, usable) == [dst |-> dst, usable |-> usable]
Idle == [at |-> "recv", p |-> Reply(0, FALSE)]

TypeOK ==
  /\ created \in {"no", "ok", "failed"}
  /\ \A e \in Exits : /\ Len(pending[e]) <= PendingCap /\ Len(chan[e]) <= ChanCap
                      /\ sess[e].at \in {"down", "stored", "up"}
                      /\ sess[e].ip = IF sess[e].conns = 0 THEN 0 ELSE Assigned(e, sess[e].conns)
                      /\ relay[e].at \in {"recv", "send", "notify"}
  /\ Len(toSwift) <= SwiftCap /\ notify \in {0, 1}
  /\ swift \in {"waiting", "reading"} /\ primary \in {0} \cup {Assigned(1, k) : k \in 1..MaxConns}
  /\ learned \in Names /\ replies \in Nat /\ Len(routed) + replies <= MaxPackets

Init ==
  /\ config \in [platform : {"ios", "android"}, extras : {<<>>, <<2>>, <<2, 2>>, <<1>>, <<0>>},
                 rule : Names, domain : Names]
  /\ created = "no" /\ learned = 0
  /\ sess = [e \in Exits |-> Fresh]
  /\ pending = [e \in Exits |-> <<>>] /\ chan = [e \in Exits |-> <<>>]
  /\ demux = At("idle", NoPacket, 0) /\ routed = <<>> /\ wire = {}
  /\ primary = 0
  /\ relay = [e \in Exits |-> Idle] /\ toSwift = <<>> /\ notify = 0
  /\ swift = "reading" /\ replies = 0

----------------------------------------------------------------------------
(* new().  Name 0 as a rule means there is none.                           *)
Used(names) == {names[i] : i \in 1..Len(names)}

ValidateExtraServerNames(names) ==
  /\ 0 \notin Used(names) /\ Default \notin Used(names)
  /\ \A i, j \in 1..Len(names) : names[i] = names[j] => i = j

(* Mutant: the names used by domain rules are not looked up.               *)
RouterBuildsIps(known) == config.rule \in {0} \cup (known \ {Default})

(* Router::build: a rule for the default server is refused as redundant.   *)
RouterBuilds(known) == {config.rule, config.domain} \subseteq {0} \cup (known \ {Default})

(* A configured pin must be that of the bundle on disk.                    *)
Pins == {"none", "same", "other"}
LoadBundleAndPin(pin) == pin \in {"none", "same"}

NewChecks ==
  IF config.extras = <<>>
  THEN config.rule = 0 /\ config.domain = 0
  ELSE ValidateExtraServerNames(config.extras) /\ RouterBuilds({Default} \cup Used(config.extras))

(* An address that does not resolve is dialled by name later.              *)
NewIos ==
  /\ created = "no" /\ config.platform = "ios"
  /\ \E pin \in Pins : created' = IF LoadBundleAndPin(pin) /\ NewChecks THEN "ok" ELSE "failed"
  /\ UNCHANGED <<config, learned, sess, upVars, primary, downVars>>

(* Here it is an error.                                                    *)
NewAndroid ==
  /\ created = "no" /\ config.platform = "android"
  /\ \E pin \in Pins, resolves \in BOOLEAN :
       created' = IF resolves /\ LoadBundleAndPin(pin) /\ NewChecks THEN "ok" ELSE "failed"
  /\ UNCHANGED <<config, learned, sess, upVars, primary, downVars>>

Created == {Default} \cup Used(config.extras)

(* ensure_session_started: unknown names are ignored.                      *)
Started(e) == IF e \in Created THEN [sess EXCEPT ![e].started = TRUE] ELSE sess

Start ==
  /\ created = "ok" /\ ~sess[Default].started
  /\ sess' = Started(Default)
  /\ UNCHANGED <<config, created, learned, upVars, primary, downVars>>

(* The DNS layer learns the address of a routed domain and warms the exit. *)
Learn ==
  /\ created = "ok" /\ config.domain > Default /\ learned = 0
  /\ learned' = config.domain /\ sess' = Started(config.domain)
  /\ UNCHANGED <<config, created, upVars, primary, downVars>>

Expire ==
  /\ learned # 0 /\ learned' = 0
  /\ UNCHANGED <<config, created, sess, upVars, primary, downVars>>

----------------------------------------------------------------------------
(* choose_exit_name: the route map, then the CIDR rules, else the default. *)
ChooseExitName(dst) ==
  CASE config.extras = <<>> -> Default
    [] dst = 2 /\ learned # 0 -> learned
    [] dst = 1 /\ config.rule # 0 -> config.rule
    [] OTHER -> Default

(* try_send_packet on the device's thread: choose, start the session if    *)
(* need be, enqueue.                                                       *)
Choose(dst) ==
  /\ created = "ok" /\ demux.at = "idle" /\ Len(routed) + replies < MaxPackets
  /\ LET n == Len(routed) + 1
         e == ChooseExitName(dst) IN
     /\ routed' = Append(routed, e)
     /\ demux' = At("chosen", [n |-> n, dst |-> dst, src |-> Device], e)
  /\ UNCHANGED <<config, created, learned, sess, pending, chan, wire, primary, downVars>>

EnsureSessionStarted ==
  /\ demux.at = "chosen"
  /\ sess' = IF demux.exit = Default THEN sess ELSE Started(demux.exit)
  /\ demux' = [demux EXCEPT !.at = "started"]
  /\ UNCHANGED <<config, created, learned, pending, chan, routed, wire, primary, downVars>>

(* A full channel refuses the packet.                                      *)
TrySend(e, p) == [chan EXCEPT ![e] = IF Len(@) < ChanCap THEN Append(@, p) ELSE @]

RewriteSrcIp(p, ip) == [p EXCEPT !.src = ip]

(* Mutant: what cannot be rewritten yet goes to the default exit.          *)
EnqueueUplinkOrDefault(e, p) ==
  IF sess[e].ip # 0
  THEN chan' = TrySend(e, RewriteSrcIp(p, sess[e].ip)) /\ UNCHANGED pending
  ELSE chan' = TrySend(Default, p) /\ UNCHANGED pending

(* enqueue_uplink of a secondary session: rewrite, or stash the packet     *)
(* until the address is known, the oldest giving way.                      *)
EnqueueUplink(e, p) ==
  IF sess[e].ip # 0
  THEN chan' = TrySend(e, RewriteSrcIp(p, sess[e].ip)) /\ UNCHANGED pending
  ELSE /\ pending' = [pending EXCEPT ![e] =
                        Append(IF Len(@) >= PendingCap THEN Tail(@) ELSE @, p)]
       /\ UNCHANGED chan

TrySendPacket ==
  /\ demux.at = "started"
  /\ IF demux.exit = Default \/ demux.exit \notin Created
     THEN chan' = TrySend(Default, demux.p) /\ UNCHANGED pending
     ELSE EnqueueUplink(demux.exit, demux.p)
  /\ demux' = At("idle", NoPacket, 0)
  /\ UNCHANGED <<config, created, learned, sess, routed, wire, primary, downVars>>

----------------------------------------------------------------------------
(* connect() from the VirtualIp on.  The address is stored first, and the  *)
(* demultiplexer's thread sees it from then on.                            *)
StoreTunnelIp(e) ==
  /\ sess[e].started /\ sess[e].at = "down" /\ sess[e].conns < MaxConns
  /\ sess' = [sess EXCEPT ![e].ip = Assigned(e, sess[e].conns + 1), ![e].at = "stored",
                          ![e].conns = @ + 1]
  /\ UNCHANGED <<config, created, learned, upVars, primary, downVars>>

Rewritten(e, ip) == [i \in 1..Len(pending[e]) |-> RewriteSrcIp(pending[e][i], ip)]

Flushed(e, ip) ==
  LET room == ChanCap - Len(chan[e]) IN
  [chan EXCEPT ![e] = @ \o SubSeq(Rewritten(e, ip), 1,
                                  IF Len(pending[e]) < room THEN Len(pending[e]) ELSE room)]

(* Then the default session publishes it, and the stash, which only a      *)
(* secondary session has, is flushed.                                      *)
FlushPending(e) ==
  /\ sess[e].at = "stored"
  /\ sess' = [sess EXCEPT ![e].at = "up"]
  /\ chan' = Flushed(e, sess[e].ip) /\ pending' = [pending EXCEPT ![e] = <<>>]
  /\ primary' = IF e = Default THEN sess[e].ip ELSE primary
  /\ UNCHANGED <<config, created, learned, demux, routed, wire, downVars>>

(* The relay can be cut off at an await only: not between the packet and   *)
(* its wakeup.                                                             *)
Disconnect(e) ==
  /\ sess[e].at = "up" /\ relay[e].at # "notify"
  /\ sess' = [sess EXCEPT ![e].at = "down"]
  /\ relay' = [relay EXCEPT ![e] = Idle]
  /\ UNCHANGED <<config, created, learned, upVars, primary, toSwift, notify, swift, replies>>

Send(e) ==
  /\ sess[e].at = "up" /\ chan[e] # <<>>
  /\ wire' = wire \cup {[n |-> Head(chan[e]).n, src |-> Head(chan[e]).src, exit |-> e]}
  /\ chan' = [chan EXCEPT ![e] = Tail(@)]
  /\ UNCHANGED <<config, created, learned, sess, pending, demux, routed, primary, downVars>>

----------------------------------------------------------------------------
(* A packet whose header is not usable stays as it is, and the callers do  *)
(* not look at the result: it is passed on with the address it has.        *)
RewriteDstIp(p, ip) == IF p.usable THEN [p EXCEPT !.dst = ip] ELSE p

(* Mutant: a packet is passed on though no primary address is known.       *)
AddressedAlways(e, p) == <<IF e = Default THEN p ELSE RewriteDstIp(p, primary)>>

(* What a relay passes on of a packet: a secondary session's is dropped    *)
(* while the primary address is unknown, and addressed to it otherwise.    *)
Addressed(e, p) ==
  CASE e = Default -> <<p>>
    [] e # Default /\ primary = 0 -> <<>>
    [] OTHER -> <<RewriteDstIp(p, primary)>>

(* The receiving half of a relay.                                          *)
Receive(e) ==
  /\ sess[e].at = "up" /\ relay[e].at = "recv" /\ Len(routed) + replies < MaxPackets
  /\ replies' = replies + 1
  /\ \E usable \in BOOLEAN :
       LET out == Addressed(e, Reply(sess[e].ip, usable)) IN
       relay' = IF out = <<>> THEN relay
                ELSE [relay EXCEPT ![e] = [at |-> "send", p |-> out[1]]]
  /\ UNCHANGED <<config, created, learned, sess, upVars, primary, toSwift, notify, swift>>

(* Mutant: the wakeup is sent before the packet.                           *)
DeliverLate(e) ==
  /\ \/ /\ relay[e].at = "send" /\ notify' = 1
        /\ relay' = [relay EXCEPT ![e].at = "notify"] /\ UNCHANGED toSwift
     \/ /\ relay[e].at = "notify" /\ Len(toSwift) < SwiftCap
        /\ toSwift' = Append(toSwift, relay[e].p)
        /\ relay' = [relay EXCEPT ![e] = Idle] /\ UNCHANGED notify
  /\ UNCHANGED <<config, created, learned, sess, upVars, primary, swift, replies>>

(* send().await to the device's channel, then try_send of a wakeup.        *)
Deliver(e) ==
  /\ \/ /\ relay[e].at = "send" /\ Len(toSwift) < SwiftCap
        /\ toSwift' = Append(toSwift, relay[e].p)
        /\ relay' = [relay EXCEPT ![e].at = "notify"] /\ UNCHANGED notify
     \/ /\ relay[e].at = "notify" /\ notify' = IF config.platform = "ios" THEN 1 ELSE 0
        /\ relay' = [relay EXCEPT ![e] = Idle] /\ UNCHANGED toSwift
  /\ UNCHANGED <<config, created, learned, sess, upVars, primary, swift, replies>>

(* wait_for_packet and read_packet, the reader taking packets until there  *)
(* is none.  Android's reader polls.                                       *)
WaitForPacket ==
  /\ swift = "waiting" /\ notify = 1
  /\ notify' = 0 /\ swift' = "reading"
  /\ UNCHANGED <<config, created, learned, sess, upVars, primary, relay, toSwift, replies>>

ReadPacket ==
  /\ swift = "reading"
  /\ \/ toSwift = <<>> /\ config.platform = "ios" /\ swift' = "waiting" /\ UNCHANGED toSwift
     \/ toSwift # <<>> /\ toSwift' = Tail(toSwift) /\ UNCHANGED swift
  /\ UNCHANGED <<config, created, learned, sess, upVars, primary, relay, notify, replies>>

Next ==
  \/ NewIos \/ NewAndroid \/ Start \/ Learn \/ Expire
  \/ \E d \in Dsts : Choose(d)
  \/ EnsureSessionStarted \/ TrySendPacket
  \/ \E e \in Exits : StoreTunnelIp(e) \/ FlushPending(e) \/ Disconnect(e) \/ Send(e) \/ Receive(e) \/ Deliver(e)
  \/ WaitForPacket \/ ReadPacket

Spec == Init /\ [][Next]_vars

----------------------------------------------------------------------------
(* A packet leaves by the exit that was chosen for it or not at all, even  *)
(* if that exit is not connected yet; through a secondary exit it carries  *)
(* an address that exit's server assigned (enqueue_uplink: "Packets are    *)
(* NEVER rerouted to the default session").                                *)
RoutedThroughExit ==
  \A w \in wire :
    /\ w.exit = routed[w.n]
    /\ w.src = Device \/ \E k \in 1..MaxConns : w.src = Assigned(w.exit, k)
    /\ w.src = Device <=> w.exit = Default

(* What new() accepts leaves no rule without a session: the fallback to    *)
(* the default session in try_send_packet is dead code.                    *)
ChosenExitExists == created = "ok" => \A i \in 1..Len(routed) : routed[i] \in Created

(* The wakeup of the device's reading thread is never lost: while it waits *)
(* and a packet is queued, a token is there or about to be sent.           *)
ReaderNotified ==
  swift = "waiting" /\ toSwift # <<>> =>
    notify = 1 \/ \E e \in Exits : relay[e].at = "notify"

(* No stashed packet is stranded: once an exit has a tunnel address, and   *)
(* packets for it are no longer stashed, those that were stashed are taken *)
(* by the flush of the same connection (enqueue_uplink reads the address   *)
(* under the lock of the stash).                                           *)
StashIsFlushed ==
  \A e \in Exits : pending[e] # <<>> => sess[e].ip = 0 \/ sess[e].at = "stored"

(* Packets for the device are addressed to its own address, now or of an   *)
(* earlier connection of the default session, never to a secondary one's   *)
(* (all but those without a usable IPv4 header: see RewriteDstIp).         *)
RepliesAddressedToDevice ==
  \A i \in 1..Len(toSwift) :
    toSwift[i].usable => \E k \in 1..MaxConns : toSwift[i].dst = Assigned(Default, k)
=============================================================================

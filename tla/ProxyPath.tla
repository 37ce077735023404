------------------------------ MODULE ProxyPath ------------------------------
(***************************************************************************)
(* A connection accepted by the client's SOCKS5 or HTTP proxy, from its    *)
(* handshake to its end, in the single-tunnel (multiplex) mode: socks5.rs, *)
(* http_proxy.rs and route_connection, handle_direct_connection and        *)
(* handle_tunnel_multiplexed of proxy_common.rs.                           *)
(*                                                                         *)
(* All connections share one slot for the tunnel, behind a mutex that is   *)
(* held while a tunnel is dialled.  What is left out: the routing decision *)
(* (Routing), the flow (MuxFlow), and the texts of HTTP.                   *)
(***************************************************************************)
EXTENDS Naturals, Sequences, FiniteSets

CONSTANTS
  Socks,        \* connections to the SOCKS5 proxy
  Http,         \* connections to the HTTP proxy
  MaxRetries,   \* MAX_TUNNEL_RETRIES
  MaxTunnels,   \* bound: tunnels dialled
  MaxRequests,  \* bound: requests of an HTTP connection
  Asked         \* the requests exercised, a subset of Requests

Conns == Socks \cup Http
None == 0
Tunnels == 1..MaxTunnels

VARIABLES
  slot,      \* mux_tunnel: a tunnel or None
  life,      \* Tunnels -> "unused", "up", "dead" (is_alive)
  lock,      \* who holds the mutex of the slot, None: nobody
  pc,        \* Conns -> where the connection is
  attempt,   \* Conns -> the attempt of the retry loop
  mine,      \* Conns -> the tunnel it was handed
  request,   \* Conns -> what it asked for
  target,    \* Conns -> the exchange with the target
  served     \* Conns -> requests that have been answered or refused

vars == <<slot, life, lock, pc, attempt, mine, request, target, served>>
shared == <<slot, life, lock>>

(* CONNECT (and SOCKS5) hands the socket over; forward handles one request *)
(* and comes back for the next one.                                        *)
Forms == {"length", "chunked", "eof", "bare"}
Requests ==
  [kind: {"connect"}] \cup [kind: {"forward"}, method: {"get", "head"}, form: Forms, keep: BOOLEAN]
NoRequest == [kind |-> "none"]
Places ==
  {"handshake", "decide", "direct", "copy", "want", "dial", "settle", "use", "flow", "closed"}

Init ==
  /\ slot = None /\ life = [t \in Tunnels |-> "unused"] /\ lock = None
  /\ pc = [c \in Conns |-> "handshake"]
  /\ attempt = [c \in Conns |-> 1] /\ mine = [c \in Conns |-> None]
  /\ request = [c \in Conns |-> NoRequest]
  /\ target = [c \in Conns |-> "none"]
  /\ served = [c \in Conns |-> 0]

Goto(c, place) == pc' = [pc EXCEPT ![c] = place]
IsForward(c) == request[c].kind = "forward"

----------------------------------------------------------------------------
(* socks5_handshake and the head of handle_connection of the HTTP proxy:   *)
(* a request is read and its success reply sent.                           *)
ReadRequest(c) ==
  /\ pc[c] = "handshake" /\ served[c] < MaxRequests
  /\ \E r \in Asked :
       /\ c \in Socks => r.kind = "connect"
       /\ request' = [request EXCEPT ![c] = r]
  /\ Goto(c, "decide")
  /\ UNCHANGED <<shared, attempt, mine, target, served>>

(* A malformed or unauthorised request, the end of the stream, or the 30 s *)
(* timeout (of an HTTP connection: on its first request only).             *)
RequestFails(c) ==
  /\ pc[c] = "handshake"
  /\ Goto(c, "closed")
  /\ UNCHANGED <<shared, attempt, mine, request, target, served>>

(* The split-tunnel decision.                                              *)
Block(c) ==
  /\ pc[c] = "decide"
  /\ Goto(c, "closed")
  /\ UNCHANGED <<shared, attempt, mine, request, target, served>>

Bypass(c) ==
  /\ pc[c] = "decide"
  /\ Goto(c, "direct")
  /\ UNCHANGED <<shared, attempt, mine, request, target, served>>

Tunnel(c) ==
  /\ pc[c] = "decide"
  /\ Goto(c, "want")
  /\ attempt' = [attempt EXCEPT ![c] = 1]
  /\ UNCHANGED <<shared, mine, request, target, served>>

----------------------------------------------------------------------------
(* The direct connection: connect, then copy both ways or relay exactly    *)
(* one response.                                                           *)
ConnectTarget(c) ==
  /\ pc[c] = "direct"
  /\ \/ Goto(c, "copy") /\ target' = [target EXCEPT ![c] = "answering"]
     \/ Goto(c, "closed") /\ UNCHANGED target
  /\ UNCHANGED <<shared, attempt, mine, request, served>>

(* The target has sent the whole response and the client has taken it, or  *)
(* the target has closed.                                                  *)
TargetAnswers(c) ==
  /\ pc[c] \in {"copy", "flow"} /\ target[c] = "answering"
  /\ target' = [target EXCEPT ![c] = "sent"]
  /\ UNCHANGED <<shared, pc, attempt, mine, request, served>>

TargetCloses(c) ==
  /\ pc[c] \in {"copy", "flow"} /\ target[c] \in {"answering", "sent"}
  /\ target' = [target EXCEPT ![c] = "closed"]
  /\ UNCHANGED <<shared, pc, attempt, mine, request, served>>

(* Mutant: the response is copied until the target closes.                 *)
RelayedEof(r, t) == t = "closed"

(* relay_http_response is done: at the last byte of a chunked body or of   *)
(* the announced length, at once when nothing announces a body, and only   *)
(* at the end of the stream when nothing else delimits it.  The length     *)
(* announced in the answer to HEAD is waited for as well.                  *)
Relayed(r, t) ==
  \/ t = "closed"
  \/ t = "sent" /\ (r.form = "chunked" \/ (r.form = "length" /\ r.method = "get"))
  \/ t = "sent" /\ r.form = "bare"

(* One request is over: handle_connection reads the next one unless the    *)
(* client asked it to close.                                               *)
Served(c) ==
  /\ served' = [served EXCEPT ![c] = @ + 1]
  /\ target' = [target EXCEPT ![c] = "none"]
  /\ mine' = [mine EXCEPT ![c] = None]
  /\ Goto(c, IF request[c].keep THEN "handshake" ELSE "closed")

RelayResponse(c) ==
  /\ pc[c] = "copy" /\ IsForward(c) /\ Relayed(request[c], target[c])
  /\ Served(c)
  /\ UNCHANGED <<shared, attempt, request>>

(* Either side ends a copied connection.                                   *)
CopyEnds(c) ==
  /\ pc[c] = "copy"
  /\ Goto(c, "closed")
  /\ UNCHANGED <<shared, attempt, mine, request, target, served>>

----------------------------------------------------------------------------
(* The shared tunnel.  A dead one is taken out of the slot.                *)
LockSlot(c) ==
  /\ pc[c] = "want" /\ lock = None
  /\ IF slot # None /\ life[slot] = "up"
     THEN /\ mine' = [mine EXCEPT ![c] = slot]
          /\ Goto(c, "use")
          /\ UNCHANGED <<slot, lock>>
     ELSE /\ lock' = c /\ slot' = None
          /\ Goto(c, "dial")
          /\ UNCHANGED mine
  /\ UNCHANGED <<life, attempt, request, target, served>>

(* The new tunnel is handed out and the mutex released.                    *)
Store(c, t) ==
  /\ slot' = t /\ lock' = None
  /\ mine' = [mine EXCEPT ![c] = t]
  /\ Goto(c, "use")

(* Mutant: the mutex is released before the tunnel is watched.             *)
DialUnlocked(c) ==
  /\ pc[c] = "dial"
  /\ \E t \in Tunnels :
       /\ life[t] = "unused" /\ \A s \in Tunnels : s < t => life[s] # "unused"
       /\ life' = [life EXCEPT ![t] = "up"]
       /\ slot' = t /\ lock' = None
       /\ mine' = [mine EXCEPT ![c] = t]
       /\ Goto(c, IF IsForward(c) THEN "use" ELSE "settle")
  /\ UNCHANGED <<attempt, request, target, served>>

(* Socks5Tunnel::connect succeeds.  forward_through_mux_tunnel stores the  *)
(* tunnel at once, handle_tunnel_multiplexed watches it for 200 ms first.  *)
Dial(c) ==
  /\ pc[c] = "dial"
  /\ \E t \in Tunnels :
       /\ life[t] = "unused" /\ \A s \in Tunnels : s < t => life[s] # "unused"
       /\ life' = [life EXCEPT ![t] = "up"]
       /\ IF IsForward(c) THEN Store(c, t)
          ELSE mine' = [mine EXCEPT ![c] = t] /\ Goto(c, "settle") /\ UNCHANGED <<slot, lock>>
  /\ UNCHANGED <<attempt, request, target, served>>

(* Mutant: the last attempt fails without giving the mutex back.           *)
AttemptFailsHolding(c) ==
  /\ mine' = [mine EXCEPT ![c] = None]
  /\ IF IsForward(c) \/ attempt[c] = MaxRetries
     THEN Goto(c, "closed") /\ UNCHANGED <<attempt, lock>>
     ELSE attempt' = [attempt EXCEPT ![c] = @ + 1] /\ Goto(c, "dial") /\ UNCHANGED lock

(* Mutant: the bound of the retry loop is checked one attempt late.        *)
AttemptFailsLate(c) ==
  /\ mine' = [mine EXCEPT ![c] = None]
  /\ IF IsForward(c) \/ attempt[c] > MaxRetries
     THEN lock' = None /\ Goto(c, "closed") /\ UNCHANGED attempt
     ELSE attempt' = [attempt EXCEPT ![c] = @ + 1] /\ Goto(c, "dial") /\ UNCHANGED lock

(* A failed attempt: the retry loop of handle_tunnel_multiplexed goes on   *)
(* with the mutex held, forward_through_mux_tunnel gives up.               *)
AttemptFails(c) ==
  /\ mine' = [mine EXCEPT ![c] = None]
  /\ IF IsForward(c) \/ attempt[c] = MaxRetries
     THEN lock' = None /\ Goto(c, "closed") /\ UNCHANGED attempt
     ELSE attempt' = [attempt EXCEPT ![c] = @ + 1] /\ Goto(c, "dial") /\ UNCHANGED lock

DialFails(c) ==
  /\ pc[c] = "dial"
  /\ AttemptFails(c)
  /\ UNCHANGED <<slot, life, request, target, served>>

Settle(c) ==
  /\ pc[c] = "settle"
  /\ IF life[mine[c]] = "up" THEN Store(c, mine[c]) /\ UNCHANGED attempt
     ELSE AttemptFails(c) /\ UNCHANGED slot
  /\ UNCHANGED <<life, request, target, served>>

(* open_flow on the tunnel that was handed out, dead by now or not.        *)
OpenFlow(c) ==
  /\ pc[c] = "use"
  /\ \/ /\ life[mine[c]] = "up"
        /\ Goto(c, "flow") /\ target' = [target EXCEPT ![c] = "answering"]
     \/ Goto(c, "closed") /\ UNCHANGED target
  /\ UNCHANGED <<shared, attempt, mine, request, served>>

(* A CONNECT flow ends with either side.  forward_through_mux_tunnel       *)
(* relays until the server closes the flow, which it does when the target  *)
(* has closed its connection.                                              *)
FlowEnds(c) ==
  /\ pc[c] = "flow"
  /\ IF IsForward(c)
     THEN target[c] = "closed" /\ life[mine[c]] = "up" /\ Served(c)
     ELSE Goto(c, "closed") /\ UNCHANGED <<served, target, mine>>
  /\ UNCHANGED <<shared, attempt, request>>

(* Writing to a client that has gone ends the relay.                       *)
ClientGone(c) ==
  /\ pc[c] = "flow" /\ IsForward(c) /\ target[c] = "answering" /\ life[mine[c]] = "up"
  /\ Goto(c, "closed")
  /\ UNCHANGED <<shared, attempt, mine, request, target, served>>

TunnelDies(t) ==
  /\ life[t] = "up"
  /\ life' = [life EXCEPT ![t] = "dead"]
  /\ UNCHANGED <<slot, lock, pc, attempt, mine, request, target, served>>

Dialling(c) == Dial(c) \/ DialFails(c) \/ Settle(c)

AnyLock == \E c \in Conns : LockSlot(c)
AnySettleOrResponse == \E c \in Conns : Settle(c) \/ RelayResponse(c)

Next ==
  \/ \E c \in Conns :
       \/ ReadRequest(c) \/ RequestFails(c) \/ Block(c) \/ Bypass(c) \/ Tunnel(c)
       \/ ConnectTarget(c) \/ TargetAnswers(c) \/ TargetCloses(c) \/ RelayResponse(c)
       \/ CopyEnds(c) \/ LockSlot(c) \/ Dialling(c) \/ OpenFlow(c) \/ FlowEnds(c) \/ ClientGone(c)
  \/ \E t \in Tunnels : TunnelDies(t)

Spec == Init /\ [][Next]_vars

(* The mutex is fair and the 200 ms pass.  Nothing is assumed of a dial:   *)
(* Socks5Tunnel::connect has no timeout, and a server that accepts and     *)
(* says nothing more keeps it, and the mutex, for good.                    *)
Fairness ==
  \A c \in Conns :
    /\ SF_vars(LockSlot(c))
    /\ WF_vars(Settle(c))
    /\ WF_vars(RelayResponse(c))

FairSpec == Spec /\ Fairness

----------------------------------------------------------------------------
TypeOK ==
  /\ slot \in Tunnels \cup {None} /\ lock \in Conns \cup {None}
  /\ life \in [Tunnels -> {"unused", "up", "dead"}]
  /\ pc \in [Conns -> Places] /\ attempt \in [Conns -> 1..MaxRetries]
  /\ mine \in [Conns -> Tunnels \cup {None}]
  /\ request \in [Conns -> Requests \cup {NoRequest}]
  /\ target \in [Conns -> {"none", "answering", "sent", "closed"}]
  /\ served \in [Conns -> 0..MaxRequests]

(* One tunnel at a time: a connection dials only while it holds the slot,  *)
(* and a live tunnel in the slot is never replaced by another.             *)
LiveTunnelKept ==
  [][slot # None /\ life[slot] = "up" => slot' = slot]_vars

(* Every dial returns, with a tunnel or an error.                          *)
DialsReturn == \A c \in Conns : []<>(pc[c] # "dial")

(* While dials return, nobody waits for the slot for ever, however many    *)
(* fail for those ahead of it: each gives the mutex back after its last    *)
(* attempt.                                                                *)
SlotReached ==
  DialsReturn => \A c \in Conns : pc[c] = "want" ~> pc[c] \in {"use", "closed"}

(* "This reads exactly one response and returns, so keep-alive works": a   *)
(* direct request whose response is complete is over although the target   *)
(* keeps its connection open, unless only the end of the stream delimits   *)
(* the response, or it answers HEAD.                                       *)
KeepAliveWorks ==
  \A c \in Http :
    (/\ pc[c] = "copy" /\ IsForward(c) /\ target[c] = "sent"
     /\ request[c].form # "eof" /\ request[c].method = "get") ~> pc[c] # "copy"
=============================================================================

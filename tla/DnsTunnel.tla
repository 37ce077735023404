----------------------------- MODULE DnsTunnel -----------------------------
(***************************************************************************)
(* DNS over the tunnel, both ends: the client's proxy                      *)
(* (rvpn-client/src/dns_proxy.rs: one task per UDP query, the connection   *)
(* manager, the WebSocket session) and the server's DnsHandler             *)
(* (rvpn-server/src/handler.rs: the read loop, one task per query under a  *)
(* semaphore, the send lock, the writer).                                  *)
(*                                                                         *)
(* One step of the clock is five seconds, the unit of all the timers that  *)
(* meet here: a UDP task waits one step, a resolution may take one, the    *)
(* watchdog runs every step and gives a pending query two.  Messages over  *)
(* a working path take less than a step.                                   *)
(***************************************************************************)
EXTENDS Naturals, Sequences, FiniteSets

CONSTANTS
  Queries,       \* UDP queries, one task each
  Domains,       \* the names asked for
  Permits,       \* MAX_IN_FLIGHT_DNS_QUERIES
  OutCap,        \* capacity of the server's out channel
  MaxSessions    \* bound: WebSocket sessions

HandlerTimeout == 1    \* 5 s, run
ResolveTimeout == 1    \* 5 s, handle_connection
PendingTimeout == 2    \* 10 s, run_ws_session

VARIABLES
  task,      \* UDP task: "idle", "local", "wait", or the answer it sent
  dom,       \* the name it asked for
  waited,    \* age of its wait for the reply
  queue,     \* query channel, UDP tasks to manager
  reply,     \* replies in the oneshot channels
  link,      \* run_ws_manager: "down", "up"
  sessions,  \* sessions so far
  pending,   \* pending map of the session: query -> age
  cache,     \* names dns_resolver holds an answer for
  path,      \* whether the session's path carries frames
  up,        \* queries under way to the server
  job,       \* server task of each query
  resolving, \* age of its resolution
  lock,      \* holder of send_lock, or Empty
  sendN,     \* the server ratchet's next message number
  num,       \* the number a task has encrypted its response with
  out,       \* out channel, writer and wire: responses in order
  recvN      \* the client ratchet's next message number

vars == <<task, dom, waited, queue, reply, link, sessions, pending, cache, path,
          up, job, resolving, lock, sendN, num, out, recvN>>
udpVars    == <<task, dom, waited>>
serverVars == <<up, job, resolving, lock, sendN, num, out>>

Empty == "none"
Response == [q: Queries, ok: BOOLEAN, n: Nat]

TypeOK ==
  /\ task \in [Queries -> {"idle", "local", "wait", "answer", "nodata", "nxdomain",
                           "servfail"}]
  /\ dom \in [Queries -> Domains] /\ waited \in [Queries -> 0..HandlerTimeout]
  /\ queue \in Seq(Queries)
  /\ reply \in [Queries -> {Empty, "ok", "fail"}]
  /\ link \in {"down", "up"} /\ sessions \in 0..MaxSessions
  /\ pending \in [Queries -> 0..(PendingTimeout + 1)] /\ cache \subseteq Domains
  /\ path \in {"up", "dead"}
  /\ up \in Seq(Queries)
  /\ job \in [Queries -> {Empty, "resolve", "busy", "ok", "fail", "sendok", "sendfail",
                          "sendbusy"}]
  /\ resolving \in [Queries -> 0..ResolveTimeout] /\ lock \in Queries \cup {Empty}
  /\ sendN \in Nat /\ num \in [Queries -> Nat] /\ recvN \in Nat
  /\ out \in Seq(Response) /\ Len(out) <= OutCap

Init ==
  /\ task = [q \in Queries |-> "idle"] /\ dom \in [Queries -> Domains]
  /\ waited = [q \in Queries |-> 0] /\ queue = <<>>
  /\ reply = [q \in Queries |-> Empty]
  /\ link = "down" /\ sessions = 0 /\ pending = [q \in Queries |-> 0] /\ cache = {}
  /\ path = "dead" /\ up = <<>> /\ job = [q \in Queries |-> Empty]
  /\ resolving = [q \in Queries |-> 0] /\ lock = Empty /\ sendN = 0
  /\ num = [q \in Queries |-> 0] /\ out = <<>> /\ recvN = 0

----------------------------------------------------------------------------
(* A UDP task, spawned by run for each datagram.  pending[q] is 0 when the *)
(* query is not in the map, else 1 + its age.                              *)

(* A server host or a bypass domain, or a record type other than A and     *)
(* AAAA, is resolved locally; a blocked name and an AAAA question are      *)
(* answered at once; an A question from the cache, or through the tunnel.  *)
Arrive(q) ==
  /\ task[q] = "idle"
  /\ \/ /\ task' = [task EXCEPT ![q] = "local"] /\ UNCHANGED queue
     \/ /\ task' = [task EXCEPT ![q] = "nxdomain"] /\ UNCHANGED queue
     \/ /\ task' = [task EXCEPT ![q] = "nodata"] /\ UNCHANGED queue
     \/ /\ dom[q] \in cache
        /\ task' = [task EXCEPT ![q] = "answer"] /\ UNCHANGED queue
     \/ /\ dom[q] \notin cache
        /\ task' = [task EXCEPT ![q] = "wait"] /\ queue' = Append(queue, q)
  /\ UNCHANGED <<dom, waited, reply, link, sessions, pending, cache, path, serverVars,
                 recvN>>

(* resolve_locally: a bypass answer with A records is cached.              *)
LocalAnswer(q) ==
  /\ task[q] = "local"
  /\ \/ task' = [task EXCEPT ![q] = "servfail"] /\ UNCHANGED cache
     \/ /\ task' = [task EXCEPT ![q] = "answer"]
        /\ cache' \in {cache, cache \cup {dom[q]}}
  /\ UNCHANGED <<dom, waited, queue, reply, link, sessions, pending, path, serverVars,
                 recvN>>

(* The reply, or the end of the wait; anything but a success is SERVFAIL.  *)
TunnelAnswer(q) ==
  /\ task[q] = "wait"
  /\ \/ /\ reply[q] # Empty
        /\ task' = [task EXCEPT ![q] = IF reply[q] = "ok" THEN "answer" ELSE "servfail"]
     \/ /\ reply[q] = Empty /\ waited[q] = HandlerTimeout
        /\ task' = [task EXCEPT ![q] = "servfail"]
  /\ UNCHANGED <<dom, waited, queue, reply, link, sessions, pending, cache, path,
                 serverVars, recvN>>

----------------------------------------------------------------------------
(* The connection manager and its session.                                 *)

InMap(q) == pending[q] # 0

(* reply_tx.send(None) for a set of queries.                               *)
FailAll(qs) == reply' = [q \in Queries |-> IF q \in qs THEN "fail" ELSE reply[q]]

(* What a session leaves behind, at both ends: its server tasks go on but  *)
(* their channel is closed, so none of what they do is seen.               *)
Disconnected ==
  /\ link' = "down" /\ path' = "dead"
  /\ pending' = [q \in Queries |-> 0]
  /\ up' = <<>> /\ job' = [q \in Queries |-> Empty]
  /\ resolving' = [q \in Queries |-> 0] /\ lock' = Empty /\ sendN' = 0
  /\ num' = [q \in Queries |-> 0] /\ out' = <<>> /\ recvN' = 0

(* The back-off has passed and connect and handshake succeed; what queued  *)
(* up meanwhile is drained.  A failed attempt goes back to sleep.          *)
SessionStarts ==
  /\ link = "down" /\ sessions < MaxSessions
  /\ link' = "up" /\ path' = "up" /\ sessions' = sessions + 1
  /\ queue' = <<>> /\ FailAll({queue[i] : i \in DOMAIN queue})
  /\ UNCHANGED <<udpVars, pending, cache, serverVars, recvN>>

(* The next query is encrypted and sent; a send that fails drops it with   *)
(* the session and its pending queries (dropped senders read as failures). *)
SendQuery ==
  /\ link = "up" /\ queue # <<>>
  /\ LET q == Head(queue)
     IN  /\ queue' = Tail(queue)
         /\ pending' = [pending EXCEPT ![q] = 1]
         /\ up' = IF path = "up" THEN Append(up, q) ELSE up
  /\ UNCHANGED <<udpVars, reply, link, sessions, cache, path, job, resolving, lock,
                 sendN, num, out, recvN>>

SendFails ==
  /\ link = "up" /\ queue # <<>> /\ path = "dead"
  /\ queue' = Tail(queue)
  /\ FailAll({Head(queue)} \cup {q \in Queries : InMap(q)})
  /\ Disconnected
  /\ UNCHANGED <<udpVars, sessions, cache>>

(* A response arrives.  The ratchet refuses a number it has passed, and    *)
(* the frame is dropped; else the query leaves the map, a success is       *)
(* cached, and the reply goes to the task, which may be gone.              *)
Receive ==
  /\ link = "up" /\ path = "up" /\ out # <<>>
  /\ out' = Tail(out)
  /\ LET r == Head(out)
     IN  \/ /\ r.n < recvN
            /\ UNCHANGED <<pending, cache, reply, recvN>>
         \/ /\ r.n >= recvN /\ recvN' = r.n + 1
            /\ IF InMap(r.q)
               THEN /\ pending' = [pending EXCEPT ![r.q] = 0]
                    /\ cache' \in IF r.ok THEN {cache, cache \cup {dom[r.q]}} ELSE {cache}
                    /\ reply' = [reply EXCEPT ![r.q] = IF r.ok THEN "ok" ELSE "fail"]
               ELSE UNCHANGED <<pending, cache, reply>>
  /\ UNCHANGED <<udpVars, queue, link, sessions, path, up, job, resolving, lock, sendN,
                 num>>

Overdue(q) == InMap(q) /\ pending[q] - 1 >= PendingTimeout

(* check_interval: one query without an answer for too long fails them all *)
(* and ends the session.                                                   *)
Watchdog ==
  /\ link = "up" /\ \E q \in Queries : Overdue(q)
  /\ FailAll({q \in Queries : InMap(q)})
  /\ Disconnected
  /\ UNCHANGED <<udpVars, queue, sessions, cache>>

(* Mutant: the pending queries are dropped without a reply.                *)
SessionClosesSilently ==
  /\ link = "up" /\ path = "dead"
  /\ Disconnected
  /\ UNCHANGED <<udpVars, queue, reply, sessions, cache>>

(* Close, end of stream, or nothing read for 120 s, which pongs make       *)
(* impossible while the path works.                                        *)
SessionCloses ==
  /\ link = "up" /\ path = "dead"
  /\ FailAll({q \in Queries : InMap(q)})
  /\ Disconnected
  /\ UNCHANGED <<udpVars, queue, sessions, cache>>

----------------------------------------------------------------------------
(* The server's handle_connection.                                         *)

Holding == {q \in Queries : job[q] \in {"resolve", "ok", "fail", "sendok", "sendfail"}}

(* Mutant: a query that finds no permit is dropped.                        *)
AdmitOrDrop ==
  /\ path = "up" /\ up # <<>>
  /\ up' = Tail(up)
  /\ job' = [job EXCEPT ![Head(up)] = IF Cardinality(Holding) < Permits THEN "resolve" ELSE @]
  /\ UNCHANGED <<udpVars, queue, reply, link, sessions, pending, cache, path,
                 resolving, lock, sendN, num, out, recvN>>

(* The read loop decrypts a query and spawns its task, with a permit if    *)
(* one is left; without one the answer is "server busy".                   *)
Admit ==
  /\ path = "up" /\ up # <<>>
  /\ up' = Tail(up)
  /\ job' = [job EXCEPT ![Head(up)] =
               IF Cardinality(Holding) < Permits THEN "resolve" ELSE "busy"]
  /\ UNCHANGED <<udpVars, queue, reply, link, sessions, pending, cache, path,
                 resolving, lock, sendN, num, out, recvN>>

(* resolve_domain returns, or its timeout does.                            *)
Resolved(q) ==
  /\ job[q] = "resolve"
  /\ \/ job' = [job EXCEPT ![q] = "ok"] \/ job' = [job EXCEPT ![q] = "fail"]
  /\ UNCHANGED <<udpVars, queue, reply, link, sessions, pending, cache, path, up,
                 resolving, lock, sendN, num, out, recvN>>

Sending == [ok |-> "sendok", fail |-> "sendfail", busy |-> "sendbusy"]

(* Mutant: encrypted without waiting for send_lock.                        *)
EncryptUnlocked(q) ==
  /\ job[q] \in {"ok", "fail", "busy"}
  /\ lock' = q /\ sendN' = sendN + 1 /\ num' = [num EXCEPT ![q] = sendN]
  /\ job' = [job EXCEPT ![q] = Sending[job[q]]]
  /\ resolving' = [resolving EXCEPT ![q] = 0]
  /\ UNCHANGED <<udpVars, queue, reply, link, sessions, pending, cache, path, up, out,
                 recvN>>

(* send_encrypted_response: take send_lock and the next number, then       *)
(* enqueue, waiting for room, and let go.                                  *)
Encrypt(q) ==
  /\ job[q] \in {"ok", "fail", "busy"} /\ lock = Empty
  /\ lock' = q /\ sendN' = sendN + 1 /\ num' = [num EXCEPT ![q] = sendN]
  /\ job' = [job EXCEPT ![q] = Sending[job[q]]]
  /\ resolving' = [resolving EXCEPT ![q] = 0]
  /\ UNCHANGED <<udpVars, queue, reply, link, sessions, pending, cache, path, up, out,
                 recvN>>

Enqueue(q) ==
  /\ job[q] \in {"sendok", "sendfail", "sendbusy"} /\ Len(out) < OutCap
  /\ out' = Append(out, [q |-> q, ok |-> job[q] = "sendok", n |-> num[q]])
  /\ job' = [job EXCEPT ![q] = Empty] /\ num' = [num EXCEPT ![q] = 0] /\ lock' = Empty
  /\ UNCHANGED <<udpVars, queue, reply, link, sessions, pending, cache, path, up,
                 resolving, sendN, recvN>>

----------------------------------------------------------------------------
(* The path stops carrying frames; what was under way is lost.             *)
PathDies ==
  /\ link = "up" /\ path = "up" /\ path' = "dead"
  /\ up' = <<>> /\ out' = <<>>
  /\ UNCHANGED <<udpVars, queue, reply, link, sessions, pending, cache, job, resolving,
                 lock, sendN, num, recvN>>

(* The TTL of a cached answer runs out.                                    *)
CacheExpires(d) ==
  /\ d \in cache /\ cache' = cache \ {d}
  /\ UNCHANGED <<udpVars, queue, reply, link, sessions, pending, path, serverVars, recvN>>

(* What must happen before the clock moves: timers that have run out, and, *)
(* on a working path, messages and steps that only need the processor.     *)
NothingDue ==
  /\ \A q \in Queries : task[q] = "wait" => reply[q] = Empty /\ waited[q] < HandlerTimeout
  /\ \A q \in Queries : ~Overdue(q)
  /\ link = "up" => queue = <<>>
  /\ path = "up" => /\ up = <<>> /\ out = <<>>
                    /\ \A q \in Queries : job[q] \in {Empty, "resolve"}
                    /\ \A q \in Queries : job[q] = "resolve" => resolving[q] < ResolveTimeout

Tick ==
  /\ NothingDue
  /\ \E q \in Queries : task[q] = "wait" \/ InMap(q)
  /\ waited' = [q \in Queries |-> IF task[q] = "wait" THEN waited[q] + 1 ELSE waited[q]]
  /\ pending' = [q \in Queries |-> IF InMap(q) THEN pending[q] + 1 ELSE 0]
  /\ resolving' = [q \in Queries |->
                     IF path = "up" /\ job[q] = "resolve" THEN resolving[q] + 1
                                                          ELSE resolving[q]]
  /\ UNCHANGED <<task, dom, queue, reply, link, sessions, cache, path, up, job, lock,
                 sendN, num, out, recvN>>

Udp(q) == Arrive(q) \/ LocalAnswer(q) \/ TunnelAnswer(q)
Session == SendQuery \/ SendFails \/ Receive \/ Watchdog \/ SessionCloses
Server(q) == Resolved(q) \/ Encrypt(q) \/ Enqueue(q)

Next ==
  \/ \E q \in Queries : Udp(q)
  \/ SessionStarts \/ Session
  \/ Admit \/ \E q \in Queries : Server(q)
  \/ PathDies \/ \E d \in Domains : CacheExpires(d)
  \/ Tick

Spec == Init /\ [][Next]_vars

----------------------------------------------------------------------------
(* The send lock across encrypt and enqueue keeps the wire in the order of *)
(* the ratchet's numbers, however the per-query tasks interleave: no       *)
(* response reaches the client's ratchet as too old.                       *)
ResponsesInOrder ==
  \A i \in DOMAIN out : out[i].n >= recvN /\ \A j \in 1..(i - 1) : out[j].n < out[i].n

(* The server answers every query it has read, also when saturated, within *)
(* its five seconds: on a working path the client's watchdog never finds a *)
(* query ten seconds old, so it never takes a healthy session down.        *)
WatchdogSparesHealthy == path = "up" => \A q \in Queries : ~Overdue(q)

(* A query in the map of a working session is somewhere on its way: in the *)
(* uplink, in one server task, or in the responses, and in only one place. *)
EveryQueryInTransit ==
  path = "up" =>
    \A q \in Queries :
      InMap(q) =>
        Cardinality({i \in DOMAIN up : up[i] = q})
          + Cardinality({i \in DOMAIN out : out[i].q = q})
          + (IF job[q] # Empty THEN 1 ELSE 0) = 1

(* No task waits for a reply that nobody will send: it is queued for the   *)
(* session, in the map, or the reply is there; else its query was lost.    *)
NoQueryForgotten ==
  \A q \in Queries :
    task[q] = "wait" =>
      reply[q] # Empty \/ InMap(q) \/ \E i \in DOMAIN queue : queue[i] = q
=============================================================================

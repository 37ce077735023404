---------------------------- MODULE LegacyRelay ----------------------------
(***************************************************************************)
(* One flow in legacy mode, a WebSocket of its own: the client's relay     *)
(* (stream_relay.rs) over the helper tasks of websocket.rs, started by     *)
(* handle_tunnel_legacy, and the server's handle_websocket and relay_tcp   *)
(* (handler.rs).  Messages are "t", the target address, "d", data, "p", a  *)
(* ping, and "c", a WebSocket Close; the content is left to the ratchet.   *)
(* The path may go dead without telling anyone: then what is sent is lost, *)
(* and TCP reports it only to the end that sent something.                 *)
(***************************************************************************)
EXTENDS Naturals, Sequences, FiniteSets

CONSTANTS
  Loads,         \* pairs: chunks the application sends, chunks the target sends
  ChanCap,       \* every channel's capacity (256 and 100 in the code)
  WireCap,       \* messages TCP holds in one direction
  IdleTimeout    \* LEGACY_TCP_IDLE_TIMEOUT, in ticks

VARIABLES
  app, up,                \* the application's socket, chunks it has left
  crel, ctasks,           \* the client's relay and its running tasks
  closeSent,              \* a Close was queued by send_task
  helpers, stop,          \* websocket.rs tasks still running; their shutdown signal
  upQ, hold, inQ, outQ,   \* to the writer; what it is sending; from the reader; to write_task
  wireUp, wireDn, path,
  cUnacked, cErr, sUnacked, sErr,
  srel, stasks,           \* the server's handler and its running tasks
  chan, age,              \* target to WebSocket; time since the last data frame
  writing,                \* task 1 is inside target_write.write_all
  tgt, down               \* the target's socket, chunks it has left

appVars == <<app, up>>
relVars == <<crel, ctasks, closeSent>>
helpVars == <<helpers, stop>>
cQueues == <<upQ, hold, inQ, outQ>>
netVars == <<wireUp, wireDn, path, cUnacked, cErr, sUnacked, sErr>>
srvVars == <<srel, stasks, chan, age, writing>>
tgtVars == <<tgt, down>>
vars == <<appVars, relVars, helpVars, cQueues, netVars, srvVars, tgtVars>>

CTasks == {"send", "recv", "write"}
STasks == {"t1", "t2", "t3"}
Helpers == {"writer", "ping", "reader"}
Msgs == {"t", "d", "p", "c"}

TypeOK ==
  /\ app \in {"open", "eof", "reset"} /\ up \in Nat
  /\ crel \in {"relay", "closing", "stopping", "done"} /\ ctasks \subseteq CTasks
  /\ closeSent \in BOOLEAN /\ helpers \subseteq Helpers /\ stop \in BOOLEAN
  /\ \A q \in {upQ, inQ, outQ} : q \in Seq(Msgs) /\ Len(q) <= ChanCap
  /\ hold \in Msgs \cup {"none"}
  /\ wireUp \in Seq(Msgs) /\ wireDn \in Seq({"d", "c"}) /\ path \in {"ok", "dead"}
  /\ {cUnacked, cErr, sUnacked, sErr} \subseteq BOOLEAN
  /\ srel \in {"target", "relay", "closing", "done"} /\ stasks \subseteq STasks
  /\ chan \in Seq({"d"}) /\ Len(chan) <= ChanCap /\ age \in 0..(IdleTimeout + 1)
  /\ writing \in BOOLEAN
  /\ tgt \in {"open", "eof"} /\ down \in Nat

Init ==
  /\ app = "open" /\ \E load \in Loads : up = load[1] /\ down = load[2]
  /\ crel = "relay" /\ ctasks = CTasks /\ closeSent = FALSE
  /\ helpers = Helpers /\ stop = FALSE
  /\ upQ = <<"t">> /\ hold = "none" /\ inQ = <<>> /\ outQ = <<>>
  /\ wireUp = <<>> /\ wireDn = <<>> /\ path = "ok"
  /\ cUnacked = FALSE /\ cErr = FALSE /\ sUnacked = FALSE /\ sErr = FALSE
  /\ srel = "target" /\ stasks = {} /\ chan = <<>> /\ age = 0 /\ writing = FALSE
  /\ tgt = "open"

Room(q) == Len(q) < ChanCap

----------------------------------------------------------------------------
(* The client's relay.                                                     *)

(* send_task: data, end of file (which queues a Close), or an error.       *)
SendTask ==
  /\ "send" \in ctasks
  /\ \/ /\ app # "reset" /\ up > 0 /\ "writer" \in helpers /\ Room(upQ)
        /\ up' = up - 1 /\ upQ' = Append(upQ, "d")
        /\ UNCHANGED <<ctasks, closeSent>>
     \/ /\ app = "eof" /\ up = 0 /\ "writer" \in helpers /\ Room(upQ)
        /\ upQ' = Append(upQ, "c") /\ closeSent' = TRUE
        /\ ctasks' = ctasks \ {"send"} /\ UNCHANGED up
     \/ /\ app = "reset" \/ ("writer" \notin helpers /\ (up > 0 \/ app = "eof"))
        /\ ctasks' = ctasks \ {"send"} /\ UNCHANGED <<up, upQ, closeSent>>
  /\ UNCHANGED <<app, crel, helpVars, hold, inQ, outQ, netVars, srvVars, tgtVars>>

(* recv_task.                                                              *)
RecvTask ==
  /\ "recv" \in ctasks
  /\ \/ /\ inQ # <<>> /\ Head(inQ) = "d" /\ Room(outQ)
        /\ inQ' = Tail(inQ) /\ outQ' = Append(outQ, "d") /\ UNCHANGED ctasks
     \/ /\ \/ inQ # <<>> /\ Head(inQ) = "c"
           \/ inQ = <<>> /\ "reader" \notin helpers
        /\ ctasks' = ctasks \ {"recv"} /\ inQ' = <<>> /\ UNCHANGED outQ
  /\ UNCHANGED <<appVars, crel, closeSent, helpVars, upQ, hold, netVars, srvVars, tgtVars>>

(* write_task: local_write.write_all returns when the application reads,   *)
(* however long that takes, and fails when it has reset its socket.        *)
WriteTask ==
  /\ "write" \in ctasks /\ outQ # <<>> /\ app # "reset"
  /\ outQ' = Tail(outQ)
  /\ UNCHANGED <<appVars, relVars, helpVars, upQ, hold, inQ, netVars, srvVars, tgtVars>>

WriteFails ==
  /\ "write" \in ctasks /\ outQ # <<>> /\ app = "reset"
  /\ outQ' = Tail(outQ) /\ ctasks' = ctasks \ {"write"}
  /\ UNCHANGED <<appVars, crel, closeSent, helpVars, upQ, hold, inQ, netVars, srvVars, tgtVars>>

(* The first task to end takes the others with it, queued data included.   *)
RelayEnds ==
  /\ crel = "relay" /\ ctasks # CTasks
  /\ crel' = "closing" /\ ctasks' = {} /\ inQ' = <<>> /\ outQ' = <<>>
  /\ UNCHANGED <<appVars, closeSent, helpVars, upQ, hold, netVars, srvVars, tgtVars>>

(* Mutant: a Close on every exit path, whatever send_task did.             *)
SendCloseTwice ==
  /\ crel = "closing"
  /\ \/ "writer" \notin helpers /\ UNCHANGED upQ
     \/ "writer" \in helpers /\ Room(upQ) /\ upQ' = Append(upQ, "c")
  /\ crel' = "stopping" /\ stop' = TRUE
  /\ UNCHANGED <<appVars, ctasks, closeSent, helpers, hold, inQ, outQ, netVars, srvVars, tgtVars>>

(* A Close on every exit path, unless send_task has queued one; then the   *)
(* caller's ws_tasks.shutdown().                                           *)
SendClose ==
  /\ crel = "closing"
  /\ \/ (closeSent \/ "writer" \notin helpers) /\ UNCHANGED upQ
     \/ ~closeSent /\ "writer" \in helpers /\ Room(upQ) /\ upQ' = Append(upQ, "c")
  /\ crel' = "stopping" /\ stop' = TRUE
  /\ UNCHANGED <<appVars, ctasks, closeSent, helpers, hold, inQ, outQ, netVars, srvVars, tgtVars>>

(* The helpers have been joined and the socket is dropped.                 *)
ClientDone ==
  /\ crel = "stopping" /\ helpers = {}
  /\ crel' = "done"
  /\ UNCHANGED <<appVars, ctasks, closeSent, helpVars, cQueues, netVars, srvVars, tgtVars>>

----------------------------------------------------------------------------
(* The helper tasks of the client's WebSocket.                             *)

Exits(h) == helpers' = helpers \ {h}

(* The shutdown signal is seen between two messages, whatever is queued.   *)
HelperStops(h) ==
  /\ stop /\ h \in helpers
  /\ h = "writer" => hold = "none"
  /\ Exits(h)
  /\ upQ' = IF h = "writer" THEN <<>> ELSE upQ
  /\ UNCHANGED <<appVars, relVars, stop, hold, inQ, outQ, netVars, srvVars, tgtVars>>

Ping ==
  /\ "ping" \in helpers
  /\ \/ "writer" \in helpers /\ Room(upQ) /\ upQ' = Append(upQ, "p") /\ UNCHANGED helpers
     \/ "writer" \notin helpers /\ Exits("ping") /\ UNCHANGED upQ
  /\ UNCHANGED <<appVars, relVars, stop, hold, inQ, outQ, netVars, srvVars, tgtVars>>

WriterTakes ==
  /\ "writer" \in helpers /\ hold = "none" /\ upQ # <<>>
  /\ hold' = Head(upQ) /\ upQ' = Tail(upQ)
  /\ UNCHANGED <<appVars, relVars, helpVars, inQ, outQ, netVars, srvVars, tgtVars>>

ServerClosed == srel = "done" /\ path = "ok"
ClientClosed == crel = "done" /\ path = "ok"

WriterSends ==
  /\ "writer" \in helpers /\ hold # "none" /\ hold' = "none"
  /\ \/ (cErr \/ ServerClosed) /\ Exits("writer") /\ upQ' = <<>> /\ cErr' = TRUE
        /\ UNCHANGED <<wireUp, cUnacked>>
     \/ ~cErr /\ path = "dead" /\ cUnacked' = TRUE /\ UNCHANGED <<helpers, upQ, wireUp, cErr>>
     \/ /\ ~cErr /\ path = "ok" /\ srel # "done" /\ Len(wireUp) < WireCap
        /\ wireUp' = Append(wireUp, hold) /\ UNCHANGED <<helpers, upQ, cUnacked, cErr>>
  /\ UNCHANGED <<appVars, relVars, stop, inQ, outQ, wireDn, path, sUnacked, sErr,
                 srvVars, tgtVars>>

Reader ==
  /\ "reader" \in helpers
  /\ \/ /\ wireDn # <<>> /\ "recv" \in ctasks /\ Room(inQ)
        /\ inQ' = Append(inQ, Head(wireDn)) /\ wireDn' = Tail(wireDn) /\ UNCHANGED helpers
     \/ /\ wireDn # <<>> /\ "recv" \notin ctasks
        /\ Exits("reader") /\ wireDn' = Tail(wireDn) /\ UNCHANGED inQ
     \/ /\ wireDn = <<>> /\ (cErr \/ ServerClosed)
        /\ Exits("reader") /\ UNCHANGED <<inQ, wireDn>>
  /\ UNCHANGED <<appVars, relVars, stop, upQ, hold, outQ, wireUp, path, cUnacked, cErr,
                 sUnacked, sErr, srvVars, tgtVars>>

----------------------------------------------------------------------------
(* The server.                                                             *)

(* read_target_address and connect_to_target: the target is reached, or    *)
(* the handler returns and drops the socket without a Close.               *)
ReadTarget ==
  /\ srel = "target"
  /\ \/ /\ wireUp # <<>> /\ Head(wireUp) = "p"
        /\ wireUp' = Tail(wireUp) /\ UNCHANGED <<srel, stasks, age>>
     \/ /\ wireUp # <<>> /\ Head(wireUp) = "t"
        /\ wireUp' = Tail(wireUp)
        /\ \/ srel' = "relay" /\ stasks' = STasks /\ age' = 0
           \/ srel' = "done" /\ UNCHANGED <<stasks, age>>
     \/ /\ wireUp = <<>> \/ (wireUp # <<>> /\ Head(wireUp) = "c")  \* five seconds pass, or a Close
        /\ srel' = "done" /\ UNCHANGED <<wireUp, stasks, age>>
  /\ UNCHANGED <<appVars, relVars, helpVars, cQueues, wireDn, path, cUnacked, cErr, sUnacked,
                 sErr, chan, writing, tgtVars>>

(* Task 1 of relay_tcp: only a data frame counts as activity.              *)
WsToTarget ==
  /\ "t1" \in stasks /\ ~writing
  /\ \/ /\ wireUp # <<>> /\ wireUp' = Tail(wireUp)
        /\ \/ Head(wireUp) = "d" /\ age' = 0 /\ writing' = TRUE /\ UNCHANGED stasks
           \/ Head(wireUp) = "p" /\ UNCHANGED <<stasks, age, writing>>
           \/ Head(wireUp) = "c" /\ stasks' = stasks \ {"t1"} /\ UNCHANGED <<age, writing>>
     \/ /\ wireUp = <<>> /\ (ClientClosed \/ sErr)
        /\ stasks' = stasks \ {"t1"} /\ UNCHANGED <<wireUp, age, writing>>
  /\ UNCHANGED <<appVars, relVars, helpVars, cQueues, wireDn, path, cUnacked, cErr, sUnacked,
                 sErr, srel, chan, tgtVars>>

(* The write_all returns: when the target reads, however long that takes,  *)
(* or with an error when it has closed.                                    *)
WriteTarget ==
  /\ "t1" \in stasks /\ writing /\ writing' = FALSE
  /\ stasks' = IF tgt = "open" THEN stasks ELSE stasks \ {"t1"}
  /\ UNCHANGED <<appVars, relVars, helpVars, cQueues, netVars, srel, chan, age, tgtVars>>

(* Mutant: the idle check looks only at relays whose socket has failed.    *)
IdleCheckLate ==
  /\ "t1" \in stasks /\ ~writing /\ age > IdleTimeout /\ sErr
  /\ stasks' = stasks \ {"t1"}
  /\ UNCHANGED <<appVars, relVars, helpVars, cQueues, netVars, srel, chan, age, writing, tgtVars>>

(* The ticker's check: too long without a data frame.  The ticker is an    *)
(* arm of the loop that writes, so that it waits for a write to return.    *)
IdleCheck ==
  /\ "t1" \in stasks /\ ~writing /\ age > IdleTimeout
  /\ stasks' = stasks \ {"t1"}
  /\ UNCHANGED <<appVars, relVars, helpVars, cQueues, netVars, srel, chan, age, writing, tgtVars>>

(* Task 2: the target's data goes to task 3.                               *)
TargetToChan ==
  /\ "t2" \in stasks
  /\ \/ down > 0 /\ Room(chan) /\ chan' = Append(chan, "d") /\ down' = down - 1
        /\ UNCHANGED stasks
     \/ down = 0 /\ tgt = "eof" /\ stasks' = stasks \ {"t2"} /\ UNCHANGED <<chan, down>>
  /\ UNCHANGED <<appVars, relVars, helpVars, cQueues, netVars, srel, age, writing, tgt>>

(* Sending on the server's side of the socket.                             *)
Sends(m) ==
  \/ path = "dead" /\ ~sErr /\ sUnacked' = TRUE /\ UNCHANGED wireDn
  \/ path = "ok" /\ crel # "done" /\ Len(wireDn) < WireCap
     /\ wireDn' = Append(wireDn, m) /\ UNCHANGED sUnacked

SendFails == sErr \/ ClientClosed

(* Task 3.                                                                 *)
ChanToWs ==
  /\ "t3" \in stasks /\ chan # <<>> /\ chan' = Tail(chan)
  /\ \/ ~SendFails /\ Sends("d") /\ UNCHANGED stasks
     \/ SendFails /\ stasks' = stasks \ {"t3"} /\ UNCHANGED <<wireDn, sUnacked>>
  /\ UNCHANGED <<appVars, relVars, helpVars, cQueues, wireUp, path, cUnacked, cErr, sErr, srel,
                 age, writing, tgtVars>>

(* The first task to end aborts the others.                                *)
ServerRelayEnds ==
  /\ srel = "relay" /\ stasks # STasks
  /\ srel' = "closing" /\ stasks' = {} /\ chan' = <<>> /\ writing' = FALSE
  /\ UNCHANGED <<appVars, relVars, helpVars, cQueues, netVars, age, tgtVars>>

ServerSendsClose ==
  /\ srel = "closing" /\ srel' = "done"
  /\ \/ ~SendFails /\ Sends("c")
     \/ SendFails /\ UNCHANGED <<wireDn, sUnacked>>
  /\ UNCHANGED <<appVars, relVars, helpVars, cQueues, wireUp, path, cUnacked, cErr, sErr, stasks,
                 chan, age, writing, tgtVars>>

----------------------------------------------------------------------------
(* The application, the target, the network and the clock.                 *)
AppCloses ==
  /\ app = "open" /\ \E r \in {"eof", "reset"} : app' = r
  /\ UNCHANGED <<up, relVars, helpVars, cQueues, netVars, srvVars, tgtVars>>

TargetCloses ==
  /\ tgt = "open" /\ tgt' = "eof"
  /\ UNCHANGED <<appVars, relVars, helpVars, cQueues, netVars, srvVars, down>>

PathDies ==
  /\ path = "ok" /\ path' = "dead" /\ wireUp' = <<>> /\ wireDn' = <<>>
  /\ UNCHANGED <<appVars, relVars, helpVars, cQueues, cUnacked, cErr, sUnacked, sErr, srvVars,
                 tgtVars>>

TcpGivesUp ==
  /\ path = "dead"
  /\ \/ cUnacked /\ ~cErr /\ cErr' = TRUE /\ UNCHANGED sErr
     \/ sUnacked /\ ~sErr /\ sErr' = TRUE /\ UNCHANGED cErr
  /\ UNCHANGED <<appVars, relVars, helpVars, cQueues, wireUp, wireDn, path, cUnacked, sUnacked,
                 srvVars, tgtVars>>

Tick ==
  /\ srel = "relay" /\ age <= IdleTimeout /\ age' = age + 1
  /\ UNCHANGED <<appVars, relVars, helpVars, cQueues, netVars, srel, stasks, chan, writing, tgtVars>>

ClientStep ==
  SendTask \/ RecvTask \/ WriteTask \/ WriteFails \/ RelayEnds \/ SendClose \/ ClientDone
HelperStep == Ping \/ WriterTakes \/ WriterSends \/ Reader \/ \E h \in Helpers : HelperStops(h)
ServerStep ==
  ReadTarget \/ WsToTarget \/ WriteTarget \/ IdleCheck \/ TargetToChan \/ ChanToWs \/ ServerRelayEnds
  \/ ServerSendsClose

Next ==
  \/ ClientStep \/ HelperStep \/ ServerStep
  \/ AppCloses \/ TargetCloses \/ PathDies \/ TcpGivesUp \/ Tick

Spec == Init /\ [][Next]_vars

(* Steps a flow takes finitely often: weak fairness of all of them at once *)
(* is weak fairness of each.                                               *)
Finite ==
  \/ RecvTask \/ WriteFails \/ RelayEnds \/ ClientDone \/ Reader
  \/ IdleCheck \/ TargetToChan \/ ChanToWs \/ ServerRelayEnds \/ ServerSendsClose
  \/ TcpGivesUp \/ Tick

Waiting == SendTask \/ SendClose \/ \E h \in Helpers : HelperStops(h)

(* Every task is polled when it can move; a write to the application or to *)
(* the target has no timeout and no fairness.  A send that waits for room in a *)
(* channel is served before later ones (tokio's semaphore is a queue and a *)
(* ping only tries), hence strong fairness where the ping task competes;   *)
(* select! is fair between its arms, hence strong fairness of the stop.    *)
Fairness ==
  /\ SF_vars(Waiting) /\ WF_vars(Finite)
  /\ WF_vars(Ping) /\ WF_vars(WriterTakes) /\ WF_vars(WriterSends)
  /\ WF_vars(ReadTarget) /\ WF_vars(WsToTarget)

FairSpec == Spec /\ Fairness

----------------------------------------------------------------------------
AfterClose(q) == \A i, j \in 1..Len(q) : i < j /\ q[i] = "c" => q[j] = "p"

(* The WebSocket library rejects what follows a Close: behind the Close    *)
(* the relay queues no data and no second Close, from whichever of its two *)
(* places it came.                                                         *)
CloseIsLast == AfterClose(wireUp \o (IF hold = "none" THEN <<>> ELSE <<hold>>) \o upQ)

Gone == app # "open" \/ tgt = "eof" \/ path = "dead"
Over == crel = "done" /\ srel = "done"

(* Both ends are shutting down and each waits for the other to read: the   *)
(* client joins its writer, which is in the middle of a send, the server   *)
(* sends its Close, and neither reads any more.                            *)
Jammed ==
  /\ crel = "stopping" /\ srel = "closing" /\ path = "ok"
  /\ hold # "none" /\ Len(wireUp) = WireCap /\ Len(wireDn) = WireCap

(* No write_all, to the target or to the application, is parked for good.  *)
WritesReturn == []<>~writing /\ []<>(outQ = <<>>)

(* While the writes to the target and to the application return, the only  *)
(* thing that can keep a flow whose application, target or path is gone is *)
(* a TCP connection full in both directions: neither the pings, which go   *)
(* on until the client's helpers stop, nor a dead path, which reports      *)
(* nothing to an end that only listens, does.                              *)
FlowEndsOrJams == WritesReturn => (Gone ~> (Over \/ Jammed))
=============================================================================

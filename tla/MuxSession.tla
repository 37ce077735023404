----------------------------- MODULE MuxSession -----------------------------
(***************************************************************************)
(* The receive side of a server session: MultiplexerSession::run of        *)
(* rvpn-server, which decrypts one message at a time and dispatches its    *)
(* frames in order to the session's flows or, in TUN mode, to the device.  *)
(* MuxFlow follows one flow end to end; this module follows several        *)
(* through the one loop that serves them all, which awaits the connect of  *)
(* each CreateFlow and the bounded control channel.                        *)
(*                                                                         *)
(* A payload is its number among the payloads of its flow.                 *)
(***************************************************************************)
EXTENDS Naturals, SequencesExt, FiniteSetsExt

CONSTANTS
    Flows,      \* the flow ids the client uses, each once (next_flow_id)
    MaxFlows,   \* MAX_FLOWS_PER_SESSION
    MaxFlush,   \* MAX_FLUSH_FRAMES
    QueueCap,   \* FLOW_UPLINK_QUEUE_CAP
    ControlCap, \* CONTROL_CHANNEL_CAP
    Talkers,    \* the flows whose applications send data
    MaxData,    \* bound: data frames of a talker
    MaxPackets, \* bound: packets of a TUN client
    WireCap     \* bound: messages under way

DataOf(f) == IF f \in Talkers THEN MaxData ELSE 0

VARIABLES
    tun,      \* tun_config.enabled: the client uses the TUN path
    session,  \* "run", "ended"
    sent,     \* frames the client has sent of each flow: CreateFlow, data, CloseFlow
    closed,   \* the flows it has closed
    packets,  \* what the TUN client has sent: TRUE is an IP packet
    wire,     \* messages under way, each a sequence of frames
    todo,     \* frames of the current message not dispatched yet
    step,     \* where the loop awaits: <<"next">>, <<"connect", f>>, ...
    flows,    \* FlowMap
    relay, writer, \* the tasks of each flow: "none", "run", "closing", "over"
    pending,  \* pending_flows
    queue,    \* to_target: the uplink queue of each flow
    written,  \* what the target of each flow has been sent
    control,  \* messages in the control channel
    device,   \* packets written to the TUN device
    refused   \* packets whose write to the device failed

client == <<sent, closed, packets>>
tasks == <<relay, writer, queue, written>>
vars == <<tun, session, client, wire, todo, step, flows, tasks, pending, control,
          device, refused>>

Frames == {<<k, f>> : k \in {"create", "close"}, f \in Flows} \cup
          UNION {{<<"data", f, n>> : n \in 1..DataOf(f)} : f \in Flows} \cup
          {<<"packet", ok>> : ok \in BOOLEAN}
Steps == {<<"next">>} \cup {<<k, f>> : k \in {"connect", "store", "reply", "flush"}, f \in Flows}

Init ==
    /\ tun \in BOOLEAN
    /\ session = "run" /\ wire = <<>> /\ todo = <<>> /\ step = <<"next">>
    /\ sent = [f \in Flows |-> 0] /\ closed = {} /\ packets = <<>>
    /\ flows = {} /\ control = 0 /\ device = 0 /\ refused = 0
    /\ relay = [f \in Flows |-> "none"] /\ writer = [f \in Flows |-> "none"]
    /\ pending = [f \in Flows |-> <<>>] /\ queue = [f \in Flows |-> <<>>]
    /\ written = [f \in Flows |-> <<>>]
-----------------------------------------------------------------------------
(* The client.  Socks5Tunnel sends one frame a message and does not wait   *)
(* for FlowCreated; a mobile session batches packets.                      *)

Transmit(message) ==
    /\ session = "run" /\ Len(wire) < WireCap
    /\ wire' = Append(wire, message)
    /\ UNCHANGED <<tun, session, todo, step, flows, tasks, pending, control, device, refused>>

ClientSends(f) ==
    /\ ~tun /\ f \notin closed /\ sent[f] <= DataOf(f)
    /\ Transmit(<<IF sent[f] = 0 THEN <<"create", f>> ELSE <<"data", f, sent[f]>>>>)
    /\ sent' = [sent EXCEPT ![f] = @ + 1]
    /\ UNCHANGED <<closed, packets>>

ClientCloses(f) ==
    /\ sent[f] > 0 /\ f \notin closed
    /\ Transmit(<<<<"close", f>>>>)
    /\ closed' = closed \cup {f}
    /\ UNCHANGED <<sent, packets>>

ClientBatch(oks) ==
    /\ tun /\ Len(packets) + Len(oks) <= MaxPackets
    /\ Transmit([i \in 1..Len(oks) |-> <<"packet", oks[i]>>])
    /\ packets' = packets \o oks
    /\ UNCHANGED <<sent, closed>>
-----------------------------------------------------------------------------
(* The loop takes the next message only when every frame of the last has   *)
(* been dispatched, and dispatches nothing while it awaits.                *)

\* The connect of a CreateFlow runs beside the loop.
FreeWhileConnecting == session = "run" /\ step[1] \in {"next", "connect"}

Free == session = "run" /\ step[1] = "next"

DecryptAndParse ==
    /\ Free /\ todo = <<>> /\ wire # <<>>
    /\ todo' = Head(wire) /\ wire' = Tail(wire)
    /\ UNCHANGED <<tun, session, client, step, flows, tasks, pending, control, device, refused>>

Dispatching(kind) == Free /\ todo # <<>> /\ Head(todo)[1] = kind
Subject == Head(todo)[2]

\* remove_flow forgets to abort the flow's tasks.
RemoveFlowOnly(f) ==
    /\ flows' = flows \ {f}
    /\ UNCHANGED <<relay, writer>>

\* remove_flow: the entry and, with it, both tasks.
RemoveFlow(f) ==
    /\ flows' = flows \ {f}
    /\ IF f \in flows
       THEN /\ relay' = [relay EXCEPT ![f] = "over"]
            /\ writer' = [writer EXCEPT ![f] = "over"]
       ELSE UNCHANGED <<relay, writer>>

\* The limit admits one flow too many.
CreateFlowAtLimit ==
    /\ Dispatching("create")
    /\ step' = <<IF Cardinality(flows) > MaxFlows THEN "reply" ELSE "connect", Subject>>
    /\ todo' = Tail(todo)
    /\ UNCHANGED <<tun, session, client, wire, flows, tasks, pending, control, device, refused>>

\* The limit is checked against the flows in the map.
CreateFlow ==
    /\ Dispatching("create")
    /\ step' = <<IF Cardinality(flows) >= MaxFlows THEN "reply" ELSE "connect", Subject>>
    /\ todo' = Tail(todo)
    /\ UNCHANGED <<tun, session, client, wire, flows, tasks, pending, control, device, refused>>

\* connect_with_dns_cache fails: the frame is given up, the loop goes on.
ConnectFails ==
    /\ session = "run" /\ step[1] = "connect"
    /\ step' = <<"next">>
    /\ UNCHANGED <<tun, session, client, wire, todo, flows, tasks, pending, control, device, refused>>

\* Both tasks are spawned before the flow is in the map.
SpawnTasks ==
    /\ session = "run" /\ step[1] = "connect"
    /\ relay' = [relay EXCEPT ![step[2]] = "run"]
    /\ writer' = [writer EXCEPT ![step[2]] = "run"]
    /\ step' = <<"store", step[2]>>
    /\ UNCHANGED <<tun, session, client, wire, todo, flows, queue, written, pending, control, device, refused>>

StoreFlow ==
    /\ session = "run" /\ step[1] = "store"
    /\ flows' = flows \cup {step[2]}
    /\ step' = <<"flush", step[2]>>
    /\ UNCHANGED <<tun, session, client, wire, todo, tasks, pending, control, device, refused>>

Room == control < ControlCap

\* handle_flow_data waits for room in the uplink queue.
EnqueueWaiting(f, payloads) ==
    /\ Len(queue[f] \o payloads) <= QueueCap
    /\ queue' = [queue EXCEPT ![f] = @ \o payloads]
    /\ step' = <<"next">>
    /\ UNCHANGED <<flows, relay, writer>>

\* handle_flow_data for each payload: a full queue closes the flow, a queue
\* whose writer has gone takes nothing more.
Enqueue(f, payloads) ==
    IF Len(queue[f] \o payloads) <= QueueCap \/ writer[f] # "run"
    THEN /\ queue' = IF writer[f] = "run" THEN [queue EXCEPT ![f] = @ \o payloads] ELSE queue
         /\ step' = <<"next">>
         /\ UNCHANGED <<flows, relay, writer>>
    ELSE /\ RemoveFlow(f)
         /\ queue' = [queue EXCEPT ![f] = <<>>]
         /\ step' = <<"reply", f>>

\* FlowCreated, then what arrived before the flow.
Flush ==
    /\ session = "run" /\ step[1] = "flush" /\ Room
    /\ control' = control + 1
    /\ LET f == step[2] IN
       /\ pending' = [pending EXCEPT ![f] = <<>>]
       /\ IF f \in flows /\ pending[f] # <<>>
          THEN Enqueue(f, SubSeq(pending[f], 1, Min({MaxFlush, Len(pending[f])})))
          ELSE step' = <<"next">> /\ UNCHANGED <<flows, relay, writer, queue>>
    /\ UNCHANGED <<tun, session, client, wire, todo, written, device, refused>>

\* FlowFailed at the limit, CloseFlow for a full queue.
Reply ==
    /\ session = "run" /\ step[1] = "reply" /\ Room
    /\ control' = control + 1 /\ step' = <<"next">>
    /\ UNCHANGED <<tun, session, client, wire, todo, flows, tasks, pending, device, refused>>

DispatchData ==
    /\ Dispatching("data")
    /\ todo' = Tail(todo)
    /\ IF Subject \in flows
       THEN Enqueue(Subject, <<Head(todo)[3]>>) /\ UNCHANGED pending
       ELSE /\ pending' = [pending EXCEPT ![Subject] = Append(@, Head(todo)[3])]
            /\ UNCHANGED <<step, flows, relay, writer, queue>>
    /\ UNCHANGED <<tun, session, client, wire, written, control, device, refused>>

CloseFlow ==
    /\ Dispatching("close")
    /\ RemoveFlow(Subject)
    /\ queue' = [queue EXCEPT ![Subject] = <<>>]
    /\ todo' = Tail(todo)
    /\ UNCHANGED <<tun, session, client, wire, step, written, pending, control, device, refused>>

\* write_to_tun takes the packet or fails.
Written(ok) ==
    /\ device' = IF ok THEN device + 1 ELSE device
    /\ refused' = IF ok THEN refused ELSE refused + 1

\* A frame that cannot be dispatched takes the rest of its message with it.
WriteToTunOrDropBatch ==
    /\ Dispatching("packet")
    /\ \/ ~Subject /\ todo' = <<>> /\ UNCHANGED <<device, refused>>
       \/ Subject /\ Written(TRUE) /\ todo' = Tail(todo)
       \/ Subject /\ Written(FALSE) /\ todo' = <<>>
    /\ UNCHANGED <<tun, session, client, wire, step, flows, tasks, pending, control>>

\* A packet without a source address, or one the device refuses, is an error
\* of its frame only.
WriteToTun ==
    /\ Dispatching("packet") /\ todo' = Tail(todo)
    /\ \/ ~Subject /\ UNCHANGED <<device, refused>>
       \/ Subject /\ \E ok \in BOOLEAN : Written(ok)
    /\ UNCHANGED <<tun, session, client, wire, step, flows, tasks, pending, control>>
-----------------------------------------------------------------------------
(* The other tasks of the session. *)

\* A write to the target and the WindowUpdate for it.
WriterWrites(f) ==
    /\ writer[f] = "run" /\ queue[f] # <<>> /\ session = "run" /\ Room
    /\ written' = [written EXCEPT ![f] = Append(@, Head(queue[f]))]
    /\ queue' = [queue EXCEPT ![f] = Tail(@)]
    /\ control' = control + 1
    /\ UNCHANGED <<tun, session, client, wire, todo, step, flows, relay, writer, pending, device, refused>>

\* The target closes: the relay detaches the flow and aborts the writer, if
\* the flow is in the map by then.
RelayEof(f) ==
    /\ relay[f] = "run"
    /\ relay' = [relay EXCEPT ![f] = "closing"]
    /\ flows' = flows \ {f}
    /\ writer' = IF f \in flows THEN [writer EXCEPT ![f] = "over"] ELSE writer
    /\ UNCHANGED <<tun, session, client, wire, todo, step, queue, written, pending, control, device, refused>>

\* A write to the target fails: the same from the writer's side.
WriteFails(f) ==
    /\ writer[f] = "run" /\ queue[f] # <<>>
    /\ flows' = flows \ {f}
    /\ writer' = [writer EXCEPT ![f] = IF f \in flows THEN "closing" ELSE "over"]
    /\ relay' = IF f \in flows THEN [relay EXCEPT ![f] = "over"] ELSE relay
    /\ queue' = [queue EXCEPT ![f] = <<>>]
    /\ UNCHANGED <<tun, session, client, wire, todo, step, written, pending, control, device, refused>>

\* A task that detached its flow sends CloseFlow, which fails at once when the
\* session has gone.
TaskCloses(f) ==
    /\ \/ /\ relay[f] = "closing"
          /\ relay' = [relay EXCEPT ![f] = "over"] /\ UNCHANGED writer
       \/ /\ writer[f] = "closing"
          /\ writer' = [writer EXCEPT ![f] = "over"] /\ UNCHANGED relay
    /\ IF session = "run" THEN Room /\ control' = control + 1 ELSE UNCHANGED control
    /\ UNCHANGED <<tun, session, client, wire, todo, step, flows, queue, written, pending, device, refused>>

SenderTakes ==
    /\ session = "run" /\ control > 0
    /\ control' = control - 1
    /\ UNCHANGED <<tun, session, client, wire, todo, step, flows, tasks, pending, device, refused>>

\* One of the session's tasks ends, wherever the loop is: the loop is dropped
\* at its await, then every flow of the map is aborted.
SessionEnds ==
    /\ session = "run"
    /\ session' = "ended" /\ flows' = {}
    /\ relay' = [f \in Flows |-> IF f \in flows THEN "over" ELSE relay[f]]
    /\ writer' = [f \in Flows |-> IF f \in flows THEN "over" ELSE writer[f]]
    /\ control' = 0 /\ wire' = <<>> /\ todo' = <<>>
    /\ UNCHANGED <<tun, client, step, queue, written, pending, device, refused>>

\* A writer whose flow was never stored loses its only sender.
WriterLosesSender(f) ==
    /\ session = "ended" /\ writer[f] = "run"
    /\ writer' = [writer EXCEPT ![f] = "over"]
    /\ UNCHANGED <<tun, session, client, wire, todo, step, flows, relay, queue, written, pending,
                   control, device, refused>>

Loop ==
    \/ DecryptAndParse \/ CreateFlow \/ ConnectFails \/ SpawnTasks \/ StoreFlow \/ Flush
    \/ Reply \/ DispatchData \/ CloseFlow \/ WriteToTun

Client ==
    \/ \E f \in Flows : ClientSends(f) \/ ClientCloses(f)
    \/ \E oks \in SeqOf(BOOLEAN, 2) \ {<<>>} : ClientBatch(oks)

Next ==
    \/ Client \/ Loop \/ SenderTakes \/ SessionEnds
    \/ \E f \in Flows : \/ WriterWrites(f) \/ RelayEof(f) \/ WriteFails(f) \/ TaskCloses(f)
                        \/ WriterLosesSender(f)

Spec == Init /\ [][Next]_vars

(* The loop runs; a connect attempt has a timeout; the sender runs, for    *)
(* the client reads its socket.  Nothing is assumed of the targets, which  *)
(* may never read.                                                         *)
Fairness == WF_vars(Loop) /\ WF_vars(SenderTakes)

FairSpec == Spec /\ Fairness
-----------------------------------------------------------------------------
TypeOK ==
    /\ tun \in BOOLEAN /\ session \in {"run", "ended"}
    /\ (\A f \in Flows : sent[f] \in 0..DataOf(f) + 1) /\ closed \subseteq Flows
    /\ packets \in Seq(BOOLEAN) /\ todo \in Seq(Frames) /\ wire \in Seq(Seq(Frames))
    /\ step \in Steps /\ flows \subseteq Flows
    /\ \A f \in Flows : /\ {relay[f], writer[f]} \subseteq {"none", "run", "closing", "over"}
                        /\ Len(queue[f]) <= QueueCap
    /\ control \in 0..ControlCap /\ {device, refused} \subseteq Nat

(***************************************************************************)
(* A target receives a prefix of what its client sent: handle_control      *)
(* awaits the connect of a CreateFlow in the receive loop, so that no data *)
(* of the flow passes through the pending buffer, whose flush keeps        *)
(* MAX_FLUSH_FRAMES frames and drops the rest of a TCP stream.             *)
(***************************************************************************)
UplinkIsPrefix ==
    \A f \in Flows : LET stream == written[f] \o queue[f]
                     IN  \A i \in 1..Len(stream) : stream[i] = i

(***************************************************************************)
(* While its session runs, a running task of a flow is in reach of it,     *)
(* whichever of the loop and the two tasks comes first: its flow is in the *)
(* map, where remove_flow finds it, or the loop is about to store it.      *)
(***************************************************************************)
TasksInReach ==
    \A f \in Flows :
      session = "run" /\ (relay[f] = "run" \/ writer[f] = "run")
        => f \in flows \/ step = <<"store", f>>

(***************************************************************************)
(* A session never has more than MAX_FLOWS_PER_SESSION flows, though the   *)
(* limit is checked a connect and two locks before the flow is stored.     *)
(***************************************************************************)
FlowsBounded == Cardinality(flows) <= MaxFlows

(***************************************************************************)
(* Every IP packet of a batch is offered to the device, whatever the       *)
(* frames before it were and whatever the device did with them: a dispatch *)
(* error is logged and the batch goes on.                                  *)
(***************************************************************************)
PacketsConserved ==
    LET Packets(frames) == Cardinality({i \in 1..Len(frames) : frames[i] = <<"packet", TRUE>>})
    IN  session = "run" =>
          device + refused + Packets(todo) + Packets(FlattenSeq(wire))
            = Cardinality({i \in 1..Len(packets) : packets[i]})

(***************************************************************************)
(* No target holds up the session: whatever is under way is dispatched,    *)
(* though targets may never read, because a full uplink queue closes its   *)
(* flow instead of blocking the receive loop (handle_flow_data).           *)
(***************************************************************************)
NoHeadOfLineBlocking ==
    []<>(session = "run" => wire = <<>> /\ todo = <<>> /\ step = <<"next">>)
-----------------------------------------------------------------------------
(* What a comment of the code says and the code does not do.               *)

(***************************************************************************)
(* handle_control: "every removal path (CloseFlow, over-send, teardown)    *)
(* aborts them with the flow via remove_flow": no relay of a flow outlives *)
(* its session.  One that was spawned but not stored yet when another task *)
(* of the session ended does.                                              *)
(***************************************************************************)
RelaysEndWithSession == session = "ended" => \A f \in Flows : relay[f] # "run"
=============================================================================

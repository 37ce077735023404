------------------------------- MODULE MuxFlow -------------------------------
(***************************************************************************)
(* One flow of a multiplexed tunnel, from the local application to the     *)
(* target and back: Socks5Tunnel and handle_multiplexed_connection in      *)
(* rvpn-client, MultiplexerSession in rvpn-server, and the two directions  *)
(* of the WebSocket between them (SendPath shows that these keep order).   *)
(*                                                                         *)
(* Payloads are abstracted to their number of bytes.  The credit gates are *)
(* counters here; FlowSendCredits shows that they behave as such.          *)
(***************************************************************************)
EXTENDS Naturals, Sequences

CONSTANTS
    Window,     \* INITIAL_FLOW_WINDOW
    MaxFrame,   \* the largest payload of a frame
    QueueCap,   \* messages a per-flow queue holds, on either side
    UpBytes,    \* bound: bytes the application sends
    DownBytes   \* bound: bytes the target sends

ASSUME MuxFlowAssumption ==
    /\ Window \in Nat \ {0} /\ MaxFrame \in Nat \ {0} /\ QueueCap \in Nat \ {0}
    /\ UpBytes \in Nat /\ DownBytes \in Nat

VARIABLES
    conn,      \* handle_multiplexed_connection
    hand,      \* bytes read from the application, not yet queued
    flow,      \* the FlowState of flow_states: "none", "in", "out"
    to_ws,     \* local_to_ws channel
    to_local,  \* ws_to_local channel
    loop,      \* flow_to_ws_loop
    rest,      \* its carried-over chunk
    credits,   \* uplink send credits, at the client
    up,        \* frames on the way to the server
    create,    \* handle_control on this flow's CreateFlow
    entry,     \* the ServerFlow in the flow map: "none", "in", "out"
    relay, writer,    \* the flow's tasks
    to_target, \* uplink queue of the flow
    granted,   \* downlink send credits, at the server
    control, data,    \* the session's control and data channels
    down,      \* frames on the way to the client
    sent, received,   \* bytes read from the application and the target
    written, delivered, \* bytes written to the target and the application
    early, overflow   \* downlink bytes dropped: no state yet, channel full

client == <<conn, hand, flow, to_ws, to_local, loop, rest, credits>>
server == <<create, entry, relay, writer, to_target, granted>>
queues == <<control, data>>
counts == <<sent, received, written, delivered, early, overflow>>
vars == <<client, up, server, queues, down, counts>>

Frames == [type : {"Create", "Created", "Data", "Credit", "Close"}, n : 0..Window + MaxFrame]
Msg(type, n) == [type |-> type, n |-> n]

TypeOK ==
    /\ conn \in {"new", "created", "open", "pushing", "closing", "finished", "closed"}
    /\ hand \in 0..MaxFrame /\ rest \in 0..MaxFrame
    /\ flow \in {"none", "in", "out"} /\ entry \in {"none", "in", "out"}
    /\ to_ws \in Seq(1..MaxFrame) /\ to_local \in Seq(1..MaxFrame)
    /\ to_target \in Seq(1..MaxFrame)
    /\ Len(to_ws) <= QueueCap /\ Len(to_local) <= QueueCap /\ Len(to_target) <= QueueCap
    /\ loop \in {"none", "run", "parked", "stalled", "ended"}
    /\ credits \in 0..Window /\ granted \in 0..Window
    /\ create \in {"none", "connecting", "spawned", "done", "failed"}
    /\ relay \in {"none", "run", "ended"} /\ writer \in {"none", "run", "ended"}
    /\ \A q \in {up, control, data, down} : q \in Seq(Frames)
    /\ sent \in 0..UpBytes /\ written \in 0..UpBytes
    /\ {received, delivered, early, overflow} \subseteq 0..DownBytes

Init ==
    /\ conn = "new" /\ hand = 0 /\ flow = "none" /\ to_ws = <<>> /\ to_local = <<>>
    /\ loop = "none" /\ rest = 0 /\ credits = Window
    /\ up = <<>> /\ down = <<>> /\ control = <<>> /\ data = <<>>
    /\ create = "none" /\ entry = "none" /\ relay = "none" /\ writer = "none"
    /\ to_target = <<>> /\ granted = Window
    /\ sent = 0 /\ received = 0 /\ written = 0 /\ delivered = 0
    /\ early = 0 /\ overflow = 0

Smaller(a, b) == IF a < b THEN a ELSE b
Alive == conn \in {"new", "created", "open", "pushing"}
-----------------------------------------------------------------------------
(* The client: open_flow. *)

SendCreate ==
    /\ conn = "new"
    /\ conn' = "created"
    /\ up' = Append(up, Msg("Create", 0))
    /\ UNCHANGED <<hand, flow, to_ws, to_local, loop, rest, credits,
                   server, queues, down, counts>>

InsertState ==
    /\ conn = "created"
    /\ conn' = "open" /\ flow' = "in" /\ loop' = "run"
    /\ UNCHANGED <<hand, to_ws, to_local, rest, credits, up, server, queues, down, counts>>
-----------------------------------------------------------------------------
(* The client: the relay of handle_multiplexed_connection. *)

ReadApp(n) ==
    /\ conn = "open" /\ sent + n <= UpBytes
    /\ conn' = "pushing" /\ hand' = n /\ sent' = sent + n
    /\ UNCHANGED <<flow, to_ws, to_local, loop, rest, credits, up, server, queues, down,
                   received, written, delivered, early, overflow>>

\* The local_to_ws channel has no bound.
PushUnbounded ==
    /\ conn = "pushing"
    /\ conn' = "open" /\ to_ws' = Append(to_ws, hand) /\ hand' = 0
    /\ UNCHANGED <<flow, to_local, loop, rest, credits, up, server, queues, down, counts>>

\* send_tx.send: waits for room, fails once flow_to_ws_loop has ended.
Push ==
    /\ conn = "pushing"
    /\ IF loop \in {"stalled", "ended"}
       THEN conn' = "closing" /\ UNCHANGED to_ws
       ELSE /\ Len(to_ws) < QueueCap
            /\ conn' = "open" /\ to_ws' = Append(to_ws, hand)
    /\ hand' = 0
    /\ UNCHANGED <<flow, to_local, loop, rest, credits, up, server, queues, down, counts>>

\* The grant for bytes handed to the application is forgotten.
WriteAppUngranted ==
    /\ conn = "open" /\ to_local # <<>>
    /\ to_local' = Tail(to_local) /\ delivered' = delivered + Head(to_local)
    /\ UNCHANGED <<conn, hand, flow, to_ws, loop, rest, credits, up, server, queues, down,
                   sent, received, written, early, overflow>>

\* Bytes handed to the application are granted back.
WriteApp ==
    /\ conn = "open" /\ to_local # <<>>
    /\ to_local' = Tail(to_local) /\ delivered' = delivered + Head(to_local)
    /\ up' = Append(up, Msg("Credit", Head(to_local)))
    /\ UNCHANGED <<conn, hand, flow, to_ws, loop, rest, credits, server, queues, down,
                   sent, received, written, early, overflow>>

\* The relay loop goes on when recv returns None.
ChannelIgnored ==
    /\ conn = "open" /\ flow = "out" /\ to_local = <<>>
    /\ UNCHANGED vars

\* The channel is closed and drained.
ChannelEnds ==
    /\ conn = "open" /\ flow = "out" /\ to_local = <<>>
    /\ conn' = "finished"
    /\ UNCHANGED <<hand, flow, to_ws, to_local, loop, rest, credits,
                   up, server, queues, down, counts>>

\* The application closes, or a write to it fails.
AppCloses ==
    /\ conn = "open"
    /\ conn' = "closing"
    /\ UNCHANGED <<hand, flow, to_ws, to_local, loop, rest, credits,
                   up, server, queues, down, counts>>

\* Drop of the flow: nobody tells the server.
DropSilently ==
    /\ conn \in {"closing", "finished"}
    /\ conn' = "closed" /\ to_local' = <<>>
    /\ UNCHANGED <<hand, flow, to_ws, loop, rest, credits, up, server, queues, down, counts>>

\* Drop of the flow: a task of its own sends CloseFlow.
DropFlow ==
    /\ conn \in {"closing", "finished"}
    /\ conn' = "closed" /\ to_local' = <<>>
    /\ up' = Append(up, Msg("Close", 0))
    /\ UNCHANGED <<hand, flow, to_ws, loop, rest, credits, server, queues, down, counts>>
-----------------------------------------------------------------------------
(* The client: flow_to_ws_loop. *)

Chunk == IF rest > 0 THEN rest ELSE Head(to_ws)
HasChunk == rest > 0 \/ to_ws # <<>>
TakeChunk == to_ws' = IF rest > 0 THEN to_ws ELSE Tail(to_ws)

\* A chunk is sent whole whatever the credits.
SendChunkWhole ==
    /\ loop = "run" /\ HasChunk /\ credits > 0
    /\ credits' = credits - Smaller(Chunk, credits) /\ rest' = 0
    /\ up' = Append(up, Msg("Data", Chunk))
    /\ TakeChunk
    /\ UNCHANGED <<conn, hand, flow, to_local, loop, server, queues, down, counts>>

\* The whole chunk is carried over, not its unsent tail.
SendChunkAgain ==
    LET n == Smaller(Chunk, credits) IN
    /\ loop = "run" /\ HasChunk /\ credits > 0
    /\ credits' = credits - n /\ rest' = IF n < Chunk THEN Chunk ELSE 0
    /\ up' = Append(up, Msg("Data", n))
    /\ TakeChunk
    /\ UNCHANGED <<conn, hand, flow, to_local, loop, server, queues, down, counts>>

SendChunk ==
    LET n == Smaller(Chunk, credits) IN
    /\ loop = "run" /\ HasChunk /\ credits > 0
    /\ credits' = credits - n /\ rest' = Chunk - n
    /\ up' = Append(up, Msg("Data", n))
    /\ TakeChunk
    /\ UNCHANGED <<conn, hand, flow, to_local, loop, server, queues, down, counts>>

Park ==
    /\ loop = "run" /\ HasChunk /\ credits = 0
    /\ loop' = "parked" /\ rest' = Chunk
    /\ TakeChunk
    /\ UNCHANGED <<conn, hand, flow, to_local, credits, up, server, queues, down, counts>>

Unpark ==
    /\ loop = "parked"
    /\ \/ credits > 0 /\ loop' = "run"
       \/ credits = 0 /\ flow = "out" /\ loop' = "ended"
    /\ UNCHANGED <<conn, hand, flow, to_ws, to_local, rest, credits,
                   up, server, queues, down, counts>>

LoopEnds ==
    /\ loop = "run" /\ ~HasChunk /\ ~Alive
    /\ loop' = "ended"
    /\ UNCHANGED <<conn, hand, flow, to_ws, to_local, rest, credits,
                   up, server, queues, down, counts>>

\* The stall valve is far longer than a round trip or a step of a task: no
\* frame is on its way, and no setup or teardown is half done.
Quiet ==
    /\ up = <<>> /\ down = <<>> /\ control = <<>> /\ data = <<>>
    /\ conn \notin {"created", "closing", "finished"}
    /\ create \notin {"connecting", "spawned"}

StallUp ==
    /\ loop = "parked" /\ credits = 0 /\ flow # "out" /\ Quiet
    /\ loop' = "stalled" /\ flow' = "out"
    /\ up' = Append(up, Msg("Close", 0))
    /\ UNCHANGED <<conn, hand, to_ws, to_local, rest, credits, server, queues, down, counts>>
-----------------------------------------------------------------------------
(* The client: receive_loop. *)

CloseState == flow' = IF flow = "in" THEN "out" ELSE flow

Receive(type) ==
    /\ down # <<>> /\ Head(down).type = type
    /\ down' = Tail(down)
    /\ UNCHANGED <<conn, hand, to_ws, loop, rest, server, queues, sent, received, written, delivered>>

ReceiveCreated ==
    /\ Receive("Created")
    /\ UNCHANGED <<flow, to_local, credits, up, early, overflow>>

ReceiveClose ==
    /\ Receive("Close")
    /\ CloseState
    /\ UNCHANGED <<to_local, credits, up, early, overflow>>

ReceiveCredit ==
    /\ Receive("Credit")
    /\ credits' = IF flow = "in" THEN credits + Head(down).n ELSE credits
    /\ UNCHANGED <<flow, to_local, up, early, overflow>>

\* dispatch_data_frame: unknown flow, receiver dropped, room, or full.
ReceiveData ==
    LET n == Head(down).n IN
    /\ Receive("Data")
    /\ \/ /\ flow # "in"
          /\ early' = IF flow = "none" THEN early + n ELSE early
          /\ UNCHANGED <<flow, to_local, up, overflow>>
       \/ /\ flow = "in" /\ conn = "closed"
          /\ CloseState /\ up' = Append(up, Msg("Close", 0))
          /\ UNCHANGED <<to_local, early, overflow>>
       \/ /\ flow = "in" /\ conn # "closed" /\ Len(to_local) < QueueCap
          /\ to_local' = Append(to_local, n)
          /\ UNCHANGED <<flow, up, early, overflow>>
       \/ /\ flow = "in" /\ conn # "closed" /\ Len(to_local) = QueueCap
          /\ overflow' = overflow + n
          /\ UNCHANGED <<flow, to_local, up, early>>
    /\ UNCHANGED credits
-----------------------------------------------------------------------------
(* The server: ws_receiver dispatches one frame at a time, and is busy with
   CreateFlow until the target is connected and the flow stored. *)

Dispatch(type) ==
    /\ create \notin {"connecting", "spawned"}
    /\ up # <<>> /\ Head(up).type = type
    /\ up' = Tail(up)
    /\ UNCHANGED <<client, data, down, counts>>

\* remove_flow aborts both tasks; what they hold is dropped.
RemoveFlow ==
    /\ entry' = "out"
    /\ relay' = "ended" /\ writer' = "ended" /\ to_target' = <<>>

DispatchCreate ==
    /\ Dispatch("Create")
    /\ create' = "connecting"
    /\ UNCHANGED <<entry, relay, writer, to_target, granted, control>>

\* `connect_with_dns_cache(...).await?`: the error is only logged.
ConnectFails ==
    /\ create = "connecting"
    /\ create' = "failed"
    /\ UNCHANGED <<client, up, entry, relay, writer, to_target, granted, queues, down, counts>>

SpawnTasks ==
    /\ create = "connecting"
    /\ create' = "spawned" /\ relay' = "run" /\ writer' = "run"
    /\ UNCHANGED <<client, up, entry, to_target, granted, queues, down, counts>>

StoreFlow ==
    /\ create = "spawned"
    /\ create' = "done" /\ entry' = "in"
    /\ control' = Append(control, Msg("Created", 0))
    /\ UNCHANGED <<client, up, relay, writer, to_target, granted, data, down, counts>>

\* CloseFlow only forgets the flow.
DispatchCloseKeepingTasks ==
    /\ Dispatch("Close")
    /\ entry' = IF entry = "in" THEN "out" ELSE entry
    /\ UNCHANGED <<create, relay, writer, to_target, granted, control>>

DispatchClose ==
    /\ Dispatch("Close")
    /\ IF entry = "in" THEN RemoveFlow ELSE UNCHANGED <<entry, relay, writer, to_target>>
    /\ UNCHANGED <<create, granted, control>>

DispatchCredit ==
    /\ Dispatch("Credit")
    /\ granted' = IF entry = "in" THEN granted + Head(up).n ELSE granted
    /\ UNCHANGED <<create, entry, relay, writer, to_target, control>>

\* handle_flow_data; data for a flow not in the map is buffered for a
\* CreateFlow that has been handled already.
DispatchData ==
    /\ Dispatch("Data")
    /\ \/ /\ entry # "in" \/ writer = "ended"
          /\ UNCHANGED <<entry, relay, writer, to_target, control>>
       \/ /\ entry = "in" /\ writer = "run" /\ Len(to_target) < QueueCap
          /\ to_target' = Append(to_target, Head(up).n)
          /\ UNCHANGED <<entry, relay, writer, control>>
       \/ /\ entry = "in" /\ writer = "run" /\ Len(to_target) = QueueCap
          /\ RemoveFlow
          /\ control' = Append(control, Msg("Close", 0))
    /\ UNCHANGED <<create, granted>>
-----------------------------------------------------------------------------
(* The server: spawn_flow_writer. *)

WriteTarget ==
    /\ writer = "run" /\ to_target # <<>>
    /\ to_target' = Tail(to_target) /\ written' = written + Head(to_target)
    /\ control' = Append(control, Msg("Credit", Head(to_target)))
    /\ UNCHANGED <<client, up, create, entry, relay, writer, granted, data, down,
                   sent, received, delivered, early, overflow>>

WriteFails ==
    /\ writer = "run" /\ to_target # <<>>
    /\ IF entry = "in"
       THEN RemoveFlow /\ control' = Append(control, Msg("Close", 0))
       ELSE writer' = "ended" /\ UNCHANGED <<entry, relay, to_target, control>>
    /\ UNCHANGED <<client, up, create, granted, data, down, counts>>
-----------------------------------------------------------------------------
(* The server: spawn_flow_relay. *)

ReadTarget(n) ==
    /\ relay = "run" /\ n <= granted /\ received + n <= DownBytes
    /\ granted' = granted - n /\ received' = received + n
    /\ data' = Append(data, Msg("Data", n))
    /\ UNCHANGED <<client, up, create, entry, relay, writer, to_target, control, down,
                   sent, written, delivered, early, overflow>>

\* The relay ends the flow: the writer is aborted if the flow is stored.
RelayCloses ==
    /\ relay' = "ended"
    /\ IF entry = "in"
       THEN entry' = "out" /\ writer' = "ended" /\ to_target' = <<>>
       ELSE UNCHANGED <<entry, writer, to_target>>
    /\ control' = Append(control, Msg("Close", 0))
    /\ UNCHANGED <<client, up, create, granted, data, down, counts>>

\* EOF or a read error: seen only while there is credit to read.
TargetEnds == relay = "run" /\ granted > 0 /\ RelayCloses

StallDown == relay = "run" /\ granted = 0 /\ Quiet /\ RelayCloses
-----------------------------------------------------------------------------
(* The server: run_ws_sender. *)

SendControl ==
    /\ control # <<>>
    /\ down' = Append(down, Head(control)) /\ control' = Tail(control)
    /\ UNCHANGED <<client, up, server, data, counts>>

SendData ==
    /\ control = <<>> /\ data # <<>>
    /\ down' = Append(down, Head(data)) /\ data' = Tail(data)
    /\ UNCHANGED <<client, up, server, control, counts>>
-----------------------------------------------------------------------------
Client ==
    \/ SendCreate \/ InsertState \/ (\E n \in 1..MaxFrame : ReadApp(n)) \/ Push
    \/ WriteApp \/ ChannelEnds \/ AppCloses \/ DropFlow
    \/ SendChunk \/ Park \/ Unpark \/ LoopEnds \/ StallUp
    \/ ReceiveCreated \/ ReceiveClose \/ ReceiveCredit \/ ReceiveData

Receiver ==
    \/ DispatchCreate \/ DispatchClose \/ DispatchCredit \/ DispatchData \/ StoreFlow

Server ==
    \/ Receiver \/ ConnectFails \/ SpawnTasks
    \/ WriteTarget \/ WriteFails
    \/ (\E n \in 1..MaxFrame : ReadTarget(n)) \/ TargetEnds \/ StallDown
    \/ SendControl \/ SendData

Next == Client \/ Server

Spec == Init /\ [][Next]_vars

(***************************************************************************)
(* Fairness: the tasks of both processes run when they can, the wire       *)
(* delivers, and a connection attempt ends one way or the other (it is     *)
(* bounded by a timeout).  Nothing is assumed of the application and the   *)
(* target, nor that a stall valve fires.                                   *)
(***************************************************************************)
FairSpec ==
    /\ Spec
    /\ WF_vars(InsertState) /\ WF_vars(Push) /\ WF_vars(ChannelEnds) /\ WF_vars(DropFlow)
    /\ WF_vars(SendChunk) /\ WF_vars(Park) /\ WF_vars(Unpark) /\ WF_vars(LoopEnds)
    /\ WF_vars(ReceiveCreated \/ ReceiveClose \/ ReceiveCredit \/ ReceiveData)
    /\ WF_vars(Receiver) /\ WF_vars(ConnectFails \/ SpawnTasks)
    /\ WF_vars(SendControl \/ SendData)
-----------------------------------------------------------------------------
\* The bytes in a queue of chunks.
Total(q) ==
    LET sum[i \in 0..Len(q)] == IF i = 0 THEN 0 ELSE sum[i - 1] + q[i]
    IN  sum[Len(q)]

\* The bytes of one type of frames.
Sizes(type, q) == [i \in 1..Len(q) |-> IF q[i].type = type THEN q[i].n ELSE 0]
BytesOf(type, q) == Total(Sizes(type, q))

(* Flow control, client to target: until either side drops the flow, every
   byte of the window is a credit of the client, a byte on its way to the
   target, or a grant on its way back.  None is lost, none made up. *)
UplinkConserved ==
    entry # "out" /\ flow # "out" /\ create # "failed"
        => credits + BytesOf("Data", up) + Total(to_target)
               + BytesOf("Credit", control) + BytesOf("Credit", down) = Window

(* Flow control, target to client: the server's credits, the bytes on their
   way to the application and the grants on their way back never exceed the
   window, and while the flow lives they fill it exactly until the client
   drops a frame, because open_flow had not stored the flow's state yet
   (early) or the flow's channel was full (overflow): nothing grants those
   bytes again. *)
DownlinkConserved ==
    LET used == granted + BytesOf("Data", data) + BytesOf("Data", down)
                  + Total(to_local) + BytesOf("Credit", up)
    IN  /\ used <= Window
        /\ relay = "run" /\ flow # "out" /\ Alive /\ early = 0 /\ overflow = 0
               => used = Window

(* Tasks die with their flow (remove_flow): outside CreateFlow, a relay or
   writer runs only for a flow in the map. *)
NoOrphanTasks ==
    create # "spawned" /\ "run" \in {relay, writer} => entry = "in"

(* Bytes arrive as often as they were sent: what the target was written is
   what the application sent, less what is queued or was dropped whole. *)
NothingInvented ==
    /\ written + Total(to_target) + BytesOf("Data", up) + rest + Total(to_ws) + hand <= sent
    /\ delivered + Total(to_local) + BytesOf("Data", down) + BytesOf("Data", data) <= received

(* Credits never exceed the window in either direction, none is lost while
   no frame is dropped, and no byte is made up. *)
FlowConserved == TypeOK /\ UplinkConserved /\ DownlinkConserved /\ NothingInvented

(* When the application closes, the server's flow and its tasks go too
   (Drop for Socks5Flow, CloseFlow, remove_flow), whatever state the flow was
   in, CreateFlow still running included. *)
ServerFollowsClient ==
    conn = "closed" ~> (entry # "in" /\ relay # "run" /\ writer # "run" /\ create # "connecting")

(* A CloseFlow the server sends for a flow the client has stored closes it. *)
ClosedFlowEnds == flow = "out" /\ conn = "open" /\ to_local = <<>> ~> conn = "closed"

(* The end of a flow on either side reaches the other. *)
FlowEnds == ServerFollowsClient /\ ClosedFlowEnds
-----------------------------------------------------------------------------
(* What the code's comments say and the code does not do. *)

(* handle_flow_data: "a full queue means the client is sending beyond its
   credits"; dispatch_data_frame: "the channel can never legitimately fill".
   With credits respected (FlowConserved) neither queue refuses a frame; a
   flow that loses a downlink frame and then has its uplink queue full
   refutes both. *)
QueuesHaveRoom ==
    [][DispatchData /\ entry = "in" /\ writer = "run" /\ overflow > 0
         => Len(to_target) < QueueCap]_vars

(* open_flow: "if the server sends FlowFailed, the receive_loop will close the
   flow's channel": a failed connect ends the connection. *)
ConnectFailureEndsFlow == create = "failed" ~> conn = "closed"
=============================================================================

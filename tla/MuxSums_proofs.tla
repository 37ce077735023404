----------------------------- MODULE MuxSums_proofs --------------------------
(***************************************************************************)
(* The second half of the proofs about MuxFlow: what every step does to    *)
(* the sums of credits and bytes, and the theorems.                        *)
(***************************************************************************)
EXTENDS MuxFlow_proofs

\* Time limits of the provers, for a slow machine.
USE SMTT(10), ZenonT(20)

(* Every step conserves the uplink's window, or ends the flow on one side. *)
LEMMA UpStep ==
    ASSUME ShapeInv, OrderInv, TaskInv, UpInv, Next
    PROVE  UpInv'
<1>0. up \in Seq(Msgs) /\ control \in Seq(Msgs)
  BY Counted
<1>1. /\ credits \in Nat /\ Window \in Nat
      /\ BytesOf("Data", up) \in Nat /\ Total(to_target) \in Nat
      /\ BytesOf("Credit", control) \in Nat /\ BytesOf("Credit", down) \in Nat
      /\ UpSum \in Nat
  <2>1. credits \in Nat /\ Window \in Nat
    BY MuxFlowAssumption DEF ShapeInv
  <2>2. /\ BytesOf("Data", up) \in Nat /\ Total(to_target) \in Nat
        /\ BytesOf("Credit", control) \in Nat /\ BytesOf("Credit", down) \in Nat
    BY Counted
  <2> QED  BY <2>1, <2>2 DEF UpSum
<1>2. ASSUME UpSum' = UpSum
      PROVE  UpInv'
  BY <1>2, OnceOver DEF UpInv
<1>3. ASSUME UpSum' \in Nat, UpSum' <= UpSum, entry' = "out" \/ flow' = "out" \/ create' = "failed"
      PROVE  UpInv'
  <2>1. UpSum' <= Window
    BY <1>1, <1>3 DEF UpInv
  <2> QED  BY <1>3, <2>1 DEF UpInv
<1>4. ASSUME UNCHANGED <<credits, up, to_target, control, down>>
      PROVE  UpInv'
  BY <1>2, <1>4 DEF UpSum
<1>5. ASSUME NEW type \in {"Create", "Close"}, up' = Append(up, Msg(type, 0)),
             UNCHANGED <<credits, to_target, control, down>>
      PROVE  UpInv'
  <2>1. BytesOf("Data", up') = BytesOf("Data", up)
    <3>1. 1 \in 1..MaxFrame
      BY MuxFlowAssumption
    <3> QED  BY <1>0, <1>1, <1>5, <3>1, PutFrame
  <2> QED  BY <1>2, <1>5, <2>1 DEF UpSum
<1>6. ASSUME NEW type \in {"Created", "Close"}, control' = Append(control, Msg(type, 0)),
             UNCHANGED <<credits, up, to_target, down>>
      PROVE  UpInv'
  <2>1. BytesOf("Credit", control') = BytesOf("Credit", control)
    <3>1. 1 \in 1..MaxFrame
      BY MuxFlowAssumption
    <3> QED  BY <1>0, <1>1, <1>6, <3>1, PutFrame
  <2> QED  BY <1>2, <1>6, <2>1 DEF UpSum
<1>7. ASSUME entry' = "out", to_target' = <<>>, BytesOf("Credit", control') = BytesOf("Credit", control),
             BytesOf("Data", up') \in Nat, BytesOf("Data", up') <= BytesOf("Data", up),
             UNCHANGED <<credits, down>>
      PROVE  UpInv'
  <2>1. Total(to_target') = 0
    BY <1>7, TotalEmpty
  <2>2. UpSum' \in Nat /\ UpSum' <= UpSum
    BY <1>1, <1>7, <2>1 DEF UpSum
  <2> QED  BY <1>3, <1>7, <2>2
<1>8. BytesOf("Credit", Append(control, Msg("Close", 0))) = BytesOf("Credit", control)
  <2>1. 1 \in 1..MaxFrame
    BY MuxFlowAssumption
  <2> QED  BY <1>0, <1>1, <2>1, PutFrame
<1>9. SendCreate => UpInv'
  BY <1>5 DEF SendCreate, server, queues
<1>10. InsertState => UpInv'
  BY <1>4 DEF InsertState, server, queues
<1>11. (\E n \in 1..MaxFrame : ReadApp(n)) => UpInv'
  BY <1>4 DEF ReadApp, server, queues
<1>12. Push => UpInv'
  BY <1>4 DEF Push, server, queues
<1>13. ChannelEnds => UpInv'
  BY <1>4 DEF ChannelEnds, server, queues
<1>14. AppCloses => UpInv'
  BY <1>4 DEF AppCloses, server, queues
<1>15. Park => UpInv'
  BY <1>4 DEF Park, server, queues
<1>16. Unpark => UpInv'
  BY <1>4 DEF Unpark, server, queues
<1>17. LoopEnds => UpInv'
  BY <1>4 DEF LoopEnds, server, queues
<1>18. WriteApp => UpInv'
  <2> SUFFICES ASSUME WriteApp PROVE UpInv'
    OBVIOUS
  <2>1. Head(to_local) \in 1..MaxFrame
    BY FirstChunk DEF WriteApp, ShapeInv
  <2>2. BytesOf("Data", up') = BytesOf("Data", up)
    BY <1>0, <1>1, <2>1, PutFrame DEF WriteApp
  <2> QED  BY <1>2, <2>2 DEF WriteApp, UpSum, server, queues
<1>19. DropFlow => UpInv'
  BY <1>5 DEF DropFlow, server, queues
<1>20. SendChunk => UpInv'
  <2> SUFFICES ASSUME SendChunk PROVE UpInv'
    OBVIOUS
  <2>1. PICK k \in 1..MaxFrame : k <= credits /\ credits' = credits - k /\ up' = Append(up, Msg("Data", k))
    BY ChunkSent
  <2>2. BytesOf("Data", up') = BytesOf("Data", up) + k
    BY <1>0, <1>1, <2>1, PutFrame
  <2>3. UNCHANGED <<to_target, control, down>>
    BY DEF SendChunk, server, queues
  <2>4. UpSum' = UpSum
    BY <1>1, <2>1, <2>2, <2>3 DEF UpSum
  <2> QED  BY <1>2, <2>4
<1>21. StallUp => UpInv'
  BY <1>5 DEF StallUp, server, queues
<1>22. ReceiveCreated => UpInv'
  <2> SUFFICES ASSUME ReceiveCreated PROVE UpInv'
    OBVIOUS
  <2>1. BytesOf("Credit", down') = BytesOf("Credit", down)
    BY <1>0, <1>1, Heads DEF ReceiveCreated, Receive
  <2> QED  BY <1>2, <2>1 DEF ReceiveCreated, Receive, UpSum, server, queues
<1>23. ReceiveClose => UpInv'
  <2> SUFFICES ASSUME ReceiveClose PROVE UpInv'
    OBVIOUS
  <2>1. BytesOf("Credit", down') = BytesOf("Credit", down)
    BY <1>0, <1>1, Heads DEF ReceiveClose, Receive
  <2> QED  BY <1>2, <2>1 DEF ReceiveClose, Receive, UpSum, server, queues
<1>24. ReceiveCredit => UpInv'
  <2> SUFFICES ASSUME ReceiveCredit PROVE UpInv'
    OBVIOUS
  <2> DEFINE k == Head(down).n
  <2>1. /\ k \in Nat /\ k >= 1 /\ BytesOf("Credit", down') \in Nat
        /\ BytesOf("Credit", down) = k + BytesOf("Credit", down')
    BY Heads DEF ReceiveCredit, Receive
  <2>2. UNCHANGED <<up, to_target, control, flow>>
    BY DEF ReceiveCredit, Receive, server, queues
  <2>3. credits' = IF flow = "in" THEN credits + k ELSE credits
    BY DEF ReceiveCredit
  <2> HIDE DEF k
  <2>4. CASE flow = "in"
    <3>1. UpSum' = UpSum
      BY <1>1, <2>1, <2>2, <2>3, <2>4 DEF UpSum
    <3> QED  BY <1>2, <3>1
  <2>5. CASE flow = "none"
    <3>1. credits = Window
      BY <2>5 DEF TaskInv
    <3>2. UpSum > Window
      BY <1>1, <2>1, <3>1 DEF UpSum
    <3> QED  BY <1>1, <3>2 DEF UpInv
  <2>6. CASE flow = "out"
    <3>1. UpSum' \in Nat /\ UpSum' <= UpSum
      BY <1>1, <2>1, <2>2, <2>3, <2>6 DEF UpSum
    <3> QED  BY <1>3, <2>2, <2>6, <3>1
  <2> QED  BY <2>4, <2>5, <2>6 DEF ShapeInv
<1>25. ReceiveData => UpInv'
  <2> SUFFICES ASSUME ReceiveData PROVE UpInv'
    OBVIOUS
  <2>1. BytesOf("Credit", down') = BytesOf("Credit", down)
    BY <1>0, <1>1, Heads DEF ReceiveData, Receive
  <2>2. BytesOf("Data", up') = BytesOf("Data", up)
    <3>1. up' = up \/ up' = Append(up, Msg("Close", 0))
      BY DEF ReceiveData
    <3>2. 1 \in 1..MaxFrame
      BY MuxFlowAssumption
    <3> QED  BY Zenon, <1>0, <1>1, <3>1, <3>2, PutFrame
  <2> QED  BY <1>2, <2>1, <2>2 DEF ReceiveData, Receive, UpSum, server, queues
<1>26. DispatchCreate => UpInv'
  <2> SUFFICES ASSUME DispatchCreate PROVE UpInv'
    OBVIOUS
  <2>1. BytesOf("Data", up') = BytesOf("Data", up)
    BY <1>0, <1>1, Heads DEF DispatchCreate, Dispatch
  <2> QED  BY <1>2, <2>1 DEF DispatchCreate, Dispatch, UpSum, client
<1>27. DispatchClose => UpInv'
  <2> SUFFICES ASSUME DispatchClose PROVE UpInv'
    OBVIOUS
  <2>1. BytesOf("Data", up') = BytesOf("Data", up)
    BY <1>0, <1>1, Heads DEF DispatchClose, Dispatch
  <2>2. CASE entry = "in"
    BY <1>1, <1>7, <2>1, <2>2 DEF DispatchClose, Dispatch, RemoveFlow, client
  <2>3. CASE entry # "in"
    BY <1>2, <2>1, <2>3 DEF DispatchClose, Dispatch, UpSum, client
  <2> QED  BY <2>2, <2>3
<1>28. DispatchCredit => UpInv'
  <2> SUFFICES ASSUME DispatchCredit PROVE UpInv'
    OBVIOUS
  <2>1. BytesOf("Data", up') = BytesOf("Data", up)
    BY <1>0, <1>1, Heads DEF DispatchCredit, Dispatch
  <2> QED  BY <1>2, <2>1 DEF DispatchCredit, Dispatch, UpSum, client
<1>29. DispatchData => UpInv'
  <2> SUFFICES ASSUME DispatchData PROVE UpInv'
    OBVIOUS
  <2> DEFINE k == Head(up).n
  <2>1. /\ k \in Nat /\ k >= 1 /\ BytesOf("Data", up') \in Nat
        /\ BytesOf("Data", up) = k + BytesOf("Data", up')
    BY Heads DEF DispatchData, Dispatch
  <2>2. k \in 1..MaxFrame
    <3>1. Head(up) \in Msgs
      BY <1>0, <1>1, HeadTailProperties DEF DispatchData, Dispatch
    <3> QED  BY <2>1, <3>1 DEF Msgs
  <2>3. UNCHANGED <<credits, down>> /\ UNCHANGED create
    BY DEF DispatchData, Dispatch, client
  <2>4. \/ entry # "in" /\ UNCHANGED <<entry, to_target, control>>
        \/ to_target' = Append(to_target, k) /\ UNCHANGED control
        \/ RemoveFlow /\ control' = Append(control, Msg("Close", 0))
    BY DEF DispatchData, TaskInv
  <2>5. create \notin {"none", "connecting", "spawned"}
    BY CreateFirst DEF DispatchData, Dispatch
  <2> HIDE DEF k
  <2>6. CASE entry # "in" /\ UNCHANGED <<entry, to_target, control>>
    <3>1. entry' = "out" \/ create' = "failed"
      BY <2>3, <2>5, <2>6 DEF TaskInv, ShapeInv
    <3>2. /\ credits' = credits /\ Total(to_target') = Total(to_target)
          /\ BytesOf("Credit", control') = BytesOf("Credit", control)
          /\ BytesOf("Credit", down') = BytesOf("Credit", down)
      BY <2>3, <2>6
    <3>3. UpSum' \in Nat /\ UpSum' <= UpSum
      BY <1>1, <2>1, <3>2 DEF UpSum
    <3> QED  BY <1>3, <3>1, <3>3
  <2>7. CASE to_target' = Append(to_target, k) /\ UNCHANGED control
    <3>1. Total(to_target') = Total(to_target) + k
      BY <2>2, <2>7, LastChunk DEF ShapeInv
    <3>2. UpSum' = UpSum
      BY <1>1, <2>1, <2>3, <2>7, <3>1 DEF UpSum
    <3> QED  BY <1>2, <3>2
  <2>8. CASE RemoveFlow /\ control' = Append(control, Msg("Close", 0))
    <3>1. BytesOf("Data", up') <= BytesOf("Data", up)
      BY <1>1, <2>1
    <3> QED  BY <1>7, <1>8, <2>1, <2>3, <2>8, <3>1 DEF RemoveFlow
  <2> QED  BY <2>4, <2>6, <2>7, <2>8
<1>30. StoreFlow => UpInv'
  BY <1>6 DEF StoreFlow, client
<1>31. ConnectFails => UpInv'
  BY <1>4 DEF ConnectFails, client, queues
<1>32. SpawnTasks => UpInv'
  BY <1>4 DEF SpawnTasks, client, queues
<1>33. WriteTarget => UpInv'
  <2> SUFFICES ASSUME WriteTarget PROVE UpInv'
    OBVIOUS
  <2> DEFINE k == Head(to_target)
  <2>1. /\ k \in 1..MaxFrame /\ Total(to_target') \in Nat /\ Total(to_target) = k + Total(to_target')
        /\ control' = Append(control, Msg("Credit", k))
    BY FirstChunk DEF WriteTarget, ShapeInv
  <2>2. UNCHANGED <<credits, up, down>>
    BY DEF WriteTarget, client
  <2> HIDE DEF k
  <2>3. BytesOf("Credit", control') = BytesOf("Credit", control) + k
    BY <1>0, <1>1, <2>1, PutFrame
  <2>4. UpSum' = UpSum
    BY <1>1, <2>1, <2>2, <2>3 DEF UpSum
  <2> QED  BY <1>2, <2>4
<1>34. WriteFails => UpInv'
  <2> SUFFICES ASSUME WriteFails PROVE UpInv'
    OBVIOUS
  <2>1. CASE entry = "in"
    <3>1. /\ entry' = "out" /\ to_target' = <<>> /\ control' = Append(control, Msg("Close", 0))
          /\ up' = up /\ UNCHANGED <<credits, down>>
      BY <2>1 DEF WriteFails, RemoveFlow, client
    <3> QED  BY <1>1, <1>7, <1>8, <3>1
  <2>2. CASE entry # "in"
    BY <1>4, <2>2 DEF WriteFails, client
  <2> QED  BY <2>1, <2>2
<1>35. (\E n \in 1..MaxFrame : ReadTarget(n)) => UpInv'
  BY <1>4 DEF ReadTarget, client
<1>36. RelayCloses => UpInv'
  <2> SUFFICES ASSUME RelayCloses PROVE UpInv'
    OBVIOUS
  <2>1. CASE entry = "in"
    BY <1>1, <1>7, <1>8, <2>1 DEF RelayCloses, client
  <2>2. CASE entry # "in"
    BY <1>6, <2>2 DEF RelayCloses, client
  <2> QED  BY <2>1, <2>2
<1>37. SendControl => UpInv'
  <2> SUFFICES ASSUME SendControl PROVE UpInv'
    OBVIOUS
  <2>1. UNCHANGED <<credits, up, to_target>>
    BY DEF SendControl, client, server
  <2>2. /\ BytesOf("Credit", control') + BytesOf("Credit", down')
              = BytesOf("Credit", control) + BytesOf("Credit", down)
        /\ BytesOf("Credit", control') \in Nat /\ BytesOf("Credit", down') \in Nat
    BY <1>0, <1>1, Moved
  <2>3. UpSum' = UpSum
    BY <1>1, <2>1, <2>2 DEF UpSum
  <2> QED  BY <1>2, <2>3
<1>38. SendData => UpInv'
  <2> SUFFICES ASSUME SendData PROVE UpInv'
    OBVIOUS
  <2>1. UNCHANGED <<credits, up, to_target>>
    BY DEF SendData, client, server
  <2>2. /\ BytesOf("Credit", control') + BytesOf("Credit", down')
              = BytesOf("Credit", control) + BytesOf("Credit", down)
        /\ BytesOf("Credit", control') \in Nat /\ BytesOf("Credit", down') \in Nat
    BY <1>0, <1>1, Moved DEF SendData
  <2>3. UpSum' = UpSum
    BY <1>1, <2>1, <2>2 DEF UpSum
  <2> QED  BY <1>2, <2>3
<1>39. Client => UpInv'
  BY <1>9, <1>10, <1>11, <1>12, <1>13, <1>14, <1>15, <1>16, <1>17,
     <1>18, <1>19, <1>20, <1>21, <1>22, <1>23, <1>24, <1>25 DEF Client
<1>40. Server => UpInv'
  BY <1>26, <1>27, <1>28, <1>29, <1>30, <1>31, <1>32, <1>33, <1>34,
     <1>35, <1>36, <1>37, <1>38
  DEF Server, Receiver, TargetEnds, StallDown
<1> QED
  BY <1>39, <1>40 DEF Next

(* Every step conserves the downlink's window, or ends the flow on one side. *)
LEMMA DownStep ==
    ASSUME ShapeInv, OrderInv, TaskInv, DownInv, Next
    PROVE  DownInv'
<1>0. up \in Seq(Msgs) /\ data \in Seq(Msgs)
  BY Counted
<1>1. /\ granted \in Nat /\ Window \in Nat /\ early \in Nat /\ overflow \in Nat
      /\ BytesOf("Data", data) \in Nat /\ BytesOf("Data", down) \in Nat
      /\ Total(to_local) \in Nat /\ BytesOf("Credit", up) \in Nat
      /\ DownSum \in Nat
  <2>1. granted \in Nat /\ Window \in Nat /\ early \in Nat /\ overflow \in Nat
    BY MuxFlowAssumption DEF ShapeInv
  <2>2. /\ BytesOf("Data", data) \in Nat /\ BytesOf("Data", down) \in Nat
        /\ Total(to_local) \in Nat /\ BytesOf("Credit", up) \in Nat
    BY Counted
  <2> QED  BY <2>1, <2>2 DEF DownSum
<1>2. ASSUME DownSum' = DownSum
      PROVE  DownInv'
  BY <1>2, OnceOver DEF DownInv
<1>3. ASSUME DownSum' \in Nat, DownSum' <= DownSum, relay' = "ended" \/ flow' = "out" \/ ~Alive'
      PROVE  DownInv'
  <2>1. DownSum' <= Window
    BY <1>1, <1>3 DEF DownInv
  <2> QED  BY <1>3, <2>1 DEF DownInv
<1>4. ASSUME UNCHANGED <<granted, data, down, to_local, up, early, overflow>>
      PROVE  DownInv'
  BY <1>2, <1>4 DEF DownSum
<1>5. ASSUME NEW type \in {"Create", "Close"}, up' = Append(up, Msg(type, 0)),
             UNCHANGED <<granted, data, down, to_local, early, overflow>>
      PROVE  DownInv'
  <2>1. BytesOf("Credit", up') = BytesOf("Credit", up)
    <3>1. 1 \in 1..MaxFrame
      BY MuxFlowAssumption
    <3> QED  BY <1>0, <1>5, <3>1, PutFrame
  <2> QED  BY <1>2, <1>5, <2>1 DEF DownSum
<1>6. ASSUME BytesOf("Credit", up') = BytesOf("Credit", up), BytesOf("Data", down') = BytesOf("Data", down),
             UNCHANGED <<granted, data, to_local, early, overflow>>
      PROVE  DownInv'
  BY <1>2, <1>6 DEF DownSum
<1>7. SendCreate => DownInv'
  BY <1>5 DEF SendCreate, server, queues, counts
<1>8. InsertState => DownInv'
  BY <1>4 DEF InsertState, server, queues, counts
<1>9. (\E n \in 1..MaxFrame : ReadApp(n)) => DownInv'
  BY <1>4 DEF ReadApp, server, queues, counts
<1>10. Push => DownInv'
  BY <1>4 DEF Push, server, queues, counts
<1>11. ChannelEnds => DownInv'
  BY <1>4 DEF ChannelEnds, server, queues, counts
<1>12. AppCloses => DownInv'
  BY <1>4 DEF AppCloses, server, queues, counts
<1>13. Park => DownInv'
  BY <1>4 DEF Park, server, queues, counts
<1>14. Unpark => DownInv'
  BY <1>4 DEF Unpark, server, queues, counts
<1>15. LoopEnds => DownInv'
  BY <1>4 DEF LoopEnds, server, queues, counts
<1>16. WriteApp => DownInv'
  <2> SUFFICES ASSUME WriteApp PROVE DownInv'
    OBVIOUS
  <2> DEFINE k == Head(to_local)
  <2>1. /\ k \in 1..MaxFrame /\ Total(to_local') \in Nat /\ Total(to_local) = k + Total(to_local')
        /\ up' = Append(up, Msg("Credit", k))
    BY FirstChunk DEF WriteApp, ShapeInv
  <2>2. UNCHANGED <<granted, data, down, early, overflow>>
    BY DEF WriteApp, server, queues
  <2> HIDE DEF k
  <2>3. BytesOf("Credit", up') = BytesOf("Credit", up) + k
    BY <1>0, <2>1, PutFrame
  <2>4. DownSum' = DownSum
    BY <1>1, <2>1, <2>2, <2>3 DEF DownSum
  <2> QED  BY <1>2, <2>4
<1>17. DropFlow => DownInv'
  <2> SUFFICES ASSUME DropFlow PROVE DownInv'
    OBVIOUS
  <2>1. /\ up' = Append(up, Msg("Close", 0)) /\ to_local' = <<>> /\ ~Alive'
        /\ UNCHANGED <<granted, data, down, early, overflow>>
    BY DEF DropFlow, server, queues, counts, Alive
  <2>2. BytesOf("Credit", up') = BytesOf("Credit", up) /\ Total(to_local') = 0
    <3>1. 1 \in 1..MaxFrame
      BY MuxFlowAssumption
    <3> QED  BY <1>0, <2>1, <3>1, PutFrame, TotalEmpty
  <2>3. DownSum' \in Nat /\ DownSum' <= DownSum
    BY <1>1, <2>1, <2>2 DEF DownSum
  <2> QED  BY <1>3, <2>1, <2>3
<1>18. SendChunk => DownInv'
  <2> SUFFICES ASSUME SendChunk PROVE DownInv'
    OBVIOUS
  <2>1. PICK k \in 1..MaxFrame : up' = Append(up, Msg("Data", k))
    BY ChunkSent
  <2>2. BytesOf("Credit", up') = BytesOf("Credit", up)
    BY <1>0, <2>1, PutFrame
  <2> QED  BY <1>6, <2>2 DEF SendChunk, server, queues, counts
<1>19. StallUp => DownInv'
  BY <1>5 DEF StallUp, server, queues, counts
<1>20. ReceiveCreated => DownInv'
  <2> SUFFICES ASSUME ReceiveCreated PROVE DownInv'
    OBVIOUS
  <2>1. BytesOf("Data", down') = BytesOf("Data", down)
    BY <1>1, Heads DEF ReceiveCreated, Receive
  <2> QED  BY <1>6, <2>1 DEF ReceiveCreated, Receive, server, queues
<1>21. ReceiveClose => DownInv'
  <2> SUFFICES ASSUME ReceiveClose PROVE DownInv'
    OBVIOUS
  <2>1. BytesOf("Data", down') = BytesOf("Data", down)
    BY <1>1, Heads DEF ReceiveClose, Receive
  <2> QED  BY <1>6, <2>1 DEF ReceiveClose, Receive, server, queues
<1>22. ReceiveCredit => DownInv'
  <2> SUFFICES ASSUME ReceiveCredit PROVE DownInv'
    OBVIOUS
  <2>1. BytesOf("Data", down') = BytesOf("Data", down)
    BY <1>1, Heads DEF ReceiveCredit, Receive
  <2> QED  BY <1>6, <2>1 DEF ReceiveCredit, Receive, server, queues
<1>23. ReceiveData => DownInv'
  <2> SUFFICES ASSUME ReceiveData PROVE DownInv'
    OBVIOUS
  <2> DEFINE k == Head(down).n
  <2>1. /\ k \in Nat /\ k >= 1 /\ BytesOf("Data", down') \in Nat
        /\ BytesOf("Data", down) = k + BytesOf("Data", down')
    BY Heads DEF ReceiveData, Receive
  <2>2. k \in 1..MaxFrame
    <3>1. Head(down) \in Msgs
      BY Counted, HeadTailProperties DEF ReceiveData, Receive
    <3> QED  BY <2>1, <3>1 DEF Msgs
  <2>3. UNCHANGED <<granted, data>>
    BY DEF ReceiveData, Receive, server, queues
  <2>4. \/ flow = "none" /\ early' = early + k /\ UNCHANGED <<to_local, up, overflow>>
        \/ flow' = "out" /\ UNCHANGED <<to_local, up, early, overflow>>
        \/ flow' = "out" /\ up' = Append(up, Msg("Close", 0)) /\ UNCHANGED <<to_local, early, overflow>>
        \/ to_local' = Append(to_local, k) /\ UNCHANGED <<up, early, overflow>>
        \/ overflow' = overflow + k /\ UNCHANGED <<to_local, up, early>>
    BY DEF ReceiveData, CloseState, ShapeInv
  <2> HIDE DEF k
  <2>5. CASE flow = "none" /\ early' = early + k /\ UNCHANGED <<to_local, up, overflow>>
    <3>1. DownSum' = DownSum
      BY <1>1, <2>1, <2>3, <2>5 DEF DownSum
    <3> QED  BY <1>2, <3>1
  <2>6. CASE flow' = "out" /\ UNCHANGED <<to_local, up, early, overflow>>
    <3>1. DownSum' \in Nat /\ DownSum' <= DownSum
      BY <1>1, <2>1, <2>3, <2>6 DEF DownSum
    <3> QED  BY <1>3, <2>6, <3>1
  <2>7. CASE flow' = "out" /\ up' = Append(up, Msg("Close", 0)) /\ UNCHANGED <<to_local, early, overflow>>
    <3>1. BytesOf("Credit", up') = BytesOf("Credit", up)
      BY <1>0, <2>2, <2>7, PutFrame
    <3>2. /\ granted' = granted /\ BytesOf("Data", data') = BytesOf("Data", data)
          /\ Total(to_local') = Total(to_local) /\ early' = early /\ overflow' = overflow
      BY <2>3, <2>7
    <3>3. DownSum' \in Nat /\ DownSum' <= DownSum
      BY <1>1, <2>1, <3>1, <3>2 DEF DownSum
    <3> QED  BY <1>3, <2>7, <3>3
  <2>8. CASE to_local' = Append(to_local, k) /\ UNCHANGED <<up, early, overflow>>
    <3>1. Total(to_local') = Total(to_local) + k
      BY <2>2, <2>8, LastChunk DEF ShapeInv
    <3>2. DownSum' = DownSum
      BY <1>1, <2>1, <2>3, <2>8, <3>1 DEF DownSum
    <3> QED  BY <1>2, <3>2
  <2>9. CASE overflow' = overflow + k /\ UNCHANGED <<to_local, up, early>>
    <3>1. DownSum' = DownSum
      BY <1>1, <2>1, <2>3, <2>9 DEF DownSum
    <3> QED  BY <1>2, <3>1
  <2> QED  BY <2>4, <2>5, <2>6, <2>7, <2>8, <2>9
<1>24. DispatchCreate => DownInv'
  <2> SUFFICES ASSUME DispatchCreate PROVE DownInv'
    OBVIOUS
  <2>1. BytesOf("Credit", up') = BytesOf("Credit", up)
    BY <1>1, Heads DEF DispatchCreate, Dispatch
  <2> QED  BY <1>6, <2>1 DEF DispatchCreate, Dispatch, client, counts
<1>25. DispatchClose => DownInv'
  <2> SUFFICES ASSUME DispatchClose PROVE DownInv'
    OBVIOUS
  <2>1. BytesOf("Credit", up') = BytesOf("Credit", up)
    BY <1>1, Heads DEF DispatchClose, Dispatch
  <2> QED  BY <1>6, <2>1 DEF DispatchClose, Dispatch, client, counts
<1>26. DispatchData => DownInv'
  <2> SUFFICES ASSUME DispatchData PROVE DownInv'
    OBVIOUS
  <2>1. BytesOf("Credit", up') = BytesOf("Credit", up)
    BY <1>1, Heads DEF DispatchData, Dispatch
  <2> QED  BY <1>6, <2>1 DEF DispatchData, Dispatch, client, counts
<1>27. DispatchCredit => DownInv'
  <2> SUFFICES ASSUME DispatchCredit PROVE DownInv'
    OBVIOUS
  <2> DEFINE k == Head(up).n
  <2>1. /\ k \in Nat /\ k >= 1 /\ BytesOf("Credit", up') \in Nat
        /\ BytesOf("Credit", up) = k + BytesOf("Credit", up')
    BY Heads DEF DispatchCredit, Dispatch
  <2>2. UNCHANGED <<data, down, to_local, early, overflow, relay>>
    BY DEF DispatchCredit, Dispatch, client, counts
  <2>3. granted' = IF entry = "in" THEN granted + k ELSE granted
    BY DEF DispatchCredit
  <2>4. create \in {"done", "failed"}
    BY CreateFirst DEF DispatchCredit, Dispatch, ShapeInv
  <2> HIDE DEF k
  <2>5. CASE entry = "in"
    <3>1. DownSum' = DownSum
      BY <1>1, <2>1, <2>2, <2>3, <2>5 DEF DownSum
    <3> QED  BY <1>2, <3>1
  <2>6. CASE entry # "in" /\ relay = "none"
    <3>1. granted = Window
      BY <2>6 DEF TaskInv
    <3>2. DownSum > Window
      BY <1>1, <2>1, <3>1 DEF DownSum
    <3> QED  BY <1>1, <3>2 DEF DownInv
  <2>7. CASE entry # "in" /\ relay # "none"
    <3>1. relay' = "ended"
      BY <2>2, <2>4, <2>7 DEF TaskInv, ShapeInv
    <3>2. DownSum' \in Nat /\ DownSum' <= DownSum
      BY <1>1, <2>1, <2>2, <2>3, <2>7 DEF DownSum
    <3> QED  BY <1>3, <3>1, <3>2
  <2> QED  BY <2>5, <2>6, <2>7
<1>28. StoreFlow => DownInv'
  BY <1>4 DEF StoreFlow, client, queues, counts
<1>29. ConnectFails => DownInv'
  BY <1>4 DEF ConnectFails, client, queues, counts
<1>30. SpawnTasks => DownInv'
  BY <1>4 DEF SpawnTasks, client, queues, counts
<1>31. WriteTarget => DownInv'
  BY <1>4 DEF WriteTarget, client, queues, counts
<1>32. WriteFails => DownInv'
  BY <1>4 DEF WriteFails, client, queues, counts
<1>33. RelayCloses => DownInv'
  BY <1>4 DEF RelayCloses, client, queues, counts
<1>34. (\E n \in 1..MaxFrame : ReadTarget(n)) => DownInv'
  <2> SUFFICES ASSUME NEW k \in 1..MaxFrame, ReadTarget(k) PROVE DownInv'
    OBVIOUS
  <2>1. /\ k \in Nat /\ k <= granted /\ granted' = granted - k /\ data' = Append(data, Msg("Data", k))
        /\ UNCHANGED <<down, to_local, up, early, overflow>>
    BY MuxFlowAssumption DEF ReadTarget, client
  <2>2. BytesOf("Data", data') = BytesOf("Data", data) + k
    BY <1>0, <2>1, PutFrame
  <2>3. DownSum' = DownSum
    BY <1>1, <2>1, <2>2 DEF DownSum
  <2> QED  BY <1>2, <2>3
<1>35. SendControl => DownInv'
  <2> SUFFICES ASSUME SendControl PROVE DownInv'
    OBVIOUS
  <2>1. BytesOf("Data", down') = BytesOf("Data", down)
    BY Moved
  <2> QED  BY <1>6, <2>1 DEF SendControl, client, server, counts
<1>36. SendData => DownInv'
  <2> SUFFICES ASSUME SendData PROVE DownInv'
    OBVIOUS
  <2>1. UNCHANGED <<granted, to_local, up, early, overflow>>
    BY DEF SendData, client, server, counts
  <2>2. /\ BytesOf("Data", data') + BytesOf("Data", down') = BytesOf("Data", data) + BytesOf("Data", down)
        /\ BytesOf("Data", data') \in Nat /\ BytesOf("Data", down') \in Nat
    BY Moved
  <2>3. DownSum' = DownSum
    BY <1>1, <2>1, <2>2 DEF DownSum
  <2> QED  BY <1>2, <2>3
<1>37. Client => DownInv'
  BY <1>7, <1>8, <1>9, <1>10, <1>11, <1>12, <1>13, <1>14, <1>15,
     <1>16, <1>17, <1>18, <1>19, <1>20, <1>21, <1>22, <1>23 DEF Client
<1>38. Server => DownInv'
  BY <1>24, <1>25, <1>26, <1>27, <1>28, <1>29, <1>30, <1>31, <1>32,
     <1>33, <1>34, <1>35, <1>36
  DEF Server, Receiver, TargetEnds, StallDown
<1> QED
  BY <1>37, <1>38 DEF Next

(* The bytes that left the application and were neither lost nor sent twice. *)
UpCount == written + Total(to_target) + BytesOf("Data", up) + rest + Total(to_ws) + hand

(* The bytes that left the target and were neither lost in silence nor sent twice. *)
DownCount == delivered + Total(to_local) + BytesOf("Data", down) + BytesOf("Data", data)
                 + early + overflow

(* No step invents a byte on the way from the application to the target. *)
LEMMA UpCountStep ==
    ASSUME ShapeInv, OrderInv, TaskInv, CountInv, Next
    PROVE  sent' <= UpBytes /\ UpCount' <= sent'
<1> DEFINE Goal == sent' <= UpBytes /\ UpCount' <= sent'
<1> SUFFICES Goal
  OBVIOUS
<1>0. up \in Seq(Msgs) /\ 1 \in 1..MaxFrame
  BY Counted, MuxFlowAssumption
<1>1. /\ written \in Nat /\ rest \in Nat /\ hand \in Nat /\ sent \in Nat /\ UpBytes \in Nat
      /\ BytesOf("Data", up) \in Nat /\ Total(to_target) \in Nat /\ Total(to_ws) \in Nat
      /\ UpCount \in Nat
  <2>1. written \in Nat /\ rest \in Nat /\ hand \in Nat /\ sent \in Nat /\ UpBytes \in Nat
    BY MuxFlowAssumption DEF ShapeInv
  <2>2. BytesOf("Data", up) \in Nat /\ Total(to_target) \in Nat /\ Total(to_ws) \in Nat
    BY Counted
  <2> QED  BY <2>1, <2>2 DEF UpCount
<1>2. sent <= UpBytes /\ UpCount <= sent
  BY DEF CountInv, UpCount
<1>3. ASSUME UpCount' \in Nat, UpCount' <= UpCount, sent' = sent
      PROVE  Goal
  BY <1>1, <1>2, <1>3
<1>4. ASSUME BytesOf("Data", up') = BytesOf("Data", up), UNCHANGED <<written, to_target, rest, to_ws, hand, sent>>
      PROVE  Goal
  <2>1. UpCount' = UpCount
    BY <1>4 DEF UpCount
  <2> QED  BY <1>1, <1>3, <1>4, <2>1
<1>5. ASSUME BytesOf("Data", up') = BytesOf("Data", up), to_target' = <<>>,
             UNCHANGED <<written, rest, to_ws, hand, sent>>
      PROVE  Goal
  <2>1. Total(to_target') = 0
    BY <1>5, TotalEmpty
  <2>2. UpCount' \in Nat /\ UpCount' <= UpCount
    BY <1>1, <1>5, <2>1 DEF UpCount
  <2> QED  BY <1>3, <1>5, <2>2
<1> HIDE DEF Goal
<1>6. SendCreate => Goal
  <2> SUFFICES ASSUME SendCreate PROVE Goal
    OBVIOUS
  <2>1. up' = Append(up, Msg("Create", 0))
        /\ UNCHANGED <<written, to_target, rest, to_ws, hand, sent>>
    BY DEF SendCreate, server, counts
  <2>2. BytesOf("Data", up') = BytesOf("Data", up)
    BY <1>0, <2>1, PutFrame
  <2> QED  BY <1>4, <2>1, <2>2
<1>7. DropFlow => Goal
  <2> SUFFICES ASSUME DropFlow PROVE Goal
    OBVIOUS
  <2>1. up' = Append(up, Msg("Close", 0))
        /\ UNCHANGED <<written, to_target, rest, to_ws, hand, sent>>
    BY DEF DropFlow, server, counts
  <2>2. BytesOf("Data", up') = BytesOf("Data", up)
    BY <1>0, <2>1, PutFrame
  <2> QED  BY <1>4, <2>1, <2>2
<1>8. StallUp => Goal
  <2> SUFFICES ASSUME StallUp PROVE Goal
    OBVIOUS
  <2>1. up' = Append(up, Msg("Close", 0))
        /\ UNCHANGED <<written, to_target, rest, to_ws, hand, sent>>
    BY DEF StallUp, server, counts
  <2>2. BytesOf("Data", up') = BytesOf("Data", up)
    BY <1>0, <2>1, PutFrame
  <2> QED  BY <1>4, <2>1, <2>2
<1>9. InsertState => Goal
  BY <1>4 DEF InsertState, server, counts
<1>10. ChannelEnds => Goal
  BY <1>4 DEF ChannelEnds, server, counts
<1>11. AppCloses => Goal
  BY <1>4 DEF AppCloses, server, counts
<1>12. Unpark => Goal
  BY <1>4 DEF Unpark, server, counts
<1>13. LoopEnds => Goal
  BY <1>4 DEF LoopEnds, server, counts
<1>14. ReceiveCreated => Goal
  BY <1>4 DEF ReceiveCreated, Receive, server
<1>15. ReceiveClose => Goal
  BY <1>4 DEF ReceiveClose, Receive, server
<1>16. ReceiveCredit => Goal
  BY <1>4 DEF ReceiveCredit, Receive, server
<1>17. StoreFlow => Goal
  BY <1>4 DEF StoreFlow, client, counts
<1>18. ConnectFails => Goal
  BY <1>4 DEF ConnectFails, client, counts
<1>19. SpawnTasks => Goal
  BY <1>4 DEF SpawnTasks, client, counts
<1>20. (\E n \in 1..MaxFrame : ReadTarget(n)) => Goal
  BY <1>4 DEF ReadTarget, client
<1>21. SendControl => Goal
  BY <1>4 DEF SendControl, client, server, counts
<1>22. SendData => Goal
  BY <1>4 DEF SendData, client, server, counts
<1>23. (\E n \in 1..MaxFrame : ReadApp(n)) => Goal
  <2> SUFFICES ASSUME NEW k \in 1..MaxFrame, ReadApp(k) PROVE Goal
    OBVIOUS
  <2>1. /\ k \in Nat /\ sent + k <= UpBytes /\ sent' = sent + k /\ hand' = k
        /\ UNCHANGED <<written, to_target, up, rest, to_ws>>
    BY MuxFlowAssumption DEF ReadApp, server
  <2>2. UpCount' <= UpCount + k
    BY <1>1, <2>1 DEF UpCount
  <2>3. UpCount' \in Nat
    BY <1>1, <2>1 DEF UpCount
  <2> QED  BY <1>1, <1>2, <2>1, <2>2, <2>3 DEF Goal
<1>24. Push => Goal
  <2> SUFFICES ASSUME Push PROVE Goal
    OBVIOUS
  <2>1. /\ hand \in 1..MaxFrame /\ hand' = 0 /\ to_ws' \in {to_ws, Append(to_ws, hand)}
        /\ UNCHANGED <<written, to_target, up, rest, sent>>
    BY DEF Push, ShapeInv, server, counts
  <2>2. Total(to_ws') \in {Total(to_ws), Total(to_ws) + hand}
    BY Zenon, <2>1, LastChunk DEF ShapeInv
  <2>3. UpCount' \in Nat /\ UpCount' <= UpCount
    BY <1>1, <2>1, <2>2 DEF UpCount
  <2> QED  BY <1>3, <2>1, <2>3
<1>25. WriteApp => Goal
  <2> SUFFICES ASSUME WriteApp PROVE Goal
    OBVIOUS
  <2>1. Head(to_local) \in 1..MaxFrame
    BY FirstChunk DEF WriteApp, ShapeInv
  <2>2. BytesOf("Data", up') = BytesOf("Data", up)
    BY <1>0, <2>1, PutFrame DEF WriteApp
  <2> QED  BY <1>4, <2>2 DEF WriteApp, server
<1>26. SendChunk => Goal
  <2> SUFFICES ASSUME SendChunk PROVE Goal
    OBVIOUS
  <2>1. PICK k \in 1..MaxFrame :
                /\ up' = Append(up, Msg("Data", k))
                /\ rest' \in Nat /\ Total(to_ws') \in Nat
                /\ k + rest' + Total(to_ws') = rest + Total(to_ws)
    BY ChunkSent
  <2>2. BytesOf("Data", up') = BytesOf("Data", up) + k /\ k \in Nat
    BY <1>0, <2>1, PutFrame, MuxFlowAssumption
  <2>3. UNCHANGED <<written, to_target, hand, sent>>
    BY DEF SendChunk, server, counts
  <2>4. /\ rest' \in Nat /\ Total(to_ws') \in Nat
        /\ k + rest' + Total(to_ws') = rest + Total(to_ws)
    BY <2>1
  <2>5. written' = written /\ Total(to_target') = Total(to_target) /\ hand' = hand
    BY <2>3
  <2>6. UpCount' = UpCount
    BY <1>1, <2>2, <2>4, <2>5 DEF UpCount
  <2> QED  BY <1>1, <1>3, <2>3, <2>6
<1>27. Park => Goal
  <2> SUFFICES ASSUME Park PROVE Goal
    OBVIOUS
  <2>1. UNCHANGED <<written, to_target, up, hand, sent>>
    BY DEF Park, server, counts
  <2>2. /\ rest' \in Nat /\ Total(to_ws') \in Nat
        /\ rest' + Total(to_ws') = rest + Total(to_ws)
    <3>1. CASE rest > 0
      BY <1>1, <3>1 DEF Park, Chunk, TakeChunk
    <3>2. CASE rest = 0
      <4>1. to_ws \in Seq(1..MaxFrame) /\ to_ws # <<>> /\ rest' = Head(to_ws) /\ to_ws' = Tail(to_ws)
        BY <3>2 DEF Park, HasChunk, Chunk, TakeChunk, ShapeInv
      <4>2. /\ Head(to_ws) \in Nat /\ Total(Tail(to_ws)) \in Nat
            /\ Total(to_ws) = Head(to_ws) + Total(Tail(to_ws))
        BY <4>1, FirstChunk, MuxFlowAssumption
      <4> QED  BY <1>1, <3>2, <4>1, <4>2
    <3> QED  BY <1>1, <3>1, <3>2
  <2>3. UpCount' = UpCount
    BY <1>1, <2>1, <2>2 DEF UpCount
  <2> QED  BY <1>1, <1>3, <2>1, <2>3
<1>28. ReceiveData => Goal
  <2> SUFFICES ASSUME ReceiveData PROVE Goal
    OBVIOUS
  <2>1. up' \in {up, Append(up, Msg("Close", 0))}
    BY DEF ReceiveData
  <2>2. BytesOf("Data", up') = BytesOf("Data", up)
    BY Zenon, <1>0, <2>1, PutFrame
  <2> QED  BY <1>4, <2>2 DEF ReceiveData, Receive, server
<1>29. DispatchCreate => Goal
  <2> SUFFICES ASSUME DispatchCreate PROVE Goal
    OBVIOUS
  <2>1. BytesOf("Data", up') = BytesOf("Data", up)
    BY <1>1, Heads DEF DispatchCreate, Dispatch
  <2> QED  BY <1>4, <2>1 DEF DispatchCreate, Dispatch, client, counts
<1>30. DispatchCredit => Goal
  <2> SUFFICES ASSUME DispatchCredit PROVE Goal
    OBVIOUS
  <2>1. BytesOf("Data", up') = BytesOf("Data", up)
    BY <1>1, Heads DEF DispatchCredit, Dispatch
  <2> QED  BY <1>4, <2>1 DEF DispatchCredit, Dispatch, client, counts
<1>31. DispatchClose => Goal
  <2> SUFFICES ASSUME DispatchClose PROVE Goal
    OBVIOUS
  <2>1. BytesOf("Data", up') = BytesOf("Data", up)
    BY <1>1, Heads DEF DispatchClose, Dispatch
  <2>2. to_target' = to_target \/ to_target' = <<>>
    BY DEF DispatchClose, RemoveFlow
  <2> QED  BY <1>4, <1>5, <2>1, <2>2 DEF DispatchClose, Dispatch, client, counts
<1>32. DispatchData => Goal
  <2> SUFFICES ASSUME DispatchData PROVE Goal
    OBVIOUS
  <2> DEFINE k == Head(up).n
  <2>1. /\ k \in Nat /\ k >= 1 /\ BytesOf("Data", up') \in Nat
        /\ BytesOf("Data", up) = k + BytesOf("Data", up')
    BY Heads DEF DispatchData, Dispatch
  <2>2. k \in 1..MaxFrame
    <3>1. Head(up) \in Msgs
      BY <1>0, HeadTailProperties DEF DispatchData, Dispatch
    <3> QED  BY <2>1, <3>1 DEF Msgs
  <2>3. UNCHANGED <<written, rest, to_ws, hand, sent>>
    BY DEF DispatchData, Dispatch, client, counts
  <2>4. to_target' \in {to_target, Append(to_target, k), <<>>}
    BY DEF DispatchData, RemoveFlow
  <2> HIDE DEF k
  <2>5. Total(to_target') \in {Total(to_target), Total(to_target) + k, 0}
    BY Zenon, <2>2, <2>4, LastChunk, TotalEmpty DEF ShapeInv
  <2>6. UpCount' \in Nat /\ UpCount' <= UpCount
    BY <1>1, <2>1, <2>3, <2>5 DEF UpCount
  <2> QED  BY <1>3, <2>3, <2>6
<1>33. WriteTarget => Goal
  <2> SUFFICES ASSUME WriteTarget PROVE Goal
    OBVIOUS
  <2> DEFINE k == Head(to_target)
  <2>1. /\ k \in 1..MaxFrame /\ Total(to_target') \in Nat /\ Total(to_target) = k + Total(to_target')
        /\ written' = written + k
    BY FirstChunk DEF WriteTarget, ShapeInv
  <2>2. UNCHANGED <<up, rest, to_ws, hand, sent>> /\ k \in Nat
    BY <2>1, MuxFlowAssumption DEF WriteTarget, client
  <2> HIDE DEF k
  <2>3. UpCount' = UpCount
    BY <1>1, <2>1, <2>2 DEF UpCount
  <2> QED  BY <1>1, <1>3, <2>2, <2>3
<1>34. WriteFails => Goal
  <2> SUFFICES ASSUME WriteFails PROVE Goal
    OBVIOUS
  <2>1. to_target' = to_target \/ to_target' = <<>>
    BY DEF WriteFails, RemoveFlow
  <2> QED  BY <1>4, <1>5, <2>1 DEF WriteFails, client, counts
<1>35. RelayCloses => Goal
  <2> SUFFICES ASSUME RelayCloses PROVE Goal
    OBVIOUS
  <2>1. to_target' = to_target \/ to_target' = <<>>
    BY DEF RelayCloses, RemoveFlow
  <2> QED  BY <1>4, <1>5, <2>1 DEF RelayCloses, client, counts
<1> HIDE DEF Goal
<1>36. Client => Goal
  BY <1>6, <1>7, <1>8, <1>9, <1>10, <1>11, <1>12, <1>13, <1>14,
     <1>15, <1>16, <1>23, <1>24, <1>25, <1>26, <1>27, <1>28 DEF Client
<1>37. Server => Goal
  BY <1>17, <1>18, <1>19, <1>20, <1>21, <1>22, <1>29, <1>30, <1>31,
     <1>32, <1>33, <1>34, <1>35
  DEF Server, Receiver, TargetEnds, StallDown
<1> QED
  BY <1>36, <1>37 DEF Next

(* No step invents a byte on the way from the target to the application. *)
LEMMA DownCountStep ==
    ASSUME ShapeInv, OrderInv, TaskInv, CountInv, Next
    PROVE  received' <= DownBytes /\ DownCount' <= received'
<1> DEFINE Goal == received' <= DownBytes /\ DownCount' <= received'
<1> SUFFICES Goal
  OBVIOUS
<1>0. data \in Seq(Msgs)
  BY Counted
<1>1. /\ delivered \in Nat /\ early \in Nat /\ overflow \in Nat /\ received \in Nat /\ DownBytes \in Nat
      /\ BytesOf("Data", down) \in Nat /\ BytesOf("Data", data) \in Nat /\ Total(to_local) \in Nat
      /\ DownCount \in Nat
  <2>1. delivered \in Nat /\ early \in Nat /\ overflow \in Nat /\ received \in Nat /\ DownBytes \in Nat
    BY MuxFlowAssumption DEF ShapeInv
  <2>2. BytesOf("Data", down) \in Nat /\ BytesOf("Data", data) \in Nat /\ Total(to_local) \in Nat
    BY Counted
  <2> QED  BY <2>1, <2>2 DEF DownCount
<1>2. received <= DownBytes /\ DownCount <= received
  BY DEF CountInv, DownCount
<1>3. ASSUME DownCount' \in Nat, DownCount' <= DownCount, received' = received
      PROVE  Goal
  BY <1>1, <1>2, <1>3
<1>4. ASSUME BytesOf("Data", down') = BytesOf("Data", down),
             UNCHANGED <<delivered, to_local, data, early, overflow, received>>
      PROVE  Goal
  <2>1. DownCount' = DownCount
    BY <1>4 DEF DownCount
  <2> QED  BY <1>1, <1>3, <1>4, <2>1
<1> HIDE DEF Goal
<1>5. SendCreate => Goal
  BY <1>4 DEF SendCreate, queues, counts
<1>6. StallUp => Goal
  BY <1>4 DEF StallUp, queues, counts
<1>7. InsertState => Goal
  BY <1>4 DEF InsertState, queues, counts
<1>8. ChannelEnds => Goal
  BY <1>4 DEF ChannelEnds, queues, counts
<1>9. AppCloses => Goal
  BY <1>4 DEF AppCloses, queues, counts
<1>10. Unpark => Goal
  BY <1>4 DEF Unpark, queues, counts
<1>11. LoopEnds => Goal
  BY <1>4 DEF LoopEnds, queues, counts
<1>12. Push => Goal
  BY <1>4 DEF Push, queues, counts
<1>13. SendChunk => Goal
  BY <1>4 DEF SendChunk, queues, counts
<1>14. Park => Goal
  BY <1>4 DEF Park, queues, counts
<1>15. (\E n \in 1..MaxFrame : ReadApp(n)) => Goal
  BY <1>4 DEF ReadApp, queues
<1>16. WriteApp => Goal
  <2> SUFFICES ASSUME WriteApp PROVE Goal
    OBVIOUS
  <2> DEFINE k == Head(to_local)
  <2>1. /\ k \in 1..MaxFrame /\ Total(to_local') \in Nat /\ Total(to_local) = k + Total(to_local')
        /\ delivered' = delivered + k
    BY FirstChunk DEF WriteApp, ShapeInv
  <2>2. UNCHANGED <<down, data, early, overflow, received>> /\ k \in Nat
    BY <2>1, MuxFlowAssumption DEF WriteApp, queues
  <2> HIDE DEF k
  <2>3. DownCount' = DownCount
    BY <1>1, <2>1, <2>2 DEF DownCount
  <2> QED  BY <1>1, <1>3, <2>2, <2>3
<1>17. DropFlow => Goal
  <2> SUFFICES ASSUME DropFlow PROVE Goal
    OBVIOUS
  <2>1. to_local' = <<>> /\ UNCHANGED <<delivered, down, data, early, overflow, received>>
    BY DEF DropFlow, queues, counts
  <2>2. Total(to_local') = 0
    BY <2>1, TotalEmpty
  <2>3. DownCount' \in Nat /\ DownCount' <= DownCount
    BY <1>1, <2>1, <2>2 DEF DownCount
  <2> QED  BY <1>3, <2>1, <2>3
<1>18. ReceiveCreated => Goal
  <2> SUFFICES ASSUME ReceiveCreated PROVE Goal
    OBVIOUS
  <2>1. BytesOf("Data", down') = BytesOf("Data", down)
    BY <1>1, Heads DEF ReceiveCreated, Receive
  <2> QED  BY <1>4, <2>1 DEF ReceiveCreated, Receive, queues
<1>19. ReceiveClose => Goal
  <2> SUFFICES ASSUME ReceiveClose PROVE Goal
    OBVIOUS
  <2>1. BytesOf("Data", down') = BytesOf("Data", down)
    BY <1>1, Heads DEF ReceiveClose, Receive
  <2> QED  BY <1>4, <2>1 DEF ReceiveClose, Receive, queues
<1>20. ReceiveCredit => Goal
  <2> SUFFICES ASSUME ReceiveCredit PROVE Goal
    OBVIOUS
  <2>1. BytesOf("Data", down') = BytesOf("Data", down)
    BY <1>1, Heads DEF ReceiveCredit, Receive
  <2> QED  BY <1>4, <2>1 DEF ReceiveCredit, Receive, queues
<1>21. ReceiveData => Goal
  <2> SUFFICES ASSUME ReceiveData PROVE Goal
    OBVIOUS
  <2> DEFINE k == Head(down).n
  <2>1. /\ k \in Nat /\ k >= 1 /\ BytesOf("Data", down') \in Nat
        /\ BytesOf("Data", down) = k + BytesOf("Data", down')
    BY Heads DEF ReceiveData, Receive
  <2>2. k \in 1..MaxFrame
    <3>1. Head(down) \in Msgs
      BY Counted, HeadTailProperties DEF ReceiveData, Receive
    <3> QED  BY <2>1, <3>1 DEF Msgs
  <2>3. delivered' = delivered /\ BytesOf("Data", data') = BytesOf("Data", data) /\ received' = received
    BY DEF ReceiveData, Receive, queues
  <2>4. \/ early' \in {early, early + k} /\ UNCHANGED <<to_local, overflow>>
        \/ to_local' = Append(to_local, k) /\ UNCHANGED <<early, overflow>>
        \/ overflow' = overflow + k /\ UNCHANGED <<to_local, early>>
    BY DEF ReceiveData
  <2> HIDE DEF k
  <2>5. /\ early' \in Nat /\ Total(to_local') \in Nat /\ overflow' \in Nat
        /\ early' + Total(to_local') + overflow' <= early + Total(to_local) + overflow + k
    <3>1. Total(Append(to_local, k)) = Total(to_local) + k
      BY <2>2, LastChunk DEF ShapeInv
    <3>2. CASE early' \in {early, early + k} /\ UNCHANGED <<to_local, overflow>>
      BY <1>1, <2>1, <3>2
    <3>3. CASE to_local' = Append(to_local, k) /\ UNCHANGED <<early, overflow>>
      BY <1>1, <2>1, <3>1, <3>3
    <3>4. CASE overflow' = overflow + k /\ UNCHANGED <<to_local, early>>
      BY <1>1, <2>1, <3>4
    <3> QED  BY <2>4, <3>2, <3>3, <3>4
  <2>6. DownCount' \in Nat /\ DownCount' <= DownCount
    BY <1>1, <2>1, <2>3, <2>5 DEF DownCount
  <2> QED  BY <1>3, <2>3, <2>6
<1>22. DispatchCreate => Goal
  BY <1>4 DEF DispatchCreate, Dispatch, client, counts
<1>23. DispatchClose => Goal
  BY <1>4 DEF DispatchClose, Dispatch, client, counts
<1>24. DispatchCredit => Goal
  BY <1>4 DEF DispatchCredit, Dispatch, client, counts
<1>25. DispatchData => Goal
  BY <1>4 DEF DispatchData, Dispatch, client, counts
<1>26. StoreFlow => Goal
  BY <1>4 DEF StoreFlow, client, queues, counts
<1>27. ConnectFails => Goal
  BY <1>4 DEF ConnectFails, client, queues, counts
<1>28. SpawnTasks => Goal
  BY <1>4 DEF SpawnTasks, client, queues, counts
<1>29. WriteTarget => Goal
  BY <1>4 DEF WriteTarget, client, queues, counts
<1>30. WriteFails => Goal
  BY <1>4 DEF WriteFails, client, queues, counts
<1>31. RelayCloses => Goal
  BY <1>4 DEF RelayCloses, client, queues, counts
<1>32. (\E n \in 1..MaxFrame : ReadTarget(n)) => Goal
  <2> SUFFICES ASSUME NEW k \in 1..MaxFrame, ReadTarget(k) PROVE Goal
    OBVIOUS
  <2>1. /\ k \in Nat /\ received + k <= DownBytes /\ received' = received + k
        /\ data' = Append(data, Msg("Data", k))
        /\ UNCHANGED <<delivered, down, to_local, early, overflow>>
    BY MuxFlowAssumption DEF ReadTarget, client
  <2>2. BytesOf("Data", data') = BytesOf("Data", data) + k
    BY <1>0, <2>1, PutFrame
  <2>3. /\ received + k <= DownBytes /\ received' = received + k /\ k \in Nat
        /\ delivered' = delivered /\ BytesOf("Data", down') = BytesOf("Data", down)
        /\ Total(to_local') = Total(to_local) /\ early' = early /\ overflow' = overflow
    BY <2>1
  <2>4. DownCount' = DownCount + k
    BY <1>1, <2>2, <2>3 DEF DownCount
  <2> QED  BY <1>1, <1>2, <2>3, <2>4 DEF Goal
<1>33. SendControl => Goal
  <2> SUFFICES ASSUME SendControl PROVE Goal
    OBVIOUS
  <2>1. BytesOf("Data", down') = BytesOf("Data", down)
    BY Moved
  <2> QED  BY <1>4, <2>1 DEF SendControl, client, counts
<1>34. SendData => Goal
  <2> SUFFICES ASSUME SendData PROVE Goal
    OBVIOUS
  <2>1. delivered' = delivered /\ Total(to_local') = Total(to_local) /\ early' = early
        /\ overflow' = overflow /\ received' = received
    BY DEF SendData, client, counts
  <2>2. /\ BytesOf("Data", data') + BytesOf("Data", down') = BytesOf("Data", data) + BytesOf("Data", down)
        /\ BytesOf("Data", data') \in Nat /\ BytesOf("Data", down') \in Nat
    BY Moved
  <2>3. DownCount' = DownCount
    BY <1>1, <2>1, <2>2 DEF DownCount
  <2> QED  BY <1>1, <1>3, <2>1, <2>3
<1> HIDE DEF Goal
<1>35. Client => Goal
  BY <1>5, <1>6, <1>7, <1>8, <1>9, <1>10, <1>11, <1>12, <1>13,
     <1>14, <1>15, <1>16, <1>17, <1>18, <1>19, <1>20, <1>21 DEF Client
<1>36. Server => Goal
  BY <1>22, <1>23, <1>24, <1>25, <1>26, <1>27, <1>28, <1>29, <1>30,
     <1>31, <1>32, <1>33, <1>34
  DEF Server, Receiver, TargetEnds, StallDown
<1> QED
  BY <1>35, <1>36 DEF Next

(* The inductive invariant: it holds before open_flow, and every step of either
   side keeps it. *)
LEMMA MuxInvariant == Spec => []MuxInv
<1>1. Init => MuxInv
  <2> SUFFICES ASSUME Init PROVE MuxInv
    OBVIOUS
  <2>1. /\ Total(to_target) = 0 /\ Total(to_ws) = 0 /\ Total(to_local) = 0
        /\ BytesOf("Data", up) = 0 /\ BytesOf("Credit", up) = 0
        /\ BytesOf("Data", down) = 0 /\ BytesOf("Credit", down) = 0
        /\ BytesOf("Credit", control) = 0 /\ BytesOf("Data", data) = 0
    BY TotalEmpty, BytesEmpty DEF Init
  <2>2. ShapeInv
    <3>1. \A S : <<>> \in Seq(S) /\ Len(<<>>) = 0
      BY EmptySeq
    <3> QED  BY <3>1, MuxFlowAssumption DEF Init, ShapeInv
  <2>3. OrderInv
    BY DEF Init, OrderInv
  <2>4. TaskInv
    BY DEF Init, TaskInv
  <2>5. credits = Window /\ granted = Window /\ early = 0 /\ overflow = 0
        /\ sent = 0 /\ received = 0 /\ written = 0 /\ delivered = 0 /\ rest = 0 /\ hand = 0
        /\ Window \in Nat /\ UpBytes \in Nat /\ DownBytes \in Nat
    BY MuxFlowAssumption DEF Init
  <2>6. UpInv
    BY <2>1, <2>5 DEF UpInv, UpSum
  <2>7. DownInv
    BY <2>1, <2>5 DEF DownInv, DownSum
  <2>8. CountInv
    BY <2>1, <2>5 DEF CountInv
  <2> QED  BY <2>2, <2>3, <2>4, <2>6, <2>7, <2>8 DEF MuxInv
<1>2. MuxInv /\ [Next]_vars => MuxInv'
  <2>1. ASSUME MuxInv, Next PROVE MuxInv'
    <3>1. ShapeInv /\ OrderInv /\ TaskInv /\ UpInv /\ DownInv /\ CountInv
      BY <2>1 DEF MuxInv
    <3>2. ShapeInv'
      BY <2>1, <3>1, ClientShape, ServerShape DEF Next
    <3>3. OrderInv' /\ TaskInv'
      BY <2>1, <3>1, OrderStep, TaskStep
    <3>4. UpInv' /\ DownInv'
      BY <2>1, <3>1, UpStep, DownStep
    <3>5. CountInv'
      BY <2>1, <3>1, UpCountStep, DownCountStep DEF CountInv, UpCount, DownCount
    <3> QED  BY <3>2, <3>3, <3>4, <3>5 DEF MuxInv
  <2>2. ASSUME MuxInv, UNCHANGED vars PROVE MuxInv'
    <3>1. ShapeInv /\ OrderInv /\ TaskInv /\ UpInv /\ DownInv /\ CountInv
      BY <2>2 DEF MuxInv
    <3>2. ShapeInv'
      BY <2>2, <3>1 DEF ShapeInv, vars, client, server, queues, counts
    <3>3. OrderInv'
      BY <2>2, <3>1 DEF OrderInv, vars, client, server
    <3>4. TaskInv'
      BY <2>2, <3>1 DEF TaskInv, vars, client, server
    <3>5. UpInv'
      BY <2>2, <3>1 DEF UpInv, UpSum, vars, client, server, queues
    <3>6. DownInv'
      BY <2>2, <3>1 DEF DownInv, DownSum, Alive, vars, client, server, queues, counts
    <3>7. CountInv'
      BY <2>2, <3>1 DEF CountInv, vars, client, server, queues, counts
    <3> QED  BY <3>2, <3>3, <3>4, <3>5, <3>6, <3>7 DEF MuxInv
  <2> QED  BY <2>1, <2>2
<1> QED  BY <1>1, <1>2, PTL DEF Spec

(* What the sums bound: credits never exceed the window, and no side counts more
   bytes than were sent. *)
LEMMA Bounded ==
    ASSUME MuxInv
    PROVE  /\ credits \in 0..Window /\ granted \in 0..Window
           /\ sent \in 0..UpBytes /\ written \in 0..UpBytes
           /\ received \in 0..DownBytes /\ delivered \in 0..DownBytes
           /\ early \in 0..DownBytes /\ overflow \in 0..DownBytes
<1>1. ShapeInv /\ UpInv /\ DownInv /\ CountInv
  BY DEF MuxInv
<1>2. /\ credits \in Nat /\ granted \in Nat /\ rest \in Nat /\ hand \in Nat
      /\ sent \in Nat /\ received \in Nat /\ written \in Nat /\ delivered \in Nat
      /\ early \in Nat /\ overflow \in Nat
      /\ Window \in Nat /\ UpBytes \in Nat /\ DownBytes \in Nat
  BY <1>1, MuxFlowAssumption DEF ShapeInv
<1>3. /\ BytesOf("Data", up) \in Nat /\ BytesOf("Credit", up) \in Nat
      /\ BytesOf("Data", down) \in Nat /\ BytesOf("Credit", down) \in Nat
      /\ BytesOf("Credit", control) \in Nat /\ BytesOf("Data", data) \in Nat
      /\ Total(to_ws) \in Nat /\ Total(to_local) \in Nat /\ Total(to_target) \in Nat
  BY <1>1, Counted
<1>4. credits <= Window
  BY <1>1, <1>2, <1>3 DEF UpInv, UpSum
<1>5. granted <= Window
  BY <1>1, <1>2, <1>3 DEF DownInv, DownSum
<1>6. sent <= UpBytes /\ written <= UpBytes
  BY <1>1, <1>2, <1>3 DEF CountInv
<1>7. received <= DownBytes /\ delivered <= DownBytes
  BY <1>1, <1>2, <1>3 DEF CountInv
<1>8. early <= DownBytes /\ overflow <= DownBytes
  BY <1>1, <1>2, <1>3 DEF CountInv
<1> QED  BY <1>2, <1>4, <1>5, <1>6, <1>7, <1>8

(* Every frame on a queue is a frame of the type TypeOK names. *)
LEMMA Framed ==
    ASSUME ShapeInv
    PROVE  up \in Seq(Frames) /\ control \in Seq(Frames) /\ data \in Seq(Frames) /\ down \in Seq(Frames)
<1>1. Msgs \subseteq Frames
  BY MuxFlowAssumption DEF Msgs, Frames
<1>2. up \in Seq(Msgs) /\ control \in Seq(Msgs) /\ data \in Seq(Msgs) /\ down \in Seq(Msgs)
  BY Counted
<1> QED  BY <1>1, <1>2, SeqMonotonic, Zenon

(* Flow control of a flow, for every window, frame size and queue capacity, and
   whatever order its tasks, its frames and its ends come in: credits, bytes on
   their way and grants on their way back never exceed the window; while the
   flow is whole they make it up exactly, on the downlink until the client drops
   a frame; at no time are bytes invented, on either direction. *)
THEOREM FlowStaysConserved == Spec => []FlowConserved
<1>1. MuxInv => FlowConserved
  <2> SUFFICES ASSUME MuxInv PROVE FlowConserved
    OBVIOUS
  <2>1. ShapeInv /\ UpInv /\ DownInv /\ CountInv
    BY DEF MuxInv
  <2>2. TypeOK
    BY <2>1, Bounded, Framed DEF ShapeInv, TypeOK
  <2>3. UplinkConserved
    BY <2>1 DEF UpInv, UpSum, UplinkConserved
  <2>4. DownlinkConserved
    <3> DEFINE used == granted + BytesOf("Data", data) + BytesOf("Data", down)
                         + Total(to_local) + BytesOf("Credit", up)
    <3>1. /\ granted \in Nat /\ early \in Nat /\ overflow \in Nat
          /\ relay = "run" => relay # "ended"
      BY <2>1 DEF ShapeInv
    <3>2. used \in Nat
      <4>1. /\ BytesOf("Data", data) \in Nat /\ BytesOf("Data", down) \in Nat
            /\ Total(to_local) \in Nat /\ BytesOf("Credit", up) \in Nat
        BY <2>1, Counted
      <4> QED  BY <3>1, <4>1
    <3>3. /\ used + early + overflow <= Window
          /\ relay # "ended" /\ flow # "out" /\ Alive => used + early + overflow = Window
      <4>1. DownSum = used + early + overflow
        BY DEF DownSum
      <4> QED  BY <2>1, <4>1 DEF DownInv
    <3> HIDE DEF used
    <3>4. /\ used <= Window
          /\ relay # "ended" /\ flow # "out" /\ Alive /\ early = 0 /\ overflow = 0
                => used = Window
      BY <3>1, <3>2, <3>3, MuxFlowAssumption
    <3> USE DEF used
    <3> QED  BY <3>1, <3>4 DEF DownlinkConserved
  <2>5. NothingInvented
    <3>1. /\ delivered \in Nat /\ early \in Nat /\ overflow \in Nat /\ received \in Nat
      BY <2>1 DEF ShapeInv
    <3>2. BytesOf("Data", down) \in Nat /\ BytesOf("Data", data) \in Nat /\ Total(to_local) \in Nat
      BY <2>1, Counted
    <3>3. delivered + Total(to_local) + BytesOf("Data", down) + BytesOf("Data", data) <= received
      BY <2>1, <3>1, <3>2 DEF CountInv
    <3> QED  BY <2>1, <3>3 DEF CountInv, NothingInvented
  <2> QED  BY <2>2, <2>3, <2>4, <2>5 DEF FlowConserved
<1> QED  BY <1>1, MuxInvariant, PTL

(* The tasks of a flow die with it, for every interleaving of CreateFlow,
   CloseFlow, a failing write, the end of the target and the stall valves:
   once CreateFlow is handled, a relay or a writer that runs has its entry in
   the flow map, where remove_flow will find it. *)
THEOREM TasksDieWithFlow == Spec => []NoOrphanTasks
<1>1. MuxInv => NoOrphanTasks
  <2> SUFFICES ASSUME MuxInv, create # "spawned", "run" \in {relay, writer} PROVE entry = "in"
    BY DEF NoOrphanTasks
  <2>1. ShapeInv /\ TaskInv
    BY DEF MuxInv
  <2> QED  BY <2>1 DEF ShapeInv, TaskInv
<1> QED  BY <1>1, MuxInvariant, PTL
=============================================================================

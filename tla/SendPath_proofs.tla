---------------------------- MODULE SendPath_proofs ----------------------------
(***************************************************************************)
(* Proofs about SendPath, for every set of sending tasks and every bound on*)
(* the frames and on the socket's buffer.                                  *)
(***************************************************************************)
EXTENDS SendPath, TLAPS

\* Time limits of the provers, for a slow machine.
USE SMTT(10), ZenonT(20)

HoldsSendLock == {"locked", "encrypting", "encrypted", "sending"}

\* A frame encrypted and not yet on the wire is the youngest of all.
InHand(t) == pc[t] \in {"encrypted", "sending"}

(* The inductive invariant.  send_lock is held from encrypt to send, so at *)
(* most one frame is in hand and it carries the last number given out; the *)
(* wire is sorted, below that frame and not below what the peer expects.   *)
OrderInv ==
    /\ \A t \in Senders : pc[t] \in HoldsSendLock => send_lock = t
    /\ \A t \in Senders : InHand(t) =>
         /\ send_message_number = frame[t] + 1
         /\ recv_message_number <= frame[t]
         /\ \A i \in 1..Len(wire) : wire[i] < frame[t]
    /\ recv_message_number <= send_message_number
    /\ \A i \in 1..Len(wire) : /\ recv_message_number <= wire[i]
                               /\ wire[i] < send_message_number
    /\ \A i, j \in 1..Len(wire) : i < j => wire[i] < wire[j]
    /\ \A i \in 1..Len(accepted) : accepted[i] < recv_message_number
    /\ too_old = 0

\* Type correctness of the send path.
THEOREM TypeCorrect == Spec => []TypeOK
<1> USE SendPathAssumption DEF TypeOK, Tasks
<1>1. Init => TypeOK
  BY DEF Init
<1>2. TypeOK /\ [Next]_vars => TypeOK'
  <2> SUFFICES ASSUME TypeOK, [Next]_vars PROVE TypeOK'
    OBVIOUS
  <2> USE DEF Goto, locks, peer
  <2>1. ASSUME NEW t \in Senders, LockSend(t) \/ LockRatchet(t) \/ LockWs(t) \/ GiveUp(t)
        PROVE TypeOK'
    BY Zenon, <2>1 DEF LockSend, LockRatchet, LockWs, GiveUp
  <2>2. ASSUME NEW t \in Senders, Encrypt(t) PROVE TypeOK'
    BY <2>2 DEF Encrypt
  <2>3. ASSUME NEW t \in Senders, SendFrame(t) PROVE TypeOK'
    BY <2>3 DEF SendFrame
  <2>4. CASE PingLock \/ PingSend
    BY <2>4 DEF PingLock, PingSend
  <2>5. CASE Inbound \/ DecryptLock \/ DecryptDone
    BY <2>5 DEF Inbound, DecryptLock, DecryptDone
  <2>6. CASE Receive
    <3>1. Head(wire) \in Nat /\ Tail(wire) \in Seq(Nat)
      BY <2>6 DEF Receive
    <3>2. CASE Head(wire) < recv_message_number
      BY <2>6, <3>1, <3>2 DEF Receive
    <3>3. CASE ~(Head(wire) < recv_message_number)
      <4>1. accepted' = Append(accepted, Head(wire)) /\ recv_message_number' = Head(wire) + 1
        BY <2>6, <3>3 DEF Receive
      <4>2. accepted' \in Seq(Nat)
        BY <3>1, <4>1
      <4>3. recv_message_number' \in Nat /\ wire' \in Seq(Nat)
        BY <2>6, <3>1, <4>1 DEF Receive
      <4>4. UNCHANGED <<too_old, pc, locks, send_message_number, frame>>
        BY <2>6, <3>3 DEF Receive
      <4> QED
        BY <4>2, <4>3, <4>4
    <3> QED
      BY <3>2, <3>3
  <2>7. CASE UNCHANGED vars
    BY <2>7 DEF vars
  <2> QED
    BY Zenon, <2>1, <2>2, <2>3, <2>4, <2>5, <2>6, <2>7 DEF Next, Sender
<1> QED
  BY <1>1, <1>2, PTL DEF Spec

\* Every step keeps the wire in encryption order.
LEMMA OrderStep == TypeOK /\ OrderInv /\ [Next]_vars => OrderInv'
<1> SUFFICES ASSUME TypeOK, OrderInv, [Next]_vars PROVE OrderInv'
  OBVIOUS
<1> USE SendPathAssumption DEF TypeOK, Tasks, OrderInv, HoldsSendLock, InHand,
                               Goto, locks, peer
<1>1. ASSUME NEW t \in Senders, LockSend(t) PROVE OrderInv'
  BY <1>1 DEF LockSend
<1>2. ASSUME NEW t \in Senders, LockRatchet(t) \/ LockWs(t) PROVE OrderInv'
  BY <1>2 DEF LockRatchet, LockWs
<1>3. ASSUME NEW t \in Senders, GiveUp(t) PROVE OrderInv'
  BY <1>3 DEF GiveUp
<1>4. ASSUME NEW t \in Senders, Encrypt(t) PROVE OrderInv'
  <2>1. \A u \in Senders : u # t => ~InHand(u)
    BY <1>4 DEF Encrypt
  <2> QED
    BY <1>4, <2>1 DEF Encrypt
<1>5. ASSUME NEW t \in Senders, SendFrame(t) PROVE OrderInv'
  <2>1. \A u \in Senders : u # t => ~InHand(u)
    BY <1>5 DEF SendFrame
  <2>2. /\ Len(wire') = Len(wire) + 1 /\ Len(wire) \in Nat
        /\ \A i \in 1..Len(wire) : wire'[i] = wire[i]
        /\ wire'[Len(wire) + 1] = frame[t]
    BY <1>5 DEF SendFrame
  <2>3. \A i \in 1..Len(wire') : recv_message_number <= wire'[i] /\ wire'[i] < send_message_number
    BY <1>5, <2>2 DEF SendFrame
  <2>4. \A i, j \in 1..Len(wire') : i < j => wire'[i] < wire'[j]
    <3> SUFFICES ASSUME NEW i \in 1..Len(wire'), NEW j \in 1..Len(wire'), i < j
                 PROVE  wire'[i] < wire'[j]
      OBVIOUS
    <3>1. i \in 1..Len(wire) /\ wire'[i] = wire[i] /\ wire[i] < frame[t]
      BY <1>5, <2>2 DEF SendFrame
    <3>2. CASE j \in 1..Len(wire)
      BY <2>2, <3>1, <3>2
    <3>3. CASE j = Len(wire) + 1
      BY <2>2, <3>1, <3>3
    <3>4. j \in 1..Len(wire) \/ j = Len(wire) + 1
      <4> HIDE DEF TypeOK, OrderInv
      <4> QED
        BY <2>2
    <3> QED
      BY <3>2, <3>3, <3>4
  <2> QED
    BY <1>5, <2>1, <2>3, <2>4 DEF SendFrame
<1>6. CASE PingLock \/ PingSend
  <2>1. /\ \A t \in Senders : pc'[t] = pc[t]
        /\ UNCHANGED <<send_lock, send_message_number, frame, wire, peer>>
    BY <1>6 DEF PingLock, PingSend
  <2> QED
    BY <2>1
<1>7. CASE Inbound \/ DecryptLock \/ DecryptDone
  <2>1. /\ \A t \in Senders : pc'[t] = pc[t]
        /\ UNCHANGED <<send_lock, send_message_number, frame, wire, peer>>
    BY <1>7 DEF Inbound, DecryptLock, DecryptDone
  <2> QED
    BY <2>1
<1>8. CASE Receive
  <2>1. /\ Len(wire') = Len(wire) - 1 /\ Len(wire) \in Nat \ {0}
        /\ Head(wire) = wire[1] /\ wire[1] \in Nat
        /\ \A i \in 1..Len(wire') : wire'[i] = wire[i + 1]
    BY <1>8 DEF Receive
  <2>2. recv_message_number' = wire[1] + 1 /\ too_old' = 0
    BY <1>8, <2>1 DEF Receive
  <2>3. \A i \in 1..Len(accepted') : accepted'[i] < recv_message_number'
    <3>1. accepted' = Append(accepted, wire[1])
      BY <1>8, <2>1 DEF Receive
    <3>2. /\ Len(accepted') = Len(accepted) + 1 /\ Len(accepted) \in Nat
          /\ \A i \in 1..Len(accepted) : accepted'[i] = accepted[i]
          /\ accepted'[Len(accepted) + 1] = wire[1]
      BY <3>1, <2>1
    <3>3. recv_message_number <= wire[1]
      BY <2>1
    <3> SUFFICES ASSUME NEW i \in 1..Len(accepted')
                 PROVE  accepted'[i] < recv_message_number'
      OBVIOUS
    <3>4. CASE i \in 1..Len(accepted)
      <4>1. accepted[i] \in Nat /\ accepted[i] < recv_message_number
        BY <3>4
      <4> QED
        BY <3>2, <3>3, <3>4, <4>1, <2>1, <2>2
    <3>5. CASE i = Len(accepted) + 1
      BY <3>2, <3>5, <2>1, <2>2
    <3> QED
      BY <3>2, <3>4, <3>5
  <2>4. \A i \in 1..Len(wire') : recv_message_number' <= wire'[i] /\ wire'[i] < send_message_number
    <3> SUFFICES ASSUME NEW i \in 1..Len(wire')
                 PROVE recv_message_number' <= wire'[i] /\ wire'[i] < send_message_number
      OBVIOUS
    <3>1. i + 1 \in 1..Len(wire) /\ 1 \in 1..Len(wire) /\ wire'[i] = wire[i + 1]
      <4> HIDE DEF TypeOK, OrderInv
      <4> QED
        BY <2>1
    <3>2. wire[1] < wire[i + 1] /\ wire[i + 1] \in Nat
      BY <3>1
    <3> QED
      BY <3>1, <3>2, <2>1, <2>2
  <2>5. \A i, j \in 1..Len(wire') : i < j => wire'[i] < wire'[j]
    <3> SUFFICES ASSUME NEW i \in 1..Len(wire'), NEW j \in 1..Len(wire'), i < j
                 PROVE  wire'[i] < wire'[j]
      OBVIOUS
    <3>1. /\ i + 1 \in 1..Len(wire) /\ j + 1 \in 1..Len(wire) /\ i + 1 < j + 1
          /\ wire'[i] = wire[i + 1] /\ wire'[j] = wire[j + 1]
      <4> HIDE DEF TypeOK, OrderInv
      <4> QED
        BY <2>1
    <3> QED
      BY <3>1
  <2>6. recv_message_number' <= send_message_number
    BY <2>1, <2>2
  <2>7. \A t \in Senders : InHand(t) =>
          /\ recv_message_number' <= frame[t]
          /\ \A i \in 1..Len(wire') : wire'[i] < frame[t]
    <3> SUFFICES ASSUME NEW t \in Senders, InHand(t)
                 PROVE  /\ recv_message_number' <= frame[t]
                        /\ \A i \in 1..Len(wire') : wire'[i] < frame[t]
      OBVIOUS
    <3>1. \A i \in 1..Len(wire) : wire[i] < frame[t]
      OBVIOUS
    <3>2. wire[1] < frame[t] /\ frame[t] \in Nat
      BY <2>1, <3>1
    <3>3. \A i \in 1..Len(wire') : i + 1 \in 1..Len(wire)
      BY <2>1
    <3>4. recv_message_number' <= frame[t]
      BY <2>1, <2>2, <3>2
    <3>5. \A i \in 1..Len(wire') : wire'[i] < frame[t]
      BY Zenon, <2>1, <3>1, <3>3
    <3> QED
      BY <3>4, <3>5
  <2> QED
    BY <1>8, <2>2, <2>3, <2>4, <2>5, <2>6, <2>7 DEF Receive
<1>9. CASE UNCHANGED vars
  BY <1>9 DEF vars
<1> QED
  BY <1>1, <1>2, <1>3, <1>4, <1>5, <1>6, <1>7, <1>8, <1>9 DEF Next, Sender

\* The invariant holds of every behaviour of the send path.
LEMMA OrderInvariant == Spec => []OrderInv
<1>1. Init => OrderInv
  BY DEF Init, OrderInv, HoldsSendLock, InHand, Tasks
<1> QED
  BY <1>1, OrderStep, TypeCorrect, PTL DEF Spec

(* No frame is refused as "Message too old", for any number of tasks       *)
(* sharing the ratchet (run_ws_sender, run_tun_response_loop,              *)
(* TunnelSender::send_encrypted).                                          *)
THEOREM NeverTooOld == Spec => []NothingTooOld
<1>1. OrderInv => NothingTooOld
  BY DEF OrderInv, NothingTooOld
<1> QED
  BY <1>1, OrderInvariant, PTL

(* The locked send path implements the ordered link: every frame that      *)
(* reaches the wire is delivered, in encryption order.                     *)
THEOREM SendPathImplementsLink == Spec => ImplementsOrderedLink
<1>1. Init => Link!LinkInit
  BY DEF Init, Link!LinkInit
<1>2. TypeOK /\ OrderInv /\ [Next]_vars => [Link!LinkNext]_(Link!lvars)
  <2> SUFFICES ASSUME TypeOK, OrderInv, [Next]_vars
               PROVE  Link!LinkNext \/ UNCHANGED <<wire, accepted>>
    BY DEF Link!lvars
  <2> USE DEF locks, peer
  <2>1. ASSUME NEW t \in Senders, SendFrame(t) PROVE Link!LinkNext
    <3>1. /\ wire' = Append(wire, frame[t]) /\ frame[t] \in Nat
          /\ UNCHANGED accepted /\ InHand(t)
      BY <2>1 DEF SendFrame, TypeOK, InHand
    <3>2. /\ Len(wire') = Len(wire) + 1
          /\ wire'[Len(wire) + 1] = frame[t]
      BY <3>1 DEF TypeOK
    <3>3. \A i \in 1..Len(wire) : wire[i] < frame[t]
      BY <3>1 DEF OrderInv
    <3>4. \A i \in 1..Len(accepted) : accepted[i] < frame[t]
      BY <3>1 DEF OrderInv, TypeOK
    <3> QED
      BY <3>1, <3>2, <3>3, <3>4 DEF Link!LinkNext, Link!Enqueue
  <2>2. CASE Receive
    <3>1. ~(Head(wire) < recv_message_number)
      <4>1. 1 \in 1..Len(wire) /\ Head(wire) = wire[1] /\ wire[1] \in Nat
        BY <2>2 DEF Receive, TypeOK
      <4>2. recv_message_number <= wire[1]
        BY <4>1 DEF OrderInv
      <4> QED
        BY <4>1, <4>2 DEF TypeOK
    <3> QED
      BY <2>2, <3>1 DEF Receive, Link!LinkNext, Link!Deliver
  <2>3. ASSUME NEW t \in Senders,
               LockSend(t) \/ LockRatchet(t) \/ Encrypt(t) \/ LockWs(t) \/ GiveUp(t)
        PROVE  UNCHANGED <<wire, accepted>>
    BY <2>3 DEF LockSend, LockRatchet, Encrypt, LockWs, GiveUp
  <2>4. CASE PingLock \/ PingSend \/ Inbound \/ DecryptLock \/ DecryptDone
    BY <2>4 DEF PingLock, PingSend, Inbound, DecryptLock, DecryptDone
  <2>5. CASE UNCHANGED vars
    BY <2>5 DEF vars
  <2> QED
    BY <2>1, <2>2, <2>3, <2>4, <2>5 DEF Next, Sender
<1> QED
  BY <1>1, <1>2, TypeCorrect, OrderInvariant, PTL DEF Spec, ImplementsOrderedLink, Link!LinkSpec
=============================================================================

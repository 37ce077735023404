------------------------------ MODULE UdpRelay ------------------------------
(***************************************************************************)
(* A connection of the plain WebSocket endpoint that asks for a UDP target *)
(* (rvpn-server/handler.rs): read_target_address, then relay_udp with its  *)
(* three tasks in a JoinSet (the uplink task, the receiver of datagrams    *)
(* and the sender) around one ratchet behind a mutex.  The sender holds    *)
(* the mutex while it writes to the WebSocket.                             *)
(***************************************************************************)
EXTENDS Naturals, Sequences

CONSTANTS
    ChannelCap,   \* capacity of the channel between receiver and sender
    SocketCap,    \* messages the connection to the client holds
    IdleLimit,    \* ticks of the idle check without a frame that end a relay
    MaxFrames,    \* bound: messages of the client
    MaxDatagrams  \* bound: datagrams of the target

VARIABLES
    phase,      \* "target", "resolve", "relay" or "ended"
    sent,       \* messages the client has sent
    up,         \* those on the way to the server
    uplink,     \* task 1: "select", or the message it decrypts
    idle,       \* ticks since the last binary message
    forwarded,  \* datagrams sent to the target
    arrivals,   \* datagrams of the target, so many
    receiver,   \* task 2: 0, or the datagram it puts into the channel
    channel,    \* the channel
    sender,     \* task 3: 0, or the datagram it encrypts and sends
    lock,       \* "sender" while the sender holds the ratchet, else "none"
    down,       \* messages on the way to the client
    received    \* datagrams the client has received

vars == <<phase, sent, up, uplink, idle, forwarded, arrivals, receiver, channel, sender,
          lock, down, received>>
ups == <<sent, up, uplink, idle, forwarded>>
downs == <<arrivals, receiver, channel, sender, down, received>>

\* Messages of the client: numbered frames, frames that do not decrypt, pings
\* and the closing message.
Kinds == {"data", "broken", "ping", "close"}
Message(kind, n) == [kind |-> kind, n |-> n]
NoMessage == Message("none", 0)
-----------------------------------------------------------------------------
Init ==
    /\ phase = "target" /\ sent = 0 /\ up = <<>> /\ uplink = NoMessage /\ idle = 0
    /\ forwarded = <<>> /\ arrivals = 0 /\ receiver = 0 /\ channel = <<>> /\ sender = 0
    /\ lock = "none" /\ down = <<>> /\ received = <<>>

\* One task has ended: the others are aborted and the connection is dropped.
End == phase' = "ended" /\ lock' = "none"

ClientSends(kind) ==
    /\ phase # "ended" /\ sent < MaxFrames
    /\ sent' = sent + 1 /\ up' = Append(up, Message(kind, sent + 1))
    /\ UNCHANGED <<phase, uplink, idle, forwarded, lock, downs>>

\* read_target_address: other messages are skipped, the first frame names
\* the target or ends the connection.
ReadTarget ==
    /\ phase = "target" /\ up # <<>> /\ up' = Tail(up)
    /\ phase' \in CASE Head(up).kind = "ping" -> {"target"}
                    [] Head(up).kind = "data" -> {"resolve", "ended"}
                    [] OTHER -> {"ended"}
    /\ UNCHANGED <<sent, uplink, idle, forwarded, lock, downs>>

TargetTimeout ==
    /\ phase = "target" /\ up = <<>> /\ phase' = "ended"
    /\ UNCHANGED <<lock, ups, downs>>

\* The name resolves to an address that may be used, or the relay fails.
Resolve ==
    /\ phase = "resolve" /\ phase' \in {"relay", "ended"}
    /\ UNCHANGED <<lock, ups, downs>>
-----------------------------------------------------------------------------
(* Task 1. *)

UplinkReads ==
    /\ phase = "relay" /\ uplink = NoMessage /\ up # <<>>
    /\ up' = Tail(up)
    /\ CASE Head(up).kind \in {"data", "broken"} ->
              uplink' = Head(up) /\ idle' = 0 /\ UNCHANGED <<phase, lock>>
         [] Head(up).kind = "ping" -> UNCHANGED <<uplink, idle, phase, lock>>
         [] Head(up).kind = "close" -> End /\ UNCHANGED <<uplink, idle>>
    /\ UNCHANGED <<sent, forwarded, downs>>

\* It decrypts under the lock and sends the datagram; a frame that does not
\* decrypt is skipped.
UplinkForwards ==
    /\ phase = "relay" /\ uplink # NoMessage /\ lock = "none"
    /\ uplink' = NoMessage
    /\ forwarded' = IF uplink.kind = "data" THEN Append(forwarded, uplink.n) ELSE forwarded
    /\ UNCHANGED <<phase, sent, up, idle, lock, downs>>

UplinkSendFails ==
    /\ phase = "relay" /\ uplink.kind = "data" /\ lock = "none"
    /\ End /\ UNCHANGED <<ups, downs>>

\* Every turn of the loop counts as activity.
IdleTickRestarts ==
    /\ phase = "relay" /\ uplink = NoMessage /\ up = <<>>
    /\ idle' = 0
    /\ UNCHANGED <<phase, lock, sent, up, uplink, forwarded, downs>>

\* The idle check, when nothing else is to be read.
IdleTick ==
    /\ phase = "relay" /\ uplink = NoMessage /\ up = <<>>
    /\ idle' = idle + 1
    /\ IF idle' > IdleLimit THEN End ELSE UNCHANGED <<phase, lock>>
    /\ UNCHANGED <<sent, up, uplink, forwarded, downs>>
-----------------------------------------------------------------------------
(* Tasks 2 and 3. *)

DatagramArrives ==
    /\ phase = "relay" /\ arrivals < MaxDatagrams /\ receiver = 0
    /\ arrivals' = arrivals + 1 /\ receiver' = arrivals + 1
    /\ UNCHANGED <<phase, ups, channel, sender, lock, down, received>>

\* A full channel does not take the datagram.
EnqueueOrDrop ==
    /\ phase = "relay" /\ receiver # 0
    /\ channel' = IF Len(channel) < ChannelCap THEN Append(channel, receiver) ELSE channel
    /\ receiver' = 0
    /\ UNCHANGED <<phase, ups, arrivals, sender, lock, down, received>>

Enqueue ==
    /\ phase = "relay" /\ receiver # 0 /\ Len(channel) < ChannelCap
    /\ channel' = Append(channel, receiver) /\ receiver' = 0
    /\ UNCHANGED <<phase, ups, arrivals, sender, lock, down, received>>

SenderTakes ==
    /\ phase = "relay" /\ sender = 0 /\ channel # <<>>
    /\ sender' = Head(channel) /\ channel' = Tail(channel)
    /\ UNCHANGED <<phase, ups, arrivals, receiver, lock, down, received>>

SenderLocks ==
    /\ phase = "relay" /\ sender # 0 /\ lock = "none" /\ lock' = "sender"
    /\ UNCHANGED <<phase, ups, downs>>

\* The write completes once the connection takes it; then the lock is freed.
SenderSends ==
    /\ phase = "relay" /\ lock = "sender" /\ Len(down) < SocketCap
    /\ down' = Append(down, sender) /\ sender' = 0 /\ lock' = "none"
    /\ UNCHANGED <<phase, ups, arrivals, receiver, channel, received>>

SenderFails ==
    /\ phase = "relay" /\ lock = "sender"
    /\ End /\ UNCHANGED <<ups, downs>>

ReceiveFails ==
    /\ phase = "relay" /\ receiver = 0
    /\ End /\ UNCHANGED <<ups, downs>>

ClientReceives ==
    /\ down # <<>>
    /\ received' = Append(received, Head(down)) /\ down' = Tail(down)
    /\ UNCHANGED <<phase, ups, arrivals, receiver, channel, sender, lock>>

Sender == SenderTakes \/ SenderLocks \/ SenderSends

Next ==
    \/ \E kind \in Kinds : ClientSends(kind)
    \/ ReadTarget \/ TargetTimeout \/ Resolve
    \/ UplinkReads \/ UplinkForwards \/ UplinkSendFails \/ IdleTick
    \/ DatagramArrives \/ Enqueue \/ SenderTakes \/ SenderLocks \/ SenderSends
    \/ SenderFails \/ ReceiveFails \/ ClientReceives

Spec == Init /\ [][Next]_vars

Fairness ==
    /\ WF_vars(ReadTarget \/ TargetTimeout) /\ WF_vars(Resolve)
    /\ SF_vars(UplinkForwards) /\ WF_vars(UplinkReads) /\ WF_vars(IdleTick)
    /\ WF_vars(Enqueue) /\ WF_vars(Sender)

FairSpec == Spec /\ Fairness
-----------------------------------------------------------------------------
TypeOK ==
    /\ phase \in {"target", "resolve", "relay", "ended"}
    /\ lock \in {"none", "sender"} /\ idle \in 0..(IdleLimit + 1)
    /\ Len(channel) <= ChannelCap /\ Len(down) <= SocketCap
    /\ receiver \in 0..MaxDatagrams /\ sender \in 0..MaxDatagrams

(***************************************************************************)
(* The relay forwards the frames that decrypt in the order they were sent, *)
(* and the datagrams of the target reach the client in order and without   *)
(* a gap: those received, on the way, in the sender's hands, in the        *)
(* channel and in the receiver's hands are all that arrived.               *)
(***************************************************************************)
RelayKeepsOrder ==
    /\ \A i, j \in 1..Len(forwarded) : i < j => forwarded[i] < forwarded[j]
    /\ received \o down \o (IF sender = 0 THEN <<>> ELSE <<sender>>) \o channel \o
         (IF receiver = 0 THEN <<>> ELSE <<receiver>>) = [i \in 1..arrivals |-> i]

(***************************************************************************)
(* A relay whose client falls silent ends, also while the target goes on   *)
(* sending: only frames of the client count as activity, and the sender's  *)
(* hold on the ratchet does not keep the idle check from running as long   *)
(* as the client reads its socket: ws_write.send has no timeout.           *)
(***************************************************************************)
SilentClientEnds == []<>(down = <<>>) => <>(phase = "ended")
=============================================================================

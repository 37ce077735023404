------------------------------- MODULE SendPath -------------------------------
(***************************************************************************)
(* The encrypted send path of a multiplexed session.  Several tasks encrypt*)
(* with one Double Ratchet and write to one WebSocket: on the server       *)
(* run_ws_sender and run_tun_response_loop (rvpn-server, handler.rs), on   *)
(* the client every caller of TunnelSender::send_encrypted.  A task holds  *)
(* send_lock across encrypt and send, the ratchet lock only to encrypt and *)
(* ws_write only to send.  The ping task takes ws_write alone, the receive *)
(* loop takes the ratchet lock alone.  The peer feeds the frames to its own*)
(* ratchet, which refuses a number below the next one it expects.          *)
(***************************************************************************)
EXTENDS Naturals, Sequences

CONSTANTS
    Senders,    \* tasks that encrypt and send
    Pinger,     \* the ping task
    Decrypter,  \* the local receive loop, which decrypts with the same ratchet
    Nobody,     \* the holder of a free lock
    MaxFrames,  \* bound: frames encrypted in a run
    WireCap     \* bound: frames the socket buffers before a send blocks

Tasks == Senders \cup {Pinger, Decrypter}

ASSUME SendPathAssumption ==
    /\ Nobody \notin Tasks
    /\ Pinger \notin Senders /\ Decrypter \notin Senders /\ Pinger # Decrypter
    /\ MaxFrames \in Nat /\ WireCap \in Nat

VARIABLES
    pc,                   \* where each task is
    send_lock, ratchet, ws_write,  \* holders of the three mutexes
    send_message_number,  \* the local ratchet's next number
    frame,                \* the number of the frame a sender has encrypted
    wire,                 \* frames handed to the socket, oldest first
    recv_message_number,  \* the peer ratchet's next expected number
    accepted,             \* history: frames the peer accepted
    too_old               \* history: frames the peer refused

locks == <<send_lock, ratchet, ws_write>>
peer == <<recv_message_number, accepted, too_old>>
vars == <<pc, locks, send_message_number, frame, wire, peer>>

TypeOK ==
    /\ pc \in [Tasks -> {"idle", "locked", "encrypting", "encrypted",
                         "sending", "done"}]
    /\ send_lock \in Tasks \cup {Nobody}
    /\ ratchet \in Tasks \cup {Nobody}
    /\ ws_write \in Tasks \cup {Nobody}
    /\ send_message_number \in Nat
    /\ frame \in [Senders -> Nat]
    /\ wire \in Seq(Nat)
    /\ recv_message_number \in Nat
    /\ accepted \in Seq(Nat)
    /\ too_old \in Nat

Init ==
    /\ pc = [t \in Tasks |-> "idle"]
    /\ send_lock = Nobody /\ ratchet = Nobody /\ ws_write = Nobody
    /\ send_message_number = 0
    /\ frame = [t \in Senders |-> 0]
    /\ wire = <<>>
    /\ recv_message_number = 0 /\ accepted = <<>> /\ too_old = 0

Goto(t, l) == pc' = [pc EXCEPT ![t] = l]
-----------------------------------------------------------------------------
(* A sender. *)

\* A message is ready (padded, framed): take send_lock.
LockSend(t) ==
    /\ pc[t] = "idle" /\ send_lock = Nobody
    /\ send_message_number < MaxFrames
    /\ send_lock' = t
    /\ Goto(t, "locked")
    /\ UNCHANGED <<ratchet, ws_write, send_message_number, frame, wire, peer>>

LockRatchet(t) ==
    /\ pc[t] = "locked" /\ ratchet = Nobody
    /\ ratchet' = t
    /\ Goto(t, "encrypting")
    /\ UNCHANGED <<send_lock, ws_write, send_message_number, frame, wire, peer>>

\* send_lock covers only the encryption, not the send.
EncryptThenUnlock(t) ==
    /\ pc[t] = "encrypting"
    /\ frame' = [frame EXCEPT ![t] = send_message_number]
    /\ send_message_number' = send_message_number + 1
    /\ ratchet' = Nobody /\ send_lock' = Nobody
    /\ Goto(t, "encrypted")
    /\ UNCHANGED <<ws_write, wire, peer>>

\* The ratchet guard outlives the encryption.
EncryptKeepingRatchet(t) ==
    /\ pc[t] = "encrypting"
    /\ frame' = [frame EXCEPT ![t] = send_message_number]
    /\ send_message_number' = send_message_number + 1
    /\ Goto(t, "encrypted")
    /\ UNCHANGED <<locks, wire, peer>>

\* The ratchet numbers the frame; its guard is dropped before the send.
Encrypt(t) ==
    /\ pc[t] = "encrypting"
    /\ frame' = [frame EXCEPT ![t] = send_message_number]
    /\ send_message_number' = send_message_number + 1
    /\ ratchet' = Nobody
    /\ Goto(t, "encrypted")
    /\ UNCHANGED <<send_lock, ws_write, wire, peer>>

LockWs(t) ==
    /\ pc[t] = "encrypted" /\ ws_write = Nobody
    /\ ws_write' = t
    /\ Goto(t, "sending")
    /\ UNCHANGED <<send_lock, ratchet, send_message_number, frame, wire, peer>>

\* The send completes once the socket has room; both guards are dropped.
SendFrame(t) ==
    /\ pc[t] = "sending" /\ Len(wire) < WireCap
    /\ wire' = Append(wire, frame[t])
    /\ ws_write' = Nobody /\ send_lock' = Nobody
    /\ Goto(t, "idle")
    /\ UNCHANGED <<ratchet, send_message_number, frame, peer>>

\* The send fails, or the task is dropped while it waits for a lock or for
\* the socket: its guards are released and its frame never reaches the wire.
GiveUp(t) ==
    /\ pc[t] \in {"locked", "encrypted", "sending"}
    /\ send_lock' = Nobody
    /\ ws_write' = IF pc[t] = "sending" THEN Nobody ELSE ws_write
    /\ Goto(t, "done")
    /\ UNCHANGED <<ratchet, send_message_number, frame, wire, peer>>
-----------------------------------------------------------------------------
(* The ping task and the receive loop share one lock each with the senders. *)

PingLock ==
    /\ pc[Pinger] = "idle" /\ ws_write = Nobody
    /\ ws_write' = Pinger
    /\ Goto(Pinger, "sending")
    /\ UNCHANGED <<send_lock, ratchet, send_message_number, frame, wire, peer>>

PingSend ==
    /\ pc[Pinger] = "sending" /\ Len(wire) < WireCap
    /\ ws_write' = Nobody
    /\ Goto(Pinger, "idle")
    /\ UNCHANGED <<send_lock, ratchet, send_message_number, frame, wire, peer>>

\* A frame from the peer has arrived and must be decrypted.
Inbound ==
    /\ pc[Decrypter] = "idle"
    /\ Goto(Decrypter, "locked")
    /\ UNCHANGED <<locks, send_message_number, frame, wire, peer>>

DecryptLock ==
    /\ pc[Decrypter] = "locked" /\ ratchet = Nobody
    /\ ratchet' = Decrypter
    /\ Goto(Decrypter, "encrypting")
    /\ UNCHANGED <<send_lock, ws_write, send_message_number, frame, wire, peer>>

DecryptDone ==
    /\ pc[Decrypter] = "encrypting"
    /\ ratchet' = Nobody
    /\ Goto(Decrypter, "idle")
    /\ UNCHANGED <<send_lock, ws_write, send_message_number, frame, wire, peer>>
-----------------------------------------------------------------------------
(* The peer: DoubleRatchet::decrypt on the oldest frame.  A number below   *)
(* the expected one is "Message too old"; one above it skips ahead.        *)
Receive ==
    /\ wire # <<>>
    /\ wire' = Tail(wire)
    /\ LET n == Head(wire) IN
         IF n < recv_message_number
         THEN too_old' = too_old + 1 /\ UNCHANGED <<recv_message_number, accepted>>
         ELSE /\ recv_message_number' = n + 1
              /\ accepted' = Append(accepted, n)
              /\ UNCHANGED too_old
    /\ UNCHANGED <<pc, locks, send_message_number, frame>>
-----------------------------------------------------------------------------
Sender(t) ==
    LockSend(t) \/ LockRatchet(t) \/ Encrypt(t) \/ LockWs(t) \/ SendFrame(t)

Next ==
    \/ \E t \in Senders : Sender(t) \/ GiveUp(t)
    \/ PingLock \/ PingSend
    \/ Inbound \/ DecryptLock \/ DecryptDone
    \/ Receive

\* A task that holds the ratchet lock awaits nothing and runs on; tokio's
\* mutex serves its waiters in order, so a waiter is not passed over forever.
\* Neither the peer nor the socket owes progress.
Fairness ==
    /\ \A t \in Senders : WF_vars(Encrypt(t))
    /\ SF_vars(DecryptLock)
    /\ WF_vars(DecryptDone)

Spec == Init /\ [][Next]_vars
FairSpec == Spec /\ Fairness
-----------------------------------------------------------------------------
(* The peer's ratchet never meets a frame that is "Message too old": wire  *)
(* order is encryption order, however the tasks interleave and whichever   *)
(* of them give up ("strict wire ordering" in CHANGELOG.md, the comments of*)
(* send_lock and TunnelSender).                                            *)
NothingTooOld == too_old = 0

(* The send path implements the ordered link.                              *)
Link == INSTANCE OrderedLink WITH inflight <- wire, delivered <- accepted
ImplementsOrderedLink == Link!LinkSpec

(* The receive loop gets the ratchet even if the peer stops reading and    *)
(* every sender is stuck in a send: the ratchet lock is not held across the*)
(* send ("or ws_receiver can no longer decrypt incoming packets and the    *)
(* whole session freezes").                                                *)
DecryptProceeds == pc[Decrypter] = "locked" ~> pc[Decrypter] = "idle"
=============================================================================

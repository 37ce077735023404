--------------------------- MODULE FlowSendCredits ---------------------------
(***************************************************************************)
(* The credit gate of one flow direction (rvpn-core, protocol/multiplex.rs,*)
(* FlowSendCredits) together with the task that consumes from it and the   *)
(* tasks that grant to it or close it.  The gate is an atomic counter, an  *)
(* atomic flag and a tokio Notify; every atomic operation is a step of its *)
(* own, so that a grant or a close can fall between the consumer's check   *)
(* and its wait.                                                           *)
(*                                                                         *)
(* The consumer is one of two programs.  The server's "relay"              *)
(* (handler.rs, spawn_flow_relay) reads at most available() bytes from the *)
(* target socket and then consumes what it read.  The client's "loop"      *)
(* (socks5_tunnel.rs, flow_to_ws_loop) has a chunk in hand, consumes what  *)
(* it can, sends that much and keeps the rest.                             *)
(***************************************************************************)
EXTENDS Integers

CONSTANTS
    Window,      \* INITIAL_FLOW_WINDOW: credits of a new gate
    BufLen,      \* the largest read or chunk (8190 bytes in the code)
    MaxCredits,  \* u64::MAX: where grant() saturates
    Granters,    \* tasks that may run grant()
    GrantBudget  \* bound: total credits the peer grants in a run

(* What is assumed of them.                                                *)
CreditConstants ==
    /\ Window \in Nat /\ MaxCredits \in Nat /\ Window <= MaxCredits
    /\ BufLen \in Nat \ {0} /\ GrantBudget \in Nat

VARIABLES
    credits,  \* the AtomicU64
    notify,   \* Notify's state: EMPTY, or NOTIFIED when it stores a permit
    kind,     \* which program consumes from the gate
    pc,       \* where the consumer is
    want,     \* bytes the consumer is about to consume
    cur,      \* try_consume's last loaded value
    gpc,      \* granters between fetch_update and notify_one
    cpc,      \* close(): not called, between its store and its notify, done
    sent,     \* history: bytes the consumer has sent
    granted   \* history: bytes the peer has granted

vars == <<credits, notify, kind, pc, want, cur, gpc, cpc, sent, granted>>

Minimum(a, b) == IF a <= b THEN a ELSE b

\* The AtomicBool: set by the first of close()'s two operations.
closed == cpc # "open"

ConsumerSteps == {"top", "cap", "read", "load", "cas", "check", "checkClosed",
                  "await", "parked", "closed", "stalled", "exit"}

TypeOK ==
    /\ credits \in 0..MaxCredits
    /\ notify \in {"EMPTY", "NOTIFIED"}
    /\ kind \in {"relay", "loop"}
    /\ pc \in ConsumerSteps
    /\ want \in Nat /\ cur \in 0..MaxCredits
    /\ gpc \in [Granters -> {"idle", "notify"}]
    /\ cpc \in {"open", "notify", "done"}
    /\ sent \in Nat /\ granted \in 0..GrantBudget

Init ==
    /\ credits = Window /\ notify = "EMPTY"
    /\ kind \in {"relay", "loop"}
    /\ pc = "top" /\ want = 0 /\ cur = 0
    /\ gpc = [g \in Granters |-> "idle"] /\ cpc = "open"
    /\ sent = 0 /\ granted = 0
-----------------------------------------------------------------------------
(* tokio's Notify, as the gate uses it. *)

\* A notify_one that wakes a waiter but stores no permit for a later one.
NotifyOneWithoutPermit ==
    IF pc = "parked" THEN pc' = "check" /\ UNCHANGED notify
                     ELSE UNCHANGED <<pc, notify>>

\* Wake the parked consumer, or leave a permit for its next notified().await.
NotifyOne ==
    IF pc = "parked" THEN pc' = "check" /\ UNCHANGED notify
                     ELSE notify' = "NOTIFIED" /\ UNCHANGED pc
-----------------------------------------------------------------------------
(* The consumer. *)

\* relay: no credit means wait.
RelayTop ==
    /\ kind = "relay" /\ pc = "top"
    /\ pc' = IF credits = 0 THEN "check" ELSE "cap"
    /\ UNCHANGED <<credits, notify, kind, want, cur, gpc, cpc, sent, granted>>

\* A read that ignores how many credits are left.
RelayCapIgnored ==
    /\ kind = "relay" /\ pc = "cap"
    /\ cur' = BufLen
    /\ pc' = "read"
    /\ UNCHANGED <<credits, notify, kind, want, gpc, cpc, sent, granted>>

\* relay: the read is capped at the window that remains now.
RelayCap ==
    /\ kind = "relay" /\ pc = "cap"
    /\ cur' = Minimum(credits, BufLen)
    /\ pc' = "read"
    /\ UNCHANGED <<credits, notify, kind, want, gpc, cpc, sent, granted>>

RelayRead ==
    /\ kind = "relay" /\ pc = "read"
    /\ \E n \in 1..cur : want' = n
    /\ pc' = "load"
    /\ UNCHANGED <<credits, notify, kind, cur, gpc, cpc, sent, granted>>

\* The target socket, or the local channel, has ended.
SourceEnds ==
    /\ \/ kind = "relay" /\ pc = "read"
       \/ kind = "loop" /\ pc = "top"
    /\ pc' = "exit"
    /\ UNCHANGED <<credits, notify, kind, want, cur, gpc, cpc, sent, granted>>

\* loop: the next chunk from the local channel.
LoopTop ==
    /\ kind = "loop" /\ pc = "top"
    /\ \E n \in 1..BufLen : want' = n
    /\ pc' = "load"
    /\ UNCHANGED <<credits, notify, kind, cur, gpc, cpc, sent, granted>>

\* try_consume: load the counter.
ConsumeLoad ==
    /\ pc = "load"
    /\ cur' = credits
    /\ pc' = "cas"
    /\ UNCHANGED <<credits, notify, kind, want, gpc, cpc, sent, granted>>

\* try_consume: nothing left.  The loop waits; the relay ignores the result
\* and sends what it has read.
ConsumeEmpty ==
    /\ pc = "cas" /\ cur = 0
    /\ IF kind = "loop"
       THEN pc' = "check" /\ UNCHANGED <<want, sent>>
       ELSE pc' = "top" /\ want' = 0 /\ sent' = sent + want
    /\ UNCHANGED <<credits, notify, kind, cur, gpc, cpc, granted>>

\* try_consume: the compare-exchange succeeds and the bytes are sent.
ConsumeTake ==
    /\ pc = "cas" /\ cur > 0 /\ credits = cur
    /\ LET take == Minimum(cur, want)
           n == IF kind = "loop" THEN take ELSE want
       IN /\ credits' = cur - take
          /\ sent' = sent + n
          /\ want' = want - n
          /\ pc' = IF want = n THEN "top" ELSE "load"
    /\ UNCHANGED <<notify, kind, cur, gpc, cpc, granted>>

\* try_consume: the compare-exchange fails and reloads.
ConsumeRetry ==
    /\ pc = "cas" /\ cur > 0 /\ credits # cur
    /\ cur' = credits
    /\ UNCHANGED <<credits, notify, kind, pc, want, gpc, cpc, sent, granted>>

\* wait_for_credit_or_stall: Granted ends the wait.
WaitCheck ==
    /\ pc = "check"
    /\ pc' = IF credits = 0 THEN "checkClosed"
             ELSE IF kind = "relay" THEN "cap" ELSE "load"
    /\ UNCHANGED <<credits, notify, kind, want, cur, gpc, cpc, sent, granted>>

WaitCheckClosed ==
    /\ pc = "checkClosed"
    /\ pc' = IF closed THEN "closed" ELSE "await"
    /\ UNCHANGED <<credits, notify, kind, want, cur, gpc, cpc, sent, granted>>

\* notified().await: take a stored permit, or park.
WaitAwait ==
    /\ pc = "await"
    /\ IF notify = "NOTIFIED" THEN pc' = "check" /\ notify' = "EMPTY"
                 ELSE pc' = "parked" /\ UNCHANGED notify
    /\ UNCHANGED <<credits, kind, want, cur, gpc, cpc, sent, granted>>

\* The stall timeout fires on a parked consumer.
WaitTimeout ==
    /\ pc = "parked"
    /\ pc' = IF closed THEN "closed" ELSE "stalled"
    /\ UNCHANGED <<credits, notify, kind, want, cur, gpc, cpc, sent, granted>>
-----------------------------------------------------------------------------
(* The granters and the closer. *)

\* grant(n) with a plain addition.
GrantUnsaturated(g) ==
    /\ gpc[g] = "idle"
    /\ \E n \in 1..(GrantBudget - granted) :
         /\ credits' = credits + n
         /\ granted' = granted + n
    /\ gpc' = [gpc EXCEPT ![g] = "notify"]
    /\ UNCHANGED <<notify, kind, pc, want, cur, cpc, sent>>

\* grant(n): fetch_update with saturating_add, then (GrantNotify) notify_one.
Grant(g) ==
    /\ gpc[g] = "idle"
    /\ \E n \in 1..(GrantBudget - granted) :
         /\ credits' = Minimum(credits + n, MaxCredits)
         /\ granted' = granted + n
    /\ gpc' = [gpc EXCEPT ![g] = "notify"]
    /\ UNCHANGED <<notify, kind, pc, want, cur, cpc, sent>>

GrantNotify(g) ==
    /\ gpc[g] = "notify"
    /\ gpc' = [gpc EXCEPT ![g] = "idle"]
    /\ NotifyOne
    /\ UNCHANGED <<credits, kind, want, cur, cpc, sent, granted>>

\* close(): store the flag, then notify.  Only the client closes gates.
Close ==
    /\ kind = "loop" /\ cpc = "open"
    /\ cpc' = "notify"
    /\ UNCHANGED <<credits, notify, kind, pc, want, cur, gpc, sent, granted>>

\* A close() that forgets to notify.
CloseSilently ==
    /\ cpc = "notify"
    /\ cpc' = "done"
    /\ UNCHANGED <<credits, notify, kind, pc, want, cur, gpc, sent, granted>>

CloseNotify ==
    /\ cpc = "notify"
    /\ cpc' = "done"
    /\ NotifyOne
    /\ UNCHANGED <<credits, kind, want, cur, gpc, sent, granted>>
-----------------------------------------------------------------------------
Consumer ==
    \/ RelayTop \/ RelayCap \/ RelayRead \/ LoopTop \/ SourceEnds
    \/ ConsumeLoad \/ ConsumeEmpty \/ ConsumeTake \/ ConsumeRetry
    \/ WaitCheck \/ WaitCheckClosed \/ WaitAwait

Next ==
    \/ Consumer
    \/ WaitTimeout
    \/ \E g \in Granters : Grant(g) \/ GrantNotify(g)
    \/ Close \/ CloseNotify

\* The runtime keeps polling a task that can make progress.  Nothing forces
\* the peer to grant, the owner to close, or the stall timer to fire.
Fairness ==
    /\ WF_vars(Consumer)
    /\ WF_vars(\E g \in Granters : GrantNotify(g))
    /\ WF_vars(CloseNotify)

Spec == Init /\ [][Next]_vars
FairSpec == Spec /\ Fairness
-----------------------------------------------------------------------------
(* A consumer parked although there are credits to spend, or although the  *)
(* gate is closed, is about to be woken: the grant or close that changed   *)
(* the gate has still to run its notify_one.  This is the comment of       *)
(* wait_for_credit: "the check-then-wait race cannot lose a wakeup".       *)
NoLostWakeup ==
    /\ (pc = "parked" /\ credits > 0) => \E g \in Granters : gpc[g] = "notify"
    /\ (pc = "parked" /\ closed) => cpc = "notify"

(* The consumer never sends more than the initial window plus what the peer*)
(* has granted, although the relay ignores what try_consume returns: its   *)
(* read is capped by a value of available() that only grants can change.   *)
NeverOversends == sent <= Window + granted

(* The credit gate is safe: types, wakeups and the window together.        *)
CreditsSound == TypeOK /\ NoLostWakeup /\ NeverOversends

(* A consumer parked in wait_for_credit_or_stall leaves the wait once a    *)
(* grant has arrived or close() was called, without help from the 60 s     *)
(* stall timer: removing a flow frees its send loop at once.               *)
WaitEnds == (pc = "parked" /\ (credits > 0 \/ closed)) ~> pc # "parked"
=============================================================================

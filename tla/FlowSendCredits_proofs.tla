------------------------ MODULE FlowSendCredits_proofs ------------------------
(***************************************************************************)
(* Proofs about FlowSendCredits, for every window, buffer length, grant    *)
(* budget and set of granters.                                             *)
(***************************************************************************)
EXTENDS FlowSendCredits, TLAPS

\* Time limits of the provers, for a slow machine.
USE SMTT(10), ZenonT(20)

\* A notification is on its way to a consumer that has not parked yet, or is
\* stored for it.
NotificationPending == notify = "NOTIFIED" \/ \E g \in Granters : gpc[g] = "notify"

(* The wakeup invariant, strengthened from the parked consumer back to the *)
(* step at which it saw the gate empty (and, for the flag, open).          *)
WakeupInv ==
    /\ pc = "parked" => notify = "EMPTY"
    /\ pc \in {"checkClosed", "await", "parked"} /\ credits > 0 => NotificationPending
    /\ pc \in {"await", "parked"} /\ closed => notify = "NOTIFIED" \/ cpc = "notify"

(* The accounting invariant: credits and bytes sent share one budget, and  *)
(* what the relay has read is covered by credits it has yet to consume.    *)
BudgetInv ==
    /\ sent + credits <= Window + granted
    /\ (kind = "relay" /\ pc = "read") => cur <= credits
    /\ (kind = "relay" /\ pc = "load") => want \in 1..credits
    /\ (kind = "relay" /\ pc = "cas") => want \in 1..cur /\ cur <= credits
    /\ (kind = "loop") => pc \notin {"cap", "read"}

\* Type correctness of the gate and its users.
THEOREM TypeCorrect == ASSUME CreditConstants PROVE Spec => []TypeOK
<1> USE DEF CreditConstants, TypeOK, ConsumerSteps, Minimum
<1>1. Init => TypeOK
  BY DEF Init
<1>2. TypeOK /\ [Next]_vars => TypeOK'
  <2> SUFFICES ASSUME TypeOK, [Next]_vars PROVE TypeOK'
    OBVIOUS
  <2>1. CASE RelayTop \/ RelayCap \/ RelayRead \/ LoopTop \/ SourceEnds
    BY <2>1 DEF RelayTop, RelayCap, RelayRead, LoopTop, SourceEnds
  <2>2. CASE ConsumeLoad \/ ConsumeRetry
    BY <2>2 DEF ConsumeLoad, ConsumeRetry
  <2>3. CASE ConsumeEmpty
    BY <2>3 DEF ConsumeEmpty
  <2>4. CASE ConsumeTake
    BY <2>4 DEF ConsumeTake
  <2>5. CASE WaitCheck \/ WaitCheckClosed \/ WaitAwait \/ WaitTimeout
    BY <2>5 DEF WaitCheck, WaitCheckClosed, WaitAwait, WaitTimeout
  <2>6. ASSUME NEW g \in Granters, Grant(g) PROVE TypeOK'
    BY <2>6 DEF Grant
  <2>7. ASSUME NEW g \in Granters, GrantNotify(g) PROVE TypeOK'
    BY <2>7 DEF GrantNotify, NotifyOne
  <2>8. CASE Close \/ CloseNotify
    BY <2>8 DEF Close, CloseNotify, NotifyOne
  <2>9. CASE UNCHANGED vars
    BY <2>9 DEF vars
  <2> QED
    BY <2>1, <2>2, <2>3, <2>4, <2>5, <2>6, <2>7, <2>8, <2>9 DEF Next, Consumer
<1> QED
  BY <1>1, <1>2, PTL DEF Spec

(* No wakeup is lost: notify_one stores a permit when the consumer is still*)
(* between its check and its wait, so a parked consumer with credits, or on*)
(* a closed gate, always has a notification coming.                        *)
THEOREM WakeupNeverLost == ASSUME CreditConstants PROVE Spec => []NoLostWakeup
<1> USE DEF WakeupInv, NotificationPending, closed
<1>1. Init => WakeupInv
  BY DEF Init
<1>2. TypeOK /\ WakeupInv /\ [Next]_vars => WakeupInv'
  <2> SUFFICES ASSUME TypeOK, WakeupInv, [Next]_vars PROVE WakeupInv'
    OBVIOUS
  <2>1. CASE RelayTop \/ RelayCap \/ RelayRead \/ LoopTop \/ SourceEnds
    BY <2>1 DEF RelayTop, RelayCap, RelayRead, LoopTop, SourceEnds
  <2>2. CASE ConsumeLoad \/ ConsumeRetry \/ ConsumeEmpty
    BY <2>2 DEF ConsumeLoad, ConsumeRetry, ConsumeEmpty
  <2>3. CASE ConsumeTake
    BY <2>3 DEF ConsumeTake
  <2>4. CASE WaitCheck
    BY <2>4 DEF CreditConstants, WaitCheck, TypeOK
  <2>5. CASE WaitCheckClosed \/ WaitAwait \/ WaitTimeout
    BY <2>5 DEF WaitCheckClosed, WaitAwait, WaitTimeout, TypeOK
  <2>6. ASSUME NEW g \in Granters, Grant(g) PROVE WakeupInv'
    <3>1. gpc'[g] = "notify"
      BY <2>6 DEF Grant, TypeOK
    <3> QED
      BY <2>6, <3>1 DEF Grant
  <2>7. ASSUME NEW g \in Granters, GrantNotify(g) PROVE WakeupInv'
    BY <2>7 DEF GrantNotify, NotifyOne
  <2>8. CASE Close
    BY <2>8 DEF Close
  <2>9. CASE CloseNotify
    BY <2>9 DEF CloseNotify, NotifyOne
  <2>10. CASE UNCHANGED vars
    BY <2>10 DEF vars
  <2> QED
    BY <2>1, <2>2, <2>3, <2>4, <2>5, <2>6, <2>7, <2>8, <2>9, <2>10
       DEF Next, Consumer
<1>3. WakeupInv => NoLostWakeup
  BY DEF NoLostWakeup
<1> QED
  BY <1>1, <1>2, <1>3, TypeCorrect, PTL DEF Spec

(* The sender stays within the initial window plus the peer's grants: the  *)
(* bound behind "the in-flight data per flow per direction" in the comment *)
(* of INITIAL_FLOW_WINDOW.                                                 *)
THEOREM SenderStaysInWindow == ASSUME CreditConstants PROVE Spec => []NeverOversends
<1> USE DEF CreditConstants, BudgetInv
<1>1. Init => BudgetInv
  BY DEF Init
<1>2. TypeOK /\ BudgetInv /\ [Next]_vars => BudgetInv'
  <2> SUFFICES ASSUME TypeOK, BudgetInv, [Next]_vars PROVE BudgetInv'
    OBVIOUS
  <2> USE DEF TypeOK, Minimum
  <2>1. CASE RelayTop \/ RelayCap \/ RelayRead \/ LoopTop \/ SourceEnds
    BY <2>1 DEF RelayTop, RelayCap, RelayRead, LoopTop, SourceEnds
  <2>2. CASE ConsumeLoad \/ ConsumeRetry \/ ConsumeEmpty
    BY <2>2 DEF ConsumeLoad, ConsumeRetry, ConsumeEmpty
  <2>3. CASE ConsumeTake
    BY <2>3 DEF ConsumeTake
  <2>4. CASE WaitCheck \/ WaitCheckClosed \/ WaitAwait \/ WaitTimeout
    BY <2>4 DEF WaitCheck, WaitCheckClosed, WaitAwait, WaitTimeout
  <2>5. ASSUME NEW g \in Granters, Grant(g) PROVE BudgetInv'
    BY <2>5 DEF Grant
  <2>6. ASSUME NEW g \in Granters, GrantNotify(g) PROVE BudgetInv'
    BY <2>6 DEF GrantNotify, NotifyOne
  <2>7. CASE Close \/ CloseNotify
    BY <2>7 DEF Close, CloseNotify, NotifyOne
  <2>8. CASE UNCHANGED vars
    BY <2>8 DEF vars
  <2> QED
    BY <2>1, <2>2, <2>3, <2>4, <2>5, <2>6, <2>7, <2>8 DEF Next, Consumer
<1>3. TypeOK /\ BudgetInv => NeverOversends
  BY DEF NeverOversends, TypeOK
<1> QED
  BY <1>1, <1>2, <1>3, TypeCorrect, PTL DEF Spec

(* What the run mux_flow checks of the gate, for every window and set of   *)
(* granters: no wakeup is lost and nothing is sent beyond the grants.      *)
THEOREM GateStaysSound == ASSUME CreditConstants PROVE Spec => []CreditsSound
<1>1. TypeOK /\ NoLostWakeup /\ NeverOversends => CreditsSound
  BY DEF CreditsSound
<1> QED
  BY <1>1, TypeCorrect, WakeupNeverLost, SenderStaysInWindow, PTL
=============================================================================

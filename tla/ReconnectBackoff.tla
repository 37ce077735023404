-------------------------- MODULE ReconnectBackoff --------------------------
(***************************************************************************)
(* How fast a flapping network makes the iOS session reconnect: the delay  *)
(* that start() of rvpn-mobile/src/server_session.rs computes from the     *)
(* failed attempts and from the reconnects of the last seconds, and the    *)
(* cooldown of request_reconnect.  One step of the clock is one second.    *)
(***************************************************************************)
EXTENDS Naturals, Sequences, SequencesExt, FiniteSetsExt

CONSTANTS
  Window,        \* the sliding window of reconnect_history (30 s)
  InitialDelay,  \* reconnect_initial_delay_ms
  MaxDelay,      \* reconnect_max_delay_ms
  Cooldown,      \* of request_reconnect (5 s)
  MaxAttempts,   \* bound: failed attempts told apart
  MaxBurst       \* connects a window may see

VARIABLES
  at,         \* "head" of the loop, "sleep", "connect" or "session"
  left,       \* seconds of sleep left
  history,    \* reconnect_history, as ages
  attempts,
  had,        \* had_successful_session
  requested,  \* seconds since last_reconnect_request
  connects    \* history: ages of the calls of connect() in the last Window

vars == <<at, left, history, attempts, had, requested, connects>>

TypeOK ==
  /\ at \in {"head", "sleep", "connect", "session"}
  /\ left \in 0..Max({MaxDelay, 1})
  /\ \A i \in DOMAIN history : history[i] \in Nat
  /\ attempts \in 0..MaxAttempts /\ had \in BOOLEAN
  /\ requested \in 0..Cooldown
  /\ \A i \in DOMAIN connects : connects[i] \in 0..Window

Init ==
  /\ at = "head" /\ left = 0 /\ history = <<>> /\ attempts = 0 /\ had = FALSE
  /\ requested = Cooldown /\ connects = <<>>

----------------------------------------------------------------------------
(* The front of the history is dropped while it is older than the window.  *)
Recent == SelectSeq(history, LAMBDA age : age <= Window)

(* No delay after a session, exponential backoff after failures.           *)
BaseDelay ==
  IF had \/ attempts = 0 THEN 0 ELSE Min({InitialDelay * 2^(attempts - 1), MaxDelay})

(* From the fourth reconnect of a window on, a minimum that grows.         *)
FlapDelay ==
  LET n == Len(Recent)
  IN  IF n < 3 THEN 0 ELSE Min({(n - 2) * (n - 2), Max({MaxDelay, 1})})


Delay == Max({BaseDelay, FlapDelay})

LoopHead ==
  /\ at = "head"
  /\ history' = Append(Recent, 0)
  /\ had' = FALSE
  /\ left' = Delay
  /\ at' = IF Delay > 0 THEN "sleep" ELSE "connect"
  /\ UNCHANGED <<attempts, requested, connects>>

Wake ==
  /\ at = "sleep" /\ left = 0
  /\ at' = "connect"
  /\ UNCHANGED <<left, history, attempts, had, requested, connects>>

(* connect() succeeds, and its relay runs, or fails.                       *)
Connects ==
  /\ at = "connect"
  /\ connects' = Append(connects, 0)
  /\ at' = "session"
  /\ UNCHANGED <<left, history, attempts, had, requested>>

ConnectFails ==
  /\ at = "connect"
  /\ connects' = Append(connects, 0)
  /\ at' = "head" /\ attempts' = IF attempts < MaxAttempts THEN attempts + 1 ELSE attempts
  /\ UNCHANGED <<left, history, had, requested>>

SessionEnds ==
  /\ at' = "head" /\ attempts' = 0 /\ had' = TRUE
  /\ UNCHANGED <<left, history, connects>>

(* The relay ends by itself (the network dropped).                         *)
SessionDrops == at = "session" /\ SessionEnds /\ UNCHANGED requested

(* request_reconnect: within the cooldown it is ignored; else its shutdown *)
(* broadcast ends the relay, if there is one.                              *)
RequestReconnect ==
  /\ requested = Cooldown /\ requested' = 0
  /\ IF at = "session" THEN SessionEnds
     ELSE UNCHANGED <<at, left, history, attempts, had, connects>>

Older(seq) == [i \in DOMAIN seq |-> seq[i] + 1]

(* Sleeping and a session take time; the loop's head and, at worst, a      *)
(* connect do not.                                                         *)
Tick ==
  /\ at \in {"session", "connect", "sleep"} /\ (at = "sleep" => left > 0)
  /\ left' = IF at = "sleep" THEN left - 1 ELSE left
  /\ history' = SelectSeq(Older(history), LAMBDA age : age <= Window + 1)
  /\ connects' = SelectSeq(Older(connects), LAMBDA age : age < Window)
  /\ requested' = Min({requested + 1, Cooldown})
  /\ UNCHANGED <<at, attempts, had>>

Next ==
  \/ LoopHead \/ Wake \/ Connects \/ ConnectFails \/ SessionDrops \/ RequestReconnect
  \/ Tick

Spec == Init /\ [][Next]_vars

----------------------------------------------------------------------------
(* However sessions succeed, drop at once, fail or are asked to reconnect, *)
(* start() calls connect() at most MaxBurst times within any Window: a     *)
(* session that connects and drops in turn is throttled too, although each *)
(* success resets the backoff.                                             *)
FlapsThrottled == Len(connects) <= MaxBurst
=============================================================================

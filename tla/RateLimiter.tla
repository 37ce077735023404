---------------------------- MODULE RateLimiter ----------------------------
(***************************************************************************)
(* The per-address rate limiter of the server (rvpn-server/src/handler.rs, *)
(* RateLimiter), as handle_ws_connection uses it: check_and_record under   *)
(* the write lock.  Times are ages, counted in steps and capped at Window, *)
(* beyond which the code does not tell them apart.                         *)
(***************************************************************************)
EXTENDS Naturals, FiniteSetsExt

CONSTANTS
  Ips,               \* peer addresses
  MaxPerMinute,      \* max_per_minute
  MaxConnections,    \* max_connections
  Window             \* the 60 s, in steps of the clock

VARIABLES
  requests,     \* the table: count 0 stands for an address without entry
  admitted      \* history: connections let in, by age, within the window

vars == <<requests, admitted>>
Ages == 0..(Window - 1)

TypeOK ==
  /\ requests \in [Ips -> [count: 0..Max({MaxPerMinute, MaxConnections}), age: 0..Window]]
  /\ admitted \in [Ips -> [Ages -> Nat]]

Init ==
  /\ requests = [i \in Ips |-> [count |-> 0, age |-> 0]]
  /\ admitted = [i \in Ips |-> [a \in Ages |-> 0]]

(* The lazy clean-up drops every entry a window old, whoever asks.         *)
Retained ==
  [i \in Ips |-> IF requests[i].age < Window THEN requests[i] ELSE [count |-> 0, age |-> 0]]

Limited(e) == e.count >= MaxPerMinute \/ e.count >= MaxConnections

(* check_and_record for an address without a live entry: always let in,    *)
(* whatever the limits.                                                    *)
AdmitFirst(ip) ==
  /\ Retained[ip].count = 0
  /\ requests' = [Retained EXCEPT ![ip] = [count |-> 1, age |-> 0]]
  /\ admitted' = [admitted EXCEPT ![ip][0] = @ + 1]

(* Mutant: the window of an address starts at its first connection.        *)
AdmitAgainFixed(ip) ==
  /\ Retained[ip].count > 0 /\ ~Limited(Retained[ip])
  /\ requests' = [Retained EXCEPT ![ip].count = @ + 1]
  /\ admitted' = [admitted EXCEPT ![ip][0] = @ + 1]

(* A known address under the limits: counted, and its window starts again. *)
AdmitAgain(ip) ==
  /\ Retained[ip].count > 0 /\ ~Limited(Retained[ip])
  /\ requests' = [Retained EXCEPT ![ip] = [count |-> @.count + 1, age |-> 0]]
  /\ admitted' = [admitted EXCEPT ![ip][0] = @ + 1]

Refuse(ip) ==
  /\ Retained[ip].count > 0 /\ Limited(Retained[ip])
  /\ requests' = Retained
  /\ UNCHANGED admitted

Tick ==
  /\ requests' = [i \in Ips |->
       IF requests[i].age < Window /\ requests[i].count > 0
       THEN [requests[i] EXCEPT !.age = @ + 1] ELSE requests[i]]
  /\ admitted' = [i \in Ips |-> [a \in Ages |-> IF a = 0 THEN 0 ELSE admitted[i][a - 1]]]

Next == (\E ip \in Ips : AdmitFirst(ip) \/ AdmitAgain(ip) \/ Refuse(ip)) \/ Tick

Spec == Init /\ [][Next]_vars

----------------------------------------------------------------------------
(* Over any sixty seconds, wherever they start and whatever the windows of *)
(* the table, check_and_record lets in no more connections of an address   *)
(* than the smaller limit (and one, when a limit is zero).                 *)
BurstBounded ==
  \A ip \in Ips :
    MapThenSumSet(LAMBDA a : admitted[ip][a], Ages)
      <= Max({1, Min({MaxPerMinute, MaxConnections})})
=============================================================================

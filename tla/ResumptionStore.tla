-------------------------- MODULE ResumptionStore --------------------------
(***************************************************************************)
(* The TLS session store that the connections to an exit share             *)
(* (rvpn-tls/src/resumption.rs): the rustls side, with key-exchange hints, *)
(* TLS 1.2 sessions and queues of TLS 1.3 tickets, and the boring side,    *)
(* with one session per server.  Each method runs under its side's mutex.  *)
(* Tickets carry the number they were issued with.                         *)
(***************************************************************************)
EXTENDS Naturals, Sequences, SequencesExt

CONSTANTS
  Names,         \* server names
  Capacity,      \* capacity of the store
  MaxTickets,    \* MAX_TICKETS_PER_SERVER
  MaxIssued      \* bound: tickets issued, on both sides together

VARIABLES
  order, kxHints, tls12, tls13,   \* RustlsState; tls13[n] is NoQueue or a queue
  bOrder, bSessions,              \* BoringState; bSessions[n] is 0 or a ticket
  issued,                         \* tickets issued so far
  taken                           \* history: tickets handed out

vars == <<order, kxHints, tls12, tls13, bOrder, bSessions, issued, taken>>
boring == <<bOrder, bSessions>>
rustls == <<order, kxHints, tls12, tls13>>

NoQueue == <<0>>

TypeOK ==
  /\ order \in Seq(Names) /\ kxHints \subseteq Names /\ tls12 \subseteq Names
  /\ \A n \in Names : tls13[n] = NoQueue \/ (tls13[n] \in Seq(1..MaxIssued) /\ Len(tls13[n]) <= MaxTickets)
  /\ bOrder \in Seq(Names) /\ bSessions \in [Names -> 0..MaxIssued]
  /\ issued \in 0..MaxIssued /\ taken \in Seq(1..MaxIssued)

Init ==
  /\ order = <<>> /\ kxHints = {} /\ tls12 = {} /\ tls13 = [n \in Names |-> NoQueue]
  /\ bOrder = <<>> /\ bSessions = [n \in Names |-> 0]
  /\ issued = 0 /\ taken = <<>>

----------------------------------------------------------------------------
Known(n) == n \in kxHints \/ n \in tls12 \/ tls13[n] # NoQueue
Spent(n) == tls13[n] \in {NoQueue, <<>>}

(* note_server: the order after it, and the names it evicts.               *)
Noted(n) == IF Known(n) THEN order ELSE Append(order, n)
Excess(n) == IF Len(Noted(n)) > Capacity THEN Len(Noted(n)) - Capacity ELSE 0
Gone(n) == {Noted(n)[i] : i \in 1..Excess(n)}

NoteServer(n) == order' = SubSeq(Noted(n), Excess(n) + 1, Len(Noted(n)))

SetKxHint(n) ==
  /\ NoteServer(n)
  /\ kxHints' = (kxHints \ Gone(n)) \cup {n} /\ tls12' = tls12 \ Gone(n)
  /\ tls13' = [m \in Names |-> IF m \in Gone(n) THEN NoQueue ELSE tls13[m]]
  /\ UNCHANGED <<boring, issued, taken>>

SetTls12Session(n) ==
  /\ NoteServer(n)
  /\ kxHints' = kxHints \ Gone(n) /\ tls12' = (tls12 \ Gone(n)) \cup {n}
  /\ tls13' = [m \in Names |-> IF m \in Gone(n) THEN NoQueue ELSE tls13[m]]
  /\ UNCHANGED <<boring, issued, taken>>

(* insert_tls13_ticket: the oldest of a full queue makes room.             *)
InsertTls13Ticket(n) ==
  /\ issued < MaxIssued /\ issued' = issued + 1
  /\ NoteServer(n)
  /\ kxHints' = kxHints \ Gone(n) /\ tls12' = tls12 \ Gone(n)
  /\ tls13' = [m \in Names |->
       IF m \in Gone(n) THEN NoQueue
       ELSE IF m # n THEN tls13[m]
       ELSE LET q == IF tls13[n] = NoQueue THEN <<>> ELSE tls13[n]
            IN  Append(IF Len(q) >= MaxTickets THEN Tail(q) ELSE q, issued')]
  /\ UNCHANGED <<boring, taken>>

(* Mutant: a name stays in the order when nothing of it is left.           *)
ForgetNothing(n) == order' = order

(* forget_if_empty, for a name whose hint, session and tickets are gone;   *)
(* an emptied queue stays in the map.                                      *)
ForgetIfEmpty(n) ==
  order' = IF n \notin kxHints /\ n \notin tls12' /\ tls13'[n] \in {NoQueue, <<>>}
           THEN SelectSeq(order, LAMBDA m : m # n) ELSE order

RemoveTls12Session(n) ==
  /\ tls12' = tls12 \ {n} /\ UNCHANGED <<kxHints, tls13>>
  /\ ForgetIfEmpty(n)
  /\ UNCHANGED <<boring, issued, taken>>

(* Mutant: the ticket is offered and stays in the queue.                   *)
PeekTls13Ticket(n) ==
  /\ taken' = IF Spent(n) THEN taken ELSE Append(taken, Head(tls13[n]))
  /\ UNCHANGED <<tls13, kxHints, tls12>>
  /\ ForgetIfEmpty(n)
  /\ UNCHANGED <<boring, issued>>

TakeTls13Ticket(n) ==
  /\ IF Spent(n) THEN UNCHANGED <<tls13, taken>>
     ELSE /\ tls13' = [tls13 EXCEPT ![n] = Tail(@)]
          /\ taken' = Append(taken, Head(tls13[n]))
  /\ UNCHANGED <<kxHints, tls12>>
  /\ ForgetIfEmpty(n)
  /\ UNCHANGED <<boring, issued>>

----------------------------------------------------------------------------
Held(s) == {n \in Names : s[n] # 0}

(* boring_record_session: the newest ticket replaces the one held; names   *)
(* leave from the front of the order while there are too many.             *)
BoringRecordSession(n) ==
  /\ issued < MaxIssued /\ issued' = issued + 1
  /\ LET noted == IF bSessions[n] = 0 THEN Append(bOrder, n) ELSE bOrder
         excess == IF Cardinality(Held(bSessions) \cup {n}) > Capacity THEN 1 ELSE 0
         gone == {noted[i] : i \in 1..excess}
     IN  /\ bOrder' = SubSeq(noted, excess + 1, Len(noted))
         /\ bSessions' = [m \in Names |-> IF m \in gone THEN 0
                                          ELSE IF m = n THEN issued' ELSE bSessions[m]]
  /\ UNCHANGED <<rustls, taken>>


BoringTakeSession(n) ==
  /\ bSessions[n] # 0
  /\ taken' = Append(taken, bSessions[n])
  /\ bSessions' = [bSessions EXCEPT ![n] = 0]
  /\ bOrder' = SelectSeq(bOrder, LAMBDA m : m # n)
  /\ UNCHANGED <<rustls, issued>>

Next ==
  \E n \in Names :
    \/ SetKxHint(n) \/ SetTls12Session(n) \/ RemoveTls12Session(n)
    \/ InsertTls13Ticket(n) \/ TakeTls13Ticket(n)
    \/ BoringRecordSession(n) \/ BoringTakeSession(n)

Spec == Init /\ [][Next]_vars

----------------------------------------------------------------------------
(* Each ticket is offered to a server at most once, as TLS 1.3 asks,       *)
(* through queues that overflow, evictions and both backends.              *)
TicketsSingleUse == IsInjective(taken)

(* The boring side's order lists exactly the servers with a session, each  *)
(* once, so evicting from its front keeps the sessions within capacity.    *)
BoringBounded ==
  /\ IsInjective(bOrder) /\ Range(bOrder) = Held(bSessions)
  /\ Cardinality(Held(bSessions)) <= Capacity

(* The servers the rustls side holds anything for.                         *)
Carried == {n \in Names : n \in kxHints \/ n \in tls12 \/ ~Spent(n)}

(* The rustls side's order names at most capacity servers, none twice, and *)
(* only ones that carry state: an eviction always frees something.  A      *)
(* server that carries state and is not in it is one whose emptied ticket  *)
(* queue take_tls13_ticket left in the map, which note_server then takes   *)
(* for a known server: nothing else escapes the bound.                     *)
OrderCountsServers ==
  /\ IsInjective(order) /\ Len(order) <= Capacity
  /\ Range(order) \subseteq Carried
  /\ \A n \in Carried \ Range(order) : tls13[n] # NoQueue
=============================================================================

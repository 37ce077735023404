---------------------------- MODULE SessionRelay ----------------------------
(***************************************************************************)
(* run_packet_relay of a mobile exit session (rvpn-mobile,                 *)
(* server_session.rs on iOS/macOS and android_server_session.rs): the tx,  *)
(* rx and keepalive tasks of a connection, and the one shutdown broadcast  *)
(* channel that all connections of the session share.  A task subscribes   *)
(* when it first runs; a broadcast reaches the tasks subscribed at that    *)
(* moment, of whichever connection.  The reconnect loop around the relay   *)
(* is module ServerSession; here it connects, relays and goes round.       *)
(***************************************************************************)
EXTENDS Naturals

CONSTANTS
  MaxConns,     \* bound: connections that come up before the path stays down
  MaxEvents     \* bound: application calls and suspensions

VARIABLES
  platform,     \* which of the two implementations runs
  enabled,      \* reconnect_enabled
  pc,           \* the reconnect loop
  conn,         \* the newest connection
  task,         \* relay tasks of every connection
  sig,          \* a shutdown broadcast the task has yet to receive
  path,         \* the connection's network path
  probe,        \* doze_probe of the connection's keepalive
  stopping,     \* rvpn_tun_stop is between its two halves
  events        \* application calls and suspensions so far

vars == <<platform, enabled, pc, conn, task, sig, path, probe, stopping, events>>
appVars == <<platform, enabled, stopping, events>>

Conns == 1..MaxConns
Tasks == {"tx", "rx", "ka"}

TypeOK ==
  /\ platform \in {"ios", "android"}
  /\ enabled \in BOOLEAN /\ stopping \in BOOLEAN /\ events \in 0..MaxEvents
  /\ pc \in {"connect", "vip", "relay", "off"}
  /\ conn \in 0..MaxConns
  /\ task \in [Conns -> [Tasks -> {"none", "new", "run", "send", "done"}]]
  /\ sig \in [Conns -> [Tasks -> BOOLEAN]]
  /\ path \in [Conns -> {"none", "up", "silent", "closed"}] /\ probe \in [Conns -> BOOLEAN]

Init ==
  /\ platform \in {"ios", "android"} /\ enabled = TRUE /\ pc = "connect" /\ conn = 0
  /\ task = [c \in Conns |-> [t \in Tasks |-> "none"]]
  /\ sig = [c \in Conns |-> [t \in Tasks |-> FALSE]]
  /\ path = [c \in Conns |-> "none"] /\ probe = [c \in Conns |-> FALSE]
  /\ stopping = FALSE /\ events = 0

----------------------------------------------------------------------------
Subscribed(c, t) == task[c][t] \in {"run", "send"}

(* shutdown_tx.send(()), with the sender itself (by) about to return.      *)
Broadcast(by) ==
  [c \in Conns |-> [t \in Tasks |->
     IF <<c, t>> = by THEN FALSE ELSE sig[c][t] \/ Subscribed(c, t)]]

NoListener == <<0, "none">>

(* A task returns; what it had not received of the broadcast goes with it. *)
Finish(c, t) == task' = [task EXCEPT ![c][t] = "done"]

(* connect() up to its last check of reconnect_enabled, after X3DH.        *)
LoopConnects ==
  /\ pc = "connect"
  /\ \/ ~enabled /\ pc' = "off"
     \/ enabled /\ conn < MaxConns /\ pc' = "vip"
  /\ UNCHANGED <<conn, task, sig, path, probe, appVars>>

(* receive_virtual_ip waits up to 5 s; then the tasks are spawned.         *)
LoopRelays ==
  /\ pc = "vip"
  /\ \/ pc' = "connect" /\ UNCHANGED <<conn, task, path>>
     \/ /\ pc' = "relay" /\ conn' = conn + 1
        /\ task' = [task EXCEPT ![conn'] = [t \in Tasks |-> "new"]]
        /\ path' = [path EXCEPT ![conn'] = "up"]
  /\ UNCHANGED <<sig, probe, appVars>>

(* Mutant: the relay waits for all three tasks instead of the first.       *)
RelayJoins ==
  /\ pc = "relay" /\ \A t \in Tasks : task[conn][t] = "done"
  /\ sig' = Broadcast(NoListener)
  /\ pc' = IF enabled THEN "connect" ELSE "off"
  /\ UNCHANGED <<conn, task, path, probe, appVars>>

(* select! over the three tasks: the first to return ends the relay, with  *)
(* one more broadcast for the other two.                                   *)
RelayEnds ==
  /\ pc = "relay" /\ \E t \in Tasks : task[conn][t] = "done"
  /\ sig' = Broadcast(NoListener)
  /\ pc' = IF enabled THEN "connect" ELSE "off"
  /\ UNCHANGED <<conn, task, path, probe, appVars>>

----------------------------------------------------------------------------
(* The relay tasks.                                                        *)

TaskStarts(c, t) ==
  /\ task[c][t] = "new"
  /\ task' = [task EXCEPT ![c][t] = "run"]
  /\ UNCHANGED <<pc, conn, sig, path, probe, appVars>>

(* A shutdown is received in the select! at the head of the loop.          *)
TaskShutdown(c, t) ==
  /\ task[c][t] = "run" /\ sig[c][t]
  /\ Finish(c, t) /\ sig' = [sig EXCEPT ![c][t] = FALSE]
  /\ UNCHANGED <<pc, conn, path, probe, appVars>>

(* run_tx takes packets from Swift and collects a batch (a shutdown still  *)
(* ends it there, and the batch is dropped), then send_lock, encrypt and   *)
(* the WebSocket write: no shutdown is looked at until that returns.       *)
TxSend(c) ==
  /\ task[c]["tx"] = "run" /\ task[c]["ka"] # "send"
  /\ task' = [task EXCEPT ![c]["tx"] = "send"]
  /\ UNCHANGED <<pc, conn, sig, path, probe, appVars>>

(* The keepalive's encrypted ping, skipped when send_lock is busy.         *)
KaSend(c) ==
  /\ platform = "ios" /\ task[c]["ka"] = "run" /\ task[c]["tx"] # "send"
  /\ task' = [task EXCEPT ![c]["ka"] = "send"]
  /\ UNCHANGED <<pc, conn, sig, path, probe, appVars>>

(* Android's keepalive waits for send_lock instead.                        *)
AndroidKaSend(c) ==
  /\ platform = "android" /\ task[c]["ka"] = "run" /\ task[c]["tx"] # "send"
  /\ task' = [task EXCEPT ![c]["ka"] = "send"]
  /\ UNCHANGED <<pc, conn, sig, path, probe, appVars>>

SendOk(c, t) ==
  /\ task[c][t] = "send" /\ path[c] = "up"
  /\ task' = [task EXCEPT ![c][t] = "run"]
  /\ UNCHANGED <<pc, conn, sig, path, probe, appVars>>

(* The write fails, possibly long after the path died.                     *)
SendFails(c, t) ==
  /\ task[c][t] = "send" /\ path[c] # "up"
  /\ Finish(c, t) /\ sig' = Broadcast(<<c, t>>)
  /\ UNCHANGED <<pc, conn, path, probe, appVars>>

(* run_rx hands a batch to Swift, waiting while that channel is full.      *)
RxDeliver(c) ==
  /\ task[c]["rx"] = "run" /\ path[c] = "up"
  /\ task' = [task EXCEPT ![c]["rx"] = "send"]
  /\ UNCHANGED <<pc, conn, sig, path, probe, appVars>>

RxDelivered(c) ==
  /\ task[c]["rx"] = "send"
  /\ task' = [task EXCEPT ![c]["rx"] = "run"]
  /\ UNCHANGED <<pc, conn, sig, path, probe, appVars>>

(* run_rx reads a Close frame, an error, or nothing for 60 s.              *)
RxEnds(c) ==
  /\ platform = "ios" /\ task[c]["rx"] = "run" /\ path[c] # "up"
  /\ Finish(c, "rx") /\ sig' = Broadcast(<<c, "rx">>)
  /\ UNCHANGED <<pc, conn, path, probe, appVars>>

(* Android's run_rx has no read timeout: a silent path does not end it.    *)
AndroidRxEnds(c) ==
  /\ platform = "android" /\ task[c]["rx"] = "run" /\ path[c] = "closed"
  /\ Finish(c, "rx") /\ sig' = Broadcast(<<c, "rx">>)
  /\ UNCHANGED <<pc, conn, path, probe, appVars>>

(* A frame arrives.  rx_count and last_rx_time belong to the session, so a *)
(* frame on any of its connections counts.                                 *)
Heard == \E c \in Conns : path[c] = "up" /\ task[c]["rx"] \in {"new", "run"}

(* More than 30 s of wall clock since the last tick: probe first.          *)
KaDozed(c) ==
  /\ platform = "ios" /\ task[c]["ka"] = "run" /\ ~probe[c] /\ events < MaxEvents
  /\ probe' = [probe EXCEPT ![c] = TRUE] /\ events' = events + 1
  /\ UNCHANGED <<pc, conn, task, sig, path, platform, enabled, stopping>>

KaSurvived(c) ==
  /\ task[c]["ka"] = "run" /\ probe[c] /\ Heard
  /\ probe' = [probe EXCEPT ![c] = FALSE]
  /\ UNCHANGED <<pc, conn, task, sig, path, appVars>>

(* The probe's 10 s passed without a frame, or 30 s of silence.            *)
KaDead(c) ==
  /\ platform = "ios" /\ task[c]["ka"] = "run" /\ (probe[c] \/ ~Heard)
  /\ Finish(c, "ka") /\ sig' = Broadcast(<<c, "ka">>)
  /\ UNCHANGED <<pc, conn, path, probe, appVars>>

----------------------------------------------------------------------------
(* The application and the network.                                        *)

(* rvpn_tun_stop: set_reconnect_enabled(false), then stop().               *)
StopDisable ==
  /\ events < MaxEvents /\ enabled
  /\ enabled' = FALSE /\ stopping' = TRUE /\ events' = events + 1
  /\ UNCHANGED <<platform, pc, conn, task, sig, path, probe>>

StopBroadcast ==
  /\ stopping /\ stopping' = FALSE /\ sig' = Broadcast(NoListener)
  /\ UNCHANGED <<pc, conn, task, path, probe, platform, enabled, events>>

(* rvpn_network_changed(1) beyond the 5 s cooldown.                        *)
RequestReconnect ==
  /\ events < MaxEvents /\ enabled
  /\ sig' = Broadcast(NoListener) /\ events' = events + 1
  /\ UNCHANGED <<pc, conn, task, path, probe, platform, enabled, stopping>>

(* The connection is closed, or the path just stops carrying anything.     *)
PathDies(c) ==
  /\ path[c] = "up"
  /\ \E how \in {"silent", "closed"} : path' = [path EXCEPT ![c] = how]
  /\ UNCHANGED <<pc, conn, task, sig, probe, appVars>>

----------------------------------------------------------------------------
LoopStep == LoopConnects \/ LoopRelays \/ RelayEnds

TxStep(c) ==
  \/ TaskStarts(c, "tx") \/ TaskShutdown(c, "tx")
  \/ SendOk(c, "tx") \/ SendFails(c, "tx")

RxStep(c) ==
  \/ TaskStarts(c, "rx") \/ TaskShutdown(c, "rx") \/ RxDelivered(c)
  \/ RxEnds(c) \/ AndroidRxEnds(c)

KaStep(c) ==
  \/ TaskStarts(c, "ka") \/ TaskShutdown(c, "ka") \/ KaSend(c) \/ AndroidKaSend(c)
  \/ SendOk(c, "ka") \/ SendFails(c, "ka") \/ KaSurvived(c) \/ KaDead(c)

LoopOrStop == LoopStep \/ StopBroadcast
AnyShutdown == \E c \in Conns, t \in Tasks : TaskShutdown(c, t)

Next ==
  \/ LoopStep
  \/ \E c \in Conns : \/ TxStep(c) \/ RxStep(c) \/ KaStep(c)
                      \/ TxSend(c) \/ RxDeliver(c)
                      \/ KaDozed(c) \/ PathDies(c)
  \/ StopDisable \/ StopBroadcast \/ RequestReconnect

Spec == Init /\ [][Next]_vars

(* The runtime polls every ready task and fires the keepalive interval; a  *)
(* write on a dead path fails in the end (TCP gives up), and the           *)
(* application drains the inbound channel.  select! polls its branches in  *)
(* random order, so a task that returns to it again and again does take a  *)
(* waiting shutdown (strong fairness).  Traffic, a dying path and the      *)
(* application's calls are not owed.                                       *)
Fairness ==
  /\ WF_vars(LoopStep) /\ WF_vars(StopBroadcast)
  /\ \A c \in Conns : WF_vars(TxStep(c)) /\ WF_vars(RxStep(c)) /\ WF_vars(KaStep(c))
  /\ \A c \in Conns, t \in Tasks : SF_vars(TaskShutdown(c, t))

FairSpec == Spec /\ Fairness

----------------------------------------------------------------------------
Relaying(c) == pc = "relay" /\ conn = c

(* A connection whose path has died is given up: run_packet_relay on it    *)
(* returns, whichever of its tasks missed a broadcast, is suspended on a   *)
(* probe or is blocked in a write when the others notice.                  *)
DeadPathAbandoned ==
  \A c \in Conns : (Relaying(c) /\ path[c] # "up") ~> ~Relaying(c)
=============================================================================

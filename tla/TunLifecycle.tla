---------------------------- MODULE TunLifecycle ----------------------------
(***************************************************************************)
(* The life of the iOS/macOS tunnel behind the C interface                 *)
(* (rvpn-mobile/src/ios_tun_ffi.rs): the app's threads call                *)
(* rvpn_tun_create, _start, _stop and _destroy in any order and at the     *)
(* same time, and the functions share four statics, each locked on its     *)
(* own: TUN_CLIENT, TUN_RUNTIME, TUN_CLIENT_CREATING, DNS_PROXY_HANDLE.    *)
(* A client is named by the runtime it was built on.                       *)
(***************************************************************************)
EXTENDS Naturals, Sequences, FiniteSets

CONSTANTS
  Threads,       \* threads of the app
  MaxRuntimes,   \* bound: runtimes ever built
  MaxTasks       \* bound: DNS proxy tasks ever spawned

VARIABLES
  client,     \* TUN_CLIENT; 0: None
  runtime,    \* TUN_RUNTIME; 0: None
  creating,   \* TUN_CLIENT_CREATING
  handle,     \* DNS_PROXY_HANDLE; 0: None
  built,      \* runtimes ever built are 1..built
  alive,      \* runtimes not dropped
  tasks,      \* DNS proxy tasks spawned, in order: [on, live]
  pc,         \* where each thread is; "out": not inside a call
  mine        \* the runtime (create) or client (start) a thread holds

vars == <<client, runtime, creating, handle, built, alive, tasks, pc, mine>>

Labels == {"out", "claim", "build", "store", "release", "dns", "spawn",
           "drop_client", "drop_runtime"}

TypeOK ==
  /\ client \in 0..MaxRuntimes /\ runtime \in 0..MaxRuntimes
  /\ creating \in BOOLEAN
  /\ handle \in 0..MaxTasks
  /\ built \in 0..MaxRuntimes /\ alive \subseteq 1..built
  /\ \A t \in DOMAIN tasks : tasks[t].on \in 1..built /\ tasks[t].live \in BOOLEAN
  /\ pc \in [Threads -> Labels] /\ mine \in [Threads -> 0..MaxRuntimes]

Init ==
  /\ client = 0 /\ runtime = 0 /\ creating = FALSE /\ handle = 0
  /\ built = 0 /\ alive = {} /\ tasks = <<>>
  /\ pc = [p \in Threads |-> "out"] /\ mine = [p \in Threads |-> 0]

Goto(p, l) == pc' = [pc EXCEPT ![p] = l]

(* Dropping a runtime ends the tasks that run on it.                       *)
Drop(rs) ==
  /\ alive' = alive \ rs
  /\ tasks' = [t \in DOMAIN tasks |-> [tasks[t] EXCEPT !.live = @ /\ tasks[t].on \notin rs]]

----------------------------------------------------------------------------
(* rvpn_tun_create: the fast path returns when a client exists.            *)
Create(p) ==
  /\ pc[p] = "out" /\ client = 0
  /\ Goto(p, "claim")
  /\ UNCHANGED <<client, runtime, creating, handle, built, alive, tasks, mine>>

(* The compare_exchange; a duplicate call returns.                         *)
Claim(p) ==
  /\ pc[p] = "claim"
  /\ IF creating THEN Goto(p, "out") ELSE Goto(p, "build")
  /\ creating' = TRUE
  /\ UNCHANGED <<client, runtime, handle, built, alive, tasks, mine>>

Build(p) ==
  /\ pc[p] = "build" /\ built < MaxRuntimes
  /\ built' = built + 1 /\ alive' = alive \cup {built + 1}
  /\ mine' = [mine EXCEPT ![p] = built + 1]
  /\ Goto(p, "store")
  /\ UNCHANGED <<client, runtime, creating, handle, tasks>>

(* Mutant: the error path leaves the flag set.                             *)
CreateFailsHolding(p) ==
  /\ pc[p] \in {"build", "store"}
  /\ Drop({mine[p]})
  /\ mine' = [mine EXCEPT ![p] = 0]
  /\ Goto(p, "out")
  /\ UNCHANGED <<client, runtime, creating, handle, built>>

(* The runtime cannot be built, or IosTunClient::new fails and the runtime *)
(* is dropped: the flag is cleared and the call returns an error.          *)
CreateFails(p) ==
  /\ pc[p] \in {"build", "store"}
  /\ creating' = FALSE
  /\ Drop({mine[p]})
  /\ mine' = [mine EXCEPT ![p] = 0]
  /\ Goto(p, "out")
  /\ UNCHANGED <<client, runtime, handle, built>>

(* Mutant: the double-check under the lock is left out.                    *)
StoreUnchecked(p) ==
  /\ pc[p] = "store"
  /\ Drop({runtime})
  /\ runtime' = mine[p] /\ client' = mine[p]
  /\ mine' = [mine EXCEPT ![p] = 0]
  /\ Goto(p, "release")
  /\ UNCHANGED <<creating, handle, built>>

(* Under the client lock: the double-check, then runtime and client.  The  *)
(* assignment drops whatever runtime the static held.                      *)
Store(p) ==
  /\ pc[p] = "store"
  /\ IF client # 0
     THEN Drop({mine[p]}) /\ UNCHANGED <<client, runtime>>
     ELSE /\ Drop({runtime})
          /\ runtime' = mine[p] /\ client' = mine[p]
  /\ mine' = [mine EXCEPT ![p] = 0]
  /\ Goto(p, "release")
  /\ UNCHANGED <<creating, handle, built>>

Release(p) ==
  /\ pc[p] = "release"
  /\ creating' = FALSE
  /\ Goto(p, "out")
  /\ UNCHANGED <<client, runtime, handle, built, alive, tasks, mine>>

----------------------------------------------------------------------------
(* rvpn_tun_start clones the client, or returns ERROR_NOT_INITIALIZED.     *)
Start(p) ==
  /\ pc[p] = "out" /\ client # 0
  /\ mine' = [mine EXCEPT ![p] = client]
  /\ Goto(p, "dns")
  /\ UNCHANGED <<client, runtime, creating, handle, built, alive, tasks>>

(* already_running is read under the lock, which is then released; the     *)
(* config may also leave the proxy out.                                    *)
CheckRunning(p) ==
  /\ pc[p] = "dns"
  /\ Goto(p, IF handle = 0 THEN "spawn" ELSE "out")
  /\ mine' = IF handle = 0 THEN mine ELSE [mine EXCEPT ![p] = 0]
  /\ UNCHANGED <<client, runtime, creating, handle, built, alive, tasks>>

(* The task is spawned on the cloned client's runtime and its handle put   *)
(* in the static.  On a runtime that has been dropped it never runs.       *)
SpawnDnsProxy(p) ==
  /\ pc[p] = "spawn" /\ Len(tasks) < MaxTasks
  /\ tasks' = Append(tasks, [on |-> mine[p], live |-> mine[p] \in alive])
  /\ handle' = Len(tasks) + 1
  /\ mine' = [mine EXCEPT ![p] = 0]
  /\ Goto(p, "out")
  /\ UNCHANGED <<client, runtime, creating, built, alive>>

(* start_dns_proxy_for_direct_tun returns an error: the DoH client or the  *)
(* DNS server did not start.  Its handle stays in the static.              *)
DnsProxyFails(t) ==
  /\ tasks[t].live
  /\ tasks' = [tasks EXCEPT ![t].live = FALSE]
  /\ UNCHANGED <<client, runtime, creating, handle, built, alive, pc, mine>>

----------------------------------------------------------------------------
(* rvpn_tun_stop takes the handle out of the static and aborts the task;   *)
(* rvpn_tun_destroy stops first (next says which of the two it is).        *)
Stop(p, next) ==
  /\ pc[p] = "out"
  /\ tasks' = IF handle = 0 THEN tasks ELSE [tasks EXCEPT ![handle].live = FALSE]
  /\ handle' = 0
  /\ Goto(p, next)
  /\ UNCHANGED <<client, runtime, creating, built, alive, mine>>

DropClient(p) ==
  /\ pc[p] = "drop_client"
  /\ client' = 0
  /\ Goto(p, "drop_runtime")
  /\ UNCHANGED <<runtime, creating, handle, built, alive, tasks, mine>>

DropRuntime(p) ==
  /\ pc[p] = "drop_runtime"
  /\ Drop({runtime})
  /\ runtime' = 0
  /\ Goto(p, "out")
  /\ UNCHANGED <<client, creating, handle, built, mine>>

Next ==
  \/ \E p \in Threads :
       \/ Create(p) \/ Claim(p) \/ Build(p) \/ CreateFails(p) \/ Store(p) \/ Release(p)
       \/ Start(p) \/ CheckRunning(p) \/ SpawnDnsProxy(p)
       \/ Stop(p, "out") \/ Stop(p, "drop_client") \/ DropClient(p) \/ DropRuntime(p)
  \/ \E t \in DOMAIN tasks : DnsProxyFails(t)

Spec == Init /\ [][Next]_vars

----------------------------------------------------------------------------
(* TUN_CLIENT_CREATING is set exactly while one thread is between its      *)
(* claim and its release: an error path that left it set would make every  *)
(* later rvpn_tun_create return SUCCESS without a client.                  *)
Creators == {p \in Threads : pc[p] \in {"build", "store", "release"}}
CreationOwned == Cardinality(Creators) = (IF creating THEN 1 ELSE 0)

(* A client is never replaced under its users by another (the iOS          *)
(* double-startTunnel race the creation flag and the double-check are      *)
(* for): TUN_CLIENT only goes from None to a client and back.              *)
NeverReplaced == client # 0 => client' \in {client, 0}
ClientNeverReplaced == [][NeverReplaced]_vars
=============================================================================

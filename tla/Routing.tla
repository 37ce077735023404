------------------------------- MODULE Routing -------------------------------
(***************************************************************************)
(* Where a connection goes: the split-tunnel rules with their reload task  *)
(* (rvpn-split-tunnel/src/split_tunnel.rs), the choice of an exit server   *)
(* (router.rs) and the two consultations of the rules that every proxied   *)
(* connection makes (rvpn-client/src/proxy_common.rs, http_proxy.rs).      *)
(*                                                                         *)
(* A host is its sequence of labels; a network is the set of addresses in  *)
(* it, so that "some network contains the address" is membership.          *)
(***************************************************************************)
EXTENDS Naturals, Sequences, FiniteSets

CONSTANTS
  Conns,        \* connections
  Hosts,        \* hosts asked for
  Address,      \* Address[h]: the addresses h resolves to
  ListDomains,  \* ListDomains[f]: what the domain file f may contain
  ListNets,     \* ListNets[f]: what the network file f may contain
  Private,      \* default_bypass_networks and the configured countries' ranges
  CountryIps,   \* addresses in CN
  ChinaHosts,   \* matches_china_domain
  ForceHosts,   \* matches_force_tunnel_domain
  AdHosts,      \* matches_ad_domain
  Literals,     \* hosts given as an address
  Rules,        \* the routing rules: [kind, pattern, server]
  Cidrs,        \* the networks of the routing rules: [net, server]
  MaxEdits      \* bound: files rewritten, or found unreadable

DomainFiles == {"bypassD", "tunnelD", "block"}
NetFiles == {"bypassN", "tunnelN"}
Files == DomainFiles \cup NetFiles
(* The order in which load_data reads them.                                *)
ReadOrder == <<"bypassN", "bypassD", "tunnelN", "tunnelD", "block">>
Asleep == 0
Want == Len(ReadOrder) + 1

VARIABLES
  disk,     \* the rule files
  edits,    \* rewrites and failed reads so far
  data,     \* SplitTunnelData
  loading,  \* what load_data has read so far
  reload,   \* auto_reload_task: Asleep, the file it reads, or Want (the lock)
  readers,  \* connections inside the RwLock
  conn      \* Conns -> a connection

rules == <<disk, edits, data, loading, reload, readers>>
vars == <<rules, conn>>

Contents(f) == IF f \in DomainFiles THEN ListDomains[f] ELSE ListNets[f]
RuleSets == [Files -> SUBSET UNION {Contents(f) : f \in Files}]

(* A connection: its host, where it is, the answer of the first look, the  *)
(* final decision, the exit, whether a resolution failed, and the rule     *)
(* sets in force since it began.                                           *)
Fresh(h) ==
  [host |-> h, pc |-> "first", decision |-> "none", exit |-> "none", failed |-> FALSE,
   seen |-> {data}]
Idle == [pc |-> "idle"]

----------------------------------------------------------------------------
(* matches_domain: the host or one of its parents is listed.               *)
MatchesDomain(h, list) == \E i \in 1..Len(h) : SubSeq(h, i, Len(h)) \in list

(* decide_by_host up to the point where it lets go of the rules: "none"    *)
(* means that no list of the rules has spoken.                             *)
ListsSay(h, r) ==
  CASE MatchesDomain(h, r["block"]) \/ h \in AdHosts -> "block"
    [] MatchesDomain(h, r["tunnelD"]) -> "tunnel"
    [] MatchesDomain(h, r["bypassD"]) -> "bypass"
    [] OTHER -> "none"

(* ips_match_country, for addresses that have been resolved.               *)
InCountry(ips) == ips \cap CountryIps # {}

(* Mutant: the networks are asked before the lists of domains.             *)
DecideNetworksFirst(h, ips, r) ==
  CASE ips \cap r["tunnelN"] # {} -> "tunnel"
    [] ips \cap (r["bypassN"] \cup Private) # {} -> "bypass"
    [] MatchesDomain(h, r["bypassD"]) -> "bypass"
    [] OTHER -> "tunnel"

(* decide: the second look, with the addresses.                            *)
Decide(h, ips, r) ==
  CASE MatchesDomain(h, r["tunnelD"]) -> "tunnel"
    [] MatchesDomain(h, r["bypassD"]) -> "bypass"
    [] h \in ForceHosts -> "tunnel"
    [] ips \cap r["tunnelN"] # {} -> "tunnel"
    [] ips \cap (r["bypassN"] \cup Private) # {} -> "bypass"
    [] OTHER -> "tunnel"

----------------------------------------------------------------------------
(* router.rs.  Patterns that match one host are suffixes of it, so their   *)
(* lengths compare as their numbers of labels do.                          *)
MatchesRule(rule, h) ==
  LET n == Len(rule.pattern) IN
  /\ Len(h) >= n /\ SubSeq(h, Len(h) - n + 1, Len(h)) = rule.pattern
  /\ CASE rule.kind = "exact" -> Len(h) = n
       [] rule.kind = "wildcard" -> Len(h) > n
       [] rule.kind = "suffix" -> TRUE

KindRank == [exact |-> 2, wildcard |-> 1, suffix |-> 0]
MoreSpecific(a, b) ==
  \/ KindRank[a.kind] > KindRank[b.kind]
  \/ KindRank[a.kind] = KindRank[b.kind] /\ Len(a.pattern) > Len(b.pattern)

(* Mutant: the rules stay in the order of the HashMap.                     *)
Unsorted(s) == s

(* The stable sort of build: a permutation that keeps the order of rules   *)
(* neither of which is more specific.                                      *)
Sorted(s) ==
  LET before(i, j) == MoreSpecific(s[i], s[j]) \/ (i < j /\ ~MoreSpecific(s[j], s[i]))
      place(i) == Cardinality({j \in DOMAIN s : j # i /\ before(j, i)}) + 1
  IN [k \in DOMAIN s |-> s[CHOOSE i \in DOMAIN s : place(i) = k]]

(* The orders in which the HashMap of build may yield the rules.           *)
Orders ==
  {s \in [1..Cardinality(Rules) -> Rules] : \A r \in Rules : \E i \in DOMAIN s : s[i] = r}

(* longest_match: of the networks around the address, the smallest.        *)
Around(h) == {c \in Cidrs : h \in Literals /\ Address[h] \subseteq c.net}
LongestMatch(cs) == CHOOSE c \in cs : \A d \in cs : Cardinality(c.net) <= Cardinality(d.net)

(* choose: the first rule that matches, for an address the network around  *)
(* it, else the default server.                                            *)
Choose(h, order) ==
  LET s == Sorted(order)
      hits == {i \in DOMAIN s : MatchesRule(s[i], h)}
  IN CASE hits # {} -> s[CHOOSE i \in hits : \A j \in hits : i <= j].server
       [] hits = {} /\ Around(h) # {} -> LongestMatch(Around(h)).server
       [] OTHER -> "default"

----------------------------------------------------------------------------
Init ==
  /\ disk \in {d \in RuleSets : \A f \in Files : d[f] \subseteq Contents(f)}
  /\ edits = 0
  /\ data = disk
  /\ loading = [f \in Files |-> {}] /\ reload = Asleep
  /\ readers = {}
  /\ conn = [c \in Conns |-> Idle]

(* The operator rewrites one of the files.                                 *)
Edit(f) ==
  /\ edits < MaxEdits
  /\ edits' = edits + 1
  /\ \E new \in SUBSET Contents(f) : new # disk[f] /\ disk' = [disk EXCEPT ![f] = new]
  /\ UNCHANGED <<data, loading, reload, readers, conn>>

(* auto_reload_task.  A file that cannot be read leaves its rules empty    *)
(* and the load goes on.                                                   *)
ReloadStarts ==
  /\ reload = Asleep
  /\ reload' = 1 /\ loading' = [f \in Files |-> {}]
  /\ UNCHANGED <<disk, edits, data, readers, conn>>

LoadFile ==
  /\ reload \in 1..Len(ReadOrder)
  /\ LET f == ReadOrder[reload] IN
     \/ loading' = [loading EXCEPT ![f] = disk[f]] /\ UNCHANGED edits
     \/ disk[f] # {} /\ edits < MaxEdits /\ edits' = edits + 1 /\ UNCHANGED loading
  /\ reload' = reload + 1
  /\ UNCHANGED <<disk, data, readers, conn>>

(* The write lock is granted when the readers are gone; later readers wait *)
(* behind the writer.                                                      *)
Install ==
  /\ reload = Want /\ readers = {}
  /\ data' = loading
  /\ reload' = Asleep
  /\ conn' = [c \in Conns |->
       IF conn[c].pc \in {"idle", "done"} THEN conn[c]
       ELSE [conn[c] EXCEPT !.seen = @ \cup {loading}]]
  /\ loading' = [f \in Files |-> {}]
  /\ UNCHANGED <<disk, edits, readers>>

----------------------------------------------------------------------------
Open(c, h) ==
  /\ conn[c].pc = "idle"
  /\ conn' = [conn EXCEPT ![c] = Fresh(h)]
  /\ UNCHANGED rules

(* data.read().await in decide_by_host and in decide.                      *)
LockRules(c) ==
  /\ conn[c].pc \in {"first", "second"} /\ reload # Want
  /\ readers' = readers \cup {c}
  /\ conn' = [conn EXCEPT ![c].pc = IF @ = "first" THEN "deciding" ELSE "again"]
  /\ UNCHANGED <<disk, edits, data, loading, reload>>

(* What decide_by_host does with the lists' answer.                        *)
AfterLists(c, h, said) ==
  CASE said \in {"block", "bypass"} -> [conn[c] EXCEPT !.pc = "done", !.decision = said]
    [] said = "none" /\ h \notin ForceHosts /\ h \in ChinaHosts -> [conn[c] EXCEPT !.pc = "china"]
    [] OTHER -> [conn[c] EXCEPT !.pc = "resolve"]

(* Mutant: the rules stay locked while the name is resolved.               *)
DecideByHostHolding(c) ==
  /\ conn[c].pc = "deciding"
  /\ LET next == AfterLists(c, conn[c].host, ListsSay(conn[c].host, data)) IN
     /\ conn' = [conn EXCEPT ![c] = next]
     /\ readers' = IF next.pc = "china" THEN readers ELSE readers \ {c}
  /\ UNCHANGED <<disk, edits, data, loading, reload>>

(* decide_by_host reads the lists and releases them before it resolves     *)
(* anything.                                                               *)
DecideByHost(c) ==
  /\ conn[c].pc = "deciding"
  /\ conn' = [conn EXCEPT ![c] = AfterLists(c, conn[c].host, ListsSay(conn[c].host, data))]
  /\ readers' = readers \ {c}
  /\ UNCHANGED <<disk, edits, data, loading, reload>>

(* The built-in China list: the name is resolved and bypassed when an      *)
(* address is in the country; resolution may fail.                         *)
ChinaResolved(c) ==
  /\ conn[c].pc = "china"
  /\ \E ok \in BOOLEAN :
       conn' = [conn EXCEPT ![c] =
         IF ok /\ InCountry(Address[conn[c].host])
         THEN [@ EXCEPT !.pc = "done", !.decision = "bypass"]
         ELSE [@ EXCEPT !.pc = "resolve", !.failed = @ \/ ~ok]]
  /\ UNCHANGED rules

(* route_connection resolves the host and, when it can, looks again.       *)
Resolve(c) ==
  /\ conn[c].pc = "resolve"
  /\ \E ok \in BOOLEAN :
       conn' = [conn EXCEPT ![c] =
         IF ok THEN [@ EXCEPT !.pc = "second"]
         ELSE [@ EXCEPT !.pc = "route", !.decision = "tunnel", !.failed = TRUE]]
  /\ UNCHANGED rules

DecideAgain(c) ==
  /\ conn[c].pc = "again"
  /\ LET d == Decide(conn[c].host, Address[conn[c].host], data) IN
     conn' = [conn EXCEPT ![c] =
       [@ EXCEPT !.pc = IF d = "tunnel" THEN "route" ELSE "done", !.decision = d]]
  /\ readers' = readers \ {c}
  /\ UNCHANGED <<disk, edits, data, loading, reload>>

(* A tunnelled connection asks the router for its exit.                    *)
ChooseExit(c) ==
  /\ conn[c].pc = "route"
  /\ \E order \in Orders :
       conn' = [conn EXCEPT ![c] = [@ EXCEPT !.pc = "done", !.exit = Choose(conn[c].host, order)]]
  /\ UNCHANGED rules

Reload == ReloadStarts \/ LoadFile \/ Install
Step(c) == LockRules(c) \/ DecideByHost(c) \/ DecideAgain(c) \/ ChooseExit(c)

Next ==
  \/ \E f \in Files : Edit(f)
  \/ Reload
  \/ \E c \in Conns :
       \/ \E h \in Hosts : Open(c, h)
       \/ Step(c) \/ ChinaResolved(c) \/ Resolve(c)

Spec == Init /\ [][Next]_vars

----------------------------------------------------------------------------
TypeOK ==
  /\ disk \in RuleSets /\ data \in RuleSets /\ loading \in RuleSets
  /\ edits \in 0..MaxEdits
  /\ reload \in Asleep..Want
  /\ readers \subseteq Conns
  /\ \A c \in Conns : conn[c] = Idle \/
       /\ conn[c].host \in Hosts
       /\ conn[c].pc \in {"first", "deciding", "china", "resolve", "second", "again", "route", "done"}
       /\ conn[c].decision \in {"none", "block", "bypass", "tunnel"}

(* What the documentation of the rules promises for one set of rules.      *)
Reference(h, r) ==
  LET listed(f) == {d \in r[f] : \E i \in 1..Len(h) : SubSeq(h, i, Len(h)) = d} # {}
      reaches(f) == \E ip \in Address[h] : ip \in r[f]
  IN IF h \in AdHosts \/ listed("block") THEN "block"
     ELSE IF listed("tunnelD") THEN "tunnel"
     ELSE IF listed("bypassD") THEN "bypass"
     ELSE IF h \in ForceHosts THEN "tunnel"
     ELSE IF h \in ChinaHosts /\ InCountry(Address[h]) THEN "bypass"
     ELSE IF reaches("tunnelN") THEN "tunnel"
     ELSE IF reaches("bypassN") \/ Address[h] \cap Private # {} THEN "bypass"
     ELSE "tunnel"

(* A connection consults the rules twice, and the reload task may replace  *)
(* them in between.  Whenever all rule sets in force during the            *)
(* connection's two looks agree about its host, the decision is theirs.    *)
StableRulesHonoured ==
  \A c \in Conns :
    conn[c].pc = "done" /\ ~conn[c].failed =>
      \A d \in {"block", "bypass", "tunnel"} :
        (\A r \in conn[c].seen : Reference(conn[c].host, r) = d) => conn[c].decision = d

(* The exit does not depend on the order in which a HashMap yields the     *)
(* rules: it is that of the most specific rule that matches, and when none *)
(* does, for an address, that of the smallest network around it.           *)
ExitIsMostSpecific ==
  \A c \in Conns :
    conn[c].pc = "done" /\ conn[c].decision = "tunnel" =>
      LET hits == {r \in Rules : MatchesRule(r, conn[c].host)}
          nets == Around(conn[c].host)
      IN IF hits # {}
         THEN \E r \in hits : r.server = conn[c].exit /\ \A o \in hits : ~MoreSpecific(o, r)
         ELSE IF nets # {}
         THEN \E n \in nets : n.server = conn[c].exit /\ \A o \in nets : ~(o.net \subseteq n.net /\ o # n)
         ELSE conn[c].exit = "default"

(* A reload waits for no name resolution, and so neither do the decisions  *)
(* queued behind it: whoever holds the rules is deciding, and the rules    *)
(* are released before a name is resolved.                                 *)
RulesHeldBriefly == \A c \in readers : conn[c].pc \in {"deciding", "again"}
=============================================================================

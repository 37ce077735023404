----------------------------- MODULE Handshake -----------------------------
(***************************************************************************)
(* The X3DH handshake that opens every tunnel: the server's long-lived     *)
(* keys on disk and in memory (rvpn-server main.rs, handler.rs), its three *)
(* perform_handshake functions, the eight clients of them, and the pinned  *)
(* identities in known_hosts.json, which the desktop clients load, check   *)
(* and save without a lock.                                                *)
(*                                                                         *)
(* Keys are symbolic: an identity or a prekey is its generation, and a     *)
(* Diffie-Hellman result is the unordered pair of the keys it joins.  A    *)
(* pin is the identity it denotes (0: none), whatever its textual form.    *)
(***************************************************************************)
EXTENDS Naturals, FiniteSets

CONSTANTS
  Addrs,      \* server addresses, the keys of known_hosts
  Sessions,   \* client connections, each to the address SrvOf gives
  SrvOf,      \* [Sessions -> Addrs]
  Kinds,      \* [Sessions -> SUBSET AllKinds], the client paths exercised
  Rekeyed,    \* bound: the servers the operator works on
  MaxGen      \* bound: key generations made by the operator

VARIABLES
  disk,      \* identity_key_file and the bundle files of each server
  run,       \* the X3DHResponder each running server holds; id 0: None
  bundle,    \* the bundle the client loaded for each address
  conf,      \* ServerIdentityConfig
  file,      \* known_hosts.json; len 0: just truncated, ok: parses
  seen,      \* history: identities each server has sent in a ServerHello
  sess       \* the handshake in progress on each connection

vars == <<disk, run, bundle, conf, file, seen, sess>>

Gens == 1..MaxGen
NoPins == [a \in Addrs |-> 0]
Idle == [phase |-> "idle", kind |-> "none", pre |-> [id |-> 0, spk |-> 0],
         hello |-> [id |-> 0, spk |-> 0], theirs |-> <<>>, ours |-> <<>>,
         pins |-> NoPins, ok |-> FALSE]

AllKinds == {"stream", "tun", "mux", "dns", "ios", "android", "doh", "flow"}
Verifying == {"stream", "tun", "mux"}
Phases == {"idle", "hello", "answered", "verified", "truncated", "saved", "agreed", "up"}
Keys == [id: 0..MaxGen, spk: 0..MaxGen]

TypeOK ==
  /\ disk \in [Addrs -> Keys] /\ run \in [Addrs -> Keys] /\ bundle \in [Addrs -> Keys]
  /\ file.pins \in [Addrs -> 0..MaxGen] /\ file.len \in 0..(Cardinality(Addrs) + 1)
  /\ seen \in [Addrs -> SUBSET Gens]
  /\ \A s \in Sessions :
       /\ sess[s].phase \in Phases
       /\ sess[s].kind \in AllKinds \cup {"none"}
       /\ sess[s].phase \in {"verified", "truncated", "saved"} => sess[s].kind \in Verifying
       /\ sess[s].phase \in {"agreed", "up"} => sess[s].ours # <<>> /\ sess[s].theirs # <<>>

Init ==
  /\ disk = [a \in Addrs |-> [id |-> 1, spk |-> 1]]
  /\ run = disk /\ bundle = disk
  /\ conf \in [strict: BOOLEAN, strictMode: BOOLEAN, tofu: BOOLEAN, fingerprint: {0, 1}]
  /\ file = [len |-> 0, ok |-> TRUE, pins |-> NoPins]
  /\ seen = [a \in Addrs |-> {}]
  /\ sess = [s \in Sessions |-> Idle]

----------------------------------------------------------------------------
(* x25519_diffie_hellman is commutative; derive_shared_secret is           *)
(* one-to-one in the three results it concatenates.                        *)
DH(a, b) == {a, b}
ClientIdentity == <<"client">>
Ephemeral(s) == <<"ephemeral", s>>
Identity(a, g) == <<"identity", a, g>>
Prekey(a, g) == <<"prekey", a, g>>

(* X3DHInitiator::agree with the ServerHello's prekey and the identity     *)
(* X25519 key of the bundle loaded beforehand.                             *)
InitiatorAgree(s, spk, id) ==
  LET a == SrvOf[s] IN
  <<DH(ClientIdentity, Prekey(a, spk)), DH(Ephemeral(s), Identity(a, id)),
    DH(Ephemeral(s), Prekey(a, spk))>>

(* X3DHResponder::agree: no one-time prekey is ever in use.                *)
ResponderAgree(s, keys) ==
  LET a == SrvOf[s] IN
  <<DH(Prekey(a, keys.spk), ClientIdentity), DH(Identity(a, keys.id), Ephemeral(s)),
    DH(Prekey(a, keys.spk), Ephemeral(s))>>

(* The fields of get_public_bundle a ServerHello carries; its signature by *)
(* the identity key is good by construction, so the clients' check passes. *)
PublicBundle(keys) == keys

----------------------------------------------------------------------------
(* The operator.  prekey-bundle writes a new signed prekey next to the     *)
(* same identity; the running server keeps the old one.                    *)
RegeneratePrekey(a) ==
  /\ disk[a].spk < MaxGen
  /\ disk' = [disk EXCEPT ![a].spk = @ + 1]
  /\ UNCHANGED <<run, bundle, conf, file, seen, sess>>

(* prekey-bundle --rotate-from: a new identity signs a new prekey.         *)
RotateIdentity(a) ==
  /\ disk[a].id < MaxGen /\ disk[a].spk < MaxGen
  /\ disk' = [disk EXCEPT ![a] = [id |-> @.id + 1, spk |-> @.spk + 1]]
  /\ UNCHANGED <<run, bundle, conf, file, seen, sess>>

(* VpnHandler::new: the identity and the private prekey come from the      *)
(* files; an identity that does not load leaves no responder.  The         *)
(* connections of the old process close.                                   *)
RestartServer(a) ==
  /\ run' \in {[run EXCEPT ![a] = disk[a]], [run EXCEPT ![a] = [id |-> 0, spk |-> 0]]}
  /\ run' # run
  /\ sess' = [s \in Sessions |->
       IF SrvOf[s] = a /\ sess[s].phase \in {"hello", "agreed", "up"} THEN Idle ELSE sess[s]]
  /\ UNCHANGED <<disk, bundle, conf, file, seen>>

(* The client starts with the bundle file it was given.  The mobile        *)
(* clients refuse one whose identity is not the configured pin.            *)
LoadBundleAndPin(a) ==
  /\ bundle[a] # disk[a]
  /\ conf.fingerprint \in {0, disk[a].id}
  /\ \A s \in Sessions : sess[s].phase = "idle"
  /\ bundle' = [bundle EXCEPT ![a] = disk[a]]
  /\ UNCHANGED <<disk, run, conf, file, seen, sess>>

----------------------------------------------------------------------------
(* The client generates an ephemeral key and sends Hello.                  *)
SendHello(s, k) ==
  /\ sess[s].phase = "idle"
  /\ sess' = [sess EXCEPT ![s] =
       [Idle EXCEPT !.phase = "hello", !.kind = k, !.pre = bundle[SrvOf[s]]]]
  /\ UNCHANGED <<disk, run, bundle, conf, file, seen>>

(* The answer common to the three servers: agree, then send ServerHello.   *)
(* Without a responder the handshake ends (an Error message first, except  *)
(* on the DNS path) and the client fails.                                  *)
Answer(s, kinds) ==
  LET keys == run[SrvOf[s]] IN
  /\ sess[s].phase = "hello" /\ sess[s].kind \in kinds
  /\ IF keys.id = 0
     THEN sess' = [sess EXCEPT ![s] = Idle] /\ UNCHANGED seen
     ELSE /\ sess' = [sess EXCEPT ![s].phase = "answered", ![s].hello = PublicBundle(keys),
                                  ![s].theirs = ResponderAgree(s, keys)]
          /\ seen' = [seen EXCEPT ![SrvOf[s]] = @ \cup {keys.id}]
  /\ UNCHANGED <<disk, run, bundle, conf, file>>

VpnAnswers(s) == Answer(s, {"stream", "flow"})
MuxAnswers(s) == Answer(s, {"mux", "tun", "ios", "android"})
DnsAnswers(s) == Answer(s, {"dns", "doh"})

(* The connection is lost, or a side's handshake timer runs out.           *)
ConnectionLost(s) ==
  /\ sess[s].phase \in {"hello", "answered", "agreed", "up"}
  /\ sess' = [sess EXCEPT ![s] = Idle]
  /\ UNCHANGED <<disk, run, bundle, conf, file, seen>>

----------------------------------------------------------------------------
(* Mutant: the prekey of the bundle loaded beforehand.                     *)
AgreedPreloaded(s) ==
  [sess EXCEPT ![s].phase = "agreed",
               ![s].ours = InitiatorAgree(s, sess[s].pre.spk, sess[s].pre.id)]

(* The clients.  Agreed(s) is the end they share.                          *)
Agreed(s) ==
  [sess EXCEPT ![s].phase = "agreed",
               ![s].ours = InitiatorAgree(s, sess[s].hello.spk, sess[s].pre.id)]

(* A client that checks no pin goes from ServerHello to agreement.         *)
Unverified(s, k) ==
  /\ sess[s].phase = "answered" /\ sess[s].kind = k
  /\ sess' = Agreed(s)
  /\ UNCHANGED <<disk, run, bundle, conf, file, seen>>

DnsHandshake(s) == Unverified(s, "dns")
IosHandshake(s) == Unverified(s, "ios")
AndroidHandshake(s) == Unverified(s, "android")
DohHandshake(s) == Unverified(s, "doh")
FlowHandshake(s) == Unverified(s, "flow")

(* verify_server_identity: the configured fingerprint, else the pin known  *)
(* for the address, else trust on first use.                               *)
VerifyServerIdentity(pins, a, id) ==
  LET expected == IF conf.fingerprint # 0 THEN conf.fingerprint ELSE pins[a] IN
  IF expected # 0
  THEN [pins |-> pins, ok |-> expected = id]
  ELSE LET trusted == conf.tofu /\ ~conf.strictMode IN
       [pins |-> IF trusted THEN [pins EXCEPT ![a] = id] ELSE pins, ok |-> trusted]

(* KnownHosts::load(..).unwrap_or_default(): what does not parse is empty. *)
Load == IF file.ok THEN file.pins ELSE NoPins

(* Mutant: the identity of the bundle loaded beforehand is verified.       *)
LoadAndVerifyPreloaded(s) ==
  LET v == VerifyServerIdentity(Load, SrvOf[s], sess[s].pre.id) IN
  /\ sess[s].phase = "answered" /\ sess[s].kind \in Verifying
  /\ sess' = [sess EXCEPT ![s].phase = "verified", ![s].pins = v.pins, ![s].ok = v.ok]
  /\ UNCHANGED <<disk, run, bundle, conf, file, seen>>

LoadAndVerify(s) ==
  LET v == VerifyServerIdentity(Load, SrvOf[s], sess[s].hello.id) IN
  /\ sess[s].phase = "answered" /\ sess[s].kind \in Verifying
  /\ sess' = [sess EXCEPT ![s].phase = "verified", ![s].pins = v.pins, ![s].ok = v.ok]
  /\ UNCHANGED <<disk, run, bundle, conf, file, seen>>

(* KnownHosts::save, whatever the verdict: open truncates the file, then   *)
(* write_all fills it from offset 0.  Bytes of a longer map another        *)
(* session wrote in between remain behind the shorter one.                 *)
SaveTruncates(s) ==
  /\ sess[s].phase = "verified"
  /\ file' = [len |-> 0, ok |-> FALSE, pins |-> NoPins]
  /\ sess' = [sess EXCEPT ![s].phase = "truncated"]
  /\ UNCHANGED <<disk, run, bundle, conf, seen>>

Pinned(pins) == {a \in Addrs : pins[a] # 0}

SaveWrites(s) ==
  LET len == Cardinality(Pinned(sess[s].pins)) + 1 IN
  /\ sess[s].phase = "truncated"
  /\ file' = [len |-> IF len > file.len THEN len ELSE file.len,
              ok |-> len >= file.len, pins |-> sess[s].pins]
  /\ sess' = [sess EXCEPT ![s].phase = "saved"]
  /\ UNCHANGED <<disk, run, bundle, conf, seen>>

(* After the save each desktop client decides for itself: refuse says when *)
(* it gives up.                                                            *)
Decide(s, k, refuse) ==
  /\ sess[s].phase = "saved" /\ sess[s].kind = k
  /\ sess' = IF refuse THEN [sess EXCEPT ![s] = Idle] ELSE Agreed(s)
  /\ UNCHANGED <<disk, run, bundle, conf, file, seen>>

StreamHandshake(s) == Decide(s, "stream", ~sess[s].ok /\ conf.strict)
TunHandshake(s) == Decide(s, "tun", ~sess[s].ok /\ conf.strict)
MuxHandshake(s) == Decide(s, "mux", ~sess[s].ok /\ conf.strictMode)

(* The first ratchet frame: it opens only under the secret it was sealed   *)
(* with, and a failure closes the connection.                              *)
FirstFrame(s) ==
  /\ sess[s].phase = "agreed"
  /\ sess' = [sess EXCEPT ![s] =
       IF sess[s].ours = sess[s].theirs THEN [@ EXCEPT !.phase = "up"] ELSE Idle]
  /\ UNCHANGED <<disk, run, bundle, conf, file, seen>>

(* The client process dies; a truncated file stays as it is.               *)
ClientCrashes ==
  /\ \E s \in Sessions : sess[s].phase # "idle"
  /\ sess' = [s \in Sessions |-> Idle]
  /\ UNCHANGED <<disk, run, bundle, conf, file, seen>>

Next ==
  \/ \E a \in Rekeyed : \/ RegeneratePrekey(a) \/ RotateIdentity(a)
                        \/ RestartServer(a) \/ LoadBundleAndPin(a)
  \/ \E s \in Sessions :
       \/ \E k \in Kinds[s] : SendHello(s, k)
       \/ VpnAnswers(s) \/ MuxAnswers(s) \/ DnsAnswers(s) \/ ConnectionLost(s)
       \/ DnsHandshake(s) \/ IosHandshake(s) \/ AndroidHandshake(s)
       \/ DohHandshake(s) \/ FlowHandshake(s)
       \/ LoadAndVerify(s) \/ SaveTruncates(s) \/ SaveWrites(s)
       \/ StreamHandshake(s) \/ TunHandshake(s) \/ MuxHandshake(s) \/ FirstFrame(s)
  \/ ClientCrashes

Spec == Init /\ [][Next]_vars

----------------------------------------------------------------------------
(* Regenerating prekeys at any moment, on disk or by a restart, never      *)
(* makes the two chain keys diverge: a client that has agreed holds the    *)
(* server's secret exactly when the identity of its loaded bundle is the   *)
(* one the server answered with (the drift the perform_handshake comments  *)
(* describe).                                                              *)
SecretsAgree ==
  \A s \in Sessions : sess[s].phase \in {"agreed", "up"} =>
    (sess[s].ours = sess[s].theirs <=> sess[s].pre.id = sess[s].hello.id)

(* Whatever the races between saves, every pin in known_hosts.json is an   *)
(* identity that very address has presented: pins never cross addresses    *)
(* and never come from the pre-loaded bundle.                              *)
PinsWerePresented ==
  \A a \in Addrs : file.ok /\ file.pins[a] # 0 => file.pins[a] \in seen[a]
=============================================================================

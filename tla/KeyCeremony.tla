---------------------------- MODULE KeyCeremony ----------------------------
(***************************************************************************)
(* The server's key files: keygen and prekey-bundle (rvpn-server main.rs), *)
(* the four handlers that each load them at startup (handler.rs), and the  *)
(* client's stored pin with its encodings and migration (rvpn-core         *)
(* identity_pin.rs).  The rotation signature prekey-bundle can add is left *)
(* out: no code but the tests verifies one.                                *)
(*                                                                         *)
(* An identity is its generation, a prekey a number.  A file is written by *)
(* truncating and then filling it, so a reader or a crash can come in      *)
(* between: 0 stands for a file that is missing or does not parse.         *)
(***************************************************************************)
EXTENDS Naturals

CONSTANTS
  Paths,     \* identity files the operator uses
  MaxKeys,   \* bound: identities generated
  MaxBundles \* bound: runs of prekey-bundle

VARIABLES
  keyfile,   \* [Paths -> identity]
  bundle,    \* the public bundle file
  private,   \* the prekey of its .private.json
  cli,       \* the prekey-bundle command in progress
  drawn,     \* prekeys drawn by prekey-bundle
  conf,      \* identity_key_file of server.toml
  named,     \* its prekey_bundle_file names the bundle; else it is None
  server,    \* handlers built so far; 0: the server is down
  handlers,  \* the X3DHResponder of each
  calm,      \* history: no file was touched since the server began to start
  whole,     \* history: the bundle files were written by one complete command
  pin,       \* the pin the client stores
  trusted    \* history: the identity the pin was stored for

vars == <<keyfile, bundle, private, cli, drawn, conf, named, server, handlers, calm, whole, pin,
          trusted>>

Handlers == 1..4   \* VpnHandler, TunHandler, DnsHandler, MultiplexerHandler, as built
Ids == 1..MaxKeys
NoBundle == [id |-> 0, spk |-> 0]
NoResponder == [id |-> 0, spk |-> 0]
IdleCli == [pc |-> "idle", new |-> NoBundle]
Forms == {"none", "canonical", "legacy"}

TypeOK ==
  /\ keyfile \in [Paths -> 0..MaxKeys] /\ conf \in Paths /\ named \in BOOLEAN
  /\ private \in 0..drawn /\ drawn \in 0..MaxBundles
  /\ bundle.id = 0 <=> bundle = NoBundle
  /\ cli.pc \in {"idle", "loaded", "public", "opened"}
  /\ server \in 0..4
  /\ \A h \in Handlers : h > server => handlers[h] = NoResponder
  /\ pin.form \in Forms /\ (pin.form = "none" <=> trusted = 0)

----------------------------------------------------------------------------
(* identity_pin.rs.  A canonical pin holds the hash of the key, a legacy one  *)
(* the first half of the raw key; each determines its key.                 *)
Hash(id) == 100 + id
Half(id) == id

EncodeIdentityPin(id) == [form |-> "canonical", value |-> Hash(id)]

ParsePin(p) == [version |-> IF p.form = "legacy" THEN 0 ELSE 1, hash |-> p.value]

ToCanonical(parsed) == [form |-> "canonical", value |-> parsed.hash]

PinsMatch(p, id) ==
  ParsePin(p).hash = IF ParsePin(p).version = 0 THEN Half(id) ELSE Hash(id)

----------------------------------------------------------------------------
Init ==
  /\ \E first \in Paths : conf = first /\ \A p \in Paths : p >= first
  /\ keyfile = [p \in Paths |-> IF p = conf THEN 1 ELSE 0]
  /\ bundle = [id |-> 1, spk |-> 1] /\ private = 1
  /\ cli = IdleCli /\ drawn = 1
  /\ server = 0 /\ handlers = [h \in Handlers |-> NoResponder] /\ calm = TRUE /\ whole = TRUE
  /\ \/ pin = [form |-> "none", value |-> 0] /\ trusted = 0
     \/ pin = [form |-> "legacy", value |-> Half(1)] /\ trusted = 1
  /\ named \in BOOLEAN

Generated == {keyfile[p] : p \in Paths} \cup {bundle.id}

(* keygen --output p: a new identity, then the file is written; the        *)
(* process may die after truncating it.                                    *)
Keygen(p) ==
  /\ cli.pc = "idle"
  /\ \/ \E id \in Ids \ Generated : keyfile' = [keyfile EXCEPT ![p] = id]
     \/ keyfile' = [keyfile EXCEPT ![p] = 0]
  /\ keyfile' # keyfile /\ calm' = FALSE
  /\ UNCHANGED <<bundle, private, cli, drawn, conf, named, server, handlers, whole, pin,
                 trusted>>

(* prekey-bundle --identity p draws a prekey; without prekey_bundle_file   *)
(* the bundle goes to prekey-bundle.json all the same.                     *)
PrekeyBundle(p) ==
  /\ cli.pc = "idle" /\ keyfile[p] # 0 /\ drawn < MaxBundles
  /\ cli' = [pc |-> "loaded", new |-> [id |-> keyfile[p], spk |-> drawn + 1]]
  /\ drawn' = drawn + 1
  /\ UNCHANGED <<keyfile, bundle, private, conf, named, server, handlers, calm, whole, pin,
                 trusted>>

(* Mutant: the private file is written from a second responder.            *)
WritePrivateAgain ==
  /\ cli.pc = "opened"
  /\ private' = IF cli.new.spk > 1 THEN cli.new.spk - 1 ELSE 0
  /\ cli' = IdleCli /\ calm' = FALSE /\ whole' = TRUE
  /\ UNCHANGED <<keyfile, bundle, drawn, conf, named, server, handlers, pin, trusted>>

(* Its writes: the bundle, then the private key, each truncated first.     *)
TruncateBundle ==
  /\ cli.pc = "loaded" /\ bundle # NoBundle
  /\ bundle' = NoBundle /\ calm' = FALSE /\ whole' = FALSE
  /\ UNCHANGED <<keyfile, private, cli, drawn, conf, named, server, handlers, pin, trusted>>

WriteBundle ==
  /\ cli.pc = "loaded" /\ bundle = NoBundle
  /\ bundle' = cli.new /\ cli' = [cli EXCEPT !.pc = "public"] /\ calm' = FALSE /\ whole' = FALSE
  /\ UNCHANGED <<keyfile, private, drawn, conf, named, server, handlers, pin, trusted>>

TruncatePrivate ==
  /\ cli.pc = "public"
  /\ private' = 0 /\ cli' = [cli EXCEPT !.pc = "opened"] /\ calm' = FALSE /\ whole' = FALSE
  /\ UNCHANGED <<keyfile, bundle, drawn, conf, named, server, handlers, pin, trusted>>

WritePrivate ==
  /\ cli.pc = "opened"
  /\ private' = cli.new.spk /\ cli' = IdleCli /\ calm' = FALSE /\ whole' = TRUE
  /\ UNCHANGED <<keyfile, bundle, drawn, conf, named, server, handlers, pin, trusted>>

(* The command dies, or cannot write.                                      *)
CliDies ==
  /\ cli.pc # "idle" /\ cli' = IdleCli
  /\ UNCHANGED <<keyfile, bundle, private, drawn, conf, named, server, handlers, calm,
                 whole, pin, trusted>>

(* The operator points server.toml at another identity, or names or        *)
(* removes the bundle; a server that is starting has read its              *)
(* configuration already.                                                  *)
Reconfigure(p, b) ==
  /\ server \in {0, 4}
  /\ <<p, b>> # <<conf, named>>
  /\ conf' = p /\ named' = b /\ calm' = FALSE
  /\ UNCHANGED <<keyfile, bundle, private, cli, drawn, server, handlers, whole, pin, trusted>>

----------------------------------------------------------------------------
(* Without prekey_bundle_file the private file is not looked for; it and   *)
(* IdentityKey::load fail alike on a file that is missing or torn: no      *)
(* responder, and a prekey of the handler's own (numbered above those of   *)
(* prekey-bundle).                                                         *)
LoadSignedPrekeyPrivate(h) ==
  IF named /\ private # 0 THEN private ELSE MaxBundles + h

Responder(h, id) ==
  IF id = 0 THEN NoResponder ELSE [id |-> id, spk |-> LoadSignedPrekeyPrivate(h)]

(* run_server builds the handlers one after another.                       *)
Build(h, id) ==
  /\ server = h - 1
  /\ server' = h /\ handlers' = [handlers EXCEPT ![h] = Responder(h, id)]
  /\ calm' = (calm \/ h = 1)
  /\ UNCHANGED <<keyfile, bundle, private, cli, drawn, conf, named, whole, pin, trusted>>

NewVpnHandler == Build(1, keyfile[conf])
NewTunHandler == Build(2, keyfile[conf])
NewDnsHandler == Build(3, keyfile[conf])
NewMuxHandler == Build(4, keyfile[conf])

(* Mutant: the responders survive the process.                             *)
ServerStopsKeeping ==
  /\ server = 4
  /\ server' = 0
  /\ UNCHANGED <<keyfile, bundle, private, cli, drawn, conf, named, handlers, calm, whole,
                 pin, trusted>>

ServerStops ==
  /\ server = 4
  /\ server' = 0 /\ handlers' = [h \in Handlers |-> NoResponder]
  /\ UNCHANGED <<keyfile, bundle, private, cli, drawn, conf, named, calm, whole, pin,
                 trusted>>

----------------------------------------------------------------------------
(* Mutant: a legacy pin is rewritten from its parsed form.                 *)
MigratedParsed(id) == IF pin.form = "legacy" THEN ToCanonical(ParsePin(pin)) ELSE pin

(* A matching legacy pin is rewritten from the key it matched.             *)
Migrated(id) == IF pin.form = "legacy" THEN EncodeIdentityPin(id) ELSE pin

(* verify_server_identity against the pin stored for the address.          *)
Verify(h) ==
  LET id == handlers[h].id IN
  /\ server = 4 /\ id # 0
  /\ IF pin.form = "none"
     THEN pin' = EncodeIdentityPin(id) /\ trusted' = id
     ELSE PinsMatch(pin, id) /\ pin' = Migrated(id) /\ UNCHANGED trusted
  /\ UNCHANGED <<keyfile, bundle, private, cli, drawn, conf, named, server, handlers, calm,
                 whole>>

Next ==
  \/ \E p \in Paths : Keygen(p) \/ PrekeyBundle(p) \/ \E b \in BOOLEAN : Reconfigure(p, b)
  \/ TruncateBundle \/ WriteBundle \/ TruncatePrivate \/ WritePrivate \/ CliDies
  \/ NewVpnHandler \/ NewTunHandler \/ NewDnsHandler \/ NewMuxHandler \/ ServerStops
  \/ \E h \in Handlers : Verify(h)

Spec == Init /\ [][Next]_vars

----------------------------------------------------------------------------
(* A server that started while nobody wrote its files answers on all four  *)
(* paths with the configured identity; if its configuration names the      *)
(* bundle, it answers with the prekey of the public bundle, provided the   *)
(* prekey-bundle command that published it ran to its end                  *)
(* (from_identity_with_bundle: "uses the same keys that were published").  *)
ServesPublishedKeys ==
  server = 4 /\ calm =>
    /\ \A h \in Handlers : handlers[h].id = keyfile[conf]
    /\ named /\ whole /\ keyfile[conf] # 0 => \A h \in Handlers : handlers[h].spk = bundle.spk

(* Whatever its encoding, and through migration, the stored pin matches    *)
(* the identity it was stored for and no other (pins_match,                *)
(* verify_server_identity).                                                *)
PinDenotesTrusted ==
  trusted # 0 => \A id \in Ids : PinsMatch(pin, id) <=> id = trusted
=============================================================================

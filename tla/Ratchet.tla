------------------------------- MODULE Ratchet -------------------------------
(***************************************************************************)
(* DoubleRatchet (rvpn-core, crypto/ratchet.rs): two peers, initialised    *)
(* from one X3DH secret, exchange messages over a network that may lose,   *)
(* reorder, duplicate or damage them.                                      *)
(*                                                                         *)
(* Cryptography is symbolic.  A DH secret is the set of the two public     *)
(* keys; a root key is the sequence of DH secrets mixed into it; a chain   *)
(* key is the root it came from, its label and its position; two keys are  *)
(* equal exactly when these are.  An Option is a set of at most one element.*)
(***************************************************************************)
EXTENDS Naturals, Sequences, FiniteSets

CONSTANTS
    MaxSkip,    \* MAX_SKIP
    U32,        \* 2^32: message numbers wrap here in a release build
    AliceSends, BobSends,  \* bounds: messages each peer encrypts
    MaxForced,  \* bound: calls of ratchet_for_next_message
    MaxDhSteps  \* bound: DH steps one ratchet takes

(* What is assumed of them.                                                *)
RatchetConstants ==
    /\ MaxSkip \in Nat \ {0} /\ U32 \in Nat \ {0} /\ MaxSkip < U32
    /\ AliceSends \in Nat /\ BobSends \in Nat
    /\ MaxForced \in Nat /\ MaxDhSteps \in Nat

Sides == {"alice", "bob"}
Peer(s) == IF s = "alice" THEN "bob" ELSE "alice"
MaxSent(s) == IF s = "alice" THEN AliceSends ELSE BobSends

VARIABLES
    r,         \* the two DoubleRatchet states
    net,       \* every message ever sent, by sender
    accepted,  \* history: messages each side decrypted, in order
    forced     \* calls of ratchet_for_next_message so far

vars == <<r, net, accepted, forced>>
-----------------------------------------------------------------------------
(* Key derivation. *)

\* kdf_init: two chains out of the shared secret.
KdfInit == [ck1 |-> [root |-> <<>>, label |-> "ck1", pos |-> 0],
            ck2 |-> [root |-> <<>>, label |-> "ck2", pos |-> 0]]

\* kdf_rk_2: a new root key and a chain.
KdfRk2(root, dh) ==
    [root  |-> Append(root, dh),
     chain |-> [root |-> Append(root, dh), label |-> "rk", pos |-> 0]]

\* kdf_ck: a chain key yields its message key (named by the chain key) and
\* the next chain key, k steps on.
KdfCk(ck, k) == [ck EXCEPT !.pos = @ + k]

NewKey(s, gen) == [owner |-> s, gen |-> gen]

Init0(s, sending, receiving) ==
    [dh_pair |-> NewKey(s, 0), remote_dh_key |-> {}, previous_remote_dh_key |-> {},
     root_key |-> <<>>, sending_chain_key |-> sending,
     receiving_chain_key |-> receiving,
     send_message_number |-> 0, recv_message_number |-> 0,
     previous_chain_length |-> 0, skipped_keys |-> <<>>]

InitAlice == Init0("alice", KdfInit.ck1, KdfInit.ck2)
InitBob   == Init0("bob", KdfInit.ck2, KdfInit.ck1)
-----------------------------------------------------------------------------
(* encrypt / encrypt_to. *)

Message(x, large) ==
    [dh_public |-> x.dh_pair, message_number |-> x.send_message_number,
     previous_chain_length |-> x.previous_chain_length,
     large |-> large, key |-> x.sending_chain_key]

\* The message number does not keep its width.
AfterEncryptUnwrapped(x) ==
    [x EXCEPT !.sending_chain_key = KdfCk(@, 1),
              !.send_message_number = @ + 1]

AfterEncrypt(x) ==
    [x EXCEPT !.sending_chain_key = KdfCk(@, 1),
              !.send_message_number = (@ + 1) % U32]
-----------------------------------------------------------------------------
(* decrypt / decrypt_to / decrypt_to_ref. *)

\* The two byte strings that key skipped_keys: the serialised header on
\* lookup, the remote key alone (or nothing) on insertion.  Their lengths
\* differ, so neither is ever equal to the other.
HeaderBytes(m) == <<"header", {m.dh_public}, m.message_number, m.previous_chain_length>>
RemoteBytes(x) == <<"remote", x.remote_dh_key, 0, 0>>

\* LruCache::put of a run of keys, the least recently used dropped.
LruPutAll(cache, entries) ==
    LET fresh == {entries[i].id : i \in DOMAIN entries}
        all   == SelectSeq(cache, LAMBDA e : e.id \notin fresh) \o entries
        drop  == IF Len(all) > MaxSkip THEN Len(all) - MaxSkip ELSE 0
    IN  SubSeq(all, drop + 1, Len(all))

LruPop(cache, id) == SelectSeq(cache, LAMBDA e : e.id # id)
LruHas(cache, id) == \E i \in DOMAIN cache : cache[i].id = id
LruGet(cache, id) == cache[CHOOSE i \in DOMAIN cache : cache[i].id = id].key

\* Outcome of a fallible call: the state it leaves and whether it is Ok.
Res(x, ok) == [r |-> x, ok |-> ok]

\* The chain is stored one step too far.
SkipOneTooMany(x, until) ==
    LET n == x.recv_message_number
        k == IF n < until THEN until - n ELSE 0
        stored == [i \in 1..k |-> [id  |-> <<RemoteBytes(x), n + i - 1>>,
                                   key |-> KdfCk(x.receiving_chain_key, i - 1)]]
    IN  IF (n + MaxSkip) % U32 < until
        THEN Res(x, FALSE)
        ELSE Res([x EXCEPT !.skipped_keys = LruPutAll(@, stored),
                           !.recv_message_number = @ + k,
                           !.receiving_chain_key = KdfCk(@, k + 1)], TRUE)

\* skip_message_keys; the limit is computed in u32.
SkipMessageKeys(x, until) ==
    LET n == x.recv_message_number
        k == IF n < until THEN until - n ELSE 0
        stored == [i \in 1..k |-> [id  |-> <<RemoteBytes(x), n + i - 1>>,
                                   key |-> KdfCk(x.receiving_chain_key, i - 1)]]
    IN  IF (n + MaxSkip) % U32 < until
        THEN Res(x, FALSE)
        ELSE Res([x EXCEPT !.skipped_keys = LruPutAll(@, stored),
                           !.recv_message_number = @ + k,
                           !.receiving_chain_key = KdfCk(@, k)], TRUE)

\* dh_ratchet_step: the receiving chain comes from the previous remote key,
\* the sending chain from a fresh pair and the new remote key.
DhRatchetStep(x, remote_dh) ==
    LET old  == IF x.previous_remote_dh_key # {} THEN x.previous_remote_dh_key
                ELSE IF x.remote_dh_key # {} THEN x.remote_dh_key ELSE {remote_dh}
        fresh == NewKey(x.dh_pair.owner, x.dh_pair.gen + 1)
        recv == KdfRk2(x.root_key, old \cup {x.dh_pair})
        send == KdfRk2(recv.root, {fresh, remote_dh})
    IN  [x EXCEPT !.previous_chain_length = x.send_message_number,
                  !.send_message_number = 0,
                  !.recv_message_number = 0,
                  !.receiving_chain_key = recv.chain,
                  !.sending_chain_key = send.chain,
                  !.root_key = send.root,
                  !.previous_remote_dh_key = IF x.remote_dh_key # {} THEN x.remote_dh_key ELSE @,
                  !.remote_dh_key = {remote_dh},
                  !.dh_pair = fresh]

\* The AEAD accepts an intact ciphertext under the key it was made with.
Opens(key, m, intact) == intact /\ key = m.key

\* The steps between the "too old" check and the skip to the target.
FollowRemoteKey(x, m) ==
    IF x.remote_dh_key = {}
    THEN Res([x EXCEPT !.remote_dh_key = {m.dh_public}], TRUE)
    ELSE IF x.remote_dh_key = {m.dh_public} THEN Res(x, TRUE)
    ELSE LET s == SkipMessageKeys(x, m.previous_chain_length)
         IN  IF s.ok THEN Res(DhRatchetStep(s.r, m.dh_public), TRUE) ELSE s

\* The successful path forgets to store the next chain key.
OpenWithoutAdvance(x, m, intact) ==
    IF Opens(x.receiving_chain_key, m, intact)
    THEN Res([x EXCEPT !.recv_message_number = m.message_number], TRUE)
    ELSE Res(x, FALSE)

\* The chain advances only if the AEAD accepts.
OpenWithChain(x, m, intact) ==
    IF Opens(x.receiving_chain_key, m, intact)
    THEN Res([x EXCEPT !.receiving_chain_key = KdfCk(@, 1),
                       !.recv_message_number = (m.message_number + 1) % U32], TRUE)
    ELSE Res(x, FALSE)

Decrypt(x, m, intact) ==
    LET target  == m.message_number
        current == x.recv_message_number   \* read before any DH step
        id      == <<HeaderBytes(m), target>>
        f       == FollowRemoteKey(x, m)
        s       == IF target > current THEN SkipMessageKeys(f.r, target) ELSE f
    IN  IF m.large THEN Res(x, FALSE)
        ELSE IF LruHas(x.skipped_keys, id)
        THEN Res([x EXCEPT !.skipped_keys = LruPop(@, id)],
                 Opens(LruGet(x.skipped_keys, id), m, intact))
        ELSE IF target < current THEN Res(x, FALSE)
        ELSE IF ~f.ok THEN f
        ELSE IF ~s.ok THEN s
        ELSE OpenWithChain(s.r, m, intact)
-----------------------------------------------------------------------------
Init ==
    /\ r = [s \in Sides |-> IF s = "alice" THEN InitAlice ELSE InitBob]
    /\ net = [s \in Sides |-> <<>>]
    /\ accepted = [s \in Sides |-> <<>>]
    /\ forced = 0

\* A peer encrypts and sends.
Send(s, large) ==
    /\ Len(net[s]) < MaxSent(s)
    /\ net' = [net EXCEPT ![s] = Append(@, Message(r[s], large))]
    /\ r' = [r EXCEPT ![s] = AfterEncrypt(@)]
    /\ UNCHANGED <<accepted, forced>>

\* Some message of the peer arrives: the first time, again, late, or damaged.
Deliver(s, m, intact) ==
    LET d == Decrypt(r[s], m, intact) IN
    /\ d.r.dh_pair.gen <= MaxDhSteps
    /\ r' = [r EXCEPT ![s] = d.r]
    /\ accepted' = IF d.ok THEN [accepted EXCEPT ![s] = Append(@, m)] ELSE accepted
    /\ UNCHANGED <<net, forced>>

\* ratchet_for_next_message, which nothing in the repository calls.
ForceRatchet(s) ==
    /\ forced < MaxForced
    /\ r[s].remote_dh_key # {} /\ r[s].dh_pair.gen < MaxDhSteps
    /\ forced' = forced + 1
    /\ r' = [r EXCEPT ![s] = DhRatchetStep(@, CHOOSE k \in @.remote_dh_key : TRUE)]
    /\ UNCHANGED <<net, accepted>>

Arrivals(s) == {net[Peer(s)][i] : i \in DOMAIN net[Peer(s)]}

Next ==
    \E s \in Sides :
        \/ \E large \in BOOLEAN : Send(s, large)
        \/ \E m \in Arrivals(s), intact \in BOOLEAN : Deliver(s, m, intact)
        \/ ForceRatchet(s)

Spec == Init /\ [][Next]_vars
-----------------------------------------------------------------------------
TypeOK ==
    \A s \in Sides :
        /\ r[s].send_message_number \in 0..U32 - 1
        /\ r[s].recv_message_number \in 0..U32 - 1
        /\ Len(r[s].skipped_keys) <= MaxSkip
        /\ Len(net[s]) <= MaxSent(s)

(* decrypt accepts a message at most once: not a duplicate, nor a frame    *)
(* from before a wrap of the u32 numbers or a reset by dh_ratchet_step.    *)
(* (Whether a late frame is accepted a first time is SkippedKeysAreUsed.)  *)
AcceptedOnce ==
    \A s \in Sides : \A i, j \in DOMAIN accepted[s] :
        i # j => accepted[s][i].key # accepted[s][j].key

(* A gap never puts the two chains out of step: an intact message at the   *)
(* receiver's position, or up to MAX_SKIP beyond it, decrypts, whatever was*)
(* lost, repeated, oversized or damaged before it.  (Beyond the position   *)
(* the number limit of skip_message_keys must not wrap.)  Without a DH     *)
(* step, as deployed.                                                      *)
GapsAreBridged ==
    \A s \in Sides : \A m \in Arrivals(s) :
        LET at  == r[s].receiving_chain_key.pos
            n   == r[s].recv_message_number
        IN  /\ ~m.large /\ forced = 0
            /\ m.key.pos \in at..at + MaxSkip
            /\ m.key.pos = at \/ n + MaxSkip < U32
            => Decrypt(r[s], m, TRUE).ok

(* Both properties of the receiving side, with the types.                  *)
MessagesSound == TypeOK /\ AcceptedOnce /\ GapsAreBridged

(* The doc of decrypt: out-of-order messages are handled "via skipped_keys *)
(* storage".  A message whose key is stored decrypts.                      *)
SkippedKeysAreUsed ==
    \A s \in Sides : \A m \in Arrivals(s) :
        (\E i \in DOMAIN r[s].skipped_keys : r[s].skipped_keys[i].key = m.key)
            => Decrypt(r[s], m, TRUE).ok
=============================================================================

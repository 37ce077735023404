----------------------------- MODULE NatRewrite -----------------------------
(***************************************************************************)
(* The address rewriting of secondary exits (rvpn-mobile nat_rewrite.rs)   *)
(* with its incremental checksum update (RFC 1624), on words of base       *)
(* Radix.  The other words a checksum covers appear as their sum, which is *)
(* not zero: the version field and the protocol number are part of it.     *)
(***************************************************************************)
EXTENDS Naturals

CONSTANTS Radix, Addrs   \* 2^16; addresses, pairs of words

VARIABLES
  packet,    \* the packet
  was,       \* history: the packet before it was rewritten
  step       \* rewritings so far

vars == <<packet, was, step>>

Words == 0..(Radix - 1)
Compl(w) == Radix - 1 - w

(* `while sum >> 16 != 0': add the carries back.                           *)
Fold[sum \in Nat] == IF sum < Radix THEN sum ELSE Fold[(sum % Radix) + (sum \div Radix)]

(* Mutant: the carry out of the addition is dropped.                       *)
Rfc1624Unfolded(csum, old, new) ==
  Compl((Compl(csum) + Compl(old[1]) + Compl(old[2]) + new[1] + new[2]) % Radix)

(* Mutant: the old word is subtracted without complementing the checksum.  *)
Rfc1624Plain(csum, old, new) ==
  Fold[csum + Compl(old[1]) + Compl(old[2]) + new[1] + new[2]]

Rfc1624Update(csum, old, new) ==
  Compl(Fold[Compl(csum) + Compl(old[1]) + Compl(old[2]) + new[1] + new[2]])

(* The sums that a receiver verifies.                                      *)
AddrSum(p) == p.src[1] + p.src[2] + p.dst[1] + p.dst[2]
IpSum(p) == Fold[AddrSum(p) + p.ipRest]
TransportSum(p) == Fold[AddrSum(p) + p.tRest]
Verifies(p) ==
  /\ Fold[IpSum(p) + p.ipCsum] = Radix - 1
  /\ p.proto \in {"tcp", "udp"} /\ p.part = "first" /\ ~(p.proto = "udp" /\ p.tCsum = 0)
       => Fold[TransportSum(p) + p.tCsum] = Radix - 1

(* Packets as senders make them: a UDP checksum of zero is sent as all     *)
(* ones, or left out.  "later" is a fragment without transport header,     *)
(* "short" a packet that ends before the checksum, "none" not IPv4.        *)
Made(p) ==
  /\ p.ipCsum = Compl(IpSum(p))
  /\ \/ p.part # "first" \/ p.proto = "other"
     \/ p.tCsum = Compl(TransportSum(p)) /\ (p.proto = "udp" => p.tCsum # 0)
     \/ p.proto = "udp" /\ TransportSum(p) = Radix - 1 /\ p.tCsum = Radix - 1
     \/ p.proto = "udp" /\ p.tCsum = 0

Init ==
  /\ packet \in {p \in [part : {"first", "later", "short", "none"}, proto : {"tcp", "udp", "other"},
                        src : Addrs, dst : Addrs, ipRest : Words \ {0}, tRest : Words \ {0},
                        ipCsum : Words, tCsum : Words] : Made(p)}
  /\ was = packet /\ step = 0

(* Mutant: a UDP checksum that becomes zero is sent as zero.               *)
TransportCsumZero(p, old, new) ==
  IF p.part # "first" \/ p.proto = "other" \/ (p.proto = "udp" /\ p.tCsum = 0)
  THEN p.tCsum ELSE Rfc1624Update(p.tCsum, old, new)

TransportCsum(p, old, new) ==
  IF p.part # "first" \/ p.proto = "other" \/ (p.proto = "udp" /\ p.tCsum = 0) THEN p.tCsum
  ELSE LET c == Rfc1624Update(p.tCsum, old, new) IN
       IF p.proto = "udp" /\ c = 0 THEN Radix - 1 ELSE c

RewriteAddr(p, slot, new) ==
  IF p.part = "none" \/ p[slot] = new THEN p
  ELSE [p EXCEPT ![slot] = new, !.ipCsum = Rfc1624Update(@, p[slot], new),
                 !.tCsum = TransportCsum(p, p[slot], new)]

(* Towards the exit the source becomes the session's address; a packet     *)
(* that comes back has its destination set to the device's.  Undo returns  *)
(* to the address the packet had.                                          *)
RewriteSrcIp(a) == packet' = RewriteAddr(packet, "src", a)
RewriteDstIp(a) == packet' = RewriteAddr(packet, "dst", a)

Rewrite(a) == step = 0 /\ step' = 1 /\ (RewriteSrcIp(a) \/ RewriteDstIp(a)) /\ UNCHANGED was

Undo ==
  /\ step = 1 /\ step' = 2 /\ UNCHANGED was
  /\ \/ packet.src # was.src /\ RewriteSrcIp(was.src)
     \/ packet.src = was.src /\ RewriteDstIp(was.dst)

Next == Undo \/ \E a \in Addrs : Rewrite(a)

Spec == Init /\ [][Next]_vars

----------------------------------------------------------------------------
(* A packet whose checksums are right still has right checksums after      *)
(* rewrite_addr; a disabled UDP checksum stays disabled and never becomes  *)
(* so; bytes that are not a checksum are left alone.                       *)
ChecksumsStayRight ==
  /\ packet.part # "none" => Verifies(packet)
  /\ packet.proto = "udp" /\ packet.part = "first" => (packet.tCsum = 0 <=> was.tCsum = 0)
  /\ packet.part # "first" \/ packet.proto = "other" => packet.tCsum = was.tCsum

(* Rewriting an address and back gives the packet that was sent, bit for   *)
(* bit, whichever form of zero the checksums pass through.                 *)
UndoRestores == step = 2 => packet = was
=============================================================================

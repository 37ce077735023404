----------------------------- MODULE OrderedLink -----------------------------
(***************************************************************************)
(* What the encrypted link promises to the layers above it: a frame that   *)
(* reaches the wire is delivered, in wire order, and frames carry strictly *)
(* increasing message numbers.  Numbers may be skipped (a frame whose      *)
(* sender gave up), never reordered and never refused.                     *)
(***************************************************************************)
EXTENDS Naturals, Sequences

VARIABLES
    inflight,  \* message numbers on the wire
    delivered  \* message numbers the peer's ratchet has accepted

lvars == <<inflight, delivered>>

LinkInit == inflight = <<>> /\ delivered = <<>>

\* A new frame is put on the wire behind everything sent before it.
Enqueue ==
    /\ Len(inflight') = Len(inflight) + 1
    /\ LET n == inflight'[Len(inflight) + 1] IN
         /\ n \in Nat
         /\ inflight' = Append(inflight, n)
         /\ \A i \in 1..Len(inflight) : inflight[i] < n
         /\ \A i \in 1..Len(delivered) : delivered[i] < n
    /\ UNCHANGED delivered

\* The peer accepts the oldest frame.
Deliver ==
    /\ inflight # <<>>
    /\ delivered' = Append(delivered, Head(inflight))
    /\ inflight' = Tail(inflight)

LinkNext == Enqueue \/ Deliver

LinkSpec == LinkInit /\ [][LinkNext]_lvars
=============================================================================

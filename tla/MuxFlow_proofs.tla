---------------------------- MODULE MuxFlow_proofs ---------------------------
(***************************************************************************)
(* Flow control of a multiplexed flow, for every window, frame size and    *)
(* queue capacity: the invariant behind FlowConserved and NoOrphanTasks,   *)
(* whose theorems are in MuxSums_proofs.                                   *)
(*                                                                         *)
(* Neither is inductive.  The window is conserved exactly only while the   *)
(* flow is whole on both sides; a grant that comes after that must still   *)
(* find room, so the sums never exceed the window at any time.  And bytes  *)
(* are lost on neither side only because CreateFlow is the first frame of  *)
(* the flow, tasks start and end with the map's entry, and nothing is sent *)
(* or granted before each end has its state (OrderInv, TaskInv).           *)
(***************************************************************************)
EXTENDS Integers, MuxFlow, SequenceTheorems, WellFoundedInduction, TLAPS

\* Time limits of the provers, for a slow machine.
USE SMTT(10), ZenonT(20)

-----------------------------------------------------------------------------
(* Induction over the natural numbers, in a form the provers can use: the
   induction hypothesis is a set, not an operator.  It rests on the library's
   theorem that `<' is well founded on Nat. *)

(* A non-empty set of natural numbers has a least element. *)
LEMMA LeastNumber ==
    ASSUME NEW T \in SUBSET Nat, T # {}
    PROVE  \E x \in T : \A y \in T : x <= y
<1> DEFINE R == {ss \in Nat \X Nat : ss[1] < ss[2]}
<1>1. IsWellFoundedOn(R, Nat)
  BY NatLessThanWellFounded DEF OpToRel
<1>2. PICK x \in T : \A y \in T : <<y, x>> \notin R
  <2> HIDE DEF R
  <2> QED  BY Zenon, <1>1, WFMin
<1>3. ASSUME NEW y \in T  PROVE x <= y
  <2>1. x \in Nat /\ y \in Nat /\ <<y, x>> \in Nat \X Nat
    OBVIOUS
  <2>2. ~(<<y, x>>[1] < <<y, x>>[2])
    BY <1>2, <2>1
  <2> QED  BY <2>1, <2>2
<1> QED  BY <1>3

(* A set with 0 that is closed under successor has every natural number. *)
LEMMA SetInduction ==
    ASSUME NEW S, 0 \in S, \A n \in Nat : n \in S => n + 1 \in S
    PROVE  \A n \in Nat : n \in S
<1> SUFFICES ASSUME NEW k \in Nat, k \notin S PROVE FALSE
  OBVIOUS
<1> DEFINE T == {n \in Nat : n \notin S}
<1>1. PICK x \in T : \A y \in T : x <= y
  <2>1. T \in SUBSET Nat /\ T # {}
    OBVIOUS
  <2> HIDE DEF T
  <2> QED  BY <2>1, LeastNumber
<1>2. x # 0 /\ x - 1 \in Nat /\ x - 1 \notin T
  BY <1>1
<1> QED  BY <1>2

\* What the recursion of Total defines.
IsSum(f, q, n) == f = [i \in 0..n |-> IF i = 0 THEN 0 ELSE f[i - 1] + q[i]]

(* A function as the recursion of Total asks for exists: of every prefix of a
   queue, the sum of its elements. *)
LEMMA SumExists ==
    ASSUME NEW q \in Seq(Nat)
    PROVE  \A n \in Nat : n <= Len(q) => \E f : IsSum(f, q, n) /\ f \in [0..n -> Nat]
<1> DEFINE S == {n \in Nat : n <= Len(q) => \E f : IsSum(f, q, n) /\ f \in [0..n -> Nat]}
<1>1. 0 \in S
  <2>1. IsSum([i \in 0..0 |-> 0], q, 0) /\ [i \in 0..0 |-> 0] \in [0..0 -> Nat]
    BY DEF IsSum
  <2> QED  BY <2>1
<1>2. ASSUME NEW n \in Nat, n \in S PROVE n + 1 \in S
  <2> SUFFICES ASSUME n + 1 <= Len(q)
               PROVE  \E f : IsSum(f, q, n + 1) /\ f \in [0..n + 1 -> Nat]
    OBVIOUS
  <2>1. PICK f : IsSum(f, q, n) /\ f \in [0..n -> Nat]
    BY <1>2
  <2> DEFINE g == [i \in 0..n + 1 |-> IF i <= n THEN f[i] ELSE f[n] + q[n + 1]]
  <2>2. q[n + 1] \in Nat /\ f[n] \in Nat
    BY <2>1
  <2>3. g \in [0..n + 1 -> Nat]
    BY <2>1, <2>2
  <2>4. ASSUME NEW i \in 0..n + 1
        PROVE  g[i] = IF i = 0 THEN 0 ELSE g[i - 1] + q[i]
    <3>1. CASE i = 0
      BY <3>1, <2>1 DEF IsSum
    <3>2. CASE i \in 1..n
      <4>1. f[i] = f[i - 1] + q[i]
        BY <3>2, <2>1 DEF IsSum
      <4> QED  BY <4>1, <3>2
    <3>3. CASE i = n + 1
      BY <3>3
    <3> QED  BY <3>1, <3>2, <3>3
  <2>5. IsSum(g, q, n + 1)
    <3>1. g = [i \in 0..n + 1 |-> g[i]]
      BY <2>3
    <3> HIDE DEF g
    <3> QED  BY Zenon, <3>1, <2>4 DEF IsSum
  <2> QED  BY <2>3, <2>5
<1>3. \A n \in Nat : n \in S
  <2> HIDE DEF S
  <2> QED  BY <1>1, <1>2, SetInduction
<1> QED  BY <1>3

\* p is what q holds from its (d + 1)st element on, or a prefix of that.
IsPart(p, q, d) ==
    /\ Len(p) + d <= Len(q)
    /\ \A i \in 1..Len(p), j \in 1..Len(q) : j = i + d => p[i] = q[j]

\* f holds the sums of the prefixes of q.
Sums(f, q) == f \in [0..Len(q) -> Nat] /\ IsSum(f, q, Len(q))

(* The sums over a part of a queue are those over the queue, less what comes
   before the part. *)
LEMMA SumShifts ==
    ASSUME NEW q \in Seq(Nat), NEW p \in Seq(Nat), NEW d \in Nat, IsPart(p, q, d),
           NEW f, Sums(f, q), NEW g, Sums(g, p)
    PROVE  \A i \in 0..Len(p), j \in 0..Len(q) : j = i + d => f[j] = f[d] + g[i]
<1> DEFINE n == Len(q)
<1> DEFINE m == Len(p)
<1>a. n \in Nat /\ m \in Nat /\ m + d <= n
  BY LenProperties DEF IsPart
<1>b. /\ f \in [0..n -> Nat] /\ IsSum(f, q, n)
      /\ g \in [0..m -> Nat] /\ IsSum(g, p, m)
  BY DEF Sums
<1>c. /\ \A i \in 1..m, j \in 1..n : j = i + d => p[i] = q[j]
      /\ \A i \in 1..m : p[i] \in Nat
  BY LenProperties DEF IsPart
<1> HIDE DEF n, m
<1> DEFINE S == {i \in Nat : i <= m => \A j \in 0..n : j = i + d => f[j] = f[d] + g[i]}
<1>0. d \in 0..n /\ f[d] \in Nat
  BY <1>a, <1>b
<1>1. 0 \in S
  BY <1>0, <1>a, <1>b DEF IsSum
<1>2. ASSUME NEW i \in Nat, i \in S PROVE i + 1 \in S
  <2> SUFFICES ASSUME i + 1 <= m, NEW j \in 0..n, j = i + 1 + d
               PROVE  f[j] = f[d] + g[i + 1]
    OBVIOUS
  <2>0. i \in 0..m /\ i + 1 \in 1..m /\ j - 1 \in 0..n /\ j \in 1..n /\ j = (i + 1) + d
    BY <1>a
  <2>1. f[j - 1] = f[d] + g[i] /\ g[i] \in Nat
    BY <1>2, <1>b, <2>0
  <2>2. g[i + 1] = g[i] + p[i + 1]
    BY <1>b, <2>0 DEF IsSum
  <2>3. f[j] = f[j - 1] + q[j]
    BY <1>b, <2>0 DEF IsSum
  <2>4. p[i + 1] = q[j] /\ p[i + 1] \in Nat
    BY <1>c, <2>0
  <2>5. \A a, b, c \in Nat : (a + b) + c = a + (b + c)
    OBVIOUS
  <2>6. f[j] = (f[d] + g[i]) + p[i + 1]
    BY <2>1, <2>3, <2>4
  <2>7. f[d] + g[i + 1] = f[d] + (g[i] + p[i + 1])
    BY <2>2
  <2> HIDE DEF S
  <2>8. (f[d] + g[i]) + p[i + 1] = f[d] + (g[i] + p[i + 1])
    <3>1. PICK a \in Nat : a = f[d]
      BY <1>0
    <3>2. PICK b \in Nat : b = g[i]
      BY <2>1
    <3>3. PICK c \in Nat : c = p[i + 1]
      BY <2>4
    <3>4. (a + b) + c = a + (b + c)
      BY <2>5
    <3> QED  BY <3>1, <3>2, <3>3, <3>4
  <2> QED  BY <2>6, <2>7, <2>8
<1>3. \A i \in Nat : i \in S
  <2> HIDE DEF S
  <2> QED  BY Zenon, <1>1, <1>2, SetInduction
<1> QED  BY <1>3, <1>a DEF n, m

(* Total is the last of those sums (the CHOOSE a recursive function stands for
   has something to choose). *)
LEMMA TotalIs ==
    ASSUME NEW q \in Seq(Nat)
    PROVE  \E f : Sums(f, q) /\ Total(q) = f[Len(q)]
<1> DEFINE h == CHOOSE f : IsSum(f, q, Len(q))
<1>1. PICK f : IsSum(f, q, Len(q)) /\ f \in [0..Len(q) -> Nat]
  BY SumExists, LenProperties
<1>2. IsSum(h, q, Len(q))
  BY <1>1
<1>3. Total(q) = h[Len(q)]
  BY DEF Total, IsSum
<1>4. h \in [0..Len(q) -> Nat]
  <2> HIDE DEF h
  <2>1. h = [i \in 0..Len(q) |-> h[i]]
    BY <1>2 DEF IsSum
  <2> DEFINE S == {i \in Nat : i <= Len(q) => h[i] \in Nat}
  <2>2. 0 \in S
    BY <1>2, LenProperties DEF IsSum
  <2>3. ASSUME NEW i \in Nat, i \in S PROVE i + 1 \in S
    <3> SUFFICES ASSUME i + 1 <= Len(q) PROVE h[i + 1] \in Nat
      OBVIOUS
    <3>1. h[i + 1] = h[i] + q[i + 1]
      BY <1>2, LenProperties DEF IsSum
    <3>2. h[i] \in Nat /\ q[i + 1] \in Nat
      BY <2>3, LenProperties
    <3> QED  BY <3>1, <3>2
  <2>4. \A i \in Nat : i \in S
    <3> HIDE DEF S
    <3> QED  BY <2>2, <2>3, SetInduction
  <2> QED  BY <2>1, <2>4, LenProperties
<1> QED
  <2> HIDE DEF h
  <2> QED  BY <1>2, <1>3, <1>4 DEF Sums

(* An empty queue holds nothing. *)
LEMMA TotalEmpty == Total(<<>>) = 0
<1>1. <<>> \in Seq(Nat) /\ Len(<<>>) = 0
  OBVIOUS
<1>2. PICK f : Sums(f, <<>>) /\ Total(<<>>) = f[Len(<<>>)]
  BY Zenon, TotalIs, <1>1
<1> QED  BY <1>1, <1>2 DEF Sums, IsSum

(* What a queue of numbers holds is a number. *)
LEMMA TotalType ==
    ASSUME NEW q \in Seq(Nat)
    PROVE  Total(q) \in Nat
BY TotalIs, LenProperties DEF Sums

(* A chunk put at the end of a queue adds its bytes (send on a channel). *)
LEMMA TotalAppend ==
    ASSUME NEW q \in Seq(Nat), NEW x \in Nat
    PROVE  Total(Append(q, x)) = Total(q) + x
<1> DEFINE p == Append(q, x)
<1>1. /\ p \in Seq(Nat) /\ Len(q) \in Nat /\ Len(p) = Len(q) + 1
      /\ \A i \in 1..Len(q) : q[i] = p[i]
      /\ p[Len(q) + 1] = x
  BY AppendProperties, LenProperties
<1> HIDE DEF p
<1>2. PICK g : Sums(g, q) /\ Total(q) = g[Len(q)]
  BY TotalIs
<1>3. PICK f : Sums(f, p) /\ Total(p) = f[Len(p)]
  BY TotalIs, <1>1
<1>4. IsPart(q, p, 0)
  BY <1>1 DEF IsPart
<1>5. \A i \in 0..Len(q), j \in 0..Len(p) : j = i + 0 => f[j] = f[0] + g[i]
  BY SumShifts, <1>1, <1>2, <1>3, <1>4
<1>6. f[0] = 0 /\ f[Len(p)] = f[Len(q)] + x /\ g[Len(q)] \in Nat
  <2>1. f[0] = 0
    BY <1>1, <1>3 DEF Sums, IsSum
  <2>2. f[Len(p)] = f[Len(p) - 1] + p[Len(p)]
    BY <1>1, <1>3 DEF Sums, IsSum
  <2>3. g[Len(q)] \in Nat
    <3>1. g \in [0..Len(q) -> Nat] /\ Len(q) \in 0..Len(q)
      BY <1>1, <1>2 DEF Sums
    <3> QED  BY <3>1
  <2> QED  BY <1>1, <2>1, <2>2, <2>3
<1>7. f[Len(q)] = g[Len(q)]
  BY <1>1, <1>5, <1>6
<1> QED  BY <1>2, <1>3, <1>6, <1>7 DEF p

(* A queue holds its first chunk and what is behind it (recv on a channel). *)
LEMMA TotalTail ==
    ASSUME NEW q \in Seq(Nat), q # <<>>
    PROVE  Total(q) = Head(q) + Total(Tail(q))
<1> DEFINE p == Tail(q)
<1>1. /\ p \in Seq(Nat) /\ Len(q) \in Nat /\ Len(q) >= 1 /\ Len(p) = Len(q) - 1 /\ Len(p) \in Nat
      /\ \A i \in 1..Len(p) : p[i] = q[i + 1]
      /\ Head(q) = q[1] /\ q[1] \in Nat
  BY HeadTailProperties, LenProperties, EmptySeq
<1> HIDE DEF p
<1>2. PICK f : Sums(f, q) /\ Total(q) = f[Len(q)]
  BY TotalIs
<1>3. PICK g : Sums(g, p) /\ Total(p) = g[Len(p)]
  BY TotalIs, <1>1
<1>4. IsPart(p, q, 1)
  BY <1>1 DEF IsPart
<1>5. \A i \in 0..Len(p), j \in 0..Len(q) : j = i + 1 => f[j] = f[1] + g[i]
  BY SumShifts, <1>1, <1>2, <1>3, <1>4
<1>6. f[1] = q[1]
  BY <1>1, <1>2 DEF Sums, IsSum
<1> QED  BY <1>1, <1>2, <1>3, <1>5, <1>6 DEF p

-----------------------------------------------------------------------------
(* The inductive invariant. *)

Msgs == {m \in [type : {"Create", "Created", "Data", "Credit", "Close"}, n : 0..MaxFrame] :
            m.type \in {"Data", "Credit"} => m.n >= 1}
MsgsOf(types) == {m \in Msgs : m.type \in types}

ShapeInv ==
    /\ conn \in {"new", "created", "open", "pushing", "closing", "finished", "closed"}
    /\ hand \in 0..MaxFrame /\ rest \in 0..MaxFrame
    /\ (conn = "pushing" => hand >= 1)
    /\ flow \in {"none", "in", "out"} /\ entry \in {"none", "in", "out"}
    /\ to_ws \in Seq(1..MaxFrame) /\ to_local \in Seq(1..MaxFrame)
    /\ to_target \in Seq(1..MaxFrame)
    /\ Len(to_ws) <= QueueCap /\ Len(to_local) <= QueueCap /\ Len(to_target) <= QueueCap
    /\ loop \in {"none", "run", "parked", "stalled", "ended"}
    /\ credits \in Nat /\ granted \in Nat
    /\ create \in {"none", "connecting", "spawned", "done", "failed"}
    /\ relay \in {"none", "run", "ended"} /\ writer \in {"none", "run", "ended"}
    /\ up \in Seq(MsgsOf({"Create", "Data", "Credit", "Close"}))
    /\ control \in Seq(MsgsOf({"Created", "Credit", "Close"}))
    /\ data \in Seq(MsgsOf({"Data"}))
    /\ down \in Seq(MsgsOf({"Created", "Data", "Credit", "Close"}))
    /\ sent \in Nat /\ received \in Nat /\ written \in Nat /\ delivered \in Nat
    /\ early \in Nat /\ overflow \in Nat

\* CreateFlow is the first frame of the flow, and it is sent and handled once.
OrderInv ==
    /\ conn = "new" => up = <<>> /\ create = "none"
    /\ create = "none" /\ conn # "new" => up # <<>> /\ up[1].type = "Create"
    /\ \A i \in 1..Len(up) : up[i].type = "Create" => i = 1 /\ create = "none"

\* Each end has its state before it is used, and its tasks go with it.
TaskInv ==
    /\ conn \in {"new", "created"} => flow = "none"
    /\ flow = "none" => loop = "none" /\ credits = Window
    /\ create \in {"none", "connecting", "failed"}
           => relay = "none" /\ writer = "none" /\ entry = "none"
    /\ create = "spawned" => relay # "none" /\ writer = "run" /\ entry = "none"
    /\ create = "done" => relay # "none" /\ entry # "none"
    /\ create # "done" => to_target = <<>>
    /\ entry = "in" => writer = "run"
    /\ entry = "out" => relay # "run" /\ writer # "run"
    /\ relay = "none" => granted = Window

UpSum == credits + BytesOf("Data", up) + Total(to_target)
             + BytesOf("Credit", control) + BytesOf("Credit", down)

UpInv ==
    /\ UpSum <= Window
    /\ entry # "out" /\ flow # "out" /\ create # "failed" => UpSum = Window

DownSum == granted + BytesOf("Data", data) + BytesOf("Data", down) + Total(to_local)
               + BytesOf("Credit", up) + early + overflow

DownInv ==
    /\ DownSum <= Window
    /\ relay # "ended" /\ flow # "out" /\ Alive => DownSum = Window

CountInv ==
    /\ sent <= UpBytes /\ received <= DownBytes
    /\ written + Total(to_target) + BytesOf("Data", up) + rest + Total(to_ws) + hand <= sent
    /\ delivered + Total(to_local) + BytesOf("Data", down) + BytesOf("Data", data)
           + early + overflow <= received

MuxInv == ShapeInv /\ OrderInv /\ TaskInv /\ UpInv /\ DownInv /\ CountInv
-----------------------------------------------------------------------------
(* What appending and removing a frame does to the bytes a queue holds. *)

(* The sizes of the frames of one type are a sequence of numbers, one a frame. *)
LEMMA SizesType ==
    ASSUME NEW q \in Seq(Msgs), NEW type
    PROVE  Sizes(type, q) \in Seq(Nat) /\ Len(Sizes(type, q)) = Len(q)
<1>1. Len(q) \in Nat /\ \A i \in 1..Len(q) : q[i].n \in Nat
  BY LenProperties DEF Msgs
<1>2. \A i \in 1..Len(q) : (IF q[i].type = type THEN q[i].n ELSE 0) \in Nat
  BY <1>1
<1> QED  BY <1>1, <1>2, IsASeq, LenProperties DEF Sizes

(* What the frames of one type carry is a number. *)
LEMMA BytesType ==
    ASSUME NEW q \in Seq(Msgs), NEW type
    PROVE  BytesOf(type, q) \in Nat
BY SizesType, TotalType DEF BytesOf

(* An empty queue carries nothing. *)
LEMMA BytesEmpty ==
    ASSUME NEW type
    PROVE  BytesOf(type, <<>>) = 0
<1>1. Sizes(type, <<>>) = <<>>
  BY DEF Sizes
<1> QED  BY <1>1, TotalEmpty DEF BytesOf

(* A frame put on a queue counts if it has the type. *)
LEMMA BytesAppend ==
    ASSUME NEW q \in Seq(Msgs), NEW m \in Msgs, NEW type
    PROVE  /\ m.type = type => BytesOf(type, Append(q, m)) = BytesOf(type, q) + m.n
           /\ m.type # type => BytesOf(type, Append(q, m)) = BytesOf(type, q)
<1> DEFINE x == IF m.type = type THEN m.n ELSE 0
<1> DEFINE p == Append(q, m)
<1>1. x \in Nat
  BY DEF Msgs
<1>2. /\ p \in Seq(Msgs) /\ Len(p) = Len(q) + 1 /\ p[Len(q) + 1] = m
      /\ \A i \in 1..Len(q) : p[i] = q[i]
  BY AppendProperties
<1>3. Sizes(type, p) = Append(Sizes(type, q), x)
  <2>1. /\ Sizes(type, p) \in Seq(Nat) /\ Len(Sizes(type, p)) = Len(q) + 1
        /\ Sizes(type, q) \in Seq(Nat) /\ Len(Sizes(type, q)) = Len(q)
    <3> HIDE DEF p
    <3> QED  BY <1>2, SizesType
  <2>2. /\ Append(Sizes(type, q), x) \in Seq(Nat)
        /\ Len(Append(Sizes(type, q), x)) = Len(q) + 1
        /\ Append(Sizes(type, q), x)[Len(q) + 1] = x
        /\ \A i \in 1..Len(q) : Append(Sizes(type, q), x)[i] = Sizes(type, q)[i]
    <3> HIDE DEF x
    <3> QED  BY <1>1, <2>1, AppendProperties
  <2>3. ASSUME NEW i \in 1..Len(q) + 1
        PROVE  Sizes(type, p)[i] = Append(Sizes(type, q), x)[i]
    <3>1. Len(q) \in Nat
      BY LenProperties
    <3>2. Sizes(type, p)[i] = IF p[i].type = type THEN p[i].n ELSE 0
      BY <1>2 DEF Sizes
    <3> HIDE DEF p
    <3>3. CASE i = Len(q) + 1
      <4>1. p[i] = m /\ Append(Sizes(type, q), x)[i] = x
        <5> HIDE DEF x
        <5> QED  BY <3>3, <1>2, <2>2
      <4> QED  BY Zenon, <3>2, <4>1
    <3>4. CASE i \in 1..Len(q)
      BY <3>2, <3>4, <1>2, <2>2 DEF Sizes
    <3>5. i = Len(q) + 1 \/ i \in 1..Len(q)
      BY <3>1
    <3> HIDE DEF x
    <3> QED  BY Zenon, <3>3, <3>4, <3>5
  <2> HIDE DEF x, p
  <2> QED  BY <2>1, <2>2, <2>3, SeqEqual
<1>4. Total(Append(Sizes(type, q), x)) = Total(Sizes(type, q)) + x
  <2> HIDE DEF x
  <2> QED  BY <1>1, SizesType, TotalAppend
<1>5. (m.type = type => x = m.n) /\ (m.type # type => x = 0)
  OBVIOUS
<1> HIDE DEF x, p
<1>6. BytesOf(type, p) = BytesOf(type, q) + x
  BY Zenon, <1>3, <1>4 DEF BytesOf
<1> QED  BY <1>5, <1>6, BytesType DEF p

(* A queue carries what its first frame does and what is behind it. *)
LEMMA BytesTail ==
    ASSUME NEW q \in Seq(Msgs), q # <<>>, NEW type
    PROVE  /\ Head(q).type = type => BytesOf(type, q) = Head(q).n + BytesOf(type, Tail(q))
           /\ Head(q).type # type => BytesOf(type, q) = BytesOf(type, Tail(q))
<1> DEFINE z == Sizes(type, q)
<1> DEFINE p == Tail(q)
<1>1. /\ p \in Seq(Msgs) /\ Len(q) \in Nat /\ Len(q) >= 1 /\ Len(p) = Len(q) - 1
      /\ \A i \in 1..Len(p) : p[i] = q[i + 1]
      /\ Head(q) = q[1]
  BY HeadTailProperties, LenProperties, EmptySeq
<1>2. z \in Seq(Nat) /\ Len(z) = Len(q) /\ z # <<>>
  <2>1. z \in Seq(Nat) /\ Len(z) = Len(q)
    BY SizesType
  <2> HIDE DEF z
  <2> QED  BY <1>1, <2>1, EmptySeq
<1>3. /\ Tail(z) \in Seq(Nat) /\ Len(Tail(z)) = Len(q) - 1 /\ Head(z) = z[1]
      /\ \A i \in 1..Len(Tail(z)) : Tail(z)[i] = z[i + 1]
  <2> HIDE DEF z
  <2> QED  BY <1>2, HeadTailProperties
<1>4. Sizes(type, p) \in Seq(Nat) /\ Len(Sizes(type, p)) = Len(q) - 1
  <2> HIDE DEF p
  <2> QED  BY <1>1, SizesType
<1>5. ASSUME NEW i \in 1..Len(q) - 1
      PROVE  Sizes(type, p)[i] = Tail(z)[i]
  <2>1. Sizes(type, p)[i] = IF p[i].type = type THEN p[i].n ELSE 0
    BY <1>1 DEF Sizes
  <2>2. z[i + 1] = IF q[i + 1].type = type THEN q[i + 1].n ELSE 0
    BY <1>1 DEF Sizes
  <2> QED  BY <1>1, <1>3, <2>1, <2>2
<1>6. Sizes(type, p) = Tail(z)
  <2> HIDE DEF z, p
  <2> QED  BY Zenon, <1>3, <1>4, <1>5, SeqEqual
<1>7. Head(z) = IF Head(q).type = type THEN Head(q).n ELSE 0
  BY <1>1, <1>3 DEF Sizes
<1>8. Total(z) = Head(z) + Total(Tail(z))
  <2> HIDE DEF z
  <2> QED  BY <1>2, TotalTail
<1>9. BytesOf(type, q) = Head(z) + BytesOf(type, p)
  <2> HIDE DEF p
  <2> QED  BY Zenon, <1>6, <1>8 DEF BytesOf
<1>10. BytesOf(type, p) \in Nat
  <2> HIDE DEF p
  <2> QED  BY <1>1, BytesType
<1> QED
  <2> HIDE DEF z
  <2> QED  BY <1>7, <1>9, <1>10

(* A frame put on a queue adds its bytes, or its grant, and nothing else. *)
LEMMA PutFrame ==
    ASSUME NEW q \in Seq(Msgs), NEW n \in 1..MaxFrame, NEW type \in {"Create", "Created", "Close"}
    PROVE  /\ BytesOf("Data", Append(q, Msg("Data", n))) = BytesOf("Data", q) + n
           /\ BytesOf("Credit", Append(q, Msg("Data", n))) = BytesOf("Credit", q)
           /\ BytesOf("Data", Append(q, Msg("Credit", n))) = BytesOf("Data", q)
           /\ BytesOf("Credit", Append(q, Msg("Credit", n))) = BytesOf("Credit", q) + n
           /\ BytesOf("Data", Append(q, Msg(type, 0))) = BytesOf("Data", q)
           /\ BytesOf("Credit", Append(q, Msg(type, 0))) = BytesOf("Credit", q)
<1>1. Msg("Data", n) \in Msgs /\ Msg("Credit", n) \in Msgs /\ Msg(type, 0) \in Msgs
  BY MuxFlowAssumption DEF Msg, Msgs
<1>2. BytesOf("Data", q) \in Nat /\ BytesOf("Credit", q) \in Nat
  BY BytesType
<1>3. /\ Msg("Data", n).type = "Data" /\ Msg("Data", n).n = n
      /\ Msg("Credit", n).type = "Credit" /\ Msg("Credit", n).n = n
      /\ Msg(type, 0).type = type
  BY DEF Msg
<1> QED  BY <1>1, <1>2, <1>3, BytesAppend

(* The queues hold frames, and what they hold is a number of bytes. *)
LEMMA Counted ==
    ASSUME ShapeInv
    PROVE  /\ up \in Seq(Msgs) /\ control \in Seq(Msgs) /\ data \in Seq(Msgs) /\ down \in Seq(Msgs)
           /\ to_ws \in Seq(Nat) /\ to_local \in Seq(Nat) /\ to_target \in Seq(Nat)
           /\ BytesOf("Data", up) \in Nat /\ BytesOf("Credit", up) \in Nat
           /\ BytesOf("Data", down) \in Nat /\ BytesOf("Credit", down) \in Nat
           /\ BytesOf("Credit", control) \in Nat /\ BytesOf("Data", data) \in Nat
           /\ Total(to_ws) \in Nat /\ Total(to_local) \in Nat /\ Total(to_target) \in Nat
<1>1. \A types : MsgsOf(types) \subseteq Msgs
  BY DEF MsgsOf
<1>2. up \in Seq(Msgs) /\ control \in Seq(Msgs) /\ data \in Seq(Msgs) /\ down \in Seq(Msgs)
  BY <1>1 DEF ShapeInv
<1>3. to_ws \in Seq(Nat) /\ to_local \in Seq(Nat) /\ to_target \in Seq(Nat)
  <2>1. 1..MaxFrame \subseteq Nat
    BY MuxFlowAssumption
  <2>2. to_ws \in Seq(1..MaxFrame) /\ to_local \in Seq(1..MaxFrame) /\ to_target \in Seq(1..MaxFrame)
    BY DEF ShapeInv
  <2> QED  BY <2>1, <2>2, SeqMonotonic, Zenon
<1> QED  BY <1>2, <1>3, BytesType, TotalType
-----------------------------------------------------------------------------
(* ShapeInv. *)

(* The frames the actions send are frames of their queues. *)
LEMMA FrameType ==
    ASSUME NEW types, NEW n \in 1..MaxFrame
    PROVE  /\ "Data" \in types => Msg("Data", n) \in MsgsOf(types)
           /\ "Credit" \in types => Msg("Credit", n) \in MsgsOf(types)
           /\ \A type \in {"Create", "Created", "Close"} :
                 type \in types => Msg(type, 0) \in MsgsOf(types)
BY MuxFlowAssumption DEF Msg, MsgsOf, Msgs

(* What the queues of chunks allow: a chunk put at the end, or the first taken. *)
LEMMA ChunkQueue ==
    ASSUME NEW q \in Seq(1..MaxFrame)
    PROVE  /\ Len(q) \in Nat
           /\ \A x \in 1..MaxFrame :
                 Append(q, x) \in Seq(1..MaxFrame) /\ Len(Append(q, x)) = Len(q) + 1
           /\ q # <<>> => /\ Head(q) \in 1..MaxFrame /\ Tail(q) \in Seq(1..MaxFrame)
                          /\ Len(Tail(q)) = Len(q) - 1
<1> DEFINE S == 1..MaxFrame
<1>1. q \in Seq(S)
  OBVIOUS
<1> HIDE DEF S
<1>2. Len(q) \in Nat /\ \A x \in S : Append(q, x) \in Seq(S) /\ Len(Append(q, x)) = Len(q) + 1
  BY <1>1, AppendProperties, LenProperties
<1>3. q # <<>> => Head(q) \in S /\ Tail(q) \in Seq(S) /\ Len(Tail(q)) = Len(q) - 1
  BY <1>1, HeadTailProperties
<1> QED  BY <1>2, <1>3 DEF S

(* A queue within its capacity stays so when its first chunk is taken, and
   when one is put into a queue with room. *)
LEMMA QueueKeepsCap ==
    ASSUME NEW q \in Seq(1..MaxFrame), NEW r, NEW x \in 1..MaxFrame, Len(q) <= QueueCap,
           \/ r = q
           \/ q # <<>> /\ r = Tail(q)
           \/ Len(q) < QueueCap /\ r = Append(q, x)
    PROVE  r \in Seq(1..MaxFrame) /\ Len(r) <= QueueCap
<1>1. CASE r = q
  BY <1>1
<1>2. CASE q # <<>> /\ r = Tail(q)
  <2>1. PICK k \in Nat : k = Len(q)
    BY ChunkQueue
  <2>2. r \in Seq(1..MaxFrame) /\ Len(r) = k - 1
    BY <1>2, <2>1, ChunkQueue, Zenon
  <2> QED  BY <2>1, <2>2, MuxFlowAssumption
<1>3. CASE Len(q) < QueueCap /\ r = Append(q, x)
  <2>1. PICK k \in Nat : k = Len(q)
    BY ChunkQueue
  <2>2. r \in Seq(1..MaxFrame) /\ Len(r) = k + 1
    BY <1>3, <2>1, ChunkQueue, Zenon
  <2> QED  BY <1>3, <2>1, <2>2, MuxFlowAssumption
<1> QED  BY <1>1, <1>2, <1>3

(* The same for a queue of frames. *)
LEMMA FrameQueue ==
    ASSUME NEW types, NEW q \in Seq(MsgsOf(types))
    PROVE  /\ \A m \in MsgsOf(types) : Append(q, m) \in Seq(MsgsOf(types))
           /\ q # <<>> => Head(q) \in MsgsOf(types) /\ Tail(q) \in Seq(MsgsOf(types))
BY AppendProperties, HeadTailProperties

(* Every step of the client keeps the types of the state. *)
LEMMA ClientShape ==
    ASSUME ShapeInv, Client
    PROVE  ShapeInv'
<1> DEFINE C == 1..MaxFrame
<1> DEFINE U == MsgsOf({"Create", "Data", "Credit", "Close"})
<1> DEFINE D == MsgsOf({"Created", "Data", "Credit", "Close"})
<1>1. /\ to_ws \in Seq(C) /\ to_local \in Seq(C) /\ up \in Seq(U) /\ down \in Seq(D)
      /\ Len(to_ws) \in Nat /\ Len(to_local) \in Nat
  BY ChunkQueue DEF ShapeInv
<1>2. /\ \A x \in C : Append(to_ws, x) \in Seq(C) /\ Len(Append(to_ws, x)) = Len(to_ws) + 1
      /\ \A x \in C : Append(to_local, x) \in Seq(C) /\ Len(Append(to_local, x)) = Len(to_local) + 1
  BY <1>1, ChunkQueue
<1>3. /\ to_ws # <<>> => Head(to_ws) \in C /\ Tail(to_ws) \in Seq(C) /\ Len(Tail(to_ws)) = Len(to_ws) - 1
      /\ to_local # <<>> => /\ Head(to_local) \in C /\ Tail(to_local) \in Seq(C)
                            /\ Len(Tail(to_local)) = Len(to_local) - 1
  BY <1>1, ChunkQueue
<1>4. /\ \A m \in U : Append(up, m) \in Seq(U)
      /\ down # <<>> => Head(down) \in D /\ Tail(down) \in Seq(D)
  BY <1>1, FrameQueue
<1>5. /\ \A n \in C : Msg("Data", n) \in U /\ Msg("Credit", n) \in U
      /\ Msg("Create", 0) \in U /\ Msg("Close", 0) \in U
  <2>1. 1 \in 1..MaxFrame
    BY MuxFlowAssumption
  <2> QED  BY <2>1, FrameType
<1>6. /\ <<>> \in Seq(C) /\ Len(<<>>) = 0 /\ 0 <= QueueCap /\ C \subseteq 0..MaxFrame /\ C \subseteq Nat
      /\ 0 \in 0..MaxFrame
  BY EmptySeq, MuxFlowAssumption
<1>7. \A m \in D : m.n \in 0..MaxFrame /\ (m.type \in {"Data", "Credit"} => m.n \in C)
  BY MuxFlowAssumption DEF MsgsOf, Msgs
<1> HIDE DEF C, U, D
<1>8. CASE SendCreate
  BY <1>1, <1>2, <1>3, <1>4, <1>5, <1>6, <1>7, <1>8, MuxFlowAssumption DEF SendCreate, ShapeInv, client, server, queues, counts, C, U, D
<1>9. CASE InsertState
  BY <1>1, <1>2, <1>3, <1>4, <1>5, <1>6, <1>7, <1>9, MuxFlowAssumption DEF InsertState, ShapeInv, client, server, queues, counts, C, U, D
<1>10. CASE \E n \in C : ReadApp(n)
  BY <1>1, <1>2, <1>3, <1>4, <1>5, <1>6, <1>7, <1>10, MuxFlowAssumption DEF ReadApp, ShapeInv, client, server, queues, counts, C, U, D
<1>11. CASE Push
  <2>1. hand \in C
    BY <1>11 DEF Push, ShapeInv, C
  <2>2. to_ws' \in Seq(C) /\ Len(to_ws') <= QueueCap
    <3>1. \/ to_ws' = to_ws
          \/ Len(to_ws) < QueueCap /\ to_ws' = Append(to_ws, hand)
      BY <1>11 DEF Push
    <3>2. Len(to_ws) <= QueueCap
      BY DEF ShapeInv
    <3> QED  BY <1>1, <2>1, <3>1, <3>2, QueueKeepsCap DEF C
  <2> QED  BY <1>6, <2>2, <1>11 DEF Push, ShapeInv, server, queues, counts, C
<1>12. CASE WriteApp
  <2>1. Head(to_local) \in C /\ to_local' \in Seq(C) /\ Len(to_local') <= QueueCap
    BY <1>1, <1>3, <1>12, MuxFlowAssumption DEF WriteApp, ShapeInv
  <2>2. up' \in Seq(U)
    BY <1>4, <1>5, <2>1, <1>12 DEF WriteApp
  <2>3. delivered' \in Nat
    BY <2>1, <1>12 DEF WriteApp, ShapeInv, C
  <2> QED  BY <2>1, <2>2, <2>3, <1>12 DEF WriteApp, ShapeInv, server, queues, C, U
<1>13. CASE ChannelEnds
  BY <1>1, <1>2, <1>3, <1>4, <1>5, <1>6, <1>7, <1>13, MuxFlowAssumption DEF ChannelEnds, ShapeInv, client, server, queues, counts, C, U, D
<1>14. CASE AppCloses
  BY <1>1, <1>2, <1>3, <1>4, <1>5, <1>6, <1>7, <1>14, MuxFlowAssumption DEF AppCloses, ShapeInv, client, server, queues, counts, C, U, D
<1>15. CASE DropFlow
  BY <1>1, <1>2, <1>3, <1>4, <1>5, <1>6, <1>7, <1>15, MuxFlowAssumption DEF DropFlow, ShapeInv, client, server, queues, counts, C, U, D
<1>16. CASE SendChunk
  <2> DEFINE n == Smaller(Chunk, credits)
  <2>1. Chunk \in C
    <3>1. rest > 0 => rest \in C
      BY DEF ShapeInv, C
    <3> QED  BY <1>3, <3>1, <1>16 DEF SendChunk, HasChunk, Chunk
  <2>2. n \in C /\ credits - n \in Nat /\ Chunk - n \in 0..MaxFrame
    <3>1. credits \in Nat /\ credits > 0 /\ MaxFrame \in Nat
      BY <1>16, MuxFlowAssumption DEF SendChunk, ShapeInv
    <3> QED  BY <2>1, <3>1 DEF Smaller, C
  <2>3. to_ws' \in Seq(C) /\ Len(to_ws') <= QueueCap
    <3>1. to_ws' = to_ws \/ (to_ws # <<>> /\ to_ws' = Tail(to_ws))
      BY <1>16 DEF SendChunk, HasChunk, TakeChunk
    <3>2. Len(to_ws) <= QueueCap
      BY DEF ShapeInv
    <3> QED  BY <1>1, <2>1, <3>1, <3>2, QueueKeepsCap DEF C
  <2>4. up' \in Seq(U)
    BY <1>4, <1>5, <2>2, <1>16 DEF SendChunk
  <2> QED  BY <2>2, <2>3, <2>4, <1>16 DEF SendChunk, ShapeInv, server, queues, counts, C, U
<1>17. CASE Park
  <2>1. Chunk \in C
    <3>1. rest > 0 => rest \in C
      BY DEF ShapeInv, C
    <3> QED  BY <1>3, <3>1, <1>17 DEF Park, HasChunk, Chunk
  <2>2. to_ws' \in Seq(C) /\ Len(to_ws') <= QueueCap
    <3>1. to_ws' = to_ws \/ (to_ws # <<>> /\ to_ws' = Tail(to_ws))
      BY <1>17 DEF Park, HasChunk, TakeChunk
    <3>2. Len(to_ws) <= QueueCap
      BY DEF ShapeInv
    <3> QED  BY <1>1, <2>1, <3>1, <3>2, QueueKeepsCap DEF C
  <2> QED  BY <1>6, <2>1, <2>2, <1>17 DEF Park, ShapeInv, server, queues, counts, C
<1>18. CASE Unpark
  BY <1>1, <1>2, <1>3, <1>4, <1>5, <1>6, <1>7, <1>18, MuxFlowAssumption DEF Unpark, ShapeInv, client, server, queues, counts, C, U, D
<1>19. CASE LoopEnds
  BY <1>1, <1>2, <1>3, <1>4, <1>5, <1>6, <1>7, <1>19, MuxFlowAssumption DEF LoopEnds, ShapeInv, client, server, queues, counts, C, U, D
<1>20. CASE StallUp
  BY <1>1, <1>2, <1>3, <1>4, <1>5, <1>6, <1>7, <1>20, MuxFlowAssumption DEF StallUp, ShapeInv, client, server, queues, counts, C, U, D
<1>21. CASE ReceiveCreated
  BY <1>1, <1>2, <1>3, <1>4, <1>5, <1>6, <1>7, <1>21, MuxFlowAssumption DEF ReceiveCreated, Receive, ShapeInv, client, server, queues, counts, C, U, D
<1>22. CASE ReceiveClose
  BY <1>1, <1>2, <1>3, <1>4, <1>5, <1>6, <1>7, <1>22, MuxFlowAssumption DEF ReceiveClose, Receive, CloseState, ShapeInv, client, server, queues, counts, C, U, D
<1>23. CASE ReceiveCredit
  <2>1. Head(down).n \in Nat /\ down' \in Seq(D)
    BY <1>4, <1>6, <1>7, <1>23 DEF ReceiveCredit, Receive
  <2>2. credits' \in Nat
    BY <2>1, <1>23 DEF ReceiveCredit, ShapeInv
  <2> QED  BY <2>1, <2>2, <1>23 DEF ReceiveCredit, Receive, ShapeInv, server, queues, C, D
<1>24. CASE ReceiveData
  <2>1. Head(down).n \in C /\ down' \in Seq(D)
    BY <1>4, <1>7, <1>24 DEF ReceiveData, Receive
  <2>2. /\ flow' \in {"none", "in", "out"} /\ early' \in Nat /\ overflow' \in Nat
    <3>1. PICK n \in Nat : n = Head(down).n
      BY Zenon, <1>6, <2>1
    <3>2. /\ early' \in {early, early + Head(down).n}
          /\ overflow' \in {overflow, overflow + Head(down).n}
          /\ flow' \in {flow, "out"}
      BY <1>24 DEF ReceiveData, CloseState
    <3>3. early \in Nat /\ overflow \in Nat /\ flow \in {"none", "in", "out"}
      BY DEF ShapeInv
    <3> QED  BY <3>1, <3>2, <3>3
  <2>4. up' \in Seq(U)
    BY Zenon, <1>1, <1>4, <1>5, <1>24 DEF ReceiveData
  <2>3. to_local' \in Seq(C) /\ Len(to_local') <= QueueCap
    <3>1. \/ to_local' = to_local
          \/ Len(to_local) < QueueCap /\ to_local' = Append(to_local, Head(down).n)
      BY <1>24 DEF ReceiveData
    <3>2. Len(to_local) <= QueueCap
      BY DEF ShapeInv
    <3> QED  BY <1>1, <2>1, <3>1, <3>2, QueueKeepsCap DEF C
  <2> QED  BY <2>1, <2>2, <2>3, <2>4, <1>24 DEF ReceiveData, Receive, ShapeInv, server, queues, C, U, D
<1> QED  BY <1>8, <1>9, <1>10, <1>11, <1>12, <1>13, <1>14, <1>15, <1>16, <1>17, <1>18, <1>19, <1>20, <1>21, <1>22, <1>23, <1>24 DEF Client, C

(* Every step of the server keeps the types of the state. *)
LEMMA ServerShape ==
    ASSUME ShapeInv, Server
    PROVE  ShapeInv'
<1> DEFINE C == 1..MaxFrame
<1> DEFINE U == MsgsOf({"Create", "Data", "Credit", "Close"})
<1> DEFINE K == MsgsOf({"Created", "Credit", "Close"})
<1> DEFINE A == MsgsOf({"Data"})
<1> DEFINE D == MsgsOf({"Created", "Data", "Credit", "Close"})
<1>1. /\ to_target \in Seq(C) /\ Len(to_target) \in Nat /\ Len(to_target) <= QueueCap
      /\ up \in Seq(U) /\ control \in Seq(K) /\ data \in Seq(A) /\ down \in Seq(D)
  BY ChunkQueue DEF ShapeInv
<1>2. to_target # <<>> => Head(to_target) \in C
  BY <1>1, ChunkQueue
<1>3. /\ \A m \in K : Append(control, m) \in Seq(K)
      /\ \A m \in A : Append(data, m) \in Seq(A)
      /\ \A m \in D : Append(down, m) \in Seq(D)
  BY <1>1, FrameQueue
<1>4. /\ up # <<>> => Head(up) \in U /\ Tail(up) \in Seq(U)
      /\ control # <<>> => Head(control) \in K /\ Tail(control) \in Seq(K)
      /\ data # <<>> => Head(data) \in A /\ Tail(data) \in Seq(A)
  BY <1>1, FrameQueue
<1>5. /\ \A n \in C : Msg("Data", n) \in A /\ Msg("Credit", n) \in K
      /\ Msg("Created", 0) \in K /\ Msg("Close", 0) \in K
  <2>1. 1 \in 1..MaxFrame
    BY MuxFlowAssumption
  <2> QED  BY <2>1, FrameType
<1>6. /\ <<>> \in Seq(C) /\ Len(<<>>) = 0 /\ 0 <= QueueCap /\ C \subseteq Nat
      /\ K \subseteq D /\ A \subseteq D
  BY EmptySeq, MuxFlowAssumption DEF MsgsOf
<1>7. \A m \in U : m.n \in Nat /\ (m.type = "Data" => m.n \in C)
  BY MuxFlowAssumption DEF MsgsOf, Msgs
<1> HIDE DEF C, U, K, A, D
<1>8. CASE DispatchCreate
  BY <1>1, <1>3, <1>4, <1>5, <1>6, <1>8, MuxFlowAssumption DEF DispatchCreate, Dispatch, ShapeInv, client, server, queues, counts, C, U, K, A, D
<1>9. CASE DispatchClose
  <2>1. /\ entry' \in {entry, "out"} /\ relay' \in {relay, "ended"} /\ writer' \in {writer, "ended"}
        /\ to_target' \in {to_target, <<>>}
    BY <1>9 DEF DispatchClose, Dispatch, RemoveFlow
  <2>2. to_target' \in Seq(C) /\ Len(to_target') <= QueueCap
    BY Zenon, <1>1, <1>6, <2>1
  <2>3. up' \in Seq(U)
    BY <1>4, <1>9 DEF DispatchClose, Dispatch, RemoveFlow
  <2> QED  BY <2>1, <2>2, <2>3, <1>9 DEF DispatchClose, Dispatch, RemoveFlow, ShapeInv, client, counts, C, U
<1>10. CASE DispatchCredit
  <2>1. Head(up).n \in Nat /\ up' \in Seq(U)
    BY <1>4, <1>7, <1>10 DEF DispatchCredit, Dispatch
  <2>2. granted' \in Nat
    <3>1. granted \in Nat
      BY DEF ShapeInv
    <3> QED  BY <2>1, <3>1, <1>10 DEF DispatchCredit
  <2> QED  BY <2>1, <2>2, <1>10 DEF DispatchCredit, Dispatch, ShapeInv, client, counts, U
<1>11. CASE DispatchData
  <2>1. Head(up).n \in C /\ up' \in Seq(U)
    BY <1>4, <1>7, <1>11 DEF DispatchData, Dispatch
  <2>2. /\ entry' \in {entry, "out"} /\ relay' \in {relay, "ended"} /\ writer' \in {writer, "ended"}
        /\ control' \in Seq(K)
    BY Zenon, <1>1, <1>3, <1>5, <1>11 DEF DispatchData, RemoveFlow
  <2>3. to_target' \in Seq(C) /\ Len(to_target') <= QueueCap
    <3>1. \/ to_target' = to_target
          \/ Len(to_target) < QueueCap /\ to_target' = Append(to_target, Head(up).n)
          \/ to_target' = <<>>
      BY <1>11 DEF DispatchData, RemoveFlow
    <3>2. CASE to_target' = <<>>
      BY <1>6, <3>2
    <3> QED  BY <1>1, <2>1, <3>1, <3>2, QueueKeepsCap DEF C
  <2>4. UNCHANGED <<client, create, granted, data, down, counts>>
    BY <1>11 DEF DispatchData, Dispatch
  <2> QED  BY <2>1, <2>2, <2>3, <2>4 DEF ShapeInv, client, counts, C, U, K
<1>12. CASE StoreFlow
  BY <1>1, <1>3, <1>4, <1>5, <1>6, <1>12, MuxFlowAssumption DEF StoreFlow, ShapeInv, client, server, queues, counts, C, U, K, A, D
<1>13. CASE ConnectFails
  BY <1>1, <1>3, <1>4, <1>5, <1>6, <1>13, MuxFlowAssumption DEF ConnectFails, ShapeInv, client, server, queues, counts, C, U, K, A, D
<1>14. CASE SpawnTasks
  BY <1>1, <1>3, <1>4, <1>5, <1>6, <1>14, MuxFlowAssumption DEF SpawnTasks, ShapeInv, client, server, queues, counts, C, U, K, A, D
<1>15. CASE WriteTarget
  <2>1. Head(to_target) \in C
    BY <1>2, <1>15 DEF WriteTarget
  <2>2. to_target' \in Seq(C) /\ Len(to_target') <= QueueCap
    <3>1. to_target # <<>> /\ to_target' = Tail(to_target)
      BY <1>15 DEF WriteTarget
    <3> QED  BY Zenon, <1>1, <2>1, <3>1, QueueKeepsCap DEF C
  <2>3. control' \in Seq(K)
    BY <1>3, <1>5, <2>1, <1>15 DEF WriteTarget
  <2>4. written' \in Nat
    <3>1. written \in Nat
      BY DEF ShapeInv
    <3> QED  BY <2>1, <3>1, <1>15 DEF WriteTarget, C
  <2> QED  BY <2>2, <2>3, <2>4, <1>15 DEF WriteTarget, ShapeInv, client, C, K
<1>16. CASE WriteFails
  <2>1. /\ entry' \in {entry, "out"} /\ relay' \in {relay, "ended"} /\ writer' \in {writer, "ended"}
        /\ to_target' \in {to_target, <<>>}
    BY <1>16 DEF WriteFails, RemoveFlow
  <2>2. to_target' \in Seq(C) /\ Len(to_target') <= QueueCap
    BY Zenon, <1>1, <1>6, <2>1
  <2>3. control' \in Seq(K)
    BY Zenon, <1>1, <1>3, <1>5, <1>16 DEF WriteFails, RemoveFlow
  <2> QED  BY <2>1, <2>2, <2>3, <1>16 DEF WriteFails, RemoveFlow, ShapeInv, client, counts, C, K
<1>17. CASE \E n \in C : ReadTarget(n)
  <2>1. PICK n \in C : ReadTarget(n)
    BY <1>17
  <2>2. data' \in Seq(A)
    BY <1>3, <1>5, <2>1 DEF ReadTarget
  <2>3. granted' \in Nat /\ received' \in Nat
    <3>1. granted \in Nat /\ received \in Nat
      BY DEF ShapeInv
    <3> QED  BY <2>1, <3>1 DEF ReadTarget, C
  <2> QED  BY <2>1, <2>2, <2>3 DEF ReadTarget, ShapeInv, client, A
<1>18. CASE RelayCloses
  <2>1. /\ entry' \in {entry, "out"} /\ relay' \in {relay, "ended"} /\ writer' \in {writer, "ended"}
        /\ to_target' \in {to_target, <<>>}
    BY <1>18 DEF RelayCloses
  <2>2. to_target' \in Seq(C) /\ Len(to_target') <= QueueCap
    BY Zenon, <1>1, <1>6, <2>1
  <2>3. control' \in Seq(K)
    BY <1>1, <1>3, <1>5, <1>18 DEF RelayCloses
  <2> QED  BY <2>1, <2>2, <2>3, <1>18 DEF RelayCloses, ShapeInv, client, counts, C, K
<1>19. CASE SendControl
  BY <1>1, <1>3, <1>4, <1>5, <1>6, <1>19, MuxFlowAssumption DEF SendControl, ShapeInv, client, server, queues, counts, C, U, K, A, D
<1>20. CASE SendData
  BY <1>1, <1>3, <1>4, <1>5, <1>6, <1>20, MuxFlowAssumption DEF SendData, ShapeInv, client, server, queues, counts, C, U, K, A, D
<1> QED  BY <1>8, <1>9, <1>10, <1>11, <1>12, <1>13, <1>14, <1>15, <1>16, <1>17, <1>18, <1>19, <1>20 DEF Server, Receiver, TargetEnds, StallDown, C
-----------------------------------------------------------------------------
(* OrderInv and TaskInv. *)

(* Putting a frame other than CreateFlow behind those on the way, handling the
   first one, and a step that leaves them alone keep CreateFlow first. *)
LEMMA OrderKept ==
    ASSUME ShapeInv, OrderInv, create' = create \/ (create # "none" /\ create' # "none"),
           conn' = conn \/ (conn # "new" /\ conn' # "new"),
           \/ up' = up
           \/ conn # "new" /\ \E m \in Msgs : m.type # "Create" /\ up' = Append(up, m)
           \/ up # <<>> /\ create # "none" /\ up' = Tail(up)
    PROVE  OrderInv'
<1>1. up \in Seq(Msgs) /\ Len(up) \in Nat
  BY Counted, LenProperties
<1>2. CASE up' = up
  BY <1>2 DEF OrderInv
<1>3. CASE conn # "new" /\ \E m \in Msgs : m.type # "Create" /\ up' = Append(up, m)
  <2>1. PICK m \in Msgs : m.type # "Create" /\ up' = Append(up, m)
    BY <1>3
  <2>2. /\ up' # <<>> /\ Len(up') = Len(up) + 1 /\ up'[Len(up) + 1] = m
        /\ \A i \in 1..Len(up) : up'[i] = up[i]
    BY <1>1, <2>1, AppendProperties
  <2>3. up # <<>> => Len(up) >= 1
    BY <1>1, EmptySeq
  <2>4. ASSUME NEW i \in 1..Len(up'), up'[i].type = "Create"
        PROVE  i = 1 /\ create' = "none"
    <3>1. i # Len(up) + 1
      BY <2>1, <2>2, <2>4
    <3>2. i \in 1..Len(up)
      BY <1>1, <2>2, <3>1
    <3> QED  BY <2>2, <2>4, <3>2 DEF OrderInv
  <2>5. create' = "none" => up'[1].type = "Create"
    BY <1>1, <1>3, <2>2, <2>3 DEF OrderInv
  <2> QED  BY <1>3, <2>2, <2>4, <2>5 DEF OrderInv
<1>4. CASE up # <<>> /\ create # "none" /\ up' = Tail(up)
  <2>1. /\ Len(up') = Len(up) - 1 /\ \A i \in 1..Len(up') : up'[i] = up[i + 1]
    BY <1>1, <1>4, HeadTailProperties
  <2>2. ASSUME NEW i \in 1..Len(up'), up'[i].type = "Create"
        PROVE  FALSE
    <3>1. i + 1 \in 1..Len(up) /\ up[i + 1].type = "Create"
      BY <1>1, <2>1, <2>2
    <3> QED  BY <1>4, <3>1 DEF OrderInv
  <2> QED  BY <1>4, <2>2 DEF OrderInv
<1> QED  BY <1>2, <1>3, <1>4

(* The first frame the server has not handled: CreateFlow until it has been
   handled, and never again. *)
LEMMA CreateFirst ==
    ASSUME ShapeInv, OrderInv, up # <<>>
    PROVE  Head(up).type = "Create" <=> create = "none"
<1>1. up \in Seq(Msgs) /\ Len(up) \in Nat /\ Len(up) >= 1 /\ Head(up) = up[1]
  BY Counted, LenProperties, EmptySeq, HeadTailProperties
<1> QED  BY <1>1 DEF OrderInv

(* Every step keeps CreateFlow the first frame (open_flow sends it before it
   stores the flow's state). *)
LEMMA OrderStep ==
    ASSUME ShapeInv, OrderInv, TaskInv, Next
    PROVE  OrderInv'
<1>1. /\ \A n \in 1..MaxFrame : Msg("Data", n) \in Msgs /\ Msg("Credit", n) \in Msgs
      /\ Msg("Create", 0) \in Msgs /\ Msg("Close", 0) \in Msgs
  BY MuxFlowAssumption DEF Msg, Msgs
<1>2. SendCreate => OrderInv'
  <2> SUFFICES ASSUME SendCreate PROVE OrderInv'
    OBVIOUS
  <2>1. up = <<>> /\ create' = "none" /\ conn' = "created" /\ up' = Append(up, Msg("Create", 0))
    BY DEF SendCreate, OrderInv, server
  <2>2. up' = <<Msg("Create", 0)>>
    BY <2>1
  <2>3. up' # <<>> /\ Len(up') = 1 /\ up'[1].type = "Create"
    BY <2>2 DEF Msg
  <2> QED  BY <2>1, <2>3 DEF OrderInv
<1>3. InsertState => OrderInv'
  BY OrderKept DEF InsertState, server
<1>4. (\E n \in 1..MaxFrame : ReadApp(n)) => OrderInv'
  BY OrderKept DEF ReadApp, server
<1>5. Push => OrderInv'
  BY OrderKept DEF Push, server
<1>6. ChannelEnds => OrderInv'
  BY OrderKept DEF ChannelEnds, server
<1>7. AppCloses => OrderInv'
  BY OrderKept DEF AppCloses, server
<1>8. Park => OrderInv'
  BY OrderKept DEF Park, server
<1>9. Unpark => OrderInv'
  BY OrderKept DEF Unpark, server
<1>10. LoopEnds => OrderInv'
  BY OrderKept DEF LoopEnds, server
<1>11. ReceiveCreated => OrderInv'
  BY OrderKept DEF ReceiveCreated, Receive, server
<1>12. ReceiveClose => OrderInv'
  BY OrderKept DEF ReceiveClose, Receive, server
<1>13. ReceiveCredit => OrderInv'
  BY OrderKept DEF ReceiveCredit, Receive, server
<1>14. WriteApp => OrderInv'
  <2> SUFFICES ASSUME WriteApp PROVE OrderInv'
    OBVIOUS
  <2>1. Head(to_local) \in 1..MaxFrame
    BY ChunkQueue DEF WriteApp, ShapeInv
  <2> QED  BY Zenon, <1>1, <2>1, OrderKept DEF WriteApp, server, Msg
<1>15. DropFlow => OrderInv'
  BY <1>1, OrderKept DEF DropFlow, server, Msg
<1>16. SendChunk => OrderInv'
  <2> SUFFICES ASSUME SendChunk PROVE OrderInv'
    OBVIOUS
  <2> DEFINE k == Smaller(Chunk, credits)
  <2>1. k \in 1..MaxFrame
    <3>1. to_ws # <<>> => Head(to_ws) \in 1..MaxFrame
      BY ChunkQueue DEF ShapeInv
    <3>2. Chunk \in 1..MaxFrame
      BY <3>1 DEF SendChunk, HasChunk, Chunk, ShapeInv
    <3>3. credits \in Nat /\ credits > 0
      BY DEF SendChunk, ShapeInv
    <3> QED  BY <3>2, <3>3, MuxFlowAssumption DEF Smaller
  <2>2. conn # "new" /\ conn' = conn /\ create' = create /\ up' = Append(up, Msg("Data", k))
    BY DEF SendChunk, TaskInv, server
  <2> QED  BY Zenon, <1>1, <2>1, <2>2, OrderKept DEF Msg
<1>17. StallUp => OrderInv'
  BY <1>1, OrderKept DEF StallUp, TaskInv, server, Msg
<1>18. ReceiveData => OrderInv'
  BY <1>1, OrderKept DEF ReceiveData, Receive, TaskInv, server, Msg
<1>19. DispatchCreate => OrderInv'
  <2> SUFFICES ASSUME DispatchCreate PROVE OrderInv'
    OBVIOUS
  <2>1. /\ up # <<>> /\ up' = Tail(up) /\ conn' = conn /\ create' = "connecting"
        /\ up \in Seq(Msgs) /\ Len(up) \in Nat
    BY Counted, LenProperties DEF DispatchCreate, Dispatch, client
  <2>2. conn # "new"
    BY <2>1 DEF OrderInv
  <2>3. ASSUME NEW i \in 1..Len(up'), up'[i].type = "Create" PROVE FALSE
    <3>1. Len(up') = Len(up) - 1 /\ \A j \in 1..Len(up') : up'[j] = up[j + 1]
      BY <2>1, HeadTailProperties
    <3>2. i + 1 \in 1..Len(up) /\ up[i + 1].type = "Create" /\ i + 1 # 1
      BY <2>1, <2>3, <3>1
    <3> QED  BY <3>2 DEF OrderInv
  <2> QED  BY <2>1, <2>2, <2>3 DEF OrderInv
<1>20. DispatchClose => OrderInv'
  BY CreateFirst, OrderKept DEF DispatchClose, Dispatch, client
<1>21. DispatchCredit => OrderInv'
  BY CreateFirst, OrderKept DEF DispatchCredit, Dispatch, client
<1>22. DispatchData => OrderInv'
  BY CreateFirst, OrderKept DEF DispatchData, Dispatch, client
<1>23. StoreFlow => OrderInv'
  BY OrderKept DEF StoreFlow, client, server
<1>24. ConnectFails => OrderInv'
  BY OrderKept DEF ConnectFails, client, server
<1>25. SpawnTasks => OrderInv'
  BY OrderKept DEF SpawnTasks, client, server
<1>26. WriteTarget => OrderInv'
  BY OrderKept DEF WriteTarget, client, server
<1>27. WriteFails => OrderInv'
  BY OrderKept DEF WriteFails, client, server
<1>28. (\E n \in 1..MaxFrame : ReadTarget(n)) => OrderInv'
  <2> SUFFICES ASSUME NEW n \in 1..MaxFrame, ReadTarget(n) PROVE OrderInv'
    OBVIOUS
  <2> QED  BY OrderKept DEF ReadTarget, client, server
<1>29. RelayCloses => OrderInv'
  BY OrderKept DEF RelayCloses, client, server
<1>30. SendControl => OrderInv'
  BY OrderKept DEF SendControl, client, server
<1>31. SendData => OrderInv'
  BY OrderKept DEF SendData, client, server
<1>32. Client => OrderInv'
  BY <1>2, <1>3, <1>4, <1>5, <1>6, <1>7, <1>8, <1>9, <1>10,
     <1>11, <1>12, <1>13, <1>14, <1>15, <1>16, <1>17, <1>18 DEF Client
<1>33. Server => OrderInv'
  BY <1>19, <1>20, <1>21, <1>22, <1>23, <1>24, <1>25, <1>26, <1>27,
     <1>28, <1>29, <1>30, <1>31
  DEF Server, Receiver, TargetEnds, StallDown
<1> QED
  BY <1>32, <1>33 DEF Next

(* Every step keeps each end's state and tasks together. *)
LEMMA TaskStep ==
    ASSUME ShapeInv, OrderInv, TaskInv, Next
    PROVE  TaskInv'
<1>1. /\ flow \in {"none", "in", "out"} /\ entry \in {"none", "in", "out"}
      /\ create \in {"none", "connecting", "spawned", "done", "failed"}
      /\ relay \in {"none", "run", "ended"} /\ writer \in {"none", "run", "ended"}
  BY DEF ShapeInv
<1>2. SendCreate => TaskInv'
  BY <1>1 DEF SendCreate, TaskInv, client, server, queues, counts
<1>3. InsertState => TaskInv'
  BY <1>1 DEF InsertState, TaskInv, client, server, queues, counts
<1>4. (\E n \in 1..MaxFrame : ReadApp(n)) => TaskInv'
  BY <1>1 DEF ReadApp, TaskInv, client, server, queues, counts
<1>5. Push => TaskInv'
  BY <1>1 DEF Push, TaskInv, client, server, queues, counts
<1>6. WriteApp => TaskInv'
  BY <1>1 DEF WriteApp, TaskInv, client, server, queues, counts
<1>7. ChannelEnds => TaskInv'
  BY <1>1 DEF ChannelEnds, TaskInv, client, server, queues, counts
<1>8. AppCloses => TaskInv'
  BY <1>1 DEF AppCloses, TaskInv, client, server, queues, counts
<1>9. DropFlow => TaskInv'
  BY <1>1 DEF DropFlow, TaskInv, client, server, queues, counts
<1>10. SendChunk => TaskInv'
  BY <1>1 DEF SendChunk, TaskInv, client, server, queues, counts
<1>11. Park => TaskInv'
  BY <1>1 DEF Park, TaskInv, client, server, queues, counts
<1>12. Unpark => TaskInv'
  BY <1>1 DEF Unpark, TaskInv, client, server, queues, counts
<1>13. LoopEnds => TaskInv'
  BY <1>1 DEF LoopEnds, TaskInv, client, server, queues, counts
<1>14. StallUp => TaskInv'
  BY <1>1 DEF StallUp, TaskInv, client, server, queues, counts
<1>15. ReceiveCreated => TaskInv'
  BY <1>1 DEF ReceiveCreated, Receive, TaskInv, client, server, queues, counts
<1>16. ReceiveClose => TaskInv'
  BY <1>1 DEF ReceiveClose, Receive, CloseState, TaskInv, client, server, queues, counts
<1>17. ReceiveCredit => TaskInv'
  BY <1>1 DEF ReceiveCredit, Receive, TaskInv, client, server, queues, counts
<1>18. ReceiveData => TaskInv'
  BY <1>1 DEF ReceiveData, Receive, CloseState, TaskInv, client, server, queues, counts
<1>19. DispatchCreate => TaskInv'
  BY <1>1, CreateFirst DEF DispatchCreate, Dispatch, TaskInv, client, server, queues, counts
<1>20. DispatchClose => TaskInv'
  BY <1>1 DEF DispatchClose, Dispatch, RemoveFlow, TaskInv, client, server, queues, counts
<1>21. DispatchCredit => TaskInv'
  BY <1>1 DEF DispatchCredit, Dispatch, TaskInv, client, server, queues, counts
<1>22. DispatchData => TaskInv'
  BY <1>1 DEF DispatchData, Dispatch, RemoveFlow, TaskInv, client, server, queues, counts
<1>23. StoreFlow => TaskInv'
  BY <1>1 DEF StoreFlow, TaskInv, client, server, queues, counts
<1>24. ConnectFails => TaskInv'
  BY <1>1 DEF ConnectFails, TaskInv, client, server, queues, counts
<1>25. SpawnTasks => TaskInv'
  BY <1>1 DEF SpawnTasks, TaskInv, client, server, queues, counts
<1>26. WriteTarget => TaskInv'
  BY <1>1 DEF WriteTarget, TaskInv, client, server, queues, counts
<1>27. WriteFails => TaskInv'
  BY <1>1 DEF WriteFails, RemoveFlow, TaskInv, client, server, queues, counts
<1>28. (\E n \in 1..MaxFrame : ReadTarget(n)) => TaskInv'
  BY <1>1 DEF ReadTarget, TaskInv, client, server, queues, counts
<1>29. (relay = "run" /\ RelayCloses) => TaskInv'
  BY <1>1 DEF RelayCloses, TaskInv, client, server, queues, counts
<1>30. SendControl => TaskInv'
  BY <1>1 DEF SendControl, TaskInv, client, server, queues, counts
<1>31. SendData => TaskInv'
  BY <1>1 DEF SendData, TaskInv, client, server, queues, counts
<1>32. Client => TaskInv'
  BY <1>2, <1>3, <1>4, <1>5, <1>6, <1>7, <1>8, <1>9, <1>10,
     <1>11, <1>12, <1>13, <1>14, <1>15, <1>16, <1>17, <1>18 DEF Client
<1>33. Server => TaskInv'
  BY <1>19, <1>20, <1>21, <1>22, <1>23, <1>24, <1>25, <1>26, <1>27,
     <1>28, <1>29, <1>30, <1>31
  DEF Server, Receiver, TargetEnds, StallDown
<1> QED
  BY <1>32, <1>33 DEF Next

(* What is over stays over: a removed flow, a failed connect, an ended relay
   and a connection that is closing do not come back. *)
LEMMA OnceOver ==
    ASSUME ShapeInv, OrderInv, TaskInv, Next
    PROVE  /\ entry = "out" => entry' = "out"
           /\ flow = "out" => flow' = "out"
           /\ create = "failed" => create' = "failed"
           /\ relay = "ended" => relay' = "ended"
           /\ ~Alive => ~Alive'
<1> DEFINE Over == /\ entry = "out" => entry' = "out"
                   /\ flow = "out" => flow' = "out"
                   /\ create = "failed" => create' = "failed"
                   /\ relay = "ended" => relay' = "ended"
                   /\ ~Alive => ~Alive'
<1>1. SendCreate => Over
  BY DEF SendCreate, Alive, TaskInv, client, server, queues, counts
<1>2. InsertState => Over
  BY DEF InsertState, Alive, TaskInv, client, server, queues, counts
<1>3. (\E n \in 1..MaxFrame : ReadApp(n)) => Over
  BY DEF ReadApp, Alive, TaskInv, client, server, queues, counts
<1>4. Push => Over
  BY DEF Push, Alive, TaskInv, client, server, queues, counts
<1>5. WriteApp => Over
  BY DEF WriteApp, Alive, TaskInv, client, server, queues, counts
<1>6. ChannelEnds => Over
  BY DEF ChannelEnds, Alive, TaskInv, client, server, queues, counts
<1>7. AppCloses => Over
  BY DEF AppCloses, Alive, TaskInv, client, server, queues, counts
<1>8. DropFlow => Over
  BY DEF DropFlow, Alive, TaskInv, client, server, queues, counts
<1>9. SendChunk => Over
  BY DEF SendChunk, Alive, TaskInv, client, server, queues, counts
<1>10. Park => Over
  BY DEF Park, Alive, TaskInv, client, server, queues, counts
<1>11. Unpark => Over
  BY DEF Unpark, Alive, TaskInv, client, server, queues, counts
<1>12. LoopEnds => Over
  BY DEF LoopEnds, Alive, TaskInv, client, server, queues, counts
<1>13. StallUp => Over
  BY DEF StallUp, Alive, TaskInv, client, server, queues, counts
<1>14. ReceiveCreated => Over
  BY DEF ReceiveCreated, Receive, Alive, TaskInv, client, server, queues, counts
<1>15. ReceiveClose => Over
  BY DEF ReceiveClose, Receive, CloseState, Alive, TaskInv, client, server, queues, counts
<1>16. ReceiveCredit => Over
  BY DEF ReceiveCredit, Receive, Alive, TaskInv, client, server, queues, counts
<1>17. ReceiveData => Over
  BY DEF ReceiveData, Receive, CloseState, Alive, TaskInv, client, server, queues, counts
<1>18. DispatchCreate => Over
  BY CreateFirst DEF DispatchCreate, Dispatch, Alive, TaskInv, client, server, queues, counts
<1>19. DispatchClose => Over
  BY DEF DispatchClose, Dispatch, RemoveFlow, Alive, TaskInv, client, server, queues, counts
<1>20. DispatchCredit => Over
  BY DEF DispatchCredit, Dispatch, Alive, TaskInv, client, server, queues, counts
<1>21. DispatchData => Over
  BY DEF DispatchData, Dispatch, RemoveFlow, Alive, TaskInv, client, server, queues, counts
<1>22. StoreFlow => Over
  BY DEF StoreFlow, Alive, TaskInv, client, server, queues, counts
<1>23. ConnectFails => Over
  BY DEF ConnectFails, Alive, TaskInv, client, server, queues, counts
<1>24. SpawnTasks => Over
  BY DEF SpawnTasks, Alive, TaskInv, client, server, queues, counts
<1>25. WriteTarget => Over
  BY DEF WriteTarget, Alive, TaskInv, client, server, queues, counts
<1>26. WriteFails => Over
  BY DEF WriteFails, RemoveFlow, Alive, TaskInv, client, server, queues, counts
<1>27. (\E n \in 1..MaxFrame : ReadTarget(n)) => Over
  BY DEF ReadTarget, Alive, TaskInv, client, server, queues, counts
<1>28. (relay = "run" /\ RelayCloses) => Over
  BY DEF RelayCloses, Alive, TaskInv, client, server, queues, counts
<1>29. SendControl => Over
  BY DEF SendControl, Alive, TaskInv, client, server, queues, counts
<1>30. SendData => Over
  BY DEF SendData, Alive, TaskInv, client, server, queues, counts
<1> HIDE DEF Over
<1>31. Client => Over
  BY <1>1, <1>2, <1>3, <1>4, <1>5, <1>6, <1>7, <1>8, <1>9,
     <1>10, <1>11, <1>12, <1>13, <1>14, <1>15, <1>16, <1>17 DEF Client
<1>32. Server => Over
  BY <1>18, <1>19, <1>20, <1>21, <1>22, <1>23, <1>24, <1>25, <1>26,
     <1>27, <1>28, <1>29, <1>30
  DEF Server, Receiver, TargetEnds, StallDown
<1> QED
  BY <1>31, <1>32 DEF Next, Over
-----------------------------------------------------------------------------
(* The sums. *)

(* The first frame of a queue, and what the queue holds without it. *)
LEMMA FirstFrame ==
    ASSUME NEW types, NEW q \in Seq(MsgsOf(types)), q # <<>>
    PROVE  /\ Head(q) \in MsgsOf(types) /\ Head(q).type \in types /\ Head(q).n \in Nat
           /\ Head(q).type \in {"Data", "Credit"} => Head(q).n >= 1
           /\ BytesOf("Data", Tail(q)) \in Nat /\ BytesOf("Credit", Tail(q)) \in Nat
           /\ Head(q).type = "Data" => BytesOf("Data", q) = Head(q).n + BytesOf("Data", Tail(q))
           /\ Head(q).type # "Data" => BytesOf("Data", q) = BytesOf("Data", Tail(q))
           /\ Head(q).type = "Credit" => BytesOf("Credit", q) = Head(q).n + BytesOf("Credit", Tail(q))
           /\ Head(q).type # "Credit" => BytesOf("Credit", q) = BytesOf("Credit", Tail(q))
<1>1. Head(q) \in MsgsOf(types) /\ Tail(q) \in Seq(MsgsOf(types))
  BY FrameQueue
<1>2. MsgsOf(types) \subseteq Msgs
  BY DEF MsgsOf
<1>3. q \in Seq(Msgs) /\ Tail(q) \in Seq(Msgs)
  BY <1>1, <1>2, SeqMonotonic, Zenon
<1>4. /\ Head(q).type \in types /\ Head(q).n \in Nat
      /\ Head(q).type \in {"Data", "Credit"} => Head(q).n >= 1
  BY <1>1, MuxFlowAssumption DEF MsgsOf, Msgs
<1>5. BytesOf("Data", Tail(q)) \in Nat /\ BytesOf("Credit", Tail(q)) \in Nat
  BY Zenon, <1>3, BytesType
<1>6. /\ Head(q).type = "Data" => BytesOf("Data", q) = Head(q).n + BytesOf("Data", Tail(q))
      /\ Head(q).type # "Data" => BytesOf("Data", q) = BytesOf("Data", Tail(q))
  BY <1>3, BytesTail
<1>7. /\ Head(q).type = "Credit" => BytesOf("Credit", q) = Head(q).n + BytesOf("Credit", Tail(q))
      /\ Head(q).type # "Credit" => BytesOf("Credit", q) = BytesOf("Credit", Tail(q))
  BY <1>3, BytesTail
<1> QED  BY Zenon, <1>1, <1>4, <1>5, <1>6, <1>7

(* The first chunk of a queue, and what the queue holds without it. *)
LEMMA FirstChunk ==
    ASSUME NEW q \in Seq(1..MaxFrame), q # <<>>
    PROVE  /\ Head(q) \in 1..MaxFrame /\ Total(Tail(q)) \in Nat
           /\ Total(q) = Head(q) + Total(Tail(q))
<1>1. 1..MaxFrame \subseteq Nat /\ Tail(q) \in Seq(1..MaxFrame) /\ Head(q) \in 1..MaxFrame
  BY ChunkQueue, MuxFlowAssumption
<1>2. q \in Seq(Nat) /\ Tail(q) \in Seq(Nat)
  BY <1>1, SeqMonotonic, Zenon
<1> QED  BY Zenon, <1>1, <1>2, TotalType, TotalTail

(* A chunk put at the end of a queue. *)
LEMMA LastChunk ==
    ASSUME NEW q \in Seq(1..MaxFrame), NEW x \in 1..MaxFrame
    PROVE  Total(Append(q, x)) = Total(q) + x /\ Total(q) \in Nat
<1>1. 1..MaxFrame \subseteq Nat
  BY MuxFlowAssumption
<1>2. q \in Seq(Nat) /\ x \in Nat
  BY <1>1, SeqMonotonic, Zenon
<1> QED  BY <1>2, TotalType, TotalAppend

(* The first frame of each queue, with what ShapeInv says of its type. *)
LEMMA Heads ==
    ASSUME ShapeInv
    PROVE  /\ up # <<>> => /\ Head(up).n \in Nat
                           /\ Head(up).type \in {"Data", "Credit"} => Head(up).n >= 1
                           /\ BytesOf("Data", Tail(up)) \in Nat /\ BytesOf("Credit", Tail(up)) \in Nat
                           /\ Head(up).type = "Data"
                                => BytesOf("Data", up) = Head(up).n + BytesOf("Data", Tail(up))
                           /\ Head(up).type # "Data" => BytesOf("Data", up) = BytesOf("Data", Tail(up))
                           /\ Head(up).type = "Credit"
                                => BytesOf("Credit", up) = Head(up).n + BytesOf("Credit", Tail(up))
                           /\ Head(up).type # "Credit" => BytesOf("Credit", up) = BytesOf("Credit", Tail(up))
           /\ down # <<>> => /\ Head(down).n \in Nat
                             /\ Head(down).type \in {"Data", "Credit"} => Head(down).n >= 1
                             /\ BytesOf("Data", Tail(down)) \in Nat /\ BytesOf("Credit", Tail(down)) \in Nat
                             /\ Head(down).type = "Data"
                                  => BytesOf("Data", down) = Head(down).n + BytesOf("Data", Tail(down))
                             /\ Head(down).type # "Data" => BytesOf("Data", down) = BytesOf("Data", Tail(down))
                             /\ Head(down).type = "Credit"
                                  => BytesOf("Credit", down) = Head(down).n + BytesOf("Credit", Tail(down))
                             /\ Head(down).type # "Credit" => BytesOf("Credit", down) = BytesOf("Credit", Tail(down))
<1>1. /\ up \in Seq(MsgsOf({"Create", "Data", "Credit", "Close"}))
      /\ down \in Seq(MsgsOf({"Created", "Data", "Credit", "Close"}))
  BY DEF ShapeInv
<1> QED  BY <1>1, FirstFrame

(* run_ws_sender moves a frame from a channel to the wire: the wire holds what
   the channel did, and no data comes from the control channel, no grant from
   the data channel. *)
LEMMA Moved ==
    ASSUME ShapeInv
    PROVE  /\ SendControl => /\ BytesOf("Credit", control') + BytesOf("Credit", down')
                                   = BytesOf("Credit", control) + BytesOf("Credit", down)
                             /\ BytesOf("Credit", control') \in Nat /\ BytesOf("Credit", down') \in Nat
                             /\ BytesOf("Data", down') = BytesOf("Data", down)
           /\ SendData => /\ BytesOf("Data", data') + BytesOf("Data", down')
                                = BytesOf("Data", data) + BytesOf("Data", down)
                          /\ BytesOf("Data", data') \in Nat /\ BytesOf("Data", down') \in Nat
                          /\ BytesOf("Credit", down') = BytesOf("Credit", down)
<1>1. /\ control \in Seq(MsgsOf({"Created", "Credit", "Close"})) /\ data \in Seq(MsgsOf({"Data"}))
      /\ down \in Seq(Msgs) /\ BytesOf("Data", down) \in Nat /\ BytesOf("Credit", down) \in Nat
  BY Counted DEF ShapeInv
<1>2. \A types : MsgsOf(types) \subseteq Msgs
  BY DEF MsgsOf
<1>3. ASSUME SendControl
      PROVE  /\ BytesOf("Credit", control') + BytesOf("Credit", down')
                    = BytesOf("Credit", control) + BytesOf("Credit", down)
             /\ BytesOf("Credit", control') \in Nat /\ BytesOf("Credit", down') \in Nat
             /\ BytesOf("Data", down') = BytesOf("Data", down)
  <2>1. control # <<>> /\ control' = Tail(control) /\ down' = Append(down, Head(control))
    BY <1>3 DEF SendControl
  <2>2. /\ Head(control) \in Msgs /\ Head(control).type # "Data" /\ Head(control).n \in Nat
        /\ BytesOf("Credit", control') \in Nat
        /\ Head(control).type = "Credit" => BytesOf("Credit", control) = Head(control).n + BytesOf("Credit", control')
        /\ Head(control).type # "Credit" => BytesOf("Credit", control) = BytesOf("Credit", control')
    <3>1. /\ Head(control) \in MsgsOf({"Created", "Credit", "Close"})
          /\ Head(control).type \in {"Created", "Credit", "Close"} /\ Head(control).n \in Nat
          /\ BytesOf("Credit", Tail(control)) \in Nat
          /\ Head(control).type = "Credit" => BytesOf("Credit", control) = Head(control).n + BytesOf("Credit", Tail(control))
          /\ Head(control).type # "Credit" => BytesOf("Credit", control) = BytesOf("Credit", Tail(control))
      BY <1>1, <2>1, FirstFrame
    <3> QED  BY <1>2, <2>1, <3>1
  <2>3. /\ Head(control).type = "Credit" => BytesOf("Credit", down') = BytesOf("Credit", down) + Head(control).n
        /\ Head(control).type # "Credit" => BytesOf("Credit", down') = BytesOf("Credit", down)
        /\ Head(control).type = "Data" => BytesOf("Data", down') = BytesOf("Data", down) + Head(control).n
        /\ Head(control).type # "Data" => BytesOf("Data", down') = BytesOf("Data", down)
    BY <1>1, <2>1, <2>2, BytesAppend
  <2> QED  BY <1>1, <2>2, <2>3
<1>4. ASSUME SendData
      PROVE  /\ BytesOf("Data", data') + BytesOf("Data", down')
                    = BytesOf("Data", data) + BytesOf("Data", down)
             /\ BytesOf("Data", data') \in Nat /\ BytesOf("Data", down') \in Nat
             /\ BytesOf("Credit", down') = BytesOf("Credit", down)
  <2>1. data # <<>> /\ data' = Tail(data) /\ down' = Append(down, Head(data))
    BY <1>4 DEF SendData
  <2>2. /\ Head(data) \in Msgs /\ Head(data).type = "Data" /\ Head(data).n \in Nat
        /\ BytesOf("Data", data') \in Nat
        /\ Head(data).type = "Data" => BytesOf("Data", data) = Head(data).n + BytesOf("Data", data')
        /\ Head(data).type # "Data" => BytesOf("Data", data) = BytesOf("Data", data')
    <3>1. /\ Head(data) \in MsgsOf({"Data"})
          /\ Head(data).type \in {"Data"} /\ Head(data).n \in Nat
          /\ BytesOf("Data", Tail(data)) \in Nat
          /\ Head(data).type = "Data" => BytesOf("Data", data) = Head(data).n + BytesOf("Data", Tail(data))
          /\ Head(data).type # "Data" => BytesOf("Data", data) = BytesOf("Data", Tail(data))
      BY <1>1, <2>1, FirstFrame
    <3> QED  BY <1>2, <2>1, <3>1
  <2>3. /\ Head(data).type = "Data" => BytesOf("Data", down') = BytesOf("Data", down) + Head(data).n
        /\ Head(data).type # "Data" => BytesOf("Data", down') = BytesOf("Data", down)
        /\ Head(data).type = "Credit" => BytesOf("Credit", down') = BytesOf("Credit", down) + Head(data).n
        /\ Head(data).type # "Credit" => BytesOf("Credit", down') = BytesOf("Credit", down)
    BY <1>1, <2>1, <2>2, BytesAppend
  <2> QED  BY <1>1, <2>2, <2>3
<1> QED  BY <1>3, <1>4

(* The chunk flow_to_ws_loop sends, and what it leaves behind. *)
LEMMA ChunkSent ==
    ASSUME ShapeInv, SendChunk
    PROVE  \E n \in 1..MaxFrame :
              /\ n <= credits /\ credits' = credits - n
              /\ up' = Append(up, Msg("Data", n))
              /\ rest' \in Nat /\ Total(to_ws') \in Nat
              /\ n + rest' + Total(to_ws') = rest + Total(to_ws)
<1> DEFINE n == Smaller(Chunk, credits)
<1>1. /\ credits \in Nat /\ credits > 0 /\ rest \in 0..MaxFrame /\ Total(to_ws) \in Nat
      /\ to_ws # <<>> => /\ Head(to_ws) \in 1..MaxFrame /\ Total(Tail(to_ws)) \in Nat
                         /\ Total(to_ws) = Head(to_ws) + Total(Tail(to_ws))
  BY Counted, FirstChunk DEF ShapeInv, SendChunk
<1>2. Chunk \in 1..MaxFrame
  BY <1>1 DEF SendChunk, HasChunk, Chunk
<1>3. n \in 1..MaxFrame /\ n <= Chunk /\ n <= credits
  BY <1>1, <1>2, MuxFlowAssumption DEF Smaller
<1>4. Total(to_ws') \in Nat /\ Chunk + Total(to_ws') = rest + Total(to_ws)
  <2>1. CASE rest > 0
    BY <1>1, <2>1 DEF SendChunk, TakeChunk, Chunk
  <2>2. CASE ~(rest > 0)
    BY <1>1, <2>2 DEF SendChunk, TakeChunk, HasChunk, Chunk
  <2> QED  BY <2>1, <2>2
<1>5. rest' = Chunk - n /\ credits' = credits - n /\ up' = Append(up, Msg("Data", n))
  BY DEF SendChunk
<1> HIDE DEF n
<1>6. rest' \in Nat /\ n + rest' = Chunk
  BY <1>2, <1>3, <1>5
<1>7. n + rest' + Total(to_ws') = rest + Total(to_ws)
  BY <1>4, <1>6
<1> QED  BY <1>3, <1>4, <1>5, <1>6, <1>7
=============================================================================

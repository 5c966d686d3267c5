-------------------------- MODULE MuxStreamProofs --------------------------
(***************************************************************************)
(* Proofs about MuxStream, for every window, threshold and payload size,   *)
(* every length of the link's queues and every scenario.                   *)
(*                                                                         *)
(* Flow is the invariant of flow control and of opening and closing; the   *)
(* types, WindowConserved and ControlShare follow from it. Exact, on top   *)
(* of it, accounts for every byte of a direction and for FIN; EOFExact     *)
(* follows from it. Each action is first reduced to what it does to each   *)
(* side (the Effect lemmas), then shown to keep each part.                 *)
(***************************************************************************)
EXTENDS MuxStream, SequenceTheorems, WellFoundedInduction, TLAPS

-----------------------------------------------------------------------------
(* Sums over sequences. Total is a recursive function: its partial sums    *)
(* exist and are what they should be by induction over their index, in the *)
(* form of sets that are closed under the successor.                       *)

\* g holds the partial sums of f.
Sums(f, g) == g = [k \in 0..Len(f) |-> IF k = 0 THEN 0 ELSE g[k - 1] + f[k]]

Less == {p \in Nat \X Nat : p[1] < p[2]}

LEMMA LessWF == IsWellFoundedOn(Less, Nat)
BY NatLessThanWellFounded DEF OpToRel, Less

LEMMA SetInduction ==
  ASSUME NEW T, 0 \in T, \A n \in Nat : n \in T => n + 1 \in T
  PROVE  Nat \subseteq T
<1>1. SUFFICES ASSUME NEW m \in Nat, m \notin T PROVE FALSE
  OBVIOUS
<1> DEFINE S == Nat \ T
<1>3. S \subseteq Nat /\ S # {}
  BY <1>1
<1> HIDE DEF S
<1>4. PICK x \in S : \A y \in S : ~ (<<y, x>> \in Less)
  BY LessWF, <1>3, WFMin
<1>5. x \in Nat /\ x # 0 /\ x - 1 \in Nat
  BY <1>3, <1>4 DEF S
<1>6. x - 1 \in S
  BY <1>4, <1>5 DEF S
<1>7. <<x - 1, x>> \in Less
  BY <1>5 DEF Less
<1> QED BY <1>4, <1>6, <1>7

LEMMA SumsExist == ASSUME NEW f \in Seq(Nat) PROVE \E g : Sums(f, g)
<1> DEFINE Up(n) == \E g : g = [k \in 0..n |-> IF k = 0 THEN 0 ELSE g[k - 1] + f[k]]
           T == {n \in Nat : Up(n)}
<1>1. 0 \in T
  <2> DEFINE g == [k \in 0..0 |-> 0]
  <2>1. g = [k \in 0..0 |-> IF k = 0 THEN 0 ELSE g[k - 1] + f[k]]
    OBVIOUS
  <2> QED BY <2>1
<1>2. ASSUME NEW n \in Nat, n \in T PROVE n + 1 \in T
  <2>1. PICK g : g = [k \in 0..n |-> IF k = 0 THEN 0 ELSE g[k - 1] + f[k]]
    BY <1>2
  <2> DEFINE h == [k \in 0..(n + 1) |-> IF k = n + 1 THEN g[n] + f[n + 1] ELSE g[k]]
  <2>2. h = [k \in 0..(n + 1) |-> IF k = 0 THEN 0 ELSE h[k - 1] + f[k]]
    <3>1. ASSUME NEW k \in 0..(n + 1) PROVE h[k] = IF k = 0 THEN 0 ELSE h[k - 1] + f[k]
      <4>1. CASE k = n + 1
        BY <4>1
      <4>2. CASE k # n + 1
        <5>1. k \in 0..n /\ g[k] = IF k = 0 THEN 0 ELSE g[k - 1] + f[k]
          BY <2>1, <4>2
        <5> QED BY <4>2, <5>1
      <4> QED BY <4>1, <4>2
    <3> HIDE DEF h
    <3>2. h = [k \in 0..(n + 1) |-> h[k]]
      BY DEF h
    <3> QED BY <3>1, <3>2
  <2> HIDE DEF h
  <2>3. Up(n + 1)
    BY <2>2
  <2> HIDE DEF Up
  <2> QED BY <2>3
<1>3. Len(f) \in T
  <2> HIDE DEF T
  <2> QED BY <1>1, <1>2, SetInduction, SMTT(30)
<1> QED BY <1>3 DEF Sums

LEMMA TotalSums == ASSUME NEW f \in Seq(Nat) PROVE \E g : Sums(f, g) /\ Total(f) = g[Len(f)]
<1> DEFINE G == CHOOSE g : g = [k \in 0..Len(f) |-> IF k = 0 THEN 0 ELSE g[k - 1] + f[k]]
<1>1. Sums(f, G)
  BY SumsExist DEF Sums
<1>2. Total(f) = G[Len(f)]
  BY DEF Total
<1> QED BY <1>1, <1>2

LEMMA SumsNat ==
    ASSUME NEW f \in Seq(Nat), NEW g, Sums(f, g)
    PROVE  \A k \in 0..Len(f) : g[k] \in Nat
<1> DEFINE T == {k \in Nat : k <= Len(f) => g[k] \in Nat}
<1>1. 0 \in T
  BY DEF Sums
<1>2. ASSUME NEW k \in Nat, k \in T PROVE k + 1 \in T
  <2> SUFFICES ASSUME k + 1 <= Len(f) PROVE g[k + 1] \in Nat
    OBVIOUS
  <2>1. g[k + 1] = g[k] + f[k + 1] /\ f[k + 1] \in Nat
    BY DEF Sums
  <2> QED BY <1>2, <2>1
<1>3. Nat \subseteq T
  <2> HIDE DEF T
  <2> QED BY <1>1, <1>2, SetInduction
<1> QED BY <1>3

\* Two sequences whose partial sums run in step.
LEMMA SumsPrefix ==
    ASSUME NEW f \in Seq(Nat), NEW g, Sums(f, g),
           NEW e \in Seq(Nat), NEW h, Sums(e, h),
           Len(f) <= Len(e), \A k \in 1..Len(f) : e[k] = f[k]
    PROVE  \A k \in 0..Len(f) : h[k] = g[k]
<1> DEFINE T == {k \in Nat : k <= Len(f) => h[k] = g[k]}
<1>1. 0 \in T
  BY DEF Sums
<1>2. ASSUME NEW k \in Nat, k \in T PROVE k + 1 \in T
  <2> SUFFICES ASSUME k + 1 <= Len(f) PROVE h[k + 1] = g[k + 1]
    OBVIOUS
  <2>1. g[k + 1] = g[k] + f[k + 1] /\ h[k + 1] = h[k] + e[k + 1]
    BY SMTT(30) DEF Sums
  <2> QED BY <1>2, <2>1
<1>3. Nat \subseteq T
  <2> HIDE DEF T
  <2> QED BY <1>1, <1>2, SetInduction
<1> QED BY <1>3

LEMMA SumsTail ==
    ASSUME NEW f \in Seq(Nat), f # <<>>, NEW g, Sums(f, g), NEW h, Sums(Tail(f), h)
    PROVE  \A k \in 0..Len(Tail(f)) : g[k + 1] = f[1] + h[k]
<1> DEFINE T == {k \in Nat : k <= Len(Tail(f)) => g[k + 1] = f[1] + h[k]}
<1>0. Tail(f) \in Seq(Nat) /\ Len(Tail(f)) = Len(f) - 1 /\ Len(f) > 0
  OBVIOUS
<1>1. 0 \in T
  <2>1. h[0] = 0 /\ g[0] = 0 /\ g[1] = g[0] + f[1]
    BY <1>0 DEF Sums
  <2> QED BY <1>0, <2>1
<1>2. ASSUME NEW k \in Nat, k \in T PROVE k + 1 \in T
  <2> SUFFICES ASSUME k + 1 <= Len(Tail(f)) PROVE g[k + 2] = f[1] + h[k + 1]
    OBVIOUS
  <2>1. g[k + 2] = g[k + 1] + f[k + 2]
    <3>1. k + 2 \in 0..Len(f) /\ k + 2 # 0 /\ (k + 2) - 1 = k + 1
      BY <1>0
    <3> QED BY <3>1 DEF Sums
  <2>2. h[k + 1] = h[k] + Tail(f)[k + 1] /\ Tail(f)[k + 1] = f[k + 2]
    BY <1>0 DEF Sums
  <2>3. h[k] \in Nat /\ f[1] \in Nat /\ f[k + 2] \in Nat
    <3>1. k \in 0..Len(Tail(f)) /\ 1 \in 1..Len(f) /\ k + 2 \in 1..Len(f)
      BY <1>0
    <3>2. f[1] \in Nat /\ f[k + 2] \in Nat
      BY <3>1
    <3>3. \A j \in 0..Len(Tail(f)) : h[j] \in Nat
      BY <1>0, SumsNat
    <3> QED BY <3>1, <3>2, <3>3
  <2> QED BY <1>2, <2>1, <2>2, <2>3
<1>3. Nat \subseteq T
  <2> HIDE DEF T
  <2> QED BY <1>1, <1>2, SetInduction
<1> QED BY <1>3

LEMMA TotalNat == ASSUME NEW f \in Seq(Nat) PROVE Total(f) \in Nat
BY TotalSums, SumsNat

LEMMA TotalEmpty == Total(<<>>) = 0
<1>1. <<>> \in Seq(Nat) /\ Len(<<>>) = 0
  OBVIOUS
<1>2. PICK g : Sums(<<>>, g) /\ Total(<<>>) = g[0]
  BY <1>1, TotalSums
<1> QED BY <1>1, <1>2 DEF Sums

LEMMA TotalAppend ==
    ASSUME NEW f \in Seq(Nat), NEW n \in Nat
    PROVE  Total(Append(f, n)) = Total(f) + n
<1> DEFINE e == Append(f, n)
<1>1. e \in Seq(Nat) /\ Len(e) = Len(f) + 1 /\ e[Len(f) + 1] = n /\ \A k \in 1..Len(f) : e[k] = f[k]
  OBVIOUS
<1> HIDE DEF e
<1>2. PICK g : Sums(f, g) /\ Total(f) = g[Len(f)]
  BY TotalSums
<1>3. PICK h : Sums(e, h) /\ Total(e) = h[Len(e)]
  BY <1>1, TotalSums
<1>4. h[Len(f)] = g[Len(f)]
  BY <1>1, <1>2, <1>3, SumsPrefix
<1>5. h[Len(f) + 1] = h[Len(f)] + e[Len(f) + 1]
  BY <1>1, <1>3 DEF Sums
<1> QED BY <1>1, <1>2, <1>3, <1>4, <1>5 DEF e

LEMMA TotalTail ==
    ASSUME NEW f \in Seq(Nat), f # <<>>
    PROVE  Total(f) = f[1] + Total(Tail(f))
<1>0. Tail(f) \in Seq(Nat) /\ Len(Tail(f)) = Len(f) - 1 /\ Len(f) > 0
  OBVIOUS
<1>1. PICK g : Sums(f, g) /\ Total(f) = g[Len(f)]
  BY TotalSums
<1>2. PICK h : Sums(Tail(f), h) /\ Total(Tail(f)) = h[Len(Tail(f))]
  BY <1>0, TotalSums
<1>3. g[Len(Tail(f)) + 1] = f[1] + h[Len(Tail(f))]
  BY <1>0, <1>1, <1>2, SumsTail
<1> QED BY <1>0, <1>1, <1>2, <1>3

-----------------------------------------------------------------------------
(* Weighing the frames of a queue: Carried is one way to do it.            *)

Weight(q, w) == Total([k \in DOMAIN q |-> w[q[k]]])

Amount(type) == [f \in Frames |-> IF f.type = type THEN f.n ELSE 0]

LEMMA AmountType == ASSUME NEW type PROVE Amount(type) \in [Frames -> Nat]
<1>1. ASSUME NEW f \in Frames PROVE f.n \in Nat
  BY MuxStreamAssumption DEF Frames
<1> QED BY <1>1 DEF Amount

LEMMA CarriedWeight ==
    ASSUME NEW q \in Seq(Frames), NEW type
    PROVE  Carried(q, type) = Weight(q, Amount(type))
<1>1. \A k \in DOMAIN q : q[k] \in Frames
  OBVIOUS
<1>2. [k \in DOMAIN q |-> Amount(type)[q[k]]] = [k \in DOMAIN q |-> IF q[k].type = type THEN q[k].n ELSE 0]
  BY <1>1 DEF Amount
<1> QED BY <1>2 DEF Carried, Weight

LEMMA Weights ==
    ASSUME NEW S, NEW w \in [S -> Nat], NEW q \in Seq(S)
    PROVE  [k \in DOMAIN q |-> w[q[k]]] \in Seq(Nat) /\ Weight(q, w) \in Nat
<1>1. [k \in DOMAIN q |-> w[q[k]]] \in Seq(Nat)
  OBVIOUS
<1> QED BY <1>1, TotalNat DEF Weight

LEMMA WeightEmpty == ASSUME NEW w PROVE Weight(<<>>, w) = 0
<1>1. [k \in DOMAIN <<>> |-> w[(<<>>)[k]]] = <<>>
  OBVIOUS
<1> QED BY <1>1, TotalEmpty DEF Weight

LEMMA WeightAppend ==
    ASSUME NEW S, NEW w \in [S -> Nat], NEW q \in Seq(S), NEW f \in S
    PROVE  Weight(Append(q, f), w) = Weight(q, w) + w[f]
<1> DEFINE v == [k \in DOMAIN q |-> w[q[k]]]
           u == [k \in DOMAIN Append(q, f) |-> w[Append(q, f)[k]]]
<1>1. v \in Seq(Nat) /\ w[f] \in Nat
  BY Weights
<1>2. u = Append(v, w[f])
  <2>1. \A k \in 1..(Len(q) + 1) : u[k] = Append(v, w[f])[k]
    OBVIOUS
  <2>2. u \in Seq(Nat) /\ Append(v, w[f]) \in Seq(Nat) /\ Len(u) = Len(q) + 1 /\ Len(Append(v, w[f])) = Len(q) + 1
    OBVIOUS
  <2> HIDE DEF u, v
  <2> QED BY <2>1, <2>2, SeqEqual
<1>3. Total(u) = Total(v) + w[f]
  <2> HIDE DEF u, v
  <2> QED BY <1>1, <1>2, TotalAppend
<1> QED BY <1>3 DEF Weight

LEMMA WeightTail ==
    ASSUME NEW S, NEW w \in [S -> Nat], NEW q \in Seq(S), q # <<>>
    PROVE  Weight(q, w) = w[Head(q)] + Weight(Tail(q), w)
<1> DEFINE v == [k \in DOMAIN q |-> w[q[k]]]
           u == [k \in DOMAIN Tail(q) |-> w[Tail(q)[k]]]
<1>1. v \in Seq(Nat) /\ v # <<>> /\ v[1] = w[Head(q)]
  OBVIOUS
<1>2. u = Tail(v)
  <2>1. \A k \in 1..(Len(q) - 1) : u[k] = Tail(v)[k]
    OBVIOUS
  <2>2. u \in Seq(Nat) /\ Tail(v) \in Seq(Nat) /\ Len(u) = Len(q) - 1 /\ Len(Tail(v)) = Len(q) - 1
    OBVIOUS
  <2> HIDE DEF u, v
  <2> QED BY <2>1, <2>2, SeqEqual
<1>3. Total(v) = v[1] + Total(u)
  <2> HIDE DEF u, v
  <2> QED BY <1>1, <1>2, TotalTail
<1> QED BY <1>1, <1>3 DEF Weight

LEMMA CarriedFacts ==
    ASSUME NEW q \in Seq(Frames), NEW type
    PROVE  /\ Carried(q, type) \in Nat
           /\ \A f \in Frames :
                 Carried(Append(q, f), type) = Carried(q, type) + (IF f.type = type THEN f.n ELSE 0)
           /\ q # <<>> =>
                 Carried(q, type) = (IF Head(q).type = type THEN Head(q).n ELSE 0) + Carried(Tail(q), type)
<1> DEFINE w == Amount(type)
<1>0. w \in [Frames -> Nat] /\ \A f \in Frames : w[f] = IF f.type = type THEN f.n ELSE 0
  BY AmountType DEF Amount
<1> HIDE DEF w
<1>c. \A p \in Seq(Frames) : Carried(p, type) = Weight(p, w)
  BY CarriedWeight DEF w
<1>1. Carried(q, type) \in Nat
  BY <1>0, <1>c, Weights
<1>2. ASSUME NEW f \in Frames
      PROVE  Carried(Append(q, f), type) = Carried(q, type) + (IF f.type = type THEN f.n ELSE 0)
  <2>1. Append(q, f) \in Seq(Frames) /\ Weight(Append(q, f), w) = Weight(q, w) + w[f]
    BY <1>0, WeightAppend
  <2> QED BY <1>0, <1>c, <2>1
<1>3. ASSUME q # <<>>
      PROVE  Carried(q, type) = (IF Head(q).type = type THEN Head(q).n ELSE 0) + Carried(Tail(q), type)
  <2>1. Tail(q) \in Seq(Frames) /\ Head(q) \in Frames
    BY <1>3
  <2>2. Weight(q, w) = w[Head(q)] + Weight(Tail(q), w)
    BY <1>0, <1>3, WeightTail
  <2> QED BY <1>0, <1>c, <2>1, <2>2
<1> QED BY <1>1, <1>2, <1>3

LEMMA CarriedEmpty == ASSUME NEW type PROVE Carried(<<>>, type) = 0
<1>1. <<>> \in Seq(Frames)
  OBVIOUS
<1> QED BY <1>1, CarriedWeight, WeightEmpty

LEMMA CarriedNone ==
    ASSUME NEW q \in Seq(Frames), NEW type, \A k \in DOMAIN q : q[k].type # type
    PROVE  Carried(q, type) = 0
<1> DEFINE Empty(p) == (\A k \in DOMAIN p : p[k].type # type) => Carried(p, type) = 0
           T == {n \in Nat : \A p \in Seq(Frames) : Len(p) = n => Empty(p)}
<1>1. 0 \in T
  <2>1. ASSUME NEW p \in Seq(Frames), Len(p) = 0 PROVE p = <<>>
    BY <2>1
  <2> QED BY <2>1, CarriedEmpty
<1>2. ASSUME NEW n \in Nat, n \in T PROVE n + 1 \in T
  <2> SUFFICES ASSUME NEW p \in Seq(Frames), Len(p) = n + 1, \A k \in DOMAIN p : p[k].type # type
               PROVE  Carried(p, type) = 0
    OBVIOUS
  <2>1. /\ p # <<>> /\ Tail(p) \in Seq(Frames) /\ Len(Tail(p)) = n /\ Head(p).type # type
        /\ \A k \in DOMAIN Tail(p) : k + 1 \in DOMAIN p /\ Tail(p)[k] = p[k + 1]
    OBVIOUS
  <2>2. Carried(Tail(p), type) = 0
    BY <1>2, <2>1
  <2> QED BY <2>1, <2>2, CarriedFacts
<1>3. Len(q) \in T
  <2> HIDE DEF T
  <2> QED BY <1>1, <1>2, SetInduction
<1> QED BY <1>3

\* Weights that add up to one count the frames.
LEMMA WeightLen ==
    ASSUME NEW S, NEW v \in [S -> Nat], NEW w \in [S -> Nat], \A f \in S : v[f] + w[f] = 1,
           NEW q \in Seq(S)
    PROVE  Len(q) = Weight(q, v) + Weight(q, w)
<1> DEFINE T == {n \in Nat : \A p \in Seq(S) : Len(p) = n => Weight(p, v) + Weight(p, w) = n}
<1>1. 0 \in T
  <2>1. ASSUME NEW p \in Seq(S), Len(p) = 0 PROVE p = <<>>
    BY <2>1
  <2> QED BY <2>1, WeightEmpty
<1>2. ASSUME NEW n \in Nat, n \in T PROVE n + 1 \in T
  <2> SUFFICES ASSUME NEW p \in Seq(S), Len(p) = n + 1
               PROVE  Weight(p, v) + Weight(p, w) = n + 1
    OBVIOUS
  <2>1. p # <<>> /\ Tail(p) \in Seq(S) /\ Len(Tail(p)) = n /\ Head(p) \in S
    OBVIOUS
  <2>2. Weight(p, v) = v[Head(p)] + Weight(Tail(p), v) /\ Weight(p, w) = w[Head(p)] + Weight(Tail(p), w)
    BY <2>1, WeightTail
  <2>3. Weight(Tail(p), v) \in Nat /\ Weight(Tail(p), w) \in Nat /\ v[Head(p)] \in Nat /\ w[Head(p)] \in Nat
    BY <2>1, Weights
  <2>4. Weight(Tail(p), v) + Weight(Tail(p), w) = n
    BY <1>2, <2>1
  <2>5. v[Head(p)] + w[Head(p)] = 1
    BY <2>1
  <2> QED BY <2>2, <2>3, <2>4, <2>5, SMTT(30)
<1>3. Nat \subseteq T
  <2> HIDE DEF T
  <2> QED BY <1>1, <1>2, SetInduction
<1>4. Len(q) \in Nat
  OBVIOUS
<1> QED BY <1>3, <1>4

\* A weight that bounds another, frame by frame, bounds it for the queue.
LEMMA WeightBound ==
    ASSUME NEW S, NEW v \in [S -> Nat], NEW w \in [S -> Nat], NEW c \in Nat,
           \A f \in S : c * v[f] <= w[f], NEW q \in Seq(S)
    PROVE  c * Weight(q, v) <= Weight(q, w)
<1> DEFINE T == {n \in Nat : \A p \in Seq(S) : Len(p) = n => c * Weight(p, v) <= Weight(p, w)}
<1>1. 0 \in T
  <2>1. ASSUME NEW p \in Seq(S), Len(p) = 0 PROVE p = <<>>
    BY <2>1
  <2> QED BY <2>1, WeightEmpty
<1>2. ASSUME NEW n \in Nat, n \in T PROVE n + 1 \in T
  <2> SUFFICES ASSUME NEW p \in Seq(S), Len(p) = n + 1
               PROVE  c * Weight(p, v) <= Weight(p, w)
    OBVIOUS
  <2>1. p # <<>> /\ Tail(p) \in Seq(S) /\ Len(Tail(p)) = n /\ Head(p) \in S
    OBVIOUS
  <2>2. Weight(p, v) = v[Head(p)] + Weight(Tail(p), v) /\ Weight(p, w) = w[Head(p)] + Weight(Tail(p), w)
    BY <2>1, WeightTail
  <2>3. Weight(Tail(p), v) \in Nat /\ Weight(Tail(p), w) \in Nat /\ v[Head(p)] \in Nat /\ w[Head(p)] \in Nat
    BY <2>1, Weights
  <2>4. c * Weight(Tail(p), v) <= Weight(Tail(p), w)
    BY <1>2, <2>1
  <2>5. c * v[Head(p)] <= w[Head(p)]
    BY <2>1
  <2>6. \A a, b \in Nat : c * (a + b) = c * a + c * b
    OBVIOUS
  <2>7. c * Weight(p, v) = c * v[Head(p)] + c * Weight(Tail(p), v)
    BY <2>2, <2>3, <2>6
  <2>8. \A a, b, d, e \in Int : a <= b /\ d <= e => a + d <= b + e
    OBVIOUS
  <2>9. /\ c * v[Head(p)] \in Int /\ c * Weight(Tail(p), v) \in Int
        /\ w[Head(p)] \in Int /\ Weight(Tail(p), w) \in Int
    BY <2>3
  <2>10. c * v[Head(p)] + c * Weight(Tail(p), v) <= w[Head(p)] + Weight(Tail(p), w)
    BY <2>4, <2>5, <2>8, <2>9, Zenon
  <2> QED BY <2>2, <2>7, <2>10
<1>3. Nat \subseteq T
  <2> HIDE DEF T
  <2> QED BY <1>1, <1>2, SetInduction
<1>4. Len(q) \in Nat
  OBVIOUS
<1> QED BY <1>3, <1>4

-----------------------------------------------------------------------------
(* What a step of side x does. The other side keeps all of its own.        *)

LEMMA Sides ==
    ASSUME NEW x \in Side
    PROVE  /\ Other(x) \in Side /\ Other(x) # x /\ Other(Other(x)) = x
           /\ \A z \in Side : z = x \/ z = Other(x)
BY DEF Side, Other, Client, Server

Quiet(x) ==
    LET y == Other(x)
    IN  /\ st'[y] = st[y] /\ app'[y] = app[y] /\ control'[y] = control[y]
        /\ sent'[y] = sent[y] /\ rcvd'[y] = rcvd[y]

SameFlags(s, t) ==
    /\ t.registered = s.registered /\ t.opened = s.opened /\ t.closed = s.closed
    /\ t.localWriteClosed = s.localWriteClosed /\ t.remoteWriteClosed = s.remoteWriteClosed
    /\ t.closeAfterDrain = s.closeAfterDrain

SameWindows(s, t) ==
    /\ t.sendWindow = s.sendWindow /\ t.receiveWindow = s.receiveWindow
    /\ t.pendingWindowUpdate = s.pendingWindowUpdate /\ t.inbound = s.inbound

\* Closed and out of the map, with the outbound queue as it was or empty.
Closing(s, t) ==
    /\ t.closed /\ ~ t.registered
    /\ t.opened = s.opened /\ t.localWriteClosed = s.localWriteClosed
    /\ t.remoteWriteClosed = s.remoteWriteClosed /\ t.closeAfterDrain = s.closeAfterDrain
    /\ SameWindows(s, t) /\ t.outbound \in {s.outbound, <<>>}

\* The proxy keeps its bytes and its sink.
SameCopy(a, b) ==
    b.held = a.held /\ b.update = a.update /\ b.sink = a.sink /\ b.reset = a.reset

Queued(x, f) == control'[x] = Append(control[x], f)

\* The space that Read may return and what is on its way to it.
Balance ==
    \A x \in Side :
        /\ st[x].receiveWindow + st[x].inbound = Window
        /\ Space(x) <= Window
        /\ app[x].update # 0 => app[x].update >= Threshold

LEMMA FrameTypes ==
    /\ \A type \in {"OPEN", "OPEN_OK", "OPEN_ERROR", "FIN", "RESET"} :
          Frame(type) \in Frames /\ Frame(type).type = type
    /\ \A n \in 0..Window : /\ Data(n) \in Frames /\ Data(n).type = "DATA" /\ Data(n).n = n
                            /\ Update(n) \in Frames /\ Update(n).type = "WINDOW_UPDATE" /\ Update(n).n = n
    /\ \A f \in Frames : f.n \in 0..Window
BY MuxStreamAssumption DEF Frames, Frame, Data, Update

\* A queue of frames, by side.
LEMMA Queues ==
    ASSUME NEW Q \in [Side -> Seq(Frames)], NEW x \in Side
    PROVE  /\ Q[x] \in Seq(Frames)
           /\ \A f \in Frames : [Q EXCEPT ![x] = Append(Q[x], f)] \in [Side -> Seq(Frames)]
           /\ Q[x] # <<>> => /\ Head(Q[x]) \in Frames /\ Tail(Q[x]) \in Seq(Frames)
                             /\ [Q EXCEPT ![x] = Tail(Q[x])] \in [Side -> Seq(Frames)]
<1>1. Q[x] \in Seq(Frames)
  OBVIOUS
<1>2. ASSUME NEW f \in Frames PROVE [Q EXCEPT ![x] = Append(Q[x], f)] \in [Side -> Seq(Frames)]
  <2>1. Append(Q[x], f) \in Seq(Frames)
    BY <1>1
  <2> QED BY <2>1
<1>3. ASSUME Q[x] # <<>>
      PROVE  /\ Head(Q[x]) \in Frames /\ Tail(Q[x]) \in Seq(Frames)
             /\ [Q EXCEPT ![x] = Tail(Q[x])] \in [Side -> Seq(Frames)]
  <2>1. Head(Q[x]) \in Frames /\ Tail(Q[x]) \in Seq(Frames)
    BY <1>1, <1>3
  <2> QED BY <2>1
<1> QED BY <1>1, <1>2, <1>3

\* The types of the queues and of everything but the streams and the proxies.
LEMMA ControlEffect ==
    ASSUME TypeOK, NEW x \in Side, NEW f \in Frames, sendControl(x, f)
    PROVE  /\ control' \in [Side -> Seq(Frames)] /\ Queued(x, f)
           /\ control'[Other(x)] = control[Other(x)]
BY Sides, Queues DEF TypeOK, sendControl, Queued

LEMMA ReceiveEffect ==
    ASSUME TypeOK, NEW x \in Side, NEW types, Receives(x, types)
    PROVE  LET y == Other(x)
           IN  /\ wire' \in [Side -> Seq(Frames)]
               /\ wire[y] \in Seq(Frames) /\ wire[y] # <<>> /\ wire'[y] = Tail(wire[y])
               /\ wire'[x] = wire[x]
               /\ Incoming(x) = Head(wire[y]) /\ Incoming(x) \in Frames /\ Incoming(x).type \in types
               /\ UNCHANGED <<inner, alive, sent, rcvd, scenario>>
BY Sides, Queues DEF TypeOK, Receives, Incoming

LEMMA GoneFields ==
    ASSUME NEW s \in Streams
    PROVE  /\ Gone(s) \in Streams /\ Closing(s, Gone(s))
           /\ [Gone(s) EXCEPT !.outbound = <<>>] \in Streams
           /\ Closing(s, [Gone(s) EXCEPT !.outbound = <<>>])
           /\ [Gone(s) EXCEPT !.outbound = <<>>].outbound = <<>>
<1>1. <<>> \in Seq(Frames)
  OBVIOUS
<1>2. Gone(s) \in Streams
  BY DEF Gone, Streams
<1>3. Closing(s, Gone(s))
  BY DEF Gone, Streams, Closing, SameWindows
<1>4. /\ [Gone(s) EXCEPT !.outbound = <<>>] \in Streams
      /\ [Gone(s) EXCEPT !.outbound = <<>>].outbound = <<>>
  BY <1>1, <1>2 DEF Streams
<1>5. Closing(s, [Gone(s) EXCEPT !.outbound = <<>>])
  BY DEF Gone, Streams, Closing, SameWindows
<1> QED BY <1>2, <1>3, <1>4, <1>5

LEMMA ResetEffect ==
    ASSUME TypeOK, NEW x \in Side, Reset(x)
    PROVE  /\ st' \in [Side -> Streams] /\ control' \in [Side -> Seq(Frames)]
           /\ st'[Other(x)] = st[Other(x)] /\ control'[Other(x)] = control[Other(x)]
           /\ \/ st[x].closed /\ UNCHANGED <<st, control>>
              \/ /\ ~ st[x].closed /\ Closing(st[x], st'[x]) /\ Queued(x, Frame("RESET"))
                 /\ st'[x].outbound = <<>>
<1>1. CASE st[x].closed
  BY <1>1 DEF Reset, TypeOK
<1>2. CASE ~ st[x].closed
  <2>1. sendControl(x, Frame("RESET")) /\ Frame("RESET") \in Frames
    BY <1>2, FrameTypes DEF Reset
  <2>2. /\ st' \in [Side -> Streams] /\ st'[Other(x)] = st[Other(x)] /\ Closing(st[x], st'[x])
        /\ st'[x].outbound = <<>>
    <3>1. st'[x] = [Gone(st[x]) EXCEPT !.outbound = <<>>] /\ st'[Other(x)] = st[Other(x)]
      BY <1>2, Sides DEF Reset, TypeOK
    <3>2. st' = [st EXCEPT ![x] = [Gone(st[x]) EXCEPT !.outbound = <<>>]]
      BY <1>2 DEF Reset
    <3>3. st \in [Side -> Streams] /\ st[x] \in Streams
      BY DEF TypeOK
    <3>4. [Gone(st[x]) EXCEPT !.outbound = <<>>] \in Streams
      BY <3>3, GoneFields
    <3>5. st' \in [Side -> Streams]
      BY <3>2, <3>3, <3>4
    <3> QED BY <3>1, <3>3, <3>5, GoneFields
  <2> QED BY <1>2, <2>1, <2>2, ControlEffect
<1> QED BY <1>1, <1>2

LEMMA PutStream ==
    ASSUME TypeOK, NEW x \in Side, NEW t \in Streams, st' = [st EXCEPT ![x] = t]
    PROVE  st' \in [Side -> Streams] /\ st'[x] = t /\ st'[Other(x)] = st[Other(x)]
BY Sides DEF TypeOK

LEMMA PutApp ==
    ASSUME TypeOK, NEW x \in Side, NEW a \in Apps, app' = [app EXCEPT ![x] = a]
    PROVE  app' \in [Side -> Apps] /\ app'[x] = a /\ app'[Other(x)] = app[Other(x)]
BY Sides DEF TypeOK

\* The types of everything but the streams, the proxies and the queues.
Rest == /\ inner' \in [Side -> BOOLEAN] /\ alive' \in [Side -> BOOLEAN]
        /\ sent' \in [Side -> Nat] /\ rcvd' \in [Side -> Nat] /\ scenario' \in Scenarios

LEMMA RestKept ==
    ASSUME TypeOK, UNCHANGED <<inner, alive, sent, rcvd, scenario>>
    PROVE  Rest /\ \A x \in Side : sent'[x] = sent[x] /\ rcvd'[x] = rcvd[x]
BY DEF TypeOK, Rest

\* The phase of the connection's goroutine moves on.
Phase(a, p) == [a EXCEPT !.phase = p]

LEMMA PhaseFields ==
    ASSUME NEW a \in Apps, NEW p \in {"idle", "opening", "proxy", "done"}
    PROVE  Phase(a, p) \in Apps /\ Phase(a, p).phase = p /\ SameCopy(a, Phase(a, p))
BY DEF Apps, Phase, SameCopy

LEMMA PhaseEffect ==
    ASSUME TypeOK, NEW x \in Side, NEW p \in {"idle", "opening", "proxy", "done"},
           app' = [app EXCEPT ![x].phase = p]
    PROVE  /\ app' \in [Side -> Apps] /\ app'[Other(x)] = app[Other(x)]
           /\ app'[x].phase = p /\ SameCopy(app[x], app'[x])
<1>1. app[x] \in Apps /\ app' = [app EXCEPT ![x] = Phase(app[x], p)]
  BY DEF TypeOK, Phase
<1>2. Phase(app[x], p) \in Apps /\ Phase(app[x], p).phase = p /\ SameCopy(app[x], Phase(app[x], p))
  BY <1>1, PhaseFields
<1>3. /\ app' \in [Side -> Apps] /\ app'[x] = Phase(app[x], p)
      /\ app'[Other(x)] = app[Other(x)]
  BY <1>1, <1>2, PutApp
<1> QED BY <1>2, <1>3

\* OPEN is queued, and the stream is in the map.
LEMMA OpenServiceEffect ==
    ASSUME TypeOK, OpenService
    PROVE  /\ TypeOK' /\ Quiet(Client) /\ UNCHANGED wire /\ rcvd' = rcvd /\ sent' = sent
           /\ app[Client].phase = "idle" /\ app'[Client].phase = "opening"
           /\ SameCopy(app[Client], app'[Client])
           /\ st'[Client] = [st[Client] EXCEPT !.registered = TRUE]
           /\ Queued(Client, Frame("OPEN"))
<1>0. Client \in Side /\ st[Client] \in Streams
  BY DEF TypeOK, Side
<1>1. [st[Client] EXCEPT !.registered = TRUE] \in Streams
  BY <1>0 DEF Streams
<1>2. st' = [st EXCEPT ![Client] = [st[Client] EXCEPT !.registered = TRUE]]
  BY DEF OpenService
<1>3. /\ st' \in [Side -> Streams] /\ st'[Other(Client)] = st[Other(Client)]
      /\ st'[Client] = [st[Client] EXCEPT !.registered = TRUE]
  BY <1>0, <1>1, <1>2, PutStream
<1>4. /\ app' \in [Side -> Apps] /\ app'[Other(Client)] = app[Other(Client)]
      /\ app'[Client].phase = "opening" /\ SameCopy(app[Client], app'[Client])
  BY <1>0, PhaseEffect DEF OpenService
<1>5. /\ control' \in [Side -> Seq(Frames)] /\ Queued(Client, Frame("OPEN"))
      /\ control'[Other(Client)] = control[Other(Client)]
  BY <1>0, ControlEffect, FrameTypes DEF OpenService
<1>6. Rest /\ \A x \in Side : sent'[x] = sent[x] /\ rcvd'[x] = rcvd[x]
  BY RestKept DEF OpenService
<1>7. TypeOK'
  BY <1>3, <1>4, <1>5, <1>6 DEF OpenService, TypeOK, Rest
<1> QED BY <1>0, <1>3, <1>4, <1>5, <1>6, <1>7, Sides DEF OpenService, Quiet

LEMMA waitOpenedEffect ==
    ASSUME TypeOK, waitOpened
    PROVE  /\ TypeOK' /\ Quiet(Client) /\ UNCHANGED <<st, control, wire, sent, rcvd>>
           /\ app[Client].phase = "opening" /\ SameCopy(app[Client], app'[Client])
           /\ app'[Client].phase \in {"proxy", "done"}
           /\ app'[Client].phase = "proxy" => st[Client].opened
<1>0. Client \in Side
  BY DEF Side
<1>1. PICK p \in {"proxy", "done"} : app' = [app EXCEPT ![Client].phase = p] /\ (p = "proxy" => st[Client].opened)
  BY DEF waitOpened
<1>2. /\ app' \in [Side -> Apps] /\ app'[Other(Client)] = app[Other(Client)]
      /\ app'[Client].phase = p /\ SameCopy(app[Client], app'[Client])
  BY <1>0, <1>1, PhaseEffect
<1>3. TypeOK'
  BY <1>2 DEF waitOpened, TypeOK
<1> QED BY <1>1, <1>2, <1>3 DEF waitOpened, Quiet

LEMMA OpenTimeoutEffect ==
    ASSUME TypeOK, OpenTimeout
    PROVE  /\ TypeOK' /\ Quiet(Client) /\ UNCHANGED <<wire, sent, rcvd>> /\ Reset(Client)
           /\ app[Client].phase = "opening" /\ app'[Client].phase = "done"
           /\ SameCopy(app[Client], app'[Client])
<1>0. Client \in Side /\ Reset(Client)
  BY DEF Side, OpenTimeout
<1>1. /\ app' \in [Side -> Apps] /\ app'[Other(Client)] = app[Other(Client)]
      /\ app'[Client].phase = "done" /\ SameCopy(app[Client], app'[Client])
  BY <1>0, PhaseEffect DEF OpenTimeout
<1>2. /\ st' \in [Side -> Streams] /\ control' \in [Side -> Seq(Frames)]
      /\ st'[Other(Client)] = st[Other(Client)] /\ control'[Other(Client)] = control[Other(Client)]
  BY <1>0, ResetEffect
<1>3. TypeOK'
  BY <1>1, <1>2 DEF OpenTimeout, TypeOK
<1> QED BY <1>0, <1>1, <1>2, <1>3 DEF OpenTimeout, Quiet

LEMMA DialOKEffect ==
    ASSUME TypeOK, DialOK
    PROVE  /\ TypeOK' /\ Quiet(Server) /\ UNCHANGED <<wire, sent, rcvd>>
           /\ app[Server].phase = "opening" /\ SameCopy(app[Server], app'[Server])
           /\ \/ /\ st[Server].closed /\ UNCHANGED <<st, control>>
                 /\ app'[Server].phase = "done"
              \/ /\ ~ st[Server].closed /\ app'[Server].phase = "proxy"
                 /\ st'[Server] = [st[Server] EXCEPT !.opened = TRUE]
                 /\ Queued(Server, Frame("OPEN_OK"))
<1>0. Server \in Side /\ st[Server] \in Streams
  BY DEF TypeOK, Side
<1>1. CASE st[Server].closed
  <2>1. app' = [app EXCEPT ![Server].phase = "done"] /\ UNCHANGED <<st, control>>
    BY <1>1 DEF DialOK
  <2>2. /\ app' \in [Side -> Apps] /\ app'[Other(Server)] = app[Other(Server)]
        /\ app'[Server].phase = "done" /\ SameCopy(app[Server], app'[Server])
    BY <1>0, <2>1, PhaseEffect
  <2>3. TypeOK'
    BY <2>1, <2>2 DEF DialOK, TypeOK
  <2> QED BY <1>1, <2>1, <2>2, <2>3 DEF DialOK, Quiet
<1>2. CASE ~ st[Server].closed
  <2>1. /\ app' = [app EXCEPT ![Server].phase = "proxy"]
        /\ st' = [st EXCEPT ![Server] = [st[Server] EXCEPT !.opened = TRUE]]
        /\ sendControl(Server, Frame("OPEN_OK"))
    BY <1>2 DEF DialOK
  <2>2. /\ app' \in [Side -> Apps] /\ app'[Other(Server)] = app[Other(Server)]
        /\ app'[Server].phase = "proxy" /\ SameCopy(app[Server], app'[Server])
    BY <1>0, <2>1, PhaseEffect
  <2>3. [st[Server] EXCEPT !.opened = TRUE] \in Streams
    BY <1>0 DEF Streams
  <2>4. /\ st' \in [Side -> Streams] /\ st'[Other(Server)] = st[Other(Server)]
        /\ st'[Server] = [st[Server] EXCEPT !.opened = TRUE]
    BY <1>0, <2>1, <2>3, PutStream
  <2>5. /\ control' \in [Side -> Seq(Frames)] /\ Queued(Server, Frame("OPEN_OK"))
        /\ control'[Other(Server)] = control[Other(Server)]
    BY <1>0, <2>1, ControlEffect, FrameTypes
  <2>6. TypeOK'
    BY <2>2, <2>4, <2>5 DEF DialOK, TypeOK
  <2> QED BY <1>2, <2>2, <2>4, <2>5, <2>6 DEF DialOK, Quiet
<1> QED BY <1>1, <1>2

LEMMA DialFailsEffect ==
    ASSUME TypeOK, DialFails
    PROVE  /\ TypeOK' /\ Quiet(Server) /\ UNCHANGED <<wire, sent, rcvd>>
           /\ app[Server].phase = "opening" /\ app'[Server].phase = "done"
           /\ SameCopy(app[Server], app'[Server])
           /\ \/ st[Server].closed /\ UNCHANGED <<st, control>>
              \/ /\ ~ st[Server].closed /\ Closing(st[Server], st'[Server])
                 /\ Queued(Server, Frame("OPEN_ERROR"))
<1>0. Server \in Side /\ st[Server] \in Streams
  BY DEF TypeOK, Side
<1>1. /\ app' \in [Side -> Apps] /\ app'[Other(Server)] = app[Other(Server)]
      /\ app'[Server].phase = "done" /\ SameCopy(app[Server], app'[Server])
  BY <1>0, PhaseEffect DEF DialFails
<1>2. CASE st[Server].closed
  <2>1. UNCHANGED <<st, control>>
    BY <1>2 DEF DialFails
  <2>2. TypeOK'
    BY <1>1, <2>1 DEF DialFails, TypeOK
  <2> QED BY <1>1, <1>2, <2>1, <2>2 DEF DialFails, Quiet
<1>3. CASE ~ st[Server].closed
  <2>1. st' = [st EXCEPT ![Server] = Gone(st[Server])] /\ sendControl(Server, Frame("OPEN_ERROR"))
    BY <1>3 DEF DialFails
  <2>2. st' \in [Side -> Streams] /\ st'[Server] = Gone(st[Server]) /\ st'[Other(Server)] = st[Other(Server)]
    BY <1>0, <2>1, GoneFields, PutStream
  <2>3. /\ control' \in [Side -> Seq(Frames)] /\ Queued(Server, Frame("OPEN_ERROR"))
        /\ control'[Other(Server)] = control[Other(Server)]
    BY <1>0, <2>1, ControlEffect, FrameTypes
  <2>4. TypeOK'
    BY <1>1, <2>2, <2>3 DEF DialFails, TypeOK
  <2> QED BY <1>0, <1>1, <1>3, <2>2, <2>3, <2>4, GoneFields DEF DialFails, Quiet
<1> QED BY <1>2, <1>3

LEMMA handleOpenEffect ==
    ASSUME TypeOK, handleOpen
    PROVE  /\ TypeOK' /\ Quiet(Server) /\ UNCHANGED <<sent, rcvd>> /\ Receives(Server, {"OPEN"})
           /\ SameCopy(app[Server], app'[Server])
           /\ \/ /\ st'[Server] = [st[Server] EXCEPT !.registered = TRUE]
                 /\ app'[Server].phase = "opening" /\ UNCHANGED control
              \/ Queued(Server, Frame("OPEN_ERROR")) /\ UNCHANGED <<st, app>>
<1>0. Server \in Side /\ st[Server] \in Streams /\ app[Server] \in Apps /\ Receives(Server, {"OPEN"})
  BY DEF TypeOK, Side, handleOpen
<1>1. wire' \in [Side -> Seq(Frames)] /\ UNCHANGED <<inner, alive, sent, rcvd, scenario>>
  BY <1>0, ReceiveEffect
<1>2. CASE /\ st' = [st EXCEPT ![Server].registered = TRUE]
           /\ app' = [app EXCEPT ![Server].phase = "opening"]
           /\ UNCHANGED control
  <2>1. [st[Server] EXCEPT !.registered = TRUE] \in Streams
    BY <1>0 DEF Streams
  <2>2. st' = [st EXCEPT ![Server] = [st[Server] EXCEPT !.registered = TRUE]]
    BY <1>2
  <2>3. /\ st' \in [Side -> Streams] /\ st'[Other(Server)] = st[Other(Server)]
        /\ st'[Server] = [st[Server] EXCEPT !.registered = TRUE]
    BY <1>0, <2>1, <2>2, PutStream
  <2>4. /\ app' \in [Side -> Apps] /\ app'[Other(Server)] = app[Other(Server)]
        /\ app'[Server].phase = "opening" /\ SameCopy(app[Server], app'[Server])
    BY <1>0, <1>2, PhaseEffect
  <2>5. TypeOK'
    BY <1>1, <1>2, <2>3, <2>4 DEF TypeOK
  <2> QED BY <1>0, <1>1, <1>2, <2>3, <2>4, <2>5 DEF Quiet
<1>3. CASE sendControl(Server, Frame("OPEN_ERROR")) /\ UNCHANGED <<st, app>>
  <2>1. /\ control' \in [Side -> Seq(Frames)] /\ Queued(Server, Frame("OPEN_ERROR"))
        /\ control'[Other(Server)] = control[Other(Server)]
    BY <1>0, <1>3, ControlEffect, FrameTypes
  <2>2. TypeOK'
    BY <1>1, <1>3, <2>1 DEF TypeOK
  <2> QED BY <1>0, <1>1, <1>3, <2>1, <2>2 DEF Quiet, SameCopy
<1> QED BY <1>2, <1>3 DEF handleOpen

LEMMA HandleLateEffect ==
    ASSUME TypeOK, NEW x \in Side, HandleLate(x)
    PROVE  /\ TypeOK' /\ Quiet(x) /\ UNCHANGED <<st, app, control, sent, rcvd>>
           /\ ~ st[x].registered
           /\ Receives(x, {"OPEN_OK", "OPEN_ERROR", "DATA", "WINDOW_UPDATE", "FIN", "RESET"})
<1>1. /\ Receives(x, {"OPEN_OK", "OPEN_ERROR", "DATA", "WINDOW_UPDATE", "FIN", "RESET"})
      /\ UNCHANGED <<st, app, control>> /\ ~ st[x].registered
  BY DEF HandleLate
<1>2. wire' \in [Side -> Seq(Frames)] /\ UNCHANGED <<inner, alive, sent, rcvd, scenario>>
  BY <1>1, ReceiveEffect
<1>3. TypeOK'
  BY <1>1, <1>2 DEF TypeOK
<1> QED BY <1>1, <1>2, <1>3 DEF Quiet

LEMMA HandleOpenOKEffect ==
    ASSUME TypeOK, NEW x \in Side, HandleOpenOK(x)
    PROVE  /\ TypeOK' /\ Quiet(x) /\ UNCHANGED <<app, control, sent, rcvd>>
           /\ Receives(x, {"OPEN_OK"}) /\ st[x].registered
           /\ st'[x] \in {st[x], [st[x] EXCEPT !.opened = TRUE]}
<1>1. /\ Receives(x, {"OPEN_OK"}) /\ UNCHANGED <<app, control>> /\ st[x].registered
      /\ st[x] \in Streams
  BY DEF HandleOpenOK, TypeOK
<1>2. wire' \in [Side -> Seq(Frames)] /\ UNCHANGED <<inner, alive, sent, rcvd, scenario>>
  BY <1>1, ReceiveEffect
<1>3. [st[x] EXCEPT !.opened = TRUE] \in Streams
  BY <1>1 DEF Streams
<1>4. st' = st \/ st' = [st EXCEPT ![x] = [st[x] EXCEPT !.opened = TRUE]]
  BY DEF HandleOpenOK
<1>5. /\ st' \in [Side -> Streams] /\ st'[Other(x)] = st[Other(x)]
      /\ st'[x] \in {st[x], [st[x] EXCEPT !.opened = TRUE]}
  <2>1. CASE st' = st
    BY <2>1 DEF TypeOK
  <2>2. CASE st' = [st EXCEPT ![x] = [st[x] EXCEPT !.opened = TRUE]]
    BY <1>3, <2>2, PutStream
  <2> QED BY <1>4, <2>1, <2>2
<1>6. TypeOK'
  BY <1>1, <1>2, <1>5 DEF TypeOK
<1> QED BY <1>1, <1>2, <1>5, <1>6 DEF Quiet

LEMMA HandleEndEffect ==
    ASSUME TypeOK, NEW x \in Side, HandleEnd(x)
    PROVE  /\ TypeOK' /\ Quiet(x) /\ UNCHANGED <<app, control, sent, rcvd>>
           /\ Receives(x, {"OPEN_ERROR", "RESET"}) /\ Closing(st[x], st'[x])
<1>1. /\ Receives(x, {"OPEN_ERROR", "RESET"}) /\ UNCHANGED <<app, control>>
      /\ st' = [st EXCEPT ![x] = Gone(st[x])] /\ st[x] \in Streams
  BY DEF HandleEnd, TypeOK
<1>2. wire' \in [Side -> Seq(Frames)] /\ UNCHANGED <<inner, alive, sent, rcvd, scenario>>
  BY <1>1, ReceiveEffect
<1>3. Gone(st[x]) \in Streams /\ Closing(st[x], Gone(st[x]))
  BY <1>1, GoneFields
<1>4. st' \in [Side -> Streams] /\ st'[x] = Gone(st[x]) /\ st'[Other(x)] = st[Other(x)]
  BY <1>1, <1>3, PutStream
<1>5. TypeOK'
  BY <1>1, <1>2, <1>4 DEF TypeOK
<1> QED BY <1>1, <1>2, <1>3, <1>4, <1>5 DEF Quiet

LEMMA receiveDataEffect ==
    ASSUME TypeOK, Balance, NEW x \in Side, receiveData(x)
    PROVE  LET n == Incoming(x).n
           IN  /\ TypeOK' /\ Quiet(x) /\ UNCHANGED <<app, sent, rcvd>> /\ Receives(x, {"DATA"})
               /\ \/ Reset(x)
                  \/ /\ ~ st[x].closed /\ ~ st[x].remoteWriteClosed /\ UNCHANGED control
                     /\ SameFlags(st[x], st'[x])
                     /\ st'[x].sendWindow = st[x].sendWindow
                     /\ st'[x].pendingWindowUpdate = st[x].pendingWindowUpdate
                     /\ st'[x].outbound = st[x].outbound
                     /\ st'[x].receiveWindow = st[x].receiveWindow - n
                     /\ st'[x].inbound = st[x].inbound + n
<1> DEFINE n == Incoming(x).n
           t == [st[x] EXCEPT !.receiveWindow = st[x].receiveWindow - n, !.inbound = st[x].inbound + n]
<1>1. Receives(x, {"DATA"}) /\ UNCHANGED app /\ st[x] \in Streams
  BY DEF receiveData, TypeOK
<1>2. /\ wire' \in [Side -> Seq(Frames)] /\ UNCHANGED <<inner, alive, sent, rcvd, scenario>>
      /\ n \in 0..Window
  BY <1>1, ReceiveEffect, FrameTypes
<1>3. CASE Reset(x)
  <2>1. /\ st' \in [Side -> Streams] /\ control' \in [Side -> Seq(Frames)]
        /\ st'[Other(x)] = st[Other(x)] /\ control'[Other(x)] = control[Other(x)]
    BY <1>3, ResetEffect
  <2>2. TypeOK'
    BY <1>1, <1>2, <2>1 DEF TypeOK
  <2> QED BY <1>1, <1>2, <1>3, <2>1, <2>2 DEF Quiet
<1>4. CASE ~ DataError(st[x], n) /\ UNCHANGED control /\ st' = [st EXCEPT ![x] = t]
  <2>1. ~ st[x].closed /\ ~ st[x].remoteWriteClosed /\ n <= st[x].receiveWindow
    BY <1>1, <1>2, <1>4 DEF DataError, Streams
  <2>2. st[x].receiveWindow - n \in 0..Window /\ st[x].inbound + n \in 0..Window
    <3>1. st[x].receiveWindow \in 0..Window /\ st[x].inbound \in 0..Window /\ Window \in Nat
      BY <1>1, MuxStreamAssumption DEF Streams
    <3>2. st[x].receiveWindow + st[x].inbound = Window
      BY DEF Balance
    <3> HIDE DEF n
    <3> QED BY <1>2, <2>1, <3>1, <3>2, SMTT(30)
  <2>3. t \in Streams
    BY <1>1, <2>2 DEF Streams
  <2>4. /\ SameFlags(st[x], t) /\ t.sendWindow = st[x].sendWindow
        /\ t.pendingWindowUpdate = st[x].pendingWindowUpdate /\ t.outbound = st[x].outbound
        /\ t.receiveWindow = st[x].receiveWindow - n /\ t.inbound = st[x].inbound + n
    BY <1>1 DEF Streams, SameFlags
  <2> HIDE DEF t
  <2>5. st' \in [Side -> Streams] /\ st'[x] = t /\ st'[Other(x)] = st[Other(x)]
    BY <1>4, <2>3, PutStream
  <2>6. TypeOK'
    BY <1>1, <1>2, <1>4, <2>5 DEF TypeOK
  <2> QED BY <1>1, <1>2, <1>4, <2>1, <2>4, <2>5, <2>6 DEF Quiet
<1> QED BY <1>3, <1>4 DEF receiveData

LEMMA updateSendWindowEffect ==
    ASSUME TypeOK, NEW x \in Side, updateSendWindow(x)
    PROVE  LET n == Incoming(x).n
           IN  /\ TypeOK' /\ Quiet(x) /\ UNCHANGED <<app, sent, rcvd>> /\ Receives(x, {"WINDOW_UPDATE"})
               /\ \/ Reset(x)
                  \/ /\ UNCHANGED control /\ SameFlags(st[x], st'[x]) /\ n # 0
                     /\ st'[x].receiveWindow = st[x].receiveWindow
                     /\ st'[x].pendingWindowUpdate = st[x].pendingWindowUpdate
                     /\ st'[x].outbound = st[x].outbound /\ st'[x].inbound = st[x].inbound
                     /\ st'[x].sendWindow = st[x].sendWindow + n
<1> DEFINE n == Incoming(x).n
           t == [st[x] EXCEPT !.sendWindow = st[x].sendWindow + n]
<1>1. Receives(x, {"WINDOW_UPDATE"}) /\ UNCHANGED app /\ st[x] \in Streams
  BY DEF updateSendWindow, TypeOK
<1>2. /\ wire' \in [Side -> Seq(Frames)] /\ UNCHANGED <<inner, alive, sent, rcvd, scenario>>
      /\ n \in 0..Window
  BY <1>1, ReceiveEffect, FrameTypes
<1>3. CASE Reset(x)
  <2>1. /\ st' \in [Side -> Streams] /\ control' \in [Side -> Seq(Frames)]
        /\ st'[Other(x)] = st[Other(x)] /\ control'[Other(x)] = control[Other(x)]
    BY <1>3, ResetEffect
  <2>2. TypeOK'
    BY <1>1, <1>2, <2>1 DEF TypeOK
  <2> QED BY <1>1, <1>2, <1>3, <2>1, <2>2 DEF Quiet
<1>4. CASE ~ UpdateError(st[x], n) /\ UNCHANGED control /\ st' = [st EXCEPT ![x] = t]
  <2>1. n # 0 /\ st[x].sendWindow + n \in 0..Window
    <3>1. st[x].sendWindow \in 0..Window /\ Window \in Nat
      BY <1>1, MuxStreamAssumption DEF Streams
    <3> HIDE DEF n
    <3> QED BY <1>2, <1>4, <3>1 DEF UpdateError
  <2>2. t \in Streams
    BY <1>1, <2>1 DEF Streams
  <2>3. /\ SameFlags(st[x], t) /\ t.receiveWindow = st[x].receiveWindow
        /\ t.pendingWindowUpdate = st[x].pendingWindowUpdate /\ t.outbound = st[x].outbound
        /\ t.inbound = st[x].inbound /\ t.sendWindow = st[x].sendWindow + n
    BY <1>1 DEF Streams, SameFlags
  <2> HIDE DEF t
  <2>4. st' \in [Side -> Streams] /\ st'[x] = t /\ st'[Other(x)] = st[Other(x)]
    BY <1>4, <2>2, PutStream
  <2>5. TypeOK'
    BY <1>1, <1>2, <1>4, <2>4 DEF TypeOK
  <2> QED BY <1>1, <1>2, <1>4, <2>1, <2>3, <2>4, <2>5 DEF Quiet
<1> QED BY <1>3, <1>4 DEF updateSendWindow

LEMMA receiveFINEffect ==
    ASSUME TypeOK, NEW x \in Side, receiveFIN(x)
    PROVE  /\ TypeOK' /\ Quiet(x) /\ UNCHANGED <<app, control, sent, rcvd>>
           /\ Receives(x, {"FIN"}) /\ st[x].registered
           /\ \/ st[x].closed /\ UNCHANGED st
              \/ ~ st[x].closed /\ st'[x] = [st[x] EXCEPT !.remoteWriteClosed = TRUE]
<1> DEFINE t == [st[x] EXCEPT !.remoteWriteClosed = TRUE]
<1>1. Receives(x, {"FIN"}) /\ UNCHANGED <<app, control>> /\ st[x].registered /\ st[x] \in Streams
  BY DEF receiveFIN, TypeOK
<1>2. wire' \in [Side -> Seq(Frames)] /\ UNCHANGED <<inner, alive, sent, rcvd, scenario>>
  BY <1>1, ReceiveEffect
<1>3. t \in Streams
  BY <1>1 DEF Streams
<1>4. IF st[x].closed THEN st' = st ELSE st' = [st EXCEPT ![x] = t]
  BY DEF receiveFIN
<1> HIDE DEF t
<1>5. /\ st' \in [Side -> Streams] /\ st'[Other(x)] = st[Other(x)]
      /\ ~ st[x].closed => st'[x] = t
  <2>1. CASE st[x].closed
    BY <1>4, <2>1 DEF TypeOK
  <2>2. CASE ~ st[x].closed
    BY <1>3, <1>4, <2>2, PutStream
  <2> QED BY <2>1, <2>2
<1>6. TypeOK'
  BY <1>1, <1>2, <1>5 DEF TypeOK
<1> QED BY <1>1, <1>2, <1>4, <1>5, <1>6 DEF Quiet, t

LEMMA NoControlEffect ==
    ASSUME TypeOK, NEW x \in Side, NoControl(x)
    PROVE  TypeOK' /\ UNCHANGED <<st, app, control, wire, sent, rcvd>>
BY DEF NoControl, TypeOK

LEMMA WriteControlEffect ==
    ASSUME TypeOK, NEW x \in Side, WriteControl(x)
    PROVE  /\ TypeOK' /\ UNCHANGED <<st, app, sent, rcvd>>
           /\ control[x] \in Seq(Frames) /\ control[x] # <<>> /\ Head(control[x]) \in Frames
           /\ control'[x] = Tail(control[x]) /\ control'[Other(x)] = control[Other(x)]
           /\ wire'[x] = Append(wire[x], Head(control[x])) /\ wire'[Other(x)] = wire[Other(x)]
<1>1. /\ control[x] # <<>> /\ control' = [control EXCEPT ![x] = Tail(control[x])]
      /\ wire' = [wire EXCEPT ![x] = Append(wire[x], Head(control[x]))]
      /\ inner' = [inner EXCEPT ![x] = FALSE] /\ UNCHANGED <<st, app, alive, sent, rcvd, scenario>>
  BY DEF WriteControl
<1>2. control \in [Side -> Seq(Frames)] /\ wire \in [Side -> Seq(Frames)]
  BY DEF TypeOK
<1>3. /\ control[x] \in Seq(Frames) /\ Head(control[x]) \in Frames
      /\ control' \in [Side -> Seq(Frames)] /\ wire' \in [Side -> Seq(Frames)]
  BY <1>1, <1>2, Queues
<1>4. /\ control'[x] = Tail(control[x]) /\ control'[Other(x)] = control[Other(x)]
      /\ wire'[x] = Append(wire[x], Head(control[x])) /\ wire'[Other(x)] = wire[Other(x)]
  BY <1>1, <1>2, Sides
<1>5. inner' \in [Side -> BOOLEAN]
  BY <1>1 DEF TypeOK
<1>6. TypeOK'
  BY <1>1, <1>3, <1>5 DEF TypeOK
<1> QED BY <1>1, <1>3, <1>4, <1>6

LEMMA WriteOutboundEffect ==
    ASSUME TypeOK, NEW x \in Side, WriteOutbound(x)
    PROVE  /\ TypeOK' /\ Quiet(x) /\ UNCHANGED <<app, control, sent, rcvd>>
           /\ st[x].registered /\ st[x].outbound \in Seq(Frames) /\ st[x].outbound # <<>>
           /\ Head(st[x].outbound) \in Frames
           /\ wire'[x] = Append(wire[x], Head(st[x].outbound)) /\ wire'[Other(x)] = wire[Other(x)]
           /\ st'[x] = [st[x] EXCEPT !.outbound = Tail(st[x].outbound),
                           !.registered = Len(st[x].outbound) > 1 \/ ~ st[x].closeAfterDrain]
<1> DEFINE t == [st[x] EXCEPT !.outbound = Tail(st[x].outbound),
                    !.registered = Len(st[x].outbound) > 1 \/ ~ st[x].closeAfterDrain]
<1>1. /\ st[x].registered /\ st[x].outbound # <<>> /\ st[x] \in Streams
      /\ wire' = [wire EXCEPT ![x] = Append(wire[x], Head(st[x].outbound))]
      /\ st' = [st EXCEPT ![x] = t]
      /\ inner' = [inner EXCEPT ![x] = FALSE] /\ UNCHANGED <<app, control, alive, sent, rcvd, scenario>>
  BY DEF WriteOutbound, TypeOK
<1>2. st[x].outbound \in Seq(Frames) /\ wire \in [Side -> Seq(Frames)]
  BY <1>1 DEF Streams, TypeOK
<1>3. Tail(st[x].outbound) \in Seq(Frames) /\ Head(st[x].outbound) \in Frames
  BY <1>1, <1>2
<1>4. t \in Streams
  BY <1>1, <1>3 DEF Streams
<1> HIDE DEF t
<1>5. st' \in [Side -> Streams] /\ st'[x] = t /\ st'[Other(x)] = st[Other(x)]
  BY <1>1, <1>4, PutStream
<1>6. wire' \in [Side -> Seq(Frames)]
  BY <1>1, <1>2, <1>3, Queues
<1>7. wire'[x] = Append(wire[x], Head(st[x].outbound)) /\ wire'[Other(x)] = wire[Other(x)]
  BY <1>1, <1>2, Sides
<1>8. TypeOK'
  BY <1>1, <1>5, <1>6 DEF TypeOK
<1> QED BY <1>1, <1>2, <1>3, <1>5, <1>7, <1>8 DEF Quiet, t

LEMMA ShutdownEffect ==
    ASSUME TypeOK, NEW x \in Side, Shutdown(x)
    PROVE  /\ TypeOK' /\ Quiet(x) /\ UNCHANGED <<app, control, wire, sent, rcvd>>
           /\ st'[x] = st[x] \/ (st[x].registered /\ Closing(st[x], st'[x]))
<1>1. /\ st' = [st EXCEPT ![x] = IF st[x].registered THEN Gone(st[x]) ELSE st[x]]
      /\ alive' = [alive EXCEPT ![x] = FALSE] /\ st[x] \in Streams
      /\ UNCHANGED <<app, control, wire, inner, sent, rcvd, scenario>>
  BY DEF Shutdown, TypeOK
<1>2. Gone(st[x]) \in Streams /\ Closing(st[x], Gone(st[x]))
  BY <1>1, GoneFields
<1>3. /\ st' \in [Side -> Streams] /\ st'[Other(x)] = st[Other(x)]
      /\ st'[x] = IF st[x].registered THEN Gone(st[x]) ELSE st[x]
  BY <1>1, <1>2, PutStream
<1>4. TypeOK'
  BY <1>1, <1>3 DEF TypeOK
<1> QED BY <1>1, <1>2, <1>3, <1>4 DEF Quiet

\* The parts of the window.
LEMMA SpaceParts ==
    ASSUME TypeOK, NEW x \in Side
    PROVE  /\ st[x].sendWindow \in Nat /\ st[x].inbound \in Nat /\ st[x].pendingWindowUpdate \in Nat
           /\ app[x].update \in Nat /\ app[x].held \in Nat /\ Window \in Nat /\ Threshold \in 1..Window
           /\ Carried(st[x].outbound, "DATA") \in Nat /\ Carried(wire[x], "DATA") \in Nat
           /\ Carried(control[x], "WINDOW_UPDATE") \in Nat /\ Carried(wire[x], "WINDOW_UPDATE") \in Nat
           /\ st[x].outbound \in Seq(Frames) /\ wire[x] \in Seq(Frames) /\ control[x] \in Seq(Frames)
           /\ rcvd[x] \in Nat /\ sent[x] \in Nat
<1>1. st[x] \in Streams /\ app[x] \in Apps /\ control[x] \in Seq(Frames) /\ wire[x] \in Seq(Frames)
  BY DEF TypeOK
<1>2. st[x].outbound \in Seq(Frames)
  BY <1>1 DEF Streams
<1>3. st[x].sendWindow \in Nat /\ st[x].inbound \in Nat /\ st[x].pendingWindowUpdate \in Nat
  BY <1>1, MuxStreamAssumption DEF Streams
<1>4. app[x].update \in Nat /\ app[x].held \in Nat
  BY <1>1, MuxStreamAssumption DEF Apps
<1>5. rcvd[x] \in Nat /\ sent[x] \in Nat
  BY DEF TypeOK
<1> QED BY <1>1, <1>2, <1>3, <1>4, <1>5, CarriedFacts, MuxStreamAssumption

LEMMA SpaceSum ==
    ASSUME TypeOK, NEW x \in Side, NEW y \in Side, y = Other(x)
    PROVE  /\ Space(x) = st[x].sendWindow + Carried(st[x].outbound, "DATA") + Carried(wire[x], "DATA")
                            + st[y].inbound + st[y].pendingWindowUpdate + app[y].update
                            + Carried(control[y], "WINDOW_UPDATE") + Carried(wire[y], "WINDOW_UPDATE")
           /\ Space(x) \in Nat
           /\ st[y].inbound + st[y].pendingWindowUpdate <= Space(x)
           /\ st[x].sendWindow + Carried(wire[x], "DATA") <= Space(x)
           /\ st[x].sendWindow + Carried(wire[y], "WINDOW_UPDATE") <= Space(x)
           /\ Carried(control[y], "WINDOW_UPDATE") <= Space(x)
<1>1. Space(x) = st[x].sendWindow + Carried(st[x].outbound, "DATA") + Carried(wire[x], "DATA")
                   + st[y].inbound + st[y].pendingWindowUpdate + app[y].update
                   + Carried(control[y], "WINDOW_UPDATE") + Carried(wire[y], "WINDOW_UPDATE")
  BY DEF Space
<1>2. /\ st[x].sendWindow \in Nat /\ Carried(st[x].outbound, "DATA") \in Nat
      /\ Carried(wire[x], "DATA") \in Nat
  BY SpaceParts
<1>3. /\ st[y].inbound \in Nat /\ st[y].pendingWindowUpdate \in Nat /\ app[y].update \in Nat
      /\ Carried(control[y], "WINDOW_UPDATE") \in Nat /\ Carried(wire[y], "WINDOW_UPDATE") \in Nat
  BY SpaceParts
<1> QED BY <1>1, <1>2, <1>3

LEMMA WriteEffect ==
    ASSUME TypeOK, NEW x \in Side, NEW n \in 1..Window, Write(x, n)
    PROVE  /\ TypeOK' /\ Quiet(x) /\ UNCHANGED <<app, control, wire, rcvd>>
           /\ app[x].phase = "proxy" /\ ~ st[x].closed /\ ~ st[x].localWriteClosed
           /\ SameFlags(st[x], st'[x])
           /\ st'[x].sendWindow = st[x].sendWindow - n
           /\ st'[x].outbound = Append(st[x].outbound, Data(n))
           /\ st'[x].receiveWindow = st[x].receiveWindow /\ st'[x].inbound = st[x].inbound
           /\ st'[x].pendingWindowUpdate = st[x].pendingWindowUpdate
           /\ sent'[x] = sent[x] + n
<1> DEFINE t == [st[x] EXCEPT !.sendWindow = st[x].sendWindow - n, !.outbound = Append(st[x].outbound, Data(n))]
<1>1. /\ app[x].phase = "proxy" /\ ~ st[x].closed /\ ~ st[x].localWriteClosed /\ n <= st[x].sendWindow
      /\ st' = [st EXCEPT ![x] = t] /\ sent' = [sent EXCEPT ![x] = sent[x] + n]
      /\ UNCHANGED <<app, control, wire, inner, alive, rcvd, scenario>> /\ st[x] \in Streams
  BY DEF Write, TypeOK
<1>2. st[x].sendWindow - n \in 0..Window
  <2>1. st[x].sendWindow \in 0..Window /\ Window \in Nat
    BY <1>1, MuxStreamAssumption DEF Streams
  <2> QED BY <1>1, <2>1
<1>3. Append(st[x].outbound, Data(n)) \in Seq(Frames)
  <2>1. n \in 0..Window
    BY MuxStreamAssumption
  <2>2. Data(n) \in Frames /\ st[x].outbound \in Seq(Frames)
    BY <2>1, FrameTypes, SpaceParts
  <2> QED BY <2>2
<1>4. t \in Streams
  BY <1>1, <1>2, <1>3 DEF Streams
<1>5. /\ SameFlags(st[x], t) /\ t.sendWindow = st[x].sendWindow - n
      /\ t.outbound = Append(st[x].outbound, Data(n))
      /\ t.receiveWindow = st[x].receiveWindow /\ t.inbound = st[x].inbound
      /\ t.pendingWindowUpdate = st[x].pendingWindowUpdate
  BY <1>1 DEF Streams, SameFlags
<1> HIDE DEF t
<1>6. st' \in [Side -> Streams] /\ st'[x] = t /\ st'[Other(x)] = st[Other(x)]
  BY <1>1, <1>4, PutStream
<1>7. sent' \in [Side -> Nat] /\ sent'[x] = sent[x] + n /\ sent'[Other(x)] = sent[Other(x)]
  BY <1>1, Sides DEF TypeOK
<1>8. TypeOK'
  BY <1>1, <1>6, <1>7 DEF TypeOK
<1> QED BY <1>1, <1>5, <1>6, <1>7, <1>8 DEF Quiet

\* The source ends, with or without an error.
LEMMA SourceEffect ==
    ASSUME TypeOK, NEW x \in Side, SourceEnds(x) \/ SourceFails(x)
    PROVE  /\ TypeOK' /\ Quiet(x) /\ UNCHANGED <<control, wire, sent, rcvd>>
           /\ app[x].phase = "proxy" /\ app'[x].phase = "proxy" /\ SameCopy(app[x], app'[x])
           /\ SameWindows(st[x], st'[x])
           /\ st'[x].registered = st[x].registered /\ st'[x].opened = st[x].opened
           /\ st'[x].closed = st[x].closed /\ st'[x].remoteWriteClosed = st[x].remoteWriteClosed
           /\ st'[x].closeAfterDrain = st[x].closeAfterDrain
           /\ \/ /\ st'[x].localWriteClosed = st[x].localWriteClosed
                 /\ st'[x].outbound = st[x].outbound
              \/ /\ ~ st[x].localWriteClosed /\ st'[x].localWriteClosed
                 /\ st'[x].outbound = Append(st[x].outbound, Frame("FIN"))
<1>1. /\ app[x].phase = "proxy" /\ st' = [st EXCEPT ![x] = CloseWrite(st[x])]
      /\ UNCHANGED <<control, wire, inner, alive, sent, rcvd, scenario>>
      /\ st[x] \in Streams /\ app[x] \in Apps
  BY DEF SourceEnds, SourceFails, TypeOK
<1>2. Append(st[x].outbound, Frame("FIN")) \in Seq(Frames)
  <2>1. Frame("FIN") \in Frames /\ st[x].outbound \in Seq(Frames)
    BY FrameTypes, SpaceParts
  <2> QED BY <2>1
<1>3. CloseWrite(st[x]) \in Streams
  BY <1>1, <1>2 DEF CloseWrite, Streams
<1>4. st' \in [Side -> Streams] /\ st'[x] = CloseWrite(st[x]) /\ st'[Other(x)] = st[Other(x)]
  BY <1>1, <1>3, PutStream
<1>5. /\ SameWindows(st[x], CloseWrite(st[x]))
      /\ CloseWrite(st[x]).registered = st[x].registered /\ CloseWrite(st[x]).opened = st[x].opened
      /\ CloseWrite(st[x]).closed = st[x].closed
      /\ CloseWrite(st[x]).remoteWriteClosed = st[x].remoteWriteClosed
      /\ CloseWrite(st[x]).closeAfterDrain = st[x].closeAfterDrain
      /\ \/ CloseWrite(st[x]) = st[x]
         \/ /\ ~ st[x].localWriteClosed /\ CloseWrite(st[x]).localWriteClosed
            /\ CloseWrite(st[x]).outbound = Append(st[x].outbound, Frame("FIN"))
  BY <1>1 DEF CloseWrite, Streams, SameWindows
<1>6. /\ app' \in [Side -> Apps] /\ app'[Other(x)] = app[Other(x)]
      /\ app'[x].phase = "proxy" /\ SameCopy(app[x], app'[x])
  <2>1. CASE app' = [app EXCEPT ![x].source = "err"]
    <3> DEFINE a == [app[x] EXCEPT !.source = "err"]
    <3>1. a \in Apps /\ a.phase = app[x].phase /\ SameCopy(app[x], a)
      BY <1>1 DEF Apps, SameCopy
    <3>2. app' = [app EXCEPT ![x] = a]
      BY <2>1
    <3> HIDE DEF a
    <3> QED BY <1>1, <3>1, <3>2, PutApp
  <2>2. CASE app' = [app EXCEPT ![x].source = "ok", ![x].eof = ~ app[x].reset]
    <3> DEFINE a == [app[x] EXCEPT !.source = "ok", !.eof = ~ app[x].reset]
    <3>1. a \in Apps /\ a.phase = app[x].phase /\ SameCopy(app[x], a)
      BY <1>1 DEF Apps, SameCopy
    <3>2. app' = [app EXCEPT ![x] = a]
      BY <2>2 DEF TypeOK
    <3> HIDE DEF a
    <3> QED BY <1>1, <3>1, <3>2, PutApp
  <2> QED BY <2>1, <2>2 DEF SourceEnds, SourceFails
<1>7. TypeOK'
  BY <1>1, <1>4, <1>6 DEF TypeOK
<1> QED BY <1>1, <1>4, <1>5, <1>6, <1>7 DEF Quiet

LEMMA ReadEffect ==
    ASSUME TypeOK, Balance, NEW x \in Side, NEW n \in 1..Window, Read(x, n)
    PROVE  LET pending == st[x].pendingWindowUpdate + n
           IN  /\ TypeOK' /\ Quiet(x) /\ UNCHANGED <<control, wire, sent, rcvd>>
               /\ app[x].phase = "proxy" /\ app[x].sink = "run" /\ app[x].held = 0
               /\ app'[x].phase = "proxy" /\ app'[x].sink = "run" /\ app'[x].held = n
               /\ app'[x].reset = app[x].reset
               /\ SameFlags(st[x], st'[x]) /\ st'[x].outbound = st[x].outbound
               /\ st'[x].sendWindow = st[x].sendWindow
               /\ n <= st[x].inbound /\ st'[x].inbound = st[x].inbound - n
               /\ st'[x].receiveWindow = st[x].receiveWindow + n
               /\ \/ st'[x].pendingWindowUpdate = 0 /\ app'[x].update = pending /\ pending >= Threshold
                  \/ st'[x].pendingWindowUpdate = pending /\ app'[x].update = 0
<1> DEFINE pending == st[x].pendingWindowUpdate + n
<1>1. PICK kept \in Nat, update \in Nat :
          /\ \/ kept = 0 /\ update = pending /\ pending >= Threshold
             \/ kept = pending /\ update = 0 /\ pending < Threshold
          /\ ReadWith(x, n, kept, update)
  <2>1. pending \in Nat /\ Threshold \in Nat
    BY SpaceParts
  <2>2. CASE pending >= Threshold
    BY <2>1, <2>2 DEF Read
  <2>3. CASE pending < Threshold
    <3>1. ReadWith(x, n, pending, 0)
      BY <2>1, <2>3 DEF Read
    <3> QED BY <2>1, <2>3, <3>1
  <2> QED BY <2>1, <2>2, <2>3
<1> DEFINE t == [st[x] EXCEPT !.inbound = st[x].inbound - n, !.receiveWindow = st[x].receiveWindow + n,
                    !.pendingWindowUpdate = kept]
           a == [app[x] EXCEPT !.held = n, !.update = update]
<1>2. /\ app[x].phase = "proxy" /\ app[x].sink = "run" /\ app[x].held = 0 /\ n <= st[x].inbound
      /\ st' = [st EXCEPT ![x] = t] /\ app' = [app EXCEPT ![x] = a]
      /\ UNCHANGED <<control, wire, inner, alive, sent, rcvd, scenario>>
      /\ st[x] \in Streams /\ app[x] \in Apps
  BY <1>1 DEF ReadWith, TypeOK
<1>3. st[x].inbound - n \in 0..Window /\ st[x].receiveWindow + n \in 0..Window /\ n \in 0..Window
  <2>1. st[x].receiveWindow \in 0..Window /\ st[x].inbound \in 0..Window /\ Window \in Nat
    BY <1>2, MuxStreamAssumption DEF Streams
  <2>2. st[x].receiveWindow + st[x].inbound = Window
    BY DEF Balance
  <2> QED BY <1>2, <2>1, <2>2
<1>4. pending <= Window /\ pending \in Nat
  <2> DEFINE y == Other(x)
  <2>1. y \in Side /\ Other(y) = x
    BY Sides
  <2>2. st[x].inbound + st[x].pendingWindowUpdate <= Space(y)
    BY <2>1, SpaceSum
  <2>3. Space(y) <= Window /\ Space(y) \in Nat
    BY <2>1, SpaceSum DEF Balance
  <2>4. st[x].pendingWindowUpdate \in Nat /\ st[x].inbound \in Nat
    BY SpaceParts
  <2> HIDE DEF y
  <2> QED BY <1>2, <2>2, <2>3, <2>4, MuxStreamAssumption
<1>5. kept \in 0..(Threshold - 1) /\ update \in 0..Window
  BY <1>1, <1>4, MuxStreamAssumption
<1>6. t \in Streams
  BY <1>2, <1>3, <1>5 DEF Streams
<1>7. a \in Apps
  BY <1>2, <1>3, <1>5 DEF Apps
<1>8. /\ SameFlags(st[x], t) /\ t.outbound = st[x].outbound /\ t.sendWindow = st[x].sendWindow
      /\ t.inbound = st[x].inbound - n /\ t.receiveWindow = st[x].receiveWindow + n
      /\ t.pendingWindowUpdate = kept
  BY <1>2 DEF Streams, SameFlags
<1>9. a.phase = "proxy" /\ a.sink = "run" /\ a.held = n /\ a.update = update /\ a.reset = app[x].reset
  BY <1>2 DEF Apps
<1> HIDE DEF t, a
<1>10. st' \in [Side -> Streams] /\ st'[x] = t /\ st'[Other(x)] = st[Other(x)]
  BY <1>2, <1>6, PutStream
<1>11. app' \in [Side -> Apps] /\ app'[x] = a /\ app'[Other(x)] = app[Other(x)]
  BY <1>2, <1>7, PutApp
<1>12. TypeOK'
  BY <1>2, <1>10, <1>11 DEF TypeOK
<1> QED BY <1>1, <1>2, <1>8, <1>9, <1>10, <1>11, <1>12 DEF Quiet

LEMMA ForwardEffect ==
    ASSUME TypeOK, NEW x \in Side, Forward(x)
    PROVE  /\ TypeOK' /\ Quiet(x) /\ UNCHANGED <<st, wire, sent>>
           /\ app[x].held > 0 /\ app'[x].held = 0 /\ app'[x].update = 0
           /\ app'[x].phase = app[x].phase /\ app'[x].reset = app[x].reset
           /\ \/ app'[x].sink = app[x].sink /\ rcvd'[x] = rcvd[x] + app[x].held
              \/ app[x].reset /\ app'[x].sink = "ok" /\ rcvd'[x] = rcvd[x]
              \/ app'[x].sink = "err" /\ rcvd'[x] = rcvd[x]
           /\ IF app[x].update > 0 THEN Queued(x, Update(app[x].update)) ELSE UNCHANGED control
<1> DEFINE taken == [app[x] EXCEPT !.held = 0, !.update = 0]
<1>0. app[x] \in Apps /\ app[x].held > 0 /\ UNCHANGED <<st, wire, inner, alive, sent, scenario>>
  BY DEF Forward, TypeOK
<1>1. /\ control' \in [Side -> Seq(Frames)] /\ control'[Other(x)] = control[Other(x)]
      /\ IF app[x].update > 0 THEN Queued(x, Update(app[x].update)) ELSE UNCHANGED control
  <2>1. CASE app[x].update > 0
    <3>1. sendControl(x, Update(app[x].update))
      BY <2>1 DEF Forward
    <3>2. app[x].update \in 0..Window
      BY <1>0 DEF Apps
    <3> QED BY <2>1, <3>1, <3>2, FrameTypes, ControlEffect
  <2>2. CASE ~ (app[x].update > 0)
    BY <2>2 DEF Forward, TypeOK
  <2> QED BY <2>1, <2>2
<1>2. 0 \in 0..Window
  BY MuxStreamAssumption
<1>3. /\ taken \in Apps /\ taken.held = 0 /\ taken.update = 0 /\ taken.phase = app[x].phase
      /\ taken.reset = app[x].reset /\ taken.sink = app[x].sink
  BY <1>0, <1>2 DEF Apps
<1> HIDE DEF taken
<1>4. PICK a \in Apps :
        /\ app' = [app EXCEPT ![x] = a]
        /\ a.held = 0 /\ a.update = 0 /\ a.phase = app[x].phase /\ a.reset = app[x].reset
        /\ \/ a.sink = app[x].sink /\ rcvd' = [rcvd EXCEPT ![x] = rcvd[x] + app[x].held]
           \/ app[x].reset /\ a.sink = "ok" /\ rcvd' = rcvd
           \/ a.sink = "err" /\ rcvd' = rcvd
  <2>1. CASE app' = [app EXCEPT ![x] = taken] /\ rcvd' = [rcvd EXCEPT ![x] = rcvd[x] + app[x].held]
    BY <1>3, <2>1
  <2>2. ASSUME NEW k \in {"ok", "err"}
        PROVE  LET a == [taken EXCEPT !.sink = k]
               IN  /\ a \in Apps /\ a.held = 0 /\ a.update = 0 /\ a.phase = app[x].phase
                   /\ a.reset = app[x].reset /\ a.sink = k
    BY <1>3 DEF Apps
  <2>3. CASE app[x].reset /\ app' = [app EXCEPT ![x] = [taken EXCEPT !.sink = "ok"]] /\ rcvd' = rcvd
    BY <2>2, <2>3
  <2>4. CASE app' = [app EXCEPT ![x] = [taken EXCEPT !.sink = "err"]] /\ rcvd' = rcvd
    BY <2>2, <2>4
  <2> QED BY <2>1, <2>3, <2>4 DEF Forward, taken
<1>5. app' \in [Side -> Apps] /\ app'[x] = a /\ app'[Other(x)] = app[Other(x)]
  BY <1>4, PutApp
<1>6. app[x].held \in Nat /\ rcvd \in [Side -> Nat]
  BY SpaceParts DEF TypeOK
<1>7. /\ rcvd' \in [Side -> Nat] /\ rcvd'[Other(x)] = rcvd[Other(x)]
      /\ rcvd'[x] = rcvd[x] \/ rcvd'[x] = rcvd[x] + app[x].held
  BY <1>4, <1>6, Sides
<1>8. rcvd' = [rcvd EXCEPT ![x] = rcvd[x] + app[x].held] => rcvd'[x] = rcvd[x] + app[x].held
  BY <1>6
<1>9. TypeOK'
  BY <1>0, <1>1, <1>5, <1>7 DEF TypeOK
<1> QED BY <1>0, <1>1, <1>4, <1>5, <1>7, <1>8, <1>9 DEF Quiet

LEMMA SinkEffect ==
    ASSUME TypeOK, NEW x \in Side, SinkEnds(x) \/ SinkFails(x)
    PROVE  /\ TypeOK' /\ Quiet(x) /\ UNCHANGED <<st, control, wire, sent, rcvd>>
           /\ app[x].sink = "run" /\ app[x].held = 0 /\ app'[x].held = 0
           /\ app'[x].phase = app[x].phase /\ app'[x].update = app[x].update
           /\ app'[x].reset = app[x].reset
           /\ \/ app'[x].sink = "ok" /\ st[x].inbound = 0 /\ st[x].remoteWriteClosed
              \/ app'[x].sink = "err"
<1>0. /\ app[x] \in Apps /\ app[x].held = 0 /\ app[x].sink = "run"
      /\ UNCHANGED <<st, control, wire, inner, alive, sent, rcvd, scenario>>
  BY DEF SinkEnds, SinkFails, TypeOK
<1>1. PICK k \in {"ok", "err"} :
        /\ app' = [app EXCEPT ![x].sink = k]
        /\ k = "ok" => st[x].inbound = 0 /\ st[x].remoteWriteClosed
  BY DEF SinkEnds, SinkFails
<1> DEFINE a == [app[x] EXCEPT !.sink = k]
<1>2. /\ a \in Apps /\ a.sink = k /\ a.held = app[x].held /\ a.phase = app[x].phase
      /\ a.update = app[x].update /\ a.reset = app[x].reset
  BY <1>0 DEF Apps
<1>3. app' = [app EXCEPT ![x] = a]
  BY <1>1
<1> HIDE DEF a
<1>4. app' \in [Side -> Apps] /\ app'[x] = a /\ app'[Other(x)] = app[Other(x)]
  BY <1>2, <1>3, PutApp
<1>5. TypeOK'
  BY <1>0, <1>4 DEF TypeOK
<1> QED BY <1>0, <1>1, <1>2, <1>4, <1>5 DEF Quiet

LEMMA ProxyFailsEffect ==
    ASSUME TypeOK, NEW x \in Side, ProxyFails(x)
    PROVE  /\ TypeOK' /\ Quiet(x) /\ UNCHANGED <<wire, sent, rcvd>> /\ Reset(x)
           /\ app'[x].phase = app[x].phase /\ app'[x].update = app[x].update
           /\ app'[x].held = app[x].held /\ app'[x].sink = app[x].sink /\ app'[x].reset
<1>0. /\ app[x] \in Apps /\ Reset(x) /\ UNCHANGED <<wire, inner, alive, sent, rcvd, scenario>>
  BY DEF ProxyFails, TypeOK
<1> DEFINE a == [app[x] EXCEPT !.reset = TRUE]
<1>1. /\ a \in Apps /\ a.reset /\ a.held = app[x].held /\ a.phase = app[x].phase
      /\ a.update = app[x].update /\ a.sink = app[x].sink
  BY <1>0 DEF Apps
<1>2. app' = [app EXCEPT ![x] = a]
  BY DEF ProxyFails
<1> HIDE DEF a
<1>3. app' \in [Side -> Apps] /\ app'[x] = a /\ app'[Other(x)] = app[Other(x)]
  BY <1>1, <1>2, PutApp
<1>4. /\ st' \in [Side -> Streams] /\ control' \in [Side -> Seq(Frames)]
      /\ st'[Other(x)] = st[Other(x)] /\ control'[Other(x)] = control[Other(x)]
  BY <1>0, ResetEffect
<1>5. TypeOK'
  BY <1>0, <1>3, <1>4 DEF TypeOK
<1> QED BY <1>0, <1>1, <1>3, <1>4, <1>5 DEF Quiet

LEMMA ProxyEndsEffect ==
    ASSUME TypeOK, NEW x \in Side, ProxyEnds(x)
    PROVE  /\ TypeOK' /\ Quiet(x) /\ UNCHANGED <<wire, sent, rcvd>>
           /\ app[x].phase = "proxy" /\ app'[x].phase = "done" /\ SameCopy(app[x], app'[x])
           /\ \/ st[x].closed /\ UNCHANGED <<st, control>>
              \/ /\ ~ st[x].closed /\ st'[x].closed
                 /\ SameWindows(st[x], st'[x]) /\ st'[x].outbound = st[x].outbound
                 /\ st'[x].opened = st[x].opened
                 /\ st'[x].localWriteClosed = st[x].localWriteClosed
                 /\ st'[x].remoteWriteClosed = st[x].remoteWriteClosed
                 /\ UNCHANGED control \/ Queued(x, Frame("RESET"))
<1>0. /\ st[x] \in Streams /\ Close(x) /\ app[x].phase = "proxy"
      /\ app' = [app EXCEPT ![x].phase = "done"]
      /\ UNCHANGED <<wire, inner, alive, sent, rcvd, scenario>>
  BY DEF ProxyEnds, TypeOK
<1>1. /\ app' \in [Side -> Apps] /\ app'[Other(x)] = app[Other(x)]
      /\ app'[x].phase = "done" /\ SameCopy(app[x], app'[x])
  BY <1>0, PhaseEffect
<1>2. CASE st[x].closed
  <2>1. UNCHANGED <<st, control>>
    BY <1>0, <1>2 DEF Close
  <2>2. TypeOK'
    BY <1>0, <1>1, <2>1 DEF TypeOK
  <2> QED BY <1>0, <1>1, <1>2, <2>1, <2>2 DEF Quiet
<1>3. CASE ~ st[x].closed
  <2> DEFINE graceful == st[x].localWriteClosed /\ st[x].remoteWriteClosed
             t == [st[x] EXCEPT !.closed = TRUE, !.closeAfterDrain = graceful,
                                !.registered = graceful /\ st[x].outbound # <<>>]
  <2>1. st' = [st EXCEPT ![x] = t]
    BY <1>0, <1>3 DEF Close
  <2>2. UNCHANGED control \/ sendControl(x, Frame("RESET"))
    BY <1>0, <1>3 DEF Close
  <2>3. t \in Streams
    BY <1>0 DEF Streams
  <2>4. /\ t.closed /\ SameWindows(st[x], t) /\ t.outbound = st[x].outbound
        /\ t.opened = st[x].opened /\ t.localWriteClosed = st[x].localWriteClosed
        /\ t.remoteWriteClosed = st[x].remoteWriteClosed
    BY <1>0 DEF Streams, SameWindows
  <2> HIDE DEF t
  <2>5. st' \in [Side -> Streams] /\ st'[x] = t /\ st'[Other(x)] = st[Other(x)]
    BY <2>1, <2>3, PutStream
  <2>6. /\ control' \in [Side -> Seq(Frames)] /\ control'[Other(x)] = control[Other(x)]
        /\ UNCHANGED control \/ Queued(x, Frame("RESET"))
    BY <2>2, FrameTypes, ControlEffect DEF TypeOK
  <2>7. TypeOK'
    BY <1>0, <1>1, <2>5, <2>6 DEF TypeOK
  <2> QED BY <1>0, <1>1, <1>3, <2>4, <2>5, <2>6, <2>7 DEF Quiet
<1> QED BY <1>2, <1>3

-----------------------------------------------------------------------------
(* Flow control. Own: the sender's window, its bytes up to the link and the *)
(* space that the link brings back to it; Back: the rest of the other       *)
(* direction's window, as far as x and the link hold it.                    *)

Own(x) ==
    st[x].sendWindow + Carried(st[x].outbound, "DATA") + Carried(wire[x], "DATA")
      + Carried(wire[Other(x)], "WINDOW_UPDATE")

Returning(x) ==
    st[x].inbound + st[x].pendingWindowUpdate + app[x].update
      + Carried(control[x], "WINDOW_UPDATE") + Carried(wire[x], "WINDOW_UPDATE")

Back(x) == Carried(wire[Other(x)], "DATA") + Returning(x)

\* A step of x keeps both sums; it may lose space only when it closes x.
BalanceMove(x) ==
    /\ st'[x].receiveWindow + st'[x].inbound = Window
    /\ app'[x].update # 0 => app'[x].update >= Threshold
    /\ st[x].closed => st'[x].closed
    /\ \/ Own(x)' = Own(x) /\ Back(x)' = Back(x)
       \/ Own(x)' <= Own(x) /\ Back(x)' <= Back(x) /\ st'[x].closed

\* What the other side holds of the window of x, and of its own.
Far(x) ==
    LET y == Other(x)
    IN  st[y].inbound + st[y].pendingWindowUpdate + app[y].update + Carried(control[y], "WINDOW_UPDATE")

Near(x) == LET y == Other(x) IN st[y].sendWindow + Carried(st[y].outbound, "DATA")

SpaceSplit(x) ==
    /\ Space(x) = Own(x) + Far(x) /\ Space(Other(x)) = Back(x) + Near(x)
    /\ Own(x) \in Nat /\ Back(x) \in Nat /\ Far(x) \in Nat /\ Near(x) \in Nat

SpaceSplits == \A x \in Side : SpaceSplit(x)

LEMMA SpaceOwn == TypeOK => SpaceSplits
<1> SUFFICES ASSUME TypeOK, NEW x \in Side PROVE SpaceSplit(x)
  BY DEF SpaceSplits
<1> DEFINE y == Other(x)
<1>0. y \in Side
  BY Sides
<1>1. Other(y) = x
  BY Sides
<1>2. /\ st[x].sendWindow \in Nat /\ st[x].inbound \in Nat /\ st[x].pendingWindowUpdate \in Nat
      /\ app[x].update \in Nat
      /\ Carried(st[x].outbound, "DATA") \in Nat /\ Carried(wire[x], "DATA") \in Nat
      /\ Carried(control[x], "WINDOW_UPDATE") \in Nat /\ Carried(wire[x], "WINDOW_UPDATE") \in Nat
  BY SpaceParts
<1>3. /\ st[y].sendWindow \in Nat /\ st[y].inbound \in Nat /\ st[y].pendingWindowUpdate \in Nat
      /\ app[y].update \in Nat
      /\ Carried(st[y].outbound, "DATA") \in Nat /\ Carried(wire[y], "DATA") \in Nat
      /\ Carried(control[y], "WINDOW_UPDATE") \in Nat /\ Carried(wire[y], "WINDOW_UPDATE") \in Nat
  BY <1>0, SpaceParts
<1>4. /\ Space(x) = st[x].sendWindow + Carried(st[x].outbound, "DATA") + Carried(wire[x], "DATA")
                   + st[y].inbound + st[y].pendingWindowUpdate + app[y].update
                   + Carried(control[y], "WINDOW_UPDATE") + Carried(wire[y], "WINDOW_UPDATE")
      /\ Space(y) = st[y].sendWindow + Carried(st[y].outbound, "DATA") + Carried(wire[y], "DATA")
                   + st[x].inbound + st[x].pendingWindowUpdate + app[x].update
                   + Carried(control[x], "WINDOW_UPDATE") + Carried(wire[x], "WINDOW_UPDATE")
  BY <1>1 DEF Space
<1>5. /\ Own(x) = st[x].sendWindow + Carried(st[x].outbound, "DATA") + Carried(wire[x], "DATA")
                    + Carried(wire[y], "WINDOW_UPDATE")
      /\ Back(x) = Carried(wire[y], "DATA") + (st[x].inbound + st[x].pendingWindowUpdate + app[x].update
                     + Carried(control[x], "WINDOW_UPDATE") + Carried(wire[x], "WINDOW_UPDATE"))
  BY DEF Own, Back, Returning
<1>6. /\ Far(x) = st[y].inbound + st[y].pendingWindowUpdate + app[y].update
                     + Carried(control[y], "WINDOW_UPDATE")
      /\ Near(x) = st[y].sendWindow + Carried(st[y].outbound, "DATA")
  BY DEF Far, Near
<1>7. SpaceSplit(x) = (/\ Space(x) = Own(x) + Far(x) /\ Space(y) = Back(x) + Near(x)
                       /\ Own(x) \in Nat /\ Back(x) \in Nat /\ Far(x) \in Nat /\ Near(x) \in Nat)
  BY DEF SpaceSplit
<1> HIDE DEF y
<1> QED BY <1>2, <1>3, <1>4, <1>5, <1>6, <1>7

LEMMA ReturningNat == ASSUME TypeOK, NEW x \in Side PROVE Returning(x) \in Nat
<1>1. /\ st[x].inbound \in Nat /\ st[x].pendingWindowUpdate \in Nat /\ app[x].update \in Nat
      /\ Carried(control[x], "WINDOW_UPDATE") \in Nat /\ Carried(wire[x], "WINDOW_UPDATE") \in Nat
  BY SpaceParts
<1> QED BY <1>1 DEF Returning

LEMMA BalanceStep ==
    ASSUME TypeOK, TypeOK', Balance, WindowConserved, NEW x \in Side, Quiet(x), BalanceMove(x)
    PROVE  Balance' /\ WindowConserved'
<1>0. PICK y \in Side : y = Other(x)
  BY Sides
<1>1. y = Other(x) /\ Other(y) = x /\ \A z \in Side : z = x \/ z = y
  BY <1>0, Sides
<1>2. /\ Space(x) = Own(x) + Far(x) /\ Space(y) = Back(x) + Near(x)
      /\ Own(x) \in Nat /\ Back(x) \in Nat /\ Far(x) \in Nat /\ Near(x) \in Nat
  BY <1>1, SpaceOwn DEF SpaceSplits, SpaceSplit
<1>3. SpaceSplits'
  BY SpaceOwn, PTL
<1>3a. /\ Space(x)' = Own(x)' + Far(x)' /\ Space(y)' = Back(x)' + Near(x)'
       /\ Own(x)' \in Nat /\ Back(x)' \in Nat
  BY <1>1, <1>3 DEF SpaceSplits, SpaceSplit
<1>4. Far(x)' = Far(x) /\ Near(x)' = Near(x) /\ st'[y] = st[y] /\ app'[y] = app[y]
  BY <1>1 DEF Quiet, Far, Near
<1>5. /\ Space(x) <= Window /\ Space(y) <= Window /\ Window \in Nat
      /\ st[y].receiveWindow + st[y].inbound = Window
      /\ app[y].update # 0 => app[y].update >= Threshold
      /\ ~ st[x].closed /\ ~ st[y].closed => Space(x) = Window /\ Space(y) = Window
  BY <1>1, MuxStreamAssumption DEF Balance, WindowConserved
<1>6. /\ Space(x)' <= Window /\ Space(y)' <= Window
      /\ ~ st'[x].closed /\ ~ st'[y].closed => Space(x)' = Window /\ Space(y)' = Window
  <2>1. CASE Own(x)' = Own(x) /\ Back(x)' = Back(x)
    <3>1. Space(x)' = Space(x) /\ Space(y)' = Space(y)
      BY <1>2, <1>3a, <1>4, <2>1
    <3> QED BY <1>4, <1>5, <3>1 DEF BalanceMove
  <2>2. CASE Own(x)' <= Own(x) /\ Back(x)' <= Back(x) /\ st'[x].closed
    <3>1. Own(x)' + Far(x) <= Own(x) + Far(x) /\ Back(x)' + Near(x) <= Back(x) + Near(x)
      BY <1>2, <1>3a, <2>2
    <3>2. Space(x)' <= Space(x) /\ Space(y)' <= Space(y)
      BY <1>2, <1>3a, <1>4, <3>1, Zenon
    <3>3. Space(x)' \in Nat /\ Space(x) \in Nat /\ Space(y)' \in Nat /\ Space(y) \in Nat
      BY <1>2, <1>3a, <1>4
    <3> QED BY <1>5, <2>2, <3>2, <3>3
  <2> QED BY <2>1, <2>2 DEF BalanceMove
<1>7. Balance'
  BY <1>1, <1>4, <1>5, <1>6 DEF Balance, BalanceMove
<1>8. WindowConserved'
  BY <1>1, <1>6 DEF WindowConserved
<1> QED BY <1>7, <1>8

\* A frame read off the link, and what it leaves there.
LEMMA ReceivedCarried ==
    ASSUME TypeOK, NEW x \in Side, NEW types, Receives(x, types), NEW type
    PROVE  LET y == Other(x)
           IN  /\ Carried(wire[y], type) = (IF Incoming(x).type = type THEN Incoming(x).n ELSE 0)
                                             + Carried(wire'[y], type)
               /\ Carried(wire[y], type) \in Nat /\ Carried(wire'[y], type) \in Nat
               /\ Incoming(x).n \in Nat /\ wire'[x] = wire[x]
<1> DEFINE y == Other(x)
<1>1. /\ wire[y] \in Seq(Frames) /\ wire[y] # <<>> /\ wire'[y] = Tail(wire[y]) /\ wire'[x] = wire[x]
      /\ Incoming(x) = Head(wire[y]) /\ Incoming(x) \in Frames
  BY ReceiveEffect
<1>2. Tail(wire[y]) \in Seq(Frames) /\ Incoming(x).n \in Nat
  BY <1>1, FrameTypes, MuxStreamAssumption
<1>3. /\ Carried(wire[y], type) \in Nat /\ Carried(Tail(wire[y]), type) \in Nat
      /\ Carried(wire[y], type) = (IF Head(wire[y]).type = type THEN Head(wire[y]).n ELSE 0)
                                    + Carried(Tail(wire[y]), type)
  BY <1>1, <1>2, CarriedFacts
<1> QED BY <1>1, <1>2, <1>3

LEMMA QueuedCarried ==
    ASSUME TypeOK, NEW x \in Side, NEW f \in Frames, Queued(x, f)
    PROVE  Carried(control'[x], "WINDOW_UPDATE") =
             Carried(control[x], "WINDOW_UPDATE") + (IF f.type = "WINDOW_UPDATE" THEN f.n ELSE 0)
BY CarriedFacts DEF TypeOK, Queued

\* x gives up the stream, reading a frame or not.
LEMMA BalanceGone ==
    ASSUME TypeOK, Balance, NEW x \in Side,
           st'[x].closed, SameWindows(st[x], st'[x]), st'[x].outbound \in {st[x].outbound, <<>>},
           app'[x].update = app[x].update,
           control'[x] = control[x] \/ \E f \in Frames : Queued(x, f) /\ f.type # "WINDOW_UPDATE",
           UNCHANGED wire \/ \E types : Receives(x, types)
    PROVE  BalanceMove(x)
<1>2. PICK y \in Side : y = Other(x)
  BY Sides
<1>1. Carried(control'[x], "WINDOW_UPDATE") = Carried(control[x], "WINDOW_UPDATE")
  <2>1. CASE control'[x] = control[x]
    BY <2>1
  <2>2. CASE \E f \in Frames : Queued(x, f) /\ f.type # "WINDOW_UPDATE"
    <3>1. PICK f \in Frames : Queued(x, f) /\ f.type # "WINDOW_UPDATE"
      BY <2>2
    <3>2. Carried(control[x], "WINDOW_UPDATE") \in Nat
      BY SpaceParts
    <3> QED BY <3>1, <3>2, QueuedCarried
  <2> QED BY <2>1, <2>2
<1>3. ASSUME NEW type PROVE /\ Carried(wire'[y], type) <= Carried(wire[y], type) /\ wire'[x] = wire[x]
                            /\ Carried(wire'[y], type) \in Nat /\ Carried(wire[y], type) \in Nat
  <2>0. Carried(wire[y], type) \in Nat
    BY <1>2, CarriedFacts DEF TypeOK
  <2>1. CASE UNCHANGED wire
    BY <2>0, <2>1
  <2>2. CASE \E types : Receives(x, types)
    <3>1. PICK types : Receives(x, types)
      BY <2>2
    <3>2. /\ Carried(wire[y], type) = (IF Incoming(x).type = type THEN Incoming(x).n ELSE 0)
                                             + Carried(wire'[y], type)
          /\ Carried(wire'[y], type) \in Nat /\ Incoming(x).n \in Nat /\ wire'[x] = wire[x]
      <4>1. /\ Carried(wire[Other(x)], type) = (IF Incoming(x).type = type THEN Incoming(x).n ELSE 0)
                                                  + Carried(wire'[Other(x)], type)
            /\ Carried(wire'[Other(x)], type) \in Nat /\ Incoming(x).n \in Nat /\ wire'[x] = wire[x]
        BY ONLY <3>1, TypeOK, x \in Side, ReceivedCarried
      <4> QED BY ONLY <4>1, <1>2, Zenon
    <3>3. CASE Incoming(x).type = type
      BY <2>0, <3>2, <3>3
    <3>4. CASE Incoming(x).type # type
      BY <2>0, <3>2, <3>4
    <3> QED BY <3>3, <3>4
  <2> QED BY <2>1, <2>2
<1>4. /\ Carried(st'[x].outbound, "DATA") <= Carried(st[x].outbound, "DATA")
      /\ Carried(st'[x].outbound, "DATA") \in Nat
  BY SpaceParts, CarriedEmpty, SMTT(30)
<1>5. /\ Carried(wire[y], "WINDOW_UPDATE") \in Nat /\ Carried(wire[y], "DATA") \in Nat
      /\ Carried(wire'[y], "WINDOW_UPDATE") \in Nat /\ Carried(wire'[y], "DATA") \in Nat
      /\ Carried(wire'[y], "WINDOW_UPDATE") <= Carried(wire[y], "WINDOW_UPDATE")
      /\ Carried(wire'[y], "DATA") <= Carried(wire[y], "DATA") /\ wire'[x] = wire[x]
  BY <1>3
<1>6. /\ st[x].sendWindow \in Nat /\ st[x].inbound \in Nat /\ st[x].pendingWindowUpdate \in Nat
      /\ app[x].update \in Nat
      /\ Carried(st[x].outbound, "DATA") \in Nat /\ Carried(wire[x], "DATA") \in Nat
      /\ Carried(control[x], "WINDOW_UPDATE") \in Nat /\ Carried(wire[x], "WINDOW_UPDATE") \in Nat
  BY SpaceParts
<1>7. Own(x)' <= Own(x)
  <2>1. /\ Own(x)' = st[x].sendWindow + Carried(st'[x].outbound, "DATA") + Carried(wire[x], "DATA")
                       + Carried(wire'[y], "WINDOW_UPDATE")
        /\ Own(x) = st[x].sendWindow + Carried(st[x].outbound, "DATA") + Carried(wire[x], "DATA")
                       + Carried(wire[y], "WINDOW_UPDATE")
    BY <1>2, <1>5 DEF Own, SameWindows
  <2>2. \A a, b, c, d, e, f \in Nat : e <= b /\ f <= d => a + e + c + f <= a + b + c + d
    OBVIOUS
  <2>3. st[x].sendWindow + Carried(st'[x].outbound, "DATA") + Carried(wire[x], "DATA")
          + Carried(wire'[y], "WINDOW_UPDATE") <=
        st[x].sendWindow + Carried(st[x].outbound, "DATA") + Carried(wire[x], "DATA")
          + Carried(wire[y], "WINDOW_UPDATE")
    BY <1>4, <1>5, <1>6, <2>2
  <2> QED BY <2>1, <2>3, Zenon
<1>8. Back(x)' <= Back(x)
  <2>1. Returning(x) \in Nat
    BY ReturningNat
  <2>2. Returning(x)' = Returning(x)
    BY <1>1, <1>5 DEF Returning, SameWindows
  <2>3. Carried(wire'[y], "DATA") + Returning(x) <= Carried(wire[y], "DATA") + Returning(x)
    BY <1>5, <2>1
  <2> QED BY <1>2, <2>2, <2>3, Zenon DEF Back
<1>9. st[x].receiveWindow + st[x].inbound = Window /\ (app[x].update # 0 => app[x].update >= Threshold)
  BY DEF Balance
<1> QED BY <1>7, <1>8, <1>9 DEF BalanceMove, SameWindows

\* x keeps its windows and its frames, reading a frame without bytes or none.
LEMMA BalanceKept ==
    ASSUME TypeOK, Balance, NEW x \in Side,
           st[x].closed => st'[x].closed, SameWindows(st[x], st'[x]),
           Carried(st'[x].outbound, "DATA") = Carried(st[x].outbound, "DATA"),
           app'[x].update = app[x].update,
           control'[x] = control[x] \/ \E f \in Frames : Queued(x, f) /\ f.type # "WINDOW_UPDATE",
           wire'[x] = wire[x],
           \A type \in {"DATA", "WINDOW_UPDATE"} :
               Carried(wire'[Other(x)], type) = Carried(wire[Other(x)], type)
    PROVE  BalanceMove(x)
<1>1. Carried(control'[x], "WINDOW_UPDATE") = Carried(control[x], "WINDOW_UPDATE")
  <2>1. CASE control'[x] = control[x]
    BY <2>1
  <2>2. CASE \E f \in Frames : Queued(x, f) /\ f.type # "WINDOW_UPDATE"
    <3>1. PICK f \in Frames : Queued(x, f) /\ f.type # "WINDOW_UPDATE"
      BY <2>2
    <3>2. Carried(control[x], "WINDOW_UPDATE") \in Nat
      BY SpaceParts
    <3> QED BY <3>1, <3>2, QueuedCarried
  <2> QED BY <2>1, <2>2
<1>2. Own(x)' = Own(x)
  BY DEF Own, SameWindows
<1>3. Back(x)' = Back(x)
  BY <1>1 DEF Back, Returning, SameWindows
<1>4. st[x].receiveWindow + st[x].inbound = Window /\ (app[x].update # 0 => app[x].update >= Threshold)
  BY DEF Balance
<1> QED BY <1>2, <1>3, <1>4 DEF BalanceMove, SameWindows

-----------------------------------------------------------------------------
(* Opening and closing.                                                    *)

OutFrames == {f \in Frames : f.type \in {"DATA", "FIN"}}

ControlFrames ==
    {f \in Frames : /\ f.type \notin {"DATA", "FIN"}
                    /\ f.type = "WINDOW_UPDATE" => f.n >= Threshold}

\* What the two queues of a stream hold.
KindsAt(x) == st[x].outbound \in Seq(OutFrames) /\ control[x] \in Seq(ControlFrames)
Kinds == \A x \in Side : KindsAt(x)

Count(type) == [f \in Frames |-> IF f.type = type THEN 1 ELSE 0]
Single == [f \in Frames |-> IF f.type = "WINDOW_UPDATE" THEN 0 ELSE 1]

\* How many frames of a type x has queued or sent and its peer has not read.
Marks(x, type) == Weight(control[x], Count(type)) + Weight(wire[x], Count(type))

One(b) == IF b THEN 1 ELSE 0

\* How the stream's flags follow the connection's goroutine.
Lifecycle(x) ==
    /\ app[x].phase = "idle" => ~ st[x].registered /\ ~ st[x].closed
    /\ app[x].phase = "proxy" => st[x].opened
    /\ st[x].opened => app[x].phase # "idle"
    /\ st[x].opened /\ ~ st[x].closed => st[x].registered
    /\ ~ st[x].opened => st[x].outbound = <<>> /\ st[x].sendWindow = Window
    /\ st[x].closeAfterDrain => st[x].closed
    /\ app[x].phase # "idle" /\ ~ st[x].closed => st[x].registered
    /\ x = Server /\ app[x].phase = "opening" => ~ st[x].opened

\* One as long as the stream may still be opened or has been accepted, none once
\* the server has refused it.
Chances == Marks(Client, "OPEN") + One(app[Server].phase # "idle") + One(app[Client].phase = "idle")

Opens ==
    /\ \A x \in Side : Lifecycle(x)
    /\ st[Client].opened => st[Server].opened
    /\ \A x \in Side : Marks(x, "OPEN_OK") > 0 => x = Server /\ st[Server].opened
    /\ Chances <= 1

\* The frames of a stream in the control queue besides window updates: one for
\* its opening and one for its end.
Share ==
    /\ Weight(control[Client], Single) <= One(app[Client].phase # "idle") + One(st[Client].closed)
    /\ Weight(control[Server], Single) <= One(st[Server].opened) + One(st[Server].closed) + (1 - Chances)

LEMMA Counts ==
    /\ \A type : Count(type) \in [Frames -> Nat]
    /\ \A type : \A f \in Frames : Count(type)[f] = IF f.type = type THEN 1 ELSE 0
    /\ Single \in [Frames -> Nat]
    /\ \A f \in Frames : Single[f] = IF f.type = "WINDOW_UPDATE" THEN 0 ELSE 1
BY DEF Count, Single

LEMMA MarksNat ==
    ASSUME TypeOK, NEW x \in Side, NEW type
    PROVE  /\ Weight(control[x], Count(type)) \in Nat /\ Weight(wire[x], Count(type)) \in Nat
           /\ Marks(x, type) \in Nat /\ Weight(control[x], Single) \in Nat
<1>1. control[x] \in Seq(Frames) /\ wire[x] \in Seq(Frames)
  BY DEF TypeOK
<1>2. Count(type) \in [Frames -> Nat] /\ Single \in [Frames -> Nat]
  BY Counts
<1>3. Weight(control[x], Count(type)) \in Nat /\ Weight(wire[x], Count(type)) \in Nat
  BY <1>1, <1>2, Weights
<1>4. Weight(control[x], Single) \in Nat
  BY <1>1, <1>2, Weights
<1> QED BY <1>3, <1>4 DEF Marks

LEMMA MarksQueued ==
    ASSUME TypeOK, NEW x \in Side, NEW f \in Frames, Queued(x, f), wire'[x] = wire[x]
    PROVE  /\ \A type : Marks(x, type)' = Marks(x, type) + (IF f.type = type THEN 1 ELSE 0)
           /\ Weight(control'[x], Single) =
                Weight(control[x], Single) + (IF f.type = "WINDOW_UPDATE" THEN 0 ELSE 1)
<1>1. control[x] \in Seq(Frames) /\ control'[x] = Append(control[x], f)
  BY DEF TypeOK, Queued
<1>2. ASSUME NEW type PROVE Marks(x, type)' = Marks(x, type) + (IF f.type = type THEN 1 ELSE 0)
  <2>1. Count(type) \in [Frames -> Nat] /\ Count(type)[f] = IF f.type = type THEN 1 ELSE 0
    BY Counts
  <2>2. Weight(control'[x], Count(type)) = Weight(control[x], Count(type)) + Count(type)[f]
    BY <1>1, <2>1, WeightAppend
  <2>3. Weight(control[x], Count(type)) \in Nat /\ Weight(wire[x], Count(type)) \in Nat
    BY MarksNat
  <2>4. Marks(x, type)' = Weight(control'[x], Count(type)) + Weight(wire[x], Count(type))
    BY DEF Marks
  <2>5. Marks(x, type) = Weight(control[x], Count(type)) + Weight(wire[x], Count(type))
    BY DEF Marks
  <2> QED BY <2>1, <2>2, <2>3, <2>4, <2>5
<1>3. Single \in [Frames -> Nat] /\ Single[f] = IF f.type = "WINDOW_UPDATE" THEN 0 ELSE 1
  BY Counts
<1>4. Weight(control'[x], Single) = Weight(control[x], Single) + Single[f]
  BY <1>1, <1>3, WeightAppend
<1> QED BY <1>2, <1>3, <1>4

LEMMA MarksReceived ==
    ASSUME TypeOK, NEW x \in Side, NEW types, Receives(x, types), control'[Other(x)] = control[Other(x)],
           NEW type
    PROVE  /\ Marks(Other(x), type) = (IF Incoming(x).type = type THEN 1 ELSE 0) + Marks(Other(x), type)'
           /\ Marks(Other(x), type) \in Nat /\ Marks(Other(x), type)' \in Nat
<1>0. PICK y \in Side : y = Other(x)
  BY Sides
<1>1. /\ wire[y] \in Seq(Frames) /\ wire[y] # <<>> /\ wire'[y] = Tail(wire[y]) /\ wire'[x] = wire[x]
      /\ Incoming(x) = Head(wire[y]) /\ Incoming(x) \in Frames /\ Tail(wire[y]) \in Seq(Frames)
  BY <1>0, ReceiveEffect
<1>2. Count(type) \in [Frames -> Nat] /\ Count(type)[Incoming(x)] = IF Incoming(x).type = type THEN 1 ELSE 0
  BY <1>1, Counts
<1>3. Weight(wire[y], Count(type)) = Count(type)[Incoming(x)] + Weight(wire'[y], Count(type))
  BY <1>1, <1>2, WeightTail
<1>4. /\ Weight(control[y], Count(type)) \in Nat /\ Weight(wire'[y], Count(type)) \in Nat
  BY <1>1, <1>2, MarksNat, Weights
<1>5. Marks(y, type)' = Weight(control[y], Count(type)) + Weight(wire'[y], Count(type))
  BY <1>0 DEF Marks
<1>6. Marks(y, type) = Weight(control[y], Count(type)) + Weight(wire[y], Count(type))
  BY DEF Marks
<1> HIDE DEF Marks
<1>7. /\ Marks(y, type) = (IF Incoming(x).type = type THEN 1 ELSE 0) + Marks(y, type)'
      /\ Marks(y, type) \in Nat /\ Marks(y, type)' \in Nat
  BY <1>2, <1>3, <1>4, <1>5, <1>6
<1> QED BY <1>0, <1>7

\* A step of x that neither opens nor accepts nor refuses the stream.
OpenMove(x) ==
    /\ Lifecycle(x)'
    /\ st'[x].opened = st[x].opened
    /\ app'[x].phase = "idle" <=> app[x].phase = "idle"
    /\ Marks(x, "OPEN")' = Marks(x, "OPEN") /\ Marks(x, "OPEN_OK")' = Marks(x, "OPEN_OK")
    /\ Marks(Other(x), "OPEN")' = Marks(Other(x), "OPEN")
    /\ Marks(Other(x), "OPEN_OK")' <= Marks(Other(x), "OPEN_OK")
    /\ Weight(control'[x], Single) + One(st[x].closed) <= Weight(control[x], Single) + One(st'[x].closed)

LEMMA OpenStep ==
    ASSUME TypeOK, TypeOK', Opens, Share, NEW x \in Side, Quiet(x), OpenMove(x)
    PROVE  Opens' /\ Share'
<1>0. PICK y \in Side : y = Other(x)
  BY Sides
<1>1. x # y /\ (\A z \in Side : z = x \/ z = y) /\ Client \in Side /\ Server \in Side /\ Client # Server
  BY <1>0, Sides DEF Side, Client, Server
<1>2. st'[y] = st[y] /\ app'[y] = app[y] /\ control'[y] = control[y]
  BY <1>0 DEF Quiet
<1>3. \A z \in Side : Lifecycle(z)'
  <2>1. Lifecycle(y)'
    BY <1>2 DEF Opens, Lifecycle
  <2> QED BY <1>1, <2>1 DEF OpenMove
<1>4. \A z \in Side : /\ st'[z].opened = st[z].opened
                      /\ app'[z].phase = "idle" <=> app[z].phase = "idle"
                      /\ Marks(z, "OPEN")' = Marks(z, "OPEN")
                      /\ Marks(z, "OPEN_OK")' <= Marks(z, "OPEN_OK")
                      /\ Marks(z, "OPEN_OK") \in Nat /\ Marks(z, "OPEN_OK")' \in Nat
  <2>1. \A z \in Side : Marks(z, "OPEN_OK") \in Nat
    BY MarksNat
  <2>2. Marks(x, "OPEN_OK")' \in Nat
    BY <2>1 DEF OpenMove
  <2>3. Marks(y, "OPEN_OK")' \in Nat
    <3>1. control'[y] \in Seq(Frames) /\ wire'[y] \in Seq(Frames)
      BY DEF TypeOK
    <3>2. Weight(control'[y], Count("OPEN_OK")) \in Nat /\ Weight(wire'[y], Count("OPEN_OK")) \in Nat
      BY <3>1, Counts, Weights
    <3> QED BY <3>2 DEF Marks
  <2>4. /\ st'[x].opened = st[x].opened
        /\ app'[x].phase = "idle" <=> app[x].phase = "idle"
        /\ Marks(x, "OPEN")' = Marks(x, "OPEN")
        /\ Marks(x, "OPEN_OK")' <= Marks(x, "OPEN_OK")
    BY <2>1 DEF OpenMove
  <2>5. /\ Marks(y, "OPEN")' = Marks(y, "OPEN")
        /\ Marks(y, "OPEN_OK")' <= Marks(y, "OPEN_OK")
    BY <1>0 DEF OpenMove
  <2> QED BY <1>1, <1>2, <2>1, <2>2, <2>3, <2>4, <2>5
<1>5. Chances' = Chances
  BY <1>1, <1>4 DEF Chances, One
<1>6. Opens'
  <2>1. ASSUME NEW z \in Side, Marks(z, "OPEN_OK")' > 0 PROVE z = Server /\ st'[Server].opened
    <3>1. Marks(z, "OPEN_OK") > 0
      BY <1>4, <2>1
    <3> QED BY <1>1, <1>4, <3>1 DEF Opens
  <2>2. st'[Client].opened => st'[Server].opened
    BY <1>1, <1>4 DEF Opens
  <2>3. Chances' <= 1
    BY <1>5 DEF Opens
  <2> QED BY <1>3, <2>1, <2>2, <2>3 DEF Opens
<1>7. \A z \in Side : /\ Weight(control'[z], Single) + One(st[z].closed) <= Weight(control[z], Single) + One(st'[z].closed)
                      /\ Weight(control'[z], Single) \in Nat /\ Weight(control[z], Single) \in Nat
                      /\ One(st[z].closed) \in Nat /\ One(st'[z].closed) \in Nat
  <2>1. \A z \in Side : Weight(control[z], Single) \in Nat
    BY MarksNat
  <2>2. \A z \in Side : Weight(control'[z], Single) \in Nat
    BY Counts, Weights DEF TypeOK
  <2>3. Weight(control'[y], Single) + One(st[y].closed) <= Weight(control[y], Single) + One(st'[y].closed)
    <3>1. Weight(control'[y], Single) = Weight(control[y], Single) /\ st'[y].closed = st[y].closed
      BY <1>2
    <3> QED BY <2>1, <3>1 DEF One
  <2> QED BY <1>1, <2>1, <2>2, <2>3 DEF OpenMove, One
<1>8. Share'
  <2>1. Weight(control'[Client], Single) <= One(app'[Client].phase # "idle") + One(st'[Client].closed)
    <3>1. One(app'[Client].phase # "idle") = One(app[Client].phase # "idle") /\ One(app[Client].phase # "idle") \in Nat
      BY <1>1, <1>4 DEF One
    <3>2. Weight(control[Client], Single) <= One(app[Client].phase # "idle") + One(st[Client].closed)
      BY DEF Share
    <3> HIDE DEF One
    <3> QED BY <1>1, <1>7, <3>1, <3>2
  <2>2. Weight(control'[Server], Single) <= One(st'[Server].opened) + One(st'[Server].closed) + (1 - Chances')
    <3>1. One(st'[Server].opened) = One(st[Server].opened) /\ One(st[Server].opened) \in Nat
      BY <1>1, <1>4 DEF One
    <3>2. Weight(control[Server], Single) <= One(st[Server].opened) + One(st[Server].closed) + (1 - Chances)
      BY DEF Share
    <3>3. Chances \in Nat
      BY <1>1, MarksNat DEF Chances, One
    <3> QED BY <1>1, <1>5, <1>7, <3>1, <3>2, <3>3
  <2> QED BY <2>1, <2>2 DEF Share
<1> QED BY <1>6, <1>8

\* What a step of x keeps.
Keeps(x) == BalanceMove(x) /\ KindsAt(x)' /\ OpenMove(x)

LEMMA KindsKept ==
    ASSUME Kinds, NEW x \in Side, st'[x].outbound \in {st[x].outbound, <<>>},
           control'[x] = control[x] \/ \E f \in ControlFrames : Queued(x, f)
    PROVE  KindsAt(x)'
<1>1. st[x].outbound \in Seq(OutFrames) /\ control[x] \in Seq(ControlFrames)
  BY DEF Kinds, KindsAt
<1>2. control'[x] \in Seq(ControlFrames)
  <2>1. CASE control'[x] = control[x]
    BY <1>1, <2>1
  <2>2. ASSUME NEW f \in ControlFrames, Queued(x, f) PROVE control'[x] \in Seq(ControlFrames)
    <3>1. control'[x] = Append(control[x], f)
      BY <2>2 DEF Queued
    <3>2. Append(control[x], f) \in Seq(ControlFrames)
      BY <1>1
    <3> QED BY <3>1, <3>2
  <2> QED BY <2>1, <2>2
<1>3. st'[x].outbound \in Seq(OutFrames)
  <2>1. <<>> \in Seq(OutFrames)
    OBVIOUS
  <2> QED BY <1>1, <2>1
<1> QED BY <1>2, <1>3 DEF KindsAt

LEMMA OpenKept ==
    ASSUME TypeOK, NEW x \in Side, Lifecycle(x)', st'[x].opened = st[x].opened,
           app'[x].phase = "idle" <=> app[x].phase = "idle",
           st[x].closed => st'[x].closed,
           \/ control'[x] = control[x]
           \/ \E f \in Frames : /\ Queued(x, f) /\ f.type \notin {"OPEN", "OPEN_OK"}
                                /\ f.type = "WINDOW_UPDATE" \/ (~ st[x].closed /\ st'[x].closed),
           control'[Other(x)] = control[Other(x)], wire'[x] = wire[x],
           \/ wire'[Other(x)] = wire[Other(x)]
           \/ \E types : Receives(x, types) /\ "OPEN" \notin types
    PROVE  OpenMove(x)
<1>0. PICK y \in Side : y = Other(x)
  BY Sides
<1>1. /\ Marks(x, "OPEN") \in Nat /\ Marks(x, "OPEN_OK") \in Nat /\ Weight(control[x], Single) \in Nat
      /\ Marks(y, "OPEN") \in Nat /\ Marks(y, "OPEN_OK") \in Nat
  BY MarksNat
<1>2. /\ Marks(x, "OPEN")' = Marks(x, "OPEN") /\ Marks(x, "OPEN_OK")' = Marks(x, "OPEN_OK")
      /\ Weight(control'[x], Single) + One(st[x].closed) <= Weight(control[x], Single) + One(st'[x].closed)
  <2>1. CASE control'[x] = control[x]
    <3>1. Marks(x, "OPEN")' = Marks(x, "OPEN") /\ Marks(x, "OPEN_OK")' = Marks(x, "OPEN_OK")
      BY <2>1 DEF Marks
    <3>2. One(st[x].closed) <= One(st'[x].closed) /\ One(st[x].closed) \in Nat /\ One(st'[x].closed) \in Nat
      BY DEF One
    <3> QED BY <1>1, <2>1, <3>1, <3>2
  <2>2. CASE \E f \in Frames : /\ Queued(x, f) /\ f.type \notin {"OPEN", "OPEN_OK"}
                               /\ f.type = "WINDOW_UPDATE" \/ (~ st[x].closed /\ st'[x].closed)
    <3>1. PICK f \in Frames : /\ Queued(x, f) /\ f.type \notin {"OPEN", "OPEN_OK"}
                              /\ f.type = "WINDOW_UPDATE" \/ (~ st[x].closed /\ st'[x].closed)
      BY <2>2
    <3>2. /\ \A type : Marks(x, type)' = Marks(x, type) + (IF f.type = type THEN 1 ELSE 0)
          /\ Weight(control'[x], Single) =
               Weight(control[x], Single) + (IF f.type = "WINDOW_UPDATE" THEN 0 ELSE 1)
      BY <3>1, MarksQueued
    <3>3. Marks(x, "OPEN")' = Marks(x, "OPEN") /\ Marks(x, "OPEN_OK")' = Marks(x, "OPEN_OK")
      BY <1>1, <3>1, <3>2
    <3>4. Weight(control'[x], Single) + One(st[x].closed) <= Weight(control[x], Single) + One(st'[x].closed)
      <4>1. CASE f.type = "WINDOW_UPDATE"
        BY <1>1, <3>2, <4>1 DEF One
      <4>2. CASE f.type # "WINDOW_UPDATE"
        BY <1>1, <3>1, <3>2, <4>2 DEF One
      <4> QED BY <4>1, <4>2
    <3> QED BY <3>3, <3>4
  <2> QED BY <2>1, <2>2
<1>3. Marks(y, "OPEN")' = Marks(y, "OPEN") /\ Marks(y, "OPEN_OK")' <= Marks(y, "OPEN_OK")
  <2>1. CASE wire'[y] = wire[y]
    <3>1. Marks(y, "OPEN")' = Marks(y, "OPEN") /\ Marks(y, "OPEN_OK")' = Marks(y, "OPEN_OK")
      BY <1>0, <2>1 DEF Marks
    <3> QED BY <1>1, <3>1
  <2>2. CASE \E types : Receives(x, types) /\ "OPEN" \notin types
    <3>1. PICK types : Receives(x, types) /\ "OPEN" \notin types
      BY <2>2
    <3>2. Incoming(x).type # "OPEN"
      BY <3>1, ReceiveEffect
    <3>3. /\ Marks(y, "OPEN") = (IF Incoming(x).type = "OPEN" THEN 1 ELSE 0) + Marks(y, "OPEN")'
          /\ Marks(y, "OPEN")' \in Nat
      BY <1>0, <3>1, MarksReceived
    <3>4. /\ Marks(y, "OPEN_OK") = (IF Incoming(x).type = "OPEN_OK" THEN 1 ELSE 0) + Marks(y, "OPEN_OK")'
          /\ Marks(y, "OPEN_OK")' \in Nat
      BY <1>0, <3>1, MarksReceived
    <3>5. Marks(y, "OPEN")' = Marks(y, "OPEN")
      BY <3>2, <3>3
    <3>6. Marks(y, "OPEN_OK")' <= Marks(y, "OPEN_OK")
      BY <3>4
    <3> QED BY <3>5, <3>6
  <2> QED BY <1>0, <2>1, <2>2
<1> QED BY <1>0, <1>2, <1>3 DEF OpenMove

LEMMA ControlKinds ==
    /\ \A type \in {"OPEN", "OPEN_OK", "OPEN_ERROR", "RESET"} : Frame(type) \in ControlFrames
    /\ \A n \in Threshold..Window : Update(n) \in ControlFrames
    /\ ControlFrames \subseteq Frames /\ OutFrames \subseteq Frames
    /\ Frame("FIN") \in OutFrames /\ \A n \in 0..Window : Data(n) \in OutFrames
<1>1. \A n \in Threshold..Window : n \in 0..Window /\ n >= Threshold
  BY MuxStreamAssumption
<1> QED BY <1>1, FrameTypes DEF ControlFrames, OutFrames

\* x has closed the stream, or closes it now.
LEMMA GoneMove ==
    ASSUME TypeOK, Balance, Opens, Kinds, NEW x \in Side,
           st'[x].closed, SameWindows(st[x], st'[x]), st'[x].outbound \in {st[x].outbound, <<>>},
           st'[x].opened = st[x].opened, app'[x].update = app[x].update,
           app[x].phase # "idle", app'[x].phase \in {app[x].phase, "done"},
           control'[Other(x)] = control[Other(x)],
           \/ control'[x] = control[x]
           \/ ~ st[x].closed /\ \E type \in {"RESET", "OPEN_ERROR"} : Queued(x, Frame(type)),
           UNCHANGED wire \/ \E types : Receives(x, types) /\ "OPEN" \notin types
    PROVE  Keeps(x)
<1>1. \/ control'[x] = control[x]
      \/ ~ st[x].closed /\ \E f \in Frames : /\ Queued(x, f) /\ f \in ControlFrames
                                             /\ f.type \notin {"OPEN", "OPEN_OK", "WINDOW_UPDATE"}
  <2>1. \A type \in {"RESET", "OPEN_ERROR"} :
          Frame(type) \in ControlFrames /\ Frame(type) \in Frames /\ Frame(type).type = type
    BY ControlKinds, FrameTypes
  <2> QED BY <2>1
<1>2. wire'[x] = wire[x] /\ (UNCHANGED wire \/ \E types : Receives(x, types))
  BY ReceiveEffect
<1>3. BalanceMove(x)
  BY <1>1, <1>2, BalanceGone
<1>4. KindsAt(x)'
  BY <1>1, KindsKept
<1>5. Lifecycle(x)'
  <2>1. Lifecycle(x) /\ app'[x].phase # "idle"
    BY DEF Opens
  <2> QED BY <2>1 DEF Lifecycle, SameWindows
<1>6. OpenMove(x)
  BY <1>1, <1>2, <1>5, OpenKept
<1> QED BY <1>3, <1>4, <1>6 DEF Keeps

\* x neither closes the stream nor moves bytes.
LEMMA StillMove ==
    ASSUME TypeOK, Balance, Opens, Kinds, NEW x \in Side, Lifecycle(x)',
           st[x].closed => st'[x].closed, SameWindows(st[x], st'[x]),
           \/ st'[x].outbound = st[x].outbound
           \/ st'[x].outbound = Append(st[x].outbound, Frame("FIN")),
           st'[x].opened = st[x].opened, app'[x].update = app[x].update,
           app'[x].phase = "idle" <=> app[x].phase = "idle",
           control'[x] = control[x], control'[Other(x)] = control[Other(x)],
           \/ UNCHANGED wire
           \/ /\ \E types : Receives(x, types) /\ "OPEN" \notin types
              /\ Incoming(x).type \in {"DATA", "WINDOW_UPDATE"} => Incoming(x).n = 0
    PROVE  Keeps(x)
<1>0. PICK y \in Side : y = Other(x)
  BY Sides
<1>1. wire'[x] = wire[x] /\ (UNCHANGED wire \/ \E types : Receives(x, types))
  BY ReceiveEffect
<1>2. ASSUME NEW type \in {"DATA", "WINDOW_UPDATE"} PROVE Carried(wire'[y], type) = Carried(wire[y], type)
  <2>1. CASE UNCHANGED wire
    BY <2>1
  <2>2. CASE /\ \E types : Receives(x, types) /\ "OPEN" \notin types
             /\ Incoming(x).type \in {"DATA", "WINDOW_UPDATE"} => Incoming(x).n = 0
    <3>1. PICK types : Receives(x, types)
      BY <2>2
    <3>2. /\ Carried(wire[y], type) = (IF Incoming(x).type = type THEN Incoming(x).n ELSE 0)
                                             + Carried(wire'[y], type)
          /\ Carried(wire'[y], type) \in Nat
      BY <1>0, <3>1, ReceivedCarried
    <3> QED BY <2>2, <3>2
  <2> QED BY <2>1, <2>2
<1>3. Carried(st'[x].outbound, "DATA") = Carried(st[x].outbound, "DATA")
  <2>1. Frame("FIN") \in Frames /\ Frame("FIN").type # "DATA" /\ st[x].outbound \in Seq(Frames)
    BY FrameTypes, SpaceParts
  <2>2. Carried(Append(st[x].outbound, Frame("FIN")), "DATA") = Carried(st[x].outbound, "DATA") + 0
    BY <2>1, CarriedFacts
  <2>3. Carried(st[x].outbound, "DATA") \in Nat
    BY SpaceParts
  <2>4. CASE st'[x].outbound = st[x].outbound
    BY <2>4
  <2>5. CASE st'[x].outbound = Append(st[x].outbound, Frame("FIN"))
    BY <2>2, <2>3, <2>5
  <2> QED BY <2>4, <2>5
<1>4. BalanceMove(x)
  BY <1>0, <1>1, <1>2, <1>3, BalanceKept
<1>5. KindsAt(x)'
  <2>1. st[x].outbound \in Seq(OutFrames) /\ control[x] \in Seq(ControlFrames)
    BY DEF Kinds, KindsAt
  <2>2. Append(st[x].outbound, Frame("FIN")) \in Seq(OutFrames)
    BY <2>1, ControlKinds
  <2> QED BY <2>1, <2>2 DEF KindsAt
<1>6. OpenMove(x)
  BY <1>1, OpenKept
<1> QED BY <1>4, <1>5, <1>6 DEF Keeps

-----------------------------------------------------------------------------
(* Flow control and the stream's life cycle, by action.                    *)

Flow == TypeOK /\ Balance /\ WindowConserved /\ Kinds /\ Opens /\ Share

LEMMA FlowStep ==
    ASSUME Flow, TypeOK', NEW x \in Side, Quiet(x), Keeps(x)
    PROVE  Flow'
<1>1. TypeOK /\ Balance /\ WindowConserved /\ Kinds /\ Opens /\ Share
  BY DEF Flow
<1>2. BalanceMove(x) /\ KindsAt(x)' /\ OpenMove(x)
  BY DEF Keeps
<1>3. Balance' /\ WindowConserved'
  BY <1>1, <1>2, BalanceStep
<1>4. Opens' /\ Share'
  BY <1>1, <1>2, OpenStep
<1>5. Kinds'
  <2>1. KindsAt(Other(x))'
    BY <1>1, Sides DEF Quiet, Kinds, KindsAt
  <2> QED BY <1>2, <2>1, Sides DEF Kinds
<1> QED BY <1>3, <1>4, <1>5 DEF Flow

LEMMA waitOpenedKeeps ==
    ASSUME Flow, waitOpened
    PROVE  Keeps(Client)
<1>1. TypeOK /\ Balance /\ Opens /\ Kinds /\ Client \in Side
  BY DEF Flow, Side
<1>2. /\ Quiet(Client) /\ UNCHANGED <<st, control, wire, sent, rcvd>>
      /\ app[Client].phase = "opening" /\ SameCopy(app[Client], app'[Client])
      /\ app'[Client].phase \in {"proxy", "done"}
      /\ app'[Client].phase = "proxy" => st[Client].opened
  BY <1>1, waitOpenedEffect
<1>3. Lifecycle(Client)'
  <2>1. Lifecycle(Client)
    BY <1>1 DEF Opens
  <2> QED BY <1>2, <2>1 DEF Lifecycle, Client, Server
<1> QED BY <1>1, <1>2, <1>3, StillMove DEF SameCopy, SameWindows

\* Reset, in any phase but the first.
LEMMA ResetKeeps ==
    ASSUME Flow, NEW x \in Side, Reset(x), app[x].phase # "idle",
           app'[x].phase \in {app[x].phase, "done"}, app'[x].update = app[x].update,
           UNCHANGED wire \/ \E types : Receives(x, types) /\ "OPEN" \notin types
    PROVE  Keeps(x)
<1>1. TypeOK /\ Balance /\ Opens /\ Kinds
  BY DEF Flow
<1>2. control'[Other(x)] = control[Other(x)]
  BY <1>1, ResetEffect
<1>3. CASE st[x].closed
  <2>1. UNCHANGED <<st, control>>
    BY <1>1, <1>3, ResetEffect
  <2> QED BY <1>1, <1>2, <1>3, <2>1, GoneMove DEF SameWindows
<1>4. CASE ~ st[x].closed
  <2>1. Closing(st[x], st'[x]) /\ Queued(x, Frame("RESET"))
    BY <1>1, <1>4, ResetEffect
  <2> QED BY <1>1, <1>2, <1>4, <2>1, GoneMove DEF Closing
<1> QED BY <1>3, <1>4

LEMMA OpenTimeoutKeeps == ASSUME Flow, OpenTimeout PROVE Keeps(Client)
<1>1. TypeOK /\ Client \in Side
  BY DEF Flow, Side
<1>2. /\ UNCHANGED wire /\ Reset(Client) /\ app[Client].phase = "opening"
      /\ app'[Client].phase = "done" /\ app'[Client].update = app[Client].update
  BY <1>1, OpenTimeoutEffect DEF SameCopy
<1> QED BY <1>1, <1>2, ResetKeeps

LEMMA DialFailsKeeps == ASSUME Flow, DialFails PROVE Keeps(Server)
<1>1. TypeOK /\ Balance /\ Opens /\ Kinds /\ Server \in Side
  BY DEF Flow, Side
<1>2. /\ Quiet(Server) /\ UNCHANGED wire
      /\ app[Server].phase = "opening" /\ app'[Server].phase = "done"
      /\ app'[Server].update = app[Server].update /\ control'[Other(Server)] = control[Other(Server)]
      /\ \/ st[Server].closed /\ UNCHANGED <<st, control>>
         \/ /\ ~ st[Server].closed /\ Closing(st[Server], st'[Server])
            /\ Queued(Server, Frame("OPEN_ERROR"))
  BY <1>1, DialFailsEffect DEF SameCopy, Quiet
<1>3. CASE st[Server].closed /\ UNCHANGED <<st, control>>
  BY <1>1, <1>2, <1>3, GoneMove DEF SameWindows
<1>4. CASE ~ st[Server].closed /\ Closing(st[Server], st'[Server]) /\ Queued(Server, Frame("OPEN_ERROR"))
  BY <1>1, <1>2, <1>4, GoneMove DEF Closing
<1> QED BY <1>2, <1>3, <1>4

\* While a side has not opened the stream and has not closed it, no byte and no
\* space is on its way to it.
LEMMA NothingComes ==
    ASSUME Flow, NEW x \in Side, ~ st[x].registered, ~ st[x].closed, NEW types, Receives(x, types)
    PROVE  Incoming(x).type \in {"DATA", "WINDOW_UPDATE"} => Incoming(x).n = 0
<1>1. TypeOK /\ Balance /\ Opens
  BY DEF Flow
<1>2. PICK y \in Side : y = Other(x)
  BY Sides
<1>3. Lifecycle(x) /\ Lifecycle(y)
  BY <1>1 DEF Opens
<1>4. ~ st[x].opened
  BY <1>3 DEF Lifecycle
<1>5. ~ st[y].opened
  <2>1. CASE x = Server
    BY <1>1, <1>2, <1>4, <2>1 DEF Opens, Other
  <2>2. CASE x = Client
    <3>1. app[Client].phase = "idle" /\ y = Server
      BY <1>2, <1>3, <2>2 DEF Lifecycle, Other
    <3>2. Marks(Client, "OPEN") \in Nat
      BY <1>1, <2>2, MarksNat
    <3>3. app[Server].phase = "idle"
      BY <1>1, <3>1, <3>2 DEF Opens, Chances, One
    <3> QED BY <1>3, <3>1, <3>3 DEF Lifecycle
  <2> QED BY <2>1, <2>2 DEF Side
<1>6. st[x].sendWindow = Window /\ st[y].sendWindow = Window
  BY <1>3, <1>4, <1>5 DEF Lifecycle
<1>7. x = Other(y) /\ Space(x) <= Window /\ Space(y) <= Window
  BY <1>1, <1>2, Sides DEF Balance
<1>8. /\ Space(x) \in Nat /\ st[x].sendWindow + Carried(wire[y], "WINDOW_UPDATE") <= Space(x)
      /\ Space(y) \in Nat /\ st[y].sendWindow + Carried(wire[y], "DATA") <= Space(y)
  BY <1>1, <1>2, <1>7, SpaceSum
<1>9. /\ Carried(wire[y], "WINDOW_UPDATE") \in Nat /\ Carried(wire[y], "DATA") \in Nat /\ Window \in Nat
  BY <1>1, SpaceParts
<1>10. Carried(wire[y], "WINDOW_UPDATE") = 0 /\ Carried(wire[y], "DATA") = 0
  BY <1>6, <1>7, <1>8, <1>9
<1>11. ASSUME NEW type, Carried(wire[y], type) = 0, Incoming(x).type = type PROVE Incoming(x).n = 0
  <2>1. /\ Carried(wire[y], type) = (IF Incoming(x).type = type THEN Incoming(x).n ELSE 0)
                                      + Carried(wire'[y], type)
        /\ Carried(wire'[y], type) \in Nat /\ Incoming(x).n \in Nat
    BY <1>1, <1>2, ReceivedCarried
  <2> QED BY <1>11, <2>1
<1> QED BY <1>10, <1>11

LEMMA HandleLateKeeps == ASSUME Flow, NEW x \in Side, HandleLate(x) PROVE Keeps(x)
<1>1. TypeOK /\ Balance /\ Opens /\ Kinds
  BY DEF Flow
<1>2. /\ UNCHANGED <<st, app, control>> /\ ~ st[x].registered
      /\ \E types : Receives(x, types) /\ "OPEN" \notin types
  BY <1>1, HandleLateEffect
<1>3. CASE st[x].closed
  <2>1. app[x].phase # "idle"
    BY <1>1, <1>3 DEF Opens, Lifecycle
  <2> QED BY <1>1, <1>2, <1>3, <2>1, GoneMove DEF SameWindows
<1>4. CASE ~ st[x].closed
  <2>1. Incoming(x).type \in {"DATA", "WINDOW_UPDATE"} => Incoming(x).n = 0
    BY <1>2, <1>4, NothingComes
  <2>2. Lifecycle(x)'
    BY <1>1, <1>2 DEF Opens, Lifecycle
  <2> QED BY <1>1, <1>2, <1>4, <2>1, <2>2, StillMove DEF SameWindows
<1> QED BY <1>3, <1>4

LEMMA Registered == ASSUME Flow, NEW x \in Side, st[x].registered PROVE app[x].phase # "idle"
BY DEF Flow, Opens, Lifecycle

LEMMA HandleEndKeeps == ASSUME Flow, NEW x \in Side, HandleEnd(x) PROVE Keeps(x)
<1>1. TypeOK /\ Balance /\ Opens /\ Kinds /\ app[x].phase # "idle"
  BY Registered DEF Flow, HandleEnd
<1>2. /\ UNCHANGED <<app, control>> /\ Closing(st[x], st'[x])
      /\ \E types : Receives(x, types) /\ "OPEN" \notin types
  BY <1>1, HandleEndEffect
<1> QED BY <1>1, <1>2, GoneMove DEF Closing

LEMMA receiveFINKeeps == ASSUME Flow, NEW x \in Side, receiveFIN(x) PROVE Keeps(x)
<1>1. TypeOK /\ Balance /\ Opens /\ Kinds /\ app[x].phase # "idle" /\ st[x] \in Streams
  BY Registered DEF Flow, receiveFIN, TypeOK
<1>2. /\ UNCHANGED <<app, control>> /\ Receives(x, {"FIN"})
      /\ \/ st[x].closed /\ UNCHANGED st
         \/ ~ st[x].closed /\ st'[x] = [st[x] EXCEPT !.remoteWriteClosed = TRUE]
  BY <1>1, receiveFINEffect
<1>3. Incoming(x).type \notin {"DATA", "WINDOW_UPDATE"} /\ \E types : Receives(x, types) /\ "OPEN" \notin types
  BY <1>1, <1>2, ReceiveEffect
<1>4. /\ SameWindows(st[x], st'[x]) /\ st'[x].outbound = st[x].outbound
      /\ st'[x].opened = st[x].opened /\ st'[x].closed = st[x].closed
      /\ st'[x].registered = st[x].registered /\ st'[x].closeAfterDrain = st[x].closeAfterDrain
  BY <1>1, <1>2 DEF SameWindows, Streams
<1>5. Lifecycle(x)'
  BY <1>1, <1>2, <1>4 DEF Opens, Lifecycle, SameWindows
<1> QED BY <1>1, <1>2, <1>3, <1>4, <1>5, StillMove

LEMMA NoControlKeeps ==
    ASSUME Flow, NEW x \in Side, UNCHANGED <<st, app, control, wire, sent, rcvd>>
    PROVE  Quiet(x) /\ Keeps(x)
<1>1. TypeOK /\ Balance /\ Opens /\ Kinds
  BY DEF Flow
<1>2. Lifecycle(x)'
  BY <1>1 DEF Opens, Lifecycle
<1>3. Keeps(x)
  BY <1>1, <1>2, StillMove DEF SameWindows
<1> QED BY <1>3 DEF Quiet

LEMMA ShutdownKeeps == ASSUME Flow, NEW x \in Side, Shutdown(x) PROVE Keeps(x)
<1>1. TypeOK /\ Balance /\ Opens /\ Kinds
  BY DEF Flow
<1>2. /\ UNCHANGED <<app, control, wire>>
      /\ st'[x] = st[x] \/ (st[x].registered /\ Closing(st[x], st'[x]))
  BY <1>1, ShutdownEffect
<1>3. CASE st'[x] = st[x]
  <2>1. Lifecycle(x)'
    BY <1>1, <1>2, <1>3 DEF Opens, Lifecycle
  <2> QED BY <1>1, <1>2, <1>3, <2>1, StillMove DEF SameWindows
<1>4. CASE st[x].registered /\ Closing(st[x], st'[x])
  <2>1. app[x].phase # "idle"
    BY <1>4, Registered
  <2> QED BY <1>1, <1>2, <1>4, <2>1, GoneMove DEF Closing
<1> QED BY <1>2, <1>3, <1>4

LEMMA SourceKeeps == ASSUME Flow, NEW x \in Side, SourceEnds(x) \/ SourceFails(x) PROVE Keeps(x)
<1>1. TypeOK /\ Balance /\ Opens /\ Kinds
  BY DEF Flow
<1>2. /\ UNCHANGED <<control, wire>>
      /\ app[x].phase = "proxy" /\ app'[x].phase = "proxy" /\ app'[x].update = app[x].update
      /\ SameWindows(st[x], st'[x])
      /\ st'[x].registered = st[x].registered /\ st'[x].opened = st[x].opened
      /\ st'[x].closed = st[x].closed /\ st'[x].closeAfterDrain = st[x].closeAfterDrain
      /\ \/ st'[x].outbound = st[x].outbound
         \/ st'[x].outbound = Append(st[x].outbound, Frame("FIN"))
  BY <1>1, SourceEffect DEF SameCopy
<1>3. Lifecycle(x)'
  BY <1>1, <1>2 DEF Opens, Lifecycle, SameWindows
<1> QED BY <1>1, <1>2, <1>3, StillMove

LEMMA SinkKeeps == ASSUME Flow, NEW x \in Side, SinkEnds(x) \/ SinkFails(x) PROVE Keeps(x)
<1>1. TypeOK /\ Balance /\ Opens /\ Kinds
  BY DEF Flow
<1>2. /\ UNCHANGED <<st, control, wire>> /\ app'[x].phase = app[x].phase /\ app'[x].update = app[x].update
  BY <1>1, SinkEffect
<1>3. Lifecycle(x)'
  BY <1>1, <1>2 DEF Opens, Lifecycle
<1> QED BY <1>1, <1>2, <1>3, StillMove DEF SameWindows

LEMMA ProxyFailsKeeps == ASSUME Flow, NEW x \in Side, ProxyFails(x) PROVE Keeps(x)
<1>1. TypeOK /\ app[x].phase = "proxy"
  BY DEF Flow, ProxyFails
<1>2. UNCHANGED wire /\ Reset(x) /\ app'[x].phase = app[x].phase /\ app'[x].update = app[x].update
  BY <1>1, ProxyFailsEffect
<1> QED BY <1>1, <1>2, ResetKeeps

LEMMA ProxyEndsKeeps == ASSUME Flow, NEW x \in Side, ProxyEnds(x) PROVE Keeps(x)
<1>1. TypeOK /\ Balance /\ Opens /\ Kinds
  BY DEF Flow
<1>2. /\ Quiet(x) /\ UNCHANGED wire /\ control'[Other(x)] = control[Other(x)]
      /\ app[x].phase = "proxy" /\ app'[x].phase = "done" /\ app'[x].update = app[x].update
      /\ \/ st[x].closed /\ UNCHANGED <<st, control>>
         \/ /\ ~ st[x].closed /\ st'[x].closed
            /\ SameWindows(st[x], st'[x]) /\ st'[x].outbound = st[x].outbound
            /\ st'[x].opened = st[x].opened
            /\ UNCHANGED control \/ Queued(x, Frame("RESET"))
  BY <1>1, ProxyEndsEffect DEF SameCopy, Quiet
<1>3. CASE st[x].closed /\ UNCHANGED <<st, control>>
  BY <1>1, <1>2, <1>3, GoneMove DEF SameWindows
<1>4. CASE /\ ~ st[x].closed /\ st'[x].closed
           /\ SameWindows(st[x], st'[x]) /\ st'[x].outbound = st[x].outbound
           /\ st'[x].opened = st[x].opened
           /\ UNCHANGED control \/ Queued(x, Frame("RESET"))
  BY <1>1, <1>2, <1>4, GoneMove
<1> QED BY <1>2, <1>3, <1>4

LEMMA receiveDataKeeps == ASSUME Flow, NEW x \in Side, receiveData(x) PROVE Keeps(x)
<1>0. PICK y \in Side : y = Other(x)
  BY Sides
<1>1. TypeOK /\ Balance /\ Opens /\ Kinds /\ app[x].phase # "idle"
  BY Registered DEF Flow, receiveData
<1> DEFINE n == Incoming(x).n
<1>2. /\ Quiet(x) /\ UNCHANGED app /\ Receives(x, {"DATA"})
      /\ \/ Reset(x)
         \/ /\ ~ st[x].closed /\ UNCHANGED control /\ SameFlags(st[x], st'[x])
            /\ st'[x].sendWindow = st[x].sendWindow
            /\ st'[x].pendingWindowUpdate = st[x].pendingWindowUpdate
            /\ st'[x].outbound = st[x].outbound
            /\ st'[x].receiveWindow = st[x].receiveWindow - n
            /\ st'[x].inbound = st[x].inbound + n
  BY <1>1, receiveDataEffect
<1>3. \E types : Receives(x, types) /\ "OPEN" \notin types
  BY <1>2
<1>4. CASE Reset(x)
  BY <1>1, <1>2, <1>3, <1>4, ResetKeeps
<1>5. CASE /\ ~ st[x].closed /\ UNCHANGED control /\ SameFlags(st[x], st'[x])
           /\ st'[x].sendWindow = st[x].sendWindow
           /\ st'[x].pendingWindowUpdate = st[x].pendingWindowUpdate
           /\ st'[x].outbound = st[x].outbound
           /\ st'[x].receiveWindow = st[x].receiveWindow - n
           /\ st'[x].inbound = st[x].inbound + n
  <2>1. Incoming(x).type = "DATA" /\ wire'[x] = wire[x]
    BY <1>1, <1>2, ReceiveEffect
  <2>2. /\ Carried(wire[y], "DATA") = n + Carried(wire'[y], "DATA")
        /\ Carried(wire'[y], "DATA") \in Nat /\ n \in Nat
    BY <1>0, <1>1, <1>2, <2>1, ReceivedCarried
  <2>3. Carried(wire[y], "WINDOW_UPDATE") = Carried(wire'[y], "WINDOW_UPDATE")
    <3>1. /\ Carried(wire[y], "WINDOW_UPDATE") = 0 + Carried(wire'[y], "WINDOW_UPDATE")
          /\ Carried(wire'[y], "WINDOW_UPDATE") \in Nat
      BY <1>0, <1>1, <1>2, <2>1, ReceivedCarried
    <3> QED BY <3>1
  <2> HIDE DEF n
  <2>4. Own(x)' = Own(x)
    BY <1>0, <1>5, <2>1, <2>3 DEF Own
  <2>5. Back(x)' = Back(x)
    <3>1. Returning(x)' = Returning(x) + n
      <4>1. /\ st[x].inbound \in Nat /\ st[x].pendingWindowUpdate \in Nat /\ app[x].update \in Nat
            /\ Carried(control[x], "WINDOW_UPDATE") \in Nat /\ Carried(wire[x], "WINDOW_UPDATE") \in Nat
        BY <1>1, SpaceParts
      <4>2. Returning(x)' = (st[x].inbound + n) + st[x].pendingWindowUpdate + app[x].update
                + Carried(control[x], "WINDOW_UPDATE") + Carried(wire[x], "WINDOW_UPDATE")
        BY <1>2, <1>5, <2>1 DEF Returning
      <4>3. Returning(x) = st[x].inbound + st[x].pendingWindowUpdate + app[x].update
                + Carried(control[x], "WINDOW_UPDATE") + Carried(wire[x], "WINDOW_UPDATE")
        BY DEF Returning
      <4> QED BY <2>2, <4>1, <4>2, <4>3
    <3>2. Returning(x) \in Nat
      BY <1>1, ReturningNat
    <3>3. Back(x)' = Carried(wire'[y], "DATA") + Returning(x)' /\ Back(x) = Carried(wire[y], "DATA") + Returning(x)
      BY <1>0 DEF Back
    <3> QED BY <2>2, <3>1, <3>2, <3>3
  <2>6. st'[x].receiveWindow + st'[x].inbound = Window
    <3>1. st[x].receiveWindow + st[x].inbound = Window
      BY <1>1 DEF Balance
    <3>2. st[x].receiveWindow \in 0..Window /\ st[x].inbound \in 0..Window
      BY <1>1 DEF TypeOK, Streams
    <3> QED BY <1>5, <2>2, <3>1, <3>2, MuxStreamAssumption
  <2>7. BalanceMove(x)
    BY <1>1, <1>2, <1>5, <2>4, <2>5, <2>6 DEF BalanceMove, Balance, SameFlags
  <2>8. KindsAt(x)'
    BY <1>1, <1>5, KindsKept
  <2>9. Lifecycle(x)'
    BY <1>1, <1>2, <1>5 DEF Opens, Lifecycle, SameFlags
  <2>10. OpenMove(x)
    BY <1>1, <1>2, <1>3, <1>5, <2>1, <2>9, OpenKept DEF SameFlags
  <2> QED BY <2>7, <2>8, <2>10 DEF Keeps
<1> QED BY <1>2, <1>4, <1>5

LEMMA updateSendWindowKeeps == ASSUME Flow, NEW x \in Side, updateSendWindow(x) PROVE Keeps(x)
<1>0. PICK y \in Side : y = Other(x)
  BY Sides
<1>1. TypeOK /\ Balance /\ Opens /\ Kinds /\ app[x].phase # "idle"
  BY Registered DEF Flow, updateSendWindow
<1> DEFINE n == Incoming(x).n
<1>2. /\ TypeOK' /\ Quiet(x) /\ UNCHANGED app /\ Receives(x, {"WINDOW_UPDATE"})
      /\ \/ Reset(x)
         \/ /\ UNCHANGED control /\ SameFlags(st[x], st'[x]) /\ n # 0
            /\ st'[x].receiveWindow = st[x].receiveWindow
            /\ st'[x].pendingWindowUpdate = st[x].pendingWindowUpdate
            /\ st'[x].outbound = st[x].outbound /\ st'[x].inbound = st[x].inbound
            /\ st'[x].sendWindow = st[x].sendWindow + n
  BY <1>1, updateSendWindowEffect
<1>3. \E types : Receives(x, types) /\ "OPEN" \notin types
  BY <1>2
<1>4. CASE Reset(x)
  BY <1>1, <1>2, <1>3, <1>4, ResetKeeps
<1>5. CASE /\ UNCHANGED control /\ SameFlags(st[x], st'[x]) /\ n # 0
           /\ st'[x].receiveWindow = st[x].receiveWindow
           /\ st'[x].pendingWindowUpdate = st[x].pendingWindowUpdate
           /\ st'[x].outbound = st[x].outbound /\ st'[x].inbound = st[x].inbound
           /\ st'[x].sendWindow = st[x].sendWindow + n
  <2>1. Incoming(x).type = "WINDOW_UPDATE" /\ wire'[x] = wire[x]
    BY <1>1, <1>2, ReceiveEffect
  <2>2. /\ Carried(wire[y], "WINDOW_UPDATE") = n + Carried(wire'[y], "WINDOW_UPDATE")
        /\ Carried(wire'[y], "WINDOW_UPDATE") \in Nat /\ n \in Nat
    BY <1>0, <1>1, <1>2, <2>1, ReceivedCarried
  <2>3. Carried(wire[y], "DATA") = Carried(wire'[y], "DATA")
    <3>1. /\ Carried(wire[y], "DATA") = 0 + Carried(wire'[y], "DATA")
          /\ Carried(wire'[y], "DATA") \in Nat
      BY <1>0, <1>1, <1>2, <2>1, ReceivedCarried
    <3> QED BY <3>1
  <2> HIDE DEF n
  <2>4. Own(x)' = Own(x)
    <3>1. /\ Own(x)' = (st[x].sendWindow + n) + Carried(st[x].outbound, "DATA") + Carried(wire[x], "DATA")
                         + Carried(wire'[y], "WINDOW_UPDATE")
          /\ Own(x) = st[x].sendWindow + Carried(st[x].outbound, "DATA") + Carried(wire[x], "DATA")
                         + (n + Carried(wire'[y], "WINDOW_UPDATE"))
      BY <1>0, <1>5, <2>1, <2>2 DEF Own
    <3>2. st[x].sendWindow \in Nat /\ Carried(st[x].outbound, "DATA") \in Nat /\ Carried(wire[x], "DATA") \in Nat
      BY <1>1, SpaceParts
    <3> QED BY <2>2, <3>1, <3>2
  <2>5. Back(x)' = Back(x)
    BY <1>0, <1>2, <1>5, <2>1, <2>3 DEF Back, Returning
  <2>6. BalanceMove(x)
    BY <1>1, <1>2, <1>5, <2>4, <2>5 DEF BalanceMove, Balance, SameFlags
  <2>7. KindsAt(x)'
    BY <1>1, <1>5, KindsKept
  <2>8. st[x].opened
    <3>1. st[x].sendWindow \in 0..Window /\ st'[x].sendWindow \in 0..Window
      BY <1>1, <1>2 DEF TypeOK, Streams
    <3>2. st[x].sendWindow # Window
      BY <1>5, <2>2, <3>1, MuxStreamAssumption
    <3> QED BY <1>1, <3>2 DEF Opens, Lifecycle
  <2>9. Lifecycle(x)'
    BY <1>1, <1>2, <1>5, <2>8 DEF Opens, Lifecycle, SameFlags
  <2>10. OpenMove(x)
    BY <1>1, <1>2, <1>3, <1>5, <2>1, <2>9, OpenKept DEF SameFlags, Quiet
  <2> QED BY <2>6, <2>7, <2>10 DEF Keeps
<1> QED BY <1>2, <1>4, <1>5

LEMMA WriteKeeps == ASSUME Flow, NEW x \in Side, NEW n \in 1..Window, Write(x, n) PROVE Keeps(x)
<1>1. TypeOK /\ Balance /\ Opens /\ Kinds
  BY DEF Flow
<1>2. /\ Quiet(x) /\ UNCHANGED <<app, control, wire, rcvd>>
      /\ app[x].phase = "proxy" /\ SameFlags(st[x], st'[x])
      /\ st'[x].sendWindow = st[x].sendWindow - n
      /\ st'[x].outbound = Append(st[x].outbound, Data(n))
      /\ st'[x].receiveWindow = st[x].receiveWindow /\ st'[x].inbound = st[x].inbound
      /\ st'[x].pendingWindowUpdate = st[x].pendingWindowUpdate
  BY <1>1, WriteEffect
<1>3. n \in 0..Window /\ n \in Nat
  BY MuxStreamAssumption
<1>4. Carried(st'[x].outbound, "DATA") = Carried(st[x].outbound, "DATA") + n
  <2>1. Data(n) \in Frames /\ Data(n).type = "DATA" /\ Data(n).n = n /\ st[x].outbound \in Seq(Frames)
    BY <1>1, <1>3, FrameTypes, SpaceParts
  <2> QED BY <1>2, <2>1, CarriedFacts
<1>5. Own(x)' = Own(x)
  <2>1. /\ Own(x)' = (st[x].sendWindow - n) + (Carried(st[x].outbound, "DATA") + n) + Carried(wire[x], "DATA")
                       + Carried(wire[Other(x)], "WINDOW_UPDATE")
        /\ Own(x) = st[x].sendWindow + Carried(st[x].outbound, "DATA") + Carried(wire[x], "DATA")
                       + Carried(wire[Other(x)], "WINDOW_UPDATE")
    BY <1>2, <1>4 DEF Own
  <2>2. /\ st[x].sendWindow \in Nat /\ Carried(st[x].outbound, "DATA") \in Nat /\ Carried(wire[x], "DATA") \in Nat
        /\ Carried(wire[Other(x)], "WINDOW_UPDATE") \in Nat
    BY <1>1, Sides, SpaceParts
  <2> QED BY <1>3, <2>1, <2>2
<1>6. Back(x)' = Back(x)
  BY <1>2 DEF Back, Returning
<1>7. BalanceMove(x)
  BY <1>1, <1>2, <1>5, <1>6 DEF BalanceMove, Balance, SameFlags
<1>8. KindsAt(x)'
  <2>1. st[x].outbound \in Seq(OutFrames) /\ control[x] \in Seq(ControlFrames) /\ Data(n) \in OutFrames
    BY <1>1, <1>3, ControlKinds DEF Kinds, KindsAt
  <2>2. Append(st[x].outbound, Data(n)) \in Seq(OutFrames)
    BY <2>1
  <2> QED BY <1>2, <2>1, <2>2 DEF KindsAt
<1>9. Lifecycle(x)'
  BY <1>1, <1>2 DEF Opens, Lifecycle, SameFlags
<1>10. OpenMove(x)
  BY <1>1, <1>2, <1>9, OpenKept DEF SameFlags, Quiet
<1> QED BY <1>7, <1>8, <1>10 DEF Keeps

LEMMA ReadKeeps == ASSUME Flow, NEW x \in Side, NEW n \in 1..Window, Read(x, n) PROVE app[x].update = 0 => Keeps(x)
<1>1. TypeOK /\ Balance /\ Opens /\ Kinds
  BY DEF Flow
<1> DEFINE pending == st[x].pendingWindowUpdate + n
<1>2. /\ Quiet(x) /\ UNCHANGED <<control, wire>>
      /\ app[x].phase = "proxy" /\ app'[x].phase = "proxy"
      /\ SameFlags(st[x], st'[x]) /\ st'[x].outbound = st[x].outbound
      /\ st'[x].sendWindow = st[x].sendWindow
      /\ st'[x].inbound = st[x].inbound - n
      /\ st'[x].receiveWindow = st[x].receiveWindow + n
      /\ \/ st'[x].pendingWindowUpdate = 0 /\ app'[x].update = pending /\ pending >= Threshold
         \/ st'[x].pendingWindowUpdate = pending /\ app'[x].update = 0
  BY <1>1, ReadEffect
<1> SUFFICES ASSUME app[x].update = 0 PROVE Keeps(x)
  OBVIOUS
<1>3. /\ st[x].inbound \in Nat /\ st[x].pendingWindowUpdate \in Nat
      /\ Carried(control[x], "WINDOW_UPDATE") \in Nat /\ Carried(wire[x], "WINDOW_UPDATE") \in Nat
      /\ n \in Nat /\ st[x].receiveWindow \in Nat
  <2>1. st[x].receiveWindow \in 0..Window
    BY <1>1 DEF TypeOK, Streams
  <2> QED BY <1>1, <2>1, SpaceParts, MuxStreamAssumption
<1>4. Own(x)' = Own(x)
  BY <1>2 DEF Own
<1>5. Back(x)' = Back(x)
  <2>1. Returning(x)' = (st[x].inbound - n) + st'[x].pendingWindowUpdate + app'[x].update
                + Carried(control[x], "WINDOW_UPDATE") + Carried(wire[x], "WINDOW_UPDATE")
    BY <1>2 DEF Returning
  <2>2. Returning(x) = st[x].inbound + st[x].pendingWindowUpdate + 0
                + Carried(control[x], "WINDOW_UPDATE") + Carried(wire[x], "WINDOW_UPDATE")
    BY DEF Returning
  <2>3. Returning(x)' = Returning(x)
    <3>1. CASE st'[x].pendingWindowUpdate = 0 /\ app'[x].update = st[x].pendingWindowUpdate + n
      BY <1>3, <2>1, <2>2, <3>1
    <3>2. CASE st'[x].pendingWindowUpdate = st[x].pendingWindowUpdate + n /\ app'[x].update = 0
      BY <1>3, <2>1, <2>2, <3>2
    <3> QED BY <1>2, <3>1, <3>2
  <2> QED BY <1>2, <2>3 DEF Back
<1>6. /\ st'[x].receiveWindow + st'[x].inbound = Window
      /\ app'[x].update # 0 => app'[x].update >= Threshold
  <2>1. st[x].receiveWindow + st[x].inbound = Window
    BY <1>1 DEF Balance
  <2>2. st'[x].receiveWindow + st'[x].inbound = Window
    BY <1>2, <1>3, <2>1
  <2> QED BY <1>2, <2>2
<1>7. BalanceMove(x)
  BY <1>2, <1>4, <1>5, <1>6 DEF BalanceMove, SameFlags
<1>8. KindsAt(x)'
  BY <1>1, <1>2, KindsKept
<1>9. Lifecycle(x)'
  BY <1>1, <1>2 DEF Opens, Lifecycle, SameFlags
<1>10. OpenMove(x)
  BY <1>1, <1>2, <1>9, OpenKept DEF SameFlags, Quiet
<1> QED BY <1>7, <1>8, <1>10 DEF Keeps

LEMMA ForwardKeeps == ASSUME Flow, NEW x \in Side, Forward(x) PROVE Keeps(x)
<1>1. TypeOK /\ Balance /\ Opens /\ Kinds
  BY DEF Flow
<1> DEFINE u == app[x].update
<1>2. /\ Quiet(x) /\ UNCHANGED <<st, wire>> /\ app'[x].update = 0 /\ app'[x].phase = app[x].phase
      /\ control'[Other(x)] = control[Other(x)]
      /\ IF u > 0 THEN Queued(x, Update(u)) ELSE UNCHANGED control
  BY <1>1, ForwardEffect DEF Quiet
<1>3. /\ st[x].inbound \in Nat /\ st[x].pendingWindowUpdate \in Nat /\ u \in Nat
      /\ Carried(control[x], "WINDOW_UPDATE") \in Nat /\ Carried(wire[x], "WINDOW_UPDATE") \in Nat
  BY <1>1, SpaceParts
<1>4. u > 0 => /\ u \in Threshold..Window
               /\ Update(u) \in ControlFrames /\ Update(u) \in Frames
               /\ Update(u).type = "WINDOW_UPDATE" /\ Update(u).n = u
  <2>1. app[x].update \in 0..Window
    BY <1>1 DEF TypeOK, Apps
  <2>2. u > 0 => u \in Threshold..Window
    BY <1>1, <2>1, MuxStreamAssumption DEF Balance
  <2> HIDE DEF u
  <2>3. u > 0 => u \in 0..Window
    BY <2>1 DEF u
  <2> QED BY <2>2, <2>3, ControlKinds, FrameTypes
<1> HIDE DEF u
<1>5. Carried(control'[x], "WINDOW_UPDATE") = Carried(control[x], "WINDOW_UPDATE") + u
  <2>1. CASE u > 0
    BY <1>1, <1>2, <1>4, <2>1, QueuedCarried
  <2>2. CASE ~ (u > 0)
    BY <1>2, <1>3, <2>2
  <2> QED BY <2>1, <2>2
<1>6. Own(x)' = Own(x)
  BY <1>2 DEF Own
<1>7. Back(x)' = Back(x)
  <2>1. Returning(x)' = st[x].inbound + st[x].pendingWindowUpdate + 0
                + (Carried(control[x], "WINDOW_UPDATE") + u) + Carried(wire[x], "WINDOW_UPDATE")
    BY <1>2, <1>5 DEF Returning
  <2>2. Returning(x) = st[x].inbound + st[x].pendingWindowUpdate + u
                + Carried(control[x], "WINDOW_UPDATE") + Carried(wire[x], "WINDOW_UPDATE")
    BY DEF Returning, u
  <2>3. Returning(x)' = Returning(x)
    BY <1>3, <2>1, <2>2
  <2> QED BY <1>2, <2>3 DEF Back
<1>8. BalanceMove(x)
  BY <1>1, <1>2, <1>6, <1>7 DEF BalanceMove, Balance
<1>9. KindsAt(x)'
  BY <1>1, <1>2, <1>4, KindsKept
<1>10. Lifecycle(x)'
  BY <1>1, <1>2 DEF Opens, Lifecycle
<1>11. OpenMove(x)
  <2>1. CASE u > 0
    BY <1>1, <1>2, <1>4, <1>10, <2>1, OpenKept
  <2>2. CASE ~ (u > 0)
    BY <1>1, <1>2, <1>10, <2>2, OpenKept
  <2> QED BY <2>1, <2>2
<1> QED BY <1>8, <1>9, <1>11 DEF Keeps

\* A frame moves from the head of one queue to the end of another.
LEMMA Moved ==
    ASSUME NEW q \in Seq(Frames), NEW p \in Seq(Frames), q # <<>>, NEW w \in [Frames -> Nat]
    PROVE  /\ Weight(Tail(q), w) + Weight(Append(p, Head(q)), w) = Weight(q, w) + Weight(p, w)
           /\ Weight(Tail(q), w) <= Weight(q, w)
           /\ Weight(Tail(q), w) \in Nat /\ Weight(Append(p, Head(q)), w) \in Nat
           /\ w[Head(q)] = 0 => Weight(Tail(q), w) = Weight(q, w) /\ Weight(Append(p, Head(q)), w) = Weight(p, w)
<1>1. Head(q) \in Frames /\ Tail(q) \in Seq(Frames) /\ Append(p, Head(q)) \in Seq(Frames)
  OBVIOUS
<1>2. Weight(q, w) = w[Head(q)] + Weight(Tail(q), w)
  BY WeightTail
<1>3. Weight(Append(p, Head(q)), w) = Weight(p, w) + w[Head(q)]
  BY <1>1, WeightAppend
<1>4. Weight(p, w) \in Nat /\ Weight(Tail(q), w) \in Nat /\ w[Head(q)] \in Nat
  BY <1>1, Weights
<1> QED BY <1>2, <1>3, <1>4

LEMMA MovedCarried ==
    ASSUME NEW q \in Seq(Frames), NEW p \in Seq(Frames), q # <<>>, NEW type
    PROVE  /\ Carried(Tail(q), type) + Carried(Append(p, Head(q)), type) = Carried(q, type) + Carried(p, type)
           /\ Head(q).type # type => /\ Carried(Tail(q), type) = Carried(q, type)
                                     /\ Carried(Append(p, Head(q)), type) = Carried(p, type)
           /\ Carried(Tail(q), type) \in Nat /\ Carried(Append(p, Head(q)), type) \in Nat
<1>1. Head(q) \in Frames /\ Tail(q) \in Seq(Frames) /\ Append(p, Head(q)) \in Seq(Frames)
  OBVIOUS
<1>2. Amount(type) \in [Frames -> Nat] /\ (Head(q).type # type => Amount(type)[Head(q)] = 0)
  BY <1>1, AmountType DEF Amount
<1>3. /\ Carried(q, type) = Weight(q, Amount(type)) /\ Carried(p, type) = Weight(p, Amount(type))
      /\ Carried(Tail(q), type) = Weight(Tail(q), Amount(type))
      /\ Carried(Append(p, Head(q)), type) = Weight(Append(p, Head(q)), Amount(type))
  BY <1>1, CarriedWeight
<1> QED BY <1>2, <1>3, Moved

LEMMA WriteControlKeeps == ASSUME Flow, NEW x \in Side, WriteControl(x) PROVE Quiet(x) /\ Keeps(x)
<1>0. PICK y \in Side : y = Other(x)
  BY Sides
<1>1. TypeOK /\ Balance /\ Opens /\ Kinds
  BY DEF Flow
<1>2. /\ UNCHANGED <<st, app, sent, rcvd>>
      /\ control[x] \in Seq(Frames) /\ control[x] # <<>> /\ Head(control[x]) \in Frames
      /\ control'[x] = Tail(control[x]) /\ control'[y] = control[y]
      /\ wire'[x] = Append(wire[x], Head(control[x])) /\ wire'[y] = wire[y]
  BY <1>0, <1>1, WriteControlEffect
<1>3. wire[x] \in Seq(Frames)
  BY <1>1 DEF TypeOK
<1>4. Head(control[x]) \in ControlFrames /\ Tail(control[x]) \in Seq(ControlFrames)
  <2>1. control[x] \in Seq(ControlFrames)
    BY <1>1 DEF Kinds, KindsAt
  <2> QED BY <1>2, <2>1
<1>5. Head(control[x]).type # "DATA"
  BY <1>4 DEF ControlFrames
<1>6. Carried(wire'[x], "DATA") = Carried(wire[x], "DATA")
  BY <1>2, <1>3, <1>5, MovedCarried
<1>7. Own(x)' = Own(x)
  BY <1>0, <1>2, <1>6 DEF Own
<1>8. /\ Carried(control'[x], "WINDOW_UPDATE") + Carried(wire'[x], "WINDOW_UPDATE") =
           Carried(control[x], "WINDOW_UPDATE") + Carried(wire[x], "WINDOW_UPDATE")
      /\ Carried(control'[x], "WINDOW_UPDATE") \in Nat /\ Carried(wire'[x], "WINDOW_UPDATE") \in Nat
  BY <1>2, <1>3, MovedCarried
<1>9. Back(x)' = Back(x)
  <2>1. /\ Returning(x)' = st[x].inbound + st[x].pendingWindowUpdate + app[x].update
                             + Carried(control'[x], "WINDOW_UPDATE") + Carried(wire'[x], "WINDOW_UPDATE")
        /\ Returning(x) = st[x].inbound + st[x].pendingWindowUpdate + app[x].update
                             + Carried(control[x], "WINDOW_UPDATE") + Carried(wire[x], "WINDOW_UPDATE")
    BY <1>2 DEF Returning
  <2>2. /\ st[x].inbound \in Nat /\ st[x].pendingWindowUpdate \in Nat /\ app[x].update \in Nat
        /\ Carried(control[x], "WINDOW_UPDATE") \in Nat /\ Carried(wire[x], "WINDOW_UPDATE") \in Nat
    BY <1>1, SpaceParts
  <2>3. Returning(x)' = Returning(x)
    BY <1>8, <2>1, <2>2
  <2> QED BY <1>0, <1>2, <2>3 DEF Back
<1>10. BalanceMove(x)
  BY <1>1, <1>2, <1>7, <1>9 DEF BalanceMove, Balance
<1>11. KindsAt(x)'
  BY <1>1, <1>2, <1>4 DEF Kinds, KindsAt
<1>12. Lifecycle(x)'
  BY <1>1, <1>2 DEF Opens, Lifecycle
<1>13. ASSUME NEW type PROVE Marks(x, type)' = Marks(x, type) /\ Marks(y, type)' = Marks(y, type)
  <2>1. Count(type) \in [Frames -> Nat]
    BY Counts
  <2>2. Weight(control'[x], Count(type)) + Weight(wire'[x], Count(type)) =
          Weight(control[x], Count(type)) + Weight(wire[x], Count(type))
    BY <1>2, <1>3, <2>1, Moved, SMTT(30)
  <2> QED BY <1>2, <2>2 DEF Marks
<1>14. Weight(control'[x], Single) <= Weight(control[x], Single)
  BY <1>2, <1>3, Counts, Moved
<1>15. OpenMove(x)
  <2>1. Weight(control'[x], Single) \in Nat /\ Weight(control[x], Single) \in Nat /\ One(st[x].closed) \in Nat
    <3>1. Tail(control[x]) \in Seq(Frames)
      BY <1>2
    <3> QED BY <1>2, <3>1, Counts, Weights DEF One
  <2>2. Weight(control'[x], Single) + One(st[x].closed) <= Weight(control[x], Single) + One(st'[x].closed)
    BY <1>2, <1>14, <2>1
  <2>3. Marks(y, "OPEN_OK") \in Nat
    BY <1>1, MarksNat
  <2>4. Marks(y, "OPEN_OK")' <= Marks(y, "OPEN_OK")
    BY <1>13, <2>3
  <2> QED BY <1>0, <1>2, <1>12, <1>13, <2>2, <2>4 DEF OpenMove
<1>16. Quiet(x)
  BY <1>0, <1>2 DEF Quiet
<1> QED BY <1>10, <1>11, <1>15, <1>16 DEF Keeps

LEMMA WriteOutboundKeeps == ASSUME Flow, NEW x \in Side, WriteOutbound(x) PROVE Keeps(x)
<1>0. PICK y \in Side : y = Other(x)
  BY Sides
<1>1. TypeOK /\ Balance /\ Opens /\ Kinds /\ st[x] \in Streams
  BY DEF Flow, TypeOK
<1>2. /\ UNCHANGED <<app, control>> /\ st[x].registered
      /\ st[x].outbound \in Seq(Frames) /\ st[x].outbound # <<>> /\ Head(st[x].outbound) \in Frames
      /\ wire'[x] = Append(wire[x], Head(st[x].outbound)) /\ wire'[y] = wire[y]
      /\ st'[x] = [st[x] EXCEPT !.outbound = Tail(st[x].outbound),
                      !.registered = Len(st[x].outbound) > 1 \/ ~ st[x].closeAfterDrain]
  BY <1>0, <1>1, WriteOutboundEffect
<1>3. wire[x] \in Seq(Frames) /\ st[x].outbound \in Seq(OutFrames) /\ control[x] \in Seq(ControlFrames)
  BY <1>1 DEF TypeOK, Kinds, KindsAt
<1>4. Head(st[x].outbound) \in OutFrames /\ Tail(st[x].outbound) \in Seq(OutFrames)
  BY <1>2, <1>3
<1>5. Head(st[x].outbound).type \notin {"WINDOW_UPDATE", "OPEN", "OPEN_OK"}
  BY <1>4 DEF OutFrames
<1>6. /\ st'[x].outbound = Tail(st[x].outbound) /\ SameWindows(st[x], st'[x])
      /\ st'[x].opened = st[x].opened /\ st'[x].closed = st[x].closed
      /\ st'[x].closeAfterDrain = st[x].closeAfterDrain
      /\ ~ st[x].closeAfterDrain => st'[x].registered
  BY <1>1, <1>2 DEF Streams, SameWindows
<1>7. /\ Carried(st'[x].outbound, "DATA") + Carried(wire'[x], "DATA") =
           Carried(st[x].outbound, "DATA") + Carried(wire[x], "DATA")
      /\ Carried(st'[x].outbound, "DATA") \in Nat /\ Carried(wire'[x], "DATA") \in Nat
  BY <1>2, <1>3, <1>6, MovedCarried, SMTT(30)
<1>8. Own(x)' = Own(x)
  <2>1. /\ Own(x)' = st[x].sendWindow + Carried(st'[x].outbound, "DATA") + Carried(wire'[x], "DATA")
                       + Carried(wire[y], "WINDOW_UPDATE")
        /\ Own(x) = st[x].sendWindow + Carried(st[x].outbound, "DATA") + Carried(wire[x], "DATA")
                       + Carried(wire[y], "WINDOW_UPDATE")
    BY <1>0, <1>2, <1>6 DEF Own, SameWindows
  <2>2. /\ st[x].sendWindow \in Nat /\ Carried(st[x].outbound, "DATA") \in Nat
        /\ Carried(wire[x], "DATA") \in Nat /\ Carried(wire[y], "WINDOW_UPDATE") \in Nat
    BY <1>1, SpaceParts
  <2> QED BY <1>7, <2>1, <2>2
<1>9. Carried(wire'[x], "WINDOW_UPDATE") = Carried(wire[x], "WINDOW_UPDATE")
  BY <1>2, <1>3, <1>5, MovedCarried, SMTT(30)
<1>10. Back(x)' = Back(x)
  BY <1>0, <1>2, <1>6, <1>9 DEF Back, Returning, SameWindows
<1>11. BalanceMove(x)
  BY <1>1, <1>2, <1>6, <1>8, <1>10 DEF BalanceMove, Balance, SameWindows
<1>12. KindsAt(x)'
  BY <1>2, <1>3, <1>4, <1>6 DEF KindsAt
<1>13. Lifecycle(x)'
  BY <1>1, <1>2, <1>6 DEF Opens, Lifecycle, SameWindows
<1>14. ASSUME NEW type \in {"OPEN", "OPEN_OK"} PROVE Marks(x, type)' = Marks(x, type) /\ Marks(y, type)' = Marks(y, type)
  <2>1. Count(type) \in [Frames -> Nat] /\ Count(type)[Head(st[x].outbound)] = 0
    BY <1>2, <1>5, Counts
  <2>2. Weight(wire'[x], Count(type)) = Weight(wire[x], Count(type))
    BY <1>2, <1>3, <2>1, Moved, SMTT(30)
  <2> QED BY <1>2, <2>2 DEF Marks
<1>15. OpenMove(x)
  <2>1. Weight(control[x], Single) \in Nat /\ One(st[x].closed) \in Nat /\ Marks(y, "OPEN_OK") \in Nat
    BY <1>1, MarksNat DEF One
  <2>2. Weight(control'[x], Single) + One(st[x].closed) <= Weight(control[x], Single) + One(st'[x].closed)
    BY <1>2, <1>6, <2>1
  <2>3. Marks(y, "OPEN_OK")' <= Marks(y, "OPEN_OK")
    BY <1>14, <2>1
  <2> QED BY <1>0, <1>2, <1>6, <1>13, <1>14, <2>2, <2>3 DEF OpenMove
<1> QED BY <1>11, <1>12, <1>15 DEF Keeps

\* The steps that open, accept, refuse or answer the stream.
LEMMA KeptFlow ==
    ASSUME Flow, TypeOK', NEW x \in Side, Quiet(x), BalanceMove(x), KindsAt(x)'
    PROVE  Balance' /\ WindowConserved' /\ Kinds'
<1>1. TypeOK /\ Balance /\ WindowConserved /\ Kinds
  BY DEF Flow
<1>2. Balance' /\ WindowConserved'
  BY <1>1, BalanceStep
<1>3. KindsAt(Other(x))'
  BY <1>1, Sides DEF Quiet, Kinds, KindsAt
<1> QED BY <1>2, <1>3, Sides DEF Kinds

LEMMA TwoSides ==
    /\ Client \in Side /\ Server \in Side /\ Client # Server /\ Other(Client) = Server /\ Other(Server) = Client
    /\ \A z \in Side : z = Client \/ z = Server
BY DEF Side, Client, Server, Other

LEMMA OpenServiceFlow == ASSUME Flow, OpenService PROVE Flow'
<1>1. TypeOK /\ Balance /\ Opens /\ Kinds /\ Share /\ Client \in Side /\ st[Client] \in Streams
  BY TwoSides DEF Flow, TypeOK
<1>2. /\ TypeOK' /\ Quiet(Client) /\ UNCHANGED wire
      /\ app[Client].phase = "idle" /\ app'[Client].phase = "opening"
      /\ SameCopy(app[Client], app'[Client])
      /\ st'[Client] = [st[Client] EXCEPT !.registered = TRUE]
      /\ Queued(Client, Frame("OPEN"))
  BY <1>1, OpenServiceEffect
<1>3. /\ SameWindows(st[Client], st'[Client]) /\ st'[Client].outbound = st[Client].outbound
      /\ st'[Client].opened = st[Client].opened /\ st'[Client].closed = st[Client].closed
      /\ st'[Client].registered /\ st'[Client].closeAfterDrain = st[Client].closeAfterDrain
  BY <1>1, <1>2 DEF Streams, SameWindows
<1>4. st'[Server] = st[Server] /\ app'[Server] = app[Server] /\ control'[Server] = control[Server]
  BY <1>2, TwoSides DEF Quiet
<1>5. Frame("OPEN") \in Frames /\ Frame("OPEN").type = "OPEN" /\ Frame("OPEN") \in ControlFrames
  BY FrameTypes, ControlKinds
<1>6. BalanceMove(Client)
  BY <1>1, <1>2, <1>3, <1>5, BalanceKept DEF SameCopy
<1>7. KindsAt(Client)'
  BY <1>1, <1>2, <1>3, <1>5, KindsKept
<1>8. Balance' /\ WindowConserved' /\ Kinds'
  BY <1>1, <1>2, <1>6, <1>7, KeptFlow
<1>9. /\ \A type : Marks(Client, type)' = Marks(Client, type) + (IF "OPEN" = type THEN 1 ELSE 0)
      /\ Weight(control'[Client], Single) = Weight(control[Client], Single) + 1
  BY <1>1, <1>2, <1>5, MarksQueued
<1>10. \A type : Marks(Server, type)' = Marks(Server, type)
  BY <1>2, <1>4 DEF Marks
<1>11. /\ Marks(Client, "OPEN") \in Nat /\ Marks(Client, "OPEN_OK") \in Nat /\ Marks(Server, "OPEN_OK") \in Nat
       /\ Weight(control[Client], Single) \in Nat
  BY <1>1, TwoSides, MarksNat
<1>12. Marks(Client, "OPEN")' = Marks(Client, "OPEN") + 1 /\ Marks(Client, "OPEN_OK")' = Marks(Client, "OPEN_OK")
  BY <1>9, <1>11
<1>13. Chances' = Chances
  <2>1. One(app[Client].phase = "idle") = 1 /\ One(app'[Client].phase = "idle") = 0
    BY <1>2 DEF One
  <2>2. One(app'[Server].phase # "idle") = One(app[Server].phase # "idle") /\ One(app[Server].phase # "idle") \in Nat
    BY <1>4 DEF One
  <2> QED BY <1>11, <1>12, <2>1, <2>2 DEF Chances
<1>14. \A z \in Side : Lifecycle(z)'
  <2>1. Lifecycle(Client)'
    <3>1. Lifecycle(Client)
      BY <1>1 DEF Opens
    <3> QED BY <1>2, <1>3, <3>1 DEF Lifecycle, SameWindows, Client, Server
  <2>2. Lifecycle(Server)'
    BY <1>1, <1>4, TwoSides DEF Opens, Lifecycle
  <2> QED BY <2>1, <2>2, TwoSides
<1>15. Opens'
  <2>1. \A z \in Side : Marks(z, "OPEN_OK")' = Marks(z, "OPEN_OK") /\ st'[z].opened = st[z].opened
    BY <1>3, <1>4, <1>10, <1>12, TwoSides
  <2> QED BY <1>1, <1>13, <1>14, <2>1, TwoSides DEF Opens
<1>16. Share'
  <2>1. Weight(control[Client], Single) <= One(st[Client].closed) /\ One(st[Client].closed) \in Nat
    BY <1>1, <1>2 DEF Share, One
  <2>2. One(app'[Client].phase # "idle") = 1
    BY <1>2 DEF One
  <2>3. Weight(control'[Client], Single) <= One(app'[Client].phase # "idle") + One(st'[Client].closed)
    BY <1>3, <1>9, <1>11, <2>1, <2>2
  <2> QED BY <1>1, <1>4, <1>13, <2>3 DEF Share
<1> QED BY <1>2, <1>8, <1>15, <1>16 DEF Flow

LEMMA DialOKFlow == ASSUME Flow, DialOK PROVE Flow'
<1>1. TypeOK /\ Balance /\ Opens /\ Kinds /\ Share /\ Server \in Side /\ st[Server] \in Streams
  BY TwoSides DEF Flow, TypeOK
<1>2. /\ TypeOK' /\ Quiet(Server) /\ UNCHANGED wire
      /\ app[Server].phase = "opening" /\ SameCopy(app[Server], app'[Server])
      /\ \/ /\ st[Server].closed /\ UNCHANGED <<st, control>>
            /\ app'[Server].phase = "done"
         \/ /\ ~ st[Server].closed /\ app'[Server].phase = "proxy"
            /\ st'[Server] = [st[Server] EXCEPT !.opened = TRUE]
            /\ Queued(Server, Frame("OPEN_OK"))
  BY <1>1, DialOKEffect
<1>3. CASE st[Server].closed /\ UNCHANGED <<st, control>> /\ app'[Server].phase = "done"
  <2>1. Keeps(Server)
    BY <1>1, <1>2, <1>3, GoneMove DEF SameWindows, SameCopy
  <2> QED BY <1>1, <1>2, <2>1, FlowStep
<1>4. CASE /\ ~ st[Server].closed /\ app'[Server].phase = "proxy"
           /\ st'[Server] = [st[Server] EXCEPT !.opened = TRUE]
           /\ Queued(Server, Frame("OPEN_OK"))
  <2>1. /\ SameWindows(st[Server], st'[Server]) /\ st'[Server].outbound = st[Server].outbound
        /\ st'[Server].opened /\ st'[Server].closed = st[Server].closed
        /\ st'[Server].registered = st[Server].registered
        /\ st'[Server].closeAfterDrain = st[Server].closeAfterDrain
    BY <1>1, <1>4 DEF Streams, SameWindows
  <2>2. st'[Client] = st[Client] /\ app'[Client] = app[Client] /\ control'[Client] = control[Client]
    BY <1>2, TwoSides DEF Quiet
  <2>3. Frame("OPEN_OK") \in Frames /\ Frame("OPEN_OK").type = "OPEN_OK" /\ Frame("OPEN_OK") \in ControlFrames
    BY FrameTypes, ControlKinds
  <2>4. BalanceMove(Server)
    BY <1>1, <1>2, <1>4, <2>1, <2>3, BalanceKept DEF SameCopy
  <2>5. KindsAt(Server)'
    BY <1>1, <1>4, <2>1, <2>3, KindsKept
  <2>6. Balance' /\ WindowConserved' /\ Kinds'
    BY <1>1, <1>2, <2>4, <2>5, KeptFlow
  <2>7. Weight(control'[Server], Single) = Weight(control[Server], Single) + 1
    BY <1>1, <1>2, <1>4, <2>3, MarksQueued
  <2>8. \A type : Marks(Client, type)' = Marks(Client, type)
    BY <1>2, <2>2 DEF Marks
  <2>9. Marks(Client, "OPEN") \in Nat /\ Weight(control[Server], Single) \in Nat /\ Marks(Client, "OPEN_OK") \in Nat
    BY <1>1, TwoSides, MarksNat
  <2>10. Chances' = Chances
    BY <1>2, <1>4, <2>2, <2>8 DEF Chances, One
  <2>11. Lifecycle(Server) /\ ~ st[Server].opened
    BY <1>1, <1>2 DEF Opens, Lifecycle
  <2>12. \A z \in Side : Lifecycle(z)'
    <3>1. Lifecycle(Server)'
      BY <1>2, <1>4, <2>1, <2>11 DEF Lifecycle
    <3>2. Lifecycle(Client)'
      BY <1>1, <2>2, TwoSides DEF Opens, Lifecycle
    <3> QED BY <3>1, <3>2, TwoSides
  <2>13. Opens'
    <3>1. ~ (Marks(Client, "OPEN_OK")' > 0)
      BY <1>1, <2>8, <2>9, TwoSides DEF Opens
    <3>2. \A z \in Side : Marks(z, "OPEN_OK")' > 0 => z = Server /\ st'[Server].opened
      BY <2>1, <3>1, TwoSides
    <3> QED BY <1>1, <2>1, <2>10, <2>12, <3>2 DEF Opens
  <2>14. Share'
    <3>1. One(st[Server].opened) = 0 /\ One(st'[Server].opened) = 1
      BY <2>1, <2>11 DEF One
    <3>2. One(st'[Server].closed) = One(st[Server].closed) /\ One(st[Server].closed) \in Nat
      BY <2>1 DEF One
    <3>3. Chances \in Nat
      BY <2>9 DEF Chances, One
    <3>4. Weight(control'[Server], Single) <= One(st'[Server].opened) + One(st'[Server].closed) + (1 - Chances')
      BY <1>1, <2>7, <2>9, <2>10, <3>1, <3>2, <3>3 DEF Share
    <3> QED BY <1>1, <2>2, <3>4 DEF Share
  <2> QED BY <1>2, <2>6, <2>13, <2>14 DEF Flow
<1> QED BY <1>2, <1>3, <1>4

LEMMA handleOpenFlow == ASSUME Flow, handleOpen PROVE Flow'
<1>1. TypeOK /\ Balance /\ Opens /\ Kinds /\ Share /\ Server \in Side /\ st[Server] \in Streams
  BY TwoSides DEF Flow, TypeOK
<1>2. /\ TypeOK' /\ Quiet(Server) /\ Receives(Server, {"OPEN"})
      /\ SameCopy(app[Server], app'[Server])
      /\ \/ /\ st'[Server] = [st[Server] EXCEPT !.registered = TRUE]
            /\ app'[Server].phase = "opening" /\ UNCHANGED control
         \/ Queued(Server, Frame("OPEN_ERROR")) /\ UNCHANGED <<st, app>>
  BY <1>1, handleOpenEffect
<1>3. st'[Client] = st[Client] /\ app'[Client] = app[Client] /\ control'[Client] = control[Client]
  BY <1>2, TwoSides DEF Quiet
<1>4. Incoming(Server).type = "OPEN" /\ wire'[Server] = wire[Server]
  BY <1>1, <1>2, ReceiveEffect
<1>5. ASSUME NEW type
      PROVE  /\ Marks(Client, type) = (IF "OPEN" = type THEN 1 ELSE 0) + Marks(Client, type)'
             /\ Marks(Client, type)' \in Nat
  BY <1>1, <1>2, <1>3, <1>4, TwoSides, MarksReceived
<1>6. /\ Marks(Client, "OPEN") = 1 + Marks(Client, "OPEN")' /\ Marks(Client, "OPEN")' \in Nat
      /\ Marks(Client, "OPEN_OK") = Marks(Client, "OPEN_OK")'
  BY <1>5
<1>7. /\ app[Server].phase = "idle" /\ app[Client].phase # "idle" /\ Marks(Client, "OPEN")' = 0 /\ Chances = 1
  BY <1>1, <1>6 DEF Opens, Chances, One
<1>8. Lifecycle(Server) /\ ~ st[Server].opened /\ ~ st[Server].closed
  BY <1>1, <1>7 DEF Opens, Lifecycle
<1>9. Lifecycle(Client)'
  BY <1>1, <1>3, TwoSides DEF Opens, Lifecycle
<1>10. \A type \in {"DATA", "WINDOW_UPDATE"} : Carried(wire'[Client], type) = Carried(wire[Client], type)
  <2>1. ASSUME NEW type \in {"DATA", "WINDOW_UPDATE"}
        PROVE  /\ Carried(wire[Client], type) = 0 + Carried(wire'[Client], type)
               /\ Carried(wire'[Client], type) \in Nat
    BY <1>1, <1>2, <1>4, TwoSides, ReceivedCarried
  <2> QED BY <2>1
<1>11. CASE /\ st'[Server] = [st[Server] EXCEPT !.registered = TRUE]
            /\ app'[Server].phase = "opening" /\ UNCHANGED control
  <2>1. /\ SameWindows(st[Server], st'[Server]) /\ st'[Server].outbound = st[Server].outbound
        /\ st'[Server].opened = st[Server].opened /\ st'[Server].closed = st[Server].closed
        /\ st'[Server].registered /\ st'[Server].closeAfterDrain = st[Server].closeAfterDrain
    BY <1>1, <1>11 DEF Streams, SameWindows
  <2>2. BalanceMove(Server)
    BY <1>1, <1>2, <1>4, <1>10, <1>11, <2>1, TwoSides, BalanceKept, ZenonT(30) DEF SameCopy
  <2>3. KindsAt(Server)'
    BY <1>1, <1>11, <2>1, KindsKept
  <2>4. Balance' /\ WindowConserved' /\ Kinds'
    BY <1>1, <1>2, <2>2, <2>3, KeptFlow
  <2>5. Chances' = Chances
    BY <1>3, <1>7, <1>11 DEF Chances, One
  <2>6. Lifecycle(Server)'
    BY <1>8, <1>11, <2>1 DEF Lifecycle, SameWindows
  <2>7. Opens'
    <3>1. \A z \in Side : Marks(z, "OPEN_OK")' = Marks(z, "OPEN_OK")
      BY <1>4, <1>6, <1>11, TwoSides DEF Marks
    <3> QED BY <1>1, <1>3, <1>9, <2>1, <2>5, <2>6, <3>1, TwoSides DEF Opens
  <2>8. Share'
    BY <1>1, <1>3, <1>11, <2>1, <2>5 DEF Share
  <2> QED BY <1>2, <2>4, <2>7, <2>8 DEF Flow
<1>12. CASE Queued(Server, Frame("OPEN_ERROR")) /\ UNCHANGED <<st, app>>
  <2>1. /\ Frame("OPEN_ERROR") \in Frames /\ Frame("OPEN_ERROR").type = "OPEN_ERROR"
        /\ Frame("OPEN_ERROR") \in ControlFrames
    BY FrameTypes, ControlKinds
  <2>2. BalanceMove(Server)
    BY <1>1, <1>2, <1>4, <1>10, <1>12, <2>1, TwoSides, BalanceKept DEF SameWindows
  <2>3. KindsAt(Server)'
    BY <1>1, <1>12, <2>1, KindsKept
  <2>4. Balance' /\ WindowConserved' /\ Kinds'
    BY <1>1, <1>2, <2>2, <2>3, KeptFlow
  <2>5. Chances' = 0
    BY <1>7, <1>12 DEF Chances, One
  <2>6. Lifecycle(Server)'
    BY <1>8, <1>12 DEF Lifecycle
  <2>7. /\ \A type : Marks(Server, type)' = Marks(Server, type) + (IF "OPEN_ERROR" = type THEN 1 ELSE 0)
        /\ Weight(control'[Server], Single) = Weight(control[Server], Single) + 1
    BY <1>1, <1>4, <1>12, <2>1, MarksQueued
  <2>8. Marks(Server, "OPEN_OK") \in Nat /\ Weight(control[Server], Single) \in Nat
    BY <1>1, MarksNat
  <2>9. Opens'
    <3>1. Marks(Server, "OPEN_OK")' = Marks(Server, "OPEN_OK")
      BY <2>7, <2>8
    <3>2. \A z \in Side : Marks(z, "OPEN_OK")' = Marks(z, "OPEN_OK")
      BY <1>6, <3>1, TwoSides
    <3>3. \A z \in Side : Lifecycle(z)'
      BY <1>9, <2>6, TwoSides
    <3>4. \A z \in Side : Marks(z, "OPEN_OK")' > 0 => z = Server /\ st'[Server].opened
      BY <1>1, <1>12, <3>2 DEF Opens
    <3>5. (st'[Client].opened => st'[Server].opened) /\ Chances' <= 1
      BY <1>1, <1>12, <2>5 DEF Opens
    <3> QED BY <3>3, <3>4, <3>5 DEF Opens
  <2>10. Share'
    <3>1. Weight(control'[Server], Single) <= One(st'[Server].opened) + One(st'[Server].closed) + (1 - Chances')
      BY <1>1, <1>7, <1>12, <2>5, <2>7, <2>8 DEF Share, One
    <3> QED BY <1>1, <1>3, <3>1 DEF Share
  <2> QED BY <1>2, <2>4, <2>9, <2>10 DEF Flow
<1> QED BY <1>2, <1>11, <1>12

LEMMA HandleOpenOKFlow == ASSUME Flow, NEW x \in Side, HandleOpenOK(x) PROVE Flow'
<1>1. TypeOK /\ Balance /\ Opens /\ Kinds /\ Share /\ st[x] \in Streams
  BY DEF Flow, TypeOK
<1>2. /\ TypeOK' /\ Quiet(x) /\ UNCHANGED <<app, control>> /\ Receives(x, {"OPEN_OK"}) /\ st[x].registered
      /\ st'[x] \in {st[x], [st[x] EXCEPT !.opened = TRUE]}
  BY <1>1, HandleOpenOKEffect
<1>3. Incoming(x).type = "OPEN_OK" /\ wire'[x] = wire[x]
  BY <1>1, <1>2, ReceiveEffect
<1>4. x = Client /\ st[Server].opened
  <2>1. /\ Marks(Other(x), "OPEN_OK") = 1 + Marks(Other(x), "OPEN_OK")'
        /\ Marks(Other(x), "OPEN_OK")' \in Nat
    BY <1>1, <1>2, <1>3, MarksReceived
  <2>2. Marks(Other(x), "OPEN_OK") > 0 /\ Other(x) \in Side
    BY <2>1, Sides
  <2> QED BY <1>1, <2>2, TwoSides DEF Opens
<1>5. CASE st'[x] = st[x]
  <2>1. Lifecycle(x)'
    BY <1>1, <1>2, <1>5 DEF Opens, Lifecycle
  <2>2. Keeps(x)
    BY <1>1, <1>2, <1>3, <1>5, <2>1, StillMove DEF SameWindows
  <2> QED BY <1>1, <1>2, <2>2, FlowStep
<1>6. CASE st'[x] = [st[x] EXCEPT !.opened = TRUE]
  <2>1. /\ SameWindows(st[x], st'[x]) /\ st'[x].outbound = st[x].outbound
        /\ st'[x].opened /\ st'[x].closed = st[x].closed
        /\ st'[x].registered = st[x].registered /\ st'[x].closeAfterDrain = st[x].closeAfterDrain
    BY <1>1, <1>6 DEF Streams, SameWindows
  <2>2. st'[Server] = st[Server]
    BY <1>2, <1>4, TwoSides DEF Quiet
  <2>3. \A type \in {"DATA", "WINDOW_UPDATE"} : Carried(wire'[Other(x)], type) = Carried(wire[Other(x)], type)
    <3>1. ASSUME NEW type \in {"DATA", "WINDOW_UPDATE"}
          PROVE  /\ Carried(wire[Other(x)], type) = 0 + Carried(wire'[Other(x)], type)
                 /\ Carried(wire'[Other(x)], type) \in Nat
      BY <1>1, <1>2, <1>3, ReceivedCarried
    <3> QED BY <3>1
  <2>4. BalanceMove(x)
    BY <1>1, <1>2, <1>3, <2>1, <2>3, BalanceKept
  <2>5. KindsAt(x)'
    BY <1>1, <1>2, <2>1, KindsKept
  <2>6. Balance' /\ WindowConserved' /\ Kinds'
    BY <1>1, <1>2, <2>4, <2>5, KeptFlow
  <2>7. \A type : Marks(Client, type)' = Marks(Client, type)
    BY <1>2, <1>3, <1>4 DEF Marks
  <2>8. Chances' = Chances
    BY <1>2, <2>7 DEF Chances
  <2>9. \A z \in Side : Lifecycle(z)'
    <3>1. Lifecycle(Client)'
      BY <1>1, <1>2, <1>4, <2>1, Registered, TwoSides DEF Opens, Lifecycle, SameWindows
    <3>2. Lifecycle(Server)'
      BY <1>1, <1>2, <2>2, TwoSides DEF Opens, Lifecycle
    <3> QED BY <3>1, <3>2, TwoSides
  <2>10. Opens'
    <3>1. \A z \in Side : Marks(z, "OPEN_OK")' > 0 => z = Server /\ st'[Server].opened
      BY <1>1, <1>4, <2>2, <2>7, TwoSides DEF Opens
    <3> QED BY <1>1, <1>4, <2>2, <2>8, <2>9, <3>1 DEF Opens
  <2>11. Share'
    BY <1>1, <1>2, <1>4, <2>1, <2>2, <2>8 DEF Share
  <2> QED BY <1>2, <2>6, <2>10, <2>11 DEF Flow
<1> QED BY <1>2, <1>5, <1>6

-----------------------------------------------------------------------------
(* The flow-control invariant.                                             *)

\* An update is for bytes that are on their way to TCP.
Held == \A x \in Side : app[x].held = 0 => app[x].update = 0

LEMMA HeldStep ==
    ASSUME Held, NEW x \in Side, Quiet(x),
           \/ app'[x].held = app[x].held /\ app'[x].update = app[x].update
           \/ app'[x].held # 0 \/ app'[x].update = 0
    PROVE  Held'
BY Sides DEF Held, Quiet

LEMMA OpeningFlow == ASSUME Flow, Held, Opening \/ handleOpen PROVE Flow' /\ Held'
<1>1. TypeOK /\ Client \in Side /\ Server \in Side
  BY TwoSides DEF Flow
<1>2. CASE OpenService
  BY <1>1, <1>2, OpenServiceFlow, OpenServiceEffect, HeldStep DEF SameCopy
<1>3. CASE waitOpened
  <2>1. TypeOK' /\ Quiet(Client) /\ SameCopy(app[Client], app'[Client])
    BY <1>1, <1>3, waitOpenedEffect
  <2> QED BY <1>1, <1>3, <2>1, waitOpenedKeeps, FlowStep, HeldStep DEF SameCopy
<1>4. CASE OpenTimeout
  <2>1. TypeOK' /\ Quiet(Client) /\ SameCopy(app[Client], app'[Client])
    BY <1>1, <1>4, OpenTimeoutEffect
  <2> QED BY <1>1, <1>4, <2>1, OpenTimeoutKeeps, FlowStep, HeldStep DEF SameCopy
<1>5. CASE DialOK
  BY <1>1, <1>5, DialOKFlow, DialOKEffect, HeldStep DEF SameCopy
<1>6. CASE DialFails
  <2>1. TypeOK' /\ Quiet(Server) /\ SameCopy(app[Server], app'[Server])
    BY <1>1, <1>6, DialFailsEffect
  <2> QED BY <1>1, <1>6, <2>1, DialFailsKeeps, FlowStep, HeldStep DEF SameCopy
<1>7. CASE handleOpen
  BY <1>1, <1>7, handleOpenFlow, handleOpenEffect, HeldStep DEF SameCopy
<1> QED BY <1>2, <1>3, <1>4, <1>5, <1>6, <1>7 DEF Opening

LEMMA LoopFlow ==
    ASSUME Flow, Held, NEW x \in Side, readLoop(x) \/ writeLoop(x) \/ Shutdown(x)
    PROVE  Flow' /\ Held'
<1>1. TypeOK /\ Balance
  BY DEF Flow
<1>2. CASE HandleLate(x)
  <2>1. TypeOK' /\ Quiet(x) /\ UNCHANGED app
    BY <1>1, <1>2, HandleLateEffect
  <2> QED BY <1>2, <2>1, HandleLateKeeps, FlowStep, HeldStep
<1>3. CASE HandleOpenOK(x)
  <2>1. Quiet(x) /\ UNCHANGED app
    BY <1>1, <1>3, HandleOpenOKEffect
  <2> QED BY <1>3, <2>1, HandleOpenOKFlow, HeldStep
<1>4. CASE HandleEnd(x)
  <2>1. TypeOK' /\ Quiet(x) /\ UNCHANGED app
    BY <1>1, <1>4, HandleEndEffect
  <2> QED BY <1>4, <2>1, HandleEndKeeps, FlowStep, HeldStep
<1>5. CASE receiveData(x)
  <2>1. TypeOK' /\ Quiet(x) /\ UNCHANGED app
    BY <1>1, <1>5, receiveDataEffect
  <2> QED BY <1>5, <2>1, receiveDataKeeps, FlowStep, HeldStep
<1>6. CASE updateSendWindow(x)
  <2>1. TypeOK' /\ Quiet(x) /\ UNCHANGED app
    BY <1>1, <1>6, updateSendWindowEffect
  <2> QED BY <1>6, <2>1, updateSendWindowKeeps, FlowStep, HeldStep
<1>7. CASE receiveFIN(x)
  <2>1. TypeOK' /\ Quiet(x) /\ UNCHANGED app
    BY <1>1, <1>7, receiveFINEffect
  <2> QED BY <1>7, <2>1, receiveFINKeeps, FlowStep, HeldStep
<1>8. CASE NoControl(x)
  <2>1. TypeOK' /\ UNCHANGED <<st, app, control, wire, sent, rcvd>>
    BY <1>1, <1>8, NoControlEffect
  <2> QED BY <2>1, NoControlKeeps, FlowStep, HeldStep
<1>9. CASE WriteControl(x)
  <2>1. TypeOK' /\ UNCHANGED app
    BY <1>1, <1>9, WriteControlEffect
  <2> QED BY <1>9, <2>1, WriteControlKeeps, FlowStep, HeldStep
<1>10. CASE WriteOutbound(x)
  <2>1. TypeOK' /\ Quiet(x) /\ UNCHANGED app
    BY <1>1, <1>10, WriteOutboundEffect
  <2> QED BY <1>10, <2>1, WriteOutboundKeeps, FlowStep, HeldStep
<1>11. CASE Shutdown(x)
  <2>1. TypeOK' /\ Quiet(x) /\ UNCHANGED app
    BY <1>1, <1>11, ShutdownEffect
  <2> QED BY <1>11, <2>1, ShutdownKeeps, FlowStep, HeldStep
<1> QED BY <1>2, <1>3, <1>4, <1>5, <1>6, <1>7, <1>8, <1>9, <1>10, <1>11 DEF readLoop, writeLoop

LEMMA ProxyFlow == ASSUME Flow, Held, NEW x \in Side, Proxy(x) PROVE Flow' /\ Held'
<1>1. TypeOK /\ Balance
  BY DEF Flow
<1>2. CASE SourceEnds(x) \/ SourceFails(x)
  <2>1. TypeOK' /\ Quiet(x) /\ SameCopy(app[x], app'[x])
    BY <1>1, <1>2, SourceEffect
  <2> QED BY <1>2, <2>1, SourceKeeps, FlowStep, HeldStep DEF SameCopy
<1>3. CASE Forward(x)
  <2>1. TypeOK' /\ Quiet(x) /\ app'[x].update = 0
    BY <1>1, <1>3, ForwardEffect
  <2> QED BY <1>3, <2>1, ForwardKeeps, FlowStep, HeldStep
<1>4. CASE SinkEnds(x) \/ SinkFails(x)
  <2>1. TypeOK' /\ Quiet(x) /\ app'[x].update = app[x].update /\ app'[x].held = app[x].held
    BY <1>1, <1>4, SinkEffect
  <2> QED BY <1>4, <2>1, SinkKeeps, FlowStep, HeldStep
<1>5. CASE ProxyFails(x)
  <2>1. TypeOK' /\ Quiet(x) /\ app'[x].update = app[x].update /\ app'[x].held = app[x].held
    BY <1>1, <1>5, ProxyFailsEffect
  <2> QED BY <1>5, <2>1, ProxyFailsKeeps, FlowStep, HeldStep
<1>6. CASE ProxyEnds(x)
  <2>1. TypeOK' /\ Quiet(x) /\ SameCopy(app[x], app'[x])
    BY <1>1, <1>6, ProxyEndsEffect
  <2> QED BY <1>6, <2>1, ProxyEndsKeeps, FlowStep, HeldStep DEF SameCopy
<1>7. ASSUME NEW n \in 1..Window, Write(x, n) PROVE Flow' /\ Held'
  <2>1. TypeOK' /\ Quiet(x) /\ UNCHANGED app
    BY <1>1, <1>7, WriteEffect
  <2> QED BY <1>7, <2>1, WriteKeeps, FlowStep, HeldStep
<1>8. ASSUME NEW n \in 1..Window, Read(x, n) PROVE Flow' /\ Held'
  <2>1. TypeOK' /\ Quiet(x) /\ app[x].held = 0 /\ app'[x].held = n
    BY <1>1, <1>8, ReadEffect
  <2>2. app[x].update = 0 /\ app'[x].held # 0
    BY <2>1 DEF Held
  <2>3. Keeps(x)
    BY <1>8, <2>2, ReadKeeps
  <2> QED BY <2>1, <2>2, <2>3, FlowStep, HeldStep
<1> QED BY <1>2, <1>3, <1>4, <1>5, <1>6, <1>7, <1>8 DEF Proxy

LEMMA InitFlow == Init => Flow /\ Held
<1> SUFFICES ASSUME Init PROVE Flow /\ Held
  OBVIOUS
<1>0. /\ Window \in Nat /\ 0 \in 0..Window /\ Window \in 0..Window /\ 0 \in 0..(Threshold - 1)
      /\ <<>> \in Seq(Frames) /\ <<>> \in Seq(OutFrames) /\ <<>> \in Seq(ControlFrames)
  BY MuxStreamAssumption
<1>1. newStream \in Streams /\ NewApp \in Apps
  BY <1>0 DEF newStream, Streams, NewApp, Apps
<1>2. \A x \in Side : st[x] = newStream /\ app[x] = NewApp /\ control[x] = <<>> /\ wire[x] = <<>>
  BY DEF Init
<1>3. TypeOK
  BY <1>0, <1>1 DEF Init, TypeOK
<1>4. \A type : Carried(<<>>, type) = 0
  BY CarriedEmpty
<1>5. \A x \in Side : Space(x) = Window
  BY <1>0, <1>2, <1>4, Sides DEF Space, newStream, NewApp
<1>6. Balance /\ WindowConserved
  BY <1>0, <1>2, <1>5 DEF Balance, WindowConserved, newStream, NewApp
<1>7. Kinds
  <2>1. \A x \in Side : st[x].outbound = <<>>
    BY <1>2 DEF newStream
  <2> QED BY <1>0, <1>2, <2>1 DEF Kinds, KindsAt
<1>8. \A x \in Side : \A type : Marks(x, type) = 0
  <2>1. \A type : Weight(<<>>, Count(type)) = 0
    BY WeightEmpty
  <2> QED BY <1>2, <2>1 DEF Marks
<1>9. Chances = 1
  BY <1>2, <1>8, TwoSides DEF Chances, One, NewApp
<1>10. \A x \in Side : Lifecycle(x)
  BY <1>2 DEF Lifecycle, newStream, NewApp
<1>11. Opens
  <2>1. ~ st[Client].opened
    BY <1>2, TwoSides DEF newStream
  <2>2. \A x \in Side : ~ (Marks(x, "OPEN_OK") > 0)
    BY <1>8
  <2> QED BY <1>9, <1>10, <2>1, <2>2 DEF Opens
<1>12. Share
  <2>1. Weight(<<>>, Single) = 0
    BY WeightEmpty
  <2>2. control[Client] = <<>> /\ control[Server] = <<>>
    BY <1>2, TwoSides
  <2> QED BY <1>9, <2>1, <2>2 DEF Share, One
<1>13. Held
  BY <1>2 DEF Held, NewApp
<1> QED BY <1>3, <1>6, <1>7, <1>11, <1>12, <1>13 DEF Flow

LEMMA NextFlow == Flow /\ Held /\ [Next]_vars => Flow' /\ Held'
<1> SUFFICES ASSUME Flow, Held, [Next]_vars PROVE Flow' /\ Held'
  OBVIOUS
<1>1. CASE Opening \/ handleOpen
  BY <1>1, OpeningFlow
<1>2. ASSUME NEW x \in Side, readLoop(x) \/ writeLoop(x) \/ Shutdown(x) PROVE Flow' /\ Held'
  BY <1>2, LoopFlow
<1>3. ASSUME NEW x \in Side, Proxy(x) PROVE Flow' /\ Held'
  BY <1>3, ProxyFlow
<1>4. CASE UNCHANGED vars
  <2>1. UNCHANGED <<st, app, control, wire, sent, rcvd>> /\ TypeOK'
    BY <1>4 DEF vars, Flow, TypeOK
  <2>2. Client \in Side
    BY TwoSides
  <2> QED BY <2>1, <2>2, NoControlKeeps, FlowStep, HeldStep
<1> QED BY <1>1, <1>2, <1>3, <1>4 DEF Next

\* Everything keeps its type: the unsigned windows of stream.go never wrap and
\* never exceed InitialStreamWindow, whatever the peer, the proxies and the
\* faults outside do.
THEOREM TypesHold == Spec => []TypeOK
<1>1. Flow => TypeOK
  BY DEF Flow
<1> QED BY <1>1, InitFlow, NextFlow, PTL DEF Spec

\* Window space is neither lost nor invented while both ends are open.
THEOREM WindowsConserved == Spec => []WindowConserved
<1>1. Flow => WindowConserved
  BY DEF Flow
<1> QED BY <1>1, InitFlow, NextFlow, PTL DEF Spec

\* As many updates fit in a window as it has thresholds.
LEMMA UpdatesFit ==
    ASSUME Kinds, TypeOK, NEW x \in Side
    PROVE  Threshold * Weight(control[x], Count("WINDOW_UPDATE")) <= Carried(control[x], "WINDOW_UPDATE")
<1> DEFINE v == [f \in ControlFrames |-> IF f.type = "WINDOW_UPDATE" THEN 1 ELSE 0]
           w == [f \in ControlFrames |-> IF f.type = "WINDOW_UPDATE" THEN f.n ELSE 0]
           q == control[x]
<1>1. q \in Seq(ControlFrames) /\ q \in Seq(Frames) /\ Threshold \in Nat
  BY MuxStreamAssumption DEF Kinds, KindsAt, TypeOK
<1>2. \A f \in ControlFrames : f \in Frames /\ f.n \in Nat /\ (f.type = "WINDOW_UPDATE" => f.n >= Threshold)
  BY FrameTypes, MuxStreamAssumption DEF ControlFrames
<1>3. v \in [ControlFrames -> Nat] /\ w \in [ControlFrames -> Nat]
  BY <1>2
<1>4. \A f \in ControlFrames : Threshold * v[f] <= w[f]
  BY <1>1, <1>2
<1>5. \A k \in DOMAIN q : q[k] \in ControlFrames
  BY <1>1
<1>6. Weight(q, v) = Weight(q, Count("WINDOW_UPDATE"))
  <2>1. [k \in DOMAIN q |-> v[q[k]]] = [k \in DOMAIN q |-> Count("WINDOW_UPDATE")[q[k]]]
    BY <1>2, <1>5 DEF Count
  <2> QED BY <2>1 DEF Weight
<1>7. Weight(q, w) = Weight(q, Amount("WINDOW_UPDATE"))
  <2>1. [k \in DOMAIN q |-> w[q[k]]] = [k \in DOMAIN q |-> Amount("WINDOW_UPDATE")[q[k]]]
    BY <1>2, <1>5 DEF Amount
  <2> QED BY <2>1 DEF Weight
<1>8. Carried(q, "WINDOW_UPDATE") = Weight(q, Amount("WINDOW_UPDATE"))
  BY <1>1, CarriedWeight
<1> HIDE DEF v, w, q
<1>9. Threshold * Weight(q, v) <= Weight(q, w)
  BY <1>1, <1>3, <1>4, WeightBound
<1>10. Threshold * Weight(q, Count("WINDOW_UPDATE")) <= Carried(q, "WINDOW_UPDATE")
  BY <1>6, <1>7, <1>8, <1>9
<1> QED BY <1>10 DEF q

LEMMA DivBound ==
    ASSUME NEW a \in Nat, NEW b \in Nat \ {0}, NEW n \in Nat, b * n <= a
    PROVE  n <= a \div b
<1>1. a \div b \in Nat /\ a < b * ((a \div b) + 1)
  OBVIOUS
<1> SUFFICES ASSUME n >= (a \div b) + 1 PROVE FALSE
  BY <1>1
<1>2. PICK d \in Nat : d = (a \div b) + 1
  BY <1>1
<1>3. a < b * d /\ n >= d
  BY <1>1, <1>2
<1>4. b * n >= b * d
  <2>1. PICK k \in Nat : n = d + k
    BY <1>3
  <2>2. b * n = b * d + b * k /\ b * k \in Nat /\ b * d \in Nat
    BY <2>1
  <2> QED BY <2>2
<1>5. b * d \in Nat /\ b * n \in Nat
  OBVIOUS
<1> QED BY <1>3, <1>4, <1>5

LEMMA FlowShare == Flow => ControlShare
<1> SUFFICES ASSUME Flow, NEW x \in Side PROVE Len(control[x]) <= (Window \div Threshold) + 2
  BY DEF ControlShare
<1>1. TypeOK /\ Balance /\ Kinds /\ Opens /\ Share /\ control[x] \in Seq(Frames)
  BY DEF Flow, TypeOK
<1> DEFINE updates == Weight(control[x], Count("WINDOW_UPDATE"))
           others == Weight(control[x], Single)
<1>2. updates \in Nat /\ others \in Nat
  BY <1>1, MarksNat
<1>3. Len(control[x]) = updates + others
  <2>1. \A f \in Frames : Count("WINDOW_UPDATE")[f] + Single[f] = 1
    BY Counts
  <2> QED BY <1>1, <2>1, Counts, WeightLen
<1>4. others <= 2
  <2>1. Marks(Client, "OPEN") \in Nat
    BY <1>1, TwoSides, MarksNat
  <2>2. st[Server].opened => app[Server].phase # "idle"
    BY <1>1, TwoSides DEF Opens, Lifecycle
  <2>3. Chances \in Nat /\ (st[Server].opened => Chances >= 1)
    BY <2>1, <2>2 DEF Chances, One
  <2>4. CASE x = Client
    <3>1. others <= One(app[Client].phase # "idle") + One(st[Client].closed)
      BY <1>1, <2>4 DEF Share
    <3>2. One(app[Client].phase # "idle") \in {0, 1} /\ One(st[Client].closed) \in {0, 1}
      BY DEF One
    <3> HIDE DEF others, One
    <3> QED BY <1>2, <3>1, <3>2
  <2>5. CASE x = Server
    <3>1. others <= One(st[Server].opened) + One(st[Server].closed) + (1 - Chances)
      BY <1>1, <2>5 DEF Share
    <3> HIDE DEF others
    <3>2. CASE st[Server].opened
      BY <1>2, <2>3, <3>1, <3>2 DEF One
    <3>3. CASE ~ st[Server].opened
      BY <1>2, <2>3, <3>1, <3>3 DEF One
    <3> QED BY <3>2, <3>3
  <2> QED BY <2>4, <2>5, TwoSides
<1>5. updates <= Window \div Threshold
  <2>1. Threshold * updates <= Carried(control[x], "WINDOW_UPDATE")
    BY <1>1, UpdatesFit
  <2>2. PICK y \in Side : y = Other(x)
    BY Sides
  <2>3. x = Other(y)
    BY <2>2, Sides
  <2>4. Carried(control[x], "WINDOW_UPDATE") <= Space(y) /\ Space(y) \in Nat /\ Space(y) <= Window
    BY <1>1, <2>3, SpaceSum DEF Balance
  <2>5. Carried(control[x], "WINDOW_UPDATE") \in Nat /\ Window \in Nat /\ Threshold \in Nat \ {0}
    BY <1>1, SpaceParts, MuxStreamAssumption
  <2> HIDE DEF updates
  <2>6. Threshold * updates \in Nat
    BY <1>2, <2>5
  <2>7. Threshold * updates <= Window
    BY <2>1, <2>4, <2>5, <2>6
  <2> QED BY <1>2, <2>5, <2>7, DivBound
<1>6. Window \div Threshold \in Nat
  BY MuxStreamAssumption
<1> HIDE DEF updates, others
<1> QED BY <1>2, <1>3, <1>4, <1>5, <1>6

\* A stream never has more frames in the control queue than its window has
\* thresholds, and two: with the shipped constants, no more than the share of
\* the queue that it is given.
THEOREM ControlShared == Spec => []ControlShare
BY FlowShare, InitFlow, NextFlow, PTL DEF Spec

-----------------------------------------------------------------------------
(* The end of the stream.                                                  *)

\* x may still send what it has queued.
Live(x) == ~ st[x].closed \/ st[x].registered

Has(q, type) == \E k \in DOMAIN q : q[k].type = type

\* The bytes that x has read off the link and its proxy has not lost.
Got(x) == rcvd[x] + app[x].held + st[x].inbound

\* FIN is the last frame that x queues and no byte follows it on the link.
Fins(x) ==
    /\ \A k \in DOMAIN st[x].outbound :
          st[x].outbound[k].type = "FIN" => k = Len(st[x].outbound) /\ st[x].localWriteClosed
    /\ \A k \in DOMAIN wire[x] : wire[x][k].type = "FIN" =>
          /\ st[x].localWriteClosed /\ st[x].outbound = <<>>
          /\ \A j \in DOMAIN wire[x] : j > k => wire[x][j].type # "DATA"

\* What the reader has of the bytes of x. As long as it copies and neither end
\* has given up, none is missing; nor is one when FIN is on its way, even if x
\* has let the stream go since.
Arrives(x) ==
    LET y == Other(x)
    IN  /\ st[y].remoteWriteClosed => st[x].localWriteClosed
        /\ app[y].sink # "run" => app[y].held = 0
        /\ app[y].sink = "ok" /\ ~ app[y].reset => rcvd[y] = sent[x] /\ st[x].localWriteClosed
        /\ app[y].sink = "run" /\ st[y].remoteWriteClosed => sent[x] = Got(y)
        /\ app[y].sink = "run" /\ ~ st[y].remoteWriteClosed /\ ~ st[y].closed =>
             /\ Live(x) => sent[x] = Got(y) + Carried(wire[x], "DATA") + Carried(st[x].outbound, "DATA")
             /\ Has(wire[x], "FIN") => sent[x] = Got(y) + Carried(wire[x], "DATA")

Exact == \A x \in Side : Fins(x) /\ Arrives(x)

\* x sends nothing, and perhaps gives up what it has queued.
LEMMA SendStill ==
    ASSUME Exact, NEW x \in Side, Quiet(x), sent'[x] = sent[x], wire'[x] = wire[x],
           st'[x].localWriteClosed = st[x].localWriteClosed,
           \/ st'[x].outbound = st[x].outbound /\ (Live(x)' => Live(x))
           \/ st'[x].outbound = <<>> /\ ~ Live(x)'
    PROVE  Fins(x)' /\ Arrives(x)'
<1>0. PICK y \in Side : y = Other(x)
  BY Sides
<1>1. Fins(x) /\ Arrives(x)
  BY DEF Exact
<1>2. st'[y] = st[y] /\ app'[y] = app[y] /\ rcvd'[y] = rcvd[y] /\ Got(y)' = Got(y)
  BY <1>0 DEF Quiet, Got
<1>3. Fins(x)'
  <2>1. CASE st'[x].outbound = st[x].outbound
    BY <1>1, <2>1 DEF Fins
  <2>2. CASE st'[x].outbound = <<>>
    BY <1>1, <2>2 DEF Fins
  <2> QED BY <2>1, <2>2
<1>4. Arrives(x)'
  <2>1. CASE st'[x].outbound = st[x].outbound /\ (Live(x)' => Live(x))
    BY <1>0, <1>1, <1>2, <2>1 DEF Arrives, Has
  <2>2. CASE st'[x].outbound = <<>> /\ ~ Live(x)'
    BY <1>0, <1>1, <1>2, <2>2 DEF Arrives, Has
  <2> QED BY <2>1, <2>2
<1> QED BY <1>3, <1>4

LEMMA GotNat ==
    ASSUME TypeOK, NEW x \in Side
    PROVE  Got(x) \in Nat /\ Got(x) = rcvd[x] + app[x].held + st[x].inbound
<1>1. rcvd[x] \in Nat /\ app[x].held \in Nat /\ st[x].inbound \in Nat
  BY SpaceParts
<1> QED BY <1>1 DEF Got

LEMMA WriteExact == ASSUME Flow, Exact, NEW x \in Side, NEW n \in 1..Window, Write(x, n)
                    PROVE  Fins(x)' /\ Arrives(x)'
<1>0. PICK y \in Side : y = Other(x)
  BY Sides
<1>1. Fins(x) /\ Arrives(x) /\ TypeOK
  BY DEF Exact, Flow
<1>2. /\ Quiet(x) /\ wire' = wire
      /\ ~ st[x].closed /\ ~ st[x].localWriteClosed
      /\ SameFlags(st[x], st'[x])
      /\ st'[x].outbound = Append(st[x].outbound, Data(n))
      /\ sent'[x] = sent[x] + n
  BY <1>1, WriteEffect
<1>3. st'[y] = st[y] /\ app'[y] = app[y] /\ rcvd'[y] = rcvd[y] /\ Got(y)' = Got(y)
  BY <1>0, <1>2 DEF Quiet, Got
<1>4. /\ n \in Nat /\ Data(n) \in Frames /\ Data(n).type = "DATA" /\ Data(n).n = n
      /\ st[x].outbound \in Seq(Frames)
  BY <1>1, FrameTypes, SpaceParts, MuxStreamAssumption
<1>5. Carried(st'[x].outbound, "DATA") = Carried(st[x].outbound, "DATA") + n
  BY <1>2, <1>4, CarriedFacts
<1>6. ~ Has(wire[x], "FIN")
  BY <1>1, <1>2 DEF Fins, Has
<1>7. Fins(x)'
  <2>1. \A k \in DOMAIN st[x].outbound : st[x].outbound[k].type # "FIN"
    BY <1>1, <1>2 DEF Fins
  <2>2. \A k \in DOMAIN st'[x].outbound : st'[x].outbound[k].type # "FIN"
    <3>1. ASSUME NEW k \in DOMAIN Append(st[x].outbound, Data(n))
          PROVE  Append(st[x].outbound, Data(n))[k].type # "FIN"
      <4>1. CASE k = Len(st[x].outbound) + 1
        BY <1>4, <4>1
      <4>2. CASE k \in DOMAIN st[x].outbound /\ k # Len(st[x].outbound) + 1
        BY <1>4, <2>1, <4>2
      <4> QED BY <1>4, <4>1, <4>2
    <3> QED BY <1>2, <3>1
  <2>3. \A k \in DOMAIN wire[x] : wire[x][k].type # "FIN"
    BY <1>6 DEF Has
  <2> QED BY <1>2, <2>2, <2>3 DEF Fins
<1>8. Arrives(x)'
  <2>1. ~ st[y].remoteWriteClosed /\ ~ (app[y].sink = "ok" /\ ~ app[y].reset)
    BY <1>0, <1>1, <1>2 DEF Arrives
  <2>2. Live(x) /\ Live(x)' /\ ~ Has(wire'[x], "FIN")
    BY <1>2, <1>6 DEF Live, SameFlags
  <2>3. /\ Got(y) \in Nat /\ Carried(wire[x], "DATA") \in Nat /\ Carried(st[x].outbound, "DATA") \in Nat
        /\ sent[x] \in Nat
    BY <1>1, GotNat, SpaceParts
  <2>4. ASSUME app[y].sink = "run", ~ st[y].closed
        PROVE  sent'[x] = Got(y)' + Carried(wire'[x], "DATA") + Carried(st'[x].outbound, "DATA")
    <3>1. sent[x] = Got(y) + Carried(wire[x], "DATA") + Carried(st[x].outbound, "DATA")
      BY <1>0, <1>1, <2>1, <2>2, <2>4 DEF Arrives
    <3> QED BY <1>2, <1>3, <1>4, <1>5, <2>3, <3>1
  <2>5. app[y].sink # "run" => app[y].held = 0
    BY <1>0, <1>1 DEF Arrives
  <2> QED BY <1>0, <1>3, <2>1, <2>2, <2>4, <2>5 DEF Arrives
<1> QED BY <1>7, <1>8

LEMMA SourceExact == ASSUME Flow, Exact, NEW x \in Side, SourceEnds(x) \/ SourceFails(x)
                     PROVE  Fins(x)' /\ Arrives(x)'
<1>0. PICK y \in Side : y = Other(x)
  BY Sides
<1>1. Fins(x) /\ Arrives(x) /\ TypeOK
  BY DEF Exact, Flow
<1>2. /\ Quiet(x) /\ UNCHANGED <<wire, sent>>
      /\ st'[x].registered = st[x].registered /\ st'[x].closed = st[x].closed
      /\ \/ /\ st'[x].localWriteClosed = st[x].localWriteClosed
            /\ st'[x].outbound = st[x].outbound
         \/ /\ ~ st[x].localWriteClosed /\ st'[x].localWriteClosed
            /\ st'[x].outbound = Append(st[x].outbound, Frame("FIN"))
  BY <1>1, SourceEffect
<1>3. Live(x)' = Live(x)
  BY <1>2 DEF Live
<1>4. CASE st'[x].localWriteClosed = st[x].localWriteClosed /\ st'[x].outbound = st[x].outbound
  BY <1>2, <1>3, <1>4, SendStill
<1>5. CASE /\ ~ st[x].localWriteClosed /\ st'[x].localWriteClosed
           /\ st'[x].outbound = Append(st[x].outbound, Frame("FIN"))
  <2>1. st'[y] = st[y] /\ app'[y] = app[y] /\ rcvd'[y] = rcvd[y] /\ Got(y)' = Got(y)
    BY <1>0, <1>2 DEF Quiet, Got
  <2>2. Frame("FIN") \in Frames /\ Frame("FIN").type = "FIN" /\ st[x].outbound \in Seq(Frames)
    BY <1>1, FrameTypes, SpaceParts
  <2>3. Carried(st'[x].outbound, "DATA") = Carried(st[x].outbound, "DATA")
    <3>1. /\ Carried(st'[x].outbound, "DATA") = Carried(st[x].outbound, "DATA") + 0
          /\ Carried(st[x].outbound, "DATA") \in Nat
      BY <1>5, <2>2, CarriedFacts
    <3> QED BY <3>1
  <2>4. /\ \A k \in DOMAIN wire[x] : wire[x][k].type # "FIN"
        /\ \A k \in DOMAIN st[x].outbound : st[x].outbound[k].type # "FIN"
    BY <1>1, <1>5 DEF Fins
  <2>5. Fins(x)'
    <3>1. \A k \in DOMAIN st'[x].outbound : st'[x].outbound[k].type = "FIN" => k = Len(st'[x].outbound)
      <4>1. ASSUME NEW k \in DOMAIN Append(st[x].outbound, Frame("FIN")), k # Len(st[x].outbound) + 1
            PROVE  Append(st[x].outbound, Frame("FIN"))[k].type # "FIN"
        BY <2>2, <2>4, <4>1
      <4>2. Len(Append(st[x].outbound, Frame("FIN"))) = Len(st[x].outbound) + 1
        BY <2>2
      <4> QED BY <1>5, <4>1, <4>2
    <3> QED BY <1>2, <1>5, <2>4, <3>1 DEF Fins
  <2>6. Arrives(x)'
    BY <1>0, <1>1, <1>2, <1>3, <1>5, <2>1, <2>3 DEF Arrives, Has
  <2> QED BY <2>5, <2>6
<1> QED BY <1>2, <1>4, <1>5

LEMMA WriteControlExact == ASSUME Flow, Exact, NEW x \in Side, WriteControl(x)
                           PROVE  Fins(x)' /\ Arrives(x)'
<1>0. PICK y \in Side : y = Other(x)
  BY Sides
<1>1. Fins(x) /\ Arrives(x) /\ TypeOK /\ Kinds
  BY DEF Exact, Flow
<1>2. /\ UNCHANGED <<st, app, sent, rcvd>>
      /\ control[x] # <<>> /\ Head(control[x]) \in Frames
      /\ wire'[x] = Append(wire[x], Head(control[x]))
  BY <1>1, WriteControlEffect
<1>3. wire[x] \in Seq(Frames) /\ control[x] \in Seq(ControlFrames)
  BY <1>1 DEF TypeOK, Kinds, KindsAt
<1>4. Head(control[x]).type \notin {"DATA", "FIN"}
  <2>1. Head(control[x]) \in ControlFrames
    BY <1>2, <1>3
  <2> QED BY <2>1 DEF ControlFrames
<1>5. Carried(wire'[x], "DATA") = Carried(wire[x], "DATA")
  <2>1. /\ Carried(wire'[x], "DATA") = Carried(wire[x], "DATA") + 0 /\ Carried(wire[x], "DATA") \in Nat
    BY <1>2, <1>3, <1>4, CarriedFacts
  <2> QED BY <2>1
<1>6. /\ \A k \in DOMAIN wire'[x] :
            wire'[x][k].type \in {"DATA", "FIN"} => k \in DOMAIN wire[x] /\ wire'[x][k] = wire[x][k]
      /\ \A k \in DOMAIN wire[x] : k \in DOMAIN wire'[x] /\ wire'[x][k] = wire[x][k]
  <2> DEFINE q == wire[x]
             f == Head(control[x])
  <2>1. q \in Seq(Frames) /\ f \in Frames /\ f.type \notin {"DATA", "FIN"}
    BY <1>2, <1>3, <1>4
  <2> HIDE DEF q, f
  <2>2. ASSUME NEW k \in DOMAIN Append(q, f)
        PROVE  \/ k \in DOMAIN q /\ Append(q, f)[k] = q[k]
               \/ Append(q, f)[k] = f
    BY <2>1
  <2>3. \A k \in DOMAIN q : k \in DOMAIN Append(q, f) /\ Append(q, f)[k] = q[k]
    BY <2>1
  <2>4. wire'[x] = Append(q, f)
    BY <1>2 DEF q, f
  <2>5. \A k \in DOMAIN Append(q, f) :
          Append(q, f)[k].type \in {"DATA", "FIN"} => k \in DOMAIN q /\ Append(q, f)[k] = q[k]
    BY <2>1, <2>2
  <2> QED BY <2>3, <2>4, <2>5 DEF q
<1>7. Has(wire'[x], "FIN") <=> Has(wire[x], "FIN")
  BY <1>6 DEF Has
<1>8. Fins(x)'
  <2>1. ASSUME NEW k \in DOMAIN wire'[x], wire'[x][k].type = "FIN"
        PROVE  /\ st[x].localWriteClosed /\ st[x].outbound = <<>>
               /\ \A j \in DOMAIN wire'[x] : j > k => wire'[x][j].type # "DATA"
    <3>1. k \in DOMAIN wire[x] /\ wire[x][k].type = "FIN"
      BY <1>6, <2>1
    <3> QED BY <1>1, <1>6, <3>1 DEF Fins
  <2> QED BY <1>1, <1>2, <2>1 DEF Fins
<1>9. Arrives(x)'
  <2>1. Got(y)' = Got(y) /\ Live(x)' = Live(x)
    BY <1>2 DEF Got, Live
  <2> QED BY <1>0, <1>1, <1>2, <1>5, <1>7, <2>1 DEF Arrives
<1> QED BY <1>8, <1>9

\* The writer takes the next frame of the stream.
LEMMA WriteOutboundExact == ASSUME Flow, Exact, NEW x \in Side, WriteOutbound(x)
                            PROVE  Fins(x)' /\ Arrives(x)'
<1>0. PICK y \in Side : y = Other(x)
  BY Sides
<1>1. Fins(x) /\ Arrives(x) /\ TypeOK
  BY DEF Exact, Flow
<1>2. /\ Quiet(x) /\ UNCHANGED <<app, sent, rcvd>>
      /\ st[x].registered /\ st[x].outbound \in Seq(Frames) /\ st[x].outbound # <<>>
      /\ Head(st[x].outbound) \in Frames
      /\ wire'[x] = Append(wire[x], Head(st[x].outbound))
      /\ st'[x] = [st[x] EXCEPT !.outbound = Tail(st[x].outbound),
                      !.registered = Len(st[x].outbound) > 1 \/ ~ st[x].closeAfterDrain]
  BY <1>1, WriteOutboundEffect
<1>3. st'[x].outbound = Tail(st[x].outbound) /\ st'[x].localWriteClosed = st[x].localWriteClosed
  <2>1. st[x] \in Streams
    BY <1>1 DEF TypeOK
  <2> QED BY <1>2, <2>1 DEF Streams
<1>4. st'[y] = st[y] /\ app'[y] = app[y] /\ rcvd'[y] = rcvd[y] /\ Got(y)' = Got(y)
  BY <1>0, <1>2 DEF Quiet, Got
<1> DEFINE q == st[x].outbound
           p == wire[x]
<1>5. /\ q \in Seq(Frames) /\ p \in Seq(Frames) /\ q # <<>>
      /\ wire'[x] = Append(p, Head(q)) /\ st'[x].outbound = Tail(q)
  BY <1>1, <1>2, <1>3, SpaceParts
<1>6. /\ \A k \in DOMAIN p : p[k].type # "FIN"
      /\ \A k \in DOMAIN q : q[k].type = "FIN" => k = Len(q) /\ st[x].localWriteClosed
  BY <1>1, <1>2 DEF Fins
<1>7. Live(x)
  BY <1>2 DEF Live
<1> HIDE DEF q, p
<1>8. /\ \A k \in DOMAIN Append(p, Head(q)) : Append(p, Head(q))[k].type = "FIN" =>
             k = Len(p) + 1 /\ Head(q).type = "FIN"
      /\ DOMAIN Append(p, Head(q)) = 1..(Len(p) + 1) /\ Len(p) \in Nat
      /\ Append(p, Head(q))[Len(p) + 1] = Head(q)
  <2>1. ASSUME NEW k \in DOMAIN Append(p, Head(q)), k # Len(p) + 1
        PROVE  Append(p, Head(q))[k].type # "FIN"
    BY <1>5, <1>6, <2>1
  <2>2. Head(q) \in Frames
    BY <1>5
  <2>3. /\ DOMAIN Append(p, Head(q)) = 1..(Len(p) + 1) /\ Len(p) \in Nat
        /\ Append(p, Head(q))[Len(p) + 1] = Head(q)
    BY <1>5, <2>2
  <2> QED BY <2>1, <2>3
<1>9. Head(q).type = "FIN" => Tail(q) = <<>> /\ st[x].localWriteClosed
  <2>1. ASSUME Head(q).type = "FIN" PROVE Tail(q) = <<>> /\ st[x].localWriteClosed
    <3>1. 1 \in DOMAIN q /\ q[1] = Head(q)
      BY <1>5
    <3>2. 1 = Len(q) /\ st[x].localWriteClosed
      BY <1>6, <2>1, <3>1
    <3>3. Tail(q) \in Seq(Frames) /\ Len(Tail(q)) = 0
      BY <1>5, <3>2
    <3>4. \A r \in Seq(Frames) : Len(r) = 0 => r = <<>>
      OBVIOUS
    <3> QED BY <3>2, <3>3, <3>4
  <2> QED BY <2>1
<1>10. Fins(x)'
  <2>1. ASSUME NEW k \in DOMAIN Tail(q), Tail(q)[k].type = "FIN"
        PROVE  k = Len(Tail(q)) /\ st[x].localWriteClosed
    <3>1. k + 1 \in DOMAIN q /\ q[k + 1] = Tail(q)[k] /\ Len(Tail(q)) = Len(q) - 1 /\ Len(q) \in Nat /\ k \in Nat
      BY <1>5
    <3>2. k + 1 = Len(q) /\ st[x].localWriteClosed
      BY <1>6, <2>1, <3>1
    <3> QED BY <3>1, <3>2
  <2>2. ASSUME NEW k \in DOMAIN Append(p, Head(q)), Append(p, Head(q))[k].type = "FIN"
        PROVE  /\ st[x].localWriteClosed /\ Tail(q) = <<>>
               /\ \A j \in DOMAIN Append(p, Head(q)) : ~ (j > k)
    BY <1>8, <1>9, <2>2
  <2> QED BY <1>3, <1>5, <2>1, <2>2 DEF Fins
<1>11. /\ Carried(Tail(q), "DATA") + Carried(Append(p, Head(q)), "DATA") =
            Carried(q, "DATA") + Carried(p, "DATA")
       /\ Carried(Tail(q), "DATA") \in Nat /\ Carried(Append(p, Head(q)), "DATA") \in Nat
       /\ Carried(q, "DATA") \in Nat /\ Carried(p, "DATA") \in Nat
       /\ Got(y) \in Nat
  BY <1>1, <1>5, MovedCarried, CarriedFacts, GotNat
<1>12. Arrives(x)'
  <2>1. ASSUME app[y].sink = "run", ~ st[y].remoteWriteClosed, ~ st[y].closed
        PROVE  /\ sent[x] = Got(y) + Carried(Append(p, Head(q)), "DATA") + Carried(Tail(q), "DATA")
               /\ Has(Append(p, Head(q)), "FIN") => sent[x] = Got(y) + Carried(Append(p, Head(q)), "DATA")
    <3>1. sent[x] = Got(y) + Carried(p, "DATA") + Carried(q, "DATA")
      BY <1>0, <1>1, <1>7, <2>1 DEF Arrives, p, q
    <3>2. sent[x] = Got(y) + Carried(Append(p, Head(q)), "DATA") + Carried(Tail(q), "DATA")
      BY <1>11, <3>1
    <3>3. ASSUME Has(Append(p, Head(q)), "FIN") PROVE Carried(Tail(q), "DATA") = 0
      <4>1. Tail(q) = <<>>
        BY <1>8, <1>9, <3>3 DEF Has
      <4> QED BY <4>1, CarriedEmpty
    <3> QED BY <1>11, <3>2, <3>3
  <2>2. sent' = sent
    BY <1>2
  <2> QED BY <1>0, <1>1, <1>3, <1>4, <1>5, <2>1, <2>2 DEF Arrives
<1> QED BY <1>10, <1>12

-----------------------------------------------------------------------------
(* The reader's side of the same.                                          *)

\* Taking a frame off the link leaves FIN at its end.
LEMMA TailFins ==
    ASSUME NEW y \in Side, Fins(y), st'[y] = st[y], wire[y] \in Seq(Frames), wire[y] # <<>>,
           wire'[y] = Tail(wire[y])
    PROVE  Fins(y)' /\ (Has(wire'[y], "FIN") => Has(wire[y], "FIN"))
<1> DEFINE q == wire[y]
<1>1. /\ q \in Seq(Frames) /\ q # <<>> /\ wire'[y] = Tail(q)
      /\ \A k \in DOMAIN q : q[k].type = "FIN" =>
           /\ st[y].localWriteClosed /\ st[y].outbound = <<>>
           /\ \A j \in DOMAIN q : j > k => q[j].type # "DATA"
  BY DEF Fins
<1> HIDE DEF q
<1>2. \A k \in DOMAIN Tail(q) : k \in Nat /\ k + 1 \in DOMAIN q /\ Tail(q)[k] = q[k + 1]
  BY <1>1
<1>3. ASSUME NEW k \in DOMAIN Tail(q), Tail(q)[k].type = "FIN"
      PROVE  /\ st[y].localWriteClosed /\ st[y].outbound = <<>>
             /\ \A j \in DOMAIN Tail(q) : j > k => Tail(q)[j].type # "DATA"
  <2>1. k + 1 \in DOMAIN q /\ q[k + 1].type = "FIN"
    BY <1>2, <1>3
  <2>2. \A j \in DOMAIN q : j > k + 1 => q[j].type # "DATA"
    BY <1>1, <2>1
  <2>3. \A j \in DOMAIN Tail(q) : j > k => j + 1 > k + 1
    BY <1>2
  <2> QED BY <1>1, <1>2, <2>1, <2>2, <2>3
<1>4. Fins(y)'
  BY <1>1, <1>3 DEF Fins
<1>5. Has(Tail(q), "FIN") => Has(q, "FIN")
  BY <1>2 DEF Has
<1> QED BY <1>1, <1>4, <1>5 DEF q

\* What x has of the stream stays as it is.
LEMMA ReceiveStill ==
    ASSUME Flow, Exact, NEW x \in Side, Quiet(x),
           st'[x].inbound = st[x].inbound, st'[x].remoteWriteClosed = st[x].remoteWriteClosed,
           st[x].closed => st'[x].closed, rcvd'[x] = rcvd[x],
           app'[x].held = app[x].held, app'[x].sink = app[x].sink, app[x].reset => app'[x].reset,
           \/ wire'[Other(x)] = wire[Other(x)]
           \/ \E types : /\ Receives(x, types)
                         /\ Incoming(x).type # "DATA" \/ Incoming(x).n = 0 \/ st'[x].closed
    PROVE  Fins(Other(x))' /\ Arrives(Other(x))'
<1>0. PICK y \in Side : y = Other(x) /\ x = Other(y)
  BY Sides
<1>1. Fins(y) /\ Arrives(y) /\ TypeOK
  BY DEF Exact, Flow
<1>2. st'[y] = st[y] /\ sent'[y] = sent[y] /\ Got(x)' = Got(x) /\ Live(y)' = Live(y)
  BY <1>0 DEF Quiet, Got, Live
<1>3. /\ Fins(y)' /\ (Has(wire'[y], "FIN") => Has(wire[y], "FIN"))
      /\ Carried(wire'[y], "DATA") = Carried(wire[y], "DATA") \/ st'[x].closed
  <2>1. CASE wire'[y] = wire[y]
    BY <1>1, <1>2, <2>1 DEF Fins
  <2>2. ASSUME NEW types, Receives(x, types), Incoming(x).type # "DATA" \/ Incoming(x).n = 0 \/ st'[x].closed
        PROVE  <1>3!:
    <3>1. wire[y] \in Seq(Frames) /\ wire[y] # <<>> /\ wire'[y] = Tail(wire[y])
      BY <1>0, <1>1, <2>2, ReceiveEffect
    <3>2. Fins(y)' /\ (Has(wire'[y], "FIN") => Has(wire[y], "FIN"))
      BY <1>1, <1>2, <3>1, TailFins
    <3>3. /\ Carried(wire[y], "DATA") = (IF Incoming(x).type = "DATA" THEN Incoming(x).n ELSE 0)
                                           + Carried(wire'[y], "DATA")
          /\ Carried(wire'[y], "DATA") \in Nat
      BY <1>0, <1>1, <2>2, ReceivedCarried, ZenonT(30)
    <3> QED BY <2>2, <3>2, <3>3
  <2> QED BY <1>0, <2>1, <2>2
<1>4. Arrives(y)'
  BY <1>0, <1>1, <1>2, <1>3 DEF Arrives
<1> QED BY <1>0, <1>3, <1>4

LEMMA receiveDataExact == ASSUME Flow, Exact, NEW x \in Side, receiveData(x)
                          PROVE  Fins(Other(x))' /\ Arrives(Other(x))'
<1>0. PICK y \in Side : y = Other(x) /\ x = Other(y)
  BY Sides
<1>1. Fins(y) /\ Arrives(y) /\ TypeOK /\ Balance
  BY DEF Exact, Flow
<1> DEFINE n == Incoming(x).n
<1>2. Quiet(x) /\ UNCHANGED <<app, sent, rcvd>> /\ Receives(x, {"DATA"})
  BY <1>1, receiveDataEffect
<1>3. CASE Reset(x)
  <2>1. st'[x].closed /\ st'[x].inbound = st[x].inbound /\ st'[x].remoteWriteClosed = st[x].remoteWriteClosed
    BY <1>1, <1>3, ResetEffect DEF Closing, SameWindows
  <2> QED BY <1>2, <2>1, ReceiveStill
<1>4. CASE /\ ~ st[x].closed /\ ~ st[x].remoteWriteClosed /\ SameFlags(st[x], st'[x])
           /\ st'[x].inbound = st[x].inbound + n
  <2>1. /\ wire[y] \in Seq(Frames) /\ wire[y] # <<>> /\ wire'[y] = Tail(wire[y])
        /\ Incoming(x).type = "DATA"
    BY <1>0, <1>1, <1>2, ReceiveEffect
  <2>2. st'[y] = st[y] /\ sent'[y] = sent[y] /\ Live(y)' = Live(y)
    BY <1>0, <1>2 DEF Quiet, Live
  <2>3. Fins(y)' /\ (Has(wire'[y], "FIN") => Has(wire[y], "FIN"))
    BY <1>1, <2>1, <2>2, TailFins
  <2>4. /\ Carried(wire[y], "DATA") = n + Carried(wire'[y], "DATA")
        /\ Carried(wire'[y], "DATA") \in Nat /\ n \in Nat
    BY <1>0, <1>1, <1>2, <2>1, ReceivedCarried
  <2>5. Got(x)' = Got(x) + n /\ Got(x) \in Nat /\ Carried(st[y].outbound, "DATA") \in Nat
    <3>1. /\ rcvd[x] \in Nat /\ app[x].held \in Nat /\ st[x].inbound \in Nat
          /\ Carried(st[y].outbound, "DATA") \in Nat
      BY <1>1, SpaceParts
    <3> HIDE DEF n
    <3> QED BY <1>2, <1>4, <2>4, <3>1 DEF Got
  <2> DEFINE g == Got(x)
             h == Got(x)'
             c == Carried(wire[y], "DATA")
             d == Carried(wire'[y], "DATA")
             o == Carried(st[y].outbound, "DATA")
  <2>6. g + c + o = h + d + o /\ g + c = h + d
    <3>1. c = n + d /\ h = g + n /\ d \in Nat /\ n \in Nat /\ g \in Nat /\ o \in Nat
      BY <2>4, <2>5
    <3> HIDE DEF g, h, c, d, o, n
    <3> QED BY <3>1
  <2>7. ~ st'[x].closed /\ ~ st'[x].remoteWriteClosed /\ app' = app /\ rcvd' = rcvd
    BY <1>2, <1>4 DEF SameFlags
  <2>8. ASSUME app[x].sink = "run"
        PROVE  /\ Live(y) => sent[y] = h + d + o
               /\ Has(wire'[y], "FIN") => sent[y] = h + d
    BY <1>0, <1>1, <1>4, <2>3, <2>6, <2>8 DEF Arrives
  <2>9. Arrives(y)'
    <3> HIDE DEF n
    <3> QED BY <1>0, <1>1, <2>2, <2>7, <2>8 DEF Arrives
  <2> QED BY <1>0, <2>3, <2>9
<1> QED BY <1>1, <1>3, <1>4, receiveDataEffect

LEMMA receiveFINExact == ASSUME Flow, Exact, NEW x \in Side, receiveFIN(x)
                         PROVE  Fins(Other(x))' /\ Arrives(Other(x))'
<1>0. PICK y \in Side : y = Other(x) /\ x = Other(y)
  BY Sides
<1>1. Fins(y) /\ Arrives(y) /\ TypeOK
  BY DEF Exact, Flow
<1>2. Quiet(x) /\ UNCHANGED <<app, sent, rcvd>> /\ Receives(x, {"FIN"})
  BY <1>1, receiveFINEffect
<1>3. /\ wire[y] \in Seq(Frames) /\ wire[y] # <<>> /\ wire'[y] = Tail(wire[y])
      /\ Incoming(x) = Head(wire[y]) /\ Incoming(x).type = "FIN"
  BY <1>0, <1>1, <1>2, ReceiveEffect
<1>4. CASE st[x].closed /\ UNCHANGED st
  BY <1>2, <1>3, <1>4, ReceiveStill
<1>5. CASE ~ st[x].closed /\ st'[x] = [st[x] EXCEPT !.remoteWriteClosed = TRUE]
  <2>1. st'[x].remoteWriteClosed /\ st'[x].inbound = st[x].inbound
    <3>1. st[x] \in Streams
      BY <1>1 DEF TypeOK
    <3> QED BY <1>5, <3>1 DEF Streams
  <2>2. st'[y] = st[y] /\ sent'[y] = sent[y] /\ Got(x)' = Got(x)
    BY <1>0, <1>2, <2>1 DEF Quiet, Got
  <2>3. Fins(y)'
    BY <1>1, <1>3, <2>2, TailFins
  <2>4. 1 \in DOMAIN wire[y] /\ wire[y][1].type = "FIN"
    BY <1>3
  <2>5. st[y].localWriteClosed /\ Has(wire[y], "FIN") /\ \A k \in DOMAIN wire[y] : wire[y][k].type # "DATA"
    <3>1. st[y].localWriteClosed /\ \A j \in DOMAIN wire[y] : j > 1 => wire[y][j].type # "DATA"
      BY <1>1, <2>4 DEF Fins
    <3>2. \A j \in DOMAIN wire[y] : j = 1 \/ j > 1
      BY <1>3
    <3> QED BY <2>4, <3>1, <3>2 DEF Has
  <2>6. Carried(wire[y], "DATA") = 0 /\ Got(x) \in Nat
    BY <1>1, <1>3, <2>5, CarriedNone, GotNat
  <2>7. app[x].sink = "run" => sent[y] = Got(x)
    BY <1>0, <1>1, <1>5, <2>5, <2>6 DEF Arrives
  <2>8. Arrives(y)'
    BY <1>0, <1>1, <1>2, <2>1, <2>2, <2>5, <2>7 DEF Arrives
  <2> QED BY <1>0, <2>3, <2>8
<1> QED BY <1>1, <1>4, <1>5, receiveFINEffect

\* The sink's steps take nothing from the link.
LEMMA SinkSteps ==
    ASSUME Flow, Exact, NEW x \in Side, Quiet(x), wire' = wire, Arrives(Other(x))'
    PROVE  Fins(Other(x))' /\ Arrives(Other(x))'
<1>1. st'[Other(x)] = st[Other(x)] /\ Fins(Other(x))
  BY Sides DEF Exact, Quiet
<1> QED BY <1>1 DEF Fins

LEMMA ReadExact == ASSUME Flow, Exact, NEW x \in Side, NEW n \in 1..Window, Read(x, n)
                   PROVE  Fins(Other(x))' /\ Arrives(Other(x))'
<1>0. PICK y \in Side : y = Other(x) /\ x = Other(y)
  BY Sides
<1>1. Arrives(y) /\ TypeOK /\ Balance
  BY DEF Exact, Flow
<1>2. /\ Quiet(x) /\ UNCHANGED <<wire, sent, rcvd>>
      /\ app[x].sink = "run" /\ app[x].held = 0 /\ app'[x].sink = "run" /\ app'[x].held = n
      /\ app'[x].reset = app[x].reset /\ SameFlags(st[x], st'[x])
      /\ n <= st[x].inbound /\ st'[x].inbound = st[x].inbound - n
  BY <1>1, ReadEffect
<1>3. Got(x)' = Got(x)
  <2>1. rcvd[x] \in Nat /\ st[x].inbound \in Nat /\ n \in Nat
    BY <1>1, SpaceParts
  <2> QED BY <1>2, <2>1 DEF Got
<1>4. st'[y] = st[y] /\ Live(y)' = Live(y)
  BY <1>0, <1>2 DEF Quiet, Live
<1>5. Arrives(y)'
  BY <1>0, <1>1, <1>2, <1>3, <1>4 DEF Arrives, SameFlags
<1> QED BY <1>0, <1>2, <1>5, SinkSteps

LEMMA ForwardExact == ASSUME Flow, Exact, NEW x \in Side, Forward(x)
                      PROVE  Fins(Other(x))' /\ Arrives(Other(x))'
<1>0. PICK y \in Side : y = Other(x) /\ x = Other(y)
  BY Sides
<1>1. Arrives(y) /\ TypeOK
  BY DEF Exact, Flow
<1>2. /\ Quiet(x) /\ UNCHANGED <<st, wire, sent>>
      /\ app[x].held > 0 /\ app'[x].held = 0 /\ app'[x].reset = app[x].reset
      /\ \/ app'[x].sink = app[x].sink /\ rcvd'[x] = rcvd[x] + app[x].held
         \/ app[x].reset /\ app'[x].sink = "ok" /\ rcvd'[x] = rcvd[x]
         \/ app'[x].sink = "err" /\ rcvd'[x] = rcvd[x]
  BY <1>1, ForwardEffect
<1>3. app[x].sink = "run" /\ Live(y)' = Live(y)
  <2>1. app[x].held # 0
    BY <1>1, <1>2, SpaceParts
  <2> QED BY <1>0, <1>1, <1>2, <2>1 DEF Arrives, Live
<1>4. Arrives(y)'
  <2>1. CASE app'[x].sink = app[x].sink /\ rcvd'[x] = rcvd[x] + app[x].held
    <3>1. rcvd[x] \in Nat /\ st[x].inbound \in Nat /\ app[x].held \in Nat
      BY <1>1, SpaceParts
    <3>2. Got(x)' = Got(x)
      BY <1>2, <2>1, <3>1 DEF Got
    <3> QED BY <1>0, <1>1, <1>2, <1>3, <2>1, <3>2 DEF Arrives
  <2>2. CASE app[x].reset /\ app'[x].sink = "ok"
    BY <1>0, <1>1, <1>2, <2>2 DEF Arrives
  <2>3. CASE app'[x].sink = "err"
    BY <1>0, <1>1, <1>2, <2>3 DEF Arrives
  <2> QED BY <1>2, <2>1, <2>2, <2>3
<1> QED BY <1>0, <1>2, <1>4, SinkSteps

LEMMA SinkExact == ASSUME Flow, Exact, NEW x \in Side, SinkEnds(x) \/ SinkFails(x)
                   PROVE  Fins(Other(x))' /\ Arrives(Other(x))'
<1>0. PICK y \in Side : y = Other(x) /\ x = Other(y)
  BY Sides
<1>1. Arrives(y) /\ TypeOK
  BY DEF Exact, Flow
<1>2. /\ Quiet(x) /\ UNCHANGED <<st, wire, sent, rcvd>>
      /\ app[x].sink = "run" /\ app[x].held = 0 /\ app'[x].held = 0 /\ app'[x].reset = app[x].reset
      /\ \/ app'[x].sink = "ok" /\ st[x].inbound = 0 /\ st[x].remoteWriteClosed
         \/ app'[x].sink = "err"
  BY <1>1, SinkEffect
<1>3. Arrives(y)'
  <2>1. CASE app'[x].sink = "ok" /\ st[x].inbound = 0 /\ st[x].remoteWriteClosed
    <3>1. sent[y] = Got(x) /\ st[y].localWriteClosed
      BY <1>0, <1>1, <1>2, <2>1 DEF Arrives
    <3>2. Got(x) = rcvd[x]
      <4>1. rcvd[x] \in Nat
        BY <1>1, SpaceParts
      <4> QED BY <1>2, <2>1, <4>1 DEF Got
    <3> QED BY <1>0, <1>1, <1>2, <2>1, <3>1, <3>2 DEF Arrives
  <2>2. CASE app'[x].sink = "err"
    BY <1>0, <1>1, <1>2, <2>2 DEF Arrives
  <2> QED BY <1>2, <2>1, <2>2
<1> QED BY <1>0, <1>2, <1>3, SinkSteps

-----------------------------------------------------------------------------
(* The end of the stream, by action.                                       *)

\* x keeps what it has queued and sent, or gives up its queue for good.
Sends(x) ==
    /\ sent'[x] = sent[x] /\ wire'[x] = wire[x]
    /\ st'[x].localWriteClosed = st[x].localWriteClosed
    /\ \/ st'[x].outbound = st[x].outbound /\ (Live(x)' => Live(x))
       \/ st'[x].outbound = <<>> /\ ~ Live(x)'

\* x keeps what it has received.
Takes(x) ==
    /\ st'[x].inbound = st[x].inbound /\ st'[x].remoteWriteClosed = st[x].remoteWriteClosed
    /\ st[x].closed => st'[x].closed
    /\ rcvd'[x] = rcvd[x]
    /\ app'[x].held = app[x].held /\ app'[x].sink = app[x].sink /\ (app[x].reset => app'[x].reset)

LEMMA SendStep ==
    ASSUME Flow, Exact, NEW x \in Side, Quiet(x), Sends(x), Fins(Other(x))' /\ Arrives(Other(x))'
    PROVE  Exact'
<1>1. Fins(x)' /\ Arrives(x)'
  BY SendStill DEF Sends
<1> QED BY <1>1, Sides DEF Exact

LEMMA TakeStep ==
    ASSUME Flow, Exact, NEW x \in Side, Quiet(x), Takes(x), Fins(x)' /\ Arrives(x)',
           wire'[Other(x)] = wire[Other(x)]
    PROVE  Exact'
<1>1. Fins(Other(x))' /\ Arrives(Other(x))'
  BY ReceiveStill DEF Takes
<1> QED BY <1>1, Sides DEF Exact

LEMMA StillStep ==
    ASSUME Flow, Exact, NEW x \in Side, Quiet(x), Sends(x), Takes(x),
           \/ wire'[Other(x)] = wire[Other(x)]
           \/ \E types : /\ Receives(x, types)
                         /\ Incoming(x).type # "DATA" \/ Incoming(x).n = 0 \/ st'[x].closed
    PROVE  Exact'
<1>1. Fins(Other(x))' /\ Arrives(Other(x))'
  BY ReceiveStill DEF Takes
<1> QED BY <1>1, SendStep

\* The stream is as it was, or closed.
LEMMA StreamStill ==
    ASSUME NEW x \in Side, st'[x] = st[x] \/ Closing(st[x], st'[x]),
           sent'[x] = sent[x], rcvd'[x] = rcvd[x], wire'[x] = wire[x],
           SameCopy(app[x], app'[x])
    PROVE  Sends(x) /\ Takes(x)
BY DEF Closing, SameWindows, SameCopy, Sends, Takes, Live

LEMMA ResetStill ==
    ASSUME TypeOK, NEW x \in Side, Reset(x)
    PROVE  st'[x] = st[x] \/ Closing(st[x], st'[x])
BY ResetEffect

LEMMA FirstOpen == ASSUME Flow, handleOpen PROVE ~ st[Server].closed
<1>1. TypeOK /\ Opens /\ Server \in Side
  BY TwoSides DEF Flow
<1>2. Quiet(Server) /\ Receives(Server, {"OPEN"})
  BY <1>1, handleOpenEffect
<1>3. control'[Client] = control[Client] /\ Incoming(Server).type = "OPEN"
  BY <1>1, <1>2, TwoSides, ReceiveEffect DEF Quiet
<1>4. ASSUME NEW type
      PROVE  /\ Marks(Client, type) = (IF "OPEN" = type THEN 1 ELSE 0) + Marks(Client, type)'
             /\ Marks(Client, type)' \in Nat
  BY <1>1, <1>2, <1>3, TwoSides, MarksReceived
<1>5. Marks(Client, "OPEN") = 1 + Marks(Client, "OPEN")' /\ Marks(Client, "OPEN")' \in Nat
  BY <1>4
<1>6. app[Server].phase = "idle"
  BY <1>1, <1>5 DEF Opens, Chances, One
<1> QED BY <1>1, <1>6 DEF Opens, Lifecycle

LEMMA OpeningExact == ASSUME Flow, Exact, Opening \/ handleOpen PROVE Exact'
<1>1. TypeOK /\ Opens /\ Client \in Side /\ Server \in Side /\ st[Client] \in Streams /\ st[Server] \in Streams
  BY TwoSides DEF Flow, TypeOK
<1>2. CASE OpenService
  <2>1. /\ Quiet(Client) /\ UNCHANGED <<wire, sent, rcvd>> /\ app[Client].phase = "idle"
        /\ SameCopy(app[Client], app'[Client])
        /\ st'[Client] = [st[Client] EXCEPT !.registered = TRUE]
    BY <1>1, <1>2, OpenServiceEffect
  <2>2. ~ st[Client].closed
    BY <1>1, <2>1 DEF Opens, Lifecycle
  <2>3. Sends(Client) /\ Takes(Client)
    BY <1>1, <2>1, <2>2 DEF Sends, Takes, Live, SameCopy, Streams
  <2> QED BY <1>1, <2>1, <2>3, StillStep
<1>3. CASE waitOpened
  <2>1. Quiet(Client) /\ UNCHANGED <<st, wire, sent, rcvd>> /\ SameCopy(app[Client], app'[Client])
    BY <1>1, <1>3, waitOpenedEffect
  <2> QED BY <1>1, <2>1, StreamStill, StillStep
<1>4. CASE OpenTimeout
  <2>1. Quiet(Client) /\ UNCHANGED <<wire, sent, rcvd>> /\ Reset(Client) /\ SameCopy(app[Client], app'[Client])
    BY <1>1, <1>4, OpenTimeoutEffect
  <2> QED BY <1>1, <2>1, ResetStill, StreamStill, StillStep
<1>5. CASE DialOK
  <2>1. /\ Quiet(Server) /\ UNCHANGED <<wire, sent, rcvd>> /\ SameCopy(app[Server], app'[Server])
        /\ UNCHANGED st \/ st'[Server] = [st[Server] EXCEPT !.opened = TRUE]
    BY <1>1, <1>5, DialOKEffect
  <2>2. Sends(Server) /\ Takes(Server)
    BY <1>1, <2>1 DEF Sends, Takes, Live, SameCopy, Streams
  <2> QED BY <1>1, <2>1, <2>2, StillStep
<1>6. CASE DialFails
  <2>1. /\ Quiet(Server) /\ UNCHANGED <<wire, sent, rcvd>> /\ SameCopy(app[Server], app'[Server])
        /\ UNCHANGED st \/ Closing(st[Server], st'[Server])
    BY <1>1, <1>6, DialFailsEffect
  <2> QED BY <1>1, <2>1, StreamStill, StillStep
<1>7. CASE handleOpen
  <2>1. /\ Quiet(Server) /\ UNCHANGED <<sent, rcvd>> /\ Receives(Server, {"OPEN"})
        /\ SameCopy(app[Server], app'[Server])
        /\ UNCHANGED st \/ st'[Server] = [st[Server] EXCEPT !.registered = TRUE]
    BY <1>1, <1>7, handleOpenEffect
  <2>2. ~ st[Server].closed /\ wire'[Server] = wire[Server] /\ Incoming(Server).type # "DATA"
    BY <1>1, <1>7, <2>1, FirstOpen, ReceiveEffect
  <2>3. Sends(Server) /\ Takes(Server)
    BY <1>1, <2>1, <2>2 DEF Sends, Takes, Live, SameCopy, Streams
  <2> QED BY <1>1, <2>1, <2>2, <2>3, StillStep
<1> QED BY <1>2, <1>3, <1>4, <1>5, <1>6, <1>7 DEF Opening

LEMMA readLoopExact == ASSUME Flow, Exact, NEW x \in Side, readLoop(x) PROVE Exact'
<1>1. TypeOK /\ Balance /\ st[x] \in Streams
  BY DEF Flow, TypeOK
<1>2. CASE HandleLate(x)
  <2>1. /\ Quiet(x) /\ UNCHANGED <<st, app, sent, rcvd>> /\ ~ st[x].registered
        /\ Receives(x, {"OPEN_OK", "OPEN_ERROR", "DATA", "WINDOW_UPDATE", "FIN", "RESET"})
    BY <1>1, <1>2, HandleLateEffect
  <2>2. wire'[x] = wire[x]
    BY <1>1, <2>1, ReceiveEffect
  <2>3. Incoming(x).type # "DATA" \/ Incoming(x).n = 0 \/ st'[x].closed
    BY <2>1, NothingComes
  <2> QED BY <2>1, <2>2, <2>3, StreamStill, StillStep DEF SameCopy
<1>3. CASE HandleOpenOK(x)
  <2>1. /\ Quiet(x) /\ UNCHANGED <<app, sent, rcvd>> /\ Receives(x, {"OPEN_OK"})
        /\ st'[x] \in {st[x], [st[x] EXCEPT !.opened = TRUE]}
    BY <1>1, <1>3, HandleOpenOKEffect
  <2>2. wire'[x] = wire[x] /\ Incoming(x).type # "DATA"
    BY <1>1, <2>1, ReceiveEffect
  <2>3. Sends(x) /\ Takes(x)
    BY <1>1, <2>1, <2>2 DEF Sends, Takes, Live, Streams
  <2> QED BY <2>1, <2>2, <2>3, StillStep
<1>4. CASE HandleEnd(x)
  <2>1. /\ Quiet(x) /\ UNCHANGED <<app, sent, rcvd>> /\ Receives(x, {"OPEN_ERROR", "RESET"})
        /\ Closing(st[x], st'[x])
    BY <1>1, <1>4, HandleEndEffect
  <2>2. wire'[x] = wire[x] /\ Incoming(x).type # "DATA"
    BY <1>1, <2>1, ReceiveEffect
  <2> QED BY <2>1, <2>2, StreamStill, StillStep DEF SameCopy
<1>5. CASE receiveData(x)
  <2>1. /\ Quiet(x) /\ UNCHANGED <<app, sent, rcvd>> /\ Receives(x, {"DATA"})
        /\ Reset(x) \/ (SameFlags(st[x], st'[x]) /\ st'[x].outbound = st[x].outbound)
    BY <1>1, <1>5, receiveDataEffect
  <2>2. wire'[x] = wire[x]
    BY <1>1, <2>1, ReceiveEffect
  <2>3. Sends(x)
    <3>1. CASE Reset(x)
      BY <1>1, <2>1, <2>2, <3>1, ResetStill, StreamStill DEF SameCopy
    <3>2. CASE SameFlags(st[x], st'[x]) /\ st'[x].outbound = st[x].outbound
      BY <2>1, <2>2, <3>2 DEF Sends, Live, SameFlags
    <3> QED BY <2>1, <3>1, <3>2
  <2> QED BY <1>5, <2>1, <2>3, receiveDataExact, SendStep
<1>6. CASE updateSendWindow(x)
  <2>1. /\ Quiet(x) /\ UNCHANGED <<app, sent, rcvd>> /\ Receives(x, {"WINDOW_UPDATE"})
        /\ \/ Reset(x)
           \/ /\ SameFlags(st[x], st'[x]) /\ st'[x].outbound = st[x].outbound
              /\ st'[x].inbound = st[x].inbound
    BY <1>1, <1>6, updateSendWindowEffect
  <2>2. wire'[x] = wire[x] /\ Incoming(x).type # "DATA"
    BY <1>1, <2>1, ReceiveEffect
  <2>3. Sends(x) /\ Takes(x)
    <3>1. CASE Reset(x)
      BY <1>1, <2>1, <2>2, <3>1, ResetStill, StreamStill DEF SameCopy
    <3>2. CASE /\ SameFlags(st[x], st'[x]) /\ st'[x].outbound = st[x].outbound
               /\ st'[x].inbound = st[x].inbound
      BY <2>1, <2>2, <3>2 DEF Sends, Takes, Live, SameFlags
    <3> QED BY <2>1, <3>1, <3>2
  <2> QED BY <2>1, <2>2, <2>3, StillStep
<1>7. CASE receiveFIN(x)
  <2>1. /\ Quiet(x) /\ UNCHANGED <<app, sent, rcvd>> /\ Receives(x, {"FIN"})
        /\ UNCHANGED st \/ st'[x] = [st[x] EXCEPT !.remoteWriteClosed = TRUE]
    BY <1>1, <1>7, receiveFINEffect
  <2>2. wire'[x] = wire[x]
    BY <1>1, <2>1, ReceiveEffect
  <2>3. Sends(x)
    BY <1>1, <2>1, <2>2 DEF Sends, Live, Streams
  <2> QED BY <1>7, <2>1, <2>3, receiveFINExact, SendStep
<1> QED BY <1>2, <1>3, <1>4, <1>5, <1>6, <1>7 DEF readLoop

LEMMA writeLoopExact == ASSUME Flow, Exact, NEW x \in Side, writeLoop(x) \/ Shutdown(x) PROVE Exact'
<1>1. TypeOK /\ st[x] \in Streams
  BY DEF Flow, TypeOK
<1>2. CASE NoControl(x)
  <2>1. UNCHANGED <<st, app, control, wire, sent, rcvd>>
    BY <1>1, <1>2, NoControlEffect
  <2>2. Quiet(x)
    BY <2>1, NoControlKeeps
  <2> QED BY <2>1, <2>2, StreamStill, StillStep DEF SameCopy
<1>3. CASE WriteControl(x)
  <2>1. UNCHANGED <<st, app, sent, rcvd>> /\ wire'[Other(x)] = wire[Other(x)] /\ Quiet(x)
    BY <1>1, <1>3, WriteControlEffect, WriteControlKeeps
  <2>2. Takes(x)
    BY <2>1 DEF Takes
  <2> QED BY <1>3, <2>1, <2>2, WriteControlExact, TakeStep
<1>4. CASE WriteOutbound(x)
  <2>1. /\ Quiet(x) /\ UNCHANGED <<app, sent, rcvd>> /\ wire'[Other(x)] = wire[Other(x)]
        /\ st'[x] = [st[x] EXCEPT !.outbound = Tail(st[x].outbound),
                        !.registered = Len(st[x].outbound) > 1 \/ ~ st[x].closeAfterDrain]
    BY <1>1, <1>4, WriteOutboundEffect
  <2>2. Takes(x)
    BY <1>1, <2>1 DEF Takes, Streams
  <2> QED BY <1>4, <2>1, <2>2, WriteOutboundExact, TakeStep
<1>5. CASE Shutdown(x)
  <2>1. /\ Quiet(x) /\ UNCHANGED <<app, wire, sent, rcvd>>
        /\ st'[x] = st[x] \/ Closing(st[x], st'[x])
    BY <1>1, <1>5, ShutdownEffect
  <2> QED BY <2>1, StreamStill, StillStep DEF SameCopy
<1> QED BY <1>2, <1>3, <1>4, <1>5 DEF writeLoop

LEMMA ProxyExact == ASSUME Flow, Exact, NEW x \in Side, Proxy(x) PROVE Exact'
<1>1. TypeOK /\ Balance
  BY DEF Flow
<1>2. CASE SourceEnds(x) \/ SourceFails(x)
  <2>1. /\ Quiet(x) /\ UNCHANGED <<wire, rcvd>> /\ SameCopy(app[x], app'[x])
        /\ SameWindows(st[x], st'[x]) /\ st'[x].closed = st[x].closed
        /\ st'[x].remoteWriteClosed = st[x].remoteWriteClosed
    BY <1>1, <1>2, SourceEffect
  <2>2. Takes(x)
    BY <2>1 DEF Takes, SameCopy, SameWindows
  <2> QED BY <1>2, <2>1, <2>2, SourceExact, TakeStep
<1>3. CASE Forward(x)
  <2>1. Quiet(x) /\ UNCHANGED <<st, wire, sent>>
    BY <1>1, <1>3, ForwardEffect
  <2>2. Sends(x)
    BY <2>1 DEF Sends, Live
  <2> QED BY <1>3, <2>1, <2>2, ForwardExact, SendStep
<1>4. CASE SinkEnds(x) \/ SinkFails(x)
  <2>1. Quiet(x) /\ UNCHANGED <<st, wire, sent>>
    BY <1>1, <1>4, SinkEffect
  <2>2. Sends(x)
    BY <2>1 DEF Sends, Live
  <2> QED BY <1>4, <2>1, <2>2, SinkExact, SendStep
<1>5. CASE ProxyFails(x)
  <2>1. /\ Quiet(x) /\ UNCHANGED <<wire, sent, rcvd>> /\ Reset(x)
        /\ app'[x].held = app[x].held /\ app'[x].sink = app[x].sink /\ app'[x].reset
    BY <1>1, <1>5, ProxyFailsEffect
  <2>2. st'[x] = st[x] \/ Closing(st[x], st'[x])
    BY <1>1, <2>1, ResetStill
  <2>3. Sends(x) /\ Takes(x)
    BY <2>1, <2>2 DEF Closing, SameWindows, Sends, Takes, Live
  <2> QED BY <2>1, <2>3, StillStep
<1>6. CASE ProxyEnds(x)
  <2>1. /\ Quiet(x) /\ UNCHANGED <<wire, sent, rcvd>> /\ SameCopy(app[x], app'[x])
        /\ \/ UNCHANGED st
           \/ /\ ~ st[x].closed /\ st'[x].closed
              /\ SameWindows(st[x], st'[x]) /\ st'[x].outbound = st[x].outbound
              /\ st'[x].localWriteClosed = st[x].localWriteClosed
              /\ st'[x].remoteWriteClosed = st[x].remoteWriteClosed
    BY <1>1, <1>6, ProxyEndsEffect
  <2>2. Sends(x) /\ Takes(x)
    BY <2>1 DEF SameCopy, SameWindows, Sends, Takes, Live
  <2> QED BY <2>1, <2>2, StillStep
<1>7. ASSUME NEW n \in 1..Window, Write(x, n) PROVE Exact'
  <2>1. /\ Quiet(x) /\ UNCHANGED <<app, wire, rcvd>> /\ SameFlags(st[x], st'[x])
        /\ st'[x].inbound = st[x].inbound
    BY <1>1, <1>7, WriteEffect
  <2>2. Takes(x)
    BY <2>1 DEF Takes, SameFlags
  <2> QED BY <1>7, <2>1, <2>2, WriteExact, TakeStep
<1>8. ASSUME NEW n \in 1..Window, Read(x, n) PROVE Exact'
  <2>1. /\ Quiet(x) /\ UNCHANGED <<wire, sent>> /\ SameFlags(st[x], st'[x])
        /\ st'[x].outbound = st[x].outbound
    BY <1>1, <1>8, ReadEffect
  <2>2. Sends(x)
    BY <2>1 DEF Sends, Live, SameFlags
  <2> QED BY <1>8, <2>1, <2>2, ReadExact, SendStep
<1> QED BY <1>2, <1>3, <1>4, <1>5, <1>6, <1>7, <1>8 DEF Proxy

LEMMA InitExact == Init => Exact
<1> SUFFICES ASSUME Init PROVE Exact
  OBVIOUS
<1>1. \A x \in Side : /\ st[x] = newStream /\ app[x] = NewApp /\ wire[x] = <<>>
                      /\ sent[x] = 0 /\ rcvd[x] = 0
  BY DEF Init
<1>2. Carried(<<>>, "DATA") = 0
  BY CarriedEmpty
<1>3. \A x \in Side : Fins(x)
  BY <1>1 DEF Fins, newStream
<1>4. \A x \in Side : Arrives(x)
  BY <1>1, <1>2, Sides DEF Arrives, Got, newStream, NewApp
<1> QED BY <1>3, <1>4 DEF Exact

LEMMA NextExact == Flow /\ Exact /\ [Next]_vars => Exact'
<1> SUFFICES ASSUME Flow, Exact, [Next]_vars PROVE Exact'
  OBVIOUS
<1>1. CASE Opening \/ handleOpen
  BY <1>1, OpeningExact
<1>2. ASSUME NEW x \in Side, readLoop(x) \/ writeLoop(x) \/ Proxy(x) \/ Shutdown(x) PROVE Exact'
  BY <1>2, readLoopExact, writeLoopExact, ProxyExact
<1>3. CASE UNCHANGED vars
  <2>1. UNCHANGED <<st, app, control, wire, sent, rcvd>> /\ Client \in Side
    BY <1>3, TwoSides DEF vars
  <2>2. Quiet(Client)
    BY <2>1, NoControlKeeps
  <2> QED BY <2>1, <2>2, StreamStill, StillStep DEF SameCopy
<1> QED BY <1>1, <1>2, <1>3 DEF Next

\* Whatever the sizes, the faults outside and the order of the goroutines, a
\* proxy that reports a clean end to its TCP peer (Stream.Read's io.EOF) has
\* given it every byte that the other side took, and the other side had ended.
THEOREM StreamEndsExact == Spec => []EOFExact
<1>1. Exact => EOFExact
  BY Sides DEF Exact, Arrives, EOFExact
<1> QED BY <1>1, InitFlow, NextFlow, InitExact, NextExact, PTL DEF Spec
=============================================================================

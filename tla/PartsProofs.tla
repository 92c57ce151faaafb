---------------------------- MODULE PartsProofs ----------------------------
(***************************************************************************)
(* Proofs about the parts that keep to themselves: the input half of the   *)
(* mux bridge, the throttle, the one-time codes, the tracked modes and the *)
(* start.  What a sum of locks comes to, or what a scanner makes of a      *)
(* sequence of bytes, needs induction: it is here first, over a set of     *)
(* naturals, with recursive functions and the library's folds under it.    *)
(* The types of all parts of MCParts, the stores included, come last.      *)
(***************************************************************************)
EXTENDS MCParts, SessionStoreProofs, DeviceStoreProofs, WellFoundedInduction, SequenceTheorems

----------------------------------------------------------------------------
(* Induction and recursion over the naturals, stated of sets and functions  *)
(* rather than of predicates, as the provers can use them.                  *)

\* A set of naturals has a least one.
LEMMA NatLeast ==
  ASSUME NEW T \in SUBSET Nat, T # {}
  PROVE  \E x \in T : \A y \in T : x <= y
<1>1. PICK R : R = OpToRel(<, Nat)
  OBVIOUS
<1>2. IsWellFoundedOn(R, Nat)
  BY <1>1, NatLessThanWellFounded
<1>3. PICK x \in T : \A y \in T : ~(<<y, x>> \in R)
  BY <1>2, WFMin
<1>4. \A y \in Nat, z \in Nat : y < z => <<y, z>> \in R
  BY <1>1 DEF OpToRel
<1>5. \A y \in T : y \in Nat /\ x \in Nat /\ ~(y < x)
  BY <1>3, <1>4
<1>6. QED
  BY <1>5

\* Induction over the naturals, for a set of them.
LEMMA NatInduct ==
  ASSUME NEW S, 0 \in S, \A n \in Nat : n \in S => n + 1 \in S
  PROVE  \A n \in Nat : n \in S
<1> SUFFICES ASSUME NEW m \in Nat, m \notin S PROVE FALSE
  OBVIOUS
<1> DEFINE T == {n \in Nat : n \notin S}
<1>1. PICK x \in T : \A y \in T : x <= y
  BY NatLeast
<1>2. x \in Nat /\ x # 0 /\ x \notin S
  OBVIOUS
<1>3. x - 1 \in Nat /\ x - 1 \notin S
  BY <1>2
<1>4. QED
  BY <1>1, <1>2, <1>3

\* f has the first value x0, and G makes each value after it from the one before.
Recurs(f, X, x0, G) == f \in [Nat -> X] /\ f[0] = x0 /\ \A n \in Nat : f[n + 1] = G[<<n, f[n]>>]

\* Recursion: there is such a function.
LEMMA NatRec ==
  ASSUME NEW X, NEW x0 \in X, NEW G \in [Nat \X X -> X]
  PROVE  \E f : Recurs(f, X, x0, G)
<1> DEFINE Fits(n, g) == g[0] = x0 /\ \A k \in Nat : k < n => g[k + 1] = G[<<k, g[k]>>]
           S == {n \in Nat : \E g \in [Nat -> X] : Fits(n, g)}
           U == {n \in Nat : \A g, h \in [Nat -> X] : Fits(n, g) /\ Fits(n, h) => g[n] = h[n]}
<1>1. \A n \in Nat : n \in S
  <2>1. 0 \in S
    <3>1. [k \in Nat |-> x0] \in [Nat -> X] /\ Fits(0, [k \in Nat |-> x0])
      OBVIOUS
    <3>2. QED
      BY <3>1
  <2>2. ASSUME NEW n \in Nat, n \in S PROVE n + 1 \in S
    <3>1. PICK g \in [Nat -> X] : Fits(n, g)
      BY <2>2
    <3> DEFINE h == [k \in Nat |-> IF k <= n THEN g[k] ELSE G[<<n, g[n]>>]]
    <3>2. G[<<n, g[n]>>] \in X
      OBVIOUS
    <3>3. h \in [Nat -> X]
      BY <3>2
    <3>4. ASSUME NEW k \in Nat, k < n + 1 PROVE h[k + 1] = G[<<k, h[k]>>]
      <4>1. CASE k < n
        BY <3>1, <4>1
      <4>2. CASE k = n
        BY <4>2
      <4>3. QED
        BY <3>4, <4>1, <4>2
    <3>5. h[0] = x0
      BY <3>1
    <3>6. Fits(n + 1, h)
      BY <3>4, <3>5
    <3> HIDE DEF h, Fits
    <3>7. QED
      BY <3>3, <3>6
  <2>3. QED
    <3> HIDE DEF S
    <3>1. QED
      BY <2>1, <2>2, NatInduct
<1>2. \A n \in Nat : n \in U
  <2>1. 0 \in U
    OBVIOUS
  <2>2. ASSUME NEW n \in Nat, n \in U PROVE n + 1 \in U
    <3> SUFFICES ASSUME NEW g \in [Nat -> X], NEW h \in [Nat -> X], Fits(n + 1, g), Fits(n + 1, h)
                 PROVE  g[n + 1] = h[n + 1]
      OBVIOUS
    <3>1. Fits(n, g) /\ Fits(n, h)
      OBVIOUS
    <3>2. g[n] = h[n]
      BY <2>2, <3>1
    <3>3. g[n + 1] = G[<<n, g[n]>>] /\ h[n + 1] = G[<<n, h[n]>>]
      OBVIOUS
    <3>4. QED
      BY <3>2, <3>3
  <2>3. QED
    <3> HIDE DEF U
    <3>1. QED
      BY <2>1, <2>2, NatInduct
<1> DEFINE c == [n \in Nat |-> CHOOSE g \in [Nat -> X] : Fits(n, g)]
           f == [n \in Nat |-> c[n][n]]
<1>3. \A n \in Nat : c[n] \in [Nat -> X] /\ Fits(n, c[n])
  <2> SUFFICES ASSUME NEW n \in Nat PROVE c[n] \in [Nat -> X] /\ Fits(n, c[n])
    OBVIOUS
  <2>1. PICK g \in [Nat -> X] : Fits(n, g)
    BY <1>1
  <2>2. c[n] = CHOOSE h \in [Nat -> X] : Fits(n, h)
    OBVIOUS
  <2> HIDE DEF Fits, c
  <2>3. QED
    BY <2>1, <2>2
<1>4. f \in [Nat -> X]
  <2> HIDE DEF c
  <2>1. QED
    BY <1>3
<1>5. f[0] = x0
  <2>1. c[0][0] = x0
    BY <1>3
  <2> HIDE DEF c
  <2>2. QED
    BY <2>1
<1>6. ASSUME NEW n \in Nat PROVE f[n + 1] = G[<<n, f[n]>>]
  <2> HIDE DEF c
  <2>1. c[n] \in [Nat -> X] /\ c[n + 1] \in [Nat -> X] /\ Fits(n, c[n]) /\ Fits(n + 1, c[n + 1])
    BY <1>3
  <2>2. Fits(n, c[n + 1]) /\ c[n + 1][n + 1] = G[<<n, c[n + 1][n]>>]
    BY <2>1
  <2>3. c[n + 1][n] = c[n][n]
    <3>1. n \in U
      BY <1>2
    <3>2. QED
      BY <2>1, <2>2, <3>1
  <2>4. f[n] = c[n][n] /\ f[n + 1] = c[n + 1][n + 1]
    OBVIOUS
  <2>5. QED
    BY <2>2, <2>3, <2>4
<1>7. Recurs(f, X, x0, G)
  <2> HIDE DEF f
  <2>1. QED
    BY <1>4, <1>5, <1>6 DEF Recurs
<1>8. QED
  BY <1>7

\* it folds G over the initial intervals of 1..n from x0, highest index last:
\* what FoldLeft computes over a sequence of length n.
Folds(it, n, x0, G) ==
  it = [S \in SUBSET (1..n) |-> IF S = {} THEN x0 ELSE G[<<Max(S), it[S \ {Max(S)}]>>]]

\* The highest of a set of numbers up to a bound.
LEMMA MaxOf ==
  ASSUME NEW n \in Nat, NEW S \in SUBSET (1..n), S # {}
  PROVE  Max(S) \in S /\ \A y \in S : Max(S) >= y
<1> DEFINE T == {d \in Nat : n - d \in S}
<1>1. T \in SUBSET Nat /\ T # {}
  <2>1. PICK x \in S : x \in 1..n
    OBVIOUS
  <2>2. n - x \in Nat /\ n - (n - x) = x
    BY <2>1
  <2>3. QED
    BY <2>2
<1>2. PICK t \in T : \A y \in T : t <= y
  BY <1>1, NatLeast
<1>3. PICK x \in S : x = n - t /\ x \in Int /\ t \in Nat
  BY <1>2
<1>4. ASSUME NEW y \in S PROVE x >= y
  <2>1. y \in 1..n
    OBVIOUS
  <2>2. n - y \in Nat /\ n - (n - y) = y
    BY <2>1
  <2>3. t <= n - y
    BY <1>2, <2>2
  <2>4. QED
    BY <1>3, <2>1, <2>3
<1>5. QED
  BY <1>4 DEF Max

\* There is such a fold.
LEMMA FoldThere ==
  ASSUME NEW n \in Nat, NEW X, NEW x0 \in X, NEW G \in [(1..n) \X X -> X]
  PROVE  \E it : it \in [SUBSET (1..n) -> X] /\ Folds(it, n, x0, G)
<1> DEFINE Good(m, f) == f \in [SUBSET (1..m) -> X] /\ Folds(f, m, x0, G)
           D == {m \in Nat : m <= n => \E f : Good(m, f)}
<1>1. 0 \in D
  <2>1. 1..0 = {}
    OBVIOUS
  <2> DEFINE f == [S \in SUBSET (1..0) |-> x0]
  <2>2. SUBSET (1..0) = {{}}
    BY <2>1
  <2>3. f \in [SUBSET (1..0) -> X] /\ f = [S \in SUBSET (1..0) |-> IF S = {} THEN x0 ELSE G[<<Max(S), f[S \ {Max(S)}]>>]]
    BY <2>2
  <2> HIDE DEF f
  <2>4. Good(0, f)
    BY <2>3 DEF Folds
  <2> HIDE DEF Good
  <2>5. QED
    BY <2>4
<1>2. ASSUME NEW m \in Nat, m \in D PROVE m + 1 \in D
  <2> HIDE DEF Good
  <2> SUFFICES ASSUME m + 1 <= n PROVE \E f : Good(m + 1, f)
    OBVIOUS
  <2>1. PICK g : Good(m, g)
    BY <1>2
  <2> USE DEF Good
  <2> DEFINE f == [S \in SUBSET (1..(m + 1)) |->
                     IF m + 1 \in S THEN G[<<m + 1, g[S \ {m + 1}]>>] ELSE g[S]]
  <2>2. ASSUME NEW S \in SUBSET (1..(m + 1)) PROVE (S \ {m + 1}) \in SUBSET (1..m) /\ (m + 1 \notin S => S \in SUBSET (1..m))
    OBVIOUS
  <2>3. f \in [SUBSET (1..(m + 1)) -> X]
    <3>1. ASSUME NEW S \in SUBSET (1..(m + 1)) PROVE f[S] \in X
      <4>1. CASE m + 1 \in S
        <5>1. g[S \ {m + 1}] \in X
          BY <2>1, <2>2
        <5>2. m + 1 \in 1..n
          OBVIOUS
        <5>3. G[<<m + 1, g[S \ {m + 1}]>>] \in X
          BY <5>1, <5>2
        <5>4. QED
          BY <4>1, <5>3
      <4>2. CASE m + 1 \notin S
        BY <2>1, <2>2, <4>2
      <4>3. QED
        BY <4>1, <4>2
    <3>2. QED
      BY <3>1
  <2>4. ASSUME NEW S \in SUBSET (1..(m + 1))
        PROVE  f[S] = IF S = {} THEN x0 ELSE G[<<Max(S), f[S \ {Max(S)}]>>]
    <3>1. CASE S = {}
      <4>1. f[S] = g[S] /\ S \in SUBSET (1..m)
        BY <3>1
      <4>2. g[S] = x0
        BY <2>1, <3>1, <4>1 DEF Folds
      <4>3. QED
        BY <3>1, <4>1, <4>2
    <3>2. CASE m + 1 \in S
      <4>1. Max(S) \in S /\ \A y \in S : Max(S) >= y
        <5>1. m + 1 \in Nat /\ S # {}
          BY <3>2
        <5>2. QED
          BY <5>1, MaxOf
      <4>2. Max(S) = m + 1
        <5>1. Max(S) \in 1..(m + 1) /\ Max(S) >= m + 1
          BY <3>2, <4>1
        <5>2. QED
          BY <5>1
      <4>3. f[S \ {m + 1}] = g[S \ {m + 1}]
        OBVIOUS
      <4>4. f[S] = G[<<m + 1, g[S \ {m + 1}]>>]
        BY <3>2
      <4>5. QED
        BY <3>2, <4>2, <4>3, <4>4
    <3>3. CASE S # {} /\ m + 1 \notin S
      <4>1. S \in SUBSET (1..m) /\ (S \ {Max(S)}) \in SUBSET (1..m) /\ m + 1 \notin S \ {Max(S)}
        BY <2>2, <3>3
      <4>2. f[S] = g[S] /\ f[S \ {Max(S)}] = g[S \ {Max(S)}]
        BY <3>3, <4>1
      <4>3. g[S] = G[<<Max(S), g[S \ {Max(S)}]>>]
        BY <2>1, <3>3, <4>1 DEF Folds
      <4>4. QED
        BY <3>3, <4>2, <4>3
    <3>4. QED
      BY <3>1, <3>2, <3>3
  <2>5. Folds(f, m + 1, x0, G)
    <3>1. f = [S \in SUBSET (1..(m + 1)) |-> f[S]]
      OBVIOUS
    <3> HIDE DEF f
    <3>2. QED
      BY <2>4, <3>1 DEF Folds
  <2>6. QED
    BY <2>3, <2>5
<1> HIDE DEF D
<1>3. n \in D
  BY <1>1, <1>2, NatInduct
<1>4. \E f : Good(n, f)
  <2> HIDE DEF Good
  <2>1. n <= n
    OBVIOUS
  <2>2. QED
    BY <1>3, <2>1 DEF D
<1>5. QED
  BY <1>4

\* It takes the indices one at a time.
LEMMA FoldSteps ==
  ASSUME NEW n \in Nat, NEW x0, NEW G, NEW it, Folds(it, n, x0, G)
  PROVE  /\ it[{}] = x0
         /\ \A k \in Nat : k < n => it[1..(k + 1)] = G[<<k + 1, it[1..k]>>]
<1>1. it[{}] = x0
  BY DEF Folds
<1>2. ASSUME NEW k \in Nat, k < n PROVE it[1..(k + 1)] = G[<<k + 1, it[1..k]>>]
  <2>1. (1..(k + 1)) \in SUBSET (1..n) /\ (1..(k + 1)) # {} /\ k + 1 \in 1..(k + 1)
    BY <1>2
  <2>2. Max(1..(k + 1)) \in 1..(k + 1) /\ \A y \in 1..(k + 1) : Max(1..(k + 1)) >= y
    BY <2>1, MaxOf
  <2>3. Max(1..(k + 1)) = k + 1
    BY <2>1, <2>2
  <2>4. (1..(k + 1)) \ {k + 1} = 1..k
    OBVIOUS
  <2>5. it[1..(k + 1)] = G[<<Max(1..(k + 1)), it[(1..(k + 1)) \ {Max(1..(k + 1))}]>>]
    BY <2>1 DEF Folds
  <2>6. QED
    BY <2>3, <2>4, <2>5
<1>3. QED
  BY <1>1, <1>2

----------------------------------------------------------------------------
(* MuxConnection: what the client saw of a slot when it sent each frame     *)
(* still in flight leads from what the server has of it to the client's     *)
(* view of now.                                                             *)

Frame == [t : {"open", "mode", "close", "input", "resize"}, slot : MuxSlot, ro : BOOLEAN, n : Nat]
ClientView == [open : BOOLEAN, ro : BOOLEAN, n : Nat]

\* The client's view w after it sent frame f in view v.
Follows(s, f, v, w) ==
  \/ f.slot # s /\ w = v
  \/ f.slot = s /\ f.t = "open" /\ w = [open |-> TRUE, ro |-> f.ro, n |-> 0]
  \/ f.slot = s /\ f.t = "mode" /\ w = [v EXCEPT !.ro = f.ro]
  \/ f.slot = s /\ f.t = "close" /\ w = Unopened
  \/ f.slot = s /\ f.t = "resize" /\ w = v
  \/ f.slot = s /\ f.t = "input" /\ v.open /\ ~v.ro /\ f.n = v.n + 1 /\ w = [v EXCEPT !.n = f.n]
  \/ f.slot = s /\ f.t = "input" /\ (~v.open \/ v.ro) /\ f.n = 0 /\ w = v

\* The server has attached slot s as the view v would have it, with all its
\* inputs taken; or it has not, and takes none.
Opens(s, v) == loop = "send" /\ opening.slot = s => v = [open |-> TRUE, ro |-> opening.ro, n |-> 0] /\ channel[s] = NoChannel
Feeds(s, v) == channel[s] # NoChannel => v = [open |-> TRUE, ro |-> channel[s].ro, n |-> Len(got[s])]
Matches(s, v) == Opens(s, v) /\ Feeds(s, v) /\ (channel[s] = NoChannel => got[s] = <<>>)

\* The views of slot s between the frames in flight.
InFlight(s) ==
  \E h \in [0..Len(wire) -> ClientView] :
    /\ Matches(s, h[0]) /\ h[Len(wire)] = view[s]
    /\ \A k \in 1..Len(wire) : Follows(s, wire[k], h[k - 1], h[k])

\* What a slot feeds: no shell, or one that was spawned.
Channel == {NoChannel} \cup [shell : MuxShell, ro : BOOLEAN]

MuxTypes ==
  /\ wire \in Seq(Frame) /\ view \in [MuxSlot -> ClientView]
  /\ channel \in [MuxSlot -> Channel]
  /\ got \in [MuxSlot -> Seq(Nat)]
  /\ loop = "send" => opening \in [slot : MuxSlot, shell : MuxShell, ro : BOOLEAN]
  /\ tenant \in [MuxSlot -> MuxShell \cup {0}]

Numbered(s) == \A i \in 1..Len(got[s]) : got[s][i] = i
MuxInv ==
  /\ MuxTypes /\ (handler => loop = "off")
  /\ \A s \in MuxSlot : InFlight(s) /\ Numbered(s)

\* A frame more is in flight.
LEMMA MuxSent ==
  ASSUME MuxTypes, MuxTypes', NEW s \in MuxSlot, InFlight(s), NEW f \in Frame, wire' = Append(wire, f),
         UNCHANGED <<loop, opening, channel, got>>, Follows(s, f, view[s], view'[s])
  PROVE  InFlight(s)'
<1>1. PICK h \in [0..Len(wire) -> ClientView] :
        /\ Matches(s, h[0]) /\ h[Len(wire)] = view[s]
        /\ \A k \in 1..Len(wire) : Follows(s, wire[k], h[k - 1], h[k])
  BY DEF InFlight
<1>2. /\ Len(wire) \in Nat /\ Len(wire') = Len(wire) + 1
      /\ wire'[Len(wire) + 1] = f /\ \A k \in 1..Len(wire) : wire'[k] = wire[k]
  BY DEF MuxTypes
<1>3. PICK n \in Nat : n = Len(wire)
  BY <1>2
<1>4. PICK w \in ClientView : w = view'[s]
  BY DEF MuxTypes
<1>5. PICK g : g = [k \in 0..(n + 1) |-> IF k <= n THEN h[k] ELSE w]
  OBVIOUS
<1>6. g \in [0..(n + 1) -> ClientView] /\ g[0] = h[0] /\ g[n + 1] = w
  BY <1>1, <1>3, <1>5
<1>7. \A k \in 1..(n + 1) : Follows(s, wire'[k], g[k - 1], g[k])
  <2>1. SUFFICES ASSUME NEW k \in 1..(n + 1) PROVE Follows(s, wire'[k], g[k - 1], g[k])
    OBVIOUS
  <2>2. CASE k = n + 1
    <3>1. g[k - 1] = view[s] /\ g[k] = view'[s]
      BY <1>1, <1>3, <1>4, <1>5, <2>2
    <3>2. wire'[k] = f
      BY <1>2, <1>3, <2>2
    <3>3. QED
      BY <3>1, <3>2
  <2>3. CASE k # n + 1
    <3>1. k \in 1..n /\ k - 1 \in 0..(n + 1) /\ k - 1 <= n /\ k <= n /\ k \in 0..(n + 1)
      BY <2>3
    <3>2. g[k - 1] = h[k - 1] /\ g[k] = h[k] /\ wire'[k] = wire[k]
      BY <1>2, <1>3, <1>5, <3>1
    <3>3. QED
      BY <1>1, <1>3, <3>1, <3>2
  <2>4. QED
    BY <2>2, <2>3
<1>8. Matches(s, g[0])'
  BY <1>1, <1>6 DEF Matches, Opens, Feeds
<1>9. QED
  BY <1>2, <1>3, <1>4, <1>6, <1>7, <1>8 DEF InFlight

\* The first frame is handled.
LEMMA MuxHandled ==
  ASSUME MuxTypes, NEW s \in MuxSlot, InFlight(s), wire # <<>>, wire' = Tail(wire), view' = view,
         \A v \in ClientView, w \in ClientView : Matches(s, v) /\ Follows(s, Head(wire), v, w) => Matches(s, w)'
  PROVE  InFlight(s)'
<1>1. PICK h \in [0..Len(wire) -> ClientView] :
        /\ Matches(s, h[0]) /\ h[Len(wire)] = view[s]
        /\ \A k \in 1..Len(wire) : Follows(s, wire[k], h[k - 1], h[k])
  BY DEF InFlight
<1>2. /\ Len(wire) \in Nat \ {0} /\ Len(wire') = Len(wire) - 1 /\ Head(wire) = wire[1]
      /\ \A k \in 1..Len(wire') : wire'[k] = wire[k + 1]
  BY DEF MuxTypes
<1>3. PICK n \in Nat \ {0} : n = Len(wire)
  BY <1>2
<1>4. PICK g : g = [k \in 0..(n - 1) |-> h[k + 1]]
  OBVIOUS
<1>5. /\ g \in [0..(n - 1) -> ClientView] /\ g[0] = h[1] /\ g[n - 1] = h[n]
      /\ h[0] \in ClientView /\ h[1] \in ClientView
  <2>1. /\ 0 \in 0..(n - 1) /\ n - 1 \in 0..(n - 1) /\ 0 + 1 = 1 /\ (n - 1) + 1 = n
        /\ \A k \in 0..(n - 1) : k + 1 \in 0..n
    OBVIOUS
  <2>2. h \in [0..n -> ClientView] /\ 0 \in 0..n /\ 1 \in 0..n
    BY <1>1, <1>3
  <2>3. g \in [0..(n - 1) -> ClientView]
    BY <1>4, <2>1, <2>2
  <2>4. g[0] = h[0 + 1] /\ g[n - 1] = h[(n - 1) + 1]
    BY <1>4, <2>1
  <2>5. QED
    BY <2>1, <2>2, <2>3, <2>4
<1>6. \A k \in 1..(n - 1) : Follows(s, wire'[k], g[k - 1], g[k])
  <2>1. SUFFICES ASSUME NEW k \in 1..(n - 1) PROVE Follows(s, wire'[k], g[k - 1], g[k])
    OBVIOUS
  <2>2. k + 1 \in 1..n /\ (k + 1) - 1 = k /\ (k - 1) + 1 = k /\ k - 1 \in 0..(n - 1) /\ k \in 0..(n - 1)
    OBVIOUS
  <2>3. g[k - 1] = h[k] /\ g[k] = h[k + 1] /\ wire'[k] = wire[k + 1]
    BY <1>2, <1>3, <1>4, <2>2
  <2>4. Follows(s, wire[k + 1], h[(k + 1) - 1], h[k + 1])
    BY <1>1, <1>3, <2>2
  <2>5. QED
    BY <2>2, <2>3, <2>4
<1>7. Follows(s, Head(wire), h[0], h[1])
  <2>1. 1 \in 1..Len(wire) /\ 1 - 1 = 0
    BY <1>2
  <2>2. Follows(s, wire[1], h[1 - 1], h[1])
    BY <1>1, <2>1
  <2>3. QED
    BY <1>2, <2>1, <2>2
<1>8. Matches(s, h[1])'
  BY <1>1, <1>5, <1>7
<1>9. QED
  BY <1>1, <1>2, <1>3, <1>5, <1>6, <1>8 DEF InFlight

\* No frame moves.
LEMMA MuxStays ==
  ASSUME NEW s \in MuxSlot, InFlight(s), wire' = wire, view' = view,
         \A v \in ClientView : Matches(s, v) => Matches(s, v)', Len(wire) \in Nat
  PROVE  InFlight(s)'
<1>1. PICK h \in [0..Len(wire) -> ClientView] :
        /\ Matches(s, h[0]) /\ h[Len(wire)] = view[s]
        /\ \A k \in 1..Len(wire) : Follows(s, wire[k], h[k - 1], h[k])
  BY DEF InFlight
<1>2. h[0] \in ClientView
  BY <1>1
<1>3. Matches(s, h[0])'
  BY <1>1, <1>2
<1>4. QED
  BY <1>1, <1>3 DEF InFlight

\* A connection that ends leaves nothing in flight.
LEMMA MuxEnds ==
  ASSUME NEW s \in MuxSlot, ConnEnds
  PROVE  InFlight(s)' /\ Numbered(s)'
<1>1. PICK h : h = [k \in 0..0 |-> Unopened]
  OBVIOUS
<1>2. /\ wire' = <<>> /\ view'[s] = Unopened /\ channel'[s] = NoChannel /\ got'[s] = <<>> /\ loop' = "off"
      /\ Len(wire') = 0 /\ Len(got'[s]) = 0
  BY DEF ConnEnds
<1>3. h \in [0..0 -> ClientView] /\ h[0] = Unopened
  BY <1>1 DEF ClientView, Unopened
<1>4. Matches(s, h[0])'
  BY <1>2 DEF Matches, Opens, Feeds
<1>5. InFlight(s)'
  BY <1>2, <1>3, <1>4 DEF InFlight
<1>6. QED
  BY <1>2, <1>5 DEF Numbered

\* Frames, views and channels are what they look like.
LEMMA MuxTyped == ASSUME MuxTypes, [MuxNext]_muxVars PROVE MuxTypes'
<1>1. CASE UNCHANGED muxVars
  BY <1>1 DEF muxVars, MuxTypes
<1>2. CASE SessionGoes \/ WsFinds \/ WsSubscribes
  BY <1>2 DEF SessionGoes, WsFinds, WsSubscribes, MuxTypes
<1>3. CASE EndsRevoked \/ EndsOtherwise \/ Overload
  <2>1. ConnEnds
    BY <1>3 DEF EndsRevoked, EndsOtherwise, Overload
  <2>2. Unopened \in ClientView /\ NoChannel \in Channel
    BY DEF Unopened, ClientView, Channel
  <2>3. QED
    BY <2>1, <2>2 DEF ConnEnds, MuxTypes
<1>4. CASE HandleInput
  <2>1. PICK s : s = Head(wire).slot
    OBVIOUS
  <2>2. /\ Head(wire) \in Frame /\ Tail(wire) \in Seq(Frame)
    BY <1>4 DEF HandleInput, Arrives, MuxTypes
  <2>3. /\ s \in MuxSlot /\ Head(wire).n \in Nat /\ wire' = Tail(wire)
        /\ got' = [got EXCEPT ![s] = Append(@, Head(wire).n)]
        /\ UNCHANGED <<view, loop, opening, channel, tenant>>
    BY <1>4, <2>1, <2>2 DEF HandleInput, Handled, Frame
  <2>4. QED
    BY <2>2, <2>3 DEF MuxTypes
<1>5. CASE HandleResize \/ HandleNothing
  <2>1. /\ wire' = Tail(wire) /\ wire # <<>>
        /\ view' = view /\ channel' = channel /\ got' = got /\ loop' = loop /\ opening' = opening /\ tenant' = tenant
    BY <1>5 DEF HandleResize, HandleNothing, Handled, Arrives
  <2>2. wire' \in Seq(Frame)
    BY <2>1 DEF MuxTypes
  <2>3. QED
    BY <2>1, <2>2 DEF MuxTypes
<1>6. CASE HandleMode
  <2>1. /\ Head(wire) \in Frame /\ wire' = Tail(wire) /\ Tail(wire) \in Seq(Frame)
    BY <1>6 DEF HandleMode, Arrives, Handled, MuxTypes
  <2>2. Head(wire).slot \in MuxSlot /\ Head(wire).ro \in BOOLEAN
    BY <2>1 DEF Frame
  <2>3. channel' \in [MuxSlot -> Channel]
    <3>1. PICK q \in MuxSlot, ro \in BOOLEAN : q = Head(wire).slot /\ ro = Head(wire).ro
      BY <2>2
    <3>2. channel' = IF channel[q] = NoChannel THEN channel ELSE [channel EXCEPT ![q].ro = ro]
      BY <1>6, <3>1 DEF HandleMode
    <3>3. channel[q] # NoChannel => [channel[q] EXCEPT !.ro = ro] \in Channel
      BY DEF MuxTypes, Channel
    <3>4. QED
      BY <3>2, <3>3 DEF MuxTypes
  <2>4. QED
    BY <1>6, <2>1, <2>3 DEF HandleMode, Handled, MuxTypes
<1>7. CASE HandleClose \/ HandleOpen
  <2>1. PICK s : s = Head(wire).slot
    OBVIOUS
  <2>2. /\ channel' = [channel EXCEPT ![s] = NoChannel] /\ got' = [got EXCEPT ![s] = <<>>]
        /\ wire' = Tail(wire) /\ view' = view /\ wire # <<>>
    BY <1>7, <2>1 DEF HandleClose, HandleOpen, Handled, Arrives
  <2>3. NoChannel \in Channel /\ <<>> \in Seq(Nat)
    BY DEF Channel
  <2>4. /\ wire' \in Seq(Frame) /\ view' \in [MuxSlot -> ClientView] /\ got' \in [MuxSlot -> Seq(Nat)]
        /\ channel' \in [MuxSlot -> Channel]
    <3>1. wire' \in Seq(Frame)
      BY <2>2 DEF MuxTypes
    <3>2. got' \in [MuxSlot -> Seq(Nat)]
      BY <2>2, <2>3 DEF MuxTypes
    <3>3. QED
      BY <2>2, <2>3, <3>1, <3>2 DEF MuxTypes
  <2>5. CASE UNCHANGED <<tenant, opening, loop>>
    BY <2>4, <2>5 DEF MuxTypes
  <2>6. ASSUME NEW g \in MuxShell, HandleOpen, AttachesTo(s, g),
               tenant' = tenant \/ tenant' = [tenant EXCEPT ![s] = g]
        PROVE  MuxTypes'
    <3>1. Head(wire) \in Frame
      BY <2>2 DEF MuxTypes
    <3>2. s \in MuxSlot /\ Head(wire).ro \in BOOLEAN
      BY <2>1, <3>1 DEF Frame
    <3>3. opening' \in [slot : MuxSlot, shell : MuxShell, ro : BOOLEAN]
      BY <2>6, <3>2 DEF AttachesTo
    <3>4. tenant' \in [MuxSlot -> MuxShell \cup {0}]
      BY <2>6 DEF MuxTypes
    <3>5. QED
      BY <2>4, <3>3, <3>4 DEF MuxTypes
  <2>7. CASE HandleOpen
    <3>1. Head(wire) \in Frame
      BY <2>2 DEF MuxTypes
    <3>2. s \in MuxSlot /\ tenant[s] \in MuxShell \cup {0}
      BY <2>1, <3>1 DEF Frame, MuxTypes
    <3>3. QED
      BY <2>1, <2>5, <2>6, <2>7, <3>2 DEF HandleOpen
  <2>8. QED
    BY <1>7, <2>5, <2>7 DEF HandleClose
<1>8. CASE OpenDone
  <2>1. channel' \in [MuxSlot -> Channel]
    BY <1>8 DEF OpenDone, MuxTypes, Channel
  <2>2. QED
    BY <1>8, <2>1 DEF OpenDone, MuxTypes
<1>9. ASSUME NEW s \in MuxSlot, ClientCloses(s) \/ ClientTypes(s) \/ ClientResizes(s) \/ SlotReset(s) PROVE MuxTypes'
  <2>1. view[s] \in ClientView
    BY DEF MuxTypes
  <2>2. CASE SlotReset(s)
    BY <2>2 DEF SlotReset, KeptByShells, MuxTypes
  <2>3. CASE ClientCloses(s)
    <3>1. [t |-> "close", slot |-> s, ro |-> FALSE, n |-> 0] \in Frame /\ Unopened \in ClientView
      BY DEF Frame, Unopened, ClientView
    <3>2. QED
      BY <2>3, <3>1 DEF ClientCloses, Sends, MuxTypes
  <2>4. CASE ClientResizes(s)
    <3>1. [t |-> "resize", slot |-> s, ro |-> FALSE, n |-> 0] \in Frame
      BY DEF Frame
    <3>2. QED
      BY <2>4, <3>1 DEF ClientResizes, Sends, MuxTypes
  <2>5. CASE ClientTypes(s)
    <3>1. PICK n : n = IF view[s].open /\ ~view[s].ro THEN view[s].n + 1 ELSE 0
      OBVIOUS
    <3>2. n \in Nat
      BY <2>1, <3>1 DEF ClientView
    <3>3. [t |-> "input", slot |-> s, ro |-> view[s].ro, n |-> n] \in Frame
      BY <2>1, <3>2 DEF ClientView, Frame
    <3>4. view' = [view EXCEPT ![s].n = IF n = 0 THEN @ ELSE n]
      BY <2>5, <3>1 DEF ClientTypes
    <3>5. view' \in [MuxSlot -> ClientView]
      BY <3>2, <3>4 DEF ClientView, MuxTypes
    <3>6. QED
      BY <2>5, <3>1, <3>3, <3>5 DEF ClientTypes, Sends, MuxTypes
  <2>6. QED
    BY <1>9, <2>2, <2>3, <2>4, <2>5
<1>10. ASSUME NEW s \in MuxSlot, NEW ro \in BOOLEAN, ClientOpens(s, ro) \/ ClientSwitches(s, ro) PROVE MuxTypes'
  <2>1. /\ [t |-> "open", slot |-> s, ro |-> ro, n |-> 0] \in Frame /\ [t |-> "mode", slot |-> s, ro |-> ro, n |-> 0] \in Frame
        /\ [open |-> TRUE, ro |-> ro, n |-> 0] \in ClientView
    BY DEF Frame, ClientView
  <2>2. view' \in [MuxSlot -> ClientView]
    <3>1. CASE ClientOpens(s, ro)
      BY <2>1, <3>1 DEF ClientOpens, MuxTypes
    <3>2. CASE ClientSwitches(s, ro)
      <4>1. view' = [view EXCEPT ![s].ro = ro] /\ view \in [MuxSlot -> ClientView]
        BY <3>2 DEF ClientSwitches, MuxTypes
      <4>2. QED
        BY <4>1 DEF ClientView
    <3>3. QED
      BY <1>10, <3>1, <3>2
  <2>3. PICK f \in Frame : Sends(f)
    BY <1>10, <2>1 DEF ClientOpens, ClientSwitches
  <2>4. wire' \in Seq(Frame)
    BY <2>3 DEF Sends, MuxTypes
  <2>5. QED
    BY <2>2, <2>3, <2>4 DEF Sends, MuxTypes
<1>11. ASSUME NEW g \in MuxShell, TakesCommand(g) \/ MuxShellEnds(g) PROVE MuxTypes'
  BY <1>11 DEF TakesCommand, MuxShellEnds, KeptByShells, MuxTypes
<1>12. QED
  BY <1>1, <1>2, <1>3, <1>4, <1>5, <1>6, <1>7, <1>8, <1>9, <1>10, <1>11 DEF MuxNext

\* What the client sends follows its view, of the slot it is for.
LEMMA MuxSends ==
  ASSUME MuxInv, MuxTypes', NEW s \in MuxSlot, NEW q \in MuxSlot, NEW ro \in BOOLEAN,
         ClientCloses(q) \/ ClientTypes(q) \/ ClientResizes(q) \/ ClientOpens(q, ro) \/ ClientSwitches(q, ro)
  PROVE  InFlight(s)' /\ Numbered(s)'
<1>1. MuxTypes /\ InFlight(s) /\ Numbered(s) /\ view \in [MuxSlot -> ClientView] /\ view[q] \in ClientView
  BY DEF MuxInv, MuxTypes
<1>2. ASSUME NEW f \in Frame, Sends(f), Follows(s, f, view[s], view'[s]) PROVE InFlight(s)' /\ Numbered(s)'
  <2>1. wire' = Append(wire, f) /\ UNCHANGED <<loop, opening, channel, got>>
    BY <1>2 DEF Sends
  <2>2. InFlight(s)'
    BY <1>1, <1>2, <2>1, MuxSent
  <2>3. QED
    BY <1>1, <2>1, <2>2 DEF Numbered
<1>3. CASE ClientCloses(q)
  <2>1. PICK f : f = [t |-> "close", slot |-> q, ro |-> FALSE, n |-> 0]
    OBVIOUS
  <2>2. f \in Frame /\ f.t = "close" /\ f.slot = q
    BY <2>1 DEF Frame
  <2>3. Sends(f) /\ view' = [view EXCEPT ![q] = Unopened]
    BY <1>3, <2>1 DEF ClientCloses
  <2>4. Follows(s, f, view[s], view'[s])
    BY <1>1, <2>2, <2>3 DEF Follows
  <2>5. QED
    BY <1>2, <2>2, <2>3, <2>4
<1>4. CASE ClientTypes(q)
  <2>1. PICK n : n = IF view[q].open /\ ~view[q].ro THEN view[q].n + 1 ELSE 0
    OBVIOUS
  <2>2. PICK f : f = [t |-> "input", slot |-> q, ro |-> view[q].ro, n |-> n]
    OBVIOUS
  <2>3. n \in Nat /\ (view[q].open /\ ~view[q].ro => n = view[q].n + 1 /\ n # 0)
    BY <1>1, <2>1 DEF ClientView
  <2>4. f \in Frame /\ f.t = "input" /\ f.slot = q /\ f.n = n
    BY <1>1, <2>2, <2>3 DEF Frame, ClientView
  <2>5. Sends(f) /\ view' = [view EXCEPT ![q].n = IF n = 0 THEN @ ELSE n]
    BY <1>4, <2>1, <2>2 DEF ClientTypes
  <2>6. Follows(s, f, view[s], view'[s])
    <3>1. CASE s # q
      BY <1>1, <2>4, <2>5, <3>1 DEF Follows
    <3>2. CASE s = q /\ view[q].open /\ ~view[q].ro
      <4>1. view'[s] = [view[s] EXCEPT !.n = f.n]
        BY <1>1, <2>3, <2>4, <2>5, <3>2
      <4>2. QED
        BY <2>3, <2>4, <3>2, <4>1 DEF Follows
    <3>3. CASE s = q /\ (~view[q].open \/ view[q].ro)
      <4>1. n = 0
        BY <2>1, <3>3
      <4>2. view'[s] = view[s]
        BY <1>1, <2>5, <3>3, <4>1 DEF ClientView
      <4>3. QED
        BY <2>4, <3>3, <4>1, <4>2 DEF Follows
    <3>4. QED
      BY <3>1, <3>2, <3>3
  <2>7. QED
    BY <1>2, <2>4, <2>5, <2>6
<1>5. CASE ClientResizes(q)
  <2>1. PICK f : f = [t |-> "resize", slot |-> q, ro |-> FALSE, n |-> 0]
    OBVIOUS
  <2>2. f \in Frame /\ f.t = "resize" /\ f.slot = q
    BY <2>1 DEF Frame
  <2>3. Sends(f) /\ view' = view
    BY <1>5, <2>1 DEF ClientResizes
  <2>4. QED
    BY <1>2, <2>2, <2>3 DEF Follows
<1>6. CASE ClientOpens(q, ro)
  <2>1. PICK f : f = [t |-> "open", slot |-> q, ro |-> ro, n |-> 0]
    OBVIOUS
  <2>2. f \in Frame /\ f.t = "open" /\ f.slot = q /\ f.ro = ro
    BY <2>1 DEF Frame
  <2>3. Sends(f) /\ view' = [view EXCEPT ![q] = [open |-> TRUE, ro |-> ro, n |-> 0]]
    BY <1>6, <2>1 DEF ClientOpens
  <2>4. Follows(s, f, view[s], view'[s])
    BY <1>1, <2>2, <2>3 DEF Follows
  <2>5. QED
    BY <1>2, <2>2, <2>3, <2>4
<1>7. CASE ClientSwitches(q, ro)
  <2>1. PICK f : f = [t |-> "mode", slot |-> q, ro |-> ro, n |-> 0]
    OBVIOUS
  <2>2. f \in Frame /\ f.t = "mode" /\ f.slot = q /\ f.ro = ro
    BY <2>1 DEF Frame
  <2>3. Sends(f) /\ view' = [view EXCEPT ![q].ro = ro]
    BY <1>7, <2>1 DEF ClientSwitches
  <2>4. Follows(s, f, view[s], view'[s])
    BY <1>1, <2>2, <2>3 DEF Follows
  <2>5. QED
    BY <1>2, <2>2, <2>3, <2>4
<1>8. QED
  BY <1>3, <1>4, <1>5, <1>6, <1>7

\* Every frame the server handles leaves each slot as the client saw it.
LEMMA MuxHandles ==
  ASSUME MuxInv, NEW s \in MuxSlot,
         HandleInput \/ HandleResize \/ HandleNothing \/ HandleMode \/ HandleClose \/ HandleOpen
  PROVE  InFlight(s)' /\ Numbered(s)'
<1>1. MuxTypes /\ InFlight(s) /\ Numbered(s) /\ got \in [MuxSlot -> Seq(Nat)]
  BY DEF MuxInv, MuxTypes
<1>2. wire # <<>> /\ wire' = Tail(wire) /\ view' = view /\ loop = "turn"
  BY DEF HandleInput, HandleResize, HandleNothing, HandleMode, HandleClose, HandleOpen, Arrives, Handled
<1>3. PICK f \in Frame : f = Head(wire)
  BY <1>1, <1>2 DEF MuxTypes
<1>4. PICK q \in MuxSlot : q = f.slot
  BY DEF Frame
<1>5. channel \in [MuxSlot -> Channel]
  BY <1>1 DEF MuxTypes
<1>6. ASSUME \A v \in ClientView, w \in ClientView : Matches(s, v) /\ Follows(s, f, v, w) => Matches(s, w)'
      PROVE  InFlight(s)'
  BY <1>1, <1>2, <1>3, <1>6, MuxHandled
<1>7. CASE HandleInput
  <2>1. /\ f.t = "input" /\ channel[q] # NoChannel /\ ~channel[q].ro
        /\ got' = [got EXCEPT ![q] = Append(@, f.n)] /\ channel' = channel /\ loop' = loop /\ opening' = opening
    BY <1>3, <1>4, <1>7 DEF HandleInput, Arrives, Writable
  <2>2. CASE s # q
    <3>1. got'[s] = got[s]
      BY <1>1, <2>1, <2>2
    <3>2. \A v \in ClientView, w \in ClientView : Matches(s, v) /\ Follows(s, f, v, w) => Matches(s, w)'
      BY <1>4, <2>1, <2>2, <3>1 DEF Follows, Matches, Opens, Feeds
    <3>3. QED
      BY <1>1, <1>6, <3>1, <3>2 DEF Numbered
  <2>3. CASE s = q
    <3>1. f.n \in Nat /\ got'[s] = Append(got[s], f.n) /\ got[s] \in Seq(Nat)
      BY <1>1, <1>3, <2>1, <2>3 DEF Frame
    <3>2. /\ Len(got[s]) \in Nat /\ Len(got'[s]) = Len(got[s]) + 1 /\ got'[s][Len(got[s]) + 1] = f.n
          /\ \A k \in 1..Len(got[s]) : got'[s][k] = got[s][k]
      BY <3>1
    <3>3. ASSUME NEW v \in ClientView, NEW w \in ClientView, Matches(s, v), Follows(s, f, v, w)
          PROVE  f.n = Len(got[s]) + 1 /\ Matches(s, w)'
      <4>1. v = [open |-> TRUE, ro |-> channel[s].ro, n |-> Len(got[s])]
        BY <2>1, <2>3, <3>3 DEF Matches, Feeds
      <4>2. v.open /\ ~v.ro /\ v.n = Len(got[s])
        BY <2>1, <2>3, <4>1
      <4>3. f.n = v.n + 1 /\ w = [v EXCEPT !.n = f.n]
        BY <1>4, <2>1, <2>3, <3>3, <4>2 DEF Follows
      <4>4. w = [open |-> TRUE, ro |-> channel'[s].ro, n |-> Len(got'[s])]
        BY <2>1, <3>2, <4>1, <4>2, <4>3
      <4>5. Matches(s, w)'
        BY <1>2, <2>1, <2>3, <4>4 DEF Matches, Opens, Feeds
      <4>6. QED
        BY <4>2, <4>3, <4>5
    <3>4. InFlight(s)'
      BY <1>6, <3>3
    <3>5. f.n = Len(got[s]) + 1
      <4>1. PICK h \in [0..Len(wire) -> ClientView] :
              Matches(s, h[0]) /\ \A k \in 1..Len(wire) : Follows(s, wire[k], h[k - 1], h[k])
        BY <1>1 DEF InFlight
      <4>2. Len(wire) \in Nat \ {0} /\ f = wire[1]
        BY <1>1, <1>2, <1>3 DEF MuxTypes
      <4>3. 1 \in 1..Len(wire) /\ 0 \in 0..Len(wire) /\ 1 \in 0..Len(wire) /\ 1 - 1 = 0
        BY <4>2
      <4>4. Follows(s, wire[1], h[1 - 1], h[1])
        BY <4>1, <4>3
      <4>5. Follows(s, f, h[0], h[1]) /\ h[0] \in ClientView /\ h[1] \in ClientView
        BY <4>1, <4>2, <4>3, <4>4
      <4>6. QED
        BY <3>3, <4>1, <4>5
    <3>6. Numbered(s)'
      <4>1. SUFFICES ASSUME NEW i \in 1..Len(got'[s]) PROVE got'[s][i] = i
        BY DEF Numbered
      <4>2. i \in 1..Len(got[s]) \/ i = Len(got[s]) + 1
        BY <3>2
      <4>3. QED
        BY <1>1, <3>2, <3>5, <4>2 DEF Numbered
    <3>7. QED
      BY <3>4, <3>6
  <2>4. QED
    BY <2>2, <2>3
<1>8. CASE HandleResize \/ HandleNothing
  <2>1. /\ channel' = channel /\ got' = got /\ loop' = loop /\ opening' = opening
        /\ f.t = "resize" \/ (f.t = "input" /\ (channel[q] = NoChannel \/ channel[q].ro))
    BY <1>3, <1>4, <1>8 DEF HandleResize, HandleNothing, Arrives, Writable
  <2>2. ASSUME NEW v \in ClientView, NEW w \in ClientView, Matches(s, v), Follows(s, f, v, w) PROVE Matches(s, w)'
    <3>1. CASE channel[s] = NoChannel
      BY <1>2, <2>1, <2>2, <3>1 DEF Matches, Opens, Feeds
    <3>2. CASE channel[s] # NoChannel
      <4>1. v = [open |-> TRUE, ro |-> channel[s].ro, n |-> Len(got[s])]
        BY <2>2, <3>2 DEF Matches, Feeds
      <4>2. w = v
        BY <1>4, <2>1, <2>2, <3>2, <4>1 DEF Follows
      <4>3. QED
        BY <2>1, <2>2, <4>2 DEF Matches, Opens, Feeds
    <3>3. QED
      BY <3>1, <3>2
  <2>3. QED
    BY <1>1, <1>6, <2>1, <2>2 DEF Numbered
<1>9. CASE HandleMode
  <2>1. /\ f.t = "mode" /\ got' = got /\ loop' = loop /\ opening' = opening
        /\ channel' = IF channel[q] = NoChannel THEN channel ELSE [channel EXCEPT ![q].ro = f.ro]
    BY <1>3, <1>4, <1>9 DEF HandleMode, Arrives
  <2>2. ASSUME NEW v \in ClientView, NEW w \in ClientView, Matches(s, v), Follows(s, f, v, w) PROVE Matches(s, w)'
    <3>1. CASE channel[s] = NoChannel
      <4>1. channel'[s] = NoChannel
        BY <1>5, <2>1, <3>1
      <4>2. QED
        BY <1>2, <2>1, <2>2, <3>1, <4>1 DEF Matches, Opens, Feeds
    <3>2. CASE channel[s] # NoChannel /\ s # q
      <4>1. w = v /\ channel'[s] = channel[s]
        BY <1>4, <1>5, <2>1, <2>2, <3>2 DEF Follows
      <4>2. QED
        BY <2>1, <2>2, <4>1 DEF Matches, Opens, Feeds
    <3>3. CASE channel[s] # NoChannel /\ s = q
      <4>1. v = [open |-> TRUE, ro |-> channel[s].ro, n |-> Len(got[s])] /\ w = [v EXCEPT !.ro = f.ro]
        BY <1>4, <2>1, <2>2, <3>3 DEF Matches, Feeds, Follows
      <4>2. channel'[s] = [channel[s] EXCEPT !.ro = f.ro]
        BY <1>5, <2>1, <3>3
      <4>3. channel'[s].ro = f.ro /\ channel'[s] # NoChannel
        <5>1. channel[s] \in [shell : MuxShell, ro : BOOLEAN]
          BY <1>5, <3>3 DEF Channel
        <5>2. channel'[s] = [shell |-> channel[s].shell, ro |-> f.ro]
          BY <4>2, <5>1
        <5>3. channel[s].shell # 0
          BY <5>1 DEF MuxShell
        <5>4. QED
          BY <5>2, <5>3 DEF NoChannel
      <4>4. w = [open |-> TRUE, ro |-> channel'[s].ro, n |-> Len(got'[s])]
        BY <2>1, <4>1, <4>3
      <4>5. QED
        BY <1>2, <2>1, <4>3, <4>4 DEF Matches, Opens, Feeds
    <3>4. QED
      BY <3>1, <3>2, <3>3
  <2>3. QED
    BY <1>1, <1>6, <2>1, <2>2 DEF Numbered
<1>10. CASE HandleClose \/ HandleOpen
  <2>1. /\ channel' = [channel EXCEPT ![q] = NoChannel] /\ got' = [got EXCEPT ![q] = <<>>]
        /\ \/ f.t = "close" /\ loop' = loop
           \/ /\ f.t = "open"
              /\ loop' = loop \/ \E g : opening' = [slot |-> q, shell |-> g, ro |-> f.ro]
    BY <1>3, <1>4, <1>10 DEF HandleClose, HandleOpen, Arrives, AttachesTo
  <2>2. CASE s # q
    <3>1. channel'[s] = channel[s] /\ got'[s] = got[s]
      BY <1>1, <1>5, <2>1, <2>2
    <3>2. loop' = "send" => opening'.slot # s
      BY <1>2, <2>1, <2>2
    <3>3. \A v \in ClientView, w \in ClientView : Matches(s, v) /\ Follows(s, f, v, w) => Matches(s, w)'
      BY <1>4, <2>2, <3>1, <3>2 DEF Follows, Matches, Opens, Feeds
    <3>4. QED
      BY <1>1, <1>6, <3>1, <3>3 DEF Numbered
  <2>3. CASE s = q
    <3>1. channel'[s] = NoChannel /\ got'[s] = <<>>
      BY <1>1, <1>5, <2>1, <2>3
    <3>2. \A v \in ClientView, w \in ClientView : Follows(s, f, v, w) => Matches(s, w)'
      <4>1. SUFFICES ASSUME NEW v \in ClientView, NEW w \in ClientView, Follows(s, f, v, w) PROVE Matches(s, w)'
        OBVIOUS
      <4>2. loop' = "send" => w = [open |-> TRUE, ro |-> opening'.ro, n |-> 0]
        BY <1>2, <1>4, <2>1, <2>3, <4>1 DEF Follows
      <4>3. QED
        BY <3>1, <4>2 DEF Matches, Opens, Feeds
    <3>3. Len(got'[s]) = 0
      BY <3>1
    <3>4. QED
      BY <1>6, <3>2, <3>3 DEF Numbered
  <2>4. QED
    BY <2>2, <2>3
<1>11. QED
  BY <1>7, <1>8, <1>9, <1>10

\* The rest of the loop, the session and the shells leave each slot alone.
LEMMA MuxRest ==
  ASSUME MuxInv, NEW s \in MuxSlot,
         \/ UNCHANGED muxVars \/ SessionGoes \/ WsFinds \/ WsSubscribes \/ OpenDone \/ \E q \in MuxSlot : SlotReset(q)
         \/ \E g \in MuxShell : TakesCommand(g) \/ MuxShellEnds(g)
  PROVE  InFlight(s)' /\ Numbered(s)'
<1>1. MuxTypes /\ InFlight(s) /\ Numbered(s) /\ Len(wire) \in Nat
  BY DEF MuxInv, MuxTypes
<1>2. wire' = wire /\ view' = view /\ got' = got
  BY DEF muxVars, SessionGoes, WsFinds, WsSubscribes, OpenDone, SlotReset, TakesCommand, MuxShellEnds, KeptByShells
<1>3. \A v \in ClientView : Matches(s, v) => Matches(s, v)'
  <2>1. CASE UNCHANGED <<loop, opening, channel>>
    BY <1>2, <2>1 DEF Matches, Opens, Feeds
  <2>2. CASE WsSubscribes
    BY <1>2, <2>2 DEF WsSubscribes, Matches, Opens, Feeds
  <2>3. CASE OpenDone
    <3>1. /\ loop = "send" /\ loop' = "turn" /\ channel \in [MuxSlot -> Channel]
          /\ opening \in [slot : MuxSlot, shell : MuxShell, ro : BOOLEAN]
          /\ channel' = [channel EXCEPT ![opening.slot] = [shell |-> opening.shell, ro |-> opening.ro]]
      BY <1>1, <2>3 DEF OpenDone, MuxTypes
    <3>2. CASE s # opening.slot
      BY <1>2, <3>1, <3>2 DEF Matches, Opens, Feeds
    <3>3. CASE s = opening.slot
      <4>1. channel'[s].ro = opening.ro /\ channel'[s].shell = opening.shell
        BY <3>1, <3>3
      <4>2. channel'[s] # NoChannel
        BY <3>1, <4>1 DEF NoChannel, MuxShell
      <4>3. SUFFICES ASSUME NEW v \in ClientView, Matches(s, v) PROVE Matches(s, v)'
        OBVIOUS
      <4>4. v = [open |-> TRUE, ro |-> opening.ro, n |-> 0] /\ got[s] = <<>>
        BY <3>1, <3>3, <4>3 DEF Matches, Opens
      <4>5. v = [open |-> TRUE, ro |-> channel'[s].ro, n |-> Len(got'[s])]
        BY <1>2, <4>1, <4>4
      <4>6. QED
        BY <3>1, <4>2, <4>5 DEF Matches, Opens, Feeds
    <3>4. QED
      BY <3>2, <3>3
  <2>4. QED
    BY <2>1, <2>2, <2>3 DEF muxVars, SessionGoes, WsFinds, SlotReset, TakesCommand, MuxShellEnds, KeptByShells
<1>4. InFlight(s)'
  BY <1>1, <1>2, <1>3, MuxStays
<1>5. QED
  BY <1>1, <1>2, <1>4 DEF Numbered

\* The invariant holds of a server that nobody is connected to ...
LEMMA MuxIndInit == MuxInit => MuxInv
<1> SUFFICES ASSUME MuxInit PROVE MuxInv
  OBVIOUS
<1>1. Unopened \in ClientView /\ NoChannel \in Channel
  BY DEF Unopened, ClientView, Channel
<1>2. MuxTypes
  BY <1>1 DEF MuxInit, MuxTypes
<1>3. ASSUME NEW s \in MuxSlot PROVE InFlight(s) /\ Numbered(s)
  <2>1. PICK h : h = [k \in 0..0 |-> Unopened]
    OBVIOUS
  <2>2. /\ wire = <<>> /\ view[s] = Unopened /\ channel[s] = NoChannel /\ got[s] = <<>> /\ loop = "off"
        /\ Len(wire) = 0 /\ Len(got[s]) = 0
    BY DEF MuxInit
  <2>3. h \in [0..0 -> ClientView] /\ h[0] = Unopened
    BY <1>1, <2>1
  <2>4. Matches(s, h[0])
    BY <2>2 DEF Matches, Opens, Feeds
  <2>5. QED
    BY <2>2, <2>3, <2>4 DEF InFlight, Numbered
<1>4. QED
  BY <1>2, <1>3 DEF MuxInv, MuxInit

\* ... and is kept by every step.
LEMMA MuxIndStep == MuxInv /\ [MuxNext]_muxVars => MuxInv'
<1> SUFFICES ASSUME MuxInv, [MuxNext]_muxVars PROVE MuxInv'
  OBVIOUS
<1>1. MuxTypes'
  BY MuxTyped DEF MuxInv
<1>2. ASSUME NEW s \in MuxSlot PROVE InFlight(s)' /\ Numbered(s)'
  <2>1. CASE EndsRevoked \/ EndsOtherwise \/ Overload
    BY <2>1, MuxEnds DEF EndsRevoked, EndsOtherwise, Overload
  <2>2. CASE HandleInput \/ HandleResize \/ HandleNothing \/ HandleMode \/ HandleClose \/ HandleOpen
    BY <2>2, MuxHandles
  <2>3. CASE \/ UNCHANGED muxVars \/ SessionGoes \/ WsFinds \/ WsSubscribes \/ OpenDone \/ \E q \in MuxSlot : SlotReset(q)
             \/ \E g \in MuxShell : TakesCommand(g) \/ MuxShellEnds(g)
    BY <2>3, MuxRest
  <2>4. ASSUME NEW q \in MuxSlot, NEW ro \in BOOLEAN,
               ClientCloses(q) \/ ClientTypes(q) \/ ClientResizes(q) \/ ClientOpens(q, ro) \/ ClientSwitches(q, ro)
        PROVE  InFlight(s)' /\ Numbered(s)'
    BY <1>1, <2>4, MuxSends
  <2>5. TRUE \in BOOLEAN
    OBVIOUS
  <2>6. QED
    BY <2>1, <2>2, <2>3, <2>4, <2>5 DEF MuxNext
<1>3. (handler => loop = "off")'
  <2>1. handler => loop = "off"
    BY DEF MuxInv
  <2>2. CASE UNCHANGED muxVars \/ SessionGoes \/ WsFinds \/ WsSubscribes \/ OpenDone
    BY <2>1, <2>2 DEF muxVars, SessionGoes, WsFinds, WsSubscribes, OpenDone
  <2>3. CASE EndsRevoked \/ EndsOtherwise \/ Overload
    BY <2>3 DEF EndsRevoked, EndsOtherwise, Overload, ConnEnds
  <2>4. CASE HandleInput \/ HandleResize \/ HandleNothing \/ HandleMode \/ HandleClose \/ HandleOpen
    BY <2>1, <2>4 DEF HandleInput, HandleResize, HandleNothing, HandleMode, HandleClose, HandleOpen, Arrives, Handled
  <2>5. CASE \E s \in MuxSlot : \/ ClientCloses(s) \/ ClientTypes(s) \/ ClientResizes(s) \/ SlotReset(s)
                                \/ \E ro \in BOOLEAN : ClientOpens(s, ro) \/ ClientSwitches(s, ro)
    BY <2>1, <2>5 DEF ClientCloses, ClientTypes, ClientResizes, ClientOpens, ClientSwitches, Sends, SlotReset, KeptByShells
  <2>6. CASE \E g \in MuxShell : TakesCommand(g) \/ MuxShellEnds(g)
    BY <2>1, <2>6 DEF TakesCommand, MuxShellEnds, KeptByShells
  <2>7. QED
    BY <2>2, <2>3, <2>4, <2>5, <2>6 DEF MuxNext
<1>4. QED
  BY <1>1, <1>2, <1>3 DEF MuxInv

\* The inductive invariant holds of every reachable state.
LEMMA MuxIndHolds == MuxSpec => []MuxInv
  BY MuxIndInit, MuxIndStep, PTL DEF MuxSpec

\* The shell gets the keys of an attachment from the first on, without a gap
\* and without one typed in read-only mode, for any number of slots and frames
\* and any capacity of the queues: a key that finds no room ends the
\* connection, and an attachment starts where the client's opening starts.
THEOREM InputUnbrokenHolds == MuxSpec => []InputUnbroken
<1>1. MuxInv => InputUnbroken
  BY DEF MuxInv, Numbered, InputUnbroken
<1>2. QED
  BY <1>1, MuxIndHolds, PTL

\* The bridge is told of a session that has gone, because ws_handler() has let
\* go of its own clone by the time the loop runs.
THEOREM RevocationSeenHolds == MuxSpec => []RevocationSeen
<1>1. MuxInv => RevocationSeen
  BY DEF MuxInv, RevocationSeen, Revoked
<1>2. QED
  BY <1>1, MuxIndHolds, PTL

----------------------------------------------------------------------------
(* LoginGuard: an attempt that holds its bucket does so alone, so that the  *)
(* failures of the bucket stand still while it sleeps their delay out.      *)

AttemptRec == [at : {"idle", "queued", "asleep", "in"}, bucket : Bucket \cup {NoBucket}, wake : Nat]

\* Attempts and what is counted are what they look like.
GuardTypes ==
  /\ guardNow \in Nat
  /\ attempt \in [Attempt -> AttemptRec]
  /\ \A a \in Attempt : attempt[a].at # "idle" => attempt[a].bucket \in Bucket
  /\ recent \in [Bucket -> [count : Nat, last : Nat]]
  /\ \A b \in Bucket : recent[b].last <= guardNow
  /\ strikes = [b \in Bucket |-> strikes[b]] /\ \A b \in Bucket : strikes[b].count \in Nat

Holds(a) == attempt[a].at \in {"asleep", "in"}
TakeTurns == \A a, c \in Attempt : Holds(a) /\ Holds(c) /\ attempt[c].bucket = attempt[a].bucket => c = a

\* It will wake, or has woken, when the delay is over.
SleptOut(a) ==
  LET r == recent[attempt[a].bucket]
  IN /\ attempt[a].at = "asleep" => attempt[a].wake - r.last >= TarpitDelay(r.count)
     /\ attempt[a].at = "in" => guardNow - r.last >= TarpitDelay(r.count)

GuardInv == GuardTypes /\ TakeTurns /\ \A a \in Attempt : SleptOut(a)

\* No delay is longer than the decay of what earned it.
LEMMA DelayBounded == \A n \in Nat : TarpitDelay(n) \in Nat /\ TarpitDelay(n) <= GuardDecay
<1> SUFFICES ASSUME NEW n \in Nat PROVE TarpitDelay(n) \in Nat /\ TarpitDelay(n) <= GuardDecay
  OBVIOUS
<1>1. n * GuardDelay \in Nat /\ GuardDelayMax \in Nat /\ GuardDecay \in Nat /\ GuardDelayMax <= GuardDecay
  BY GuardAssumption
<1>2. QED
  BY <1>1 DEF TarpitDelay, LowerOf

\* An attempt is let in to sleep: it sleeps long enough.
LEMMA GuardTurns == ASSUME GuardInv, NEW a \in Attempt, GuardTurn(a) PROVE GuardInv'
<1>1. PICK b : b = attempt[a].bucket
  OBVIOUS
<1>2. /\ b \in Bucket /\ attempt[a].at = "queued" /\ Holding(b) = {}
      /\ attempt' = [attempt EXCEPT ![a].at = "asleep", ![a].wake = guardNow + TarpitDelay(RecentFailures(b))]
      /\ guardNow' = guardNow /\ recent' = recent /\ strikes' = strikes
  BY <1>1 DEF GuardTurn, GuardInv, GuardTypes
<1>3. recent[b] \in [count : Nat, last : Nat] /\ recent[b].last <= guardNow /\ guardNow \in Nat
  BY <1>2 DEF GuardInv, GuardTypes
<1>4. PICK n \in Nat : n = RecentFailures(b) /\ (n = recent[b].count \/ guardNow - recent[b].last > GuardDecay)
  BY <1>3 DEF RecentFailures
<1>5. PICK w \in Nat : w = guardNow + TarpitDelay(n)
  BY <1>3, DelayBounded
<1>6. attempt \in [Attempt -> AttemptRec] /\ attempt[a] \in AttemptRec
  BY DEF GuardInv, GuardTypes
<1>7. attempt'[a] = [at |-> "asleep", bucket |-> b, wake |-> w] /\ \A c \in Attempt : c # a => attempt'[c] = attempt[c]
  <2>1. attempt' = [attempt EXCEPT ![a].at = "asleep", ![a].wake = w]
    BY <1>2, <1>4, <1>5
  <2>2. attempt'[a] = [[attempt[a] EXCEPT !.at = "asleep"] EXCEPT !.wake = w]
    BY <1>6, <2>1
  <2>3. attempt'[a] = [at |-> "asleep", bucket |-> b, wake |-> w]
    BY <1>1, <1>6, <2>2 DEF AttemptRec
  <2>4. QED
    BY <1>6, <2>1, <2>3
<1>8. attempt' \in [Attempt -> AttemptRec]
  <2>1. [at |-> "asleep", bucket |-> b, wake |-> w] \in AttemptRec
    BY <1>2 DEF AttemptRec
  <2>2. attempt' = [c \in Attempt |-> attempt'[c]]
    BY <1>2, <1>6
  <2>3. QED
    BY <1>6, <1>7, <2>1, <2>2
<1>9. GuardTypes'
  <2>1. \A c \in Attempt : attempt'[c].at # "idle" => attempt'[c].bucket \in Bucket
    BY <1>2, <1>7 DEF GuardInv, GuardTypes
  <2>2. QED
    BY <1>2, <1>8, <2>1 DEF GuardInv, GuardTypes
<1>10. TakeTurns'
  <2>1. /\ attempt'[a].at = "asleep" /\ attempt'[a].bucket = b
        /\ \A c \in Attempt : ~(Holds(c) /\ attempt[c].bucket = b)
        /\ \A c \in Attempt : c # a => attempt'[c] = attempt[c]
    <3>1. Holding(b) = {}
      BY <1>2
    <3>2. \A c \in Attempt : ~(Holds(c) /\ attempt[c].bucket = b)
      BY <3>1 DEF Holding, Holds
    <3>3. attempt'[a].at = "asleep" /\ attempt'[a].bucket = b
      BY <1>7
    <3>4. QED
      BY <1>7, <3>2, <3>3
  <2>2. SUFFICES ASSUME NEW d \in Attempt, NEW c \in Attempt, Holds(d)', Holds(c)', attempt'[c].bucket = attempt'[d].bucket
                 PROVE  c = d
    BY DEF TakeTurns
  <2>3. CASE d = a \/ c = a
    BY <2>1, <2>2, <2>3 DEF Holds
  <2>4. CASE d # a /\ c # a
    BY <2>1, <2>2, <2>4 DEF GuardInv, TakeTurns, Holds
  <2>5. QED
    BY <2>3, <2>4
<1>11. w - recent[b].last >= TarpitDelay(recent[b].count)
  <2>1. PICK l \in Nat, m \in Nat : l = recent[b].last /\ m = recent[b].count
    BY <1>3
  <2>2. /\ TarpitDelay(n) \in Nat /\ TarpitDelay(m) \in Nat /\ TarpitDelay(m) <= GuardDecay /\ GuardDecay \in Nat
        /\ l <= guardNow /\ guardNow \in Nat /\ w = guardNow + TarpitDelay(n)
    BY <1>3, <1>5, <2>1, DelayBounded, GuardAssumption
  <2>3. CASE n = m
    BY <2>1, <2>2, <2>3
  <2>4. CASE guardNow - l > GuardDecay
    BY <2>1, <2>2, <2>4
  <2>5. QED
    BY <1>4, <2>1, <2>3, <2>4
<1>12. \A c \in Attempt : SleptOut(c)'
  <2>1. SleptOut(a)'
    <3>1. attempt'[a].at = "asleep" /\ attempt'[a].bucket = b /\ attempt'[a].wake = w /\ recent'[b] = recent[b]
      <4>1. attempt'[a].at = "asleep" /\ attempt'[a].bucket = b /\ attempt'[a].wake = w
        BY <1>7
      <4>2. QED
        BY <1>2, <4>1
    <3>2. QED
      BY <1>11, <3>1 DEF SleptOut
  <2>2. ASSUME NEW c \in Attempt, c # a PROVE SleptOut(c)'
    BY <1>2, <1>7, <2>2 DEF GuardInv, SleptOut
  <2>3. QED
    BY <2>1, <2>2
<1>13. QED
  BY <1>9, <1>10, <1>12 DEF GuardInv

\* An attempt is judged or gives up: its bucket is free, and only its bucket's
\* counts have changed.
LEMMA GuardFrees ==
  ASSUME GuardInv, NEW a \in Attempt, attempt' = [attempt EXCEPT ![a] = Idle], guardNow' = guardNow,
         \/ recent' = recent
         \/ Holds(a) /\ (CountFailure(attempt[a].bucket) \/ ClearFailures(attempt[a].bucket)),
         strikes' = [b \in Bucket |-> strikes'[b]], \A b \in Bucket : strikes'[b].count \in Nat
  PROVE  GuardInv'
<1>1. attempt'[a] = Idle /\ Idle.at = "idle" /\ \A c \in Attempt : c # a => attempt'[c] = attempt[c]
  BY DEF GuardInv, GuardTypes, Idle
<1>2. attempt' \in [Attempt -> AttemptRec]
  BY DEF GuardInv, GuardTypes, AttemptRec, Idle
<1>3. PICK b : b = attempt[a].bucket
  OBVIOUS
<1>4. /\ recent' \in [Bucket -> [count : Nat, last : Nat]] /\ \A d \in Bucket : recent'[d].last <= guardNow
      /\ \A d \in Bucket : d # b \/ ~Holds(a) => recent'[d] = recent[d]
  <2>1. CASE recent' = recent
    BY <2>1 DEF GuardInv, GuardTypes
  <2>2. CASE Holds(a) /\ (CountFailure(b) \/ ClearFailures(b))
    <3>1. b \in Bucket /\ guardNow \in Nat /\ recent \in [Bucket -> [count : Nat, last : Nat]]
      BY <1>3, <2>2 DEF GuardInv, GuardTypes, Holds
    <3>2. RecentFailures(b) + 1 \in Nat
      BY <3>1 DEF RecentFailures
    <3>3. PICK n \in Nat : recent' = [recent EXCEPT ![b] = [count |-> n, last |-> guardNow]]
      BY <2>2, <3>2 DEF CountFailure, ClearFailures
    <3>4. QED
      BY <2>2, <3>1, <3>3 DEF GuardInv, GuardTypes
  <2>3. QED
    BY <1>3, <2>1, <2>2
<1>5. GuardTypes'
  BY <1>1, <1>2, <1>4 DEF GuardInv, GuardTypes
<1>6. TakeTurns'
  BY <1>1 DEF GuardInv, TakeTurns, Holds
<1>7. ASSUME NEW c \in Attempt PROVE SleptOut(c)'
  <2>1. CASE c = a
    BY <1>1, <2>1 DEF SleptOut
  <2>2. CASE c # a /\ ~Holds(c)
    BY <1>1, <2>2 DEF SleptOut, Holds
  <2>3. CASE c # a /\ Holds(c)
    <3>1. attempt[c].bucket \in Bucket /\ (attempt[c].bucket # b \/ ~Holds(a))
      BY <1>3, <2>3 DEF GuardInv, GuardTypes, TakeTurns, Holds
    <3>2. recent'[attempt[c].bucket] = recent[attempt[c].bucket]
      BY <1>4, <3>1
    <3>3. QED
      BY <1>1, <2>3, <3>2 DEF GuardInv, SleptOut
  <2>4. QED
    BY <2>1, <2>2, <2>3
<1>8. QED
  BY <1>5, <1>6, <1>7 DEF GuardInv

\* A wrong code makes the run one longer, or starts it anew.
LEMMA RunCounted ==
  ASSUME GuardTypes, NEW b \in Bucket, MfaFailed(b)
  PROVE  /\ strikes' = [d \in Bucket |-> strikes'[d]] /\ \A d \in Bucket : strikes'[d].count \in Nat
         /\ \A d \in Bucket : d # b => strikes'[d] = strikes[d]
         /\ strikes'[b].count = RunSoFar(strikes[b]) + 1
<1> DEFINE n == RunSoFar(strikes[b]) + 1
           until == IF n % GuardStrikes = 0 THEN guardNow + LockOf(n \div GuardStrikes - 1) ELSE strikes[b].until
           r == [count |-> n, last |-> guardNow, until |-> until]
<1>1. strikes' = [strikes EXCEPT ![b] = r] /\ r.count = RunSoFar(strikes[b]) + 1
  BY DEF MfaFailed
<1> HIDE DEF r
<1>2. RunSoFar(strikes[b]) \in Nat
  BY DEF RunSoFar, GuardTypes
<1>3. strikes = [d \in Bucket |-> strikes[d]] /\ \A d \in Bucket : strikes[d].count \in Nat
  BY DEF GuardTypes
<1>4. strikes' = [d \in Bucket |-> IF d = b THEN r ELSE strikes[d]]
  BY <1>1, <1>3
<1>5. QED
  BY <1>1, <1>2, <1>3, <1>4

\* Nobody has tried yet.
LEMMA GuardIndInit == GuardInit => GuardInv
<1> SUFFICES ASSUME GuardInit PROVE GuardInv
  OBVIOUS
<1>1. Idle \in AttemptRec /\ Idle.at = "idle" /\ NoRun.count = 0
  BY DEF Idle, AttemptRec, NoRun
<1>2. GuardTypes
  BY <1>1 DEF GuardInit, GuardTypes
<1>3. TakeTurns /\ \A a \in Attempt : SleptOut(a)
  BY <1>1 DEF GuardInit, TakeTurns, Holds, SleptOut
<1>4. QED
  BY <1>2, <1>3 DEF GuardInv

\* Every step keeps the invariant.
LEMMA GuardIndStep == GuardInv /\ [GuardNext]_guardVars => GuardInv'
<1> SUFFICES ASSUME GuardInv, [GuardNext]_guardVars PROVE GuardInv'
  OBVIOUS
<1>1. GuardTypes /\ TakeTurns /\ \A a \in Attempt : SleptOut(a)
  BY DEF GuardInv
<1>2. CASE UNCHANGED guardVars
  BY <1>1, <1>2 DEF guardVars, GuardInv, GuardTypes, TakeTurns, Holds, SleptOut, RecentFailures
<1>3. CASE GuardTick
  <2>1. guardNow' = guardNow + 1 /\ attempt' = attempt /\ recent' = recent /\ strikes' = strikes
    BY <1>3 DEF GuardTick
  <2>2. guardNow \in Nat /\ guardNow' \in Nat /\ \A b \in Bucket : recent[b].last \in Nat /\ recent[b].last <= guardNow
    BY <1>1, <2>1 DEF GuardTypes
  <2>3. GuardTypes'
    BY <1>1, <2>1, <2>2 DEF GuardTypes
  <2>4. TakeTurns'
    BY <1>1, <2>1 DEF TakeTurns, Holds
  <2>5. ASSUME NEW a \in Attempt PROVE SleptOut(a)'
    <3>1. CASE attempt[a].at = "in"
      <4>1. PICK l \in Nat, k \in Nat : l = recent[attempt[a].bucket].last /\ k = recent[attempt[a].bucket].count
        BY <1>1, <3>1 DEF GuardTypes
      <4>2. guardNow - l >= TarpitDelay(k) /\ TarpitDelay(k) \in Nat
        BY <1>1, <3>1, <4>1, DelayBounded DEF SleptOut
      <4>3. guardNow' - l >= TarpitDelay(k)
        BY <2>1, <2>2, <4>2
      <4>4. QED
        BY <2>1, <3>1, <4>1, <4>3 DEF SleptOut
    <3>2. CASE attempt[a].at # "in"
      BY <1>1, <2>1, <3>2 DEF SleptOut
    <3>3. QED
      BY <3>1, <3>2
  <2>6. QED
    BY <2>3, <2>4, <2>5 DEF GuardInv
<1>4. ASSUME NEW a \in Attempt, NEW b \in Bucket, GuardEnter(a, b) PROVE GuardInv'
  <2>1. /\ attempt' = [attempt EXCEPT ![a] = [at |-> "queued", bucket |-> b, wake |-> 0]]
        /\ guardNow' = guardNow /\ recent' = recent /\ strikes' = strikes
    BY <1>4 DEF GuardEnter
  <2>2. [at |-> "queued", bucket |-> b, wake |-> 0] \in AttemptRec /\ attempt \in [Attempt -> AttemptRec]
    BY <1>1 DEF AttemptRec, GuardTypes
  <2>3. /\ attempt' \in [Attempt -> AttemptRec] /\ attempt'[a].at = "queued" /\ attempt'[a].bucket = b
        /\ \A c \in Attempt : c # a => attempt'[c] = attempt[c]
    BY <2>1, <2>2
  <2>4. GuardTypes'
    BY <1>1, <2>1, <2>3 DEF GuardTypes
  <2>5. TakeTurns'
    BY <1>1, <2>3 DEF TakeTurns, Holds
  <2>6. \A c \in Attempt : SleptOut(c)'
    BY <1>1, <2>1, <2>3 DEF SleptOut
  <2>7. QED
    BY <2>4, <2>5, <2>6 DEF GuardInv
<1>5. ASSUME NEW a \in Attempt, GuardTurn(a) PROVE GuardInv'
  BY <1>5, GuardTurns
<1>6. ASSUME NEW a \in Attempt, GuardWake(a) PROVE GuardInv'
  <2>1. /\ attempt[a].at = "asleep" /\ guardNow >= attempt[a].wake
        /\ attempt' = [attempt EXCEPT ![a].at = "in"] /\ guardNow' = guardNow /\ recent' = recent /\ strikes' = strikes
    BY <1>6 DEF GuardWake
  <2>2. attempt \in [Attempt -> AttemptRec] /\ attempt' \in [Attempt -> AttemptRec]
    BY <1>1, <2>1 DEF GuardTypes, AttemptRec
  <2>3. /\ attempt'[a].at = "in" /\ attempt'[a].bucket = attempt[a].bucket
        /\ \A c \in Attempt : c # a => attempt'[c] = attempt[c]
    BY <2>1, <2>2 DEF AttemptRec
  <2>4. GuardTypes'
    BY <1>1, <2>1, <2>2, <2>3 DEF GuardTypes
  <2>5. TakeTurns'
    BY <1>1, <2>1, <2>3 DEF TakeTurns, Holds
  <2>6. PICK l \in Nat, k \in Nat, w \in Nat :
          /\ l = recent[attempt[a].bucket].last /\ k = recent[attempt[a].bucket].count /\ w = attempt[a].wake
    BY <1>1, <2>1, <2>2 DEF GuardTypes, AttemptRec
  <2>7. guardNow \in Nat /\ guardNow >= w /\ w - l >= TarpitDelay(k) /\ TarpitDelay(k) \in Nat
    BY <1>1, <2>1, <2>6, DelayBounded DEF GuardTypes, SleptOut
  <2>8. guardNow - l >= TarpitDelay(k)
    BY <2>7
  <2>9. SleptOut(a)'
    BY <2>1, <2>3, <2>6, <2>8 DEF SleptOut
  <2>10. \A c \in Attempt : c # a => SleptOut(c)'
    BY <1>1, <2>1, <2>3 DEF SleptOut
  <2>11. QED
    BY <2>4, <2>5, <2>9, <2>10 DEF GuardInv
<1>7. ASSUME NEW a \in Attempt, GuardAbandon(a) \/ GuardDrop(a) \/ GuardFailed(a) \/ GuardLockedOut(a) PROVE GuardInv'
  <2>1. /\ attempt' = [attempt EXCEPT ![a] = Idle] /\ guardNow' = guardNow /\ strikes' = strikes
        /\ recent' = recent \/ (Holds(a) /\ CountFailure(attempt[a].bucket))
    BY <1>7 DEF GuardAbandon, GuardDrop, GuardFailed, GuardLockedOut, GuardFree, Holds
  <2>2. strikes' = [b \in Bucket |-> strikes'[b]] /\ \A b \in Bucket : strikes'[b].count \in Nat
    BY <1>1, <2>1 DEF GuardTypes
  <2>3. QED
    BY <2>1, <2>2, GuardFrees
<1>8. ASSUME NEW a \in Attempt, GuardSucceeded(a) PROVE GuardInv'
  <2>1. /\ attempt' = [attempt EXCEPT ![a] = Idle] /\ guardNow' = guardNow /\ Holds(a)
        /\ ClearFailures(attempt[a].bucket) /\ strikes' = [strikes EXCEPT ![attempt[a].bucket] = NoRun]
    BY <1>8 DEF GuardSucceeded, GuardFree, Holds
  <2>2. strikes' = [b \in Bucket |-> strikes'[b]] /\ \A b \in Bucket : strikes'[b].count \in Nat
    <3>1. strikes = [b \in Bucket |-> strikes[b]] /\ (\A b \in Bucket : strikes[b].count \in Nat) /\ NoRun.count \in Nat
      BY <1>1 DEF GuardTypes, NoRun
    <3>2. strikes' = [b \in Bucket |-> IF b = attempt[a].bucket THEN NoRun ELSE strikes[b]]
      BY <2>1, <3>1
    <3>3. QED
      BY <3>1, <3>2
  <2>3. QED
    BY <2>1, <2>2, GuardFrees
<1>9. ASSUME NEW a \in Attempt, GuardWrong(a) PROVE GuardInv'
  <2>1. /\ attempt' = [attempt EXCEPT ![a] = Idle] /\ guardNow' = guardNow /\ Holds(a)
        /\ CountFailure(attempt[a].bucket) /\ MfaFailed(attempt[a].bucket)
    BY <1>9 DEF GuardWrong, GuardFree, Holds
  <2>2. PICK b \in Bucket : b = attempt[a].bucket
    BY <1>1, <2>1 DEF GuardTypes, Holds
  <2>3. strikes' = [d \in Bucket |-> strikes'[d]] /\ \A d \in Bucket : strikes'[d].count \in Nat
    BY <1>1, <2>1, <2>2, RunCounted
  <2>4. QED
    BY <2>1, <2>3, GuardFrees
<1>10. QED
  BY <1>2, <1>3, <1>4, <1>5, <1>6, <1>7, <1>8, <1>9 DEF GuardNext

\* The inductive invariant holds of every reachable state.
LEMMA GuardIndHolds == GuardSpec => []GuardInv
  BY GuardIndInit, GuardIndStep, PTL DEF GuardSpec

\* What a run of wrong codes has waited for: after k rounds of them the next
\* was judged when all k locks had ended, and the lock of now ends no sooner.
RunInv ==
  \A b \in Bucket :
    /\ strikes[b].until \in Nat
    /\ \A k \in Nat : strikes[b].count > k * GuardStrikes => strikes[b].last >= LockSum[k]
    /\ \A k \in Nat : k # 0 /\ strikes[b].count >= k * GuardStrikes => strikes[b].until >= LockSum[k]

\* A lock has a length.
LEMMA LockLength == \A n \in Nat : LockOf(n) \in Nat
<1> SUFFICES ASSUME NEW n \in Nat PROVE LockOf(n) \in Nat
  OBVIOUS
<1>1. ASSUME n < 32 PROVE Shifted(n) \in Nat
  <2>1. /\ 2^0 \in Nat /\ 2^1 \in Nat /\ 2^2 \in Nat /\ 2^3 \in Nat /\ 2^4 \in Nat /\ 2^5 \in Nat /\ 2^6 \in Nat /\ 2^7 \in Nat
        /\ 2^8 \in Nat /\ 2^9 \in Nat /\ 2^10 \in Nat /\ 2^11 \in Nat /\ 2^12 \in Nat /\ 2^13 \in Nat /\ 2^14 \in Nat /\ 2^15 \in Nat
        /\ 2^16 \in Nat /\ 2^17 \in Nat /\ 2^18 \in Nat /\ 2^19 \in Nat /\ 2^20 \in Nat /\ 2^21 \in Nat /\ 2^22 \in Nat /\ 2^23 \in Nat
        /\ 2^24 \in Nat /\ 2^25 \in Nat /\ 2^26 \in Nat /\ 2^27 \in Nat /\ 2^28 \in Nat /\ 2^29 \in Nat /\ 2^30 \in Nat /\ 2^31 \in Nat
    BY SMT
  <2>2. \/ n = 0 \/ n = 1 \/ n = 2 \/ n = 3 \/ n = 4 \/ n = 5 \/ n = 6 \/ n = 7 \/ n = 8 \/ n = 9
        \/ n = 10 \/ n = 11 \/ n = 12 \/ n = 13 \/ n = 14 \/ n = 15 \/ n = 16 \/ n = 17 \/ n = 18
        \/ n = 19 \/ n = 20 \/ n = 21 \/ n = 22 \/ n = 23 \/ n = 24 \/ n = 25 \/ n = 26 \/ n = 27
        \/ n = 28 \/ n = 29 \/ n = 30 \/ n = 31
    BY <1>1
  <2>3. 2^n \in Nat
    BY <2>1, <2>2, Zenon
  <2>4. Shifted(n) \in Nat
    BY <1>1, <2>3, Zenon DEF Shifted
  <2>5. QED
    BY <2>4
<1>2. ASSUME ~(n < 32) PROVE Shifted(n) \in Nat
  <2>1. 2^32 - 1 \in Nat
    BY SMT
  <2>2. QED
    BY <1>2, <2>1, Zenon DEF Shifted
<1>3. PICK s \in Nat : s = Shifted(n)
  BY <1>1, <1>2
<1>4. LockBase * s \in Nat /\ LockMax \in Nat
  BY GuardAssumption
<1>5. QED
  BY <1>3, <1>4 DEF LockOf, LowerOf

\* The locks of a run, added up one at a time.
LEMMA LockSumAdds ==
  /\ LockSum[0] = 0
  /\ \A k \in Nat : LockSum[k] \in Nat /\ LockSum[k + 1] = LockSum[k] + LockOf(k)
<1> DEFINE G == [p \in Nat \X Nat |-> p[2] + LockOf(p[1])]
<1>1. G \in [Nat \X Nat -> Nat]
  BY LockLength
<1>2. \A k, n \in Nat : G[<<k, n>>] = n + LockOf(k)
  OBVIOUS
<1> HIDE DEF G
<1>3. PICK f \in [Nat -> Nat] : f[0] = 0 /\ \A n \in Nat : f[n + 1] = G[<<n, f[n]>>]
  <2>1. \E f : Recurs(f, Nat, 0, G)
    BY <1>1, NatRec
  <2>2. QED
    BY <2>1 DEF Recurs
<1>4. \A n \in Nat : f[n + 1] = f[n] + LockOf(n)
  BY <1>2, <1>3
<1>5. f = [k \in Nat |-> IF k = 0 THEN 0 ELSE f[k - 1] + LockOf(k - 1)]
  <2>1. \A k \in Nat : k # 0 => k - 1 \in Nat /\ (k - 1) + 1 = k
    OBVIOUS
  <2>2. \A k \in Nat : f[k] = IF k = 0 THEN 0 ELSE f[k - 1] + LockOf(k - 1)
    BY <1>3, <1>4, <2>1
  <2>3. f = [k \in Nat |-> f[k]]
    BY <1>3
  <2>4. QED
    BY <2>2, <2>3
<1>6. LockSum = [k \in Nat |-> IF k = 0 THEN 0 ELSE LockSum[k - 1] + LockOf(k - 1)]
  BY <1>5 DEF LockSum
<1>7. \A n \in Nat : n \in {k \in Nat : LockSum[k] = f[k]}
  <2> DEFINE Same == {k \in Nat : LockSum[k] = f[k]}
  <2>1. 0 \in Same
    BY <1>3, <1>6
  <2>2. ASSUME NEW n \in Nat, n \in Same PROVE n + 1 \in Same
    <3>1. n + 1 \in Nat /\ n + 1 # 0 /\ (n + 1) - 1 = n
      OBVIOUS
    <3>2. LockSum[n + 1] = LockSum[n] + LockOf(n)
      BY <1>6, <3>1
    <3>3. QED
      BY <1>4, <2>2, <3>1, <3>2
  <2> HIDE DEF Same
  <2>3. \A n \in Nat : n \in Same
    BY <2>1, <2>2, NatInduct
  <2>4. QED
    BY <2>3 DEF Same
<1>8. \A n \in Nat : LockSum[n] = f[n]
  BY <1>7
<1>9. QED
  BY <1>3, <1>4, <1>8

\* Division and multiples.
LEMMA Multiples ==
  ASSUME NEW n \in Nat, NEW s \in Nat \ {0}
  PROVE  /\ n % s = 0 => n \div s \in Nat /\ n = (n \div s) * s
         /\ \A k \in Nat : n = k * s => n % s = 0
<1>1. PICK q \in Int, r \in Nat : q = n \div s /\ r = n % s /\ r < s /\ n = s * q + r
  OBVIOUS
<1>2. n % s = 0 => q \in Nat /\ n = q * s
  <2> SUFFICES ASSUME r = 0 PROVE q \in Nat /\ n = q * s
    BY <1>1
  <2>1. n = s * q /\ s * q = q * s
    BY <1>1
  <2>2. q >= 0
    BY <2>1
  <2>3. QED
    BY <2>1, <2>2
<1>3. ASSUME NEW k \in Nat, n = k * s PROVE n % s = 0
  <2>1. s * (k - q) = r
    BY <1>1, <1>3
  <2>2. PICK d \in Int : d = k - q /\ s * d = r
    BY <2>1
  <2>3. ~(d >= 1)
    <3> SUFFICES ASSUME d >= 1 PROVE s * d >= s
      BY <1>1, <2>2
    <3>1. QED
      OBVIOUS
  <2>4. ~(d <= -1)
    <3> SUFFICES ASSUME d <= -1 PROVE s * d < 0
      BY <1>1, <2>2
    <3>1. QED
      OBVIOUS
  <2>5. d = 0
    BY <2>3, <2>4
  <2>6. r = 0
    BY <2>2, <2>5
  <2>7. QED
    BY <1>1, <2>6
<1>4. QED
  BY <1>1, <1>2, <1>3

\* A wrong code is judged when the lock before it has ended, and the lock it
\* may bring is added to those waited for.
LEMMA RunWaits ==
  ASSUME GuardTypes, RunInv, NEW b \in Bucket, ~MfaLocked(b), MfaFailed(b)
  PROVE  RunInv'
<1>1. PICK s \in Nat \ {0} : s = GuardStrikes
  BY GuardAssumption
<1>2. PICK c \in Nat : c = RunSoFar(strikes[b]) /\ (c = 0 \/ c = strikes[b].count)
  BY DEF RunSoFar, GuardTypes
<1>3. PICK now \in Nat, u \in Nat : now = guardNow /\ u = strikes[b].until /\ now >= u
  BY DEF GuardTypes, RunInv, MfaLocked
<1>4. PICK n \in Nat : n = c + 1
  OBVIOUS
<1> DEFINE v == IF n % s = 0 THEN now + LockOf(n \div s - 1) ELSE u
           r == [count |-> n, last |-> now, until |-> v]
<1>5. strikes' = [strikes EXCEPT ![b] = r]
  BY <1>1, <1>2, <1>3, <1>4 DEF MfaFailed
<1>6. r.count = n /\ r.last = now /\ r.until = v
  OBVIOUS
<1> HIDE DEF r
<1>7. strikes'[b] = r /\ \A d \in Bucket : d # b => strikes'[d] = strikes[d]
  BY <1>5 DEF GuardTypes
<1>8. \A k \in Nat : k * s \in Nat /\ (k * s = 0 => k = 0)
  OBVIOUS
<1>9. \A k \in Nat : c >= k * s => (k = 0 \/ u >= LockSum[k])
  <2> SUFFICES ASSUME NEW k \in Nat, c >= k * s, k # 0 PROVE u >= LockSum[k]
    OBVIOUS
  <2>1. c # 0
    BY <1>8
  <2>2. strikes[b].count >= k * GuardStrikes
    BY <1>1, <1>2, <2>1
  <2>3. QED
    BY <1>3, <2>2 DEF RunInv
<1>10. ASSUME NEW k \in Nat, n > k * s PROVE now >= LockSum[k]
  <2>1. c >= k * s
    BY <1>4, <1>8, <1>10
  <2>2. CASE k = 0
    BY <2>2, LockSumAdds
  <2>3. CASE u >= LockSum[k]
    <3>1. LockSum[k] \in Nat
      BY LockSumAdds
    <3>2. QED
      BY <1>3, <2>3, <3>1
  <2>4. QED
    BY <1>9, <2>1, <2>2, <2>3
<1>11. v \in Nat /\ \A k \in Nat : k # 0 /\ n >= k * s => v >= LockSum[k]
  <2>1. CASE n % s # 0
    <3>1. v = u
      BY <2>1
    <3>2. ASSUME NEW k \in Nat, k # 0, n >= k * s PROVE u >= LockSum[k]
      <4>1. n # k * s
        BY <2>1, Multiples
      <4>2. c >= k * s
        BY <1>4, <1>8, <3>2, <4>1
      <4>3. QED
        BY <1>9, <3>2, <4>2
    <3>3. QED
      BY <1>3, <3>1, <3>2
  <2>2. CASE n % s = 0
    <3>1. PICK q \in Nat : q = n \div s /\ n = q * s
      BY <2>2, Multiples
    <3>2. q # 0 /\ q - 1 \in Nat
      BY <1>4, <3>1
    <3>3. PICK l \in Nat : l = LockOf(q - 1)
      BY <3>2, LockLength
    <3>4. v = now + l
      BY <2>2, <3>1, <3>3
    <3>5. ASSUME NEW k \in Nat, k # 0, n >= k * s PROVE now + l >= LockSum[k]
      <4>1. k <= q
        <5> SUFFICES ASSUME k > q PROVE k * s > q * s
          BY <1>8, <3>1, <3>5
        <5>1. PICK d \in Nat : k = q + d /\ d > 0
          <6>1. k - q \in Nat /\ k = q + (k - q) /\ k - q > 0
            OBVIOUS
          <6>2. QED
            BY <6>1
        <5>2. k * s = q * s + d * s /\ d * s > 0 /\ q * s \in Nat /\ d * s \in Nat
          BY <5>1
        <5>3. QED
          BY <5>2
      <4>2. CASE k = q
        <5>1. PICK j \in Nat : j = q - 1 /\ q = j + 1
          BY <3>2
        <5>2. q * s = j * s + s /\ j * s \in Nat
          BY <5>1
        <5>3. n > j * s
          BY <3>1, <5>2
        <5>4. now >= LockSum[j] /\ LockSum[j] \in Nat /\ LockSum[k] = LockSum[j] + l
          BY <1>10, <3>3, <4>2, <5>1, <5>3, LockSumAdds
        <5>5. QED
          BY <5>4
      <4>3. CASE k < q
        <5>1. PICK d \in Nat : q = k + d /\ d > 0
          <6>1. q - k \in Nat /\ q = k + (q - k) /\ q - k > 0
            BY <4>3
          <6>2. QED
            BY <6>1
        <5>2. q * s = k * s + d * s /\ d * s > 0 /\ k * s \in Nat /\ d * s \in Nat
          BY <5>1
        <5>3. n > k * s
          BY <3>1, <5>2
        <5>4. now >= LockSum[k] /\ LockSum[k] \in Nat
          BY <1>10, <5>3, LockSumAdds
        <5>5. QED
          BY <5>4
      <4>4. QED
        BY <4>1, <4>2, <4>3
    <3>6. QED
      BY <3>4, <3>5
  <2>3. QED
    BY <2>1, <2>2
<1> HIDE DEF v
<1>12. ASSUME NEW d \in Bucket
       PROVE  /\ strikes'[d].until \in Nat
              /\ \A k \in Nat : strikes'[d].count > k * GuardStrikes => strikes'[d].last >= LockSum[k]
              /\ \A k \in Nat : k # 0 /\ strikes'[d].count >= k * GuardStrikes => strikes'[d].until >= LockSum[k]
  <2>1. CASE d = b
    BY <1>1, <1>6, <1>7, <1>10, <1>11, <2>1
  <2>2. CASE d # b
    BY <1>7, <2>2 DEF RunInv
  <2>3. QED
    BY <2>1, <2>2
<1>13. QED
  BY <1>12 DEF RunInv

\* Every step keeps it: the run grows only when its lock has ended.
LEMMA RunStep == GuardInv /\ RunInv /\ [GuardNext]_guardVars => RunInv'
<1> SUFFICES ASSUME GuardInv, RunInv, [GuardNext]_guardVars PROVE RunInv'
  OBVIOUS
<1>1. GuardTypes
  BY DEF GuardInv
<1>2. CASE strikes' = strikes
  BY <1>2 DEF RunInv
<1>3. ASSUME NEW a \in Attempt, GuardWrong(a) PROVE RunInv'
  <2>1. attempt[a].at = "in" /\ ~MfaLocked(attempt[a].bucket) /\ MfaFailed(attempt[a].bucket)
    BY <1>3 DEF GuardWrong
  <2>2. attempt[a].bucket \in Bucket
    BY <1>1, <2>1 DEF GuardTypes
  <2>3. QED
    BY <1>1, <2>1, <2>2, RunWaits
<1>4. ASSUME NEW a \in Attempt, GuardSucceeded(a) PROVE RunInv'
  <2>1. PICK b : b = attempt[a].bucket
    OBVIOUS
  <2>2. strikes' = [strikes EXCEPT ![b] = NoRun] /\ strikes = [d \in Bucket |-> strikes[d]]
    BY <1>1, <1>4, <2>1 DEF GuardSucceeded, GuardTypes
  <2>3. NoRun.count = 0 /\ NoRun.last = 0 /\ NoRun.until = 0
    BY DEF NoRun
  <2>4. \A k \in Nat : (0 > k * GuardStrikes => FALSE) /\ (k # 0 => ~(0 >= k * GuardStrikes))
    BY GuardAssumption
  <2>5. ASSUME NEW d \in Bucket PROVE strikes'[d] = strikes[d] \/ strikes'[d] = NoRun
    BY <2>2
  <2>6. QED
    BY <2>3, <2>4, <2>5 DEF RunInv
<1>5. QED
  BY <1>2, <1>3, <1>4 DEF GuardNext, guardVars, GuardTick, GuardEnter, GuardTurn, GuardWake, GuardAbandon,
     GuardDrop, GuardFailed, GuardLockedOut

\* Whoever is let in has waited out the failures of its bucket, for any number
\* of attempts at once, any delays and any decay not shorter than the longest
\* of them.
THEOREM PacedHolds == GuardSpec => []Paced
<1>1. GuardInv => Paced
  BY DEF GuardInv, SleptOut, Paced
<1>2. QED
  BY <1>1, GuardIndHolds, PTL

\* GuessBudget of LoginGuard: however the wrong codes of a run come, the one
\* after round k is judged when all k locks have been waited out (main.rs,
\* mfa_failed), whatever the lengths of the locks and the strikes to a round.
THEOREM GuessBudgetHolds == GuardSpec => []GuessBudget
<1>1. GuardInit => RunInv
  <2> SUFFICES ASSUME GuardInit PROVE RunInv
    OBVIOUS
  <2>1. NoRun.count = 0 /\ NoRun.last = 0 /\ NoRun.until = 0
    BY DEF NoRun
  <2>2. \A k \in Nat : (0 > k * GuardStrikes => FALSE) /\ (k # 0 => ~(0 >= k * GuardStrikes))
    BY GuardAssumption
  <2>3. \A b \in Bucket : strikes[b] = NoRun
    BY DEF GuardInit
  <2>4. QED
    BY <2>1, <2>2, <2>3 DEF RunInv
<1>2. RunInv => GuessBudget
  BY GuardAssumption DEF RunInv, GuessBudget
<1>3. QED
  BY <1>1, <1>2, GuardIndHolds, RunStep, PTL DEF GuardSpec

----------------------------------------------------------------------------
(* ReplayGuard: what is remembered is a part of what was accepted, in the   *)
(* same order, and holds each of the last ReplayMemory codes that could     *)
(* still be shown.                                                          *)

Entry == [code : Nat, at : Nat]

\* Code c is one that verify() takes at time t.
StepAt(t) == t \div StepLen
VerifiesAt(c, t) == c \in {IF StepAt(t) = 0 THEN 0 ELSE StepAt(t) - 1, StepAt(t), StepAt(t) + 1}

\* The entries of s are codes of acc, the p-th the q[p]-th of them, accepted at
\* the times h; in order.
Remembers(s, acc, h, q) ==
  /\ q \in [1..Len(s) -> 1..Len(acc)] /\ \A i, j \in 1..Len(s) : i < j => q[i] < q[j]
  /\ \A p \in 1..Len(s) : s[p].code = acc[q[p]] /\ s[p].at = h[q[p]]

\* Index i is among those the entries stand for.
Covered(s, q, i) == \E p \in 1..Len(s) : q[p] = i

AcceptedAt(h) == h \in [1..Len(accepted) -> 0..codeNow] /\ \A i \in 1..Len(accepted) : VerifiesAt(accepted[i], h[i])
LatestCovered(h, q) ==
  \A i \in 1..Len(accepted) :
    Len(accepted) - i < ReplayMemory /\ codeNow - h[i] < ReplayWindow => Covered(seen, q, i)

CodesTypes == codeNow \in Nat /\ seen \in Seq(Entry) /\ accepted \in Seq(Nat) /\ Len(seen) <= ReplayMemory
CodesInv ==
  /\ CodesTypes /\ RepeatIsFar
  /\ \E h, q : AcceptedAt(h) /\ Remembers(seen, accepted, h, q) /\ LatestCovered(h, q)

\* The filter, entry by entry.
LEMMA KeptSteps ==
  ASSUME seen \in Seq(Entry)
  PROVE  \E g : /\ g[0] = <<>> /\ Remembered = g[Len(seen)]
                /\ \A k \in Nat : k < Len(seen) => g[k + 1] = KeepFresh(g[k], seen[k + 1])
<1>1. PICK n \in Nat : n = Len(seen) /\ DOMAIN seen = 1..n
  OBVIOUS
<1> DEFINE Kept(f) == f = [S \in SUBSET (1..n) |->
                             IF S = {} THEN <<>> ELSE KeepFresh(f[S \ {Max(S)}], seen[Max(S)])]
           it == CHOOSE f : Kept(f)
<1>2. Remembered = it[1..n]
  BY <1>1 DEF Remembered, FoldLeft, MapThenFoldSet
<1>3. \E f : Kept(f)
  <2> DEFINE G == [p \in (1..n) \X Seq(Entry) |-> KeepFresh(p[2], seen[p[1]])]
  <2>1. \A i \in 1..n, s \in Seq(Entry) : KeepFresh(s, seen[i]) \in Seq(Entry) /\ G[<<i, s>>] = KeepFresh(s, seen[i])
    BY <1>1 DEF KeepFresh
  <2>2. G \in [(1..n) \X Seq(Entry) -> Seq(Entry)]
    BY <2>1
  <2> HIDE DEF G
  <2>3. <<>> \in Seq(Entry)
    OBVIOUS
  <2>4. PICK f : f \in [SUBSET (1..n) -> Seq(Entry)] /\ Folds(f, n, <<>>, G)
    BY <2>2, <2>3, FoldThere
  <2>5. ASSUME NEW S \in SUBSET (1..n), S # {} PROVE f[S] = KeepFresh(f[S \ {Max(S)}], seen[Max(S)])
    <3>1. Max(S) \in 1..n /\ (S \ {Max(S)}) \in SUBSET (1..n)
      BY <2>5, MaxOf
    <3>2. f[S] = G[<<Max(S), f[S \ {Max(S)}]>>]
      BY <2>4, <2>5 DEF Folds
    <3>3. f[S \ {Max(S)}] \in Seq(Entry)
      BY <2>4, <3>1
    <3>4. QED
      BY <2>1, <3>1, <3>2, <3>3
  <2>6. f[{}] = <<>>
    BY <2>4 DEF Folds
  <2>7. Kept(f)
    <3>1. f = [S \in SUBSET (1..n) |-> f[S]]
      BY <2>4
    <3>2. QED
      BY <2>5, <2>6, <3>1
  <2>8. QED
    BY <2>7
<1>4. Kept(it)
  BY <1>3
<1> HIDE DEF it
<1> DEFINE G == [p \in (1..n) \X {it[S] : S \in SUBSET (1..n)} |-> KeepFresh(p[2], seen[p[1]])]
<1>5. \A i \in 1..n, S \in SUBSET (1..n) : G[<<i, it[S]>>] = KeepFresh(it[S], seen[i])
  OBVIOUS
<1> HIDE DEF G
<1>6. Folds(it, n, <<>>, G)
  <2>1. ASSUME NEW S \in SUBSET (1..n), S # {} PROVE it[S] = G[<<Max(S), it[S \ {Max(S)}]>>]
    <3>1. Max(S) \in 1..n /\ (S \ {Max(S)}) \in SUBSET (1..n)
      BY <2>1, MaxOf
    <3>2. it[S] = KeepFresh(it[S \ {Max(S)}], seen[Max(S)])
      BY <1>4, <2>1
    <3>3. QED
      BY <1>5, <3>1, <3>2
  <2>2. it[{}] = <<>> /\ it = [S \in SUBSET (1..n) |-> it[S]]
    BY <1>4
  <2>3. QED
    BY <2>1, <2>2 DEF Folds
<1> DEFINE g == [k \in Nat |-> it[1..k]]
<1>7. g[0] = <<>>
  <2>1. 1..0 = {}
    OBVIOUS
  <2>2. QED
    BY <1>6, <2>1, FoldSteps
<1>8. ASSUME NEW k \in Nat, k < n PROVE g[k + 1] = KeepFresh(g[k], seen[k + 1])
  <2>1. it[1..(k + 1)] = G[<<k + 1, it[1..k]>>]
    BY <1>6, <1>8, FoldSteps
  <2>2. k + 1 \in 1..n /\ (1..k) \in SUBSET (1..n)
    BY <1>8
  <2>3. it[1..(k + 1)] = KeepFresh(it[1..k], seen[k + 1])
    BY <1>5, <2>1, <2>2
  <2>4. QED
    BY <2>3
<1>9. Remembered = g[n]
  BY <1>2
<1> HIDE DEF g
<1>10. QED
  BY <1>1, <1>7, <1>8, <1>9

\* An entry for a later index goes last.
LEMMA RemembersOneMore ==
  ASSUME NEW s \in Seq(Entry), NEW acc, NEW h, NEW q, Remembers(s, acc, h, q),
         NEW i \in 1..Len(acc), \A p \in 1..Len(s) : q[p] < i,
         NEW e \in Entry, e.code = acc[i], e.at = h[i]
  PROVE  \E z : /\ Remembers(Append(s, e), acc, h, z) /\ Covered(Append(s, e), z, i)
                /\ \A k : Covered(s, q, k) => Covered(Append(s, e), z, k)
                /\ \A k : Covered(Append(s, e), z, k) => k = i \/ Covered(s, q, k)
<1>1. PICK m \in Nat : m = Len(s)
  OBVIOUS
<1>2. PICK t : t = Append(s, e)
  OBVIOUS
<1>3. Len(t) = m + 1 /\ t[m + 1] = e /\ \A p \in 1..m : t[p] = s[p]
  BY <1>1, <1>2
<1> DEFINE z == [p \in 1..(m + 1) |-> IF p = m + 1 THEN i ELSE q[p]]
<1>4. z[m + 1] = i /\ \A p \in 1..m : z[p] = q[p] /\ p \in 1..(m + 1) /\ p # m + 1
  OBVIOUS
<1>5. q \in [1..m -> 1..Len(acc)] /\ \A j, k \in 1..m : j < k => q[j] < q[k]
  BY <1>1 DEF Remembers
<1>6. z \in [1..(m + 1) -> 1..Len(acc)]
  BY <1>5
<1> HIDE DEF z
<1>7. \A p \in 1..(m + 1) : p \in 1..m \/ p = m + 1
  OBVIOUS
<1>8. ASSUME NEW j \in 1..(m + 1), NEW k \in 1..(m + 1), j < k PROVE z[j] < z[k]
  <2>1. j \in 1..m
    BY <1>8
  <2>2. CASE k = m + 1
    BY <1>1, <1>4, <2>1, <2>2
  <2>3. CASE k \in 1..m
    BY <1>4, <1>5, <1>8, <2>1, <2>3
  <2>4. QED
    BY <1>7, <2>2, <2>3
<1>9. ASSUME NEW p \in 1..(m + 1) PROVE t[p].code = acc[z[p]] /\ t[p].at = h[z[p]]
  <2>1. CASE p = m + 1
    BY <1>3, <1>4, <2>1
  <2>2. CASE p \in 1..m
    BY <1>1, <1>3, <1>4, <2>2 DEF Remembers
  <2>3. QED
    BY <1>7, <2>1, <2>2
<1>10. Remembers(t, acc, h, z)
  BY <1>3, <1>6, <1>8, <1>9 DEF Remembers
<1>11. m + 1 \in 1..(m + 1)
  OBVIOUS
<1>12. Covered(t, z, i) /\ \A k : Covered(s, q, k) => Covered(t, z, k)
  BY <1>1, <1>3, <1>4, <1>11 DEF Covered
<1>13. \A k : Covered(t, z, k) => k = i \/ Covered(s, q, k)
  BY <1>1, <1>3, <1>4, <1>7 DEF Covered
<1>14. QED
  BY <1>2, <1>10, <1>12, <1>13

\* Without the oldest entry, all others are still there.
LEMMA RemembersOneLess ==
  ASSUME NEW s \in Seq(Entry), NEW acc, NEW h, NEW q, Remembers(s, acc, h, q), Len(s) > 0
  PROVE  \E z : /\ Remembers(Tail(s), acc, h, z)
                /\ \A k : Covered(s, q, k) => k = q[1] \/ Covered(Tail(s), z, k)
                /\ \A k : Covered(Tail(s), z, k) => Covered(s, q, k)
<1>1. PICK m \in Nat : Len(s) = m + 1
  <2>1. Len(s) - 1 \in Nat /\ Len(s) = (Len(s) - 1) + 1
    OBVIOUS
  <2>2. QED
    BY <2>1
<1>2. PICK t : t = Tail(s)
  OBVIOUS
<1>3. Len(t) = m /\ \A p \in 1..m : t[p] = s[p + 1]
  BY <1>1, <1>2
<1>4. \A p \in 1..m : p + 1 \in 1..(m + 1)
  OBVIOUS
<1>5. q \in [1..(m + 1) -> 1..Len(acc)] /\ \A j, k \in 1..(m + 1) : j < k => q[j] < q[k]
  BY <1>1 DEF Remembers
<1> DEFINE z == [p \in 1..m |-> q[p + 1]]
<1>6. z \in [1..m -> 1..Len(acc)] /\ \A p \in 1..m : z[p] = q[p + 1]
  BY <1>4, <1>5
<1> HIDE DEF z
<1>7. ASSUME NEW j \in 1..m, NEW k \in 1..m, j < k PROVE z[j] < z[k]
  <2>1. j + 1 \in 1..(m + 1) /\ k + 1 \in 1..(m + 1) /\ j + 1 < k + 1
    BY <1>7
  <2>2. QED
    BY <1>5, <1>6, <2>1
<1>8. ASSUME NEW p \in 1..m PROVE t[p].code = acc[z[p]] /\ t[p].at = h[z[p]]
  BY <1>1, <1>3, <1>4, <1>6 DEF Remembers
<1>9. Remembers(t, acc, h, z)
  BY <1>3, <1>6, <1>7, <1>8 DEF Remembers
<1>10. \A p \in 1..(m + 1) : p = 1 \/ \E o \in 1..m : p = o + 1
  <2> SUFFICES ASSUME NEW p \in 1..(m + 1), p # 1 PROVE \E o \in 1..m : p = o + 1
    OBVIOUS
  <2>1. p - 1 \in 1..m /\ p = (p - 1) + 1
    OBVIOUS
  <2>2. QED
    BY <2>1
<1>11. \A k : Covered(s, q, k) => k = q[1] \/ Covered(t, z, k)
  BY <1>1, <1>3, <1>6, <1>10 DEF Covered
<1>12. \A k : Covered(t, z, k) => Covered(s, q, k)
  BY <1>1, <1>3, <1>4, <1>6 DEF Covered
<1>13. QED
  BY <1>2, <1>9, <1>11, <1>12

\* n entries stand for n indices: the first is that far below the last.
LEMMA RemembersSpread ==
  ASSUME NEW s \in Seq(Entry), NEW acc \in Seq(Nat), NEW h, NEW q, Remembers(s, acc, h, q)
  PROVE  \A p \in Nat : p + 1 <= Len(s) => q[1] + p <= q[p + 1]
<1>1. PICK m \in Nat, n \in Nat : m = Len(s) /\ n = Len(acc)
  OBVIOUS
<1>2. q \in [1..m -> 1..n] /\ \A j, k \in 1..m : j < k => q[j] < q[k]
  BY <1>1 DEF Remembers
<1> DEFINE D == {p \in Nat : p + 1 <= m => q[1] + p <= q[p + 1]}
<1>3. 0 \in D
  <2> SUFFICES ASSUME 1 <= m PROVE q[1] + 0 <= q[0 + 1]
    OBVIOUS
  <2>1. q[1] \in 1..n /\ 0 + 1 = 1
    BY <1>2
  <2>2. QED
    BY <2>1
<1>4. ASSUME NEW p \in Nat, p \in D PROVE p + 1 \in D
  <2> SUFFICES ASSUME (p + 1) + 1 <= m PROVE q[1] + (p + 1) <= q[(p + 1) + 1]
    OBVIOUS
  <2>1. q[1] + p <= q[p + 1]
    BY <1>4
  <2>2. 1 \in 1..m /\ p + 1 \in 1..m /\ (p + 1) + 1 \in 1..m /\ p + 1 < (p + 1) + 1
    OBVIOUS
  <2>3. q[p + 1] < q[(p + 1) + 1] /\ q[1] \in 1..n /\ q[p + 1] \in 1..n /\ q[(p + 1) + 1] \in 1..n
    BY <1>2, <2>2
  <2>4. QED
    BY <2>1, <2>3
<1> HIDE DEF D
<1>5. \A p \in Nat : p \in D
  BY <1>3, <1>4, NatInduct
<1>6. QED
  BY <1>1, <1>5 DEF D

\* What accept() keeps of the entries is some of them, in order, among them
\* every one that is young enough.
LEMMA RemembersKept ==
  ASSUME seen \in Seq(Entry), NEW acc, NEW h, NEW q, Remembers(seen, acc, h, q)
  PROVE  /\ Remembered \in Seq(Entry) /\ Len(Remembered) <= Len(seen)
         /\ \E z : /\ Remembers(Remembered, acc, h, z)
                   /\ \A p \in 1..Len(seen) :
                        codeNow - seen[p].at < ReplayWindow => Covered(Remembered, z, q[p])
<1>1. PICK n \in Nat : n = Len(seen) /\ \A p \in 1..n : seen[p] \in Entry
  OBVIOUS
<1>2. PICK g : /\ g[0] = <<>> /\ Remembered = g[n]
               /\ \A k \in Nat : k < n => g[k + 1] = KeepFresh(g[k], seen[k + 1])
  BY <1>1, KeptSteps
<1>3. /\ q \in [1..n -> 1..Len(acc)] /\ \A i, j \in 1..n : i < j => q[i] < q[j]
      /\ \A p \in 1..n : seen[p].code = acc[q[p]] /\ seen[p].at = h[q[p]]
  BY <1>1 DEF Remembers
<1> DEFINE From(k, s, z) == \A c : Covered(s, z, c) => \E p \in 1..k : c = q[p]
           Young(k, s, z) == \A p \in 1..k : codeNow - seen[p].at < ReplayWindow => Covered(s, z, q[p])
           Good(k, s) == /\ s \in Seq(Entry) /\ Len(s) <= k
                         /\ \E z : Remembers(s, acc, h, z) /\ From(k, s, z) /\ Young(k, s, z)
           D == {k \in Nat : k <= n => Good(k, g[k])}
<1>4. Good(0, g[0])
  <2>1. <<>> \in Seq(Entry) /\ Len(<<>>) = 0 /\ 1..0 = {}
    OBVIOUS
  <2> DEFINE z == [p \in 1..0 |-> 1]
  <2>2. Remembers(<<>>, acc, h, z)
    BY <2>1 DEF Remembers
  <2>3. \A c : ~Covered(<<>>, z, c)
    BY <2>1 DEF Covered
  <2> HIDE DEF z
  <2>4. From(0, <<>>, z) /\ Young(0, <<>>, z)
    BY <2>1, <2>3
  <2>5. QED
    BY <1>2, <2>1, <2>2, <2>4
<1>5. ASSUME NEW k \in Nat, k + 1 <= n, Good(k, g[k]) PROVE Good(k + 1, g[k + 1])
  <2>1. PICK s : s = g[k]
    OBVIOUS
  <2>2. PICK z : Remembers(s, acc, h, z) /\ From(k, s, z) /\ Young(k, s, z)
    BY <1>5, <2>1
  <2>3. s \in Seq(Entry) /\ Len(s) <= k /\ g[k + 1] = KeepFresh(s, seen[k + 1])
    BY <1>2, <1>5, <2>1
  <2>4. k + 1 \in 1..n /\ seen[k + 1] \in Entry /\ \A p \in 1..(k + 1) : p \in 1..k \/ p = k + 1
    BY <1>1, <1>5
  <2>5. CASE codeNow - seen[k + 1].at < ReplayWindow
    <3>1. PICK t : t = Append(s, seen[k + 1])
      OBVIOUS
    <3>2. g[k + 1] = t /\ t \in Seq(Entry) /\ Len(t) <= k + 1
      BY <2>3, <2>4, <2>5, <3>1 DEF KeepFresh
    <3>3. ASSUME NEW p \in 1..Len(s) PROVE z[p] < q[k + 1]
      <4>1. Covered(s, z, z[p])
        BY DEF Covered
      <4>2. PICK o \in 1..k : z[p] = q[o]
        BY <2>2, <4>1
      <4>3. o \in 1..n /\ o < k + 1
        BY <1>5
      <4>4. QED
        BY <1>3, <2>4, <4>2, <4>3
    <3>4. q[k + 1] \in 1..Len(acc) /\ seen[k + 1].code = acc[q[k + 1]] /\ seen[k + 1].at = h[q[k + 1]]
      BY <1>3, <2>4
    <3>5. PICK y : /\ Remembers(t, acc, h, y) /\ Covered(t, y, q[k + 1])
                   /\ \A c : Covered(s, z, c) => Covered(t, y, c)
                   /\ \A c : Covered(t, y, c) => c = q[k + 1] \/ Covered(s, z, c)
      BY <2>2, <2>3, <2>4, <3>1, <3>3, <3>4, RemembersOneMore
    <3>6. From(k + 1, t, y)
      <4> SUFFICES ASSUME NEW c, Covered(t, y, c) PROVE \E p \in 1..(k + 1) : c = q[p]
        OBVIOUS
      <4>1. CASE c = q[k + 1]
        BY <4>1
      <4>2. CASE Covered(s, z, c)
        <5>1. PICK p \in 1..k : c = q[p]
          BY <2>2, <4>2
        <5>2. p \in 1..(k + 1)
          OBVIOUS
        <5>3. QED
          BY <5>1, <5>2
      <4>3. QED
        BY <3>5, <4>1, <4>2
    <3>7. Young(k + 1, t, y)
      BY <2>2, <2>4, <3>5
    <3>8. QED
      BY <3>2, <3>5, <3>6, <3>7
  <2>6. CASE ~(codeNow - seen[k + 1].at < ReplayWindow)
    <3>1. g[k + 1] = s /\ Len(s) <= k + 1
      BY <2>3, <2>6 DEF KeepFresh
    <3>2. From(k + 1, s, z)
      <4>1. \A p \in 1..k : p \in 1..(k + 1)
        OBVIOUS
      <4>2. QED
        BY <2>2, <4>1
    <3>3. Young(k + 1, s, z)
      BY <2>2, <2>4, <2>6
    <3>4. QED
      BY <2>2, <2>3, <3>1, <3>2, <3>3
  <2>7. QED
    BY <2>5, <2>6
<1> HIDE DEF Good
<1>6. 0 \in D
  BY <1>4
<1>7. ASSUME NEW k \in Nat, k \in D PROVE k + 1 \in D
  <2> SUFFICES ASSUME k + 1 <= n PROVE Good(k + 1, g[k + 1])
    OBVIOUS
  <2>1. Good(k, g[k])
    BY <1>7
  <2>2. QED
    BY <1>5, <2>1
<1> HIDE DEF D
<1>8. n \in D
  BY <1>6, <1>7, NatInduct
<1>9. Good(n, g[n])
  BY <1>8 DEF D
<1>10. QED
  BY <1>1, <1>2, <1>9 DEF Good

\* Two times at which verify() takes the same code are less than three steps
\* apart.
LEMMA CodeLapses ==
  ASSUME NEW c, NEW t \in Nat, NEW u \in Nat, t <= u, VerifiesAt(c, t), VerifiesAt(c, u)
  PROVE  u - t < ReplayWindow
<1>1. PICK l \in Nat, w \in Nat : l = StepLen /\ l > 0 /\ w = ReplayWindow /\ w >= 3 * l
  BY ReplayAssumption
<1>2. PICK a \in Int, r \in Nat : a = t \div l /\ r = t % l /\ r < l /\ t = l * a + r
  BY <1>1
<1>3. PICK b \in Int, e \in Nat : b = u \div l /\ e = u % l /\ e < l /\ u = l * b + e
  BY <1>1
<1>4. a >= 0
  <2> SUFFICES ASSUME a <= -1 PROVE l * a <= -l
    BY <1>1, <1>2
  <2>1. QED
    BY <1>1
<1>5. b <= a + 2
  <2>1. c \in {IF a = 0 THEN 0 ELSE a - 1, a, a + 1} /\ c \in {IF b = 0 THEN 0 ELSE b - 1, b, b + 1}
    BY <1>1, <1>2, <1>3 DEF VerifiesAt, StepAt
  <2>2. QED
    BY <1>4, <2>1
<1>6. l * b <= l * a + 2 * l
  <2>1. PICK d \in Nat : b + d = a + 2
    <3>1. a + 2 - b \in Nat /\ b + (a + 2 - b) = a + 2
      BY <1>5
    <3>2. QED
      BY <3>1
  <2>2. l * b + l * d = l * a + 2 * l /\ l * d \in Nat /\ l * b \in Int /\ l * a \in Int
    BY <2>1
  <2>3. QED
    BY <2>2
<1>7. PICK x \in Int, y \in Int : x = l * a /\ y = l * b
  OBVIOUS
<1>8. u - t < 3 * l
  BY <1>2, <1>3, <1>6, <1>7
<1>9. QED
  BY <1>1, <1>8

\* A code is accepted.
LEMMA CodesAccept == ASSUME CodesInv, NEW c \in Code, Accept(c) PROVE CodesInv'
<1>1. PICK h, q : AcceptedAt(h) /\ Remembers(seen, accepted, h, q) /\ LatestCovered(h, q)
  BY DEF CodesInv
<1>2. CodesTypes /\ RepeatIsFar /\ Verifies(c) /\ Unused(c) /\ codeNow' = codeNow
  BY DEF CodesInv, Accept
<1>3. PICK n \in Nat, now \in Nat, M \in Nat :
        n = Len(accepted) /\ now = codeNow /\ M = ReplayMemory /\ M > 0 /\ accepted \in [1..n -> Nat]
  BY <1>2, ReplayAssumption DEF CodesTypes
<1>4. c \in Nat /\ VerifiesAt(c, now)
  BY <1>2, <1>3 DEF Code, Verifies, VerifiesAt, StepAt, Step
<1>5. h \in [1..n -> 0..now] /\ \A i \in 1..n : VerifiesAt(accepted[i], h[i])
  BY <1>1, <1>3 DEF AcceptedAt
<1> DEFINE A == Append(accepted, c)
           H == [i \in 1..(n + 1) |-> IF i = n + 1 THEN now ELSE h[i]]
           e == [code |-> c, at |-> now]
<1>6. /\ A \in Seq(Nat) /\ Len(A) = n + 1 /\ A[n + 1] = c /\ \A i \in 1..n : A[i] = accepted[i]
  BY <1>2, <1>3, <1>4 DEF CodesTypes
<1>7. H[n + 1] = now /\ (\A i \in 1..n : H[i] = h[i]) /\ H \in [1..(n + 1) -> 0..now]
  BY <1>5
<1>8. accepted' = A /\ seen' = Append(MakeRoom(Remembered), e)
  BY <1>3 DEF Accept
<1>9. e \in Entry /\ e.code = c /\ e.at = now
  BY <1>3, <1>4 DEF Entry
<1> HIDE DEF A, H, e
<1>10. \A i \in 1..(n + 1) : i \in 1..n \/ i = n + 1
  OBVIOUS
\* What was remembered and stays.
<1>11. PICK z : /\ Remembers(Remembered, accepted, h, z)
                /\ \A p \in 1..Len(seen) : codeNow - seen[p].at < ReplayWindow => Covered(Remembered, z, q[p])
  BY <1>1, <1>2, RemembersKept DEF CodesTypes
<1>12. PICK R : R = Remembered
  OBVIOUS
<1>13. R \in Seq(Entry) /\ Len(R) <= M
  <2>1. Remembered \in Seq(Entry) /\ Len(Remembered) <= Len(seen)
    BY <1>1, <1>2, RemembersKept DEF CodesTypes
  <2>2. Len(seen) \in Nat /\ Len(seen) <= M /\ Len(Remembered) \in Nat
    BY <1>2, <1>3, <2>1 DEF CodesTypes
  <2>3. QED
    BY <1>12, <2>1, <2>2
<1>14. \A i \in 1..n : n - i < M /\ now - h[i] < ReplayWindow => Covered(R, z, i)
  <2> SUFFICES ASSUME NEW i \in 1..n, n - i < M, now - h[i] < ReplayWindow PROVE Covered(R, z, i)
    OBVIOUS
  <2>1. Covered(seen, q, i)
    BY <1>1, <1>3 DEF LatestCovered
  <2>2. PICK p \in 1..Len(seen) : q[p] = i
    BY <2>1 DEF Covered
  <2>3. seen[p].at = h[i]
    BY <1>1, <2>2 DEF Remembers
  <2>4. QED
    BY <1>3, <1>11, <1>12, <2>2, <2>3
\* No code that could still be shown is the new one.
<1>15. ASSUME NEW i \in 1..n, accepted[i] = c PROVE n - i >= M
  <2> SUFFICES ASSUME n - i < M PROVE FALSE
    BY <1>3
  <2>1. now - h[i] < ReplayWindow
    <3>1. h[i] \in Nat /\ h[i] <= now /\ VerifiesAt(c, h[i])
      BY <1>5, <1>15
    <3>2. QED
      BY <1>3, <1>4, <3>1, CodeLapses
  <2>2. Covered(R, z, i)
    BY <1>14, <2>1
  <2>3. PICK p \in 1..Len(R) : z[p] = i
    BY <2>2 DEF Covered
  <2>4. R[p].code = c
    BY <1>11, <1>12, <1>15, <2>3 DEF Remembers
  <2>5. QED
    BY <1>2, <1>12, <2>3, <2>4 DEF Unused
<1>16. RepeatIsFar'
  <2> SUFFICES ASSUME NEW i \in 1..(n + 1), NEW j \in 1..(n + 1), i < j, A[i] = A[j] PROVE j - i > M
    BY <1>3, <1>6, <1>8 DEF RepeatIsFar
  <2>1. i \in 1..n
    OBVIOUS
  <2>2. CASE j = n + 1
    <3>1. n - i >= M
      BY <1>6, <1>15, <2>1, <2>2
    <3>2. QED
      BY <2>1, <2>2, <3>1
  <2>3. CASE j \in 1..n
    BY <1>2, <1>3, <1>6, <2>1, <2>3 DEF RepeatIsFar
  <2>4. QED
    BY <1>10, <2>2, <2>3
\* Room is made: only an entry older than the last M - 1 may go.
<1>17. PICK k, y : /\ k = MakeRoom(R) /\ k \in Seq(Entry) /\ Len(k) + 1 <= M
                   /\ Remembers(k, accepted, h, y)
                   /\ \A i \in 1..n : n + 1 - i < M /\ now - h[i] < ReplayWindow => Covered(k, y, i)
  <2>1. Remembers(R, accepted, h, z)
    BY <1>11, <1>12
  <2>2. PICK m \in Nat : m = Len(R) /\ m <= M
    BY <1>13
  <2>3. CASE m = M
    <3>1. Tail(R) \in Seq(Entry) /\ Len(Tail(R)) + 1 = M /\ MakeRoom(R) = Tail(R) /\ Len(R) > 0
      <4>1. Len(R) = M /\ R # <<>>
        <5>1. Len(R) = M /\ M # 0
          BY <1>3, <2>2, <2>3
        <5>2. Len(<<>>) = 0
          OBVIOUS
        <5>3. QED
          BY <5>1, <5>2
      <4>2. MakeRoom(R) = Tail(R)
        BY <1>3, <4>1 DEF MakeRoom
      <4>3. Tail(R) \in Seq(Entry) /\ Len(Tail(R)) = Len(R) - 1
        BY <1>13, <4>1
      <4>4. QED
        BY <1>3, <4>1, <4>2, <4>3
    <3>2. PICK y : /\ Remembers(Tail(R), accepted, h, y)
                   /\ \A i : Covered(R, z, i) => i = z[1] \/ Covered(Tail(R), y, i)
      BY <1>13, <2>1, <3>1, RemembersOneLess
    <3>3. n + 1 - z[1] >= M
      <4>1. z \in [1..m -> 1..n]
        BY <1>3, <2>1, <2>2 DEF Remembers
      <4>2. M - 1 \in Nat /\ (M - 1) + 1 = M
        BY <1>3
      <4>3. z[1] + (M - 1) <= z[M]
        <5>1. \A p \in Nat : p + 1 <= Len(R) => z[1] + p <= z[p + 1]
          BY <1>2, <1>13, <2>1, RemembersSpread DEF CodesTypes
        <5>2. (M - 1) + 1 <= Len(R)
          BY <2>2, <2>3, <4>2
        <5>3. z[1] + (M - 1) <= z[(M - 1) + 1]
          BY <4>2, <5>1, <5>2
        <5>4. QED
          BY <4>2, <5>3
      <4>4. z[1] \in 1..n /\ z[M] \in 1..n
        BY <1>3, <2>3, <4>1
      <4>5. QED
        BY <4>3, <4>4
    <3>4. ASSUME NEW i \in 1..n, n + 1 - i < M, now - h[i] < ReplayWindow PROVE Covered(Tail(R), y, i)
      <4>1. n - i < M /\ i # z[1]
        BY <3>3, <3>4
      <4>2. Covered(R, z, i)
        BY <1>14, <3>4, <4>1
      <4>3. QED
        BY <3>2, <4>1, <4>2
    <3>5. PICK k : k = MakeRoom(R) /\ k = Tail(R)
      BY <3>1
    <3>6. k \in Seq(Entry) /\ Len(k) + 1 <= M /\ Remembers(k, accepted, h, y)
      BY <1>3, <3>1, <3>2, <3>5
    <3>7. \A i \in 1..n : n + 1 - i < M /\ now - h[i] < ReplayWindow => Covered(k, y, i)
      BY <3>4, <3>5
    <3>8. QED
      BY <3>5, <3>6, <3>7
  <2>4. CASE m # M
    <3>1. MakeRoom(R) = R /\ Len(R) + 1 <= M
      BY <1>3, <2>2, <2>4 DEF MakeRoom
    <3>2. \A i \in 1..n : n + 1 - i < M => n - i < M
      OBVIOUS
    <3>3. QED
      BY <1>13, <1>14, <2>1, <3>1, <3>2
  <2>5. QED
    BY <2>3, <2>4
\* The same entries, in the longer history.
<1>18. Remembers(k, A, H, y)
  <2>1. y \in [1..Len(k) -> 1..n] /\ \A p \in 1..Len(k) : k[p].code = accepted[y[p]] /\ k[p].at = h[y[p]]
    BY <1>3, <1>17 DEF Remembers
  <2>2. \A i \in 1..n : i \in 1..(n + 1)
    OBVIOUS
  <2>3. y \in [1..Len(k) -> 1..(n + 1)]
    BY <2>1, <2>2
  <2>4. \A p \in 1..Len(k) : k[p].code = A[y[p]] /\ k[p].at = H[y[p]]
    BY <1>6, <1>7, <2>1
  <2>5. QED
    BY <1>6, <1>17, <2>3, <2>4 DEF Remembers
<1>19. PICK x : /\ Remembers(Append(k, e), A, H, x) /\ Covered(Append(k, e), x, n + 1)
                /\ \A i : Covered(k, y, i) => Covered(Append(k, e), x, i)
  <2>1. \A p \in 1..Len(k) : y[p] < n + 1
    <3>1. y \in [1..Len(k) -> 1..n]
      BY <1>3, <1>17 DEF Remembers
    <3>2. QED
      BY <3>1
  <2>2. n + 1 \in 1..Len(A) /\ e.code = A[n + 1] /\ e.at = H[n + 1]
    BY <1>6, <1>7, <1>9
  <2>3. QED
    BY <1>9, <1>17, <1>18, <2>1, <2>2, RemembersOneMore
<1>20. seen' = Append(k, e)
  BY <1>8, <1>12, <1>17
<1>21. CodesTypes'
  <2>1. Append(k, e) \in Seq(Entry) /\ Len(Append(k, e)) <= M
    BY <1>9, <1>17
  <2>2. QED
    BY <1>2, <1>3, <1>6, <1>8, <1>20, <2>1 DEF CodesTypes
<1>22. AcceptedAt(H)'
  <2>1. ASSUME NEW i \in 1..(n + 1) PROVE VerifiesAt(A[i], H[i])
    <3>1. CASE i = n + 1
      BY <1>4, <1>6, <1>7, <3>1
    <3>2. CASE i \in 1..n
      BY <1>5, <1>6, <1>7, <3>2
    <3>3. QED
      BY <1>10, <3>1, <3>2
  <2>2. QED
    BY <1>2, <1>3, <1>6, <1>7, <1>8, <2>1 DEF AcceptedAt, VerifiesAt, StepAt
<1>23. LatestCovered(H, x)'
  <2> SUFFICES ASSUME NEW i \in 1..(n + 1), n + 1 - i < M, now - H[i] < ReplayWindow
               PROVE  Covered(Append(k, e), x, i)
    BY <1>2, <1>3, <1>6, <1>8, <1>20 DEF LatestCovered, Covered
  <2>1. CASE i = n + 1
    BY <1>19, <2>1
  <2>2. CASE i \in 1..n
    BY <1>7, <1>17, <1>19, <2>2
  <2>3. QED
    BY <1>10, <2>1, <2>2
<1>24. Remembers(seen, accepted, H, x)'
  BY <1>8, <1>19, <1>20 DEF Remembers
<1>25. QED
  BY <1>16, <1>21, <1>22, <1>23, <1>24 DEF CodesInv

\* A repeat is refused: what is forgotten could not be shown any more.
LEMMA CodesRefuse == ASSUME CodesInv, NEW c \in Code, RefuseRepeat(c) PROVE CodesInv'
<1>1. PICK h, q : AcceptedAt(h) /\ Remembers(seen, accepted, h, q) /\ LatestCovered(h, q)
  BY DEF CodesInv
<1>2. CodesTypes /\ RepeatIsFar /\ codeNow' = codeNow /\ accepted' = accepted /\ seen' = Remembered
  BY DEF CodesInv, RefuseRepeat
<1>3. PICK z : /\ Remembers(Remembered, accepted, h, z)
               /\ \A p \in 1..Len(seen) : codeNow - seen[p].at < ReplayWindow => Covered(Remembered, z, q[p])
  BY <1>1, <1>2, RemembersKept DEF CodesTypes
<1>4. Remembered \in Seq(Entry) /\ Len(Remembered) <= Len(seen)
  BY <1>1, <1>2, RemembersKept DEF CodesTypes
<1>5. CodesTypes'
  BY <1>2, <1>4, ReplayAssumption DEF CodesTypes
<1>6. LatestCovered(h, z)'
  <2> SUFFICES ASSUME NEW i \in 1..Len(accepted), Len(accepted) - i < ReplayMemory, codeNow - h[i] < ReplayWindow
               PROVE  Covered(Remembered, z, i)
    BY <1>2 DEF LatestCovered, Covered
  <2>1. PICK p \in 1..Len(seen) : q[p] = i
    BY <1>1 DEF LatestCovered, Covered
  <2>2. seen[p].at = h[i]
    BY <1>1, <2>1 DEF Remembers
  <2>3. QED
    BY <1>3, <2>1, <2>2
<1>7. AcceptedAt(h)' /\ Remembers(seen, accepted, h, z)' /\ RepeatIsFar'
  BY <1>1, <1>2, <1>3 DEF AcceptedAt, VerifiesAt, StepAt, Remembers, RepeatIsFar
<1>8. QED
  BY <1>5, <1>6, <1>7 DEF CodesInv

\* Every step keeps the invariant; as time passes, less need be remembered.
LEMMA CodesIndStep == CodesInv /\ [ReplayNext]_replayVars => CodesInv'
<1> SUFFICES ASSUME CodesInv, [ReplayNext]_replayVars PROVE CodesInv'
  OBVIOUS
<1>1. ASSUME UNCHANGED <<seen, accepted>>, codeNow' = codeNow \/ codeNow' = codeNow + 1 PROVE CodesInv'
  <2>1. PICK h, q : AcceptedAt(h) /\ Remembers(seen, accepted, h, q) /\ LatestCovered(h, q)
    BY DEF CodesInv
  <2>2. codeNow \in Nat /\ codeNow' \in Nat /\ CodesTypes' /\ RepeatIsFar'
    BY <1>1 DEF CodesInv, CodesTypes, RepeatIsFar
  <2>3. \A i \in 1..Len(accepted) : h[i] \in Nat /\ h[i] <= codeNow
    BY <2>1, <2>2 DEF AcceptedAt
  <2>4. AcceptedAt(h)'
    <3>1. 0..codeNow \subseteq 0..codeNow'
      BY <1>1, <2>2
    <3>2. h \in [1..Len(accepted) -> 0..codeNow']
      BY <2>1, <3>1 DEF AcceptedAt
    <3>3. QED
      BY <1>1, <2>1, <3>2 DEF AcceptedAt, VerifiesAt, StepAt
  <2>5. Remembers(seen, accepted, h, q)'
    BY <1>1, <2>1 DEF Remembers
  <2>6. LatestCovered(h, q)'
    <3> SUFFICES ASSUME NEW i \in 1..Len(accepted), Len(accepted) - i < ReplayMemory, codeNow' - h[i] < ReplayWindow
                 PROVE  Covered(seen, q, i)
      BY <1>1 DEF LatestCovered, Covered
    <3>1. ReplayWindow \in Nat
      BY ReplayAssumption
    <3>2. codeNow - h[i] < ReplayWindow
      BY <1>1, <2>2, <2>3, <3>1
    <3>3. QED
      BY <2>1, <3>2 DEF LatestCovered
  <2>7. QED
    BY <2>2, <2>4, <2>5, <2>6 DEF CodesInv
<1>2. CASE UNCHANGED replayVars
  BY <1>1, <1>2 DEF replayVars
<1>3. CASE CodeTick
  BY <1>1, <1>3 DEF CodeTick
<1>4. QED
  BY <1>2, <1>3, CodesAccept, CodesRefuse DEF ReplayNext

\* Nothing has been accepted yet.
LEMMA CodesIndInit == ReplayInit => CodesInv
<1> SUFFICES ASSUME ReplayInit PROVE CodesInv
  OBVIOUS
<1>1. codeNow = 0 /\ seen = <<>> /\ accepted = <<>>
  BY DEF ReplayInit
<1>2. CodesTypes /\ RepeatIsFar
  BY <1>1, ReplayAssumption DEF CodesTypes, RepeatIsFar
<1> DEFINE h == [i \in 1..0 |-> 0]
           q == [i \in 1..0 |-> 1]
<1>3. AcceptedAt(h) /\ Remembers(seen, accepted, h, q) /\ LatestCovered(h, q)
  <2>1. Len(seen) = 0 /\ Len(accepted) = 0 /\ 1..0 = {}
    BY <1>1
  <2>2. QED
    BY <2>1 DEF AcceptedAt, Remembers, LatestCovered
<1> HIDE DEF h, q
<1>4. QED
  BY <1>2, <1>3 DEF CodesInv

\* RepeatIsFar of ReplayGuard: a code that was accepted is accepted again only
\* after ReplayMemory others (totp.rs, accept_at), for any length of a time step
\* and any window not shorter than three of them.
THEOREM RepeatIsFarHolds == ReplaySpec => []RepeatIsFar
<1>1. CodesInv => RepeatIsFar
  BY DEF CodesInv
<1>2. QED
  BY <1>1, CodesIndInit, CodesIndStep, PTL DEF ReplaySpec

----------------------------------------------------------------------------
(* ModeTracker: up to a full reset a client's terminal scans as the server *)
(* does, so as long as none has left the ring, one that has seen every      *)
(* byte shows what the ring makes of the modes at its front.                *)

Terminal == [scan : {"ground", "esc", "csi"}, buf : Seq(Params), alt : AltMode \cup {NoAlt}, flags : SUBSET FlagMode]
Tidy(t) == t \in Terminal /\ (t.scan = "ground" => t.buf = <<>>)

\* The four things that go through a sequence one element at a time.
StepOf(kind, t, b) ==
  CASE kind = "show"  -> TermByte(t, b)
    [] kind = "feed"  -> ScanByte(t, b)
    [] kind = "set"   -> ApplyMode(t, b, TRUE)
    [] kind = "reset" -> ApplyMode(t, b, FALSE)

\* g is what kind makes of t with the first 0, 1, ... elements of s.
Goes(g, kind, t, s) == g[0] = t /\ \A k \in Nat : k < Len(s) => g[k + 1] = StepOf(kind, g[k], s[k + 1])

\* it is the function that the fold of kind over s, of length n, computes.
FoldsStep(it, kind, t, s, n) ==
  it = [S \in SUBSET (1..n) |-> IF S = {} THEN t ELSE StepOf(kind, it[S \ {Max(S)}], s[Max(S)])]

\* There is such a function.
LEMMA StepFoldThere ==
  ASSUME NEW n \in Nat, NEW kind, NEW t, NEW s
  PROVE  \E it : FoldsStep(it, kind, t, s, n)
<1> DEFINE D == {m \in Nat : \E f : FoldsStep(f, kind, t, s, m)}
<1>1. 0 \in D
  <2> DEFINE f == [S \in SUBSET (1..0) |-> t]
  <2>1. SUBSET (1..0) = {{}}
    <3>1. 1..0 = {}
      OBVIOUS
    <3>2. QED
      BY <3>1
  <2>2. f = [S \in SUBSET (1..0) |-> IF S = {} THEN t ELSE StepOf(kind, f[S \ {Max(S)}], s[Max(S)])]
    BY <2>1
  <2> HIDE DEF f
  <2>3. FoldsStep(f, kind, t, s, 0)
    BY <2>2 DEF FoldsStep
  <2>4. QED
    BY <2>3
<1>2. ASSUME NEW m \in Nat, m \in D PROVE m + 1 \in D
  <2>1. PICK g : FoldsStep(g, kind, t, s, m)
    BY <1>2
  <2> DEFINE f == [S \in SUBSET (1..(m + 1)) |->
                     IF m + 1 \in S THEN StepOf(kind, g[S \ {m + 1}], s[m + 1]) ELSE g[S]]
  <2>2. ASSUME NEW S \in SUBSET (1..(m + 1)) PROVE (S \ {m + 1}) \in SUBSET (1..m) /\ (m + 1 \notin S => S \in SUBSET (1..m))
    OBVIOUS
  <2>3. ASSUME NEW S \in SUBSET (1..(m + 1))
        PROVE  f[S] = IF S = {} THEN t ELSE StepOf(kind, f[S \ {Max(S)}], s[Max(S)])
    <3>1. CASE S = {}
      <4>1. f[S] = g[S] /\ S \in SUBSET (1..m)
        BY <3>1
      <4>2. g[S] = t
        BY <2>1, <3>1, <4>1 DEF FoldsStep
      <4>3. QED
        BY <3>1, <4>1, <4>2
    <3>2. CASE m + 1 \in S
      <4>1. Max(S) \in S /\ \A y \in S : Max(S) >= y
        <5>1. m + 1 \in Nat /\ S # {}
          BY <3>2
        <5>2. QED
          BY <5>1, MaxOf
      <4>2. Max(S) = m + 1
        <5>1. Max(S) \in 1..(m + 1) /\ Max(S) >= m + 1
          BY <3>2, <4>1
        <5>2. QED
          BY <5>1
      <4>3. f[S \ {m + 1}] = g[S \ {m + 1}]
        OBVIOUS
      <4>4. f[S] = StepOf(kind, g[S \ {m + 1}], s[m + 1])
        BY <3>2
      <4>5. QED
        BY <3>2, <4>2, <4>3, <4>4
    <3>3. CASE S # {} /\ m + 1 \notin S
      <4>1. S \in SUBSET (1..m) /\ (S \ {Max(S)}) \in SUBSET (1..m) /\ m + 1 \notin S \ {Max(S)}
        BY <2>2, <3>3
      <4>2. f[S] = g[S] /\ f[S \ {Max(S)}] = g[S \ {Max(S)}]
        BY <3>3, <4>1
      <4>3. g[S] = StepOf(kind, g[S \ {Max(S)}], s[Max(S)])
        BY <2>1, <3>3, <4>1 DEF FoldsStep
      <4>4. QED
        BY <3>3, <4>2, <4>3
    <3>4. QED
      BY <3>1, <3>2, <3>3
  <2>4. FoldsStep(f, kind, t, s, m + 1)
    <3>1. f = [S \in SUBSET (1..(m + 1)) |-> f[S]]
      OBVIOUS
    <3> HIDE DEF f
    <3>2. QED
      BY <2>3, <3>1 DEF FoldsStep
  <2> HIDE DEF f
  <2>5. QED
    BY <2>4
<1> HIDE DEF D
<1>3. n \in D
  BY <1>1, <1>2, NatInduct
<1>4. QED
  BY <1>3 DEF D

\* It takes the elements one at a time.
LEMMA StepFoldGoes ==
  ASSUME NEW n \in Nat, NEW kind, NEW t, NEW s, Len(s) = n, NEW it, FoldsStep(it, kind, t, s, n)
  PROVE  \E g : Goes(g, kind, t, s) /\ it[1..n] = g[n]
<1> DEFINE g == [k \in Nat |-> it[1..k]]
<1>1. g[0] = t
  <2>1. 1..0 = {} /\ {} \in SUBSET (1..n)
    OBVIOUS
  <2>2. it[{}] = t
    BY <2>1 DEF FoldsStep
  <2>3. QED
    BY <2>1, <2>2
<1>2. ASSUME NEW k \in Nat, k < n PROVE g[k + 1] = StepOf(kind, g[k], s[k + 1])
  <2>1. (1..(k + 1)) \in SUBSET (1..n) /\ (1..(k + 1)) # {} /\ k + 1 \in 1..(k + 1)
    BY <1>2
  <2>2. Max(1..(k + 1)) \in 1..(k + 1) /\ \A y \in 1..(k + 1) : Max(1..(k + 1)) >= y
    BY <2>1, MaxOf
  <2>3. Max(1..(k + 1)) = k + 1
    BY <2>1, <2>2
  <2>4. (1..(k + 1)) \ {k + 1} = 1..k
    OBVIOUS
  <2>5. it[1..(k + 1)] = StepOf(kind, it[(1..(k + 1)) \ {Max(1..(k + 1))}], s[Max(1..(k + 1))])
    BY <2>1 DEF FoldsStep
  <2>6. g[k + 1] = it[1..(k + 1)] /\ g[k] = it[1..k]
    OBVIOUS
  <2> HIDE DEF g
  <2>7. QED
    BY <2>3, <2>4, <2>5, <2>6
<1>3. it[1..n] = g[n]
  OBVIOUS
<1> HIDE DEF g
<1>4. QED
  BY <1>1, <1>2, <1>3 DEF Goes

\* A client's terminal, byte by byte.
LEMMA ShowGoes ==
  ASSUME NEW t, NEW s \in Seq(ModeByte)
  PROVE  \E g : Goes(g, "show", t, s) /\ Show(t, s) = g[Len(s)]
<1>1. PICK n \in Nat : n = Len(s) /\ DOMAIN s = 1..n
  OBVIOUS
<1> DEFINE Kept(f) == f = [S \in SUBSET (1..n) |-> IF S = {} THEN t ELSE TermByte(f[S \ {Max(S)}], s[Max(S)])]
<1>2. Show(t, s) = (CHOOSE f : Kept(f))[1..n]
  BY <1>1 DEF Show, FoldLeft, MapThenFoldSet
<1>3. \A f : Kept(f) <=> FoldsStep(f, "show", t, s, n)
  BY DEF FoldsStep, StepOf
<1>4. \E f : Kept(f)
  BY <1>3, StepFoldThere
<1> DEFINE it == CHOOSE f : Kept(f)
<1>5. Kept(it)
  BY <1>4
<1> HIDE DEF it, Kept
<1>6. FoldsStep(it, "show", t, s, n)
  BY <1>3, <1>5
<1>7. \E g : Goes(g, "show", t, s) /\ it[1..n] = g[n]
  BY <1>1, <1>6, StepFoldGoes
<1>8. QED
  BY <1>1, <1>2, <1>7 DEF it

\* The scanner, byte by byte.
LEMMA FeedGoes ==
  ASSUME NEW t, NEW s \in Seq(ModeByte)
  PROVE  \E g : Goes(g, "feed", t, s) /\ Feed(t, s) = g[Len(s)]
<1>1. PICK n \in Nat : n = Len(s) /\ DOMAIN s = 1..n
  OBVIOUS
<1> DEFINE Kept(f) == f = [S \in SUBSET (1..n) |-> IF S = {} THEN t ELSE ScanByte(f[S \ {Max(S)}], s[Max(S)])]
<1>2. Feed(t, s) = (CHOOSE f : Kept(f))[1..n]
  BY <1>1 DEF Feed, FoldLeft, MapThenFoldSet
<1>3. \A f : Kept(f) <=> FoldsStep(f, "feed", t, s, n)
  BY DEF FoldsStep, StepOf
<1>4. \E f : Kept(f)
  BY <1>3, StepFoldThere
<1> DEFINE it == CHOOSE f : Kept(f)
<1>5. Kept(it)
  BY <1>4
<1> HIDE DEF it, Kept
<1>6. FoldsStep(it, "feed", t, s, n)
  BY <1>3, <1>5
<1>7. \E g : Goes(g, "feed", t, s) /\ it[1..n] = g[n]
  BY <1>1, <1>6, StepFoldGoes
<1>8. QED
  BY <1>1, <1>2, <1>7 DEF it

\* One parameter changes nothing but the modes.
LEMMA ApplyKeeps ==
  ASSUME NEW t, Tidy(t), NEW p, NEW set \in BOOLEAN
  PROVE  Tidy(ApplyMode(t, p, set)) /\ ApplyMode(t, p, set).scan = t.scan
<1>1. t = [scan |-> t.scan, buf |-> t.buf, alt |-> t.alt, flags |-> t.flags]
  BY DEF Tidy, Terminal
<1>2. /\ t.scan \in {"ground", "esc", "csi"} /\ t.buf \in Seq(Params) /\ t.alt \in AltMode \cup {NoAlt}
      /\ t.flags \in SUBSET FlagMode /\ (t.scan = "ground" => t.buf = <<>>)
  BY DEF Tidy, Terminal
<1>3. ASSUME NEW al \in AltMode \cup {NoAlt}, NEW fl \in SUBSET FlagMode,
             NEW u, u = [scan |-> t.scan, buf |-> t.buf, alt |-> al, flags |-> fl]
      PROVE  Tidy(u) /\ u.scan = t.scan
  BY <1>2, <1>3 DEF Tidy, Terminal
<1>4. CASE p \in AltMode /\ ApplyMode(t, p, set) = [t EXCEPT !.alt = IF set THEN p ELSE NoAlt]
  <2>1. ApplyMode(t, p, set) = [scan |-> t.scan, buf |-> t.buf, alt |-> IF set THEN p ELSE NoAlt, flags |-> t.flags]
    BY <1>1, <1>4
  <2>2. (IF set THEN p ELSE NoAlt) \in AltMode \cup {NoAlt}
    BY <1>4
  <2>3. QED
    BY <1>2, <1>3, <2>1, <2>2
<1>5. CASE p \in FlagMode /\ ApplyMode(t, p, set) = [t EXCEPT !.flags = IF set THEN @ \cup {p} ELSE @ \ {p}]
  <2>1. ApplyMode(t, p, set) = [scan |-> t.scan, buf |-> t.buf, alt |-> t.alt,
                                flags |-> IF set THEN t.flags \cup {p} ELSE t.flags \ {p}]
    BY <1>1, <1>5
  <2>2. (IF set THEN t.flags \cup {p} ELSE t.flags \ {p}) \in SUBSET FlagMode
    BY <1>2, <1>5
  <2>3. QED
    BY <1>2, <1>3, <2>1, <2>2
<1>6. CASE ApplyMode(t, p, set) = t
  BY <1>6
<1>7. QED
  BY <1>4, <1>5, <1>6 DEF ApplyMode

\* What keeps a terminal tidy step by step keeps it so to the end.
LEMMA GoesTidy ==
  ASSUME NEW kind, NEW t, Tidy(t), NEW s \in Seq(ModeByte), NEW g, Goes(g, kind, t, s),
         \A u, b : Tidy(u) /\ (\E i \in 1..Len(s) : b = s[i]) => Tidy(StepOf(kind, u, b))
  PROVE  \A k \in Nat : k <= Len(s) => Tidy(g[k])
<1>1. PICK n \in Nat : n = Len(s)
  OBVIOUS
<1> DEFINE D == {k \in Nat : k <= n => Tidy(g[k])}
<1>2. 0 \in D
  BY DEF Goes
<1>3. ASSUME NEW k \in Nat, k \in D PROVE k + 1 \in D
  <2> SUFFICES ASSUME k + 1 <= n PROVE Tidy(g[k + 1])
    OBVIOUS
  <2>1. k + 1 \in 1..n /\ k < n /\ Tidy(g[k])
    BY <1>3
  <2>2. g[k + 1] = StepOf(kind, g[k], s[k + 1])
    BY <1>1, <2>1 DEF Goes
  <2>3. QED
    BY <1>1, <2>1, <2>2
<1> HIDE DEF D
<1>4. \A k \in Nat : k \in D
  BY <1>2, <1>3, NatInduct
<1>5. QED
  BY <1>1, <1>4 DEF D

\* A private sequence changes nothing but the modes.
LEMMA DispatchKeeps == ASSUME NEW t, Tidy(t), NEW final PROVE Tidy(Dispatch(t, final))
<1>1. CASE final \in {"h", "l"} /\ t.buf # <<>> /\ Head(t.buf) = "?"
  <2>1. PICK bu \in Seq(Params) : bu = t.buf
    BY DEF Tidy, Terminal
  <2>2. PICK s : s = Tail(t.buf) /\ s \in Seq(Params)
    <3>1. Tail(bu) \in Seq(Params)
      BY <1>1, <2>1
    <3>2. QED
      BY <2>1, <3>1
  <2>3. Params \subseteq ModeByte
    BY DEF ModeByte
  <2>4. s \in Seq(ModeByte)
    BY <2>2, <2>3
  <2>5. PICK n \in Nat : n = Len(s) /\ DOMAIN s = 1..n
    BY <2>2
  <2>6. PICK set \in BOOLEAN : set = (final = "h")
    OBVIOUS
  <2>7. PICK kind : kind = IF set THEN "set" ELSE "reset"
    OBVIOUS
  <2>8. \A u, b : StepOf(kind, u, b) = ApplyMode(u, b, set)
    BY <2>7 DEF StepOf
  <2> DEFINE Kept(f) == f = [S \in SUBSET (1..n) |-> IF S = {} THEN t ELSE ApplyMode(f[S \ {Max(S)}], s[Max(S)], set)]
  <2>9. Dispatch(t, final) = (CHOOSE f : Kept(f))[1..n]
    BY <1>1, <2>2, <2>5, <2>6 DEF Dispatch, FoldLeft, MapThenFoldSet
  <2>10. \A f : Kept(f) <=> FoldsStep(f, kind, t, s, n)
    BY <2>8 DEF FoldsStep
  <2>11. \E f : Kept(f)
    BY <2>10, StepFoldThere
  <2> DEFINE it == CHOOSE f : Kept(f)
  <2>12. Kept(it)
    BY <2>11
  <2> HIDE DEF it, Kept
  <2>13. FoldsStep(it, kind, t, s, n)
    BY <2>10, <2>12
  <2>14. PICK g : Goes(g, kind, t, s) /\ it[1..n] = g[n]
    BY <2>5, <2>13, StepFoldGoes
  <2>15. \A u, b : Tidy(u) => Tidy(StepOf(kind, u, b))
    BY <2>8, ApplyKeeps
  <2>16. \A k \in Nat : k <= n => Tidy(g[k])
    BY <2>4, <2>5, <2>14, <2>15, GoesTidy
  <2>17. Tidy(g[n])
    BY <2>16
  <2>18. QED
    BY <2>9, <2>14, <2>17 DEF it
<1>2. CASE ~(final \in {"h", "l"} /\ t.buf # <<>> /\ Head(t.buf) = "?")
  BY <1>2 DEF Dispatch
<1>3. QED
  BY <1>1, <1>2

\* A terminal moved to another place in a sequence, with other parameters.
LEMMA TidyAt ==
  ASSUME NEW t, Tidy(t), NEW sc \in {"ground", "esc", "csi"}, NEW bu \in Seq(Params), sc = "ground" => bu = <<>>,
         NEW u, u = [scan |-> sc, buf |-> bu, alt |-> t.alt, flags |-> t.flags]
  PROVE  Tidy(u)
<1>1. t.alt \in AltMode \cup {NoAlt} /\ t.flags \in SUBSET FlagMode
  BY DEF Tidy, Terminal
<1>2. QED
  BY <1>1 DEF Tidy, Terminal

\* One byte leaves a terminal tidy.
LEMMA ScanKeeps == ASSUME NEW t, Tidy(t), NEW b PROVE Tidy(ScanByte(t, b))
<1>1. t = [scan |-> t.scan, buf |-> t.buf, alt |-> t.alt, flags |-> t.flags] /\ t.buf \in Seq(Params) /\ <<>> \in Seq(Params)
  BY DEF Tidy, Terminal
<1>2. ASSUME NEW u, Tidy(u) PROVE Tidy(Ground(u)) /\ Tidy(Escaped(u))
  <2>1. PICK sc, bu, al, fl : u = [scan |-> sc, buf |-> bu, alt |-> al, flags |-> fl]
    BY <1>2 DEF Tidy, Terminal
  <2>2. Ground(u) = [scan |-> "ground", buf |-> <<>>, alt |-> u.alt, flags |-> u.flags]
    <3>1. Ground(u) = [[u EXCEPT !.scan = "ground"] EXCEPT !.buf = <<>>]
      BY DEF Ground
    <3>2. [u EXCEPT !.scan = "ground"] = [scan |-> "ground", buf |-> bu, alt |-> al, flags |-> fl]
      BY <2>1
    <3>3. Ground(u) = [scan |-> "ground", buf |-> <<>>, alt |-> al, flags |-> fl]
      BY <3>1, <3>2
    <3>4. u.alt = al /\ u.flags = fl
      BY <2>1
    <3>5. QED
      BY <3>3, <3>4
  <2>3. Escaped(u) = [scan |-> "esc", buf |-> <<>>, alt |-> u.alt, flags |-> u.flags]
    <3>1. Escaped(u) = [[u EXCEPT !.scan = "esc"] EXCEPT !.buf = <<>>]
      BY DEF Escaped
    <3>2. [u EXCEPT !.scan = "esc"] = [scan |-> "esc", buf |-> bu, alt |-> al, flags |-> fl]
      BY <2>1
    <3>3. Escaped(u) = [scan |-> "esc", buf |-> <<>>, alt |-> al, flags |-> fl]
      BY <3>1, <3>2
    <3>4. u.alt = al /\ u.flags = fl
      BY <2>1
    <3>5. QED
      BY <3>3, <3>4
  <2>4. Tidy(Ground(u))
    BY <1>1, <1>2, <2>2, TidyAt
  <2>5. Tidy(Escaped(u))
    BY <1>1, <1>2, <2>3, TidyAt
  <2>6. QED
    BY <2>4, <2>5
<1>3. Tidy([t EXCEPT !.scan = "csi"])
  <2>1. [t EXCEPT !.scan = "csi"] = [scan |-> "csi", buf |-> t.buf, alt |-> t.alt, flags |-> t.flags]
    BY <1>1
  <2>2. QED
    BY <1>1, <2>1, TidyAt
<1>4. ASSUME b \in Params, t.scan = "csi" PROVE Tidy([t EXCEPT !.buf = Keep(@, b)])
  <2>1. Keep(t.buf, b) \in Seq(Params)
    BY <1>1, <1>4 DEF Keep
  <2>2. [t EXCEPT !.buf = Keep(@, b)] = [scan |-> "csi", buf |-> Keep(t.buf, b), alt |-> t.alt, flags |-> t.flags]
    BY <1>1, <1>4
  <2>3. QED
    BY <2>1, <2>2, TidyAt
<1>5. Tidy(Ground(Dispatch(t, b)))
  BY <1>2, DispatchKeeps
<1>6. \/ ScanByte(t, b) = Escaped(t) \/ ScanByte(t, b) = t \/ ScanByte(t, b) = [t EXCEPT !.scan = "csi"]
      \/ ScanByte(t, b) = Ground(t)
      \/ b \in Params /\ t.scan = "csi" /\ ScanByte(t, b) = [t EXCEPT !.buf = Keep(@, b)]
      \/ ScanByte(t, b) = Ground(Dispatch(t, b))
  BY DEF ScanByte
<1>7. QED
  BY <1>2, <1>3, <1>4, <1>5, <1>6

\* After a byte the scanner is behind an escape if and only if the byte was one.
LEMMA ScanEscapes == ASSUME NEW t, Tidy(t), NEW b PROVE (ScanByte(t, b).scan = "esc") = (b = "esc")
<1>1. ASSUME NEW u, Tidy(u) PROVE Ground(u).scan = "ground" /\ Escaped(u).scan = "esc"
  <2>1. PICK sc, bu, al, fl : u = [scan |-> sc, buf |-> bu, alt |-> al, flags |-> fl]
    BY <1>1 DEF Tidy, Terminal
  <2>2. /\ Ground(u) = [[u EXCEPT !.scan = "ground"] EXCEPT !.buf = <<>>]
        /\ Escaped(u) = [[u EXCEPT !.scan = "esc"] EXCEPT !.buf = <<>>]
    BY DEF Ground, Escaped
  <2>3. /\ [u EXCEPT !.scan = "ground"] = [scan |-> "ground", buf |-> bu, alt |-> al, flags |-> fl]
        /\ [u EXCEPT !.scan = "esc"] = [scan |-> "esc", buf |-> bu, alt |-> al, flags |-> fl]
    BY <2>1
  <2>4. QED
    BY <2>2, <2>3
<1>2. CASE b = "esc"
  <2>1. "esc" \notin Params /\ "esc" \notin {"[", "nl"}
    BY ModeAssumption DEF Params
  <2>2. ScanByte(t, b) = Escaped(t)
    BY <1>2, <2>1 DEF ScanByte
  <2>3. QED
    BY <1>1, <1>2, <2>2
<1>3. CASE b # "esc"
  <2>1. PICK sc, bu, al, fl : t = [scan |-> sc, buf |-> bu, alt |-> al, flags |-> fl]
    BY DEF Tidy, Terminal
  <2>2. [t EXCEPT !.scan = "csi"].scan = "csi" /\ [t EXCEPT !.buf = Keep(@, b)].scan = t.scan
    BY <2>1
  <2>3. Ground(t).scan = "ground" /\ Ground(Dispatch(t, b)).scan = "ground"
    BY <1>1, DispatchKeeps
  <2>4. \/ ScanByte(t, b) = t /\ t.scan \in {"ground", "csi"}
        \/ ScanByte(t, b) = [t EXCEPT !.scan = "csi"]
        \/ ScanByte(t, b) = Ground(t)
        \/ t.scan = "csi" /\ ScanByte(t, b) = [t EXCEPT !.buf = Keep(@, b)]
        \/ ScanByte(t, b) = Ground(Dispatch(t, b))
    BY <1>3 DEF ScanByte
  <2>5. ScanByte(t, b).scan # "esc"
    BY <2>2, <2>3, <2>4
  <2>6. QED
    BY <1>3, <2>5
<1>4. QED
  BY <1>2, <1>3

\* Fed with bytes a terminal stays tidy, and if they end no full reset, the
\* scanner does with them what a client's terminal does.
LEMMA ShowIsFeed ==
  ASSUME NEW t, Tidy(t), NEW s \in Seq(ModeByte)
  PROVE  Tidy(Feed(t, s)) /\ (~ResetIn(t, s) => Show(t, s) = Feed(t, s))
<1>1. PICK n \in Nat : n = Len(s)
  OBVIOUS
<1>2. PICK g : Goes(g, "show", t, s) /\ Show(t, s) = g[n]
  BY <1>1, ShowGoes
<1>3. PICK f : Goes(f, "feed", t, s) /\ Feed(t, s) = f[n]
  BY <1>1, FeedGoes
<1>4. \A u, b : Tidy(u) => Tidy(StepOf("feed", u, b))
  BY ScanKeeps DEF StepOf
<1>5. \A k \in Nat : k <= n => Tidy(f[k])
  BY <1>1, <1>3, <1>4, GoesTidy
<1>6. f[0] = t /\ g[0] = t
  BY <1>2, <1>3 DEF Goes
<1>7. ASSUME NEW k \in Nat, k < n
      PROVE  f[k + 1] = ScanByte(f[k], s[k + 1]) /\ g[k + 1] = TermByte(g[k], s[k + 1]) /\ Tidy(f[k])
  <2>1. f[k + 1] = StepOf("feed", f[k], s[k + 1]) /\ g[k + 1] = StepOf("show", g[k], s[k + 1])
    BY <1>1, <1>2, <1>3, <1>7 DEF Goes
  <2>2. QED
    BY <1>5, <1>7, <2>1 DEF StepOf
<1>8. ASSUME NEW k \in Nat, 0 < k, k <= n PROVE (f[k].scan = "esc") = (s[k] = "esc")
  <2>1. PICK j \in Nat : j + 1 = k /\ j < n
    <3>1. k - 1 \in Nat /\ (k - 1) + 1 = k /\ k - 1 < n
      BY <1>8
    <3>2. QED
      BY <3>1
  <2>2. f[j + 1] = ScanByte(f[j], s[j + 1]) /\ Tidy(f[j])
    BY <1>7, <2>1
  <2>3. QED
    BY <2>1, <2>2, ScanEscapes
<1>9. ASSUME ~ResetIn(t, s) PROVE g[n] = f[n]
  <2> DEFINE D == {k \in Nat : k <= n => g[k] = f[k]}
  <2>1. 0 \in D
    BY <1>6
  <2>2. ASSUME NEW k \in Nat, k \in D PROVE k + 1 \in D
    <3> SUFFICES ASSUME k + 1 <= n PROVE g[k + 1] = f[k + 1]
      OBVIOUS
    <3>1. k < n /\ k + 1 \in 1..n /\ g[k] = f[k]
      BY <2>2
    <3>2. ~(f[k].scan = "esc" /\ s[k + 1] = "c")
      <4>1. ~(s[k + 1] = "c" /\ IF k + 1 = 1 THEN t.scan = "esc" ELSE s[(k + 1) - 1] = "esc")
        BY <1>1, <1>9, <3>1 DEF ResetIn
      <4>2. CASE k = 0
        BY <1>6, <4>1, <4>2
      <4>3. CASE k # 0
        <5>1. k + 1 # 1 /\ (k + 1) - 1 = k /\ 0 < k /\ k <= n
          BY <3>1, <4>3
        <5>2. (f[k].scan = "esc") = (s[k] = "esc")
          BY <1>8, <5>1
        <5>3. QED
          BY <4>1, <5>1, <5>2
      <4>4. QED
        BY <4>2, <4>3
    <3>3. f[k + 1] = ScanByte(f[k], s[k + 1]) /\ g[k + 1] = TermByte(g[k], s[k + 1])
      BY <1>7, <3>1
    <3>4. QED
      BY <3>1, <3>2, <3>3 DEF TermByte
  <2> HIDE DEF D
  <2>3. n \in D
    BY <2>1, <2>2, NatInduct
  <2>4. QED
    BY <2>3 DEF D
<1>10. QED
  BY <1>2, <1>3, <1>5, <1>9

\* Bytes shown at once, or in two parts.
LEMMA ShowJoins ==
  ASSUME NEW t, NEW a \in Seq(ModeByte), NEW b \in Seq(ModeByte)
  PROVE  Show(t, a \o b) = Show(Show(t, a), b)
<1>1. PICK m \in Nat, n \in Nat : m = Len(a) /\ n = Len(b)
  OBVIOUS
<1>2. PICK s : s = a \o b
  OBVIOUS
<1>3. /\ s \in Seq(ModeByte) /\ Len(s) = m + n /\ (\A i \in 1..m : s[i] = a[i])
      /\ \A i \in 1..n : s[m + i] = b[i]
  BY <1>1, <1>2
<1>4. PICK g : Goes(g, "show", t, s) /\ Show(t, s) = g[m + n]
  BY <1>3, ShowGoes
<1>5. PICK f : Goes(f, "show", t, a) /\ Show(t, a) = f[m]
  BY <1>1, ShowGoes
<1>6. PICK h : Goes(h, "show", Show(t, a), b) /\ Show(Show(t, a), b) = h[n]
  BY <1>1, ShowGoes
<1>7. g[m] = f[m]
  <2> DEFINE D == {k \in Nat : k <= m => g[k] = f[k]}
  <2>1. 0 \in D
    BY <1>4, <1>5 DEF Goes
  <2>2. ASSUME NEW k \in Nat, k \in D PROVE k + 1 \in D
    <3> SUFFICES ASSUME k + 1 <= m PROVE g[k + 1] = f[k + 1]
      OBVIOUS
    <3>1. k + 1 \in 1..m /\ k < m /\ k < m + n /\ g[k] = f[k]
      BY <2>2
    <3>2. g[k + 1] = StepOf("show", g[k], s[k + 1])
      BY <1>3, <1>4, <3>1 DEF Goes
    <3>3. f[k + 1] = StepOf("show", f[k], a[k + 1])
      BY <1>1, <1>5, <3>1 DEF Goes
    <3>4. QED
      BY <1>3, <3>1, <3>2, <3>3
  <2> HIDE DEF D
  <2>3. m \in D
    BY <2>1, <2>2, NatInduct
  <2>4. QED
    BY <2>3 DEF D
<1>8. g[m + n] = h[n]
  <2> DEFINE D == {k \in Nat : k <= n => g[m + k] = h[k]}
  <2>1. 0 \in D
    <3>1. h[0] = f[m]
      BY <1>5, <1>6 DEF Goes
    <3>2. m + 0 = m
      OBVIOUS
    <3>3. QED
      BY <1>7, <3>1, <3>2
  <2>2. ASSUME NEW k \in Nat, k \in D PROVE k + 1 \in D
    <3> SUFFICES ASSUME k + 1 <= n PROVE g[m + (k + 1)] = h[k + 1]
      OBVIOUS
    <3>1. k + 1 \in 1..n /\ k < n /\ m + k \in Nat /\ m + k < m + n /\ m + (k + 1) = (m + k) + 1 /\ g[m + k] = h[k]
      BY <2>2
    <3>2. g[(m + k) + 1] = StepOf("show", g[m + k], s[(m + k) + 1])
      BY <1>3, <1>4, <3>1 DEF Goes
    <3>3. h[k + 1] = StepOf("show", h[k], b[k + 1])
      BY <1>1, <1>6, <3>1 DEF Goes
    <3>4. s[m + (k + 1)] = b[k + 1]
      BY <1>3, <3>1
    <3>5. QED
      BY <3>1, <3>2, <3>3, <3>4
  <2> HIDE DEF D
  <2>3. n \in D
    BY <2>1, <2>2, NatInduct
  <2>4. QED
    BY <2>3 DEF D
<1>9. QED
  BY <1>2, <1>4, <1>6, <1>8

\* A sequence is its two parts.
LEMMA CutInTwo ==
  ASSUME NEW T, NEW s \in Seq(T), NEW k \in 0..Len(s)
  PROVE  /\ SubSeq(s, 1, k) \in Seq(T) /\ SubSeq(s, k + 1, Len(s)) \in Seq(T)
         /\ s = SubSeq(s, 1, k) \o SubSeq(s, k + 1, Len(s))
<1>1. SubSeq(s, 1, k) \o SubSeq(s, k + 1, Len(s)) = SubSeq(s, 1, Len(s))
  <2>1. PICK n \in Nat : n = Len(s)
    OBVIOUS
  <2>2. 1 \in 1..(n + 1) /\ k \in (1 - 1)..n /\ n \in k..n
    BY <2>1
  <2>3. QED
    BY <2>1, <2>2, ConcatAdjacentSubSeq
<1>2. SubSeq(s, 1, Len(s)) = s
  BY SubSeqFull
<1>3. SubSeq(s, 1, k) \in Seq(T) /\ SubSeq(s, k + 1, Len(s)) \in Seq(T)
  OBVIOUS
<1>4. QED
  BY <1>1, <1>2, <1>3

\* The inductive invariant: until a full reset leaves the ring, one who has seen
\* every byte shows what the ring makes of the modes at its front.
ModeInv ==
  /\ Tidy(front) /\ ring \in Seq(ModeByte) /\ pending \in Seq(ModeByte)
  /\ ~resetGone => watcher = Show(front, ring)

\* A read from the PTY: what the ring forgets, the modes at its front take in.
LEMMA ModePush == ASSUME ModeInv, NEW n \in 1..Len(pending), RingPush(n) PROVE ModeInv'
<1>1. Tidy(front) /\ ring \in Seq(ModeByte) /\ pending \in Seq(ModeByte)
  BY DEF ModeInv
<1>2. PICK data : data = SubSeq(pending, 1, n)
  OBVIOUS
<1>3. PICK all : all = ring \o data
  OBVIOUS
<1>4. PICK over : over = IF Len(all) > RingCap THEN Len(all) - RingCap ELSE 0
  OBVIOUS
<1>5. PICK old, kept : old = SubSeq(all, 1, over) /\ kept = SubSeq(all, over + 1, Len(all))
  OBVIOUS
<1>6. /\ ring' = kept /\ front' = Feed(front, old) /\ resetGone' = (resetGone \/ ResetIn(front, old))
      /\ watcher' = Show(watcher, data) /\ pending' = SubSeq(pending, n + 1, Len(pending))
  BY <1>2, <1>3, <1>4, <1>5 DEF RingPush
<1>7. data \in Seq(ModeByte) /\ pending' \in Seq(ModeByte)
  <2>1. n \in 0..Len(pending)
    BY <1>1
  <2>2. QED
    BY <1>1, <1>2, <1>6, <2>1, CutInTwo
<1>8. all \in Seq(ModeByte)
  BY <1>1, <1>3, <1>7
<1>9. over \in 0..Len(all)
  <2>1. PICK m \in Nat : m = Len(all)
    BY <1>8
  <2>2. RingCap \in Nat
    BY ModeAssumption
  <2>3. over = IF m > RingCap THEN m - RingCap ELSE 0
    BY <1>4, <2>1
  <2>4. over \in 0..m
    BY <2>2, <2>3
  <2>5. QED
    BY <2>1, <2>4
<1>10. old \in Seq(ModeByte) /\ kept \in Seq(ModeByte) /\ all = old \o kept
  BY <1>5, <1>8, <1>9, CutInTwo
<1>11. Tidy(front')
  BY <1>1, <1>6, <1>10, ShowIsFeed
<1>12. ASSUME ~resetGone' PROVE watcher' = Show(front', ring')
  <2>1. ~resetGone /\ ~ResetIn(front, old)
    BY <1>6, <1>12
  <2>2. watcher = Show(front, ring)
    BY <2>1 DEF ModeInv
  <2>3. front' = Show(front, old)
    BY <1>1, <1>6, <1>10, <2>1, ShowIsFeed
  <2>4. watcher' = Show(front, all)
    BY <1>1, <1>3, <1>6, <1>7, <2>2, ShowJoins
  <2>5. Show(front, all) = Show(front', kept)
    BY <1>10, <2>3, ShowJoins
  <2>6. QED
    BY <1>6, <2>4, <2>5
<1>13. QED
  BY <1>6, <1>7, <1>10, <1>11, <1>12 DEF ModeInv

\* ModesReinstated of ModeTracker: whoever joins with a full replay is in the
\* modes of one who saw every byte (terminals.rs, ModeTracker), for any capacity,
\* any writes and any cuts, until a full reset, which the scanner does not know,
\* leaves the ring.
THEOREM ModesReinstatedHolds == ModeSpec => []ModesReinstated
<1>1. ModeInit => ModeInv
  <2> SUFFICES ASSUME ModeInit PROVE ModeInv
    OBVIOUS
  <2>1. front = Fresh /\ watcher = Fresh /\ ring = <<>> /\ pending = <<>>
    BY DEF ModeInit
  <2>2. Tidy(Fresh)
    BY DEF Tidy, Terminal, Fresh
  <2>3. <<>> \in Seq(ModeByte) /\ Len(<<>>) = 0
    OBVIOUS
  <2>4. PICK g : Goes(g, "show", Fresh, <<>>) /\ Show(Fresh, <<>>) = g[0]
    BY <2>3, ShowGoes
  <2>5. QED
    BY <2>1, <2>2, <2>3, <2>4 DEF Goes, ModeInv
<1>2. ModeInv /\ [ModeNext]_modeVars => ModeInv'
  <2> SUFFICES ASSUME ModeInv, [ModeNext]_modeVars PROVE ModeInv'
    OBVIOUS
  <2>1. ASSUME NEW s \in ModeWrites, ShellWrites(s) PROVE ModeInv'
    <3>1. s \in Seq(ModeByte)
      BY WritesAssumption
    <3>2. pending' = pending \o s /\ ring' = ring /\ front' = front /\ watcher' = watcher /\ resetGone' = resetGone
      BY <2>1 DEF ShellWrites
    <3>3. pending' \in Seq(ModeByte)
      BY <3>1, <3>2 DEF ModeInv
    <3>4. QED
      BY <3>2, <3>3 DEF ModeInv
  <2>2. CASE UNCHANGED modeVars
    BY <2>2 DEF modeVars, ModeInv
  <2>3. QED
    BY <2>1, <2>2, ModePush DEF ModeNext
<1>3. ModeInv => ModesReinstated
  <2> SUFFICES ASSUME ModeInv, front.scan = "ground", ~resetGone
               PROVE  Replayed.alt = watcher.alt /\ Replayed.flags = watcher.flags
    BY DEF ModesReinstated, SameModes
  <2>1. Tidy(front) /\ watcher = Show(front, ring)
    BY DEF ModeInv
  <2>2. front = [scan |-> "ground", buf |-> <<>>, alt |-> front.alt, flags |-> front.flags]
    BY <2>1 DEF Tidy, Terminal
  <2>3. Synth(front) = [scan |-> "ground", buf |-> <<>>, alt |-> front.alt, flags |-> front.flags]
    <3>1. Synth(front) = [[Fresh EXCEPT !.alt = front.alt] EXCEPT !.flags = front.flags]
      BY DEF Synth
    <3>2. PICK al, fl : al = front.alt /\ fl = front.flags
      OBVIOUS
    <3>3. PICK no : no = NoAlt
      OBVIOUS
    <3>4. PICK nil : nil = <<>>
      OBVIOUS
    <3>5. Fresh = [scan |-> "ground", buf |-> nil, alt |-> no, flags |-> {}]
      BY <3>3, <3>4 DEF Fresh
    <3>6. [Fresh EXCEPT !.alt = al] = [scan |-> "ground", buf |-> nil, alt |-> al, flags |-> {}]
      BY <3>5
    <3>7. [[Fresh EXCEPT !.alt = al] EXCEPT !.flags = fl] = [scan |-> "ground", buf |-> nil, alt |-> al, flags |-> fl]
      <4>1. PICK u : u = [Fresh EXCEPT !.alt = al]
        OBVIOUS
      <4>2. u = [scan |-> "ground", buf |-> nil, alt |-> al, flags |-> {}]
        BY <3>6, <4>1
      <4>3. [u EXCEPT !.flags = fl] = [scan |-> "ground", buf |-> nil, alt |-> al, flags |-> fl]
        BY <4>2
      <4>4. QED
        BY <4>1, <4>3
    <3>8. QED
      BY <3>1, <3>2, <3>4, <3>7
  <2>4. Replayed = watcher
    BY <2>1, <2>2, <2>3 DEF Replayed
  <2>5. QED
    BY <2>4
<1>4. QED
  BY <1>1, <1>2, <1>3, PTL DEF ModeSpec

----------------------------------------------------------------------------
(* Startup: what each stage has seen stays true until the process ends,     *)
(* since the settings change only then.                                     *)

CertsGood(s) == s.simple \/ ~s.acme \/ (s.url = "https" /\ s.bind = "443" /\ s.mail)
ChecksGood(s) == s.simple \/ (AllowlistGood(s) /\ MethodsGood(s))

\* Once a cookie was signed with a generated key, that key is on disk.
KeyInv ==
  /\ servedBy \subseteq {fileKey} /\ (servedBy # {} => fileKey # NoKey)
  /\ boots \in Nat /\ (boot # "off" => boots > 0)
  /\ boot \in {"keyed", "certified", "checked"} => ~NeedsKey

StageInv ==
  /\ settings \in BootSetting
  /\ boot \in {"certified", "checked", "serving"} => CertsGood(settings)
  /\ boot \in {"checked", "serving"} => ChecksGood(settings)
  /\ boot = "serving" => \E k : running = ConfigOf(settings, k)

BootInv == KeyInv /\ StageInv

\* The process has never been started.
LEMMA BootIndInit == BootInit => BootInv
BY StartupAssumption DEF BootInit, BootInv, KeyInv, StageInv

\* An edit that sets or clears the variable of the key, or the user, leaves
\* settings that an operator may write.
LEMMA EditedStays ==
  ASSUME NEW s \in BootSetting
  PROVE  [s EXCEPT !.envKey = ~@] \in BootSetting /\ [s EXCEPT !.root = ~@] \in BootSetting
<1>1. \A e \in BOOLEAN : [s EXCEPT !.envKey = e] \in BootSetting
  BY DEF BootSetting
<1>2. \A e \in BOOLEAN : [s EXCEPT !.root = e] \in BootSetting
  BY DEF BootSetting
<1>3. [s EXCEPT !.envKey = ~@] = [s EXCEPT !.envKey = ~s.envKey]
  OBVIOUS
<1>4. [s EXCEPT !.root = ~@] = [s EXCEPT !.root = ~s.root]
  OBVIOUS
<1>5. QED
  BY <1>1, <1>2, <1>3, <1>4

\* Every stage keeps what the stages before it saw.
LEMMA BootIndStep == BootInv /\ [BootNext]_bootVars => BootInv'
<1> SUFFICES ASSUME BootInv, [BootNext]_bootVars PROVE BootInv'
  OBVIOUS
<1>1. KeyInv /\ StageInv
  BY DEF BootInv
<1>2. CASE UNCHANGED bootVars
  BY <1>1, <1>2 DEF bootVars, BootInv, KeyInv, StageInv, NeedsKey
<1>3. CASE BootChoose
  BY <1>1, <1>3 DEF BootChoose, Stage, BootInv, KeyInv, StageInv, NeedsKey
<1>4. CASE BootLoad
  BY <1>1, <1>4 DEF BootLoad, Stage, BootKept, BootInv, KeyInv, StageInv, NeedsKey
<1>5. CASE BootKey
  <2>1. PICK saved \in BOOLEAN :
          /\ boot = "loaded" /\ boot' = (IF ~NeedsKey \/ saved THEN "keyed" ELSE "refused")
          /\ fileKey' = (IF NeedsKey /\ saved THEN boots ELSE fileKey)
          /\ UNCHANGED <<settings, boots, running, servedBy>>
    BY <1>5 DEF BootKey, Stage
  <2>2. boots \in Nat /\ boots > 0 /\ boots # NoKey /\ (NeedsKey => fileKey = NoKey /\ servedBy = {})
    BY <1>1, <2>1 DEF KeyInv, NeedsKey, NoKey
  <2>3. KeyInv'
    BY <1>1, <2>1, <2>2 DEF KeyInv, NeedsKey
  <2>4. StageInv'
    BY <1>1, <2>1 DEF StageInv
  <2>5. QED
    BY <2>3, <2>4 DEF BootInv
<1>6. CASE BootCerts
  <2>1. /\ boot = "keyed" /\ boot' = (IF CertsGood(settings) THEN "certified" ELSE "refused")
        /\ UNCHANGED <<settings, fileKey, boots, running, servedBy>>
    BY <1>6 DEF BootCerts, Stage, BootKept, CertsGood
  <2>2. KeyInv' /\ StageInv'
    BY <1>1, <2>1 DEF KeyInv, NeedsKey, StageInv
  <2>3. QED
    BY <2>2 DEF BootInv
<1>7. CASE BootCheck
  <2>1. /\ boot = "certified" /\ boot' = (IF ChecksGood(settings) THEN "checked" ELSE "refused")
        /\ UNCHANGED <<settings, fileKey, boots, running, servedBy>>
    BY <1>7 DEF BootCheck, Stage, BootKept, ChecksGood
  <2>2. KeyInv' /\ StageInv'
    BY <1>1, <2>1 DEF KeyInv, NeedsKey, StageInv
  <2>3. QED
    BY <2>2 DEF BootInv
<1>8. CASE Serve
  <2>1. /\ boot = "checked" /\ boot' \in {"serving", "refused"} /\ UNCHANGED <<settings, fileKey, boots>>
        /\ boot' = "serving" => running' = ConfigOf(settings, SigningKey)
        /\ \/ servedBy' = servedBy
           \/ ~settings.simple /\ ~settings.envKey /\ servedBy' = servedBy \cup {SigningKey}
    BY <1>8 DEF Serve, Stage
  <2>2. ~settings.simple /\ ~settings.envKey => fileKey # NoKey /\ SigningKey = fileKey
    BY <1>1, <2>1 DEF KeyInv, NeedsKey, SigningKey
  <2>3. KeyInv'
    BY <1>1, <2>1, <2>2 DEF KeyInv
  <2>4. StageInv'
    BY <1>1, <2>1 DEF StageInv
  <2>5. QED
    BY <2>3, <2>4 DEF BootInv
<1>9. CASE BootEnds
  <2>1. /\ boot' = "off" /\ UNCHANGED <<fileKey, boots, servedBy>>
        /\ settings' \in {settings} \cup {[settings EXCEPT !.envKey = ~@], [settings EXCEPT !.root = ~@]}
    BY <1>9 DEF BootEnds
  <2>2. settings' \in BootSetting
    <3>1. settings \in BootSetting
      BY <1>1 DEF StageInv
    <3>2. [settings EXCEPT !.envKey = ~@] \in BootSetting
      BY <3>1, EditedStays
    <3>3. [settings EXCEPT !.root = ~@] \in BootSetting
      BY <3>1, EditedStays
    <3>4. QED
      BY <2>1, <3>1, <3>2, <3>3
  <2>3. KeyInv'
    BY <1>1, <2>1 DEF KeyInv
  <2>4. QED
    BY <2>1, <2>2, <2>3 DEF BootInv, StageInv
<1>10. QED
  BY <1>2, <1>3, <1>4, <1>5, <1>6, <1>7, <1>8, <1>9 DEF BootNext

\* The invariant holds of every reachable state.
LEMMA BootIndHolds == BootSpec => []BootInv
  BY BootIndInit, BootIndStep, PTL DEF BootSpec

\* An even share of a budget is not less than one, and all shares together
\* stay within it.
LEMMA EvenShares ==
  ASSUME NEW n \in 1..64
  PROVE  AggregateBudget \div n \in Nat \ {0} /\ n * (AggregateBudget \div n) <= AggregateBudget
<1>1. AggregateBudget = 268435456
  BY DEF AggregateBudget
<1>2. PICK b \in Nat : b = AggregateBudget /\ b >= 64
  BY <1>1
<1>3. PICK q \in Int : q = b \div n
  OBVIOUS
<1>4. n * q <= b /\ b < n * q + n
  BY <1>3
<1>5. q > 0
  BY <1>2, <1>4
<1>6. QED
  BY <1>2, <1>3, <1>4, <1>5

\* The rings of the slots a user may have: none is empty, and all of them
\* together stay in the budget.
LEMMA RingsFit ==
  ASSUME NEW s \in BootSetting
  PROVE  /\ SlotsOf(s) \in 1..64
         /\ CapOf(s) \in Nat \ {0} /\ SlotsOf(s) * CapOf(s) <= AggregateBudget
<1>1. s.slots \in Nat /\ s.ring \in Nat
  BY DEF BootSetting, Bytes
<1>2. SlotsOf(s) \in 1..64
  BY <1>1 DEF SlotsOf, ClampTo
<1>3. ClampTo(s.ring, 4 * 1024, 16 * 1024 * 1024) \in Nat \ {0}
  <2>1. 4 * 1024 = 4096 /\ 16 * 1024 * 1024 = 16777216
    OBVIOUS
  <2>2. ClampTo(s.ring, 4096, 16777216) \in Nat \ {0}
    BY <1>1 DEF ClampTo
  <2>3. QED
    BY <2>1, <2>2
<1>4. PICK n \in 1..64 : n = SlotsOf(s)
  BY <1>2
<1>5. PICK a \in Nat : a = ClampTo(s.ring, 4 * 1024, 16 * 1024 * 1024) /\ a > 0
  BY <1>3
<1>6. PICK m \in Nat : m = AggregateBudget \div n /\ m > 0 /\ n * m <= AggregateBudget
  <2>1. AggregateBudget \div n \in Nat \ {0} /\ n * (AggregateBudget \div n) <= AggregateBudget
    BY EvenShares
  <2>2. QED
    BY <2>1
<1>7. CapOf(s) = IF a < m THEN a ELSE m
  BY <1>4, <1>5, <1>6 DEF CapOf
<1>8. PICK b \in Nat : b = AggregateBudget
  BY DEF AggregateBudget
<1>9. \A x \in Nat : x <= m => n * x <= b
  <2> SUFFICES ASSUME NEW x \in Nat, x <= m PROVE n * x <= b
    OBVIOUS
  <2>1. n * m <= b
    BY <1>6, <1>8
  <2>2. PICK d \in Nat : m = x + d
    <3>1. m - x \in Nat /\ m = x + (m - x)
      OBVIOUS
    <3>2. QED
      BY <3>1
  <2>3. n * m = n * x + n * d /\ n * x \in Int /\ n * d \in Nat
    BY <2>2
  <2>4. QED
    BY <2>1, <2>2, <2>3
<1>10. PICK c \in Nat : c = CapOf(s) /\ c > 0 /\ c <= m
  BY <1>5, <1>6, <1>7
<1>11. n * c <= b
  BY <1>9, <1>10
<1>12. QED
  BY <1>2, <1>4, <1>8, <1>10, <1>11

\* A Config made of settings that every stage has passed serves soundly.
LEMMA PassedServes ==
  ASSUME settings \in BootSetting, CertsGood(settings), ChecksGood(settings),
         NEW k, running = ConfigOf(settings, k)
  PROVE  ServesSoundly
<1>1. CASE settings.simple
  <2>1. /\ running.slots = 10 /\ running.cap = 128 * 1024 /\ running.methods = {"local"}
        /\ running.remember = FALSE /\ running.tls = FALSE
    BY <1>1 DEF ConfigOf, NoConfig
  <2>2. running.slots * running.cap <= AggregateBudget /\ running.cap > 0 /\ running.slots \in 1..255
    BY <2>1 DEF AggregateBudget
  <2>3. "google" \notin running.methods
    BY <2>1
  <2>4. QED
    BY <2>1, <2>2, <2>3 DEF ServesSoundly
<1>2. CASE ~settings.simple
  <2>1. running = [slots |-> SlotsOf(settings), cap |-> CapOf(settings),
                   secure |-> SecureOf(settings), tls |-> settings.acme,
                   methods |-> MethodsOf(settings), mfa |-> settings.mfa,
                   remember |-> RememberOf(settings), key |-> k]
    BY <1>2 DEF ConfigOf
  <2>2. /\ running.slots = SlotsOf(settings) /\ running.cap = CapOf(settings)
        /\ running.secure = SecureOf(settings) /\ running.tls = settings.acme
        /\ running.methods = MethodsOf(settings) /\ running.mfa = settings.mfa
        /\ running.remember = RememberOf(settings)
    BY <2>1
  <2>3. running.slots \in 1..255 /\ running.cap > 0 /\ running.slots * running.cap <= AggregateBudget
    BY <2>2, RingsFit
  <2>4. "google" \in MethodsOf(settings) => GoogleUsable(settings)
    BY <1>2 DEF ChecksGood, MethodsGood
  <2>5. "google" \in running.methods => settings.client /\ settings.url # "none"
    BY <2>2, <2>4 DEF GoogleUsable, RedirectUri
  <2>6. running.remember => running.mfa
    BY <2>2 DEF RememberOf
  <2>7. running.tls => running.secure /\ settings.bind = "443"
    BY <1>2, <2>2 DEF CertsGood, SecureOf
  <2>8. QED
    BY <2>3, <2>5, <2>6, <2>7 DEF ServesSoundly
<1>3. QED
  BY <1>1, <1>2

\* KeyKept of Startup: whatever is killed when, no server signs cookies with a
\* generated key that is not the one on disk (main.rs, resolve_secret).
THEOREM KeyKeptHolds == BootSpec => []KeyKept
<1>1. BootInv => KeyKept
  BY DEF BootInv, KeyInv, KeyKept
<1>2. QED
  BY <1>1, BootIndHolds, PTL

\* ServesSoundly of Startup: a server that got through all its stages has slots
\* that a frame's byte can name, rings that hold something and stay in the
\* user's budget, Google's button only with the parts it needs, no way round a
\* second factor there is not, and no clear cookie where it serves TLS (main.rs,
\* run; config.rs, from_settings).
THEOREM ServesSoundlyHolds == BootSpec => []ServesSoundly
<1>1. BootInv => ServesSoundly
  <2> SUFFICES ASSUME BootInv, boot = "serving" PROVE ServesSoundly
    BY DEF ServesSoundly
  <2>1. settings \in BootSetting /\ CertsGood(settings) /\ ChecksGood(settings)
    BY DEF BootInv, StageInv
  <2>2. PICK k : running = ConfigOf(settings, k)
    BY DEF BootInv, StageInv
  <2>3. QED
    BY <2>1, <2>2, PassedServes
<1>2. QED
  BY <1>1, BootIndHolds, PTL

----------------------------------------------------------------------------
(* The types of all parts, of which the invariants above contain only what  *)
(* they use.                                                                *)

\* The enrollments keep theirs, and the file never names another account.
LEMMA EnrTyped == EnrSpec => []EnrTypeOK
<1>1. EnrInit => EnrTypeOK
  BY DEF EnrInit, EnrTypeOK, NoRecord, EnrRec
<1>2. EnrTypeOK /\ [EnrNext]_enrVars => EnrTypeOK'
  <2> SUFFICES ASSUME EnrTypeOK, [EnrNext]_enrVars PROVE EnrTypeOK'
    OBVIOUS
  <2>1. CASE UNCHANGED enrVars
    BY <2>1 DEF enrVars, EnrTypeOK
  <2>2. ASSUME NEW u \in EnrUser, NEW s \in EnrSub, NEW ok \in EnrWrites, EnrPinNew(u, s, ok) PROVE EnrTypeOK'
    <3>1. /\ enr' = [enr EXCEPT ![u].sub = s] /\ enr[u].sub = NoSub /\ enrNow' = enrNow
          /\ enrFile' = (IF ok THEN enr' ELSE enrFile)
      BY <2>2 DEF EnrPinNew, EnrWrite
    <3>2. enr' \in [EnrUser -> EnrRec]
      BY <3>1 DEF EnrTypeOK, EnrRec
    <3>3. \A v \in EnrUser : enr'[v].at = enr[v].at /\ (v # u => enr'[v].sub = enr[v].sub)
      BY <3>1 DEF EnrTypeOK, EnrRec
    <3>4. \A v \in EnrUser : enrFile[v].sub \in {NoSub, enr'[v].sub}
      BY <3>1, <3>3 DEF EnrTypeOK
    <3>5. QED
      BY <3>1, <3>2, <3>3, <3>4 DEF EnrTypeOK
  <2>3. ASSUME NEW u \in EnrUser, NEW x \in EnrSecret, NEW ok \in EnrWrites, EnrEnroll(u, x, ok) PROVE EnrTypeOK'
    <3>1. /\ enr' = [enr EXCEPT ![u].secret = x, ![u].at = enrNow] /\ enrNow' = enrNow
          /\ enrFile' = (IF ok THEN enr' ELSE enrFile)
      BY <2>3 DEF EnrEnroll, EnrWrite
    <3>2. enr' \in [EnrUser -> EnrRec]
      BY <3>1 DEF EnrTypeOK, EnrRec
    <3>3. \A v \in EnrUser : enr'[v].sub = enr[v].sub /\ enr'[v].at \in {enr[v].at, enrNow}
      BY <3>1 DEF EnrTypeOK, EnrRec
    <3>4. enrNow <= enrNow
      BY DEF EnrTypeOK
    <3>5. QED
      BY <3>1, <3>2, <3>3, <3>4 DEF EnrTypeOK
  <2>4. CASE EnrRestart
    BY <2>4 DEF EnrRestart, EnrTypeOK
  <2>5. ASSUME NEW u \in EnrUser, EnrReset(u) PROVE EnrTypeOK'
    <3>1. enrFile' = [enrFile EXCEPT ![u].secret = NoSecret] /\ enr' = enrFile' /\ enrNow' = enrNow + 1
      BY <2>5 DEF EnrReset
    <3>2. enrFile' \in [EnrUser -> EnrRec]
      BY <3>1 DEF EnrTypeOK, EnrRec
    <3>3. \A v \in EnrUser : enrFile'[v].at = enrFile[v].at /\ enrFile[v].at \in Nat /\ enrFile[v].at <= enrNow
      BY <3>1 DEF EnrTypeOK, EnrRec
    <3>4. enrNow' \in Nat /\ \A v \in EnrUser : enrFile'[v].at <= enrNow'
      BY <3>1, <3>3 DEF EnrTypeOK
    <3>5. QED
      BY <3>1, <3>2, <3>4 DEF EnrTypeOK
  <2>6. CASE EnrTick
    <3>1. enr' = enr /\ enrFile' = enrFile /\ enrNow' = enrNow + 1
      BY <2>6 DEF EnrTick
    <3>2. \A v \in EnrUser : enr[v].at \in Nat /\ enrFile[v].at \in Nat
      BY DEF EnrTypeOK, EnrRec
    <3>3. QED
      BY <3>1, <3>2 DEF EnrTypeOK
  <2>7. QED
    BY <2>1, <2>2, <2>3, <2>4, <2>5, <2>6 DEF EnrNext, EnrPinKnown
<1>3. QED
  BY <1>1, <1>2, PTL DEF EnrSpec

\* The sessions keep theirs.
LEMMA SessTyped == SessSpec => []SessTypeOK
<1>1. SessInd => SessTypeOK
  <2> SUFFICES ASSUME SessInd PROVE SessTypeOK
    OBVIOUS
  <2>1. SessTypes /\ SessListed /\ SessOverStaysOver
    BY DEF SessInd
  <2>2. sessOver \subseteq SessId
    BY <2>1, SessAssumption DEF SessTypes, SessId
  <2>3. QED
    BY <2>1, <2>2 DEF SessTypes, SessListed, SessTypeOK
<1>2. QED
  BY <1>1, SessIndHolds, PTL

\* Who is queued for a bucket, and nobody else, is in its queue, and once.
Lines(q, b) ==
  /\ \A i \in 1..Len(q) : attempt[q[i]].at = "queued" /\ attempt[q[i]].bucket = b
  /\ \A i, j \in 1..Len(q) : q[i] = q[j] => i = j
  /\ \A a \in Attempt : attempt[a].at = "queued" /\ attempt[a].bucket = b => \E i \in 1..Len(q) : q[i] = a
QueueInv == waiting \in [Bucket -> Seq(Attempt)] /\ \A b \in Bucket : Lines(waiting[b], b)

\* The queues stand while one moves who is in none.
LEMMA QueueQuiet ==
  ASSUME QueueInv, waiting' = waiting, NEW a \in Attempt, attempt[a].at # "queued", attempt'[a].at # "queued",
         \A c \in Attempt : c # a => attempt'[c] = attempt[c]
  PROVE  QueueInv'
<1>1. ASSUME NEW b \in Bucket PROVE Lines(waiting[b], b)'
  <2>1. PICK q \in Seq(Attempt) : q = waiting[b] /\ q = waiting'[b] /\ Lines(q, b)
    BY DEF QueueInv
  <2>2. \A i \in 1..Len(q) : q[i] \in Attempt /\ q[i] # a /\ attempt'[q[i]] = attempt[q[i]]
    BY <2>1 DEF Lines
  <2>3. QED
    BY <2>1, <2>2 DEF Lines
<1>2. QED
  BY <1>1 DEF QueueInv

\* One who is in a queue leaves it.
LEMMA QueueLeft ==
  ASSUME QueueInv, NEW a \in Attempt, NEW b \in Bucket, NEW i \in 1..Len(waiting[b]), waiting[b][i] = a,
         NEW r \in Seq(Attempt), waiting' = [waiting EXCEPT ![b] = r], Len(r) = Len(waiting[b]) - 1,
         \A j \in 1..Len(r) : r[j] = IF j < i THEN waiting[b][j] ELSE waiting[b][j + 1],
         attempt'[a].at # "queued", \A c \in Attempt : c # a => attempt'[c] = attempt[c]
  PROVE  QueueInv'
<1>1. PICK q \in Seq(Attempt) : q = waiting[b] /\ Lines(q, b)
  BY DEF QueueInv
<1>2. PICK n \in Nat : n = Len(q) /\ Len(r) = n - 1 /\ i \in 1..n /\ q[i] = a
  BY <1>1
<1>3. \A j \in 1..(n - 1) : r[j] = IF j < i THEN q[j] ELSE q[j + 1]
  BY <1>1, <1>2
<1>4. \A j \in 1..n : q[j] \in Attempt /\ (j # i => q[j] # a)
  BY <1>1, <1>2 DEF Lines
<1>5. Lines(r, b)'
  <2>1. ASSUME NEW j \in 1..(n - 1) PROVE attempt'[r[j]].at = "queued" /\ attempt'[r[j]].bucket = b
    <3>1. PICK k \in 1..n : k # i /\ r[j] = q[k]
      BY <1>2, <1>3
    <3>2. attempt'[q[k]] = attempt[q[k]]
      BY <1>4, <3>1
    <3>3. QED
      BY <1>1, <1>2, <3>1, <3>2 DEF Lines
  <2>2. ASSUME NEW j \in 1..(n - 1), NEW k \in 1..(n - 1), r[j] = r[k] PROVE j = k
    <3>1. \A x, y \in 1..n : q[x] = q[y] => x = y
      BY <1>1, <1>2 DEF Lines
    <3>2. PICK x \in 1..n : r[j] = q[x] /\ x = IF j < i THEN j ELSE j + 1
      BY <1>2, <1>3
    <3>3. PICK y \in 1..n : r[k] = q[y] /\ y = IF k < i THEN k ELSE k + 1
      BY <1>2, <1>3
    <3>4. x = y
      BY <2>2, <3>1, <3>2, <3>3
    <3>5. QED
      BY <1>2, <3>2, <3>3, <3>4
  <2>3. ASSUME NEW c \in Attempt, attempt'[c].at = "queued", attempt'[c].bucket = b
        PROVE  \E j \in 1..(n - 1) : r[j] = c
    <3>1. c # a /\ attempt'[c] = attempt[c]
      BY <2>3
    <3>2. PICK x \in 1..n : q[x] = c
      <4>1. attempt[c].at = "queued" /\ attempt[c].bucket = b
        BY <2>3, <3>1
      <4>2. \E x \in 1..Len(q) : q[x] = c
        BY <1>1, <4>1 DEF Lines
      <4>3. QED
        BY <1>2, <4>2
    <3>3. x # i
      BY <1>2, <3>1, <3>2
    <3>4. CASE x < i
      BY <1>2, <1>3, <3>2, <3>4
    <3>5. CASE x > i
      <4>1. x - 1 \in 1..(n - 1) /\ ~(x - 1 < i) /\ (x - 1) + 1 = x
        BY <1>2, <3>5
      <4>2. r[x - 1] = c
        BY <1>3, <3>2, <4>1
      <4>3. QED
        BY <4>1, <4>2
    <3>6. QED
      BY <1>2, <3>3, <3>4, <3>5
  <2>4. QED
    BY <1>2, <2>1, <2>2, <2>3 DEF Lines
<1>6. ASSUME NEW d \in Bucket, d # b PROVE Lines(waiting[d], d)'
  <2>1. PICK p \in Seq(Attempt) : p = waiting[d] /\ p = waiting'[d] /\ Lines(p, d)
    BY <1>6 DEF QueueInv
  <2>2. attempt[a].bucket = b
    BY <1>1, <1>2 DEF Lines
  <2>3. \A j \in 1..Len(p) : p[j] \in Attempt /\ p[j] # a /\ attempt'[p[j]] = attempt[p[j]]
    BY <1>6, <2>1, <2>2 DEF Lines
  <2>4. \A j \in 1..Len(p) : attempt'[p[j]].at = "queued" /\ attempt'[p[j]].bucket = d
    BY <2>1, <2>3 DEF Lines
  <2>5. ASSUME NEW c \in Attempt, attempt'[c].at = "queued", attempt'[c].bucket = d PROVE \E j \in 1..Len(p) : p[j] = c
    <3>1. attempt[c].at = "queued" /\ attempt[c].bucket = d
      BY <2>5
    <3>2. QED
      BY <2>1, <3>1 DEF Lines
  <2>6. \A j, k \in 1..Len(p) : p[j] = p[k] => j = k
    BY <2>1 DEF Lines
  <2>7. QED
    BY <2>1, <2>4, <2>5, <2>6 DEF Lines
<1>7. waiting' \in [Bucket -> Seq(Attempt)] /\ waiting'[b] = r
  BY DEF QueueInv
<1>8. QED
  BY <1>5, <1>6, <1>7 DEF QueueInv

\* A run of wrong codes is a count, a time and the end of a lock.
StrikeInv == tries \in Nat /\ strikes \in [Bucket -> [count : Nat, last : Nat, until : Nat]]

\* A wrong code leaves it one.
LEMMA StrikeTyped ==
  ASSUME GuardInv, StrikeInv, NEW b \in Bucket, MfaFailed(b)
  PROVE  strikes' \in [Bucket -> [count : Nat, last : Nat, until : Nat]]
<1>1. strikes[b] \in [count : Nat, last : Nat, until : Nat] /\ guardNow \in Nat
  BY DEF StrikeInv, GuardInv, GuardTypes
<1>2. PICK n \in Nat \ {0} : n = RunSoFar(strikes[b]) + 1
  BY <1>1 DEF RunSoFar
<1>3. PICK u : u = (IF n % GuardStrikes = 0 THEN guardNow + LockOf(n \div GuardStrikes - 1) ELSE strikes[b].until)
  OBVIOUS
<1>4. u \in Nat
  <2>1. PICK m \in Nat \ {0} : m = GuardStrikes
    BY GuardAssumption
  <2>2. CASE n % m = 0
    <3>1. PICK k \in Nat : k = n \div m /\ n = k * m
      BY <1>2, <2>1, <2>2, Multiples
    <3>2. k # 0
      BY <1>2, <2>1, <3>1
    <3>3. n \div m \in Nat /\ n \div m # 0
      BY <3>1, <3>2
    <3>4. n \div m - 1 \in Nat
      BY <3>3
    <3>5. LockOf(n \div m - 1) \in Nat
      BY <3>4, LockLength
    <3>6. QED
      BY <1>1, <1>3, <2>1, <2>2, <3>5
  <2>3. CASE n % m # 0
    BY <1>1, <1>3, <2>1, <2>3
  <2>4. QED
    BY <2>2, <2>3
<1>5. strikes' = [strikes EXCEPT ![b] = [count |-> n, last |-> guardNow, until |-> u]]
  BY <1>2, <1>3 DEF MfaFailed
<1>6. QED
  BY <1>1, <1>2, <1>4, <1>5 DEF StrikeInv

\* Every step keeps the queues and the runs.
LEMMA GuardTypedStep ==
  ASSUME GuardInv, QueueInv, StrikeInv, [GuardNext]_guardVars
  PROVE  QueueInv' /\ StrikeInv'
<1>1. attempt \in [Attempt -> AttemptRec] /\ Idle.at # "queued"
  BY DEF GuardInv, GuardTypes, Idle
<1>2. CASE UNCHANGED guardVars \/ GuardTick
  <2>1. attempt' = attempt /\ waiting' = waiting /\ tries' = tries /\ strikes' = strikes
    BY <1>2 DEF guardVars, GuardTick
  <2>2. ASSUME NEW b \in Bucket PROVE Lines(waiting[b], b)'
    BY <2>1 DEF QueueInv, Lines
  <2>3. QED
    BY <2>1, <2>2 DEF QueueInv, StrikeInv
<1>3. ASSUME NEW a \in Attempt, NEW b \in Bucket, GuardEnter(a, b) PROVE QueueInv' /\ StrikeInv'
  <2>1. /\ attempt[a] = Idle /\ attempt' = [attempt EXCEPT ![a] = [at |-> "queued", bucket |-> b, wake |-> 0]]
        /\ waiting' = [waiting EXCEPT ![b] = Append(@, a)] /\ tries' = tries + 1 /\ strikes' = strikes
    BY <1>3 DEF GuardEnter
  <2>2. attempt'[a].at = "queued" /\ attempt'[a].bucket = b /\ \A c \in Attempt : c # a => attempt'[c] = attempt[c]
    BY <1>1, <2>1
  <2>3. ASSUME NEW d \in Bucket PROVE \A i \in 1..Len(waiting[d]) : waiting[d][i] \in Attempt /\ waiting[d][i] # a
    <3>1. waiting[d] \in Seq(Attempt) /\ Lines(waiting[d], d)
      BY DEF QueueInv
    <3>2. QED
      BY <1>1, <2>1, <3>1 DEF Lines
  <2>4. Lines(waiting[b], b)'
    <3>1. PICK q \in Seq(Attempt), n \in Nat : q = waiting[b] /\ n = Len(q) /\ Lines(q, b)
      BY DEF QueueInv
    <3>2. PICK r \in Seq(Attempt) : /\ r = waiting'[b] /\ Len(r) = n + 1 /\ r[n + 1] = a
                                    /\ \A i \in 1..n : r[i] = q[i]
      <4>1. waiting'[b] = Append(q, a)
        BY <2>1, <3>1 DEF QueueInv
      <4>2. PICK r : r = Append(q, a)
        OBVIOUS
      <4>3. r \in Seq(Attempt) /\ Len(r) = n + 1 /\ r[n + 1] = a /\ \A i \in 1..n : r[i] = q[i]
        BY <3>1, <4>2
      <4>4. QED
        BY <4>1, <4>2, <4>3
    <3>3. \A i \in 1..n : q[i] \in Attempt /\ q[i] # a
      BY <2>3, <3>1
    <3>4. \A i \in 1..(n + 1) : attempt'[r[i]].at = "queued" /\ attempt'[r[i]].bucket = b
      BY <2>2, <3>1, <3>2, <3>3 DEF Lines
    <3>5. ASSUME NEW i \in 1..(n + 1), NEW j \in 1..(n + 1), r[i] = r[j] PROVE i = j
      <4>1. \A x, y \in 1..n : q[x] = q[y] => x = y
        BY <3>1 DEF Lines
      <4>2. QED
        BY <3>2, <3>3, <3>5, <4>1
    <3>6. ASSUME NEW c \in Attempt, attempt'[c].at = "queued", attempt'[c].bucket = b
          PROVE  \E i \in 1..(n + 1) : r[i] = c
      <4>1. CASE c = a
        BY <3>2, <4>1
      <4>2. CASE c # a
        <5>1. attempt[c].at = "queued" /\ attempt[c].bucket = b
          BY <2>2, <3>6, <4>2
        <5>2. PICK i \in 1..n : q[i] = c
          BY <3>1, <5>1 DEF Lines
        <5>3. QED
          BY <3>2, <5>2
      <4>3. QED
        BY <4>1, <4>2
    <3>7. QED
      BY <3>2, <3>4, <3>5, <3>6 DEF Lines
  <2>5. ASSUME NEW d \in Bucket, d # b PROVE Lines(waiting[d], d)'
    <3>1. PICK q \in Seq(Attempt) : q = waiting[d] /\ q = waiting'[d] /\ Lines(q, d)
      BY <2>1, <2>5 DEF QueueInv
    <3>2. \A i \in 1..Len(q) : attempt'[q[i]] = attempt[q[i]]
      BY <2>2, <2>3, <3>1
    <3>3. ASSUME NEW c \in Attempt, attempt'[c].at = "queued", attempt'[c].bucket = d PROVE \E i \in 1..Len(q) : q[i] = c
      <4>1. attempt[c].at = "queued" /\ attempt[c].bucket = d
        BY <2>2, <2>5, <3>3
      <4>2. QED
        BY <3>1, <4>1 DEF Lines
    <3>4. QED
      BY <3>1, <3>2, <3>3 DEF Lines
  <2>6. waiting' \in [Bucket -> Seq(Attempt)]
    BY <2>1 DEF QueueInv
  <2>7. QED
    BY <2>1, <2>4, <2>5, <2>6 DEF QueueInv, StrikeInv
<1>4. ASSUME NEW a \in Attempt, NEW b \in Bucket, NEW i \in 1..Len(waiting[b]), waiting[b][i] = a,
             waiting' = [waiting EXCEPT ![b] = RemoveAt(@, i)], attempt'[a].at # "queued",
             \A c \in Attempt : c # a => attempt'[c] = attempt[c]
      PROVE  QueueInv'
  <2>1. PICK q \in Seq(Attempt), n \in Nat : q = waiting[b] /\ n = Len(q) /\ i \in 1..n
    BY <1>4 DEF QueueInv
  <2>2. PICK x, y : x = SubSeq(q, 1, i - 1) /\ y = SubSeq(q, i + 1, n)
    OBVIOUS
  <2>3. x \in Seq(Attempt) /\ Len(x) = i - 1 /\ \A j \in 1..(i - 1) : x[j] = q[j]
    BY <2>1, <2>2
  <2>4. y \in Seq(Attempt) /\ Len(y) = n - i /\ \A j \in 1..(n - i) : y[j] = q[i + j]
    BY <2>1, <2>2
  <2>5. PICK r : r = x \o y
    OBVIOUS
  <2>6. /\ r \in Seq(Attempt) /\ Len(r) = n - 1 /\ (\A j \in 1..(i - 1) : r[j] = x[j])
        /\ \A j \in 1..(n - i) : r[i - 1 + j] = y[j]
    BY <2>1, <2>3, <2>4, <2>5
  <2>7. ASSUME NEW j \in 1..(n - 1) PROVE r[j] = IF j < i THEN q[j] ELSE q[j + 1]
    <3>1. CASE j < i
      BY <2>1, <2>3, <2>6, <3>1
    <3>2. CASE j >= i
      <4>1. PICK k \in 1..(n - i) : j = i - 1 + k /\ i + k = j + 1
        <5>1. j - i + 1 \in 1..(n - i) /\ j = i - 1 + (j - i + 1) /\ i + (j - i + 1) = j + 1
          BY <2>1, <3>2
        <5>2. QED
          BY <5>1
      <4>2. r[j] = y[k] /\ y[k] = q[j + 1]
        BY <2>4, <2>6, <4>1
      <4>3. QED
        BY <2>1, <3>2, <4>2
    <3>3. QED
      BY <2>1, <3>1, <3>2
  <2>8. waiting' = [waiting EXCEPT ![b] = r]
    BY <1>4, <2>1, <2>2, <2>5 DEF RemoveAt
  <2>9. Len(r) = Len(waiting[b]) - 1 /\ \A j \in 1..Len(r) : r[j] = IF j < i THEN waiting[b][j] ELSE waiting[b][j + 1]
    BY <2>1, <2>6, <2>7
  <2>10. i \in 1..Len(waiting[b]) /\ waiting[b][i] = a
    BY <1>4
  <2>11. attempt'[a].at # "queued" /\ \A c \in Attempt : c # a => attempt'[c] = attempt[c]
    BY <1>4
  <2>12. r \in Seq(Attempt) /\ b \in Bucket /\ a \in Attempt
    BY <1>4, <2>6
  <2>13. QED
    BY <2>8, <2>9, <2>10, <2>11, <2>12, QueueLeft
<1>5. ASSUME NEW a \in Attempt, GuardTurn(a) PROVE QueueInv' /\ StrikeInv'
  <2>1. PICK b : b = attempt[a].bucket
    OBVIOUS
  <2>2. /\ attempt[a].at = "queued" /\ b \in Bucket /\ Head(waiting[b]) = a /\ waiting' = [waiting EXCEPT ![b] = Tail(@)]
        /\ attempt' = [attempt EXCEPT ![a].at = "asleep", ![a].wake = guardNow + TarpitDelay(RecentFailures(b))]
        /\ strikes' = strikes /\ tries' = tries
    BY <1>5, <2>1 DEF GuardTurn, GuardInv, GuardTypes
  <2>3. attempt'[a].at # "queued" /\ \A c \in Attempt : c # a => attempt'[c] = attempt[c]
    <3>1. PICK w : w = guardNow + TarpitDelay(RecentFailures(b))
      OBVIOUS
    <3>2. attempt' = [[attempt EXCEPT ![a].at = "asleep"] EXCEPT ![a].wake = w]
      BY <2>2, <3>1
    <3>3. attempt'[a] = [[attempt[a] EXCEPT !.at = "asleep"] EXCEPT !.wake = w]
      BY <1>1, <3>2
    <3>4. attempt'[a].at = "asleep"
      BY <1>1, <3>3 DEF AttemptRec
    <3>5. QED
      BY <1>1, <3>2, <3>4
  <2>4. PICK q \in Seq(Attempt), n \in Nat : q = waiting[b] /\ n = Len(q) /\ \E i \in 1..n : q[i] = a
    <3>1. waiting[b] \in Seq(Attempt) /\ Lines(waiting[b], b)
      BY <2>2 DEF QueueInv
    <3>2. \E i \in 1..Len(waiting[b]) : waiting[b][i] = a
      BY <2>1, <2>2, <3>1 DEF Lines
    <3>3. Len(waiting[b]) \in Nat
      BY <3>1
    <3>4. QED
      BY <3>1, <3>2, <3>3
  <2>5. 1 \in 1..n /\ q[1] = a
    BY <2>2, <2>4
  <2>6. PICK r : r = Tail(q)
    OBVIOUS
  <2>7. r \in Seq(Attempt) /\ Len(r) = n - 1 /\ \A j \in 1..(n - 1) : r[j] = q[j + 1]
    BY <2>4, <2>5, <2>6
  <2>8. \A j \in 1..(n - 1) : r[j] = IF j < 1 THEN q[j] ELSE q[j + 1]
    BY <2>7
  <2>9. waiting' = [waiting EXCEPT ![b] = r]
    BY <2>2, <2>4, <2>6
  <2>10. /\ 1 \in 1..Len(waiting[b]) /\ waiting[b][1] = a /\ Len(r) = Len(waiting[b]) - 1
         /\ \A j \in 1..Len(r) : r[j] = IF j < 1 THEN waiting[b][j] ELSE waiting[b][j + 1]
    BY <2>4, <2>5, <2>7, <2>8
  <2>11. r \in Seq(Attempt) /\ b \in Bucket
    BY <2>2, <2>7
  <2>12. QueueInv'
    BY <2>3, <2>9, <2>10, <2>11, QueueLeft
  <2>13. QED
    BY <2>2, <2>12 DEF StrikeInv
<1>6. ASSUME NEW a \in Attempt, GuardAbandon(a) PROVE QueueInv' /\ StrikeInv'
  <2>1. PICK b : b = attempt[a].bucket
    OBVIOUS
  <2>2. /\ attempt' = [attempt EXCEPT ![a] = Idle] /\ strikes' = strikes /\ tries' = tries
        /\ \/ attempt[a].at = "asleep" /\ waiting' = waiting
           \/ /\ attempt[a].at = "queued"
              /\ \E i \in 1..Len(waiting[b]) :
                   waiting[b][i] = a /\ waiting' = [waiting EXCEPT ![b] = RemoveAt(@, i)]
    BY <1>6, <2>1 DEF GuardAbandon
  <2>3. attempt'[a].at # "queued" /\ \A c \in Attempt : c # a => attempt'[c] = attempt[c]
    BY <1>1, <2>2
  <2>4. CASE attempt[a].at = "asleep" /\ waiting' = waiting
    <3>1. QueueInv'
      BY <2>3, <2>4, QueueQuiet
    <3>2. QED
      BY <2>2, <3>1 DEF StrikeInv
  <2>5. ASSUME attempt[a].at = "queued", NEW i \in 1..Len(waiting[b]), waiting[b][i] = a,
               waiting' = [waiting EXCEPT ![b] = RemoveAt(@, i)]
        PROVE  QueueInv'
    <3>1. b \in Bucket
      BY <2>1, <2>5 DEF GuardInv, GuardTypes
    <3>2. QED
      BY <1>4, <2>3, <2>5, <3>1
  <2>6. QED
    BY <2>2, <2>4, <2>5 DEF StrikeInv
<1>7. ASSUME NEW a \in Attempt, GuardWake(a) PROVE QueueInv' /\ StrikeInv'
  <2>1. /\ attempt[a].at = "asleep" /\ attempt' = [attempt EXCEPT ![a].at = "in"]
        /\ waiting' = waiting /\ strikes' = strikes /\ tries' = tries
    BY <1>7 DEF GuardWake
  <2>2. attempt'[a].at = "in" /\ \A c \in Attempt : c # a => attempt'[c] = attempt[c]
    BY <1>1, <2>1 DEF AttemptRec
  <2>3. QueueInv'
    BY <2>1, <2>2, QueueQuiet
  <2>4. QED
    BY <2>1, <2>3 DEF StrikeInv
<1>8. ASSUME NEW a \in Attempt, attempt[a].at = "in", GuardFree(a) PROVE QueueInv' /\ tries' \in Nat
  <2>1. attempt' = [attempt EXCEPT ![a] = Idle] /\ waiting' = waiting /\ tries' = tries
    BY <1>8 DEF GuardFree
  <2>2. attempt'[a].at # "queued" /\ \A c \in Attempt : c # a => attempt'[c] = attempt[c]
    BY <1>1, <2>1
  <2>3. QED
    BY <1>8, <2>1, <2>2, QueueQuiet DEF StrikeInv
<1>9. ASSUME NEW a \in Attempt, GuardDrop(a) \/ GuardFailed(a) \/ GuardLockedOut(a) PROVE QueueInv' /\ StrikeInv'
  <2>1. attempt[a].at = "in" /\ GuardFree(a) /\ strikes' = strikes
    BY <1>9 DEF GuardDrop, GuardFailed, GuardLockedOut
  <2>2. QED
    BY <1>8, <2>1 DEF StrikeInv
<1>10. ASSUME NEW a \in Attempt, GuardSucceeded(a) PROVE QueueInv' /\ StrikeInv'
  <2>1. attempt[a].at = "in" /\ GuardFree(a) /\ strikes' = [strikes EXCEPT ![attempt[a].bucket] = NoRun]
    BY <1>10 DEF GuardSucceeded
  <2>2. strikes' \in [Bucket -> [count : Nat, last : Nat, until : Nat]]
    BY <2>1 DEF StrikeInv, NoRun
  <2>3. QED
    BY <1>8, <2>1, <2>2 DEF StrikeInv
<1>11. ASSUME NEW a \in Attempt, GuardWrong(a) PROVE QueueInv' /\ StrikeInv'
  <2>1. attempt[a].at = "in" /\ GuardFree(a) /\ MfaFailed(attempt[a].bucket) /\ attempt[a].bucket \in Bucket
    BY <1>11 DEF GuardWrong, GuardInv, GuardTypes
  <2>2. QED
    BY <1>8, <2>1, StrikeTyped DEF StrikeInv
<1>12. QED
  BY <1>2, <1>3, <1>5, <1>6, <1>7, <1>9, <1>10, <1>11 DEF GuardNext

\* The throttle keeps its types.
LEMMA GuardTyped == GuardSpec => []GuardTypeOK
<1>1. GuardInit => QueueInv /\ StrikeInv
  <2> SUFFICES ASSUME GuardInit PROVE QueueInv /\ StrikeInv
    OBVIOUS
  <2>1. Idle.at = "idle" /\ NoRun \in [count : Nat, last : Nat, until : Nat]
    BY DEF Idle, NoRun
  <2>2. waiting = [b \in Bucket |-> <<>>] /\ attempt = [a \in Attempt |-> Idle]
    BY DEF GuardInit
  <2>3. waiting \in [Bucket -> Seq(Attempt)] /\ \A b \in Bucket : Len(waiting[b]) = 0
    BY <2>2
  <2>4. \A b \in Bucket : Lines(waiting[b], b)
    BY <2>1, <2>2, <2>3 DEF Lines
  <2>5. QED
    BY <2>1, <2>3, <2>4 DEF GuardInit, QueueInv, StrikeInv
<1>2. GuardInv /\ QueueInv /\ StrikeInv => GuardTypeOK
  <2> SUFFICES ASSUME GuardInv, QueueInv, StrikeInv PROVE GuardTypeOK
    OBVIOUS
  <2>1. ASSUME NEW b \in Bucket
        PROVE  {waiting[b][i] : i \in 1..Len(waiting[b])} = {a \in Attempt : attempt[a].at = "queued" /\ attempt[a].bucket = b}
    <3>1. PICK q \in Seq(Attempt) : q = waiting[b] /\ Lines(q, b)
      BY DEF QueueInv
    <3>2. \A i \in 1..Len(q) : q[i] \in Attempt
      OBVIOUS
    <3>3. QED
      BY <3>1, <3>2 DEF Lines
  <2>2. QED
    BY <2>1 DEF GuardInv, GuardTypes, QueueInv, StrikeInv, AttemptRec, GuardTypeOK
<1>3. GuardInv /\ QueueInv /\ StrikeInv /\ [GuardNext]_guardVars => QueueInv' /\ StrikeInv'
  BY GuardTypedStep
<1>4. QED
  BY <1>1, <1>2, <1>3, GuardIndHolds, PTL DEF GuardSpec

\* What the guard of codes still remembers, it remembered.
LEMMA RememberedTyped ==
  ASSUME NEW T, seen \in Seq(T), seen \in Seq(Entry)
  PROVE  Remembered \in Seq(T)
<1>1. PICK n \in Nat : n = Len(seen) /\ \A i \in 1..n : seen[i] \in T
  OBVIOUS
<1>2. PICK g : /\ g[0] = <<>> /\ Remembered = g[n]
               /\ \A k \in Nat : k < n => g[k + 1] = KeepFresh(g[k], seen[k + 1])
  BY <1>1, KeptSteps
<1> DEFINE D == {k \in Nat : k <= n => g[k] \in Seq(T)}
<1>3. 0 \in D
  <2>1. g[0] = <<>> /\ <<>> \in Seq(T)
    BY <1>2
  <2>2. QED
    BY <2>1
<1>4. ASSUME NEW k \in Nat, k \in D PROVE k + 1 \in D
  <2> SUFFICES ASSUME k + 1 <= n PROVE g[k + 1] \in Seq(T)
    OBVIOUS
  <2>1. k < n /\ k + 1 \in 1..n /\ g[k] \in Seq(T)
    BY <1>4
  <2>2. g[k + 1] = KeepFresh(g[k], seen[k + 1]) /\ seen[k + 1] \in T
    BY <1>1, <1>2, <2>1
  <2>3. QED
    BY <2>1, <2>2 DEF KeepFresh
<1> HIDE DEF D
<1>5. n \in D
  BY <1>3, <1>4, NatInduct
<1>6. QED
  BY <1>2, <1>5 DEF D

\* The codes and their times are in range.
LEMMA ReplayTyped == ReplaySpec => []ReplayTypeOK
<1> DEFINE T == [code : Code, at : 0..MaxCodeTime]
           Ranges == codeNow \in 0..MaxCodeTime /\ seen \in Seq(T) /\ accepted \in Seq(Code)
<1>1. ReplayInit => Ranges
  BY ReplayAssumption DEF ReplayInit
<1>2. CodesInv /\ Ranges => ReplayTypeOK
  BY DEF CodesInv, CodesTypes, ReplayTypeOK
<1>3. CodesInv /\ Ranges /\ [ReplayNext]_replayVars => Ranges'
  <2> SUFFICES ASSUME CodesInv, Ranges, [ReplayNext]_replayVars PROVE Ranges'
    OBVIOUS
  <2>1. codeNow \in 0..MaxCodeTime /\ seen \in Seq(T) /\ accepted \in Seq(Code) /\ seen \in Seq(Entry) /\ MaxCodeTime \in Nat
    BY ReplayAssumption DEF CodesInv, CodesTypes
  <2>2. PICK S : S = T
    OBVIOUS
  <2>3. Remembered \in Seq(T)
    <3>1. seen \in Seq(S)
      BY <2>1, <2>2
    <3> HIDE DEF T
    <3>2. Remembered \in Seq(S)
      BY <2>1, <3>1, RememberedTyped
    <3>3. QED
      BY <2>2, <3>2
  <2>4. ASSUME NEW c \in Code, Accept(c) PROVE Ranges'
    <3>1. /\ seen' = Append(MakeRoom(Remembered), [code |-> c, at |-> codeNow])
          /\ accepted' = Append(accepted, c) /\ codeNow' = codeNow /\ ReplayMemory # 0
      BY <2>4, ReplayAssumption DEF Accept
    <3>2. MakeRoom(Remembered) \in Seq(T)
      <4>1. PICK r : r = Remembered
        OBVIOUS
      <4>2. r \in Seq(T) /\ (Len(r) = ReplayMemory => r # <<>>)
        BY <2>3, <3>1, <4>1
      <4>3. Len(r) = ReplayMemory => Tail(r) \in Seq(T)
        BY <4>2
      <4>4. QED
        BY <4>1, <4>2, <4>3 DEF MakeRoom
    <3>3. [code |-> c, at |-> codeNow] \in T
      BY <2>1
    <3>4. seen' \in Seq(T)
      BY <3>1, <3>2, <3>3
    <3>5. accepted' \in Seq(Code)
      BY <2>1, <3>1
    <3>6. QED
      BY <2>1, <3>1, <3>4, <3>5
  <2>5. ASSUME NEW c \in Code, RefuseRepeat(c) PROVE Ranges'
    BY <2>1, <2>3, <2>5 DEF RefuseRepeat
  <2>6. CASE CodeTick
    BY <2>1, <2>6 DEF CodeTick
  <2>7. CASE UNCHANGED replayVars
    BY <2>1, <2>7 DEF replayVars
  <2>8. QED
    BY <2>4, <2>5, <2>6, <2>7 DEF ReplayNext
<1>4. CodesInv /\ [ReplayNext]_replayVars => CodesInv'
  BY CodesIndStep
<1> HIDE DEF Ranges
<1>5. QED
  BY <1>1, <1>2, <1>3, <1>4, CodesIndInit, PTL DEF ReplaySpec

\* The scanner keeps no more parameters than it may.
Capped(t) == Tidy(t) /\ Len(t.buf) <= CsiCap

LEMMA CappedStep == ASSUME NEW t, Capped(t), NEW b PROVE Capped(ScanByte(t, b))
<1>1. PICK sc, bu, al, fl : t = [scan |-> sc, buf |-> bu, alt |-> al, flags |-> fl]
  BY DEF Capped, Tidy, Terminal
<1>2. bu \in Seq(Params) /\ Len(bu) <= CsiCap /\ CsiCap \in Nat /\ t.buf = bu
  BY <1>1, ModeAssumption DEF Capped, Tidy, Terminal
<1>3. PICK nil : nil = <<>> /\ Len(nil) = 0
  OBVIOUS
<1>4. Escaped(t).buf = nil
  <2>1. Escaped(t) = [[t EXCEPT !.scan = "esc"] EXCEPT !.buf = nil]
    BY <1>3 DEF Escaped
  <2>2. [t EXCEPT !.scan = "esc"] = [scan |-> "esc", buf |-> bu, alt |-> al, flags |-> fl]
    BY <1>1
  <2>3. QED
    BY <2>1, <2>2
<1>5. ASSUME NEW u, Tidy(u) PROVE Ground(u).buf = nil
  <2>1. PICK c, d, e, f : u = [scan |-> c, buf |-> d, alt |-> e, flags |-> f]
    BY <1>5 DEF Tidy, Terminal
  <2>2. Ground(u) = [[u EXCEPT !.scan = "ground"] EXCEPT !.buf = nil]
    BY <1>3 DEF Ground
  <2>3. [u EXCEPT !.scan = "ground"] = [scan |-> "ground", buf |-> d, alt |-> e, flags |-> f]
    BY <2>1
  <2>4. QED
    BY <2>2, <2>3
<1>6. Ground(t).buf = nil /\ Ground(Dispatch(t, b)).buf = nil
  BY <1>5, DispatchKeeps DEF Capped
<1>7. [t EXCEPT !.scan = "csi"].buf = bu
  BY <1>1
<1>8. ASSUME b \in Params PROVE Len([t EXCEPT !.buf = Keep(@, b)].buf) <= CsiCap
  <2>1. [t EXCEPT !.buf = Keep(@, b)].buf = Keep(bu, b)
    BY <1>1
  <2>2. Len(Keep(bu, b)) <= CsiCap
    BY <1>2, <1>8 DEF Keep
  <2>3. QED
    BY <2>1, <2>2
<1>9. \/ ScanByte(t, b) = Escaped(t) \/ ScanByte(t, b) = t \/ ScanByte(t, b) = [t EXCEPT !.scan = "csi"]
      \/ ScanByte(t, b) = Ground(t)
      \/ b \in Params /\ ScanByte(t, b) = [t EXCEPT !.buf = Keep(@, b)]
      \/ ScanByte(t, b) = Ground(Dispatch(t, b))
  BY DEF ScanByte
<1>10. Len(ScanByte(t, b).buf) <= CsiCap
  <2>1. PICK u : u = ScanByte(t, b)
    OBVIOUS
  <2>2. CASE u.buf = nil \/ u.buf = bu
    BY <1>2, <1>3, <2>1, <2>2
  <2>3. CASE b \in Params /\ u = [t EXCEPT !.buf = Keep(@, b)]
    BY <1>8, <2>1, <2>3
  <2>4. CASE u = Escaped(t) \/ u = Ground(t) \/ u = Ground(Dispatch(t, b))
    BY <1>4, <1>6, <2>2, <2>4
  <2>5. CASE u = t \/ u = [t EXCEPT !.scan = "csi"]
    BY <1>2, <1>7, <2>2, <2>5
  <2>6. QED
    BY <1>9, <2>1, <2>3, <2>4, <2>5
<1>11. QED
  BY <1>10, ScanKeeps DEF Capped

\* Fed with bytes, it still does; and a client's terminal stays tidy.
LEMMA FedTyped ==
  ASSUME NEW t, NEW s \in Seq(ModeByte)
  PROVE  (Capped(t) => Capped(Feed(t, s))) /\ (Tidy(t) => Tidy(Show(t, s)))
<1>1. PICK n \in Nat : n = Len(s)
  OBVIOUS
<1>2. ASSUME Capped(t) PROVE Capped(Feed(t, s))
  <2>1. PICK f : Goes(f, "feed", t, s) /\ Feed(t, s) = f[n]
    BY <1>1, FeedGoes
  <2> DEFINE D == {k \in Nat : k <= n => Capped(f[k])}
  <2>2. 0 \in D
    BY <1>2, <2>1 DEF Goes
  <2>3. ASSUME NEW k \in Nat, k \in D PROVE k + 1 \in D
    <3> SUFFICES ASSUME k + 1 <= n PROVE Capped(f[k + 1])
      OBVIOUS
    <3>1. k < n /\ Capped(f[k])
      BY <2>3
    <3>2. f[k + 1] = ScanByte(f[k], s[k + 1])
      BY <1>1, <2>1, <3>1 DEF Goes, StepOf
    <3>3. QED
      BY <3>1, <3>2, CappedStep
  <2> HIDE DEF D
  <2>4. n \in D
    BY <2>2, <2>3, NatInduct
  <2>5. QED
    BY <2>1, <2>4 DEF D
<1>3. ASSUME Tidy(t) PROVE Tidy(Show(t, s))
  <2>1. PICK g : Goes(g, "show", t, s) /\ Show(t, s) = g[n]
    BY <1>1, ShowGoes
  <2>2. Tidy(Fresh)
    BY DEF Tidy, Terminal, Fresh
  <2>3. \A u, b : Tidy(u) => Tidy(StepOf("show", u, b))
    BY <2>2, ScanKeeps DEF StepOf, TermByte
  <2>4. \A k \in Nat : k <= Len(s) => Tidy(g[k])
    BY <1>3, <2>1, <2>3, GoesTidy
  <2>5. QED
    BY <1>1, <2>1, <2>4
<1>4. QED
  BY <1>2, <1>3

\* The modes keep their types, and the ring its capacity.
LEMMA ModeTyped == ModeSpec => []ModeTypeOK
<1> DEFINE Ends == Capped(front) /\ Tidy(watcher)
           Rings == ring \in Seq(ModeByte) /\ Len(ring) <= RingCap
           Rest == pending \in Seq(ModeByte) /\ writes \in 0..MaxWrites /\ resetGone \in BOOLEAN
<1>1. ModeInit => Ends /\ Rings /\ Rest
  <2> SUFFICES ASSUME ModeInit PROVE Ends /\ Rings /\ Rest
    OBVIOUS
  <2>1. Tidy(Fresh) /\ Fresh.buf = <<>> /\ Len(<<>>) = 0
    BY DEF Tidy, Terminal, Fresh
  <2>2. RingCap \in Nat /\ CsiCap \in Nat /\ MaxWrites \in Nat
    BY ModeAssumption
  <2>3. front = Fresh /\ watcher = Fresh /\ ring = <<>> /\ pending = <<>> /\ writes = 0 /\ resetGone = FALSE
    BY DEF ModeInit
  <2>4. Ends
    BY <2>1, <2>2, <2>3 DEF Capped
  <2>5. resetGone \in BOOLEAN
    BY <2>3, Zenon
  <2>6. QED
    BY <2>2, <2>3, <2>4, <2>5
<1>2. Ends /\ Rings /\ Rest => ModeTypeOK
  BY DEF Capped, Tidy, Terminal, ModeTypeOK
<1>3. Ends /\ Rings /\ Rest /\ [ModeNext]_modeVars => Ends' /\ Rings' /\ Rest'
  <2> SUFFICES ASSUME Ends, Rings, Rest, [ModeNext]_modeVars PROVE Ends' /\ Rings' /\ Rest'
    OBVIOUS
  <2>1. MaxWrites \in Nat /\ RingCap \in Nat \ {0}
    BY ModeAssumption
  <2>2. ASSUME NEW s \in ModeWrites, ShellWrites(s) PROVE Ends' /\ Rings' /\ Rest'
    <3>1. s \in Seq(ModeByte)
      BY WritesAssumption
    <3>2. /\ pending' = pending \o s /\ writes' = writes + 1 /\ writes < MaxWrites
          /\ ring' = ring /\ front' = front /\ watcher' = watcher /\ resetGone' = resetGone
      BY <2>2 DEF ShellWrites
    <3>3. pending' \in Seq(ModeByte)
      BY <3>1, <3>2
    <3>4. writes' \in 0..MaxWrites
      BY <2>1, <3>2
    <3>5. QED
      BY <3>2, <3>3, <3>4
  <2>3. ASSUME NEW n \in 1..Len(pending), RingPush(n) PROVE Ends' /\ Rings' /\ Rest'
    <3>1. PICK data : data = SubSeq(pending, 1, n)
      OBVIOUS
    <3>2. PICK all : all = ring \o data
      OBVIOUS
    <3>3. PICK over : over = IF Len(all) > RingCap THEN Len(all) - RingCap ELSE 0
      OBVIOUS
    <3>4. /\ ring' = SubSeq(all, over + 1, Len(all)) /\ front' = Feed(front, SubSeq(all, 1, over))
          /\ watcher' = Show(watcher, data) /\ pending' = SubSeq(pending, n + 1, Len(pending)) /\ writes' = writes
          /\ resetGone' = (resetGone \/ ResetIn(front, SubSeq(all, 1, over)))
      BY <2>3, <3>1, <3>2, <3>3 DEF RingPush
    <3>5. data \in Seq(ModeByte) /\ pending' \in Seq(ModeByte)
      <4>1. n \in 0..Len(pending)
        OBVIOUS
      <4>2. QED
        BY <3>1, <3>4, <4>1, CutInTwo
    <3>6. all \in Seq(ModeByte)
      BY <3>2, <3>5
    <3>7. PICK m \in Nat : m = Len(all) /\ over \in 0..m /\ m - over <= RingCap
      BY <2>1, <3>3, <3>6
    <3>8. SubSeq(all, 1, over) \in Seq(ModeByte) /\ ring' \in Seq(ModeByte)
      BY <3>4, <3>6, <3>7, CutInTwo
    <3>9. Len(ring') <= RingCap
      <4>1. Len(SubSeq(all, over + 1, m)) = m - over
        BY <3>6, <3>7
      <4>2. QED
        BY <3>4, <3>7, <4>1
    <3>10. Capped(front') /\ Tidy(watcher')
      BY <3>4, <3>5, <3>8, FedTyped
    <3>11. resetGone' \in BOOLEAN
      BY <3>4, Zenon
    <3>12. QED
      BY <3>4, <3>5, <3>8, <3>9, <3>10, <3>11 DEF Capped
  <2>4. CASE UNCHANGED modeVars
    BY <2>4 DEF modeVars
  <2>5. QED
    BY <2>2, <2>3, <2>4 DEF ModeNext
<1> HIDE DEF Ends, Rings, Rest
<1>4. QED
  BY <1>1, <1>2, <1>3, PTL DEF ModeSpec

\* A Config, whichever settings it is made of.
ConfigRec ==
  [slots : Nat, cap : Nat, secure : BOOLEAN, tls : BOOLEAN, methods : SUBSET Providers,
   mfa : BOOLEAN, remember : BOOLEAN, key : {EnvKey} \cup Nat]

\* No Config is one, and so is the Config of any settings and any key.
LEMMA ConfigTyped ==
  /\ NoConfig \in ConfigRec
  /\ \A s \in BootSetting, k \in {EnvKey} \cup Nat : ConfigOf(s, k) \in ConfigRec
<1>1. NoConfig \in ConfigRec
  BY DEF NoConfig, ConfigRec, Providers, NoKey
<1>2. ASSUME NEW s \in BootSetting, NEW k \in {EnvKey} \cup Nat PROVE ConfigOf(s, k) \in ConfigRec
  <2>1. CASE s.simple
    <3>1. PICK c \in Nat : c = 128 * 1024
      OBVIOUS
    <3>2. ConfigOf(s, k) = [[[[NoConfig EXCEPT !.slots = 10] EXCEPT !.cap = c] EXCEPT !.methods = {"local"}] EXCEPT !.key = k]
      BY <2>1, <3>1 DEF ConfigOf
    <3>3. {"local"} \in SUBSET Providers
      BY DEF Providers
    <3>4. \A r \in ConfigRec, m \in SUBSET Providers :
            /\ [r EXCEPT !.slots = 10] \in ConfigRec /\ [r EXCEPT !.cap = c] \in ConfigRec
            /\ [r EXCEPT !.methods = m] \in ConfigRec /\ [r EXCEPT !.key = k] \in ConfigRec
      BY DEF ConfigRec
    <3>5. QED
      BY <1>1, <3>2, <3>3, <3>4
  <2>2. CASE ~s.simple
    <3>1. PICK n \in Nat, c \in Nat : n = SlotsOf(s) /\ c = CapOf(s)
      <4>1. SlotsOf(s) \in Nat /\ CapOf(s) \in Nat
        BY RingsFit
      <4>2. QED
        BY <4>1
    <3>2. PICK m \in SUBSET Providers : m = MethodsOf(s)
      <4>1. MethodsOf(s) \in SUBSET Providers
        BY DEF MethodsOf, Providers
      <4>2. QED
        BY <4>1
    <3>3. s.acme \in BOOLEAN /\ s.mfa \in BOOLEAN /\ SecureOf(s) \in BOOLEAN /\ RememberOf(s) \in BOOLEAN
      BY DEF BootSetting, SecureOf, SecureByUrl, RememberOf
    <3>4. ConfigOf(s, k) = [slots |-> n, cap |-> c, secure |-> SecureOf(s), tls |-> s.acme, methods |-> m,
                            mfa |-> s.mfa, remember |-> RememberOf(s), key |-> k]
      BY <2>2, <3>1, <3>2 DEF ConfigOf
    <3>5. QED
      BY <3>3, <3>4 DEF ConfigRec
  <2>3. QED
    BY <2>1, <2>2
<1>3. QED
  BY <1>1, <1>2

\* The stages, the count of starts and the key are what they look like.
LEMMA BootTyped == BootSpec => []StartupTypeOK
<1> DEFINE Counts == boot \in Stages /\ boots \in 0..MaxBoots /\ fileKey \in 0..boots
           Serves == running \in ConfigRec /\ (boot # "serving" => running = NoConfig)
<1>1. BootInit => Counts /\ Serves
  BY ConfigTyped, StartupAssumption DEF BootInit, Stages, NoKey
<1>2. BootInv /\ Counts /\ Serves => StartupTypeOK
  <2> SUFFICES ASSUME BootInv, Counts, Serves PROVE StartupTypeOK
    OBVIOUS
  <2>1. settings \in BootSetting /\ servedBy \subseteq {fileKey} /\ fileKey \in Nat
    BY StartupAssumption DEF BootInv, KeyInv, StageInv
  <2>2. QED
    BY <2>1 DEF StartupTypeOK, ConfigRec
<1>3. BootInv /\ Counts /\ Serves /\ [BootNext]_bootVars => Counts' /\ Serves'
  <2> SUFFICES ASSUME BootInv, Counts, Serves, [BootNext]_bootVars PROVE Counts' /\ Serves'
    OBVIOUS
  <2>1. MaxBoots \in Nat /\ settings \in BootSetting
    BY StartupAssumption DEF BootInv, StageInv
  <2>2. CASE UNCHANGED bootVars
    BY <2>2 DEF bootVars
  <2>3. CASE BootChoose
    BY <2>1, <2>3 DEF BootChoose, Stage, Stages
  <2>4. CASE BootLoad \/ BootCerts \/ BootCheck
    BY <2>4 DEF BootLoad, BootCerts, BootCheck, Stage, BootKept, Stages
  <2>5. CASE BootKey
    <3>1. /\ boot = "loaded" /\ boot' \in {"keyed", "refused"} /\ fileKey' \in {boots, fileKey}
          /\ UNCHANGED <<boots, running>>
      BY <2>5 DEF BootKey, Stage
    <3>2. QED
      BY <2>1, <3>1 DEF Stages
  <2>6. CASE Serve
    <3>1. /\ boot = "checked" /\ boot' \in {"serving", "refused"} /\ UNCHANGED <<fileKey, boots>>
          /\ running' = IF boot' = "serving" THEN ConfigOf(settings, SigningKey) ELSE NoConfig
      BY <2>6 DEF Serve, Stage
    <3>2. SigningKey \in {EnvKey} \cup Nat
      BY <2>1 DEF SigningKey
    <3>3. QED
      BY <2>1, <3>1, <3>2, ConfigTyped DEF Stages
  <2>7. CASE BootEnds
    BY <2>7, ConfigTyped DEF BootEnds, Stages
  <2>8. QED
    BY <2>2, <2>3, <2>4, <2>5, <2>6, <2>7 DEF BootNext
<1> HIDE DEF Counts, Serves
<1>4. BootSpec => [](Counts /\ Serves)
  BY <1>1, <1>3, BootIndHolds, PTL DEF BootSpec
<1>5. QED
  BY <1>2, <1>4, BootIndHolds, PTL

\* A shell as the connection sees it.
CmdRec == [slot : MuxSlot \cup {0}, up : BOOLEAN, cmds : Seq({"input", "resize"})]

\* The shells spawned so far are the first ones, and stay so when they end.
ShellsInv ==
  /\ muxShell \in [MuxShell -> CmdRec]
  /\ \A g \in MuxShell :
       Len(muxShell[g].cmds) <= CmdCap /\ (muxShell[g].slot = 0 => muxShell[g] = Unspawned)
  /\ \E n \in 0..MaxMuxShell : \A g \in MuxShell : (muxShell[g].slot # 0) = (g <= n)

\* Whoever refers to a shell does so from its slot.
OfSlot(shells, g, s) == g \in MuxShell /\ shells[g].slot = s
LinksInv ==
  /\ \A s \in MuxSlot :
       /\ channel[s] # NoChannel => OfSlot(muxShell, channel[s].shell, s)
       /\ tenant[s] # 0 => OfSlot(muxShell, tenant[s], s)
  /\ loop = "send" => OfSlot(muxShell, opening.shell, opening.slot)

LoopInv ==
  /\ loop \in {"off", "turn", "send"} /\ (loop # "send" => opening = NotOpening)
  /\ frames \in 0..MaxFrame /\ gone \in BOOLEAN /\ seenGone \in BOOLEAN /\ handler \in BOOLEAN

\* What a step leaves of a shell's slot, it leaves of all links to the shell.
LEMMA LinksKept ==
  ASSUME LinksInv, \A g \in MuxShell, s \in MuxSlot : OfSlot(muxShell, g, s) => OfSlot(muxShell', g, s),
         loop = "send" => opening.slot \in MuxSlot,
         \A s \in MuxSlot : channel'[s] \in {channel[s], NoChannel} \/ (channel[s] # NoChannel /\ channel'[s].shell = channel[s].shell),
         \A s \in MuxSlot : tenant'[s] \in {tenant[s], 0},
         loop' = "send" => loop = "send" /\ opening' = opening
  PROVE  LinksInv'
<1>1. ASSUME NEW s \in MuxSlot, channel'[s] # NoChannel PROVE OfSlot(muxShell', channel'[s].shell, s)
  <2>1. channel'[s].shell = channel[s].shell /\ channel[s] # NoChannel
    BY <1>1
  <2>2. OfSlot(muxShell, channel[s].shell, s) /\ channel[s].shell \in MuxShell
    BY <2>1 DEF LinksInv, OfSlot
  <2>3. QED
    BY <2>1, <2>2 DEF OfSlot
<1>2. ASSUME NEW s \in MuxSlot, tenant'[s] # 0 PROVE OfSlot(muxShell', tenant'[s], s)
  <2>1. tenant'[s] = tenant[s] /\ OfSlot(muxShell, tenant[s], s) /\ tenant[s] \in MuxShell
    BY <1>2 DEF LinksInv, OfSlot
  <2>2. QED
    BY <2>1 DEF OfSlot
<1>3. ASSUME loop' = "send" PROVE OfSlot(muxShell', opening'.shell, opening'.slot)
  <2>1. opening' = opening /\ opening.slot \in MuxSlot /\ OfSlot(muxShell, opening.shell, opening.slot) /\ opening.shell \in MuxShell
    BY <1>3 DEF LinksInv, OfSlot
  <2>2. QED
    BY <2>1 DEF OfSlot
<1>4. QED
  BY <1>1, <1>2, <1>3 DEF LinksInv

\* One shell changes, but for its slot.
LEMMA ShellChanges ==
  ASSUME ShellsInv, NEW g \in MuxShell, muxShell[g].slot # 0, NEW r \in CmdRec, r.slot = muxShell[g].slot,
         Len(r.cmds) <= CmdCap, muxShell' = [muxShell EXCEPT ![g] = r]
  PROVE  ShellsInv' /\ \A k \in MuxShell, s \in MuxSlot : OfSlot(muxShell, k, s) => OfSlot(muxShell', k, s)
<1>1. \A k \in MuxShell : muxShell'[k].slot = muxShell[k].slot /\ (k # g => muxShell'[k] = muxShell[k])
  BY DEF ShellsInv
<1>2. muxShell'[g] = r /\ muxShell' \in [MuxShell -> CmdRec]
  BY DEF ShellsInv
<1>3. PICK n \in 0..MaxMuxShell : \A k \in MuxShell : (muxShell[k].slot # 0) = (k <= n)
  BY DEF ShellsInv
<1>4. \A k \in MuxShell : (muxShell'[k].slot # 0) = (k <= n)
  BY <1>1, <1>3
<1>5. \A k \in MuxShell : Len(muxShell'[k].cmds) <= CmdCap /\ (muxShell'[k].slot = 0 => muxShell'[k] = Unspawned)
  BY <1>1, <1>2 DEF ShellsInv
<1>6. ShellsInv'
  BY <1>2, <1>4, <1>5 DEF ShellsInv
<1>7. QED
  BY <1>1, <1>6 DEF OfSlot

\* A command more in a queue that has room.
LEMMA CommandQueued ==
  ASSUME ShellsInv, NEW g \in MuxShell, TakesNow(g), NEW c \in {"input", "resize"}, Queued(g, c)
  PROVE  ShellsInv' /\ \A k \in MuxShell, s \in MuxSlot : OfSlot(muxShell, k, s) => OfSlot(muxShell', k, s)
<1>1. muxShell[g] \in CmdRec /\ muxShell[g].up /\ Len(muxShell[g].cmds) < CmdCap /\ CmdCap \in Nat
  BY MuxAssumption DEF ShellsInv, TakesNow
<1>2. muxShell[g].slot # 0
  BY <1>1 DEF ShellsInv, Unspawned
<1>3. PICK q \in Seq({"input", "resize"}) : q = Append(muxShell[g].cmds, c) /\ Len(q) <= CmdCap
  <2>1. PICK p \in Seq({"input", "resize"}) : p = muxShell[g].cmds
    BY <1>1 DEF CmdRec
  <2>2. Append(p, c) \in Seq({"input", "resize"}) /\ Len(Append(p, c)) = Len(p) + 1 /\ Len(p) \in Nat
    BY <2>1
  <2>3. Len(Append(p, c)) <= CmdCap
    BY <1>1, <2>1, <2>2
  <2>4. QED
    BY <2>1, <2>2, <2>3
<1>4. PICK r : r = [muxShell[g] EXCEPT !.cmds = q]
  OBVIOUS
<1>5. r \in CmdRec /\ r.slot = muxShell[g].slot /\ r.cmds = q
  BY <1>1, <1>4 DEF CmdRec
<1>6. muxShell' = [muxShell EXCEPT ![g] = r]
  BY <1>3, <1>4 DEF Queued, ShellsInv
<1>7. QED
  BY <1>2, <1>3, <1>5, <1>6, ShellChanges

\* A slot's shell is new: it is the one after those spawned before.
LEMMA ShellSpawns ==
  ASSUME ShellsInv, NEW s \in MuxSlot, NEW g \in MuxShell, g = Cardinality(Spawned) + 1,
         muxShell' = [muxShell EXCEPT ![g] = [slot |-> s, up |-> TRUE, cmds |-> <<"resize">>]]
  PROVE  /\ ShellsInv' /\ OfSlot(muxShell', g, s)
         /\ \A k \in MuxShell, q \in MuxSlot : OfSlot(muxShell, k, q) => OfSlot(muxShell', k, q)
<1>1. PICK n \in 0..MaxMuxShell : \A k \in MuxShell : (muxShell[k].slot # 0) = (k <= n)
  BY DEF ShellsInv
<1>2. MaxMuxShell \in Nat /\ CmdCap \in Nat \ {0} /\ 0 \notin MuxSlot
  BY MuxAssumption
<1>3. Spawned = 1..n
  <2>1. \A k \in MuxShell : (muxShell[k] # Unspawned) = (muxShell[k].slot # 0)
    BY DEF ShellsInv, Unspawned
  <2>2. Spawned = {k \in MuxShell : k <= n}
    BY <1>1, <2>1 DEF Spawned
  <2>3. QED
    BY <1>2, <2>2 DEF MuxShell
<1>4. Cardinality(Spawned) = n
  <2>1. Cardinality(1..n) = IF 1 > n THEN 0 ELSE n - 1 + 1
    BY FS_Interval
  <2>2. QED
    BY <1>3, <2>1
<1>5. g = n + 1 /\ n + 1 \in 0..MaxMuxShell /\ muxShell[g].slot = 0
  BY <1>1, <1>2, <1>4 DEF MuxShell
<1>6. PICK r \in CmdRec : r = [slot |-> s, up |-> TRUE, cmds |-> <<"resize">>]
  <2>1. <<"resize">> \in Seq({"input", "resize"})
    OBVIOUS
  <2>2. [slot |-> s, up |-> TRUE, cmds |-> <<"resize">>] \in CmdRec
    BY <2>1 DEF CmdRec
  <2>3. QED
    BY <2>2
<1>7. r.slot = s /\ s # 0 /\ Len(r.cmds) <= CmdCap
  BY <1>2, <1>6
<1>8. /\ muxShell' \in [MuxShell -> CmdRec] /\ muxShell'[g] = r
      /\ \A k \in MuxShell : k # g => muxShell'[k] = muxShell[k]
  BY <1>6 DEF ShellsInv
<1>9. \A k \in MuxShell : (muxShell'[k].slot # 0) = (k <= n + 1)
  BY <1>1, <1>5, <1>7, <1>8 DEF MuxShell
<1>10. \A k \in MuxShell : Len(muxShell'[k].cmds) <= CmdCap /\ (muxShell'[k].slot = 0 => muxShell'[k] = Unspawned)
  BY <1>7, <1>8 DEF ShellsInv
<1>11. ShellsInv'
  BY <1>5, <1>8, <1>9, <1>10 DEF ShellsInv
<1>12. QED
  BY <1>2, <1>5, <1>7, <1>8, <1>11 DEF OfSlot

\* Whatever the connection refers to, the shells know of it.
WiresInv == ShellsInv /\ LinksInv /\ LoopInv

LEMMA WiresIndInit == MuxInit => WiresInv
<1> SUFFICES ASSUME MuxInit PROVE WiresInv
  OBVIOUS
<1>1. CmdCap \in Nat \ {0} /\ MaxMuxShell \in Nat /\ MaxFrame \in Nat
  BY MuxAssumption
<1>2. Unspawned \in CmdRec
  <2>1. <<>> \in Seq({"input", "resize"})
    OBVIOUS
  <2>2. QED
    BY <2>1 DEF Unspawned, CmdRec
<1>3. \A g \in MuxShell : muxShell[g] = Unspawned
  BY DEF MuxInit
<1>4. Unspawned.slot = 0 /\ Len(Unspawned.cmds) <= CmdCap
  BY <1>1 DEF Unspawned
<1>5. 0 \in 0..MaxMuxShell /\ \A g \in MuxShell : (muxShell[g].slot # 0) = (g <= 0)
  BY <1>1, <1>3, <1>4 DEF MuxShell
<1>6. ShellsInv
  BY <1>2, <1>3, <1>4, <1>5 DEF ShellsInv, MuxInit
<1>7. LinksInv /\ LoopInv
  <2>1. \A s \in MuxSlot : channel[s] = NoChannel /\ tenant[s] = 0
    BY DEF MuxInit
  <2>2. loop = "off" /\ opening = NotOpening /\ frames = 0 /\ gone = FALSE /\ seenGone = FALSE /\ handler = FALSE
    BY DEF MuxInit
  <2>3. LinksInv
    BY <2>1, <2>2 DEF LinksInv
  <2>4. gone \in BOOLEAN /\ seenGone \in BOOLEAN /\ handler \in BOOLEAN
    BY <2>2, Zenon
  <2>5. frames \in 0..MaxFrame /\ loop \in {"off", "turn", "send"} /\ (loop # "send" => opening = NotOpening)
    BY <1>1, <2>2
  <2>6. QED
    BY <2>3, <2>4, <2>5 DEF LoopInv
<1>8. QED
  BY <1>6, <1>7 DEF WiresInv

\* Frames that come and go, and a session that does, move no shell.
LEMMA WiresApart ==
  ASSUME WiresInv, UNCHANGED <<loop, opening, channel, muxShell, tenant>>, LoopInv'
  PROVE  WiresInv'
BY DEF WiresInv, ShellsInv, LinksInv

\* A connection that ends lets go of every shell.
LEMMA WiresEnd == ASSUME WiresInv, ConnEnds, UNCHANGED muxShell PROVE WiresInv'
<1>1. ShellsInv'
  BY DEF WiresInv, ShellsInv
<1>2. LinksInv'
  BY DEF WiresInv, LinksInv, ConnEnds
<1>3. LoopInv'
  BY DEF WiresInv, LoopInv, ConnEnds
<1>4. QED
  BY <1>1, <1>2, <1>3 DEF WiresInv

\* A slot that opens is attached to a shell of its own, or to none.
LEMMA WiresOpen == ASSUME MuxTypes, WiresInv, HandleOpen PROVE WiresInv'
<1>1. PICK s : s = Head(wire).slot
  OBVIOUS
<1>2. s \in MuxSlot /\ tenant \in [MuxSlot -> MuxShell \cup {0}] /\ channel \in [MuxSlot -> Channel]
  <2>1. Head(wire) \in Frame
    BY DEF HandleOpen, Arrives, MuxTypes
  <2>2. QED
    BY <1>1, <2>1 DEF Frame, MuxTypes
<1>3. /\ loop = "turn" /\ channel' = [channel EXCEPT ![s] = NoChannel]
      /\ UNCHANGED <<frames, view, gone, seenGone, handler>>
  BY <1>1 DEF HandleOpen, Arrives, Handled
<1>4. ShellsInv /\ LinksInv /\ LoopInv
  BY DEF WiresInv
<1>5. \A q \in MuxSlot : channel'[q] \in {channel[q], NoChannel}
  BY <1>2, <1>3
<1>6. ASSUME NEW g \in MuxShell, AttachesTo(s, g), ShellsInv', OfSlot(muxShell', g, s),
             \A k \in MuxShell, q \in MuxSlot : OfSlot(muxShell, k, q) => OfSlot(muxShell', k, q),
             tenant' = tenant \/ tenant' = [tenant EXCEPT ![s] = g]
      PROVE  WiresInv'
  <2>1. \A q \in MuxSlot : channel'[q] # NoChannel => OfSlot(muxShell', channel'[q].shell, q)
    <3>1. SUFFICES ASSUME NEW q \in MuxSlot, channel'[q] # NoChannel PROVE OfSlot(muxShell', channel'[q].shell, q)
      OBVIOUS
    <3>2. channel'[q] = channel[q] /\ OfSlot(muxShell, channel[q].shell, q) /\ channel[q].shell \in MuxShell
      BY <1>4, <1>5, <3>1 DEF LinksInv, OfSlot
    <3>3. QED
      BY <1>6, <3>2
  <2>2. \A q \in MuxSlot : tenant'[q] # 0 => OfSlot(muxShell', tenant'[q], q)
    <3>1. SUFFICES ASSUME NEW q \in MuxSlot, tenant'[q] # 0 PROVE OfSlot(muxShell', tenant'[q], q)
      OBVIOUS
    <3>2. CASE tenant'[q] = tenant[q]
      <4>1. OfSlot(muxShell, tenant[q], q) /\ tenant[q] \in MuxShell
        BY <1>4, <3>1, <3>2 DEF LinksInv, OfSlot
      <4>2. QED
        BY <1>6, <3>2, <4>1
    <3>3. CASE tenant'[q] # tenant[q]
      <4>1. q = s /\ tenant'[q] = g
        BY <1>2, <1>6, <3>3
      <4>2. QED
        BY <1>6, <4>1
    <3>4. QED
      BY <3>2, <3>3
  <2>3. loop' = "send" /\ opening'.shell = g /\ opening'.slot = s
    BY <1>6 DEF AttachesTo
  <2>4. LinksInv'
    BY <1>6, <2>1, <2>2, <2>3 DEF LinksInv
  <2>5. LoopInv'
    BY <1>3, <1>4, <2>3 DEF LoopInv
  <2>6. QED
    BY <1>6, <2>4, <2>5 DEF WiresInv
<1>7. CASE tenant[s] # 0 /\ AttachesTo(s, tenant[s]) /\ Offered(tenant[s], "resize") /\ UNCHANGED tenant
  <2>1. PICK g \in MuxShell : g = tenant[s] /\ OfSlot(muxShell, g, s)
    BY <1>2, <1>4, <1>7 DEF LinksInv
  <2>2. AttachesTo(s, g) /\ Offered(g, "resize") /\ tenant' = tenant
    BY <1>7, <2>1
  <2>3. /\ ShellsInv'
        /\ \A k \in MuxShell, q \in MuxSlot : OfSlot(muxShell, k, q) => OfSlot(muxShell', k, q)
    <3>1. CASE TakesNow(g) /\ Queued(g, "resize")
      BY <1>4, <3>1, CommandQueued
    <3>2. CASE muxShell' = muxShell
      BY <1>4, <3>2 DEF ShellsInv
    <3>3. QED
      BY <2>2, <3>1, <3>2 DEF Offered
  <2>4. OfSlot(muxShell', g, s)
    BY <1>2, <2>1, <2>3
  <2>5. QED
    BY <1>6, <2>2, <2>3, <2>4
<1>8. ASSUME NEW g \in MuxShell, g = Cardinality(Spawned) + 1, AttachesTo(s, g),
             muxShell' = [muxShell EXCEPT ![g] = [slot |-> s, up |-> TRUE, cmds |-> <<"resize">>]],
             tenant' = [tenant EXCEPT ![s] = g]
      PROVE  WiresInv'
  <2>1. /\ ShellsInv' /\ OfSlot(muxShell', g, s)
        /\ \A k \in MuxShell, q \in MuxSlot : OfSlot(muxShell, k, q) => OfSlot(muxShell', k, q)
    BY <1>2, <1>4, <1>8, ShellSpawns
  <2>2. QED
    BY <1>6, <1>8, <2>1
<1>9. CASE UNCHANGED <<muxShell, tenant, opening, loop>>
  <2>1. ShellsInv' /\ LoopInv'
    BY <1>3, <1>4, <1>9 DEF ShellsInv, LoopInv
  <2>2. LinksInv'
    BY <1>3, <1>4, <1>5, <1>9 DEF LinksInv
  <2>3. QED
    BY <2>1, <2>2 DEF WiresInv
<1>10. QED
  BY <1>1, <1>7, <1>8, <1>9 DEF HandleOpen

\* Every step keeps the shells, and what refers to them.
LEMMA WiresIndStep == ASSUME MuxInv, WiresInv, [MuxNext]_muxVars PROVE WiresInv'
<1>1. /\ ShellsInv /\ LinksInv /\ LoopInv /\ MuxTypes /\ (handler => loop = "off")
      /\ MaxFrame \in Nat /\ 0 \notin MuxSlot
  BY MuxAssumption DEF WiresInv, MuxInv
<1>2. /\ channel \in [MuxSlot -> Channel] /\ tenant \in [MuxSlot -> MuxShell \cup {0}]
      /\ (loop = "send" => opening \in [slot : MuxSlot, shell : MuxShell, ro : BOOLEAN])
      /\ \A s \in MuxSlot : channel[s] # NoChannel => channel[s].shell \in MuxShell
  BY <1>1 DEF MuxTypes, Channel
<1>3. CASE UNCHANGED muxVars
  <2>1. LoopInv'
    BY <1>1, <1>3 DEF muxVars, LoopInv
  <2>2. QED
    BY <1>3, <2>1, WiresApart DEF muxVars
<1>4. CASE SessionGoes \/ WsFinds
  <2>1. LoopInv' /\ UNCHANGED <<loop, opening, channel, muxShell, tenant>>
    BY <1>1, <1>4 DEF SessionGoes, WsFinds, LoopInv
  <2>2. QED
    BY <2>1, WiresApart
<1>5. CASE WsSubscribes
  <2>1. handler \in BOOLEAN /\ gone \in BOOLEAN
    BY <1>1 DEF LoopInv
  <2>2. opening' = opening /\ channel' = channel /\ muxShell' = muxShell /\ tenant' = tenant /\ loop' = "turn" /\ frames' = frames
        /\ handler' = FALSE /\ seenGone' = gone /\ gone' = gone /\ handler
    BY <1>5 DEF WsSubscribes
  <2>3. loop = "off"
    BY <1>1, <2>2
  <2>4. LoopInv'
    BY <1>1, <2>1, <2>2, <2>3 DEF LoopInv
  <2>5. LinksInv'
    BY <1>1, <2>2 DEF LinksInv
  <2>6. QED
    BY <1>1, <2>2, <2>4, <2>5 DEF WiresInv, ShellsInv
<1>6. CASE EndsRevoked \/ EndsOtherwise \/ Overload
  BY <1>6, WiresEnd DEF EndsRevoked, EndsOtherwise, Overload
<1>7. ASSUME NEW g \in MuxShell, NEW c \in {"input", "resize"}, TakesNow(g), Queued(g, c),
             UNCHANGED <<loop, opening, channel, tenant, frames, gone, seenGone, handler>>
      PROVE  WiresInv'
  <2>1. ShellsInv' /\ \A k \in MuxShell, s \in MuxSlot : OfSlot(muxShell, k, s) => OfSlot(muxShell', k, s)
    BY <1>1, <1>7, CommandQueued
  <2>2. LinksInv'
    BY <1>1, <1>2, <1>7, <2>1, LinksKept
  <2>3. LoopInv'
    BY <1>1, <1>7 DEF LoopInv
  <2>4. QED
    BY <2>1, <2>2, <2>3 DEF WiresInv
<1>8. CASE HandleInput \/ HandleResize
  <2>1. PICK s : s = Head(wire).slot
    OBVIOUS
  <2>2. Head(wire) \in Frame /\ s \in MuxSlot
    <3>1. wire # <<>> /\ wire \in Seq(Frame)
      BY <1>1, <1>8 DEF HandleInput, HandleResize, Arrives, MuxTypes
    <3>2. Head(wire) \in Frame
      BY <3>1
    <3>3. QED
      BY <2>1, <3>2 DEF Frame
  <2>3. channel[s].shell \in MuxShell /\ UNCHANGED <<loop, opening, channel, tenant, frames, gone, seenGone, handler>>
    BY <1>2, <1>8, <2>1, <2>2 DEF HandleInput, HandleResize, Offered, Writable, Handled
  <2>4. CASE muxShell' = muxShell
    <3>1. LoopInv'
      BY <1>1, <2>3 DEF LoopInv
    <3>2. QED
      BY <2>3, <2>4, <3>1, WiresApart
  <2>5. CASE muxShell' # muxShell
    <3>1. TakesNow(channel[s].shell) /\ (Queued(channel[s].shell, "input") \/ Queued(channel[s].shell, "resize"))
      BY <1>8, <2>1, <2>5 DEF HandleInput, HandleResize, Offered
    <3>2. QED
      BY <1>7, <2>3, <3>1
  <2>6. QED
    BY <2>4, <2>5
<1>9. CASE HandleNothing
  <2>1. LoopInv' /\ UNCHANGED <<loop, opening, channel, muxShell, tenant>>
    BY <1>1, <1>9 DEF HandleNothing, Handled, LoopInv
  <2>2. QED
    BY <2>1, WiresApart
<1>10. CASE HandleMode \/ HandleClose
  <2>1. PICK s, ro : s = Head(wire).slot /\ ro = Head(wire).ro
    OBVIOUS
  <2>2. /\ channel' = (IF channel[s] = NoChannel THEN channel ELSE [channel EXCEPT ![s].ro = ro])
           \/ channel' = [channel EXCEPT ![s] = NoChannel]
        /\ UNCHANGED <<loop, opening, muxShell, tenant, frames, gone, seenGone, handler>>
    BY <1>10, <2>1 DEF HandleMode, HandleClose, Handled
  <2>3. \A q \in MuxSlot :
          channel'[q] \in {channel[q], NoChannel} \/ (channel[q] # NoChannel /\ channel'[q].shell = channel[q].shell)
    <3>1. SUFFICES ASSUME NEW q \in MuxSlot
                   PROVE  channel'[q] \in {channel[q], NoChannel} \/ (channel[q] # NoChannel /\ channel'[q].shell = channel[q].shell)
      OBVIOUS
    <3>2. CASE channel' = channel \/ channel' = [channel EXCEPT ![s] = NoChannel]
      BY <1>2, <3>2
    <3>3. CASE channel[s] # NoChannel /\ channel' = [channel EXCEPT ![s].ro = ro]
      <4>1. CASE q = s
        <5>1. channel[q] \in [shell : MuxShell, ro : BOOLEAN]
          BY <1>2, <3>3, <4>1 DEF Channel
        <5>2. channel'[q] = [channel[q] EXCEPT !.ro = ro]
          BY <1>2, <3>3, <4>1
        <5>3. QED
          BY <3>3, <4>1, <5>1, <5>2
      <4>2. CASE q # s
        BY <1>2, <3>3, <4>2
      <4>3. QED
        BY <4>1, <4>2
    <3>4. QED
      BY <2>2, <3>2, <3>3
  <2>4. \A k \in MuxShell, q \in MuxSlot : OfSlot(muxShell, k, q) => OfSlot(muxShell', k, q)
    BY <2>2
  <2>5. LinksInv'
    BY <1>1, <1>2, <2>2, <2>3, <2>4, LinksKept
  <2>6. ShellsInv' /\ LoopInv'
    BY <1>1, <2>2 DEF ShellsInv, LoopInv
  <2>7. QED
    BY <2>5, <2>6 DEF WiresInv
<1>11. CASE HandleOpen
  BY <1>1, <1>11, WiresOpen
<1>12. CASE OpenDone
  <2>1. PICK s \in MuxSlot, g \in MuxShell, ro \in BOOLEAN : opening = [slot |-> s, shell |-> g, ro |-> ro]
    BY <1>2, <1>12 DEF OpenDone
  <2>2. /\ loop = "send" /\ loop' = "turn" /\ opening' = NotOpening
        /\ channel' = [channel EXCEPT ![s] = [shell |-> g, ro |-> ro]]
        /\ UNCHANGED <<muxShell, tenant, frames, gone, seenGone, handler>>
    BY <1>12, <2>1 DEF OpenDone
  <2>3. OfSlot(muxShell, g, s)
    BY <1>1, <2>1, <2>2 DEF LinksInv
  <2>4. \A q \in MuxSlot : channel'[q] # NoChannel => OfSlot(muxShell, channel'[q].shell, q)
    BY <1>1, <1>2, <2>2, <2>3 DEF LinksInv
  <2>5. LinksInv'
    BY <1>1, <2>2, <2>4 DEF LinksInv
  <2>6. ShellsInv' /\ LoopInv'
    BY <1>1, <2>2 DEF ShellsInv, LoopInv
  <2>7. QED
    BY <2>5, <2>6 DEF WiresInv
<1>13. ASSUME NEW f, Sends(f) PROVE WiresInv'
  <2>1. LoopInv' /\ UNCHANGED <<loop, opening, channel, muxShell, tenant>>
    BY <1>1, <1>13 DEF Sends, LoopInv
  <2>2. QED
    BY <2>1, WiresApart
<1>14. ASSUME NEW s \in MuxSlot, ClientCloses(s) \/ ClientTypes(s) \/ ClientResizes(s) PROVE WiresInv'
  BY <1>13, <1>14 DEF ClientCloses, ClientTypes, ClientResizes
<1>15. ASSUME NEW s \in MuxSlot, NEW ro \in BOOLEAN, ClientOpens(s, ro) \/ ClientSwitches(s, ro) PROVE WiresInv'
  BY <1>13, <1>15 DEF ClientOpens, ClientSwitches
<1>16. ASSUME NEW s \in MuxSlot, SlotReset(s) PROVE WiresInv'
  <2>1. /\ tenant' = [tenant EXCEPT ![s] = 0] /\ muxShell' = muxShell
        /\ UNCHANGED <<loop, opening, channel, frames, gone, seenGone, handler>>
    BY <1>16 DEF SlotReset, KeptByShells
  <2>2. \A q \in MuxSlot : tenant'[q] \in {tenant[q], 0}
    BY <1>2, <2>1
  <2>3. LinksInv'
    BY <1>1, <2>1, <2>2 DEF LinksInv
  <2>4. ShellsInv' /\ LoopInv'
    BY <1>1, <2>1 DEF ShellsInv, LoopInv
  <2>5. QED
    BY <2>3, <2>4 DEF WiresInv
<1>17. ASSUME NEW g \in MuxShell, TakesCommand(g) \/ MuxShellEnds(g) PROVE WiresInv'
  <2>1. muxShell[g] \in CmdRec /\ muxShell[g].up /\ CmdCap \in Nat /\ Len(muxShell[g].cmds) <= CmdCap
    BY <1>1, <1>17, MuxAssumption DEF TakesCommand, MuxShellEnds, ShellsInv
  <2>2. muxShell[g].slot # 0
    BY <1>1, <2>1 DEF ShellsInv, Unspawned
  <2>3. UNCHANGED <<loop, opening, channel, tenant, frames, gone, seenGone, handler>>
    BY <1>17 DEF TakesCommand, MuxShellEnds, KeptByShells
  <2>4. PICK r \in CmdRec : /\ muxShell' = [muxShell EXCEPT ![g] = r]
                            /\ r.slot = muxShell[g].slot /\ Len(r.cmds) <= CmdCap
    <3>1. CASE TakesCommand(g)
      <4>1. PICK q \in Seq({"input", "resize"}) : q = Tail(muxShell[g].cmds) /\ Len(q) <= CmdCap
        <5>1. PICK p \in Seq({"input", "resize"}) : p = muxShell[g].cmds /\ p # <<>> /\ Len(p) <= CmdCap
          BY <2>1, <3>1 DEF CmdRec, TakesCommand
        <5>2. Tail(p) \in Seq({"input", "resize"}) /\ Len(Tail(p)) = Len(p) - 1 /\ Len(p) \in Nat
          BY <5>1
        <5>3. Len(Tail(p)) <= CmdCap
          BY <2>1, <5>1, <5>2
        <5>4. QED
          BY <5>1, <5>2, <5>3
      <4>2. muxShell' = [muxShell EXCEPT ![g] = [muxShell[g] EXCEPT !.cmds = q]]
        BY <1>1, <3>1, <4>1 DEF TakesCommand, ShellsInv
      <4>3. [muxShell[g] EXCEPT !.cmds = q] \in CmdRec /\ [muxShell[g] EXCEPT !.cmds = q].slot = muxShell[g].slot
            /\ [muxShell[g] EXCEPT !.cmds = q].cmds = q
        BY <2>1 DEF CmdRec
      <4>4. QED
        BY <4>1, <4>2, <4>3
    <3>2. CASE MuxShellEnds(g)
      <4>1. PICK q \in Seq({"input", "resize"}) : q = <<>> /\ Len(q) = 0
        <5>1. <<>> \in Seq({"input", "resize"}) /\ Len(<<>>) = 0
          OBVIOUS
        <5>2. QED
          BY <5>1
      <4>2. [muxShell[g] EXCEPT !.up = FALSE] \in CmdRec /\ [muxShell[g] EXCEPT !.up = FALSE].slot = muxShell[g].slot
        BY <2>1 DEF CmdRec
      <4>3. PICK p \in CmdRec : p = [muxShell[g] EXCEPT !.up = FALSE] /\ p.slot = muxShell[g].slot
        BY <4>2
      <4>4. [p EXCEPT !.cmds = q] \in CmdRec /\ [p EXCEPT !.cmds = q].slot = p.slot /\ [p EXCEPT !.cmds = q].cmds = q
        BY <4>1, <4>3 DEF CmdRec
      <4>5. muxShell' = [muxShell EXCEPT ![g] = [[muxShell[g] EXCEPT !.up = FALSE] EXCEPT !.cmds = q]]
        BY <1>1, <3>2, <4>1 DEF MuxShellEnds, ShellsInv
      <4>6. QED
        <5>1. PICK r \in CmdRec : r = [p EXCEPT !.cmds = q] /\ r.slot = p.slot /\ r.cmds = q
          BY <4>4
        <5>2. Len(r.cmds) <= CmdCap
          BY <2>1, <4>1, <5>1
        <5>3. muxShell' = [muxShell EXCEPT ![g] = r]
          BY <4>3, <4>5, <5>1
        <5>4. QED
          BY <4>3, <5>1, <5>2, <5>3
    <3>3. QED
      BY <1>17, <3>1, <3>2
  <2>5. ShellsInv' /\ \A k \in MuxShell, s \in MuxSlot : OfSlot(muxShell, k, s) => OfSlot(muxShell', k, s)
    BY <1>1, <2>2, <2>4, ShellChanges
  <2>6. LinksInv'
    BY <1>1, <1>2, <2>3, <2>5, LinksKept
  <2>7. LoopInv'
    BY <1>1, <2>3 DEF LoopInv
  <2>8. QED
    BY <2>5, <2>6, <2>7 DEF WiresInv
<1>18. QED
  BY <1>3, <1>4, <1>5, <1>6, <1>8, <1>9, <1>10, <1>11, <1>12, <1>14, <1>15, <1>16, <1>17 DEF MuxNext

\* The connection and its shells are what they look like.
LEMMA MuxTypesHold == MuxSpec => []MuxTypeOK
<1>1. MuxInv /\ WiresInv => MuxTypeOK
  <2> SUFFICES ASSUME MuxInv, WiresInv PROVE MuxTypeOK
    OBVIOUS
  <2>1. MuxTypes /\ ShellsInv /\ LinksInv /\ LoopInv
    BY DEF MuxInv, WiresInv
  <2>2. \A s \in MuxSlot :
          /\ channel[s] \in [shell : MuxShell \cup {0}, ro : BOOLEAN]
          /\ channel[s].shell # 0 => muxShell[channel[s].shell].slot = s
          /\ tenant[s] # 0 => muxShell[tenant[s]].slot = s
          /\ view[s] \in [open : BOOLEAN, ro : BOOLEAN, n : Nat]
    <3>1. SUFFICES ASSUME NEW s \in MuxSlot
                   PROVE  /\ channel[s] \in [shell : MuxShell \cup {0}, ro : BOOLEAN]
                          /\ channel[s].shell # 0 => muxShell[channel[s].shell].slot = s
                          /\ tenant[s] # 0 => muxShell[tenant[s]].slot = s
                          /\ view[s] \in [open : BOOLEAN, ro : BOOLEAN, n : Nat]
      OBVIOUS
    <3>2. channel[s] \in [shell : MuxShell \cup {0}, ro : BOOLEAN] /\ (channel[s].shell # 0 => channel[s] # NoChannel)
      <4>1. channel[s] = NoChannel \/ channel[s] \in [shell : MuxShell, ro : BOOLEAN]
        BY <2>1 DEF MuxTypes, Channel
      <4>2. NoChannel \in [shell : MuxShell \cup {0}, ro : BOOLEAN] /\ NoChannel.shell = 0
        BY DEF NoChannel
      <4>3. \A c \in [shell : MuxShell, ro : BOOLEAN] : c \in [shell : MuxShell \cup {0}, ro : BOOLEAN]
        OBVIOUS
      <4>4. QED
        BY <4>1, <4>2, <4>3
    <3>3. QED
      BY <2>1, <3>2 DEF MuxTypes, ClientView, LinksInv, OfSlot
  <2>3. opening.shell \in MuxShell \cup {0} /\ (loop = "send") = (opening # NotOpening)
    <3>1. \A g \in MuxShell : g # 0
      BY DEF MuxShell
    <3>2. QED
      BY <2>1, <3>1 DEF MuxTypes, LoopInv, NotOpening
  <2>4. QED
    BY <2>1, <2>2, <2>3 DEF MuxTypeOK, ShellsInv, LoopInv
<1>2. MuxSpec => []WiresInv
  BY WiresIndInit, WiresIndStep, MuxIndHolds, PTL DEF MuxSpec
<1>3. QED
  BY <1>1, <1>2, MuxIndHolds, PTL

\* Each part of MCParts starts as it does alone, and a step of MCParts is a step
\* of that part or none: the parts rest while another works.
LEMMA PartsFirst ==
  PartsInit =>
    /\ SessInit /\ DevInit /\ EnrInit /\ GuardInit /\ ReplayInit /\ ModeInit /\ BootInit /\ MuxInit
BY DEF PartsInit

LEMMA PartsSteps ==
  ASSUME [PartsNext]_<<part, sessVars, devVars, enrVars, guardVars, replayVars,
                         modeVars, bootVars, muxVars, vars>>
  PROVE  /\ [SessNext]_sessVars /\ [DevNext]_devVars /\ [EnrNext]_enrVars /\ [GuardNext]_guardVars
         /\ [ReplayNext]_replayVars /\ [ModeNext]_modeVars /\ [BootNext]_bootVars /\ [MuxNext]_muxVars
<1>1. CASE UNCHANGED <<part, sessVars, devVars, enrVars, guardVars, replayVars, modeVars, bootVars, muxVars>>
  BY <1>1
<1>2. CASE PartsNext
  <2>1. [SessNext]_sessVars
    BY <1>2 DEF PartsNext, Rests
  <2>2. [DevNext]_devVars
    BY <1>2 DEF PartsNext, Rests
  <2>3. [EnrNext]_enrVars
    BY <1>2 DEF PartsNext, Rests
  <2>4. [GuardNext]_guardVars
    BY <1>2 DEF PartsNext, Rests
  <2>5. [ReplayNext]_replayVars
    BY <1>2 DEF PartsNext, Rests
  <2>6. [ModeNext]_modeVars
    BY <1>2 DEF PartsNext, Rests
  <2>7. [BootNext]_bootVars
    BY <1>2 DEF PartsNext, Rests
  <2>8. [MuxNext]_muxVars
    BY <1>2 DEF PartsNext, Rests
  <2>9. QED
    BY <2>1, <2>2, <2>3, <2>4, <2>5, <2>6, <2>7, <2>8
<1>3. QED
  BY <1>1, <1>2

\* PartsTypeOK of MCParts, the type invariants of the eight stores and machines
\* of the run: among them that those who wait in a bucket's queue are those whose
\* request waits for it (main.rs, LoginGuard), that no more codes are remembered
\* than there is room for (totp.rs, ReplayGuard), that the mode tracker's buffer and the
\* ring keep their limits (terminals.rs), that only a server that passed every stage has
\* a Config (main.rs), and that a channel feeds a shell of its own slot (pty.rs,
\* mux_bridge).
THEOREM PartsTypeCorrect == PartsSpec => []PartsTypeOK
<1>1. PartsSpec => SessSpec
  BY PartsFirst, PartsSteps, PTL DEF PartsSpec, SessSpec
<1>2. PartsSpec => DevSpec
  BY PartsFirst, PartsSteps, PTL DEF PartsSpec, DevSpec
<1>3. PartsSpec => EnrSpec
  BY PartsFirst, PartsSteps, PTL DEF PartsSpec, EnrSpec
<1>4. PartsSpec => GuardSpec
  BY PartsFirst, PartsSteps, PTL DEF PartsSpec, GuardSpec
<1>5. PartsSpec => ReplaySpec
  BY PartsFirst, PartsSteps, PTL DEF PartsSpec, ReplaySpec
<1>6. PartsSpec => ModeSpec
  BY PartsFirst, PartsSteps, PTL DEF PartsSpec, ModeSpec
<1>7. PartsSpec => BootSpec
  BY PartsFirst, PartsSteps, PTL DEF PartsSpec, BootSpec
<1>8. PartsSpec => MuxSpec
  BY PartsFirst, PartsSteps, PTL DEF PartsSpec, MuxSpec
<1>9. (SessTypeOK /\ DevTypeOK /\ EnrTypeOK /\ GuardTypeOK /\ ReplayTypeOK /\ ModeTypeOK /\ StartupTypeOK /\ MuxTypeOK)
      => PartsTypeOK
  BY DEF PartsTypeOK
<1>10. QED
  BY <1>1, <1>2, <1>3, <1>4, <1>5, <1>6, <1>7, <1>8, <1>9, SessTyped, DevTypeCorrect, EnrTyped, GuardTyped,
     ReplayTyped, ModeTyped, BootTyped, MuxTypesHold, PTL

=============================================================================

------------------------ MODULE ChannelPackingProofs ------------------------
(***************************************************************************)
(* The numbering of module ChannelPacking, and the way of the signals      *)
(* through the sample, the frame and the row, for any number of channels,  *)
(* any choice of the required and the bound ones and any size of a byte.   *)
(*                                                                         *)
(* The argument has two inductive invariants: FrameInv, what the create    *)
(* leaves behind, and SignalInv, that a level of the frame is high where   *)
(* the bound channel of that position was last seen high.  Between them    *)
(* lie the lemmas about the operators: the numbering (PositionsNumber),    *)
(* the loader's order, which is that of the numbering (OrderIsNumbering),  *)
(* bits in bytes (BytesFacts) and a sample unpacked (SampleArrives).       *)
(***************************************************************************)
EXTENDS ChannelPacking, FiniteSetTheorems, SequenceTheorems, WellFoundedInduction, TLAPS

(* What the create leaves behind.                                          *)
FrameInv ==
  /\ required \in [Channel -> BOOLEAN]
  /\ bound \subseteq Channel
  /\ status = "open" =>
       /\ positions = ChannelBitPositions(bound)
       /\ DOMAIN levels = 0..(FrameWidth(positions) - 1)

(* The channels of b with a smaller number than c.                         *)
Below(b, c) == {d \in b : Before(d, c)}

-----------------------------------------------------------------------------
(* Channels are finitely many.                                             *)
LEMMA BoundFinite ==
  ASSUME NEW b \in SUBSET Channel
  PROVE  IsFiniteSet(b) /\ Cardinality(b) \in Nat
  <1>1. IsFiniteSet(Channel)
    BY NumChannelsAssumption, FS_Interval DEF Channel
  <1>2. IsFiniteSet(b)
    BY <1>1, FS_Subset
  <1>3. QED
    BY <1>2, FS_CardinalityType

(* A channel has fewer channels below it than any that comes after it.     *)
LEMMA BelowGrows ==
  ASSUME required \in [Channel -> BOOLEAN], NEW b \in SUBSET Channel
  PROVE  /\ \A c \in b : /\ Cardinality(Below(b, c)) \in Nat
                         /\ Cardinality(Below(b, c)) < Cardinality(b)
         /\ \A c, d \in b : Before(c, d) =>
              Cardinality(Below(b, c)) < Cardinality(Below(b, d))
  <1>1. IsFiniteSet(b) /\ Cardinality(b) \in Nat
    BY BoundFinite
  <1>2. \A c, d, e \in b :
          /\ ~Before(c, c)
          /\ Before(c, d) /\ Before(d, e) => Before(c, e)
    <2>1. \A c \in b : c \in Nat
      BY NumChannelsAssumption DEF Channel
    <2>2. QED
      BY <2>1 DEF Before
  <1>3. \A T \in SUBSET b : /\ IsFiniteSet(T) /\ Cardinality(T) \in Nat
                           /\ \A U \in SUBSET T : U # T => Cardinality(U) < Cardinality(T)
    <2>1. ASSUME NEW T \in SUBSET b
          PROVE  IsFiniteSet(T) /\ Cardinality(T) \in Nat
      BY <1>1, FS_Subset, FS_CardinalityType
    <2>2. ASSUME NEW T \in SUBSET b, NEW U \in SUBSET T, U # T
          PROVE  Cardinality(U) < Cardinality(T)
      <3>1. /\ Cardinality(U) <= Cardinality(T) /\ Cardinality(T) # Cardinality(U)
            /\ Cardinality(U) \in Nat /\ Cardinality(T) \in Nat
        BY <2>1, <2>2, FS_Subset, FS_CardinalityType
      <3>2. QED
        BY <3>1
    <2>3. QED
      BY <2>1, <2>2
  <1>4. ASSUME NEW c \in b
        PROVE  /\ Cardinality(Below(b, c)) \in Nat
               /\ Cardinality(Below(b, c)) < Cardinality(b)
    <2>1. Below(b, c) \in SUBSET b /\ Below(b, c) # b
      <3>1. c \in b /\ c \notin Below(b, c)
        BY <1>2, <1>4 DEF Below
      <3>2. \A e \in Below(b, c) : e \in b
        BY DEF Below
      <3>3. QED
        BY <3>1, <3>2
    <2>2. QED
      BY <1>3, <2>1
  <1>5. ASSUME NEW c \in b, NEW d \in b, Before(c, d)
        PROVE  Cardinality(Below(b, c)) < Cardinality(Below(b, d))
    <2>1. Below(b, c) \in SUBSET Below(b, d) /\ Below(b, c) # Below(b, d)
      <3>1. c \in Below(b, d) /\ c \notin Below(b, c)
        BY <1>2, <1>5 DEF Below
      <3>2. \A e \in Below(b, c) : e \in Below(b, d)
        BY <1>2, <1>5 DEF Below
      <3>3. QED
        BY <3>1, <3>2
    <2>2. Below(b, d) \in SUBSET b
      BY DEF Below
    <2>3. QED
      BY <1>3, <2>1, <2>2
  <1>6. QED
    BY <1>4, <1>5

(* The positions are 0, 1, ... without a gap.                              *)
LEMMA PositionsNumber ==
  ASSUME required \in [Channel -> BOOLEAN], NEW b \in SUBSET Channel
  PROVE  {ChannelBitPositions(b)[c] : c \in b} = 0..(Cardinality(b) - 1)
  <1> DEFINE pos == ChannelBitPositions(b)
             n == Cardinality(b)
  <1>1. IsFiniteSet(b) /\ n \in Nat
    BY BoundFinite
  <1>2. pos = [c \in b |-> Cardinality(Below(b, c))]
    BY DEF ChannelBitPositions, Below
  <1>3. pos \in [b -> 0..(n - 1)]
    BY <1>1, <1>2, BelowGrows
  <1>4. \A c, d \in b : c # d => Before(c, d) \/ Before(d, c)
    BY NumChannelsAssumption DEF Before, Channel
  <1>5. \A c, d \in b : Before(c, d) => pos[c] < pos[d]
    BY <1>2, BelowGrows
  <1>6. \A c, d \in b : c # d => pos[c] # pos[d]
    <2>1. \A c, d \in b : pos[c] \in Nat /\ (pos[c] < pos[d] => pos[c] # pos[d])
      BY <1>1, <1>3
    <2>2. QED
      BY <1>4, <1>5, <2>1
  <1>7. pos \in Injection(b, 0..(n - 1))
    BY <1>3, <1>6 DEF Injection, IsInjective
  <1>8. IsFiniteSet(0..(n - 1)) /\ Cardinality(0..(n - 1)) = n
    BY <1>1, FS_Interval
  <1>9. pos \in Surjection(b, 0..(n - 1))
    BY <1>7, <1>8, FS_Injection
  <1>10. QED
    BY <1>3, <1>9 DEF Surjection

(* The frame has a level for each bound channel.                           *)
LEMMA WidthIsNumber ==
  ASSUME required \in [Channel -> BOOLEAN], NEW b \in SUBSET Channel, b # {}
  PROVE  FrameWidth(ChannelBitPositions(b)) = Cardinality(b)
  <1> DEFINE pos == ChannelBitPositions(b)
             n == Cardinality(b)
             S == {pos[c] + 1 : c \in DOMAIN pos} \cup {1}
  <1>1. n \in Nat /\ n # 0
    BY BoundFinite, FS_EmptySet
  <1>2. DOMAIN pos = b
    BY DEF ChannelBitPositions
  <1>3. {pos[c] : c \in b} = 0..(n - 1)
    BY PositionsNumber
  <1>4. \A x \in S : x \in Nat /\ x <= n
    <2>1. \A c \in b : pos[c] \in 0..(n - 1)
      BY <1>3
    <2>2. \A c \in b : pos[c] + 1 \in Nat /\ pos[c] + 1 <= n
      BY <1>1, <2>1
    <2>3. QED
      BY <1>1, <1>2, <2>2
  <1>5. n \in S
    <2>1. n - 1 \in {pos[c] : c \in b}
      BY <1>1, <1>3
    <2>2. PICK c \in b : pos[c] = n - 1
      BY <2>1
    <2>3. QED
      BY <1>1, <1>2, <2>2
  <1>6. Max(S) = n
    BY <1>1, <1>4, <1>5 DEF Max
  <1>7. QED
    BY <1>6 DEF FrameWidth

(* Only the create touches the frame, and it does so once.                 *)
LEMMA FrameStays == FrameInv /\ [Next]_vars => FrameInv'
  <1> SUFFICES ASSUME FrameInv, [Next]_vars PROVE FrameInv'
    OBVIOUS
  <1>1. ASSUME NEW b \in SUBSET Channel, CreateInstance(b)
        PROVE  FrameInv'
    <2>1. required' = required /\ bound' = b /\ status # "open"
      BY <1>1 DEF CreateInstance
    <2>2. ChannelBitPositions(b)' = ChannelBitPositions(b)
      BY <2>1 DEF ChannelBitPositions, Before
    <2>3. QED
      BY <1>1, <2>1, <2>2 DEF CreateInstance, FrameInv, FrameWidth
  <1>2. ASSUME NEW value \in [bound -> SignalValue], Feed(value)
        PROVE  FrameInv'
    <2>1. UNCHANGED <<required, status, bound, positions>> /\ DOMAIN levels' = DOMAIN levels
      BY <1>2 DEF Feed, ApplyChanges
    <2>2. QED
      BY <2>1 DEF FrameInv, ChannelBitPositions, Before, FrameWidth
  <1>3. CASE UNCHANGED vars
    BY <1>3 DEF vars, FrameInv, ChannelBitPositions, Before, FrameWidth
  <1>4. QED
    BY <1>1, <1>2, <1>3 DEF Next
-----------------------------------------------------------------------------
(* The numbering of registry.rs and the frame width of srd.rs agree        *)
(* (ChannelPacking!PositionsFillTheFrame): no level of the frame is        *)
(* without its channel and no two channels share one.                      *)
THEOREM FrameIsFilled == Spec => []PositionsFillTheFrame
  <1>1. Init => FrameInv
    BY DEF Init, FrameInv
  <1>2. FrameInv /\ [Next]_vars => FrameInv'
    BY FrameStays
  <1>3. FrameInv => PositionsFillTheFrame
    <2> SUFFICES ASSUME FrameInv, status = "open", bound # {}
                 PROVE  /\ {positions[c] : c \in bound} = DOMAIN levels
                        /\ \A c, d \in bound : Before(c, d) => positions[c] < positions[d]
      BY DEF PositionsFillTheFrame
    <2>1. /\ required \in [Channel -> BOOLEAN] /\ bound \in SUBSET Channel
          /\ positions = ChannelBitPositions(bound)
          /\ DOMAIN levels = 0..(FrameWidth(positions) - 1)
      BY DEF FrameInv
    <2>2. {positions[c] : c \in bound} = DOMAIN levels
      BY <2>1, PositionsNumber, WidthIsNumber
    <2>3. positions = [c \in bound |-> Cardinality(Below(bound, c))]
      BY <2>1 DEF ChannelBitPositions, Below
    <2>4. QED
      BY <2>1, <2>2, <2>3, BelowGrows
  <1>4. QED
    BY <1>1, <1>2, <1>3, PTL DEF Spec

-----------------------------------------------------------------------------
(* A set of naturals has a least element.                                  *)
LEMMA LeastElement ==
  ASSUME NEW T \in SUBSET Nat, T # {}
  PROVE  \E m \in T : \A k \in T : m <= k
  <1> DEFINE R == {p \in Nat \X Nat : p[1] < p[2]}
  <1>1. OpToRel(<, Nat) = R
    BY DEF OpToRel
  <1>2. IsWellFoundedOn(R, Nat)
    BY <1>1, NatLessThanWellFounded
  <1>3. \A x, y \in Nat : y < x => <<y, x>> \in R
    OBVIOUS
  <1> HIDE DEF R
  <1>4. \E x \in T : \A y \in T : ~(<<y, x>> \in R)
    BY <1>2, WFMin
  <1>5. PICK m \in T : \A y \in T : ~(<<y, m>> \in R)
    BY <1>4
  <1>6. \A k \in T : ~(k < m)
    BY <1>5, <1>3
  <1>7. QED
    BY <1>6

(* Induction over 0, 1, ..., for a set in the place of a predicate.        *)
LEMMA Induction ==
  ASSUME NEW T \in SUBSET Nat, 0 \in T, \A n \in T : n + 1 \in T
  PROVE  T = Nat
  <1>1. SUFFICES ASSUME Nat \ T # {} PROVE FALSE
    OBVIOUS
  <1>2. PICK m \in Nat \ T : \A k \in Nat \ T : m <= k
    BY <1>1, LeastElement
  <1>3. m # 0 /\ m - 1 \in Nat
    BY <1>2
  <1>4. m - 1 \in T
    BY <1>2, <1>3
  <1>5. QED
    BY <1>2, <1>3, <1>4

(* There is a function whose value at 0 is base, and at i what step makes  *)
(* of i and the value at i - 1.                                            *)
HasRecursion(X, base, step, m) ==
  \E f \in [0..m -> X] :
    f[0] = base /\ \A i \in 1..m : f[i] = step[<<i, f[i - 1]>>]

(* Primitive recursion up to m has a solution.                             *)
LEMMA Recursion ==
  ASSUME NEW X, NEW base \in X, NEW step \in [Nat \X X -> X], NEW m \in Nat
  PROVE  HasRecursion(X, base, step, m)
  <1> DEFINE Good(f, n) == f[0] = base /\ \A i \in 1..n : f[i] = step[<<i, f[i - 1]>>]
             T == {n \in Nat : \E f \in [0..n -> X] : Good(f, n)}
  <1>1. 0 \in T
    <2>1. [i \in 0..0 |-> base] \in [0..0 -> X] /\ Good([i \in 0..0 |-> base], 0)
      OBVIOUS
    <2>2. QED
      BY <2>1
  <1>2. ASSUME NEW n \in T PROVE n + 1 \in T
    <2>1. PICK f \in [0..n -> X] : Good(f, n)
      OBVIOUS
    <2> DEFINE x == step[<<n + 1, f[n]>>]
               g == [i \in 0..(n + 1) |-> IF i <= n THEN f[i] ELSE x]
    <2>2. n \in Nat /\ f[n] \in X
      OBVIOUS
    <2>3. x \in X
      BY <2>2
    <2>4. g \in [0..(n + 1) -> X]
      BY <2>2, <2>3
    <2>5. g[0] = base
      BY <2>1, <2>2
    <2>6. ASSUME NEW i \in 1..(n + 1) PROVE g[i] = step[<<i, g[i - 1]>>]
      <3>1. g[i - 1] = f[i - 1]
        BY <2>2
      <3>2. CASE i <= n
        BY <3>1, <3>2, <2>1, <2>2
      <3>3. CASE i = n + 1
        <4>1. g[i] = x /\ i - 1 = n
          BY <3>3, <2>2
        <4>2. QED
          BY <4>1, <3>1, <3>3
      <3>4. QED
        BY <3>2, <3>3, <2>2
    <2> HIDE DEF x, g
    <2>7. Good(g, n + 1)
      BY <2>5, <2>6
    <2>8. \E e \in [0..(n + 1) -> X] : Good(e, n + 1)
      BY <2>4, <2>7
    <2>9. QED
      BY <2>2, <2>8
  <1> HIDE DEF T
  <1>3. T \in SUBSET Nat
    BY DEF T
  <1>4. T = Nat
    BY <1>1, <1>2, <1>3, Induction
  <1>5. QED
    BY <1>4 DEF T, HasRecursion

-----------------------------------------------------------------------------
(* Kept is what its recursion says.                                        *)
Steps(f, list, T) ==
  /\ f[0] = <<>>
  /\ \A i \in 1..Len(list) :
       f[i] = IF list[i] \in T THEN Append(f[i - 1], list[i]) ELSE f[i - 1]

(* The recursion of Kept has a solution, so Kept is its last value.        *)
LEMMA KeptIsDefined ==
  ASSUME NEW S, NEW list \in Seq(S), NEW T
  PROVE  \E f : Steps(f, list, T) /\ Kept(list, T) = f[Len(list)]
  <1> DEFINE n == Len(list)
             X == Seq(S)
             step == [p \in Nat \X X |->
                        IF p[1] \in 1..n /\ list[p[1]] \in T
                        THEN Append(p[2], list[p[1]]) ELSE p[2]]
             Body(f) == [i \in 0..n |->
                           IF i = 0 THEN <<>>
                           ELSE IF list[i] \in T THEN Append(f[i - 1], list[i])
                           ELSE f[i - 1]]
             G == CHOOSE f : f = Body(f)
  <1>1. n \in Nat /\ \A i \in 1..n : list[i] \in S
    BY ElementOfSeq
  <1>2. <<>> \in X
    BY EmptySeq
  <1>3. \A q \in X, x \in S : Append(q, x) \in X
    OBVIOUS
  <1> HIDE DEF X
  <1>4. step \in [Nat \X X -> X]
    BY <1>1, <1>3
  <1>5. \A i \in 1..n, q \in X :
          step[<<i, q>>] = IF list[i] \in T THEN Append(q, list[i]) ELSE q
    BY <1>1
  <1> HIDE DEF step, n
  <1>6. HasRecursion(X, <<>>, step, n)
    BY ONLY <1>1, <1>2, <1>4, Recursion
  <1>7. PICK g \in [0..n -> X] :
          g[0] = <<>> /\ \A i \in 1..n : g[i] = step[<<i, g[i - 1]>>]
    BY <1>6 DEF HasRecursion
  <1>8. \A i \in 1..n : g[i - 1] \in X
    BY <1>1
  <1>9. g = Body(g)
    <2>1. \A i \in 1..n :
            g[i] = IF list[i] \in T THEN Append(g[i - 1], list[i]) ELSE g[i - 1]
      BY <1>5, <1>7, <1>8
    <2>2. \A i \in 0..n : i = 0 \/ i \in 1..n
      BY <1>1
    <2>3. \A i \in 0..n :
            g[i] = IF i = 0 THEN <<>>
                   ELSE IF list[i] \in T THEN Append(g[i - 1], list[i]) ELSE g[i - 1]
      BY <1>1, <1>7, <2>1, <2>2
    <2>4. QED
      BY <1>7, <2>3
  <1>10. G = Body(G)
    <2> HIDE DEF Body
    <2>1. QED
      BY <1>9
  <1>11. Kept(list, T) = G[n]
    BY Zenon DEF Kept, n
  <1> HIDE DEF G
  <1>12. G[0] = <<>>
    BY <1>1, <1>10
  <1>13. ASSUME NEW i \in 1..n
         PROVE  G[i] = IF list[i] \in T THEN Append(G[i - 1], list[i]) ELSE G[i - 1]
    <2>1. i \in 0..n /\ i # 0
      BY <1>1
    <2>2. QED
      BY <1>10, <2>1
  <1>14. Steps(G, list, T)
    BY <1>12, <1>13 DEF Steps, n
  <1>15. QED
    BY <1>11, <1>14 DEF n

(* What is kept of the first i elements: those of them that are in T, in   *)
(* whatever order R they came in.                                          *)
Sifted(q, list, i, T, S, R) ==
  /\ q \in Seq(S)
  /\ \A j \in 1..Len(q) : q[j] \in T /\ \E k \in 1..i : list[k] = q[j]
  /\ \A k \in 1..i : list[k] \in T => \E j \in 1..Len(q) : q[j] = list[k]
  /\ \A j, k \in 1..Len(q) : j < k => <<q[j], q[k]>> \in R

(* Each element stands before the later ones in the order R.               *)
Ordered(q, R) == \A j, k \in 1..Len(q) : j < k => <<q[j], q[k]>> \in R

(* One more element of the list, kept or not.                              *)
LEMMA SiftOne ==
  ASSUME NEW S, NEW list \in Seq(S), NEW T, NEW R, Ordered(list, R),
         NEW i \in Nat, i + 1 \in 1..Len(list), NEW q, Sifted(q, list, i, T, S, R)
  PROVE  Sifted(IF list[i + 1] \in T THEN Append(q, list[i + 1]) ELSE q,
                list, i + 1, T, S, R)
  <1> DEFINE x == list[i + 1]
             r == Append(q, x)
  <1>1. /\ q \in Seq(S) /\ Len(q) \in Nat /\ x \in S /\ Len(list) \in Nat
        /\ \A j \in 1..Len(q) : q[j] \in T /\ \E k \in 1..i : list[k] = q[j]
        /\ \A k \in 1..i : list[k] \in T => \E j \in 1..Len(q) : q[j] = list[k]
        /\ \A j, k \in 1..Len(q) : j < k => <<q[j], q[k]>> \in R
    BY DEF Sifted
  <1>2. \A k \in 1..(i + 1) : k \in 1..i \/ k = i + 1
    OBVIOUS
  <1>3. \A k \in 1..i : k \in 1..(i + 1)
    OBVIOUS
  <1>4. CASE x \notin T
    BY <1>1, <1>2, <1>3, <1>4 DEF Sifted
  <1>5. CASE x \in T
    <2>1. /\ r \in Seq(S) /\ Len(r) = Len(q) + 1
          /\ \A j \in 1..Len(q) : r[j] = q[j]
          /\ r[Len(q) + 1] = x
          /\ \A j \in 1..(Len(q) + 1) : j \in 1..Len(q) \/ j = Len(q) + 1
          /\ \A j \in 1..Len(q) : j \in 1..(Len(q) + 1)
          /\ Len(q) + 1 \in 1..(Len(q) + 1) /\ i + 1 \in 1..(i + 1)
      BY <1>1
    <2> HIDE DEF r
    <2>2. \A j \in 1..Len(r) : r[j] \in T /\ \E k \in 1..(i + 1) : list[k] = r[j]
      BY <1>1, <1>3, <1>5, <2>1
    <2>3. \A k \in 1..(i + 1) : list[k] \in T => \E j \in 1..Len(r) : r[j] = list[k]
      BY <1>1, <1>2, <2>1
    <2>4. ASSUME NEW j \in 1..Len(r), NEW k \in 1..Len(r), j < k
          PROVE  <<r[j], r[k]>> \in R
      <3>1. j \in 1..Len(q) /\ r[j] = q[j]
        BY <1>1, <2>1, <2>4
      <3>2. CASE k \in 1..Len(q)
        BY <1>1, <2>1, <2>4, <3>1, <3>2
      <3>3. CASE k = Len(q) + 1
        <4>1. PICK l \in 1..i : list[l] = q[j]
          BY <1>1, <3>1
        <4>2. l \in 1..Len(list) /\ l < i + 1
          BY <1>1
        <4>3. <<list[l], x>> \in R
          BY <4>2 DEF Ordered
        <4>4. QED
          BY <2>1, <3>1, <3>3, <4>1, <4>3
      <3>4. QED
        BY <2>1, <3>2, <3>3
    <2>5. Sifted(r, list, i + 1, T, S, R)
      BY <2>1, <2>2, <2>3, <2>4 DEF Sifted
    <2>6. QED
      BY <1>5, <2>5 DEF r
  <1>6. QED
    BY <1>4, <1>5

(* Kept keeps the elements that are in the set, all of them and in the     *)
(* order of the list.                                                      *)
LEMMA KeptFacts ==
  ASSUME NEW S, NEW list \in Seq(S), NEW T, NEW R, Ordered(list, R)
  PROVE  Sifted(Kept(list, T), list, Len(list), T, S, R)
  <1>1. PICK f : Steps(f, list, T) /\ Kept(list, T) = f[Len(list)]
    BY KeptIsDefined
  <1> DEFINE D == {i \in Nat : i <= Len(list) => Sifted(f[i], list, i, T, S, R)}
  <1>2. Len(list) \in Nat
    OBVIOUS
  <1>3. Sifted(f[0], list, 0, T, S, R)
    <2>1. f[0] = <<>> /\ Len(<<>>) = 0 /\ <<>> \in Seq(S)
      BY <1>1, EmptySeq DEF Steps
    <2>2. QED
      BY <2>1 DEF Sifted
  <1>4. ASSUME NEW i \in Nat, Sifted(f[i], list, i, T, S, R), i + 1 <= Len(list)
        PROVE  Sifted(f[i + 1], list, i + 1, T, S, R)
    <2>1. i + 1 \in 1..Len(list) /\ (i + 1) - 1 = i
      BY <1>2, <1>4
    <2>2. f[i + 1] = IF list[i + 1] \in T THEN Append(f[i], list[i + 1]) ELSE f[i]
      BY <1>1, <2>1 DEF Steps
    <2>3. QED
      BY <1>4, <2>1, <2>2, SiftOne
  <1>5. 0 \in D /\ D \in SUBSET Nat
    BY <1>3
  <1>6. ASSUME NEW i \in D PROVE i + 1 \in D
    <2>1. i \in Nat /\ (i <= Len(list) => Sifted(f[i], list, i, T, S, R))
      OBVIOUS
    <2>2. i + 1 \in Nat /\ (i + 1 <= Len(list) => i <= Len(list))
      BY <1>2, <2>1
    <2>3. QED
      BY <1>4, <2>1, <2>2
  <1> HIDE DEF D
  <1>7. Len(list) \in D
    BY <1>2, <1>5, <1>6, Induction
  <1>8. QED
    BY <1>1, <1>2, <1>7 DEF D

-----------------------------------------------------------------------------
(* The loader's order is that of the numbering: the two orders, as sets of *)
(* pairs.                                                                  *)
BeforeR == {p \in Channel \X Channel : Before(p[1], p[2])}
LessR == {p \in Channel \X Channel : p[1] < p[2]}

(* The manifest's list of the required channels, and of the others: all of *)
(* them, in declaration order.                                             *)
LEMMA EntriesInOrder ==
  ASSUME NEW r \in BOOLEAN
  PROVE  /\ SignalEntries(r) \in Seq(Channel)
         /\ \A j \in 1..Len(SignalEntries(r)) : required[SignalEntries(r)[j]] = r
         /\ \A c \in Channel : required[c] = r =>
              \E j \in 1..Len(SignalEntries(r)) : SignalEntries(r)[j] = c
         /\ Ordered(SignalEntries(r), LessR)
  <1> DEFINE all == [i \in Channel |-> i]
             T == {c \in Channel : required[c] = r}
             q == Kept(all, T)
  <1>1. /\ all \in Seq(Channel) /\ Len(all) = NumChannels
        /\ \A i \in 1..NumChannels : all[i] = i
    BY NumChannelsAssumption DEF Channel
  <1>2. Ordered(all, LessR)
    <2>1. Channel = 1..NumChannels
      BY DEF Channel
    <2>2. QED
      BY <1>1, <2>1 DEF Ordered, LessR
  <1> HIDE DEF all, T
  <1>3. Sifted(q, all, NumChannels, T, Channel, LessR)
    BY <1>1, <1>2, KeptFacts
  <1>4. SignalEntries(r) = q
    BY DEF SignalEntries, all, T
  <1> HIDE DEF q
  <1>5. \A j \in 1..Len(q) : required[q[j]] = r
    BY <1>3 DEF Sifted, T
  <1>6. \A c \in Channel : required[c] = r => \E j \in 1..Len(q) : q[j] = c
    <2>1. \A k \in 1..NumChannels : all[k] \in T => \E j \in 1..Len(q) : q[j] = all[k]
      BY <1>3 DEF Sifted
    <2>2. ASSUME NEW c \in Channel, required[c] = r
          PROVE  \E j \in 1..Len(q) : q[j] = c
      <3>1. c \in 1..NumChannels /\ all[c] = c
        BY <1>1 DEF Channel
      <3>2. c \in T
        BY <2>2 DEF T
      <3>3. QED
        BY <2>1, <3>1, <3>2
    <2>3. QED
      BY <2>2
  <1>7. QED
    BY <1>3, <1>4, <1>5, <1>6 DEF Sifted, Ordered

(* The loader packs each bound channel, in the order of the numbering.     *)
LEMMA LoaderOrderFacts ==
  ASSUME required \in [Channel -> BOOLEAN], NEW b \in SUBSET Channel
  PROVE  /\ LoaderOrder(b) \in Seq(Channel)
         /\ \A j \in 1..Len(LoaderOrder(b)) : LoaderOrder(b)[j] \in b
         /\ \A c \in b : \E j \in 1..Len(LoaderOrder(b)) : LoaderOrder(b)[j] = c
         /\ Ordered(LoaderOrder(b), BeforeR)
  <1> DEFINE t == SignalEntries(TRUE)
             f == SignalEntries(FALSE)
             e == t \o f
             q == Kept(e, b)
  <1>1. /\ t \in Seq(Channel) /\ f \in Seq(Channel)
        /\ \A j \in 1..Len(t) : required[t[j]] = TRUE
        /\ \A j \in 1..Len(f) : required[f[j]] = FALSE
        /\ \A c \in Channel : required[c] = TRUE => \E j \in 1..Len(t) : t[j] = c
        /\ \A c \in Channel : required[c] = FALSE => \E j \in 1..Len(f) : f[j] = c
        /\ Ordered(t, LessR) /\ Ordered(f, LessR)
    <2>1. TRUE \in BOOLEAN /\ FALSE \in BOOLEAN
      OBVIOUS
    <2>2. QED
      BY <2>1, EntriesInOrder
  <1> HIDE DEF t, f
  <1>2. /\ e \in Seq(Channel) /\ Len(e) = Len(t) + Len(f)
        /\ Len(t) \in Nat /\ Len(f) \in Nat
        /\ \A i \in 1..(Len(t) + Len(f)) :
             e[i] = IF i <= Len(t) THEN t[i] ELSE f[i - Len(t)]
    BY <1>1, ConcatProperties, LenProperties
  <1> HIDE DEF e
  <1>3. \A c \in Channel : \E j \in 1..Len(e) : e[j] = c
    <2> SUFFICES ASSUME NEW c \in Channel PROVE \E j \in 1..Len(e) : e[j] = c
      OBVIOUS
    <2>1. CASE required[c] = TRUE
      <3>1. PICK j \in 1..Len(t) : t[j] = c
        BY <1>1, <2>1
      <3>2. j \in 1..Len(e) /\ e[j] = c
        BY <1>2, <3>1
      <3>3. QED
        BY <3>2
    <2>2. CASE required[c] = FALSE
      <3>1. PICK j \in 1..Len(f) : f[j] = c
        BY <1>1, <2>2
      <3> DEFINE k == Len(t) + j
      <3>2. k \in 1..(Len(t) + Len(f)) /\ ~(k <= Len(t)) /\ k - Len(t) = j
        BY <1>2
      <3> HIDE DEF k
      <3>3. k \in 1..Len(e) /\ e[k] = c
        BY <1>2, <3>1, <3>2
      <3>4. QED
        BY <3>3
    <2>3. QED
      BY <2>1, <2>2
  <1>4. Ordered(e, BeforeR)
    <2> SUFFICES ASSUME NEW j \in 1..Len(e), NEW k \in 1..Len(e), j < k
                 PROVE  <<e[j], e[k]>> \in BeforeR
      BY DEF Ordered
    <2>1. /\ j \in 1..(Len(t) + Len(f)) /\ k \in 1..(Len(t) + Len(f))
          /\ e[j] \in Channel /\ e[k] \in Channel
      BY <1>2
    <2>2. Before(e[j], e[k])
      <3>1. CASE k <= Len(t)
        <4>1. j \in 1..Len(t) /\ k \in 1..Len(t) /\ e[j] = t[j] /\ e[k] = t[k]
          BY <1>2, <2>1, <3>1
        <4>2. <<t[j], t[k]>> \in LessR
          BY <1>1, <4>1 DEF Ordered
        <4>3. QED
          BY <1>1, <4>1, <4>2 DEF LessR, Before
      <3>2. CASE j <= Len(t) /\ ~(k <= Len(t))
        <4>1. /\ j \in 1..Len(t) /\ k - Len(t) \in 1..Len(f)
              /\ e[j] = t[j] /\ e[k] = f[k - Len(t)]
          BY <1>2, <2>1, <3>2
        <4>2. required[e[j]] = TRUE /\ required[e[k]] = FALSE
          BY <1>1, <4>1
        <4>3. QED
          BY <4>2 DEF Before
      <3>3. CASE ~(j <= Len(t))
        <4>1. /\ j - Len(t) \in 1..Len(f) /\ k - Len(t) \in 1..Len(f)
              /\ e[j] = f[j - Len(t)] /\ e[k] = f[k - Len(t)]
              /\ j - Len(t) < k - Len(t)
          BY <1>2, <2>1, <3>3
        <4>2. <<f[j - Len(t)], f[k - Len(t)]>> \in LessR
          BY <1>1, <4>1 DEF Ordered
        <4>3. QED
          BY <1>1, <4>1, <4>2 DEF LessR, Before
      <3>4. QED
        BY <3>1, <3>2, <3>3
    <2>3. QED
      BY <2>1, <2>2 DEF BeforeR
  <1>5. Sifted(q, e, Len(e), b, Channel, BeforeR)
    BY <1>2, <1>4, KeptFacts
  <1>6. LoaderOrder(b) = q
    BY DEF LoaderOrder, e, t, f
  <1> HIDE DEF q
  <1>7. \A c \in b : \E j \in 1..Len(q) : q[j] = c
    <2> SUFFICES ASSUME NEW c \in b PROVE \E j \in 1..Len(q) : q[j] = c
      OBVIOUS
    <2>1. PICK k \in 1..Len(e) : e[k] = c
      BY <1>3
    <2>2. QED
      BY <1>5, <2>1 DEF Sifted
  <1>8. QED
    BY <1>5, <1>6, <1>7 DEF Sifted, Ordered

(* So the channel the loader packs as the i-th has number i - 1.           *)
LEMMA OrderIsNumbering ==
  ASSUME required \in [Channel -> BOOLEAN], NEW b \in SUBSET Channel
  PROVE  /\ Len(LoaderOrder(b)) = Cardinality(b)
         /\ \A i \in 1..Len(LoaderOrder(b)) :
              /\ LoaderOrder(b)[i] \in b
              /\ ChannelBitPositions(b)[LoaderOrder(b)[i]] = i - 1
  <1> DEFINE q == LoaderOrder(b)
             n == Len(q)
  <1>1. /\ q \in Seq(Channel) /\ n \in Nat
        /\ \A j \in 1..n : q[j] \in b
        /\ \A c \in b : \E j \in 1..n : q[j] = c
        /\ Ordered(q, BeforeR)
    BY LoaderOrderFacts
  <1> HIDE DEF q
  <1>2. \A j, k \in 1..n : j < k => Before(q[j], q[k])
    <2> SUFFICES ASSUME NEW j \in 1..n, NEW k \in 1..n, j < k PROVE Before(q[j], q[k])
      OBVIOUS
    <2>1. <<q[j], q[k]>> \in BeforeR
      BY <1>1 DEF Ordered
    <2>2. QED
      BY <2>1 DEF BeforeR
  <1>3. \A c, d \in b : ~(Before(c, d) /\ Before(d, c))
    BY NumChannelsAssumption DEF Before, Channel
  <1>4. \A j, k \in 1..n : q[j] = q[k] => j = k
    <2> SUFFICES ASSUME NEW j \in 1..n, NEW k \in 1..n, q[j] = q[k], j # k PROVE FALSE
      OBVIOUS
    <2>1. j < k \/ k < j
      BY <1>1
    <2>2. Before(q[j], q[j])
      BY <1>2, <2>1
    <2>3. QED
      BY <1>1, <1>3, <2>2
  <1>5. ASSUME NEW m \in 0..n, NEW U, U = {q[j] : j \in 1..m}
        PROVE  Cardinality(U) = m
    <2> DEFINE g == [j \in 1..m |-> q[j]]
    <2>1. \A j \in 1..m : j \in 1..n
      BY <1>1
    <2>2. g \in Bijection(1..m, U)
      <3>1. g \in [1..m -> U] /\ \A u \in U : \E j \in 1..m : g[j] = u
        BY <1>5
      <3>2. \A j, k \in 1..m : g[j] = g[k] => j = k
        BY <1>4, <2>1
      <3>3. QED
        BY <3>1, <3>2 DEF Bijection, Injection, Surjection, IsInjective
    <2>3. ExistsBijection(1..m, U)
      BY <2>2 DEF ExistsBijection
    <2>4. m \in Nat
      BY <1>1
    <2>5. QED
      BY <2>3, <2>4, FS_CountingElements
  <1>6. n = Cardinality(b)
    <2>1. b = {q[j] : j \in 1..n} /\ n \in 0..n
      BY <1>1
    <2>2. QED
      BY <1>5, <2>1
  <1>7. ASSUME NEW i \in 1..n
        PROVE  ChannelBitPositions(b)[q[i]] = i - 1
    <2>1. Below(b, q[i]) = {q[j] : j \in 1..(i - 1)}
      <3>1. ASSUME NEW d \in Below(b, q[i]) PROVE d \in {q[j] : j \in 1..(i - 1)}
        <4>1. d \in b /\ Before(d, q[i])
          BY <3>1 DEF Below
        <4>2. PICK j \in 1..n : q[j] = d
          BY <1>1, <4>1
        <4>3. ~(i <= j)
          BY <1>1, <1>2, <1>3, <4>1, <4>2
        <4>4. j \in 1..(i - 1)
          BY <1>1, <4>3
        <4>5. QED
          BY <4>2, <4>4
      <3>2. ASSUME NEW j \in 1..(i - 1) PROVE q[j] \in Below(b, q[i])
        <4>1. j \in 1..n /\ j < i
          BY <1>1
        <4>2. QED
          BY <1>1, <1>2, <4>1 DEF Below
      <3>3. QED
        BY <3>1, <3>2
    <2>2. i - 1 \in 0..n
      BY <1>1
    <2>3. Cardinality(Below(b, q[i])) = i - 1
      BY <1>5, <2>1, <2>2
    <2>4. QED
      BY <1>1, <2>3 DEF ChannelBitPositions, Below
  <1>8. QED
    BY <1>1, <1>6, <1>7 DEF q

-----------------------------------------------------------------------------
(* Cutting bits into bytes and finding them again.                         *)
LEMMA DivMod ==
  ASSUME NEW i \in Nat
  PROVE  /\ i \div ByteBits \in Nat /\ i % ByteBits \in 0..(ByteBits - 1)
         /\ i = (i \div ByteBits) * ByteBits + (i % ByteBits)
  BY ByteAssumption

(* What quotient and remainder are, when they are put together again.      *)
LEMMA DivModIs ==
  ASSUME NEW m \in Nat \ {0}, NEW q \in Nat, NEW r \in 0..(m - 1)
  PROVE  (q * m + r) \div m = q /\ (q * m + r) % m = r
  <1> DEFINE n == q * m + r
             v == n \div m
             s == n % m
  <1>1. q * m \in Nat
    OBVIOUS
  <1>2. n \in Nat
    BY <1>1
  <1>3. v \in Nat /\ s \in 0..(m - 1) /\ n = v * m + s
    <2> HIDE DEF n
    <2>1. QED
      BY <1>2
  <1> HIDE DEF v, s
  <1>4. q * m + r = v * m + s
    BY <1>3
  <1>5. ASSUME NEW x \in Nat, NEW y \in Nat, x < y
        PROVE  x * m + m <= y * m
    <2>1. y - x \in Nat \ {0}
      BY <1>5
    <2>2. \A k \in Nat \ {0} : m <= k * m
      OBVIOUS
    <2>3. m <= (y - x) * m
      BY <2>1, <2>2
    <2>4. (y - x) * m = y * m - x * m
      OBVIOUS
    <2>5. x * m \in Nat /\ y * m \in Nat
      OBVIOUS
    <2>6. QED
      BY <2>3, <2>4, <2>5
  <1>6. v * m \in Nat
    BY <1>3
  <1>7. ~(q < v)
    BY <1>1, <1>3, <1>4, <1>5, <1>6
  <1>8. ~(v < q)
    BY <1>1, <1>3, <1>4, <1>5, <1>6
  <1>9. q = v
    BY <1>3, <1>7, <1>8
  <1>10. r = s
    BY <1>1, <1>3, <1>4, <1>9
  <1>11. QED
    BY <1>9, <1>10 DEF s, v

(* The byte of the i-th of n bits is one of the bytes of n bits.           *)
LEMMA ByteOfBit ==
  ASSUME NEW n \in Nat, NEW i \in 0..(n - 1)
  PROVE  i \div ByteBits \in 0..(CeilDiv(n, ByteBits) - 1)
  <1> DEFINE m == CeilDiv(n, ByteBits)
             k == i \div ByteBits
  <1>1. ByteBits \in Nat \ {0} /\ i \in Nat /\ n + ByteBits - 1 \in Nat /\ i < n
    BY ByteAssumption
  <1>2. k \in Nat /\ k * ByteBits <= i
    <2>1. k \in Nat /\ i % ByteBits \in Nat /\ i = k * ByteBits + (i % ByteBits)
      BY <1>1, DivMod
    <2> HIDE DEF k
    <2>2. k * ByteBits \in Nat
      BY <1>1, <2>1
    <2>3. QED
      BY <2>1, <2>2
  <1>3. m \in Nat /\ n + ByteBits - 1 < m * ByteBits + ByteBits
    <2>1. \A x \in Nat, y \in Nat \ {0} : x \div y \in Nat /\ x < (x \div y) * y + y
      OBVIOUS
    <2>2. QED
      BY <1>1, <2>1 DEF CeilDiv
  <1> HIDE DEF m, k
  <1>4. m * ByteBits \in Nat /\ k * ByteBits \in Nat
    BY <1>1, <1>2, <1>3
  <1>5. k * ByteBits < m * ByteBits
    BY <1>1, <1>2, <1>3, <1>4
  <1>6. \A x, y \in Nat : x <= y => x * ByteBits <= y * ByteBits
    BY <1>1
  <1>7. k < m
    BY <1>2, <1>3, <1>4, <1>5, <1>6
  <1>8. QED
    BY <1>2, <1>3, <1>7 DEF m, k

(* Bits cut into bytes are found where they were put; what pads the last   *)
(* byte is low.                                                            *)
LEMMA BytesFacts ==
  ASSUME NEW n \in Nat, NEW bits, DOMAIN bits = 0..(n - 1)
  PROVE  /\ DOMAIN Bytes(bits) = 0..(CeilDiv(n, ByteBits) - 1)
         /\ \A k \in DOMAIN Bytes(bits), j \in 0..(ByteBits - 1) :
              BitOf(Bytes(bits), k * ByteBits + j) =
                IF k * ByteBits + j < n THEN bits[k * ByteBits + j] ELSE 0
         /\ \A i \in 0..(n - 1) : /\ i \div ByteBits \in DOMAIN Bytes(bits)
                                  /\ BitOf(Bytes(bits), i) = bits[i]
  <1> DEFINE m == CeilDiv(n, ByteBits)
             B == Bytes(bits)
  <1>1. Cardinality(DOMAIN bits) = n
    <2>1. Cardinality(0..(n - 1)) = IF 0 > n - 1 THEN 0 ELSE (n - 1) - 0 + 1
      BY FS_Interval
    <2>2. QED
      BY <2>1
  <1>2. B = [k \in 0..(m - 1) |->
               [j \in 0..(ByteBits - 1) |->
                  IF k * ByteBits + j < n THEN bits[k * ByteBits + j] ELSE 0]]
    BY <1>1 DEF Bytes
  <1> HIDE DEF m, B
  <1>3. DOMAIN B = 0..(m - 1)
    BY <1>2
  <1>4. ASSUME NEW k \in DOMAIN B, NEW j \in 0..(ByteBits - 1)
        PROVE  /\ BitOf(B, k * ByteBits + j) =
                    IF k * ByteBits + j < n THEN bits[k * ByteBits + j] ELSE 0
    <2>1. k \in Nat
      BY <1>3
    <2>2. (k * ByteBits + j) \div ByteBits = k /\ (k * ByteBits + j) % ByteBits = j
      BY <2>1, ByteAssumption, DivModIs
    <2>3. BitOf(B, k * ByteBits + j) = B[k][j]
      BY <2>2 DEF BitOf
    <2>4. B[k][j] = IF k * ByteBits + j < n THEN bits[k * ByteBits + j] ELSE 0
      BY <1>2, <1>3
    <2>5. QED
      BY <2>3, <2>4
  <1>5. ASSUME NEW i \in 0..(n - 1)
        PROVE  i \div ByteBits \in DOMAIN B /\ BitOf(B, i) = bits[i]
    <2> DEFINE k == i \div ByteBits
               j == i % ByteBits
    <2>0. i \in Nat /\ i < n
      OBVIOUS
    <2>1. /\ k \in Nat /\ j \in 0..(ByteBits - 1) /\ i = k * ByteBits + j /\ i < n
      BY <2>0, DivMod
    <2>2. k \in DOMAIN B
      BY <1>3, ByteOfBit DEF m
    <2> HIDE DEF k, j
    <2>3. BitOf(B, k * ByteBits + j) =
            IF k * ByteBits + j < n THEN bits[k * ByteBits + j] ELSE 0
      BY <1>4, <2>1, <2>2
    <2>4. BitOf(B, i) = bits[i]
      BY <2>1, <2>3
    <2>5. QED
      BY <2>2, <2>4 DEF k
  <1>6. QED
    BY <1>3, <1>4, <1>5 DEF B, m

(* What the bridge is told of a sample of the loader: of each bound        *)
(* channel, under its number, the value of its signal.                     *)
LEMMA SampleArrives ==
  ASSUME required \in [Channel -> BOOLEAN], NEW b \in SUBSET Channel,
         NEW value \in [b -> SignalValue]
  PROVE  /\ DOMAIN SampleToTransition(LoaderSample(b, value)) = 0..(Cardinality(b) - 1)
         /\ \A c \in b :
              SampleToTransition(LoaderSample(b, value))[ChannelBitPositions(b)[c]] =
                IF value[c].unknown = 1 THEN "X"
                ELSE IF value[c].level = 1 THEN "1" ELSE "0"
  <1> DEFINE q == LoaderOrder(b)
             w == Cardinality(b)
             pos == ChannelBitPositions(b)
             bits == [i \in 0..(2 * Len(q) - 1) |->
                        IF i % 2 = 0 THEN value[q[i \div 2 + 1]].level
                                     ELSE value[q[i \div 2 + 1]].unknown]
             s == LoaderSample(b, value)
             t == SampleToTransition(s)
  <1>1. Len(q) = w /\ w \in Nat /\ \A i \in 1..w : q[i] \in b /\ pos[q[i]] = i - 1
    BY OrderIsNumbering, BoundFinite
  <1>2. \A c \in b : \E i \in 1..w : q[i] = c
    BY <1>1, LoaderOrderFacts
  <1>3. s = [width |-> w, bytes |-> Bytes(bits)]
    BY <1>1 DEF LoaderSample
  <1> HIDE DEF s, w
  <1>4. DOMAIN bits = 0..(2 * w - 1) /\ 2 * w \in Nat
    BY <1>1
  <1>5. \A k \in 0..(w - 1) : /\ 2 * k \in 0..(2 * w - 1) /\ 2 * k + 1 \in 0..(2 * w - 1)
                              /\ (2 * k) % 2 = 0 /\ (2 * k + 1) % 2 = 1
                              /\ (2 * k) \div 2 = k /\ (2 * k + 1) \div 2 = k
    BY <1>1
  <1>6. \A k \in 0..(w - 1) : /\ bits[2 * k] = value[q[k + 1]].level
                              /\ bits[2 * k + 1] = value[q[k + 1]].unknown
    <2> HIDE DEF q
    <2>1. QED
      BY <1>1, <1>5
  <1> HIDE DEF q, bits
  <1>7. \A i \in 0..(2 * w - 1) : /\ i \div ByteBits \in DOMAIN Bytes(bits)
                                  /\ BitOf(Bytes(bits), i) = bits[i]
    BY <1>4, BytesFacts
  <1>8. t = [ch \in {n \in 0..(w - 1) : (2 * n) \div ByteBits \in DOMAIN s.bytes} |->
               IF BitOf(s.bytes, 2 * ch + 1) = 1 THEN "X"
               ELSE IF BitOf(s.bytes, 2 * ch) = 1 THEN "1" ELSE "0"]
    BY <1>3 DEF SampleToTransition
  <1>9. {n \in 0..(w - 1) : (2 * n) \div ByteBits \in DOMAIN s.bytes} = 0..(w - 1)
    BY <1>3, <1>5, <1>7
  <1> HIDE DEF t
  <1>10. DOMAIN t = 0..(w - 1)
    BY <1>8, <1>9
  <1>11. ASSUME NEW c \in b
         PROVE  t[pos[c]] = IF value[c].unknown = 1 THEN "X"
                            ELSE IF value[c].level = 1 THEN "1" ELSE "0"
    <2>1. PICK i \in 1..w : q[i] = c
      BY <1>2
    <2> DEFINE k == i - 1
    <2>2. k \in 0..(w - 1) /\ k + 1 = i /\ pos[c] = k
      BY <1>1, <2>1
    <2> HIDE DEF k, pos
    <2>3. /\ BitOf(s.bytes, 2 * k) = value[c].level
          /\ BitOf(s.bytes, 2 * k + 1) = value[c].unknown
      BY <1>3, <1>5, <1>6, <1>7, <2>1, <2>2
    <2>4. t[k] = IF BitOf(s.bytes, 2 * k + 1) = 1 THEN "X"
                 ELSE IF BitOf(s.bytes, 2 * k) = 1 THEN "1" ELSE "0"
      BY <1>8, <1>9, <2>2
    <2>5. QED
      BY <2>2, <2>3, <2>4
  <1>12. QED
    BY <1>10, <1>11 DEF t, s, w

-----------------------------------------------------------------------------
(* The frame holds what is known of the bound signals, and nothing else.   *)
SignalInv ==
  status = "open" =>
    /\ levels \in [0..(FrameWidth(positions) - 1) -> Bit]
    /\ known \in [bound -> Bit]
    /\ \A i \in DOMAIN levels :
         levels[i] = 1 <=> \E c \in bound : positions[c] = i /\ known[c] = 1

(* The frame has room for every bound channel, and for one at least.       *)
LEMMA FrameHasRoom ==
  ASSUME FrameInv, status = "open"
  PROVE  /\ FrameWidth(positions) \in Nat \ {0}
         /\ positions \in [bound -> 0..(FrameWidth(positions) - 1)]
         /\ bound # {} => FrameWidth(positions) = Cardinality(bound)
         /\ \A c, d \in bound : positions[c] = positions[d] => c = d
         /\ \A i \in 0..(Cardinality(bound) - 1) : \E c \in bound : positions[c] = i
  <1>1. /\ required \in [Channel -> BOOLEAN] /\ bound \in SUBSET Channel
        /\ positions = ChannelBitPositions(bound)
    BY DEF FrameInv
  <1>2. positions = [c \in bound |-> Cardinality(Below(bound, c))]
    BY <1>1 DEF ChannelBitPositions, Below
  <1>3. {positions[c] : c \in bound} = 0..(Cardinality(bound) - 1)
    BY <1>1, PositionsNumber
  <1>4. /\ IsFiniteSet(bound) /\ Cardinality(bound) \in Nat
        /\ bound # {} => Cardinality(bound) # 0
    BY <1>1, BoundFinite, FS_EmptySet
  <1>5. bound # {} => FrameWidth(positions) = Cardinality(bound)
    BY <1>1, WidthIsNumber
  <1>6. bound = {} => FrameWidth(positions) = 1
    <2>1. ASSUME bound = {} PROVE FrameWidth(positions) = 1
      <3>1. {positions[c] + 1 : c \in DOMAIN positions} \cup {1} = {1}
        BY <1>2, <2>1
      <3>2. Max({1}) = 1
        BY DEF Max
      <3>3. QED
        BY <3>1, <3>2 DEF FrameWidth
    <2>2. QED
      BY <2>1
  <1>7. FrameWidth(positions) \in Nat \ {0}
    BY <1>4, <1>5, <1>6
  <1>8. positions \in [bound -> 0..(FrameWidth(positions) - 1)]
    BY <1>2, <1>3, <1>5
  <1>9. ASSUME NEW c \in bound, NEW d \in bound, positions[c] = positions[d] PROVE c = d
    <2>1. Before(c, d) => positions[c] < positions[d]
      BY <1>1, <1>2, BelowGrows
    <2>2. Before(d, c) => positions[d] < positions[c]
      BY <1>1, <1>2, BelowGrows
    <2>3. positions[c] \in Nat /\ positions[d] \in Nat
      BY <1>1, <1>2, BelowGrows
    <2>4. c # d => Before(c, d) \/ Before(d, c)
      BY <1>1, NumChannelsAssumption DEF Before, Channel
    <2>5. QED
      BY <1>9, <2>1, <2>2, <2>3, <2>4
  <1>10. \A i \in 0..(Cardinality(bound) - 1) : \E c \in bound : positions[c] = i
    BY <1>3
  <1>11. QED
    BY <1>5, <1>7, <1>8, <1>9, <1>10

(* The create leaves every level low, and nothing known of any signal.     *)
LEMMA CreateSignals ==
  ASSUME FrameInv', NEW b \in SUBSET Channel, CreateInstance(b)
  PROVE  SignalInv'
  <1> SUFFICES ASSUME status' = "open"
               PROVE  /\ levels' \in [0..(FrameWidth(positions') - 1) -> Bit]
                      /\ known' \in [bound' -> Bit]
                      /\ \A i \in DOMAIN levels' :
                           levels'[i] = 1 <=>
                             \E c \in bound' : positions'[c] = i /\ known'[c] = 1
    BY DEF SignalInv, FrameWidth
  <1>1. /\ levels' = [n \in 0..(FrameWidth(positions') - 1) |-> 0]
        /\ known' = [c \in b |-> 0] /\ bound' = b
    BY DEF CreateInstance
  <1>2. QED
    BY <1>1 DEF Bit

(* A sample changes the level of each bound channel whose signal it knows  *)
(* to that signal's, and no other level.                                   *)
LEMMA FeedSignals ==
  ASSUME FrameInv, SignalInv, NEW value \in [bound -> SignalValue], Feed(value)
  PROVE  SignalInv'
  <1> DEFINE t == SampleToTransition(LoaderSample(bound, value))
             w == FrameWidth(positions)
  <1>1. /\ status = "open" /\ UNCHANGED <<required, status, bound, positions>>
        /\ levels' = ApplyChanges(levels, t)
        /\ known' = [c \in bound |->
                       IF value[c].unknown = 1 THEN known[c] ELSE value[c].level]
    BY DEF Feed
  <1>2. /\ levels \in [0..(w - 1) -> Bit] /\ known \in [bound -> Bit]
        /\ \A i \in 0..(w - 1) :
             levels[i] = 1 <=> \E c \in bound : positions[c] = i /\ known[c] = 1
    BY <1>1 DEF SignalInv
  <1>3. /\ w \in Nat \ {0} /\ positions \in [bound -> 0..(w - 1)]
        /\ bound # {} => w = Cardinality(bound)
        /\ \A c, d \in bound : positions[c] = positions[d] => c = d
        /\ \A i \in 0..(Cardinality(bound) - 1) : \E c \in bound : positions[c] = i
    BY <1>1, FrameHasRoom
  <1>4. /\ DOMAIN t = 0..(Cardinality(bound) - 1)
        /\ \A c \in bound : t[positions[c]] =
             IF value[c].unknown = 1 THEN "X" ELSE IF value[c].level = 1 THEN "1" ELSE "0"
    BY <1>1, SampleArrives DEF FrameInv
  <1>5. \A c \in bound : value[c].level \in Bit
    BY DEF SignalValue
  <1>6. Cardinality(bound) = 0 <=> bound = {}
    <2>1. bound \in SUBSET Channel
      BY DEF FrameInv
    <2>2. QED
      BY <2>1, BoundFinite, FS_EmptySet
  <1> HIDE DEF t, w
  <1>7. levels' = [n \in 0..(w - 1) |-> IF n \in DOMAIN t /\ t[n] # "X"
                                        THEN IF t[n] = "1" THEN 1 ELSE 0
                                        ELSE levels[n]]
    BY <1>1, <1>2 DEF ApplyChanges
  <1>8. levels' \in [0..(w - 1) -> Bit]
    BY <1>2, <1>7 DEF Bit
  <1>9. known' \in [bound -> Bit]
    BY <1>1, <1>2, <1>5
  <1>10. ASSUME NEW c \in bound
         PROVE  levels'[positions[c]] = 1 <=> known'[c] = 1
    <2> DEFINE i == positions[c]
    <2>1. i \in 0..(w - 1) /\ i \in DOMAIN t
      BY <1>3, <1>4
    <2>2. levels[i] = 1 <=> known[c] = 1
      BY <1>2, <1>3, <2>1
    <2> HIDE DEF i
    <2>3. CASE value[c].unknown = 1
      <3>1. t[i] = "X" /\ known'[c] = known[c]
        BY <1>1, <1>4, <2>3 DEF i
      <3>2. levels'[i] = levels[i]
        BY <1>7, <2>1, <3>1
      <3>3. QED
        BY <2>2, <3>1, <3>2 DEF i
    <2>4. CASE value[c].unknown # 1
      <3>1. t[i] = (IF value[c].level = 1 THEN "1" ELSE "0") /\ known'[c] = value[c].level
        BY <1>1, <1>4, <2>4 DEF i
      <3>2. levels'[i] = IF value[c].level = 1 THEN 1 ELSE 0
        BY <1>7, <2>1, <3>1
      <3>3. QED
        BY <3>1, <3>2 DEF i
    <2>5. QED
      BY <2>3, <2>4
  <1>11. ASSUME NEW i \in 0..(w - 1)
         PROVE  levels'[i] = 1 <=> \E c \in bound : positions[c] = i /\ known'[c] = 1
    <2>1. CASE bound = {}
      <3>1. DOMAIN t = {}
        BY <1>4, <1>6, <2>1
      <3>2. levels'[i] = levels[i]
        BY <1>7, <3>1
      <3>3. QED
        BY <1>2, <2>1, <3>2
    <2>2. CASE bound # {}
      <3>1. PICK c \in bound : positions[c] = i
        BY <1>3, <2>2
      <3>2. levels'[i] = 1 <=> known'[c] = 1
        BY <1>10, <3>1
      <3>3. \A d \in bound : positions[d] = i => d = c
        BY <1>3, <3>1
      <3>4. QED
        BY <3>1, <3>2, <3>3
    <2>3. QED
      BY <2>1, <2>2
  <1>12. FrameWidth(positions)' = w
    BY <1>1 DEF FrameWidth, w
  <1>13. DOMAIN levels' = 0..(w - 1)
    BY <1>7
  <1>14. QED
    BY <1>1, <1>8, <1>9, <1>11, <1>12, <1>13 DEF SignalInv

(* The library reads the bound signals, each at its index, and low bits    *)
(* everywhere else (ChannelPacking!DecoderSeesItsSignals): for any number  *)
(* of channels, required or not, any choice of bound ones and any size of  *)
(* byte (manifest.rs build_manifest_json, registry.rs                      *)
(* sample_to_transition, srd.rs pack_row).                                 *)
THEOREM SignalsArrive == Spec => []DecoderSeesItsSignals
  <1>1. Init => FrameInv /\ SignalInv
    BY DEF Init, FrameInv, SignalInv
  <1>2. (FrameInv /\ SignalInv) /\ [Next]_vars => (FrameInv /\ SignalInv)'
    <2> SUFFICES ASSUME FrameInv, SignalInv, [Next]_vars PROVE FrameInv' /\ SignalInv'
      OBVIOUS
    <2>1. FrameInv'
      BY FrameStays
    <2>2. ASSUME NEW b \in SUBSET Channel, CreateInstance(b)
          PROVE  SignalInv'
      BY <2>1, <2>2, CreateSignals
    <2>3. ASSUME NEW value \in [bound -> SignalValue], Feed(value)
          PROVE  SignalInv'
      BY <2>3, FeedSignals
    <2>4. ASSUME UNCHANGED vars
          PROVE  SignalInv'
      BY <2>4 DEF vars, SignalInv, FrameWidth
    <2>5. QED
      BY <2>1, <2>2, <2>3, <2>4 DEF Next
  <1>3. ASSUME FrameInv, SignalInv, status = "open"
        PROVE  LET row == PackRow(levels)
                   index == {k * ByteBits + j : k \in DOMAIN row, j \in 0..(ByteBits - 1)}
               IN \A i \in index :
                    /\ \A c \in bound : positions[c] \in index
                    /\ BitOf(row, i) = 1 <=>
                         \E c \in bound : positions[c] = i /\ known[c] = 1
    <2> DEFINE row == PackRow(levels)
               w == FrameWidth(positions)
               index == {k * ByteBits + j : k \in DOMAIN row, j \in 0..(ByteBits - 1)}
    <2>1. /\ w \in Nat \ {0} /\ positions \in [bound -> 0..(w - 1)]
          /\ DOMAIN levels = 0..(w - 1)
          /\ \A i \in 0..(w - 1) :
               levels[i] = 1 <=> \E c \in bound : positions[c] = i /\ known[c] = 1
      BY <1>3, FrameHasRoom DEF SignalInv
    <2> HIDE DEF w
    <2>2. /\ DOMAIN row = 0..(CeilDiv(w, ByteBits) - 1)
          /\ \A k \in DOMAIN row, j \in 0..(ByteBits - 1) :
               BitOf(row, k * ByteBits + j) =
                 IF k * ByteBits + j < w THEN levels[k * ByteBits + j] ELSE 0
          /\ \A i \in 0..(w - 1) : i \div ByteBits \in DOMAIN row
      BY <2>1, BytesFacts DEF PackRow
    <2> HIDE DEF row
    <2>3. \A i \in 0..(w - 1) : i \in index
      <3>1. \A i \in 0..(w - 1) : /\ i % ByteBits \in 0..(ByteBits - 1)
                                  /\ i = (i \div ByteBits) * ByteBits + (i % ByteBits)
        <4>1. \A i \in 0..(w - 1) : i \in Nat
          BY <2>1
        <4>2. QED
          BY <4>1, DivMod
      <3>2. QED
        BY <2>2, <3>1
    <2>4. \A c \in bound : positions[c] \in index
      BY <2>1, <2>3
    <2>5. ASSUME NEW i \in index
          PROVE  BitOf(row, i) = 1 <=> \E c \in bound : positions[c] = i /\ known[c] = 1
      <3>1. PICK k \in DOMAIN row, j \in 0..(ByteBits - 1) : i = k * ByteBits + j
        BY <2>5
      <3>2. i \in Nat
        <4>1. k \in Nat /\ j \in Nat /\ ByteBits \in Nat
          BY <2>2, ByteAssumption
        <4>2. \A x, y \in Nat : x * y \in Nat
          OBVIOUS
        <4>3. QED
          BY <3>1, <4>1, <4>2
      <3>3. BitOf(row, i) = IF i < w THEN levels[i] ELSE 0
        BY <2>2, <3>1
      <3>4. CASE i < w
        <4>1. i \in 0..(w - 1)
          BY <2>1, <3>2, <3>4
        <4>2. QED
          BY <2>1, <3>3, <3>4, <4>1
      <3>5. CASE ~(i < w)
        <4>1. \A c \in bound : positions[c] # i
          BY <2>1, <3>2, <3>5
        <4>2. QED
          BY <3>3, <3>5, <4>1
      <3>6. QED
        BY <3>4, <3>5
    <2>6. QED
      BY <2>4, <2>5 DEF row
  <1>4. FrameInv /\ SignalInv => DecoderSeesItsSignals
    BY <1>3 DEF DecoderSeesItsSignals
  <1>5. QED
    BY <1>1, <1>2, <1>4, PTL DEF Spec
============================================================================

-------------------------- MODULE FrameCodecProofs --------------------------
(***************************************************************************)
(* The codec keeps to its types and implements the pipe of whole frames,   *)
(* for every base, header width, size limit, pipe and set of bodies.  What *)
(* is under way - the bytes read of a frame, those in the pipe, those yet  *)
(* to be put there - is always the frames not yet returned, end to end; so *)
(* a header read back is one that was written, and DecodeLength undoes     *)
(* EncodeLength.                                                           *)
(***************************************************************************)
EXTENDS FrameCodec, WellFoundedInduction, TLAPS

(* A set of naturals has a least element.                                  *)
LEMMA LeastElement ==
  ASSUME NEW T \in SUBSET Nat, T # {}
  PROVE  \E m \in T : \A k \in T : m <= k
  <1> DEFINE R == {p \in Nat \X Nat : p[1] < p[2]}
  <1>1. OpToRel(<, Nat) = R
    BY DEF OpToRel
  <1>2. IsWellFoundedOn(R, Nat)
    BY <1>1, NatLessThanWellFounded
  <1>3. \A x, y \in Nat : y < x => <<y, x>> \in R
    OBVIOUS
  <1> HIDE DEF R
  <1>4. \E x \in T : \A y \in T : ~(<<y, x>> \in R)
    BY <1>2, WFMin
  <1>5. PICK m \in T : \A y \in T : ~(<<y, m>> \in R)
    BY <1>4
  <1>6. \A k \in T : ~(k < m)
    BY <1>5, <1>3
  <1>7. QED
    BY <1>6

(* Induction over 0, 1, ..., for a set in the place of a predicate.        *)
LEMMA Induction ==
  ASSUME NEW T \in SUBSET Nat, 0 \in T, \A n \in T : n + 1 \in T
  PROVE  T = Nat
  <1>1. SUFFICES ASSUME Nat \ T # {} PROVE FALSE
    OBVIOUS
  <1>2. PICK m \in Nat \ T : \A k \in Nat \ T : m <= k
    BY <1>1, LeastElement
  <1>3. m # 0 /\ m - 1 \in Nat
    BY <1>2
  <1>4. m - 1 \in T
    BY <1>2, <1>3
  <1>5. QED
    BY <1>2, <1>3, <1>4

(* There is a function whose value at 0 is base, and at i what step makes  *)
(* of i and the value at i - 1.                                            *)
HasRecursion(X, base, step, m) ==
  \E f \in [0..m -> X] :
    f[0] = base /\ \A i \in 1..m : f[i] = step[<<i, f[i - 1]>>]

(* Primitive recursion up to m has a solution.                             *)
LEMMA Recursion ==
  ASSUME NEW X, NEW base \in X, NEW step \in [Nat \X X -> X], NEW m \in Nat
  PROVE  HasRecursion(X, base, step, m)
  <1> DEFINE Good(f, n) == f[0] = base /\ \A i \in 1..n : f[i] = step[<<i, f[i - 1]>>]
             T == {n \in Nat : \E f \in [0..n -> X] : Good(f, n)}
  <1>1. 0 \in T
    <2>1. [i \in 0..0 |-> base] \in [0..0 -> X] /\ Good([i \in 0..0 |-> base], 0)
      OBVIOUS
    <2>2. QED
      BY <2>1
  <1>2. ASSUME NEW n \in T PROVE n + 1 \in T
    <2>1. PICK f \in [0..n -> X] : Good(f, n)
      OBVIOUS
    <2> DEFINE x == step[<<n + 1, f[n]>>]
               g == [i \in 0..(n + 1) |-> IF i <= n THEN f[i] ELSE x]
    <2>2. n \in Nat /\ f[n] \in X
      OBVIOUS
    <2>3. x \in X
      BY <2>2
    <2>4. g \in [0..(n + 1) -> X]
      BY <2>2, <2>3
    <2>5. g[0] = base
      BY <2>1, <2>2
    <2>6. ASSUME NEW i \in 1..(n + 1) PROVE g[i] = step[<<i, g[i - 1]>>]
      <3>1. g[i - 1] = f[i - 1]
        BY <2>2
      <3>2. CASE i <= n
        BY <3>1, <3>2, <2>1, <2>2
      <3>3. CASE i = n + 1
        <4>1. g[i] = x /\ i - 1 = n
          BY <3>3, <2>2
        <4>2. QED
          BY <4>1, <3>1, <3>3
      <3>4. QED
        BY <3>2, <3>3, <2>2
    <2> HIDE DEF x, g
    <2>7. Good(g, n + 1)
      BY <2>5, <2>6
    <2>8. \E e \in [0..(n + 1) -> X] : Good(e, n + 1)
      BY <2>4, <2>7
    <2>9. QED
      BY <2>2, <2>8
  <1> HIDE DEF T
  <1>3. T \in SUBSET Nat
    BY DEF T
  <1>4. T = Nat
    BY <1>1, <1>2, <1>3, Induction
  <1>5. QED
    BY <1>4 DEF T, HasRecursion

-----------------------------------------------------------------------------
(* Place is what its recursion says, and positive.                         *)
LEMMA PlaceIsDefined ==
  /\ Place[0] = 1
  /\ \A i \in 1..HeaderBytes : Place[i] = Base * Place[i - 1]
  /\ \A i \in 0..HeaderBytes : Place[i] \in Nat \ {0}
  <1> DEFINE step == [p \in Nat \X Nat |-> Base * p[2]]
             Body(f) == [i \in 0..HeaderBytes |-> IF i = 0 THEN 1 ELSE Base * f[i - 1]]
             T == {n \in Nat : n <= HeaderBytes => Place[n] \in Nat \ {0}}
  <1>1. Base \in Nat /\ Base # 0 /\ HeaderBytes \in Nat
    BY BaseAssumption, HeaderAssumption
  <1>2. \A x \in Nat : Base * x \in Nat
    BY <1>1
  <1>3. step \in [Nat \X Nat -> Nat]
    BY <1>2
  <1>4. \A i, x \in Nat : step[<<i, x>>] = Base * x
    OBVIOUS
  <1> HIDE DEF step
  <1>5. HasRecursion(Nat, 1, step, HeaderBytes)
    BY <1>1, <1>3, 1 \in Nat, Recursion, Zenon
  <1>6. PICK f \in [0..HeaderBytes -> Nat] :
          f[0] = 1 /\ \A i \in 1..HeaderBytes : f[i] = step[<<i, f[i - 1]>>]
    BY <1>5 DEF HasRecursion
  <1>7. \A i \in 1..HeaderBytes : i \in Nat /\ f[i - 1] \in Nat
    BY <1>1
  <1>8. f = Body(f)
    <2>1. \A i \in 1..HeaderBytes : f[i] = Base * f[i - 1]
      BY <1>4, <1>6, <1>7
    <2>2. QED
      BY <1>1, <1>6, <2>1
  <1>9. Place = Body(Place)
    BY <1>8 DEF Place
  <1>10. \A n \in T : n + 1 \in T
    <2>1. \A x \in Nat \ {0} : Base * x \in Nat \ {0}
      BY <1>1
    <2>2. \A n \in Nat : n + 1 <= HeaderBytes => Place[n + 1] = Base * Place[n]
      BY <1>1, <1>9
    <2>3. QED
      BY <1>1, <2>1, <2>2
  <1>11. 0 \in T
    BY <1>1, <1>9
  <1>12. T = Nat
    <2> HIDE DEF T
    <2>1. T \in SUBSET Nat
      BY DEF T
    <2>2. QED
      BY <1>10, <1>11, <2>1, Induction
  <1>13. \A i \in 0..HeaderBytes : i \in T
    BY <1>1, <1>12
  <1>14. \A i \in 0..HeaderBytes : Place[i] \in Nat \ {0}
    BY <1>13
  <1>15. QED
    BY <1>1, <1>9, <1>14

(* The bytes of a length.                                                  *)
Header == [1..HeaderBytes -> 0..(Base - 1)]

(* The sum DecodeLength forms, from the first byte on.                     *)
SumsOf(h, f) ==
  f = [i \in 0..HeaderBytes |->
         IF i = 0 THEN 0 ELSE f[i - 1] + h[i] * Place[i - 1]]

(* The recursion of DecodeLength has exactly these sums for its values.    *)
LEMMA SumIsDefined ==
  ASSUME NEW h \in Header
  PROVE  \E f : SumsOf(h, f) /\ DecodeLength(h) = f[HeaderBytes]
  <1> DEFINE Term(i) == h[i] * Place[i - 1]
             step == [p \in Nat \X Nat |->
                        IF p[1] \in 1..HeaderBytes THEN p[2] + Term(p[1]) ELSE 0]
             value == CHOOSE f : SumsOf(h, f)
  <1>1. Base \in Nat /\ Base # 0 /\ HeaderBytes \in Nat
    BY BaseAssumption, HeaderAssumption
  <1>2. Len(h) = HeaderBytes
    BY <1>1 DEF Header
  <1>3. \A i \in 1..HeaderBytes : Term(i) \in Nat
    <2>1. \A i \in 1..HeaderBytes : h[i] \in Nat /\ Place[i - 1] \in Nat
      <3>1. \A i \in 1..HeaderBytes : i - 1 \in 0..HeaderBytes
        BY <1>1
      <3>2. QED
        BY <1>1, <3>1, PlaceIsDefined DEF Header
    <2>2. \A x, y \in Nat : x * y \in Nat
      OBVIOUS
    <2>3. QED
      BY <2>1, <2>2
  <1> HIDE DEF Term
  <1>4. step \in [Nat \X Nat -> Nat]
    BY <1>3
  <1>5. \A i \in 1..HeaderBytes : \A x \in Nat : step[<<i, x>>] = x + Term(i)
    BY <1>1
  <1> HIDE DEF step
  <1>6. HasRecursion(Nat, 0, step, HeaderBytes)
    BY <1>1, <1>4, 0 \in Nat, Recursion, Zenon
  <1>7. PICK f \in [0..HeaderBytes -> Nat] :
          f[0] = 0 /\ \A i \in 1..HeaderBytes : f[i] = step[<<i, f[i - 1]>>]
    BY <1>6 DEF HasRecursion
  <1>8. \A i \in 1..HeaderBytes : f[i] = f[i - 1] + Term(i)
    <2>1. \A i \in 1..HeaderBytes : i \in Nat /\ f[i - 1] \in Nat
      BY <1>1
    <2>2. QED
      BY <1>5, <1>7, <2>1
  <1>9. SumsOf(h, f)
    BY <1>1, <1>7, <1>8 DEF SumsOf, Term
  <1>10. SumsOf(h, value)
    BY <1>9
  <1>11. DecodeLength(h) = value[HeaderBytes]
    BY <1>2 DEF DecodeLength, SumsOf
  <1>12. QED
    BY <1>10, <1>11

(* A remainder is what is left after the multiples.                        *)
LEMMA RemainderIs ==
  ASSUME NEW m \in Nat \ {0}, NEW q \in Nat, NEW r \in 0..(m - 1)
  PROVE  (q * m + r) % m = r
  <1> DEFINE n == q * m + r
             v == n \div m
             s == n % m
  <1>1. q * m \in Nat
    OBVIOUS
  <1>2. n \in Nat
    BY <1>1
  <1>3. v \in Nat /\ s \in 0..(m - 1) /\ n = v * m + s
    <2> HIDE DEF n
    <2>1. QED
      BY <1>2
  <1> HIDE DEF v, s
  <1>4. q * m + r = v * m + s
    BY <1>3
  <1>5. ASSUME NEW x \in Nat, NEW y \in Nat, x < y
        PROVE  x * m + m <= y * m
    <2>1. y - x \in Nat \ {0}
      BY <1>5
    <2>2. \A k \in Nat \ {0} : m <= k * m
      OBVIOUS
    <2>3. m <= (y - x) * m
      BY <2>1, <2>2
    <2>4. (y - x) * m = y * m - x * m
      OBVIOUS
    <2>5. x * m \in Nat /\ y * m \in Nat
      OBVIOUS
    <2>6. QED
      BY <2>3, <2>4, <2>5
  <1>6. v * m \in Nat
    BY <1>3
  <1>7. ~(q < v)
    BY <1>1, <1>3, <1>4, <1>5, <1>6
  <1>8. ~(v < q)
    BY <1>1, <1>3, <1>4, <1>5, <1>6
  <1>9. q = v
    BY <1>3, <1>7, <1>8
  <1>10. r = s
    BY <1>1, <1>3, <1>4, <1>9
  <1>11. QED
    BY <1>10 DEF s

(* What a length leaves when it is cut after so many bytes, and after one  *)
(* more.                                                                   *)
LEMMA CutOneByteLater ==
  ASSUME NEW n \in Nat, NEW b \in Nat \ {0}, NEW p \in Nat \ {0}
  PROVE  n % (b * p) = (n % p) + ((n \div p) % b) * p
  <1> DEFINE q == n \div p
             r == n % p
             t == q \div b
             d == q % b
  <1>1. q \in Nat /\ r \in 0..(p - 1) /\ n = q * p + r
    OBVIOUS
  <1>2. t \in Nat /\ d \in 0..(b - 1) /\ q = t * b + d
    BY <1>1
  <1> HIDE DEF q, r, t, d
  <1>3. n = t * (b * p) + (r + d * p)
    BY <1>1, <1>2
  <1>4. b * p \in Nat \ {0} /\ d * p \in Nat
    BY <1>2
  <1>5. d * p <= (b - 1) * p
    BY <1>2
  <1>6. (b - 1) * p = b * p - p
    OBVIOUS
  <1>7. r + d * p \in 0..(b * p - 1)
    BY <1>1, <1>4, <1>5, <1>6
  <1>8. n % (b * p) = r + d * p
    BY <1>2, <1>3, <1>4, <1>7, RemainderIs
  <1>9. QED
    BY <1>8 DEF q, r, d

(* What write_u32 writes, read_u32 reads.                                  *)
LEMMA LengthsSurvive ==
  ASSUME NEW n \in 0..MaxMessageBytes
  PROVE  /\ EncodeLength(n) \in Header
         /\ DecodeLength(EncodeLength(n)) = n
  <1> DEFINE h == EncodeLength(n)
             T(f) == {i \in Nat : i <= HeaderBytes => f[i] = n % Place[i]}
  <1>1. Base \in Nat /\ Base # 0 /\ HeaderBytes \in Nat /\ n \in Nat
    BY BaseAssumption, HeaderAssumption, LimitAssumption
  <1>2. \A i \in 0..HeaderBytes : Place[i] \in Nat \ {0}
    BY PlaceIsDefined
  <1>3. h \in Header
    <2>1. \A p \in Nat \ {0} : (n \div p) % Base \in 0..(Base - 1)
      BY <1>1
    <2>2. QED
      BY <1>1, <1>2, <2>1 DEF EncodeLength, Header
  <1>4. PICK f : SumsOf(h, f) /\ DecodeLength(h) = f[HeaderBytes]
    BY <1>3, SumIsDefined
  <1>5. 0 \in T(f)
    <2>1. f[0] = 0 /\ Place[0] = 1
      BY <1>1, <1>4, PlaceIsDefined DEF SumsOf
    <2>2. n % 1 = 0
      BY <1>1
    <2>3. QED
      BY <2>1, <2>2
  <1>6. ASSUME NEW i \in T(f) PROVE i + 1 \in T(f)
    <2>1. SUFFICES ASSUME i + 1 <= HeaderBytes
                   PROVE  f[i + 1] = n % Place[i + 1]
      OBVIOUS
    <2>2. i \in Nat /\ i \in 0..HeaderBytes /\ i + 1 \in 1..HeaderBytes
      BY <1>1, <2>1
    <2>3. f[i] = n % Place[i]
      BY <2>2
    <2>4. f[i + 1] = f[i] + h[i + 1] * Place[i]
      BY <1>4, <2>2 DEF SumsOf
    <2>5. h[i + 1] = (n \div Place[i]) % Base
      BY <2>2 DEF EncodeLength
    <2>6. Place[i + 1] = Base * Place[i]
      BY <2>2, PlaceIsDefined
    <2>7. n % (Base * Place[i])
            = (n % Place[i]) + ((n \div Place[i]) % Base) * Place[i]
      BY <1>1, <1>2, <2>2, CutOneByteLater
    <2>8. QED
      BY <2>3, <2>4, <2>5, <2>6, <2>7
  <1>7. HeaderBytes \in T(f)
    <2> HIDE DEF T
    <2>1. T(f) \in SUBSET Nat
      BY DEF T
    <2>2. T(f) = Nat
      BY <1>5, <1>6, <2>1, Induction
    <2>3. QED
      BY <1>1, <2>2
  <1>8. n < Place[HeaderBytes] /\ Place[HeaderBytes] \in Nat \ {0}
    BY <1>1, <1>2, LimitAssumption
  <1>9. n % Place[HeaderBytes] = n
    BY <1>1, <1>8
  <1>10. QED
    BY <1>1, <1>3, <1>4, <1>7, <1>9

-----------------------------------------------------------------------------
(* The inductive invariant.                                                *)

(* The bytes write_frame makes of a body, and how many they are.           *)
Frame(body) == EncodeLength(Len(body)) \o body
FrameLen(body) == HeaderBytes + Len(body)

(* The bytes are the frames of bodies[r + 1], bodies[r + 2], ... end to    *)
(* end; start[k] is where the k-th of them ends.                           *)
IsCut(start, bytes, bodies, r) ==
  /\ start[r] = 0
  /\ start[Len(bodies)] = Len(bytes)
  /\ \A k \in (r + 1)..Len(bodies) :
       /\ start[k] = start[k - 1] + FrameLen(bodies[k])
       /\ \A j \in 1..FrameLen(bodies[k]) :
            bytes[start[k - 1] + j] = Frame(bodies[k])[j]
  /\ \A j, k \in r..Len(bodies) : j <= k => start[j] <= start[k]

IsFrames(bytes, bodies, r) ==
  \E start \in [r..Len(bodies) -> 0..Len(bytes)] : IsCut(start, bytes, bodies, r)

(* What is under way: read of the current frame, in the pipe, and still in *)
(* the writer's hands.                                                     *)
Stream == partial \o pipe \o pending
StreamIsFrames == IsFrames(Stream, sent, Len(received))

InStep ==
  /\ Len(received) <= Len(sent)
  /\ \A k \in 1..Len(received) : received[k] = sent[k]
  /\ \A k \in 1..Len(sent) : Len(sent[k]) <= MaxMessageBytes
  /\ Len(received) < Len(sent) =>
       Len(partial) < FrameLen(sent[Len(received) + 1])
  /\ pending # <<>> => sent # <<>> /\ Len(pending) <= FrameLen(sent[Len(sent)])
  /\ outcome # "FrameTooLarge"
  /\ outcome # "reading" => pipe = <<>> /\ ~writing

IInv == TypeOK /\ InStep /\ StreamIsFrames

(* Bodies that may be sent.                                                *)
Sendable == {body \in Bodies : Len(body) <= MaxMessageBytes}

(* A frame is its header and its body, and never empty.                    *)
LEMMA FrameFacts ==
  ASSUME NEW body \in Sendable
  PROVE  /\ Frame(body) \in Seq(Byte)
         /\ Len(body) \in 0..MaxMessageBytes
         /\ Len(Frame(body)) = FrameLen(body)
         /\ FrameLen(body) \in Nat \ {0}
         /\ FrameLen(body) = HeaderBytes + Len(body)
         /\ \A j \in 1..HeaderBytes : Frame(body)[j] = EncodeLength(Len(body))[j]
         /\ \A j \in 1..Len(body) : Frame(body)[HeaderBytes + j] = body[j]
  <1>1. body \in Seq(Byte) /\ HeaderBytes \in Nat \ {0}
    BY BodiesAssumption, HeaderAssumption DEF Sendable
  <1>2. Len(body) \in 0..MaxMessageBytes
    BY <1>1, LimitAssumption DEF Sendable
  <1>3. EncodeLength(Len(body)) \in [1..HeaderBytes -> Byte]
    BY <1>2, LengthsSurvive, ByteAssumption DEF Header
  <1>4. EncodeLength(Len(body)) \in Seq(Byte) /\ Len(EncodeLength(Len(body))) = HeaderBytes
    BY <1>1, <1>3
  <1>5. QED
    BY <1>1, <1>2, <1>4 DEF Frame, FrameLen

(* The first and the last of the frames, if there are any.                 *)
LEMMA EndsOfFrames ==
  ASSUME NEW bytes \in Seq(Byte), NEW bodies \in Seq(Sendable),
         NEW r \in 0..Len(bodies), IsFrames(bytes, bodies, r)
  PROVE  /\ r = Len(bodies) => bytes = <<>>
         /\ r < Len(bodies) =>
              /\ FrameLen(bodies[r + 1]) <= Len(bytes)
              /\ \A j \in 1..FrameLen(bodies[r + 1]) :
                   bytes[j] = Frame(bodies[r + 1])[j]
         /\ r + 1 = Len(bodies) => FrameLen(bodies[r + 1]) = Len(bytes)
         /\ r + 1 < Len(bodies) =>
              FrameLen(bodies[r + 1]) + FrameLen(bodies[Len(bodies)]) <= Len(bytes)
  <1> DEFINE S == Len(bodies)
             N == Len(bytes)
  <1>1. PICK start \in [r..S -> 0..N] : IsCut(start, bytes, bodies, r)
    BY DEF IsFrames
  <1>2. S \in Nat /\ r \in 0..S /\ N \in Nat /\ start[r] = 0 /\ start[S] = N
    BY <1>1 DEF IsCut
  <1>3. \A k \in (r + 1)..S : FrameLen(bodies[k]) \in Nat
    BY FrameFacts
  <1>4. r = S => bytes = <<>>
    BY <1>2
  <1>5. \A k \in (r + 1)..S : start[k] = start[k - 1] + FrameLen(bodies[k])
    BY <1>1 DEF IsCut
  <1>6. ASSUME r < S
        PROVE  /\ start[r + 1] = FrameLen(bodies[r + 1])
               /\ FrameLen(bodies[r + 1]) <= N
               /\ \A j \in 1..FrameLen(bodies[r + 1]) :
                    bytes[j] = Frame(bodies[r + 1])[j]
    <2>1. r + 1 \in (r + 1)..S /\ r + 1 \in r..S /\ (r + 1) - 1 = r
      BY <1>2, <1>6
    <2>2. start[r + 1] = 0 + FrameLen(bodies[r + 1])
      BY <1>2, <1>5, <2>1
    <2>3. \A j \in 1..FrameLen(bodies[r + 1]) :
            bytes[0 + j] = Frame(bodies[r + 1])[j]
      BY <1>1, <1>2, <2>1 DEF IsCut
    <2>4. start[r + 1] \in 0..N
      BY <2>1
    <2>5. QED
      BY <1>3, <2>1, <2>2, <2>3, <2>4
  <1>7. ASSUME r + 1 < S
        PROVE  FrameLen(bodies[r + 1]) + FrameLen(bodies[S]) <= N
    <2>1. r + 1 \in r..S /\ S - 1 \in r..S /\ S \in (r + 1)..S /\ r + 1 <= S - 1
      BY <1>2, <1>7
    <2>2. start[r + 1] <= start[S - 1]
      BY <1>1, <2>1 DEF IsCut
    <2>3. start[S] = start[S - 1] + FrameLen(bodies[S])
      BY <1>5, <2>1
    <2>4. start[r + 1] \in 0..N /\ start[S - 1] \in 0..N
      BY <2>1
    <2>5. start[r + 1] = FrameLen(bodies[r + 1]) /\ FrameLen(bodies[S]) \in Nat
      BY <1>2, <1>3, <1>6, <1>7, <2>1
    <2>6. QED
      BY <1>2, <2>2, <2>3, <2>4, <2>5
  <1>8. QED
    BY <1>2, <1>4, <1>6, <1>7

(* One more frame comes behind what is under way.                          *)
LEMMA FrameAdded ==
  ASSUME NEW bytes \in Seq(Byte), NEW bodies \in Seq(Sendable),
         NEW r \in 0..Len(bodies), IsFrames(bytes, bodies, r),
         NEW body \in Sendable
  PROVE  IsFrames(bytes \o Frame(body), Append(bodies, body), r)
  <1> DEFINE S == Len(bodies)
             N == Len(bytes)
             F == Frame(body)
             L == FrameLen(body)
             more == bytes \o F
             longer == Append(bodies, body)
  <1>1. PICK start \in [r..S -> 0..N] : IsCut(start, bytes, bodies, r)
    BY DEF IsFrames
  <1>2. S \in Nat /\ r \in 0..S /\ N \in Nat /\ start[r] = 0 /\ start[S] = N
    BY <1>1 DEF IsCut
  <1>3. F \in Seq(Byte) /\ Len(F) = L /\ L \in Nat
    BY FrameFacts
  <1>4. /\ Len(longer) = S + 1 /\ longer[S + 1] = body
        /\ \A k \in 1..S : longer[k] = bodies[k]
    OBVIOUS
  <1>5. /\ Len(more) = N + L
        /\ \A j \in 1..N : more[j] = bytes[j]
        /\ \A j \in 1..L : more[N + j] = F[j]
    BY <1>3
  <1>6. \A k \in 1..S : FrameLen(bodies[k]) \in Nat
    BY FrameFacts
  <1> DEFINE next == [k \in r..(S + 1) |-> IF k <= S THEN start[k] ELSE N + L]
  <1> HIDE DEF F, L, more, longer
  <1>7. next \in [r..(S + 1) -> 0..(N + L)]
    BY <1>2, <1>3
  <1>8. next[r] = 0 /\ next[S + 1] = N + L /\ next[S] = N
    BY <1>2
  <1>9. ASSUME NEW k \in (r + 1)..(S + 1)
        PROVE  /\ next[k] = next[k - 1] + FrameLen(longer[k])
               /\ \A j \in 1..FrameLen(longer[k]) :
                    more[next[k - 1] + j] = Frame(longer[k])[j]
    <2>1. CASE k <= S
      <3>1. next[k] = start[k] /\ next[k - 1] = start[k - 1] /\ k \in (r + 1)..S
        BY <2>1, <1>2
      <3>2. longer[k] = bodies[k] /\ FrameLen(bodies[k]) \in Nat
        BY <3>1, <1>4, <1>6
      <3>3. /\ start[k] = start[k - 1] + FrameLen(bodies[k])
            /\ \A j \in 1..FrameLen(bodies[k]) :
                 bytes[start[k - 1] + j] = Frame(bodies[k])[j]
        BY <3>1, <1>1 DEF IsCut
      <3>4. start[k] \in 0..N /\ start[k - 1] \in 0..N
        <4>1. k \in r..S /\ k - 1 \in r..S
          BY <3>1, <1>2
        <4>2. QED
          BY <4>1
      <3>5. \A j \in 1..FrameLen(bodies[k]) : start[k - 1] + j \in 1..N
        BY <1>2, <3>2, <3>3, <3>4
      <3>6. \A j \in 1..FrameLen(bodies[k]) :
              more[start[k - 1] + j] = Frame(bodies[k])[j]
        BY <3>3, <3>5, <1>5
      <3>7. QED
        BY <3>1, <3>2, <3>3, <3>6
    <2>2. CASE k = S + 1
      <3>1. next[k - 1] = N /\ longer[k] = body /\ next[k] = N + L
        BY <2>2, <1>2, <1>4, <1>8
      <3>2. FrameLen(longer[k]) = L /\ Frame(longer[k]) = F
        BY <3>1 DEF L, F
      <3>3. QED
        BY <3>1, <3>2, <1>5
    <2>3. k <= S \/ k = S + 1
      BY <1>2
    <2>4. QED
      BY <2>1, <2>2, <2>3
  <1>10. ASSUME NEW j \in r..(S + 1), NEW k \in r..(S + 1), j <= k
         PROVE  next[j] <= next[k]
    <2>1. CASE k <= S
      <3>1. j \in r..S /\ k \in r..S /\ next[j] = start[j] /\ next[k] = start[k]
        BY <2>1, <1>10, <1>2
      <3>2. QED
        BY <3>1, <1>10, <1>1 DEF IsCut
    <2>2. CASE k = S + 1
      <3>1. next[j] \in 0..(N + L)
        BY <1>7
      <3>2. QED
        BY <2>2, <3>1, <1>8
    <2>3. QED
      BY <2>1, <2>2, <1>2
  <1> HIDE DEF next
  <1>11. IsCut(next, more, longer, r)
    BY <1>4, <1>5, <1>8, <1>9, <1>10 DEF IsCut
  <1>12. IsFrames(more, longer, r)
    BY <1>4, <1>5, <1>7, <1>11 DEF IsFrames
  <1>13. QED
    BY <1>12 DEF more, longer, F

(* The first frame goes.                                                   *)
LEMMA FrameTaken ==
  ASSUME NEW first \in Seq(Byte), NEW rest \in Seq(Byte),
         NEW bodies \in Seq(Sendable), NEW r \in 0..(Len(bodies) - 1),
         IsFrames(first \o rest, bodies, r),
         Len(first) = FrameLen(bodies[r + 1])
  PROVE  IsFrames(rest, bodies, r + 1)
  <1> DEFINE S == Len(bodies)
             bytes == first \o rest
             N == Len(bytes)
             n == Len(first)
  <1>1. PICK start \in [r..S -> 0..N] : IsCut(start, bytes, bodies, r)
    BY DEF IsFrames
  <1>2. /\ S \in Nat /\ r \in 0..(S - 1) /\ n \in Nat /\ Len(rest) \in Nat
        /\ N = n + Len(rest)
        /\ \A j \in 1..Len(rest) : bytes[n + j] = rest[j]
    <2>1. \A p, q \in Seq(Byte) :
            /\ Len(p) \in Nat /\ Len(q) \in Nat
            /\ Len(p \o q) = Len(p) + Len(q)
            /\ \A j \in 1..Len(q) : (p \o q)[Len(p) + j] = q[j]
      OBVIOUS
    <2>2. S \in Nat /\ r \in 0..(S - 1)
      OBVIOUS
    <2>3. QED
      BY ONLY <2>1, <2>2, first \in Seq(Byte), rest \in Seq(Byte)
  <1> HIDE DEF bytes, n
  <1>3. start[r] = 0 /\ start[S] = N
    BY <1>1 DEF IsCut
  <1>4. \A k \in (r + 1)..S :
          /\ FrameLen(bodies[k]) \in Nat
          /\ start[k] = start[k - 1] + FrameLen(bodies[k])
    <2>1. \A k \in (r + 1)..S : bodies[k] \in Sendable
      BY <1>2
    <2>2. QED
      BY <1>1, <2>1, FrameFacts DEF IsCut
  <1>5. start[r + 1] = n
    <2>1. r + 1 \in (r + 1)..S /\ (r + 1) - 1 = r
      BY <1>2
    <2>2. QED
      BY <1>2, <1>3, <1>4, <2>1 DEF n
  <1>6. \A k \in (r + 1)..S : start[k] \in n..N
    <2>1. \A k \in (r + 1)..S : start[r + 1] <= start[k]
      BY <1>1, <1>2 DEF IsCut
    <2>2. QED
      BY <1>2, <1>5, <2>1
  <1> DEFINE next == [k \in (r + 1)..S |-> start[k] - n]
  <1>7. next \in [(r + 1)..S -> 0..Len(rest)]
    BY <1>2, <1>6
  <1>8. next[r + 1] = 0 /\ next[S] = Len(rest)
    BY <1>2, <1>3, <1>5
  <1> HIDE DEF next
  <1>9. ASSUME NEW k \in ((r + 1) + 1)..S
        PROVE  /\ next[k] = next[k - 1] + FrameLen(bodies[k])
               /\ \A j \in 1..FrameLen(bodies[k]) :
                    rest[next[k - 1] + j] = Frame(bodies[k])[j]
    <2>1. k \in (r + 1)..S /\ k - 1 \in (r + 1)..S
      BY <1>2
    <2>2. next[k] = start[k] - n /\ next[k - 1] = start[k - 1] - n
      BY <2>1 DEF next
    <2>3. start[k] \in n..N /\ start[k - 1] \in n..N /\ FrameLen(bodies[k]) \in Nat
      BY <1>4, <1>6, <2>1
    <2>4. next[k] = next[k - 1] + FrameLen(bodies[k])
      BY <1>2, <1>4, <2>1, <2>2, <2>3
    <2>5. ASSUME NEW j \in 1..FrameLen(bodies[k])
          PROVE  rest[next[k - 1] + j] = Frame(bodies[k])[j]
      <3>1. bytes[start[k - 1] + j] = Frame(bodies[k])[j]
        BY <1>1, <2>1 DEF IsCut
      <3>2. next[k - 1] + j \in 1..Len(rest) /\ n + (next[k - 1] + j) = start[k - 1] + j
        <4>1. start[k] = start[k - 1] + FrameLen(bodies[k])
          BY <1>4, <2>1
        <4>2. j \in Nat /\ 1 <= j /\ j <= FrameLen(bodies[k])
          BY <2>3
        <4>3. n \in Nat /\ Len(rest) \in Nat /\ N = n + Len(rest)
          BY <1>2
        <4>4. ASSUME NEW x \in n..N, NEW y \in n..N, NEW f \in Nat, y = x + f,
                     NEW i \in 1..f
              PROVE  (x - n) + i \in 1..Len(rest) /\ n + ((x - n) + i) = x + i
          BY <4>3, <4>4
        <4>5. QED
          BY <2>2, <2>3, <4>1, <4>4
      <3>3. QED
        BY <1>2, <3>1, <3>2
    <2>6. QED
      BY <2>4, <2>5
  <1>10. ASSUME NEW j \in (r + 1)..S, NEW k \in (r + 1)..S, j <= k
         PROVE  next[j] <= next[k]
    <2>1. start[j] <= start[k] /\ start[j] \in n..N /\ start[k] \in n..N
      BY <1>1, <1>2, <1>6, <1>10 DEF IsCut
    <2>2. QED
      BY <1>2, <2>1 DEF next
  <1>11. IsCut(next, rest, bodies, r + 1)
    BY <1>8, <1>9, <1>10 DEF IsCut
  <1>12. QED
    BY <1>7, <1>11 DEF IsFrames

-----------------------------------------------------------------------------
(* The invariant holds at first and is kept by every step.                 *)

(* The invariant in the form the lemmas above take it.                     *)
LEMMA Unfolded ==
  ASSUME IInv
  PROVE  /\ Stream \in Seq(Byte)
         /\ Len(Stream) = Len(partial) + Len(pipe) + Len(pending)
         /\ sent \in Seq(Sendable)
         /\ Len(received) \in 0..Len(sent)
  <1>1. Stream \in Seq(Byte) /\ Len(Stream) = Len(partial) + Len(pipe) + Len(pending)
    BY DEF IInv, TypeOK, Stream
  <1>2. sent \in Seq(Bodies) /\ \A k \in 1..Len(sent) : sent[k] \in Sendable
    BY DEF IInv, TypeOK, InStep, Sendable
  <1>3. sent \in Seq(Sendable)
    BY <1>2
  <1>4. Len(received) \in 0..Len(sent)
    BY DEF IInv, TypeOK, InStep
  <1>5. QED
    BY <1>1, <1>3, <1>4

(* The invariant holds at first: nothing is under way.                     *)
LEMMA InitInv == Init => IInv
  <1> SUFFICES ASSUME Init PROVE IInv
    OBVIOUS
  <1>1. TypeOK
    BY CodecBounds, HeaderAssumption, LimitAssumption DEF Init, TypeOK, Outcome
  <1>2. InStep
    BY DEF Init, InStep
  <1>3. Stream = <<>> /\ sent = <<>> /\ Len(received) = 0
    BY DEF Init, Stream
  <1>4. StreamIsFrames
    <2> DEFINE start == [k \in 0..0 |-> 0]
    <2>1. start \in [0..0 -> 0..0]
      OBVIOUS
    <2>2. IsCut(start, <<>>, <<>>, 0)
      BY DEF IsCut
    <2>3. IsFrames(<<>>, <<>>, 0)
      BY <2>1, <2>2 DEF IsFrames
    <2>4. QED
      BY <1>3, <2>3 DEF StreamIsFrames
  <1>5. QED
    BY <1>1, <1>2, <1>4 DEF IInv

(* Bytes handed over one by one are the same stream.                       *)
LEMMA Regrouped ==
  ASSUME NEW p \in Seq(Byte), NEW q \in Seq(Byte),
         NEW a \in Seq(Byte), NEW t \in Seq(Byte)
  PROVE  (p \o (q \o a)) \o t = (p \o q) \o (a \o t)
  OBVIOUS

(* A byte that moves from the writer into the pipe leaves the stream as it *)
(* is.                                                                     *)
LEMMA WriteByteInv == IInv /\ WriteByte => IInv'
  <1> SUFFICES ASSUME IInv, WriteByte PROVE IInv'
    OBVIOUS
  <1>1. /\ pending \in Seq(Byte) /\ pending # <<>> /\ Head(pending) \in Byte
        /\ pending' = Tail(pending) /\ pending' \in Seq(Byte)
        /\ Len(pending') <= Len(pending)
    BY DEF IInv, TypeOK, WriteByte
  <1>2. pipe \in Seq(Byte) /\ Len(pipe) < PipeBytes /\ Len(pipe) \in Nat /\ PipeBytes \in Nat
    BY CodecBounds DEF IInv, TypeOK, WriteByte
  <1>3. pipe' \in Seq(Byte) /\ Len(pipe') <= PipeBytes
    BY <1>1, <1>2 DEF WriteByte
  <1>4. TypeOK'
    BY <1>1, <1>3 DEF IInv, TypeOK, WriteByte
  <1>5. sent # <<>> /\ Len(pending) <= FrameLen(sent[Len(sent)])
    BY <1>1 DEF IInv, InStep
  <1>6. FrameLen(sent[Len(sent)]) \in Nat
    <2>1. sent[Len(sent)] \in Sendable
      BY <1>5, Unfolded
    <2>2. QED
      BY <2>1, FrameFacts
  <1>7. InStep'
    BY <1>1, <1>5, <1>6 DEF IInv, InStep, WriteByte
  <1>8. Stream' = Stream
    <2>1. pending = <<Head(pending)>> \o Tail(pending)
      BY <1>1
    <2>2. \A q \in Seq(Byte), h \in Byte : <<h>> \in Seq(Byte) /\ Append(q, h) = q \o <<h>>
      OBVIOUS
    <2>3. /\ partial \in Seq(Byte) /\ pipe \in Seq(Byte)
          /\ <<Head(pending)>> \in Seq(Byte) /\ Tail(pending) \in Seq(Byte)
      BY <1>1, <1>2, <2>2 DEF IInv, TypeOK
    <2>4. (partial \o (pipe \o <<Head(pending)>>)) \o Tail(pending)
            = (partial \o pipe) \o (<<Head(pending)>> \o Tail(pending))
      BY <2>3, Regrouped
    <2>5. Stream' = (partial \o (pipe \o <<Head(pending)>>)) \o Tail(pending)
      BY <1>1, <1>2, <2>2 DEF WriteByte, Stream
    <2>6. Stream = (partial \o pipe) \o (<<Head(pending)>> \o Tail(pending))
      BY <2>1 DEF Stream
    <2>7. QED
      BY ONLY <2>4, <2>5, <2>6
  <1>9. QED
    BY <1>4, <1>7, <1>8 DEF IInv, StreamIsFrames, WriteByte

(* The steps that move no byte.                                            *)
LEMMA WriterEndsInv == IInv /\ WriterEnds => IInv'
  BY DEF IInv, TypeOK, InStep, WriterEnds, StreamIsFrames, Stream

LEMMA ReadEofInv == IInv /\ ReadEof => IInv'
  BY DEF IInv, TypeOK, InStep, ReadEof, Outcome, StreamIsFrames, Stream

LEMMA StutterInv == IInv /\ UNCHANGED vars => IInv'
  BY DEF IInv, TypeOK, InStep, vars, StreamIsFrames, Stream

(* A frame accepted is added at the end of the stream.                     *)
LEMMA WriteFrameInv ==
  ASSUME IInv, NEW body \in Bodies, WriteFrame(body)
  PROVE  IInv'
  <1>1. calls' \in 0..MaxFrames
    BY CodecBounds DEF IInv, TypeOK, WriteFrame
  <1>2. CASE Len(body) > MaxMessageBytes
    <2>1. UNCHANGED <<writing, pipe, partial, outcome, received, pending, sent>>
      BY <1>2 DEF WriteFrame
    <2>2. QED
      BY <1>1, <2>1 DEF IInv, TypeOK, InStep, StreamIsFrames, Stream
  <1>3. CASE ~(Len(body) > MaxMessageBytes)
    <2> DEFINE F == Frame(body)
    <2>1. body \in Sendable
      <3>1. Len(body) \in Nat
        BY BodiesAssumption
      <3>2. QED
        BY <1>3, <3>1, LimitAssumption DEF Sendable
    <2>2. /\ pending = <<>> /\ pending' = F /\ sent' = Append(sent, body)
          /\ UNCHANGED <<writing, pipe, partial, outcome, received>>
          /\ writing
      BY <1>3 DEF WriteFrame, Frame
    <2>3. F \in Seq(Byte) /\ Len(F) = FrameLen(body) /\ FrameLen(body) \in Nat \ {0}
      BY <2>1, FrameFacts
    <2>4. /\ Len(sent) \in Nat /\ Len(sent') = Len(sent) + 1
          /\ sent'[Len(sent')] = body
          /\ \A k \in 1..Len(sent) : sent'[k] = sent[k]
          /\ Len(received) \in 0..Len(sent)
      BY <2>1, <2>2, Unfolded
    <2>5. TypeOK'
      BY <1>1, <2>2, <2>3 DEF IInv, TypeOK
    <2> HIDE DEF F
    <2>6. StreamIsFrames'
      <3>1. Stream' = Stream \o F
        <4>1. partial \o pipe \in Seq(Byte) /\ Stream = (partial \o pipe) \o <<>>
          BY <2>2 DEF IInv, TypeOK, Stream
        <4>2. Stream = partial \o pipe
          BY <4>1
        <4>3. QED
          BY <2>2, <4>2 DEF Stream
      <3>2. IsFrames(Stream \o F, sent', Len(received))
        BY <2>1, <2>2, Unfolded, FrameAdded DEF IInv, StreamIsFrames, F
      <3>3. QED
        BY <2>2, <3>1, <3>2 DEF StreamIsFrames
    <2>7. InStep'
      <3>1. Len(received) = Len(sent) => Len(partial) = 0
        <4>1. Len(received) = Len(sent) => Stream = <<>>
          BY Unfolded, EndsOfFrames DEF IInv, StreamIsFrames
        <4>2. Len(partial) \in Nat /\ Len(pipe) \in Nat /\ Len(pending) \in Nat
          BY DEF IInv, TypeOK
        <4>3. Len(Stream) = Len(partial) + Len(pipe) + Len(pending)
          BY Unfolded
        <4>4. Stream = <<>> => Len(Stream) = 0
          OBVIOUS
        <4>5. QED
          BY <4>1, <4>2, <4>3, <4>4
      <3>2. Len(partial) < FrameLen(sent'[Len(received) + 1])
        <4>1. CASE Len(received) = Len(sent)
          BY <2>3, <2>4, <3>1, <4>1
        <4>2. CASE Len(received) < Len(sent)
          <5>1. Len(received) + 1 \in 1..Len(sent)
            BY <2>4, <4>2
          <5>2. QED
            BY <2>4, <4>2, <5>1 DEF IInv, InStep
        <4>3. QED
          BY <2>4, <4>1, <4>2
      <3>3. \A k \in 1..Len(sent') : Len(sent'[k]) <= MaxMessageBytes
        BY <2>1, <2>4 DEF IInv, InStep, Sendable
      <3>4. \A k \in 1..Len(received') : received'[k] = sent'[k]
        BY <2>2, <2>4 DEF IInv, InStep
      <3>5. sent' # <<>> /\ Len(pending') <= FrameLen(sent'[Len(sent')])
        BY <2>2, <2>3, <2>4
      <3>6. Len(received') <= Len(sent')
        BY <2>2, <2>4
      <3>7. outcome' # "FrameTooLarge" /\ (outcome' # "reading" => pipe' = <<>> /\ ~writing')
        BY <2>2 DEF IInv, InStep
      <3>8. QED
        BY <2>2, <3>2, <3>3, <3>4, <3>5, <3>6, <3>7 DEF InStep
    <2>8. QED
      BY <2>5, <2>6, <2>7 DEF IInv
  <1>4. QED
    BY <1>2, <1>3

(* What a byte more makes of read_frame: it goes on with the frame, or it  *)
(* has it, and it is the next of those sent.                               *)
LEMMA ByteRead ==
  ASSUME IInv, ReadByte
  PROVE  LET bytes == Append(partial, Head(pipe))
             body == sent[Len(received) + 1]
             rest == Tail(pipe) \o pending
         IN /\ bytes \in Seq(Byte) /\ rest \in Seq(Byte)
            /\ Stream = bytes \o rest
            /\ Len(received) < Len(sent)
            /\ outcome' = outcome
            /\ \/ /\ received' = received
                  /\ partial' = bytes
                  /\ Len(bytes) < FrameLen(body)
               \/ /\ received' = Append(received, body)
                  /\ partial' = <<>>
                  /\ Len(bytes) = FrameLen(body)
  <1> DEFINE bytes == Append(partial, Head(pipe))
             R == Len(received)
             body == sent[R + 1]
             rest == Tail(pipe) \o pending
             n == Len(bytes)
  <1>1. /\ pipe \in Seq(Byte) /\ pipe # <<>> /\ partial \in Seq(Byte)
        /\ pending \in Seq(Byte) /\ Head(pipe) \in Byte /\ Tail(pipe) \in Seq(Byte)
    BY DEF IInv, TypeOK, ReadByte
  <1>2. bytes \in Seq(Byte) /\ rest \in Seq(Byte) /\ n = Len(partial) + 1
    BY <1>1
  <1>3. Stream = bytes \o rest
    <2>1. pipe = <<Head(pipe)>> \o Tail(pipe)
      BY <1>1
    <2>2. \A p, t, q \in Seq(Byte), h \in Byte :
            (p \o (<<h>> \o t)) \o q = Append(p, h) \o (t \o q)
      OBVIOUS
    <2>3. QED
      BY <1>1, <2>1, <2>2 DEF Stream
  <1>4. R < Len(sent)
    <2>1. Stream # <<>>
      <3>1. Len(pipe) > 0 /\ Len(partial) \in Nat /\ Len(pipe) \in Nat /\ Len(pending) \in Nat
        BY <1>1
      <3>2. Len(Stream) > 0
        BY <3>1, Unfolded
      <3>3. QED
        BY <3>2
    <2>2. QED
      BY <2>1, Unfolded, EndsOfFrames DEF IInv, StreamIsFrames
  <1>5. body \in Sendable
    BY <1>4, Unfolded
  <1>6. n <= FrameLen(body) /\ n \in Nat
    <2>1. Len(partial) < FrameLen(body)
      BY <1>4 DEF IInv, InStep
    <2>2. Len(partial) \in Nat /\ FrameLen(body) \in Nat
      BY <1>1, <1>5, FrameFacts
    <2>3. QED
      BY <1>2, <2>1, <2>2
  <1>7. \A j \in 1..n : bytes[j] = Frame(body)[j]
    <2>1. \A j \in 1..FrameLen(body) : Stream[j] = Frame(body)[j]
      BY <1>4, Unfolded, EndsOfFrames DEF IInv, StreamIsFrames
    <2>2. \A p, q \in Seq(Byte) : \A j \in 1..Len(p) : (p \o q)[j] = p[j]
      OBVIOUS
    <2>3. \A j \in 1..n : Stream[j] = bytes[j]
      BY <1>2, <1>3, <2>2
    <2>4. FrameLen(body) \in Nat
      BY <1>5, FrameFacts
    <2>5. \A j \in 1..n : j \in 1..FrameLen(body)
      BY <1>6, <2>4
    <2>6. QED
      BY <2>1, <2>3, <2>5
  <1>8. /\ HeaderBytes \in Nat /\ Len(body) \in 0..MaxMessageBytes
        /\ MaxMessageBytes \in Nat
        /\ FrameLen(body) = HeaderBytes + Len(body)
    BY <1>5, FrameFacts, HeaderAssumption, LimitAssumption
  <1> HIDE DEF bytes, rest, n, body
  <1>9. n >= HeaderBytes => BodyLength(bytes) = Len(body)
    <2>1. SUFFICES ASSUME n >= HeaderBytes PROVE BodyLength(bytes) = Len(body)
      OBVIOUS
    <2> DEFINE header == SubSeq(bytes, 1, HeaderBytes)
               code == EncodeLength(Len(body))
    <2>2. /\ header \in Seq(Byte) /\ Len(header) = HeaderBytes
          /\ \A j \in 1..HeaderBytes : header[j] = bytes[j]
      BY <1>2, <1>6, <1>8, <2>1 DEF n
    <2>3. \A j \in 1..HeaderBytes : header[j] = code[j]
      <3>1. \A j \in 1..HeaderBytes : j \in 1..n
        BY <1>6, <1>8, <2>1
      <3>2. \A j \in 1..HeaderBytes : Frame(body)[j] = code[j]
        BY <1>5, FrameFacts
      <3>3. QED
        BY <1>7, <2>2, <3>1, <3>2
    <2>4. code \in [1..HeaderBytes -> 0..(Base - 1)]
      BY <1>8, LengthsSurvive DEF Header
    <2>5. header = code
      <3>1. header = [j \in 1..HeaderBytes |-> header[j]]
        BY <2>2
      <3>2. code = [j \in 1..HeaderBytes |-> code[j]]
        BY <2>4
      <3> HIDE DEF header, code
      <3>3. QED
        BY <2>3, <3>1, <3>2
    <2>6. QED
      BY <1>8, <2>5, LengthsSurvive DEF BodyLength
  <1>10. CASE n < FrameLen(body)
    <2>1. received' = received /\ partial' = bytes /\ outcome' = outcome
      <3>1. ~(HasHeader(bytes) /\ BodyLength(bytes) > MaxMessageBytes)
        BY <1>8, <1>9 DEF HasHeader, n
      <3>2. ~(HasHeader(bytes) /\ Len(bytes) = HeaderBytes + BodyLength(bytes))
        BY <1>6, <1>8, <1>9, <1>10 DEF HasHeader, n
      <3>3. Accept(bytes)
        BY DEF ReadByte, bytes
      <3>4. QED
        BY <3>1, <3>2, <3>3 DEF Accept
    <2>2. QED
      BY <1>2, <1>3, <1>4, <1>10, <2>1 DEF bytes, rest, n, body
  <1>11. CASE n = FrameLen(body)
    <2>1. /\ received' = Append(received, SubSeq(bytes, HeaderBytes + 1, n))
          /\ partial' = <<>> /\ outcome' = outcome
      <3>1. HasHeader(bytes) /\ BodyLength(bytes) = Len(body)
        BY <1>8, <1>9, <1>11 DEF HasHeader, n
      <3>2. ~(BodyLength(bytes) > MaxMessageBytes)
        BY <1>8, <3>1
      <3>3. Accept(bytes)
        BY DEF ReadByte, bytes
      <3>4. QED
        BY <1>8, <1>11, <3>1, <3>2, <3>3 DEF Accept, n
    <2>2. SubSeq(bytes, HeaderBytes + 1, n) = body
      <3> DEFINE got == SubSeq(bytes, HeaderBytes + 1, n)
      <3>1. body \in Seq(Byte)
        BY <1>5, BodiesAssumption DEF Sendable
      <3>2. /\ got \in Seq(Byte) /\ Len(got) = Len(body)
            /\ \A j \in 1..Len(body) : got[j] = bytes[HeaderBytes + j]
        BY <1>2, <1>6, <1>8, <1>11 DEF n
      <3>3. \A j \in 1..Len(body) : bytes[HeaderBytes + j] = body[j]
        <4>1. \A j \in 1..Len(body) : HeaderBytes + j \in 1..n
          BY <1>8, <1>11
        <4>2. \A j \in 1..Len(body) : Frame(body)[HeaderBytes + j] = body[j]
          BY <1>5, FrameFacts
        <4>3. QED
          BY <1>7, <4>1, <4>2
      <3> HIDE DEF got
      <3>4. got = body
        BY <3>1, <3>2, <3>3
      <3>5. QED
        BY <3>4 DEF got
    <2>3. QED
      BY <1>2, <1>3, <1>4, <1>11, <2>1, <2>2 DEF bytes, rest, n, body
  <1>12. n < FrameLen(body) \/ n = FrameLen(body)
    BY <1>6, <1>8
  <1>13. QED
    BY <1>10, <1>11, <1>12

(* A byte read stays in the stream, or completes the first frame, which    *)
(* leaves it.                                                              *)
LEMMA ReadByteInv == IInv /\ ReadByte => IInv'
  <1> SUFFICES ASSUME IInv, ReadByte PROVE IInv'
    OBVIOUS
  <1> DEFINE bytes == Append(partial, Head(pipe))
             R == Len(received)
             body == sent[R + 1]
             rest == Tail(pipe) \o pending
  <1>1. /\ bytes \in Seq(Byte) /\ rest \in Seq(Byte)
        /\ Stream = bytes \o rest
        /\ R < Len(sent)
        /\ outcome' = outcome
    BY ByteRead
  <1>2. \/ received' = received /\ partial' = bytes /\ Len(bytes) < FrameLen(body)
        \/ /\ received' = Append(received, body) /\ partial' = <<>>
           /\ Len(bytes) = FrameLen(body)
    BY ByteRead
  <1>3. /\ pipe' = Tail(pipe) /\ UNCHANGED <<writing, calls, pending, sent>>
        /\ outcome = "reading" /\ pipe # <<>>
    BY DEF ReadByte
  <1>4. pipe' \in Seq(Byte) /\ Len(pipe') <= PipeBytes
    <2>1. pipe \in Seq(Byte) /\ Len(pipe) <= PipeBytes /\ PipeBytes \in Nat
      BY CodecBounds DEF IInv, TypeOK
    <2>2. QED
      BY <1>3, <2>1
  <1>5. /\ body \in Sendable /\ R + 1 \in 1..Len(sent) /\ Len(sent) \in Nat
        /\ R \in Nat
    BY <1>1, Unfolded
  <1>6. /\ FrameLen(body) \in Nat \ {0} /\ HeaderBytes \in Nat /\ MaxMessageBytes \in Nat
        /\ FrameLen(body) <= HeaderBytes + MaxMessageBytes
    BY <1>5, FrameFacts, HeaderAssumption, LimitAssumption
  <1>7. CASE received' = received /\ partial' = bytes /\ Len(bytes) < FrameLen(body)
    <2>1. partial' \in Seq(Byte) /\ Len(partial') <= HeaderBytes + MaxMessageBytes
      BY <1>1, <1>6, <1>7
    <2>2. TypeOK'
      BY <1>1, <1>3, <1>4, <1>7, <2>1 DEF IInv, TypeOK
    <2>3. InStep'
      BY <1>1, <1>3, <1>7 DEF IInv, InStep
    <2>4. Stream' = Stream
      <3>1. pending \in Seq(Byte) /\ pipe' \in Seq(Byte)
        BY <1>4 DEF IInv, TypeOK
      <3>2. \A p, q, r \in Seq(Byte) : (p \o q) \o r = p \o (q \o r)
        OBVIOUS
      <3>3. QED
        BY <1>1, <1>3, <1>7, <3>1, <3>2 DEF Stream
    <2>5. QED
      BY <1>3, <1>7, <2>2, <2>3, <2>4 DEF IInv, StreamIsFrames
  <1>8. CASE /\ received' = Append(received, body) /\ partial' = <<>>
             /\ Len(bytes) = FrameLen(body)
    <2>1. TypeOK'
      <3>1. received' \in Seq(Bodies)
        BY <1>5, <1>8 DEF IInv, TypeOK, Sendable
      <3>2. partial' \in Seq(Byte) /\ Len(partial') <= HeaderBytes + MaxMessageBytes
        BY <1>6, <1>8
      <3>3. QED
        BY <1>1, <1>3, <1>4, <3>1, <3>2 DEF IInv, TypeOK
    <2>2. /\ Len(received') = R + 1
          /\ received'[R + 1] = body
          /\ \A k \in 1..R : received'[k] = received[k]
      BY <1>5, <1>8 DEF IInv, TypeOK
    <2>3. InStep'
      <3>1. Len(received') <= Len(sent')
        BY <1>3, <1>5, <2>2
      <3>2. \A k \in 1..Len(received') : received'[k] = sent'[k]
        BY <1>3, <1>5, <2>2 DEF IInv, InStep
      <3>3. Len(received') < Len(sent')
              => Len(partial') < FrameLen(sent'[Len(received') + 1])
        <4>1. SUFFICES ASSUME R + 1 < Len(sent)
                       PROVE  0 < FrameLen(sent[R + 2])
          BY <1>3, <1>5, <1>8, <2>2
        <4>2. sent[R + 2] \in Sendable
          BY <1>5, <4>1, Unfolded
        <4>3. QED
          BY <4>2, FrameFacts
      <3>4. QED
        BY <1>1, <1>3, <3>1, <3>2, <3>3 DEF IInv, InStep
    <2>4. StreamIsFrames'
      <3>1. IsFrames(bytes \o rest, sent, R)
        BY <1>1 DEF IInv, StreamIsFrames
      <3>2. R \in 0..(Len(sent) - 1)
        BY <1>5
      <3> HIDE DEF bytes, rest
      <3>3. IsFrames(rest, sent, R + 1)
        BY <1>1, <1>8, <3>1, <3>2, Unfolded, FrameTaken
      <3>4. Stream' = rest
        <4>1. pending \in Seq(Byte) /\ pipe' \in Seq(Byte)
          BY <1>4 DEF IInv, TypeOK
        <4>2. \A p, q \in Seq(Byte) : (<<>> \o p) \o q = p \o q
          OBVIOUS
        <4>3. QED
          BY <1>3, <1>8, <4>1, <4>2 DEF Stream, rest
      <3>5. QED
        BY <1>3, <2>2, <3>3, <3>4 DEF StreamIsFrames
    <2>5. QED
      BY <2>1, <2>3, <2>4 DEF IInv
  <1>9. QED
    BY <1>2, <1>7, <1>8

(* Every step keeps the invariant.                                         *)
LEMMA StepInv == IInv /\ [Next]_vars => IInv'
  <1> SUFFICES ASSUME IInv, [Next]_vars PROVE IInv'
    OBVIOUS
  <1>1. CASE \E body \in Bodies : WriteFrame(body)
    BY <1>1, WriteFrameInv
  <1>2. CASE WriteByte
    BY <1>2, WriteByteInv
  <1>3. CASE WriterEnds
    BY <1>3, WriterEndsInv
  <1>4. CASE ReadByte
    BY <1>4, ReadByteInv
  <1>5. CASE ReadEof
    BY <1>5, ReadEofInv
  <1>6. CASE Done
    BY <1>6, StutterInv DEF Done
  <1>7. CASE UNCHANGED vars
    BY <1>7, StutterInv
  <1>8. QED
    BY <1>1, <1>2, <1>3, <1>4, <1>5, <1>6, <1>7 DEF Next

(* The invariant holds throughout.                                         *)
LEMMA Invariance == Spec => []IInv
  BY InitInv, StepInv, PTL DEF Spec

(* The codec is typed, the bytes held of a frame among it: read_frame      *)
(* never holds more than a header and the largest body, so a length of     *)
(* one's own writing never takes it over the limit.                        *)
THEOREM CodecTyped == Spec => []TypeOK
  <1>1. IInv => TypeOK
    BY DEF IInv
  <1>2. QED
    BY <1>1, Invariance, PTL

(* The reader never meets a frame that is too large: one is refused by its *)
(* writer, and no other length is ever read as one.                        *)
THEOREM NoFrameIsTooLarge == Spec => [](outcome # "FrameTooLarge")
  <1>1. IInv => outcome # "FrameTooLarge"
    BY DEF IInv, InStep
  <1>2. QED
    BY <1>1, Invariance, PTL

-----------------------------------------------------------------------------
(* The codec implements the pipe of whole frames.                          *)
Queue == SubSeq(Written, Len(received) + 1, Len(Written))

(* The frames written are a prefix of those accepted.                      *)
LEMMA WrittenTyped ==
  ASSUME IInv
  PROVE  /\ Written \in Seq(Bodies)
         /\ Len(Written) = IF pending = <<>> THEN Len(sent) ELSE Len(sent) - 1
         /\ \A k \in 1..Len(Written) : Written[k] = sent[k]
         /\ Len(received) \in 0..Len(sent)
  <1>1. sent \in Seq(Bodies) /\ (pending # <<>> => sent # <<>>)
    BY DEF IInv, TypeOK, InStep
  <1>2. CASE pending = <<>>
    BY <1>1, <1>2, Unfolded DEF Written
  <1>3. CASE pending # <<>>
    <2>1. Front(sent) = SubSeq(sent, 1, Len(sent) - 1)
      BY DEF Front
    <2>2. \A q \in Seq(Bodies) : \A n \in 0..Len(q) :
            /\ SubSeq(q, 1, n) \in Seq(Bodies)
            /\ Len(SubSeq(q, 1, n)) = n
            /\ \A k \in 1..n : SubSeq(q, 1, n)[k] = q[k]
      OBVIOUS
    <2>3. Written = SubSeq(sent, 1, Len(sent) - 1)
      BY <1>3, <2>1 DEF Written
    <2>4. Len(sent) - 1 \in 0..Len(sent)
      BY <1>1, <1>3
    <2>5. QED
      BY <1>1, <1>3, <2>2, <2>3, <2>4, Unfolded
  <1>4. QED
    BY <1>2, <1>3

(* Sequences of bodies with the same elements are the same.                *)
LEMMA SameBodies ==
  ASSUME NEW a \in Seq(Bodies), NEW b \in Seq(Bodies), Len(a) = Len(b),
         \A k \in 1..Len(a) : a[k] = b[k]
  PROVE  a = b
  OBVIOUS

(* A queue of which more is written and less is read.                      *)
LEMMA QueueGrows ==
  ASSUME NEW w \in Seq(Bodies), NEW r \in 0..Len(w), NEW x \in Bodies,
         NEW v \in Seq(Bodies), Len(v) = Len(w) + 1, v[Len(v)] = x,
         \A k \in 1..Len(w) : v[k] = w[k]
  PROVE  SubSeq(v, r + 1, Len(v)) = Append(SubSeq(w, r + 1, Len(w)), x)
  <1> DEFINE p == SubSeq(v, r + 1, Len(v))
             q == SubSeq(w, r + 1, Len(w))
  <1>1. /\ p \in Seq(Bodies) /\ Len(p) = Len(v) - r
        /\ \A k \in 1..Len(p) : p[k] = v[r + k]
    OBVIOUS
  <1>2. /\ q \in Seq(Bodies) /\ Len(q) = Len(w) - r
        /\ \A k \in 1..Len(q) : q[k] = w[r + k]
    OBVIOUS
  <1> HIDE DEF p, q
  <1>3. /\ Append(q, x) \in Seq(Bodies) /\ Len(Append(q, x)) = Len(q) + 1
        /\ Append(q, x)[Len(q) + 1] = x
        /\ \A k \in 1..Len(q) : Append(q, x)[k] = q[k]
    <2>1. \A s \in Seq(Bodies), y \in Bodies :
            /\ Append(s, y) \in Seq(Bodies) /\ Len(Append(s, y)) = Len(s) + 1
            /\ Append(s, y)[Len(s) + 1] = y
            /\ \A k \in 1..Len(s) : Append(s, y)[k] = s[k]
      OBVIOUS
    <2>2. QED
      BY <1>2, <2>1
  <1>4. Len(p) = Len(Append(q, x)) /\ Len(q) \in Nat
    BY <1>1, <1>2, <1>3
  <1>5. ASSUME NEW k \in 1..Len(p) PROVE p[k] = Append(q, x)[k]
    <2>1. CASE k = Len(q) + 1
      <3>1. r + k = Len(v)
        BY <2>1, <1>2
      <3>2. QED
        BY <2>1, <3>1, <1>1, <1>3
    <2>2. CASE k # Len(q) + 1
      <3>1. k \in 1..Len(q) /\ r + k \in 1..Len(w)
        BY <2>2, <1>2, <1>3, <1>4
      <3>2. p[k] = v[r + k] /\ v[r + k] = w[r + k] /\ q[k] = w[r + k]
        BY <3>1, <1>1, <1>2
      <3>3. QED
        BY <3>1, <3>2, <1>3
    <2>3. QED
      BY <2>1, <2>2
  <1>6. p = Append(q, x)
    <2> DEFINE b == Append(q, x)
    <2>1. b \in Seq(Bodies) /\ Len(p) = Len(b) /\ \A k \in 1..Len(p) : p[k] = b[k]
      BY <1>3, <1>4, <1>5
    <2> HIDE DEF b
    <2>2. p = b
      BY <1>1, <2>1, SameBodies
    <2>3. QED
      BY <2>2 DEF b
  <1>7. QED
    BY <1>6 DEF p, q

(* A queue of which one more is read.                                      *)
LEMMA QueueShrinks ==
  ASSUME NEW w \in Seq(Bodies), NEW r \in 0..(Len(w) - 1)
  PROVE  /\ SubSeq(w, r + 1, Len(w)) # <<>>
         /\ Head(SubSeq(w, r + 1, Len(w))) = w[r + 1]
         /\ Tail(SubSeq(w, r + 1, Len(w))) = SubSeq(w, r + 2, Len(w))
  <1> DEFINE p == SubSeq(w, r + 1, Len(w))
             q == SubSeq(w, r + 2, Len(w))
  <1>1. /\ p \in Seq(Bodies) /\ Len(p) = Len(w) - r /\ Len(p) > 0
        /\ \A k \in 1..Len(p) : p[k] = w[r + k]
    OBVIOUS
  <1>2. /\ q \in Seq(Bodies) /\ Len(q) = Len(w) - r - 1
        /\ \A k \in 1..Len(q) : q[k] = w[(r + 1) + k]
    OBVIOUS
  <1> HIDE DEF p, q
  <1>3. p # <<>> /\ Head(p) = p[1] /\ 1 \in 1..Len(p)
    BY <1>1
  <1>4. /\ Tail(p) \in Seq(Bodies) /\ Len(Tail(p)) = Len(p) - 1
        /\ \A k \in 1..(Len(p) - 1) : Tail(p)[k] = p[k + 1]
    BY <1>1, <1>3
  <1>5. \A k \in 1..Len(q) : Tail(p)[k] = q[k]
    <2>1. \A k \in 1..Len(q) :
            /\ k \in 1..(Len(p) - 1) /\ k + 1 \in 1..Len(p)
            /\ r + (k + 1) = (r + 1) + k
      BY <1>1, <1>2
    <2>2. QED
      BY <1>1, <1>2, <1>4, <2>1
  <1>6. Tail(p) = q
    <2> DEFINE b == Tail(p)
    <2>1. b \in Seq(Bodies) /\ Len(q) = Len(b) /\ \A k \in 1..Len(q) : q[k] = b[k]
      BY <1>1, <1>2, <1>4, <1>5
    <2> HIDE DEF b
    <2>2. q = b
      BY <1>2, <2>1, SameBodies
    <2>3. QED
      BY <2>2 DEF b
  <1>7. QED
    BY <1>1, <1>3, <1>6 DEF p, q

(* A frame accepted is not in the pipe yet.                                *)
LEMMA WriteFramePipe ==
  ASSUME IInv, NEW body \in Bodies, WriteFrame(body)
  PROVE  UNCHANGED Pipe!vars
  <1>1. Written' = Written
    <2>1. CASE Len(body) > MaxMessageBytes
      BY <2>1 DEF WriteFrame, Written
    <2>2. CASE ~(Len(body) > MaxMessageBytes)
      <3>1. body \in Sendable
        BY <2>2, BodiesAssumption, LimitAssumption DEF Sendable
      <3>2. /\ pending = <<>> /\ pending' = Frame(body)
            /\ sent' = Append(sent, body)
        BY <2>2 DEF WriteFrame, Frame
      <3>3. pending' # <<>>
        <4>1. Len(Frame(body)) > 0
          BY <3>1, FrameFacts
        <4>2. QED
          BY <3>2, <4>1
      <3>4. Front(sent') = sent
        <4>1. \A q \in Seq(Bodies), x \in Bodies :
                SubSeq(Append(q, x), 1, Len(Append(q, x)) - 1) = q
          OBVIOUS
        <4>2. QED
          BY <3>2, <4>1 DEF Front, IInv, TypeOK
      <3>5. QED
        BY <3>2, <3>3, <3>4 DEF Written
    <2>3. QED
      BY <2>1, <2>2
  <1>2. QED
    BY <1>1 DEF Pipe!vars, WriteFrame

(* Its last byte puts the frame into the pipe.                             *)
LEMMA WriteBytePipe ==
  ASSUME IInv, IInv', WriteByte
  PROVE  [Pipe!Next]_Pipe!vars
  <1>1. /\ pending # <<>> /\ writing
        /\ UNCHANGED <<writing, outcome, sent, received>>
    BY DEF WriteByte
  <1>2. CASE pending' # <<>>
    <2>1. Written' = Written
      BY <1>1, <1>2 DEF Written
    <2>2. QED
      BY <1>1, <2>1 DEF Pipe!vars
  <1>3. CASE pending' = <<>>
    <2>1. /\ Written \in Seq(Bodies) /\ Len(Written) = Len(sent) - 1
          /\ \A k \in 1..Len(Written) : Written[k] = sent[k]
      BY <1>1, WrittenTyped
    <2>2. Written' = sent
      BY <1>1, <1>3 DEF Written
    <2>3. sent \in Seq(Bodies) /\ sent # <<>>
      BY <1>1 DEF IInv, TypeOK, InStep
    <2>4. Len(sent) \in Nat \ {0} /\ sent[Len(sent)] \in Bodies
      BY <2>3
    <2>5. Len(received) \in 0..Len(Written)
      <3>1. Len(received) # Len(sent)
        <4>1. Len(received) = Len(sent) => Stream = <<>>
          BY Unfolded, EndsOfFrames DEF IInv, StreamIsFrames
        <4>2. /\ Len(partial) \in Nat /\ Len(pipe) \in Nat
              /\ Len(pending) \in Nat \ {0}
          BY <1>1 DEF IInv, TypeOK
        <4>3. Len(Stream) = Len(partial) + Len(pipe) + Len(pending)
          BY Unfolded
        <4>4. Stream = <<>> => Len(Stream) = 0
          OBVIOUS
        <4>5. QED
          BY <4>1, <4>2, <4>3, <4>4
      <3>2. Len(received) \in 0..Len(sent)
        BY Unfolded
      <3>3. QED
        BY <2>1, <2>4, <3>1, <3>2
    <2>6. SubSeq(sent, Len(received) + 1, Len(sent))
            = Append(SubSeq(Written, Len(received) + 1, Len(Written)),
                     sent[Len(sent)])
      <3>1. Len(sent) = Len(Written) + 1 /\ \A k \in 1..Len(Written) : sent[k] = Written[k]
        BY <2>1, <2>4
      <3>2. QED
        BY <2>1, <2>3, <2>4, <2>5, <3>1, QueueGrows
    <2>7. Pipe!Write(sent[Len(sent)])
      BY <1>1, <2>2, <2>6 DEF Pipe!Write
    <2>8. QED
      BY <2>4, <2>7 DEF Pipe!Next
  <1>4. QED
    BY <1>2, <1>3

(* The last byte of a frame, and no other, takes that frame out of the     *)
(* pipe; and it is the oldest.                                             *)
LEMMA ReadBytePipe ==
  ASSUME IInv, IInv', ReadByte
  PROVE  [Pipe!Next]_Pipe!vars
  <1> DEFINE bytes == Append(partial, Head(pipe))
             R == Len(received)
             body == sent[R + 1]
             rest == Tail(pipe) \o pending
  <1>1. /\ Stream = bytes \o rest /\ R < Len(sent) /\ outcome' = outcome
        /\ bytes \in Seq(Byte) /\ rest \in Seq(Byte)
    BY ByteRead
  <1>2. Written' = Written /\ UNCHANGED writing
    BY DEF ReadByte, Written
  <1>3. CASE received' = received
    BY <1>1, <1>2, <1>3 DEF Pipe!vars
  <1>4. CASE received' = Append(received, body) /\ Len(bytes) = FrameLen(body)
    <2>1. /\ Written \in Seq(Bodies)
          /\ Len(Written) = IF pending = <<>> THEN Len(sent) ELSE Len(sent) - 1
          /\ \A k \in 1..Len(Written) : Written[k] = sent[k]
          /\ R \in 0..Len(sent) /\ Len(sent) \in Nat
      BY WrittenTyped
    <2>2. R < Len(Written)
      <3>1. CASE pending = <<>>
        BY <1>1, <2>1, <3>1
      <3>2. CASE pending # <<>>
        <4>1. R + 1 = Len(sent) => FrameLen(body) = Len(Stream)
          BY Unfolded, EndsOfFrames DEF IInv, StreamIsFrames
        <4>2. Len(Stream) = Len(bytes) + Len(rest) /\ Len(bytes) \in Nat
          BY <1>1
        <4>3. Len(rest) > 0
          <5>1. Tail(pipe) \in Seq(Byte) /\ pending \in Seq(Byte)
            BY DEF IInv, TypeOK, ReadByte
          <5>2. QED
            BY <3>2, <5>1
        <4>4. Len(rest) \in Nat
          BY <1>1
        <4> HIDE DEF bytes, R, body, rest
        <4>5. R + 1 # Len(sent)
          BY <1>4, <4>1, <4>2, <4>3, <4>4
        <4> USE DEF bytes, R, body, rest
        <4>6. QED
          BY <1>1, <2>1, <3>2, <4>5
      <3>3. QED
        BY <3>1, <3>2
    <2>3. Written[R + 1] = body /\ R \in 0..(Len(Written) - 1) /\ Len(Written) \in Nat
      BY <2>1, <2>2
    <2>4. Len(received') = R + 1
      BY <1>4 DEF IInv, TypeOK
    <2>5. /\ Queue # <<>> /\ Head(Queue) = body
          /\ Tail(Queue) = SubSeq(Written, R + 2, Len(Written))
      BY <2>1, <2>3, QueueShrinks DEF Queue
    <2>6. Queue' = Tail(Queue)
      <3>1. (R + 1) + 1 = R + 2
        BY <2>1
      <3>2. QED
        BY <1>2, <2>4, <2>5, <3>1 DEF Queue
    <2>7. Pipe!Read
      BY <1>1, <1>2, <1>4, <2>5, <2>6 DEF Pipe!Read, Queue
    <2>8. QED
      BY <2>7 DEF Pipe!Next
  <1>5. QED
    BY <1>3, <1>4, ByteRead

(* The end comes when the pipe of frames is empty and its writer gone.     *)
LEMMA ReadEofPipe ==
  ASSUME IInv, ReadEof
  PROVE  Pipe!End
  <1> DEFINE R == Len(received)
             first == FrameLen(sent[R + 1])
  <1>1. pipe = <<>> /\ ~writing /\ outcome' # "reading"
    BY DEF ReadEof
  <1>2. UNCHANGED <<writing, sent, received, pending>>
    BY DEF ReadEof
  <1>3. /\ Len(partial) \in Nat /\ Len(pending) \in Nat
        /\ Len(Stream) = Len(partial) + Len(pending)
    <2>1. Len(pipe) = 0
      BY <1>1
    <2>2. QED
      BY <2>1, Unfolded DEF IInv, TypeOK
  <1>4. /\ Written \in Seq(Bodies)
        /\ Len(Written) = IF pending = <<>> THEN Len(sent) ELSE Len(sent) - 1
        /\ R \in 0..Len(sent) /\ Len(sent) \in Nat
    BY WrittenTyped
  <1>5. ~(R < Len(Written))
    <2>1. SUFFICES ASSUME R < Len(Written) PROVE FALSE
      OBVIOUS
    <2>2. R < Len(sent)
      BY <1>4, <2>1
    <2>3. Len(partial) < first
      BY <2>2 DEF IInv, InStep
    <2>4. first \in Nat
      <3>1. sent[R + 1] \in Sendable
        BY <1>4, <2>2, Unfolded
      <3>2. QED
        BY <3>1, FrameFacts
    <2>5. CASE pending = <<>>
      <3>1. first <= Len(Stream)
        BY <2>2, Unfolded, EndsOfFrames DEF IInv, StreamIsFrames
      <3>2. Len(pending) = 0
        BY <2>5
      <3>3. QED
        BY <1>3, <2>3, <2>4, <3>1, <3>2
    <2>6. CASE pending # <<>>
      <3>1. R + 1 < Len(sent)
        BY <1>4, <2>1, <2>6
      <3>2. first + FrameLen(sent[Len(sent)]) <= Len(Stream)
        BY <3>1, Unfolded, EndsOfFrames DEF IInv, StreamIsFrames
      <3>3. Len(pending) <= FrameLen(sent[Len(sent)])
        BY <2>6 DEF IInv, InStep
      <3>4. FrameLen(sent[Len(sent)]) \in Nat
        <4>1. sent[Len(sent)] \in Sendable
          BY <1>4, <3>1, Unfolded
        <4>2. QED
          BY <4>1, FrameFacts
      <3>5. QED
        BY <1>3, <2>3, <2>4, <3>2, <3>3, <3>4
    <2>7. QED
      BY <2>5, <2>6
  <1>6. Queue = <<>>
    <2>1. R + 1 > Len(Written) /\ Len(Written) \in Nat
      BY <1>4, <1>5
    <2>2. QED
      BY <1>4, <2>1 DEF Queue
  <1>7. Written' = Written
    BY <1>2 DEF Written
  <1>8. QED
    BY <1>1, <1>2, <1>6, <1>7 DEF Pipe!End, Queue

(* The codec starts as the pipe of frames does.                            *)
LEMMA PipeInit == Init => Pipe!Init
  <1>1. SubSeq(<<>>, 1, 0) = <<>>
    OBVIOUS
  <1>2. QED
    BY <1>1 DEF Init, Pipe!Init, Written

(* Every step of the codec is one of the pipe of frames, or none.          *)
LEMMA PipeStep == IInv /\ IInv' /\ [Next]_vars => [Pipe!Next]_Pipe!vars
  <1> SUFFICES ASSUME IInv, IInv', [Next]_vars PROVE [Pipe!Next]_Pipe!vars
    OBVIOUS
  <1>1. CASE \E body \in Bodies : WriteFrame(body)
    BY <1>1, WriteFramePipe
  <1>2. CASE WriteByte
    BY <1>2, WriteBytePipe
  <1>3. CASE WriterEnds
    <2>1. Pipe!Stop
      BY <1>3 DEF WriterEnds, Pipe!Stop, Written
    <2>2. QED
      BY <2>1 DEF Pipe!Next
  <1>4. CASE ReadByte
    BY <1>4, ReadBytePipe
  <1>5. CASE ReadEof
    BY <1>5, ReadEofPipe DEF Pipe!Next
  <1>6. CASE Done \/ UNCHANGED vars
    BY <1>6 DEF Done, vars, Pipe!vars, Written
  <1>7. QED
    BY <1>1, <1>2, <1>3, <1>4, <1>5, <1>6 DEF Next

(* FrameWriter and FrameReader implement the pipe of whole frames:         *)
(* whatever the partial transfers and wherever the writer dies, read_frame *)
(* returns the frames written completely, each once, in order and intact,  *)
(* before it fails.                                                        *)
THEOREM CodecImplementsPipe == Spec => ImplementsFramePipe
  BY Invariance, PipeInit, PipeStep, PTL DEF Spec, ImplementsFramePipe, Pipe!Spec

-----------------------------------------------------------------------------
(* What those who use the codec rely on.                                   *)

(* When everything sent was read, nothing is left of it anywhere.          *)
LEMMA NothingUnread == IInv /\ Len(received) = Len(sent) => pending = <<>>
  <1> SUFFICES ASSUME IInv, Len(received) = Len(sent) PROVE pending = <<>>
    OBVIOUS
  <1>1. PICK start \in [Len(received)..Len(sent) -> 0..Len(Stream)] :
          IsCut(start, Stream, sent, Len(received))
    BY DEF IInv, StreamIsFrames, IsFrames
  <1>2. Len(Stream) = 0
    BY <1>1 DEF IsCut
  <1>3. partial \in Seq(Byte) /\ pipe \in Seq(Byte) /\ pending \in Seq(Byte)
    BY DEF IInv, TypeOK
  <1>4. /\ Len(Stream) = Len(partial) + Len(pipe) + Len(pending)
        /\ Len(partial) \in Nat /\ Len(pipe) \in Nat /\ Len(pending) \in Nat
    BY <1>3 DEF Stream
  <1>5. Len(pending) = 0
    BY ONLY <1>2, <1>4
  <1>6. QED
    BY <1>3, <1>5

(* With nothing left to write and nothing in the pipe, everything sent was *)
(* read: what the reader holds is less than a frame.                       *)
LEMMA AllArrived ==
  IInv /\ pending = <<>> /\ pipe = <<>> => Len(received) = Len(sent)
  <1> SUFFICES ASSUME IInv, pending = <<>>, pipe = <<>>, Len(received) # Len(sent)
               PROVE  FALSE
    OBVIOUS
  <1> DEFINE r == Len(received)
             n == Len(sent)
  <1>1. PICK start \in [r..n -> 0..Len(Stream)] : IsCut(start, Stream, sent, r)
    BY DEF IInv, StreamIsFrames, IsFrames
  <1>2. partial \in Seq(Byte) /\ sent \in Seq(Bodies) /\ received \in Seq(Bodies)
    BY DEF IInv, TypeOK
  <1>3. Len(Stream) = Len(partial) /\ Len(partial) \in Nat
    BY <1>2 DEF Stream
  <1>4. r \in Nat /\ n \in Nat /\ r < n
    BY <1>2 DEF IInv, InStep
  <1>5. Len(partial) < FrameLen(sent[r + 1])
    BY <1>4 DEF IInv, InStep
  <1> HIDE DEF r, n
  <1>6. /\ r + 1 \in (r + 1)..n /\ r + 1 \in r..n /\ n \in r..n
        /\ r + 1 <= n /\ (r + 1) - 1 = r
    BY <1>4
  <1>7. start[r] = 0 /\ start[n] = Len(Stream)
    BY <1>1 DEF IsCut, n
  <1>8. start[r + 1] = start[(r + 1) - 1] + FrameLen(sent[r + 1])
    BY <1>1, <1>6 DEF IsCut, n
  <1>9. start[r + 1] <= start[n]
    BY <1>1, <1>6 DEF IsCut, n
  <1>10. FrameLen(sent[r + 1]) \in Nat
    <2>1. sent[r + 1] \in Bodies
      BY <1>2, <1>4 DEF n
    <2>2. sent[r + 1] \in Seq(Byte)
      BY <2>1, BodiesAssumption
    <2>3. QED
      BY <2>2, HeaderAssumption DEF FrameLen
  <1>11. start[r + 1] = FrameLen(sent[r + 1])
    BY <1>6, <1>7, <1>8, <1>10
  <1>12. QED
    BY <1>3, <1>5, <1>7, <1>9, <1>10, <1>11

(* A byte read completes the next frame, or none.                          *)
LEMMA ReadsInOrder ==
  IInv /\ ReadByte =>
    \/ received' = received
    \/ /\ Len(received) < Len(sent)
       /\ received' = Append(received, sent[Len(received) + 1])
  BY ByteRead

(* A body within the limit is sent, any other is not.                      *)
LEMMA Sending ==
  ASSUME IInv, NEW body \in Bodies, WriteFrame(body)
  PROVE  IF Len(body) <= MaxMessageBytes
         THEN sent' = Append(sent, body) /\ pending' # <<>>
         ELSE sent' = sent /\ pending' = pending
  <1>1. CASE Len(body) <= MaxMessageBytes
    <2>1. body \in Sendable
      BY <1>1 DEF Sendable
    <2>2. Len(Frame(body)) # 0
      BY <2>1, FrameFacts
    <2>3. ~(Len(body) > MaxMessageBytes)
      BY <1>1, <2>1, FrameFacts, LimitAssumption
    <2>4. sent' = Append(sent, body) /\ pending' = Frame(body)
      BY <2>3 DEF WriteFrame, Frame
    <2>5. Frame(body) # <<>>
      BY <2>2
    <2>6. QED
      BY <1>1, <2>4, <2>5
  <1>2. CASE ~(Len(body) <= MaxMessageBytes)
    <2>1. body \in Seq(Byte)
      BY BodiesAssumption
    <2>2. Len(body) > MaxMessageBytes
      BY <1>2, <2>1, LimitAssumption, PlaceIsDefined, HeaderAssumption
    <2>3. QED
      BY <1>2, <2>2 DEF WriteFrame
  <1>3. QED
    BY <1>1, <1>2
=============================================================================

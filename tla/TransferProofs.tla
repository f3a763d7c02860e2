--------------------------- MODULE TransferProofs ---------------------------
(***************************************************************************)
(* What is proved of Codec and Transfer, for a length of any number of     *)
(* digits to any base and frames of any size: what the digits of a length  *)
(* are worth, the types, that without a fault the receiver has what was    *)
(* sent, that a message comes back from its bytes, and that whatever       *)
(* becomes of the stream, it is taken for what was meant or for nothing.   *)
(***************************************************************************)
EXTENDS Transfer, SequenceTheorems, WellFoundedInduction, TLAPS

-----------------------------------------------------------------------------
(* Powers, folds and the value of digits.                                  *)

\* Induction over the natural numbers, for a set of them.
LEMMA Induction ==
    ASSUME NEW S, 0 \in S, \A n \in Nat : n \in S => n + 1 \in S
    PROVE  \A n \in Nat : n \in S
  <1> DEFINE T == {n \in Nat : n \notin S}
             R == {ss \in Nat \X Nat : ss[1] < ss[2]}
  <1>1. IsWellFoundedOn(R, Nat)
    BY NatLessThanWellFounded DEF OpToRel
  <1>2. SUFFICES ASSUME T # {} PROVE FALSE
    OBVIOUS
  <1>3. PICK x \in T : \A y \in T : ~(<<y, x>> \in R)
    <2>1. T \subseteq Nat
      OBVIOUS
    <2> HIDE DEF T, R
    <2>2. QED
      BY <1>1, <1>2, <2>1, WFMin
  <1>4. x \in Nat /\ x # 0
    OBVIOUS
  <1>5. x - 1 \in Nat /\ <<x - 1, x>> \in R
    BY <1>4
  <1>6. x - 1 \in S
    BY <1>3, <1>5
  <1>7. x - 1 + 1 \in S
    BY <1>5, <1>6
  <1>8. QED
    BY <1>4, <1>7

\* g has the powers up to n.
Powers(g, n) == g = [k \in 0 .. n |-> IF k = 0 THEN 1 ELSE Base * g[k - 1]]

LEMMA PowersExist ==
    ASSUME NEW n \in Nat
    PROVE  \E g : Powers(g, n)
  <1> DEFINE S == {m \in Nat : \E g : Powers(g, m)}
  <1>1. 0 \in S
    <2> DEFINE g == [k \in 0 .. 0 |-> 1]
    <2>1. \A k \in 0 .. 0 : k = 0
      OBVIOUS
    <2>2. Powers(g, 0)
      BY <2>1 DEF Powers
    <2>3. QED
      BY <2>2
  <1>2. ASSUME NEW m \in Nat, m \in S
        PROVE  m + 1 \in S
    <2>1. PICK g : Powers(g, m)
      BY <1>2
    <2> DEFINE h == [k \in 0 .. m + 1 |-> IF k <= m THEN g[k] ELSE Base * g[m]]
    <2>2. ASSUME NEW k \in 0 .. m + 1
          PROVE  h[k] = IF k = 0 THEN 1 ELSE Base * h[k - 1]
      <3>1. CASE k <= m
        <4>1. k \in 0 .. m /\ h[k] = g[k] /\ (k # 0 => h[k - 1] = g[k - 1])
          BY <3>1
        <4>2. g[k] = IF k = 0 THEN 1 ELSE Base * g[k - 1]
          BY <2>1, <4>1 DEF Powers
        <4>3. QED
          BY <4>1, <4>2
      <3>2. CASE k = m + 1
        <4>1. h[k] = Base * g[m] /\ h[k - 1] = g[m] /\ k # 0
          BY <3>2
        <4>2. QED
          BY <4>1
      <3>3. QED
        BY <3>1, <3>2
    <2>3. Powers(h, m + 1)
      <3>1. h = [k \in 0 .. m + 1 |-> h[k]]
        OBVIOUS
      <3> HIDE DEF h
      <3>2. QED
        BY <2>2, <3>1 DEF Powers
    <2>4. QED
      BY <2>3
  <1>3. n \in S
    <2> HIDE DEF S
    <2>1. QED
      BY <1>1, <1>2, Induction
  <1>4. QED
    BY <1>3

LEMMA PowerIs ==
    /\ Power[0] = 1
    /\ \A k \in 1 .. Width : Power[k] = Base * Power[k - 1]
    /\ \A k \in 0 .. Width : Power[k] \in Nat \ {0}
  <1> DEFINE g == CHOOSE g : Powers(g, Width)
  <1>1. Powers(g, Width)
    BY PowersExist, CodecAssumption
  <1>2. Power = g
    BY DEF Power, Powers
  <1>3. \A k \in 0 .. Width : Power[k] = IF k = 0 THEN 1 ELSE Base * Power[k - 1]
    BY <1>1, <1>2 DEF Powers
  <1> HIDE DEF g
  <1>4. Width \in Nat /\ Base \in Nat /\ Base # 0 /\ 0 \in 0 .. Width
    BY CodecAssumption
  <1> DEFINE S == {k \in Nat : k <= Width => Power[k] \in Nat \ {0}}
  <1>5. 0 \in S
    BY <1>3, <1>4
  <1>6. ASSUME NEW k \in Nat, k \in S
        PROVE  k + 1 \in S
    <2>1. SUFFICES ASSUME k + 1 <= Width
                   PROVE  Power[k + 1] \in Nat \ {0}
      BY <1>6
    <2>2. PICK p \in Nat : p = Power[k] /\ p # 0
      BY <1>4, <1>6, <2>1
    <2>3. Power[k + 1] = Base * p
      BY <1>3, <1>4, <2>1, <2>2
    <2>4. Base * p \in Nat /\ Base * p # 0
      BY <1>4, <2>2
    <2>5. QED
      BY <2>3, <2>4
  <1>7. \A k \in Nat : k \in S
    <2> HIDE DEF S
    <2>1. QED
      BY <1>5, <1>6, Induction
  <1>8. \A k \in 0 .. Width : Power[k] \in Nat \ {0}
    BY <1>4, <1>7
  <1>9. QED
    BY <1>3, <1>4, <1>8

\* g is what Value folds, over each set of places of the first n digits of d.
Folds(g, d, n) ==
    g = [s \in SUBSET (1 .. n) |->
           IF s = {} THEN 0 ELSE g[s \ {Max(s)}] * Base + d[Max(s)]]

LEMMA MaxIs ==
    ASSUME NEW n \in Nat, NEW s \in SUBSET (1 .. n), n \in s
    PROVE  Max(s) = n
  <1>1. n \in s /\ \A y \in s : n >= y
    OBVIOUS
  <1>2. \A x \in s : (\A y \in s : x >= y) => x = n
    OBVIOUS
  <1>3. QED
    BY <1>1, <1>2 DEF Max

LEMMA FoldsExist ==
    ASSUME NEW d, NEW n \in Nat
    PROVE  \E g : Folds(g, d, n)
  <1> DEFINE S == {m \in Nat : \E g : Folds(g, d, m)}
  <1>1. 0 \in S
    <2> DEFINE g == [s \in SUBSET (1 .. 0) |-> 0]
    <2>1. \A s \in SUBSET (1 .. 0) : s = {}
      OBVIOUS
    <2>2. Folds(g, d, 0)
      BY <2>1 DEF Folds
    <2>3. QED
      BY <2>2
  <1>2. ASSUME NEW m \in Nat, m \in S
        PROVE  m + 1 \in S
    <2>1. PICK g : Folds(g, d, m)
      BY <1>2
    <2> DEFINE h == [s \in SUBSET (1 .. m + 1) |->
                       IF m + 1 \in s THEN g[s \ {m + 1}] * Base + d[m + 1] ELSE g[s]]
    <2>2. ASSUME NEW s \in SUBSET (1 .. m + 1)
          PROVE  h[s] = IF s = {} THEN 0 ELSE h[s \ {Max(s)}] * Base + d[Max(s)]
      <3>1. CASE m + 1 \in s
        <4>1. s # {} /\ Max(s) = m + 1
          BY <3>1, MaxIs
        <4>2. s \ {m + 1} \in SUBSET (1 .. m + 1) /\ m + 1 \notin s \ {m + 1}
          OBVIOUS
        <4>3. h[s \ {m + 1}] = g[s \ {m + 1}]
          BY <4>2
        <4>4. QED
          BY <3>1, <4>1, <4>3
      <3>2. CASE m + 1 \notin s
        <4>1. PICK x : x = Max(s)
          OBVIOUS
        <4>2. s \in SUBSET (1 .. m)
          BY <3>2
        <4>3. s \ {x} \in SUBSET (1 .. m + 1) /\ m + 1 \notin s \ {x}
          BY <3>2
        <4>4. g[s] = IF s = {} THEN 0 ELSE g[s \ {x}] * Base + d[x]
          BY <2>1, <4>1, <4>2 DEF Folds
        <4>5. h[s] = g[s] /\ h[s \ {x}] = g[s \ {x}]
          BY <3>2, <4>3
        <4>6. QED
          BY <4>1, <4>4, <4>5
      <3>3. QED
        BY <3>1, <3>2
    <2>3. Folds(h, d, m + 1)
      <3>1. h = [s \in SUBSET (1 .. m + 1) |-> h[s]]
        OBVIOUS
      <3> HIDE DEF h
      <3>2. QED
        BY <2>2, <3>1 DEF Folds
    <2>4. QED
      BY <2>3
  <1>3. n \in S
    <2> HIDE DEF S
    <2>1. QED
      BY <1>1, <1>2, Induction
  <1>4. QED
    BY <1>3

\* v has what the first k digits of d are worth, for each k.
Worth(v, d, n) == v[0] = 0 /\ \A k \in 1 .. n : v[k] = v[k - 1] * Base + d[k]

LEMMA ValueIs ==
    ASSUME NEW d, NEW n \in Nat, DOMAIN d = 1 .. n
    PROVE  \E v : Worth(v, d, n) /\ Value(d) = v[n]
  <1> DEFINE g == CHOOSE g : Folds(g, d, n)
             v == [k \in 0 .. n |-> g[1 .. k]]
  <1>1. Folds(g, d, n)
    BY FoldsExist
  <1>2. Value(d) = g[1 .. n]
    BY DEF Value, FoldLeft, MapThenFoldSet, Folds
  <1> HIDE DEF g
  <1>3. v[0] = 0
    <2>1. 1 .. 0 = {} /\ {} \in SUBSET (1 .. n)
      OBVIOUS
    <2>2. g[{}] = 0
      BY <1>1, <2>1 DEF Folds
    <2>3. QED
      BY <2>1, <2>2
  <1>4. ASSUME NEW k \in 1 .. n
        PROVE  v[k] = v[k - 1] * Base + d[k]
    <2>1. PICK s : s = 1 .. k
      OBVIOUS
    <2>2. s \in SUBSET (1 .. n) /\ s \in SUBSET (1 .. k) /\ k \in s /\ k \in Nat
      BY <2>1
    <2>3. Max(s) = k
      BY <2>2, MaxIs
    <2>4. s \ {k} = 1 .. k - 1
      BY <2>1
    <2>5. g[s] = g[s \ {k}] * Base + d[k]
      BY <1>1, <2>2, <2>3 DEF Folds
    <2>6. PICK j \in 0 .. n : j = k - 1
      OBVIOUS
    <2>7. v[k] = g[1 .. k] /\ v[j] = g[1 .. j]
      OBVIOUS
    <2> HIDE DEF v
    <2>8. QED
      BY <2>1, <2>4, <2>5, <2>6, <2>7
  <1>5. v[n] = g[1 .. n]
    OBVIOUS
  <1> HIDE DEF v
  <1>6. QED
    BY <1>2, <1>3, <1>4, <1>5 DEF Worth

\* What the digits of a length are worth is again a length.
LEMMA ValueBound ==
    ASSUME NEW n \in 0 .. Width, NEW d, DOMAIN d = 1 .. n, \A i \in 1 .. n : d[i] \in 0 .. Base - 1
    PROVE  Value(d) \in 0 .. Power[n] - 1
  <1>1. n \in Nat /\ n <= Width /\ Width \in Nat /\ Base \in Nat
    BY CodecAssumption
  <1>2. PICK v : Worth(v, d, n) /\ Value(d) = v[n]
    BY <1>1, ValueIs
  <1> DEFINE S == {k \in Nat : k <= n => v[k] \in Nat /\ v[k] <= Power[k] - 1}
  <1>3. 0 \in S
    BY <1>2, PowerIs DEF Worth
  <1>4. ASSUME NEW k \in Nat, k \in S
        PROVE  k + 1 \in S
    <2>1. SUFFICES ASSUME k + 1 <= n
                   PROVE  v[k + 1] \in Nat /\ v[k + 1] <= Power[k + 1] - 1
      BY <1>4
    <2>2. k \in 0 .. Width /\ k + 1 \in 1 .. Width /\ k + 1 \in 1 .. n /\ (k + 1) - 1 = k
      BY <1>1, <2>1
    <2>3. PICK p \in Nat : p = Power[k]
      BY <2>2, PowerIs
    <2>4. Power[k + 1] = Base * p
      BY <2>2, <2>3, PowerIs
    <2>5. PICK x \in Nat : x = v[k] /\ x <= p - 1
      BY <1>1, <1>4, <2>1, <2>3
    <2>6. PICK y \in 0 .. Base - 1 : y = d[k + 1]
      BY <2>2
    <2>7. v[k + 1] = x * Base + y
      BY <1>2, <2>2, <2>5, <2>6 DEF Worth
    <2>8. x * Base <= (p - 1) * Base
      <3>1. PICK z \in Nat : z = p - 1
        BY <2>3, <2>2, PowerIs
      <3>2. x <= z
        BY <2>5, <3>1
      <3>3. x * Base <= z * Base
        BY ONLY <1>1, <3>2, x \in Nat, z \in Nat
      <3>4. QED
        BY <3>1, <3>3
    <2>9. (p - 1) * Base = Base * p - Base /\ x * Base \in Nat
      BY <1>1
    <2>10. PICK u \in Nat, c \in Nat, b \in Nat :
              u = x * Base /\ c = Base * p /\ b = Base
      BY <1>1
    <2>11. v[k + 1] = u + y /\ Power[k + 1] = c /\ u <= c - b /\ y \in Nat /\ y <= b - 1
      BY <2>4, <2>7, <2>8, <2>9, <2>10
    <2>12. QED
      BY ONLY <2>11, u \in Nat, c \in Nat, b \in Nat
  <1>5. \A k \in Nat : k \in S
    <2> HIDE DEF S
    <2>1. QED
      BY <1>3, <1>4, Induction
  <1>6. v[n] \in Nat /\ v[n] <= Power[n] - 1
    BY <1>1, <1>5
  <1>7. Power[n] \in Nat
    BY PowerIs
  <1>8. QED
    BY <1>2, <1>6, <1>7

\* Dividing by a power and by the base is dividing by the next power.
LEMMA DivisionIs ==
    ASSUME NEW n \in Nat, NEW p \in Nat \ {0}
    PROVE  /\ n \div p \in Nat
           /\ (n \div p) \div Base = n \div (Base * p)
           /\ n \div p = ((n \div p) \div Base) * Base + ((n \div p) % Base)
           /\ (n \div p) % Base \in 0 .. Base - 1
  <1>1. Base \in Nat /\ Base > 0
    BY CodecAssumption
  <1>2. PICK q \in Nat : q = n \div p
    OBVIOUS
  <1>3. (n \div p) \div Base = n \div (p * Base)
    BY <1>1
  <1>4. p * Base = Base * p
    BY <1>1
  <1>5. q = Base * (q \div Base) + (q % Base)
    BY ONLY <1>1, q \in Nat
  <1>6. q % Base \in 0 .. Base - 1 /\ q \div Base \in Nat
    BY <1>1
  <1>7. Base * (q \div Base) = (q \div Base) * Base
    BY <1>1, <1>6
  <1>8. QED
    BY <1>2, <1>3, <1>4, <1>5, <1>6, <1>7

\* The digits of a length (BSWAP64) are worth that length.
THEOREM ValueOfDigits ==
    ASSUME NEW n \in Nat, n < Power[Width]
    PROVE  /\ DOMAIN Digits(n) = 1 .. Width
           /\ \A i \in 1 .. Width : Digits(n)[i] \in 0 .. Base - 1
           /\ Value(Digits(n)) = n
  <1>1. Width \in Nat /\ Base \in Nat /\ Base > 0
    BY CodecAssumption
  <1> DEFINE d == Digits(n)
  <1>2. DOMAIN d = 1 .. Width /\ \A i \in 1 .. Width : d[i] = (n \div Power[Width - i]) % Base
    BY DEF Digits
  <1> HIDE DEF d
  <1>3. \A i \in 1 .. Width : d[i] \in 0 .. Base - 1
    <2>1. ASSUME NEW i \in 1 .. Width
          PROVE  d[i] \in 0 .. Base - 1
      <3>1. PICK p \in Nat \ {0} : p = Power[Width - i]
        BY <1>1, PowerIs
      <3>2. d[i] = (n \div p) % Base
        BY <1>2, <3>1
      <3>3. QED
        BY <3>2, DivisionIs
    <2>2. QED
      BY <2>1
  <1>4. PICK v : Worth(v, d, Width) /\ Value(d) = v[Width]
    BY <1>1, <1>2, ValueIs
  <1> DEFINE S == {k \in Nat : k <= Width => v[k] = n \div Power[Width - k]}
  <1>5. 0 \in S
    <2>1. PICK p \in Nat \ {0} : p = Power[Width] /\ n < p
      BY <1>1, PowerIs
    <2>2. n \div p = 0
      BY <2>1
    <2>3. v[0] = 0 /\ Width - 0 = Width
      BY <1>1, <1>4 DEF Worth
    <2>4. QED
      BY <2>1, <2>2, <2>3
  <1>6. ASSUME NEW k \in Nat, k \in S
        PROVE  k + 1 \in S
    <2>1. SUFFICES ASSUME k + 1 <= Width
                   PROVE  v[k + 1] = n \div Power[Width - (k + 1)]
      BY <1>6
    <2>2. PICK j \in 0 .. Width : j = Width - (k + 1)
      BY <1>1, <2>1
    <2>3. j + 1 \in 1 .. Width /\ (j + 1) - 1 = j /\ j + 1 = Width - k
      BY <1>1, <2>1, <2>2
    <2>4. PICK p \in Nat \ {0} : p = Power[j]
      BY PowerIs
    <2>5. Power[Width - k] = Base * p
      BY <2>3, <2>4, PowerIs
    <2>6. v[k] = n \div (Base * p)
      BY <1>1, <1>6, <2>1, <2>5
    <2>7. k + 1 \in 1 .. Width /\ (k + 1) - 1 = k
      BY <1>1, <2>1
    <2>8. v[k + 1] = v[k] * Base + d[k + 1]
      BY <1>4, <2>7 DEF Worth
    <2>9. d[k + 1] = (n \div p) % Base
      BY <1>2, <2>2, <2>4, <2>7
    <2>10. v[k + 1] = n \div p
      <3>1. /\ (n \div p) \div Base = n \div (Base * p)
            /\ n \div p = ((n \div p) \div Base) * Base + ((n \div p) % Base)
        BY DivisionIs
      <3>2. QED
        BY ONLY <2>6, <2>8, <2>9, <3>1
    <2>11. QED
      BY <2>2, <2>4, <2>10
  <1>7. \A k \in Nat : k \in S
    <2> HIDE DEF S
    <2>1. QED
      BY <1>5, <1>6, Induction
  <1>8. v[Width] = n
    <2>1. v[Width] = n \div Power[0]
      BY <1>1, <1>7
    <2>2. QED
      BY <2>1, PowerIs
  <1>9. QED
    BY <1>2, <1>3, <1>4, <1>8 DEF d

-----------------------------------------------------------------------------
(* The stream, and the size that recv makes of a part of it.               *)

\* Sequences of bytes put together, cut, and given by their bytes.
Joins(u, s, t) ==
    /\ u \in Seq(Nat) /\ Len(u) = Len(s) + Len(t)
    /\ \A i \in 1 .. Len(s) : u[i] = s[i]
    /\ \A i \in 1 .. Len(t) : u[Len(s) + i] = t[i]

LEMMA Joined ==
    ASSUME NEW s \in Seq(Nat), NEW t \in Seq(Nat)
    PROVE  Joins(s \o t, s, t)
  <1>1. PICK m \in Nat, n \in Nat : m = Len(s) /\ n = Len(t)
    BY LenProperties
  <1>2. \A i \in 1 .. m + n : (s \o t)[i] = IF i <= m THEN s[i] ELSE t[i - m]
    BY <1>1, ConcatProperties
  <1>3. ASSUME NEW i \in 1 .. n
        PROVE  (s \o t)[m + i] = t[i]
    <2>1. m + i \in 1 .. m + n /\ ~(m + i <= m) /\ (m + i) - m = i
      OBVIOUS
    <2>2. QED
      BY <1>2, <2>1
  <1>4. ASSUME NEW i \in 1 .. m
        PROVE  (s \o t)[i] = s[i]
    <2>1. i \in 1 .. m + n /\ i <= m
      OBVIOUS
    <2>2. QED
      BY <1>2, <2>1
  <1>5. s \o t \in Seq(Nat) /\ Len(s \o t) = m + n
    BY <1>1, ConcatProperties
  <1>6. QED
    BY <1>1, <1>3, <1>4, <1>5 DEF Joins

LEMMA CutOut ==
    ASSUME NEW s \in Seq(Nat), NEW m \in Nat, NEW n \in Nat, m + n <= Len(s),
           NEW a, a = m + 1, NEW b, b = m + n
    PROVE  /\ SubSeq(s, a, b) \in Seq(Nat) /\ Len(SubSeq(s, a, b)) = n
           /\ \A i \in 1 .. n : SubSeq(s, a, b)[i] = s[m + i]
  <1>1. PICK l \in Nat : l = Len(s) /\ \A i \in 1 .. l : s[i] \in Nat
    BY LenProperties, ElementOfSeq
  <1>2. \A i \in a .. b : s[i] \in Nat
    BY <1>1
  <1>3. /\ SubSeq(s, a, b) \in Seq(Nat)
        /\ Len(SubSeq(s, a, b)) = IF a <= b THEN b - a + 1 ELSE 0
        /\ \A i \in 1 .. b - a + 1 : SubSeq(s, a, b)[i] = s[a + i - 1]
    <2>1. a \in Int /\ b \in Int
      OBVIOUS
    <2>2. QED
      BY ONLY <1>2, <2>1, SubSeqProperties
  <1>4. b - a + 1 = n /\ \A i \in 1 .. n : a + i - 1 = m + i
    BY <1>1
  <1>5. QED
    BY <1>1, <1>3, <1>4

LEMMA OfBytes ==
    ASSUME NEW n \in Nat, NEW d, d = [i \in 1 .. n |-> d[i]], \A i \in 1 .. n : d[i] \in Nat
    PROVE  d \in Seq(Nat) /\ Len(d) = n
  <1>1. d \in [1 .. n -> Nat]
    OBVIOUS
  <1>2. d \in Seq(Nat)
    BY <1>1, SeqDef
  <1>3. Len(d) \in Nat /\ DOMAIN d = 1 .. Len(d) /\ DOMAIN d = 1 .. n
    BY <1>1, <1>2, LenProperties
  <1>4. Len(d) = n
    BY <1>3
  <1>5. QED
    BY <1>2, <1>4

\* One byte, the digits of a length and some more bytes, one after the other.
Parts(t, x, d, s) ==
    /\ t \in Seq(Nat) /\ Len(t) = 1 + Width + Len(s) /\ t[1] = x
    /\ \A i \in 1 .. Width : t[1 + i] = d[i]
    /\ \A i \in 1 .. Len(s) : t[1 + Width + i] = s[i]

LEMMA ThreeParts ==
    ASSUME NEW x \in Nat, NEW d \in Seq(Nat), Len(d) = Width, NEW s \in Seq(Nat)
    PROVE  Parts(<<x>> \o d \o s, x, d, s)
  <1>1. <<x>> \in Seq(Nat) /\ Len(<<x>>) = 1 /\ <<x>>[1] = x
    OBVIOUS
  <1>2. PICK u : u = <<x>> \o d /\ Joins(u, <<x>>, d)
    BY <1>1, Joined
  <1>3. /\ u \in Seq(Nat) /\ Len(u) = 1 + Width /\ u[1] = x
        /\ \A i \in 1 .. Width : u[1 + i] = d[i]
    BY <1>1, <1>2 DEF Joins
  <1>4. Width \in Nat
    BY CodecAssumption
  <1>5. PICK t : t = u \o s /\ Joins(t, u, s)
    BY <1>3, Joined
  <1>6. /\ t \in Seq(Nat) /\ Len(t) = 1 + Width + Len(s)
        /\ \A i \in 1 .. 1 + Width : t[i] = u[i]
        /\ \A i \in 1 .. Len(s) : t[1 + Width + i] = s[i]
    BY <1>3, <1>5 DEF Joins
  <1>7. t[1] = x /\ \A i \in 1 .. Width : t[1 + i] = d[i]
    BY <1>3, <1>4, <1>6
  <1>8. Parts(t, x, d, s)
    BY <1>6, <1>7 DEF Parts
  <1>9. QED
    BY <1>2, <1>5, <1>8

LEMMA DigitsSeq ==
    ASSUME NEW n \in Nat, n < Power[Width]
    PROVE  Digits(n) \in Seq(Nat) /\ Len(Digits(n)) = Width
  <1>1. Width \in Nat /\ Base \in Nat
    BY CodecAssumption
  <1> DEFINE d == Digits(n)
  <1>2. d = [i \in 1 .. Width |-> d[i]]
    BY DEF Digits
  <1>3. \A i \in 1 .. Width : d[i] \in Nat
    BY <1>1, ValueOfDigits
  <1> HIDE DEF d
  <1>4. d \in Seq(Nat) /\ Len(d) = Width
    BY ONLY <1>1, <1>2, <1>3, OfBytes
  <1>5. QED
    BY <1>4 DEF d

\* The stream of any frame.
LEMMA StreamIs ==
    ASSUME frame \in Frames
    PROVE  /\ frame.data \in Seq(Nat)
           /\ frame.kind = "missing" => frame.data = <<>>
           /\ Announced \in Nat /\ Announced <= Power[Width] - 1
           /\ frame.kind # "missing" => Announced = Len(frame.data)
           /\ Stream \in Seq(Nat) /\ Len(Stream) = 1 + Width + Len(frame.data)
           /\ Stream[1] \in {0, 1} /\ Stream[1] = IF OfFile THEN 1 ELSE 0
           /\ \A i \in 1 .. Width : Stream[1 + i] = Digits(Announced)[i]
           /\ \A i \in 1 .. Len(frame.data) : Stream[1 + Width + i] = frame.data[i]
  <1>1. /\ frame.data \in Seq(Nat) /\ Len(frame.data) < Power[Width]
        /\ frame.kind = "missing" => frame.data = <<>>
    BY TransferAssumption
  <1>2. Power[Width] \in Nat \ {0} /\ Width \in Nat
    BY PowerIs, CodecAssumption
  <1>3. PICK n \in Nat : n = Announced /\ n < Power[Width]
    BY <1>1, <1>2 DEF Announced, Announces
  <1>4. Digits(n) \in Seq(Nat) /\ Len(Digits(n)) = Width
    BY <1>3, DigitsSeq
  <1>5. PICK x \in {0, 1} : x = IF OfFile THEN 1 ELSE 0
    OBVIOUS
  <1>6. Stream = <<x>> \o Digits(n) \o frame.data
    BY <1>3, <1>5 DEF Stream
  <1>7. x \in Nat
    OBVIOUS
  <1>8. /\ Stream \in Seq(Nat) /\ Len(Stream) = 1 + Width + Len(frame.data) /\ Stream[1] = x
        /\ \A i \in 1 .. Width : Stream[1 + i] = Digits(n)[i]
        /\ \A i \in 1 .. Len(frame.data) : Stream[1 + Width + i] = frame.data[i]
    <2>1. PICK d \in Seq(Nat), s \in Seq(Nat) :
             d = Digits(n) /\ s = frame.data /\ Len(d) = Width
      BY <1>1, <1>4
    <2>2. Parts(<<x>> \o d \o s, x, d, s)
      BY <1>7, <2>1, ThreeParts
    <2>3. Parts(Stream, x, Digits(n), frame.data)
      BY <1>6, <2>1, <2>2
    <2>4. QED
      BY <2>3 DEF Parts
  <1>9. Announced <= Power[Width] - 1
    BY <1>2, <1>3
  <1>10. frame.kind # "missing" => Announced = Len(frame.data)
    BY DEF Announced, Announces
  <1>11. QED
    BY <1>1, <1>3, <1>5, <1>8, <1>9, <1>10

\* What ReadSize takes the size for, of k bytes from the first or the second on, is
\* a length, and if it was all of the length's bytes it is that length.
LEMMA SizeIs ==
    ASSUME frame \in Frames, NEW r \in 0 .. 1, NEW k \in 1 .. Width,
           r + k <= Len(Stream)
    PROVE  LET d == Overlay(Zeros(Width), SubSeq(Stream, r + 1, r + k))
           IN /\ Value(d) \in 0 .. Power[Width] - 1
              /\ r = 1 /\ k = Width => Value(d) = Announced
  <1>1. Width \in Nat /\ Width > 0 /\ Base \in Nat /\ Base > 1
    BY CodecAssumption
  <1>2. PICK t \in Seq(Nat), n \in Nat :
           /\ t = Stream /\ n = Announced /\ n < Power[Width] /\ r + k <= Len(t)
           /\ t[1] \in {0, 1} /\ \A i \in 1 .. Width : t[1 + i] = Digits(n)[i]
    <2>1. Announced < Power[Width]
      <3>1. Power[Width] \in Nat /\ Announced \in Nat /\ Announced <= Power[Width] - 1
        BY <1>1, StreamIs, PowerIs
      <3>2. QED
        BY <3>1
    <2>2. QED
      BY <2>1, StreamIs
  <1>3. DOMAIN Digits(n) = 1 .. Width /\ \A i \in 1 .. Width : Digits(n)[i] \in 0 .. Base - 1
    BY <1>2, ValueOfDigits
  <1>4. PICK z \in Seq(Nat) : z = Zeros(Width) /\ Len(z) = Width /\ \A i \in 1 .. Width : z[i] = 0
    <2>1. PICK z : z = Zeros(Width)
      OBVIOUS
    <2>2. z = [i \in 1 .. Width |-> z[i]] /\ \A i \in 1 .. Width : z[i] = 0
      BY <2>1 DEF Zeros
    <2>3. z \in Seq(Nat) /\ Len(z) = Width
      BY <1>1, <2>2, OfBytes
    <2>4. QED
      BY <2>1, <2>2, <2>3
  <1>5. PICK g : g = SubSeq(t, r + 1, r + k)
    OBVIOUS
  <1>6. g \in Seq(Nat) /\ Len(g) = k /\ \A i \in 1 .. k : g[i] = t[r + i]
    <2>1. PICK a, b : a = r + 1 /\ b = r + k
      OBVIOUS
    <2>2. /\ SubSeq(t, a, b) \in Seq(Nat) /\ Len(SubSeq(t, a, b)) = k
          /\ \A i \in 1 .. k : SubSeq(t, a, b)[i] = t[r + i]
      <3>1. r \in Nat /\ k \in Nat /\ r + k <= Len(t)
        BY <1>1, <1>2
      <3>2. QED
        BY ONLY <2>1, <3>1, t \in Seq(Nat), CutOut
    <2>3. QED
      BY <1>5, <2>1, <2>2
  <1>7. PICK w \in Nat : w = Width - k /\ k + w = Width
    BY <1>1
  <1>8. PICK e : e = SubSeq(z, k + 1, k + w)
    OBVIOUS
  <1>9. e \in Seq(Nat) /\ Len(e) = w /\ \A i \in 1 .. w : e[i] = z[k + i]
    <2>1. PICK a, b : a = k + 1 /\ b = k + w
      OBVIOUS
    <2>2. /\ SubSeq(z, a, b) \in Seq(Nat) /\ Len(SubSeq(z, a, b)) = w
          /\ \A i \in 1 .. w : SubSeq(z, a, b)[i] = z[k + i]
      <3>1. k \in Nat /\ k + w <= Len(z)
        BY <1>1, <1>4, <1>7
      <3>2. QED
        BY ONLY <2>1, <3>1, w \in Nat, z \in Seq(Nat), CutOut
    <2>3. QED
      BY <1>8, <2>1, <2>2
  <1>10. Len(e) = Width - k /\ \A i \in 1 .. Width - k : e[i] = 0
    BY <1>1, <1>4, <1>7, <1>9
  <1>11. PICK d : d = g \o e /\ Joins(d, g, e)
    BY <1>6, <1>9, Joined
  <1>12. /\ d \in Seq(Nat) /\ Len(d) = Len(g) + Len(e)
         /\ \A i \in 1 .. Len(g) : d[i] = g[i]
         /\ \A i \in 1 .. Len(e) : d[Len(g) + i] = e[i]
    BY <1>11 DEF Joins
  <1>13. d = Overlay(Zeros(Width), SubSeq(Stream, r + 1, r + k))
    BY <1>2, <1>4, <1>5, <1>6, <1>7, <1>8, <1>11 DEF Overlay
  <1>14. /\ DOMAIN d = 1 .. Width
         /\ \A i \in 1 .. k : d[i] = t[r + i]
         /\ \A i \in k + 1 .. Width : d[i] = 0
    <2>1. Len(d) = Width /\ DOMAIN d = 1 .. Len(d)
      BY <1>1, <1>6, <1>10, <1>12, LenProperties
    <2>2. \A i \in 1 .. k : d[i] = t[r + i]
      BY <1>6, <1>12
    <2>3. ASSUME NEW i \in k + 1 .. Width
          PROVE  d[i] = 0
      <3>1. PICK j \in 1 .. Width - k : i = k + j
        BY <1>1
      <3>2. d[k + j] = e[j]
        BY <1>6, <1>10, <1>12
      <3>3. QED
        BY <1>10, <3>1, <3>2
    <2>4. QED
      BY <2>1, <2>2, <2>3
  <1>15. ASSUME NEW i \in 1 .. Width
         PROVE  d[i] \in 0 .. Base - 1
    <2>1. CASE i > k
      BY <1>1, <1>14, <2>1
    <2>2. CASE i <= k
      <3>1. d[i] = t[r + i]
        BY <1>14, <2>2
      <3>2. CASE r + i = 1
        BY <1>1, <1>2, <3>1, <3>2
      <3>3. CASE r + i # 1
        <4>1. PICK j \in 1 .. Width : r + i = 1 + j
          BY <1>1, <3>3
        <4>2. QED
          BY <1>2, <1>3, <3>1, <4>1
      <3>4. QED
        BY <3>2, <3>3
    <2>3. QED
      BY <2>1, <2>2
  <1>16. Value(d) \in 0 .. Power[Width] - 1
    <2>1. Width \in 0 .. Width
      BY <1>1
    <2>2. QED
      BY <1>14, <1>15, <2>1, ValueBound
  <1>17. ASSUME r = 1, k = Width
         PROVE  Value(d) = Announced
    <2>1. \A i \in 1 .. Width : d[i] = Digits(n)[i]
      BY <1>2, <1>14, <1>17
    <2>2. d = Digits(n)
      <3>1. d = [i \in 1 .. Width |-> d[i]]
        <4>1. d \in [1 .. Len(d) -> Nat]
          BY <1>12, LenProperties
        <4>2. QED
          BY <1>14, <4>1
      <3>2. Digits(n) = [i \in 1 .. Width |-> Digits(n)[i]]
        BY DEF Digits
      <3>3. QED
        BY <2>1, <3>1, <3>2
    <2>3. QED
      BY <1>2, <2>2, ValueOfDigits
  <1>18. QED
    BY <1>13, <1>16, <1>17

-----------------------------------------------------------------------------
(* The types.                                                              *)

\* Before recv has the size it has read no more than the type.
Reading == (rpc = "type" => read = 0) /\ (rpc = "size" => read \in 0 .. 1)

\* The stream has at least its type and one digit, and does not change.
LEMMA StreamKept ==
    ASSUME TypeOK
    PROVE  /\ Len(Stream) \in Nat /\ Len(Stream) >= 1 + Width
           /\ Width \in Nat /\ Width >= 1 /\ Buf \in Nat /\ Buf >= 1
           /\ written \in Nat /\ written <= Len(Stream) /\ read \in Nat /\ read <= written
           /\ start \in Nat /\ start <= read
           /\ UNCHANGED frame => Stream' = Stream /\ Announced' = Announced
  <1>1. Width \in Nat /\ Width >= 1 /\ Buf \in Nat /\ Buf >= 1
    BY CodecAssumption, TransferAssumption
  <1>2. frame.data \in Seq(Nat) /\ Len(Stream) = 1 + Width + Len(frame.data)
    BY StreamIs DEF TypeOK
  <1>3. Len(frame.data) \in Nat
    BY <1>2, LenProperties
  <1>4. Len(Stream) \in Nat /\ Len(Stream) >= 1 + Width
    <2>1. PICK n \in Nat : n = Len(frame.data)
      BY <1>3
    <2>2. Len(Stream) = 1 + Width + n
      BY <1>2, <2>1
    <2>3. QED
      BY ONLY <1>1, <2>2, n \in Nat
  <1>5. /\ written \in Nat /\ written <= Len(Stream) /\ read \in Nat /\ read <= written
        /\ start \in Nat /\ start <= read
    BY <1>4 DEF TypeOK
  <1>6. UNCHANGED frame => Announced' = Announced
    BY DEF Announced, Announces
  <1>7. UNCHANGED frame => Stream' = Stream
    BY <1>6 DEF Stream, OfFile
  <1>8. QED
    BY <1>1, <1>4, <1>5, <1>6, <1>7

\* The sender writes no more than there is.
LEMMA WriteBound ==
    ASSUME TypeOK, written < Len(Stream)
    PROVE  NextWrite \in written + 1 .. Len(Stream)
  <1>1. PICK l \in Nat : l = Len(Stream) /\ l >= 1 + Width
    BY StreamKept
  <1>2. QED
    BY <1>1, StreamKept DEF NextWrite, Least

LEMMA SenderTypes ==
    ASSUME TypeOK, Reading, Send \/ Close \/ Stop
    PROVE  TypeOK' /\ Reading'
  <1>1. UNCHANGED <<frame, read, rpc, type, size, start>>
    BY DEF Send, Write, Finish, Close, Stop, receiver
  <1>2. PICK l \in Nat : l = Len(Stream) /\ Len(Stream') = l
    BY <1>1, StreamKept
  <1>3. written' \in read .. l
    <2>1. CASE Write
      BY <1>2, <2>1, StreamKept, WriteBound DEF Write
    <2>2. CASE Finish \/ Close
      BY <1>2, <2>2, StreamKept DEF Finish, Close, sender
    <2>3. CASE Stop
      <3>1. CASE written' \in read .. written
        BY <1>2, <3>1, StreamKept
      <3>2. CASE written' \in written .. (IF written < Len(Stream) THEN NextWrite - 1
                                                                 ELSE written)
        BY <1>2, <3>2, StreamKept, WriteBound
      <3>3. QED
        BY <2>3, <3>1, <3>2 DEF Stop
    <2>4. QED
      BY <2>1, <2>2, <2>3 DEF Send
  <1>4. /\ spc' \in {"sends", "sent", "stopped"} /\ end' \in {"open", "eof", "error"}
        /\ fault' \in BOOLEAN /\ (spc' = "sends" => end' = "open")
    BY DEF TypeOK, Send, Write, Finish, Close, Stop, receiver
  <1>5. read \in 0 .. written' /\ written' \in 0 .. l
    BY <1>2, <1>3, StreamKept
  <1>6. QED
    BY <1>1, <1>2, <1>4, <1>5 DEF TypeOK, Reading

LEMMA ReceiverTypes ==
    ASSUME TypeOK, Reading, Recv
    PROVE  TypeOK' /\ Reading'
  <1>1. UNCHANGED <<frame, written, spc, end>>
    BY DEF Recv, ReadType, ReadSize, ReadBody, Return, sender
  <1>2. Stream' = Stream /\ 0 \in 0 .. Power[Width] - 1
    BY <1>1, StreamKept, PowerIs, CodecAssumption
  <1>3. CASE ReadType
    <2>1. read = 0 /\ read' \in 0 .. 1 /\ read' \in 0 .. written
      BY <1>3, StreamKept DEF ReadType, Reading, Reads, ReadsEnd, ReadFails
    <2>2. type' \in {0, 1} /\ fault' \in BOOLEAN
      <3>1. Stream[1] \in {0, 1}
        BY StreamIs DEF TypeOK
      <3>2. type' = type \/ (read' = 1 /\ type' = Stream[read'])
        BY <1>3, <2>1 DEF ReadType, Reads
      <3>3. QED
        BY <1>3, <3>1, <3>2 DEF ReadType, TypeOK
    <2>3. rpc' = "size" /\ UNCHANGED <<size, start>> /\ start = 0
      BY <1>3, <2>1, StreamKept DEF ReadType
    <2>4. start' \in 0 .. read'
      BY <2>1, <2>3
    <2>5. QED
      BY <1>1, <1>2, <2>1, <2>2, <2>3, <2>4 DEF TypeOK, Reading
  <1>4. CASE ReadSize
    <2>1. rpc' = "body" /\ start' = read' /\ UNCHANGED type /\ read \in 0 .. 1
      BY <1>4 DEF ReadSize, Reading
    <2>2. /\ read' \in 0 .. written /\ read' <= Width + 1
          /\ size' \in 0 .. Power[Width] - 1 /\ fault' \in BOOLEAN
      <3>1. ASSUME NEW k \in 1 .. Width, Reads(Width, k),
                   size' = Value(Overlay(Zeros(Width), SubSeq(Stream, read + 1, read'))),
                   fault' = (fault \/ k < Width)
            PROVE  /\ read' \in 0 .. written /\ read' <= Width + 1
                   /\ size' \in 0 .. Power[Width] - 1 /\ fault' \in BOOLEAN
        <4>1. read' = read + k /\ read + k <= written
          BY <3>1 DEF Reads
        <4>2. read + k <= Len(Stream)
          BY <4>1, StreamKept
        <4>3. size' \in 0 .. Power[Width] - 1
          BY <2>1, <3>1, <4>1, <4>2, SizeIs DEF TypeOK
        <4>4. QED
          BY <2>1, <3>1, <4>1, <4>3, StreamKept DEF TypeOK
      <3>2. CASE UNCHANGED read /\ size' = 0 /\ fault' \in {fault, TRUE}
        <4>1. read \in 0 .. written /\ fault \in BOOLEAN
          BY DEF TypeOK
        <4>2. Width \in Nat
          BY StreamKept
        <4>3. fault' \in BOOLEAN
          BY <3>2, <4>1
        <4>4. read' \in 0 .. written /\ read' <= Width + 1
          BY ONLY <2>1, <3>2, <4>1, <4>2
        <4>5. QED
          BY <1>2, <3>2, <4>3, <4>4
      <3>3. QED
        BY <1>4, <3>1, <3>2 DEF ReadSize, ReadsEnd, ReadFails
    <2>3. start' \in 0 .. read'
      BY <2>1, <2>2, StreamKept
    <2>4. QED
      BY <1>1, <1>2, <2>1, <2>2, <2>3 DEF TypeOK, Reading
  <1>5. CASE ReadBody
    <2>1. /\ rpc = "body" /\ rpc' \in {"body", "done"} /\ UNCHANGED <<type, size, start>>
          /\ fault' \in BOOLEAN
      BY <1>5 DEF ReadBody, TypeOK
    <2>2. read' \in read .. written
      <3>1. ASSUME NEW k \in 1 .. Buf, Reads(Buf, k)
            PROVE  read' \in read .. written
        BY <3>1, StreamKept DEF Reads
      <3>2. CASE UNCHANGED read
        BY <3>2, StreamKept
      <3>3. QED
        BY <1>5, <3>1, <3>2 DEF ReadBody, ReadsEnd, ReadFails
    <2>3. read' \in 0 .. written /\ start \in 0 .. read'
      BY <2>2, StreamKept
    <2>4. QED
      BY <1>1, <1>2, <2>1, <2>3 DEF TypeOK, Reading
  <1>6. CASE Return
    BY <1>1, <1>2, <1>6 DEF Return, TypeOK, Reading
  <1>7. QED
    BY <1>3, <1>4, <1>5, <1>6 DEF Recv

LEMMA InitTypes == Init => TypeOK /\ Reading
  <1>1. ASSUME Init
        PROVE  TypeOK /\ Reading
    <2>1. Len(Stream) \in Nat
      <3>1. frame.data \in Seq(Nat) /\ Len(Stream) = 1 + Width + Len(frame.data)
        BY <1>1, StreamIs DEF Init
      <3>2. Len(frame.data) \in Nat /\ Width \in Nat
        BY <3>1, LenProperties, CodecAssumption
      <3>3. PICK n \in Nat : n = Len(frame.data)
        BY <3>2
      <3>4. Len(Stream) = 1 + Width + n /\ Width \in Nat
        BY <3>1, <3>2, <3>3
      <3>5. QED
        BY ONLY <3>4, n \in Nat
    <2>2. 0 \in 0 .. Len(Stream) /\ 0 \in 0 .. Power[Width] - 1
      BY <2>1, PowerIs, CodecAssumption
    <2>3. /\ frame \in Frames
          /\ written = 0 /\ spc = "sends" /\ end = "open"
          /\ read = 0 /\ rpc = "type" /\ type = 0 /\ size = 0 /\ start = 0
          /\ fault = FALSE
      BY <1>1 DEF Init
    <2>4. read \in 0 .. written /\ start \in 0 .. read
      BY <2>3
    <2>5. written \in 0 .. Len(Stream) /\ size \in 0 .. Power[Width] - 1
      BY <2>2, <2>3
    <2>6. Reading
      BY <2>3 DEF Reading
    <2>7. QED
      BY <2>3, <2>4, <2>5, <2>6 DEF TypeOK
  <1>2. QED
    BY <1>1

LEMMA TypesKept == TypeOK /\ Reading /\ [Next]_vars => (TypeOK /\ Reading)'
  <1>1. ASSUME TypeOK, Reading, UNCHANGED vars
        PROVE  TypeOK' /\ Reading'
    <2>1. Stream' = Stream
      BY <1>1, StreamKept DEF vars
    <2>2. QED
      BY <1>1, <2>1 DEF vars, sender, receiver, TypeOK, Reading
  <1>2. QED
    BY <1>1, SenderTypes, ReceiverTypes DEF Next

\* Transfer's variables have their types: the reader is never ahead of the writer,
\* nor the writer of the stream, and what recv takes for a size is a length,
\* whichever bytes it had (tcp_client.cc).
THEOREM TransferTypeCorrect == Spec => []TypeOK
  <1>1. Init => TypeOK /\ Reading
    BY InitTypes
  <1>2. TypeOK /\ Reading /\ [Next]_vars => (TypeOK /\ Reading)'
    BY TypesKept
  <1>3. QED
    BY <1>1, <1>2, PTL DEF Spec

-----------------------------------------------------------------------------
(* What is received.                                                       *)

\* As long as nothing is lost, late or short, the stream ends after its last byte
\* only, and recv has the right type and size by the time it needs them.
Clean ==
    ~fault =>
      /\ end # "error" /\ spc # "stopped"
      /\ end = "eof" => spc = "sent"
      /\ spc = "sent" => written = Len(Stream) /\ frame.kind # "missing"
      /\ rpc = "size" => read = 1 /\ type = Stream[1]
      /\ rpc \in {"body", "done"} =>
            start = Width + 1 /\ size = Announced /\ type = Stream[1]
      /\ rpc = "done" => read - start >= size

\* While recv reads the type and the size the stream does not end.
LEMMA NoEarlyEnd ==
    ASSUME TypeOK, Reading, Clean, ~fault, rpc \in {"type", "size"}
    PROVE  ~ReadsEnd
  <1>1. ASSUME ReadsEnd
        PROVE  FALSE
    <2>1. read = written /\ written = Len(Stream)
      BY <1>1 DEF ReadsEnd, Clean
    <2>2. read \in 0 .. 1
      BY DEF Reading
    <2>3. Len(Stream) \in Nat /\ Len(Stream) >= 2
      BY StreamKept
    <2>4. QED
      BY <2>1, <2>2, <2>3
  <1>2. QED
    BY <1>1

LEMMA SenderClean ==
    ASSUME TypeOK, Clean, Send \/ Close \/ Stop
    PROVE  Clean'
  <1>1. UNCHANGED <<frame, read, rpc, type, size, start>>
    BY DEF Send, Write, Finish, Close, Stop, receiver
  <1>2. Stream' = Stream /\ Announced' = Announced
    BY <1>1, StreamKept
  <1>3. CASE Write
    BY <1>1, <1>2, <1>3 DEF Write, Clean
  <1>4. CASE Finish
    BY <1>1, <1>2, <1>4 DEF Finish, Clean
  <1>5. CASE Close
    BY <1>1, <1>2, <1>5 DEF Close, sender, Clean
  <1>6. CASE Stop
    BY <1>6 DEF Stop, Clean
  <1>7. QED
    BY <1>3, <1>4, <1>5, <1>6 DEF Send

LEMMA ReceiverClean ==
    ASSUME TypeOK, Reading, Clean, Recv
    PROVE  Clean'
  <1>1. UNCHANGED <<frame, written, spc, end>>
    BY DEF Recv, ReadType, ReadSize, ReadBody, Return, sender
  <1>2. Stream' = Stream /\ Announced' = Announced
    BY <1>1, StreamKept
  <1>3. SUFFICES ASSUME ~fault'
                 PROVE  Clean'
    BY DEF Clean
  <1>4. ~fault
    BY <1>3 DEF Recv, ReadType, ReadSize, ReadBody, Return, TypeOK
  <1>5. /\ end' # "error" /\ spc' # "stopped" /\ (end' = "eof" => spc' = "sent")
        /\ spc' = "sent" => written' = Len(Stream') /\ frame'.kind # "missing"
    BY <1>1, <1>2, <1>4 DEF Clean
  <1>6. CASE ReadType
    <2>1. read = 0 /\ rpc' = "size" /\ ~ReadsEnd
      BY <1>4, <1>6, NoEarlyEnd DEF ReadType, Reading
    <2>2. Reads(1, 1) /\ type' = Stream[read']
      BY <1>3, <1>6, <2>1 DEF ReadType
    <2>3. read' = 1 /\ type' = Stream[1]
      BY <2>1, <2>2 DEF Reads
    <2>4. QED
      BY <1>2, <1>5, <2>1, <2>3 DEF Clean
  <1>7. CASE ReadSize
    <2>1. /\ read = 1 /\ type = Stream[1] /\ rpc' = "body" /\ start' = read' /\ type' = type
          /\ ~ReadsEnd
      BY <1>4, <1>7, NoEarlyEnd DEF ReadSize, Clean
    <2>2. PICK k \in 1 .. Width :
             /\ Reads(Width, k) /\ ~(k < Width)
             /\ size' = Value(Overlay(Zeros(Width), SubSeq(Stream, read + 1, read')))
      BY <1>3, <1>7, <2>1 DEF ReadSize
    <2>3. k = Width /\ read' = read + k /\ read + k <= written
      BY <2>2, StreamKept DEF Reads
    <2>4. read' = Width + 1 /\ read \in 0 .. 1 /\ read + k <= Len(Stream)
      BY <2>1, <2>3, StreamKept
    <2>5. size' = Announced
      BY <2>1, <2>2, <2>3, <2>4, SizeIs DEF TypeOK
    <2>6. QED
      BY <1>2, <1>5, <2>1, <2>4, <2>5 DEF Clean
  <1>8. CASE ReadBody
    <2>1. rpc = "body" /\ rpc' = "body" /\ UNCHANGED <<type, size, start>>
      BY <1>3, <1>8 DEF ReadBody
    <2>2. QED
      BY <1>2, <1>4, <1>5, <2>1 DEF Clean
  <1>9. CASE Return
    <2>1. /\ rpc = "body" /\ rpc' = "done" /\ ~(read - start < size)
          /\ UNCHANGED <<type, size, start, read>>
      BY <1>9 DEF Return, Wants
    <2>2. start = Width + 1 /\ size = Announced /\ type = Stream[1]
      BY <1>4, <2>1 DEF Clean
    <2>3. read \in Nat /\ start \in Nat /\ size \in Nat
      BY PowerIs DEF TypeOK
    <2>4. read - start >= size
      BY <2>1, <2>3
    <2>5. QED
      BY <1>2, <1>5, <2>1, <2>2, <2>4 DEF Clean
  <1>10. QED
    BY <1>6, <1>7, <1>8, <1>9 DEF Recv

\* A frame that is received to its end is one that is sent to its end: recv would
\* wait for ever for the file that is not there.
LEMMA NotMissing ==
    ASSUME TypeOK, Clean, rpc = "done", ~fault
    PROVE  frame.kind # "missing"
  <1>1. SUFFICES ASSUME frame.kind = "missing"
                 PROVE  FALSE
    OBVIOUS
  <1>2. start = Width + 1 /\ size = Announced /\ read - start >= size
    BY DEF Clean
  <1>3. PICK w \in Nat, r \in Nat, z \in Nat :
           /\ w = Width /\ r = read /\ z = written /\ r <= z /\ z <= Len(Stream)
    BY StreamKept
  <1>4. Len(Stream) = 1 + w
    <2>1. frame.data = <<>> /\ Len(Stream) = 1 + Width + Len(frame.data)
      BY <1>1, StreamIs DEF TypeOK
    <2>2. Len(Stream) = 1 + Width + 0
      BY <2>1
    <2>3. QED
      BY <1>3, <2>2
  <1>5. Announced = Power[Width] - 1
    BY <1>1 DEF Announced, Announces
  <1>6. Power[Width] >= 2
    <2>1. Width \in 1 .. Width /\ Width - 1 \in 0 .. Width
      BY CodecAssumption
    <2>2. PICK p \in Nat \ {0} : p = Power[Width - 1] /\ Power[Width] = Base * p
      BY <2>1, PowerIs
    <2>3. PICK b \in Nat : b = Base /\ b >= 2
      BY CodecAssumption
    <2>4. b * p >= 2
      BY <2>3
    <2>5. QED
      BY <2>2, <2>3, <2>4
  <1>7. Power[Width] \in Nat
    BY PowerIs, CodecAssumption
  <1>8. PICK q \in Nat : q = Power[Width] /\ q >= 2
    BY <1>6, <1>7
  <1>9. r - (w + 1) >= q - 1 /\ r <= 1 + w
    <2>1. r <= 1 + w
      BY <1>3, <1>4
    <2>2. r - (w + 1) >= q - 1
      BY <1>2, <1>3, <1>5, <1>8
    <2>3. QED
      BY <2>1, <2>2
  <1>10. QED
    BY ONLY <1>8, <1>9, w \in Nat, r \in Nat, q \in Nat

LEMMA WholeIfClean ==
    ASSUME TypeOK, Clean
    PROVE  WholeWhenClean
  <1>1. SUFFICES ASSUME rpc = "done", ~fault
                 PROVE  type = Stream[1] /\ Got = frame.data
    BY DEF WholeWhenClean
  <1>2. start = Width + 1 /\ size = Announced /\ type = Stream[1] /\ read - start >= size
    BY <1>1 DEF Clean
  <1>3. PICK d \in Seq(Nat), n \in Nat : d = frame.data /\ n = Len(d)
    BY StreamIs, LenProperties DEF TypeOK
  <1>4. PICK w \in Nat : w = 1 + Width /\ w = Width + 1
    BY StreamKept
  <1>5. PICK t \in Seq(Nat) : t = Stream
    BY StreamIs DEF TypeOK
  <1>6. Len(t) = w + n /\ \A i \in 1 .. n : t[w + i] = d[i]
    <2>1. /\ Len(Stream) = 1 + Width + Len(frame.data)
          /\ \A i \in 1 .. Len(frame.data) : Stream[1 + Width + i] = frame.data[i]
      BY StreamIs DEF TypeOK
    <2>2. QED
      BY ONLY <1>3, <1>4, <1>5, <2>1
  <1>7. read \in Nat /\ read <= w + n /\ read - w >= Announced
    BY <1>2, <1>4, <1>5, <1>6, StreamKept
  <1>8. frame.kind # "missing"
    BY <1>1, NotMissing
  <1>9. read = w + n
    <2>1. Announced = n
      BY <1>3, <1>8, StreamIs DEF TypeOK
    <2>2. QED
      BY <1>7, <2>1
  <1>10. Got = SubSeq(t, w + 1, w + n)
    BY <1>2, <1>4, <1>5, <1>9 DEF Got
  <1>11. Got = d
    <2>1. PICK a, b : a = w + 1 /\ b = w + n
      OBVIOUS
    <2>2. w + n <= Len(t)
      BY <1>6
    <2>3. /\ SubSeq(t, a, b) \in Seq(Nat) /\ Len(SubSeq(t, a, b)) = n
          /\ \A i \in 1 .. n : SubSeq(t, a, b)[i] = t[w + i]
      BY ONLY <2>1, <2>2, t \in Seq(Nat), w \in Nat, n \in Nat, CutOut
    <2>4. PICK g \in Seq(Nat) : g = SubSeq(t, a, b)
      BY <2>3
    <2>5. Len(g) = Len(d) /\ \A i \in 1 .. Len(g) : g[i] = d[i]
      BY <1>3, <1>6, <2>3, <2>4
    <2>6. g = d
      BY ONLY <2>5, g \in Seq(Nat), d \in Seq(Nat), SeqEqual
    <2>7. QED
      BY <1>10, <2>1, <2>4, <2>6
  <1>12. QED
    BY <1>2, <1>3, <1>11

LEMMA CleanAlways == Spec => [](TypeOK /\ Clean)
  <1>1. Init => Clean
    BY DEF Init, Clean
  <1>2. Init => TypeOK /\ Reading
    BY InitTypes
  <1>3. TypeOK /\ Reading /\ Clean /\ [Next]_vars => (TypeOK /\ Reading /\ Clean)'
    <2>1. ASSUME TypeOK, Clean, UNCHANGED vars
          PROVE  Clean'
      <3>1. Stream' = Stream /\ Announced' = Announced
        BY <2>1, StreamKept DEF vars
      <3>2. QED
        BY <2>1, <3>1 DEF vars, sender, receiver, Clean
    <2>2. QED
      BY <2>1, TypesKept, SenderClean, ReceiverClean DEF Next
  <1>4. QED
    BY <1>1, <1>2, <1>3, PTL DEF Spec

\* With no fault recv returns the type and all the bytes that were sent, in whatever
\* parts they came: send and recv agree on where the payload begins, and on the
\* size, which goes through its digits and back (tcp_client.cc).
THEOREM CleanTransferIsWhole == Spec => []WholeWhenClean
  <1>1. TypeOK /\ Clean => WholeWhenClean
    BY WholeIfClean
  <1>2. QED
    BY <1>1, CleanAlways, PTL

-----------------------------------------------------------------------------
(* The bytes of a length, first and last.                                  *)

\* One more digit.
LEMMA OneMoreDigit ==
    ASSUME NEW p \in Nat, NEW x \in Nat, x <= p - 1, NEW y \in 0 .. Base - 1
    PROVE  x * Base + y \in Nat /\ x * Base + y <= Base * p - 1
  <1>1. Base \in Nat
    BY CodecAssumption
  <1>2. PICK z \in Nat : z = p - 1
    OBVIOUS
  <1>3. x * Base <= z * Base
    BY ONLY <1>1, <1>2, x <= p - 1, x \in Nat, z \in Nat, p \in Nat
  <1>4. z * Base = Base * p - Base
    BY <1>1, <1>2
  <1>5. PICK u \in Nat, c \in Nat, b \in Nat :
           u = x * Base /\ c = Base * p /\ b = Base
    BY <1>1
  <1>6. u <= c - b /\ y \in Nat /\ y <= b - 1
    BY <1>1, <1>3, <1>4, <1>5
  <1>7. u + y \in Nat /\ u + y <= c - 1
    BY ONLY <1>6, u \in Nat, c \in Nat, b \in Nat
  <1>8. QED
    BY <1>5, <1>7

\* A length without its first digit is worth what the others can be.
LEMMA FirstDigit ==
    ASSUME NEW d, DOMAIN d = 1 .. Width, \A i \in 1 .. Width : d[i] \in 0 .. Base - 1,
           d[1] = 0
    PROVE  ~TooLarge(Value(d))
  <1>1. Width \in Nat /\ Width >= 1 /\ Base \in Nat
    BY CodecAssumption
  <1>2. PICK v : Worth(v, d, Width) /\ Value(d) = v[Width]
    BY <1>1, ValueIs
  <1> DEFINE S == {k \in Nat : k + 1 <= Width => v[k + 1] \in Nat /\ v[k + 1] <= Power[k] - 1}
  <1>3. 0 \in S
    <2>1. v[1] = v[0] * Base + d[1] /\ v[0] = 0
      BY <1>1, <1>2 DEF Worth
    <2>2. v[1] = 0
      BY <1>1, <2>1
    <2>3. QED
      BY <2>2, PowerIs
  <1>4. ASSUME NEW k \in Nat, k \in S
        PROVE  k + 1 \in S
    <2>1. SUFFICES ASSUME k + 2 <= Width
                   PROVE  v[k + 2] \in Nat /\ v[k + 2] <= Power[k + 1] - 1
      BY <1>4
    <2>2. k + 1 \in 1 .. Width /\ (k + 1) - 1 = k /\ k \in 0 .. Width
          /\ k + 2 \in 1 .. Width /\ (k + 2) - 1 = k + 1
      BY <1>1, <2>1
    <2>3. PICK p \in Nat : p = Power[k] /\ Power[k + 1] = Base * p
      BY <2>2, PowerIs
    <2>4. PICK x \in Nat : x = v[k + 1] /\ x <= p - 1
      BY <1>1, <1>4, <2>1, <2>3
    <2>5. PICK y \in 0 .. Base - 1 : y = d[k + 2]
      BY <2>2
    <2>6. v[k + 2] = x * Base + y
      BY <1>2, <2>2, <2>4, <2>5 DEF Worth
    <2>7. x * Base + y \in Nat /\ x * Base + y <= Base * p - 1
      BY <2>4, OneMoreDigit
    <2>8. QED
      BY <2>3, <2>6, <2>7
  <1>5. \A k \in Nat : k \in S
    <2> HIDE DEF S
    <2>1. QED
      BY <1>3, <1>4, Induction
  <1>6. PICK k \in Nat : k = Width - 1 /\ k + 1 = Width
    BY <1>1
  <1>7. v[Width] \in Nat /\ v[Width] <= Power[k] - 1
    BY <1>5, <1>6
  <1>8. Power[k] \in Nat
    BY <1>6, PowerIs
  <1>9. QED
    BY <1>2, <1>6, <1>7, <1>8 DEF TooLarge

\* The last digit of what digits are worth is the last of them.
LEMMA LastDigit ==
    ASSUME NEW d, DOMAIN d = 1 .. Width, \A i \in 1 .. Width : d[i] \in 0 .. Base - 1,
           d[Width] = 0
    PROVE  Value(d) % Base = 0
  <1>1. Width \in Nat /\ Width >= 1 /\ Base \in Nat /\ Base > 0
    BY CodecAssumption
  <1>2. PICK v : Worth(v, d, Width) /\ Value(d) = v[Width]
    BY <1>1, ValueIs
  <1> DEFINE S == {k \in Nat : k <= Width => v[k] \in Nat}
  <1>3. 0 \in S
    BY <1>2 DEF Worth
  <1>4. ASSUME NEW k \in Nat, k \in S
        PROVE  k + 1 \in S
    <2>1. SUFFICES ASSUME k + 1 <= Width
                   PROVE  v[k + 1] \in Nat
      BY <1>4
    <2>2. k + 1 \in 1 .. Width /\ (k + 1) - 1 = k
      BY <1>1, <2>1
    <2>3. PICK x \in Nat, y \in Nat : x = v[k] /\ y = d[k + 1]
      BY <1>1, <1>4, <2>1, <2>2
    <2>4. v[k + 1] = x * Base + y
      BY <1>2, <2>2, <2>3 DEF Worth
    <2>5. QED
      BY <1>1, <2>4
  <1>5. \A k \in Nat : k \in S
    <2> HIDE DEF S
    <2>1. QED
      BY <1>3, <1>4, Induction
  <1>6. PICK x \in Nat : x = v[Width - 1]
    BY <1>1, <1>5
  <1>7. Value(d) = x * Base
    <2>1. v[Width] = x * Base + d[Width]
      BY <1>1, <1>2, <1>6 DEF Worth
    <2>2. QED
      BY <1>1, <1>2, <2>1
  <1>8. (x * Base) % Base = 0
    <2>1. PICK n \in Nat : n = x * Base
      BY <1>1
    <2>2. PICK q \in Nat, r \in 0 .. Base - 1 : n = Base * q + r /\ r = n % Base
      BY ONLY <1>1, n \in Nat
    <2>3. CASE x <= q
      <3>1. x * Base <= q * Base
        BY ONLY <1>1, <2>3, x \in Nat, q \in Nat
      <3>2. Base * q = q * Base
        BY <1>1
      <3>3. PICK u \in Nat, w \in Nat : u = x * Base /\ w = q * Base
        BY <1>1
      <3>4. u <= w /\ u = w + r
        BY <2>1, <2>2, <3>1, <3>2, <3>3
      <3>5. r = 0
        BY ONLY <3>4, <1>1, r \in 0 .. Base - 1, u \in Nat, w \in Nat
      <3>6. QED
        BY <2>1, <2>2, <3>5
    <2>4. CASE x >= q + 1
      <3>1. x * Base >= (q + 1) * Base
        BY ONLY <1>1, <2>4, x \in Nat, q \in Nat
      <3>2. (q + 1) * Base = q * Base + Base /\ Base * q = q * Base
        BY <1>1
      <3>3. PICK u \in Nat, w \in Nat : u = x * Base /\ w = q * Base
        BY <1>1
      <3>4. u >= w + Base /\ u = w + r
        BY <2>1, <2>2, <3>1, <3>2, <3>3
      <3>5. FALSE
        BY ONLY <3>4, <1>1, r \in 0 .. Base - 1, u \in Nat, w \in Nat
      <3>6. QED
        BY <3>5
    <2>5. QED
      BY <2>3, <2>4
  <1>9. QED
    BY <1>7, <1>8

\* The digits of a length at its ends.
LEMMA EndDigits ==
    ASSUME NEW n \in Nat, n < Power[Width]
    PROVE  /\ ~TooLarge(n) => Digits(n)[1] = 0
           /\ n % Base = 0 => Digits(n)[Width] = 0
  <1>1. Width \in Nat /\ Width >= 1 /\ Base \in Nat /\ Base > 0
    BY CodecAssumption
  <1>2. /\ Digits(n)[1] = (n \div Power[Width - 1]) % Base
        /\ Digits(n)[Width] = (n \div Power[Width - Width]) % Base
    BY <1>1 DEF Digits
  <1>3. ASSUME ~TooLarge(n)
        PROVE  Digits(n)[1] = 0
    <2>1. PICK p \in Nat \ {0} : p = Power[Width - 1]
      BY <1>1, PowerIs
    <2>2. n < p
      BY <1>3, <2>1 DEF TooLarge
    <2>3. n \div p = 0
      BY <2>2
    <2>4. 0 % Base = 0
      BY <1>1
    <2>5. QED
      BY <1>2, <2>1, <2>3, <2>4
  <1>4. Power[Width - Width] = 1
    BY <1>1, PowerIs
  <1>5. n \div 1 = n
    OBVIOUS
  <1>6. QED
    BY <1>2, <1>3, <1>4, <1>5

\* A length that is not too large is one.
LEMMA NotTooLarge ==
    ASSUME NEW n \in Nat, ~TooLarge(n)
    PROVE  n < Power[Width]
  <1>1. Width \in Nat /\ Width >= 1 /\ Base \in Nat /\ Base >= 1
    BY CodecAssumption
  <1>2. PICK p \in Nat : p = Power[Width - 1] /\ Power[Width] = Base * p
    BY <1>1, PowerIs
  <1>3. n < p
    BY <1>2 DEF TooLarge
  <1>4. p <= Base * p
    BY <1>1
  <1>5. QED
    BY <1>1, <1>2, <1>3, <1>4

-----------------------------------------------------------------------------
(* What deserialize reads.                                                 *)

LEMMA ZerosAre ==
    ASSUME NEW n \in Nat
    PROVE  Zeros(n) \in Seq(Nat) /\ Len(Zeros(n)) = n /\ \A i \in 1 .. n : Zeros(n)[i] = 0
  <1>1. PICK z : z = Zeros(n)
    OBVIOUS
  <1>2. z = [i \in 1 .. n |-> z[i]] /\ \A i \in 1 .. n : z[i] = 0
    BY <1>1 DEF Zeros
  <1>3. z \in Seq(Nat) /\ Len(z) = n
    BY <1>2, OfBytes
  <1>4. QED
    BY <1>1, <1>2, <1>3

LEMMA ReverseIs ==
    ASSUME NEW s \in Seq(Nat)
    PROVE  /\ Reverse(s) \in Seq(Nat) /\ Len(Reverse(s)) = Len(s)
           /\ \A i \in 1 .. Len(s) : Reverse(s)[i] = s[Len(s) - i + 1]
  <1>1. PICK n \in Nat : n = Len(s) /\ \A i \in 1 .. n : s[i] \in Nat
    BY LenProperties, ElementOfSeq
  <1>2. PICK r : r = Reverse(s)
    OBVIOUS
  <1>3. r = [i \in 1 .. n |-> s[n - i + 1]]
    BY <1>1, <1>2 DEF Reverse
  <1>4. r = [i \in 1 .. n |-> r[i]] /\ \A i \in 1 .. n : r[i] = s[n - i + 1]
    BY <1>3
  <1>5. \A i \in 1 .. n : r[i] \in Nat
    <2>1. \A i \in 1 .. n : n - i + 1 \in 1 .. n
      OBVIOUS
    <2>2. QED
      BY <1>1, <1>4, <2>1
  <1>6. r \in Seq(Nat) /\ Len(r) = n
    BY <1>4, <1>5, OfBytes
  <1>7. QED
    BY <1>1, <1>2, <1>4, <1>6

LEMMA OverlayIs ==
    ASSUME NEW m \in Seq(Nat), NEW g \in Seq(Nat)
    PROVE  /\ Overlay(m, g) \in Seq(Nat)
           /\ Len(Overlay(m, g)) = IF Len(g) <= Len(m) THEN Len(m) ELSE Len(g)
           /\ \A i \in 1 .. Len(g) : Overlay(m, g)[i] = g[i]
           /\ \A i \in Len(g) + 1 .. Len(m) : Overlay(m, g)[i] = m[i]
  <1>1. PICK j \in Nat, k \in Nat : j = Len(g) /\ k = Len(m)
    BY LenProperties
  <1>2. CASE j <= k
    <2>1. PICK w \in Nat : j + w = k
      <3>1. k - j \in Nat /\ j + (k - j) = k
        BY <1>2
      <3>2. QED
        BY <3>1
    <2>2. PICK e : e = SubSeq(m, j + 1, k)
      OBVIOUS
    <2>3. e \in Seq(Nat) /\ Len(e) = w /\ \A i \in 1 .. w : e[i] = m[j + i]
      <3>1. PICK a, b : a = j + 1 /\ b = j + w
        OBVIOUS
      <3>2. j + w <= Len(m)
        BY <1>1, <2>1
      <3>3. /\ SubSeq(m, a, b) \in Seq(Nat) /\ Len(SubSeq(m, a, b)) = w
            /\ \A i \in 1 .. w : SubSeq(m, a, b)[i] = m[j + i]
        BY ONLY <3>1, <3>2, m \in Seq(Nat), j \in Nat, w \in Nat, CutOut
      <3>4. QED
        BY <2>1, <2>2, <3>1, <3>3
    <2>4. PICK d : d = g \o e /\ Joins(d, g, e)
      BY <2>3, Joined
    <2>5. d = Overlay(m, g)
      BY <1>1, <2>1, <2>2, <2>4 DEF Overlay
    <2>6. /\ d \in Seq(Nat) /\ Len(d) = j + w
          /\ \A i \in 1 .. j : d[i] = g[i]
          /\ \A i \in 1 .. w : d[j + i] = e[i]
      BY <1>1, <2>3, <2>4 DEF Joins
    <2>7. ASSUME NEW i \in j + 1 .. k
          PROVE  d[i] = m[i]
      <3>1. PICK x \in 1 .. w : i = j + x
        BY <2>1
      <3>2. QED
        BY <2>3, <2>6, <3>1
    <2>8. QED
      BY <1>1, <1>2, <2>1, <2>5, <2>6, <2>7
  <1>3. CASE j > k
    <2>1. SubSeq(m, j + 1, k) = <<>>
      BY <1>3, SubSeqEmpty
    <2>2. Overlay(m, g) = g
      BY <1>1, <2>1, ConcatEmptySeq DEF Overlay
    <2>3. QED
      BY <1>1, <1>3, <2>2
  <1>4. j <= k \/ j > k
    OBVIOUS
  <1>5. QED
    BY <1>2, <1>3, <1>4

LEMMA ReadIs ==
    ASSUME NEW file \in Seq(Nat), NEW at \in Nat, NEW n \in Nat
    PROVE  /\ Read(file, at, n) \in Seq(Nat)
           /\ Len(Read(file, at, n)) = IF at + n <= Len(file) THEN n
                                       ELSE IF at < Len(file) THEN Len(file) - at ELSE 0
           /\ \A i \in 1 .. Len(Read(file, at, n)) : Read(file, at, n)[i] = file[at + i]
  <1>1. PICK l \in Nat : l = Len(file)
    BY LenProperties
  <1>2. ASSUME NEW k \in Nat, at + k <= l,
               Read(file, at, n) = SubSeq(file, at + 1, at + k)
        PROVE  /\ Read(file, at, n) \in Seq(Nat) /\ Len(Read(file, at, n)) = k
               /\ \A i \in 1 .. k : Read(file, at, n)[i] = file[at + i]
    <2>1. PICK a, b : a = at + 1 /\ b = at + k
      OBVIOUS
    <2>2. /\ SubSeq(file, a, b) \in Seq(Nat) /\ Len(SubSeq(file, a, b)) = k
          /\ \A i \in 1 .. k : SubSeq(file, a, b)[i] = file[at + i]
      BY ONLY <1>1, <1>2, <2>1, file \in Seq(Nat), at \in Nat, k \in Nat, CutOut
    <2>3. QED
      BY <1>2, <2>1, <2>2
  <1>3. CASE at + n < l \/ at + n = l
    <2>1. Read(file, at, n) = SubSeq(file, at + 1, at + n) /\ at + n <= l
      BY <1>1, <1>3 DEF Read
    <2>2. QED
      BY <1>1, <1>2, <2>1
  <1>4. CASE ~(at + n <= l) /\ at < l
    <2>1. PICK k \in Nat : k = l - at
      BY <1>4
    <2>2. at + k = l
      BY <2>1
    <2>3. Read(file, at, n) = SubSeq(file, at + 1, at + k)
      BY <1>1, <1>4, <2>2 DEF Read
    <2>4. QED
      BY <1>1, <1>2, <1>4, <2>1, <2>2, <2>3
  <1>5. CASE ~(at + n <= l) /\ ~(at < l)
    <2>1. Read(file, at, n) = SubSeq(file, at + 1, l)
      BY <1>1, <1>5 DEF Read
    <2>2. SubSeq(file, at + 1, l) = <<>>
      BY <1>5, SubSeqEmpty
    <2>3. QED
      BY <1>1, <1>5, <2>1, <2>2
  <1>6. QED
    BY <1>1, <1>3, <1>4, <1>5

\* What deserialize takes for a length at some place, over what it had in memory.
LengthAt(file, at, memory) == Value(Overlay(memory, Read(file, at, Width)))

\* Bytes of memory that are digits.
Memory(m) ==
    m \in Seq(Nat) /\ Len(m) = Width /\ \A i \in 1 .. Width : m[i] \in 0 .. Base - 1

\* file has the digits of n there, as far as it goes.
Holds(file, at, n) ==
    \A i \in 1 .. Width : at + i <= Len(file) => file[at + i] = Digits(n)[i]

\* It is a length, if all of it is there the one that was written. Its first digit
\* is that of memory only when nothing of it is there, its last when not all is.
LEMMA LengthIs ==
    ASSUME NEW file \in Seq(Nat), NEW at \in Nat, NEW m, Memory(m),
           NEW n \in Nat, n < Power[Width], Holds(file, at, n)
    PROVE  /\ LengthAt(file, at, m) \in Nat /\ LengthAt(file, at, m) < Power[Width]
           /\ at + Width <= Len(file) => LengthAt(file, at, m) = n
           /\ at < Len(file) /\ ~TooLarge(n) => ~TooLarge(LengthAt(file, at, m))
           /\ ~(at < Len(file)) /\ m[1] = 0 => ~TooLarge(LengthAt(file, at, m))
           /\ ~(at + Width <= Len(file)) /\ m[Width] = 0
                => LengthAt(file, at, m) % Base = 0
  <1>1. Width \in Nat /\ Width >= 1 /\ Base \in Nat /\ Base > 0
    BY CodecAssumption
  <1>2. PICK l \in Nat : l = Len(file)
    BY LenProperties
  <1>3. PICK g : g = Read(file, at, Width)
    OBVIOUS
  <1>4. PICK k \in Nat : k = Len(g) /\ g \in Seq(Nat) /\ \A i \in 1 .. k : g[i] = file[at + i]
    <2>1. g \in Seq(Nat) /\ \A i \in 1 .. Len(g) : g[i] = file[at + i]
      BY <1>1, <1>3, ReadIs
    <2>2. Len(g) \in Nat
      BY <2>1, LenProperties
    <2>3. QED
      BY <2>1, <2>2
  <1>5. k = IF at + Width <= l THEN Width ELSE IF at < l THEN l - at ELSE 0
    BY <1>1, <1>2, <1>3, <1>4, ReadIs
  <1>6. k <= Width /\ \A i \in 1 .. k : at + i <= l /\ i \in 1 .. Width
    BY <1>1, <1>5
  <1>7. \A i \in 1 .. k : g[i] = Digits(n)[i]
    BY <1>2, <1>4, <1>6 DEF Holds
  <1>8. PICK d : d = Overlay(m, g)
    OBVIOUS
  <1>9. /\ d \in Seq(Nat) /\ Len(d) = Width
        /\ \A i \in 1 .. k : d[i] = Digits(n)[i]
        /\ \A i \in k + 1 .. Width : d[i] = m[i]
    <2>1. m \in Seq(Nat) /\ Len(m) = Width
      BY DEF Memory
    <2>2. QED
      BY <1>4, <1>6, <1>7, <1>8, <2>1, OverlayIs
  <1>10. /\ Digits(n) \in Seq(Nat) /\ Len(Digits(n)) = Width
         /\ \A i \in 1 .. Width : Digits(n)[i] \in 0 .. Base - 1
         /\ Value(Digits(n)) = n
    BY DigitsSeq, ValueOfDigits
  <1>11. DOMAIN d = 1 .. Width
    BY <1>9, LenProperties
  <1>12. ASSUME NEW i \in 1 .. Width
         PROVE  d[i] \in 0 .. Base - 1
    <2>1. CASE i <= k
      <3>1. i \in 1 .. k
        BY <2>1
      <3>2. d[i] = Digits(n)[i]
        BY <1>9, <3>1
      <3>3. QED
        BY <1>10, <3>2
    <2>2. CASE ~(i <= k)
      <3>1. i \in k + 1 .. Width
        BY <1>1, <2>2
      <3>2. QED
        BY <1>9, <3>1 DEF Memory
    <2>3. QED
      BY <2>1, <2>2
  <1>13. PICK v : v = Value(d) /\ v = LengthAt(file, at, m)
    BY <1>3, <1>8 DEF LengthAt
  <1>14. v \in Nat /\ v < Power[Width]
    <2>1. Width \in 0 .. Width
      BY <1>1
    <2>2. Value(d) \in 0 .. Power[Width] - 1
      BY <1>11, <1>12, <2>1, ValueBound
    <2>3. Power[Width] \in Nat
      BY <2>1, PowerIs
    <2>4. QED
      BY <1>13, <2>2, <2>3
  <1>15. ASSUME at + Width <= l
         PROVE  v = n
    <2>1. k = Width
      BY <1>5, <1>15
    <2>2. \A i \in 1 .. Width : d[i] = Digits(n)[i]
      BY <1>9, <2>1
    <2>3. d = Digits(n)
      BY <1>9, <1>10, <2>2, SeqEqual
    <2>4. QED
      BY <1>10, <1>13, <2>3
  <1>16. d[1] = 0 => ~TooLarge(v)
    BY <1>11, <1>12, <1>13, FirstDigit
  <1>17. ASSUME at < l, ~TooLarge(n)
         PROVE  ~TooLarge(v)
    <2>1. 1 \in 1 .. k
      BY <1>1, <1>5, <1>17
    <2>2. d[1] = Digits(n)[1]
      BY <1>9, <2>1
    <2>3. QED
      BY <1>16, <1>17, <2>2, EndDigits
  <1>18. ASSUME ~(at < l), m[1] = 0
         PROVE  ~TooLarge(v)
    <2>1. k = 0
      BY <1>1, <1>5, <1>18
    <2>2. 1 \in k + 1 .. Width
      BY <1>1, <2>1
    <2>3. QED
      BY <1>9, <1>16, <1>18, <2>2
  <1>19. ASSUME ~(at + Width <= l), m[Width] = 0
         PROVE  v % Base = 0
    <2>1. Width \in k + 1 .. Width
      BY <1>1, <1>5, <1>19
    <2>2. d[Width] = 0
      BY <1>9, <1>19, <2>1
    <2>3. QED
      BY <1>11, <1>12, <1>13, <2>2, LastDigit
  <1>20. QED
    BY <1>2, <1>13, <1>14, <1>15, <1>17, <1>18, <1>19

\* What deserialize finds in a file: the lengths of the names, the time's place, the
\* first bytes, the names, the bytes where it expects the postfix, and the body.
Finds(file, from, to, at, p, f, t, q, s) ==
    /\ from = LengthAt(file, 2, Zeros(Width))
    /\ to = LengthAt(file, 2 + Width + from, Reverse(Digits(from)))
    /\ at = 2 + Width + from + Width + to
    /\ p = Overlay(Zeros(2), Read(file, 0, 2))
    /\ f = Read(file, 2 + Width, from)
    /\ t = Read(file, 2 + Width + from + Width, to)
    /\ q = Overlay(SubSeq(Overlay(Overlay(p, f), t), 1, 2), Read(file, at + 2, 2))
    /\ s = SubSeq(file, at + 5, Len(file))

LEMMA DeserializeIs ==
    ASSUME NEW file, NEW from, NEW to, NEW at, NEW p, NEW f, NEW t, NEW q, NEW s,
           Finds(file, from, to, at, p, f, t, q, s)
    PROVE  Deserialize(file) =
             IF p # MESSAGE_PREFIX THEN Refused
             ELSE IF TooLarge(from) \/ TooLarge(to) THEN Dies
             ELSE IF q # MESSAGE_POSTFIX THEN Refused
             ELSE [is |-> "message", from |-> f, to |-> t, type |-> file[at + 2],
                   body |-> IF file[at + 2] = 1 THEN Text(s) ELSE s]
  BY DEF Deserialize, LengthAt, Finds

-----------------------------------------------------------------------------
(* A message, written to a file and read from it.                          *)

\* What serialize takes (names longer than deserialize's buffer are left out of Codec).
IsMessage(m) ==
    /\ m.from \in Seq(Nat) /\ ~TooLarge(Len(m.from))
    /\ m.to \in Seq(Nat) /\ ~TooLarge(Len(m.to))
    /\ m.type \in Nat /\ m.body \in Seq(Nat)

\* Where the body begins.
Header(m) == 2 + Width + Len(m.from) + Width + Len(m.to) + 4

\* The bytes of file are those of m.
Written(file, m) ==
    /\ file \in Seq(Nat) /\ Len(file) = Header(m) + Len(m.body)
    /\ file[1] = 222 /\ file[2] = 173
    /\ \A i \in 1 .. Width : file[2 + i] = Digits(Len(m.from))[i]
    /\ \A i \in 1 .. Len(m.from) : file[2 + Width + i] = m.from[i]
    /\ \A i \in 1 .. Width :
          file[2 + Width + Len(m.from) + i] = Digits(Len(m.to))[i]
    /\ \A i \in 1 .. Len(m.to) : file[2 + Width + Len(m.from) + Width + i] = m.to[i]
    /\ file[Header(m) - 2] = m.type
    /\ file[Header(m) - 1] = 240 /\ file[Header(m)] = 13
    /\ \A i \in 1 .. Len(m.body) : file[Header(m) + i] = m.body[i]

\* v is u and then t.
Appends(v, n, u, k, t) ==
    /\ v \in Seq(Nat) /\ Len(v) = n + k
    /\ \A i \in 1 .. n : v[i] = u[i]
    /\ \A i \in 1 .. k : v[n + i] = t[i]

LEMMA Appended ==
    ASSUME NEW u \in Seq(Nat), NEW n \in Nat, Len(u) = n,
           NEW t \in Seq(Nat), NEW k \in Nat, Len(t) = k
    PROVE  Appends(u \o t, n, u, k, t)
  BY Joined DEF Joins, Appends

LEMMA TwoBytes ==
    ASSUME NEW x \in Nat, NEW y \in Nat
    PROVE  <<x, y>> \in Seq(Nat) /\ Len(<<x, y>>) = 2 /\ <<x, y>>[1] = x /\ <<x, y>>[2] = y
  OBVIOUS

LEMMA SerializeIs ==
    ASSUME NEW m, IsMessage(m)
    PROVE  Written(Serialize(m), m)
  <1>1. PICK w \in Nat, a \in Nat, b \in Nat, c \in Nat :
           w = Width /\ a = Len(m.from) /\ b = Len(m.to) /\ c = Len(m.body)
    BY CodecAssumption, LenProperties DEF IsMessage
  <1>2. PICK d \in Seq(Nat), e \in Seq(Nat) :
           d = Digits(a) /\ e = Digits(b) /\ Len(d) = w /\ Len(e) = w
    BY <1>1, NotTooLarge, DigitsSeq DEF IsMessage
  <1>3. PICK f \in Seq(Nat), t \in Seq(Nat), s \in Seq(Nat) :
           /\ f = m.from /\ t = m.to /\ s = m.body
           /\ Len(f) = a /\ Len(t) = b /\ Len(s) = c
    BY <1>1 DEF IsMessage
  <1>4. PICK y \in Nat : y = m.type
    BY DEF IsMessage
  <1>5. PICK p : p = <<222, 173>>
    OBVIOUS
  <1>6. p \in Seq(Nat) /\ Len(p) = 2 /\ p[1] = 222 /\ p[2] = 173
    BY <1>5, TwoBytes
  <1>7. PICK q : q = <<Time, y>>
    OBVIOUS
  <1>8. q \in Seq(Nat) /\ Len(q) = 2 /\ q[2] = y
    BY <1>7, TwoBytes DEF Time
  <1>9. PICK r : r = <<240, 13>>
    OBVIOUS
  <1>10. r \in Seq(Nat) /\ Len(r) = 2 /\ r[1] = 240 /\ r[2] = 13
    BY <1>9, TwoBytes
  <1>11. PICK n1 \in Nat, n2 \in Nat, n3 \in Nat, h \in Nat, n5 \in Nat, n6 \in Nat :
            /\ n1 = 2 + w /\ n2 = n1 + a /\ n3 = n2 + w /\ h = n3 + b
            /\ n5 = h + 2 /\ n6 = n5 + 2
    OBVIOUS
  <1>12. PICK u1 : u1 = p \o d /\ Appends(u1, 2, p, w, d)
    <2>1. PICK n \in Nat : n = 2 /\ Len(p) = n
      BY <1>6
    <2>2. p \in Seq(Nat) /\ Len(d) = w
      BY <1>2, <1>6
    <2>3. Appends(p \o d, n, p, w, d)
      BY ONLY <2>1, <2>2, n \in Nat, d \in Seq(Nat), w \in Nat, Appended
    <2>4. QED
      BY <2>1, <2>3
  <1>13. u1 \in Seq(Nat) /\ Len(u1) = n1
    BY <1>11, <1>12 DEF Appends
  <1>14. PICK u2 : u2 = u1 \o f /\ Appends(u2, n1, u1, a, f)
    BY <1>3, <1>13, Appended
  <1>15. u2 \in Seq(Nat) /\ Len(u2) = n2
    BY <1>11, <1>14 DEF Appends
  <1>16. PICK u3 : u3 = u2 \o e /\ Appends(u3, n2, u2, w, e)
    BY <1>2, <1>15, Appended
  <1>17. u3 \in Seq(Nat) /\ Len(u3) = n3
    BY <1>11, <1>16 DEF Appends
  <1>18. PICK u4 : u4 = u3 \o t /\ Appends(u4, n3, u3, b, t)
    BY <1>3, <1>17, Appended
  <1>19. u4 \in Seq(Nat) /\ Len(u4) = h
    BY <1>11, <1>18 DEF Appends
  <1>20. PICK u5 : u5 = u4 \o q /\ Appends(u5, h, u4, 2, q)
    BY <1>8, <1>19, Appended
  <1>21. u5 \in Seq(Nat) /\ Len(u5) = n5
    BY <1>11, <1>20 DEF Appends
  <1>22. PICK u6 : u6 = u5 \o r /\ Appends(u6, n5, u5, 2, r)
    <2>1. PICK n \in Nat : n = 2 /\ Len(r) = n
      BY <1>10
    <2>2. Appends(u5 \o r, n5, u5, n, r)
      BY <1>10, <1>21, <2>1, Appended
    <2>3. QED
      BY <2>1, <2>2
  <1>23. u6 \in Seq(Nat) /\ Len(u6) = n6
    BY <1>11, <1>22 DEF Appends
  <1>24. PICK u7 : u7 = u6 \o s /\ Appends(u7, n6, u6, c, s)
    BY <1>3, <1>23, Appended
  <1>25. u7 = Serialize(m)
    <2>1. Serialize(m) = p \o d \o f \o e \o t \o q \o r \o s
      BY <1>1, <1>2, <1>3, <1>4, <1>5, <1>7, <1>9
         DEF Serialize, MESSAGE_PREFIX, MESSAGE_POSTFIX
    <2>2. QED
      BY <2>1, <1>12, <1>14, <1>16, <1>18, <1>20, <1>22, <1>24
  <1>26. \A i \in 1 .. h : u7[i] = u4[i]
    <2>1. \A i \in 1 .. h : u5[i] = u4[i]
      BY <1>20 DEF Appends
    <2>2. \A i \in 1 .. n5 : u6[i] = u5[i]
      BY <1>22 DEF Appends
    <2>3. \A i \in 1 .. n6 : u7[i] = u6[i]
      BY <1>24 DEF Appends
    <2>4. \A i \in 1 .. h : i \in 1 .. n5 /\ i \in 1 .. n6
      BY <1>11
    <2>5. QED
      BY ONLY <2>1, <2>2, <2>3, <2>4
  <1>27. \A i \in 1 .. n1 : u4[i] = u1[i]
    <2>1. \A i \in 1 .. n1 : u2[i] = u1[i]
      BY ONLY <1>14 DEF Appends
    <2>2. \A i \in 1 .. n2 : u3[i] = u2[i]
      BY ONLY <1>16 DEF Appends
    <2>3. \A i \in 1 .. n3 : u4[i] = u3[i]
      BY ONLY <1>18 DEF Appends
    <2>4. \A i \in 1 .. n1 : i \in 1 .. n2 /\ i \in 1 .. n3
      BY <1>11
    <2>5. QED
      BY ONLY <2>1, <2>2, <2>3, <2>4
  <1>28. n1 <= h /\ n2 <= h /\ n3 <= h /\ n1 <= n2 /\ n2 <= n3
    BY <1>11
  <1>29. u7[1] = 222 /\ u7[2] = 173 /\ \A i \in 1 .. w : u7[2 + i] = d[i]
    <2>1. \A i \in 1 .. n1 : u7[i] = u1[i]
      BY ONLY <1>26, <1>27, <1>28, n1 \in Nat, h \in Nat
    <2>2. (\A i \in 1 .. 2 : u1[i] = p[i]) /\ \A i \in 1 .. w : u1[2 + i] = d[i]
      BY <1>12 DEF Appends
    <2>3. 1 \in 1 .. 2 /\ 2 \in 1 .. 2 /\ 1 \in 1 .. n1 /\ 2 \in 1 .. n1
      BY <1>11
    <2>4. \A i \in 1 .. w : 2 + i \in 1 .. n1
      BY <1>11
    <2>5. u7[1] = p[1] /\ u7[2] = p[2]
      BY <2>1, <2>2, <2>3
    <2>6. \A i \in 1 .. w : u7[2 + i] = d[i]
      BY <2>1, <2>2, <2>4
    <2>7. QED
      BY <1>6, <2>5, <2>6
  <1>30. \A i \in 1 .. a : u7[n1 + i] = f[i]
    <2>1. \A i \in 1 .. a : n1 + i \in 1 .. n2 /\ n1 + i \in 1 .. n3 /\ n1 + i \in 1 .. h
      BY <1>11
    <2>2. \A i \in 1 .. a : u2[n1 + i] = f[i] /\ u3[n1 + i] = u2[n1 + i]
                            /\ u4[n1 + i] = u3[n1 + i]
      BY <1>14, <1>16, <1>18, <2>1 DEF Appends
    <2>3. QED
      BY <1>26, <2>1, <2>2
  <1>31. \A i \in 1 .. w : u7[n2 + i] = e[i]
    <2>1. \A i \in 1 .. w : n2 + i \in 1 .. n3 /\ n2 + i \in 1 .. h
      BY <1>11
    <2>2. \A i \in 1 .. w : u3[n2 + i] = e[i] /\ u4[n2 + i] = u3[n2 + i]
      BY <1>16, <1>18, <2>1 DEF Appends
    <2>3. QED
      BY <1>26, <2>1, <2>2
  <1>32. \A i \in 1 .. b : u7[n3 + i] = t[i]
    <2>1. \A i \in 1 .. b : n3 + i \in 1 .. h
      BY <1>11
    <2>2. \A i \in 1 .. b : u4[n3 + i] = t[i]
      BY <1>18 DEF Appends
    <2>3. QED
      BY <1>26, <2>1, <2>2
  <1>33. u7[h + 2] = y
    <2>1. h + 2 \in 1 .. n5 /\ h + 2 \in 1 .. n6
      BY <1>11
    <2>2. u7[h + 2] = u5[h + 2]
      BY <1>22, <1>24, <2>1 DEF Appends
    <2>3. u5[h + 2] = q[2]
      <3>1. 2 \in 1 .. 2
        OBVIOUS
      <3>2. \A i \in 1 .. 2 : u5[h + i] = q[i]
        BY ONLY <1>20 DEF Appends
      <3>3. QED
        BY ONLY <3>1, <3>2
    <2>4. QED
      BY <1>8, <2>2, <2>3
  <1>34. u7[n5 + 1] = 240 /\ u7[n5 + 2] = 13
    <2>1. n5 + 1 \in 1 .. n6 /\ n5 + 2 \in 1 .. n6
      BY <1>11
    <2>2. u6[n5 + 1] = r[1] /\ u6[n5 + 2] = r[2]
      <3>1. \A i \in 1 .. 2 : u6[n5 + i] = r[i]
        BY <1>22 DEF Appends
      <3>2. 1 \in 1 .. 2 /\ 2 \in 1 .. 2
        OBVIOUS
      <3>3. QED
        BY ONLY <3>1, <3>2
    <2>3. QED
      BY <1>10, <1>24, <2>1, <2>2 DEF Appends
  <1>35. u7 \in Seq(Nat) /\ Len(u7) = n6 + c /\ \A i \in 1 .. c : u7[n6 + i] = s[i]
    BY <1>24 DEF Appends
  <1>36. /\ Header(m) = n6 /\ n6 - 2 = h + 2 /\ n6 - 1 = n5 + 1 /\ n6 = n5 + 2
         /\ n1 = 2 + w /\ n2 = 2 + w + a /\ n3 = 2 + w + a + w
    BY <1>1, <1>11 DEF Header
  <1>37. /\ \A i \in 1 .. Width : u7[2 + i] = Digits(Len(m.from))[i]
         /\ \A i \in 1 .. Len(m.from) : u7[2 + Width + i] = m.from[i]
    BY <1>1, <1>2, <1>3, <1>29, <1>30, <1>36
  <1>38. /\ \A i \in 1 .. Width : u7[2 + Width + Len(m.from) + i] = Digits(Len(m.to))[i]
         /\ \A i \in 1 .. Len(m.to) : u7[2 + Width + Len(m.from) + Width + i] = m.to[i]
    BY <1>1, <1>2, <1>3, <1>31, <1>32, <1>36
  <1>39. /\ u7[Header(m) - 2] = m.type /\ u7[Header(m) - 1] = 240 /\ u7[Header(m)] = 13
         /\ Len(u7) = Header(m) + Len(m.body)
         /\ \A i \in 1 .. Len(m.body) : u7[Header(m) + i] = m.body[i]
    <2>1. PICK x : x = Header(m)
      OBVIOUS
    <2>2. x = n6 /\ x - 2 = h + 2 /\ x - 1 = n5 + 1 /\ x = n5 + 2
      BY <1>36, <2>1
    <2>3. u7[x - 2] = y /\ u7[x - 1] = 240 /\ u7[x] = 13
      BY <1>33, <1>34, <2>2
    <2>4. Len(u7) = x + c /\ \A i \in 1 .. c : u7[x + i] = s[i]
      BY <1>35, <2>2
    <2>5. QED
      BY <1>1, <1>3, <1>4, <2>1, <2>3, <2>4
  <1>40. Written(u7, m)
    BY <1>29, <1>35, <1>37, <1>38, <1>39 DEF Written
  <1>41. QED
    BY <1>25, <1>40

\* The memory that the two lengths are read over.
LEMMA MemoryIs ==
    /\ Memory(Zeros(Width)) /\ Zeros(Width)[1] = 0 /\ Zeros(Width)[Width] = 0
    /\ \A n \in Nat : n < Power[Width] =>
          /\ Memory(Reverse(Digits(n)))
          /\ n % Base = 0 => Reverse(Digits(n))[1] = 0
  <1>1. Width \in Nat /\ Width >= 1 /\ Base \in Nat /\ Base > 0
    BY CodecAssumption
  <1>2. 1 \in 1 .. Width /\ Width \in 1 .. Width /\ 0 \in 0 .. Base - 1
    BY <1>1
  <1>3. Memory(Zeros(Width)) /\ Zeros(Width)[1] = 0 /\ Zeros(Width)[Width] = 0
    BY <1>1, <1>2, ZerosAre DEF Memory
  <1>4. ASSUME NEW n \in Nat, n < Power[Width]
        PROVE  /\ Memory(Reverse(Digits(n)))
               /\ n % Base = 0 => Reverse(Digits(n))[1] = 0
    <2>1. PICK d \in Seq(Nat) :
             /\ d = Digits(n) /\ Len(d) = Width
             /\ \A i \in 1 .. Width : d[i] \in 0 .. Base - 1
      BY <1>4, DigitsSeq, ValueOfDigits
    <2>2. /\ Reverse(d) \in Seq(Nat) /\ Len(Reverse(d)) = Width
          /\ \A i \in 1 .. Width : Reverse(d)[i] = d[Width - i + 1]
      BY <2>1, ReverseIs
    <2>3. \A i \in 1 .. Width : Width - i + 1 \in 1 .. Width
      BY <1>1
    <2>4. Memory(Reverse(d))
      BY <2>1, <2>2, <2>3 DEF Memory
    <2>5. Reverse(d)[1] = d[Width]
      <3>1. Width - 1 + 1 = Width
        BY <1>1
      <3>2. QED
        BY <1>2, <2>2, <3>1
    <2>6. QED
      BY <1>4, <2>1, <2>4, <2>5, EndDigits
  <1>5. QED
    BY <1>3, <1>4

\* file is what there is of a file with the bytes of m, cut anywhere or nowhere.
Begins(file, m) ==
    /\ file \in Seq(Nat)
    /\ \E whole : /\ Written(whole, m) /\ Len(file) <= Len(whole)
                  /\ \A i \in 1 .. Len(file) : file[i] = whole[i]

\* The lengths that deserialize finds in such a file.
LEMMA LengthsFound ==
    ASSUME NEW m, IsMessage(m), NEW file, Begins(file, m),
           NEW from, from = LengthAt(file, 2, Zeros(Width)),
           NEW to, to = LengthAt(file, 2 + Width + from, Reverse(Digits(from)))
    PROVE  /\ from \in Nat /\ to \in Nat /\ ~TooLarge(from)
           /\ 2 + Width <= Len(file) => from = Len(m.from)
           /\ 2 + Width + Len(m.from) + Width <= Len(file) => to = Len(m.to)
           /\ TooLarge(to) => /\ 2 + Width <= Len(file)
                              /\ Len(file) <= 2 + Width + Len(m.from)
  <1>1. Width \in Nat /\ Width >= 1 /\ Power[Width] \in Nat \ {0}
    BY CodecAssumption, PowerIs
  <1>2. PICK n \in Nat : n = Len(file) /\ file \in Seq(Nat)
    BY LenProperties DEF Begins
  <1>3. PICK a \in Nat, b \in Nat : /\ a = Len(m.from) /\ b = Len(m.to)
                                    /\ ~TooLarge(a) /\ ~TooLarge(b)
                                    /\ a < Power[Width] /\ b < Power[Width]
    BY LenProperties, NotTooLarge DEF IsMessage
  <1>4. Holds(file, 2, a) /\ Holds(file, 2 + Width + a, b)
    <2>1. PICK whole : /\ Written(whole, m) /\ \A i \in 1 .. n : file[i] = whole[i]
      BY <1>2 DEF Begins
    <2>2. ASSUME NEW i \in 1 .. Width, 2 + i <= n
          PROVE  file[2 + i] = Digits(a)[i]
      <3>1. 2 + i \in 1 .. n
        BY <1>1, <2>2
      <3>2. QED
        BY <1>3, <2>1, <3>1 DEF Written
    <2>3. ASSUME NEW i \in 1 .. Width, 2 + Width + a + i <= n
          PROVE  file[2 + Width + a + i] = Digits(b)[i]
      <3>1. 2 + Width + a + i \in 1 .. n
        BY <1>1, <2>3
      <3>2. file[2 + Width + a + i] = whole[2 + Width + a + i]
        BY <2>1, <3>1
      <3>3. whole[2 + Width + a + i] = Digits(b)[i]
        BY <1>3, <2>1 DEF Written
      <3>4. QED
        BY <3>2, <3>3
    <2>4. QED
      BY <1>2, <2>2, <2>3 DEF Holds
  <1>5. /\ from \in Nat /\ from < Power[Width]
        /\ 2 + Width <= n => from = a
        /\ ~TooLarge(from)
        /\ ~(2 + Width <= n) => from % Base = 0
    <2>1. PICK at \in Nat : at = 2
      OBVIOUS
    <2>2. PICK z : z = Zeros(Width)
      OBVIOUS
    <2>3. Memory(z) /\ z[1] = 0 /\ z[Width] = 0 /\ Holds(file, at, a)
      BY <1>4, <2>1, <2>2, MemoryIs
    <2>4. from = LengthAt(file, at, z)
      BY <2>1, <2>2
    <2>5. /\ from \in Nat /\ from < Power[Width]
          /\ at + Width <= n => from = a
          /\ at < n => ~TooLarge(from)
          /\ ~(at < n) => ~TooLarge(from)
          /\ ~(at + Width <= n) => from % Base = 0
      BY ONLY <1>2, <1>3, <2>3, <2>4, a \in Nat, at \in Nat, LengthIs
    <2>6. QED
      BY <2>1, <2>5
  <1>6. PICK at \in Nat : at = 2 + Width + from
    BY <1>1, <1>5
  <1>7. PICK r : r = Reverse(Digits(from))
    OBVIOUS
  <1>8. Memory(r) /\ (from % Base = 0 => r[1] = 0)
    BY <1>5, <1>7, MemoryIs
  <1>9. to = LengthAt(file, at, r)
    BY <1>6, <1>7
  <1>10. CASE 2 + Width <= n
    <2>1. from = a /\ Holds(file, at, b)
      BY <1>4, <1>5, <1>6, <1>10
    <2>2. /\ to \in Nat
          /\ at + Width <= n => to = b
          /\ at < n => ~TooLarge(to)
      BY ONLY <1>2, <1>3, <1>8, <1>9, <2>1, b \in Nat, at \in Nat, LengthIs
    <2>3. at = 2 + Width + a /\ (~(at < n) => n <= 2 + Width + a)
      BY <1>1, <1>6, <2>1
    <2>4. QED
      BY <1>2, <1>3, <1>5, <1>10, <2>1, <2>2, <2>3
  <1>11. CASE ~(2 + Width <= n)
    <2>1. ~(at < n)
      BY <1>1, <1>5, <1>6, <1>11
    <2>2. Holds(file, at, 0)
      <3>1. \A i \in 1 .. Width : ~(at + i <= n)
        BY <1>1, <2>1
      <3>2. QED
        BY <1>2, <3>1 DEF Holds
    <2>3. r[1] = 0
      BY <1>5, <1>8, <1>11
    <2>4. 0 \in Nat /\ 0 < Power[Width]
      BY <1>1
    <2>5. to \in Nat /\ ~TooLarge(to)
      BY ONLY <1>2, <1>8, <1>9, <2>1, <2>2, <2>3, <2>4, at \in Nat, LengthIs
    <2>6. ~(2 + Width + a + Width <= n)
      BY <1>1, <1>11
    <2>7. QED
      BY <1>2, <1>3, <1>5, <1>11, <2>5, <2>6
  <1>12. QED
    BY <1>10, <1>11

\* A read of a part of a file that is t.
LEMMA ReadsPart ==
    ASSUME NEW file \in Seq(Nat), NEW at \in Nat, NEW t \in Seq(Nat), NEW n \in Nat,
           n = Len(t), at + n <= Len(file), \A i \in 1 .. n : file[at + i] = t[i]
    PROVE  Read(file, at, n) = t
  <1>1. PICK r : r = Read(file, at, n)
    OBVIOUS
  <1>2. r \in Seq(Nat) /\ Len(r) = n /\ \A i \in 1 .. n : r[i] = file[at + i]
    BY <1>1, ReadIs
  <1>3. \A i \in 1 .. Len(r) : r[i] = t[i]
    BY <1>2
  <1>4. r = t
    BY ONLY <1>2, <1>3, n = Len(t), t \in Seq(Nat), SeqEqual
  <1>5. QED
    BY <1>1, <1>4

\* The two bytes of a marker, whole, at a place of a file.
MarkerAt(file, at, x, y) ==
    at + 2 <= Len(file) /\ file[at + 1] = x /\ file[at + 2] = y

\* What is read for a marker, over at least two bytes of memory.
LEMMA ReadsMarker ==
    ASSUME NEW file \in Seq(Nat), NEW at \in Nat, NEW memory \in Seq(Nat), Len(memory) = 2,
           NEW x \in Nat, NEW y \in Nat,
           MarkerAt(file, at, x, y)
    PROVE  Overlay(memory, Read(file, at, 2)) = <<x, y>>
  <1> DEFINE t == <<x, y>>
  <1>1. PICK n \in Nat : n = 2
    OBVIOUS
  <1>2. t \in Seq(Nat) /\ Len(t) = n /\ t[1] = x /\ t[2] = y
    BY <1>1, TwoBytes
  <1> HIDE DEF t
  <1>3. \A i \in 1 .. n : file[at + i] = t[i]
    <2>1. \A i \in 1 .. n : i = 1 \/ i = 2
      BY <1>1
    <2>2. file[at + 1] = x /\ file[at + 2] = y
      BY DEF MarkerAt
    <2>3. QED
      BY <1>2, <2>1, <2>2
  <1>4. at + n <= Len(file)
    BY <1>1 DEF MarkerAt
  <1>5. Read(file, at, n) = t
    BY ONLY <1>3, <1>4, <1>2, file \in Seq(Nat), at \in Nat, n \in Nat, ReadsPart
  <1>6. PICK o : o = Overlay(memory, t)
    OBVIOUS
  <1>7. o \in Seq(Nat) /\ Len(o) = n /\ \A i \in 1 .. n : o[i] = t[i]
    <2>1. /\ o \in Seq(Nat)
          /\ Len(o) = IF Len(t) <= Len(memory) THEN Len(memory) ELSE Len(t)
          /\ \A i \in 1 .. Len(t) : o[i] = t[i]
      BY <1>2, <1>6, OverlayIs
    <2>2. QED
      BY <1>1, <1>2, <2>1
  <1>8. o = t
    BY ONLY <1>7, <1>2, SeqEqual
  <1>9. QED
    BY <1>1, <1>5, <1>6, <1>8 DEF t

\* What serialize writes, deserialize reads: the names, the type and the body, which
\* is a text for the type 1 (message_wrapper.cc).
THEOREM MessageComesBack ==
    ASSUME NEW m, IsMessage(m)
    PROVE  Deserialize(Serialize(m)) =
             [is |-> "message", from |-> m.from, to |-> m.to, type |-> m.type,
              body |-> IF m.type = 1 THEN Text(m.body) ELSE m.body]
  <1>1. PICK w \in Nat, a \in Nat, b \in Nat, c \in Nat :
           w = Width /\ a = Len(m.from) /\ b = Len(m.to) /\ c = Len(m.body)
    BY CodecAssumption, LenProperties DEF IsMessage
  <1>2. PICK file : file = Serialize(m)
    OBVIOUS
  <1>3. Written(file, m)
    BY <1>2, SerializeIs
  <1>4. file \in Seq(Nat)
    BY <1>3 DEF Written
  <1>5. PICK h \in Nat : h = 2 + w + a + w + b
    OBVIOUS
  <1>6. Header(m) = h + 4 /\ Len(file) = h + 4 + c
    BY <1>1, <1>3, <1>5 DEF Written, Header
  <1>7. PICK f \in Seq(Nat), t \in Seq(Nat), s \in Seq(Nat) :
            /\ f = m.from /\ t = m.to /\ s = m.body
            /\ Len(f) = a /\ Len(t) = b /\ Len(s) = c
    BY <1>1 DEF IsMessage
  <1>8. file[1] = 222 /\ file[2] = 173
    BY <1>3 DEF Written
  <1>9. PICK at1 \in Nat, at2 \in Nat, at3 \in Nat :
           at1 = 2 + w /\ at2 = 2 + w + a + w /\ at3 = h + 4
    OBVIOUS
  <1>10. \A i \in 1 .. a : file[at1 + i] = f[i]
    <2>1. \A i \in 1 .. Len(m.from) : file[2 + Width + i] = m.from[i]
      BY <1>3 DEF Written
    <2>2. 2 + Width = at1 /\ Len(m.from) = a /\ m.from = f
      BY <1>1, <1>7, <1>9
    <2>3. QED
      BY ONLY <2>1, <2>2
  <1>11. \A i \in 1 .. b : file[at2 + i] = t[i]
    <2>1. \A i \in 1 .. Len(m.to) : file[2 + Width + Len(m.from) + Width + i] = m.to[i]
      BY <1>3 DEF Written
    <2>2. 2 + Width + Len(m.from) + Width = at2 /\ Len(m.to) = b /\ m.to = t
      BY <1>1, <1>7, <1>9
    <2>3. QED
      BY ONLY <2>1, <2>2
  <1>12. \A i \in 1 .. c : file[at3 + i] = s[i]
    <2>1. \A i \in 1 .. Len(m.body) : file[Header(m) + i] = m.body[i]
      BY <1>3 DEF Written
    <2>2. Header(m) = at3 /\ Len(m.body) = c /\ m.body = s
      BY <1>1, <1>6, <1>7, <1>9
    <2>3. QED
      BY ONLY <2>1, <2>2
  <1>13. /\ file[Header(m) - 2] = m.type
         /\ file[Header(m) - 1] = 240 /\ file[Header(m)] = 13
    BY <1>3 DEF Written
  <1>14. /\ Header(m) - 2 = h + 2 /\ Header(m) - 1 = h + 3 /\ Header(m) = h + 4
    BY <1>6
  <1>15. file[h + 2] = m.type /\ file[h + 3] = 240 /\ file[h + 4] = 13
    BY ONLY <1>13, <1>14
  <1>16. Begins(file, m)
    <2>1. PICK n \in Nat : n = Len(file)
      BY <1>4, LenProperties
    <2>2. Len(file) <= Len(file) /\ \A i \in 1 .. Len(file) : file[i] = file[i]
      BY <2>1
    <2>3. QED
      BY <1>3, <1>4, <2>2 DEF Begins
  <1>17. PICK from, to : /\ from = LengthAt(file, 2, Zeros(Width))
                        /\ to = LengthAt(file, 2 + Width + from, Reverse(Digits(from)))
    OBVIOUS
  <1>18. from = a /\ to = b /\ ~TooLarge(from) /\ ~TooLarge(to)
    <2>1. 2 + w <= Len(file) /\ 2 + w + a + w <= Len(file)
      BY <1>5, <1>6
    <2>2. /\ ~TooLarge(from)
          /\ 2 + Width <= Len(file) => from = Len(m.from)
          /\ 2 + Width + Len(m.from) + Width <= Len(file) => to = Len(m.to)
      BY <1>16, <1>17, LengthsFound
    <2>3. from = a /\ to = b
      BY <1>1, <2>1, <2>2
    <2>4. QED
      BY <1>1, <2>2, <2>3 DEF IsMessage
  <1>19. PICK p : p = Overlay(Zeros(2), Read(file, 0, 2))
    OBVIOUS
  <1>20. p = <<222, 173>>
    <2>1. PICK at \in Nat : at = 0
      OBVIOUS
    <2>2. PICK z : z = Zeros(2)
      OBVIOUS
    <2>3. z \in Seq(Nat) /\ Len(z) = 2
      BY <2>2, ZerosAre
    <2>4. at + 2 <= Len(file) /\ at + 1 = 1 /\ at + 2 = 2
      BY <1>5, <1>6, <2>1
    <2>5. MarkerAt(file, at, 222, 173)
      BY <1>8, <2>4 DEF MarkerAt
    <2>6. Overlay(z, Read(file, at, 2)) = <<222, 173>>
      BY <1>4, <2>3, <2>5, ReadsMarker
    <2>7. QED
      BY <1>19, <2>1, <2>2, <2>6
  <1>21. Read(file, 2 + w, a) = f
    <2>1. at1 + a <= Len(file)
      BY <1>5, <1>6, <1>9
    <2>2. Read(file, at1, a) = f
      BY <1>4, <1>7, <1>10, <2>1, ReadsPart
    <2>3. QED
      BY <1>9, <2>2
  <1>22. Read(file, 2 + w + a + w, b) = t
    <2>1. at2 + b <= Len(file)
      BY <1>5, <1>6, <1>9
    <2>2. Read(file, at2, b) = t
      BY <1>4, <1>7, <1>11, <2>1, ReadsPart
    <2>3. QED
      BY <1>9, <2>2
  <1>23. PICK names : names = Overlay(Overlay(p, f), t)
    OBVIOUS
  <1>24. SubSeq(names, 1, 2) \in Seq(Nat) /\ Len(SubSeq(names, 1, 2)) = 2
    <2>1. p \in Seq(Nat) /\ Len(p) = 2
      BY <1>20, TwoBytes
    <2>2. PICK o : o = Overlay(p, f)
      OBVIOUS
    <2>3. o \in Seq(Nat) /\ Len(o) = IF Len(f) <= Len(p) THEN Len(p) ELSE Len(f)
      BY <2>1, <2>2, OverlayIs
    <2>4. PICK k \in Nat : k = Len(o) /\ k >= 2
      BY <1>7, <2>1, <2>3
    <2>5. names \in Seq(Nat) /\ Len(names) = IF Len(t) <= Len(o) THEN Len(o) ELSE Len(t)
      BY <1>23, <2>2, <2>3, OverlayIs
    <2>6. names \in Seq(Nat) /\ Len(names) >= 2
      BY <1>7, <2>4, <2>5
    <2>7. PICK n \in Nat, at \in Nat, x \in Nat, y \in Nat :
             n = 2 /\ at = 0 /\ x = at + 1 /\ y = at + n /\ x = 1 /\ y = 2
      <3>1. 2 \in Nat /\ 0 \in Nat /\ 1 = 0 + 1 /\ 2 = 0 + 2
        OBVIOUS
      <3>2. QED
        BY <3>1
    <2>8. at + n <= Len(names)
      BY <2>6, <2>7
    <2>9. SubSeq(names, x, y) \in Seq(Nat) /\ Len(SubSeq(names, x, y)) = n
      BY ONLY <2>6, <2>7, <2>8, n \in Nat, at \in Nat, CutOut
    <2>10. QED
      BY <2>7, <2>9
  <1>25. Overlay(SubSeq(names, 1, 2), Read(file, h + 2, 2)) = <<240, 13>>
    <2>1. PICK at \in Nat : at = h + 2
      OBVIOUS
    <2>2. /\ at + 2 <= Len(file) /\ at + 1 = h + 3 /\ at + 2 = h + 4
          /\ 240 \in Nat /\ 13 \in Nat
      BY <1>6, <2>1
    <2>3. file[at + 1] = 240 /\ file[at + 2] = 13
      BY <1>15, <2>2
    <2>4. PICK mem \in Seq(Nat) : mem = SubSeq(names, 1, 2) /\ Len(mem) = 2
      BY <1>24
    <2>5. PICK x \in Nat, y \in Nat : x = 240 /\ y = 13
      OBVIOUS
    <2>6. file[at + 1] = x /\ file[at + 2] = y
      BY <2>3, <2>5
    <2>7. Overlay(mem, Read(file, at, 2)) = <<x, y>>
      <3>1. MarkerAt(file, at, x, y)
        BY <2>2, <2>6 DEF MarkerAt
      <3>2. Len(mem) = 2
        BY <2>4
      <3>3. QED
        BY ONLY <1>4, <3>1, <3>2, at \in Nat, x \in Nat, y \in Nat, mem \in Seq(Nat),
           ReadsMarker
    <2>8. QED
      BY <2>1, <2>4, <2>5, <2>7
  <1>26. SubSeq(file, h + 5, Len(file)) = m.body
    <2>1. PICK n \in Nat, x \in Nat, y \in Nat :
             n = at3 /\ x = n + 1 /\ y = n + c /\ x = h + 5 /\ y = Len(file)
      BY <1>6, <1>9
    <2>2. \A i \in 1 .. c : file[n + i] = s[i]
      BY ONLY <1>12, <2>1
    <2>3. n + c <= Len(file)
      BY <2>1, <1>6
    <2>4. PICK g : g = SubSeq(file, x, y)
      OBVIOUS
    <2>5. g \in Seq(Nat) /\ Len(g) = c /\ \A i \in 1 .. c : g[i] = file[n + i]
      <3>1. x = n + 1 /\ y = n + c
        BY <2>1
      <3>2. /\ SubSeq(file, x, y) \in Seq(Nat) /\ Len(SubSeq(file, x, y)) = c
            /\ \A i \in 1 .. c : SubSeq(file, x, y)[i] = file[n + i]
        BY ONLY <1>4, <2>3, <3>1, n \in Nat, c \in Nat, CutOut
      <3>3. QED
        BY ONLY <2>4, <3>2
    <2>6. \A i \in 1 .. Len(g) : g[i] = s[i]
      BY <2>2, <2>5
    <2>7. g = s
      BY ONLY <1>7, <2>5, <2>6, s \in Seq(Nat), SeqEqual
    <2>8. QED
      BY <1>7, <2>1, <2>4, <2>7
  <1>27. 2 + Width + from = 2 + w + a /\ 2 + Width + from + Width = 2 + w + a + w
         /\ 2 + Width + from + Width + to = h
    BY <1>1, <1>5, <1>18
  <1>28. QED
    <2>1. PICK x, z, g : /\ x = 2 + Width + from + Width + to
                         /\ z = Overlay(SubSeq(names, 1, 2), Read(file, x + 2, 2))
                         /\ g = SubSeq(file, x + 5, Len(file))
      OBVIOUS
    <2>2. /\ f = Read(file, 2 + Width, from)
          /\ t = Read(file, 2 + Width + from + Width, to)
      BY <1>1, <1>18, <1>21, <1>22, <1>27
    <2>3. Deserialize(file) =
            IF p # MESSAGE_PREFIX THEN Refused
            ELSE IF TooLarge(from) \/ TooLarge(to) THEN Dies
            ELSE IF z # MESSAGE_POSTFIX THEN Refused
            ELSE [is |-> "message", from |-> f, to |-> t, type |-> file[x + 2],
                  body |-> IF file[x + 2] = 1 THEN Text(g) ELSE g]
      <3>1. Finds(file, from, to, x, p, f, t, z, g)
        BY ONLY <1>17, <1>19, <1>23, <2>1, <2>2 DEF Finds
      <3>2. QED
        BY ONLY <3>1, DeserializeIs
    <2>4. z = <<240, 13>> /\ g = m.body /\ file[x + 2] = m.type
      <3>1. x = h
        BY <1>27, <2>1
      <3>2. QED
        BY <1>15, <1>25, <1>26, <2>1, <3>1
    <2>5. p = MESSAGE_PREFIX /\ z = MESSAGE_POSTFIX
      BY <1>20, <2>4 DEF MESSAGE_PREFIX, MESSAGE_POSTFIX
    <2>6. Deserialize(file) = [is |-> "message", from |-> f, to |-> t, type |-> m.type,
                               body |-> IF m.type = 1 THEN Text(m.body) ELSE m.body]
      BY ONLY <1>18, <2>3, <2>4, <2>5
    <2>7. QED
      BY <1>2, <1>7, <2>6

\* Of a file that is cut, deserialize makes nothing, or a message with another body;
\* or the process dies, if the cut is in the first name.
LEMMA CutMessage ==
    ASSUME NEW m, IsMessage(m), m.body # <<>>,
           NEW file, Begins(file, m), Len(file) < Header(m) + Len(m.body)
    PROVE  \/ Deserialize(file) = Refused
           \/ Deserialize(file) = Dies /\ Len(file) - 2 - Width \in 0 .. Len(m.from)
           \/ \E x, y, z, s :
                 /\ Deserialize(file) = [is |-> "message", from |-> x, to |-> y, type |-> z,
                                         body |-> IF z = 1 THEN Text(s) ELSE s]
                 /\ s # m.body
  <1>1. PICK w \in Nat, a \in Nat, b \in Nat, c \in Nat :
           w = Width /\ a = Len(m.from) /\ b = Len(m.to) /\ c = Len(m.body)
    BY CodecAssumption, LenProperties DEF IsMessage
  <1>2. PICK n \in Nat : n = Len(file) /\ file \in Seq(Nat)
    BY LenProperties DEF Begins
  <1>3. PICK from, to : /\ from = LengthAt(file, 2, Zeros(Width))
                        /\ to = LengthAt(file, 2 + Width + from, Reverse(Digits(from)))
    OBVIOUS
  <1>4. /\ from \in Nat /\ to \in Nat /\ ~TooLarge(from)
        /\ 2 + w <= n => from = a
        /\ 2 + w + a + w <= n => to = b
        /\ TooLarge(to) => 2 + w <= n /\ n <= 2 + w + a
    <2>1. /\ from \in Nat /\ to \in Nat /\ ~TooLarge(from)
          /\ 2 + Width <= Len(file) => from = Len(m.from)
          /\ 2 + Width + Len(m.from) + Width <= Len(file) => to = Len(m.to)
          /\ TooLarge(to) => /\ 2 + Width <= Len(file)
                             /\ Len(file) <= 2 + Width + Len(m.from)
      BY <1>3, LengthsFound
    <2>2. QED
      BY ONLY <1>1, <1>2, <2>1
  <1>5. PICK x \in Nat : x = 2 + w + from + w + to
    BY <1>4
  <1>6. PICK s : s = SubSeq(file, x + 5, n)
    OBVIOUS
  <1>7. s # m.body
    <2>1. CASE n <= x + 4
      <3>1. s = <<>>
        BY <1>6, <2>1, SubSeqEmpty
      <3>2. QED
        BY <3>1
    <2>2. CASE ~(n <= x + 4)
      <3>1. 2 + w <= n
        BY <1>4, <1>5, <2>2
      <3>2. from = a
        BY <1>4, <3>1
      <3>3. 2 + w + a + w <= n
        BY <1>4, <1>5, <2>2, <3>2
      <3>4. x = 2 + w + a + w + b
        BY <1>4, <1>5, <3>2, <3>3
      <3>5. Header(m) = x + 4
        BY <1>1, <3>4 DEF Header
      <3>6. PICK k \in Nat : x + 4 + k = n /\ k < c
        <4>1. PICK y \in Nat : y = x + 4
          BY <1>5
        <4>2. n > y /\ n < y + c
          <5>1. Header(m) = y
            BY <3>5, <4>1
          <5>2. n < y + c
            BY <1>1, <1>2, <5>1
          <5>3. n > y
            BY <2>2, <4>1
          <5>4. QED
            BY <5>2, <5>3
        <4>3. PICK k \in Nat : k = n - y
          BY <4>2
        <4>4. y + k = n /\ k < c
          BY <4>2, <4>3
        <4>5. QED
          BY <4>1, <4>4
      <3>7. PICK at \in Nat, i \in Nat, j \in Nat : at = x + 4 /\ i = at + 1 /\ j = at + k
        OBVIOUS
      <3>8. s = SubSeq(file, i, j)
        <4>1. i = x + 5 /\ j = n
          BY <3>6, <3>7
        <4>2. QED
          BY <1>6, <4>1
      <3>9. at + k <= Len(file)
        BY <1>2, <3>6, <3>7
      <3>10. Len(s) = k
        BY ONLY <1>2, <3>7, <3>8, <3>9, at \in Nat, k \in Nat, CutOut
      <3>11. QED
        BY <1>1, <3>6, <3>10
    <2>3. QED
      BY <2>1, <2>2
  <1>8. PICK p, q : /\ p = Read(file, 2 + Width, from)
                    /\ q = Read(file, 2 + Width + from + Width, to)
    OBVIOUS
  <1>9. \/ Deserialize(file) = Refused
        \/ Deserialize(file) = Dies /\ TooLarge(to)
        \/ Deserialize(file) = [is |-> "message", from |-> p, to |-> q, type |-> file[x + 2],
                                body |-> IF file[x + 2] = 1 THEN Text(s) ELSE s]
    <2>1. PICK y, z : /\ y = Overlay(Zeros(2), Read(file, 0, 2))
                      /\ z = Overlay(SubSeq(Overlay(Overlay(y, p), q), 1, 2),
                                     Read(file, x + 2, 2))
      OBVIOUS
    <2>2. x = 2 + Width + from + Width + to /\ s = SubSeq(file, x + 5, Len(file))
      BY ONLY <1>1, <1>2, <1>5, <1>6
    <2>3. Deserialize(file) =
            IF y # MESSAGE_PREFIX THEN Refused
            ELSE IF TooLarge(from) \/ TooLarge(to) THEN Dies
            ELSE IF z # MESSAGE_POSTFIX THEN Refused
            ELSE [is |-> "message", from |-> p, to |-> q, type |-> file[x + 2],
                  body |-> IF file[x + 2] = 1 THEN Text(s) ELSE s]
      <3>1. Finds(file, from, to, x, y, p, q, z, s)
        BY ONLY <1>3, <1>8, <2>1, <2>2 DEF Finds
      <3>2. QED
        BY ONLY <3>1, DeserializeIs
    <2>4. QED
      BY <1>4, <2>3
  <1>10. ASSUME TooLarge(to)
         PROVE  n - 2 - w \in 0 .. a
    BY <1>4, <1>10
  <1>11. QED
    BY <1>1, <1>2, <1>7, <1>9, <1>10

\* A file that does not begin with the prefix is refused.
LEMMA RefusedAtOnce ==
    ASSUME NEW file \in Seq(Nat),
           Len(file) >= 2 => ~(file[1] = 222 /\ file[2] = 173)
    PROVE  Deserialize(file) = Refused
  <1>1. PICK n \in Nat : n = Len(file)
    BY LenProperties
  <1>2. PICK k \in Nat, at \in Nat : k = 2 /\ at = 0
    OBVIOUS
  <1>3. PICK z : z = Zeros(k) /\ z \in Seq(Nat) /\ Len(z) = k /\ \A i \in 1 .. k : z[i] = 0
    BY ZerosAre
  <1>4. PICK r : r = Read(file, at, k)
    OBVIOUS
  <1>5. /\ r \in Seq(Nat) /\ \A i \in 1 .. Len(r) : r[i] = file[at + i]
        /\ Len(r) = IF at + k <= n THEN k ELSE IF at < n THEN n - at ELSE 0
    <2>1. /\ Read(file, at, k) \in Seq(Nat)
          /\ Len(Read(file, at, k)) = IF at + k <= Len(file) THEN k
                                      ELSE IF at < Len(file) THEN Len(file) - at ELSE 0
          /\ \A i \in 1 .. Len(Read(file, at, k)) : Read(file, at, k)[i] = file[at + i]
      BY ONLY file \in Seq(Nat), at \in Nat, k \in Nat, ReadIs
    <2>2. QED
      BY <1>1, <1>4, <2>1
  <1>6. PICK p : p = Overlay(z, r)
    OBVIOUS
  <1>7. /\ \A i \in 1 .. Len(r) : p[i] = r[i]
        /\ \A i \in Len(r) + 1 .. k : p[i] = z[i]
    <2>1. /\ \A i \in 1 .. Len(r) : Overlay(z, r)[i] = r[i]
          /\ \A i \in Len(r) + 1 .. Len(z) : Overlay(z, r)[i] = z[i]
      <3>1. z \in Seq(Nat) /\ r \in Seq(Nat)
        BY <1>3, <1>5
      <3>2. QED
        BY ONLY <3>1, OverlayIs
    <2>2. QED
      BY <1>3, <1>6, <2>1
  <1>8. p # <<222, 173>>
    <2>1. SUFFICES ASSUME p = <<222, 173>>
                   PROVE  FALSE
      OBVIOUS
    <2>2. p[1] = 222 /\ p[2] = 173
      BY <2>1
    <2>3. CASE n >= 2
      <3>1. Len(r) = 2
        BY <1>2, <1>5, <2>3
      <3>2. 1 \in 1 .. Len(r) /\ 2 \in 1 .. Len(r) /\ at + 1 = 1 /\ at + 2 = 2
        BY <1>2, <3>1
      <3>3. p[1] = file[1] /\ p[2] = file[2]
        BY <1>5, <1>7, <3>2
      <3>4. QED
        BY <1>1, <2>2, <2>3, <3>3
    <2>4. CASE ~(n >= 2)
      <3>1. Len(r) <= 1 /\ Len(r) \in Nat
        BY <1>2, <1>5, <2>4
      <3>2. 2 \in Len(r) + 1 .. k /\ 2 \in 1 .. k
        BY <1>2, <3>1
      <3>3. p[2] = 0
        BY <1>3, <1>7, <3>2
      <3>4. QED
        BY <2>2, <3>3
    <2>5. QED
      BY <2>3, <2>4
  <1>9. p = Overlay(Zeros(2), Read(file, 0, 2)) /\ p # MESSAGE_PREFIX
    BY <1>2, <1>3, <1>4, <1>6, <1>8 DEF MESSAGE_PREFIX
  <1>10. PICK from, to : /\ from = LengthAt(file, 2, Zeros(Width))
                         /\ to = LengthAt(file, 2 + Width + from, Reverse(Digits(from)))
    OBVIOUS
  <1>11. PICK x, f, t : /\ x = 2 + Width + from + Width + to
                        /\ f = Read(file, 2 + Width, from)
                        /\ t = Read(file, 2 + Width + from + Width, to)
    OBVIOUS
  <1>12. PICK q, s : /\ q = Overlay(SubSeq(Overlay(Overlay(p, f), t), 1, 2),
                                    Read(file, x + 2, 2))
                     /\ s = SubSeq(file, x + 5, Len(file))
    OBVIOUS
  <1>13. Finds(file, from, to, x, p, f, t, q, s)
    BY ONLY <1>9, <1>10, <1>11, <1>12 DEF Finds
  <1>14. QED
    BY ONLY <1>9, <1>13, DeserializeIs

\* A text shorter than a block is read as it is, up to a NUL.
LEMMA TextIs ==
    ASSUME NEW body \in Seq(Nat), Len(body) < Block
    PROVE  Text(body) = UpToNul(body)
  <1>1. PICK n \in Nat, b \in Nat : n = Len(body) /\ b = Block /\ n < b
    BY CodecAssumption, LenProperties
  <1>2. n \div b = 0
    BY <1>1
  <1>3. PICK t : t = UpToNul(body)
    OBVIOUS
  <1>4. PICK q : q = [i \in 1 .. (Len(body) \div Block) + 1 |->
                  UpToNul(SubSeq(body, (i - 1) * Block + 1,
                                 IF i * Block < Len(body) THEN i * Block
                                                          ELSE Len(body)))]
    OBVIOUS
  <1>5. q = [i \in 1 .. 1 |-> t]
    <2>1. (Len(body) \div Block) + 1 = 1
      BY <1>1, <1>2
    <2>2. ASSUME NEW i \in 1 .. 1
          PROVE  UpToNul(SubSeq(body, (i - 1) * Block + 1,
                                IF i * Block < Len(body) THEN i * Block ELSE Len(body))) = t
      <3>1. i = 1
        OBVIOUS
      <3>2. (i - 1) * Block + 1 = 1 /\ i * Block = b
        BY <1>1, <3>1
      <3>3. (IF i * Block < Len(body) THEN i * Block ELSE Len(body)) = Len(body)
        BY <1>1, <3>2
      <3>4. SubSeq(body, 1, Len(body)) = body
        BY SubSeqFull
      <3>5. QED
        BY <1>3, <3>2, <3>3, <3>4
    <2>3. QED
      BY <1>4, <2>1, <2>2
  <1>6. q = <<t>>
    BY <1>5
  <1>7. FlattenSeq(q) = t
    <2>1. Len(q) = 1 /\ q[1] = t
      BY <1>6
    <2> DEFINE G(g) == g = [i \in 1 .. Len(q) |-> IF i = 1 THEN q[i] ELSE g[i - 1] \o q[i]]
    <2>2. \E g : G(g)
      <3>1. PICK g : g = [i \in 1 .. 1 |-> t]
        OBVIOUS
      <3>2. \A i \in 1 .. 1 : i = 1
        OBVIOUS
      <3>3. G(g)
        BY <2>1, <3>1, <3>2
      <3>4. QED
        BY <3>3
    <2>3. PICK g : g = CHOOSE h : G(h)
      OBVIOUS
    <2>4. G(g)
      BY <2>2, <2>3
    <2>5. g[1] = t
      <3>1. 1 \in 1 .. Len(q)
        BY <2>1
      <3>2. QED
        BY <2>1, <2>4, <3>1
    <2>6. FlattenSeq(q) = g[Len(q)]
      BY <2>1, <2>3 DEF FlattenSeq
    <2>7. QED
      BY <2>1, <2>5, <2>6
  <1>8. QED
    BY <1>3, <1>4, <1>7 DEF Text

-----------------------------------------------------------------------------
(* What the markers tell.                                                  *)

\* Two bytes at the beginning, and at the end.
LEMMA BeginsWith ==
    ASSUME NEW s \in Seq(Nat), Len(s) = 2, NEW g \in Seq(Nat), IsPrefix(s, g)
    PROVE  Len(g) >= 2 /\ g[1] = s[1] /\ g[2] = s[2]
  <1>1. PICK n \in Nat, l \in Nat, at \in Nat, a \in Nat, b \in Nat :
           n = 2 /\ l = Len(g) /\ at = 0 /\ a = at + 1 /\ b = at + n /\ a = 1 /\ b = n
    <2>1. 2 \in Nat /\ 0 \in Nat /\ 1 = 0 + 1 /\ 2 = 0 + 2 /\ Len(g) \in Nat
      BY LenProperties
    <2>2. QED
      BY <2>1
  <1>2. at + n <= Len(g) /\ at + n <= Len(s) /\ SubSeq(s, a, b) = SubSeq(g, a, b)
    <2>1. Len(s) <= Len(g) /\ SubSeq(s, 1, Len(s)) = SubSeq(g, 1, Len(s))
      BY DEF IsPrefix
    <2>2. QED
      BY <1>1, <2>1
  <1>3. \A i \in 1 .. n : SubSeq(s, a, b)[i] = s[at + i]
    <2>1. at + n <= Len(s)
      BY <1>2
    <2>2. a = at + 1 /\ b = at + n
      BY <1>1
    <2>3. QED
      BY ONLY <2>1, <2>2, s \in Seq(Nat), at \in Nat, n \in Nat, CutOut
  <1>4. \A i \in 1 .. n : SubSeq(g, a, b)[i] = g[at + i]
    <2>1. at + n <= Len(g)
      BY <1>2
    <2>2. a = at + 1 /\ b = at + n
      BY <1>1
    <2>3. QED
      BY ONLY <2>1, <2>2, g \in Seq(Nat), at \in Nat, n \in Nat, CutOut
  <1>5. 1 \in 1 .. n /\ 2 \in 1 .. n /\ at + 1 = 1 /\ at + 2 = 2
    BY <1>1
  <1>6. s[1] = g[1] /\ s[2] = g[2]
    <2>1. PICK e : e = SubSeq(s, a, b) /\ e = SubSeq(g, a, b)
      BY <1>2
    <2>2. \A i \in 1 .. n : s[at + i] = g[at + i]
      BY ONLY <1>3, <1>4, <2>1
    <2>3. s[at + 1] = g[at + 1] /\ s[at + 2] = g[at + 2]
      BY <1>5, <2>2
    <2>4. QED
      BY <1>5, <2>3
  <1>7. QED
    BY <1>1, <1>2, <1>6

LEMMA FramedIs ==
    ASSUME NEW g \in Seq(Nat), NEW x \in Nat, NEW y \in Nat, NEW u \in Nat, NEW v \in Nat,
           Framed(g, <<x, y>>, <<u, v>>)
    PROVE  /\ Len(g) >= 2 /\ g[1] = x /\ g[2] = y
           /\ g[Len(g) - 1] = u /\ g[Len(g)] = v
  <1> DEFINE s == <<x, y>>
             t == <<u, v>>
  <1>1. s \in Seq(Nat) /\ Len(s) = 2 /\ s[1] = x /\ s[2] = y
    BY TwoBytes
  <1>2. t \in Seq(Nat) /\ Len(t) = 2 /\ t[1] = u /\ t[2] = v
    BY TwoBytes
  <1>3. IsPrefix(s, g) /\ IsPrefix(Reverse(t), Reverse(g))
    BY DEF Framed, IsSuffix
  <1> HIDE DEF s, t
  <1>4. Len(g) >= 2 /\ g[1] = x /\ g[2] = y
    BY <1>1, <1>3, BeginsWith
  <1>5. /\ Reverse(t) \in Seq(Nat) /\ Len(Reverse(t)) = 2
        /\ Reverse(t)[1] = v /\ Reverse(t)[2] = u
    <2>1. /\ Reverse(t) \in Seq(Nat) /\ Len(Reverse(t)) = Len(t)
          /\ \A i \in 1 .. Len(t) : Reverse(t)[i] = t[Len(t) - i + 1]
      BY <1>2, ReverseIs
    <2>2. 1 \in 1 .. Len(t) /\ 2 \in 1 .. Len(t) /\ Len(t) - 1 + 1 = 2 /\ Len(t) - 2 + 1 = 1
      BY <1>2
    <2>3. QED
      BY <1>2, <2>1, <2>2
  <1>6. PICK l \in Nat : l = Len(g) /\ l >= 2
    BY <1>4, LenProperties
  <1>7. /\ Reverse(g) \in Seq(Nat) /\ Reverse(g)[1] = g[l] /\ Reverse(g)[2] = g[l - 1]
    <2>1. /\ Reverse(g) \in Seq(Nat)
          /\ \A i \in 1 .. Len(g) : Reverse(g)[i] = g[Len(g) - i + 1]
      BY ReverseIs
    <2>2. 1 \in 1 .. l /\ 2 \in 1 .. l /\ l - 1 + 1 = l /\ l - 2 + 1 = l - 1
      BY <1>6
    <2>3. QED
      BY <1>6, <2>1, <2>2
  <1>8. Reverse(g)[1] = v /\ Reverse(g)[2] = u
    BY <1>3, <1>5, <1>7, BeginsWith
  <1>9. QED
    BY <1>4, <1>6, <1>7, <1>8

\* Two bytes one after the other.
LEMMA TwoOf ==
    ASSUME NEW s \in Seq(Nat), NEW i \in Nat, i >= 1, i + 1 <= Len(s)
    PROVE  SubSeq(s, i, i + 1) = <<s[i], s[i + 1]>>
  <1>1. PICK n \in Nat, m \in Nat, a \in Nat, b \in Nat :
           i = n + 1 /\ m = 2 /\ a = n + 1 /\ b = n + m /\ a = i /\ b = i + 1
    <2>1. i - 1 \in Nat /\ i = (i - 1) + 1 /\ i + 1 = (i - 1) + 2
      OBVIOUS
    <2>2. QED
      BY <2>1
  <1>2. PICK g : g = SubSeq(s, a, b)
    OBVIOUS
  <1>3. n + m <= Len(s)
    BY <1>1
  <1>4. g \in Seq(Nat) /\ Len(g) = m /\ \A h \in 1 .. m : g[h] = s[n + h]
    BY ONLY <1>1, <1>2, <1>3, n \in Nat, m \in Nat, s \in Seq(Nat), CutOut
  <1>5. g[1] = s[i] /\ g[2] = s[i + 1]
    <2>1. 1 \in 1 .. m /\ 2 \in 1 .. m /\ n + 1 = i /\ n + 2 = i + 1
      BY <1>1
    <2>2. g[1] = s[n + 1] /\ g[2] = s[n + 2]
      BY <1>4, <2>1
    <2>3. QED
      BY <2>1, <2>2
  <1>6. PICK x, y : x = s[i] /\ y = s[i + 1]
    OBVIOUS
  <1>7. x \in Nat /\ y \in Nat
    <2>1. 1 \in 1 .. m /\ 2 \in 1 .. m /\ Len(g) = m
      BY <1>1, <1>4
    <2>2. g[1] \in Nat /\ g[2] \in Nat
      BY <1>4, <2>1, ElementOfSeq
    <2>3. QED
      BY <1>5, <1>6, <2>2
  <1>8. PICK t : t = <<x, y>>
    OBVIOUS
  <1>9. t \in Seq(Nat) /\ Len(t) = 2 /\ t[1] = x /\ t[2] = y
    BY <1>7, <1>8, TwoBytes
  <1>10. Len(g) = Len(t) /\ \A h \in 1 .. Len(g) : g[h] = t[h]
    <2>1. Len(g) = 2 /\ \A h \in 1 .. 2 : h = 1 \/ h = 2
      BY <1>1, <1>4
    <2>2. QED
      BY <1>5, <1>6, <1>9, <2>1
  <1>11. g = t
    BY ONLY <1>4, <1>9, <1>10, SeqEqual
  <1>12. QED
    BY <1>1, <1>2, <1>6, <1>8, <1>11

\* A plain string, byte for byte.
Bytes(d, k, c, x, y, u, v) ==
    /\ c \in Seq(Nat) /\ Len(c) = k /\ Len(d) = k + 4
    /\ d[1] = x /\ d[2] = y /\ d[k + 3] = u /\ d[k + 4] = v
    /\ \A i \in 1 .. k : d[2 + i] = c[i]
    /\ \A i \in 1 .. k - 1 : ~(c[i] = u /\ c[i + 1] = v)

LEMMA PlainIs ==
    ASSUME NEW f, NEW kind, NEW x \in Nat, NEW y \in Nat, NEW u \in Nat, NEW v \in Nat,
           f.data \in Seq(Nat), IsPlain(f, kind, <<x, y>>, <<u, v>>)
    PROVE  /\ f.kind = kind
           /\ \E k \in Nat : \E c : Bytes(f.data, k, c, x, y, u, v)
  <1>1. PICK c : /\ f = Plain(kind, <<x, y>>, c, <<u, v>>) /\ c = Content(f.data)
                 /\ \A i \in 1 .. Len(c) - 1 : SubSeq(c, i, i + 1) # <<u, v>>
    BY DEF IsPlain
  <1>2. f.kind = kind /\ f.data = <<x, y>> \o c \o <<u, v>>
    BY <1>1 DEF Plain
  <1>3. c \in Seq(Nat)
    <2>1. PICK d \in Seq(Nat) : d = f.data
      OBVIOUS
    <2>2. PICK l \in Nat : l = Len(d) /\ \A i \in 1 .. l : d[i] \in Nat
      BY LenProperties, ElementOfSeq
    <2>3. c = SubSeq(d, 3, l - 2)
      BY <1>1, <2>1, <2>2 DEF Content
    <2>4. CASE l - 2 < 3
      <3>1. c = <<>>
        BY <2>3, <2>4, SubSeqEmpty
      <3>2. QED
        BY <3>1
    <2>5. CASE ~(l - 2 < 3)
      <3>1. PICK m \in Nat, n \in Nat, a \in Nat, b \in Nat :
               m = 2 /\ m + n = l - 2 /\ a = m + 1 /\ b = m + n /\ a = 3 /\ b = l - 2
        <4>1. l - 4 \in Nat /\ 2 + (l - 4) = l - 2
          BY <2>5
        <4>2. QED
          BY <4>1
      <3>2. m + n <= Len(d)
        BY <2>2, <3>1
      <3>3. SubSeq(d, a, b) \in Seq(Nat)
        BY ONLY <3>1, <3>2, d \in Seq(Nat), m \in Nat, n \in Nat, CutOut
      <3>4. QED
        BY <2>3, <3>1, <3>3
    <2>6. QED
      BY <2>4, <2>5
  <1>4. PICK k \in Nat : k = Len(c)
    BY <1>3, LenProperties
  <1>5. PICK s, t :
           /\ s = <<x, y>> /\ s \in Seq(Nat) /\ Len(s) = 2 /\ s[1] = x /\ s[2] = y
           /\ t = <<u, v>> /\ t \in Seq(Nat) /\ Len(t) = 2 /\ t[1] = u /\ t[2] = v
    <2>1. PICK s, t : s = <<x, y>> /\ t = <<u, v>>
      OBVIOUS
    <2>2. s \in Seq(Nat) /\ Len(s) = 2 /\ s[1] = x /\ s[2] = y
      BY <2>1, TwoBytes
    <2>3. t \in Seq(Nat) /\ Len(t) = 2 /\ t[1] = u /\ t[2] = v
      BY <2>1, TwoBytes
    <2>4. QED
      BY <2>1, <2>2, <2>3
  <1>6. PICK m \in Nat : m = 2
    OBVIOUS
  <1>7. PICK e : e = s \o c /\ Appends(e, m, s, k, c)
    BY <1>3, <1>4, <1>5, <1>6, Appended
  <1>8. PICK j \in Nat : j = m + k
    OBVIOUS
  <1>9. e \in Seq(Nat) /\ Len(e) = j
    BY <1>7, <1>8 DEF Appends
  <1>10. PICK d : d = e \o t /\ Appends(d, j, e, m, t)
    <2>1. Len(t) = m
      BY <1>5, <1>6
    <2>2. QED
      BY <1>5, <1>9, <2>1, Appended
  <1>11. d = f.data
    BY <1>2, <1>5, <1>7, <1>10
  <1>12. /\ \A i \in 1 .. j : d[i] = e[i]
         /\ \A i \in 1 .. m : d[j + i] = t[i]
         /\ Len(d) = j + m
    BY <1>10 DEF Appends
  <1>13. /\ \A i \in 1 .. m : e[i] = s[i]
         /\ \A i \in 1 .. k : e[m + i] = c[i]
    BY <1>7 DEF Appends
  <1>14. d[1] = x /\ d[2] = y
    <2>1. 1 \in 1 .. j /\ 2 \in 1 .. j /\ 1 \in 1 .. m /\ 2 \in 1 .. m
      BY <1>6, <1>8
    <2>2. QED
      BY <1>5, <1>12, <1>13, <2>1
  <1>15. \A i \in 1 .. k : d[2 + i] = c[i]
    <2>1. \A i \in 1 .. k : m + i \in 1 .. j
      BY <1>8
    <2>2. QED
      BY <1>6, <1>12, <1>13, <2>1
  <1>16. d[k + 3] = u /\ d[k + 4] = v /\ Len(d) = k + 4
    <2>1. 1 \in 1 .. m /\ 2 \in 1 .. m /\ j + 1 = k + 3 /\ j + 2 = k + 4 /\ j + m = k + 4
      BY <1>6, <1>8
    <2>2. QED
      BY <1>5, <1>12, <2>1
  <1>17. ASSUME NEW i \in 1 .. k - 1, c[i] = u, c[i + 1] = v
         PROVE  FALSE
    <2>1. i \in Nat /\ i >= 1 /\ i + 1 <= Len(c)
      BY <1>4
    <2>2. SubSeq(c, i, i + 1) = <<c[i], c[i + 1]>>
      BY ONLY <1>3, <2>1, TwoOf
    <2>3. i \in 1 .. Len(c) - 1
      BY <1>4
    <2>4. QED
      BY <1>1, <1>17, <2>2, <2>3
  <1>18. Bytes(d, k, c, x, y, u, v)
    BY <1>3, <1>4, <1>14, <1>15, <1>16, <1>17 DEF Bytes
  <1>19. QED
    BY <1>2, <1>11, <1>18

\* Cut anywhere, it does not end as it should.
LEMMA CutPlain ==
    ASSUME NEW d, NEW k \in Nat, NEW c, NEW x, NEW y, NEW u, NEW v,
           Bytes(d, k, c, x, y, u, v), x # u, y # u, u # v,
           NEW n \in Nat, n >= 2, n <= k + 4, d[n - 1] = u, d[n] = v
    PROVE  n = k + 4
  <1>1. /\ d[1] = x /\ d[2] = y /\ d[k + 3] = u
        /\ \A i \in 1 .. k : d[2 + i] = c[i]
        /\ \A i \in 1 .. k - 1 : ~(c[i] = u /\ c[i + 1] = v)
    BY DEF Bytes
  <1>2. n # 2
    <2>1. n = 2 => n - 1 = 1
      OBVIOUS
    <2>2. QED
      BY <1>1, <2>1
  <1>3. n # 3
    <2>1. n = 3 => n - 1 = 2
      OBVIOUS
    <2>2. QED
      BY <1>1, <2>1
  <1>4. n # k + 3
    BY <1>1
  <1>5. ASSUME n >= 4, n <= k + 2
        PROVE  FALSE
    <2>1. PICK i \in 1 .. k - 1 : n = i + 3
      <3>1. n - 3 \in 1 .. k - 1 /\ n = (n - 3) + 3
        BY <1>5
      <3>2. QED
        BY <3>1
    <2>2. i \in 1 .. k /\ i + 1 \in 1 .. k /\ n - 1 = 2 + i /\ n = 2 + (i + 1)
      BY <2>1
    <2>3. d[n - 1] = c[i] /\ d[n] = c[i + 1]
      BY <1>1, <2>2
    <2>4. QED
      BY <1>1, <2>3
  <1>6. QED
    BY <1>2, <1>3, <1>4, <1>5

-----------------------------------------------------------------------------
(* What the frames are.                                                    *)

\* The two messages that a layer is made of.
Outer(f) == [from |-> f.hop, to |-> f.sent.to, type |-> 0, body |-> f.cipher]
Inner(f) == [from |-> f.sent.from, to |-> f.sent.to, type |-> 1, body |-> f.sent.text]

LEMMA LayerIs ==
    ASSUME NEW f, IsLayer(f)
    PROVE  /\ IsMessage(Outer(f)) /\ f.data = Serialize(Outer(f))
           /\ IsMessage(Inner(f)) /\ f.plain = Serialize(Inner(f))
           /\ f.kind = "file" /\ f.cipher # <<>> /\ Len(f.sent.text) < Block
  <1>1. /\ f = Layer(f.sent, f.hop, f.cipher) /\ f.kind = "file"
        /\ f.hop \in Seq(Nat) /\ ~TooLarge(Len(f.hop))
        /\ f.sent.from \in Seq(Nat) /\ ~TooLarge(Len(f.sent.from))
        /\ f.sent.to \in Seq(Nat) /\ ~TooLarge(Len(f.sent.to))
        /\ f.cipher \in Seq(Nat) /\ f.cipher # <<>>
        /\ f.sent.text \in Seq(Nat) /\ Len(f.sent.text) < Block
    BY DEF IsLayer
  <1>2. f.data = Serialize(Outer(f)) /\ f.plain = Serialize(Inner(f))
    BY <1>1 DEF Layer, Outer, Inner
  <1>3. /\ Outer(f).from = f.hop /\ Outer(f).to = f.sent.to
        /\ Outer(f).type = 0 /\ Outer(f).body = f.cipher
    BY DEF Outer
  <1>4. /\ Inner(f).from = f.sent.from /\ Inner(f).to = f.sent.to
        /\ Inner(f).type = 1 /\ Inner(f).body = f.sent.text
    BY DEF Inner
  <1>5. 0 \in Nat /\ 1 \in Nat
    OBVIOUS
  <1>6. IsMessage(Outer(f))
    BY <1>1, <1>3, <1>5 DEF IsMessage
  <1>7. IsMessage(Inner(f))
    BY <1>1, <1>4, <1>5 DEF IsMessage
  <1>8. QED
    BY <1>1, <1>2, <1>6, <1>7

\* A string between markers.
Marked(d, x, y, u, v) == \E k \in Nat : \E c : Bytes(d, k, c, x, y, u, v)

LEMMA FrameIs ==
    ASSUME frame \in Frames
    PROVE  \/ frame.kind = "list" /\ Marked(frame.data, 209, 94, 174, 238)
           \/ frame.kind = "ping" /\ Marked(frame.data, 254, 237, 250, 206)
           \/ frame.kind = "pong" /\ Marked(frame.data, 254, 237, 240, 221)
           \/ frame.kind = "file" /\ IsLayer(frame) /\ Written(frame.data, Outer(frame))
           \/ frame.kind = "missing" /\ frame.data = <<>>
  <1>1. PICK f : f = frame /\ f \in Frames
    OBVIOUS
  <1>2. f.data \in Seq(Nat)
    BY <1>1, TransferAssumption
  <1>3. CASE IsPlain(f, "list", LIST_PREFIX, LIST_POSTFIX)
    <2>1. IsPlain(f, "list", <<209, 94>>, <<174, 238>>)
      BY <1>3 DEF LIST_PREFIX, LIST_POSTFIX
    <2>2. 209 \in Nat /\ 94 \in Nat /\ 174 \in Nat /\ 238 \in Nat
      OBVIOUS
    <2>3. f.kind = "list" /\ \E k \in Nat : \E c : Bytes(f.data, k, c, 209, 94, 174, 238)
      BY ONLY <1>2, <2>1, <2>2, PlainIs
    <2>4. QED
      BY <1>1, <2>3 DEF Marked
  <1>4. CASE IsPlain(f, "ping", PING_PREFIX, PING_POSTFIX)
    <2>1. IsPlain(f, "ping", <<254, 237>>, <<250, 206>>)
      BY <1>4 DEF PING_PREFIX, PING_POSTFIX
    <2>2. 254 \in Nat /\ 237 \in Nat /\ 250 \in Nat /\ 206 \in Nat
      OBVIOUS
    <2>3. f.kind = "ping" /\ \E k \in Nat : \E c : Bytes(f.data, k, c, 254, 237, 250, 206)
      BY ONLY <1>2, <2>1, <2>2, PlainIs
    <2>4. QED
      BY <1>1, <2>3 DEF Marked
  <1>5. CASE IsPlain(f, "pong", PONG_PREFIX, PONG_POSTFIX)
    <2>1. IsPlain(f, "pong", <<254, 237>>, <<240, 221>>)
      BY <1>5 DEF PONG_PREFIX, PONG_POSTFIX
    <2>2. 254 \in Nat /\ 237 \in Nat /\ 240 \in Nat /\ 221 \in Nat
      OBVIOUS
    <2>3. f.kind = "pong" /\ \E k \in Nat : \E c : Bytes(f.data, k, c, 254, 237, 240, 221)
      BY ONLY <1>2, <2>1, <2>2, PlainIs
    <2>4. QED
      BY <1>1, <2>3 DEF Marked
  <1>6. CASE IsLayer(f)
    <2>1. IsMessage(Outer(f)) /\ f.data = Serialize(Outer(f)) /\ f.kind = "file"
      BY <1>6, LayerIs
    <2>2. Written(f.data, Outer(f))
      BY <2>1, SerializeIs
    <2>3. QED
      BY <1>1, <1>6, <2>1, <2>2
  <1>7. CASE f = Missing
    BY <1>1, <1>7 DEF Missing
  <1>8. QED
    BY <1>1, <1>3, <1>4, <1>5, <1>6, <1>7, FrameAssumption

LEMMA GotIs ==
    ASSUME TypeOK
    PROVE  /\ Got \in Seq(Nat) /\ Len(Got) = read - start
           /\ \A i \in 1 .. read - start : Got[i] = Stream[start + i]
  <1>1. PICK m \in Nat, n \in Nat : m = start /\ n = read - start /\ m + n = read
    <2>1. start \in Nat /\ read \in Nat /\ start <= read
      BY StreamKept
    <2>2. read - start \in Nat /\ start + (read - start) = read
      BY <2>1
    <2>3. QED
      BY <2>1, <2>2
  <1>2. PICK t : t = Stream /\ t \in Seq(Nat)
    BY StreamIs DEF TypeOK
  <1>3. m + n <= Len(t)
    BY <1>1, <1>2, StreamKept
  <1>4. PICK a, b : a = m + 1 /\ b = m + n
    OBVIOUS
  <1>5. PICK g : g = SubSeq(t, a, b)
    OBVIOUS
  <1>6. g \in Seq(Nat) /\ Len(g) = n /\ \A i \in 1 .. n : g[i] = t[m + i]
    BY ONLY <1>2, <1>3, <1>4, <1>5, m \in Nat, n \in Nat, CutOut
  <1>7. g = Got
    BY <1>1, <1>2, <1>4, <1>5 DEF Got
  <1>8. QED
    BY <1>1, <1>2, <1>6, <1>7

\* Two bytes that are the prefix of nothing.
NoPrefix(x, y) ==
    /\ ~(x = 222 /\ y = 173) /\ ~(x = 209 /\ y = 94) /\ ~(x = 254 /\ y = 237)

\* What begins before the payload has no prefix.
LEMMA NotPrefixed ==
    ASSUME TypeOK, start <= Width, Len(Got) >= 2
    PROVE  NoPrefix(Got[1], Got[2])
  <1>1. PICK w \in Nat, b \in Nat, r \in Nat, l \in Nat :
           /\ w = Width /\ b = start /\ r = read /\ l = Len(Stream) /\ w >= 1
           /\ b <= w /\ r <= l /\ b + 2 <= r
    <2>1. /\ Width \in Nat /\ start \in Nat /\ read \in Nat /\ Len(Stream) \in Nat
          /\ Width >= 1 /\ read <= written /\ written <= Len(Stream) /\ written \in Nat
      BY StreamKept
    <2>2. read - start >= 2
      BY GotIs
    <2>3. start + 2 <= read /\ read <= Len(Stream)
      BY <2>1, <2>2
    <2>4. QED
      BY <2>1, <2>3
  <1>2. Got[1] = Stream[b + 1] /\ Got[2] = Stream[b + 2]
    <2>1. 1 \in 1 .. read - start /\ 2 \in 1 .. read - start
      BY <1>1
    <2>2. QED
      BY <1>1, <2>1, GotIs
  <1>3. frame \in Frames
    BY DEF TypeOK
  <1>4. CASE b = 0
    <2>1. Got[1] \in {0, 1}
      BY <1>2, <1>3, <1>4, StreamIs
    <2>2. QED
      BY <2>1 DEF NoPrefix
  <1>5. CASE b >= 1 /\ b < w
    <2>1. PICK n \in Nat : n = Announced /\ n < Power[Width]
      <3>1. Announced \in Nat /\ Announced <= Power[Width] - 1 /\ Power[Width] \in Nat
        BY <1>3, StreamIs, PowerIs, CodecAssumption
      <3>2. QED
        BY <3>1
    <2>2. PICK d : d = Digits(n) /\ d \in Seq(Nat) /\ Len(d) = w
      BY <1>1, <2>1, DigitsSeq
    <2>3. \A i \in 1 .. w : Stream[1 + i] = d[i]
      BY <1>1, <1>3, <2>1, <2>2, StreamIs
    <2>4. b \in 1 .. w /\ b + 1 \in 1 .. w /\ 1 + b = b + 1 /\ 1 + (b + 1) = b + 2
      BY <1>5
    <2>5. Stream[1 + b] = d[b] /\ Stream[1 + (b + 1)] = d[b + 1]
      BY <2>3, <2>4
    <2>6. Got[1] = d[b] /\ Got[2] = d[b + 1]
      BY <1>2, <2>4, <2>5
    <2>7. SubSeq(d, b, b + 1) = <<d[b], d[b + 1]>>
      <3>1. b >= 1 /\ b + 1 <= Len(d)
        BY <1>5, <2>2
      <3>2. QED
        BY ONLY <2>2, <3>1, b \in Nat, TwoOf
    <2>8. SubSeq(d, b, b + 1) \notin {MESSAGE_PREFIX, LIST_PREFIX, PING_PREFIX}
      <3>1. SizeIsNoPrefix(n)
        BY <1>3, <2>1, FrameAssumption DEF Announced
      <3>2. b \in 1 .. Width - 1
        BY <1>1, <1>5
      <3>3. QED
        BY <2>2, <3>1, <3>2 DEF SizeIsNoPrefix
    <2>9. <<Got[1], Got[2]>> \notin {<<222, 173>>, <<209, 94>>, <<254, 237>>}
      BY <2>6, <2>7, <2>8 DEF MESSAGE_PREFIX, LIST_PREFIX, PING_PREFIX
    <2>10. QED
      BY <2>9 DEF NoPrefix
  <1>6. CASE b = w
    <2>1. PICK k \in Nat : k = Len(frame.data) /\ l = 1 + w + k /\ k >= 1
      <3>1. PICK k \in Nat : k = Len(frame.data)
        BY <1>3, StreamIs, LenProperties
      <3>2. l = 1 + w + k
        BY <1>1, <1>3, <3>1, StreamIs
      <3>3. k >= 1
        BY <1>1, <1>6, <3>2
      <3>4. QED
        BY <3>1, <3>2, <3>3
    <2>2. Got[2] = frame.data[1]
      <3>1. 1 \in 1 .. k /\ 1 + w + 1 = b + 2
        BY <1>6, <2>1
      <3>2. Stream[1 + w + 1] = frame.data[1]
        BY <1>1, <1>3, <2>1, <3>1, StreamIs
      <3>3. QED
        BY <1>2, <3>1, <3>2
    <2>3. frame.data # <<>>
      BY <2>1
    <2>4. frame.data[1] \in {209, 254, 222}
      BY <1>3, <2>3, FrameIs DEF Marked, Bytes, Written
    <2>5. QED
      BY <2>2, <2>4 DEF NoPrefix
  <1>7. QED
    BY <1>1, <1>4, <1>5, <1>6

-----------------------------------------------------------------------------
(* What is understood.                                                     *)

\* When recv has the payload's beginning right it has the type; else it has read
\* the type for a part of the size.
Heard ==
    /\ rpc = "size" /\ read = 1 => type = Stream[1]
    /\ rpc \in {"body", "done"} /\ start = Width + 1 => type = Stream[1]

LEMMA SenderHeard ==
    ASSUME TypeOK, Heard, Send \/ Close \/ Stop \/ UNCHANGED vars
    PROVE  Heard'
  <1>1. UNCHANGED <<frame, read, rpc, type, size, start>>
    BY DEF Send, Write, Finish, Close, Stop, receiver, vars
  <1>2. Stream' = Stream
    BY <1>1, StreamKept
  <1>3. QED
    BY <1>1, <1>2 DEF Heard

LEMMA ReceiverHeard ==
    ASSUME TypeOK, Reading, Heard, Recv
    PROVE  Heard'
  <1>1. UNCHANGED <<frame, written, spc, end>>
    BY DEF Recv, ReadType, ReadSize, ReadBody, Return, sender
  <1>2. Stream' = Stream
    BY <1>1, StreamKept
  <1>3. CASE ReadType
    <2>1. read = 0 /\ rpc' = "size"
      BY <1>3 DEF ReadType, Reading
    <2>2. read' = 1 => type' = Stream[1]
      BY <1>3, <2>1 DEF ReadType, Reads, ReadsEnd, ReadFails
    <2>3. QED
      BY <1>2, <2>1, <2>2 DEF Heard
  <1>4. CASE ReadSize
    <2>1. /\ rpc = "size" /\ rpc' = "body" /\ start' = read' /\ type' = type
          /\ read \in 0 .. 1 /\ Width \in Nat /\ Width >= 1
      BY <1>4, StreamKept DEF ReadSize, Reading
    <2>2. read' = read \/ \E k \in 1 .. Width : read' = read + k
      BY <1>4 DEF ReadSize, Reads, ReadsEnd, ReadFails
    <2>3. read' = Width + 1 => read = 1
      BY <2>1, <2>2
    <2>4. QED
      BY <1>2, <2>1, <2>3 DEF Heard
  <1>5. CASE ReadBody
    BY <1>2, <1>5 DEF ReadBody, Heard
  <1>6. CASE Return
    BY <1>2, <1>6 DEF Return, Heard
  <1>7. QED
    BY <1>3, <1>4, <1>5, <1>6 DEF Recv

\* A string is framed when it begins and ends with the markers.
LEMMA NotFramed ==
    ASSUME TypeOK, start <= Width
    PROVE  /\ ~Framed(Got, LIST_PREFIX, LIST_POSTFIX)
           /\ ~Framed(Got, PING_PREFIX, PING_POSTFIX)
           /\ ~Framed(Got, PONG_PREFIX, PONG_POSTFIX)
  <1>1. PICK g : g = Got /\ g \in Seq(Nat)
    BY GotIs
  <1>2. Len(g) >= 2 => NoPrefix(g[1], g[2])
    BY <1>1, NotPrefixed
  <1>3. 209 \in Nat /\ 94 \in Nat /\ 174 \in Nat /\ 238 \in Nat
    OBVIOUS
  <1>4. 254 \in Nat /\ 237 \in Nat /\ 250 \in Nat /\ 206 \in Nat /\ 240 \in Nat /\ 221 \in Nat
    OBVIOUS
  <1>5. ~Framed(g, <<209, 94>>, <<174, 238>>)
    <2>1. ASSUME Framed(g, <<209, 94>>, <<174, 238>>)
          PROVE  Len(g) >= 2 /\ g[1] = 209 /\ g[2] = 94
      BY ONLY <1>1, <1>3, <2>1, FramedIs
    <2>2. QED
      BY <1>2, <2>1 DEF NoPrefix
  <1>6. ~Framed(g, <<254, 237>>, <<250, 206>>)
    <2>1. ASSUME Framed(g, <<254, 237>>, <<250, 206>>)
          PROVE  Len(g) >= 2 /\ g[1] = 254 /\ g[2] = 237
      BY ONLY <1>1, <1>4, <2>1, FramedIs
    <2>2. QED
      BY <1>2, <2>1 DEF NoPrefix
  <1>7. ~Framed(g, <<254, 237>>, <<240, 221>>)
    <2>1. ASSUME Framed(g, <<254, 237>>, <<240, 221>>)
          PROVE  Len(g) >= 2 /\ g[1] = 254 /\ g[2] = 237
      BY ONLY <1>1, <1>4, <2>1, FramedIs
    <2>2. QED
      BY <1>2, <2>1 DEF NoPrefix
  <1>8. QED
    BY <1>1, <1>5, <1>6, <1>7
       DEF LIST_PREFIX, LIST_POSTFIX, PING_PREFIX, PING_POSTFIX, PONG_PREFIX, PONG_POSTFIX

\* The first bytes of a string.
Part(g, d) ==
    /\ g \in Seq(Nat) /\ d \in Seq(Nat) /\ Len(g) <= Len(d)
    /\ \A i \in 1 .. Len(g) : g[i] = d[i]

\* A part of a string between markers is framed by them only if it is the string.
LEMMA FramedIfWhole ==
    ASSUME NEW g, NEW d, Part(g, d),
           NEW x \in Nat, NEW y \in Nat, NEW u \in Nat, NEW v \in Nat,
           x # u, y # u, u # v, Marked(d, x, y, u, v), Framed(g, <<x, y>>, <<u, v>>)
    PROVE  g = d
  <1>1. PICK k \in Nat : \E c : Bytes(d, k, c, x, y, u, v)
    BY DEF Marked
  <1>2. PICK c : Bytes(d, k, c, x, y, u, v)
    BY <1>1
  <1>3. Len(d) = k + 4
    BY <1>2 DEF Bytes
  <1>4. /\ g \in Seq(Nat) /\ d \in Seq(Nat) /\ Len(g) <= Len(d)
        /\ \A i \in 1 .. Len(g) : g[i] = d[i]
    BY DEF Part
  <1>5. Len(g) >= 2 /\ g[Len(g) - 1] = u /\ g[Len(g)] = v
    BY <1>4, FramedIs
  <1>6. PICK n \in Nat : n = Len(g) /\ n >= 2 /\ n <= k + 4
    BY <1>3, <1>4, <1>5, LenProperties
  <1>7. d[n - 1] = u /\ d[n] = v
    <2>1. n - 1 \in 1 .. n /\ n \in 1 .. n
      BY <1>6
    <2>2. QED
      BY <1>4, <1>5, <1>6, <2>1
  <1>8. n = k + 4
    BY <1>2, <1>6, <1>7, CutPlain
  <1>9. Len(g) = Len(d)
    BY <1>3, <1>6, <1>8
  <1>10. QED
    BY <1>4, <1>9, SeqEqual

\* recv returns a part of the payload if it began where the payload begins.
LEMMA GotPart ==
    ASSUME TypeOK, start = Width + 1
    PROVE  Part(Got, frame.data)
  <1>1. frame.data \in Seq(Nat) /\ Len(Stream) = 1 + Width + Len(frame.data)
        /\ \A i \in 1 .. Len(frame.data) : Stream[1 + Width + i] = frame.data[i]
    BY StreamIs DEF TypeOK
  <1>2. PICK w \in Nat, r \in Nat, k \in Nat :
           w = Width /\ r = read /\ k = Len(frame.data) /\ r <= 1 + w + k /\ w + 1 <= r
    <2>1. /\ Width \in Nat /\ read \in Nat /\ start <= read
          /\ read <= written /\ written <= Len(Stream) /\ written \in Nat
      BY StreamKept
    <2>2. PICK k \in Nat, l \in Nat : k = Len(frame.data) /\ l = Len(Stream) /\ l = 1 + Width + k
      BY <1>1, LenProperties, StreamKept
    <2>3. read <= l
      <3>1. PICK z \in Nat, y \in Nat : z = written /\ y = read /\ y <= z /\ z <= l
        BY <2>1, <2>2
      <3>2. y <= l
        BY ONLY <3>1, y \in Nat, z \in Nat, l \in Nat
      <3>3. QED
        BY <3>1, <3>2
    <2>4. Width + 1 <= read
      BY <2>1
    <2>5. QED
      BY <2>1, <2>2, <2>3, <2>4
  <1>3. PICK n \in Nat : n = r - (w + 1) /\ n <= k
    <2>1. r <= 1 + w + k /\ w + 1 <= r
      BY <1>2
    <2>2. r - (w + 1) \in Nat /\ r - (w + 1) <= k
      BY ONLY <2>1, w \in Nat, r \in Nat, k \in Nat
    <2>3. QED
      BY <2>2
  <1>4. /\ Got \in Seq(Nat) /\ Len(Got) = n
        /\ \A i \in 1 .. n : Got[i] = Stream[start + i]
    BY <1>2, <1>3, GotIs
  <1>5. ASSUME NEW i \in 1 .. n
        PROVE  Got[i] = frame.data[i]
    <2>1. i \in 1 .. k /\ start + i = 1 + w + i
      BY <1>2, <1>3
    <2>2. QED
      BY <1>1, <1>2, <1>4, <2>1
  <1>6. QED
    BY <1>1, <1>2, <1>3, <1>4, <1>5 DEF Part

\* Of a list, a check or an answer.
LEMMA UnderstoodPlain ==
    ASSUME TypeOK, start = Width + 1, type = Stream[1], ~OfFile
    PROVE  Understood \in {Meaning, Nothing}
  <1>1. PICK g, d : g = Got /\ d = frame.data /\ Part(g, d)
    BY GotPart
  <1>2. /\ g = Got /\ d = frame.data /\ g \in Seq(Nat) /\ d \in Seq(Nat)
        /\ Len(g) <= Len(d) /\ \A i \in 1 .. Len(g) : g[i] = d[i]
    BY <1>1 DEF Part
  <1>3. frame \in Frames /\ type = 0
    BY StreamIs DEF TypeOK
  <1>4. /\ 209 \in Nat /\ 94 \in Nat /\ 174 \in Nat /\ 238 \in Nat
        /\ 209 # 174 /\ 94 # 174 /\ 174 # 238
    OBVIOUS
  <1>5. /\ 254 \in Nat /\ 237 \in Nat /\ 250 \in Nat /\ 206 \in Nat
        /\ 254 # 250 /\ 237 # 250 /\ 250 # 206
    OBVIOUS
  <1>6. /\ 240 \in Nat /\ 221 \in Nat /\ 254 # 240 /\ 237 # 240 /\ 240 # 221
    OBVIOUS
  <1>7. Framed(g, <<209, 94>>, <<174, 238>>) => g[1] = 209 /\ g[1] = d[1]
    <2>1. ASSUME Framed(g, <<209, 94>>, <<174, 238>>)
          PROVE  Len(g) >= 2 /\ g[1] = 209
      BY ONLY <1>2, <1>4, <2>1, FramedIs
    <2>2. Len(g) >= 2 => 1 \in 1 .. Len(g)
      BY <1>2, LenProperties
    <2>3. QED
      BY <1>2, <2>1, <2>2
  <1>8. Framed(g, <<254, 237>>, <<250, 206>>) => g[1] = 254 /\ g[1] = d[1]
    <2>1. ASSUME Framed(g, <<254, 237>>, <<250, 206>>)
          PROVE  Len(g) >= 2 /\ g[1] = 254
      BY ONLY <1>2, <1>5, <2>1, FramedIs
    <2>2. Len(g) >= 2 => 1 \in 1 .. Len(g)
      BY <1>2, LenProperties
    <2>3. QED
      BY <1>2, <2>1, <2>2
  <1>9. CASE frame.kind = "list"
    <2>1. Marked(d, 209, 94, 174, 238)
      BY <1>2, <1>3, <1>9, FrameIs
    <2>2. d[1] = 209
      BY <2>1 DEF Marked, Bytes
    <2>3. ~Framed(g, PING_PREFIX, PING_POSTFIX)
      BY <1>8, <2>2 DEF PING_PREFIX, PING_POSTFIX
    <2>4. Framed(g, LIST_PREFIX, LIST_POSTFIX) => g = d
      <3>1. PICK x \in Nat, y \in Nat, u \in Nat, v \in Nat :
               x = 209 /\ y = 94 /\ u = 174 /\ v = 238 /\ x # u /\ y # u /\ u # v
        OBVIOUS
      <3>2. Marked(d, x, y, u, v)
        BY <2>1, <3>1
      <3>3. ASSUME Framed(g, <<x, y>>, <<u, v>>)
            PROVE  g = d
        BY ONLY <1>1, <3>1, <3>2, <3>3, x \in Nat, y \in Nat, u \in Nat, v \in Nat,
           FramedIfWhole
      <3>4. QED
        BY <3>1, <3>3 DEF LIST_PREFIX, LIST_POSTFIX
    <2>5. Understood = IF Framed(g, LIST_PREFIX, LIST_POSTFIX)
                       THEN [is |-> "list", content |-> Content(g)] ELSE Nothing
      BY <1>2, <1>3, <1>9, <2>3 DEF Understood
    <2>6. Meaning = [is |-> "list", content |-> Content(d)]
      BY <1>2, <1>9 DEF Meaning
    <2>7. QED
      BY <2>4, <2>5, <2>6
  <1>10. CASE frame.kind = "ping"
    <2>1. Marked(d, 254, 237, 250, 206)
      BY <1>2, <1>3, <1>10, FrameIs
    <2>2. d[1] = 254
      BY <2>1 DEF Marked, Bytes
    <2>3. ~Framed(g, LIST_PREFIX, LIST_POSTFIX)
      BY <1>7, <2>2 DEF LIST_PREFIX, LIST_POSTFIX
    <2>4. Framed(g, PING_PREFIX, PING_POSTFIX) => g = d
      <3>1. PICK x \in Nat, y \in Nat, u \in Nat, v \in Nat :
               x = 254 /\ y = 237 /\ u = 250 /\ v = 206 /\ x # u /\ y # u /\ u # v
        OBVIOUS
      <3>2. Marked(d, x, y, u, v)
        BY <2>1, <3>1
      <3>3. ASSUME Framed(g, <<x, y>>, <<u, v>>)
            PROVE  g = d
        BY ONLY <1>1, <3>1, <3>2, <3>3, x \in Nat, y \in Nat, u \in Nat, v \in Nat,
           FramedIfWhole
      <3>4. QED
        BY <3>1, <3>3 DEF PING_PREFIX, PING_POSTFIX
    <2>5. Understood = IF Framed(g, PING_PREFIX, PING_POSTFIX)
                       THEN [is |-> "ping", content |-> Content(g)] ELSE Nothing
      BY <1>2, <1>3, <1>10, <2>3 DEF Understood
    <2>6. Meaning = [is |-> "ping", content |-> Content(d)]
      BY <1>2, <1>10 DEF Meaning
    <2>7. QED
      BY <2>4, <2>5, <2>6
  <1>11. CASE frame.kind = "pong"
    <2>1. Marked(d, 254, 237, 240, 221)
      BY <1>2, <1>3, <1>11, FrameIs
    <2>2. Framed(g, PONG_PREFIX, PONG_POSTFIX) => g = d
      <3>1. PICK x \in Nat, y \in Nat, u \in Nat, v \in Nat :
               x = 254 /\ y = 237 /\ u = 240 /\ v = 221 /\ x # u /\ y # u /\ u # v
        OBVIOUS
      <3>2. Marked(d, x, y, u, v)
        BY <2>1, <3>1
      <3>3. ASSUME Framed(g, <<x, y>>, <<u, v>>)
            PROVE  g = d
        BY ONLY <1>1, <3>1, <3>2, <3>3, x \in Nat, y \in Nat, u \in Nat, v \in Nat,
           FramedIfWhole
      <3>4. QED
        BY <3>1, <3>3 DEF PONG_PREFIX, PONG_POSTFIX
    <2>3. Understood = IF Framed(g, PONG_PREFIX, PONG_POSTFIX)
                       THEN [is |-> "pong", content |-> Content(g)] ELSE Nothing
      BY <1>2, <1>3, <1>11 DEF Understood
    <2>4. Meaning = [is |-> "pong", content |-> Content(d)]
      BY <1>2, <1>11 DEF Meaning
    <2>5. QED
      BY <2>2, <2>3, <2>4
  <1>12. QED
    BY <1>3, <1>9, <1>10, <1>11, FrameIs DEF OfFile

\* A layer that is whole is read back, opened, and the message in it read.
LEMMA LayerComesBack ==
    ASSUME frame \in Frames, frame.kind = "file"
    PROVE  OfLayer(Deserialize(frame.data)) = Meaning
  <1>1. IsLayer(frame)
    BY FrameIs
  <1>2. PICK o : o = Outer(frame)
    OBVIOUS
  <1>3. PICK m : m = Inner(frame)
    OBVIOUS
  <1>4. /\ IsMessage(o) /\ frame.data = Serialize(o)
         /\ IsMessage(m) /\ frame.plain = Serialize(m)
    BY <1>1, <1>2, <1>3, LayerIs
  <1>5. /\ o.from = frame.hop /\ o.to = frame.sent.to /\ o.type = 0 /\ o.body = frame.cipher
         /\ m.from = frame.sent.from /\ m.to = frame.sent.to /\ m.type = 1
         /\ m.body = frame.sent.text
    BY <1>2, <1>3 DEF Outer, Inner
  <1>6. Deserialize(frame.data) = [is |-> "message", from |-> o.from, to |-> o.to,
                                   type |-> o.type,
                                   body |-> IF o.type = 1 THEN Text(o.body) ELSE o.body]
    BY <1>4, MessageComesBack
  <1>7. Deserialize(frame.plain) = [is |-> "message", from |-> m.from, to |-> m.to,
                                    type |-> m.type,
                                    body |-> IF m.type = 1 THEN Text(m.body) ELSE m.body]
    BY <1>4, MessageComesBack
  <1>8. Text(m.body) = UpToNul(frame.sent.text)
    <2>1. frame.sent.text \in Seq(Nat) /\ Len(frame.sent.text) < Block
      BY <1>1 DEF IsLayer
    <2>2. QED
      BY <1>5, <2>1, TextIs
  <1>9. Deserialize(frame.data) = [is |-> "message", from |-> frame.hop,
                                   to |-> frame.sent.to, type |-> 0, body |-> frame.cipher]
    BY <1>6, <1>5
  <1>10. Deserialize(frame.plain) = Meaning
    BY <1>7, <1>8, <1>5 DEF Meaning
  <1>11. QED
    BY <1>9, <1>10 DEF OfLayer, Opened

\* The length of the first name in a file.
LEMMA NameLength ==
    ASSUME frame \in Frames, frame.kind = "file"
    PROVE  Value(SubSeq(frame.data, 3, 2 + Width)) = Len(Outer(frame).from)
  <1>1. IsLayer(frame) /\ Written(frame.data, Outer(frame))
    BY FrameIs
  <1>2. PICK m, d : m = Outer(frame) /\ d = frame.data /\ IsMessage(m) /\ Written(d, m)
    BY <1>1, LayerIs
  <1>3. PICK a \in Nat, b \in Nat, c \in Nat, w \in Nat :
           /\ a = Len(m.from) /\ b = Len(m.to) /\ c = Len(m.body) /\ w = Width
           /\ a < Power[Width]
    <2>1. m.from \in Seq(Nat) /\ m.to \in Seq(Nat) /\ m.body \in Seq(Nat) /\ ~TooLarge(Len(m.from))
      BY <1>2 DEF IsMessage
    <2>2. Len(m.from) \in Nat /\ Len(m.to) \in Nat /\ Len(m.body) \in Nat /\ Width \in Nat
      BY <2>1, LenProperties, CodecAssumption
    <2>3. Len(m.from) < Power[Width]
      BY <2>1, <2>2, NotTooLarge
    <2>4. QED
      BY <2>2, <2>3
  <1>4. /\ d \in Seq(Nat) /\ Len(d) = 2 + w + a + w + b + 4 + c
        /\ \A i \in 1 .. w : d[2 + i] = Digits(a)[i]
    BY <1>2, <1>3 DEF Written, Header
  <1>5. PICK n \in Nat, x \in Nat, y \in Nat :
             n = 2 /\ x = n + 1 /\ y = n + w /\ x = 3 /\ y = 2 + w
    OBVIOUS
  <1>6. PICK g : g = SubSeq(d, x, y)
    OBVIOUS
  <1>7. g \in Seq(Nat) /\ Len(g) = w /\ \A i \in 1 .. w : g[i] = d[n + i]
    <2>1. n + w <= Len(d)
      BY <1>4, <1>5
    <2>2. QED
      BY ONLY <1>4, <1>5, <1>6, <2>1, n \in Nat, w \in Nat, CutOut
  <1>8. /\ Digits(a) \in Seq(Nat) /\ Len(Digits(a)) = w /\ Value(Digits(a)) = a
    BY <1>3, DigitsSeq, ValueOfDigits
  <1>9. Len(g) = Len(Digits(a)) /\ \A i \in 1 .. Len(g) : g[i] = Digits(a)[i]
    BY <1>4, <1>5, <1>7, <1>8
  <1>10. g = Digits(a)
    BY ONLY <1>7, <1>8, <1>9, SeqEqual
  <1>11. QED
    BY <1>2, <1>3, <1>5, <1>6, <1>8, <1>10

\* Of a file.
LEMMA UnderstoodFile ==
    ASSUME TypeOK, start = Width + 1, type = Stream[1], frame.kind = "file"
    PROVE  \/ Understood \in {Meaning, Nothing, Refused}
           \/ Understood = Dies /\ CutInName
  <1>1. PICK g, d : /\ g = Got /\ d = frame.data /\ g \in Seq(Nat) /\ d \in Seq(Nat)
                    /\ Len(g) <= Len(d) /\ \A i \in 1 .. Len(g) : g[i] = d[i]
    BY GotPart DEF Part
  <1>2. frame \in Frames /\ type = 1
    BY StreamIs DEF TypeOK, OfFile
  <1>3. Understood = OfLayer(Deserialize(g))
    BY <1>1, <1>2 DEF Understood
  <1>4. IsLayer(frame) /\ Written(d, Outer(frame))
    BY <1>1, <1>2, FrameIs
  <1>5. PICK o : /\ o = Outer(frame) /\ IsMessage(o) /\ Written(d, o)
                 /\ o.body = frame.cipher /\ o.body # <<>>
    BY <1>4, LayerIs DEF Outer
  <1>6. CASE Len(g) = Len(d)
    <2>1. g = d
      BY <1>1, <1>6, SeqEqual
    <2>2. Understood = Meaning
      BY <1>1, <1>2, <1>3, <2>1, LayerComesBack
    <2>3. QED
      BY <2>2
  <1>7. CASE Len(g) < Len(d)
    <2>1. Len(g) < Header(o) + Len(o.body)
      BY <1>5, <1>7 DEF Written
    <2>2. Begins(g, o)
      BY <1>1, <1>5 DEF Begins
    <2>3. CASE Deserialize(g) = Refused
      BY <1>3, <2>3 DEF OfLayer, Refused
    <2>4. CASE Deserialize(g) = Dies /\ Len(g) - 2 - Width \in 0 .. Len(o.from)
      <3>1. Understood = Dies
        BY <1>3, <2>4 DEF OfLayer, Dies
      <3>2. CutInName
        <4>1. Value(SubSeq(frame.data, 3, 2 + Width)) = Len(o.from)
          BY <1>2, <1>5, NameLength
        <4>2. QED
          BY <1>1, <2>4, <4>1 DEF CutInName
      <3>3. QED
        BY <3>1, <3>2
    <2>5. ASSUME NEW x, NEW y, NEW z, NEW s, s # o.body,
                 Deserialize(g) = [is |-> "message", from |-> x, to |-> y, type |-> z,
                                   body |-> IF z = 1 THEN Text(s) ELSE s]
          PROVE  Understood = Nothing
      <3>1. PICK m : m = Deserialize(g)
        OBVIOUS
      <3>2. m.is = "message" /\ m.to = y /\ m.type = z /\ (z = 0 => m.body = s)
        BY <2>5, <3>1
      <3>3. Understood = IF m.to # frame.sent.to \/ m.type # 0 THEN Nothing
                         ELSE IF m.body = frame.cipher THEN Deserialize(frame.plain)
                         ELSE Nothing
        BY <1>3, <3>1, <3>2 DEF OfLayer, Opened
      <3>4. QED
        BY <1>5, <2>5, <3>2, <3>3
    <2>6. QED
      BY <1>5, <2>1, <2>2, <2>3, <2>4, <2>5, CutMessage
  <1>8. Len(g) \in Nat /\ Len(d) \in Nat
    BY <1>1, LenProperties
  <1>9. QED
    BY <1>1, <1>6, <1>7, <1>8

\* Of what begins before the payload.
LEMMA UnderstoodEarly ==
    ASSUME TypeOK, start <= Width
    PROVE  Understood \in {Nothing, Refused}
  <1>1. type \in {0, 1}
    BY DEF TypeOK
  <1>2. CASE type = 0
    BY <1>2, NotFramed DEF Understood
  <1>3. CASE type = 1
    <2>1. PICK g : g = Got /\ g \in Seq(Nat)
      BY GotIs
    <2>2. Len(g) >= 2 => ~(g[1] = 222 /\ g[2] = 173)
      BY <2>1, NotPrefixed DEF NoPrefix
    <2>3. Deserialize(g) = Refused
      BY <2>1, <2>2, RefusedAtOnce
    <2>4. QED
      BY <1>3, <2>1, <2>3 DEF Understood, OfLayer, Refused
  <1>4. QED
    BY <1>1, <1>2, <1>3

LEMMA NothingIsFalse ==
    ASSUME TypeOK, Heard
    PROVE  NothingFalse
  <1>1. SUFFICES ASSUME rpc = "done"
                 PROVE  \/ Understood \in {Meaning, Nothing, Refused}
                        \/ Understood = Dies /\ CutInName
    BY DEF NothingFalse
  <1>2. start \in Nat /\ Width \in Nat /\ start <= Width + 1
    BY <1>1, StreamKept DEF TypeOK
  <1>3. CASE start <= Width
    BY <1>3, UnderstoodEarly
  <1>4. CASE start = Width + 1
    <2>1. type = Stream[1] /\ frame \in Frames
      BY <1>1, <1>4 DEF Heard, TypeOK
    <2>2. CASE ~OfFile
      BY <1>4, <2>1, <2>2, UnderstoodPlain
    <2>3. CASE frame.kind = "file"
      BY <1>4, <2>1, <2>3, UnderstoodFile
    <2>4. CASE frame.kind = "missing"
      <3>1. Part(Got, frame.data) /\ frame.data = <<>>
        BY <1>4, <2>1, <2>4, GotPart, StreamIs
      <3>2. PICK g : g = Got /\ g \in Seq(Nat) /\ Len(g) <= 0
        BY <3>1 DEF Part
      <3>3. Deserialize(g) = Refused
        <4>1. ~(Len(g) >= 2)
          BY <3>2, LenProperties
        <4>2. QED
          BY <3>2, <4>1, RefusedAtOnce
      <3>4. type = 1
        BY <2>1, <2>4, StreamIs DEF OfFile
      <3>5. Understood = Refused
        BY <3>2, <3>3, <3>4 DEF Understood, OfLayer, Refused
      <3>6. QED
        BY <3>5
    <2>5. QED
      BY <2>2, <2>3, <2>4 DEF OfFile
  <1>5. QED
    BY <1>2, <1>3, <1>4

\* However the stream is cut, and in whatever parts its bytes come, the receiver takes
\* it for what was meant or for nothing (tcp_client.cc, message_wrapper.cc, listen.cc):
\* no caller of recv compares lengths, so it is the markers that tell.
THEOREM NothingIsTakenForAnother == Spec => []NothingFalse
  <1>1. Init => TypeOK /\ Reading
    BY InitTypes
  <1>2. Init => Heard
    BY DEF Init, Heard
  <1>3. TypeOK /\ Reading /\ Heard /\ [Next]_vars => (TypeOK /\ Reading /\ Heard)'
    BY TypesKept, SenderHeard, ReceiverHeard DEF Next
  <1>4. TypeOK /\ Heard => NothingFalse
    BY NothingIsFalse
  <1>5. QED
    BY <1>1, <1>2, <1>3, <1>4, PTL DEF Spec

\* A string that begins and ends with the markers is framed.
LEMMA FramedBack ==
    ASSUME NEW g \in Seq(Nat), Len(g) >= 2,
           NEW x \in Nat, NEW y \in Nat, NEW u \in Nat, NEW v \in Nat,
           g[1] = x, g[2] = y, g[Len(g) - 1] = u, g[Len(g)] = v
    PROVE  Framed(g, <<x, y>>, <<u, v>>)
  <1>1. PICK s, t, l : s = <<x, y>> /\ t = <<u, v>> /\ l = Len(g) /\ l \in Nat /\ l >= 2
    <2>1. Len(g) \in Nat
      BY LenProperties
    <2>2. QED
      BY <2>1
  <1>2. s \in Seq(Nat) /\ Len(s) = 2 /\ s[1] = x /\ s[2] = y
    BY <1>1, TwoBytes
  <1>3. t \in Seq(Nat) /\ Len(t) = 2 /\ t[1] = u /\ t[2] = v
    BY <1>1, TwoBytes
  <1>4. PICK i \in Nat : i = 1 /\ i >= 1 /\ i + 1 = 2
    OBVIOUS
  <1>5. ASSUME NEW e \in Seq(Nat), Len(e) = 2, NEW f \in Seq(Nat), Len(f) >= 2,
               e[1] = f[1], e[2] = f[2]
        PROVE  IsPrefix(e, f)
    <2>1. i + 1 <= Len(e) /\ i + 1 <= Len(f)
      BY <1>4, <1>5
    <2>2. SubSeq(e, i, i + 1) = <<e[i], e[i + 1]>>
      BY ONLY <1>4, <2>1, i \in Nat, e \in Seq(Nat), TwoOf
    <2>3. SubSeq(f, i, i + 1) = <<f[i], f[i + 1]>>
      BY ONLY <1>4, <2>1, i \in Nat, f \in Seq(Nat), TwoOf
    <2>4. SubSeq(e, i, i + 1) = SubSeq(f, i, i + 1)
      BY <1>4, <1>5, <2>2, <2>3
    <2>5. QED
      BY <1>4, <1>5, <2>4 DEF IsPrefix
  <1>6. IsPrefix(s, g)
    <2>1. s[1] = g[1] /\ s[2] = g[2]
      BY <1>2
    <2>2. QED
      BY <1>2, <1>5, <2>1
  <1>7. /\ Reverse(t) \in Seq(Nat) /\ Len(Reverse(t)) = 2
        /\ Reverse(t)[1] = v /\ Reverse(t)[2] = u
    <2>1. /\ Reverse(t) \in Seq(Nat) /\ Len(Reverse(t)) = Len(t)
          /\ \A h \in 1 .. Len(t) : Reverse(t)[h] = t[Len(t) - h + 1]
      BY <1>3, ReverseIs
    <2>2. 1 \in 1 .. Len(t) /\ 2 \in 1 .. Len(t) /\ Len(t) - 1 + 1 = 2 /\ Len(t) - 2 + 1 = 1
      BY <1>3
    <2>3. QED
      BY <1>3, <2>1, <2>2
  <1>8. /\ Reverse(g) \in Seq(Nat) /\ Len(Reverse(g)) = l
        /\ Reverse(g)[1] = v /\ Reverse(g)[2] = u
    <2>1. /\ Reverse(g) \in Seq(Nat) /\ Len(Reverse(g)) = Len(g)
          /\ \A h \in 1 .. Len(g) : Reverse(g)[h] = g[Len(g) - h + 1]
      BY ReverseIs
    <2>2. 1 \in 1 .. l /\ 2 \in 1 .. l /\ l - 1 + 1 = l /\ l - 2 + 1 = l - 1
      BY <1>1
    <2>3. QED
      BY <1>1, <2>1, <2>2
  <1>9. IsPrefix(Reverse(t), Reverse(g))
    <2>1. Len(Reverse(g)) >= 2
      BY <1>1, <1>8
    <2>2. Reverse(t)[1] = Reverse(g)[1] /\ Reverse(t)[2] = Reverse(g)[2]
      BY <1>7, <1>8
    <2>3. PICK e \in Seq(Nat), f \in Seq(Nat) : e = Reverse(t) /\ f = Reverse(g)
      BY <1>7, <1>8
    <2>4. IsPrefix(e, f)
      BY <1>5, <1>7, <2>1, <2>2, <2>3
    <2>5. QED
      BY <2>3, <2>4
  <1>10. QED
    BY <1>1, <1>6, <1>9 DEF Framed, IsSuffix

LEMMA MarkedIsFramed ==
    ASSUME NEW d \in Seq(Nat), NEW x \in Nat, NEW y \in Nat, NEW u \in Nat, NEW v \in Nat,
           Marked(d, x, y, u, v)
    PROVE  Framed(d, <<x, y>>, <<u, v>>) /\ d[1] = x
  <1>1. PICK k \in Nat : \E c : Bytes(d, k, c, x, y, u, v)
    BY DEF Marked
  <1>2. PICK c : Bytes(d, k, c, x, y, u, v)
    BY <1>1
  <1>3. /\ Len(d) = k + 4 /\ d[1] = x /\ d[2] = y /\ d[k + 3] = u /\ d[k + 4] = v
    BY <1>2 DEF Bytes
  <1>4. Len(d) >= 2 /\ Len(d) - 1 = k + 3
    BY <1>3
  <1>5. d[Len(d) - 1] = u /\ d[Len(d)] = v
    BY <1>3, <1>4
  <1>6. QED
    BY <1>3, <1>4, <1>5, FramedBack

LEMMA PlainIsUnderstood ==
    ASSUME frame \in Frames, ~OfFile, type = 0, Got = frame.data
    PROVE  Understood = Meaning
  <1>1. PICK d : d = frame.data /\ d = Got /\ d \in Seq(Nat)
    BY StreamIs
  <1>2. CASE frame.kind = "list"
    <2>1. Marked(d, 209, 94, 174, 238)
      BY <1>1, <1>2, FrameIs
    <2>2. Framed(d, <<209, 94>>, <<174, 238>>)
      <3>1. PICK x \in Nat, y \in Nat, u \in Nat, v \in Nat :
               x = 209 /\ y = 94 /\ u = 174 /\ v = 238
        OBVIOUS
      <3>2. Framed(d, <<x, y>>, <<u, v>>)
        BY <1>1, <2>1, <3>1, MarkedIsFramed
      <3>3. QED
        BY <3>1, <3>2
    <2>3. QED
      BY <1>1, <1>2, <2>2 DEF Understood, Meaning, LIST_PREFIX, LIST_POSTFIX
  <1>3. CASE frame.kind = "ping"
    <2>1. Marked(d, 254, 237, 250, 206)
      BY <1>1, <1>3, FrameIs
    <2>2. Framed(d, <<254, 237>>, <<250, 206>>) /\ d[1] = 254
      <3>1. PICK x \in Nat, y \in Nat, u \in Nat, v \in Nat :
               x = 254 /\ y = 237 /\ u = 250 /\ v = 206
        OBVIOUS
      <3>2. Framed(d, <<x, y>>, <<u, v>>) /\ d[1] = x
        BY <1>1, <2>1, <3>1, MarkedIsFramed
      <3>3. QED
        BY <3>1, <3>2
    <2>3. ~Framed(d, <<209, 94>>, <<174, 238>>)
      <3>1. PICK x \in Nat, y \in Nat, u \in Nat, v \in Nat :
               x = 209 /\ y = 94 /\ u = 174 /\ v = 238
        OBVIOUS
      <3>2. Framed(d, <<x, y>>, <<u, v>>) => d[1] = x
        BY <1>1, FramedIs
      <3>3. QED
        BY <2>2, <3>1, <3>2
    <2>4. QED
      BY <1>1, <1>3, <2>2, <2>3
         DEF Understood, Meaning, LIST_PREFIX, LIST_POSTFIX, PING_PREFIX, PING_POSTFIX
  <1>4. CASE frame.kind = "pong"
    <2>1. Marked(d, 254, 237, 240, 221)
      BY <1>1, <1>4, FrameIs
    <2>2. Framed(d, <<254, 237>>, <<240, 221>>)
      <3>1. PICK x \in Nat, y \in Nat, u \in Nat, v \in Nat :
               x = 254 /\ y = 237 /\ u = 240 /\ v = 221
        OBVIOUS
      <3>2. Framed(d, <<x, y>>, <<u, v>>)
        BY <1>1, <2>1, <3>1, MarkedIsFramed
      <3>3. QED
        BY <3>1, <3>2
    <2>3. QED
      BY <1>1, <1>4, <2>2 DEF Understood, Meaning, PONG_PREFIX, PONG_POSTFIX
  <1>5. QED
    BY <1>2, <1>3, <1>4, FrameIs DEF OfFile

\* With no fault the receiver understands what was meant: what serialize writes and the
\* markers frame is what deserialize and the listener read (message_wrapper.cc, listen.cc).
THEOREM CleanTransferIsUnderstood == Spec => []UnderstoodWhenClean
  <1>1. TypeOK /\ Clean => UnderstoodWhenClean
    <2>1. SUFFICES ASSUME TypeOK, Clean, rpc = "done", ~fault
                   PROVE  Understood = Meaning
      BY DEF UnderstoodWhenClean
    <2>2. type = Stream[1] /\ Got = frame.data /\ frame \in Frames
      BY <2>1, WholeIfClean DEF WholeWhenClean, TypeOK
    <2>3. CASE OfFile
      <3>1. frame.kind = "file" /\ type = 1
        BY <2>1, <2>2, <2>3, NotMissing, StreamIs DEF OfFile
      <3>2. QED
        BY <2>2, <3>1, LayerComesBack DEF Understood
    <2>4. CASE ~OfFile
      BY <2>2, <2>4, StreamIs, PlainIsUnderstood
    <2>5. QED
      BY <2>3, <2>4
  <1>2. Spec => [](TypeOK /\ Clean)
    BY CleanAlways
  <1>3. QED
    BY <1>1, <1>2, PTL

=============================================================================

----------------------------- MODULE CbufProofs -----------------------------
(***************************************************************************)
(* Facts about the indices of a circular buffer, for every size and every  *)
(* width of the index: a buffer whose m_putIdx has counted p elements and  *)
(* whose m_getIdx has counted g of them holds p - g elements, in slots of  *)
(* their own.                                                              *)
(***************************************************************************)
EXTENDS Cbuf, TLAPS

LEMMA Division ==
  ASSUME NEW a \in Int, NEW n \in Nat \ {0}
  PROVE  /\ a = n * (a \div n) + (a % n)
         /\ a % n \in 0 .. n - 1
         /\ a \div n \in Int
OBVIOUS

\* The remainder is the only one in its range.
LEMMA UniqueRemainder ==
  ASSUME NEW n \in Nat \ {0}, NEW q \in Int, NEW r \in 0 .. n - 1,
         NEW a \in Int, a = n * q + r
  PROVE  a % n = r
<1> DEFINE Q == a \div n
           R == a % n
<1>1. a = n * Q + R /\ R \in 0 .. n - 1 /\ Q \in Int
  BY Division
<1> HIDE DEF Q, R
<1>2. ~(Q > q)
  <2> SUFFICES ASSUME Q > q PROVE FALSE
    OBVIOUS
  <2>1. Q - q - 1 \in Nat
    BY <1>1
  <2>2. n * (Q - q - 1) >= 0
    BY <2>1
  <2>3. n * (Q - q - 1) = n * Q - n * q - n
    BY <1>1
  <2> QED
    BY <2>2, <2>3, <1>1
<1>3. ~(Q < q)
  <2> SUFFICES ASSUME Q < q PROVE FALSE
    OBVIOUS
  <2>1. q - Q - 1 \in Nat
    BY <1>1
  <2>2. n * (q - Q - 1) >= 0
    BY <2>1
  <2>3. n * (q - Q - 1) = n * q - n * Q - n
    BY <1>1
  <2> QED
    BY <2>2, <2>3, <1>1
<1>4. Q = q
  BY <1>1, <1>2, <1>3
<1> QED
  BY <1>4, <1>1 DEF Q, R

\* A multiple of n more or less does not change the remainder.
LEMMA SameRemainder ==
  ASSUME NEW n \in Nat \ {0}, NEW a \in Int, NEW b \in Int, NEW k \in Int,
         b = a + n * k
  PROVE  b % n = a % n
<1> DEFINE q == a \div n
           r == a % n
<1>1. a = n * q + r /\ r \in 0 .. n - 1 /\ q \in Int
  BY Division
<1> HIDE DEF q, r
<1>2. n * (q + k) = n * q + n * k
  BY <1>1
<1>3. b = n * (q + k) + r /\ q + k \in Int
  BY <1>1, <1>2
<1>4. b % n = r
  BY <1>1, <1>3, UniqueRemainder
<1> QED
  BY <1>4 DEF r

LEMMA RemainderOfSum ==
  ASSUME NEW n \in Nat \ {0}, NEW a \in Int, NEW d \in Int
  PROVE  ((a % n) + d) % n = (a + d) % n
<1> DEFINE q == a \div n
           r == a % n
<1>1. a = n * q + r /\ r \in 0 .. n - 1 /\ q \in Int
  BY Division
<1> HIDE DEF q, r
<1>2. n * (- q) = - (n * q)
  BY <1>1
<1>3. r + d = (a + d) + n * (- q) /\ - q \in Int /\ r + d \in Int /\ a + d \in Int
  BY <1>1, <1>2
<1>4. (r + d) % n = (a + d) % n
  BY <1>3, SameRemainder
<1> QED
  BY <1>4 DEF r

-----------------------------------------------------------------------------
LEMMA Sizes ==
  /\ CbufSize \in Nat \ {0} /\ IndexSize \in Nat \ {0}
  /\ IndexSize > CbufSize
  /\ \E k \in Nat : IndexSize = CbufSize * k
<1>1. PICK k \in 2 .. IndexSize : IndexSize = k * CbufSize
  BY CbufAssumption
<1>2. k * CbufSize = CbufSize * k /\ k \in Nat
  BY <1>1, CbufAssumption
<1>3. (k - 2) * CbufSize >= 0 /\ (k - 2) * CbufSize = k * CbufSize - 2 * CbufSize
  BY <1>1, CbufAssumption
<1> QED
  BY <1>1, <1>2, <1>3, CbufAssumption

\* The slot of the n-th element follows from the reduced index.
LEMMA SlotOfIndex ==
  ASSUME NEW n \in Int
  PROVE  Slot(n % IndexSize) = n % CbufSize
<1>1. PICK k \in Nat : IndexSize = CbufSize * k
  BY Sizes
<1> DEFINE q == n \div IndexSize
           r == n % IndexSize
<1>2. n = IndexSize * q + r /\ r \in 0 .. IndexSize - 1 /\ q \in Int
  BY Division, Sizes
<1> HIDE DEF q, r
<1>3. CbufSize * (k * q) = IndexSize * q /\ k * q \in Int
  BY <1>1, <1>2, Sizes
<1>4. n = r + CbufSize * (k * q) /\ r \in Int
  BY <1>2, <1>3, Sizes
<1>5. n % CbufSize = r % CbufSize
  BY <1>3, <1>4, SameRemainder, Sizes
<1> QED
  BY <1>5 DEF Slot, r

LEMMA NextOfIndex ==
  ASSUME NEW n \in Int
  PROVE  NextIdx(n % IndexSize) = (n + 1) % IndexSize
<1>1. IndexSize \in Nat \ {0} /\ 1 \in Int
  BY Sizes
<1>2. ((n % IndexSize) + 1) % IndexSize = (n + 1) % IndexSize
  BY <1>1, RemainderOfSum
<1> QED
  BY <1>2 DEF NextIdx

LEMMA IndexType ==
  ASSUME NEW n \in Int
  PROVE  n % IndexSize \in Indices /\ n % CbufSize \in Slots
BY Division, Sizes DEF Indices, Slots

\* Elements less than a buffer apart have different slots.
LEMMA SlotsDiffer ==
  ASSUME NEW a \in Int, NEW b \in Int, a < b, b - a < CbufSize
  PROVE  a % CbufSize # b % CbufSize
<1> DEFINE qa == a \div CbufSize
           ra == a % CbufSize
           qb == b \div CbufSize
<1>1. a = CbufSize * qa + ra /\ ra \in 0 .. CbufSize - 1 /\ qa \in Int
  BY Division, Sizes
<1>2. SUFFICES ASSUME ra = b % CbufSize PROVE FALSE
  OBVIOUS
<1>3. b = CbufSize * qb + ra /\ qb \in Int
  BY <1>2, Division, Sizes
<1> HIDE DEF qa, ra, qb
<1>4. CbufSize * (qb - qa) = CbufSize * qb - CbufSize * qa
  BY <1>1, <1>3, Sizes
<1>5. CbufSize * (qb - qa) > 0 /\ CbufSize * (qb - qa) < CbufSize
  BY <1>1, <1>3, <1>4, Sizes
<1>6. qb - qa > 0
  <2> SUFFICES ASSUME qb - qa <= 0 PROVE FALSE
    BY <1>1, <1>3
  <2>1. qa - qb \in Nat
    BY <1>1, <1>3
  <2>2. CbufSize * (qa - qb) >= 0
    BY <2>1, Sizes
  <2>3. CbufSize * (qa - qb) = - (CbufSize * (qb - qa))
    BY <1>1, <1>3, Sizes
  <2> QED
    BY <2>2, <2>3, <1>5, <1>1, <1>3, Sizes
<1>7. CbufSize * (qb - qa - 1) >= 0
  BY <1>1, <1>3, <1>6, Sizes
<1>8. CbufSize * (qb - qa - 1) = CbufSize * (qb - qa) - CbufSize
  BY <1>1, <1>3, Sizes
<1> QED
  BY <1>5, <1>7, <1>8, <1>1, <1>3, Sizes

(***************************************************************************)
(* CBUF_Len is the number of elements, also when the indices have wrapped, *)
(* as long as no more than CbufSize elements are in the buffer.            *)
(***************************************************************************)
THEOREM LenCounts ==
  ASSUME NEW cbuf, NEW g \in Nat, NEW p \in Nat,
         g <= p, p - g <= CbufSize,
         cbuf.m_getIdx = g % IndexSize, cbuf.m_putIdx = p % IndexSize
  PROVE  CBUF_Len(cbuf) = p - g
<1> DEFINE r == g % IndexSize
           q == g \div IndexSize
<1>0. g \in Int /\ IndexSize \in Nat \ {0}
  BY Sizes
<1>1. g = IndexSize * q + r /\ r \in 0 .. IndexSize - 1 /\ q \in Int
  BY <1>0, Division
<1>2. CBUF_Len(cbuf) = ((p % IndexSize) - r) % IndexSize
  BY DEF CBUF_Len
<1> HIDE DEF r, q
<1>3. ((p % IndexSize) + (- r)) % IndexSize = (p + (- r)) % IndexSize
  <2>1. - r \in Int /\ p \in Int /\ IndexSize \in Nat \ {0}
    BY <1>1, Sizes
  <2> QED
    BY <2>1, RemainderOfSum
<1>4. p % IndexSize \in Int
  BY Division, Sizes
<1>5. (p + (- r)) % IndexSize = p - g
  <2>1. p + (- r) = IndexSize * q + (p - g) /\ p + (- r) \in Int
    BY <1>1, Sizes
  <2>2. p - g \in 0 .. IndexSize - 1
    BY Sizes
  <2> QED
    BY <1>1, <2>1, <2>2, UniqueRemainder, Sizes
<1>6. (p % IndexSize) - r = (p % IndexSize) + (- r)
  BY <1>1, <1>4, Sizes
<1> QED
  BY <1>2, <1>3, <1>5, <1>6
=============================================================================

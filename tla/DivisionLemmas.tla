---------------------------- MODULE DivisionLemmas ----------------------------
(***************************************************************************)
(* Division with remainder: what the proofs about rings and slots need of  *)
(* it.                                                                     *)
(***************************************************************************)
EXTENDS Integers, TLAPS

LEMMA DivMod ==
    ASSUME NEW n \in Nat \ {0}, NEW a \in Int
    PROVE  a % n \in 0..(n - 1) /\ a \div n \in Int /\ a = n * (a \div n) + (a % n)
  OBVIOUS

LEMMA MulAtLeast ==
    ASSUME NEW n \in Nat \ {0}, NEW k \in Int, k >= 1
    PROVE  n * k >= n
  OBVIOUS

LEMMA MulAtMost ==
    ASSUME NEW n \in Nat \ {0}, NEW k \in Int, k =< -1
    PROVE  n * k =< -n
  OBVIOUS

LEMMA Distribute ==
    ASSUME NEW n \in Int, NEW p \in Int, NEW q \in Int
    PROVE  n * (p - q) = n * p - n * q /\ n * (p + q) = n * p + n * q
  OBVIOUS

(* The remainder is unique. *)
LEMMA ModUnique ==
    ASSUME NEW n \in Nat \ {0}, NEW a \in Int, NEW q \in Int, NEW r \in 0..(n - 1),
           a = n * q + r
    PROVE  a % n = r
  <1> DEFINE p == a \div n
             s == a % n
  <1>1. s \in 0..(n - 1) /\ p \in Int /\ a = n * p + s
    BY DivMod
  <1> HIDE DEF p, s
  <1>2. n * (p - q) = r - s
    BY <1>1, Distribute
  <1>3. r - s < n /\ r - s > -n
    BY <1>1
  <1>4. ~(p - q >= 1)
    BY <1>1, <1>2, <1>3, MulAtLeast
  <1>5. ~(p - q =< -1)
    BY <1>1, <1>2, <1>3, MulAtMost
  <1>6. p = q
    BY <1>1, <1>4, <1>5
  <1>7. r = s
    BY <1>1, <1>6
  <1> QED BY <1>7 DEF s

(* A multiple of n does not change the remainder. *)
LEMMA ModShift ==
    ASSUME NEW n \in Nat \ {0}, NEW a \in Int, NEW k \in Int
    PROVE  (a + n * k) % n = a % n
  <1>1. PICK q \in Int, r \in 0..(n - 1) : a = n * q + r /\ a % n = r
    BY DivMod
  <1>2. n * (q + k) = n * q + n * k /\ n * q \in Int /\ n * k \in Int
    BY Distribute
  <1>3. a + n * k = n * (q + k) + r /\ q + k \in Int /\ a + n * k \in Int
    BY <1>1, <1>2
  <1>4. (a + n * k) % n = r
    BY <1>3, ModUnique
  <1> QED BY <1>1, <1>4

(* Masking after the wrap of the positions is masking. *)
LEMMA ModMod ==
    ASSUME NEW n \in Nat \ {0}, NEW k \in Nat \ {0}, NEW m, m = n * k, NEW a \in Int
    PROVE  (a % m) % n = a % n
  <1>1. m \in Nat \ {0}
    OBVIOUS
  <1>2. PICK q \in Int, r \in 0..(m - 1) : a = m * q + r /\ a % m = r
    BY <1>1, DivMod
  <1>3. m * q = n * (k * q) /\ k * q \in Int
    OBVIOUS
  <1>4. n * (k * q) \in Int
    BY <1>3
  <1>5. a = r + n * (k * q) /\ r \in Int
    BY <1>1, <1>2, <1>3, <1>4
  <1>6. a % n = r % n
    BY <1>3, <1>5, ModShift
  <1> QED BY <1>2, <1>6

(* Two different positions less than n apart lie in different slots. *)
LEMMA ModDistinct ==
    ASSUME NEW n \in Nat \ {0}, NEW a \in Int, NEW b \in Int, a < b, b < a + n
    PROVE  a % n # b % n
  <1> SUFFICES ASSUME a % n = b % n PROVE FALSE
    OBVIOUS
  <1>1. PICK q \in Int, r \in 0..(n - 1) : a = n * q + r /\ a % n = r
    BY DivMod
  <1>2. PICK p \in Int, s \in 0..(n - 1) : b = n * p + s /\ b % n = s
    BY DivMod
  <1>3. n * (p - q) = b - a /\ n * p \in Int /\ n * q \in Int
    <2>1. n * p \in Int /\ n * q \in Int
      OBVIOUS
    <2>2. n * (p - q) = n * p - n * q
      BY Distribute
    <2> QED BY <1>1, <1>2, <2>1, <2>2
  <1>4. ~(p - q >= 1)
    BY <1>3, MulAtLeast
  <1>5. ~(p - q =< -1)
    BY <1>3, MulAtMost
  <1>6. p - q = 0
    BY <1>4, <1>5
  <1>7. n * 0 = 0
    OBVIOUS
  <1> QED BY <1>3, <1>6, <1>7

(* Remainders of what lies within n of zero. *)
LEMMA ModSmall ==
    ASSUME NEW n \in Nat \ {0}, NEW a \in 0..(n - 1)
    PROVE  a % n = a
  <1>1. a = n * 0 + a /\ a \in Int
    OBVIOUS
  <1> QED BY <1>1, ModUnique

LEMMA ModNegative ==
    ASSUME NEW n \in Nat \ {0}, NEW a \in Int, -n =< a, a < 0
    PROVE  a % n = a + n
  <1>1. n * (-1) = -n
    OBVIOUS
  <1>2. a = n * (-1) + (a + n) /\ a + n \in 0..(n - 1)
    BY <1>1
  <1> QED BY <1>2, ModUnique

(* A remainder may be taken before something is added. *)
LEMMA ModInner ==
    ASSUME NEW n \in Nat \ {0}, NEW a \in Int, NEW c \in Int
    PROVE  ((a % n) + c) % n = (a + c) % n
  <1>1. PICK q \in Int, r \in 0..(n - 1) : a = n * q + r /\ a % n = r
    BY DivMod
  <1>2. n * q \in Int /\ r + c \in Int
    OBVIOUS
  <1>3. a + c = (r + c) + n * q
    BY <1>1, <1>2
  <1>4. ((r + c) + n * q) % n = (r + c) % n
    BY <1>2, ModShift
  <1> QED BY <1>1, <1>3, <1>4
=============================================================================

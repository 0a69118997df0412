----------------------------- MODULE Remainders -----------------------------
(***************************************************************************)
(* Lemmas about remainders for a modulus M that is not a number but a      *)
(* constant of a model: the hour of the puzzle's clock, the day of the     *)
(* board's.                                                                *)
(***************************************************************************)
EXTENDS Integers, TLAPS

LEMMA Multiple ==
  ASSUME NEW M \in Nat, M > 0, NEW d \in Int, d >= 1
  PROVE  M * d >= M
OBVIOUS

LEMMA Division ==
  ASSUME NEW M \in Nat, M > 0, NEW x \in Int
  PROVE  /\ x \div M \in Int /\ x % M \in 0..(M - 1)
         /\ x = M * (x \div M) + (x % M)
OBVIOUS

(* Quotient and remainder are unique.                                      *)
LEMMA Remainder ==
  ASSUME NEW M \in Nat, M > 0, NEW q \in Int, NEW r \in 0..(M - 1)
  PROVE  (M * q + r) % M = r /\ (M * q + r) \div M = q
<1> DEFINE x == M * q + r
           p == x \div M
           s == x % M
<1>1. p \in Int /\ s \in 0..(M - 1) /\ x = M * p + s
  <2>1. x \in Int
    OBVIOUS
  <2> HIDE DEF x
  <2> QED
    BY <2>1, Division
<1> HIDE DEF p, s
<1>2. M * (p - q) = r - s /\ M * (q - p) = s - r
  BY <1>1
<1>3. ~(p - q >= 1)
  <2> SUFFICES ASSUME p - q >= 1 PROVE FALSE
    OBVIOUS
  <2>1. M * (p - q) >= M
    BY <1>1, Multiple
  <2> QED
    BY <2>1, <1>1, <1>2
<1>4. ~(q - p >= 1)
  <2> SUFFICES ASSUME q - p >= 1 PROVE FALSE
    OBVIOUS
  <2>1. M * (q - p) >= M
    BY <1>1, Multiple
  <2> QED
    BY <2>1, <1>1, <1>2
<1>5. p = q
  BY <1>1, <1>3, <1>4
<1>6. s = r
  BY <1>1, <1>2, <1>5
<1> QED
  BY <1>5, <1>6 DEF p, s

(* Once round changes nothing; a step on is a step on or back to 0.        *)
LEMMA OnceRound ==
  ASSUME NEW M \in Nat, M > 0, NEW x \in Int
  PROVE  /\ (x + M) % M = x % M /\ (x - M) % M = x % M
         /\ (x + 1) % M = IF (x % M) + 1 = M THEN 0 ELSE (x % M) + 1
<1> DEFINE q == x \div M
           r == x % M
<1>1. q \in Int /\ r \in 0..(M - 1) /\ x = M * q + r
  BY Division
<1> HIDE DEF q, r
<1>2. (x + M) % M = r
  <2>1. x + M = M * (q + 1) + r /\ q + 1 \in Int
    BY <1>1
  <2>2. (M * (q + 1) + r) % M = r
    BY <1>1, <2>1, Remainder
  <2> QED
    BY <2>1, <2>2
<1>3. (x - M) % M = r
  <2>1. x - M = M * (q - 1) + r /\ q - 1 \in Int
    BY <1>1
  <2>2. (M * (q - 1) + r) % M = r
    BY <1>1, <2>1, Remainder
  <2> QED
    BY <2>1, <2>2
<1>4. CASE r + 1 = M
  <2>1. x + 1 = M * (q + 1) + 0 /\ q + 1 \in Int /\ 0 \in 0..(M - 1)
    BY <1>1, <1>4
  <2>2. (M * (q + 1) + 0) % M = 0
    BY <2>1, Remainder
  <2> QED
    BY <1>2, <1>3, <1>4, <2>1, <2>2 DEF r
<1>5. CASE r + 1 # M
  <2>1. x + 1 = M * q + (r + 1) /\ r + 1 \in 0..(M - 1)
    BY <1>1, <1>5
  <2>2. (M * q + (r + 1)) % M = r + 1
    BY <1>1, <2>1, Remainder
  <2> QED
    BY <1>2, <1>3, <1>5, <2>1, <2>2 DEF r
<1> QED
  BY <1>4, <1>5

(* Whole turns change nothing, and a term may be replaced by its remainder.*)
LEMMA Shift ==
  ASSUME NEW M \in Nat, M > 0, NEW x \in Int, NEW k \in Int
  PROVE  (x + M * k) % M = x % M
<1> DEFINE q == x \div M
           r == x % M
<1>1. q \in Int /\ r \in 0..(M - 1) /\ x = M * q + r
  BY Division
<1> HIDE DEF q, r
<1>2. x + M * k = M * (q + k) + r /\ q + k \in Int
  BY <1>1
<1>3. (M * (q + k) + r) % M = r
  BY <1>1, <1>2, Remainder
<1> QED
  BY <1>2, <1>3 DEF r

LEMMA Reduced ==
  ASSUME NEW M \in Nat, M > 0, NEW x \in Int, NEW z \in Int
  PROVE  ((x % M) + z) % M = (x + z) % M /\ (z - (x % M)) % M = (z - x) % M
<1> DEFINE q == x \div M
           r == x % M
<1>1. q \in Int /\ r \in Int /\ x = M * q + r
  BY Division
<1> HIDE DEF q, r
<1>a. r + z \in Int /\ z - x \in Int
  BY <1>1
<1>2. ((r + z) + M * q) % M = (r + z) % M
  BY <1>1, <1>a, Shift
<1>3. ((z - x) + M * q) % M = (z - x) % M
  BY <1>1, <1>a, Shift
<1>4. (r + z) + M * q = x + z /\ (z - x) + M * q = z - r
  BY <1>1
<1> QED
  BY <1>2, <1>3, <1>4 DEF r
=============================================================================

---------------------------- MODULE ModuloLemmas ----------------------------
(***************************************************************************)
(* What the proofs need to know of `attempts % ask_every`: the engines     *)
(* find the soft limit with it, counting one attempt at a time.            *)
(***************************************************************************)
EXTENDS Integers, TLAPS

\* A multiple of n that lies in (-n, n] is 0 or n.
LEMMA MultipleInRange ==
    ASSUME NEW n \in Nat \ {0}, NEW d \in Int, n * d > -n, n * d <= n
    PROVE  d = 0 \/ d = 1
<1>1. CASE d >= 2
  <2>1. n * d >= n * 2 BY <1>1, SMT
  <2> QED BY <2>1, SMT
<1>2. CASE d <= -1
  <2>1. n * d <= n * (-1) BY <1>2, SMT
  <2> QED BY <2>1, SMT
<1> QED BY <1>1, <1>2, SMT

\* Quotient and remainder of a division.
LEMMA DivisionWithRemainder ==
    ASSUME NEW a \in Nat, NEW n \in Nat \ {0}
    PROVE  /\ a \div n \in Int
           /\ a % n \in Int
           /\ a = n * (a \div n) + (a % n)
           /\ 0 <= a % n
           /\ a % n < n
  BY SMT

\* The next number has the next remainder, or 0 when the remainder wraps:
\* the soft limit is met exactly when n attempts have gone by.
LEMMA NextRemainder ==
    ASSUME NEW a \in Nat, NEW n \in Nat \ {0}
    PROVE  \/ (a + 1) % n = (a % n) + 1
           \/ (a + 1) % n = 0 /\ (a % n) + 1 = n
<1> DEFINE q == a \div n
           r == a % n
           p == (a + 1) \div n
           s == (a + 1) % n
<1>1. /\ q \in Int /\ r \in Int
      /\ a = n * q + r /\ 0 <= r /\ r < n
  BY DivisionWithRemainder
<1>2. /\ p \in Int /\ s \in Int
      /\ a + 1 = n * p + s /\ 0 <= s /\ s < n
  <2>1. a + 1 \in Nat OBVIOUS
  <2> QED BY <2>1, DivisionWithRemainder
<1> HIDE DEF q, r, p, s
<1>3. /\ n * p \in Int /\ n * q \in Int /\ n * (p - q) \in Int
      /\ n * (p - q) = n * p - n * q
  BY <1>1, <1>2, SMT
<1>4. n * (p - q) = r + 1 - s
  BY <1>1, <1>2, <1>3
<1>5. p - q = 0 \/ p - q = 1
  <2>1. n * (p - q) > -n /\ n * (p - q) <= n
    BY <1>1, <1>2, <1>4
  <2>2. p - q \in Int
    BY <1>1, <1>2
  <2> QED BY <2>1, <2>2, MultipleInRange
<1>6. CASE p - q = 0
  <2>1. n * 0 = r + 1 - s BY <1>4, <1>6
  <2> QED BY <2>1, <1>1, <1>2 DEF r, s
<1>7. CASE p - q = 1
  <2>1. n * 1 = r + 1 - s BY <1>4, <1>7
  <2> QED BY <2>1, <1>1, <1>2 DEF r, s
<1> QED BY <1>5, <1>6, <1>7
=============================================================================

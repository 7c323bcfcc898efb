------------------------------- MODULE Division -------------------------------
(***************************************************************************)
(* Lemmas about quotients and remainders, for places in rings.             *)
(***************************************************************************)
EXTENDS Integers, TLAPS

\* The provers know these as the definitions of the two operators.
LEMMA DivMod ==
    ASSUME NEW n \in Nat \ {0}, NEW x \in Nat
    PROVE  /\ x \div n \in Nat /\ x % n \in 0..(n - 1)
           /\ x = ((x \div n) * n) + (x % n)
OBVIOUS

LEMMA Times ==
    ASSUME NEW n \in Nat, NEW a \in Nat, NEW b \in Nat
    PROVE  /\ a * n \in Nat /\ (a + 1) * n = a * n + n
           /\ a < b => a * n + n <= b * n
<1>1. a * n \in Nat /\ (a + 1) * n = a * n + n
    OBVIOUS
<1>2. ASSUME a < b PROVE a * n + n <= b * n
    <2>1. b - a - 1 \in Nat
        BY <1>2
    <2>2. (b - a - 1) * n \in Nat
        BY <2>1
    <2>3. (b - a - 1) * n = b * n - a * n - n
        OBVIOUS
    <2> QED BY <2>2, <2>3
<1> QED BY <1>1, <1>2

\* Quotient and remainder are unique.
LEMMA DivUnique ==
    ASSUME NEW n \in Nat \ {0}, NEW q \in Nat, NEW r \in 0..(n - 1)
    PROVE  (q * n + r) \div n = q /\ (q * n + r) % n = r
<1> DEFINE x == q * n + r
           d == x \div n
           m == x % n
<1>1. x \in Nat
    OBVIOUS
<1>2. d \in Nat /\ m \in 0..(n - 1) /\ x = d * n + m
    BY <1>1, DivMod
<1>3. d * n \in Nat /\ q * n \in Nat
    BY <1>2
<1>4. ~(d < q)
    <2> SUFFICES ASSUME d < q PROVE FALSE
        OBVIOUS
    <2>1. d * n + n <= q * n
        BY <1>2, Times
    <2> HIDE DEF d, m
    <2> QED BY <1>2, <1>3, <2>1
<1>5. ~(q < d)
    <2> SUFFICES ASSUME q < d PROVE FALSE
        OBVIOUS
    <2>1. q * n + n <= d * n
        BY <1>2, Times
    <2> HIDE DEF d, m
    <2> QED BY <1>2, <1>3, <2>1
<1>6. d = q
    BY <1>2, <1>4, <1>5
<1>7. m = r
    <2> HIDE DEF d, m
    <2> QED BY <1>2, <1>3, <1>6
<1> QED BY <1>6, <1>7

\* Numbers less than a ring apart have different places in it.
LEMMA Apart ==
    ASSUME NEW n \in Nat \ {0}, NEW a \in Nat, NEW b \in Nat, a < b, b < a + n
    PROVE  a % n # b % n
<1> DEFINE d == a \div n
           e == b \div n
           m == a % n
<1> SUFFICES ASSUME m = b % n PROVE FALSE
    OBVIOUS
<1>1. d \in Nat /\ e \in Nat /\ m \in 0..(n - 1) /\ a = d * n + m /\ b = e * n + m
    BY DivMod
<1>2. d * n \in Nat /\ e * n \in Nat
    BY <1>1, Times
<1>3. (d < e => d * n + n <= e * n) /\ (e < d => e * n + n <= d * n)
    BY <1>1, Times
<1> HIDE DEF d, e, m
<1>4. CASE d < e
    BY <1>1, <1>2, <1>3, <1>4
<1>5. CASE e < d
    BY <1>1, <1>2, <1>3, <1>5
<1>6. CASE d = e
    BY <1>1, <1>2, <1>6
<1> QED BY <1>1, <1>4, <1>5, <1>6

\* Whole rounds do not matter for a place in a ring.
LEMMA ModRounds ==
    ASSUME NEW n \in Nat \ {0}, NEW x \in Nat, NEW j \in Nat
    PROVE  (x + j * n) % n = x % n
<1>1. PICK d \in Nat, r \in 0..(n - 1) : x = d * n + r /\ r = x % n
    BY DivMod
<1>2. (d + j) * n = d * n + j * n /\ d + j \in Nat
    OBVIOUS
<1>3. x + j * n = (d + j) * n + r
    <2>1. PICK a \in Nat, b \in Nat, c \in Nat : a = d * n /\ b = j * n /\ c = (d + j) * n
        BY <1>2
    <2> QED BY <1>1, <1>2, <2>1
<1>4. ((d + j) * n + r) % n = r
    BY ONLY <1>2, <1>1, DivUnique
<1> QED BY <1>1, <1>3, <1>4

\* A remainder may be taken first.
LEMMA ModPlus ==
    ASSUME NEW n \in Nat \ {0}, NEW x \in Nat, NEW y \in Nat
    PROVE  ((x % n) + y) % n = (x + y) % n
<1>1. PICK d \in Nat, r \in 0..(n - 1) : x = d * n + r /\ r = x % n
    BY DivMod
<1>2. r + y \in Nat
    BY <1>1
<1>3. ((r + y) + d * n) % n = (r + y) % n
    BY ONLY <1>1, <1>2, ModRounds
<1>4. (r + y) + d * n = x + y
    <2>1. PICK a \in Nat : a = d * n
        BY <1>1
    <2> QED BY <1>1, <2>1
<1> QED BY <1>1, <1>3, <1>4

\* Two rings one of which goes round in the other a whole number of times.
LEMMA ModMod ==
    ASSUME NEW n \in Nat \ {0}, NEW d \in Nat \ {0}, n % d = 0, NEW x \in Nat
    PROVE  (x % n) % d = x % d
<1>1. PICK k \in Nat : n = k * d
    <2>1. PICK k \in Nat, r \in 0..(d - 1) : n = k * d + r /\ r = n % d
        BY DivMod
    <2>2. k * d \in Nat
        OBVIOUS
    <2> QED BY <2>1, <2>2
<1>2. PICK q \in Nat, r \in 0..(n - 1) : x = q * n + r /\ r = x % n
    BY DivMod
<1>3. q * n = (q * k) * d /\ q * k \in Nat
    <2>1. q * (k * d) = (q * k) * d
        BY <1>1, <1>2
    <2> QED BY <1>1, <1>2, <2>1
<1>4. (r + (q * k) * d) % d = r % d
    <2>1. PICK p \in Nat : p = q * k
        BY <1>3
    <2>2. r \in Nat
        OBVIOUS
    <2>3. (r + p * d) % d = r % d
        BY ONLY <2>2, ModRounds
    <2> QED BY <2>1, <2>3
<1>5. r + (q * k) * d = x
    <2>1. PICK a \in Nat : a = q * n
        BY <1>2
    <2> QED BY <1>2, <1>3, <2>1
<1> QED BY <1>2, <1>4, <1>5

\* The same in a word of its own, which keeps the provers from arithmetic.
Rem(x, n) == x % n

LEMMA RemRem ==
    ASSUME NEW n \in Nat \ {0}, NEW d \in Nat \ {0}, Rem(n, d) = 0, NEW x \in Nat
    PROVE  Rem(Rem(x, n), d) = Rem(x, d)
BY ModMod DEF Rem

\* The multiples of a number.
LEMMA ModMultiple ==
    ASSUME NEW n \in Nat \ {0}, NEW j \in Nat, NEW r \in Nat, r < n
    PROVE  (j * n + r) % n = r /\ (j * n) % n = 0
<1>1. r \in 0..(n - 1) /\ 0 \in 0..(n - 1)
    OBVIOUS
<1>2. (j * n + r) % n = r /\ (j * n + 0) % n = 0
    BY ONLY <1>1, DivUnique
<1>3. j * n + 0 = j * n
    <2>1. PICK a \in Nat : a = j * n
        OBVIOUS
    <2> QED BY <2>1
<1> QED BY <1>2, <1>3

\* Counting in steps of k round a ring of k*n.
LEMMA ModScale ==
    ASSUME NEW n \in Nat \ {0}, NEW k \in Nat \ {0}, NEW x \in Nat
    PROVE  k * n \in Nat \ {0} /\ k * (x % n) \in Nat /\ (k * x) % (k * n) = k * (x % n)
<1>1. PICK d \in Nat, r \in 0..(n - 1) : x = d * n + r /\ r = x % n
    BY DivMod
<1>2. PICK p \in Nat, y \in Nat, z \in Nat : p = k * n /\ y = k * r /\ z = d * n
    <2>1. k * n \in Nat /\ k * r \in Nat /\ d * n \in Nat
        BY <1>1
    <2> QED BY <2>1
<1>3. y < p
    <2>1. r * k + k <= n * k
        BY <1>1, Times
    <2>2. r * k = k * r /\ n * k = k * n
        BY <1>1
    <2> QED BY <1>2, <2>1, <2>2
<1>4. k * x = k * z + y
    <2>1. k * (z + r) = k * z + k * r
        BY <1>1, <1>2
    <2> QED BY <1>1, <1>2, <2>1
<1>5. k * z = d * p
    <2>1. k * (d * n) = d * (k * n)
        BY <1>1
    <2> QED BY <1>2, <2>1
<1>6. p \in Nat \ {0} /\ d \in Nat /\ y \in Nat
    BY <1>1, <1>2, <1>3
<1>7. (d * p + y) % p = y
    BY ONLY <1>3, <1>6, ModMultiple
<1> QED BY <1>1, <1>2, <1>4, <1>5, <1>6, <1>7

LEMMA Quotient ==
    ASSUME NEW n \in Nat \ {0}, NEW m \in Nat, NEW x \in Nat, x < n * m
    PROVE  x \div n \in 0..(m - 1)
<1>1. PICK d \in Nat : d = x \div n /\ d * n <= x
    BY DivMod
<1>2. m < d \/ m = d => m * n <= d * n
    BY <1>1, Times
<1>3. m * n = n * m
    OBVIOUS
<1>4. d * n \in Nat /\ m * n \in Nat
    BY <1>1
<1>5. ~(m < d \/ m = d)
    BY <1>1, <1>2, <1>3, <1>4
<1> QED BY <1>1, <1>5

=============================================================================

----------------------------- MODULE AmSeq_proofs -----------------------------
(***************************************************************************)
(* Proofs about AmSeq: whatever the number of channels, the lengths of the *)
(* halves and of the ring, and wherever CLR cuts in, no trigger is lost    *)
(* and every half that was handed over is at its own place in SDRAM.       *)
(***************************************************************************)
EXTENDS AmSeq, Division, TLAPS

(* The inductive invariant. *)

\* CLR holds the counters; only it lets the sequencer be idle, and only the
\* start of a capture finds it in the middle of an old pass.
Cleared ==
    /\ clr = 1 => smpl = 0 /\ wch = 0 /\ CH_CNT = 0 /\ MWSTS \notin Waits
    /\ clr = 0 => MWSTS # "MW_IDLE"
    /\ smpl = 0 /\ wch > 0 => MWSTS \in Waits

\* The sequencer waits for the half that is being filled or moves the other,
\* and a pass began with the half that is being filled.
Alternates ==
    smpl > 0 =>
        /\ MWSTS \in IF Handed % 2 = 0 THEN {"MW_FH_WAIT", "MW_SH_WAIT_END"}
                                       ELSE {"MW_SH_WAIT", "MW_FH_WAIT_END"}
        /\ MWSTS \in Moves => smpl + (IF wch > 0 THEN 1 ELSE 0) = Handed * Half + 1 + lag

\* Place of half k in the ring.
Place(k) == (k % RingHalves) * Half

\* The counts of the last two triggers, and the line's address from them.
Addressed ==
    /\ smpl = 0 => SMPLCNT_REG = 0
    /\ smpl > 0 =>
        /\ SMPLCNT_REG = Place(Handed)
        /\ SMPLCNTDLY_REG = IF Handed = 0 THEN 0 ELSE Place(Handed - 1)
        /\ MWSTS \in Moves => addr = [ch |-> CH_CNT, at |-> SMPLCNTDLY_REG]

\* The wave buffer has the last 2 * Half samples of each channel.
Count(c) == smpl + (IF c < wch THEN 1 ELSE 0)
Buffered ==
    \A c \in Chs : \A s \in Nat :
        s < Count(c) /\ Count(c) <= s + 2 * Half => buf[c][s % (2 * Half)] = s

\* Sample i of half k of channel c has been moved.
Moved(k, c, i) ==
    MWSTS \in Moves /\ k = Handed - 1 => c < CH_CNT \/ (c = CH_CNT /\ i < word)
Stored ==
    smpl > 0 =>
        \A k \in Nat : k < Handed /\ Handed <= k + RingHalves =>
            \A c \in Chs, i \in 0..(Half - 1) :
                Moved(k, c, i) => sdram[c][Place(k) + i] = k * Half + i

IInv == TypeOK /\ Cleared /\ Alternates /\ Addressed /\ Buffered /\ Stored

---------------------------------------------------------------------------
(* Arithmetic of halves and rings. *)

\* Where half k begins in a ring of r halves, and that halves do not overlap.
LEMMA RingPlace ==
    ASSUME NEW n \in Nat \ {0}, NEW r \in Nat \ {0}, NEW k \in Nat
    PROVE  /\ (k * n) % (r * n) = (k % r) * n
           /\ (k % r) * n \in Nat /\ (k % r) * n + n <= r * n
<1> DEFINE d == k \div r
           m == k % r
<1>1. d \in Nat /\ m \in Nat /\ m < r /\ k = d * r + m
    BY DivMod
<1>2. m * n \in Nat /\ m * n + n <= r * n /\ r * n \in Nat \ {0}
    <2>1. m * n \in Nat /\ m * n + n <= r * n /\ r * n \in Nat
        BY <1>1, Times
    <2> HIDE DEF m
    <2> QED BY <2>1
<1>3. k * n = d * (r * n) + m * n
    <2> HIDE DEF d, m
    <2> QED BY <1>1
<1>4. m * n \in 0..(r * n - 1)
    <2> HIDE DEF m
    <2> QED BY <1>2
<1>5. (d * (r * n) + m * n) % (r * n) = m * n
    <2> HIDE DEF d, m
    <2> QED BY <1>1, <1>2, <1>4, DivUnique
<1> QED BY <1>2, <1>3, <1>5

LEMMA NoOverlap ==
    ASSUME NEW n \in Nat \ {0}, NEW a \in Nat, NEW b \in Nat,
           NEW i \in 0..(n - 1), NEW j \in 0..(n - 1), a * n + i = b * n + j
    PROVE  a = b /\ i = j
<1>1. a * n \in Nat /\ b * n \in Nat
    BY Times
<1>2. (a < b => a * n + n <= b * n) /\ (b < a => b * n + n <= a * n)
    BY Times
<1>3. ~(a < b) /\ ~(b < a)
    BY <1>1, <1>2
<1> QED BY <1>1, <1>3

\* Sample i of half k is in the first half of the wave buffer or the second.
LEMMA BufferPlace ==
    ASSUME NEW n \in Nat \ {0}, NEW k \in Nat, NEW i \in 0..(n - 1)
    PROVE  (k * n + i) % (2 * n) = IF k % 2 = 0 THEN i ELSE n + i
<1> DEFINE g == k \div 2
           e == k % 2
<1>1. g \in Nat /\ e \in {0, 1} /\ k = 2 * g + e
    BY DivMod
<1>2. 2 * n \in Nat \ {0}
    OBVIOUS
<1>3. CASE e = 0
    <2>1. k * n + i = g * (2 * n) + i
        <3> HIDE DEF g, e
        <3> QED BY <1>1, <1>3
    <2>2. (g * (2 * n) + i) % (2 * n) = i
        <3> HIDE DEF g
        <3> QED BY <1>1, <1>2, DivUnique
    <2> QED BY <1>3, <2>1, <2>2
<1>4. CASE e = 1
    <2>1. k * n + i = g * (2 * n) + (n + i)
        <3> HIDE DEF g, e
        <3> QED BY <1>1, <1>4
    <2>2. (g * (2 * n) + (n + i)) % (2 * n) = n + i
        <3> HIDE DEF g
        <3>1. g \in Nat /\ n + i \in 0..(2 * n - 1)
            BY <1>1
        <3> QED BY ONLY <1>2, <3>1, DivUnique, Zenon
    <2> QED BY <1>4, <2>1, <2>2
<1> QED BY <1>1, <1>3, <1>4

LEMMA Parity == ASSUME NEW h \in Nat PROVE h % 2 \in {0, 1} /\ (h + 1) % 2 = 1 - (h % 2)
OBVIOUS

\* Sample number s > 0 is written to half h, the last one when a half is full.
Stands(s, n, h) ==
    /\ h \in Nat /\ h * n \in Nat /\ h * n < s /\ s <= h * n + n
    /\ s % n = 0 <=> s = h * n + n
    /\ s % (2 * n) = n <=> s = h * n + n /\ h % 2 = 0
    /\ s % (2 * n) = 0 <=> s = h * n + n /\ h % 2 = 1
    /\ s \div n = IF s = h * n + n THEN h + 1 ELSE h
    /\ h % 2 \in {0, 1} /\ (h + 1) % 2 = 1 - (h % 2)

LEMMA Boundary ==
    ASSUME NEW n \in Nat \ {0}, NEW s \in Nat \ {0}, NEW h, h = (s - 1) \div n
    PROVE  Stands(s, n, h)
<1> DEFINE i == (s - 1) % n
<1>1. h \in Nat /\ i \in 0..(n - 1) /\ s - 1 = h * n + i /\ h * n \in Nat
    <2>1. s - 1 \in Nat
        OBVIOUS
    <2>2. h \in Nat /\ i \in 0..(n - 1) /\ s - 1 = h * n + i
        BY <2>1, DivMod
    <2> QED BY <2>2, Times
<1>2. h % 2 \in {0, 1} /\ (h + 1) % 2 = 1 - (h % 2)
    BY <1>1, Parity
<1> HIDE DEF i
<1>3. CASE i = n - 1
    <2>1. s = h * n + n /\ s = (h + 1) * n + 0 /\ h + 1 \in Nat
        BY <1>1, <1>3, Times
    <2>2. s \div n = h + 1 /\ s % n = 0
        <3>1. 0 \in 0..(n - 1)
            OBVIOUS
        <3>2. ((h + 1) * n + 0) \div n = h + 1 /\ ((h + 1) * n + 0) % n = 0
            BY <2>1, <3>1, DivUnique
        <3> QED BY <2>1, <3>2
    <2>3. s % (2 * n) = IF (h + 1) % 2 = 0 THEN 0 ELSE n
        <3>1. 0 \in 0..(n - 1) /\ n + 0 = n
            OBVIOUS
        <3>2. ((h + 1) * n + 0) % (2 * n) = IF (h + 1) % 2 = 0 THEN 0 ELSE n + 0
            BY <2>1, <3>1, BufferPlace
        <3> QED BY <2>1, <3>1, <3>2
    <2>4. h * n < s /\ 2 * n # 0
        BY <1>1, <1>3
    <2>5. h % 2 = 0 => (h + 1) % 2 = 1
        BY <1>2
    <2>6. h % 2 = 1 => (h + 1) % 2 = 0
        BY <1>2
    <2> QED BY ONLY <1>1, <1>2, <2>1, <2>2, <2>3, <2>4, <2>5, <2>6, n \in Nat \ {0} DEF Stands
<1>4. CASE i # n - 1
    <2>1. i + 1 \in 0..(n - 1) /\ s = h * n + (i + 1) /\ s # h * n + n
        BY <1>1, <1>4
    <2>2. s \div n = h /\ s % n = i + 1
        <3>1. (h * n + (i + 1)) \div n = h /\ (h * n + (i + 1)) % n = i + 1
            BY <1>1, <2>1, DivUnique
        <3> QED BY <2>1, <3>1
    <2>3. s % (2 * n) = IF h % 2 = 0 THEN i + 1 ELSE n + (i + 1)
        <3>1. (h * n + (i + 1)) % (2 * n) = IF h % 2 = 0 THEN i + 1 ELSE n + (i + 1)
            BY ONLY <1>1, <2>1, n \in Nat \ {0}, BufferPlace, Zenon
        <3> QED BY <2>1, <3>1
    <2>4. h * n < s /\ s <= h * n + n
        BY <1>1, <2>1
    <2>5. s % n # 0 /\ s % (2 * n) # n /\ s % (2 * n) # 0
        <3>1. s % n = i + 1 /\ i + 1 \in 1..(n - 1)
            BY <2>1, <2>2, <1>1
        <3>2. s % (2 * n) \in {i + 1, n + (i + 1)}
            BY <2>3
        <3> QED BY ONLY <3>1, <3>2, n \in Nat \ {0}
    <2> QED BY ONLY <1>1, <1>2, <2>1, <2>2, <2>4, <2>5 DEF Stands
<1> QED BY <1>3, <1>4

---------------------------------------------------------------------------
(* The start, CLR and the end of a line. *)

LEMMA Constants ==
    /\ Channels \in Nat /\ Channels > 1 /\ Half \in Nat \ {0} /\ RingHalves \in Nat \ {0}
    /\ MaxSample \in Nat /\ MaxLag \in Nat /\ MaxLag < Half
    /\ RingSize \in Nat \ {0} /\ 0 \in Chs /\ Old \in Old..MaxSample
    /\ Waits \cap Moves = {} /\ "MW_IDLE" \notin Waits \cup Moves
<1>1. RingSize \in Nat \ {0}
    BY AmSeqAssumption, RingPlace DEF RingSize
<1> QED BY <1>1, AmSeqAssumption DEF Chs, Old, Waits, Moves

LEMMA PlaceInRing ==
    ASSUME NEW k \in Nat
    PROVE  /\ Place(k) \in 0..(RingSize - 1) /\ Place(k) + Half <= RingSize
           /\ (k * Half) % RingSize = Place(k)
<1>1. /\ (k * Half) % (RingHalves * Half) = (k % RingHalves) * Half
      /\ (k % RingHalves) * Half \in Nat
      /\ (k % RingHalves) * Half + Half <= RingHalves * Half
    BY Constants, RingPlace
<1>2. Place(k) \in Nat /\ Place(k) + Half <= RingSize /\ (k * Half) % RingSize = Place(k)
    BY ONLY <1>1 DEF Place, RingSize
<1>3. Place(k) \in 0..(RingSize - 1)
    <2>1. Place(k) \in Nat /\ Place(k) + Half <= RingSize
        BY <1>2
    <2>2. Half \in Nat \ {0} /\ RingSize \in Nat
        BY Constants
    <2> QED BY ONLY <2>1, <2>2
<1> QED BY <1>2, <1>3

LEMMA InitIInv == Init => IInv
<1> SUFFICES ASSUME Init PROVE IInv
    OBVIOUS
<1>1. TypeOK
    BY Constants DEF Init, TypeOK
<1>2. Cleared /\ Alternates /\ Addressed /\ Stored
    BY DEF Init, Cleared, Alternates, Addressed, Stored, Waits
<1>3. Buffered
    BY DEF Init, Buffered, Count, Chs
<1> QED BY <1>1, <1>2, <1>3 DEF IInv

LEMMA ClrOnStep == IInv /\ ClrOn => IInv'
<1> SUFFICES ASSUME IInv, ClrOn PROVE IInv'
    OBVIOUS
<1> DEFINE B == 0..(2 * Half - 1)
           R == 0..(RingSize - 1)
           V == Old..MaxSample
<1>0. /\ buf \in [Chs -> [B -> V]] /\ sdram \in [Chs -> [R -> V]]
      /\ 0 \in Chs /\ Old \in V /\ 0 \in 0..MaxSample /\ 0 \in R
    <2>1. buf \in [Chs -> [B -> V]] /\ sdram \in [Chs -> [R -> V]]
        BY DEF IInv, TypeOK
    <2> HIDE DEF B
    <2>2. 0 \in Chs /\ Old \in V /\ 0 \in 0..MaxSample /\ 0 \in R
        BY ONLY Constants
    <2> QED BY <2>1, <2>2
<1>4. buf' \in [Chs -> [B -> V]] /\ sdram' \in [Chs -> [R -> V]]
    <2> HIDE DEF B, R, V
    <2>1. \A c \in Chs : DOMAIN buf[c] = B /\ DOMAIN sdram[c] = R
        BY <1>0
    <2> QED BY <1>0, <2>1 DEF ClrOn
<1>5. /\ clr' = 1 /\ smpl' = 0 /\ wch' = 0 /\ CH_CNT' = 0 /\ SMPLCNT_REG' = 0
      /\ MWSTS' \in {"MW_IDLE", MWSTS}
      /\ UNCHANGED <<SMPLCNTDLY_REG, word, addr, lag>>
    BY DEF ClrOn
<1> HIDE DEF B, V
<1>1. TypeOK'
    BY <1>0, <1>4, <1>5 DEF IInv, TypeOK, B, V
<1>2. Cleared' /\ Alternates' /\ Addressed' /\ Stored'
    BY Constants DEF ClrOn, Cleared, Alternates, Addressed, Stored
<1>3. Buffered'
    BY DEF ClrOn, Buffered, Count, Chs
<1> QED BY <1>1, <1>2, <1>3 DEF IInv

LEMMA ClrOffStep == IInv /\ ClrOff => IInv'
<1> SUFFICES ASSUME IInv, ClrOff PROVE IInv'
    OBVIOUS
<1>1. smpl = 0 /\ wch = 0 /\ smpl' = 0 /\ wch' = 0 /\ clr' = 0
    BY DEF IInv, Cleared, ClrOff
<1>2. TypeOK'
    BY Constants DEF IInv, TypeOK, ClrOff, lineVars, Waits
<1>3. Cleared' /\ Alternates' /\ Addressed' /\ Stored'
    BY <1>1 DEF IInv, ClrOff, Cleared, Alternates, Addressed, Stored
<1>4. Buffered'
    BY <1>1 DEF Buffered, Count, Chs
<1> QED BY <1>2, <1>3, <1>4 DEF IInv

\* Steps of the sequencer leave the samples alone.
LEMMA SameSamples ==
    ASSUME IInv, UNCHANGED coreVars
    PROVE  Buffered' /\ Handed' = Handed /\ smpl' = smpl /\ wch' = wch /\ clr' = clr
BY DEF IInv, coreVars, Buffered, Count, Handed

LEMMA NextChannelStep == IInv /\ NextChannel => IInv'
<1> SUFFICES ASSUME IInv, NextChannel PROVE IInv'
    OBVIOUS
<1>1. /\ MWSTS \in Moves /\ word = Half /\ CH_CNT < Channels - 1 /\ MWSTS' = MWSTS
      /\ CH_CNT' = IF clr = 1 THEN 0 ELSE CH_CNT + 1
      /\ word' = 0 /\ addr' = [ch |-> CH_CNT', at |-> SMPLCNTDLY_REG]
      /\ UNCHANGED <<coreVars, SMPLCNT_REG, SMPLCNTDLY_REG, sdram, lag>>
    BY DEF NextChannel, BeginLine
<1>2. TypeOK
    BY DEF IInv
<1>3. CH_CNT' \in Chs /\ word' \in 0..Half
    BY <1>1, <1>2, Constants DEF TypeOK, Chs
<1>4. TypeOK'
    BY <1>1, <1>2, <1>3 DEF TypeOK, coreVars
<1>5. Cleared' /\ Alternates' /\ Addressed'
    BY <1>1, SameSamples DEF IInv, Cleared, Alternates, Addressed
<1>6. Stored'
    <2> SUFFICES ASSUME smpl > 0, NEW k \in Nat, k < Handed, Handed <= k + RingHalves,
                        NEW c \in Chs, NEW i \in 0..(Half - 1), Moved(k, c, i)'
                 PROVE  sdram[c][Place(k) + i] = k * Half + i
        BY <1>1, SameSamples DEF Stored
    <2>1. clr = 0 /\ CH_CNT' = CH_CNT + 1 /\ CH_CNT \in Nat /\ c \in Nat
        BY <1>1, <1>2 DEF IInv, Cleared, TypeOK, Chs
    <2>2. Moved(k, c, i)
        <3>1. ASSUME k = Handed - 1 PROVE c < CH_CNT' \/ (c = CH_CNT' /\ i < 0)
            BY <1>1, <3>1, SameSamples DEF Moved
        <3> QED BY <1>1, <2>1, <3>1, Constants DEF Moved
    <2> QED BY <2>2 DEF IInv, Stored
<1> QED BY <1>4, <1>5, <1>6, SameSamples, <1>1 DEF IInv

LEMMA PassEndStep == IInv /\ PassEnd => IInv'
<1> SUFFICES ASSUME IInv, PassEnd PROVE IInv'
    OBVIOUS
<1>1. /\ MWSTS \in Moves /\ word = Half /\ CH_CNT = Channels - 1
      /\ MWSTS' = NextWait /\ CH_CNT' = 0
      /\ UNCHANGED <<coreVars, SMPLCNT_REG, SMPLCNTDLY_REG, word, addr, sdram, lag>>
    BY DEF PassEnd, lineVars
<1>2. TypeOK
    BY DEF IInv
<1>3. MWSTS' \in Waits /\ clr = 0
    BY <1>1, <1>2, Constants DEF IInv, Cleared, NextWait, Waits, TypeOK
<1>4. TypeOK'
    BY <1>1, <1>2, <1>3, Constants DEF TypeOK, coreVars
<1>5. Cleared'
    BY <1>1, <1>3, SameSamples, Constants DEF Cleared
<1>6. Alternates'
    BY <1>1, <1>3, SameSamples DEF IInv, Alternates, NextWait, Moves, Waits
<1>7. Addressed'
    BY <1>1, <1>3, SameSamples, Constants DEF IInv, Addressed
<1>8. Stored'
    <2> SUFFICES ASSUME smpl > 0, NEW k \in Nat, k < Handed, Handed <= k + RingHalves,
                        NEW c \in Chs, NEW i \in 0..(Half - 1)
                 PROVE  sdram[c][Place(k) + i] = k * Half + i
        BY <1>1, SameSamples DEF Stored
    <2>1. Moved(k, c, i)
        BY <1>1, Constants DEF Moved, Chs
    <2> QED BY <2>1 DEF IInv, Stored
<1> QED BY <1>1, <1>4, <1>5, <1>6, <1>7, <1>8, SameSamples DEF IInv

---------------------------------------------------------------------------
(* A sample is moved. *)

\* Where the capture stands, for a sample number greater than zero.
LEMMA Standing ==
    ASSUME IInv, smpl > 0
    PROVE  /\ smpl \in Nat \ {0} /\ wch \in Nat /\ wch < Channels
           /\ Stands(smpl, Half, Handed)
<1>1. smpl \in Nat \ {0} /\ wch \in Nat /\ wch < Channels /\ Handed = (smpl - 1) \div Half
    BY Constants DEF IInv, TypeOK, Handed, Chs
<1>2. Half \in Nat \ {0}
    BY Constants
<1>3. Stands(smpl, Half, (smpl - 1) \div Half)
    BY ONLY <1>1, <1>2, Boundary
<1> QED BY <1>1, <1>3

\* The sample that is moved is still in the wave buffer.
LEMMA MovesItsSample ==
    ASSUME IInv, MWSTS \in Moves, smpl > 0, word < Half,
           NEW l \in Nat, Handed = l + 1
    PROVE  buf[CH_CNT][HalfStart + word] = l * Half + word
<1>1. /\ smpl \in Nat \ {0} /\ wch \in Nat /\ Handed \in Nat
      /\ Handed * Half < smpl /\ Handed % 2 \in {0, 1} /\ Handed % 2 = 1 - (l % 2)
      /\ l % 2 \in {0, 1}
    BY Standing, Parity DEF Stands
<1>2. /\ CH_CNT \in Chs /\ word \in Nat /\ lag \in Nat /\ lag <= MaxLag
      /\ word \in 0..(Half - 1)
    BY Constants DEF IInv, TypeOK
<1>3. Handed * Half = l * Half + Half /\ l * Half \in Nat
    BY Constants, Times
<1>4. smpl + (IF wch > 0 THEN 1 ELSE 0) = Handed * Half + 1 + lag
    BY DEF IInv, Alternates
<1>5. l * Half + word < Count(CH_CNT) /\ Count(CH_CNT) <= l * Half + word + 2 * Half
    <2>1. Count(CH_CNT) = smpl + (IF CH_CNT < wch THEN 1 ELSE 0) /\ CH_CNT \in Nat
        BY <1>2 DEF Count, Chs
    <2>2. smpl <= Count(CH_CNT) /\ Count(CH_CNT) <= smpl + (IF wch > 0 THEN 1 ELSE 0)
        BY <1>1, <2>1
    <2>3. Half \in Nat /\ MaxLag < Half /\ MaxLag \in Nat
        BY Constants
    <2> DEFINE P == l * Half
               n == Count(CH_CNT)
    <2>4. /\ P \in Nat /\ P + Half < smpl /\ word < Half
          /\ smpl + (IF wch > 0 THEN 1 ELSE 0) = P + Half + 1 + lag
          /\ smpl <= n /\ n <= smpl + (IF wch > 0 THEN 1 ELSE 0) /\ n \in Nat
        BY <1>1, <1>3, <1>4, <2>1, <2>2
    <2> HIDE DEF P, n
    <2>5. P + word < n /\ n <= P + word + 2 * Half
        BY ONLY <1>1, <1>2, <2>3, <2>4
    <2> QED BY <2>5 DEF P, n
<1>6. l * Half + word \in Nat
    BY <1>2, <1>3
<1>7. buf[CH_CNT][(l * Half + word) % (2 * Half)] = l * Half + word
    BY <1>2, <1>5, <1>6 DEF IInv, Buffered
<1>8. (l * Half + word) % (2 * Half) = IF l % 2 = 0 THEN word ELSE Half + word
    BY <1>2, Constants, BufferPlace
<1>9. HalfStart = IF l % 2 = 0 THEN 0 ELSE Half
    BY <1>1 DEF IInv, Alternates, HalfStart, Moves
<1>10. HalfStart + word = (l * Half + word) % (2 * Half)
    BY <1>1, <1>2, <1>8, <1>9
<1> QED BY <1>7, <1>10

LEMMA MoveSampleStep == IInv /\ MoveSample => IInv'
<1> SUFFICES ASSUME IInv, MoveSample PROVE IInv'
    OBVIOUS
<1> DEFINE R == 0..(RingSize - 1)
           V == Old..MaxSample
           x == buf[CH_CNT][HalfStart + word]
<1>1. /\ MWSTS \in Moves /\ word < Half /\ word' = word + 1
      /\ sdram' = [sdram EXCEPT ![addr.ch][addr.at + word] = x]
      /\ UNCHANGED <<coreVars, seqVars, addr, lag>>
    BY DEF MoveSample
<1>2. TypeOK
    BY DEF IInv
<1>3. word \in 0..(Half - 1) /\ word + 1 \in 0..Half
    BY <1>1, <1>2, Constants DEF TypeOK
<1>4. x \in V
    <2>1. HalfStart + word \in 0..(2 * Half - 1)
        BY <1>3, Constants DEF HalfStart
    <2>2. CH_CNT \in Chs
        BY <1>2 DEF TypeOK
    <2> DEFINE B == 0..(2 * Half - 1)
    <2>3. buf \in [Chs -> [B -> V]] /\ HalfStart + word \in B
        BY <1>2, <2>1 DEF TypeOK
    <2> HIDE DEF B, V
    <2> QED BY <2>2, <2>3
<1>5. /\ sdram' \in [Chs -> [R -> V]]
      /\ \A c \in Chs, q \in R :
           sdram'[c][q] = IF c = addr.ch /\ q = addr.at + word THEN x ELSE sdram[c][q]
    <2>1. sdram \in [Chs -> [R -> V]] /\ addr.ch \in Chs
        BY <1>2 DEF TypeOK
    <2> HIDE DEF R, V, x
    <2> QED BY <1>1, <1>4, <2>1
<1>6. TypeOK'
    BY <1>1, <1>2, <1>3, <1>5 DEF TypeOK, coreVars, seqVars
<1>7. Cleared' /\ Alternates' /\ Addressed'
    BY <1>1, SameSamples DEF IInv, Cleared, Alternates, Addressed, seqVars
<1>8. Stored'
    <2> SUFFICES ASSUME smpl > 0, NEW k \in Nat, k < Handed, Handed <= k + RingHalves,
                        NEW c \in Chs, NEW i \in 0..(Half - 1), Moved(k, c, i)'
                 PROVE  sdram'[c][Place(k) + i] = k * Half + i
        BY <1>1, SameSamples DEF Stored
    <2>1. Handed \in Nat \ {0}
        BY Standing DEF Stands
    <2> DEFINE l == Handed - 1
    <2>2. l \in Nat /\ Handed = l + 1
        BY <2>1
    <2>3. addr = [ch |-> CH_CNT, at |-> Place(l)] /\ CH_CNT \in Nat /\ c \in Nat
        BY <1>1, <1>2, <2>1 DEF IInv, Addressed, TypeOK, Chs
    <2>4. x = l * Half + word
        BY <1>1, <2>2, MovesItsSample
    <2>5. k = l => c < CH_CNT \/ (c = CH_CNT /\ i < word + 1)
        BY <1>1, SameSamples DEF Moved, seqVars
    <2>6. Moved(k, c, i) <=> (k = l => c < CH_CNT \/ (c = CH_CNT /\ i < word))
        BY <1>1 DEF Moved
    <2> HIDE DEF l, x
    <2>7. Place(k) + i \in R
        <3>1. Place(k) \in Nat /\ Place(k) + Half <= RingSize /\ RingSize \in Nat
            BY PlaceInRing, Constants
        <3> QED BY <3>1, Constants
    <2>8. CASE k = l /\ c = CH_CNT /\ i = word
        BY <1>5, <2>3, <2>4, <2>7, <2>8
    <2>9. CASE ~(k = l /\ c = CH_CNT /\ i = word)
        <3>1. Moved(k, c, i)
            BY <1>3, <2>3, <2>5, <2>6, <2>9
        <3>2. sdram[c][Place(k) + i] = k * Half + i
            BY <3>1 DEF IInv, Stored
        <3>3. ~(c = addr.ch /\ Place(k) + i = addr.at + word)
            <4> SUFFICES ASSUME c = CH_CNT, Place(k) + i = Place(l) + word PROVE FALSE
                BY <2>3
            <4>1. k % RingHalves \in Nat /\ l % RingHalves \in Nat
                BY <2>2, Constants, DivMod
            <4>2. k % RingHalves = l % RingHalves /\ i = word
                BY <1>3, <4>1, Constants, NoOverlap DEF Place
            <4>3. k < l /\ l < k + RingHalves
                BY <2>2, <2>9, <4>2, Constants
            <4> QED BY <2>2, <4>2, <4>3, Constants, Apart
        <3> QED BY <1>5, <2>7, <3>2, <3>3
    <2> QED BY <2>8, <2>9
<1> QED BY <1>1, <1>6, <1>7, <1>8, SameSamples DEF IInv

---------------------------------------------------------------------------
(* The core writes a sample. *)

LEMMA Counters ==
    ASSUME TypeOK
    PROVE  /\ smpl \in Nat /\ smpl <= MaxSample /\ wch \in Nat /\ wch < Channels
           /\ lag \in Nat /\ lag <= MaxLag /\ \A c \in Chs : c \in Nat /\ c < Channels
<1>1. smpl \in 0..MaxSample /\ wch \in Chs /\ lag \in 0..MaxLag
    BY DEF TypeOK
<1>2. Channels \in Nat /\ MaxSample \in Nat /\ MaxLag \in Nat
    BY Constants
<1>3. \A c \in Chs : c \in Nat /\ c < Channels
    BY ONLY <1>2 DEF Chs
<1> QED BY ONLY <1>1, <1>2, <1>3

\* When a half is full its sequencer waits for it: a pass that still runs has
\* seen at most MaxLag samples, less than a half.
LEMMA FullFindsWait ==
    ASSUME IInv, smpl > 0, LastWrite, smpl = Handed * Half + Half
    PROVE  MWSTS = IF Handed % 2 = 0 THEN "MW_FH_WAIT" ELSE "MW_SH_WAIT"
<1>1. Handed % 2 \in {0, 1} /\ Handed * Half \in Nat
    BY Standing DEF Stands
<1>2. MWSTS \notin Moves
    <2> SUFFICES ASSUME MWSTS \in Moves PROVE FALSE
        OBVIOUS
    <2>1. wch > 0
        BY Constants DEF LastWrite
    <2> DEFINE P == Handed * Half
    <2>2. smpl + 1 = P + 1 + lag /\ smpl = P + Half /\ lag \in Nat /\ lag <= MaxLag /\ P \in Nat
        BY <1>1, <2>1, Constants DEF IInv, TypeOK, Alternates
    <2> HIDE DEF P
    <2> QED BY <2>2, Constants
<1> QED BY <1>1, <1>2 DEF IInv, Alternates, Moves

\* What a sample does to the wave buffer and the counts.
LEMMA SampleWritten ==
    ASSUME IInv, Sample
    PROVE  /\ Buffered' /\ buf' \in [Chs -> [0..(2 * Half - 1) -> Old..MaxSample]]
           /\ smpl' \in 0..MaxSample /\ wch' \in Chs
<1> DEFINE B == 0..(2 * Half - 1)
           V == Old..MaxSample
           at == smpl % (2 * Half)
<1>1. /\ buf \in [Chs -> [B -> V]] /\ wch \in Chs /\ smpl \in Nat /\ smpl < MaxSample
    <2>1. buf \in [Chs -> [B -> V]] /\ wch \in Chs /\ TypeOK
        BY DEF IInv, TypeOK
    <2>2. smpl < MaxSample
        BY DEF Sample
    <2> QED BY <2>1, <2>2, Counters
<1>2. smpl \in V /\ at \in B
    <2>1. smpl \in V
        BY <1>1, Constants DEF Old
    <2>2. 2 * Half \in Nat \ {0}
        BY Constants
    <2> QED BY <1>1, <2>1, <2>2, DivMod
<1>3. /\ buf' = [buf EXCEPT ![wch][at] = smpl]
      /\ wch' = IF LastWrite THEN 0 ELSE wch + 1
      /\ smpl' = IF LastWrite THEN smpl + 1 ELSE smpl
    BY DEF Sample
<1>4. smpl' \in 0..MaxSample /\ wch' \in Chs
    BY <1>1, <1>3, Constants DEF LastWrite, Chs
<1>5. /\ buf' \in [Chs -> [B -> V]]
      /\ \A c \in Chs, q \in B : buf'[c][q] = IF c = wch /\ q = at THEN smpl ELSE buf[c][q]
    <2> HIDE DEF B, V, at
    <2> QED BY <1>1, <1>2, <1>3
<1>6. ASSUME NEW c \in Chs
      PROVE  /\ Count(c)' = IF c = wch THEN smpl + 1 ELSE Count(c)
             /\ c = wch => Count(c) = smpl
    <2>1. /\ smpl \in Nat /\ wch \in Nat /\ wch < Channels /\ c \in Nat /\ c < Channels
          /\ Channels \in Nat
        BY Counters, Constants DEF IInv
    <2>2. Count(c)' = smpl' + (IF c < wch' THEN 1 ELSE 0)
        BY DEF Count
    <2>3. CASE LastWrite
        BY ONLY <1>3, <2>1, <2>2, <2>3 DEF LastWrite, Count
    <2>4. CASE ~LastWrite
        BY ONLY <1>3, <2>1, <2>2, <2>4 DEF LastWrite, Count
    <2> QED BY <2>3, <2>4
<1>7. Buffered'
    <2> SUFFICES ASSUME NEW c \in Chs, NEW s \in Nat, s < Count(c)', Count(c)' <= s + 2 * Half
                 PROVE  buf'[c][s % (2 * Half)] = s
        BY DEF Buffered
    <2>1. 2 * Half \in Nat \ {0} /\ s % (2 * Half) \in B
        <3>1. 2 * Half \in Nat \ {0}
            BY Constants
        <3> QED BY <3>1, DivMod
    <2>2. CASE c # wch
        <3>1. buf[c][s % (2 * Half)] = s
            BY <1>6, <2>2 DEF IInv, Buffered
        <3> QED BY <1>5, <2>1, <2>2, <3>1
    <2>3. CASE c = wch /\ s = smpl
        BY <1>5, <2>1, <2>3
    <2>4. CASE c = wch /\ s # smpl
        <3>1. s < smpl /\ smpl < s + 2 * Half /\ s < Count(c) /\ Count(c) <= s + 2 * Half
            <4>1. Count(c)' = smpl + 1 /\ Count(c) = smpl
                BY <1>6, <2>4
            <4> QED BY <1>1, <2>1, <2>4, <4>1
        <3>2. s % (2 * Half) # at
            BY <1>1, <2>1, <3>1, Apart
        <3>3. buf[c][s % (2 * Half)] = s
            BY <3>1 DEF IInv, Buffered
        <3> QED BY <1>5, <2>1, <3>2, <3>3
    <2> QED BY <2>2, <2>3, <2>4
<1> QED BY <1>4, <1>5, <1>7

\* A sample that neither fills a half nor is the last channel's first.
LEMMA QuietSample ==
    ASSUME IInv, Sample, ~(START_FH \/ START_SH)
    PROVE  IInv'
<1>1. /\ clr = 0 /\ clr' = 0 /\ sdram' = sdram /\ Paced
      /\ UNCHANGED <<MWSTS, CH_CNT, SMPLCNT_REG, SMPLCNTDLY_REG, word, addr>>
      /\ lag' = IF wch = 0 /\ MWSTS \in Moves THEN lag + 1 ELSE lag
      /\ wch' = IF LastWrite THEN 0 ELSE wch + 1
      /\ smpl' = IF LastWrite THEN smpl + 1 ELSE smpl
    BY DEF Sample, Trigger, Started
<1>2. TypeOK /\ smpl \in Nat /\ wch \in Nat /\ wch < Channels
    BY Counters DEF IInv
<1>3. lag' \in 0..MaxLag
    BY <1>1, <1>2, Constants DEF TypeOK, Paced, Waits, Moves
<1>4. TypeOK'
    BY <1>1, <1>2, <1>3, SampleWritten DEF TypeOK
<1>5. CASE smpl = 0
    <2>1. ~LastWrite
        <3>1. 0 % (2 * Half) = 0
            <4>1. 2 * Half \in Nat \ {0} /\ 0 \in 0..(2 * Half - 1) /\ 0 * (2 * Half) + 0 = 0
                BY Constants
            <4> QED BY <4>1, DivUnique
        <3> QED BY <1>5, <3>1 DEF START_SH
    <2>2. smpl' = 0 /\ wch' = wch + 1
        BY <1>1, <1>5, <2>1
    <2>3. MWSTS \in Waits
        BY <1>1, <1>2, <1>5 DEF Paced, IInv, Cleared
    <2>4. Cleared' /\ Alternates' /\ Addressed' /\ Stored'
        BY <1>1, <1>5, <2>2, <2>3 DEF IInv, Cleared, Alternates, Addressed, Stored
    <2> QED BY <1>4, <2>4, SampleWritten DEF IInv
<1>6. CASE smpl > 0
    <2>1. ~(LastWrite /\ smpl = Handed * Half + Half)
        BY <1>6, Standing DEF Stands, START_FH, START_SH
    <2>2. Handed' = Handed /\ smpl' > 0
        <3>1. CASE LastWrite
            <4>1. smpl' = smpl + 1 /\ smpl' # 0 /\ smpl' - 1 = smpl
                BY <1>1, <1>2, <3>1
            <4>2. smpl \div Half = Handed
                BY <1>6, <2>1, <3>1, Standing DEF Stands
            <4>3. Handed' = smpl \div Half
                BY <4>1 DEF Handed
            <4> QED BY <1>2, <4>1, <4>2, <4>3
        <3>2. CASE ~LastWrite
            BY <1>1, <1>6, <3>2 DEF Handed
        <3> QED BY <3>1, <3>2
    <2>3. Cleared'
        BY <1>1, <2>2 DEF IInv, Cleared
    <2>4. Alternates'
        <3>1. ASSUME MWSTS \in Moves
              PROVE  smpl' + (IF wch' > 0 THEN 1 ELSE 0) = Handed * Half + 1 + lag'
            <4> DEFINE P == Handed * Half
            <4>1. smpl + (IF wch > 0 THEN 1 ELSE 0) = P + 1 + lag
                BY <1>6, <3>1 DEF IInv, Alternates
            <4>3. lag \in Nat /\ P \in Nat
                BY <1>2, <1>6, Counters, Standing DEF Stands
            <4> HIDE DEF P
            <4>2. smpl' + (IF wch' > 0 THEN 1 ELSE 0) = P + 1 + lag'
                BY <1>1, <1>2, <3>1, <4>1, <4>3, Constants DEF LastWrite
            <4> QED BY <4>2 DEF P
        <3> QED BY <1>1, <1>6, <2>2, <3>1 DEF IInv, Alternates
    <2>5. Addressed' /\ Stored'
        BY <1>1, <1>6, <2>2 DEF IInv, Addressed, Stored, Moved
    <2> QED BY <1>4, <2>3, <2>4, <2>5, SampleWritten DEF IInv
<1> QED BY <1>2, <1>5, <1>6

\* What a trigger does to the registers.
LEMMA Triggered ==
    ASSUME IInv, Sample, START_FH \/ START_SH
    PROVE  /\ LastWrite /\ clr = 0 /\ clr' = 0 /\ smpl' = smpl + 1 /\ wch' = 0 /\ sdram' = sdram
           /\ SMPLCNT_REG' = smpl % RingSize /\ SMPLCNTDLY_REG' = SMPLCNT_REG
           /\ \/ /\ \/ START_FH /\ MWSTS = "MW_FH_WAIT" /\ MWSTS' = "MW_FH_WAIT_END"
                    \/ START_SH /\ MWSTS = "MW_SH_WAIT" /\ MWSTS' = "MW_SH_WAIT_END"
                 /\ CH_CNT' = 0 /\ word' = 0 /\ lag' = 0
                 /\ addr' = [ch |-> 0, at |-> SMPLCNTDLY_REG']
              \/ /\ ~(START_FH /\ MWSTS = "MW_FH_WAIT") /\ ~(START_SH /\ MWSTS = "MW_SH_WAIT")
                 /\ lag' = IF wch = 0 /\ MWSTS \in Moves THEN lag + 1 ELSE lag
                 /\ UNCHANGED <<MWSTS, CH_CNT, word, addr>>
BY DEF Sample, Trigger, Started, BeginLine, START_FH, START_SH

LEMMA TriggeredTypes ==
    ASSUME IInv, Sample, START_FH \/ START_SH
    PROVE  TypeOK'
<1>1. /\ TypeOK /\ smpl \in Nat /\ wch \in Nat /\ wch = Channels - 1
    BY Triggered, Counters DEF IInv, LastWrite
<1>2. smpl % RingSize \in 0..(RingSize - 1) /\ 0 \in 0..Half /\ 0 \in 0..MaxLag
    BY <1>1, Constants, DivMod
<1>3. lag' \in 0..MaxLag
    <2>1. wch # 0
        BY <1>1, Constants
    <2>2. lag' \in {0, lag}
        BY <2>1, Triggered
    <2> QED BY <1>1, <1>2, <2>2 DEF TypeOK
<1>4. SMPLCNT_REG' \in 0..(RingSize - 1) /\ SMPLCNTDLY_REG' \in 0..(RingSize - 1)
    BY <1>1, <1>2, Triggered DEF TypeOK
<1>5. MWSTS' \in {"MW_IDLE"} \cup Waits \cup Moves
    BY <1>1, Triggered DEF TypeOK, Moves
<1>6. CH_CNT' \in Chs /\ word' \in 0..Half /\ addr' \in [ch : Chs, at : 0..(RingSize - 1)]
    <2>1. CH_CNT \in Chs /\ word \in 0..Half /\ addr \in [ch : Chs, at : 0..(RingSize - 1)]
        BY <1>1 DEF TypeOK
    <2>2. [ch |-> 0, at |-> SMPLCNTDLY_REG'] \in [ch : Chs, at : 0..(RingSize - 1)]
        BY <1>4, Constants
    <2>3. \/ CH_CNT' = 0 /\ word' = 0 /\ addr' = [ch |-> 0, at |-> SMPLCNTDLY_REG']
          \/ UNCHANGED <<CH_CNT, word, addr>>
        BY Triggered
    <2> QED BY <1>2, <2>1, <2>2, <2>3, Constants
<1>7. sdram' \in [Chs -> [0..(RingSize - 1) -> Old..MaxSample]]
    BY <1>1, Triggered DEF TypeOK
<1> QED BY <1>3, <1>4, <1>5, <1>6, <1>7, Triggered, SampleWritten DEF TypeOK

\* Sample 0 raises START_SH too: what is in the second half of the buffer may
\* be moved to the beginning of the ring, where nothing is expected yet.
LEMMA FirstSample ==
    ASSUME IInv, Sample, START_FH \/ START_SH, smpl = 0
    PROVE  IInv'
<1>1. 0 % (2 * Half) = 0 /\ 0 \div Half = 0 /\ 0 % RingSize = 0 /\ Half # 0
    <2>1. /\ 2 * Half \in Nat \ {0} /\ 0 \in 0..(2 * Half - 1) /\ 0 * (2 * Half) + 0 = 0
          /\ 0 \in 0..(Half - 1) /\ 0 * Half + 0 = 0 /\ Half # 0
          /\ 0 \in 0..(RingSize - 1) /\ 0 * RingSize + 0 = 0
        BY Constants
    <2>2. (0 * (2 * Half) + 0) % (2 * Half) = 0
        BY <2>1, DivUnique
    <2>3. (0 * Half + 0) \div Half = 0
        BY <2>1, Constants, DivUnique
    <2>4. (0 * RingSize + 0) % RingSize = 0
        BY <2>1, Constants, DivUnique
    <2> QED BY <2>1, <2>2, <2>3, <2>4
<1>2. /\ START_SH /\ ~START_FH /\ smpl' = 1 /\ wch' = 0 /\ wch > 0 /\ MWSTS \in Waits
      /\ clr = 0 /\ clr' = 0
    <2>1. LastWrite /\ wch > 0
        BY Triggered, Constants DEF LastWrite
    <2> QED BY <1>1, <2>1, Triggered DEF START_SH, START_FH, IInv, Cleared
<1>3. Handed' = 0 /\ 0 % 2 = 0
    BY <1>1, <1>2 DEF Handed
<1>4. /\ SMPLCNT_REG' = 0 /\ SMPLCNTDLY_REG' = 0
      /\ \/ /\ MWSTS' = "MW_SH_WAIT_END" /\ CH_CNT' = 0 /\ lag' = 0
            /\ addr' = [ch |-> 0, at |-> SMPLCNTDLY_REG']
         \/ MWSTS' = "MW_FH_WAIT"
    BY <1>1, <1>2, Triggered DEF IInv, Addressed, Waits
<1>5. Place(0) = 0
    <2>1. 0 * Half = 0
        BY Constants
    <2>2. (0 * Half) % RingSize = Place(0)
        BY PlaceInRing
    <2> QED BY <1>1, <2>1, <2>2
<1>6. Cleared'
    BY <1>2, <1>4 DEF Cleared
<1>7. Alternates'
    <2>1. 0 * Half = 0
        BY Constants
    <2> QED BY <1>2, <1>3, <1>4, <2>1 DEF Alternates, Moves
<1>8. Addressed'
    <2>1. Place(0)' = Place(0)
        BY DEF Place
    <2> QED BY <1>2, <1>3, <1>4, <1>5, <2>1 DEF Addressed, Moves
<1>9. Stored'
    BY <1>3 DEF Stored
<1> QED BY <1>6, <1>7, <1>8, <1>9, TriggeredTypes, SampleWritten DEF IInv

\* A half is full and handed over.
LEMMA HalfFull ==
    ASSUME IInv, Sample, START_FH \/ START_SH, smpl > 0
    PROVE  IInv'
<1> DEFINE h == Handed
<1>1. /\ smpl = h * Half + Half /\ smpl \in Nat /\ h \in Nat /\ smpl \div Half = h + 1
      /\ START_FH <=> h % 2 = 0
      /\ START_SH <=> h % 2 = 1
      /\ h % 2 \in {0, 1} /\ (h + 1) % 2 = 1 - (h % 2)
    BY Triggered, Standing DEF Stands, START_FH, START_SH
<1>2. MWSTS = IF h % 2 = 0 THEN "MW_FH_WAIT" ELSE "MW_SH_WAIT"
    BY <1>1, Triggered, FullFindsWait
<1>3. /\ MWSTS' = IF h % 2 = 0 THEN "MW_FH_WAIT_END" ELSE "MW_SH_WAIT_END"
      /\ CH_CNT' = 0 /\ word' = 0 /\ lag' = 0
      /\ addr' = [ch |-> 0, at |-> SMPLCNTDLY_REG']
    BY <1>1, <1>2, Triggered
<1>4. smpl' = smpl + 1 /\ wch' = 0 /\ clr' = 0 /\ sdram' = sdram
    BY Triggered
<1>5. Handed' = h + 1
    <2>1. smpl' # 0 /\ smpl' - 1 = smpl
        BY <1>1, <1>4
    <2>2. Handed' = smpl \div Half
        BY <2>1 DEF Handed
    <2> QED BY <1>1, <2>2
<1>6. Place(h + 1) = smpl % RingSize
    <2>1. (h + 1) * Half = smpl
        BY <1>1, Constants, Times
    <2>2. ((h + 1) * Half) % RingSize = Place(h + 1)
        BY <1>1, PlaceInRing
    <2> QED BY <2>1, <2>2
<1>7. Cleared'
    BY <1>1, <1>3, <1>4 DEF Cleared
<1>8. Alternates'
    <2>1. smpl + 1 = (h + 1) * Half + 1
        BY <1>1, Constants, Times
    <2>2. smpl' + (IF wch' > 0 THEN 1 ELSE 0) = (h + 1) * Half + 1 + lag'
        BY <1>1, <1>3, <1>4, <2>1
    <2>3. MWSTS' \in IF Handed' % 2 = 0 THEN {"MW_FH_WAIT", "MW_SH_WAIT_END"}
                                        ELSE {"MW_SH_WAIT", "MW_FH_WAIT_END"}
        BY <1>1, <1>3, <1>5
    <2> QED BY <1>5, <2>2, <2>3 DEF Alternates
<1>9. Addressed'
    <2>1. SMPLCNT_REG' = Place(h + 1) /\ SMPLCNTDLY_REG' = Place(h)
        BY <1>6, Triggered DEF IInv, Addressed
    <2>2. smpl' > 0 /\ Handed' = h + 1 /\ h + 1 # 0 /\ (h + 1) - 1 = h
        BY <1>1, <1>4, <1>5
    <2> HIDE DEF h
    <2> QED BY <1>3, <2>1, <2>2 DEF Addressed, Place
<1>10. Stored'
    <2> SUFFICES ASSUME NEW k \in Nat, k < h + 1, h + 1 <= k + RingHalves,
                        NEW c \in Chs, NEW i \in 0..(Half - 1), Moved(k, c, i)'
                 PROVE  sdram[c][Place(k) + i] = k * Half + i
        BY <1>4, <1>5 DEF Stored, Place
    <2>1. k # h
        <3> SUFFICES ASSUME k = h PROVE FALSE
            OBVIOUS
        <3>1. c < 0 \/ (c = 0 /\ i < 0)
            BY <1>1, <1>3, <1>5 DEF Moved, Moves
        <3> QED BY <3>1 DEF Chs
    <2>2. k < h /\ h <= k + RingHalves
        BY <1>1, <2>1, Constants
    <2>3. Moved(k, c, i)
        BY <1>2 DEF Moved, Moves
    <2> QED BY <2>2, <2>3 DEF IInv, Stored
<1> QED BY <1>7, <1>8, <1>9, <1>10, TriggeredTypes, SampleWritten DEF IInv

---------------------------------------------------------------------------
(* The theorems. *)

LEMMA StutterStep == ASSUME IInv, UNCHANGED vars PROVE IInv'
<1>1. UNCHANGED <<coreVars, seqVars, lineVars, lag>>
    BY DEF vars
<1>2. /\ UNCHANGED <<clr, smpl, wch, buf, MWSTS, CH_CNT, SMPLCNT_REG, SMPLCNTDLY_REG>>
      /\ UNCHANGED <<word, addr, sdram, lag>>
    BY <1>1 DEF coreVars, seqVars, lineVars
<1>3. TypeOK' /\ Cleared'
    BY <1>2 DEF IInv, TypeOK, Cleared
<1>4. Alternates' /\ Addressed' /\ Stored'
    BY <1>1, <1>2, SameSamples DEF IInv, Alternates, Addressed, Stored, Moved
<1> QED BY <1>1, <1>3, <1>4, SameSamples DEF IInv

LEMMA Step == IInv /\ [Next]_vars => IInv'
<1>1. IInv /\ Sample => IInv'
    <2> SUFFICES ASSUME IInv, Sample PROVE IInv'
        OBVIOUS
    <2>1. smpl = 0 \/ smpl > 0
        BY Counters DEF IInv
    <2> QED BY <2>1, QuietSample, FirstSample, HalfFull
<1> QED BY <1>1, StutterStep, ClrOnStep, ClrOffStep, MoveSampleStep, NextChannelStep,
           PassEndStep DEF Next

\* The invariant holds for every number of channels and every length of the
\* halves and the ring, wherever CLR cuts a pass or a capture off.
THEOREM Invariance == Spec => []IInv
<1> QED BY InitIInv, Step, PTL DEF Spec

\* Every register of the sequencer stays in its range.
THEOREM TypeCorrect == Spec => []TypeOK
<1>1. IInv => TypeOK
    BY DEF IInv
<1> QED BY Invariance, <1>1, PTL

\* Between two passes every half handed over is in SDRAM at its own place, for
\* every channel, unless the ring has come round to it.
THEOREM HalvesStored == Spec => []HalvesInPlace
<1>1. IInv => HalvesInPlace
    <2> SUFFICES ASSUME IInv, clr = 0, MWSTS \in Waits,
                        NEW k \in 0..(Handed - 1), k + RingHalves >= Handed,
                        NEW c \in Chs, NEW i \in 0..(Half - 1)
                 PROVE  sdram[c][(k % RingHalves) * Half + i] = k * Half + i
        BY DEF HalvesInPlace
    <2>1. smpl > 0
        <3>1. smpl = 0 => Handed = 0
            BY DEF Handed
        <3> QED BY <3>1, Counters DEF IInv
    <2>2. Handed \in Nat
        BY <2>1, Standing DEF Stands
    <2>3. k \in Nat /\ k < Handed /\ Handed <= k + RingHalves
        BY <2>2, Constants
    <2>4. Moved(k, c, i)
        BY Constants DEF Moved
    <2> QED BY <2>1, <2>3, <2>4 DEF IInv, Stored, Place
<1> QED BY Invariance, <1>1, PTL

\* Every half that fills up finds the sequencer waiting for it: no trigger of
\* the core is lost (START_FH, START_SH in pdm_amseq).
THEOREM NoTriggerLost == Spec => TriggerFindsWait
<1>1. ASSUME IInv, [Next]_vars, smpl' = smpl + 1, smpl > 0, smpl % Half = 0
      PROVE  MWSTS = IF smpl % (2 * Half) = Half THEN "MW_FH_WAIT" ELSE "MW_SH_WAIT"
    <2>1. smpl \in Nat
        BY <1>1, Counters DEF IInv
    <2>2. LastWrite
        <3>1. CASE Sample
            BY <1>1, <2>1, <3>1 DEF Sample
        <3>2. CASE ~Sample
            BY <1>1, <2>1, <3>2 DEF Next, ClrOn, ClrOff, MoveSample, NextChannel, PassEnd,
                                    vars, coreVars
        <3> QED BY <3>1, <3>2
    <2>3. /\ smpl = Handed * Half + Half
          /\ smpl % (2 * Half) = Half <=> Handed % 2 = 0
        BY <1>1, Standing DEF Stands
    <2> QED BY <1>1, <2>2, <2>3, FullFindsWait
<1>2. IInv /\ [Next]_vars =>
        [smpl' = smpl + 1 /\ smpl > 0 /\ smpl % Half = 0 =>
            MWSTS = IF smpl % (2 * Half) = Half THEN "MW_FH_WAIT" ELSE "MW_SH_WAIT"]_vars
    BY <1>1
<1> QED BY Invariance, <1>2, PTL DEF Spec, TriggerFindsWait
=============================================================================

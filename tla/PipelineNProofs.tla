-------------------------- MODULE PipelineNProofs --------------------------
(***************************************************************************)
(* Proofs about PipelineN, for every number of stages, order and depth of  *)
(* the dividers, for calls of one cycle and calls that outlast the         *)
(* pipeline: how far apart the data are that meet in it, that no stage     *)
(* loses or repeats a sample, and that a long call answers its own.        *)
(***************************************************************************)
EXTENDS PipelineN, ReconBlocksProofs

-----------------------------------------------------------------------------
(* Which call an enabled cycle belongs to.                                 *)

LEMMA DivisionFacts ==
  ASSUME NEW c \in Nat \ {0}, NEW a \in Nat
  PROVE  /\ a \div c \in Int /\ a % c \in 0..c-1
         /\ a = c * (a \div c) + (a % c)
  BY Z3

\* Quotient and remainder are the only ones.
LEMMA DivisionUnique ==
  ASSUME NEW c \in Nat \ {0}, NEW p \in Int, NEW s \in 0..c-1, c * p + s \in Nat
  PROVE  (c * p + s) \div c = p /\ (c * p + s) % c = s
  <1> DEFINE a == c * p + s
             x == a \div c
             y == a % c
  <1>1. x \in Int /\ y \in 0..c-1 /\ a = c * x + y
    BY DivisionFacts
  <1>2. c * p + s = c * x + y
    BY <1>1
  <1> HIDE DEF a, x, y
  <1>3. c * (p - x) = y - s
    <2>1. c * (p - x) = c * p - c * x
      BY <1>1
    <2> QED BY <1>1, <1>2, <2>1
  <1>4. CASE p - x >= 1
    <2>1. c * (p - x) >= c * 1
      BY <1>1, <1>4
    <2> QED BY <1>1, <1>3, <2>1
  <1>5. CASE p - x <= -1
    <2>1. c * (p - x) <= c * (-1)
      BY <1>1, <1>5
    <2> QED BY <1>1, <1>3, <2>1
  <1>6. CASE p - x = 0
    <2>1. p = x
      BY <1>1, <1>6
    <2>2. y = s
      BY <1>1, <1>2, <2>1
    <2> QED BY <2>1, <2>2 DEF x, y, a
  <1> QED BY <1>1, <1>4, <1>5, <1>6

\* Division goes up by one where the remainder is zero and nowhere else.
LEMMA DivisionSteps ==
  ASSUME NEW c \in Nat \ {0}, NEW a \in Nat \ {0}
  PROVE  a \div c = (a - 1) \div c + (IF a % c = 0 THEN 1 ELSE 0)
  <1> DEFINE x == a \div c
             y == a % c
  <1>1. x \in Int /\ y \in 0..c-1 /\ a = c * x + y
    BY DivisionFacts
  <1> HIDE DEF x, y
  <1>2. CASE y = 0
    <2>1. c * (x - 1) = c * x - c
      BY <1>1
    <2> DEFINE p == x - 1
               s == c - 1
    <2>2. a - 1 = c * p + s /\ p \in Int /\ s \in 0..c-1 /\ c * p + s \in Nat
      BY <1>1, <1>2, <2>1
    <2> HIDE DEF p, s
    <2>3. (a - 1) \div c = p
      BY <2>2, DivisionUnique
    <2> QED BY <1>1, <1>2, <2>3 DEF x, y, p
  <1>3. CASE y # 0
    <2>1. a - 1 = c * x + (y - 1) /\ y - 1 \in 0..c-1
      BY <1>1, <1>3
    <2>2. c * x + (y - 1) \in Nat
      BY <2>1
    <2>3. (a - 1) \div c = x
      BY <1>1, <2>1, <2>2, DivisionUnique
    <2> QED BY <1>1, <1>3, <2>3 DEF x, y
  <1> QED BY <1>2, <1>3

LEMMA DivisionAtZero ==
  ASSUME NEW c \in Nat \ {0}
  PROVE  0 \div c = 0 /\ 0 % c = 0
  <1>1. c * 0 + 0 = 0 /\ 0 \in 0..c-1
    OBVIOUS
  <1> QED BY <1>1, DivisionUnique

LEMMA SentNat ==
  ASSUME NEW len \in Nat \ {0}, NEW e \in Nat, NEW d \in Nat
  PROVE  Sent(e, len)[d] \in Nat
  <1>1. CASE e > d
    <2> DEFINE a == e - d - 1
    <2>1. a \in Nat
      BY <1>1
    <2>2. a \div len \in Int /\ a % len \in 0..len-1 /\ a = len * (a \div len) + (a % len)
      BY <2>1, DivisionFacts
    <2>3. a \div len >= 0
      <3> DEFINE x == a \div len
      <3> SUFFICES ASSUME x <= -1 PROVE FALSE
        BY <2>2
      <3> HIDE DEF x
      <3>1. x \in Int /\ a < len * x + len
        BY <2>2 DEF x
      <3>2. len * x <= len * (-1)
        BY <3>1
      <3> QED BY <2>1, <3>1, <3>2
    <2> QED BY <1>1, <2>2, <2>3 DEF Sent
  <1>2. CASE ~(e > d)
    BY <1>2 DEF Sent
  <1> QED BY <1>1, <1>2

LEMMA SentMoves ==
  ASSUME NEW len \in Nat \ {0}, NEW e \in Nat
  PROVE  Moves(Sent(e, len), Sent(e + 1, len)) /\ Moves(Firsts(e, len), Firsts(e + 1, len))
  <1>1. ASSUME NEW d \in Nat
        PROVE  /\ Sent(e + 1, len)[d + 1] = Sent(e, len)[d]
               /\ Firsts(e + 1, len)[d + 1] = Firsts(e, len)[d]
    <2>1. /\ e + 1 - (d + 1) - 1 = e - d - 1 /\ d + 1 \in Nat
          /\ (e + 1 > d + 1 <=> e > d) /\ (e + 1 = d + 1 <=> e = d)
      OBVIOUS
    <2>2. Sent(e + 1, len)[d + 1] =
            IF e + 1 > d + 1 THEN (e + 1 - (d + 1) - 1) \div len + 1 ELSE 0
      BY <2>1 DEF Sent
    <2>3. Firsts(e + 1, len)[d + 1] =
            IF e + 1 > d + 1 THEN {(e + 1 - (d + 1) - 1) % len = 0}
            ELSE IF e + 1 = d + 1 /\ len > 1 THEN {FALSE} ELSE BOOLEAN
      BY <2>1 DEF Firsts
    <2>4. Sent(e, len)[d] = IF e > d THEN (e - d - 1) \div len + 1 ELSE 0
      BY DEF Sent
    <2>5. Firsts(e, len)[d] = IF e > d THEN {(e - d - 1) % len = 0}
                              ELSE IF e = d /\ len > 1 THEN {FALSE} ELSE BOOLEAN
      BY DEF Firsts
    <2> HIDE DEF Sent, Firsts
    <2>6. Sent(e + 1, len)[d + 1] = Sent(e, len)[d]
      BY <2>1, <2>2, <2>4
    <2>7. Firsts(e + 1, len)[d + 1] = Firsts(e, len)[d]
      BY <2>1, <2>3, <2>5
    <2> QED BY <2>6, <2>7
  <1> QED BY <1>1 DEF Moves

LEMMA LessMoves ==
  ASSUME NEW g, NEW h, Moves(g, h), NEW s \in Nat
  PROVE  Moves(Less(g, s), Less(h, s))
  BY DEF Moves, Less

\* A valid bit tells when the next sample comes.
LEMMA FirstsBring ==
  ASSUME NEW len \in Nat \ {0}, NEW e \in Nat, NEW d \in Nat,
         NEW v \in BOOLEAN, v \in Firsts(e, len)[d]
  PROVE  Brings(v, Sent(e, len), d)
  <1> DEFINE a == e - d - 1
  <1>1. d + 1 \in Nat
    OBVIOUS
  <1>2. CASE e > d
    <2>1. a \in Nat /\ Sent(e, len)[d] = a \div len + 1
      BY <1>2 DEF Sent
    <2>2. v <=> a % len = 0
      BY <1>2 DEF Firsts
    <2>3. CASE a = 0
      <3>1. v /\ Sent(e, len)[d] = 1
        BY <2>1, <2>2, <2>3, DivisionAtZero
      <3>2. Sent(e, len)[d + 1] = 0
        BY <1>1, <2>3 DEF Sent
      <3> QED BY <3>1, <3>2 DEF Brings
    <2>4. CASE a # 0
      <3>1. e > d + 1 /\ e - (d + 1) - 1 = a - 1 /\ a \in Nat \ {0}
        BY <2>1, <2>4
      <3>2. Sent(e, len)[d + 1] = (a - 1) \div len + 1
        <4>1. Sent(e, len)[d + 1] = (e - (d + 1) - 1) \div len + 1
          BY <1>1, <3>1 DEF Sent
        <4> QED BY <3>1, <4>1
      <3> HIDE DEF a
      <3>3. a \div len = (a - 1) \div len + (IF a % len = 0 THEN 1 ELSE 0)
        BY <3>1, DivisionSteps
      <3>4. (a - 1) \div len \in Int
        BY <3>1, DivisionFacts
      <3>5. CASE v
        BY <2>1, <2>2, <3>2, <3>3, <3>4, <3>5 DEF Brings
      <3>6. CASE ~v
        BY <2>1, <2>2, <3>2, <3>3, <3>4, <3>6 DEF Brings
      <3> QED BY <3>5, <3>6
    <2> QED BY <2>3, <2>4
  <1>3. CASE ~(e > d)
    <2>1. Sent(e, len)[d] = 0 /\ Sent(e, len)[d + 1] = 0
      BY <1>1, <1>3 DEF Sent
    <2> QED BY <2>1 DEF Brings
  <1> QED BY <1>2, <1>3

\* What is said of the samples holds of an order's differences.
LEMMA LessBrings ==
  ASSUME NEW g, NEW d \in Nat, g[d] \in Nat, g[d + 1] \in Nat, NEW s \in Nat,
         NEW v \in BOOLEAN, Brings(v, g, d)
  PROVE  Brings(v, Less(g, s), d)
  <1>1. /\ Less(g, s)[d] = (IF g[d] > s THEN g[d] - s ELSE 0)
        /\ Less(g, s)[d + 1] = (IF g[d + 1] > s THEN g[d + 1] - s ELSE 0)
    BY DEF Less
  <1>2. CASE v
    BY <1>1, <1>2 DEF Brings
  <1>3. CASE ~v
    BY <1>1, <1>3 DEF Brings
  <1> QED BY <1>2, <1>3

-----------------------------------------------------------------------------
(* Calls of one cycle.                                                     *)

LEMMA ByOne ==
  ASSUME NEW a \in Nat
  PROVE  a \div 1 = a /\ a % 1 = 0
  <1>1. a \div 1 \in Int /\ a % 1 \in 0..1-1 /\ a = 1 * (a \div 1) + (a % 1)
    BY DivisionFacts
  <1> QED BY <1>1

LEMMA SentOne ==
  ASSUME NEW e \in Nat, NEW d \in Nat
  PROVE  Sent(e, 1)[d] = IF e > d THEN e - d ELSE 0
  <1>1. CASE e > d
    <2>1. e - d - 1 \in Nat
      BY <1>1
    <2>2. (e - d - 1) \div 1 = e - d - 1
      BY <2>1, ByOne
    <2> QED BY <1>1, <2>2 DEF Sent
  <1>2. CASE ~(e > d)
    BY <1>2 DEF Sent
  <1> QED BY <1>1, <1>2

\* A bit that is not set is from before the first call.
LEMMA FirstsOne ==
  ASSUME NEW e \in Nat, NEW d \in Nat, NEW v \in BOOLEAN
  PROVE  v \in Firsts(e, 1)[d] <=> (v \/ e <= d)
  <1>1. CASE e > d
    <2>1. e - d - 1 \in Nat
      BY <1>1
    <2>2. (e - d - 1) % 1 = 0
      BY <2>1, ByOne
    <2> QED BY <1>1, <2>2 DEF Firsts
  <1>2. CASE ~(e > d)
    BY <1>2 DEF Firsts
  <1> QED BY <1>1, <1>2

\* So a stage may take a datum up to s cycles before its valid bit.
LEMMA OneBrings ==
  ASSUME NEW e \in Nat, NEW d \in Nat, NEW s \in Nat, NEW x \in Nat, d <= x + s,
         NEW v \in BOOLEAN, v \in Firsts(e, 1)[d]
  PROVE  Brings(v, Less(Sent(e, 1), s), x)
  <1> DEFINE u == Less(Sent(e, 1), s)
  <1>1. x + 1 \in Nat
    OBVIOUS
  <1>2. /\ Sent(e, 1)[x] = (IF e > x THEN e - x ELSE 0)
        /\ Sent(e, 1)[x + 1] = (IF e > x + 1 THEN e - (x + 1) ELSE 0)
    BY <1>1, SentOne
  <1>3. /\ u[x] = (IF e > x + s THEN e - x - s ELSE 0)
        /\ u[x + 1] = (IF e > x + 1 + s THEN e - x - 1 - s ELSE 0)
    BY <1>1, <1>2 DEF Less
  <1> HIDE DEF u
  <1>4. CASE v
    <2>1. u[x] = u[x + 1] + 1 \/ (u[x] = 0 /\ u[x + 1] = 0)
      BY <1>3
    <2> QED BY <1>4, <2>1 DEF Brings, u
  <1>5. CASE ~v
    <2>1. e <= d
      BY <1>5, FirstsOne
    <2>2. u[x] = 0 /\ u[x + 1] = 0
      BY <1>3, <2>1
    <2> QED BY <1>5, <2>2 DEF Brings, u
  <1> QED BY <1>4, <1>5

-----------------------------------------------------------------------------
(* Calls of more than one cycle.                                           *)

\* The sample before the one a valid bit tells of has been there for a cycle.
LEMMA LongSettled ==
  ASSUME NEW len \in Nat, len > 1, NEW e \in Nat, NEW d \in Nat \ {0},
         TRUE \in Firsts(e, len)[d]
  PROVE  Sent(e, len)[d - 1] = Sent(e, len)[d]
  <1>1. d - 1 \in Nat /\ len \in Nat \ {0}
    OBVIOUS
  <1>2. CASE e > d
    <2> DEFINE a == e - d
    <2>1. a \in Nat \ {0} /\ a - 1 \in Nat /\ e - (d - 1) - 1 = a /\ e > d - 1
      BY <1>2
    <2>2. Sent(e, len)[d] = (a - 1) \div len + 1
      BY <1>2 DEF Sent
    <2>3. Sent(e, len)[d - 1] = a \div len + 1
      <3>1. Sent(e, len)[d - 1] = (e - (d - 1) - 1) \div len + 1
        BY <1>1, <2>1 DEF Sent
      <3> QED BY <2>1, <3>1
    <2>4. (a - 1) % len = 0
      BY <1>2 DEF Firsts
    <2> HIDE DEF a
    <2> DEFINE p == (a - 1) \div len
    <2>5. p \in Int /\ a - 1 = len * p + 0
      BY <1>1, <2>1, <2>4, DivisionFacts
    <2> HIDE DEF p
    <2>6. a = len * p + 1 /\ 1 \in 0..len-1 /\ len * p + 1 \in Nat
      BY <2>1, <2>5
    <2>7. a \div len = p
      BY <1>1, <2>5, <2>6, DivisionUnique
    <2> QED BY <2>2, <2>3, <2>7 DEF p
  <1>3. CASE ~(e > d)
    <2>1. e # d
      BY <1>3 DEF Firsts
    <2> QED BY <1>1, <1>3, <2>1 DEF Sent
  <1> QED BY <1>2, <1>3

\* The cycle d before the last one in the m-th call, of which l are still to come.
LEMMA CallCycle ==
  ASSUME NEW len \in Nat \ {0}, NEW m \in Nat \ {0}, NEW l \in 0..len-1, NEW d \in Nat,
         d < len - l
  PROVE  /\ m * len - l \in Nat /\ m * len - l > d
         /\ (m * len - l - d - 1) \div len = m - 1
         /\ (m * len - l - d - 1) % len = len - l - 1 - d
  <1> DEFINE p == m - 1
             s == len - l - 1 - d
  <1>1. p \in Nat /\ s \in 0..len-1
    OBVIOUS
  <1>2. len * p = m * len - len
    OBVIOUS
  <1>3. len * p \in Nat
    BY <1>1
  <1>4. /\ m * len - l - d - 1 = len * p + s /\ len * p + s \in Nat
        /\ m * len - l > d /\ m * len - l \in Nat
    BY <1>1, <1>2, <1>3
  <1> HIDE DEF p, s
  <1>5. (len * p + s) \div len = p /\ (len * p + s) % len = s
    BY <1>1, <1>4, DivisionUnique
  <1>6. (m * len - l - d - 1) \div len = p /\ (m * len - l - d - 1) % len = s
    BY <1>4, <1>5
  <1> QED BY <1>4, <1>6 DEF p, s

LEMMA SentInCall ==
  ASSUME NEW len \in Nat \ {0}, NEW m \in Nat \ {0}, NEW l \in 0..len-1, NEW d \in Nat,
         d < len - l
  PROVE  m * len - l \in Nat /\ Sent(m * len - l, len)[d] = m
  <1>1. /\ m * len - l \in Nat /\ m * len - l > d
        /\ (m * len - l - d - 1) \div len = m - 1
    BY CallCycle
  <1> DEFINE e == m * len - l
  <1> HIDE DEF e
  <1>2. Sent(e, len)[d] = m
    BY <1>1 DEF Sent, e
  <1> QED BY <1>1, <1>2 DEF e

LEMMA FirstInCall ==
  ASSUME NEW len \in Nat \ {0}, NEW m \in Nat \ {0}, NEW l \in 0..len-1, NEW d \in Nat,
         d < len - l, NEW v \in BOOLEAN
  PROVE  v \in Firsts(m * len - l, len)[d] <=> (v <=> d = len - l - 1)
  <1> DEFINE e == m * len - l
  <1>1. /\ e > d /\ (e - d - 1) % len = len - l - 1 - d
    BY CallCycle
  <1>2. (e - d - 1) % len = 0 <=> d = len - l - 1
    BY <1>1
  <1> HIDE DEF e
  <1>3. v \in Firsts(e, len)[d] <=> (v <=> d = len - l - 1)
    BY <1>1, <1>2 DEF Firsts
  <1> QED BY <1>3 DEF e

\* After a long call none of its last cycles was a first one.
LEMMA NotFirst ==
  ASSUME NEW len \in Nat \ {0}, NEW m \in Nat \ {0}, NEW x \in Nat, x + 1 < len,
         NEW v \in BOOLEAN
  PROVE  v \in Firsts(m * len, len)[x] <=> ~v
  <1> DEFINE e == m * len
  <1>1. 0 \in 0..len-1 /\ x < len - 0 /\ m * len - 0 = e
    OBVIOUS
  <1>2. /\ m * len - 0 > x /\ (m * len - 0 - x - 1) % len = len - 0 - 1 - x
    BY <1>1, CallCycle
  <1> HIDE DEF e
  <1>3. e > x /\ (e - x - 1) % len = len - 1 - x
    BY <1>1, <1>2
  <1>4. (e - x - 1) % len # 0
    BY <1>3
  <1>5. v \in Firsts(e, len)[x] <=> ~v
    BY <1>3, <1>4 DEF Firsts
  <1> QED BY <1>5 DEF e

\* Between two calls a bit says the same one cycle further on, if the call was long.
LEMMA FirstsIdle ==
  ASSUME NEW len \in Nat \ {0}, NEW m \in Nat \ {0}, NEW d \in Nat,
         len = 1 \/ d + 2 < len,
         NEW v \in BOOLEAN, v \in Firsts(m * len, len)[d]
  PROVE  v \in Firsts(m * len, len)[d + 1]
  <1>1. CASE len = 1
    <2>1. m * len \in Nat /\ d + 1 \in Nat
      OBVIOUS
    <2>2. v \/ m * len <= d
      BY <1>1, <2>1, FirstsOne
    <2>3. v \/ m * len <= d + 1
      BY <2>1, <2>2
    <2> QED BY <1>1, <2>1, <2>3, FirstsOne
  <1>2. CASE len # 1
    <2> DEFINE y == d + 1
    <2>1. d + 1 < len /\ y + 1 < len /\ y \in Nat
      BY <1>2
    <2>2. ~v
      BY <2>1, NotFirst
    <2> HIDE DEF y
    <2>3. v \in Firsts(m * len, len)[y] <=> ~v
      BY <2>1, NotFirst
    <2> QED BY <2>2, <2>3 DEF y
  <1> QED BY <1>1, <1>2

\* Nor do the valid bits of a stage say anything new.
LEMMA LessDrifts ==
  ASSUME NEW len \in Nat \ {0}, NEW m \in Nat \ {0}, NEW d \in Nat, NEW j \in Nat,
         len = 1 \/ d + j + 2 < len, NEW s \in Nat
  PROVE  Drifts(Less(Sent(m * len, len), s), d, j)
  <1> DEFINE g == Sent(m * len, len)
             u == Less(g, s)
  <1> SUFFICES ASSUME NEW x \in d..d+j, NEW v \in BOOLEAN, Brings(v, u, x)
               PROVE  Brings(v, u, x + 1)
    BY DEF Drifts
  <1>1. x \in Nat /\ x + 1 \in Nat /\ x + 1 + 1 \in Nat /\ m * len \in Nat
    OBVIOUS
  <1>2. CASE len = 1
    <2> DEFINE e == m * len
    <2>1. /\ g[x] = (IF e > x THEN e - x ELSE 0)
          /\ g[x + 1] = (IF e > x + 1 THEN e - (x + 1) ELSE 0)
          /\ g[x + 1 + 1] = (IF e > x + 1 + 1 THEN e - (x + 1 + 1) ELSE 0)
      BY <1>1, <1>2, SentOne
    <2>2. e \in Nat
      BY <1>1
    <2> HIDE DEF e, g
    <2>3. /\ u[x] = (IF e > x + s THEN e - x - s ELSE 0)
          /\ u[x + 1] = (IF e > x + 1 + s THEN e - x - 1 - s ELSE 0)
          /\ u[x + 1 + 1] = (IF e > x + 2 + s THEN e - x - 2 - s ELSE 0)
      BY <1>1, <2>1, <2>2 DEF Less
    <2> HIDE DEF u
    <2>4. CASE v
      <3>1. u[x + 1] = u[x + 1 + 1] + 1 \/ (u[x + 1] = 0 /\ u[x + 1 + 1] = 0)
        BY <1>1, <2>2, <2>3
      <3> QED BY <2>4, <3>1 DEF Brings
    <2>5. CASE ~v
      <3>1. u[x] = u[x + 1]
        BY <2>5 DEF Brings
      <3>2. u[x + 1] = u[x + 1 + 1]
        BY <1>1, <2>2, <2>3, <3>1
      <3> QED BY <2>5, <3>2 DEF Brings
    <2> QED BY <2>4, <2>5
  <1>3. CASE len # 1
    <2>1. /\ 0 \in 0..len-1 /\ m * len - 0 = m * len
          /\ x < len - 0 /\ x + 1 < len - 0 /\ x + 1 + 1 < len - 0
      BY <1>3
    <2>2. g[x] = m /\ g[x + 1] = m /\ g[x + 1 + 1] = m
      <3>1. /\ Sent(m * len - 0, len)[x] = m /\ Sent(m * len - 0, len)[x + 1] = m
            /\ Sent(m * len - 0, len)[x + 1 + 1] = m
        BY <1>1, <2>1, SentInCall
      <3> QED BY <2>1, <3>1
    <2> HIDE DEF g
    <2>3. u[x] = u[x + 1] /\ u[x + 1] = u[x + 1 + 1]
      BY <1>1, <2>2 DEF Less
    <2> HIDE DEF u
    <2>4. CASE v
      BY <2>3, <2>4 DEF Brings
    <2>5. CASE ~v
      BY <2>3, <2>5 DEF Brings
    <2> QED BY <2>4, <2>5
  <1> QED BY <1>2, <1>3

-----------------------------------------------------------------------------
(* Type correctness.                                                       *)

LEMMA DiffNTyped ==
  ASSUME NEW b \in DiffNRegs, NEW en \in BOOLEAN, NEW v \in BOOLEAN, NEW x \in Nat,
         n \in 1..Max_N
  PROVE  DiffNEdge(b, en, v, x) \in DiffNRegs
  <1> DEFINE Diff == [new : Nat, old : Nat]
  <1>1. /\ b.v \in BOOLEAN /\ b.valid_out \in BOOLEAN /\ b.diff_out \in Diff
        /\ b.differences \in [1..Max_N -> Diff] /\ b.prev \in [1..Max_N -> Nat]
    BY DEF DiffNRegs
  <1> DEFINE input(i) == IF i = 1 THEN x ELSE b.differences[i - 1].new
  <1>2. ASSUME NEW i \in 1..Max_N PROVE input(i) \in Nat
    <2>1. CASE i = 1
      BY <2>1
    <2>2. CASE i # 1
      <3>1. i - 1 \in 1..Max_N
        BY <2>2, OrderAssumption
      <3>2. b.differences[i - 1] \in Diff
        BY <1>1, <3>1
      <3> QED BY <2>2, <3>2
    <2> QED BY <2>1, <2>2
  <1> HIDE DEF input
  <1>3. ASSUME NEW i \in 1..Max_N
        PROVE  /\ [new |-> input(i), old |-> b.prev[i]] \in Diff
               /\ b.differences[i] \in Diff /\ b.prev[i] \in Nat
    BY <1>1, <1>2
  <1>4. b.differences[n] \in Diff
    BY <1>1
  <1> QED BY <1>1, <1>2, <1>3, <1>4 DEF DiffNEdge, DiffNRegs, input

LEMMA FallsTyped ==
  ASSUME NEW s \in StageRegs, NEW en \in BOOLEAN
  PROVE  StageFalls(s, en) \in StageRegs
  <1>1. /\ s.anti_diff \in AntiRegs /\ s.mov_avg \in AvgRegs /\ s.valid_avg \in BOOLEAN
        /\ s.filter_piped \in Places(filter_pipe_len, Nat)
    BY DEF StageRegs
  <1>2. /\ s.anti_diff.residual_out \in Nat /\ s.anti_diff.valid_out \in BOOLEAN
        /\ s.mov_avg.out_avg \in Nat
    BY <1>1 DEF AntiRegs, AvgRegs
  <1>3. /\ Shift(s.filter_piped, s.anti_diff.residual_out) \in Places(filter_pipe_len, Nat)
        /\ Last(s.filter_piped, filter_pipe_len) \in Nat
    BY <1>1, <1>2, ShiftFacts, OrderAssumption
  <1> QED BY <1>1, <1>2, <1>3 DEF StageFalls, StageRegs, Recovered

LEMMA RisesTyped ==
  ASSUME NEW s \in StageRegs, NEW en \in BOOLEAN, NEW v \in BOOLEAN, NEW x \in Nat
  PROVE  StageRises(s, en, v, x) \in StageRegs
  <1>1. /\ s.anti_diff \in AntiRegs /\ s.mov_avg \in AvgRegs /\ s.valid_avg \in BOOLEAN
        /\ s.valid_avg_in \in BOOLEAN
        /\ s.filter_piped \in Places(filter_pipe_len, Nat)
    BY DEF StageRegs
  <1>2. s.filter_piped[0] \in Nat
    BY <1>1, OrderAssumption DEF Places
  <1>3. /\ AntiEdge(s.anti_diff, en, v, x) \in AntiRegs
        /\ AvgEdge(s.mov_avg, en, s.valid_avg_in, s.filter_piped[0]) \in AvgRegs
        /\ Last(s.mov_avg.v, AvgDelay) \in BOOLEAN
    BY <1>1, <1>2, AntiTyped, AvgTyped
  <1> QED BY <1>1, <1>3 DEF StageRises, StageRegs

\* What a stage takes, and that it has then taken it.
StageInput(i, en) ==
  IF i = 1
    THEN [v |-> mod_residual.valid_out, x |-> mod_residual.residual_out.remain]
    ELSE LET p == StageFalls(stage[i - 1], en)
         IN [v |-> p.valid_out, x |-> p.anti_diff_out.x]

LEMMA StageMoves ==
  ASSUME NEW en, Stages(en), NEW i \in 1..Max_N
  PROVE  stage'[i] = StageRises(StageFalls(stage[i], en), en,
                                StageInput(i, en).v, StageInput(i, en).x)
  <1>1. 1 \in 1..Max_N
    BY OrderAssumption
  <1>2. CASE i = 1
    BY <1>1, <1>2 DEF Stages, StageInput
  <1>3. CASE i # 1
    <2>1. i - 1 \in 1..Max_N
      BY <1>3, OrderAssumption
    <2> QED BY <1>3, <2>1 DEF Stages, StageInput
  <1> QED BY <1>2, <1>3

LEMMA InputTyped ==
  ASSUME TypeOK, NEW en \in BOOLEAN, NEW i \in 1..Max_N
  PROVE  StageInput(i, en).v \in BOOLEAN /\ StageInput(i, en).x \in Nat
  <1>1. CASE i = 1
    BY <1>1 DEF StageInput, TypeOK, ModRegs
  <1>2. CASE i # 1
    <2>1. i - 1 \in 1..Max_N
      BY <1>2, OrderAssumption
    <2>2. stage[i - 1] \in StageRegs
      BY <2>1 DEF TypeOK
    <2>3. StageFalls(stage[i - 1], en) \in StageRegs
      BY <2>2, FallsTyped
    <2>4. /\ StageFalls(stage[i - 1], en).valid_out \in BOOLEAN
          /\ StageFalls(stage[i - 1], en).anti_diff_out.x \in Nat
      BY <2>3 DEF StageRegs, Recovered
    <2> QED BY <1>2, <2>4 DEF StageInput
  <1> QED BY <1>1, <1>2

LEMMA OrderFacts ==
  ASSUME n \in Orders
  PROVE  /\ n \in 1..Max_N /\ n \in Nat \ {0} /\ n * stage_delay \in Nat
         /\ first_two_delay + n * stage_delay \in 0..adc_pipe_len-1
  <1>1. n \in 1..Max_N /\ n \in Nat \ {0} /\ stage_delay \in Nat /\ Max_N - n \in Nat
    BY OrderAssumption
  <1>2. n * stage_delay \in Nat /\ (Max_N - n) * stage_delay \in Nat
    BY <1>1
  <1>3. Max_N * stage_delay = n * stage_delay + (Max_N - n) * stage_delay
    BY <1>1, OrderAssumption
  <1>4. Max_N * stage_delay >= n * stage_delay /\ Max_N * stage_delay \in Nat
    BY <1>2, <1>3
  <1> DEFINE a == n * stage_delay
             b == Max_N * stage_delay
  <1>5. b >= a /\ a \in Nat /\ b \in Nat
    BY <1>2, <1>4
  <1>6. first_two_delay + b < adc_pipe_len /\ first_two_delay \in Nat /\ adc_pipe_len \in Nat
    BY OrderAssumption
  <1> HIDE DEF a, b
  <1>7. first_two_delay + a \in 0..adc_pipe_len-1
    BY <1>5, <1>6
  <1> QED BY <1>1, <1>2, <1>7 DEF a

\* A clock cycle keeps the type of every register.
LEMMA CycleType ==
  ASSUME TypeOK, NEW en \in BOOLEAN, NEW start \in BOOLEAN, NEW x \in Nat,
         Cycle(en, start, x)
  PROVE  /\ adc' \in AdcRegs /\ diff_calc' \in DiffNRegs /\ mod_residual' \in ModRegs
         /\ stage' \in [1..Max_N -> StageRegs] /\ dac' \in DacRegs(Result)
         /\ adc_out_piped' \in Places(adc_pipe_len, Nat)
         /\ conversion_in_intermediate' \in Result /\ conversion_in' \in Result
         /\ valid_convert_intermediate' \in BOOLEAN /\ valid_convert' \in BOOLEAN
         /\ dac_out' \in Result
  <1>1. /\ adc \in AdcRegs /\ diff_calc \in DiffNRegs /\ mod_residual \in ModRegs
        /\ stage \in [1..Max_N -> StageRegs] /\ dac \in DacRegs(Result)
        /\ n \in 1..Max_N
    BY OrderFacts DEF TypeOK
  <1>2. /\ adc.valid_out \in BOOLEAN /\ adc.fixed_in \in Nat
        /\ diff_calc.valid_out \in BOOLEAN /\ diff_calc.diff_out.new \in Nat
    BY <1>1 DEF AdcRegs, DiffNRegs
  <1>3. adc' \in AdcRegs
    BY <1>1, AdcTyped DEF Cycle, RisingEdge
  <1>4. diff_calc' \in DiffNRegs
    BY <1>1, <1>2, DiffNTyped DEF Cycle, RisingEdge
  <1>5. mod_residual' \in ModRegs
    BY <1>1, <1>2, ModTyped DEF Cycle, RisingEdge
  <1>6. stage' \in [1..Max_N -> StageRegs]
    <2>1. Stages(en) /\ DOMAIN stage' = 1..Max_N
      BY DEF Cycle, Stages
    <2>2. ASSUME NEW i \in 1..Max_N PROVE stage'[i] \in StageRegs
      <3>1. stage[i] \in StageRegs
        BY <1>1
      <3>2. StageFalls(stage[i], en) \in StageRegs
        BY <3>1, FallsTyped
      <3>3. StageInput(i, en).v \in BOOLEAN /\ StageInput(i, en).x \in Nat
        BY InputTyped
      <3>4. StageRises(StageFalls(stage[i], en), en,
                       StageInput(i, en).v, StageInput(i, en).x) \in StageRegs
        BY <3>2, <3>3, RisesTyped
      <3> QED BY <2>1, <3>4, StageMoves
    <2>3. stage' = [i \in 1..Max_N |-> stage'[i]]
      BY DEF Cycle, Stages
    <2> QED BY <2>2, <2>3
  <1>7. Selected \in Result
    <2>1. adc_out_piped[first_two_delay + n * stage_delay] \in Nat
      BY OrderFacts DEF TypeOK, Places
    <2>2. stage[n] \in StageRegs
      BY <1>1
    <2>3. stage[n].anti_diff_out.x \in Nat /\ stage[n].anti_diff_out.mean \in Nat
      BY <2>2 DEF StageRegs, Recovered
    <2> QED BY <2>1, <2>3 DEF Selected, Result
  <1>8. stage[n].valid_out \in BOOLEAN
    <2>1. stage[n] \in StageRegs
      BY <1>1
    <2> QED BY <2>1 DEF StageRegs
  <1>9. Shift(adc_out_piped, adc.fixed_in) \in Places(adc_pipe_len, Nat)
    BY <1>2, ShiftFacts, OrderAssumption DEF TypeOK
  <1>10. dac.dac_value \in Result
    BY <1>1 DEF DacRegs
  <1>11. /\ adc_out_piped' \in Places(adc_pipe_len, Nat)
         /\ conversion_in_intermediate' \in Result /\ conversion_in' \in Result
         /\ valid_convert_intermediate' \in BOOLEAN /\ valid_convert' \in BOOLEAN
         /\ dac_out' \in Result
    <2>1. CASE en
      <3>1. /\ adc_out_piped' = Shift(adc_out_piped, adc.fixed_in)
            /\ conversion_in_intermediate' = Selected
            /\ conversion_in' = conversion_in_intermediate
            /\ valid_convert_intermediate' = stage[n].valid_out
            /\ valid_convert' = valid_convert_intermediate
            /\ dac_out' = dac.dac_value
        BY <2>1 DEF Cycle, FallingEdge
      <3> QED BY <1>7, <1>8, <1>9, <1>10, <3>1 DEF TypeOK
    <2>2. CASE ~en
      BY <2>2 DEF Cycle, FallingEdge, regs, TypeOK
    <2> QED BY <2>1, <2>2
  <1>12. dac' \in DacRegs(Result)
    <2>1. dac' = DacEdge(dac, en, valid_convert', conversion_in')
      BY DEF Cycle, RisingEdge
    <2> QED BY <1>1, <1>11, <2>1, DacTyped
  <1> QED BY <1>3, <1>4, <1>5, <1>6, <1>11, <1>12

LEMMA Zeros == EmptySum \in Sum /\ NoResult \in Result
  BY DEF EmptySum, Sum, NoResult, Result

LEMMA InitType == Init => TypeOK
  <1> SUFFICES ASSUME Init PROVE TypeOK
    OBVIOUS
  <1>1. /\ Filled(2, FALSE) \in Places(2, BOOLEAN)
        /\ Filled(ModDelay, FALSE) \in Places(ModDelay, BOOLEAN)
        /\ Filled(AntiDelay, FALSE) \in Places(AntiDelay, BOOLEAN)
        /\ Filled(AvgDelay, FALSE) \in Places(AvgDelay, BOOLEAN)
    BY FilledFacts, Depths
  <1>2. /\ Filled(ModDelay, 0) \in Places(ModDelay, Nat)
        /\ Filled(ModStages, 0) \in Places(ModStages, Nat)
        /\ Filled(AntiStages, 0) \in Places(AntiStages, Nat)
        /\ Filled(AvgStages, 0) \in Places(AvgStages, Nat)
        /\ Filled(filter_pipe_len, 0) \in Places(filter_pipe_len, Nat)
    BY FilledFacts, Depths, OrderAssumption
  <1>3. adc_out_piped \in Places(adc_pipe_len, Nat)
    BY FilledFacts, OrderAssumption DEF Init
  <1>4. adc \in AdcRegs /\ mod_residual \in ModRegs
    BY <1>1, <1>2 DEF Init, AdcReset, AdcRegs, ModReset, ModRegs
  <1>5. AntiReset \in AntiRegs /\ AvgReset \in AvgRegs
    BY <1>1, <1>2, Zeros DEF AntiReset, AntiRegs, AvgReset, AvgRegs
  <1>6. dac \in DacRegs(Result)
    BY <1>1, Zeros DEF Init, DacReset, DacRegs
  <1>7. diff_calc \in DiffNRegs
    BY DEF Init, DiffNReset, DiffNRegs
  <1>8. stage \in [1..Max_N -> StageRegs]
    <2>1. StageReset \in StageRegs
      BY <1>2, <1>5 DEF StageReset, StageRegs, Recovered
    <2>2. \A b \in BOOLEAN : [StageReset EXCEPT !.valid_avg = b] \in StageRegs
      BY <2>1 DEF StageRegs
    <2>3. PICK b \in BOOLEAN : stage = [i \in 1..Max_N |-> [StageReset EXCEPT !.valid_avg = b]]
      BY DEF Init
    <2> QED BY <2>2, <2>3
  <1>9. left \in Nat /\ idle \in 0..MaxGap /\ k \in 0..MaxSamples
    BY OrderAssumption DEF Init
  <1> QED BY <1>3, <1>4, <1>6, <1>7, <1>8, <1>9, Zeros DEF Init, TypeOK

\* Every step is a clock cycle: the next of a call on the sample k', or an idle one.
LEMMA StepIsCycle ==
  ASSUME TypeOK, Next
  PROVE  /\ n' = n /\ cycles' = cycles /\ n \in Orders /\ cycles \in Nat \ {0}
         /\ left' \in Nat /\ idle' \in 0..MaxGap /\ k' \in 0..MaxSamples /\ k' \in Nat
         /\ \/ left = 0 /\ k' = k + 1 /\ left' = cycles - 1 /\ Cycle(TRUE, TRUE, k')
            \/ left > 0 /\ k' = k /\ left' = left - 1 /\ Cycle(TRUE, FALSE, k')
            \/ left = 0 /\ k' = k /\ k > 0 /\ left' = 0 /\ Cycle(FALSE, FALSE, k')
  <1>1. /\ n \in Orders /\ cycles \in Nat \ {0} /\ left \in Nat /\ idle \in 0..MaxGap
        /\ k \in 0..MaxSamples /\ MaxSamples \in Nat /\ MaxGap \in Nat
    BY OrderAssumption DEF TypeOK
  <1>2. CASE BeginCall
    <2>1. /\ left = 0 /\ k < MaxSamples /\ k' = k + 1 /\ left' = cycles - 1 /\ idle' = 0
          /\ Cycle(TRUE, TRUE, k') /\ n' = n /\ cycles' = cycles
      BY <1>2 DEF BeginCall
    <2>2. left' \in Nat /\ idle' \in 0..MaxGap /\ k' \in 0..MaxSamples /\ k' \in Nat
      BY <1>1, <2>1
    <2> QED BY <1>1, <2>1, <2>2
  <1>3. CASE ContinueCall
    <2>1. /\ left > 0 /\ left' = left - 1 /\ Cycle(TRUE, FALSE, k)
          /\ n' = n /\ cycles' = cycles /\ idle' = idle /\ k' = k
      BY <1>3 DEF ContinueCall
    <2>2. left' \in Nat /\ k \in Nat
      BY <1>1, <2>1
    <2> QED BY <1>1, <2>1, <2>2
  <1>4. CASE IdleCycle
    <2>1. /\ left = 0 /\ k > 0 /\ idle < MaxGap /\ idle' = idle + 1
          /\ Cycle(FALSE, FALSE, k)
          /\ n' = n /\ cycles' = cycles /\ left' = left /\ k' = k
      BY <1>4 DEF IdleCycle
    <2>2. idle' \in 0..MaxGap /\ k \in Nat
      BY <1>1, <2>1
    <2> QED BY <1>1, <2>1, <2>2
  <1> QED BY <1>2, <1>3, <1>4 DEF Next

LEMMA StepType == TypeOK /\ [Next]_vars => TypeOK'
  <1> SUFFICES ASSUME TypeOK, [Next]_vars PROVE TypeOK'
    OBVIOUS
  <1>1. CASE Next
    <2>1. /\ n' = n /\ cycles' = cycles /\ left' \in Nat /\ idle' \in 0..MaxGap
          /\ k' \in 0..MaxSamples /\ k' \in Nat
      BY <1>1, StepIsCycle
    <2>2. PICK en \in BOOLEAN, start \in BOOLEAN : Cycle(en, start, k')
      BY <1>1, StepIsCycle
    <2>3. /\ adc' \in AdcRegs /\ diff_calc' \in DiffNRegs /\ mod_residual' \in ModRegs
          /\ stage' \in [1..Max_N -> StageRegs] /\ dac' \in DacRegs(Result)
          /\ adc_out_piped' \in Places(adc_pipe_len, Nat)
          /\ conversion_in_intermediate' \in Result /\ conversion_in' \in Result
          /\ valid_convert_intermediate' \in BOOLEAN /\ valid_convert' \in BOOLEAN
          /\ dac_out' \in Result
      BY <2>1, <2>2, CycleType
    <2> QED BY <2>1, <2>3 DEF TypeOK
  <1>2. CASE UNCHANGED vars
    BY <1>2 DEF vars, regs, TypeOK
  <1> QED BY <1>1, <1>2

\* Every register stays in its type, whatever the order and the calls; the sample
\* chosen for an order is in the shift register.
THEOREM TypeCorrect == Spec => []TypeOK
  BY InitType, StepType, PTL DEF Spec

-----------------------------------------------------------------------------
(* A stage stays behind the input.                                         *)

\* What an enabled cycle loads into a stage.
StageLoads(s, t, v, x) ==
  /\ t.anti_diff = AntiEdge(s.anti_diff, TRUE, v, x)
  /\ t.filter_piped = Shift(s.filter_piped, s.anti_diff.residual_out)
  /\ t.valid_avg_in = s.anti_diff.valid_out
  /\ t.anti_diff_out.x = Last(s.filter_piped, filter_pipe_len)
  /\ t.anti_diff_out.mean = s.mov_avg.out_avg
  /\ t.valid_out = s.valid_avg
  /\ t.mov_avg = AvgEdge(s.mov_avg, TRUE, s.anti_diff.valid_out,
                         s.anti_diff.residual_out)
  /\ t.valid_avg = Last(s.mov_avg.v, AvgDelay)

LEMMA StageOn ==
  ASSUME NEW s \in StageRegs, NEW v, NEW x,
         NEW t, t = StageRises(StageFalls(s, TRUE), TRUE, v, x)
  PROVE  StageLoads(s, t, v, x)
  <1> DEFINE p == StageFalls(s, TRUE)
             y == s.anti_diff.residual_out
  <1>1. /\ p.anti_diff = s.anti_diff /\ p.mov_avg = s.mov_avg /\ p.valid_avg = s.valid_avg
        /\ p.filter_piped = Shift(s.filter_piped, y)
        /\ p.valid_avg_in = s.anti_diff.valid_out
        /\ p.anti_diff_out = [x |-> Last(s.filter_piped, filter_pipe_len),
                              mean |-> s.mov_avg.out_avg]
        /\ p.valid_out = s.valid_avg
    BY DEF StageFalls, StageRegs
  <1>2. p \in StageRegs
    BY FallsTyped
  <1> HIDE DEF p
  <1>3. /\ t.anti_diff = AntiEdge(p.anti_diff, TRUE, v, x)
        /\ t.mov_avg = AvgEdge(p.mov_avg, TRUE, p.valid_avg_in, p.filter_piped[0])
        /\ t.valid_avg = Last(p.mov_avg.v, AvgDelay)
        /\ t.filter_piped = p.filter_piped /\ t.valid_avg_in = p.valid_avg_in
        /\ t.anti_diff_out = p.anti_diff_out /\ t.valid_out = p.valid_out
    BY <1>2 DEF StageRises, StageRegs, p
  <1>4. p.filter_piped[0] = y
    <2>1. s.filter_piped \in Places(filter_pipe_len, Nat) /\ y \in Nat
      BY DEF StageRegs, AntiRegs
    <2>2. Shift(s.filter_piped, y)[0] = y
      BY <2>1, OrderAssumption DEF Shift, Places
    <2> QED BY <1>1, <2>2
  <1>5. t.mov_avg = AvgEdge(s.mov_avg, TRUE, s.anti_diff.valid_out, y)
    BY <1>1, <1>3, <1>4, Zenon
  <1>6. t.anti_diff = AntiEdge(s.anti_diff, TRUE, v, x)
    BY <1>1, <1>3, Zenon
  <1>7. t.valid_avg = Last(s.mov_avg.v, AvgDelay)
    BY <1>1, <1>3, Zenon
  <1>8. /\ t.filter_piped = Shift(s.filter_piped, y)
        /\ t.valid_avg_in = s.anti_diff.valid_out /\ t.valid_out = s.valid_avg
    BY <1>1, <1>3, Zenon
  <1>9. /\ t.anti_diff_out.x = Last(s.filter_piped, filter_pipe_len)
        /\ t.anti_diff_out.mean = s.mov_avg.out_avg
    <2> DEFINE z == Last(s.filter_piped, filter_pipe_len)
               o == s.mov_avg.out_avg
    <2>1. t.anti_diff_out = [x |-> z, mean |-> o]
      BY <1>1, <1>3, Zenon
    <2> HIDE DEF z, o
    <2>2. [x |-> z, mean |-> o].x = z /\ [x |-> z, mean |-> o].mean = o
      OBVIOUS
    <2>3. t.anti_diff_out.x = z /\ t.anti_diff_out.mean = o
      BY <2>1, <2>2, Zenon
    <2> QED BY <2>3 DEF z, o
  <1> QED BY <1>5, <1>6, <1>7, <1>8, <1>9, Zenon DEF StageLoads

Steps(s, t, v, x) == t = StageRises(StageFalls(s, TRUE), TRUE, v, x)

LEMMA StageStep ==
  ASSUME NEW u, NEW w, Moves(u, w), NEW q, NEW r, Moves(q, r),
         NEW d \in Nat, NEW e \in Nat, NEW s \in StageRegs, StageKeeps(s, q, e, u, d),
         filter_pipe_len = AvgDelay, \A z \in Nat : w[z] \in Nat,
         NEW v \in BOOLEAN, NEW x \in Nat, v => x = w[d], v \in r[e], Brings(v, w, d),
         NEW t, Steps(s, t, v, x)
  PROVE  StageKeeps(t, r, e, w, d)
  <1>0. StageLoads(s, t, v, x)
    BY StageOn DEF Steps
  <1> DEFINE a == s.anti_diff
             m == s.mov_avg
             f == s.filter_piped
             D == d + AntiDelay + 1
             E == e + AntiDelay + 1
  <1>1. /\ a \in AntiRegs /\ m \in AvgRegs /\ f \in Places(filter_pipe_len, Nat)
        /\ a.v \in Places(AntiDelay, BOOLEAN) /\ m.v \in Places(AvgDelay, BOOLEAN)
        /\ a.valid_out \in BOOLEAN /\ a.residual_out \in Nat
    BY DEF StageRegs, AntiRegs, AvgRegs
  <1>2. /\ AntiKeeps(a, u, d) /\ Among(a.v, AntiDelay, q, e) /\ a.valid_out \in q[e + AntiDelay]
        /\ Line(f, filter_pipe_len, u, D) /\ AvgKeeps(m, u, D)
        /\ Among(m.v, AvgDelay, q, E) /\ s.valid_avg \in q[e + StageLag - 1]
    BY DEF StageKeeps
  <1>3. /\ D \in Nat /\ E \in Nat /\ d + AntiDelay \in Nat /\ e + AntiDelay \in Nat
        /\ D + AvgDelay = d + StageLag - 1 /\ E + AvgDelay = e + StageLag - 1
        /\ d + StageLag - 1 \in Nat /\ e + StageLag - 1 \in Nat
        /\ d + StageLag - 1 + 1 = d + StageLag /\ e + StageLag - 1 + 1 = e + StageLag
    BY Depths DEF StageLag
  <1>4. /\ t.anti_diff = AntiEdge(a, TRUE, v, x) /\ t.filter_piped = Shift(f, a.residual_out)
        /\ t.valid_avg_in = a.valid_out
        /\ t.anti_diff_out.x = Last(f, filter_pipe_len) /\ t.anti_diff_out.mean = m.out_avg
        /\ t.valid_out = s.valid_avg
        /\ t.mov_avg = AvgEdge(m, TRUE, a.valid_out, a.residual_out)
        /\ t.valid_avg = Last(m.v, AvgDelay)
    BY <1>0 DEF StageLoads
  <1>5. AntiKeeps(t.anti_diff, w, d)
    <2>1. AntiKeeps(AntiEdge(a, TRUE, v, x), w, d)
      BY <1>1, <1>2, AntiStep
    <2> QED BY <1>4, <2>1, Zenon
  <1>6. /\ t.anti_diff.v = Shift(a.v, v) /\ t.anti_diff.valid_out = Last(a.v, AntiDelay)
    <2>1. /\ AntiEdge(a, TRUE, v, x).v = Shift(a.v, v)
          /\ AntiEdge(a, TRUE, v, x).valid_out = Last(a.v, AntiDelay)
      BY <1>1 DEF AntiEdge, AntiData, AntiValid, AntiRegs
    <2> QED BY <1>4, <2>1, Zenon
  <1>7. t.mov_avg.v = Shift(m.v, a.valid_out)
    <2>1. AvgEdge(m, TRUE, a.valid_out, a.residual_out).v = Shift(m.v, a.valid_out)
      BY DEF AvgEdge, AvgData
    <2> QED BY <1>4, <2>1, Zenon
  <1>8. a.residual_out = w[D] /\ a.valid_out \in r[E]
    <2>1. a.residual_out = u[d + AntiDelay] /\ a.valid_out \in q[e + AntiDelay]
      BY <1>2 DEF AntiKeeps
    <2>2. w[d + AntiDelay + 1] = u[d + AntiDelay] /\ r[e + AntiDelay + 1] = q[e + AntiDelay]
      BY <1>3 DEF Moves
    <2> QED BY <2>1, <2>2
  <1>9. Brings(a.valid_out, w, D)
    <2>1. Brings(a.valid_out, u, d + AntiDelay)
      BY <1>2 DEF AntiKeeps
    <2> QED BY <1>1, <1>3, <2>1, BringsStep
  <1>10. /\ s.valid_avg \in r[e + StageLag] /\ m.out_avg = w[d + StageLag]
    <2>1. m.out_avg = u[D + AvgDelay]
      BY <1>2 DEF AvgKeeps
    <2>2. m.out_avg = u[d + StageLag - 1]
      BY <1>3, <2>1
    <2>3. /\ w[d + StageLag - 1 + 1] = u[d + StageLag - 1]
          /\ r[e + StageLag - 1 + 1] = q[e + StageLag - 1]
      BY <1>3 DEF Moves
    <2> QED BY <1>2, <1>3, <2>2, <2>3
  <1> HIDE DEF a, m, f, D, E
  <1>11. /\ Among(t.anti_diff.v, AntiDelay, r, e) /\ t.anti_diff.valid_out \in r[e + AntiDelay]
    <2>1. /\ Among(Shift(a.v, v), AntiDelay, r, e)
          /\ Last(a.v, AntiDelay) \in r[e + AntiDelay]
      BY <1>1, <1>2, AmongStep, Depths
    <2> QED BY <1>6, <2>1, Zenon
  <1>12. /\ Line(t.filter_piped, filter_pipe_len, w, D)
         /\ t.anti_diff_out.x = w[d + StageLag - 1]
    <2>1. /\ Line(Shift(f, a.residual_out), filter_pipe_len, w, D)
          /\ Last(f, filter_pipe_len) = w[D + filter_pipe_len]
      BY <1>1, <1>2, <1>3, <1>8, LineStep, OrderAssumption
    <2> QED BY <1>3, <1>4, <2>1
  <1>13. AvgKeeps(t.mov_avg, w, D)
    <2>1. AvgKeeps(AvgEdge(m, TRUE, a.valid_out, a.residual_out), w, D)
      BY <1>1, <1>2, <1>3, <1>8, <1>9, AvgStep
    <2> QED BY <1>4, <2>1
  <1>14. Among(t.mov_avg.v, AvgDelay, r, E) /\ t.valid_avg \in r[e + StageLag - 1]
    <2>1. /\ Among(Shift(m.v, a.valid_out), AvgDelay, r, E)
          /\ Last(m.v, AvgDelay) \in r[E + AvgDelay]
      BY <1>1, <1>2, <1>3, <1>8, AmongStep, Depths
    <2> QED BY <1>3, <1>4, <1>7, <2>1
  <1>15. t.valid_avg_in \in r[E] /\ t.valid_out \in r[e + StageLag]
         /\ t.anti_diff_out.mean = w[d + StageLag]
    BY <1>4, <1>8, <1>10
  <1> QED BY <1>5, <1>11, <1>12, <1>13, <1>14, <1>15 DEF StageKeeps, D, E

\* Between two calls only the valid bits of its accumulator move.
LEMMA StageIdle ==
  ASSUME NEW u, NEW q, NEW d \in Nat, NEW e \in Nat,
         NEW s \in StageRegs, StageKeeps(s, q, e, u, d), Drifts(u, d, AntiDelay),
         \A z \in e..e+AntiDelay, b \in BOOLEAN : b \in q[z] => b \in q[z + 1],
         NEW v \in BOOLEAN, NEW x, v \in q[e], Brings(v, u, d),
         NEW t, t = StageRises(StageFalls(s, FALSE), FALSE, v, x)
  PROVE  StageKeeps(t, q, e, u, d)
  <1>1. /\ s.anti_diff \in AntiRegs /\ s.anti_diff.v \in Places(AntiDelay, BOOLEAN)
    BY DEF StageRegs, AntiRegs
  <1>2. /\ t.anti_diff = AntiEdge(s.anti_diff, FALSE, v, x)
        /\ t.filter_piped = s.filter_piped /\ t.valid_avg_in = s.valid_avg_in
        /\ t.mov_avg = s.mov_avg /\ t.valid_avg = s.valid_avg
        /\ t.anti_diff_out = s.anti_diff_out /\ t.valid_out = s.valid_out
    BY DEF StageFalls, StageRises, StageRegs, AvgEdge
  <1>3. t.anti_diff.v = Shift(s.anti_diff.v, v)
        /\ t.anti_diff.valid_out = Last(s.anti_diff.v, AntiDelay)
    BY <1>1, <1>2 DEF AntiEdge, AntiValid, AntiRegs
  <1>4. AntiKeeps(t.anti_diff, u, d)
    <2>1. AntiKeeps(s.anti_diff, u, d)
      BY DEF StageKeeps
    <2>2. AntiKeeps(AntiEdge(s.anti_diff, FALSE, v, x), u, d)
      BY <1>1, <2>1, AntiIdle
    <2> QED BY <1>2, <2>2
  <1>5. /\ Among(t.anti_diff.v, AntiDelay, q, e) /\ t.anti_diff.valid_out \in q[e + AntiDelay]
    <2>1. Among(s.anti_diff.v, AntiDelay, q, e)
      BY DEF StageKeeps
    <2>2. /\ Among(Shift(s.anti_diff.v, v), AntiDelay, q, e)
          /\ Last(s.anti_diff.v, AntiDelay) \in q[e + AntiDelay]
      BY <1>1, <2>1, AmongIdle, Depths
    <2> QED BY <1>3, <2>2, Zenon
  <1> QED BY <1>2, <1>4, <1>5 DEF StageKeeps

-----------------------------------------------------------------------------
(* After a reset.                                                          *)

LEMMA NoneSent ==
  ASSUME NEW len \in Nat \ {0}
  PROVE  /\ \A d \in Nat : Sent(0, len)[d] = 0
         /\ \A d \in Nat, s \in Nat : Less(Sent(0, len), s)[d] = 0
         /\ \A d \in Nat : FALSE \in Firsts(0, len)[d]
         /\ \A d \in Nat \ {0} : Firsts(0, len)[d] = BOOLEAN
  <1>1. \A d \in Nat : Sent(0, len)[d] = 0
    BY DEF Sent
  <1>2. \A d \in Nat, s \in Nat : Less(Sent(0, len), s)[d] = 0
    BY <1>1 DEF Less
  <1>3. \A d \in Nat : ~(0 > d)
    OBVIOUS
  <1>4. \A d \in Nat \ {0} : Firsts(0, len)[d] = BOOLEAN
    BY DEF Firsts
  <1>5. \A d \in Nat : FALSE \in Firsts(0, len)[d]
    <2>1. ASSUME NEW d \in Nat PROVE FALSE \in Firsts(0, len)[d]
      <3>1. Firsts(0, len)[d] = IF 0 > d THEN {(0 - d - 1) % len = 0}
                                ELSE IF 0 = d /\ len > 1 THEN {FALSE} ELSE BOOLEAN
        BY DEF Firsts
      <3>2. ~(0 > d)
        OBVIOUS
      <3> DEFINE x == {(0 - d - 1) % len = 0}
      <3> HIDE DEF x, Firsts
      <3>3. Firsts(0, len)[d] = IF 0 = d /\ len > 1 THEN {FALSE} ELSE BOOLEAN
        BY <3>1, <3>2, Zenon
      <3> QED BY <3>3, Zenon
    <2> QED BY <2>1
  <1> QED BY <1>1, <1>2, <1>4, <1>5

LEMMA FilledAmong ==
  ASSUME NEW q, \A z \in Nat : FALSE \in q[z], NEW d \in Nat, NEW m \in Nat
  PROVE  Among(Filled(m, FALSE), m, q, d)
  <1>1. \A i \in 0..m-1 : Filled(m, FALSE)[i] = FALSE /\ d + i \in Nat
    BY DEF Filled
  <1> QED BY <1>1 DEF Among

LEMMA StageZero ==
  ASSUME NEW u, \A z \in Nat : u[z] = 0, NEW q, \A z \in Nat : FALSE \in q[z],
         NEW d \in Nat, NEW e \in Nat, NEW b \in BOOLEAN, b \in q[e + StageLag - 1]
  PROVE  StageKeeps([StageReset EXCEPT !.valid_avg = b], q, e, u, d)
  <1> DEFINE s == [StageReset EXCEPT !.valid_avg = b]
  <1>1. /\ s.anti_diff = AntiReset /\ s.mov_avg = AvgReset /\ s.valid_avg = b
        /\ s.filter_piped = Filled(filter_pipe_len, 0)
        /\ s.anti_diff_out.x = 0 /\ s.anti_diff_out.mean = 0
    BY DEF StageReset
  <1>2. s.valid_avg_in = FALSE /\ s.valid_out = FALSE
    BY DEF StageReset
  <1> HIDE DEF s
  <1>3. /\ d + AntiDelay + 1 \in Nat /\ e + AntiDelay \in Nat /\ e + AntiDelay + 1 \in Nat
        /\ e + StageLag \in Nat /\ d + StageLag - 1 \in Nat /\ d + StageLag \in Nat
        /\ AntiDelay \in Nat /\ AvgDelay \in Nat
    BY Depths DEF StageLag
  <1>4. AntiKeeps(AntiReset, u, d) /\ AvgKeeps(AvgReset, u, d + AntiDelay + 1)
    BY <1>3, ZeroKeeps
  <1>5. Line(Filled(filter_pipe_len, 0), filter_pipe_len, u, d + AntiDelay + 1)
    BY <1>3, ZeroLine, OrderAssumption
  <1>6. /\ Among(AntiReset.v, AntiDelay, q, e)
        /\ Among(AvgReset.v, AvgDelay, q, e + AntiDelay + 1)
    <2>1. /\ Among(Filled(AntiDelay, FALSE), AntiDelay, q, e)
          /\ Among(Filled(AvgDelay, FALSE), AvgDelay, q, e + AntiDelay + 1)
      BY <1>3, FilledAmong
    <2> QED BY <2>1 DEF AntiReset, AvgReset
  <1>7. /\ AntiReset.valid_out \in q[e + AntiDelay] /\ s.valid_avg_in \in q[e + AntiDelay + 1]
        /\ s.valid_avg \in q[e + StageLag - 1] /\ s.valid_out \in q[e + StageLag]
    BY <1>1, <1>2, <1>3 DEF AntiReset
  <1>8. s.anti_diff_out.x = u[d + StageLag - 1] /\ s.anti_diff_out.mean = u[d + StageLag]
    BY <1>1, <1>3
  <1>9. StageKeeps(s, q, e, u, d)
    BY <1>1, <1>4, <1>5, <1>6, <1>7, <1>8 DEF StageKeeps
  <1> QED BY <1>9 DEF s

\* The lags are natural numbers.
LEMMA Lags ==
  /\ StageLag \in Nat /\ StageLag > 1 /\ ModStages + 6 \in Nat
  /\ \A i \in Nat \ {0} : /\ ValidLag(i) \in Nat /\ ValidLag(i) > 1
                          /\ ValidLag(i + 1) = ValidLag(i) + StageLag
                          /\ (i - 1) * StageLag >= i - 1
                          /\ ValidLag(i) = ModStages + 7 + (i - 1) * StageLag
                          /\ \A len : DataLag(i, len) \in Nat
  <1>1. StageLag \in Nat /\ StageLag > 1 /\ ModStages \in Nat
    BY Depths DEF StageLag
  <1> SUFFICES ASSUME NEW i \in Nat \ {0}
               PROVE  /\ ValidLag(i) \in Nat /\ ValidLag(i) > 1
                      /\ ValidLag(i + 1) = ValidLag(i) + StageLag
                      /\ (i - 1) * StageLag >= i - 1
                      /\ ValidLag(i) = ModStages + 7 + (i - 1) * StageLag
                      /\ \A len : DataLag(i, len) \in Nat
    BY <1>1
  <1> DEFINE b == i - 1
             p == b * StageLag
  <1>2. b \in Nat
    OBVIOUS
  <1>3. ValidLag(i) = ModStages + 7 + p /\ ValidLag(i + 1) = ModStages + 7 + i * StageLag
    BY DEF ValidLag
  <1>4. i * StageLag = p + StageLag
    <2>1. i = b + 1
      OBVIOUS
    <2> HIDE DEF b
    <2>2. (b + 1) * StageLag = b * StageLag + StageLag
      BY <1>1, <1>2
    <2> QED BY <2>1, <2>2
  <1>5. p \in Nat /\ p >= b
    <2> HIDE DEF b
    <2>1. b * StageLag = b + b * (StageLag - 1) /\ b * (StageLag - 1) \in Nat
      BY <1>1, <1>2
    <2> QED BY <1>2, <2>1
  <1>6. \A len : DataLag(i, len) = ValidLag(i) - b \/ DataLag(i, len) = ValidLag(i)
    <2>1. ValidLag(i) \in Nat
      BY <1>1, <1>3, <1>5
    <2> HIDE DEF ValidLag
    <2> QED BY <2>1 DEF DataLag
  <1> HIDE DEF b, p
  <1>7. \A len : DataLag(i, len) \in Nat
    BY <1>1, <1>2, <1>3, <1>5, <1>6
  <1> QED BY <1>1, <1>3, <1>4, <1>5, <1>7 DEF b, p

LEMMA InitN == Init => NInv
  <1> SUFFICES ASSUME Init PROVE NInv
    OBVIOUS
  <1> DEFINE g == Sent(0, cycles)
             q == Firsts(0, cycles)
             u == Less(Sent(0, cycles), n - 1)
  <1>1. /\ cycles \in Nat \ {0} /\ n \in Nat \ {0} /\ n \in 1..Max_N /\ n - 1 \in Nat
        /\ k = 0 /\ left = 0
    BY OrderAssumption DEF Init
  <1>2. Clock = 0
    BY <1>1 DEF Clock
  <1>3. /\ \A z \in Nat : g[z] = 0 /\ u[z] = 0
        /\ \A z \in Nat, s \in Nat : Less(g, s)[z] = 0
        /\ \A z \in Nat : FALSE \in q[z]
        /\ \A z \in Nat \ {0} : q[z] = BOOLEAN
    BY <1>1, NoneSent
  <1>4. \A i \in 1..n : i \in Nat \ {0} /\ i - 1 \in Nat /\ i \in 1..Max_N
    BY <1>1, OrderAssumption
  <1> HIDE DEF g, q, u
  <1>5. ResidualBehind(g, q, u)
    <2>1. AdcKeeps(adc, g) /\ ModKeeps(mod_residual, u, 5)
      BY <1>3, ZeroKeeps DEF Init
    <2>2. Among(adc.v, 2, q, 0) /\ adc.valid_out \in q[2]
      BY <1>3, FilledAmong DEF Init, AdcReset
    <2>3. Line(adc_out_piped, adc_pipe_len, g, 3)
      BY <1>3, ZeroLine, OrderAssumption DEF Init
    <2>4. /\ diff_calc.v \in q[3] /\ diff_calc.valid_out \in q[4]
          /\ diff_calc.diff_out.new = u[4]
      BY <1>3 DEF Init, DiffNReset
    <2>5. \A i \in 1..n : diff_calc.differences[i].new = Less(g, i - 1)[3]
      BY <1>3, <1>4 DEF Init, DiffNReset
    <2>6. Among(mod_residual.v, ModDelay, q, 5) /\ mod_residual.valid_out \in q[ModStages + 6]
      <3>1. ModDelay \in Nat /\ 5 \in Nat /\ ModStages + 6 \in Nat
        BY Depths
      <3>2. \A z \in Nat : FALSE \in q[z]
        BY <1>3
      <3>3. Among(Filled(ModDelay, FALSE), ModDelay, q, 5)
        BY <3>1, <3>2, FilledAmong
      <3> QED BY <3>1, <3>2, <3>3 DEF Init, ModReset
    <2> QED BY <2>1, <2>2, <2>3, <2>4, <2>5, <2>6 DEF ResidualBehind
  <1>6. ASSUME NEW i \in 1..n
        PROVE  StageKeeps(stage[i], q, ValidLag(i), u, DataLag(i, cycles))
    <2>1. PICK b \in BOOLEAN : stage = [j \in 1..Max_N |-> [StageReset EXCEPT !.valid_avg = b]]
      BY DEF Init
    <2>2. stage[i] = [StageReset EXCEPT !.valid_avg = b]
      BY <1>4, <2>1
    <2>3. ValidLag(i) \in Nat /\ DataLag(i, cycles) \in Nat
          /\ ValidLag(i) + StageLag - 1 \in Nat \ {0}
      BY <1>4, Lags
    <2>4. b \in q[ValidLag(i) + StageLag - 1]
      BY <1>3, <2>3
    <2>5. (\A z \in Nat : u[z] = 0) /\ (\A z \in Nat : FALSE \in q[z])
      BY <1>3
    <2>6. StageKeeps([StageReset EXCEPT !.valid_avg = b], q, ValidLag(i), u,
                     DataLag(i, cycles))
      BY <2>3, <2>4, <2>5, StageZero
    <2> QED BY <2>2, <2>6
  <1>7. ResultBehind(g, q, u, ValidLag(n + 1) + 1, DataLag(n, cycles) + StageLag)
    <2> DEFINE w == ValidLag(n + 1) + 1
               d == DataLag(n, cycles) + StageLag
    <2>1. /\ w \in Nat /\ w + 1 \in Nat /\ w + 2 \in Nat /\ w + 3 \in Nat /\ w + 4 \in Nat
          /\ d \in Nat /\ d + 1 \in Nat
      <3>1. n + 1 \in Nat \ {0}
        BY <1>1
      <3>2. ValidLag(n + 1) \in Nat /\ DataLag(n, cycles) \in Nat /\ StageLag \in Nat
        BY <1>1, <3>1, Lags
      <3> QED BY <3>2
    <2> HIDE DEF w, d
    <2>2. Among(dac.v, 2, q, w + 1)
      BY <1>3, <2>1, FilledAmong DEF Init, DacReset
    <2>3. /\ valid_convert_intermediate \in q[w] /\ valid_convert \in q[w + 1]
      BY <1>3, <2>1 DEF Init
    <2>4. ResultBehind(g, q, u, w, d)
      BY <1>3, <2>1, <2>2, <2>3 DEF Init, DacReset, NoResult, ResultBehind
    <2> QED BY <2>4 DEF w, d
  <1>8. Behind(g, q, u)
    BY <1>5, <1>6, <1>7 DEF Behind
  <1>9. TypeOK
    BY InitType
  <1>10. left < cycles /\ (k = 0 => left = 0)
    BY <1>1
  <1> QED BY <1>2, <1>8, <1>9, <1>10 DEF NInv, g, q, u

-----------------------------------------------------------------------------
(* An enabled cycle.                                                       *)

\* Valid bits bring the samples.
Brought(h, r) == \A z \in Nat, v \in BOOLEAN : v \in r[z] => Brings(v, h, z)

\* The differences in use each lag a sample behind the order below.
InStep(b, g) == \A i \in 1..n : b.differences[i].new = Less(g, i - 1)[3]

\* Each difference takes what the one of the order below held.
LEMMA DifferenceStep ==
  ASSUME NEW g, NEW h, Moves(g, h), \A z \in Nat : g[z] \in Nat /\ h[z] \in Nat,
         NEW b \in DiffNRegs, n \in 1..Max_N,
         InStep(b, g),
         NEW v \in BOOLEAN, Brings(v, h, 3), NEW x \in Nat, x = h[3]
  PROVE  InStep(DiffNEdge(b, TRUE, v, x), h)
  <1> SUFFICES ASSUME NEW i \in 1..n
               PROVE  DiffNEdge(b, TRUE, v, x).differences[i].new = Less(h, i - 1)[3]
    BY DEF InStep
  <1>1. /\ i \in 1..Max_N /\ i \in Nat \ {0} /\ i <= n
    BY OrderAssumption
  <1>2. h[4] = g[3] /\ h[3] \in Nat /\ h[4] \in Nat
    <2>1. 3 + 1 = 4
      OBVIOUS
    <2> QED BY <2>1 DEF Moves
  <1>3. Less(h, i - 1)[3] = (IF h[3] > i - 1 THEN h[3] - (i - 1) ELSE 0)
    BY DEF Less
  <1>4. CASE v
    <2>1. DiffNEdge(b, TRUE, v, x).differences[i].new
            = IF i = 1 THEN x ELSE b.differences[i - 1].new
      BY <1>1, <1>4 DEF DiffNEdge
    <2>2. CASE i = 1
      <3>1. Less(h, i - 1)[3] = h[3]
        BY <1>2, <1>3, <2>2
      <3> QED BY <2>1, <2>2, <3>1
    <2>3. CASE i # 1
      <3>1. i - 1 \in 1..n /\ i - 1 - 1 = i - 2
        BY <1>1, <2>3
      <3>2. b.differences[i - 1].new = Less(g, i - 2)[3]
        <4>1. b.differences[i - 1].new = Less(g, i - 1 - 1)[3]
          BY <3>1 DEF InStep
        <4> QED BY <3>1, <4>1
      <3>3. Less(g, i - 2)[3] = (IF g[3] > i - 2 THEN g[3] - (i - 2) ELSE 0)
        BY DEF Less
      <3>4. h[3] = h[4] + 1 \/ (h[3] = 0 /\ h[4] = 0)
        <4>1. 3 + 1 = 4
          OBVIOUS
        <4> QED BY <1>4, <4>1 DEF Brings
      <3>5. Less(g, i - 2)[3] = Less(h, i - 1)[3]
        BY <1>1, <1>2, <1>3, <2>3, <3>3, <3>4
      <3> QED BY <2>1, <2>3, <3>2, <3>5
    <2> QED BY <2>2, <2>3
  <1>5. CASE ~v
    <2>1. DiffNEdge(b, TRUE, v, x).differences[i].new = b.differences[i].new
      BY <1>1, <1>5 DEF DiffNEdge
    <2>2. h[3] = h[4]
      <3>1. 3 + 1 = 4
        OBVIOUS
      <3> QED BY <1>5, <3>1 DEF Brings
    <2>3. Less(g, i - 1)[3] = (IF g[3] > i - 1 THEN g[3] - (i - 1) ELSE 0)
      BY DEF Less
    <2>4. b.differences[i].new = Less(g, i - 1)[3]
      BY DEF InStep
    <2> QED BY <1>2, <1>3, <2>1, <2>2, <2>3, <2>4
  <1> QED BY <1>4, <1>5

Samples(g) == \A z \in Nat : g[z] \in Nat

\* A cycle on: h, r and w become of the samples, of the valid bits and of the last
\* difference in use what g, q and u say.
CycleOn(g, h, q, r, u, w) ==
  /\ Moves(g, h) /\ Moves(q, r) /\ Samples(g) /\ Samples(h) /\ Brought(h, r)
  /\ u = Less(g, n - 1) /\ w = Less(h, n - 1)

\* What the first stage is handed.
Residue(r, w) == /\ mod_residual.valid_out \in r[ModStages + 7]
                 /\ mod_residual.residual_out.remain = w[ModStages + 7]

LEMMA ResidualStep ==
  ASSUME NEW g, NEW h, NEW q, NEW r, NEW u, NEW w, CycleOn(g, h, q, r, u, w),
         TypeOK, n' = n, ResidualBehind(g, q, u),
         NEW start \in BOOLEAN, start \in r[0], Cycle(TRUE, start, h[0])
  PROVE  ResidualBehind(h, r, w)' /\ Residue(r, w)
  <1>m. /\ Moves(g, h) /\ Moves(q, r) /\ Samples(g) /\ Samples(h) /\ Brought(h, r)
        /\ u = Less(g, n - 1) /\ w = Less(h, n - 1)
    BY DEF CycleOn
  <1> DEFINE s == n - 1
             x == h[0]
             y == adc.fixed_in
             a == adc.valid_out
             b == diff_calc.valid_out
             c == diff_calc.diff_out.new
  <1>1. /\ adc \in AdcRegs /\ adc.v \in Places(2, BOOLEAN) /\ a \in BOOLEAN /\ y \in Nat
        /\ diff_calc \in DiffNRegs /\ diff_calc.v \in BOOLEAN /\ b \in BOOLEAN /\ c \in Nat
        /\ mod_residual \in ModRegs /\ mod_residual.v \in Places(ModDelay, BOOLEAN)
        /\ adc_out_piped \in Places(adc_pipe_len, Nat) /\ n \in 1..Max_N
    BY OrderFacts DEF TypeOK, AdcRegs, DiffNRegs, ModRegs
  <1>2. /\ AdcKeeps(adc, g) /\ Among(adc.v, 2, q, 0) /\ a \in q[2]
        /\ Line(adc_out_piped, adc_pipe_len, g, 3)
        /\ diff_calc.v \in q[3] /\ b \in q[4]
        /\ \A i \in 1..n : diff_calc.differences[i].new = Less(g, i - 1)[3]
        /\ c = u[4]
        /\ ModKeeps(mod_residual, u, 5)
        /\ Among(mod_residual.v, ModDelay, q, 5)
        /\ mod_residual.valid_out \in q[ModStages + 6]
    BY DEF ResidualBehind
  <1>3. /\ adc' = AdcEdge(adc, TRUE, start, x)
        /\ diff_calc' = DiffNEdge(diff_calc, TRUE, a, y)
        /\ mod_residual' = ModEdge(mod_residual, TRUE, b, c)
        /\ adc_out_piped' = Shift(adc_out_piped, y)
    BY DEF Cycle, RisingEdge, FallingEdge
  <1>4. /\ ModStages + 6 \in Nat /\ 5 + ModDelay = ModStages + 6 /\ 5 + ModDelay \in Nat
        /\ ModStages + 6 + 1 = ModStages + 7 /\ ModStages + 7 \in Nat
    BY Depths
  <1>s. s \in Nat /\ x \in Nat /\ x = h[0] /\ u = Less(g, s) /\ w = Less(h, s)
    <2>1. n \in Nat \ {0}
      BY <1>1, OrderAssumption
    <2> QED BY <1>m, <2>1 DEF Samples
  <1> HIDE DEF s, x
  <1>5. Moves(u, w) /\ \A z \in Nat : w[z + 1] = u[z]
    <2>1. Moves(u, w)
      BY <1>m, <1>s, LessMoves
    <2> QED BY <2>1 DEF Moves
  <1>6. \A z \in Nat : h[z + 1] = g[z] /\ r[z + 1] = q[z]
    BY <1>m DEF Moves
  <1>7. y = h[3] /\ a \in r[3] /\ diff_calc.v \in r[4] /\ b \in r[5] /\ c = w[5]
    <2>1. y = g[2]
      BY <1>2 DEF AdcKeeps
    <2>2. 2 + 1 = 3 /\ 3 + 1 = 4 /\ 4 + 1 = 5
      OBVIOUS
    <2>3. h[3] = g[2] /\ r[3] = q[2] /\ r[4] = q[3] /\ r[5] = q[4] /\ w[5] = u[4]
      BY <1>5, <1>6, <2>2
    <2> QED BY <1>2, <2>1, <2>3
  <1>8. ASSUME NEW z \in Nat, NEW v \in BOOLEAN, v \in r[z]
        PROVE  Brings(v, h, z) /\ Brings(v, w, z)
    <2>1. Brings(v, h, z)
      BY <1>m, <1>8 DEF Brought
    <2>2. h[z] \in Nat /\ h[z + 1] \in Nat
      BY <1>m DEF Samples
    <2> QED BY <1>s, <2>1, <2>2, LessBrings
  <1>9. \A i \in 1..n : diff_calc'.differences[i].new = Less(h, i - 1)[3]
    <2>1. Brings(a, h, 3)
      BY <1>1, <1>7, <1>8
    <2>2. InStep(diff_calc, g)
      BY <1>2 DEF InStep
    <2> HIDE DEF a, y, b, c
    <2>3. /\ diff_calc \in DiffNRegs /\ n \in 1..Max_N /\ a \in BOOLEAN /\ y \in Nat /\ y = h[3]
          /\ \A z \in Nat : g[z] \in Nat /\ h[z] \in Nat
      BY <1>m, <1>1, <1>7 DEF Samples
    <2>4. InStep(DiffNEdge(diff_calc, TRUE, a, y), h)
      BY <1>m, <2>1, <2>2, <2>3, DifferenceStep
    <2> QED BY <1>3, <2>4 DEF InStep
  <1>10. diff_calc'.v = a /\ diff_calc'.valid_out = diff_calc.v
    BY <1>3 DEF DiffNEdge
  <1>11. diff_calc'.diff_out.new = w[4]
    <2> DEFINE old == diff_calc.differences[n].new
    <2>1. diff_calc'.diff_out.new = IF diff_calc.v THEN old ELSE c
      BY <1>3 DEF DiffNEdge
    <2>2. old = u[3]
      <3>1. n \in 1..n
        BY <1>1, OrderAssumption
      <3>2. old = Less(g, n - 1)[3]
        BY <1>2, <3>1
      <3> QED BY <1>m, <3>2
    <2>3. w[4] = u[3] /\ 4 \in Nat
      <3>1. 3 + 1 = 4
        OBVIOUS
      <3> QED BY <1>5, <3>1
    <2>4. Brings(diff_calc.v, w, 4)
      BY <1>1, <1>7, <1>8
    <2> DEFINE v == diff_calc.v
    <2>5. v \in BOOLEAN /\ (v => old = w[4]) /\ c = u[4] /\ Brings(v, w, 4)
      BY <1>1, <1>2, <2>2, <2>3, <2>4
    <2> HIDE DEF old, c, v
    <2>6. Moves(u, w) /\ 4 \in Nat
      BY <1>5
    <2>7. (IF v THEN old ELSE c) = w[4]
      BY <2>5, <2>6, LoadStep
    <2> QED BY <2>1, <2>7 DEF v
  <1>12. Brings(start, h, 0) /\ Brings(b, w, 5)
    BY <1>1, <1>7, <1>8
  <1>13. AdcKeeps(adc', h)
    <2>1. AdcKeeps(AdcEdge(adc, TRUE, start, x), h)
      BY <1>s, <1>1, <1>2, <1>12, <1>m, AdcStep
    <2> QED BY <1>3, <2>1
  <1>14. Among(adc'.v, 2, r, 0) /\ adc'.valid_out \in r[2]
    <2>1. adc'.v = Shift(adc.v, start) /\ adc'.valid_out = Last(adc.v, 2)
      BY <1>3 DEF AdcEdge, Last
    <2>2. Among(Shift(adc.v, start), 2, r, 0) /\ Last(adc.v, 2) \in r[0 + 2]
      BY <1>1, <1>2, <1>m, AmongStep
    <2>3. 0 + 2 = 2
      OBVIOUS
    <2> QED BY <2>1, <2>2, <2>3
  <1>15. Line(adc_out_piped', adc_pipe_len, h, 3)
    <2>1. Line(Shift(adc_out_piped, y), adc_pipe_len, h, 3)
      BY <1>1, <1>2, <1>7, <1>m, LineStep, OrderAssumption
    <2> QED BY <1>3, <2>1
  <1>16. ModKeeps(mod_residual', w, 5)
    <2>1. ModKeeps(ModEdge(mod_residual, TRUE, b, c), w, 5)
      BY <1>1, <1>2, <1>5, <1>7, <1>12, ModStep
    <2> QED BY <1>3, <2>1
  <1>17. /\ Among(mod_residual'.v, ModDelay, r, 5)
         /\ mod_residual'.valid_out \in r[ModStages + 6]
    <2>1. /\ mod_residual'.v = Shift(mod_residual.v, b)
          /\ mod_residual'.valid_out = Last(mod_residual.v, ModDelay)
      BY <1>3 DEF ModEdge
    <2>2. /\ Among(Shift(mod_residual.v, b), ModDelay, r, 5)
          /\ Last(mod_residual.v, ModDelay) \in r[5 + ModDelay]
      BY <1>1, <1>2, <1>7, <1>m, AmongStep, Depths
    <2> QED BY <1>4, <2>1, <2>2
  <1>18. ResidualBehind(h, r, w)'
    BY <1>7, <1>9, <1>10, <1>11, <1>13, <1>14, <1>15, <1>16, <1>17 DEF ResidualBehind
  <1>19. mod_residual.valid_out \in r[ModStages + 7]
    <2>1. r[ModStages + 6 + 1] = q[ModStages + 6]
      BY <1>4, <1>6
    <2> QED BY <1>2, <1>4, <2>1
  <1>20. mod_residual.residual_out.remain = w[ModStages + 7]
    <2>1. mod_residual.residual_out.remain = u[5 + ModDelay]
      BY <1>2 DEF ModKeeps
    <2>2. w[5 + ModDelay + 1] = u[5 + ModDelay] /\ 5 + ModDelay + 1 = ModStages + 7
      BY <1>4, <1>5
    <2> QED BY <2>1, <2>2
  <1> QED BY <1>18, <1>19, <1>20 DEF Residue

\* A stage's datum is where its valid bit is, or a cycle earlier for each stage before.
LEMMA DataLags ==
  ASSUME NEW len
  PROVE  /\ ValidLag(1) = ModStages + 7 /\ DataLag(1, len) = ModStages + 7
         /\ \A i \in Nat \ {0} :
              DataLag(i + 1, len) = DataLag(i, len) + StageLag - (IF len = 1 THEN 1 ELSE 0)
  <1>1. ValidLag(1) = ModStages + 7
    <2>1. (1 - 1) * StageLag = 0 /\ ModStages \in Nat
      BY Lags, Depths
    <2>2. ValidLag(1) = ModStages + 7 + (1 - 1) * StageLag
      BY DEF ValidLag
    <2> QED BY <2>1, <2>2
  <1>2. DataLag(1, len) = ValidLag(1)
    <2>1. ValidLag(1) \in Nat
      BY Lags
    <2> HIDE DEF ValidLag
    <2> QED BY <2>1 DEF DataLag
  <1>3. ASSUME NEW i \in Nat \ {0}
        PROVE  DataLag(i + 1, len) = DataLag(i, len) + StageLag - (IF len = 1 THEN 1 ELSE 0)
    <2>1. ValidLag(i) \in Nat /\ ValidLag(i + 1) = ValidLag(i) + StageLag /\ StageLag \in Nat
      BY Lags
    <2> HIDE DEF ValidLag
    <2>2. CASE len = 1
      BY <2>1, <2>2 DEF DataLag
    <2>3. CASE len # 1
      BY <2>1, <2>3 DEF DataLag
    <2> QED BY <2>2, <2>3
  <1> QED BY <1>1, <1>2, <1>3

\* What the valid bit of a stage says of its datum.
Taken(w, r, len) ==
  \A i \in 1..n, v \in BOOLEAN : v \in r[ValidLag(i)] =>
    /\ Brings(v, w, DataLag(i, len))
    /\ v /\ len # 1 => w[DataLag(i, len) - 1] = w[DataLag(i, len)]

InputBehind(i, w, r, len) ==
  LET b == StageInput(i, TRUE)
  IN b.v \in r[ValidLag(i)] /\ (b.v => b.x = w[DataLag(i, len)])

StagesKeep(q, u, len) ==
  \A i \in 1..n : StageKeeps(stage[i], q, ValidLag(i), u, DataLag(i, len))

LEMMA InputStep ==
  ASSUME NEW u, NEW w, Moves(u, w), NEW q, NEW r, Moves(q, r), NEW len, TypeOK,
         filter_pipe_len = AvgDelay, Taken(w, r, len), StagesKeep(q, u, len),
         mod_residual.valid_out \in r[ModStages + 7],
         mod_residual.residual_out.remain = w[ModStages + 7],
         NEW i \in 1..n
  PROVE  InputBehind(i, w, r, len)
  <1>1. /\ i \in Nat \ {0} /\ i \in 1..Max_N /\ n \in 1..Max_N
        /\ StageInput(i, TRUE).v \in BOOLEAN
    <2>1. n \in 1..Max_N
      BY OrderFacts DEF TypeOK
    <2>2. i \in 1..Max_N /\ i \in Nat \ {0}
      BY <2>1, OrderAssumption
    <2> QED BY <2>1, <2>2, InputTyped
  <1>2. CASE i = 1
    <2>1. /\ StageInput(i, TRUE).v = mod_residual.valid_out
          /\ StageInput(i, TRUE).x = mod_residual.residual_out.remain
      BY <1>2 DEF StageInput
    <2>2. ValidLag(i) = ModStages + 7 /\ DataLag(i, len) = ModStages + 7
      BY <1>2, DataLags
    <2> QED BY <2>1, <2>2 DEF InputBehind
  <1>3. CASE i # 1
    <2> DEFINE j == i - 1
               s == stage[j]
               V == ValidLag(j)
               D == DataLag(j, len)
    <2>1. j \in Nat \ {0} /\ j \in 1..n /\ j \in 1..Max_N /\ j + 1 = i
      BY <1>1, <1>3, OrderAssumption
    <2>2. s \in StageRegs /\ StageKeeps(s, q, V, u, D)
      BY <2>1 DEF TypeOK, StagesKeep
    <2> HIDE DEF s
    <2>3. /\ V \in Nat /\ D \in Nat /\ StageLag \in Nat /\ StageLag > 1
          /\ ValidLag(i) = V + StageLag
          /\ DataLag(i, len) = D + StageLag - (IF len = 1 THEN 1 ELSE 0)
      <3>1. /\ V \in Nat /\ D \in Nat /\ StageLag \in Nat /\ StageLag > 1
            /\ ValidLag(j + 1) = V + StageLag
        BY <2>1, Lags
      <3>2. DataLag(j + 1, len) = D + StageLag - (IF len = 1 THEN 1 ELSE 0)
        BY <2>1, DataLags
      <3> QED BY <2>1, <3>1, <3>2
    <2> HIDE DEF j, V, D
    <2>4. /\ StageInput(i, TRUE).v = s.valid_avg
          /\ StageInput(i, TRUE).x = Last(s.filter_piped, filter_pipe_len)
      <3>1. /\ StageFalls(s, TRUE).valid_out = s.valid_avg
            /\ StageFalls(s, TRUE).anti_diff_out.x = Last(s.filter_piped, filter_pipe_len)
        <4> DEFINE z == Last(s.filter_piped, filter_pipe_len)
                   o == s.mov_avg.out_avg
        <4>1. /\ StageFalls(s, TRUE).valid_out = s.valid_avg
              /\ StageFalls(s, TRUE).anti_diff_out = [x |-> z, mean |-> o]
          BY <2>2 DEF StageFalls, StageRegs
        <4> HIDE DEF z, o
        <4>2. [x |-> z, mean |-> o].x = z
          OBVIOUS
        <4>3. StageFalls(s, TRUE).anti_diff_out.x = z
          BY <4>1, <4>2, Zenon
        <4> QED BY <4>1, <4>3 DEF z
      <3>2. /\ StageInput(i, TRUE).v = StageFalls(s, TRUE).valid_out
            /\ StageInput(i, TRUE).x = StageFalls(s, TRUE).anti_diff_out.x
        BY <1>3 DEF StageInput, s, j
      <3> QED BY <3>1, <3>2, Zenon
    <2>5. s.valid_avg \in r[ValidLag(i)]
      <3>1. s.valid_avg \in q[V + StageLag - 1]
        BY <2>2 DEF StageKeeps
      <3>2. V + StageLag - 1 \in Nat /\ V + StageLag - 1 + 1 = ValidLag(i)
        BY <2>3
      <3>3. r[V + StageLag - 1 + 1] = q[V + StageLag - 1]
        BY <3>2 DEF Moves
      <3> QED BY <3>1, <3>2, <3>3
    <2>6. Last(s.filter_piped, filter_pipe_len) = w[D + StageLag - 1]
      <3>1. Line(s.filter_piped, filter_pipe_len, u, D + AntiDelay + 1)
        BY <2>2 DEF StageKeeps
      <3>2. /\ filter_pipe_len - 1 \in 0..filter_pipe_len-1
            /\ D + AntiDelay + 1 + (filter_pipe_len - 1) = D + StageLag - 2
            /\ D + StageLag - 2 \in Nat /\ D + StageLag - 2 + 1 = D + StageLag - 1
        BY <2>3, Depths DEF StageLag
      <3>3. s.filter_piped[filter_pipe_len - 1] = u[D + AntiDelay + 1 + (filter_pipe_len - 1)]
        BY <3>1, <3>2 DEF Line
      <3>4. w[D + StageLag - 2 + 1] = u[D + StageLag - 2]
        BY <3>2 DEF Moves
      <3> QED BY <3>2, <3>3, <3>4 DEF Last
    <2>7. s.valid_avg => w[D + StageLag - 1] = w[DataLag(i, len)]
      <3>1. CASE len = 1
        <4>1. DataLag(i, len) = D + StageLag - 1
          BY <2>3, <3>1
        <4> QED BY <4>1
      <3>2. CASE len # 1
        <4>1. DataLag(i, len) - 1 = D + StageLag - 1
          BY <2>3, <3>2
        <4>2. s.valid_avg \in BOOLEAN
          BY <1>1, <2>4
        <4>3. s.valid_avg => w[DataLag(i, len) - 1] = w[DataLag(i, len)]
          BY <2>5, <3>2, <4>2 DEF Taken
        <4> QED BY <4>1, <4>3
      <3> QED BY <3>1, <3>2
    <2>8. StageInput(i, TRUE).v \in r[ValidLag(i)]
      BY <2>4, <2>5, Zenon
    <2>9. StageInput(i, TRUE).v => StageInput(i, TRUE).x = w[DataLag(i, len)]
      BY <2>4, <2>6, <2>7, Zenon
    <2> QED BY <2>8, <2>9 DEF InputBehind
  <1> QED BY <1>2, <1>3

LEMMA StagesStep ==
  ASSUME NEW u, NEW w, Moves(u, w), \A z \in Nat : w[z] \in Nat,
         NEW q, NEW r, Moves(q, r), NEW len, TypeOK, n' = n, Stages(TRUE),
         filter_pipe_len = AvgDelay, Taken(w, r, len), StagesKeep(q, u, len),
         mod_residual.valid_out \in r[ModStages + 7],
         mod_residual.residual_out.remain = w[ModStages + 7]
  PROVE  StagesKeep(r, w, len)'
  <1> SUFFICES ASSUME NEW i \in 1..n
               PROVE  StageKeeps(stage'[i], r, ValidLag(i), w, DataLag(i, len))
    BY DEF StagesKeep
  <1> DEFINE s == stage[i]
             t == stage'[i]
             v == StageInput(i, TRUE).v
             x == StageInput(i, TRUE).x
             V == ValidLag(i)
             D == DataLag(i, len)
  <1>1. i \in Nat \ {0} /\ i \in 1..Max_N
    <2>1. n \in 1..Max_N
      BY OrderFacts DEF TypeOK
    <2> QED BY <2>1, OrderAssumption
  <1>2. /\ s \in StageRegs /\ StageKeeps(s, q, V, u, D) /\ V \in Nat /\ D \in Nat
        /\ v \in BOOLEAN /\ x \in Nat
    BY <1>1, InputTyped, Lags DEF TypeOK, StagesKeep
  <1>3. v \in r[V] /\ (v => x = w[D])
    BY InputStep DEF InputBehind
  <1>4. Brings(v, w, D)
    BY <1>2, <1>3 DEF Taken
  <1>5. Steps(s, t, v, x)
    BY <1>1, StageMoves DEF Steps
  <1> HIDE DEF s, t, v, x, V, D
  <1>6. StageKeeps(t, r, V, w, D)
    BY <1>2, <1>3, <1>4, <1>5, StageStep
  <1> QED BY <1>6 DEF t, V, D

\* The sample and the residual that are added.
LEMMA SelectedBehind ==
  ASSUME NEW g, NEW h, Moves(g, h), NEW u, NEW w, Moves(u, w), NEW q, NEW r, Moves(q, r),
         NEW len, TypeOK, DelaysMatch, StagesKeep(q, u, len),
         Line(adc_out_piped, adc_pipe_len, g, 3),
         NEW W, W = ValidLag(n + 1) + 1, NEW D, D = DataLag(n, len) + StageLag
  PROVE  /\ W \in Nat /\ D \in Nat
         /\ Selected.y = h[W] /\ Selected.x = w[D] /\ Selected.mean = w[D + 1]
         /\ stage[n].valid_out \in r[W]
  <1> DEFINE s == stage[n]
             V == ValidLag(n)
             d == DataLag(n, len)
  <1>1. /\ n \in Nat \ {0} /\ n \in 1..n
        /\ first_two_delay + n * stage_delay \in 0..adc_pipe_len-1
    BY OrderFacts DEF TypeOK
  <1>2. /\ V \in Nat /\ d \in Nat /\ StageLag \in Nat /\ StageLag > 1
        /\ ValidLag(n + 1) = V + StageLag
    BY <1>1, Lags
  <1>3. W = ModStages + 8 + n * StageLag /\ n * StageLag \in Nat /\ ModStages \in Nat
    <2> DEFINE m == n + 1
    <2>1. m - 1 = n /\ m \in Nat \ {0} /\ n * StageLag \in Nat
      BY <1>1, <1>2
    <2> HIDE DEF m
    <2>2. ValidLag(m) = ModStages + 7 + (m - 1) * StageLag
      BY <2>1, Lags
    <2>3. ValidLag(n + 1) = ModStages + 7 + n * StageLag
      BY <2>1, <2>2 DEF m
    <2> DEFINE p == n * StageLag
    <2> HIDE DEF p
    <2>4. p \in Nat /\ ModStages \in Nat /\ W = ModStages + 7 + p + 1
      BY <2>1, <2>3, Depths DEF p
    <2> QED BY <2>4 DEF p
  <1>4. Selected.y = h[W]
    <2> DEFINE j == first_two_delay + n * stage_delay
    <2>1. j \in 0..adc_pipe_len-1 /\ adc_out_piped[j] = g[3 + j]
      BY <1>1 DEF Line
    <2>2. j = ModStages + 4 + n * StageLag
      BY DEF DelaysMatch
    <2>3. 3 + j \in Nat /\ 3 + j + 1 = W
      <3> DEFINE p == n * StageLag
      <3> HIDE DEF p, j
      <3>1. p \in Nat /\ j = ModStages + 4 + p /\ W = ModStages + 8 + p
        BY <1>3, <2>2 DEF p
      <3> QED BY <1>3, <3>1
    <2>4. h[3 + j + 1] = g[3 + j]
      BY <2>3 DEF Moves
    <2>5. Selected.y = adc_out_piped[j]
      BY DEF Selected
    <2> HIDE DEF j
    <2> QED BY <2>1, <2>3, <2>4, <2>5
  <1>5. /\ Selected.x = s.anti_diff_out.x /\ Selected.mean = s.anti_diff_out.mean
    BY DEF Selected
  <1>6. StageKeeps(s, q, V, u, d)
    BY <1>1 DEF StagesKeep
  <1> HIDE DEF s, V, d
  <1>7. /\ s.anti_diff_out.x = u[d + StageLag - 1] /\ s.anti_diff_out.mean = u[d + StageLag]
        /\ s.valid_out \in q[V + StageLag]
    BY <1>6 DEF StageKeeps
  <1>8. /\ d + StageLag - 1 \in Nat /\ d + StageLag - 1 + 1 = D /\ d + StageLag = D
        /\ D \in Nat /\ V + StageLag \in Nat /\ V + StageLag + 1 = W /\ W \in Nat
    BY <1>2 DEF d
  <1>9. /\ w[d + StageLag - 1 + 1] = u[d + StageLag - 1] /\ w[D + 1] = u[D]
        /\ r[V + StageLag + 1] = q[V + StageLag]
    BY <1>8 DEF Moves
  <1>10. Selected.x = w[D]
    BY <1>5, <1>7, <1>8, <1>9
  <1>11. Selected.mean = w[D + 1]
    BY <1>5, <1>7, <1>8, <1>9
  <1>12. s.valid_out \in r[W]
    BY <1>7, <1>8, <1>9
  <1> QED BY <1>4, <1>8, <1>10, <1>11, <1>12 DEF s

LEMMA ResultStep ==
  ASSUME NEW g, NEW h, Moves(g, h), NEW u, NEW w, NEW q, NEW r, Moves(q, r),
         Brought(h, r), TypeOK, NEW W \in Nat, NEW D \in Nat, ResultBehind(g, q, u, W, D),
         Selected.y = h[W], Selected.x = w[D], Selected.mean = w[D + 1],
         stage[n].valid_out \in r[W],
         NEW start, NEW x, Cycle(TRUE, start, x)
  PROVE  ResultBehind(h, r, w, W, D)'
  <1> DEFINE vc == valid_convert_intermediate
             ci == conversion_in_intermediate
  <1>1. /\ dac \in DacRegs(Result) /\ dac.v \in Places(2, BOOLEAN) /\ vc \in BOOLEAN
        /\ dac.v[0] \in BOOLEAN /\ dac.v[1] \in BOOLEAN
    BY DEF TypeOK, DacRegs, Places
  <1>2. /\ ci' = Selected /\ conversion_in' = ci
        /\ vc' = stage[n].valid_out /\ valid_convert' = vc
        /\ dac_out' = dac.dac_value
        /\ dac' = DacEdge(dac, TRUE, vc, ci)
    BY DEF Cycle, FallingEdge, RisingEdge
  <1>3. /\ ci.y = g[W] /\ conversion_in.y = g[W + 1]
        /\ vc \in q[W] /\ Among(dac.v, 2, q, W + 1)
        /\ dac.signal_with_offset.y = g[W + 1] /\ dac.scaled_signal.y = g[W + 2]
        /\ dac.dac_value.y = g[W + 3]
    BY DEF ResultBehind
  <1>4. /\ W + 1 \in Nat /\ W + 2 \in Nat /\ W + 3 \in Nat /\ W + 4 \in Nat
        /\ W + 1 + 1 = W + 2 /\ W + 2 + 1 = W + 3 /\ W + 3 + 1 = W + 4
    OBVIOUS
  <1>5. /\ h[W + 1] = g[W] /\ h[W + 2] = g[W + 1] /\ h[W + 3] = g[W + 2] /\ h[W + 4] = g[W + 3]
        /\ r[W + 1] = q[W] /\ r[W + 2] = q[W + 1] /\ r[W + 3] = q[W + 2]
    <2>1. \A z \in Nat : h[z + 1] = g[z] /\ r[z + 1] = q[z]
      BY DEF Moves
    <2>2. /\ h[W + 1] = g[W] /\ h[W + 1 + 1] = g[W + 1] /\ h[W + 2 + 1] = g[W + 2]
          /\ h[W + 3 + 1] = g[W + 3]
          /\ r[W + 1] = q[W] /\ r[W + 1 + 1] = q[W + 1] /\ r[W + 2 + 1] = q[W + 2]
      BY <1>4, <2>1
    <2> QED BY <1>4, <2>2
  <1>6. /\ dac'.v = Shift(dac.v, vc)
        /\ dac'.signal_with_offset = (IF vc THEN ci ELSE dac.signal_with_offset)
        /\ dac'.scaled_signal =
             (IF dac.v[0] THEN dac.signal_with_offset ELSE dac.scaled_signal)
        /\ dac'.dac_value = (IF dac.v[1] THEN dac.scaled_signal ELSE dac.dac_value)
    BY <1>2 DEF DacEdge
  <1>7. dac.v[0] \in r[W + 2] /\ dac.v[1] \in r[W + 3]
    <2>1. 0 \in 0..2-1 /\ 1 \in 0..2-1 /\ W + 1 + 0 = W + 1 /\ W + 1 + 1 = W + 2
      OBVIOUS
    <2>2. dac.v[0] \in q[W + 1 + 0] /\ dac.v[1] \in q[W + 1 + 1]
      BY <1>3, <2>1 DEF Among
    <2> QED BY <1>5, <2>1, <2>2
  <1>8. Brings(vc, h, W + 1) /\ Brings(dac.v[0], h, W + 2) /\ Brings(dac.v[1], h, W + 3)
    <2>1. vc \in r[W + 1]
      BY <1>3, <1>5
    <2> QED BY <1>1, <1>4, <1>7, <2>1 DEF Brought
  <1>9. dac'.signal_with_offset.y = h[W + 1]
    <2> DEFINE y == ci.y
               z == dac.signal_with_offset.y
    <2>1. dac'.signal_with_offset.y = (IF vc THEN y ELSE z)
      BY <1>6
    <2>2. y = h[W + 1] /\ z = g[W + 1]
      BY <1>3, <1>5
    <2> HIDE DEF y, z, vc
    <2>3. (IF vc THEN y ELSE z) = h[W + 1]
      BY <1>1, <1>4, <1>8, <2>2, LoadStep
    <2> QED BY <2>1, <2>3
  <1>10. dac'.scaled_signal.y = h[W + 2]
    <2> DEFINE y == dac.signal_with_offset.y
               z == dac.scaled_signal.y
               v == dac.v[0]
    <2>1. dac'.scaled_signal.y = (IF v THEN y ELSE z)
      BY <1>6
    <2>2. y = h[W + 2] /\ z = g[W + 2] /\ v \in BOOLEAN /\ Brings(v, h, W + 2)
      BY <1>1, <1>3, <1>5, <1>8
    <2> HIDE DEF y, z, v
    <2>3. (IF v THEN y ELSE z) = h[W + 2]
      BY <1>4, <2>2, LoadStep
    <2> QED BY <2>1, <2>3
  <1>11. dac'.dac_value.y = h[W + 3]
    <2> DEFINE y == dac.scaled_signal.y
               z == dac.dac_value.y
               v == dac.v[1]
    <2>1. dac'.dac_value.y = (IF v THEN y ELSE z)
      BY <1>6
    <2>2. y = h[W + 3] /\ z = g[W + 3] /\ v \in BOOLEAN /\ Brings(v, h, W + 3)
      BY <1>1, <1>3, <1>5, <1>8
    <2> HIDE DEF y, z, v
    <2>3. (IF v THEN y ELSE z) = h[W + 3]
      BY <1>4, <2>2, LoadStep
    <2> QED BY <2>1, <2>3
  <1>12. Among(dac'.v, 2, r, W + 1)
    <2>1. vc \in r[W + 1]
      BY <1>3, <1>5
    <2> HIDE DEF vc
    <2>2. Among(Shift(dac.v, vc), 2, r, W + 1)
      BY <1>1, <1>3, <1>4, <2>1, AmongStep
    <2> QED BY <1>6, <2>2
  <1>13. /\ ci'.y = h[W] /\ ci'.x = w[D] /\ ci'.mean = w[D + 1]
         /\ conversion_in'.y = h[W + 1] /\ dac_out'.y = h[W + 4]
    BY <1>2, <1>3, <1>5
  <1>14. vc' \in r[W] /\ valid_convert' \in r[W + 1]
    BY <1>2, <1>3, <1>5
  <1> QED BY <1>4, <1>9, <1>10, <1>11, <1>12, <1>13, <1>14 DEF ResultBehind

LEMMA SentBrought ==
  ASSUME NEW len \in Nat \ {0}, NEW e \in Nat
  PROVE  Brought(Sent(e, len), Firsts(e, len))
  BY FirstsBring DEF Brought

LEMMA SentTaken ==
  ASSUME NEW len \in Nat \ {0}, NEW e \in Nat, n \in Nat \ {0}, NEW s \in Nat, s = n - 1
  PROVE  Taken(Less(Sent(e, len), s), Firsts(e, len), len)
  <1> DEFINE g == Sent(e, len)
             w == Less(g, s)
             r == Firsts(e, len)
  <1> SUFFICES ASSUME NEW i \in 1..n, NEW v \in BOOLEAN, v \in r[ValidLag(i)]
               PROVE  /\ Brings(v, w, DataLag(i, len))
                      /\ v /\ len # 1 => w[DataLag(i, len) - 1] = w[DataLag(i, len)]
    BY DEF Taken
  <1> DEFINE V == ValidLag(i)
             D == DataLag(i, len)
  <1>1. /\ i \in Nat \ {0} /\ i - 1 <= s /\ i - 1 \in Nat
        /\ V \in Nat /\ V > 1 /\ D \in Nat
    <2>1. i \in Nat \ {0} /\ i - 1 <= s /\ i - 1 \in Nat
      OBVIOUS
    <2> QED BY <2>1, Lags
  <1>2. D = V - (IF len = 1 THEN i - 1 ELSE 0)
    BY DEF DataLag
  <1>3. v \in r[V]
    OBVIOUS
  <1> HIDE DEF V, D
  <1>4. CASE len = 1
    <2>1. V <= D + s
      BY <1>1, <1>2, <1>4
    <2>2. v \in Firsts(e, 1)[V]
      BY <1>3, <1>4
    <2>3. Brings(v, Less(Sent(e, 1), s), D)
      BY <1>1, <2>1, <2>2, OneBrings
    <2> QED BY <1>4, <2>3 DEF D
  <1>5. CASE len # 1
    <2>1. D = V /\ D \in Nat \ {0} /\ len > 1 /\ len \in Nat /\ D - 1 \in Nat
      BY <1>1, <1>2, <1>5
    <2>2. Brings(v, w, D)
      <3>1. Brings(v, g, D)
        BY <1>3, <2>1, FirstsBring
      <3>2. g[D] \in Nat /\ g[D + 1] \in Nat
        <4>1. D \in Nat /\ D + 1 \in Nat
          BY <2>1
        <4> QED BY <4>1, SentNat
      <3> HIDE DEF g
      <3> QED BY <2>1, <3>1, <3>2, LessBrings
    <2>3. v => w[D - 1] = w[D]
      <3> SUFFICES ASSUME v PROVE w[D - 1] = w[D]
        OBVIOUS
      <3>1. TRUE \in r[D]
        BY <1>3, <2>1
      <3>2. g[D - 1] = g[D]
        BY <2>1, <3>1, LongSettled
      <3> HIDE DEF g
      <3> QED BY <2>1, <3>2 DEF Less
    <2> QED BY <2>2, <2>3 DEF D
  <1> QED BY <1>4, <1>5

LEMMA EnabledBehind ==
  ASSUME DelaysMatch, TypeOK, NEW e \in Nat, NEW len \in Nat \ {0}, len = cycles,
         NEW s \in Nat, s = n - 1, n' = n, cycles' = cycles,
         Behind(Sent(e, len), Firsts(e, len), Less(Sent(e, len), s)),
         NEW start \in BOOLEAN, NEW x \in Nat, x = Sent(e + 1, len)[0],
         start \in Firsts(e + 1, len)[0], Cycle(TRUE, start, x),
         NEW W, W = ValidLag(n + 1) + 1, NEW D, D = DataLag(n, len) + StageLag
  PROVE  Behind(Sent(e + 1, len), Firsts(e + 1, len), Less(Sent(e + 1, len), s))'
  <1> DEFINE g == Sent(e, len)
             h == Sent(e + 1, len)
             q == Firsts(e, len)
             r == Firsts(e + 1, len)
             u == Less(g, s)
             w == Less(h, s)
  <1>1. Moves(g, h) /\ Moves(q, r) /\ Moves(u, w)
    BY SentMoves, LessMoves
  <1>2. \A z \in Nat : g[z] \in Nat /\ h[z] \in Nat
    <2>1. e + 1 \in Nat
      OBVIOUS
    <2> QED BY <2>1, SentNat
  <1>3. Brought(h, r) /\ Taken(w, r, len)
    <2>1. e + 1 \in Nat /\ n \in Nat \ {0}
      BY OrderFacts DEF TypeOK
    <2> QED BY <2>1, SentBrought, SentTaken
  <1>4. /\ ResidualBehind(g, q, u) /\ StagesKeep(q, u, len) /\ ResultBehind(g, q, u, W, D)
    BY DEF Behind, StagesKeep
  <1>5. filter_pipe_len = AvgDelay
    BY DEF DelaysMatch
  <1> HIDE DEF g, h, q, r
  <1>6. \A z \in Nat : w[z] \in Nat
    BY <1>2 DEF Less
  <1>7. x = h[0] /\ start \in r[0]
    BY DEF h, r
  <1>a. u = Less(g, n - 1) /\ w = Less(h, n - 1) /\ Cycle(TRUE, start, h[0])
    BY DEF h
  <1> HIDE DEF u, w
  <1>8. /\ ResidualBehind(h, r, w)' /\ mod_residual.valid_out \in r[ModStages + 7]
        /\ mod_residual.residual_out.remain = w[ModStages + 7]
    <2>1. CycleOn(g, h, q, r, u, w)
      BY <1>a, <1>1, <1>2, <1>3 DEF CycleOn, Samples
    <2>2. /\ CycleOn(g, h, q, r, u, w) /\ TypeOK /\ n' = n /\ ResidualBehind(g, q, u)
          /\ start \in BOOLEAN /\ start \in r[0] /\ Cycle(TRUE, start, h[0])
      BY <1>a, <1>4, <1>7, <2>1
    <2>3. ResidualBehind(h, r, w)' /\ Residue(r, w)
      BY <2>2, ResidualStep
    <2> QED BY <2>3 DEF Residue
  <1>9. StagesKeep(r, w, len)'
    <2>1. Stages(TRUE)
      BY DEF Cycle
    <2> QED BY <1>1, <1>3, <1>4, <1>5, <1>6, <1>8, <2>1, StagesStep
  <1>10. ResultBehind(h, r, w, W, D)'
    <2>1. Line(adc_out_piped, adc_pipe_len, g, 3)
      BY <1>4 DEF ResidualBehind
    <2>2. /\ W \in Nat /\ D \in Nat
          /\ Selected.y = h[W] /\ Selected.x = w[D] /\ Selected.mean = w[D + 1]
          /\ stage[n].valid_out \in r[W]
      BY <1>1, <1>4, <2>1, SelectedBehind
    <2> QED BY <1>1, <1>3, <1>4, <2>2, ResultStep
  <1>11. (ValidLag(n + 1) + 1)' = W /\ (DataLag(n, cycles) + StageLag)' = D
    BY DEF ValidLag, DataLag, StageLag
  <1>12. Behind(h, r, w)'
    BY <1>8, <1>9, <1>10, <1>11 DEF Behind, StagesKeep
  <1> QED BY <1>12 DEF h, r, w

\* What a cycle of the call that sends the m-th sample takes.
LEMMA EnabledClock ==
  ASSUME TypeOK, left < cycles, k = 0 => left = 0, Next,
         NEW start \in BOOLEAN, NEW len, len = cycles,
         \/ left = 0 /\ k' = k + 1 /\ left' = len - 1 /\ start = TRUE
         \/ left > 0 /\ k' = k /\ left' = left - 1 /\ start = FALSE
  PROVE  /\ Clock \in Nat /\ Clock' = Clock + 1 /\ left' < len /\ k' # 0
         /\ len \in Nat \ {0} /\ k' = Sent(Clock + 1, len)[0]
         /\ start \in Firsts(Clock + 1, len)[0]
  <1> DEFINE m == k'
             l == left'
             p == k * len
             P == k' * len
  <1>1. /\ len \in Nat \ {0} /\ k \in Nat /\ left \in Nat /\ cycles' = len
        /\ k' \in Nat
    <2>1. cycles \in Nat \ {0} /\ cycles' = cycles /\ k' \in Nat
      BY StepIsCycle
    <2>2. k \in Nat /\ left \in Nat
      BY OrderAssumption DEF TypeOK
    <2> QED BY <2>1, <2>2
  <1>2. m \in Nat \ {0} /\ l \in 0..len-1 /\ 0 < len - l
    BY <1>1
  <1>3. P - l = p - left + 1
    <2>1. CASE k' = k + 1
      <3>1. (k + 1) * len = k * len + len
        BY <1>1
      <3>2. P = p + len /\ p \in Nat /\ P \in Nat
        BY <1>1, <2>1, <3>1
      <3>3. left = 0 /\ l = len - 1
        BY <1>1, <2>1
      <3> HIDE DEF p, P, l
      <3> QED BY <1>1, <3>2, <3>3
    <2>2. CASE k' = k
      <3>1. P = p /\ p \in Nat
        BY <1>1, <2>2
      <3>2. l = left - 1
        BY <1>1, <2>2
      <3> HIDE DEF p, P, l
      <3> QED BY <1>1, <3>1, <3>2
    <2> QED BY <2>1, <2>2
  <1>8. p \in Nat /\ P \in Nat
    <2> HIDE DEF m, l
    <2>1. k * len \in Nat /\ m * len \in Nat
      BY <1>1, <1>2
    <2> QED BY <2>1 DEF m
  <1> HIDE DEF m, l
  <1>7. Clock = p - left /\ Clock' = P - l
    BY <1>1 DEF Clock, l
  <1> HIDE DEF p
  <1>4. m * len - l = P - l /\ m \in Nat \ {0} /\ l \in 0..len-1 /\ len \in Nat \ {0}
    BY <1>1, <1>2 DEF m
  <1>5. Clock + 1 = m * len - l /\ Clock' = Clock + 1 /\ Clock \in Int
    <2>1. l \in Nat
      BY <1>2
    <2> HIDE DEF P
    <2> QED BY <1>1, <1>3, <1>4, <1>7, <1>8, <2>1
  <1> DEFINE e == Clock + 1
  <1> HIDE DEF e
  <1>6. e = m * len - l
    BY <1>5 DEF e
  <1> HIDE DEF m, l
  <1>9. /\ e > 0 /\ Sent(e, len)[0] = m
        /\ start \in Firsts(e, len)[0] <=> (start <=> l = len - 1)
    <2> DEFINE d == 0
    <2>1. d \in Nat /\ d < len - l
      BY <1>4
    <2> HIDE DEF d
    <2>2. /\ m * len - l > d /\ (m * len - l - d - 1) \div len = m - 1
          /\ (m * len - l - d - 1) % len = len - l - 1 - d
      BY <1>4, <2>1, CallCycle
    <2>3. /\ e > 0 /\ (e - 0 - 1) \div len = m - 1 /\ (e - 0 - 1) % len = len - l - 1 - 0
      BY <1>6, <2>2 DEF d
    <2>4. Sent(e, len)[0] = m
      BY <1>4, <2>3 DEF Sent
    <2>5. (e - 0 - 1) % len = 0 <=> l = len - 1
      BY <1>4, <2>3
    <2>6. start \in Firsts(e, len)[0] <=> (start <=> l = len - 1)
      BY <2>3, <2>5 DEF Firsts
    <2> QED BY <2>3, <2>4, <2>6
  <1>10. start <=> l = len - 1
    BY <1>1 DEF l
  <1>11. /\ k' = Sent(Clock + 1, len)[0] /\ start \in Firsts(Clock + 1, len)[0]
         /\ Clock + 1 > 0
    BY <1>9, <1>10 DEF m, e
  <1>12. Clock \in Nat /\ Clock' = Clock + 1
    BY <1>5, <1>11
  <1> QED BY <1>1, <1>2, <1>11, <1>12 DEF l, m

LEMMA EnabledN ==
  ASSUME DelaysMatch, NInv, Next, NEW start \in BOOLEAN, Cycle(TRUE, start, k'),
         \/ left = 0 /\ k' = k + 1 /\ left' = cycles - 1 /\ start = TRUE
         \/ left > 0 /\ k' = k /\ left' = left - 1 /\ start = FALSE
  PROVE  NInv'
  <1>1. PICK e, len, s, x, W, D : /\ e = Clock /\ len = cycles /\ s = n - 1 /\ x = k'
                                  /\ W = ValidLag(n + 1) + 1
                                  /\ D = DataLag(n, len) + StageLag
    OBVIOUS
  <1>2. /\ TypeOK /\ left < cycles /\ (k = 0 => left = 0)
        /\ Behind(Sent(Clock, cycles), Firsts(Clock, cycles), Less(Sent(Clock, cycles), n - 1))
    BY DEF NInv
  <1>3. /\ e \in Nat /\ Clock' = e + 1 /\ left' < len /\ k' # 0 /\ len \in Nat \ {0}
        /\ x = Sent(e + 1, len)[0] /\ start \in Firsts(e + 1, len)[0]
    <2>1. /\ Clock \in Nat /\ Clock' = Clock + 1 /\ left' < len /\ k' # 0
          /\ len \in Nat \ {0} /\ k' = Sent(Clock + 1, len)[0]
          /\ start \in Firsts(Clock + 1, len)[0]
      BY <1>1, <1>2, EnabledClock
    <2> QED BY <1>1, <2>1
  <1>4. n' = n /\ cycles' = cycles /\ x \in Nat /\ s \in Nat
    BY <1>1, <1>2, StepIsCycle, OrderFacts
  <1>5. Behind(Sent(e, len), Firsts(e, len), Less(Sent(e, len), s)) /\ Cycle(TRUE, start, x)
    BY <1>1, <1>2
  <1>6. Behind(Sent(e + 1, len), Firsts(e + 1, len), Less(Sent(e + 1, len), s))'
    BY <1>1, <1>2, <1>3, <1>4, <1>5, EnabledBehind
  <1>7. Clock' = e + 1 /\ cycles' = len /\ (n - 1)' = s
    BY <1>1, <1>3, <1>4
  <1>8. Behind(Sent(Clock, cycles), Firsts(Clock, cycles), Less(Sent(Clock, cycles), n - 1))'
    BY <1>6, <1>7
  <1>9. TypeOK'
    BY <1>2, StepType
  <1>10. (left < cycles)' /\ (k = 0 => left = 0)'
    BY <1>1, <1>3, <1>4
  <1> QED BY <1>8, <1>9, <1>10 DEF NInv

-----------------------------------------------------------------------------
(* Between two calls.                                                      *)

\* A long call outlasts the lag of every stage's valid bits.
LEMMA LagsRise ==
  ASSUME NEW b \in Nat \ {0}, NEW i \in 1..b
  PROVE  ValidLag(i) + StageLag <= ValidLag(b + 1)
  <1> DEFINE p == (i - 1) * StageLag
             r == (b - 1) * StageLag
             c == b - i
             a == i - 1
  <1>1. /\ StageLag \in Nat /\ ModStages \in Nat /\ i \in Nat \ {0}
        /\ ValidLag(i) = ModStages + 7 + p /\ ValidLag(b) = ModStages + 7 + r
        /\ ValidLag(b + 1) = ValidLag(b) + StageLag
    BY Lags, Depths
  <1>2. c \in Nat /\ a \in Nat /\ b - 1 = a + c
    BY <1>1
  <1> HIDE DEF a, c
  <1>3. (a + c) * StageLag = a * StageLag + c * StageLag /\ c * StageLag \in Nat
        /\ a * StageLag \in Nat
    BY <1>1, <1>2
  <1>4. r = p + c * StageLag /\ p \in Nat
    BY <1>2, <1>3 DEF a
  <1> DEFINE x == c * StageLag
  <1> HIDE DEF p, r, x
  <1>5. x \in Nat /\ r = p + x /\ p \in Nat
    BY <1>3, <1>4 DEF x
  <1> QED BY <1>1, <1>5

LEMMA LongEnough ==
  ASSUME OneOrLong, TypeOK, NEW len, len = cycles, NEW i \in 1..n
  PROVE  \/ len = 1
         \/ ValidLag(i) + AntiDelay + 2 < len /\ DataLag(i, len) + AntiDelay + 2 < len
  <1>1. /\ len \in Nat \ {0} /\ (len = 1 \/ len > ValidLag(n + 1) + 5) /\ n \in Nat \ {0}
        /\ i \in Nat \ {0}
    <2>1. n \in Orders /\ len \in CallCycles /\ n \in Nat \ {0}
      BY OrderFacts DEF TypeOK
    <2> QED BY <2>1, OrderAssumption DEF OneOrLong, Latency
  <1>2. /\ ValidLag(i) \in Nat /\ ValidLag(n + 1) \in Nat
        /\ AntiDelay \in Nat /\ StageLag \in Nat /\ StageLag >= AntiDelay + 2
    <2>1. n + 1 \in Nat \ {0}
      BY <1>1
    <2> QED BY <1>1, <2>1, Lags, Depths DEF StageLag
  <1>3. ValidLag(i) + StageLag <= ValidLag(n + 1)
    BY <1>1, LagsRise
  <1> HIDE DEF ValidLag
  <1>4. DataLag(i, len) <= ValidLag(i) /\ DataLag(i, len) \in Nat
    <2>1. DataLag(i, len) \in Nat
      BY <1>1, Lags
    <2> QED BY <1>1, <1>2, <2>1 DEF DataLag
  <1> HIDE DEF DataLag
  <1> QED BY <1>1, <1>2, <1>3, <1>4

LEMMA InputIdle ==
  ASSUME TypeOK, NEW len \in Nat \ {0}, NEW m \in Nat \ {0},
         NEW q, q = Firsts(m * len, len), NEW u, StagesKeep(q, u, len),
         mod_residual.valid_out \in q[ModStages + 6],
         NEW i \in 1..n, len = 1 \/ ValidLag(i) + AntiDelay + 2 < len
  PROVE  StageInput(i, FALSE).v \in q[ValidLag(i)]
  <1>1. /\ i \in Nat \ {0} /\ i \in 1..Max_N /\ StageInput(i, FALSE).v \in BOOLEAN
        /\ n \in Nat
    <2>1. n \in 1..Max_N /\ n \in Nat
      BY OrderFacts DEF TypeOK
    <2>2. i \in 1..Max_N /\ i \in Nat \ {0}
      BY <2>1, OrderAssumption
    <2> QED BY <2>1, <2>2, InputTyped
  <1>2. CASE i = 1
    <2> DEFINE v == mod_residual.valid_out
               d == ModStages + 6
    <2>1. d \in Nat /\ d + 1 = ValidLag(i) /\ AntiDelay \in Nat
      BY <1>2, DataLags, Depths
    <2>2. StageInput(i, FALSE).v = v
      BY <1>2 DEF StageInput
    <2>3. v \in BOOLEAN /\ v \in Firsts(m * len, len)[d]
      BY <1>1, <2>2
    <2> HIDE DEF v, d
    <2>4. len = 1 \/ d + 2 < len
      BY <2>1
    <2>5. v \in Firsts(m * len, len)[d + 1]
      BY <2>1, <2>3, <2>4, FirstsIdle
    <2> QED BY <2>1, <2>2, <2>5
  <1>3. CASE i # 1
    <2>1. i - 1 \in Nat \ {0} /\ i - 1 \in 1..n /\ i - 1 + 1 = i
      BY <1>1, <1>3
    <2>2. StageKeeps(stage[i - 1], q, ValidLag(i - 1), u, DataLag(i - 1, len))
      BY <2>1 DEF StagesKeep
    <2>3. stage[i - 1].valid_out \in q[ValidLag(i - 1) + StageLag]
      BY <2>2 DEF StageKeeps
    <2>4. ValidLag(i - 1 + 1) = ValidLag(i - 1) + StageLag
      BY <2>1, Lags
    <2>5. StageInput(i, FALSE).v = stage[i - 1].valid_out
      BY <1>3 DEF StageInput, StageFalls
    <2> QED BY <2>1, <2>3, <2>4, <2>5
  <1> QED BY <1>2, <1>3

LEMMA StagesIdle ==
  ASSUME OneOrLong, TypeOK, NEW len \in Nat \ {0}, len = cycles, n' = n, Stages(FALSE),
         NEW m \in Nat \ {0}, NEW s \in Nat, s = n - 1,
         NEW q, q = Firsts(m * len, len), NEW u, u = Less(Sent(m * len, len), s),
         StagesKeep(q, u, len), mod_residual.valid_out \in q[ModStages + 6]
  PROVE  StagesKeep(q, u, len)'
  <1> SUFFICES ASSUME NEW i \in 1..n
               PROVE  StageKeeps(stage'[i], q, ValidLag(i), u, DataLag(i, len))
    BY DEF StagesKeep
  <1> DEFINE a == stage[i]
             t == stage'[i]
             v == StageInput(i, FALSE).v
             x == StageInput(i, FALSE).x
             V == ValidLag(i)
             D == DataLag(i, len)
  <1>1. i \in Nat \ {0} /\ i \in 1..Max_N /\ n \in Nat \ {0} /\ m * len \in Nat
    <2>1. n \in 1..Max_N /\ n \in Nat \ {0}
      BY OrderFacts DEF TypeOK
    <2> QED BY <2>1, OrderAssumption
  <1>2. /\ a \in StageRegs /\ StageKeeps(a, q, V, u, D) /\ V \in Nat /\ D \in Nat
        /\ v \in BOOLEAN
    BY <1>1, InputTyped, Lags DEF TypeOK, StagesKeep
  <1>3. len = 1 \/ (V + AntiDelay + 2 < len /\ D + AntiDelay + 2 < len)
    BY LongEnough
  <1>4. v \in q[V]
    BY <1>3, InputIdle
  <1>5. Brings(v, u, D)
    <2>1. Taken(u, q, len)
      BY <1>1, SentTaken
    <2> QED BY <1>2, <1>4, <2>1 DEF Taken
  <1>6. t = StageRises(StageFalls(a, FALSE), FALSE, v, x)
    BY <1>1, StageMoves
  <1> HIDE DEF a, t, v, x, V, D
  <1>7. AntiDelay \in Nat
    BY Depths
  <1>8. Drifts(u, D, AntiDelay)
    BY <1>2, <1>3, <1>7, LessDrifts
  <1>9. \A z \in V..V+AntiDelay, b \in BOOLEAN : b \in q[z] => b \in q[z + 1]
    <2> SUFFICES ASSUME NEW z \in V..V+AntiDelay, NEW b \in BOOLEAN, b \in q[z]
                 PROVE  b \in q[z + 1]
      OBVIOUS
    <2>1. z \in Nat /\ (len = 1 \/ z + 2 < len)
      BY <1>2, <1>3, <1>7
    <2> QED BY <2>1, FirstsIdle
  <1>10. StageKeeps(t, q, V, u, D)
    BY <1>2, <1>4, <1>5, <1>6, <1>8, <1>9, StageIdle
  <1> QED BY <1>10 DEF t, V, D

LEMMA IdleBehind ==
  ASSUME OneOrLong, TypeOK, NEW len \in Nat \ {0}, len = cycles, n' = n, cycles' = cycles,
         NEW m \in Nat \ {0}, NEW s \in Nat, s = n - 1, NEW x, Cycle(FALSE, FALSE, x),
         Behind(Sent(m * len, len), Firsts(m * len, len), Less(Sent(m * len, len), s))
  PROVE  Behind(Sent(m * len, len), Firsts(m * len, len), Less(Sent(m * len, len), s))'
  <1> DEFINE g == Sent(m * len, len)
             q == Firsts(m * len, len)
             u == Less(g, s)
  <1>1. /\ ResidualBehind(g, q, u) /\ StagesKeep(q, u, len)
        /\ ResultBehind(g, q, u, ValidLag(n + 1) + 1, DataLag(n, len) + StageLag)
    BY DEF Behind, StagesKeep
  <1>2. /\ q = Firsts(m * len, len) /\ u = Less(Sent(m * len, len), s)
    OBVIOUS
  <1> HIDE DEF g, q, u
  <1>3. /\ UNCHANGED regs /\ adc' = adc /\ diff_calc' = diff_calc /\ mod_residual' = mod_residual
        /\ dac' = dac /\ Stages(FALSE)
    BY DEF Cycle, FallingEdge, RisingEdge, AdcEdge, DiffNEdge, ModEdge, DacEdge
  <1>4. StagesKeep(q, u, len)'
    <2>1. mod_residual.valid_out \in q[ModStages + 6]
      BY <1>1 DEF ResidualBehind
    <2> QED BY <1>1, <1>2, <1>3, <2>1, StagesIdle
  <1>5. ResidualBehind(g, q, u)'
    BY <1>1, <1>3 DEF ResidualBehind, regs
  <1>6. ResultBehind(g, q, u, ValidLag(n + 1) + 1, DataLag(n, len) + StageLag)'
    <2>1. PICK W, D : W = ValidLag(n + 1) + 1 /\ D = DataLag(n, len) + StageLag
      OBVIOUS
    <2>2. ResultBehind(g, q, u, W, D)'
      BY <1>1, <1>3, <2>1 DEF ResultBehind, regs
    <2>3. (ValidLag(n + 1) + 1)' = W /\ (DataLag(n, len) + StageLag)' = D
      BY <2>1 DEF ValidLag, DataLag, StageLag
    <2> QED BY <2>2, <2>3
  <1>7. Behind(g, q, u)'
    BY <1>4, <1>5, <1>6 DEF Behind, StagesKeep
  <1> QED BY <1>7 DEF g, q, u

LEMMA IdleN ==
  ASSUME OneOrLong, NInv, Next, left = 0, k' = k, k > 0, left' = 0,
         NEW x, Cycle(FALSE, FALSE, x)
  PROVE  NInv'
  <1>1. PICK len, m, s : len = cycles /\ m = k /\ s = n - 1
    OBVIOUS
  <1>2. /\ TypeOK
        /\ Behind(Sent(Clock, cycles), Firsts(Clock, cycles), Less(Sent(Clock, cycles), n - 1))
    BY DEF NInv
  <1>3. n' = n /\ cycles' = cycles /\ len \in Nat \ {0} /\ m \in Nat \ {0} /\ s \in Nat
    <2>1. n' = n /\ cycles' = cycles /\ n \in Orders /\ cycles \in Nat \ {0} /\ k' \in Nat
      BY <1>2, StepIsCycle
    <2> QED BY <1>1, <2>1, OrderFacts
  <1>4. Clock = m * len /\ Clock' = m * len
    <2>1. m * len \in Nat
      BY <1>3
    <2>2. Clock = m * len - 0 /\ Clock' = m * len - 0
      BY <1>1, <1>3 DEF Clock
    <2> QED BY <2>1, <2>2
  <1>5. Behind(Sent(m * len, len), Firsts(m * len, len), Less(Sent(m * len, len), s))
    BY <1>1, <1>2, <1>4
  <1>6. Behind(Sent(m * len, len), Firsts(m * len, len), Less(Sent(m * len, len), s))'
    BY <1>1, <1>2, <1>3, <1>5, IdleBehind
  <1>7. cycles' = len /\ (n - 1)' = s
    BY <1>1, <1>3
  <1>8. Behind(Sent(Clock, cycles), Firsts(Clock, cycles), Less(Sent(Clock, cycles), n - 1))'
    BY <1>4, <1>6, <1>7
  <1>9. TypeOK'
    BY <1>2, StepType
  <1>10. (left < cycles)' /\ (k = 0 => left = 0)'
    BY <1>1, <1>3
  <1> QED BY <1>8, <1>9, <1>10 DEF NInv

-----------------------------------------------------------------------------
(* The properties.                                                         *)

LEMMA StepN == DelaysMatch /\ OneOrLong /\ NInv /\ [Next]_vars => NInv'
  <1> SUFFICES ASSUME DelaysMatch, OneOrLong, NInv, [Next]_vars PROVE NInv'
    OBVIOUS
  <1>1. CASE Next
    <2>1. TypeOK
      BY DEF NInv
    <2>2. \/ left = 0 /\ k' = k + 1 /\ left' = cycles - 1 /\ Cycle(TRUE, TRUE, k')
          \/ left > 0 /\ k' = k /\ left' = left - 1 /\ Cycle(TRUE, FALSE, k')
          \/ left = 0 /\ k' = k /\ k > 0 /\ left' = 0 /\ Cycle(FALSE, FALSE, k')
      BY <1>1, <2>1, StepIsCycle
    <2>3. CASE left = 0 /\ k' = k + 1 /\ left' = cycles - 1 /\ Cycle(TRUE, TRUE, k')
      BY <1>1, <2>3, EnabledN
    <2>4. CASE left > 0 /\ k' = k /\ left' = left - 1 /\ Cycle(TRUE, FALSE, k')
      BY <1>1, <2>4, EnabledN
    <2>5. CASE left = 0 /\ k' = k /\ k > 0 /\ left' = 0 /\ Cycle(FALSE, FALSE, k')
      BY <1>1, <2>5, IdleN
    <2> QED BY <2>2, <2>3, <2>4, <2>5
  <1>2. CASE UNCHANGED vars
    <2>1. Clock' = Clock
      BY <1>2 DEF Clock, vars
    <2>2. TypeOK'
      BY StepType DEF NInv
    <2>3. PICK g, q, u : /\ g = Sent(Clock, cycles) /\ q = Firsts(Clock, cycles)
                         /\ u = Less(Sent(Clock, cycles), n - 1)
      OBVIOUS
    <2>4. Behind(g, q, u)
      BY <2>3 DEF NInv
    <2>5. Behind(g, q, u)'
      BY <1>2, <2>4 DEF vars, regs, Behind, ResidualBehind, ResultBehind, ValidLag, DataLag,
                        StageLag
    <2>6. /\ g = Sent(Clock, cycles)' /\ q = Firsts(Clock, cycles)'
          /\ u = Less(Sent(Clock, cycles), n - 1)'
      BY <1>2, <2>1, <2>3 DEF vars
    <2> QED BY <1>2, <2>2, <2>5, <2>6 DEF NInv, vars
  <1> QED BY <1>1, <1>2

LEMMA AlwaysN == ASSUME DelaysMatch, OneOrLong PROVE Spec => []NInv
  <1>1. Init => NInv
    BY InitN
  <1>2. NInv /\ [Next]_vars => NInv'
    BY StepN
  <1> QED BY <1>1, <1>2, PTL DEF Spec

\* What NInv says of the data that are added, W cycles behind the input.
Now(e, len, s, g, u, W, D) ==
  /\ e = Clock /\ len = cycles /\ s = n - 1 /\ g = Sent(e, len) /\ u = Less(g, s)
  /\ W = ValidLag(n + 1) + 1 /\ D = DataLag(n, len) + StageLag

Added(e, len, s, g, u, W, D) ==
  /\ len \in Nat \ {0} /\ n \in Nat \ {0} /\ s \in Nat
  /\ W \in Nat \ {0} /\ D \in Nat /\ D = W - (IF len = 1 THEN n ELSE 1)
  /\ conversion_in_intermediate.y = g[W] /\ conversion_in_intermediate.x = u[D]
  /\ conversion_in_intermediate.mean = u[D + 1] /\ dac_out.y = g[W + 4]
  /\ valid_convert_intermediate => TRUE \in Firsts(e, len)[W]

LEMMA AddedBehind ==
  ASSUME NInv, NEW e, NEW len, NEW s, NEW g, NEW u, NEW W, NEW D, Now(e, len, s, g, u, W, D)
  PROVE  Added(e, len, s, g, u, W, D)
  <1>0. /\ e = Clock /\ len = cycles /\ s = n - 1 /\ g = Sent(e, len) /\ u = Less(g, s)
        /\ W = ValidLag(n + 1) + 1 /\ D = DataLag(n, len) + StageLag
    BY DEF Now
  <1>1. /\ len \in Nat \ {0} /\ n \in Nat \ {0} /\ s \in Nat
        /\ valid_convert_intermediate \in BOOLEAN
    BY <1>0, OrderFacts, OrderAssumption DEF NInv, TypeOK
  <1>2. W \in Nat \ {0} /\ D \in Nat /\ D = W - (IF len = 1 THEN n ELSE 1)
    <2>1. /\ ValidLag(n) \in Nat /\ StageLag \in Nat /\ DataLag(n, len) \in Nat
          /\ ValidLag(n + 1) = ValidLag(n) + StageLag
      BY <1>1, Lags
    <2> HIDE DEF ValidLag, StageLag
    <2> QED BY <1>0, <1>1, <2>1 DEF DataLag
  <1>3. ResultBehind(g, Firsts(e, len), u, W, D)
    BY <1>0 DEF NInv, Behind
  <1>4. valid_convert_intermediate => TRUE \in Firsts(e, len)[W]
    <2> DEFINE v == valid_convert_intermediate
    <2>1. v \in Firsts(e, len)[W] /\ v \in BOOLEAN
      BY <1>1, <1>3 DEF ResultBehind
    <2> HIDE DEF v
    <2>2. CASE v = TRUE
      BY <2>1, <2>2, Zenon
    <2>3. CASE v = FALSE
      BY <2>3 DEF v
    <2>4. v = TRUE \/ v = FALSE
      BY <2>1, Zenon
    <2> QED BY <2>2, <2>3, <2>4
  <1>5. /\ conversion_in_intermediate.y = g[W] /\ conversion_in_intermediate.x = u[D]
        /\ conversion_in_intermediate.mean = u[D + 1] /\ dac_out.y = g[W + 4]
    BY <1>3 DEF ResultBehind
  <1> QED BY <1>1, <1>2, <1>4, <1>5 DEF Added

LEMMA ClockNat == ASSUME NInv PROVE Clock \in Nat
  <1>1. k \in Nat /\ cycles \in Nat \ {0} /\ left \in Nat /\ left < cycles
        /\ (k = 0 => left = 0)
    BY OrderAssumption DEF NInv, TypeOK
  <1> DEFINE p == k * cycles
  <1>2. p \in Nat /\ (k = 0 \/ p >= cycles)
    <2>1. CASE k = 0
      BY <1>1, <2>1
    <2>2. CASE k # 0
      <3> DEFINE j == k - 1
      <3>1. j \in Nat /\ k = j + 1
        BY <1>1, <2>2
      <3> HIDE DEF j
      <3>2. (j + 1) * cycles = j * cycles + cycles /\ j * cycles \in Nat
        BY <1>1, <3>1
      <3>3. p = j * cycles + cycles
        BY <3>1, <3>2
      <3> HIDE DEF p
      <3> QED BY <1>1, <3>2, <3>3
    <2> QED BY <2>1, <2>2
  <1>3. Clock = p - left
    BY DEF Clock
  <1> HIDE DEF p
  <1> QED BY <1>1, <1>2, <1>3

LEMMA SumBehind == NInv => SumApart
  <1> SUFFICES ASSUME NInv, valid_convert_intermediate, conversion_in_intermediate.x > 0
               PROVE  conversion_in_intermediate.x =
                        IF cycles = 1 THEN conversion_in_intermediate.y + 1
                        ELSE conversion_in_intermediate.y - (n - 1)
    BY DEF SumApart
  <1>0. PICK e, len, s, g, u, W, D : Now(e, len, s, g, u, W, D)
    BY DEF Now
  <1>1. /\ e = Clock /\ len = cycles /\ s = n - 1
        /\ W = ValidLag(n + 1) + 1 /\ D = DataLag(n, len) + StageLag
        /\ g = Sent(e, len) /\ u = Less(g, s)
    BY <1>0 DEF Now
  <1> DEFINE y == conversion_in_intermediate.y
             x == conversion_in_intermediate.x
  <1>2. /\ len \in Nat \ {0} /\ n \in Nat \ {0} /\ s \in Nat /\ e \in Nat
        /\ W \in Nat \ {0} /\ D \in Nat /\ D = W - (IF len = 1 THEN n ELSE 1)
        /\ y = g[W] /\ x = u[D] /\ TRUE \in Firsts(e, len)[W]
    <2>1. Added(e, len, s, g, u, W, D)
      BY <1>0, AddedBehind
    <2> QED BY <1>1, <2>1, ClockNat DEF Added
  <1> HIDE DEF y, x
  <1>3. x > 0
    BY DEF x
  <1>4. CASE len = 1
    <2>1. /\ g[W] = (IF e > W THEN e - W ELSE 0) /\ g[D] = (IF e > D THEN e - D ELSE 0)
      BY <1>1, <1>2, <1>4, SentOne
    <2>2. u[D] = IF g[D] > s THEN g[D] - s ELSE 0
      BY <1>1, <1>2 DEF Less
    <2>3. x = y + 1
      BY <1>1, <1>2, <1>3, <1>4, <2>1, <2>2
    <2> QED BY <1>1, <1>4, <2>3 DEF x, y
  <1>5. CASE len # 1
    <2>1. D = W - 1 /\ len > 1 /\ W - 1 \in Nat
      BY <1>2, <1>5
    <2>2. g[W - 1] = g[W]
      <3>1. Sent(e, len)[W - 1] = Sent(e, len)[W]
        BY <1>2, <2>1, LongSettled
      <3> QED BY <1>1, <3>1
    <2>3. g[W] \in Nat
      BY <1>1, <1>2, SentNat
    <2>4. u[D] = IF g[W] > s THEN g[W] - s ELSE 0
      BY <1>1, <1>2, <2>1, <2>2 DEF Less
    <2>5. x = y - s
      BY <1>2, <1>3, <2>3, <2>4
    <2> QED BY <1>1, <1>5, <2>5 DEF x, y
  <1> QED BY <1>4, <1>5

LEMMA MeanBehind == NInv => MeanApart
  <1> SUFFICES ASSUME NInv, valid_convert_intermediate, conversion_in_intermediate.mean > 0
               PROVE  conversion_in_intermediate.x =
                        IF cycles = 1 THEN conversion_in_intermediate.mean + 1
                        ELSE conversion_in_intermediate.mean
    BY DEF MeanApart
  <1>0. PICK e, len, s, g, u, W, D : Now(e, len, s, g, u, W, D)
    BY DEF Now
  <1>1. /\ e = Clock /\ len = cycles /\ s = n - 1
        /\ W = ValidLag(n + 1) + 1 /\ D = DataLag(n, len) + StageLag
        /\ g = Sent(e, len) /\ u = Less(g, s)
    BY <1>0 DEF Now
  <1> DEFINE z == conversion_in_intermediate.mean
             x == conversion_in_intermediate.x
  <1>2. /\ len \in Nat \ {0} /\ n \in Nat \ {0} /\ s \in Nat /\ e \in Nat
        /\ W \in Nat \ {0} /\ D \in Nat /\ D = W - (IF len = 1 THEN n ELSE 1)
        /\ z = u[D + 1] /\ x = u[D] /\ TRUE \in Firsts(e, len)[W]
    <2>1. Added(e, len, s, g, u, W, D)
      BY <1>0, AddedBehind
    <2> QED BY <1>1, <2>1, ClockNat DEF Added
  <1> HIDE DEF z, x
  <1>3. z > 0 /\ D + 1 \in Nat
    BY <1>2 DEF z
  <1>4. CASE len = 1
    <2>1. /\ g[D] = (IF e > D THEN e - D ELSE 0)
          /\ g[D + 1] = (IF e > D + 1 THEN e - (D + 1) ELSE 0)
      BY <1>1, <1>2, <1>3, <1>4, SentOne
    <2>2. /\ u[D] = (IF g[D] > s THEN g[D] - s ELSE 0)
          /\ u[D + 1] = (IF g[D + 1] > s THEN g[D + 1] - s ELSE 0)
      BY <1>1, <1>2, <1>3 DEF Less
    <2>3. x = z + 1
      BY <1>1, <1>2, <1>3, <1>4, <2>1, <2>2
    <2> QED BY <1>1, <1>4, <2>3 DEF x, z
  <1>5. CASE len # 1
    <2>1. D = W - 1 /\ D + 1 = W /\ len > 1 /\ W - 1 \in Nat
      BY <1>2, <1>5
    <2>2. g[W - 1] = g[W]
      <3>1. Sent(e, len)[W - 1] = Sent(e, len)[W]
        BY <1>2, <2>1, LongSettled
      <3> QED BY <1>1, <3>1
    <2>3. u[D] = u[D + 1]
      BY <1>1, <1>2, <2>1, <2>2 DEF Less
    <2> QED BY <1>1, <1>2, <1>5, <2>3 DEF x, z
  <1> QED BY <1>4, <1>5

LEMMA AnswerBehind == OneOrLong /\ NInv => LongCallAnswers
  <1> SUFFICES ASSUME OneOrLong, NInv, cycles > 1, left = 0, k > 0
               PROVE  dac_out.y = k
    BY DEF LongCallAnswers
  <1>0. PICK e, len, s, g, u, W, D, m : Now(e, len, s, g, u, W, D) /\ m = k
    BY DEF Now
  <1>1. /\ e = Clock /\ len = cycles /\ m = k /\ W = ValidLag(n + 1) + 1
        /\ g = Sent(e, len)
    BY <1>0 DEF Now
  <1>2. /\ len \in Nat \ {0} /\ W \in Nat /\ dac_out.y = g[W + 4]
    <2>1. Added(e, len, s, g, u, W, D)
      BY <1>0, AddedBehind
    <2> QED BY <2>1 DEF Added
  <1>3. W + 4 < len
    <2>1. n \in Orders /\ len \in CallCycles /\ len # 1
      BY <1>1, <1>2 DEF NInv, TypeOK
    <2>2. len > ValidLag(n + 1) + 5
      BY <2>1 DEF OneOrLong, Latency
    <2>3. W = ValidLag(n + 1) + 1
      BY <1>1
    <2> HIDE DEF ValidLag
    <2> DEFINE V == ValidLag(n + 1)
    <2>4. V \in Nat
      <3>1. n + 1 \in Nat \ {0}
        BY OrderFacts DEF NInv, TypeOK
      <3> QED BY <3>1, Lags
    <2> HIDE DEF V
    <2> QED BY <1>2, <2>2, <2>3, <2>4 DEF V
  <1>4. m \in Nat \ {0} /\ m * len \in Nat
    <2>1. m \in Nat \ {0}
      BY <1>1, OrderAssumption DEF NInv, TypeOK
    <2> QED BY <1>2, <2>1
  <1>5. e = m * len - 0
    BY <1>1, <1>2, <1>4 DEF Clock
  <1>6. 0 \in 0..len-1 /\ W + 4 \in Nat /\ W + 4 < len - 0
    BY <1>2, <1>3
  <1>7. Sent(m * len - 0, len)[W + 4] = m
    BY <1>2, <1>4, <1>6, SentInCall
  <1> QED BY <1>1, <1>2, <1>5, <1>7

LEMMA OnceBehind == NInv => StagesOnce
  <1> SUFFICES ASSUME NInv, NEW i \in 1..n
               PROVE  stage[i].anti_diff.residual.exact /\ stage[i].mov_avg.sum.exact
    BY DEF StagesOnce
  <1>1. PICK q, u, d, e : StageKeeps(stage[i], q, e, u, d)
    BY DEF NInv, Behind
  <1> QED BY <1>1 DEF StageKeeps, AntiKeeps, AvgKeeps

\* In every order, and between calls of one cycle as between long ones, each stage's
\* accumulator and running mean take every sample once and in order: no valid bit is
\* lost or doubled by the gaps, though the accumulators' valid bits move on in them.
THEOREM StagesOnceHolds == ASSUME DelaysMatch, OneOrLong PROVE Spec => []StagesOnce
  BY AlwaysN, OnceBehind, PTL

\* The sample and the residual that are added are always as far apart: a sample in calls
\* of one cycle, the differences' lag in long ones.
THEOREM SumApartHolds == ASSUME DelaysMatch, OneOrLong PROVE Spec => []SumApart
  BY AlwaysN, SumBehind, PTL

\* And so are the residual and the window whose mean is taken off it.
THEOREM MeanApartHolds == ASSUME DelaysMatch, OneOrLong PROVE Spec => []MeanApart
  BY AlwaysN, MeanBehind, PTL

\* A call longer than Latency answers with its own sample.
THEOREM LongCallAnswersHolds ==
  ASSUME DelaysMatch, OneOrLong PROVE Spec => []LongCallAnswers
  <1>1. Spec => []NInv
    BY AlwaysN
  <1>2. NInv => LongCallAnswers
    BY AnswerBehind
  <1> QED BY <1>1, <1>2, PTL
=============================================================================

------------------------- MODULE RateLimiterProofs -------------------------
(***************************************************************************)
(* The budgets of RateLimiter for every window and every pair of limits.   *)
(*                                                                         *)
(* A fixed window: what a client got in the last WINDOW splits at the age  *)
(* of its record.  The young part was let through by the present record,   *)
(* whose count bounds it, and the old part by the one before; when the     *)
(* record is replaced, the old part has left WINDOW and the young part     *)
(* becomes the old one.  A record that is forgotten must have been idle    *)
(* for so long that nothing it let through is in WINDOW any more.          *)
(*                                                                         *)
(* The sliding window: every request that Redis let through in the last    *)
(* WINDOW is still a member of the client's key, so the key's count bounds *)
(* them, however often the pipelines failed.                               *)
(***************************************************************************)
EXTENDS RateLimiter, FiniteSetTheorems, TLAPS

Counts == [Recent -> Nat]

Young(p, age) == [a \in Recent |-> IF a <= age THEN p[a] ELSE 0]
Old(p, age) == [a \in Recent |-> IF a > age THEN p[a] ELSE 0]

\* A record of this age and count accounts for what it let through.
Accounted(age, count, limit, p) ==
  /\ Total(Young(p, age)) <= count /\ Total(Young(p, age)) <= limit
  /\ Total(Old(p, age)) <= limit
  /\ \A a \in Recent : a < age - WINDOW => p[a] = 0

\* A client without a record is like one with an old and empty record.
MemoryAge == IF client.exists THEN client.age ELSE OLDEST
MemoryCount(l) == IF client.exists THEN client.count[l] ELSE 0

MemoryAccounted ==
  \A l \in Limiter : Accounted(MemoryAge, MemoryCount(l), LIMIT[l], passed[l]["memory"])

FallbackAccounted ==
  \A l \in Limiter :
    Accounted(fallback[l].age, fallback[l].count, LIMIT[l], passed[l]["fallback"])

KeyRemembers == \A l \in Limiter, a \in Recent : passed[l]["redis"][a] <= zset[l][a]

Inv ==
  /\ TypeOK
  /\ MemoryAccounted
  /\ FallbackAccounted
  /\ KeyRemembers
  /\ SlidingWindowBudget

-----------------------------------------------------------------------------
(* Counting requests by age.                                               *)

LEMMA Windows ==
  /\ WINDOW \in Nat \ {0} /\ OLDEST = 2 * WINDOW + 1 /\ Ages = 0..OLDEST
  /\ Recent = 0..(WINDOW - 1) /\ MemberAges = 0..WINDOW
  /\ 0 \in Recent /\ 0 \in Ages /\ OLDEST \in Ages /\ Recent \subseteq MemberAges
  /\ IsFiniteSet(Recent) /\ IsFiniteSet(MemberAges)
<1>1. /\ WINDOW \in Nat \ {0} /\ OLDEST = 2 * WINDOW + 1 /\ Ages = 0..OLDEST
      /\ Recent = 0..(WINDOW - 1) /\ MemberAges = 0..WINDOW
  BY LimitsAssumption DEF OLDEST, Ages, Recent, MemberAges
<1>2. IsFiniteSet(0..(WINDOW - 1)) /\ IsFiniteSet(0..WINDOW)
  <2>1. 0 \in Int /\ WINDOW - 1 \in Int /\ WINDOW \in Int
    BY <1>1
  <2> QED
    BY <2>1, FS_Interval
<1> QED
  BY <1>1, <1>2

LEMMA MembersOf ==
  ASSUME NEW S, NEW f \in [S -> Nat]
  PROVE  \A x : x \in Members(f) <=> \E a \in S : \E n \in 1..f[a] : x = <<a, n>>
<1>1. \A a \in S : \A x : x \in {a} \X (1..f[a]) <=> \E n \in 1..f[a] : x = <<a, n>>
  OBVIOUS
<1>2. DOMAIN f = S
  OBVIOUS
<1> QED
  BY <1>1, <1>2 DEF Members

\* A finite number of ages has finitely many requests.
LEMMA TotalIsANumber ==
  ASSUME NEW S, IsFiniteSet(S), NEW f \in [S -> Nat]
  PROVE  IsFiniteSet(Members(f)) /\ Total(f) \in Nat
<1> DEFINE parts == {{a} \X (1..f[a]) : a \in S}
           part == [a \in S |-> {a} \X (1..f[a])]
<1>1. IsFiniteSet(parts)
  <2>1. part \in Surjection(S, parts)
    BY DEF Surjection
  <2> QED
    BY <2>1, FS_Surjection
<1>2. ASSUME NEW a \in S
      PROVE  IsFiniteSet({a} \X (1..f[a]))
  <2>1. f[a] \in Int /\ 1 \in Int
    OBVIOUS
  <2>2. IsFiniteSet({a}) /\ IsFiniteSet(1..f[a])
    BY <2>1, FS_Singleton, FS_Interval
  <2> QED
    BY <2>2, FS_Product
<1>3. IsFiniteSet(UNION parts)
  BY <1>1, <1>2, FS_UNION
<1>4. Members(f) = UNION parts
  BY DEF Members
<1> QED
  BY <1>3, <1>4, FS_CardinalityType DEF Total

\* No fewer at any age are no fewer in all.
LEMMA TotalIsMonotone ==
  ASSUME NEW S, IsFiniteSet(S), NEW f \in [S -> Nat],
         NEW R \in SUBSET S, NEW g \in [R -> Nat], \A a \in R : g[a] <= f[a]
  PROVE  Total(g) <= Total(f)
<1>1. ASSUME NEW x \in Members(g)
      PROVE  x \in Members(f)
  <2>a. PICK a \in R : \E n \in 1..g[a] : x = <<a, n>>
    BY MembersOf
  <2>1. PICK n \in 1..g[a] : x = <<a, n>>
    BY <2>a
  <2>2. a \in S /\ n \in 1..f[a]
    BY <2>1
  <2> QED
    BY <2>1, <2>2, MembersOf
<1>2. Members(g) \in SUBSET Members(f)
  BY <1>1
<1> QED
  BY <1>2, TotalIsANumber, FS_Subset DEF Total

\* No age has more requests than there are.
LEMMA PartOfTotal ==
  ASSUME NEW S, IsFiniteSet(S), NEW f \in [S -> Nat], NEW b \in S
  PROVE  f[b] <= Total(f)
<1> DEFINE member == [n \in 1..f[b] |-> <<b, n>>]
<1>1. \A n \in 1..f[b] : <<b, n>> \in Members(f)
  BY MembersOf
<1>2. \A i, j \in 1..f[b] : <<b, i>> = <<b, j>> => i = j
  OBVIOUS
<1>3. member \in Injection(1..f[b], Members(f))
  BY <1>1, <1>2 DEF Injection, IsInjective
<1>4. IsFiniteSet(1..f[b]) /\ Cardinality(1..f[b]) = f[b]
  <2>1. f[b] \in Nat /\ 1 \in Int /\ f[b] \in Int
    OBVIOUS
  <2>2. Cardinality(1..f[b]) = IF 1 > f[b] THEN 0 ELSE f[b] - 1 + 1
    BY <2>1, FS_Interval
  <2> QED
    BY <2>1, <2>2, FS_Interval
<1> QED
  BY <1>3, <1>4, TotalIsANumber, FS_Injection DEF Total

LEMMA TotalOfNone ==
  ASSUME NEW S, NEW f \in [S -> Nat], \A a \in S : f[a] = 0
  PROVE  Total(f) = 0
<1>1. Members(f) = {}
  BY MembersOf
<1> QED
  BY <1>1, FS_EmptySet DEF Total

\* One request more at one age is one more in all.
LEMMA TotalOfOneMore ==
  ASSUME NEW S, IsFiniteSet(S), NEW f \in [S -> Nat], NEW g \in [S -> Nat],
         NEW b \in S, g[b] = f[b] + 1, \A a \in S \ {b} : g[a] = f[a]
  PROVE  Total(g) = Total(f) + 1
<1> DEFINE new == <<b, f[b] + 1>>
<1>1. new \notin Members(f)
  <2>1. \A n \in 1..f[b] : n # f[b] + 1
    OBVIOUS
  <2> QED
    BY <2>1, MembersOf
<1>2. ASSUME NEW x \in Members(g)
      PROVE  x \in Members(f) \cup {new}
  <2>a. PICK a \in S : \E n \in 1..g[a] : x = <<a, n>>
    BY MembersOf
  <2>1. PICK n \in 1..g[a] : x = <<a, n>>
    BY <2>a
  <2>2. CASE a = b /\ n = f[b] + 1
    BY <2>1, <2>2
  <2>3. CASE ~(a = b /\ n = f[b] + 1)
    <3>1. n \in 1..f[a]
      BY <2>3
    <3> QED
      BY <2>1, <3>1, MembersOf
  <2> QED
    BY <2>2, <2>3
<1>3. ASSUME NEW x \in Members(f) \cup {new}
      PROVE  x \in Members(g)
  <2>1. CASE x = new
    <3>1. f[b] + 1 \in 1..g[b]
      OBVIOUS
    <3> QED
      BY <2>1, <3>1, MembersOf
  <2>2. CASE x \in Members(f)
    <3>a. PICK a \in S : \E n \in 1..f[a] : x = <<a, n>>
      BY <2>2, MembersOf
    <3>1. PICK n \in 1..f[a] : x = <<a, n>>
      BY <3>a
    <3>2. n \in 1..g[a]
      OBVIOUS
    <3> QED
      BY <3>1, <3>2, MembersOf
  <2> QED
    BY <2>1, <2>2
<1>4. Members(g) = Members(f) \cup {new}
  BY <1>2, <1>3
<1>5. IsFiniteSet(Members(f))
  BY TotalIsANumber
<1>6. Cardinality(Members(f) \cup {new}) = Cardinality(Members(f)) + 1
  BY <1>1, <1>5, FS_AddElement
<1> QED
  BY <1>4, <1>6 DEF Total

\* Two parts add up.
LEMMA TotalOfParts ==
  ASSUME NEW S, IsFiniteSet(S), NEW f \in [S -> Nat], NEW g \in [S -> Nat],
         NEW h \in [S -> Nat], \A a \in S : f[a] = g[a] \/ f[a] = h[a]
  PROVE  Total(f) <= Total(g) + Total(h)
<1>1. ASSUME NEW x \in Members(f)
      PROVE  x \in Members(g) \cup Members(h)
  <2>a. PICK a \in S : \E n \in 1..f[a] : x = <<a, n>>
    BY MembersOf
  <2>1. PICK n \in 1..f[a] : x = <<a, n>>
    BY <2>a
  <2>2. n \in 1..g[a] \/ n \in 1..h[a]
    OBVIOUS
  <2> QED
    BY <2>1, <2>2, MembersOf
<1> DEFINE both == Members(g) \cup Members(h)
<1>2. /\ IsFiniteSet(Members(g)) /\ IsFiniteSet(Members(h))
      /\ Total(f) \in Nat /\ Total(g) \in Nat /\ Total(h) \in Nat
  BY TotalIsANumber
<1>3. IsFiniteSet(both) /\ Cardinality(both) <= Total(g) + Total(h)
  <2>1. Cardinality(Members(g) \cap Members(h)) \in Nat
    BY <1>2, FS_Intersection, FS_CardinalityType
  <2>2. /\ IsFiniteSet(both)
        /\ Cardinality(both) = Total(g) + Total(h) - Cardinality(Members(g) \cap Members(h))
    BY <1>2, FS_Union DEF Total
  <2> QED
    BY <1>2, <2>1, <2>2
<1>4. Total(f) <= Cardinality(both)
  BY <1>1, <1>3, FS_Subset DEF Total
<1>5. Cardinality(both) \in Nat
  BY <1>3, FS_CardinalityType
<1> QED
  BY <1>2, <1>3, <1>4, <1>5

LEMMA AgedCounts ==
  ASSUME NEW m \in Nat, NEW f \in [0..m -> Nat]
  PROVE  /\ Aged(f) \in [0..m -> Nat] /\ Aged(f)[0] = 0
         /\ \A a \in 0..m : a # 0 => a - 1 \in 0..m /\ Aged(f)[a] = f[a - 1]
<1>1. Aged(f) = [a \in 0..m |-> IF a = 0 THEN 0 ELSE f[a - 1]]
  BY DEF Aged
<1> QED
  BY <1>1

\* Ageing adds no request.
LEMMA TotalOfAged ==
  ASSUME NEW m \in Nat, NEW f \in [0..m -> Nat]
  PROVE  Total(Aged(f)) <= Total(f)
<1>1. PICK g \in [0..m -> Nat] :
        /\ g = Aged(f)
        /\ \A a \in 0..m : g[a] # 0 => a # 0 /\ a - 1 \in 0..m /\ g[a] = f[a - 1]
  BY AgedCounts
<1> DEFINE before == [x \in Members(g) |-> <<x[1] - 1, x[2]>>]
<1>2. IsFiniteSet(Members(f))
  <2>1. IsFiniteSet(0..m)
    BY FS_Interval
  <2> QED
    BY <2>1, TotalIsANumber
<1>3. \A b \in 0..m : \A n \in 1..f[b] : <<b, n>> \in Members(f)
  BY MembersOf
<1>4. ASSUME NEW x \in Members(g)
      PROVE  /\ x[1] \in Int /\ x = <<x[1], x[2]>>
             /\ <<x[1] - 1, x[2]>> \in Members(f)
  <2>a. PICK a \in 0..m : \E n \in 1..g[a] : x = <<a, n>>
    BY MembersOf
  <2>1. PICK n \in 1..g[a] : x = <<a, n>>
    BY <2>a
  <2>2. a - 1 \in 0..m /\ n \in 1..f[a - 1]
    BY <1>1
  <2>3. <<a - 1, n>> \in Members(f)
    BY <1>3, <2>2
  <2>4. x[1] = a /\ x[2] = n
    BY <2>1
  <2> QED
    BY <2>1, <2>3, <2>4
<1>5. before \in [Members(g) -> Members(f)]
  BY <1>4
<1>6. ASSUME NEW x \in Members(g), NEW y \in Members(g), before[x] = before[y]
      PROVE  x = y
  <2>1. <<x[1] - 1, x[2]>> = <<y[1] - 1, y[2]>>
    BY <1>6
  <2>2. x[1] - 1 = y[1] - 1 /\ x[2] = y[2]
    BY <2>1
  <2>3. x[1] \in Int /\ y[1] \in Int /\ x = <<x[1], x[2]>> /\ y = <<y[1], y[2]>>
    BY <1>4
  <2> HIDE DEF before
  <2>4. x[1] = y[1]
    BY <2>2, <2>3
  <2> QED
    BY <2>2, <2>3, <2>4
<1>7. before \in Injection(Members(g), Members(f))
  BY <1>5, <1>6 DEF Injection, IsInjective
<1> QED
  BY <1>1, <1>2, <1>7, FS_Injection DEF Total

-----------------------------------------------------------------------------
(* One fixed window.                                                       *)

LEMMA PartsAreCounts ==
  ASSUME NEW p \in Counts, NEW age \in Ages
  PROVE  /\ Young(p, age) \in Counts /\ Old(p, age) \in Counts
         /\ Total(p) \in Nat /\ Total(Young(p, age)) \in Nat /\ Total(Old(p, age)) \in Nat
<1>1. Young(p, age) \in Counts /\ Old(p, age) \in Counts
  BY DEF Young, Old, Counts
<1> QED
  BY <1>1, Windows, TotalIsANumber DEF Counts

\* A record that is too old is replaced by an empty one.
LEMMA WindowRenewed ==
  ASSUME NEW age \in Ages, NEW count \in Nat, NEW limit \in Nat, NEW p \in Counts,
         Accounted(age, count, limit, p), age > WINDOW
  PROVE  Accounted(0, 0, limit, p)
<1>1. Total(Young(p, 0)) = 0
  <2>1. \A a \in Recent : Young(p, 0)[a] = 0
    BY Windows DEF Young, Accounted, Counts
  <2> QED
    BY <2>1, Windows, PartsAreCounts, TotalOfNone DEF Counts
<1>2. Total(Old(p, 0)) <= Total(Young(p, age))
  <2>1. \A a \in Recent : Old(p, 0)[a] <= Young(p, age)[a]
    BY Windows DEF Young, Old, Counts
  <2>2. Old(p, 0) \in [Recent -> Nat] /\ Young(p, age) \in [Recent -> Nat]
    BY Windows, PartsAreCounts DEF Counts
  <2> QED
    BY <2>1, <2>2, Windows, TotalIsMonotone
<1>3. Total(Old(p, 0)) <= limit
  <2>1. Total(Old(p, 0)) \in Nat /\ Total(Young(p, age)) \in Nat
    BY Windows, PartsAreCounts
  <2> QED
    BY <1>2, <2>1 DEF Accounted
<1>4. \A a \in Recent : ~(a < 0 - WINDOW)
  BY Windows
<1> QED
  BY <1>1, <1>3, <1>4 DEF Accounted

\* A request more is a number more, as long as it passes.
LEMMA OneMoreCounts ==
  ASSUME NEW l \in Limiter, NEW count \in Nat
  PROVE  /\ OneMore(l, count) \in Nat /\ OneMore(l, count) >= count
         /\ OneMore(l, count) <= LIMIT[l] => OneMore(l, count) = count + 1
BY LimitsAssumption DEF OneMore

\* A request is counted, and passes if the count allows it.
LEMMA WindowServes ==
  ASSUME NEW l \in Limiter, NEW age \in Ages, NEW count \in Nat, NEW p \in Counts,
         Accounted(age, count, LIMIT[l], p), age <= WINDOW, NEW more, NEW q,
         more = OneMore(l, count),
         q = IF more <= LIMIT[l] THEN [p EXCEPT ![0] = @ + 1] ELSE p
  PROVE  Accounted(age, more, LIMIT[l], q)
<1>1. q \in Counts
  BY Windows DEF Counts
<1>2. \A a \in Recent : ~(a < age - WINDOW)
  BY Windows
<1>0. /\ LIMIT[l] \in Nat /\ more \in Nat /\ more >= count
      /\ more <= LIMIT[l] => more = count + 1
  BY OneMoreCounts, LimitsAssumption
<1>3. CASE q = p
  BY <1>0, <1>2, <1>3, PartsAreCounts DEF Accounted
<1>4. CASE more <= LIMIT[l] /\ q = [p EXCEPT ![0] = @ + 1]
  <2>1. Old(q, age) = Old(p, age)
    BY <1>4, Windows DEF Old, Counts
  <2>2. Total(Young(q, age)) = Total(Young(p, age)) + 1
    <3>1. /\ Young(q, age)[0] = Young(p, age)[0] + 1
          /\ \A a \in Recent \ {0} : Young(q, age)[a] = Young(p, age)[a]
      BY <1>4, Windows DEF Young, Counts
    <3>2. Young(p, age) \in [Recent -> Nat] /\ Young(q, age) \in [Recent -> Nat]
      BY <1>1, PartsAreCounts DEF Counts
    <3>3. IsFiniteSet(Recent) /\ 0 \in Recent
      BY Windows
    <3>4. PICK f \in [Recent -> Nat], g \in [Recent -> Nat] :
            f = Young(p, age) /\ g = Young(q, age)
      BY <3>2
    <3>5. g[0] = f[0] + 1 /\ \A a \in Recent \ {0} : g[a] = f[a]
      BY <3>1, <3>4
    <3>6. Total(g) = Total(f) + 1
      BY <3>3, <3>5, TotalOfOneMore
    <3> QED
      BY <3>4, <3>6
  <2> QED
    BY <1>0, <1>2, <1>4, <2>1, <2>2, PartsAreCounts DEF Accounted
<1> QED
  BY <1>3, <1>4

LEMMA CountsAge ==
  ASSUME NEW p \in Counts
  PROVE  /\ Aged(p) \in Counts /\ Total(Aged(p)) <= Total(p)
         /\ \A a \in Recent : Aged(p)[a] = IF a = 0 THEN 0 ELSE p[a - 1]
<1>1. WINDOW - 1 \in Nat /\ p \in [0..(WINDOW - 1) -> Nat] /\ Recent = 0..(WINDOW - 1)
  BY Windows DEF Counts
<1> QED
  BY <1>1, AgedCounts, TotalOfAged DEF Counts

LEMMA AgesAge ==
  ASSUME NEW age \in Ages
  PROVE  /\ Older(age) \in Ages
         /\ Older(age) = age + 1 \/ (age = OLDEST /\ Older(age) = OLDEST)
  BY Windows DEF Older

\* The parts of what passed grow old together with the record.
LEMMA WindowAges ==
  ASSUME NEW age \in Ages, NEW count \in Nat, NEW limit \in Nat, NEW p \in Counts,
         Accounted(age, count, limit, p)
  PROVE  Accounted(Older(age), count, limit, Aged(p))
<1>0. /\ age \in Int /\ WINDOW \in Int /\ \A a \in Recent : a \in Int /\ 0 <= a /\ a < WINDOW
      /\ Older(age) = age + 1 \/ (age > 2 * WINDOW /\ Older(age) = age)
  <2>1. age \in Int /\ WINDOW \in Int /\ OLDEST = 2 * WINDOW + 1 /\ OLDEST > 2 * WINDOW
    BY Windows
  <2>2. \A a \in Recent : a \in Int /\ 0 <= a /\ a < WINDOW
    BY Windows
  <2> QED
    BY <2>1, <2>2, AgesAge
<1>1. /\ Young(p, age) \in Counts /\ Old(p, age) \in Counts
      /\ Aged(p) \in Counts /\ Older(age) \in Ages
  BY PartsAreCounts, CountsAge, AgesAge
<1>2. \A a \in Recent : a # 0 => a - 1 \in Recent
  BY Windows
<1>3. Young(Aged(p), Older(age)) = Aged(Young(p, age))
  <2>1. ASSUME NEW a \in Recent
        PROVE  Young(Aged(p), Older(age))[a] = Aged(Young(p, age))[a]
    <3>1. Young(Aged(p), Older(age))[a]
            = IF a <= Older(age) THEN (IF a = 0 THEN 0 ELSE p[a - 1]) ELSE 0
      BY CountsAge DEF Young
    <3>2. Aged(Young(p, age))[a] = IF a = 0 THEN 0 ELSE IF a - 1 <= age THEN p[a - 1] ELSE 0
      BY <1>1, <1>2, CountsAge DEF Young
    <3> QED
      BY <1>0, <3>1, <3>2
  <2>2. Young(Aged(p), Older(age)) \in Counts /\ Aged(Young(p, age)) \in Counts
    BY <1>1, PartsAreCounts, CountsAge
  <2> QED
    BY <2>1, <2>2 DEF Counts
<1>4. Old(Aged(p), Older(age)) = Aged(Old(p, age))
  <2>1. ASSUME NEW a \in Recent
        PROVE  Old(Aged(p), Older(age))[a] = Aged(Old(p, age))[a]
    <3>1. Old(Aged(p), Older(age))[a]
            = IF a > Older(age) THEN (IF a = 0 THEN 0 ELSE p[a - 1]) ELSE 0
      BY CountsAge DEF Old
    <3>2. Aged(Old(p, age))[a] = IF a = 0 THEN 0 ELSE IF a - 1 > age THEN p[a - 1] ELSE 0
      BY <1>1, <1>2, CountsAge DEF Old
    <3> QED
      BY <1>0, <3>1, <3>2
  <2>2. Old(Aged(p), Older(age)) \in Counts /\ Aged(Old(p, age)) \in Counts
    BY <1>1, PartsAreCounts, CountsAge
  <2> QED
    BY <2>1, <2>2 DEF Counts
<1>5. /\ Total(Aged(Young(p, age))) <= Total(Young(p, age))
      /\ Total(Aged(Old(p, age))) <= Total(Old(p, age))
  BY <1>1, CountsAge
<1>6. /\ Total(Aged(Young(p, age))) \in Nat /\ Total(Young(p, age)) \in Nat
      /\ Total(Aged(Old(p, age))) \in Nat /\ Total(Old(p, age)) \in Nat
  BY <1>1, <1>3, <1>4, PartsAreCounts
<1>7. ASSUME NEW a \in Recent, a < Older(age) - WINDOW
      PROVE  Aged(p)[a] = 0
  <2>1. a # 0 => a - 1 < age - WINDOW
    BY <1>0, <1>7
  <2> QED
    BY <1>2, <2>1, CountsAge DEF Accounted
<1> QED
  BY <1>3, <1>4, <1>5, <1>6, <1>7 DEF Accounted

\* The two records of a stretch of WINDOW let their limit through each.
LEMMA WindowBudget ==
  ASSUME NEW age \in Ages, NEW count \in Nat, NEW limit \in Nat, NEW p \in Counts,
         Accounted(age, count, limit, p)
  PROVE  Total(p) <= 2 * limit
<1>1. \A a \in Recent : p[a] = Young(p, age)[a] \/ p[a] = Old(p, age)[a]
  BY Windows DEF Young, Old
<1>2. /\ p \in [Recent -> Nat] /\ Young(p, age) \in [Recent -> Nat]
      /\ Old(p, age) \in [Recent -> Nat]
  BY PartsAreCounts DEF Counts
<1>3. Total(p) <= Total(Young(p, age)) + Total(Old(p, age))
  BY <1>1, <1>2, Windows, TotalOfParts
<1> QED
  BY <1>3, PartsAreCounts DEF Accounted

-----------------------------------------------------------------------------
(* The steps of the limiters.                                              *)

LEMMA Limits == \A l \in Limiter : LIMIT[l] \in Nat
  BY LimitsAssumption

\* What a client got is a number per age, by every means.
LEMMA PassedIsCounted ==
  ASSUME TypeOK, NEW l \in Limiter, NEW m \in Means
  PROVE  passed[l][m] \in Counts
  BY DEF TypeOK, Counts

\* One request more by one means leaves the other counts alone.
LEMMA OneMorePasses ==
  ASSUME TypeOK, NEW l \in Limiter, NEW m \in Means,
         passed' = [passed EXCEPT ![l][m][0] = @ + 1]
  PROVE  /\ passed' \in [Limiter -> [Means -> [Recent -> Nat]]]
         /\ passed'[l][m] = [passed[l][m] EXCEPT ![0] = @ + 1]
         /\ \A k \in Limiter, n \in Means :
              k # l \/ n # m => passed'[k][n] = passed[k][n]
<1>1. passed \in [Limiter -> [Means -> [Recent -> Nat]]] /\ 0 \in Recent
  BY Windows DEF TypeOK
<1>2. [passed[l][m] EXCEPT ![0] = @ + 1] \in [Recent -> Nat]
  BY <1>1
<1>3. passed' = [passed EXCEPT ![l] = [passed[l] EXCEPT ![m] =
                   [passed[l][m] EXCEPT ![0] = @ + 1]]]
  BY <1>1
<1>4. passed'[l] = [passed[l] EXCEPT ![m] = [passed[l][m] EXCEPT ![0] = @ + 1]]
      /\ \A k \in Limiter \ {l} : passed'[k] = passed[k]
  BY <1>1, <1>3
<1> QED
  BY <1>1, <1>2, <1>3, <1>4

LEMMA SearchingIsBoolean ==
  ASSUME TypeOK, NEW l, NEW m, NEW allowed, Verdict(l, m, allowed)
  PROVE  searching' \in BOOLEAN
<1>1. searching \in BOOLEAN
  BY DEF TypeOK
<1>2. searching' \in {searching, TRUE} \/ searching' \in {FALSE} \/ searching' \in {searching}
  BY DEF Verdict
<1> QED
  BY <1>1, <1>2

\* getClient returns a record that is not too old and accounts for the past.
LEMMA ClientIsAccounted ==
  ASSUME TypeOK, MemoryAccounted
  PROVE  /\ GetClient \in [age: Ages, count: [Limiter -> Nat], exists: BOOLEAN]
         /\ GetClient.exists /\ GetClient.age <= WINDOW
         /\ \A l \in Limiter : Accounted(GetClient.age, GetClient.count[l], LIMIT[l],
                                         passed[l]["memory"])
<1>1. NoRecord \in [age: Ages, count: [Limiter -> Nat], exists: BOOLEAN]
  BY Windows DEF NoRecord, Unused
<1>2. client.age \in Ages /\ WINDOW \in Nat /\ OLDEST \in Ages /\ OLDEST > WINDOW
  BY Windows DEF TypeOK
<1>3. CASE client.exists /\ ~WindowOver
  <2>1. GetClient = client /\ MemoryAge = client.age
        /\ \A l \in Limiter : MemoryCount(l) = client.count[l]
    BY <1>3 DEF GetClient, MemoryAge, MemoryCount
  <2>2. client.age <= WINDOW
    BY <1>2, <1>3, Windows DEF WindowOver
  <2> QED
    BY <1>3, <2>1, <2>2 DEF TypeOK, MemoryAccounted
<1>4. CASE ~(client.exists /\ ~WindowOver)
  <2>1. GetClient = [NoRecord EXCEPT !.exists = TRUE]
    BY <1>4 DEF GetClient, NewRecord
  <2>2. MemoryAge \in Ages /\ MemoryAge > WINDOW
    BY <1>2, <1>4 DEF MemoryAge, WindowOver
  <2>3. GetClient.age = 0 /\ \A l \in Limiter : GetClient.count[l] = 0
    BY <2>1 DEF NoRecord, Unused
  <2>4. ASSUME NEW l \in Limiter
        PROVE  Accounted(0, 0, LIMIT[l], passed[l]["memory"])
    <3>1. MemoryCount(l) \in Nat /\ passed[l]["memory"] \in Counts
      BY PassedIsCounted DEF MemoryCount, TypeOK, Means
    <3> QED
      BY <2>2, <3>1, Limits, WindowRenewed DEF MemoryAccounted
  <2> QED
    <3>1. GetClient.exists /\ GetClient.age <= WINDOW
      BY <1>2, <2>1, <2>3, Windows DEF NoRecord
    <3>2. GetClient \in [age: Ages, count: [Limiter -> Nat], exists: BOOLEAN]
      BY <1>1, <2>1
    <3> QED
      BY <2>3, <2>4, <3>1, <3>2
<1> QED
  BY <1>3, <1>4

LEMMA InMemoryKeepsInv ==
  ASSUME Inv, NEW l \in Limiter, InMemory(l)
  PROVE  Inv'
<1> DEFINE c == [GetClient EXCEPT !.count[l] = OneMore(l, @)]
<1>1. /\ TypeOK /\ client' = c /\ UNCHANGED <<useRedis, zset, fallback>>
      /\ Verdict(l, "memory", c.count[l] <= LIMIT[l])
  BY DEF Inv, InMemory
<1>2. /\ GetClient \in [age: Ages, count: [Limiter -> Nat], exists: BOOLEAN]
      /\ GetClient.exists /\ GetClient.age <= WINDOW
      /\ \A k \in Limiter : Accounted(GetClient.age, GetClient.count[k], LIMIT[k],
                                      passed[k]["memory"])
  BY ClientIsAccounted DEF Inv
<1>3. /\ c \in [age: Ages, count: [Limiter -> Nat], exists: BOOLEAN]
      /\ c.exists /\ c.age = GetClient.age
      /\ c.count[l] = OneMore(l, GetClient.count[l])
      /\ \A k \in Limiter \ {l} : c.count[k] = GetClient.count[k]
  <2>1. OneMore(l, GetClient.count[l]) \in Nat
    BY <1>2, OneMoreCounts
  <2> QED
    BY <1>2, <2>1
<1> HIDE DEF c
<1>4. /\ passed' \in [Limiter -> [Means -> [Recent -> Nat]]] /\ searching' \in BOOLEAN
      /\ passed'[l]["memory"] = IF c.count[l] <= LIMIT[l]
                                THEN [passed[l]["memory"] EXCEPT ![0] = @ + 1]
                                ELSE passed[l]["memory"]
      /\ \A k \in Limiter, m \in Means :
           k # l \/ m # "memory" => passed'[k][m] = passed[k][m]
  <2>1. searching' \in BOOLEAN
    BY <1>1, SearchingIsBoolean
  <2>2. CASE c.count[l] <= LIMIT[l]
    <3>1. passed' = [passed EXCEPT ![l]["memory"][0] = @ + 1]
      BY <1>1, <2>2 DEF Verdict
    <3>2. "memory" \in Means
      BY DEF Means
    <3>3. /\ passed' \in [Limiter -> [Means -> [Recent -> Nat]]]
          /\ passed'[l]["memory"] = [passed[l]["memory"] EXCEPT ![0] = @ + 1]
          /\ \A k \in Limiter, m \in Means :
               k # l \/ m # "memory" => passed'[k][m] = passed[k][m]
      BY <1>1, <3>1, <3>2, OneMorePasses
    <3> QED
      BY <2>1, <2>2, <3>3
  <2>3. CASE ~(c.count[l] <= LIMIT[l])
    <3>1. passed' = passed
      BY <1>1, <2>3 DEF Verdict
    <3> QED
      BY <1>1, <2>1, <2>3, <3>1 DEF TypeOK
  <2> QED
    BY <2>2, <2>3
<1>5. TypeOK'
  BY <1>1, <1>3, <1>4 DEF TypeOK
<1>6. ASSUME NEW k \in Limiter
      PROVE  Accounted(c.age, c.count[k], LIMIT[k], passed'[k]["memory"])
  <2>1. CASE k # l
    BY <1>2, <1>3, <1>4, <2>1 DEF Means
  <2>2. CASE k = l
    <3>1. GetClient.age \in Ages /\ GetClient.count[l] \in Nat
      BY <1>2
    <3>2. passed[l]["memory"] \in Counts
      BY <1>1, PassedIsCounted DEF Means
    <3> QED
      BY <1>2, <1>3, <1>4, <2>2, <3>1, <3>2, Limits, WindowServes
  <2> QED
    BY <2>1, <2>2
<1>7. MemoryAccounted'
  BY <1>1, <1>3, <1>6 DEF MemoryAccounted, MemoryAge, MemoryCount
<1>8. FallbackAccounted' /\ KeyRemembers' /\ SlidingWindowBudget'
  BY <1>1, <1>4 DEF Inv, FallbackAccounted, KeyRemembers, SlidingWindowBudget, PassedBy, Means
<1> QED
  BY <1>5, <1>7, <1>8 DEF Inv

\* A pipeline that ran drops what has left WINDOW and adds one member.
LEMMA KeyIsCounted ==
  ASSUME TypeOK, NEW l \in Limiter
  PROVE  /\ Counted(l) \in [MemberAges -> Nat]
         /\ Counted(l)[0] = OneMore(l, zset[l][0]) /\ zset[l][0] <= Counted(l)[0]
         /\ \A a \in Recent : a # 0 => Counted(l)[a] = zset[l][a]
<1>1. zset[l] \in [MemberAges -> Nat] /\ 0 \in MemberAges
  BY Windows DEF TypeOK
<1>2. \A a \in Recent : a \notin Expired /\ a \in MemberAges
  BY Windows DEF Expired
<1>3. OneMore(l, zset[l][0]) \in Nat /\ OneMore(l, zset[l][0]) >= zset[l][0]
  BY <1>1, OneMoreCounts
<1> QED
  BY <1>1, <1>2, <1>3, Windows DEF Counted

\* Whether it ran or not, the key forgets nothing of the last WINDOW.
LEMMA KeyForgetsNothing ==
  ASSUME TypeOK, NEW l \in Limiter, zset' = zset \/ zset' = [zset EXCEPT ![l] = Counted(l)]
  PROVE  /\ zset' \in [Limiter -> [MemberAges -> Nat]]
         /\ \A k \in Limiter, a \in Recent : zset[k][a] <= zset'[k][a]
<1>1. /\ zset \in [Limiter -> [MemberAges -> Nat]]
      /\ \A k \in Limiter, a \in Recent : zset[k][a] \in Nat
  BY Windows DEF TypeOK
<1>2. CASE zset' = zset
  BY <1>1, <1>2
<1>3. CASE zset' = [zset EXCEPT ![l] = Counted(l)]
  <2>1. zset'[l] = Counted(l) /\ \A k \in Limiter \ {l} : zset'[k] = zset[k]
    BY <1>1, <1>3
  <2>2. \A a \in Recent : zset[l][a] <= Counted(l)[a]
    <3>1. \A a \in Recent : a = 0 \/ Counted(l)[a] = zset[l][a]
      BY KeyIsCounted
    <3> QED
      BY <1>1, <3>1, KeyIsCounted
  <2>3. \A k \in Limiter, a \in Recent : zset[k][a] <= zset'[k][a]
    BY <1>1, <2>1, <2>2
  <2> QED
    BY <1>1, <1>3, <2>3, KeyIsCounted
<1> QED
  BY <1>2, <1>3

\* Redis answered: the count it returned bounds all that passed.
LEMMA RedisAnswers ==
  ASSUME Inv, NEW l \in Limiter, zset' = [zset EXCEPT ![l] = Counted(l)],
         Verdict(l, "redis", Total(Counted(l)) <= LIMIT[l]),
         UNCHANGED <<client, useRedis, fallback>>
  PROVE  Inv'
<1>1. TypeOK /\ "redis" \in Means /\ searching' \in BOOLEAN
  BY SearchingIsBoolean DEF Inv, Means
<1>2. /\ zset' \in [Limiter -> [MemberAges -> Nat]] /\ zset \in [Limiter -> [MemberAges -> Nat]]
      /\ zset'[l] = Counted(l) /\ \A k \in Limiter \ {l} : zset'[k] = zset[k]
  BY <1>1, KeyIsCounted DEF TypeOK
<1>3. CASE Total(Counted(l)) <= LIMIT[l]
  <2>1. passed' = [passed EXCEPT ![l]["redis"][0] = @ + 1]
    BY <1>3 DEF Verdict
  <2>2. /\ passed' \in [Limiter -> [Means -> [Recent -> Nat]]]
        /\ passed'[l]["redis"] = [passed[l]["redis"] EXCEPT ![0] = @ + 1]
        /\ \A k \in Limiter, n \in Means :
             k # l \/ n # "redis" => passed'[k][n] = passed[k][n]
    BY <1>1, <2>1, OneMorePasses
  <2>3. TypeOK'
    BY <1>1, <1>2, <2>2 DEF TypeOK
  <2>4. MemoryAccounted' /\ FallbackAccounted'
    BY <2>2 DEF Inv, MemoryAccounted, MemoryAge, MemoryCount, FallbackAccounted, Means
  <2>5. \A a \in Recent : passed'[l]["redis"][a] <= Counted(l)[a]
    <3>1. /\ passed[l]["redis"] \in Counts
          /\ \A a \in Recent : zset[l][a] \in Nat /\ passed[l]["redis"][a] <= zset[l][a]
      BY <1>1, <1>2, PassedIsCounted, Windows DEF Inv, KeyRemembers
    <3>2. passed'[l]["redis"][0] <= Counted(l)[0]
      <4>1. 0 \in Recent
        BY Windows
      <4>2. passed'[l]["redis"][0] = passed[l]["redis"][0] + 1 /\ passed[l]["redis"][0] \in Nat
        BY <2>2, <3>1, <4>1 DEF Counts
      <4>3. Counted(l) \in [MemberAges -> Nat] /\ IsFiniteSet(MemberAges) /\ 0 \in MemberAges
        BY <1>1, Windows, KeyIsCounted
      <4>4. Counted(l)[0] \in Nat /\ Total(Counted(l)) \in Nat /\ Counted(l)[0] <= Total(Counted(l))
        BY <4>3, TotalIsANumber, PartOfTotal
      <4>5. Counted(l)[0] <= LIMIT[l]
        BY <1>3, <4>4, Limits
      <4>6. Counted(l)[0] = zset[l][0] + 1
        BY <1>1, <3>1, <4>1, <4>5, KeyIsCounted, OneMoreCounts
      <4> QED
        BY <3>1, <4>1, <4>2, <4>6
    <3>3. ASSUME NEW a \in Recent, a # 0
          PROVE  passed'[l]["redis"][a] <= Counted(l)[a]
      BY <1>1, <2>2, <3>1, <3>3, KeyIsCounted DEF Counts
    <3> QED
      BY <3>2, <3>3
  <2>6. KeyRemembers'
    BY <1>2, <2>2, <2>5 DEF Inv, KeyRemembers, Means
  <2>7. Total(passed'[l]["redis"]) <= LIMIT[l]
    <3>1. /\ passed'[l]["redis"] \in [Recent -> Nat] /\ Counted(l) \in [MemberAges -> Nat]
          /\ Recent \in SUBSET MemberAges /\ IsFiniteSet(MemberAges) /\ IsFiniteSet(Recent)
      <4>1. passed'[l]["redis"] \in [Recent -> Nat]
        BY <1>1, <2>2
      <4> QED
        BY <1>1, <4>1, KeyIsCounted, Windows
    <3>2. Total(passed'[l]["redis"]) <= Total(Counted(l))
      BY <2>5, <3>1, TotalIsMonotone
    <3>3. Total(passed'[l]["redis"]) \in Nat /\ Total(Counted(l)) \in Nat
      BY <3>1, TotalIsANumber
    <3> QED
      BY <1>3, <3>2, <3>3, Limits
  <2>8. SlidingWindowBudget'
    BY <2>2, <2>7 DEF Inv, SlidingWindowBudget, PassedBy, Means
  <2> QED
    BY <2>3, <2>4, <2>6, <2>8 DEF Inv
<1>4. CASE ~(Total(Counted(l)) <= LIMIT[l])
  <2>1. passed' = passed
    BY <1>4 DEF Verdict
  <2>2. TypeOK'
    BY <1>1, <1>2, <2>1 DEF TypeOK
  <2>3. KeyRemembers'
    <3>1. ASSUME NEW k \in Limiter, NEW a \in Recent
          PROVE  passed[k]["redis"][a] <= zset'[k][a]
      <4>1. /\ zset[k][a] \in Nat /\ zset'[k][a] \in Nat /\ zset[k][a] <= zset'[k][a]
        BY <1>1, <1>2, KeyForgetsNothing, Windows
      <4>2. passed[k]["redis"][a] \in Nat /\ passed[k]["redis"][a] <= zset[k][a]
        BY <1>1, PassedIsCounted DEF Inv, KeyRemembers, Counts
      <4> QED
        BY <4>1, <4>2
    <3> QED
      BY <2>1, <3>1 DEF KeyRemembers
  <2> QED
    BY <2>1, <2>2, <2>3 DEF Inv, MemoryAccounted, MemoryAge, MemoryCount,
                            FallbackAccounted, SlidingWindowBudget, PassedBy
<1> QED
  BY <1>3, <1>4

\* Redis did not answer: a request that passes is not in its key's account.
LEMMA RedisDoesNotAnswer ==
  ASSUME TypeOK, KeyRemembers, SlidingWindowBudget, NEW l \in Limiter,
         zset' = zset \/ zset' = [zset EXCEPT ![l] = Counted(l)],
         \A k \in Limiter : passed'[k]["redis"] = passed[k]["redis"]
  PROVE  KeyRemembers' /\ SlidingWindowBudget'
<1>1. ASSUME NEW k \in Limiter, NEW a \in Recent
      PROVE  passed'[k]["redis"][a] <= zset'[k][a]
  <2>1. /\ zset[k][a] \in Nat /\ zset'[k][a] \in Nat /\ zset[k][a] <= zset'[k][a]
    <3>1. zset' \in [Limiter -> [MemberAges -> Nat]] /\ zset[k][a] <= zset'[k][a]
      BY KeyForgetsNothing
    <3>2. zset \in [Limiter -> [MemberAges -> Nat]] /\ a \in MemberAges
      BY Windows DEF TypeOK
    <3> QED
      BY <3>1, <3>2
  <2>2. passed[k]["redis"][a] \in Nat /\ passed[k]["redis"][a] <= zset[k][a]
    BY PassedIsCounted DEF KeyRemembers, Counts, Means
  <2> QED
    BY <2>1, <2>2
<1> QED
  BY <1>1 DEF KeyRemembers, SlidingWindowBudget, PassedBy

LEMMA ErrorsKeepInv ==
  ASSUME Inv, NEW l \in Limiter, zset' = zset \/ zset' = [zset EXCEPT ![l] = Counted(l)],
         Verdict(l, "unanswered", 0 <= LIMIT[l]), UNCHANGED <<client, useRedis, fallback>>
  PROVE  Inv'
<1>1. TypeOK /\ "unanswered" \in Means /\ searching' \in BOOLEAN
  BY SearchingIsBoolean DEF Inv, Means
<1>2. passed' = [passed EXCEPT ![l]["unanswered"][0] = @ + 1]
  <2>1. 0 <= LIMIT[l]
    BY Limits
  <2> QED
    BY <2>1 DEF Verdict
<1>3. /\ passed' \in [Limiter -> [Means -> [Recent -> Nat]]]
      /\ \A k \in Limiter, n \in Means :
           n # "unanswered" => passed'[k][n] = passed[k][n]
  <2>1. /\ passed' \in [Limiter -> [Means -> [Recent -> Nat]]]
        /\ \A k \in Limiter, n \in Means :
             k # l \/ n # "unanswered" => passed'[k][n] = passed[k][n]
    BY <1>1, <1>2, OneMorePasses
  <2> QED
    BY <2>1
<1>4. TypeOK'
  BY <1>1, <1>3, KeyForgetsNothing DEF TypeOK
<1>5. MemoryAccounted' /\ FallbackAccounted'
  BY <1>3 DEF Inv, MemoryAccounted, MemoryAge, MemoryCount, FallbackAccounted, Means
<1>6. KeyRemembers' /\ SlidingWindowBudget'
  BY <1>1, <1>3, RedisDoesNotAnswer DEF Inv, Means
<1> QED
  BY <1>4, <1>5, <1>6 DEF Inv

\* _localFallback starts from a record that is not too old.
LEMMA FallbackIsAccounted ==
  ASSUME TypeOK, FallbackAccounted, NEW l \in Limiter
  PROVE  /\ FallenBack(l) \in [age: Ages, count: Nat] /\ FallenBack(l).age <= WINDOW
         /\ \E n \in Nat : /\ FallenBack(l).count = OneMore(l, n)
                           /\ Accounted(FallenBack(l).age, n, LIMIT[l], passed[l]["fallback"])
<1> DEFINE entry == fallback[l]
           p == passed[l]["fallback"]
<1>1. /\ entry \in [age: Ages, count: Nat] /\ WINDOW \in Nat /\ entry.age \in Int
      /\ 0 \in Ages /\ p \in Counts /\ Accounted(entry.age, entry.count, LIMIT[l], p)
  <2>1. entry \in [age: Ages, count: Nat] /\ Accounted(entry.age, entry.count, LIMIT[l], p)
    BY DEF TypeOK, FallbackAccounted
  <2>2. p \in Counts
    BY PassedIsCounted DEF Means
  <2>3. entry.age \in Int
    BY <2>1, Windows
  <2> QED
    BY <2>1, <2>2, <2>3, Windows
<1>2. CASE entry.age > WINDOW
  <2>1. OneMore(l, 0) \in Nat
    BY OneMoreCounts
  <2>2. FallenBack(l) = [age |-> 0, count |-> OneMore(l, 0)]
    BY <1>2 DEF FallenBack
  <2>3. Accounted(0, 0, LIMIT[l], p)
    BY <1>1, <1>2, Limits, WindowRenewed
  <2> QED
    BY <1>1, <2>1, <2>2, <2>3
<1>3. CASE ~(entry.age > WINDOW)
  <2>1. OneMore(l, entry.count) \in Nat
    BY <1>1, OneMoreCounts
  <2>2. FallenBack(l) = [entry EXCEPT !.count = OneMore(l, @)]
    BY <1>3 DEF FallenBack
  <2>3. /\ FallenBack(l).age = entry.age /\ FallenBack(l).count = OneMore(l, entry.count)
        /\ FallenBack(l) \in [age: Ages, count: Nat]
    BY <1>1, <2>1, <2>2
  <2> QED
    BY <1>1, <1>3, <2>3
<1> QED
  BY <1>2, <1>3

LEMMA FallbackKeepsInv ==
  ASSUME Inv, NEW l \in Limiter, zset' = zset \/ zset' = [zset EXCEPT ![l] = Counted(l)],
         fallback' = [fallback EXCEPT ![l] = FallenBack(l)],
         Verdict(l, "fallback", FallenBack(l).count <= LIMIT[l]),
         UNCHANGED <<client, useRedis>>
  PROVE  Inv'
<1> DEFINE entry == FallenBack(l)
<1>1. TypeOK /\ "fallback" \in Means /\ searching' \in BOOLEAN
  BY SearchingIsBoolean DEF Inv, Means
<1>2. /\ entry \in [age: Ages, count: Nat] /\ entry.age <= WINDOW
      /\ \E n \in Nat : /\ entry.count = OneMore(l, n)
                        /\ Accounted(entry.age, n, LIMIT[l], passed[l]["fallback"])
  BY FallbackIsAccounted DEF Inv
<1>3. /\ fallback' \in [Limiter -> [age: Ages, count: Nat]] /\ fallback'[l] = entry
      /\ \A k \in Limiter \ {l} : fallback'[k] = fallback[k]
  BY <1>1, <1>2 DEF TypeOK
<1>4. /\ passed' \in [Limiter -> [Means -> [Recent -> Nat]]]
      /\ passed'[l]["fallback"] = IF entry.count <= LIMIT[l]
                                  THEN [passed[l]["fallback"] EXCEPT ![0] = @ + 1]
                                  ELSE passed[l]["fallback"]
      /\ \A k \in Limiter, m \in Means :
           k # l \/ m # "fallback" => passed'[k][m] = passed[k][m]
  <2>1. CASE entry.count <= LIMIT[l]
    <3>1. passed' = [passed EXCEPT ![l]["fallback"][0] = @ + 1]
      BY <2>1 DEF Verdict
    <3> QED
      BY <1>1, <2>1, <3>1, OneMorePasses
  <2>2. CASE ~(entry.count <= LIMIT[l])
    <3>1. passed' = passed
      BY <2>2 DEF Verdict
    <3> QED
      BY <1>1, <2>2, <3>1 DEF TypeOK
  <2> QED
    BY <2>1, <2>2
<1> HIDE DEF entry
<1>5. TypeOK'
  BY <1>1, <1>3, <1>4, KeyForgetsNothing DEF TypeOK
<1>6. MemoryAccounted'
  BY <1>4 DEF Inv, MemoryAccounted, MemoryAge, MemoryCount, Means
<1>7. Accounted(entry.age, entry.count, LIMIT[l], passed'[l]["fallback"])
  <2>1. PICK n \in Nat : /\ entry.count = OneMore(l, n)
                         /\ Accounted(entry.age, n, LIMIT[l], passed[l]["fallback"])
    BY <1>2
  <2>2. entry.age \in Ages /\ passed[l]["fallback"] \in Counts
    BY <1>1, <1>2, PassedIsCounted
  <2> QED
    BY <1>2, <1>4, <2>1, <2>2, WindowServes
<1>8. FallbackAccounted'
  BY <1>3, <1>4, <1>7 DEF Inv, FallbackAccounted, Means
<1>9. KeyRemembers' /\ SlidingWindowBudget'
  BY <1>1, <1>4, RedisDoesNotAnswer DEF Inv, Means
<1> QED
  BY <1>5, <1>6, <1>8, <1>9 DEF Inv

LEMMA LimitKeepsInv == ASSUME Inv, NEW l \in Limiter, Limit(l) PROVE Inv'
<1>1. CASE InMemory(l)
  BY <1>1, InMemoryKeepsInv
<1>2. CASE InRedis(l)
  <2>1. UNCHANGED <<client, useRedis>>
    BY <1>2 DEF InRedis
  <2>2. PICK answer \in Answers :
          \/ /\ answer = "counted"
             /\ zset' = [zset EXCEPT ![l] = Counted(l)]
             /\ Verdict(l, "redis", Total(Counted(l)) <= LIMIT[l])
             /\ UNCHANGED fallback
          \/ /\ answer = "errors"
             /\ zset' \in {zset, [zset EXCEPT ![l] = Counted(l)]}
             /\ Verdict(l, "unanswered", 0 <= LIMIT[l])
             /\ UNCHANGED fallback
          \/ /\ answer = "throws"
             /\ zset' \in {zset, [zset EXCEPT ![l] = Counted(l)]}
             /\ fallback' = [fallback EXCEPT ![l] = FallenBack(l)]
             /\ Verdict(l, "fallback", FallenBack(l).count <= LIMIT[l])
    BY <1>2 DEF InRedis
  <2>3. CASE answer = "counted"
    BY <2>1, <2>2, <2>3, RedisAnswers
  <2>4. CASE answer = "errors"
    BY <2>1, <2>2, <2>4, ErrorsKeepInv
  <2>5. CASE answer = "throws"
    BY <2>1, <2>2, <2>5, FallbackKeepsInv
  <2> QED
    BY <2>2, <2>3, <2>4, <2>5
<1> QED
  BY <1>1, <1>2 DEF Limit

\* A record is forgotten when nothing it let through is recent any more.
LEMMA CleanupKeepsInv == ASSUME Inv, CleanupClients PROVE Inv'
<1>1. /\ TypeOK /\ client.exists /\ Stale /\ client' = NoRecord
      /\ UNCHANGED <<useRedis, zset, fallback, searching, passed>>
  BY DEF Inv, CleanupClients
<1>2. client.age = OLDEST
  <2>1. client.age \in 0..OLDEST /\ OLDEST = 2 * WINDOW + 1 /\ WINDOW \in Nat
    BY <1>1, Windows DEF TypeOK
  <2>2. client.age > 2 * WINDOW
    BY <1>1 DEF Stale
  <2> QED
    BY <2>1, <2>2
<1>3. MemoryAge = OLDEST /\ MemoryAge' = OLDEST
  BY <1>1, <1>2 DEF MemoryAge, NoRecord
<1>4. ASSUME NEW l \in Limiter
      PROVE  Accounted(OLDEST, 0, LIMIT[l], passed[l]["memory"])
  <2> DEFINE p == passed[l]["memory"]
  <2>1. p \in Counts /\ Accounted(OLDEST, MemoryCount(l), LIMIT[l], p)
    BY <1>1, <1>3, PassedIsCounted DEF Inv, MemoryAccounted, Means
  <2>2. \A a \in Recent : p[a] = 0
    BY <2>1, Windows DEF Accounted
  <2>3. \A a \in Recent : Young(p, OLDEST)[a] = 0
    BY <2>2 DEF Young
  <2>4. Young(p, OLDEST) \in [Recent -> Nat]
    BY <2>1, Windows, PartsAreCounts DEF Counts
  <2>5. Total(Young(p, OLDEST)) = 0
    BY <2>3, <2>4, TotalOfNone
  <2> QED
    BY <2>1, <2>5 DEF Accounted
<1>5. MemoryAccounted'
  BY <1>1, <1>3, <1>4 DEF MemoryAccounted, MemoryCount, NoRecord
<1>6. TypeOK'
  BY <1>1, Windows DEF TypeOK, NoRecord, Unused
<1> QED
  BY <1>1, <1>5, <1>6 DEF Inv, FallbackAccounted, KeyRemembers, SlidingWindowBudget, PassedBy

LEMMA TickKeepsInv == ASSUME Inv, Tick PROVE Inv'
<1>1. TypeOK /\ MemoryAccounted /\ FallbackAccounted /\ KeyRemembers /\ SlidingWindowBudget
  BY DEF Inv
<1>2. /\ client' = IF client.exists THEN [client EXCEPT !.age = Older(@)] ELSE client
      /\ zset' = [l \in Limiter |-> Aged(zset[l])]
      /\ fallback' = [l \in Limiter |-> [fallback[l] EXCEPT !.age = Older(@)]]
      /\ passed' = [l \in Limiter |-> [m \in Means |-> Aged(passed[l][m])]]
      /\ UNCHANGED <<useRedis, searching>>
  BY DEF Tick
<1>3. ASSUME NEW l \in Limiter, NEW m \in Means
      PROVE  /\ passed[l][m] \in Counts /\ passed'[l][m] = Aged(passed[l][m])
             /\ Aged(passed[l][m]) \in Counts
             /\ Total(Aged(passed[l][m])) <= Total(passed[l][m])
  BY <1>1, <1>2, PassedIsCounted, CountsAge
<1>4. ASSUME NEW l \in Limiter
      PROVE  /\ zset[l] \in [0..WINDOW -> Nat] /\ zset'[l] \in [0..WINDOW -> Nat]
             /\ zset'[l] = Aged(zset[l])
             /\ \A a \in Recent : a # 0 => a - 1 \in Recent /\ zset'[l][a] = zset[l][a - 1]
  <2>1. zset[l] \in [0..WINDOW -> Nat] /\ WINDOW \in Nat
    BY <1>1, Windows DEF TypeOK
  <2>2. zset'[l] = Aged(zset[l])
    BY <1>2
  <2>3. \A a \in Recent : a \in 0..WINDOW /\ (a # 0 => a - 1 \in Recent)
    BY Windows
  <2>4. Aged(zset[l]) \in [0..WINDOW -> Nat]
        /\ \A a \in 0..WINDOW : a # 0 => Aged(zset[l])[a] = zset[l][a - 1]
    BY <2>1, AgedCounts
  <2> QED
    BY <2>1, <2>2, <2>3, <2>4
<1>5. ASSUME NEW l \in Limiter
      PROVE  /\ fallback[l] \in [age: Ages, count: Nat]
             /\ fallback'[l] = [fallback[l] EXCEPT !.age = Older(@)]
             /\ fallback'[l] \in [age: Ages, count: Nat]
  <2>1. fallback[l] \in [age: Ages, count: Nat]
        /\ fallback'[l] = [fallback[l] EXCEPT !.age = Older(@)]
    BY <1>1, <1>2 DEF TypeOK
  <2> QED
    BY <2>1, AgesAge
<1>6. TypeOK'
  <2>1. client' \in [age: Ages, count: [Limiter -> Nat], exists: BOOLEAN]
    BY <1>1, <1>2, AgesAge DEF TypeOK
  <2>2. zset' \in [Limiter -> [MemberAges -> Nat]]
    BY <1>2, <1>4, Windows
  <2>3. fallback' \in [Limiter -> [age: Ages, count: Nat]]
    BY <1>2, <1>5
  <2>4. passed' \in [Limiter -> [Means -> [Recent -> Nat]]]
    BY <1>2, <1>3 DEF Counts
  <2> QED
    BY <1>1, <1>2, <2>1, <2>2, <2>3, <2>4 DEF TypeOK
<1>7. MemoryAccounted'
  <2>1. /\ MemoryAge \in Ages /\ MemoryAge' = Older(MemoryAge)
        /\ \A l \in Limiter : MemoryCount(l)' = MemoryCount(l) /\ MemoryCount(l) \in Nat
    <3>1. OLDEST \in Ages /\ Older(OLDEST) = OLDEST
      BY Windows DEF Older
    <3> QED
      BY <1>1, <1>2, <3>1 DEF TypeOK, MemoryAge, MemoryCount
  <2>2. ASSUME NEW l \in Limiter
        PROVE  Accounted(Older(MemoryAge), MemoryCount(l), LIMIT[l],
                         Aged(passed[l]["memory"]))
    <3>1. passed[l]["memory"] \in Counts
      BY <1>3 DEF Means
    <3> QED
      BY <1>1, <2>1, <3>1, Limits, WindowAges DEF MemoryAccounted
  <2> QED
    BY <1>3, <2>1, <2>2 DEF MemoryAccounted, Means
<1>8. FallbackAccounted'
  <2>1. ASSUME NEW l \in Limiter
        PROVE  Accounted(Older(fallback[l].age), fallback[l].count, LIMIT[l],
                         Aged(passed[l]["fallback"]))
    <3>1. /\ passed[l]["fallback"] \in Counts /\ LIMIT[l] \in Nat
          /\ fallback[l].age \in Ages /\ fallback[l].count \in Nat
      BY <1>3, <1>5, Limits DEF Means
    <3> QED
      BY <1>1, <3>1, WindowAges DEF FallbackAccounted
  <2>2. ASSUME NEW l \in Limiter
        PROVE  /\ fallback'[l].age = Older(fallback[l].age)
               /\ fallback'[l].count = fallback[l].count
               /\ passed'[l]["fallback"] = Aged(passed[l]["fallback"])
    BY <1>3, <1>5 DEF Means
  <2> QED
    BY <2>1, <2>2 DEF FallbackAccounted
<1>9. KeyRemembers'
  <2>1. ASSUME NEW l \in Limiter, NEW a \in Recent
        PROVE  passed'[l]["redis"][a] <= zset'[l][a]
    <3>1. passed'[l]["redis"][a] = IF a = 0 THEN 0 ELSE passed[l]["redis"][a - 1]
      BY <1>3, CountsAge DEF Means
    <3>2. CASE a = 0
      <4>1. a \in 0..WINDOW
        BY Windows
      <4>2. zset'[l][a] \in Nat
        BY <1>4, <4>1
      <4> QED
        BY <3>1, <3>2, <4>2
    <3>3. CASE a # 0
      BY <1>1, <1>4, <3>1, <3>3 DEF KeyRemembers
    <3> QED
      BY <3>2, <3>3
  <2> QED
    BY <2>1 DEF KeyRemembers
<1>10. SlidingWindowBudget'
  <2>1. ASSUME NEW l \in Limiter
        PROVE  Total(passed'[l]["redis"]) <= LIMIT[l]
    <3>1. /\ Total(passed'[l]["redis"]) <= Total(passed[l]["redis"])
          /\ passed[l]["redis"] \in [Recent -> Nat] /\ passed'[l]["redis"] \in [Recent -> Nat]
      BY <1>3 DEF Means, Counts
    <3>2. Total(passed'[l]["redis"]) \in Nat /\ Total(passed[l]["redis"]) \in Nat
      BY <3>1, Windows, TotalIsANumber
    <3> QED
      BY <1>1, <3>1, <3>2, Limits DEF SlidingWindowBudget, PassedBy
  <2> QED
    BY <2>1 DEF SlidingWindowBudget, PassedBy
<1> QED
  BY <1>6, <1>7, <1>8, <1>9, <1>10 DEF Inv

LEMMA InitInv == Init => Inv
<1> SUFFICES ASSUME Init PROVE Inv
  OBVIOUS
<1>1. None \in Counts /\ \A a \in Recent : None[a] = 0
  BY DEF None, Counts
<1>2. \A l \in Limiter, m \in Means : passed[l][m] = None
  BY DEF Init
<1>3. TypeOK
  BY <1>1, Windows DEF Init, TypeOK, NoRecord, Unused, Counts
<1>4. ASSUME NEW limit \in Nat
      PROVE  Accounted(OLDEST, 0, limit, None) /\ Total(None) <= limit
  <2>1. Young(None, OLDEST) \in [Recent -> Nat] /\ Old(None, OLDEST) \in [Recent -> Nat]
    BY <1>1, Windows, PartsAreCounts DEF Counts
  <2>2. \A a \in Recent : Young(None, OLDEST)[a] = 0 /\ Old(None, OLDEST)[a] = 0
    BY <1>1 DEF Young, Old
  <2>3. Total(Young(None, OLDEST)) = 0 /\ Total(Old(None, OLDEST)) = 0 /\ Total(None) = 0
    BY <1>1, <2>1, <2>2, TotalOfNone DEF Counts
  <2> QED
    BY <1>1, <2>3 DEF Accounted
<1>5. MemoryAccounted
  BY <1>2, <1>4, Limits DEF Init, MemoryAccounted, MemoryAge, MemoryCount, NoRecord, Means
<1>6. FallbackAccounted
  BY <1>2, <1>4, Limits DEF Init, FallbackAccounted, Means
<1>7. KeyRemembers
  BY <1>1, <1>2, Windows DEF Init, KeyRemembers, Means
<1>8. SlidingWindowBudget
  BY <1>2, <1>4, Limits DEF SlidingWindowBudget, PassedBy, Means
<1> QED
  BY <1>3, <1>5, <1>6, <1>7, <1>8 DEF Inv

LEMMA StepKeepsInv == Inv /\ [Next]_vars => Inv'
<1> SUFFICES ASSUME Inv, [Next]_vars PROVE Inv'
  OBVIOUS
<1>1. CASE InitRedisLimiters
  <2>1. useRedis' \in {"unset", "yes", "no"}
    BY <1>1 DEF InitRedisLimiters
  <2> QED
    BY <1>1, <2>1
       DEF InitRedisLimiters, Inv, TypeOK, MemoryAccounted, MemoryAge, MemoryCount,
           FallbackAccounted, KeyRemembers, SlidingWindowBudget, PassedBy
<1>2. CASE RateLimit \/ SearchRateLimit
  BY <1>2, LimitKeepsInv DEF RateLimit, SearchRateLimit, Limiter
<1>3. CASE CleanupClients
  BY <1>3, CleanupKeepsInv
<1>4. CASE Tick
  BY <1>4, TickKeepsInv
<1>5. CASE UNCHANGED vars
  BY <1>5 DEF vars, Inv, TypeOK, MemoryAccounted, MemoryAge, MemoryCount,
              FallbackAccounted, KeyRemembers, SlidingWindowBudget, PassedBy
<1> QED
  BY <1>1, <1>2, <1>3, <1>4, <1>5 DEF Next

-----------------------------------------------------------------------------
(* Every variable of the two limiters keeps its type.                      *)
THEOREM TypeCorrect == Spec => []TypeOK
<1>1. Inv => TypeOK
  BY DEF Inv
<1> QED
  BY <1>1, InitInv, StepKeepsInv, PTL DEF Spec

(* Whenever it asks, and whatever is forgotten or replaced meanwhile, a    *)
(* client gets at most twice its limit from a fixed window in any stretch  *)
(* of RATE_LIMIT_WINDOW_MS, from rateLimit and from searchRateLimit alike. *)
THEOREM FixedWindowNeverExceedsTwice == Spec => []FixedWindowBudget
<1>1. ASSUME Inv PROVE FixedWindowBudget
  <2>1. ASSUME NEW l \in Limiter
        PROVE  PassedBy(l, "memory") <= 2 * LIMIT[l]
    <3>1. /\ MemoryAge \in Ages /\ MemoryCount(l) \in Nat /\ LIMIT[l] \in Nat
          /\ passed[l]["memory"] \in Counts
      BY <1>1, Windows, Limits, PassedIsCounted
         DEF Inv, TypeOK, MemoryAge, MemoryCount, Means
    <3> QED
      BY <1>1, <3>1, WindowBudget DEF Inv, MemoryAccounted, PassedBy
  <2>2. ASSUME NEW l \in Limiter
        PROVE  PassedBy(l, "fallback") <= 2 * LIMIT[l]
    <3>1. /\ fallback[l].age \in Ages /\ fallback[l].count \in Nat /\ LIMIT[l] \in Nat
          /\ passed[l]["fallback"] \in Counts
      BY <1>1, Limits, PassedIsCounted DEF Inv, TypeOK, Means
    <3> QED
      BY <1>1, <3>1, WindowBudget DEF Inv, FallbackAccounted, PassedBy
  <2> QED
    BY <2>1, <2>2 DEF FixedWindowBudget
<1> QED
  BY <1>1, InitInv, StepKeepsInv, PTL DEF Spec

(* As long as Redis answers, a client gets at most its limit in any        *)
(* stretch of the window, however many pipelines failed in between.        *)
THEOREM SlidingWindowNeverExceedsLimit == Spec => []SlidingWindowBudget
<1>1. Inv => SlidingWindowBudget
  BY DEF Inv
<1> QED
  BY <1>1, InitInv, StepKeepsInv, PTL DEF Spec
=============================================================================

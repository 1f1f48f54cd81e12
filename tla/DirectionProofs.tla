-------------------------- MODULE DirectionProofs --------------------------
(***************************************************************************)
(* Theorems about directions: how one tap gets its own, and what the chain *)
(* of a person's records makes of them.                                    *)
(*                                                                         *)
(* The chain: its order is shown to number the rows, so that ChainOf lists *)
(* them; the report's walk is a recursive function, and an invariant over  *)
(* the places it has read makes its lists statements about neighbours in   *)
(* the chain, which is what the claim card speaks of.  ClaimsInv is the    *)
(* inductive invariant of Claims.                                          *)
(*                                                                         *)
(* The decision: the direction it predicts and the ledger's classification *)
(* agree, a chosen direction is explained, the scan of the documents picks *)
(* the statement that rules, and only a rule that names the venue loosens  *)
(* the baseline.  What the scan has found after so many statements follows *)
(* from the least number for which it would not hold.                      *)
(***************************************************************************)
EXTENDS MCTapDecide, Claims, FiniteSetTheorems, WellFoundedInduction, TLAPS

---------------------------------------------------------------------------
(* Claims: orders of finite sets.                                          *)

\* A nonempty set of numbers has its least.
LEMMA LeastIs ==
  ASSUME NEW S, S \subseteq Nat, S # {}
  PROVE  \E d \in S : \A y \in S : d <= y
<1>1. PICK d \in S : \A y \in S : <<y, d>> \notin OpToRel(<, Nat)
  BY NatLessThanWellFounded, WFMin
<1>2. \A y \in S : ~(y < d)
  BY <1>1 DEF OpToRel
<1> QED
  BY <1>2

(* A strict total order of a finite set, as the set of its pairs.          *)
Ordered(S, R) ==
  /\ IsFiniteSet(S)
  /\ \A x \in S : <<x, x>> \notin R
  /\ \A x, y, z \in S : <<x, y>> \in R /\ <<y, z>> \in R => <<x, z>> \in R
  /\ \A x, y \in S : x = y \/ <<x, y>> \in R \/ <<y, x>> \in R

Lower(S, R, x) == {y \in S : <<y, x>> \in R}
Ranks(S, R) == [x \in S |-> Cardinality(Lower(S, R, x))]

Numbered(S, R, r, n) ==
  /\ n \in Nat
  /\ \A x \in S : r[x] \in 0 .. (n - 1)
  /\ \A x, y \in S : <<x, y>> \in R <=> r[x] < r[y]
  /\ \A x, y \in S : r[x] = r[y] => x = y
  /\ \A i \in 1..n : \E x \in S : r[x] = i - 1

\* The ranks are 0 up to the size less one, in the order.
LEMMA RanksCount ==
  ASSUME NEW S, NEW R, Ordered(S, R)
  PROVE  Numbered(S, R, Ranks(S, R), Cardinality(S))
<1> DEFINE r == Ranks(S, R)
           n == Cardinality(S)
<1>1. n \in Nat
  BY FS_CardinalityType DEF Ordered
<1>2. ASSUME NEW x \in S
      PROVE  /\ IsFiniteSet(Lower(S, R, x)) /\ r[x] = Cardinality(Lower(S, R, x))
             /\ r[x] \in 0 .. (n - 1)
  <2>1. x \notin Lower(S, R, x) /\ Lower(S, R, x) \subseteq S
    BY DEF Lower, Ordered
  <2>2. /\ IsFiniteSet(Lower(S, R, x)) /\ Cardinality(Lower(S, R, x)) <= n
        /\ Cardinality(Lower(S, R, x)) # n
    BY <2>1, FS_Subset DEF Ordered
  <2>3. Cardinality(Lower(S, R, x)) \in Nat
    BY <2>2, FS_CardinalityType
  <2> QED
    BY <1>1, <2>2, <2>3 DEF Ranks
<1>3. ASSUME NEW x \in S, NEW y \in S, <<x, y>> \in R
      PROVE  r[x] < r[y]
  <2>1. Lower(S, R, x) \subseteq Lower(S, R, y)
    BY <1>3 DEF Lower, Ordered
  <2>2. x \in Lower(S, R, y) /\ x \notin Lower(S, R, x)
    BY <1>3 DEF Lower, Ordered
  <2>3. /\ Cardinality(Lower(S, R, x)) <= Cardinality(Lower(S, R, y))
        /\ Cardinality(Lower(S, R, x)) # Cardinality(Lower(S, R, y))
    BY <1>2, <2>1, <2>2, FS_Subset
  <2> QED
    BY <1>1, <1>2, <2>3
<1>4. ASSUME NEW x \in S, NEW y \in S, r[x] = r[y] PROVE x = y
  <2>1. ~(r[x] < r[y]) /\ ~(r[y] < r[x])
    BY <1>1, <1>2, <1>4
  <2> QED
    BY <1>3, <2>1 DEF Ordered
<1>5. ASSUME NEW x \in S, NEW y \in S, r[x] < r[y] PROVE <<x, y>> \in R
  <2>1. ~(r[y] < r[x]) /\ x # y
    BY <1>1, <1>2, <1>5
  <2> QED
    BY <1>3, <2>1 DEF Ordered
<1>6. r \in Injection(S, 0 .. (n - 1))
  <2>1. r \in [S -> 0 .. (n - 1)]
    BY <1>2 DEF Ranks
  <2> QED
    BY <1>4, <2>1 DEF Injection, IsInjective
<1>7. IsFiniteSet(0 .. (n - 1)) /\ Cardinality(0 .. (n - 1)) = n
  BY <1>1, FS_Interval
<1>8. r \in Surjection(S, 0 .. (n - 1))
  BY <1>6, <1>7, FS_Injection DEF Ordered
<1>9. ASSUME NEW i \in 1..n PROVE \E x \in S : r[x] = i - 1
  <2>1. i - 1 \in 0 .. (n - 1)
    BY <1>1
  <2> QED
    BY <1>8, <2>1 DEF Surjection
<1> QED
  BY <1>1, <1>2, <1>3, <1>4, <1>5, <1>9 DEF Numbered

\* A finite nonempty set of integers has its greatest and its least, Max and Min.
LEMMA MaxIs ==
  ASSUME NEW S, IsFiniteSet(S), S \subseteq Int, S # {}
  PROVE  /\ Max(S) \in S /\ \A y \in S : y <= Max(S)
         /\ Min(S) \in S /\ \A y \in S : Min(S) <= y
<1> DEFINE L == {p \in S \X S : p[1] < p[2]}
<1>1. Ordered(S, L)
  BY DEF Ordered
<1>2. PICK R : Ordered(S, R) /\ \A x, y \in S : <<x, y>> \in R <=> x < y
  BY <1>1
<1> DEFINE n == Cardinality(S)
           r == Ranks(S, R)
<1>3. Numbered(S, R, r, n)
  BY <1>2, RanksCount
<1> HIDE DEF r
<1>4. n # 0
  BY FS_EmptySet
<1>5. PICK m \in S : r[m] = n - 1
  <2>1. n \in 1..n
    BY <1>3, <1>4 DEF Numbered
  <2> HIDE DEF n
  <2> QED
    BY <1>3, <2>1 DEF Numbered
<1>6. PICK l \in S : r[l] = 0
  <2>1. 1 \in 1..n /\ 1 - 1 = 0
    BY <1>3, <1>4 DEF Numbered
  <2> HIDE DEF n
  <2> QED
    BY <1>3, <2>1 DEF Numbered
<1>7. ASSUME NEW y \in S PROVE m >= y /\ l <= y
  <2>1. ~(r[m] < r[y]) /\ ~(r[y] < r[l])
    BY <1>3, <1>5, <1>6 DEF Numbered
  <2>2. ~(m < y) /\ ~(y < l)
    BY <1>2, <1>3, <2>1 DEF Numbered
  <2> QED
    BY <2>2
<1>8. Max(S) \in S /\ \A y \in S : Max(S) >= y
  BY <1>7, Zenon DEF Max
<1>9. Min(S) \in S /\ \A y \in S : Min(S) <= y
  BY <1>7, Zenon DEF Min
<1> QED
  BY <1>8, <1>9

---------------------------------------------------------------------------
(* The chain of a set of rows.                                             *)

RowType ==
  [dir : {"in", "out"}, at : Nat, id : Int, written : Nat \ {0}, day : Nat \cup {NoInstant},
   source : {"auto", "employee", "hand"}, blind : BOOLEAN]

(* Finitely many rows, told apart by their place and by their transaction. *)
GoodRows(rs) ==
  /\ IsFiniteSet(rs) /\ rs \subseteq RowType
  /\ \A x, y \in rs : x.at = y.at /\ x.id = y.id => x = y
  /\ \A x, y \in rs : x.written = y.written => x = y

\* A part of them is as good.
LEMMA GoodPart ==
  ASSUME NEW rs, GoodRows(rs), NEW qs, qs \subseteq rs
  PROVE  GoodRows(qs)
<1>1. IsFiniteSet(qs)
  BY FS_Subset DEF GoodRows
<1> QED
  BY <1>1 DEF GoodRows

\* What each field of a row is.
LEMMA RowIs ==
  ASSUME NEW x \in RowType
  PROVE  /\ x.dir \in {"in", "out"} /\ x.at \in Nat /\ x.id \in Int /\ x.written \in Nat \ {0}
         /\ x.day \in Int /\ (x.day # NoInstant => x.day \in Nat)
         /\ x.source \in {"auto", "employee", "hand"}
BY DEF RowType, NoInstant

\* Before is a strict total order of good rows.
LEMMA BeforeIs ==
  ASSUME NEW rs, GoodRows(rs)
  PROVE  /\ \A x \in rs : ~Before(x, x)
         /\ \A x, y, z \in rs : Before(x, y) /\ Before(y, z) => Before(x, z)
         /\ \A x, y \in rs : x = y \/ Before(x, y) \/ Before(y, x)
<1>1. \A x \in rs : x.at \in Nat /\ x.id \in Int
  BY RowIs DEF GoodRows
<1> QED
  BY <1>1 DEF GoodRows, Before

(* ch lists rs in the order of Before.                                     *)
Lists(ch, rs, n) ==
  /\ n = Cardinality(rs) /\ n \in Nat
  /\ DOMAIN ch = 1..n /\ Len(ch) = n
  /\ \A i \in 1..n : ch[i] \in rs
  /\ \A i, j \in 1..n : i < j <=> Before(ch[i], ch[j])
  /\ \A x \in rs : \E i \in 1..n : ch[i] = x

\* The chain lists the rows in order.
LEMMA ChainIs ==
  ASSUME NEW rs, GoodRows(rs)
  PROVE  Lists(ChainOf(rs), rs, Cardinality(rs))
<1> DEFINE L == {p \in rs \X rs : Before(p[1], p[2])}
           ch == ChainOf(rs)
<1>1. /\ \A x \in rs : ~Before(x, x)
      /\ \A x, y, z \in rs : Before(x, y) /\ Before(y, z) => Before(x, z)
      /\ \A x, y \in rs : x = y \/ Before(x, y) \/ Before(y, x)
  BY BeforeIs
<1>2. \A x, y \in rs : <<x, y>> \in L <=> Before(x, y)
  OBVIOUS
<1>3. PICK R : \A x, y \in rs : <<x, y>> \in R <=> Before(x, y)
  BY <1>2
<1>4. Ordered(rs, R)
  <2>1. IsFiniteSet(rs)
    BY DEF GoodRows
  <2>2. /\ \A x \in rs : <<x, x>> \notin R
        /\ \A x, y, z \in rs : <<x, y>> \in R /\ <<y, z>> \in R => <<x, z>> \in R
        /\ \A x, y \in rs : x = y \/ <<x, y>> \in R \/ <<y, x>> \in R
    BY <1>1, <1>3
  <2> QED
    BY <2>1, <2>2 DEF Ordered
<1> DEFINE n == Cardinality(rs)
           r == Ranks(rs, R)
<1>5. Numbered(rs, R, r, n)
  BY <1>4, RanksCount
<1>6. \A x \in rs : r[x] = Cardinality({y \in rs : Before(y, x)})
  <2>1. \A x \in rs : Lower(rs, R, x) = {y \in rs : Before(y, x)}
    BY <1>3 DEF Lower
  <2> QED
    BY <2>1 DEF Ranks
<1>7. ch = [i \in 1..n |-> CHOOSE x \in rs : Cardinality({y \in rs : Before(y, x)}) = i - 1]
  BY DEF ChainOf
<1>n. n = Cardinality(rs)
  OBVIOUS
<1> HIDE DEF ch, n, r
<1>8. ASSUME NEW i \in 1..n PROVE ch[i] \in rs /\ r[ch[i]] = i - 1
  <2>1. PICK x \in rs : r[x] = i - 1
    BY <1>5 DEF Numbered
  <2>2. Cardinality({y \in rs : Before(y, x)}) = i - 1
    BY <1>6, <2>1
  <2>3. ch[i] = CHOOSE z \in rs : Cardinality({y \in rs : Before(y, z)}) = i - 1
    BY <1>7
  <2>4. ch[i] \in rs /\ Cardinality({y \in rs : Before(y, ch[i])}) = i - 1
    BY <2>2, <2>3, Zenon
  <2> QED
    BY <1>6, <2>4
<1>9. DOMAIN ch = 1..n /\ n \in Nat
  BY <1>5, <1>7 DEF Numbered
<1>10. Len(ch) = n
  <2>1. ch \in Seq(rs)
    <3>1. ch \in [1..n -> rs]
      BY <1>7, <1>8
    <3> QED
      BY <1>9, <3>1
  <2> QED
    BY <1>9, <2>1
<1>11. ASSUME NEW i \in 1..n, NEW j \in 1..n PROVE i < j <=> Before(ch[i], ch[j])
  <2>1. Before(ch[i], ch[j]) <=> r[ch[i]] < r[ch[j]]
    BY <1>3, <1>5, <1>8 DEF Numbered
  <2> QED
    BY <1>8, <2>1
<1>12. ASSUME NEW x \in rs PROVE \E i \in 1..n : ch[i] = x
  <2>1. r[x] \in 0 .. (n - 1)
    BY <1>5 DEF Numbered
  <2>2. r[x] + 1 \in 1..n
    BY <1>9, <2>1
  <2>3. ch[r[x] + 1] \in rs /\ r[ch[r[x] + 1]] = r[x]
    BY <1>8, <2>1, <2>2
  <2>4. ch[r[x] + 1] = x
    BY <1>5, <2>3 DEF Numbered
  <2> QED
    BY <2>2, <2>4
<1>13. Lists(ch, rs, n)
  BY <1>n, <1>8, <1>9, <1>10, <1>11, <1>12 DEF Lists
<1> QED
  BY <1>13 DEF ch, n

\* The place of a row in its list.
LEMMA PlaceIs ==
  ASSUME NEW rs, GoodRows(rs), NEW ch, NEW n, Lists(ch, rs, n), NEW x \in rs
  PROVE  /\ IndexOf(ch, x.written) \in 1..n
         /\ ch[IndexOf(ch, x.written)] = x
<1>1. PICK i \in 1..n : ch[i] = x
  BY DEF Lists
<1>2. \E j \in DOMAIN ch : ch[j].written = x.written
  BY <1>1 DEF Lists
<1>3. /\ IndexOf(ch, x.written) \in DOMAIN ch
      /\ ch[IndexOf(ch, x.written)].written = x.written
  BY <1>2, Zenon DEF IndexOf
<1> QED
  BY <1>3 DEF Lists, GoodRows

\* Two places of one row are one.
LEMMA OnePlace ==
  ASSUME NEW rs, GoodRows(rs), NEW ch, NEW n, Lists(ch, rs, n),
         NEW i \in 1..n, NEW j \in 1..n, ch[i] = ch[j]
  PROVE  i = j
<1>1. ~(i < j) /\ ~(j < i)
  BY BeforeIs DEF Lists
<1> QED
  BY <1>1 DEF Lists

\* Neighbours in the list have no row between them, and two rows without one
\* between them are neighbours.
LEMMA Neighbours ==
  ASSUME NEW rs, GoodRows(rs), NEW ch, NEW n, Lists(ch, rs, n),
         NEW i \in 1..n, NEW j \in 1..n, i < j
  PROVE  j = i + 1 <=> ~\E z \in rs : Before(ch[i], z) /\ Before(z, ch[j])
<1>1. n \in Nat /\ \A k, l \in 1..n : k < l <=> Before(ch[k], ch[l])
  BY DEF Lists
<1>2. CASE j = i + 1
  <2>1. ASSUME NEW k \in 1..n, Before(ch[i], ch[k]), Before(ch[k], ch[j]) PROVE FALSE
    <3>1. i < k /\ k < j
      BY <1>1, <2>1
    <3> QED
      BY <1>1, <1>2, <3>1
  <2> QED
    BY <1>2, <2>1 DEF Lists
<1>3. CASE j # i + 1
  <2>1. i + 1 \in 1..n /\ i < i + 1 /\ i + 1 < j
    BY <1>1, <1>3
  <2>2. ch[i + 1] \in rs /\ Before(ch[i], ch[i + 1]) /\ Before(ch[i + 1], ch[j])
    BY <1>1, <2>1 DEF Lists
  <2> QED
    BY <1>3, <2>2
<1> QED
  BY <1>2, <1>3

---------------------------------------------------------------------------
(* The walk over a chain.                                                  *)

\* What a checkout is after a check-in, and after anything else.
LEMMA ClassIs ==
  ASSUME NEW prev, NEW has, NEW at, NEW day
  PROVE  LET class == Rule(NoCutoff)!ClassifyCheckout(prev, has, at, day)
         IN  /\ prev.dir = "in" =>
                  class = IF day # NoInstant /\ prev.at < day THEN "otherDay"
                          ELSE IF at - prev.at > LongestShift THEN "tooLong" ELSE "closes"
             /\ prev.dir # "in" =>
                  class = IF day = NoInstant THEN "unanchored"
                          ELSE IF prev.dir = "out" /\ has /\ prev.writtenLater THEN "extra"
                          ELSE "orphan"
BY DEF Rule!ClassifyCheckout, Rule!NoTime, NoInstant

\* A check-in is closed by a checkout of its day that comes within the longest shift.
LEMMA ClosesIs ==
  ASSUME NEW x, NEW at, NEW day
  PROVE  closesIn(x, at, day) <=> ~(day # NoInstant /\ x < day) /\ ~(at - x > LongestShift)
<1> DEFINE prev == [dir |-> "in", at |-> x, writtenLater |-> FALSE]
<1>1. prev.dir = "in" /\ prev.at = x
  OBVIOUS
<1> HIDE DEF prev
<1>2. Rule(NoCutoff)!ClassifyCheckout(prev, TRUE, at, day)
        = IF day # NoInstant /\ x < day THEN "otherDay"
          ELSE IF at - x > LongestShift THEN "tooLong" ELSE "closes"
  BY <1>1, ClassIs
<1> QED
  BY <1>2 DEF closesIn, prev

(* The report's three lists over the first k of a chain, and the walk after *)
(* it has read them.                                                       *)
LeftOf(ch, k) == {ch[j].written : j \in {j \in 1..k : ch[j].dir = "in" /\ ~ClosedByNext(ch, j)}}
PairsOf(ch, k) ==
  {<<ch[j].written, ch[j + 1].written>> :
     j \in {j \in 1..k : ch[j].dir = "in" /\ ClosedByNext(ch, j)}}
WithoutIn(ch, k) ==
  {ch[j].written :
     j \in {j \in 1..k : ch[j].dir = "out" /\ ClassOf(ch, j) \in {"otherDay", "orphan"}}}
OpenAt(ch, k) == IF k # 0 /\ ch[k].dir = "in" THEN {ch[k].written} ELSE {}
DirAt(ch, k) == IF k = 0 THEN "none" ELSE ch[k].dir
WrittenAt(ch, k) == IF k = 0 THEN 0 ELSE ch[k].written

(* l is the latest check-in of the first k.                                *)
LatestIn(ch, k, l) ==
  /\ l \in Int
  /\ \A j \in 1..k : ch[j].dir = "in" => ch[j].at <= l
  /\ l = NoInstant \/ \E j \in 1..k : ch[j].dir = "in" /\ ch[j].at = l

AccountFields == {"open", "prev", "prevWritten", "lastIn", "pairs", "left", "outWithoutIn"}

Book(acc, ch, k, l) ==
  /\ DOMAIN acc = AccountFields /\ DOMAIN acc.prev = {"dir", "at", "writtenLater"}
  /\ acc.open = OpenAt(ch, k)
  /\ acc.prev.dir = DirAt(ch, k) /\ (k # 0 => acc.prev.at = ch[k].at)
  /\ acc.prevWritten = WrittenAt(ch, k)
  /\ acc.lastIn = l
  /\ acc.pairs = PairsOf(ch, k - 1)
  /\ acc.left = LeftOf(ch, k - 1)
  /\ acc.outWithoutIn = WithoutIn(ch, k)

WalkAt(acc, ch, k) == \E l : LatestIn(ch, k, l) /\ Book(acc, ch, k, l)

(* What a step of the walk leaves: the record it read, and the lists.      *)
ReadIs(then, e, o, l, ps, lf, wo) ==
  /\ DOMAIN then = AccountFields /\ DOMAIN then.prev = {"dir", "at", "writtenLater"}
  /\ then.prev.dir = e.dir /\ then.prev.at = e.at /\ then.prevWritten = e.written
  /\ then.open = o /\ then.lastIn = l /\ then.pairs = ps /\ then.left = lf
  /\ then.outWithoutIn = wo

\* What reading a record changes.
LEMMA ReadKeeps ==
  ASSUME NEW acc, DOMAIN acc = AccountFields, NEW e
  PROVE  ReadIs(Read(acc, e), e, acc.open, acc.lastIn, acc.pairs, acc.left, acc.outWithoutIn)
BY DEF Read, AccountFields, ReadIs

\* What reading a check-in changes.
LEMMA WalkInKeeps ==
  ASSUME NEW acc, DOMAIN acc = AccountFields, NEW e
  PROVE  ReadIs(WalkIn(acc, e), e, {e.written}, e.at, acc.pairs, acc.left \cup acc.open,
                acc.outWithoutIn)
<1>1. PICK got : got = Read(acc, e)
  OBVIOUS
<1>2. ReadIs(got, e, acc.open, acc.lastIn, acc.pairs, acc.left, acc.outWithoutIn)
  BY <1>1, ReadKeeps
<1>3. WalkIn(acc, e)
        = [got EXCEPT !.open = {e.written}, !.left = @ \cup acc.open, !.lastIn = e.at]
  BY <1>1 DEF WalkIn
<1> QED
  BY <1>2, <1>3 DEF ReadIs, AccountFields

\* What reading a checkout changes, by its class.
LEMMA WalkOutKeeps ==
  ASSUME NEW acc, DOMAIN acc = AccountFields, NEW e, NEW class,
         class = Rule(NoCutoff)!ClassifyCheckout(
                   [acc.prev EXCEPT !.writtenLater = acc.prevWritten > e.written],
                   e.day # NoInstant /\ acc.lastIn >= e.day, e.at, e.day)
  PROVE  ReadIs(WalkOut(acc, e), e,
                IF class \in {"closes", "tooLong", "otherDay"} THEN {} ELSE acc.open,
                acc.lastIn,
                IF class = "closes" THEN acc.pairs \cup (acc.open \X {e.written}) ELSE acc.pairs,
                IF class \in {"tooLong", "otherDay"} THEN acc.left \cup acc.open ELSE acc.left,
                IF class \in {"otherDay", "orphan"} THEN acc.outWithoutIn \cup {e.written}
                ELSE acc.outWithoutIn)
<1>1. PICK got : got = Read(acc, e)
  OBVIOUS
<1>2. ReadIs(got, e, acc.open, acc.lastIn, acc.pairs, acc.left, acc.outWithoutIn)
  BY <1>1, ReadKeeps
<1>3. WalkOut(acc, e)
        = CASE class = "closes" ->
                 [got EXCEPT !.open = {}, !.pairs = @ \cup (acc.open \X {e.written})]
            [] class = "tooLong" -> [got EXCEPT !.open = {}, !.left = @ \cup acc.open]
            [] class = "otherDay" ->
                 [got EXCEPT !.open = {}, !.left = @ \cup acc.open,
                             !.outWithoutIn = @ \cup {e.written}]
            [] class = "orphan" -> [got EXCEPT !.outWithoutIn = @ \cup {e.written}]
            [] OTHER -> got
  BY <1>1 DEF WalkOut
<1>4. CASE class = "closes"
  <2>1. WalkOut(acc, e) = [got EXCEPT !.open = {}, !.pairs = @ \cup (acc.open \X {e.written})]
    BY <1>3, <1>4
  <2> QED
    BY <1>2, <1>4, <2>1 DEF ReadIs, AccountFields
<1>5. CASE class = "tooLong"
  <2>1. WalkOut(acc, e) = [got EXCEPT !.open = {}, !.left = @ \cup acc.open]
    BY <1>3, <1>5
  <2> QED
    BY <1>2, <1>5, <2>1 DEF ReadIs, AccountFields
<1>6. CASE class = "otherDay"
  <2>1. WalkOut(acc, e) = [got EXCEPT !.open = {}, !.left = @ \cup acc.open,
                                      !.outWithoutIn = @ \cup {e.written}]
    BY <1>3, <1>6
  <2> QED
    BY <1>2, <1>6, <2>1 DEF ReadIs, AccountFields
<1>7. CASE class = "orphan"
  <2>1. WalkOut(acc, e) = [got EXCEPT !.outWithoutIn = @ \cup {e.written}]
    BY <1>3, <1>7
  <2> QED
    BY <1>2, <1>7, <2>1 DEF ReadIs, AccountFields
<1>8. CASE class \notin {"closes", "tooLong", "otherDay", "orphan"}
  <2>1. WalkOut(acc, e) = got
    BY <1>3, <1>8
  <2> QED
    BY <1>2, <1>8, <2>1
<1> QED
  BY <1>4, <1>5, <1>6, <1>7, <1>8

\* The report's lists, one record more.
LEMMA ListsGrow ==
  ASSUME NEW ch, NEW k \in Nat
  PROVE  /\ LeftOf(ch, k + 1) = LeftOf(ch, k)
              \cup (IF ch[k + 1].dir = "in" /\ ~ClosedByNext(ch, k + 1)
                    THEN {ch[k + 1].written} ELSE {})
         /\ PairsOf(ch, k + 1) = PairsOf(ch, k)
              \cup (IF ch[k + 1].dir = "in" /\ ClosedByNext(ch, k + 1)
                    THEN {<<ch[k + 1].written, ch[k + 1 + 1].written>>} ELSE {})
         /\ WithoutIn(ch, k + 1) = WithoutIn(ch, k)
              \cup (IF ch[k + 1].dir = "out" /\ ClassOf(ch, k + 1) \in {"otherDay", "orphan"}
                    THEN {ch[k + 1].written} ELSE {})
<1>1. 1 .. (k + 1) = (1..k) \cup {k + 1}
  OBVIOUS
<1>2. LeftOf(ch, k + 1) = LeftOf(ch, k)
        \cup (IF ch[k + 1].dir = "in" /\ ~ClosedByNext(ch, k + 1) THEN {ch[k + 1].written} ELSE {})
  BY <1>1 DEF LeftOf
<1>3. PairsOf(ch, k + 1) = PairsOf(ch, k)
        \cup (IF ch[k + 1].dir = "in" /\ ClosedByNext(ch, k + 1)
              THEN {<<ch[k + 1].written, ch[k + 1 + 1].written>>} ELSE {})
  BY <1>1 DEF PairsOf
<1>4. WithoutIn(ch, k + 1) = WithoutIn(ch, k)
        \cup (IF ch[k + 1].dir = "out" /\ ClassOf(ch, k + 1) \in {"otherDay", "orphan"}
              THEN {ch[k + 1].written} ELSE {})
  BY <1>1 DEF WithoutIn
<1> QED
  BY <1>2, <1>3, <1>4

\* The lists of nothing, and those of what is before the first.
LEMMA ListsStart ==
  ASSUME NEW ch
  PROVE  /\ LeftOf(ch, 0) = {} /\ LeftOf(ch, 0 - 1) = {}
         /\ PairsOf(ch, 0) = {} /\ PairsOf(ch, 0 - 1) = {}
         /\ WithoutIn(ch, 0) = {}
<1>1. 1..0 = {} /\ 1..(0 - 1) = {}
  OBVIOUS
<1> QED
  BY <1>1 DEF LeftOf, PairsOf, WithoutIn

\* The report's lists, one record more, counted from the walk.
LEMMA ListsGrowBehind ==
  ASSUME NEW ch, NEW k \in Nat
  PROVE  /\ LeftOf(ch, k) = LeftOf(ch, k - 1)
              \cup (IF k # 0 /\ ch[k].dir = "in" /\ ~ClosedByNext(ch, k)
                    THEN {ch[k].written} ELSE {})
         /\ PairsOf(ch, k) = PairsOf(ch, k - 1)
              \cup (IF k # 0 /\ ch[k].dir = "in" /\ ClosedByNext(ch, k)
                    THEN {<<ch[k].written, ch[k + 1].written>>} ELSE {})
<1>1. CASE k = 0
  BY <1>1, ListsStart
<1>2. CASE k # 0
  <2>1. k - 1 \in Nat /\ (k - 1) + 1 = k
    BY <1>2
  <2>2. PICK i \in Nat : i = k - 1 /\ i + 1 = k
    BY <2>1
  <2>3. /\ LeftOf(ch, i + 1) = LeftOf(ch, i)
             \cup (IF ch[i + 1].dir = "in" /\ ~ClosedByNext(ch, i + 1)
                   THEN {ch[i + 1].written} ELSE {})
        /\ PairsOf(ch, i + 1) = PairsOf(ch, i)
             \cup (IF ch[i + 1].dir = "in" /\ ClosedByNext(ch, i + 1)
                   THEN {<<ch[i + 1].written, ch[i + 1 + 1].written>>} ELSE {})
    BY ListsGrow
  <2> QED
    BY <1>2, <2>2, <2>3
<1> QED
  BY <1>1, <1>2

\* The class the walk gives the next checkout is the one the chain gives it.
LEMMA WalkClass ==
  ASSUME NEW rs, GoodRows(rs), NEW ch, NEW n, Lists(ch, rs, n),
         NEW k \in Nat, k + 1 \in 1..n, NEW l, LatestIn(ch, k, l),
         NEW acc, Book(acc, ch, k, l)
  PROVE  Rule(NoCutoff)!ClassifyCheckout(
           [acc.prev EXCEPT !.writtenLater = acc.prevWritten > ch[k + 1].written],
           ch[k + 1].day # NoInstant /\ acc.lastIn >= ch[k + 1].day, ch[k + 1].at, ch[k + 1].day)
           = ClassOf(ch, k + 1)
<1>1. /\ ch[k + 1] \in rs /\ ch[k + 1].written \in Nat \ {0} /\ ch[k + 1].day \in Int
      /\ ch[k + 1].day # NoInstant => ch[k + 1].day \in Nat
  BY RowIs DEF Lists, GoodRows
<1> DEFINE p == [acc.prev EXCEPT !.writtenLater = acc.prevWritten > ch[k + 1].written]
           q == prevOf(ch, k + 1)
<1>2. /\ p.dir = q.dir
      /\ k # 0 => p.at = q.at /\ p.writtenLater = q.writtenLater
      /\ k = 0 => p.dir = "none"
  <2>1. /\ p.dir = acc.prev.dir /\ p.at = acc.prev.at
        /\ p.writtenLater = (acc.prevWritten > ch[k + 1].written)
    BY DEF Book
  <2>2. CASE k = 0
    <3>1. q = Rule(NoCutoff)!NoPrev
      BY <2>2 DEF prevOf
    <3>2. q.dir = "none"
      BY <3>1 DEF Rule!NoPrev
    <3> QED
      BY <2>1, <2>2, <3>2 DEF Book, DirAt
  <2>3. CASE k # 0
    <3>1. k + 1 # 1 /\ (k + 1) - 1 = k
      BY <2>3
    <3>2. q = [dir |-> ch[k].dir, at |-> ch[k].at,
               writtenLater |-> ch[k].written > ch[k + 1].written]
      BY <3>1 DEF prevOf
    <3> QED
      BY <2>1, <2>3, <3>2 DEF Book, DirAt, WrittenAt
  <2> QED
    BY <2>2, <2>3
<1>3. ch[k + 1].day # NoInstant => (l >= ch[k + 1].day <=> dayHasIn(ch, k + 1))
  <2>1. ASSUME ch[k + 1].day \in Nat, l >= ch[k + 1].day PROVE dayHasIn(ch, k + 1)
    <3>1. l # NoInstant
      BY <1>1, <2>1 DEF NoInstant
    <3>2. PICK j \in 1..k : ch[j].dir = "in" /\ ch[j].at = l
      BY <3>1 DEF LatestIn
    <3>3. j \in 1 .. ((k + 1) - 1)
      OBVIOUS
    <3> QED
      BY <2>1, <3>2, <3>3 DEF dayHasIn
  <2>2. ASSUME ch[k + 1].day \in Nat, dayHasIn(ch, k + 1) PROVE l >= ch[k + 1].day
    <3>1. PICK j \in 1 .. ((k + 1) - 1) : ch[j].dir = "in" /\ ch[j].at >= ch[k + 1].day
      BY <2>2 DEF dayHasIn
    <3>2. j \in 1..k /\ j \in 1..n
      BY DEF Lists
    <3>3. ch[j].at <= l /\ ch[j].at \in Nat /\ l \in Int
      BY <3>1, <3>2, RowIs DEF LatestIn, Lists, GoodRows
    <3> QED
      BY <2>2, <3>1, <3>3
  <2> QED
    BY <1>1, <2>1, <2>2
<1> DEFINE has == ch[k + 1].day # NoInstant /\ acc.lastIn >= ch[k + 1].day
           hasToo == ch[k + 1].day # NoInstant /\ dayHasIn(ch, k + 1)
<1>4. has <=> hasToo
  BY <1>3 DEF Book
<1>5. ClassOf(ch, k + 1) = Rule(NoCutoff)!ClassifyCheckout(q, hasToo, ch[k + 1].at, ch[k + 1].day)
  BY Zenon DEF ClassOf
<1> HIDE DEF p, q, has, hasToo
<1>6. Rule(NoCutoff)!ClassifyCheckout(p, has, ch[k + 1].at, ch[k + 1].day)
        = Rule(NoCutoff)!ClassifyCheckout(q, hasToo, ch[k + 1].at, ch[k + 1].day)
  <2>1. CASE p.dir = "in"
    <3>1. q.dir = "in" /\ p.at = q.at
      BY <1>2, <2>1
    <3>2. Rule(NoCutoff)!ClassifyCheckout(p, has, ch[k + 1].at, ch[k + 1].day)
            = IF ch[k + 1].day # NoInstant /\ p.at < ch[k + 1].day THEN "otherDay"
              ELSE IF ch[k + 1].at - p.at > LongestShift THEN "tooLong" ELSE "closes"
      BY <2>1, ClassIs
    <3>3. Rule(NoCutoff)!ClassifyCheckout(q, hasToo, ch[k + 1].at, ch[k + 1].day)
            = IF ch[k + 1].day # NoInstant /\ q.at < ch[k + 1].day THEN "otherDay"
              ELSE IF ch[k + 1].at - q.at > LongestShift THEN "tooLong" ELSE "closes"
      BY <3>1, ClassIs
    <3> QED
      BY <3>1, <3>2, <3>3
  <2>2. CASE p.dir # "in"
    BY <1>2, <1>4, <2>2, ClassIs
  <2> QED
    BY <2>1, <2>2
<1> QED
  BY <1>5, <1>6 DEF p, has

\* The walk reads one record more.
LEMMA WalkStep ==
  ASSUME NEW rs, GoodRows(rs), NEW ch, NEW n, Lists(ch, rs, n),
         NEW k \in Nat, k + 1 \in 1..n, NEW acc, WalkAt(acc, ch, k)
  PROVE  WalkAt(Walk(acc, ch[k + 1]), ch, k + 1)
<1>1. PICK l : LatestIn(ch, k, l) /\ Book(acc, ch, k, l)
  BY DEF WalkAt
<1>2. /\ acc.open = OpenAt(ch, k) /\ acc.lastIn = l
      /\ acc.pairs = PairsOf(ch, k - 1) /\ acc.left = LeftOf(ch, k - 1)
      /\ acc.outWithoutIn = WithoutIn(ch, k) /\ DOMAIN acc = AccountFields
  BY <1>1 DEF Book
<1> DEFINE e == ch[k + 1]
<1>3. /\ e.dir \in {"in", "out"} /\ e.at \in Nat /\ e.written \in Nat \ {0}
      /\ e.day \in Int /\ e \in rs
  BY RowIs DEF Lists, GoodRows
<1>4. (k + 1) - 1 = k /\ k + 1 # 0 /\ 1 .. (k + 1) = (1..k) \cup {k + 1} /\ n \in Nat /\ k < n
  BY DEF Lists
<1>5. OpenAt(ch, k + 1) = IF e.dir = "in" THEN {e.written} ELSE {}
  BY <1>4 DEF OpenAt
<1>6. DirAt(ch, k + 1) = e.dir /\ WrittenAt(ch, k + 1) = e.written
  BY <1>4 DEF DirAt, WrittenAt
<1>7. /\ LeftOf(ch, k) = LeftOf(ch, k - 1)
           \cup (IF k # 0 /\ ch[k].dir = "in" /\ ~ClosedByNext(ch, k) THEN {ch[k].written} ELSE {})
      /\ PairsOf(ch, k) = PairsOf(ch, k - 1)
           \cup (IF k # 0 /\ ch[k].dir = "in" /\ ClosedByNext(ch, k)
                 THEN {<<ch[k].written, ch[k + 1].written>>} ELSE {})
  BY ListsGrowBehind
<1>8. WithoutIn(ch, k + 1) = WithoutIn(ch, k)
        \cup (IF e.dir = "out" /\ ClassOf(ch, k + 1) \in {"otherDay", "orphan"}
              THEN {e.written} ELSE {})
  BY ListsGrow
<1>9. ClosedByNext(ch, k) <=> e.dir = "out" /\ closesIn(ch[k].at, e.at, e.day)
  BY <1>4 DEF ClosedByNext, Lists
<1> HIDE DEF e
<1>10. CASE e.dir = "in"
  <2>1. Walk(acc, e) = WalkIn(acc, e)
    BY <1>10 DEF Walk
  <2>2. ReadIs(WalkIn(acc, e), e, {e.written}, e.at, acc.pairs, acc.left \cup acc.open,
               acc.outWithoutIn)
    BY <1>2, WalkInKeeps
  <2>3. LeftOf(ch, k) = acc.left \cup acc.open
    BY <1>2, <1>7, <1>9, <1>10 DEF OpenAt
  <2>4. PairsOf(ch, k) = acc.pairs
    BY <1>2, <1>7, <1>9, <1>10
  <2>5. WithoutIn(ch, k + 1) = acc.outWithoutIn
    BY <1>2, <1>8, <1>10
  <2>6. LatestIn(ch, k + 1, e.at)
    <3>1. e.at \in Int /\ ch[k + 1].dir = "in" /\ ch[k + 1].at = e.at
      BY <1>3, <1>10 DEF e
    <3>2. ASSUME NEW j \in 1..k PROVE ch[j].at <= e.at
      <4>1. j \in 1..n /\ j < k + 1
        BY <1>4
      <4>2. Before(ch[j], ch[k + 1])
        BY <4>1 DEF Lists
      <4>3. ch[j].at \in Nat
        BY <4>1, RowIs DEF Lists, GoodRows
      <4> QED
        BY <1>3, <4>2, <4>3 DEF Before, e
    <3> QED
      BY <1>3, <1>4, <3>1, <3>2 DEF LatestIn
  <2>7. Book(Walk(acc, e), ch, k + 1, e.at)
    <3>1. ch[k + 1].at = e.at
      BY DEF e
    <3> QED
      BY <1>4, <1>5, <1>6, <1>10, <2>1, <2>2, <2>3, <2>4, <2>5, <3>1 DEF Book, ReadIs
  <2> QED
    BY <2>6, <2>7 DEF WalkAt, e
<1>11. CASE e.dir = "out"
  <2> DEFINE class == ClassOf(ch, k + 1)
             prev == [acc.prev EXCEPT !.writtenLater = acc.prevWritten > e.written]
  <2>1. Rule(NoCutoff)!ClassifyCheckout(prev, e.day # NoInstant /\ acc.lastIn >= e.day, e.at, e.day)
          = class
    BY <1>1, <1>2, WalkClass DEF e
  <2>2. Walk(acc, e) = WalkOut(acc, e)
    BY <1>11 DEF Walk
  <2>3. LatestIn(ch, k + 1, l)
    <3>1. ch[k + 1].dir # "in"
      BY <1>11 DEF e
    <3> QED
      BY <1>1, <1>4, <3>1 DEF LatestIn
  <2> HIDE DEF class, prev
  <2>6. ReadIs(WalkOut(acc, e), e,
               IF class \in {"closes", "tooLong", "otherDay"} THEN {} ELSE acc.open,
               acc.lastIn,
               IF class = "closes" THEN acc.pairs \cup (acc.open \X {e.written}) ELSE acc.pairs,
               IF class \in {"tooLong", "otherDay"} THEN acc.left \cup acc.open ELSE acc.left,
               IF class \in {"otherDay", "orphan"} THEN acc.outWithoutIn \cup {e.written}
               ELSE acc.outWithoutIn)
    BY <1>2, <2>1, WalkOutKeeps DEF prev
  <2>7. WithoutIn(ch, k + 1)
          = IF class \in {"otherDay", "orphan"} THEN acc.outWithoutIn \cup {e.written}
            ELSE acc.outWithoutIn
    BY <1>2, <1>8, <1>11 DEF class
  <2>8. prev.dir = DirAt(ch, k) /\ (k # 0 => prev.at = ch[k].at)
    BY <1>1 DEF prev, Book
  <2>9. CASE k # 0 /\ ch[k].dir = "in"
    <3>1. prev.dir = "in" /\ prev.at = ch[k].at
      BY <2>8, <2>9 DEF DirAt
    <3>2. class = IF e.day # NoInstant /\ ch[k].at < e.day THEN "otherDay"
                  ELSE IF e.at - ch[k].at > LongestShift THEN "tooLong" ELSE "closes"
      BY <2>1, <3>1, ClassIs
    <3>3. ClosedByNext(ch, k) <=> class = "closes"
      BY <1>9, <1>11, <3>2, ClosesIs
    <3>4. acc.open = {ch[k].written} /\ class \in {"closes", "tooLong", "otherDay"}
      BY <1>2, <2>9, <3>2 DEF OpenAt
    <3>5. LeftOf(ch, k) = IF class \in {"tooLong", "otherDay"} THEN acc.left \cup acc.open
                          ELSE acc.left
      BY <1>2, <1>7, <2>9, <3>3, <3>4
    <3>6. {ch[k].written} \X {e.written} = {<<ch[k].written, e.written>>}
      OBVIOUS
    <3>7. PairsOf(ch, k) = IF class = "closes" THEN acc.pairs \cup (acc.open \X {e.written})
                           ELSE acc.pairs
      BY <1>2, <1>7, <2>9, <3>3, <3>4, <3>6 DEF e
    <3>8. Book(Walk(acc, e), ch, k + 1, l)
      <4>1. ch[k + 1].at = e.at
        BY DEF e
      <4> QED
        BY <1>2, <1>4, <1>5, <1>6, <1>11, <2>2, <2>6, <2>7, <3>4, <3>5, <3>7, <4>1 DEF Book, ReadIs
    <3> QED
      BY <2>3, <3>8 DEF WalkAt, e
  <2>10. CASE ~(k # 0 /\ ch[k].dir = "in")
    <3>1. prev.dir # "in"
      BY <2>8, <2>10 DEF DirAt
    <3>2. class \in {"unanchored", "extra", "orphan"}
      BY <2>1, <3>1, ClassIs
    <3>3. acc.open = {}
      BY <1>2, <2>10 DEF OpenAt
    <3>4. LeftOf(ch, k) = acc.left /\ PairsOf(ch, k) = acc.pairs
      BY <1>2, <1>7, <2>10
    <3>5. Book(Walk(acc, e), ch, k + 1, l)
      <4>1. ch[k + 1].at = e.at
        BY DEF e
      <4> QED
        BY <1>2, <1>4, <1>5, <1>6, <1>11, <2>2, <2>6, <2>7, <3>2, <3>3, <3>4, <4>1 DEF Book, ReadIs
    <3> QED
      BY <2>3, <3>5 DEF WalkAt, e
  <2> QED
    BY <2>9, <2>10
<1> QED
  BY <1>3, <1>10, <1>11

\* The walk's function of the number of records read.
IsWalk(g, ch, n) == g = [k \in 0..n |-> IF k = 0 THEN NothingRead ELSE Walk(g[k - 1], ch[k])]

\* The recursion is well founded.
LEMMA WalkExists ==
  ASSUME NEW ch, NEW n \in Nat
  PROVE  \E g : IsWalk(g, ch, n)
<1> DEFINE Bad == {k \in Nat : ~\E g : IsWalk(g, ch, k)}
<1>1. SUFFICES ASSUME Bad # {} PROVE FALSE
  OBVIOUS
<1>2. PICK k \in Bad : \A y \in Bad : k <= y
  BY <1>1, LeastIs
<1>3. CASE k = 0
  <2>1. IsWalk([i \in 0..0 |-> NothingRead], ch, 0)
    BY DEF IsWalk
  <2> QED
    BY <1>2, <1>3, <2>1
<1>4. CASE k # 0
  <2>1. k - 1 \in Nat /\ k - 1 \notin Bad
    BY <1>2, <1>4
  <2>2. PICK g : IsWalk(g, ch, k - 1)
    BY <2>1
  <2> DEFINE h == [i \in 0..k |-> IF i < k THEN g[i] ELSE Walk(g[k - 1], ch[k])]
  <2>3. ASSUME NEW i \in 0..k
        PROVE  h[i] = IF i = 0 THEN NothingRead ELSE Walk(h[i - 1], ch[i])
    <3>1. CASE i = k
      <4>1. h[i] = Walk(g[k - 1], ch[k]) /\ h[k - 1] = g[k - 1]
        BY <1>4, <2>1, <3>1
      <4> QED
        BY <1>4, <3>1, <4>1
    <3>2. CASE i < k
      <4>1. g[i] = IF i = 0 THEN NothingRead ELSE Walk(g[i - 1], ch[i])
        BY <2>1, <2>2, <3>2 DEF IsWalk
      <4>2. h[i] = g[i] /\ (i # 0 => h[i - 1] = g[i - 1])
        BY <2>1, <3>2
      <4> QED
        BY <4>1, <4>2
    <3> QED
      BY <3>1, <3>2, <1>2
  <2>4. IsWalk(h, ch, k)
    <3>1. h = [i \in 0..k |-> h[i]]
      OBVIOUS
    <3> HIDE DEF h
    <3> QED
      BY <2>3, <3>1, Zenon DEF IsWalk
  <2> QED
    BY <1>2, <2>4
<1> QED
  BY <1>3, <1>4

\* So WalkOf is that function.
LEMMA WalkOfIs ==
  ASSUME NEW ch, Len(ch) \in Nat
  PROVE  IsWalk(WalkOf(ch), ch, Len(ch))
<1> DEFINE F == CHOOSE g : IsWalk(g, ch, Len(ch))
<1>1. IsWalk(F, ch, Len(ch))
  BY WalkExists, Zenon
<1>2. WalkOf(ch) = F
  BY Zenon DEF WalkOf, IsWalk
<1> QED
  BY <1>1, <1>2

\* What the walk has done after k records.
LEMMA WalkHas ==
  ASSUME NEW rs, GoodRows(rs), NEW ch, NEW n, Lists(ch, rs, n), NEW k \in 0..n
  PROVE  WalkAt(WalkOf(ch)[k], ch, k)
<1>1. IsWalk(WalkOf(ch), ch, n) /\ n \in Nat
  BY WalkOfIs DEF Lists
<1>2. PICK g : g = WalkOf(ch)
  OBVIOUS
<1>3. g[0] = NothingRead /\ \A i \in 1..n : g[i] = Walk(g[i - 1], ch[i])
  BY <1>1, <1>2 DEF IsWalk
<1> DEFINE Bad == {i \in 0..n : ~WalkAt(g[i], ch, i)}
<1>4. SUFFICES ASSUME Bad # {} PROVE FALSE
  BY <1>2
<1>5. PICK i \in Bad : \A y \in Bad : i <= y
  <2>1. Bad \subseteq Nat
    BY <1>1
  <2> HIDE DEF Bad
  <2> QED
    BY <1>4, <2>1, LeastIs
<1>6. CASE i = 0
  <2>1. Book(NothingRead, ch, 0, NoInstant)
    <3>1. /\ LeftOf(ch, 0 - 1) = {} /\ PairsOf(ch, 0 - 1) = {} /\ WithoutIn(ch, 0) = {}
      BY ListsStart
    <3>2. OpenAt(ch, 0) = {} /\ DirAt(ch, 0) = "none" /\ WrittenAt(ch, 0) = 0
      BY DEF OpenAt, DirAt, WrittenAt
    <3>3. /\ DOMAIN Rule(NoCutoff)!NoPrev = {"dir", "at", "writtenLater"}
          /\ Rule(NoCutoff)!NoPrev.dir = "none"
      BY DEF Rule!NoPrev
    <3> QED
      BY <3>1, <3>2, <3>3 DEF Book, NothingRead, AccountFields
  <2>2. LatestIn(ch, 0, NoInstant)
    BY DEF LatestIn, NoInstant
  <2> QED
    BY <1>3, <1>5, <1>6, <2>1, <2>2 DEF WalkAt
<1>7. CASE i # 0
  <2>1. PICK j \in Nat : j + 1 = i /\ j = i - 1
    BY <1>1, <1>5, <1>7
  <2>2. j \notin Bad /\ j \in 0..n /\ i \in 1..n
    BY <1>1, <1>5, <2>1
  <2>3. WalkAt(g[j], ch, j)
    BY <2>2
  <2>4. WalkAt(Walk(g[j], ch[j + 1]), ch, j + 1)
    BY <2>1, <2>2, <2>3, WalkStep
  <2>5. g[i] = Walk(g[j], ch[j + 1])
    BY <1>3, <2>1, <2>2
  <2> QED
    BY <1>5, <2>1, <2>4, <2>5
<1> QED
  BY <1>6, <1>7

\* What the report says of a list of rows: its intervals are the neighbours of which the
\* second closes the first, and so for what it lists as left open and without a check-in.
LEMMA ReportIs ==
  ASSUME NEW rs, GoodRows(rs)
  PROVE  LET ch == ChainOf(rs)
             n == Cardinality(rs)
         IN  /\ accumulate(rs).pairs = PairsOf(ch, n)
             /\ accumulate(rs).left = LeftOf(ch, n)
             /\ accumulate(rs).outWithoutIn = WithoutIn(ch, n)
<1> DEFINE ch == ChainOf(rs)
           n == Cardinality(rs)
<1>1. Lists(ch, rs, n)
  BY ChainIs
<1>2. n \in Nat /\ Len(ch) = n /\ n \in 0..n
  BY <1>1 DEF Lists
<1>3. PICK acc : acc = WalkOf(ch)[n]
  OBVIOUS
<1>4. /\ accumulate(rs).pairs = acc.pairs
      /\ accumulate(rs).left = acc.left \cup acc.open
      /\ accumulate(rs).outWithoutIn = acc.outWithoutIn
  BY <1>2, <1>3 DEF accumulate
<1> HIDE DEF ch, n
<1>5. WalkAt(acc, ch, n)
  BY <1>1, <1>2, <1>3, WalkHas
<1>6. PICK l : Book(acc, ch, n, l)
  BY <1>5 DEF WalkAt
<1>7. /\ LeftOf(ch, n) = LeftOf(ch, n - 1)
           \cup (IF n # 0 /\ ch[n].dir = "in" /\ ~ClosedByNext(ch, n) THEN {ch[n].written} ELSE {})
      /\ PairsOf(ch, n) = PairsOf(ch, n - 1)
           \cup (IF n # 0 /\ ch[n].dir = "in" /\ ClosedByNext(ch, n)
                 THEN {<<ch[n].written, ch[n + 1].written>>} ELSE {})
  BY <1>2, ListsGrowBehind
<1>8. ~ClosedByNext(ch, n)
  BY <1>2 DEF ClosedByNext
<1>9. /\ accumulate(rs).pairs = PairsOf(ch, n)
      /\ accumulate(rs).left = LeftOf(ch, n)
      /\ accumulate(rs).outWithoutIn = WithoutIn(ch, n)
  BY <1>4, <1>6, <1>7, <1>8 DEF Book, OpenAt
<1> QED
  BY <1>9 DEF ch, n

\* The claim card and the report agree about any good rows.
LEMMA MissingIsListed ==
  ASSUME NEW rs, GoodRows(rs)
  PROVE  LET ch == ChainOf(rs)
             report == accumulate(rs)
         IN  \A i \in DOMAIN ch : ch[i].day # NoInstant =>
               /\ Missing(ch, i) = "out" <=> ch[i].written \in report.left
               /\ Missing(ch, i) = "in" <=> ch[i].written \in report.outWithoutIn
<1> DEFINE ch == ChainOf(rs)
           n == Cardinality(rs)
<1>1. Lists(ch, rs, n)
  BY ChainIs
<1>2. /\ accumulate(rs).left = LeftOf(ch, n)
      /\ accumulate(rs).outWithoutIn = WithoutIn(ch, n)
  BY ReportIs
<1> HIDE DEF ch, n
<1>3. ASSUME NEW i \in 1..n, NEW j \in 1..n, ch[i].written = ch[j].written PROVE i = j
  <2>1. ch[i] = ch[j]
    BY <1>1, <1>3 DEF Lists, GoodRows
  <2> QED
    BY <1>1, <2>1, OnePlace
<1>4. ASSUME NEW i \in 1..n, ch[i].day # NoInstant
      PROVE  /\ Missing(ch, i) = "out" <=> ch[i].written \in accumulate(rs).left
             /\ Missing(ch, i) = "in" <=> ch[i].written \in accumulate(rs).outWithoutIn
  <2>1. ch[i].dir \in {"in", "out"}
    BY <1>1, RowIs DEF Lists, GoodRows
  <2>2. Missing(ch, i) = "out" <=> ch[i].dir = "in" /\ ~ClosedByNext(ch, i)
    BY <1>4, <2>1 DEF Missing
  <2>3. Missing(ch, i) = "in" <=> ch[i].dir = "out" /\ ClassOf(ch, i) \in {"otherDay", "orphan"}
    BY <1>4, <2>1 DEF Missing
  <2>4. ch[i].written \in LeftOf(ch, n) <=> ch[i].dir = "in" /\ ~ClosedByNext(ch, i)
    BY <1>3 DEF LeftOf
  <2>5. ch[i].written \in WithoutIn(ch, n)
          <=> ch[i].dir = "out" /\ ClassOf(ch, i) \in {"otherDay", "orphan"}
    BY <1>3 DEF WithoutIn
  <2> QED
    BY <1>2, <2>2, <2>3, <2>4, <2>5
<1>5. DOMAIN ch = 1..n
  BY <1>1 DEF Lists
<1> QED
  BY <1>4, <1>5 DEF ch

---------------------------------------------------------------------------
(* Intervals, told by rows rather than places.                             *)

(* y is the next row after x.                                              *)
Follows(rs, x, y) == Before(x, y) /\ ~\E z \in rs : Before(x, z) /\ Before(z, y)
Interval(rs, x, y) ==
  /\ x.dir = "in" /\ y.dir = "out" /\ Follows(rs, x, y)
  /\ closesIn(x.at, y.at, y.day)
IntervalsOf(rs) ==
  {<<p[1].written, p[2].written>> : p \in {p \in rs \X rs : Interval(rs, p[1], p[2])}}

\* The next in the chain is the row that follows.
LEMMA NextFollows ==
  ASSUME NEW rs, GoodRows(rs), NEW ch, NEW n, Lists(ch, rs, n),
         NEW i \in 1..n, NEW j \in 1..n
  PROVE  Follows(rs, ch[i], ch[j]) <=> j = i + 1
<1>1. n \in Nat /\ (i < j <=> Before(ch[i], ch[j]))
  BY DEF Lists
<1>2. CASE i < j
  BY <1>1, <1>2, Neighbours DEF Follows
<1>3. CASE ~(i < j)
  BY <1>1, <1>3 DEF Follows
<1> QED
  BY <1>2, <1>3

\* The report's intervals.
LEMMA PairsAre ==
  ASSUME NEW rs, GoodRows(rs)
  PROVE  accumulate(rs).pairs = IntervalsOf(rs)
<1> DEFINE ch == ChainOf(rs)
           n == Cardinality(rs)
<1>1. Lists(ch, rs, n)
  BY ChainIs
<1>2. accumulate(rs).pairs = PairsOf(ch, n)
  BY ReportIs
<1> HIDE DEF ch, n
<1>3. n \in Nat /\ Len(ch) = n
  BY <1>1 DEF Lists
<1>4. ASSUME NEW p \in PairsOf(ch, n) PROVE p \in IntervalsOf(rs)
  <2>1. PICK i \in 1..n : /\ ch[i].dir = "in" /\ ClosedByNext(ch, i)
                          /\ p = <<ch[i].written, ch[i + 1].written>>
    BY <1>4 DEF PairsOf
  <2>2. i + 1 \in 1..n /\ ch[i + 1].dir = "out" /\ closesIn(ch[i].at, ch[i + 1].at, ch[i + 1].day)
    BY <1>3, <2>1 DEF ClosedByNext
  <2>3. Follows(rs, ch[i], ch[i + 1])
    BY <1>1, <2>2, NextFollows
  <2>4. Interval(rs, ch[i], ch[i + 1]) /\ <<ch[i], ch[i + 1]>> \in rs \X rs
    BY <1>1, <2>1, <2>2, <2>3 DEF Interval, Lists
  <2> QED
    BY <2>1, <2>4 DEF IntervalsOf
<1>5. ASSUME NEW p \in IntervalsOf(rs) PROVE p \in PairsOf(ch, n)
  <2>1. PICK x \in rs, y \in rs : Interval(rs, x, y) /\ p = <<x.written, y.written>>
    BY <1>5 DEF IntervalsOf
  <2>2. PICK i \in 1..n, j \in 1..n : ch[i] = x /\ ch[j] = y
    BY <1>1 DEF Lists
  <2>3. j = i + 1
    BY <1>1, <2>1, <2>2, NextFollows DEF Interval
  <2>4. ch[i].dir = "in" /\ ClosedByNext(ch, i)
    BY <1>3, <2>1, <2>2, <2>3 DEF Interval, ClosedByNext
  <2> QED
    BY <2>1, <2>2, <2>3, <2>4 DEF PairsOf
<1> QED
  BY <1>2, <1>4, <1>5

\* Where a new row between two neighbours stands, and what follows what then.
LEMMA FollowsThen ==
  ASSUME NEW rs, NEW q, GoodRows(rs \cup {q}), q \notin rs, NEW x \in rs, NEW y \in rs
  PROVE  /\ Follows(rs \cup {q}, x, y)
              <=> Follows(rs, x, y) /\ ~(Before(x, q) /\ Before(q, y))
         /\ Follows(rs \cup {q}, x, q)
              <=> Before(x, q) /\ ~\E z \in rs : Before(x, z) /\ Before(z, q)
         /\ Follows(rs \cup {q}, q, y)
              <=> Before(q, y) /\ ~\E z \in rs : Before(q, z) /\ Before(z, y)
<1>1. ~Before(q, q)
  BY BeforeIs
<1> QED
  BY <1>1 DEF Follows

\* A checkout put right after a check-in that nothing closes makes their interval and
\* leaves every other as it was.
LEMMA ClosingOut ==
  ASSUME NEW rs, NEW q, GoodRows(rs \cup {q}), q \notin rs, NEW x \in rs,
         x.dir = "in", q.dir = "out",
         Before(x, q), ~\E z \in rs : Before(x, z) /\ Before(z, q),
         ~\E y \in rs : Interval(rs, x, y),
         closesIn(x.at, q.at, q.day)
  PROVE  IntervalsOf(rs \cup {q}) = IntervalsOf(rs) \cup {<<x.written, q.written>>}
<1> DEFINE all == rs \cup {q}
<1>1. /\ \A y \in all : ~Before(y, y)
      /\ \A u, v, z \in all : Before(u, v) /\ Before(v, z) => Before(u, z)
      /\ \A u, v \in all : u = v \/ Before(u, v) \/ Before(v, u)
  BY BeforeIs
<1>2. Interval(all, x, q)
  BY FollowsThen DEF Interval
<1>3. ASSUME NEW u \in all, NEW v \in all, Interval(all, u, v)
      PROVE  (u = x /\ v = q) \/ (u \in rs /\ v \in rs /\ Interval(rs, u, v))
  <2>1. u \in rs
    BY <1>3 DEF Interval
  <2>2. CASE v = q
    <3>1. Before(u, q) /\ ~\E z \in rs : Before(u, z) /\ Before(z, q)
      BY <1>3, <2>1, <2>2 DEF Interval, Follows
    <3>2. u = x
      BY <1>1, <2>1, <3>1
    <3> QED
      BY <2>2, <3>2
  <2>3. CASE v \in rs
    <3>1. Follows(rs, u, v)
      BY <1>3, <2>1, <2>3, FollowsThen DEF Interval
    <3> QED
      BY <1>3, <2>1, <2>3, <3>1 DEF Interval
  <2> QED
    BY <2>2, <2>3
<1>4. ASSUME NEW u \in rs, NEW v \in rs, Interval(rs, u, v) PROVE Interval(all, u, v)
  <2>1. Follows(rs, u, v) /\ u # x
    BY <1>4 DEF Interval
  <2>2. ~(Before(u, q) /\ Before(q, v))
    <3>1. SUFFICES ASSUME Before(u, q), Before(q, v) PROVE FALSE
      OBVIOUS
    <3>2. Before(u, x)
      BY <1>1, <2>1, <3>1
    <3>3. Before(x, v)
      BY <1>1, <3>1
    <3> QED
      BY <2>1, <3>2, <3>3 DEF Follows
  <2>3. Follows(all, u, v)
    BY <2>1, <2>2, FollowsThen
  <2> QED
    BY <1>4, <2>3 DEF Interval
<1>5. ASSUME NEW p \in IntervalsOf(all) PROVE p \in IntervalsOf(rs) \cup {<<x.written, q.written>>}
  <2>1. PICK u \in all, v \in all : Interval(all, u, v) /\ p = <<u.written, v.written>>
    BY <1>5 DEF IntervalsOf
  <2>2. CASE u = x /\ v = q
    BY <2>1, <2>2
  <2>3. CASE u \in rs /\ v \in rs /\ Interval(rs, u, v)
    <3>1. <<u, v>> \in {w \in rs \X rs : Interval(rs, w[1], w[2])}
      BY <2>3
    <3> QED
      BY <2>1, <3>1 DEF IntervalsOf
  <2> QED
    BY <1>3, <2>1, <2>2, <2>3
<1>6. ASSUME NEW p \in IntervalsOf(rs) PROVE p \in IntervalsOf(all)
  <2>1. PICK u \in rs, v \in rs : Interval(rs, u, v) /\ p = <<u.written, v.written>>
    BY <1>6 DEF IntervalsOf
  <2>2. <<u, v>> \in {w \in all \X all : Interval(all, w[1], w[2])}
    BY <1>4, <2>1
  <2> QED
    BY <2>1, <2>2 DEF IntervalsOf
<1>7. <<x.written, q.written>> \in IntervalsOf(all)
  <2>1. <<x, q>> \in {w \in all \X all : Interval(all, w[1], w[2])}
    BY <1>2
  <2> QED
    BY <2>1 DEF IntervalsOf
<1> QED
  BY <1>5, <1>6, <1>7

\* A check-in put right before a checkout that closes nothing makes their interval and
\* leaves every other as it was.
LEMMA OpeningIn ==
  ASSUME NEW rs, NEW q, GoodRows(rs \cup {q}), q \notin rs, NEW x \in rs,
         x.dir = "out", q.dir = "in",
         Before(q, x), ~\E z \in rs : Before(q, z) /\ Before(z, x),
         ~\E y \in rs : Interval(rs, y, x),
         closesIn(q.at, x.at, x.day)
  PROVE  IntervalsOf(rs \cup {q}) = IntervalsOf(rs) \cup {<<q.written, x.written>>}
<1> DEFINE all == rs \cup {q}
<1>1. /\ \A y \in all : ~Before(y, y)
      /\ \A u, v, z \in all : Before(u, v) /\ Before(v, z) => Before(u, z)
      /\ \A u, v \in all : u = v \/ Before(u, v) \/ Before(v, u)
  BY BeforeIs
<1>2. Interval(all, q, x)
  BY FollowsThen DEF Interval
<1>3. ASSUME NEW u \in all, NEW v \in all, Interval(all, u, v)
      PROVE  (u = q /\ v = x) \/ (u \in rs /\ v \in rs /\ Interval(rs, u, v))
  <2>1. v \in rs
    BY <1>3 DEF Interval
  <2>2. CASE u = q
    <3>1. Before(q, v) /\ ~\E z \in rs : Before(q, z) /\ Before(z, v)
      BY <1>3, <2>1, <2>2 DEF Interval, Follows
    <3>2. v = x
      BY <1>1, <2>1, <3>1
    <3> QED
      BY <2>2, <3>2
  <2>3. CASE u \in rs
    <3>1. Follows(rs, u, v)
      BY <1>3, <2>1, <2>3, FollowsThen DEF Interval
    <3> QED
      BY <1>3, <2>1, <2>3, <3>1 DEF Interval
  <2> QED
    BY <2>2, <2>3
<1>4. ASSUME NEW u \in rs, NEW v \in rs, Interval(rs, u, v) PROVE Interval(all, u, v)
  <2>1. Follows(rs, u, v) /\ v # x
    BY <1>4 DEF Interval
  <2>2. ~(Before(u, q) /\ Before(q, v))
    <3>1. SUFFICES ASSUME Before(u, q), Before(q, v) PROVE FALSE
      OBVIOUS
    <3>2. Before(x, v)
      BY <1>1, <2>1, <3>1
    <3>3. Before(u, x)
      BY <1>1, <3>1
    <3> QED
      BY <2>1, <3>2, <3>3 DEF Follows
  <2>3. Follows(all, u, v)
    BY <2>1, <2>2, FollowsThen
  <2> QED
    BY <1>4, <2>3 DEF Interval
<1>5. ASSUME NEW p \in IntervalsOf(all) PROVE p \in IntervalsOf(rs) \cup {<<q.written, x.written>>}
  <2>1. PICK u \in all, v \in all : Interval(all, u, v) /\ p = <<u.written, v.written>>
    BY <1>5 DEF IntervalsOf
  <2>2. CASE u = q /\ v = x
    BY <2>1, <2>2
  <2>3. CASE u \in rs /\ v \in rs /\ Interval(rs, u, v)
    <3>1. <<u, v>> \in {w \in rs \X rs : Interval(rs, w[1], w[2])}
      BY <2>3
    <3> QED
      BY <2>1, <3>1 DEF IntervalsOf
  <2> QED
    BY <1>3, <2>1, <2>2, <2>3
<1>6. ASSUME NEW p \in IntervalsOf(rs) PROVE p \in IntervalsOf(all)
  <2>1. PICK u \in rs, v \in rs : Interval(rs, u, v) /\ p = <<u.written, v.written>>
    BY <1>6 DEF IntervalsOf
  <2>2. <<u, v>> \in {w \in all \X all : Interval(all, w[1], w[2])}
    BY <1>4, <2>1
  <2> QED
    BY <2>1, <2>2 DEF IntervalsOf
<1>7. <<q.written, x.written>> \in IntervalsOf(all)
  <2>1. <<q, x>> \in {w \in all \X all : Interval(all, w[1], w[2])}
    BY <1>2
  <2> QED
    BY <2>1 DEF IntervalsOf
<1> QED
  BY <1>5, <1>6, <1>7

\* An approval that closes its anchor makes the interval it was shown to make.
LEMMA ApprovalMakesPair ==
  ASSUME NEW rs, NEW q, GoodRows(rs \cup {q}), q \notin rs, NEW x \in rs, NEW c,
         LET ch == ChainOf(rs)
             i == IndexOf(ch, x.written)
         IN  /\ Missing(ch, i) = q.dir /\ Closes(ch, i, q.at, c),
         q.dir = "out" => q.day = NoInstant
  PROVE  IntervalsOf(rs \cup {q})
           = IntervalsOf(rs) \cup {IF q.dir = "out" THEN <<x.written, q.written>>
                                   ELSE <<q.written, x.written>>}
<1> DEFINE ch == ChainOf(rs)
           i == IndexOf(ch, x.written)
           n == Cardinality(rs)
<1>1. GoodRows(rs)
  BY GoodPart
<1>2. Lists(ch, rs, n)
  BY <1>1, ChainIs
<1>3. i \in 1..n /\ ch[i] = x
  BY <1>1, <1>2, PlaceIs
<1>4. Missing(ch, i) = q.dir /\ Closes(ch, i, q.at, c)
  OBVIOUS
<1> HIDE DEF ch, i, n
<1>5. /\ n \in Nat /\ Len(ch) = n
      /\ \A j \in 1..n : ch[j] \in rs /\ ch[j].at \in Nat
      /\ \A z \in rs : z.at \in Nat
      /\ q.at \in Nat /\ q.dir \in {"in", "out"}
  BY <1>1, <1>2, RowIs DEF Lists, GoodRows
<1>6. x.at \in Nat /\ x.dir \in {"in", "out"}
  BY <1>1, RowIs DEF GoodRows
<1>7. \A z \in rs, y \in rs : Before(z, y) => z.at <= y.at
  BY <1>5 DEF Before
<1>8. CASE q.dir = "out"
  <2>1. x.dir = "in" /\ ~ClosedByNext(ch, i)
    BY <1>3, <1>4, <1>6, <1>8 DEF Missing
  <2>2. /\ x.at < q.at /\ closesIn(x.at, q.at, NoInstant)
        /\ i < n => q.at < ch[i + 1].at
    BY <1>3, <1>4, <1>5, <1>8 DEF Closes, ClosesOut
  <2>3. Before(x, q)
    BY <2>2 DEF Before
  <2>4. ASSUME NEW z \in rs, Before(x, z), Before(z, q) PROVE FALSE
    <3>1. PICK j \in 1..n : ch[j] = z
      BY <1>2 DEF Lists
    <3>2. i < j
      BY <1>2, <1>3, <2>4, <3>1 DEF Lists
    <3>3. i < n /\ i + 1 \in 1..n
      BY <1>3, <1>5, <3>2
    <3>4. ch[i + 1].at <= z.at
      <4>1. CASE i + 1 = j
        BY <1>5, <3>1, <4>1
      <4>2. CASE i + 1 # j
        <5>1. i + 1 < j
          BY <1>3, <1>5, <3>2, <4>2
        <5>2. Before(ch[i + 1], ch[j])
          BY <1>2, <3>3, <5>1 DEF Lists
        <5> QED
          BY <1>5, <1>7, <3>1, <3>3, <5>2
      <4> QED
        BY <4>1, <4>2
    <3>5. q.at < z.at
      BY <1>5, <2>2, <3>3, <3>4
    <3> QED
      BY <1>5, <2>4, <3>5 DEF Before
  <2>5. ASSUME NEW y \in rs, Interval(rs, x, y) PROVE FALSE
    <3>1. PICK j \in 1..n : ch[j] = y
      BY <1>2 DEF Lists
    <3>2. j = i + 1
      BY <1>1, <1>2, <1>3, <2>5, <3>1, NextFollows DEF Interval
    <3>3. ClosedByNext(ch, i)
      BY <1>3, <1>5, <2>5, <3>1, <3>2 DEF Interval, ClosedByNext
    <3> QED
      BY <2>1, <3>3
  <2>6. closesIn(x.at, q.at, q.day)
    BY <1>8, <2>2
  <2> QED
    BY <1>8, <2>1, <2>3, <2>4, <2>5, <2>6, ClosingOut
<1>9. CASE q.dir = "in"
  <2>1. x.dir = "out" /\ ClassOf(ch, i) \in {"otherDay", "orphan"}
    BY <1>3, <1>4, <1>6, <1>9 DEF Missing
  <2>2. /\ q.at < x.at /\ closesIn(q.at, x.at, x.day)
        /\ i > 1 => ch[i - 1].at < q.at
    BY <1>3, <1>4, <1>5, <1>9 DEF Closes, ClosesIn
  <2>3. Before(q, x)
    BY <2>2 DEF Before
  <2>4. ASSUME NEW z \in rs, Before(q, z), Before(z, x) PROVE FALSE
    <3>1. PICK j \in 1..n : ch[j] = z
      BY <1>2 DEF Lists
    <3>2. j < i
      BY <1>2, <1>3, <2>4, <3>1 DEF Lists
    <3>3. i > 1 /\ i - 1 \in 1..n
      BY <1>3, <1>5, <3>2
    <3>4. z.at <= ch[i - 1].at
      <4>1. CASE i - 1 = j
        BY <1>5, <3>1, <4>1
      <4>2. CASE i - 1 # j
        <5>1. j < i - 1
          BY <1>3, <1>5, <3>2, <4>2
        <5>2. Before(ch[j], ch[i - 1])
          BY <1>2, <3>3, <5>1 DEF Lists
        <5> QED
          BY <1>5, <1>7, <3>1, <3>3, <5>2
      <4> QED
        BY <4>1, <4>2
    <3>5. z.at < q.at
      BY <1>5, <2>2, <3>3, <3>4
    <3> QED
      BY <1>5, <2>4, <3>5 DEF Before
  <2>5. ASSUME NEW y \in rs, Interval(rs, y, x) PROVE FALSE
    <3>1. PICK j \in 1..n : ch[j] = y
      BY <1>2 DEF Lists
    <3>2. i = j + 1
      BY <1>1, <1>2, <1>3, <2>5, <3>1, NextFollows DEF Interval
    <3>3. i # 1 /\ i - 1 = j
      BY <1>5, <3>2
    <3>4. prevOf(ch, i) = [dir |-> y.dir, at |-> y.at, writtenLater |-> y.written > x.written]
      BY <1>3, <3>1, <3>3 DEF prevOf
    <3>5. prevOf(ch, i).dir = "in" /\ prevOf(ch, i).at = y.at
      BY <2>5, <3>4 DEF Interval
    <3>6. ClassOf(ch, i) = IF x.day # NoInstant /\ y.at < x.day THEN "otherDay"
                           ELSE IF x.at - y.at > LongestShift THEN "tooLong" ELSE "closes"
      BY <1>3, <3>5, ClassIs DEF ClassOf
    <3>7. ~(x.day # NoInstant /\ y.at < x.day)
      BY <2>5, ClosesIs DEF Interval
    <3> QED
      BY <2>1, <3>6, <3>7
  <2> QED
    BY <1>9, <2>1, <2>2, <2>3, <2>4, <2>5, OpeningIn
<1> QED
  BY <1>5, <1>8, <1>9

---------------------------------------------------------------------------
(* Business days.                                                          *)

CutoffsOf(c) == {c + k * Day : k \in 0 .. (Max(Instants) \div Day + 2)}

\* Two cutoffs are a day apart or more.
LEMMA CutoffsApart ==
  ASSUME NEW c \in Offsets
  PROVE  /\ CutoffsOf(c) \subseteq Nat /\ c \in CutoffsOf(c)
         /\ \A x, y \in CutoffsOf(c) : x < y => x + Day <= y
<1>1. Day \in Nat \ {0} /\ c \in Nat
  BY ClaimsAssumption
<1>2. Max(Instants) \in Nat
  <2>1. Instants \subseteq Int
    BY ClaimsAssumption
  <2> QED
    BY <2>1, MaxIs, ClaimsAssumption
<1>3. PICK last : last = Max(Instants) \div Day + 2 /\ last \in Nat
  <2>1. Max(Instants) \div Day \in Nat
    BY <1>1, <1>2
  <2> QED
    BY <2>1
<1>4. CutoffsOf(c) = {c + k * Day : k \in 0..last}
  BY <1>3 DEF CutoffsOf
<1>5. ASSUME NEW j \in Int, NEW k \in Int, j < k PROVE j * Day + Day <= k * Day
  <2>1. PICK d \in Nat : k = j + 1 + d
    <3>1. k - j - 1 \in Nat /\ k = j + 1 + (k - j - 1)
      BY <1>5
    <3> QED
      BY <3>1
  <2>2. k * Day = j * Day + Day + d * Day /\ d * Day \in Nat /\ j * Day \in Int
    BY <1>1, <2>1
  <2> QED
    BY <1>1, <2>2
<1>6. CutoffsOf(c) \subseteq Nat
  <2>1. \A k \in 0..last : k * Day \in Nat
    BY <1>1
  <2> QED
    BY <1>1, <1>4, <2>1
<1>7. c \in CutoffsOf(c)
  <2>1. c + 0 * Day = c /\ 0 \in 0..last
    BY <1>1, <1>3
  <2> QED
    BY <1>4, <2>1
<1>8. ASSUME NEW x \in CutoffsOf(c), NEW y \in CutoffsOf(c), x < y PROVE x + Day <= y
  <2>1. PICK j \in 0..last, k \in 0..last : x = c + j * Day /\ y = c + k * Day
    BY <1>4
  <2>2. j \in Int /\ k \in Int /\ j * Day \in Int /\ k * Day \in Int
    BY <1>1
  <2>3. CASE j < k
    BY <1>1, <1>5, <2>1, <2>2, <2>3
  <2>4. CASE j = k
    BY <1>1, <1>8, <2>1, <2>2, <2>4
  <2>5. CASE k < j
    BY <1>1, <1>5, <1>8, <2>1, <2>2, <2>5
  <2> QED
    BY <2>2, <2>3, <2>4, <2>5
<1> QED
  BY <1>6, <1>7, <1>8

\* The day of an instant starts at the latest cutoff up to it.
LEMMA StartIs ==
  ASSUME NEW at \in Nat, NEW c \in Offsets
  PROVE  /\ DayStart(at, c) \in Int /\ DayStart(at, c) <= at
         /\ DayStart(at, c) = NoInstant \/ DayStart(at, c) \in CutoffsOf(c)
         /\ DayStart(at, c) # NoInstant => DayStart(at, c) \in Nat
         /\ \A x \in CutoffsOf(c) : x <= at => x <= DayStart(at, c)
<1>1. c # NoCutoff
  BY ClaimsAssumption
<1> DEFINE upTo == {x \in CutoffsOf(c) : x <= at}
<1>2. DayStart(at, c) = Max({NoInstant} \cup upTo)
  <2>1. (IF c = NoCutoff THEN {} ELSE {c + k * Day : k \in 0 .. (Max(Instants) \div Day + 2)})
          = CutoffsOf(c)
    BY <1>1 DEF CutoffsOf
  <2>2. Rule(c)!NoTime = NoInstant
    BY DEF Rule!NoTime, NoInstant
  <2>3. \A S : Rule(c)!Max(S) = Max(S)
    BY DEF Rule!Max, Max
  <2>4. DayStart(at, c) = Rule(c)!Max({NoInstant} \cup upTo)
    BY <2>1, <2>2 DEF DayStart, Rule!BusinessDayStart
  <2> QED
    BY <2>3, <2>4
<1>3. CutoffsOf(c) \subseteq Nat
  BY CutoffsApart
<1>4. IsFiniteSet({NoInstant} \cup upTo)
  <2>1. upTo \subseteq 0..at
    BY <1>3
  <2>2. IsFiniteSet(0..at)
    BY FS_Interval
  <2>3. IsFiniteSet(upTo) /\ IsFiniteSet({NoInstant})
    BY <2>1, <2>2, FS_Subset, FS_Singleton
  <2> QED
    BY <2>3, FS_Union
<1>5. {NoInstant} \cup upTo \subseteq Int /\ {NoInstant} \cup upTo # {}
  BY <1>3 DEF NoInstant
<1>6. PICK S : S = {NoInstant} \cup upTo
  OBVIOUS
<1>7. Max(S) \in S /\ \A y \in S : y <= Max(S)
  BY <1>4, <1>5, <1>6, MaxIs
<1> QED
  BY <1>2, <1>3, <1>6, <1>7 DEF NoInstant

\* The moment of a day before its end is in that day.
LEMMA SameDay ==
  ASSUME NEW c \in Offsets, NEW s \in Instants, NEW t \in Instants,
         t < NextDayStart(DayStart(s, c), c)
  PROVE  DayStart(t, c) <= s
<1>1. s \in Nat /\ t \in Nat /\ Day <= s /\ c \in 0 .. (Day - 1) /\ Day \in Nat
      /\ PastTheDay \in Nat /\ PastTheDay < 2 * Day
  BY ClaimsAssumption
<1>2. PICK d : d = DayStart(s, c)
  OBVIOUS
<1>3. d \in CutoffsOf(c) /\ d \in Nat /\ d <= s
  <2>1. c \in CutoffsOf(c) /\ c <= s /\ c \in Nat
    BY <1>1, CutoffsApart
  <2>2. d \in Int /\ c <= d /\ d <= s /\ (d = NoInstant \/ d \in CutoffsOf(c))
    BY <1>1, <1>2, <2>1, StartIs
  <2> QED
    BY <2>1, <2>2 DEF NoInstant
<1>4. PICK e : e = DayStart(d + PastTheDay, c)
  OBVIOUS
<1>5. e \in Int /\ e <= d + PastTheDay /\ (e = NoInstant \/ e \in CutoffsOf(c)) /\ t < e
  <2>1. d + PastTheDay \in Nat
    BY <1>1, <1>3
  <2> QED
    BY <1>2, <1>4, <2>1, StartIs DEF NextDayStart
<1>6. e \in CutoffsOf(c) /\ e \in Nat
  BY <1>1, <1>5, CutoffsApart DEF NoInstant
<1>7. PICK u : u = DayStart(t, c)
  OBVIOUS
<1>8. u \in Int /\ u <= t /\ (u = NoInstant \/ u \in CutoffsOf(c))
  BY <1>1, <1>7, StartIs
<1>9. SUFFICES ASSUME s < u PROVE FALSE
  BY <1>1, <1>7, <1>8
<1>10. u \in CutoffsOf(c) /\ d < u /\ u < e
  BY <1>1, <1>3, <1>5, <1>8, <1>9 DEF NoInstant
<1>11. d + Day <= u /\ u + Day <= e
  BY <1>3, <1>6, <1>10, CutoffsApart
<1> QED
  BY <1>1, <1>3, <1>5, <1>8, <1>11

---------------------------------------------------------------------------
(* The invariant.                                                          *)

TapType == [pc : {"idle", "waiting"}, now : Nat, began : Nat]
WorkType == [pc : {"idle", "waiting"}, anchor : Nat, now : Nat, began : Nat, attempt : 0..Retries]
CardType ==
  [pc : {"none", "result", "shown", "sent"}, of : Nat, anchor : Nat,
   kind : {"none", "in", "out"}, now : Nat]

IsWritten(name) == \E r \in rows : r.written = name

TimeInv == clock \in Instants /\ cutoff \in Offsets \cup {NoCutoff}

(* A record of the engine is not later than the clock.                     *)
RowsInv ==
  /\ GoodRows(rows)
  /\ \A r \in rows : r.at \in Instants
  /\ \A r \in rows : r.source # "hand" => r.at <= clock

(* A tap that waits for its lock is later than every tap recorded.         *)
TapInv ==
  /\ tap \in TapType
  /\ tap.pc = "waiting" =>
       /\ tap.now \in Instants /\ tap.now <= clock
       /\ tap.began # 0 /\ ~IsWritten(tap.began)
       /\ \A r \in rows : r.source # "hand" => r.at <= tap.now

(* The rank of a transaction is its own.                                   *)
WorkInv ==
  /\ mgr \in [Managers -> WorkType]
  /\ \A m \in Managers : mgr[m].pc = "waiting" =>
       /\ mgr[m].now \in Instants
       /\ mgr[m].began # 0 /\ ~IsWritten(mgr[m].began)
       /\ tap.pc = "waiting" => tap.began # mgr[m].began
       /\ \A o \in Managers \ {m} : mgr[o].pc = "waiting" => mgr[o].began # mgr[m].began
       /\ mgr[m].anchor # NoRow => \E k \in claims : k.anchor = mgr[m].anchor

CardInv ==
  /\ card \in CardType
  /\ card.pc = "result" => \E r \in rows : r.written = card.of /\ r.at <= card.now
  /\ card.pc \in {"shown", "sent"} => IsWritten(card.anchor) /\ card.kind \in {"in", "out"}
  /\ card.pc = "sent" => card.now <= clock

ClaimInv ==
  \A k \in claims : k.anchor \in Nat /\ k.kind \in {"in", "out"} /\ IsWritten(k.anchor)

(* Why a checkout the engine predicted is no orphan: a check-in of its day *)
(* is before it, and any checkout between them is younger than it is.      *)
Explained(rs, r) ==
  \E i \in rs :
    /\ i.dir = "in" /\ Before(i, r) /\ i.at >= r.day
    /\ \A o \in rs : o.dir = "out" /\ Before(i, o) /\ Before(o, r) => o.written > r.written

OrphanInv ==
  \/ \E x \in rows : x.blind
  \/ \A r \in rows : r.source = "auto" /\ r.dir = "out" /\ r.day # NoInstant => Explained(rows, r)

ClaimsInv == TimeInv /\ RowsInv /\ TapInv /\ WorkInv /\ CardInv /\ ClaimInv /\ OrphanInv

---------------------------------------------------------------------------
(* What the actions are built from.                                        *)

\* What a function takes on a finite set is finite.
LEMMA ImageFinite ==
  ASSUME NEW S, IsFiniteSet(S), NEW f, DOMAIN f = S, f = [x \in S |-> f[x]]
  PROVE  IsFiniteSet({f[x] : x \in S})
<1> DEFINE T == {f[x] : x \in S}
<1>1. f \in [S -> T]
  OBVIOUS
<1>2. \A t \in T : \E x \in S : f[x] = t
  OBVIOUS
<1> HIDE DEF T
<1>3. f \in Surjection(S, T)
  BY <1>1, <1>2 DEF Surjection
<1>4. IsFiniteSet(T)
  BY <1>3, FS_Surjection
<1> QED
  BY <1>4 DEF T

\* A fresh rank is greater than every other.
LEMMA FreshIs ==
  ASSUME GoodRows(rows), tap \in TapType, mgr \in [Managers -> WorkType]
  PROVE  /\ Fresh \in Nat \ {0}
         /\ \A r \in rows : r.written # Fresh
         /\ tap.began # Fresh
         /\ \A m \in Managers : mgr[m].began # Fresh
<1> DEFINE W == {r.written : r \in rows}
           B == {mgr[m].began : m \in Managers}
<1>1. IsFiniteSet(W) /\ IsFiniteSet(B)
  <2>1. IsFiniteSet(rows) /\ IsFiniteSet(Managers)
    BY ClaimsAssumption DEF GoodRows
  <2> DEFINE w == [r \in rows |-> r.written]
             g == [m \in Managers |-> mgr[m].began]
  <2>2. IsFiniteSet({w[r] : r \in rows})
    <3>1. DOMAIN w = rows /\ w = [r \in rows |-> w[r]]
      OBVIOUS
    <3> HIDE DEF w
    <3> QED
      BY <2>1, <3>1, ImageFinite
  <2>3. IsFiniteSet({g[m] : m \in Managers})
    <3>1. DOMAIN g = Managers /\ g = [m \in Managers |-> g[m]]
      OBVIOUS
    <3> HIDE DEF g
    <3> QED
      BY <2>1, <3>1, ImageFinite
  <2>4. {w[r] : r \in rows} = W /\ {g[m] : m \in Managers} = B
    OBVIOUS
  <2> QED
    BY <2>2, <2>3, <2>4
<1>2. W \subseteq Nat /\ B \subseteq Nat /\ tap.began \in Nat
  <2>1. \A r \in rows : r.written \in Nat
    BY RowIs DEF GoodRows
  <2>2. \A m \in Managers : mgr[m].began \in Nat
    BY DEF WorkType
  <2>3. tap.began \in Nat
    BY DEF TapType
  <2> QED
    BY <2>1, <2>2, <2>3
<1>3. PICK S : S = {0} \cup W \cup {tap.began} \cup B
  OBVIOUS
<1>4. Fresh = 1 + Max(S)
  BY <1>3 DEF Fresh
<1>5. IsFiniteSet(S) /\ S \subseteq Nat /\ S # {}
  <2>1. IsFiniteSet({0}) /\ IsFiniteSet({tap.began})
    BY FS_Singleton
  <2>2. IsFiniteSet({0} \cup W)
    BY <1>1, <2>1, FS_Union
  <2>3. IsFiniteSet({0} \cup W \cup {tap.began})
    BY <2>1, <2>2, FS_Union
  <2>4. IsFiniteSet(S)
    BY <1>1, <1>3, <2>3, FS_Union
  <2> QED
    BY <1>2, <1>3, <2>4
<1>6. Max(S) \in S /\ \A y \in S : y <= Max(S)
  <2>1. S \subseteq Int
    BY <1>5
  <2> QED
    BY <1>5, <2>1, MaxIs
<1>7. /\ \A r \in rows : r.written \in S
      /\ \A m \in Managers : mgr[m].began \in S
      /\ tap.began \in S
  BY <1>3
<1> QED
  <2>1. PICK mx \in Nat : mx = Max(S)
    BY <1>5, <1>6
  <2>2. Fresh = 1 + mx /\ \A y \in S : y \in Nat /\ y <= mx
    BY <1>4, <1>5, <1>6, <2>1
  <2>3. Fresh \in Nat \ {0} /\ Fresh \notin S
    BY <2>1, <2>2
  <2> QED
    BY <1>7, <2>3

\* A free id is nobody's at its instant.
LEMMA FreeIdsAre ==
  ASSUME GoodRows(rows), NEW at, NEW id \in FreeIds(at)
  PROVE  id \in Int /\ \A r \in rows : r.at = at => r.id # id
<1>1. PICK ids : ids = {r.id : r \in {r \in rows : r.at = at}}
  OBVIOUS
<1>2. id \in IF ids = {} THEN {0} ELSE {Min(ids) - 1, Max(ids) + 1}
  BY <1>1 DEF FreeIds
<1>3. IsFiniteSet(ids) /\ ids \subseteq Int
  <2>1. IsFiniteSet({r \in rows : r.at = at})
    BY FS_Subset DEF GoodRows
  <2> DEFINE there == {r \in rows : r.at = at}
             g == [r \in there |-> r.id]
  <2>2. IsFiniteSet(ids)
    <3>1. DOMAIN g = there /\ g = [r \in there |-> g[r]] /\ ids = {g[r] : r \in there}
      BY <1>1
    <3> HIDE DEF g
    <3> QED
      BY <2>1, <3>1, ImageFinite
  <2>3. \A r \in rows : r.id \in Int
    BY RowIs DEF GoodRows
  <2> QED
    <3>1. \A r \in there : r.id \in Int
      BY <2>3
    <3> QED
      BY <1>1, <2>2, <3>1
<1>4. \A r \in rows : r.at = at => r.id \in ids
  BY <1>1
<1>5. CASE ids = {}
  BY <1>2, <1>4, <1>5
<1>6. CASE ids # {}
  <2>1. /\ Max(ids) \in ids /\ \A y \in ids : y <= Max(ids)
        /\ Min(ids) \in ids /\ \A y \in ids : Min(ids) <= y
    BY <1>3, <1>6, MaxIs
  <2> QED
    <3>1. id = Min(ids) - 1 \/ id = Max(ids) + 1
      BY <1>2, <1>6
    <3>2. PICK low \in Int, high \in Int : low = Min(ids) /\ high = Max(ids)
      BY <1>3, <2>1
    <3>3. (id = low - 1 \/ id = high + 1) /\ \A y \in ids : y \in Int /\ low <= y /\ y <= high
      BY <1>3, <2>1, <3>1, <3>2
    <3>4. id \in Int /\ id \notin ids
      BY <3>2, <3>3
    <3> QED
      BY <1>4, <3>4
<1> QED
  BY <1>5, <1>6

\* Rows and one more, of a rank and a place of its own.
LEMMA AddRow ==
  ASSUME NEW rs, GoodRows(rs), NEW q \in RowType, \A r \in rs : r.written # q.written,
         \A r \in rs : r.at = q.at => r.id # q.id
  PROVE  GoodRows(rs \cup {q}) /\ q \notin rs
<1>1. IsFiniteSet(rs \cup {q})
  BY FS_AddElement DEF GoodRows
<1> QED
  BY <1>1 DEF GoodRows

\* What the direction rules give a tap.
LEMMA ResolveIs ==
  ASSUME NEW c, NEW at \in Nat, NEW open \in Int, NEW dayOn \in BOOLEAN, NEW want,
         want \in {"none", "in", "out"}, NEW r,
         r = Rule(c)!resolveDirection(
               [fromClient |-> FALSE, occurredAt |-> at, now |-> at,
                lastOpenIn |-> open, dayOn |-> dayOn, want |-> want])
  PROVE  /\ r.dir \in {"in", "out"} /\ r.source \in {"auto", "employee"}
         /\ r.source = "auto" /\ r.dir = "out" =>
              /\ open # NoInstant /\ open <= at
              /\ dayOn /\ DayStart(at, c) # NoInstant => ~(open < DayStart(at, c))
<1> DEFINE inp == [fromClient |-> FALSE, occurredAt |-> at, now |-> at,
                   lastOpenIn |-> open, dayOn |-> dayOn, want |-> want]
<1>1. PICK p : p = Rule(c)!PredictDirection(at, open, dayOn)
  OBVIOUS
<1>2. Rule(c)!tapInstant(inp) = at /\ inp.lastOpenIn = open /\ inp.dayOn = dayOn /\ inp.want = want
  BY DEF Rule!tapInstant
<1>3. PICK day : day = IF dayOn THEN DayStart(at, c) ELSE NoInstant
  OBVIOUS
<1>4. p = IF open = NoInstant \/ open > at
            THEN [dir |-> "in", dayStart |-> day, leftOpen |-> "none"]
          ELSE IF day # NoInstant /\ open < day
            THEN [dir |-> "in", dayStart |-> day, leftOpen |-> "previousDay"]
          ELSE IF at - open > LongestShift
            THEN [dir |-> "in", dayStart |-> day, leftOpen |-> "stale"]
          ELSE [dir |-> "out", dayStart |-> day, leftOpen |-> "none"]
  <2>1. Rule(c)!NoTime = NoInstant /\ DayStart(at, c) = Rule(c)!BusinessDayStart(at)
    BY DEF Rule!NoTime, NoInstant, DayStart
  <2> QED
    BY <1>1, <1>3, <2>1 DEF Rule!PredictDirection
<1>5. p.dir \in {"in", "out"}
  BY <1>4
<1>6. p.dir = "out" => /\ open # NoInstant /\ ~(open > at)
                       /\ ~(day # NoInstant /\ open < day)
  BY <1>4
<1> HIDE DEF inp
<1>7. /\ r.dir \in {p.dir, want} /\ r.source \in {"auto", "employee"}
      /\ r.source = "auto" => r.dir = p.dir
      /\ r.source # "auto" => r.dir \in {"in", "out"}
  <2>1. PICK chosen \in BOOLEAN :
          chosen <=> want \in {"in", "out"} /\ want # p.dir /\ p.dayStart # Rule(c)!NoTime
    OBVIOUS
  <2>2. r = Rule(c)!resolveDirection(inp)
    BY DEF inp
  <2>3. CASE ~chosen
    <3>1. r = [dir |-> p.dir, source |-> "auto", leftOpen |-> p.leftOpen, missingIn |-> "none"]
      BY <1>1, <1>2, <2>1, <2>2, <2>3 DEF Rule!resolveDirection
    <3> QED
      BY <3>1
  <2>4. CASE chosen /\ want = "in"
    <3>1. r = [dir |-> "in", source |-> "employee", leftOpen |-> "employeeChoice",
               missingIn |-> "none"]
      BY <1>1, <1>2, <2>1, <2>2, <2>4 DEF Rule!resolveDirection
    <3> QED
      BY <2>4, <3>1
  <2>5. CASE chosen /\ want # "in"
    <3>1. \E w : r = [dir |-> "out", source |-> "employee", leftOpen |-> "none", missingIn |-> w]
      BY <1>1, <1>2, <2>1, <2>2, <2>5 DEF Rule!resolveDirection
    <3>2. r.dir = "out" /\ r.source = "employee"
      BY <3>1
    <3>3. want = "out"
      BY <2>1, <2>5
    <3> QED
      BY <3>2, <3>3
  <2> QED
    BY <2>3, <2>4, <2>5
<1> QED
  BY <1>3, <1>5, <1>6, <1>7

\* The check-in that is open at an instant.
LEMMA LastOpenIs ==
  ASSUME GoodRows(rows), NEW at
  PROVE  /\ LastOpenIn(at) \in Int
         /\ LastOpenIn(at) # NoInstant =>
              \E i \in rows :
                /\ i.dir = "in" /\ i.at <= at /\ i.at = LastOpenIn(at)
                /\ ~\E o \in rows : o.dir = "out" /\ Before(i, o) /\ o.at <= at
<1> DEFINE Opens == {i \in rows : /\ i.dir = "in" /\ i.at <= at
                                  /\ ~\E o \in rows : o.dir = "out" /\ Before(i, o) /\ o.at <= at}
<1>1. PICK S : S = {NoInstant} \cup {i.at : i \in Opens}
  OBVIOUS
<1>2. LastOpenIn(at) = Max(S)
  BY <1>1 DEF LastOpenIn
<1>3. IsFiniteSet(S) /\ S \subseteq Int /\ S # {}
  <2>1. IsFiniteSet(Opens)
    BY FS_Subset DEF GoodRows
  <2> DEFINE g == [i \in Opens |-> i.at]
  <2>2. IsFiniteSet({i.at : i \in Opens})
    <3>1. /\ DOMAIN g = Opens /\ g = [i \in Opens |-> g[i]]
          /\ {i.at : i \in Opens} = {g[i] : i \in Opens}
      OBVIOUS
    <3> HIDE DEF g, Opens
    <3> QED
      BY <2>1, <3>1, ImageFinite
  <2>3. IsFiniteSet(S)
    BY <1>1, <2>2, FS_Singleton, FS_Union
  <2>4. \A i \in rows : i.at \in Int
    BY RowIs DEF GoodRows
  <2> QED
    BY <1>1, <2>3, <2>4 DEF NoInstant
<1>4. Max(S) \in S
  BY <1>3, MaxIs
<1>5. Max(S) # NoInstant => \E i \in Opens : i.at = Max(S)
  BY <1>1, <1>4
<1> QED
  BY <1>2, <1>3, <1>4, <1>5

\* A record of the chain that is explained is no orphan, in the report.
LEMMA ExplainedIsNone ==
  ASSUME NEW rs, GoodRows(rs), NEW r \in rs, r.dir = "out", r.day # NoInstant => Explained(rs, r)
  PROVE  r.written \notin accumulate(rs).outWithoutIn
<1> DEFINE ch == ChainOf(rs)
           n == Cardinality(rs)
<1>1. Lists(ch, rs, n)
  BY ChainIs
<1>2. accumulate(rs).outWithoutIn = WithoutIn(ch, n)
  BY ReportIs
<1> HIDE DEF ch, n
<1>3. SUFFICES ASSUME r.written \in WithoutIn(ch, n) PROVE FALSE
  BY <1>2
<1>4. PICK j \in 1..n : ch[j].written = r.written /\ ClassOf(ch, j) \in {"otherDay", "orphan"}
  BY <1>3 DEF WithoutIn
<1>5. ch[j] = r /\ n \in Nat
  BY <1>1, <1>4 DEF Lists, GoodRows
<1>6. prevOf(ch, j) = IF j = 1 THEN Rule(NoCutoff)!NoPrev
                      ELSE [dir |-> ch[j - 1].dir, at |-> ch[j - 1].at,
                            writtenLater |-> ch[j - 1].written > r.written]
  BY <1>5, Zenon DEF prevOf
<1> DEFINE prev == prevOf(ch, j)
<1>7. /\ prev.dir = "in" =>
           ClassOf(ch, j) = IF r.day # NoInstant /\ prev.at < r.day THEN "otherDay"
                            ELSE IF r.at - prev.at > LongestShift THEN "tooLong" ELSE "closes"
      /\ prev.dir # "in" =>
           ClassOf(ch, j) = IF r.day = NoInstant THEN "unanchored"
                            ELSE IF prev.dir = "out" /\ (r.day # NoInstant /\ dayHasIn(ch, j))
                                    /\ prev.writtenLater THEN "extra"
                            ELSE "orphan"
  <2> DEFINE has == r.day # NoInstant /\ dayHasIn(ch, j)
  <2>1. ClassOf(ch, j) = Rule(NoCutoff)!ClassifyCheckout(prev, has, r.at, r.day)
    BY <1>5 DEF ClassOf
  <2>2. has <=> r.day # NoInstant /\ dayHasIn(ch, j)
    OBVIOUS
  <2> HIDE DEF prev, has
  <2>3. prev.dir = "in" =>
          ClassOf(ch, j) = IF r.day # NoInstant /\ prev.at < r.day THEN "otherDay"
                           ELSE IF r.at - prev.at > LongestShift THEN "tooLong" ELSE "closes"
    BY <2>1, ClassIs
  <2>4. prev.dir # "in" =>
          ClassOf(ch, j) = IF r.day = NoInstant THEN "unanchored"
                           ELSE IF prev.dir = "out" /\ has /\ prev.writtenLater THEN "extra"
                           ELSE "orphan"
    BY <2>1, ClassIs
  <2> QED
    BY <2>2, <2>3, <2>4
<1> HIDE DEF prev
<1>8. r.day # NoInstant
  BY <1>4, <1>7
<1>9. PICK i \in rs : /\ i.dir = "in" /\ Before(i, r) /\ i.at >= r.day
                      /\ \A o \in rs : o.dir = "out" /\ Before(i, o) /\ Before(o, r) =>
                           o.written > r.written
  BY <1>8 DEF Explained
<1>10. PICK k \in 1..n : ch[k] = i
  BY <1>1 DEF Lists
<1>11. k < j
  BY <1>1, <1>5, <1>9, <1>10 DEF Lists
<1>12. j # 1 /\ j - 1 \in 1..n /\ k <= j - 1 /\ k \in 1 .. (j - 1)
  BY <1>5, <1>11
<1>13. PICK p \in rs : p = ch[j - 1] /\ p.dir \in {"in", "out"} /\ p.at \in Nat
  BY <1>1, <1>12, RowIs DEF Lists, GoodRows
<1>14. prev.dir = p.dir /\ prev.at = p.at /\ prev.writtenLater = (p.written > r.written)
  BY <1>6, <1>12, <1>13 DEF prev
<1>15. i.at \in Nat /\ r.day \in Int
  BY RowIs DEF GoodRows
<1>16. k = j - 1 \/ Before(i, p)
  <2>1. CASE k < j - 1
    BY <1>1, <1>10, <1>12, <1>13, <2>1 DEF Lists
  <2> QED
    BY <1>12, <2>1
<1>17. Before(p, r)
  <2>1. j - 1 < j
    BY <1>5
  <2> QED
    BY <1>1, <1>5, <1>12, <1>13, <2>1 DEF Lists
<1>18. CASE p.dir = "in"
  <2>1. i.at <= p.at
    BY <1>10, <1>13, <1>15, <1>16 DEF Before
  <2>2. ~(p.at < r.day)
    BY <1>9, <1>13, <1>15, <2>1
  <2> QED
    BY <1>4, <1>7, <1>14, <1>18, <2>2
<1>19. CASE p.dir = "out"
  <2>1. Before(i, p)
    BY <1>9, <1>10, <1>13, <1>16, <1>19
  <2>2. p.written > r.written
    BY <1>9, <1>17, <1>19, <2>1
  <2>3. dayHasIn(ch, j)
    BY <1>5, <1>9, <1>10, <1>12 DEF dayHasIn
  <2> QED
    BY <1>4, <1>7, <1>8, <1>14, <1>19, <2>2, <2>3
<1> QED
  BY <1>13, <1>18, <1>19

\* A new row leaves what was explained explained, unless it is an older checkout in between.
LEMMA StaysExplained ==
  ASSUME NEW rs, NEW q, NEW r \in rs, Explained(rs, r),
         q.dir = "out" /\ Before(q, r) => q.written > r.written
  PROVE  Explained(rs \cup {q}, r)
BY DEF Explained

---------------------------------------------------------------------------
(* The actions keep the invariant.                                         *)

\* No rows are added, nothing written changes hands.
LEMMA RowsStay ==
  ASSUME ClaimsInv, UNCHANGED rows
  PROVE  OrphanInv' /\ GoodRows(rows)' /\ (\A r \in rows : r.at \in Instants)'
BY DEF ClaimsInv, OrphanInv, RowsInv

\* A tap is pressed.
LEMMA PressTapKeeps == ClaimsInv /\ PressTap => ClaimsInv'
<1> SUFFICES ASSUME ClaimsInv, PressTap PROVE ClaimsInv'
  OBVIOUS
<1>1. /\ tap' = [pc |-> "waiting", now |-> clock, began |-> Fresh]
      /\ UNCHANGED <<clock, cutoff, moves, rows, claims, decisions, card, mgr>>
  BY DEF PressTap
<1>2. GoodRows(rows) /\ tap \in TapType /\ mgr \in [Managers -> WorkType]
  BY DEF ClaimsInv, RowsInv, TapInv, WorkInv
<1>3. /\ Fresh \in Nat \ {0} /\ \A r \in rows : r.written # Fresh
      /\ \A m \in Managers : mgr[m].began # Fresh
  <2>1. \A r \in rows : r.written # Fresh
    BY <1>2, FreshIs
  <2>2. \A m \in Managers : mgr[m].began # Fresh
    BY <1>2, FreshIs
  <2>3. Fresh \in Nat \ {0}
    BY <1>2, FreshIs
  <2> QED
    BY <2>1, <2>2, <2>3
<1>4. clock \in Instants /\ clock \in Nat
  BY ClaimsAssumption DEF ClaimsInv, TimeInv
<1> HIDE DEF Fresh
<1>5. tap'.pc = "waiting" /\ tap'.now = clock /\ tap'.began = Fresh /\ tap' \in TapType
  BY <1>1, <1>3, <1>4 DEF TapType
<1>6. TimeInv' /\ RowsInv' /\ CardInv' /\ ClaimInv'
  BY <1>1 DEF ClaimsInv, TimeInv, RowsInv, CardInv, ClaimInv, IsWritten
<1>7. TapInv'
  <2>1. \A r \in rows : r.source # "hand" => r.at <= clock
    BY DEF ClaimsInv, RowsInv
  <2>2. clock <= clock
    BY <1>4
  <2>3. ~IsWritten(Fresh)
    BY <1>3 DEF IsWritten
  <2> QED
    BY <1>1, <1>3, <1>4, <1>5, <2>1, <2>2, <2>3 DEF TapInv, IsWritten
<1>8. WorkInv'
  BY <1>1, <1>3, <1>5 DEF ClaimsInv, WorkInv, IsWritten
<1> QED
  BY <1>1, <1>6, <1>7, <1>8, RowsStay DEF ClaimsInv

\* A tap is recorded.
LEMMA RecordTapKeeps == ClaimsInv /\ RecordTap => ClaimsInv'
<1> SUFFICES ASSUME ClaimsInv, RecordTap PROVE ClaimsInv'
  OBVIOUS
<1> DEFINE choice(want) ==
             Rule(cutoff)!resolveDirection(
               [fromClient |-> FALSE, occurredAt |-> tap.now, now |-> tap.now,
                lastOpenIn |-> LastOpenIn(tap.now), dayOn |-> cutoff # NoCutoff,
                want |-> want])
           written(r, id) ==
             row(r.dir, tap.now, id, tap.began,
                 IF cutoff = NoCutoff THEN NoInstant ELSE DayStart(tap.now, cutoff),
                 r.source, FALSE)
<1>0. PICK want \in {"none", "in", "out"}, id \in FreeIds(tap.now) :
        rows' = rows \cup {written(choice(want), id)}
  BY DEF RecordTap
<1>1. PICK r, q :
        /\ r = choice(want) /\ q = written(r, id)
        /\ rows' = rows \cup {q}
  BY <1>0
<1>2. /\ tap.pc = "waiting" /\ tap' = NoTap
      /\ \A x \in rows : x.at # tap.now
      /\ card' = IF card.pc = "sent" THEN card
                 ELSE [NoCard EXCEPT !.pc = "result", !.of = tap.began, !.now = tap.now]
      /\ UNCHANGED <<clock, cutoff, moves, claims, decisions, mgr>>
  BY DEF RecordTap
<1>3. /\ GoodRows(rows) /\ tap \in TapType
      /\ tap.now \in Instants /\ tap.now \in Nat /\ tap.now <= clock
      /\ tap.began \in Nat \ {0} /\ ~IsWritten(tap.began)
      /\ \A x \in rows : x.source # "hand" => x.at <= tap.now
      /\ cutoff \in Offsets \cup {NoCutoff}
      /\ \A x \in rows : x.at \in Nat
  <2>1. tap.now \in Instants /\ \A x \in rows : x.at \in Instants
    BY <1>2 DEF ClaimsInv, TapInv, RowsInv
  <2>2. Instants \subseteq Nat
    BY ClaimsAssumption
  <2> QED
    BY <1>2, <2>1, <2>2 DEF ClaimsInv, TimeInv, RowsInv, TapInv, TapType
<1> DEFINE day == IF cutoff = NoCutoff THEN NoInstant ELSE DayStart(tap.now, cutoff)
           open == LastOpenIn(tap.now)
<1>4. day \in Nat \cup {NoInstant} /\ (day # NoInstant => cutoff # NoCutoff)
  <2>1. CASE cutoff = NoCutoff
    BY <2>1
  <2>2. CASE cutoff # NoCutoff
    <3>1. cutoff \in Offsets
      BY <1>3, <2>2
    <3> QED
      BY <1>3, <2>2, <3>1, StartIs
  <2> QED
    BY <2>1, <2>2
<1>5. open \in Int
  BY <1>3, LastOpenIs
<1>6. id \in Int /\ \A x \in rows : x.at = tap.now => x.id # id
  BY <1>1, <1>3, FreeIdsAre
<1> HIDE DEF open
<1>7. /\ r.dir \in {"in", "out"} /\ r.source \in {"auto", "employee"}
      /\ r.source = "auto" /\ r.dir = "out" /\ day # NoInstant =>
           open # NoInstant /\ open <= tap.now /\ open >= day
  <2>1. (cutoff # NoCutoff) \in BOOLEAN
    OBVIOUS
  <2>2. r = Rule(cutoff)!resolveDirection(
              [fromClient |-> FALSE, occurredAt |-> tap.now, now |-> tap.now,
               lastOpenIn |-> open, dayOn |-> cutoff # NoCutoff, want |-> want])
    BY <1>1 DEF open
  <2>3. /\ r.dir \in {"in", "out"} /\ r.source \in {"auto", "employee"}
        /\ r.source = "auto" /\ r.dir = "out" =>
             /\ open # NoInstant /\ open <= tap.now
             /\ cutoff # NoCutoff /\ DayStart(tap.now, cutoff) # NoInstant =>
                  ~(open < DayStart(tap.now, cutoff))
    <3>1. PICK at \in Nat, dayOn \in BOOLEAN : at = tap.now /\ dayOn = (cutoff # NoCutoff)
      BY <1>3, <2>1
    <3>2. r = Rule(cutoff)!resolveDirection(
                [fromClient |-> FALSE, occurredAt |-> at, now |-> at,
                 lastOpenIn |-> open, dayOn |-> dayOn, want |-> want])
      BY <2>2, <3>1
    <3>3. want \in {"none", "in", "out"}
      OBVIOUS
    <3>4. /\ r.dir \in {"in", "out"} /\ r.source \in {"auto", "employee"}
          /\ r.source = "auto" /\ r.dir = "out" =>
               /\ open # NoInstant /\ open <= at
               /\ dayOn /\ DayStart(at, cutoff) # NoInstant => ~(open < DayStart(at, cutoff))
      BY <1>5, <3>2, <3>3, ResolveIs
    <3> QED
      BY <3>1, <3>4
  <2>4. ASSUME day # NoInstant, ~(open < DayStart(tap.now, cutoff)) PROVE open >= day
    BY <1>4, <1>5, <2>4
  <2> QED
    BY <1>4, <2>3, <2>4
<1>8. q = [dir |-> r.dir, at |-> tap.now, id |-> id, written |-> tap.began, day |-> day,
           source |-> r.source, blind |-> FALSE]
  BY <1>1 DEF row
<1> HIDE DEF day
<1>9. q \in RowType
  BY <1>3, <1>4, <1>6, <1>7, <1>8 DEF RowType
<1>10. /\ q.dir = r.dir /\ q.at = tap.now /\ q.id = id /\ q.written = tap.began /\ q.day = day
       /\ q.source = r.source
  BY <1>8
<1>11. GoodRows(rows \cup {q})
  BY <1>3, <1>6, <1>9, <1>10, AddRow DEF IsWritten
<1>12. TimeInv' /\ RowsInv'
  BY <1>1, <1>2, <1>3, <1>10, <1>11 DEF ClaimsInv, TimeInv, RowsInv
<1>13. TapInv'
  BY <1>2 DEF TapInv, NoTap, NoRow, TapType
<1>14. \A w : w # tap.began => (IsWritten(w)' <=> IsWritten(w))
  BY <1>1, <1>10 DEF IsWritten
<1>15. WorkInv'
  <2>1. tap'.pc = "idle"
    BY <1>2 DEF NoTap
  <2>2. \A m \in Managers : mgr[m].pc = "waiting" =>
          mgr[m].began # tap.began /\ ~IsWritten(mgr[m].began)
    BY <1>2 DEF ClaimsInv, WorkInv
  <2>3. ASSUME NEW m \in Managers, mgr[m].pc = "waiting" PROVE ~IsWritten(mgr[m].began)'
    <3>1. mgr[m].began # tap.began /\ ~IsWritten(mgr[m].began)
      BY <2>2, <2>3
    <3>2. mgr' = mgr
      BY <1>2
    <3> QED
      BY <1>1, <1>10, <3>1, <3>2 DEF IsWritten
  <2> QED
    BY <1>2, <2>1, <2>3 DEF ClaimsInv, WorkInv, IsWritten
<1>16. CardInv' /\ ClaimInv'
  <2>1. \A w : IsWritten(w) => IsWritten(w)'
    BY <1>1 DEF IsWritten
  <2>2. CASE card.pc = "sent"
    BY <1>2, <2>1, <2>2 DEF ClaimsInv, CardInv, ClaimInv, IsWritten
  <2>3. CASE card.pc # "sent"
    <3>1. card' = [NoCard EXCEPT !.pc = "result", !.of = tap.began, !.now = tap.now]
      BY <1>2, <2>3
    <3>2. card' \in CardType /\ card'.pc = "result" /\ card'.of = tap.began /\ card'.now = tap.now
      BY <1>3, <3>1 DEF NoCard, NoRow, CardType
    <3>3. q \in rows'
      BY <1>1
    <3>4. q.written = card'.of
      BY <1>10, <3>2
    <3>5. q.at <= card'.now
      <4>1. q.at = tap.now /\ card'.now = tap.now /\ tap.now \in Nat
        BY <1>3, <1>10, <3>2
      <4> QED
        BY <4>1
    <3> QED
      BY <1>2, <2>1, <3>2, <3>3, <3>4, <3>5 DEF ClaimsInv, CardInv, ClaimInv, IsWritten
  <2> QED
    BY <2>2, <2>3
<1>17. OrphanInv'
  <2>1. CASE \E x \in rows : x.blind
    BY <1>1, <2>1 DEF OrphanInv
  <2>2. ASSUME ~\E x \in rows : x.blind PROVE OrphanInv'
    <3>1. \A x \in rows : x.source = "auto" /\ x.dir = "out" /\ x.day # NoInstant =>
            Explained(rows, x)
      BY <2>2 DEF ClaimsInv, OrphanInv
    <3>2. ASSUME NEW x \in rows, x.source = "auto", x.dir = "out", x.day # NoInstant
          PROVE  Explained(rows \cup {q}, x)
      <4>1. x.at <= tap.now /\ x.at # tap.now /\ x.at \in Nat
        BY <1>2, <1>3, <3>2
      <4>2. ~Before(q, x)
        BY <1>3, <1>10, <4>1 DEF Before
      <4> QED
        BY <3>1, <3>2, <4>2, StaysExplained
    <3>3. ASSUME q.source = "auto", q.dir = "out", q.day # NoInstant
          PROVE  Explained(rows \cup {q}, q)
      <4>1. open # NoInstant /\ open <= tap.now /\ open >= q.day
        BY <1>7, <1>10, <3>3
      <4>2. PICK i \in rows :
              /\ i.dir = "in" /\ i.at <= tap.now /\ i.at = open
              /\ ~\E o \in rows : o.dir = "out" /\ Before(i, o) /\ o.at <= tap.now
        BY <1>3, <4>1, LastOpenIs DEF open
      <4>3. i.at # tap.now /\ i.at \in Nat
        BY <1>2, <1>3
      <4>4. Before(i, q)
        BY <1>3, <1>10, <4>2, <4>3 DEF Before
      <4>5. ASSUME NEW o \in rows \cup {q}, o.dir = "out", Before(i, o), Before(o, q)
            PROVE  FALSE
        <5>1. o # q
          BY <1>11, <4>5, BeforeIs
        <5>2. o \in rows /\ o.at <= tap.now
          BY <1>10, <4>5, <5>1, <1>3 DEF Before
        <5> QED
          BY <4>2, <4>5, <5>2
      <4> QED
        BY <4>1, <4>2, <4>4, <4>5 DEF Explained
    <3> QED
      BY <1>1, <3>2, <3>3 DEF OrphanInv
  <2> QED
    BY <2>1, <2>2
<1> QED
  BY <1>12, <1>13, <1>15, <1>16, <1>17 DEF ClaimsInv

\* A tap that leaves nothing.
LEMMA TapLeavesNothingKeeps == ClaimsInv /\ TapLeavesNothing => ClaimsInv'
<1> SUFFICES ASSUME ClaimsInv, TapLeavesNothing PROVE ClaimsInv'
  OBVIOUS
<1>1. tap' = NoTap /\ UNCHANGED <<clock, cutoff, moves, rows, claims, decisions, card, mgr>>
  BY DEF TapLeavesNothing
<1>2. TimeInv' /\ RowsInv' /\ CardInv' /\ ClaimInv'
  BY <1>1 DEF ClaimsInv, TimeInv, RowsInv, CardInv, ClaimInv, IsWritten
<1>3. TapInv'
  BY <1>1 DEF TapInv, NoTap, NoRow, TapType
<1>4. tap'.pc = "idle"
  BY <1>1 DEF NoTap
<1>5. WorkInv'
  BY <1>1, <1>4 DEF ClaimsInv, WorkInv, IsWritten
<1> QED
  BY <1>1, <1>2, <1>3, <1>5, RowsStay DEF ClaimsInv

\* Only the card changes.
LEMMA CardKeeps ==
  ASSUME ClaimsInv, UNCHANGED <<clock, cutoff, rows, claims, tap, mgr>>, CardInv'
  PROVE  ClaimsInv'
<1>1. TimeInv' /\ RowsInv' /\ TapInv' /\ WorkInv' /\ ClaimInv'
  BY DEF ClaimsInv, TimeInv, RowsInv, TapInv, WorkInv, ClaimInv, IsWritten
<1> QED
  BY <1>1, RowsStay DEF ClaimsInv

\* No card.
LEMMA NoCardIs == card' = NoCard => CardInv'
BY DEF CardInv, CardType, NoCard, NoRow

\* What a record misses.
LEMMA MissingIs ==
  ASSUME NEW ch, NEW i, Missing(ch, i) # "none"
  PROVE  Missing(ch, i) \in {"in", "out"}
BY DEF Missing

\* A card is offered.
LEMMA OfferKeeps == ClaimsInv /\ Offer => ClaimsInv'
<1> SUFFICES ASSUME ClaimsInv, Offer PROVE ClaimsInv'
  OBVIOUS
<1> DEFINE rs == {r \in rows : r.at <= card.now}
           ch == ChainOf(rs)
           n == Cardinality(rs)
<1>1. UNCHANGED <<clock, cutoff, moves, rows, claims, decisions, tap, mgr>> /\ card.pc = "result"
  BY DEF Offer
<1>2. CASE card' = NoCard
  BY <1>1, <1>2, NoCardIs, CardKeeps
<1>3. CASE \E i \in Offered(ch, IndexOf(ch, card.of), cutoff, clock) :
             card' = [NoCard EXCEPT !.pc = "shown", !.anchor = ch[i].written,
                                    !.kind = Missing(ch, i)]
  <2>1. GoodRows(rs)
    BY GoodPart DEF ClaimsInv, RowsInv
  <2>2. Lists(ch, rs, n)
    BY <2>1, ChainIs
  <2>3. PICK x \in rs : x.written = card.of
    BY <1>1 DEF ClaimsInv, CardInv
  <2>4. PICK t \in 1..n : t = IndexOf(ch, card.of)
    BY <2>1, <2>2, <2>3, PlaceIs
  <2>5. PICK i \in Offered(ch, t, cutoff, clock) :
          card' = [NoCard EXCEPT !.pc = "shown", !.anchor = ch[i].written, !.kind = Missing(ch, i)]
    BY <1>3, <2>4
  <2> HIDE DEF ch, n
  <2>6. n \in Nat
    BY <2>2 DEF Lists
  <2>7. i \in Candidates(ch, t, cutoff, clock)
    <3>1. PICK all : all = Candidates(ch, t, cutoff, clock)
      OBVIOUS
    <3>2. PICK ins : ins = {k \in all : Missing(ch, k) = "in"}
      OBVIOUS
    <3>3. i \in IF ins # {} THEN {Max(ins)} ELSE IF all # {} THEN {Max(all)} ELSE {}
      BY <2>5, <3>1, <3>2 DEF Offered
    <3>4. all \subseteq 1..t /\ ins \subseteq all
      BY <3>1, <3>2 DEF Candidates
    <3>5. IsFiniteSet(1..t) /\ 1..t \subseteq Int
      BY <2>6, FS_Interval
    <3>6. IsFiniteSet(all) /\ IsFiniteSet(ins) /\ all \subseteq Int /\ ins \subseteq Int
      BY <3>4, <3>5, FS_Subset
    <3>7. CASE ins # {}
      BY <3>1, <3>3, <3>4, <3>6, <3>7, MaxIs
    <3>8. CASE ins = {} /\ all # {}
      BY <3>1, <3>3, <3>4, <3>6, <3>8, MaxIs
    <3> QED
      BY <3>3, <3>7, <3>8
  <2>8. Missing(ch, i) \in {"in", "out"} /\ i \in 1..n
    BY <2>6, <2>7, MissingIs DEF Candidates
  <2>9. ch[i] \in rows /\ ch[i].written \in Nat
    BY <2>1, <2>2, <2>8, RowIs DEF Lists, GoodRows
  <2>10. /\ card' \in CardType /\ card'.pc = "shown" /\ card'.anchor = ch[i].written
         /\ card'.kind = Missing(ch, i)
    BY <2>5, <2>8, <2>9 DEF CardType, NoCard, NoRow
  <2>11. CardInv'
    BY <1>1, <2>8, <2>9, <2>10 DEF CardInv, IsWritten
  <2> QED
    BY <1>1, <2>11, CardKeeps
<1> QED
  BY <1>2, <1>3 DEF Offer

\* A claim is sent.
LEMMA SendClaimKeeps == ClaimsInv /\ SendClaim => ClaimsInv'
<1> SUFFICES ASSUME ClaimsInv, SendClaim PROVE ClaimsInv'
  OBVIOUS
<1>1. /\ card.pc = "shown" /\ card' = [card EXCEPT !.pc = "sent", !.now = clock]
      /\ UNCHANGED <<clock, cutoff, moves, rows, claims, decisions, tap, mgr>>
  BY DEF SendClaim
<1>2. card \in CardType /\ clock \in Nat
  BY ClaimsAssumption DEF ClaimsInv, CardInv, TimeInv
<1>3. /\ card' \in CardType /\ card'.pc = "sent" /\ card'.now = clock
      /\ card'.anchor = card.anchor /\ card'.kind = card.kind
  BY <1>1, <1>2 DEF CardType
<1>4. CardInv'
  BY <1>1, <1>2, <1>3 DEF ClaimsInv, CardInv, IsWritten
<1> QED
  BY <1>1, <1>4, CardKeeps

\* No claim.
LEMMA NoClaimKeeps == ClaimsInv /\ NoClaim => ClaimsInv'
BY NoCardIs, CardKeeps DEF NoClaim

\* Only a check-in of a business day misses a checkout.
LEMMA MissingOut ==
  ASSUME NEW ch, NEW i, Missing(ch, i) = "out"
  PROVE  ch[i].day # NoInstant /\ ch[i].dir # "out"
<1>1. CASE ch[i].day = NoInstant
  <2>1. Missing(ch, i) = "none"
    BY <1>1 DEF Missing
  <2> QED
    BY <2>1
<1>2. CASE ch[i].day # NoInstant /\ ch[i].dir = "out"
  <2>1. Missing(ch, i) \in {"none", "in"}
    BY <1>2 DEF Missing
  <2> QED
    BY <2>1
<1> QED
  BY <1>1, <1>2

\* A claim that is admitted closes its anchor, when it is written.
LEMMA AdmittedCloses ==
  ASSUME ClaimsInv, NEW x \in rows, NEW kind \in {"in", "out"}, NEW at, NEW now \in Nat,
         now <= clock, Admits(x.written, kind, at, now)
  PROVE  LET ch == ChainOf(rows)
             i == IndexOf(ch, x.written)
         IN  /\ Missing(ch, i) = kind /\ ~DayCutShort(ch, i, cutoff)
             /\ at \in WindowOf(ch, i, cutoff, clock)
             /\ Closes(ch, i, at, cutoff)
             /\ at \in Nat /\ now - at <= MaxBackdate
<1> DEFINE ch == ChainOf(rows)
           i == IndexOf(ch, x.written)
           n == Cardinality(rows)
<1>1. GoodRows(rows) /\ x.at \in Instants /\ clock \in Nat /\ cutoff \in Offsets \cup {NoCutoff}
  BY ClaimsAssumption DEF ClaimsInv, RowsInv, TimeInv
<1>2. Lists(ch, rows, n)
  BY <1>1, ChainIs
<1>3. i \in 1..n /\ ch[i] = x /\ Len(ch) = n /\ n \in Nat
  BY <1>1, <1>2, PlaceIs DEF Lists
<1>4. /\ Missing(ch, i) = kind /\ ~DayCutShort(ch, i, cutoff)
      /\ at \in WindowOf(ch, i, cutoff, now)
      /\ now - at <= MaxBackdate
  BY DEF Admits
<1> HIDE DEF ch, i, n
<1>5. /\ at \in Instants /\ at \in Nat
      /\ \/ kind = "out" /\ InWindowOut(ch, i, cutoff, now, at)
         \/ kind = "in" /\ InWindowIn(ch, i, at)
  BY <1>4, ClaimsAssumption DEF WindowOf
<1>6. /\ x.at \in Nat /\ x.dir \in {"in", "out"} /\ x.day \in Int
      /\ x.day # NoInstant => x.day \in Nat
  BY <1>1, RowIs DEF GoodRows
<1>7. LongestShift \in Nat /\ PastTheDay \in Nat
  BY ClaimsAssumption
<1>8. CASE kind = "out"
  <2>1. /\ cutoff # NoCutoff /\ ~DayCutShort(ch, i, cutoff)
        /\ x.at < at /\ at <= x.at + LongestShift /\ at <= now
        /\ at < NextDayStart(x.day, cutoff)
        /\ i < n => at < ch[i + 1].at
    BY <1>3, <1>5, <1>8 DEF InWindowOut
  <2>2. InWindowOut(ch, i, cutoff, clock, at)
    <3>1. at <= clock
      BY <1>1, <1>5, <2>1
    <3> QED
      BY <1>3, <2>1, <3>1 DEF InWindowOut
  <2>3. x.day # NoInstant /\ x.dir = "in"
    <3>1. Missing(ch, i) = "out"
      BY <1>4, <1>8
    <3>2. ch[i].day # NoInstant /\ ch[i].dir # "out"
      BY <3>1, MissingOut
    <3> QED
      BY <1>3, <1>6, <3>2
  <2>4. cutoff \in Offsets
    BY <1>1, <2>1
  <2>5. PICK start : start = DayStart(x.at, cutoff)
    OBVIOUS
  <2>6. start \in Nat
    <3>1. cutoff \in CutoffsOf(cutoff) /\ cutoff \in Nat
      BY <2>4, CutoffsApart
    <3>2. cutoff <= x.at
      <4>1. Day <= x.at /\ cutoff \in 0 .. (Day - 1) /\ Day \in Nat
        BY <1>1, <2>4, ClaimsAssumption
      <4> QED
        BY <1>6, <4>1
    <3> QED
      BY <1>6, <2>4, <2>5, <3>1, <3>2, StartIs DEF NoInstant
  <2>7. PICK end \in Int, today \in Int :
          end = NextDayStart(x.day, cutoff) /\ today = NextDayStart(start, cutoff)
    <3>1. x.day + PastTheDay \in Nat /\ start + PastTheDay \in Nat
      BY <1>6, <1>7, <2>3, <2>6
    <3> QED
      BY <2>4, <3>1, StartIs DEF NextDayStart
  <2>8. ~(today < end)
    BY <1>3, <2>1, <2>3, <2>5, <2>7 DEF DayCutShort
  <2>9. at < NextDayStart(DayStart(x.at, cutoff), cutoff)
    BY <1>5, <2>1, <2>5, <2>7, <2>8
  <2>10. DayStart(at, cutoff) <= x.at /\ DayStart(at, cutoff) \in Int
    BY <1>1, <1>5, <2>4, <2>9, SameDay, StartIs
  <2>11. closesIn(x.at, at, NoInstant) /\ closesIn(x.at, at, DayStart(at, cutoff))
    <3>1. ~(at - x.at > LongestShift)
      BY <1>5, <1>6, <1>7, <2>1
    <3>2. ~(x.at < DayStart(at, cutoff))
      BY <1>6, <2>10
    <3> QED
      BY <3>1, <3>2, ClosesIs
  <2>12. ClosesOut(ch, i, at, cutoff)
    BY <1>3, <2>1, <2>11 DEF ClosesOut
  <2> QED
    BY <1>4, <1>5, <1>8, <2>2, <2>12 DEF WindowOf, Closes, ch, i
<1>9. CASE kind = "in"
  <2>1. /\ x.day <= at /\ x.at - LongestShift <= at /\ at < x.at
        /\ i > 1 => ch[i - 1].at < at
    BY <1>3, <1>5, <1>9 DEF InWindowIn
  <2>2. closesIn(at, x.at, x.day)
    <3>1. ~(at < x.day) /\ ~(x.at - at > LongestShift)
      BY <1>5, <1>6, <1>7, <2>1
    <3> QED
      BY <3>1, ClosesIs
  <2>3. ClosesIn(ch, i, at)
    BY <1>3, <2>1, <2>2 DEF ClosesIn
  <2> QED
    BY <1>4, <1>5, <1>9, <2>3 DEF WindowOf, Closes, ch, i
<1> QED
  BY <1>8, <1>9

\* What a claim adds: one that is decided as it was sent.
LEMMA SubmitAdds ==
  ASSUME ClaimsInv, Submit
  PROVE  \E at \in Nat, x \in rows :
           /\ x.written = card.anchor /\ card.kind \in {"in", "out"}
           /\ claims' = claims \cup {[anchor |-> card.anchor, kind |-> card.kind, at |-> at]}
           /\ Admits(card.anchor, card.kind, at, card.now)
           /\ \A k \in claims : k.anchor # card.anchor
           /\ card.now \in Nat /\ card.now <= clock
<1>1. PICK at \in {t \in Instants : t <= clock} :
        /\ Admits(card.anchor, card.kind, at, card.now)
        /\ claims' = claims \cup {[anchor |-> card.anchor, kind |-> card.kind, at |-> at]}
  BY DEF Submit
<1>2. card.pc = "sent" /\ \A k \in claims : k.anchor # card.anchor
  BY DEF Submit, Claimed
<1>3. /\ card.kind \in {"in", "out"} /\ card.now <= clock /\ card.now \in Nat
      /\ \E r \in rows : r.written = card.anchor
  BY <1>2 DEF ClaimsInv, CardInv, CardType, IsWritten
<1>4. at \in Nat
  BY ClaimsAssumption
<1> QED
  BY <1>1, <1>2, <1>3, <1>4

\* A claim is written.
LEMMA SubmitKeeps == ClaimsInv /\ Submit => ClaimsInv'
<1> SUFFICES ASSUME ClaimsInv, Submit PROVE ClaimsInv'
  OBVIOUS
<1>1. card' = NoCard /\ UNCHANGED <<clock, cutoff, moves, rows, decisions, tap, mgr>>
  BY DEF Submit
<1>2. PICK at \in Nat, x \in rows :
        /\ x.written = card.anchor /\ card.kind \in {"in", "out"}
        /\ claims' = claims \cup {[anchor |-> card.anchor, kind |-> card.kind, at |-> at]}
  BY SubmitAdds
<1>3. x.written \in Nat
  BY RowIs DEF ClaimsInv, RowsInv, GoodRows
<1>4. TimeInv' /\ RowsInv' /\ TapInv'
  BY <1>1 DEF ClaimsInv, TimeInv, RowsInv, TapInv, IsWritten
<1>5. WorkInv'
  BY <1>1, <1>2 DEF ClaimsInv, WorkInv, IsWritten
<1>6. ClaimInv'
  <2>1. IsWritten(card.anchor) /\ card.anchor \in Nat
    BY <1>2, <1>3 DEF IsWritten
  <2> QED
    BY <1>1, <1>2, <2>1 DEF ClaimsInv, ClaimInv, IsWritten
<1> QED
  BY <1>1, <1>4, <1>5, <1>6, NoCardIs, RowsStay DEF ClaimsInv

\* What is written is approvable, unless its moment expired meanwhile.
LEMMA SubmitApprovable ==
  ASSUME ClaimsInv, Submit, NEW k \in claims' \ claims
  PROVE  \/ evaluate(k.anchor, k.at)' = "pending"
         \/ evaluate(k.anchor, k.at)' = "expired" /\ card.now < clock
<1>1. UNCHANGED <<clock, cutoff, rows>>
  BY DEF Submit
<1>2. PICK at \in Nat, x \in rows :
        /\ x.written = card.anchor /\ card.kind \in {"in", "out"}
        /\ claims' = claims \cup {[anchor |-> card.anchor, kind |-> card.kind, at |-> at]}
        /\ Admits(card.anchor, card.kind, at, card.now)
        /\ \A c \in claims : c.anchor # card.anchor
        /\ card.now \in Nat /\ card.now <= clock
  BY SubmitAdds
<1>3. k = [anchor |-> card.anchor, kind |-> card.kind, at |-> at]
  BY <1>2
<1>4. k.anchor = x.written /\ k.kind = card.kind /\ k.at = at
  BY <1>2, <1>3
<1>5. KindOf(x.written)' = card.kind
  <2>1. \A c \in claims' : c.anchor = x.written <=> c = k
    BY <1>2, <1>3, <1>4
  <2>2. k \in claims'
    OBVIOUS
  <2>3. (CHOOSE c \in claims' : c.anchor = x.written) = k
    BY <2>1, <2>2
  <2> QED
    BY <1>4, <2>3 DEF KindOf
<1> DEFINE ch == ChainOf(rows)
           i == IndexOf(ch, x.written)
<1>6. /\ Missing(ch, i) = card.kind /\ ~DayCutShort(ch, i, cutoff)
      /\ at \in WindowOf(ch, i, cutoff, clock)
      /\ Closes(ch, i, at, cutoff)
      /\ card.now - at <= MaxBackdate
  BY <1>2, AdmittedCloses
<1>7. evaluate(x.written, at)' = IF clock - at > MaxBackdate THEN "expired" ELSE "pending"
  <2>1. evaluate(x.written, at)' =
          IF Missing(ch, i) # KindOf(x.written)' \/ DayCutShort(ch, i, cutoff) THEN "resolved"
          ELSE IF at \notin WindowOf(ch, i, cutoff, clock) THEN "outsideWindow"
          ELSE IF ~Closes(ch, i, at, cutoff) THEN "resolved"
          ELSE IF clock - at > MaxBackdate THEN "expired"
          ELSE "pending"
    BY <1>1 DEF evaluate
  <2> HIDE DEF ch, i
  <2> QED
    BY <1>5, <1>6, <2>1
<1>8. clock - at > MaxBackdate => card.now < clock
  <2>1. clock \in Nat /\ MaxBackdate \in Nat
    BY ClaimsAssumption DEF ClaimsInv, TimeInv
  <2> QED
    BY <1>2, <1>6, <2>1
<1> QED
  BY <1>4, <1>7, <1>8

\* A manager's transaction that starts now, or again, or ends.
LEMMA WorkChanges ==
  ASSUME ClaimsInv, NEW m \in Managers, NEW w \in WorkType, mgr' = [mgr EXCEPT ![m] = w],
         UNCHANGED <<clock, cutoff, rows, claims, tap, card>>,
         w.pc = "waiting" =>
           /\ w.now \in Instants /\ w.began = Fresh
           /\ w.anchor # NoRow => \E k \in claims : k.anchor = w.anchor
  PROVE  ClaimsInv'
<1>1. /\ GoodRows(rows) /\ tap \in TapType /\ mgr \in [Managers -> WorkType] /\ WorkInv
  BY DEF ClaimsInv, RowsInv, TapInv, WorkInv
<1>2. \A r \in rows : r.written # Fresh
  BY <1>1, FreshIs
<1>3. \A o \in Managers : mgr[o].began # Fresh
  BY <1>1, FreshIs
<1>4. Fresh # 0 /\ tap.began # Fresh
  BY <1>1, FreshIs
<1> HIDE DEF Fresh
<1>5. mgr' \in [Managers -> WorkType] /\ mgr'[m] = w
      /\ \A o \in Managers \ {m} : mgr'[o] = mgr[o]
  BY <1>1
<1>6. WorkInv'
  <2>1. SUFFICES ASSUME NEW p \in Managers, mgr'[p].pc = "waiting"
                 PROVE  /\ mgr'[p].now \in Instants
                        /\ mgr'[p].began # 0 /\ ~IsWritten(mgr'[p].began)
                        /\ tap.pc = "waiting" => tap.began # mgr'[p].began
                        /\ \A o \in Managers \ {p} :
                             mgr'[o].pc = "waiting" => mgr'[o].began # mgr'[p].began
                        /\ mgr'[p].anchor # NoRow => \E k \in claims : k.anchor = mgr'[p].anchor
    BY <1>5 DEF WorkInv, IsWritten
  <2>2. CASE p = m
    <3>1. mgr'[p] = w /\ w.began = Fresh /\ w.now \in Instants
      BY <1>5, <2>1, <2>2
    <3>2. w.anchor # NoRow => \E k \in claims : k.anchor = w.anchor
      BY <2>1, <3>1
    <3>3. ~IsWritten(Fresh)
      BY <1>2 DEF IsWritten
    <3>4. \A o \in Managers \ {p} : mgr'[o].began # Fresh
      BY <1>3, <1>5, <2>2
    <3> QED
      BY <1>4, <3>1, <3>2, <3>3, <3>4
  <2>3. CASE p # m
    <3>1. mgr'[p] = mgr[p] /\ mgr[p].pc = "waiting"
      BY <1>5, <2>1, <2>3
    <3>2. /\ mgr[p].now \in Instants
          /\ mgr[p].began # 0 /\ ~IsWritten(mgr[p].began)
          /\ tap.pc = "waiting" => tap.began # mgr[p].began
          /\ \A o \in Managers \ {p} : mgr[o].pc = "waiting" => mgr[o].began # mgr[p].began
          /\ mgr[p].anchor # NoRow => \E k \in claims : k.anchor = mgr[p].anchor
      BY <1>1, <3>1 DEF WorkInv
    <3>3. ASSUME NEW o \in Managers \ {p}, mgr'[o].pc = "waiting"
          PROVE  mgr'[o].began # mgr[p].began
      <4>1. CASE o = m
        BY <1>3, <1>5, <3>3, <4>1
      <4>2. CASE o # m
        BY <1>5, <3>2, <3>3, <4>2
      <4> QED
        BY <4>1, <4>2
    <3> QED
      BY <3>1, <3>2, <3>3
  <2> QED
    BY <2>2, <2>3
<1>7. TimeInv' /\ RowsInv' /\ TapInv' /\ CardInv' /\ ClaimInv'
  BY DEF ClaimsInv, TimeInv, RowsInv, TapInv, CardInv, ClaimInv, IsWritten
<1> QED
  BY <1>6, <1>7, RowsStay DEF ClaimsInv

\* Nobody at work.
LEMMA NoWorkIs == NoWork \in WorkType /\ NoWork.pc = "idle"
BY ClaimsAssumption DEF NoWork, WorkType, NoRow

\* A manager's transaction starts.
LEMMA BeginKeeps == ASSUME NEW m \in Managers PROVE ClaimsInv /\ Begin(m) => ClaimsInv'
<1> SUFFICES ASSUME ClaimsInv, Begin(m) PROVE ClaimsInv'
  OBVIOUS
<1> DEFINE work(anchor) ==
      [pc |-> "waiting", anchor |-> anchor, now |-> clock, began |-> Fresh, attempt |-> 0]
<1>0. PICK anchor \in {NoRow} \cup {k.anchor : k \in claims} :
        mgr' = [mgr EXCEPT ![m] = work(anchor)]
  BY DEF Begin
<1>1. PICK w : w = work(anchor) /\ mgr' = [mgr EXCEPT ![m] = w]
  BY <1>0
<1>2. UNCHANGED <<clock, cutoff, rows, claims, tap, card>>
  BY DEF Begin
<1>3. anchor \in Nat /\ (anchor # NoRow => \E k \in claims : k.anchor = anchor)
  BY DEF ClaimsInv, ClaimInv, NoRow
<1>4. clock \in Instants /\ clock \in Nat /\ 0 \in 0..Retries
  BY ClaimsAssumption DEF ClaimsInv, TimeInv
<1>5. Fresh \in Nat
  <2>1. GoodRows(rows) /\ tap \in TapType /\ mgr \in [Managers -> WorkType]
    BY DEF ClaimsInv, RowsInv, TapInv, WorkInv
  <2> QED
    BY <2>1, FreshIs
<1> HIDE DEF Fresh
<1>6. w \in WorkType
  BY <1>1, <1>3, <1>4, <1>5 DEF WorkType
<1>7. w.now = clock /\ w.began = Fresh /\ w.anchor = anchor
  BY <1>1
<1> QED
  BY <1>1, <1>2, <1>3, <1>4, <1>6, <1>7, WorkChanges

\* A manager's transaction starts again.
LEMMA BeginAgainKeeps == ASSUME NEW m \in Managers PROVE ClaimsInv /\ BeginAgain(m) => ClaimsInv'
<1> SUFFICES ASSUME ClaimsInv, BeginAgain(m) PROVE ClaimsInv'
  OBVIOUS
<1>1. PICK w : w = [mgr[m] EXCEPT !.began = Fresh, !.attempt = @ + 1]
  OBVIOUS
<1>2. /\ mgr[m].pc = "waiting" /\ mgr[m].attempt < Retries
      /\ mgr' = [mgr EXCEPT ![m].began = Fresh, ![m].attempt = @ + 1]
      /\ UNCHANGED <<clock, cutoff, rows, claims, tap, card>>
  BY DEF BeginAgain
<1>3. mgr \in [Managers -> WorkType] /\ mgr[m] \in WorkType
  BY DEF ClaimsInv, WorkInv
<1>4. Fresh \in Nat
  <2>1. GoodRows(rows) /\ tap \in TapType
    BY DEF ClaimsInv, RowsInv, TapInv
  <2> QED
    BY <1>3, <2>1, FreshIs
<1> HIDE DEF Fresh
<1>5. mgr' = [mgr EXCEPT ![m] = w]
  BY <1>1, <1>2, <1>3
<1>6. w \in WorkType
  <2>1. mgr[m].attempt + 1 \in 0..Retries
    BY <1>2, <1>3, ClaimsAssumption DEF WorkType
  <2> QED
    BY <1>1, <1>3, <1>4, <2>1 DEF WorkType
<1>7. w.now = mgr[m].now /\ w.began = Fresh /\ w.anchor = mgr[m].anchor
  BY <1>1, <1>3 DEF WorkType
<1>8. /\ mgr[m].now \in Instants
      /\ mgr[m].anchor # NoRow => \E k \in claims : k.anchor = mgr[m].anchor
  BY <1>2 DEF ClaimsInv, WorkInv
<1> QED
  BY <1>2, <1>5, <1>6, <1>7, <1>8, WorkChanges

\* A manager's transaction that leaves no row.
LEMMA EndsKeeps ==
  ASSUME ClaimsInv, NEW m \in Managers, Ends(m),
         UNCHANGED <<clock, cutoff, rows, claims, tap, card>>
  PROVE  ClaimsInv'
<1>1. PICK w : w = NoWork /\ w \in WorkType /\ w.pc = "idle"
  BY NoWorkIs
<1>2. mgr' = [mgr EXCEPT ![m] = w]
  BY <1>1 DEF Ends
<1> QED
  BY <1>1, <1>2, WorkChanges

(* A row that a manager writes is younger than every other, or blind.      *)
HandRow(q, m, dir, at) ==
  /\ q \notin rows /\ GoodRows(rows \cup {q})
  /\ q.dir = dir /\ q.at = at /\ q.written = mgr[m].began
  /\ q.source = "hand" /\ q.day = NoInstant
  /\ q.blind \/ \A r \in rows : q.written > r.written

\* What a manager writes is such a row.
LEMMA WriteAdds ==
  ASSUME ClaimsInv, NEW m \in Managers, Runs(m), NEW dir \in {"in", "out"},
         NEW at \in Instants, Write(m, dir, at)
  PROVE  \E q : rows' = rows \cup {q} /\ HandRow(q, m, dir, at)
<1> DEFINE late == mgr[m].attempt = Retries /\ \E r \in rows : r.written > mgr[m].began
           written(id, unseen) ==
             [dir |-> dir, at |-> at, id |-> id, written |-> mgr[m].began, day |-> NoInstant,
              source |-> "hand", blind |-> unseen]
<1>0. PICK id \in FreeIds(at) : rows' = rows \cup {written(id, late)}
  BY DEF Write, row
<1>1. PICK unseen, q : unseen = late /\ q = written(id, unseen) /\ rows' = rows \cup {q}
  BY <1>0
<1>2. GoodRows(rows) /\ at \in Nat /\ mgr[m] \in WorkType
  BY ClaimsAssumption DEF ClaimsInv, RowsInv, WorkInv
<1>3. id \in Int /\ \A r \in rows : r.at = at => r.id # id
  BY <1>2, FreeIdsAre
<1>4. mgr[m].began \in Nat \ {0} /\ \A r \in rows : r.written # mgr[m].began
  BY <1>2 DEF ClaimsInv, WorkInv, WorkType, Runs, IsWritten
<1>5. unseen \in BOOLEAN
  BY <1>1
<1>6. /\ q.dir = dir /\ q.at = at /\ q.written = mgr[m].began /\ q.id = id
      /\ q.source = "hand" /\ q.day = NoInstant /\ q.blind = unseen
  BY <1>1
<1>7. q \in RowType
  BY <1>1, <1>2, <1>3, <1>4, <1>5 DEF RowType
<1>8. GoodRows(rows \cup {q}) /\ q \notin rows
  BY <1>2, <1>3, <1>4, <1>6, <1>7, AddRow
<1>9. unseen \/ \A r \in rows : q.written > r.written
  <2>1. mgr[m].attempt \in 0..Retries /\ Retries \in Nat
    BY <1>2, ClaimsAssumption DEF WorkType
  <2>2. mgr[m].attempt = Retries \/ mgr[m].attempt < Retries
    BY <2>1
  <2>3. unseen \/ ~\E r \in rows : r.written > mgr[m].began
    BY <1>1, <2>2 DEF Runs, AnyRecordWrittenSinceThisTransactionBegan
  <2>4. \A r \in rows : r.written \in Nat
    BY <1>2, RowIs DEF GoodRows
  <2> QED
    BY <1>4, <1>6, <2>3, <2>4
<1> QED
  BY <1>1, <1>6, <1>8, <1>9 DEF HandRow

\* A manager's row keeps everything.
LEMMA WriteKeeps ==
  ASSUME ClaimsInv, NEW m \in Managers, Runs(m), NEW dir \in {"in", "out"},
         NEW at \in Instants, Write(m, dir, at), Ends(m),
         UNCHANGED <<clock, cutoff, claims, tap, card>>
  PROVE  ClaimsInv'
<1>1. PICK q : /\ rows' = rows \cup {q} /\ GoodRows(rows \cup {q})
               /\ q.at = at /\ q.written = mgr[m].began /\ q.source = "hand"
               /\ q.blind \/ \A r \in rows : q.written > r.written
  <2>1. PICK q : rows' = rows \cup {q} /\ HandRow(q, m, dir, at)
    BY WriteAdds
  <2> QED
    BY <2>1 DEF HandRow
<1>2. mgr' = [mgr EXCEPT ![m] = NoWork] /\ mgr \in [Managers -> WorkType]
  BY DEF Ends, ClaimsInv, WorkInv
<1>3. mgr[m].pc = "waiting"
  BY DEF Runs
<1>4. TimeInv' /\ RowsInv'
  BY <1>1 DEF ClaimsInv, TimeInv, RowsInv
<1>5. \A w : w # mgr[m].began => (IsWritten(w)' <=> IsWritten(w))
  BY <1>1 DEF IsWritten
<1>6. \A w : IsWritten(w) => IsWritten(w)'
  BY <1>1 DEF IsWritten
<1>7. TapInv'
  <2>1. tap.pc = "waiting" => tap.began # mgr[m].began /\ ~IsWritten(tap.began)
    BY <1>3 DEF ClaimsInv, WorkInv, TapInv
  <2>2. tap.pc = "waiting" => ~IsWritten(tap.began)'
    <3>1. tap' = tap
      OBVIOUS
    <3> QED
      BY <1>1, <2>1, <3>1 DEF IsWritten
  <2>3. \A r \in rows' : r.source # "hand" => r \in rows
    BY <1>1
  <2> QED
    BY <2>2, <2>3 DEF ClaimsInv, TapInv, IsWritten
<1>8. WorkInv'
  <2>1. mgr' \in [Managers -> WorkType] /\ mgr'[m].pc = "idle"
        /\ \A o \in Managers \ {m} : mgr'[o] = mgr[o]
    BY <1>2, NoWorkIs
  <2>2. SUFFICES ASSUME NEW p \in Managers, mgr'[p].pc = "waiting"
                 PROVE  /\ mgr'[p].now \in Instants
                        /\ mgr'[p].began # 0 /\ ~\E r \in rows' : r.written = mgr'[p].began
                        /\ tap.pc = "waiting" => tap.began # mgr'[p].began
                        /\ \A o \in Managers \ {p} :
                             mgr'[o].pc = "waiting" => mgr'[o].began # mgr'[p].began
                        /\ mgr'[p].anchor # NoRow => \E k \in claims : k.anchor = mgr'[p].anchor
    BY <2>1 DEF WorkInv, IsWritten
  <2>3. p # m /\ mgr'[p] = mgr[p] /\ mgr[p].pc = "waiting"
    BY <2>1, <2>2
  <2>4. ~\E r \in rows' : r.written = mgr[p].began
    <3>1. mgr[p].began # mgr[m].began /\ ~IsWritten(mgr[p].began)
      BY <1>3, <2>3 DEF ClaimsInv, WorkInv
    <3> QED
      BY <1>1, <3>1 DEF IsWritten
  <2>5. /\ mgr[p].now \in Instants /\ mgr[p].began # 0
        /\ tap.pc = "waiting" => tap.began # mgr[p].began
        /\ \A o \in Managers \ {p} : mgr[o].pc = "waiting" => mgr[o].began # mgr[p].began
        /\ mgr[p].anchor # NoRow => \E k \in claims : k.anchor = mgr[p].anchor
    BY <2>3 DEF ClaimsInv, WorkInv
  <2>6. \A o \in Managers \ {p} : mgr'[o].pc = "waiting" => o # m /\ mgr'[o] = mgr[o]
    BY <2>1
  <2> QED
    BY <2>3, <2>4, <2>5, <2>6
<1>9. CardInv' /\ ClaimInv'
  BY <1>1, <1>6 DEF ClaimsInv, CardInv, ClaimInv, IsWritten
<1>10. OrphanInv'
  <2>1. CASE \E x \in rows' : x.blind
    BY <2>1 DEF OrphanInv
  <2>2. ASSUME ~\E x \in rows' : x.blind PROVE OrphanInv'
    <3>1. ~(\E x \in rows : x.blind) /\ ~q.blind
      BY <1>1, <2>2
    <3>2. \A r \in rows : q.written > r.written
      BY <1>1, <3>1
    <3>3. \A r \in rows : r.source = "auto" /\ r.dir = "out" /\ r.day # NoInstant =>
            Explained(rows, r)
      BY <3>1 DEF ClaimsInv, OrphanInv
    <3>4. ASSUME NEW r \in rows, r.source = "auto", r.dir = "out", r.day # NoInstant
          PROVE  Explained(rows \cup {q}, r)
      BY <3>2, <3>3, <3>4, StaysExplained
    <3> QED
      BY <1>1, <3>4 DEF OrphanInv
  <2> QED
    BY <2>1, <2>2
<1> QED
  BY <1>4, <1>7, <1>8, <1>9, <1>10 DEF ClaimsInv

\* A record by hand.
LEMMA RecordKeeps == ASSUME NEW m \in Managers PROVE ClaimsInv /\ Record(m) => ClaimsInv'
<1> SUFFICES ASSUME ClaimsInv, Record(m) PROVE ClaimsInv'
  OBVIOUS
<1>1. PICK dir \in {"in", "out"}, at \in Instants : Write(m, dir, at)
  BY DEF Record
<1>2. Runs(m) /\ Ends(m) /\ UNCHANGED <<clock, cutoff, claims, tap, card>>
  BY DEF Record
<1> QED
  BY <1>1, <1>2, WriteKeeps

\* The kind of a claim.
LEMMA KindIs ==
  ASSUME ClaimsInv, NEW anchor, \E k \in claims : k.anchor = anchor
  PROVE  KindOf(anchor) \in {"in", "out"} /\ \E x \in rows : x.written = anchor
<1>1. PICK c : c = CHOOSE k \in claims : k.anchor = anchor
  OBVIOUS
<1>2. c \in claims /\ c.anchor = anchor
  BY <1>1
<1> QED
  BY <1>1, <1>2 DEF KindOf, ClaimsInv, ClaimInv, IsWritten

\* What an approval writes, and what it saw.
LEMMA ApproveIs ==
  ASSUME ClaimsInv, NEW m \in Managers, Approve(m)
  PROVE  \E at \in Instants, x \in rows, dir \in {"in", "out"} :
           /\ x.written = mgr[m].anchor /\ dir = KindOf(mgr[m].anchor)
           /\ evaluate(mgr[m].anchor, at) = "pending"
           /\ Runs(m) /\ Write(m, dir, at) /\ Ends(m)
           /\ UNCHANGED <<clock, cutoff, moves, claims, tap, card>>
<1>1. PICK at \in Instants :
        /\ evaluate(mgr[m].anchor, at) = "pending"
        /\ Write(m, KindOf(mgr[m].anchor), at)
  BY DEF Approve
<1>2. /\ Runs(m) /\ Ends(m) /\ UNCHANGED <<clock, cutoff, moves, claims, tap, card>>
      /\ mgr[m].anchor # NoRow /\ mgr[m].pc = "waiting"
  BY DEF Approve, Runs
<1>3. \E k \in claims : k.anchor = mgr[m].anchor
  BY <1>2 DEF ClaimsInv, WorkInv
<1>4. KindOf(mgr[m].anchor) \in {"in", "out"} /\ \E x \in rows : x.written = mgr[m].anchor
  BY <1>3, KindIs
<1> QED
  BY <1>1, <1>2, <1>4

\* A claim is approved.
LEMMA ApproveKeeps == ASSUME NEW m \in Managers PROVE ClaimsInv /\ Approve(m) => ClaimsInv'
<1> SUFFICES ASSUME ClaimsInv, Approve(m) PROVE ClaimsInv'
  OBVIOUS
<1>1. PICK at \in Instants, x \in rows, dir \in {"in", "out"} :
        /\ Runs(m) /\ Write(m, dir, at) /\ Ends(m)
        /\ UNCHANGED <<clock, cutoff, moves, claims, tap, card>>
  BY ApproveIs
<1> QED
  BY <1>1, WriteKeeps

\* A transaction that changes nobody's records.
LEMMA NoRowKeeps ==
  ASSUME NEW m \in Managers PROVE ClaimsInv /\ (Reject(m) \/ RollBack(m)) => ClaimsInv'
<1> SUFFICES ASSUME ClaimsInv, Reject(m) \/ RollBack(m) PROVE ClaimsInv'
  OBVIOUS
<1>1. Ends(m) /\ UNCHANGED <<clock, cutoff, rows, claims, tap, card>>
  BY DEF Reject, RollBack
<1> QED
  BY <1>1, EndsKeeps

\* The clock moves.
LEMMA TickKeeps == ClaimsInv /\ Tick => ClaimsInv'
<1> SUFFICES ASSUME ClaimsInv, Tick PROVE ClaimsInv'
  OBVIOUS
<1>1. PICK later : later = {t \in Instants : t > clock}
  OBVIOUS
<1>2. /\ clock' = Min(later) /\ later # {}
      /\ UNCHANGED <<cutoff, moves, rows, claims, decisions, tap, card, mgr>>
  BY <1>1 DEF Tick
<1>3. clock \in Instants /\ clock \in Nat
  BY ClaimsAssumption DEF ClaimsInv, TimeInv
<1>4. IsFiniteSet(later) /\ later \subseteq Int
  <2>1. IsFiniteSet(Instants) /\ Instants \subseteq Nat /\ later \subseteq Instants
    BY <1>1, ClaimsAssumption
  <2>2. IsFiniteSet(later)
    BY <2>1, FS_Subset
  <2> QED
    BY <2>1, <2>2
<1>5. clock' \in later
  BY <1>2, <1>4, MaxIs
<1>6. clock' \in Instants /\ clock' \in Nat /\ clock < clock'
  BY <1>1, <1>3, <1>5, ClaimsAssumption
<1>7. TimeInv'
  BY <1>2, <1>6 DEF ClaimsInv, TimeInv
<1>8. RowsInv'
  <2>1. \A r \in rows : r.at \in Nat
    BY RowIs DEF ClaimsInv, RowsInv, GoodRows
  <2>2. \A r \in rows : r.source # "hand" => r.at <= clock'
    BY <1>3, <1>6, <2>1 DEF ClaimsInv, RowsInv
  <2> QED
    BY <1>2, <2>2 DEF ClaimsInv, RowsInv
<1>9. TapInv'
  <2>1. tap.pc = "waiting" => tap.now <= clock'
    BY <1>3, <1>6 DEF ClaimsInv, TapInv, TapType
  <2> QED
    BY <1>2, <2>1 DEF ClaimsInv, TapInv, IsWritten
<1>10. CardInv'
  <2>1. card.pc = "sent" => card.now <= clock'
    BY <1>3, <1>6 DEF ClaimsInv, CardInv, CardType
  <2> QED
    BY <1>2, <2>1 DEF ClaimsInv, CardInv, IsWritten
<1>11. WorkInv' /\ ClaimInv'
  BY <1>2 DEF ClaimsInv, WorkInv, ClaimInv, IsWritten
<1> QED
  BY <1>2, <1>7, <1>8, <1>9, <1>10, <1>11, RowsStay DEF ClaimsInv

\* The cutoff changes.
LEMMA SetCutoffKeeps == ClaimsInv /\ SetCutoff => ClaimsInv'
<1> SUFFICES ASSUME ClaimsInv, SetCutoff PROVE ClaimsInv'
  OBVIOUS
<1>1. /\ cutoff' \in Offsets \cup {NoCutoff}
      /\ UNCHANGED <<clock, rows, claims, decisions, tap, card, mgr>>
  BY DEF SetCutoff
<1>2. TimeInv' /\ RowsInv' /\ TapInv' /\ WorkInv' /\ CardInv' /\ ClaimInv'
  BY <1>1 DEF ClaimsInv, TimeInv, RowsInv, TapInv, WorkInv, CardInv, ClaimInv, IsWritten
<1> QED
  BY <1>1, <1>2, RowsStay DEF ClaimsInv

\* It starts so.
LEMMA ClaimsInit == Init => ClaimsInv
<1> SUFFICES ASSUME Init PROVE ClaimsInv
  OBVIOUS
<1>1. /\ clock = Min(Instants) /\ cutoff \in Offsets
      /\ rows = {} /\ claims = {} /\ decisions = {}
      /\ tap = NoTap /\ card = NoCard /\ mgr = [m \in Managers |-> NoWork]
  BY DEF Init
<1>2. clock \in Instants
  <2>1. IsFiniteSet(Instants) /\ Instants \subseteq Int /\ Instants # {}
    BY ClaimsAssumption
  <2> QED
    BY <1>1, <2>1, MaxIs
<1>3. TimeInv /\ ClaimInv /\ OrphanInv
  BY <1>1, <1>2 DEF TimeInv, ClaimInv, OrphanInv
<1>4. RowsInv
  BY <1>1, FS_EmptySet DEF RowsInv, GoodRows
<1>5. TapInv
  BY <1>1 DEF TapInv, NoTap, NoRow, TapType
<1>6. CardInv
  BY <1>1 DEF CardInv, NoCard, NoRow, CardType
<1>7. WorkInv
  <2>1. mgr \in [Managers -> WorkType] /\ \A m \in Managers : mgr[m].pc = "idle"
    BY <1>1, NoWorkIs
  <2> QED
    BY <2>1 DEF WorkInv
<1> QED
  BY <1>3, <1>4, <1>5, <1>6, <1>7 DEF ClaimsInv

\* Every step keeps it.
LEMMA ClaimsStep == ClaimsInv /\ [Next]_vars => ClaimsInv'
<1> SUFFICES ASSUME ClaimsInv, [Next]_vars PROVE ClaimsInv'
  OBVIOUS
<1>1. CASE PressTap
  BY <1>1, PressTapKeeps
<1>2. CASE RecordTap
  BY <1>2, RecordTapKeeps
<1>3. CASE TapLeavesNothing
  BY <1>3, TapLeavesNothingKeeps
<1>4. CASE Offer
  BY <1>4, OfferKeeps
<1>5. CASE SendClaim
  BY <1>5, SendClaimKeeps
<1>6. CASE Submit
  BY <1>6, SubmitKeeps
<1>7. CASE NoClaim
  BY <1>7, NoClaimKeeps
<1>8. ASSUME NEW m \in Managers, Begin(m) PROVE ClaimsInv'
  BY <1>8, BeginKeeps
<1>9. ASSUME NEW m \in Managers, BeginAgain(m) PROVE ClaimsInv'
  BY <1>9, BeginAgainKeeps
<1>10. ASSUME NEW m \in Managers, Record(m) PROVE ClaimsInv'
  BY <1>10, RecordKeeps
<1>11. ASSUME NEW m \in Managers, Approve(m) PROVE ClaimsInv'
  BY <1>11, ApproveKeeps
<1>12. ASSUME NEW m \in Managers, Reject(m) \/ RollBack(m) PROVE ClaimsInv'
  BY <1>12, NoRowKeeps
<1>13. CASE Tick
  BY <1>13, TickKeeps
<1>14. CASE SetCutoff
  BY <1>14, SetCutoffKeeps
<1>15. CASE UNCHANGED vars
  BY <1>15, RowsStay
     DEF vars, ClaimsInv, TimeInv, RowsInv, TapInv, WorkInv, CardInv, ClaimInv, IsWritten
<1> QED
  BY <1>1, <1>2, <1>3, <1>4, <1>5, <1>6, <1>7, <1>8, <1>9, <1>10, <1>11, <1>12, <1>13, <1>14,
     <1>15 DEF Next

---------------------------------------------------------------------------
(* The theorems.                                                           *)

\* The rows are told apart by place and by transaction, every rank of a
\* transaction is its own, and a checkout the engine predicted is explained.
THEOREM ClaimsInvariant == Spec => []ClaimsInv
BY ClaimsInit, ClaimsStep, PTL DEF Spec

\* No correction makes a predicted checkout one without a check-in, unless it
\* was written blind.
THEOREM NoOrphanTheorem == Spec => []CorrectionIsNoOrphan
<1>1. ClaimsInv => CorrectionIsNoOrphan
  <2> SUFFICES ASSUME ClaimsInv, NEW r \in rows, r.source = "auto", r.dir = "out",
                      r.written \in accumulate(rows).outWithoutIn
               PROVE  \E x \in rows : x.blind
    BY DEF CorrectionIsNoOrphan
  <2>1. GoodRows(rows)
    BY DEF ClaimsInv, RowsInv
  <2>2. ~(r.day # NoInstant => Explained(rows, r))
    BY <2>1, ExplainedIsNone
  <2> QED
    BY <2>2 DEF ClaimsInv, OrphanInv
<1> QED
  BY <1>1, ClaimsInvariant, PTL

\* The card misses what the report lists.
THEOREM AgreeTheorem == Spec => []ClaimsAndReportAgree
<1>1. ClaimsInv => ClaimsAndReportAgree
  BY MissingIsListed DEF ClaimsInv, RowsInv, ClaimsAndReportAgree
<1> QED
  BY <1>1, ClaimsInvariant, PTL

\* A claim is written by Submit alone.
LEMMA SubmitOnly ==
  ASSUME [Next]_vars, NEW k \in claims' \ claims
  PROVE  Submit
<1>1. claims' # claims
  OBVIOUS
<1>2. ASSUME NEW m \in Managers,
             \/ Begin(m) \/ BeginAgain(m) \/ Record(m)
             \/ Reject(m) \/ Approve(m) \/ RollBack(m)
      PROVE  claims' = claims
  BY <1>2 DEF Begin, BeginAgain, Record, Reject, Approve, RollBack
<1> QED
  BY <1>1, <1>2 DEF Next, vars, PressTap, RecordTap, TapLeavesNothing, Offer, SendClaim, NoClaim,
                    Tick, SetCutoff

\* What Submit takes can be approved.
THEOREM SubmittedTheorem == Spec => SubmittedIsApprovable
<1>1. ASSUME ClaimsInv, [Next]_vars
      PROVE  [\A k \in claims' \ claims :
                \/ evaluate(k.anchor, k.at)' = "pending"
                \/ evaluate(k.anchor, k.at)' = "expired" /\ card.now < clock]_vars
  BY <1>1, SubmitOnly, SubmitApprovable
<1> QED
  BY <1>1, ClaimsInvariant, PTL DEF Spec, SubmittedIsApprovable

\* A decision to approve is an approval's.
LEMMA ApproveOnly ==
  ASSUME ClaimsInv, [Next]_vars, NEW d \in decisions' \ decisions, d.outcome = "approved"
  PROVE  \E m \in Managers :
           Approve(m) /\ d.anchor = mgr[m].anchor /\ d.record = mgr[m].began
<1>1. decisions' # decisions
  OBVIOUS
<1>2. ASSUME NEW m \in Managers, Begin(m) \/ BeginAgain(m) \/ Record(m) \/ RollBack(m)
      PROVE  decisions' = decisions
  BY <1>2 DEF Begin, BeginAgain, Record, RollBack
<1>3. ASSUME NEW m \in Managers, Reject(m) PROVE FALSE
  <2>1. d = [anchor |-> mgr[m].anchor, outcome |-> "rejected", record |-> NoRow]
    BY <1>3 DEF Reject, Decision
  <2>2. d.outcome = "rejected"
    BY <2>1
  <2> QED
    BY <2>2
<1>4. PICK m \in Managers : Approve(m)
  BY <1>1, <1>2, <1>3
     DEF Next, vars, PressTap, RecordTap, TapLeavesNothing, Offer, SendClaim, Submit, NoClaim,
         Tick, SetCutoff
<1>5. d = [anchor |-> mgr[m].anchor, outcome |-> "approved", record |-> mgr[m].began]
  BY <1>4 DEF Approve, Decision
<1> QED
  BY <1>4, <1>5

\* What an approval that was pending finds.
LEMMA PendingCloses ==
  ASSUME NEW anchor, NEW at, evaluate(anchor, at) = "pending"
  PROVE  LET ch == ChainOf(rows)
             i == IndexOf(ch, anchor)
         IN  Missing(ch, i) = KindOf(anchor) /\ Closes(ch, i, at, cutoff)
<1> DEFINE ch == ChainOf(rows)
           i == IndexOf(ch, anchor)
<1>1. "pending" =
        IF Missing(ch, i) # KindOf(anchor) \/ DayCutShort(ch, i, cutoff) THEN "resolved"
        ELSE IF at \notin WindowOf(ch, i, cutoff, clock) THEN "outsideWindow"
        ELSE IF ~Closes(ch, i, at, cutoff) THEN "resolved"
        ELSE IF clock - at > MaxBackdate THEN "expired"
        ELSE "pending"
  BY DEF evaluate
<1> HIDE DEF ch, i
<1>2. Missing(ch, i) = KindOf(anchor) /\ Closes(ch, i, at, cutoff)
  BY <1>1
<1> QED
  BY <1>2 DEF ch, i

\* What the report pairs it lists nowhere else.
LEMMA PairedIsNotListed ==
  ASSUME NEW rs, GoodRows(rs), NEW u, NEW v, <<u, v>> \in accumulate(rs).pairs
  PROVE  /\ u \notin accumulate(rs).left /\ u \notin accumulate(rs).outWithoutIn
         /\ v \notin accumulate(rs).left /\ v \notin accumulate(rs).outWithoutIn
<1> DEFINE ch == ChainOf(rs)
           n == Cardinality(rs)
<1>1. Lists(ch, rs, n)
  BY ChainIs
<1>2. /\ accumulate(rs).pairs = PairsOf(ch, n) /\ accumulate(rs).left = LeftOf(ch, n)
      /\ accumulate(rs).outWithoutIn = WithoutIn(ch, n)
  BY ReportIs
<1> HIDE DEF ch, n
<1>3. PICK j \in 1..n : /\ ch[j].dir = "in" /\ ClosedByNext(ch, j)
                        /\ <<u, v>> = <<ch[j].written, ch[j + 1].written>>
  BY <1>2 DEF PairsOf
<1>4. u = ch[j].written /\ v = ch[j + 1].written
  BY <1>3
<1>5. /\ j + 1 \in 1..n /\ j + 1 # 1 /\ j + 1 - 1 = j
      /\ ch[j + 1].dir = "out" /\ closesIn(ch[j].at, ch[j + 1].at, ch[j + 1].day)
  BY <1>1, <1>3 DEF Lists, ClosedByNext
<1>6. \A i, k \in 1..n : ch[i].written = ch[k].written => i = k
  <2>1. ASSUME NEW i \in 1..n, NEW k \in 1..n, ch[i].written = ch[k].written PROVE i = k
    <3>1. ch[i] = ch[k]
      BY <1>1, <2>1 DEF Lists, GoodRows
    <3> QED
      BY <1>1, <3>1, OnePlace
  <2> QED
    BY <2>1
<1>7. u \notin LeftOf(ch, n) /\ u \notin WithoutIn(ch, n)
  BY <1>3, <1>4, <1>6 DEF LeftOf, WithoutIn
<1>8. v \notin LeftOf(ch, n)
  BY <1>4, <1>5, <1>6 DEF LeftOf
<1>9. ClassOf(ch, j + 1) \notin {"otherDay", "orphan"}
  <2> DEFINE prev == prevOf(ch, j + 1)
             day == ch[j + 1].day
  <2>1. prev.dir = "in" /\ prev.at = ch[j].at
    BY <1>3, <1>5 DEF prevOf
  <2> HIDE DEF prev
  <2>2. ClassOf(ch, j + 1) = IF day # NoInstant /\ prev.at < day THEN "otherDay"
                             ELSE IF ch[j + 1].at - prev.at > LongestShift THEN "tooLong"
                             ELSE "closes"
    BY <2>1, ClassIs DEF ClassOf, prev
  <2>3. ~(day # NoInstant /\ prev.at < day)
    BY <1>5, <2>1, ClosesIs
  <2> QED
    BY <2>2, <2>3
<1>10. v \notin WithoutIn(ch, n)
  BY <1>4, <1>5, <1>6, <1>9 DEF WithoutIn
<1> QED
  BY <1>2, <1>7, <1>8, <1>10

\* An approval adds its pair to the report and changes no other.
LEMMA ApprovalAdds ==
  ASSUME ClaimsInv, NEW m \in Managers, Approve(m)
  PROVE  LET pair == IF KindOf(mgr[m].anchor) = "out" THEN <<mgr[m].anchor, mgr[m].began>>
                     ELSE <<mgr[m].began, mgr[m].anchor>>
             report == accumulate(rows')
         IN  /\ pair \notin accumulate(rows).pairs
             /\ report.pairs = accumulate(rows).pairs \cup {pair}
             /\ mgr[m].anchor \notin report.left \cup report.outWithoutIn
<1>1. PICK at \in Instants, x \in rows, dir \in {"in", "out"} :
        /\ x.written = mgr[m].anchor /\ dir = KindOf(mgr[m].anchor)
        /\ evaluate(mgr[m].anchor, at) = "pending"
        /\ Runs(m) /\ Write(m, dir, at)
  BY ApproveIs
<1>2. PICK q : rows' = rows \cup {q} /\ HandRow(q, m, dir, at)
  BY <1>1, WriteAdds
<1>3. /\ q \notin rows /\ GoodRows(rows \cup {q}) /\ GoodRows(rows)
      /\ q.dir = dir /\ q.at = at /\ q.written = mgr[m].began /\ q.day = NoInstant
  BY <1>2 DEF HandRow, ClaimsInv, RowsInv
<1>4. LET ch == ChainOf(rows)
          i == IndexOf(ch, x.written)
      IN  Missing(ch, i) = q.dir /\ Closes(ch, i, q.at, cutoff)
  BY <1>1, <1>3, PendingCloses
<1>5. IntervalsOf(rows \cup {q})
        = IntervalsOf(rows) \cup {IF q.dir = "out" THEN <<x.written, q.written>>
                                  ELSE <<q.written, x.written>>}
  BY <1>3, <1>4, ApprovalMakesPair
<1>6. PICK pair : pair = IF q.dir = "out" THEN <<x.written, q.written>>
                         ELSE <<q.written, x.written>>
  OBVIOUS
<1>7. accumulate(rows).pairs = IntervalsOf(rows)
      /\ accumulate(rows').pairs = IntervalsOf(rows \cup {q})
  BY <1>2, <1>3, PairsAre
<1>8. pair \notin IntervalsOf(rows)
  <2>1. \A p \in rows \X rows :
          q.written # p[1].written /\ q.written # p[2].written
    BY <1>3 DEF GoodRows
  <2>2. \A p \in rows \X rows : pair # <<p[1].written, p[2].written>>
    <3>1. pair[1] = q.written \/ pair[2] = q.written
      BY <1>6
    <3>2. ASSUME NEW p \in rows \X rows PROVE pair # <<p[1].written, p[2].written>>
      <4>1. <<p[1].written, p[2].written>>[1] = p[1].written
            /\ <<p[1].written, p[2].written>>[2] = p[2].written
        OBVIOUS
      <4> QED
        BY <2>1, <3>1, <4>1
    <3> QED
      BY <3>2
  <2> QED
    BY <2>2 DEF IntervalsOf
<1>9. pair = IF KindOf(mgr[m].anchor) = "out" THEN <<mgr[m].anchor, mgr[m].began>>
             ELSE <<mgr[m].began, mgr[m].anchor>>
  BY <1>1, <1>3, <1>6
<1>10. mgr[m].anchor \notin accumulate(rows').left \cup accumulate(rows').outWithoutIn
  <2>1. pair \in accumulate(rows').pairs
    BY <1>5, <1>6, <1>7
  <2>2. GoodRows(rows')
    BY <1>2, <1>3
  <2>3. CASE q.dir = "out"
    BY <1>1, <1>6, <2>1, <2>2, <2>3, PairedIsNotListed
  <2>4. CASE q.dir # "out"
    BY <1>1, <1>6, <2>1, <2>2, <2>4, PairedIsNotListed
  <2> QED
    BY <2>3, <2>4
<1> QED
  BY <1>5, <1>6, <1>7, <1>8, <1>9, <1>10

\* An approval does what it was shown to do.
THEOREM ApprovalTheorem == Spec => ApprovalAddsItsPair
<1>1. ASSUME ClaimsInv, [Next]_vars
      PROVE  [\A d \in decisions' \ decisions : d.outcome = "approved" =>
                LET pair == IF KindOf(d.anchor) = "out" THEN <<d.anchor, d.record>>
                            ELSE <<d.record, d.anchor>>
                    report == accumulate(rows')
                IN  /\ pair \notin accumulate(rows).pairs
                    /\ report.pairs = accumulate(rows).pairs \cup {pair}
                    /\ d.anchor \notin report.left \cup report.outWithoutIn]_vars
  <2>1. ASSUME NEW d \in decisions' \ decisions, d.outcome = "approved"
        PROVE  LET pair == IF KindOf(d.anchor) = "out" THEN <<d.anchor, d.record>>
                           ELSE <<d.record, d.anchor>>
                   report == accumulate(rows')
               IN  /\ pair \notin accumulate(rows).pairs
                   /\ report.pairs = accumulate(rows).pairs \cup {pair}
                   /\ d.anchor \notin report.left \cup report.outWithoutIn
    <3>1. PICK m \in Managers : Approve(m) /\ d.anchor = mgr[m].anchor /\ d.record = mgr[m].began
      BY <1>1, <2>1, ApproveOnly
    <3> QED
      BY <1>1, <3>1, ApprovalAdds
  <2> QED
    BY <2>1
<1> QED
  BY <1>1, ClaimsInvariant, PTL DEF Spec, ApprovalAddsItsPair

---------------------------------------------------------------------------
(* The decision of one tap.                                                *)

(***************************************************************************)
(* Numbers.                                                                *)
(***************************************************************************)

\* A nonempty set of numbers from -1 to n has its greatest, which Max is.
LEMMA GreatestIs ==
  ASSUME NEW n \in Nat, NEW S, S \subseteq -1..n, S # {}
  PROVE  Max(S) \in S /\ \A y \in S : y <= Max(S)
<1> DEFINE T == {n - x : x \in S}
<1>1. T \subseteq Nat /\ T # {}
  <2>1. \A x \in S : n - x \in Nat
    OBVIOUS
  <2> QED
    BY <2>1
<1>2. PICK d \in T : \A y \in T : d <= y
  BY <1>1, LeastIs
<1>3. PICK x \in S : d = n - x
  BY <1>2
<1>4. ASSUME NEW y \in S PROVE x >= y
  BY <1>2, <1>3
<1> QED
  BY <1>4 DEF Max

\* A business day starts at a cutoff up to the instant, or nowhere.
LEMMA DayStartIs ==
  ASSUME NEW at \in Nat
  PROVE  BusinessDayStart(at) \in Int
<1>1. Cutoffs \subseteq Nat
  BY DirectionAssumption
<1>2. {NoTime} \cup {c \in Cutoffs : c <= at} \subseteq -1..at
  <2>1. NoTime \in -1..at
    BY DEF NoTime
  <2>2. ASSUME NEW c \in Cutoffs, c <= at PROVE c \in -1..at
    BY <1>1, <2>2
  <2> QED
    BY <2>1, <2>2
<1> HIDE DEF NoTime
<1>3. Max({NoTime} \cup {c \in Cutoffs : c <= at}) \in -1..at
  BY <1>2, GreatestIs
<1> QED
  BY <1>3 DEF BusinessDayStart

(***************************************************************************)
(* Direction.                                                              *)
(***************************************************************************)

\* For any instant and any check-in open at it: the engine says out exactly when
\* the ledger says that the out closes that check-in.
LEMMA PredictionIsClassification ==
  ASSUME NEW at \in Int, NEW open \in Int, open # NoTime, open <= at, NEW dayOn
  PROVE  PredictDirection(at, open, dayOn).dir = "out"
           <=> ClassifyCheckout([dir |-> "in", at |-> open, writtenLater |-> FALSE], TRUE, at,
                                PredictDirection(at, open, dayOn).dayStart) = "closes"
<1>1. PICK day : day = IF dayOn THEN BusinessDayStart(at) ELSE NoTime
  OBVIOUS
<1>2. PredictDirection(at, open, dayOn).dayStart = day
  BY <1>1 DEF PredictDirection
<1>3. PredictDirection(at, open, dayOn).dir = "out"
        <=> ~(day # NoTime /\ open < day) /\ ~(at - open > StaleOpenIn)
  BY <1>1 DEF PredictDirection
<1>4. ClassifyCheckout([dir |-> "in", at |-> open, writtenLater |-> FALSE], TRUE, at, day) = "closes"
        <=> ~(day # NoTime /\ open < day) /\ ~(at - open > StaleOpenIn)
  BY DEF ClassifyCheckout
<1> QED
  BY <1>2, <1>3, <1>4

\* What a chosen direction says, for any input whose instants are numbers.
LEMMA ChosenIsExplained ==
  ASSUME NEW i, tapInstant(i) \in Nat, i.lastOpenIn \in Int,
         resolveDirection(i).source = "employee"
  PROVE  LET r == resolveDirection(i)
         IN  /\ r.dir = i.want
             /\ r.dir = "in" => r.leftOpen = "employeeChoice" /\ i.lastOpenIn # NoTime
             /\ r.dir = "out" /\ r.missingIn = "none" =>
                  /\ i.lastOpenIn # NoTime
                  /\ tapInstant(i) - i.lastOpenIn > StaleOpenIn
                  /\ BusinessDayStart(tapInstant(i)) <= i.lastOpenIn
<1>1. PICK at \in Nat : at = tapInstant(i)
  OBVIOUS
<1>2. PICK open \in Int : open = i.lastOpenIn
  OBVIOUS
<1>3. PICK start \in Int : start = BusinessDayStart(at)
  BY DayStartIs
<1>4. PICK day \in Int : day = IF i.dayOn THEN start ELSE NoTime
  BY DEF NoTime
<1>5. PICK p : p = PredictDirection(at, open, i.dayOn)
  OBVIOUS
<1>6. p = IF open = NoTime \/ open > at
            THEN [dir |-> "in", dayStart |-> day, leftOpen |-> "none"]
          ELSE IF day # NoTime /\ open < day
            THEN [dir |-> "in", dayStart |-> day, leftOpen |-> "previousDay"]
          ELSE IF at - open > StaleOpenIn
            THEN [dir |-> "in", dayStart |-> day, leftOpen |-> "stale"]
          ELSE [dir |-> "out", dayStart |-> day, leftOpen |-> "none"]
  BY <1>3, <1>4, <1>5, Zenon DEF PredictDirection
<1>7. PICK prev : prev = IF p.leftOpen # "none"
                         THEN [dir |-> "in", at |-> open, writtenLater |-> FALSE]
                         ELSE NoPrev
  OBVIOUS
<1>8. PICK class : class = ClassifyCheckout(prev, FALSE, at, p.dayStart)
  OBVIOUS
<1>9. /\ i.want \in {"in", "out"} /\ i.want # p.dir /\ p.dayStart # NoTime
      /\ resolveDirection(i) =
           IF i.want = "in"
           THEN [dir |-> "in", source |-> "employee", leftOpen |-> "employeeChoice",
                 missingIn |-> "none"]
           ELSE [dir |-> "out", source |-> "employee", leftOpen |-> "none",
                 missingIn |-> IF class \in {"otherDay", "orphan"} THEN class ELSE "none"]
  BY <1>1, <1>2, <1>5, <1>7, <1>8 DEF resolveDirection
<1>10. p.dayStart = day /\ day = start
  BY <1>4, <1>6, <1>9
<1>11. CASE i.want = "in"
  BY <1>2, <1>6, <1>9, <1>11
<1>12. CASE i.want = "out"
  <2>1. p.dir = "in"
    BY <1>6, <1>9, <1>12
  <2>2. CASE p.leftOpen = "none"
    <3>1. class = "orphan"
      BY <1>7, <1>8, <1>9, <2>2 DEF NoPrev, ClassifyCheckout
    <3> QED
      BY <1>9, <1>12, <3>1
  <2>3. CASE p.leftOpen = "previousDay"
    <3>1. open < day
      BY <1>6, <2>3
    <3>2. class = "otherDay"
      BY <1>7, <1>8, <1>9, <1>10, <2>3, <3>1 DEF ClassifyCheckout
    <3> QED
      BY <1>9, <1>12, <3>2
  <2>4. CASE p.leftOpen = "stale"
    <3>1. open # NoTime /\ ~(open < day) /\ at - open > StaleOpenIn
      BY <1>6, <1>9, <1>10, <2>4
    <3> QED
      BY <1>1, <1>2, <1>3, <1>9, <1>10, <1>12, <3>1
  <2> QED
    BY <1>6, <2>2, <2>3, <2>4
<1> QED
  BY <1>9, <1>11, <1>12

(***************************************************************************)
(* The scan.                                                               *)
(***************************************************************************)

\* A scope is a number, whatever the patterns and the resources are.
LEMMA ScopeIs ==
  ASSUME NEW patterns, NEW resources
  PROVE  /\ statementSpecificity(patterns, resources) \in -1..2
         /\ \A p \in patterns, r \in resources :
              patternMatch(p, r) <= statementSpecificity(patterns, resources)
         /\ \/ statementSpecificity(patterns, resources) = -1
            \/ \E p \in patterns, r \in resources :
                 patternMatch(p, r) = statementSpecificity(patterns, resources)
<1> DEFINE S == {-1} \cup {patternMatch(p, r) : p \in patterns, r \in resources}
<1>1. \A p, r : patternMatch(p, r) \in -1..2
  BY DEF patternMatch
<1>2. S \subseteq -1..2 /\ S # {}
  BY <1>1
<1>3. statementSpecificity(patterns, resources) = Max(S)
  BY DEF statementSpecificity
<1>4. \A p \in patterns, r \in resources : patternMatch(p, r) \in S
  OBVIOUS
<1>5. \A y \in S : y = -1 \/ \E p \in patterns, r \in resources : patternMatch(p, r) = y
  OBVIOUS
<1> HIDE DEF S
<1>6. 2 \in Nat /\ Max(S) \in S /\ \A y \in S : y <= Max(S)
  BY <1>2, GreatestIs
<1> QED
  BY <1>2, <1>3, <1>4, <1>5, <1>6

\* So is a rank.
LEMMA RankIs == \A e : restrictiveness(e) \in 0..4
BY DEF restrictiveness

\* The one that wins a comparison: more specific, or as specific and more restrictive.
Beats(m, best) ==
  \/ m.spec > best.spec
  \/ m.spec = best.spec /\ restrictiveness(m.effect) > restrictiveness(best.effect)

\* A statement that the scan compares, and what it compares it as.
Candidate(st, c) == Applies(st, c) /\ st.effect # "note"
Found(st, layer, c) ==
  [effect |-> st.effect, sid |-> st.sid, layer |-> layer,
   spec |-> statementSpecificity(st.resource, c.resources)]

\* The scan's function of the number of statements read.
IsScan(g, start, sts, layer, c, n) ==
  g = [i \in 0..n |-> IF i = 0 THEN start ELSE scanOne(g[i - 1], sts[i], layer, c)]

\* The recursion is well founded: a function of so many statements is extended by
\* what the next one does.
LEMMA ScanExists ==
  ASSUME NEW start, NEW sts, NEW layer, NEW c, NEW n \in Nat
  PROVE  \E g : IsScan(g, start, sts, layer, c, n)
<1> DEFINE Bad == {k \in Nat : ~\E g : IsScan(g, start, sts, layer, c, k)}
<1>1. SUFFICES ASSUME Bad # {} PROVE FALSE
  OBVIOUS
<1>2. PICK k \in Bad : \A y \in Bad : k <= y
  BY <1>1, LeastIs
<1>3. CASE k = 0
  <2>1. IsScan([i \in 0..0 |-> start], start, sts, layer, c, 0)
    BY DEF IsScan
  <2> QED
    BY <1>2, <1>3, <2>1
<1>4. CASE k # 0
  <2>1. k - 1 \in Nat /\ k - 1 \notin Bad
    BY <1>2, <1>4
  <2>2. PICK g : IsScan(g, start, sts, layer, c, k - 1)
    BY <2>1
  <2> DEFINE h == [i \in 0..k |-> IF i < k THEN g[i] ELSE scanOne(g[k - 1], sts[k], layer, c)]
  <2>3. ASSUME NEW i \in 0..k
        PROVE  h[i] = IF i = 0 THEN start ELSE scanOne(h[i - 1], sts[i], layer, c)
    <3>1. CASE i = k
      <4>1. h[i] = scanOne(g[k - 1], sts[k], layer, c) /\ h[k - 1] = g[k - 1]
        BY <1>4, <2>1, <3>1
      <4> QED
        BY <1>4, <3>1, <4>1
    <3>2. CASE i < k
      <4>1. g[i] = IF i = 0 THEN start ELSE scanOne(g[i - 1], sts[i], layer, c)
        BY <2>1, <2>2, <3>2 DEF IsScan
      <4>2. h[i] = g[i] /\ (i # 0 => h[i - 1] = g[i - 1])
        BY <2>1, <3>2
      <4> QED
        BY <4>1, <4>2
    <3> QED
      BY <3>1, <3>2, <1>2
  <2>4. IsScan(h, start, sts, layer, c, k)
    <3>1. h = [i \in 0..k |-> h[i]]
      OBVIOUS
    <3> HIDE DEF h
    <3> QED
      BY <2>3, <3>1, Zenon DEF IsScan
  <2> QED
    BY <1>2, <2>4
<1> QED
  BY <1>3, <1>4

\* The scan is the value of its function at the last statement.
LEMMA ScanIs ==
  ASSUME NEW start, NEW sts, NEW layer, NEW c, Len(sts) \in Nat
  PROVE  \E g : /\ IsScan(g, start, sts, layer, c, Len(sts))
                /\ scan(start, sts, layer, c) = g[Len(sts)]
<1> DEFINE F == CHOOSE g : IsScan(g, start, sts, layer, c, Len(sts))
<1>1. IsScan(F, start, sts, layer, c, Len(sts))
  BY ScanExists, Zenon
<1>2. scan(start, sts, layer, c) = F[Len(sts)]
  BY Zenon DEF scan, IsScan
<1> QED
  BY <1>1, <1>2

\* What the scan has found after n statements: what it started from, if none of
\* them beats that; or one that beats it, every one before and no one after.
HasFound(best, start, sts, layer, c, n) ==
  \/ /\ best = start
     /\ \A j \in 1..n : Candidate(sts[j], c) => ~Beats(Found(sts[j], layer, c), start)
  \/ \E i \in 1..n :
       /\ Candidate(sts[i], c)
       /\ best = Found(sts[i], layer, c)
       /\ Beats(best, start)
       /\ \A j \in 1..n : Candidate(sts[j], c) =>
            /\ ~Beats(Found(sts[j], layer, c), best)
            /\ j < i => Beats(best, Found(sts[j], layer, c))

\* What a candidate is compared by are numbers.
LEMMA FoundIs ==
  ASSUME NEW st, NEW layer, NEW c
  PROVE  /\ Found(st, layer, c).spec \in Int
         /\ Found(st, layer, c).effect = st.effect
         /\ Found(st, layer, c).sid = st.sid
         /\ Found(st, layer, c).spec = statementSpecificity(st.resource, c.resources)
         /\ Candidate(st, c) => Found(st, layer, c).spec >= 0
<1>1. statementSpecificity(st.resource, c.resources) \in -1..2
  BY ScopeIs
<1> QED
  BY <1>1 DEF Found, Candidate, Applies

\* Of three, the one that beats another beats what that one is not beaten by.
LEMMA BeatsThrough ==
  ASSUME NEW x, NEW y, NEW z, x.spec \in Int, y.spec \in Int, z.spec \in Int,
         Beats(x, y), ~Beats(z, y)
  PROVE  Beats(x, z) /\ ~Beats(z, x)
BY RankIs DEF Beats

\* The one that is not beaten by what beats the start beats the start too.
LEMMA BeatsOn ==
  ASSUME NEW x, NEW y, NEW z, x.spec \in Int, y.spec \in Int, z.spec \in Int,
         Beats(x, y), Beats(y, z)
  PROVE  Beats(x, z)
BY RankIs DEF Beats

\* One statement more.
LEMMA ScanOneStep ==
  ASSUME NEW best, NEW start, NEW sts, NEW layer, NEW c, NEW n \in Nat,
         start.spec \in Int, HasFound(best, start, sts, layer, c, n)
  PROVE  HasFound(scanOne(best, sts[n + 1], layer, c), start, sts, layer, c, n + 1)
<1> DEFINE found(j) == Found(sts[j], layer, c)
           next == scanOne(best, sts[n + 1], layer, c)
<1>1. best.spec \in Int
  <2>1. best = start \/ \E i \in 1..n : best = found(i)
    BY Zenon DEF HasFound
  <2>2. \A i : found(i).spec \in Int
    BY FoundIs
  <2> HIDE DEF found
  <2> QED
    BY <2>1, <2>2
<1>2. /\ \A j : found(j).spec \in Int
      /\ 1..(n + 1) = 1..n \cup {n + 1}
  BY FoundIs
<1>3. CASE ~Candidate(sts[n + 1], c)
  <2>1. next = best
    BY <1>3, Zenon DEF scanOne, Candidate
  <2> QED
    BY <1>2, <1>3, <2>1, Zenon DEF HasFound
<1>4. CASE Candidate(sts[n + 1], c) /\ Beats(found(n + 1), best)
  <2>1. next = found(n + 1)
    BY <1>4, Zenon DEF scanOne, Candidate, consider, Beats, Found
  <2>2. Beats(found(n + 1), start)
    BY <1>1, <1>2, <1>4, BeatsOn, Zenon DEF HasFound
  <2>3. ASSUME NEW j \in 1..n, Candidate(sts[j], c)
        PROVE  ~Beats(found(j), found(n + 1)) /\ Beats(found(n + 1), found(j))
    <3>1. ~Beats(found(j), best)
      BY <2>3, Zenon DEF HasFound
    <3> QED
      BY <1>1, <1>2, <1>4, <3>1, BeatsThrough, Zenon
  <2>4. ~Beats(found(n + 1), found(n + 1))
    BY <1>2, RankIs DEF Beats
  <2>5. n + 1 \in 1..(n + 1) /\ ~(n + 1 < n + 1)
    OBVIOUS
  <2>6. \A j \in 1..(n + 1) : Candidate(sts[j], c) =>
          ~Beats(found(j), found(n + 1)) /\ (j < n + 1 => Beats(found(n + 1), found(j)))
    BY <1>2, <2>3, <2>4, <2>5, Zenon
  <2> QED
    BY <1>4, <2>1, <2>2, <2>5, <2>6, Zenon DEF HasFound
<1>5. CASE Candidate(sts[n + 1], c) /\ ~Beats(found(n + 1), best)
  <2>1. next = best
    BY <1>5, Zenon DEF scanOne, Candidate, consider, Beats, Found
  <2>2. CASE best = start /\ \A j \in 1..n : Candidate(sts[j], c) => ~Beats(found(j), start)
    BY <1>2, <1>5, <2>1, <2>2, Zenon DEF HasFound
  <2>3. ASSUME NEW i \in 1..n, Candidate(sts[i], c), best = found(i), Beats(best, start),
               \A j \in 1..n : Candidate(sts[j], c) =>
                 ~Beats(found(j), best) /\ (j < i => Beats(best, found(j)))
        PROVE  HasFound(next, start, sts, layer, c, n + 1)
    <3>1. ~(n + 1 < i)
      BY <2>3
    <3> QED
      BY <1>2, <1>5, <2>1, <2>3, <3>1, Zenon DEF HasFound
  <2> QED
    BY <2>2, <2>3, Zenon DEF HasFound
<1> QED
  BY <1>3, <1>4, <1>5

\* The scan of a whole sequence.
LEMMA ScanFinds ==
  ASSUME NEW start, NEW sts, NEW layer, NEW c, Len(sts) \in Nat, start.spec \in Int
  PROVE  HasFound(scan(start, sts, layer, c), start, sts, layer, c, Len(sts))
<1>1. PICK g : /\ IsScan(g, start, sts, layer, c, Len(sts))
               /\ scan(start, sts, layer, c) = g[Len(sts)]
  BY ScanIs
<1> DEFINE Bad == {k \in Nat : k <= Len(sts) /\ ~HasFound(g[k], start, sts, layer, c, k)}
<1>2. ASSUME Bad # {} PROVE FALSE
  <2>1. PICK k \in Bad : \A y \in Bad : k <= y
    BY <1>2, LeastIs
  <2>2. k # 0
    <3>1. g[0] = start
      BY <1>1 DEF IsScan
    <3>2. HasFound(g[0], start, sts, layer, c, 0)
      BY <3>1 DEF HasFound
    <3> QED
      BY <2>1, <3>2
  <2>3. k - 1 \in Nat /\ k - 1 \notin Bad /\ k - 1 <= Len(sts) /\ k - 1 + 1 = k
    BY <2>1, <2>2
  <2>4. HasFound(g[k - 1], start, sts, layer, c, k - 1)
    BY <2>3
  <2>5. g[k] = scanOne(g[k - 1], sts[k], layer, c)
    BY <1>1, <2>1, <2>2 DEF IsScan
  <2>6. HasFound(scanOne(g[k - 1], sts[k - 1 + 1], layer, c), start, sts, layer, c, k - 1 + 1)
    BY <2>3, <2>4, ScanOneStep
  <2> QED
    BY <2>1, <2>3, <2>5, <2>6
<1> QED
  BY <1>1, <1>2

(***************************************************************************)
(* The whole evaluation.                                                   *)
(***************************************************************************)

\* Of two candidates of one list, the first rules: it is more specific, or more
\* restrictive, or comes first.
Rules(i, j, sts, c) ==
  LET scope(k) == statementSpecificity(sts[k].resource, c.resources)
      rank(k) == restrictiveness(sts[k].effect)
  IN  \/ scope(i) > scope(j)
      \/ scope(i) = scope(j) /\ rank(i) > rank(j)
      \/ scope(i) = scope(j) /\ rank(i) = rank(j) /\ i <= j

\* A statement rules what it beats, and what comes later and does not beat it.
LEMMA RulesIs ==
  ASSUME NEW i \in Int, NEW j \in Int, NEW sts, NEW c, NEW l, NEW m,
         \/ Beats(Found(sts[i], l, c), Found(sts[j], m, c))
         \/ i <= j /\ ~Beats(Found(sts[j], m, c), Found(sts[i], l, c))
  PROVE  Rules(i, j, sts, c)
BY FoundIs, RankIs DEF Beats, Rules

\* all is n statements of s and then m of t.
OneList(all, s, n, t, m) ==
  /\ \A i \in 1..n : all[i] = s[i]
  /\ \A i \in 1..m : all[n + i] = t[i]
  /\ \A k \in 1..(n + m) : k \in 1..n \/ \E i \in 1..m : k = n + i

\* A list read after another.
LEMMA Appended ==
  ASSUME NEW S, NEW s \in Seq(S), NEW t \in Seq(S)
  PROVE  /\ Len(s) \in Nat /\ Len(t) \in Nat
         /\ DOMAIN (s \o t) = 1..(Len(s) + Len(t))
         /\ OneList(s \o t, s, Len(s), t, Len(t))
<1>1. Len(s) \in Nat /\ Len(t) \in Nat
  OBVIOUS
<1>2. ASSUME NEW k \in 1..(Len(s) + Len(t)), k \notin 1..Len(s)
      PROVE  k - Len(s) \in 1..Len(t) /\ k = Len(s) + (k - Len(s))
  BY <1>1, <1>2
<1>3. \A i \in 1..Len(s) : (s \o t)[i] = s[i]
  OBVIOUS
<1>4. \A i \in 1..Len(t) : (s \o t)[Len(s) + i] = t[i]
  OBVIOUS
<1>5. DOMAIN (s \o t) = 1..(Len(s) + Len(t))
  OBVIOUS
<1> QED
  BY <1>1, <1>2, <1>3, <1>4, <1>5, Zenon DEF OneList

\* What the two scans of the documents, in their order, leave.
Best(set, c) == scan(scan(NoMatch, set.baseline, "baseline", c), set.tenant, "tenant", c)

\* What a scan of k statements may end with: nothing, when none of them is a
\* candidate; else the one that rules all others.
Settled(best, all, k, c) ==
  \/ /\ best = NoMatch
     /\ \A j \in 1..k : ~Candidate(all[j], c)
  \/ \E i \in 1..k :
       /\ Candidate(all[i], c)
       /\ best # NoMatch
       /\ best.sid = all[i].sid
       /\ best.effect = all[i].effect
       /\ \A j \in 1..k : Candidate(all[j], c) => Rules(i, j, all, c)

\* Two scans, one after the other, settle what is in the two lists.
LEMMA TwoScans ==
  ASSUME NEW s, NEW t, NEW n \in Nat, NEW m \in Nat, Len(s) = n, Len(t) = m, NEW c, NEW all,
         OneList(all, s, n, t, m),
         NEW best, best = scan(scan(NoMatch, s, "baseline", c), t, "tenant", c)
  PROVE  Settled(best, all, n + m, c)
<1>1. PICK after : after = scan(NoMatch, s, "baseline", c)
  OBVIOUS
<1>2. best = scan(after, t, "tenant", c)
  BY <1>1
<1>3. /\ NoMatch.spec = -1
      /\ \A st, l : Candidate(st, c) => Beats(Found(st, l, c), NoMatch)
      /\ \A st, l : Candidate(st, c) => Found(st, l, c) # NoMatch
  <2>1. NoMatch.spec = -1
    BY DEF NoMatch
  <2>2. ASSUME NEW st, NEW l, Candidate(st, c)
        PROVE  Found(st, l, c).spec > NoMatch.spec
    BY <2>1, <2>2, FoundIs
  <2>3. ASSUME NEW st, NEW l, Candidate(st, c)
        PROVE  Found(st, l, c) # NoMatch
    BY <2>1, <2>2, <2>3
  <2> QED
    BY <2>1, <2>2, <2>3, Zenon DEF Beats
<1>4. HasFound(after, NoMatch, s, "baseline", c, n)
  BY <1>1, <1>3, ScanFinds
<1>5. after.spec \in Int
  BY <1>3, <1>4, FoundIs DEF HasFound
<1>6. HasFound(best, after, t, "tenant", c, m)
  BY <1>2, <1>5, ScanFinds
<1>7. \/ after = NoMatch /\ \A j \in 1..n : ~Candidate(s[j], c)
      \/ \E i \in 1..n :
           /\ Candidate(s[i], c) /\ after = Found(s[i], "baseline", c)
           /\ \A j \in 1..n : Candidate(s[j], c) =>
                /\ ~Beats(Found(s[j], "baseline", c), after)
                /\ j < i => Beats(after, Found(s[j], "baseline", c))
  BY <1>3, <1>4, Zenon DEF HasFound
<1>8. \/ best = after /\ \A j \in 1..m : Candidate(t[j], c) => ~Beats(Found(t[j], "tenant", c), after)
      \/ \E i \in 1..m :
           /\ Candidate(t[i], c) /\ best = Found(t[i], "tenant", c) /\ Beats(best, after)
           /\ \A j \in 1..m : Candidate(t[j], c) =>
                /\ ~Beats(Found(t[j], "tenant", c), best)
                /\ j < i => Beats(best, Found(t[j], "tenant", c))
  BY <1>6, Zenon DEF HasFound
<1>9. CASE best = after /\ after = NoMatch
  <2>1. \A j \in 1..n : ~Candidate(s[j], c)
    BY <1>3, <1>7, <1>9, Zenon
  <2>2. \A j \in 1..m : ~Candidate(t[j], c)
    BY <1>3, <1>8, <1>9, Zenon
  <2> QED
    <3>1. ASSUME NEW j \in 1..(n + m) PROVE ~Candidate(all[j], c)
      <4>1. CASE j \in 1..n
        BY <2>1, <4>1, Zenon DEF OneList
      <4>2. ASSUME NEW i \in 1..m, j = n + i PROVE ~Candidate(all[j], c)
        BY <2>2, <4>2, Zenon DEF OneList
      <4> QED
        BY <4>1, <4>2, Zenon DEF OneList
    <3> QED
      BY <1>9, <3>1, Zenon DEF Settled
<1>10. ASSUME best = after, after # NoMatch
       PROVE  \E i \in 1..(n + m) :
                /\ Candidate(all[i], c) /\ best # NoMatch
                /\ best.sid = all[i].sid /\ best.effect = all[i].effect
                /\ \A j \in 1..(n + m) : Candidate(all[j], c) => Rules(i, j, all, c)
  <2>1. PICK i \in 1..n :
          /\ Candidate(s[i], c) /\ after = Found(s[i], "baseline", c)
          /\ \A j \in 1..n : Candidate(s[j], c) =>
               /\ ~Beats(Found(s[j], "baseline", c), after)
               /\ j < i => Beats(after, Found(s[j], "baseline", c))
    BY <1>7, <1>10, Zenon
  <2>2. i \in 1..(n + m) /\ all[i] = s[i] /\ i \in Int /\ i <= n
    BY DEF OneList
  <2>3. ASSUME NEW j \in 1..n, Candidate(all[j], c) PROVE Rules(i, j, all, c)
    <3>1. all[j] = s[j] /\ j \in Int
      BY DEF OneList
    <3>2. CASE j < i
      BY <2>1, <2>2, <2>3, <3>1, <3>2, RulesIs
    <3>3. CASE i <= j
      BY <2>1, <2>2, <2>3, <3>1, <3>3, RulesIs
    <3> QED
      BY <2>2, <3>1, <3>2, <3>3
  <2>4. ASSUME NEW k \in 1..m, Candidate(all[n + k], c) PROVE Rules(i, n + k, all, c)
    <3>1. all[n + k] = t[k] /\ n + k \in Int /\ i <= n + k
      BY <2>2 DEF OneList
    <3>2. ~Beats(Found(t[k], "tenant", c), after)
      BY <1>3, <1>8, <1>10, <2>4, <3>1, RankIs DEF Beats
    <3> QED
      BY <2>1, <2>2, <3>1, <3>2, RulesIs
  <2>5. after.sid = s[i].sid /\ after.effect = s[i].effect
    BY <2>1, FoundIs
  <2> QED
    BY <1>10, <2>1, <2>2, <2>3, <2>4, <2>5 DEF OneList
<1>11. ASSUME NEW i \in 1..m,
              Candidate(t[i], c), best = Found(t[i], "tenant", c), Beats(best, after),
              \A j \in 1..m : Candidate(t[j], c) =>
                 /\ ~Beats(Found(t[j], "tenant", c), best)
                 /\ j < i => Beats(best, Found(t[j], "tenant", c))
       PROVE  \E k \in 1..(n + m) :
                /\ Candidate(all[k], c) /\ best # NoMatch
                /\ best.sid = all[k].sid /\ best.effect = all[k].effect
                /\ \A j \in 1..(n + m) : Candidate(all[j], c) => Rules(k, j, all, c)
  <2>1. n + i \in 1..(n + m) /\ all[n + i] = t[i] /\ n + i \in Int
    BY DEF OneList
  <2>2. ASSUME NEW j \in 1..n, Candidate(all[j], c) PROVE Rules(n + i, j, all, c)
    <3>1. all[j] = s[j] /\ j \in Int
      BY DEF OneList
    <3>2. ~Beats(Found(s[j], "baseline", c), after)
      BY <1>7, <2>2, <3>1, Zenon
    <3>3. Beats(best, Found(s[j], "baseline", c))
      <4>1. best.spec \in Int
        BY <1>11, FoundIs
      <4>2. Found(s[j], "baseline", c).spec \in Int
        BY FoundIs
      <4> QED
        BY <1>5, <1>11, <3>2, <4>1, <4>2, BeatsThrough
    <3> QED
      BY <1>11, <2>1, <3>1, <3>3, RulesIs
  <2>3. ASSUME NEW j \in 1..m, Candidate(all[n + j], c) PROVE Rules(n + i, n + j, all, c)
    <3>1. all[n + j] = t[j] /\ n + j \in Int
      BY DEF OneList
    <3>2. CASE j < i
      BY <1>11, <2>1, <2>3, <3>1, <3>2, RulesIs
    <3>3. CASE n + i <= n + j
      BY <1>11, <2>1, <2>3, <3>1, <3>3, RulesIs
    <3> QED
      BY <3>2, <3>3
  <2>4. best.sid = t[i].sid /\ best.effect = t[i].effect /\ best # NoMatch
    BY <1>3, <1>11, FoundIs
  <2> QED
    BY <1>11, <2>1, <2>2, <2>3, <2>4 DEF OneList
<1> QED
  BY <1>8, <1>9, <1>10, <1>11, Zenon DEF Settled

\* The same of a policy set: its documents are read as one list.
LEMMA BestIs ==
  ASSUME NEW S, NEW set, set.baseline \in Seq(S), set.tenant \in Seq(S), NEW c,
         NEW all, all = set.baseline \o set.tenant
  PROVE  \/ /\ Best(set, c) = NoMatch
            /\ \A j \in DOMAIN all : ~Candidate(all[j], c)
         \/ \E i \in DOMAIN all :
              /\ Candidate(all[i], c)
              /\ Best(set, c) # NoMatch
              /\ Best(set, c).sid = all[i].sid
              /\ Best(set, c).effect = all[i].effect
              /\ \A j \in DOMAIN all : Candidate(all[j], c) => Rules(i, j, all, c)
<1>1. PICK n \in Nat, m \in Nat :
        /\ Len(set.baseline) = n /\ Len(set.tenant) = m
        /\ DOMAIN all = 1..(n + m)
        /\ OneList(all, set.baseline, n, set.tenant, m)
  <2>1. PICK s \in Seq(S) : s = set.baseline
    OBVIOUS
  <2>2. PICK t \in Seq(S) : t = set.tenant
    OBVIOUS
  <2>3. all = s \o t
    BY <2>1, <2>2
  <2>4. /\ Len(s) \in Nat /\ Len(t) \in Nat
        /\ DOMAIN (s \o t) = 1..(Len(s) + Len(t))
    BY Appended, Zenon
  <2>5. OneList(s \o t, s, Len(s), t, Len(t))
    BY Appended, Zenon
  <2> QED
    BY <2>1, <2>2, <2>3, <2>4, <2>5, Zenon
<1>2. PICK best : best = Best(set, c)
  OBVIOUS
<1>3. best = scan(scan(NoMatch, set.baseline, "baseline", c), set.tenant, "tenant", c)
  BY <1>2, Zenon DEF Best
<1>4. Settled(best, all, n + m, c)
  BY <1>1, <1>3, TwoScans, Zenon
<1> QED
  BY <1>1, <1>2, <1>4, Zenon DEF Settled

\* The guardrails come first, and none of them allows: the one that is hit first
\* gives the effect, whatever the documents say.
LEMMA GuardrailsFirst ==
  ASSUME NEW set, NEW c, \E i \in DOMAIN Guardrails : Matches(Guardrails[i].sid, c)
  PROVE  Evaluate(set, c).effect # "allow"
<1> DEFINE hits == {i \in DOMAIN Guardrails : Matches(Guardrails[i].sid, c)}
           first == Min(hits)
<1>1. DOMAIN Guardrails = 1..11
  BY DEF Guardrails
<1>2. hits \subseteq Nat /\ hits # {} /\ hits \subseteq 1..11
  BY <1>1
<1>3. Evaluate(set, c).effect = Guardrails[first].effect
  BY <1>2 DEF Evaluate
<1>4. \A i \in 1..11 : Guardrails[i].effect # "allow"
  BY DEF Guardrails
<1> HIDE DEF hits
<1>5. first \in hits
  BY <1>2, LeastIs DEF Min
<1> HIDE DEF first
<1> QED
  BY <1>2, <1>3, <1>4, <1>5

\* Where no guardrail is hit, the documents decide: by the statement that rules all
\* the others that apply, for any documents of any length and in any order; by
\* default, when none applies.
THEOREM DocumentsDecide ==
  ASSUME NEW S, NEW set, set.baseline \in Seq(S), set.tenant \in Seq(S), NEW c,
         ~\E i \in DOMAIN Guardrails : Matches(Guardrails[i].sid, c),
         NEW all, all = set.baseline \o set.tenant
  PROVE  \/ /\ \A j \in DOMAIN all : ~Candidate(all[j], c)
            /\ Evaluate(set, c) = defaultDecision(c.action)
         \/ \E i \in DOMAIN all :
              /\ Candidate(all[i], c)
              /\ Evaluate(set, c).sid = all[i].sid
              /\ Evaluate(set, c).effect = all[i].effect
              /\ \A j \in DOMAIN all : Candidate(all[j], c) => Rules(i, j, all, c)
<1> DEFINE best == Best(set, c)
<1>1. {i \in DOMAIN Guardrails : Matches(Guardrails[i].sid, c)} = {}
  OBVIOUS
<1>2. Evaluate(set, c) =
        IF best = NoMatch THEN defaultDecision(c.action)
        ELSE [effect |-> best.effect, sid |-> best.sid, layer |-> best.layer, alert |-> FALSE]
  BY <1>1, Zenon DEF Evaluate, Best
<1> HIDE DEF best
<1>3. best # NoMatch => Evaluate(set, c).sid = best.sid /\ Evaluate(set, c).effect = best.effect
  BY <1>2
<1>4. best = NoMatch => Evaluate(set, c) = defaultDecision(c.action)
  BY <1>2, Zenon
<1> QED
  BY <1>3, <1>4, BestIs, Zenon DEF best

(***************************************************************************)
(* The inputs.                                                             *)
(***************************************************************************)

\* The documents of a set are lists.
LEMMA SetsAreLists ==
  ASSUME NEW s \in Sets
  PROVE  \E S : s.baseline \in Seq(S) /\ s.tenant \in Seq(S)
<1>1. \E S : Baseline \in Seq(S)
  <2>1. \A e1, e2, e3, e4, e5, e6, e7, e8, e9, e10 :
          <<e1, e2, e3, e4, e5, e6, e7, e8, e9, e10>>
            \in Seq({e1, e2, e3, e4, e5, e6, e7, e8, e9, e10})
    OBVIOUS
  <2> QED
    BY <2>1, Zenon DEF Baseline
<1>2. s.baseline = Baseline \/ s.baseline = <<>>
  BY DEF Sets, guardrailsOnly
<1>3. s.tenant = <<>> \/ (\E x : s.tenant = <<x>>) \/ (\E x, y : s.tenant = <<x, y>>)
  BY DEF Sets, guardrailsOnly, TenantDocs
<1>4. \A x, y : /\ <<>> \in Seq({x, y}) /\ <<x>> \in Seq({x, y}) /\ <<x, y>> \in Seq({x, y})
  OBVIOUS
<1>5. \E S : s.baseline \in Seq(S)
  BY <1>1, <1>2, <1>4, Zenon
<1>6. \E S : s.tenant \in Seq(S)
  <2>1. CASE s.tenant = <<>>
    BY <1>4, <2>1, Zenon
  <2>2. ASSUME NEW x, s.tenant = <<x>> PROVE \E S : s.tenant \in Seq(S)
    BY <1>4, <2>2, Zenon
  <2>3. ASSUME NEW x, NEW y, s.tenant = <<x, y>> PROVE \E S : s.tenant \in Seq(S)
    <3>1. s.tenant \in Seq({x, y})
      BY <2>3
    <3> QED
      BY <3>1, Zenon
  <2> QED
    BY <1>3, <2>1, <2>2, <2>3, Zenon
<1>7. ASSUME NEW S, NEW T, NEW u \in Seq(S) PROVE u \in Seq(S \cup T) /\ u \in Seq(T \cup S)
  OBVIOUS
<1>8. PICK S, T : s.baseline \in Seq(S) /\ s.tenant \in Seq(T)
  BY <1>5, <1>6, Zenon
<1>9. s.baseline \in Seq(S \cup T) /\ s.tenant \in Seq(S \cup T)
  BY <1>7, <1>8, Zenon
<1> QED
  BY <1>9, Zenon

\* What the theorems use of an input.
InputType ==
  /\ in.policySet \in Sets
  /\ tapInstant(in) \in Nat
  /\ in.lastOpenIn \in Int
  /\ in.lastOpenIn # NoTime => in.lastOpenIn <= tapInstant(in)
  /\ in.location = "wall"
  /\ in.channel \in {"nfc", "qr"}
  /\ in.ipMatch \in BOOLEAN
  /\ in.ctrGap \in {0, 1}
  /\ occurredAtSkew(in) \in Int

\* An input is decided once, by Decide.
DecideInv == InputType /\ (dec = Undecided \/ dec = Decide(in))

\* The inputs are of the type.
LEMMA DecideStarts == DecideInit => DecideInv
<1> SUFFICES ASSUME DecideInit PROVE InputType
  BY DEF DecideInit, DecideInv
<1>0. MaxAt \in Nat
  BY BoundAssumption
<1>1. ASSUME NEW c \in Cases, NEW s \in Sets, in = [c EXCEPT !.policySet = s]
      PROVE  InputType
  <2>1. /\ c.now = MaxAt /\ c.occurredAt \in 0..MaxAt /\ c.lastOpenIn = NoTime
        /\ c.location = "wall" /\ c.channel \in {"nfc", "qr"} /\ c.ipMatch \in BOOLEAN
        /\ c.ctrGap \in {0, 1}
    BY DEF Cases
  <2>2. /\ in.policySet = s /\ in.now = c.now /\ in.occurredAt = c.occurredAt
        /\ in.lastOpenIn = c.lastOpenIn /\ in.location = c.location
        /\ in.channel = c.channel /\ in.ipMatch = c.ipMatch /\ in.ctrGap = c.ctrGap
    BY <1>1 DEF Cases
  <2>3. tapInstant(in) \in Nat
    BY <1>0, <2>1, <2>2 DEF tapInstant
  <2>4. NoTime \in Int
    BY DEF NoTime
  <2>5. occurredAtSkew(in) \in Int
    BY <1>0, <2>1, <2>2 DEF occurredAtSkew
  <2> QED
    BY <2>1, <2>2, <2>3, <2>4, <2>5, Zenon DEF InputType
<1>2. ASSUME NEW c \in Directions, c.lastOpenIn <= c.occurredAt, in = c
      PROVE  InputType
  <2>1. /\ c.fromClient = TRUE /\ c.now = MaxAt /\ c.occurredAt \in 0..MaxAt
        /\ c.lastOpenIn \in {NoTime} \cup 0..MaxAt
        /\ c.location = "wall" /\ c.channel = "qr" /\ c.ipMatch = TRUE
        /\ c.ctrGap = 0 /\ c.policySet = guardrailsOnly
    BY DEF Directions
  <2>2. guardrailsOnly \in Sets
    BY DEF Sets
  <2>3. tapInstant(in) = in.occurredAt
    BY <1>2, <2>1 DEF tapInstant
  <2>4. in.lastOpenIn \in Int /\ in.occurredAt \in Nat
    BY <1>0, <1>2, <2>1 DEF NoTime
  <2>5. occurredAtSkew(in) \in Int
    BY <1>0, <1>2, <2>1 DEF occurredAtSkew
  <2> QED
    BY <1>2, <2>1, <2>2, <2>3, <2>4, <2>5 DEF InputType
<1> QED
  BY <1>1, <1>2, Zenon DEF DecideInit

\* A step decides the input.
LEMMA DecideKeeps == DecideInv /\ [DecideNext]_<<in, dec>> => DecideInv'
<1> SUFFICES ASSUME DecideInv, [DecideNext]_<<in, dec>> PROVE DecideInv'
  OBVIOUS
<1>1. in' = in /\ (dec' = dec \/ dec' = Decide(in))
  BY DEF DecideNext
<1>2. InputType'
  BY <1>1, Zenon DEF DecideInv, InputType
<1>3. dec' = Undecided \/ dec' = Decide(in')
  BY <1>1, Zenon DEF DecideInv
<1> QED
  BY <1>2, <1>3, Zenon DEF DecideInv

\* What has been decided.
LEMMA DecidedIs ==
  ASSUME DecideInv, IsDecided
  PROVE  dec = Decide(in)
BY DEF DecideInv, IsDecided

(***************************************************************************)
(* The theorems of the decisions.                                          *)
(***************************************************************************)

\* The engine's direction is what the ledger will say of the tap.
LEMMA DirectionAgrees == DecideInv => PredictionAgreesWithClassification
<1> SUFFICES ASSUME InputType, in.lastOpenIn # NoTime
             PROVE  PredictDirection(tapInstant(in), in.lastOpenIn, in.dayOn).dir = "out"
                      <=> ClassifyCheckout(
                            [dir |-> "in", at |-> in.lastOpenIn, writtenLater |-> FALSE], TRUE,
                            tapInstant(in),
                            PredictDirection(tapInstant(in), in.lastOpenIn, in.dayOn).dayStart)
                            = "closes"
  BY Zenon DEF DecideInv, PredictionAgreesWithClassification
<1>1. tapInstant(in) \in Int /\ in.lastOpenIn \in Int /\ in.lastOpenIn <= tapInstant(in)
  BY DEF InputType
<1> QED
  BY <1>1, PredictionIsClassification, Zenon

\* A choice is explained.
LEMMA ChoiceSays == DecideInv => ChosenDirectionIsExplained
<1> SUFFICES ASSUME DecideInv, IsDecided, dec.source = "employee"
             PROVE  /\ dec.type = in.want
                    /\ dec.type = "in" => dec.leftOpen = "employeeChoice" /\ in.lastOpenIn # NoTime
                    /\ dec.type = "out" /\ dec.missingIn = "none" =>
                         /\ in.lastOpenIn # NoTime
                         /\ tapInstant(in) - in.lastOpenIn > StaleOpenIn
                         /\ BusinessDayStart(tapInstant(in)) <= in.lastOpenIn
  BY Zenon DEF ChosenDirectionIsExplained
<1>1. PICK r : r = resolveDirection(in)
  OBVIOUS
<1>2. dec = Decide(in)
  BY DecidedIs
<1>3. /\ dec.source = r.source /\ dec.type = r.dir
      /\ dec.leftOpen = r.leftOpen /\ dec.missingIn = r.missingIn
  <2>1. PICK directed : directed = (verdictOf(Evaluate(in.policySet, policyContext(in)).effect) \in Counted)
    OBVIOUS
  <2>2. /\ dec.source = IF directed THEN r.source ELSE "none"
        /\ dec.type = IF directed THEN r.dir ELSE "none"
        /\ dec.leftOpen = IF directed THEN r.leftOpen ELSE "none"
        /\ dec.missingIn = IF directed THEN r.missingIn ELSE "none"
    BY <1>1, <1>2, <2>1 DEF Decide
  <2> QED
    BY <2>2
<1>4. tapInstant(in) \in Nat /\ in.lastOpenIn \in Int
  BY DEF DecideInv, InputType
<1> QED
  BY <1>1, <1>3, <1>4, ChosenIsExplained, Zenon

\* What a decision takes from the evaluation.
LEMMA DecisionOf ==
  ASSUME DecideInv, IsDecided
  PROVE  /\ dec.sid = Evaluate(in.policySet, Context).sid
         /\ dec.verdict = verdictOf(Evaluate(in.policySet, Context).effect)
<1>1. dec = Decide(in)
  BY DecidedIs
<1> QED
  BY <1>1 DEF Decide, Context

\* A tap's context is one of a tap, at one location.
LEMMA ContextIs ==
  /\ Context.action = "tap:record"
  /\ Context.resources = {<<"location", in.location>>}
  /\ Context.strs.channel = in.channel
BY DEF Context, policyContext

\* Where no guardrail is hit, the tap's decision is the ruling statement's.
LEMMA DecisionIsRuled ==
  ASSUME DecideInv, IsDecided, ~Guarded
  PROVE  \/ /\ \A j \in DOMAIN Statements : ~Candidate(Statements[j], Context)
            /\ dec.sid = "default" /\ dec.verdict = "flag"
         \/ \E i \in DOMAIN Statements :
              /\ Candidate(Statements[i], Context)
              /\ dec.sid = Statements[i].sid
              /\ dec.verdict = verdictOf(Statements[i].effect)
              /\ \A j \in DOMAIN Statements :
                   Candidate(Statements[j], Context) => Rules(i, j, Statements, Context)
<1>1. PICK c : c = Context
  OBVIOUS
<1>2. PICK all : all = Statements
  OBVIOUS
<1>3. in.policySet \in Sets
  BY DEF DecideInv, InputType
<1>4. PICK S : in.policySet.baseline \in Seq(S) /\ in.policySet.tenant \in Seq(S)
  BY <1>3, SetsAreLists
<1>5. ~\E i \in DOMAIN Guardrails : Matches(Guardrails[i].sid, c)
  BY <1>1, Zenon DEF Guarded
<1>6. all = in.policySet.baseline \o in.policySet.tenant
  BY <1>2, Zenon DEF Statements
<1>7. PICK e : e = Evaluate(in.policySet, c)
  OBVIOUS
<1>8. \/ /\ \A j \in DOMAIN all : ~Candidate(all[j], c)
         /\ e = defaultDecision(c.action)
      \/ \E i \in DOMAIN all :
           /\ Candidate(all[i], c)
           /\ e.sid = all[i].sid
           /\ e.effect = all[i].effect
           /\ \A j \in DOMAIN all : Candidate(all[j], c) => Rules(i, j, all, c)
  BY <1>4, <1>5, <1>6, <1>7, DocumentsDecide, Zenon
<1>9. dec.sid = e.sid /\ dec.verdict = verdictOf(e.effect)
  BY <1>1, <1>7, DecisionOf
<1>10. e = defaultDecision(c.action) => e.sid = "default" /\ verdictOf(e.effect) = "flag"
  <2>1. c.action = "tap:record"
    BY <1>1, ContextIs
  <2> QED
    BY <2>1 DEF defaultDecision, verdictOf
<1>11. CASE /\ \A j \in DOMAIN all : ~Candidate(all[j], c)
            /\ e = defaultDecision(c.action)
  BY <1>1, <1>2, <1>9, <1>10, <1>11, Zenon
<1>12. ASSUME NEW i \in DOMAIN all,
              Candidate(all[i], c), e.sid = all[i].sid, e.effect = all[i].effect,
              \A j \in DOMAIN all : Candidate(all[j], c) => Rules(i, j, all, c)
       PROVE  \E k \in DOMAIN Statements :
                /\ Candidate(Statements[k], Context)
                /\ dec.sid = Statements[k].sid
                /\ dec.verdict = verdictOf(Statements[k].effect)
                /\ \A j \in DOMAIN Statements :
                     Candidate(Statements[j], Context) => Rules(k, j, Statements, Context)
  BY <1>1, <1>2, <1>9, <1>12, Zenon
<1> QED
  BY <1>8, <1>11, <1>12, Zenon

\* The scan's choice, of the decisions.
LEMMA RulingIsPicked == DecideInv => ScanPicksTheRulingStatement
<1> SUFFICES ASSUME DecideInv, IsDecided, ~Guarded
             PROVE  IF Contenders = {} THEN dec.sid = "default" /\ dec.verdict = "flag"
                    ELSE \E i \in Contenders :
                           /\ \A j \in Contenders : Outranks(i, j)
                           /\ dec.sid = Statements[i].sid
                           /\ dec.verdict = verdictOf(Statements[i].effect)
  BY Zenon DEF ScanPicksTheRulingStatement
<1>1. \A i : i \in Contenders <=> i \in DOMAIN Statements /\ Candidate(Statements[i], Context)
  BY Zenon DEF Contenders, Candidate
<1>2. \A i, j : Rules(i, j, Statements, Context) <=> Outranks(i, j)
  BY Zenon DEF Rules, Outranks, Scope, Rank
<1>3. CASE /\ \A j \in DOMAIN Statements : ~Candidate(Statements[j], Context)
           /\ dec.sid = "default" /\ dec.verdict = "flag"
  <2>1. Contenders = {}
    BY <1>1, <1>3, Zenon
  <2> QED
    BY <1>3, <2>1, Zenon
<1>4. ASSUME NEW i \in DOMAIN Statements,
             Candidate(Statements[i], Context),
             dec.sid = Statements[i].sid,
             dec.verdict = verdictOf(Statements[i].effect),
             \A j \in DOMAIN Statements :
               Candidate(Statements[j], Context) => Rules(i, j, Statements, Context)
      PROVE  /\ Contenders # {}
             /\ \E k \in Contenders :
                  /\ \A j \in Contenders : Outranks(k, j)
                  /\ dec.sid = Statements[k].sid
                  /\ dec.verdict = verdictOf(Statements[k].effect)
  BY <1>1, <1>2, <1>4, Zenon
<1> QED
  BY <1>3, <1>4, DecisionIsRuled, Zenon

(***************************************************************************)
(* What only the venue's own rule may loosen.                              *)
(***************************************************************************)

\* The scope of a statement with one pattern, for one resource.
LEMMA OnePattern ==
  ASSUME NEW p, NEW r
  PROVE  statementSpecificity({p}, {r}) = patternMatch(p, r)
<1>1. patternMatch(p, r) \in -1..2
  BY DEF patternMatch
<1> QED
  BY <1>1, ScopeIs

\* The baseline's documents of a tap that ask for a review are candidates, at the
\* scope of every venue, where their conditions hold.
LEMMA BaselineReviews ==
  ASSUME NEW k \in {3, 4, 6, 7, 8}, Holds(Baseline[k].cond, Context)
  PROVE  /\ Candidate(Baseline[k], Context)
         /\ statementSpecificity(Baseline[k].resource, Context.resources) = 1
         /\ restrictiveness(Baseline[k].effect) = 2
<1>1. /\ Baseline[k].resource = {<<"location", "*">>}
      /\ Baseline[k].actions = {"tap:record"}
      /\ Baseline[k].effect = "review"
  BY DEF Baseline, tapDoc
<1>2. patternMatch(<<"location", "*">>, <<"location", in.location>>) = 1
  BY DEF patternMatch
<1>3. statementSpecificity(Baseline[k].resource, Context.resources) = 1
  BY <1>1, <1>2, OnePattern, ContextIs
<1> QED
  BY <1>1, <1>3, ContextIs DEF Candidate, Applies, restrictiveness

\* Their conditions.
LEMMA ReviewConditions ==
  ASSUME InputType
  PROVE  /\ ~in.ipMatch /\ in.gps # "match" => Holds(Baseline[3].cond, Context)
         /\ ~in.ipMatch /\ in.channel = "qr" => Holds(Baseline[4].cond, Context)
         /\ occurredAtSkew(in) > QueuedSkew => Holds(Baseline[6].cond, Context)
         /\ in.ctrGap > 0 => Holds(Baseline[7].cond, Context)
         /\ in.gps = "conflict" => Holds(Baseline[8].cond, Context)
<1> DEFINE none == <<>>
<1>1. DOMAIN none = {}
  OBVIOUS
<1> HIDE DEF none
<1>2. /\ Baseline[3].cond = [strs |-> none, more |-> none,
                             bools |-> [ipMatch |-> FALSE, gpsMatch |-> FALSE]]
      /\ Baseline[4].cond = [strs |-> [channel |-> "qr"], more |-> none,
                             bools |-> [ipMatch |-> FALSE]]
      /\ Baseline[6].cond = [strs |-> none, bools |-> none, more |-> [skew |-> QueuedSkew]]
      /\ Baseline[7].cond = [strs |-> none, bools |-> none, more |-> [ctrGap |-> 0]]
      /\ Baseline[8].cond = [strs |-> none, more |-> none, bools |-> [gpsConflict |-> TRUE]]
  BY DEF Baseline, tapDoc, NoCondition, none
<1>3. /\ "channel" \in DOMAIN Context.strs /\ Context.strs["channel"] = in.channel
      /\ "ipMatch" \in DOMAIN Context.bools /\ Context.bools["ipMatch"] = in.ipMatch
      /\ "gpsMatch" \in DOMAIN Context.bools /\ Context.bools["gpsMatch"] = (in.gps = "match")
      /\ "gpsConflict" \in DOMAIN Context.bools
      /\ Context.bools["gpsConflict"] = (in.gps = "conflict")
      /\ "skew" \in DOMAIN Context.nums /\ Context.nums["skew"] = occurredAtSkew(in)
      /\ "ctrGap" \in DOMAIN Context.nums /\ Context.nums["ctrGap"] = in.ctrGap
  BY DEF Context, policyContext
<1>4. in.ipMatch \in BOOLEAN
  BY DEF InputType
<1>5. ASSUME ~in.ipMatch, in.gps # "match" PROVE Holds(Baseline[3].cond, Context)
  <2>1. Context.bools["ipMatch"] = FALSE /\ Context.bools["gpsMatch"] = FALSE
    BY <1>3, <1>4, <1>5
  <2>2. PICK cond : cond = Baseline[3].cond
    OBVIOUS
  <2>3. /\ DOMAIN cond.strs = {} /\ DOMAIN cond.more = {}
        /\ DOMAIN cond.bools = {"ipMatch", "gpsMatch"}
        /\ cond.bools["ipMatch"] = FALSE /\ cond.bools["gpsMatch"] = FALSE
    BY <1>1, <1>2, <2>2
  <2>4. KeyIs(Context.bools, "ipMatch", FALSE) /\ KeyIs(Context.bools, "gpsMatch", FALSE)
    BY <1>3, <2>1, Zenon DEF KeyIs, Has
  <2>5. \A k \in DOMAIN cond.bools : KeyIs(Context.bools, k, cond.bools[k])
    BY <2>3, <2>4, Zenon
  <2> QED
    BY <2>2, <2>3, <2>5, Zenon DEF Holds
<1>6. ASSUME ~in.ipMatch, in.channel = "qr" PROVE Holds(Baseline[4].cond, Context)
  <2>1. Context.bools["ipMatch"] = FALSE /\ Context.strs["channel"] = "qr"
    BY <1>3, <1>4, <1>6
  <2>2. PICK cond : cond = Baseline[4].cond
    OBVIOUS
  <2>3. /\ DOMAIN cond.strs = {"channel"} /\ DOMAIN cond.more = {}
        /\ DOMAIN cond.bools = {"ipMatch"}
        /\ cond.bools["ipMatch"] = FALSE /\ cond.strs["channel"] = "qr"
    BY <1>1, <1>2, <2>2
  <2>4. \A k \in DOMAIN cond.strs : KeyIs(Context.strs, k, cond.strs[k])
    BY <1>3, <2>1, <2>3, Zenon DEF KeyIs, Has
  <2>5. \A k \in DOMAIN cond.bools : KeyIs(Context.bools, k, cond.bools[k])
    BY <1>3, <2>1, <2>3, Zenon DEF KeyIs, Has
  <2> QED
    BY <2>2, <2>3, <2>4, <2>5, Zenon DEF Holds
<1>7. ASSUME occurredAtSkew(in) > QueuedSkew PROVE Holds(Baseline[6].cond, Context)
  BY <1>1, <1>2, <1>3, <1>7 DEF Holds, KeyIs, Has
<1>8. ASSUME in.ctrGap > 0 PROVE Holds(Baseline[7].cond, Context)
  BY <1>1, <1>2, <1>3, <1>8 DEF Holds, KeyIs, Has
<1>9. ASSUME in.gps = "conflict" PROVE Holds(Baseline[8].cond, Context)
  <2>1. Context.bools["gpsConflict"] = TRUE
    BY <1>3, <1>9
  <2>2. PICK cond : cond = Baseline[8].cond
    OBVIOUS
  <2>3. /\ DOMAIN cond.strs = {} /\ DOMAIN cond.more = {}
        /\ DOMAIN cond.bools = {"gpsConflict"} /\ cond.bools["gpsConflict"] = TRUE
    BY <1>1, <1>2, <2>2
  <2>4. \A k \in DOMAIN cond.bools : KeyIs(Context.bools, k, cond.bools[k])
    BY <1>3, <2>1, <2>3, Zenon DEF KeyIs, Has
  <2> QED
    BY <2>2, <2>3, <2>4, Zenon DEF Holds
<1> QED
  BY <1>5, <1>6, <1>7, <1>8, <1>9

\* A statement of the documents that does not name the venue rules no further than
\* every venue.
LEMMA NoVenueScope ==
  ASSUME InputType, in.policySet.baseline # <<>>,
         \A i \in DOMAIN in.policySet.tenant :
           <<"location", "wall">> \notin in.policySet.tenant[i].resource
  PROVE  /\ DOMAIN Statements \in SUBSET Int
         /\ 1..10 \subseteq DOMAIN Statements
         /\ \A k \in 1..10 : Statements[k] = Baseline[k]
         /\ \A i \in DOMAIN Statements :
              statementSpecificity(Statements[i].resource, Context.resources) <= 1
<1>1. PICK s \in Sets : s = in.policySet
  BY DEF InputType
<1>2. s.baseline = Baseline /\ s.baseline # <<>>
  BY <1>1 DEF Sets, guardrailsOnly
<1>3. Len(Baseline) = 10
  BY DEF Baseline
<1>4. PICK S : s.baseline \in Seq(S) /\ s.tenant \in Seq(S)
  BY SetsAreLists
<1>5. PICK t : t = s.tenant
  OBVIOUS
<1>6. PICK m : m = Len(t)
  OBVIOUS
<1>7. /\ m \in Nat
      /\ DOMAIN Statements = 1..(10 + m)
      /\ OneList(Statements, Baseline, 10, t, m)
  <2>1. Statements = Baseline \o t
    BY <1>1, <1>2, <1>5, Zenon DEF Statements
  <2>2. Baseline \in Seq(S) /\ t \in Seq(S)
    BY <1>2, <1>4, <1>5, Zenon
  <2>3. /\ Len(t) \in Nat
        /\ DOMAIN (Baseline \o t) = 1..(Len(Baseline) + Len(t))
        /\ OneList(Baseline \o t, Baseline, Len(Baseline), t, Len(t))
    BY <2>2, Appended, Zenon
  <2> QED
    BY <1>3, <1>6, <2>1, <2>3, Zenon
<1>8. ASSUME NEW i \in 1..10
      PROVE  statementSpecificity(Baseline[i].resource, Context.resources) <= 1
  <2>1. \/ Baseline[i].resource = {<<"location", "*">>}
        \/ Baseline[i].resource = {<<"*", "*">>}
    BY DEF Baseline, tapDoc, authzDoc
  <2>2. \A r : /\ patternMatch(<<"location", "*">>, r) <= 1
               /\ patternMatch(<<"*", "*">>, r) <= 1
    BY DEF patternMatch
  <2>3. Context.resources = {<<"location", in.location>>}
    BY ContextIs
  <2>4. \A p : statementSpecificity({p}, Context.resources) = patternMatch(p, <<"location", in.location>>)
    BY <2>3, OnePattern
  <2> QED
    BY <2>1, <2>2, <2>4, Zenon
<1>9. ASSUME NEW i \in 1..m
      PROVE  statementSpecificity(t[i].resource, Context.resources) <= 1
  <2>1. i \in DOMAIN t /\ t \in Seq(S)
    BY <1>4, <1>5, <1>6, <1>9
  <2>2. \/ t[i].resource = {<<"location", "*">>}
        \/ t[i].resource = {<<"*", "*">>}
        \/ t[i].resource = {<<"location", "wall">>}
    BY <1>5, <2>1 DEF Sets, guardrailsOnly, TenantDocs, Statement
  <2>3. <<"location", "wall">> \notin t[i].resource
    BY <1>1, <1>5, <2>1, Zenon
  <2>4. \A r : /\ patternMatch(<<"location", "*">>, r) <= 1
               /\ patternMatch(<<"*", "*">>, r) <= 1
    BY DEF patternMatch
  <2>5. Context.resources = {<<"location", in.location>>}
    BY ContextIs
  <2>6. \A p : statementSpecificity({p}, Context.resources) = patternMatch(p, <<"location", in.location>>)
    BY <2>5, OnePattern
  <2>7. t[i].resource # {<<"location", "wall">>}
    BY <2>3
  <2> QED
    BY <2>2, <2>4, <2>6, <2>7, Zenon
<1>10. \A k \in 1..10 : Statements[k] = Baseline[k]
  BY <1>7, Zenon DEF OneList
<1>11. ASSUME NEW i \in 1..(10 + m)
       PROVE  statementSpecificity(Statements[i].resource, Context.resources) <= 1
  <2>1. CASE i \in 1..10
    BY <1>8, <1>10, <2>1, Zenon
  <2>2. ASSUME NEW k \in 1..m, i = 10 + k
        PROVE  statementSpecificity(Statements[i].resource, Context.resources) <= 1
    <3>1. Statements[i] = t[k]
      BY <1>7, <2>2, Zenon DEF OneList
    <3> QED
      BY <1>9, <3>1, Zenon
  <2> QED
    BY <1>7, <2>1, <2>2, Zenon DEF OneList
<1> QED
  BY <1>7, <1>10, <1>11

\* No review of the baseline is passed over but by a rule for the venue.
LEMMA ReviewsStand == DecideInv => OnlyAVenueRuleLoosens
<1> SUFFICES ASSUME DecideInv, IsDecided, dec.verdict = "ok", in.policySet.baseline # <<>>,
                    \A i \in DOMAIN in.policySet.tenant :
                      <<"location", "wall">> \notin in.policySet.tenant[i].resource
             PROVE  /\ in.ipMatch \/ (in.gps = "match" /\ in.channel = "nfc")
                    /\ in.ctrGap = 0
                    /\ in.gps # "conflict"
                    /\ occurredAtSkew(in) <= QueuedSkew
  BY Zenon DEF OnlyAVenueRuleLoosens
<1>1. InputType
  BY DEF DecideInv
<1>2. \A e : verdictOf(e) = "ok" => e = "allow"
  BY DEF verdictOf
<1>3. ~Guarded
  <2>1. dec.verdict = verdictOf(Evaluate(in.policySet, Context).effect)
    BY DecisionOf
  <2> QED
    BY <1>2, <2>1, GuardrailsFirst, Zenon DEF Guarded
<1>4. PICK i \in DOMAIN Statements :
        /\ Statements[i].effect = "allow"
        /\ \A j \in DOMAIN Statements :
             Candidate(Statements[j], Context) => Rules(i, j, Statements, Context)
  BY <1>2, <1>3, DecisionIsRuled, Zenon
<1>5. ASSUME NEW k \in {3, 4, 6, 7, 8} PROVE ~Holds(Baseline[k].cond, Context)
  <2>1. SUFFICES ASSUME Holds(Baseline[k].cond, Context) PROVE FALSE
    OBVIOUS
  <2>2. k \in DOMAIN Statements /\ Statements[k] = Baseline[k]
    BY <1>1, NoVenueScope
  <2>3. /\ Candidate(Statements[k], Context)
        /\ statementSpecificity(Statements[k].resource, Context.resources) = 1
        /\ restrictiveness(Statements[k].effect) = 2
    BY <2>1, <2>2, BaselineReviews
  <2>4. Rules(i, k, Statements, Context)
    BY <1>4, <2>2, <2>3
  <2>5. statementSpecificity(Statements[i].resource, Context.resources) <= 1
    BY <1>1, NoVenueScope
  <2>6. restrictiveness(Statements[i].effect) = 1
    BY <1>4 DEF restrictiveness
  <2>7. statementSpecificity(Statements[i].resource, Context.resources) \in Int
    BY ScopeIs
  <2> QED
    BY <2>3, <2>4, <2>5, <2>6, <2>7 DEF Rules
<1>6. /\ ~(~in.ipMatch /\ in.gps # "match")
      /\ ~(~in.ipMatch /\ in.channel = "qr")
      /\ ~(occurredAtSkew(in) > QueuedSkew)
      /\ ~(in.ctrGap > 0)
      /\ in.gps # "conflict"
  BY <1>1, <1>5, ReviewConditions
<1>7. in.channel \in {"nfc", "qr"} /\ in.ctrGap \in {0, 1}
  BY <1>1 DEF InputType
<1>8. occurredAtSkew(in) \in Int /\ QueuedSkew \in Int
  BY <1>1, ParamsAssumption DEF InputType
<1> QED
  BY <1>6, <1>7, <1>8

\* Each property of every decision, for any instants, cutoffs, longest shift,
\* windows and skews: the engine says out exactly when the ledger will say closed.
THEOREM WriterAndReaderAgree == DecideSpec => []PredictionAgreesWithClassification
BY DecideStarts, DecideKeeps, DirectionAgrees, PTL DEF DecideSpec

\* A direction that the employee chose is explained.
THEOREM ChoicesAreExplained == DecideSpec => []ChosenDirectionIsExplained
BY DecideStarts, DecideKeeps, ChoiceSays, PTL DEF DecideSpec

\* The scan of the documents picks the statement that rules all others.
THEOREM TheRulingStatementIsPicked == DecideSpec => []ScanPicksTheRulingStatement
BY DecideStarts, DecideKeeps, RulingIsPicked, PTL DEF DecideSpec

\* Only a rule that names the venue makes a tap count that the baseline would
\* have reviewed.
THEOREM BaselineStands == DecideSpec => []OnlyAVenueRuleLoosens
BY DecideStarts, DecideKeeps, ReviewsStand, PTL DEF DecideSpec
=============================================================================

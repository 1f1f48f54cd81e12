--------------------------- MODULE PunchFeedProofs ---------------------------
(* Theorems about PunchFeed, for any companies, writers and old records: the *)
(* positions of a feed are 1 to its counter, each punch is in its feeds once *)
(* and in all of them, writers never wait for counters in a circle, and both *)
(* readers are given all there is, in order and once.                        *)
EXTENDS PunchFeed, FiniteSetTheorems, SequenceTheorems, TLAPS

---------------------------------------------------------------------------
(* The types of what is written; the readers write only their own state.    *)

Kinds == {"none", "tap"} \cup Outcomes
Places == {"idle", "locking", "ready", "again", "done"}

Transaction ==
  [pc : Places, kind : Kinds, punch : Punches \cup {0}, row : Record \cup {NoRow},
   targets : SUBSET Tenants, held : SUBSET Tenants, seq : [Tenants -> Nat], tries : 0..2]

Backfill ==
  [pc : {"window", "waiting", "locked", "done"}, tenant : Tenants \cup {NoSite},
   after : Nat \X Nat, ids : SUBSET Punches, held : Tenants \cup {NoSite}, runs : Nat]

FeedEvent ==
  [tenant : Tenants, seq : Nat, punch : Punches, roles : SUBSET {"employer", "location"}, at : Nat]

TypeOK ==
  /\ rows \in [Punches -> Record \cup {NoRow}]
  /\ review \in [Punches -> Outcomes \cup {"none", "approved"}]
  /\ last \in [Tenants -> Nat]
  /\ events \subseteq FeedEvent
  /\ members \subseteq Tenants
  /\ tx \in [Writers -> Transaction]
  /\ back \in Backfill

---------------------------------------------------------------------------
(* The inductive invariant.                                                 *)

Undecided(q) == q.pc \in {"locking", "ready"}

(* The counters a transaction holds are the smallest of its targets; with   *)
(* all of them it has raised each by one.  The backfill's is another.       *)
Locks(q) ==
  /\ q.held \subseteq q.targets /\ back.held \notin q.held
  /\ \A h \in q.held, t \in q.targets \ q.held : h < t
  /\ ~Undecided(q) => q.targets = {}
  /\ q.pc = "locking" => q.targets \ q.held # {}
  /\ q.pc = "ready" => q.held = q.targets /\ \A t \in q.targets : q.seq[t] = last[t] + 1

(* What an undecided tap, and an undecided decision, is about to write.     *)
Taps(w, q) ==
  /\ q.punch = w
  /\ q.targets = IF EntersNow(q.row) THEN TargetsOf(q.row, q.row.site # NoSite) ELSE {}

Decides(q) ==
  /\ q.punch \in Punches /\ Committed(q.punch) /\ q.row = rows[q.punch]
  /\ q.row.verdict = "flag" /\ review[q.punch] = "none" /\ q.kind \in Outcomes
  /\ IF q.kind = "approved" /\ EntersApproved(q.row)
     THEN q.targets \in {TargetsOf(q.row, FALSE), TargetsOf(q.row, q.row.site # NoSite)}
     ELSE q.targets = {}

Content(w, q) ==
  /\ Undecided(q) \/ q.pc = "again" => q.row \in Record
  /\ q.pc # "done" => ~Committed(w)
  /\ Undecided(q) => IF q.kind = "tap" THEN Taps(w, q) ELSE Decides(q)

(* A counter's row lock, and a record under review, is one transaction's.   *)
Apart(p, q) ==
  /\ p.held \cap q.held = {}
  /\ Undecided(p) /\ Undecided(q) /\ p.kind # "tap" /\ q.kind # "tap" => p.punch # q.punch

WriterInv ==
  /\ \A w \in Writers : Locks(tx[w]) /\ Content(w, tx[w])
  /\ \A v, w \in Writers : v # w => Apart(tx[v], tx[w])

(* A record is committed before it is reviewed, and an old one is no        *)
(* holding's.                                                               *)
RecordInv ==
  /\ \A p \in Punches : ~Committed(p) => review[p] = "none"
  /\ \A p \in Old : Committed(p) /\ rows[p].site = NoSite

(* A punch whose event the backfill has still to write is an old record's,  *)
(* ahead of the backfill or in its window.                                  *)
Ahead(t, p) ==
  /\ p \in Old /\ back.pc # "done" /\ back.tenant <= t
  /\ t = back.tenant =>
       \/ Before(back.after, HistoryKey(p))
       \/ back.pc \in {"waiting", "locked"} /\ p \in back.ids

BackInv ==
  /\ back.held = IF back.pc = "locked" THEN back.tenant ELSE NoSite
  /\ back.pc \in {"waiting", "locked"} => back.tenant \in Tenants
  /\ \A t \in Tenants : \A p \in Missing(t) : Ahead(t, p)

IInv ==
  TypeOK /\ WriterInv /\ RecordInv /\ BackInv /\ EventsAreCounted /\ EachPunchOnce

---------------------------------------------------------------------------
(* Numbers, orders and ranks.                                               *)

\* A nonempty set of numbers has its smallest.
LEMMA Smallest ==
  ASSUME NEW S, S \subseteq Nat, S # {}
  PROVE  LET m == CHOOSE t \in S : \A u \in S : t <= u
         IN  m \in S /\ \A u \in S : m <= u
<1>1. PICK d \in S : \A y \in S : <<y, d>> \notin OpToRel(<, Nat)
  BY NatLessThanWellFounded, WFMin
<1>2. \A y \in S : ~(y < d)
  BY <1>1 DEF OpToRel
<1>3. \A y \in S : d <= y
  BY <1>2
<1> QED
  BY <1>3

\* A nonempty bounded set of numbers has its greatest.
LEMMA Greatest ==
  ASSUME NEW n \in Nat, NEW S, S \subseteq 0..n, S # {}
  PROVE  \E m \in S : \A u \in S : u <= m
<1> DEFINE T == {n - x : x \in S}
<1>1. \A x \in S : n - x \in Nat
  OBVIOUS
<1>2. T \subseteq Nat /\ T # {}
  BY <1>1
<1>3. PICK d \in T : \A y \in T : d <= y
  BY <1>2, Smallest
<1>4. PICK m \in S : d = n - m
  BY <1>3
<1>5. ASSUME NEW u \in S PROVE u <= m
  <2>1. n - m <= n - u
    BY <1>3, <1>4, <1>5
  <2>2. n \in Nat /\ m \in Nat /\ u \in Nat
    BY <1>4, <1>5
  <2> QED
    BY <2>1, <2>2
<1> QED
  BY <1>5

\* The order of the history is strict and total.
LEMMA BeforeIsAnOrder ==
  ASSUME NEW a \in Nat \X Nat, NEW b \in Nat \X Nat, NEW c \in Nat \X Nat
  PROVE  /\ ~Before(a, a)
         /\ Before(a, b) /\ Before(b, c) => Before(a, c)
         /\ Before(a, b) \/ Before(b, a) \/ a = b
         /\ ~(Before(a, b) /\ Before(b, a))
<1>1. /\ a = <<a[1], a[2]>> /\ b = <<b[1], b[2]>>
      /\ a[1] \in Nat /\ a[2] \in Nat /\ b[1] \in Nat /\ b[2] \in Nat
      /\ c[1] \in Nat /\ c[2] \in Nat
  OBVIOUS
<1> QED
  BY <1>1 DEF Before

(* Who of a set comes before x, and how many come before each.              *)
Lower(S, k, x) == {y \in S : Before(k[y], k[x])}
Ranks(S, k) == [x \in S |-> Cardinality(Lower(S, k, x))]

\* The ranks of a finite set are 0 up to its size less one, in its order.
LEMMA RanksCount ==
  ASSUME NEW S, IsFiniteSet(S), NEW k \in [S -> Nat \X Nat],
         \A x, y \in S : k[x] = k[y] => x = y
  PROVE  /\ Ranks(S, k) \in Bijection(S, 0 .. (Cardinality(S) - 1))
         /\ Cardinality(S) \in Nat
         /\ \A x, y \in S : Before(k[x], k[y]) => Ranks(S, k)[x] < Ranks(S, k)[y]
<1> DEFINE r == Ranks(S, k)
           n == Cardinality(S)
<1>1. n \in Nat
  BY FS_CardinalityType
<1>2. ASSUME NEW x \in S
      PROVE  IsFiniteSet(Lower(S, k, x)) /\ r[x] = Cardinality(Lower(S, k, x)) /\ r[x] \in 0 .. (n - 1)
  <2>1. x \notin Lower(S, k, x)
    BY BeforeIsAnOrder DEF Lower
  <2>2. IsFiniteSet(Lower(S, k, x)) /\ Cardinality(Lower(S, k, x)) <= n /\ Cardinality(Lower(S, k, x)) # n
    BY <2>1, FS_Subset DEF Lower
  <2>3. Cardinality(Lower(S, k, x)) \in Nat
    BY <2>2, FS_CardinalityType
  <2> QED
    BY <1>1, <2>2, <2>3 DEF Ranks
<1>3. ASSUME NEW x \in S, NEW y \in S, Before(k[x], k[y])
      PROVE  r[x] < r[y]
  <2>1. Lower(S, k, x) \subseteq Lower(S, k, y)
    BY <1>3, BeforeIsAnOrder DEF Lower
  <2>2. x \in Lower(S, k, y) /\ x \notin Lower(S, k, x)
    BY <1>3, BeforeIsAnOrder DEF Lower
  <2>3. Cardinality(Lower(S, k, x)) <= Cardinality(Lower(S, k, y)) /\ Cardinality(Lower(S, k, x)) # Cardinality(Lower(S, k, y))
    BY <1>2, <2>1, <2>2, FS_Subset
  <2> QED
    BY <1>1, <1>2, <2>3
<1>4. r \in Injection(S, 0 .. (n - 1))
  <2>1. r \in [S -> 0 .. (n - 1)]
    BY <1>2 DEF Ranks
  <2>2. ASSUME NEW x \in S, NEW y \in S, r[x] = r[y] PROVE x = y
    <3>1. ~Before(k[x], k[y]) /\ ~Before(k[y], k[x])
      BY <1>1, <1>2, <1>3, <2>2
    <3> QED
      BY <3>1, BeforeIsAnOrder
  <2> QED
    BY <2>1, <2>2 DEF Injection, IsInjective
<1>5. IsFiniteSet(0 .. (n - 1)) /\ Cardinality(0 .. (n - 1)) = n
  BY <1>1, FS_Interval
<1>6. r \in Surjection(S, 0 .. (n - 1))
  BY <1>4, <1>5, FS_Injection
<1> QED
  BY <1>1, <1>3, <1>4, <1>6 DEF Bijection

---------------------------------------------------------------------------
(* What the operators of the model return.                                  *)

\* The constants as the proofs use them.
LEMMA Constants ==
  /\ NoSite = 0 /\ NoSite \notin Tenants
  /\ \A t \in Tenants : t \in Nat
  /\ \A p \in Punches : p \in Nat
  /\ Writers \subseteq Punches /\ Old \subseteq Punches
  /\ \A w \in Writers : w \notin Old
  /\ NoRow \notin Record
BY IdAssumption DEF NoSite, Punches, NoRow, Record

\* Some company of a set of them has the greatest id.
LEMMA GreatestTenant ==
  ASSUME NEW S, S \subseteq Tenants, S # {}
  PROVE  \E m \in S : \A u \in S : u <= m
<1> DEFINE k == [t \in S |-> <<t, 0>>]
           n == Cardinality(S)
           r == Ranks(S, k)
<1>1. IsFiniteSet(S) /\ S \subseteq Nat
  BY FS_Subset, IdAssumption
<1>2. k \in [S -> Nat \X Nat] /\ \A x, y \in S : k[x] = k[y] => x = y
  BY <1>1
<1>3. \A x, y \in S : Before(k[x], k[y]) <=> x < y
  BY <1>1 DEF Before
<1> HIDE DEF k
<1>4. r \in Bijection(S, 0 .. (n - 1)) /\ n \in Nat /\ \A x, y \in S : x < y => r[x] < r[y]
  BY <1>1, <1>2, <1>3, RanksCount
<1>5. r \in [S -> 0 .. (n - 1)]
  BY <1>4 DEF Bijection, Injection
<1> HIDE DEF r
<1> DEFINE R == {r[x] : x \in S}
<1>6. R \subseteq 0 .. n /\ R # {}
  <2>1. \A x \in S : r[x] \in 0 .. n
    BY <1>4, <1>5
  <2> QED
    BY <2>1
<1>7. PICK m \in R : \A u \in R : u <= m
  BY <1>4, <1>6, Greatest
<1>8. PICK x \in S : r[x] = m
  BY <1>7
<1>9. ASSUME NEW u \in S PROVE u <= x
  <2>1. r[u] <= r[x] /\ r[u] \in Nat /\ r[x] \in Nat
    BY <1>5, <1>7, <1>8
  <2> QED
    BY <1>1, <1>4, <2>1
<1> QED
  BY <1>9

\* The companies an event may go to.
LEMMA TargetsAre ==
  ASSUME NEW row \in Record, NEW peer \in BOOLEAN, peer => row.site # NoSite
  PROVE  /\ TargetsOf(row, peer) \subseteq Tenants
         /\ TargetsOf(row, peer) # {}
         /\ TargetsOf(row, peer) \in {TargetsOf(row, FALSE), TargetsOf(row, row.site # NoSite)}
         /\ row.employer \in TargetsOf(row, peer)
         /\ peer => row.site \in TargetsOf(row, peer)
         /\ TargetsOf(row, peer) \subseteq {row.employer, row.site}
<1>1. row.employer \in Tenants /\ (row.site \in Tenants \/ row.site = NoSite)
  BY DEF Record
<1>2. CASE peer
  BY <1>1, <1>2 DEF TargetsOf
<1>3. CASE ~peer
  BY <1>1, <1>3 DEF TargetsOf
<1> QED
  BY <1>2, <1>3

\* The next counter is the smallest of those left.
LEMMA NextCounterIs ==
  ASSUME NEW q \in Transaction, q.targets \ q.held # {}
  PROVE  /\ NextCounter(q) \in q.targets \ q.held
         /\ \A u \in q.targets \ q.held : NextCounter(q) <= u
<1>1. q.targets \ q.held \subseteq Nat
  BY IdAssumption DEF Transaction
<1> QED
  BY <1>1, Smallest DEF NextCounter

\* The backfill's next company is the next by id, as long as there is one.
LEMMA NextTenantIs ==
  ASSUME NEW t \in Tenants \cup {NoSite}
  PROVE  /\ NextTenant(t) \in Tenants \cup {NoSite}
         /\ NextTenant(t) # NoSite => \A u \in Tenants : u > t => NextTenant(t) <= u
         /\ NextTenant(t) = NoSite => \A u \in Tenants : u <= t
<1> DEFINE later == {u \in Tenants : u > t}
<1>1. t \in Nat /\ later \subseteq Nat /\ later \subseteq Tenants /\ NoSite \notin later
  <2>1. later \subseteq Tenants
    OBVIOUS
  <2> HIDE DEF later
  <2> QED
    BY <2>1, Constants
<1>2. CASE later = {}
  <2>1. NextTenant(t) = NoSite
    BY <1>2 DEF NextTenant
  <2>2. ASSUME NEW u \in Tenants PROVE u <= t
    BY <1>1, <1>2, IdAssumption
  <2> QED
    BY <2>1, <2>2
<1>3. CASE later # {}
  <2>1. later # {} => NextTenant(t) = CHOOSE u \in later : \A v \in later : u <= v
    BY Zenon DEF NextTenant
  <2> DEFINE m == CHOOSE u \in later : \A v \in later : u <= v
  <2>2. m \in later /\ \A v \in later : m <= v
    BY <1>1, <1>3, Smallest
  <2>3. NextTenant(t) = m
    BY <1>3, <2>1
  <2> HIDE DEF m
  <2> QED
    BY <1>1, <2>2, <2>3
<1> QED
  BY <1>2, <1>3

\* A transaction that was not begun, or that ended.
LEMMA NoTxTyped ==
  /\ NoTx \in Transaction
  /\ NoTx.held = {} /\ NoTx.targets = {} /\ NoTx.pc = "idle"
<1>1. [t \in Tenants |-> 0] \in [Tenants -> Nat]
  OBVIOUS
<1> QED
  BY <1>1 DEF NoTx, Transaction, Places, Kinds

---------------------------------------------------------------------------
(* What the actions of a writer make of its transaction.                    *)

\* An insert asks for the counters of its targets, if it has any.
LEMMA InsertSets ==
  ASSUME NEW w \in Writers, NEW row \in Record, NEW tries \in 0..2, Insert(w, row, tries)
  PROVE  \E q \in Transaction :
           /\ Sets(w, q)
           /\ q.pc = (IF q.targets = {} THEN "ready" ELSE "locking")
           /\ q.kind = "tap" /\ q.row = row /\ q.held = {} /\ Taps(w, q)
<1> DEFINE targets == IF EntersNow(row) THEN TargetsOf(row, row.site # NoSite) ELSE {}
           q == [NoTx EXCEPT !.pc = IF targets = {} THEN "ready" ELSE "locking",
                   !.kind = "tap", !.punch = w, !.row = row, !.targets = targets, !.tries = tries]
<1>1. targets \in SUBSET Tenants
  BY TargetsAre
<1>2. Sets(w, q)
  BY DEF Insert
<1> HIDE DEF targets
<1>3. q \in Transaction
  BY <1>1, NoTxTyped, Constants DEF Transaction, Places, Kinds
<1>4. /\ q.pc = (IF q.targets = {} THEN "ready" ELSE "locking")
      /\ q.kind = "tap" /\ q.row = row /\ q.held = {} /\ q.punch = w /\ q.targets = targets
  BY NoTxTyped DEF NoTx
<1>5. Taps(w, q)
  BY <1>4 DEF Taps, targets
<1> QED
  BY <1>2, <1>3, <1>4, <1>5

\* A decision takes a flagged record nobody else is deciding.
LEMMA DecideSets ==
  ASSUME TypeOK, NEW w \in Writers, Decide(w)
  PROVE  \E q \in Transaction :
           /\ Sets(w, q)
           /\ q.pc = (IF q.targets = {} THEN "ready" ELSE "locking")
           /\ q.kind # "tap" /\ q.row \in Record /\ q.held = {} /\ Decides(q)
           /\ \A v \in Writers : Undecided(tx[v]) /\ tx[v].punch = q.punch => tx[v].kind = "tap"
<1>1. PICK p \in Punches, o \in Outcomes :
        /\ Committed(p) /\ rows[p].verdict = "flag" /\ review[p] = "none"
        /\ \A v \in Writers : Open(v) /\ tx[v].punch = p => tx[v].kind = "tap"
        /\ LET row == rows[p]
               targets == IF o = "approved" /\ EntersApproved(row)
                          THEN TargetsOf(row, Peers(row)) ELSE {}
           IN  Sets(w, [NoTx EXCEPT !.pc = IF targets = {} THEN "ready" ELSE "locking",
                          !.kind = o, !.punch = p, !.row = row, !.targets = targets])
  BY DEF Decide
<1> DEFINE row == rows[p]
           targets == IF o = "approved" /\ EntersApproved(row) THEN TargetsOf(row, Peers(row)) ELSE {}
           q == [NoTx EXCEPT !.pc = IF targets = {} THEN "ready" ELSE "locking",
                   !.kind = o, !.punch = p, !.row = row, !.targets = targets]
<1>2. row \in Record
  BY <1>1 DEF TypeOK, Committed
<1>3. Peers(row) \in BOOLEAN /\ (Peers(row) => row.site # NoSite)
  BY DEF Peers
<1>4. /\ targets \in SUBSET Tenants
      /\ IF o = "approved" /\ EntersApproved(row)
         THEN targets \in {TargetsOf(row, FALSE), TargetsOf(row, row.site # NoSite)}
         ELSE targets = {}
  BY <1>2, <1>3, TargetsAre
<1>5. Sets(w, q)
  BY <1>1
<1> HIDE DEF targets
<1>6. /\ q.pc = (IF q.targets = {} THEN "ready" ELSE "locking")
      /\ q.kind = o /\ q.row = row /\ q.held = {} /\ q.punch = p /\ q.targets = targets
  BY NoTxTyped DEF NoTx
<1>7. q \in Transaction
  BY <1>2, <1>4, NoTxTyped DEF Transaction, Places, Kinds
<1>8. Decides(q)
  BY <1>1, <1>4, <1>6 DEF Decides
<1>9. q.kind # "tap"
  BY <1>6, OutcomeAssumption
<1>10. \A v \in Writers : Undecided(tx[v]) /\ tx[v].punch = q.punch => tx[v].kind = "tap"
  BY <1>1, <1>6 DEF Undecided, Open
<1> HIDE DEF q
<1> QED
  BY <1>2, <1>5, <1>6, <1>7, <1>8, <1>9, <1>10

\* A lock is the next counter's, and the last of them raises them all.
LEMMA LockSets ==
  ASSUME TypeOK, NEW w \in Writers, tx[w].targets \ tx[w].held # {}, Lock(w)
  PROVE  \E q \in Transaction, t \in tx[w].targets \ tx[w].held :
           /\ Sets(w, q) /\ Free(t)
           /\ \A u \in tx[w].targets \ tx[w].held : t <= u
           /\ q.held = tx[w].held \cup {t} /\ q.targets = tx[w].targets
           /\ q.kind = tx[w].kind /\ q.punch = tx[w].punch /\ q.row = tx[w].row
           /\ \/ q.pc = "locking" /\ q.targets \ q.held # {}
              \/ q.pc = "ready" /\ q.targets \subseteq q.held
                 /\ \A u \in q.targets : q.seq[u] = last[u] + 1
<1>0. PICK p \in Transaction : p = tx[w]
  BY DEF TypeOK
<1> DEFINE t == NextCounter(p)
           raised == [u \in Tenants |-> IF u \in p.targets THEN last[u] + 1 ELSE 0]
<1>1. t \in p.targets \ p.held /\ (\A u \in p.targets \ p.held : t <= u) /\ t \in Tenants
  BY <1>0, NextCounterIs DEF Transaction
<1>2. raised \in [Tenants -> Nat]
  BY DEF TypeOK
<1>3. /\ Free(t)
      /\ IF p.targets \subseteq p.held \cup {t}
         THEN Sets(w, [p EXCEPT !.held = @ \cup {t}, !.pc = "ready", !.seq = raised])
         ELSE Sets(w, [p EXCEPT !.held = @ \cup {t}])
  BY <1>0 DEF Lock
<1>4. p.pc = "locking"
  BY <1>0 DEF Lock
<1> HIDE DEF t
<1>5. CASE p.targets \subseteq p.held \cup {t}
  <2> DEFINE q == [p EXCEPT !.held = @ \cup {t}, !.pc = "ready", !.seq = raised]
  <2>1. \A u \in p.targets : raised[u] = last[u] + 1
    BY <1>0 DEF Transaction
  <2> HIDE DEF raised
  <2>2. q \in Transaction
    BY <1>1, <1>2 DEF Transaction, Places
  <2>3. /\ q.held = p.held \cup {t} /\ q.targets = p.targets /\ q.pc = "ready"
        /\ q.kind = p.kind /\ q.punch = p.punch /\ q.row = p.row /\ q.seq = raised
    BY DEF Transaction
  <2>4. Sets(w, q)
    BY <1>3, <1>5
  <2> HIDE DEF q
  <2> QED
    BY <1>0, <1>1, <1>3, <1>5, <2>1, <2>2, <2>3, <2>4
<1>6. CASE ~(p.targets \subseteq p.held \cup {t})
  <2> DEFINE q == [p EXCEPT !.held = @ \cup {t}]
  <2>2. q \in Transaction
    BY <1>1 DEF Transaction
  <2>3. /\ q.held = p.held \cup {t} /\ q.targets = p.targets /\ q.pc = "locking"
        /\ q.kind = p.kind /\ q.punch = p.punch /\ q.row = p.row
    BY <1>4 DEF Transaction
  <2>4. Sets(w, q)
    BY <1>3, <1>6
  <2> HIDE DEF q
  <2> QED
    BY <1>0, <1>1, <1>3, <1>6, <2>2, <2>3, <2>4
<1> QED
  BY <1>5, <1>6

\* A timeout and a rollback leave a transaction that holds nothing.
LEMMA EndSets ==
  ASSUME TypeOK, NEW w \in Writers, LockTimeout(w) \/ Abort(w)
  PROVE  \E q \in Transaction :
           /\ Sets(w, q) /\ q.targets = {} /\ q.held = {}
           /\ q.pc = "done" \/ (q.pc = "again" /\ q.row = tx[w].row /\ tx[w].pc = "locking")
<1>1. tx[w].row \in Record \cup {NoRow}
  BY DEF TypeOK, Transaction
<1> DEFINE done == [NoTx EXCEPT !.pc = "done"]
           again == [NoTx EXCEPT !.pc = "again", !.row = tx[w].row]
<1>2. done \in Transaction /\ done.targets = {} /\ done.held = {} /\ done.pc = "done"
  BY NoTxTyped DEF Transaction, Places
<1>3. /\ again \in Transaction /\ again.targets = {} /\ again.held = {}
      /\ again.pc = "again" /\ again.row = tx[w].row
  BY <1>1, NoTxTyped DEF Transaction, Places
<1>4. Sets(w, done) \/ (Sets(w, again) /\ tx[w].pc = "locking")
  BY DEF LockTimeout, Abort
<1> HIDE DEF done, again
<1> QED
  BY <1>2, <1>3, <1>4

---------------------------------------------------------------------------
(* The steps of a writer before its commit.                                 *)

\* What the invariant says of one writer.
LEMMA Parts ==
  ASSUME IInv, NEW w \in Writers
  PROVE  /\ tx[w] \in Transaction /\ Locks(tx[w]) /\ Content(w, tx[w])
         /\ \A v \in Writers \ {w} : Apart(tx[v], tx[w])
BY DEF IInv, TypeOK, WriterInv

\* A writer that goes on with a transaction apart from all others keeps the
\* invariant.
LEMMA Moves ==
  ASSUME IInv, NEW w \in Writers, NEW q \in Transaction, Sets(w, q),
         Locks(q), Content(w, q), \A v \in Writers \ {w} : Apart(tx[v], q),
         UNCHANGED <<rows, review, last, events, members, back>>
  PROVE  IInv'
<1>1. /\ tx' \in [Writers -> Transaction]
      /\ \A v \in Writers : tx'[v] = IF v = w THEN q ELSE tx[v]
  BY DEF Sets, IInv, TypeOK
<1>2. TypeOK'
  BY <1>1 DEF IInv, TypeOK
<1>3. WriterInv'
  <2>1. ASSUME NEW v \in Writers PROVE Locks(tx[v])' /\ Content(v, tx[v])'
    <3>1. PICK p \in Transaction : p = tx'[v]
      BY <1>1
    <3>2. Locks(p) /\ Content(v, p)
      BY <1>1, <3>1, Parts
    <3> QED
      BY <3>1, <3>2 DEF Locks, Content, Taps, Decides, Committed, Undecided
  <2>2. ASSUME NEW u \in Writers, NEW v \in Writers, u # v PROVE Apart(tx'[u], tx'[v])
    <3>1. CASE u = w
      <4>1. Apart(tx[v], q)
        BY <2>2, <3>1
      <4> QED
        BY <1>1, <2>2, <3>1, <4>1 DEF Apart
    <3>2. CASE u # w
      BY <1>1, <2>2, <3>2, Parts
    <3> QED
      BY <3>1, <3>2
  <2> QED
    BY <2>1, <2>2 DEF WriterInv, Apart
<1>4. (RecordInv /\ BackInv /\ EventsAreCounted /\ EachPunchOnce)'
  BY DEF IInv, RecordInv, BackInv, Ahead, Missing, Committed, EntersNow, EntersApproved, FeedOf,
         HistoryKey, EventsAreCounted, EachPunchOnce, Enters
<1> QED
  BY <1>2, <1>3, <1>4 DEF IInv

\* A tap's insert, the first or the second.
LEMMA InsertKeeps ==
  ASSUME IInv, NEW w \in Writers, NEW row \in Record, NEW tries \in 0..2,
         Insert(w, row, tries), tx[w].pc # "done",
         UNCHANGED <<rows, review, last, events, members, back>>
  PROVE  IInv'
<1>1. PICK q \in Transaction :
        /\ Sets(w, q)
        /\ q.pc = (IF q.targets = {} THEN "ready" ELSE "locking")
        /\ q.kind = "tap" /\ q.row = row /\ q.held = {} /\ Taps(w, q)
  BY InsertSets
<1>2. Locks(q)
  BY <1>1 DEF Locks, Undecided
<1>3. Content(w, q)
  BY <1>1, Parts DEF Content
<1>4. \A v \in Writers \ {w} : Apart(tx[v], q)
  BY <1>1 DEF Apart
<1> QED
  BY <1>1, <1>2, <1>3, <1>4, Moves

\* A tap begins.
LEMMA TapKeeps ==
  ASSUME IInv, NEW w \in Writers, Tap(w)
  PROVE  IInv'
<1>1. PICK row \in Shapes : Insert(w, row, 1)
  BY DEF Tap
<1>2. row \in Record
  BY RowAssumption
<1>3. tx[w].pc # "done" /\ UNCHANGED <<rows, review, last, events, members, back>>
  BY DEF Tap, Begins
<1> QED
  BY <1>1, <1>2, <1>3, InsertKeeps

\* A tap inserts once more.
LEMMA AgainKeeps ==
  ASSUME IInv, NEW w \in Writers, Again(w)
  PROVE  IInv'
<1>1. /\ tx[w].pc = "again" /\ Insert(w, tx[w].row, 2)
      /\ UNCHANGED <<rows, review, last, events, members, back>>
  BY DEF Again
<1>2. tx[w].row \in Record
  BY <1>1, Parts DEF Content
<1> QED
  BY <1>1, <1>2, InsertKeeps

\* A manager decides.
LEMMA DecideKeeps ==
  ASSUME IInv, NEW w \in Writers, Decide(w)
  PROVE  IInv'
<1>0. TypeOK
  BY DEF IInv
<1>1. PICK q \in Transaction :
        /\ Sets(w, q)
        /\ q.pc = (IF q.targets = {} THEN "ready" ELSE "locking")
        /\ q.kind # "tap" /\ q.row \in Record /\ q.held = {} /\ Decides(q)
        /\ \A v \in Writers : Undecided(tx[v]) /\ tx[v].punch = q.punch => tx[v].kind = "tap"
  BY <1>0, DecideSets
<1>2. Locks(q)
  BY <1>1 DEF Locks, Undecided
<1>3. Content(w, q)
  <2>1. tx[w].pc # "done"
    BY DEF Decide, Begins
  <2> QED
    BY <1>1, <2>1, Parts DEF Content
<1>4. \A v \in Writers \ {w} : Apart(tx[v], q)
  BY <1>1 DEF Apart
<1>5. UNCHANGED <<rows, review, last, events, members, back>>
  BY DEF Decide
<1> QED
  BY <1>1, <1>2, <1>3, <1>4, <1>5, Moves

\* A writer gets the next counter.
LEMMA LockKeeps ==
  ASSUME IInv, NEW w \in Writers, Lock(w)
  PROVE  IInv'
<1>0. PICK p \in Transaction : p = tx[w]
  BY DEF IInv, TypeOK
<1>1. /\ Locks(p) /\ Content(w, p) /\ p.pc = "locking" /\ p.targets \ p.held # {}
      /\ \A v \in Writers \ {w} : Apart(tx[v], p)
  BY <1>0, Parts DEF Lock, Locks
<1>2. PICK q \in Transaction, t \in p.targets \ p.held :
        /\ Sets(w, q) /\ Free(t)
        /\ \A u \in p.targets \ p.held : t <= u
        /\ q.held = p.held \cup {t} /\ q.targets = p.targets
        /\ q.kind = p.kind /\ q.punch = p.punch /\ q.row = p.row
        /\ \/ q.pc = "locking" /\ q.targets \ q.held # {}
           \/ q.pc = "ready" /\ q.targets \subseteq q.held
              /\ \A u \in q.targets : q.seq[u] = last[u] + 1
  BY <1>0, <1>1, LockSets DEF IInv
<1>3. Locks(q)
  <2>1. back.held \notin q.held /\ q.held \subseteq q.targets
    BY <1>1, <1>2 DEF Free, Locks
  <2>2. ASSUME NEW h \in q.held, NEW u \in q.targets \ q.held PROVE h < u
    <3>1. t \in Nat /\ u \in Nat /\ t # u
      BY <1>2, <2>2, Constants DEF Transaction
    <3>2. CASE h = t
      BY <1>2, <2>2, <3>1, <3>2
    <3>3. CASE h \in p.held
      BY <1>1, <1>2, <2>2, <3>3 DEF Locks
    <3> QED
      BY <1>2, <3>2, <3>3
  <2> QED
    BY <1>2, <2>1, <2>2 DEF Locks, Undecided
<1>4. Content(w, q)
  BY <1>1, <1>2 DEF Content, Undecided, Taps, Decides
<1>5. ASSUME NEW v \in Writers \ {w} PROVE Apart(tx[v], q)
  BY <1>1, <1>2 DEF Apart, Free, Undecided
<1>6. UNCHANGED <<rows, review, last, events, members, back>>
  BY DEF Lock
<1> QED
  BY <1>2, <1>3, <1>4, <1>5, <1>6, Moves

\* A writer's lock times out, or it gives up.
LEMMA EndKeeps ==
  ASSUME IInv, NEW w \in Writers, LockTimeout(w) \/ Abort(w)
  PROVE  IInv'
<1>1. PICK q \in Transaction :
        /\ Sets(w, q) /\ q.targets = {} /\ q.held = {}
        /\ q.pc = "done" \/ (q.pc = "again" /\ q.row = tx[w].row /\ tx[w].pc = "locking")
  BY EndSets DEF IInv
<1>2. Locks(q) /\ \A v \in Writers \ {w} : Apart(tx[v], q)
  BY <1>1 DEF Locks, Apart, Undecided
<1>3. Content(w, q)
  BY <1>1, Parts DEF Content, Undecided
<1>4. UNCHANGED <<rows, review, last, events, members, back>>
  BY DEF LockTimeout, Abort
<1> QED
  BY <1>1, <1>2, <1>3, <1>4, Moves

---------------------------------------------------------------------------
(* The commit of a writer.                                                  *)

(* The events a transaction adds, each at the next position of its feed.    *)
Added(q) == {Event(t, last[t] + 1, q.punch, q.row) : t \in q.targets}

\* What a commit changes: one record or its review, and the feeds of the
\* targets, if the record enters them.
LEMMA CommitSets ==
  ASSUME IInv, NEW w \in Writers, NEW q \in Transaction, q = tx[w], Commit(w)
  PROVE  /\ q.punch \in Punches /\ q.row \in Record
         /\ rows' = [rows EXCEPT ![q.punch] = q.row]
         /\ \E o \in Outcomes \cup {"none"} : review' = [review EXCEPT ![q.punch] = o]
         /\ ~Enters(q.punch) /\ (Committed(q.punch) => q.row = rows[q.punch])
         /\ Enters(q.punch)' <=> q.targets # {}
         /\ q.targets \subseteq {q.row.employer, q.row.site} /\ q.targets = q.held
         /\ q.targets # {} => q.row.employer \in q.targets
         /\ EntersNow(q.row) /\ q.row.site # NoSite => q.row.site \in q.targets
         /\ events' = events \cup Added(q)
         /\ last' = [t \in Tenants |-> IF t \in q.targets THEN last[t] + 1 ELSE last[t]]
         /\ \A v \in Writers \ {w} :
              /\ v = q.punch => tx[v].pc = "done"
              /\ Undecided(tx[v]) /\ tx[v].kind # "tap" => tx[v].punch # q.punch
         /\ Sets(w, [NoTx EXCEPT !.pc = "done"]) /\ UNCHANGED <<members, back>>
<1> USE DEF Undecided
<1>1. /\ q.pc = "ready" /\ Locks(q) /\ Content(w, q) /\ ~Committed(w)
      /\ \A v \in Writers \ {w} : Apart(tx[v], q) /\ Content(v, tx[v])
  BY Parts DEF Commit, Content
<1>2. /\ q.row \in Record /\ q.held = q.targets /\ \A t \in q.targets : q.seq[t] = last[t] + 1
  BY <1>1 DEF Locks, Content
<1>3. /\ rows' = IF q.kind = "tap" THEN [rows EXCEPT ![w] = q.row] ELSE rows
      /\ review' = IF q.kind = "tap" THEN review ELSE [review EXCEPT ![q.punch] = q.kind]
      /\ events' = events \cup {Event(t, q.seq[t], q.punch, q.row) : t \in q.targets}
      /\ last' = [t \in Tenants |-> IF t \in q.targets THEN q.seq[t] ELSE last[t]]
      /\ Sets(w, [NoTx EXCEPT !.pc = "done"]) /\ UNCHANGED <<members, back>>
  BY DEF Commit
<1>4. events' = events \cup Added(q)
  BY <1>2, <1>3 DEF Added
<1>5. last' = [t \in Tenants |-> IF t \in q.targets THEN last[t] + 1 ELSE last[t]]
  BY <1>2, <1>3
<1>6. /\ rows \in [Punches -> Record \cup {NoRow}]
      /\ review \in [Punches -> Outcomes \cup {"none", "approved"}]
      /\ \A p \in Punches : ~Committed(p) => review[p] = "none"
  BY DEF IInv, TypeOK, RecordInv
<1>7. CASE q.kind = "tap"
  <2>1. /\ q.punch = w
        /\ q.targets = IF EntersNow(q.row) THEN TargetsOf(q.row, q.row.site # NoSite) ELSE {}
    BY <1>1, <1>7 DEF Content, Taps
  <2>2. w \in Punches /\ review[w] = "none"
    BY <1>1, <1>6, Constants
  <2>3. /\ rows' = [rows EXCEPT ![w] = q.row]
        /\ review' = [review EXCEPT ![w] = "none"]
    BY <1>3, <1>6, <1>7, <2>2
  <2>4. rows'[w] = q.row /\ review'[w] = "none" /\ Committed(w)'
    BY <1>2, <1>6, <2>2, <2>3, Constants DEF Committed
  <2>5. Enters(w)' <=> EntersNow(q.row)
    BY <2>4 DEF Enters, EntersNow
  <2>6. ~Enters(w)
    BY <1>1 DEF Enters
  <2>7. /\ TargetsOf(q.row, q.row.site # NoSite) # {}
        /\ q.row.employer \in TargetsOf(q.row, q.row.site # NoSite)
        /\ q.row.site # NoSite => q.row.site \in TargetsOf(q.row, q.row.site # NoSite)
        /\ TargetsOf(q.row, q.row.site # NoSite) \subseteq {q.row.employer, q.row.site}
    BY <1>2, TargetsAre
  <2>8. ASSUME NEW v \in Writers \ {w}, Undecided(tx[v]), tx[v].kind # "tap"
        PROVE  tx[v].punch # w
    <3>1. Committed(tx[v].punch)
      BY <1>1, <2>8 DEF Content, Decides
    <3> QED
      BY <1>1, <3>1
  <2>9. ~Committed(q.punch)
    BY <1>1, <2>1
  <2> QED
    BY <1>2, <1>3, <1>4, <1>5, <2>1, <2>2, <2>3, <2>5, <2>6, <2>7, <2>8, <2>9
<1>8. CASE q.kind # "tap"
  <2>1. /\ q.punch \in Punches /\ Committed(q.punch) /\ q.row = rows[q.punch]
        /\ q.row.verdict = "flag" /\ review[q.punch] = "none" /\ q.kind \in Outcomes
        /\ IF q.kind = "approved" /\ EntersApproved(q.row)
           THEN q.targets \in {TargetsOf(q.row, FALSE), TargetsOf(q.row, q.row.site # NoSite)}
           ELSE q.targets = {}
    BY <1>1, <1>8 DEF Content, Decides
  <2>2. rows' = [rows EXCEPT ![q.punch] = q.row] /\ rows' = rows
    BY <1>3, <1>6, <1>8, <2>1
  <2>3. review' = [review EXCEPT ![q.punch] = q.kind]
    BY <1>3, <1>8
  <2>4. Committed(q.punch)' /\ rows'[q.punch] = q.row /\ review'[q.punch] = q.kind /\ ~EntersNow(q.row)
    BY <1>6, <2>1, <2>2, <2>3 DEF Committed, EntersNow
  <2>5. Enters(q.punch)' <=> q.kind = "approved" /\ EntersApproved(q.row)
    BY <2>4 DEF Enters, EntersNow, EntersApproved
  <2>6. ~Enters(q.punch)
    BY <2>1, <2>4 DEF Enters
  <2>7. ASSUME NEW T \in {TargetsOf(q.row, FALSE), TargetsOf(q.row, q.row.site # NoSite)}
        PROVE  T # {} /\ q.row.employer \in T /\ T \subseteq {q.row.employer, q.row.site}
    BY <1>2, TargetsAre
  <2>8. \A v \in Writers \ {w} :
          /\ v = q.punch => tx[v].pc = "done"
          /\ Undecided(tx[v]) /\ tx[v].kind # "tap" => tx[v].punch # q.punch
    BY <1>1, <1>8, <2>1 DEF Content, Apart
  <2> QED
    BY <1>2, <1>3, <1>4, <1>5, <2>1, <2>2, <2>3, <2>4, <2>5, <2>6, <2>7, <2>8
<1> QED
  BY <1>7, <1>8

(* The events of F stand at the positions a to n, one each.                 *)
Counted(F, a, n) ==
  /\ {e.seq : e \in F} = a .. n
  /\ \A e, f \in F : e.seq = f.seq => e = f

\* Positions counted to n, and from there on to m, are counted to m.
LEMMA Counts ==
  ASSUME NEW F, NEW G, NEW n \in Nat, NEW m \in Nat, n <= m,
         Counted(F, 1, n), Counted(G, n + 1, m)
  PROVE  Counted(F \cup G, 1, m)
<1>1. \A e \in F : e.seq \in 1 .. n
  BY DEF Counted
<1>2. \A e \in G : e.seq \in (n + 1) .. m
  BY DEF Counted
<1>3. \A e, f \in F \cup G : e.seq = f.seq => e = f
  <2>1. \A e \in F, f \in G : e.seq # f.seq
    BY <1>1, <1>2
  <2> QED
    BY <2>1 DEF Counted
<1>4. ASSUME NEW i \in 1 .. m PROVE \E e \in F \cup G : e.seq = i
  <2>1. i \in 1 .. n \/ i \in (n + 1) .. m
    OBVIOUS
  <2>2. CASE i \in 1 .. n
    BY <2>2 DEF Counted
  <2>3. CASE i \in (n + 1) .. m
    <3>1. i \in {e.seq : e \in G}
      BY <2>3 DEF Counted
    <3> QED
      BY <3>1
  <2> QED
    BY <2>1, <2>2, <2>3
<1>5. \A e \in F \cup G : e.seq \in 1 .. m
  BY <1>1, <1>2
<1>6. {e.seq : e \in F \cup G} = 1 .. m
  BY <1>4, <1>5
<1> QED
  BY <1>3, <1>6 DEF Counted

\* An event as its fields.
LEMMA EventIs ==
  ASSUME NEW t \in Tenants, NEW s \in Nat, NEW p \in Punches, NEW row \in Record
  PROVE  /\ Event(t, s, p, row) \in FeedEvent
         /\ Event(t, s, p, row).tenant = t /\ Event(t, s, p, row).seq = s
         /\ Event(t, s, p, row).punch = p
<1>1. RolesIn(t, row) \in SUBSET {"employer", "location"}
  BY DEF RolesIn
<1>2. row.at \in Nat
  BY DEF Record
<1> QED
  BY <1>1, <1>2 DEF Event, FeedEvent

\* The events a commit adds, and their places.
LEMMA AddedIs ==
  ASSUME TypeOK, NEW q \in Transaction, q.punch \in Punches, q.row \in Record
  PROVE  /\ Added(q) \subseteq FeedEvent
         /\ \A e \in Added(q) : /\ e.punch = q.punch /\ e.tenant \in q.targets
                                 /\ e.seq = last[e.tenant] + 1
         /\ \A t \in q.targets : \E e \in Added(q) : e.tenant = t
         /\ \A e, f \in Added(q) : e.tenant = f.tenant => e = f
<1>1. ASSUME NEW t \in q.targets
      PROVE  /\ Event(t, last[t] + 1, q.punch, q.row) \in FeedEvent
             /\ Event(t, last[t] + 1, q.punch, q.row).tenant = t
             /\ Event(t, last[t] + 1, q.punch, q.row).seq = last[t] + 1
             /\ Event(t, last[t] + 1, q.punch, q.row).punch = q.punch
  <2>1. t \in Tenants /\ last[t] + 1 \in Nat
    BY DEF Transaction, TypeOK
  <2> QED
    BY <2>1, EventIs
<1> QED
  BY <1>1 DEF Added

\* A commit keeps the types.
LEMMA CommitTypes ==
  ASSUME IInv, NEW w \in Writers, Commit(w)
  PROVE  TypeOK'
<1>1. PICK q \in Transaction : q = tx[w]
  BY DEF IInv, TypeOK
<1>2. /\ q.punch \in Punches /\ q.row \in Record
      /\ rows' = [rows EXCEPT ![q.punch] = q.row]
      /\ \E o \in Outcomes \cup {"none"} : review' = [review EXCEPT ![q.punch] = o]
      /\ events' = events \cup Added(q)
      /\ last' = [t \in Tenants |-> IF t \in q.targets THEN last[t] + 1 ELSE last[t]]
      /\ Sets(w, [NoTx EXCEPT !.pc = "done"]) /\ UNCHANGED <<members, back>>
  BY <1>1, CommitSets
<1>3. Added(q) \subseteq FeedEvent
  BY <1>2, AddedIs DEF IInv
<1>4. [NoTx EXCEPT !.pc = "done"] \in Transaction
  BY NoTxTyped DEF Transaction, Places
<1>5. rows' \in [Punches -> Record \cup {NoRow}]
  BY <1>2 DEF IInv, TypeOK
<1>6. review' \in [Punches -> Outcomes \cup {"none", "approved"}]
  BY <1>2 DEF IInv, TypeOK
<1>7. last' \in [Tenants -> Nat]
  BY <1>2 DEF IInv, TypeOK
<1>8. tx' \in [Writers -> Transaction]
  BY <1>2, <1>4 DEF IInv, TypeOK, Sets
<1> QED
  BY <1>2, <1>3, <1>5, <1>6, <1>7, <1>8 DEF IInv, TypeOK

\* A commit takes the next position of each of its feeds.
LEMMA CommitCounts ==
  ASSUME IInv, NEW w \in Writers, Commit(w)
  PROVE  EventsAreCounted'
<1>1. PICK q \in Transaction : q = tx[w]
  BY DEF IInv, TypeOK
<1>2. /\ q.punch \in Punches /\ q.row \in Record
      /\ events' = events \cup Added(q)
      /\ last' = [t \in Tenants |-> IF t \in q.targets THEN last[t] + 1 ELSE last[t]]
  BY <1>1, CommitSets
<1>3. /\ \A e \in Added(q) : e.tenant \in q.targets /\ e.seq = last[e.tenant] + 1
      /\ \A t \in q.targets : \E e \in Added(q) : e.tenant = t
      /\ \A e, f \in Added(q) : e.tenant = f.tenant => e = f
  BY <1>2, AddedIs DEF IInv
<1>4. ASSUME NEW t \in Tenants PROVE Counted(FeedOf(t)', 1, last'[t])
  <2> DEFINE G == {e \in Added(q) : e.tenant = t}
  <2>1. FeedOf(t)' = FeedOf(t) \cup G
    BY <1>2 DEF FeedOf
  <2>2. last[t] \in Nat /\ Counted(FeedOf(t), 1, last[t])
    BY DEF IInv, TypeOK, EventsAreCounted, Counted
  <2>3. CASE t \in q.targets
    <3>1. last'[t] = last[t] + 1
      BY <1>2, <2>3
    <3>2. /\ \A e \in G : e.seq = last[t] + 1
          /\ \A e, f \in G : e = f
          /\ G # {}
      BY <1>3, <2>3
    <3>3. {e.seq : e \in G} = {last[t] + 1}
      BY <3>2
    <3>4. {last[t] + 1} = (last[t] + 1) .. (last[t] + 1)
      BY <2>2
    <3>5. Counted(G, last[t] + 1, last[t] + 1)
      BY <3>2, <3>3, <3>4 DEF Counted
    <3> HIDE DEF G
    <3>6. last[t] + 1 \in Nat /\ last[t] <= last[t] + 1
      BY <2>2
    <3> QED
      BY <2>1, <2>2, <3>1, <3>5, <3>6, Counts
  <2>4. CASE t \notin q.targets
    <3>1. last'[t] = last[t] /\ G = {}
      BY <1>2, <1>3, <2>4
    <3> QED
      BY <2>1, <2>2, <3>1
  <2> QED
    BY <2>3, <2>4
<1> QED
  BY <1>4 DEF EventsAreCounted, Counted

\* A commit leaves the other writers their locks and their records.
LEMMA CommitWriters ==
  ASSUME IInv, NEW w \in Writers, Commit(w)
  PROVE  (WriterInv /\ RecordInv)'
<1>1. PICK q \in Transaction : q = tx[w]
  BY DEF IInv, TypeOK
<1>2. /\ q.punch \in Punches /\ q.row \in Record /\ q.targets = q.held
      /\ rows' = [rows EXCEPT ![q.punch] = q.row]
      /\ \E o \in Outcomes \cup {"none"} : review' = [review EXCEPT ![q.punch] = o]
      /\ last' = [t \in Tenants |-> IF t \in q.targets THEN last[t] + 1 ELSE last[t]]
      /\ \A v \in Writers \ {w} :
           /\ v = q.punch => tx[v].pc = "done"
           /\ Undecided(tx[v]) /\ tx[v].kind # "tap" => tx[v].punch # q.punch
      /\ Sets(w, [NoTx EXCEPT !.pc = "done"]) /\ UNCHANGED <<members, back>>
  BY <1>1, CommitSets
<1>3. TypeOK /\ RecordInv /\ \A v \in Writers : tx[v] \in Transaction
  BY DEF IInv, TypeOK
<1>4. \A x \in Punches \ {q.punch} : rows'[x] = rows[x] /\ review'[x] = review[x]
  BY <1>2, <1>3 DEF TypeOK
<1>5. rows'[q.punch] # NoRow /\ (Committed(q.punch) => rows'[q.punch] = rows[q.punch])
  BY <1>1, <1>2, <1>3, CommitSets, Constants DEF TypeOK
<1>6. /\ \A v \in Writers \ {w} : tx'[v] = tx[v]
      /\ tx'[w] = [NoTx EXCEPT !.pc = "done"]
  BY <1>2, <1>3 DEF Sets, TypeOK
<1>7. tx'[w].held = {} /\ tx'[w].targets = {} /\ tx'[w].pc = "done"
  BY <1>6, NoTxTyped DEF Transaction
<1>8. ASSUME NEW v \in Writers \ {w} PROVE Locks(tx[v])' /\ Content(v, tx[v])'
  <2>1. Locks(tx[v]) /\ Content(v, tx[v]) /\ tx[v].held \cap q.held = {} /\ tx[v] \in Transaction
    BY <1>1, Parts DEF Apart
  <2>2. Locks(tx[v])'
    <3>1. tx[v].pc = "ready" => \A t \in tx[v].targets : tx[v].seq[t] = last'[t] + 1
      <4>1. ASSUME tx[v].pc = "ready", NEW t \in tx[v].targets
            PROVE  t \in Tenants /\ t \notin q.targets /\ tx[v].seq[t] = last[t] + 1
        BY <1>2, <2>1, <4>1 DEF Locks, Transaction
      <4> QED
        BY <1>2, <4>1
    <3> QED
      BY <1>2, <1>6, <2>1, <3>1 DEF Locks, Undecided
  <2>3. tx[v].pc # "done" => ~Committed(v)'
    BY <1>2, <1>4, <2>1, Constants DEF Content, Committed
  <2>4. Undecided(tx[v]) /\ tx[v].kind # "tap" => Decides(tx[v])'
    <3>1. SUFFICES ASSUME Undecided(tx[v]), tx[v].kind # "tap" PROVE Decides(tx[v])'
      OBVIOUS
    <3>2. Decides(tx[v]) /\ tx[v].punch # q.punch
      BY <1>2, <2>1, <3>1 DEF Content
    <3>3. rows'[tx[v].punch] = rows[tx[v].punch] /\ review'[tx[v].punch] = review[tx[v].punch]
      BY <1>4, <3>2 DEF Decides
    <3> QED
      BY <1>6, <3>2, <3>3 DEF Decides, Committed
  <2> QED
    BY <1>6, <2>1, <2>2, <2>3, <2>4 DEF Content, Undecided, Taps
<1>9. Locks(tx[w])' /\ Content(w, tx[w])'
  BY <1>7 DEF Locks, Content, Undecided
<1>10. ASSUME NEW u \in Writers, NEW v \in Writers, u # v PROVE Apart(tx'[u], tx'[v])
  <2>1. CASE u # w /\ v # w
    BY <1>6, <1>10, <2>1, Parts
  <2>2. CASE u = w \/ v = w
    BY <1>7, <2>2 DEF Apart, Undecided
  <2> QED
    BY <2>1, <2>2
<1>11. WriterInv'
  BY <1>8, <1>9, <1>10 DEF WriterInv, Apart, Undecided
<1>12. RecordInv'
  <2>1. ASSUME NEW p \in Old PROVE rows'[p] = rows[p]
    BY <1>3, <1>4, <1>5, Constants DEF RecordInv
  <2> QED
    BY <1>3, <1>4, <1>5, <2>1, Constants DEF RecordInv, Committed
<1> QED
  BY <1>11, <1>12

\* A commit puts its record into each feed it enters, and into no other.
LEMMA CommitEnters ==
  ASSUME IInv, NEW w \in Writers, Commit(w)
  PROVE  (EachPunchOnce /\ BackInv)'
<1>1. PICK q \in Transaction : q = tx[w]
  BY DEF IInv, TypeOK
<1>2. /\ q.punch \in Punches /\ q.row \in Record
      /\ rows' = [rows EXCEPT ![q.punch] = q.row]
      /\ \E o \in Outcomes \cup {"none"} : review' = [review EXCEPT ![q.punch] = o]
      /\ ~Enters(q.punch)
      /\ Enters(q.punch)' <=> q.targets # {}
      /\ q.targets \subseteq {q.row.employer, q.row.site}
      /\ q.targets # {} => q.row.employer \in q.targets
      /\ EntersNow(q.row) /\ q.row.site # NoSite => q.row.site \in q.targets
      /\ events' = events \cup Added(q)
      /\ UNCHANGED <<members, back>>
  BY <1>1, CommitSets
<1>3. /\ \A e \in Added(q) : e.punch = q.punch /\ e.tenant \in q.targets
      /\ \A t \in q.targets : \E e \in Added(q) : e.tenant = t
      /\ \A e, f \in Added(q) : e.tenant = f.tenant => e = f
  BY <1>2, AddedIs DEF IInv
<1>4. /\ \A x \in Punches \ {q.punch} : rows'[x] = rows[x] /\ review'[x] = review[x]
      /\ rows'[q.punch] = q.row
      /\ \A e \in events : e.punch \in Punches
  BY <1>2 DEF IInv, TypeOK, FeedEvent
<1>5. \A x \in Punches \ {q.punch} : Enters(x)' <=> Enters(x)
  BY <1>4 DEF Enters, EntersNow, EntersApproved, Committed
<1>6. \A e \in events : e.punch # q.punch
  BY <1>2 DEF IInv, EachPunchOnce
<1>7. EachPunchOnce'
  <2>1. ASSUME NEW e \in events', NEW f \in events', e.tenant = f.tenant, e.punch = f.punch
        PROVE  e = f
    BY <1>2, <1>3, <1>6, <2>1 DEF IInv, EachPunchOnce
  <2>2. ASSUME NEW e \in events'
        PROVE  Enters(e.punch)' /\ e.tenant \in {rows'[e.punch].employer, rows'[e.punch].site}
    <3>1. CASE e \in events
      <4>1. Enters(e.punch) /\ e.tenant \in {rows[e.punch].employer, rows[e.punch].site}
        BY <3>1 DEF IInv, EachPunchOnce
      <4> QED
        BY <1>4, <1>5, <1>6, <3>1, <4>1
    <3>2. CASE e \in Added(q)
      <4>1. e.punch = q.punch /\ e.tenant \in q.targets
        BY <1>3, <3>2
      <4>2. Enters(q.punch)'
        BY <1>2, <4>1
      <4> QED
        BY <1>2, <1>4, <4>1, <4>2
    <3> QED
      BY <1>2, <2>2, <3>1, <3>2
  <2>3. ASSUME NEW p \in Punches, Enters(p)'
        PROVE  /\ p \in Writers \/ back'.pc = "done" =>
                    \E e \in events' : e.punch = p /\ e.tenant = rows'[p].employer
               /\ p \in Writers /\ EntersNow(rows'[p]) /\ rows'[p].site # NoSite =>
                    \E e \in events' : e.punch = p /\ e.tenant = rows'[p].site
    <3>1. CASE p = q.punch
      BY <1>2, <1>3, <1>4, <2>3, <3>1
    <3>2. CASE p # q.punch
      <4>1. Enters(p) /\ rows'[p] = rows[p]
        BY <1>4, <1>5, <2>3, <3>2
      <4>2. /\ p \in Writers \/ back.pc = "done" =>
                 \E e \in events : e.punch = p /\ e.tenant = rows[p].employer
            /\ p \in Writers /\ EntersNow(rows[p]) /\ rows[p].site # NoSite =>
                 \E e \in events : e.punch = p /\ e.tenant = rows[p].site
        BY <4>1 DEF IInv, EachPunchOnce
      <4> QED
        BY <1>2, <4>1, <4>2
    <3> QED
      BY <3>1, <3>2
  <2> QED
    BY <2>1, <2>2, <2>3 DEF EachPunchOnce, EntersNow
<1>8. BackInv'
  <2>1. ASSUME NEW t \in Tenants, NEW p \in Missing(t)'
        PROVE  p \in Missing(t) /\ rows'[p] = rows[p]
    <3>1. /\ p \in Punches /\ Enters(p)' /\ rows'[p].employer = t
          /\ \A e \in events' : e.tenant = t => e.punch # p
      BY <2>1 DEF Missing, Enters, FeedOf
    <3>2. p # q.punch
      BY <1>2, <1>3, <1>4, <3>1
    <3>3. rows'[p] = rows[p] /\ review'[p] = review[p] /\ events \subseteq events'
      BY <1>2, <1>4, <3>1, <3>2
    <3> QED
      BY <2>1, <3>3 DEF Missing, Committed, EntersNow, EntersApproved, FeedOf
  <2>2. ASSUME NEW t \in Tenants, NEW p \in Missing(t)' PROVE Ahead(t, p)'
    <3>1. Ahead(t, p)
      BY <2>1, <2>2 DEF IInv, BackInv
    <3> QED
      BY <1>2, <2>1, <2>2, <3>1 DEF Ahead, HistoryKey
  <2> QED
    BY <1>2, <2>2 DEF IInv, BackInv
<1> QED
  BY <1>7, <1>8

\* A writer commits.
LEMMA CommitKeeps ==
  ASSUME IInv, NEW w \in Writers, Commit(w)
  PROVE  IInv'
BY CommitTypes, CommitCounts, CommitWriters, CommitEnters DEF IInv

---------------------------------------------------------------------------
(* The backfill.                                                            *)

\* A window is the first of its records: none of the others comes before its
\* end.
LEMMA WindowIs ==
  ASSUME TypeOK, NEW A, A \subseteq Punches, \A p \in A : Committed(p)
  PROVE  LET found == FirstOf(A, HistoryKey, Chunk)
             end == CHOOSE p \in found : \A q \in found : ~Before(HistoryKey(p), HistoryKey(q))
         IN  /\ found \subseteq A
             /\ found = {} => A = {}
             /\ found # {} =>
                  /\ end \in found /\ HistoryKey(end) \in Nat \X Nat
                  /\ \A p \in A : p \in found \/ Before(HistoryKey(end), HistoryKey(p))
<1> DEFINE k == [p \in A |-> HistoryKey(p)]
           n == Cardinality(A)
           found == FirstOf(A, HistoryKey, Chunk)
           end == CHOOSE p \in found : \A q \in found : ~Before(HistoryKey(p), HistoryKey(q))
<1>1. IsFiniteSet(A)
  BY FS_Subset, IdAssumption
<1>2. \A p \in A : k[p] = HistoryKey(p) /\ HistoryKey(p) \in Nat \X Nat
  BY Constants DEF TypeOK, Committed, HistoryKey, Record
<1>3. /\ k \in [A -> Nat \X Nat]
      /\ \A x, y \in A : k[x] = k[y] => x = y
  BY <1>2 DEF HistoryKey
<1>4. \A x \in A : Lower(A, k, x) = {y \in A : Before(HistoryKey(y), HistoryKey(x))}
  BY <1>2 DEF Lower
<1> HIDE DEF k
<1> DEFINE r == Ranks(A, k)
<1>5. /\ r \in [A -> 0 .. (n - 1)] /\ n \in Nat
      /\ \A i \in 0 .. (n - 1) : \E x \in A : r[x] = i
      /\ \A x, y \in A : Before(k[x], k[y]) => r[x] < r[y]
  <2>1. r \in Bijection(A, 0 .. (n - 1))
    BY <1>1, <1>3, RanksCount
  <2>2. r \in Surjection(A, 0 .. (n - 1))
    BY <2>1 DEF Bijection
  <2> QED
    BY <1>1, <1>3, <2>2, RanksCount DEF Surjection
<1>6. found = {x \in A : r[x] < Chunk}
  <2>1. \A x \in A : r[x] = Cardinality(Lower(A, k, x))
    BY DEF Ranks
  <2>2. \A x \in A : Place(A, HistoryKey, x) = r[x]
    BY <1>4, <2>1, Zenon DEF Place
  <2> QED
    BY <2>2, Zenon DEF FirstOf
<1>7. Chunk \in Nat \ {0}
  BY PageAssumption
<1> HIDE DEF found, r
<1>8. found = {} => A = {}
  <2>1. SUFFICES ASSUME A # {} PROVE found # {}
    OBVIOUS
  <2>2. n # 0
    BY <1>1, <2>1, FS_EmptySet
  <2>3. PICK x \in A : r[x] = 0
    BY <1>5, <2>2
  <2> QED
    BY <1>6, <1>7, <2>3
<1>9. found # {} =>
        /\ end \in found /\ HistoryKey(end) \in Nat \X Nat
        /\ \A p \in A : p \in found \/ Before(HistoryKey(end), HistoryKey(p))
  <2>1. SUFFICES ASSUME found # {}
                 PROVE  /\ end \in found /\ HistoryKey(end) \in Nat \X Nat
                        /\ \A p \in A : p \in found \/ Before(HistoryKey(end), HistoryKey(p))
    OBVIOUS
  <2> DEFINE R == {r[x] : x \in found}
  <2>2. R \subseteq 0 .. n /\ R # {}
    <3>1. \A x \in found : r[x] \in 0 .. n
      BY <1>5, <1>6
    <3> QED
      BY <2>1, <3>1
  <2>3. PICK m \in R : \A u \in R : u <= m
    BY <1>5, <2>2, Greatest
  <2>4. PICK x \in found : r[x] = m
    BY <2>3
  <2>5. ASSUME NEW q \in found PROVE ~Before(HistoryKey(x), HistoryKey(q))
    <3>1. r[q] <= r[x] /\ r[q] \in Nat /\ r[x] \in Nat
      BY <1>5, <1>6, <2>3, <2>4, <2>5
    <3> QED
      BY <1>2, <1>5, <1>6, <2>4, <2>5, <3>1
  <2>6. end \in found /\ \A q \in found : ~Before(HistoryKey(end), HistoryKey(q))
    BY <2>5
  <2> HIDE DEF end
  <2>7. ASSUME NEW p \in A, p \notin found PROVE Before(HistoryKey(end), HistoryKey(p))
    <3>1. r[end] < Chunk /\ ~(r[p] < Chunk) /\ r[p] \in Nat /\ r[end] \in Nat /\ end \in A
      BY <1>5, <1>6, <2>6, <2>7
    <3>2. ~Before(HistoryKey(p), HistoryKey(end))
      BY <1>2, <1>5, <1>7, <2>7, <3>1
    <3>3. HistoryKey(p) # HistoryKey(end)
      BY <2>6, <2>7 DEF HistoryKey
    <3> QED
      BY <1>2, <2>7, <3>1, <3>2, <3>3, BeforeIsAnOrder
  <2> QED
    BY <1>2, <1>6, <2>6, <2>7
<1>10. found \subseteq A
  BY <1>6
<1> QED
  BY <1>8, <1>9, <1>10 DEF found

\* A run that starts has every record that lacks its event ahead.
LEMMA AllAhead ==
  ASSUME TypeOK, NEW t \in Tenants, NEW p \in Missing(t)
  PROVE  NextTenant(NoSite) <= t /\ Before(<<0, 0>>, HistoryKey(p))
<1>1. t \in Nat /\ t > NoSite
  BY IdAssumption DEF NoSite
<1>2. NextTenant(NoSite) <= t
  BY <1>1, NextTenantIs, Constants
<1>3. rows[p].at \in Nat \ {0}
  BY DEF Missing, Committed, TypeOK, Record
<1> QED
  BY <1>2, <1>3 DEF Before, HistoryKey

\* A step of the backfill that writes nothing keeps the invariant, if it
\* leaves every record that lacks its event ahead of it.
LEMMA BackMoves ==
  ASSUME IInv, NEW b \in Backfill, Goes(b),
         UNCHANGED <<rows, review, last, events, members, tx>>,
         \A w \in Writers : b.held \notin tx[w].held,
         b.held = IF b.pc = "locked" THEN b.tenant ELSE NoSite,
         b.pc \in {"waiting", "locked"} => b.tenant \in Tenants,
         \A t \in Tenants : \A p \in Missing(t) :
           /\ b.pc # "done" /\ b.tenant <= t
           /\ t = b.tenant =>
                \/ Before(b.after, HistoryKey(p))
                \/ b.pc \in {"waiting", "locked"} /\ p \in b.ids
  PROVE  IInv'
<1>1. TypeOK'
  BY DEF IInv, TypeOK, Goes
<1>2. WriterInv'
  <2>1. ASSUME NEW w \in Writers PROVE Locks(tx[w])' /\ Content(w, tx[w])'
    <3>1. Locks(tx[w]) /\ Content(w, tx[w]) /\ back'.held \notin tx[w].held
      BY Parts DEF Goes
    <3> QED
      BY <3>1 DEF Locks, Content, Undecided, Taps, Decides, Committed
  <2> QED
    BY <2>1 DEF IInv, WriterInv, Apart, Undecided
<1>3. RecordInv' /\ EventsAreCounted'
  BY DEF IInv, RecordInv, EventsAreCounted, Committed, FeedOf
<1>4. \A t \in Tenants : Missing(t)' = Missing(t)
  BY DEF Missing, Committed, EntersNow, EntersApproved, FeedOf
<1>5. BackInv'
  <2>1. ASSUME NEW t \in Tenants, NEW p \in Missing(t)' PROVE Ahead(t, p)'
    <3>1. p \in Old
      BY <1>4, <2>1 DEF IInv, BackInv, Ahead
    <3> QED
      BY <1>4, <2>1, <3>1 DEF Ahead, Goes, HistoryKey
  <2> QED
    BY <2>1 DEF BackInv, Goes
<1>6. EachPunchOnce'
  <2>1. ASSUME NEW p \in Old, Enters(p), b.pc = "done"
        PROVE  \E e \in events : e.punch = p /\ e.tenant = rows[p].employer
    <3>1. p \in Punches /\ rows[p].employer \in Tenants /\ rows[p].site = NoSite
      BY <2>1, Constants DEF IInv, TypeOK, RecordInv, Committed, Record
    <3>2. p \notin Missing(rows[p].employer)
      BY <2>1, <3>1
    <3> QED
      BY <2>1, <3>1, <3>2 DEF Missing, Enters, FeedOf
  <2>2. \A p \in Punches : p \in Writers \/ p \in Old
    BY DEF Punches
  <2>3. b.pc = back'.pc
    BY DEF Goes
  <2>4. ASSUME NEW p \in Punches, Enters(p)
        PROVE  p \in Writers \/ b.pc = "done" =>
                 \E e \in events : e.punch = p /\ e.tenant = rows[p].employer
    BY <2>1, <2>2, <2>4 DEF IInv, EachPunchOnce
  <2> QED
    BY <2>3, <2>4 DEF IInv, EachPunchOnce, Enters, Committed, EntersNow, EntersApproved
<1> QED
  BY <1>1, <1>2, <1>3, <1>5, <1>6 DEF IInv

\* The counters a writer holds are companies'.
LEMMA HeldAreTenants ==
  ASSUME TypeOK, NEW w \in Writers
  PROVE  tx[w].held \subseteq Tenants /\ NoSite \notin tx[w].held
BY Constants DEF TypeOK, Transaction

\* The backfill looks for its next window.
LEMMA WindowKeeps ==
  ASSUME IInv, BackfillWindow
  PROVE  IInv'
<1> DEFINE A == {p \in Missing(back.tenant) : Before(back.after, HistoryKey(p))}
           found == FirstOf(A, HistoryKey, Chunk)
           end == CHOOSE p \in found : \A q \in found : ~Before(HistoryKey(p), HistoryKey(q))
           next == NextTenant(back.tenant)
<1>0. PICK b0 \in Backfill : b0 = back
  BY DEF IInv, TypeOK
<1>1. /\ back.pc = "window" /\ UNCHANGED <<rows, review, last, events, members, tx>>
      /\ \/ /\ found # {}
            /\ Goes([b0 EXCEPT !.pc = "waiting", !.ids = found, !.after = HistoryKey(end)])
         \/ /\ found = {} /\ next # NoSite
            /\ Goes([b0 EXCEPT !.tenant = next, !.after = <<0, 0>>])
         \/ /\ found = {} /\ next = NoSite
            /\ Goes([b0 EXCEPT !.pc = "done"])
  BY <1>0 DEF BackfillWindow
<1>2. A \subseteq Punches /\ \A p \in A : Committed(p)
  BY DEF Missing
<1>3. /\ found \subseteq A
      /\ found = {} => A = {}
      /\ found # {} =>
           /\ end \in found /\ HistoryKey(end) \in Nat \X Nat
           /\ \A p \in A : p \in found \/ Before(HistoryKey(end), HistoryKey(p))
  BY <1>2, WindowIs DEF IInv
<1>4. /\ back.tenant \in Tenants \cup {NoSite} /\ back.held = NoSite
      /\ \A w \in Writers : NoSite \notin tx[w].held
      /\ \A t \in Tenants : t \in Nat
      /\ back.tenant \in Nat /\ NoSite = 0 /\ NoSite \notin Tenants
  BY <1>0, <1>1, HeldAreTenants, Constants DEF IInv, BackInv, Backfill
<1>5. \A t \in Tenants : \A p \in Missing(t) :
        /\ back.tenant <= t /\ p \in Punches /\ rows[p].employer = t
        /\ t = back.tenant => p \in A
  BY <1>1 DEF IInv, BackInv, Ahead, Missing
<1>6. /\ next \in Tenants \cup {NoSite}
      /\ next # NoSite => \A u \in Tenants : u > back.tenant => next <= u
      /\ next = NoSite => \A u \in Tenants : u <= back.tenant
  BY <1>4, NextTenantIs
<1> HIDE DEF found, end, next
<1>7. CASE found # {}
  <2> DEFINE b == [b0 EXCEPT !.pc = "waiting", !.ids = found, !.after = HistoryKey(end)]
  <2>1. /\ b \in Backfill /\ b.pc = "waiting" /\ b.tenant = back.tenant /\ b.held = NoSite
        /\ b.ids = found /\ b.after = HistoryKey(end)
    BY <1>0, <1>2, <1>3, <1>4, <1>7 DEF Backfill
  <2>2. back.tenant \in Tenants
    <3>1. PICK p \in found : TRUE
      BY <1>7
    <3>2. p \in Missing(back.tenant)
      BY <1>3, <3>1
    <3> QED
      BY <3>2 DEF Missing, Committed, IInv, TypeOK, Record
  <2>3. Goes(b)
    BY <1>1, <1>7
  <2> HIDE DEF b, A
  <2> QED
    BY <1>1, <1>3, <1>4, <1>5, <1>7, <2>1, <2>2, <2>3, BackMoves
<1>8. CASE found = {} /\ next # NoSite
  <2> DEFINE b == [b0 EXCEPT !.tenant = next, !.after = <<0, 0>>]
  <2>1. /\ b \in Backfill /\ b.pc = "window" /\ b.tenant = next /\ b.held = NoSite
        /\ b.after = <<0, 0>>
    BY <1>0, <1>1, <1>4, <1>6 DEF Backfill
  <2>2. Goes(b)
    BY <1>1, <1>8
  <2>3. ASSUME NEW t \in Tenants, NEW p \in Missing(t)
        PROVE  next <= t /\ Before(<<0, 0>>, HistoryKey(p))
    <3>1. back.tenant <= t /\ t # back.tenant
      BY <1>3, <1>5, <1>8, <2>3
    <3>2. t > back.tenant
      BY <1>4, <3>1
    <3> QED
      BY <1>6, <1>8, <3>2, AllAhead DEF IInv
  <2> HIDE DEF b, A
  <2> QED
    BY <1>1, <1>4, <2>1, <2>2, <2>3, BackMoves
<1>9. CASE found = {} /\ next = NoSite
  <2> DEFINE b == [b0 EXCEPT !.pc = "done"]
  <2>1. b \in Backfill /\ b.pc = "done" /\ b.held = NoSite
    BY <1>0, <1>4 DEF Backfill
  <2>2. Goes(b)
    BY <1>1, <1>9
  <2>3. ASSUME NEW t \in Tenants, NEW p \in Missing(t) PROVE FALSE
    <3>1. back.tenant <= t /\ t # back.tenant
      BY <1>3, <1>5, <1>9, <2>3
    <3> QED
      BY <1>4, <1>6, <1>9, <3>1
  <2> HIDE DEF b, A
  <2> QED
    BY <1>1, <1>4, <2>1, <2>2, <2>3, BackMoves
<1> QED
  BY <1>1, <1>7, <1>8, <1>9

\* The backfill gets the counter.
LEMMA BackLockKeeps ==
  ASSUME IInv, BackfillLock
  PROVE  IInv'
<1>0. PICK b0 \in Backfill : b0 = back
  BY DEF IInv, TypeOK
<1> DEFINE b == [b0 EXCEPT !.pc = "locked", !.held = back.tenant]
<1>1. /\ back.pc = "waiting" /\ Free(back.tenant) /\ Goes(b)
      /\ UNCHANGED <<rows, review, last, events, members, tx>>
  BY <1>0 DEF BackfillLock
<1>2. /\ b \in Backfill /\ b.pc = "locked" /\ b.tenant = back.tenant /\ b.held = back.tenant
      /\ b.ids = back.ids /\ b.after = back.after
  BY <1>0 DEF Backfill
<1>3. \A w \in Writers : b.held \notin tx[w].held
  BY <1>1, <1>2 DEF Free
<1>4. back.tenant \in Tenants
  BY <1>1 DEF IInv, BackInv
<1>5. \A t \in Tenants : \A p \in Missing(t) :
        /\ back.tenant <= t
        /\ t = back.tenant => Before(back.after, HistoryKey(p)) \/ p \in back.ids
  BY DEF IInv, BackInv, Ahead
<1> HIDE DEF b
<1> QED
  BY <1>1, <1>2, <1>3, <1>4, <1>5, BackMoves

\* The backfill is started over.
LEMMA BackAgainKeeps ==
  ASSUME IInv, BackfillAgain
  PROVE  IInv'
<1>0. PICK b0 \in Backfill : b0 = back
  BY DEF IInv, TypeOK
<1> DEFINE b == [pc |-> "window", tenant |-> NextTenant(NoSite), after |-> <<0, 0>>,
                 ids |-> {}, held |-> NoSite, runs |-> b0.runs + 1]
<1>1. Goes(b) /\ UNCHANGED <<rows, review, last, events, members, tx>>
  BY <1>0 DEF BackfillAgain
<1>2. /\ b \in Backfill /\ b.pc = "window" /\ b.tenant = NextTenant(NoSite)
      /\ b.held = NoSite /\ b.after = <<0, 0>>
  BY NextTenantIs DEF Backfill
<1>3. \A w \in Writers : NoSite \notin tx[w].held
  BY HeldAreTenants DEF IInv
<1>4. \A t \in Tenants : \A p \in Missing(t) :
        NextTenant(NoSite) <= t /\ Before(<<0, 0>>, HistoryKey(p))
  BY AllAhead DEF IInv
<1> HIDE DEF b
<1> QED
  BY <1>1, <1>2, <1>3, <1>4, BackMoves

(* The window's records that still lack their event.                        *)
Pending == back.ids \cap Missing(back.tenant)

(* The events the backfill writes for them, numbered in their order.        *)
Filled ==
  {Event(back.tenant,
         last[back.tenant] + 1
           + Cardinality({q \in Pending : Before(HistoryKey(q), HistoryKey(p))}),
         p, rows[p]) : p \in Pending}

\* They stand, one for each, at the positions that follow the counter.
LEMMA FilledIs ==
  ASSUME TypeOK, back.tenant \in Tenants
  PROVE  /\ Filled \subseteq FeedEvent
         /\ \A e \in Filled : e.tenant = back.tenant /\ e.punch \in Pending
         /\ \A p \in Pending : \E e \in Filled : e.punch = p
         /\ \A e, f \in Filled : e.punch = f.punch => e = f
         /\ Cardinality(Pending) \in Nat
         /\ Counted(Filled, last[back.tenant] + 1, last[back.tenant] + Cardinality(Pending))
<1> DEFINE t == back.tenant
           k == [p \in Pending |-> HistoryKey(p)]
           n == Cardinality(Pending)
<1>1. IsFiniteSet(Pending) /\ \A p \in Pending : p \in Punches /\ Committed(p)
  <2>1. Pending \subseteq Punches /\ \A p \in Pending : Committed(p)
    BY DEF Pending, Missing
  <2> QED
    BY <2>1, FS_Subset, IdAssumption
<1>2. \A p \in Pending : /\ k[p] = HistoryKey(p) /\ HistoryKey(p) \in Nat \X Nat
                         /\ rows[p] \in Record
  BY <1>1, Constants DEF TypeOK, Committed, HistoryKey, Record
<1>3. /\ k \in [Pending -> Nat \X Nat]
      /\ \A x, y \in Pending : k[x] = k[y] => x = y
  BY <1>2 DEF HistoryKey
<1>4. \A x \in Pending : Lower(Pending, k, x) = {q \in Pending : Before(HistoryKey(q), HistoryKey(x))}
  BY <1>2 DEF Lower
<1> HIDE DEF k
<1> DEFINE r == Ranks(Pending, k)
           at(p) == Event(t, last[t] + 1 + r[p], p, rows[p])
<1>5. /\ n \in Nat /\ r \in [Pending -> 0 .. (n - 1)]
      /\ \A x, y \in Pending : r[x] = r[y] => x = y
      /\ \A i \in 0 .. (n - 1) : \E x \in Pending : r[x] = i
  <2>1. r \in Bijection(Pending, 0 .. (n - 1)) /\ n \in Nat
    BY <1>1, <1>3, RanksCount
  <2> QED
    BY <2>1 DEF Bijection, Injection, IsInjective, Surjection
<1>6. Filled = {at(p) : p \in Pending}
  <2>1. \A x \in Pending : r[x] = Cardinality({q \in Pending : Before(HistoryKey(q), HistoryKey(x))})
    BY <1>4 DEF Ranks
  <2> QED
    BY <2>1 DEF Filled
<1>7. last[t] \in Nat
  BY DEF TypeOK
<1>8. ASSUME NEW p \in Pending
      PROVE  /\ at(p) \in FeedEvent /\ at(p).tenant = t /\ at(p).punch = p
             /\ at(p).seq = last[t] + 1 + r[p] /\ at(p).seq \in (last[t] + 1) .. (last[t] + n)
  <2>1. last[t] + 1 + r[p] \in Nat /\ last[t] + 1 + r[p] \in (last[t] + 1) .. (last[t] + n)
    BY <1>5, <1>7
  <2> QED
    BY <1>1, <1>2, <2>1, EventIs
<1> HIDE DEF r, at
<1>9. Filled \subseteq FeedEvent /\ \A e \in Filled : e.tenant = t /\ e.punch \in Pending
  BY <1>6, <1>8
<1>10. \A p \in Pending : \E e \in Filled : e.punch = p
  BY <1>6, <1>8
<1>11. \A e, f \in Filled : e.punch = f.punch => e = f
  BY <1>6, <1>8
<1>12. Counted(Filled, last[t] + 1, last[t] + n)
  <2>1. \A e \in Filled : e.seq \in (last[t] + 1) .. (last[t] + n)
    BY <1>6, <1>8
  <2>2. ASSUME NEW i \in (last[t] + 1) .. (last[t] + n) PROVE \E e \in Filled : e.seq = i
    <3>1. i - last[t] - 1 \in 0 .. (n - 1)
      BY <1>5, <1>7
    <3>2. PICK x \in Pending : r[x] = i - last[t] - 1
      BY <1>5, <3>1
    <3>3. at(x).seq = i /\ at(x) \in Filled
      BY <1>6, <1>7, <1>8, <3>2
    <3> QED
      BY <3>3
  <2>3. ASSUME NEW e \in Filled, NEW f \in Filled, e.seq = f.seq PROVE e = f
    <3>1. PICK x \in Pending : e = at(x)
      BY <1>6
    <3>2. PICK y \in Pending : f = at(y)
      BY <1>6
    <3>3. r[x] \in Nat /\ r[y] \in Nat
      BY <1>5
    <3>4. r[x] = r[y]
      BY <1>7, <1>8, <2>3, <3>1, <3>2, <3>3
    <3> QED
      BY <1>5, <3>1, <3>2, <3>4
  <2>4. {e.seq : e \in Filled} = (last[t] + 1) .. (last[t] + n)
    BY <2>1, <2>2
  <2> QED
    BY <2>3, <2>4 DEF Counted
<1> QED
  BY <1>5, <1>9, <1>10, <1>11, <1>12

\* The backfill writes its window.
LEMMA BackWriteKeeps ==
  ASSUME IInv, BackfillWrite
  PROVE  IInv'
<1> DEFINE t == back.tenant
           n == Cardinality(Pending)
<1>0. PICK b0 \in Backfill : b0 = back
  BY DEF IInv, TypeOK
<1>1. /\ back.pc = "locked" /\ back.held = t /\ t \in Tenants
      /\ events' = events \cup Filled
      /\ last' = [last EXCEPT ![t] = @ + n]
      /\ back' = [b0 EXCEPT !.pc = "window", !.held = NoSite, !.ids = {}]
      /\ UNCHANGED <<rows, review, members, tx>>
  BY <1>0 DEF BackfillWrite, Goes, Filled, Pending, IInv, BackInv
<1>2. /\ Filled \subseteq FeedEvent
      /\ \A e \in Filled : e.tenant = t /\ e.punch \in Pending
      /\ \A p \in Pending : \E e \in Filled : e.punch = p
      /\ \A e, f \in Filled : e.punch = f.punch => e = f
      /\ n \in Nat
      /\ Counted(Filled, last[t] + 1, last[t] + n)
  BY <1>1, FilledIs DEF IInv
<1>3. /\ back' \in Backfill /\ back'.pc = "window" /\ back'.tenant = t /\ back'.held = NoSite
      /\ back'.after = back.after
  BY <1>0, <1>1 DEF Backfill
<1>4. /\ last' \in [Tenants -> Nat] /\ last[t] \in Nat
      /\ \A u \in Tenants : last'[u] = IF u = t THEN last[t] + n ELSE last[u]
  BY <1>1, <1>2 DEF IInv, TypeOK
<1>5. TypeOK'
  BY <1>1, <1>2, <1>3, <1>4 DEF IInv, TypeOK
<1>6. WriterInv'
  <2>1. ASSUME NEW w \in Writers PROVE Locks(tx[w])' /\ Content(w, tx[w])'
    <3>1. /\ Locks(tx[w]) /\ Content(w, tx[w]) /\ tx[w].held \subseteq Tenants
          /\ NoSite \notin tx[w].held
      BY Parts, HeldAreTenants DEF IInv
    <3>2. tx[w].pc = "ready" => \A u \in tx[w].targets : last'[u] = last[u]
      BY <1>1, <1>4, <3>1 DEF Locks
    <3> QED
      BY <1>1, <1>3, <3>1, <3>2 DEF Locks, Content, Undecided, Taps, Decides, Committed
  <2> QED
    BY <1>1, <2>1 DEF IInv, WriterInv, Apart, Undecided
<1>7. RecordInv'
  BY <1>1 DEF IInv, RecordInv, Committed
<1>8. EventsAreCounted'
  <2>1. ASSUME NEW u \in Tenants PROVE Counted(FeedOf(u)', 1, last'[u])
    <3>1. Counted(FeedOf(u), 1, last[u])
      BY DEF IInv, EventsAreCounted, Counted
    <3>2. CASE u = t
      <4>1. FeedOf(u)' = FeedOf(u) \cup Filled
        BY <1>1, <1>2, <3>2 DEF FeedOf
      <4>2. last[u] + n \in Nat /\ last[u] <= last[u] + n /\ last'[u] = last[u] + n
        BY <1>2, <1>4, <3>2
      <4> QED
        BY <1>2, <1>4, <3>1, <3>2, <4>1, <4>2, Counts
    <3>3. CASE u # t
      <4>1. FeedOf(u)' = FeedOf(u)
        BY <1>1, <1>2, <3>3 DEF FeedOf
      <4> QED
        BY <1>4, <3>1, <3>3, <4>1
    <3> QED
      BY <3>2, <3>3
  <2> QED
    BY <2>1 DEF EventsAreCounted, Counted
<1>9. \A p \in Punches : (Enters(p)' <=> Enters(p)) /\ (Enters(p) => p \in Punches)
  BY <1>1 DEF Enters, Committed, EntersNow, EntersApproved
<1>10. \A p \in Pending :
         /\ p \in Punches /\ Enters(p) /\ rows[p].employer = t
         /\ \A e \in events : e.tenant = t => e.punch # p
  BY DEF Pending, Missing, Enters, FeedOf
<1>11. EachPunchOnce'
  <2>1. ASSUME NEW e \in events', NEW f \in events', e.tenant = f.tenant, e.punch = f.punch
        PROVE  e = f
    BY <1>1, <1>2, <1>10, <2>1 DEF IInv, EachPunchOnce
  <2>2. ASSUME NEW e \in events'
        PROVE  Enters(e.punch)' /\ e.tenant \in {rows[e.punch].employer, rows[e.punch].site}
    <3>1. CASE e \in events
      <4>1. /\ Enters(e.punch) /\ e.tenant \in {rows[e.punch].employer, rows[e.punch].site}
            /\ e.punch \in Punches
        BY <3>1 DEF IInv, EachPunchOnce, TypeOK, FeedEvent
      <4> QED
        BY <1>9, <4>1
    <3>2. CASE e \in Filled
      <4>1. e.tenant = t /\ e.punch \in Pending
        BY <1>2, <3>2
      <4> QED
        BY <1>9, <1>10, <4>1
    <3> QED
      BY <1>1, <2>2, <3>1, <3>2
  <2>3. ASSUME NEW p \in Punches, Enters(p)'
        PROVE  /\ p \in Writers =>
                    \E e \in events' : e.punch = p /\ e.tenant = rows[p].employer
               /\ p \in Writers /\ EntersNow(rows[p]) /\ rows[p].site # NoSite =>
                    \E e \in events' : e.punch = p /\ e.tenant = rows[p].site
    <3>1. Enters(p)
      BY <1>9, <2>3
    <3>2. /\ p \in Writers =>
               \E e \in events : e.punch = p /\ e.tenant = rows[p].employer
          /\ p \in Writers /\ EntersNow(rows[p]) /\ rows[p].site # NoSite =>
               \E e \in events : e.punch = p /\ e.tenant = rows[p].site
      BY <3>1 DEF IInv, EachPunchOnce
    <3> QED
      BY <1>1, <3>2
  <2> QED
    BY <1>1, <1>3, <2>1, <2>2, <2>3 DEF EachPunchOnce, EntersNow
<1>12. BackInv'
  <2>1. ASSUME NEW u \in Tenants, NEW p \in Missing(u)'
        PROVE  p \in Missing(u) /\ (u = t => p \notin Pending)
    BY <1>1, <1>2, <2>1 DEF Missing, Committed, EntersNow, EntersApproved, FeedOf
  <2>2. ASSUME NEW u \in Tenants, NEW p \in Missing(u)' PROVE Ahead(u, p)'
    <3>1. Ahead(u, p) /\ (u = t => p \notin back.ids)
      BY <2>1, <2>2 DEF IInv, BackInv, Pending
    <3> QED
      BY <1>1, <1>3, <3>1 DEF Ahead, HistoryKey
  <2> QED
    BY <1>3, <2>2 DEF BackInv
<1> QED
  BY <1>5, <1>6, <1>7, <1>8, <1>11, <1>12 DEF IInv

---------------------------------------------------------------------------
(* The theorems.                                                            *)

\* The first state.
LEMMA InitHolds ==
  ASSUME Init
  PROVE  IInv
<1>1. /\ rows = [p \in Punches |-> IF p \in Old THEN OldRows[p] ELSE NoRow]
      /\ \E approved \in SUBSET {p \in Old : rows[p].verdict = "flag"} :
           review = [p \in Punches |-> IF p \in approved THEN "approved" ELSE "none"]
      /\ last = [t \in Tenants |-> 0] /\ events = {} /\ members = Tenants
      /\ tx = [w \in Writers |-> NoTx]
      /\ back = [pc |-> "window", tenant |-> NextTenant(NoSite), after |-> <<0, 0>>,
                 ids |-> {}, held |-> NoSite, runs |-> 1]
  BY DEF Init
<1>2. \A p \in Punches : /\ p \in Old => /\ rows[p] \in Record /\ rows[p] # NoRow
                                        /\ rows[p].site = NoSite
                         /\ p \notin Old => rows[p] = NoRow
  BY <1>1, RowAssumption, Constants
<1>3. /\ back \in Backfill /\ back.pc = "window" /\ back.tenant = NextTenant(NoSite)
      /\ back.held = NoSite /\ back.after = <<0, 0>>
  BY <1>1, NextTenantIs DEF Backfill
<1>4. TypeOK
  <2>1. rows \in [Punches -> Record \cup {NoRow}]
    BY <1>1, <1>2
  <2>2. review \in [Punches -> Outcomes \cup {"none", "approved"}]
    BY <1>1
  <2>3. tx \in [Writers -> Transaction] /\ last \in [Tenants -> Nat]
    BY <1>1, NoTxTyped
  <2> QED
    BY <1>1, <1>3, <2>1, <2>2, <2>3 DEF TypeOK
<1>5. WriterInv
  <2>1. ASSUME NEW w \in Writers PROVE Locks(tx[w]) /\ Content(w, tx[w])
    <3>1. tx[w] = NoTx /\ rows[w] = NoRow
      BY <1>1, <1>2, Constants
    <3> QED
      BY <3>1, NoTxTyped DEF Locks, Content, Undecided, Committed
  <2>2. \A v, w \in Writers : Apart(tx[v], tx[w])
    BY <1>1, NoTxTyped DEF Apart, Undecided
  <2> QED
    BY <2>1, <2>2 DEF WriterInv
<1>6. RecordInv
  <2>1. ASSUME NEW p \in Punches, ~Committed(p) PROVE review[p] = "none"
    BY <1>1, <1>2, <2>1 DEF Committed
  <2>2. \A p \in Old : Committed(p) /\ rows[p].site = NoSite
    BY <1>2, Constants DEF Committed
  <2> QED
    BY <2>1, <2>2 DEF RecordInv
<1>7. BackInv
  <2>1. ASSUME NEW t \in Tenants, NEW p \in Missing(t) PROVE Ahead(t, p)
    <3>1. p \in Old
      BY <1>2, <2>1 DEF Missing, Committed
    <3>2. NextTenant(NoSite) <= t /\ Before(<<0, 0>>, HistoryKey(p))
      BY <1>4, <2>1, AllAhead
    <3> QED
      BY <1>3, <3>1, <3>2 DEF Ahead
  <2> QED
    BY <1>3, <2>1 DEF BackInv
<1>8. EventsAreCounted
  <2>1. \A t \in Tenants : FeedOf(t) = {} /\ last[t] = 0
    BY <1>1 DEF FeedOf
  <2>2. 1 .. 0 = {}
    OBVIOUS
  <2> QED
    BY <2>1, <2>2 DEF EventsAreCounted
<1>9. EachPunchOnce
  <2>1. \A w \in Writers : ~Enters(w)
    BY <1>2, Constants DEF Enters, Committed
  <2> QED
    BY <1>1, <1>3, <2>1 DEF EachPunchOnce
<1> QED
  BY <1>4, <1>5, <1>6, <1>7, <1>8, <1>9 DEF IInv

\* The invariant asks nothing of the readers, nor of the holding.
LEMMA OthersKeep ==
  ASSUME IInv, UNCHANGED <<rows, review, last, events, tx, back>>, members' \subseteq members
  PROVE  IInv'
<1>1. TypeOK'
  BY DEF IInv, TypeOK
<1>2. WriterInv'
  <2>1. ASSUME NEW w \in Writers PROVE Locks(tx[w])' /\ Content(w, tx[w])'
    BY Parts DEF Locks, Content, Undecided, Taps, Decides, Committed
  <2> QED
    BY <2>1 DEF IInv, WriterInv, Apart, Undecided
<1>3. RecordInv' /\ EventsAreCounted'
  BY DEF IInv, RecordInv, EventsAreCounted, Committed, FeedOf
<1>4. EachPunchOnce'
  BY DEF IInv, EachPunchOnce, Enters, Committed, EntersNow, EntersApproved
<1>5. BackInv'
  BY DEF IInv, BackInv, Ahead, Missing, HistoryKey, Committed, EntersNow, EntersApproved, FeedOf
<1> QED
  BY <1>1, <1>2, <1>3, <1>4, <1>5 DEF IInv

\* Every step keeps the invariant.
LEMMA NextKeeps ==
  ASSUME IInv, [Next]_vars
  PROVE  IInv'
<1>1. CASE UNCHANGED vars
  BY <1>1, OthersKeep DEF vars
<1>2. CASE ReaderStep
  <2>1. UNCHANGED <<rows, review, last, events, members, tx, back>>
    BY <1>2 DEF ReaderStep, PageHead, PageList, PageLost, WalkCounter, WalkWindow, WalkList
  <2> QED
    BY <2>1, OthersKeep
<1>3. CASE \E t \in Tenants : Leave(t)
  <2>1. UNCHANGED <<rows, review, last, events, tx, back>> /\ members' \subseteq members
    BY <1>3 DEF Leave
  <2> QED
    BY <2>1, OthersKeep
<1>4. CASE BackfillStep
  BY <1>4, WindowKeeps, BackLockKeeps, BackWriteKeeps, BackAgainKeeps DEF BackfillStep
<1>5. CASE \E w \in Writers : WriterStep(w)
  BY <1>5, TapKeeps, DecideKeeps, LockKeeps, CommitKeeps, EndKeeps, AgainKeeps DEF WriterStep
<1> QED
  BY <1>1, <1>2, <1>3, <1>4, <1>5 DEF Next

\* The invariant holds in every state.
LEMMA Invariant == Spec => []IInv
<1>1. Init => IInv
  BY InitHolds
<1>2. IInv /\ [Next]_vars => IInv'
  BY NextKeeps
<1> QED
  BY <1>1, <1>2, PTL DEF Spec

(* What the writers, the backfill and the database hold is of its type.     *)
THEOREM TypeCorrect == Spec => []TypeOK
<1>1. IInv => TypeOK
  BY DEF IInv
<1> QED
  BY <1>1, Invariant, PTL

(* The positions of a company's feed are 1 to its counter, one event each,  *)
(* whatever rolls back and however taps, approvals and the backfill share   *)
(* the counter.                                                             *)
THEOREM PositionsCounted == Spec => []EventsAreCounted
<1>1. IInv => EventsAreCounted
  BY DEF IInv
<1> QED
  BY <1>1, Invariant, PTL

(* A punch that counts is in the feeds of the companies it concerns, once;  *)
(* an old one from the end of the backfill on, however often it is started  *)
(* over and whatever is approved beside it.                                 *)
THEOREM PunchesFed == Spec => []EachPunchOnce
<1>1. IInv => EachPunchOnce
  BY DEF IInv
<1> QED
  BY <1>1, Invariant, PTL

\* Whoever holds what a writer waits for waits, if at all, for a greater one.
LEMMA WaitsUpwards ==
  ASSUME IInv, NEW v \in Writers, NEW w \in Writers, v \in WaitsFor(w), WaitsFor(v) # {}
  PROVE  NextCounter(tx[w]) < NextCounter(tx[v]) /\ NextCounter(tx[v]) \in Tenants
<1>1. tx[v].pc = "locking" /\ NextCounter(tx[w]) \in tx[v].held
  BY DEF WaitsFor
<1>2. Locks(tx[v]) /\ tx[v] \in Transaction
  BY Parts
<1>3. NextCounter(tx[v]) \in tx[v].targets \ tx[v].held
  BY <1>1, <1>2, NextCounterIs DEF Locks
<1> QED
  BY <1>1, <1>2, <1>3 DEF Locks, Transaction

(* Taps and approvals of companies at each other's places never wait for    *)
(* counters in a ring: each locks them in the order of the companies' ids.  *)
THEOREM NoRingOfWriters == Spec => []NoCircularWait
<1>1. ASSUME IInv PROVE NoCircularWait
  <2>1. SUFFICES ASSUME NEW S \in SUBSET Writers, S # {},
                        \A w \in S : WaitsFor(w) \cap S # {}
                 PROVE  FALSE
    BY DEF NoCircularWait
  <2> DEFINE T == {NextCounter(tx[w]) : w \in S}
  <2>2. \A w \in S : NextCounter(tx[w]) \in Tenants
    <3>1. ASSUME NEW w \in S PROVE NextCounter(tx[w]) \in Tenants
      <4>1. tx[w].pc = "locking" /\ w \in Writers
        BY <2>1 DEF WaitsFor
      <4>2. Locks(tx[w]) /\ tx[w] \in Transaction
        BY <4>1, Parts, <1>1
      <4> QED
        BY <4>1, <4>2, NextCounterIs DEF Locks, Transaction
    <3> QED
      BY <3>1
  <2>3. T \subseteq Tenants /\ T # {}
    BY <2>1, <2>2
  <2>4. PICK m \in T : \A u \in T : u <= m
    BY <2>3, GreatestTenant
  <2>5. PICK w \in S : m = NextCounter(tx[w])
    BY <2>4
  <2>6. PICK v \in S : v \in WaitsFor(w)
    BY <2>1
  <2>7. NextCounter(tx[w]) < NextCounter(tx[v]) /\ NextCounter(tx[v]) \in T
    BY <1>1, <2>1, <2>6, WaitsUpwards
  <2> QED
    BY <2>2, <2>4, <2>5, <2>7, Constants
<1> QED
  BY <1>1, Invariant, PTL

---------------------------------------------------------------------------
(* The order of a page: a set of events by their keys k, the first n of it  *)
(* and all of it as a sequence.                                             *)

Ordered(S, k) ==
  /\ IsFiniteSet(S) /\ S \subseteq DOMAIN k
  /\ \A x \in S : k[x] \in Nat \X Nat
  /\ \A x, y \in S : k[x] = k[y] => x = y

First(S, k, n) == {x \in S : Ranks(S, k)[x] < n}

Sorted(S, k) == [i \in 1..Cardinality(S) |-> CHOOSE x \in S : Ranks(S, k)[x] = i - 1]

\* A subset of an ordered set is ordered.
LEMMA OrderedPart ==
  ASSUME NEW S, NEW k, Ordered(S, k), NEW A, A \subseteq S
  PROVE  Ordered(A, k)
BY FS_Subset DEF Ordered

\* The ranks count an ordered set, in its order.
LEMMA RanksOf ==
  ASSUME NEW S, NEW k, Ordered(S, k)
  PROVE  /\ Cardinality(S) \in Nat
         /\ \A x \in S : Ranks(S, k)[x] \in 0 .. (Cardinality(S) - 1)
         /\ \A x, y \in S : Ranks(S, k)[x] = Ranks(S, k)[y] => x = y
         /\ \A i \in 1 .. Cardinality(S) : \E x \in S : Ranks(S, k)[x] = i - 1
         /\ \A x, y \in S : Ranks(S, k)[x] < Ranks(S, k)[y] <=> Before(k[x], k[y])
<1> DEFINE h == [x \in S |-> k[x]]
           n == Cardinality(S)
<1>1. /\ IsFiniteSet(S) /\ h \in [S -> Nat \X Nat]
      /\ \A x, y \in S : h[x] = h[y] => x = y
      /\ \A x \in S : h[x] = k[x]
  BY DEF Ordered
<1>2. Ranks(S, h) = Ranks(S, k)
  BY <1>1 DEF Ranks, Lower
<1> HIDE DEF h
<1> DEFINE r == Ranks(S, h)
<1>3. /\ r \in Bijection(S, 0 .. (n - 1)) /\ n \in Nat
      /\ \A x, y \in S : Before(h[x], h[y]) => r[x] < r[y]
  BY <1>1, RanksCount
<1> HIDE DEF r
<1>4. /\ r \in [S -> 0 .. (n - 1)]
      /\ \A x, y \in S : r[x] = r[y] => x = y
      /\ \A j \in 0 .. (n - 1) : \E x \in S : r[x] = j
  BY <1>3 DEF Bijection, Injection, Surjection, IsInjective
<1>5. ASSUME NEW i \in 1..n PROVE \E x \in S : r[x] = i - 1
  <2>1. i - 1 \in 0 .. (n - 1)
    BY <1>3
  <2> QED
    BY <1>4, <2>1
<1>6. ASSUME NEW x \in S, NEW y \in S, r[x] < r[y] PROVE Before(h[x], h[y])
  <2>1. r[x] \in Nat /\ r[y] \in Nat /\ h[x] \in Nat \X Nat /\ h[y] \in Nat \X Nat
    BY <1>1, <1>3, <1>4
  <2>2. Before(h[x], h[y]) \/ Before(h[y], h[x]) \/ h[x] = h[y]
    BY <2>1, BeforeIsAnOrder
  <2>3. ~(r[y] < r[x]) /\ x # y
    BY <1>6, <2>1
  <2> QED
    BY <1>1, <1>3, <2>2, <2>3
<1>7. r = Ranks(S, k)
  BY <1>2 DEF r
<1> QED
  BY <1>1, <1>3, <1>4, <1>5, <1>6, <1>7

\* The i-th of a sorted set is its one element with i - 1 before it.
LEMMA SortedIs ==
  ASSUME NEW S, NEW k, Ordered(S, k)
  PROVE  /\ DOMAIN Sorted(S, k) = 1 .. Cardinality(S)
         /\ \A i \in 1 .. Cardinality(S) :
              Sorted(S, k)[i] \in S /\ Ranks(S, k)[Sorted(S, k)[i]] = i - 1
         /\ \A i \in 1 .. Cardinality(S), x \in S :
              Ranks(S, k)[x] = i - 1 => x = Sorted(S, k)[i]
BY RanksOf DEF Sorted

\* Two disjoint sets count together what they count apart.
LEMMA Disjoint ==
  ASSUME NEW A, NEW B, IsFiniteSet(A), IsFiniteSet(B), A \cap B = {}
  PROVE  Cardinality(A \cup B) = Cardinality(A) + Cardinality(B)
<1>1. Cardinality(A) \in Nat /\ Cardinality(B) \in Nat
  BY FS_CardinalityType
<1>2. Cardinality(A \cap B) = 0
  BY FS_EmptySet
<1>3. Cardinality(A \cup B) = Cardinality(A) + Cardinality(B) - Cardinality(A \cap B)
  BY FS_Union, Zenon
<1> QED
  BY <1>1, <1>2, <1>3

\* What is ordered in two parts, one before the other, is sorted part by part.
LEMMA Joined ==
  ASSUME NEW A, NEW B, NEW k, Ordered(A \cup B, k),
         \A x \in A, y \in B : Before(k[x], k[y])
  PROVE  /\ Cardinality(A \cup B) = Cardinality(A) + Cardinality(B)
         /\ \A i \in 1 .. Cardinality(A \cup B) :
              Sorted(A \cup B, k)[i] = IF i <= Cardinality(A) THEN Sorted(A, k)[i]
                                       ELSE Sorted(B, k)[i - Cardinality(A)]
<1> DEFINE S == A \cup B
           a == Cardinality(A)
           b == Cardinality(B)
<1>1. Ordered(A, k) /\ Ordered(B, k) /\ IsFiniteSet(A) /\ IsFiniteSet(B)
  BY OrderedPart DEF Ordered
<1>2. a \in Nat /\ b \in Nat
  BY <1>1, RanksOf
<1>3. \A x \in S : k[x] \in Nat \X Nat
  BY DEF Ordered
<1>4. A \cap B = {}
  <2>1. ASSUME NEW x \in A \cap B PROVE FALSE
    <3>1. Before(k[x], k[x]) /\ k[x] \in Nat \X Nat
      BY <1>3
    <3> QED
      BY <3>1, BeforeIsAnOrder
  <2> QED
    BY <2>1
<1>5. Cardinality(S) = a + b
  BY <1>1, <1>4, Disjoint
<1>6. ASSUME NEW x \in A PROVE Ranks(S, k)[x] = Ranks(A, k)[x]
  <2>1. ASSUME NEW y \in B PROVE ~Before(k[y], k[x])
    <3>1. Before(k[x], k[y]) /\ k[x] \in Nat \X Nat /\ k[y] \in Nat \X Nat
      BY <1>3
    <3> QED
      BY <3>1, BeforeIsAnOrder
  <2>2. Lower(S, k, x) = Lower(A, k, x)
    BY <2>1 DEF Lower
  <2> QED
    BY <2>2 DEF Ranks
<1>7. ASSUME NEW x \in B PROVE Ranks(S, k)[x] = a + Ranks(B, k)[x]
  <2>1. Lower(S, k, x) = A \cup Lower(B, k, x) /\ A \cap Lower(B, k, x) = {}
    BY <1>4 DEF Lower
  <2>2. IsFiniteSet(Lower(B, k, x))
    BY <1>1, FS_Subset DEF Lower
  <2>3. Cardinality(Lower(S, k, x)) = a + Cardinality(Lower(B, k, x))
    BY <1>1, <2>1, <2>2, Disjoint
  <2> QED
    BY <2>3 DEF Ranks
<1>8. ASSUME NEW i \in 1..(a + b)
      PROVE  Sorted(S, k)[i] = IF i <= a THEN Sorted(A, k)[i] ELSE Sorted(B, k)[i - a]
  <2>1. CASE i <= a
    <3>1. i \in 1..a
      BY <1>2, <2>1
    <3> DEFINE x == Sorted(A, k)[i]
    <3>2. x \in A /\ Ranks(A, k)[x] = i - 1
      BY <1>1, <3>1, SortedIs
    <3> HIDE DEF x
    <3>3. x \in S /\ Ranks(S, k)[x] = i - 1
      BY <1>6, <3>2
    <3>4. x = Sorted(S, k)[i]
      BY <1>5, <3>3, SortedIs
    <3> QED
      BY <2>1, <3>4 DEF x
  <2>2. CASE ~(i <= a)
    <3>1. i - a \in 1..b
      BY <1>2, <2>2
    <3> DEFINE x == Sorted(B, k)[i - a]
    <3>2. x \in B /\ Ranks(B, k)[x] = (i - a) - 1
      BY <1>1, <3>1, SortedIs
    <3> HIDE DEF x
    <3>3. x \in S /\ Ranks(S, k)[x] = i - 1
      BY <1>2, <1>7, <3>2
    <3>4. x = Sorted(S, k)[i]
      BY <1>5, <3>3, SortedIs
    <3> QED
      BY <2>2, <3>4 DEF x
  <2> QED
    BY <2>1, <2>2
<1> QED
  BY <1>5, <1>8

\* The first n are n, or all; the last of them is the greatest, and the others follow.
LEMMA FirstIs ==
  ASSUME NEW S, NEW k, Ordered(S, k), NEW n \in Nat \ {0}
  PROVE  LET P == First(S, k, n)
             m == Sorted(P, k)[Cardinality(P)]
         IN  /\ P \subseteq S /\ Ordered(P, k)
             /\ \A x \in P, y \in S \ P : Before(k[x], k[y])
             /\ Cardinality(S) <= n => P = S
             /\ Cardinality(S) > n => Cardinality(P) = n
             /\ S # {} => P # {}
             /\ P # {} => m \in P /\ \A x \in P : ~Before(k[m], k[x])
<1> DEFINE P == First(S, k, n)
           c == Cardinality(S)
           r == Ranks(S, k)
           m == Sorted(P, k)[Cardinality(P)]
<1>1. /\ c \in Nat
      /\ \A x \in S : r[x] \in 0 .. (c - 1)
      /\ \A x, y \in S : r[x] = r[y] => x = y
      /\ \A i \in 1..c : \E x \in S : r[x] = i - 1
      /\ \A x, y \in S : r[x] < r[y] <=> Before(k[x], k[y])
  BY RanksOf
<1> HIDE DEF r
<1>2. P = {x \in S : r[x] < n}
  BY DEF First, r
<1> HIDE DEF P
<1>3. P \subseteq S /\ Ordered(P, k)
  BY <1>2, OrderedPart
<1>4. ASSUME NEW x \in P, NEW y \in S \ P PROVE Before(k[x], k[y])
  <2>1. r[x] \in Nat /\ r[y] \in Nat /\ r[x] < n /\ ~(r[y] < n)
    BY <1>1, <1>2
  <2> QED
    BY <1>1, <1>2, <2>1
<1>5. c <= n => P = S
  BY <1>1, <1>2
<1>6. ASSUME c > n PROVE Cardinality(P) = n
  <2> DEFINE f == [x \in P |-> r[x]]
  <2>1. f \in [P -> 0..(n - 1)]
    BY <1>1, <1>2
  <2>2. \A x, y \in P : f[x] = f[y] => x = y
    BY <1>1, <1>2
  <2>3. ASSUME NEW j \in 0..(n - 1) PROVE \E x \in P : f[x] = j
    <3>1. j + 1 \in 1..c /\ (j + 1) - 1 = j /\ j < n
      BY <1>1, <1>6
    <3>2. PICK x \in S : r[x] = j
      BY <1>1, <3>1
    <3> QED
      BY <1>2, <3>1, <3>2
  <2> HIDE DEF f
  <2>4. f \in Bijection(P, 0..(n - 1))
    BY <2>1, <2>2, <2>3 DEF Bijection, Injection, Surjection, IsInjective
  <2>5. IsFiniteSet(0..(n - 1)) /\ Cardinality(0..(n - 1)) = n
    BY FS_Interval
  <2>6. IsFiniteSet(P)
    BY <1>3 DEF Ordered
  <2> QED
    BY <2>4, <2>5, <2>6, FS_Bijection DEF ExistsBijection
<1>7. ASSUME S # {} PROVE P # {}
  <2>1. PICK x \in S : TRUE
    BY <1>7
  <2>2. 1 \in 1..c /\ 1 - 1 = 0
    BY <1>1, <2>1
  <2>3. PICK y \in S : r[y] = 0
    BY <1>1, <2>2
  <2> QED
    BY <1>2, <2>3
<1>8. ASSUME P # {} PROVE m \in P /\ \A x \in P : ~Before(k[m], k[x])
  <2> DEFINE p == Cardinality(P)
             q == Ranks(P, k)
  <2>1. /\ p \in Nat
        /\ \A x \in P : q[x] \in 0 .. (p - 1)
        /\ \A x, y \in P : q[x] < q[y] <=> Before(k[x], k[y])
    BY <1>3, RanksOf
  <2>2. p \in 1..p
    BY <1>8, <2>1
  <2>3. m \in P /\ q[m] = p - 1
    BY <1>3, <2>2, SortedIs
  <2> HIDE DEF m, q
  <2>4. ASSUME NEW x \in P PROVE ~Before(k[m], k[x])
    BY <2>1, <2>3
  <2> QED
    BY <2>3, <2>4
<1> QED
  BY <1>3, <1>4, <1>5, <1>6, <1>7, <1>8 DEF P

(* The two orders of the events.                                            *)
BySeq == [e \in FeedEvent |-> SeqKey(e)]
ByTime == [e \in FeedEvent |-> TimeKey(e)]

\* The model's pages are in these orders.
LEMMA PagesAre ==
  ASSUME NEW S, S \subseteq FeedEvent, NEW n
  PROVE  /\ FirstOf(S, SeqKey, n) = First(S, BySeq, n)
         /\ InOrder(S, SeqKey) = Sorted(S, BySeq)
         /\ FirstOf(S, TimeKey, n) = First(S, ByTime, n)
         /\ InOrder(S, TimeKey) = Sorted(S, ByTime)
<1>1. \A x \in S : BySeq[x] = SeqKey(x) /\ ByTime[x] = TimeKey(x)
  BY DEF BySeq, ByTime
<1>2. ASSUME NEW x \in S PROVE Place(S, SeqKey, x) = Ranks(S, BySeq)[x]
  <2>1. {y \in S : Before(SeqKey(y), SeqKey(x))} = Lower(S, BySeq, x)
    BY <1>1, Zenon DEF Lower
  <2> QED
    BY <2>1, Zenon DEF Place, Ranks
<1>3. ASSUME NEW x \in S PROVE Place(S, TimeKey, x) = Ranks(S, ByTime)[x]
  <2>1. {y \in S : Before(TimeKey(y), TimeKey(x))} = Lower(S, ByTime, x)
    BY <1>1, Zenon DEF Lower
  <2> QED
    BY <2>1, Zenon DEF Place, Ranks
<1>4. FirstOf(S, SeqKey, n) = First(S, BySeq, n)
  BY <1>2, Zenon DEF FirstOf, First
<1>5. FirstOf(S, TimeKey, n) = First(S, ByTime, n)
  BY <1>3, Zenon DEF FirstOf, First
<1>6. InOrder(S, SeqKey) = Sorted(S, BySeq)
  <2> DEFINE this(i) == CHOOSE x \in S : Place(S, SeqKey, x) = i - 1
             that(i) == CHOOSE x \in S : Ranks(S, BySeq)[x] = i - 1
  <2>1. ASSUME NEW i PROVE this(i) = that(i)
    BY <1>2, Zenon
  <2>2. /\ InOrder(S, SeqKey) = [i \in 1..Cardinality(S) |-> this(i)]
        /\ Sorted(S, BySeq) = [i \in 1..Cardinality(S) |-> that(i)]
    BY DEF InOrder, Sorted
  <2> HIDE DEF this, that
  <2> QED
    BY <2>1, <2>2
<1>7. InOrder(S, TimeKey) = Sorted(S, ByTime)
  <2> DEFINE this(i) == CHOOSE x \in S : Place(S, TimeKey, x) = i - 1
             that(i) == CHOOSE x \in S : Ranks(S, ByTime)[x] = i - 1
  <2>1. ASSUME NEW i PROVE this(i) = that(i)
    BY <1>3, Zenon
  <2>2. /\ InOrder(S, TimeKey) = [i \in 1..Cardinality(S) |-> this(i)]
        /\ Sorted(S, ByTime) = [i \in 1..Cardinality(S) |-> that(i)]
    BY DEF InOrder, Sorted
  <2> HIDE DEF this, that
  <2> QED
    BY <2>1, <2>2
<1> QED
  BY <1>4, <1>5, <1>6, <1>7

---------------------------------------------------------------------------
(* What a reader has been given.                                            *)

\* A sequence that is one and then another is their concatenation.
LEMMA Concatenated ==
  ASSUME NEW a \in Nat, NEW b \in Nat,
         NEW f \in [1..a -> Nat], NEW g \in [1..b -> Nat], NEW h \in [1..(a + b) -> Nat],
         \A i \in 1..(a + b) : h[i] = IF i <= a THEN f[i] ELSE g[i - a]
  PROVE  h = f \o g
<1>1. ASSUME NEW n \in Nat, NEW s \in [1..n -> Nat] PROVE s \in Seq(Nat) /\ Len(s) = n
  <2>1. s \in Seq(Nat)
    <3>1. Seq(Nat) = UNION {[1..m -> Nat] : m \in Nat}
      BY SeqDef
    <3>2. s \in UNION {[1..m -> Nat] : m \in Nat}
      OBVIOUS
    <3> QED
      BY <3>1, <3>2
  <2>2. Len(s) \in Nat /\ DOMAIN s = 1..Len(s)
    BY <2>1, LenProperties
  <2>3. 1..Len(s) = 1..n
    BY <2>2
  <2>4. \A m \in Nat : m \in 1..Len(s) <=> m \in 1..n
    BY <2>3
  <2>5. Len(s) = n
    BY <2>2, <2>4
  <2> QED
    BY <2>1, <2>5
<1>2. f \in Seq(Nat) /\ g \in Seq(Nat) /\ Len(f) = a /\ Len(g) = b
  BY <1>1
<1>3. h \in Seq(Nat) /\ Len(h) = a + b
  <2>1. a + b \in Nat
    OBVIOUS
  <2> QED
    BY <1>1, <2>1
<1>4. /\ f \o g \in Seq(Nat) /\ Len(f \o g) = a + b
      /\ \A i \in 1..(a + b) : (f \o g)[i] = IF i <= a THEN f[i] ELSE g[i - a]
  BY <1>2, ConcatProperties
<1>5. \A i \in 1..Len(h) : h[i] = (f \o g)[i]
  BY <1>3, <1>4
<1>6. Len(h) = Len(f \o g)
  BY <1>3, <1>4
<1> QED
  BY <1>3, <1>4, <1>5, <1>6, SeqEqual

\* A company's events are finitely many, and their keys tell them apart.
LEMMA FeedIsOrdered ==
  ASSUME IInv, NEW t \in Tenants, NEW S, S \subseteq FeedOf(t)
  PROVE  /\ S \subseteq FeedEvent
         /\ \A e \in S : e.seq \in Nat /\ e.at \in Nat /\ 1 <= e.seq /\ e.seq <= last[t]
         /\ \A e \in S : BySeq[e] = <<e.seq, 0>> /\ ByTime[e] = <<e.at, e.seq>>
         /\ Ordered(S, BySeq) /\ Ordered(S, ByTime)
<1> DEFINE F == FeedOf(t)
           f == [e \in F |-> e.seq]
<1>1. /\ events \subseteq FeedEvent /\ last \in [Tenants -> Nat] /\ EventsAreCounted
  BY DEF IInv, TypeOK
<1>2. F \subseteq FeedEvent /\ S \subseteq F
  BY <1>1 DEF FeedOf
<1>3. {e.seq : e \in F} = 1..last[t] /\ \A d, e \in F : d.seq = e.seq => d = e
  BY <1>1 DEF EventsAreCounted
<1> HIDE DEF F
<1>4. \A e \in F : e.seq \in 1..last[t]
  BY <1>3
<1>5. f \in Injection(F, 1..last[t])
  BY <1>3, <1>4 DEF Injection, IsInjective
<1>6. IsFiniteSet(1..last[t])
  BY <1>1, FS_Interval
<1>7. IsFiniteSet(F)
  BY <1>5, <1>6, FS_Injection
<1>8. IsFiniteSet(S)
  BY <1>2, <1>7, FS_Subset
<1>9. \A e \in S : e.seq \in Nat /\ e.at \in Nat /\ 1 <= e.seq /\ e.seq <= last[t]
  BY <1>1, <1>2, <1>4 DEF FeedEvent
<1>10. \A e \in S : BySeq[e] = <<e.seq, 0>> /\ ByTime[e] = <<e.at, e.seq>>
  BY <1>2 DEF BySeq, ByTime, SeqKey, TimeKey
<1>11. S \subseteq DOMAIN BySeq /\ S \subseteq DOMAIN ByTime
  BY <1>2 DEF BySeq, ByTime
<1> QED
  BY <1>2, <1>3, <1>8, <1>9, <1>10, <1>11 DEF Ordered

\* A sorted set of events is a sequence of positions.
LEMMA SeqsAre ==
  ASSUME NEW S, NEW k, Ordered(S, k), \A e \in S : e.seq \in Nat
  PROVE  /\ SeqsOf(Sorted(S, k)) \in [1..Cardinality(S) -> Nat]
         /\ SeqsOf(Sorted(S, k)) \in Seq(Nat)
         /\ \A i \in 1..Cardinality(S) : SeqsOf(Sorted(S, k))[i] = Sorted(S, k)[i].seq
<1>1. /\ DOMAIN Sorted(S, k) = 1..Cardinality(S)
      /\ \A i \in 1..Cardinality(S) : Sorted(S, k)[i] \in S
      /\ Cardinality(S) \in Nat
  BY SortedIs, RanksOf
<1> QED
  BY <1>1 DEF SeqsOf

\* What comes after all that was given is given after it.
LEMMA GivenNext ==
  ASSUME IInv, NEW A, NEW B, A \cup B \subseteq FeedOf(Reader.tenant),
         NEW k \in {BySeq, ByTime}, \A x \in A : \A y \in B : Before(k[x], k[y])
  PROVE  SeqsOf(Sorted(A \cup B, k)) = SeqsOf(Sorted(A, k)) \o SeqsOf(Sorted(B, k))
<1> DEFINE a == Cardinality(A)
           b == Cardinality(B)
           f == SeqsOf(Sorted(A, k))
           g == SeqsOf(Sorted(B, k))
           h == SeqsOf(Sorted(A \cup B, k))
<1>1. /\ Ordered(A \cup B, k) /\ Ordered(A, k) /\ Ordered(B, k)
      /\ \A e \in A \cup B : e.seq \in Nat
  BY FeedIsOrdered, OrderedPart, ReaderAssumption
<1>2. a \in Nat /\ b \in Nat /\ Cardinality(A \cup B) = a + b
  BY <1>1, Joined, RanksOf
<1>3. /\ f \in [1..a -> Nat] /\ \A i \in 1..a : f[i] = Sorted(A, k)[i].seq
      /\ g \in [1..b -> Nat] /\ \A i \in 1..b : g[i] = Sorted(B, k)[i].seq
      /\ h \in [1..(a + b) -> Nat] /\ \A i \in 1..(a + b) : h[i] = Sorted(A \cup B, k)[i].seq
  <2>1. h \in [1..(a + b) -> Nat] /\ \A i \in 1..(a + b) : h[i] = Sorted(A \cup B, k)[i].seq
    <3> DEFINE c == Cardinality(A \cup B)
    <3>1. h \in [1..c -> Nat] /\ \A i \in 1..c : h[i] = Sorted(A \cup B, k)[i].seq
      BY <1>1, SeqsAre
    <3>2. c = a + b
      BY <1>2
    <3> HIDE DEF c, a, b, h
    <3> QED
      BY <3>1, <3>2
  <2>2. f \in [1..a -> Nat] /\ \A i \in 1..a : f[i] = Sorted(A, k)[i].seq
    BY <1>1, SeqsAre
  <2>3. g \in [1..b -> Nat] /\ \A i \in 1..b : g[i] = Sorted(B, k)[i].seq
    BY <1>1, SeqsAre
  <2> QED
    BY <2>1, <2>2, <2>3
<1>4. \A i \in 1..(a + b) :
        Sorted(A \cup B, k)[i] = IF i <= a THEN Sorted(A, k)[i] ELSE Sorted(B, k)[i - a]
  BY <1>1, <1>2, Joined
<1> HIDE DEF f, g, h, a, b
<1>5. ASSUME NEW i \in 1..(a + b) PROVE h[i] = IF i <= a THEN f[i] ELSE g[i - a]
  <2>1. i <= a => i \in 1..a
    BY <1>2
  <2>2. ~(i <= a) => i - a \in 1..b
    BY <1>2
  <2> QED
    BY <1>3, <1>4, <2>1, <2>2
<1>6. h = f \o g
  BY <1>2, <1>3, <1>5, Concatenated
<1> QED
  BY <1>6 DEF f, g, h

\* So is what comes after it by position, and what comes after it by instant.
LEMMA GivenAfter ==
  ASSUME IInv, NEW A, NEW B, A \cup B \subseteq FeedOf(Reader.tenant)
  PROVE  /\ (\A x \in A : \A y \in B : Before(BySeq[x], BySeq[y])) =>
              SeqsOf(Sorted(A \cup B, BySeq)) = SeqsOf(Sorted(A, BySeq)) \o SeqsOf(Sorted(B, BySeq))
         /\ (\A x \in A : \A y \in B : Before(ByTime[x], ByTime[y])) =>
              SeqsOf(Sorted(A \cup B, ByTime)) = SeqsOf(Sorted(A, ByTime)) \o SeqsOf(Sorted(B, ByTime))
<1>1. ASSUME NEW k \in {BySeq, ByTime}, \A x \in A : \A y \in B : Before(k[x], k[y])
      PROVE  SeqsOf(Sorted(A \cup B, k)) = SeqsOf(Sorted(A, k)) \o SeqsOf(Sorted(B, k))
  BY <1>1, GivenNext, Zenon
<1> QED
  BY <1>1

\* No step takes an event back, or puts one below the counter.
LEMMA FeedGrows ==
  ASSUME IInv, IInv', events \subseteq events', NEW t \in Tenants
  PROVE  /\ last[t] \in Nat /\ last'[t] \in Nat /\ last[t] <= last'[t]
         /\ \A n \in Nat : n <= last[t] =>
              {e \in FeedOf(t)' : e.seq <= n} = {e \in FeedOf(t) : e.seq <= n}
<1>1. /\ last[t] \in Nat /\ last'[t] \in Nat
      /\ EventsAreCounted /\ EventsAreCounted'
  BY DEF IInv, TypeOK
<1>2. /\ {e.seq : e \in FeedOf(t)} = 1..last[t]
      /\ {e.seq : e \in FeedOf(t)'} = 1..last'[t]
      /\ \A d, e \in FeedOf(t)' : d.seq = e.seq => d = e
  BY <1>1 DEF EventsAreCounted
<1>3. FeedOf(t) \subseteq FeedOf(t)'
  BY DEF FeedOf
<1>4. last[t] <= last'[t]
  <2>1. CASE last[t] = 0
    BY <1>1, <2>1
  <2>2. CASE last[t] # 0
    <3>1. last[t] \in 1..last[t]
      BY <1>1, <2>2
    <3>2. PICK e \in FeedOf(t) : e.seq = last[t]
      BY <1>2, <3>1
    <3>3. last[t] \in 1..last'[t]
      BY <1>2, <1>3, <3>2
    <3> QED
      BY <1>1, <3>3
  <2> QED
    BY <2>1, <2>2
<1>5. ASSUME NEW n \in Nat, n <= last[t], NEW e \in FeedOf(t)', e.seq <= n
      PROVE  e \in FeedOf(t)
  <2>1. e.seq \in 1..last[t]
    BY <1>1, <1>2, <1>5
  <2>2. PICK d \in FeedOf(t) : d.seq = e.seq
    BY <1>2, <2>1
  <2> QED
    BY <1>2, <1>3, <2>2
<1> QED
  BY <1>1, <1>3, <1>4, <1>5

\* Only their own steps move the readers, and these write nothing.
LEMMA ReadersAlone ==
  ASSUME [Next]_vars
  PROVE  /\ feed' = feed \/ ((PageHead \/ PageList \/ PageLost) /\ UNCHANGED <<last, events>>)
         /\ walk' = walk \/ ((WalkCounter \/ WalkWindow \/ WalkList) /\ UNCHANGED <<last, events>>)
         /\ events \subseteq events'
<1>1. CASE \E w \in Writers : WriterStep(w)
  BY <1>1, Zenon DEF WriterStep, Tap, Decide, Lock, Commit, LockTimeout, Again, Abort
<1>2. CASE \E t \in Tenants : Leave(t)
  BY <1>2 DEF Leave
<1>3. CASE BackfillStep
  BY <1>3, Zenon DEF BackfillStep, BackfillWindow, BackfillLock, BackfillWrite, BackfillAgain
<1>4. CASE ReaderStep
  BY <1>4, Zenon DEF ReaderStep, PageHead, PageList, PageLost, WalkCounter, WalkWindow, WalkList
<1>5. CASE UNCHANGED vars
  BY <1>5 DEF vars
<1> QED
  BY <1>1, <1>2, <1>3, <1>4, <1>5 DEF Next

---------------------------------------------------------------------------
(* The client that follows the cursor.                                      *)

(* What it has been given at the cursor n.                                  *)
Upward(n) == {e \in FeedOf(Reader.tenant) : InRole(e) /\ e.seq <= n}

CursorInv ==
  /\ feed \in [pc : {"idle", "list", "off"}, after : Nat, upto : Nat, got : Seq(Nat)]
  /\ feed.after <= last[Reader.tenant]
  /\ feed.pc = "list" => feed.after <= feed.upto /\ feed.upto <= last[Reader.tenant]
  /\ CursorSkipsNothing

\* Of nothing, nothing is given.
LEMMA NothingSorted == \A k : SeqsOf(Sorted({}, k)) = <<>>
<1>1. Cardinality({}) = 0
  BY FS_EmptySet
<1>2. ASSUME NEW k PROVE SeqsOf(Sorted({}, k)) = <<>>
  <2>1. DOMAIN Sorted({}, k) = {}
    BY <1>1 DEF Sorted
  <2> QED
    BY <2>1 DEF SeqsOf
<1> QED
  BY <1>2

\* What is given is sorted.
LEMMA UpwardIs ==
  ASSUME IInv, NEW n \in Nat
  PROVE  InOrder({e \in FeedOf(Reader.tenant) : InRole(e) /\ e.seq <= n}, SeqKey)
           = Sorted(Upward(n), BySeq)
<1>1. Upward(n) \subseteq FeedEvent
  BY FeedIsOrdered, ReaderAssumption DEF Upward
<1> QED
  BY <1>1, PagesAre DEF Upward

\* The invariant is about what is given.
LEMMA CursorIs ==
  ASSUME IInv, feed.after \in Nat
  PROVE  CursorSkipsNothing <=> feed.got = SeqsOf(Sorted(Upward(feed.after), BySeq))
BY UpwardIs, Zenon DEF CursorSkipsNothing

\* And what is given in the next state.
LEMMA CursorIsThen ==
  ASSUME TypeOK', NEW S, S = {e \in FeedOf(Reader.tenant)' : InRole(e) /\ e.seq <= feed'.after},
         feed'.got = SeqsOf(Sorted(S, BySeq))
  PROVE  CursorSkipsNothing'
<1>1. S \subseteq FeedEvent
  BY DEF TypeOK, FeedOf
<1>2. InOrder(S, SeqKey) = Sorted(S, BySeq)
  BY <1>1, PagesAre
<1>3. feed'.got = SeqsOf(InOrder(S, SeqKey))
  BY <1>2
<1> QED
  BY <1>3, Zenon DEF CursorSkipsNothing, InRole

\* The first statement of a page gives nothing: it finds nothing ahead or the page's
\* last position.
LEMMA HeadKeeps ==
  ASSUME IInv, IInv', CursorInv, PageHead, UNCHANGED <<last, events>>
  PROVE  CursorInv'
<1> DEFINE T == Reader.tenant
           ahead == {e.seq : e \in {e \in FeedOf(T) : e.seq > feed.after}}
           next == CHOOSE s \in ahead : \A u \in ahead : s <= u
<1>1. /\ T \in Tenants /\ last[T] \in Nat /\ feed.after \in Nat /\ feed.after <= last[T]
      /\ feed \in [pc : {"idle", "list", "off"}, after : Nat, upto : Nat, got : Seq(Nat)]
      /\ feed.pc = "idle" /\ Window \in Nat \ {0}
  BY ReaderAssumption, PageAssumption DEF IInv, TypeOK, CursorInv, PageHead
<1>2. \A e \in FeedOf(T) : e.seq \in Nat /\ e.seq <= last[T]
  BY <1>1, FeedIsOrdered
<1>3. \A n : Upward(n) = {e \in FeedOf(T)' : InRole(e) /\ e.seq <= n}
  BY DEF Upward, FeedOf
<1>4. feed.got = SeqsOf(Sorted(Upward(feed.after), BySeq))
  BY <1>1, CursorIs DEF CursorInv
<1>5. feed' = IF ahead = {} THEN [feed EXCEPT !.after = last[T]]
              ELSE [feed EXCEPT !.pc = "list", !.upto = Upto(last[T], next)]
  BY DEF PageHead
<1>6. CASE ahead = {}
  <2>1. /\ feed'.after = last[T] /\ feed'.got = feed.got /\ feed'.pc = "idle"
        /\ feed' \in [pc : {"idle", "list", "off"}, after : Nat, upto : Nat, got : Seq(Nat)]
    BY <1>1, <1>5, <1>6
  <2>2. ASSUME NEW e \in FeedOf(T) PROVE e.seq <= feed.after
    <3>1. e.seq > feed.after => e.seq \in ahead
      OBVIOUS
    <3>2. ~(e.seq > feed.after)
      BY <1>6, <3>1
    <3> QED
      BY <1>1, <1>2, <3>2
  <2>3. Upward(last[T]) = Upward(feed.after)
    BY <1>1, <1>2, <2>2 DEF Upward
  <2>4. feed'.got = SeqsOf(Sorted(Upward(feed'.after), BySeq))
    BY <1>4, <2>1, <2>3
  <2>5. CursorSkipsNothing'
    BY <1>3, <2>1, <2>4, CursorIsThen DEF IInv
  <2> QED
    BY <1>1, <2>1, <2>5 DEF CursorInv
<1>7. CASE ahead # {}
  <2>1. ahead \subseteq Nat /\ \A s \in ahead : feed.after < s /\ s <= last[T]
    BY <1>1, <1>2
  <2>2. next \in ahead
    BY <1>7, <2>1, Smallest
  <2> HIDE DEF next
  <2>3. /\ Upto(last[T], next) \in Nat
        /\ feed.after <= Upto(last[T], next) /\ Upto(last[T], next) <= last[T]
    <3>1. next \in Nat /\ feed.after < next /\ next <= last[T]
      BY <2>1, <2>2
    <3>2. /\ Upto(last[T], next) \in {last[T], next - 1 + Window}
          /\ Upto(last[T], next) <= last[T]
      BY <1>1, <3>1 DEF Upto, Smaller
    <3> QED
      BY <1>1, <3>1, <3>2
  <2>4. /\ feed'.after = feed.after /\ feed'.got = feed.got /\ feed'.pc = "list"
        /\ feed'.upto = Upto(last[T], next)
        /\ feed' \in [pc : {"idle", "list", "off"}, after : Nat, upto : Nat, got : Seq(Nat)]
    BY <1>1, <1>5, <1>7, <2>3
  <2>5. CursorSkipsNothing'
    BY <1>3, <1>4, <2>4, CursorIsThen DEF IInv
  <2> QED
    BY <1>1, <2>3, <2>4, <2>5 DEF CursorInv
<1> QED
  BY <1>6, <1>7

\* The second statement gives the events up to the page's last position, or the first
\* of them up to its own last.
LEMMA ListKeeps ==
  ASSUME IInv, IInv', CursorInv, PageList, UNCHANGED <<last, events>>
  PROVE  CursorInv'
<1> DEFINE T == Reader.tenant
           found == {e \in FeedOf(T) : InRole(e) /\ e.seq > feed.after /\ e.seq <= feed.upto}
           P == First(found, BySeq, Limit)
           page == Sorted(P, BySeq)
           full == Cardinality(found) > Limit
           n == IF full THEN page[Limit].seq ELSE feed.upto
<1>1. /\ T \in Tenants /\ last[T] \in Nat /\ feed.after \in Nat /\ feed.upto \in Nat
      /\ feed.after <= feed.upto /\ feed.upto <= last[T] /\ feed.got \in Seq(Nat)
      /\ Limit \in Nat \ {0}
  BY ReaderAssumption, PageAssumption DEF IInv, TypeOK, CursorInv, PageList
<1>2. /\ found \subseteq FeedEvent /\ Ordered(found, BySeq)
      /\ \A e \in found : e.seq \in Nat /\ BySeq[e] = <<e.seq, 0>>
      /\ \A e \in FeedOf(T) : e.seq \in Nat /\ BySeq[e] = <<e.seq, 0>>
  BY <1>1, FeedIsOrdered
<1>3. \A m : Upward(m) = {e \in FeedOf(T)' : InRole(e) /\ e.seq <= m}
  BY DEF Upward, FeedOf
<1>4. feed.got = SeqsOf(Sorted(Upward(feed.after), BySeq))
  BY <1>1, CursorIs DEF CursorInv
<1>5. FirstOf(found, SeqKey, Limit) = P
  BY <1>2, PagesAre
<1>6. P \subseteq found
  BY <1>1, <1>2, FirstIs
<1>7. InOrder(P, SeqKey) = page
  BY <1>2, <1>6, PagesAre
<1>8. feed' = [pc |-> "idle", upto |-> 0, got |-> feed.got \o SeqsOf(page), after |-> n]
  BY <1>5, <1>7 DEF PageList
<1> HIDE DEF n, page, P
<1>9. /\ n \in Nat /\ n <= feed.upto /\ feed.after <= n
      /\ Upward(n) = Upward(feed.after) \cup P
  <2>1. CASE full
    <3>1. Cardinality(P) = Limit /\ P # {}
      <4>1. Cardinality(P) = Limit
        BY <1>1, <1>2, <2>1, FirstIs DEF P
      <4>2. ASSUME found = {} PROVE FALSE
        <5>1. Cardinality(found) = 0
          BY <4>2, FS_EmptySet
        <5> QED
          BY <1>1, <2>1, <5>1
      <4> QED
        BY <1>1, <1>2, <4>1, <4>2, FirstIs DEF P
    <3> DEFINE m == page[Limit]
    <3>2. m \in P /\ \A x \in P : ~Before(BySeq[m], BySeq[x])
      BY <1>1, <1>2, <3>1, FirstIs DEF P, page
    <3>3. \A x \in P, y \in found \ P : Before(BySeq[x], BySeq[y])
      BY <1>1, <1>2, FirstIs DEF P
    <3> HIDE DEF m
    <3>4. n = m.seq
      BY <2>1 DEF n, m
    <3>5. /\ \A x \in P : x.seq <= n
          /\ \A y \in found \ P : n < y.seq
      BY <1>2, <1>6, <3>2, <3>3, <3>4 DEF Before
    <3>6. m \in found
      BY <1>6, <3>2
    <3> QED
      BY <1>1, <1>2, <1>6, <3>4, <3>5, <3>6 DEF Upward
  <2>2. CASE ~full
    <3>1. Cardinality(found) \in Nat
      BY <1>2, RanksOf
    <3>2. P = found
      <4>1. Cardinality(found) <= Limit
        BY <1>1, <2>2, <3>1
      <4> QED
        BY <1>1, <1>2, <4>1, FirstIs DEF P
    <3>3. n = feed.upto
      BY <2>2 DEF n
    <3> QED
      BY <1>1, <1>2, <3>2, <3>3 DEF Upward
  <2> QED
    BY <2>1, <2>2
<1>10. \A x \in Upward(feed.after), y \in P : Before(BySeq[x], BySeq[y])
  BY <1>1, <1>2, <1>6 DEF Upward, Before
<1>11. Upward(feed.after) \cup P \subseteq FeedOf(T)
  BY <1>6 DEF Upward
<1>12. SeqsOf(Sorted(Upward(n), BySeq)) = feed.got \o SeqsOf(page)
  <2> DEFINE A == Upward(feed.after)
  <2>a. /\ A \cup P \subseteq FeedOf(Reader.tenant)
        /\ \A x \in A : \A y \in P : Before(BySeq[x], BySeq[y])
    BY <1>1, <1>10, <1>11
  <2> HIDE DEF A
  <2>b. SeqsOf(Sorted(A \cup P, BySeq)) = SeqsOf(Sorted(A, BySeq)) \o SeqsOf(Sorted(P, BySeq))
    BY <2>a, GivenAfter, Zenon
  <2>1. SeqsOf(Sorted(Upward(feed.after) \cup P, BySeq))
          = SeqsOf(Sorted(Upward(feed.after), BySeq)) \o SeqsOf(Sorted(P, BySeq))
    BY <2>b DEF A
  <2> QED
    BY <1>4, <1>9, <2>1 DEF page
<1>13. /\ feed'.after = n /\ feed'.got = feed.got \o SeqsOf(page) /\ feed'.pc = "idle"
       /\ feed' \in [pc : {"idle", "list", "off"}, after : Nat, upto : Nat, got : Seq(Nat)]
  <2>1. SeqsOf(page) \in Seq(Nat)
    <3>1. Ordered(P, BySeq) /\ \A e \in P : e.seq \in Nat
      BY <1>2, <1>6, OrderedPart
    <3> QED
      BY <3>1, SeqsAre DEF page
  <2>2. feed.got \o SeqsOf(page) \in Seq(Nat)
    BY <1>1, <2>1, ConcatProperties
  <2> QED
    BY <1>8, <1>9, <2>2
<1>14. CursorSkipsNothing'
  BY <1>3, <1>12, <1>13, CursorIsThen DEF IInv
<1> QED
  BY <1>1, <1>9, <1>13, <1>14 DEF CursorInv

\* A lost answer gives nothing, and what the others write is beyond the cursor.
LEMMA CursorStays ==
  ASSUME IInv, IInv', CursorInv, events \subseteq events',
         \/ UNCHANGED feed
         \/ feed' = [feed EXCEPT !.pc = "idle", !.upto = 0]
  PROVE  CursorInv'
<1> DEFINE T == Reader.tenant
<1>1. /\ T \in Tenants /\ feed.after \in Nat /\ feed.upto \in Nat /\ feed.after <= last[T]
      /\ feed \in [pc : {"idle", "list", "off"}, after : Nat, upto : Nat, got : Seq(Nat)]
      /\ feed.pc = "list" => feed.after <= feed.upto /\ feed.upto <= last[T]
  BY ReaderAssumption DEF CursorInv
<1>2. last[T] \in Nat /\ last'[T] \in Nat /\ last[T] <= last'[T]
  BY <1>1, FeedGrows
<1>3. {e \in FeedOf(T)' : e.seq <= feed.after} = {e \in FeedOf(T) : e.seq <= feed.after}
  BY <1>1, FeedGrows
<1>4. {e \in FeedOf(T)' : InRole(e) /\ e.seq <= feed.after} = Upward(feed.after)
  BY <1>3 DEF Upward
<1>5. feed.got = SeqsOf(Sorted(Upward(feed.after), BySeq))
  BY <1>1, CursorIs DEF CursorInv
<1>6. /\ feed'.after = feed.after /\ feed'.got = feed.got
      /\ feed' \in [pc : {"idle", "list", "off"}, after : Nat, upto : Nat, got : Seq(Nat)]
      /\ feed'.pc = "list" => feed'.upto = feed.upto /\ feed.pc = "list"
  <2>1. CASE feed' = feed
    BY <1>1, <2>1
  <2>2. CASE feed' = [feed EXCEPT !.pc = "idle", !.upto = 0]
    BY <1>1, <2>2
  <2> QED
    BY <2>1, <2>2
<1>7. CursorSkipsNothing'
  BY <1>4, <1>5, <1>6, CursorIsThen DEF IInv
<1> QED
  BY <1>1, <1>2, <1>6, <1>7 DEF CursorInv

\* At first nothing is ahead of the cursor, and nothing was given.
LEMMA CursorInit == Init => CursorInv
<1> SUFFICES ASSUME Init PROVE CursorInv
  OBVIOUS
<1> DEFINE T == Reader.tenant
<1>0. \E p \in {"idle", "off"} : feed = [pc |-> p, after |-> 0, upto |-> 0, got |-> <<>>]
  <2>1. PICK pcs \in {<<"idle", "off">>, <<"off", "first">>} :
          feed = [pc |-> pcs[1], after |-> 0, upto |-> 0, got |-> <<>>]
    BY Zenon DEF Init
  <2>2. pcs[1] \in {"idle", "off"}
    BY <2>1
  <2> QED
    BY <2>1, <2>2
<1>1. /\ IInv /\ T \in Tenants /\ events = {} /\ last[T] = 0
      /\ feed.after = 0 /\ feed.upto = 0 /\ feed.got = <<>> /\ feed.pc \in {"idle", "off"}
  <2>1. IInv /\ T \in Tenants
    BY InitHolds, ReaderAssumption
  <2>2. events = {} /\ last = [t \in Tenants |-> 0]
    BY Zenon DEF Init
  <2>3. /\ feed.after = 0 /\ feed.upto = 0 /\ feed.got = <<>> /\ feed.pc \in {"idle", "off"}
    BY <1>0
  <2> QED
    BY <2>1, <2>2, <2>3
<1>2. Upward(feed.after) = {}
  BY <1>1 DEF Upward, FeedOf
<1>3. SeqsOf(Sorted({}, BySeq)) = <<>>
  BY NothingSorted
<1>4. CursorSkipsNothing
  <2>1. feed.after \in Nat
    BY <1>1
  <2>2. feed.got = SeqsOf(Sorted(Upward(feed.after), BySeq))
    BY <1>1, <1>2, <1>3
  <2> QED
    BY <1>1, <2>1, <2>2, CursorIs, Zenon
<1>5. feed \in [pc : {"idle", "list", "off"}, after : Nat, upto : Nat, got : Seq(Nat)]
  BY <1>0, EmptySeq
<1> QED
  BY <1>1, <1>4, <1>5 DEF CursorInv

\* Every step keeps it.
LEMMA CursorStep == IInv /\ IInv' /\ CursorInv /\ [Next]_vars => CursorInv'
<1> SUFFICES ASSUME IInv, IInv', CursorInv, [Next]_vars PROVE CursorInv'
  OBVIOUS
<1>1. CASE PageHead /\ UNCHANGED <<last, events>>
  BY <1>1, HeadKeeps
<1>2. CASE PageList /\ UNCHANGED <<last, events>>
  BY <1>2, ListKeeps
<1>3. CASE PageLost
  BY <1>3, CursorStays, ReadersAlone DEF PageLost
<1>4. CASE feed' = feed
  BY <1>4, CursorStays, ReadersAlone
<1> QED
  BY <1>1, <1>2, <1>3, <1>4, ReadersAlone

(* The client is given every event of its role up to its cursor, in order   *)
(* and once: between the two statements of a page only what is beyond its   *)
(* last position can be committed, and a lost answer moves no cursor.       *)
THEOREM CursorGivesAll == Spec => []CursorSkipsNothing
<1>1. Init => CursorInv
  BY CursorInit
<1>2. IInv /\ IInv' /\ CursorInv /\ [Next]_vars => CursorInv'
  BY CursorStep
<1>3. CursorInv => CursorSkipsNothing
  BY DEF CursorInv
<1> QED
  BY <1>1, <1>2, <1>3, Invariant, PTL DEF Spec

---------------------------------------------------------------------------
(* The client that walks the history.                                       *)

(* What the walk answers of the snapshot s, and of it up to where it stands. *)
Snapshot(s) == {e \in FeedOf(Reader.tenant) : InRange(e) /\ InRole(e) /\ e.seq <= s}
Passed(s, at) == {e \in Snapshot(s) : ~Before(at, TimeKey(e))}
Given(w) == IF w.pc = "done" THEN Snapshot(w.s0) ELSE Passed(w.s0, w.at)

Walk ==
  [pc : {"off", "first", "between", "window", "list", "done"}, s0 : Nat,
   at : Nat \X Nat, end : Nat \X Nat, more : BOOLEAN, got : Seq(Nat)]

(* The window ahead ends beyond where the walk stands; when it is the last, *)
(* nothing of the snapshot is beyond it.                                    *)
WalkInv ==
  /\ walk \in Walk
  /\ walk.s0 <= last[Reader.tenant]
  /\ walk.pc = "first" => walk.at = <<From, 0>> /\ walk.got = <<>>
  /\ walk.pc = "list" =>
       /\ Before(walk.at, walk.end)
       /\ ~walk.more => \A e \in Snapshot(walk.s0) : ~Before(walk.end, TimeKey(e))
  /\ WalkIsWhole

\* What the walk answers are events of the feed.
LEMMA SnapshotIs ==
  ASSUME IInv, NEW s
  PROVE  /\ Snapshot(s) \subseteq FeedOf(Reader.tenant)
         /\ Snapshot(s) \subseteq FeedEvent
         /\ \A e \in FeedOf(Reader.tenant) :
              TimeKey(e) \in Nat \X Nat /\ ByTime[e] = TimeKey(e) /\ 1 <= e.seq /\ e.seq \in Nat
<1>1. /\ FeedOf(Reader.tenant) \subseteq FeedEvent
      /\ \A e \in FeedOf(Reader.tenant) :
           /\ e.seq \in Nat /\ e.at \in Nat /\ 1 <= e.seq /\ ByTime[e] = <<e.at, e.seq>>
  BY FeedIsOrdered, ReaderAssumption
<1> QED
  BY <1>1 DEF Snapshot, TimeKey

\* The invariant is about what is given.
LEMMA WalkIs ==
  ASSUME IInv
  PROVE  WalkIsWhole <=> walk.got = SeqsOf(Sorted(Given(walk), ByTime))
<1> DEFINE S == {e \in Snapshot(walk.s0) : walk.pc = "done" \/ ~Before(walk.at, TimeKey(e))}
<1>1. S = Given(walk)
  BY DEF Given, Passed
<1>2. S \subseteq FeedEvent
  BY SnapshotIs
<1>3. InOrder(S, TimeKey) = Sorted(S, ByTime)
  BY <1>2, PagesAre
<1>4. WalkIsWhole <=> walk.got = SeqsOf(InOrder(S, TimeKey))
  BY Zenon DEF WalkIsWhole, Snapshot
<1> QED
  BY <1>1, <1>3, <1>4

\* And what is given in the next state, of a snapshot that is already taken.
LEMMA WalkIsThen ==
  ASSUME IInv, IInv', events \subseteq events', walk'.s0 \in Nat, walk'.s0 <= last[Reader.tenant],
         walk'.got = SeqsOf(Sorted(Given(walk'), ByTime))
  PROVE  WalkIsWhole'
<1> DEFINE T == Reader.tenant
           N == {e \in FeedOf(T)' : InRange(e) /\ InRole(e) /\ e.seq <= walk'.s0}
           S == {e \in N : walk'.pc = "done" \/ ~Before(walk'.at, TimeKey(e))}
<1>1. {e \in FeedOf(T)' : e.seq <= walk'.s0} = {e \in FeedOf(T) : e.seq <= walk'.s0}
  BY FeedGrows, ReaderAssumption
<1>2. N = Snapshot(walk'.s0)
  BY <1>1 DEF Snapshot
<1>3. S = Given(walk')
  BY <1>2 DEF Given, Passed
<1>4. S \subseteq FeedEvent
  BY <1>2, SnapshotIs
<1>5. InOrder(S, TimeKey) = Sorted(S, ByTime)
  BY <1>4, PagesAre
<1>6. walk'.got = SeqsOf(InOrder(S, TimeKey))
  BY <1>3, <1>5
<1> QED
  BY <1>6, Zenon DEF WalkIsWhole, InRange, InRole

\* The first page takes the snapshot, a later one keeps it.
LEMMA CounterKeeps ==
  ASSUME IInv, IInv', WalkInv, WalkCounter, UNCHANGED <<last, events>>
  PROVE  WalkInv'
<1> DEFINE T == Reader.tenant
<1>1. /\ walk \in Walk /\ walk.pc \in {"first", "between"} /\ last[T] \in Nat
      /\ walk.s0 <= last[T] /\ From \in Nat
  BY ReaderAssumption DEF WalkInv, WalkCounter, IInv, TypeOK
<1>2. /\ walk' \in Walk /\ walk'.pc = "window" /\ walk'.at = walk.at /\ walk'.got = walk.got
      /\ walk'.s0 = IF walk.pc = "first" THEN last[T] ELSE walk.s0
  BY <1>1 DEF WalkCounter, Walk
<1>3. walk'.s0 \in Nat /\ walk'.s0 <= last[T]
  BY <1>1, <1>2 DEF Walk
<1>4. Given(walk') = Passed(walk'.s0, walk.at)
  BY <1>2 DEF Given
<1>5. walk'.got = SeqsOf(Sorted(Given(walk'), ByTime))
  <2>1. CASE walk.pc = "first"
    <3>1. walk.at = <<From, 0>> /\ walk.got = <<>>
      BY <2>1 DEF WalkInv
    <3>2. ASSUME NEW e \in Snapshot(walk'.s0) PROVE Before(walk.at, TimeKey(e))
      <4>1. e \in FeedOf(T) /\ InRange(e)
        BY <3>2 DEF Snapshot
      <4>2. TimeKey(e) \in Nat \X Nat /\ 1 <= e.seq /\ e.seq \in Nat
        BY <4>1, SnapshotIs
      <4>3. /\ TimeKey(e)[1] = e.at /\ TimeKey(e)[2] = e.seq /\ e.at \in Nat /\ e.at >= From
        BY <4>1, <4>2 DEF TimeKey, InRange
      <4>4. walk.at[1] = From /\ walk.at[2] = 0
        BY <3>1
      <4> QED
        BY <1>1, <4>2, <4>3, <4>4 DEF Before
    <3>3. Given(walk') = {}
      BY <1>4, <3>2 DEF Passed
    <3> QED
      BY <1>2, <3>1, <3>3, NothingSorted
  <2>2. CASE walk.pc = "between"
    <3>1. Given(walk') = Given(walk)
      BY <1>2, <1>4, <2>2 DEF Given
    <3>2. walk.got = SeqsOf(Sorted(Given(walk), ByTime))
      BY WalkIs DEF WalkInv
    <3> QED
      BY <1>2, <3>1, <3>2
  <2> QED
    BY <1>1, <2>1, <2>2
<1>6. WalkIsWhole'
  BY <1>3, <1>5, WalkIsThen
<1> QED
  BY <1>2, <1>3, <1>6 DEF WalkInv

(* The window the model lays over what is ahead.                            *)
WindowOf(S) == InOrder(FirstOf(S, TimeKey, Window), TimeKey)

\* The window ahead ends at the greatest of its keys; it is the last when it holds all.
LEMMA AheadIs ==
  ASSUME IInv, NEW S, S \subseteq FeedOf(Reader.tenant), S # {}
  PROVE  LET m == WindowOf(S)[Len(WindowOf(S))]
         IN  /\ m \in S
             /\ ~(Cardinality(S) > Window) => \A e \in S : ~Before(TimeKey(m), TimeKey(e))
<1> DEFINE P == First(S, ByTime, Window)
           win == Sorted(P, ByTime)
           m == win[Cardinality(P)]
<1>1. /\ S \subseteq FeedEvent /\ Ordered(S, ByTime)
      /\ \A e \in S : ByTime[e] = TimeKey(e) /\ e.seq \in Nat
  BY FeedIsOrdered, SnapshotIs, ReaderAssumption
<1>2. FirstOf(S, TimeKey, Window) = P
  BY <1>1, PagesAre
<1>3. Window \in Nat \ {0}
  BY PageAssumption
<1>4. /\ P \subseteq S /\ Ordered(P, ByTime) /\ P # {}
      /\ Cardinality(S) <= Window => P = S
      /\ m \in P /\ \A x \in P : ~Before(ByTime[m], ByTime[x])
  BY <1>1, <1>3, FirstIs
<1> HIDE DEF P
<1>5. InOrder(P, TimeKey) = win
  BY <1>1, <1>4, PagesAre
<1>6. Len(win) = Cardinality(P)
  <2>1. DOMAIN win = 1..Cardinality(P) /\ Cardinality(P) \in Nat
    BY <1>4, SortedIs, RanksOf
  <2>2. win = [i \in 1..Cardinality(P) |-> win[i]]
    BY DEF Sorted
  <2> HIDE DEF win
  <2> QED
    BY <2>1, <2>2, SMT
<1>7. Cardinality(S) \in Nat
  BY <1>1, RanksOf
<1> HIDE DEF win, m
<1>8. ASSUME NEW e \in S, ~(Cardinality(S) > Window) PROVE ~Before(TimeKey(m), TimeKey(e))
  <2>1. Cardinality(S) <= Window
    BY <1>3, <1>7, <1>8
  <2>2. e \in P /\ m \in S /\ ~Before(ByTime[m], ByTime[e])
    BY <1>4, <1>8, <2>1
  <2> QED
    BY <1>1, <2>2
<1>9. m = win[Len(win)]
  BY <1>6 DEF m
<1>11. WindowOf(S) = win
  BY <1>2, <1>5 DEF WindowOf
<1>10. m \in S
  BY <1>4
<1> QED
  BY <1>8, <1>9, <1>10, <1>11, Zenon

\* The window is laid ahead, or the walk ends where nothing is.
LEMMA AheadKeeps ==
  ASSUME IInv, IInv', WalkInv, WalkWindow, UNCHANGED <<last, events>>
  PROVE  WalkInv'
<1> DEFINE T == Reader.tenant
           ahead == {e \in FeedOf(T) : InRange(e) /\ Before(walk.at, TimeKey(e))}
           m == WindowOf(ahead)[Len(WindowOf(ahead))]
<1>1. /\ walk \in Walk /\ walk.pc = "window" /\ walk.s0 <= last[T] /\ walk.s0 \in Nat
  BY DEF WalkInv, WalkWindow, Walk
<1>2. walk.got = SeqsOf(Sorted(Passed(walk.s0, walk.at), ByTime))
  BY <1>1, WalkIs DEF WalkInv, Given
<1>3. walk' = IF ahead = {} THEN [walk EXCEPT !.pc = "done"]
              ELSE [walk EXCEPT !.pc = "list", !.end = TimeKey(m),
                                !.more = Cardinality(ahead) > Window]
  BY DEF WalkWindow, WindowOf
<1>4. ASSUME ahead # {}
      PROVE  /\ m \in ahead /\ TimeKey(m) \in Nat \X Nat
             /\ ~(Cardinality(ahead) > Window) => \A e \in ahead : ~Before(TimeKey(m), TimeKey(e))
  <2>1. ahead \subseteq FeedOf(T)
    OBVIOUS
  <2> HIDE DEF ahead
  <2>2. /\ m \in ahead
        /\ ~(Cardinality(ahead) > Window) => \A e \in ahead : ~Before(TimeKey(m), TimeKey(e))
    BY <1>4, <2>1, AheadIs
  <2> QED
    BY <2>1, <2>2, SnapshotIs
<1> HIDE DEF m
<1>5. CASE ahead = {}
  <2>1. walk' \in Walk /\ walk'.pc = "done" /\ walk'.got = walk.got /\ walk'.s0 = walk.s0
    BY <1>1, <1>3, <1>5 DEF Walk
  <2>2. ASSUME NEW e \in Snapshot(walk.s0) PROVE ~Before(walk.at, TimeKey(e))
    <3>1. e \in FeedOf(T) /\ InRange(e) /\ e \notin ahead
      BY <1>5, <2>2 DEF Snapshot
    <3> QED
      BY <3>1
  <2>3. Given(walk') = Passed(walk.s0, walk.at)
    BY <2>1, <2>2 DEF Given, Passed
  <2>4. WalkIsWhole'
    BY <1>1, <1>2, <2>1, <2>3, WalkIsThen
  <2> QED
    BY <1>1, <2>1, <2>4 DEF WalkInv
<1>6. CASE ahead # {}
  <2>1. /\ walk' \in Walk /\ walk'.pc = "list" /\ walk'.got = walk.got /\ walk'.s0 = walk.s0
        /\ walk'.at = walk.at /\ walk'.end = TimeKey(m)
        /\ walk'.more = (Cardinality(ahead) > Window)
    <3> DEFINE b == Cardinality(ahead) > Window
    <3>1. b \in BOOLEAN
      OBVIOUS
    <3>2. walk' = [walk EXCEPT !.pc = "list", !.end = TimeKey(m), !.more = b]
      BY <1>3, <1>6
    <3>3. TimeKey(m) \in Nat \X Nat
      BY <1>4, <1>6
    <3> HIDE DEF b, ahead
    <3>4. /\ walk' \in Walk /\ walk'.pc = "list" /\ walk'.got = walk.got /\ walk'.s0 = walk.s0
          /\ walk'.at = walk.at /\ walk'.end = TimeKey(m) /\ walk'.more = b
      BY <1>1, <3>1, <3>2, <3>3 DEF Walk
    <3> QED
      BY <3>4 DEF b
  <2>2. Before(walk'.at, walk'.end)
    BY <1>4, <1>6, <2>1
  <2>3. ASSUME NEW e \in Snapshot(walk.s0), ~walk'.more PROVE ~Before(TimeKey(m), TimeKey(e))
    <3>1. ~(Cardinality(ahead) > Window) /\ e \in FeedOf(T) /\ InRange(e)
      BY <2>1, <2>3 DEF Snapshot
    <3>2. CASE e \in ahead
      BY <1>4, <1>6, <3>1, <3>2
    <3>3. CASE e \notin ahead
      <4>1. ~Before(walk.at, TimeKey(e)) /\ Before(walk.at, TimeKey(m))
        BY <1>4, <1>6, <3>1, <3>3
      <4>2. walk.at \in Nat \X Nat /\ TimeKey(m) \in Nat \X Nat /\ TimeKey(e) \in Nat \X Nat
        BY <1>1, <1>4, <1>6, <3>1, SnapshotIs DEF Walk
      <4> QED
        BY <4>1, <4>2, BeforeIsAnOrder
    <3> QED
      BY <3>2, <3>3
  <2>4. Given(walk') = Passed(walk.s0, walk.at)
    BY <2>1 DEF Given
  <2>5. WalkIsWhole'
    BY <1>1, <1>2, <2>1, <2>4, WalkIsThen
  <2>6. Snapshot(walk.s0)' = Snapshot(walk.s0)
    BY <2>1 DEF Snapshot, FeedOf, InRange, InRole
  <2>7. \A e : TimeKey(e)' = TimeKey(e)
    BY DEF TimeKey
  <2> QED
    BY <1>1, <2>1, <2>2, <2>3, <2>5, <2>6 DEF WalkInv, TimeKey
<1> QED
  BY <1>5, <1>6

\* The page gives what of the snapshot is in the window, or the first of it.
LEMMA WalkListKeeps ==
  ASSUME IInv, IInv', WalkInv, WalkList, UNCHANGED <<last, events>>
  PROVE  WalkInv'
<1> DEFINE T == Reader.tenant
           s == walk.s0
           found == {e \in FeedOf(T) : /\ OfTheWalk(e) /\ Before(walk.at, TimeKey(e))
                                       /\ ~Before(walk.end, TimeKey(e))}
           P == First(found, ByTime, Limit)
           page == Sorted(P, ByTime)
           full == Cardinality(found) > Limit
           next == IF full THEN TimeKey(page[Limit]) ELSE walk.end
           then == IF full \/ walk.more THEN "between" ELSE "done"
           A == Passed(s, walk.at)
<1>1. /\ walk \in Walk /\ walk.pc = "list" /\ s \in Nat /\ s <= last[T]
      /\ walk.at \in Nat \X Nat /\ walk.end \in Nat \X Nat /\ walk.got \in Seq(Nat)
      /\ Before(walk.at, walk.end)
      /\ ~walk.more => \A e \in Snapshot(s) : ~Before(walk.end, TimeKey(e))
      /\ Limit \in Nat \ {0}
  BY PageAssumption DEF WalkInv, WalkList, Walk
<1>2. /\ found \subseteq FeedOf(T) /\ found \subseteq FeedEvent /\ Ordered(found, ByTime)
      /\ \A e \in FeedOf(T) : ByTime[e] = TimeKey(e) /\ TimeKey(e) \in Nat \X Nat
  <2>1. found \subseteq FeedOf(T)
    OBVIOUS
  <2> HIDE DEF found
  <2> QED
    BY <2>1, FeedIsOrdered, SnapshotIs, ReaderAssumption
<1>3. walk.got = SeqsOf(Sorted(A, ByTime))
  BY <1>1, WalkIs DEF WalkInv, Given
<1>4. \A e : e \in found <=> /\ e \in Snapshot(s) /\ Before(walk.at, TimeKey(e))
                            /\ ~Before(walk.end, TimeKey(e))
  BY DEF Snapshot, OfTheWalk
<1>5. FirstOf(found, TimeKey, Limit) = P
  BY <1>2, PagesAre
<1>6. P \subseteq found
  BY <1>1, <1>2, FirstIs
<1>7. InOrder(P, TimeKey) = page
  BY <1>2, <1>6, PagesAre
<1>8. walk' = [walk EXCEPT !.got = @ \o SeqsOf(page), !.at = next, !.pc = then,
                           !.end = <<0, 0>>, !.more = FALSE]
  BY <1>5, <1>7 DEF WalkList
<1> HIDE DEF found, P, page
<1>9. full => /\ next \in Nat \X Nat /\ Passed(s, next) = A \cup P
  <2> SUFFICES ASSUME full PROVE next \in Nat \X Nat /\ Passed(s, next) = A \cup P
    OBVIOUS
  <2>1. Cardinality(P) = Limit
    BY <1>1, <1>2, FirstIs DEF P
  <2>2. ASSUME found = {} PROVE FALSE
    <3>1. Cardinality(found) = 0
      BY <2>2, FS_EmptySet
    <3> QED
      BY <1>1, <3>1
  <2>3. P # {}
    BY <1>1, <1>2, <2>2, FirstIs DEF P
  <2> DEFINE m == page[Limit]
  <2>4. m \in P /\ \A x \in P : ~Before(ByTime[m], ByTime[x])
    BY <1>1, <1>2, <2>1, <2>3, FirstIs DEF P, page
  <2>5. \A x \in P, y \in found \ P : Before(ByTime[x], ByTime[y])
    BY <1>1, <1>2, FirstIs DEF P
  <2> HIDE DEF m
  <2>6. next = TimeKey(m) /\ m \in found /\ TimeKey(m) \in Nat \X Nat
    BY <1>2, <1>6, <2>4 DEF m
  <2> HIDE DEF next, full
  <2>7. /\ \A x \in P : ~Before(next, TimeKey(x))
        /\ \A y \in found \ P : Before(next, TimeKey(y))
    BY <1>2, <1>6, <2>4, <2>5, <2>6
  <2>8. Before(walk.at, next) /\ ~Before(walk.end, next)
    BY <1>4, <2>6
  <2>9. ASSUME NEW e \in Snapshot(s) PROVE ~Before(next, TimeKey(e)) <=> e \in A \cup P
    <3>1. TimeKey(e) \in Nat \X Nat /\ next \in Nat \X Nat
      BY <1>2, <2>6, SnapshotIs
    <3>2. CASE ~Before(walk.at, TimeKey(e))
      <4>1. e \in A
        BY <3>2 DEF Passed
      <4>2. ~Before(next, TimeKey(e))
        BY <1>1, <2>8, <3>1, <3>2, BeforeIsAnOrder
      <4> QED
        BY <4>1, <4>2
    <3>3. CASE Before(walk.at, TimeKey(e)) /\ Before(walk.end, TimeKey(e))
      <4>1. e \notin A /\ e \notin P
        BY <1>4, <1>6, <3>3 DEF Passed
      <4>2. next = walk.end \/ Before(next, walk.end)
        BY <1>1, <2>8, <3>1, BeforeIsAnOrder
      <4>3. Before(next, TimeKey(e))
        BY <1>1, <3>1, <3>3, <4>2, BeforeIsAnOrder
      <4> QED
        BY <4>1, <4>3
    <3>4. CASE Before(walk.at, TimeKey(e)) /\ ~Before(walk.end, TimeKey(e))
      <4>1. e \in found /\ e \notin A
        BY <1>4, <3>4 DEF Passed
      <4> QED
        BY <2>7, <4>1
    <3> QED
      BY <3>2, <3>3, <3>4
  <2>10. A \cup P \subseteq Snapshot(s)
    BY <1>4, <1>6 DEF Passed
  <2> QED
    BY <2>6, <2>9, <2>10 DEF Passed
<1>10. ~full => /\ next = walk.end /\ P = found /\ Passed(s, next) = A \cup P
                /\ ~walk.more => Snapshot(s) = A \cup P
  <2> SUFFICES ASSUME ~full
               PROVE  /\ next = walk.end /\ P = found /\ Passed(s, next) = A \cup P
                      /\ ~walk.more => Snapshot(s) = A \cup P
    OBVIOUS
  <2>1. Cardinality(found) \in Nat
    BY <1>2, RanksOf
  <2>2. Cardinality(found) <= Limit
    BY <1>1, <2>1
  <2>3. P = found
    BY <1>1, <1>2, <2>2, FirstIs DEF P
  <2>4. next = walk.end
    OBVIOUS
  <2>5. ASSUME NEW e \in Snapshot(s) PROVE ~Before(walk.end, TimeKey(e)) <=> e \in A \cup P
    <3>1. TimeKey(e) \in Nat \X Nat
      BY <1>2, SnapshotIs
    <3>2. ~Before(walk.at, TimeKey(e)) => ~Before(walk.end, TimeKey(e))
      BY <1>1, <3>1, BeforeIsAnOrder
    <3> QED
      BY <1>4, <2>3, <3>2 DEF Passed
  <2>6. A \cup P \subseteq Snapshot(s)
    BY <1>4, <1>6 DEF Passed
  <2>7. Passed(s, walk.end) = A \cup P
    BY <2>5, <2>6 DEF Passed
  <2>8. ASSUME ~walk.more PROVE Snapshot(s) = A \cup P
    BY <1>1, <2>5, <2>6, <2>8
  <2> QED
    BY <2>3, <2>4, <2>7, <2>8
<1> HIDE DEF full
<1>11. /\ next \in Nat \X Nat /\ Passed(s, next) = A \cup P
       /\ then = "done" => Snapshot(s) = A \cup P
  BY <1>1, <1>9, <1>10
<1>12. then \in {"between", "done"}
  OBVIOUS
<1> HIDE DEF next, then, A
<1>13. SeqsOf(Sorted(A \cup P, ByTime)) = walk.got \o SeqsOf(page)
  <2>1. A \cup P \subseteq FeedOf(Reader.tenant)
    BY <1>2, <1>6, SnapshotIs DEF A, Passed
  <2>2. ASSUME NEW x \in A, NEW y \in P PROVE Before(ByTime[x], ByTime[y])
    <3>1. x \in FeedOf(T) /\ ~Before(walk.at, TimeKey(x))
      BY <2>1 DEF A, Passed
    <3>2. y \in FeedOf(T) /\ Before(walk.at, TimeKey(y))
      BY <1>2, <1>4, <1>6
    <3>3. TimeKey(x) \in Nat \X Nat /\ TimeKey(y) \in Nat \X Nat
      BY <1>2, <3>1, <3>2
    <3>4. TimeKey(x) = walk.at \/ Before(TimeKey(x), walk.at)
      BY <1>1, <3>1, <3>3, BeforeIsAnOrder
    <3>5. Before(TimeKey(x), TimeKey(y))
      BY <1>1, <3>2, <3>3, <3>4, BeforeIsAnOrder
    <3> QED
      BY <1>2, <3>1, <3>2, <3>5
  <2>3. \A x \in A : \A y \in P : Before(ByTime[x], ByTime[y])
    BY <2>2
  <2>4. SeqsOf(Sorted(A \cup P, ByTime)) = SeqsOf(Sorted(A, ByTime)) \o SeqsOf(Sorted(P, ByTime))
    BY <2>1, <2>3, GivenAfter, Zenon
  <2> QED
    BY <1>3, <2>4 DEF page
<1>14. walk.got \o SeqsOf(page) \in Seq(Nat)
  <2>1. Ordered(P, ByTime) /\ \A e \in P : e.seq \in Nat
    BY <1>2, <1>6, OrderedPart, SnapshotIs
  <2>2. SeqsOf(page) \in Seq(Nat)
    BY <2>1, SeqsAre DEF page
  <2> QED
    BY <1>1, <2>2, ConcatProperties
<1> HIDE DEF s
<1>15. /\ walk' \in Walk /\ walk'.got = walk.got \o SeqsOf(page) /\ walk'.at = next
       /\ walk'.pc = then /\ walk'.s0 = s
  <2> DEFINE g == walk.got \o SeqsOf(page)
  <2>1. g \in Seq(Nat)
    BY <1>14
  <2>2. walk' = [walk EXCEPT !.got = g, !.at = next, !.pc = then, !.end = <<0, 0>>, !.more = FALSE]
    BY <1>1, <1>8 DEF Walk
  <2> HIDE DEF g
  <2>3. /\ walk' \in Walk /\ walk'.got = g /\ walk'.at = next /\ walk'.pc = then /\ walk'.s0 = walk.s0
    BY <1>1, <1>11, <1>12, <2>1, <2>2 DEF Walk
  <2> QED
    BY <2>3 DEF g, s
<1>16. Given(walk') = A \cup P
  BY <1>11, <1>12, <1>15 DEF Given
<1>17. WalkIsWhole'
  BY <1>1, <1>13, <1>15, <1>16, WalkIsThen
<1> QED
  BY <1>1, <1>12, <1>15, <1>17 DEF WalkInv

\* What the others write is not of the snapshot.
LEMMA WalkStays ==
  ASSUME IInv, IInv', WalkInv, events \subseteq events', walk' = walk
  PROVE  WalkInv'
<1> DEFINE T == Reader.tenant
<1>1. /\ walk \in Walk /\ walk.s0 \in Nat /\ walk.s0 <= last[T]
      /\ last[T] \in Nat /\ last'[T] \in Nat /\ last[T] <= last'[T]
  BY FeedGrows, ReaderAssumption DEF WalkInv, Walk
<1>2. {e \in FeedOf(T)' : e.seq <= walk.s0} = {e \in FeedOf(T) : e.seq <= walk.s0}
  BY <1>1, FeedGrows, ReaderAssumption
<1>3. Snapshot(walk.s0)' = Snapshot(walk.s0)
  BY <1>2 DEF Snapshot, InRange, InRole
<1>4. walk.got = SeqsOf(Sorted(Given(walk), ByTime))
  BY WalkIs DEF WalkInv
<1>5. WalkIsWhole'
  BY <1>1, <1>4, WalkIsThen
<1> QED
  BY <1>1, <1>3, <1>5 DEF WalkInv, TimeKey

\* At first no snapshot is taken, and nothing was given.
LEMMA WalkInit == Init => WalkInv
<1> SUFFICES ASSUME Init PROVE WalkInv
  OBVIOUS
<1> DEFINE T == Reader.tenant
<1>1. \E p \in {"off", "first"} :
        walk = [pc |-> p, s0 |-> 0, at |-> <<From, 0>>, end |-> <<0, 0>>, more |-> FALSE, got |-> <<>>]
  <2>1. PICK pcs \in {<<"idle", "off">>, <<"off", "first">>} :
          walk = [pc |-> pcs[2], s0 |-> 0, at |-> <<From, 0>>, end |-> <<0, 0>>,
                  more |-> FALSE, got |-> <<>>]
    BY Zenon DEF Init
  <2>2. pcs[2] \in {"off", "first"}
    BY <2>1
  <2> QED
    BY <2>1, <2>2
<1>2. /\ walk \in Walk /\ walk.s0 = 0 /\ walk.at = <<From, 0>> /\ walk.got = <<>>
      /\ walk.pc \in {"off", "first"}
  BY <1>1, EmptySeq, ReaderAssumption DEF Walk
<1>3. IInv /\ T \in Tenants /\ events = {} /\ last = [t \in Tenants |-> 0]
  <2>1. IInv /\ T \in Tenants
    BY InitHolds, ReaderAssumption
  <2>2. events = {} /\ last = [t \in Tenants |-> 0]
    BY Zenon DEF Init
  <2> QED
    BY <2>1, <2>2
<1>4. Given(walk) = {}
  BY <1>2, <1>3 DEF Given, Passed, Snapshot, FeedOf
<1>5. walk.got = SeqsOf(Sorted(Given(walk), ByTime))
  BY <1>2, <1>4, NothingSorted
<1>6. WalkIsWhole
  BY <1>3, <1>5, WalkIs
<1> QED
  BY <1>2, <1>3, <1>6 DEF WalkInv

\* Every step keeps it.
LEMMA WalkStep == IInv /\ IInv' /\ WalkInv /\ [Next]_vars => WalkInv'
<1> SUFFICES ASSUME IInv, IInv', WalkInv, [Next]_vars PROVE WalkInv'
  OBVIOUS
<1>1. CASE WalkCounter /\ UNCHANGED <<last, events>>
  BY <1>1, CounterKeeps
<1>2. CASE WalkWindow /\ UNCHANGED <<last, events>>
  BY <1>2, AheadKeeps
<1>3. CASE WalkList /\ UNCHANGED <<last, events>>
  BY <1>3, WalkListKeeps
<1>4. CASE walk' = walk
  BY <1>4, WalkStays, ReadersAlone
<1> QED
  BY <1>1, <1>2, <1>3, <1>4, ReadersAlone

(* The walk gives every event of its snapshot, in the order of the punches  *)
(* and once: a later commit has a later position, and no window ends before *)
(* the place from which the walk goes on.                                   *)
THEOREM WalkGivesAll == Spec => []WalkIsWhole
<1>1. Init => WalkInv
  BY WalkInit
<1>2. IInv /\ IInv' /\ WalkInv /\ [Next]_vars => WalkInv'
  BY WalkStep
<1>3. WalkInv => WalkIsWhole
  BY DEF WalkInv
<1> QED
  BY <1>1, <1>2, <1>3, Invariant, PTL DEF Spec
=============================================================================

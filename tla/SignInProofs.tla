---------------------------- MODULE SignInProofs ----------------------------
(* Theorems about SignIn, for any number of requests, links and restarts: a *)
(* challenge has its row, the lock holds and no code or link is spent twice.*)
EXTENDS SignIn, FiniteSetTheorems, SequenceTheorems, TLAPS

---------------------------------------------------------------------------
(* The types.                                                               *)

Links == Scripts \cup {NoLink}
Account ==
  [status : {"active", "pending"}, failures : Nat, until : Nat, last : Nat,
   link : Links, issued : Nat]
Event ==
  [kind : {"login", "enrollment", "reset", "totp_failed", "locked"}, at : Nat,
   link : Links, step : Nat]
Window == [count : Nat, start : Nat, id : Nat]
Count == [count : Nat, start : Nat]
Rows == [wrote : Nat, rows : Nat]
Login ==
  [pc : {"new", "gone", "record", "refund", "wrote", "challenge"}, win : Nat, at : Nat,
   own : BOOLEAN]
Request ==
  [pc : {"new", "gone", "read", "open", "totp_failed", "locked"}, link : Links, step : Nat,
   label : BOOLEAN]

TypeOK ==
  /\ now \in Nat
  /\ acct \in Account
  /\ DOMAIN scripts \subseteq Scripts /\ scripts \in [DOMAIN scripts -> Nat]
  /\ log \in Seq(Event)
  /\ cap \in Window
  /\ written \in Seq(Rows)
  /\ budget \in Count
  /\ DOMAIN login \subseteq Logins /\ login \in [DOMAIN login -> Login]
  /\ attempt \in [DOMAIN attempt -> Request]
  /\ enroll \in [DOMAIN enroll -> Request]
  /\ restarts \in Nat

---------------------------------------------------------------------------
(* The inductive invariant.                                                 *)

(* A request's window is one of those written down, and so is the current   *)
(* one, but for the empty one of a start, which is over.                    *)
CapInv ==
  /\ now >= Period
  /\ cap.id \in 0..Len(written)
  /\ cap.id = 0 => cap.start = 0
  /\ \A l \in DOMAIN login :
       login[l].pc \in {"record", "refund", "wrote", "challenge"} => login[l].win \in 1..Len(written)

(* Every row that was counted, and every one about to be, is there.         *)
Answered(w) == {l \in DOMAIN login : login[l].pc = "wrote" /\ login[l].win = w}

RowsInv ==
  /\ \A w \in 1..Len(written) : written[w].wrote + Cardinality(Answered(w)) <= written[w].rows
  /\ \A l \in DOMAIN login : login[l].pc = "wrote" => login[l].own

(* No failure is later than now; those since the last birth or reset were   *)
(* counted, and locked the account from the last of them on.                *)
Recent == FailsBefore(Len(log) + 1)

LockInv ==
  /\ \A i \in 1..Len(log) : log[i].at <= now
  /\ acct.status = "active" =>
       /\ Cardinality(Recent) <= acct.failures
       /\ acct.failures >= FailLimit => \A j \in Recent : log[j].at + LockTime <= acct.until

(* A birth no reset followed left its step behind and the account active.   *)
StepInv ==
  \A i \in 1..Len(log) :
    log[i].kind \in Births /\ (\A h \in i..Len(log) : log[h].kind # "reset")
    => acct.status = "active" /\ log[i].step <= acct.last

(* A link that is or was in place is older than the account's last reset:   *)
(* its script applies no more.  One that enrolled does not wait to.         *)
LinkInv ==
  /\ \A k \in DOMAIN scripts : scripts[k] <= now
  /\ \A e \in DOMAIN enroll : enroll[e].pc = "open" => enroll[e].link \in Scripts
  /\ acct.link # NoLink =>
       acct.link \in DOMAIN scripts /\ scripts[acct.link] > 0 /\ scripts[acct.link] <= acct.issued
  /\ \A i \in 1..Len(log) : log[i].kind = "enrollment" =>
       /\ log[i].link \in DOMAIN scripts /\ scripts[log[i].link] > 0
       /\ scripts[log[i].link] <= acct.issued
       /\ acct.link # NoLink
       /\ acct.link = log[i].link => acct.status = "active"

FirstFactor == CapInv /\ RowsInv /\ TrailBeforeChallenge
Database == LockInv /\ LockHolds /\ StepInv /\ LinkInv /\ SpentOnce

IInv == TypeOK /\ FirstFactor /\ Database

---------------------------------------------------------------------------
\* The bounds are numbers.
LEMMA Numbers ==
  /\ CapLimit \in Nat \ {0} /\ FailLimit \in Nat \ {0}
  /\ Period \in Nat /\ LockTime \in Nat /\ LinkTime \in Nat
  /\ NoLink \notin Scripts
BY LimitAssumption, LinkAssumption, BoundAssumption

\* The logins that have an answer are finitely many.
LEMMA AnsweredFinite ==
  ASSUME TypeOK, NEW w
  PROVE  IsFiniteSet(Answered(w)) /\ Cardinality(Answered(w)) \in Nat
<1>1. Answered(w) \subseteq Logins
  BY DEF Answered, TypeOK
<1>2. IsFiniteSet(Answered(w))
  BY <1>1, LoginAssumption, FS_Subset
<1> QED
  BY <1>2, FS_CardinalityType

\* What is not touched keeps its part of the invariant.
LEMMA FirstUntouched ==
  ASSUME FirstFactor, UNCHANGED <<now, cap, written, login>>
  PROVE  FirstFactor'
BY DEF FirstFactor, CapInv, RowsInv, Answered, TrailBeforeChallenge

\* The database's part, the enrollments' requests apart.
LEMMA DatabaseUntouched ==
  ASSUME Database, UNCHANGED <<now, db>>,
         \A e \in DOMAIN enroll' : enroll'[e].pc = "open" => enroll'[e].link \in Scripts
  PROVE  Database'
<1>1. acct' = acct /\ scripts' = scripts /\ log' = log /\ now' = now
  BY DEF db
<1>2. LockInv' /\ LockHolds'
  <2>1. \A i : FailsBefore(i)' = FailsBefore(i)
    BY <1>1 DEF FailsBefore
  <2> QED
    BY <1>1, <2>1 DEF Database, LockInv, LockHolds, Recent, FailsBefore
<1>3. StepInv' /\ SpentOnce'
  BY <1>1 DEF Database, StepInv, SpentOnce
<1>4. LinkInv'
  BY <1>1 DEF Database, LinkInv
<1> QED
  BY <1>2, <1>3, <1>4 DEF Database

---------------------------------------------------------------------------
(* The first factor.                                                        *)

\* A login's step leaves the others where they are.
LEMMA LoginMoves ==
  ASSUME TypeOK, NEW l \in DOMAIN login, NEW q \in Login, login' = [login EXCEPT ![l] = q]
  PROVE  /\ DOMAIN login' = DOMAIN login
         /\ \A m \in DOMAIN login : login'[m] = IF m = l THEN q ELSE login[m]
         /\ DOMAIN login' \subseteq Logins /\ login' \in [DOMAIN login' -> Login]
BY DEF TypeOK

\* The window a password is charged to is one of those written down afterwards.
LEMMA TakenWindow ==
  ASSUME TypeOK, CapInv,
         written' = IF Taken.id \in DOMAIN written THEN written
                    ELSE Append(written, [wrote |-> 0, rows |-> 0])
  PROVE  /\ Taken \in Window /\ Taken.count > 0 /\ Taken.id \in 1..Len(written')
         /\ written' \in Seq(Rows) /\ Len(written') \in {Len(written), Len(written) + 1}
         /\ \A w \in 1..Len(written) : written'[w] = written[w]
         /\ \A w \in 1..Len(written') : w \notin 1..Len(written) =>
              written'[w] = [wrote |-> 0, rows |-> 0]
<1>1. /\ written \in Seq(Rows) /\ Len(written) \in Nat /\ DOMAIN written = 1..Len(written)
      /\ cap \in Window /\ now \in Nat
  BY DEF TypeOK
<1>2. CASE Over(cap)
  <2>1. Taken = [count |-> 1, start |-> now, id |-> Len(written) + 1]
    BY <1>2 DEF Taken
  <2>2. Taken \in Window /\ Taken.count = 1 /\ Taken.id = Len(written) + 1
    BY <1>1, <2>1 DEF Window
  <2> DEFINE x == [wrote |-> 0, rows |-> 0]
  <2>3. written' = Append(written, x) /\ x \in Rows
    BY <1>1, <2>2 DEF Rows
  <2> HIDE DEF x
  <2>4. /\ written' \in Seq(Rows) /\ Len(written') = Len(written) + 1
        /\ \A i \in 1..Len(written) : written'[i] = written[i]
        /\ written'[Len(written) + 1] = x
    BY <1>1, <2>3, AppendProperties
  <2> QED
    BY <1>1, <2>2, <2>4 DEF x
<1>3. CASE ~Over(cap)
  <2>1. cap.id \in 1..Len(written)
    BY <1>1, <1>3, Numbers DEF CapInv, Over
  <2>2. Taken = [cap EXCEPT !.count = @ + 1]
    BY <1>3 DEF Taken, Charged
  <2>3. Taken \in Window /\ Taken.count = cap.count + 1 /\ Taken.id = cap.id
    BY <1>1, <2>2 DEF Window
  <2>4. written' = written
    BY <1>1, <2>1, <2>3
  <2> QED
    BY <1>1, <2>1, <2>3, <2>4 DEF Window
<1> QED
  BY <1>2, <1>3

\* A password charged, served past a full trail, or turned away.
LEMMA PasswordKeeps ==
  ASSUME TypeOK, FirstFactor, NEW l \in DOMAIN login, Password(l)
  PROVE  /\ FirstFactor' /\ cap' \in Window /\ written' \in Seq(Rows)
         /\ DOMAIN login' \subseteq Logins /\ login' \in [DOMAIN login' -> Login]
<1>1. CapInv /\ RowsInv /\ TrailBeforeChallenge /\ login[l].pc = "new" /\ now' = now
  BY DEF FirstFactor, Password
<1>2. PICK w : w = Taken
  OBVIOUS
<1>3. /\ w \in Window /\ w.count > 0 /\ w.id \in 1..Len(written')
      /\ written' \in Seq(Rows) /\ Len(written') \in {Len(written), Len(written) + 1}
      /\ \A v \in 1..Len(written) : written'[v] = written[v]
      /\ \A v \in 1..Len(written') : v \notin 1..Len(written) =>
           written'[v] = [wrote |-> 0, rows |-> 0]
  BY <1>1, <1>2, TakenWindow DEF Password
<1>4. /\ now \in Nat /\ cap \in Window /\ written \in Seq(Rows) /\ Len(written) \in Nat
      /\ Len(written') \in Nat /\ DOMAIN written = 1..Len(written)
      /\ login \in [DOMAIN login -> Login]
  BY <1>3 DEF TypeOK
<1>5. PICK q \in Login :
        /\ login' = [login EXCEPT ![l] = q]
        /\ q.pc \in {"record", "challenge", "gone"}
        /\ q.pc # "gone" => q.win = w.id
        /\ q.pc = "challenge" => Wrote(w.id) >= CapLimit
        /\ cap' \in Window /\ cap'.id = w.id
  <2>1. CASE /\ cap' = w
             /\ login' = [login EXCEPT ![l] = [Gone EXCEPT !.pc = "record", !.win = w.id]]
    <3>1. PICK q : q = [Gone EXCEPT !.pc = "record", !.win = w.id]
      OBVIOUS
    <3>2. q \in Login /\ q.pc = "record" /\ q.win = w.id
      BY <1>3, <3>1 DEF Gone, Login, Window
    <3> QED
      BY <1>3, <2>1, <3>1, <3>2
  <2>2. CASE /\ cap' = w /\ TrailIsFull(w.id)
             /\ login' = [login EXCEPT ![l] =
                            [pc |-> "challenge", win |-> w.id, at |-> now, own |-> FALSE]]
    <3>1. PICK q : q = [pc |-> "challenge", win |-> w.id, at |-> now, own |-> FALSE]
      OBVIOUS
    <3>2. q \in Login /\ q.pc = "challenge" /\ q.win = w.id
      BY <1>3, <1>4, <3>1 DEF Login, Window
    <3> QED
      BY <1>3, <2>2, <3>1, <3>2 DEF TrailIsFull
  <2>3. CASE cap' = [w EXCEPT !.count = @ - 1] /\ login' = [login EXCEPT ![l] = Gone]
    <3>1. Gone \in Login /\ Gone.pc = "gone"
      BY DEF Gone, Login
    <3>2. cap' \in Window /\ cap'.id = w.id
      BY <1>3, <2>3 DEF Window
    <3> QED
      BY <2>3, <3>1, <3>2
  <2> QED
    BY <1>2, <2>1, <2>2, <2>3, Zenon DEF Password
<1>6. /\ DOMAIN login' = DOMAIN login
      /\ \A m \in DOMAIN login : login'[m] = IF m = l THEN q ELSE login[m]
      /\ DOMAIN login' \subseteq Logins /\ login' \in [DOMAIN login' -> Login]
  BY <1>5, LoginMoves
<1>7. CapInv'
  <2>1. cap'.id \in 0..Len(written') /\ cap'.id # 0
    BY <1>3, <1>4, <1>5
  <2>2. \A m \in DOMAIN login' :
          login'[m].pc \in {"record", "refund", "wrote", "challenge"}
          => login'[m].win \in 1..Len(written')
    <3>1. SUFFICES ASSUME NEW m \in DOMAIN login,
                          login'[m].pc \in {"record", "refund", "wrote", "challenge"}
                   PROVE  login'[m].win \in 1..Len(written')
      BY <1>6
    <3>2. CASE m = l
      BY <1>3, <1>5, <1>6, <3>1, <3>2
    <3>3. CASE m # l
      <4>1. login[m].win \in 1..Len(written)
        BY <1>1, <1>6, <3>1, <3>3 DEF CapInv
      <4> QED
        BY <1>3, <1>4, <1>6, <3>3, <4>1
    <3> QED
      BY <3>2, <3>3
  <2> QED
    BY <1>1, <2>1, <2>2 DEF CapInv
<1>8. RowsInv'
  <2>0. \A m \in DOMAIN login :
          /\ login'[m].pc = "wrote" <=> login[m].pc = "wrote"
          /\ login'[m].pc = "wrote" => login'[m] = login[m]
    BY <1>1, <1>5, <1>6
  <2>1. ASSUME NEW v PROVE Answered(v)' = Answered(v)
    <3>1. DOMAIN login' = DOMAIN login
      BY <1>6
    <3> QED
      BY <2>0, <3>1 DEF Answered
  <2>2. ASSUME NEW v \in 1..Len(written')
        PROVE  written'[v].wrote + Cardinality(Answered(v)) <= written'[v].rows
    <3>1. CASE v \in 1..Len(written)
      BY <1>1, <1>3, <3>1 DEF RowsInv
    <3>2. CASE v \notin 1..Len(written)
      <4>1. Answered(v) = {}
        BY <1>1, <3>2 DEF CapInv, Answered
      <4>2. written'[v] = [wrote |-> 0, rows |-> 0]
        BY <1>3, <2>2, <3>2
      <4> QED
        BY <4>1, <4>2, FS_EmptySet
    <3> QED
      BY <3>1, <3>2
  <2> QED
    <3>0. DOMAIN login' = DOMAIN login
      BY <1>6
    <3>1. \A m \in DOMAIN login' : login'[m].pc = "wrote" => login'[m].own
      BY <1>1, <2>0, <3>0 DEF RowsInv
    <3> QED
      BY <2>1, <2>2, <3>1 DEF RowsInv
<1>9. TrailBeforeChallenge'
  <2>1. ASSUME NEW m \in DOMAIN login', login'[m].pc = "challenge"
        PROVE  login'[m].own \/ written'[login'[m].win].rows >= CapLimit
    <3>1. CASE m = l
      <4>1. Wrote(w.id) >= CapLimit /\ login'[m].win = w.id
        BY <1>5, <1>6, <2>1, <3>1
      <4>2. w.id \in 1..Len(written) /\ written[w.id].wrote >= CapLimit
        BY <1>4, <4>1, Numbers DEF Wrote
      <4>3. written[w.id].wrote + Cardinality(Answered(w.id)) <= written[w.id].rows
        BY <1>1, <4>2 DEF RowsInv
      <4>4. written[w.id] \in Rows /\ Cardinality(Answered(w.id)) \in Nat
        BY <1>4, <4>2, AnsweredFinite
      <4>5. written[w.id].rows >= CapLimit
        BY <4>2, <4>3, <4>4, Numbers DEF Rows
      <4> QED
        BY <1>3, <4>1, <4>2, <4>5
    <3>2. CASE m # l
      BY <1>1, <1>3, <1>6, <2>1, <3>2 DEF TrailBeforeChallenge, CapInv
    <3> QED
      BY <3>1, <3>2
  <2> QED
    BY <2>1 DEF TrailBeforeChallenge
<1> QED
  BY <1>3, <1>5, <1>6, <1>7, <1>8, <1>9 DEF FirstFactor

\* A change of one window's rows leaves the others.
LEMMA RowMoves ==
  ASSUME TypeOK, NEW w \in 1..Len(written), NEW x \in Rows, written' = [written EXCEPT ![w] = x]
  PROVE  /\ written' \in Seq(Rows) /\ Len(written') = Len(written)
         /\ \A v \in 1..Len(written) : written'[v] = IF v = w THEN x ELSE written[v]
<1>1. written \in Seq(Rows)
  BY DEF TypeOK
<1>2. [written EXCEPT ![w] = x] \in Seq(Rows) /\ Len([written EXCEPT ![w] = x]) = Len(written)
  BY <1>1, ExceptSeq
<1>3. DOMAIN written = 1..Len(written)
  BY <1>1
<1> QED
  BY <1>2, <1>3

\* A row is written, or not, and its answer comes back only when it is.
LEMMA RecordKeeps ==
  ASSUME TypeOK, FirstFactor, NEW l \in DOMAIN login, RecordPasswordOK(l)
  PROVE  /\ FirstFactor' /\ written' \in Seq(Rows)
         /\ DOMAIN login' \subseteq Logins /\ login' \in [DOMAIN login' -> Login]
<1>1. /\ CapInv /\ RowsInv /\ TrailBeforeChallenge /\ login[l].pc = "record"
      /\ UNCHANGED <<now, cap>>
  BY DEF FirstFactor, RecordPasswordOK
<1>2. PICK kept \in BOOLEAN, answered \in BOOLEAN :
        /\ answered => kept
        /\ written' = [written EXCEPT ![login[l].win].rows = @ + (IF kept THEN 1 ELSE 0)]
        /\ login' = [login EXCEPT ![l].pc = IF answered THEN "wrote" ELSE "refund", ![l].own = kept]
  BY DEF RecordPasswordOK
<1>3. PICK w : w = login[l].win
  OBVIOUS
<1>4. /\ w \in 1..Len(written) /\ w \in Nat /\ written[w] \in Rows /\ login[l] \in Login
      /\ login \in [DOMAIN login -> Login] /\ Len(written) \in Nat
  BY <1>1, <1>3 DEF CapInv, TypeOK
<1>5. PICK x \in Rows : /\ x.wrote = written[w].wrote
                        /\ x.rows = written[w].rows + (IF kept THEN 1 ELSE 0)
                        /\ written' = [written EXCEPT ![w] = x]
  <2>1. PICK x : x = [written[w] EXCEPT !.rows = @ + (IF kept THEN 1 ELSE 0)]
    OBVIOUS
  <2>2. /\ x \in Rows /\ x.wrote = written[w].wrote
        /\ x.rows = written[w].rows + (IF kept THEN 1 ELSE 0)
    BY <1>4, <2>1 DEF Rows
  <2>3. written' = [written EXCEPT ![w] = x]
    BY <1>2, <1>3, <2>1
  <2> QED
    BY <2>2, <2>3
<1>6. PICK q \in Login : /\ q.pc = IF answered THEN "wrote" ELSE "refund"
                         /\ q.own = kept /\ q.win = w
                         /\ login' = [login EXCEPT ![l] = q]
  <2>1. PICK q : q = [login[l] EXCEPT !.pc = IF answered THEN "wrote" ELSE "refund", !.own = kept]
    OBVIOUS
  <2>2. /\ q \in Login /\ q.pc = IF answered THEN "wrote" ELSE "refund"
        /\ q.own = kept /\ q.win = w
    BY <1>3, <1>4, <2>1 DEF Login
  <2>3. login' = [login EXCEPT ![l] = q]
    BY <1>2, <1>4, <2>1
  <2> QED
    BY <2>2, <2>3
<1>7. /\ written' \in Seq(Rows) /\ Len(written') = Len(written)
      /\ \A v \in 1..Len(written) : written'[v] = IF v = w THEN x ELSE written[v]
  BY <1>4, <1>5, RowMoves
<1>8. /\ DOMAIN login' = DOMAIN login
      /\ \A m \in DOMAIN login : login'[m] = IF m = l THEN q ELSE login[m]
      /\ DOMAIN login' \subseteq Logins /\ login' \in [DOMAIN login' -> Login]
  BY <1>6, LoginMoves
<1>9. CapInv'
  <2>1. ASSUME NEW m \in DOMAIN login, login'[m].pc \in {"record", "refund", "wrote", "challenge"}
        PROVE  login'[m].win \in 1..Len(written')
    BY <1>1, <1>4, <1>6, <1>7, <1>8, <2>1 DEF CapInv
  <2> QED
    BY <1>1, <1>7, <1>8, <2>1 DEF CapInv
<1>10. \A m \in DOMAIN login' : login'[m].pc = "wrote" => login'[m].own
  BY <1>1, <1>2, <1>6, <1>8 DEF RowsInv
<1>11. ASSUME NEW v \in 1..Len(written)
       PROVE  written'[v].wrote + Cardinality(Answered(v)') <= written'[v].rows
  <2>1. /\ written[v].wrote + Cardinality(Answered(v)) <= written[v].rows /\ written[v] \in Rows
        /\ IsFiniteSet(Answered(v)) /\ Cardinality(Answered(v)) \in Nat
    BY <1>1, AnsweredFinite DEF RowsInv, TypeOK
  <2>2. CASE v = w /\ answered
    <3>1. Answered(v)' = Answered(v) \cup {l}
      BY <1>1, <1>6, <1>8, <2>2 DEF Answered
    <3>2. Cardinality(Answered(v)') \in {Cardinality(Answered(v)), Cardinality(Answered(v)) + 1}
      BY <2>1, <3>1, FS_AddElement
    <3>3. x.rows = written[w].rows + 1
      BY <1>2, <1>5, <2>2
    <3> QED
      BY <1>5, <1>7, <2>1, <2>2, <3>2, <3>3 DEF Rows
  <2>3. CASE ~(v = w /\ answered)
    <3>1. Answered(v)' = Answered(v)
      BY <1>1, <1>6, <1>8, <2>3 DEF Answered
    <3>2. /\ written'[v].wrote = written[v].wrote
          /\ written'[v].rows \in {written[v].rows, written[v].rows + 1}
      BY <1>5, <1>7, <2>1 DEF Rows
    <3> QED
      BY <2>1, <3>1, <3>2 DEF Rows
  <2> QED
    BY <2>2, <2>3
<1>12. TrailBeforeChallenge'
  <2>1. ASSUME NEW m \in DOMAIN login, login'[m].pc = "challenge"
        PROVE  login'[m].own \/ written'[login'[m].win].rows >= CapLimit
    <3>1. m # l /\ login'[m] = login[m]
      BY <1>6, <1>8, <2>1
    <3>2. login[m].win \in 1..Len(written) /\ (login[m].own \/ written[login[m].win].rows >= CapLimit)
      BY <1>1, <2>1, <3>1 DEF CapInv, TrailBeforeChallenge
    <3>3. written[login[m].win] \in Rows
      BY <3>2 DEF TypeOK
    <3>4. written'[login[m].win].rows >= written[login[m].win].rows
      BY <1>4, <1>5, <1>7, <3>2, <3>3 DEF Rows
    <3>5. written'[login[m].win].rows \in Nat
      <4>1. written'[login[m].win] \in {x, written[login[m].win]}
        BY <1>7, <3>2
      <4> QED
        BY <3>3, <4>1 DEF Rows
    <3> QED
      BY <3>1, <3>2, <3>3, <3>4, <3>5, Numbers DEF Rows
  <2> QED
    BY <1>8, <2>1 DEF TrailBeforeChallenge
<1> QED
  BY <1>7, <1>8, <1>9, <1>10, <1>11, <1>12 DEF FirstFactor, RowsInv

\* A challenge is minted for a row that is there, and counted once.
LEMMA MintKeeps ==
  ASSUME TypeOK, FirstFactor, NEW l \in DOMAIN login, Mint(l)
  PROVE  /\ FirstFactor' /\ written' \in Seq(Rows)
         /\ DOMAIN login' \subseteq Logins /\ login' \in [DOMAIN login' -> Login]
<1>1. /\ CapInv /\ RowsInv /\ TrailBeforeChallenge /\ login[l].pc = "wrote" /\ login[l].own
      /\ UNCHANGED <<now, cap>>
  BY DEF FirstFactor, Mint, RowsInv
<1>2. PICK w : w = login[l].win
  OBVIOUS
<1>3. /\ w \in 1..Len(written) /\ w \in Nat /\ written[w] \in Rows /\ login[l] \in Login
      /\ login \in [DOMAIN login -> Login] /\ Len(written) \in Nat /\ now \in Nat
  BY <1>1, <1>2 DEF CapInv, TypeOK
<1>4. PICK x \in Rows : /\ x.wrote = written[w].wrote + 1
                        /\ x.rows = written[w].rows
                        /\ written' = [written EXCEPT ![w] = x]
  <2>1. PICK x : x = [written[w] EXCEPT !.wrote = @ + 1]
    OBVIOUS
  <2>2. x \in Rows /\ x.wrote = written[w].wrote + 1 /\ x.rows = written[w].rows
    BY <1>3, <2>1 DEF Rows
  <2>3. written' = [written EXCEPT ![w] = x]
    BY <1>2, <2>1 DEF Mint
  <2> QED
    BY <2>2, <2>3
<1>5. PICK q \in Login : /\ q.pc = "challenge" /\ q.own /\ q.win = w
                         /\ login' = [login EXCEPT ![l] = q]
  <2>1. PICK q : q = [login[l] EXCEPT !.pc = "challenge", !.at = now]
    OBVIOUS
  <2>2. q \in Login /\ q.pc = "challenge" /\ q.own /\ q.win = w
    BY <1>1, <1>2, <1>3, <2>1 DEF Login
  <2>3. login' = [login EXCEPT ![l] = q]
    BY <1>3, <2>1 DEF Mint
  <2> QED
    BY <2>2, <2>3
<1>6. /\ written' \in Seq(Rows) /\ Len(written') = Len(written)
      /\ \A v \in 1..Len(written) : written'[v] = IF v = w THEN x ELSE written[v]
  BY <1>3, <1>4, RowMoves
<1>7. /\ DOMAIN login' = DOMAIN login
      /\ \A m \in DOMAIN login : login'[m] = IF m = l THEN q ELSE login[m]
      /\ DOMAIN login' \subseteq Logins /\ login' \in [DOMAIN login' -> Login]
  BY <1>5, LoginMoves
<1>8. CapInv'
  <2>1. ASSUME NEW m \in DOMAIN login, login'[m].pc \in {"record", "refund", "wrote", "challenge"}
        PROVE  login'[m].win \in 1..Len(written')
    BY <1>1, <1>3, <1>5, <1>6, <1>7, <2>1 DEF CapInv
  <2> QED
    BY <1>1, <1>6, <1>7, <2>1 DEF CapInv
<1>9. \A m \in DOMAIN login' : login'[m].pc = "wrote" => login'[m].own
  BY <1>1, <1>5, <1>7 DEF RowsInv
<1>10. ASSUME NEW v \in 1..Len(written)
       PROVE  written'[v].wrote + Cardinality(Answered(v)') <= written'[v].rows
  <2>1. /\ written[v].wrote + Cardinality(Answered(v)) <= written[v].rows /\ written[v] \in Rows
        /\ IsFiniteSet(Answered(v)) /\ Cardinality(Answered(v)) \in Nat
    BY <1>1, AnsweredFinite DEF RowsInv, TypeOK
  <2>2. CASE v = w
    <3>1. Answered(v)' = Answered(v) \ {l} /\ l \in Answered(v)
      BY <1>1, <1>2, <1>5, <1>7, <2>2 DEF Answered
    <3>2. Cardinality(Answered(v)') = Cardinality(Answered(v)) - 1
      BY <2>1, <3>1, FS_RemoveElement
    <3> QED
      BY <1>4, <1>6, <2>1, <2>2, <3>2 DEF Rows
  <2>3. CASE v # w
    <3>1. Answered(v)' = Answered(v)
      BY <1>1, <1>2, <1>5, <1>7, <2>3 DEF Answered
    <3> QED
      BY <1>6, <2>1, <2>3, <3>1
  <2> QED
    BY <2>2, <2>3
<1>11. TrailBeforeChallenge'
  <2>1. ASSUME NEW m \in DOMAIN login, login'[m].pc = "challenge"
        PROVE  login'[m].own \/ written'[login'[m].win].rows >= CapLimit
    <3>1. CASE m = l
      BY <1>5, <1>7, <3>1
    <3>2. CASE m # l
      <4>1. /\ login'[m] = login[m] /\ login[m].win \in 1..Len(written)
            /\ login[m].own \/ written[login[m].win].rows >= CapLimit
        BY <1>1, <1>7, <2>1, <3>2 DEF CapInv, TrailBeforeChallenge
      <4>2. written'[login[m].win].rows = written[login[m].win].rows
        BY <1>4, <1>6, <4>1
      <4> QED
        BY <4>1, <4>2
    <3> QED
      BY <3>1, <3>2
  <2> QED
    BY <1>7, <2>1 DEF TrailBeforeChallenge
<1> QED
  BY <1>6, <1>7, <1>8, <1>9, <1>10, <1>11 DEF FirstFactor, RowsInv

\* A request that is given up, or dies with the process, takes no row and no count along.
LEMMA GivenUp ==
  ASSUME TypeOK, FirstFactor, UNCHANGED <<now, written>>, cap' \in Window,
         cap'.id \in {0, cap.id}, cap'.id = 0 => cap'.start = 0,
         DOMAIN login' = DOMAIN login,
         \A m \in DOMAIN login : login'[m] \in {login[m], Gone}
  PROVE  /\ FirstFactor' /\ \A m \in DOMAIN login : login'[m] \in Login
<1>1. CapInv /\ RowsInv /\ TrailBeforeChallenge
  BY DEF FirstFactor
<1>2. Gone \in Login /\ Gone.pc = "gone"
  BY DEF Gone, Login
<1>3. /\ \A m \in DOMAIN login : login'[m] \in Login
      /\ \A m \in DOMAIN login : login'[m].pc # "gone" => login'[m] = login[m]
  BY <1>2 DEF TypeOK
<1>4. CapInv'
  <2>1. cap'.id \in 0..Len(written)
    BY <1>1 DEF CapInv, TypeOK, Window
  <2> QED
    BY <1>1, <1>3, <2>1 DEF CapInv
<1>5. ASSUME NEW w \in 1..Len(written)
      PROVE  written[w].wrote + Cardinality(Answered(w)') <= written[w].rows
  <2>1. Answered(w)' \subseteq Answered(w)
    BY <1>3 DEF Answered
  <2>2. /\ IsFiniteSet(Answered(w)) /\ Cardinality(Answered(w)) \in Nat
        /\ written[w].wrote + Cardinality(Answered(w)) <= written[w].rows /\ written[w] \in Rows
    BY <1>1, AnsweredFinite DEF RowsInv, TypeOK
  <2>3. Cardinality(Answered(w)') <= Cardinality(Answered(w)) /\ IsFiniteSet(Answered(w)')
    BY <2>1, <2>2, FS_Subset
  <2>4. Cardinality(Answered(w)') \in Nat
    BY <2>3, FS_CardinalityType
  <2> QED
    BY <2>2, <2>3, <2>4 DEF Rows
<1>6. RowsInv' /\ TrailBeforeChallenge'
  BY <1>1, <1>3, <1>5 DEF RowsInv, TrailBeforeChallenge
<1> QED
  BY <1>3, <1>4, <1>6 DEF FirstFactor

\* A refund touches its own window's count alone.
LEMMA RefundKeeps ==
  ASSUME TypeOK, FirstFactor, NEW l \in DOMAIN login, Refund(l)
  PROVE  /\ FirstFactor' /\ cap' \in Window
         /\ DOMAIN login' \subseteq Logins /\ login' \in [DOMAIN login' -> Login]
<1>1. /\ cap' = IF cap.id = login[l].win /\ cap.count > 0 THEN [cap EXCEPT !.count = @ - 1] ELSE cap
      /\ login' = [login EXCEPT ![l] = Gone] /\ UNCHANGED <<now, written>> /\ cap \in Window
      /\ cap.id = 0 => cap.start = 0
  BY DEF Refund, TypeOK, FirstFactor, CapInv
<1>2. Gone \in Login
  BY DEF Gone, Login
<1>3. /\ DOMAIN login' = DOMAIN login
      /\ \A m \in DOMAIN login : login'[m] = IF m = l THEN Gone ELSE login[m]
      /\ DOMAIN login' \subseteq Logins /\ login' \in [DOMAIN login' -> Login]
  BY <1>1, <1>2, LoginMoves
<1>4. cap' \in Window /\ cap'.id = cap.id /\ cap'.start = cap.start
  BY <1>1 DEF Window
<1> QED
  BY <1>1, <1>3, <1>4, GivenUp

\* A restart starts a window anew.
LEMMA RestartFirst ==
  ASSUME TypeOK, FirstFactor, Restart
  PROVE  /\ FirstFactor' /\ cap' \in Window
         /\ DOMAIN login' \subseteq Logins /\ login' \in [DOMAIN login' -> Login]
<1>1. /\ cap' = [cap EXCEPT !.id = 0, !.start = 0, !.count = 0] /\ UNCHANGED <<now, written>>
      /\ login' = [l \in DOMAIN login |->
           IF login[l].pc \in {"new", "challenge"} THEN login[l] ELSE Gone]
  BY DEF Restart
<1>2. cap' \in Window /\ cap'.id = 0 /\ cap'.start = 0
  BY <1>1 DEF TypeOK, Window
<1>3. DOMAIN login' = DOMAIN login /\ \A m \in DOMAIN login : login'[m] \in {login[m], Gone}
  BY <1>1
<1>4. FirstFactor' /\ \A m \in DOMAIN login : login'[m] \in Login
  BY <1>1, <1>2, <1>3, GivenUp
<1> QED
  BY <1>1, <1>2, <1>3, <1>4 DEF TypeOK

\* Time moves on.
LEMMA TickFirst ==
  ASSUME TypeOK, FirstFactor, Tick
  PROVE  FirstFactor'
<1>1. UNCHANGED <<cap, written, login>> /\ now' = now + 1 /\ now \in Nat
  BY DEF Tick, memory, TypeOK
<1>2. CapInv'
  BY <1>1, Numbers DEF FirstFactor, CapInv
<1> QED
  BY <1>1, <1>2 DEF FirstFactor, RowsInv, Answered, TrailBeforeChallenge

---------------------------------------------------------------------------
(* The log.                                                                 *)

\* The log only grows, and what its entries had before them stays.
LEMMA LogGrows ==
  ASSUME TypeOK, NEW x \in Event, log' = Append(log, x)
  PROVE  /\ log' \in Seq(Event) /\ Len(log') = Len(log) + 1 /\ Len(log) \in Nat
         /\ DOMAIN log = 1..Len(log) /\ DOMAIN log' = 1..Len(log) + 1
         /\ \A i \in 1..Len(log) : log'[i] = log[i]
         /\ log'[Len(log) + 1] = x
BY AppendProperties DEF TypeOK

\* The failures before an entry are those before it in the longer log.
LEMMA FailsStay ==
  ASSUME TypeOK, NEW x \in Event, log' = Append(log, x), NEW i \in 1..Len(log) + 1
  PROVE  FailsBefore(i)' = FailsBefore(i)
<1>1. /\ Len(log) \in Nat /\ \A j \in 1..Len(log) : log'[j] = log[j]
  BY LogGrows
<1>2. i - 1 <= Len(log) /\ i - 1 \in Nat
  BY <1>1
<1>3. \A j \in 1..i - 1 : j \in 1..Len(log) /\ \A h \in j + 1..i - 1 : h \in 1..Len(log)
  BY <1>1, <1>2
<1> QED
  BY <1>1, <1>3 DEF FailsBefore

\* The failures since the last birth or reset, after one more entry.
LEMMA RecentMoves ==
  ASSUME TypeOK, NEW x \in Event, log' = Append(log, x)
  PROVE  /\ x.kind \in Births \cup {"reset"} => Recent' = {}
         /\ x.kind = "totp_failed" => Recent' = Recent \cup {Len(log) + 1}
         /\ x.kind = "locked" => Recent' = Recent
<1> DEFINE n == Len(log) + 1
<1>1. /\ Len(log) \in Nat /\ Len(log') = n /\ log'[n] = x
      /\ \A j \in 1..Len(log) : log'[j] = log[j]
  BY LogGrows
<1>2. n \in Nat /\ n - 1 = Len(log) /\ n + 1 - 1 = n
  BY <1>1
<1> HIDE DEF n
<1>3. Recent' = {j \in 1..n : /\ log'[j].kind = "totp_failed"
                              /\ \A h \in j + 1..n : log'[h].kind \notin Births \cup {"reset"}}
  BY <1>1, <1>2 DEF Recent, FailsBefore
<1>4. Recent = {j \in 1..n - 1 : /\ log[j].kind = "totp_failed"
                                 /\ \A h \in j + 1..n - 1 : log[h].kind \notin Births \cup {"reset"}}
  BY <1>1, <1>2 DEF Recent, FailsBefore, n
<1>5. \A j \in 1..n : \/ j = n /\ log'[j] = x /\ j + 1..n = {}
                      \/ /\ j \in 1..n - 1 /\ log'[j] = log[j] /\ n \in j + 1..n
                         /\ j + 1..n = (j + 1..n - 1) \cup {n}
  BY <1>1, <1>2
<1>6. \A j \in 1..n - 1 : j \in 1..n /\ \A h \in j + 1..n - 1 : log'[h] = log[h]
  BY <1>1, <1>2
<1>7. CASE x.kind \in Births \cup {"reset"}
  <2>1. x.kind # "totp_failed"
    BY <1>7 DEF Births
  <2> QED
    BY <1>1, <1>3, <1>5, <1>7, <2>1 DEF Births
<1>8. CASE x.kind \in {"totp_failed", "locked"}
  <2>1. x.kind \notin Births \cup {"reset"}
    BY <1>8 DEF Births
  <2>2. \A j \in 1..n - 1 : j \in Recent' <=> j \in Recent
    BY <1>1, <1>3, <1>4, <1>5, <1>6, <2>1
  <2>3. n \in Recent' <=> x.kind = "totp_failed"
    <3>1. n \in 1..n /\ n + 1..n = {}
      BY <1>1, <1>2 DEF n
    <3> QED
      BY <1>1, <1>3, <3>1
  <2>4. Recent' \subseteq 1..n /\ Recent \subseteq 1..n - 1 /\ n \notin 1..n - 1
    BY <1>2, <1>3, <1>4
  <2>5. \A j \in Recent' : j = n \/ j \in 1..n - 1
    BY <1>5, <2>4
  <2>6. \A j \in Recent : j \in 1..n - 1
    BY <2>4
  <2>7. CASE x.kind = "totp_failed"
    <3>1. Recent' = Recent \cup {n}
      BY <2>2, <2>3, <2>5, <2>6, <2>7
    <3> QED
      BY <2>7, <3>1 DEF n, Births
  <2>8. CASE x.kind = "locked"
    <3>1. Recent' = Recent
      <4>1. n \notin Recent'
        BY <2>3, <2>8
      <4> QED
        BY <2>2, <2>5, <2>6, <4>1
    <3> QED
      BY <2>8, <3>1 DEF Births
  <2> QED
    BY <1>8, <2>7, <2>8
<1> QED
  BY <1>7, <1>8 DEF Event, Births

\* The failures since the last birth or reset are finitely many entries of the log.
LEMMA RecentFinite ==
  ASSUME TypeOK
  PROVE  /\ Recent \subseteq 1..Len(log) /\ Len(log) \in Nat
         /\ IsFiniteSet(Recent) /\ Cardinality(Recent) \in Nat
<1>1. Len(log) \in Nat
  BY DEF TypeOK
<1>2. Recent \subseteq 1..Len(log)
  BY <1>1 DEF Recent, FailsBefore
<1>3. IsFiniteSet(1..Len(log))
  BY <1>1, FS_Interval
<1>4. IsFiniteSet(Recent)
  BY <1>2, <1>3, FS_Subset
<1> QED
  BY <1>1, <1>2, <1>4, FS_CardinalityType

\* The lock's promise reaches the new entry when the entry kept it.
LEMMA LockHoldsOn ==
  ASSUME TypeOK, LockHolds, NEW x \in Event, log' = Append(log, x),
         x.kind = "login" /\ Cardinality(Recent) >= FailLimit =>
           \A j \in Recent : log[j].at + LockTime <= x.at
  PROVE  LockHolds'
<1>1. ASSUME NEW i \in 1..Len(log) + 1, log'[i].kind = "login",
             Cardinality(FailsBefore(i)) >= FailLimit, NEW j \in FailsBefore(i)
      PROVE  log'[j].at + LockTime <= log'[i].at
  <2>1. j \in 1..Len(log) /\ log'[j] = log[j]
    BY <1>1, LogGrows DEF FailsBefore
  <2>2. CASE i \in 1..Len(log)
    BY <1>1, <2>1, <2>2, LogGrows DEF LockHolds
  <2>3. CASE i = Len(log) + 1
    BY <1>1, <2>1, <2>3, LogGrows DEF Recent
  <2>4. i \in 1..Len(log) \/ i = Len(log) + 1
    <3>1. Len(log) \in Nat /\ i \in 1..Len(log) + 1
      BY <1>1, LogGrows
    <3> QED
      BY <3>1
  <2> QED
    BY <2>2, <2>3, <2>4
<1>2. DOMAIN log' = 1..Len(log) + 1
  BY LogGrows
<1> QED
  BY <1>1, <1>2, FailsStay DEF LockHolds

\* Nothing is spent twice when the new entry's link and code are new.
LEMMA SpentOnceOn ==
  ASSUME TypeOK, SpentOnce, NEW x \in Event, log' = Append(log, x),
         \A i \in 1..Len(log) :
           x.kind = "enrollment" /\ log[i].kind = "enrollment" => log[i].link # x.link,
         \A i \in 1..Len(log) :
           /\ x.kind \in Births /\ log[i].kind \in Births
           /\ \A h \in i..Len(log) : log[h].kind # "reset"
           => log[i].step < x.step
  PROVE  SpentOnce'
<1>1. DOMAIN log' = 1..Len(log) + 1 /\ DOMAIN log = 1..Len(log) /\ Len(log) \in Nat
  BY LogGrows
<1>2. ASSUME NEW i \in 1..Len(log) + 1, NEW j \in 1..Len(log) + 1, i < j
      PROVE  /\ log'[i].kind = "enrollment" /\ log'[j].kind = "enrollment" =>
                  log'[i].link # log'[j].link
             /\ log'[i].kind \in Births /\ log'[j].kind \in Births
                /\ (\A h \in i..j : log'[h].kind # "reset") => log'[i].step < log'[j].step
  <2>1. i \in 1..Len(log) /\ log'[i] = log[i]
    BY <1>1, <1>2, LogGrows
  <2>2. CASE j \in 1..Len(log)
    <3>1. /\ log'[j] = log[j] /\ \A h \in i..j : log'[h] = log[h]
      BY <1>1, <2>1, <2>2, LogGrows
    <3> QED
      BY <1>1, <1>2, <2>1, <2>2, <3>1 DEF SpentOnce
  <2>3. CASE j = Len(log) + 1
    <3>1. log'[j] = x /\ \A h \in i..Len(log) : h \in i..j /\ log'[h] = log[h]
      BY <1>1, <2>1, <2>3, LogGrows
    <3> QED
      BY <2>1, <3>1
  <2> QED
    BY <1>1, <2>2, <2>3
<1> QED
  BY <1>1, <1>2 DEF SpentOnce

---------------------------------------------------------------------------
(* The database's functions.                                                *)

\* A session: its code is newer than the last, and the lock was open.
LEMMA OpenSessionKeeps ==
  ASSUME TypeOK, Database, NEW a \in DOMAIN attempt, OpenSession(a)
  PROVE  Database' /\ acct' \in Account /\ log' \in Seq(Event)
<1>1. /\ LockInv /\ LockHolds /\ StepInv /\ LinkInv /\ SpentOnce
      /\ now' = now /\ scripts' = scripts /\ enroll' = enroll
      /\ acct \in Account /\ now \in Nat /\ log \in Seq(Event) /\ attempt[a] \in Request
  BY DEF Database, OpenSession, TypeOK
<1>2. CASE UNCHANGED <<acct, log>>
  BY <1>1, <1>2, DatabaseUntouched DEF db, LinkInv
<1>3. CASE /\ Opens(a)
           /\ acct' = [acct EXCEPT !.last = attempt[a].step, !.failures = 0, !.until = 0]
           /\ log' = Born("login", attempt[a].link, attempt[a].step)
  <2>1. PICK x : x = [kind |-> "login", at |-> now, link |-> attempt[a].link, step |-> attempt[a].step]
    OBVIOUS
  <2>2. /\ x \in Event /\ x.kind = "login" /\ x.at = now /\ x.step = attempt[a].step
        /\ log' = Append(log, x)
    BY <1>1, <1>3, <2>1 DEF Event, Request, Born
  <2>3. /\ acct' \in Account /\ acct'.last = x.step /\ acct'.failures = 0
        /\ acct'.status = "active" /\ acct.status = "active"
        /\ acct'.link = acct.link /\ acct'.issued = acct.issued
        /\ acct.last < x.step /\ (acct.failures < FailLimit \/ acct.until <= now)
    BY <1>1, <1>3, <2>2 DEF Account, Request, Opens, Unlocked
  <2>4. /\ log' \in Seq(Event) /\ Len(log') = Len(log) + 1 /\ Len(log) \in Nat
        /\ \A i \in 1..Len(log) : log'[i] = log[i] /\ log[i] \in Event
        /\ log'[Len(log) + 1] = x
    BY <2>2, LogGrows DEF TypeOK
  <2>5. LockInv'
    <3>1. Recent' = {}
      BY <2>2, RecentMoves DEF Births
    <3>2. \A i \in 1..Len(log') : log'[i].at <= now
      BY <1>1, <2>2, <2>4 DEF LockInv
    <3> QED
      BY <1>1, <2>3, <3>1, <3>2, FS_EmptySet, Numbers DEF LockInv
  <2>6. LockHolds'
    <3>1. ASSUME Cardinality(Recent) >= FailLimit, NEW j \in Recent
          PROVE  log[j].at + LockTime <= now
      <4>1. acct.failures >= FailLimit
        BY <1>1, <2>3, <3>1, RecentFinite, Numbers DEF LockInv, Account
      <4>2. log[j].at + LockTime <= acct.until /\ acct.until <= now
        BY <1>1, <2>3, <3>1, <4>1, Numbers DEF LockInv, Account
      <4>3. log[j].at \in Nat
        BY <2>4, RecentFinite DEF Event
      <4> QED
        BY <1>1, <4>2, <4>3, Numbers DEF Account
    <3> QED
      BY <1>1, <2>2, <3>1, LockHoldsOn
  <2>7. ASSUME NEW i \in 1..Len(log), log[i].kind \in Births,
               \A h \in i..Len(log) : log[h].kind # "reset"
        PROVE  log[i].step <= acct.last /\ log[i].step < x.step /\ log[i].step <= x.step
    <3>1. log[i].step <= acct.last
      BY <1>1, <2>7 DEF StepInv
    <3> QED
      BY <1>1, <2>2, <2>3, <2>4, <3>1 DEF Account, Event
  <2>8. StepInv'
    <3>1. ASSUME NEW i \in 1..Len(log'), log'[i].kind \in Births,
                 \A h \in i..Len(log') : log'[h].kind # "reset"
          PROVE  log'[i].step <= x.step
      <4>1. CASE i \in 1..Len(log)
        <5>1. \A h \in i..Len(log) : h \in i..Len(log') /\ log'[h] = log[h]
          BY <2>4, <4>1
        <5> QED
          BY <2>4, <2>7, <3>1, <4>1, <5>1
      <4>2. CASE i = Len(log) + 1
        BY <2>2, <2>4, <4>2 DEF Event
      <4> QED
        BY <2>4, <4>1, <4>2
    <3> QED
      BY <2>3, <3>1 DEF StepInv
  <2>9. LinkInv'
    BY <1>1, <2>2, <2>3, <2>4 DEF LinkInv
  <2>10. SpentOnce'
    BY <1>1, <2>2, <2>7, SpentOnceOn
  <2> QED
    BY <2>3, <2>4, <2>5, <2>6, <2>8, <2>9, <2>10 DEF Database
<1> QED
  BY <1>1, <1>2, <1>3 DEF OpenSession

\* A refusal counts while the account is active, and locks it at the limit.
LEMMA RecordRefusalKeeps ==
  ASSUME TypeOK, Database, NEW a \in DOMAIN attempt, RecordRefusal(a)
  PROVE  Database' /\ acct' \in Account /\ log' \in Seq(Event)
<1>1. /\ LockInv /\ LockHolds /\ StepInv /\ LinkInv /\ SpentOnce
      /\ now' = now /\ scripts' = scripts /\ enroll' = enroll
      /\ acct \in Account /\ now \in Nat /\ log \in Seq(Event)
      /\ attempt[a].pc \in {"totp_failed", "locked"}
  BY DEF Database, RecordRefusal, TypeOK
<1>2. PICK x : x = [kind |-> attempt[a].pc, at |-> now, link |-> NoLink, step |-> 0]
  OBVIOUS
<1>3. /\ x \in Event /\ x.kind = attempt[a].pc /\ x.at = now /\ log' = Append(log, x)
  BY <1>1, <1>2 DEF Event, Links, Born, RecordRefusal
<1>4. /\ log' \in Seq(Event) /\ Len(log') = Len(log) + 1 /\ Len(log) \in Nat
      /\ \A i \in 1..Len(log) : log'[i] = log[i] /\ log[i] \in Event
      /\ log'[Len(log) + 1] = x
  BY <1>3, LogGrows DEF TypeOK
<1>5. /\ acct' \in Account /\ acct'.status = acct.status /\ acct'.last = acct.last
      /\ acct'.link = acct.link /\ acct'.issued = acct.issued
      /\ \/ x.kind = "totp_failed" /\ acct.status = "active" /\ acct'.failures = acct.failures + 1
            /\ acct'.until = IF acct.failures + 1 >= FailLimit THEN now + LockTime ELSE acct.until
         \/ ~(x.kind = "totp_failed" /\ acct.status = "active") /\ acct' = acct
  <2>1. CASE x.kind = "totp_failed" /\ acct.status = "active"
    <3>1. acct' = [acct EXCEPT !.failures = @ + 1,
                               !.until = IF acct.failures + 1 >= FailLimit
                                         THEN now + LockTime ELSE @]
      BY <1>3, <2>1 DEF RecordRefusal
    <3>2. PICK u \in Nat : u = IF acct.failures + 1 >= FailLimit THEN now + LockTime ELSE acct.until
      BY <1>1, Numbers DEF Account
    <3>3. acct' = [acct EXCEPT !.failures = acct.failures + 1, !.until = u]
      BY <3>1, <3>2
    <3>4. acct' \in Account /\ acct'.failures = acct.failures + 1 /\ acct'.until = u
      <4>1. PICK f \in Nat : f = acct.failures + 1
        BY <1>1 DEF Account
      <4>2. acct' = [acct EXCEPT !.failures = f, !.until = u] /\ acct \in Account
        BY <1>1, <3>3, <4>1
      <4>3. acct' \in Account /\ acct'.failures = f /\ acct'.until = u
        BY <4>2 DEF Account
      <4> QED
        BY <4>1, <4>3
    <3>5. /\ acct'.status = acct.status /\ acct'.last = acct.last
          /\ acct'.link = acct.link /\ acct'.issued = acct.issued
      BY <1>1, <3>3 DEF Account
    <3> QED
      BY <2>1, <3>2, <3>4, <3>5
  <2>2. CASE ~(x.kind = "totp_failed" /\ acct.status = "active")
    BY <1>1, <1>3, <2>2 DEF RecordRefusal
  <2> QED
    BY <2>1, <2>2
<1>6. \A i \in 1..Len(log') : log'[i].at <= now
  BY <1>1, <1>3, <1>4 DEF LockInv
<1>7. LockInv'
  <2>1. CASE acct.status # "active"
    BY <1>1, <1>5, <1>6, <2>1 DEF LockInv
  <2>2. CASE acct.status = "active" /\ x.kind = "locked"
    <3>1. Recent' = Recent /\ acct' = acct
      BY <1>3, <1>5, <2>2, RecentMoves
    <3>2. \A j \in Recent : log'[j] = log[j]
      BY <1>4, RecentFinite
    <3> QED
      BY <1>1, <1>6, <3>1, <3>2 DEF LockInv
  <2>3. CASE acct.status = "active" /\ x.kind = "totp_failed"
    <3>1. Recent' = Recent \cup {Len(log) + 1}
      BY <1>3, <2>3, RecentMoves
    <3>2. Cardinality(Recent') \in {Cardinality(Recent), Cardinality(Recent) + 1}
      BY <3>1, RecentFinite, FS_AddElement
    <3>3. Cardinality(Recent') <= acct'.failures
      <4>1. Cardinality(Recent) <= acct.failures /\ acct.failures \in Nat
        BY <1>1, <2>3 DEF LockInv, Account
      <4> QED
        BY <1>5, <2>3, <3>2, <4>1, RecentFinite
    <3>4. ASSUME acct'.failures >= FailLimit, NEW j \in Recent'
          PROVE  log'[j].at + LockTime <= acct'.until
      <4>1. acct'.until = now + LockTime
        BY <1>5, <2>3, <3>4
      <4>2. j \in 1..Len(log')
        BY <1>4, <3>1, RecentFinite
      <4>3. log'[j].at <= now /\ log'[j] \in Event
        BY <1>4, <1>6, <4>2
      <4> QED
        BY <1>1, <4>1, <4>3, Numbers DEF Event
    <3> QED
      BY <1>1, <1>6, <3>3, <3>4 DEF LockInv
  <2> QED
    BY <1>1, <1>3, <2>1, <2>2, <2>3
<1>8. LockHolds' /\ SpentOnce'
  BY <1>1, <1>3, LockHoldsOn, SpentOnceOn DEF Births
<1>9. StepInv'
  <2>1. ASSUME NEW i \in 1..Len(log'), log'[i].kind \in Births,
               \A h \in i..Len(log') : log'[h].kind # "reset"
        PROVE  acct.status = "active" /\ log'[i].step <= acct.last
    <3>1. i \in 1..Len(log) /\ \A h \in i..Len(log) : h \in i..Len(log') /\ log'[h] = log[h]
      BY <1>1, <1>3, <1>4, <2>1 DEF Births
    <3> QED
      BY <1>1, <1>4, <2>1, <3>1 DEF StepInv
  <2> QED
    BY <1>5, <2>1 DEF StepInv
<1>10. LinkInv'
  BY <1>1, <1>3, <1>4, <1>5 DEF LinkInv
<1> QED
  BY <1>4, <1>5, <1>7, <1>8, <1>9, <1>10 DEF Database

\* An enrollment spends the link in place, which no birth since its reset has used.
LEMMA EnrollKeeps ==
  ASSUME TypeOK, Database, NEW e \in DOMAIN enroll, Enroll(e)
  PROVE  Database' /\ acct' \in Account /\ log' \in Seq(Event)
<1>1. /\ LockInv /\ LockHolds /\ StepInv /\ LinkInv /\ SpentOnce
      /\ now' = now /\ scripts' = scripts /\ enroll[e].pc = "open"
      /\ acct \in Account /\ now \in Nat /\ log \in Seq(Event) /\ enroll[e] \in Request
  BY DEF Database, Enroll, TypeOK
<1>2. \A d \in DOMAIN enroll' : enroll'[d].pc = "open" => enroll'[d].link \in Scripts
  <2>1. enroll' = [enroll EXCEPT ![e] = [Idle EXCEPT !.pc = "gone"]]
    BY DEF Enroll
  <2>2. [Idle EXCEPT !.pc = "gone"].pc = "gone"
    BY DEF Idle
  <2>3. enroll \in [DOMAIN enroll -> Request]
    BY DEF TypeOK
  <2> QED
    BY <1>1, <2>1, <2>2, <2>3 DEF LinkInv
<1>3. CASE UNCHANGED <<acct, log>>
  BY <1>1, <1>2, <1>3, DatabaseUntouched DEF db
<1>4. CASE /\ acct.status = "pending" /\ acct.link = enroll[e].link
           /\ acct' = [acct EXCEPT !.status = "active", !.last = enroll[e].step,
                                   !.failures = 0, !.until = 0]
           /\ log' = Born("enrollment", enroll[e].link, enroll[e].step)
  <2>1. PICK x : x = [kind |-> "enrollment", at |-> now, link |-> enroll[e].link,
                      step |-> enroll[e].step]
    OBVIOUS
  <2>2. /\ x \in Event /\ x.kind = "enrollment" /\ x.at = now /\ x.link = acct.link
        /\ x.step = enroll[e].step /\ log' = Append(log, x) /\ acct.link # NoLink
    BY <1>1, <1>4, <2>1, Numbers DEF Event, Request, Born, LinkInv
  <2>3. /\ acct' \in Account /\ acct'.status = "active" /\ acct'.last = x.step
        /\ acct'.failures = 0 /\ acct'.link = acct.link /\ acct'.issued = acct.issued
        /\ acct.status = "pending"
    BY <1>1, <1>4, <2>2 DEF Account, Request
  <2>4. /\ log' \in Seq(Event) /\ Len(log') = Len(log) + 1 /\ Len(log) \in Nat
        /\ \A i \in 1..Len(log) : log'[i] = log[i] /\ log[i] \in Event
        /\ log'[Len(log) + 1] = x
    BY <2>2, LogGrows DEF TypeOK
  <2>5. LockInv'
    <3>1. Recent' = {}
      BY <2>2, RecentMoves DEF Births
    <3>2. \A i \in 1..Len(log') : log'[i].at <= now
      BY <1>1, <2>2, <2>4 DEF LockInv
    <3> QED
      BY <1>1, <2>3, <3>1, <3>2, FS_EmptySet, Numbers DEF LockInv
  <2>6. LockHolds'
    BY <1>1, <2>2, LockHoldsOn
  <2>7. \A i \in 1..Len(log) : log[i].kind \in Births => \E h \in i..Len(log) : log[h].kind = "reset"
    BY <1>1, <2>3 DEF StepInv
  <2>8. StepInv'
    <3>1. ASSUME NEW i \in 1..Len(log'), log'[i].kind \in Births,
                 \A h \in i..Len(log') : log'[h].kind # "reset"
          PROVE  log'[i].step <= x.step
      <4>1. CASE i \in 1..Len(log)
        <5>1. \A h \in i..Len(log) : h \in i..Len(log') /\ log'[h] = log[h]
          BY <2>4, <4>1
        <5> QED
          BY <2>4, <2>7, <3>1, <4>1, <5>1
      <4>2. CASE i = Len(log) + 1
        BY <2>2, <2>4, <4>2 DEF Event
      <4> QED
        BY <2>4, <4>1, <4>2
    <3> QED
      BY <2>3, <3>1 DEF StepInv
  <2>9. LinkInv'
    <3>1. ASSUME NEW i \in 1..Len(log'), log'[i].kind = "enrollment"
          PROVE  /\ log'[i].link \in DOMAIN scripts /\ scripts[log'[i].link] > 0
                 /\ scripts[log'[i].link] <= acct.issued
      BY <1>1, <2>2, <2>4, <3>1 DEF LinkInv
    <3> QED
      BY <1>1, <1>2, <2>2, <2>3, <3>1 DEF LinkInv
  <2>10. SpentOnce'
    <3>1. \A i \in 1..Len(log) : log[i].kind = "enrollment" => log[i].link # x.link
      BY <1>1, <2>2, <2>3 DEF LinkInv
    <3> QED
      BY <1>1, <2>2, <2>7, <3>1, SpentOnceOn
  <2> QED
    BY <2>3, <2>4, <2>5, <2>6, <2>8, <2>9, <2>10 DEF Database
<1> QED
  BY <1>1, <1>3, <1>4 DEF Enroll

\* A reset puts a link in place that was never there before.
LEMMA ResetKeeps ==
  ASSUME TypeOK, Database, NEW k \in DOMAIN scripts, Reset(k)
  PROVE  Database' /\ acct' \in Account /\ log' \in Seq(Event)
<1>1. /\ LockInv /\ LockHolds /\ StepInv /\ LinkInv /\ SpentOnce
      /\ now' = now /\ scripts' = scripts /\ enroll' = enroll
      /\ acct \in Account /\ now \in Nat /\ log \in Seq(Event)
      /\ k \in Scripts /\ scripts[k] \in Nat /\ scripts[k] > 0
      /\ acct.link # k /\ (acct.link # NoLink => acct.issued < scripts[k])
  BY DEF Database, Reset, Applies, TypeOK
<1>2. PICK x : x = [kind |-> "reset", at |-> now, link |-> k, step |-> 0]
  OBVIOUS
<1>3. x \in Event /\ x.kind = "reset" /\ x.at = now /\ log' = Append(log, x)
  BY <1>1, <1>2 DEF Event, Links, Born, Reset
<1>4. /\ log' \in Seq(Event) /\ Len(log') = Len(log) + 1 /\ Len(log) \in Nat
      /\ \A i \in 1..Len(log) : log'[i] = log[i] /\ log[i] \in Event
      /\ log'[Len(log) + 1] = x
  BY <1>3, LogGrows DEF TypeOK
<1>5. /\ acct' \in Account /\ acct'.status = "pending" /\ acct'.link = k /\ acct'.issued = now
  <2>1. acct' = [acct EXCEPT !.status = "pending", !.failures = 0, !.until = 0,
                             !.link = k, !.issued = now]
    BY DEF Reset
  <2> QED
    BY <1>1, <2>1 DEF Account, Links
<1>6. LockInv'
  BY <1>1, <1>3, <1>4, <1>5 DEF LockInv
<1>7. LockHolds' /\ SpentOnce'
  BY <1>1, <1>3, LockHoldsOn, SpentOnceOn DEF Births
<1>8. StepInv'
  <2>1. \A i \in 1..Len(log') : Len(log) + 1 \in i..Len(log')
    BY <1>4
  <2> QED
    BY <1>3, <1>4, <2>1 DEF StepInv
<1>9. LinkInv'
  <2>1. ASSUME NEW i \in 1..Len(log'), log'[i].kind = "enrollment"
        PROVE  /\ log'[i].link \in DOMAIN scripts /\ scripts[log'[i].link] > 0
               /\ scripts[log'[i].link] <= now /\ log'[i].link # k
    <3>1. /\ i \in 1..Len(log) /\ log'[i] = log[i]
      BY <1>3, <1>4, <2>1
    <3>2. /\ log[i].link \in DOMAIN scripts /\ scripts[log[i].link] > 0
          /\ scripts[log[i].link] <= acct.issued /\ acct.link # NoLink
          /\ scripts[log[i].link] <= now
      BY <1>1, <2>1, <3>1 DEF LinkInv
    <3>3. log[i].link # k
      BY <1>1, <3>2 DEF Account
    <3> QED
      BY <3>1, <3>2, <3>3
  <2> QED
    BY <1>1, <1>5, <2>1, Numbers DEF LinkInv
<1> QED
  BY <1>4, <1>5, <1>6, <1>7, <1>8, <1>9 DEF Database

\* A script made now is no link in place yet.
LEMMA GenerateKeeps ==
  ASSUME TypeOK, Database, NEW k \in DOMAIN scripts, Generate(k)
  PROVE  /\ Database' /\ DOMAIN scripts' \subseteq Scripts
         /\ scripts' \in [DOMAIN scripts' -> Nat]
<1>1. /\ scripts[k] = 0 /\ scripts' = [scripts EXCEPT ![k] = now]
      /\ UNCHANGED <<now, acct, log, enroll>> /\ now \in Nat
      /\ scripts \in [DOMAIN scripts -> Nat] /\ DOMAIN scripts \subseteq Scripts
  BY DEF Generate, TypeOK
<1>2. /\ DOMAIN scripts' = DOMAIN scripts
      /\ \A m \in DOMAIN scripts : scripts'[m] = IF m = k THEN now ELSE scripts[m]
      /\ scripts' \in [DOMAIN scripts' -> Nat]
  BY <1>1
<1>3. LinkInv'
  <2>1. \A m \in DOMAIN scripts : scripts[m] > 0 => scripts'[m] = scripts[m]
    BY <1>1, <1>2
  <2>2. \A m \in DOMAIN scripts' : scripts'[m] <= now
    BY <1>1, <1>2 DEF Database, LinkInv
  <2> QED
    BY <1>1, <1>2, <2>1, <2>2 DEF Database, LinkInv
<1>4. LockInv' /\ LockHolds' /\ StepInv' /\ SpentOnce'
  BY <1>1 DEF Database, LockInv, LockHolds, Recent, FailsBefore, StepInv, SpentOnce
<1> QED
  BY <1>1, <1>2, <1>3, <1>4 DEF Database

\* Time only makes scripts and entries older.
LEMMA TickDatabase ==
  ASSUME TypeOK, Database, Tick
  PROVE  Database'
<1>1. UNCHANGED <<acct, scripts, log, enroll>> /\ now' = now + 1 /\ now \in Nat
  BY DEF Tick, db, TypeOK
<1>2. LinkInv'
  <2>1. \A k \in DOMAIN scripts : scripts[k] <= now + 1
    BY <1>1 DEF Database, LinkInv, TypeOK
  <2> QED
    BY <1>1, <2>1 DEF Database, LinkInv
<1>3. LockInv'
  <2>1. \A i \in 1..Len(log) : log[i] \in Event
    BY DEF TypeOK
  <2>2. \A i \in 1..Len(log) : log[i].at <= now + 1
    BY <1>1, <2>1 DEF Database, LockInv, Event
  <2>3. Recent' = Recent
    BY <1>1 DEF Recent, FailsBefore
  <2> QED
    BY <1>1, <2>2, <2>3 DEF Database, LockInv
<1>4. LockHolds' /\ StepInv' /\ SpentOnce'
  BY <1>1 DEF Database, LockHolds, FailsBefore, StepInv, SpentOnce
<1> QED
  BY <1>2, <1>3, <1>4 DEF Database

\* An enrollment posted holds a script's link.
LEMMA PostKeeps ==
  ASSUME TypeOK, Database, NEW e \in DOMAIN enroll, Post(e)
  PROVE  Database' /\ enroll' \in [DOMAIN enroll' -> Request]
<1>1. PICK k \in DOMAIN scripts, s \in Around(now) :
        enroll' = [enroll EXCEPT ![e] = [Idle EXCEPT !.pc = "open", !.link = k, !.step = s]]
  BY DEF Post
<1>2. PICK q : q = [Idle EXCEPT !.pc = "open", !.link = k, !.step = s]
  OBVIOUS
<1>3. k \in Scripts /\ s \in Nat /\ enroll \in [DOMAIN enroll -> Request]
  BY DEF TypeOK, Around
<1>4. q \in Request /\ q.link = k
  BY <1>2, <1>3 DEF Idle, Request, Links
<1>5. enroll' = [enroll EXCEPT ![e] = q]
  BY <1>1, <1>2
<1>6. \A d \in DOMAIN enroll' : enroll'[d].pc = "open" => enroll'[d].link \in Scripts
  BY <1>3, <1>4, <1>5 DEF Database, LinkInv
<1>7. Database'
  BY <1>6, DatabaseUntouched DEF Post
<1> QED
  BY <1>3, <1>4, <1>5, <1>7

---------------------------------------------------------------------------
(* The theorems.                                                            *)

\* The first state has nothing to account for.
LEMMA InitHolds == Init => IInv
<1> SUFFICES ASSUME Init PROVE IInv
  OBVIOUS
<1>1. /\ now = Period /\ now \in Nat /\ log = <<>> /\ written = <<>> /\ restarts = 0
      /\ acct.status = "active" /\ acct.link = NoLink /\ acct.failures = 0 /\ acct \in Account
      /\ cap = [count |-> 0, start |-> 0, id |-> 0] /\ budget = [count |-> 0, start |-> 0]
  BY Numbers DEF Init, Account, Links
<1>2. PICK c \in Crowds : /\ login \in Of(Logins, c.logins, [Gone EXCEPT !.pc = "new"])
                          /\ attempt \in Of(Attempts, c.attempts, Idle)
                          /\ enroll \in Of(Enrolls, c.enrolls, Idle)
                          /\ scripts \in Of(Scripts, c.scripts, 0)
  BY DEF Init
<1>3. /\ DOMAIN login \subseteq Logins /\ DOMAIN scripts \subseteq Scripts
      /\ login = [l \in DOMAIN login |-> [Gone EXCEPT !.pc = "new"]]
      /\ attempt = [a \in DOMAIN attempt |-> Idle]
      /\ enroll = [e \in DOMAIN enroll |-> Idle]
      /\ scripts = [k \in DOMAIN scripts |-> 0]
  BY <1>2, Zenon DEF Of, kSubset
<1>4. /\ [Gone EXCEPT !.pc = "new"] \in Login /\ [Gone EXCEPT !.pc = "new"].pc = "new"
      /\ Idle \in Request /\ Idle.pc = "new"
  BY DEF Gone, Login, Idle, Request, Links
<1>5. TypeOK
  <2>1. log \in Seq(Event) /\ written \in Seq(Rows) /\ cap \in Window /\ budget \in Count
    BY <1>1 DEF Window, Count
  <2>2. /\ login \in [DOMAIN login -> Login] /\ attempt \in [DOMAIN attempt -> Request]
        /\ enroll \in [DOMAIN enroll -> Request] /\ scripts \in [DOMAIN scripts -> Nat]
    BY <1>3, <1>4
  <2> QED
    BY <1>1, <1>3, <2>1, <2>2 DEF TypeOK
<1>6. \A l \in DOMAIN login : login[l].pc = "new"
  BY <1>3, <1>4
<1>7. FirstFactor
  BY <1>1, <1>6, Numbers DEF FirstFactor, CapInv, RowsInv, TrailBeforeChallenge
<1>8. Database
  <2>1. Recent = {}
    BY <1>1 DEF Recent, FailsBefore
  <2>2. DOMAIN log = {} /\ 1..Len(log) = {}
    BY <1>1
  <2>3. LockInv /\ LockHolds
    BY <1>1, <2>1, <2>2, FS_EmptySet, Numbers DEF LockInv, LockHolds
  <2>4. StepInv /\ SpentOnce
    BY <2>2 DEF StepInv, SpentOnce
  <2>5. \A e \in DOMAIN enroll : enroll[e].pc = "new"
    BY <1>3, <1>4
  <2>6. LinkInv
    BY <1>1, <1>3, <2>2, <2>5 DEF LinkInv
  <2> QED
    BY <2>3, <2>4, <2>6 DEF Database
<1> QED
  BY <1>5, <1>7, <1>8 DEF IInv

\* The requests' steps that touch neither part: the attempts', one by one.
LEMMA AttemptMoves ==
  ASSUME TypeOK, NEW a \in DOMAIN attempt, Present(a) \/ Check(a) \/ AttemptFails(a) \/ Ends(a)
  PROVE  attempt' \in [DOMAIN attempt' -> Request]
<1>1. /\ attempt \in [DOMAIN attempt -> Request] /\ attempt[a] \in Request
      /\ acct \in Account /\ now \in Nat
  BY DEF TypeOK
<1>2. [Idle EXCEPT !.pc = "gone"] \in Request
  BY DEF Idle, Request, Links
<1>3. CASE Ends(a)
  BY <1>1, <1>2, <1>3 DEF Ends
<1>4. ASSUME NEW q \in Request, attempt' = [attempt EXCEPT ![a] = q]
      PROVE  attempt' \in [DOMAIN attempt' -> Request]
  BY <1>1, <1>4
<1>5. CASE Present(a)
  <2>1. PICK q : q = [attempt[a] EXCEPT !.pc = IF Charged(budget).count > CodeLimit THEN "gone" ELSE "read"]
    OBVIOUS
  <2>2. q \in Request
    BY <1>1, <2>1 DEF Request
  <2>3. attempt' = [attempt EXCEPT ![a] = q]
    BY <1>5, <2>1 DEF Present
  <2> QED
    BY <1>4, <2>2, <2>3
<1>6. CASE Check(a)
  <2>1. PICK read : read = [attempt[a] EXCEPT !.link = acct.link, !.label = acct.until > now]
    OBVIOUS
  <2>2. read \in Request
    <3>0. (acct.until > now) \in BOOLEAN
      OBVIOUS
    <3>1. PICK locked \in BOOLEAN : locked = (acct.until > now)
      BY <3>0, Zenon
    <3>2. acct.link \in Links /\ read = [attempt[a] EXCEPT !.link = acct.link, !.label = locked]
      BY <1>1, <2>1, <3>1 DEF Account
    <3> QED
      BY <1>1, <3>2 DEF Request
  <2>3. CASE Ends(a)
    BY <1>3, <2>3
  <2>4. CASE attempt' = [attempt EXCEPT ![a] = [read EXCEPT !.pc = "totp_failed"]]
    <3>1. [read EXCEPT !.pc = "totp_failed"] \in Request
      BY <2>2 DEF Request
    <3> QED
      BY <1>1, <2>4, <3>1
  <2>5. ASSUME NEW s \in Around(now),
               attempt' = [attempt EXCEPT ![a] = [read EXCEPT !.pc = "open", !.step = s]]
        PROVE  attempt' \in [DOMAIN attempt' -> Request]
    <3>1. s \in Nat
      BY <1>1 DEF Around
    <3>2. [read EXCEPT !.pc = "open", !.step = s] \in Request
      BY <2>2, <3>1 DEF Request
    <3> QED
      BY <1>1, <2>5, <3>2
  <2> QED
    BY <1>6, <2>1, <2>3, <2>4, <2>5, Zenon DEF Check
<1>7. CASE AttemptFails(a)
  BY <1>3, <1>7 DEF AttemptFails
<1> QED
  BY <1>3, <1>5, <1>6, <1>7

\* A failed code's step, when it is not the end, only changes the request's place.
LEMMA OpenSessionMoves ==
  ASSUME TypeOK, NEW a \in DOMAIN attempt, OpenSession(a) \/ RecordRefusal(a)
  PROVE  attempt' \in [DOMAIN attempt' -> Request]
<1>1. CASE Ends(a)
  BY <1>1, AttemptMoves
<1>2. CASE attempt' = [attempt EXCEPT ![a].pc =
                        IF attempt[a].label THEN "locked" ELSE "totp_failed"]
  <2>1. PICK q : q = [attempt[a] EXCEPT !.pc = IF attempt[a].label THEN "locked" ELSE "totp_failed"]
    OBVIOUS
  <2>2. q \in Request /\ attempt' = [attempt EXCEPT ![a] = q]
    BY <1>2, <2>1 DEF TypeOK, Request
  <2> QED
    BY <2>2 DEF TypeOK
<1> QED
  BY <1>1, <1>2 DEF OpenSession, RecordRefusal

\* A login's step.
LEMMA FirstStepKeeps ==
  ASSUME IInv, NEW l \in DOMAIN login, FirstStep(l)
  PROVE  IInv'
<1>1. UNCHANGED <<now, acct, scripts, log, budget, attempt, enroll, restarts>>
  BY DEF FirstStep, Password, RecordPasswordOK, Mint, Refund, db
<1>2. /\ FirstFactor' /\ cap' \in Window /\ written' \in Seq(Rows)
      /\ DOMAIN login' \subseteq Logins /\ login' \in [DOMAIN login' -> Login]
  <2>1. TypeOK /\ FirstFactor /\ cap \in Window /\ written \in Seq(Rows)
    BY DEF IInv, TypeOK
  <2>2. CASE Password(l)
    BY <2>1, <2>2, PasswordKeeps
  <2>3. CASE RecordPasswordOK(l)
    BY <2>1, <2>3, RecordKeeps DEF RecordPasswordOK
  <2>4. CASE Mint(l)
    BY <2>1, <2>4, MintKeeps DEF Mint
  <2>5. CASE Refund(l)
    BY <2>1, <2>5, RefundKeeps DEF Refund
  <2> QED
    BY <2>2, <2>3, <2>4, <2>5 DEF FirstStep
<1>3. Database'
  BY <1>1, DatabaseUntouched DEF IInv, Database, LinkInv, db
<1>4. TypeOK'
  BY <1>1, <1>2 DEF IInv, TypeOK
<1> QED
  BY <1>2, <1>3, <1>4 DEF IInv

\* An attempt's step.
LEMMA SecondStepKeeps ==
  ASSUME IInv, NEW a \in DOMAIN attempt, SecondStep(a)
  PROVE  IInv'
<1>1. UNCHANGED <<now, scripts, cap, written, login, enroll, restarts>>
  BY DEF SecondStep, Present, Check, OpenSession, RecordRefusal, AttemptFails, db, memory
<1>2. FirstFactor'
  BY <1>1, FirstUntouched DEF IInv
<1>3. attempt' \in [DOMAIN attempt' -> Request]
  BY AttemptMoves, OpenSessionMoves DEF IInv, SecondStep
<1>4. budget' \in Count
  <2>1. budget \in Count /\ now \in Nat
    BY DEF IInv, TypeOK
  <2>2. CASE budget' = Charged(budget)
    <3>1. CASE budget' = [budget EXCEPT !.count = 1, !.start = now]
      BY <2>1, <3>1 DEF Count
    <3>2. CASE budget' = [budget EXCEPT !.count = @ + 1]
      BY <2>1, <3>2 DEF Count
    <3> QED
      BY <2>2, <3>1, <3>2 DEF Charged
  <2> QED
    BY <2>1, <2>2 DEF SecondStep, Present, Check, OpenSession, RecordRefusal, AttemptFails, memory
<1>5. Database' /\ acct' \in Account /\ log' \in Seq(Event)
  <2>1. TypeOK /\ Database
    BY DEF IInv
  <2>2. CASE UNCHANGED db
    BY <1>1, <2>1, <2>2, DatabaseUntouched DEF Database, LinkInv, TypeOK, db
  <2>3. CASE OpenSession(a) \/ RecordRefusal(a)
    BY <2>1, <2>3, OpenSessionKeeps, RecordRefusalKeeps
  <2> QED
    BY <2>2, <2>3 DEF SecondStep, Present, Check, AttemptFails
<1>6. TypeOK'
  BY <1>1, <1>3, <1>4, <1>5 DEF IInv, TypeOK
<1> QED
  BY <1>2, <1>5, <1>6 DEF IInv

\* A step of an enrollment or a script.
LEMMA LinkStepKeeps ==
  ASSUME IInv,
         \/ \E e \in DOMAIN enroll : Post(e) \/ Enroll(e)
         \/ \E k \in DOMAIN scripts : Generate(k) \/ Reset(k)
  PROVE  IInv'
<1>1. UNCHANGED <<now, cap, written, budget, login, attempt, restarts>>
  BY DEF Post, Enroll, Generate, Reset, memory, db
<1>2. FirstFactor'
  BY <1>1, FirstUntouched DEF IInv
<1>3. /\ TypeOK /\ Database /\ acct \in Account /\ log \in Seq(Event)
      /\ DOMAIN scripts \subseteq Scripts /\ scripts \in [DOMAIN scripts -> Nat]
      /\ enroll \in [DOMAIN enroll -> Request]
  BY DEF IInv, TypeOK
<1>4. /\ Database' /\ acct' \in Account /\ log' \in Seq(Event)
      /\ DOMAIN scripts' \subseteq Scripts /\ scripts' \in [DOMAIN scripts' -> Nat]
      /\ enroll' \in [DOMAIN enroll' -> Request]
  <2>1. ASSUME NEW e \in DOMAIN enroll, Post(e) PROVE <1>4!:
    BY <1>3, <2>1, PostKeeps DEF Post, db
  <2>2. ASSUME NEW e \in DOMAIN enroll, Enroll(e) PROVE <1>4!:
    <3>1. [Idle EXCEPT !.pc = "gone"] \in Request
      BY DEF Idle, Request, Links
    <3>2. enroll' \in [DOMAIN enroll' -> Request] /\ scripts' = scripts
      BY <1>3, <2>2, <3>1 DEF Enroll
    <3> QED
      BY <1>3, <2>2, <3>2, EnrollKeeps
  <2>3. ASSUME NEW k \in DOMAIN scripts, Generate(k) PROVE <1>4!:
    BY <1>3, <2>3, GenerateKeeps DEF Generate
  <2>4. ASSUME NEW k \in DOMAIN scripts, Reset(k) PROVE <1>4!:
    BY <1>3, <2>4, ResetKeeps DEF Reset
  <2> QED
    BY <2>1, <2>2, <2>3, <2>4
<1>5. TypeOK'
  BY <1>1, <1>3, <1>4 DEF TypeOK
<1> QED
  BY <1>2, <1>4, <1>5 DEF IInv

\* A restart loses what the process held, and nothing the database does.
LEMMA RestartKeeps ==
  ASSUME IInv, Restart
  PROVE  IInv'
<1>1. TypeOK /\ FirstFactor /\ Database
  BY DEF IInv
<1>2. /\ FirstFactor' /\ cap' \in Window
      /\ DOMAIN login' \subseteq Logins /\ login' \in [DOMAIN login' -> Login]
  BY <1>1, RestartFirst
<1>3. /\ UNCHANGED <<now, acct, scripts, log, written>> /\ restarts' = restarts + 1
      /\ budget' = [count |-> 0, start |-> 0]
      /\ attempt' = [a \in DOMAIN attempt |-> IF attempt[a].pc = "new" THEN Idle ELSE [Idle EXCEPT !.pc = "gone"]]
      /\ enroll' = [e \in DOMAIN enroll |-> IF enroll[e].pc = "new" THEN Idle ELSE [Idle EXCEPT !.pc = "gone"]]
  BY DEF Restart, db
<1>4. /\ Idle \in Request /\ [Idle EXCEPT !.pc = "gone"] \in Request
      /\ Idle.pc = "new" /\ [Idle EXCEPT !.pc = "gone"].pc = "gone"
  BY DEF Idle, Request, Links
<1>5. /\ attempt' \in [DOMAIN attempt' -> Request] /\ enroll' \in [DOMAIN enroll' -> Request]
      /\ \A e \in DOMAIN enroll' : enroll'[e].pc # "open"
  BY <1>3, <1>4
<1>6. Database'
  BY <1>1, <1>3, <1>5, DatabaseUntouched DEF db
<1>7. TypeOK'
  <2>1. budget' \in Count
    BY <1>3 DEF Count
  <2>2. restarts' \in Nat
    BY <1>1, <1>3 DEF TypeOK
  <2> QED
    BY <1>1, <1>2, <1>3, <1>5, <2>1, <2>2 DEF TypeOK
<1> QED
  BY <1>2, <1>6, <1>7 DEF IInv

\* Every step keeps the invariant.
LEMMA NextKeeps == IInv /\ [Next]_vars => IInv'
<1> SUFFICES ASSUME IInv, [Next]_vars PROVE IInv'
  OBVIOUS
<1>1. CASE Tick
  <2>1. TypeOK'
    BY <1>1 DEF IInv, TypeOK, Tick, db, memory
  <2> QED
    BY <1>1, <2>1, TickFirst, TickDatabase DEF IInv
<1>2. CASE UNCHANGED vars
  <2>1. TypeOK'
    BY <1>2 DEF IInv, TypeOK, vars
  <2>2. FirstFactor'
    BY <1>2, FirstUntouched DEF IInv, vars
  <2>3. Database'
    BY <1>2, DatabaseUntouched DEF IInv, Database, LinkInv, vars, db
  <2> QED
    BY <2>1, <2>2, <2>3 DEF IInv
<1> QED
  BY <1>1, <1>2, FirstStepKeeps, SecondStepKeeps, LinkStepKeeps, RestartKeeps DEF Next

\* The invariant holds in every reachable state.
LEMMA Invariant == Spec => []IInv
BY InitHolds, NextKeeps, PTL DEF Spec

\* Every variable keeps its type, whichever requests come and whatever is lost.
THEOREM TypeCorrect == Spec => []TypeOK
<1>1. IInv => TypeOK
  BY DEF IInv
<1> QED
  BY <1>1, Invariant, PTL

\* No challenge without a row of its own or a window full of rows, for any number of
\* logins, writes that fail or lose their answer, refunds and restarts.
THEOREM ChallengesAreWritten == Spec => []TrailBeforeChallenge
<1>1. IInv => TrailBeforeChallenge
  BY DEF IInv, FirstFactor
<1> QED
  BY <1>1, Invariant, PTL

\* The lock holds by the log alone, for any number of codes under way at once.
THEOREM LockKept == Spec => []LockHolds
<1>1. IInv => LockHolds
  BY DEF IInv, Database
<1> QED
  BY <1>1, Invariant, PTL

\* No link enrolls twice and no code opens two sessions between two resets, in
\* whichever order and however often the scripts are applied.
THEOREM NothingSpentTwice == Spec => []SpentOnce
<1>1. IInv => SpentOnce
  BY DEF IInv, Database
<1> QED
  BY <1>1, Invariant, PTL
=============================================================================

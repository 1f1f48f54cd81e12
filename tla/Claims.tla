------------------------------- MODULE Claims -------------------------------
(***************************************************************************)
(* One person's direction chain and everybody who writes to it: the        *)
(* person's taps, the claims they send about a missing half of a punch,    *)
(* managers who enter records by hand or decide a claim (the one protocol  *)
(* of manual.Within), and the report that pairs what is written.           *)
(*                                                                         *)
(* A section under the person's lock (LockEmployeeForTap) is one step:     *)
(* the rows and claims it reads are written under the same lock, and it    *)
(* reads the clock and the cutoff once.  What a request reads before the   *)
(* lock, and the instant its transaction began, are steps of their own.    *)
(*                                                                         *)
(* Time is counted in hours, and the clock shows the hours of Instants.  A *)
(* business day starts once every Day hours, at the cutoff; zones are left *)
(* out.  A row's created_at is only ever compared with another's, so it is *)
(* the rank of its transaction's start; it also names the row.  The chain  *)
(* is read whole: chainAround reads the anchor's day and the longest shift *)
(* on either side of it.                                                   *)
(***************************************************************************)
EXTENDS Integers, FiniteSets, Sequences, FiniteSetsExt

CONSTANTS
  Day,          \* a business day
  PastTheDay,   \* NextBusinessDayStart's 26 hours
  LongestShift, \* StaleOpenIn, the longest shift one check-in stays open for
  Offsets,      \* the cutoffs an administrator may set
  NoCutoff,     \* no cutoff resolves, or the business-day switch is off
  MaxBackdate,  \* how far back a record or a claim may name an instant
  Retries,      \* retriesAfterATap
  Managers,
  Instants,     \* the hours the clock shows, from the first to the last
  MaxMoves,     \* bound on changes of the cutoff
  MaxRows,      \* bound on directed rows
  MaxStarts,    \* bound on the ranks of transactions
  MaxClaims     \* bound on claims

ASSUME ClaimsAssumption ==
  /\ Day \in Nat \ {0} /\ PastTheDay \in Nat /\ PastTheDay < 2 * Day
  /\ LongestShift \in Nat /\ IsFiniteSet(Managers)
  /\ Instants \subseteq Nat /\ IsFiniteSet(Instants) /\ Instants # {}
  /\ \A t \in Instants : Day <= t
  /\ Offsets \subseteq 0..(Day - 1) /\ NoCutoff \notin Offsets
  /\ MaxBackdate \in Nat /\ Retries \in Nat
  /\ MaxMoves \in Nat /\ MaxRows \in Nat /\ MaxStarts \in Nat /\ MaxClaims \in Nat

VARIABLES
  clock,
  cutoff,    \* the person's resolved cutoff now
  moves,     \* how often it changed
  rows,      \* the directed, non-practice records
  claims,    \* [anchor, kind, at], the anchor a row's `written`
  decisions, \* [anchor, outcome, record], record NoRow for a rejection
  tap,       \* the person's tap request
  card,      \* the claim card of a result screen, and the claim sent from it
  mgr        \* [Managers -> the transaction of manual.Within]

vars == <<clock, cutoff, moves, rows, claims, decisions, tap, card, mgr>>

NoRow == 0

---------------------------------------------------------------------------
(* The direction rules, under a cutoff c.  Nothing of the policy engine is *)
(* used.                                                                   *)

Rule(c) == INSTANCE TapDecide
  WITH Cutoffs <- IF c = NoCutoff THEN {}
                  ELSE {c + n * Day : n \in 0..(Max(Instants) \div Day + 2)},
       DebounceWindow <- 1, FreshnessWindow <- 1, OccurredAtSkewMax <- 0,
       QueuedSkew <- 0, NoTenant <- 0, StaleOpenIn <- LongestShift

NoInstant == -1
DayStart(at, c) == Rule(c)!BusinessDayStart(at)
NextDayStart(start, c) == DayStart(start + PastTheDay, c)

Before(a, b) == a.at < b.at \/ (a.at = b.at /\ a.id < b.id)
ChainOf(rs) ==
  [i \in 1..Cardinality(rs) |->
     CHOOSE r \in rs : Cardinality({x \in rs : Before(x, r)}) = i - 1]
IndexOf(ch, name) == CHOOSE i \in DOMAIN ch : ch[i].written = name

(* A random id only breaks ties: a new row comes before or after the rows  *)
(* of its instant.                                                         *)
FreeIds(at) ==
  LET ids == {row.id : row \in {row \in rows : row.at = at}}
  IN  IF ids = {} THEN {0} ELSE {Min(ids) - 1, Max(ids) + 1}

---------------------------------------------------------------------------
(* chain.go: what a record misses, its window, and the pair it would make. *)

prevOf(ch, i) ==
  IF i = 1 THEN Rule(NoCutoff)!NoPrev
  ELSE [dir |-> ch[i - 1].dir, at |-> ch[i - 1].at,
        writtenLater |-> ch[i - 1].written > ch[i].written]

dayHasIn(ch, i) == \E j \in 1..(i - 1) : ch[j].dir = "in" /\ ch[j].at >= ch[i].day

ClassOf(ch, i) ==
  Rule(NoCutoff)!ClassifyCheckout(
    prevOf(ch, i), ch[i].day # NoInstant /\ dayHasIn(ch, i), ch[i].at, ch[i].day)

(* Would an out at `at` of business day `day` close the in?                *)
closesIn(in, at, day) ==
  Rule(NoCutoff)!ClassifyCheckout(
    [dir |-> "in", at |-> in, writtenLater |-> FALSE], TRUE, at, day) = "closes"

ClosedByNext(ch, i) ==
  /\ i < Len(ch)
  /\ ch[i + 1].dir = "out"
  /\ closesIn(ch[i].at, ch[i + 1].at, ch[i + 1].day)

Missing(ch, i) ==
  IF ch[i].day = NoInstant THEN "none"
  ELSE IF ch[i].dir = "in" /\ ~ClosedByNext(ch, i) THEN "out"
  ELSE IF ch[i].dir = "out" /\ ClassOf(ch, i) \in {"otherDay", "orphan"} THEN "in"
  ELSE "none"

(* Mutant: the anchor's day is taken as it was recorded.                   *)
NeverCutShort(ch, i, c) == FALSE

DayCutShort(ch, i, c) ==
  /\ c # NoCutoff /\ ch[i].day # NoInstant /\ ch[i].dir = "in"
  /\ NextDayStart(DayStart(ch[i].at, c), c) < NextDayStart(ch[i].day, c)

InWindowOut(ch, i, c, now, t) ==
  /\ c # NoCutoff /\ ~DayCutShort(ch, i, c)
  /\ ch[i].at < t /\ t <= ch[i].at + LongestShift /\ t <= now
  /\ t < NextDayStart(ch[i].day, c)
  /\ i < Len(ch) => t < ch[i + 1].at

InWindowIn(ch, i, t) ==
  /\ ch[i].day <= t /\ ch[i].at - LongestShift <= t /\ t < ch[i].at
  /\ i > 1 => ch[i - 1].at < t

WindowOf(ch, i, c, now) ==
  LET kind == Missing(ch, i)
  IN  {t \in Instants : \/ kind = "out" /\ InWindowOut(ch, i, c, now, t)
                        \/ kind = "in" /\ InWindowIn(ch, i, t)}

ClosesOut(ch, i, at, c) ==
  /\ ch[i].at < at /\ (i < Len(ch) => at < ch[i + 1].at)
  /\ closesIn(ch[i].at, at, NoInstant)
  /\ c # NoCutoff /\ closesIn(ch[i].at, at, DayStart(at, c))

ClosesIn(ch, i, at) ==
  /\ at < ch[i].at /\ (i > 1 => ch[i - 1].at < at)
  /\ closesIn(at, ch[i].at, ch[i].day)

Closes(ch, i, at, c) ==
  \/ Missing(ch, i) = "out" /\ ClosesOut(ch, i, at, c)
  \/ Missing(ch, i) = "in" /\ ClosesIn(ch, i, at)

(* K4: the result screens an anchor's card is offered on.                  *)
SecondShowing(ch, first, t) ==
  /\ t > first /\ ch[t].dir = "out" /\ ch[first].day # NoInstant
  /\ ch[t].day = ch[first].day
  /\ ~\E j \in (first + 1)..(t - 1) : ch[j].dir = "out"

Shown(ch, a, t) ==
  \/ ch[a].dir = "in" /\ t = a + 1
  \/ ch[a].dir = "in" /\ t > a + 1 /\ SecondShowing(ch, a + 1, t)
  \/ ch[a].dir = "out" /\ (t = a \/ SecondShowing(ch, a, t))

Claimed(anchor) == \E k \in claims : k.anchor = anchor

(* A moment of the window, of any hour, that is not too far back.          *)
WindowLeft(ch, i, c, now) ==
  LET kind == Missing(ch, i)
  IN  \E t \in Max({0, now - MaxBackdate})..now :
        \/ kind = "out" /\ InWindowOut(ch, i, c, now, t)
        \/ kind = "in" /\ InWindowIn(ch, i, t)

(* Chain.Offer's candidates at the tap t, and the one it prefers: a        *)
(* check-in claim, then the freshest anchor.                               *)
Candidates(ch, t, c, now) ==
  {i \in 1..t : /\ Missing(ch, i) # "none"
                /\ Shown(ch, i, t)
                /\ ~Claimed(ch[i].written)
                /\ WindowLeft(ch, i, c, now)}

Offered(ch, t, c, now) ==
  LET all == Candidates(ch, t, c, now)
      ins == {i \in all : Missing(ch, i) = "in"}
  IN  IF ins # {} THEN {Max(ins)} ELSE IF all # {} THEN {Max(all)} ELSE {}
---------------------------------------------------------------------------
(* report.go, checkout.go: one walk over the chain pairs it.               *)

NothingRead ==
  [open |-> {}, prev |-> Rule(NoCutoff)!NoPrev, prevWritten |-> 0, lastIn |-> NoInstant,
   pairs |-> {}, left |-> {}, outWithoutIn |-> {}]

Read(acc, e) ==
  [acc EXCEPT !.prev = [dir |-> e.dir, at |-> e.at, writtenLater |-> FALSE],
              !.prevWritten = e.written]

(* Mutant: the walk does not remember its latest check-in.                 *)
WalkInForgetting(acc, e) ==
  [Read(acc, e) EXCEPT !.open = {e.written}, !.left = @ \cup acc.open]

(* A check-in flushes the one before it.                                   *)
WalkIn(acc, e) ==
  [Read(acc, e) EXCEPT !.open = {e.written}, !.left = @ \cup acc.open, !.lastIn = e.at]

WalkOut(acc, e) ==
  LET prev == [acc.prev EXCEPT !.writtenLater = acc.prevWritten > e.written]
      class == Rule(NoCutoff)!ClassifyCheckout(
                 prev, e.day # NoInstant /\ acc.lastIn >= e.day, e.at, e.day)
  IN  CASE class = "closes" ->
             [Read(acc, e) EXCEPT !.open = {}, !.pairs = @ \cup (acc.open \X {e.written})]
        [] class = "tooLong" -> [Read(acc, e) EXCEPT !.open = {}, !.left = @ \cup acc.open]
        [] class = "otherDay" ->
             [Read(acc, e) EXCEPT !.open = {}, !.left = @ \cup acc.open,
                                  !.outWithoutIn = @ \cup {e.written}]
        [] class = "orphan" -> [Read(acc, e) EXCEPT !.outWithoutIn = @ \cup {e.written}]
        [] OTHER -> Read(acc, e)

Walk(acc, e) == IF e.dir = "in" THEN WalkIn(acc, e) ELSE WalkOut(acc, e)

(* What the walk has read after so many records.                           *)
WalkOf(ch) ==
  LET upTo[n \in 0..Len(ch)] == IF n = 0 THEN NothingRead ELSE Walk(upTo[n - 1], ch[n])
  IN  upTo

(* The intervals of a report, the check-ins nothing closed, the checkouts  *)
(* without a check-in: accumulate over one period that holds every record. *)
accumulate(rs) ==
  LET ch == ChainOf(rs)
      acc == WalkOf(ch)[Len(ch)]
  IN  [pairs |-> acc.pairs, left |-> acc.left \cup acc.open,
       outWithoutIn |-> acc.outWithoutIn]

---------------------------------------------------------------------------
(* Requests. *)

NoTap == [pc |-> "idle", now |-> 0, began |-> NoRow]
NoCard == [pc |-> "none", of |-> NoRow, anchor |-> NoRow, kind |-> "none", now |-> 0]
NoWork == [pc |-> "idle", anchor |-> NoRow, now |-> 0, began |-> NoRow, attempt |-> 0]

(* The rank of a transaction that starts now.                              *)
Fresh ==
  1 + Max({0} \cup {row.written : row \in rows} \cup {tap.began}
          \cup {mgr[m].began : m \in Managers})

(* source: who chose the direction; blind: see Write.                      *)
row(dir, at, id, written, day, source, blind) ==
  [dir |-> dir, at |-> at, id |-> id, written |-> written, day |-> day,
   source |-> source, blind |-> blind]

LastOpenIn(at) ==
  LET isOpen(i) == /\ i.dir = "in" /\ i.at <= at
                   /\ ~\E o \in rows : o.dir = "out" /\ Before(i, o) /\ o.at <= at
  IN  Max({NoInstant} \cup {i.at : i \in {i \in rows : isOpen(i)}})

(* A press, and the start of the record's transaction: one tap at a time,  *)
(* what the debounce leaves of several (Checkin).                          *)
PressTap ==
  /\ tap.pc = "idle" /\ Cardinality(rows) < MaxRows /\ Fresh <= MaxStarts
  /\ tap' = [pc |-> "waiting", now |-> clock, began |-> Fresh]
  /\ UNCHANGED <<clock, cutoff, moves, rows, claims, decisions, card, mgr>>

(* Under the lock: the direction against the chain, the business day       *)
(* frozen, the row; the result screen replaces the one before it.  A tap's *)
(* microsecond is no other record's instant.                               *)
RecordTap ==
  /\ tap.pc = "waiting" /\ Cardinality(rows) < MaxRows
  /\ \A r \in rows : r.at # tap.now
  /\ \E want \in {"none", "in", "out"}, id \in FreeIds(tap.now) :
       LET r == Rule(cutoff)!resolveDirection(
                  [fromClient |-> FALSE, occurredAt |-> tap.now, now |-> tap.now,
                   lastOpenIn |-> LastOpenIn(tap.now), dayOn |-> cutoff # NoCutoff,
                   want |-> want])
       IN  rows' = rows \cup {row(r.dir, tap.now, id, tap.began,
                                  IF cutoff = NoCutoff THEN NoInstant ELSE DayStart(tap.now, cutoff),
                                  r.source, FALSE)}
  /\ tap' = NoTap
  /\ card' = IF card.pc = "sent" THEN card
             ELSE [NoCard EXCEPT !.pc = "result", !.of = tap.began, !.now = tap.now]
  /\ UNCHANGED <<clock, cutoff, moves, claims, decisions, mgr>>

(* Refused, ignored, timed out or failed: no directed row.                 *)
TapLeavesNothing ==
  /\ tap.pc = "waiting"
  /\ tap' = NoTap
  /\ UNCHANGED <<clock, cutoff, moves, rows, claims, decisions, card, mgr>>

(* Service.Offer, after the tap's commit and outside its lock; an error    *)
(* only drops the card.                                                    *)
Offer ==
  /\ card.pc = "result"
  /\ LET ch == ChainOf({r \in rows : r.at <= card.now})
     IN  \/ card' = NoCard
         \/ \E i \in Offered(ch, IndexOf(ch, card.of), cutoff, clock) :
              card' = [NoCard EXCEPT !.pc = "shown", !.anchor = ch[i].written,
                                     !.kind = Missing(ch, i)]
  /\ UNCHANGED <<clock, cutoff, moves, rows, claims, decisions, tap, mgr>>

(* The form is sent; Submit reads the clock before it waits for the lock.  *)
SendClaim ==
  /\ card.pc = "shown" /\ Cardinality(claims) < MaxClaims
  /\ card' = [card EXCEPT !.pc = "sent", !.now = clock]
  /\ UNCHANGED <<clock, cutoff, moves, rows, claims, decisions, tap, mgr>>

Admits(anchor, kind, at, now) ==
  LET ch == ChainOf(rows)
      i == IndexOf(ch, anchor)
  IN  /\ Missing(ch, i) = kind /\ ~DayCutShort(ch, i, cutoff)
      /\ at \in WindowOf(ch, i, cutoff, now)
      /\ now - at <= MaxBackdate

(* The claim as written, at whatever moment the form named.                *)
Submit ==
  /\ card.pc = "sent"
  /\ ~Claimed(card.anchor)
  /\ \E at \in {t \in Instants : t <= clock} :
       /\ Admits(card.anchor, card.kind, at, card.now)
       /\ claims' = claims \cup {[anchor |-> card.anchor, kind |-> card.kind, at |-> at]}
  /\ card' = NoCard
  /\ UNCHANGED <<clock, cutoff, moves, rows, decisions, tap, mgr>>

(* A screen that is left, and every refusal of a claim.                    *)
NoClaim ==
  /\ card.pc \in {"shown", "sent"}
  /\ card' = NoCard
  /\ UNCHANGED <<clock, cutoff, moves, rows, claims, decisions, tap, mgr>>

---------------------------------------------------------------------------
(* manual.Within, and what managers run in it. *)

(* The transaction of a manual record (NoRow), or of a decision on the     *)
(* claim of an anchor, which is read before the lock.                      *)
Begin(m) ==
  /\ mgr[m].pc = "idle" /\ Fresh <= MaxStarts
  /\ \E anchor \in {NoRow} \cup {k.anchor : k \in claims} :
       mgr' = [mgr EXCEPT ![m] = [pc |-> "waiting", anchor |-> anchor, now |-> clock,
                                  began |-> Fresh, attempt |-> 0]]
  /\ UNCHANGED <<clock, cutoff, moves, rows, claims, decisions, tap, card>>

(* Mutant: nobody looks for a record written meanwhile.                    *)
NothingWrittenSince(m) == FALSE

AnyRecordWrittenSinceThisTransactionBegan(m) ==
  \E r \in rows : r.written > mgr[m].began

(* Under the lock: a directed record committed since this transaction      *)
(* began, so it starts again, later.                                       *)
BeginAgain(m) ==
  /\ mgr[m].pc = "waiting" /\ mgr[m].attempt < Retries
  /\ AnyRecordWrittenSinceThisTransactionBegan(m) /\ Fresh <= MaxStarts
  /\ mgr' = [mgr EXCEPT ![m].began = Fresh, ![m].attempt = @ + 1]
  /\ UNCHANGED <<clock, cutoff, moves, rows, claims, decisions, tap, card>>

Runs(m) ==
  /\ mgr[m].pc = "waiting"
  /\ mgr[m].attempt < Retries => ~AnyRecordWrittenSinceThisTransactionBegan(m)

(* A manual row has no business day.  blind: written after the last retry  *)
(* though a record was written meanwhile.                                  *)
Write(m, dir, at) ==
  \E id \in FreeIds(at) :
    rows' = rows \cup {row(dir, at, id, mgr[m].began, NoInstant, "hand",
                           /\ mgr[m].attempt = Retries
                           /\ \E r \in rows : r.written > mgr[m].began)}

Ends(m) == mgr' = [mgr EXCEPT ![m] = NoWork]

(* Bounds are checked before the transaction and again before the row.     *)
Record(m) ==
  /\ Runs(m) /\ mgr[m].anchor = NoRow /\ Cardinality(rows) < MaxRows
  /\ \E dir \in {"in", "out"}, at \in {t \in Instants : t <= mgr[m].now} :
       /\ clock - at <= MaxBackdate
       /\ \A r \in rows : r.source # "hand" => r.at # at
       /\ Write(m, dir, at)
  /\ Ends(m)
  /\ UNCHANGED <<clock, cutoff, moves, claims, decisions, tap, card>>

Decided(anchor) == \E d \in decisions : d.anchor = anchor
Decision(anchor, outcome, record) ==
  decisions' = decisions \cup {[anchor |-> anchor, outcome |-> outcome, record |-> record]}

Reject(m) ==
  /\ Runs(m) /\ mgr[m].anchor # NoRow /\ ~Decided(mgr[m].anchor)
  /\ Decision(mgr[m].anchor, "rejected", NoRow)
  /\ Ends(m)
  /\ UNCHANGED <<clock, cutoff, moves, rows, claims, tap, card>>

KindOf(anchor) == (CHOOSE k \in claims : k.anchor = anchor).kind

(* Mutant: what Submit checked still stands.                               *)
evaluateAsSent(anchor, at) == "pending"

(* evaluate: pending is the only state an approval writes in.              *)
evaluate(anchor, at) ==
  LET ch == ChainOf(rows)
      i == IndexOf(ch, anchor)
  IN  IF Missing(ch, i) # KindOf(anchor) \/ DayCutShort(ch, i, cutoff) THEN "resolved"
      ELSE IF at \notin WindowOf(ch, i, cutoff, clock) THEN "outsideWindow"
      ELSE IF ~Closes(ch, i, at, cutoff) THEN "resolved"
      ELSE IF clock - at > MaxBackdate THEN "expired"
      ELSE "pending"

(* The record at the claimed moment or at the manager's Edit, the decision *)
(* and its trail, in one transaction.  A confirmation that is asked for    *)
(* only refuses once more.                                                 *)
Approve(m) ==
  /\ Runs(m) /\ mgr[m].anchor # NoRow /\ ~Decided(mgr[m].anchor)
  /\ Cardinality(rows) < MaxRows
  /\ \E at \in {t \in Instants : t <= clock} :
       /\ evaluate(mgr[m].anchor, at) = "pending"
       /\ Write(m, KindOf(mgr[m].anchor), at)
  /\ Decision(mgr[m].anchor, "approved", mgr[m].began)
  /\ Ends(m)
  /\ UNCHANGED <<clock, cutoff, moves, claims, tap, card>>

(* Every refusal, and every failure, rolls the transaction back.           *)
RollBack(m) ==
  /\ mgr[m].pc = "waiting"
  /\ Ends(m)
  /\ UNCHANGED <<clock, cutoff, moves, rows, claims, decisions, tap, card>>

---------------------------------------------------------------------------
(* A request ends long before an hour is over: the clock moves at most     *)
(* once while it runs.                                                     *)
Tick ==
  /\ \E t \in Instants : t > clock
  /\ tap.pc = "waiting" => tap.now = clock
  /\ card.pc = "sent" => card.now = clock
  /\ \A m \in Managers : mgr[m].pc = "waiting" => mgr[m].now = clock
  /\ clock' = Min({t \in Instants : t > clock})
  /\ UNCHANGED <<cutoff, moves, rows, claims, decisions, tap, card, mgr>>

SetCutoff ==
  /\ moves < MaxMoves /\ moves' = moves + 1
  /\ \E c \in Offsets \cup {NoCutoff} : c # cutoff /\ cutoff' = c
  /\ UNCHANGED <<clock, rows, claims, decisions, tap, card, mgr>>

Init ==
  /\ clock = Min(Instants)
  /\ cutoff \in Offsets /\ moves = 0
  /\ rows = {} /\ claims = {} /\ decisions = {}
  /\ tap = NoTap /\ card = NoCard
  /\ mgr = [m \in Managers |-> NoWork]

Next ==
  \/ PressTap \/ RecordTap \/ TapLeavesNothing
  \/ Offer \/ SendClaim \/ Submit \/ NoClaim
  \/ \E m \in Managers :
       \/ Begin(m) \/ BeginAgain(m) \/ Record(m)
       \/ Reject(m) \/ Approve(m) \/ RollBack(m)
  \/ Tick \/ SetCutoff

Spec == Init /\ [][Next]_vars

---------------------------------------------------------------------------
(* Properties. *)

(* What Submit takes, Decide can pass: a claim is, when it is written,     *)
(* approvable at the moment it names, though Submit and Decide draw the    *)
(* day's end from the frozen day and from today's cutoff, and Submit reads *)
(* its clock before the lock (at worst the moment expires meanwhile).      *)
SubmittedIsApprovable ==
  [][\A k \in claims' \ claims :
       \/ evaluate(k.anchor, k.at)' = "pending"
       \/ evaluate(k.anchor, k.at)' = "expired" /\ card.now < clock]_vars

(* An approval does what it was shown to do and nothing else: the report   *)
(* gains exactly the interval between the anchor and the new record, every *)
(* other interval stays as it was, and the anchor is no longer listed      *)
(* (Chain.Closes against accumulate).                                      *)
ApprovalAddsItsPair ==
  [][\A d \in decisions' \ decisions : d.outcome = "approved" =>
       LET pair == IF KindOf(d.anchor) = "out" THEN <<d.anchor, d.record>>
                   ELSE <<d.record, d.anchor>>
           report == accumulate(rows')
       IN  /\ pair \notin accumulate(rows).pairs
           /\ report.pairs = accumulate(rows).pairs \cup {pair}
           /\ d.anchor \notin report.left \cup report.outWithoutIn]_vars

(* A checkout the engine predicted is never listed as one without a        *)
(* check-in on account of a correction, unless that correction ran out of  *)
(* retries (manual.Recorder.lock's three orders).                          *)
CorrectionIsNoOrphan ==
  \A r \in rows :
    r.source = "auto" /\ r.dir = "out" /\ r.written \in accumulate(rows).outWithoutIn
      => \E x \in rows : x.blind

(* The claim card and the report agree: a record of a business day misses  *)
(* its other half for Chain.Missing exactly when the report lists it       *)
(* (accumulate's walk, with one slot and one latest check-in, against the  *)
(* chain's two neighbours and search).                                     *)
ClaimsAndReportAgree ==
  LET ch == ChainOf(rows)
      report == accumulate(rows)
  IN  \A i \in DOMAIN ch : ch[i].day # NoInstant =>
        /\ Missing(ch, i) = "out" <=> ch[i].written \in report.left
        /\ Missing(ch, i) = "in" <=> ch[i].written \in report.outWithoutIn
=============================================================================

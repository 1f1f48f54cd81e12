------------------------------ MODULE PunchFeed ------------------------------
(* The punch feed: the triggers that write a punch into the feeds of the     *)
(* companies it concerns and number it from their counters (migrations       *)
(* 00049 and 00067), the backfill of the punches older than the triggers     *)
(* (00050), the managers' decisions on flagged punches, and the two reads of *)
(* the API: the cursor (PunchPage) and the history walk (HistoryPage).  Each *)
(* statement of a transaction sees what was committed before it began.       *)
EXTENDS Integers, FiniteSets, Sequences

CONSTANTS
  Tenants,        \* companies, numbered in the order of their ids
  Writers,        \* transactions that write one record or one decision;
                  \* a record is named by the transaction that wrote it
  Old,            \* records committed before the triggers existed
  OldRows,        \* what each of them recorded
  Shapes,         \* what a tap may record: [employer, site, verdict, counts, at]
  Outcomes,       \* decisions a manager may take
  Reader,         \* whose feed is read, in which role: [tenant, role]
  From, To,       \* the range of the history walk, To excluded
  Window, Limit,  \* positions a page reads, events it hands out
  Chunk,          \* records of one transaction of the backfill
  Runs            \* how often the backfill may be started (a bound)

NoSite == 0
NoRow == [employer |-> NoSite]
Punches == Writers \cup Old

(* What a row of transactions records; "at" counts from the -infinity the   *)
(* backfill starts after.                                                   *)
Record ==
  [employer : Tenants, site : Tenants \cup {NoSite}, verdict : STRING, counts : BOOLEAN,
   at : Nat \ {0}]

ASSUME IdAssumption ==
  /\ Tenants \subseteq Nat \ {NoSite} /\ IsFiniteSet(Tenants)
  /\ Punches \subseteq Nat /\ IsFiniteSet(Punches) /\ Writers \cap Old = {}
(* No record of a holding is older than the triggers (00050, note c).       *)
ASSUME RowAssumption ==
  /\ Shapes \subseteq Record
  /\ OldRows \in [Old -> Record]
  /\ \A p \in Old : OldRows[p].site = NoSite
ASSUME OutcomeAssumption == "tap" \notin Outcomes
ASSUME PageAssumption == {Window, Limit, Chunk} \subseteq Nat \ {0}
ASSUME ReaderAssumption == Reader.tenant \in Tenants /\ From \in Nat

VARIABLES
  rows,     \* transactions: the committed records
  review,   \* transaction_reviews: the decision on each record
  last,     \* feed_counters.last_seq
  events,   \* punch_events
  members,  \* companies of the holding
  tx,       \* the writers
  back,     \* the backfill
  feed,     \* a client that follows the cursor
  walk      \* a client that walks the history

vars == <<rows, review, last, events, members, tx, back, feed, walk>>

---------------------------------------------------------------------------
Committed(p) == rows[p] # NoRow

(* K-4: what enters the feed by itself, and what enters it once approved.   *)
EntersNow(row) == row.verdict = "ok" /\ row.counts
EntersApproved(row) == row.verdict = "flag" /\ row.counts

Peers(row) == row.site # NoSite /\ {row.employer, row.site} \subseteq members

(* Mutant: past the membership nothing is written, the employer's event     *)
(* included.                                                                *)
TargetsWhilePeers(row, peer) ==
  IF peer THEN {row.employer, row.site} ELSE IF row.site = NoSite THEN {row.employer} ELSE {}

(* The feeds an event goes to: the employer's always, the site's as well    *)
(* while the two are peers.                                                 *)
TargetsOf(row, peer) ==
  {row.employer} \cup (IF peer THEN {row.site} ELSE {})

(* The roles an event carries in the feed of t.                             *)
RolesIn(t, row) ==
  (IF t = row.employer THEN {"employer"} ELSE {}) \cup
  (IF t = row.site \/ row.site = NoSite THEN {"location"} ELSE {})

Event(t, s, p, row) ==
  [tenant |-> t, seq |-> s, punch |-> p, roles |-> RolesIn(t, row), at |-> row.at]

FeedOf(t) == {e \in events : e.tenant = t}

(* The order of the history: by instant, then by position or by id.         *)
Before(a, b) == a[1] < b[1] \/ (a[1] = b[1] /\ a[2] < b[2])

(* The first n of a set, in an order given by the keys, and all of it as a  *)
(* sequence.                                                                *)
Place(S, key(_), x) == Cardinality({y \in S : Before(key(y), key(x))})
FirstOf(S, key(_), n) == {x \in S : Place(S, key, x) < n}
InOrder(S, key(_)) ==
  [i \in 1..Cardinality(S) |-> CHOOSE x \in S : Place(S, key, x) = i - 1]

(* Transactions are numbered in the order they begin.                       *)
Begins(w) == tx[w].pc = "idle" /\ \A v \in Writers : v < w => tx[v].pc # "idle"

Open(w) == tx[w].pc \in {"locking", "ready"}

(* Mutant: the backfill's lock keeps no writer out.                         *)
FreeOfWriters(t) == \A w \in Writers : t \notin tx[w].held

(* The row lock on a counter, held from its first change to the commit.     *)
Free(t) == (\A w \in Writers : t \notin tx[w].held) /\ back.held # t

---------------------------------------------------------------------------
(* The writers. *)

NoTx == [pc |-> "idle", kind |-> "none", punch |-> 0, row |-> NoRow,
         targets |-> {}, held |-> {}, seq |-> [t \in Tenants |-> 0], tries |-> 0]

Sets(w, q) == tx' = [tx EXCEPT ![w] = q]

(* The INSERT of a tap's record, up to the trigger's first lock: the gate   *)
(* of a site row, the entry rule, the targets.                              *)
Insert(w, row, tries) ==
  /\ row.site = NoSite \/ Peers(row)
  /\ LET targets == IF EntersNow(row) THEN TargetsOf(row, row.site # NoSite) ELSE {}
     IN  Sets(w, [NoTx EXCEPT !.pc = IF targets = {} THEN "ready" ELSE "locking",
                    !.kind = "tap", !.punch = w, !.row = row,
                    !.targets = targets, !.tries = tries])

Tap(w) ==
  /\ Begins(w)
  /\ \E row \in Shapes : Insert(w, row, 1)
  /\ UNCHANGED <<rows, review, last, events, members, back, feed, walk>>

(* A manager's decision on a flagged record; the unique key lets one        *)
(* undecided transaction at a time hold it.  An approval asks again whether *)
(* the site is still a peer.                                                *)
Decide(w) ==
  /\ Begins(w)
  /\ \E p \in Punches, o \in Outcomes :
       /\ Committed(p) /\ rows[p].verdict = "flag" /\ review[p] = "none"
       /\ \A v \in Writers : Open(v) /\ tx[v].punch = p => tx[v].kind = "tap"
       /\ LET row == rows[p]
              targets == IF o = "approved" /\ EntersApproved(row)
                         THEN TargetsOf(row, Peers(row)) ELSE {}
          IN  Sets(w, [NoTx EXCEPT !.pc = IF targets = {} THEN "ready" ELSE "locking",
                         !.kind = o, !.punch = p, !.row = row, !.targets = targets])
  /\ UNCHANGED <<rows, review, last, events, members, back, feed, walk>>

(* Mutant: the employer's counter first, in whatever order the ids are.     *)
EmployerFirst(q) ==
  LET left == q.targets \ q.held
  IN  IF q.row.employer \in left THEN q.row.employer
      ELSE CHOOSE t \in left : \A u \in left : t <= u

(* The next counter row to lock: the smaller id first.                      *)
NextCounter(q) ==
  LET left == q.targets \ q.held
  IN  CHOOSE t \in left : \A u \in left : t <= u

(* The trigger locks one counter row; with the last of them it raises the   *)
(* counters, in its transaction: nobody else sees that before the commit.   *)
Lock(w) ==
  /\ tx[w].pc = "locking"
  /\ LET q == tx[w]
         t == NextCounter(q)
         raised == [u \in Tenants |-> IF u \in q.targets THEN last[u] + 1 ELSE 0]
     IN  /\ Free(t)
         /\ IF q.targets \subseteq q.held \cup {t}
            THEN Sets(w, [q EXCEPT !.held = @ \cup {t}, !.pc = "ready", !.seq = raised])
            ELSE Sets(w, [q EXCEPT !.held = @ \cup {t}])
  /\ UNCHANGED <<rows, review, last, events, members, back, feed, walk>>

Commit(w) ==
  /\ tx[w].pc = "ready"
  /\ LET q == tx[w]
     IN  /\ rows' = IF q.kind = "tap" THEN [rows EXCEPT ![w] = q.row] ELSE rows
         /\ review' = IF q.kind = "tap" THEN review ELSE [review EXCEPT ![q.punch] = q.kind]
         /\ events' = events \cup {Event(t, q.seq[t], q.punch, q.row) : t \in q.targets}
         /\ last' = [t \in Tenants |-> IF t \in q.targets THEN q.seq[t] ELSE last[t]]
         /\ Sets(w, [NoTx EXCEPT !.pc = "done"])
  /\ UNCHANGED <<members, back, feed, walk>>

(* lock_timeout ran out while another transaction holds the counter.  A tap *)
(* rolls its savepoint back, which gives its locks up, and inserts once     *)
(* more (checkin.insert); a decision or a second failure ends the           *)
(* transaction.                                                             *)
LockTimeout(w) ==
  /\ tx[w].pc = "locking"
  /\ ~Free(NextCounter(tx[w]))
  /\ IF tx[w].kind = "tap" /\ tx[w].tries = 1
     THEN Sets(w, [NoTx EXCEPT !.pc = "again", !.row = tx[w].row])
     ELSE Sets(w, [NoTx EXCEPT !.pc = "done"])
  /\ UNCHANGED <<rows, review, last, events, members, back, feed, walk>>

Again(w) ==
  /\ tx[w].pc = "again"
  /\ Insert(w, tx[w].row, 2)
  /\ UNCHANGED <<rows, review, last, events, members, back, feed, walk>>

(* An error, a cancelled request or a crash: the transaction rolls back.    *)
Abort(w) ==
  /\ Open(w) \/ tx[w].pc = "again"
  /\ Sets(w, [NoTx EXCEPT !.pc = "done"])
  /\ UNCHANGED <<rows, review, last, events, members, back, feed, walk>>

(* A company leaves the holding; a site row's open transaction holds the    *)
(* membership rows for share (holding_peer's lock mode).                    *)
Leave(t) ==
  /\ t \in members
  /\ \A w \in Writers : Open(w) /\ tx[w].kind = "tap" =>
       t \notin {tx[w].row.employer, tx[w].row.site} \/ tx[w].row.site = NoSite
  /\ members' = members \ {t}
  /\ UNCHANGED <<rows, review, last, events, tx, back, feed, walk>>

---------------------------------------------------------------------------
(* The backfill: company by company, a window of records that have no       *)
(* event, then the counter's lock, then the records that still have none.   *)

Missing(t) ==
  {p \in Punches :
     /\ Committed(p) /\ rows[p].employer = t /\ rows[p].site = NoSite
     /\ \/ EntersNow(rows[p])
        \/ EntersApproved(rows[p]) /\ review[p] = "approved"
     /\ \A e \in FeedOf(t) : e.punch # p}

HistoryKey(p) == <<rows[p].at, p>>

Goes(b) == back' = b

NextTenant(t) ==
  LET later == {u \in Tenants : u > t}
  IN  IF later = {} THEN NoSite ELSE CHOOSE u \in later : \A v \in later : u <= v

BackfillWindow ==
  /\ back.pc = "window"
  /\ LET found == FirstOf({p \in Missing(back.tenant) : Before(back.after, HistoryKey(p))},
                          HistoryKey, Chunk)
         next == NextTenant(back.tenant)
     IN  \/ /\ found # {}
            /\ LET end == CHOOSE p \in found : \A q \in found : ~Before(HistoryKey(p), HistoryKey(q))
               IN  Goes([back EXCEPT !.pc = "waiting", !.ids = found, !.after = HistoryKey(end)])
         \/ /\ found = {} /\ next # NoSite
            /\ Goes([back EXCEPT !.tenant = next, !.after = <<0, 0>>])
         \/ /\ found = {} /\ next = NoSite
            /\ Goes([back EXCEPT !.pc = "done"])
  /\ UNCHANGED <<rows, review, last, events, members, tx, feed, walk>>

BackfillLock ==
  /\ back.pc = "waiting"
  /\ Free(back.tenant)
  /\ Goes([back EXCEPT !.pc = "locked", !.held = back.tenant])
  /\ UNCHANGED <<rows, review, last, events, members, tx, feed, walk>>

(* The records of the window that still have no event, numbered in their    *)
(* order after the counter; then the commit.                                *)
BackfillWrite ==
  /\ back.pc = "locked"
  /\ LET t == back.tenant
         pending == back.ids \cap Missing(t)
         at(p) == last[t] + 1 + Cardinality({q \in pending : Before(HistoryKey(q), HistoryKey(p))})
     IN  /\ events' = events \cup {Event(t, at(p), p, rows[p]) : p \in pending}
         /\ last' = [last EXCEPT ![t] = @ + Cardinality(pending)]
  /\ Goes([back EXCEPT !.pc = "window", !.held = NoSite, !.ids = {}])
  /\ UNCHANGED <<rows, review, members, tx, feed, walk>>

(* The run is cut short, or its lock_timeout runs out; it is started over.  *)
BackfillAgain ==
  /\ back.pc \in {"waiting", "locked"}
  /\ back.runs < Runs
  /\ Goes([pc |-> "window", tenant |-> NextTenant(NoSite), after |-> <<0, 0>>,
           ids |-> {}, held |-> NoSite, runs |-> back.runs + 1])
  /\ UNCHANGED <<rows, review, last, events, members, tx, feed, walk>>

---------------------------------------------------------------------------
(* The client that follows the cursor. *)

InRole(e) == Reader.role \in e.roles
Smaller(a, b) == IF a < b THEN a ELSE b

(* Mutant: the page is bounded by its window alone.                         *)
UptoWindow(counter, next) == next - 1 + Window

(* The last position of the page: the window's end, at most the counter.    *)
Upto(counter, next) == Smaller(counter, next - 1 + Window)

(* GetPunchFeedHead, the first statement of a page.                         *)
PageHead ==
  /\ feed.pc = "idle"
  /\ feed.after <= last[Reader.tenant]
  /\ LET counter == last[Reader.tenant]
         ahead == {e.seq : e \in {e \in FeedOf(Reader.tenant) : e.seq > feed.after}}
         next == CHOOSE s \in ahead : \A u \in ahead : s <= u
     IN  feed' = IF ahead = {} THEN [feed EXCEPT !.after = counter]
                 ELSE [feed EXCEPT !.pc = "list", !.upto = Upto(counter, next)]
  /\ UNCHANGED <<rows, review, last, events, members, tx, back, walk>>

SeqKey(e) == <<e.seq, 0>>
TimeKey(e) == <<e.at, e.seq>>
SeqsOf(s) == [i \in DOMAIN s |-> s[i].seq]

(* ListPunchEvents, the second statement, and the page it makes.            *)
PageList ==
  /\ feed.pc = "list"
  /\ LET found == {e \in FeedOf(Reader.tenant) :
                     InRole(e) /\ e.seq > feed.after /\ e.seq <= feed.upto}
         page == InOrder(FirstOf(found, SeqKey, Limit), SeqKey)
         full == Cardinality(found) > Limit
     IN  feed' = [pc |-> "idle", upto |-> 0, got |-> feed.got \o SeqsOf(page),
                  after |-> IF full THEN page[Limit].seq ELSE feed.upto]
  /\ UNCHANGED <<rows, review, last, events, members, tx, back, walk>>

(* The answer is lost: the client asks again from the same cursor.          *)
PageLost ==
  /\ feed.pc = "list"
  /\ feed' = [feed EXCEPT !.pc = "idle", !.upto = 0]
  /\ UNCHANGED <<rows, review, last, events, members, tx, back, walk>>

---------------------------------------------------------------------------
(* The client that walks the history in the order of the punches. *)

InRange(e) == e.at >= From /\ e.at < To

(* GetPunchFeedCounter: the first page fixes the snapshot, a later one is   *)
(* held to it.                                                              *)
WalkCounter ==
  /\ walk.pc \in {"first", "between"}
  /\ walk' = [walk EXCEPT !.pc = "window",
                !.s0 = IF walk.pc = "first" THEN last[Reader.tenant] ELSE @]
  /\ UNCHANGED <<rows, review, last, events, members, tx, back, feed>>

(* GetPunchHistoryWindow: the positions that follow, of any role and seq.   *)
WalkWindow ==
  /\ walk.pc = "window"
  /\ LET ahead == {e \in FeedOf(Reader.tenant) : InRange(e) /\ Before(walk.at, TimeKey(e))}
         win == InOrder(FirstOf(ahead, TimeKey, Window), TimeKey)
     IN  walk' = IF ahead = {} THEN [walk EXCEPT !.pc = "done"]
                 ELSE [walk EXCEPT !.pc = "list", !.end = TimeKey(win[Len(win)]),
                                   !.more = Cardinality(ahead) > Window]
  /\ UNCHANGED <<rows, review, last, events, members, tx, back, feed>>

(* Mutant: the walk's page answers whatever its statement sees.             *)
OfAnySnapshot(e) == InRange(e) /\ InRole(e)

(* What the walk answers of the feed: its role, its range, its snapshot.    *)
OfTheWalk(e) == InRange(e) /\ InRole(e) /\ e.seq <= walk.s0

(* ListPunchHistory, and the page it makes.                                 *)
WalkList ==
  /\ walk.pc = "list"
  /\ LET found == {e \in FeedOf(Reader.tenant) :
                     /\ OfTheWalk(e) /\ Before(walk.at, TimeKey(e))
                     /\ ~Before(walk.end, TimeKey(e))}
         page == InOrder(FirstOf(found, TimeKey, Limit), TimeKey)
         full == Cardinality(found) > Limit
     IN  walk' = [walk EXCEPT
                   !.got = @ \o SeqsOf(page),
                   !.at = IF full THEN TimeKey(page[Limit]) ELSE walk.end,
                   !.pc = IF full \/ walk.more THEN "between" ELSE "done",
                   !.end = <<0, 0>>, !.more = FALSE]
  /\ UNCHANGED <<rows, review, last, events, members, tx, back, feed>>

---------------------------------------------------------------------------
(* One client at a time: they share nothing they write.                     *)
Init ==
  /\ rows = [p \in Punches |-> IF p \in Old THEN OldRows[p] ELSE NoRow]
  /\ \E approved \in SUBSET {p \in Old : rows[p].verdict = "flag"} :
       review = [p \in Punches |-> IF p \in approved THEN "approved" ELSE "none"]
  /\ last = [t \in Tenants |-> 0]
  /\ events = {}
  /\ members = Tenants
  /\ tx = [w \in Writers |-> NoTx]
  /\ back = [pc |-> "window", tenant |-> NextTenant(NoSite), after |-> <<0, 0>>,
             ids |-> {}, held |-> NoSite, runs |-> 1]
  /\ \E pcs \in {<<"idle", "off">>, <<"off", "first">>} :
     /\ feed = [pc |-> pcs[1], after |-> 0, upto |-> 0, got |-> <<>>]
     /\ walk = [pc |-> pcs[2], s0 |-> 0, at |-> <<From, 0>>, end |-> <<0, 0>>,
                more |-> FALSE, got |-> <<>>]

WriterStep(w) ==
  \/ Tap(w) \/ Decide(w) \/ Lock(w) \/ Commit(w)
  \/ LockTimeout(w) \/ Again(w) \/ Abort(w)

BackfillStep == BackfillWindow \/ BackfillLock \/ BackfillWrite \/ BackfillAgain

ReaderStep == PageHead \/ PageList \/ PageLost \/ WalkCounter \/ WalkWindow \/ WalkList

Next ==
  \/ \E w \in Writers : WriterStep(w)
  \/ \E t \in Tenants : Leave(t)
  \/ BackfillStep
  \/ ReaderStep

Spec == Init /\ [][Next]_vars

---------------------------------------------------------------------------
(* The positions of a company's feed are exactly 1 to its counter, each     *)
(* held by one event, whatever rolled back: what ADR 0028 section 5 proves  *)
(* by hand and both reads rest on.                                          *)
EventsAreCounted ==
  \A t \in Tenants :
    /\ {e.seq : e \in FeedOf(t)} = 1 .. last[t]
    /\ \A e, f \in FeedOf(t) : e.seq = f.seq => e = f

Enters(p) ==
  /\ Committed(p)
  /\ EntersNow(rows[p]) \/ (EntersApproved(rows[p]) /\ review[p] = "approved")

(* A punch is in a feed at most once; the employer's feed has every punch   *)
(* that counts as soon as its record or its approval is committed (the      *)
(* backfill's once it is done), whatever became of the holding; the site's  *)
(* has every tap that counted at once; and nothing else enters a feed.      *)
EachPunchOnce ==
  /\ \A e, f \in events : e.tenant = f.tenant /\ e.punch = f.punch => e = f
  /\ \A e \in events : Enters(e.punch) /\ e.tenant \in {rows[e.punch].employer, rows[e.punch].site}
  /\ \A p \in Punches : Enters(p) =>
       /\ p \in Writers \/ back.pc = "done" =>
            \E e \in events : e.punch = p /\ e.tenant = rows[p].employer
       /\ p \in Writers /\ EntersNow(rows[p]) /\ rows[p].site # NoSite =>
            \E e \in events : e.punch = p /\ e.tenant = rows[p].site

(* A client that follows the cursor has been given, in order and once each, *)
(* every event of its role at or below the cursor, however the commits fell *)
(* between the two statements of its pages and whatever answer was lost.    *)
CursorSkipsNothing ==
  feed.got = SeqsOf(InOrder({e \in FeedOf(Reader.tenant) : InRole(e) /\ e.seq <= feed.after}, SeqKey))

(* A walk has been given, in the order of the punches and once each, every  *)
(* event of its snapshot up to where it stands, and all of them at its end, *)
(* although later commits land in the stretch it has passed.                *)
WalkIsWhole ==
  LET snapshot == {e \in FeedOf(Reader.tenant) : InRange(e) /\ InRole(e) /\ e.seq <= walk.s0}
  IN  walk.got = SeqsOf(InOrder({e \in snapshot : walk.pc = "done" \/ ~Before(walk.at, TimeKey(e))},
                                TimeKey))

(* Who holds the counter a transaction waits for.                           *)
WaitsFor(w) ==
  IF tx[w].pc # "locking" THEN {}
  ELSE {v \in Writers : NextCounter(tx[w]) \in tx[v].held}

(* No ring of taps and approvals of two companies at each other's places    *)
(* waits for one another's counters: PostgreSQL would end one with 40P01,   *)
(* which no insert retries, and its record would be lost.                   *)
NoCircularWait ==
  \A S \in SUBSET Writers : S # {} => \E w \in S : WaitsFor(w) \cap S = {}
=============================================================================

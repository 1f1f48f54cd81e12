------------------------------ MODULE Checkin ------------------------------
(***************************************************************************)
(* checkin.Service.Record: one tap from the button press to its row in the *)
(* attendance ledger, run by concurrent requests against one database, and *)
(* what changes meanwhile: the clock, plaques, people, holding membership  *)
(* and a manager's manual records.                                         *)
(*                                                                         *)
(* A request runs open page -> press (clock, plaque resolved) -> advance   *)
(* (the chip counter, in a transaction of its own) -> begin (policy set    *)
(* loaded, transaction started) -> lock (the person's advisory lock) ->    *)
(* gather and decide -> write and commit -> after (security alert).        *)
(* It can fail in every state before its commit.                           *)
(***************************************************************************)
EXTENDS TapDecide, FiniteSets

CONSTANTS
  Requests, Tags, Employees, Tenants,
  TagTenant,       \* [Tags -> Tenants]: whose plaque it is
  EmpTenant,       \* [Employees -> Tenants]: whose employee the session names
  Members,         \* the tenants that share a holding at the start
  ManagedTags,     \* the plaques whose service status may change
  ManagedEmps,     \* the people a manager may deactivate
  Inputs,          \* what a browser may send; see InputType
  PolicySets,      \* the stored policy sets a tenant may have
  InitialStatuses, \* the statuses a plaque may start in
  BusinessDayOn,   \* the business-day switch
  NoRequest,
  RowIds,          \* row ids; the database draws them at random
  MaxManual,       \* bound on manual records
  MaxTime,         \* bound of the clock
  MaxCtr,          \* bound of the chip counter
  RequestTimeout,  \* middleware.Timeout of the HTTP server
  Grace,           \* holding_peer's tolerance after a member left
  FutureGrace      \* how far ahead a manual record may be placed

TagStatuses == {"active", "retired", "lost", "unassigned"}
EmployeeStatuses == {"active", "deactivated"}
Channels == {"nfc", "qr"}

(* genuine: the URL carries the chip's own MAC.  declared: the occurred_at *)
(* field, NoTime when the form has none.                                   *)
InputType ==
  [emp : Employees, tag : Tags, channel : Channels, ctr : 0..MaxCtr,
   genuine : BOOLEAN, ip : BOOLEAN, gps : {"none", "match", "conflict"},
   declared : Nat \cup {NoTime}, want : {"none", "in", "out"}]

ASSUME CheckinAssumption ==
  /\ TagTenant \in [Tags -> Tenants]
  /\ EmpTenant \in [Employees -> Tenants]
  /\ Members \subseteq Tenants
  /\ ManagedTags \subseteq Tags /\ ManagedEmps \subseteq Employees
  /\ NoTenant \notin Tenants
  /\ NoRequest \notin Requests
  /\ Inputs # {} /\ Inputs \subseteq InputType
  /\ InitialStatuses \subseteq TagStatuses
  /\ BusinessDayOn \in BOOLEAN
  /\ RowIds \subseteq Nat
  /\ MaxTime \in Nat /\ MaxCtr \in Nat /\ MaxManual \in Nat
  /\ RequestTimeout \in Nat /\ Grace \in Nat /\ FutureGrace \in Nat

(* What is left of a request's 30 seconds when it reads its clock is less   *)
(* than the shortest debounce (DebounceMinSeconds, 30) and than the 60      *)
(* seconds holding_peer tolerates.                                          *)
ASSUME TimeoutAssumption == RequestTimeout < DebounceWindow /\ RequestTimeout < Grace

VARIABLES
  clock,   \* the database's clock_timestamp(), and the server's
  tags,    \* [Tags -> [status, lastCtr, offSince]]
  emps,    \* [Employees -> status]
  leftAt,  \* [Tenants -> instant the holding membership ends]
  lock,    \* [Employees -> the request holding the advisory lock]
  ledger,  \* the committed rows of the transactions table
  alerts,  \* the requests whose security alert is in the audit trail
  req      \* [Requests -> the state of a request]

vars == <<clock, tags, emps, leftAt, lock, ledger, alerts, req>>

(* left_at NULL: later than any instant of the model.                      *)
Forever == MaxTime + Grace + 1

---------------------------------------------------------------------------
(* Peers of one holding, as holding_peer answers in its modes.             *)

StrictPeers(a, b) == a # b /\ leftAt[a] > clock /\ leftAt[b] > clock
TolerantPeers(a, b) == a # b /\ leftAt[a] + Grace > clock /\ leftAt[b] + Grace > clock

---------------------------------------------------------------------------
(* What the locked transaction reads about the person. *)

RowsOf(e) == {row \in ledger : row.emp = e}

(* GetLastTransactionForEmployee, of which only occurred_at is used.       *)
LastForPerson(e) == Max({NoTime} \cup {row.occurredAt : row \in RowsOf(e)})

(* SecondsSinceLastRecordedTap: taps only, inside the debounce window, by  *)
(* the instant their transaction began.                                    *)
SecondsSinceLastRecordedTap(e) ==
  LET recent == {row \in RowsOf(e) : /\ row.channel \in Channels
                                     /\ row.createdAt > clock - DebounceWindow}
  IN  IF recent = {} THEN NoGap ELSE clock - Max({row.createdAt : row \in recent})

(* The (occurred_at, id) order of two rows.                                *)
Before(a, b) ==
  a.occurredAt < b.occurredAt \/ (a.occurredAt = b.occurredAt /\ a.id < b.id)

(* GetLastOpenTransaction: the check-ins open at the instant, of which the *)
(* last one's occurred_at is used.                                         *)
OpenAt(e, at) ==
  {i \in RowsOf(e) :
     /\ i.type = "in"
     /\ i.occurredAt <= at
     /\ ~\E o \in RowsOf(e) : o.type = "out" /\ Before(i, o) /\ o.occurredAt <= at}

LastOpenIn(e, at) == Max({NoTime} \cup {i.occurredAt : i \in OpenAt(e, at)})

---------------------------------------------------------------------------
(* Requests. *)

Idle ==
  [pc |-> "idle", in |-> CHOOSE i \in Inputs : TRUE, cmac |-> FALSE, issuedAt |-> 0,
   now |-> 0, status |-> "active", sunValid |-> FALSE, gap |-> 0, peer |-> "unasked",
   txStart |-> 0, policySet |-> guardrailsOnly, gatheredAt |-> 0,
   dec |-> [verdict |-> "none", type |-> "none", source |-> "none", security |-> FALSE]]

InTx == {"locked", "decided"}
Ended == {"done", "failed", "gated", "redirected"}
Running == {"pressed", "advanced", "waiting"} \cup InTx

Session(r) == EmpTenant[req[r].in.emp]
Site(r) == TagTenant[req[r].in.tag]
OwnTag(r) == Session(r) = Site(r)

(* The request's context ends RequestTimeout after it started.             *)
InTime(r) == clock <= req[r].now + RequestTimeout

Becomes(r, q) == req' = [req EXCEPT ![r] = q]
Move(r, pc) == Becomes(r, [req[r] EXCEPT !.pc = pc])

(* A request that ends without a record leaves nothing behind; one that    *)
(* recorded leaves what the properties look back at.                       *)
End(r, pc) == Becomes(r, [Idle EXCEPT !.pc = pc])
Keep(r, pc) ==
  Becomes(r, [Idle EXCEPT !.pc = pc, !.in = req[r].in, !.now = req[r].now,
                          !.sunValid = req[r].sunValid,
                          !.gatheredAt = req[r].gatheredAt, !.dec = req[r].dec])
Unlock(r) == lock' = [e \in Employees |-> IF lock[e] = r THEN NoRequest ELSE lock[e]]

(* The tap page (PreviewWithoutReplayProtection): the MAC is checked only  *)
(* for an active plaque, and the answer is signed into the page.           *)
VerifiedPreview(in) ==
  in.genuine /\ in.channel = "nfc" /\ tags[in.tag].status = "active"

OpenPage(r) ==
  /\ req[r].pc = "idle"
  /\ \E in \in Inputs :
       Becomes(r, [req[r] EXCEPT !.pc = "page", !.in = in, !.issuedAt = clock,
                                 !.cmac = VerifiedPreview(in)])
  /\ UNCHANGED <<clock, tags, emps, leftAt, lock, ledger, alerts>>

(* Mutant: a verified page is taken for an active plaque.                  *)
PressTrustingThePage(r) ==
  /\ req[r].pc = "page"
  /\ Becomes(r, [req[r] EXCEPT
                   !.pc = "pressed", !.now = clock,
                   !.status = IF req[r].cmac THEN @ ELSE tags[req[r].in.tag].status])
  /\ UNCHANGED <<clock, tags, emps, leftAt, lock, ledger, alerts>>

(* Record's first steps: the clock is read, the plaque resolved again.     *)
Press(r) ==
  /\ req[r].pc = "page"
  /\ Becomes(r, [req[r] EXCEPT !.pc = "pressed", !.now = clock,
                               !.status = tags[req[r].in.tag].status])
  /\ UNCHANGED <<clock, tags, emps, leftAt, lock, ledger, alerts>>

(* Mutant: the same counter passes again.                                  *)
NewerOrEqual(r) == tags[req[r].in.tag].lastCtr <= req[r].in.ctr

(* AdvanceTagCounter and holding_advance_tag_counter: the comparison and   *)
(* the move are one statement.                                             *)
Spendable(r) == req[r].in.channel = "nfc" /\ req[r].cmac /\ req[r].status = "active"
Newer(r) == tags[req[r].in.tag].lastCtr < req[r].in.ctr

Spend(r) ==
  /\ tags' = [tags EXCEPT ![req[r].in.tag].lastCtr = req[r].in.ctr]
  /\ Becomes(r, [req[r] EXCEPT
                    !.pc = "advanced", !.sunValid = TRUE,
                    !.gap = req[r].in.ctr - tags[req[r].in.tag].lastCtr - 1,
                    !.peer = IF OwnTag(r) THEN @ ELSE "peer"])

AdvanceSkipped(r) ==
  /\ ~Spendable(r)
  /\ Move(r, "advanced")
  /\ UNCHANGED tags

AdvanceOwn(r) ==
  /\ Spendable(r) /\ OwnTag(r)
  /\ IF Newer(r) THEN Spend(r) ELSE Move(r, "advanced") /\ UNCHANGED tags

(* Mutant: the advance keeps the grace period of the site gate.            *)
AdvanceAtAFormerPeer(r) ==
  /\ Spendable(r) /\ ~OwnTag(r)
  /\ TolerantPeers(Session(r), Site(r))
  /\ tags[req[r].in.tag].status = "active" /\ Newer(r)
  /\ Spend(r)

(* advanceAtAPeer: not_peer, peer_inactive, replay or advanced; the status *)
(* the statement saw replaces the resolved one.                            *)
AdvanceAtAPeer(r) ==
  LET now == tags[req[r].in.tag].status
  IN  /\ Spendable(r) /\ ~OwnTag(r)
      /\ \/ /\ ~StrictPeers(Session(r), Site(r))
            /\ Becomes(r, [req[r] EXCEPT !.pc = "advanced", !.peer = "stranger"])
            /\ UNCHANGED tags
         \/ /\ StrictPeers(Session(r), Site(r))
            /\ ~(now = "active" /\ Newer(r))
            /\ Becomes(r, [req[r] EXCEPT !.pc = "advanced", !.peer = "peer",
                                         !.status = now])
            /\ UNCHANGED tags
         \/ /\ StrictPeers(Session(r), Site(r))
            /\ now = "active" /\ Newer(r)
            /\ Spend(r)

Advance(r) ==
  /\ req[r].pc = "pressed"
  /\ InTime(r)
  /\ AdvanceSkipped(r) \/ AdvanceOwn(r) \/ AdvanceAtAPeer(r)
  /\ UNCHANGED <<clock, emps, leftAt, lock, ledger, alerts>>

(* policies.forTenant, which falls back to the guardrails alone, then      *)
(* BEGIN: a row's created_at is this transaction's start.                  *)
Begin(r) ==
  /\ req[r].pc = "advanced"
  /\ InTime(r)
  /\ \E set \in PolicySets \cup {guardrailsOnly} :
       Becomes(r, [req[r] EXCEPT !.pc = "waiting", !.policySet = set,
                                 !.txStart = clock])
  /\ UNCHANGED <<clock, tags, emps, leftAt, lock, ledger, alerts>>

(* Mutant: the transaction goes on without the person's lock.              *)
LockNobody(r) ==
  /\ req[r].pc = "waiting"
  /\ InTime(r)
  /\ Move(r, "locked")
  /\ UNCHANGED <<clock, tags, emps, leftAt, lock, ledger, alerts>>

LockEmployeeForTap(r) ==
  /\ req[r].pc = "waiting"
  /\ InTime(r)
  /\ lock[req[r].in.emp] = NoRequest
  /\ lock' = [lock EXCEPT ![req[r].in.emp] = r]
  /\ Move(r, "locked")
  /\ UNCHANGED <<clock, tags, emps, leftAt, ledger, alerts>>

(* peerSite: nothing to read for an own plaque or a known stranger; what   *)
(* the advance established about the peer stands.                          *)
SiteRead(r) ==
  /\ ~OwnTag(r)
  /\ req[r].peer # "stranger"
  /\ StrictPeers(Session(r), Site(r))

SameHolding(r) ==
  /\ ~OwnTag(r)
  /\ req[r].peer = "peer" \/ (req[r].peer = "unasked" /\ SiteRead(r))

(* The plaque's status: the advance's, else the peer site's, else the one  *)
(* resolved at the press.                                                  *)
DecidedStatus(r) ==
  IF SiteRead(r) /\ req[r].peer = "unasked"
  THEN tags[req[r].in.tag].status
  ELSE req[r].status

(* The tapped wall is readable when it is the session's own tenant's or    *)
(* its peer site was read; without it there is no evidence of place.       *)
WallRead(r) ==
  \/ OwnTag(r) /\ req[r].status # "unassigned"
  \/ SiteRead(r) /\ tags[req[r].in.tag].status # "unassigned"

gatherWith(r) ==
  LET q == req[r]
      e == q.in.emp
      fromClient == q.in.declared # NoTime
      at == IF fromClient THEN q.in.declared ELSE q.now
  IN  [now |-> q.now, occurredAt |-> at, fromClient |-> fromClient,
       pageIssuedAt |-> q.issuedAt, channel |-> q.in.channel,
       sunValid |-> q.sunValid, ctrGap |-> q.gap,
       tagStatus |-> DecidedStatus(r), location |-> "wall",
       employeeStatus |-> emps[e],
       tagTenant |-> Site(r), session |-> Session(r), sameHolding |-> SameHolding(r),
       ipMatch |-> q.in.ip /\ WallRead(r),
       gps |-> IF WallRead(r) THEN q.in.gps ELSE "none",
       lastForPerson |-> LastForPerson(e),
       sinceRecorded |-> SecondsSinceLastRecordedTap(e),
       lastOpenIn |-> LastOpenIn(e, at),
       dayOn |-> BusinessDayOn,
       want |-> IF BusinessDayOn THEN q.in.want ELSE "none",
       policySet |-> q.policySet]

(* Gather and decide; a redirect commits without a row.                    *)
GatherAndDecide(r) ==
  /\ req[r].pc = "locked"
  /\ InTime(r)
  /\ \E in \in {gatherWith(r)} : \E d \in {Decide(in)} :
       \/ /\ d.redirect
          /\ End(r, "redirected")
          /\ Unlock(r)
       \/ /\ ~d.redirect
          /\ Becomes(r, [req[r] EXCEPT
               !.pc = "decided", !.gatheredAt = clock,
               !.dec = [verdict |-> d.verdict, type |-> d.type, source |-> d.source,
                        security |-> d.security]])
          /\ UNCHANGED lock
  /\ UNCHANGED <<clock, tags, emps, leftAt, ledger, alerts>>

(* Mutant: the gate has no grace for a counter already spent.              *)
SiteGateStrict(r) == OwnTag(r) \/ StrictPeers(Session(r), Site(r))

(* holding_site_gate: a row that names a peer's site needs the membership  *)
(* at the statement; a spent counter, or a refusal, keeps the grace.       *)
SiteGate(r) ==
  LET q == req[r]
      advanced == q.in.channel = "nfc" /\ tags[q.in.tag].lastCtr >= q.in.ctr
      tolerant == \/ q.in.channel = "nfc" /\ q.sunValid /\ advanced
                  \/ q.dec.verdict = "reject" /\ (~q.sunValid \/ advanced)
  IN  \/ OwnTag(r)
      \/ tolerant /\ TolerantPeers(Session(r), Site(r))
      \/ ~tolerant /\ StrictPeers(Session(r), Site(r))

rowOf(r, id) ==
  LET q == req[r]
  IN  [id |-> id, emp |-> q.in.emp, channel |-> q.in.channel,
       tag |-> q.in.tag, ctr |-> q.in.ctr, sunValid |-> q.sunValid,
       verdict |-> q.dec.verdict, type |-> q.dec.type, source |-> q.dec.source,
       occurredAt |-> IF q.in.declared # NoTime THEN q.in.declared ELSE q.now,
       createdAt |-> q.txStart, by |-> r]

FreeIds == RowIds \ {row.id : row \in ledger}

Write(r) ==
  /\ req[r].pc = "decided"
  /\ InTime(r)
  /\ Unlock(r)
  /\ \/ /\ ~SiteGate(r)
        /\ Keep(r, "gated")
        /\ UNCHANGED ledger
     \/ /\ SiteGate(r)
        /\ \E id \in FreeIds :
             /\ ledger' = ledger \cup {rowOf(r, id)}
             /\ Keep(r, "recorded")
  /\ UNCHANGED <<clock, tags, emps, leftAt, alerts>>

(* After the commit: the security alert, if the decision raised one.       *)
After(r) ==
  /\ req[r].pc = "recorded"
  /\ alerts' = IF req[r].dec.security THEN alerts \cup {r} ELSE alerts
  /\ Move(r, "done")
  /\ UNCHANGED <<clock, tags, emps, leftAt, lock, ledger>>

(* The process dies between the commit and the alert.                      *)
AlertLost(r) ==
  /\ req[r].pc = "recorded"
  /\ Move(r, "done")
  /\ UNCHANGED <<clock, tags, emps, leftAt, lock, ledger, alerts>>

(* Mutant: a failed request keeps its lock.                                *)
FailHoldingTheLock(r) ==
  /\ req[r].pc \in Running
  /\ End(r, "failed")
  /\ UNCHANGED <<clock, tags, emps, leftAt, lock, ledger, alerts>>

(* A disconnect, the timeout, a database error or a crash: the transaction *)
(* rolls back and takes its lock with it, a spent counter stays spent.     *)
Fail(r) ==
  /\ req[r].pc \in Running
  /\ End(r, "failed")
  /\ Unlock(r)
  /\ UNCHANGED <<clock, tags, emps, leftAt, ledger, alerts>>

---------------------------------------------------------------------------
(* The rest of the product, as far as a tap can see it. *)

Tick ==
  /\ clock < MaxTime
  /\ clock' = clock + 1
  /\ UNCHANGED <<tags, emps, leftAt, lock, ledger, alerts, req>>

SetStatus(t, from, to) ==
  /\ tags[t].status = from
  /\ tags' = [tags EXCEPT ![t].status = to,
                          ![t].offSince = IF to = "active" THEN Forever ELSE clock]
  /\ UNCHANGED <<clock, emps, leftAt, lock, ledger, alerts, req>>

RetireTagForReplacement(t) == SetStatus(t, "active", "retired")
UnmountTagFromWall(t) == SetStatus(t, "active", "unassigned")
AssignTagToLocation(t) == SetStatus(t, "unassigned", "active")

DeactivateEmployee(e) ==
  /\ emps[e] = "active"
  /\ emps' = [emps EXCEPT ![e] = "deactivated"]
  /\ UNCHANGED <<clock, tags, leftAt, lock, ledger, alerts, req>>

LeaveHolding(t) ==
  /\ leftAt[t] = Forever
  /\ leftAt' = [leftAt EXCEPT ![t] = clock]
  /\ UNCHANGED <<clock, tags, emps, lock, ledger, alerts, req>>

(* A manager's record: under the same lock, dated at most FutureGrace      *)
(* ahead, in one short transaction.                                        *)
manualRow(id, e, type, at) ==
  [id |-> id, emp |-> e, channel |-> "manual",
   tag |-> CHOOSE t \in Tags : TRUE, ctr |-> 0, sunValid |-> FALSE,
   verdict |-> "ok", type |-> type, source |-> "none",
   occurredAt |-> at, createdAt |-> clock, by |-> NoRequest]

ManualRecord(e) ==
  /\ lock[e] = NoRequest
  /\ Cardinality({row \in ledger : row.channel = "manual"}) < MaxManual
  /\ \E id \in FreeIds, type \in {"in", "out"}, at \in 0..(clock + FutureGrace) :
       ledger' = ledger \cup {manualRow(id, e, type, at)}
  /\ UNCHANGED <<clock, tags, emps, leftAt, lock, alerts, req>>

---------------------------------------------------------------------------
Init ==
  /\ clock = 0
  /\ \E s \in [Tags -> InitialStatuses] :
       tags = [t \in Tags |-> [status |-> s[t], lastCtr |-> 0,
                               offSince |-> IF s[t] = "active" THEN Forever ELSE 0]]
  /\ emps = [e \in Employees |-> "active"]
  /\ leftAt = [t \in Tenants |-> IF t \in Members THEN Forever ELSE -Grace]
  /\ lock = [e \in Employees |-> NoRequest]
  /\ ledger = {}
  /\ alerts = {}
  /\ req = [r \in Requests |-> Idle]

Tap(r) ==
  \/ OpenPage(r) \/ Press(r) \/ Advance(r) \/ Begin(r) \/ LockEmployeeForTap(r)
  \/ GatherAndDecide(r) \/ Write(r) \/ After(r)
  \/ AlertLost(r) \/ Fail(r)

Environment ==
  \/ Tick
  \/ \E t \in ManagedTags :
       RetireTagForReplacement(t) \/ UnmountTagFromWall(t) \/ AssignTagToLocation(t)
  \/ \E e \in ManagedEmps : DeactivateEmployee(e)
  \/ \E e \in Employees : ManualRecord(e)
  \/ \E t \in Tenants : LeaveHolding(t)

Next == (\E r \in Requests : Tap(r)) \/ Environment

Spec == Init /\ [][Next]_vars

---------------------------------------------------------------------------
(* Properties. *)

Pcs == {"idle", "page", "recorded"} \cup Running \cup Ended

(* The columns of a row, and the request that wrote it (NoRequest for a    *)
(* manual one), which is not a column.                                     *)
RowType ==
  [id : RowIds, emp : Employees, channel : Channels \cup {"manual"}, tag : Tags,
   ctr : 0..MaxCtr, sunValid : BOOLEAN, verdict : Verdicts,
   type : {"none", "in", "out"}, source : {"none", "auto", "employee"},
   occurredAt : Nat, createdAt : Nat, by : Requests \cup {NoRequest}]

ReqType ==
  [pc : Pcs, in : InputType, cmac : BOOLEAN, issuedAt : Nat, now : Nat,
   status : TagStatuses, sunValid : BOOLEAN, gap : Int,
   peer : {"unasked", "peer", "stranger"}, txStart : Nat,
   policySet : PolicySets \cup {guardrailsOnly}, gatheredAt : Nat,
   dec : [verdict : Verdicts \cup {"none"}, type : {"none", "in", "out"},
          source : {"none", "auto", "employee"}, security : BOOLEAN]]

(* Every variable holds a value of its type.                               *)
TypeOK ==
  /\ clock \in Nat
  /\ tags \in [Tags -> [status : TagStatuses, lastCtr : 0..MaxCtr, offSince : Nat]]
  /\ emps \in [Employees -> EmployeeStatuses]
  /\ leftAt \in [Tenants -> Int]
  /\ lock \in [Employees -> Requests \cup {NoRequest}]
  /\ ledger \subseteq RowType
  /\ alerts \subseteq Requests
  /\ req \in [Requests -> ReqType]

CountedTap(row) == row.by # NoRequest /\ row.verdict \in Counted

(* No chip read is accepted twice: of all the rows, by whichever requests  *)
(* and whichever people, at most one is SUN-valid for a plaque's counter   *)
(* value (advance and AdvanceTagCounter).                                  *)
ReplaySafe ==
  \A a, b \in ledger :
    a.sunValid /\ b.sunValid /\ a.tag = b.tag /\ a.ctr = b.ctr => a = b

(* A plaque's counter only goes up, and only for a read whose MAC was      *)
(* verified, by a session of the plaque's own tenant or of one that is its *)
(* peer at that instant (advance, advanceAtAPeer).                         *)
CounterMovesOnlyForItsReaders ==
  [][\A t \in Tags : tags'[t].lastCtr # tags[t].lastCtr =>
       /\ tags'[t].lastCtr > tags[t].lastCtr
       /\ \E r \in Requests :
            /\ req[r].in.tag = t /\ req[r].in.ctr = tags'[t].lastCtr /\ req[r].cmac
            /\ OwnTag(r) \/ StrictPeers(Session(r), Site(r))]_vars

(* Of two counted taps of one person, the later decision came at least a   *)
(* debounce window after the other's transaction began, however their      *)
(* requests interleaved (LockEmployeeForTap, SecondsSinceLastRecordedTap). *)
DebounceHolds ==
  \A a, b \in ledger :
    CountedTap(a) /\ CountedTap(b) /\ a.emp = b.emp /\ a # b =>
      \/ req[b.by].gatheredAt - a.createdAt >= DebounceWindow
      \/ req[a.by].gatheredAt - b.createdAt >= DebounceWindow

(* While all of a person's directed records are live taps the engine gave  *)
(* the direction of, and check-ins a manager entered, every checkout comes *)
(* after a check-in that no other checkout has closed: none lies between   *)
(* the two in the ledger's order (resolveDirection, GetLastOpenTransaction,*)
(* though `now` is read before the lock and a tap may overtake another).   *)
LiveTapsAlternate ==
  \A e \in Employees :
    LET directed == {row \in RowsOf(e) : row.type # "none"}
        live(row) == /\ row.by # NoRequest
                     /\ row.source = "auto"
                     /\ req[row.by].in.declared = NoTime
        entered(row) == row.channel = "manual" /\ row.type = "in"
    IN  (\A row \in directed : live(row) \/ entered(row)) =>
          \A o \in directed : o.type = "out" =>
            \E i \in directed :
              /\ i.type = "in" /\ i.occurredAt <= o.occurredAt
              /\ ~\E x \in directed \ {o} :
                    x.type = "out" /\ Before(i, x) /\ x.occurredAt <= o.occurredAt

(* A tap pressed after its plaque left service never counts, though its    *)
(* page was opened, and its MAC verified, while it was active.             *)
InactiveTagNeverCounts ==
  \A row \in ledger :
    CountedTap(row) => req[row.by].now <= tags[row.tag].offSince

(* A tap that spent a peer's counter is never refused by the site gate     *)
(* because the membership ended meanwhile (holding_site_gate's grace).     *)
SpentCounterNeverGated ==
  \A r \in Requests : req[r].pc = "gated" => ~req[r].sunValid

(* A request decides and writes exactly while it holds its person's lock:  *)
(* none goes on without it, and none that ended, in whatever way, leaves   *)
(* it behind for everybody who waits (LockEmployeeForTap, the rollback).   *)
LockHeldInTransaction ==
  /\ \A r \in Requests : req[r].pc \in InTx => lock[req[r].in.emp] = r
  /\ \A e \in Employees : lock[e] # NoRequest =>
       req[lock[e]].pc \in InTx /\ req[lock[e]].in.emp = e
=============================================================================

--------------------------- MODULE CheckinProofs ---------------------------
(***************************************************************************)
(* Theorems about Checkin, for every set of requests, plaques, people and  *)
(* tenants, every policy set and every bound.                              *)
(***************************************************************************)
EXTENDS Checkin, WellFoundedInduction, TLAPS

---------------------------------------------------------------------------
(* What Decide returns, whatever the policy set says. *)

(* A decision's fields have their types, and only a redirect is without a  *)
(* verdict (Decide's switch on the policy effect).                         *)
LEMMA DecideType ==
  ASSUME NEW in
  PROVE  LET d == Decide(in)
         IN  /\ d.verdict \in Verdicts \cup {"none"}
             /\ ~d.redirect => d.verdict \in Verdicts
             /\ d.type \in {"none", "in", "out"}
             /\ d.source \in {"none", "auto", "employee"}
             /\ d.security \in BOOLEAN
<1> DEFINE pd == Evaluate(in.policySet, policyContext(in))
           r  == resolveDirection(in)
<1>1. /\ verdictOf(pd.effect) \in Verdicts \cup {"none"}
      /\ pd.effect # "redirect" => verdictOf(pd.effect) \in Verdicts
  BY DEF verdictOf, Verdicts
<1>2. r.dir \in {"in", "out"} /\ r.source \in {"auto", "employee"}
  BY DEF resolveDirection, PredictDirection
<1>3. pd.alert \in BOOLEAN
  BY DEF Evaluate, Alert, defaultDecision
<1> DEFINE v == verdictOf(pd.effect)
           d == Decide(in)
<1>4. /\ d.verdict = v
      /\ d.redirect = (pd.effect = "redirect")
      /\ d.type = IF v \in Counted THEN r.dir ELSE "none"
      /\ d.source = IF v \in Counted THEN r.source ELSE "none"
      /\ d.security = pd.alert
  BY Zenon DEF Decide
<1> HIDE DEF pd, r, v, d
<1>5. /\ d.verdict \in Verdicts \cup {"none"}
      /\ ~d.redirect => d.verdict \in Verdicts
  BY <1>1, <1>4, Zenon DEF v
<1>6. d.type \in {"none", "in", "out"} /\ d.source \in {"none", "auto", "employee"}
  BY <1>2, <1>4, Zenon
<1>7. d.security \in BOOLEAN
  BY <1>3, <1>4, Zenon
<1> QED
  BY <1>5, <1>6, <1>7, Zenon DEF d

---------------------------------------------------------------------------
(* Types. *)

(* A request that has decided holds a verdict: what Write puts in a row is *)
(* never Decide's answer to a redirect.                                    *)
DecidedHasVerdict ==
  \A r \in Requests : req[r].pc = "decided" => req[r].dec.verdict \in Verdicts

TypeInv == TypeOK /\ DecidedHasVerdict

(* The fields of an input that the actions compute with.                   *)
LEMMA InputFields ==
  ASSUME NEW in \in InputType
  PROVE  /\ in.emp \in Employees /\ in.tag \in Tags
         /\ in.channel \in Channels /\ in.ctr \in 0..MaxCtr
         /\ in.declared \in Nat \cup {NoTime}
         /\ in.genuine \in BOOLEAN
BY DEF InputType

(* A request before it opens a page is well typed.                         *)
LEMMA IdleType == Idle \in ReqType /\ Idle.pc = "idle"
<1>1. (CHOOSE i \in Inputs : TRUE) \in InputType
  BY CheckinAssumption, Zenon
<1> QED
  BY <1>1 DEF Idle, ReqType, Pcs, TagStatuses

(* A request that moves to a well-typed state leaves every other request   *)
(* where it was.                                                           *)
LEMMA BecomesType ==
  ASSUME TypeInv, NEW r \in Requests, NEW q \in ReqType, Becomes(r, q),
         q.pc = "decided" => q.dec.verdict \in Verdicts
  PROVE  req' \in [Requests -> ReqType] /\ DecidedHasVerdict'
BY DEF TypeInv, TypeOK, Becomes, DecidedHasVerdict

(* Move, End and Keep, the three ways a request ends a stage.              *)
LEMMA MoveType ==
  ASSUME TypeInv, NEW r \in Requests, NEW pc \in Pcs \ {"decided"}, Move(r, pc)
  PROVE  req' \in [Requests -> ReqType] /\ DecidedHasVerdict'
<1> DEFINE q == [req[r] EXCEPT !.pc = pc]
<1>1. q \in ReqType /\ q.pc # "decided"
  BY DEF TypeInv, TypeOK, ReqType
<1> QED
  BY <1>1, BecomesType DEF Move

\* A request that ends keeps nothing and is well typed.
LEMMA EndType ==
  ASSUME TypeInv, NEW r \in Requests, NEW pc \in Pcs \ {"decided"}, End(r, pc)
  PROVE  req' \in [Requests -> ReqType] /\ DecidedHasVerdict'
<1> DEFINE q == [Idle EXCEPT !.pc = pc]
<1>1. q \in ReqType /\ q.pc # "decided"
  BY IdleType DEF ReqType
<1> QED
  BY <1>1, BecomesType DEF End

\* A request that has recorded, or was refused, keeps what the properties look
\* back at and is well typed.
LEMMA KeepType ==
  ASSUME TypeInv, NEW r \in Requests, NEW pc \in Pcs \ {"decided"}, Keep(r, pc)
  PROVE  req' \in [Requests -> ReqType] /\ DecidedHasVerdict'
<1> DEFINE q == [Idle EXCEPT !.pc = pc, !.in = req[r].in, !.now = req[r].now,
                             !.sunValid = req[r].sunValid,
                             !.gatheredAt = req[r].gatheredAt, !.dec = req[r].dec]
<1>1. req[r] \in ReqType
  BY DEF TypeInv, TypeOK
<1>2. q \in ReqType /\ q.pc # "decided"
  BY <1>1, IdleType DEF ReqType
<1> QED
  BY <1>2, BecomesType DEF Keep

(* Releasing a request's lock leaves a table of requests.                  *)
LEMMA UnlockType ==
  ASSUME lock \in [Employees -> Requests \cup {NoRequest}], NEW r, Unlock(r)
  PROVE  lock' \in [Employees -> Requests \cup {NoRequest}]
BY DEF Unlock

(* The row a decided request writes is well typed.                         *)
LEMMA RowTyped ==
  ASSUME TypeInv, NEW r \in Requests, req[r].pc = "decided", NEW id \in RowIds
  PROVE  rowOf(r, id) \in RowType
<1>1. req[r] \in ReqType /\ req[r].in \in InputType
  BY DEF TypeInv, TypeOK, ReqType
<1>2. req[r].dec.verdict \in Verdicts
  BY DEF TypeInv, DecidedHasVerdict
<1> QED
  BY <1>1, <1>2, InputFields DEF rowOf, RowType, ReqType, NoTime


\* The initial states have the types.
LEMMA TypeInit == Init => TypeInv
<1> SUFFICES ASSUME Init PROVE TypeInv
  OBVIOUS
<1>1. clock \in Nat /\ ledger \subseteq RowType /\ alerts \subseteq Requests
  BY DEF Init
<1>2. tags \in [Tags -> [status : TagStatuses, lastCtr : 0..MaxCtr, offSince : Nat]]
  <2>1. PICK s \in [Tags -> InitialStatuses] :
          tags = [t \in Tags |-> [status |-> s[t], lastCtr |-> 0,
                                  offSince |-> IF s[t] = "active" THEN Forever ELSE 0]]
    BY DEF Init
  <2>2. Forever \in Nat /\ InitialStatuses \subseteq TagStatuses /\ MaxCtr \in Nat
    BY CheckinAssumption DEF Forever
  <2> QED
    BY <2>1, <2>2
<1>3. emps \in [Employees -> EmployeeStatuses]
  BY DEF Init, EmployeeStatuses
<1>4. leftAt \in [Tenants -> Int]
  BY CheckinAssumption DEF Init, Forever
<1>5. lock \in [Employees -> Requests \cup {NoRequest}]
  BY DEF Init
<1>6. req \in [Requests -> ReqType] /\ DecidedHasVerdict
  BY IdleType DEF Init, DecidedHasVerdict
<1> QED
  BY <1>1, <1>2, <1>3, <1>4, <1>5, <1>6 DEF TypeInv, TypeOK

(* One step per operation; the ledger and the requests are what they       *)
(* disturb.                                                                *)
LEMMA TypeNext == TypeInv /\ [Next]_vars => TypeInv'
<1> SUFFICES ASSUME TypeInv, [Next]_vars PROVE TypeInv'
  OBVIOUS
<1> USE DEF TypeInv
<1>0. /\ clock \in Nat
      /\ tags \in [Tags -> [status : TagStatuses, lastCtr : 0..MaxCtr, offSince : Nat]]
      /\ req \in [Requests -> ReqType]
      /\ lock \in [Employees -> Requests \cup {NoRequest}]
  BY DEF TypeOK
<1>a. /\ NoRequest \notin Requests /\ Forever \in Nat /\ MaxCtr \in Nat
      /\ MaxTime \in Nat /\ FutureGrace \in Nat
  BY CheckinAssumption DEF Forever
<1>1. ASSUME NEW r \in Requests, OpenPage(r)
      PROVE  TypeInv'
  <2>1. PICK in \in Inputs :
          Becomes(r, [req[r] EXCEPT !.pc = "page", !.in = in, !.issuedAt = clock,
                                    !.cmac = VerifiedPreview(in)])
    BY <1>1 DEF OpenPage
  <2> DEFINE q == [req[r] EXCEPT !.pc = "page", !.in = in, !.issuedAt = clock,
                                 !.cmac = VerifiedPreview(in)]
  <2>2. in \in InputType
    BY CheckinAssumption
  <2>3. VerifiedPreview(in) \in BOOLEAN
    BY <2>2, InputFields DEF VerifiedPreview
  <2>4. req[r] \in ReqType /\ clock \in Nat /\ "page" \in Pcs
    BY <1>0 DEF Pcs
  <2>5. q \in ReqType /\ q.pc = "page"
    BY <2>2, <2>3, <2>4 DEF ReqType
  <2> QED
    BY <1>1, <2>1, <2>5, BecomesType DEF OpenPage, TypeOK
<1>2. ASSUME NEW r \in Requests, Press(r)
      PROVE  TypeInv'
  <2> DEFINE q == [req[r] EXCEPT !.pc = "pressed", !.now = clock,
                                 !.status = tags[req[r].in.tag].status]
  <2>1. tags[req[r].in.tag].status \in TagStatuses
    BY <1>0, InputFields DEF ReqType
  <2>2. req[r] \in ReqType /\ clock \in Nat /\ "pressed" \in Pcs
    BY <1>0 DEF Pcs, Running
  <2>3. q \in ReqType /\ q.pc = "pressed"
    BY <2>1, <2>2 DEF ReqType
  <2> QED
    BY <1>2, <2>3, BecomesType DEF Press, TypeOK
<1>3. ASSUME NEW r \in Requests, Advance(r)
      PROVE  TypeInv'
  <2> DEFINE tag == req[r].in.tag
  <2>1. req[r] \in ReqType /\ tag \in Tags /\ req[r].in.ctr \in 0..MaxCtr
    BY <1>0, InputFields DEF ReqType
  <2>2. tags[tag].status \in TagStatuses /\ tags[tag].lastCtr \in 0..MaxCtr
    BY <1>0, <2>1
  <2>3. "advanced" \in Pcs \ {"decided"}
    BY DEF Pcs, Running
  <2> DEFINE Typed == /\ tags' \in [Tags -> [status : TagStatuses, lastCtr : 0..MaxCtr,
                                             offSince : Nat]]
                      /\ req' \in [Requests -> ReqType] /\ DecidedHasVerdict'
  <2>4. ASSUME Spend(r) PROVE Typed
    <3>1. tags' \in [Tags -> [status : TagStatuses, lastCtr : 0..MaxCtr, offSince : Nat]]
      BY <1>0, <2>1, <2>4 DEF Spend
    <3> DEFINE g == req[r].in.ctr - tags[tag].lastCtr - 1
               q == [req[r] EXCEPT !.pc = "advanced", !.sunValid = TRUE, !.gap = g,
                                   !.peer = IF OwnTag(r) THEN @ ELSE "peer"]
    <3>2. g \in Int
      BY <1>a, <2>1, <2>2
    <3> HIDE DEF g
    <3>3. q \in ReqType /\ q.pc = "advanced"
      BY <2>1, <2>3, <3>2 DEF ReqType
    <3> QED
      BY <2>4, <3>1, <3>3, BecomesType DEF Spend, g
  <2>5. ASSUME Move(r, "advanced"), UNCHANGED tags PROVE Typed
    BY <1>0, <2>3, <2>5, MoveType
  <2>6. ASSUME NEW s \in TagStatuses, NEW p \in {"peer", "stranger"}, UNCHANGED tags,
               \/ Becomes(r, [req[r] EXCEPT !.pc = "advanced", !.peer = p])
               \/ Becomes(r, [req[r] EXCEPT !.pc = "advanced", !.peer = p, !.status = s])
        PROVE  Typed
    <3>1. /\ [req[r] EXCEPT !.pc = "advanced", !.peer = p] \in ReqType
          /\ [req[r] EXCEPT !.pc = "advanced", !.peer = p, !.status = s] \in ReqType
          /\ [req[r] EXCEPT !.pc = "advanced", !.peer = p].pc = "advanced"
          /\ [req[r] EXCEPT !.pc = "advanced", !.peer = p, !.status = s].pc = "advanced"
      BY <2>1, <2>3 DEF ReqType
    <3> QED
      BY <1>0, <2>6, <3>1, BecomesType
  <2>7. Typed
    <3> HIDE DEF Typed
    <3>1. CASE AdvanceSkipped(r)
      BY <3>1, <2>5 DEF AdvanceSkipped
    <3>2. CASE AdvanceOwn(r)
      BY <3>2, <2>4, <2>5 DEF AdvanceOwn
    <3>3. CASE AdvanceAtAPeer(r)
      BY <3>3, <2>2, <2>4, <2>6 DEF AdvanceAtAPeer
    <3> QED
      BY <1>3, <3>1, <3>2, <3>3 DEF Advance
  <2> QED
    BY <1>3, <2>7 DEF Advance, TypeOK
<1>4. ASSUME NEW r \in Requests, Begin(r)
      PROVE  TypeInv'
  <2>1. PICK set \in PolicySets \cup {guardrailsOnly} :
          Becomes(r, [req[r] EXCEPT !.pc = "waiting", !.policySet = set,
                                    !.txStart = clock])
    BY <1>4 DEF Begin
  <2> DEFINE q == [req[r] EXCEPT !.pc = "waiting", !.policySet = set, !.txStart = clock]
  <2>2. req[r] \in ReqType /\ clock \in Nat /\ "waiting" \in Pcs
    BY <1>0 DEF Pcs, Running
  <2>3. q \in ReqType /\ q.pc = "waiting"
    BY <2>2 DEF ReqType
  <2> QED
    BY <1>4, <2>1, <2>3, BecomesType DEF Begin, TypeOK
<1>5. ASSUME NEW r \in Requests, LockEmployeeForTap(r)
      PROVE  TypeInv'
  <2>1. lock' \in [Employees -> Requests \cup {NoRequest}]
    BY <1>0, <1>5 DEF LockEmployeeForTap
  <2>2. "locked" \in Pcs \ {"decided"}
    BY DEF Pcs, Running, InTx
  <2> QED
    BY <1>5, <2>1, <2>2, MoveType DEF LockEmployeeForTap, TypeOK
<1>6. ASSUME NEW r \in Requests, GatherAndDecide(r)
      PROVE  TypeInv'
  <2>1. PICK d \in {Decide(gatherWith(r))} :
          \/ d.redirect /\ End(r, "redirected") /\ Unlock(r)
          \/ /\ ~d.redirect
             /\ Becomes(r, [req[r] EXCEPT
                  !.pc = "decided", !.gatheredAt = clock,
                  !.dec = [verdict |-> d.verdict, type |-> d.type, source |-> d.source,
                           security |-> d.security]])
             /\ UNCHANGED lock
    BY <1>6 DEF GatherAndDecide
  <2>2. CASE d.redirect
    <3>1. "redirected" \in Pcs \ {"decided"}
      BY DEF Pcs, Ended
    <3> QED
      BY <1>0, <1>6, <2>1, <2>2, <3>1, EndType, UnlockType DEF GatherAndDecide, TypeOK
  <2>3. CASE ~d.redirect
    <3>1. /\ d.verdict \in Verdicts /\ d.type \in {"none", "in", "out"}
          /\ d.source \in {"none", "auto", "employee"} /\ d.security \in BOOLEAN
      BY <2>1, <2>3, DecideType, Zenon
    <3> DEFINE q == [req[r] EXCEPT
                      !.pc = "decided", !.gatheredAt = clock,
                      !.dec = [verdict |-> d.verdict, type |-> d.type,
                               source |-> d.source, security |-> d.security]]
    <3>2. req[r] \in ReqType /\ clock \in Nat /\ "decided" \in Pcs
      BY <1>0 DEF Pcs, Running, InTx
    <3>3. q \in ReqType /\ q.dec.verdict \in Verdicts
      BY <3>1, <3>2 DEF ReqType
    <3> QED
      BY <1>6, <2>1, <2>3, <3>3, BecomesType DEF GatherAndDecide, TypeOK
  <2> QED
    BY <2>2, <2>3
<1>7. ASSUME NEW r \in Requests, Write(r)
      PROVE  TypeInv'
  <2>1. "gated" \in Pcs \ {"decided"} /\ "recorded" \in Pcs \ {"decided"}
    BY DEF Pcs, Ended
  <2>2. req' \in [Requests -> ReqType] /\ DecidedHasVerdict'
    BY <1>7, <2>1, KeepType DEF Write
  <2>3. ledger' \subseteq RowType
    <3>1. ledger' = ledger \/ \E id \in RowIds : ledger' = ledger \cup {rowOf(r, id)}
      BY <1>7 DEF Write, FreeIds
    <3> QED
      BY <1>7, <3>1, RowTyped DEF Write, TypeOK
  <2> QED
    BY <1>0, <1>7, <2>2, <2>3, UnlockType DEF Write, TypeOK
<1>8. ASSUME NEW r \in Requests, After(r) \/ AlertLost(r)
      PROVE  TypeInv'
  <2>1. "done" \in Pcs \ {"decided"}
    BY DEF Pcs, Ended
  <2> QED
    BY <1>8, <2>1, MoveType DEF After, AlertLost, TypeOK
<1>9. ASSUME NEW r \in Requests, Fail(r)
      PROVE  TypeInv'
  <2>1. "failed" \in Pcs \ {"decided"}
    BY DEF Pcs, Ended
  <2> QED
    BY <1>0, <1>9, <2>1, EndType, UnlockType DEF Fail, TypeOK
<1>10. ASSUME UNCHANGED req PROVE DecidedHasVerdict'
  BY <1>10 DEF DecidedHasVerdict
<1>11. CASE Tick
  BY <1>11, <1>10 DEF Tick, TypeOK
<1>12. ASSUME NEW t \in Tags, NEW from, NEW to \in TagStatuses, SetStatus(t, from, to)
       PROVE  TypeInv'
  <2>1. tags' \in [Tags -> [status : TagStatuses, lastCtr : 0..MaxCtr, offSince : Nat]]
    BY <1>0, <1>a, <1>12 DEF SetStatus
  <2> QED
    BY <1>12, <1>10, <2>1 DEF SetStatus, TypeOK
<1>13. CASE \E t \in ManagedTags :
              RetireTagForReplacement(t) \/ UnmountTagFromWall(t) \/ AssignTagToLocation(t)
  BY <1>13, <1>12, CheckinAssumption
     DEF RetireTagForReplacement, UnmountTagFromWall, AssignTagToLocation, TagStatuses
<1>14. CASE \E e \in ManagedEmps : DeactivateEmployee(e)
  BY <1>14, <1>10, CheckinAssumption DEF DeactivateEmployee, TypeOK, EmployeeStatuses
<1>15. CASE \E t \in Tenants : LeaveHolding(t)
  BY <1>15, <1>0, <1>10 DEF LeaveHolding, TypeOK
<1>16. CASE \E e \in Employees : ManualRecord(e)
  <2>1. PICK e \in Employees : ManualRecord(e)
    BY <1>16
  <2>2. PICK id \in FreeIds, type \in {"in", "out"}, at \in 0..(clock + FutureGrace) :
          ledger' = ledger \cup {manualRow(id, e, type, at)}
    BY <2>1 DEF ManualRecord
  <2>3. (CHOOSE t \in Tags : TRUE) \in Tags
    <3>1. PICK i \in Inputs : i \in InputType
      BY CheckinAssumption
    <3>2. i.tag \in Tags
      BY <3>1, InputFields
    <3> QED
      BY <3>2, Zenon
  <2>4. id \in RowIds /\ at \in Nat
    BY <1>0, <1>a, <2>2 DEF FreeIds
  <2> DEFINE tag == CHOOSE t \in Tags : TRUE
             row == [id |-> id, emp |-> e, channel |-> "manual",
                     tag |-> tag, ctr |-> 0, sunValid |-> FALSE,
                     verdict |-> "ok", type |-> type, source |-> "none",
                     occurredAt |-> at, createdAt |-> clock, by |-> NoRequest]
  <2>5. tag \in Tags /\ row = manualRow(id, e, type, at)
    BY <2>3 DEF manualRow
  <2> HIDE DEF tag
  <2>6. row \in RowType
    BY <1>0, <1>a, <2>4, <2>5 DEF RowType, Verdicts
  <2> HIDE DEF row
  <2> QED
    BY <2>1, <2>2, <2>5, <2>6, <1>10 DEF ManualRecord, TypeOK
<1>17. CASE UNCHANGED vars
  BY <1>17, <1>10 DEF vars, TypeOK
<1> HIDE DEF TypeInv
<1> QED
  BY <1>1, <1>2, <1>3, <1>4, <1>5, <1>6, <1>7, <1>8, <1>9, <1>11, <1>13, <1>14, <1>15,
     <1>16, <1>17 DEF Next, Tap, Environment

(* Every variable keeps its type: in particular a row's verdict is one of  *)
(* the four, never the answer to a redirect, and a counter never leaves    *)
(* its range.                                                              *)
THEOREM TypeCorrect == Spec => []TypeOK
<1>1. TypeInv => TypeOK
  BY DEF TypeInv
<1> QED
  BY TypeInit, TypeNext, <1>1, PTL DEF Spec

---------------------------------------------------------------------------
(* Replay. *)

Unspent == {"idle", "page", "pressed"}
Recorded == {"recorded", "done"}

SameRead(a, b) == a.tag = b.tag /\ a.ctr = b.ctr

(* Why a read is accepted once.  Only the advance makes a request          *)
(* SUN-valid; it moves the counter up to the read's value, so a second     *)
(* request with the same read finds the counter no longer below it.        *)
SpentInv ==
  /\ \A r \in Requests : req[r].pc \in Unspent => ~req[r].sunValid
  /\ \A r \in Requests :
       req[r].sunValid => req[r].in.ctr <= tags[req[r].in.tag].lastCtr
  /\ \A r, s \in Requests :
       req[r].sunValid /\ req[s].sunValid /\ SameRead(req[r].in, req[s].in) => r = s

(* A SUN-valid row is the one row of a SUN-valid request, with its read.   *)
LedgerInv ==
  /\ \A row \in ledger : row.sunValid =>
       /\ row.by \in Requests
       /\ req[row.by].sunValid
       /\ SameRead(row, req[row.by].in)
  /\ \A row \in ledger : row.by \in Requests => req[row.by].pc \in Recorded
  /\ \A x, y \in ledger : x.by = y.by /\ x.by \in Requests => x = y

ReplayInv == TypeInv /\ SpentInv /\ LedgerInv

\* The invariant holds the property.
LEMMA ReplayInvImplies == ReplayInv => ReplaySafe
<1> SUFFICES ASSUME ReplayInv, NEW x \in ledger, NEW y \in ledger,
                    x.sunValid, y.sunValid, x.tag = y.tag, x.ctr = y.ctr
             PROVE  x = y
  BY DEF ReplaySafe
<1>1. /\ x.by \in Requests /\ req[x.by].sunValid /\ SameRead(x, req[x.by].in)
      /\ y.by \in Requests /\ req[y.by].sunValid /\ SameRead(y, req[y.by].in)
  BY DEF ReplayInv, LedgerInv
<1>2. x.by = y.by
  BY <1>1 DEF ReplayInv, SpentInv, SameRead
<1> QED
  BY <1>1, <1>2 DEF ReplayInv, LedgerInv

(* A step that moves one request and no counter keeps SpentInv when it     *)
(* does not make that request SUN-valid and does not change what it read.  *)
LEMMA SpentKept ==
  ASSUME TypeInv, SpentInv, NEW r \in Requests, NEW q, Becomes(r, q),
         \A t \in Tags : tags'[t].lastCtr = tags[t].lastCtr,
         q.sunValid => /\ req[r].sunValid /\ q.pc \notin Unspent
                       /\ q.in = req[r].in
  PROVE  SpentInv'
<1>1. \A s \in Requests : req'[s] = IF s = r THEN q ELSE req[s]
  BY DEF TypeInv, TypeOK, Becomes
<1>2. \A s \in Requests : req[s].in.tag \in Tags
  BY InputFields DEF TypeInv, TypeOK, ReqType
<1> QED
  BY <1>1, <1>2 DEF SpentInv, SameRead

(* ... and LedgerInv when the ledger is the same and a request that has a  *)
(* row keeps it.                                                           *)
LEMMA LedgerKept ==
  ASSUME TypeInv, LedgerInv, NEW r \in Requests, NEW q, Becomes(r, q), UNCHANGED ledger,
         req[r].pc \in Recorded =>
           /\ q.pc \in Recorded
           /\ q.sunValid = req[r].sunValid /\ q.in = req[r].in
  PROVE  LedgerInv'
<1>1. \A s \in Requests : req'[s] = IF s = r THEN q ELSE req[s]
  BY DEF TypeInv, TypeOK, Becomes
<1> QED
  BY <1>1 DEF LedgerInv, SameRead

\* The invariant holds at first.
LEMMA ReplayInit == Init => ReplayInv
<1> SUFFICES ASSUME Init PROVE SpentInv /\ LedgerInv
  BY TypeInit DEF ReplayInv
<1>1. \A r \in Requests : req[r].sunValid = FALSE
  BY DEF Init, Idle
<1>2. ledger = {}
  BY DEF Init
<1> QED
  BY <1>1, <1>2 DEF SpentInv, LedgerInv

(* One step per operation; Advance is the one that spends a read, Write    *)
(* the one that writes a row.                                              *)
LEMMA ReplayNext == ReplayInv /\ [Next]_vars => ReplayInv'
<1> SUFFICES ASSUME ReplayInv, [Next]_vars PROVE SpentInv' /\ LedgerInv'
  BY TypeNext DEF ReplayInv
<1>0. TypeInv /\ SpentInv /\ LedgerInv
  BY DEF ReplayInv
<1>a. /\ tags \in [Tags -> [status : TagStatuses, lastCtr : 0..MaxCtr, offSince : Nat]]
      /\ req \in [Requests -> ReqType]
  BY <1>0 DEF TypeInv, TypeOK
<1>b. ASSUME NEW r \in Requests, NEW q, Becomes(r, q), UNCHANGED <<tags, ledger>>,
             req[r].pc \notin Recorded,
             q.sunValid => /\ req[r].sunValid /\ q.pc \notin Unspent
                           /\ q.in = req[r].in
      PROVE  SpentInv' /\ LedgerInv'
  BY <1>0, <1>b, SpentKept, LedgerKept
<1>c. ASSUME NEW r \in Requests, NEW pc, Move(r, pc), UNCHANGED <<tags, ledger>>,
             pc \notin Unspent, req[r].pc \notin Recorded
      PROVE  SpentInv' /\ LedgerInv'
  <2> DEFINE q == [req[r] EXCEPT !.pc = pc]
  <2>1. q.sunValid = req[r].sunValid /\ q.pc = pc /\ q.in = req[r].in
    BY <1>a DEF ReqType
  <2> QED
    BY <1>b, <1>c, <2>1 DEF Move
<1>d. ASSUME NEW r \in Requests, NEW pc, End(r, pc), UNCHANGED <<tags, ledger>>,
             req[r].pc \notin Recorded
      PROVE  SpentInv' /\ LedgerInv'
  <2> DEFINE q == [Idle EXCEPT !.pc = pc]
  <2>1. q.sunValid = FALSE
    BY DEF Idle
  <2> QED
    BY <1>b, <1>d, <2>1 DEF End
<1>1. ASSUME NEW r \in Requests, OpenPage(r)
      PROVE  SpentInv' /\ LedgerInv'
  <2>1. PICK in \in Inputs :
          Becomes(r, [req[r] EXCEPT !.pc = "page", !.in = in, !.issuedAt = clock,
                                    !.cmac = VerifiedPreview(in)])
    BY <1>1 DEF OpenPage
  <2> DEFINE q == [req[r] EXCEPT !.pc = "page", !.in = in, !.issuedAt = clock,
                                 !.cmac = VerifiedPreview(in)]
  <2>2. ~req[r].sunValid /\ req[r].pc \notin Recorded
    BY <1>0, <1>1 DEF OpenPage, SpentInv, Unspent, Recorded
  <2>3. q.sunValid = req[r].sunValid
    BY <1>a DEF ReqType
  <2> QED
    BY <1>1, <1>b, <2>1, <2>2, <2>3 DEF OpenPage
<1>2. ASSUME NEW r \in Requests, Press(r)
      PROVE  SpentInv' /\ LedgerInv'
  <2> DEFINE q == [req[r] EXCEPT !.pc = "pressed", !.now = clock,
                                 !.status = tags[req[r].in.tag].status]
  <2>1. ~req[r].sunValid /\ req[r].pc \notin Recorded
    BY <1>0, <1>2 DEF Press, SpentInv, Unspent, Recorded
  <2>2. q.sunValid = req[r].sunValid
    BY <1>a DEF ReqType
  <2> QED
    BY <1>2, <1>b, <2>1, <2>2 DEF Press
<1>3. ASSUME NEW r \in Requests, Advance(r)
      PROVE  SpentInv' /\ LedgerInv'
  <2> DEFINE tag == req[r].in.tag
             ctr == req[r].in.ctr
  <2>1. /\ ~req[r].sunValid /\ req[r].pc \notin Recorded
        /\ ledger' = ledger /\ tag \in Tags
    BY <1>0, <1>3, <1>a, InputFields DEF Advance, SpentInv, Unspent, Recorded, ReqType
  <2>2. ASSUME Spend(r), Newer(r)
        PROVE  SpentInv' /\ LedgerInv'
    <3> DEFINE q == [req[r] EXCEPT
                      !.pc = "advanced", !.sunValid = TRUE,
                      !.gap = ctr - tags[tag].lastCtr - 1,
                      !.peer = IF OwnTag(r) THEN @ ELSE "peer"]
    <3>1. q.in = req[r].in /\ q.pc = "advanced" /\ q.sunValid
      BY <1>a DEF ReqType
    <3>2. Becomes(r, q)
      BY <2>2 DEF Spend
    <3> HIDE DEF q
    <3>3. \A s \in Requests : req'[s] = IF s = r THEN q ELSE req[s]
      BY <1>a, <3>2 DEF Becomes
    <3>4. LedgerInv'
      BY <1>0, <2>1, <3>2, LedgerKept
    <3>5. \A t \in Tags : tags'[t].lastCtr = IF t = tag THEN ctr ELSE tags[t].lastCtr
      BY <1>a, <2>1, <2>2 DEF Spend
    <3>6. tags[tag].lastCtr < ctr
      BY <2>2 DEF Newer
    <3>7. \A s \in Requests : /\ req[s].in.tag \in Tags /\ req[s].in.ctr \in Nat
                              /\ tags[req[s].in.tag].lastCtr \in Nat
      BY <1>a, InputFields, CheckinAssumption DEF ReqType
    <3>8. \A s \in Requests : req'[s].pc \in Unspent => ~req'[s].sunValid
      BY <1>0, <3>1, <3>3 DEF SpentInv, Unspent
    <3>9. \A s \in Requests :
            req'[s].sunValid => req'[s].in.ctr <= tags'[req'[s].in.tag].lastCtr
      BY <1>0, <2>1, <3>1, <3>3, <3>5, <3>6, <3>7 DEF SpentInv
    <3>10. \A s \in Requests : s # r /\ req[s].sunValid => ~SameRead(req[s].in, req[r].in)
      BY <1>0, <2>1, <3>6, <3>7 DEF SpentInv, SameRead
    <3>11. \A s, u \in Requests :
             req'[s].sunValid /\ req'[u].sunValid /\ SameRead(req'[s].in, req'[u].in)
               => s = u
      BY <1>0, <3>1, <3>3, <3>10 DEF SpentInv, SameRead
    <3> QED
      BY <3>4, <3>8, <3>9, <3>11 DEF SpentInv
  <2>3. ASSUME Move(r, "advanced"), UNCHANGED tags
        PROVE  SpentInv' /\ LedgerInv'
    BY <1>c, <2>1, <2>3 DEF Unspent
  <2>4. ASSUME NEW s, NEW p, UNCHANGED tags,
               \/ Becomes(r, [req[r] EXCEPT !.pc = "advanced", !.peer = p])
               \/ Becomes(r, [req[r] EXCEPT !.pc = "advanced", !.peer = p, !.status = s])
        PROVE  SpentInv' /\ LedgerInv'
    <3>1. /\ [req[r] EXCEPT !.pc = "advanced", !.peer = p].sunValid = req[r].sunValid
          /\ [req[r] EXCEPT !.pc = "advanced", !.peer = p, !.status = s].sunValid
               = req[r].sunValid
      BY <1>a DEF ReqType
    <3> QED
      BY <1>b, <2>1, <2>4, <3>1
  <2>5. CASE AdvanceSkipped(r)
    BY <2>5, <2>3 DEF AdvanceSkipped
  <2>6. CASE AdvanceOwn(r)
    BY <2>6, <2>2, <2>3 DEF AdvanceOwn
  <2>7. CASE AdvanceAtAPeer(r)
    BY <2>7, <2>2, <2>4 DEF AdvanceAtAPeer
  <2> QED
    BY <1>3, <2>5, <2>6, <2>7 DEF Advance
<1>4. ASSUME NEW r \in Requests, Begin(r)
      PROVE  SpentInv' /\ LedgerInv'
  <2>1. PICK set \in PolicySets \cup {guardrailsOnly} :
          Becomes(r, [req[r] EXCEPT !.pc = "waiting", !.policySet = set,
                                    !.txStart = clock])
    BY <1>4 DEF Begin
  <2> DEFINE q == [req[r] EXCEPT !.pc = "waiting", !.policySet = set, !.txStart = clock]
  <2>2. /\ q.sunValid = req[r].sunValid /\ q.in = req[r].in
        /\ q.pc \notin Unspent /\ req[r].pc \notin Recorded
    BY <1>a, <1>4 DEF ReqType, Begin, Unspent, Recorded
  <2> QED
    BY <1>4, <1>b, <2>1, <2>2 DEF Begin
<1>5. ASSUME NEW r \in Requests, LockEmployeeForTap(r)
      PROVE  SpentInv' /\ LedgerInv'
  BY <1>5, <1>c DEF LockEmployeeForTap, Unspent, Recorded
<1>6. ASSUME NEW r \in Requests, GatherAndDecide(r)
      PROVE  SpentInv' /\ LedgerInv'
  <2>1. PICK d \in {Decide(gatherWith(r))} :
          \/ End(r, "redirected")
          \/ Becomes(r, [req[r] EXCEPT
                !.pc = "decided", !.gatheredAt = clock,
                !.dec = [verdict |-> d.verdict, type |-> d.type, source |-> d.source,
                         security |-> d.security]])
    BY <1>6 DEF GatherAndDecide
  <2> DEFINE q == [req[r] EXCEPT
                    !.pc = "decided", !.gatheredAt = clock,
                    !.dec = [verdict |-> d.verdict, type |-> d.type,
                             source |-> d.source, security |-> d.security]]
  <2>2. /\ q.sunValid = req[r].sunValid /\ q.in = req[r].in
        /\ q.pc \notin Unspent /\ req[r].pc \notin Recorded
    BY <1>a, <1>6 DEF ReqType, GatherAndDecide, Unspent, Recorded
  <2> QED
    BY <1>6, <1>b, <1>d, <2>1, <2>2 DEF GatherAndDecide
<1>7. ASSUME NEW r \in Requests, Write(r)
      PROVE  SpentInv' /\ LedgerInv'
  <2> DEFINE q(pc) == [Idle EXCEPT !.pc = pc, !.in = req[r].in, !.now = req[r].now,
                                   !.sunValid = req[r].sunValid,
                                   !.gatheredAt = req[r].gatheredAt, !.dec = req[r].dec]
  <2>1. \A pc : q(pc).pc = pc /\ q(pc).in = req[r].in /\ q(pc).sunValid = req[r].sunValid
    BY DEF Idle
  <2>2. req[r].pc \notin Recorded /\ UNCHANGED tags
    BY <1>7 DEF Write, Recorded
  <2>3. CASE Keep(r, "gated") /\ UNCHANGED ledger
    <3>1. Becomes(r, q("gated"))
      BY <2>3 DEF Keep
    <3> HIDE DEF q
    <3> QED
      BY <1>b, <2>1, <2>2, <2>3, <3>1 DEF Unspent
  <2>4. ASSUME NEW id \in FreeIds, ledger' = ledger \cup {rowOf(r, id)},
               Keep(r, "recorded")
        PROVE  SpentInv' /\ LedgerInv'
    <3>1. Becomes(r, q("recorded"))
      BY <2>4 DEF Keep
    <3> HIDE DEF q
    <3>2. SpentInv'
      BY <1>0, <2>1, <2>2, <3>1, SpentKept DEF Unspent
    <3>3. \A s \in Requests : req'[s] = IF s = r THEN q("recorded") ELSE req[s]
      BY <1>a, <3>1 DEF Becomes
    <3>4. /\ rowOf(r, id).by = r /\ SameRead(rowOf(r, id), req[r].in)
          /\ rowOf(r, id).sunValid = req[r].sunValid
      BY DEF rowOf, SameRead
    <3>5. \A row \in ledger : row.by # r
      BY <1>0, <2>2 DEF LedgerInv
    <3>6. \A row \in ledger' : row.sunValid =>
            /\ row.by \in Requests
            /\ req'[row.by].sunValid
            /\ SameRead(row, req'[row.by].in)
      BY <1>0, <2>1, <2>4, <3>3, <3>4, <3>5 DEF LedgerInv
    <3>7. \A row \in ledger' : row.by \in Requests => req'[row.by].pc \in Recorded
      BY <1>0, <2>1, <2>4, <3>3, <3>4, <3>5 DEF LedgerInv, Recorded
    <3>8. \A x, y \in ledger' : x.by = y.by /\ x.by \in Requests => x = y
      BY <1>0, <2>4, <3>4, <3>5 DEF LedgerInv
    <3> QED
      BY <3>2, <3>6, <3>7, <3>8 DEF LedgerInv
  <2> QED
    BY <1>7, <2>3, <2>4 DEF Write
<1>8. ASSUME NEW r \in Requests, After(r) \/ AlertLost(r)
      PROVE  SpentInv' /\ LedgerInv'
  <2> DEFINE q == [req[r] EXCEPT !.pc = "done"]
  <2>1. /\ q.sunValid = req[r].sunValid /\ q.in = req[r].in /\ q.pc = "done"
        /\ Becomes(r, q) /\ UNCHANGED <<tags, ledger>>
    BY <1>a, <1>8 DEF ReqType, After, AlertLost, Move
  <2> HIDE DEF q
  <2> QED
    BY <1>0, <2>1, SpentKept, LedgerKept DEF Unspent, Recorded
<1>9. ASSUME NEW r \in Requests, Fail(r)
      PROVE  SpentInv' /\ LedgerInv'
  BY <1>9, <1>d DEF Fail, Running, InTx, Recorded
<1>10. ASSUME UNCHANGED <<req, ledger>>,
              \A t \in Tags : tags'[t].lastCtr = tags[t].lastCtr
       PROVE  SpentInv' /\ LedgerInv'
  <2>1. \A s \in Requests : req[s].in.tag \in Tags
    BY <1>a, InputFields DEF ReqType
  <2> QED
    BY <1>0, <1>10, <2>1 DEF SpentInv, LedgerInv, SameRead
<1>11. CASE \/ Tick
            \/ \E e \in ManagedEmps : DeactivateEmployee(e)
            \/ \E t \in Tenants : LeaveHolding(t)
            \/ UNCHANGED vars
  BY <1>11, <1>10 DEF Tick, DeactivateEmployee, LeaveHolding, vars
<1>12. CASE \E t \in ManagedTags :
              RetireTagForReplacement(t) \/ UnmountTagFromWall(t) \/ AssignTagToLocation(t)
  <2>1. PICK t \in ManagedTags, from \in TagStatuses, to \in TagStatuses : SetStatus(t, from, to)
    BY <1>12 DEF TagStatuses, RetireTagForReplacement, UnmountTagFromWall, AssignTagToLocation
  <2>2. \A u \in Tags : tags'[u].lastCtr = tags[u].lastCtr
    BY <1>a, <2>1, CheckinAssumption DEF SetStatus
  <2> QED
    BY <1>10, <2>1, <2>2 DEF SetStatus
<1>13. CASE \E e \in Employees : ManualRecord(e)
  <2>0. PICK e \in Employees, id \in FreeIds, type \in {"in", "out"},
              at \in 0..(clock + FutureGrace) :
          ledger' = ledger \cup {manualRow(id, e, type, at)}
    BY <1>13 DEF ManualRecord
  <2> DEFINE row == manualRow(id, e, type, at)
  <2>1. /\ UNCHANGED <<tags, req>> /\ ledger' = ledger \cup {row}
        /\ row.by = NoRequest /\ row.sunValid = FALSE
    BY <1>13, <2>0 DEF ManualRecord, manualRow
  <2> HIDE DEF row
  <2>2. NoRequest \notin Requests
    BY CheckinAssumption
  <2> QED
    BY <1>0, <2>1, <2>2 DEF SpentInv, LedgerInv
<1> QED
  BY <1>1, <1>2, <1>3, <1>4, <1>5, <1>6, <1>7, <1>8, <1>9, <1>11, <1>12, <1>13
     DEF Next, Tap, Environment

(* No chip read is accepted twice, whatever the number of requests, people *)
(* and plaques and however their steps interleave, fail or time out: the   *)
(* counter's comparison and move in one statement is enough, without the   *)
(* person's lock.                                                          *)
THEOREM ReplayProtection == Spec => []ReplaySafe
<1> QED
  BY ReplayInit, ReplayNext, ReplayInvImplies, PTL DEF Spec

---------------------------------------------------------------------------
(* The lock, the clock and the ledger. *)

(* What the clock has passed: nothing is dated after it but what a client  *)
(* or a manager declares, a transaction starts after its request's clock   *)
(* reading, and a decision falls within the request's time limit.          *)
ClockInv ==
  /\ clock <= MaxTime
  /\ \A r \in Requests :
       /\ req[r].now <= clock /\ req[r].txStart <= clock /\ req[r].gatheredAt <= clock
       /\ req[r].pc \in {"waiting", "locked", "decided"} => req[r].now <= req[r].txStart
       /\ req[r].pc = "decided" => req[r].gatheredAt <= req[r].now + RequestTimeout
  /\ \A row \in ledger : row.createdAt <= clock

(* A request that holds "active" for its plaque was pressed before the     *)
(* plaque left service, and a decision that counts took it for active.     *)
PressedInService(r) == req[r].now <= tags[req[r].in.tag].offSince

ServiceInv ==
  /\ \A t \in Tags : tags[t].status = "active" => tags[t].offSince = Forever
  /\ \A r \in Requests :
       /\ req[r].pc \in Running \ {"decided"} /\ req[r].status = "active" =>
            PressedInService(r)
       /\ req[r].pc = "decided" /\ req[r].dec.verdict \in Counted => PressedInService(r)

(* Who spent a peer's counter was its peer at the press or later.          *)
PeerInv ==
  \A r \in Requests :
    req[r].sunValid =>
      /\ req[r].in.channel = "nfc"
      /\ req[r].pc \in Running /\ ~OwnTag(r) =>
           leftAt[Session(r)] >= req[r].now /\ leftAt[Site(r)] >= req[r].now

(* What a decision saw of its person's ledger, which nobody can change     *)
(* until the request has written or failed: a tap that counts, a debounce  *)
(* window without one; a checkout of the engine, an open check-in.         *)
DecidedInv ==
  \A r \in Requests : req[r].pc = "decided" =>
    /\ req[r].dec.type # "none" => req[r].dec.verdict \in Counted
    /\ req[r].dec.verdict \in Counted =>
         \A row \in RowsOf(req[r].in.emp) :
           row.channel \in Channels => row.createdAt + DebounceWindow <= req[r].gatheredAt
    /\ /\ req[r].dec.type = "out" /\ req[r].dec.source = "auto"
       /\ req[r].in.declared = NoTime
       => OpenAt(req[r].in.emp, req[r].now) # {}

(* A row says what its request said and decided.                           *)
RowsInv ==
  \A row \in ledger :
    /\ row.by \in Requests =>
         /\ row.emp = req[row.by].in.emp /\ row.tag = req[row.by].in.tag
         /\ row.channel \in Channels
         /\ req[row.by].in.declared = NoTime => row.occurredAt <= row.createdAt
    /\ row.by = NoRequest => row.channel = "manual" /\ row.type # "none"


---------------------------------------------------------------------------
(* What the decision's operators return. *)

\* A nonempty set of numbers has its smallest, which Min is.
LEMMA MinIs ==
  ASSUME NEW S, S \subseteq Nat, S # {}
  PROVE  Min(S) \in S /\ \A y \in S : Min(S) <= y
<1>1. PICK d \in S : \A y \in S : <<y, d>> \notin OpToRel(<, Nat)
  BY NatLessThanWellFounded, WFMin
<1>2. \A y \in S : ~(y < d)
  BY <1>1 DEF OpToRel
<1>3. \A y \in S : d <= y
  BY <1>2
<1> QED
  BY <1>3 DEF Min

\* A nonempty set of numbers up to n, and NoTime, has its greatest, which Max is.
LEMMA MaxIs ==
  ASSUME NEW n \in Nat, NEW S, S \subseteq -1..n, S # {}
  PROVE  Max(S) \in S /\ \A y \in S : y <= Max(S)
<1> DEFINE T == {n - x : x \in S}
<1>1. T \subseteq Nat /\ T # {}
  <2>1. \A x \in S : n - x \in Nat
    OBVIOUS
  <2> QED
    BY <2>1
<1>2. PICK d \in T : \A y \in T : <<y, d>> \notin OpToRel(<, Nat)
  BY <1>1, NatLessThanWellFounded, WFMin
<1>3. PICK x \in S : d = n - x
  BY <1>2
<1>4. ASSUME NEW y \in S PROVE x >= y
  <2>1. ~(n - y < d) /\ n - y \in Nat /\ d \in Nat
    BY <1>1, <1>2, <1>3, <1>4 DEF OpToRel
  <2> QED
    BY <1>3, <1>4, <2>1
<1> QED
  BY <1>4 DEF Max

\* The first eight guardrails refuse, ignore or redirect: where one of them
\* matches, no document makes the tap count.
LEMMA Ruled ==
  ASSUME NEW set, NEW c, NEW k \in 1..8, Matches(Guardrails[k].sid, c)
  PROVE  verdictOf(Evaluate(set, c).effect) \notin Counted
<1> DEFINE hits == {i \in DOMAIN Guardrails : Matches(Guardrails[i].sid, c)}
           g == Guardrails[Min(hits)]
<1>1. DOMAIN Guardrails = 1..11
  BY DEF Guardrails
<1>2. hits \subseteq Nat /\ k \in hits
  BY <1>1
<1>3. Min(hits) \in 1..8
  BY <1>1, <1>2, MinIs
<1>4. \A i \in 1..8 : Guardrails[i].effect \in {"redirect", "deny", "ignore"}
  BY DEF Guardrails
<1>5. Evaluate(set, c).effect = g.effect
  BY <1>2 DEF Evaluate
<1> HIDE DEF g
<1> QED
  BY <1>3, <1>4, <1>5 DEF g, verdictOf, Counted

\* A tap that counts is at a plaque in service.
LEMMA CountedIsActive ==
  ASSUME NEW in, Decide(in).verdict \in Counted
  PROVE  in.tagStatus = "active"
<1> DEFINE c == policyContext(in)
<1>1. verdictOf(Evaluate(in.policySet, c).effect) \in Counted
  BY Zenon DEF Decide
<1>2. ~Matches(Guardrails[2].sid, c)
  BY <1>1, Ruled
<1>3. Guardrails[2].sid = "sys:tag-not-active"
  BY DEF Guardrails
<1>4. Has(c.strs, "tagStatus") /\ c.strs["tagStatus"] = in.tagStatus
  BY DEF policyContext, Has
<1> HIDE DEF c
<1> QED
  BY <1>2, <1>3, <1>4 DEF Matches

\* A tap that counts is a debounce window from the person's last recorded tap.
LEMMA CountedIsApart ==
  ASSUME NEW in, Decide(in).verdict \in Counted,
         in.now \in Nat, in.lastForPerson \in Nat \cup {NoTime},
         in.sinceRecorded \in Nat
  PROVE  in.sinceRecorded >= DebounceWindow
<1> DEFINE c == policyContext(in)
           declared == in.now - in.lastForPerson
           gaps == (IF in.lastForPerson # NoTime /\ declared >= 0 THEN {declared} ELSE {})
                   \cup (IF in.sinceRecorded >= 0 THEN {in.sinceRecorded} ELSE {})
<1>0. DebounceWindow \in Nat
  BY ParamsAssumption
<1>1. verdictOf(Evaluate(in.policySet, c).effect) \in Counted
  BY Zenon DEF Decide
<1>2. ~Matches(Guardrails[8].sid, c)
  BY <1>1, Ruled
<1>3. Guardrails[8].sid = "sys:person-debounce"
  BY DEF Guardrails
<1>4. c.action = "tap:record" /\ c.sinceLastTap = debounceGap(in)
  BY DEF policyContext
<1>5. debounceGap(in) = Min(gaps) /\ gaps \subseteq Nat /\ in.sinceRecorded \in gaps
  BY DEF debounceGap, NoTime
<1> HIDE DEF c, gaps
<1>6. Min(gaps) \in Nat /\ Min(gaps) <= in.sinceRecorded
  BY <1>5, MinIs
<1>7. ~(c.sinceLastTap < DebounceWindow)
  BY <1>2, <1>3, <1>4, <1>5, <1>6 DEF Matches, IsTap
<1> QED
  BY <1>0, <1>4, <1>5, <1>6, <1>7

\* Only a tap that counts has a direction, and a checkout the engine gave has a
\* check-in open at the tap's instant.
LEMMA OutHasOpenIn ==
  ASSUME NEW in
  PROVE  /\ Decide(in).type # "none" => Decide(in).verdict \in Counted
         /\ Decide(in).type = "out" /\ Decide(in).source = "auto" =>
              in.lastOpenIn # NoTime
<1> DEFINE pd == Evaluate(in.policySet, policyContext(in))
           v == verdictOf(pd.effect)
           r == resolveDirection(in)
           d == Decide(in)
<1>1. /\ d.verdict = v
      /\ d.type = IF v \in Counted THEN r.dir ELSE "none"
      /\ d.source = IF v \in Counted THEN r.source ELSE "none"
  BY Zenon DEF Decide
<1>2. r.dir = "out" /\ r.source = "auto" => in.lastOpenIn # NoTime
  BY DEF resolveDirection, PredictDirection
<1> HIDE DEF pd, v, r, d
<1> QED
  BY <1>1, <1>2 DEF d

---------------------------------------------------------------------------
(* The stages of a tap, by what each does to the fields the invariants     *)
(* speak of: q is the request after the step.                              *)

Quiet == UNCHANGED <<clock, tags, leftAt, lock, ledger>>

Dates(p, q) == q.now = p.now /\ q.txStart = p.txStart /\ q.gatheredAt = p.gatheredAt
Goes(r, q, from, to) ==
  req[r].pc = from /\ q.pc = to /\ q.in = req[r].in /\ q.dec = req[r].dec

Opens(r, q) ==
  /\ req[r].pc = "idle" /\ q.pc = "page" /\ q.in \in Inputs
  /\ Dates(req[r], q) /\ q.sunValid = req[r].sunValid /\ Quiet

Presses(r, q) ==
  /\ Goes(r, q, "page", "pressed") /\ q.sunValid = req[r].sunValid
  /\ q.now = clock /\ q.txStart = req[r].txStart /\ q.gatheredAt = req[r].gatheredAt
  /\ q.status = tags[req[r].in.tag].status /\ Quiet

Passes(r, q) ==
  /\ Goes(r, q, "pressed", "advanced") /\ q.sunValid = req[r].sunValid
  /\ Dates(req[r], q) /\ q.status \in {req[r].status, tags[req[r].in.tag].status}
  /\ Quiet

Spends(r, q) ==
  /\ Goes(r, q, "pressed", "advanced") /\ q.sunValid
  /\ Dates(req[r], q) /\ q.status = req[r].status
  /\ Spendable(r) /\ Newer(r)
  /\ OwnTag(r) \/ StrictPeers(Session(r), Site(r))
  /\ tags' = [tags EXCEPT ![req[r].in.tag].lastCtr = req[r].in.ctr]
  /\ UNCHANGED <<clock, leftAt, lock, ledger>>

Begins(r, q) ==
  /\ Goes(r, q, "advanced", "waiting") /\ q.sunValid = req[r].sunValid
  /\ q.now = req[r].now /\ q.txStart = clock /\ q.gatheredAt = req[r].gatheredAt
  /\ q.status = req[r].status /\ Quiet

Locks(r, q) ==
  /\ Goes(r, q, "waiting", "locked") /\ q.sunValid = req[r].sunValid
  /\ Dates(req[r], q) /\ q.status = req[r].status
  /\ lock[req[r].in.emp] = NoRequest
  /\ lock' = [lock EXCEPT ![req[r].in.emp] = r]
  /\ UNCHANGED <<clock, tags, leftAt, ledger>>

Decides(r, q) ==
  /\ req[r].pc = "locked" /\ q.pc = "decided" /\ q.in = req[r].in
  /\ q.sunValid = req[r].sunValid
  /\ q.now = req[r].now /\ q.txStart = req[r].txStart /\ q.gatheredAt = clock
  /\ InTime(r)
  /\ q.dec.verdict = Decide(gatherWith(r)).verdict
  /\ q.dec.type = Decide(gatherWith(r)).type
  /\ q.dec.source = Decide(gatherWith(r)).source
  /\ Quiet

Gated(r, q) ==
  /\ Goes(r, q, "decided", "gated") /\ q.sunValid = req[r].sunValid
  /\ q.now = req[r].now /\ q.gatheredAt = req[r].gatheredAt /\ q.txStart = 0
  /\ InTime(r) /\ ~SiteGate(r) /\ Unlock(r)
  /\ UNCHANGED <<clock, tags, leftAt, ledger>>

Writes(r, q) ==
  /\ Goes(r, q, "decided", "recorded") /\ q.sunValid = req[r].sunValid
  /\ q.now = req[r].now /\ q.gatheredAt = req[r].gatheredAt /\ q.txStart = 0
  /\ \E id \in FreeIds : ledger' = ledger \cup {rowOf(r, id)}
  /\ Unlock(r)
  /\ UNCHANGED <<clock, tags, leftAt>>

Leaves(r, q) ==
  /\ Goes(r, q, "recorded", "done") /\ q.sunValid = req[r].sunValid
  /\ Dates(req[r], q) /\ Quiet

Ends(r, q) ==
  /\ req[r].pc \in Running /\ q.pc \in {"failed", "redirected"}
  /\ q.now = 0 /\ q.txStart = 0 /\ q.gatheredAt = 0 /\ ~q.sunValid
  /\ Unlock(r)
  /\ UNCHANGED <<clock, tags, leftAt, ledger>>

Stage(r, q) ==
  \/ Opens(r, q) \/ Presses(r, q) \/ Passes(r, q) \/ Spends(r, q) \/ Begins(r, q)
  \/ Locks(r, q) \/ Decides(r, q) \/ Gated(r, q) \/ Writes(r, q) \/ Leaves(r, q)
  \/ Ends(r, q)

Moved(r, q) == \A s \in Requests : req'[s] = IF s = r THEN q ELSE req[s]

\* Only the request that becomes q changes.
LEMMA BecomesMoved ==
  ASSUME TypeInv, NEW r \in Requests, NEW q, Becomes(r, q)
  PROVE  Moved(r, q)
BY DEF TypeInv, TypeOK, Becomes, Moved

\* Every step of a tap is one of the stages.
LEMMA TapSteps ==
  ASSUME TypeInv, NEW r \in Requests, Tap(r)
  PROVE  \E q : Moved(r, q) /\ Stage(r, q)
<1>a. req[r] \in ReqType
  BY DEF TypeInv, TypeOK
<1>1. CASE OpenPage(r)
  <2>1. PICK in \in Inputs :
          Becomes(r, [req[r] EXCEPT !.pc = "page", !.in = in, !.issuedAt = clock,
                                    !.cmac = VerifiedPreview(in)])
    BY <1>1 DEF OpenPage
  <2>2. PICK q : q = [req[r] EXCEPT !.pc = "page", !.in = in, !.issuedAt = clock,
                                    !.cmac = VerifiedPreview(in)]
    OBVIOUS
  <2>3. Opens(r, q)
    BY <1>a, <1>1, <2>2 DEF ReqType, OpenPage, Opens, Dates, Quiet
  <2> QED
    BY <2>1, <2>2, <2>3, BecomesMoved DEF Stage
<1>2. CASE Press(r)
  <2>1. PICK q : q = [req[r] EXCEPT !.pc = "pressed", !.now = clock,
                                    !.status = tags[req[r].in.tag].status]
    OBVIOUS
  <2>2. Presses(r, q)
    BY <1>a, <1>2, <2>1 DEF ReqType, Press, Presses, Goes, Quiet
  <2> QED
    BY <1>2, <2>1, <2>2, BecomesMoved DEF Press, Stage
<1>3. CASE Advance(r)
  <2>0. req[r].pc = "pressed" /\ UNCHANGED <<clock, leftAt, lock, ledger>>
    BY <1>3 DEF Advance
  <2>1. ASSUME Spend(r), Spendable(r), Newer(r),
               OwnTag(r) \/ StrictPeers(Session(r), Site(r))
        PROVE  \E q : Moved(r, q) /\ Stage(r, q)
    <3> DEFINE g == req[r].in.ctr - tags[req[r].in.tag].lastCtr - 1
               pr == IF OwnTag(r) THEN req[r].peer ELSE "peer"
    <3>1. PICK q : q = [req[r] EXCEPT !.pc = "advanced", !.sunValid = TRUE, !.gap = g,
                                      !.peer = pr]
      OBVIOUS
    <3>2. Becomes(r, q) /\ tags' = [tags EXCEPT ![req[r].in.tag].lastCtr = req[r].in.ctr]
      BY <1>a, <2>1, <3>1 DEF Spend, ReqType
    <3>3. Spends(r, q)
      BY <1>a, <2>0, <2>1, <3>1, <3>2 DEF ReqType, Spends, Goes, Dates
    <3> QED
      BY <3>2, <3>3, BecomesMoved DEF Stage
  <2>2. ASSUME NEW pr, NEW st \in {req[r].status, tags[req[r].in.tag].status},
               Becomes(r, [req[r] EXCEPT !.pc = "advanced", !.peer = pr, !.status = st]),
               UNCHANGED tags
        PROVE  \E q : Moved(r, q) /\ Stage(r, q)
    <3>1. PICK q : q = [req[r] EXCEPT !.pc = "advanced", !.peer = pr, !.status = st]
      OBVIOUS
    <3>2. Passes(r, q)
      BY <1>a, <2>0, <2>2, <3>1 DEF ReqType, Passes, Goes, Dates, Quiet
    <3> QED
      BY <2>2, <3>1, <3>2, BecomesMoved DEF Stage
  <2>3. ASSUME Move(r, "advanced"), UNCHANGED tags
        PROVE  \E q : Moved(r, q) /\ Stage(r, q)
    <3>1. [req[r] EXCEPT !.pc = "advanced"]
            = [req[r] EXCEPT !.pc = "advanced", !.peer = req[r].peer,
                             !.status = req[r].status]
      BY <1>a DEF ReqType
    <3> QED
      BY <2>2, <2>3, <3>1 DEF Move
  <2>4. ASSUME NEW pr, Becomes(r, [req[r] EXCEPT !.pc = "advanced", !.peer = pr]),
               UNCHANGED tags
        PROVE  \E q : Moved(r, q) /\ Stage(r, q)
    <3>1. [req[r] EXCEPT !.pc = "advanced", !.peer = pr]
            = [req[r] EXCEPT !.pc = "advanced", !.peer = pr, !.status = req[r].status]
      BY <1>a DEF ReqType
    <3> QED
      BY <2>2, <2>4, <3>1
  <2>5. CASE AdvanceSkipped(r)
    BY <2>3, <2>5 DEF AdvanceSkipped
  <2>6. CASE AdvanceOwn(r)
    BY <2>1, <2>3, <2>6 DEF AdvanceOwn
  <2>7. CASE AdvanceAtAPeer(r)
    BY <2>1, <2>2, <2>4, <2>7 DEF AdvanceAtAPeer
  <2> QED
    BY <1>3, <2>5, <2>6, <2>7 DEF Advance
<1>4. CASE Begin(r)
  <2>1. PICK set \in PolicySets \cup {guardrailsOnly} :
          Becomes(r, [req[r] EXCEPT !.pc = "waiting", !.policySet = set,
                                    !.txStart = clock])
    BY <1>4 DEF Begin
  <2>2. PICK q : q = [req[r] EXCEPT !.pc = "waiting", !.policySet = set, !.txStart = clock]
    OBVIOUS
  <2>3. Begins(r, q)
    BY <1>a, <1>4, <2>2 DEF ReqType, Begin, Begins, Goes, Quiet
  <2> QED
    BY <2>1, <2>2, <2>3, BecomesMoved DEF Stage
<1>5. CASE LockEmployeeForTap(r)
  <2>1. PICK q : q = [req[r] EXCEPT !.pc = "locked"]
    OBVIOUS
  <2>2. Locks(r, q)
    BY <1>a, <1>5, <2>1 DEF ReqType, LockEmployeeForTap, Locks, Goes, Dates
  <2> QED
    BY <1>5, <2>1, <2>2, BecomesMoved DEF LockEmployeeForTap, Move, Stage
<1>e. ASSUME NEW pc \in {"failed", "redirected"}, End(r, pc), Unlock(r),
             req[r].pc \in Running, UNCHANGED <<clock, tags, leftAt, ledger>>
      PROVE  \E q : Moved(r, q) /\ Stage(r, q)
  <2>1. PICK q : q = [Idle EXCEPT !.pc = pc]
    OBVIOUS
  <2>2. Ends(r, q)
    BY <1>e, <2>1 DEF Idle, Ends
  <2> QED
    BY <1>e, <2>1, <2>2, BecomesMoved DEF End, Stage
<1>6. CASE GatherAndDecide(r)
  <2>1. PICK d \in {Decide(gatherWith(r))} :
          \/ d.redirect /\ End(r, "redirected") /\ Unlock(r)
          \/ /\ ~d.redirect
             /\ Becomes(r, [req[r] EXCEPT
                  !.pc = "decided", !.gatheredAt = clock,
                  !.dec = [verdict |-> d.verdict, type |-> d.type, source |-> d.source,
                           security |-> d.security]])
             /\ UNCHANGED lock
    BY <1>6 DEF GatherAndDecide
  <2>2. /\ req[r].pc = "locked" /\ InTime(r) /\ UNCHANGED <<clock, tags, leftAt, ledger>>
        /\ req[r].pc \in Running
    BY <1>6 DEF GatherAndDecide, Running, InTx
  <2>3. CASE d.redirect
    BY <1>e, <2>1, <2>2, <2>3
  <2>4. CASE ~d.redirect
    <3>1. PICK q : q = [req[r] EXCEPT
                  !.pc = "decided", !.gatheredAt = clock,
                  !.dec = [verdict |-> d.verdict, type |-> d.type, source |-> d.source,
                           security |-> d.security]]
      OBVIOUS
    <3>2. d = Decide(gatherWith(r))
      OBVIOUS
    <3> HIDE DEF Decide
    <3>3. /\ q.pc = "decided" /\ q.in = req[r].in /\ q.sunValid = req[r].sunValid
          /\ q.now = req[r].now /\ q.txStart = req[r].txStart /\ q.gatheredAt = clock
          /\ q.dec.verdict = d.verdict /\ q.dec.type = d.type /\ q.dec.source = d.source
      BY <1>a, <3>1 DEF ReqType
    <3>4. Decides(r, q)
      BY <2>1, <2>2, <2>4, <3>2, <3>3 DEF Decides, Quiet
    <3> QED
      BY <2>1, <2>4, <3>1, <3>4, BecomesMoved DEF Stage
  <2> QED
    BY <2>3, <2>4
<1>7. CASE Write(r)
  <2>1. /\ req[r].pc = "decided" /\ InTime(r) /\ Unlock(r)
        /\ UNCHANGED <<clock, tags, leftAt>>
        /\ \/ ~SiteGate(r) /\ Keep(r, "gated") /\ UNCHANGED ledger
           \/ /\ \E id \in FreeIds : ledger' = ledger \cup {rowOf(r, id)}
              /\ Keep(r, "recorded")
    BY <1>7 DEF Write
  <2>2. ASSUME NEW pc, Keep(r, pc)
        PROVE  \E q : /\ Moved(r, q) /\ Goes(r, q, "decided", pc)
                      /\ q.sunValid = req[r].sunValid /\ q.now = req[r].now
                      /\ q.gatheredAt = req[r].gatheredAt /\ q.txStart = 0
    <3>1. PICK q : q = [Idle EXCEPT !.pc = pc, !.in = req[r].in, !.now = req[r].now,
                                    !.sunValid = req[r].sunValid,
                                    !.gatheredAt = req[r].gatheredAt, !.dec = req[r].dec]
      OBVIOUS
    <3>2. /\ q.pc = pc /\ q.in = req[r].in /\ q.dec = req[r].dec
          /\ q.sunValid = req[r].sunValid /\ q.now = req[r].now
          /\ q.gatheredAt = req[r].gatheredAt /\ q.txStart = 0
      BY <3>1 DEF Idle
    <3> QED
      BY <2>1, <2>2, <3>1, <3>2, BecomesMoved DEF Keep, Goes
  <2> QED
    BY <2>1, <2>2 DEF Stage, Gated, Writes
<1>8. CASE After(r) \/ AlertLost(r)
  <2>1. PICK q : q = [req[r] EXCEPT !.pc = "done"]
    OBVIOUS
  <2>2. Leaves(r, q)
    BY <1>a, <1>8, <2>1 DEF ReqType, After, AlertLost, Leaves, Goes, Dates, Quiet
  <2> QED
    BY <1>8, <2>1, <2>2, BecomesMoved DEF After, AlertLost, Move, Stage
<1>9. CASE Fail(r)
  BY <1>9, <1>e DEF Fail
<1> QED
  BY <1>1, <1>2, <1>3, <1>4, <1>5, <1>6, <1>7, <1>8, <1>9 DEF Tap

---------------------------------------------------------------------------
(* The lock. *)

\* Nobody holds a lock at first.
LEMMA LockInit == Init => LockHeldInTransaction
BY DEF Init, Idle, LockHeldInTransaction, InTx

\* A step keeps the lock and the transactions together.
LEMMA LockNext == TypeInv /\ LockHeldInTransaction /\ [Next]_vars => LockHeldInTransaction'
<1> SUFFICES ASSUME TypeInv, LockHeldInTransaction, [Next]_vars
             PROVE  LockHeldInTransaction'
  OBVIOUS
<1>a. /\ lock \in [Employees -> Requests \cup {NoRequest}]
      /\ \A s \in Requests : req[s].in.emp \in Employees
      /\ NoRequest \notin Requests
  BY CheckinAssumption, InputFields DEF TypeInv, TypeOK, ReqType
<1>1. ASSUME NEW r \in Requests, Tap(r) PROVE LockHeldInTransaction'
  <2>1. PICK q : Moved(r, q) /\ Stage(r, q)
    BY <1>1, TapSteps
  <2>2. ASSUME UNCHANGED lock, q.pc \in InTx <=> req[r].pc \in InTx,
               q.pc \in InTx => q.in = req[r].in
        PROVE  LockHeldInTransaction'
    BY <1>a, <2>1, <2>2 DEF LockHeldInTransaction, Moved
  <2>3. ASSUME Unlock(r), q.pc \notin InTx PROVE LockHeldInTransaction'
    BY <1>a, <2>1, <2>3 DEF LockHeldInTransaction, Moved, Unlock
  <2>4. CASE Opens(r, q) \/ Presses(r, q) \/ Passes(r, q) \/ Begins(r, q) \/ Leaves(r, q)
             \/ Spends(r, q)
    BY <2>2, <2>4 DEF Opens, Presses, Passes, Spends, Begins, Leaves, Goes, InTx, Quiet
  <2>5. CASE Decides(r, q)
    BY <2>2, <2>5 DEF Decides, InTx, Quiet
  <2>6. CASE Locks(r, q)
    BY <1>a, <2>1, <2>6 DEF LockHeldInTransaction, Moved, Locks, Goes, InTx
  <2>7. CASE Gated(r, q) \/ Writes(r, q) \/ Ends(r, q)
    BY <2>3, <2>7 DEF Gated, Writes, Ends, Goes, InTx
  <2> QED
    BY <2>1, <2>4, <2>5, <2>6, <2>7 DEF Stage
<1>2. CASE UNCHANGED <<lock, req>>
  BY <1>2 DEF LockHeldInTransaction
<1>3. Environment => UNCHANGED <<lock, req>>
  BY DEF Environment, Tick, RetireTagForReplacement, UnmountTagFromWall,
         AssignTagToLocation, SetStatus, DeactivateEmployee, ManualRecord, LeaveHolding
<1> QED
  BY <1>1, <1>2, <1>3 DEF Next, vars

(* A request decides and writes exactly while it holds its person's lock,  *)
(* whatever fails, times out or is refused in between.                     *)
THEOREM LockIsHeld == Spec => []LockHeldInTransaction
<1>1. TypeInv /\ LockHeldInTransaction /\ [Next]_vars
        => (TypeInv /\ LockHeldInTransaction)'
  BY TypeNext, LockNext
<1>2. Init => TypeInv /\ LockHeldInTransaction
  BY TypeInit, LockInit
<1> QED
  BY <1>1, <1>2, PTL DEF Spec

---------------------------------------------------------------------------
(* The chip counter. *)

\* Every step moves a counter only as CounterMovesOnlyForItsReaders says.
LEMMA CounterStep ==
  ASSUME TypeInv, [Next]_vars, NEW t \in Tags, tags'[t].lastCtr # tags[t].lastCtr
  PROVE  /\ tags'[t].lastCtr > tags[t].lastCtr
         /\ \E r \in Requests :
              /\ req[r].in.tag = t /\ req[r].in.ctr = tags'[t].lastCtr /\ req[r].cmac
              /\ OwnTag(r) \/ StrictPeers(Session(r), Site(r))
<1>a. /\ tags \in [Tags -> [status : TagStatuses, lastCtr : 0..MaxCtr, offSince : Nat]]
      /\ MaxCtr \in Nat
      /\ \A s \in Requests : req[s].in.tag \in Tags /\ req[s].in.ctr \in Nat
  BY CheckinAssumption, InputFields DEF TypeInv, TypeOK, ReqType
<1>1. ASSUME NEW r \in Requests, Tap(r)
      PROVE  /\ req[r].in.tag = t /\ req[r].in.ctr = tags'[t].lastCtr /\ req[r].cmac
             /\ OwnTag(r) \/ StrictPeers(Session(r), Site(r))
             /\ tags'[t].lastCtr > tags[t].lastCtr
  <2>1. PICK q : Stage(r, q)
    BY <1>1, TapSteps
  <2>2. Spends(r, q)
    BY <2>1 DEF Stage, Opens, Presses, Passes, Begins, Locks, Decides, Gated, Writes,
                Leaves, Ends, Quiet
  <2>3. tags'[req[r].in.tag].lastCtr = req[r].in.ctr /\ req[r].in.tag = t
    BY <1>a, <2>2 DEF Spends
  <2>4. req[r].cmac /\ tags[t].lastCtr < req[r].in.ctr
    BY <2>2, <2>3 DEF Spends, Spendable, Newer
  <2> QED
    BY <1>a, <2>2, <2>3, <2>4 DEF Spends
<1>2. CASE \E r \in Requests : Tap(r)
  BY <1>1, <1>2
<1>3. ASSUME NEW u \in Tags, NEW from, NEW to, SetStatus(u, from, to) PROVE FALSE
  BY <1>a, <1>3 DEF SetStatus
<1>4. CASE Environment
  BY <1>3, <1>4, CheckinAssumption
     DEF Environment, Tick, RetireTagForReplacement, UnmountTagFromWall,
         AssignTagToLocation, DeactivateEmployee, ManualRecord, LeaveHolding
<1> QED
  BY <1>2, <1>4 DEF Next, vars

(* A plaque's counter only goes up, and only for a verified read by a      *)
(* session of its own tenant or of a peer at that instant.                 *)
THEOREM CounterIsItsReaders == Spec => CounterMovesOnlyForItsReaders
<1>1. TypeInv /\ [Next]_vars =>
        [\A t \in Tags : tags'[t].lastCtr # tags[t].lastCtr =>
           /\ tags'[t].lastCtr > tags[t].lastCtr
           /\ \E r \in Requests :
                /\ req[r].in.tag = t /\ req[r].in.ctr = tags'[t].lastCtr /\ req[r].cmac
                /\ OwnTag(r) \/ StrictPeers(Session(r), Site(r))]_vars
  BY CounterStep
<1> QED
  BY <1>1, TypeInit, TypeNext, PTL DEF Spec, CounterMovesOnlyForItsReaders

---------------------------------------------------------------------------
(* The clock. *)

\* The bounds are numbers, and a request outlives neither a debounce window nor
\* the grace of a site gate.
LEMMA Numbers ==
  /\ MaxTime \in Nat /\ RequestTimeout \in Nat /\ Grace \in Nat /\ Forever \in Nat
  /\ DebounceWindow \in Nat /\ FutureGrace \in Nat /\ MaxCtr \in Nat
  /\ MaxTime < Forever /\ RequestTimeout < DebounceWindow /\ RequestTimeout < Grace
BY CheckinAssumption, TimeoutAssumption, ParamsAssumption DEF Forever

\* The fields of the variables that the invariants compute with.
LEMMA Fields ==
  ASSUME TypeInv
  PROVE  /\ clock \in Nat
         /\ tags \in [Tags -> [status : TagStatuses, lastCtr : 0..MaxCtr, offSince : Nat]]
         /\ leftAt \in [Tenants -> Int]
         /\ lock \in [Employees -> Requests \cup {NoRequest}]
         /\ NoRequest \notin Requests
         /\ \A r \in Requests :
              /\ req[r].now \in Nat /\ req[r].txStart \in Nat /\ req[r].gatheredAt \in Nat
              /\ req[r].in \in InputType
              /\ req[r].in.emp \in Employees /\ req[r].in.tag \in Tags
              /\ req[r].in.channel \in Channels /\ req[r].in.ctr \in Nat
              /\ req[r].sunValid \in BOOLEAN
              /\ Session(r) \in Tenants /\ Site(r) \in Tenants
         /\ \A row \in ledger :
              /\ row.createdAt \in Nat /\ row.occurredAt \in Nat /\ row.id \in Nat
              /\ row.by \in Requests \cup {NoRequest}
<1>1. \A r \in Requests : req[r] \in ReqType
  BY DEF TypeInv, TypeOK
<1>2. \A r \in Requests :
        /\ req[r].now \in Nat /\ req[r].txStart \in Nat /\ req[r].gatheredAt \in Nat
        /\ req[r].in \in InputType /\ req[r].sunValid \in BOOLEAN
  BY <1>1 DEF ReqType
<1>3. \A r \in Requests :
        /\ req[r].in.emp \in Employees /\ req[r].in.tag \in Tags
        /\ req[r].in.channel \in Channels /\ req[r].in.ctr \in Nat
  BY <1>2, InputFields, CheckinAssumption
<1>4. \A row \in ledger :
        /\ row.createdAt \in Nat /\ row.occurredAt \in Nat /\ row.id \in Nat
        /\ row.by \in Requests \cup {NoRequest}
  BY CheckinAssumption DEF TypeInv, TypeOK, RowType
<1> QED
  BY <1>2, <1>3, <1>4, CheckinAssumption DEF TypeInv, TypeOK, Session, Site

\* Nothing is dated at first.
LEMMA ClockInit == Init => ClockInv
BY Numbers DEF Init, Idle, ClockInv

\* Nothing is dated after the clock, but what a client or a manager declares.
LEMMA ClockNext == TypeInv /\ ClockInv /\ [Next]_vars => ClockInv'
<1> SUFFICES ASSUME TypeInv, ClockInv, [Next]_vars PROVE ClockInv'
  OBVIOUS
<1>a. /\ clock \in Nat
      /\ \A r \in Requests :
           req[r].now \in Nat /\ req[r].txStart \in Nat /\ req[r].gatheredAt \in Nat
      /\ \A row \in ledger : row.createdAt \in Nat
  BY Fields
<1>1. ASSUME NEW r \in Requests, Tap(r) PROVE ClockInv'
  <2>1. PICK q : Moved(r, q) /\ Stage(r, q)
    BY <1>1, TapSteps
  <2>2. clock' = clock
    BY <2>1 DEF Stage, Opens, Presses, Passes, Spends, Begins, Locks, Decides, Gated,
                Writes, Leaves, Ends, Quiet
  <2>3. /\ q.now <= clock /\ q.txStart <= clock /\ q.gatheredAt <= clock
        /\ q.pc \in {"waiting", "locked", "decided"} => q.now <= q.txStart
        /\ q.pc = "decided" => q.gatheredAt <= q.now + RequestTimeout
    <3>1. CASE Opens(r, q) \/ Passes(r, q) \/ Spends(r, q) \/ Leaves(r, q)
      BY <3>1 DEF ClockInv, Opens, Passes, Spends, Leaves, Goes, Dates
    <3>2. CASE Presses(r, q) \/ Begins(r, q)
      BY <1>a, <3>2 DEF ClockInv, Presses, Begins, Goes
    <3>3. CASE Locks(r, q)
      BY <3>3 DEF ClockInv, Locks, Goes, Dates
    <3>4. CASE Decides(r, q)
      BY <1>a, <3>4 DEF ClockInv, Decides, InTime
    <3>5. CASE Gated(r, q) \/ Writes(r, q) \/ Ends(r, q)
      BY <1>a, <3>5 DEF ClockInv, Gated, Writes, Goes, Ends
    <3> QED
      BY <2>1, <3>1, <3>2, <3>3, <3>4, <3>5 DEF Stage
  <2>4. \A row \in ledger' : row.createdAt <= clock
    <3>1. CASE UNCHANGED ledger
      BY <3>1 DEF ClockInv
    <3>2. ASSUME NEW id, ledger' = ledger \cup {rowOf(r, id)}
          PROVE  \A row \in ledger' : row.createdAt <= clock
      BY <3>2 DEF ClockInv, rowOf
    <3> QED
      BY <2>1, <3>1, <3>2
         DEF Stage, Opens, Presses, Passes, Spends, Begins, Locks, Decides, Gated, Writes,
             Leaves, Ends, Quiet
  <2> QED
    BY <2>1, <2>2, <2>3, <2>4 DEF ClockInv, Moved
<1>2. CASE UNCHANGED <<req, ledger>> /\ clock' \in {clock, clock + 1} /\ clock' <= MaxTime
  BY <1>a, <1>2 DEF ClockInv
<1>3. CASE Tick
  BY <1>a, <1>2, <1>3, Numbers DEF Tick
<1>4. ASSUME NEW e \in Employees, ManualRecord(e) PROVE ClockInv'
  <2>1. PICK id, type, at : ledger' = ledger \cup {manualRow(id, e, type, at)}
    BY <1>4 DEF ManualRecord
  <2>2. manualRow(id, e, type, at).createdAt = clock
    BY DEF manualRow
  <2>3. \A row \in ledger' : row.createdAt <= clock
    BY <1>a, <2>1, <2>2 DEF ClockInv
  <2> QED
    BY <1>4, <2>3 DEF ClockInv, ManualRecord
<1>5. CASE \/ \E t \in ManagedTags :
                RetireTagForReplacement(t) \/ UnmountTagFromWall(t) \/ AssignTagToLocation(t)
           \/ \E e \in ManagedEmps : DeactivateEmployee(e)
           \/ \E t \in Tenants : LeaveHolding(t)
           \/ UNCHANGED vars
  <2>1. UNCHANGED <<req, ledger, clock>>
    BY <1>5 DEF RetireTagForReplacement, UnmountTagFromWall, AssignTagToLocation, SetStatus,
                DeactivateEmployee, LeaveHolding, vars
  <2> QED
    BY <1>2, <2>1 DEF ClockInv
<1> QED
  BY <1>1, <1>3, <1>4, <1>5 DEF Next, Environment

---------------------------------------------------------------------------
(* The plaque's service and the holding. *)

\* A plaque in service has no end of service yet.
LEMMA ServiceInit == Init => ServiceInv /\ InactiveTagNeverCounts
BY DEF Init, Idle, ServiceInv, Running, InTx, InactiveTagNeverCounts

\* What gatherWith gives the decision.
LEMMA Gathered ==
  ASSUME NEW r \in Requests
  PROVE  LET in == gatherWith(r)
         IN  /\ in.tagStatus = DecidedStatus(r)
             /\ in.now = req[r].now
             /\ in.sinceRecorded = SecondsSinceLastRecordedTap(req[r].in.emp)
             /\ in.lastForPerson = LastForPerson(req[r].in.emp)
             /\ req[r].in.declared = NoTime =>
                  in.lastOpenIn = LastOpenIn(req[r].in.emp, req[r].now)
BY DEF gatherWith

\* A status read from the plaque, or held since the press, is active only for a
\* tap pressed in service.
LEMMA ServiceTap ==
  ASSUME TypeInv, ClockInv, ServiceInv, NEW r \in Requests, Tap(r)
  PROVE  ServiceInv'
<1>a. /\ tags \in [Tags -> [status : TagStatuses, lastCtr : 0..MaxCtr, offSince : Nat]]
      /\ \A s \in Requests : req[s].in.tag \in Tags /\ req[s].now \in Nat
      /\ clock \in Nat
  BY Fields
<1>1. PICK q : Moved(r, q) /\ Stage(r, q)
  BY TapSteps
<1>2. \A t \in Tags : tags'[t].status = tags[t].status /\ tags'[t].offSince = tags[t].offSince
  BY <1>1, <1>a DEF Stage, Opens, Presses, Passes, Spends, Begins, Locks, Decides, Gated,
                    Writes, Leaves, Ends, Quiet
<1>3. \A s \in Requests, t \in Tags :
        tags[t].status = "active" => req[s].now <= tags[t].offSince /\ clock <= tags[t].offSince
  BY <1>a, Numbers DEF ServiceInv, ClockInv
<1>4. /\ q.pc \in Running \ {"decided"} /\ q.status = "active" =>
           q.now <= tags[q.in.tag].offSince
      /\ q.pc = "decided" /\ q.dec.verdict \in Counted => q.now <= tags[q.in.tag].offSince
  <2>1. CASE Presses(r, q)
    BY <1>a, <1>3, <2>1 DEF Presses, Goes
  <2>2. CASE Passes(r, q) \/ Spends(r, q) \/ Begins(r, q) \/ Locks(r, q)
    BY <1>a, <1>3, <2>2
       DEF Passes, Spends, Begins, Locks, Goes, Dates, ServiceInv, PressedInService,
           Running, InTx
  <2>3. CASE Decides(r, q)
    <3>1. ASSUME q.dec.verdict \in Counted PROVE req[r].now <= tags[req[r].in.tag].offSince
      <4>1. DecidedStatus(r) = "active"
        BY <2>3, <3>1, CountedIsActive, Gathered DEF Decides
      <4>2. req[r].status = "active" \/ tags[req[r].in.tag].status = "active"
        BY <4>1 DEF DecidedStatus
      <4> QED
        BY <1>a, <1>3, <2>3, <4>2
           DEF Decides, ServiceInv, PressedInService, Running, InTx
    <3> QED
      BY <2>3, <3>1 DEF Decides
  <2>4. CASE Opens(r, q) \/ Gated(r, q) \/ Writes(r, q) \/ Leaves(r, q) \/ Ends(r, q)
    BY <2>4 DEF Opens, Gated, Writes, Leaves, Ends, Goes, Running, InTx
  <2> QED
    BY <1>1, <2>1, <2>2, <2>3, <2>4 DEF Stage
<1>5. \A s \in Requests : req'[s].in.tag \in Tags
  <2>1. q.in.tag \in Tags
    BY <1>1, TypeNext, Fields DEF Moved, Next, TypeInv, TypeOK, ReqType, InputType
  <2> QED
    BY <1>a, <1>1, <2>1 DEF Moved
<1>6. \A t \in Tags : tags'[t].status = "active" => tags'[t].offSince = Forever
  BY <1>2 DEF ServiceInv
<1>7. ASSUME NEW s \in Requests
      PROVE  /\ req'[s].pc \in Running \ {"decided"} /\ req'[s].status = "active" =>
                  req'[s].now <= tags'[req'[s].in.tag].offSince
             /\ req'[s].pc = "decided" /\ req'[s].dec.verdict \in Counted =>
                  req'[s].now <= tags'[req'[s].in.tag].offSince
  BY <1>1, <1>2, <1>4, <1>5 DEF Moved, ServiceInv, PressedInService
<1> QED
  BY <1>6, <1>7 DEF ServiceInv, PressedInService

\* A plaque that leaves service does so after every press before it; one that
\* returns is in service for ever.
LEMMA ServiceNext == TypeInv /\ ClockInv /\ ServiceInv /\ [Next]_vars => ServiceInv'
<1> SUFFICES ASSUME TypeInv, ClockInv, ServiceInv, [Next]_vars PROVE ServiceInv'
  OBVIOUS
<1>a. /\ tags \in [Tags -> [status : TagStatuses, lastCtr : 0..MaxCtr, offSince : Nat]]
      /\ \A s \in Requests : req[s].in.tag \in Tags /\ req[s].now \in Nat
      /\ clock \in Nat
  BY Fields
<1>1. ASSUME NEW t \in Tags, NEW from, NEW to, SetStatus(t, from, to)
      PROVE  ServiceInv'
  <2>1. \A u \in Tags \ {t} : tags'[u] = tags[u]
    BY <1>a, <1>1 DEF SetStatus
  <2>2. /\ tags'[t].status = to
        /\ tags'[t].offSince = IF to = "active" THEN Forever ELSE clock
    BY <1>a, <1>1 DEF SetStatus
  <2>3. \A s \in Requests : req[s].now <= tags'[t].offSince
    BY <1>a, <2>2, Numbers DEF ClockInv
  <2>4. req' = req
    BY <1>1 DEF SetStatus
  <2> QED
    BY <1>a, <2>1, <2>2, <2>3, <2>4 DEF ServiceInv, PressedInService
<1>2. CASE UNCHANGED <<tags, req>>
  BY <1>2 DEF ServiceInv, PressedInService
<1>3. CASE \E t \in ManagedTags :
             RetireTagForReplacement(t) \/ UnmountTagFromWall(t) \/ AssignTagToLocation(t)
  BY <1>1, <1>3, CheckinAssumption
     DEF RetireTagForReplacement, UnmountTagFromWall, AssignTagToLocation
<1>4. CASE \E r \in Requests : Tap(r)
  BY <1>4, ServiceTap
<1> QED
  BY <1>2, <1>3, <1>4
     DEF Next, Environment, Tick, DeactivateEmployee, ManualRecord, LeaveHolding, vars

\* Nobody is SUN-valid at first.
LEMMA PeerInit == Init => PeerInv /\ SpentCounterNeverGated
BY DEF Init, Idle, PeerInv, SpentCounterNeverGated

\* The site gate lets a spent counter through while its request runs.
LEMMA SpentPasses ==
  ASSUME TypeInv, SpentInv, ClockInv, PeerInv, NEW r \in Requests,
         req[r].pc = "decided", req[r].sunValid, InTime(r)
  PROVE  SiteGate(r)
<1>a. /\ leftAt \in [Tenants -> Int] /\ clock \in Nat /\ req[r].now \in Nat
      /\ req[r].in.ctr \in Nat /\ req[r].in.tag \in Tags
      /\ Session(r) \in Tenants /\ Site(r) \in Tenants
  BY Fields
<1>1. CASE OwnTag(r)
  BY <1>1 DEF SiteGate
<1>2. CASE ~OwnTag(r)
  <2>1. leftAt[Session(r)] >= req[r].now /\ leftAt[Site(r)] >= req[r].now
        /\ req[r].in.channel = "nfc"
    BY <1>2 DEF PeerInv, Running, InTx
  <2>2. TolerantPeers(Session(r), Site(r))
    BY <1>a, <1>2, <2>1, Numbers DEF TolerantPeers, InTime, OwnTag
  <2>3. tags[req[r].in.tag].lastCtr >= req[r].in.ctr
    <3>1. tags[req[r].in.tag].lastCtr \in 0..MaxCtr
      BY <1>a, Fields
    <3> QED
      BY <1>a, <3>1, Numbers DEF SpentInv
  <2> QED
    BY <2>1, <2>2, <2>3 DEF SiteGate
<1> QED
  BY <1>1, <1>2

\* Who spends a peer's counter is its peer then; a membership ends after every
\* press before it.
LEMMA PeerNext ==
  TypeInv /\ SpentInv /\ ClockInv /\ PeerInv /\ SpentCounterNeverGated /\ [Next]_vars
    => PeerInv' /\ SpentCounterNeverGated'
<1> SUFFICES ASSUME TypeInv, SpentInv, ClockInv, PeerInv, SpentCounterNeverGated,
                    [Next]_vars
             PROVE  PeerInv' /\ SpentCounterNeverGated'
  OBVIOUS
<1>a. /\ leftAt \in [Tenants -> Int] /\ clock \in Nat
      /\ \A s \in Requests : /\ req[s].now \in Nat
                             /\ Session(s) \in Tenants /\ Site(s) \in Tenants
  BY Fields
<1>1. ASSUME NEW r \in Requests, Tap(r) PROVE PeerInv' /\ SpentCounterNeverGated'
  <2>1. PICK q : Moved(r, q) /\ Stage(r, q)
    BY <1>1, TapSteps
  <2>2. leftAt' = leftAt
    BY <2>1 DEF Stage, Opens, Presses, Passes, Spends, Begins, Locks, Decides, Gated,
                Writes, Leaves, Ends, Quiet
  <2> DEFINE home == EmpTenant[q.in.emp]
             site == TagTenant[q.in.tag]
  <2>3. q.sunValid =>
          /\ q.in.channel = "nfc"
          /\ q.pc \in Running /\ home # site =>
               leftAt[home] >= q.now /\ leftAt[site] >= q.now
    <3>1. CASE Opens(r, q) \/ Presses(r, q)
      BY <3>1 DEF Opens, Presses, Goes, SpentInv, Unspent
    <3>2. CASE Spends(r, q)
      <4>1. ~OwnTag(r) => leftAt[Session(r)] > clock /\ leftAt[Site(r)] > clock
        BY <3>2 DEF Spends, StrictPeers
      <4>2. req[r].now <= clock
        BY DEF ClockInv
      <4>3. req[r].in.channel = "nfc" /\ q.now = req[r].now /\ q.in = req[r].in
        BY <3>2 DEF Spends, Spendable, Goes, Dates
      <4> QED
        BY <1>a, <4>1, <4>2, <4>3 DEF OwnTag, Session, Site
    <3>3. CASE Passes(r, q) \/ Begins(r, q) \/ Locks(r, q)
      BY <3>3 DEF Passes, Begins, Locks, Goes, Dates, PeerInv, OwnTag, Session, Site,
                  Running, InTx
    <3>4. CASE Decides(r, q)
      BY <3>4 DEF Decides, PeerInv, OwnTag, Session, Site, Running, InTx
    <3>5. CASE Gated(r, q) \/ Writes(r, q) \/ Leaves(r, q)
      BY <3>5 DEF Gated, Writes, Leaves, Goes, PeerInv, Running, InTx
    <3>6. CASE Ends(r, q)
      BY <3>6 DEF Ends
    <3> QED
      BY <2>1, <3>1, <3>2, <3>3, <3>4, <3>5, <3>6 DEF Stage
  <2>4. q.pc = "gated" => ~q.sunValid
    <3>1. CASE Gated(r, q)
      BY <3>1, SpentPasses DEF Gated, Goes
    <3>2. CASE ~Gated(r, q)
      BY <2>1, <3>2 DEF Stage, Opens, Presses, Passes, Spends, Begins, Locks, Decides,
                        Writes, Leaves, Ends, Goes
    <3> QED
      BY <3>1, <3>2
  <2>5. SpentCounterNeverGated'
    BY <2>1, <2>4 DEF SpentCounterNeverGated, Moved
  <2>6. ASSUME NEW s \in Requests, req'[s].sunValid
        PROVE  /\ req'[s].in.channel = "nfc"
               /\ req'[s].pc \in Running /\ EmpTenant[req'[s].in.emp] # TagTenant[req'[s].in.tag]
                    => /\ leftAt[EmpTenant[req'[s].in.emp]] >= req'[s].now
                       /\ leftAt[TagTenant[req'[s].in.tag]] >= req'[s].now
    BY <2>1, <2>3, <2>6 DEF Moved, PeerInv, OwnTag, Session, Site
  <2> QED
    BY <2>2, <2>5, <2>6 DEF PeerInv, OwnTag, Session, Site
<1>2. ASSUME NEW t \in Tenants, LeaveHolding(t) PROVE PeerInv' /\ SpentCounterNeverGated'
  <2>1. \A u \in Tenants : leftAt'[u] = IF u = t THEN clock ELSE leftAt[u]
    BY <1>a, <1>2 DEF LeaveHolding
  <2>2. req' = req
    BY <1>2 DEF LeaveHolding
  <2>3. \A s \in Requests : req[s].now <= clock
    BY DEF ClockInv
  <2> QED
    BY <1>a, <2>1, <2>2, <2>3
       DEF PeerInv, SpentCounterNeverGated, OwnTag, Session, Site
<1>3. CASE UNCHANGED <<leftAt, req>>
  BY <1>3 DEF PeerInv, SpentCounterNeverGated, OwnTag, Session, Site
<1> QED
  BY <1>1, <1>2, <1>3
     DEF Next, Environment, Tick, RetireTagForReplacement, UnmountTagFromWall,
         AssignTagToLocation, SetStatus, DeactivateEmployee, ManualRecord, vars

(* A tap that spent a peer's counter is never refused by the site gate     *)
(* because the membership ended meanwhile: a request is over before the    *)
(* gate's grace is.                                                        *)
THEOREM SpentIsLetThrough == Spec => []SpentCounterNeverGated
<1>1. ReplayInv /\ ClockInv /\ PeerInv /\ SpentCounterNeverGated /\ [Next]_vars
        => (ReplayInv /\ ClockInv /\ PeerInv /\ SpentCounterNeverGated)'
  BY ReplayNext, ClockNext, PeerNext DEF ReplayInv
<1>2. Init => ReplayInv /\ ClockInv /\ PeerInv /\ SpentCounterNeverGated
  BY ReplayInit, ClockInit, PeerInit
<1> QED
  BY <1>1, <1>2, PTL DEF Spec

---------------------------------------------------------------------------
(* The ledger. *)

(* Every row's instant is below a bound, so a person's last record exists. *)
DatedInv == \E n \in Nat : \A row \in ledger : row.occurredAt <= n

\* A request that has recorded keeps what the properties look back at.
LEMMA RecordedStays ==
  ASSUME TypeInv, [Next]_vars, NEW s \in Requests, req[s].pc \in Recorded
  PROVE  /\ req'[s].in = req[s].in /\ req'[s].now = req[s].now
         /\ req'[s].gatheredAt = req[s].gatheredAt
<1>1. ASSUME NEW r \in Requests, Tap(r)
      PROVE  /\ req'[s].in = req[s].in /\ req'[s].now = req[s].now
             /\ req'[s].gatheredAt = req[s].gatheredAt
  <2>1. PICK q : Moved(r, q) /\ Stage(r, q)
    BY <1>1, TapSteps
  <2>2. r = s => Leaves(r, q)
    BY <2>1 DEF Stage, Opens, Presses, Passes, Spends, Begins, Locks, Decides, Gated,
                Writes, Ends, Goes, Recorded, Running, InTx
  <2> QED
    BY <2>1, <2>2 DEF Moved, Leaves, Goes, Dates
<1>2. Environment => UNCHANGED req
  BY DEF Environment, Tick, RetireTagForReplacement, UnmountTagFromWall,
         AssignTagToLocation, SetStatus, DeactivateEmployee, ManualRecord, LeaveHolding
<1> QED
  BY <1>1, <1>2 DEF Next, vars

\* A step adds no row, the row of a decided request, or a manager's.
LEMMA LedgerSteps ==
  ASSUME TypeInv, [Next]_vars
  PROVE  \/ UNCHANGED ledger
         \/ \E r \in Requests, id \in FreeIds : \E q :
              Moved(r, q) /\ Writes(r, q) /\ ledger' = ledger \cup {rowOf(r, id)}
         \/ \E e \in Employees, id \in FreeIds, type \in {"in", "out"},
               at \in 0..(clock + FutureGrace) :
              /\ lock[e] = NoRequest /\ UNCHANGED <<req, tags>>
              /\ ledger' = ledger \cup {manualRow(id, e, type, at)}
<1>1. ASSUME NEW r \in Requests, Tap(r)
      PROVE  \/ UNCHANGED ledger
             \/ \E id \in FreeIds : \E q :
                  Moved(r, q) /\ Writes(r, q) /\ ledger' = ledger \cup {rowOf(r, id)}
  <2>1. PICK q : Moved(r, q) /\ Stage(r, q)
    BY <1>1, TapSteps
  <2>2. CASE Writes(r, q)
    <3>1. PICK id \in FreeIds : ledger' = ledger \cup {rowOf(r, id)}
      BY <2>2 DEF Writes
    <3> QED
      BY <2>1, <2>2, <3>1
  <2>3. CASE ~Writes(r, q)
    BY <2>1, <2>3 DEF Stage, Opens, Presses, Passes, Spends, Begins, Locks, Decides, Gated,
                      Leaves, Ends, Quiet
  <2> QED
    BY <2>2, <2>3
<1>2. CASE Environment
  BY <1>2 DEF Environment, Tick, RetireTagForReplacement, UnmountTagFromWall,
         AssignTagToLocation, SetStatus, DeactivateEmployee, ManualRecord, LeaveHolding
<1> QED
  BY <1>1, <1>2 DEF Next, vars

\* No row is dated at first.
LEMMA DatedInit == Init => DatedInv /\ RowsInv /\ DecidedInv
<1> SUFFICES ASSUME Init PROVE DatedInv /\ RowsInv /\ DecidedInv
  OBVIOUS
<1>1. ledger = {} /\ 0 \in Nat
  BY DEF Init
<1>2. DatedInv /\ RowsInv
  BY <1>1 DEF DatedInv, RowsInv
<1>3. DecidedInv
  BY DEF Init, Idle, DecidedInv
<1> QED
  BY <1>2, <1>3

\* The bound of the instants grows with the ledger.
LEMMA DatedNext == TypeInv /\ DatedInv /\ [Next]_vars => DatedInv'
<1> SUFFICES ASSUME TypeInv, DatedInv, [Next]_vars PROVE DatedInv'
  OBVIOUS
<1>1. PICK n \in Nat : \A row \in ledger : row.occurredAt <= n
  BY DEF DatedInv
<1>2. ASSUME NEW row, ledger' = ledger \cup {row} PROVE DatedInv'
  <2>1. row.occurredAt \in Nat
    BY <1>2, TypeNext, Fields DEF TypeInv, TypeOK, RowType
  <2>2. PICK m \in Nat : m = n + row.occurredAt
    BY <2>1
  <2>3. \A x \in ledger : x.occurredAt \in Nat
    BY Fields
  <2>4. \A x \in ledger' : x.occurredAt <= m
    BY <1>1, <1>2, <2>1, <2>2, <2>3
  <2> QED
    BY <2>4 DEF DatedInv
<1>3. CASE UNCHANGED ledger
  BY <1>3 DEF DatedInv
<1> QED
  BY <1>2, <1>3, LedgerSteps

\* A row goes on saying what its request said.
LEMMA RowsNext ==
  TypeInv /\ LedgerInv /\ ClockInv /\ RowsInv /\ [Next]_vars => RowsInv'
<1> SUFFICES ASSUME TypeInv, LedgerInv, ClockInv, RowsInv, [Next]_vars PROVE RowsInv'
  OBVIOUS
<1> DEFINE Says(row) ==
      /\ row.by \in Requests =>
           /\ row.emp = req'[row.by].in.emp /\ row.tag = req'[row.by].in.tag
           /\ row.channel \in Channels
           /\ req'[row.by].in.declared = NoTime => row.occurredAt <= row.createdAt
      /\ row.by = NoRequest => row.channel = "manual" /\ row.type # "none"
<1>1. \A row \in ledger : Says(row)
  BY RecordedStays DEF LedgerInv, RowsInv
<1>2. ASSUME NEW r \in Requests, NEW q, NEW id, Moved(r, q), Writes(r, q)
      PROVE  Says(rowOf(r, id))
  <2>1. req'[r].in = req[r].in
    BY <1>2 DEF Moved, Writes, Goes
  <2>2. req[r].now <= req[r].txStart
    BY <1>2 DEF ClockInv, Writes, Goes
  <2>3. req[r].in.channel \in Channels /\ r # NoRequest
    BY Fields
  <2> QED
    BY <2>1, <2>2, <2>3 DEF rowOf
<1>3. \A e, id, at : \A type \in {"in", "out"} : Says(manualRow(id, e, type, at))
  BY Fields DEF manualRow
<1>4. \A row \in ledger' : Says(row)
  <2> HIDE DEF Says
  <2> QED
    BY <1>1, <1>2, <1>3, LedgerSteps
<1> QED
  BY <1>4 DEF RowsInv

\* Who holds a person's lock finds the person's rows as they were.
LEMMA RowsStay ==
  ASSUME TypeInv, LockHeldInTransaction, [Next]_vars,
         NEW s \in Requests, req[s].pc \in InTx, req'[s].pc \in InTx,
         NEW e, e = req[s].in.emp
  PROVE  RowsOf(e)' = RowsOf(e)
<1>1. lock[e] = s /\ s # NoRequest
  BY Fields DEF LockHeldInTransaction
<1>2. ASSUME NEW r \in Requests, NEW q, NEW id, Moved(r, q), Writes(r, q)
      PROVE  rowOf(r, id).emp # e
  <2>1. r # s
    BY <1>2 DEF Moved, Writes, Goes, InTx
  <2>2. lock[req[r].in.emp] = r
    BY <1>2 DEF LockHeldInTransaction, Writes, Goes, InTx
  <2> QED
    BY <1>1, <2>1, <2>2 DEF rowOf
<1>3. \A f, id, type, at : lock[f] = NoRequest => manualRow(id, f, type, at).emp # e
  BY <1>1 DEF manualRow
<1>4. UNCHANGED ledger \/ \E row : ledger' = ledger \cup {row} /\ row.emp # e
  BY <1>2, <1>3, LedgerSteps
<1> QED
  BY <1>4 DEF RowsOf

\* A decision that counts saw no tap of the person inside the debounce window.
LEMMA DebounceSeen ==
  ASSUME TypeInv, ClockInv, DatedInv, NEW r \in Requests,
         Decide(gatherWith(r)).verdict \in Counted,
         NEW row \in RowsOf(req[r].in.emp), row.channel \in Channels
  PROVE  row.createdAt + DebounceWindow <= clock
<1> DEFINE e == req[r].in.emp
           recent == {x \in RowsOf(e) : /\ x.channel \in Channels
                                        /\ x.createdAt > clock - DebounceWindow}
           dates == {x.createdAt : x \in recent}
           instants == {NoTime} \cup {x.occurredAt : x \in RowsOf(e)}
<1>a. clock \in Nat /\ DebounceWindow \in Nat /\ req[r].now \in Nat
  BY Fields, Numbers
<1>b. \A x \in RowsOf(e) : /\ x.createdAt \in Nat /\ x.occurredAt \in Nat
                           /\ x.createdAt <= clock
  BY Fields DEF RowsOf, ClockInv
<1>1. SUFFICES ASSUME row.createdAt > clock - DebounceWindow PROVE FALSE
  BY <1>a, <1>b
<1>2. row \in recent /\ row.createdAt \in dates /\ dates \subseteq -1..clock
  BY <1>1, <1>b, <1>a
<1>3. Max(dates) \in dates /\ row.createdAt <= Max(dates)
  BY <1>2, <1>a, MaxIs
<1>4. SecondsSinceLastRecordedTap(e) = clock - Max(dates)
  BY <1>2 DEF SecondsSinceLastRecordedTap
<1>5. PICK n \in Nat : \A x \in ledger : x.occurredAt <= n
  BY DEF DatedInv
<1>6. instants \subseteq -1..n /\ instants # {} /\ instants \subseteq Nat \cup {NoTime}
  BY <1>5, <1>b DEF RowsOf, NoTime
<1>7. LastForPerson(e) \in Nat \cup {NoTime}
  BY <1>6, MaxIs, Zenon DEF LastForPerson
<1>8. clock - Max(dates) \in Nat /\ clock - Max(dates) < DebounceWindow
  <2>1. PICK m \in -1..clock : m = Max(dates)
    BY <1>2, <1>3
  <2>2. row.createdAt \in Nat /\ row.createdAt <= m /\ clock - DebounceWindow < row.createdAt
    BY <1>1, <1>3, <1>b, <2>1
  <2> QED
    BY <1>a, <2>1, <2>2
<1> HIDE DEF dates, recent, instants
<1>9. clock - Max(dates) >= DebounceWindow
  BY <1>4, <1>7, <1>8, <1>a, Gathered, CountedIsApart
<1> QED
  BY <1>8, <1>9, <1>a

\* A decision holds what it saw until its request has written.
LEMMA DecidedNext ==
  TypeInv /\ LockHeldInTransaction /\ ClockInv /\ DatedInv /\ DecidedInv /\ [Next]_vars
    => DecidedInv'
<1> SUFFICES ASSUME TypeInv, LockHeldInTransaction, ClockInv, DatedInv, DecidedInv,
                    [Next]_vars, NEW s \in Requests, req'[s].pc = "decided",
                    NEW e, e = req'[s].in.emp
             PROVE  /\ req'[s].dec.type # "none" => req'[s].dec.verdict \in Counted
                    /\ req'[s].dec.verdict \in Counted =>
                         \A row \in RowsOf(e)' :
                           row.channel \in Channels =>
                             row.createdAt + DebounceWindow <= req'[s].gatheredAt
                    /\ /\ req'[s].dec.type = "out" /\ req'[s].dec.source = "auto"
                       /\ req'[s].in.declared = NoTime
                       => \A at : at = req'[s].now => OpenAt(e, at)' # {}
  BY DEF DecidedInv
<1>1. CASE req'[s] = req[s]
  <2>1. req[s].pc \in InTx /\ req'[s].pc \in InTx /\ e = req[s].in.emp
    BY <1>1 DEF InTx
  <2>2. RowsOf(e)' = RowsOf(e)
    BY <2>1, RowsStay
  <2>3. \A at : OpenAt(e, at)' = OpenAt(e, at)
    BY <2>2 DEF OpenAt
  <2> QED
    BY <1>1, <2>2, <2>3 DEF DecidedInv
<1>2. CASE \E q : Moved(s, q) /\ Decides(s, q)
  <2>1. PICK q : Moved(s, q) /\ Decides(s, q)
    BY <1>2
  <2>2. /\ req'[s] = q /\ ledger' = ledger /\ e = req[s].in.emp
        /\ q.now = req[s].now /\ q.gatheredAt = clock /\ q.in = req[s].in
        /\ q.dec.verdict = Decide(gatherWith(s)).verdict
        /\ q.dec.type = Decide(gatherWith(s)).type
        /\ q.dec.source = Decide(gatherWith(s)).source
    BY <2>1 DEF Moved, Decides, Quiet
  <2>3. RowsOf(e)' = RowsOf(e)
    BY <2>2 DEF RowsOf
  <2>4. \A at : OpenAt(e, at)' = OpenAt(e, at)
    BY <2>3 DEF OpenAt
  <2>5. ASSUME q.dec.type = "out", q.dec.source = "auto", q.in.declared = NoTime
        PROVE  OpenAt(e, q.now) # {}
    <3>1. LastOpenIn(e, q.now) # NoTime
      BY <2>2, <2>5, OutHasOpenIn, Gathered
    <3>2. ASSUME OpenAt(e, q.now) = {} PROVE LastOpenIn(e, q.now) = NoTime
      BY <3>2 DEF LastOpenIn, Max, NoTime
    <3> QED
      BY <3>1, <3>2
  <2>6. q.dec.type # "none" => q.dec.verdict \in Counted
    BY <2>2, OutHasOpenIn
  <2>7. ASSUME q.dec.verdict \in Counted, NEW row \in RowsOf(e), row.channel \in Channels
        PROVE  row.createdAt + DebounceWindow <= q.gatheredAt
    BY <2>2, <2>7, DebounceSeen
  <2> QED
    BY <2>2, <2>3, <2>4, <2>5, <2>6, <2>7
<1>3. ASSUME NEW r \in Requests, Tap(r)
      PROVE  req'[s] = req[s] \/ \E q : Moved(s, q) /\ Decides(s, q)
  <2>1. PICK q : Moved(r, q) /\ Stage(r, q)
    BY <1>3, TapSteps
  <2>2. r = s => Decides(r, q)
    BY <2>1 DEF Stage, Opens, Presses, Passes, Spends, Begins, Locks, Gated, Writes,
                Leaves, Ends, Goes, Moved
  <2> QED
    BY <2>1, <2>2 DEF Moved
<1>4. Environment => UNCHANGED req
  BY DEF Environment, Tick, RetireTagForReplacement, UnmountTagFromWall,
         AssignTagToLocation, SetStatus, DeactivateEmployee, ManualRecord, LeaveHolding
<1> QED
  BY <1>1, <1>2, <1>3, <1>4 DEF Next, vars

---------------------------------------------------------------------------
(* What the ledger never holds. *)

\* A tap that counts was pressed before its plaque left service.
LEMMA InactiveNext ==
  /\ TypeInv /\ LedgerInv /\ RowsInv /\ ClockInv /\ ServiceInv
  /\ InactiveTagNeverCounts /\ [Next]_vars
  => InactiveTagNeverCounts'
<1> SUFFICES ASSUME TypeInv, LedgerInv, RowsInv, ClockInv, ServiceInv,
                    InactiveTagNeverCounts, [Next]_vars
             PROVE  InactiveTagNeverCounts'
  OBVIOUS
<1>a. /\ tags \in [Tags -> [status : TagStatuses, lastCtr : 0..MaxCtr, offSince : Nat]]
      /\ \A s \in Requests : req[s].in.tag \in Tags /\ req[s].now \in Nat
      /\ clock \in Nat /\ NoRequest \notin Requests
      /\ \A row \in ledger : row.by \in Requests \cup {NoRequest}
  BY Fields
<1>1. \A s \in Requests : req[s].now <= clock /\ req[s].now <= Forever
  BY <1>a, Numbers DEF ClockInv
<1>2. ASSUME NEW t \in Tags PROVE tags'[t].offSince \in {tags[t].offSince, clock, Forever}
  <2>1. ASSUME NEW u \in Tags, NEW from, NEW to, SetStatus(u, from, to)
        PROVE  tags'[t].offSince \in {tags[t].offSince, clock, Forever}
    BY <1>a, <2>1 DEF SetStatus
  <2>2. ASSUME NEW r \in Requests, Tap(r) PROVE tags'[t].offSince = tags[t].offSince
    <3>1. PICK q : Stage(r, q)
      BY <2>2, TapSteps
    <3> QED
      BY <1>a, <3>1 DEF Stage, Opens, Presses, Passes, Spends, Begins, Locks, Decides, Gated,
                        Writes, Leaves, Ends, Quiet
  <2> QED
    BY <2>1, <2>2, CheckinAssumption
       DEF Next, Environment, Tick, RetireTagForReplacement, UnmountTagFromWall,
           AssignTagToLocation, DeactivateEmployee, ManualRecord, LeaveHolding, vars
<1>3. ASSUME NEW row \in ledger, CountedTap(row)
      PROVE  req'[row.by].now <= tags'[row.tag].offSince
  <2>1. row.by \in Requests /\ req'[row.by].now = req[row.by].now /\ row.tag \in Tags
    BY <1>a, <1>3, RecordedStays DEF CountedTap, LedgerInv, RowsInv
  <2> QED
    BY <1>1, <1>2, <1>3, <2>1 DEF InactiveTagNeverCounts
<1>4. ASSUME NEW r \in Requests, NEW q, NEW id, Moved(r, q), Writes(r, q),
             CountedTap(rowOf(r, id))
      PROVE  LET row == rowOf(r, id) IN req'[row.by].now <= tags'[row.tag].offSince
  <2>1. req[r].pc = "decided" /\ req'[r].now = req[r].now /\ UNCHANGED tags
    BY <1>4 DEF Moved, Writes, Goes
  <2>2. req[r].dec.verdict \in Counted
    BY <1>4 DEF CountedTap, rowOf
  <2> QED
    BY <2>1, <2>2 DEF rowOf, ServiceInv, PressedInService
<1>5. \A e, id, type, at : ~CountedTap(manualRow(id, e, type, at))
  BY DEF CountedTap, manualRow
<1>6. \A row \in ledger' : CountedTap(row) => req'[row.by].now <= tags'[row.tag].offSince
  <2> HIDE DEF CountedTap
  <2> QED
    BY <1>3, <1>4, <1>5, LedgerSteps
<1> QED
  BY <1>6 DEF InactiveTagNeverCounts, CountedTap

\* Of two counted taps of one person, one is a debounce window after the other.
LEMMA DebounceNext ==
  /\ TypeInv /\ LedgerInv /\ RowsInv /\ DecidedInv /\ DebounceHolds /\ [Next]_vars
  => DebounceHolds'
<1> SUFFICES ASSUME TypeInv, LedgerInv, RowsInv, DecidedInv, DebounceHolds, [Next]_vars
             PROVE  DebounceHolds'
  OBVIOUS
<1> DEFINE Apart(x, y) == req'[y.by].gatheredAt - x.createdAt >= DebounceWindow
           Far(x, y) == CountedTap(x) /\ CountedTap(y) /\ x.emp = y.emp /\ x # y
                          => Apart(x, y) \/ Apart(y, x)
<1>a. /\ \A row \in ledger : row.by \in Requests \cup {NoRequest} /\ row.createdAt \in Nat
      /\ \A s \in Requests : req[s].gatheredAt \in Nat
      /\ NoRequest \notin Requests /\ DebounceWindow \in Nat
  BY Fields, Numbers
<1>1. ASSUME NEW x \in ledger, NEW y \in ledger PROVE Far(x, y)
  <2> SUFFICES ASSUME CountedTap(x), CountedTap(y), x.emp = y.emp, x # y
               PROVE  Apart(x, y) \/ Apart(y, x)
    OBVIOUS
  <2>1. /\ req'[x.by].gatheredAt = req[x.by].gatheredAt
        /\ req'[y.by].gatheredAt = req[y.by].gatheredAt
    BY <1>a, RecordedStays DEF CountedTap, LedgerInv
  <2> QED
    BY <2>1 DEF DebounceHolds
<1>2. ASSUME NEW r \in Requests, NEW q, NEW id, Moved(r, q), Writes(r, q), NEW x \in ledger
      PROVE  Far(x, rowOf(r, id)) /\ Far(rowOf(r, id), x)
  <2> SUFFICES ASSUME CountedTap(x), CountedTap(rowOf(r, id)), x.emp = rowOf(r, id).emp
               PROVE  Apart(x, rowOf(r, id))
    OBVIOUS
  <2>1. req[r].pc = "decided" /\ req'[r].gatheredAt = req[r].gatheredAt
    BY <1>2 DEF Moved, Writes, Goes
  <2>2. req[r].dec.verdict \in Counted
    BY DEF CountedTap, rowOf
  <2>3. x \in RowsOf(req[r].in.emp) /\ x.channel \in Channels
    BY <1>a DEF RowsOf, rowOf, CountedTap, RowsInv
  <2>4. x.createdAt + DebounceWindow <= req[r].gatheredAt
    BY <2>1, <2>2, <2>3 DEF DecidedInv
  <2>5. rowOf(r, id).by = r
    BY DEF rowOf
  <2> QED
    BY <1>a, <2>1, <2>4, <2>5
<1>3. \A e, id, type, at : ~CountedTap(manualRow(id, e, type, at))
  BY DEF CountedTap, manualRow
<1>4. \A x, y \in ledger' : Far(x, y)
  <2>1. ASSUME NEW n, ledger' = ledger \cup {n},
               \A x \in ledger : Far(x, n) /\ Far(n, x)
        PROVE  \A x, y \in ledger' : Far(x, y)
    BY <1>1, <2>1
  <2>2. CASE UNCHANGED ledger
    BY <1>1, <2>2
  <2>3. ASSUME NEW r \in Requests, NEW id \in FreeIds, NEW q,
               Moved(r, q), Writes(r, q), ledger' = ledger \cup {rowOf(r, id)}
        PROVE  \A x, y \in ledger' : Far(x, y)
    <3> HIDE DEF Far
    <3> QED
      BY <1>2, <2>1, <2>3
  <2>4. ASSUME NEW e, NEW id, NEW type, NEW at,
               ledger' = ledger \cup {manualRow(id, e, type, at)}
        PROVE  \A x, y \in ledger' : Far(x, y)
    BY <1>3, <2>1, <2>4
  <2> QED
    BY <2>2, <2>3, <2>4, LedgerSteps
<1> QED
  BY <1>4 DEF DebounceHolds, CountedTap

---------------------------------------------------------------------------
(* The alternation of check-ins and checkouts. *)

(* The parts of LiveTapsAlternate.  Answers: i is the check-in that the    *)
(* checkout o closes, among the directed rows D.                           *)
Directed(e) == {row \in RowsOf(e) : row.type # "none"}
LiveTap(row) ==
  row.by # NoRequest /\ row.source = "auto" /\ req[row.by].in.declared = NoTime
Entered(row) == row.channel = "manual" /\ row.type = "in"
AllLive(e) == \A row \in Directed(e) : LiveTap(row) \/ Entered(row)
Answers(i, o, D) ==
  /\ i.type = "in" /\ i.occurredAt <= o.occurredAt
  /\ ~\E x \in D \ {o} : x.type = "out" /\ Before(i, x) /\ x.occurredAt <= o.occurredAt
Paired(D) == \A o \in D : o.type = "out" => \E i \in D : Answers(i, o, D)

\* The property in those parts.
LEMMA AlternateParts ==
  LiveTapsAlternate <=> \A e \in Employees : AllLive(e) => Paired(Directed(e))
BY DEF LiveTapsAlternate, Directed, LiveTap, Entered, AllLive, Answers, Paired

\* ... and after a step.
LEMMA AlternatePartsNext ==
  ASSUME \A e \in Employees : AllLive(e)' => Paired(Directed(e)')
  PROVE  LiveTapsAlternate'
BY DEF LiveTapsAlternate, RowsOf, Directed, LiveTap, Entered, AllLive, Answers, Paired

\* A check-in takes no checkout's check-in away.
LEMMA PairedWithIn ==
  ASSUME NEW D, NEW n, Paired(D), n.type # "out"
  PROVE  Paired(D \cup {n})
BY DEF Paired, Answers

\* Nor does a checkout later than all the others that has a check-in of its own.
LEMMA PairedWithOut ==
  ASSUME NEW D, NEW n, Paired(D), n.occurredAt \in Nat,
         \A o \in D : o.occurredAt \in Nat,
         \A o \in D : o.type = "out" => o.occurredAt < n.occurredAt,
         NEW i \in D, i.type = "in", i.occurredAt <= n.occurredAt,
         ~\E x \in D : x.type = "out" /\ Before(i, x) /\ x.occurredAt <= n.occurredAt
  PROVE  Paired(D \cup {n})
<1>1. Answers(i, n, D \cup {n})
  BY DEF Answers
<1>2. ASSUME NEW o \in D, o.type = "out" PROVE \E j \in D : Answers(j, o, D \cup {n})
  <2>1. PICK j \in D : Answers(j, o, D)
    BY <1>2 DEF Paired
  <2>2. ~(n.occurredAt <= o.occurredAt)
    BY <1>2
  <2> QED
    BY <2>1, <2>2 DEF Answers
<1> QED
  BY <1>1, <1>2 DEF Paired

\* A tap that decided "out" of itself finds an open check-in among the directed
\* rows and is later than every checkout of a live tap before it.
LEMMA OutOfATap ==
  ASSUME TypeInv, ClockInv, RowsInv, DecidedInv, NEW r \in Requests,
         req[r].pc = "decided", req[r].dec.type = "out", req[r].dec.source = "auto",
         req[r].in.declared = NoTime, NEW e, e = req[r].in.emp, AllLive(e)
  PROVE  /\ \A o \in Directed(e) : o.type = "out" => o.occurredAt < req[r].now
         /\ \E i \in Directed(e) :
              /\ i.type = "in" /\ i.occurredAt <= req[r].now
              /\ ~\E x \in Directed(e) :
                    x.type = "out" /\ Before(i, x) /\ x.occurredAt <= req[r].now
<1>1. ASSUME NEW o \in Directed(e), o.type = "out" PROVE o.occurredAt < req[r].now
  <2>1. LiveTap(o) /\ o \in RowsOf(e) /\ o \in ledger
    BY <1>1 DEF AllLive, Entered, Directed, RowsOf
  <2>2. o.by \in Requests /\ o.channel \in Channels /\ o.occurredAt <= o.createdAt
    BY <2>1, Fields DEF LiveTap, RowsInv
  <2>3. o.createdAt + DebounceWindow <= req[r].gatheredAt
    BY <2>1, <2>2 DEF DecidedInv
  <2>4. req[r].gatheredAt <= req[r].now + RequestTimeout
    BY DEF ClockInv
  <2>5. /\ o.occurredAt \in Nat /\ o.createdAt \in Nat
        /\ req[r].gatheredAt \in Nat /\ req[r].now \in Nat
    BY <2>1, Fields
  <2> QED
    BY <2>2, <2>3, <2>4, <2>5, Numbers
<1>2. PICK i \in OpenAt(e, req[r].now) : TRUE
  BY DEF DecidedInv
<1>3. i \in Directed(e)
  BY <1>2 DEF OpenAt, Directed
<1> QED
  BY <1>1, <1>2, <1>3 DEF OpenAt, Directed

\* Live taps alternate from one step to the next.
LEMMA AlternateNext ==
  /\ TypeInv /\ LedgerInv /\ ClockInv /\ RowsInv /\ DecidedInv
  /\ LiveTapsAlternate /\ [Next]_vars
  => LiveTapsAlternate'
<1> SUFFICES ASSUME TypeInv, LedgerInv, ClockInv, RowsInv, DecidedInv, LiveTapsAlternate,
                    [Next]_vars, NEW e \in Employees, AllLive(e)'
             PROVE  Paired(Directed(e)')
  BY AlternatePartsNext
<1>1. AllLive(e)
  <2>1. \A row \in Directed(e) : row \in ledger /\ row \in Directed(e)'
    BY LedgerSteps DEF Directed, RowsOf
  <2>2. \A row \in ledger : LiveTap(row)' => LiveTap(row)
    BY Fields, RecordedStays DEF LiveTap, LedgerInv
  <2>3. \A row : Entered(row)' => Entered(row)
    BY DEF Entered
  <2>4. \A row \in Directed(e)' : LiveTap(row)' \/ Entered(row)'
    BY DEF AllLive
  <2> QED
    BY <2>1, <2>2, <2>3, <2>4 DEF AllLive
<1>2. Paired(Directed(e))
  BY <1>1, AlternateParts
<1>3. ASSUME NEW n, ledger' = ledger \cup {n}
      PROVE  Directed(e)' = IF n.emp = e /\ n.type # "none" THEN Directed(e) \cup {n}
                                                             ELSE Directed(e)
  BY <1>3 DEF Directed, RowsOf
<1>4. CASE UNCHANGED ledger
  BY <1>2, <1>4 DEF Directed, RowsOf
<1>5. ASSUME NEW f, NEW id, NEW type \in {"in", "out"}, NEW at,
             ledger' = ledger \cup {manualRow(id, f, type, at)}
      PROVE  Paired(Directed(e)')
  <2>1. PICK n : n = manualRow(id, f, type, at)
    OBVIOUS
  <2>2. CASE n.emp = e /\ n.type # "none"
    <3>1. n \in Directed(e)' /\ Directed(e)' = Directed(e) \cup {n}
      BY <1>3, <1>5, <2>1, <2>2
    <3>2. LiveTap(n)' \/ Entered(n)'
      BY <3>1 DEF AllLive
    <3>3. n.by = NoRequest
      BY <2>1 DEF manualRow
    <3>4. n.type # "out"
      BY <3>2, <3>3 DEF LiveTap, Entered
    <3> QED
      BY <1>2, <3>1, <3>4, PairedWithIn
  <2>3. CASE ~(n.emp = e /\ n.type # "none")
    BY <1>2, <1>3, <1>5, <2>1, <2>3
  <2> QED
    BY <2>2, <2>3
<1>6. ASSUME NEW r \in Requests, NEW id, NEW q, Moved(r, q), Writes(r, q),
             ledger' = ledger \cup {rowOf(r, id)}
      PROVE  Paired(Directed(e)')
  <2>1. PICK n : n = rowOf(r, id)
    OBVIOUS
  <2>2. CASE n.emp = e /\ n.type # "none"
    <3>1. n \in Directed(e)' /\ Directed(e)' = Directed(e) \cup {n}
      BY <1>3, <1>6, <2>1, <2>2
    <3>2. LiveTap(n)' \/ Entered(n)'
      BY <3>1 DEF AllLive
    <3>3. CASE n.type # "out"
      BY <1>2, <3>1, <3>3, PairedWithIn
    <3>4. CASE n.type = "out"
      <4>1. n.by = r /\ n.source = req[r].dec.source /\ n.type = req[r].dec.type
            /\ n.emp = req[r].in.emp
        BY <2>1 DEF rowOf
      <4>2. req[r].pc = "decided" /\ req'[r].in = req[r].in
        BY <1>6 DEF Moved, Writes, Goes
      <4>3. req[r].dec.source = "auto" /\ req[r].in.declared = NoTime
        BY <3>2, <3>4, <4>1, <4>2 DEF LiveTap, Entered
      <4>4. n.occurredAt = req[r].now /\ req[r].now \in Nat
        BY <2>1, <4>3, Fields DEF rowOf
      <4>5. \A o \in Directed(e) : o.type = "out" => o.occurredAt < n.occurredAt
        BY <1>1, <2>2, <3>4, <4>1, <4>2, <4>3, <4>4, OutOfATap
      <4>6. PICK i \in Directed(e) :
              /\ i.type = "in" /\ i.occurredAt <= n.occurredAt
              /\ ~\E x \in Directed(e) :
                    x.type = "out" /\ Before(i, x) /\ x.occurredAt <= n.occurredAt
        BY <1>1, <2>2, <3>4, <4>1, <4>2, <4>3, <4>4, OutOfATap
      <4>7. \A o \in Directed(e) : o.occurredAt \in Nat
        BY Fields DEF Directed, RowsOf
      <4> QED
        BY <1>2, <3>1, <4>4, <4>5, <4>6, <4>7, PairedWithOut
    <3> QED
      BY <3>3, <3>4
  <2>3. CASE ~(n.emp = e /\ n.type # "none")
    BY <1>2, <1>3, <1>6, <2>1, <2>3
  <2> QED
    BY <2>2, <2>3
<1> QED
  BY <1>4, <1>5, <1>6, LedgerSteps

---------------------------------------------------------------------------
(* The inductive invariant and the theorems it carries. *)

CInv ==
  /\ ReplayInv /\ LockHeldInTransaction /\ ClockInv /\ ServiceInv /\ DatedInv
  /\ RowsInv /\ DecidedInv
  /\ InactiveTagNeverCounts /\ DebounceHolds /\ LiveTapsAlternate

\* The invariant holds at first.
LEMMA CInvInit == Init => CInv
<1>1. Init => DebounceHolds /\ LiveTapsAlternate
  BY DEF Init, DebounceHolds, LiveTapsAlternate, RowsOf
<1> QED
  BY <1>1, ReplayInit, LockInit, ClockInit, ServiceInit, DatedInit DEF CInv

\* Every step keeps it.
LEMMA CInvNext == CInv /\ [Next]_vars => CInv'
BY ReplayNext, LockNext, ClockNext, ServiceNext, DatedNext, RowsNext, DecidedNext,
   InactiveNext, DebounceNext, AlternateNext
   DEF CInv, ReplayInv

(* A tap pressed after its plaque left service never counts, though its    *)
(* page was opened while it was active: the status that a decision goes by *)
(* was read at the press or later.                                         *)
THEOREM InactiveNeverCounts == Spec => []InactiveTagNeverCounts
<1>1. CInv => InactiveTagNeverCounts
  BY DEF CInv
<1> QED
  BY <1>1, CInvInit, CInvNext, PTL DEF Spec

(* Of two counted taps of one person the later decision came at least a    *)
(* debounce window after the other's transaction began, however their      *)
(* requests interleaved: a decision sees every row of its person, and the  *)
(* person's lock keeps them as they are until it has written.              *)
THEOREM DebounceIsKept == Spec => []DebounceHolds
<1>1. CInv => DebounceHolds
  BY DEF CInv
<1> QED
  BY <1>1, CInvInit, CInvNext, PTL DEF Spec

(* While a person's directed records are live taps and entered check-ins,  *)
(* every checkout has a check-in of its own: `now` is read before the lock,*)
(* but a request is over before the debounce window of the tap that        *)
(* overtook it.                                                            *)
THEOREM TapsAlternate == Spec => []LiveTapsAlternate
<1>1. CInv => LiveTapsAlternate
  BY DEF CInv
<1> QED
  BY <1>1, CInvInit, CInvNext, PTL DEF Spec
=============================================================================

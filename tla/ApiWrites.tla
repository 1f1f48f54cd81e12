------------------------------ MODULE ApiWrites ------------------------------
(* The writes of the integration API: apikey.Writes.Run puts every write of  *)
(* one key into one transaction, and with an Idempotency-Key claims it in    *)
(* the ledger first, so that a retry is answered from the record.  The write *)
(* that matters most is the work here: the employee of a reference is opened *)
(* (PUT) or deactivated (DELETE), the latter against the key's hourly budget.*)
(* An answer can be lost, a transaction rolled back at any statement.        *)
EXTENDS Naturals, FiniteSets, Sequences, FiniteSetsExt

CONSTANTS
  Requests,  \* the requests of one api key
  Keys,      \* Idempotency-Keys
  NoKey,     \* a request without the header
  Refs,      \* externalRefs
  Inputs,    \* what a request may ask: [key, op, ref]
  OldKeys,   \* the sets of keys the ledger may hold from the day before
  Budget,    \* deactivations a key has in an hour
  Hour, Day, \* the budget's window and the life of a ledger row
  Batch,     \* rows one lazy delete takes
  MaxRows,   \* bound: employees
  MaxTime    \* bound: the clock

ASSUME KeyAssumption == NoKey \notin Keys /\ OldKeys \subseteq SUBSET Keys
ASSUME RefAssumption == IsFiniteSet(Refs)
ASSUME BoundAssumption == {Budget, Hour, Day, Batch, MaxRows, MaxTime} \subseteq Nat
ASSUME InputAssumption ==
  Inputs \subseteq [key : Keys \cup {NoKey}, op : {"put", "delete"}, ref : Refs]

VARIABLES
  now,     \* the database's clock
  req,     \* the requests and their transactions
  ledger,  \* api_idempotency, the committed rows
  staff,   \* employees, the committed rows
  trail,   \* audit_log; "key" and "end" are kept for the properties
  alerts   \* instants of the api.deactivation_budget_exceeded rows

vars == <<now, req, ledger, staff, trail, alerts>>

NoRow == [for |-> [op |-> "none", ref |-> "none"], result |-> 0, at |-> 0]

---------------------------------------------------------------------------
(* What a transaction has locked: the rows its lazy delete took, the row of *)
(* its own key it freed or claimed, the key's budget, an employee.          *)
Idle == [pc |-> "idle", in |-> [key |-> NoKey, op |-> "none", ref |-> "none"],
         start |-> 0, swept |-> {}, freed |-> FALSE, claims |-> FALSE,
         budget |-> FALSE, target |-> 0, drops |-> FALSE, opens |-> FALSE,
         result |-> 0]

Goes(r, s) == req' = [req EXCEPT ![r] = s]
At(r, pc) == req[r].pc = pc
To(r, pc) == [req[r] EXCEPT !.pc = pc]

(* The rollback or the commit lets go of everything.                        *)
Answered(r, pc, result) == [Idle EXCEPT !.pc = pc, !.in = req[r].in, !.result = result]
Refused == [Idle EXCEPT !.pc = "refused"]

Key(r) == req[r].in.key
What(r) == [op |-> req[r].in.op, ref |-> req[r].in.ref]
Held(k, q) == k \in req[q].swept \/ (Key(q) = k /\ (req[q].freed \/ req[q].claims))
Expired(k, t) == ledger[k] # NoRow /\ ledger[k].at + Day < t

LiveIn(s, ref) == {i \in DOMAIN s : s[i].ref = ref /\ s[i].live}
Live(ref) == LiveIn(staff, ref)
Latest(ref) == LET all == {i \in DOMAIN staff : staff[i].ref = ref}
               IN IF all = {} THEN 0 ELSE Max(all)

(* Whom the next statement of r waits for.                                  *)
Blockers(r) ==
  {q \in Requests \ {r} :
     \/ At(r, "free")   /\ Expired(Key(r), req[r].start) /\ Held(Key(r), q)
     \/ At(r, "claim")  /\ Held(Key(r), q)
     \/ At(r, "charge") /\ req[q].budget
     \/ At(r, "alert")  /\ req[q].budget
     \/ At(r, "update") /\ req[q].drops /\ req[q].target = req[r].target
     \/ At(r, "insert") /\ req[q].in.ref = req[r].in.ref /\ (req[q].opens \/ req[q].drops)}

Free(r) == Blockers(r) = {}

---------------------------------------------------------------------------
Arrive(r) ==
  /\ At(r, "idle")
  /\ \E in \in Inputs : Goes(r, [Idle EXCEPT !.pc = "sweep", !.in = in])
  /\ UNCHANGED <<now, ledger, staff, trail, alerts>>

(* DeleteExpiredIdempotency: the oldest expired rows nobody has locked.     *)
Sweepable == {k \in Keys : Expired(k, now) /\ \A q \in Requests : ~Held(k, q)}

Sweep(r) ==
  /\ At(r, "sweep")
  /\ \E S \in SUBSET Sweepable :
       /\ Cardinality(S) = Min({Batch, Cardinality(Sweepable)})
       /\ \A k \in S, l \in Sweepable \ S : ledger[k].at <= ledger[l].at
       /\ Goes(r, [To(r, "swept") EXCEPT !.swept = S])
  /\ UNCHANGED <<now, ledger, staff, trail, alerts>>

(* Mutant: the lazy delete belongs to the write's transaction.              *)
KeptByTheWrite(r) == req[r].swept

(* What the lazy delete still holds once its own transaction committed.     *)
KeptLocks(r) == {}

(* The lazy delete commits and the write's transaction begins.              *)
Begin(r) ==
  /\ At(r, "swept")
  /\ ledger' = [k \in Keys |-> IF k \in req[r].swept \ KeptLocks(r) THEN NoRow ELSE ledger[k]]
  /\ Goes(r, [To(r, IF Key(r) = NoKey THEN "work" ELSE "free") EXCEPT
                !.start = now, !.swept = KeptLocks(r)])
  /\ UNCHANGED <<now, staff, trail, alerts>>

(* DeleteExpiredIdempotencyForKey.                                          *)
FreeKey(r) ==
  /\ At(r, "free") /\ Free(r)
  /\ Goes(r, [To(r, "claim") EXCEPT !.freed = Expired(Key(r), req[r].start)])
  /\ UNCHANGED <<now, ledger, staff, trail, alerts>>

(* Mutant: a claim another transaction has not committed is not waited for. *)
Unclaimed(r) == req[r].freed \/ ledger[Key(r)] = NoRow

(* ClaimIdempotency inserts when no row has the key.                        *)
Vacant(r) == Free(r) /\ (req[r].freed \/ ledger[Key(r)] = NoRow)

Claim(r) ==
  /\ At(r, "claim")
  /\ \/ Vacant(r) /\ Goes(r, [To(r, "work") EXCEPT !.claims = TRUE])
     \/ ~Vacant(r) /\ Free(r) /\ Goes(r, To(r, "read"))
  /\ UNCHANGED <<now, ledger, staff, trail, alerts>>

(* Mutant: the recorded request's hash is not compared.                     *)
AnyRequest(r, row) == TRUE

SameRequest(r, row) == row.for = What(r)

(* GetIdempotency: gone again, a different request, or the record.          *)
Replay(r) ==
  /\ At(r, "read")
  /\ LET row == ledger[Key(r)] IN
     Goes(r, IF row = NoRow THEN Refused
             ELSE IF ~SameRequest(r, row) THEN Refused
             ELSE Answered(r, "replayed", row.result))
  /\ UNCHANGED <<now, ledger, staff, trail, alerts>>

---------------------------------------------------------------------------
(* The lookup of the reference.  A DELETE of somebody already deactivated   *)
(* and a PUT of somebody live change nothing.                               *)
Lookup(r) ==
  /\ At(r, "work")
  /\ LET ref == req[r].in.ref
         found == Live(ref) IN
     Goes(r,
       IF req[r].in.op = "put"
       THEN IF found # {} THEN [To(r, "commit") EXCEPT !.result = Max(found)]
            ELSE To(r, "insert")
       ELSE IF found # {} THEN [To(r, "charge") EXCEPT !.target = Max(found)]
       ELSE IF Latest(ref) = 0 THEN Refused
       ELSE [To(r, "commit") EXCEPT !.result = Latest(ref)])
  /\ UNCHANGED <<now, ledger, staff, trail, alerts>>

(* CountAPIDeactivations as a transaction that began at t reads it.         *)
Spent(t) == Cardinality({e \in trail : e.what = "deactivated" /\ e.at + Hour > t})

(* Mutant: the deactivations are counted before the lock is taken.          *)
Unlocked(r) == TRUE

(* LockAPIDeactivationBudget.                                               *)
MayCount(r) == Free(r)

(* chargeDeactivation: the key's lock, the count, the refusal.              *)
Charge(r) ==
  /\ At(r, "charge") /\ MayCount(r)
  /\ Goes(r, IF Spent(req[r].start) >= Budget
             THEN [Refused EXCEPT !.pc = "alert", !.start = now]
             ELSE [To(r, "update") EXCEPT !.budget = TRUE])
  /\ UNCHANGED <<now, ledger, staff, trail, alerts>>

(* DeactivateEmployee: a row somebody deactivated meanwhile is left as it is.*)
Update(r) ==
  /\ At(r, "update") /\ Free(r)
  /\ Goes(r, [To(r, "commit") EXCEPT !.drops = staff[req[r].target].live,
                                     !.result = req[r].target])
  /\ UNCHANGED <<now, ledger, staff, trail, alerts>>

(* createAPIEmployee: a concurrent PUT may have opened the reference first. *)
Insert(r) ==
  /\ At(r, "insert") /\ Free(r)
  /\ LET found == Live(req[r].in.ref) IN
     \/ found = {} /\ Goes(r, [To(r, "commit") EXCEPT !.opens = TRUE])
     \/ found # {} /\ Goes(r, [To(r, "commit") EXCEPT !.result = Max(found)])
  /\ UNCHANGED <<now, ledger, staff, trail, alerts>>

(* RecordDeactivationBudgetExceeded, in a transaction of its own.           *)
Alert(r) ==
  /\ At(r, "alert") /\ Free(r)
  /\ alerts' = IF \E a \in alerts : a + Hour > req[r].start THEN alerts
               ELSE alerts \cup {req[r].start}
  /\ Goes(r, Refused)
  /\ UNCHANGED <<now, ledger, staff, trail>>

---------------------------------------------------------------------------
Entry(r, what, row) ==
  [what |-> what, row |-> row, key |-> Key(r), at |-> req[r].start, end |-> now]

(* RecordIdempotency and the commit.  The answer may never reach the client.*)
Commit(r) ==
  /\ At(r, "commit")
  /\ req[r].opens => Len(staff) < MaxRows
  /\ LET row == IF req[r].opens THEN Len(staff) + 1 ELSE req[r].result IN
     /\ staff' = IF req[r].opens THEN Append(staff, [ref |-> req[r].in.ref, live |-> TRUE])
                 ELSE IF req[r].drops THEN [staff EXCEPT ![row].live = FALSE] ELSE staff
     /\ trail' = trail \cup
          (IF req[r].opens THEN {Entry(r, "added", row)} ELSE {}) \cup
          (IF req[r].drops THEN {Entry(r, "deactivated", row)} ELSE {})
     /\ ledger' = [k \in Keys |->
          IF req[r].claims /\ k = Key(r)
          THEN [for |-> What(r), result |-> row, at |-> req[r].start]
          ELSE IF k \in req[r].swept THEN NoRow ELSE ledger[k]]
     /\ \E answer \in {Answered(r, "ok", row), Refused} : Goes(r, answer)
  /\ UNCHANGED <<now, alerts>>

(* The process dies, the connection breaks or the client hangs up: the      *)
(* transaction is rolled back, the claim with it.                           *)
RollBack(r) ==
  /\ req[r].pc \in {"sweep", "swept", "free", "claim", "read", "work", "charge",
                    "update", "insert", "alert", "commit"}
  /\ Goes(r, Refused)
  /\ UNCHANGED <<now, ledger, staff, trail, alerts>>

Tick == now < MaxTime /\ now' = now + 1 /\ UNCHANGED <<req, ledger, staff, trail, alerts>>

---------------------------------------------------------------------------
(* Every reference has a live employee; yesterday's rows may be there still.*)
Init ==
  /\ now = Day
  /\ req = [r \in Requests |-> Idle]
  /\ staff \in {s \in [1..Cardinality(Refs) -> [ref : Refs, live : {TRUE}]] :
                  \A f \in Refs : Cardinality(LiveIn(s, f)) = 1}
  /\ \E S \in OldKeys, i \in DOMAIN staff : ledger = [k \in Keys |->
       IF k \in S THEN [for |-> [op |-> "put", ref |-> staff[i].ref], result |-> i, at |-> 0]
       ELSE NoRow]
  /\ trail = {}
  /\ alerts = {}

Write(r) == Lookup(r) \/ Charge(r) \/ Update(r) \/ Insert(r) \/ Alert(r) \/ Commit(r)

Next ==
  \/ \E r \in Requests : \/ Arrive(r) \/ Sweep(r) \/ Begin(r) \/ FreeKey(r)
                         \/ Claim(r) \/ Replay(r) \/ Write(r) \/ RollBack(r)
  \/ Tick

Spec == Init /\ [][Next]_vars

---------------------------------------------------------------------------
(* A key's write happens once a day: of two changes under one Idempotency-  *)
(* Key, however their requests waited for each other, retried or lost their *)
(* answers, the later committed more than a ledger row's life after the     *)
(* earlier began.                                                           *)
OncePerKey ==
  \A e, f \in trail : e # f /\ e.key = f.key /\ e.key # NoKey
                      => e.at + Day < f.end \/ f.at + Day < e.end

(* A success names an employee of the reference this request asked for, and *)
(* never another request's: not even when a client uses one key for two.    *)
AnswerIsOfTheRequest ==
  \A r \in Requests : req[r].pc \in {"ok", "replayed"} => 
    LET row == req[r].result IN row \in DOMAIN staff /\ staff[row].ref = req[r].in.ref

(* In no hour does a key deactivate more employees than its budget, with    *)
(* any number of its requests at once and whatever they waited for.         *)
BudgetHolds ==
  \A t \in 0..MaxTime :
    Cardinality({e \in trail : e.what = "deactivated" /\ e.at > t /\ e.at <= t + Hour}) <= Budget

(* Writes never wait on each other in a circle, over the ledger's rows, the *)
(* budget and the employees.                                                *)
NoCircularWait ==
  \A S \in SUBSET Requests : S # {} => \E r \in S : Blockers(r) \cap S = {}
=============================================================================

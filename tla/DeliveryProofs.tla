--------------------------- MODULE DeliveryProofs ---------------------------
(***************************************************************************)
(* Theorems about Delivery: its types, the lease that keeps two requests   *)
(* of one delivery apart, and the log that is never taken back.            *)
(***************************************************************************)
EXTENDS Delivery, FiniteSetTheorems, TLAPS

\* The bounds that the steps need.
LEMMA Numbers ==
  /\ Lease \in Nat /\ Hold \in Nat /\ Hold < Lease
  /\ MaxAttempts \in Nat /\ Recheck \in Nat
  /\ MaxResends \in Nat /\ MaxFaults \in Nat /\ MaxStalls \in Nat
BY DeliveryAssumption

\* The two marks are no value they could be taken for.
LEMMA Names == Nobody \notin Workers /\ Never \notin Nat
BY DeliveryAssumption

\* A waiting row and an idle run are well typed.
LEMMA IdleType == Idle \in WorkType
BY DeliveryAssumption, Zenon DEF Idle, WorkType

\* A row that is not written yet is well typed.
LEMMA NoRowType == NoRow \in RowType
BY SMT DEF NoRow, RowType, States

\* A claim keeps the rows well typed: the lease it writes is a number of ticks.
LEMMA LeasedType ==
  ASSUME row \in [Deliveries -> RowType], NEW d \in Deliveries, NEW w \in Workers
  PROVE  [row EXCEPT ![d].lease = Lease, ![d].leaseOf = w] \in [Deliveries -> RowType]
<1>1. [row[d] EXCEPT !.lease = Lease, !.leaseOf = w] \in RowType
  BY Numbers DEF RowType
<1>2. [row EXCEPT ![d].lease = Lease, ![d].leaseOf = w]
        = [row EXCEPT ![d] = [row[d] EXCEPT !.lease = Lease, !.leaseOf = w]]
  OBVIOUS
<1> QED
  BY <1>1, <1>2

\* A wait after a tick.
LEMMA DownType == ASSUME NEW n \in Nat
                  PROVE  Down(n) \in Nat
BY SMT DEF Down

\* The later of two waits.
LEMMA AtLeastType == ASSUME NEW n \in Nat, NEW m \in Nat
                     PROVE  AtLeast(n, m) \in Nat
BY SMT DEF AtLeast

\* A result is one of the three states, and its delay is a number of ticks.
LEMMA DecideType ==
  ASSUME NEW n \in Nat, NEW ok \in BOOLEAN
  PROVE  /\ Decide(n, ok).state \in {"delivered", "dead", "pending"}
         /\ Decide(n, ok).delay \in Nat
<1>1. CASE ok
  BY <1>1 DEF Decide
<1>2. CASE ~ok /\ n + 1 >= MaxAttempts
  BY <1>2 DEF Decide
<1>3. CASE ~ok /\ ~(n + 1 >= MaxAttempts)
  <2>1. n + 1 \in 1..(MaxAttempts - 1)
    BY <1>3, Numbers
  <2>2. Backoff[n + 1] \in Nat
    BY <2>1, DeliveryAssumption
  <2> QED BY <1>3, <2>2 DEF Decide
<1> QED BY <1>1, <1>2, <1>3

\* A row that has taken a result is well typed.
LEMMA RecordedType ==
  ASSUME NEW r \in RowType, NEW n \in Nat, NEW ok \in BOOLEAN
  PROVE  Recorded(r, Decide(n, ok)) \in RowType
<1> DEFINE result == Decide(n, ok)
           wait   == IF result.state = "pending" THEN result.delay ELSE r.wait
<1>1. result.state \in States
  BY DecideType DEF States
<1>2. wait \in Nat
  BY DecideType DEF RowType
<1>3. r.attempt + 1 \in Nat
  BY DEF RowType
<1>4. Recorded(r, result) = [r EXCEPT !.attempt = r.attempt + 1, !.state = result.state,
                                      !.wait = wait, !.lease = 0, !.leaseOf = Nobody]
  BY Zenon DEF Recorded
<1> HIDE DEF result, wait
<1>5. [r EXCEPT !.attempt = r.attempt + 1, !.state = result.state,
                !.wait = wait, !.lease = 0, !.leaseOf = Nobody] \in RowType
  BY <1>1, <1>2, <1>3 DEF RowType
<1> QED
  BY <1>4, <1>5 DEF result

\* The parts of TypeOK that the steps change most.
LEMMA Parts ==
  ASSUME TypeOK
  PROVE  /\ row \in [Deliveries -> RowType]
         /\ work \in [Workers -> WorkType]
         /\ noticed \in [Workers -> BOOLEAN]
         /\ timer \in [Workers -> Nat \union {Never}]
         /\ resends \in 0..MaxResends /\ faults \in 0..MaxFaults /\ stalls \in 0..MaxStalls
BY Zenon DEF TypeOK

\* The same for the history.
LEMMA HistoryParts ==
  ASSUME TypeOK
  PROVE  /\ posts \in [Deliveries -> Nat]
         /\ lost \in [Deliveries -> Nat]
         /\ revived \in [Deliveries -> Nat]
BY Zenon DEF TypeOK

\* The initial state has the types.
LEMMA TypeInit == Init => TypeOK
<1> SUFFICES ASSUME Init PROVE TypeOK
  OBVIOUS
<1>1. row \in [Deliveries -> RowType] /\ work \in [Workers -> WorkType]
  BY NoRowType, IdleType DEF Init
<1>2. /\ 0 \in 0..MaxResends /\ 0 \in 0..MaxFaults /\ 0 \in 0..MaxStalls
  BY Numbers
<1>3. /\ noticed \in [Workers -> BOOLEAN] /\ timer \in [Workers -> Nat \union {Never}]
      /\ posts \in [Deliveries -> Nat] /\ lost \in [Deliveries -> Nat]
      /\ revived \in [Deliveries -> Nat]
  BY DEF Init
<1> QED
  BY <1>1, <1>2, <1>3, Zenon DEF Init, TypeOK

\* A process's place in its run, and its end.
LEMMA GoesType ==
  ASSUME work \in [Workers -> WorkType], NEW w \in Workers,
         NEW pc \in {"idle", "run", "claimed", "posting", "answered", "ask"},
         Goes(w, pc)
  PROVE  work' \in [Workers -> WorkType]
BY DEF Goes, WorkType

\* The end of a run keeps the types.
LEMMA EndsType ==
  ASSUME work \in [Workers -> WorkType], NEW w \in Workers, Ends(w)
  PROVE  work' \in [Workers -> WorkType]
BY IdleType DEF Ends

\* A timer that is set or kept is well typed.
LEMMA NoticeAfterType ==
  ASSUME timer \in [Workers -> Nat \union {Never}], NEW w \in Workers, NEW n \in Nat,
         NoticeAfter(w, n)
  PROVE  timer' \in [Workers -> Nat \union {Never}]
BY DEF NoticeAfter

\* The steps of the business and its owner keep the types.
LEMMA TypeBusiness ==
  ASSUME TypeOK, NEW w \in Workers, NEW d \in Deliveries,
         Insert(w, d) \/ Resend(w, d) \/ NoticeWork(w) \/ SetGate(w)
  PROVE  TypeOK'
<1> USE Parts, HistoryParts
<1>1. CASE Insert(w, d)
  <2>1. row' \in [Deliveries -> RowType]
    BY <1>1 DEF Insert, RowType, States
  <2> QED
    BY <1>1, <2>1, Zenon DEF Insert, TypeOK, history
<1>2. CASE Resend(w, d)
  <2>1. [row[d] EXCEPT !.state = "pending", !.wait = 0, !.lease = 0,
                       !.leaseOf = Nobody, !.old = FALSE] \in RowType
    BY DEF RowType, States
  <2>2. row' \in [Deliveries -> RowType]
    BY <1>2, <2>1 DEF Resend
  <2>3. resends' \in 0..MaxResends
    BY <1>2, Numbers DEF Resend
  <2>4. revived' \in [Deliveries -> Nat]
    BY <1>2 DEF Resend
  <2>5. unnoticed' \subseteq Workers
    BY <1>2 DEF Resend, TypeOK
  <2> QED
    BY <1>2, <2>2, <2>3, <2>4, <2>5, Zenon DEF Resend, TypeOK
<1>3. CASE NoticeWork(w)
  BY <1>3, Zenon DEF NoticeWork, TypeOK, history
<1>4. CASE SetGate(w)
  BY <1>4 DEF SetGate, TypeOK, history
<1> QED
  BY <1>1, <1>2, <1>3, <1>4

\* The end of a retention keeps the types.
LEMMA TypeExpire ==
  ASSUME TypeOK, NEW d \in Deliveries, Expire(d)
  PROVE  TypeOK'
<1>1. row' \in [Deliveries -> RowType]
  BY Parts DEF Expire, RowType
<1> QED
  BY <1>1, Zenon DEF Expire, TypeOK, history

\* The steps of a run, up to the request, keep the types.
LEMMA TypeClaims ==
  ASSUME TypeOK, NEW w \in Workers, NEW d \in Deliveries,
         RunFor(w) \/ Claim(w, d) \/ Held(w) \/ NothingDue(w) \/ whenNext(w)
  PROVE  TypeOK'
<1> USE Parts, HistoryParts
<1>1. CASE RunFor(w)
  <2>1. row' \in [Deliveries -> RowType]
    <3>1. PICK swept \in SUBSET Sweepable :
            row' = [e \in Deliveries |->
                      IF e \in swept THEN [NoRow EXCEPT !.state = "gone", !.attempt = row[e].attempt]
                      ELSE row[e]]
      BY <1>1, Zenon DEF RunFor
    <3>2. ASSUME NEW e \in Deliveries
          PROVE  [NoRow EXCEPT !.state = "gone", !.attempt = row[e].attempt] \in RowType
      BY NoRowType DEF RowType, States
    <3> QED
      BY <3>1, <3>2
  <2>2. work' \in [Workers -> WorkType]
    BY <1>1, GoesType DEF RunFor
  <2> QED
    BY <1>1, <2>1, <2>2, Zenon DEF RunFor, TypeOK, history
<1>2. CASE Claim(w, d)
  <2>1. row' \in [Deliveries -> RowType]
    BY <1>2, LeasedType DEF Claim
  <2>2. row[d].attempt \in Nat
    BY DEF RowType
  <2>3. [work[w] EXCEPT !.pc = "claimed", !.d = d, !.attempt = row[d].attempt, !.age = 0]
          \in WorkType
    BY <2>2 DEF WorkType
  <2>4. work' \in [Workers -> WorkType]
    BY <1>2, <2>3, Zenon DEF Claim
  <2> QED
    BY <1>2, <2>1, <2>4, Zenon DEF Claim, TypeOK, history
<1>3. CASE Held(w)
  <2>1. work' \in [Workers -> WorkType] /\ timer' \in [Workers -> Nat \union {Never}]
    BY <1>3, EndsType, NoticeAfterType, Numbers DEF Held
  <2> QED
    BY <1>3, <2>1, Zenon DEF Held, TypeOK, history
<1>4. CASE NothingDue(w)
  <2>1. work' \in [Workers -> WorkType]
    BY <1>4, GoesType DEF NothingDue
  <2> QED
    BY <1>4, <2>1, Zenon DEF NothingDue, TypeOK, history
<1>5. CASE whenNext(w)
  <2>1. work' \in [Workers -> WorkType]
    BY <1>5, EndsType DEF whenNext
  <2>2. timer' \in [Workers -> Nat \union {Never}]
    <3>1. ASSUME NEW e \in Deliveries
          PROVE  AtLeast(DueIn(e), 1) \in Nat
      <4>1. row[e].wait \in Nat /\ row[e].lease \in Nat
        BY DEF RowType
      <4> QED
        BY <4>1, AtLeastType DEF DueIn
    <3>2. timer' = timer \/ \E e \in Deliveries : NoticeAfter(w, AtLeast(DueIn(e), 1))
      BY <1>5, Zenon DEF whenNext
    <3> QED
      BY <3>1, <3>2, NoticeAfterType
  <2> QED
    BY <1>5, <2>1, <2>2, Zenon DEF whenNext, TypeOK, history
<1> QED
  BY <1>1, <1>2, <1>3, <1>4, <1>5

\* The result's statement keeps the types of the rows.
LEMMA ResultType ==
  ASSUME row \in [Deliveries -> RowType], work \in [Workers -> WorkType], NEW w \in Workers,
         row' = [row EXCEPT ![work[w].d] =
                   Recorded(row[work[w].d], Decide(work[w].attempt, work[w].ok))]
  PROVE  row' \in [Deliveries -> RowType]
<1>1. work[w].d \in Deliveries /\ work[w].attempt \in Nat /\ work[w].ok \in BOOLEAN
  BY DEF WorkType
<1>2. Recorded(row[work[w].d], Decide(work[w].attempt, work[w].ok)) \in RowType
  BY <1>1, RecordedType
<1> QED
  BY <1>1, <1>2, Zenon

\* A request given up is counted as lost.
LEMMA AbandonsType ==
  ASSUME work \in [Workers -> WorkType], lost \in [Deliveries -> Nat],
         NEW w \in Workers, Abandons(w)
  PROVE  lost' \in [Deliveries -> Nat]
BY DEF Abandons, WorkType

\* A request, its answer and its result keep the types.
LEMMA TypeExchange ==
  ASSUME TypeOK, NEW w \in Workers, NEW ok \in BOOLEAN,
         Post(w) \/ Answer(w, ok) \/ Record(w) \/ Fire(w)
  PROVE  TypeOK'
<1> USE Parts, HistoryParts
<1>1. CASE Post(w)
  <2>1. work' \in [Workers -> WorkType]
    BY <1>1, GoesType DEF Post
  <2>2. posts' \in [Deliveries -> Nat]
    BY <1>1 DEF Post, WorkType
  <2> QED
    BY <1>1, <2>1, <2>2, Zenon DEF Post, TypeOK
<1>2. CASE Answer(w, ok)
  <2>1. [work[w] EXCEPT !.pc = "answered", !.ok = ok] \in WorkType
    BY DEF WorkType
  <2>2. work' \in [Workers -> WorkType]
    BY <1>2, <2>1, Zenon DEF Answer
  <2> QED
    BY <1>2, <2>2, Zenon DEF Answer, TypeOK, history
<1>3. CASE Record(w)
  <2>1. row' \in [Deliveries -> RowType]
    <3>1. CASE Mine(w)
      BY <1>3, <3>1, ResultType, Zenon DEF Record
    <3>2. CASE ~Mine(w)
      BY <1>3, <3>2, Zenon DEF Record
    <3> QED
      BY <3>1, <3>2
  <2>2. lost' \in [Deliveries -> Nat]
    BY <1>3 DEF Record, WorkType
  <2>3. work' \in [Workers -> WorkType]
    <3>1. [Idle EXCEPT !.pc = "run"] \in WorkType
      BY IdleType DEF WorkType
    <3>2. work' = [work EXCEPT ![w] = [Idle EXCEPT !.pc = "run"]] \/ Ends(w)
      BY <1>3, Zenon DEF Record
    <3> QED
      BY <3>1, <3>2, EndsType
  <2>4. noticed' \in [Workers -> BOOLEAN]
    BY <1>3, Zenon DEF Record
  <2> QED
    BY <1>3, <2>1, <2>2, <2>3, <2>4, Zenon DEF Record, TypeOK
<1>4. CASE Fire(w)
  BY <1>4 DEF Fire, TypeOK, history
<1> QED
  BY <1>1, <1>2, <1>3, <1>4

\* A tick keeps the types.
LEMMA TypeTick ==
  ASSUME TypeOK, Tick
  PROVE  TypeOK'
<1> USE Parts
<1>1. row' \in [Deliveries -> RowType]
  <2>1. ASSUME NEW d \in Deliveries
        PROVE  [row[d] EXCEPT !.wait = Down(@), !.lease = Down(@)] \in RowType
    <3>1. Down(row[d].wait) \in Nat /\ Down(row[d].lease) \in Nat
      BY DownType DEF RowType
    <3> QED
      BY <3>1 DEF RowType
  <2> QED
    BY <2>1, Zenon DEF Tick
<1>2. timer' \in [Workers -> Nat \union {Never}]
  <2>1. ASSUME NEW w \in Workers, timer[w] # Never
        PROVE  Down(timer[w]) \in Nat
    BY <2>1, DownType
  <2> QED
    BY <2>1 DEF Tick
<1>3. work' \in [Workers -> WorkType]
  <2>1. ASSUME NEW w \in Workers
        PROVE  [work[w] EXCEPT !.age = @ + 1] \in WorkType
    BY DEF WorkType
  <2> QED
    BY <2>1, Zenon DEF Tick
<1> QED
  BY <1>1, <1>2, <1>3, Zenon DEF Tick, TypeOK, history

\* The faults keep the types.
LEMMA TypeFaults ==
  ASSUME TypeOK, NEW w \in Workers,
         RunFails(w) \/ CommitUnknown(w) \/ Stall(w) \/ Restart(w)
  PROVE  TypeOK'
<1> USE Parts, HistoryParts
<1>1. CASE RunFails(w)
  <2>1. work' \in [Workers -> WorkType] /\ lost' \in [Deliveries -> Nat]
    BY <1>1, EndsType, AbandonsType DEF RunFails
  <2>2. faults' \in 0..MaxFaults
    BY <1>1, Numbers DEF RunFails
  <2> QED
    BY <1>1, <2>1, <2>2, Zenon DEF RunFails, TypeOK
<1>2. CASE CommitUnknown(w)
  <2>1. work' \in [Workers -> WorkType]
    BY <1>2, EndsType DEF CommitUnknown
  <2>2. faults' \in 0..MaxFaults
    BY <1>2, Numbers DEF CommitUnknown
  <2>3. row' \in [Deliveries -> RowType]
    <3>1. ASSUME NEW d \in Due, row' = [row EXCEPT ![d].lease = Lease, ![d].leaseOf = w]
          PROVE  row' \in [Deliveries -> RowType]
      <4>1. d \in Deliveries
        BY DEF Due
      <4> QED
        BY <3>1, <4>1, LeasedType
    <3>2. \/ \E d \in Due : row' = [row EXCEPT ![d].lease = Lease, ![d].leaseOf = w]
          \/ row' = [row EXCEPT ![work[w].d] =
                       Recorded(row[work[w].d], Decide(work[w].attempt, work[w].ok))]
      BY <1>2, Zenon DEF CommitUnknown
    <3> QED
      BY <3>1, <3>2, ResultType
  <2> QED
    BY <1>2, <2>1, <2>2, <2>3, Zenon DEF CommitUnknown, TypeOK, history
<1>3. CASE Stall(w)
  <2>1. work' \in [Workers -> WorkType]
    BY <1>3 DEF Stall, WorkType
  <2>2. stalls' \in 0..MaxStalls
    BY <1>3, Numbers DEF Stall
  <2> QED
    BY <1>3, <2>1, <2>2, Zenon DEF Stall, TypeOK, history
<1>4. CASE Restart(w)
  <2>1. work' \in [Workers -> WorkType] /\ lost' \in [Deliveries -> Nat]
    BY <1>4, EndsType, AbandonsType DEF Restart
  <2>2. faults' \in 0..MaxFaults
    BY <1>4, Numbers DEF Restart
  <2>3. timer' \in [Workers -> Nat \union {Never}] /\ noticed' \in [Workers -> BOOLEAN]
    BY <1>4 DEF Restart
  <2>4. unnoticed' \subseteq Workers
    BY <1>4 DEF Restart, TypeOK
  <2> QED
    BY <1>4, <2>1, <2>2, <2>3, <2>4, Zenon DEF Restart, TypeOK
<1> QED
  BY <1>1, <1>2, <1>3, <1>4

\* A step that changes nothing keeps the types.
LEMMA TypeStutter == TypeOK /\ UNCHANGED vars => TypeOK'
BY Zenon DEF vars, history, TypeOK

\* Every step keeps the types.
LEMMA TypeStep == TypeOK /\ [Next]_vars => TypeOK'
<1> SUFFICES ASSUME TypeOK, [Next]_vars PROVE TypeOK'
  OBVIOUS
<1>1. ASSUME NEW w \in Workers, JobStep(w) PROVE TypeOK'
  <2>1. ASSUME NEW d \in Deliveries, Claim(w, d) PROVE TypeOK'
    BY <2>1, TypeClaims
  <2>2. ASSUME NEW ok \in BOOLEAN, Answer(w, ok) PROVE TypeOK'
    BY <2>2, TypeExchange
  <2>3. CASE RunFor(w) \/ Held(w) \/ NothingDue(w) \/ whenNext(w)
    BY <2>3, TypeClaims, DeliveryAssumption
  <2>4. CASE Post(w) \/ Record(w)
    BY <2>4, TypeExchange
  <2> QED
    BY <1>1, <2>1, <2>2, <2>3, <2>4, Zenon DEF JobStep
<1>2. ASSUME NEW w \in Workers,
             NoticeWork(w) \/ SetGate(w) \/ \E d \in Deliveries : Insert(w, d) \/ Resend(w, d)
      PROVE  TypeOK'
  BY <1>2, TypeBusiness, DeliveryAssumption
<1>3. ASSUME NEW w \in Workers,
             Fire(w) \/ RunFails(w) \/ CommitUnknown(w) \/ Stall(w) \/ Restart(w)
      PROVE  TypeOK'
  BY <1>3, TypeExchange, TypeFaults
<1>4. ASSUME NEW d \in Deliveries, Expire(d) PROVE TypeOK'
  BY <1>4, TypeExpire
<1> QED
  BY <1>1, <1>2, <1>3, <1>4, TypeTick, TypeStutter, Zenon DEF Next

\* Every variable keeps its type, for any deliveries, processes, leases and
\* back-off: no wait of the schedule is looked up past its last try (Decide).
THEOREM TypeCorrect == SafeSpec => []TypeOK
BY TypeInit, TypeStep, PTL DEF SafeSpec

(***************************************************************************)
(* The lease.                                                              *)
(***************************************************************************)

\* The claim of w is good: its row is pending under w's lease, which does not end
\* before the ticks since the claim are Lease.
Covered(w) ==
  /\ row[work[w].d].state = "pending"
  /\ row[work[w].d].leaseOf = w
  /\ Lease <= row[work[w].d].lease + work[w].age
  /\ work[w].age <= Hold

\* Until a process stalls, every claim that is held is good.
LeaseInv ==
  /\ TypeOK
  /\ stalls = 0 => \A w \in Workers : Busy(w) => Covered(w)

\* Two good claims of one delivery are one process's: a row names one holder.
LEMMA LeaseImplies == LeaseInv => OneRequestAtATime
BY Zenon DEF LeaseInv, Covered, OneRequestAtATime

\* Nothing is claimed at first.
LEMMA LeaseInit == Init => LeaseInv
<1> SUFFICES ASSUME Init PROVE LeaseInv
  OBVIOUS
<1>1. TypeOK
  BY TypeInit
<1>2. \A w \in Workers : work[w].pc = "idle"
  BY DEF Init, Idle
<1> QED
  BY <1>1, <1>2 DEF LeaseInv, Busy

\* A good claim's lease is live: no resend, claim or sweep may touch its row.
LEMMA LiveLease ==
  ASSUME TypeOK, NEW w \in Workers, Covered(w)
  PROVE  /\ row[work[w].d].lease # 0
         /\ row[work[w].d].state = "pending"
         /\ row[work[w].d].leaseOf = w
<1>1. row[work[w].d].lease \in Nat /\ work[w].age \in Nat
  BY Parts DEF RowType, WorkType
<1> QED
  BY <1>1, Numbers DEF Covered

\* A claim stays good while its row and its age do.
LEMMA Untouched ==
  ASSUME NEW w \in Workers, Covered(w),
         row'[work[w].d] = row[work[w].d],
         work'[w].d = work[w].d, work'[w].age = work[w].age
  PROVE  Covered(w)'
BY Zenon DEF Covered

\* What a step of w does to the runs of the others, and to its own when it ends
\* or goes on.
LEMMA RunOfOne ==
  ASSUME TypeOK, NEW w \in Workers, NEW v \in Workers
  PROVE  /\ Ends(w) /\ v # w => work'[v] = work[v]
         /\ Ends(w) => work'[w].pc = "idle"
         /\ \A pc : Goes(w, pc) => /\ work'[w].pc = pc
                                   /\ work'[w].d = work[w].d
                                   /\ work'[w].age = work[w].age
                                   /\ v # w => work'[v] = work[v]
BY Parts DEF Ends, Goes, Idle, WorkType

\* No step of the business, the owner or the retention takes a good claim.
LEMMA LeaseBusiness ==
  ASSUME TypeOK, NEW v \in Workers, Covered(v), NEW d \in Deliveries, NEW w \in Workers,
         Insert(w, d) \/ Resend(w, d) \/ NoticeWork(w) \/ SetGate(w) \/ Expire(d) \/ Fire(w)
  PROVE  Covered(v)'
<1>1. work' = work
  BY Zenon DEF Insert, Resend, NoticeWork, SetGate, Expire, Fire
<1>2. row'[work[v].d] = row[work[v].d]
  <2>1. CASE row' = row
    BY <2>1
  <2>2. CASE Insert(w, d)
    <3>1. d # work[v].d
      BY <2>2, LiveLease DEF Insert
    <3> QED
      BY <2>2, <3>1, Parts DEF Insert, WorkType
  <2>3. CASE Resend(w, d)
    <3>1. d # work[v].d
      BY <2>3, LiveLease DEF Resend, Resendable
    <3> QED
      BY <2>3, <3>1, Parts DEF Resend, WorkType
  <2>4. CASE Expire(d)
    <3>1. d # work[v].d
      BY <2>4, LiveLease DEF Expire, Settled
    <3> QED
      BY <2>4, <3>1, Parts DEF Expire, WorkType
  <2> QED
    BY <2>1, <2>2, <2>3, <2>4, Zenon DEF NoticeWork, SetGate, Fire
<1> QED
  BY <1>1, <1>2, Untouched

\* The result of another process's try is not written over a good claim.
LEMMA NotMine ==
  ASSUME TypeOK, NEW v \in Workers, Covered(v), NEW w \in Workers, w # v, Mine(w)
  PROVE  work[w].d # work[v].d
BY LiveLease DEF Mine

\* A step of a run leaves the good claims of the others good, and so its own
\* while it holds it.
LEMMA LeaseClaims ==
  ASSUME TypeOK, NEW v \in Workers, Busy(v) => Covered(v),
         NEW w \in Workers, NEW d \in Deliveries,
         RunFor(w) \/ Claim(w, d) \/ Held(w) \/ NothingDue(w) \/ whenNext(w),
         Busy(v)'
  PROVE  Covered(v)'
<1>1. CASE RunFor(w)
  <2>1. Goes(w, "run") /\ v # w
    <3>1. Goes(w, "run")
      BY <1>1, Zenon DEF RunFor
    <3> QED
      BY <3>1, RunOfOne DEF Busy
  <2>2. work'[v] = work[v] /\ Covered(v)
    BY <2>1, RunOfOne, Zenon DEF Busy
  <2>3. PICK swept \in SUBSET Sweepable :
          row' = [e \in Deliveries |->
                    IF e \in swept THEN [NoRow EXCEPT !.state = "gone", !.attempt = row[e].attempt]
                    ELSE row[e]]
    BY <1>1, Zenon DEF RunFor
  <2>4. work[v].d \in Deliveries \ swept
    BY <2>2, LiveLease, Parts DEF WorkType, Sweepable, Settled
  <2>5. row'[work[v].d] = row[work[v].d]
    BY <2>3, <2>4
  <2> QED
    BY <2>2, <2>5, Untouched
<1>2. CASE Claim(w, d)
  <2>1. CASE v = w
    <3>1. work'[w].d = d /\ work'[w].age = 0
      BY <1>2, Parts DEF Claim, WorkType
    <3>2. row'[d].lease = Lease /\ row'[d].leaseOf = w /\ row'[d].state = "pending"
      BY <1>2, Parts DEF Claim, Due, RowType
    <3> QED
      BY <2>1, <3>1, <3>2, Numbers DEF Covered
  <2>2. CASE v # w
    <3>1. work'[v] = work[v]
      BY <1>2, <2>2, Parts DEF Claim
    <3>2. Covered(v)
      BY <3>1, Zenon DEF Busy
    <3>3. d # work[v].d
      BY <1>2, <3>2, LiveLease DEF Claim, Due
    <3>4. row'[work[v].d] = row[work[v].d]
      BY <1>2, <3>3, Parts DEF Claim, WorkType
    <3> QED
      BY <3>1, <3>2, <3>4, Untouched
  <2> QED
    BY <2>1, <2>2
<1>3. CASE Held(w) \/ whenNext(w)
  <2>1. Ends(w) /\ row' = row
    BY <1>3, Zenon DEF Held, whenNext
  <2>2. v # w
    BY <2>1, RunOfOne DEF Busy
  <2>3. work'[v] = work[v] /\ Covered(v)
    BY <2>1, <2>2, RunOfOne, Zenon DEF Busy
  <2> QED
    BY <2>1, <2>3, Untouched
<1>4. CASE NothingDue(w)
  <2>1. Goes(w, "ask") /\ v # w /\ row' = row
    BY <1>4, RunOfOne DEF NothingDue, Busy
  <2>2. work'[v] = work[v] /\ Covered(v)
    BY <2>1, RunOfOne, Zenon DEF Busy
  <2> QED
    BY <2>1, <2>2, Untouched
<1> QED
  BY <1>1, <1>2, <1>3, <1>4

\* A request, its answer and its result leave the good claims good.
LEMMA LeaseExchange ==
  ASSUME TypeOK, NEW v \in Workers, Busy(v) => Covered(v),
         NEW w \in Workers, NEW ok \in BOOLEAN,
         Post(w) \/ Answer(w, ok) \/ Record(w),
         Busy(v)'
  PROVE  Covered(v)'
<1>1. CASE Post(w)
  <2>1. Goes(w, "posting") /\ work[w].pc = "claimed" /\ row' = row
    BY <1>1, Zenon DEF Post
  <2>2. work'[v].d = work[v].d /\ work'[v].age = work[v].age /\ Busy(v)
    BY <2>1, RunOfOne, Zenon DEF Busy
  <2> QED
    BY <2>1, <2>2, Untouched
<1>2. CASE Answer(w, ok)
  <2>1. work'[v].d = work[v].d /\ work'[v].age = work[v].age /\ Busy(v) /\ row' = row
    BY <1>2, Parts DEF Answer, Busy, WorkType
  <2> QED
    BY <2>1, Untouched
<1>3. CASE Record(w)
  <2>1. v # w /\ work'[v] = work[v]
    BY <1>3, Parts DEF Record, Ends, Busy, Idle, WorkType
  <2>2. Covered(v)
    BY <2>1, Zenon DEF Busy
  <2>3. row'[work[v].d] = row[work[v].d]
    <3>1. CASE Mine(w)
      <4>1. work[w].d # work[v].d
        BY <2>1, <2>2, <3>1, NotMine
      <4>2. \E r : row' = [row EXCEPT ![work[w].d] = r]
        BY <1>3, <3>1, Zenon DEF Record
      <4> QED
        BY <4>1, <4>2, Parts DEF WorkType
    <3>2. CASE ~Mine(w)
      BY <1>3, <3>2, Zenon DEF Record
    <3> QED
      BY <3>1, <3>2
  <2> QED
    BY <2>1, <2>2, <2>3, Untouched
<1> QED
  BY <1>1, <1>2, <1>3

\* So do a run that fails, a commit whose answer is lost and a restart.
LEMMA LeaseFaults ==
  ASSUME TypeOK, NEW v \in Workers, Busy(v) => Covered(v), NEW w \in Workers,
         RunFails(w) \/ CommitUnknown(w) \/ Restart(w),
         Busy(v)'
  PROVE  Covered(v)'
<1>1. Ends(w)
  BY Zenon DEF RunFails, CommitUnknown, Restart
<1>2. v # w
  BY <1>1, RunOfOne DEF Busy
<1>3. work'[v] = work[v] /\ Covered(v)
  BY <1>1, <1>2, RunOfOne, Zenon DEF Busy
<1>4. row'[work[v].d] = row[work[v].d]
  <2>1. CASE row' = row
    BY <2>1
  <2>2. ASSUME NEW d \in Due, row' = [row EXCEPT ![d].lease = Lease, ![d].leaseOf = w]
        PROVE  row'[work[v].d] = row[work[v].d]
    <3>1. d # work[v].d
      BY <1>3, LiveLease DEF Due
    <3> QED
      BY <2>2, <3>1, Parts DEF WorkType, Due
  <2>3. ASSUME Mine(w), NEW r, row' = [row EXCEPT ![work[w].d] = r]
        PROVE  row'[work[v].d] = row[work[v].d]
    <3>1. work[w].d # work[v].d
      BY <1>2, <1>3, <2>3, NotMine
    <3> QED
      BY <2>3, <3>1, Parts DEF WorkType
  <2>4. \/ row' = row
        \/ \E d \in Due : row' = [row EXCEPT ![d].lease = Lease, ![d].leaseOf = w]
        \/ Mine(w) /\ \E r : row' = [row EXCEPT ![work[w].d] = r]
    BY Zenon DEF RunFails, CommitUnknown, Restart
  <2> QED
    BY <2>1, <2>2, <2>3, <2>4
<1> QED
  BY <1>3, <1>4, Untouched

\* A tick takes one from the lease and adds one to the age.
LEMMA LeaseTick ==
  ASSUME TypeOK, NEW v \in Workers, Busy(v) => Covered(v), Tick, Busy(v)'
  PROVE  Covered(v)'
<1>1. Busy(v) /\ work'[v].d = work[v].d /\ work'[v].age = work[v].age + 1
  BY Parts DEF Tick, Busy, WorkType
<1>2. work[v].age < Hold /\ Covered(v)
  BY <1>1, Zenon DEF Tick
<1>3. work[v].d \in Deliveries /\ work[v].age \in Nat /\ row[work[v].d].lease \in Nat
  BY Parts DEF WorkType, RowType
<1>4. /\ row'[work[v].d].state = row[work[v].d].state
      /\ row'[work[v].d].leaseOf = row[work[v].d].leaseOf
      /\ row'[work[v].d].lease = Down(row[work[v].d].lease)
  BY <1>3, Parts DEF Tick, RowType
<1>5. row[work[v].d].lease # 0
  BY <1>2, LiveLease
<1>6. Down(row[work[v].d].lease) = row[work[v].d].lease - 1
  BY <1>3, <1>5 DEF Down
<1> QED
  BY <1>1, <1>2, <1>3, <1>4, <1>6, Numbers DEF Covered

\* Every step keeps the claims good, while no process stalls.
LEMMA LeaseStep == LeaseInv /\ [Next]_vars => LeaseInv'
<1> SUFFICES ASSUME LeaseInv, [Next]_vars PROVE LeaseInv'
  OBVIOUS
<1>1. TypeOK /\ TypeOK'
  BY TypeStep DEF LeaseInv
<1>2. SUFFICES ASSUME stalls' = 0, NEW v \in Workers, Busy(v)'
               PROVE  Covered(v)'
  BY <1>1, Zenon DEF LeaseInv
<1>3. stalls = 0 /\ ~(\E w \in Workers : Stall(w))
  <2>1. stalls \in Nat
    BY <1>1, Parts, Numbers
  <2>2. \/ stalls' = stalls
        \/ \E w \in Workers : Stall(w)
    <3>1. ASSUME NEW w \in Workers, JobStep(w) PROVE stalls' = stalls
      BY <3>1, Zenon DEF JobStep, RunFor, Claim, Held, NothingDue, whenNext, Post, Answer, Record
    <3>2. ASSUME NEW w \in Workers, NEW d \in Deliveries, Insert(w, d) \/ Resend(w, d)
          PROVE  stalls' = stalls
      BY <3>2, Zenon DEF Insert, Resend
    <3>3. ASSUME NEW w \in Workers,
                 \/ NoticeWork(w) \/ SetGate(w) \/ Fire(w)
                 \/ RunFails(w) \/ CommitUnknown(w) \/ Restart(w)
          PROVE  stalls' = stalls
      BY <3>3, Zenon DEF NoticeWork, SetGate, Fire, RunFails, CommitUnknown, Restart
    <3>4. ASSUME NEW d \in Deliveries, Expire(d) PROVE stalls' = stalls
      BY <3>4, Zenon DEF Expire
    <3>5. Tick \/ UNCHANGED vars => stalls' = stalls
      BY Zenon DEF Tick, vars
    <3> QED
      BY <3>1, <3>2, <3>3, <3>4, <3>5, Zenon DEF Next
  <2>3. (\E w \in Workers : Stall(w)) => stalls' = stalls + 1
    BY Zenon DEF Stall
  <2> QED
    BY <1>2, <2>1, <2>2, <2>3
<1>4. Busy(v) => Covered(v)
  BY <1>3, Zenon DEF LeaseInv
<1>5. CASE UNCHANGED vars
  <2>1. work' = work /\ row' = row /\ Covered(v)
    BY <1>2, <1>4, <1>5, Zenon DEF vars, Busy
  <2> QED
    BY <2>1, Untouched
<1>6. CASE Tick
  BY <1>1, <1>2, <1>4, <1>6, LeaseTick
<1>7. ASSUME NEW d \in Deliveries, Expire(d) PROVE Covered(v)'
  <2>1. Covered(v)
    BY <1>2, <1>4, <1>7, Zenon DEF Expire, Busy
  <2> QED
    BY <1>1, <1>7, <2>1, LeaseBusiness
<1>8. ASSUME NEW w \in Workers, NoticeWork(w) \/ SetGate(w) \/ Fire(w) PROVE Covered(v)'
  <2>1. Covered(v)
    BY <1>2, <1>4, <1>8, Zenon DEF NoticeWork, SetGate, Fire, Busy
  <2> QED
    BY <1>1, <1>8, <2>1, LeaseBusiness, DeliveryAssumption
<1>9. ASSUME NEW w \in Workers, NEW d \in Deliveries, Insert(w, d) \/ Resend(w, d)
      PROVE  Covered(v)'
  <2>1. Covered(v)
    BY <1>2, <1>4, <1>9, Zenon DEF Insert, Resend, Busy
  <2> QED
    BY <1>1, <1>9, <2>1, LeaseBusiness
<1>10. ASSUME NEW w \in Workers, JobStep(w) PROVE Covered(v)'
  <2>1. ASSUME NEW d \in Deliveries,
               RunFor(w) \/ Claim(w, d) \/ Held(w) \/ NothingDue(w) \/ whenNext(w)
        PROVE  Covered(v)'
    BY <1>1, <1>2, <1>4, <2>1, LeaseClaims
  <2>2. ASSUME NEW ok \in BOOLEAN, Post(w) \/ Answer(w, ok) \/ Record(w)
        PROVE  Covered(v)'
    BY <1>1, <1>2, <1>4, <2>2, LeaseExchange
  <2> QED
    BY <1>10, <2>1, <2>2, DeliveryAssumption, Zenon DEF JobStep
<1>11. ASSUME NEW w \in Workers, RunFails(w) \/ CommitUnknown(w) \/ Restart(w)
       PROVE  Covered(v)'
  BY <1>1, <1>2, <1>4, <1>11, LeaseFaults
<1> QED
  BY <1>3, <1>5, <1>6, <1>7, <1>8, <1>9, <1>10, <1>11, Zenon DEF Next

\* While no process stalls, a delivery is sent by one process at a time, for any
\* lease that outlives the time a claim is held.
THEOREM LeaseKeepsApart == SafeSpec => []OneRequestAtATime
BY LeaseInit, LeaseStep, LeaseImplies, PTL DEF SafeSpec

(***************************************************************************)
(* The tries.                                                              *)
(***************************************************************************)

\* A pending delivery has a try left, and one that was never sent has none spent.
TriesLeft(d) ==
  /\ row[d].attempt <= MaxAttempts + revived[d]
  /\ row[d].state = "pending" => row[d].attempt + 1 <= MaxAttempts + revived[d]
  /\ row[d].state = "none" => row[d].attempt = 0 /\ row[d].leaseOf = Nobody

\* A claim whose row is still its own knows how many tries the row has behind it.
KnowsTries(w) ==
  Busy(w) /\ Mine(w) => work[w].attempt = row[work[w].d].attempt

TriesAgree ==
  /\ \A d \in Deliveries : TriesLeft(d)
  /\ \A w \in Workers : KnowsTries(w)

TriesInv == TypeOK /\ TriesAgree

\* The bound is a part of the invariant.
LEMMA TriesImplies == TriesInv => TriesBounded
BY Zenon DEF TriesInv, TriesAgree, TriesLeft, TriesBounded

\* No try is spent at first.
LEMMA TriesInit == Init => TriesInv
<1> SUFFICES ASSUME Init PROVE TriesInv
  OBVIOUS
<1>1. \A d \in Deliveries : TriesLeft(d)
  BY Numbers DEF Init, NoRow, TriesLeft
<1>2. \A w \in Workers : ~Busy(w)
  BY DEF Init, Idle, Busy
<1> QED
  BY <1>1, <1>2, TypeInit, Zenon DEF TriesInv, TriesAgree, KnowsTries

\* The parts of a row that count tries.
SameTries(d) ==
  /\ row'[d].state = row[d].state
  /\ row'[d].attempt = row[d].attempt
  /\ row'[d].leaseOf = row[d].leaseOf
  /\ revived'[d] = revived[d]

\* A claim that was there before the step.
SameClaim(v) ==
  Busy(v)' => /\ Busy(v)
              /\ work'[v].d = work[v].d
              /\ work'[v].attempt = work[v].attempt

\* The steps that neither claim, record nor revive.
LEMMA QuietTries ==
  ASSUME TypeOK, TriesAgree,
         \A d \in Deliveries : SameTries(d),
         \A v \in Workers : SameClaim(v)
  PROVE  TriesAgree'
<1>1. \A d \in Deliveries : TriesLeft(d)'
  BY Zenon DEF TriesAgree, TriesLeft, SameTries
<1>2. ASSUME NEW v \in Workers, Busy(v)', Mine(v)'
      PROVE  work'[v].attempt = row'[work'[v].d].attempt
  <2>1. Busy(v) /\ work'[v].d = work[v].d /\ work'[v].attempt = work[v].attempt
    BY <1>2, Zenon DEF SameClaim
  <2>2. work[v].d \in Deliveries
    BY Parts DEF WorkType
  <2>3. SameTries(work[v].d)
    BY <2>2
  <2>4. Mine(v)
    BY <1>2, <2>1, <2>3, Zenon DEF Mine, SameTries
  <2> QED
    BY <2>1, <2>3, <2>4, Zenon DEF TriesAgree, KnowsTries, SameTries
<1> QED
  BY <1>1, <1>2, Zenon DEF TriesAgree, KnowsTries

\* A step that rewrites one row: it leaves the row a try if it is pending, and a
\* claim it names knows the row's tries.
LEMMA OneRow ==
  ASSUME TypeOK, TriesAgree, NEW d \in Deliveries, NEW r,
         row' = [row EXCEPT ![d] = r],
         \A e \in Deliveries \ {d} : revived'[e] = revived[e],
         TriesLeft(d)',
         \A v \in Workers : Busy(v)' /\ work'[v].d = d /\ r.leaseOf = v
                              => work'[v].attempt = r.attempt,
         \A v \in Workers : Busy(v)' /\ work'[v].d # d => SameClaim(v)
  PROVE  TriesAgree'
<1>1. row'[d] = r /\ \A e \in Deliveries \ {d} : row'[e] = row[e]
  BY Parts
<1>2. \A e \in Deliveries : TriesLeft(e)'
  BY <1>1, Zenon DEF TriesAgree, TriesLeft
<1>3. ASSUME NEW v \in Workers, Busy(v)', Mine(v)'
      PROVE  work'[v].attempt = row'[work'[v].d].attempt
  <2>1. CASE work'[v].d = d
    BY <1>1, <1>3, <2>1, Zenon DEF Mine
  <2>2. CASE work'[v].d # d
    <3>1. Busy(v) /\ work'[v].d = work[v].d /\ work'[v].attempt = work[v].attempt
      BY <1>3, <2>2, Zenon DEF SameClaim
    <3>2. work[v].d \in Deliveries \ {d}
      BY <2>2, <3>1, Parts DEF WorkType
    <3>3. row'[work[v].d] = row[work[v].d]
      BY <1>1, <3>2
    <3>4. Mine(v)
      BY <1>3, <3>1, <3>3, Zenon DEF Mine
    <3> QED
      BY <3>1, <3>3, <3>4, Zenon DEF TriesAgree, KnowsTries
  <2> QED
    BY <2>1, <2>2
<1> QED
  BY <1>2, <1>3, Zenon DEF TriesAgree, KnowsTries

\* Nobody holds a row whose lease was taken away.
LEMMA NobodysRow ==
  ASSUME NEW r, r.leaseOf = Nobody, NEW v \in Workers
  PROVE  r.leaseOf # v
BY Names

\* The recorded row: one try more, and one left if it goes on pending.
LEMMA RecordedTries ==
  ASSUME TypeOK, TriesAgree, NEW w \in Workers, Busy(w), Mine(w), NEW d, d = work[w].d,
         NEW r, r = Recorded(row[d], Decide(work[w].attempt, work[w].ok))
  PROVE  /\ d \in Deliveries
         /\ r.leaseOf = Nobody
         /\ r.state # "none"
         /\ r.attempt <= MaxAttempts + revived[d]
         /\ r.state = "pending" => r.attempt + 1 <= MaxAttempts + revived[d]
<1>1. /\ d \in Deliveries /\ row[d] \in RowType /\ revived[d] \in Nat
      /\ work[w].attempt \in Nat /\ work[w].ok \in BOOLEAN
  BY Parts, HistoryParts DEF WorkType
<1>2. /\ row[d].attempt + 1 <= MaxAttempts + revived[d]
      /\ work[w].attempt = row[d].attempt
  BY <1>1, Zenon DEF TriesAgree, TriesLeft, KnowsTries, Mine
<1> DEFINE result == Decide(work[w].attempt, work[w].ok)
<1>3. result.state \in {"delivered", "dead", "pending"}
  BY <1>1, DecideType
<1>4. result.state = "pending" => ~(work[w].attempt + 1 >= MaxAttempts)
  BY DEF Decide
<1>5. row[d].attempt \in Nat
  BY <1>1 DEF RowType
<1> HIDE DEF result
<1>6. r.state = result.state /\ r.attempt = row[d].attempt + 1 /\ r.leaseOf = Nobody
  BY <1>1 DEF Recorded, RowType, result
<1> QED
  BY <1>1, <1>2, <1>3, <1>4, <1>5, <1>6, Numbers

\* A run that ends holds no claim; the others' runs are as they were.
LEMMA EndedClaims ==
  ASSUME TypeOK, NEW w \in Workers, Ends(w), NEW v \in Workers
  PROVE  SameClaim(v)
BY RunOfOne DEF SameClaim, Busy

\* A new delivery and a revived one have a try left.
LEMMA TriesBusiness ==
  ASSUME TypeOK, TriesAgree, NEW w \in Workers, NEW d \in Deliveries,
         Insert(w, d) \/ Resend(w, d)
  PROVE  TriesAgree'
<1>1. work' = work
  BY Zenon DEF Insert, Resend
<1>2. \A v \in Workers : SameClaim(v)
  BY <1>1, Zenon DEF SameClaim, Busy
<1>3. TriesLeft(d) /\ row[d] \in RowType /\ revived[d] \in Nat
  BY Parts, HistoryParts DEF TriesAgree
<1>4. CASE Insert(w, d)
  <2>1. row' = [row EXCEPT ![d] = [row[d] EXCEPT !.state = "pending"]] /\ revived' = revived
    BY <1>4 DEF Insert, history
  <2>2. [row[d] EXCEPT !.state = "pending"].leaseOf = Nobody
    BY <1>3, <1>4 DEF Insert, TriesLeft, RowType
  <2>3. TriesLeft(d)'
    <3>1. row[d].attempt = 0 /\ revived'[d] = revived[d]
      BY <1>3, <1>4, <2>1 DEF Insert, TriesLeft
    <3>2. row'[d].state = "pending" /\ row'[d].attempt = 0
      BY <1>3, <2>1, <3>1, Parts DEF RowType
    <3>3. MaxAttempts \in Nat /\ MaxAttempts # 0
      BY DeliveryAssumption
    <3> QED
      BY <1>3, <3>1, <3>2, <3>3 DEF TriesLeft
  <2> QED
    BY <1>2, <2>1, <2>2, <2>3, OneRow, NobodysRow, Zenon
<1>5. CASE Resend(w, d)
  <2>1. DEFINE r == [row[d] EXCEPT !.state = "pending", !.wait = 0, !.lease = 0,
                                   !.leaseOf = Nobody, !.old = FALSE]
  <2>2. row' = [row EXCEPT ![d] = r]
    BY <1>5, Zenon DEF Resend
  <2>3. /\ r.state = "pending" /\ r.leaseOf = Nobody /\ r.attempt = row[d].attempt
    BY <1>3 DEF RowType
  <2>4. /\ \A e \in Deliveries \ {d} : revived'[e] = revived[e]
        /\ revived'[d] = IF row[d].state = "dead" THEN revived[d] + 1 ELSE revived[d]
    BY <1>5, HistoryParts DEF Resend
  <2>5. row[d].state \in {"pending", "dead"}
    BY <1>5, Zenon DEF Resend, Resendable
  <2>6. row'[d] = r
    BY <2>2, Parts
  <2> HIDE DEF r
  <2>7. TriesLeft(d)'
    BY <1>3, <2>3, <2>4, <2>5, <2>6, Numbers DEF TriesLeft, RowType
  <2> QED
    BY <1>2, <2>2, <2>3, <2>4, <2>7, OneRow, NobodysRow, Zenon
<1> QED
  BY <1>4, <1>5

\* A sweep deletes settled rows only, which no claim calls its own.
LEMMA TriesRunFor ==
  ASSUME TypeOK, TriesAgree, NEW w \in Workers, RunFor(w)
  PROVE  TriesAgree'
<1>1. Goes(w, "run") /\ revived' = revived
  BY Zenon DEF RunFor, history
<1>2. \A v \in Workers : SameClaim(v)
  BY <1>1, RunOfOne DEF SameClaim, Busy
<1>3. PICK swept \in SUBSET Sweepable :
        row' = [e \in Deliveries |->
                  IF e \in swept THEN [NoRow EXCEPT !.state = "gone", !.attempt = row[e].attempt]
                  ELSE row[e]]
  BY Zenon DEF RunFor
<1>4. ASSUME NEW e \in Deliveries
      PROVE  TriesLeft(e)'
  <2>1. TriesLeft(e)
    BY Zenon DEF TriesAgree
  <2>2. CASE e \in swept
    <3>1. row'[e].state = "gone" /\ row'[e].attempt = row[e].attempt
      BY <1>3, <2>2 DEF NoRow
    <3> QED
      BY <1>1, <2>1, <3>1 DEF TriesLeft
  <2>3. CASE e \notin swept
    <3>1. row'[e] = row[e]
      BY <1>3, <2>3
    <3> QED
      BY <1>1, <2>1, <3>1, Zenon DEF TriesLeft
  <2> QED
    BY <2>2, <2>3
<1>5. ASSUME NEW v \in Workers, Busy(v)', Mine(v)'
      PROVE  work'[v].attempt = row'[work'[v].d].attempt
  <2>1. Busy(v) /\ work'[v].d = work[v].d /\ work'[v].attempt = work[v].attempt
    BY <1>2, <1>5, Zenon DEF SameClaim
  <2>2. work[v].d \in Deliveries
    BY Parts DEF WorkType
  <2>3. work[v].d \notin swept
    BY <1>3, <1>5, <2>1, <2>2 DEF Mine, NoRow
  <2>4. row'[work[v].d] = row[work[v].d]
    BY <1>3, <2>2, <2>3
  <2> QED
    BY <1>5, <2>1, <2>4, Zenon DEF TriesAgree, KnowsTries, Mine
<1> QED
  BY <1>4, <1>5, Zenon DEF TriesAgree, KnowsTries

\* A row that is claimed keeps its state and its tries.
LEMMA LeasedTries ==
  ASSUME TypeOK, TriesAgree, NEW w \in Workers, NEW d \in Due,
         row' = [row EXCEPT ![d].lease = Lease, ![d].leaseOf = w],
         revived' = revived
  PROVE  /\ row' = [row EXCEPT ![d] = row'[d]]
         /\ row'[d].attempt = row[d].attempt
         /\ row'[d].leaseOf = w
         /\ TriesLeft(d)'
<1>1. d \in Deliveries /\ TriesLeft(d) /\ row[d] \in RowType /\ row[d].state = "pending"
  BY Parts DEF Due, TriesAgree
<1>2. /\ row'[d].attempt = row[d].attempt /\ row'[d].state = row[d].state
      /\ row'[d].leaseOf = w
  BY <1>1, Parts DEF RowType
<1>3. row' = [row EXCEPT ![d] = row'[d]]
  BY <1>1, Parts
<1> QED
  BY <1>1, <1>2, <1>3, Zenon DEF TriesLeft

\* A claim reads the tries of the row it takes.
LEMMA TriesClaim ==
  ASSUME TypeOK, TriesAgree, NEW w \in Workers, NEW d \in Deliveries, Claim(w, d)
  PROVE  TriesAgree'
<1>1. /\ d \in Due /\ row' = [row EXCEPT ![d].lease = Lease, ![d].leaseOf = w]
      /\ revived' = revived
  BY Zenon DEF Claim, history
<1>2. /\ work'[w].d = d /\ work'[w].attempt = row[d].attempt
      /\ \A v \in Workers \ {w} : work'[v] = work[v]
  BY Parts DEF Claim, WorkType
<1>3. \A v \in Workers : Busy(v)' /\ work'[v].d # d => SameClaim(v)
  BY <1>2, Zenon DEF SameClaim, Busy
<1>4. \A v \in Workers : Busy(v)' /\ work'[v].d = d /\ row'[d].leaseOf = v
                           => work'[v].attempt = row'[d].attempt
  BY <1>1, <1>2, LeasedTries
<1> QED
  BY <1>1, <1>3, <1>4, LeasedTries, OneRow

\* A result that counts finds the tries its claim has read.
LEMMA TriesRecord ==
  ASSUME TypeOK, TriesAgree, NEW w \in Workers, Record(w)
  PROVE  TriesAgree'
<1>1. /\ Busy(w) /\ revived' = revived
      /\ work' = [work EXCEPT ![w] = [Idle EXCEPT !.pc = "run"]] \/ Ends(w)
  BY Zenon DEF Record, Busy
<1>2. \A v \in Workers : SameClaim(v)
  BY <1>1, Parts, EndedClaims DEF SameClaim, Busy, Idle
<1>3. CASE ~Mine(w)
  <2>1. row' = row
    BY <1>3, Zenon DEF Record
  <2> QED
    BY <1>1, <1>2, <2>1, QuietTries, Zenon DEF SameTries
<1>4. CASE Mine(w)
  <2>0. PICK d \in Deliveries : d = work[w].d
    BY Parts DEF WorkType
  <2> DEFINE r == Recorded(row[d], Decide(work[w].attempt, work[w].ok))
  <2>1. row' = [row EXCEPT ![d] = r]
    BY <1>4, <2>0, Zenon DEF Record
  <2>2. /\ r.leaseOf = Nobody /\ r.state # "none"
        /\ r.attempt <= MaxAttempts + revived[d]
        /\ r.state = "pending" => r.attempt + 1 <= MaxAttempts + revived[d]
    BY <1>1, <1>4, <2>0, RecordedTries
  <2> HIDE DEF r
  <2>3. row'[d] = r
    BY <2>1, <2>2, Parts
  <2>4. TriesLeft(d)'
    BY <1>1, <2>2, <2>3, Zenon DEF TriesLeft
  <2> QED
    BY <1>1, <1>2, <2>1, <2>2, <2>4, OneRow, NobodysRow, Zenon
<1> QED
  BY <1>3, <1>4

\* So does one whose answer is lost.
LEMMA TriesCommitUnknown ==
  ASSUME TypeOK, TriesAgree, NEW w \in Workers, CommitUnknown(w)
  PROVE  TriesAgree'
<1>1. Ends(w) /\ revived' = revived
  BY Zenon DEF CommitUnknown, history
<1>2. \A v \in Workers : SameClaim(v)
  BY <1>1, EndedClaims
<1>3. ASSUME NEW d \in Due, row' = [row EXCEPT ![d].lease = Lease, ![d].leaseOf = w]
      PROVE  TriesAgree'
  <2>1. ~Busy(w)'
    BY <1>1, RunOfOne DEF Busy
  <2>2. \A v \in Workers : Busy(v)' /\ work'[v].d = d /\ row'[d].leaseOf = v
                             => work'[v].attempt = row'[d].attempt
    <3>1. row'[d].leaseOf = w
      BY <1>1, <1>3, LeasedTries
    <3> QED
      BY <2>1, <3>1, Zenon
  <2>3. d \in Deliveries
    BY DEF Due
  <2> QED
    BY <1>1, <1>2, <1>3, <2>2, <2>3, LeasedTries, OneRow
<1>4. ASSUME work[w].pc = "answered", Mine(w),
             row' = [row EXCEPT ![work[w].d] =
                       Recorded(row[work[w].d], Decide(work[w].attempt, work[w].ok))]
      PROVE  TriesAgree'
  <2>0. PICK d \in Deliveries : d = work[w].d
    BY Parts DEF WorkType
  <2> DEFINE r == Recorded(row[d], Decide(work[w].attempt, work[w].ok))
  <2>1. row' = [row EXCEPT ![d] = r] /\ Busy(w)
    BY <1>4, <2>0, Zenon DEF Busy
  <2>2. /\ r.leaseOf = Nobody /\ r.state # "none"
        /\ r.attempt <= MaxAttempts + revived[d]
        /\ r.state = "pending" => r.attempt + 1 <= MaxAttempts + revived[d]
    BY <1>4, <2>0, <2>1, RecordedTries
  <2> HIDE DEF r
  <2>3. row'[d] = r
    BY <2>1, <2>2, Parts
  <2>4. TriesLeft(d)'
    BY <1>1, <2>2, <2>3, Zenon DEF TriesLeft
  <2> QED
    BY <1>1, <1>2, <2>1, <2>2, <2>4, OneRow, NobodysRow, Zenon
<1> QED
  BY <1>3, <1>4, Zenon DEF CommitUnknown

\* The steps that neither claim nor record nor revive: they leave the tries of
\* every row, and hold no claim that was not held.
LEMMA TriesQuietSteps ==
  ASSUME TypeOK, TriesAgree, NEW w \in Workers, NEW ok \in BOOLEAN,
         \/ NoticeWork(w) \/ SetGate(w) \/ Fire(w)
         \/ Held(w) \/ NothingDue(w) \/ whenNext(w) \/ Post(w) \/ Answer(w, ok)
         \/ RunFails(w) \/ Stall(w) \/ Restart(w)
  PROVE  TriesAgree'
<1>1. row' = row /\ revived' = revived
  BY Zenon DEF NoticeWork, SetGate, Fire, Held, NothingDue, whenNext, Post, Answer,
               RunFails, Stall, Restart, history
<1>2. \A d \in Deliveries : SameTries(d)
  BY <1>1, Zenon DEF SameTries
<1>3. ASSUME NEW v \in Workers PROVE SameClaim(v)
  <2>1. CASE work' = work
    BY <2>1, Zenon DEF SameClaim, Busy
  <2>2. CASE Ends(w)
    BY <2>2, EndedClaims
  <2>3. CASE NothingDue(w)
    BY <2>3, RunOfOne DEF NothingDue, SameClaim, Busy
  <2>4. CASE Post(w)
    BY <2>4, Parts DEF Post, Goes, SameClaim, Busy, WorkType
  <2>5. CASE Answer(w, ok)
    BY <2>5, Parts DEF Answer, SameClaim, Busy, WorkType
  <2>6. CASE Stall(w)
    BY <2>6, Parts DEF Stall, SameClaim, Busy, WorkType
  <2> QED
    BY <2>1, <2>2, <2>3, <2>4, <2>5, <2>6, Zenon
       DEF NoticeWork, SetGate, Fire, Held, whenNext, RunFails, Restart
<1> QED
  BY <1>2, <1>3, QuietTries

\* The retention and the clock leave the tries of every row.
LEMMA TriesTime ==
  ASSUME TypeOK, TriesAgree, Tick \/ \E d \in Deliveries : Expire(d)
  PROVE  TriesAgree'
<1>1. revived' = revived
  BY Zenon DEF Tick, Expire, history
<1>2. ASSUME NEW e \in Deliveries PROVE SameTries(e)
  <2>1. CASE Tick
    BY <1>1, <2>1, Parts DEF Tick, SameTries, RowType
  <2>2. ASSUME NEW d \in Deliveries, Expire(d) PROVE SameTries(e)
    BY <1>1, <2>2, Parts DEF Expire, SameTries, RowType
  <2> QED
    BY <2>1, <2>2
<1>3. ASSUME NEW v \in Workers PROVE SameClaim(v)
  BY Parts DEF Tick, Expire, SameClaim, Busy, WorkType
<1> QED
  BY <1>2, <1>3, QuietTries

\* Every step keeps the count of the tries.
LEMMA TriesStep == TriesInv /\ [Next]_vars => TriesInv'
<1> SUFFICES ASSUME TypeOK, TriesAgree, [Next]_vars PROVE TriesAgree'
  BY TypeStep, Zenon DEF TriesInv
<1>1. ASSUME NEW w \in Workers, JobStep(w) PROVE TriesAgree'
  <2>1. ASSUME NEW ok \in BOOLEAN, Answer(w, ok) PROVE TriesAgree'
    BY <2>1, TriesQuietSteps
  <2>2. CASE Held(w) \/ NothingDue(w) \/ whenNext(w) \/ Post(w)
    BY <2>2, TriesQuietSteps
  <2> QED
    BY <1>1, <2>1, <2>2, TriesRunFor, TriesClaim, TriesRecord, Zenon DEF JobStep
<1>2. ASSUME NEW w \in Workers,
             \/ NoticeWork(w) \/ SetGate(w) \/ Fire(w)
             \/ RunFails(w) \/ Stall(w) \/ Restart(w)
      PROVE  TriesAgree'
  BY <1>2, TriesQuietSteps
<1>3. CASE UNCHANGED vars
  <2>1. row' = row /\ work' = work /\ revived' = revived
    BY <1>3, Zenon DEF vars, history
  <2> QED
    BY <2>1, QuietTries, Zenon DEF SameTries, SameClaim, Busy
<1> QED
  BY <1>1, <1>2, <1>3, TriesBusiness, TriesCommitUnknown, TriesTime, Zenon DEF Next

\* A delivery is tried MaxAttempts times and once more per revival, for any
\* schedule, any number of processes and any faults and stalls.
THEOREM TriesAreBounded == SafeSpec => []TriesBounded
BY TriesInit, TriesStep, TriesImplies, PTL DEF SafeSpec

(***************************************************************************)
(* The log.                                                                *)
(***************************************************************************)

\* What no step does to a delivered row, nor to a pending one.
Kept(d) ==
  /\ row[d].state = "delivered" => row'[d].state \in {"delivered", "gone"}
  /\ row[d].state = "pending" => row'[d].state # "gone"

\* A result is written over a pending row, and never deletes it.
LEMMA ResultKept ==
  ASSUME TypeOK, NEW w \in Workers, Mine(w), NEW d \in Deliveries,
         row' = [row EXCEPT ![work[w].d] =
                   Recorded(row[work[w].d], Decide(work[w].attempt, work[w].ok))]
  PROVE  Kept(d)
<1>1. /\ work[w].d \in Deliveries /\ row[work[w].d] \in RowType
      /\ work[w].attempt \in Nat /\ work[w].ok \in BOOLEAN
  BY Parts DEF WorkType
<1> DEFINE result == Decide(work[w].attempt, work[w].ok)
<1>2. result.state # "gone"
  BY <1>1, DecideType
<1> HIDE DEF result
<1>3. row' = [row EXCEPT ![work[w].d] = Recorded(row[work[w].d], result)]
  BY Zenon DEF result
<1>4. Recorded(row[work[w].d], result).state = result.state
  BY <1>1 DEF Recorded, RowType
<1>5. CASE d = work[w].d
  BY <1>1, <1>2, <1>3, <1>4, <1>5, Parts DEF Kept, Mine
<1>6. CASE d # work[w].d
  <2>1. row'[d] = row[d]
    BY <1>3, <1>6, Parts
  <2> QED
    BY <2>1 DEF Kept
<1> QED
  BY <1>5, <1>6

\* Every step keeps what the log has shown.
LEMMA KeptStep ==
  ASSUME TypeOK, Next, NEW d \in Deliveries
  PROVE  Kept(d)
<1>1. CASE row' = row
  BY <1>1 DEF Kept
<1>2. ASSUME NEW w \in Workers, NEW e \in Deliveries,
             Insert(w, e) \/ Resend(w, e) \/ Claim(w, e)
      PROVE  Kept(d)
  <2>1. CASE Insert(w, e)
    BY <2>1, Parts DEF Insert, Kept, RowType
  <2>2. CASE Resend(w, e)
    BY <2>2, Parts DEF Resend, Resendable, Kept, RowType
  <2>3. CASE Claim(w, e)
    BY <2>3, Parts DEF Claim, Due, Kept, RowType
  <2> QED
    BY <1>2, <2>1, <2>2, <2>3
<1>3. ASSUME NEW w \in Workers, RunFor(w) PROVE Kept(d)
  <2>1. PICK swept \in SUBSET Sweepable :
          row' = [e \in Deliveries |->
                    IF e \in swept THEN [NoRow EXCEPT !.state = "gone", !.attempt = row[e].attempt]
                    ELSE row[e]]
    BY <1>3, Zenon DEF RunFor
  <2>2. d \in swept => row[d].state # "pending"
    BY DEF Sweepable, Settled
  <2> QED
    BY <2>1, <2>2 DEF Kept, NoRow
<1>4. ASSUME NEW w \in Workers, Record(w) PROVE Kept(d)
  BY <1>1, <1>4, ResultKept, Zenon DEF Record
<1>5. ASSUME NEW w \in Workers, CommitUnknown(w) PROVE Kept(d)
  <2>1. ASSUME NEW e \in Due, row' = [row EXCEPT ![e].lease = Lease, ![e].leaseOf = w]
        PROVE  Kept(d)
    BY <2>1, Parts DEF Due, Kept, RowType
  <2> QED
    BY <1>5, <2>1, ResultKept, Zenon DEF CommitUnknown
<1>6. ASSUME NEW w \in Workers,
             \/ NoticeWork(w) \/ SetGate(w) \/ Fire(w)
             \/ Held(w) \/ NothingDue(w) \/ whenNext(w) \/ Post(w)
             \/ RunFails(w) \/ Stall(w) \/ Restart(w) \/ \E ok \in BOOLEAN : Answer(w, ok)
      PROVE  row' = row
  BY <1>6, Zenon DEF NoticeWork, SetGate, Fire, Held, NothingDue, whenNext, Post, Answer,
                     RunFails, Stall, Restart
<1>7. ASSUME NEW e \in Deliveries, Expire(e) PROVE Kept(d)
  BY <1>7, Parts DEF Expire, Settled, Kept, RowType
<1>8. CASE Tick
  BY <1>8, Parts DEF Tick, Kept, RowType
<1> QED
  BY <1>1, <1>2, <1>3, <1>4, <1>5, <1>6, <1>7, <1>8, Zenon DEF Next, JobStep

\* What the log has shown is not taken back, whatever results come late.
THEOREM LogStands == SafeSpec => LogIsKept
<1>1. TypeOK /\ [Next]_vars
        => [\A d \in Deliveries :
              /\ row[d].state = "delivered" => row'[d].state \in {"delivered", "gone"}
              /\ row[d].state = "pending" => row'[d].state # "gone"]_vars
  BY KeptStep, Zenon DEF Kept
<1> QED
  BY <1>1, TypeCorrect, PTL DEF SafeSpec, LogIsKept

(***************************************************************************)
(* The forgotten.                                                          *)
(***************************************************************************)

\* The process will look at the business again.
OnMind(w) ==
  \/ w \in unnoticed \/ noticed[w]
  \/ work[w].pc # "idle" \/ timer[w] # Never

\* A step of w leaves the other processes' minds as they are.
MindsOfOthers(w) ==
  \A v \in Workers \ {w} :
    /\ v \in unnoticed => v \in unnoticed'
    /\ noticed'[v] = noticed[v]
    /\ work'[v] = work[v]
    /\ timer'[v] = timer[v]

\* A worker that asks for a turn has a timer after it.
LEMMA TimerIsSet ==
  ASSUME TypeOK, NEW w \in Workers, NEW n \in Nat, NoticeAfter(w, n)
  PROVE  /\ timer'[w] # Never
         /\ \A v \in Workers \ {w} : timer'[v] = timer[v]
BY Parts, Names DEF NoticeAfter

\* The same of the turn for the row that comes due first.
LEMMA NextIsAsked ==
  ASSUME TypeOK, NEW w \in Workers, whenNext(w)
  PROVE  /\ \A v \in Workers \ {w} : timer'[v] = timer[v]
         /\ \/ timer'[w] # Never
            \/ \A d \in Deliveries : row[d].state # "pending"
<1>1. ASSUME NEW e \in Deliveries
      PROVE  AtLeast(DueIn(e), 1) \in Nat
  <2>1. row[e].wait \in Nat /\ row[e].lease \in Nat
    BY Parts DEF RowType
  <2> QED
    BY <2>1, AtLeastType DEF DueIn
<1>2. \/ timer' = timer /\ {d \in Deliveries : row[d].state = "pending"} = {}
      \/ \E e \in Deliveries : NoticeAfter(w, AtLeast(DueIn(e), 1))
  BY Zenon DEF whenNext
<1>3. CASE timer' = timer /\ {d \in Deliveries : row[d].state = "pending"} = {}
  BY <1>3
<1>4. ASSUME NEW e \in Deliveries, NoticeAfter(w, AtLeast(DueIn(e), 1))
      PROVE  timer'[w] # Never /\ \A v \in Workers \ {w} : timer'[v] = timer[v]
  BY <1>1, <1>4, TimerIsSet
<1> QED
  BY <1>2, <1>3, <1>4, Zenon

\* A process that does not end its run with nothing to wait for, and does not
\* fail, has the business on its mind after its step if it had before.
LEMMA MindOfOne ==
  ASSUME TypeOK, NEW w \in Workers, NEW d \in Deliveries, NEW ok \in BOOLEAN,
         \/ Insert(w, d) \/ Resend(w, d) \/ NoticeWork(w) \/ SetGate(w)
         \/ RunFor(w) \/ Claim(w, d) \/ Held(w) \/ NothingDue(w) \/ whenNext(w)
         \/ Post(w) \/ Answer(w, ok) \/ Record(w) \/ Fire(w) \/ Stall(w)
  PROVE  /\ MindsOfOthers(w)
         /\ \/ OnMind(w) => OnMind(w)'
            \/ \A e \in Deliveries : row'[e].state # "pending"
<1> USE Parts
<1>1. CASE Insert(w, d) \/ Resend(w, d) \/ SetGate(w)
  <2>1. /\ work' = work /\ noticed' = noticed /\ timer' = timer
        /\ unnoticed' = unnoticed \/ unnoticed' = unnoticed \union {w}
    BY <1>1, Zenon DEF Insert, Resend, SetGate
  <2> QED
    BY <2>1 DEF MindsOfOthers, OnMind
<1>2. CASE NoticeWork(w)
  BY <1>2 DEF NoticeWork, MindsOfOthers, OnMind
<1>3. CASE RunFor(w)
  <2>1. /\ Goes(w, "run") /\ noticed' = [noticed EXCEPT ![w] = FALSE]
        /\ unnoticed' = unnoticed /\ timer' = timer
    BY <1>3, Zenon DEF RunFor
  <2> QED
    BY <2>1, RunOfOne DEF MindsOfOthers, OnMind
<1>4. CASE Claim(w, d)
  <2>1. /\ work' = [work EXCEPT ![w] = [@ EXCEPT !.pc = "claimed", !.d = d,
                                           !.attempt = row[d].attempt, !.age = 0]]
        /\ noticed' = noticed /\ unnoticed' = unnoticed /\ timer' = timer
    BY <1>4, Zenon DEF Claim
  <2>2. work'[w].pc = "claimed"
    BY <2>1 DEF WorkType
  <2> QED
    BY <2>1, <2>2 DEF MindsOfOthers, OnMind
<1>5. CASE Held(w)
  <2>1. /\ Ends(w) /\ NoticeAfter(w, Recheck)
        /\ noticed' = noticed /\ unnoticed' = unnoticed
    BY <1>5, Zenon DEF Held
  <2> QED
    BY <2>1, RunOfOne, TimerIsSet, Numbers DEF MindsOfOthers, OnMind
<1>6. CASE NothingDue(w)
  BY <1>6, RunOfOne DEF NothingDue, MindsOfOthers, OnMind
<1>7. CASE whenNext(w)
  <2>1. /\ Ends(w) /\ row' = row
        /\ noticed' = noticed /\ unnoticed' = unnoticed
    BY <1>7, Zenon DEF whenNext
  <2>2. MindsOfOthers(w)
    BY <1>7, <2>1, RunOfOne, NextIsAsked DEF MindsOfOthers
  <2>3. timer'[w] # Never \/ \A e \in Deliveries : row'[e].state # "pending"
    BY <1>7, <2>1, NextIsAsked, Zenon
  <2> QED
    BY <2>2, <2>3, Zenon DEF OnMind
<1>8. CASE Post(w)
  BY <1>8, RunOfOne DEF Post, MindsOfOthers, OnMind
<1>9. CASE Answer(w, ok)
  BY <1>9 DEF Answer, MindsOfOthers, OnMind, WorkType
<1>10. CASE Record(w)
  <2>1. /\ \A v \in Workers \ {w} : work'[v] = work[v] /\ noticed'[v] = noticed[v]
        /\ work'[w].pc # "idle" \/ noticed'[w]
        /\ unnoticed' = unnoticed /\ timer' = timer
    BY <1>10 DEF Record, Ends, Idle
  <2> QED
    BY <2>1, Zenon DEF MindsOfOthers, OnMind
<1>11. CASE Fire(w)
  BY <1>11 DEF Fire, MindsOfOthers, OnMind
<1>12. CASE Stall(w)
  BY <1>12 DEF Stall, Busy, MindsOfOthers, OnMind, WorkType
<1> QED
  BY <1>1, <1>2, <1>3, <1>4, <1>5, <1>6, <1>7, <1>8, <1>9, <1>10, <1>11, <1>12, Zenon

\* A delivery becomes pending only by the steps that are noticed after them.
LEMMA PendingIsNoticed ==
  ASSUME TypeOK, Next, NEW d \in Deliveries, row'[d].state = "pending"
  PROVE  row[d].state = "pending" \/ \E w \in Workers : w \in unnoticed'
<1>1. ASSUME NEW w \in Workers, NEW e \in Deliveries, Insert(w, e) \/ Resend(w, e)
      PROVE  w \in unnoticed'
  BY <1>1, Zenon DEF Insert, Resend
<1>2. ASSUME NEW w \in Workers, NEW e \in Deliveries,
             row' = [row EXCEPT ![e].lease = Lease, ![e].leaseOf = w]
      PROVE  row[d].state = "pending"
  BY <1>2, Parts DEF RowType
<1>3. ASSUME NEW w \in Workers, RunFor(w)
      PROVE  row[d].state = "pending"
  <2>1. PICK swept \in SUBSET Sweepable :
          row' = [e \in Deliveries |->
                    IF e \in swept THEN [NoRow EXCEPT !.state = "gone", !.attempt = row[e].attempt]
                    ELSE row[e]]
    BY <1>3, Zenon DEF RunFor
  <2> QED
    BY <2>1 DEF NoRow
<1>4. ASSUME NEW w \in Workers, Mine(w),
             row' = [row EXCEPT ![work[w].d] =
                       Recorded(row[work[w].d], Decide(work[w].attempt, work[w].ok))]
      PROVE  row[d].state = "pending"
  BY <1>4, Parts, Zenon DEF Mine
<1>5. CASE row' = row
  BY <1>5
<1>6. ASSUME NEW w \in Workers,
             \/ NoticeWork(w) \/ SetGate(w) \/ Fire(w)
             \/ Held(w) \/ NothingDue(w) \/ whenNext(w) \/ Post(w)
             \/ RunFails(w) \/ Stall(w) \/ Restart(w) \/ \E ok \in BOOLEAN : Answer(w, ok)
      PROVE  row' = row
  BY <1>6, Zenon DEF NoticeWork, SetGate, Fire, Held, NothingDue, whenNext, Post, Answer,
                     RunFails, Stall, Restart
<1>7. ASSUME NEW w \in Workers, CommitUnknown(w)
      PROVE  row[d].state = "pending"
  <2>1. Due \subseteq Deliveries
    BY DEF Due
  <2> QED
    BY <1>2, <1>4, <1>7, <2>1, Zenon DEF CommitUnknown
<1>8. ASSUME NEW w \in Workers, NEW e \in Deliveries, Claim(w, e)
      PROVE  row[d].state = "pending"
  BY <1>2, <1>8, Zenon DEF Claim
<1>9. ASSUME NEW w \in Workers, Record(w)
      PROVE  row[d].state = "pending"
  BY <1>4, <1>5, <1>9, Zenon DEF Record
<1>10. ASSUME NEW e \in Deliveries, Expire(e)
       PROVE  row[d].state = "pending"
  BY <1>10, Parts DEF Expire, RowType
<1>11. CASE Tick
  BY <1>11, Parts DEF Tick, RowType
<1> QED
  BY <1>1, <1>3, <1>5, <1>6, <1>7, <1>8, <1>9, <1>10, <1>11, Zenon DEF Next, JobStep

\* A step takes a pending delivery off everyone's mind only by a fault.
LEMMA MindsStep ==
  ASSUME TypeOK, Next, NEW v \in Workers, OnMind(v), faults' = 0,
         NEW d \in Deliveries, row'[d].state = "pending"
  PROVE  OnMind(v)'
<1>1. faults \in Nat
  BY Parts, Numbers
<1>2. ASSUME NEW w \in Workers, MindsOfOthers(w), OnMind(w) => OnMind(w)'
      PROVE  OnMind(v)'
  <2>1. CASE v = w
    BY <1>2, <2>1
  <2>2. CASE v # w
    BY <1>2, <2>2, Zenon DEF MindsOfOthers, OnMind
  <2> QED
    BY <2>1, <2>2
<1>3. ASSUME NEW w \in Workers, JobStep(w) PROVE OnMind(v)'
  <2>1. PICK e \in Deliveries, ok \in BOOLEAN :
          \/ RunFor(w) \/ Claim(w, e) \/ Held(w) \/ NothingDue(w) \/ whenNext(w)
          \/ Post(w) \/ Answer(w, ok) \/ Record(w)
    BY <1>3, Zenon DEF JobStep
  <2> QED
    BY <1>2, <2>1, MindOfOne
<1>4. ASSUME NEW w \in Workers, NEW e \in Deliveries, Insert(w, e) \/ Resend(w, e)
      PROVE  OnMind(v)'
  BY <1>2, <1>4, MindOfOne
<1>5. ASSUME NEW w \in Workers, NoticeWork(w) \/ SetGate(w) \/ Fire(w) \/ Stall(w)
      PROVE  OnMind(v)'
  BY <1>2, <1>5, MindOfOne
<1>6. ASSUME NEW w \in Workers PROVE ~(RunFails(w) \/ CommitUnknown(w) \/ Restart(w))
  BY <1>1 DEF RunFails, CommitUnknown, Restart
<1>7. ASSUME NEW e \in Deliveries, Expire(e) PROVE OnMind(v)'
  BY <1>7, Zenon DEF Expire, OnMind
<1>8. CASE Tick
  <2>1. /\ work'[v].pc = work[v].pc
        /\ timer[v] # Never => timer'[v] # Never
        /\ noticed' = noticed /\ unnoticed' = unnoticed
    <3>1. work'[v] = IF Busy(v) THEN [work[v] EXCEPT !.age = @ + 1] ELSE work[v]
      BY <1>8 DEF Tick
    <3>2. work'[v].pc = work[v].pc
      BY <3>1, Parts DEF WorkType
    <3>3. timer[v] # Never => Down(timer[v]) \in Nat
      BY Parts, DownType
    <3>4. timer[v] # Never => timer'[v] = Down(timer[v])
      BY <1>8 DEF Tick
    <3> QED
      BY <1>8, <3>2, <3>3, <3>4, Names, Zenon DEF Tick
  <2> QED
    BY <2>1, Zenon DEF OnMind
<1> QED
  BY <1>3, <1>4, <1>5, <1>6, <1>7, <1>8, Zenon DEF Next

\* Every step keeps a pending delivery on some process's mind, until a fault.
LEMMA RememberStep == TypeOK /\ NeverForgotten /\ [Next]_vars => NeverForgotten'
<1> SUFFICES ASSUME TypeOK, NeverForgotten, [Next]_vars, faults' = 0,
                    NEW d \in Deliveries, row'[d].state = "pending"
             PROVE  \E w \in Workers : OnMind(w)'
  BY Zenon DEF NeverForgotten, OnMind
<1>1. CASE UNCHANGED vars
  <2>1. \E w \in Workers : OnMind(w)
    BY <1>1, Zenon DEF NeverForgotten, OnMind, vars
  <2> QED
    BY <1>1, <2>1, Zenon DEF OnMind, vars
<1>2. CASE Next
  <2>1. faults = 0
    <3>1. faults \in Nat
      BY Parts, Numbers
    <3>2. faults' = faults \/ faults' = faults + 1
      BY <1>2, Zenon DEF Next, JobStep, Insert, Resend, NoticeWork, SetGate, RunFor, Claim, Held,
                   NothingDue, whenNext, Post, Answer, Record, Fire, RunFails, CommitUnknown,
                   Stall, Restart, Expire, Tick
    <3> QED
      BY <3>1, <3>2
  <2>2. CASE row[d].state = "pending"
    <3>1. PICK v \in Workers : OnMind(v)
      BY <2>1, <2>2, Zenon DEF NeverForgotten, OnMind
    <3> QED
      BY <1>2, <3>1, MindsStep
  <2>3. CASE row[d].state # "pending"
    BY <1>2, <2>3, PendingIsNoticed, Zenon DEF OnMind
  <2> QED
    BY <2>2, <2>3
<1> QED
  BY <1>1, <1>2

\* Until a first fault no pending delivery is forgotten, for any deliveries,
\* processes, back-off and gates: each run that leaves one waiting has asked for
\* its turn (Held, whenNext, Record), each write of one is noticed.
THEOREM NothingForgotten == SafeSpec => []NeverForgotten
<1>1. Init => NeverForgotten
  BY DEF Init, NoRow, NeverForgotten
<1> QED
  BY <1>1, RememberStep, TypeCorrect, PTL DEF SafeSpec

(***************************************************************************)
(* The account of the requests.                                            *)
(***************************************************************************)

\* The processes that have sent d and not yet recorded what came of it.
OnTheWire(d) == {w \in Workers : work[w].pc \in {"posting", "answered"} /\ work[w].d = d}

\* They are finitely many, and with the tries recorded and the results lost they
\* are the requests that were sent.
Counted(d) ==
  /\ IsFiniteSet(OnTheWire(d))
  /\ posts[d] = row[d].attempt + lost[d] + Cardinality(OnTheWire(d))

AccountInv == TypeOK /\ \A d \in Deliveries : Counted(d)

\* The account is the invariant's second part.
LEMMA AccountImplies == AccountInv => EveryRequestAccounted
BY Zenon DEF AccountInv, Counted, OnTheWire, EveryRequestAccounted

\* Nothing is sent at first.
LEMMA AccountInit == Init => AccountInv
<1> SUFFICES ASSUME Init, NEW d \in Deliveries PROVE Counted(d)
  BY TypeInit, Zenon DEF AccountInv
<1>1. OnTheWire(d) = {}
  BY DEF Init, Idle, OnTheWire
<1>2. posts[d] = 0 /\ lost[d] = 0 /\ row[d].attempt = 0
  BY DEF Init, NoRow
<1> QED
  BY <1>1, <1>2, FS_EmptySet DEF Counted

\* The numbers of an account.
LEMMA AccountNumbers ==
  ASSUME TypeOK, NEW d \in Deliveries
  PROVE  posts[d] \in Nat /\ lost[d] \in Nat /\ row[d].attempt \in Nat
BY Parts, HistoryParts DEF RowType

\* A step that takes w off the wire of d, if it is on it, and counts its request
\* as recorded or as lost.
LEMMA TakenOff ==
  ASSUME TypeOK, NEW d \in Deliveries, Counted(d), NEW w,
         OnTheWire(d)' = OnTheWire(d) \ {w},
         posts'[d] = posts[d],
         row'[d].attempt + lost'[d]
           = row[d].attempt + lost[d] + (IF w \in OnTheWire(d) THEN 1 ELSE 0)
  PROVE  Counted(d)'
<1>1. IsFiniteSet(OnTheWire(d)) /\ Cardinality(OnTheWire(d)) \in Nat
  BY FS_CardinalityType DEF Counted
<1>2. /\ IsFiniteSet(OnTheWire(d) \ {w})
      /\ Cardinality(OnTheWire(d) \ {w})
           = IF w \in OnTheWire(d) THEN Cardinality(OnTheWire(d)) - 1
             ELSE Cardinality(OnTheWire(d))
  BY <1>1, FS_RemoveElement
<1>3. IsFiniteSet(OnTheWire(d)')
  BY <1>2
<1> DEFINE n == Cardinality(OnTheWire(d))
           m == Cardinality(OnTheWire(d) \ {w})
           a == row'[d].attempt + lost'[d]
<1>4. posts[d] = row[d].attempt + lost[d] + n
  BY DEF Counted
<1>5. Cardinality(OnTheWire(d)') = m
  BY Zenon
<1>6. m = IF w \in OnTheWire(d) THEN n - 1 ELSE n
  BY <1>2
<1>7. n \in Nat
  BY <1>1
<1> HIDE DEF n, m
<1>8. posts[d] = a + m
  BY <1>4, <1>6, <1>7, AccountNumbers
<1>9. posts'[d] = row'[d].attempt + lost'[d] + Cardinality(OnTheWire(d)')
  BY <1>5, <1>8
<1> QED
  BY <1>3, <1>9, Zenon DEF Counted

\* The wires that a step of w leaves to the others: w has left its own.
LEMMA WireOfOthers ==
  ASSUME TypeOK, NEW w \in Workers, NEW d \in Deliveries,
         \A v \in Workers \ {w} : work'[v] = work[v],
         work'[w].pc \notin {"posting", "answered"}
  PROVE  OnTheWire(d)' = OnTheWire(d) \ {w}
BY Zenon DEF OnTheWire

\* A step that leaves every claim's request where it was.
LEMMA SameWire ==
  ASSUME TypeOK, NEW d \in Deliveries, Counted(d),
         \A v \in Workers :
           /\ work'[v].pc \in {"posting", "answered"} <=> work[v].pc \in {"posting", "answered"}
           /\ work'[v].pc \in {"posting", "answered"} => work'[v].d = work[v].d,
         posts'[d] = posts[d], lost'[d] = lost[d], row'[d].attempt = row[d].attempt
  PROVE  Counted(d)'
<1>1. OnTheWire(d)' = OnTheWire(d)
  BY Zenon DEF OnTheWire
<1> QED
  BY <1>1, Zenon DEF Counted

\* The steps that send nothing and lose nothing: they leave the tries of every
\* row, and no request is on the wire that was not.
LEMMA AccountQuiet ==
  ASSUME TypeOK, NEW d \in Deliveries, Counted(d),
         NEW w \in Workers, NEW e \in Deliveries, NEW ok \in BOOLEAN,
         \/ Insert(w, e) \/ Resend(w, e) \/ NoticeWork(w) \/ SetGate(w) \/ Expire(e)
         \/ Claim(w, e) \/ Held(w) \/ NothingDue(w) \/ whenNext(w) \/ RunFor(w)
         \/ Answer(w, ok) \/ Fire(w) \/ Stall(w) \/ Tick
  PROVE  Counted(d)'
<1> USE Parts
<1>1. posts' = posts /\ lost' = lost
  BY Zenon DEF Insert, Resend, NoticeWork, SetGate, Expire, Claim, Held, NothingDue, whenNext,
               RunFor, Answer, Fire, Stall, Tick, history
<1>2. row'[d].attempt = row[d].attempt
  <2>1. CASE Insert(w, e) \/ Resend(w, e) \/ Expire(e) \/ Claim(w, e)
    <3>1. CASE Insert(w, e)
      BY <3>1 DEF Insert, RowType
    <3>2. CASE Resend(w, e)
      BY <3>2 DEF Resend, RowType
    <3>3. CASE Expire(e)
      BY <3>3 DEF Expire, RowType
    <3>4. CASE Claim(w, e)
      BY <3>4 DEF Claim, RowType
    <3> QED
      BY <2>1, <3>1, <3>2, <3>3, <3>4
  <2>2. CASE RunFor(w)
    <3>1. PICK swept \in SUBSET Sweepable :
            row' = [f \in Deliveries |->
                      IF f \in swept THEN [NoRow EXCEPT !.state = "gone", !.attempt = row[f].attempt]
                      ELSE row[f]]
      BY <2>2, Zenon DEF RunFor
    <3> QED
      BY <3>1 DEF NoRow
  <2>3. CASE Tick
    BY <2>3 DEF Tick, RowType
  <2>4. CASE \/ NoticeWork(w) \/ SetGate(w) \/ Held(w) \/ NothingDue(w) \/ whenNext(w)
             \/ Answer(w, ok) \/ Fire(w) \/ Stall(w)
    BY <2>4, Zenon DEF NoticeWork, SetGate, Held, NothingDue, whenNext, Answer, Fire, Stall
  <2> QED
    BY <2>1, <2>2, <2>3, <2>4
<1>3. ASSUME NEW v \in Workers
      PROVE  /\ work'[v].pc \in {"posting", "answered"} <=> work[v].pc \in {"posting", "answered"}
             /\ work'[v].pc \in {"posting", "answered"} => work'[v].d = work[v].d
  <2>1. CASE work' = work
    BY <2>1
  <2>2. CASE Claim(w, e)
    BY <2>2 DEF Claim, WorkType
  <2>3. CASE Held(w) \/ whenNext(w)
    <3>1. Ends(w) /\ work[w].pc \in {"run", "ask"}
      BY <2>3, Zenon DEF Held, whenNext
    <3> QED
      BY <3>1, RunOfOne
  <2>4. CASE NothingDue(w)
    BY <2>4, RunOfOne DEF NothingDue
  <2>5. CASE RunFor(w)
    BY <2>5, RunOfOne DEF RunFor
  <2>6. CASE Answer(w, ok)
    BY <2>6 DEF Answer, WorkType
  <2>7. CASE Stall(w)
    BY <2>7 DEF Stall, WorkType
  <2>8. CASE Tick
    BY <2>8 DEF Tick, WorkType
  <2> QED
    BY <2>1, <2>2, <2>3, <2>4, <2>5, <2>6, <2>7, <2>8, Zenon
       DEF Insert, Resend, NoticeWork, SetGate, Expire, Fire
<1> QED
  BY <1>1, <1>2, <1>3, SameWire

\* A request that goes out is one more on the wire.
LEMMA AccountPost ==
  ASSUME TypeOK, NEW d \in Deliveries, Counted(d), NEW w \in Workers, Post(w)
  PROVE  Counted(d)'
<1>1. /\ lost' = lost /\ row' = row
      /\ posts' = [posts EXCEPT ![work[w].d] = @ + 1]
      /\ Goes(w, "posting") /\ work[w].pc = "claimed"
  BY Zenon DEF Post
<1>2. /\ work'[w].pc = "posting" /\ work'[w].d = work[w].d
      /\ \A v \in Workers \ {w} : work'[v] = work[v]
  BY <1>1, RunOfOne
<1>3. CASE work[w].d # d
  <2>1. OnTheWire(d)' = OnTheWire(d)
    BY <1>1, <1>2, <1>3 DEF OnTheWire
  <2>2. posts'[d] = posts[d]
    BY <1>1, <1>3, HistoryParts
  <2> QED
    BY <1>1, <2>1, <2>2, Zenon DEF Counted
<1>4. CASE work[w].d = d
  <2>1. OnTheWire(d)' = OnTheWire(d) \union {w} /\ w \notin OnTheWire(d)
    BY <1>1, <1>2, <1>4 DEF OnTheWire
  <2>2. posts'[d] = posts[d] + 1
    BY <1>1, <1>4, HistoryParts
  <2>3. IsFiniteSet(OnTheWire(d)) /\ Cardinality(OnTheWire(d)) \in Nat
    BY FS_CardinalityType DEF Counted
  <2>4. /\ IsFiniteSet(OnTheWire(d) \union {w})
        /\ Cardinality(OnTheWire(d) \union {w}) = Cardinality(OnTheWire(d)) + 1
    BY <2>1, <2>3, FS_AddElement
  <2> DEFINE n == Cardinality(OnTheWire(d))
  <2>5. /\ Cardinality(OnTheWire(d)') = n + 1
        /\ n \in Nat /\ posts[d] = row[d].attempt + lost[d] + n
    BY <2>1, <2>3, <2>4 DEF Counted
  <2> HIDE DEF n
  <2>6. posts'[d] = row'[d].attempt + lost'[d] + Cardinality(OnTheWire(d)')
    BY <1>1, <2>2, <2>5, AccountNumbers
  <2>7. IsFiniteSet(OnTheWire(d)')
    BY <2>1, <2>4
  <2> QED
    BY <2>6, <2>7, Zenon DEF Counted
<1> QED
  BY <1>3, <1>4

\* What a result makes of the tries of a row.
LEMMA OneTryMore ==
  ASSUME TypeOK, NEW w \in Workers, NEW d \in Deliveries,
         row' = [row EXCEPT ![work[w].d] =
                   Recorded(row[work[w].d], Decide(work[w].attempt, work[w].ok))]
  PROVE  row'[d].attempt = row[d].attempt + (IF work[w].d = d THEN 1 ELSE 0)
<1>1. /\ work[w].d \in Deliveries /\ row[work[w].d] \in RowType
      /\ row[d].attempt \in Nat
  BY Parts DEF WorkType, RowType
<1> DEFINE result == Decide(work[w].attempt, work[w].ok)
<1> HIDE DEF result
<1>2. row' = [row EXCEPT ![work[w].d] = Recorded(row[work[w].d], result)]
  BY Zenon DEF result
<1>3. Recorded(row[work[w].d], result).attempt = row[work[w].d].attempt + 1
  BY <1>1 DEF Recorded, RowType
<1> QED
  BY <1>1, <1>2, <1>3, Parts

\* A step of w that ends or goes on with its run and has one result more in the
\* row, or one more lost, exactly when w was on the wire.
LEMMA Settles ==
  ASSUME TypeOK, NEW d \in Deliveries, Counted(d), NEW w \in Workers,
         Ends(w) \/ work' = [work EXCEPT ![w] = [Idle EXCEPT !.pc = "run"]],
         posts' = posts,
         row'[d].attempt + lost'[d]
           = row[d].attempt + lost[d] + (IF w \in OnTheWire(d) THEN 1 ELSE 0)
  PROVE  Counted(d)'
<1>1. /\ \A v \in Workers \ {w} : work'[v] = work[v]
      /\ work'[w].pc \notin {"posting", "answered"}
  BY Parts DEF Ends, Idle
<1>2. OnTheWire(d)' = OnTheWire(d) \ {w}
  BY <1>1, WireOfOthers
<1>3. posts'[d] = posts[d]
  OBVIOUS
<1> QED
  BY <1>2, <1>3, TakenOff

\* A result is recorded or known to be lost.
LEMMA AccountRecord ==
  ASSUME TypeOK, NEW d \in Deliveries, Counted(d), NEW w \in Workers, Record(w)
  PROVE  Counted(d)'
<1>1. /\ posts' = posts /\ work[w].pc = "answered"
      /\ Ends(w) \/ work' = [work EXCEPT ![w] = [Idle EXCEPT !.pc = "run"]]
  BY Zenon DEF Record
<1>2. w \in OnTheWire(d) <=> work[w].d = d
  BY <1>1 DEF OnTheWire
<1>3. row'[d].attempt + lost'[d]
        = row[d].attempt + lost[d] + (IF w \in OnTheWire(d) THEN 1 ELSE 0)
  <2>1. CASE Mine(w)
    <3>1. /\ lost' = lost
          /\ row' = [row EXCEPT ![work[w].d] =
                       Recorded(row[work[w].d], Decide(work[w].attempt, work[w].ok))]
      BY <2>1, Zenon DEF Record
    <3>2. row'[d].attempt = row[d].attempt + (IF work[w].d = d THEN 1 ELSE 0)
      BY <3>1, OneTryMore
    <3> QED
      BY <1>2, <3>1, <3>2, AccountNumbers
  <2>2. CASE ~Mine(w)
    <3>1. row' = row /\ lost' = [lost EXCEPT ![work[w].d] = @ + 1]
      BY <2>2, Zenon DEF Record
    <3> QED
      BY <1>2, <3>1, HistoryParts, AccountNumbers
  <2> QED
    BY <2>1, <2>2
<1> QED
  BY <1>1, <1>3, Settles

\* A request that is given up is known to be lost.
LEMMA AccountAbandons ==
  ASSUME TypeOK, NEW d \in Deliveries, Counted(d), NEW w \in Workers,
         Abandons(w), Ends(w), posts' = posts, row' = row
  PROVE  Counted(d)'
<1>1. lost'[d] = lost[d] + (IF w \in OnTheWire(d) THEN 1 ELSE 0)
  BY HistoryParts DEF Abandons, OnTheWire
<1>2. row'[d].attempt + lost'[d]
        = row[d].attempt + lost[d] + (IF w \in OnTheWire(d) THEN 1 ELSE 0)
  BY <1>1, AccountNumbers
<1> QED
  BY <1>2, Settles

\* A commit whose answer is lost has its try in the row, or has sent nothing.
LEMMA AccountUnknown ==
  ASSUME TypeOK, NEW d \in Deliveries, Counted(d), NEW w \in Workers, CommitUnknown(w)
  PROVE  Counted(d)'
<1>1. Ends(w) /\ posts' = posts /\ lost' = lost
  BY Zenon DEF CommitUnknown, history
<1>2. ASSUME work[w].pc = "run", NEW e \in Due,
             row' = [row EXCEPT ![e].lease = Lease, ![e].leaseOf = w]
      PROVE  Counted(d)'
  <2>1. row'[d].attempt = row[d].attempt
    BY <1>2, Parts DEF Due, RowType
  <2>2. w \notin OnTheWire(d)
    BY <1>2 DEF OnTheWire
  <2>3. row'[d].attempt + lost'[d]
          = row[d].attempt + lost[d] + (IF w \in OnTheWire(d) THEN 1 ELSE 0)
    BY <1>1, <2>1, <2>2, AccountNumbers
  <2> QED
    BY <1>1, <2>3, Settles
<1>3. ASSUME work[w].pc = "answered",
             row' = [row EXCEPT ![work[w].d] =
                       Recorded(row[work[w].d], Decide(work[w].attempt, work[w].ok))]
      PROVE  Counted(d)'
  <2>1. row'[d].attempt = row[d].attempt + (IF work[w].d = d THEN 1 ELSE 0)
    BY <1>3, OneTryMore
  <2>2. w \in OnTheWire(d) <=> work[w].d = d
    BY <1>3 DEF OnTheWire
  <2>3. row'[d].attempt + lost'[d]
          = row[d].attempt + lost[d] + (IF w \in OnTheWire(d) THEN 1 ELSE 0)
    BY <1>1, <2>1, <2>2, AccountNumbers
  <2> QED
    BY <1>1, <2>3, Settles
<1> QED
  BY <1>2, <1>3, Zenon DEF CommitUnknown

\* Every step keeps the account.
LEMMA AccountStep == AccountInv /\ [Next]_vars => AccountInv'
<1> SUFFICES ASSUME TypeOK, [Next]_vars, NEW d \in Deliveries, Counted(d) PROVE Counted(d)'
  BY TypeStep, Zenon DEF AccountInv
<1>1. ASSUME NEW w \in Workers, JobStep(w) PROVE Counted(d)'
  <2>1. PICK e \in Deliveries, ok \in BOOLEAN :
          \/ RunFor(w) \/ Claim(w, e) \/ Held(w) \/ NothingDue(w) \/ whenNext(w)
          \/ Post(w) \/ Answer(w, ok) \/ Record(w)
    BY <1>1, Zenon DEF JobStep
  <2> QED
    BY <2>1, AccountQuiet, AccountPost, AccountRecord
<1>2. ASSUME NEW w \in Workers, NEW e \in Deliveries, Insert(w, e) \/ Resend(w, e)
      PROVE  Counted(d)'
  BY <1>2, AccountQuiet
<1>3. ASSUME NEW w \in Workers, NoticeWork(w) \/ SetGate(w) \/ Fire(w) \/ Stall(w)
      PROVE  Counted(d)'
  BY <1>3, AccountQuiet
<1>4. ASSUME NEW w \in Workers, RunFails(w) \/ Restart(w) PROVE Counted(d)'
  BY <1>4, AccountAbandons, Zenon DEF RunFails, Restart
<1>5. CASE Tick \/ \E e \in Deliveries : Expire(e)
  <2>1. CASE Workers = {}
    <3>1. OnTheWire(d)' = OnTheWire(d)
      BY <2>1 DEF OnTheWire
    <3>2. posts' = posts /\ lost' = lost
      BY <1>5, Zenon DEF Tick, Expire, history
    <3>3. ASSUME NEW e \in Deliveries, Expire(e)
          PROVE  row'[d].attempt = row[d].attempt
      BY <3>3, Parts DEF Expire, RowType
    <3>4. row'[d].attempt = row[d].attempt
      <4>1. CASE Tick
        BY <4>1, Parts DEF Tick, RowType
      <4> QED
        BY <1>5, <3>3, <4>1
    <3> QED
      BY <3>1, <3>2, <3>4, Zenon DEF Counted
  <2>2. CASE Workers # {}
    BY <1>5, <2>2, AccountQuiet
  <2> QED
    BY <2>1, <2>2
<1>6. CASE UNCHANGED vars
  BY <1>6, Zenon DEF vars, history, Counted, OnTheWire
<1> QED
  BY <1>1, <1>2, <1>3, <1>4, <1>5, <1>6, AccountUnknown, Zenon DEF Next

\* No try is counted twice or for nothing: every request sent is a recorded try,
\* a result known to be lost or under way, for any deliveries and processes.
THEOREM RequestsAreAccounted == SafeSpec => []EveryRequestAccounted
BY AccountInit, AccountStep, AccountImplies, PTL DEF SafeSpec
=============================================================================

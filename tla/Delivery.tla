------------------------------ MODULE Delivery ------------------------------
(***************************************************************************)
(* The webhook deliveries of one business: the job that sends them         *)
(* (src/internal/webhook/delivery/delivery.go) in every process that runs  *)
(* it, their rows (src/db/queries/webhooks.sql), the owner's resend        *)
(* (src/internal/webhook/endpoints/deliveries.go) and the feed that writes *)
(* them.  Of the worker that calls the job only its promise is here: the   *)
(* tenant is run when noticed, or when its one timer fires (module Worker). *)
(*                                                                         *)
(* A transaction is one step.  Times are relative to the present.          *)
(***************************************************************************)
EXTENDS Integers, FiniteSets

CONSTANTS
  Deliveries,   \* one per event of the business's feed
  Workers,      \* processes, each with a worker of its own
  Lease,        \* ticks a claim holds a delivery
  Hold,         \* ticks from a claim to the end of its result's write
  MaxAttempts,  \* the try after which a failed delivery is dead
  Backoff,      \* ticks to wait after the n-th failed try
  Recheck,      \* ticks until a held business is looked at again
  MaxResends,   \* bound: slots of the resend bucket
  MaxFaults,    \* bound: errors of the database and ends of processes
  MaxStalls,    \* bound: times a process stands still for longer than that
  Nobody,       \* no lease
  Never         \* no timer

ASSUME DeliveryAssumption ==
  /\ Deliveries # {}
  /\ Lease \in Nat /\ Hold \in Nat /\ Hold < Lease
  /\ MaxAttempts \in Nat \ {0}
  /\ Backoff \in [1..(MaxAttempts - 1) -> Nat]
  /\ Recheck \in Nat \ {0}
  /\ MaxResends \in Nat
  /\ MaxFaults \in Nat
  /\ MaxStalls \in Nat
  /\ Nobody \notin Workers
  /\ Never \notin Nat

VARIABLES
  row,        \* webhook_deliveries
  open,       \* the API gate and the endpoint's switch, address and key
  work,       \* per process, where its run of the job is
  noticed,    \* per process, whether the business is in its worker's set
  timer,      \* per process, ticks until its worker notices the business
  unnoticed,  \* processes that committed work and have not noticed it yet
  resends,    \* slots of the bucket spent
  faults,     \* faults so far
  stalls,     \* stalls so far
  posts,      \* history: requests sent, per delivery
  lost,       \* history: requests whose result was not recorded
  revived     \* history: resends of a dead delivery

history == <<posts, lost, revived>>
vars == <<row, open, work, noticed, timer, unnoticed, resends, faults, stalls, history>>

States == {"none", "pending", "delivered", "dead", "gone"}
Settled == {"delivered", "dead"}

\* leaseOf stands for the value of lease_until: it is kept when the lease is
\* over, as the column is.  old: settled for longer than the retention.
RowType == [state : States, attempt : Nat, wait : Nat, lease : Nat,
            leaseOf : Workers \union {Nobody}, old : BOOLEAN]

\* age: ticks since the claim.  ok: the receiver's answer.
WorkType == [pc : {"idle", "run", "claimed", "posting", "answered", "ask"},
             d : Deliveries, attempt : Nat, age : Nat, ok : BOOLEAN]

TypeOK ==
  /\ row \in [Deliveries -> RowType]
  /\ open \in BOOLEAN
  /\ work \in [Workers -> WorkType]
  /\ noticed \in [Workers -> BOOLEAN]
  /\ timer \in [Workers -> Nat \union {Never}]
  /\ unnoticed \subseteq Workers
  /\ resends \in 0..MaxResends
  /\ faults \in 0..MaxFaults
  /\ stalls \in 0..MaxStalls
  /\ posts \in [Deliveries -> Nat]
  /\ lost \in [Deliveries -> Nat]
  /\ revived \in [Deliveries -> Nat]

NoRow == [state |-> "none", attempt |-> 0, wait |-> 0, lease |-> 0,
          leaseOf |-> Nobody, old |-> FALSE]

Idle == [pc |-> "idle", d |-> CHOOSE d \in Deliveries : TRUE, attempt |-> 0,
         age |-> 0, ok |-> FALSE]

Init ==
  /\ row = [d \in Deliveries |-> NoRow]
  /\ open \in BOOLEAN
  /\ work = [w \in Workers |-> Idle]
  /\ noticed = [w \in Workers |-> FALSE]
  /\ timer = [w \in Workers |-> Never]
  /\ unnoticed = {}
  /\ resends = 0
  /\ faults = 0
  /\ stalls = 0
  /\ posts = [d \in Deliveries |-> 0]
  /\ lost = [d \in Deliveries |-> 0]
  /\ revived = [d \in Deliveries |-> 0]

Goes(w, pc) == work' = [work EXCEPT ![w].pc = pc]

\* A run that ends keeps nothing.
Ends(w) == work' = [work EXCEPT ![w] = Idle]

(***************************************************************************)
(* The business: its taps, its owner and the operator.                     *)
(***************************************************************************)

\* The feed's trigger writes a delivery in the transaction of the event it
\* carries, for an open API and an endpoint that is on.  The process w served it.
Insert(w, d) ==
  /\ row[d].state = "none" /\ open
  /\ row' = [row EXCEPT ![d].state = "pending"]
  /\ unnoticed' = unnoticed \union {w}
  /\ UNCHANGED <<open, work, noticed, timer, resends, faults, stalls, history>>

\* The notice after the commit.
NoticeWork(w) ==
  /\ w \in unnoticed
  /\ unnoticed' = unnoticed \ {w}
  /\ noticed' = [noticed EXCEPT ![w] = TRUE]
  /\ UNCHANGED <<row, open, work, timer, resends, faults, stalls, history>>

\* Mutant: a live lease is no obstacle.
ResendableInFlight(d) ==
  /\ row[d].state \in {"pending", "dead"}
  /\ row[d].state = "dead" => ~row[d].old

\* What a resend may touch: neither delivered, nor past the retention, nor
\* under a live lease.
Resendable(d) ==
  /\ row[d].state \in {"pending", "dead"}
  /\ row[d].state = "dead" => ~row[d].old
  /\ row[d].lease = 0

\* Mutant: the delivery gets all its tries again.
ResendFromTheStart(w, d) ==
  /\ open /\ Resendable(d)
  /\ resends < MaxResends
  /\ resends' = resends + 1
  /\ row' = [row EXCEPT ![d] = [NoRow EXCEPT !.state = "pending"]]
  /\ revived' = IF row[d].state = "dead" THEN [revived EXCEPT ![d] = @ + 1] ELSE revived
  /\ unnoticed' = unnoticed \union {w}
  /\ UNCHANGED <<open, work, noticed, timer, faults, stalls, posts, lost>>

Resend(w, d) ==
  /\ open /\ Resendable(d)
  /\ resends < MaxResends
  /\ resends' = resends + 1
  /\ row' = [row EXCEPT ![d] = [@ EXCEPT !.state = "pending", !.wait = 0, !.lease = 0,
                                         !.leaseOf = Nobody, !.old = FALSE]]
  /\ revived' = IF row[d].state = "dead" THEN [revived EXCEPT ![d] = @ + 1] ELSE revived
  /\ unnoticed' = unnoticed \union {w}
  /\ UNCHANGED <<open, work, noticed, timer, faults, stalls, posts, lost>>

\* The operator opens or closes the API, the owner switches the endpoint.  An
\* opening is noticed after its commit.
SetGate(w) ==
  /\ open' = ~open
  /\ unnoticed' = IF open THEN unnoticed ELSE unnoticed \union {w}
  /\ UNCHANGED <<row, work, noticed, timer, resends, faults, stalls, history>>

\* Ninety days have passed since d settled.
Expire(d) ==
  /\ row[d].state \in Settled /\ ~row[d].old
  /\ row' = [row EXCEPT ![d].old = TRUE]
  /\ UNCHANGED <<open, work, noticed, timer, unnoticed, resends, faults, stalls, history>>

(***************************************************************************)
(* The job.                                                                *)
(***************************************************************************)

\* What a sweep may delete.
Sweepable == {d \in Deliveries : row[d].state \in Settled /\ row[d].old}

\* The worker hands the business over.  The sweep that opens the run deletes
\* any of the settled rows past the retention: all, a batch, or none when it
\* was swept within the hour, or fails.
RunFor(w) ==
  /\ work[w].pc = "idle" /\ noticed[w]
  /\ noticed' = [noticed EXCEPT ![w] = FALSE]
  /\ \E swept \in SUBSET Sweepable :
       row' = [d \in Deliveries |->
                 IF d \in swept THEN [NoRow EXCEPT !.state = "gone", !.attempt = row[d].attempt]
                 ELSE row[d]]
  /\ Goes(w, "run")
  /\ UNCHANGED <<open, timer, unnoticed, resends, faults, stalls, history>>

\* The worker keeps the earlier of its timer and the one asked for.
NoticeAfter(w, n) ==
  timer' = IF timer[w] = Never THEN [timer EXCEPT ![w] = n]
           ELSE IF n < timer[w] THEN [timer EXCEPT ![w] = n] ELSE timer

\* Pending, due and under no live lease.
Due == {d \in Deliveries : /\ row[d].state = "pending"
                           /\ row[d].wait = 0
                           /\ row[d].lease = 0}

\* The claim's transaction commits: the business's gates were open in it.
Claim(w, d) ==
  /\ work[w].pc = "run" /\ open
  /\ d \in Due
  /\ row' = [row EXCEPT ![d].lease = Lease, ![d].leaseOf = w]
  /\ work' = [work EXCEPT ![w] = [@ EXCEPT !.pc = "claimed", !.d = d,
                                           !.attempt = row[d].attempt, !.age = 0]]
  /\ UNCHANGED <<open, noticed, timer, unnoticed, resends, faults, stalls, history>>

\* Mutant: a business that is held waits for its next activity.
HeldForGood(w) ==
  /\ work[w].pc = "run" /\ ~open
  /\ Due # {}
  /\ Ends(w)
  /\ UNCHANGED <<row, open, noticed, timer, unnoticed, resends, faults, stalls, history>>

\* A gate is closed: the claim is rolled back and the run ends.
Held(w) ==
  /\ work[w].pc = "run" /\ ~open
  /\ Due # {}
  /\ NoticeAfter(w, Recheck)
  /\ Ends(w)
  /\ UNCHANGED <<row, open, noticed, unnoticed, resends, faults, stalls, history>>

NothingDue(w) ==
  /\ work[w].pc = "run" /\ Due = {}
  /\ Goes(w, "ask")
  /\ UNCHANGED <<row, open, noticed, timer, unnoticed, resends, faults, stalls, history>>

AtLeast(n, m) == IF n < m THEN m ELSE n

\* When a pending row may be claimed: its back-off and its lease are over.
DueIn(d) == AtLeast(row[d].wait, row[d].lease)

\* A transaction of its own: when the earliest pending row comes due, a second
\* from now at the soonest.
whenNext(w) ==
  /\ work[w].pc = "ask"
  /\ LET pending == {d \in Deliveries : row[d].state = "pending"}
     IN  IF pending = {} THEN timer' = timer
         ELSE \E d \in pending :
                /\ \A e \in pending : DueIn(d) <= DueIn(e)
                /\ NoticeAfter(w, AtLeast(DueIn(d), 1))
  /\ Ends(w)
  /\ UNCHANGED <<row, open, noticed, unnoticed, resends, faults, stalls, history>>

\* The request goes out, with no transaction open.
Post(w) ==
  /\ work[w].pc = "claimed"
  /\ posts' = [posts EXCEPT ![work[w].d] = @ + 1]
  /\ Goes(w, "posting")
  /\ UNCHANGED <<row, open, noticed, timer, unnoticed, resends, faults, stalls, lost, revived>>

\* The exchange ends, with 2xx or without.
Answer(w, ok) ==
  /\ work[w].pc = "posting"
  /\ work' = [work EXCEPT ![w] = [@ EXCEPT !.pc = "answered", !.ok = ok]]
  /\ UNCHANGED <<row, open, noticed, timer, unnoticed, resends, faults, stalls, history>>

\* What a try's answer makes of a row claimed with so many tries behind it.
Decide(attemptBefore, ok) ==
  LET tries == attemptBefore + 1
  IN  IF ok THEN [state |-> "delivered", delay |-> 0]
      ELSE IF tries >= MaxAttempts THEN [state |-> "dead", delay |-> 0]
      ELSE [state |-> "pending", delay |-> Backoff[tries]]

\* Mutant: the result's statement takes a pending row under whatever lease.
MineWhilePending(w) == row[work[w].d].state = "pending"

\* The row is still this worker's: pending, with the lease value of its claim.
Mine(w) == /\ row[work[w].d].state = "pending"
           /\ row[work[w].d].leaseOf = w

Recorded(r, result) ==
  [r EXCEPT !.attempt = @ + 1,
            !.state = result.state,
            !.wait = IF result.state = "pending" THEN result.delay ELSE @,
            !.lease = 0,
            !.leaseOf = Nobody]

\* Mutant: a run that has used its budget asks for no other turn.
RecordAndRest(w) ==
  /\ work[w].pc = "answered"
  /\ LET d == work[w].d
     IN  IF Mine(w)
         THEN /\ row' = [row EXCEPT ![d] = Recorded(@, Decide(work[w].attempt, work[w].ok))]
              /\ lost' = lost
         ELSE /\ lost' = [lost EXCEPT ![d] = @ + 1]
              /\ row' = row
  /\ \/ work' = [work EXCEPT ![w] = [Idle EXCEPT !.pc = "run"]]
     \/ Ends(w)
  /\ UNCHANGED <<open, noticed, timer, unnoticed, resends, faults, stalls, posts, revived>>

\* The result's transaction; it matches no row that is not this worker's.
\* After it the run goes on, or has used its budget and is noticed again at once.
Record(w) ==
  /\ work[w].pc = "answered"
  /\ LET d == work[w].d
     IN  IF Mine(w)
         THEN /\ row' = [row EXCEPT ![d] = Recorded(@, Decide(work[w].attempt, work[w].ok))]
              /\ lost' = lost
         ELSE /\ lost' = [lost EXCEPT ![d] = @ + 1]
              /\ row' = row
  /\ \/ work' = [work EXCEPT ![w] = [Idle EXCEPT !.pc = "run"]] /\ noticed' = noticed
     \/ Ends(w) /\ noticed' = [noticed EXCEPT ![w] = TRUE]
  /\ UNCHANGED <<open, timer, unnoticed, resends, faults, stalls, posts, revived>>

(***************************************************************************)
(* Time and faults.                                                        *)
(***************************************************************************)

Fire(w) ==
  /\ timer[w] = 0
  /\ timer' = [timer EXCEPT ![w] = Never]
  /\ noticed' = [noticed EXCEPT ![w] = TRUE]
  /\ UNCHANGED <<row, open, work, unnoticed, resends, faults, stalls, history>>

Down(n) == IF n > 0 THEN n - 1 ELSE 0

Busy(w) == work[w].pc \in {"claimed", "posting", "answered"}

\* A tick, while no claim is held for Hold ticks already.
Tick ==
  /\ \A w \in Workers : Busy(w) => work[w].age < Hold
  /\ row' = [d \in Deliveries |-> [row[d] EXCEPT !.wait = Down(@), !.lease = Down(@)]]
  /\ timer' = [w \in Workers |-> IF timer[w] = Never THEN Never ELSE Down(timer[w])]
  /\ work' = [w \in Workers |-> IF Busy(w) THEN [work[w] EXCEPT !.age = @ + 1] ELSE work[w]]
  /\ UNCHANGED <<open, noticed, unnoticed, resends, faults, stalls, history>>

\* A process stands still with a claim (it is suspended, or starved): its clocks
\* run once more from the start.
Stall(w) ==
  /\ Busy(w) /\ work[w].age = Hold
  /\ stalls < MaxStalls
  /\ stalls' = stalls + 1
  /\ work' = [work EXCEPT ![w].age = 0]
  /\ UNCHANGED <<row, open, noticed, timer, unnoticed, resends, faults, history>>

\* Requests of w whose result will never be recorded.
Abandons(w) ==
  lost' = IF work[w].pc \in {"posting", "answered"}
          THEN [lost EXCEPT ![work[w].d] = @ + 1] ELSE lost

\* A transaction of the run fails: the run ends with an error that names no due
\* time.  Its tenant runs again on its next activity.
RunFails(w) ==
  /\ work[w].pc \in {"run", "answered", "ask"}
  /\ faults < MaxFaults
  /\ faults' = faults + 1
  /\ Abandons(w)
  /\ Ends(w)
  /\ UNCHANGED <<row, open, noticed, timer, unnoticed, resends, stalls, posts, revived>>

\* A transaction commits and its answer is lost: the run ends with an error, but
\* the row is claimed, or holds the result.
CommitUnknown(w) ==
  /\ faults < MaxFaults
  /\ faults' = faults + 1
  /\ \/ /\ work[w].pc = "run" /\ open
        /\ \E d \in Due : row' = [row EXCEPT ![d].lease = Lease, ![d].leaseOf = w]
     \/ /\ work[w].pc = "answered" /\ Mine(w)
        /\ row' = [row EXCEPT ![work[w].d] = Recorded(@, Decide(work[w].attempt, work[w].ok))]
  /\ Ends(w)
  /\ UNCHANGED <<open, noticed, timer, unnoticed, resends, stalls, history>>

\* The process is shut down, or dies: a request in flight is abandoned, and what
\* the worker held in memory is gone.  The process that follows it starts empty.
Restart(w) ==
  /\ faults < MaxFaults
  /\ faults' = faults + 1
  /\ Abandons(w)
  /\ Ends(w)
  /\ noticed' = [noticed EXCEPT ![w] = FALSE]
  /\ timer' = [timer EXCEPT ![w] = Never]
  /\ unnoticed' = unnoticed \ {w}
  /\ UNCHANGED <<row, open, resends, stalls, posts, revived>>

JobStep(w) ==
  \/ RunFor(w)
  \/ \E d \in Deliveries : Claim(w, d)
  \/ Held(w)
  \/ NothingDue(w)
  \/ whenNext(w)
  \/ Post(w)
  \/ \E ok \in BOOLEAN : Answer(w, ok)
  \/ Record(w)

Next ==
  \/ \E w \in Workers :
       \/ \E d \in Deliveries : Insert(w, d) \/ Resend(w, d)
       \/ NoticeWork(w) \/ SetGate(w)
       \/ JobStep(w) \/ Fire(w) \/ RunFails(w) \/ CommitUnknown(w) \/ Stall(w) \/ Restart(w)
  \/ \E d \in Deliveries : Expire(d)
  \/ Tick

\* The loop, the timers, the clock and a handler that has committed go on; the
\* business, the owner, the operator and the faults need not.
Fairness ==
  /\ \A w \in Workers : WF_vars(JobStep(w)) /\ WF_vars(Fire(w)) /\ WF_vars(NoticeWork(w))
  /\ WF_vars(Tick)

SafeSpec == Init /\ [][Next]_vars
Spec == SafeSpec /\ Fairness

(***************************************************************************)
(* Properties.                                                             *)
(***************************************************************************)

\* While no process stalls, the lease outlives the exchange it covers: a delivery is sent by one
\* process at a time, whatever is resent, abandoned or restarted meanwhile
\* (ClaimWebhookDelivery, the resend's ErrInFlight).
OneRequestAtATime ==
  stalls = 0 =>
    \A v, w \in Workers : Busy(v) /\ Busy(w) /\ work[v].d = work[w].d => v = w

\* A delivered row stays so and a pending one is never swept: no late result,
\* resend or sweep takes back what the log has shown (the result is written
\* under the claim's lease).
LogIsKept ==
  [][\A d \in Deliveries :
       /\ row[d].state = "delivered" => row'[d].state \in {"delivered", "gone"}
       /\ row[d].state = "pending" => row'[d].state # "gone"]_vars

\* A delivery is tried MaxAttempts times and once more for every time the owner
\* revives it from the dead, even when results are recorded late.
TriesBounded ==
  \A d \in Deliveries : row[d].attempt <= MaxAttempts + revived[d]

\* Every request that was sent is one recorded try, one result that is known to
\* be lost, or still under way: no try is counted twice or for nothing.
EveryRequestAccounted ==
  \A d \in Deliveries :
    posts[d] = row[d].attempt + lost[d]
                 + Cardinality({w \in Workers : work[w].pc \in {"posting", "answered"}
                                                  /\ work[w].d = d})

\* Until a first fault, a pending delivery is on some process's mind: about to be
\* noticed, in a set, in a run, or waited for by a timer.
NeverForgotten ==
  faults = 0 =>
    \A d \in Deliveries : row[d].state = "pending" =>
      \E w \in Workers : \/ w \in unnoticed \/ noticed[w]
                         \/ work[w].pc # "idle" \/ timer[w] # Never

\* Without faults, and when the gates are open from some time on, every delivery
\* settles: it is delivered, or its tries are spent.
EverythingSettles ==
  <>[]open => \A d \in Deliveries :
                row[d].state = "pending" /\ faults = 0 ~>
                  row[d].state # "pending" \/ faults > 0
=============================================================================

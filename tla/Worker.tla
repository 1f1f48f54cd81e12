------------------------------- MODULE Worker -------------------------------
(***************************************************************************)
(* The webhook worker (src/internal/webhook/worker.go): a set of tenants   *)
(* with work, one loop that drains it, one timer per tenant for work that  *)
(* is due later, and a Drain at shutdown.                                  *)
(*                                                                         *)
(* A call under the mutex is one step; a send on the wake channel, the     *)
(* computation of a timer's instant and the cancelling of the context      *)
(* happen outside it and are steps of their own.  Times are relative to    *)
(* the present, so a clock that runs forever has finitely many states.     *)
(***************************************************************************)
EXTENDS Integers, Sequences, FiniteSets, Functions

CONSTANTS
  Tenants,     \* tenants that may be noticed
  Jobs,        \* how many jobs the worker has
  Delays,      \* the answers DueIn() of a job, in ticks; 0 is "at once"
  MaxLate,     \* bound: ticks the loop may wait for the mutex in noticeAfter
  MaxCallers,  \* bound: callers at one time between two steps of Notice
  NoTimer,     \* no timer in the map
  NoDue        \* no DueLater outstanding

ASSUME WorkerAssumption ==
  /\ Jobs \in Nat \ {0}
  /\ Delays \subseteq Nat
  /\ MaxLate \in Nat
  /\ MaxCallers \in Nat \ {0}
  /\ NoTimer \notin [at : Int, left : Nat]
  /\ NoDue \notin Int

VARIABLES
  pending,  \* w.pending
  order,    \* w.order: pending, in the order its tenants entered
  wake,     \* whether the wake channel (capacity 1) holds a token
  senders,  \* how many callers of Notice are past the mutex and have not sent
  timers,   \* w.timers: per tenant the instant it was set for and when it fires
  loose,    \* per tenant, timer functions that left the map and are to call Notice
  closed,   \* w.closed
  ctx,      \* whether the loop's context is done
  drain,    \* where the caller of Drain is
  pc,       \* where the loop is
  turn,     \* the rest of what take returned
  tenant,   \* the tenant the loop runs, or ran last
  job,      \* the place of its job
  ask,      \* noticeAfter's d and at
  due       \* history: the earliest DueLater of a tenant since it was last run

set     == <<pending, order>>
loopVars == <<pc, turn, tenant, job, ask>>
vars    == <<set, wake, senders, timers, loose, closed, ctx, drain, loopVars, due>>

Pcs == {"off", "select", "take", "next", "job", "run", "notice", "send", "arm", "done"}

Drains == {"none", "cancel", "wait", "drained", "gave up"}

Timer == [at : Int, left : Nat]

Asks == [d : Nat, at : Int]

\* The places of the jobs, and the one past the last.
Places == 1..(Jobs + 1)

\* The value of ask outside noticeAfter.
NoAsk == [d |-> 0, at |-> 0]

TypeOK ==
  /\ pending \subseteq Tenants
  /\ order \in Seq(Tenants)
  /\ wake \in BOOLEAN
  /\ senders \in 0..MaxCallers
  /\ timers \in [Tenants -> Timer \union {NoTimer}]
  /\ loose \in [Tenants -> Nat]
  /\ closed \in BOOLEAN
  /\ ctx \in BOOLEAN
  /\ drain \in Drains
  /\ pc \in Pcs
  /\ turn \in Seq(Tenants)
  /\ tenant \in Tenants
  /\ job \in Places
  /\ ask \in Asks
  /\ due \in [Tenants -> Int \union {NoDue}]

Init ==
  /\ pending = {}
  /\ order = <<>>
  /\ wake = FALSE
  /\ senders = 0
  /\ timers = [t \in Tenants |-> NoTimer]
  /\ loose = [t \in Tenants |-> 0]
  /\ closed = FALSE
  /\ ctx = FALSE
  /\ drain = "none"
  /\ pc = "off"
  /\ turn = <<>>
  /\ tenant \in Tenants
  /\ job = 1
  /\ ask = NoAsk
  /\ due = [t \in Tenants |-> NoDue]

(***************************************************************************)
(* Notice.                                                                 *)
(***************************************************************************)

\* Mutant: the tenant enters at the head.
EnterFirst(t) ==
  IF t \in pending
  THEN UNCHANGED set
  ELSE /\ pending' = pending \union {t}
       /\ order' = <<t>> \o order

\* The part under the mutex, of a worker that is not closed.
Enter(t) ==
  IF t \in pending
  THEN UNCHANGED set
  ELSE /\ pending' = pending \union {t}
       /\ order' = Append(order, t)

\* A request has recorded work of t.  After Drain the call changes nothing.
Notice(t) ==
  /\ ~closed
  /\ senders < MaxCallers
  /\ Enter(t)
  /\ senders' = senders + 1
  /\ UNCHANGED <<wake, timers, loose, closed, ctx, drain, loopVars, due>>

\* The non-blocking send: a token that is already there is enough.
Send ==
  /\ senders > 0
  /\ senders' = senders - 1
  /\ wake' = TRUE
  /\ UNCHANGED <<set, timers, loose, closed, ctx, drain, loopVars, due>>

(***************************************************************************)
(* The timers.                                                             *)
(***************************************************************************)

Down(n, floor) == IF n > floor THEN n - 1 ELSE floor

\* A tick.  An instant further in the past than MaxLate compares like MaxLate.
Tick ==
  /\ pc = "arm" => ask.at > -MaxLate
  /\ timers' = [t \in Tenants |->
                  IF timers[t] = NoTimer THEN NoTimer
                  ELSE [at |-> Down(timers[t].at, -MaxLate), left |-> Down(timers[t].left, 0)]]
  /\ ask' = IF pc = "arm" THEN [ask EXCEPT !.at = @ - 1] ELSE ask
  /\ due' = [t \in Tenants |-> IF due[t] = NoDue THEN NoDue ELSE Down(due[t], -MaxLate)]
  /\ UNCHANGED <<set, wake, senders, loose, closed, ctx, drain, pc, turn, tenant, job>>

\* Mutant: the timer's function only leaves the map.
FireSilently(t) ==
  /\ timers[t] # NoTimer /\ timers[t].left = 0
  /\ timers' = [timers EXCEPT ![t] = NoTimer]
  /\ UNCHANGED <<set, wake, senders, loose, closed, ctx, drain, loopVars, due>>

\* A timer's function leaves the map, then notices.
Fire(t) ==
  /\ timers[t] # NoTimer /\ timers[t].left = 0
  /\ loose[t] < MaxCallers
  /\ timers' = [timers EXCEPT ![t] = NoTimer]
  /\ loose' = [loose EXCEPT ![t] = @ + 1]
  /\ UNCHANGED <<set, wake, senders, closed, ctx, drain, loopVars, due>>

FiredNotice(t) ==
  /\ loose[t] > 0
  /\ loose' = [loose EXCEPT ![t] = @ - 1]
  /\ \/ closed /\ UNCHANGED <<set, senders>>
     \/ /\ ~closed
        /\ senders < MaxCallers
        /\ Enter(t)
        /\ senders' = senders + 1
  /\ UNCHANGED <<wake, timers, closed, ctx, drain, loopVars, due>>

(***************************************************************************)
(* The loop.                                                               *)
(***************************************************************************)

\* A second Start, or one after Drain, is an error.
Start ==
  /\ pc = "off" /\ ~closed
  /\ pc' = "select"
  /\ UNCHANGED <<set, wake, senders, timers, loose, closed, ctx, drain, turn, tenant, job, ask, due>>

\* The select over the context and the channel; with both ready either is taken.
SelectDone ==
  /\ pc = "select" /\ ctx
  /\ pc' = "done"
  /\ UNCHANGED <<set, wake, senders, timers, loose, closed, ctx, drain, turn, tenant, job, ask, due>>

SelectWake ==
  /\ pc = "select" /\ wake
  /\ wake' = FALSE
  /\ pc' = "take"
  /\ UNCHANGED <<set, senders, timers, loose, closed, ctx, drain, turn, tenant, job, ask, due>>

take ==
  /\ pc = "take"
  /\ turn' = order
  /\ order' = <<>>
  /\ pending' = {}
  /\ pc' = "next"
  /\ UNCHANGED <<wake, senders, timers, loose, closed, ctx, drain, tenant, job, ask, due>>

\* The next tenant of the turn.  A run answers anew what is due later.
NextTenant ==
  /\ pc = "next" /\ turn # <<>>
  /\ tenant' = Head(turn)
  /\ turn' = Tail(turn)
  /\ due' = [due EXCEPT ![Head(turn)] = NoDue]
  /\ pc' = "job"
  /\ UNCHANGED <<set, wake, senders, timers, loose, closed, ctx, drain, job, ask>>

\* Mutant: a token sent during the turn is thrown away after it.
TurnOverQuietly ==
  /\ pc = "next" /\ turn = <<>>
  /\ wake' = FALSE
  /\ pc' = "select"
  /\ UNCHANGED <<set, senders, timers, loose, closed, ctx, drain, turn, tenant, job, ask, due>>

TurnOver ==
  /\ pc = "next" /\ turn = <<>>
  /\ pc' = "select"
  /\ UNCHANGED <<set, wake, senders, timers, loose, closed, ctx, drain, turn, tenant, job, ask, due>>

\* The head of the loop over the jobs: none left, the context done, or a run.
BeginJob ==
  /\ pc = "job"
  /\ \/ job > Jobs /\ pc' = "next" /\ job' = 1
     \/ job <= Jobs /\ ctx /\ pc' = "done" /\ job' = job
     \/ job <= Jobs /\ ~ctx /\ pc' = "run" /\ job' = job
  /\ UNCHANGED <<set, wake, senders, timers, loose, closed, ctx, drain, turn, tenant, ask, due>>

\* RunFor ends well, cancelled or with an error that carries no DueLater.
JobEnds ==
  /\ pc = "run"
  /\ job' = job + 1
  /\ pc' = "job"
  /\ UNCHANGED <<set, wake, senders, timers, loose, closed, ctx, drain, turn, tenant, ask, due>>

Earliest(a, b) == IF a = NoDue THEN b ELSE IF a < b THEN a ELSE b

\* RunFor answers DueLater: at once, or at an instant taken before the mutex is.
JobAnswersLater(d) ==
  /\ pc = "run"
  /\ pc' = IF d = 0 THEN "notice" ELSE "arm"
  /\ ask' = IF d = 0 THEN NoAsk ELSE [d |-> d, at |-> d]
  /\ due' = [due EXCEPT ![tenant] = Earliest(@, d)]
  /\ UNCHANGED <<set, wake, senders, timers, loose, closed, ctx, drain, turn, tenant, job>>

\* noticeAfter with d = 0 is the loop's own call of Notice.
SelfNotice ==
  /\ pc = "notice"
  /\ \/ closed /\ UNCHANGED set /\ pc' = "job" /\ job' = job + 1
     \/ ~closed /\ Enter(tenant) /\ pc' = "send" /\ job' = job
  /\ UNCHANGED <<wake, senders, timers, loose, closed, ctx, drain, turn, tenant, ask, due>>

SelfSend ==
  /\ pc = "send"
  /\ wake' = TRUE
  /\ pc' = "job"
  /\ job' = job + 1
  /\ UNCHANGED <<set, senders, timers, loose, closed, ctx, drain, turn, tenant, ask, due>>

\* Mutants: a timer that waits is never moved; a closed worker sets one.
ArmsTheFirst == IF closed THEN FALSE ELSE timers[tenant] = NoTimer

ArmsWhenClosed == timers[tenant] # NoTimer => timers[tenant].at > ask.at

\* Whether noticeAfter sets a timer: the worker is open and no timer of the
\* tenant is due as early.
Arms == IF closed THEN FALSE
        ELSE timers[tenant] # NoTimer => timers[tenant].at > ask.at

\* noticeAfter under the mutex.  The timer runs d from here on.  Stop may come
\* too late for a timer that is due: its function then notices once more.
noticeAfter ==
  /\ pc = "arm"
  /\ timers' = IF Arms
               THEN [timers EXCEPT ![tenant] = [at |-> ask.at, left |-> ask.d]]
               ELSE timers
  /\ \/ loose' = loose
     \/ /\ Arms /\ timers[tenant] # NoTimer /\ timers[tenant].left = 0
        /\ loose[tenant] < MaxCallers
        /\ loose' = [loose EXCEPT ![tenant] = @ + 1]
  /\ pc' = "job"
  /\ job' = job + 1
  /\ ask' = NoAsk
  /\ UNCHANGED <<set, wake, senders, closed, ctx, drain, turn, tenant, due>>

(***************************************************************************)
(* Shutdown.                                                               *)
(***************************************************************************)

\* The process is told to stop: the context Start was given ends.
ContextEnds ==
  /\ ~ctx
  /\ ctx' = TRUE
  /\ UNCHANGED <<set, wake, senders, timers, loose, closed, drain, loopVars, due>>

\* Drain under the mutex.  A function Stop came too late for finds the worker
\* closed and does nothing, so it is left out.
Drain ==
  /\ ~closed
  /\ closed' = TRUE
  /\ timers' = [t \in Tenants |-> NoTimer]
  /\ drain' = IF pc = "off" THEN "drained" ELSE "cancel"
  /\ UNCHANGED <<set, wake, senders, loose, ctx, loopVars, due>>

DrainCancels ==
  /\ drain = "cancel"
  /\ ctx' = TRUE
  /\ drain' = "wait"
  /\ UNCHANGED <<set, wake, senders, timers, loose, closed, loopVars, due>>

\* The loop has returned, or the shutdown budget is spent.
DrainReturns ==
  /\ drain = "wait"
  /\ \/ pc = "done" /\ drain' = "drained"
     \/ drain' = "gave up"
  /\ UNCHANGED <<set, wake, senders, timers, loose, closed, ctx, loopVars, due>>

LoopStep ==
  \/ SelectDone \/ SelectWake \/ take \/ NextTenant \/ TurnOver \/ BeginJob
  \/ JobEnds \/ (\E d \in Delays : JobAnswersLater(d))
  \/ SelfNotice \/ SelfSend \/ noticeAfter

Next ==
  \/ \E t \in Tenants : Notice(t) \/ Fire(t) \/ FiredNotice(t)
  \/ Send
  \/ Tick
  \/ Start
  \/ LoopStep
  \/ ContextEnds
  \/ Drain
  \/ DrainCancels
  \/ DrainReturns

\* Every goroutine that can take a step takes one: the loop (a run ends, its
\* budget is 10 s), the callers past the mutex, the timers and the clock.  A
\* timer's function is disabled now and then by MaxCallers alone, never by the
\* code, whose mutex starves nobody: hence its strong fairness.  No fairness on
\* requests, on Start or on the shutdown.
Fairness ==
  /\ WF_vars(LoopStep)
  /\ WF_vars(Send)
  /\ WF_vars(Tick)
  /\ \A t \in Tenants : WF_vars(Fire(t)) /\ SF_vars(FiredNotice(t))

SafeSpec == Init /\ [][Next]_vars
Spec == SafeSpec /\ Fairness
(***************************************************************************)
(* Properties.                                                             *)
(***************************************************************************)

\* The set and the order hold the same tenants, each of them once: a tenant that
\* was in one and not in the other would be dropped by every later notice, or
\* be run for ever (Notice, take).
SetIsOrder ==
  /\ pending = Range(order)
  /\ \A i, j \in DOMAIN order : order[i] = order[j] => i = j

\* A tenant in the set of a worker that runs is never forgotten: a token is in
\* the channel, or a caller is between the mutex and its send, or the loop is
\* about to take the set (Notice, the select, take).
NoLostWakeup ==
  order # <<>> /\ ~closed /\ ~ctx =>
    wake \/ senders > 0 \/ pc \in {"take", "send"}

\* Work a job said is due later is not forgotten by an open worker: the one
\* timer of its tenant waits and was set for no later an instant, or the tenant
\* is already on its way to a run (noticeAfter, its timer function, Notice).
OnItsWay(t) ==
  \/ loose[t] > 0
  \/ t \in pending
  \/ t \in Range(turn)
  \/ tenant = t /\ pc \in {"notice", "arm"}

LaterIsKept ==
  \A t \in Tenants : due[t] # NoDue /\ ~closed =>
    \/ timers[t] # NoTimer /\ timers[t].at <= due[t]
    \/ OnItsWay(t)

\* After Drain no timer waits, and once it has returned well no job runs nor
\* will one (Drain, noticeAfter, Start).
QuietAfterDrain ==
  /\ closed => \A t \in Tenants : timers[t] = NoTimer
  /\ drain = "drained" => pc \in {"off", "done"}

\* The tenants the loop has yet to run are a queue served first come, first
\* served, with a tenant in it at most once for this turn and once for the next,
\* and served for as long as the worker runs (take's comment).
Queue == INSTANCE WorkQueue WITH
  queue     <- turn \o order,
  phase     <- IF pc = "off" THEN "built"
               ELSE IF ctx THEN "stopped" ELSE "serving",
  accepting <- ~closed

FirstComeFirstServed == Queue!Spec

\* Work that is due later is run again, without another notice and for every
\* sequence of answers, unless the worker is shut down (DueLater).
DueIsRun ==
  \A t \in Tenants : due[t] # NoDue ~> due[t] = NoDue \/ ctx \/ closed \/ pc = "off"
=============================================================================

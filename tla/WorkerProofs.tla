---------------------------- MODULE WorkerProofs ----------------------------
(***************************************************************************)
(* Theorems about Worker: its types, that no wake-up is lost, and that     *)
(* nothing waits or runs after Drain, for any tenants, jobs and delays.    *)
(***************************************************************************)
EXTENDS Worker, SequenceTheorems, FiniteSetTheorems, TLAPS

(***************************************************************************)
(* The types.                                                              *)
(***************************************************************************)

\* Notice's part under the mutex keeps the set and the order typed.
LEMMA EnterType ==
  ASSUME pending \subseteq Tenants, order \in Seq(Tenants), NEW t \in Tenants, Enter(t)
  PROVE  pending' \subseteq Tenants /\ order' \in Seq(Tenants)
BY DEF Enter, set

\* The constants the arithmetic uses are numbers.
LEMMA Numbers ==
  /\ Jobs \in Nat \ {0} /\ MaxLate \in Nat /\ MaxCallers \in Nat
  /\ Delays \subseteq Nat
BY WorkerAssumption

\* The empty ask has the type of one.
LEMMA NoAskType == NoAsk \in Asks
BY DEF NoAsk, Asks

\* The places of the loop that its steps assign, and the places of Drain's caller.
LEMMA PlacesOfTheLoop ==
  /\ "select" \in Pcs /\ "take" \in Pcs /\ "next" \in Pcs /\ "job" \in Pcs
  /\ "run" \in Pcs /\ "notice" \in Pcs /\ "send" \in Pcs /\ "arm" \in Pcs
  /\ "done" \in Pcs
  /\ "cancel" \in Drains /\ "wait" \in Drains /\ "drained" \in Drains
  /\ "gave up" \in Drains
BY DEF Pcs, Drains

\* The next job has a place while there is one to run.
LEMMA NextPlace ==
  ASSUME job \in Places
  PROVE  /\ 1 \in Places
         /\ job <= Jobs => job + 1 \in Places
BY Numbers DEF Places

\* The initial state has the types.
LEMMA TypeInit == Init => TypeOK
<1> SUFFICES ASSUME Init PROVE TypeOK
  OBVIOUS
<1>1. /\ "off" \in Pcs /\ "none" \in Drains
      /\ <<>> \in Seq(Tenants) /\ ask \in Asks
  BY NoAskType DEF Init, Pcs, Drains
<1>2. 1 \in Places /\ 0 \in 0..MaxCallers
  BY Numbers DEF Places
<1>3. /\ timers \in [Tenants -> Timer \union {NoTimer}]
      /\ loose \in [Tenants -> Nat]
      /\ due \in [Tenants -> Int \union {NoDue}]
  BY DEF Init
<1> QED
  BY <1>1, <1>2, <1>3 DEF Init, TypeOK

\* Every step of the environment, the callers and the timers keeps the types.
LEMMA TypeCallers ==
  ASSUME TypeOK, NEW t \in Tenants,
         Notice(t) \/ Fire(t) \/ FiredNotice(t) \/ Send
  PROVE  TypeOK'
<1>1. CASE Notice(t)
  <2>1. pending' \subseteq Tenants /\ order' \in Seq(Tenants)
    <3>1. pending \subseteq Tenants /\ order \in Seq(Tenants) /\ Enter(t)
      BY <1>1, Zenon DEF Notice, TypeOK
    <3> QED
      BY <3>1, EnterType
  <2>2. senders' \in 0..MaxCallers
    <3>1. senders \in 0..MaxCallers /\ senders < MaxCallers /\ senders' = senders + 1
      BY <1>1, Zenon DEF Notice, TypeOK
    <3> QED
      BY <3>1, Numbers
  <2> QED
    BY <1>1, <2>1, <2>2 DEF Notice, TypeOK, loopVars
<1>2. CASE Fire(t)
  BY <1>2 DEF Fire, TypeOK, set, loopVars
<1>3. CASE FiredNotice(t)
  <2>1. loose' \in [Tenants -> Nat]
    BY <1>3 DEF FiredNotice, TypeOK
  <2>2. pending' \subseteq Tenants /\ order' \in Seq(Tenants)
    <3>1. pending \subseteq Tenants /\ order \in Seq(Tenants)
      BY Zenon DEF TypeOK
    <3>2. Enter(t) \/ UNCHANGED set
      BY <1>3, Zenon DEF FiredNotice
    <3> QED
      BY <3>1, <3>2, EnterType DEF set
  <2>3. senders' \in 0..MaxCallers
    <3>1. senders \in 0..MaxCallers
      BY Zenon DEF TypeOK
    <3>2. senders' = senders \/ (senders < MaxCallers /\ senders' = senders + 1)
      BY <1>3, Zenon DEF FiredNotice
    <3> QED
      BY <3>1, <3>2, Numbers
  <2> QED
    BY <1>3, <2>1, <2>2, <2>3 DEF FiredNotice, TypeOK, loopVars
<1>4. CASE Send
  <2>1. senders' \in 0..MaxCallers
    <3>1. senders \in 0..MaxCallers /\ senders > 0 /\ senders' = senders - 1
      BY <1>4, Zenon DEF Send, TypeOK
    <3> QED
      BY <3>1, Numbers
  <2> QED
    BY <1>4, <2>1 DEF Send, TypeOK, set, loopVars
<1> QED
  BY <1>1, <1>2, <1>3, <1>4

\* A tick keeps the types.
LEMMA TypeTick ==
  ASSUME TypeOK, Tick
  PROVE  TypeOK'
<1>1. timers' \in [Tenants -> Timer \union {NoTimer}]
  <2>1. SUFFICES ASSUME NEW t \in Tenants
                 PROVE  (IF timers[t] = NoTimer THEN NoTimer
                         ELSE [at |-> Down(timers[t].at, -MaxLate),
                               left |-> Down(timers[t].left, 0)]) \in Timer \union {NoTimer}
    BY DEF Tick, TypeOK
  <2>2. CASE timers[t] = NoTimer
    BY <2>2
  <2>3. CASE timers[t] # NoTimer
    <3>1. timers[t].at \in Int /\ timers[t].left \in Nat
      BY <2>3 DEF TypeOK, Timer
    <3>2. Down(timers[t].at, -MaxLate) \in Int /\ Down(timers[t].left, 0) \in Nat
      BY <3>1, Numbers DEF Down
    <3> QED
      BY <2>3, <3>2 DEF Timer
  <2> QED
    BY <2>2, <2>3
<1>2. due' \in [Tenants -> Int \union {NoDue}]
  <2>1. SUFFICES ASSUME NEW t \in Tenants
                 PROVE  (IF due[t] = NoDue THEN NoDue
                         ELSE Down(due[t], -MaxLate)) \in Int \union {NoDue}
    BY DEF Tick, TypeOK
  <2>2. CASE due[t] = NoDue
    BY <2>2
  <2>3. CASE due[t] # NoDue
    <3>1. due[t] \in Int
      BY <2>3 DEF TypeOK
    <3> QED
      BY <2>3, <3>1, Numbers DEF Down
  <2> QED
    BY <2>2, <2>3
<1>3. ask' \in Asks
  <2>1. ask \in Asks /\ ask' = (IF pc = "arm" THEN [ask EXCEPT !.at = @ - 1] ELSE ask)
    BY Zenon DEF Tick, TypeOK
  <2> QED
    BY <2>1 DEF Asks
<1> QED
  BY <1>1, <1>2, <1>3 DEF Tick, TypeOK, set

\* A job runs only at a place that has one, so the place after it exists.
PlaceInv == pc \in {"run", "notice", "send", "arm"} => job <= Jobs

\* Every step of the loop keeps the types.
LEMMA TypeLoop ==
  ASSUME TypeOK, PlaceInv, LoopStep
  PROVE  TypeOK'
<1>1. CASE SelectDone
  BY <1>1, PlacesOfTheLoop DEF SelectDone, TypeOK, set
<1>2. CASE SelectWake
  BY <1>2, PlacesOfTheLoop DEF SelectWake, TypeOK, set
<1>3. CASE take
  <2>1. turn' \in Seq(Tenants) /\ order' \in Seq(Tenants) /\ pending' \subseteq Tenants
    <3>1. order \in Seq(Tenants) /\ turn' = order /\ order' = <<>> /\ pending' = {}
      BY <1>3, Zenon DEF take, TypeOK
    <3> QED
      BY <3>1
  <2> QED
    BY <1>3, <2>1, PlacesOfTheLoop DEF take, TypeOK
<1>4. CASE NextTenant
  <2>1. tenant' \in Tenants /\ turn' \in Seq(Tenants) /\ Head(turn) \in Tenants
    <3>1. /\ turn \in Seq(Tenants) /\ turn # <<>>
          /\ tenant' = Head(turn) /\ turn' = Tail(turn)
      BY <1>4, Zenon DEF NextTenant, TypeOK
    <3> QED
      BY <3>1
  <2>2. due' \in [Tenants -> Int \union {NoDue}]
    BY <1>4, <2>1 DEF NextTenant, TypeOK
  <2> QED
    BY <1>4, <2>1, <2>2, PlacesOfTheLoop DEF NextTenant, TypeOK, set
<1>5. CASE TurnOver
  BY <1>5, PlacesOfTheLoop DEF TurnOver, TypeOK, set
<1>6. CASE BeginJob
  <2>1. job' \in Places /\ pc' \in Pcs
    BY <1>6, NextPlace, PlacesOfTheLoop DEF BeginJob, TypeOK
  <2> QED
    BY <1>6, <2>1 DEF BeginJob, TypeOK, set
<1>7. CASE JobEnds
  <2>1. job' \in Places
    BY <1>7, NextPlace DEF JobEnds, TypeOK, PlaceInv
  <2> QED
    BY <1>7, <2>1, PlacesOfTheLoop DEF JobEnds, TypeOK, set
<1>8. ASSUME NEW d \in Delays, JobAnswersLater(d)
      PROVE  TypeOK'
  <2>1. d \in Nat
    BY Numbers
  <2>2. ask' \in Asks
    <3>1. [d |-> d, at |-> d] \in Asks
      BY <2>1 DEF Asks
    <3> QED
      BY <1>8, <3>1, NoAskType DEF JobAnswersLater
  <2>3. Earliest(due[tenant], d) \in Int \union {NoDue}
    <3>1. due[tenant] \in Int \union {NoDue}
      BY DEF TypeOK
    <3> QED
      BY <2>1, <3>1 DEF Earliest
  <2>4. due' \in [Tenants -> Int \union {NoDue}]
    BY <1>8, <2>3 DEF JobAnswersLater, TypeOK
  <2>5. pc' \in Pcs
    BY <1>8, PlacesOfTheLoop DEF JobAnswersLater
  <2> QED
    BY <1>8, <2>2, <2>4, <2>5 DEF JobAnswersLater, TypeOK, set
<1>9. CASE SelfNotice
  <2>1. pending' \subseteq Tenants /\ order' \in Seq(Tenants)
    BY <1>9, EnterType DEF SelfNotice, TypeOK, set
  <2>2. job' \in Places /\ pc' \in Pcs
    BY <1>9, NextPlace, PlacesOfTheLoop DEF SelfNotice, TypeOK, PlaceInv
  <2> QED
    BY <1>9, <2>1, <2>2 DEF SelfNotice, TypeOK
<1>10. CASE SelfSend
  <2>1. job' \in Places
    BY <1>10, NextPlace DEF SelfSend, TypeOK, PlaceInv
  <2> QED
    BY <1>10, <2>1, PlacesOfTheLoop DEF SelfSend, TypeOK, set
<1>11. CASE noticeAfter
  <2>1. job' \in Places
    BY <1>11, NextPlace DEF noticeAfter, TypeOK, PlaceInv
  <2>2. [at |-> ask.at, left |-> ask.d] \in Timer
    BY DEF TypeOK, Timer, Asks
  <2>3. timers' \in [Tenants -> Timer \union {NoTimer}]
    BY <1>11, <2>2 DEF noticeAfter, TypeOK
  <2>4. loose' \in [Tenants -> Nat]
    <3>1. loose \in [Tenants -> Nat] /\ tenant \in Tenants
      BY Zenon DEF TypeOK
    <3>2. loose' = loose \/ loose' = [loose EXCEPT ![tenant] = @ + 1]
      BY <1>11, Zenon DEF noticeAfter
    <3> QED
      BY <3>1, <3>2
  <2>5. ask' \in Asks
    BY <1>11, NoAskType DEF noticeAfter
  <2> QED
    BY <1>11, <2>1, <2>3, <2>4, <2>5, PlacesOfTheLoop DEF noticeAfter, TypeOK, set
<1> QED
  BY <1>1, <1>2, <1>3, <1>4, <1>5, <1>6, <1>7, <1>8, <1>9, <1>10, <1>11 DEF LoopStep

\* Starting and stopping keep the types.
LEMMA TypeShutdown ==
  ASSUME TypeOK, Start \/ ContextEnds \/ Drain \/ DrainCancels \/ DrainReturns
  PROVE  TypeOK'
<1>1. CASE Start
  BY <1>1, PlacesOfTheLoop DEF Start, TypeOK, set
<1>2. CASE ContextEnds
  BY <1>2 DEF ContextEnds, TypeOK, set, loopVars
<1>3. CASE Drain
  BY <1>3, PlacesOfTheLoop DEF Drain, TypeOK, set, loopVars
<1>4. CASE DrainCancels
  BY <1>4, PlacesOfTheLoop DEF DrainCancels, TypeOK, set, loopVars
<1>5. CASE DrainReturns
  BY <1>5, PlacesOfTheLoop DEF DrainReturns, TypeOK, set, loopVars
<1> QED
  BY <1>1, <1>2, <1>3, <1>4, <1>5

\* A step that leaves the loop alone, or takes it to a place without a job.
LEMMA PlaceKept ==
  ASSUME PlaceInv, UNCHANGED <<pc, job>> \/ pc' \in {"select", "take", "next", "job", "done"}
  PROVE  PlaceInv'
BY DEF PlaceInv

\* The loop reaches a run only with a job to run.
LEMMA PlaceNext ==
  ASSUME TypeOK, PlaceInv, [Next]_vars
  PROVE  PlaceInv'
<1>1. CASE UNCHANGED vars
  BY <1>1, PlaceKept DEF vars, loopVars
<1>2. ASSUME NEW t \in Tenants, Notice(t) \/ Fire(t) \/ FiredNotice(t)
      PROVE  PlaceInv'
  BY <1>2, PlaceKept DEF Notice, Fire, FiredNotice, loopVars
<1>3. CASE Send \/ Tick \/ ContextEnds \/ Drain \/ DrainCancels \/ DrainReturns
  BY <1>3, PlaceKept DEF Send, Tick, ContextEnds, Drain, DrainCancels, DrainReturns, loopVars
<1>4. CASE Start
  BY <1>4, PlaceKept DEF Start
<1>5. CASE SelectDone \/ SelectWake \/ take \/ NextTenant \/ TurnOver \/ JobEnds \/ SelfSend \/ noticeAfter
  BY <1>5, PlaceKept DEF SelectDone, SelectWake, take, NextTenant, TurnOver, JobEnds, SelfSend, noticeAfter
<1>6. CASE BeginJob
  BY <1>6 DEF BeginJob, PlaceInv
<1>7. ASSUME NEW d \in Delays, JobAnswersLater(d)
      PROVE  PlaceInv'
  BY <1>7 DEF JobAnswersLater, PlaceInv
<1>8. CASE SelfNotice
  BY <1>8 DEF SelfNotice, PlaceInv
<1> QED
  BY <1>1, <1>2, <1>3, <1>4, <1>5, <1>6, <1>7, <1>8 DEF Next, LoopStep

\* The typing invariant: the types, and that a job that runs has a place.
TypeInv == TypeOK /\ PlaceInv

\* Every step keeps the typing invariant.
LEMMA TypeNext == TypeInv /\ [Next]_vars => TypeInv'
<1> SUFFICES ASSUME TypeOK, PlaceInv, [Next]_vars
             PROVE  TypeOK' /\ PlaceInv'
  BY DEF TypeInv
<1>1. PlaceInv'
  BY PlaceNext
<1>2. CASE UNCHANGED vars
  BY <1>1, <1>2 DEF vars, set, loopVars, TypeOK
<1>3. ASSUME NEW t \in Tenants, Notice(t) \/ Fire(t) \/ FiredNotice(t)
      PROVE  TypeOK'
  BY <1>3, TypeCallers
<1>4. CASE Send
  <2>1. tenant \in Tenants
    BY Zenon DEF TypeOK
  <2> QED
    BY <1>1, <1>4, <2>1, TypeCallers
<1>5. CASE Tick
  BY <1>1, <1>5, TypeTick
<1>6. CASE LoopStep
  BY <1>1, <1>6, TypeLoop
<1>7. CASE Start \/ ContextEnds \/ Drain \/ DrainCancels \/ DrainReturns
  BY <1>1, <1>7, TypeShutdown
<1> QED
  BY <1>1, <1>2, <1>3, <1>4, <1>5, <1>6, <1>7 DEF Next

\* Every variable keeps its type, for any tenants, jobs and delays: job never
\* passes the last place but one (the loop over w.jobs).
THEOREM TypeCorrect == SafeSpec => []TypeOK
<1>1. Init => TypeInv
  BY TypeInit DEF TypeInv, PlaceInv, Init
<1>2. TypeInv => TypeOK
  BY DEF TypeInv
<1> QED
  BY <1>1, <1>2, TypeNext, PTL DEF SafeSpec

(***************************************************************************)
(* No wake-up is lost.                                                     *)
(***************************************************************************)

\* Notice's part under the mutex leaves the token alone; its caller comes to
\* stand before the send.  The loop consumes the token only on its way to take.
LEMMA WakeupNext ==
  ASSUME TypeOK, NoLostWakeup, [Next]_vars
  PROVE  NoLostWakeup'
<1>0. senders \in Nat /\ order \in Seq(Tenants)
  <2>1. senders \in 0..MaxCallers /\ order \in Seq(Tenants)
    BY Zenon DEF TypeOK
  <2> QED
    BY <2>1, Numbers
<1>1. CASE UNCHANGED vars
  BY <1>1 DEF vars, set, loopVars, NoLostWakeup
<1>2. ASSUME NEW t \in Tenants, Notice(t)
      PROVE  NoLostWakeup'
  BY <1>0, <1>2 DEF Notice, loopVars, NoLostWakeup
<1>3. ASSUME NEW t \in Tenants, FiredNotice(t)
      PROVE  NoLostWakeup'
  BY <1>0, <1>3 DEF FiredNotice, set, loopVars, NoLostWakeup
<1>4. ASSUME NEW t \in Tenants, Fire(t)
      PROVE  NoLostWakeup'
  BY <1>4 DEF Fire, set, loopVars, NoLostWakeup
<1>5. CASE Send \/ SelfSend
  BY <1>5 DEF Send, SelfSend, NoLostWakeup
<1>6. CASE Tick \/ Start \/ ContextEnds \/ Drain \/ DrainCancels \/ DrainReturns
  BY <1>6 DEF Tick, Start, ContextEnds, Drain, DrainCancels, DrainReturns, set, loopVars, NoLostWakeup
<1>7. CASE SelectDone \/ SelectWake \/ NextTenant \/ TurnOver \/ BeginJob \/ JobEnds \/ noticeAfter
  BY <1>7 DEF SelectDone, SelectWake, NextTenant, TurnOver, BeginJob, JobEnds, noticeAfter,
              set, NoLostWakeup
<1>8. CASE take
  BY <1>8 DEF take, NoLostWakeup
<1>9. ASSUME NEW d \in Delays, JobAnswersLater(d)
      PROVE  NoLostWakeup'
  BY <1>9 DEF JobAnswersLater, set, NoLostWakeup
<1>10. CASE SelfNotice
  BY <1>10 DEF SelfNotice, set, NoLostWakeup
<1> QED
  BY <1>1, <1>2, <1>3, <1>4, <1>5, <1>6, <1>7, <1>8, <1>9, <1>10 DEF Next, LoopStep

\* A tenant in the set of a running worker is never forgotten, for any number
\* of tenants, jobs and callers (Notice's send outside the mutex, the select).
THEOREM WakeupsKept == SafeSpec => []NoLostWakeup
<1>1. Init => TypeInv /\ NoLostWakeup
  BY TypeInit DEF TypeInv, PlaceInv, NoLostWakeup, Init
<1>2. TypeInv /\ NoLostWakeup /\ [Next]_vars => TypeInv' /\ NoLostWakeup'
  BY TypeNext, WakeupNext DEF TypeInv
<1> QED
  BY <1>1, <1>2, PTL DEF SafeSpec

(***************************************************************************)
(* The set and the order.                                                  *)
(***************************************************************************)

\* Notice's part under the mutex appends a tenant to the order when, and only
\* when, it adds it to the set.
LEMMA EnterKeepsOrder ==
  ASSUME TypeOK, SetIsOrder, NEW t \in Tenants, Enter(t)
  PROVE  SetIsOrder'
<1>0. order \in Seq(Tenants)
  BY Zenon DEF TypeOK
<1>1. CASE t \in pending
  BY <1>1 DEF Enter, set, SetIsOrder, Range
<1>2. CASE t \notin pending
  <2>1. /\ pending' = pending \union {t} /\ order' = Append(order, t)
        /\ pending = {order[i] : i \in DOMAIN order}
        /\ \A i, j \in DOMAIN order : order[i] = order[j] => i = j
    BY <1>2 DEF Enter, SetIsOrder, Range
  <2>2. /\ DOMAIN order = 1..Len(order) /\ Len(order) \in Nat
        /\ DOMAIN order' = 1..(Len(order) + 1)
        /\ \A i \in 1..Len(order) : order'[i] = order[i]
        /\ order'[Len(order) + 1] = t
    BY <1>0, <2>1
  <2>3. pending' = {order'[i] : i \in DOMAIN order'}
    BY <2>1, <2>2
  <2>4. \A i, j \in DOMAIN order' : order'[i] = order'[j] => i = j
    BY <1>2, <2>1, <2>2
  <2> QED
    BY <2>3, <2>4 DEF SetIsOrder, Range
<1> QED
  BY <1>1, <1>2

\* Only Notice and take touch the set and the order.
LEMMA OrderNext ==
  ASSUME TypeOK, SetIsOrder, [Next]_vars
  PROVE  SetIsOrder'
<1>1. CASE UNCHANGED set
  BY <1>1 DEF set, SetIsOrder, Range
<1>2. ASSUME NEW t \in Tenants, Enter(t)
      PROVE  SetIsOrder'
  BY <1>2, EnterKeepsOrder
<1>3. CASE take
  BY <1>3 DEF take, SetIsOrder, Range
<1>4. ASSUME NEW t \in Tenants, Notice(t) \/ Fire(t) \/ FiredNotice(t)
      PROVE  UNCHANGED set \/ Enter(t)
  BY <1>4, Zenon DEF Notice, Fire, FiredNotice
<1>5. CASE SelfNotice
  <2>1. tenant \in Tenants
    BY Zenon DEF TypeOK
  <2>2. UNCHANGED set \/ Enter(tenant)
    BY <1>5, Zenon DEF SelfNotice
  <2> QED
    BY <1>1, <1>2, <2>1, <2>2
<1>6. CASE UNCHANGED vars \/ Send \/ Tick \/ Start \/ ContextEnds \/ Drain \/ DrainCancels \/ DrainReturns
  BY <1>6 DEF vars, set, Send, Tick, Start, ContextEnds, Drain, DrainCancels, DrainReturns,
              SetIsOrder, Range
<1>7. CASE SelectDone \/ SelectWake \/ NextTenant \/ TurnOver \/ BeginJob \/ JobEnds \/ SelfSend \/ noticeAfter
  BY <1>1, <1>7 DEF SelectDone, SelectWake, NextTenant, TurnOver, BeginJob, JobEnds, SelfSend, noticeAfter
<1>8. ASSUME NEW d \in Delays, JobAnswersLater(d)
      PROVE  SetIsOrder'
  BY <1>1, <1>8 DEF JobAnswersLater
<1> QED
  BY <1>1, <1>2, <1>3, <1>4, <1>5, <1>6, <1>7, <1>8 DEF Next, LoopStep

\* The set and the order hold the same tenants, each once, whatever calls meet
\* (Notice, take).
THEOREM SetAndOrderAgree == SafeSpec => []SetIsOrder
<1>1. Init => TypeInv /\ SetIsOrder
  BY TypeInit DEF TypeInv, PlaceInv, SetIsOrder, Init, Range
<1>2. TypeInv /\ SetIsOrder /\ [Next]_vars => TypeInv' /\ SetIsOrder'
  BY TypeNext, OrderNext DEF TypeInv
<1> QED
  BY <1>1, <1>2, PTL DEF SafeSpec

(***************************************************************************)
(* Drain.                                                                  *)
(***************************************************************************)

\* Only a closed worker has been drained, so Start finds it closed.
DrainInv == QuietAfterDrain /\ (drain # "none" => closed)

\* No step after Drain's mutex sets a timer or starts the loop.
LEMMA DrainNext ==
  ASSUME DrainInv, [Next]_vars
  PROVE  DrainInv'
<1>1. CASE UNCHANGED <<timers, closed, drain, pc>>
  BY <1>1 DEF DrainInv, QuietAfterDrain
<1>2. ASSUME NEW t \in Tenants, Notice(t) \/ FiredNotice(t)
      PROVE  DrainInv'
  BY <1>1, <1>2 DEF Notice, FiredNotice, loopVars
<1>3. ASSUME NEW t \in Tenants, Fire(t)
      PROVE  DrainInv'
  BY <1>3 DEF Fire, loopVars, DrainInv, QuietAfterDrain
<1>4. CASE UNCHANGED vars \/ Send \/ ContextEnds
  BY <1>1, <1>4 DEF vars, Send, ContextEnds, loopVars
<1>5. CASE Tick
  <2>1. \A t \in Tenants : timers[t] = NoTimer => timers'[t] = NoTimer
    BY <1>5 DEF Tick
  <2>2. UNCHANGED <<closed, drain, pc>>
    BY <1>5 DEF Tick
  <2> QED
    BY <2>1, <2>2 DEF DrainInv, QuietAfterDrain
<1>6. CASE Start
  BY <1>6 DEF Start, DrainInv, QuietAfterDrain
<1>7. CASE DrainCancels
  BY <1>7 DEF DrainCancels, loopVars, DrainInv, QuietAfterDrain
<1>8. CASE DrainReturns
  BY <1>8 DEF DrainReturns, loopVars, DrainInv, QuietAfterDrain
<1>9. CASE Drain
  BY <1>9 DEF Drain, loopVars, DrainInv, QuietAfterDrain
<1>10. CASE LoopStep
  <2>1. CASE UNCHANGED <<timers, closed, drain>> /\ pc \notin {"off", "done"}
    BY <2>1 DEF DrainInv, QuietAfterDrain
  <2>2. CASE noticeAfter
    <3>1. closed => timers' = timers
      BY <2>2 DEF noticeAfter, Arms
    <3>2. UNCHANGED <<closed, drain>> /\ pc = "arm"
      BY <2>2 DEF noticeAfter
    <3> QED
      BY <3>1, <3>2 DEF DrainInv, QuietAfterDrain
  <2>3. CASE SelectDone \/ SelectWake \/ take \/ NextTenant \/ TurnOver \/ BeginJob
    BY <2>1, <2>3 DEF SelectDone, SelectWake, take, NextTenant, TurnOver, BeginJob
  <2>4. CASE JobEnds \/ SelfNotice \/ SelfSend
    BY <2>1, <2>4 DEF JobEnds, SelfNotice, SelfSend
  <2>5. ASSUME NEW d \in Delays, JobAnswersLater(d)
        PROVE  DrainInv'
    BY <2>1, <2>5 DEF JobAnswersLater
  <2> QED
    BY <1>10, <2>2, <2>3, <2>4, <2>5 DEF LoopStep
<1> QED
  BY <1>2, <1>3, <1>4, <1>5, <1>6, <1>7, <1>8, <1>9, <1>10 DEF Next

\* After Drain no timer waits, and once it has returned well no job runs,
\* whatever was under way (Drain, noticeAfter, Start).
THEOREM DrainIsQuiet == SafeSpec => []QuietAfterDrain
<1>1. Init => DrainInv
  BY DEF Init, DrainInv, QuietAfterDrain
<1>2. DrainInv => QuietAfterDrain
  BY DEF DrainInv
<1> QED
  BY <1>1, <1>2, DrainNext, PTL DEF SafeSpec

(***************************************************************************)
(* Work that is due later.                                                 *)
(***************************************************************************)

\* The timer of t that waits was set for no later than the work is due.
Armed(t) == timers[t] # NoTimer /\ timers[t].at <= due[t]

\* t is on its way to a run by other hands than the loop's at this place.
Handed(t) == loose[t] > 0 \/ t \in pending \/ t \in Range(turn)

\* A turn is over before the next is taken and has a tenant once; the instant
\* noticeAfter is about to set is as early as the work is due, unless the work
\* is taken care of: of two answers in one run the earlier may have come first.
TurnInv ==
  /\ pc \in {"off", "select", "take"} => turn = <<>>
  /\ \A i, j \in DOMAIN turn : turn[i] = turn[j] => i = j

AskInv ==
  pc = "arm" /\ due[tenant] # NoDue /\ ~closed =>
    ask.at <= due[tenant] \/ Armed(tenant) \/ Handed(tenant)

LaterInv == TypeInv /\ SetIsOrder /\ TurnInv /\ AskInv /\ LaterIsKept

\* A turn begins empty, is the order take found, and is run from its head.
LEMMA TurnNext ==
  ASSUME TypeOK, SetIsOrder, TurnInv, [Next]_vars
  PROVE  TurnInv'
<1>0. turn \in Seq(Tenants) /\ order \in Seq(Tenants)
  BY Zenon DEF TypeOK
<1>1. CASE UNCHANGED <<turn, pc>>
  BY <1>1 DEF TurnInv
<1>2. CASE UNCHANGED turn /\ pc' \notin {"off", "select", "take"}
  BY <1>2 DEF TurnInv
<1>3. CASE take
  BY <1>0, <1>3 DEF take, TurnInv, SetIsOrder
<1>4. CASE NextTenant
  <2>1. /\ turn # <<>> /\ turn' = Tail(turn) /\ pc' = "job"
        /\ \A i, j \in DOMAIN turn : turn[i] = turn[j] => i = j
    BY <1>4 DEF NextTenant, TurnInv
  <2>2. /\ Len(turn) \in Nat /\ Len(turn) > 0
        /\ DOMAIN turn = 1..Len(turn) /\ DOMAIN turn' = 1..(Len(turn) - 1)
        /\ \A i \in 1..(Len(turn) - 1) : turn'[i] = turn[i + 1]
    BY <1>0, <2>1
  <2>3. \A i, j \in DOMAIN turn' : turn'[i] = turn'[j] => i = j
    BY <2>1, <2>2
  <2> QED
    BY <2>1, <2>3 DEF TurnInv
<1>5. CASE Start \/ SelectWake \/ TurnOver
  BY <1>5 DEF Start, SelectWake, TurnOver, TurnInv
<1>6. CASE SelectDone \/ BeginJob \/ JobEnds \/ SelfNotice \/ SelfSend \/ noticeAfter
  BY <1>2, <1>6 DEF SelectDone, BeginJob, JobEnds, SelfNotice, SelfSend, noticeAfter
<1>7. ASSUME NEW d \in Delays, JobAnswersLater(d) PROVE TurnInv'
  BY <1>2, <1>7 DEF JobAnswersLater
<1>8. ASSUME NEW t \in Tenants, Notice(t) \/ Fire(t) \/ FiredNotice(t) PROVE TurnInv'
  BY <1>1, <1>8 DEF Notice, Fire, FiredNotice, loopVars
<1>9. CASE UNCHANGED vars \/ Send \/ Tick \/ ContextEnds \/ Drain \/ DrainCancels \/ DrainReturns
  BY <1>1, <1>9 DEF vars, Send, Tick, ContextEnds, Drain, DrainCancels, DrainReturns, loopVars
<1> QED
  BY <1>3, <1>4, <1>5, <1>6, <1>7, <1>8, <1>9 DEF Next, LoopStep

\* LaterIsKept and AskInv, of one tenant.
Kept(t) ==
  due[t] # NoDue /\ ~closed =>
    \/ Armed(t) \/ Handed(t)
    \/ tenant = t /\ pc = "notice"
    \/ tenant = t /\ pc = "arm" /\ ask.at <= due[t]

\* The two invariants say Kept of every tenant.
LEMMA KeptIs ==
  ASSUME TypeOK
  PROVE  LaterIsKept /\ AskInv <=> \A t \in Tenants : Kept(t)
<1>1. tenant \in Tenants
  BY Zenon DEF TypeOK
<1> QED
  BY <1>1 DEF LaterIsKept, AskInv, Kept, Armed, Handed, OnItsWay

\* ... and after a step.
LEMMA KeptIsNext ==
  ASSUME TypeOK', \A t \in Tenants : Kept(t)'
  PROVE  LaterIsKept' /\ AskInv'
<1>1. tenant' \in Tenants
  BY Zenon DEF TypeOK
<1> QED
  BY <1>1 DEF LaterIsKept, AskInv, Kept, Armed, Handed, OnItsWay

\* Notice's part under the mutex takes nobody out of the set and puts t in.
LEMMA EnterAdds ==
  ASSUME NEW t, Enter(t)
  PROVE  t \in pending' /\ pending \subseteq pending'
BY DEF Enter, set

\* A tick brings an instant and the one that is no later no further apart than
\* they were in order.
LEMMA DownKeepsOrder ==
  ASSUME NEW a \in Int, NEW b \in Int, NEW f \in Int, a <= b
  PROVE  Down(a, f) <= Down(b, f) /\ Down(a, f) \in Int /\ Down(b, f) \in Int
BY DEF Down

\* The callers, the timers and the clock keep every tenant's later work.
LEMMA KeptByCallers ==
  ASSUME TypeOK, NEW t \in Tenants, Kept(t),
         \/ \E u \in Tenants : Notice(u) \/ Fire(u) \/ FiredNotice(u)
         \/ Send \/ Start \/ ContextEnds \/ Drain \/ DrainCancels \/ DrainReturns
  PROVE  Kept(t)'
<1>0. loose[t] \in Nat
  BY DEF TypeOK
<1>1. ASSUME NEW u \in Tenants, Notice(u) PROVE Kept(t)'
  <2>1. pending \subseteq pending'
    BY <1>1, EnterAdds DEF Notice
  <2>2. UNCHANGED <<due, closed, timers, loose, turn, tenant, pc, ask>>
    BY <1>1 DEF Notice, loopVars
  <2> QED
    BY <2>1, <2>2 DEF Kept, Armed, Handed
<1>2. ASSUME NEW u \in Tenants, Fire(u) PROVE Kept(t)'
  <2>1. UNCHANGED <<due, closed, pending, turn, tenant, pc, ask>>
    BY <1>2 DEF Fire, set, loopVars
  <2>2. CASE u = t
    <3>1. loose'[t] > 0
      BY <1>0, <1>2, <2>2 DEF Fire, TypeOK
    <3> QED
      BY <3>1 DEF Kept, Handed
  <2>3. CASE u # t
    <3>1. timers'[t] = timers[t] /\ loose'[t] = loose[t]
      BY <1>2, <2>3 DEF Fire, TypeOK
    <3> QED
      BY <2>1, <3>1 DEF Kept, Armed, Handed
  <2> QED
    BY <2>2, <2>3
<1>3. ASSUME NEW u \in Tenants, FiredNotice(u) PROVE Kept(t)'
  <2>1. UNCHANGED <<due, closed, timers, turn, tenant, pc, ask>>
    BY <1>3 DEF FiredNotice, loopVars
  <2>2. CASE closed
    BY <2>1, <2>2 DEF Kept
  <2>3. CASE ~closed
    <3>1. u \in pending' /\ pending \subseteq pending'
      BY <1>3, <2>3, EnterAdds DEF FiredNotice
    <3>2. u # t => loose'[t] = loose[t]
      BY <1>3 DEF FiredNotice, TypeOK
    <3> QED
      BY <2>1, <3>1, <3>2 DEF Kept, Armed, Handed
  <2> QED
    BY <2>2, <2>3
<1>4. CASE Send \/ ContextEnds \/ DrainCancels \/ DrainReturns
  BY <1>4 DEF Send, ContextEnds, DrainCancels, DrainReturns, set, loopVars,
              Kept, Armed, Handed
<1>5. CASE Start
  BY <1>5 DEF Start, set, Kept, Armed, Handed
<1>6. CASE Drain
  BY <1>6 DEF Drain, Kept
<1> QED
  BY <1>1, <1>2, <1>3, <1>4, <1>5, <1>6

\* A tick keeps every timer in time.
LEMMA KeptByTick ==
  ASSUME TypeOK, NEW t \in Tenants, Kept(t), Tick
  PROVE  Kept(t)'
<1>0. /\ due[t] \in Int \union {NoDue} /\ NoDue \notin Int /\ MaxLate \in Nat
      /\ timers[t] \in Timer \union {NoTimer} /\ NoTimer \notin Timer
      /\ ask.at \in Int
  BY WorkerAssumption DEF TypeOK, Timer, Asks
<1>1. UNCHANGED <<pending, loose, closed, pc, turn, tenant>>
  BY DEF Tick, set
<1>2. due'[t] = IF due[t] = NoDue THEN NoDue ELSE Down(due[t], -MaxLate)
  BY DEF Tick
<1>3. CASE due[t] = NoDue
  BY <1>2, <1>3 DEF Kept
<1>4. CASE due[t] # NoDue /\ Armed(t)
  <2>1. timers[t].at \in Int /\ timers[t].left \in Nat
    BY <1>0, <1>4 DEF Armed, Timer
  <2>2. timers'[t] = [at |-> Down(timers[t].at, -MaxLate), left |-> Down(timers[t].left, 0)]
    BY <1>4 DEF Armed, Tick
  <2>3. Down(timers[t].left, 0) \in Nat
    BY <2>1 DEF Down
  <2>4. /\ Down(timers[t].at, -MaxLate) <= Down(due[t], -MaxLate)
        /\ Down(timers[t].at, -MaxLate) \in Int
    <3>1. due[t] \in Int /\ -MaxLate \in Int /\ timers[t].at <= due[t]
      BY <1>0, <1>4 DEF Armed
    <3> QED
      BY <2>1, <3>1, DownKeepsOrder
  <2>5. timers'[t] # NoTimer /\ timers'[t].at <= due'[t]
    BY <1>0, <1>2, <1>4, <2>2, <2>3, <2>4 DEF Timer
  <2> QED
    BY <2>5 DEF Kept, Armed
<1>5. CASE due[t] # NoDue /\ tenant = t /\ pc = "arm" /\ ask.at <= due[t]
  <2>1. ask'.at = ask.at - 1 /\ ask.at > -MaxLate
    BY <1>0, <1>5 DEF Tick, TypeOK, Asks
  <2>2. ask'.at <= due'[t]
    BY <1>0, <1>2, <1>5, <2>1 DEF Down
  <2> QED
    BY <1>1, <1>5, <2>2 DEF Kept, Armed, Handed
<1>6. CASE due[t] # NoDue /\ ~Armed(t) /\ ~(tenant = t /\ pc = "arm" /\ ask.at <= due[t])
  BY <1>1, <1>6 DEF Kept, Handed
<1> QED
  BY <1>3, <1>4, <1>5, <1>6

\* So does every step of the loop.
LEMMA KeptByLoop ==
  ASSUME TypeOK, SetIsOrder, TurnInv, NEW t \in Tenants, Kept(t), LoopStep
  PROVE  Kept(t)'
<1>0. /\ due[t] \in Int \union {NoDue} /\ NoDue \notin Int /\ loose[t] \in Nat
      /\ turn \in Seq(Tenants) /\ tenant \in Tenants /\ ask.at \in Int
      /\ timers[t] \in Timer \union {NoTimer} /\ NoTimer \notin Timer
  BY WorkerAssumption DEF TypeOK, Timer, Asks
<1>1. CASE UNCHANGED <<due, closed, timers, loose, pending, turn, tenant>>
           /\ pc \notin {"notice", "arm"}
  BY <1>1 DEF Kept, Armed, Handed
<1>2. CASE SelectDone \/ SelectWake \/ TurnOver \/ BeginJob \/ JobEnds \/ SelfSend
  BY <1>1, <1>2 DEF SelectDone, SelectWake, TurnOver, BeginJob, JobEnds, SelfSend, set
<1>3. CASE take
  <2>1. turn = <<>> /\ turn' = order /\ pending = Range(order)
    BY <1>3 DEF take, TurnInv, SetIsOrder
  <2>2. t \in Range(turn) \/ t \in pending => t \in Range(turn')
    BY <2>1 DEF Range
  <2> QED
    BY <1>3, <2>2 DEF take, Kept, Armed, Handed
<1>4. CASE NextTenant
  <2>1. /\ turn # <<>> /\ turn' = Tail(turn)
        /\ due' = [due EXCEPT ![Head(turn)] = NoDue]
        /\ UNCHANGED <<closed, timers, loose, pending>> /\ pc = "next"
    BY <1>4 DEF NextTenant, set
  <2>2. CASE t = Head(turn)
    <3>1. due'[t] = NoDue
      BY <2>1, <2>2 DEF TypeOK
    <3> QED
      BY <3>1 DEF Kept
  <2>3. CASE t # Head(turn)
    <3>1. due'[t] = due[t]
      BY <2>1, <2>3 DEF TypeOK
    <3>2. t \in Range(turn) => t \in Range(turn')
      <4>1. /\ Len(turn) \in Nat /\ DOMAIN turn = 1..Len(turn)
            /\ DOMAIN turn' = 1..(Len(turn) - 1) /\ Head(turn) = turn[1]
            /\ \A i \in 1..(Len(turn) - 1) : turn'[i] = turn[i + 1]
        BY <1>0, <2>1
      <4>2. ASSUME NEW i \in DOMAIN turn, turn[i] = t PROVE t \in Range(turn')
        <5>1. i - 1 \in DOMAIN turn' /\ turn'[i - 1] = t
          BY <2>3, <4>1, <4>2
        <5> QED
          BY <5>1 DEF Range
      <4> QED
        BY <4>2 DEF Range
    <3> QED
      BY <2>1, <3>1, <3>2 DEF Kept, Armed, Handed
  <2> QED
    BY <2>2, <2>3
<1>5. ASSUME NEW d \in Delays, JobAnswersLater(d) PROVE Kept(t)'
  <2>1. /\ UNCHANGED <<closed, timers, loose, pending, turn, tenant>> /\ pc = "run"
        /\ due' = [due EXCEPT ![tenant] = Earliest(@, d)]
        /\ d \in Nat
    BY <1>5, Numbers DEF JobAnswersLater, set
  <2>2. CASE t # tenant
    <3>1. due'[t] = due[t]
      BY <2>1, <2>2 DEF TypeOK
    <3> QED
      BY <2>1, <2>2, <3>1 DEF Kept, Armed, Handed
  <2>3. CASE t = tenant /\ d = 0
    BY <1>5, <2>1, <2>3 DEF JobAnswersLater, Kept
  <2>4. CASE t = tenant /\ d # 0
    <3>1. pc' = "arm" /\ ask'.at = d
      BY <1>5, <2>4 DEF JobAnswersLater
    <3>2. due'[t] = Earliest(due[t], d)
      BY <2>1, <2>4 DEF TypeOK
    <3>3. CASE due[t] = NoDue \/ d <= due[t]
      <4>1. due'[t] = d
        BY <1>0, <2>1, <3>2, <3>3 DEF Earliest
      <4> QED
        BY <2>1, <2>4, <3>1, <4>1 DEF Kept
    <3>4. CASE due[t] # NoDue /\ ~(d <= due[t])
      <4>1. due'[t] = due[t]
        BY <1>0, <2>1, <3>2, <3>4 DEF Earliest
      <4> QED
        BY <2>1, <3>4, <4>1 DEF Kept, Armed, Handed
    <3> QED
      BY <3>3, <3>4
  <2> QED
    BY <2>2, <2>3, <2>4
<1>6. CASE SelfNotice
  <2>1. UNCHANGED <<due, closed, timers, loose, turn, tenant>> /\ pc = "notice"
    BY <1>6 DEF SelfNotice
  <2>2. ~closed => tenant \in pending' /\ pending \subseteq pending'
    BY <1>6, EnterAdds DEF SelfNotice
  <2> QED
    BY <2>1, <2>2 DEF Kept, Armed, Handed
<1>7. CASE noticeAfter
  <2>1. /\ UNCHANGED <<due, closed, pending, turn, tenant>> /\ pc = "arm"
        /\ timers' = IF Arms
                     THEN [timers EXCEPT ![tenant] = [at |-> ask.at, left |-> ask.d]]
                     ELSE timers
    BY <1>7 DEF noticeAfter, set
  <2>2. loose[t] > 0 => loose'[t] > 0
    <3>1. loose \in [Tenants -> Nat]
      BY Zenon DEF TypeOK
    <3>2. loose' = loose \/ loose' = [loose EXCEPT ![tenant] = @ + 1]
      BY <1>7, Zenon DEF noticeAfter
    <3> QED
      BY <1>0, <3>1, <3>2
  <2>3. CASE t # tenant
    <3>1. timers'[t] = timers[t]
      BY <2>1, <2>3 DEF TypeOK
    <3> QED
      BY <2>1, <2>2, <2>3, <3>1 DEF Kept, Armed, Handed
  <2>4. CASE t = tenant /\ ~closed /\ Arms
    <3>1. timers'[t] = [at |-> ask.at, left |-> ask.d]
      BY <2>1, <2>4 DEF TypeOK
    <3>2. timers'[t] # NoTimer /\ timers'[t].at = ask.at
      BY <1>0, <3>1 DEF TypeOK, Asks, Timer
    <3>3. due[t] # NoDue /\ Armed(t) => ask.at <= due[t]
      BY <1>0, <2>4 DEF Arms, Armed, Timer
    <3> QED
      BY <2>1, <2>2, <3>2, <3>3 DEF Kept, Armed, Handed
  <2>5. CASE t = tenant /\ ~closed /\ ~Arms
    <3>1. timers' = timers /\ timers[t] # NoTimer /\ timers[t].at <= ask.at
      BY <1>0, <2>1, <2>5 DEF Arms, Timer
    <3>2. due[t] # NoDue /\ ask.at <= due[t] => Armed(t)
      BY <1>0, <3>1 DEF Armed, Timer
    <3> QED
      BY <2>1, <2>2, <3>1, <3>2 DEF Kept, Armed, Handed
  <2>6. CASE closed
    BY <2>1, <2>6 DEF Kept
  <2> QED
    BY <2>3, <2>4, <2>5, <2>6
<1> QED
  BY <1>2, <1>3, <1>4, <1>5, <1>6, <1>7 DEF LoopStep

\* Every step keeps the invariant.
LEMMA LaterNext == LaterInv /\ [Next]_vars => LaterInv'
<1> SUFFICES ASSUME LaterInv, [Next]_vars PROVE LaterInv'
  OBVIOUS
<1>0. TypeOK /\ SetIsOrder /\ TurnInv /\ TypeInv /\ \A t \in Tenants : Kept(t)
  BY KeptIs DEF LaterInv, TypeInv
<1>1. TypeInv' /\ TypeOK' /\ SetIsOrder' /\ TurnInv'
  BY <1>0, TypeNext, OrderNext, TurnNext DEF TypeInv
<1>2. ASSUME NEW t \in Tenants PROVE Kept(t)'
  <2>1. Kept(t)
    BY <1>0
  <2>2. CASE UNCHANGED vars
    BY <2>1, <2>2 DEF vars, set, loopVars, Kept, Armed, Handed
  <2>3. CASE Tick
    BY <1>0, <2>1, <2>3, KeptByTick
  <2>4. CASE LoopStep
    BY <1>0, <2>1, <2>4, KeptByLoop
  <2>5. CASE \/ \E u \in Tenants : Notice(u) \/ Fire(u) \/ FiredNotice(u)
             \/ Send \/ Start \/ ContextEnds \/ Drain \/ DrainCancels \/ DrainReturns
    BY <1>0, <2>1, <2>5, KeptByCallers
  <2> QED
    BY <2>2, <2>3, <2>4, <2>5 DEF Next
<1> QED
  BY <1>1, <1>2, KeptIsNext DEF LaterInv

\* The invariant holds at first.
LEMMA LaterInit == Init => LaterInv
<1> SUFFICES ASSUME Init PROVE LaterInv
  OBVIOUS
<1>1. TypeInv
  BY TypeInit DEF TypeInv, PlaceInv, Init
<1>2. SetIsOrder /\ TurnInv /\ AskInv /\ LaterIsKept
  BY DEF Init, SetIsOrder, Range, TurnInv, AskInv, LaterIsKept
<1> QED
  BY <1>1, <1>2 DEF LaterInv

\* Work a job said is due later is not forgotten by an open worker, for any
\* tenants, jobs and delays and whatever the timers' functions race with: one
\* timer per tenant, the earliest, is enough (noticeAfter).
THEOREM LaterWorkIsKept == SafeSpec => []LaterIsKept
<1>1. LaterInv => LaterIsKept
  BY DEF LaterInv
<1> QED
  BY <1>1, LaterInit, LaterNext, PTL DEF SafeSpec

(***************************************************************************)
(* The worker implements the queue.                                        *)
(***************************************************************************)

\* Where the queue stands when the loop and the context stand where they do.
Phase == IF pc = "off" THEN "built" ELSE IF ctx THEN "stopped" ELSE "serving"

\* The queue, the phase and whether notices count are the queue's variables.
LEMMA QueueVars == Queue!vars = <<turn \o order, Phase, ~closed>>
BY DEF Queue!vars, Phase

\* A tenant that is not in the order is in the queue once at most.
LEMMA CountOnce ==
  ASSUME turn \in Seq(Tenants), order \in Seq(Tenants), TurnInv,
         NEW t, \A i \in DOMAIN order : order[i] # t
  PROVE  Queue!Count(t) < 2
<1> DEFINE q == turn \o order
           S == {i \in DOMAIN q : q[i] = t}
<1>1. /\ Len(turn) \in Nat /\ Len(order) \in Nat
      /\ DOMAIN turn = 1..Len(turn) /\ DOMAIN order = 1..Len(order)
      /\ DOMAIN q = 1..(Len(turn) + Len(order))
      /\ \A i \in 1..Len(turn) : q[i] = turn[i]
      /\ \A i \in (Len(turn) + 1)..(Len(turn) + Len(order)) : q[i] = order[i - Len(turn)]
  OBVIOUS
<1>a. Queue!Count(t) = Cardinality(S)
  BY DEF Queue!Count, Queue!Cardinality, Cardinality
<1> HIDE DEF q
<1>2. \A i \in S : i \in DOMAIN turn /\ turn[i] = t
  <2>1. ASSUME NEW i \in S PROVE i \in DOMAIN turn /\ turn[i] = t
    <3>1. i \in 1..(Len(turn) + Len(order)) /\ q[i] = t
      BY <1>1
    <3>2. CASE i > Len(turn)
      <4>1. i - Len(turn) \in DOMAIN order /\ order[i - Len(turn)] = t
        BY <1>1, <3>1, <3>2
      <4> QED
        BY <4>1
    <3>3. CASE i <= Len(turn)
      BY <1>1, <3>1, <3>3
    <3> QED
      BY <1>1, <3>1, <3>2, <3>3
  <2> QED
    BY <2>1
<1>3. \A i, j \in S : i = j
  BY <1>2 DEF TurnInv
<1>4. CASE S = {}
  <2>1. Cardinality(S) = 0
    BY <1>4, FS_EmptySet
  <2> QED
    BY <2>1, <1>a
<1>5. CASE S # {}
  <2>1. PICK k : S = {k}
    BY <1>3, <1>5
  <2>2. Cardinality(S) = 1
    BY <2>1, FS_Singleton
  <2> QED
    BY <2>2, <1>a
<1> QED
  BY <1>4, <1>5

\* A step that leaves the queue, the phase and the door as they are stutters.
LEMMA RefineStutter ==
  ASSUME turn' \o order' = turn \o order, Phase' = Phase, closed' = closed
  PROVE  UNCHANGED Queue!vars
BY DEF Queue!vars, Phase

\* Notice's part under the mutex asks for the tenant once, or changes nothing.
LEMMA RefineEnter ==
  ASSUME TypeOK, SetIsOrder, TurnInv, NEW t \in Tenants, Enter(t), ~closed,
         UNCHANGED <<turn, closed>>, Phase' = Phase
  PROVE  [Queue!Next]_(Queue!vars)
<1>0. turn \in Seq(Tenants) /\ order \in Seq(Tenants)
  BY Zenon DEF TypeOK
<1>1. CASE t \in pending
  BY <1>1, RefineStutter DEF Enter, set
<1>2. CASE t \notin pending
  <2>1. order' = Append(order, t) /\ \A i \in DOMAIN order : order[i] # t
    BY <1>2 DEF Enter, SetIsOrder, Range
  <2>2. turn' \o order' = Append(turn \o order, t)
    BY <1>0, <2>1
  <2>3. Queue!Count(t) < 2
    BY <1>0, <2>1, CountOnce
  <2>4. Queue!Ask(t)
    BY <2>2, <2>3 DEF Queue!Ask, Phase
  <2> QED
    BY <2>4 DEF Queue!Next
<1> QED
  BY <1>1, <1>2

\* Every step of the worker is one of the queue, or none.
LEMMA RefineNext ==
  ASSUME TypeOK, SetIsOrder, TurnInv, [Next]_vars
  PROVE  [Queue!Next]_(Queue!vars)
<1>0. turn \in Seq(Tenants) /\ order \in Seq(Tenants) /\ tenant \in Tenants
  BY Zenon DEF TypeOK
<1>1. CASE UNCHANGED <<turn, order, closed>> /\ Phase' = Phase
  BY <1>1, RefineStutter
<1>2. CASE UNCHANGED <<turn, order, closed, ctx>> /\ pc # "off" /\ pc' # "off"
  BY <1>1, <1>2 DEF Phase
<1>3. CASE UNCHANGED vars
  BY <1>1, <1>3 DEF vars, set, loopVars, Phase
<1>4. ASSUME NEW t \in Tenants, Notice(t) PROVE [Queue!Next]_(Queue!vars)
  BY <1>4, RefineEnter DEF Notice, loopVars, Phase
<1>5. ASSUME NEW t \in Tenants, FiredNotice(t) PROVE [Queue!Next]_(Queue!vars)
  <2>1. UNCHANGED <<turn, closed, ctx, pc>>
    BY <1>5 DEF FiredNotice, loopVars
  <2>2. Phase' = Phase
    BY <2>1 DEF Phase
  <2>3. UNCHANGED set \/ (~closed /\ Enter(t))
    BY <1>5 DEF FiredNotice
  <2> QED
    BY <1>1, <2>1, <2>2, <2>3, RefineEnter DEF set
<1>6. ASSUME NEW t \in Tenants, Fire(t) PROVE [Queue!Next]_(Queue!vars)
  BY <1>1, <1>6 DEF Fire, set, loopVars, Phase
<1>7. CASE Send \/ DrainReturns
  <2>1. UNCHANGED <<turn, order, closed, ctx, pc>>
    BY <1>7 DEF Send, DrainReturns, set, loopVars
  <2> QED
    BY <1>1, <2>1 DEF Phase
<1>8. CASE Tick
  BY <1>1, <1>8 DEF Tick, set, Phase
<1>9. CASE Start
  <2>1. /\ pc = "off" /\ ~closed /\ Phase = "built" /\ Phase' \in {"serving", "stopped"}
        /\ UNCHANGED <<turn, order, closed>>
    BY <1>9 DEF Start, set, Phase
  <2>2. Queue!Begin
    BY <2>1 DEF Queue!Begin, Phase
  <2> QED
    BY <2>2 DEF Queue!Next
<1>10. CASE ContextEnds \/ DrainCancels
  <2>1. ctx' = TRUE /\ UNCHANGED <<turn, order, closed, pc>>
    BY <1>10 DEF ContextEnds, DrainCancels, set, loopVars
  <2>2. CASE pc = "off" \/ ctx
    BY <1>1, <2>1, <2>2 DEF Phase
  <2>3. CASE pc # "off" /\ ~ctx
    <3>1. Queue!Stop
      BY <2>1, <2>3 DEF Queue!Stop
    <3> QED
      BY <3>1 DEF Queue!Next
  <2> QED
    BY <2>2, <2>3
<1>11. CASE Drain
  <2>1. Queue!Close
    BY <1>11 DEF Drain, set, loopVars, Queue!Close
  <2> QED
    BY <2>1 DEF Queue!Next
<1>12. CASE SelectDone \/ SelectWake \/ TurnOver \/ BeginJob \/ JobEnds \/ SelfSend \/ noticeAfter
  BY <1>2, <1>12 DEF SelectDone, SelectWake, TurnOver, BeginJob, JobEnds, SelfSend,
                     noticeAfter, set
<1>13. ASSUME NEW d \in Delays, JobAnswersLater(d) PROVE [Queue!Next]_(Queue!vars)
  BY <1>2, <1>13 DEF JobAnswersLater, set
<1>14. CASE take
  <2>1. turn = <<>> /\ turn' = order /\ order' = <<>>
    BY <1>14 DEF take, TurnInv
  <2>2. turn' \o order' = turn \o order
    BY <1>0, <2>1
  <2>3. Phase' = Phase /\ closed' = closed
    BY <1>14 DEF take, Phase
  <2> QED
    BY <2>2, <2>3, RefineStutter
<1>15. CASE NextTenant
  <2>1. /\ turn # <<>> /\ turn' = Tail(turn) /\ order' = order /\ closed' = closed
        /\ Phase # "built" /\ Phase' = Phase
    BY <1>15 DEF NextTenant, set, Phase
  <2>2. turn \o order # <<>> /\ turn' \o order' = Tail(turn \o order)
    BY <1>0, <2>1
  <2>3. Queue!Serve
    BY <2>1, <2>2 DEF Queue!Serve, Phase
  <2> QED
    BY <2>3 DEF Queue!Next
<1>16. CASE SelfNotice
  <2>1. UNCHANGED <<turn, closed, ctx>> /\ Phase' = Phase
    BY <1>16 DEF SelfNotice, Phase
  <2>2. UNCHANGED set \/ (~closed /\ Enter(tenant))
    BY <1>16 DEF SelfNotice
  <2> QED
    BY <1>0, <1>1, <2>1, <2>2, RefineEnter DEF set
<1> QED
  BY <1>3, <1>4, <1>5, <1>6, <1>7, <1>8, <1>9, <1>10, <1>11, <1>12, <1>13, <1>14, <1>15, <1>16
     DEF Next, LoopStep

(* The worker is the queue its callers are promised: first come, first     *)
(* served, a tenant at most once for this turn and once for the next.      *)
(* That it goes on serving is the liveness part, which the run checks.     *)
THEOREM WorkerIsAQueue == SafeSpec => Queue!Init /\ [][Queue!Next]_(Queue!vars)
<1>1. Init => Queue!Init
  BY DEF Init, Queue!Init
<1>2. LaterInv /\ [Next]_vars => [Queue!Next]_(Queue!vars)
  BY RefineNext DEF LaterInv, TypeInv
<1> QED
  BY <1>1, <1>2, LaterInit, LaterNext, PTL DEF SafeSpec
=============================================================================

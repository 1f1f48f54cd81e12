----------------------------- MODULE WorkQueue -----------------------------
(***************************************************************************)
(* What the webhook worker (src/internal/webhook/worker.go) promises its   *)
(* callers: a queue of tenants, first come, first served, served for as    *)
(* long as the worker runs.  Module Worker implements it.                  *)
(***************************************************************************)
EXTENDS Naturals, Sequences, FiniteSets

CONSTANT Tenants

VARIABLES
  queue,     \* the tenants that are to be run, the next one first
  phase,     \* "built", "serving" (between Start and the context's end) or "stopped"
  accepting  \* whether a notice still counts (until Drain)

vars == <<queue, phase, accepting>>

\* How often t is in the queue: once for the turn under way and once after it.
Count(t) == Cardinality({i \in DOMAIN queue : queue[i] = t})

Init == /\ queue = <<>>
        /\ phase = "built"
        /\ accepting = TRUE

Ask(t) == /\ accepting
          /\ Count(t) < 2
          /\ queue' = Append(queue, t)
          /\ UNCHANGED <<phase, accepting>>

Serve == /\ phase # "built"
         /\ queue # <<>>
         /\ queue' = Tail(queue)
         /\ UNCHANGED <<phase, accepting>>

Begin == /\ phase = "built" /\ accepting
         /\ phase' \in {"serving", "stopped"}
         /\ UNCHANGED <<queue, accepting>>

Stop == /\ phase = "serving"
        /\ phase' = "stopped"
        /\ UNCHANGED <<queue, accepting>>

Close == /\ accepting
         /\ accepting' = FALSE
         /\ UNCHANGED <<queue, phase>>

Next == \/ \E t \in Tenants : Ask(t)
        \/ Serve
        \/ Begin
        \/ Stop
        \/ Close

\* While the worker runs it goes on serving.
Spec == Init /\ [][Next]_vars /\ WF_vars(phase = "serving" /\ Serve)
=============================================================================

--------------------------- MODULE ApiWritesProofs ---------------------------
(* Theorems about ApiWrites, for any number of requests, keys, references   *)
(* and employees and any clock: a key's write happens once a day, a success *)
(* is of the request's own reference, no hour exceeds the budget and writes *)
(* never wait in a circle.                                                  *)
EXTENDS ApiWrites, FiniteSetTheorems, SequenceTheorems, TLAPS

---------------------------------------------------------------------------
(* The types.                                                               *)

Ops == {"put", "delete"}
Asked == [key : Keys \cup {NoKey}, op : Ops \cup {"none"}, ref : Refs \cup {"none"}]

Working == {"work", "charge", "update", "insert", "commit"}
Named == {"free", "claim", "read"}
Active == {"sweep", "swept"} \cup Named \cup Working
Places == {"idle", "alert", "refused", "ok", "replayed"} \cup Active

Request ==
  [pc : Places, in : Asked, start : Nat, swept : SUBSET Keys, freed : BOOLEAN,
   claims : BOOLEAN, budget : BOOLEAN, target : Nat, drops : BOOLEAN,
   opens : BOOLEAN, result : Nat]

Done == [op : Ops \cup {"none"}, ref : Refs \cup {"none"}]
Row == [for : Done, result : Nat, at : Nat]
Employee == [ref : Refs, live : BOOLEAN]
Change ==
  [what : {"added", "deactivated"}, row : Nat, key : Keys \cup {NoKey}, at : Nat, end : Nat]

TypeOK ==
  /\ now \in Nat
  /\ req \in [Requests -> Request]
  /\ ledger \in [Keys -> Row]
  /\ staff \in Seq(Employee)
  /\ trail \in SUBSET Change
  /\ IsFiniteSet(trail)
  /\ alerts \in SUBSET Nat

---------------------------------------------------------------------------
(* The inductive invariant.                                                 *)

Names(i, ref) == i \in 1..Len(staff) /\ staff[i].ref = ref

(* What a request's place says of what it holds.                            *)
Shape(q) ==
  /\ q.pc # "swept" => q.swept = {}
  /\ q.pc \in Active => q.in.op \in Ops /\ q.in.ref \in Refs
  /\ q.pc \in Named \/ q.freed \/ q.claims => q.in.key \in Keys
  /\ q.freed => q.pc \in {"claim"} \cup Working
  /\ q.claims => q.pc \in Working
  /\ q.pc \in Working /\ q.in.key # NoKey => q.claims
  /\ q.pc = "update" => q.budget
  /\ q.budget => q.pc \in {"update", "commit"}
  /\ q.drops => q.budget
  /\ q.drops \/ q.opens => q.pc = "commit"
  /\ ~(q.opens /\ q.drops)

(* What it says of the committed rows.  Whoever holds the budget has counted *)
(* under its lock, and whoever claims a key was alone with it.               *)
Grounds(q) ==
  /\ q.start <= now
  /\ \A k \in q.swept : Expired(k, now)
  /\ q.freed => Expired(q.in.key, q.start)
  /\ q.claims /\ ~q.freed => ledger[q.in.key] = NoRow
  /\ q.pc \in {"charge", "update"} => Names(q.target, q.in.ref)
  /\ (q.pc = "commit" /\ ~q.opens) \/ q.pc \in {"ok", "replayed"} => Names(q.result, q.in.ref)
  /\ q.budget => Spent(q.start) < Budget

(* A row of the ledger, and a lock, is one transaction's.                   *)
Has(k, q) == k \in q.swept \/ (q.in.key = k /\ (q.freed \/ q.claims))

Apart(p, q) == /\ \A k \in Keys : ~(Has(k, p) /\ Has(k, q))
               /\ ~(p.budget /\ q.budget)

LedgerInv == \A k \in Keys : ledger[k] # NoRow => Names(ledger[k].result, ledger[k].for.ref)

(* A change under a key is covered by the key's row, or is a day old.       *)
Covered(e) ==
  e.key # NoKey => (ledger[e.key] # NoRow /\ e.at <= ledger[e.key].at) \/ e.at + Day < now

Within(t) == {e \in trail : e.what = "deactivated" /\ e.at > t /\ e.at <= t + Hour}

IInv ==
  /\ TypeOK
  /\ \A r \in Requests : Shape(req[r]) /\ Grounds(req[r])
  /\ \A r, s \in Requests : r # s => Apart(req[r], req[s])
  /\ LedgerInv
  /\ \A e \in trail : Covered(e)
  /\ OncePerKey
  /\ \A t \in Nat : Cardinality(Within(t)) <= Budget

---------------------------------------------------------------------------
\* The bounds are numbers.
LEMMA Numbers ==
  /\ Budget \in Nat /\ Hour \in Nat /\ Day \in Nat /\ MaxTime \in Nat /\ MaxRows \in Nat
  /\ NoKey \notin Keys
BY BoundAssumption, KeyAssumption

\* A nonempty bounded set of numbers has its greatest element.
LEMMA Greatest ==
  ASSUME NEW S, NEW n \in Nat, S \subseteq 1..n, S # {}
  PROVE  Max(S) \in S
<1> DEFINE T == {n - x : x \in S}
<1>1. T \subseteq Nat /\ T # {}
  <2>1. \A x \in S : n - x \in Nat
    OBVIOUS
  <2> QED
    BY <2>1
<1>2. PICK d \in T : \A y \in T : <<y, d>> \notin OpToRel(<, Nat)
  BY <1>1, NatLessThanWellFounded, WFMin
<1>3. PICK x \in S : d = n - x
  BY <1>2
<1>4. ASSUME NEW y \in S PROVE x >= y
  <2>1. ~(n - y < d) /\ n - y \in Nat /\ d \in Nat
    BY <1>1, <1>2, <1>3, <1>4 DEF OpToRel
  <2> QED
    BY <1>3, <1>4, <2>1
<1> QED
  BY <1>4 DEF Max

\* What IInv says of one request.
LEMMA Parts ==
  ASSUME IInv, NEW r \in Requests
  PROVE  /\ req[r] \in Request /\ Shape(req[r]) /\ Grounds(req[r])
         /\ \A s \in Requests \ {r} : Apart(req[r], req[s])
BY DEF IInv, TypeOK

\* A request that moves to a place it has the grounds for, holding nothing
\* another one holds, keeps the invariant.
LEMMA Moves ==
  ASSUME IInv, NEW r \in Requests, NEW q \in Request, Goes(r, q),
         Shape(q), Grounds(q), \A s \in Requests \ {r} : Apart(q, req[s]),
         UNCHANGED <<now, ledger, staff, trail>>, alerts' \in SUBSET Nat
  PROVE  IInv'
<1>1. /\ req' \in [Requests -> Request]
      /\ \A s \in Requests : req'[s] = IF s = r THEN q ELSE req[s]
  BY DEF Goes, IInv, TypeOK
<1>2. TypeOK'
  BY <1>1 DEF IInv, TypeOK
<1>3. ASSUME NEW s \in Requests PROVE Shape(req[s])' /\ Grounds(req[s])'
  <2>1. Shape(req'[s]) /\ Grounds(req'[s])
    BY <1>1, Parts
  <2> QED
    BY <2>1 DEF Shape, Grounds, Expired, Names, Spent
<1>4. ASSUME NEW s \in Requests, NEW t \in Requests, s # t
      PROVE  Apart(req[s], req[t])'
  <2>1. Apart(req'[s], req'[t])
    BY <1>1, <1>4, Parts DEF Apart
  <2> QED
    BY <2>1 DEF Apart, Has
<1>5. LedgerInv' /\ \A e \in trail' : Covered(e)'
  BY DEF IInv, LedgerInv, Names, Covered
<1>6. OncePerKey'
  BY DEF IInv, OncePerKey
<1>7. \A t \in Nat : Cardinality(Within(t)') <= Budget
  BY DEF IInv, Within
<1> QED
  BY <1>2, <1>3, <1>4, <1>5, <1>6, <1>7 DEF IInv

\* A request that holds nothing new is still apart from the others.
LEMMA HoldsNoMore ==
  ASSUME IInv, NEW r \in Requests, NEW q,
         \A k \in Keys : Has(k, q) => Has(k, req[r]),
         q.budget => req[r].budget
  PROVE  \A s \in Requests \ {r} : Apart(q, req[s])
BY Parts DEF Apart

\* A request that lets go of everything, for an answer it has grounds for.
LEMMA LetsGo ==
  ASSUME IInv, NEW r \in Requests, NEW q \in Request, Goes(r, q),
         q.swept = {}, ~q.freed, ~q.claims, ~q.budget, ~q.drops, ~q.opens,
         q.pc \notin Active \/ (q.pc = "sweep" /\ q.in.op \in Ops /\ q.in.ref \in Refs),
         q.pc \in {"ok", "replayed"} => Names(q.result, q.in.ref),
         q.start <= now,
         UNCHANGED <<now, ledger, staff, trail>>, alerts' \in SUBSET Nat
  PROVE  IInv'
<1>1. Shape(q)
  BY DEF Shape, Active, Named, Working
<1>2. Grounds(q)
  BY DEF Grounds, Active, Named, Working
<1>3. \A s \in Requests \ {r} : Apart(q, req[s])
  BY DEF Apart, Has
<1> QED
  BY <1>1, <1>2, <1>3, Moves

---------------------------------------------------------------------------
(* The steps of a request, one lemma each.                                  *)

\* The empty transaction is one.
LEMMA IdleType ==
  /\ Idle \in Request /\ Refused \in Request
  /\ [Refused EXCEPT !.pc = "alert"] \in Request
BY DEF Idle, Refused, Request, Asked, Places

\* A request may ask anything of the inputs.
LEMMA ArriveKeeps ==
  ASSUME IInv, NEW r \in Requests, Arrive(r)
  PROVE  IInv'
<1>1. PICK in \in Inputs : Goes(r, [Idle EXCEPT !.pc = "sweep", !.in = in])
  BY DEF Arrive
<1> DEFINE q == [Idle EXCEPT !.pc = "sweep", !.in = in]
<1>2. in \in [key : Keys \cup {NoKey}, op : Ops, ref : Refs]
  BY InputAssumption DEF Ops
<1>3. q \in Request /\ q.start = 0
  BY <1>2 DEF Idle, Request, Asked, Places, Active
<1>4. /\ q.swept = {} /\ ~q.freed /\ ~q.claims /\ ~q.budget /\ ~q.drops /\ ~q.opens
      /\ q.pc = "sweep" /\ q.in.op \in Ops /\ q.in.ref \in Refs /\ Goes(r, q)
  BY <1>1, <1>2 DEF Idle
<1>5. UNCHANGED <<now, ledger, staff, trail>> /\ alerts' \in SUBSET Nat /\ now \in Nat
  BY DEF Arrive, IInv, TypeOK
<1> HIDE DEF q
<1> QED
  BY <1>3, <1>4, <1>5, LetsGo

\* The lazy delete takes expired rows nobody has.
LEMMA SweepKeeps ==
  ASSUME IInv, NEW r \in Requests, Sweep(r)
  PROVE  IInv'
<1>1. PICK S \in SUBSET Sweepable : Goes(r, [To(r, "swept") EXCEPT !.swept = S])
  BY DEF Sweep
<1> DEFINE q == [To(r, "swept") EXCEPT !.swept = S]
<1>2. /\ req[r] \in Request /\ Shape(req[r]) /\ Grounds(req[r]) /\ req[r].pc = "sweep"
      /\ \A s \in Requests \ {r} : Apart(req[r], req[s])
  BY Parts DEF Sweep, At
<1>3. S \subseteq Keys /\ \A k \in S : Expired(k, now) /\ \A s \in Requests : ~Held(k, s)
  BY DEF Sweepable
<1>4. /\ q \in Request /\ q.pc = "swept" /\ q.swept = S /\ q.in = req[r].in
      /\ q.freed = req[r].freed /\ q.claims = req[r].claims /\ q.budget = req[r].budget
      /\ q.drops = req[r].drops /\ q.opens = req[r].opens /\ q.start = req[r].start
  BY <1>2, <1>3 DEF To, Request, Places, Active
<1> HIDE DEF q
<1>5. Shape(q)
  BY <1>2, <1>4 DEF Shape, Active, Named, Working
<1>6. Grounds(q)
  BY <1>2, <1>3, <1>4, <1>5 DEF Grounds, Shape, Active, Named, Working
<1>7. \A s \in Requests \ {r} : Apart(q, req[s])
  BY <1>2, <1>3, <1>4 DEF Apart, Has, Held, Key
<1>8. UNCHANGED <<now, ledger, staff, trail>> /\ alerts' \in SUBSET Nat
  BY DEF Sweep, IInv, TypeOK
<1> QED
  BY <1>1, <1>4, <1>5, <1>6, <1>7, <1>8, Moves DEF q

\* A row freed for the key is expired and nobody else's.
LEMMA FreeKeyKeeps ==
  ASSUME IInv, NEW r \in Requests, FreeKey(r)
  PROVE  IInv'
<1> DEFINE q == [To(r, "claim") EXCEPT !.freed = Expired(Key(r), req[r].start)]
<1>1. /\ req[r] \in Request /\ Shape(req[r]) /\ Grounds(req[r]) /\ req[r].pc = "free"
      /\ \A s \in Requests \ {r} : Apart(req[r], req[s])
  BY Parts DEF FreeKey, At
<1>2. /\ q \in Request /\ q.pc = "claim" /\ q.swept = req[r].swept /\ q.in = req[r].in
      /\ q.freed = Expired(req[r].in.key, req[r].start)
      /\ q.claims = req[r].claims /\ q.budget = req[r].budget
      /\ q.drops = req[r].drops /\ q.opens = req[r].opens /\ q.start = req[r].start
  <2>1. Expired(req[r].in.key, req[r].start) \in BOOLEAN
    BY DEF Expired
  <2> QED
    BY <1>1, <2>1 DEF To, Request, Places, Active, Named, Key
<1>3. Goes(r, q)
  BY DEF FreeKey
<1>4. \A s \in Requests \ {r} : Expired(req[r].in.key, req[r].start) => ~Held(req[r].in.key, s)
  BY <1>1 DEF FreeKey, Free, Blockers, At, Key
<1> HIDE DEF q
<1>5. Shape(q)
  BY <1>1, <1>2 DEF Shape, Active, Named, Working
<1>6. Grounds(q)
  BY <1>1, <1>2, <1>5 DEF Grounds, Shape, Active, Named, Working
<1>7. \A s \in Requests \ {r} : Apart(q, req[s])
  BY <1>1, <1>2, <1>4 DEF Apart, Has, Held, Key
<1>8. UNCHANGED <<now, ledger, staff, trail>> /\ alerts' \in SUBSET Nat
  BY DEF FreeKey, IInv, TypeOK
<1> QED
  BY <1>2, <1>3, <1>5, <1>6, <1>7, <1>8, Moves

\* A claim is of a key without a row, or with the row the request freed.
LEMMA ClaimKeeps ==
  ASSUME IInv, NEW r \in Requests, Claim(r)
  PROVE  IInv'
<1>1. /\ req[r] \in Request /\ Shape(req[r]) /\ Grounds(req[r]) /\ req[r].pc = "claim"
      /\ \A s \in Requests \ {r} : Apart(req[r], req[s])
  BY Parts DEF Claim, At
<1>2. UNCHANGED <<now, ledger, staff, trail>> /\ alerts' \in SUBSET Nat
  BY DEF Claim, IInv, TypeOK
<1>3. CASE Vacant(r) /\ Goes(r, [To(r, "work") EXCEPT !.claims = TRUE])
  <2> DEFINE q == [To(r, "work") EXCEPT !.claims = TRUE]
  <2>1. /\ q \in Request /\ q.pc = "work" /\ q.swept = req[r].swept /\ q.in = req[r].in
        /\ q.freed = req[r].freed /\ q.claims /\ q.budget = req[r].budget
        /\ q.drops = req[r].drops /\ q.opens = req[r].opens /\ q.start = req[r].start
    BY <1>1 DEF To, Request, Places, Active, Working
  <2>2. \A s \in Requests \ {r} : ~Held(req[r].in.key, s)
    BY <1>1, <1>3 DEF Vacant, Free, Blockers, At, Key
  <2>3. req[r].freed \/ ledger[req[r].in.key] = NoRow
    BY <1>3 DEF Vacant, Key
  <2> HIDE DEF q
  <2>4. Shape(q)
    BY <1>1, <2>1 DEF Shape, Active, Named, Working
  <2>5. Grounds(q)
    BY <1>1, <2>1, <2>3, <2>4 DEF Grounds, Shape, Active, Named, Working
  <2>6. \A s \in Requests \ {r} : Apart(q, req[s])
    BY <1>1, <2>1, <2>2 DEF Apart, Has, Held, Key
  <2> QED
    BY <1>2, <1>3, <2>1, <2>4, <2>5, <2>6, Moves DEF q
<1>4. CASE ~Vacant(r) /\ Free(r) /\ Goes(r, To(r, "read"))
  <2> DEFINE q == To(r, "read")
  <2>1. ~req[r].freed
    BY <1>4 DEF Vacant
  <2>2. /\ q \in Request /\ q.pc = "read" /\ q.swept = req[r].swept /\ q.in = req[r].in
        /\ q.freed = req[r].freed /\ q.claims = req[r].claims /\ q.budget = req[r].budget
        /\ q.drops = req[r].drops /\ q.opens = req[r].opens /\ q.start = req[r].start
    BY <1>1 DEF To, Request, Places, Active, Named
  <2> HIDE DEF q
  <2>3. Shape(q)
    BY <1>1, <2>1, <2>2 DEF Shape, Active, Named, Working
  <2>4. Grounds(q)
    BY <1>1, <2>2, <2>3 DEF Grounds, Shape, Active, Named, Working
  <2>5. \A s \in Requests \ {r} : Apart(q, req[s])
    BY <1>1, <2>2 DEF Apart, Has
  <2> QED
    BY <1>2, <1>4, <2>2, <2>3, <2>4, <2>5, Moves DEF q
<1> QED
  BY <1>3, <1>4 DEF Claim

\* Refused, or rolled back.
LEMMA RefusedKeeps ==
  ASSUME IInv, NEW r \in Requests, Goes(r, Refused),
         UNCHANGED <<now, ledger, staff, trail>>, alerts' \in SUBSET Nat
  PROVE  IInv'
<1>1. /\ Refused.swept = {} /\ ~Refused.freed /\ ~Refused.claims /\ ~Refused.budget
      /\ ~Refused.drops /\ ~Refused.opens /\ Refused.pc = "refused" /\ Refused.start = 0
  BY DEF Refused, Idle
<1>2. now \in Nat
  BY DEF IInv, TypeOK
<1> QED
  BY <1>1, <1>2, IdleType, LetsGo DEF Active, Named, Working

\* A replay is of the same request, whose record names its employee.
LEMMA ReplayKeeps ==
  ASSUME IInv, NEW r \in Requests, Replay(r)
  PROVE  IInv'
<1>1. /\ req[r] \in Request /\ Shape(req[r]) /\ req[r].pc = "read" /\ req[r].in.key \in Keys
  BY Parts DEF Replay, At, Shape, Named
<1>2. UNCHANGED <<now, ledger, staff, trail>> /\ alerts' \in SUBSET Nat /\ now \in Nat
  BY DEF Replay, IInv, TypeOK
<1>3. CASE Goes(r, Refused)
  BY <1>2, <1>3, RefusedKeeps
<1>4. CASE /\ ledger[Key(r)] # NoRow /\ SameRequest(r, ledger[Key(r)])
           /\ Goes(r, Answered(r, "replayed", ledger[Key(r)].result))
  <2> DEFINE q == Answered(r, "replayed", ledger[Key(r)].result)
  <2>1. ledger[Key(r)] \in Row /\ Names(ledger[Key(r)].result, ledger[Key(r)].for.ref)
    BY <1>1, <1>4 DEF IInv, TypeOK, LedgerInv, Key
  <2>2. ledger[Key(r)].for.ref = req[r].in.ref
    BY <1>4 DEF SameRequest, What
  <2>3. /\ q \in Request /\ q.swept = {} /\ ~q.freed /\ ~q.claims /\ ~q.budget /\ ~q.drops
        /\ ~q.opens /\ q.pc = "replayed" /\ q.start = 0 /\ q.in = req[r].in
        /\ q.result = ledger[Key(r)].result
    BY <1>1, <2>1 DEF Answered, Idle, Request, Row, Places
  <2>4. Goes(r, q) /\ Names(q.result, q.in.ref)
    BY <1>4, <2>1, <2>2, <2>3
  <2> HIDE DEF q
  <2> QED
    BY <1>2, <2>3, <2>4, LetsGo DEF Active, Named, Working
<1> QED
  BY <1>3, <1>4 DEF Replay

\* The delete's rows go while its transaction had them to itself, each a day old.
LEMMA BeginKeeps ==
  ASSUME IInv, NEW r \in Requests, Begin(r)
  PROVE  IInv'
<1> DEFINE place == IF Key(r) = NoKey THEN "work" ELSE "free"
<1>0. PICK q : q = [To(r, place) EXCEPT !.start = now, !.swept = {}]
  OBVIOUS
<1>1. /\ req[r] \in Request /\ Shape(req[r]) /\ Grounds(req[r]) /\ req[r].pc = "swept"
      /\ \A s \in Requests \ {r} : Apart(req[r], req[s])
  BY Parts DEF Begin, At
<1>2. now \in Nat /\ ledger \in [Keys -> Row] /\ trail \subseteq Change
  BY DEF IInv, TypeOK
<1>3. /\ q \in Request /\ q.pc = place /\ q.swept = {} /\ q.in = req[r].in
      /\ q.freed = req[r].freed /\ q.claims = req[r].claims /\ q.budget = req[r].budget
      /\ q.drops = req[r].drops /\ q.opens = req[r].opens /\ q.start = now
  BY <1>0, <1>1, <1>2 DEF To, Request, Places, Active, Named, Working
<1>4. /\ req' = [req EXCEPT ![r] = q]
      /\ ledger' = [k \in Keys |-> IF k \in req[r].swept THEN NoRow ELSE ledger[k]]
      /\ UNCHANGED <<now, staff, trail, alerts>>
  BY <1>0 DEF Begin, KeptLocks, Goes
<1>5. place \in {"work", "free"} /\ (place = "work" <=> req[r].in.key = NoKey)
  BY DEF Key
<1> HIDE DEF place
<1>6. \A s \in Requests : req'[s] = IF s = r THEN q ELSE req[s]
  BY <1>4 DEF IInv, TypeOK
<1>7. NoRow \in Row /\ \A k \in Keys : ledger'[k] \in {NoRow, ledger[k]}
  BY <1>4 DEF NoRow, Row, Done
<1>8. TypeOK'
  <2>1. ledger' \in [Keys -> Row]
    BY <1>2, <1>4, <1>7
  <2>2. req' \in [Requests -> Request]
    BY <1>3, <1>4 DEF IInv, TypeOK
  <2> QED
    BY <1>4, <2>1, <2>2 DEF IInv, TypeOK
<1>9. Shape(q) /\ req[r].in.key \in Keys \cup {NoKey}
  BY <1>1, <1>3, <1>5, Numbers DEF Shape, Active, Named, Working, Request, Asked
<1>10. ASSUME NEW s \in Requests
       PROVE  Shape(req[s])' /\ Grounds(req[s])'
  <2>1. CASE s = r
    <3>1. ~q.freed /\ ~q.claims /\ ~q.budget /\ q.pc \in {"work", "free"} /\ q.start = now
      BY <1>1, <1>3, <1>5 DEF Shape, Working
    <3>2. Grounds(q)'
      BY <1>2, <1>3, <1>4, <3>1 DEF Grounds
    <3> QED
      BY <1>6, <1>9, <2>1, <3>2 DEF Shape
  <2>2. CASE s # r
    <3>1. /\ req[s] \in Request /\ Shape(req[s]) /\ Grounds(req[s])
          /\ Apart(req[r], req[s]) /\ req'[s] = req[s]
      BY <1>6, <2>2, Parts
    <3>2. \A k \in Keys : Has(k, req[s]) => ledger'[k] = ledger[k]
      BY <1>4, <3>1 DEF Apart, Has
    <3>3. /\ req[s].swept \subseteq Keys
          /\ req[s].freed \/ req[s].claims => req[s].in.key \in Keys
      BY <3>1 DEF Request, Shape
    <3>4. Grounds(req[s])'
      BY <1>4, <3>1, <3>2, <3>3 DEF Grounds, Expired, Names, Spent, Has
    <3> QED
      BY <3>1, <3>4 DEF Shape
  <2> QED
    BY <2>1, <2>2
<1>11. ASSUME NEW s \in Requests, NEW t \in Requests, s # t
       PROVE  Apart(req[s], req[t])'
  <2>1. \A x \in Requests \ {r} : Apart(q, req[x])
    BY <1>1, <1>3 DEF Apart, Has
  <2>2. Apart(req'[s], req'[t])
    BY <1>6, <1>11, <2>1, Parts DEF Apart
  <2> QED
    BY <2>2 DEF Apart, Has
<1>12. LedgerInv'
  BY <1>4, <1>7 DEF IInv, LedgerInv, Names
<1>13. ASSUME NEW e \in trail, e.key # NoKey
       PROVE  (ledger'[e.key] # NoRow /\ e.at <= ledger'[e.key].at) \/ e.at + Day < now
  <2>1. e.key \in Keys /\ e.at \in Nat /\ Covered(e)
    BY <1>2, <1>13 DEF Change, IInv
  <2>2. CASE e.key \in req[r].swept
    <3>1. ledger[e.key].at + Day < now /\ ledger[e.key].at \in Nat
      BY <1>1, <1>2, <2>1, <2>2 DEF Grounds, Expired, Row
    <3> QED
      BY <1>2, <1>13, <2>1, <3>1, Numbers DEF Covered
  <2>3. CASE e.key \notin req[r].swept
    <3>1. ledger'[e.key] = ledger[e.key]
      BY <1>4, <2>1, <2>3
    <3> QED
      BY <1>13, <2>1, <3>1 DEF Covered
  <2> QED
    BY <2>2, <2>3
<1>14. \A e \in trail' : Covered(e)'
  BY <1>4, <1>13 DEF Covered
<1>15. OncePerKey' /\ \A t \in Nat : Cardinality(Within(t)') <= Budget
  BY <1>4 DEF IInv, OncePerKey, Within
<1> QED
  BY <1>8, <1>10, <1>11, <1>12, <1>14, <1>15 DEF IInv

\* The employees found for a reference are the reference's.
LEMMA Found ==
  ASSUME IInv, NEW ref
  PROVE  /\ Live(ref) # {} => Max(Live(ref)) \in Nat /\ Names(Max(Live(ref)), ref)
         /\ Latest(ref) # 0 => Latest(ref) \in Nat /\ Names(Latest(ref), ref)
<1> DEFINE all == {i \in DOMAIN staff : staff[i].ref = ref}
<1>1. DOMAIN staff = 1..Len(staff) /\ Len(staff) \in Nat
  BY DEF IInv, TypeOK
<1>2. Live(ref) # {} => Max(Live(ref)) \in Live(ref)
  BY <1>1, Greatest DEF Live, LiveIn
<1>3. all # {} => Max(all) \in all
  BY <1>1, Greatest
<1>4. Live(ref) \subseteq all /\ \A i \in all : i \in Nat /\ Names(i, ref)
  BY <1>1 DEF Live, LiveIn, Names
<1>5. Latest(ref) # 0 => all # {} /\ Latest(ref) = Max(all)
  BY Zenon DEF Latest
<1> QED
  BY <1>2, <1>3, <1>4, <1>5

\* A request at work that goes on with what it has, and maybe somebody found.
LEMMA GoesOn ==
  ASSUME IInv, NEW r \in Requests, NEW q \in Request, Goes(r, q),
         req[r].pc \in {"work", "charge", "insert"},
         q.pc \in {"charge", "insert", "commit"},
         q.in = req[r].in, q.start = req[r].start, q.swept = req[r].swept,
         q.freed = req[r].freed, q.claims = req[r].claims, q.budget = req[r].budget,
         q.drops = req[r].drops,
         q.opens => q.pc = "commit",
         q.pc = "charge" => Names(q.target, q.in.ref),
         q.pc = "commit" => q.opens \/ Names(q.result, q.in.ref),
         UNCHANGED <<now, ledger, staff, trail, alerts>>
  PROVE  IInv'
<1>1. /\ req[r] \in Request /\ Shape(req[r]) /\ Grounds(req[r])
      /\ \A s \in Requests \ {r} : Apart(req[r], req[s])
  BY Parts
<1>2. Shape(q)
  BY <1>1 DEF Shape, Active, Named, Working
<1>3. Grounds(q)
  BY <1>1, <1>2 DEF Grounds, Shape
<1>4. \A s \in Requests \ {r} : Apart(q, req[s])
  BY <1>1 DEF Apart, Has
<1>5. alerts' \in SUBSET Nat
  BY DEF IInv, TypeOK
<1> QED
  BY <1>2, <1>3, <1>4, <1>5, Moves

\* The lookup finds the reference's own employees.
LEMMA LookupKeeps ==
  ASSUME IInv, NEW r \in Requests, Lookup(r)
  PROVE  IInv'
<1> DEFINE ref == req[r].in.ref
           found == Live(ref)
<1>1. /\ req[r] \in Request /\ Shape(req[r]) /\ req[r].pc = "work" /\ ~req[r].opens
  BY Parts DEF Lookup, At, Shape
<1>2. UNCHANGED <<now, ledger, staff, trail, alerts>> /\ alerts' \in SUBSET Nat
  BY DEF Lookup, IInv, TypeOK
<1>3. CASE found # {} /\ Goes(r, [To(r, "commit") EXCEPT !.result = Max(found)])
  <2> DEFINE q == [To(r, "commit") EXCEPT !.result = Max(found)]
  <2>1. Max(found) \in Nat /\ Names(Max(found), ref)
    BY <1>3, Found
  <2>2. /\ q \in Request /\ q.pc = "commit" /\ q.result = Max(found)
        /\ q.in = req[r].in /\ q.start = req[r].start /\ q.swept = req[r].swept
        /\ q.freed = req[r].freed /\ q.claims = req[r].claims
        /\ q.budget = req[r].budget /\ q.drops = req[r].drops /\ q.opens = req[r].opens
    BY <1>1, <2>1 DEF To, Request, Places, Active, Working
  <2>3. Goes(r, q)
    BY <1>3
  <2> HIDE DEF q
  <2> QED
    BY <1>1, <1>2, <2>1, <2>2, <2>3, GoesOn
<1>4. CASE Goes(r, To(r, "insert"))
  <2> DEFINE q == To(r, "insert")
  <2>1. /\ q \in Request /\ q.pc = "insert"
        /\ q.in = req[r].in /\ q.start = req[r].start /\ q.swept = req[r].swept
        /\ q.freed = req[r].freed /\ q.claims = req[r].claims
        /\ q.budget = req[r].budget /\ q.drops = req[r].drops /\ q.opens = req[r].opens
    BY <1>1 DEF To, Request, Places, Active, Working
  <2>2. Goes(r, q)
    BY <1>4
  <2> HIDE DEF q
  <2> QED
    BY <1>1, <1>2, <2>1, <2>2, GoesOn
<1>5. CASE found # {} /\ Goes(r, [To(r, "charge") EXCEPT !.target = Max(found)])
  <2> DEFINE q == [To(r, "charge") EXCEPT !.target = Max(found)]
  <2>1. Max(found) \in Nat /\ Names(Max(found), ref)
    BY <1>5, Found
  <2>2. /\ q \in Request /\ q.pc = "charge" /\ q.target = Max(found)
        /\ q.in = req[r].in /\ q.start = req[r].start /\ q.swept = req[r].swept
        /\ q.freed = req[r].freed /\ q.claims = req[r].claims
        /\ q.budget = req[r].budget /\ q.drops = req[r].drops /\ q.opens = req[r].opens
    BY <1>1, <2>1 DEF To, Request, Places, Active, Working
  <2>3. Goes(r, q)
    BY <1>5
  <2> HIDE DEF q
  <2> QED
    BY <1>1, <1>2, <2>1, <2>2, <2>3, GoesOn
<1>6. CASE Goes(r, Refused)
  BY <1>2, <1>6, RefusedKeeps
<1>7. CASE Latest(ref) # 0 /\ Goes(r, [To(r, "commit") EXCEPT !.result = Latest(ref)])
  <2> DEFINE q == [To(r, "commit") EXCEPT !.result = Latest(ref)]
  <2>1. Latest(ref) \in Nat /\ Names(Latest(ref), ref)
    BY <1>7, Found
  <2>2. /\ q \in Request /\ q.pc = "commit" /\ q.result = Latest(ref)
        /\ q.in = req[r].in /\ q.start = req[r].start /\ q.swept = req[r].swept
        /\ q.freed = req[r].freed /\ q.claims = req[r].claims
        /\ q.budget = req[r].budget /\ q.drops = req[r].drops /\ q.opens = req[r].opens
    BY <1>1, <2>1 DEF To, Request, Places, Active, Working
  <2>3. Goes(r, q)
    BY <1>7
  <2> HIDE DEF q
  <2> QED
    BY <1>1, <1>2, <2>1, <2>2, <2>3, GoesOn
<1> QED
  BY <1>3, <1>4, <1>5, <1>6, <1>7, Zenon DEF Lookup

\* The budget is counted under its lock, and there is some left.
LEMMA ChargeKeeps ==
  ASSUME IInv, NEW r \in Requests, Charge(r)
  PROVE  IInv'
<1>1. /\ req[r] \in Request /\ Shape(req[r]) /\ Grounds(req[r]) /\ req[r].pc = "charge"
      /\ \A s \in Requests \ {r} : Apart(req[r], req[s])
  BY Parts DEF Charge, At
<1>2. UNCHANGED <<now, ledger, staff, trail>> /\ alerts' \in SUBSET Nat /\ now \in Nat
  BY DEF Charge, IInv, TypeOK
<1>3. CASE Goes(r, [Refused EXCEPT !.pc = "alert", !.start = now])
  <2> DEFINE q == [Refused EXCEPT !.pc = "alert", !.start = now]
  <2>1. /\ q \in Request /\ q.pc = "alert" /\ q.start = now /\ q.swept = {} /\ ~q.freed
        /\ ~q.claims /\ ~q.budget /\ ~q.drops /\ ~q.opens
    BY <1>2 DEF Refused, Idle, Request, Asked, Places
  <2>2. Goes(r, q)
    BY <1>3
  <2> HIDE DEF q
  <2> QED
    BY <1>2, <2>1, <2>2, LetsGo DEF Active, Named, Working
<1>4. CASE ~(Spent(req[r].start) >= Budget) /\ Goes(r, [To(r, "update") EXCEPT !.budget = TRUE])
  <2> DEFINE q == [To(r, "update") EXCEPT !.budget = TRUE]
  <2>1. /\ q \in Request /\ q.pc = "update" /\ q.swept = req[r].swept /\ q.in = req[r].in
        /\ q.freed = req[r].freed /\ q.claims = req[r].claims /\ q.budget
        /\ q.drops = req[r].drops /\ q.opens = req[r].opens /\ q.start = req[r].start
        /\ q.target = req[r].target
    BY <1>1 DEF To, Request, Places, Active, Working
  <2>2. \A s \in Requests \ {r} : ~req[s].budget
    BY <1>1 DEF Charge, MayCount, Free, Blockers, At
  <2>3. Goes(r, q)
    BY <1>4
  <2> HIDE DEF q
  <2>4. Spent(q.start) < Budget
    <3>1. Spent(q.start) \in Nat
      <4>1. IsFiniteSet({e \in trail : e.what = "deactivated" /\ e.at + Hour > q.start})
        BY FS_Subset DEF IInv, TypeOK
      <4> QED
        BY <4>1, FS_CardinalityType DEF Spent
    <3> QED
      BY <1>4, <2>1, <3>1, Numbers
  <2>5. Shape(q)
    BY <1>1, <2>1 DEF Shape, Active, Named, Working
  <2>6. Grounds(q)
    BY <1>1, <2>1, <2>4, <2>5 DEF Grounds, Shape
  <2>7. \A s \in Requests \ {r} : Apart(q, req[s])
    BY <1>1, <2>1, <2>2 DEF Apart, Has
  <2> QED
    BY <1>2, <2>1, <2>3, <2>5, <2>6, <2>7, Moves
<1> QED
  BY <1>3, <1>4, Zenon DEF Charge

\* The target is still of the reference when its row is locked.
LEMMA UpdateKeeps ==
  ASSUME IInv, NEW r \in Requests, Update(r)
  PROVE  IInv'
<1> DEFINE q == [To(r, "commit") EXCEPT !.drops = staff[req[r].target].live,
                                        !.result = req[r].target]
<1>1. /\ req[r] \in Request /\ Shape(req[r]) /\ Grounds(req[r]) /\ req[r].pc = "update"
      /\ \A s \in Requests \ {r} : Apart(req[r], req[s])
  BY Parts DEF Update, At
<1>2. UNCHANGED <<now, ledger, staff, trail>> /\ alerts' \in SUBSET Nat
  BY DEF Update, IInv, TypeOK
<1>3. Names(req[r].target, req[r].in.ref)
  BY <1>1 DEF Grounds
<1>4. staff[req[r].target].live \in BOOLEAN
  <2>1. staff \in Seq(Employee) /\ req[r].target \in 1..Len(staff)
    BY <1>3 DEF Names, IInv, TypeOK
  <2>2. staff[req[r].target] \in Employee
    BY <2>1
  <2> QED
    BY <2>2 DEF Employee
<1>5. /\ q \in Request /\ q.pc = "commit" /\ q.swept = req[r].swept /\ q.in = req[r].in
      /\ q.freed = req[r].freed /\ q.claims = req[r].claims /\ q.budget = req[r].budget
      /\ q.opens = req[r].opens /\ q.start = req[r].start /\ q.result = req[r].target
  BY <1>1, <1>4 DEF To, Request, Places, Active, Working
<1>6. Goes(r, q)
  BY DEF Update
<1> HIDE DEF q
<1>7. Shape(q)
  BY <1>1, <1>5 DEF Shape, Active, Named, Working
<1>8. Grounds(q)
  BY <1>1, <1>3, <1>5, <1>7 DEF Grounds, Shape
<1>9. \A s \in Requests \ {r} : Apart(q, req[s])
  BY <1>1, <1>5 DEF Apart, Has
<1> QED
  BY <1>2, <1>5, <1>6, <1>7, <1>8, <1>9, Moves

\* An employee is opened for the request's reference, or was meanwhile.
LEMMA InsertKeeps ==
  ASSUME IInv, NEW r \in Requests, Insert(r)
  PROVE  IInv'
<1> DEFINE found == Live(req[r].in.ref)
<1>1. /\ req[r] \in Request /\ Shape(req[r]) /\ req[r].pc = "insert"
      /\ UNCHANGED <<now, ledger, staff, trail, alerts>>
  BY Parts DEF Insert, At
<1>2. CASE Goes(r, [To(r, "commit") EXCEPT !.opens = TRUE])
  <2> DEFINE q == [To(r, "commit") EXCEPT !.opens = TRUE]
  <2>1. /\ q \in Request /\ q.pc = "commit" /\ q.opens
        /\ q.in = req[r].in /\ q.start = req[r].start /\ q.swept = req[r].swept
        /\ q.freed = req[r].freed /\ q.claims = req[r].claims
        /\ q.budget = req[r].budget /\ q.drops = req[r].drops
    BY <1>1 DEF To, Request, Places, Active, Working
  <2>2. Goes(r, q)
    BY <1>2
  <2> HIDE DEF q
  <2> QED
    BY <1>1, <2>1, <2>2, GoesOn
<1>3. CASE found # {} /\ Goes(r, [To(r, "commit") EXCEPT !.result = Max(found)])
  <2> DEFINE q == [To(r, "commit") EXCEPT !.result = Max(found)]
  <2>1. Max(found) \in Nat /\ Names(Max(found), req[r].in.ref)
    BY <1>3, Found
  <2>2. /\ q \in Request /\ q.pc = "commit" /\ q.result = Max(found)
        /\ q.in = req[r].in /\ q.start = req[r].start /\ q.swept = req[r].swept
        /\ q.freed = req[r].freed /\ q.claims = req[r].claims
        /\ q.budget = req[r].budget /\ q.drops = req[r].drops /\ q.opens = req[r].opens
    BY <1>1, <2>1 DEF To, Request, Places, Active, Working
  <2>3. Goes(r, q)
    BY <1>3
  <2> HIDE DEF q
  <2> QED
    BY <1>1, <2>1, <2>2, <2>3, GoesOn
<1> QED
  BY <1>2, <1>3, Zenon DEF Insert

\* The alert's transaction writes nothing but the alert.
LEMMA AlertKeeps ==
  ASSUME IInv, NEW r \in Requests, Alert(r)
  PROVE  IInv'
<1>1. alerts' \in SUBSET Nat
  BY Parts DEF Alert, IInv, TypeOK, Request
<1> QED
  BY <1>1, RefusedKeeps DEF Alert

\* A rollback lets go of everything.
LEMMA RollBackKeeps ==
  ASSUME IInv, NEW r \in Requests, RollBack(r)
  PROVE  IInv'
BY RefusedKeeps DEF RollBack, IInv, TypeOK

\* Time only makes rows and changes older.
LEMMA TickKeeps ==
  ASSUME IInv, Tick
  PROVE  IInv'
<1>1. /\ now \in Nat /\ now' = now + 1 /\ UNCHANGED <<req, ledger, staff, trail, alerts>>
      /\ ledger \in [Keys -> Row] /\ trail \subseteq Change
  BY DEF Tick, IInv, TypeOK
<1>2. TypeOK'
  BY <1>1 DEF IInv, TypeOK
<1>3. ASSUME NEW r \in Requests
      PROVE  Shape(req[r])' /\ Grounds(req[r])'
  <2>1. req[r] \in Request /\ Shape(req[r]) /\ Grounds(req[r])
    BY Parts
  <2>2. req[r].start <= now + 1
    BY <1>1, <2>1 DEF Grounds, Request
  <2>3. \A k \in req[r].swept : Expired(k, now + 1)
    <3>1. ASSUME NEW k \in req[r].swept PROVE Expired(k, now + 1)
      <4>1. k \in Keys /\ Expired(k, now) /\ ledger[k].at \in Nat
        BY <1>1, <2>1, <3>1 DEF Grounds, Request, Row
      <4> QED
        BY <1>1, <4>1, Numbers DEF Expired
    <3> QED
      BY <3>1
  <2>4. Grounds(req[r])'
    BY <1>1, <2>1, <2>2, <2>3 DEF Grounds, Expired, Names, Spent
  <2> QED
    BY <1>1, <2>1, <2>4 DEF Shape
<1>4. \A r, s \in Requests : r # s => Apart(req[r], req[s])'
  BY <1>1 DEF IInv, Apart, Has
<1>5. LedgerInv' /\ OncePerKey' /\ \A t \in Nat : Cardinality(Within(t)') <= Budget
  BY <1>1 DEF IInv, LedgerInv, Names, OncePerKey, Within
<1>6. ASSUME NEW e \in trail PROVE Covered(e)'
  <2>1. Covered(e) /\ e.at \in Nat
    BY <1>1 DEF IInv, Change
  <2>2. e.at + Day < now => e.at + Day < now + 1
    BY <1>1, <2>1, Numbers
  <2> QED
    BY <1>1, <2>1, <2>2 DEF Covered
<1> QED
  BY <1>1, <1>2, <1>3, <1>4, <1>5, <1>6 DEF IInv

---------------------------------------------------------------------------
(* The commit, part by part.                                                *)

\* The row a commit answers with.
Answer(r) == IF req[r].opens THEN Len(staff) + 1 ELSE req[r].result

\* The change a commit writes down, if it writes one.
Written(r) == Entry(r, IF req[r].opens THEN "added" ELSE "deactivated", Answer(r))

\* What a request about to commit has.
LEMMA AtCommit ==
  ASSUME IInv, NEW r \in Requests, Commit(r)
  PROVE  /\ req[r] \in Request /\ Shape(req[r]) /\ Grounds(req[r]) /\ req[r].pc = "commit"
         /\ req[r].swept = {} /\ req[r].in.op \in Ops /\ req[r].in.ref \in Refs
         /\ req[r].in.key \in Keys \cup {NoKey}
         /\ req[r].claims <=> req[r].in.key \in Keys
         /\ ~(req[r].opens /\ req[r].drops)
         /\ \A s \in Requests \ {r} : Apart(req[r], req[s])
         /\ now \in Nat /\ UNCHANGED <<now, alerts>>
<1>1. /\ req[r] \in Request /\ Shape(req[r]) /\ Grounds(req[r]) /\ req[r].pc = "commit"
      /\ \A s \in Requests \ {r} : Apart(req[r], req[s])
      /\ now \in Nat /\ UNCHANGED <<now, alerts>>
  BY Parts DEF Commit, At, IInv, TypeOK
<1>2. req[r].in.key \in Keys \cup {NoKey}
  BY <1>1 DEF Request, Asked
<1> QED
  BY <1>1, <1>2, Numbers DEF Shape, Active, Working, Request

\* A commit keeps the employees and their references, and its own row is the request's.
LEMMA CommitStaff ==
  ASSUME IInv, NEW r \in Requests, Commit(r)
  PROVE  /\ staff' \in Seq(Employee) /\ Answer(r) \in Nat
         /\ \A i, ref : Names(i, ref) => Names(i, ref)'
         /\ Answer(r) \in 1..Len(staff') /\ staff'[Answer(r)].ref = req[r].in.ref
<1>1. staff \in Seq(Employee) /\ Len(staff) \in Nat
  BY DEF IInv, TypeOK
<1>2. CASE req[r].opens
  <2> DEFINE x == [ref |-> req[r].in.ref, live |-> TRUE]
  <2>1. staff' = Append(staff, x) /\ x \in Employee /\ Answer(r) = Len(staff) + 1
    BY <1>2, AtCommit DEF Commit, Employee, Answer
  <2>2. x.ref = req[r].in.ref
    OBVIOUS
  <2> HIDE DEF x
  <2>3. /\ staff' \in Seq(Employee) /\ Len(staff') = Len(staff) + 1
        /\ \A i \in 1..Len(staff) : staff'[i] = staff[i]
        /\ staff'[Len(staff) + 1] = x
    BY <1>1, <2>1, AppendProperties
  <2> QED
    BY <1>1, <2>1, <2>2, <2>3 DEF Names
<1>3. CASE ~req[r].opens
  <2>1. /\ Answer(r) = req[r].result /\ Names(Answer(r), req[r].in.ref) /\ Answer(r) \in Nat
    BY <1>3, AtCommit DEF Answer, Grounds, Request
  <2>2. CASE req[r].drops
    <3>1. staff' = [staff EXCEPT ![Answer(r)].live = FALSE] /\ Answer(r) \in 1..Len(staff)
      BY <1>3, <2>1, <2>2 DEF Commit, Names
    <3>2. PICK x : x = [staff[Answer(r)] EXCEPT !.live = FALSE]
      OBVIOUS
    <3>3. x \in Employee /\ x.ref = staff[Answer(r)].ref
      <4>1. staff[Answer(r)] \in Employee
        BY <1>1, <3>1
      <4> QED
        BY <3>2, <4>1 DEF Employee
    <3>4. staff' = [staff EXCEPT ![Answer(r)] = x]
      BY <3>1, <3>2
    <3>5. /\ staff' \in Seq(Employee) /\ Len(staff') = Len(staff)
          /\ \A i \in 1..Len(staff) : staff'[i] = IF i = Answer(r) THEN x ELSE staff[i]
      <4>1. Answer(r) \in 1..Len(staff)
        BY <3>1
      <4>2. [staff EXCEPT ![Answer(r)] = x] \in Seq(Employee)
        BY <1>1, <3>3, <4>1, ExceptSeq
      <4>3. Len([staff EXCEPT ![Answer(r)] = x]) = Len(staff)
        BY <1>1, <3>3, <4>1, ExceptSeq
      <4>4. DOMAIN staff = 1..Len(staff)
        BY <1>1
      <4> QED
        BY <3>4, <4>2, <4>3, <4>4
    <3> QED
      BY <2>1, <3>1, <3>3, <3>5 DEF Names
  <2>3. CASE ~req[r].drops
    <3>1. staff' = staff
      BY <1>3, <2>3 DEF Commit
    <3> QED
      BY <1>1, <2>1, <3>1 DEF Names
  <2> QED
    BY <2>2, <2>3
<1> QED
  BY <1>2, <1>3

\* A commit writes at most its own change down.
LEMMA CommitTrail ==
  ASSUME IInv, NEW r \in Requests, Commit(r)
  PROVE  /\ trail' = IF req[r].opens \/ req[r].drops THEN trail \cup {Written(r)} ELSE trail
         /\ Written(r) \in Change
         /\ Written(r).key = req[r].in.key /\ Written(r).at = req[r].start
         /\ Written(r).end = now
         /\ Written(r).what = "deactivated" <=> ~req[r].opens
         /\ trail' \in SUBSET Change /\ IsFiniteSet(trail')
<1>1. trail \in SUBSET Change /\ IsFiniteSet(trail)
  BY DEF IInv, TypeOK
<1>2. trail' = IF req[r].opens \/ req[r].drops THEN trail \cup {Written(r)} ELSE trail
  BY AtCommit DEF Commit, Written, Answer
<1>3. /\ Written(r) \in Change
      /\ Written(r).key = req[r].in.key /\ Written(r).at = req[r].start
      /\ Written(r).end = now
      /\ Written(r).what = "deactivated" <=> ~req[r].opens
  BY AtCommit, CommitStaff DEF Written, Entry, Change, Key, Request
<1> QED
  BY <1>1, <1>2, <1>3, FS_AddElement

\* What a request has found spent is the number of the deactivations it counts.
Counted(t) == {e \in trail : e.what = "deactivated" /\ e.at + Hour > t}

\* No window holds more deactivations than the budget after a commit either: those
\* around a new one were all counted under the lock.
LEMMA CommitBudget ==
  ASSUME IInv, NEW r \in Requests, Commit(r), NEW t \in Nat
  PROVE  Cardinality(Within(t)') <= Budget
<1>1. trail \subseteq Change /\ IsFiniteSet(trail)
  BY DEF IInv, TypeOK
<1>2. Cardinality(Within(t)) <= Budget
  BY DEF IInv
<1>3. CASE req[r].drops /\ req[r].start > t /\ req[r].start <= t + Hour
  <2>1. Spent(req[r].start) < Budget /\ ~req[r].opens /\ req[r].start \in Nat
    BY <1>3, AtCommit DEF Shape, Grounds, Request
  <2>2. Within(t)' = Within(t) \cup {Written(r)}
    <3>1. trail' = trail \cup {Written(r)} /\ Written(r).what = "deactivated"
          /\ Written(r).at > t /\ Written(r).at <= t + Hour
      BY <1>3, <2>1, CommitTrail
    <3> QED
      BY <3>1 DEF Within
  <2>3. Within(t) \subseteq Counted(req[r].start)
    <3>1. ASSUME NEW e \in trail, e.at > t PROVE e.at + Hour > req[r].start
      <4>1. e.at \in Nat
        BY <1>1 DEF Change
      <4> QED
        BY <1>3, <2>1, <3>1, <4>1, Numbers
    <3> QED
      BY <3>1 DEF Within, Counted
  <2>4. IsFiniteSet(Counted(req[r].start)) /\ IsFiniteSet(Within(t))
    BY <1>1, FS_Subset DEF Counted, Within
  <2>5. Cardinality(Within(t)) <= Cardinality(Counted(req[r].start))
    BY <2>3, <2>4, FS_Subset
  <2>6. Cardinality(Within(t)') <= Cardinality(Within(t)) + 1
    <3>1. Cardinality(Within(t)) \in Nat
      BY <2>4, FS_CardinalityType
    <3>2. Cardinality(Within(t)') \in {Cardinality(Within(t)), Cardinality(Within(t)) + 1}
      BY <2>2, <2>4, FS_AddElement
    <3> QED
      BY <3>1, <3>2
  <2>7. Cardinality(Counted(req[r].start)) < Budget
    BY <2>1 DEF Counted, Spent
  <2>8. /\ Cardinality(Within(t)) \in Nat /\ Cardinality(Counted(req[r].start)) \in Nat
        /\ Cardinality(Within(t)') \in Nat
    <3>1. IsFiniteSet(Within(t)')
      BY <2>2, <2>4, FS_AddElement
    <3> QED
      BY <2>4, <3>1, FS_CardinalityType
  <2> QED
    BY <2>5, <2>6, <2>7, <2>8, Numbers
<1>4. CASE ~(req[r].drops /\ req[r].start > t /\ req[r].start <= t + Hour)
  <2>1. Within(t)' = Within(t)
    BY <1>4, AtCommit, CommitTrail DEF Within
  <2> QED
    BY <1>2, <2>1
<1> QED
  BY <1>3, <1>4

\* What another transaction counted under the lock is still what is spent.
LEMMA CommitSpent ==
  ASSUME IInv, NEW r \in Requests, Commit(r), NEW s \in Requests \ {r}, req[s].budget
  PROVE  \A t : Spent(t)' = Spent(t)
<1>1. ~req[r].drops
  BY AtCommit DEF Apart, Shape
<1>2. \A e \in trail' \ trail : e.what # "deactivated"
  BY <1>1, CommitTrail
<1>3. trail \subseteq trail'
  BY CommitTrail
<1> QED
  BY <1>2, <1>3 DEF Spent

\* The changes under the key of a commit are a day old.
LEMMA CommitAlone ==
  ASSUME IInv, NEW r \in Requests, Commit(r), NEW e \in trail,
         e.key = req[r].in.key, e.key # NoKey
  PROVE  e.at + Day < now
<1>1. /\ e.key \in Keys /\ e.at \in Nat /\ Covered(e) /\ ledger[e.key] \in Row
      /\ now \in Nat /\ req[r].start \in Nat /\ req[r].start <= now
  <2>1. e \in Change
    BY DEF IInv, TypeOK
  <2> QED
    BY <2>1, AtCommit DEF IInv, TypeOK, Change, Grounds, Request
<1>2. CASE req[r].freed
  <2>1. ledger[e.key].at + Day < req[r].start /\ ledger[e.key].at \in Nat
    BY <1>1, <1>2, AtCommit DEF Grounds, Expired, Row
  <2> QED
    BY <1>1, <2>1, Numbers DEF Covered
<1>3. CASE ~req[r].freed
  BY <1>1, <1>3, AtCommit DEF Grounds, Covered
<1> QED
  BY <1>2, <1>3

\* A commit writes the row of its own key only, and it names the request's employee.
LEMMA CommitLedger ==
  ASSUME IInv, NEW r \in Requests, Commit(r)
  PROVE  /\ ledger' \in [Keys -> Row]
         /\ \A k \in Keys \ {req[r].in.key} : ledger'[k] = ledger[k]
         /\ req[r].in.key \in Keys =>
              /\ ledger'[req[r].in.key] # NoRow
              /\ ledger'[req[r].in.key].at = req[r].start
              /\ ledger'[req[r].in.key].result = Answer(r)
              /\ ledger'[req[r].in.key].for.ref = req[r].in.ref
<1>1. PICK row : row = [for |-> What(r), result |-> Answer(r), at |-> req[r].start]
  OBVIOUS
<1>2. /\ row \in Row /\ row.for.op \in Ops /\ row.at = req[r].start
      /\ row.result = Answer(r) /\ row.for.ref = req[r].in.ref
  BY <1>1, AtCommit, CommitStaff DEF Row, Done, What, Request
<1>3. row # NoRow
  BY <1>2 DEF NoRow, Ops
<1>4. ledger' = [k \in Keys |-> IF req[r].claims /\ k = req[r].in.key THEN row ELSE ledger[k]]
  BY <1>1, AtCommit DEF Commit, Key, Answer
<1>5. ledger \in [Keys -> Row]
  BY DEF IInv, TypeOK
<1> QED
  BY <1>2, <1>3, <1>4, <1>5, AtCommit

\* A commit keeps the invariant.
LEMMA CommitKeeps ==
  ASSUME IInv, NEW r \in Requests, Commit(r)
  PROVE  IInv'
<1>1. PICK q : q \in {Answered(r, "ok", Answer(r)), Refused} /\ Goes(r, q)
  BY DEF Commit, Answer
<1>2. /\ q \in Request /\ q.swept = {} /\ ~q.freed /\ ~q.claims /\ ~q.budget /\ ~q.drops
      /\ ~q.opens /\ q.pc \in {"ok", "refused"} /\ q.start = 0
      /\ q.pc = "ok" => q.result = Answer(r) /\ q.in = req[r].in
  <2>1. CASE q = Refused
    BY <2>1, IdleType DEF Refused, Idle
  <2>2. CASE q = Answered(r, "ok", Answer(r))
    BY <2>2, AtCommit, CommitStaff DEF Answered, Idle, Request, Places
  <2> QED
    BY <1>1, <2>1, <2>2
<1>3. /\ req' \in [Requests -> Request]
      /\ \A s \in Requests : req'[s] = IF s = r THEN q ELSE req[s]
  BY <1>1, <1>2 DEF Goes, IInv, TypeOK
<1>4. TypeOK'
  BY <1>3, AtCommit, CommitStaff, CommitTrail, CommitLedger DEF IInv, TypeOK
<1>5. ASSUME NEW s \in Requests
      PROVE  Shape(req[s])' /\ Grounds(req[s])'
  <2>1. CASE s = r
    <3>1. req'[s] = q /\ q.pc = "ok" => Names(q.result, q.in.ref)'
      BY <1>2, <1>3, <2>1, CommitStaff DEF Names
    <3>2. Shape(q)
      BY <1>2 DEF Shape, Active, Named, Working
    <3>3. q.start <= now'
      BY <1>2, AtCommit
    <3>4. Grounds(q)'
      BY <1>2, <3>1, <3>3, <1>3, <2>1 DEF Grounds
    <3> QED
      BY <1>3, <2>1, <3>2, <3>4 DEF Shape
  <2>2. CASE s # r
    <3>1. /\ req[s] \in Request /\ Shape(req[s]) /\ Grounds(req[s])
          /\ Apart(req[r], req[s]) /\ req'[s] = req[s]
      BY <1>3, <2>2, Parts
    <3>2. \A k \in Keys : Has(k, req[s]) => ledger'[k] = ledger[k]
      BY <3>1, AtCommit, CommitLedger DEF Apart, Has
    <3>3. /\ req[s].swept \subseteq Keys
          /\ req[s].freed \/ req[s].claims => req[s].in.key \in Keys
      BY <3>1 DEF Request, Shape
    <3>4. \A i, ref : Names(i, ref) => Names(i, ref)'
      BY CommitStaff
    <3>5. req[s].budget => Spent(req[s].start)' = Spent(req[s].start)
      BY <1>3, <2>2, CommitSpent
    <3>6. Grounds(req[s])'
      BY <3>1, <3>2, <3>3, <3>4, <3>5, AtCommit DEF Grounds, Expired, Has
    <3> QED
      BY <3>1, <3>6 DEF Shape
  <2> QED
    BY <2>1, <2>2
<1>6. ASSUME NEW s \in Requests, NEW t \in Requests, s # t
      PROVE  Apart(req[s], req[t])'
  <2>1. Apart(req'[s], req'[t])
    BY <1>2, <1>3, <1>6, Parts DEF Apart, Has
  <2> QED
    BY <2>1 DEF Apart, Has
<1>7. LedgerInv'
  <2>1. ASSUME NEW k \in Keys, ledger'[k] # NoRow
        PROVE  Names(ledger[k].result, ledger[k].for.ref)'
    <3>1. CASE k = req[r].in.key
      BY <3>1, CommitLedger, CommitStaff DEF Names
    <3>2. CASE k # req[r].in.key
      <4>1. ledger'[k] = ledger[k]
        BY <3>2, CommitLedger
      <4> QED
        BY <2>1, <4>1, CommitStaff DEF IInv, LedgerInv, Names
    <3> QED
      BY <3>1, <3>2
  <2> QED
    BY <2>1 DEF LedgerInv
<1>8. ASSUME NEW e \in trail'
      PROVE  Covered(e)'
  <2>1. CASE e \in trail /\ e.key = req[r].in.key
    BY <2>1, AtCommit, CommitAlone DEF Covered
  <2>2. CASE e \in trail /\ e.key # req[r].in.key
    <3>1. e \in Change /\ Covered(e)
      BY <2>2 DEF IInv, TypeOK
    <3>2. e.key # NoKey => ledger'[e.key] = ledger[e.key]
      BY <2>2, <3>1, CommitLedger DEF Change
    <3> QED
      BY <3>1, <3>2, AtCommit DEF Covered
  <2>3. CASE e = Written(r)
    <3>1. e.key = req[r].in.key /\ e.at = req[r].start /\ e.at \in Nat /\ e.key \in Keys \cup {NoKey}
      BY <2>3, CommitTrail DEF Change
    <3> QED
      BY <3>1, CommitLedger DEF Covered
  <2> QED
    BY <2>1, <2>2, <2>3, CommitTrail
<1>9. OncePerKey'
  <2>1. ASSUME NEW e \in trail', NEW f \in trail', e # f, e.key = f.key, e.key # NoKey
        PROVE  e.at + Day < f.end \/ f.at + Day < e.end
    <3>1. CASE e \in trail /\ f \in trail
      BY <2>1, <3>1 DEF IInv, OncePerKey
    <3>2. CASE e \in trail /\ f = Written(r)
      BY <2>1, <3>2, CommitTrail, CommitAlone
    <3>3. CASE e = Written(r) /\ f \in trail
      BY <2>1, <3>3, CommitTrail, CommitAlone
    <3> QED
      BY <2>1, <3>1, <3>2, <3>3, CommitTrail
  <2> QED
    BY <2>1 DEF OncePerKey
<1>10. \A t \in Nat : Cardinality(Within(t)') <= Budget
  BY CommitBudget
<1> QED
  BY <1>4, <1>5, <1>6, <1>7, <1>8, <1>9, <1>10 DEF IInv

---------------------------------------------------------------------------
(* The theorems.                                                            *)

\* Nothing has happened yet, and yesterday's rows name employees.
LEMMA InitHolds == Init => IInv
<1> SUFFICES ASSUME Init PROVE IInv
  OBVIOUS
<1> DEFINE n == Cardinality(Refs)
<1>1. n \in Nat
  BY RefAssumption, FS_CardinalityType
<1>2. staff \in [1..n -> [ref : Refs, live : {TRUE}]]
  BY DEF Init
<1> HIDE DEF n
<1>3. staff \in Seq(Employee) /\ Len(staff) = n
  <2>1. [ref : Refs, live : {TRUE}] \subseteq Employee
    BY DEF Employee
  <2>2. staff \in [1..n -> Employee]
    BY <1>2, <2>1
  <2> QED
    BY <1>1, <2>2
<1>4. PICK S \in OldKeys, i \in DOMAIN staff :
        ledger = [k \in Keys |->
          IF k \in S THEN [for |-> [op |-> "put", ref |-> staff[i].ref], result |-> i, at |-> 0]
          ELSE NoRow]
  BY DEF Init
<1>5. i \in 1..Len(staff) /\ i \in Nat /\ staff[i] \in Employee
  BY <1>1, <1>3, <1>4
<1>6. PICK row : row = [for |-> [op |-> "put", ref |-> staff[i].ref], result |-> i, at |-> 0]
  OBVIOUS
<1>7. /\ row \in Row /\ row.result = i /\ row.for.ref = staff[i].ref
      /\ \A k \in Keys : ledger[k] \in {row, NoRow}
      /\ ledger = [k \in Keys |-> IF k \in S THEN row ELSE NoRow]
  BY <1>4, <1>5, <1>6 DEF Row, Done, Ops, Employee
<1>8. NoRow \in Row
  BY DEF NoRow, Row, Done
<1>9. TypeOK
  <2>1. now \in Nat /\ trail = {} /\ alerts = {} /\ req = [r \in Requests |-> Idle]
    BY Numbers DEF Init
  <2>2. ledger \in [Keys -> Row]
    BY <1>7, <1>8
  <2> QED
    BY <1>3, <2>1, <2>2, IdleType, FS_EmptySet DEF TypeOK
<1>10. ASSUME NEW r \in Requests PROVE req[r] = Idle /\ Shape(req[r]) /\ Grounds(req[r])
  <2>1. req[r] = Idle
    BY DEF Init
  <2>2. now \in Nat
    BY <1>9 DEF TypeOK
  <2> QED
    BY <2>1, <2>2 DEF Idle, Shape, Grounds, Active, Named, Working
<1>11. \A r, s \in Requests : r # s => Apart(req[r], req[s])
  BY <1>10 DEF Apart, Has, Idle
<1>12. LedgerInv
  BY <1>5, <1>7 DEF LedgerInv, Names
<1>13. (\A e \in trail : Covered(e)) /\ OncePerKey
  BY DEF Init, OncePerKey
<1>14. \A t \in Nat : Cardinality(Within(t)) <= Budget
  <2>1. \A t \in Nat : Within(t) = {}
    BY DEF Init, Within
  <2> QED
    BY <2>1, FS_EmptySet, Numbers
<1> QED
  BY <1>9, <1>10, <1>11, <1>12, <1>13, <1>14 DEF IInv

\* Every step keeps the invariant.
LEMMA NextKeeps == IInv /\ [Next]_vars => IInv'
<1> SUFFICES ASSUME IInv, [Next]_vars PROVE IInv'
  OBVIOUS
<1>1. ASSUME NEW r \in Requests,
             \/ Arrive(r) \/ Sweep(r) \/ Begin(r) \/ FreeKey(r)
             \/ Claim(r) \/ Replay(r) \/ Write(r) \/ RollBack(r)
      PROVE  IInv'
  BY <1>1, ArriveKeeps, SweepKeeps, BeginKeeps, FreeKeyKeeps, ClaimKeeps, ReplayKeeps,
     LookupKeeps, ChargeKeeps, UpdateKeeps, InsertKeeps, AlertKeeps, CommitKeeps, RollBackKeeps,
     Zenon
     DEF Write
<1>2. CASE UNCHANGED vars
  <2>1. /\ now' = now /\ req' = req /\ ledger' = ledger /\ staff' = staff
        /\ trail' = trail /\ alerts' = alerts
    BY <1>2 DEF vars
  <2>2. TypeOK' /\ LedgerInv' /\ OncePerKey'
    BY <2>1 DEF IInv, TypeOK, LedgerInv, Names, OncePerKey
  <2>3. ASSUME NEW r \in Requests PROVE Shape(req[r])' /\ Grounds(req[r])'
    <3>1. Shape(req[r]) /\ Grounds(req[r])
      BY Parts
    <3> QED
      BY <2>1, <3>1 DEF Shape, Grounds, Expired, Names, Spent
  <2>4. \A r, s \in Requests : r # s => Apart(req[r], req[s])'
    BY <2>1 DEF IInv, Apart, Has
  <2>5. (\A e \in trail' : Covered(e)') /\ \A t \in Nat : Cardinality(Within(t)') <= Budget
    BY <2>1 DEF IInv, Covered, Within
  <2> QED
    BY <2>2, <2>3, <2>4, <2>5 DEF IInv
<1> QED
  BY <1>1, <1>2, TickKeeps, Zenon DEF Next

\* The invariant holds in every reachable state.
LEMMA Invariant == Spec => []IInv
BY InitHolds, NextKeeps, PTL DEF Spec

\* A success names an employee of its request's reference.
LEMMA AnswersFollow == IInv => AnswerIsOfTheRequest
<1> SUFFICES ASSUME IInv, NEW r \in Requests, req[r].pc \in {"ok", "replayed"}
             PROVE  req[r].result \in DOMAIN staff /\ staff[req[r].result].ref = req[r].in.ref
  BY DEF AnswerIsOfTheRequest
<1>1. Names(req[r].result, req[r].in.ref)
  BY Parts DEF Grounds
<1>2. DOMAIN staff = 1..Len(staff)
  BY DEF IInv, TypeOK
<1> QED
  BY <1>1, <1>2 DEF Names

\* The budget's windows that the run looks at are among all of them.
LEMMA BudgetFollows == IInv => BudgetHolds
<1> SUFFICES ASSUME IInv, NEW t \in 0..MaxTime PROVE Cardinality(Within(t)) <= Budget
  BY DEF BudgetHolds, Within
<1>1. t \in Nat
  BY Numbers
<1> QED
  BY <1>1 DEF IInv

\* Who is waited for, and who of those waits in turn: a request that waits for the
\* budget or for a reference, whose holders go on without waiting.
LEMMA Chain ==
  ASSUME IInv, NEW r \in Requests, NEW q \in Blockers(r)
  PROVE  /\ q \in Requests
         /\ Blockers(q) # {} => req[q].pc \in {"charge", "insert"}
         /\ req[r].pc \in {"charge", "insert"} => Blockers(q) = {}
<1>1. q \in Requests /\ q # r
  BY DEF Blockers
<1>2. /\ Shape(req[r]) /\ Shape(req[q]) /\ req[r] \in Request /\ req[q] \in Request
      /\ \A s \in Requests \ {r} : Apart(req[r], req[s])
      /\ \A s \in Requests \ {q} : Apart(req[q], req[s])
  BY <1>1, Parts
<1>3. req[q].pc = "update" => Blockers(q) = {}
  <2>1. ASSUME req[q].pc = "update", NEW s \in Requests \ {q} PROVE ~req[s].drops
    BY <1>2, <2>1, Parts DEF Shape, Apart
  <2> QED
    BY <2>1 DEF Blockers, At
<1>4. req[q].pc \in {"swept", "work", "commit"} => Blockers(q) = {}
  BY DEF Blockers, At
<1>5. req[q].pc = "claim" /\ req[q].freed => Blockers(q) = {}
  BY <1>1, <1>2 DEF Blockers, At, Shape, Named, Apart, Held, Has, Key
<1>6. /\ Held(Key(r), q) => \/ req[q].pc \in {"swept"} \cup Working
                            \/ req[q].pc = "claim" /\ req[q].freed
      /\ req[q].budget => req[q].pc \in {"update", "commit"}
      /\ req[q].drops \/ req[q].opens => req[q].pc = "commit"
  BY <1>2 DEF Held, Shape
<1>7. \/ Held(Key(r), q) /\ req[r].pc \in {"free", "claim"}
      \/ req[q].budget
      \/ req[q].drops
      \/ req[q].opens
  BY DEF Blockers, At
<1> QED
  BY <1>1, <1>3, <1>4, <1>5, <1>6, <1>7 DEF Working

\* No set of requests waits in a circle.
LEMMA WaitsEnd == IInv => NoCircularWait
<1> SUFFICES ASSUME IInv, NEW S \in SUBSET Requests, S # {},
                    \A r \in S : Blockers(r) \cap S # {}
             PROVE  FALSE
  BY DEF NoCircularWait
<1>1. PICK r \in S : TRUE
  OBVIOUS
<1>2. PICK q \in S : q \in Blockers(r)
  BY <1>1
<1>3. PICK p \in S : p \in Blockers(q)
  BY <1>2
<1> QED
  BY <1>1, <1>2, <1>3, Chain

\* Every variable keeps its type: no answer, target or budget is made up.
THEOREM TypeCorrect == Spec => []TypeOK
<1>1. IInv => TypeOK
  BY DEF IInv
<1> QED
  BY <1>1, Invariant, PTL

\* A key's write happens once a day, for any number of requests that wait for each
\* other, retry, are rolled back or lose their answers.
THEOREM WritesOnce == Spec => []OncePerKey
<1>1. IInv => OncePerKey
  BY DEF IInv
<1> QED
  BY <1>1, Invariant, PTL

\* A success, computed or replayed, is of the reference its own request asked for.
THEOREM AnswersAreTheirs == Spec => []AnswerIsOfTheRequest
BY AnswersFollow, Invariant, PTL

\* No hour has more deactivations than the budget: they are counted under its lock.
THEOREM BudgetKept == Spec => []BudgetHolds
BY BudgetFollows, Invariant, PTL

\* In any set of requests one waits for none of the set: the locks are taken in an order.
THEOREM NoDeadlock == Spec => []NoCircularWait
BY WaitsEnd, Invariant, PTL
=============================================================================

---------------------------- MODULE MCTapDecide ----------------------------
(* tap.Decide and policy.Evaluate over bounded inputs: one behaviour per   *)
(* input, one step that decides it.                                        *)
EXTENDS TapDecide

CONSTANTS MaxAt, a, b

ASSUME BoundAssumption == MaxAt \in Nat

VARIABLES in, dec

Statement(sid, effect, pattern, cond) ==
  [sid |-> sid, effect |-> effect, actions |-> {"tap:record"},
   resource |-> {pattern}, cond |-> cond]

GpsOnly == [NoCondition EXCEPT !.bools = [gpsMatch |-> TRUE]]

(* A tenant's own documents: at every scope, looser and stricter than the  *)
(* baseline.                                                               *)
TenantDocs ==
  {<<>>} \cup
  {<<Statement("t:1", e, p, cond)>> :
     e \in {"allow", "review", "deny", "ignore", "note"},
     p \in {<<"*", "*">>, <<"location", "*">>, <<"location", "wall">>},
     cond \in {NoCondition, GpsOnly}} \cup
  {<<Statement("t:1", e, <<"location", "*">>, NoCondition),
     Statement("t:2", f, <<"location", "wall">>, GpsOnly)>> :
     e \in {"allow", "deny"}, f \in {"allow", "review"}}

Sets == {[baseline |-> Baseline, tenant |-> d] : d \in TenantDocs} \cup {guardrailsOnly}

(* Own plaque and a peer's, fresh and debounced, live and declared.        *)
Cases ==
  [now : {MaxAt}, occurredAt : 0..MaxAt, fromClient : BOOLEAN, pageIssuedAt : {MaxAt},
   channel : {"nfc", "qr"}, sunValid : BOOLEAN, ctrGap : {0, 1},
   tagStatus : {"active"}, location : {"wall"},
   employeeStatus : {"active"}, tagTenant : {a, b}, session : {a},
   sameHolding : {TRUE}, ipMatch : BOOLEAN, gps : {"none", "match", "conflict"},
   lastForPerson : {NoTime}, sinceRecorded : {NoGap},
   lastOpenIn : {NoTime}, dayOn : {FALSE}, want : {"none"}, policySet : {guardrailsOnly}]

Directions ==
  [now : {MaxAt}, occurredAt : 0..MaxAt, fromClient : {TRUE}, pageIssuedAt : {MaxAt},
   channel : {"qr"}, sunValid : {FALSE}, ctrGap : {0},
   tagStatus : {"active"}, location : {"wall"},
   employeeStatus : {"active"}, tagTenant : {a}, session : {a},
   sameHolding : {FALSE}, ipMatch : {TRUE}, gps : {"none"},
   lastForPerson : {NoTime}, sinceRecorded : {NoGap},
   lastOpenIn : {NoTime} \cup 0..MaxAt, dayOn : BOOLEAN,
   want : {"none", "in", "out"}, policySet : {guardrailsOnly}]

Undecided == [verdict |-> "undecided"]

DecideInit ==
  /\ dec = Undecided
  /\ \/ \E c \in Cases, s \in Sets :
          /\ (~c.fromClient => c.occurredAt = MaxAt)
          /\ in = [c EXCEPT !.policySet = s]
     \/ \E c \in Directions :
          (c.dayOn \/ c.want = "none") /\ c.lastOpenIn <= c.occurredAt /\ in = c

DecideNext == dec = Undecided /\ dec' = Decide(in) /\ UNCHANGED in

DecideSpec == DecideInit /\ [][DecideNext]_<<in, dec>>

---------------------------------------------------------------------------
IsDecided == dec # Undecided

Context == policyContext(in)
Statements == in.policySet.baseline \o in.policySet.tenant
Guarded == \E i \in DOMAIN Guardrails : Matches(Guardrails[i].sid, Context)

Contenders ==
  {i \in DOMAIN Statements : Applies(Statements[i], Context) /\ Statements[i].effect # "note"}

Scope(i) == statementSpecificity(Statements[i].resource, Context.resources)
Rank(i) == restrictiveness(Statements[i].effect)
Outranks(i, j) ==
  \/ Scope(i) > Scope(j)
  \/ Scope(i) = Scope(j) /\ Rank(i) > Rank(j)
  \/ Scope(i) = Scope(j) /\ Rank(i) = Rank(j) /\ i <= j

(* Evaluate's scan picks, whatever the order of the documents, the one     *)
(* statement that outranks every other: most specific, then most           *)
(* restrictive, then first (the promise of Set's and Evaluate's comments). *)
ScanPicksTheRulingStatement ==
  IsDecided /\ ~Guarded =>
    IF Contenders = {} THEN dec.sid = "default" /\ dec.verdict = "flag"
    ELSE \E i \in Contenders :
           /\ \A j \in Contenders : Outranks(i, j)
           /\ dec.sid = Statements[i].sid
           /\ dec.verdict = verdictOf(Statements[i].effect)

(* No document at the baseline's own scope or wider can make a tap count   *)
(* as ok that the baseline alone would not: the tenant may only tighten    *)
(* there, and loosens only by naming the venue.                            *)
OnlyAVenueRuleLoosens ==
  IsDecided /\ dec.verdict = "ok" /\ in.policySet.baseline # <<>>
    /\ (\A i \in DOMAIN in.policySet.tenant :
          <<"location", "wall">> \notin in.policySet.tenant[i].resource) =>
    /\ in.ipMatch \/ (in.gps = "match" /\ in.channel = "nfc")
    /\ in.ctrGap = 0
    /\ in.gps # "conflict"
    /\ occurredAtSkew(in) <= QueuedSkew

(* The writer and the reader agree: the engine calls a tap a checkout      *)
(* exactly when the ledger's classification will say that it closes the    *)
(* check-in open at its instant.                                           *)
PredictionAgreesWithClassification ==
  in.lastOpenIn # NoTime =>
    LET p == PredictDirection(tapInstant(in), in.lastOpenIn, in.dayOn)
        class == ClassifyCheckout([dir |-> "in", at |-> in.lastOpenIn, writtenLater |-> FALSE],
                                  TRUE, tapInstant(in), p.dayStart)
    IN  p.dir = "out" <=> class = "closes"

(* A checkout the employee chose although the engine predicted a check-in  *)
(* closes nothing, and the decision says so unless the shift was open too  *)
(* long in the same day; a chosen check-in names the shift it leaves open. *)
ChosenDirectionIsExplained ==
  IsDecided /\ dec.source = "employee" =>
    /\ dec.type = in.want
    /\ dec.type = "in" => dec.leftOpen = "employeeChoice" /\ in.lastOpenIn # NoTime
    /\ dec.type = "out" /\ dec.missingIn = "none" =>
         /\ in.lastOpenIn # NoTime
         /\ tapInstant(in) - in.lastOpenIn > StaleOpenIn
         /\ BusinessDayStart(tapInstant(in)) <= in.lastOpenIn
=============================================================================

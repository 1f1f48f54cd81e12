------------------------------- MODULE Policy -------------------------------
(***************************************************************************)
(* The policy engine: the system guardrails, the shipped baseline, and the *)
(* evaluation of one request against a policy set (internal/policy).       *)
(*                                                                         *)
(* A request context carries typed key maps (strs, bools, nums); a key     *)
(* that is not in a map's domain is absent, and a condition on an absent   *)
(* key never holds.  Reasons and notes are wording and are left out.       *)
(***************************************************************************)
EXTENDS Integers, Sequences, FiniteSetsExt

CONSTANTS
  DebounceWindow,    \* Params.DebounceWindow
  FreshnessWindow,   \* Params.FreshnessWindow
  OccurredAtSkewMax, \* Params.OccurredAtSkewMax
  QueuedSkew,        \* BaselineQueuedSkewSeconds
  NoTenant           \* a nil tenant, reviewer or subject id

ASSUME ParamsAssumption ==
  /\ DebounceWindow \in Nat \ {0}
  /\ FreshnessWindow \in Nat \ {0}
  /\ OccurredAtSkewMax \in Nat
  /\ QueuedSkew \in Nat

Effects == {"allow", "review", "ignore", "deny", "redirect"}

(* No earlier tap to measure the debounce against (a nil pointer). *)
NoGap == -1

---------------------------------------------------------------------------
(* Guardrails, in evaluation order. *)

Guardrails ==
  << [sid |-> "sys:tenant-mismatch",         effect |-> "redirect"],
     [sid |-> "sys:tag-not-active",          effect |-> "deny"],
     [sid |-> "sys:sun-invalid",             effect |-> "deny"],
     [sid |-> "sys:no-session",              effect |-> "redirect"],
     [sid |-> "sys:employee-deactivated",    effect |-> "deny"],
     [sid |-> "sys:tap-freshness",           effect |-> "deny"],
     [sid |-> "sys:occurred-at-bound",       effect |-> "deny"],
     [sid |-> "sys:person-debounce",         effect |-> "ignore"],
     [sid |-> "sys:cross-tenant-qr-site-ip", effect |-> "review"],
     [sid |-> "sys:policy-edit-owner-only",  effect |-> "deny"],
     [sid |-> "sys:no-self-review",          effect |-> "deny"] >>

Has(m, k) == k \in DOMAIN m
KeyIs(m, k, v) == Has(m, k) /\ m[k] = v

IsTap(c) == c.action = "tap:record"
CrossTenant(c) ==
  /\ c.tagTenant # NoTenant
  /\ c.session # NoTenant
  /\ c.tagTenant # c.session

Matches(sid, c) ==
  CASE sid = "sys:tenant-mismatch" -> CrossTenant(c) /\ ~c.sameHolding
    [] sid = "sys:tag-not-active" ->
         Has(c.strs, "tagStatus") /\ c.strs["tagStatus"] # "active"
    [] sid = "sys:sun-invalid" ->
         KeyIs(c.strs, "channel", "nfc") /\ KeyIs(c.bools, "sunValid", FALSE)
    [] sid = "sys:no-session" -> IsTap(c) /\ c.session = NoTenant
    [] sid = "sys:employee-deactivated" ->
         KeyIs(c.strs, "employeeStatus", "deactivated")
    [] sid = "sys:tap-freshness" ->
         /\ KeyIs(c.strs, "channel", "nfc")
         /\ Has(c.nums, "pageAge")
         /\ c.nums["pageAge"] > FreshnessWindow
    [] sid = "sys:occurred-at-bound" ->
         /\ IsTap(c)
         /\ Has(c.nums, "skew")
         /\ c.nums["skew"] < 0 \/ c.nums["skew"] > OccurredAtSkewMax
    [] sid = "sys:person-debounce" ->
         IsTap(c) /\ c.sinceLastTap >= 0 /\ c.sinceLastTap < DebounceWindow
    [] sid = "sys:cross-tenant-qr-site-ip" ->
         /\ IsTap(c)
         /\ c.sameHolding
         /\ CrossTenant(c)
         /\ KeyIs(c.strs, "channel", "qr")
         /\ ~KeyIs(c.bools, "ipMatch", TRUE)
    [] sid = "sys:policy-edit-owner-only" ->
         c.action = "policy:edit" /\ ~KeyIs(c.strs, "role", "owner")
    [] sid = "sys:no-self-review" ->
         c.reviewer # NoTenant /\ c.subject # NoTenant /\ c.reviewer = c.subject

(* The security alert a guardrail raises, beside its effect. *)
Alert(sid, c) ==
  \/ sid = "sys:tag-not-active" /\ c.strs["tagStatus"] = "lost"
  \/ sid = "sys:employee-deactivated"

---------------------------------------------------------------------------
(* Statements of the baseline and of a tenant's own documents. *)

NoCondition == [strs |-> <<>>, bools |-> <<>>, more |-> <<>>]

(* evalCondition and evalOperator for the operators the documents use:     *)
(* StringEquals, Bool and NumericGreaterThan, all of them required.        *)
Holds(cond, c) ==
  /\ \A k \in DOMAIN cond.strs  : KeyIs(c.strs, k, cond.strs[k])
  /\ \A k \in DOMAIN cond.bools : KeyIs(c.bools, k, cond.bools[k])
  /\ \A k \in DOMAIN cond.more  : Has(c.nums, k) /\ c.nums[k] > cond.more[k]

(* A pattern is <<"*", "*">>, <<type, "*">> or <<type, id>>; -1 is "no".   *)
patternMatch(p, r) ==
  IF p = <<"*", "*">> THEN 0
  ELSE IF p[1] # r[1] THEN -1
  ELSE IF p[2] = "*" THEN 1
  ELSE IF p[2] = r[2] THEN 2 ELSE -1

statementSpecificity(patterns, resources) ==
  Max({-1} \cup {patternMatch(p, r) : p \in patterns, r \in resources})

restrictiveness(e) ==
  CASE e = "deny" -> 4 [] e = "ignore" -> 3 [] e = "review" -> 2
    [] e = "allow" -> 1 [] OTHER -> 0

tapDoc(sid, effect, cond) ==
  [sid |-> sid, effect |-> effect, actions |-> {"tap:record"},
   resource |-> {<<"location", "*">>}, cond |-> cond]

ManagerActions == {"report:export", "tap:approve", "record:manual",
                   "record:review", "employee:deactivate"}

authzDoc(sid, role, actions) ==
  [sid |-> sid, effect |-> "allow", actions |-> actions,
   resource |-> {<<"*", "*">>},
   cond |-> [NoCondition EXCEPT !.strs = [role |-> role]]]

Baseline ==
  << tapDoc("base:ip-or-gps-ok", "allow",
            [NoCondition EXCEPT !.bools = [ipMatch |-> TRUE]]),
     tapDoc("base:gps-only-allow", "allow",
            [NoCondition EXCEPT !.bools = [ipMatch |-> FALSE, gpsMatch |-> TRUE]]),
     tapDoc("base:no-evidence-review", "review",
            [NoCondition EXCEPT !.bools = [ipMatch |-> FALSE, gpsMatch |-> FALSE]]),
     tapDoc("base:qr-requires-ip", "review",
            [NoCondition EXCEPT !.strs = [channel |-> "qr"],
                                !.bools = [ipMatch |-> FALSE]]),
     tapDoc("base:cross-location-note", "note",
            [NoCondition EXCEPT !.bools = [crossLocation |-> TRUE]]),
     tapDoc("base:queued-window", "review",
            [NoCondition EXCEPT !.more = [skew |-> QueuedSkew]]),
     tapDoc("base:ctr-gap-review", "review",
            [NoCondition EXCEPT !.more = [ctrGap |-> 0]]),
     tapDoc("base:gps-conflict-review", "review",
            [NoCondition EXCEPT !.bools = [gpsConflict |-> TRUE]]),
     authzDoc("base:authz-owner", "owner", ManagerActions \cup {"policy:edit"}),
     authzDoc("base:authz-manager", "manager", ManagerActions) >>

---------------------------------------------------------------------------
(* Evaluate. *)

NoMatch == [effect |-> "none", sid |-> "default", layer |-> "guardrail", spec |-> -1]

Applies(st, c) ==
  /\ c.action \in st.actions
  /\ statementSpecificity(st.resource, c.resources) >= 0
  /\ Holds(st.cond, c)

(* Mutants: a tie goes to the later statement; only the scope is compared. *)
considerLater(best, m) ==
  IF \/ m.spec > best.spec
     \/ m.spec = best.spec /\ restrictiveness(m.effect) >= restrictiveness(best.effect)
  THEN m ELSE best
considerScope(best, m) == IF m.spec > best.spec THEN m ELSE best

(* consider: more specific wins, then more restrictive; a tie keeps the    *)
(* one already found.                                                      *)
consider(best, m) ==
  IF \/ m.spec > best.spec
     \/ m.spec = best.spec /\ restrictiveness(m.effect) > restrictiveness(best.effect)
  THEN m ELSE best

(* One statement of the scan; a note is collected and never a candidate.   *)
scanOne(best, st, layer, c) ==
  IF Applies(st, c) /\ st.effect # "note"
  THEN consider(best, [effect |-> st.effect, sid |-> st.sid, layer |-> layer,
                       spec |-> statementSpecificity(st.resource, c.resources)])
  ELSE best

scan(start, sts, layer, c) ==
  LET upTo[i \in 0..Len(sts)] ==
        IF i = 0 THEN start ELSE scanOne(upTo[i-1], sts[i], layer, c)
  IN  upTo[Len(sts)]

defaultDecision(action) ==
  [effect |-> IF action = "tap:record" THEN "review" ELSE "deny",
   sid |-> "default", layer |-> "guardrail", alert |-> FALSE]

(* A policy set is [baseline, tenant]: two sequences of statements.  The   *)
(* guardrails are code and belong to every set.                            *)
Evaluate(set, c) ==
  LET hits == {i \in DOMAIN Guardrails : Matches(Guardrails[i].sid, c)}
      best == scan(scan(NoMatch, set.baseline, "baseline", c), set.tenant, "tenant", c)
  IN  IF hits # {}
      THEN LET g == Guardrails[Min(hits)]
           IN  [effect |-> g.effect, sid |-> g.sid, layer |-> "guardrail",
                alert |-> Alert(g.sid, c)]
      ELSE IF best = NoMatch THEN defaultDecision(c.action)
      ELSE [effect |-> best.effect, sid |-> best.sid, layer |-> best.layer,
            alert |-> FALSE]

(* policySets.guardrailsOnly: what forTenant answers when the documents    *)
(* cannot be loaded or materialised.                                       *)
guardrailsOnly == [baseline |-> <<>>, tenant |-> <<>>]
=============================================================================

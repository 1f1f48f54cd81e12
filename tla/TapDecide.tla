----------------------------- MODULE TapDecide -----------------------------
(***************************************************************************)
(* tap.Decide: the pure decision of one tap (internal/domain/tap).         *)
(* Instants are natural numbers; a nil instant is NoTime.  Zones and       *)
(* daylight saving are abstracted to the set Cutoffs of instants at which  *)
(* a business day begins.  Notes, lateness and the trust score's use are   *)
(* presentation and are left out.                                          *)
(***************************************************************************)
EXTENDS Policy

CONSTANTS
  StaleOpenIn,  \* the longest shift one check-in may stay open for
  Cutoffs       \* the instants at which a business day starts

ASSUME DirectionAssumption == StaleOpenIn \in Nat /\ Cutoffs \subseteq Nat

NoTime == -1

Verdicts == {"ok", "flag", "reject", "ignored"}
Counted == {"ok", "flag"}

---------------------------------------------------------------------------
(* Direction. *)

(* The latest day start that is not after the instant, NoTime if none.     *)
BusinessDayStart(at) ==
  Max({NoTime} \cup {c \in Cutoffs : c <= at})

(* Mutant: off by one at the longest shift.                                *)
PredictOpenTooLong(at, open, dayOn) ==
  LET day == IF dayOn THEN BusinessDayStart(at) ELSE NoTime
      dir(d, l) == [dir |-> d, dayStart |-> day, leftOpen |-> l]
  IN  IF open = NoTime \/ open > at THEN dir("in", "none")
      ELSE IF day # NoTime /\ open < day THEN dir("in", "previousDay")
      ELSE IF at - open >= StaleOpenIn THEN dir("in", "stale")
      ELSE dir("out", "none")

(* open is the occurred_at of the check-in open at the tap, or NoTime.     *)
PredictDirection(at, open, dayOn) ==
  LET day == IF dayOn THEN BusinessDayStart(at) ELSE NoTime
      dir(d, l) == [dir |-> d, dayStart |-> day, leftOpen |-> l]
  IN  IF open = NoTime \/ open > at THEN dir("in", "none")
      ELSE IF day # NoTime /\ open < day THEN dir("in", "previousDay")
      ELSE IF at - open > StaleOpenIn THEN dir("in", "stale")
      ELSE dir("out", "none")

NoPrev == [dir |-> "none", at |-> NoTime, writtenLater |-> FALSE]

(* What a checkout at outAt is, given the record before it.                *)
ClassifyCheckout(prev, dayHasIn, outAt, outDayStart) ==
  IF prev.dir # "in"
  THEN IF outDayStart = NoTime THEN "unanchored"
       ELSE IF prev.dir = "out" /\ dayHasIn /\ prev.writtenLater THEN "extra"
       ELSE "orphan"
  ELSE IF outDayStart # NoTime /\ prev.at < outDayStart THEN "otherDay"
  ELSE IF outAt - prev.at > StaleOpenIn THEN "tooLong"
  ELSE "closes"

tapInstant(in) == IF in.fromClient THEN in.occurredAt ELSE in.now

(* Mutant: the choice is taken as it comes, nothing is said about it.      *)
resolveSilently(in) ==
  LET p == PredictDirection(tapInstant(in), in.lastOpenIn, in.dayOn)
      chosen == in.want \in {"in", "out"} /\ p.dayStart # NoTime
  IN  [dir |-> IF chosen THEN in.want ELSE p.dir,
       source |-> IF chosen THEN "employee" ELSE "auto",
       leftOpen |-> p.leftOpen, missingIn |-> "none"]

(* The employee's own choice replaces the prediction only when it differs  *)
(* and the business day is known.                                          *)
resolveDirection(in) ==
  LET at == tapInstant(in)
      p == PredictDirection(at, in.lastOpenIn, in.dayOn)
      prev == IF p.leftOpen # "none"
              THEN [dir |-> "in", at |-> in.lastOpenIn, writtenLater |-> FALSE]
              ELSE NoPrev
      class == ClassifyCheckout(prev, FALSE, at, p.dayStart)
      chosen == in.want \in {"in", "out"} /\ in.want # p.dir /\ p.dayStart # NoTime
  IN  IF ~chosen
      THEN [dir |-> p.dir, source |-> "auto", leftOpen |-> p.leftOpen, missingIn |-> "none"]
      ELSE IF in.want = "in"
      THEN [dir |-> "in", source |-> "employee", leftOpen |-> "employeeChoice",
            missingIn |-> "none"]
      ELSE [dir |-> "out", source |-> "employee", leftOpen |-> "none",
            missingIn |-> IF class \in {"otherDay", "orphan"} THEN class ELSE "none"]

---------------------------------------------------------------------------
(* The policy context. *)

(* Mutant: only the last record's own instant is measured.                 *)
debounceGapDeclared(in) ==
  IF in.lastForPerson # NoTime /\ in.now >= in.lastForPerson
  THEN in.now - in.lastForPerson ELSE NoGap

(* Two measures of "how long since this person's last tap": from the last  *)
(* record's own instant, and from the age the database reports; the        *)
(* smaller non-negative one counts.                                        *)
debounceGap(in) ==
  LET declared == in.now - in.lastForPerson
      gaps == (IF in.lastForPerson # NoTime /\ declared >= 0 THEN {declared} ELSE {})
              \cup (IF in.sinceRecorded >= 0 THEN {in.sinceRecorded} ELSE {})
  IN  IF gaps = {} THEN NoGap ELSE Min(gaps)

occurredAtSkew(in) == IF in.fromClient THEN in.now - in.occurredAt ELSE 0

policyContext(in) ==
  [action |-> "tap:record",
   session |-> in.session, tagTenant |-> in.tagTenant, sameHolding |-> in.sameHolding,
   sinceLastTap |-> debounceGap(in),
   reviewer |-> NoTenant, subject |-> NoTenant,
   resources |-> {<<"location", in.location>>},
   strs  |-> [channel |-> in.channel, tagStatus |-> in.tagStatus,
              employeeStatus |-> in.employeeStatus],
   bools |-> [sunValid |-> in.sunValid, ipMatch |-> in.ipMatch,
              gpsMatch |-> in.gps = "match", gpsConflict |-> in.gps = "conflict"],
   nums  |-> [ctrGap |-> in.ctrGap, skew |-> occurredAtSkew(in),
              pageAge |-> in.now - in.pageIssuedAt]]

trustScore(ipMatch, gpsMatch) ==
  20 + (IF ipMatch THEN 50 ELSE 0) + (IF gpsMatch THEN 30 ELSE 0)

verdictOf(effect) ==
  CASE effect = "allow" -> "ok"
    [] effect = "deny" -> "reject"
    [] effect = "ignore" -> "ignored"
    [] effect = "redirect" -> "none"
    [] OTHER -> "flag"

(* Only a counted verdict has a direction.                                 *)
Decide(in) ==
  LET pd == Evaluate(in.policySet, policyContext(in))
      verdict == verdictOf(pd.effect)
      r == resolveDirection(in)
      directed == verdict \in Counted
  IN  [verdict |-> verdict,
       redirect |-> pd.effect = "redirect",
       type |-> IF directed THEN r.dir ELSE "none",
       source |-> IF directed THEN r.source ELSE "none",
       leftOpen |-> IF directed THEN r.leftOpen ELSE "none",
       missingIn |-> IF directed THEN r.missingIn ELSE "none",
       trust |-> trustScore(in.ipMatch, in.gps = "match"),
       sid |-> pd.sid,
       security |-> pd.alert]
=============================================================================

------------------------------- MODULE SignIn -------------------------------
(* One operator's sign-in: operatorauth decides in memory (the first-factor *)
(* cap, the account's budget, the code), op_open_session,                   *)
(* op_complete_enrollment and op_record_auth_event decide in the database   *)
(* (replay, lock, link), and opadmin's reset scripts are applied by hand, in*)
(* any order and as often as anybody likes.  A tick is one step of the code,*)
(* requests run side by side, writes fail, the process restarts.            *)
EXTENDS Naturals, FiniteSets, Sequences, SequencesExt

CONSTANTS
  Logins,     \* requests of the password step
  Attempts,   \* requests of the code step
  Enrolls,    \* requests of the enrollment's last step
  Scripts,    \* reset scripts; each carries a link of its own
  NoLink,
  CapLimit,   \* firstFactorLimit
  CodeLimit,  \* accountLimit
  FailLimit,  \* N of the lock
  Period,     \* length of a budget's window
  LockTime, LinkTime, ChallengeTime,
  Crowds,     \* bound: how many of each come, [logins, attempts, enrolls, scripts]
  MaxTime, MaxRestarts  \* bounds

ASSUME LimitAssumption == CapLimit \in Nat \ {0} /\ CodeLimit \in Nat \ {0} /\ FailLimit \in Nat \ {0}
ASSUME LinkAssumption == NoLink \notin Scripts
ASSUME BoundAssumption ==
  {Period, LockTime, LinkTime, ChallengeTime, MaxTime, MaxRestarts} \subseteq Nat
ASSUME LoginAssumption == IsFiniteSet(Logins)

VARIABLES
  now,
  acct,      \* platform_admins, the operator's row
  scripts,   \* when a script was generated, 0 before
  log,       \* operator_audit_log: code failures, sessions born, resets
  cap,       \* limits.firstFactor: the current window
  written,   \* the cap's windows: [wrote |-> counted, rows |-> in the database]
  budget,    \* limits.account: the current window
  login, attempt, enroll, \* the requests
  restarts

vars == <<now, acct, scripts, log, cap, written, budget, login, attempt, enroll, restarts>>

db == <<acct, scripts, log>>
memory == <<cap, written, budget>>

---------------------------------------------------------------------------
(* chargeLocked: an expired window is replaced.                             *)
Over(w) == w.start + Period <= now
Charged(w) == IF Over(w) THEN [w EXCEPT !.count = 1, !.start = now]
              ELSE [w EXCEPT !.count = @ + 1]

(* The cap's windows have an identity; refund and wrote go by it.           *)
Taken == IF Over(cap) THEN [count |-> 1, start |-> now, id |-> Len(written) + 1]
         ELSE Charged(cap)
Wrote(w) == IF w \in DOMAIN written THEN written[w].wrote ELSE 0

Gone == [pc |-> "gone", win |-> 0, at |-> 0, own |-> FALSE]

(* Mutant: past the cap a request is served whatever was written.           *)
CountIsEnough(w) == TRUE

(* A right password past the cap is served without a row only when the rows *)
(* of the window are written, not when writes are still under way.          *)
TrailIsFull(w) == Wrote(w) >= CapLimit

(* Password with the right password: the cap is charged in one locked step. *)
Password(l) ==
  /\ login[l].pc = "new" /\ acct.status = "active"
  /\ LET w == Taken IN
     /\ written' = IF w.id \in DOMAIN written THEN written
                   ELSE Append(written, [wrote |-> 0, rows |-> 0])
     /\ IF w.count <= CapLimit
        THEN cap' = w /\ login' = [login EXCEPT ![l] = [Gone EXCEPT !.pc = "record", !.win = w.id]]
        ELSE IF TrailIsFull(w.id)
        THEN cap' = w /\ login' = [login EXCEPT ![l] =
               [pc |-> "challenge", win |-> w.id, at |-> now, own |-> FALSE]]
        ELSE cap' = [w EXCEPT !.count = @ - 1] /\ login' = [login EXCEPT ![l] = Gone]
  /\ UNCHANGED <<now, db, budget, attempt, enroll, restarts>>

(* The password_ok row, detached from the request.  Its answer may be lost. *)
RecordPasswordOK(l) ==
  /\ login[l].pc = "record"
  /\ \E kept, answered \in BOOLEAN :
       /\ answered => kept
       /\ written' = [written EXCEPT ![login[l].win].rows = @ + (IF kept THEN 1 ELSE 0)]
       /\ login' = [login EXCEPT ![l].pc = IF answered THEN "wrote" ELSE "refund", ![l].own = kept]
  /\ UNCHANGED <<now, db, cap, budget, attempt, enroll, restarts>>

(* wrote, then the challenge.                                               *)
Mint(l) ==
  /\ login[l].pc = "wrote"
  /\ written' = [written EXCEPT ![login[l].win].wrote = @ + 1]
  /\ login' = [login EXCEPT ![l].pc = "challenge", ![l].at = now]
  /\ UNCHANGED <<now, db, cap, budget, attempt, enroll, restarts>>

(* refund gives the charge back to its own window alone; no challenge.      *)
Refund(l) ==
  /\ login[l].pc = "refund"
  /\ cap' = IF cap.id = login[l].win /\ cap.count > 0 THEN [cap EXCEPT !.count = @ - 1] ELSE cap
  /\ login' = [login EXCEPT ![l] = Gone]
  /\ UNCHANGED <<now, db, written, budget, attempt, enroll, restarts>>

---------------------------------------------------------------------------
Idle == [pc |-> "new", link |-> NoLink, step |-> 0, label |-> FALSE]
Ends(a) == attempt' = [attempt EXCEPT ![a] = [Idle EXCEPT !.pc = "gone"]]

(* verifyChallenge: a mint of less than its life ago, as often as one likes.*)
Challenged == \E l \in DOMAIN login : login[l].pc = "challenge" /\ now < login[l].at + ChallengeTime

(* TOTP: the challenge, then the account's budget before anything else.     *)
Present(a) ==
  /\ attempt[a].pc = "new" /\ Challenged
  /\ budget' = Charged(budget)
  /\ attempt' = [attempt EXCEPT ![a].pc = IF Charged(budget).count > CodeLimit THEN "gone" ELSE "read"]
  /\ UNCHANGED <<now, db, cap, written, login, enroll, restarts>>

(* verifyCode accepts a code of the account's secret within a step of now.  *)
Around(t) == {t, t + 1} \cup (IF t = 0 THEN {} ELSE {t - 1})

(* OperatorByID and verifyCode: a wrong code, or a right one of a step.  The*)
(* label only names the row a refusal writes.                               *)
Check(a) ==
  /\ attempt[a].pc = "read"
  /\ IF acct.status # "active" THEN Ends(a)
     ELSE LET read == [attempt[a] EXCEPT !.link = acct.link, !.label = acct.until > now] IN
          \/ attempt' = [attempt EXCEPT ![a] = [read EXCEPT !.pc = "totp_failed"]]
          \/ \E s \in Around(now) :
               attempt' = [attempt EXCEPT ![a] = [read EXCEPT !.pc = "open", !.step = s]]
  /\ UNCHANGED <<now, db, memory, login, enroll, restarts>>

(* Mutant: the lock is the one the process read.                            *)
LockAsRead(a) == ~attempt[a].label

Unlocked(a) == acct.failures < FailLimit \/ acct.until <= now

Born(kind, link, step) == Append(log, [kind |-> kind, at |-> now, link |-> link, step |-> step])

(* op_open_session: replay, the step's distance, the lock and the session in*)
(* one statement.                                                           *)
Opens(a) == /\ acct.status = "active"
            /\ acct.last < attempt[a].step
            /\ attempt[a].step \in Around(now)
            /\ Unlocked(a)

OpenSession(a) ==
  /\ attempt[a].pc = "open"
  /\ \/ /\ Opens(a)
        /\ acct' = [acct EXCEPT !.last = attempt[a].step, !.failures = 0, !.until = 0]
        /\ log' = Born("login", attempt[a].link, attempt[a].step)
        /\ Ends(a)
     \/ /\ ~Opens(a)
        /\ attempt' = [attempt EXCEPT ![a].pc = IF attempt[a].label THEN "locked" ELSE "totp_failed"]
        /\ UNCHANGED <<acct, log>>
  /\ UNCHANGED <<now, scripts, memory, login, enroll, restarts>>

(* op_record_auth_event: the row and the counter in one statement, which    *)
(* moves for a totp_failed of an active account.                            *)
RecordRefusal(a) ==
  /\ attempt[a].pc \in {"totp_failed", "locked"}
  /\ log' = Born(attempt[a].pc, NoLink, 0)
  /\ acct' = IF attempt[a].pc = "totp_failed" /\ acct.status = "active"
             THEN [acct EXCEPT !.failures = @ + 1,
                               !.until = IF acct.failures + 1 >= FailLimit
                                         THEN now + LockTime ELSE @]
             ELSE acct
  /\ Ends(a)
  /\ UNCHANGED <<now, scripts, memory, login, enroll, restarts>>

(* A statement of the code step fails and leaves nothing.                   *)
AttemptFails(a) ==
  /\ attempt[a].pc \in {"read", "open", "totp_failed", "locked"}
  /\ Ends(a)
  /\ UNCHANGED <<now, db, memory, login, enroll, restarts>>

---------------------------------------------------------------------------
(* CompleteEnrollment passed every check of the process: it holds the link  *)
(* of a script and the step of its first code.                              *)
Post(e) ==
  /\ enroll[e].pc = "new"
  /\ \E k \in DOMAIN scripts, s \in Around(now) :
       /\ scripts[k] > 0
       /\ enroll' = [enroll EXCEPT ![e] = [Idle EXCEPT !.pc = "open", !.link = k, !.step = s]]
  /\ UNCHANGED <<now, db, memory, login, attempt, restarts>>

(* op_complete_enrollment: one conditional statement.                       *)
Enroll(e) ==
  /\ enroll[e].pc = "open"
  /\ enroll' = [enroll EXCEPT ![e] = [Idle EXCEPT !.pc = "gone"]]
  /\ \/ /\ acct.status = "pending" /\ acct.link = enroll[e].link
        /\ now < acct.issued + LinkTime /\ enroll[e].step \in Around(now)
        /\ acct' = [acct EXCEPT !.status = "active", !.last = enroll[e].step,
                                !.failures = 0, !.until = 0]
        /\ log' = Born("enrollment", enroll[e].link, enroll[e].step)
     \/ UNCHANGED <<acct, log>>
  /\ UNCHANGED <<now, scripts, memory, login, attempt, restarts>>

Generate(k) ==
  /\ scripts[k] = 0
  /\ scripts' = [scripts EXCEPT ![k] = now]
  /\ UNCHANGED <<now, acct, log, memory, login, attempt, enroll, restarts>>

(* Mutant: a script is refused only when its own link is the current one.   *)
NotTheCurrentOne(k) == acct.link # k

(* The reset script's refusals: its link is in place, or a link was issued  *)
(* after it was generated.                                                  *)
Applies(k) == acct.link # k /\ (acct.link # NoLink => acct.issued < scripts[k])

Reset(k) ==
  /\ scripts[k] > 0 /\ Applies(k)
  /\ acct' = [acct EXCEPT !.status = "pending", !.failures = 0, !.until = 0,
                          !.link = k, !.issued = now]
  /\ log' = Born("reset", k, 0)
  /\ UNCHANGED <<now, scripts, memory, login, attempt, enroll, restarts>>

---------------------------------------------------------------------------
Tick == now < MaxTime /\ now' = now + 1
        /\ UNCHANGED <<db, memory, login, attempt, enroll, restarts>>

(* The process dies: its budgets and requests are gone; a challenge is not  *)
(* kept in it.                                                              *)
Restart ==
  /\ restarts < MaxRestarts /\ restarts' = restarts + 1
  /\ cap' = [cap EXCEPT !.id = 0, !.start = 0, !.count = 0]
  /\ budget' = [count |-> 0, start |-> 0]
  /\ login' = [l \in DOMAIN login |-> IF login[l].pc \in {"new", "challenge"} THEN login[l] ELSE Gone]
  /\ attempt' = [a \in DOMAIN attempt |-> IF attempt[a].pc = "new" THEN Idle ELSE [Idle EXCEPT !.pc = "gone"]]
  /\ enroll' = [e \in DOMAIN enroll |-> IF enroll[e].pc = "new" THEN Idle ELSE [Idle EXCEPT !.pc = "gone"]]
  /\ UNCHANGED <<now, db, written>>

(* n of the set's members come, each as it is at first.                     *)
Of(S, n, first) == {[x \in T |-> first] : T \in kSubset(n, S)}

Init ==
  /\ now = Period
  /\ acct = [status |-> "active", failures |-> 0, until |-> 0, last |-> 0,
             link |-> NoLink, issued |-> 0]
  /\ log = <<>>
  /\ cap = [count |-> 0, start |-> 0, id |-> 0]
  /\ written = <<>>
  /\ budget = [count |-> 0, start |-> 0]
  /\ \E c \in Crowds :
       /\ login \in Of(Logins, c.logins, [Gone EXCEPT !.pc = "new"])
       /\ attempt \in Of(Attempts, c.attempts, Idle)
       /\ enroll \in Of(Enrolls, c.enrolls, Idle)
       /\ scripts \in Of(Scripts, c.scripts, 0)
  /\ restarts = 0

FirstStep(l) == Password(l) \/ RecordPasswordOK(l) \/ Mint(l) \/ Refund(l)
SecondStep(a) ==
  Present(a) \/ Check(a) \/ OpenSession(a) \/ RecordRefusal(a) \/ AttemptFails(a)

Next ==
  \/ \E l \in DOMAIN login : FirstStep(l)
  \/ \E a \in DOMAIN attempt : SecondStep(a)
  \/ \E e \in DOMAIN enroll : Post(e) \/ Enroll(e)
  \/ \E k \in DOMAIN scripts : Generate(k) \/ Reset(k)
  \/ Tick \/ Restart

Spec == Init /\ [][Next]_vars

---------------------------------------------------------------------------
(* A right password leaves its row before its challenge exists; one without *)
(* a row exists only when its window already holds as many rows as the cap, *)
(* whatever writes were under way, failed or lost their answer meanwhile.   *)
TrailBeforeChallenge ==
  \A l \in DOMAIN login : login[l].pc = "challenge" =>
    login[l].own \/ written[login[l].win].rows >= CapLimit

Births == {"login", "enrollment"}

(* The failures between an entry and the birth or reset before it.          *)
FailsBefore(i) ==
  {j \in 1..i - 1 :
     /\ log[j].kind = "totp_failed"
     /\ \A h \in j + 1..i - 1 : log[h].kind \notin Births \cup {"reset"}}

(* By the log alone, whatever the processes had read: a code opens a session*)
(* only while fewer failures than the limit lie between it and the session  *)
(* or the reset before it, or once the lock has run out since the last one. *)
LockHolds ==
  \A i \in DOMAIN log : log[i].kind = "login" =>
    (Cardinality(FailsBefore(i)) >= FailLimit =>
       \A j \in FailsBefore(i) : log[j].at + LockTime <= log[i].at)

(* A link enrolls once, whichever scripts were applied again afterwards, and*)
(* between two resets the steps of the codes that opened sessions only rise:*)
(* no code opens two.                                                       *)
SpentOnce ==
  \A i, j \in DOMAIN log : i < j =>
    /\ log[i].kind = "enrollment" /\ log[j].kind = "enrollment" => log[i].link # log[j].link
    /\ log[i].kind \in Births /\ log[j].kind \in Births
       /\ (\A h \in i..j : log[h].kind # "reset") => log[i].step < log[j].step
=============================================================================

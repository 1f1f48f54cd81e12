-------------------------------- MODULE Encode --------------------------------
(* Personalising plaques: encode.Store keeps one session per round in memory, *)
(* a phone relays its commands to whatever chip it is held to, and the keys a *)
(* round gives to a chip are written into the chip's row first.  A chip can   *)
(* be pulled away between any two commands, an answer can be lost or arrive   *)
(* twice, the deadline can pass in the middle of a step, and the process can  *)
(* be closed or die.                                                          *)
EXTENDS Naturals, FiniteSets, Sequences

CONSTANTS
  Chips,        \* plaques, named by their UIDs
  Rounds,       \* sessions; a round's two keys are named by the round
  MaxPerActor,  \* live sessions of the one actor
  None, Factory

ASSUME RoundAssumption == Factory \notin Rounds /\ None \notin Rounds \cup Chips
ASSUME LimitAssumption == MaxPerActor \in Nat \ {0}

VARIABLES
  sess,     \* the rounds: the session at the server and the phone of each
  live,     \* Store.live
  perActor, \* Store.perActor of the one actor
  perUID,   \* Store.perUID
  closed,   \* Store.closed
  chip,     \* the chips
  tag       \* the tags rows

vars == <<sess, live, perActor, perUID, closed, chip, tag>>

NoTag == [keys |-> None, encoded |-> FALSE]
NoAnswer == [body |-> "none", card |-> None]

---------------------------------------------------------------------------
(* roundSteps: the exchanges of a round, the three of GetVersion as one and *)
(* the two of the authentication as one.                                    *)
Steps == <<"select", "version", "auth", "carduid", "write", "filekey", "settings", "appkey">>

StepOf(r) == Steps[sess[r].step]

(* What a good answer to each step looks like: a bare acknowledgement, or a *)
(* body that is bound to its command.                                       *)
BodyOf(step) == IF step \in {"write", "appkey"} THEN "ack" ELSE step

(* Mutant: the status word alone is looked at.                              *)
AcceptsStatus(r, a) == a.body # "error"

(* The accept function of the step the session is at, the UID apart.        *)
Accepts(r, a) == a.body = BodyOf(StepOf(r))

(* Mutant: the UID the chip answers under the session keys is not compared. *)
AnyCard(r, a) == TRUE

(* acceptGetCardUID: the chip that authenticated is the one of the row.     *)
SameCard(r, a) == StepOf(r) = "carduid" => a.card = sess[r].uid

---------------------------------------------------------------------------
Goes(r, q) == sess' = [sess EXCEPT ![r] = q]

(* retireLocked of every session of S.                                      *)
Retired(S) == live' = live \ S /\ perActor' = (IF perActor <= Cardinality(S) THEN 0
                                               ELSE perActor - Cardinality(S))
              /\ perUID' = [c \in Chips |-> IF perUID[c] \in S THEN None ELSE perUID[c]]

Idle(q) == [q EXCEPT !.busy = FALSE]
Late(q) == [q EXCEPT !.late = TRUE]

(* Mutant: a session is swept, aborted or closed under a step's feet.       *)
AnyTime(r) == TRUE

(* Only the step that works on a session may retire it.                     *)
MayRetire(r) == ~sess[r].busy

Expired(S) == {r \in S : sess[r].late /\ MayRetire(r)}

(* Begin: the sweep, the limit, the session and its first command.          *)
Begin(r) ==
  /\ sess[r].phone = "new" /\ ~closed
  /\ LET left == live \ Expired(live)
         n == IF perActor <= Cardinality(Expired(live)) THEN 0
              ELSE perActor - Cardinality(Expired(live))
     IN  /\ perUID' = [c \in Chips |-> IF perUID[c] \in Expired(live) THEN None ELSE perUID[c]]
         /\ IF n >= MaxPerActor
            THEN /\ live' = left /\ perActor' = n
                 /\ Goes(r, [sess[r] EXCEPT !.phone = "over"])
            ELSE /\ live' = left \cup {r} /\ perActor' = n + 1
                 /\ Goes(r, [sess[r] EXCEPT !.phone = "command"])
  /\ UNCHANGED <<closed, chip, tag>>

---------------------------------------------------------------------------
(* The phone (RelayLoop.run) and the chips. *)

(* What a chip in the field does with the command, and what it answers.     *)
Answered(r, c, step) ==
  LET x == chip[c]
      opened == IF x.app = Factory THEN r ELSE None
      said(ok) == IF ok THEN BodyOf(step) ELSE "error"
  IN  CASE step \in {"select", "version"} -> <<[x EXCEPT !.auth = None], BodyOf(step)>>
        [] step = "auth" -> <<[x EXCEPT !.auth = opened], said(opened = r)>>
        [] step = "carduid" -> <<x, said(x.auth = r)>>
        [] step = "write" ->
             IF x.locked /\ x.auth # r THEN <<x, "error">> ELSE <<[x EXCEPT !.ndef = TRUE], "ack">>
        [] step = "filekey" ->
             <<IF x.auth = r THEN [x EXCEPT !.file = r] ELSE x, said(x.auth = r)>>
        [] step = "settings" ->
             <<IF x.auth = r THEN [x EXCEPT !.locked = TRUE] ELSE x, said(x.auth = r)>>
        [] step = "appkey" ->
             <<IF x.auth = r THEN [x EXCEPT !.app = r, !.auth = None] ELSE x, said(x.auth = r)>>

(* The command goes to the chip the phone is held to; a chip it left has    *)
(* lost its session.                                                        *)
Relay(r, c) ==
  /\ sess[r].phone = "command"
  /\ LET did == Answered(r, c, StepOf(r))
     IN  /\ chip' = [d \in Chips |-> IF d = c THEN did[1]
                                     ELSE IF chip[d].auth = r THEN [chip[d] EXCEPT !.auth = None]
                                     ELSE chip[d]]
         /\ Goes(r, [sess[r] EXCEPT !.phone = "answer", !.answer = [body |-> did[2], card |-> c]])
  /\ UNCHANGED <<live, perActor, perUID, closed, tag>>

(* The chip is gone, or the server cannot be reached: the phone gives the   *)
(* round up and sends an abort.                                             *)
GiveUp(r) ==
  /\ sess[r].phone \in {"command", "waiting"}
  /\ Goes(r, [sess[r] EXCEPT !.phone = "aborting"])
  /\ UNCHANGED <<live, perActor, perUID, closed, chip, tag>>

(* Store.Abort.                                                             *)
Abort(r) ==
  /\ sess[r].phone = "aborting"
  /\ IF r \in live /\ MayRetire(r)
     THEN /\ Retired({r})
          /\ Goes(r, [Idle(sess[r]) EXCEPT !.phone = "over"])
     ELSE /\ Goes(r, [(IF r \in live THEN Late(sess[r]) ELSE sess[r]) EXCEPT !.phone = "over"])
          /\ UNCHANGED <<live, perActor, perUID>>
  /\ UNCHANGED <<closed, chip, tag>>

---------------------------------------------------------------------------
(* Store.Step. *)

(* checkout: the phone's answer, or the one before it delivered again.      *)
Checkout(r) ==
  /\ r \in live /\ ~closed /\ ~sess[r].busy
  /\ LET q == sess[r]
         work(a) == [q EXCEPT !.busy = TRUE, !.work = "accept", !.took = a]
     IN  IF q.late
         THEN /\ q.phone = "answer"
              /\ Retired({r})
              /\ Goes(r, [q EXCEPT !.phone = "over"])
         ELSE /\ \/ q.phone = "answer" /\ Goes(r, [work(q.answer) EXCEPT !.phone = "waiting"])
                 \/ q.took # NoAnswer /\ q.phone # "waiting" /\ Goes(r, work(q.took))
              /\ UNCHANGED <<live, perActor, perUID>>
  /\ UNCHANGED <<closed, chip, tag>>

(* A request that is cancelled when it arrives.                             *)
CheckoutCancelled(r) ==
  /\ r \in live /\ ~closed /\ sess[r].phone = "answer"
  /\ LET q == [sess[r] EXCEPT !.phone = "over"]
     IN  IF sess[r].busy
         THEN Goes(r, Late(q)) /\ UNCHANGED <<live, perActor, perUID>>
         ELSE Goes(r, q) /\ Retired({r})
  /\ UNCHANGED <<closed, chip, tag>>

(* The step is over: an error, the end, a cancelled request and a deadline  *)
(* that passed meanwhile retire the session (finishLocked).                 *)
Works(r, work) == sess[r].work = work
Advanced(q) == IF q.step = Len(Steps) THEN [q EXCEPT !.work = "done"]
               ELSE [q EXCEPT !.work = "finish", !.step = @ + 1]
Failed(q) == [q EXCEPT !.work = "failed"]

Accept(r) ==
  /\ Works(r, "accept")
  /\ LET q == sess[r]
         c == q.took.card
     IN  IF ~(Accepts(r, q.took) /\ SameCard(r, q.took))
         THEN Goes(r, Failed(q)) /\ UNCHANGED perUID
         ELSE IF StepOf(r) # "version"
         THEN Goes(r, Advanced(q)) /\ UNCHANGED perUID
         ELSE IF perUID[c] # None
         THEN Goes(r, Failed([q EXCEPT !.uid = c])) /\ UNCHANGED perUID
         ELSE /\ Goes(r, [q EXCEPT !.work = "insert", !.uid = c])
              /\ perUID' = [perUID EXCEPT ![c] = r]
  /\ UNCHANGED <<live, perActor, closed, chip, tag>>

(* InsertUnassigned: the UID is the key of the table.                       *)
InsertUnassigned(r) ==
  /\ Works(r, "insert")
  /\ LET c == sess[r].uid
     IN  IF tag[c] # NoTag
         THEN Goes(r, Failed(sess[r])) /\ UNCHANGED tag
         ELSE /\ tag' = [tag EXCEPT ![c] = [keys |-> r, encoded |-> FALSE]]
              /\ Goes(r, Advanced(sess[r])) \/ Goes(r, Failed(sess[r]))
  /\ UNCHANGED <<live, perActor, perUID, closed, chip>>

(* The transaction is not committed.                                        *)
InsertFails(r) ==
  /\ Works(r, "insert")
  /\ Goes(r, Failed(sess[r]))
  /\ UNCHANGED <<live, perActor, perUID, closed, chip, tag>>

(* finishLocked, and the next command to the phone if it still waits.       *)
Finish(r) ==
  /\ sess[r].work \in {"finish", "failed", "done"}
  /\ LET q == sess[r]
         next == IF q.work = "done" THEN "mark" ELSE "none"
         ends == q.work # "finish" \/ q.late
         told == IF q.phone # "waiting" THEN q.phone ELSE IF ends THEN "over" ELSE "command"
     IN  /\ Goes(r, [Idle(q) EXCEPT !.work = next, !.phone = told])
         /\ IF ends THEN Retired({r}) ELSE UNCHANGED <<live, perActor, perUID>>
  /\ UNCHANGED <<closed, chip, tag>>

(* The request is cancelled while its step runs, or the step panics.        *)
Cancelled(r) ==
  /\ sess[r].work \in {"finish", "failed", "accept"}
  /\ Goes(r, [Idle(sess[r]) EXCEPT !.work = "none", !.phone = "over"])
  /\ Retired({r})
  /\ UNCHANGED <<closed, chip, tag>>

(* markEncoded, after the session is gone; the stamp may fail.              *)
MarkEncoded(r) ==
  /\ Works(r, "mark")
  /\ Goes(r, [sess[r] EXCEPT !.work = "none"])
  /\ \/ tag' = [tag EXCEPT ![sess[r].uid].encoded = TRUE]
     \/ UNCHANGED tag
  /\ UNCHANGED <<live, perActor, perUID, closed, chip>>

---------------------------------------------------------------------------
(* The store's own clockwork and its end. *)

DeadlinePasses(r) ==
  /\ r \in live /\ ~sess[r].late
  /\ Goes(r, Late(sess[r]))
  /\ UNCHANGED <<live, perActor, perUID, closed, chip, tag>>

Sweep ==
  /\ ~closed /\ Expired(live) # {}
  /\ Retired(Expired(live))
  /\ sess' = [r \in Rounds |-> IF r \in Expired(live) THEN Idle(sess[r]) ELSE sess[r]]
  /\ UNCHANGED <<closed, chip, tag>>

(* Close and its passes over the sessions that were busy.                   *)
Close ==
  /\ ~closed
  /\ closed' = TRUE
  /\ LET idle == {r \in live : MayRetire(r)}
     IN  /\ Retired(idle)
         /\ sess' = [r \in Rounds |-> IF r \in idle THEN Idle(sess[r])
                                      ELSE IF r \in live THEN Late(sess[r]) ELSE sess[r]]
  /\ UNCHANGED <<chip, tag>>

(* The process dies and starts again with an empty store.                   *)
Restart ==
  /\ live # {} \/ closed \/ \E r \in Rounds : Works(r, "mark")
  /\ live' = {} /\ perActor' = 0 /\ perUID' = [c \in Chips |-> None] /\ closed' = FALSE
  /\ sess' = [r \in Rounds |-> [Idle(sess[r]) EXCEPT !.work = "none"]]
  /\ UNCHANGED <<chip, tag>>

---------------------------------------------------------------------------
Init ==
  /\ sess = [r \in Rounds |-> [phone |-> "new", busy |-> FALSE, late |-> FALSE, step |-> 1,
                               uid |-> None, work |-> "none", took |-> NoAnswer,
                               answer |-> NoAnswer]]
  /\ live = {} /\ perActor = 0 /\ perUID = [c \in Chips |-> None] /\ closed = FALSE
  /\ chip = [c \in Chips |-> [file |-> Factory, app |-> Factory, locked |-> FALSE,
                              ndef |-> FALSE, auth |-> None]]
  /\ tag = [c \in Chips |-> NoTag]

Round(r) ==
  \/ Begin(r) \/ GiveUp(r) \/ Abort(r) \/ Checkout(r) \/ CheckoutCancelled(r) \/ Accept(r)
  \/ InsertUnassigned(r) \/ InsertFails(r) \/ Finish(r) \/ Cancelled(r)
  \/ MarkEncoded(r) \/ DeadlinePasses(r)
  \/ \E c \in Chips : Relay(r, c)

Next == Sweep \/ Close \/ Restart \/ \E r \in Rounds : Round(r)

Spec == Init /\ [][Next]_vars

---------------------------------------------------------------------------
(* No chip ever carries a key that its own row does not hold, whichever     *)
(* chip the phone was held to at each command, wherever the round stopped   *)
(* and whatever died: ADR 0017 section 5.2, a plaque nobody can read again. *)
ChipKeysAreRecorded ==
  \A c \in Chips : {chip[c].file, chip[c].app} \ {Factory} \subseteq {tag[c].keys} \ {None}

(* A row stamped as encoded is a chip that took everything: the address,    *)
(* both keys of the row and the settings, with answers delivered twice.     *)
EncodedIsComplete ==
  \A c \in Chips : tag[c].encoded =>
    /\ chip[c].file = tag[c].keys /\ chip[c].app = tag[c].keys
    /\ chip[c].ndef /\ chip[c].locked

(* The limits count what lives: a session is retired once, by nobody while  *)
(* a step works on it (its keys are wiped then), it holds its plaque only   *)
(* while it lives, and a closed store keeps only what is still in a step.   *)
SessionsAreCounted ==
  /\ perActor = Cardinality(live)
  /\ \A r \in Rounds : sess[r].busy => r \in live
  /\ \A c \in Chips : perUID[c] # None => perUID[c] \in live /\ sess[perUID[c]].uid = c
  /\ closed => \A r \in live : sess[r].busy /\ sess[r].late
=============================================================================

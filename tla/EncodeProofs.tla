---------------------------- MODULE EncodeProofs ----------------------------
(* Proofs about Encode, for any number of plaques and rounds.               *)
EXTENDS Encode, TLAPS, FiniteSetTheorems

StepNames == {"select", "version", "auth", "carduid", "write", "filekey", "settings", "appkey"}
Bodies == {"none", "error", "select", "version", "auth", "carduid", "ack", "filekey", "settings"}

AnswerType == [body : Bodies, card : Chips \cup {None}]
SessType ==
  [phone : {"new", "command", "answer", "waiting", "aborting", "over"},
   busy : BOOLEAN, late : BOOLEAN, step : 1..8, uid : Chips \cup {None},
   work : {"none", "accept", "insert", "finish", "failed", "done", "mark"},
   took : AnswerType, answer : AnswerType]
ChipType ==
  [file : Rounds \cup {Factory}, app : Rounds \cup {Factory}, locked : BOOLEAN,
   ndef : BOOLEAN, auth : Rounds \cup {None}]
TagType == [keys : Rounds \cup {None}, encoded : BOOLEAN]

TypeOK ==
  /\ sess \in [Rounds -> SessType]
  /\ chip \in [Chips -> ChipType]
  /\ tag \in [Chips -> TagType]

---------------------------------------------------------------------------
(* The inductive invariant.                                                 *)

(* An answer is some chip's.  One to GetCardUID came while no other chip    *)
(* was authenticated by the round, and none has been since.                 *)
AnswerInv(r, a) ==
  /\ a.body # "none" => a.card \in Chips
  /\ a.body = "carduid" =>
       /\ sess[r].step >= 4
       /\ \A d \in Chips : chip[d].auth = r => d = a.card

(* A row is written before the version step ends, and past GetCardUID only  *)
(* the row's own chip is authenticated by the round.                        *)
RowInv(r) ==
  /\ sess[r].work = "insert" => sess[r].step = 2 /\ sess[r].uid \in Chips
  /\ sess[r].step >= 3 => sess[r].uid \in Chips /\ tag[sess[r].uid].keys = r
  /\ sess[r].step >= 5 => \A d \in Chips : chip[d].auth = r => d = sess[r].uid

KeysInv(c) ==
  /\ chip[c].file # Factory => chip[c].file = tag[c].keys
  /\ chip[c].app # Factory => chip[c].app = tag[c].keys

IInv ==
  /\ TypeOK
  /\ \A r \in Rounds : AnswerInv(r, sess[r].answer) /\ AnswerInv(r, sess[r].took) /\ RowInv(r)
  /\ \A c \in Chips : KeysInv(c)

---------------------------------------------------------------------------
\* The names of the constants' values are apart.
LEMMA Apart == Factory \notin Rounds /\ None \notin Rounds /\ None \notin Chips
BY RoundAssumption

\* The steps by their numbers.
LEMMA StepNumbers ==
  ASSUME NEW n \in 1..8
  PROVE  /\ Steps[n] \in StepNames
         /\ Steps[n] = "version" <=> n = 2
         /\ Steps[n] = "auth" <=> n = 3
         /\ Steps[n] = "carduid" <=> n = 4
         /\ Steps[n] = "filekey" <=> n = 6
         /\ Steps[n] = "appkey" <=> n = 8
         /\ Len(Steps) = 8
BY DEF Steps, StepNames

\* What TypeOK and IInv say of one session, one chip and one row.
LEMMA Parts ==
  ASSUME IInv
  PROVE  /\ \A r \in Rounds : /\ sess[r] \in SessType
                              /\ AnswerInv(r, sess[r].answer)
                              /\ AnswerInv(r, sess[r].took)
                              /\ RowInv(r)
         /\ \A c \in Chips : chip[c] \in ChipType /\ tag[c] \in TagType /\ KeysInv(c)
BY DEF IInv, TypeOK

---------------------------------------------------------------------------
\* A step that leaves the chips and the keys of the rows alone, moves no session on,
\* gives no session another plaque and takes up no new answer keeps the invariant.
LEMMA Quiet ==
  ASSUME IInv,
         sess' \in [Rounds -> SessType], tag' \in [Chips -> TagType], chip' = chip,
         \A c \in Chips : tag'[c].keys = tag[c].keys,
         \A r \in Rounds : /\ sess'[r].step = sess[r].step
                           /\ sess'[r].uid = sess[r].uid
                           /\ sess'[r].answer = sess[r].answer
                           /\ sess'[r].took \in {sess[r].took, sess[r].answer}
                           /\ sess'[r].work = "insert" => sess[r].work = "insert"
  PROVE  IInv'
<1>1. TypeOK'
  BY DEF IInv, TypeOK
<1>2. ASSUME NEW r \in Rounds
      PROVE  AnswerInv(r, sess[r].answer)' /\ AnswerInv(r, sess[r].took)' /\ RowInv(r)'
  <2>1. AnswerInv(r, sess[r].answer) /\ AnswerInv(r, sess[r].took) /\ RowInv(r)
    BY Parts
  <2>2. AnswerInv(r, sess[r].answer)' /\ AnswerInv(r, sess[r].took)'
    BY <2>1 DEF AnswerInv
  <2>3. RowInv(r)'
    BY <2>1 DEF RowInv
  <2> QED
    BY <2>2, <2>3
<1>3. ASSUME NEW c \in Chips
      PROVE  KeysInv(c)'
  BY Parts DEF KeysInv
<1> QED
  BY <1>1, <1>2, <1>3 DEF IInv

\* The same for a step of one session.
LEMMA QuietGoes ==
  ASSUME IInv, NEW r \in Rounds, NEW q \in SessType, Goes(r, q),
         tag' \in [Chips -> TagType], chip' = chip,
         \A c \in Chips : tag'[c].keys = tag[c].keys,
         q.step = sess[r].step, q.uid = sess[r].uid, q.answer = sess[r].answer,
         q.took \in {sess[r].took, sess[r].answer},
         q.work = "insert" => sess[r].work = "insert"
  PROVE  IInv'
<1>1. sess \in [Rounds -> SessType]
  BY DEF IInv, TypeOK
<1>2. sess' \in [Rounds -> SessType]
  BY <1>1 DEF Goes
<1>3. \A x \in Rounds : sess'[x] = IF x = r THEN q ELSE sess[x]
  BY <1>1 DEF Goes
<1> QED
  BY <1>2, <1>3, Quiet

---------------------------------------------------------------------------
\* The phone's steps apart from the relayed command, and the end of a session.
LEMMA PhoneSteps ==
  ASSUME IInv, NEW r \in Rounds,
         Begin(r) \/ GiveUp(r) \/ Abort(r) \/ CheckoutCancelled(r) \/ DeadlinePasses(r)
  PROVE  IInv'
<1> DEFINE s == sess[r]
<1>1. s \in SessType /\ tag \in [Chips -> TagType]
  BY Parts DEF IInv, TypeOK
<1>2. \A p \in {"over", "command", "aborting"} : [s EXCEPT !.phone = p] \in SessType
  BY <1>1 DEF SessType
<1>3. \A q \in SessType : Idle(q) \in SessType /\ Late(q) \in SessType
  BY DEF SessType, Idle, Late
<1>4. CASE Begin(r)
  <2>1. PICK p \in {"over", "command"} : Goes(r, [s EXCEPT !.phone = p])
    BY <1>4 DEF Begin
  <2> QED
    BY <1>1, <1>2, <1>4, <2>1, QuietGoes DEF Begin, SessType
<1>5. CASE GiveUp(r)
  BY <1>1, <1>2, <1>5, QuietGoes DEF GiveUp, SessType
<1>6. CASE Abort(r)
  <2>1. PICK q \in {s, Idle(s), Late(s)} : Goes(r, [q EXCEPT !.phone = "over"])
    BY <1>6 DEF Abort
  <2>2. [q EXCEPT !.phone = "over"] \in SessType
    BY <1>1, <1>3 DEF SessType
  <2>3. /\ q.step = s.step /\ q.uid = s.uid /\ q.answer = s.answer
        /\ q.took = s.took /\ q.work = s.work
    BY <1>1 DEF SessType, Idle, Late
  <2> QED
    BY <1>1, <1>3, <1>6, <2>1, <2>2, <2>3, QuietGoes DEF Abort, SessType
<1>7. CASE CheckoutCancelled(r)
  <2> DEFINE o == [s EXCEPT !.phone = "over"]
  <2>1. PICK q \in {o, Late(o)} : Goes(r, q)
    BY <1>7 DEF CheckoutCancelled
  <2>2. q \in SessType
    BY <1>2, <1>3
  <2>3. /\ q.step = s.step /\ q.uid = s.uid /\ q.answer = s.answer
        /\ q.took = s.took /\ q.work = s.work
    BY <1>1 DEF SessType, Late
  <2> QED
    BY <1>1, <1>7, <2>1, <2>2, <2>3, QuietGoes DEF CheckoutCancelled
<1>8. CASE DeadlinePasses(r)
  <2>1. /\ Late(s).step = s.step /\ Late(s).uid = s.uid /\ Late(s).answer = s.answer
        /\ Late(s).took = s.took /\ Late(s).work = s.work
    BY <1>1 DEF SessType, Late
  <2> QED
    BY <1>1, <1>3, <1>8, <2>1, QuietGoes DEF DeadlinePasses
<1> QED
  BY <1>4, <1>5, <1>6, <1>7, <1>8

\* An answer is taken up; a step ends.
LEMMA StepEnds ==
  ASSUME IInv, NEW r \in Rounds,
         Checkout(r) \/ InsertFails(r) \/ Finish(r) \/ Cancelled(r) \/ MarkEncoded(r)
  PROVE  IInv'
<1> DEFINE s == sess[r]
<1>1. s \in SessType /\ tag \in [Chips -> TagType]
  BY Parts DEF IInv, TypeOK
<1>2. CASE Checkout(r)
  <2>1. PICK q : /\ Goes(r, q) /\ chip' = chip /\ tag' = tag
                 /\ \/ q = [s EXCEPT !.phone = "over"]
                    \/ q = [[s EXCEPT !.busy = TRUE, !.work = "accept", !.took = s.answer]
                              EXCEPT !.phone = "waiting"]
                    \/ q = [s EXCEPT !.busy = TRUE, !.work = "accept", !.took = s.took]
    BY <1>2 DEF Checkout
  <2>2. q \in SessType
    BY <1>1, <2>1 DEF SessType
  <2>3. /\ q.step = s.step /\ q.uid = s.uid /\ q.answer = s.answer
        /\ q.took \in {s.took, s.answer} /\ (q.work = "insert" => s.work = "insert")
    BY <1>1, <2>1 DEF SessType
  <2> QED
    BY <1>1, <2>1, <2>2, <2>3, QuietGoes
<1>3. CASE InsertFails(r)
  <2>1. Failed(s) \in SessType
    BY <1>1 DEF SessType, Failed
  <2>2. /\ Failed(s).step = s.step /\ Failed(s).uid = s.uid /\ Failed(s).answer = s.answer
        /\ Failed(s).took = s.took /\ Failed(s).work = "failed"
    BY <1>1 DEF SessType, Failed
  <2> QED
    BY <1>1, <1>3, <2>1, <2>2, QuietGoes DEF InsertFails
<1>4. CASE Finish(r)
  <2>1. PICK q : /\ Goes(r, q)
                 /\ \E w \in {"mark", "none"}, p \in {s.phone, "over", "command"} :
                       q = [s EXCEPT !.busy = FALSE, !.work = w, !.phone = p]
    BY <1>1, <1>4 DEF Finish, Idle, SessType
  <2>2. /\ q \in SessType /\ q.step = s.step /\ q.uid = s.uid /\ q.answer = s.answer
        /\ q.took = s.took /\ q.work # "insert"
    BY <1>1, <2>1 DEF SessType
  <2> QED
    BY <1>1, <1>4, <2>1, <2>2, QuietGoes DEF Finish
<1>5. CASE Cancelled(r)
  <2> DEFINE q == [Idle(s) EXCEPT !.work = "none", !.phone = "over"]
  <2>1. /\ q \in SessType /\ q.step = s.step /\ q.uid = s.uid /\ q.answer = s.answer
        /\ q.took = s.took /\ q.work # "insert"
    BY <1>1 DEF SessType, Idle
  <2> QED
    BY <1>1, <1>5, <2>1, QuietGoes DEF Cancelled
<1>6. CASE MarkEncoded(r)
  <2> DEFINE q == [s EXCEPT !.work = "none"]
  <2>1. /\ q \in SessType /\ q.step = s.step /\ q.uid = s.uid /\ q.answer = s.answer
        /\ q.took = s.took /\ q.work # "insert"
    BY <1>1 DEF SessType
  <2>2. tag' \in [Chips -> TagType] /\ \A c \in Chips : tag'[c].keys = tag[c].keys
    <3>1. \A t \in TagType : [t EXCEPT !.encoded = TRUE] \in TagType
                             /\ [t EXCEPT !.encoded = TRUE].keys = t.keys
      BY DEF TagType
    <3> DEFINE stamped == [tag[s.uid] EXCEPT !.encoded = TRUE]
    <3>2. \/ tag' = tag
          \/ tag' = [tag EXCEPT ![s.uid] = stamped]
      BY <1>6 DEF MarkEncoded
    <3>3. s.uid \in Chips => stamped \in TagType /\ stamped.keys = tag[s.uid].keys
      BY <1>1, <3>1
    <3> HIDE DEF stamped
    <3> QED
      BY <1>1, <3>2, <3>3
  <2> QED
    BY <1>6, <2>1, <2>2, QuietGoes DEF MarkEncoded
<1> QED
  BY <1>2, <1>3, <1>4, <1>5, <1>6

\* p is the session q as far as the invariant goes.
Kept(q, p) ==
  /\ p \in SessType /\ p.step = q.step /\ p.uid = q.uid /\ p.answer = q.answer
  /\ p.took = q.took /\ (p.work = "insert" => q.work = "insert")

\* The sweeper, the closing and the death of the process.
LEMMA StoreSteps ==
  ASSUME IInv, Sweep \/ Close \/ Restart
  PROVE  IInv'
<1>1. /\ sess \in [Rounds -> SessType] /\ tag \in [Chips -> TagType]
      /\ chip' = chip /\ tag' = tag
  BY DEF IInv, TypeOK, Sweep, Close, Restart
<1>2. ASSUME NEW q \in SessType
      PROVE  /\ Kept(q, q) /\ Kept(q, Idle(q)) /\ Kept(q, Late(q))
             /\ Kept(q, [Idle(q) EXCEPT !.work = "none"])
  BY DEF Kept, SessType, Idle, Late
<1>3. \A r \in Rounds : sess[r] \in SessType
  BY <1>1
<1>4. ASSUME NEW r \in Rounds
      PROVE  Kept(sess[r], sess'[r])
  <2>1. CASE Sweep
    <3>1. sess'[r] = Idle(sess[r]) \/ sess'[r] = sess[r]
      BY <2>1 DEF Sweep
    <3> QED
      BY <1>2, <1>3, <3>1
  <2>2. CASE Close
    <3>1. sess'[r] = Idle(sess[r]) \/ sess'[r] = Late(sess[r]) \/ sess'[r] = sess[r]
      BY <2>2 DEF Close
    <3> QED
      BY <1>2, <1>3, <3>1
  <2>3. CASE Restart
    <3>1. sess'[r] = [Idle(sess[r]) EXCEPT !.work = "none"]
      BY <2>3 DEF Restart
    <3> QED
      BY <1>2, <1>3, <3>1
  <2> QED
    BY <2>1, <2>2, <2>3
<1>5. sess' = [r \in Rounds |-> sess'[r]]
  <2>1. CASE Sweep
    BY <2>1 DEF Sweep
  <2>2. CASE Close
    BY <2>2 DEF Close
  <2>3. CASE Restart
    BY <2>3 DEF Restart
  <2> QED
    BY <2>1, <2>2, <2>3
<1>6. sess' \in [Rounds -> SessType]
  BY <1>4, <1>5 DEF Kept
<1> QED
  BY <1>1, <1>4, <1>6, Quiet DEF Kept

---------------------------------------------------------------------------
\* A step of the round accepts its answer: the session moves on by one step, or learns
\* its plaque.  Past GetCardUID the plaque is the chip that answered.
LEMMA AcceptKeeps ==
  ASSUME IInv, NEW r \in Rounds, Accept(r)
  PROVE  IInv'
<1> DEFINE s == sess[r]
<1>1. /\ sess \in [Rounds -> SessType] /\ s \in SessType
      /\ tag \in [Chips -> TagType] /\ chip' = chip /\ tag' = tag
  BY Parts DEF IInv, TypeOK, Accept
<1>2. s.step \in 1..8
  BY <1>1 DEF SessType
<1>3. CASE \/ Goes(r, Failed(s))
           \/ Goes(r, Advanced(s)) /\ s.step = 8
  <2>1. PICK w \in {"failed", "done"} : Goes(r, [s EXCEPT !.work = w])
    BY <1>2, <1>3, StepNumbers DEF Failed, Advanced
  <2> QED
    BY <1>1, <2>1, QuietGoes DEF SessType
<1>4. CASE /\ Goes(r, Advanced(s)) /\ s.step # 8 /\ StepOf(r) # "version"
           /\ Accepts(r, s.took) /\ SameCard(r, s.took)
  <2> DEFINE q == [s EXCEPT !.work = "finish", !.step = s.step + 1]
  <2>0. s.step \in 1..7 /\ s.step # 2
    BY <1>2, <1>4, StepNumbers DEF StepOf
  <2>1. Goes(r, q)
    <3>1. Len(Steps) = 8
      BY <1>2, StepNumbers
    <3>2. Advanced(s) = q
      BY <1>4, <3>1, Zenon DEF Advanced
    <3> QED
      BY <1>4, <3>2
  <2>2. /\ q \in SessType /\ q.step = s.step + 1 /\ q.uid = s.uid
        /\ q.answer = s.answer /\ q.took = s.took /\ q.work = "finish"
    <3>1. s.step + 1 \in 1..8
      BY <2>0
    <3> QED
      BY <1>1, <3>1 DEF SessType
  <2>3. s.step = 4 => s.took.body = "carduid" /\ s.took.card = s.uid
    BY <1>2, <1>4, StepNumbers DEF Accepts, SameCard, BodyOf, StepOf
  <2> HIDE DEF q
  <2>4. sess' \in [Rounds -> SessType] /\ \A x \in Rounds : sess'[x] = IF x = r THEN q ELSE sess[x]
    BY <1>1, <2>1, <2>2 DEF Goes
  <2>5. ASSUME NEW x \in Rounds
        PROVE  AnswerInv(x, sess[x].answer)' /\ AnswerInv(x, sess[x].took)'
    BY <1>1, <1>2, <2>2, <2>4, Parts DEF AnswerInv
  <2>6. ASSUME NEW x \in Rounds
        PROVE  RowInv(x)'
    <3>1. CASE x # r
      BY <1>1, <2>4, <3>1, Parts DEF RowInv
    <3>2. CASE x = r
      <4>1. RowInv(r) /\ AnswerInv(r, s.took)
        BY Parts
      <4>2. sess'[r] = q
        BY <2>4
      <4>3. q.step >= 3 => q.uid \in Chips /\ tag[q.uid].keys = r
        BY <2>0, <2>2, <4>1 DEF RowInv
      <4>4. q.step >= 5 => \A d \in Chips : chip[d].auth = r => d = q.uid
        BY <2>0, <2>2, <2>3, <4>1 DEF RowInv, AnswerInv
      <4> QED
        BY <1>1, <2>2, <3>2, <4>2, <4>3, <4>4 DEF RowInv
    <3> QED
      BY <3>1, <3>2
  <2>7. \A c \in Chips : KeysInv(c)'
    BY <1>1, Parts DEF KeysInv
  <2>8. TypeOK'
    BY <1>1, <2>4 DEF IInv, TypeOK
  <2> QED
    BY <2>5, <2>6, <2>7, <2>8 DEF IInv
<1>5. CASE /\ s.step = 2 /\ s.took.card \in Chips
           /\ \E w \in {"failed", "insert"} : Goes(r, [s EXCEPT !.work = w, !.uid = s.took.card])
  <2>1. PICK w \in {"failed", "insert"} : Goes(r, [s EXCEPT !.work = w, !.uid = s.took.card])
    BY <1>5
  <2> DEFINE q == [s EXCEPT !.work = w, !.uid = s.took.card]
  <2>2. /\ q \in SessType /\ q.step = 2 /\ q.uid \in Chips
        /\ q.answer = s.answer /\ q.took = s.took
    BY <1>1, <1>5 DEF SessType
  <2>3. Goes(r, q)
    BY <2>1
  <2> HIDE DEF q
  <2>4. sess' \in [Rounds -> SessType] /\ \A x \in Rounds : sess'[x] = IF x = r THEN q ELSE sess[x]
    BY <1>1, <2>2, <2>3 DEF Goes
  <2>5. ASSUME NEW x \in Rounds
        PROVE  AnswerInv(x, sess[x].answer)' /\ AnswerInv(x, sess[x].took)'
    BY <1>1, <1>5, <2>2, <2>4, Parts DEF AnswerInv
  <2>6. ASSUME NEW x \in Rounds
        PROVE  RowInv(x)'
    BY <1>1, <2>2, <2>4, Parts DEF RowInv
  <2>7. \A c \in Chips : KeysInv(c)'
    BY <1>1, Parts DEF KeysInv
  <2>8. TypeOK'
    BY <1>1, <2>4 DEF IInv, TypeOK
  <2> QED
    BY <2>5, <2>6, <2>7, <2>8 DEF IInv
<1>6. QED
  <2>1. CASE ~(Accepts(r, s.took) /\ SameCard(r, s.took))
    BY <1>3, <2>1 DEF Accept
  <2>2. CASE Accepts(r, s.took) /\ SameCard(r, s.took) /\ StepOf(r) # "version"
    BY <1>3, <1>4, <2>2 DEF Accept
  <2>3. CASE Accepts(r, s.took) /\ SameCard(r, s.took) /\ StepOf(r) = "version"
    <3>1. s.step = 2 /\ s.took.body = "version"
      BY <1>2, <2>3, StepNumbers DEF Accepts, StepOf, BodyOf
    <3>2. s.took.card \in Chips
      BY <3>1, Parts DEF AnswerInv
    <3>3. \E w \in {"failed", "insert"} : Goes(r, [s EXCEPT !.work = w, !.uid = s.took.card])
      <4>1. Failed([s EXCEPT !.uid = s.took.card])
              = [s EXCEPT !.work = "failed", !.uid = s.took.card]
        BY <1>1 DEF Failed, SessType
      <4> QED
        BY <2>3, <4>1 DEF Accept
    <3> QED
      BY <1>5, <3>1, <3>2, <3>3
  <2> QED
    BY <2>1, <2>2, <2>3

\* The row is written: no row of another round is touched, and a chip without a row
\* carries no key yet.
LEMMA InsertKeeps ==
  ASSUME IInv, NEW r \in Rounds, InsertUnassigned(r)
  PROVE  IInv'
<1> DEFINE s == sess[r]
           c == s.uid
<1>1. /\ sess \in [Rounds -> SessType] /\ s \in SessType
      /\ tag \in [Chips -> TagType] /\ chip' = chip
  BY Parts DEF IInv, TypeOK, InsertUnassigned
<1>2. s.step = 2 /\ c \in Chips
  BY Parts DEF InsertUnassigned, Works, RowInv
<1>3. CASE tag' = tag /\ Goes(r, Failed(s))
  BY <1>1, <1>3, QuietGoes DEF Failed, SessType
<1>4. CASE /\ tag[c] = NoTag /\ tag' = [tag EXCEPT ![c] = [keys |-> r, encoded |-> FALSE]]
           /\ Goes(r, Advanced(s)) \/ Goes(r, Failed(s))
  <2>1. Advanced(s) = [s EXCEPT !.work = "finish", !.step = 3]
    <3>1. Len(Steps) = 8
      BY <1>2, StepNumbers
    <3>2. Advanced(s) = [s EXCEPT !.work = "finish", !.step = s.step + 1]
      BY <1>2, <3>1 DEF Advanced
    <3> QED
      BY <1>2, <3>2
  <2>2. PICK q : /\ Goes(r, q)
                 /\ \/ q = [s EXCEPT !.work = "finish", !.step = 3]
                    \/ q = [s EXCEPT !.work = "failed"]
    BY <1>4, <2>1 DEF Failed
  <2>3. /\ q \in SessType /\ q.step \in {2, 3} /\ q.uid = c
        /\ q.answer = s.answer /\ q.took = s.took /\ q.work # "insert"
    <3>1. CASE q = [s EXCEPT !.work = "finish", !.step = 3]
      <4>1. s \in SessType
        BY <1>1
      <4> DEFINE p(n) == [s EXCEPT !.work = "finish", !.step = n]
      <4>2. \A n \in 1..8 : /\ p(n) \in SessType /\ p(n).step = n /\ p(n).uid = s.uid
                            /\ p(n).answer = s.answer /\ p(n).took = s.took
                            /\ p(n).work = "finish"
        BY <4>1 DEF SessType
      <4>3. 3 \in 1..8
        OBVIOUS
      <4> QED
        BY <3>1, <4>2, <4>3
    <3>2. CASE q = [s EXCEPT !.work = "failed"]
      BY <1>1, <1>2, <3>2 DEF SessType
    <3> QED
      BY <2>2, <3>1, <3>2
  <2>4. sess' \in [Rounds -> SessType] /\ \A x \in Rounds : sess'[x] = IF x = r THEN q ELSE sess[x]
    BY <1>1, <2>2, <2>3 DEF Goes
  <2>5. [keys |-> r, encoded |-> FALSE] \in TagType
    BY DEF TagType
  <2>6. /\ tag' \in [Chips -> TagType]
        /\ \A d \in Chips : tag'[d].keys = IF d = c THEN r ELSE tag[d].keys
    BY <1>1, <1>2, <1>4, <2>5
  <2>7. tag[c].keys = None
    BY <1>4 DEF NoTag
  <2>8. ASSUME NEW x \in Rounds
        PROVE  AnswerInv(x, sess[x].answer)' /\ AnswerInv(x, sess[x].took)'
    BY <1>1, <1>2, <2>3, <2>4, Parts DEF AnswerInv
  <2>9. ASSUME NEW x \in Rounds
        PROVE  RowInv(x)'
    <3>1. RowInv(x) /\ x # None
      BY Parts, Apart
    <3>2. CASE x = r
      BY <1>1, <1>2, <2>3, <2>4, <2>6, <3>2 DEF RowInv
    <3>3. CASE x # r
      BY <1>1, <2>4, <2>6, <2>7, <3>1, <3>3 DEF RowInv
    <3> QED
      BY <3>2, <3>3
  <2>10. ASSUME NEW d \in Chips
         PROVE  KeysInv(d)'
    <3>1. KeysInv(d) /\ chip[d] \in ChipType
      BY Parts
    <3> QED
      BY <1>1, <2>6, <2>7, <3>1, Apart DEF KeysInv, ChipType
  <2>11. TypeOK'
    BY <1>1, <2>4, <2>6 DEF IInv, TypeOK
  <2> QED
    BY <2>8, <2>9, <2>10, <2>11 DEF IInv
<1> QED
  BY <1>3, <1>4 DEF InsertUnassigned

---------------------------------------------------------------------------
\* What a chip does: it is authenticated by nobody new except by the round at its
\* authentication step, takes a key only from the round that authenticated it, and
\* answers GetCardUID only to that round.
LEMMA AnsweredIs ==
  ASSUME NEW r \in Rounds, NEW c \in Chips, NEW step \in StepNames, chip[c] \in ChipType
  PROVE  LET y == Answered(r, c, step)[1]
             b == Answered(r, c, step)[2]
         IN  /\ y \in ChipType /\ b \in Bodies \ {"none"}
             /\ y.auth \in {chip[c].auth, None} \/ (step = "auth" /\ y.auth = r)
             /\ y.file = chip[c].file \/ (step = "filekey" /\ chip[c].auth = r /\ y.file = r)
             /\ y.app = chip[c].app \/ (step = "appkey" /\ chip[c].auth = r /\ y.app = r)
             /\ b = "carduid" => step = "carduid"
<1> DEFINE x == chip[c]
<1>1. CASE step \in {"select", "version"}
  BY <1>1 DEF Answered, BodyOf, Bodies, ChipType
<1>2. CASE step = "auth"
  BY <1>2 DEF Answered, BodyOf, Bodies, ChipType
<1>3. CASE step = "carduid"
  BY <1>3 DEF Answered, BodyOf, Bodies, ChipType
<1>4. CASE step = "write"
  BY <1>4 DEF Answered, BodyOf, Bodies, ChipType
<1>5. CASE step = "filekey"
  BY <1>5 DEF Answered, BodyOf, Bodies, ChipType
<1>6. CASE step = "settings"
  BY <1>6 DEF Answered, BodyOf, Bodies, ChipType
<1>7. CASE step = "appkey"
  BY <1>7 DEF Answered, BodyOf, Bodies, ChipType
<1> QED
  BY <1>1, <1>2, <1>3, <1>4, <1>5, <1>6, <1>7 DEF StepNames

\* A command reaches a chip: it can give a key only to the chip the round authenticated,
\* which past GetCardUID is the one of the row that holds the key.
LEMMA RelayKeeps ==
  ASSUME IInv, NEW r \in Rounds, NEW c \in Chips, Relay(r, c)
  PROVE  IInv'
<1> DEFINE s == sess[r]
           step == StepOf(r)
           y == Answered(r, c, step)[1]
           b == Answered(r, c, step)[2]
           a == [body |-> b, card |-> c]
           q == [s EXCEPT !.phone = "answer", !.answer = a]
<1>1. /\ sess \in [Rounds -> SessType] /\ s \in SessType /\ chip \in [Chips -> ChipType]
      /\ tag \in [Chips -> TagType] /\ tag' = tag /\ s.step \in 1..8
  BY Parts DEF IInv, TypeOK, Relay, SessType
<1>2. step \in StepNames
  BY <1>1, StepNumbers DEF StepOf
<1>3. /\ y \in ChipType /\ b \in Bodies \ {"none"}
      /\ y.auth \in {chip[c].auth, None} \/ (step = "auth" /\ y.auth = r)
      /\ y.file = chip[c].file \/ (step = "filekey" /\ chip[c].auth = r /\ y.file = r)
      /\ y.app = chip[c].app \/ (step = "appkey" /\ chip[c].auth = r /\ y.app = r)
      /\ b = "carduid" => step = "carduid"
  BY <1>1, <1>2, AnsweredIs
<1>4. /\ Goes(r, q)
      /\ chip' = [d \in Chips |-> IF d = c THEN y
                                  ELSE IF chip[d].auth = r THEN [chip[d] EXCEPT !.auth = None]
                                  ELSE chip[d]]
  BY DEF Relay
<1>5. /\ step = "auth" <=> s.step = 3
      /\ step = "carduid" <=> s.step = 4
      /\ step = "filekey" <=> s.step = 6
      /\ step = "appkey" <=> s.step = 8
  BY <1>1, StepNumbers DEF StepOf
<1> HIDE DEF y, b, step
<1>6. a \in AnswerType
  BY <1>3 DEF AnswerType
<1>7. /\ q \in SessType /\ q.step = s.step /\ q.uid = s.uid /\ q.work = s.work
      /\ q.took = s.took /\ q.answer = a
  BY <1>1, <1>6 DEF SessType
<1> HIDE DEF q
<1>8. sess' \in [Rounds -> SessType] /\ \A x \in Rounds : sess'[x] = IF x = r THEN q ELSE sess[x]
  BY <1>1, <1>4, <1>7 DEF Goes
<1>9. ASSUME NEW d \in Chips, d # c
      PROVE  /\ chip'[d] \in ChipType
             /\ chip'[d].file = chip[d].file /\ chip'[d].app = chip[d].app
             /\ chip'[d].auth = IF chip[d].auth = r THEN None ELSE chip[d].auth
  BY <1>1, <1>4, <1>9 DEF ChipType
<1>10. chip'[c] = y
  BY <1>4
<1>11. chip' \in [Chips -> ChipType]
  <2>1. \A d \in Chips : chip'[d] \in ChipType
    BY <1>3, <1>9, <1>10
  <2> QED
    BY <1>4, <2>1
\* The round's own chip and the others.
<1>12. ASSUME NEW x \in Rounds, NEW d \in Chips, chip'[d].auth = x
       PROVE  chip[d].auth = x \/ (x = r /\ s.step = 3)
  <2>1. x # None
    BY Apart
  <2>2. CASE d = c
    BY <1>3, <1>5, <1>10, <1>12, <2>1, <2>2
  <2>3. CASE d # c
    BY <1>9, <1>12, <2>1, <2>3
  <2> QED
    BY <2>2, <2>3
<1>13. \A d \in Chips : chip'[d].auth = r => d = c
  BY <1>9, Apart
<1>14. ASSUME NEW x \in Rounds
       PROVE  AnswerInv(x, sess[x].answer)' /\ AnswerInv(x, sess[x].took)'
  <2>1. AnswerInv(x, sess[x].answer) /\ AnswerInv(x, sess[x].took)
    BY Parts
  <2>2. AnswerInv(x, sess[x].took)'
    BY <1>7, <1>8, <1>12, <2>1 DEF AnswerInv
  <2>3. CASE x # r
    BY <1>8, <1>12, <2>1, <2>2, <2>3 DEF AnswerInv
  <2>4. CASE x = r
    <3>1. sess'[r].answer = a /\ sess'[r].step = s.step
      BY <1>7, <1>8
    <3>2. a.body = b /\ a.card = c
      OBVIOUS
    <3> HIDE DEF a
    <3>3. AnswerInv(r, sess[r].answer)'
      BY <1>3, <1>5, <1>13, <3>1, <3>2 DEF AnswerInv
    <3> QED
      BY <2>2, <2>4, <3>3
  <2> QED
    BY <2>3, <2>4
<1>15. ASSUME NEW x \in Rounds
       PROVE  RowInv(x)'
  <2>1. RowInv(x)
    BY Parts
  <2>2. /\ sess'[x].step = sess[x].step /\ sess'[x].uid = sess[x].uid
        /\ sess'[x].work = sess[x].work
    BY <1>7, <1>8
  <2> QED
    BY <1>1, <1>12, <2>1, <2>2 DEF RowInv
<1>16. ASSUME NEW d \in Chips
       PROVE  KeysInv(d)'
  <2>1. KeysInv(d) /\ RowInv(r)
    BY Parts
  <2>2. CASE d # c
    BY <1>1, <1>9, <2>1, <2>2 DEF KeysInv
  <2>3. CASE d = c
    <3>1. (s.step = 6 \/ s.step = 8) /\ chip[c].auth = r => tag[c].keys = r
      BY <2>1 DEF RowInv
    <3> QED
      BY <1>1, <1>3, <1>5, <1>10, <2>1, <2>3, <3>1 DEF KeysInv
  <2> QED
    BY <2>2, <2>3
<1> QED
  BY <1>1, <1>8, <1>11, <1>14, <1>15, <1>16 DEF IInv, TypeOK

---------------------------------------------------------------------------
\* The invariant holds at first: no chip has a key of ours, and nobody has answered.
LEMMA InitIInv == Init => IInv
<1> SUFFICES ASSUME Init PROVE IInv
  OBVIOUS
<1> DEFINE s == [phone |-> "new", busy |-> FALSE, late |-> FALSE, step |-> 1,
                 uid |-> None, work |-> "none", took |-> NoAnswer, answer |-> NoAnswer]
           x == [file |-> Factory, app |-> Factory, locked |-> FALSE,
                 ndef |-> FALSE, auth |-> None]
<1>1. NoAnswer \in AnswerType
  BY DEF NoAnswer, AnswerType, Bodies
<1>2. s \in SessType /\ x \in ChipType /\ NoTag \in TagType
  BY <1>1 DEF SessType, ChipType, TagType, NoTag
<1>3. /\ sess = [r \in Rounds |-> s] /\ chip = [c \in Chips |-> x]
      /\ tag = [c \in Chips |-> NoTag]
  BY Zenon DEF Init
<1>4. TypeOK
  BY <1>2, <1>3 DEF TypeOK
<1>5. \A r \in Rounds : AnswerInv(r, sess[r].answer) /\ AnswerInv(r, sess[r].took) /\ RowInv(r)
  BY <1>3 DEF AnswerInv, RowInv, NoAnswer
<1>6. \A c \in Chips : KeysInv(c)
  BY <1>3 DEF KeysInv
<1> QED
  BY <1>4, <1>5, <1>6 DEF IInv

\* Every step keeps the invariant.
LEMMA NextIInv == IInv /\ [Next]_vars => IInv'
<1> SUFFICES ASSUME IInv, [Next]_vars PROVE IInv'
  OBVIOUS
<1>1. CASE Sweep \/ Close \/ Restart
  BY <1>1, StoreSteps
<1>2. CASE \E r \in Rounds : Round(r)
  <2>1. PICK r \in Rounds : Round(r)
    BY <1>2
  <2>2. CASE Begin(r) \/ GiveUp(r) \/ Abort(r) \/ CheckoutCancelled(r) \/ DeadlinePasses(r)
    BY <2>2, PhoneSteps
  <2>3. CASE Checkout(r) \/ InsertFails(r) \/ Finish(r) \/ Cancelled(r) \/ MarkEncoded(r)
    BY <2>3, StepEnds
  <2>4. CASE Accept(r)
    BY <2>4, AcceptKeeps
  <2>5. CASE InsertUnassigned(r)
    BY <2>5, InsertKeeps
  <2>6. CASE \E c \in Chips : Relay(r, c)
    BY <2>6, RelayKeeps
  <2> QED
    BY <2>1, <2>2, <2>3, <2>4, <2>5, <2>6, Zenon DEF Round
<1>3. CASE UNCHANGED vars
  <2>1. sess' = sess /\ chip' = chip /\ tag' = tag
    BY <1>3 DEF vars
  <2>2. sess \in [Rounds -> SessType] /\ tag \in [Chips -> TagType]
    BY DEF IInv, TypeOK
  <2> QED
    BY <2>1, <2>2, Quiet
<1> QED
  BY <1>1, <1>2, <1>3, Zenon DEF Next

(* The invariant gives the property: what is neither the factory's key nor  *)
(* missing is the key of the row, which is a round's.                       *)
LEMMA IInvKeys == IInv => ChipKeysAreRecorded
<1> SUFFICES ASSUME IInv, NEW c \in Chips, NEW k \in {chip[c].file, chip[c].app} \ {Factory}
             PROVE  k \in {tag[c].keys} \ {None}
  BY DEF ChipKeysAreRecorded
<1>1. KeysInv(c) /\ chip[c] \in ChipType
  BY Parts
<1>2. k = tag[c].keys
  BY <1>1 DEF KeysInv
<1>3. k \in Rounds
  BY <1>1 DEF ChipType
<1> QED
  BY <1>2, <1>3, Apart

(* Sessions, chips and rows keep their types in every reachable state of    *)
(* the store, the relay and the chips.                                      *)
THEOREM TypeCorrect == Spec => []TypeOK
<1>1. IInv => TypeOK
  BY DEF IInv
<1> QED
  BY <1>1, InitIInv, NextIInv, PTL DEF Spec

(* However many plaques and rounds there are, whichever chip the phone was  *)
(* held to at each command and whatever was lost, repeated or died: a chip  *)
(* carries no key that its own row does not hold.                           *)
THEOREM KeysAreRecorded == Spec => []ChipKeysAreRecorded
<1>1. Init => IInv
  BY InitIInv
<1>2. IInv /\ [Next]_vars => IInv'
  BY NextIInv
<1>3. IInv => ChipKeysAreRecorded
  BY IInvKeys
<1> QED
  BY <1>1, <1>2, <1>3, PTL DEF Spec

---------------------------------------------------------------------------
(* The rounds, the chips' contents and the counts: the second invariant.    *)

(* The body that answers step n.                                            *)
Due(n) == BodyOf(Steps[n])

(* The answer a session took up last is not one to the step that is due.    *)
Stale(q) == q.took.body # Due(q.step)

Working(q) == q.work \in {"accept", "insert", "finish", "failed", "done"}

(* Where a session stands, if it is alive or not: what is due is not what   *)
(* was taken up last, unless a step is at work on just that; and whoever    *)
(* still waits for a command's answer is not done.                          *)
FlowOf(q, alive) ==
  /\ q.busy <=> Working(q)
  /\ q.busy => alive
  /\ q.phone = "new" => ~alive /\ q.work = "none"
  /\ q.phone \in {"new", "command", "answer"} => Stale(q) /\ q.work \in {"none", "accept", "failed"}
  /\ q.work = "none" /\ alive => Stale(q)
  /\ q.work = "finish" => Stale(q)
  /\ q.work = "insert" => q.step = 2 /\ ~Stale(q)
  /\ q.work = "mark" => ~alive
  /\ q.work \in {"done", "mark"} => q.step = 8

(* What the round's own chip has taken once step n is due; 9: all of it.    *)
Got(u, r, n) ==
  /\ n = 6 => (chip[u].auth = r => chip[u].ndef)
  /\ n >= 7 => chip[u].ndef /\ chip[u].file = r
  /\ n >= 8 => chip[u].locked
  /\ n >= 9 => chip[u].app = r

(* An answer that fits the step that is due means that the chip did it.     *)
GotInv(r) ==
  LET q == sess[r]
  IN  /\ Got(q.uid, r, q.step)
      /\ ~Stale(q) => Got(q.uid, r, q.step + 1)
      /\ q.phone = "answer" /\ q.answer.body = Due(q.step) => Got(q.uid, r, q.step + 1)
      /\ q.work \in {"done", "mark"} => Got(q.uid, r, 9)

(* A session that may hold its plaque.                                      *)
Held(q) == q.step >= 3 \/ q.work \in {"insert", "failed"}

CountInv ==
  /\ live \subseteq Rounds /\ IsFiniteSet(live)
  /\ perActor = Cardinality(live)
  /\ perUID \in [Chips -> Rounds \cup {None}]
  /\ \A c \in Chips : perUID[c] # None =>
       perUID[c] \in live /\ sess[perUID[c]].uid = c /\ Held(sess[perUID[c]])
  /\ closed \in BOOLEAN
  /\ closed => \A r \in live : sess[r].busy /\ sess[r].late

EInv ==
  /\ IInv
  /\ \A r \in Rounds : FlowOf(sess[r], r \in live) /\ GotInv(r)
  /\ EncodedIsComplete
  /\ CountInv

---------------------------------------------------------------------------
\* What the second invariant says of one session.
LEMMA EParts ==
  ASSUME EInv, NEW r \in Rounds
  PROVE  /\ sess[r] \in SessType /\ sess[r].step \in 1..8
         /\ FlowOf(sess[r], r \in live) /\ GotInv(r) /\ RowInv(r)
BY Parts DEF EInv, SessType

\* What answers a step is not what answers the next one, and no answer is none.
LEMMA DuesDiffer ==
  ASSUME NEW n \in 1..8
  PROVE  /\ Due(n) # "none"
         /\ n # 8 => Due(n) # Due(n + 1)
BY DEF Due, BodyOf, Steps

\* A session that no step works on can be retired.
LEMMA Leaves ==
  ASSUME NEW q, FlowOf(q, TRUE), ~q.busy
  PROVE  FlowOf(q, FALSE)
BY Zenon DEF FlowOf

\* Nothing changes for the limits when the sessions of an empty set are retired.
LEMMA NobodyRetired ==
  ASSUME CountInv, UNCHANGED <<live, perActor, perUID>>
  PROVE  Retired({})
<1>1. Cardinality({}) = 0 /\ perActor \in Nat
  BY FS_EmptySet, FS_CardinalityType DEF CountInv
<1>2. perUID = [c \in Chips |-> IF perUID[c] \in {} THEN None ELSE perUID[c]]
  BY DEF CountInv
<1>3. /\ live' = live \ {}
      /\ perActor' = IF perActor <= Cardinality({}) THEN 0 ELSE perActor - Cardinality({})
  BY <1>1
<1> QED
  BY <1>2, <1>3 DEF Retired

\* What the count loses with the sessions of S is their number.
LEMMA RetiredCount ==
  ASSUME CountInv, NEW S, S \subseteq live
  PROVE  /\ IsFiniteSet(live \ S)
         /\ (IF perActor <= Cardinality(S) THEN 0 ELSE perActor - Cardinality(S))
              = Cardinality(live \ S)
<1>1. IsFiniteSet(live) /\ perActor = Cardinality(live) /\ perActor \in Nat
  BY FS_CardinalityType DEF CountInv
<1>2. IsFiniteSet(S) /\ IsFiniteSet(live \ S)
  BY <1>1, FS_Subset, FS_Difference
<1>3. Cardinality(S) \in Nat /\ Cardinality(live \ S) \in Nat
  BY <1>2, FS_CardinalityType
<1>4. live \cap S = S
  OBVIOUS
<1>5. Cardinality(live \ S) = Cardinality(live) - Cardinality(S)
  BY <1>1, <1>4, FS_Difference
<1> QED
  BY <1>1, <1>2, <1>3, <1>5

\* Retiring sessions keeps the counts, if those that stay hold on to their plaques and
\* a closed store keeps only what is in a step and late.
LEMMA CountsKept ==
  ASSUME CountInv, NEW S, S \subseteq live, Retired(S), closed' \in BOOLEAN,
         \A x \in live \ S : /\ Held(sess[x]) => Held(sess'[x]) /\ sess'[x].uid = sess[x].uid
                             /\ closed' => sess'[x].busy /\ sess'[x].late
  PROVE  CountInv'
<1>1. live' = live \ S /\ IsFiniteSet(live') /\ perActor' = Cardinality(live')
  BY RetiredCount DEF Retired
<1>2. perUID' = [c \in Chips |-> IF perUID[c] \in S THEN None ELSE perUID[c]]
  BY DEF Retired
<1>3. perUID' \in [Chips -> Rounds \cup {None}]
  BY <1>2 DEF CountInv
<1>4. ASSUME NEW c \in Chips, perUID'[c] # None
      PROVE  /\ perUID'[c] \in live' /\ sess'[perUID'[c]].uid = c
             /\ Held(sess'[perUID'[c]])
  <2>1. perUID'[c] = perUID[c] /\ perUID[c] # None /\ perUID[c] \notin S
    BY <1>2, <1>4
  <2>2. perUID[c] \in live \ S /\ sess[perUID[c]].uid = c /\ Held(sess[perUID[c]])
    BY <2>1 DEF CountInv
  <2> QED
    BY <1>1, <2>1, <2>2
<1>5. live' \subseteq Rounds
  BY <1>1 DEF CountInv
<1>6. closed' => \A x \in live' : sess'[x].busy /\ sess'[x].late
  BY <1>1
<1>7. \A c \in Chips : perUID'[c] # None =>
        perUID'[c] \in live' /\ sess'[perUID'[c]].uid = c /\ Held(sess'[perUID'[c]])
  BY <1>4
<1> QED
  BY <1>1, <1>3, <1>5, <1>6, <1>7 DEF CountInv, Held

---------------------------------------------------------------------------
(* q follows s by a step that neither moves the session on nor answers its *)
(* command.                                                                 *)
Follows(s, q) ==
  /\ q.step = s.step /\ q.uid = s.uid /\ q.answer = s.answer
  /\ q.took = s.took \/ (s.phone = "answer" /\ q.took = s.answer)
  /\ q.phone = "answer" => s.phone = "answer"
  /\ q.work \in {"done", "mark"} => s.work \in {"done", "mark"}

\* Such a step changes nothing about what the chips have taken.
LEMMA GotKept ==
  ASSUME NEW r \in Rounds, GotInv(r), chip' = chip, Follows(sess[r], sess'[r])
  PROVE  GotInv(r)'
<1>1. PICK s, q : s = sess[r] /\ q = sess'[r]
  OBVIOUS
<1>2. \A n : Got(s.uid, r, n)' <=> Got(s.uid, r, n)
  BY DEF Got
<1> QED
  BY <1>1, <1>2 DEF GotInv, Follows, Stale

\* Steps that retire sessions and move none on keep the second invariant.
LEMMA EQuiet ==
  ASSUME EInv, IInv', chip' = chip, EncodedIsComplete', closed' \in BOOLEAN,
         NEW S, S \subseteq live, Retired(S),
         \A x \in Rounds : Follows(sess[x], sess'[x]) /\ FlowOf(sess'[x], x \in live'),
         \A x \in live \ S : /\ Held(sess[x]) => Held(sess'[x])
                             /\ closed' => sess'[x].busy /\ sess'[x].late
  PROVE  EInv'
<1>1. \A x \in Rounds : GotInv(x)'
  BY GotKept DEF EInv
<1>2. CountInv /\ live \subseteq Rounds
  BY DEF EInv, CountInv
<1>3. \A x \in live \ S : sess'[x].uid = sess[x].uid
  BY <1>2 DEF Follows
<1>4. CountInv'
  BY <1>2, <1>3, CountsKept
<1>5. \A x \in Rounds : FlowOf(sess[x], x \in live)'
  BY DEF FlowOf, Working, Stale
<1> QED
  BY <1>1, <1>4, <1>5 DEF EInv

\* The same for a step of one session, which stays as it was counted or is retired.
LEMMA EQuietGoes ==
  ASSUME EInv, IInv', chip' = chip, EncodedIsComplete', closed' = closed,
         NEW r \in Rounds, NEW q, Goes(r, q), Follows(sess[r], q),
         \/ /\ UNCHANGED <<live, perActor, perUID>>
            /\ FlowOf(q, r \in live)
            /\ r \in live => (Held(sess[r]) => Held(q)) /\ (closed => q.busy /\ q.late)
         \/ r \in live /\ Retired({r}) /\ FlowOf(q, FALSE)
  PROVE  EInv'
<1>1. sess \in [Rounds -> SessType]
  BY DEF EInv, IInv, TypeOK
<1>2. \A x \in Rounds : sess'[x] = IF x = r THEN q ELSE sess[x]
  BY <1>1 DEF Goes
<1>3. CountInv /\ live \subseteq Rounds /\ closed' \in BOOLEAN
  BY DEF EInv, CountInv
<1>4. \A x \in Rounds : Follows(sess[x], sess'[x])
  BY <1>2 DEF Follows
<1>5. CASE /\ UNCHANGED <<live, perActor, perUID>>
           /\ FlowOf(q, r \in live)
           /\ r \in live => (Held(sess[r]) => Held(q)) /\ (closed => q.busy /\ q.late)
  <2>1. Retired({})
    BY <1>3, <1>5, NobodyRetired
  <2>2. ASSUME NEW x \in Rounds
        PROVE  FlowOf(sess'[x], x \in live')
    <3>1. live' = live
      BY <1>5
    <3>2. CASE x = r
      BY <1>2, <1>5, <3>1, <3>2
    <3>3. CASE x # r
      BY <1>2, <3>1, <3>3 DEF EInv
    <3> QED
      BY <3>2, <3>3
  <2>3. \A x \in live : /\ Held(sess[x]) => Held(sess'[x])
                        /\ closed' => sess'[x].busy /\ sess'[x].late
    BY <1>2, <1>3, <1>5 DEF CountInv
  <2> QED
    BY <1>3, <1>4, <2>1, <2>2, <2>3, EQuiet
<1>6. CASE r \in live /\ Retired({r}) /\ FlowOf(q, FALSE)
  <2>1. live' = live \ {r}
    BY <1>6 DEF Retired
  <2>2. ASSUME NEW x \in Rounds
        PROVE  FlowOf(sess'[x], x \in live')
    <3>1. CASE x = r
      <4>1. (x \in live') = FALSE
        BY <2>1, <3>1
      <4> QED
        BY <1>2, <1>6, <3>1, <4>1
    <3>2. CASE x # r
      <4>1. (x \in live') = (x \in live)
        BY <2>1, <3>2
      <4> QED
        BY <1>2, <3>2, <4>1 DEF EInv
    <3> QED
      BY <3>1, <3>2
  <2>3. \A x \in live \ {r} : /\ Held(sess[x]) => Held(sess'[x])
                              /\ closed' => sess'[x].busy /\ sess'[x].late
    BY <1>2, <1>3 DEF CountInv
  <2> QED
    BY <1>3, <1>4, <1>6, <2>2, <2>3, EQuiet
<1> QED
  BY <1>5, <1>6

---------------------------------------------------------------------------
\* A step that leaves the rows and the chips alone leaves the stamped rows complete.
LEMMA StampsStand ==
  ASSUME EInv, chip' = chip, tag' = tag
  PROVE  EncodedIsComplete'
BY DEF EInv, EncodedIsComplete

\* The phone's steps apart from the relayed command.
LEMMA PhoneStepsE ==
  ASSUME EInv, IInv', NEW r \in Rounds,
         GiveUp(r) \/ Abort(r) \/ CheckoutCancelled(r) \/ DeadlinePasses(r)
  PROVE  EInv'
<1> DEFINE s == sess[r]
<1>1. /\ s \in SessType /\ FlowOf(s, r \in live)
      /\ chip' = chip /\ EncodedIsComplete'
  BY EParts, StampsStand DEF GiveUp, Abort, CheckoutCancelled, DeadlinePasses
<1>2. closed => (r \in live => s.busy /\ s.late)
  BY DEF EInv, CountInv
<1>3. CASE GiveUp(r)
  <2> DEFINE q == [s EXCEPT !.phone = "aborting"]
  <2>1. Follows(s, q) /\ FlowOf(q, r \in live) /\ (Held(s) => Held(q)) /\ q.busy = s.busy /\ q.late = s.late
    BY <1>1 DEF Follows, FlowOf, Held, Working, Stale, SessType
  <2> QED
    BY <1>1, <1>2, <1>3, <2>1, EQuietGoes DEF GiveUp
<1>4. CASE Abort(r)
  <2>1. CASE r \in live /\ MayRetire(r)
    <3> DEFINE q == [Idle(s) EXCEPT !.phone = "over"]
    <3>1. Follows(s, q) /\ FlowOf(q, FALSE)
      BY <1>1, <2>1 DEF Follows, FlowOf, Working, Stale, SessType, Idle, MayRetire
    <3> QED
      BY <1>1, <1>4, <2>1, <3>1, EQuietGoes DEF Abort
  <2>2. CASE ~(r \in live /\ MayRetire(r))
    <3>1. PICK q : /\ Goes(r, q) /\ q = [(IF r \in live THEN Late(s) ELSE s) EXCEPT !.phone = "over"]
                   /\ UNCHANGED <<live, perActor, perUID, closed>>
      BY <1>4, <2>2 DEF Abort
    <3>2. /\ Follows(s, q) /\ FlowOf(q, r \in live) /\ (Held(s) => Held(q))
          /\ q.busy = s.busy /\ (s.late => q.late)
      <4>1. CASE r \in live
        BY <1>1, <3>1, <4>1 DEF Follows, FlowOf, Held, Working, Stale, SessType, Late
      <4>2. CASE r \notin live
        BY <1>1, <3>1, <4>2 DEF Follows, FlowOf, Held, Working, Stale, SessType
      <4> QED
        BY <4>1, <4>2
    <3> QED
      BY <1>1, <1>2, <3>1, <3>2, EQuietGoes
  <2> QED
    BY <2>1, <2>2
<1>5. CASE CheckoutCancelled(r)
  <2> DEFINE o == [s EXCEPT !.phone = "over"]
  <2>1. CASE s.busy
    <3>1. /\ Follows(s, Late(o)) /\ FlowOf(Late(o), r \in live) /\ (Held(s) => Held(Late(o)))
          /\ Late(o).busy /\ Late(o).late
      BY <1>1, <2>1 DEF Follows, FlowOf, Held, Working, Stale, SessType, Late
    <3> QED
      BY <1>1, <1>5, <2>1, <3>1, EQuietGoes DEF CheckoutCancelled
  <2>2. CASE ~s.busy
    <3>1. Follows(s, o) /\ FlowOf(o, FALSE)
      BY <1>1, <1>5, <2>2 DEF Follows, FlowOf, Working, Stale, SessType, CheckoutCancelled
    <3> QED
      BY <1>1, <1>5, <2>2, <3>1, EQuietGoes DEF CheckoutCancelled
  <2> QED
    BY <2>1, <2>2
<1>6. CASE DeadlinePasses(r)
  <2>1. /\ Follows(s, Late(s)) /\ FlowOf(Late(s), r \in live) /\ (Held(s) => Held(Late(s)))
        /\ Late(s).busy = s.busy /\ Late(s).late
    BY <1>1 DEF Follows, FlowOf, Held, Working, Stale, SessType, Late
  <2> QED
    BY <1>1, <1>2, <1>6, <2>1, EQuietGoes DEF DeadlinePasses
<1> QED
  BY <1>3, <1>4, <1>5, <1>6

\* An answer is taken up, once or again; a step fails or ends.
LEMMA StepEndsE ==
  ASSUME EInv, IInv', NEW r \in Rounds,
         Checkout(r) \/ InsertFails(r) \/ Finish(r) \/ Cancelled(r)
  PROVE  EInv'
<1> DEFINE s == sess[r]
<1>1. /\ s \in SessType /\ FlowOf(s, r \in live)
      /\ chip' = chip /\ EncodedIsComplete' /\ closed' = closed
  BY EParts, StampsStand DEF Checkout, InsertFails, Finish, Cancelled
<1>2. closed => (r \in live => s.busy /\ s.late)
  BY DEF EInv, CountInv
<1>3. CASE Checkout(r)
  <2>1. CASE s.late
    <3> DEFINE q == [s EXCEPT !.phone = "over"]
    <3>1. Follows(s, q) /\ FlowOf(q, FALSE)
      BY <1>1, <1>3 DEF Follows, FlowOf, Working, Stale, SessType, Checkout
    <3> QED
      BY <1>1, <1>3, <2>1, <3>1, EQuietGoes DEF Checkout
  <2>2. CASE ~s.late
    <3>1. PICK q : /\ Goes(r, q) /\ UNCHANGED <<live, perActor, perUID>>
                   /\ r \in live /\ ~closed /\ ~s.busy
                   /\ \/ /\ s.phone = "answer"
                         /\ q = [[s EXCEPT !.busy = TRUE, !.work = "accept", !.took = s.answer]
                                  EXCEPT !.phone = "waiting"]
                      \/ q = [s EXCEPT !.busy = TRUE, !.work = "accept", !.took = s.took]
      BY <1>3, <2>2 DEF Checkout
    <3>2. Follows(s, q)
      BY <1>1, <3>1 DEF Follows, SessType
    <3>3. FlowOf(q, TRUE)
      BY <1>1, <3>1 DEF FlowOf, Working, Stale, SessType
    <3>4. Held(s) => Held(q)
      BY <1>1, <3>1 DEF FlowOf, Working, Held, SessType
    <3> QED
      BY <1>1, <3>1, <3>2, <3>3, <3>4, EQuietGoes
  <2> QED
    BY <2>1, <2>2
<1>4. CASE InsertFails(r)
  <2>1. /\ Follows(s, Failed(s)) /\ FlowOf(Failed(s), r \in live) /\ Held(Failed(s))
        /\ Failed(s).busy = s.busy /\ Failed(s).late = s.late
    BY <1>1, <1>4 DEF Follows, FlowOf, Held, Working, Stale, SessType, Failed, InsertFails, Works
  <2> QED
    BY <1>1, <1>2, <1>4, <2>1, EQuietGoes DEF InsertFails
<1>5. CASE Finish(r)
  <2>1. r \in live
    BY <1>1, <1>5 DEF FlowOf, Working, Finish
  <2>2. CASE s.work # "finish" \/ s.late
    <3>1. PICK q : /\ Goes(r, q) /\ Retired({r})
                   /\ \E w \in {"mark", "none"}, p \in {s.phone, "over"} :
                        /\ q = [Idle(s) EXCEPT !.work = w, !.phone = p]
                        /\ w = "mark" <=> s.work = "done"
                        /\ s.phone = "waiting" => p = "over"
      BY <1>5, <2>2 DEF Finish
    <3>2. Follows(s, q)
      BY <1>1, <3>1 DEF Follows, SessType, Idle
    <3>3. FlowOf(q, FALSE)
      BY <1>1, <1>5, <3>1 DEF FlowOf, Working, Stale, SessType, Idle, Finish
    <3> QED
      BY <1>1, <2>1, <3>1, <3>2, <3>3, EQuietGoes
  <2>3. CASE s.work = "finish" /\ ~s.late
    <3>1. PICK q : /\ Goes(r, q) /\ UNCHANGED <<live, perActor, perUID>>
                   /\ \E p \in {s.phone, "command"} :
                        /\ q = [Idle(s) EXCEPT !.work = "none", !.phone = p]
                        /\ s.phone # "waiting" => p = s.phone
      BY <1>5, <2>3 DEF Finish
    <3>2. Follows(s, q) /\ (Held(s) => Held(q))
      BY <1>1, <2>3, <3>1 DEF Follows, SessType, Idle, Held
    <3>3. FlowOf(q, r \in live)
      BY <1>1, <2>3, <3>1 DEF FlowOf, Working, Stale, SessType, Idle
    <3> QED
      BY <1>1, <1>2, <2>1, <2>3, <3>1, <3>2, <3>3, EQuietGoes
  <2> QED
    BY <2>2, <2>3
<1>6. CASE Cancelled(r)
  <2> DEFINE q == [Idle(s) EXCEPT !.work = "none", !.phone = "over"]
  <2>1. r \in live
    BY <1>1, <1>6 DEF FlowOf, Working, Cancelled
  <2>2. Follows(s, q) /\ FlowOf(q, FALSE)
    BY <1>1 DEF Follows, FlowOf, Working, Stale, SessType, Idle
  <2> QED
    BY <1>1, <1>6, <2>1, <2>2, EQuietGoes DEF Cancelled
<1> QED
  BY <1>3, <1>4, <1>5, <1>6

\* The stamp is set on the row of a round whose chip took everything.
LEMMA MarkE ==
  ASSUME EInv, IInv', NEW r \in Rounds, MarkEncoded(r)
  PROVE  EInv'
<1> DEFINE s == sess[r]
           q == [s EXCEPT !.work = "none"]
<1>1. /\ s \in SessType /\ FlowOf(s, r \in live) /\ s.work = "mark" /\ s.step = 8
      /\ chip' = chip /\ closed' = closed /\ Goes(r, q) /\ UNCHANGED <<live, perActor, perUID>>
  BY EParts DEF MarkEncoded, Works, FlowOf
<1>2. Follows(s, q) /\ FlowOf(q, r \in live) /\ r \notin live
  BY <1>1 DEF Follows, FlowOf, Working, Stale, SessType
<1>3. s.uid \in Chips /\ tag[s.uid].keys = r /\ Got(s.uid, r, 9)
  BY <1>1, EParts DEF RowInv, GotInv
<1>4. EncodedIsComplete'
  <2>1. tag \in [Chips -> TagType]
    BY DEF EInv, IInv, TypeOK
  <2> DEFINE stamped == [tag[s.uid] EXCEPT !.encoded = TRUE]
  <2>2. tag' = tag \/ tag' = [tag EXCEPT ![s.uid] = stamped]
    BY DEF MarkEncoded
  <2>3. stamped.keys = r
    BY <1>3, <2>1 DEF TagType
  <2>4. ASSUME NEW c \in Chips, tag'[c].encoded
        PROVE  /\ chip[c].file = tag'[c].keys /\ chip[c].app = tag'[c].keys
               /\ chip[c].ndef /\ chip[c].locked
    <3> HIDE DEF stamped
    <3>1. CASE tag'[c] = tag[c]
      BY <2>4, <3>1 DEF EInv, EncodedIsComplete
    <3>2. CASE c = s.uid /\ tag'[c] = stamped
      BY <1>3, <2>3, <3>2 DEF Got
    <3> QED
      BY <2>1, <2>2, <3>1, <3>2
  <2> QED
    BY <1>1, <2>4 DEF EncodedIsComplete
<1> QED
  BY <1>1, <1>2, <1>4, EQuietGoes

\* A new session: what is over its deadline is swept first, then the limit is looked at.
LEMMA BeginE ==
  ASSUME EInv, IInv', NEW r \in Rounds, Begin(r)
  PROVE  EInv'
<1> DEFINE s == sess[r]
<1>1. /\ s \in SessType /\ FlowOf(s, r \in live) /\ s.phone = "new" /\ ~closed
      /\ chip' = chip /\ EncodedIsComplete' /\ closed' = closed
  BY EParts, StampsStand DEF Begin
<1>2. PICK G : G = Expired(live)
  OBVIOUS
<1>3. G \subseteq live /\ \A x \in G : ~sess[x].busy
  BY <1>2 DEF Expired, MayRetire
<1>4. r \notin live /\ CountInv /\ live \subseteq Rounds
  BY <1>1 DEF FlowOf, EInv, CountInv
<1>5. sess \in [Rounds -> SessType]
  BY DEF EInv, IInv, TypeOK
<1>6. PICK n : /\ n = IF perActor <= Cardinality(G) THEN 0 ELSE perActor - Cardinality(G)
               /\ n = Cardinality(live \ G) /\ IsFiniteSet(live \ G)
  BY <1>3, <1>4, RetiredCount
<1>7. perUID' = [c \in Chips |-> IF perUID[c] \in G THEN None ELSE perUID[c]]
  BY <1>2 DEF Begin
<1>8. PICK p \in {"over", "command"}, N \in SUBSET {r} :
         /\ sess' = [sess EXCEPT ![r] = [s EXCEPT !.phone = p]]
         /\ live' = (live \ G) \cup N /\ perActor' = Cardinality((live \ G) \cup N)
         /\ N = {} => p = "over"
         /\ IsFiniteSet((live \ G) \cup N)
  <2>1. CASE n >= MaxPerActor
    <3>1. /\ live' = (live \ G) \cup {} /\ perActor' = n
          /\ sess' = [sess EXCEPT ![r] = [s EXCEPT !.phone = "over"]]
      BY <1>2, <1>6, <2>1 DEF Begin, Goes
    <3>2. (live \ G) \cup {} = live \ G
      OBVIOUS
    <3> QED
      BY <1>6, <3>1, <3>2
  <2>2. CASE ~(n >= MaxPerActor)
    <3>1. /\ live' = (live \ G) \cup {r} /\ perActor' = n + 1
          /\ sess' = [sess EXCEPT ![r] = [s EXCEPT !.phone = "command"]]
      BY <1>2, <1>6, <2>2 DEF Begin, Goes
    <3>2. /\ Cardinality((live \ G) \cup {r}) = Cardinality(live \ G) + 1
          /\ IsFiniteSet((live \ G) \cup {r})
      BY <1>4, <1>6, FS_AddElement
    <3> QED
      BY <1>6, <3>1, <3>2
  <2> QED
    BY <2>1, <2>2
<1>9. PICK q : q = [s EXCEPT !.phone = p]
  OBVIOUS
<1>10. \A x \in Rounds : sess'[x] = IF x = r THEN q ELSE sess[x]
  BY <1>5, <1>8, <1>9
<1>11. /\ Follows(s, q) /\ (p = "over" => FlowOf(q, FALSE)) /\ FlowOf(q, TRUE)
       /\ q.uid = s.uid /\ (Held(s) => Held(q))
  BY <1>1, <1>9 DEF Follows, FlowOf, Working, Stale, Held, SessType
<1>12. ASSUME NEW x \in Rounds
       PROVE  FlowOf(sess'[x], x \in live')
  <2>1. CASE x = r
    <3>1. CASE N = {}
      <4>1. (x \in live') = FALSE
        BY <1>4, <1>8, <2>1, <3>1
      <4> QED
        BY <1>8, <1>10, <1>11, <2>1, <3>1, <4>1
    <3>2. CASE N = {r}
      <4>1. (x \in live') = TRUE
        BY <1>8, <2>1, <3>2
      <4> QED
        BY <1>10, <1>11, <2>1, <4>1
    <3> QED
      BY <3>1, <3>2
  <2>2. CASE x # r
    <3>1. sess'[x] = sess[x] /\ FlowOf(sess[x], x \in live)
      BY <1>10, <2>2 DEF EInv
    <3>2. CASE x \in G
      <4>1. (x \in live') = FALSE /\ (x \in live) = TRUE
        BY <1>3, <1>8, <2>2, <3>2
      <4>2. FlowOf(sess[x], TRUE)
        BY <3>1, <4>1
      <4>3. FlowOf(sess[x], FALSE)
        BY <1>3, <3>2, <4>2, Leaves
      <4> QED
        BY <3>1, <4>1, <4>3
    <3>3. CASE x \notin G
      <4>1. (x \in live') = (x \in live)
        BY <1>8, <2>2, <3>3
      <4> QED
        BY <3>1, <4>1
    <3> QED
      BY <3>2, <3>3
  <2> QED
    BY <2>1, <2>2
<1>13. \A x \in Rounds : GotInv(x)'
  <2>1. \A x \in Rounds : Follows(sess[x], sess'[x])
    BY <1>10, <1>11 DEF Follows
  <2> QED
    BY <1>1, <2>1, GotKept DEF EInv
<1>14. CountInv'
  <2>1. live' \subseteq Rounds /\ IsFiniteSet(live') /\ perActor' = Cardinality(live')
    BY <1>4, <1>8
  <2>2. perUID' \in [Chips -> Rounds \cup {None}]
    BY <1>4, <1>7 DEF CountInv
  <2>3. ASSUME NEW c \in Chips, perUID'[c] # None
        PROVE  /\ perUID'[c] \in live' /\ sess'[perUID'[c]].uid = c
               /\ Held(sess'[perUID'[c]])
    <3>1. perUID'[c] = perUID[c] /\ perUID[c] # None /\ perUID[c] \notin G
      BY <1>7, <2>3
    <3>2. perUID[c] \in live /\ sess[perUID[c]].uid = c /\ Held(sess[perUID[c]])
      BY <1>4, <3>1 DEF CountInv
    <3>3. perUID[c] # r /\ perUID[c] \in Rounds /\ perUID[c] \in live'
      BY <1>4, <1>8, <3>1, <3>2
    <3>4. sess'[perUID[c]] = sess[perUID[c]]
      BY <1>10, <3>3
    <3> QED
      BY <3>1, <3>2, <3>3, <3>4
  <2> QED
    BY <1>1, <1>4, <2>1, <2>2, <2>3 DEF CountInv, Held
<1>15. \A x \in Rounds : FlowOf(sess[x], x \in live)'
  BY <1>12 DEF FlowOf, Working, Stale
<1> QED
  BY <1>1, <1>13, <1>14, <1>15 DEF EInv

\* The sweeper, the closing and the death of the process.
LEMMA StoreStepsE ==
  ASSUME EInv, IInv', Sweep \/ Close \/ Restart
  PROVE  EInv'
<1>1. /\ sess \in [Rounds -> SessType] /\ chip' = chip /\ EncodedIsComplete'
      /\ CountInv /\ live \subseteq Rounds
  BY StampsStand DEF EInv, IInv, TypeOK, CountInv, Sweep, Close, Restart
<1>2. ASSUME NEW x \in Rounds
      PROVE  /\ Follows(sess[x], sess[x]) /\ Follows(sess[x], Idle(sess[x]))
             /\ Follows(sess[x], Late(sess[x]))
             /\ ~sess[x].busy => /\ FlowOf(sess[x], FALSE)
                                 /\ FlowOf(Idle(sess[x]), FALSE)
             /\ FlowOf(Late(sess[x]), x \in live)
             /\ Follows(sess[x], [Idle(sess[x]) EXCEPT !.work = "none"])
             /\ FlowOf([Idle(sess[x]) EXCEPT !.work = "none"], FALSE)
  <2>1. sess[x] \in SessType /\ FlowOf(sess[x], x \in live)
    BY EParts
  <2> QED
    BY <2>1 DEF Follows, FlowOf, Working, Stale, SessType, Idle, Late
<1>3. CASE Sweep
  <2>1. PICK G : G = Expired(live)
    OBVIOUS
  <2>2. G \subseteq live /\ (\A x \in G : ~sess[x].busy) /\ Retired(G) /\ closed' = closed /\ ~closed
    BY <1>3, <2>1 DEF Expired, MayRetire, Sweep
  <2>3. \A x \in Rounds : sess'[x] = IF x \in G THEN Idle(sess[x]) ELSE sess[x]
    BY <1>3, <2>1 DEF Sweep
  <2>4. ASSUME NEW x \in Rounds
        PROVE  Follows(sess[x], sess'[x]) /\ FlowOf(sess'[x], x \in live')
    <3>1. live' = live \ G
      BY <2>2 DEF Retired
    <3>2. CASE x \in G
      <4>1. (x \in live') = FALSE
        BY <3>1, <3>2
      <4> QED
        BY <1>2, <2>2, <2>3, <3>2, <4>1
    <3>3. CASE x \notin G
      <4>1. (x \in live') = (x \in live)
        BY <3>1, <3>3
      <4> QED
        BY <1>2, <2>3, <3>3, <4>1 DEF EInv
    <3> QED
      BY <3>2, <3>3
  <2>5. closed' \in BOOLEAN
    BY <1>1, <2>2 DEF CountInv
  <2>6. \A x \in live \ G : (Held(sess[x]) => Held(sess'[x])) /\ ~closed'
    BY <1>1, <2>2, <2>3
  <2> QED
    BY <1>1, <2>2, <2>4, <2>5, <2>6, EQuiet
<1>4. CASE Close
  <2>1. PICK G : G = {x \in live : MayRetire(x)}
    OBVIOUS
  <2>2. G \subseteq live /\ (\A x \in live : x \in G <=> ~sess[x].busy) /\ Retired(G) /\ closed' = TRUE
    BY <1>4, <2>1 DEF MayRetire, Close
  <2>3. \A x \in Rounds : sess'[x] = IF x \in G THEN Idle(sess[x])
                                     ELSE IF x \in live THEN Late(sess[x]) ELSE sess[x]
    BY <1>4, <2>1 DEF Close
  <2>4. ASSUME NEW x \in Rounds
        PROVE  Follows(sess[x], sess'[x]) /\ FlowOf(sess'[x], x \in live')
    <3>1. live' = live \ G
      BY <2>2 DEF Retired
    <3>2. CASE x \in G
      <4>1. (x \in live') = FALSE
        BY <3>1, <3>2
      <4> QED
        BY <1>2, <2>2, <2>3, <3>2, <4>1
    <3>3. CASE x \notin G
      <4>1. (x \in live') = (x \in live)
        BY <3>1, <3>3
      <4> QED
        BY <1>2, <2>3, <3>3, <4>1 DEF EInv
    <3> QED
      BY <3>2, <3>3
  <2>5. ASSUME NEW x \in live \ G
        PROVE  /\ Held(sess[x]) => Held(sess'[x])
               /\ sess'[x].busy /\ sess'[x].late
    <3>1. x \in Rounds /\ sess'[x] = Late(sess[x]) /\ sess[x].busy /\ sess[x] \in SessType
      BY <1>1, <2>2, <2>3
    <3> QED
      BY <3>1 DEF Late, Held, SessType
  <2> QED
    BY <1>1, <2>2, <2>4, <2>5, EQuiet
<1>5. CASE Restart
  <2>1. live' = {} /\ perActor' = 0 /\ closed' = FALSE /\ perUID' = [c \in Chips |-> None]
    BY <1>5 DEF Restart
  <2>2. \A x \in Rounds : sess'[x] = [Idle(sess[x]) EXCEPT !.work = "none"]
    BY <1>5 DEF Restart
  <2>3. CountInv'
    BY <2>1, FS_EmptySet DEF CountInv
  <2>4. ASSUME NEW x \in Rounds
        PROVE  GotInv(x)' /\ FlowOf(sess[x], x \in live)'
    <3>1. GotInv(x)'
      BY <1>1, <1>2, <2>2, GotKept DEF EInv
    <3>2. (x \in live') = FALSE
      BY <2>1
    <3>3. FlowOf(sess'[x], x \in live')
      BY <1>2, <2>2, <3>2
    <3> QED
      BY <3>1, <3>3 DEF FlowOf, Working, Stale
  <2> QED
    BY <1>1, <2>3, <2>4 DEF EInv
<1> QED
  BY <1>3, <1>4, <1>5

---------------------------------------------------------------------------
\* A step of one session that leaves the store's sets and the chips alone.
LEMMA EGoes ==
  ASSUME EInv, IInv', chip' = chip, EncodedIsComplete', live' = live, CountInv',
         NEW r \in Rounds, NEW q, Goes(r, q), FlowOf(q, r \in live), GotInv(r)'
  PROVE  EInv'
<1>1. sess \in [Rounds -> SessType]
  BY DEF EInv, IInv, TypeOK
<1>2. \A x \in Rounds : sess'[x] = IF x = r THEN q ELSE sess[x]
  BY <1>1 DEF Goes
<1>3. ASSUME NEW x \in Rounds
      PROVE  FlowOf(sess[x], x \in live)' /\ GotInv(x)'
  <2>1. CASE x = r
    <3>1. FlowOf(sess'[x], x \in live')
      BY <1>2, <2>1
    <3> QED
      BY <2>1, <3>1 DEF FlowOf, Working, Stale
  <2>2. CASE x # r
    <3>1. sess'[x] = sess[x] /\ FlowOf(sess[x], x \in live) /\ GotInv(x)
      BY <1>2, <2>2 DEF EInv
    <3>2. Follows(sess[x], sess'[x])
      BY <3>1 DEF Follows
    <3> QED
      BY <3>1, <3>2, GotKept DEF FlowOf, Working, Stale
  <2> QED
    BY <2>1, <2>2
<1> QED
  BY <1>3 DEF EInv

\* A step of one session that holds on to its plaque and lets no deadline go.
LEMMA CountGoes ==
  ASSUME EInv, UNCHANGED <<live, perActor, perUID, closed>>, NEW r \in Rounds, NEW q, Goes(r, q),
         Held(sess[r]) => Held(q) /\ q.uid = sess[r].uid,
         q.busy = sess[r].busy, q.late = sess[r].late
  PROVE  CountInv'
<1>1. sess \in [Rounds -> SessType] /\ CountInv
  BY DEF EInv, IInv, TypeOK
<1>2. \A x \in Rounds : sess'[x] = IF x = r THEN q ELSE sess[x]
  BY <1>1 DEF Goes
<1>3. live \subseteq Rounds /\ closed' \in BOOLEAN
  BY <1>1 DEF CountInv
<1>4. ASSUME NEW x \in live
      PROVE  /\ Held(sess[x]) => Held(sess'[x]) /\ sess'[x].uid = sess[x].uid
             /\ closed' => sess'[x].busy /\ sess'[x].late
  BY <1>1, <1>2, <1>3 DEF CountInv
<1> QED
  BY <1>1, <1>3, <1>4, NobodyRetired, CountsKept

\* A round's step looks at the answer it took up: one that fits says that the chip did
\* it, and the answer to one step is stale at the next.
LEMMA AcceptE ==
  ASSUME EInv, IInv', NEW r \in Rounds, Accept(r)
  PROVE  EInv'
<1> DEFINE s == sess[r]
<1>1. /\ s \in SessType /\ s.step \in 1..8 /\ FlowOf(s, r \in live) /\ GotInv(r) /\ s.work = "accept"
      /\ chip' = chip /\ tag' = tag /\ EncodedIsComplete' /\ closed' = closed
      /\ live' = live /\ perActor' = perActor
  BY EParts, StampsStand DEF Accept, Works
<1>2. sess \in [Rounds -> SessType] /\ CountInv
  BY DEF EInv, IInv, TypeOK
<1>3. closed => (r \in live => s.busy /\ s.late)
  BY <1>2 DEF CountInv
<1>4. CASE Goes(r, Failed(s)) /\ perUID' = perUID
  <2>1. /\ Follows(s, Failed(s)) /\ FlowOf(Failed(s), r \in live) /\ Held(Failed(s))
        /\ Failed(s).busy = s.busy /\ Failed(s).late = s.late
    BY <1>1 DEF Follows, FlowOf, Held, Working, Stale, SessType, Failed
  <2> QED
    BY <1>1, <1>3, <1>4, <2>1, EQuietGoes
<1>5. CASE Goes(r, Advanced(s)) /\ perUID' = perUID /\ ~Stale(s) /\ s.step # 2
  <2>1. Len(Steps) = 8
    BY <1>1, StepNumbers
  <2>2. PICK q : q = Advanced(s)
    OBVIOUS
  <2>3. /\ q.uid = s.uid /\ q.took = s.took /\ q.phone = s.phone /\ q.answer = s.answer
        /\ q.busy = s.busy /\ q.late = s.late
        /\ \/ s.step = 8 /\ q.step = 8 /\ q.work = "done"
           \/ s.step # 8 /\ q.step = s.step + 1 /\ q.work = "finish"
    <3>1. CASE s.step = 8
      BY <1>1, <2>1, <2>2, <3>1 DEF Advanced, SessType
    <3>2. CASE s.step # 8
      <4>1. q = [s EXCEPT !.work = "finish", !.step = s.step + 1]
        BY <2>1, <2>2, <3>2, Zenon DEF Advanced
      <4>2. PICK n : n = s.step + 1
        OBVIOUS
      <4>3. q = [s EXCEPT !.work = "finish", !.step = n]
        BY <4>1, <4>2
      <4> QED
        BY <1>1, <3>2, <4>2, <4>3 DEF SessType
    <3> QED
      BY <3>1, <3>2
  <2>4. q.work = "finish" => Stale(q)
    BY <1>1, <1>5, <2>3, DuesDiffer DEF Stale
  <2>5. FlowOf(q, r \in live)
    BY <1>1, <1>5, <2>3, <2>4 DEF FlowOf, Working
  <2>6. sess'[r] = q
    BY <1>2, <1>5, <2>2 DEF Goes
  <2>7. GotInv(r)'
    <3>1. \A u, n : Got(u, r, n)' <=> Got(u, r, n)
      BY <1>1 DEF Got
    <3>2. PICK u : u = s.uid
      OBVIOUS
    <3>3. Got(u, r, s.step + 1) /\ Got(u, r, s.step)
      BY <1>1, <1>5, <3>2 DEF GotInv
    <3>4. s.phone # "answer"
      BY <1>1, <1>5 DEF FlowOf
    <3>5. CASE s.step = 8
      <4>1. 8 + 1 = 9
        OBVIOUS
      <4>2. Got(u, r, 9)' /\ Got(u, r, 8)' /\ Got(u, r, 8 + 1)'
        BY <3>1, <3>3, <3>5, <4>1
      <4> QED
        BY <2>3, <2>6, <3>2, <3>4, <3>5, <4>2 DEF GotInv
    <3>6. CASE s.step # 8
      <4>1. PICK n : n = s.step + 1
        OBVIOUS
      <4>2. Got(u, r, n)'
        BY <3>1, <3>3, <4>1
      <4> QED
        BY <2>3, <2>4, <2>6, <3>2, <3>4, <3>6, <4>1, <4>2 DEF GotInv, Stale
    <3> QED
      BY <3>5, <3>6
  <2>8. Held(s) => Held(q)
    BY <1>1, <2>3 DEF Held
  <2>9. CountInv'
    BY <1>1, <1>5, <2>2, <2>3, <2>8, CountGoes
  <2> QED
    BY <1>1, <1>5, <2>2, <2>5, <2>7, <2>9, EGoes
<1>6. CASE s.step = 2 /\ ~Stale(s)
  <2>1. ~Held(s) /\ s.phone \notin {"new", "command", "answer"} /\ s.took.card \in Chips
    <3>1. s.took.body # "none"
      BY <1>1, <1>6, DuesDiffer DEF Stale
    <3>2. AnswerInv(r, s.took)
      BY Parts DEF EInv
    <3> QED
      BY <1>1, <1>6, <3>1, <3>2 DEF Held, FlowOf, AnswerInv
  <2>2. PICK c : c = s.took.card
    OBVIOUS
  <2>3. StepOf(r) = "version" /\ Accepts(r, s.took) /\ SameCard(r, s.took)
    BY <1>1, <1>6, StepNumbers DEF StepOf, Accepts, SameCard, Stale, Due
  <2>4. PICK w \in {"failed", "insert"} :
          /\ Goes(r, [s EXCEPT !.work = w, !.uid = c])
          /\ w = "failed" => perUID' = perUID
          /\ w = "insert" => perUID' = [perUID EXCEPT ![c] = r]
    <3>1. Failed([s EXCEPT !.uid = c]) = [s EXCEPT !.work = "failed", !.uid = c]
      BY <1>1 DEF Failed, SessType
    <3> QED
      BY <2>2, <2>3, <3>1 DEF Accept
  <2>5. PICK q : q = [s EXCEPT !.work = w, !.uid = c]
    OBVIOUS
  <2>6. /\ q.uid = c /\ q.took = s.took /\ q.phone = s.phone /\ q.step = 2 /\ q.work = w
        /\ q.answer = s.answer /\ q.busy = s.busy /\ q.late = s.late
    BY <1>1, <1>6, <2>5 DEF SessType
  <2>7. FlowOf(q, r \in live)
    BY <1>1, <1>6, <2>1, <2>6 DEF FlowOf, Working, Stale
  <2>8. sess'[r] = q /\ \A x \in Rounds : x # r => sess'[x] = sess[x]
    BY <1>2, <2>4, <2>5 DEF Goes
  <2>9. GotInv(r)'
    BY <2>1, <2>6, <2>8 DEF GotInv, Got, Stale
  <2>10. r \in live
    BY <1>1 DEF FlowOf, Working
  <2>11. CountInv'
    <3>1. CASE w = "failed"
      BY <1>1, <2>1, <2>4, <2>5, <2>6, <3>1, CountGoes
    <3>2. CASE w = "insert"
      <4>1. perUID' \in [Chips -> Rounds \cup {None}]
        BY <1>2, <2>1, <2>2, <2>4, <3>2 DEF CountInv
      <4>2. ASSUME NEW d \in Chips, perUID'[d] # None
            PROVE  /\ perUID'[d] \in live' /\ sess'[perUID'[d]].uid = d
                   /\ Held(sess'[perUID'[d]])
        <5>1. CASE d = c
          <6>1. perUID'[d] = r
            BY <1>2, <2>4, <3>2, <5>1 DEF CountInv
          <6> QED
            BY <1>1, <2>6, <2>8, <2>10, <3>2, <5>1, <6>1 DEF Held
        <5>2. CASE d # c
          <6>1. perUID'[d] = perUID[d]
            BY <1>2, <2>4, <3>2, <5>2 DEF CountInv
          <6>2. /\ perUID[d] \in live /\ sess[perUID[d]].uid = d /\ Held(sess[perUID[d]])
                /\ perUID[d] \in Rounds
            BY <1>2, <4>2, <6>1 DEF CountInv
          <6>3. perUID[d] # r
            BY <2>1, <6>2
          <6> QED
            BY <1>1, <2>8, <6>1, <6>2, <6>3
        <5> QED
          BY <5>1, <5>2
      <4>3. closed' => \A x \in live' : sess'[x].busy /\ sess'[x].late
        BY <1>1, <1>2, <2>6, <2>8 DEF CountInv
      <4> QED
        BY <1>1, <1>2, <4>1, <4>2, <4>3 DEF CountInv, Held
    <3> QED
      BY <2>4, <3>1, <3>2
  <2> QED
    BY <1>1, <2>4, <2>5, <2>7, <2>9, <2>11, EGoes
<1> QED
  <2>1. Accepts(r, s.took) <=> ~Stale(s)
    BY DEF Accepts, Stale, Due, StepOf
  <2>2. StepOf(r) = "version" <=> s.step = 2
    BY <1>1, StepNumbers DEF StepOf
  <2>3. CASE ~(Accepts(r, s.took) /\ SameCard(r, s.took))
    BY <1>4, <2>3 DEF Accept
  <2>4. CASE Accepts(r, s.took) /\ SameCard(r, s.took) /\ StepOf(r) # "version"
    BY <1>5, <2>1, <2>2, <2>4 DEF Accept
  <2>5. CASE Accepts(r, s.took) /\ SameCard(r, s.took) /\ StepOf(r) = "version"
    BY <1>6, <2>1, <2>2, <2>5
  <2> QED
    BY <2>3, <2>4, <2>5

\* The row is written: it is not stamped yet, and the answer that named the plaque is
\* stale at the next step.
LEMMA InsertE ==
  ASSUME EInv, IInv', NEW r \in Rounds, InsertUnassigned(r)
  PROVE  EInv'
<1> DEFINE s == sess[r]
           c == s.uid
<1>1. /\ s \in SessType /\ FlowOf(s, r \in live) /\ s.work = "insert"
      /\ s.step = 2 /\ ~Stale(s) /\ c \in Chips
      /\ chip' = chip /\ UNCHANGED <<live, perActor, perUID, closed>>
  BY EParts DEF InsertUnassigned, Works, FlowOf, RowInv
<1>2. sess \in [Rounds -> SessType] /\ CountInv /\ tag \in [Chips -> TagType]
  BY DEF EInv, IInv, TypeOK
<1>3. closed => (r \in live => s.busy /\ s.late)
  BY <1>2 DEF CountInv
<1>4. EncodedIsComplete'
  <2>1. ASSUME NEW d \in Chips, tag'[d].encoded
        PROVE  tag'[d] = tag[d]
    <3>1. CASE tag[c] # NoTag
      BY <1>1, <3>1 DEF InsertUnassigned
    <3>2. CASE tag[c] = NoTag
      BY <1>1, <1>2, <2>1, <3>2 DEF InsertUnassigned
    <3> QED
      BY <3>1, <3>2
  <2> QED
    BY <1>1, <2>1 DEF EInv, EncodedIsComplete
<1>5. CASE Goes(r, Failed(s))
  <2>1. /\ Follows(s, Failed(s)) /\ FlowOf(Failed(s), r \in live) /\ Held(Failed(s))
        /\ Failed(s).busy = s.busy /\ Failed(s).late = s.late
    BY <1>1 DEF Follows, FlowOf, Held, Working, Stale, SessType, Failed
  <2> QED
    BY <1>1, <1>3, <1>4, <1>5, <2>1, EQuietGoes
<1>6. CASE Goes(r, Advanced(s))
  <2>1. PICK q, n : q = [s EXCEPT !.work = "finish", !.step = n] /\ n = 2 + 1 /\ Goes(r, q)
    <3>1. Len(Steps) = 8
      BY <1>1, StepNumbers
    <3>2. Advanced(s) = [s EXCEPT !.work = "finish", !.step = s.step + 1]
      BY <1>1, <3>1 DEF Advanced
    <3> QED
      BY <1>1, <1>6, <3>2
  <2>2. /\ q.uid = c /\ q.took = s.took /\ q.phone = s.phone /\ q.step = 3 /\ q.work = "finish"
        /\ q.answer = s.answer /\ q.busy = s.busy /\ q.late = s.late
    BY <1>1, <2>1 DEF SessType
  <2>3. Stale(q)
    <3>1. Due(2) # Due(3)
      BY DuesDiffer
    <3> QED
      BY <1>1, <2>2, <3>1 DEF Stale
  <2>4. FlowOf(q, r \in live) /\ Held(q)
    BY <1>1, <2>2, <2>3 DEF FlowOf, Working, Held
  <2>5. sess'[r] = q
    BY <1>2, <2>1 DEF Goes
  <2>6. GotInv(r)'
    BY <2>2, <2>5 DEF GotInv, Got
  <2>7. CountInv'
    BY <1>1, <2>1, <2>2, <2>4, CountGoes
  <2> QED
    BY <1>1, <1>4, <2>1, <2>4, <2>6, <2>7, EGoes
<1> QED
  BY <1>5, <1>6 DEF InsertUnassigned

---------------------------------------------------------------------------
\* What a chip's answer says: it keeps its address and its lock, and an answer that
\* fits means that it did what the command says.
LEMMA AnsweredSays ==
  ASSUME NEW r \in Rounds, NEW c \in Chips, NEW step \in StepNames, chip[c] \in ChipType
  PROVE  LET y == Answered(r, c, step)[1]
             b == Answered(r, c, step)[2]
         IN  /\ chip[c].ndef => y.ndef
             /\ chip[c].locked => y.locked
             /\ b = BodyOf(step) =>
                  /\ step = "write" => y.ndef
                  /\ step = "filekey" => chip[c].auth = r /\ y.file = r
                  /\ step = "settings" => chip[c].auth = r /\ y.locked
                  /\ step = "appkey" => chip[c].auth = r /\ y.app = r
<1>1. CASE step \in {"select", "version"}
  BY <1>1 DEF Answered, BodyOf, ChipType
<1>2. CASE step = "auth"
  BY <1>2 DEF Answered, BodyOf, ChipType
<1>3. CASE step = "carduid"
  BY <1>3 DEF Answered, BodyOf, ChipType
<1>4. CASE step = "write"
  BY <1>4 DEF Answered, BodyOf, ChipType
<1>5. CASE step = "filekey"
  BY <1>5 DEF Answered, BodyOf, ChipType
<1>6. CASE step = "settings"
  BY <1>6 DEF Answered, BodyOf, ChipType
<1>7. CASE step = "appkey"
  BY <1>7 DEF Answered, BodyOf, ChipType
<1> QED
  BY <1>1, <1>2, <1>3, <1>4, <1>5, <1>6, <1>7 DEF StepNames

(* What a relayed command can do to the chips, and what a fitting answer b  *)
(* to step n says.                                                          *)
Effects(r, c, n, b) ==
  /\ \A d \in Chips :
       /\ chip[d].ndef => chip'[d].ndef
       /\ chip[d].locked => chip'[d].locked
       /\ chip'[d].file = chip[d].file
          \/ (d = c /\ n = 6 /\ chip[c].auth = r /\ chip'[c].file = r)
       /\ chip'[d].app = chip[d].app
          \/ (d = c /\ n = 8 /\ chip[c].auth = r /\ chip'[c].app = r)
       /\ \A x \in Rounds : chip'[d].auth = x =>
            /\ chip[d].auth = x \/ (x = r /\ n = 3)
            /\ x = r => d = c
  /\ b = Due(n) =>
       /\ n = 5 => chip'[c].ndef
       /\ n = 6 => chip[c].auth = r /\ chip'[c].file = r
       /\ n = 7 => chip[c].auth = r /\ chip'[c].locked
       /\ n = 8 => chip[c].auth = r /\ chip'[c].app = r

\* What a relayed command can do to the chips.
LEMMA RelayDoes ==
  ASSUME EInv, NEW r \in Rounds, NEW c \in Chips, Relay(r, c)
  PROVE  \E b :
           /\ Goes(r, [sess[r] EXCEPT !.phone = "answer", !.answer = [body |-> b, card |-> c]])
           /\ Effects(r, c, sess[r].step, b)
<1> DEFINE s == sess[r]
<1>1. /\ s \in SessType /\ s.step \in 1..8 /\ chip \in [Chips -> ChipType]
  BY EParts DEF EInv, IInv, TypeOK
<1>2. PICK step : step = StepOf(r)
  OBVIOUS
<1>3. /\ step \in StepNames /\ Due(s.step) = BodyOf(step)
      /\ step = "auth" <=> s.step = 3
      /\ step = "filekey" <=> s.step = 6
      /\ step = "appkey" <=> s.step = 8
      /\ s.step = 5 => step = "write"
      /\ s.step = 7 => step = "settings"
  BY <1>1, <1>2, StepNumbers DEF StepOf, Due, Steps
<1>4. PICK y, b : y = Answered(r, c, step)[1] /\ b = Answered(r, c, step)[2]
  OBVIOUS
<1>5. /\ y.auth \in {chip[c].auth, None} \/ (step = "auth" /\ y.auth = r)
      /\ y.file = chip[c].file \/ (step = "filekey" /\ chip[c].auth = r /\ y.file = r)
      /\ y.app = chip[c].app \/ (step = "appkey" /\ chip[c].auth = r /\ y.app = r)
  BY <1>1, <1>3, <1>4, AnsweredIs
<1>6. /\ chip[c].ndef => y.ndef
      /\ chip[c].locked => y.locked
      /\ b = BodyOf(step) =>
           /\ step = "write" => y.ndef
           /\ step = "filekey" => chip[c].auth = r /\ y.file = r
           /\ step = "settings" => chip[c].auth = r /\ y.locked
           /\ step = "appkey" => chip[c].auth = r /\ y.app = r
  BY <1>1, <1>3, <1>4, AnsweredSays
<1>7. /\ Goes(r, [s EXCEPT !.phone = "answer", !.answer = [body |-> b, card |-> c]])
      /\ chip' = [d \in Chips |-> IF d = c THEN y
                                  ELSE IF chip[d].auth = r THEN [chip[d] EXCEPT !.auth = None]
                                  ELSE chip[d]]
  BY <1>2, <1>4 DEF Relay
<1>8. chip'[c] = y
  BY <1>7
<1>9. ASSUME NEW d \in Chips, d # c
      PROVE  /\ chip'[d].file = chip[d].file /\ chip'[d].app = chip[d].app
             /\ chip'[d].ndef = chip[d].ndef /\ chip'[d].locked = chip[d].locked
             /\ chip'[d].auth = IF chip[d].auth = r THEN None ELSE chip[d].auth
  BY <1>1, <1>7, <1>9 DEF ChipType
<1>10. ASSUME NEW d \in Chips, NEW x \in Rounds, chip'[d].auth = x
       PROVE  (chip[d].auth = x \/ (x = r /\ s.step = 3)) /\ (x = r => d = c)
  <2>1. x # None
    BY Apart
  <2>2. CASE d = c
    BY <1>3, <1>5, <1>8, <1>10, <2>1, <2>2
  <2>3. CASE d # c
    BY <1>9, <1>10, <2>1, <2>3
  <2> QED
    BY <2>2, <2>3
<1>11. ASSUME NEW d \in Chips
       PROVE  /\ chip[d].ndef => chip'[d].ndef
              /\ chip[d].locked => chip'[d].locked
              /\ chip'[d].file = chip[d].file
                 \/ (d = c /\ s.step = 6 /\ chip[c].auth = r /\ chip'[c].file = r)
              /\ chip'[d].app = chip[d].app
                 \/ (d = c /\ s.step = 8 /\ chip[c].auth = r /\ chip'[c].app = r)
  <2>1. CASE d = c
    BY <1>3, <1>5, <1>6, <1>8, <2>1
  <2>2. CASE d # c
    BY <1>9, <2>2
  <2> QED
    BY <2>1, <2>2
<1>12. b = Due(s.step) =>
         /\ s.step = 5 => chip'[c].ndef
         /\ s.step = 6 => chip[c].auth = r /\ chip'[c].file = r
         /\ s.step = 7 => chip[c].auth = r /\ chip'[c].locked
         /\ s.step = 8 => chip[c].auth = r /\ chip'[c].app = r
  BY <1>3, <1>6, <1>8
<1> QED
  BY <1>7, <1>10, <1>11, <1>12 DEF Effects

\* A command reaches a chip: what other rounds' chips have taken stays, and an answer
\* that fits the step says that the round's own chip did it.
LEMMA RelayE ==
  ASSUME EInv, IInv', NEW r \in Rounds, NEW c \in Chips, Relay(r, c)
  PROVE  EInv'
<1> DEFINE s == sess[r]
<1>0. PICK n : n = s.step
  OBVIOUS
<1>1. /\ s \in SessType /\ n \in 1..8 /\ FlowOf(s, r \in live) /\ GotInv(r) /\ RowInv(r)
      /\ s.phone = "command" /\ tag' = tag /\ UNCHANGED <<live, perActor, perUID, closed>>
  BY <1>0, EParts DEF Relay
<1>2. sess \in [Rounds -> SessType]
  BY DEF EInv, IInv, TypeOK
<1>3. PICK b :
        /\ Goes(r, [s EXCEPT !.phone = "answer", !.answer = [body |-> b, card |-> c]])
        /\ Effects(r, c, n, b)
  BY <1>0, RelayDoes
<1>4. PICK q : q = [s EXCEPT !.phone = "answer", !.answer = [body |-> b, card |-> c]]
  OBVIOUS
<1>5. /\ q.phone = "answer" /\ q.answer.body = b /\ q.step = n /\ q.uid = s.uid /\ q.work = s.work
      /\ q.took = s.took /\ q.busy = s.busy /\ q.late = s.late
  BY <1>0, <1>1, <1>4 DEF SessType
<1>6. \A x \in Rounds : sess'[x] = IF x = r THEN q ELSE sess[x]
  BY <1>2, <1>3, <1>4 DEF Goes
\* A key goes only to the round's own plaque, whose row holds it.
<1>7. n >= 5 /\ chip[c].auth = r => c = s.uid /\ tag[c].keys = r
  BY <1>0, <1>1 DEF RowInv
<1>8. ASSUME NEW x \in Rounds, NEW m \in 1..9, NEW u, u = sess[x].uid,
             Got(u, x, m), m >= 6 => sess[x].step >= 5
      PROVE  Got(u, x, m)'
  <2>1. CASE m < 6
    BY <2>1 DEF Got
  <2>2. CASE m >= 6
    <3>1. sess[x].step >= 5 /\ sess[x].step \in 1..8 /\ RowInv(x)
      BY <1>8, <2>2, EParts
    <3>2. u \in Chips /\ tag[u].keys = x
      BY <1>8, <3>1 DEF RowInv
    <3>3. m = 6 => (chip'[u].auth = x => chip'[u].ndef)
      BY <1>0, <1>3, <1>8, <3>1, <3>2 DEF Got, Effects
    <3>4. m >= 7 => chip'[u].ndef /\ chip'[u].file = x
      BY <1>1, <1>3, <1>7, <1>8, <3>2 DEF Got, Effects
    <3>5. m >= 8 => chip'[u].locked
      BY <1>3, <1>8, <3>2 DEF Got, Effects
    <3>6. m >= 9 => chip'[u].app = x
      BY <1>1, <1>3, <1>7, <1>8, <3>2 DEF Got, Effects
    <3> QED
      BY <3>3, <3>4, <3>5, <3>6 DEF Got
  <2> QED
    BY <2>1, <2>2
<1>9. PICK u : u = s.uid
  OBVIOUS
<1>10. b = Due(n) => Got(u, r, n + 1)'
  <2>1. SUFFICES ASSUME b = Due(n) PROVE Got(u, r, n + 1)'
    OBVIOUS
  <2>2. Got(u, r, n)'
    BY <1>0, <1>1, <1>8, <1>9 DEF GotInv
  <2>3. CASE n <= 4
    BY <1>1, <2>3 DEF Got
  <2>4. CASE n = 5
    <3>1. u \in Chips
      BY <1>0, <1>1, <1>9, <2>4 DEF RowInv
    <3>2. chip'[u].auth = r => chip'[u].ndef
      BY <1>3, <2>1, <2>4, <3>1 DEF Effects
    <3> QED
      BY <2>4, <3>2 DEF Got
  <2>5. CASE n = 6
    <3>1. u = c /\ chip[c].auth = r /\ chip'[c].file = r
      BY <1>3, <1>7, <1>9, <2>1, <2>5 DEF Effects
    <3>2. chip[c].ndef
      BY <1>0, <1>1, <1>9, <2>5, <3>1 DEF GotInv, Got
    <3> QED
      BY <1>3, <2>5, <3>1, <3>2 DEF Got, Effects
  <2>6. CASE n = 7
    <3>1. u = c /\ chip'[c].locked
      BY <1>3, <1>7, <1>9, <2>1, <2>6 DEF Effects
    <3> QED
      BY <2>2, <2>6, <3>1 DEF Got
  <2>7. CASE n = 8
    <3>1. u = c /\ chip'[c].app = r
      BY <1>3, <1>7, <1>9, <2>1, <2>7 DEF Effects
    <3> QED
      BY <2>2, <2>7, <3>1 DEF Got
  <2> QED
    BY <1>1, <2>3, <2>4, <2>5, <2>6, <2>7
<1>11. ASSUME NEW x \in Rounds
       PROVE  GotInv(x)'
  <2>1. GotInv(x) /\ sess[x].step \in 1..8 /\ FlowOf(sess[x], x \in live)
    BY EParts
  <2>2. PICK v, m : v = sess[x].uid /\ m = sess[x].step
    OBVIOUS
  <2>3. /\ sess'[x].uid = v /\ sess'[x].step = m /\ sess'[x].took = sess[x].took
        /\ sess'[x].work = sess[x].work
    BY <1>0, <1>5, <1>6, <2>2
  <2>4. Got(v, x, m)'
    BY <1>8, <2>1, <2>2 DEF GotInv
  <2>5. Got(v, x, m + 1) => Got(v, x, m + 1)'
    BY <1>8, <2>1, <2>2
  <2>6. sess[x].work \in {"done", "mark"} => Got(v, x, 9)'
    <3>1. sess[x].work \in {"done", "mark"} => Got(v, x, 9) /\ sess[x].step = 8
      BY <2>1, <2>2 DEF GotInv, FlowOf
    <3> QED
      BY <1>8, <2>2, <3>1
  <2>7. ~Stale(sess'[x]) => Got(v, x, m + 1)'
    BY <2>1, <2>2, <2>3, <2>5 DEF GotInv, Stale
  <2>8. sess'[x].phone = "answer" /\ sess'[x].answer.body = Due(m) => Got(v, x, m + 1)'
    <3>1. CASE x = r
      BY <1>0, <1>5, <1>6, <1>9, <1>10, <2>2, <3>1
    <3>2. CASE x # r
      BY <1>6, <2>1, <2>2, <2>5, <3>2 DEF GotInv
    <3> QED
      BY <3>1, <3>2
  <2> QED
    BY <2>3, <2>4, <2>6, <2>7, <2>8 DEF GotInv, Stale
<1>12. ASSUME NEW x \in Rounds
       PROVE  FlowOf(sess[x], x \in live)'
  <2>1. FlowOf(q, r \in live)
    BY <1>0, <1>1, <1>5 DEF FlowOf, Working, Stale
  <2>2. FlowOf(sess'[x], x \in live')
    BY <1>1, <1>6, <2>1 DEF EInv
  <2> QED
    BY <2>2 DEF FlowOf, Working, Stale
<1>13. EncodedIsComplete'
  <2>1. ASSUME NEW d \in Chips, tag'[d].encoded
        PROVE  /\ chip'[d].file = tag'[d].keys /\ chip'[d].app = tag'[d].keys
               /\ chip'[d].ndef /\ chip'[d].locked
    <3>1. /\ chip[d].file = tag[d].keys /\ chip[d].app = tag[d].keys
          /\ chip[d].ndef /\ chip[d].locked
      BY <1>1, <2>1 DEF EInv, EncodedIsComplete
    <3> QED
      BY <1>1, <1>3, <1>7, <3>1 DEF Effects
  <2> QED
    BY <2>1 DEF EncodedIsComplete
<1>14. CountInv'
  <2>1. Held(q) <=> Held(s)
    BY <1>0, <1>5 DEF Held
  <2> QED
    BY <1>1, <1>3, <1>4, <1>5, <2>1, CountGoes
<1> QED
  BY <1>11, <1>12, <1>13, <1>14 DEF EInv

---------------------------------------------------------------------------
\* At first no session lives, no chip has taken anything and no row is stamped.
LEMMA InitE == Init => EInv
<1> SUFFICES ASSUME Init PROVE EInv
  OBVIOUS
<1>1. IInv
  BY InitIInv
<1> DEFINE s == [phone |-> "new", busy |-> FALSE, late |-> FALSE, step |-> 1,
                 uid |-> None, work |-> "none", took |-> NoAnswer, answer |-> NoAnswer]
<1>2. sess = [r \in Rounds |-> s] /\ live = {} /\ perActor = 0 /\ closed = FALSE
      /\ perUID = [c \in Chips |-> None] /\ tag = [c \in Chips |-> NoTag]
  BY Zenon DEF Init
<1>3. Due(1) # "none"
  BY DuesDiffer
<1>4. ASSUME NEW r \in Rounds
      PROVE  FlowOf(sess[r], r \in live) /\ GotInv(r)
  <2>1. sess[r] = s /\ (r \in live) = FALSE
    BY <1>2
  <2>2. FlowOf(s, FALSE)
    BY <1>3 DEF FlowOf, Working, Stale, NoAnswer
  <2>3. GotInv(r)
    BY <1>3, <2>1 DEF GotInv, Got, Stale, NoAnswer
  <2> QED
    BY <2>1, <2>2, <2>3
<1>5. EncodedIsComplete
  BY <1>2 DEF EncodedIsComplete, NoTag
<1>6. CountInv
  BY <1>2, FS_EmptySet DEF CountInv
<1> QED
  BY <1>1, <1>4, <1>5, <1>6 DEF EInv

\* Every step keeps the second invariant.
LEMMA NextE == EInv /\ [Next]_vars => EInv'
<1> SUFFICES ASSUME EInv, [Next]_vars PROVE EInv'
  OBVIOUS
<1>1. IInv'
  BY NextIInv DEF EInv
<1>2. CASE Sweep \/ Close \/ Restart
  BY <1>1, <1>2, StoreStepsE
<1>3. CASE \E r \in Rounds : Round(r)
  <2>1. PICK r \in Rounds : Round(r)
    BY <1>3
  <2>2. CASE GiveUp(r) \/ Abort(r) \/ CheckoutCancelled(r) \/ DeadlinePasses(r)
    BY <1>1, <2>2, PhoneStepsE
  <2>3. CASE Checkout(r) \/ InsertFails(r) \/ Finish(r) \/ Cancelled(r)
    BY <1>1, <2>3, StepEndsE
  <2>4. CASE Begin(r)
    BY <1>1, <2>4, BeginE
  <2>5. CASE Accept(r)
    BY <1>1, <2>5, AcceptE
  <2>6. CASE InsertUnassigned(r)
    BY <1>1, <2>6, InsertE
  <2>7. CASE MarkEncoded(r)
    BY <1>1, <2>7, MarkE
  <2>8. CASE \E c \in Chips : Relay(r, c)
    BY <1>1, <2>8, RelayE
  <2> QED
    BY <2>1, <2>2, <2>3, <2>4, <2>5, <2>6, <2>7, <2>8, Zenon DEF Round
<1>4. CASE UNCHANGED vars
  BY <1>1, <1>4 DEF vars, EInv, FlowOf, Working, GotInv, Got, Stale, EncodedIsComplete,
                    CountInv, Held
<1> QED
  BY <1>2, <1>3, <1>4, Zenon DEF Next

(* A row stamped as encoded is a chip that took the address, both keys of   *)
(* the row and the settings, although a bare acknowledgement that is        *)
(* delivered twice looks like the answer to a later command.                *)
THEOREM StampedIsComplete == Spec => []EncodedIsComplete
<1>1. EInv => EncodedIsComplete
  BY DEF EInv
<1> QED
  BY <1>1, InitE, NextE, PTL DEF Spec

(* The limit counts the sessions that live, for any number of them: one is  *)
(* retired once, never under a step, and holds its plaque while it lives.   *)
THEOREM LimitsCount == Spec => []SessionsAreCounted
<1>1. EInv => SessionsAreCounted
  <2>1. SUFFICES ASSUME EInv PROVE SessionsAreCounted
    OBVIOUS
  <2>2. \A r \in Rounds : sess[r].busy => r \in live
    BY <2>1 DEF EInv, FlowOf
  <2> QED
    BY <2>1, <2>2 DEF EInv, CountInv, SessionsAreCounted
<1> QED
  BY <1>1, InitE, NextE, PTL DEF Spec
=============================================================================

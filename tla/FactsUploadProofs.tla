--------------------------- MODULE FactsUploadProofs ---------------------------
(***************************************************************************)
(* Proofs about FactsUpload, for any documents, holds, steps and number of *)
(* faults: how often a document goes to a server, whatever it answers.     *)
(***************************************************************************)
EXTENDS FactsUpload, FiniteSetTheorems, TLAPS

(***************************************************************************)
(* The inductive invariant, in four parts and the types.                   *)
(*                                                                         *)
(* The thread sends what the pacer still lets it send.                     *)
(***************************************************************************)
SendInv ==
  /\ pc = "send" => ShouldUpload(pacer, sending)
  /\ pc = "snapshot" => ~pacer.skipThis

(***************************************************************************)
(* Turns of calm are the turns the pacer skips.                            *)
(***************************************************************************)
CalmInv ==
  /\ calm \in 0..2
  /\ calm = 1 => pacer.skipThis
  /\ calm = 2 => pc = "sleep" /\ pacer.skipNext

(***************************************************************************)
(* A document sent in this step waits for the next one, after a rejection, *)
(* after a re-send or unconfirmed.  Only one that was confirmed and was    *)
(* never sent again may go once more.                                      *)
(***************************************************************************)
BurstOf(p, sent, times) ==
  /\ times \in 0..2
  /\ times > 0 =>
       /\ sent # None
       /\ \/ sent = p.rejected /\ p.retryIn > 0
          \/ sent = p.acked /\ p.resends > 0 /\ p.resendIn > 0
          \/ /\ times = 1 /\ sent = p.acked /\ p.resends = 0
             /\ p.resendIn > 0 \/ p.confirmed
             /\ sent = p.refused => p.refusedFor > 0

(***************************************************************************)
(* Acknowledgements without a confirmation are counted by the pacer, or    *)
(* have led to a refusal that outlasts them and ends only when the         *)
(* server's word changes.                                                  *)
(***************************************************************************)
AckOf(p, sent, times, left, said) ==
  /\ times \in Nat /\ left \in 0..Day
  /\ times > 0 =>
       /\ sent = p.acked /\ ~p.confirmed /\ left > 0 /\ times <= 3
       /\ sent = p.refused => p.refusedFor >= left /\ p.refusedServer \in {None, said}
       /\ sent # p.refused => times <= p.unconfirmed

PacingInv == BurstOf(pacer, last, burst) /\ AckOf(pacer, last, acks, fresh, word)

IInv == TypeOK /\ SendInv /\ CalmInv /\ PacingInv

-----------------------------------------------------------------------------
(* Steps of the backoff *)

\* The larger and the smaller of two numbers.
LEMMA TwoNumbers ==
  ASSUME NEW a \in Nat, NEW b \in Nat
  PROVE  /\ Max({a, b}) \in {a, b} /\ Max({a, b}) >= a /\ Max({a, b}) >= b
         /\ Min({a, b}) \in {a, b} /\ Min({a, b}) <= a /\ Min({a, b}) <= b
<1>1. \E x \in {a, b} : \A y \in {a, b} : x >= y
  <2>1. CASE a >= b
    BY <2>1
  <2>2. CASE b >= a
    BY <2>2
  <2> QED
    BY <2>1, <2>2
<1>2. \E x \in {a, b} : \A y \in {a, b} : x =< y
  <2>1. CASE a =< b
    BY <2>1
  <2>2. CASE b =< a
    BY <2>2
  <2> QED
    BY <2>1, <2>2
<1>3. Max({a, b}) \in {a, b} /\ \A y \in {a, b} : Max({a, b}) >= y
  BY <1>1, Zenon DEF Max
<1>4. Min({a, b}) \in {a, b} /\ \A y \in {a, b} : Min({a, b}) =< y
  BY <1>2, Zenon DEF Min
<1> QED
  BY <1>3, <1>4, Zenon

\* No hold is longer than the longest Retry-After.
LEMMA LongestHold ==
  Max(Holds) \in Nat /\ \A time \in Holds : time \in 0..Max(Holds)
<1>1. Max(Holds) \in Holds /\ \A time \in Holds : Max(Holds) >= time
  <2>1. \E longest \in Holds : \A time \in Holds : longest >= time
    BY UploadAssumption
  <2> QED
    BY <2>1, Zenon DEF Max
<1>2. PICK longest \in Nat : longest = Max(Holds) /\ (\A time \in Holds : longest >= time) /\ Holds \subseteq Nat
  BY <1>1, UploadAssumption, Zenon
<1>3. \A time \in Holds : time \in 0..longest
  BY <1>2
<1> QED
  BY <1>2, <1>3, Zenon

\* The shift that doubles a step never gives nothing.
LEMMA DoublingIsPositive ==
  ASSUME NEW n \in Nat
  PROVE  2 ^ n \in Nat \ {0}
<1>1. IsFiniteSet(1..n) /\ Cardinality(1..n) = n
  BY FS_Interval
<1>2. IsFiniteSet(SUBSET (1..n)) /\ Cardinality(SUBSET (1..n)) = 2 ^ n
  BY <1>1, FS_SUBSET
<1>3. SUBSET (1..n) # {}
  OBVIOUS
<1> QED
  BY <1>2, <1>3, FS_CardinalityType, FS_EmptySet

\* Every step of the backoff is at least the first and at most the longest.
LEMMA StepFacts ==
  ASSUME NEW n \in Nat
  PROVE  Step(n) \in 1..Hour /\ Count(n) \in 1..Hour
<1>1. 2 ^ n \in Nat \ {0} /\ Hour \in Nat \ {0} /\ n + 1 \in Nat \ {0}
  BY DoublingIsPositive, PacerAssumption
<1>2. PICK power \in Nat \ {0} : power = 2 ^ n
  BY <1>1, Zenon
<1>3. Step(n) \in {power, Hour} /\ Step(n) <= Hour
  <2>1. Min({power, Hour}) \in {power, Hour} /\ Min({power, Hour}) <= Hour
    BY <1>1, TwoNumbers
  <2> QED
    BY <1>2, <2>1, Zenon DEF Step
<1>4. Count(n) \in {n + 1, Hour} /\ Count(n) <= Hour
  BY <1>1, TwoNumbers DEF Count
<1> QED
  BY <1>1, <1>3, <1>4

-----------------------------------------------------------------------------
(* What the operations of the pacer change *)

\* A pacer between two of its operations has not counted up to the verdict.
LEMMA PacersInclude ==
  ASSUME NEW p \in Pacers
  PROVE  p \in PacersUpTo(UnconfirmedVerdict)
<1>1. p.unconfirmed \in 0..UnconfirmedVerdict - 1
  BY Zenon DEF Pacers, PacersUpTo
<1>2. p.unconfirmed \in 0..UnconfirmedVerdict
  BY <1>1 DEF UnconfirmedVerdict
<1> QED
  BY <1>2, ZenonT(30) DEF Pacers, PacersUpTo

\* The fields by which uploads are paced are the same.
SamePacing(p, q) ==
  /\ q.refused = p.refused /\ q.refusedFor = p.refusedFor /\ q.refusedServer = p.refusedServer
  /\ q.rejected = p.rejected /\ q.retryIn = p.retryIn
  /\ q.acked = p.acked /\ q.confirmed = p.confirmed /\ q.unconfirmed = p.unconfirmed
  /\ q.resends = p.resends /\ q.resendIn = p.resendIn

\* Turns, holds and silence pace nothing by themselves.
LEMMA TurnFacts ==
  ASSUME NEW p \in Pacers
  PROVE  /\ Start(p) \in Pacers /\ SamePacing(p, Start(p)) /\ ~Start(p).skipThis /\ ~Start(p).skipNext
         /\ BeginTurn(p) \in Pacers /\ SamePacing(p, BeginTurn(p)) /\ BeginTurn(p).skipThis = p.skipNext
         /\ TroubleThisTurn(p) \in Pacers /\ SamePacing(p, TroubleThisTurn(p)) /\ TroubleThisTurn(p).skipThis
         /\ TroubleThisTurn(p).skipNext = p.skipNext
         /\ QuietNextTurn(p) \in Pacers /\ SamePacing(p, QuietNextTurn(p)) /\ QuietNextTurn(p).skipNext
         /\ QuietNextTurn(p).skipThis = p.skipThis
         /\ ServerSilent(p) \in Pacers /\ SamePacing(p, ServerSilent(p))
         /\ ServerSilent(p).skipThis = p.skipThis /\ ServerSilent(p).skipNext = p.skipNext
<1> USE DEF Pacers, PacersUpTo, SamePacing
<1>1. Start(p) \in Pacers /\ SamePacing(p, Start(p)) /\ ~Start(p).skipThis /\ ~Start(p).skipNext
  BY Zenon DEF Start
<1>2. BeginTurn(p) \in Pacers /\ SamePacing(p, BeginTurn(p)) /\ BeginTurn(p).skipThis = p.skipNext
  BY Zenon DEF BeginTurn
<1>3. /\ TroubleThisTurn(p) \in Pacers /\ SamePacing(p, TroubleThisTurn(p)) /\ TroubleThisTurn(p).skipThis
      /\ TroubleThisTurn(p).skipNext = p.skipNext
  BY Zenon DEF TroubleThisTurn
<1>4. /\ QuietNextTurn(p) \in Pacers /\ SamePacing(p, QuietNextTurn(p)) /\ QuietNextTurn(p).skipNext
      /\ QuietNextTurn(p).skipThis = p.skipThis
  BY Zenon DEF QuietNextTurn
<1>5. /\ ServerSilent(p) \in Pacers /\ SamePacing(p, ServerSilent(p))
      /\ ServerSilent(p).skipThis = p.skipThis /\ ServerSilent(p).skipNext = p.skipNext
  BY Zenon DEF ServerSilent, Hashes
<1> QED
  BY <1>1, <1>2, <1>3, <1>4, <1>5, Zenon

\* A hold only makes a wait longer.
LEMMA HoldFacts ==
  ASSUME NEW p \in Pacers, NEW time \in Holds
  PROVE  /\ Hold(p, time) \in Pacers /\ SamePacing(p, Hold(p, time))
         /\ Hold(p, time).skipThis = p.skipThis /\ Hold(p, time).skipNext = p.skipNext
<1>1. p.holdFor \in 0..Max(Holds)
  BY Zenon DEF Pacers, PacersUpTo
<1>2. PICK longest \in Nat : longest = Max(Holds)
  BY LongestHold, Zenon
<1>3. p.holdFor \in 0..longest /\ time \in 0..longest
  BY <1>1, <1>2, LongestHold, Zenon
<1>4. p.holdFor \in Nat /\ time \in Nat
  BY <1>3
<1>5. Max({p.holdFor, time}) \in 0..longest
  BY <1>3, <1>4, TwoNumbers, Zenon
<1> QED
  BY <1>2, <1>5, Zenon DEF Hold, Pacers, PacersUpTo, SamePacing

\* Time passes for every wait at once.
LEMMA ElapseFacts ==
  ASSUME NEW p \in Pacers
  PROVE  /\ Elapse(p) \in Pacers
         /\ Elapse(p).server = p.server /\ Elapse(p).skipThis = p.skipThis /\ Elapse(p).skipNext = p.skipNext
         /\ Elapse(p).refused = p.refused /\ Elapse(p).refusedServer = p.refusedServer
         /\ Elapse(p).rejected = p.rejected /\ Elapse(p).acked = p.acked /\ Elapse(p).confirmed = p.confirmed
         /\ Elapse(p).unconfirmed = p.unconfirmed /\ Elapse(p).resends = p.resends
         /\ Elapse(p).holdFor = Less(p.holdFor) /\ Elapse(p).refusedFor = Less(p.refusedFor)
         /\ Elapse(p).retryIn = Less(p.retryIn) /\ Elapse(p).resendIn = Less(p.resendIn)
<1>1. ASSUME NEW n \in Nat, NEW k \in 0..n PROVE Less(k) \in 0..n
  BY <1>1 DEF Less
<1>2. /\ p.holdFor \in 0..Max(Holds) /\ p.refusedFor \in 0..Day /\ p.retryIn \in 0..Hour /\ p.resendIn \in 0..Hour
      /\ Max(Holds) \in Nat /\ Day \in Nat /\ Hour \in Nat
  BY LongestHold, PacerAssumption, ZenonT(30) DEF Pacers, PacersUpTo
<1>3. /\ Less(p.holdFor) \in 0..Max(Holds) /\ Less(p.refusedFor) \in 0..Day
      /\ Less(p.retryIn) \in 0..Hour /\ Less(p.resendIn) \in 0..Hour
  BY <1>1, <1>2, Zenon
<1>4. Elapse(p) \in Pacers
  BY <1>3, Zenon DEF Elapse, Pacers, PacersUpTo
<1> QED
  BY <1>4, Zenon DEF Elapse, Pacers, PacersUpTo

\* A confirmation forgets the re-sends unless it comes inside their wait.
LEMMA ConfirmFacts ==
  ASSUME NEW p \in PacersUpTo(UnconfirmedVerdict)
  PROVE  /\ Confirm(p) \in Pacers /\ Confirm(p).confirmed /\ Confirm(p).unconfirmed = 0
         /\ Confirm(p).server = p.server /\ Confirm(p).skipThis = p.skipThis /\ Confirm(p).skipNext = p.skipNext
         /\ Confirm(p).refused = p.refused /\ Confirm(p).refusedFor = p.refusedFor
         /\ Confirm(p).refusedServer = p.refusedServer
         /\ Confirm(p).rejected = p.rejected /\ Confirm(p).retryIn = p.retryIn /\ Confirm(p).acked = p.acked
         /\ \/ Confirm(p).resends = 0 /\ Confirm(p).resendIn = 0 /\ (p.resends = 0 \/ p.resendIn = 0)
            \/ /\ Confirm(p).resends = p.resends /\ Confirm(p).resendIn = p.resendIn
               /\ p.resends # 0 /\ p.resendIn # 0
<1>0. 0 \in 0..Hour /\ 0 \in 0..UnconfirmedVerdict - 1
  BY PacerAssumption DEF UnconfirmedVerdict
<1>1. CASE p.resends = 0 \/ p.resendIn = 0
  <2>1. Confirm(p) = [p EXCEPT !.confirmed = TRUE, !.unconfirmed = 0, !.resends = 0, !.resendIn = 0]
    BY <1>1, Zenon DEF Confirm
  <2> QED
    BY <1>0, <1>1, <2>1, ZenonT(30) DEF Pacers, PacersUpTo
<1>2. CASE ~(p.resends = 0 \/ p.resendIn = 0)
  <2>1. Confirm(p) = [p EXCEPT !.confirmed = TRUE, !.unconfirmed = 0]
    BY <1>2, Zenon DEF Confirm
  <2> QED
    BY <1>0, <1>2, <2>1, ZenonT(30) DEF Pacers, PacersUpTo
<1> QED
  BY <1>1, <1>2, Zenon

\* The end of a refusal starts the count of acknowledgements over.
LEMMA ClearFacts ==
  ASSUME NEW p \in PacersUpTo(UnconfirmedVerdict)
  PROVE  /\ ClearRefusal(p) \in Pacers /\ ClearRefusal(p).refused = None /\ ClearRefusal(p).unconfirmed = 0
         /\ ClearRefusal(p).skipThis = p.skipThis /\ ClearRefusal(p).skipNext = p.skipNext
         /\ ClearRefusal(p).rejected = p.rejected /\ ClearRefusal(p).retryIn = p.retryIn
         /\ ClearRefusal(p).acked = p.acked /\ ClearRefusal(p).confirmed = p.confirmed
         /\ ClearRefusal(p).resends = p.resends /\ ClearRefusal(p).resendIn = p.resendIn
<1>0. 0 \in 0..Day /\ 0 \in 0..UnconfirmedVerdict - 1 /\ None \in Hashes
  BY PacerAssumption DEF UnconfirmedVerdict, Hashes
<1> QED
  BY <1>0, Zenon DEF Pacers, PacersUpTo, ClearRefusal

\* A refusal lasts a day from now.
LEMMA RefusedFacts ==
  ASSUME NEW p \in PacersUpTo(UnconfirmedVerdict), NEW hash \in Hashes
  PROVE  /\ Refused(p, hash) \in Pacers /\ Refused(p, hash).refused = hash /\ Refused(p, hash).refusedFor = Day
         /\ Refused(p, hash).refusedServer = None
         /\ Refused(p, hash).skipThis = p.skipThis /\ Refused(p, hash).skipNext = p.skipNext
         /\ Refused(p, hash).rejected = p.rejected /\ Refused(p, hash).retryIn = p.retryIn
         /\ Refused(p, hash).acked = p.acked /\ Refused(p, hash).confirmed = p.confirmed
         /\ Refused(p, hash).resends = p.resends /\ Refused(p, hash).resendIn = p.resendIn
<1>0. Day \in 0..Day /\ 0 \in 0..UnconfirmedVerdict - 1 /\ None \in Hashes
  BY PacerAssumption DEF UnconfirmedVerdict, Hashes
<1> QED
  BY <1>0, Zenon DEF Pacers, PacersUpTo, Refused

\* A rejected document waits at least one step.
LEMMA RejectedFacts ==
  ASSUME NEW p \in Pacers, NEW hash \in Hashes
  PROVE  /\ Rejected(p, hash) \in Pacers /\ Rejected(p, hash).rejected = hash /\ Rejected(p, hash).retryIn > 0
         /\ Rejected(p, hash).skipThis = p.skipThis /\ Rejected(p, hash).skipNext = p.skipNext
         /\ Rejected(p, hash).refused = p.refused /\ Rejected(p, hash).refusedFor = p.refusedFor
         /\ Rejected(p, hash).refusedServer = p.refusedServer
         /\ Rejected(p, hash).acked = p.acked /\ Rejected(p, hash).confirmed = p.confirmed
         /\ Rejected(p, hash).unconfirmed = p.unconfirmed
         /\ Rejected(p, hash).resends = p.resends /\ Rejected(p, hash).resendIn = p.resendIn
<1>1. PICK before \in Nat : before = IF hash = p.rejected THEN p.rejections ELSE 0
  <2>1. p.rejections \in 0..Hour
    BY Zenon DEF Pacers, PacersUpTo
  <2> QED
    BY <2>1, PacerAssumption
<1>2. Rejected(p, hash) = [p EXCEPT !.rejected = hash, !.rejections = Count(before), !.retryIn = Step(before)]
  BY <1>1, Zenon DEF Rejected
<1>3. Step(before) \in 1..Hour /\ Count(before) \in 1..Hour
  BY <1>1, StepFacts, Zenon
<1>4. Step(before) \in 0..Hour /\ Count(before) \in 0..Hour /\ Step(before) > 0
  BY <1>3, PacerAssumption
<1> QED
  BY <1>2, <1>4, ZenonT(30) DEF Pacers, PacersUpTo

\* What a hash from the server changes: it confirms, is the first answer after a
\* refusal, or ends the refusal.
LEMMA ServerHoldsFacts ==
  ASSUME NEW p \in Pacers, NEW hash \in Digests
  PROVE  LET q == ServerHolds(p, hash) IN
         /\ q \in Pacers /\ q.skipThis = p.skipThis /\ q.skipNext = p.skipNext
         /\ q.rejected = p.rejected /\ q.retryIn = p.retryIn /\ q.acked = p.acked
         /\ hash # p.acked => q.confirmed = p.confirmed /\ q.resends = p.resends /\ q.resendIn = p.resendIn
         /\ hash = p.acked => /\ q.confirmed
                              /\ \/ q.resends = 0 /\ q.resendIn = 0 /\ (p.resends = 0 \/ p.resendIn = 0)
                                 \/ /\ q.resends = p.resends /\ q.resendIn = p.resendIn
                                    /\ p.resends # 0 /\ p.resendIn # 0
         /\ \/ /\ q.refused = p.refused /\ q.refusedFor = p.refusedFor
               /\ hash # p.acked => q.unconfirmed = p.unconfirmed
               /\ \/ q.refusedServer = p.refusedServer /\ (p.refused = None \/ hash \in {p.refusedServer, p.acked})
                  \/ q.refusedServer = hash /\ p.refusedServer = None
            \/ p.refused # None /\ q.refused = None /\ hash \notin {p.refusedServer, p.acked} /\ p.refusedServer # None
<1>0. hash \in Hashes
  BY Zenon DEF Hashes
<1>1. PICK s : s = [p EXCEPT !.server = hash]
  OBVIOUS
<1>2. s \in Pacers /\ SamePacing(p, s) /\ s.skipThis = p.skipThis /\ s.skipNext = p.skipNext
  BY <1>0, <1>1, Zenon DEF Pacers, PacersUpTo, SamePacing
<1>3. PICK c : c = IF hash = p.acked THEN Confirm(s) ELSE s
  OBVIOUS
<1>4. /\ c \in Pacers /\ c.skipThis = p.skipThis /\ c.skipNext = p.skipNext
      /\ c.rejected = p.rejected /\ c.retryIn = p.retryIn /\ c.acked = p.acked
      /\ c.refused = p.refused /\ c.refusedFor = p.refusedFor /\ c.refusedServer = p.refusedServer
      /\ hash # p.acked => /\ c.confirmed = p.confirmed /\ c.resends = p.resends /\ c.resendIn = p.resendIn
                           /\ c.unconfirmed = p.unconfirmed
      /\ hash = p.acked => /\ c.confirmed
                           /\ \/ c.resends = 0 /\ c.resendIn = 0 /\ (p.resends = 0 \/ p.resendIn = 0)
                              \/ /\ c.resends = p.resends /\ c.resendIn = p.resendIn
                                 /\ p.resends # 0 /\ p.resendIn # 0
  <2>1. CASE hash = p.acked
    <3>1. c = Confirm(s)
      BY <1>3, <2>1, Zenon
    <3> QED
      BY <1>2, <2>1, <3>1, PacersInclude, ConfirmFacts DEF SamePacing
  <2>2. CASE hash # p.acked
    <3>1. c = s
      BY <1>3, <2>2, Zenon
    <3> QED
      BY <1>2, <2>2, <3>1, Zenon DEF SamePacing
  <2> QED
    BY <2>1, <2>2, Zenon
<1>5. PICK q : q = ServerHolds(p, hash)
  OBVIOUS
<1>6. CASE p.refused # None /\ p.refusedServer = None
  <2>1. q = [c EXCEPT !.refusedServer = hash]
    BY <1>1, <1>3, <1>5, <1>6, Zenon DEF ServerHolds
  <2>2. /\ q \in Pacers /\ q.skipThis = c.skipThis /\ q.skipNext = c.skipNext
        /\ q.rejected = c.rejected /\ q.retryIn = c.retryIn /\ q.acked = c.acked
        /\ q.refused = c.refused /\ q.refusedFor = c.refusedFor /\ q.refusedServer = hash
        /\ q.confirmed = c.confirmed /\ q.unconfirmed = c.unconfirmed
        /\ q.resends = c.resends /\ q.resendIn = c.resendIn
    BY <1>0, <1>4, <2>1, ZenonT(30) DEF Pacers, PacersUpTo
  <2> QED
    BY <1>4, <1>5, <1>6, <2>2, Zenon
<1>7. CASE p.refused # None /\ p.refusedServer # None /\ hash \notin {p.refusedServer, p.acked}
  <2>1. q = ClearRefusal(c)
    BY <1>1, <1>3, <1>5, <1>7, Zenon DEF ServerHolds
  <2> QED
    BY <1>4, <1>5, <1>7, <2>1, PacersInclude, ClearFacts
<1>8. CASE p.refused = None \/ (p.refusedServer # None /\ hash \in {p.refusedServer, p.acked})
  <2>1. q = c
    BY <1>1, <1>3, <1>5, <1>8, Zenon DEF ServerHolds
  <2> QED
    BY <1>4, <1>5, <1>8, <2>1, Zenon
<1> QED
  BY <1>6, <1>7, <1>8, Zenon

\* What an acknowledgement counts as: a loss, one more without a confirmation,
\* or the first of a document.
LEMMA CountedFacts ==
  ASSUME NEW p \in Pacers, NEW hash \in Digests
  PROVE  LET q == Counted(p, hash)
             again == hash = p.acked /\ hash # p.refused IN
         /\ q \in PacersUpTo(UnconfirmedVerdict)
         /\ q.skipThis = p.skipThis /\ q.skipNext = p.skipNext
         /\ q.acked = hash /\ ~q.confirmed /\ q.resendIn > 0 /\ q.refused # hash
         /\ again /\ p.confirmed => q.resends > 0
         /\ q.unconfirmed \in 1..3 /\ (again /\ ~p.confirmed => q.unconfirmed = p.unconfirmed + 1)
<1>0. hash \in Hashes /\ None \in Hashes /\ hash # None /\ 0 \in 0..Hour /\ p.confirmed \in BOOLEAN
  BY PacerAssumption DEF Hashes, Pacers, PacersUpTo
<1>1. PICK again \in BOOLEAN : again = (hash = p.acked /\ hash # p.refused)
  OBVIOUS
<1>2. PICK cleared \in Pacers :
        /\ cleared = IF hash = p.refused THEN ClearRefusal(p) ELSE p
        /\ cleared.refused # hash /\ cleared.skipThis = p.skipThis /\ cleared.skipNext = p.skipNext
        /\ cleared.resends = p.resends
        /\ again => cleared.unconfirmed = p.unconfirmed
  <2>1. CASE hash = p.refused
    BY <1>0, <1>1, <2>1, PacersInclude, ClearFacts, Zenon
  <2>2. CASE hash # p.refused
    BY <2>2, Zenon
  <2> QED
    BY <2>1, <2>2, Zenon
<1>3. PICK free \in Pacers :
        /\ free = ClearRejections(cleared)
        /\ free.refused # hash /\ free.skipThis = p.skipThis /\ free.skipNext = p.skipNext
        /\ free.resends = p.resends
        /\ again => free.unconfirmed = p.unconfirmed
  <2>1. /\ ClearRejections(cleared) \in Pacers
        /\ ClearRejections(cleared).refused = cleared.refused /\ ClearRejections(cleared).skipThis = cleared.skipThis
        /\ ClearRejections(cleared).skipNext = cleared.skipNext /\ ClearRejections(cleared).resends = cleared.resends
        /\ ClearRejections(cleared).unconfirmed = cleared.unconfirmed
    BY <1>0, <1>2, Zenon DEF ClearRejections, Pacers, PacersUpTo
  <2> QED
    BY <1>2, <2>1, Zenon
<1>4. PICK sends : sends = IF again /\ p.confirmed THEN Count(free.resends) ELSE IF again THEN free.resends ELSE 0
  OBVIOUS
<1>5. PICK wait : wait = IF again /\ p.confirmed THEN Step(p.resends) ELSE IF again THEN Step(p.unconfirmed) ELSE Step(0)
  OBVIOUS
<1>6. PICK count : count = IF again /\ ~(again /\ p.confirmed) THEN free.unconfirmed + 1 ELSE 1
  OBVIOUS
<1>7. PICK q : q = Counted(p, hash)
  OBVIOUS
<1>8. q = [free EXCEPT !.acked = hash, !.server = hash, !.confirmed = FALSE,
                       !.resends = sends, !.resendIn = wait, !.unconfirmed = count]
  BY <1>1, <1>2, <1>3, <1>4, <1>5, <1>6, <1>7, Zenon DEF Counted
<1>9. p.resends \in 0..Hour /\ p.unconfirmed \in 0..UnconfirmedVerdict - 1 /\ Hour \in Nat
  BY PacerAssumption, ZenonT(30) DEF Pacers, PacersUpTo
<1>10. p.resends \in Nat /\ p.unconfirmed \in 0..2 /\ p.unconfirmed \in Nat /\ 0 \in Nat
  BY <1>9 DEF UnconfirmedVerdict
<1>11. /\ Count(p.resends) \in 1..Hour /\ Step(p.resends) \in 1..Hour /\ Step(p.unconfirmed) \in 1..Hour
       /\ Step(0) \in 1..Hour
  BY <1>10, StepFacts, Zenon
<1>12. sends \in 0..Hour /\ (again /\ p.confirmed => sends > 0)
  BY <1>0, <1>3, <1>4, <1>9, <1>11
<1>13. wait \in 0..Hour /\ wait > 0
  BY <1>5, <1>9, <1>11
<1>14. count \in 1..3 /\ (again /\ ~p.confirmed => count = p.unconfirmed + 1)
  BY <1>0, <1>3, <1>6, <1>10
<1>15. count \in 0..UnconfirmedVerdict
  BY <1>14 DEF UnconfirmedVerdict
<1>16. /\ q \in PacersUpTo(UnconfirmedVerdict)
       /\ q.skipThis = free.skipThis /\ q.skipNext = free.skipNext /\ q.refused = free.refused
       /\ q.acked = hash /\ q.confirmed = FALSE /\ q.resends = sends /\ q.resendIn = wait /\ q.unconfirmed = count
  BY <1>0, <1>3, <1>8, <1>12, <1>13, <1>15, ZenonT(30) DEF Pacers, PacersUpTo
<1> QED
  BY <1>1, <1>3, <1>7, <1>12, <1>13, <1>14, <1>16, Zenon

\* What the pacer makes of an acknowledgement and the hash that came with it.
LEMMA AcknowledgedFacts ==
  ASSUME NEW p \in Pacers, NEW hash \in Digests, NEW says \in Hashes
  PROVE  LET q == Acknowledged(p, hash, says)
             again == hash = p.acked /\ hash # p.refused IN
         /\ q \in Pacers /\ q.skipThis = p.skipThis /\ q.skipNext = p.skipNext /\ q.acked = hash
         /\ q.resendIn > 0 \/ (q.confirmed /\ q.resends = 0)
         /\ again /\ p.confirmed => q.resends > 0 /\ q.resendIn > 0
         /\ q.refused = hash => q.refusedFor = Day /\ q.refusedServer = says
         /\ says # hash => ~q.confirmed
         /\ says # hash /\ q.refused # hash =>
              q.unconfirmed >= 1 /\ (again /\ ~p.confirmed => q.unconfirmed = p.unconfirmed + 1)
<1> DEFINE again == hash = p.acked /\ hash # p.refused
<1>0. hash \in Hashes /\ None \in Hashes
  BY Zenon DEF Hashes
<1>1. PICK c \in PacersUpTo(UnconfirmedVerdict) :
         /\ c = Counted(p, hash)
         /\ c.skipThis = p.skipThis /\ c.skipNext = p.skipNext
         /\ c.acked = hash /\ ~c.confirmed /\ c.resendIn > 0 /\ c.refused # hash
         /\ again /\ p.confirmed => c.resends > 0
         /\ c.unconfirmed \in 1..3 /\ (again /\ ~p.confirmed => c.unconfirmed = p.unconfirmed + 1)
  BY CountedFacts, Zenon
<1>2. PICK differs \in BOOLEAN : differs = HashedDifferently(p, hash, says)
  BY Zenon DEF HashedDifferently
<1>3. PICK a : a = CASE says = hash /\ hash = p.mismatch -> [Confirm(c) EXCEPT !.mismatch = None, !.mismatchDigest = None]
                     [] says = hash /\ hash # p.mismatch -> Confirm(c)
                     [] says \notin {None, hash} /\ ~differs -> [c EXCEPT !.server = says]
                     [] OTHER -> c
  OBVIOUS
<1>4. /\ a \in PacersUpTo(UnconfirmedVerdict) /\ a.skipThis = p.skipThis /\ a.skipNext = p.skipNext
      /\ a.acked = hash /\ a.refused # hash
      /\ a.resendIn > 0 \/ (a.confirmed /\ a.resends = 0)
      /\ again /\ p.confirmed => a.resends > 0 /\ a.resendIn > 0
      /\ says # hash => ~a.confirmed /\ a.unconfirmed = c.unconfirmed
      /\ says = hash => a \in Pacers
  <2>0. (c.resends # 0 /\ c.resendIn # 0 <=> c.resends > 0 /\ c.resendIn > 0) /\ c.resends \in Nat
    <3>1. c.resends \in 0..Hour /\ c.resendIn \in 0..Hour /\ Hour \in Nat
      BY PacerAssumption, Zenon DEF PacersUpTo
    <3> QED
      BY <3>1
  <2>1. CASE says = hash
    <3>1. PICK d \in Pacers :
            /\ d = Confirm(c) /\ d.confirmed /\ d.skipThis = c.skipThis /\ d.skipNext = c.skipNext
            /\ d.refused = c.refused /\ d.acked = c.acked
            /\ \/ d.resends = 0 /\ d.resendIn = 0 /\ (c.resends = 0 \/ c.resendIn = 0)
               \/ d.resends = c.resends /\ d.resendIn = c.resendIn /\ c.resends # 0 /\ c.resendIn # 0
      BY ConfirmFacts, Zenon
    <3>2. a = d \/ a = [d EXCEPT !.mismatch = None, !.mismatchDigest = None]
      BY <1>3, <2>1, <3>1, Zenon
    <3>3. /\ a \in Pacers /\ a.confirmed = d.confirmed /\ a.skipThis = d.skipThis /\ a.skipNext = d.skipNext
          /\ a.refused = d.refused /\ a.acked = d.acked /\ a.resends = d.resends /\ a.resendIn = d.resendIn
      BY <1>0, <3>1, <3>2, ZenonT(30) DEF Pacers, PacersUpTo
    <3>4. \/ a.resends = 0 /\ a.resendIn = 0 /\ ~(c.resends > 0)
          \/ a.resends > 0 /\ a.resendIn > 0
      BY <1>1, <2>0, <3>1, <3>3
    <3> QED
      BY <1>1, <2>1, <3>1, <3>3, <3>4, PacersInclude, Zenon
  <2>2. CASE says # hash
    <3>1. a = c \/ a = [c EXCEPT !.server = says]
      BY <1>3, <2>2, Zenon
    <3>2. /\ a \in PacersUpTo(UnconfirmedVerdict) /\ a.confirmed = c.confirmed /\ a.skipThis = c.skipThis
          /\ a.skipNext = c.skipNext /\ a.refused = c.refused /\ a.acked = c.acked /\ a.resends = c.resends
          /\ a.resendIn = c.resendIn /\ a.unconfirmed = c.unconfirmed
      BY <3>1, Zenon DEF PacersUpTo
    <3> QED
      BY <1>1, <2>2, <3>2, Zenon
  <2> QED
    BY <2>1, <2>2, Zenon
<1>5. PICK q : q = Acknowledged(p, hash, says)
  OBVIOUS
<1>6. PICK refusal \in Pacers :
         /\ refusal = Refused(a, hash) /\ refusal.refused = hash /\ refusal.refusedFor = Day
         /\ refusal.skipThis = a.skipThis /\ refusal.skipNext = a.skipNext /\ refusal.acked = a.acked
         /\ refusal.confirmed = a.confirmed /\ refusal.resends = a.resends /\ refusal.resendIn = a.resendIn
  <2>1. a \in PacersUpTo(UnconfirmedVerdict) /\ hash \in Hashes
    BY <1>0, <1>4, Zenon
  <2> QED
    BY <2>1, RefusedFacts, Zenon
<1>7. PICK verdict \in Pacers :
         /\ verdict = [refusal EXCEPT !.refusedServer = says] /\ verdict.refusedServer = says
         /\ verdict.refused = hash /\ verdict.refusedFor = Day
         /\ verdict.skipThis = a.skipThis /\ verdict.skipNext = a.skipNext /\ verdict.acked = a.acked
         /\ verdict.confirmed = a.confirmed /\ verdict.resends = a.resends /\ verdict.resendIn = a.resendIn
  <2>1. PICK v : v = [refusal EXCEPT !.refusedServer = says]
    OBVIOUS
  <2>2. /\ v \in Pacers /\ v.refusedServer = says /\ v.refused = refusal.refused /\ v.refusedFor = refusal.refusedFor
        /\ v.skipThis = refusal.skipThis /\ v.skipNext = refusal.skipNext /\ v.acked = refusal.acked
        /\ v.confirmed = refusal.confirmed /\ v.resends = refusal.resends /\ v.resendIn = refusal.resendIn
    BY <2>1, ZenonT(30) DEF Pacers, PacersUpTo
  <2> QED
    BY <1>6, <2>1, <2>2, Zenon
<1>8. ASSUME /\ q \in Pacers /\ q.refusedServer = says /\ q.refused = hash /\ q.refusedFor = Day
             /\ q.skipThis = a.skipThis /\ q.skipNext = a.skipNext /\ q.acked = a.acked
             /\ q.confirmed = a.confirmed /\ q.resends = a.resends /\ q.resendIn = a.resendIn
      PROVE  /\ q \in Pacers /\ q.skipThis = p.skipThis /\ q.skipNext = p.skipNext /\ q.acked = hash
             /\ q.resendIn > 0 \/ (q.confirmed /\ q.resends = 0)
             /\ again /\ p.confirmed => q.resends > 0 /\ q.resendIn > 0
             /\ q.refused = hash /\ q.refusedFor = Day /\ q.refusedServer = says
             /\ says # hash => ~q.confirmed
  BY <1>4, <1>8, Zenon
<1>9. CASE differs
  <2>1. q = [verdict EXCEPT !.mismatch = hash, !.mismatchDigest = says]
    BY <1>2, <1>3, <1>1, <1>5, <1>6, <1>7, <1>9, Zenon DEF Acknowledged
  <2>2. /\ q \in Pacers /\ q.refusedServer = verdict.refusedServer /\ q.refused = verdict.refused
        /\ q.refusedFor = verdict.refusedFor /\ q.skipThis = verdict.skipThis /\ q.skipNext = verdict.skipNext
        /\ q.acked = verdict.acked
        /\ q.confirmed = verdict.confirmed /\ q.resends = verdict.resends /\ q.resendIn = verdict.resendIn
    BY <1>0, <2>1, ZenonT(30) DEF Pacers, PacersUpTo
  <2> QED
    BY <1>5, <1>7, <1>8, <2>2, Zenon
<1>10. CASE ~differs /\ a.unconfirmed >= UnconfirmedVerdict
  <2>1. q = verdict
    BY <1>2, <1>3, <1>1, <1>5, <1>6, <1>7, <1>10, Zenon DEF Acknowledged
  <2> QED
    BY <1>5, <1>7, <1>8, <2>1, Zenon
<1>11. CASE ~differs /\ ~(a.unconfirmed >= UnconfirmedVerdict)
  <2>1. q = a
    BY <1>2, <1>3, <1>1, <1>5, <1>6, <1>7, <1>11, Zenon DEF Acknowledged
  <2>2. a \in Pacers
    <3>1. a.unconfirmed \in 0..UnconfirmedVerdict
      BY <1>4, Zenon DEF PacersUpTo
    <3>2. a.unconfirmed \in 0..UnconfirmedVerdict - 1
      BY <1>11, <3>1 DEF UnconfirmedVerdict
    <3> QED
      BY <1>4, <3>2, ZenonT(30) DEF Pacers, PacersUpTo
  <2>3. c.unconfirmed >= 1
    BY <1>1
  <2> QED
    BY <1>1, <1>4, <1>5, <2>1, <2>2, <2>3, Zenon
<1> QED
  BY <1>9, <1>10, <1>11, Zenon

-----------------------------------------------------------------------------
(* What is known of the last document sent *)

\* It stays known while the pacing is the same.
LEMMA PacingKept ==
  ASSUME NEW p, NEW q, SamePacing(p, q), NEW sent, NEW times, NEW left, NEW said
  PROVE  /\ BurstOf(p, sent, times) => BurstOf(q, sent, times)
         /\ AckOf(p, sent, times, left, said) => AckOf(q, sent, times, left, said)
<1>1. BurstOf(p, sent, times) => BurstOf(q, sent, times)
  BY Zenon DEF SamePacing, BurstOf
<1>2. AckOf(p, sent, times, left, said) => AckOf(q, sent, times, left, said)
  BY Zenon DEF SamePacing, AckOf
<1> QED
  BY <1>1, <1>2, Zenon

\* Whatever the server says, a document sent in this step is not sent a third time.
LEMMA BurstHears ==
  ASSUME NEW p \in Pacers, NEW hash \in Digests, NEW sent, NEW times, BurstOf(p, sent, times)
  PROVE  BurstOf(ServerHolds(p, hash), sent, times)
<1>. PICK q : q = ServerHolds(p, hash)
  OBVIOUS
<1>1. /\ q = ServerHolds(p, hash) /\ q.rejected = p.rejected /\ q.retryIn = p.retryIn /\ q.acked = p.acked
      /\ hash # p.acked => q.confirmed = p.confirmed /\ q.resends = p.resends /\ q.resendIn = p.resendIn
      /\ hash = p.acked => /\ q.confirmed
                           /\ \/ q.resends = 0 /\ q.resendIn = 0 /\ (p.resends = 0 \/ p.resendIn = 0)
                              \/ /\ q.resends = p.resends /\ q.resendIn = p.resendIn
                                 /\ p.resends # 0 /\ p.resendIn # 0
      /\ (q.refused = p.refused /\ q.refusedFor = p.refusedFor) \/ q.refused = None
  BY ServerHoldsFacts
<1>2. p.resends \in Nat /\ p.resendIn \in Nat
  <2>1. p.resends \in 0..Hour /\ p.resendIn \in 0..Hour /\ Hour \in Nat
    BY PacerAssumption, ZenonT(30) DEF Pacers, PacersUpTo
  <2> QED
    BY <2>1
<1>3. ASSUME times > 0, sent = p.acked, p.resends > 0, p.resendIn > 0 PROVE q.resends > 0 /\ q.resendIn > 0
  BY <1>1, <1>2, <1>3
<1>4. ASSUME p.resends = 0, p.resendIn > 0 \/ p.confirmed PROVE q.resends = 0 /\ (q.resendIn > 0 \/ q.confirmed)
  BY <1>1, <1>4, Zenon
<1>5. ASSUME sent # None, sent = p.refused => p.refusedFor > 0 PROVE sent = q.refused => q.refusedFor > 0
  BY <1>1, <1>5, Zenon
<1>6. BurstOf(q, sent, times)
  BY <1>1, <1>3, <1>4, <1>5, Zenon DEF BurstOf
<1> QED
  BY <1>1, <1>6, Zenon

\* A server that keeps saying the same ends no refusal and confirms nothing.
LEMMA AckHears ==
  ASSUME NEW p \in Pacers, NEW hash \in Digests, NEW sent, NEW times, NEW left, AckOf(p, sent, times, left, hash),
         hash # sent, p.refused # sent => ServerHolds(p, hash).refused = p.refused
  PROVE  AckOf(ServerHolds(p, hash), sent, times, left, hash)
<1>0. hash # None
  BY PacerAssumption, Zenon
<1>. PICK q : q = ServerHolds(p, hash)
  OBVIOUS
<1>1. /\ q = ServerHolds(p, hash) /\ q.acked = p.acked
      /\ hash # p.acked => q.confirmed = p.confirmed
      /\ \/ /\ q.refused = p.refused /\ q.refusedFor = p.refusedFor
            /\ hash # p.acked => q.unconfirmed = p.unconfirmed
            /\ q.refusedServer \in {p.refusedServer, hash}
         \/ p.refused # None /\ q.refused = None /\ p.refusedServer \notin {None, hash}
  BY ServerHoldsFacts, ZenonT(30)
<1>2. p.refused # sent => q.refused = p.refused
  BY <1>1, Zenon
<1>3. ASSUME times > 0
      PROVE  /\ sent = p.acked /\ ~p.confirmed /\ left > 0 /\ times <= 3
             /\ sent = p.refused => p.refusedFor >= left /\ p.refusedServer \in {None, hash}
             /\ sent # p.refused => times <= p.unconfirmed
  BY <1>3, Zenon DEF AckOf
<1>4. ASSUME times > 0 PROVE q.refused = p.refused /\ q.refusedFor = p.refusedFor /\ q.unconfirmed = p.unconfirmed
                             /\ q.refusedServer \in {p.refusedServer, hash} /\ ~q.confirmed
  BY <1>1, <1>2, <1>3, <1>4, Zenon
<1>5. AckOf(q, sent, times, left, hash)
  BY <1>1, <1>3, <1>4, Zenon DEF AckOf
<1> QED
  BY <1>1, <1>5, Zenon

\* Time takes nothing from a refusal that it does not take from what it counts.
LEMMA AckElapses ==
  ASSUME NEW p \in Pacers, NEW sent, NEW times, NEW left, NEW said, AckOf(p, sent, times, left, said)
  PROVE  AckOf(Elapse(p), sent, IF Less(left) = 0 THEN 0 ELSE times, Less(left), said)
<1>0. left \in 0..Day /\ Day \in Nat /\ p.refusedFor \in 0..Day
  BY PacerAssumption, Zenon DEF AckOf, Pacers, PacersUpTo
<1>1. Less(left) \in 0..Day /\ (Less(left) # 0 => Less(left) > 0)
  BY <1>0 DEF Less
<1>2. p.refusedFor >= left => Less(p.refusedFor) >= Less(left)
  BY <1>0 DEF Less
<1>3. CASE Less(left) = 0
  <2>1. ~(0 > 0) /\ 0 \in Nat
    OBVIOUS
  <2> QED
    BY <1>1, <1>3, <2>1, Zenon DEF AckOf
<1>4. CASE Less(left) # 0
  <2>1. PICK q : /\ q = Elapse(p) /\ q.acked = p.acked /\ q.confirmed = p.confirmed /\ q.refused = p.refused
                 /\ q.refusedServer = p.refusedServer /\ q.unconfirmed = p.unconfirmed
                 /\ q.refusedFor = Less(p.refusedFor)
    BY ElapseFacts, Zenon
  <2>2. AckOf(q, sent, times, Less(left), said)
    BY <1>1, <1>2, <1>4, <2>1, Zenon DEF AckOf
  <2> QED
    BY <1>4, <2>1, <2>2, Zenon
<1> QED
  BY <1>3, <1>4, Zenon

\* What ShouldUpload let through was sent at most once in this step, and no
\* refusal of it is in force.
LEMMA MaySend ==
  ASSUME IInv, pc = "send"
  PROVE  /\ sending \in Digests /\ pacer \in Pacers
         /\ sending = last /\ burst > 0 =>
              /\ burst = 1 /\ sending = pacer.acked /\ pacer.confirmed /\ sending # pacer.refused
         /\ sending = last /\ acks > 0 =>
              /\ sending # pacer.refused /\ sending = pacer.acked /\ ~pacer.confirmed /\ acks <= pacer.unconfirmed
<1>1. /\ ShouldUpload(pacer, sending) /\ pacer \in Pacers /\ sending \in Hashes
      /\ BurstOf(pacer, last, burst) /\ AckOf(pacer, last, acks, fresh, word)
  BY Zenon DEF IInv, PacingInv, SendInv, TypeOK
<1>2. /\ sending # None
      /\ sending = pacer.refused => pacer.refusedFor = 0
      /\ sending = pacer.rejected => pacer.retryIn = 0
      /\ sending = pacer.acked => pacer.resendIn = 0
  BY <1>1, Zenon DEF ShouldUpload
<1>3. sending \in Digests
  BY <1>1, <1>2, Zenon DEF Hashes
<1>4. ASSUME sending = last, burst > 0
      PROVE  burst = 1 /\ sending = pacer.acked /\ pacer.confirmed /\ sending # pacer.refused
  <2>1. ~(0 > 0)
    OBVIOUS
  <2> QED
    BY <1>1, <1>2, <1>4, <2>1, Zenon DEF BurstOf
<1>5. ASSUME sending = last, acks > 0
      PROVE  sending # pacer.refused /\ sending = pacer.acked /\ ~pacer.confirmed /\ acks <= pacer.unconfirmed
  <2>1. fresh \in 0..Day /\ fresh > 0
    BY <1>1, <1>5, Zenon DEF AckOf
  <2>2. ~(0 >= fresh)
    BY <2>1, PacerAssumption
  <2> QED
    BY <1>1, <1>2, <1>5, <2>2, Zenon DEF AckOf
<1> QED
  BY <1>1, <1>3, <1>4, <1>5, Zenon

\* A rejected upload.
LEMMA RejectedKeeps ==
  ASSUME IInv, pc = "send", NEW p \in Pacers, SamePacing(pacer, p)
  PROVE  /\ BurstOf(Rejected(p, sending), sending, IF sending = last THEN burst + 1 ELSE 1)
         /\ AckOf(Rejected(p, sending), sending, IF sending = last THEN acks ELSE 0, fresh, word)
<1>0. sending \in Hashes /\ sending # None
  BY MaySend, PacerAssumption, Zenon DEF Hashes
<1>. PICK q : q = Rejected(p, sending)
  OBVIOUS
<1>1. /\ q = Rejected(p, sending) /\ q.rejected = sending /\ q.retryIn > 0
      /\ q.refused = p.refused /\ q.refusedFor = p.refusedFor /\ q.refusedServer = p.refusedServer
      /\ q.acked = p.acked /\ q.confirmed = p.confirmed /\ q.unconfirmed = p.unconfirmed
  BY <1>0, RejectedFacts, Zenon
<1>2. (IF sending = last THEN burst + 1 ELSE 1) \in 0..2
  <2>1. burst \in 0..2 /\ (sending = last /\ burst > 0 => burst = 1)
    BY MaySend, Zenon DEF IInv, PacingInv, BurstOf
  <2> QED
    BY <2>1
<1>3. BurstOf(q, sending, IF sending = last THEN burst + 1 ELSE 1)
  BY <1>0, <1>1, <1>2, Zenon DEF BurstOf
<1>4. AckOf(q, sending, IF sending = last THEN acks ELSE 0, fresh, word)
  <2>1. AckOf(pacer, last, acks, fresh, word) /\ ~(0 > 0) /\ 0 \in Nat
    BY DEF IInv, PacingInv
  <2>2. AckOf(p, last, acks, fresh, word)
    BY <2>1, PacingKept, Zenon
  <2> QED
    BY <1>1, <2>1, <2>2, Zenon DEF AckOf
<1> QED
  BY <1>1, <1>3, <1>4, Zenon

\* A refused upload.
LEMMA RefusedKeeps ==
  ASSUME IInv, pc = "send", NEW p \in Pacers, SamePacing(pacer, p)
  PROVE  /\ BurstOf(Refused(p, sending), sending, 0)
         /\ AckOf(Refused(p, sending), sending, IF sending = last THEN acks ELSE 0, fresh, word)
<1>0. sending \in Hashes
  BY MaySend, Zenon DEF Hashes
<1>. PICK q : q = Refused(p, sending)
  OBVIOUS
<1>1. /\ q = Refused(p, sending) /\ q.refused = sending /\ q.refusedFor = Day /\ q.refusedServer = None
      /\ q.acked = p.acked /\ q.confirmed = p.confirmed
  BY <1>0, PacersInclude, RefusedFacts, Zenon
<1>2. ~(0 > 0) /\ 0 \in Nat /\ 0 \in 0..2
  OBVIOUS
<1>3. BurstOf(q, sending, 0)
  BY <1>2, Zenon DEF BurstOf
<1>4. AckOf(q, sending, IF sending = last THEN acks ELSE 0, fresh, word)
  <2>1. AckOf(pacer, last, acks, fresh, word)
    BY Zenon DEF IInv, PacingInv
  <2>2. AckOf(p, last, acks, fresh, word)
    BY <2>1, PacingKept, Zenon
  <2>3. Day >= fresh
    <3>1. fresh \in 0..Day
      BY <2>1, Zenon DEF AckOf
    <3> QED
      BY <3>1, PacerAssumption
  <2> QED
    BY <1>1, <1>2, <2>2, <2>3, Zenon DEF AckOf
<1> QED
  BY <1>1, <1>3, <1>4, Zenon

\* An acknowledged upload.
LEMMA AcknowledgedKeeps ==
  ASSUME IInv, pc = "send", NEW says \in Hashes
  PROVE  /\ BurstOf(Acknowledged(pacer, sending, says), sending, IF sending = last THEN burst + 1 ELSE 1)
         /\ AckOf(Acknowledged(pacer, sending, says), sending,
                  IF says \notin {None, word} \/ says = sending THEN 0 ELSE IF sending = last THEN acks + 1 ELSE 1,
                  Day, IF says = None THEN word ELSE says)
<1>0. sending \in Digests /\ pacer \in Pacers /\ sending # None
  BY MaySend, PacerAssumption, Zenon
<1>. PICK q : q = Acknowledged(pacer, sending, says)
  OBVIOUS
<1>1. /\ q = Acknowledged(pacer, sending, says) /\ q \in Pacers /\ q.acked = sending
      /\ q.resendIn > 0 \/ (q.confirmed /\ q.resends = 0)
      /\ sending = pacer.acked /\ sending # pacer.refused /\ pacer.confirmed => q.resends > 0 /\ q.resendIn > 0
      /\ q.refused = sending => q.refusedFor = Day /\ q.refusedServer = says
      /\ says # sending => ~q.confirmed
      /\ says # sending /\ q.refused # sending =>
           /\ q.unconfirmed >= 1
           /\ sending = pacer.acked /\ sending # pacer.refused /\ ~pacer.confirmed =>
                q.unconfirmed = pacer.unconfirmed + 1
  BY <1>0, AcknowledgedFacts
<1>2. BurstOf(q, sending, IF sending = last THEN burst + 1 ELSE 1)
  <2>1. burst \in 0..2
    BY Zenon DEF IInv, PacingInv, BurstOf
  <2>2. q.resends \in Nat /\ Day > 0
    <3>1. q.resends \in 0..Hour
      BY <1>1, ZenonT(30) DEF Pacers, PacersUpTo
    <3> QED
      BY <3>1, PacerAssumption
  <2>3. CASE sending = last /\ burst > 0
    <3>1. q.resends > 0 /\ q.resendIn > 0 /\ burst = 1
      BY <1>1, <2>3, MaySend, Zenon
    <3>2. burst + 1 \in 0..2
      BY <3>1
    <3> QED
      BY <1>0, <1>1, <2>3, <3>1, <3>2, Zenon DEF BurstOf
  <2>4. CASE ~(sending = last /\ burst > 0)
    <3>1. (IF sending = last THEN burst + 1 ELSE 1) = 1 /\ 1 \in 0..2
      BY <2>1, <2>4
    <3>2. \/ q.resends > 0 /\ q.resendIn > 0
          \/ q.resends = 0 /\ (q.resendIn > 0 \/ q.confirmed)
      BY <1>1, <2>2
    <3>3. sending = q.refused => q.refusedFor > 0
      BY <1>1, <2>2, Zenon
    <3>4. BurstOf(q, sending, 1)
      BY <1>0, <1>1, <3>1, <3>2, <3>3, Zenon DEF BurstOf
    <3> QED
      BY <3>1, <3>4, Zenon
  <2> QED
    BY <2>3, <2>4, Zenon
<1>3. ASSUME NEW said, NEW n, n = 0 PROVE AckOf(q, sending, n, Day, said)
  BY <1>3, PacerAssumption DEF AckOf
<1>4. ASSUME says \notin {None, word} \/ says = sending
      PROVE  AckOf(q, sending,
                   IF says \notin {None, word} \/ says = sending THEN 0 ELSE IF sending = last THEN acks + 1 ELSE 1,
                   Day, IF says = None THEN word ELSE says)
  BY <1>3, <1>4, Zenon
<1>5. ASSUME says \in {None, word} /\ says # sending
      PROVE  AckOf(q, sending,
                   IF says \notin {None, word} \/ says = sending THEN 0 ELSE IF sending = last THEN acks + 1 ELSE 1,
                   Day, IF says = None THEN word ELSE says)
  <2>1. PICK n \in Nat : n = IF sending = last THEN acks + 1 ELSE 1
    <3>1. acks \in Nat
      BY Zenon DEF IInv, PacingInv, AckOf
    <3> QED
      BY <3>1
  <2>2. pacer.unconfirmed \in 0..2 /\ acks \in Nat
    <3>1. pacer.unconfirmed \in 0..UnconfirmedVerdict - 1 /\ acks \in Nat
      BY Zenon DEF IInv, PacingInv, AckOf, TypeOK, Pacers, PacersUpTo
    <3> QED
      BY <3>1 DEF UnconfirmedVerdict
  <2>3. n <= 3 /\ (q.refused # sending => n <= q.unconfirmed)
    <3>1. CASE sending = last /\ acks > 0
      <4>1. /\ sending # pacer.refused /\ sending = pacer.acked /\ ~pacer.confirmed /\ acks <= pacer.unconfirmed
            /\ n = acks + 1
        BY <2>1, <3>1, MaySend, Zenon
      <4>2. q.refused # sending => q.unconfirmed = pacer.unconfirmed + 1
        BY <1>1, <1>5, <4>1, Zenon
      <4> QED
        BY <2>2, <4>1, <4>2
    <3>2. CASE ~(sending = last /\ acks > 0)
      <4>1. n = 1
        BY <2>1, <2>2, <3>2
      <4>2. q.refused # sending => q.unconfirmed >= 1
        BY <1>1, <1>5, Zenon
      <4>3. q.unconfirmed \in Nat
        <5>1. q.unconfirmed \in 0..UnconfirmedVerdict - 1
          BY <1>1, ZenonT(30) DEF Pacers, PacersUpTo
        <5> QED
          BY <5>1 DEF UnconfirmedVerdict
      <4> QED
        BY <4>1, <4>2, <4>3
    <3> QED
      BY <3>1, <3>2, Zenon
  <2>4. Day \in 0..Day /\ Day > 0 /\ Day >= Day
    BY PacerAssumption
  <2>5. q.refused = sending => q.refusedServer \in {None, IF says = None THEN word ELSE says}
    BY <1>1, Zenon
  <2>6. AckOf(q, sending, n, Day, IF says = None THEN word ELSE says)
    BY <1>1, <1>5, <2>3, <2>4, <2>5, Zenon DEF AckOf
  <2> QED
    BY <1>5, <2>1, <2>6, Zenon
<1> QED
  BY <1>1, <1>2, <1>4, <1>5, Zenon

-----------------------------------------------------------------------------
(* The calls of a turn *)

\* A hash, or none, from the server; b is the pacer after BeginTurn, if any.
LEMMA HearKeeps ==
  ASSUME IInv, NEW b \in Pacers, SamePacing(pacer, b), NEW says \in Hashes, Hear(says),
         \/ says \in Digests /\ pacer' = ServerHolds(b, says)
         \/ says = None /\ SamePacing(b, pacer')
  PROVE  PacingInv' /\ word' \in Hashes /\ last' = last
<1>1. /\ last' = last /\ burst' = burst /\ fresh' = fresh
      /\ word' = IF says = None THEN word ELSE says
      /\ acks' = IF says \notin {None, word} \/ says = last \/ (pacer.refused # last /\ pacer'.refused # pacer.refused)
                   THEN 0 ELSE acks
  BY Zenon DEF Hear
<1>2. BurstOf(b, last, burst) /\ AckOf(b, last, acks, fresh, word) /\ b.refused = pacer.refused /\ word \in Hashes
  BY PacingKept, Zenon DEF IInv, PacingInv, SamePacing, TypeOK
<1>3. None \notin Digests
  BY PacerAssumption, Zenon
<1>4. BurstOf(pacer', last, burst)
  <2>1. CASE says \in Digests /\ pacer' = ServerHolds(b, says)
    <3>1. BurstOf(ServerHolds(b, says), last, burst)
      BY <1>2, <2>1, BurstHears
    <3> QED
      BY <2>1, <3>1, Zenon
  <2>2. CASE SamePacing(b, pacer')
    BY <1>2, <2>2, PacingKept, Zenon
  <2> QED
    BY <2>1, <2>2, Zenon
<1>5. AckOf(pacer', last, acks', fresh, word')
  <2>1. CASE acks' = 0
    <3>1. fresh \in 0..Day
      BY <1>2, Zenon DEF AckOf
    <3>2. ~(0 > 0) /\ 0 \in Nat
      OBVIOUS
    <3> QED
      BY <2>1, <3>1, <3>2, Zenon DEF AckOf
  <2>2. CASE acks' # 0
    <3>1. /\ acks' = acks /\ says \in {None, word} /\ says # last /\ word' = word
          /\ pacer.refused # last => pacer'.refused = pacer.refused
      BY <1>1, <2>2, Zenon
    <3>2. CASE says = None
      BY <1>2, <1>3, <3>1, <3>2, PacingKept, Zenon
    <3>3. CASE says # None
      <4>1. says = word /\ says \in Digests /\ pacer' = ServerHolds(b, says)
        BY <1>3, <3>1, <3>3, Zenon DEF Hashes
      <4>2. AckOf(ServerHolds(b, says), last, acks, fresh, says)
        BY <1>2, <3>1, <4>1, AckHears, Zenon
      <4> QED
        BY <3>1, <4>1, <4>2, Zenon
    <3> QED
      BY <3>2, <3>3, Zenon
  <2> QED
    BY <2>1, <2>2, Zenon
<1> QED
  BY <1>1, <1>2, <1>4, <1>5, Zenon DEF PacingInv

\* Counting a fault keeps to the bound.
LEMMA FaultCounts ==
  ASSUME IInv
  PROVE  /\ Fault => faults' \in 0..MaxFaults
         /\ \A says, truth : Says(says, truth) => faults' \in 0..MaxFaults
<1>1. faults \in 0..MaxFaults /\ MaxFaults \in Nat
  BY UploadAssumption, Zenon DEF IInv, TypeOK
<1>2. Fault => faults' \in 0..MaxFaults
  BY <1>1 DEF Fault
<1> QED
  BY <1>1, <1>2, Zenon DEF Says

\* A report, whatever becomes of it, or none.
LEMMA ReportKeeps ==
  ASSUME IInv, ReportState \/ UNCHANGED <<pacer, transportOk, faults, history>>
  PROVE  /\ pacer' \in Pacers /\ transportOk' \in BOOLEAN /\ faults' \in 0..MaxFaults
         /\ word' \in Hashes /\ last' = last /\ PacingInv'
         /\ calm' \in 0..2 /\ (calm' = 1 => pacer'.skipThis) /\ (calm' = 2 => calm = 2)
<1> DEFINE Kept == /\ pacer' \in Pacers /\ transportOk' \in BOOLEAN /\ faults' \in 0..MaxFaults
                   /\ word' \in Hashes /\ last' = last /\ PacingInv'
                   /\ calm' \in 0..2 /\ (calm' = 1 => pacer'.skipThis) /\ (calm' = 2 => calm = 2)
<1>0. /\ pacer \in Pacers /\ transportOk \in BOOLEAN /\ faults \in 0..MaxFaults /\ word \in Hashes
      /\ PacingInv /\ calm \in 0..2 /\ (calm = 1 => pacer.skipThis)
  BY Zenon DEF IInv, TypeOK, CalmInv
<1>1. CASE UNCHANGED <<pacer, history>> /\ transportOk' \in BOOLEAN /\ faults' \in 0..MaxFaults
  <2>1. UNCHANGED <<pacer, word, last, burst, acks, fresh, calm>>
    BY <1>1, Zenon DEF history
  <2> QED
    BY <1>0, <1>1, <2>1, Zenon DEF PacingInv
<1>2. ASSUME NEW retryAfter \in Holds, Fault, Trouble(pacer, retryAfter), transportOk' = TRUE,
             UNCHANGED <<word, last, burst, acks, fresh>>
      PROVE  Kept
  <2>1. pacer' = TroubleThisTurn(Hold(pacer, retryAfter)) /\ calm' = IF calm = 0 THEN 1 ELSE calm
    BY <1>2, Zenon DEF Trouble
  <2>2. Hold(pacer, retryAfter) \in Pacers /\ SamePacing(pacer, Hold(pacer, retryAfter))
    BY <1>0, HoldFacts, Zenon
  <2>3. pacer' \in Pacers /\ SamePacing(Hold(pacer, retryAfter), pacer') /\ pacer'.skipThis
    BY <2>1, <2>2, TurnFacts, Zenon
  <2>4. PacingInv'
    BY <1>0, <1>2, <2>2, <2>3, PacingKept, Zenon DEF PacingInv
  <2>5. calm' \in 0..2 /\ (calm' = 2 => calm = 2)
    BY <1>0, <2>1
  <2> QED
    BY <1>0, <1>2, <2>3, <2>4, <2>5, FaultCounts, Zenon
<1>3. ASSUME NEW says \in Hashes, Says(says, {holds, None}), pacer' = NoteReport(pacer, says), transportOk' = TRUE,
             Hear(says), UNCHANGED calm
      PROVE  Kept
  <2>1. \/ says \in Digests /\ pacer' = ServerHolds(pacer, says)
        \/ says = None /\ pacer' = pacer
    BY <1>3, PacerAssumption, Zenon DEF NoteReport, Hashes
  <2>2. SamePacing(pacer, pacer)
    BY Zenon DEF SamePacing
  <2>3. pacer' \in Pacers /\ pacer'.skipThis = pacer.skipThis
    <3>1. says \in Digests => /\ ServerHolds(pacer, says) \in Pacers
                             /\ ServerHolds(pacer, says).skipThis = pacer.skipThis
      BY <1>0, ServerHoldsFacts
    <3> QED
      BY <1>0, <2>1, <3>1, Zenon
  <2>4. PacingInv' /\ word' \in Hashes /\ last' = last
    BY <1>0, <1>3, <2>1, <2>2, HearKeeps, Zenon
  <2> QED
    BY <1>0, <1>3, <2>3, <2>4, FaultCounts, Zenon
<1>4. CASE ReportState
  <2>1. CASE Fault /\ transportOk' = FALSE /\ UNCHANGED <<pacer, history>>
    BY <1>1, <2>1, FaultCounts, Zenon
  <2> QED
    BY <1>2, <1>3, <1>4, <2>1, Zenon DEF ReportState, Hashes
<1>5. CASE UNCHANGED <<pacer, transportOk, faults, history>>
  BY <1>0, <1>1, <1>5, Zenon
<1> QED
  BY <1>4, <1>5, Zenon

-----------------------------------------------------------------------------
(* The steps of the sync *)

\* A turn of calm is over with the poll that begins the next one.
LEMMA CalmPasses ==
  ASSUME IInv
  PROVE  NextCalm \in 0..1 /\ (NextCalm = 1 => calm = 2 /\ pacer.skipNext)
<1>1. calm \in 0..2 /\ (calm = 2 => pacer.skipNext)
  BY Zenon DEF IInv, CalmInv
<1>2. NextCalm \in 0..1 /\ (NextCalm = 1 => calm = 2)
  BY <1>1 DEF NextCalm
<1> QED
  BY <1>1, <1>2, Zenon

\* Reports and the turns they are part of.
LEMMA ReportSteps ==
  ASSUME IInv, Run \/ Apply \/ Tags
  PROVE  IInv'
<1>1. /\ pc \in {"run", "apply", "tags"} /\ pc' \in {"upload", "tags"}
      /\ ReportState \/ UNCHANGED <<pacer, transportOk, faults, history>>
      /\ UNCHANGED <<sending, doc, holds, keeps>>
  BY Zenon DEF Run, Apply, Tags
<1>2. /\ pacer' \in Pacers /\ transportOk' \in BOOLEAN /\ faults' \in 0..MaxFaults
      /\ word' \in Hashes /\ last' = last /\ PacingInv'
      /\ calm' \in 0..2 /\ (calm' = 1 => pacer'.skipThis) /\ (calm' = 2 => calm = 2)
  BY <1>1, ReportKeeps, Zenon
<1>3. TypeOK'
  BY <1>1, <1>2, Zenon DEF IInv, TypeOK
<1>4. SendInv'
  BY <1>1, Zenon DEF SendInv
<1>5. CalmInv'
  BY <1>1, <1>2, Zenon DEF IInv, CalmInv
<1> QED
  BY <1>2, <1>3, <1>4, <1>5, Zenon DEF IInv

\* Polls.
LEMMA PollSteps ==
  ASSUME IInv, PollFails \/ PollError \/ PollAnswered
  PROVE  IInv'
<1>0. /\ TypeOK /\ PacingInv /\ pacer \in Pacers /\ NextCalm \in 0..1 /\ (NextCalm = 1 => pacer.skipNext)
  BY CalmPasses, Zenon DEF IInv, TypeOK
<1>1. BeginTurn(pacer) \in Pacers /\ SamePacing(pacer, BeginTurn(pacer)) /\ BeginTurn(pacer).skipThis = pacer.skipNext
  BY <1>0, TurnFacts, Zenon
<1>2. ASSUME pacer' \in Pacers, transportOk' \in BOOLEAN, faults' \in 0..MaxFaults, word' \in Hashes, last' = last,
             PacingInv', calm' \in 0..1, calm' = 1 => pacer'.skipThis, pc' \in {"sleep", "tags", "apply"},
             UNCHANGED <<sending, doc, holds, keeps>>
      PROVE  IInv'
  <2>1. TypeOK'
    BY <1>0, <1>2, Zenon DEF TypeOK
  <2>2. SendInv'
    BY <1>2, Zenon DEF SendInv
  <2>3. calm' \in 0..2 /\ calm' # 2
    BY <1>2
  <2>4. CalmInv'
    BY <1>2, <2>3, Zenon DEF CalmInv
  <2> QED
    BY <1>2, <2>1, <2>2, <2>4, Zenon DEF IInv
<1>3. CASE PollFails
  <2>1. /\ pacer' = BeginTurn(pacer) /\ transportOk' = FALSE /\ calm' = NextCalm /\ pc = "sleep" /\ Fault
        /\ UNCHANGED <<pc, sending, doc, holds, keeps, word, last, burst, acks, fresh>>
    BY <1>3, Zenon DEF PollFails
  <2>2. PacingInv'
    BY <1>0, <1>1, <2>1, PacingKept, Zenon DEF PacingInv
  <2> QED
    BY <1>0, <1>1, <1>2, <2>1, <2>2, FaultCounts, Zenon DEF TypeOK
<1>4. CASE PollError
  <2>1. /\ pacer' = TroubleThisTurn(BeginTurn(pacer)) /\ transportOk' = TRUE /\ pc' = "tags" /\ Fault
        /\ calm' = IF NextCalm = 0 THEN 1 ELSE NextCalm
        /\ UNCHANGED <<sending, doc, holds, keeps, word, last, burst, acks, fresh>>
    BY <1>4, Zenon DEF PollError
  <2>2. pacer' \in Pacers /\ SamePacing(BeginTurn(pacer), pacer') /\ pacer'.skipThis
    BY <1>1, <2>1, TurnFacts, Zenon
  <2>3. PacingInv'
    BY <1>0, <1>1, <2>1, <2>2, PacingKept, Zenon DEF PacingInv
  <2>4. calm' \in 0..1
    BY <1>0, <2>1
  <2> QED
    BY <1>0, <1>2, <2>1, <2>2, <2>3, <2>4, FaultCounts, Zenon DEF TypeOK
<1>5. CASE PollAnswered
  <2>1. /\ pc' \in {"tags", "apply"} /\ transportOk' = TRUE /\ calm' = NextCalm
        /\ UNCHANGED <<sending, doc, holds, keeps>>
    BY <1>5, Zenon DEF PollAnswered
  <2>2. PICK says \in Hashes : Says(says, {holds}) /\ pacer' = NotePoll(BeginTurn(pacer), says) /\ Hear(says)
    BY <1>5, Zenon DEF PollAnswered, Hashes
  <2>3. \/ says \in Digests /\ pacer' = ServerHolds(BeginTurn(pacer), says)
        \/ says = None /\ pacer' = ServerSilent(BeginTurn(pacer))
    BY <2>2, Zenon DEF NotePoll, Hashes
  <2>4. /\ pacer' \in Pacers /\ pacer'.skipThis = BeginTurn(pacer).skipThis
        /\ says = None => SamePacing(BeginTurn(pacer), pacer')
    <3>1. says \in Digests => /\ ServerHolds(BeginTurn(pacer), says) \in Pacers
                             /\ ServerHolds(BeginTurn(pacer), says).skipThis = BeginTurn(pacer).skipThis
      BY <1>1, ServerHoldsFacts
    <3>2. /\ ServerSilent(BeginTurn(pacer)) \in Pacers /\ SamePacing(BeginTurn(pacer), ServerSilent(BeginTurn(pacer)))
          /\ ServerSilent(BeginTurn(pacer)).skipThis = BeginTurn(pacer).skipThis
      BY <1>1, TurnFacts
    <3>3. None \notin Digests
      BY PacerAssumption, Zenon
    <3> QED
      BY <2>3, <3>1, <3>2, <3>3, Zenon
  <2>5. PacingInv' /\ word' \in Hashes /\ last' = last
    BY <1>1, <2>2, <2>3, <2>4, HearKeeps, Zenon
  <2> QED
    BY <1>0, <1>1, <1>2, <2>1, <2>2, <2>4, <2>5, FaultCounts, Zenon
<1> QED
  BY <1>3, <1>4, <1>5, Zenon

\* maybe_upload_facts up to the call.
LEMMA CheckSteps ==
  ASSUME IInv, CheckHash \/ CheckSnapshot
  PROVE  IInv'
<1>1. /\ UNCHANGED <<pacer, transportOk, doc, serverVars, history>> /\ pc \in {"upload", "snapshot"}
      /\ \/ pc' = "sleep" /\ sending' = sending
         \/ pc' = "snapshot" /\ sending' = sending /\ ~pacer.skipThis
         \/ pc' = "send" /\ sending' = doc /\ ShouldUpload(pacer, doc)
  BY Zenon DEF CheckHash, CheckSnapshot, ShouldUpload
<1>2. UNCHANGED <<holds, keeps, faults, word, last, burst, acks, fresh, calm>>
  BY <1>1, Zenon DEF serverVars, history
<1>3. doc \in Hashes
  BY UploadAssumption, Zenon DEF IInv, TypeOK, Hashes
<1>4. TypeOK'
  BY <1>1, <1>2, <1>3, Zenon DEF IInv, TypeOK
<1>5. SendInv'
  BY <1>1, Zenon DEF SendInv
<1>6. CalmInv'
  BY <1>1, <1>2, Zenon DEF IInv, CalmInv
<1>7. PacingInv'
  BY <1>1, <1>2, Zenon DEF IInv, PacingInv
<1> QED
  BY <1>4, <1>5, <1>6, <1>7, Zenon DEF IInv

\* The end of an upload.
LEMMA SentStep ==
  ASSUME IInv, Sent, pacer' \in Pacers, transportOk' \in BOOLEAN, faults' \in 0..MaxFaults, holds' \in Digests,
         word' \in Hashes, last' \in Hashes, PacingInv', pacer'.skipThis = pacer.skipThis,
         calm' = calm \/ (calm' = 2 /\ pacer'.skipNext)
  PROVE  IInv'
<1>1. pc = "send" /\ pc' = "sleep" /\ sending' = None /\ UNCHANGED <<doc, keeps>> /\ None \in Hashes
  BY Zenon DEF Sent, Hashes
<1>2. TypeOK'
  BY <1>1, Zenon DEF IInv, TypeOK
<1>3. SendInv'
  BY <1>1, Zenon DEF SendInv
<1>4. CalmInv'
  <2>1. calm \in 0..2 /\ (calm = 1 => pacer.skipThis) /\ calm # 2 /\ 2 \in 0..2 /\ 1 # 2
    BY <1>1 DEF IInv, CalmInv
  <2> QED
    BY <1>1, <2>1, Zenon DEF CalmInv
<1> QED
  BY <1>2, <1>3, <1>4, Zenon DEF IInv

\* The history of an upload.
LEMMA AttemptFacts ==
  /\ Attempt(1) => last' = sending /\ burst' = IF sending = last THEN burst + 1 ELSE 1
  /\ Attempt(0) => last' = sending /\ burst' = 0
<1>1. 1 # 0
  OBVIOUS
<1> QED
  BY <1>1, Zenon DEF Attempt

\* Uploads that do not get through.
LEMMA FailSteps ==
  ASSUME IInv, Unrenderable \/ UploadFails
  PROVE  IInv'
<1>1. /\ pc = "send" /\ Sent /\ Fault /\ UNCHANGED <<transportOk, calm>>
      /\ Unacknowledged /\ holds' \in {holds, sending}
  BY Zenon DEF Unrenderable, UploadFails, Sent
<1>2. /\ acks' = (IF sending = last THEN acks ELSE 0) /\ UNCHANGED <<word, fresh>>
  BY <1>1, Zenon DEF Unacknowledged
<1>3. /\ sending \in Digests /\ pacer \in Pacers /\ sending \in Hashes /\ SamePacing(pacer, pacer)
      /\ transportOk \in BOOLEAN /\ word \in Hashes /\ holds' \in Digests
  BY <1>1, MaySend, Zenon DEF IInv, TypeOK, SamePacing, Hashes
<1>4. CASE Unrenderable
  <2>1. pacer' = Refused(pacer, sending) /\ last' = sending /\ burst' = 0
    BY <1>4, AttemptFacts, Zenon DEF Unrenderable
  <2>2. pacer' \in Pacers /\ pacer'.skipThis = pacer.skipThis
    BY <1>3, <2>1, PacersInclude, RefusedFacts, Zenon
  <2>3. PacingInv'
    BY <1>1, <1>2, <1>3, <2>1, RefusedKeeps, Zenon DEF PacingInv
  <2> QED
    BY <1>1, <1>2, <1>3, <2>1, <2>2, <2>3, SentStep, FaultCounts, Zenon
<1>5. CASE UploadFails
  <2>1. pacer' = Rejected(pacer, sending) /\ last' = sending /\ burst' = IF sending = last THEN burst + 1 ELSE 1
    BY <1>5, AttemptFacts, Zenon DEF UploadFails
  <2>2. pacer' \in Pacers /\ pacer'.skipThis = pacer.skipThis
    BY <1>3, <2>1, RejectedFacts, Zenon
  <2>3. PacingInv'
    BY <1>1, <1>2, <1>3, <2>1, RejectedKeeps, Zenon DEF PacingInv
  <2> QED
    BY <1>1, <1>2, <1>3, <2>1, <2>2, <2>3, SentStep, FaultCounts, Zenon
<1> QED
  BY <1>4, <1>5, Zenon

\* Uploads answered with an error.
LEMMA RefusedSteps ==
  ASSUME IInv, NEW status \in {"tooLarge", "quiet", "other"}, NEW retryAfter \in Holds, UploadRefused(status, retryAfter)
  PROVE  IInv'
<1>1. /\ pc = "send" /\ Sent /\ Fault /\ transportOk' = TRUE /\ holds' = holds
      /\ calm' = IF status = "quiet" THEN 2 ELSE calm
      /\ acks' = (IF sending = last THEN acks ELSE 0) /\ UNCHANGED <<word, fresh>>
  BY Zenon DEF UploadRefused, Sent, Unacknowledged
<1>2. /\ pacer \in Pacers /\ sending \in Hashes /\ word \in Hashes /\ holds \in Digests /\ SamePacing(pacer, pacer)
  BY <1>1, MaySend, Zenon DEF IInv, TypeOK, SamePacing, Hashes
<1>3. PICK r \in Pacers : /\ r = IF status = "quiet" THEN QuietNextTurn(pacer) ELSE pacer
                          /\ SamePacing(pacer, r) /\ r.skipThis = pacer.skipThis
                          /\ status = "quiet" => r.skipNext
  BY <1>2, TurnFacts, Zenon
<1>4. PICK p \in Pacers : /\ p = Hold(r, retryAfter) /\ SamePacing(pacer, p) /\ p.skipThis = pacer.skipThis
                          /\ status = "quiet" => p.skipNext
  <2>1. /\ Hold(r, retryAfter) \in Pacers /\ SamePacing(r, Hold(r, retryAfter))
        /\ Hold(r, retryAfter).skipThis = r.skipThis /\ Hold(r, retryAfter).skipNext = r.skipNext
    BY HoldFacts, Zenon
  <2>2. SamePacing(pacer, Hold(r, retryAfter))
    BY <1>3, <2>1, Zenon DEF SamePacing
  <2> QED
    BY <1>3, <2>1, <2>2, Zenon
<1>5. CASE status = "tooLarge"
  <2>1. pacer' = Refused(p, sending) /\ last' = sending /\ burst' = 0
    BY <1>3, <1>4, <1>5, AttemptFacts, Zenon DEF UploadRefused
  <2>2. pacer' \in Pacers /\ pacer'.skipThis = pacer.skipThis
    BY <1>2, <1>4, <2>1, PacersInclude, RefusedFacts, Zenon
  <2>3. PacingInv'
    BY <1>1, <1>4, <2>1, RefusedKeeps, Zenon DEF PacingInv
  <2> QED
    BY <1>1, <1>2, <1>5, <2>1, <2>2, <2>3, SentStep, FaultCounts, Zenon
<1>6. CASE status # "tooLarge"
  <2>1. pacer' = Rejected(p, sending) /\ last' = sending /\ burst' = IF sending = last THEN burst + 1 ELSE 1
    BY <1>3, <1>4, <1>6, AttemptFacts, Zenon DEF UploadRefused
  <2>2. pacer' \in Pacers /\ pacer'.skipThis = pacer.skipThis /\ (status = "quiet" => pacer'.skipNext)
    BY <1>2, <1>4, <2>1, RejectedFacts, Zenon
  <2>3. PacingInv'
    BY <1>1, <1>4, <2>1, RejectedKeeps, Zenon DEF PacingInv
  <2> QED
    BY <1>1, <1>2, <2>1, <2>2, <2>3, SentStep, FaultCounts, Zenon
<1> QED
  BY <1>5, <1>6, Zenon

\* Uploads the server acknowledges.
LEMMA AcknowledgedSteps ==
  ASSUME IInv, NEW says \in Hashes, UploadAcknowledged(says)
  PROVE  IInv'
<1>1. /\ pc = "send" /\ Sent /\ transportOk' = TRUE /\ holds' \in {holds, sending} /\ fresh' = Day /\ calm' = calm
      /\ \E truth : Says(says, truth)
      /\ pacer' = Acknowledged(pacer, sending, says) /\ word' = IF says = None THEN word ELSE says
      /\ acks' = IF says \notin {None, word} \/ says = sending THEN 0 ELSE IF sending = last THEN acks + 1 ELSE 1
      /\ last' = sending /\ burst' = IF sending = last THEN burst + 1 ELSE 1
  BY AttemptFacts, Zenon DEF UploadAcknowledged, Sent
<1>2. pacer \in Pacers /\ sending \in Digests /\ sending \in Hashes /\ word \in Hashes /\ holds \in Digests
  BY <1>1, MaySend, Zenon DEF IInv, TypeOK, Hashes
<1>3. pacer' \in Pacers /\ pacer'.skipThis = pacer.skipThis
  <2>1. Acknowledged(pacer, sending, says) \in Pacers /\ Acknowledged(pacer, sending, says).skipThis = pacer.skipThis
    BY <1>2, AcknowledgedFacts
  <2> QED
    BY <1>1, <2>1, Zenon
<1>4. PacingInv'
  BY <1>1, AcknowledgedKeeps, Zenon DEF PacingInv
<1>5. holds' \in Digests /\ word' \in Hashes /\ last' \in Hashes /\ faults' \in 0..MaxFaults
  BY <1>1, <1>2, FaultCounts, Zenon
<1> QED
  BY <1>1, <1>3, <1>4, <1>5, SentStep, Zenon

\* An exception, a facts round, time and losses.
LEMMA OtherSteps ==
  ASSUME IInv, Restart \/ Collect \/ Tick \/ ServerLoses \/ UNCHANGED vars
  PROVE  IInv'
<1>0. /\ TypeOK /\ SendInv /\ CalmInv /\ PacingInv /\ pacer \in Pacers /\ None \in Hashes
  BY Zenon DEF IInv, TypeOK, Hashes
<1>1. CASE Restart
  <2>1. /\ pc' = "run" /\ sending' = None /\ pacer' = Start(pacer) /\ calm' = 0 /\ Fault
        /\ UNCHANGED <<transportOk, doc, holds, keeps, word, last, burst, acks, fresh>>
    BY <1>1, Zenon DEF Restart
  <2>2. pacer' \in Pacers /\ SamePacing(pacer, pacer')
    BY <1>0, <2>1, TurnFacts, Zenon
  <2>3. TypeOK'
    BY <1>0, <2>1, <2>2, FaultCounts, Zenon DEF TypeOK
  <2>4. SendInv'
    BY <2>1, Zenon DEF SendInv
  <2>5. CalmInv'
    BY <2>1 DEF CalmInv
  <2>6. PacingInv'
    BY <1>0, <2>1, <2>2, PacingKept, Zenon DEF PacingInv
  <2> QED
    BY <2>3, <2>4, <2>5, <2>6, Zenon DEF IInv
<1>2. CASE Collect \/ ServerLoses \/ UNCHANGED vars
  <2>1. /\ UNCHANGED <<pacer, pc, sending, transportOk, keeps, word, last, burst, acks, fresh, calm>>
        /\ doc' \in Docs /\ holds' \in Digests /\ faults' \in 0..MaxFaults
    BY <1>0, <1>2, FaultCounts, Zenon DEF Collect, ServerLoses, vars, syncVars, serverVars, history, TypeOK
  <2>2. TypeOK'
    BY <1>0, <2>1, Zenon DEF TypeOK
  <2>3. SendInv' /\ CalmInv' /\ PacingInv'
    BY <1>0, <2>1, Zenon DEF SendInv, CalmInv, PacingInv
  <2> QED
    BY <2>2, <2>3, Zenon DEF IInv
<1>3. CASE Tick
  <2>1. /\ pacer' = Elapse(pacer) /\ burst' = 0 /\ fresh' = Less(fresh) /\ acks' = IF Less(fresh) = 0 THEN 0 ELSE acks
        /\ UNCHANGED <<pc, sending, transportOk, doc, holds, keeps, faults, word, last, calm>>
        /\ pc \in {"sleep", "send"}
    BY <1>3, Zenon DEF Tick, syncVars, serverVars
  <2>2. /\ pacer' \in Pacers /\ pacer'.server = pacer.server /\ pacer'.skipThis = pacer.skipThis
        /\ pacer'.skipNext = pacer.skipNext /\ pacer'.refused = pacer.refused /\ pacer'.rejected = pacer.rejected
        /\ pacer'.acked = pacer.acked /\ pacer'.holdFor = Less(pacer.holdFor)
        /\ pacer'.refusedFor = Less(pacer.refusedFor) /\ pacer'.retryIn = Less(pacer.retryIn)
        /\ pacer'.resendIn = Less(pacer.resendIn)
    BY <1>0, <2>1, ElapseFacts, Zenon
  <2>3. TypeOK'
    BY <1>0, <2>1, <2>2, Zenon DEF TypeOK
  <2>4. SendInv'
    <3>1. Less(0) = 0
      BY Zenon DEF Less
    <3> QED
      BY <1>0, <2>1, <2>2, <3>1, Zenon DEF SendInv, ShouldUpload
  <2>5. CalmInv'
    BY <1>0, <2>1, <2>2, Zenon DEF CalmInv
  <2>6. BurstOf(pacer', last', burst')
    BY <2>1 DEF BurstOf
  <2>7. PacingInv'
    BY <1>0, <2>1, <2>6, AckElapses, Zenon DEF PacingInv
  <2> QED
    BY <2>3, <2>4, <2>5, <2>7, Zenon DEF IInv
<1> QED
  BY <1>1, <1>2, <1>3, Zenon

-----------------------------------------------------------------------------

\* A sync that starts knows nothing and has sent nothing.
LEMMA InitIInv == Init => IInv
<1> SUFFICES ASSUME Init PROVE IInv
  OBVIOUS
<1>0. /\ 0 \in 0..Max(Holds) /\ 0 \in 0..Day /\ 0 \in 0..Hour /\ 0 \in 0..UnconfirmedVerdict - 1 /\ 0 \in 0..MaxFaults
      /\ 0 \in 0..2 /\ ~(0 > 0) /\ 0 \in Nat /\ 0 # 1 /\ 0 # 2
  BY LongestHold, PacerAssumption, UploadAssumption DEF UnconfirmedVerdict
<1>1. None \in Hashes /\ Empty \in Digests
  BY PacerAssumption, Zenon DEF Hashes
<1>2. pacer \in Pacers
  BY <1>0, <1>1, Zenon DEF Init, NewPacer, Pacers, PacersUpTo
<1>3. TypeOK
  BY <1>0, <1>1, <1>2, Zenon DEF Init, TypeOK
<1>4. SendInv
  BY Zenon DEF Init, SendInv
<1>5. CalmInv
  BY <1>0, Zenon DEF Init, CalmInv
<1>6. PacingInv
  BY <1>0, Zenon DEF Init, PacingInv, BurstOf, AckOf
<1> QED
  BY <1>3, <1>4, <1>5, <1>6, Zenon DEF IInv

\* Every step of the sync, the core and the server keeps the invariant.
LEMMA IInvStep == IInv /\ [Next]_vars => IInv'
BY ReportSteps, PollSteps, CheckSteps, FailSteps, RefusedSteps, AcknowledgedSteps, OtherSteps, Zenon
   DEF Next, Loop, Hashes

\* The invariant holds in every state the sync reaches.
THEOREM InvariantHolds == Spec => []IInv
BY InitIInv, IInvStep, PTL DEF Spec

\* Whatever the server answers, loses and keeps, maybe_upload_facts sends it a
\* document at most twice within the first step of the backoff (answers of 413
\* aside, after which the count of a document starts over).
THEOREM SentTwiceAtMost == Spec => []TwiceInAStep
<1>1. IInv => TwiceInAStep
  <2>1. IInv => TypeOK /\ burst \in 0..2
    BY Zenon DEF IInv, PacingInv, BurstOf
  <2>2. burst \in 0..2 => burst <= 2
    OBVIOUS
  <2> QED
    BY <2>1, <2>2, Zenon DEF TwiceInAStep
<1> QED
  BY <1>1, InvariantHolds, PTL

\* The pacer's verdict holds against every server that acknowledges, never
\* confirms and keeps answering the same: three times, then not for a day
\* (unless another document is tried meanwhile or its refusal ends).
THEOREM ThreeThenQuiet == Spec => []ThreeUnconfirmed
<1>1. IInv => ThreeUnconfirmed
  <2>1. IInv => acks \in Nat /\ (acks > 0 => acks <= 3)
    BY Zenon DEF IInv, PacingInv, AckOf
  <2>2. acks \in Nat /\ (acks > 0 => acks <= 3) => acks <= 3
    OBVIOUS
  <2> QED
    BY <2>1, <2>2, Zenon DEF ThreeUnconfirmed
<1> QED
  BY <1>1, InvariantHolds, PTL

\* begin_turn carries over and trouble_this_turn sets what should_upload reads:
\* no upload follows an error in its turn or a rate-limited upload in the next.
THEOREM TroubleSilences == Spec => []TroubledTurnsSendNothing
<1>1. IInv => TroubledTurnsSendNothing
  <2> SUFFICES ASSUME IInv, pc = "send" PROVE calm = 0
    BY Zenon DEF TroubledTurnsSendNothing
  <2>1. calm \in 0..2 /\ (calm = 1 => pacer.skipThis) /\ calm # 2 /\ ~pacer.skipThis
    BY Zenon DEF IInv, CalmInv, SendInv, ShouldUpload
  <2> QED
    BY <2>1
<1> QED
  BY <1>1, InvariantHolds, PTL
====

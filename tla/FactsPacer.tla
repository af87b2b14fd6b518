------------------------------ MODULE FactsPacer ------------------------------
(***************************************************************************)
(* When the facts document is uploaded: facts_upload_pacer of              *)
(* include/onboarding/facts_pacer.hpp, as operators on its state.          *)
(*                                                                         *)
(* A point in time is kept as the time that is left until it, 0 once it    *)
(* has passed; the unit is the first step of the backoff (1 min).  The     *)
(* count of loss episodes, which only words log lines, is left out.        *)
(***************************************************************************)
EXTENDS Naturals, FiniteSetsExt

CONSTANTS
  Digests,  \* hashes of documents
  Empty,    \* empty_facts_hash, what `none` in the header is parsed to
  None,     \* no hash: an empty string, or boost::none
  Hour,     \* the longest step
  Day       \* how long a refusal lasts

ASSUME PacerAssumption == Empty \in Digests /\ None \notin Digests /\ Hour \in Nat \ {0} /\ Day \in Nat \ {0}

NewPacer ==
  [server |-> None, holdFor |-> 0, skipThis |-> FALSE, skipNext |-> FALSE,
   refused |-> None, refusedFor |-> 0, refusedServer |-> None,
   rejected |-> None, rejections |-> 0, retryIn |-> 0,
   acked |-> None, confirmed |-> FALSE, unconfirmed |-> 0, resends |-> 0, resendIn |-> 0,
   mismatch |-> None, mismatchDigest |-> None]

\* Time passes.
Less(left) == IF left = 0 THEN 0 ELSE left - 1
Elapse(p) ==
  [p EXCEPT !.holdFor = Less(@), !.refusedFor = Less(@), !.retryIn = Less(@), !.resendIn = Less(@)]

-----------------------------------------------------------------------------
(* Turns of the loop *)

Start(p) == [p EXCEPT !.skipThis = FALSE, !.skipNext = FALSE]

\* Mutant: the skip that a rate-limited upload carried over is dropped.
BeginTurnFresh(p) == Start(p)

BeginTurn(p) == [p EXCEPT !.skipThis = p.skipNext, !.skipNext = FALSE]

TroubleThisTurn(p) == [p EXCEPT !.skipThis = TRUE]
QuietNextTurn(p) == [p EXCEPT !.skipNext = TRUE]

-----------------------------------------------------------------------------
(* What the server says, and how uploads go *)

\* The steps double up to the hour.  A count past the longest step is kept
\* there: the code's shift stops growing as well.
Step(taken) == Min({2 ^ taken, Hour})
Count(n) == Min({n + 1, Hour})

UnconfirmedVerdict == 3

ClearRefusal(p) ==
  [p EXCEPT !.refused = None, !.refusedFor = 0, !.refusedServer = None, !.unconfirmed = 0]
ClearRejections(p) == [p EXCEPT !.rejected = None, !.rejections = 0, !.retryIn = 0]

\* Mutant: an echo inside the wait since the last re-send counts as well.
ConfirmAtOnce(p) == [p EXCEPT !.confirmed = TRUE, !.unconfirmed = 0, !.resends = 0, !.resendIn = 0]

Confirm(p) ==
  LET c == [p EXCEPT !.confirmed = TRUE, !.unconfirmed = 0] IN
  IF p.resends = 0 \/ p.resendIn = 0 THEN [c EXCEPT !.resends = 0, !.resendIn = 0] ELSE c

\* Mutant: the first answer after a refusal is taken for a change.
ServerHoldsNoBaseline(p, hash) ==
  LET s == [p EXCEPT !.server = hash]
      c == IF hash = p.acked THEN Confirm(s) ELSE s IN
  IF p.refused # None /\ hash \notin {p.refusedServer, p.acked} THEN ClearRefusal(c) ELSE c

\* The first answer after a refusal is what a later change is measured against.
ServerHolds(p, hash) ==
  LET s == [p EXCEPT !.server = hash]
      c == IF hash = p.acked THEN Confirm(s) ELSE s IN
  CASE p.refused # None /\ p.refusedServer = None -> [c EXCEPT !.refusedServer = hash]
    [] p.refused # None /\ p.refusedServer # None /\ hash \notin {p.refusedServer, p.acked} -> ClearRefusal(c)
    [] OTHER -> c

ServerSilent(p) == [p EXCEPT !.server = None]

\* Mutant: a refusal does not end with the day.
ShouldUploadNever(p, current) ==
  /\ ~p.skipThis
  /\ p.server # None /\ current \notin {None, p.server}
  /\ current # p.refused
  /\ p.holdFor = 0
  /\ current = p.rejected => p.retryIn = 0
  /\ current = p.acked => p.resendIn = 0

ShouldUpload(p, current) ==
  /\ ~p.skipThis
  /\ p.server # None /\ current \notin {None, p.server}
  /\ current = p.refused => p.refusedFor = 0
  /\ p.holdFor = 0
  /\ current = p.rejected => p.retryIn = 0
  /\ current = p.acked => p.resendIn = 0

Refused(p, hash) ==
  [p EXCEPT !.refused = hash, !.refusedFor = Day, !.refusedServer = None, !.unconfirmed = 0]

Rejected(p, hash) ==
  LET before == IF hash = p.rejected THEN p.rejections ELSE 0 IN
  [p EXCEPT !.rejected = hash, !.rejections = Count(before), !.retryIn = Step(before)]

Hold(p, time) == [p EXCEPT !.holdFor = Max({@, time})]

\* An acknowledged document is one that was lost since it was confirmed, one
\* sent again without a confirmation, or a new one (also after a refusal).
Counted(p, hash) ==
  LET again == hash = p.acked /\ hash # p.refused
      lost == again /\ p.confirmed
      free == ClearRejections(IF hash = p.refused THEN ClearRefusal(p) ELSE p) IN
  [free EXCEPT
     !.acked = hash, !.server = hash, !.confirmed = FALSE,
     !.resends = IF lost THEN Count(@) ELSE IF again THEN @ ELSE 0,
     !.resendIn = IF lost THEN Step(p.resends) ELSE IF again THEN Step(p.unconfirmed) ELSE Step(0),
     !.unconfirmed = IF again /\ ~lost THEN @ + 1 ELSE 1]

\* The hash that came with the acknowledgement, if any, is our own, a verdict
\* of before on this document, nothing or what the server held before, or a
\* new one: it hashes the document differently.
HashedDifferently(p, hash, says) ==
  /\ says \notin {None, hash}
  /\ <<hash, says>> = <<p.mismatch, p.mismatchDigest>> \/ says \notin {Empty, p.server}

Acknowledged(p, hash, says) ==
  LET c == Counted(p, hash)
      differs == HashedDifferently(p, hash, says)
      a == CASE says = hash /\ hash = p.mismatch -> [Confirm(c) EXCEPT !.mismatch = None, !.mismatchDigest = None]
             [] says = hash /\ hash # p.mismatch -> Confirm(c)
             [] says \notin {None, hash} /\ ~differs -> [c EXCEPT !.server = says]
             [] OTHER -> c
      verdict == [Refused(a, hash) EXCEPT !.refusedServer = says] IN
  CASE differs -> [verdict EXCEPT !.mismatch = hash, !.mismatchDigest = says]
    [] ~differs /\ a.unconfirmed >= UnconfirmedVerdict -> verdict
    [] OTHER -> a
=============================================================================

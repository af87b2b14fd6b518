----------------------------- MODULE FactsUpload -----------------------------
(***************************************************************************)
(* The turns of the fleet sync (service/fleet_sync.cpp) as far as the      *)
(* facts document is concerned: polls, reports and uploads, with the pacer *)
(* that decides about the uploads.  The rounds of the core change the      *)
(* document meanwhile.                                                     *)
(*                                                                         *)
(* The server answers every call, says what it holds and keeps what it is  *)
(* sent, but for a bounded number of faults: calls that do not get         *)
(* through, errors, wrong or missing hashes, documents it loses.  Or it    *)
(* acknowledges documents and never keeps one.                             *)
(*                                                                         *)
(* Applying a desired state is FleetSync's part; here it decides only      *)
(* whether a report follows.  A certificate renewal that cannot reach the  *)
(* server is a report that cannot.  The heartbeat before the first report  *)
(* is left out, and so is revocation: a 403 that ends the sync for good.   *)
(***************************************************************************)
EXTENDS FactsPacer

CONSTANTS
  Holds,        \* what a Retry-After asks for, 0 for none
  Docs,         \* what the host's document can be; None: its hash failed
  MaxFaults     \* bound: faults of the network, the server and the sync itself

ASSUME UploadAssumption ==
  /\ Docs \subseteq Digests \cup {None} /\ MaxFaults \in Nat
  /\ 0 \in Holds /\ Holds \subseteq Nat /\ \E longest \in Holds : \A time \in Holds : time <= longest

VARIABLES
  pacer,        \* facts_pacer_
  pc,           \* where the sync's thread is
  doc,          \* the repository's hash; None when it could not be computed
  sending,      \* the hash of the snapshot being uploaded
  transportOk,  \* transport_ok_
  faults,       \* how many there were
  holds, keeps, \* the document the server holds, and whether it ever keeps one
  \* history: the digest the server said last; uploads of one document since
  \* time last passed; its acknowledgements since the server's word last
  \* changed, and for how long they count; turns without an upload to come
  word, last, burst, acks, fresh, calm

syncVars == <<pc, sending, transportOk>>
serverVars == <<holds, keeps, faults>>
history == <<word, last, burst, acks, fresh, calm>>
vars == <<pacer, syncVars, doc, serverVars, history>>

Init ==
  /\ pacer = NewPacer /\ pc = "run" /\ doc \in Docs /\ sending = None /\ transportOk = TRUE
  /\ faults = 0 /\ holds = Empty /\ keeps \in BOOLEAN
  /\ word = None /\ last = None /\ burst = 0 /\ acks = 0 /\ fresh = 0 /\ calm = 0

-----------------------------------------------------------------------------
(* Answers: a call fails, is answered with an error and perhaps a          *)
(* Retry-After, or is answered with a hash in its header or none.          *)

Fault == faults < MaxFaults /\ faults' = faults + 1
Says(says, truth) == IF says \in truth THEN UNCHANGED faults ELSE Fault

\* History: the server said something, and the count of acknowledgements
\* starts over when it is news, names the document itself or ends the refusal
\* of another document.
Hear(says) ==
  LET ends == pacer.refused # last /\ pacer'.refused # pacer.refused IN
  /\ word' = IF says = None THEN word ELSE says
  /\ acks' = IF says \notin {None, word} \/ says = last \/ ends THEN 0 ELSE acks
  /\ UNCHANGED <<last, burst, fresh>>

\* note_server_response for an error answer to a poll or a report
Trouble(p, retryAfter) ==
  /\ pacer' = TroubleThisTurn(Hold(p, retryAfter))
  /\ calm' = IF calm = 0 THEN 1 ELSE calm

\* ... and for an answer the server meant: on a report no header says nothing.
NotePoll(p, says) == IF says = None THEN ServerSilent(p) ELSE ServerHolds(p, says)
NoteReport(p, says) == IF says = None THEN p ELSE ServerHolds(p, says)

\* report_state: it cannot reach the server, or it is answered.
ReportState ==
  \/ /\ Fault
     /\ transportOk' = FALSE
     /\ UNCHANGED <<pacer, history>>
  \/ \E retryAfter \in Holds :
     /\ Fault /\ Trouble(pacer, retryAfter) /\ transportOk' = TRUE
     /\ UNCHANGED <<word, last, burst, acks, fresh>>
  \/ \E says \in Digests \cup {None} :
     /\ Says(says, {holds, None}) /\ pacer' = NoteReport(pacer, says) /\ transportOk' = TRUE
     /\ Hear(says) /\ UNCHANGED calm

-----------------------------------------------------------------------------
(* run, from its first report on *)

Run ==
  /\ pc = "run" /\ pc' = "upload"
  /\ ReportState
  /\ UNCHANGED <<sending, doc, holds, keeps>>

\* poll_once up to the answer.  A turn begins with what the last one carried
\* over, also when its poll does not get through.  (History: a turn of calm is over.)
NextCalm == IF calm = 0 THEN 0 ELSE calm - 1

PollFails ==
  /\ pc = "sleep" /\ Fault
  /\ pacer' = BeginTurn(pacer) /\ transportOk' = FALSE /\ calm' = NextCalm
  /\ UNCHANGED <<pc, sending, doc, holds, keeps, word, last, burst, acks, fresh>>

PollError ==
  /\ pc = "sleep" /\ pc' = "tags" /\ Fault
  /\ pacer' = TroubleThisTurn(BeginTurn(pacer)) /\ transportOk' = TRUE
  /\ calm' = IF NextCalm = 0 THEN 1 ELSE NextCalm
  /\ UNCHANGED <<sending, doc, holds, keeps, word, last, burst, acks, fresh>>

\* A 304, or a desired state that is then applied.
PollAnswered ==
  /\ pc = "sleep" /\ pc' \in {"tags", "apply"}
  /\ \E says \in Digests \cup {None} : Says(says, {holds}) /\ pacer' = NotePoll(BeginTurn(pacer), says) /\ Hear(says)
  /\ transportOk' = TRUE /\ calm' = NextCalm
  /\ UNCHANGED <<sending, doc, holds, keeps>>

\* The state was applied or could not be, which is reported; a stale one is not.
Apply ==
  /\ pc = "apply" /\ pc' = "tags"
  /\ ReportState \/ UNCHANGED <<pacer, transportOk, faults, history>>
  /\ UNCHANGED <<sending, doc, holds, keeps>>

\* The rest of the turn: nothing when the server could not be reached, else a
\* report if tags have changed.
Tags ==
  /\ pc = "tags" /\ pc' = "upload"
  /\ (transportOk /\ ReportState) \/ UNCHANGED <<pacer, transportOk, faults, history>>
  /\ UNCHANGED <<sending, doc, holds, keeps>>

-----------------------------------------------------------------------------
(* maybe_upload_facts *)

\* The cached hash first, then the snapshot's own: a round may have landed.
CheckHash ==
  /\ pc = "upload"
  /\ pc' = IF transportOk /\ ShouldUpload(pacer, doc) THEN "snapshot" ELSE "sleep"
  /\ UNCHANGED <<pacer, sending, transportOk, doc, serverVars, history>>

CheckSnapshot ==
  /\ pc = "snapshot"
  /\ IF ShouldUpload(pacer, doc) THEN pc' = "send" /\ sending' = doc ELSE pc' = "sleep" /\ UNCHANGED sending
  /\ UNCHANGED <<pacer, transportOk, doc, serverVars, history>>

Sent == pc = "send" /\ pc' = "sleep" /\ sending' = None /\ UNCHANGED <<doc, keeps>>

\* History: uploads of one document in a row, as answered by anything but 413.
Attempt(n) ==
  /\ last' = sending
  /\ burst' = IF n = 0 THEN 0 ELSE IF sending = last THEN burst + n ELSE n
Unacknowledged == acks' = (IF sending = last THEN acks ELSE 0) /\ UNCHANGED <<word, fresh>>

\* The body could not be built.
Unrenderable ==
  /\ Sent /\ Fault
  /\ pacer' = Refused(pacer, sending)
  /\ Attempt(0) /\ Unacknowledged
  /\ UNCHANGED <<transportOk, holds, calm>>

\* The call failed, before it reached the server or after: paced like a
\* rejection, and not the transport's trouble.
UploadFails ==
  /\ Sent /\ Fault
  /\ pacer' = Rejected(pacer, sending)
  /\ holds' \in {holds} \cup (IF keeps THEN {sending} ELSE {})
  /\ Attempt(1) /\ Unacknowledged
  /\ UNCHANGED <<transportOk, calm>>

\* An error answer: 413, one that asks for quiet (429, 503), or another.
UploadRefused(status, retryAfter) ==
  LET p == Hold(IF status = "quiet" THEN QuietNextTurn(pacer) ELSE pacer, retryAfter) IN
  /\ Sent /\ Fault
  /\ pacer' = IF status = "tooLarge" THEN Refused(p, sending) ELSE Rejected(p, sending)
  /\ transportOk' = TRUE
  /\ calm' = IF status = "quiet" THEN 2 ELSE calm
  /\ Attempt(IF status = "tooLarge" THEN 0 ELSE 1) /\ Unacknowledged
  /\ UNCHANGED holds

UploadAcknowledged(says) ==
  /\ Sent /\ holds' = IF keeps THEN sending ELSE holds
  /\ Says(says, {None, holds, holds'})
  /\ pacer' = Acknowledged(pacer, sending, says)
  /\ transportOk' = TRUE
  /\ word' = IF says = None THEN word ELSE says
  /\ acks' = IF says \notin {None, word} \/ says = sending THEN 0 ELSE IF sending = last THEN acks + 1 ELSE 1
  /\ fresh' = Day
  /\ Attempt(1) /\ UNCHANGED calm

-----------------------------------------------------------------------------
(* Around the loop *)

\* An exception ends run(); thread_proc runs it again.
Restart ==
  /\ pc # "run" /\ Fault
  /\ pc' = "run" /\ sending' = None
  /\ pacer' = Start(pacer) /\ calm' = 0
  /\ UNCHANGED <<transportOk, doc, holds, keeps, word, last, burst, acks, fresh>>

\* A facts round of the core has changed the document.
Collect ==
  /\ doc' \in Docs \ {doc}
  /\ UNCHANGED <<pacer, syncVars, serverVars, history>>

\* Time passes while the thread sleeps, or in a call (seen when it returns).
Tick ==
  /\ pc \in {"sleep", "send"} /\ pacer' = Elapse(pacer)
  /\ burst' = 0 /\ fresh' = Less(fresh) /\ acks' = IF fresh' = 0 THEN 0 ELSE acks
  /\ <<pacer', burst', fresh'>> # <<pacer, burst, fresh>>
  /\ UNCHANGED <<syncVars, doc, serverVars, word, last, calm>>

\* The server loses its document, to nothing or to an older one.
ServerLoses ==
  /\ Fault /\ holds' \in Digests \ {holds}
  /\ UNCHANGED <<pacer, syncVars, doc, keeps, history>>

Loop ==
  \/ Run \/ PollFails \/ PollError \/ PollAnswered \/ Apply \/ Tags \/ CheckHash \/ CheckSnapshot
  \/ Unrenderable \/ UploadFails
  \/ \E status \in {"tooLarge", "quiet", "other"}, retryAfter \in Holds : UploadRefused(status, retryAfter)
  \/ \E says \in Digests \cup {None} : UploadAcknowledged(says)

Next == Loop \/ Restart \/ Collect \/ Tick \/ ServerLoses

Spec == Init /\ [][Next]_vars

\* The sync's thread runs, and time passes in its sleeps; nothing else is promised.
FairSpec == Spec /\ WF_vars(Loop) /\ SF_vars(Tick)

-----------------------------------------------------------------------------
(* Properties *)

Hashes == Digests \cup {None}
PacersUpTo(most) ==
  [server : Hashes, holdFor : 0..Max(Holds), skipThis : BOOLEAN, skipNext : BOOLEAN,
   refused : Hashes, refusedFor : 0..Day, refusedServer : Hashes,
   rejected : Hashes, rejections : 0..Hour, retryIn : 0..Hour,
   acked : Hashes, confirmed : BOOLEAN, unconfirmed : 0..most,
   resends : 0..Hour, resendIn : 0..Hour, mismatch : Hashes, mismatchDigest : Hashes]
Pacers == PacersUpTo(UnconfirmedVerdict - 1)

\* Types.
TypeOK ==
  /\ pacer \in Pacers /\ {sending, word, last} \subseteq Hashes
  /\ {transportOk, keeps} \subseteq BOOLEAN
  /\ pc \in {"run", "sleep", "apply", "tags", "upload", "snapshot", "send"}
  /\ doc \in Docs /\ holds \in Digests /\ faults \in 0..MaxFaults

\* Whatever the server answers and loses, it gets a document at most twice in
\* a row within the first step of the backoff: the one re-send of a confirmed
\* document that goes at once.  Not so for a document refused with 413, which
\* goes again when the server's answers change; and another document sent in
\* between starts the count over, as the pacer's own counts are of one document.
TwiceInAStep == TypeOK /\ burst <= 2

\* A server that acknowledges a document, never says that it holds it and
\* otherwise keeps answering the same, is sent it three times, and then not
\* for a day (unless another document was tried meanwhile, or its refusal
\* ended: refused and clear_refusal start the count of this one over).
ThreeUnconfirmed == acks <= 3

\* No upload in a turn whose poll or report got an error, and none in the turn
\* after a rate-limited upload, even if that turn's poll does not get through.
TroubledTurnsSendNothing == pc = "send" => calm = 0

\* The document the host settles on reaches a server that keeps documents,
\* whatever went wrong before: no refusal, wait, hold or skip lasts for ever.
EventuallyHeld == \A d \in Digests : <>[](keeps /\ doc = d) => <>[](holds = d)
=============================================================================

------------------------------- MODULE Outbox -------------------------------
(***************************************************************************)
(* The WhatsApp outbox: who is told of what, and what becomes of each      *)
(* message.                                                                *)
(*                                                                         *)
(* A change of an order's status tells a list of people, one after         *)
(* another.  Each is written down as a row, committed, and then sent; the  *)
(* outcome is a second commit.  Between the two the row is PENDING, which  *)
(* is also what a retry looks for.  A retry reads its rows at once, and    *)
(* counts the attempts of the first one on the copy it read; its own       *)
(* commit makes it read the others again.                                  *)
(*                                                                         *)
(* Meta answers with an id or an error.  A network that fails is answered  *)
(* for by the sender, with None, and the outbox takes None for a sender    *)
(* that is turned off.  Consent here stands for a recorded opt-in and a    *)
(* phone number.                                                           *)
(***************************************************************************)
EXTENDS Integers, FiniteSets, SequencesExt

CONSTANTS
  None,
  Customer, Baker, Rider, Admins, \* the people an order has to do with
  Senders,                        \* handlers that notify or retry
  Notices,                        \* the changes that are told
  MAX_ATTEMPTS,
  MaxRows,                        \* bound: rows in the table
  MaxSpare                        \* bound: outcomes lost and rows taken twice

VARIABLES
  consent,  \* [People -> BOOLEAN]: User.whatsapp_opt_in
  outbox,   \* the table, oldest first
  sending,  \* what each handler has still to do
  tries,    \* history: calls made to Meta for each row
  accepted, \* history: how many of them Meta delivered
  spare,    \* history: outcomes of a row that were lost, and times it was
            \* taken up while somebody else had it
  refused,  \* history: rows whose person had not consented when asked
  cut       \* history: rows whose last call met a dead network

outboxVars == <<consent, outbox, sending, tries, accepted, spare, refused, cut>>
histories  == <<tries, accepted, spare, refused, cut>>

People   == {Customer, Baker, Rider} \cup Admins
Rows     == 1 .. MaxRows
Statuses == {"PENDING", "SENT", "FAILED", "SKIPPED"}
Outcomes == {"ACCEPTED", "ERROR", "LOST", "DOWN"}

Events == {"CONFIRMED", "ASSIGNED", "IN_PRODUCTION", "AWAITING_APPROVAL", "PACKAGED",
           "OUT_FOR_DELIVERY", "READY_FOR_PICKUP", "COLLECTED", "NOT_COLLECTED",
           "DELIVERED", "CANCELLED", "PROOF"}
(* event: a status, or a proof uploaded; staffed: the order has a baker    *)
(* and a rider; rework: it was sent back.                                  *)
Notice == [event : Events, staffed : BOOLEAN, rework : BOOLEAN]

ASSUME NoneAssumption == /\ None \notin People /\ None \notin Nat
                         /\ None \notin Outcomes /\ None \notin Statuses
ASSUME NoticesAssumption == Notices \subseteq Notice
ASSUME Staffing == IsFiniteSet(Admins) /\ IsFiniteSet(Senders)
ASSUME OutboxBounds == /\ MAX_ATTEMPTS \in Nat \ {0}
                       /\ MaxRows \in Nat \ {0} /\ MaxSpare \in Nat

Row == [to : People \cup {None}, status : Statuses, attempts : Nat]
(* todo: who is still to be told, a person and whether they may be, or     *)
(* None for the admins, who are looked up when their turn comes.  rows:    *)
(* the rows to send, 0 for one that could not be written.  n, was: the     *)
(* attempts counted, and the status read, on this copy of the first row.   *)
(* answer: what the sender returned.                                       *)
Told == [to : People \cup {None}, may : BOOLEAN]
Sending == [todo : Seq(Told), rows : Seq(Rows \cup {0}), n : Nat \cup {None},
            was : Statuses \cup {None}, answer : Outcomes \cup {None}]
Rest == [todo |-> <<>>, rows |-> <<>>, n |-> None, was |-> None, answer |-> None]

(* Every variable has its type: the statuses of models/whatsapp_message.py. *)
OutboxTypeOK ==
  /\ consent \in [People -> BOOLEAN]
  /\ outbox \in Seq(Row) /\ Len(outbox) <= MaxRows
  /\ sending \in [Senders -> Sending]
  /\ tries \in [Rows -> Nat] /\ accepted \in [Rows -> Nat] /\ spare \in [Rows -> Nat]
  /\ refused \subseteq Rows /\ cut \subseteq Rows

OutboxInit ==
  /\ consent \in [People -> BOOLEAN]
  /\ outbox = <<>>
  /\ sending = [s \in Senders |-> Rest]
  /\ tries = [i \in Rows |-> 0] /\ accepted = tries /\ spare = tries
  /\ refused = {} /\ cut = {}
-----------------------------------------------------------------------------
(* Consent. *)

may_message(p) == p # None /\ consent[p]

RecordOptIn(p)  == consent' = [consent EXCEPT ![p] = TRUE]
RecordOptOut(p) == consent' = [consent EXCEPT ![p] = FALSE]

OptIn(p)  == ~consent[p] /\ RecordOptIn(p) /\ UNCHANGED <<outbox, sending, histories>>
OptOut(p) == consent[p] /\ RecordOptOut(p) /\ UNCHANGED <<outbox, sending, histories>>
-----------------------------------------------------------------------------
(* Who is told of what. *)

ToCustomer == {"CONFIRMED", "OUT_FOR_DELIVERY", "READY_FOR_PICKUP", "COLLECTED",
               "NOT_COLLECTED", "DELIVERED", "CANCELLED"}
ToAdmins   == {"CONFIRMED", "AWAITING_APPROVAL", "NOT_COLLECTED", "DELIVERED", "PROOF"}

TellsBaker(n) == \/ n.event = "ASSIGNED"
                 \/ n.event = "IN_PRODUCTION" /\ n.rework
                 \/ n.event = "CANCELLED" /\ n.staffed
TellsRider(n) == n.event \in {"PACKAGED", "CANCELLED"} /\ n.staffed

Tell(p) == <<[to |-> p, may |-> may_message(p)]>>
TheAdmins == <<[to |-> None, may |-> TRUE]>>

When(condition, list) == IF condition THEN list ELSE <<>>

Recipients(n) == When(n.event \in ToCustomer, Tell(Customer))
                 \o When(TellsBaker(n), Tell(Baker))
                 \o When(TellsRider(n), Tell(Rider))
                 \o When(n.event \in ToAdmins, TheAdmins)

consenting_admins == {a \in Admins : may_message(a)}
-----------------------------------------------------------------------------
(* A status was committed: its people are told in turn. *)

(* bound: a change is told when the table will hold it. *)
Room(n) == /\ Len(outbox) + Len(Recipients(n)) <= MaxRows
           /\ \A s \in Senders : sending[s].todo = <<>>

Dispatch(s, n) ==
  /\ sending[s] = Rest
  /\ Recipients(n) # <<>> /\ Room(n)
  /\ sending' = [sending EXCEPT ![s].todo = Recipients(n)]
  /\ UNCHANGED <<consent, outbox, histories>>

Queueing(s) == sending[s].rows = <<>> /\ sending[s].todo # <<>>

(* An admin whose turn came is one who may be told. *)
LookUpAdmins(s) ==
  /\ Queueing(s) /\ Head(sending[s].todo).to = None
  /\ sending' = [sending EXCEPT ![s].todo =
                   [i \in DOMAIN SetToSeq(consenting_admins) |->
                     [to |-> SetToSeq(consenting_admins)[i], may |-> TRUE]] \o Tail(@)]
  /\ UNCHANGED <<consent, outbox, histories>>

Skip(s) ==
  /\ Queueing(s) /\ Len(outbox) < MaxRows
  /\ LET next == Head(sending[s].todo)
     IN  /\ next.to # None /\ ~next.may
         /\ outbox'  = Append(outbox, [to |-> next.to, status |-> "SKIPPED", attempts |-> 0])
  /\ refused' = refused \cup {Len(outbox) + 1}
  /\ sending' = [sending EXCEPT ![s].todo = Tail(@)]
  /\ UNCHANGED <<consent, tries, accepted, spare, cut>>

Queue(s) ==
  /\ Queueing(s) /\ Len(outbox) < MaxRows
  /\ LET next == Head(sending[s].todo)
     IN  /\ next.to # None /\ next.may
         /\ outbox'  = Append(outbox, [to |-> next.to, status |-> "PENDING", attempts |-> 0])
         /\ sending' = [sending EXCEPT ![s].todo = Tail(@), ![s].rows = <<Len(outbox) + 1>>]
  /\ UNCHANGED <<consent, histories>>

(* _commit: a row that cannot be written is sent all the same. *)
QueueUnwritten(s) ==
  /\ Queueing(s)
  /\ LET next == Head(sending[s].todo)
     IN  /\ next.to # None
         /\ sending' = [sending EXCEPT ![s].todo = Tail(@),
                                       ![s].rows = IF next.may THEN <<0>> ELSE <<>>]
  /\ UNCHANGED <<consent, outbox, histories>>
-----------------------------------------------------------------------------
(* retry_pending. *)

(* Mutants: attempts without end; skipped rows too; sent rows too. *)
StillFailing == {i \in DOMAIN outbox : outbox[i].status \in {"FAILED", "PENDING"}}
NotDelivered == {i \in DOMAIN outbox : /\ outbox[i].status # "SENT"
                                       /\ outbox[i].attempts < MAX_ATTEMPTS}
NotSkipped   == {i \in DOMAIN outbox : /\ outbox[i].status # "SKIPPED"
                                       /\ outbox[i].attempts < MAX_ATTEMPTS}

Retryable == {i \in DOMAIN outbox : /\ outbox[i].status \in {"FAILED", "PENDING"}
                                    /\ outbox[i].attempts < MAX_ATTEMPTS}
OldestFirst(rows) == {queue \in [1 .. Cardinality(rows) -> rows] :
                        \A i, j \in DOMAIN queue : i < j => queue[i] < queue[j]}
Held(by) == UNION {ToSet(sending[s].rows) : s \in by}

Retry(s) ==
  LET taken == Retryable \cap Held(Senders)
  IN  /\ sending[s] = Rest
      /\ Retryable # {}
      /\ \A i \in taken : spare[i] < MaxSpare
      /\ \E queue \in OldestFirst(Retryable) :
           sending' = [sending EXCEPT ![s].rows = queue,
                                      ![s].n    = outbox[queue[1]].attempts,
                                      ![s].was  = outbox[queue[1]].status]
      /\ spare' = [i \in Rows |-> IF i \in taken THEN spare[i] + 1 ELSE spare[i]]
      /\ UNCHANGED <<consent, outbox, tries, accepted, refused, cut>>
-----------------------------------------------------------------------------
(* _attempt: the call, and the commit of what came of it. *)

Counted(s, i) == IF sending[s].n = None THEN outbox[i].attempts ELSE sending[s].n
Known(s, i)   == IF sending[s].n = None THEN outbox[i].status ELSE sending[s].was

Send(s, answer) ==
  /\ sending[s].rows # <<>> /\ sending[s].answer = None
  /\ LET i == Head(sending[s].rows)
     IN  IF i = 0
         THEN /\ sending' = [sending EXCEPT ![s].answer = answer]
              /\ UNCHANGED <<tries, accepted, cut>>
         ELSE /\ sending' = [sending EXCEPT ![s].answer = answer, ![s].n = Counted(s, i) + 1,
                                            ![s].was = Known(s, i)]
              /\ tries' = [tries EXCEPT ![i] = @ + 1]
              /\ accepted' = IF answer \in {"ACCEPTED", "LOST"}
                             THEN [accepted EXCEPT ![i] = @ + 1] ELSE accepted
              /\ cut' = IF answer = "DOWN" THEN cut \cup {i} ELSE cut \ {i}
  /\ UNCHANGED <<consent, outbox, spare, refused>>

(* Mutants: what Meta said is the status; no answer is a failure. *)
AsAnswered(answer) == answer
NoAnswerFails(answer) == IF answer = "ACCEPTED" THEN "SENT" ELSE "FAILED"

(* Both ways a network fails come back from the sender as None. *)
Outcome(answer) == CASE answer = "ACCEPTED" -> "SENT"
                     [] answer = "ERROR"    -> "FAILED"
                     [] OTHER               -> "SKIPPED"

GoOn(s) == sending' = [sending EXCEPT ![s].rows = Tail(@), ![s].n = None, ![s].was = None,
                                     ![s].answer = None]

(* A status that is what was read is not written. *)
Settled(s, status) == LET result == Outcome(sending[s].answer)
                      IN  IF result = sending[s].was THEN status ELSE result

Commit(s) ==
  /\ sending[s].answer # None
  /\ LET i == Head(sending[s].rows)
     IN  outbox' = IF i = 0 THEN outbox
                   ELSE [outbox EXCEPT ![i].status   = Settled(s, @),
                                       ![i].attempts = sending[s].n]
  /\ GoOn(s)
  /\ UNCHANGED <<consent, histories>>

(* The outcome is lost: the commit fails, and the handler goes on, or the  *)
(* process dies, and nothing more of the list is done.                     *)
MayLose(s) == LET i == Head(sending[s].rows)
              IN  i # 0 /\ spare[i] < MaxSpare /\ spare' = [spare EXCEPT ![i] = @ + 1]

CommitFails(s) ==
  /\ sending[s].answer # None
  /\ MayLose(s)
  /\ GoOn(s)
  /\ UNCHANGED <<consent, outbox, tries, accepted, refused, cut>>

Crash(s) ==
  /\ sending[s] # Rest
  /\ IF sending[s].answer = None \/ Head(sending[s].rows) = 0
     THEN UNCHANGED spare ELSE MayLose(s)
  /\ sending' = [sending EXCEPT ![s] = Rest]
  /\ UNCHANGED <<consent, outbox, tries, accepted, refused, cut>>
-----------------------------------------------------------------------------
Work(s) == \/ LookUpAdmins(s) \/ Skip(s) \/ Queue(s) \/ QueueUnwritten(s)
           \/ \E answer \in Outcomes : Send(s, answer)
           \/ Commit(s) \/ CommitFails(s)

OutboxNext ==
  \/ \E p \in People : OptIn(p) \/ OptOut(p)
  \/ \E s \in Senders : \/ \E n \in Notices : Dispatch(s, n)
                        \/ Retry(s) \/ Work(s) \/ Crash(s)

OutboxSpec == OutboxInit /\ [][OutboxNext]_outboxVars
-----------------------------------------------------------------------------
(* A message reaches somebody twice only if an outcome of it was lost or   *)
(* two handlers had it at once: _attempt and retry_pending.                *)
TwiceHasACause == \A i \in DOMAIN outbox : accepted[i] <= 1 + spare[i]

(* Nor is Meta asked more than MAX_ATTEMPTS times without such a cause,    *)
(* and each cause is good for one call more: the filter of retry_pending.  *)
AttemptsAreBounded == \A i \in DOMAIN outbox : tries[i] <= MAX_ATTEMPTS + spare[i]

(* Somebody who had not opted in when they were to be told is not told     *)
(* later, whatever they consent to since and however often it is retried:  *)
(* the skip_reason of queue_and_send.                                      *)
RefusedIsNeverSent == \A i \in refused : tries[i] = 0

(* What is settled stays settled: a SENT message is never reopened, nor    *)
(* one that was skipped, unless two handlers had it.                       *)
SettledIsFinal ==
  [][\A i \in DOMAIN outbox :
       outbox[i].status \in {"SENT", "SKIPPED"} /\ spare[i] = 0
         => outbox'[i] = outbox[i]]_outboxVars

(* Violated.  wa_outbox.py:4-5: a Meta outage "produces a retryable        *)
(* backlog rather than silence".                                           *)
OutageIsRetried ==
  \A i \in cut \cap DOMAIN outbox :
    i \notin Held(Senders) => outbox[i].status \in {"PENDING", "FAILED"}
=============================================================================

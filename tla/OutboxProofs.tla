---------------------------- MODULE OutboxProofs ----------------------------
(***************************************************************************)
(* Proofs about Outbox: what two handlers that send the same row can do to *)
(* it.                                                                     *)
(*                                                                         *)
(* A row is taken up once by the handler that wrote it, and again by each  *)
(* retry.  Taking it up while nobody has it costs one of its attempts;     *)
(* taking it up while somebody has it, and losing an outcome, are counted  *)
(* in spare.  Every call to Meta uses a taking up, so that what was called *)
(* and what may still be called are paid for by the attempts and by spare. *)
(* Attempts that a stale copy sets back are paid for by the takings up     *)
(* that happened while the copy was held.                                  *)
(***************************************************************************)
EXTENDS Outbox, FiniteSetTheorems, SequenceTheorems, TLAPS

Holds(s, i) == \E k \in DOMAIN sending[s].rows : sending[s].rows[k] = i
(* What a handler knows of the row it is at; of any other, nothing. *)
Idle     == [n |-> None, was |-> None, answer |-> None]
At(s, i) == IF sending[s].rows # <<>> /\ Head(sending[s].rows) = i
            THEN [n |-> sending[s].n, was |-> sending[s].was, answer |-> sending[s].answer]
            ELSE Idle
Called(s, i)  == At(s, i).answer # None
Arrived(s, i) == At(s, i).answer \in {"ACCEPTED", "LOST"}

Holders(i) == {s \in Senders : Holds(s, i)}
Unasked(i) == {s \in Senders : Holds(s, i) /\ ~Called(s, i)}
Open(i)    == {s \in Senders : Holds(s, i) /\ ~Arrived(s, i)}

Unsettled(i) == outbox[i].status \in {"FAILED", "PENDING"}
Spent(i)     == tries[i] + Cardinality(Unasked(i))
Reached(i)   == accepted[i] + Cardinality(Open(i))

(* A handler with nothing to send remembers nothing; the rows it has are   *)
(* in the table, and each is there once.                                   *)
HandlerOK(s) ==
  /\ sending[s].rows = <<>> => sending[s].n = None /\ sending[s].was = None
                               /\ sending[s].answer = None
  /\ \A k \in DOMAIN sending[s].rows : sending[s].rows[k] <= Len(outbox)
  /\ \A k, l \in DOMAIN sending[s].rows : sending[s].rows[k] = sending[s].rows[l] => k = l

(* A copy was read for a retry, or for the call that was made. *)
CopyOK(s, i) ==
  /\ At(s, i).n # None /\ ~Called(s, i)
       => At(s, i).was \in {"FAILED", "PENDING"} /\ Spent(i) <= At(s, i).n + 1 + spare[i]
  /\ Called(s, i) => At(s, i).n # None /\ Spent(i) <= At(s, i).n + spare[i]
  /\ Arrived(s, i) /\ At(s, i).was = Outcome(At(s, i).answer) /\ Unsettled(i)
       => Reached(i) <= spare[i]

RowOK(i) ==
  /\ Reached(i) <= 1 + spare[i]
  /\ Unsettled(i) /\ Holders(i) = {} => accepted[i] <= spare[i]
  /\ Spent(i) <= outbox[i].attempts + spare[i] + IF Holders(i) = {} THEN 0 ELSE 1
  /\ Spent(i) <= MAX_ATTEMPTS + spare[i]
  /\ spare[i] = 0 => \A s, t \in Holders(i) : s = t
  /\ spare[i] = 0 /\ ~Unsettled(i) => Holders(i) = {}
  /\ \A s \in Senders : CopyOK(s, i)

Unwritten == \A i \in Rows \ DOMAIN outbox : tries[i] = 0 /\ accepted[i] = 0
Refusals  == \A i \in refused : /\ i \in DOMAIN outbox /\ outbox[i].status = "SKIPPED"
                                /\ tries[i] = 0 /\ Holders(i) = {}

IInv == /\ OutboxTypeOK /\ Unwritten /\ Refusals
        /\ \A s \in Senders : HandlerOK(s)
        /\ \A i \in DOMAIN outbox : RowOK(i)
-----------------------------------------------------------------------------
(* What there is to count. *)
LEMMA CountsAreNumbers ==
  ASSUME NEW i
  PROVE  /\ IsFiniteSet(Unasked(i)) /\ Cardinality(Unasked(i)) \in Nat
         /\ IsFiniteSet(Open(i)) /\ Cardinality(Open(i)) \in Nat
<1>1. Unasked(i) \subseteq Senders /\ Open(i) \subseteq Senders /\ IsFiniteSet(Senders)
  BY Staffing DEF Unasked, Open
<1> QED BY <1>1, FS_Subset, FS_CardinalityType

LEMMA CountsAreNumbersNext ==
  ASSUME NEW i
  PROVE  /\ IsFiniteSet(Unasked(i)') /\ Cardinality(Unasked(i)') \in Nat
         /\ IsFiniteSet(Open(i)') /\ Cardinality(Open(i)') \in Nat
<1>1. Unasked(i)' \subseteq Senders /\ Open(i)' \subseteq Senders /\ IsFiniteSet(Senders)
  BY Staffing DEF Unasked, Open
<1> QED BY <1>1, FS_Subset, FS_CardinalityType

(* The fields of a row and of what a handler knows. *)
LEMMA RowFields ==
  ASSUME OutboxTypeOK, NEW i \in DOMAIN outbox
  PROVE  /\ i \in Rows /\ i \in Nat /\ i # 0 /\ i <= Len(outbox) /\ outbox[i] \in Row
         /\ tries[i] \in Nat /\ accepted[i] \in Nat /\ spare[i] \in Nat
         /\ outbox[i].attempts \in Nat /\ outbox[i].status \in Statuses
<1>1. Len(outbox) \in Nat /\ Len(outbox) <= MaxRows /\ DOMAIN outbox = 1 .. Len(outbox)
      /\ outbox[i] \in Row
  BY LenProperties, ElementOfSeq DEF OutboxTypeOK
<1>2. i \in Rows
  BY <1>1, OutboxBounds DEF Rows
<1> QED BY <1>1, <1>2 DEF OutboxTypeOK, Row

LEMMA SenderFields ==
  ASSUME OutboxTypeOK, NEW s \in Senders
  PROVE  /\ sending[s] \in Sending
         /\ sending[s].rows \in Seq(Rows \cup {0}) /\ sending[s].todo \in Seq(Told)
         /\ DOMAIN sending[s].rows = 1 .. Len(sending[s].rows)
         /\ Len(sending[s].rows) \in Nat
         /\ sending[s].n \in Nat \cup {None} /\ sending[s].was \in Statuses \cup {None}
         /\ sending[s].answer \in Outcomes \cup {None}
<1>1. sending[s] \in Sending
  BY DEF OutboxTypeOK
<1> QED BY <1>1, LenProperties DEF Sending

LEMMA CopyFields ==
  ASSUME OutboxTypeOK, NEW s \in Senders, NEW i
  PROVE  /\ At(s, i).n \in Nat \cup {None} /\ At(s, i).was \in Statuses \cup {None}
         /\ At(s, i).answer \in Outcomes \cup {None}
         /\ At(s, i) # Idle => Holds(s, i)
<1>1. At(s, i) # Idle => Holds(s, i)
  <2> SUFFICES ASSUME sending[s].rows # <<>>, Head(sending[s].rows) = i PROVE Holds(s, i)
    BY DEF At
  <2>1. Len(sending[s].rows) \in Nat \ {0}
    BY SenderFields, EmptySeq
  <2>2. 1 \in DOMAIN sending[s].rows /\ sending[s].rows[1] = i
    BY <2>1, SenderFields
  <2> QED BY <2>2 DEF Holds
<1> QED BY <1>1, SenderFields DEF At, Idle
-----------------------------------------------------------------------------
(* What can happen to a row.  Nothing, but that it gets more to spare. *)
LEMMA RowIsLeft ==
  ASSUME IInv, NEW i \in DOMAIN outbox, outbox'[i] = outbox[i],
         tries'[i] = tries[i], accepted'[i] = accepted[i],
         spare'[i] \in Nat, spare'[i] >= spare[i],
         \A s \in Senders : (Holds(s, i)' <=> Holds(s, i)) /\ At(s, i)' = At(s, i)
  PROVE  RowOK(i)'
<1>1. RowOK(i) /\ OutboxTypeOK
  BY DEF IInv
<1>2. /\ Holders(i)' = Holders(i) /\ Unasked(i)' = Unasked(i) /\ Open(i)' = Open(i)
      /\ (Unsettled(i)' <=> Unsettled(i))
  BY DEF Holders, Unasked, Open, Called, Arrived, Unsettled
<1>3. Spent(i)' = Spent(i) /\ Reached(i)' = Reached(i)
  BY <1>2 DEF Spent, Reached
<1>4. Spent(i) \in Nat /\ Reached(i) \in Nat
  BY <1>1, RowFields, CountsAreNumbers DEF Spent, Reached
<1>5. ASSUME NEW s \in Senders PROVE CopyOK(s, i)'
  <2>1. CopyOK(s, i) /\ At(s, i)' = At(s, i)
    BY <1>1 DEF RowOK
  <2> QED BY <2>1, <1>1, <1>2, <1>3, <1>4, RowFields, CopyFields
          DEF CopyOK, Called, Arrived, Outcome
<1>6. /\ MAX_ATTEMPTS \in Nat /\ accepted[i] \in Nat /\ spare[i] \in Nat
      /\ outbox[i].attempts \in Nat /\ outbox'[i].attempts = outbox[i].attempts
  BY <1>1, OutboxBounds, RowFields
<1>7. /\ Reached(i)' <= 1 + spare'[i] /\ Spent(i)' <= MAX_ATTEMPTS + spare'[i]
      /\ Unsettled(i)' /\ Holders(i)' = {} => accepted'[i] <= spare'[i]
      /\ Spent(i)' <= outbox'[i].attempts + spare'[i] + IF Holders(i)' = {} THEN 0 ELSE 1
  BY <1>1, <1>2, <1>3, <1>4, <1>6 DEF RowOK
<1>8. spare'[i] = 0 => spare[i] = 0
  BY <1>6
<1> QED BY <1>1, <1>2, <1>5, <1>7, <1>8 DEF RowOK

(* The others who may have it are left alone. *)
OthersLeft(s, i) ==
  \A t \in Senders \ {s} : (Holds(t, i)' <=> Holds(t, i)) /\ At(t, i)' = At(t, i)

(* It is taken up; that is paid for if somebody else has it. *)
LEMMA RowIsTaken ==
  ASSUME IInv, NEW i \in DOMAIN outbox, NEW s \in Senders, OthersLeft(s, i),
         Unsettled(i), outbox[i].attempts < MAX_ATTEMPTS,
         ~Holds(s, i), Holds(s, i)',
         At(s, i)' \in {Idle, [n |-> outbox[i].attempts, was |-> outbox[i].status,
                               answer |-> None]},
         outbox'[i] = outbox[i], tries'[i] = tries[i], accepted'[i] = accepted[i],
         spare'[i] = IF Holders(i) = {} THEN spare[i] ELSE spare[i] + 1
  PROVE  RowOK(i)'
<1>1. RowOK(i) /\ OutboxTypeOK
  BY DEF IInv
<1>2. ~Called(s, i)' /\ ~Arrived(s, i)'
  BY NoneAssumption DEF Called, Arrived, Idle, Outcomes
<1>3. /\ Holders(i)' = Holders(i) \cup {s} /\ Unasked(i)' = Unasked(i) \cup {s}
      /\ Open(i)' = Open(i) \cup {s} /\ s \notin Unasked(i) /\ s \notin Open(i)
      /\ s \notin Holders(i)
      /\ Unsettled(i)'
  BY <1>2 DEF OthersLeft, Holders, Unasked, Open, Called, Arrived, Unsettled
<1>4. Spent(i)' = Spent(i) + 1 /\ Reached(i)' = Reached(i) + 1
      /\ Spent(i) \in Nat /\ Reached(i) \in Nat
  <2>1. Cardinality(Unasked(i)') = Cardinality(Unasked(i)) + 1
    <3>1. Cardinality(Unasked(i) \cup {s}) = Cardinality(Unasked(i)) + 1
      BY <1>3, CountsAreNumbers, FS_AddElement
    <3> QED BY <1>3, <3>1
  <2>2. Cardinality(Open(i)') = Cardinality(Open(i)) + 1
    <3>1. Cardinality(Open(i) \cup {s}) = Cardinality(Open(i)) + 1
      BY <1>3, CountsAreNumbers, FS_AddElement
    <3> QED BY <1>3, <3>1
  <2>3. /\ tries[i] \in Nat /\ accepted[i] \in Nat
        /\ Cardinality(Unasked(i)) \in Nat /\ Cardinality(Open(i)) \in Nat
    BY <1>1, RowFields, CountsAreNumbers
  <2>4. Spent(i)' = Spent(i) + 1 /\ Spent(i) \in Nat
    BY <2>1, <2>3 DEF Spent
  <2>5. Reached(i)' = Reached(i) + 1 /\ Reached(i) \in Nat
    BY <2>2, <2>3 DEF Reached
  <2> QED BY <2>4, <2>5
<1>5. /\ MAX_ATTEMPTS \in Nat /\ tries[i] \in Nat /\ accepted[i] \in Nat /\ spare[i] \in Nat
      /\ outbox[i].attempts \in Nat
  BY <1>1, OutboxBounds, RowFields
<1>6. Holders(i) = {} => Reached(i) = accepted[i]
  <2>1. Open(i) \subseteq Holders(i)
    BY DEF Open, Holders
  <2>2. Cardinality({}) = 0
    BY FS_EmptySet
  <2>3. Holders(i) = {} => Cardinality(Open(i)) = 0
    <3>1. Holders(i) = {} => Open(i) = {}
      BY <2>1
    <3> QED BY <2>2, <3>1
  <2> QED BY <1>5, <2>3 DEF Reached
<1>7. /\ Reached(i)' <= 1 + spare'[i]
      /\ Spent(i)' <= outbox[i].attempts + 1 + spare'[i]
      /\ Spent(i)' <= MAX_ATTEMPTS + spare'[i]
  <2>1. CASE Holders(i) = {}
    BY <2>1, <1>1, <1>4, <1>5, <1>6 DEF RowOK
  <2>2. CASE Holders(i) # {}
    BY <2>2, <1>1, <1>4, <1>5 DEF RowOK
  <2> QED BY <2>1, <2>2
<1>8. ASSUME NEW t \in Senders PROVE CopyOK(t, i)'
  <2>1. CASE t = s
    <3>1. At(s, i)'.n # None => /\ At(s, i)'.n = outbox[i].attempts
                                /\ At(s, i)'.was = outbox[i].status
      BY DEF Idle
    <3> QED BY <2>1, <3>1, <1>2, <1>7 DEF CopyOK, Unsettled
  <2>2. CASE t # s
    <3>1. At(t, i)' = At(t, i) /\ CopyOK(t, i)
      BY <2>2, <1>1 DEF OthersLeft, RowOK
    <3>2. CASE At(t, i) = Idle
      BY <3>1, <3>2, NoneAssumption DEF CopyOK, Called, Arrived, Idle, Outcomes
    <3>3. CASE At(t, i) # Idle
      <4>1. t \in Holders(i)
        BY <3>3, <1>1, CopyFields DEF Holders
      <4>2. spare'[i] = spare[i] + 1
        BY <4>1
      <4> QED BY <4>2, <3>1, <1>1, <1>3, <1>4, <1>5, CopyFields
              DEF CopyOK, Called, Arrived, Outcome
    <3> QED BY <3>2, <3>3
  <2> QED BY <2>1, <2>2
<1>9. spare'[i] = 0 => Holders(i) = {}
  BY <1>5
<1> QED BY <1>3, <1>5, <1>7, <1>8, <1>9 DEF RowOK

(* Meta is asked for it. *)
LEMMA RowIsCalled ==
  ASSUME IInv, NEW i \in DOMAIN outbox, NEW s \in Senders, OthersLeft(s, i),
         NEW answer \in Outcomes, Holds(s, i), Holds(s, i)', ~Called(s, i),
         At(s, i)' = [n |-> (IF At(s, i).n = None THEN outbox[i].attempts ELSE At(s, i).n) + 1,
                      was |-> IF At(s, i).n = None THEN outbox[i].status ELSE At(s, i).was,
                      answer |-> answer],
         outbox'[i] = outbox[i], tries'[i] = tries[i] + 1, spare'[i] = spare[i],
         accepted'[i] = IF answer \in {"ACCEPTED", "LOST"} THEN accepted[i] + 1 ELSE accepted[i]
  PROVE  RowOK(i)'
<1>1. RowOK(i) /\ OutboxTypeOK /\ CopyOK(s, i)
  BY DEF IInv, RowOK
<1>2. Called(s, i)' /\ ~Arrived(s, i) /\ (Arrived(s, i)' <=> answer \in {"ACCEPTED", "LOST"})
  BY NoneAssumption DEF Called, Arrived, Outcomes
<1>3. /\ Holders(i)' = Holders(i) /\ Unasked(i)' = Unasked(i) \ {s} /\ s \in Unasked(i)
      /\ Open(i)' = (IF answer \in {"ACCEPTED", "LOST"} THEN Open(i) \ {s} ELSE Open(i))
      /\ s \in Open(i) /\ (Unsettled(i)' <=> Unsettled(i)) /\ Holders(i) # {}
  BY <1>2 DEF OthersLeft, Holders, Unasked, Open, Called, Arrived, Unsettled
<1>4. /\ tries[i] \in Nat /\ accepted[i] \in Nat /\ spare[i] \in Nat
      /\ outbox[i].attempts \in Nat /\ MAX_ATTEMPTS \in Nat
  BY <1>1, OutboxBounds, RowFields
<1>5. Spent(i)' = Spent(i) /\ Reached(i)' = Reached(i)
      /\ Spent(i) \in Nat /\ Reached(i) \in Nat
  <2>0. IsFiniteSet(Unasked(i)) /\ IsFiniteSet(Open(i)) /\ s \in Unasked(i) /\ s \in Open(i)
    BY <1>3, CountsAreNumbers
  <2>a. Cardinality(Unasked(i) \ {s}) = Cardinality(Unasked(i)) - 1
    BY <2>0, FS_RemoveElement
  <2>b. Cardinality(Open(i) \ {s}) = Cardinality(Open(i)) - 1
    BY <2>0, FS_RemoveElement
  <2>1. Cardinality(Unasked(i)') = Cardinality(Unasked(i)) - 1
    BY <1>3, <2>a
  <2>2. Cardinality(Open(i)') = IF answer \in {"ACCEPTED", "LOST"}
                                THEN Cardinality(Open(i)) - 1 ELSE Cardinality(Open(i))
    BY <1>3, <2>b
  <2> QED BY <1>4, <2>1, <2>2, CountsAreNumbers, CountsAreNumbersNext DEF Spent, Reached
<1>6. CopyOK(s, i)'
  <2>1. At(s, i).n # None => At(s, i).n \in Nat /\ At(s, i).was \in {"FAILED", "PENDING"}
                             /\ Spent(i) <= At(s, i).n + 1 + spare[i]
    BY <1>1, CopyFields DEF CopyOK
  <2>2. Spent(i) <= outbox[i].attempts + spare[i] + 1
    BY <1>1, <1>3 DEF RowOK
  <2>3. At(s, i)'.n \in Nat /\ Spent(i)' <= At(s, i)'.n + spare'[i]
    BY <1>4, <1>5, <2>1, <2>2
  <2>4. Arrived(s, i)' /\ Unsettled(i)' => At(s, i)'.was # Outcome(answer)
    BY <1>2, <1>3, <2>1 DEF Outcome, Unsettled
  <2>5. At(s, i)'.n # None /\ At(s, i)'.answer = answer
    BY <2>3, NoneAssumption
  <2> QED BY <1>2, <2>3, <2>4, <2>5 DEF CopyOK
<1>7. ASSUME NEW t \in Senders PROVE CopyOK(t, i)'
  <2>1. CASE t # s
    <3>1. At(t, i)' = At(t, i) /\ CopyOK(t, i)
      BY <2>1, <1>1 DEF OthersLeft, RowOK
    <3> QED BY <3>1, <1>3, <1>5 DEF CopyOK, Called, Arrived
  <2> QED BY <1>6, <2>1
<1> QED BY <1>1, <1>3, <1>4, <1>5, <1>7 DEF RowOK

(* A handler lets go of it, and what came of a call is lost. *)
LEMMA RowIsDropped ==
  ASSUME IInv, NEW i \in DOMAIN outbox, NEW s \in Senders, OthersLeft(s, i),
         Holds(s, i), ~Holds(s, i)', At(s, i)' = Idle,
         outbox'[i] = outbox[i], tries'[i] = tries[i], accepted'[i] = accepted[i],
         spare'[i] = IF Called(s, i) THEN spare[i] + 1 ELSE spare[i]
  PROVE  RowOK(i)'
<1>1. RowOK(i) /\ OutboxTypeOK
  BY DEF IInv
<1>2. ~Called(s, i)' /\ ~Arrived(s, i)' /\ (Arrived(s, i) => Called(s, i))
  BY NoneAssumption DEF Called, Arrived, Idle, Outcomes
<1>3. /\ Holders(i)' = Holders(i) \ {s} /\ Unasked(i)' = Unasked(i) \ {s}
      /\ Open(i)' = Open(i) \ {s} /\ s \in Holders(i)
      /\ (s \in Unasked(i) <=> ~Called(s, i)) /\ (s \in Open(i) <=> ~Arrived(s, i))
      /\ (Unsettled(i)' <=> Unsettled(i))
  BY <1>2 DEF OthersLeft, Holders, Unasked, Open, Called, Arrived, Unsettled
<1>4. /\ tries[i] \in Nat /\ accepted[i] \in Nat /\ spare[i] \in Nat
      /\ outbox[i].attempts \in Nat /\ MAX_ATTEMPTS \in Nat
  BY <1>1, OutboxBounds, RowFields
<1>5. /\ Spent(i)' = IF Called(s, i) THEN Spent(i) ELSE Spent(i) - 1
      /\ Reached(i)' = IF Arrived(s, i) THEN Reached(i) ELSE Reached(i) - 1
      /\ Spent(i) \in Nat /\ Reached(i) \in Nat /\ Reached(i)' >= accepted[i]
  <2>0. IsFiniteSet(Unasked(i)) /\ IsFiniteSet(Open(i))
    BY CountsAreNumbers
  <2>a. s \in Unasked(i) => Cardinality(Unasked(i) \ {s}) = Cardinality(Unasked(i)) - 1
    BY <2>0, FS_RemoveElement
  <2>b. s \in Open(i) => Cardinality(Open(i) \ {s}) = Cardinality(Open(i)) - 1
    BY <2>0, FS_RemoveElement
  <2>c. /\ Called(s, i) => Unasked(i) \ {s} = Unasked(i)
        /\ Arrived(s, i) => Open(i) \ {s} = Open(i)
    BY <1>3
  <2>1. Cardinality(Unasked(i)') = IF Called(s, i) THEN Cardinality(Unasked(i))
                                   ELSE Cardinality(Unasked(i)) - 1
    BY <1>3, <2>a, <2>c
  <2>2. Cardinality(Open(i)') = IF Arrived(s, i) THEN Cardinality(Open(i))
                                ELSE Cardinality(Open(i)) - 1
    BY <1>3, <2>b, <2>c
  <2> QED BY <1>4, <2>1, <2>2, CountsAreNumbers, CountsAreNumbersNext DEF Spent, Reached
<1>6. Reached(i)' <= spare'[i] /\ Spent(i)' <= outbox[i].attempts + spare'[i]
      /\ Spent(i)' <= MAX_ATTEMPTS + spare'[i]
  <2>1. CASE Called(s, i)
    BY <2>1, <1>1, <1>3, <1>4, <1>5 DEF RowOK
  <2>2. CASE ~Called(s, i)
    BY <2>2, <1>1, <1>2, <1>3, <1>4, <1>5 DEF RowOK
  <2> QED BY <2>1, <2>2
<1>7. ASSUME NEW t \in Senders PROVE CopyOK(t, i)'
  <2>1. CASE t = s
    BY <2>1, <1>2 DEF CopyOK, Idle
  <2>2. CASE t # s
    <3>1. At(t, i)' = At(t, i) /\ CopyOK(t, i)
      BY <2>2, <1>1 DEF OthersLeft, RowOK
    <3>2. At(t, i).n \in Nat \cup {None} /\ spare'[i] >= spare[i] /\ Spent(i)' <= Spent(i)
          /\ Spent(i)' \in Int /\ spare'[i] \in Nat
      BY <1>1, <1>4, <1>5, CopyFields
    <3>3. Called(t, i) => At(t, i).n # None /\ Spent(i) <= At(t, i).n + spare[i]
      BY <3>1 DEF CopyOK
    <3>4. At(t, i).n # None /\ ~Called(t, i) => /\ At(t, i).was \in {"FAILED", "PENDING"}
                                               /\ Spent(i) <= At(t, i).n + 1 + spare[i]
      BY <3>1 DEF CopyOK
    <3> QED BY <3>1, <3>2, <3>3, <3>4, <1>4, <1>5, <1>6 DEF CopyOK, Called, Arrived
  <2> QED BY <2>1, <2>2
<1>8. spare'[i] = 0 => spare[i] = 0
  BY <1>4
<1>9. Spent(i)' \in Int /\ Reached(i)' \in Int /\ spare'[i] \in Nat
  BY <1>4, <1>5
<1> QED BY <1>1, <1>3, <1>4, <1>5, <1>6, <1>7, <1>8, <1>9 DEF RowOK

(* What came of a call is written, the status if it is not what was read. *)
LEMMA RowIsSettled ==
  ASSUME IInv, NEW i \in DOMAIN outbox, NEW s \in Senders, OthersLeft(s, i),
         Holds(s, i), ~Holds(s, i)', At(s, i)' = Idle, Called(s, i),
         tries'[i] = tries[i], accepted'[i] = accepted[i], spare'[i] = spare[i],
         outbox'[i].attempts = At(s, i).n,
         outbox'[i].status = IF Outcome(At(s, i).answer) = At(s, i).was
                             THEN outbox[i].status ELSE Outcome(At(s, i).answer)
  PROVE  RowOK(i)'
<1>1. RowOK(i) /\ OutboxTypeOK /\ CopyOK(s, i)
  BY DEF IInv, RowOK
<1>2. ~Called(s, i)' /\ ~Arrived(s, i)'
  BY NoneAssumption DEF Called, Arrived, Idle, Outcomes
<1>3. /\ Holders(i)' = Holders(i) \ {s} /\ Unasked(i)' = Unasked(i)
      /\ Open(i)' = Open(i) \ {s} /\ s \in Holders(i) /\ (s \in Open(i) <=> ~Arrived(s, i))
  BY <1>2 DEF OthersLeft, Holders, Unasked, Open, Called, Arrived
<1>4. /\ tries[i] \in Nat /\ accepted[i] \in Nat /\ spare[i] \in Nat
      /\ At(s, i).n \in Nat /\ MAX_ATTEMPTS \in Nat
  BY <1>1, OutboxBounds, RowFields, CopyFields DEF CopyOK
<1>5. /\ Spent(i)' = Spent(i) /\ Spent(i) \in Nat
      /\ Reached(i)' = IF Arrived(s, i) THEN Reached(i) ELSE Reached(i) - 1
      /\ Reached(i) \in Nat /\ Reached(i)' >= accepted[i]
  <2>1. Cardinality(Open(i)') = IF Arrived(s, i) THEN Cardinality(Open(i))
                                ELSE Cardinality(Open(i)) - 1
    <3>1. CASE Arrived(s, i)
      <4>1. s \notin Open(i) /\ Open(i)' = Open(i)
        BY <1>3, <3>1
      <4> QED BY <4>1, <3>1
    <3>2. CASE ~Arrived(s, i)
      <4>1. IsFiniteSet(Open(i)) /\ s \in Open(i) /\ Open(i)' = Open(i) \ {s}
        BY <1>3, <3>2, CountsAreNumbers
      <4>2. Cardinality(Open(i) \ {s}) = Cardinality(Open(i)) - 1
        BY <4>1, FS_RemoveElement
      <4> QED BY <4>1, <4>2, <3>2
    <3> QED BY <3>1, <3>2
  <2>2. Spent(i)' = Spent(i)
    BY <1>3 DEF Spent
  <2> QED BY <1>4, <2>1, <2>2, CountsAreNumbers, CountsAreNumbersNext DEF Spent, Reached
<1>6. Spent(i) <= At(s, i).n + spare[i] /\ Spent(i) <= MAX_ATTEMPTS + spare[i]
      /\ Reached(i) <= 1 + spare[i]
  BY <1>1 DEF RowOK, CopyOK
(* If it can be retried, either the call failed, or it could before. *)
<1>7. Unsettled(i)' => Reached(i)' <= spare[i]
  <2> SUFFICES ASSUME Unsettled(i)' PROVE Reached(i)' <= spare[i]
    OBVIOUS
  <2>1. CASE Arrived(s, i)
    <3>1. Outcome(At(s, i).answer) \in {"SENT", "SKIPPED"}
      BY <2>1 DEF Arrived, Outcome
    <3>2. At(s, i).was = Outcome(At(s, i).answer) /\ Unsettled(i)
      BY <3>1 DEF Unsettled
    <3> QED BY <2>1, <3>2, <1>1, <1>5 DEF CopyOK
  <2>2. CASE ~Arrived(s, i)
    BY <2>2, <1>4, <1>5, <1>6
  <2> QED BY <2>1, <2>2
<1>8. ASSUME NEW t \in Senders PROVE CopyOK(t, i)'
  <2>1. CASE t = s
    BY <2>1, <1>2 DEF CopyOK, Idle
  <2>2. CASE t # s
    <3>1. At(t, i)' = At(t, i) /\ CopyOK(t, i)
      BY <2>2, <1>1 DEF OthersLeft, RowOK
    <3> QED BY <3>1, <1>5, <1>7 DEF CopyOK, Called, Arrived
  <2> QED BY <2>1, <2>2
<1>9. Reached(i)' <= 1 + spare[i]
  BY <1>4, <1>5, <1>6
<1>10. Spent(i)' <= outbox'[i].attempts + spare'[i] + IF Holders(i)' = {} THEN 0 ELSE 1
  BY <1>4, <1>5, <1>6
<1>11. spare[i] = 0 => Holders(i)' = {}
  BY <1>1, <1>3 DEF RowOK
<1>12. Unsettled(i)' => accepted'[i] <= spare'[i]
  BY <1>4, <1>5, <1>7
<1> QED BY <1>5, <1>6, <1>8, <1>9, <1>10, <1>11, <1>12 DEF RowOK
-----------------------------------------------------------------------------
(* What a handler's step leaves alone. *)
LEMMA OthersAreLeft ==
  ASSUME OutboxTypeOK, NEW s \in Senders, NEW h, sending' = [sending EXCEPT ![s] = h]
  PROVE  /\ sending'[s] = h /\ \A i : OthersLeft(s, i)
         /\ \A t \in Senders \ {s} : sending'[t] = sending[t]
<1>1. sending'[s] = h /\ \A t \in Senders \ {s} : sending'[t] = sending[t]
  BY DEF OutboxTypeOK
<1> QED BY <1>1 DEF OthersLeft, Holds, At

(* The row is the same to everybody. *)
Same(s, i) == (Holds(s, i)' <=> Holds(s, i)) /\ At(s, i)' = At(s, i)

LEMMA RefusalsStand ==
  ASSUME IInv, NEW s \in Senders, refused' = refused, DOMAIN outbox \subseteq DOMAIN outbox',
         \A i \in DOMAIN outbox :
           /\ OthersLeft(s, i)
           /\ outbox[i].status = "SKIPPED" /\ Holders(i) = {} =>
                /\ outbox'[i] = outbox[i] /\ tries'[i] = tries[i] /\ ~Holds(s, i)'
  PROVE  Refusals'
<1> SUFFICES ASSUME NEW i \in refused
             PROVE  /\ i \in DOMAIN outbox' /\ outbox'[i].status = "SKIPPED"
                    /\ tries'[i] = 0 /\ Holders(i)' = {}
  BY DEF Refusals
<1>1. i \in DOMAIN outbox /\ outbox[i].status = "SKIPPED" /\ tries[i] = 0 /\ Holders(i) = {}
  BY DEF IInv, Refusals
<1>2. /\ OthersLeft(s, i) /\ ~Holds(s, i)'
      /\ outbox'[i] = outbox[i] /\ tries'[i] = tries[i]
  BY <1>1
<1> QED BY <1>1, <1>2 DEF OthersLeft, Holders

(* A step of one handler, put together. *)
LEMMA StepIsSound ==
  ASSUME IInv, NEW s \in Senders, NEW h \in Sending, sending' = [sending EXCEPT ![s] = h],
         consent' = consent, outbox' \in Seq(Row), Len(outbox') <= MaxRows,
         Len(outbox) <= Len(outbox'),
         tries' \in [Rows -> Nat], accepted' \in [Rows -> Nat], spare' \in [Rows -> Nat],
         refused' \subseteq Rows, cut' \subseteq Rows,
         HandlerOK(s)', Unwritten', Refusals', \A i \in DOMAIN outbox' : RowOK(i)'
  PROVE  IInv'
<1>1. OutboxTypeOK'
  BY DEF IInv, OutboxTypeOK
<1>2. ASSUME NEW t \in Senders \ {s} PROVE HandlerOK(t)'
  <2>1. HandlerOK(t) /\ sending'[t] = sending[t] /\ OutboxTypeOK
    BY DEF IInv, OutboxTypeOK
  <2>2. Len(outbox) \in Nat /\ Len(outbox') \in Nat
    BY <2>1, LenProperties DEF OutboxTypeOK
  <2>3. ASSUME NEW k \in DOMAIN sending[t].rows PROVE sending[t].rows[k] \in Nat
    <3>1. sending[t].rows[k] \in Rows \cup {0}
      BY <2>1, SenderFields, ElementOfSeq
    <3> QED BY <3>1, OutboxBounds DEF Rows
  <2> QED BY <2>1, <2>2, <2>3 DEF HandlerOK
<1> QED BY <1>1, <1>2 DEF IInv

(* A step that has to do with no row, that somebody has or not. *)
LEMMA NoRowIsSent ==
  ASSUME IInv, NEW s \in Senders, NEW h \in Sending, sending' = [sending EXCEPT ![s] = h],
         UNCHANGED <<consent, outbox, tries, accepted, spare, refused, cut>>,
         HandlerOK(s)', \A i \in DOMAIN outbox : Same(s, i)
  PROVE  IInv'
<1>1. OutboxTypeOK /\ Unwritten' /\ DOMAIN outbox' = DOMAIN outbox
  BY DEF IInv, Unwritten
<1>2. ASSUME NEW i \in DOMAIN outbox PROVE RowOK(i)'
  <2>1. \A t \in Senders : Same(t, i)
    BY <1>1, OthersAreLeft DEF OthersLeft, Same
  <2>2. spare'[i] \in Nat /\ spare'[i] >= spare[i]
    BY <1>1, RowFields
  <2> QED BY <2>1, <2>2, RowIsLeft DEF Same
<1>3. Refusals'
  BY <1>1, OthersAreLeft, RefusalsStand DEF Holders, Same
<1>4. Len(outbox) <= Len(outbox')
  BY <1>1, LenProperties DEF OutboxTypeOK
<1>5. /\ outbox' \in Seq(Row) /\ Len(outbox') <= MaxRows /\ refused' \subseteq Rows
      /\ tries' \in [Rows -> Nat] /\ accepted' \in [Rows -> Nat] /\ spare' \in [Rows -> Nat]
      /\ cut' \subseteq Rows /\ consent' = consent
  BY <1>1 DEF OutboxTypeOK
<1>6. \A i \in DOMAIN outbox' : RowOK(i)'
  BY <1>1, <1>2
<1> QED BY <1>1, <1>3, <1>4, <1>5, <1>6, StepIsSound
-----------------------------------------------------------------------------
(* Who is told. *)
LEMMA SequenceOfASet ==
  ASSUME NEW S, IsFiniteSet(S)
  PROVE  SetToSeq(S) \in Seq(S)
<1>1. Cardinality(S) \in Nat /\ ExistsBijection(1 .. Cardinality(S), S)
  BY FS_CardinalityType
<1>2. \E f \in [1 .. Cardinality(S) -> S] : IsInjective(f)
  BY <1>1 DEF ExistsBijection, Bijection, Injection
<1>3. SetToSeq(S) \in [1 .. Cardinality(S) -> S]
  BY <1>2 DEF SetToSeq
<1> QED BY <1>1, <1>3

LEMMA RecipientsAreTold ==
  ASSUME OutboxTypeOK, NEW n \in Notices
  PROVE  Recipients(n) \in Seq(Told)
<1>1. ASSUME NEW p \in {Customer, Baker, Rider} PROVE Tell(p) \in Seq(Told)
  <2>1. [to |-> p, may |-> may_message(p)] \in Told
    BY NoneAssumption DEF OutboxTypeOK, People, may_message, Told
  <2> QED BY <2>1 DEF Tell
<1>2. TheAdmins \in Seq(Told)
  <2>1. [to |-> None, may |-> TRUE] \in Told
    BY DEF Told
  <2> QED BY <2>1 DEF TheAdmins
<1>3. ASSUME NEW c, NEW list \in Seq(Told) PROVE When(c, list) \in Seq(Told)
  BY DEF When
<1> DEFINE a == When(n.event \in ToCustomer, Tell(Customer))
           b == When(TellsBaker(n), Tell(Baker))
           c == When(TellsRider(n), Tell(Rider))
           d == When(n.event \in ToAdmins, TheAdmins)
<1>4. a \in Seq(Told) /\ b \in Seq(Told) /\ c \in Seq(Told) /\ d \in Seq(Told)
  BY <1>1, <1>2, <1>3
<1>5. Recipients(n) = a \o b \o c \o d
  BY DEF Recipients
<1> HIDE DEF a, b, c, d
<1> QED BY <1>4, <1>5, ConcatProperties

LEMMA DispatchIsSound ==
  ASSUME IInv, NEW s \in Senders, NEW n \in Notices, Dispatch(s, n)
  PROVE  IInv'
<1> DEFINE h == [sending[s] EXCEPT !.todo = Recipients(n)]
<1>1. OutboxTypeOK /\ HandlerOK(s) /\ sending[s] \in Sending
  BY DEF IInv, OutboxTypeOK
<1>2. h \in Sending
  BY <1>1, RecipientsAreTold DEF Sending
<1>3. sending' = [sending EXCEPT ![s] = h]
      /\ UNCHANGED <<consent, outbox, tries, accepted, spare, refused, cut>>
  BY DEF Dispatch, histories
<1>4. /\ h.rows = sending[s].rows /\ h.n = sending[s].n /\ h.was = sending[s].was
      /\ h.answer = sending[s].answer
  BY <1>1 DEF Sending
<1> HIDE DEF h
<1>5. sending'[s] = h
  BY <1>1, <1>3, OthersAreLeft
<1>6. HandlerOK(s)' /\ \A i \in DOMAIN outbox : Same(s, i)
  BY <1>1, <1>3, <1>4, <1>5 DEF HandlerOK, Same, Holds, At
<1> QED BY <1>2, <1>3, <1>6, NoRowIsSent

LEMMA LookUpAdminsIsSound ==
  ASSUME IInv, NEW s \in Senders, LookUpAdmins(s)
  PROVE  IInv'
<1> DEFINE found == SetToSeq(consenting_admins)
           first == [i \in DOMAIN found |-> [to |-> found[i], may |-> TRUE]]
           list  == first \o Tail(sending[s].todo)
           h == [sending[s] EXCEPT !.todo = list]
<1>1. OutboxTypeOK /\ HandlerOK(s) /\ sending[s] \in Sending
  BY DEF IInv, OutboxTypeOK
<1>2. list \in Seq(Told)
  <2>1. consenting_admins \subseteq Admins /\ IsFiniteSet(consenting_admins)
    BY Staffing, FS_Subset DEF consenting_admins
  <2>2. found \in Seq(consenting_admins)
    BY <2>1, SequenceOfASet
  <2>3. Len(found) \in Nat /\ DOMAIN found = 1 .. Len(found)
        /\ \A i \in 1 .. Len(found) : found[i] \in Admins
    <3> HIDE DEF found
    <3> QED BY <2>1, <2>2, LenProperties, ElementOfSeq
  <2>4. first \in Seq(Told)
    <3>1. \A i \in 1 .. Len(found) : [to |-> found[i], may |-> TRUE] \in Told
      BY <2>3 DEF Told, People
    <3> QED BY <2>3, <3>1
  <2>5. Tail(sending[s].todo) \in Seq(Told)
    BY <1>1, SenderFields, HeadTailProperties DEF LookUpAdmins, Queueing
  <2> HIDE DEF first
  <2> QED BY <2>4, <2>5, ConcatProperties
<1>3. sending' = [sending EXCEPT ![s] = h]
      /\ UNCHANGED <<consent, outbox, tries, accepted, spare, refused, cut>>
  BY DEF LookUpAdmins, histories
<1> HIDE DEF list
<1>4. /\ h.rows = sending[s].rows /\ h.n = sending[s].n /\ h.was = sending[s].was
      /\ h.answer = sending[s].answer /\ h \in Sending
  BY <1>1, <1>2 DEF Sending
<1> HIDE DEF h
<1>5. sending'[s] = h
  BY <1>1, <1>3, OthersAreLeft
<1>6. HandlerOK(s)' /\ \A i \in DOMAIN outbox : Same(s, i)
  BY <1>1, <1>3, <1>4, <1>5 DEF HandlerOK, Same, Holds, At
<1> QED BY <1>3, <1>4, <1>6, NoRowIsSent

LEMMA QueueUnwrittenIsSound ==
  ASSUME IInv, NEW s \in Senders, QueueUnwritten(s)
  PROVE  IInv'
<1> DEFINE next == Head(sending[s].todo)
           r == IF next.may THEN <<0>> ELSE <<>>
           h == [sending[s] EXCEPT !.todo = Tail(sending[s].todo), !.rows = r]
<1>1. OutboxTypeOK /\ HandlerOK(s) /\ sending[s] \in Sending
  BY DEF IInv, OutboxTypeOK
<1>2. sending[s].rows = <<>> /\ sending[s].todo # <<>>
  BY DEF QueueUnwritten, Queueing
<1>3. sending' = [sending EXCEPT ![s] = h]
      /\ UNCHANGED <<consent, outbox, tries, accepted, spare, refused, cut>>
  BY DEF QueueUnwritten, histories
<1>4. Tail(sending[s].todo) \in Seq(Told)
  BY <1>1, <1>2, SenderFields, HeadTailProperties
<1>5. r \in Seq(Rows \cup {0}) /\ r \in {<<0>>, <<>>}
  <2>1. r = <<0>> \/ r = <<>>
    OBVIOUS
  <2>2. <<0>> \in Seq(Rows \cup {0}) /\ <<>> \in Seq(Rows \cup {0})
    OBVIOUS
  <2> QED BY <2>1, <2>2
<1> HIDE DEF r
<1>6. h.rows = r /\ h.n = None /\ h.was = None /\ h.answer = None /\ h \in Sending
  BY <1>1, <1>2, <1>4, <1>5 DEF Sending, HandlerOK
<1> HIDE DEF h
<1>7. sending'[s] = h
  BY <1>1, <1>3, OthersAreLeft
<1>8. HandlerOK(s)'
  <2>1. Len(outbox) \in Nat
    BY <1>1, LenProperties DEF OutboxTypeOK
  <2>2. CASE r = <<0>>
    BY <2>1, <2>2, <1>3, <1>6, <1>7 DEF HandlerOK
  <2>3. CASE r = <<>>
    BY <2>3, <1>6, <1>7 DEF HandlerOK
  <2> QED BY <2>2, <2>3, <1>5
<1>9. ASSUME NEW i \in DOMAIN outbox PROVE Same(s, i)
  <2>1. i # 0
    BY <1>1, RowFields
  <2>2. ~Holds(s, i) /\ At(s, i) = Idle
    BY <1>2 DEF Holds, At
  <2>3. ~Holds(s, i)' /\ At(s, i)' = Idle
    <3>1. CASE r = <<0>>
      BY <3>1, <2>1, <1>6, <1>7 DEF Holds, At
    <3>2. CASE r = <<>>
      BY <3>2, <1>6, <1>7 DEF Holds, At
    <3> QED BY <3>1, <3>2, <1>5
  <2> QED BY <2>2, <2>3 DEF Same
<1> QED BY <1>3, <1>6, <1>8, <1>9, NoRowIsSent
-----------------------------------------------------------------------------
(* A row is written. *)
LEMMA RowIsWritten ==
  ASSUME IInv, Len(outbox) < MaxRows, NEW r \in Row, outbox' = Append(outbox, r)
  PROVE  /\ outbox' \in Seq(Row) /\ Len(outbox') = Len(outbox) + 1 /\ Len(outbox') <= MaxRows
         /\ Len(outbox) \in Nat /\ Len(outbox) + 1 \in Rows
         /\ DOMAIN outbox' = DOMAIN outbox \cup {Len(outbox) + 1}
         /\ Len(outbox) + 1 \notin DOMAIN outbox
         /\ outbox'[Len(outbox) + 1] = r /\ \A i \in DOMAIN outbox : outbox'[i] = outbox[i]
         /\ tries[Len(outbox) + 1] = 0 /\ accepted[Len(outbox) + 1] = 0
         /\ \A t \in Senders : ~Holds(t, Len(outbox) + 1)
<1>1. OutboxTypeOK /\ outbox \in Seq(Row)
  BY DEF IInv, OutboxTypeOK
<1>2. /\ outbox' \in Seq(Row) /\ Len(outbox') = Len(outbox) + 1 /\ outbox'[Len(outbox) + 1] = r
      /\ \A i \in 1 .. Len(outbox) : outbox'[i] = outbox[i]
  BY <1>1, AppendProperties
<1>3. Len(outbox) \in Nat /\ DOMAIN outbox = 1 .. Len(outbox)
      /\ DOMAIN outbox' = 1 .. Len(outbox) + 1
  BY <1>1, <1>2, LenProperties
<1>4. Len(outbox) + 1 \in Rows /\ Len(outbox) + 1 <= MaxRows
  BY <1>3, OutboxBounds DEF Rows
<1>5. tries[Len(outbox) + 1] = 0 /\ accepted[Len(outbox) + 1] = 0
  BY <1>3, <1>4 DEF IInv, Unwritten
<1>6. ASSUME NEW t \in Senders PROVE ~Holds(t, Len(outbox) + 1)
  <2>1. \A k \in DOMAIN sending[t].rows : sending[t].rows[k] <= Len(outbox)
    BY DEF IInv, HandlerOK
  <2> QED BY <2>1, <1>3 DEF Holds
<1> QED BY <1>2, <1>3, <1>4, <1>5, <1>6

LEMMA SkipIsSound ==
  ASSUME IInv, NEW s \in Senders, Skip(s)
  PROVE  IInv'
<1> DEFINE p == Head(sending[s].todo).to
           r == [to |-> p, status |-> "SKIPPED", attempts |-> 0]
           h == [sending[s] EXCEPT !.todo = Tail(sending[s].todo)]
<1>1. OutboxTypeOK /\ HandlerOK(s) /\ sending[s] \in Sending
  BY DEF IInv, OutboxTypeOK
<1>2. /\ sending[s].rows = <<>> /\ sending[s].todo # <<>> /\ Len(outbox) < MaxRows
      /\ outbox' = Append(outbox, r) /\ refused' = refused \cup {Len(outbox) + 1}
      /\ sending' = [sending EXCEPT ![s] = h]
      /\ UNCHANGED <<consent, tries, accepted, spare, cut>>
  BY DEF Skip, Queueing
<1>3. r \in Row /\ Tail(sending[s].todo) \in Seq(Told)
  <2>1. Head(sending[s].todo) \in Told /\ Tail(sending[s].todo) \in Seq(Told)
    BY <1>1, <1>2, SenderFields, HeadTailProperties
  <2> QED BY <2>1 DEF Told, Row, Statuses
<1> HIDE DEF r
<1>n. PICK new \in Rows : new = Len(outbox) + 1
  BY <1>2, <1>3, RowIsWritten
<1>4. /\ outbox' \in Seq(Row) /\ Len(outbox') = Len(outbox) + 1 /\ Len(outbox') <= MaxRows
      /\ Len(outbox) \in Nat /\ new \in Rows /\ DOMAIN outbox' = DOMAIN outbox \cup {new}
      /\ new \notin DOMAIN outbox /\ outbox'[new] = r
      /\ \A i \in DOMAIN outbox : outbox'[i] = outbox[i]
      /\ tries[new] = 0 /\ accepted[new] = 0 /\ \A t \in Senders : ~Holds(t, new)
      /\ refused' = refused \cup {new}
  BY <1>n, <1>2, <1>3, RowIsWritten
<1>5. /\ h.rows = sending[s].rows /\ h.n = sending[s].n /\ h.was = sending[s].was
      /\ h.answer = sending[s].answer /\ h \in Sending
  BY <1>1, <1>3 DEF Sending
<1> HIDE DEF h
<1>6. sending'[s] = h /\ (\A i : OthersLeft(s, i)) /\ \A i : Same(s, i)
  <2>1. sending'[s] = h /\ \A i : OthersLeft(s, i)
    BY <1>1, <1>2, OthersAreLeft
  <2>2. \A i : Same(s, i)
    BY <1>5, <2>1 DEF Same, Holds, At
  <2> QED BY <2>1, <2>2
<1>7. \A t \in Senders, i \in Rows : Same(t, i)
  BY <1>6 DEF OthersLeft, Same
<1>8. HandlerOK(s)'
  BY <1>2, <1>1, <1>5, <1>6 DEF HandlerOK
<1>9. r.status = "SKIPPED" /\ r.attempts = 0
  BY DEF r
<1>10. RowOK(new)'
  <2>1. /\ \A t \in Senders : ~Holds(t, new)' /\ At(t, new)' = Idle
        /\ Holders(new)' = {} /\ Unasked(new)' = {} /\ Open(new)' = {}
    <3>1. \A t \in Senders : ~Holds(t, new)' /\ At(t, new)' = At(t, new)
      BY <1>4, <1>7 DEF Same
    <3> QED BY <3>1, <1>1, <1>4, CopyFields DEF Holders, Unasked, Open
  <2>2. Spent(new)' = 0 /\ Reached(new)' = 0
    BY <2>1, <1>2, <1>4, FS_EmptySet DEF Spent, Reached
  <2>3. spare'[new] \in Nat /\ MAX_ATTEMPTS \in Nat
    BY <1>1, <1>2, <1>4, OutboxBounds DEF OutboxTypeOK
  <2>4. \A t \in Senders : CopyOK(t, new)'
    BY <2>1, NoneAssumption DEF CopyOK, Called, Arrived, Idle, Outcomes
  <2>5. outbox'[new].attempts = 0 /\ accepted'[new] = 0 /\ ~Unsettled(new)'
    BY <1>2, <1>4, <1>9 DEF Unsettled
  <2> QED BY <2>1, <2>2, <2>3, <2>4, <2>5 DEF RowOK
<1>11. ASSUME NEW i \in DOMAIN outbox PROVE RowOK(i)'
  <2>1. i \in Rows /\ spare'[i] \in Nat /\ spare'[i] >= spare[i]
    BY <1>1, <1>2, RowFields
  <2> QED BY <2>1, <1>2, <1>4, <1>7, RowIsLeft DEF Same
<1>12. \A i \in DOMAIN outbox' : RowOK(i)'
  BY <1>4, <1>10, <1>11
<1>13. Unwritten'
  BY <1>2, <1>4 DEF IInv, Unwritten
<1>14. Refusals'
  <2> SUFFICES ASSUME NEW i \in refused'
               PROVE  /\ i \in DOMAIN outbox' /\ outbox'[i].status = "SKIPPED"
                      /\ tries'[i] = 0 /\ Holders(i)' = {}
    BY DEF Refusals
  <2>1. CASE i \in refused
    <3>1. i \in DOMAIN outbox /\ outbox[i].status = "SKIPPED" /\ tries[i] = 0 /\ Holders(i) = {}
      BY <2>1 DEF IInv, Refusals
    <3>2. i \in Rows
      BY <3>1, <1>1, RowFields
    <3> QED BY <3>1, <3>2, <1>2, <1>4, <1>7 DEF Same, Holders
  <2>2. CASE i = new
    BY <2>2, <1>2, <1>4, <1>7, <1>9 DEF Same, Holders
  <2> QED BY <1>4, <2>1, <2>2
<1>15. refused' \subseteq Rows /\ Len(outbox) <= Len(outbox')
       /\ tries' \in [Rows -> Nat] /\ accepted' \in [Rows -> Nat] /\ spare' \in [Rows -> Nat]
       /\ cut' \subseteq Rows /\ consent' = consent
  BY <1>1, <1>2, <1>4 DEF OutboxTypeOK
<1> QED BY <1>2, <1>4, <1>5, <1>8, <1>12, <1>13, <1>14, <1>15, StepIsSound

LEMMA QueueIsSound ==
  ASSUME IInv, NEW s \in Senders, Queue(s)
  PROVE  IInv'
<1> DEFINE p == Head(sending[s].todo).to
           r == [to |-> p, status |-> "PENDING", attempts |-> 0]
           h == [sending[s] EXCEPT !.todo = Tail(sending[s].todo),
                                   !.rows = <<Len(outbox) + 1>>]
<1>1. OutboxTypeOK /\ HandlerOK(s) /\ sending[s] \in Sending
  BY DEF IInv, OutboxTypeOK
<1>2. /\ sending[s].rows = <<>> /\ sending[s].todo # <<>> /\ Len(outbox) < MaxRows
      /\ outbox' = Append(outbox, r) /\ sending' = [sending EXCEPT ![s] = h]
      /\ UNCHANGED <<consent, tries, accepted, spare, cut, refused>>
  BY DEF Queue, Queueing, histories
<1>3. r \in Row /\ Tail(sending[s].todo) \in Seq(Told)
  <2>1. Head(sending[s].todo) \in Told /\ Tail(sending[s].todo) \in Seq(Told)
    BY <1>1, <1>2, SenderFields, HeadTailProperties
  <2> QED BY <2>1 DEF Told, Row, Statuses
<1> HIDE DEF r
<1>n. PICK new \in Rows : new = Len(outbox) + 1
  BY <1>2, <1>3, RowIsWritten
<1>4. /\ outbox' \in Seq(Row) /\ Len(outbox') = new /\ Len(outbox') <= MaxRows
      /\ Len(outbox) \in Nat /\ new \in Rows /\ DOMAIN outbox' = DOMAIN outbox \cup {new}
      /\ new \notin DOMAIN outbox /\ outbox'[new] = r
      /\ \A i \in DOMAIN outbox : outbox'[i] = outbox[i]
      /\ tries[new] = 0 /\ accepted[new] = 0 /\ \A t \in Senders : ~Holds(t, new)
  BY <1>n, <1>2, <1>3, RowIsWritten
<1>5. /\ h.rows = <<new>> /\ h.n = None /\ h.was = None /\ h.answer = None /\ h \in Sending
  <2>1. <<new>> \in Seq(Rows \cup {0})
    OBVIOUS
  <2> QED BY <2>1, <1>n, <1>1, <1>2, <1>3 DEF Sending, HandlerOK
<1> HIDE DEF h
<1>6. sending'[s] = h /\ (\A i : OthersLeft(s, i))
  BY <1>1, <1>2, OthersAreLeft
<1>7. \A i \in Rows : (Holds(s, i)' <=> i = new) /\ At(s, i)' = Idle
  BY <1>5, <1>6 DEF Holds, At, Idle
<1>8. \A i \in Rows : ~Holds(s, i) /\ At(s, i) = Idle
  BY <1>2 DEF Holds, At
<1>9. HandlerOK(s)'
  BY <1>4, <1>5, <1>6, OutboxBounds DEF HandlerOK, Rows
<1>10. r.status = "PENDING" /\ r.attempts = 0
  BY DEF r
<1>11. RowOK(new)'
  <2>1. /\ \A t \in Senders : At(t, new)' = Idle
        /\ Holders(new)' = {s} /\ Unasked(new)' = {s} /\ Open(new)' = {s}
    <3>1. \A t \in Senders \ {s} : ~Holds(t, new)' /\ At(t, new)' = At(t, new)
      BY <1>4, <1>6 DEF OthersLeft
    <3>2. \A t \in Senders : At(t, new)' = Idle
      BY <3>1, <1>1, <1>4, <1>7, CopyFields
    <3>3. \A t \in Senders : Holds(t, new)' <=> t = s
      BY <3>1, <1>7
    <3> QED BY <3>2, <3>3, NoneAssumption
            DEF Holders, Unasked, Open, Called, Arrived, Idle, Outcomes
  <2>2. Spent(new)' = 1 /\ Reached(new)' = 1
    <3>1. Cardinality({s}) = 1
      BY FS_Singleton
    <3> QED BY <2>1, <3>1, <1>2, <1>4 DEF Spent, Reached
  <2>3. spare'[new] \in Nat /\ MAX_ATTEMPTS \in Nat /\ MAX_ATTEMPTS >= 1
    BY <1>1, <1>2, <1>4, OutboxBounds DEF OutboxTypeOK
  <2>4. \A t \in Senders : CopyOK(t, new)'
    BY <2>1, NoneAssumption DEF CopyOK, Called, Arrived, Idle, Outcomes
  <2>5. outbox'[new].attempts = 0 /\ accepted'[new] = 0 /\ Unsettled(new)'
    BY <1>2, <1>4, <1>10 DEF Unsettled
  <2> QED BY <2>1, <2>2, <2>3, <2>4, <2>5 DEF RowOK
<1>12. ASSUME NEW i \in DOMAIN outbox PROVE RowOK(i)'
  <2>1. i \in Rows /\ spare'[i] \in Nat /\ spare'[i] >= spare[i] /\ i # new
    BY <1>1, <1>2, <1>4, RowFields
  <2>2. \A t \in Senders : (Holds(t, i)' <=> Holds(t, i)) /\ At(t, i)' = At(t, i)
    BY <2>1, <1>6, <1>7, <1>8 DEF OthersLeft
  <2> QED BY <2>1, <2>2, <1>2, <1>4, RowIsLeft
<1>13. \A i \in DOMAIN outbox' : RowOK(i)'
  BY <1>4, <1>11, <1>12
<1>14. Unwritten'
  BY <1>2, <1>4 DEF IInv, Unwritten
<1>15. Refusals'
  <2>1. \A i \in DOMAIN outbox : i \in Rows /\ i # new
    BY <1>1, <1>4, RowFields
  <2> QED BY <2>1, <1>2, <1>4, <1>6, <1>7, RefusalsStand
<1>16. refused' \subseteq Rows /\ Len(outbox) <= Len(outbox')
       /\ tries' \in [Rows -> Nat] /\ accepted' \in [Rows -> Nat] /\ spare' \in [Rows -> Nat]
       /\ cut' \subseteq Rows /\ consent' = consent
  BY <1>n, <1>1, <1>2, <1>4 DEF OutboxTypeOK
<1> QED BY <1>2, <1>4, <1>5, <1>9, <1>13, <1>14, <1>15, <1>16, StepIsSound
-----------------------------------------------------------------------------
(* A retry takes each of its rows once. *)
LEMMA QueueOfRows ==
  ASSUME OutboxTypeOK, Retryable # {}, NEW queue \in OldestFirst(Retryable)
  PROVE  /\ queue \in Seq(Rows \cup {0}) /\ queue # <<>>
         /\ Len(queue) \in Nat \ {0} /\ DOMAIN queue = 1 .. Len(queue)
         /\ \A k \in DOMAIN queue : queue[k] \in Retryable
         /\ \A k, l \in DOMAIN queue : queue[k] = queue[l] => k = l
<1>1. Retryable \subseteq Rows /\ Retryable \subseteq Nat
  BY RowFields DEF Retryable
<1>2. IsFiniteSet(Retryable) /\ Cardinality(Retryable) \in Nat /\ Cardinality(Retryable) # 0
  <2>1. IsFiniteSet(Rows)
    BY OutboxBounds, FS_Interval DEF Rows
  <2> QED BY <2>1, <1>1, FS_Subset, FS_EmptySet, FS_CardinalityType
<1> DEFINE c == Cardinality(Retryable)
<1>3. /\ queue \in [1 .. c -> Retryable]
      /\ \A k, l \in DOMAIN queue : k < l => queue[k] < queue[l]
  BY DEF OldestFirst
<1> HIDE DEF c
<1>4. c \in Nat \ {0}
  BY <1>2 DEF c
<1>5. queue \in Seq(Retryable) /\ Len(queue) = c /\ DOMAIN queue = 1 .. c
  BY <1>3, <1>4
<1>6. queue \in Seq(Rows \cup {0})
  BY <1>1, <1>5, SeqMonotonic
<1>7. queue # <<>>
  BY <1>4, <1>5, EmptySeq
<1>8. ASSUME NEW k \in DOMAIN queue PROVE queue[k] \in Retryable /\ queue[k] \in Int
  <2>1. queue[k] \in Retryable
    BY <1>3
  <2>2. queue[k] \in Nat
    BY <2>1, <1>1
  <2> QED BY <2>1, <2>2
<1>9. ASSUME NEW k \in DOMAIN queue, NEW l \in DOMAIN queue, queue[k] = queue[l] PROVE k = l
  <2>1. k \in Int /\ l \in Int /\ queue[k] \in Int /\ queue[l] \in Int
    BY <1>4, <1>5, <1>8
  <2>2. (k < l => queue[k] < queue[l]) /\ (l < k => queue[l] < queue[k])
    BY <1>3
  <2> QED BY <2>1, <2>2, <1>9
<1> QED BY <1>4, <1>5, <1>6, <1>7, <1>8, <1>9

LEMMA RetryIsSound ==
  ASSUME IInv, NEW s \in Senders, Retry(s)
  PROVE  IInv'
<1>1. OutboxTypeOK /\ HandlerOK(s) /\ sending[s] \in Sending
  BY DEF IInv, OutboxTypeOK
<1>2. PICK queue \in OldestFirst(Retryable) :
        sending' = [sending EXCEPT ![s].rows = queue, ![s].n = outbox[queue[1]].attempts,
                                   ![s].was = outbox[queue[1]].status]
  BY DEF Retry
<1> DEFINE h == [sending[s] EXCEPT !.rows = queue, !.n = outbox[queue[1]].attempts,
                                   !.was = outbox[queue[1]].status]
           taken == Retryable \cap Held(Senders)
<1>3. /\ sending[s] = Rest /\ Retryable # {}
      /\ sending' = [sending EXCEPT ![s] = h]
      /\ spare' = [i \in Rows |-> IF i \in taken THEN spare[i] + 1 ELSE spare[i]]
      /\ UNCHANGED <<consent, outbox, tries, accepted, refused, cut>>
  <2>1. sending' = [sending EXCEPT ![s] = h]
    BY <1>1, <1>2 DEF OutboxTypeOK
  <2> QED BY <2>1 DEF Retry
<1>4. /\ queue \in Seq(Rows \cup {0}) /\ queue # <<>>
      /\ Len(queue) \in Nat \ {0} /\ DOMAIN queue = 1 .. Len(queue)
      /\ \A k \in DOMAIN queue : queue[k] \in Retryable
      /\ \A k, l \in DOMAIN queue : queue[k] = queue[l] => k = l
  BY <1>1, <1>3, QueueOfRows
<1>5. /\ 1 \in DOMAIN queue /\ Head(queue) = queue[1] /\ queue[1] \in DOMAIN outbox
      /\ outbox[queue[1]].attempts \in Nat /\ outbox[queue[1]].status \in Statuses
  BY <1>1, <1>4, RowFields DEF Retryable
<1>6. /\ h.rows = queue /\ h.n = outbox[queue[1]].attempts /\ h.was = outbox[queue[1]].status
      /\ h.answer = None /\ h \in Sending
  <2>1. sending[s].answer = None
    BY <1>3 DEF Rest
  <2>2. /\ h.rows = queue /\ h.n = outbox[queue[1]].attempts /\ h.was = outbox[queue[1]].status
        /\ h.answer = None
    BY <1>1, <2>1 DEF Sending
  <2>3. /\ outbox[queue[1]].attempts \in Nat \cup {None}
        /\ outbox[queue[1]].status \in Statuses \cup {None}
    BY <1>5
  <2>4. h \in Sending
    BY <1>1, <1>4, <2>3 DEF Sending
  <2> QED BY <2>2, <2>4
<1> HIDE DEF h
<1>7. sending'[s] = h /\ (\A i : OthersLeft(s, i))
  BY <1>1, <1>3, OthersAreLeft
<1>8. HandlerOK(s)'
  <2>1. \A k \in DOMAIN queue : queue[k] <= Len(outbox)
    BY <1>1, <1>4, RowFields DEF Retryable
  <2>2. sending'[s].rows = queue /\ outbox' = outbox
    BY <1>3, <1>6, <1>7
  <2> QED BY <2>1, <2>2, <1>4 DEF HandlerOK
<1>9. \A i : ~Holds(s, i) /\ At(s, i) = Idle
  BY <1>3 DEF Rest, Holds, At
<1>10. /\ \A i : Holds(s, i)' => i \in Retryable
       /\ \A i : ~Holds(s, i)' => At(s, i)' = Idle
       /\ \A i : At(s, i)' \in {Idle, [n |-> outbox[i].attempts, was |-> outbox[i].status,
                                       answer |-> None]}
  <2>1. \A i : Holds(s, i)' => i \in Retryable
    BY <1>4, <1>6, <1>7 DEF Holds
  <2>2. \A i : At(s, i)' = IF queue[1] = i
                           THEN [n |-> outbox[queue[1]].attempts,
                                 was |-> outbox[queue[1]].status, answer |-> None]
                           ELSE Idle
    BY <1>4, <1>5, <1>6, <1>7 DEF At
  <2>3. Holds(s, queue[1])'
    BY <1>5, <1>6, <1>7 DEF Holds
  <2> QED BY <2>1, <2>2, <2>3
<1>11. \A i \in Rows : i \in Held(Senders) <=> Holders(i) # {}
  <2> SUFFICES ASSUME NEW i \in Rows
               PROVE  i \in Held(Senders) <=> \E t \in Senders : Holds(t, i)
    BY DEF Holders
  <2> QED BY DEF Held, ToSet, Holds
<1>12. ASSUME NEW i \in DOMAIN outbox PROVE RowOK(i)'
  <2>1. i \in Rows /\ spare[i] \in Nat
    BY <1>1, RowFields
  <2>2. spare'[i] = IF i \in Retryable /\ Holders(i) # {} THEN spare[i] + 1 ELSE spare[i]
    BY <2>1, <1>3, <1>11
  <2>3. CASE Holds(s, i)'
    <3>1. Unsettled(i) /\ outbox[i].attempts < MAX_ATTEMPTS /\ i \in Retryable
      BY <2>3, <1>10 DEF Retryable, Unsettled
    <3>2. spare'[i] = IF Holders(i) = {} THEN spare[i] ELSE spare[i] + 1
      BY <3>1, <2>2
    <3>3. At(s, i)' \in {Idle, [n |-> outbox[i].attempts, was |-> outbox[i].status,
                               answer |-> None]}
      BY <1>10
    <3>4. outbox'[i] = outbox[i] /\ tries'[i] = tries[i] /\ accepted'[i] = accepted[i]
      BY <1>3
    <3>5. OthersLeft(s, i) /\ ~Holds(s, i)
      BY <1>7, <1>9
    <3> QED BY <2>3, <3>1, <3>2, <3>3, <3>4, <3>5, RowIsTaken
  <2>4. CASE ~Holds(s, i)'
    <3>1. \A t \in Senders : (Holds(t, i)' <=> Holds(t, i)) /\ At(t, i)' = At(t, i)
      BY <2>4, <1>7, <1>9, <1>10 DEF OthersLeft
    <3>2. spare'[i] \in Nat /\ spare'[i] >= spare[i]
      BY <2>1, <2>2
    <3> QED BY <3>1, <3>2, <1>3, RowIsLeft
  <2> QED BY <2>3, <2>4
<1>13. Unwritten'
  BY <1>3 DEF IInv, Unwritten
<1>14. Refusals'
  <2>1. \A i \in DOMAIN outbox : outbox[i].status = "SKIPPED" => ~Holds(s, i)'
    BY <1>10 DEF Retryable
  <2> QED BY <2>1, <1>3, <1>7, RefusalsStand
<1>15. spare' \in [Rows -> Nat]
  BY <1>1, <1>3 DEF OutboxTypeOK
<1>16. /\ outbox' \in Seq(Row) /\ Len(outbox') <= MaxRows /\ Len(outbox) <= Len(outbox')
       /\ refused' \subseteq Rows /\ tries' \in [Rows -> Nat] /\ accepted' \in [Rows -> Nat]
       /\ cut' \subseteq Rows /\ consent' = consent
  BY <1>1, <1>3, LenProperties DEF OutboxTypeOK
<1>17. \A i \in DOMAIN outbox' : RowOK(i)'
  BY <1>3, <1>12
<1> QED BY <1>3, <1>6, <1>8, <1>13, <1>14, <1>15, <1>16, <1>17, StepIsSound
-----------------------------------------------------------------------------
(* The row a handler is at. *)
LEMMA FirstRow ==
  ASSUME IInv, NEW s \in Senders, sending[s].rows # <<>>
  PROVE  LET first == Head(sending[s].rows)
         IN  /\ first = 0 \/ first \in DOMAIN outbox
             /\ Holds(s, first)
             /\ At(s, first) = [n |-> sending[s].n, was |-> sending[s].was,
                                answer |-> sending[s].answer]
             /\ \A i : i # first => At(s, i) = Idle
<1> DEFINE rows == sending[s].rows
<1>1. OutboxTypeOK /\ HandlerOK(s)
  BY DEF IInv
<1>2. Len(rows) \in Nat \ {0} /\ DOMAIN rows = 1 .. Len(rows)
  BY <1>1, SenderFields, EmptySeq
<1>3. 1 \in DOMAIN rows /\ Head(rows) = rows[1]
  BY <1>2
<1>4. rows[1] \in Rows \cup {0} /\ rows[1] <= Len(outbox)
  BY <1>1, <1>2, <1>3, SenderFields, ElementOfSeq DEF HandlerOK
<1>5. Len(outbox) \in Nat /\ DOMAIN outbox = 1 .. Len(outbox)
  BY <1>1, LenProperties DEF OutboxTypeOK
<1>6. rows[1] = 0 \/ rows[1] \in DOMAIN outbox
  BY <1>4, <1>5, OutboxBounds DEF Rows
<1>7. Holds(s, rows[1])
  BY <1>3 DEF Holds
<1> QED BY <1>3, <1>6, <1>7 DEF At

LEMMA SendIsSound ==
  ASSUME IInv, NEW s \in Senders, NEW answer \in Outcomes, Send(s, answer)
  PROVE  IInv'
<1>1. OutboxTypeOK /\ HandlerOK(s) /\ sending[s] \in Sending
  BY DEF IInv, OutboxTypeOK
<1>2. /\ sending[s].rows # <<>> /\ sending[s].answer = None
      /\ UNCHANGED <<consent, outbox, spare, refused>>
  BY DEF Send
<1>3. CASE Head(sending[s].rows) = 0
  <2> DEFINE h == [sending[s] EXCEPT !.answer = answer]
  <2>1. sending' = [sending EXCEPT ![s] = h] /\ UNCHANGED <<tries, accepted, cut>>
    BY <1>3 DEF Send
  <2>2. h.rows = sending[s].rows /\ h \in Sending
    BY <1>1 DEF Sending
  <2> HIDE DEF h
  <2>3. sending'[s] = h
    BY <1>1, <2>1, OthersAreLeft
  <2>4. HandlerOK(s)'
    BY <1>1, <1>2, <2>2, <2>3 DEF HandlerOK
  <2>5. ASSUME NEW i \in DOMAIN outbox PROVE Same(s, i)
    <3>1. i # 0
      BY <1>1, RowFields
    <3> QED BY <3>1, <1>3, <2>2, <2>3 DEF Same, Holds, At
  <2> QED BY <1>2, <2>1, <2>2, <2>4, <2>5, NoRowIsSent
<1>4. CASE Head(sending[s].rows) # 0
  <2>1. PICK i \in DOMAIN outbox : i = Head(sending[s].rows)
    BY <1>2, <1>4, FirstRow
  <2> DEFINE c == Counted(s, i)
             k == Known(s, i)
             h == [sending[s] EXCEPT !.answer = answer, !.n = c + 1, !.was = k]
  <2>2. /\ sending' = [sending EXCEPT ![s] = h] /\ tries' = [tries EXCEPT ![i] = @ + 1]
        /\ accepted' = (IF answer \in {"ACCEPTED", "LOST"}
                        THEN [accepted EXCEPT ![i] = @ + 1] ELSE accepted)
        /\ cut' = IF answer = "DOWN" THEN cut \cup {i} ELSE cut \ {i}
    BY <2>1, <1>4 DEF Send
  <2>3. i \in Rows /\ outbox[i].attempts \in Nat /\ outbox[i].status \in Statuses
    BY <1>1, RowFields
  <2>4. /\ At(s, i) = [n |-> sending[s].n, was |-> sending[s].was, answer |-> sending[s].answer]
        /\ Holds(s, i) /\ \A j : j # i => At(s, j) = Idle
    BY <1>2, <2>1, FirstRow
  <2>5. /\ c = IF At(s, i).n = None THEN outbox[i].attempts ELSE At(s, i).n
        /\ k = IF At(s, i).n = None THEN outbox[i].status ELSE At(s, i).was
        /\ c \in Nat /\ k \in Statuses \cup {None}
    BY <2>3, <2>4, <1>1, SenderFields DEF Counted, Known
  <2> HIDE DEF c, k
  <2>6. /\ h.rows = sending[s].rows /\ h.n = c + 1 /\ h.was = k /\ h.answer = answer
        /\ h \in Sending
    <3>1. c + 1 \in Nat \cup {None} /\ k \in Statuses \cup {None}
          /\ answer \in Outcomes \cup {None}
      BY <2>5
    <3>2. h \in Sending
      BY <1>1, <3>1 DEF Sending
    <3>3. h.rows = sending[s].rows /\ h.n = c + 1 /\ h.was = k /\ h.answer = answer
      BY <1>1 DEF Sending
    <3> QED BY <3>2, <3>3
  <2> HIDE DEF h
  <2>7. sending'[s] = h /\ (\A j : OthersLeft(s, j))
    BY <1>1, <2>2, OthersAreLeft
  <2>8. HandlerOK(s)'
    BY <1>1, <1>2, <2>6, <2>7 DEF HandlerOK
  <2>9. /\ \A j : Holds(s, j)' <=> Holds(s, j)
        /\ \A j : j # i => At(s, j)' = Idle
        /\ At(s, i)' = [n |-> c + 1, was |-> k, answer |-> answer]
    BY <2>1, <2>6, <2>7, <1>2 DEF Holds, At
  <2>10. /\ tries \in [Rows -> Nat] /\ accepted \in [Rows -> Nat] /\ spare \in [Rows -> Nat]
    BY <1>1 DEF OutboxTypeOK
  <2>11. /\ tries' \in [Rows -> Nat] /\ accepted' \in [Rows -> Nat]
         /\ tries'[i] = tries[i] + 1
         /\ accepted'[i] = IF answer \in {"ACCEPTED", "LOST"} THEN accepted[i] + 1
                           ELSE accepted[i]
         /\ \A j \in Rows : j # i => tries'[j] = tries[j] /\ accepted'[j] = accepted[j]
    BY <2>2, <2>3, <2>10
  <2>12. RowOK(i)'
    <3>1. ~Called(s, i)
      BY <2>4, <1>2 DEF Called
    <3>2. At(s, i)' = [n |-> (IF At(s, i).n = None THEN outbox[i].attempts ELSE At(s, i).n) + 1,
                       was |-> IF At(s, i).n = None THEN outbox[i].status ELSE At(s, i).was,
                       answer |-> answer]
      BY <2>5, <2>9
    <3>3. outbox'[i] = outbox[i] /\ spare'[i] = spare[i] /\ OthersLeft(s, i) /\ Holds(s, i)'
      BY <1>2, <2>4, <2>7, <2>9
    <3> QED BY <3>1, <3>2, <3>3, <2>4, <2>11, RowIsCalled
  <2>13. ASSUME NEW j \in DOMAIN outbox, j # i PROVE RowOK(j)'
    <3>1. j \in Rows /\ spare[j] \in Nat
      BY <1>1, RowFields
    <3>2. \A t \in Senders : (Holds(t, j)' <=> Holds(t, j)) /\ At(t, j)' = At(t, j)
      BY <2>13, <2>4, <2>7, <2>9 DEF OthersLeft
    <3>3. /\ outbox'[j] = outbox[j] /\ tries'[j] = tries[j] /\ accepted'[j] = accepted[j]
          /\ spare'[j] \in Nat /\ spare'[j] >= spare[j]
      BY <3>1, <1>2, <2>11, <2>13
    <3> QED BY <3>2, <3>3, RowIsLeft
  <2>14. \A j \in DOMAIN outbox' : RowOK(j)'
    BY <1>2, <2>12, <2>13
  <2>15. Unwritten'
    <3> SUFFICES ASSUME NEW j \in Rows \ DOMAIN outbox
                 PROVE  tries'[j] = 0 /\ accepted'[j] = 0
      BY <1>2 DEF Unwritten
    <3>1. j # i /\ tries[j] = 0 /\ accepted[j] = 0
      BY DEF IInv, Unwritten
    <3> QED BY <3>1, <2>11
  <2>16. Refusals'
    <3>1. ASSUME NEW j \in DOMAIN outbox, Holders(j) = {}
          PROVE  tries'[j] = tries[j] /\ ~Holds(s, j)'
      <4>1. ~Holds(s, j) /\ j \in Rows
        BY <3>1, <1>1, RowFields DEF Holders
      <4> QED BY <4>1, <2>4, <2>9, <2>11
    <3> QED BY <3>1, <1>2, <2>7, RefusalsStand
  <2>17. /\ outbox' \in Seq(Row) /\ Len(outbox') <= MaxRows /\ Len(outbox) <= Len(outbox')
         /\ refused' \subseteq Rows /\ spare' \in [Rows -> Nat] /\ consent' = consent
    BY <1>1, <1>2, LenProperties DEF OutboxTypeOK
  <2>18. cut' \subseteq Rows
    BY <1>1, <2>2, <2>3 DEF OutboxTypeOK
  <2> QED BY <2>2, <2>6, <2>8, <2>11, <2>14, <2>15, <2>16, <2>17, <2>18, StepIsSound
<1> QED BY <1>3, <1>4
-----------------------------------------------------------------------------
(* A handler goes on to its next row, of which it knows nothing yet. *)
Onward(s) == [sending[s] EXCEPT !.rows = Tail(sending[s].rows), !.n = None, !.was = None,
                                !.answer = None]

LEMMA GoingOn ==
  ASSUME IInv, NEW s \in Senders, sending[s].rows # <<>>,
         sending' = [sending EXCEPT ![s] = Onward(s)], Len(outbox') = Len(outbox)
  PROVE  /\ Onward(s) \in Sending /\ HandlerOK(s)' /\ \A i : OthersLeft(s, i)
         /\ \A i : Holds(s, i)' <=> Holds(s, i) /\ i # Head(sending[s].rows)
         /\ \A i : At(s, i)' = Idle
<1> DEFINE rows == sending[s].rows
           h == Onward(s)
<1>1. OutboxTypeOK /\ HandlerOK(s) /\ sending[s] \in Sending /\ rows \in Seq(Rows \cup {0})
  BY SenderFields DEF IInv, OutboxTypeOK
<1>2. /\ Tail(rows) \in Seq(Rows \cup {0}) /\ Len(Tail(rows)) = Len(rows) - 1
      /\ \A k \in 1 .. Len(Tail(rows)) : Tail(rows)[k] = rows[k + 1]
      /\ Len(rows) \in Nat \ {0} /\ Head(rows) = rows[1]
  BY <1>1, HeadTailProperties, EmptySeq
<1>3. /\ h.rows = Tail(rows) /\ h.n = None /\ h.was = None /\ h.answer = None /\ h \in Sending
  BY <1>1, <1>2 DEF Onward, Sending
<1> HIDE DEF h
<1>4. sending'[s] = h /\ \A i : OthersLeft(s, i)
  <2>1. sending' = [sending EXCEPT ![s] = h]
    BY DEF h
  <2> QED BY <2>1, <1>1, OthersAreLeft
<1>5. DOMAIN rows = 1 .. Len(rows) /\ DOMAIN Tail(rows) = 1 .. Len(rows) - 1
  BY <1>1, <1>2, LenProperties
<1>6. \A i : At(s, i)' = Idle
  BY <1>3, <1>4 DEF At, Idle
<1>7. ASSUME NEW k \in DOMAIN Tail(rows)
      PROVE  k + 1 \in DOMAIN rows /\ k + 1 # 1 /\ Tail(rows)[k] = rows[k + 1]
  BY <1>2, <1>5
<1>8. \A k, l \in DOMAIN rows : rows[k] = rows[l] => k = l
  BY <1>1 DEF HandlerOK
<1>9. ASSUME NEW i PROVE Holds(s, i)' <=> Holds(s, i) /\ i # Head(rows)
  <2>1. ASSUME NEW k \in DOMAIN Tail(rows), Tail(rows)[k] = i
        PROVE  Holds(s, i) /\ i # Head(rows)
    <3>1. 1 \in DOMAIN rows
      BY <1>2, <1>5
    <3> QED BY <2>1, <3>1, <1>2, <1>7, <1>8 DEF Holds
  <2>2. ASSUME NEW k \in DOMAIN rows, rows[k] = i, i # Head(rows)
        PROVE  \E l \in DOMAIN Tail(rows) : Tail(rows)[l] = i
    <3>1. k # 1 /\ k - 1 \in DOMAIN Tail(rows) /\ (k - 1) + 1 = k
      BY <2>2, <1>2, <1>5
    <3> QED BY <2>2, <3>1, <1>7
  <2> QED BY <2>1, <2>2, <1>3, <1>4 DEF Holds
<1>10. HandlerOK(s)'
  <2> DEFINE q == Tail(rows)
  <2>1. \A k \in DOMAIN q : q[k] <= Len(outbox)
    BY <1>1, <1>7 DEF HandlerOK
  <2>2. \A k, l \in DOMAIN q : q[k] = q[l] => k = l
    <3> SUFFICES ASSUME NEW k \in DOMAIN q, NEW l \in DOMAIN q, q[k] = q[l] PROVE k = l
      OBVIOUS
    <3>1. k + 1 = l + 1
      BY <1>7, <1>8
    <3>2. k \in Int /\ l \in Int
      BY <1>5
    <3> QED BY <3>1, <3>2
  <2>3. /\ sending'[s].rows = q /\ sending'[s].n = None /\ sending'[s].was = None
        /\ sending'[s].answer = None /\ Len(outbox') = Len(outbox)
    BY <1>3, <1>4
  <2> HIDE DEF q
  <2> QED BY <2>1, <2>2, <2>3 DEF HandlerOK
<1> QED BY <1>3, <1>4, <1>6, <1>9, <1>10 DEF h

LEMMA CommitIsSound ==
  ASSUME IInv, NEW s \in Senders, Commit(s)
  PROVE  IInv'
<1>1. OutboxTypeOK /\ HandlerOK(s)
  BY DEF IInv
<1>2. /\ sending[s].answer # None /\ sending[s].rows # <<>>
      /\ sending' = [sending EXCEPT ![s] = Onward(s)]
      /\ UNCHANGED <<consent, tries, accepted, spare, refused, cut>>
  BY <1>1 DEF Commit, GoOn, Onward, HandlerOK, histories
<1> DEFINE first == Head(sending[s].rows)
<1>3. /\ first = 0 \/ first \in DOMAIN outbox
      /\ Holds(s, first) /\ (\A i : i # first => At(s, i) = Idle)
      /\ At(s, first) = [n |-> sending[s].n, was |-> sending[s].was,
                         answer |-> sending[s].answer]
  BY <1>2, FirstRow
<1>4. Called(s, first)
  BY <1>2, <1>3 DEF Called
<1>5. /\ outbox' \in Seq(Row) /\ Len(outbox') = Len(outbox)
      /\ \A i \in DOMAIN outbox : i # first => outbox'[i] = outbox[i]
      /\ first # 0 =>
           /\ outbox'[first].attempts = At(s, first).n
           /\ outbox'[first].status = IF Outcome(At(s, first).answer) = At(s, first).was
                                      THEN outbox[first].status
                                      ELSE Outcome(At(s, first).answer)
  <2>1. CASE first = 0
    BY <2>1, <1>1 DEF Commit, OutboxTypeOK
  <2>2. CASE first # 0
    <3>1. PICK i \in DOMAIN outbox : i = first
      BY <2>2, <1>3
    <3> DEFINE status == Settled(s, outbox[i].status)
               r == [outbox[i] EXCEPT !.status = status, !.attempts = sending[s].n]
    <3>2. outbox' = [outbox EXCEPT ![i] = r]
      BY <2>2, <3>1 DEF Commit
    <3>3. outbox[i] \in Row /\ outbox[i].status \in Statuses
      BY <1>1, RowFields
    <3>4. CopyOK(s, i)
      BY DEF IInv, RowOK
    <3>5. sending[s].n \in Nat
      BY <3>1, <3>4, <1>1, <1>3, <1>4, SenderFields DEF CopyOK
    <3>6. status = IF Outcome(sending[s].answer) = sending[s].was
                   THEN outbox[i].status ELSE Outcome(sending[s].answer)
      BY DEF Settled
    <3>7. status \in Statuses
      BY <3>3, <3>6 DEF Outcome, Statuses
    <3> HIDE DEF status
    <3>8. r \in Row /\ r.status = status /\ r.attempts = sending[s].n
      BY <3>3, <3>5, <3>7 DEF Row
    <3> HIDE DEF r
    <3>9. outbox \in Seq(Row) /\ DOMAIN outbox = 1 .. Len(outbox)
      BY <1>1, LenProperties DEF OutboxTypeOK
    <3>10. /\ outbox' \in Seq(Row) /\ Len(outbox') = Len(outbox) /\ outbox'[i] = r
           /\ \A j \in DOMAIN outbox : j # i => outbox'[j] = outbox[j]
      BY <3>2, <3>8, <3>9, ExceptSeq
    <3> QED BY <3>1, <3>6, <3>8, <3>10, <1>3
  <2> QED BY <2>1, <2>2
<1>6. /\ Onward(s) \in Sending /\ HandlerOK(s)' /\ \A i : OthersLeft(s, i)
      /\ \A i : Holds(s, i)' <=> Holds(s, i) /\ i # first
      /\ \A i : At(s, i)' = Idle
  BY <1>2, <1>5, GoingOn
<1>7. DOMAIN outbox' = DOMAIN outbox
  BY <1>1, <1>5, LenProperties DEF OutboxTypeOK
<1>8. ASSUME NEW i \in DOMAIN outbox PROVE RowOK(i)'
  <2>1. i # 0 /\ spare'[i] \in Nat /\ spare'[i] >= spare[i]
    BY <1>1, <1>2, RowFields
  <2>2. CASE i = first
    BY <2>1, <2>2, <1>2, <1>3, <1>4, <1>5, <1>6, RowIsSettled
  <2>3. CASE i # first
    <3>1. \A t \in Senders : (Holds(t, i)' <=> Holds(t, i)) /\ At(t, i)' = At(t, i)
      BY <2>3, <1>3, <1>6 DEF OthersLeft
    <3> QED BY <2>1, <2>3, <3>1, <1>2, <1>5, RowIsLeft
  <2> QED BY <2>2, <2>3
<1>9. Unwritten'
  BY <1>2, <1>7 DEF IInv, Unwritten
<1>10. Refusals'
  <2>1. ASSUME NEW i \in DOMAIN outbox, Holders(i) = {} PROVE outbox'[i] = outbox[i] /\ ~Holds(s, i)'
    <3>1. ~Holds(s, i)
      BY <2>1 DEF Holders
    <3> QED BY <3>1, <1>3, <1>5, <1>6
  <2> QED BY <2>1, <1>2, <1>6, <1>7, RefusalsStand
<1>11. /\ Len(outbox') <= MaxRows /\ Len(outbox) <= Len(outbox')
       /\ tries' \in [Rows -> Nat] /\ accepted' \in [Rows -> Nat] /\ spare' \in [Rows -> Nat]
       /\ refused' \subseteq Rows /\ cut' \subseteq Rows /\ consent' = consent
  BY <1>1, <1>2, <1>5, LenProperties DEF OutboxTypeOK
<1>12. \A i \in DOMAIN outbox' : RowOK(i)'
  BY <1>7, <1>8
<1> QED BY <1>2, <1>5, <1>6, <1>9, <1>10, <1>11, <1>12, StepIsSound

LEMMA CommitFailsIsSound ==
  ASSUME IInv, NEW s \in Senders, CommitFails(s)
  PROVE  IInv'
<1>1. OutboxTypeOK /\ HandlerOK(s)
  BY DEF IInv
<1>2. /\ sending[s].answer # None /\ sending[s].rows # <<>>
      /\ Head(sending[s].rows) # 0
      /\ spare' = [spare EXCEPT ![Head(sending[s].rows)] = @ + 1]
      /\ sending' = [sending EXCEPT ![s] = Onward(s)]
      /\ UNCHANGED <<consent, outbox, tries, accepted, refused, cut>>
  BY <1>1 DEF CommitFails, MayLose, GoOn, Onward, HandlerOK
<1>3. PICK first \in DOMAIN outbox : first = Head(sending[s].rows)
  BY <1>2, FirstRow
<1>4. /\ Holds(s, first) /\ (\A i : i # first => At(s, i) = Idle) /\ Called(s, first)
  <2>1. /\ Holds(s, first) /\ \A i : i # first => At(s, i) = Idle
        /\ At(s, first) = [n |-> sending[s].n, was |-> sending[s].was,
                           answer |-> sending[s].answer]
    BY <1>2, <1>3, FirstRow
  <2> QED BY <2>1, <1>2 DEF Called
<1>5. /\ Onward(s) \in Sending /\ HandlerOK(s)' /\ \A i : OthersLeft(s, i)
      /\ \A i : Holds(s, i)' <=> Holds(s, i) /\ i # first
      /\ \A i : At(s, i)' = Idle
  BY <1>2, <1>3, GoingOn
<1>6. /\ spare' \in [Rows -> Nat] /\ spare'[first] = spare[first] + 1
      /\ \A i \in Rows : i # first => spare'[i] = spare[i]
  <2>1. first \in Rows /\ spare \in [Rows -> Nat]
    BY <1>1, RowFields DEF OutboxTypeOK
  <2> QED BY <2>1, <1>2, <1>3
<1>7. ASSUME NEW i \in DOMAIN outbox PROVE RowOK(i)'
  <2>1. i \in Rows /\ spare[i] \in Nat
    BY <1>1, RowFields
  <2>2. CASE i = first
    BY <2>2, <1>2, <1>4, <1>5, <1>6, RowIsDropped
  <2>3. CASE i # first
    <3>1. \A t \in Senders : (Holds(t, i)' <=> Holds(t, i)) /\ At(t, i)' = At(t, i)
      BY <2>3, <1>4, <1>5 DEF OthersLeft
    <3>2. spare'[i] \in Nat /\ spare'[i] >= spare[i]
      BY <2>1, <2>3, <1>6
    <3> QED BY <3>1, <3>2, <1>2, RowIsLeft
  <2> QED BY <2>2, <2>3
<1>8. Unwritten'
  BY <1>2 DEF IInv, Unwritten
<1>9. Refusals'
  <2>1. ASSUME NEW i \in DOMAIN outbox, Holders(i) = {} PROVE ~Holds(s, i)'
    BY <2>1, <1>5 DEF Holders
  <2> QED BY <2>1, <1>2, <1>5, RefusalsStand
<1>10. /\ outbox' \in Seq(Row) /\ Len(outbox') <= MaxRows /\ Len(outbox) <= Len(outbox')
       /\ tries' \in [Rows -> Nat] /\ accepted' \in [Rows -> Nat]
       /\ refused' \subseteq Rows /\ cut' \subseteq Rows /\ consent' = consent
  BY <1>1, <1>2, LenProperties DEF OutboxTypeOK
<1>11. \A i \in DOMAIN outbox' : RowOK(i)'
  BY <1>2, <1>7
<1> QED BY <1>2, <1>5, <1>6, <1>8, <1>9, <1>10, <1>11, StepIsSound

LEMMA CrashIsSound ==
  ASSUME IInv, NEW s \in Senders, Crash(s)
  PROVE  IInv'
<1>1. OutboxTypeOK /\ HandlerOK(s)
  BY DEF IInv
<1>2. /\ sending' = [sending EXCEPT ![s] = Rest]
      /\ UNCHANGED <<consent, outbox, tries, accepted, refused, cut>>
  BY DEF Crash
<1>3. Rest \in Sending /\ Rest.rows = <<>> /\ Rest.n = None /\ Rest.was = None
      /\ Rest.answer = None
  <2>1. <<>> \in Seq(Told) /\ <<>> \in Seq(Rows \cup {0})
    OBVIOUS
  <2> QED BY <2>1 DEF Rest, Sending
<1>4. sending'[s] = Rest /\ \A i : OthersLeft(s, i)
  BY <1>1, <1>2, OthersAreLeft
<1>5. HandlerOK(s)' /\ \A i : ~Holds(s, i)' /\ At(s, i)' = Idle
  BY <1>3, <1>4 DEF HandlerOK, Holds, At
<1>6. /\ spare' \in [Rows -> Nat]
      /\ \A i \in DOMAIN outbox : spare'[i] = IF Called(s, i) THEN spare[i] + 1 ELSE spare[i]
  <2>1. spare \in [Rows -> Nat] /\ \A i \in DOMAIN outbox : i \in Rows /\ i # 0
    BY <1>1, RowFields DEF OutboxTypeOK
  <2>2. CASE sending[s].answer = None \/ Head(sending[s].rows) = 0
    <3>1. spare' = spare
      BY <2>2 DEF Crash
    <3>2. \A i \in DOMAIN outbox : ~Called(s, i)
      BY <2>1, <2>2 DEF Called, At, Idle
    <3> QED BY <2>1, <3>1, <3>2
  <2>3. CASE ~(sending[s].answer = None \/ Head(sending[s].rows) = 0)
    <3>1. sending[s].rows # <<>> /\ Head(sending[s].rows) # 0
      BY <2>3, <1>1 DEF HandlerOK
    <3>2. PICK first \in DOMAIN outbox : first = Head(sending[s].rows)
      BY <3>1, FirstRow
    <3>3. spare' = [spare EXCEPT ![first] = @ + 1]
      BY <2>3, <3>2 DEF Crash, MayLose
    <3>4. \A i \in DOMAIN outbox : Called(s, i) <=> i = first
      BY <2>3, <3>1, <3>2 DEF Called, At, Idle
    <3> QED BY <2>1, <3>2, <3>3, <3>4
  <2> QED BY <2>2, <2>3
<1>7. ASSUME NEW i \in DOMAIN outbox PROVE RowOK(i)'
  <2>1. i \in Rows /\ spare[i] \in Nat
    BY <1>1, RowFields
  <2>2. CASE Holds(s, i)
    BY <2>2, <1>2, <1>4, <1>5, <1>6, RowIsDropped
  <2>3. CASE ~Holds(s, i)
    <3>1. At(s, i) = Idle
      BY <2>3, <1>1, CopyFields
    <3>2. \A t \in Senders : (Holds(t, i)' <=> Holds(t, i)) /\ At(t, i)' = At(t, i)
      BY <2>3, <3>1, <1>4, <1>5 DEF OthersLeft
    <3>3. spare'[i] \in Nat /\ spare'[i] >= spare[i]
      BY <2>1, <1>6
    <3> QED BY <3>2, <3>3, <1>2, RowIsLeft
  <2> QED BY <2>2, <2>3
<1>8. Unwritten'
  BY <1>2 DEF IInv, Unwritten
<1>9. Refusals'
  BY <1>2, <1>4, <1>5, RefusalsStand
<1>10. /\ outbox' \in Seq(Row) /\ Len(outbox') <= MaxRows /\ Len(outbox) <= Len(outbox')
       /\ tries' \in [Rows -> Nat] /\ accepted' \in [Rows -> Nat]
       /\ refused' \subseteq Rows /\ cut' \subseteq Rows /\ consent' = consent
  BY <1>1, <1>2, LenProperties DEF OutboxTypeOK
<1>11. \A i \in DOMAIN outbox' : RowOK(i)'
  BY <1>2, <1>7
<1> QED BY <1>2, <1>3, <1>5, <1>6, <1>8, <1>9, <1>10, <1>11, StepIsSound
-----------------------------------------------------------------------------
(* Somebody opts in or out: only the consent changes. *)
LEMMA ConsentIsSound ==
  ASSUME IInv, NEW p \in People, OptIn(p) \/ OptOut(p)
  PROVE  IInv'
<1>1. /\ UNCHANGED <<outbox, sending, tries, accepted, spare, refused, cut>>
      /\ OutboxTypeOK
  BY DEF OptIn, OptOut, histories, IInv
<1>2. consent' \in [People -> BOOLEAN]
  BY <1>1 DEF OptIn, OptOut, RecordOptIn, RecordOptOut, OutboxTypeOK
<1>3. \A i : \A t \in Senders : (Holds(t, i)' <=> Holds(t, i)) /\ At(t, i)' = At(t, i)
  BY <1>1 DEF Holds, At
<1>4. ASSUME NEW i \in DOMAIN outbox PROVE RowOK(i)'
  <2>1. spare'[i] \in Nat /\ spare'[i] >= spare[i]
    BY <1>1, RowFields
  <2> QED BY <2>1, <1>1, <1>3, RowIsLeft
<1>5. (\A s \in Senders : HandlerOK(s)') /\ Unwritten' /\ Refusals'
  BY <1>1, <1>3 DEF IInv, HandlerOK, Unwritten, Refusals, Holders
<1> QED BY <1>1, <1>2, <1>4, <1>5 DEF IInv, OutboxTypeOK

LEMMA NothingHappens == ASSUME IInv, UNCHANGED outboxVars PROVE IInv'
<1>1. /\ UNCHANGED <<outbox, sending, tries, accepted, spare, refused, cut, consent>>
      /\ OutboxTypeOK
  BY DEF outboxVars, IInv
<1>2. \A i : \A t \in Senders : (Holds(t, i)' <=> Holds(t, i)) /\ At(t, i)' = At(t, i)
  BY <1>1 DEF Holds, At
<1>3. ASSUME NEW i \in DOMAIN outbox PROVE RowOK(i)'
  <2>1. spare'[i] \in Nat /\ spare'[i] >= spare[i]
    BY <1>1, RowFields
  <2> QED BY <2>1, <1>1, <1>2, RowIsLeft
<1>4. (\A s \in Senders : HandlerOK(s)') /\ Unwritten' /\ Refusals'
  BY <1>1, <1>2 DEF IInv, HandlerOK, Unwritten, Refusals, Holders
<1> QED BY <1>1, <1>3, <1>4 DEF IInv, OutboxTypeOK

LEMMA EmptyToBeginWith == OutboxInit => IInv
<1> SUFFICES ASSUME OutboxInit PROVE IInv
  OBVIOUS
<1>1. OutboxTypeOK
  <2>1. <<>> \in Seq(Row) /\ Len(<<>>) = 0 /\ <<>> \in Seq(Told) /\ <<>> \in Seq(Rows \cup {0})
    OBVIOUS
  <2>2. Rest \in Sending
    BY <2>1 DEF Rest, Sending
  <2> QED BY <2>1, <2>2, OutboxBounds DEF OutboxInit, OutboxTypeOK
<1>2. DOMAIN outbox = {}
  BY DEF OutboxInit
<1>3. \A s \in Senders : HandlerOK(s)
  BY DEF OutboxInit, HandlerOK, Rest
<1> QED BY <1>1, <1>2, <1>3 DEF IInv, OutboxInit, Unwritten, Refusals

(* What is inductive about the outbox, for any number of people, handlers  *)
(* and rows.                                                               *)
THEOREM OutboxInvariance == OutboxSpec => []IInv
<1>1. IInv /\ [OutboxNext]_outboxVars => IInv'
  <2> SUFFICES ASSUME IInv, [OutboxNext]_outboxVars PROVE IInv'
    OBVIOUS
  <2>1. ASSUME NEW p \in People, OptIn(p) \/ OptOut(p) PROVE IInv'
    BY <2>1, ConsentIsSound
  <2>2. ASSUME NEW s \in Senders, NEW n \in Notices, Dispatch(s, n) PROVE IInv'
    BY <2>2, DispatchIsSound
  <2>3. ASSUME NEW s \in Senders, Work(s) PROVE IInv'
    BY <2>3, LookUpAdminsIsSound, SkipIsSound, QueueIsSound, QueueUnwrittenIsSound,
       SendIsSound, CommitIsSound, CommitFailsIsSound DEF Work
  <2>4. ASSUME NEW s \in Senders, Retry(s) \/ Crash(s) PROVE IInv'
    BY <2>4, RetryIsSound, CrashIsSound
  <2>5. CASE UNCHANGED outboxVars
    BY <2>5, NothingHappens
  <2> QED BY <2>1, <2>2, <2>3, <2>4, <2>5 DEF OutboxNext
<1> QED BY <1>1, EmptyToBeginWith, PTL DEF OutboxSpec

(* Every variable keeps its type.                                          *)
THEOREM OutboxTypeCorrect == OutboxSpec => []OutboxTypeOK
<1>1. IInv => OutboxTypeOK
  BY DEF IInv
<1> QED BY <1>1, OutboxInvariance, PTL

(* A message reaches somebody twice only if an outcome of it was lost or   *)
(* two handlers had it: _attempt and retry_pending.                        *)
THEOREM ReachedOnce == OutboxSpec => []TwiceHasACause
<1>1. IInv => TwiceHasACause
  <2> SUFFICES ASSUME IInv, NEW i \in DOMAIN outbox PROVE accepted[i] <= 1 + spare[i]
    BY DEF TwiceHasACause
  <2>1. accepted[i] \in Nat /\ spare[i] \in Nat /\ Reached(i) <= 1 + spare[i]
    BY RowFields DEF IInv, RowOK
  <2> QED BY <2>1, CountsAreNumbers DEF Reached
<1> QED BY <1>1, OutboxInvariance, PTL

(* Meta is asked MAX_ATTEMPTS times at most, and once more for each        *)
(* outcome that was lost or overlap of two handlers: retry_pending.        *)
THEOREM AskedSoOften == OutboxSpec => []AttemptsAreBounded
<1>1. IInv => AttemptsAreBounded
  <2> SUFFICES ASSUME IInv, NEW i \in DOMAIN outbox PROVE tries[i] <= MAX_ATTEMPTS + spare[i]
    BY DEF AttemptsAreBounded
  <2>1. tries[i] \in Nat /\ spare[i] \in Nat /\ MAX_ATTEMPTS \in Nat
        /\ Spent(i) <= MAX_ATTEMPTS + spare[i]
    BY RowFields, OutboxBounds DEF IInv, RowOK
  <2> QED BY <2>1, CountsAreNumbers DEF Spent
<1> QED BY <1>1, OutboxInvariance, PTL

(* Who had not opted in is not told later: queue_and_send.                 *)
THEOREM RefusedStaysUntold == OutboxSpec => []RefusedIsNeverSent
<1>1. IInv => RefusedIsNeverSent
  BY DEF IInv, Refusals, RefusedIsNeverSent
<1> QED BY <1>1, OutboxInvariance, PTL

(* A message that is settled and was never shared stays as it is.          *)
THEOREM SettledStays == OutboxSpec => SettledIsFinal
<1> DEFINE Stays == \A i \in DOMAIN outbox :
                     outbox[i].status \in {"SENT", "SKIPPED"} /\ spare[i] = 0
                       => outbox'[i] = outbox[i]
<1>1. IInv /\ [OutboxNext]_outboxVars => [Stays]_outboxVars
  <2> SUFFICES ASSUME IInv, OutboxNext, NEW i \in DOMAIN outbox,
                      outbox[i].status \in {"SENT", "SKIPPED"}, spare[i] = 0
               PROVE  outbox'[i] = outbox[i]
    OBVIOUS
  <2>1. OutboxTypeOK /\ Holders(i) = {}
    BY DEF IInv, RowOK, Unsettled
  <2>2. ASSUME NEW s \in Senders, Skip(s) \/ Queue(s) PROVE outbox'[i] = outbox[i]
    <3>1. PICK r : outbox' = Append(outbox, r)
      BY <2>2 DEF Skip, Queue
    <3>2. outbox \in Seq(Row) /\ i \in 1 .. Len(outbox)
      BY <2>1, LenProperties DEF OutboxTypeOK
    <3> QED BY <3>1, <3>2
  <2>3. ASSUME NEW s \in Senders, Commit(s) PROVE outbox'[i] = outbox[i]
    <3>1. sending[s].rows # <<>>
      BY <2>3 DEF Commit, IInv, HandlerOK
    <3>2. Head(sending[s].rows) # i
      BY <3>1, <2>1, FirstRow DEF Holders
    <3> QED BY <2>3, <3>2, <2>1 DEF Commit, OutboxTypeOK
  <2>4. CASE outbox' = outbox
    BY <2>4
  <2>5. \/ \E s \in Senders : Skip(s) \/ Queue(s) \/ Commit(s)
        \/ outbox' = outbox
    BY DEF OutboxNext, Work, OptIn, OptOut, Dispatch, LookUpAdmins, QueueUnwritten, Retry,
           Send, CommitFails, Crash
  <2> QED BY <2>2, <2>3, <2>4, <2>5
<1>2. OutboxSpec => [][Stays]_outboxVars
  <2> HIDE DEF Stays
  <2> QED BY <1>1, OutboxInvariance, PTL DEF OutboxSpec
<1> QED BY <1>2 DEF SettledIsFinal
=============================================================================

---------------------------- MODULE InboxProofs ----------------------------
(***************************************************************************)
(* Proofs about Inbox: a message is acted on once, an opt-in was asked     *)
(* for, and the last word counts.                                          *)
(*                                                                         *)
(* A claim is either the first of its id, and leaves the id behind, or one *)
(* that Redis could not be asked about.  Every thread that has begun a     *)
(* message and not acted on it yet holds one of these claims, and acting   *)
(* on it spends it: that is what is inductive, for whatever threads,       *)
(* copies and restarts there are.                                          *)
(*                                                                         *)
(* The other two hold of a customer who waits.  Then there is one message  *)
(* that may still be acted on, the last that was written, and one thread   *)
(* that may act on it; so what that thread read is what it acts on, and    *)
(* what it answers was asked before the message was written.               *)
(***************************************************************************)
EXTENDS Inbox, FiniteSetTheorems, TLAPS

Holding(m) == {t \in Threads : /\ thread[t] # None /\ thread[t].message = m
                               /\ thread[t].task \in {"TAKEN", "READ"}}
Claims(m) == (IF m \in seen THEN 1 ELSE 0) + missed[m]

(* A task was queued by a delivery. *)
Queued == \A m \in Messages : queued[m] <= copies[m]
Spent  == \A m \in Messages : handled[m] + Cardinality(Holding(m)) <= Claims(m)

IInv == InboxTypeOK /\ consent \in [People -> BOOLEAN] /\ Queued /\ Spent
-----------------------------------------------------------------------------
(* Who holds a claim.                                                      *)
LEMMA HoldersAreFinite ==
  ASSUME NEW m
  PROVE  IsFiniteSet(Holding(m)) /\ Cardinality(Holding(m)) \in Nat
<1>1. Holding(m) \subseteq Threads /\ IsFiniteSet(Threads)
  BY InboxBounds DEF Holding
<1> QED BY <1>1, FS_Subset, FS_CardinalityType

LEMMA HoldersAreFiniteNext ==
  ASSUME NEW m
  PROVE  IsFiniteSet(Holding(m)') /\ Cardinality(Holding(m)') \in Nat
<1>1. Holding(m)' \subseteq Threads /\ IsFiniteSet(Threads)
  BY InboxBounds DEF Holding
<1> QED BY <1>1, FS_Subset, FS_CardinalityType

(* Nobody takes a claim, and none is lost.                                 *)
LEMMA NobodyClaims ==
  ASSUME IInv, UNCHANGED <<handled, missed, seen>>,
         \A m \in Messages : Holding(m)' \subseteq Holding(m)
  PROVE  Spent'
<1> SUFFICES ASSUME NEW m \in Messages
             PROVE  handled'[m] + Cardinality(Holding(m)') <= Claims(m)'
  BY DEF Spent
<1>1. Cardinality(Holding(m)') <= Cardinality(Holding(m))
  BY HoldersAreFinite, FS_Subset
<1>2. handled[m] \in Nat /\ missed[m] \in Nat
  BY DEF IInv, InboxTypeOK
<1> QED BY <1>1, <1>2, HoldersAreFinite, HoldersAreFiniteNext DEF IInv, Spent, Claims

LEMMA SomebodyClaims ==
  ASSUME IInv, NEW m \in Messages, NEW t, t \notin Holding(m), handled' = handled,
         Holding(m)' = Holding(m) \cup {t},
         \A k \in Messages \ {m} : Holding(k)' = Holding(k),
         \/ m \notin seen /\ seen' = seen \cup {m} /\ missed' = missed
         \/ seen' = seen /\ missed' = [missed EXCEPT ![m] = @ + 1]
  PROVE  Spent'
<1>1. handled \in [Messages -> Nat] /\ missed \in [Messages -> Nat]
  BY DEF IInv, InboxTypeOK
<1>2. Cardinality(Holding(m)') = Cardinality(Holding(m)) + 1
  <2>1. IsFiniteSet(Holding(m))
    BY HoldersAreFinite
  <2>2. Cardinality(Holding(m) \cup {t}) = Cardinality(Holding(m)) + 1
    BY <2>1, FS_AddElement
  <2> QED BY <2>2
<1>3. \A k \in Messages : handled[k] + Cardinality(Holding(k)) <= Claims(k)
  BY DEF IInv, Spent
<1>4. ASSUME NEW k \in Messages PROVE handled'[k] + Cardinality(Holding(k)') <= Claims(k)'
  <2>1. CASE k = m
    <3>1. Claims(k)' = Claims(k) + 1 /\ handled'[k] = handled[k]
      BY <1>1, <2>1 DEF Claims
    <3>2. Claims(k) \in Nat /\ handled[k] \in Nat
      BY <1>1 DEF Claims
    <3> QED BY <1>2, <1>3, <2>1, <3>1, <3>2, HoldersAreFinite
  <2>2. CASE k # m
    <3>1. Claims(k)' = Claims(k) /\ handled'[k] = handled[k] /\ Holding(k)' = Holding(k)
      BY <1>1, <2>2 DEF Claims
    <3> QED BY <1>3, <3>1
  <2> QED BY <2>1, <2>2
<1> QED BY <1>4 DEF Spent

LEMMA SomebodyActs ==
  ASSUME IInv, NEW m \in Messages, NEW t \in Holding(m),
         handled' = [handled EXCEPT ![m] = @ + 1], UNCHANGED <<seen, missed>>,
         Holding(m)' = Holding(m) \ {t},
         \A k \in Messages \ {m} : Holding(k)' = Holding(k)
  PROVE  Spent'
<1>1. handled \in [Messages -> Nat] /\ missed \in [Messages -> Nat]
  BY DEF IInv, InboxTypeOK
<1>2. Cardinality(Holding(m)') = Cardinality(Holding(m)) - 1
  <2>1. IsFiniteSet(Holding(m))
    BY HoldersAreFinite
  <2>2. Cardinality(Holding(m) \ {t}) = Cardinality(Holding(m)) - 1
    BY <2>1, FS_RemoveElement
  <2> QED BY <2>2
<1>3. \A k \in Messages : handled[k] + Cardinality(Holding(k)) <= Claims(k)
  BY DEF IInv, Spent
<1>4. ASSUME NEW k \in Messages PROVE handled'[k] + Cardinality(Holding(k)') <= Claims(k)'
  <2>1. CASE k = m
    <3>1. Claims(k)' = Claims(k) /\ handled'[k] = handled[k] + 1
      BY <1>1, <2>1 DEF Claims
    <3>2. Claims(k) \in Nat /\ handled[k] \in Nat
      BY <1>1 DEF Claims
    <3> QED BY <1>2, <1>3, <2>1, <3>1, <3>2, HoldersAreFinite
  <2>2. CASE k # m
    <3>1. Claims(k)' = Claims(k) /\ handled'[k] = handled[k] /\ Holding(k)' = Holding(k)
      BY <1>1, <2>2 DEF Claims
    <3> QED BY <1>3, <3>1
  <2> QED BY <2>1, <2>2
<1> QED BY <1>4 DEF Spent
-----------------------------------------------------------------------------
(* What comes in, and what stops.                                          *)
LEMMA OutsideIsSound ==
  ASSUME IInv,
         \/ \E m \in Messages : receive_whatsapp(m) \/ \E text \in Texts : Write(m, text)
         \/ SignupExpires \/ Restart
  PROVE  IInv'
<1> USE DEF IInv, InboxTypeOK
<1>1. ASSUME NEW m \in Messages, receive_whatsapp(m) PROVE IInv'
  <2>1. UNCHANGED <<wrote, seen, account, signup, thread, prompted, informed, handled, missed,
                    restarted, consent>>
    BY <1>1 DEF receive_whatsapp
  <2>2. /\ copies' = [copies EXCEPT ![m] = @ + 1] /\ queued' = [queued EXCEPT ![m] = @ + 1]
        /\ copies[m] < MaxCopies /\ queued[m] <= copies[m] /\ MaxCopies \in Nat
    BY <1>1, InboxBounds DEF receive_whatsapp, Queued
  <2>3. copies' \in [Messages -> 0 .. MaxCopies] /\ queued' \in [Messages -> 0 .. MaxCopies]
    BY <2>2
  <2>4. Queued'
    BY <2>2 DEF Queued
  <2>5. Spent'
    BY <2>1, NobodyClaims DEF Holding
  <2> QED BY <2>1, <2>3, <2>4, <2>5
<1>2. ASSUME NEW m \in Messages, NEW text \in Texts, Write(m, text) PROVE IInv'
  <2>1. UNCHANGED <<copies, queued, seen, account, signup, thread, prompted, handled, missed,
                    restarted, consent>>
    BY <1>2 DEF Write
  <2>2. wrote' \in [Messages -> Texts \cup {None}] /\ informed' \subseteq Messages
    BY <1>2 DEF Write
  <2>3. Spent'
    BY <2>1, NobodyClaims DEF Holding
  <2> QED BY <2>1, <2>2, <2>3 DEF Queued
<1>3. CASE SignupExpires
  <2>1. /\ UNCHANGED <<wrote, copies, informed, restarted, queued, seen, account, thread,
                       prompted, handled, missed, consent>>
        /\ signup' \in Signups
    BY <1>3 DEF SignupExpires, meta, Signups, At
  <2>2. Spent'
    BY <2>1, NobodyClaims DEF Holding
  <2> QED BY <2>1, <2>2 DEF Queued
<1>4. CASE Restart
  <2>1. /\ UNCHANGED <<wrote, copies, informed, seen, account, signup, prompted, handled,
                       missed, consent>>
        /\ queued' = [m \in Messages |-> 0] /\ thread' = [t \in Threads |-> None]
        /\ restarted' = TRUE
    BY <1>4 DEF Restart
  <2>2. queued' \in [Messages -> 0 .. MaxCopies] /\ Queued'
    BY <2>1, InboxBounds DEF Queued
  <2>3. \A m \in Messages : Holding(m)' = {}
    BY <2>1 DEF Holding
  <2>4. Spent'
    BY <2>1, <2>3, NobodyClaims
  <2> QED BY <2>1, <2>2, <2>4
<1> QED BY <1>1, <1>2, <1>3, <1>4

(* Taking a task off the queue. *)
LEMMA TakingIsSound ==
  ASSUME IInv, NEW m \in Messages, Take(m), UNCHANGED copies
  PROVE  queued' \in [Messages -> 0 .. MaxCopies] /\ Queued'
<1>1. /\ queued' = [queued EXCEPT ![m] = @ - 1] /\ queued[m] > 0
      /\ queued \in [Messages -> 0 .. MaxCopies] /\ copies \in [Messages -> 0 .. MaxCopies]
      /\ MaxCopies \in Nat
  BY InboxBounds DEF Take, IInv, InboxTypeOK
<1>2. queued' \in [Messages -> 0 .. MaxCopies]
  BY <1>1
<1>3. \A k \in Messages : queued'[k] <= queued[k] /\ queued[k] <= copies[k]
  BY <1>1 DEF IInv, Queued
<1> QED BY <1>1, <1>2, <1>3 DEF Queued

LEMMA BeginningIsSound ==
  ASSUME IInv, NEW t \in Threads, NEW m \in Messages, Claim(t, m) \/ ClaimFails(t, m)
  PROVE  IInv'
<1> DEFINE w == [task |-> "TAKEN", message |-> m, known |-> FALSE, opted |-> FALSE,
                 signup |-> At("NONE"), reply |-> "NONE"]
<1>1. /\ Take(m) /\ thread[t] = None /\ thread' = [thread EXCEPT ![t] = w]
      /\ UNCHANGED <<wrote, copies, informed, restarted, account, signup, prompted, handled,
                     consent>>
      /\ \/ m \notin seen /\ seen' = seen \cup {m} /\ missed' = missed
         \/ seen' = seen /\ missed' = [missed EXCEPT ![m] = @ + 1]
  BY DEF Claim, ClaimFails, Begin, meta
<1>3. w \in Working
  BY DEF Working, Signups, At, Replies
<1>4. w.task = "TAKEN" /\ w.message = m
  OBVIOUS
<1> HIDE DEF w
<1>5. thread' \in [Threads -> Working \cup {None}]
  BY <1>1, <1>3 DEF IInv, InboxTypeOK
<1>6. seen' \subseteq Messages /\ missed' \in [Messages -> Nat]
  BY <1>1 DEF IInv, InboxTypeOK
<1>7. queued' \in [Messages -> 0 .. MaxCopies] /\ Queued'
  BY <1>1, TakingIsSound
<1>8. /\ DOMAIN thread = Threads /\ \A u \in Threads : thread'[u] = IF u = t THEN w ELSE thread[u]
  BY <1>1 DEF IInv, InboxTypeOK
<1>9. CASE w # None
  <2>1. /\ t \notin Holding(m) /\ Holding(m)' = Holding(m) \cup {t}
        /\ \A k \in Messages \ {m} : Holding(k)' = Holding(k)
    BY <1>1, <1>4, <1>8, <1>9 DEF Holding
  <2>2. Spent'
    BY <1>1, <2>1, SomebodyClaims
  <2> QED BY <1>1, <1>5, <1>6, <1>7, <2>2 DEF IInv, InboxTypeOK
<1>10. CASE w = None
  <2>1. \A k \in Messages : Holding(k)' = Holding(k)
    BY <1>1, <1>8, <1>10 DEF Holding
  <2>2. ASSUME NEW k \in Messages PROVE Claims(k) <= Claims(k)' /\ Claims(k) \in Nat /\ Claims(k)' \in Nat
    BY <1>1, <1>6 DEF IInv, InboxTypeOK, Claims
  <2>3. Spent'
    <3>1. ASSUME NEW k \in Messages PROVE handled'[k] + Cardinality(Holding(k)') <= Claims(k)'
      <4>1. handled[k] \in Nat /\ handled[k] + Cardinality(Holding(k)) <= Claims(k)
        BY DEF IInv, InboxTypeOK, Spent
      <4> QED BY <1>1, <2>1, <2>2, <4>1, HoldersAreFinite
    <3> QED BY <3>1 DEF Spent
  <2> QED BY <1>1, <1>5, <1>6, <1>7, <2>3 DEF IInv, InboxTypeOK
<1> QED BY <1>9, <1>10

LEMMA DuplicateIsSound ==
  ASSUME IInv, NEW t \in Threads, NEW m \in Messages, Duplicate(t, m)
  PROVE  IInv'
<1>1. /\ Take(m)
      /\ UNCHANGED <<wrote, copies, informed, restarted, seen, account, signup, thread,
                     prompted, handled, missed, consent>>
  BY DEF Duplicate, meta
<1>2. Spent'
  BY <1>1, NobodyClaims DEF Holding
<1> QED BY <1>1, <1>2, TakingIsSound DEF IInv, InboxTypeOK
-----------------------------------------------------------------------------
(* What a thread does with the message it began.                           *)
LEMMA LookingIsSound == ASSUME IInv, NEW t \in Threads, Look(t) PROVE IInv'
<1> DEFINE w == [thread[t] EXCEPT !.task = "READ", !.known = account,
                                  !.opted = consent[Customer], !.signup = signup]
<1>1. /\ thread[t] # None /\ thread[t].task = "TAKEN" /\ thread' = [thread EXCEPT ![t] = w]
      /\ UNCHANGED <<wrote, copies, informed, restarted, queued, seen, account, signup, prompted,
                     handled, missed, consent>>
  BY DEF Look, Doing, meta
<1>2. thread[t] \in Working
  BY <1>1 DEF IInv, InboxTypeOK
<1>3. w \in Working /\ w.message = thread[t].message
  BY <1>2 DEF IInv, InboxTypeOK, Working, People
<1> HIDE DEF w
<1>4. \A u \in Threads : thread'[u] = IF u = t THEN w ELSE thread[u]
  BY <1>1 DEF IInv, InboxTypeOK
<1>5. \A m \in Messages : Holding(m)' \subseteq Holding(m)
  BY <1>1, <1>3, <1>4 DEF Holding
<1>6. Spent'
  BY <1>1, <1>5, NobodyClaims
<1> QED BY <1>1, <1>3, <1>6 DEF IInv, InboxTypeOK, Queued

LEMMA StepsOfASignup ==
  /\ \A step \in {"NONE", "NAME", "CONSENT"} : At(step) \in Signups /\ At(step).step = step
  /\ At("NONE") \in Signups /\ At("NAME") \in Signups /\ At("CONSENT") \in Signups
BY DEF At, Signups

LEMMA OneMoreIsAStep ==
  ASSUME NEW t \in Threads, thread[t] \in Working, thread[t].signup.tries < 1
  PROVE  OneMoreTry(t) \in Signups /\ OneMoreTry(t).step = thread[t].signup.step
<1> DEFINE p == thread[t].signup
<1>1. p \in Signups
  BY DEF Working
<1>2. p.step \in {"NONE", "NAME", "CONSENT"} /\ p.tries + 1 \in 0 .. 1
  BY <1>1 DEF Signups
<1>3. OneMoreTry(t) = [step |-> p.step, tries |-> p.tries + 1]
  BY <1>1 DEF OneMoreTry, Signups
<1> QED BY <1>2, <1>3 DEF Signups

LEMMA ActingIsSound ==
  ASSUME IInv, NEW t \in Threads, Doing(t, "READ"),
         NEW c \in [People -> BOOLEAN], NEW a \in BOOLEAN, NEW s \in Signups,
         NEW task \in {"CLEAR", "REPLY"}, NEW reply \in Replies, Act(t, c, a, s, task, reply)
  PROVE  IInv'
<1> DEFINE w == [thread[t] EXCEPT !.task = task, !.reply = reply]
<1>0. PICK m \in Messages : m = thread[t].message
  BY DEF Doing, IInv, InboxTypeOK, Working
<1>1. /\ thread[t] # None /\ thread[t].task = "READ" /\ thread' = [thread EXCEPT ![t] = w]
      /\ consent' = c /\ account' = a /\ signup' = s
      /\ handled' = [handled EXCEPT ![m] = @ + 1]
      /\ UNCHANGED <<wrote, copies, informed, restarted, queued, seen, prompted, missed>>
  BY <1>0 DEF Doing, Act, GoTo, meta
<1>2. thread[t] \in Working
  BY <1>1 DEF IInv, InboxTypeOK
<1>3. w \in Working /\ w.message = m /\ w.task = task
  BY <1>0, <1>2 DEF Working
<1>4. t \in Holding(m)
  BY <1>0, <1>1 DEF Holding
<1> HIDE DEF w
<1>5. \A u \in Threads : thread'[u] = IF u = t THEN w ELSE thread[u]
  BY <1>1 DEF IInv, InboxTypeOK
<1>6. Holding(m)' = Holding(m) \ {t} /\ \A k \in Messages \ {m} : Holding(k)' = Holding(k)
  BY <1>3, <1>4, <1>5 DEF Holding
<1>7. Spent'
  BY <1>1, <1>3, <1>4, <1>6, SomebodyActs
<1>8. handled' \in [Messages -> Nat]
  BY <1>1, <1>3 DEF IInv, InboxTypeOK
<1> QED BY <1>1, <1>3, <1>7, <1>8 DEF IInv, InboxTypeOK, Queued

LEMMA FinishingIsSound ==
  ASSUME IInv, NEW t \in Threads, ClearSignup(t) \/ send_reply(t)
  PROVE  IInv'
<1>1. /\ UNCHANGED <<wrote, copies, informed, restarted, queued, seen, account, handled, missed,
                     consent>>
      /\ signup' \in Signups /\ prompted' \in BOOLEAN
      /\ thread[t] # None /\ thread[t].task \in {"CLEAR", "REPLY"}
  BY StepsOfASignup DEF ClearSignup, send_reply, Doing, meta, IInv, InboxTypeOK
<1>2. thread[t] \in Working
  BY <1>1 DEF IInv, InboxTypeOK
<1>3. PICK w \in Working \cup {None} :
        /\ thread' = [thread EXCEPT ![t] = w]
        /\ w # None => w.task = "REPLY"
  <2>1. CASE ClearSignup(t)
    <3> DEFINE w == [thread[t] EXCEPT !.task = "REPLY", !.reply = "PLAIN"]
    <3>1. w \in Working /\ w.task = "REPLY"
      BY <1>2 DEF Working, Replies
    <3>2. thread' = [thread EXCEPT ![t] = w]
      BY <2>1 DEF ClearSignup, GoTo
    <3> QED BY <3>1, <3>2
  <2>2. CASE send_reply(t)
    BY <2>2 DEF send_reply
  <2> QED BY <2>1, <2>2
<1>4. \A u \in Threads : thread'[u] = IF u = t THEN w ELSE thread[u]
  BY <1>3 DEF IInv, InboxTypeOK
<1>5. \A m \in Messages : Holding(m)' \subseteq Holding(m)
  BY <1>3, <1>4 DEF Holding
<1>6. Spent'
  BY <1>1, <1>5, NobodyClaims
<1>7. thread' \in [Threads -> Working \cup {None}]
  BY <1>3 DEF IInv, InboxTypeOK
<1> QED BY <1>1, <1>6, <1>7 DEF IInv, InboxTypeOK, Queued

LEMMA HandlingIsSound ==
  ASSUME IInv, NEW t \in Threads, HandleMessage(t)
  PROVE  IInv'
<1>1. /\ consent \in [People -> BOOLEAN] /\ account \in BOOLEAN /\ signup \in Signups
      /\ {"PLAIN", "PROMPT"} \subseteq Replies
      /\ [consent EXCEPT ![Customer] = TRUE] \in [People -> BOOLEAN]
  BY DEF IInv, InboxTypeOK, Replies
<1>2. CASE OptOutByText(t)
  <2>1. thread[t] # None /\ thread[t] \in Working
    BY <1>2 DEF OptOutByText, Doing, IInv, InboxTypeOK
  <2>2. StopConsent(t) \in [People -> BOOLEAN]
    BY <1>1, <2>1 DEF StopConsent
  <2> QED BY <1>1, <1>2, <2>2, ActingIsSound DEF OptOutByText
<1>3. CASE OptInByText(t)
  <2>1. thread[t] # None /\ thread[t] \in Working
    BY <1>3 DEF OptInByText, Doing, IInv, InboxTypeOK
  <2>2. StartConsent(t) \in [People -> BOOLEAN]
    BY <1>1, <2>1 DEF StartConsent
  <2> QED BY <1>1, <1>3, <2>2, ActingIsSound DEF OptInByText
<1>4. CASE ToConversation(t)
  BY <1>1, <1>4, ActingIsSound DEF ToConversation
<1>5. CASE AskName(t) \/ GiveName(t)
  BY <1>1, <1>5, StepsOfASignup, ActingIsSound DEF AskName, GiveName, AtStep, SigningUp
<1>8. CASE AskNameAgain(t)
  <2>1. thread[t] \in Working
    BY <1>8 DEF AskNameAgain, AtStep, SigningUp, Doing, IInv, InboxTypeOK
  <2>2. OneMoreTry(t) \in Signups
    BY <1>8, <2>1, OneMoreIsAStep DEF AskNameAgain
  <2> QED BY <1>1, <1>8, <2>2, ActingIsSound DEF AskNameAgain, AtStep, SigningUp
<1>6. CASE Agree(t) \/ AgreeTwice(t)
  BY <1>1, <1>6, ActingIsSound DEF Agree, AgreeTwice, AtStep, SigningUp
<1>7. CASE Decline(t) \/ AskConsentAgain(t)
  BY <1>1, <1>7, StepsOfASignup, ActingIsSound DEF Decline, AskConsentAgain, AtStep, SigningUp
<1> QED BY <1>2, <1>3, <1>4, <1>5, <1>6, <1>7, <1>8, BeginningIsSound, DuplicateIsSound,
           LookingIsSound, FinishingIsSound DEF HandleMessage
-----------------------------------------------------------------------------
LEMMA FromTheStart == OutboxInit /\ InboxInit => IInv
<1> SUFFICES ASSUME OutboxInit, InboxInit PROVE IInv
  OBVIOUS
<1>1. consent \in [People -> BOOLEAN]
  BY DEF OutboxInit
<1>2. /\ handled = [m \in Messages |-> 0] /\ missed = [m \in Messages |-> 0]
      /\ copies = [m \in Messages |-> 0] /\ queued = [m \in Messages |-> 0]
      /\ seen = {} /\ thread = [t \in Threads |-> None]
      /\ wrote = [m \in Messages |-> None] /\ account \in BOOLEAN /\ signup = At("NONE")
      /\ prompted = FALSE /\ informed = {} /\ restarted = FALSE
  BY DEF InboxInit
<1>3. InboxTypeOK
  <2>1. copies \in [Messages -> 0 .. MaxCopies] /\ queued \in [Messages -> 0 .. MaxCopies]
    BY <1>2, InboxBounds
  <2>2. /\ wrote \in [Messages -> Texts \cup {None}] /\ handled \in [Messages -> Nat]
        /\ missed \in [Messages -> Nat] /\ thread \in [Threads -> Working \cup {None}]
    BY <1>2
  <2> QED BY <1>2, <2>1, <2>2, StepsOfASignup DEF InboxTypeOK
<1>4. Queued
  BY <1>2 DEF Queued
<1>5. Spent
  <2>1. \A m \in Messages : Holding(m) = {} /\ Claims(m) = 0 /\ handled[m] = 0
    BY <1>2 DEF Holding, Claims
  <2> QED BY <2>1, FS_EmptySet DEF Spent
<1> QED BY <1>1, <1>3, <1>4, <1>5 DEF IInv

(* The types, and the account of claims: what was acted on and is not the  *)
(* first time is covered by a claim that failed (_already_processed).      *)
THEOREM InboxInvariance == InboxSpec => []IInv
<1>1. IInv /\ [InboxNext]_<<outboxVars, inboxVars>> => IInv'
  <2> SUFFICES ASSUME IInv, [InboxNext]_<<outboxVars, inboxVars>> PROVE IInv'
    OBVIOUS
  <2>1. CASE InboxNext
    BY <2>1, OutsideIsSound, HandlingIsSound DEF InboxNext
  <2>2. CASE UNCHANGED <<outboxVars, inboxVars>>
    BY <2>2 DEF outboxVars, inboxVars, IInv, InboxTypeOK, Queued, Spent, Holding, Claims
  <2> QED BY <2>1, <2>2
<1> QED BY <1>1, FromTheStart, PTL DEF InboxSpec

(* The webhook's state always has its type (webhook.py:113-377): what is   *)
(* queued was delivered, and a signup is at one of its steps.              *)
THEOREM InboxTypeCorrect == InboxSpec => []InboxTypeOK
<1>1. IInv => InboxTypeOK
  BY DEF IInv
<1> QED BY <1>1, InboxInvariance, PTL

(* However many copies of a message arrive, on however many threads, it is *)
(* acted on once, and once more for each time Redis could not be asked     *)
(* (_already_processed, webhook.py:113-124).                               *)
THEOREM ActedOnOnce == InboxSpec => []HandledOnce
<1>1. IInv => HandledOnce
  <2> SUFFICES ASSUME IInv, NEW m \in Messages PROVE handled[m] <= 1 + missed[m]
    BY DEF HandledOnce
  <2>1. /\ handled[m] \in Nat /\ missed[m] \in Nat /\ Claims(m) <= 1 + missed[m]
        /\ Claims(m) \in Nat
    BY DEF IInv, InboxTypeOK, Claims
  <2>2. handled[m] + Cardinality(Holding(m)) <= Claims(m)
    BY DEF IInv, Spent
  <2> QED BY <2>1, <2>2, HoldersAreFinite
<1> QED BY <1>1, InboxInvariance, PTL
-----------------------------------------------------------------------------
(* A customer who waits. *)

(* Redis could always be asked; and the process was never restarted.       *)
Sure == Patient /\ \A m \in Messages : missed[m] = 0
Calm == Sure /\ ~restarted

(* Written, and not dealt with.                                            *)
Busy(t, m) == thread[t] # None /\ thread[t].message = m
Open(m) == wrote[m] # None /\ (m \notin seen \/ \E t \in Threads : Busy(t, m))

InOrder  == \A m \in Messages : wrote[m] # None => \A k \in 1 .. m - 1 : wrote[k] # None
Came     == \A m \in Messages :
              copies[m] > 0 \/ m \in seen \/ (\E t \in Threads : Busy(t, m)) => wrote[m] # None
LastOpen == \A m \in Messages : Open(m) => \A k \in Messages : wrote[k] # None => k <= m
Claimed  == \A t \in Threads : \A m \in Messages : Busy(t, m) => m \in seen
Turns    == InOrder /\ Came /\ (Sure => LastOpen /\ Claimed)

(* What a thread read is still so; and the last word stands.               *)
NoAccount == ~account => /\ ~consent[Customer]
                         /\ \A t \in Threads : ~(Doing(t, "READ") /\ thread[t].known)
AsRead    == \A t \in Threads : Doing(t, "READ") =>
               thread[t].known = account /\ thread[t].opted = consent[Customer]
Stands(w) == \/ consent[Customer] = (wrote[w] = "START")
             \/ \E m \in Messages : m > w /\ wrote[m] = "YES"
LastWord  == Words # {} => \E w \in Words : /\ \A k \in Words : k <= w
                                            /\ account => Stands(w)
Answers   == NoAccount /\ (Sure => AsRead /\ LastWord)

(* The consent text precedes the message that can answer it.               *)
Pending(m) == wrote[m] # None /\ m \notin informed /\ (m \notin seen \/ Holding(m) # {})
Untold     == \A m \in Messages : Pending(m) => signup.step # "CONSENT"
Asking     == \E t \in Threads : Doing(t, "REPLY") /\ thread[t].reply = "PROMPT"
Asked      == signup.step = "CONSENT" => prompted \/ Asking
ReadUntold == \A t \in Threads : Doing(t, "READ") /\ thread[t].message \notin informed
                => thread[t].signup.step # "CONSENT"
Prompts    == Calm => Untold /\ Asked /\ ReadUntold

Patience == IInv /\ Turns /\ Answers /\ Prompts
-----------------------------------------------------------------------------
(* Whose turn it is. *)

LEMMA MessagesAreNumbers ==
  \A m \in Messages : m \in Nat \ {0} /\ \A k \in 1 .. m - 1 : k \in Messages
<1>1. PICK n : n = Cardinality(Messages)
  OBVIOUS
<1>2. Messages = 1 .. n /\ n \in Nat
  BY <1>1, InboxBounds, FS_CardinalityType
<1> QED BY <1>2

(* A thread at work is at work on a message.                               *)
LEMMA ThreadsAreBusy ==
  ASSUME IInv, NEW t \in Threads, thread[t] # None
  PROVE  thread[t] \in Working /\ thread[t].message \in Messages /\ Busy(t, thread[t].message)
<1>1. thread[t] \in Working
  BY DEF IInv, InboxTypeOK
<1> QED BY <1>1 DEF Working, Busy

(* Only one message is at work, and is nothing that is yet to come.        *)
LEMMA OneMessage ==
  ASSUME IInv, Turns, Sure, NEW t \in Threads, NEW m \in Messages, Busy(t, m)
  PROVE  /\ wrote[m] # None /\ m \in seen
         /\ \A k \in Messages : wrote[k] # None => k <= m
         /\ \A k \in Messages : Open(k) => k = m
<1>1. wrote[m] # None /\ m \in seen
  BY DEF Turns, Came, Claimed
<1>2. Open(m)
  BY <1>1 DEF Open
<1>3. \A k \in Messages : wrote[k] # None => k <= m
  BY <1>2 DEF Turns, LastOpen
<1>4. ASSUME NEW k \in Messages, Open(k) PROVE k = m
  <2>1. wrote[k] # None
    BY <1>4 DEF Open
  <2>2. m <= k
    BY <1>1, <1>4 DEF Turns, LastOpen
  <2> QED BY <1>3, <2>1, <2>2, MessagesAreNumbers
<1> QED BY <1>1, <1>3, <1>4

(* And only one thread can still act on it.                                *)
LEMMA OneThread ==
  ASSUME IInv, Turns, Sure, NEW t \in Threads, NEW m \in Messages, t \in Holding(m)
  PROVE  handled[m] = 0 /\ Holding(m) = {t}
<1>1. handled[m] \in Nat /\ missed[m] = 0 /\ handled[m] + Cardinality(Holding(m)) <= Claims(m)
  BY DEF IInv, InboxTypeOK, Spent, Sure
<1>2. Claims(m) \in 0 .. 1
  BY <1>1 DEF Claims
<1>3. /\ Cardinality(Holding(m) \ {t}) = Cardinality(Holding(m)) - 1
      /\ IsFiniteSet(Holding(m) \ {t})
  BY HoldersAreFinite, FS_RemoveElement
<1>4. Cardinality(Holding(m) \ {t}) \in Nat
  BY <1>3, FS_CardinalityType
<1>5. Cardinality(Holding(m)) \in Nat
  BY HoldersAreFinite
<1>6. handled[m] = 0 /\ Cardinality(Holding(m) \ {t}) = 0
  BY <1>1, <1>2, <1>3, <1>4, <1>5
<1>7. Holding(m) \ {t} = {}
  BY <1>3, <1>6, FS_EmptySet
<1> QED BY <1>6, <1>7

(* What nobody claimed was not acted on.                                   *)
LEMMA UnclaimedIsUnhandled ==
  ASSUME IInv, Sure, NEW m \in Messages, m \notin seen
  PROVE  handled[m] = 0
<1>1. handled[m] \in Nat /\ missed[m] = 0 /\ handled[m] + Cardinality(Holding(m)) <= Claims(m)
  BY DEF IInv, InboxTypeOK, Spent, Sure
<1>2. Claims(m) = 0
  BY <1>1 DEF Claims
<1> QED BY <1>1, <1>2, HoldersAreFinite

(* Nothing comes in, and nobody begins.                                    *)
LEMMA SameTurns ==
  ASSUME Turns, UNCHANGED <<wrote, copies, seen, missed>>,
         \A t \in Threads : \A m \in Messages : Busy(t, m)' => Busy(t, m)
  PROVE  Turns'
<1>1. InOrder' /\ Came'
  BY DEF Turns, InOrder, Came
<1>2. Sure' = Sure
  BY DEF Sure
<1>3. ASSUME Sure PROVE LastOpen' /\ Claimed'
  BY <1>3 DEF Turns, LastOpen, Open, Claimed
<1> QED BY <1>1, <1>2, <1>3 DEF Turns

(* What the customer was told and has said is as it was.                   *)
LEMMA SameAnswers ==
  ASSUME Answers, UNCHANGED <<wrote, handled, account, consent, missed>>,
         \A t \in Threads : Doing(t, "READ")' => Doing(t, "READ") /\ thread'[t] = thread[t]
  PROVE  Answers'
<1>1. Words' = Words /\ Sure' = Sure
  BY DEF Words, Sure
<1>2. \A w : Stands(w)' = Stands(w)
  BY DEF Stands
<1> QED BY <1>1, <1>2 DEF Answers, NoAccount, AsRead, LastWord, Doing

LEMMA SamePrompts ==
  ASSUME Prompts, UNCHANGED <<wrote, informed, seen, missed, restarted, prompted>>,
         signup' \in {signup, At("NONE")},
         \A t \in Threads : Doing(t, "READ")' => Doing(t, "READ") /\ thread'[t] = thread[t],
         Asking => Asking',
         \A m \in Messages : Holding(m)' \subseteq Holding(m)
  PROVE  Prompts'
<1>1. Calm' = Calm
  BY DEF Calm, Sure
<1>2. ASSUME Calm PROVE Untold' /\ Asked' /\ ReadUntold'
  <2>1. \A m \in Messages : Pending(m)' => Pending(m)
    BY DEF Pending
  <2>2. Untold' /\ Asked'
    BY <1>2, <2>1, StepsOfASignup DEF Prompts, Untold, Asked
  <2>3. ReadUntold'
    BY <1>2 DEF Prompts, ReadUntold, Doing
  <2> QED BY <2>2, <2>3
<1> QED BY <1>1, <1>2 DEF Prompts
-----------------------------------------------------------------------------
(* What comes in, and what stops.                                          *)
LEMMA DeliveryWaits ==
  ASSUME Patience, NEW m \in Messages, receive_whatsapp(m)
  PROVE  Turns' /\ Answers' /\ Prompts'
<1>1. /\ wrote[m] # None /\ copies' = [copies EXCEPT ![m] = @ + 1]
      /\ UNCHANGED <<wrote, seen, account, signup, thread, prompted, informed, handled, missed,
                     restarted, consent>>
  BY DEF receive_whatsapp
<1>2. copies \in [Messages -> 0 .. MaxCopies]
  BY DEF Patience, IInv, InboxTypeOK
<1>3. Turns'
  <2>1. \A k \in Messages : k # m => copies'[k] = copies[k]
    BY <1>1, <1>2
  <2>2. InOrder' /\ Came'
    BY <1>1, <2>1 DEF Patience, Turns, InOrder, Came, Busy
  <2>3. Sure' = Sure /\ LastOpen' = LastOpen /\ Claimed' = Claimed
    BY <1>1 DEF Sure, LastOpen, Open, Claimed, Busy
  <2> QED BY <2>2, <2>3 DEF Patience, Turns
<1>4. Answers'
  BY <1>1, SameAnswers DEF Patience, Doing
<1>5. Prompts'
  BY <1>1, SamePrompts DEF Patience, Doing, Asking, Holding
<1> QED BY <1>3, <1>4, <1>5

(* The customer writes when everything before was dealt with.              *)
LEMMA WritingWaits ==
  ASSUME Patience, NEW m \in Messages, NEW text \in Texts, Write(m, text)
  PROVE  Turns' /\ Answers' /\ Prompts'
<1>1. /\ wrote[m] = None /\ \A k \in 1 .. m - 1 : wrote[k] # None
      /\ Patient => ~Waiting /\ InHand = {}
      /\ wrote' = [wrote EXCEPT ![m] = text]
      /\ informed' = IF prompted THEN informed \cup {m} ELSE informed
      /\ UNCHANGED <<copies, queued, seen, account, signup, thread, prompted, handled, missed,
                     restarted, consent>>
  BY DEF Write
<1>2. /\ DOMAIN wrote = Messages /\ text # None
      /\ \A k \in Messages : wrote'[k] = IF k = m THEN text ELSE wrote[k]
  BY <1>1, NothingAssumption DEF Patience, IInv, InboxTypeOK
<1>3. Sure' = Sure /\ Calm' = Calm
  BY <1>1 DEF Sure, Calm
<1>4. ASSUME Patient, NEW t \in Threads PROVE thread[t] = None
  BY <1>1, <1>4 DEF InHand
<1>5. ASSUME NEW k \in Messages, wrote'[k] # None PROVE k <= m
  <2>1. CASE k = m
    BY <2>1, MessagesAreNumbers
  <2>2. CASE k # m
    <3>1. wrote[k] # None
      BY <1>2, <1>5, <2>2
    <3>2. m \notin 1 .. k - 1
      BY <1>1, <3>1 DEF Patience, Turns, InOrder
    <3> QED BY <3>2, MessagesAreNumbers
  <2> QED BY <2>1, <2>2
<1>6. ASSUME Sure, NEW k \in Messages, wrote[k] # None PROVE k \in seen /\ k # m
  <2>1. CASE k \notin seen
    <3>1. handled[k] # 0
      BY <1>1, <1>6, <2>1 DEF Waiting, Sure
    <3> QED BY <1>6, <2>1, <3>1, UnclaimedIsUnhandled DEF Patience
  <2> QED BY <1>1, <1>6, <2>1
<1>7. Turns'
  <2>1. InOrder' /\ Came'
    <3>1. InOrder'
      <4> SUFFICES ASSUME NEW k \in Messages, wrote'[k] # None, NEW j \in 1 .. k - 1
                   PROVE  wrote'[j] # None
        BY DEF InOrder
      <4>1. j \in Messages
        BY MessagesAreNumbers
      <4>2. CASE k = m
        BY <1>1, <1>2, <4>1, <4>2
      <4>3. CASE k # m
        BY <1>2, <4>1, <4>3 DEF Patience, Turns, InOrder
      <4> QED BY <4>2, <4>3
    <3>2. Came'
      BY <1>1, <1>2 DEF Patience, Turns, Came, Busy
    <3> QED BY <3>1, <3>2
  <2>2. ASSUME Sure PROVE LastOpen' /\ Claimed'
    <3>1. \A k \in Messages : Open(k)' => k = m
      BY <1>1, <1>2, <1>4, <1>6, <2>2 DEF Open, Busy, Sure
    <3>2. LastOpen'
      BY <1>5, <3>1 DEF LastOpen
    <3>3. Claimed'
      BY <1>1, <1>4, <2>2 DEF Claimed, Busy, Sure
    <3> QED BY <3>2, <3>3
  <2> QED BY <1>3, <2>1, <2>2 DEF Turns
<1>8. Answers'
  <2>1. NoAccount'
    BY <1>1 DEF Patience, Answers, NoAccount, Doing
  <2>2. ASSUME Sure PROVE AsRead' /\ LastWord'
    <3>1. AsRead'
      BY <1>1, <1>4, <2>2 DEF AsRead, Doing, Sure
    <3>2. Words' = Words
      <4>1. m \notin seen
        BY <1>1 DEF Patience, Turns, Came
      <4>2. handled[m] = 0
        BY <2>2, <4>1, UnclaimedIsUnhandled DEF Patience
      <4> QED BY <1>1, <1>2, <4>2 DEF Words
    <3>3. \A w \in Words : Stands(w) => Stands(w)'
      <4>1. \A w \in Words : wrote[w] # None
        BY NothingAssumption DEF Words, Texts
      <4>2. \A w \in Words : w # m /\ w \in Messages
        BY <1>1, <4>1 DEF Words
      <4>3. \A k \in Messages : wrote[k] = "YES" => wrote'[k] = "YES"
        BY <1>1, <1>2, NothingAssumption DEF Texts
      <4> QED BY <1>1, <1>2, <4>2, <4>3 DEF Stands
    <3>4. LastWord'
      BY <1>1, <2>2, <3>2, <3>3 DEF Patience, Answers, LastWord
    <3> QED BY <3>1, <3>4
  <2> QED BY <1>3, <2>1, <2>2 DEF Answers
<1>9. Prompts'
  <2> SUFFICES ASSUME Calm PROVE Untold' /\ Asked' /\ ReadUntold'
    BY <1>3 DEF Prompts
  <2>1. Sure /\ Patient
    BY DEF Calm, Sure
  <2>2. signup.step = "CONSENT" => prompted
    BY <1>4, <2>1 DEF Patience, Prompts, Asked, Asking, Doing
  <2>3. Asked' /\ ReadUntold'
    BY <1>1, <1>4, <2>1, <2>2 DEF Asked, ReadUntold, Doing
  <2>4. Untold'
    <3>1. ASSUME NEW k \in Messages, Pending(k)' PROVE signup.step # "CONSENT"
      <4>1. CASE k = m
        BY <1>1, <2>2, <3>1, <4>1 DEF Pending
      <4>2. CASE k # m
        <5>1. k \notin informed /\ wrote[k] # None /\ Holding(k)' = Holding(k)
          BY <1>1, <1>2, <3>1, <4>2 DEF Pending, Holding
        <5> QED BY <1>1, <3>1, <5>1 DEF Patience, Prompts, Untold, Pending
      <4> QED BY <4>1, <4>2
    <3> QED BY <1>1, <3>1 DEF Untold
  <2> QED BY <2>3, <2>4
<1> QED BY <1>7, <1>8, <1>9

LEMMA StoppingWaits ==
  ASSUME Patience, SignupExpires \/ Restart
  PROVE  Turns' /\ Answers' /\ Prompts'
<1>1. CASE SignupExpires
  <2>1. /\ UNCHANGED <<wrote, copies, informed, restarted, queued, seen, account, thread, prompted,
                       handled, missed, consent>>
        /\ signup' = At("NONE")
    BY <1>1 DEF SignupExpires, meta
  <2>2. Turns'
    BY <2>1, SameTurns DEF Patience, Busy
  <2>3. Answers'
    BY <2>1, SameAnswers DEF Patience, Doing
  <2>4. Prompts'
    BY <2>1, SamePrompts DEF Patience, Doing, Asking, Holding
  <2> QED BY <2>2, <2>3, <2>4
<1>2. CASE Restart
  <2>1. /\ UNCHANGED <<wrote, copies, informed, seen, account, signup, prompted, handled, missed,
                       consent>>
        /\ thread' = [t \in Threads |-> None] /\ restarted' = TRUE
    BY <1>2 DEF Restart
  <2>2. Turns'
    BY <2>1, SameTurns DEF Patience, Busy
  <2>3. Answers'
    BY <2>1, SameAnswers DEF Patience, Doing
  <2>4. Prompts'
    BY <2>1 DEF Prompts, Calm
  <2> QED BY <2>2, <2>3, <2>4
<1> QED BY <1>1, <1>2

-----------------------------------------------------------------------------
(* What a thread does.                                                     *)
LEMMA ClaimWaits ==
  ASSUME Patience, NEW t \in Threads, NEW m \in Messages, Claim(t, m)
  PROVE  Turns' /\ Answers' /\ Prompts'
<1> DEFINE w == [task |-> "TAKEN", message |-> m, known |-> FALSE, opted |-> FALSE,
                 signup |-> At("NONE"), reply |-> "NONE"]
<1>1. /\ Take(m) /\ thread[t] = None /\ m \notin seen /\ seen' = seen \cup {m}
      /\ thread' = [thread EXCEPT ![t] = w]
      /\ UNCHANGED <<wrote, copies, informed, restarted, account, signup, prompted, handled,
                     missed, consent>>
  BY DEF Claim, Begin, meta
<1>2. w.task = "TAKEN" /\ w.message = m
  OBVIOUS
<1>3. w # None
  <2>1. w \in Working
    BY DEF Working, Signups, At, Replies
  <2> QED BY <2>1, NothingAssumption
<1> HIDE DEF w
<1>4. \A u \in Threads : thread'[u] = IF u = t THEN w ELSE thread[u]
  BY <1>1 DEF Patience, IInv, InboxTypeOK
<1>5. wrote[m] # None
  <2>1. queued[m] > 0 /\ queued[m] <= copies[m]
    BY <1>1 DEF Take, Patience, IInv, Queued
  <2>2. copies[m] > 0
    BY <2>1 DEF Patience, IInv, InboxTypeOK
  <2> QED BY <2>2 DEF Patience, Turns, Came
<1>6. Sure' = Sure /\ Calm' = Calm
  BY <1>1 DEF Sure, Calm
<1>7. \A u \in Threads : \A k \in Messages : Busy(u, k)' <=> Busy(u, k) \/ (u = t /\ k = m)
  BY <1>1, <1>2, <1>3, <1>4 DEF Busy
<1>8. Turns'
  <2>1. InOrder' /\ Came'
    BY <1>1, <1>5, <1>7 DEF Patience, Turns, InOrder, Came
  <2>2. ASSUME Sure PROVE LastOpen' /\ Claimed'
    <3>1. \A k \in Messages : Open(k)' => Open(k)
      BY <1>1, <1>5, <1>7 DEF Open
    <3>2. LastOpen'
      BY <1>1, <2>2, <3>1 DEF Patience, Turns, LastOpen
    <3>3. Claimed'
      BY <1>1, <1>7, <2>2 DEF Patience, Turns, Claimed
    <3> QED BY <3>2, <3>3
  <2> QED BY <1>6, <2>1, <2>2 DEF Turns
<1>9. \A u \in Threads : Doing(u, "READ")' => Doing(u, "READ") /\ thread'[u] = thread[u]
  BY <1>2, <1>4 DEF Doing
<1>10. Answers'
  BY <1>1, <1>9, SameAnswers DEF Patience
<1>11. ASSUME Calm PROVE Untold' /\ Asked' /\ ReadUntold'
  <2>1. \A k \in Messages : Pending(k)' => Pending(k)
    BY <1>1, <1>2, <1>4 DEF Pending, Holding
  <2>2. Untold'
    BY <1>1, <1>11, <2>1 DEF Patience, Prompts, Untold
  <2>3. Asking => Asking'
    BY <1>1, <1>4 DEF Asking, Doing
  <2>4. Asked'
    BY <1>1, <1>11, <2>3 DEF Patience, Prompts, Asked
  <2>5. ReadUntold'
    BY <1>1, <1>9, <1>11 DEF Patience, Prompts, ReadUntold, Doing
  <2> QED BY <2>2, <2>4, <2>5
<1> QED BY <1>6, <1>8, <1>10, <1>11 DEF Prompts

(* Nothing is promised of a customer whose message was let in twice.       *)
LEMMA FailureWaits ==
  ASSUME Patience, NEW t \in Threads, NEW m \in Messages, Duplicate(t, m) \/ ClaimFails(t, m)
  PROVE  Turns' /\ Answers' /\ Prompts'
<1>1. CASE Duplicate(t, m)
  <2>1. UNCHANGED <<wrote, copies, informed, restarted, seen, account, signup, thread, prompted,
                    handled, missed, consent>>
    BY <1>1 DEF Duplicate, meta
  <2>2. Turns'
    BY <2>1, SameTurns DEF Patience, Busy
  <2>3. Answers'
    BY <2>1, SameAnswers DEF Patience, Doing
  <2>4. Prompts'
    BY <2>1, SamePrompts DEF Patience, Doing, Asking, Holding
  <2> QED BY <2>2, <2>3, <2>4
<1>2. CASE ClaimFails(t, m)
  <2> DEFINE w == [task |-> "TAKEN", message |-> m, known |-> FALSE, opted |-> FALSE,
                   signup |-> At("NONE"), reply |-> "NONE"]
  <2>1. /\ Take(m) /\ missed' = [missed EXCEPT ![m] = @ + 1]
        /\ thread' = [thread EXCEPT ![t] = w]
        /\ UNCHANGED <<wrote, copies, informed, restarted, seen, account, consent>>
    BY <1>2 DEF ClaimFails, Begin, meta
  <2>2. w.message = m
    OBVIOUS
  <2> HIDE DEF w
  <2>3. \A u \in Threads : thread'[u] = IF u = t THEN w ELSE thread[u]
    BY <2>1 DEF Patience, IInv, InboxTypeOK
  <2>4. missed'[m] # 0
    BY <2>1 DEF Patience, IInv, InboxTypeOK
  <2>5. ~Sure'
    BY <2>4 DEF Sure
  <2>6. wrote[m] # None
    <3>1. queued[m] > 0 /\ queued[m] <= copies[m]
      BY <2>1 DEF Take, Patience, IInv, Queued
    <3>2. copies[m] > 0
      BY <3>1 DEF Patience, IInv, InboxTypeOK
    <3> QED BY <3>2 DEF Patience, Turns, Came
  <2>7. InOrder' /\ Came'
    BY <2>1, <2>2, <2>3, <2>6 DEF Patience, Turns, InOrder, Came, Busy
  <2>8. NoAccount'
    <3>1. w.task = "TAKEN"
      BY DEF w
    <3>2. \A u \in Threads : Doing(u, "READ")' => Doing(u, "READ") /\ thread'[u] = thread[u]
      BY <2>3, <3>1 DEF Doing
    <3> QED BY <2>1, <3>2 DEF Patience, Answers, NoAccount, Doing
  <2> QED BY <2>5, <2>7, <2>8 DEF Turns, Answers, Prompts, Calm
<1> QED BY <1>1, <1>2

LEMMA LookingWaits ==
  ASSUME Patience, NEW t \in Threads, Look(t)
  PROVE  Turns' /\ Answers' /\ Prompts'
<1> DEFINE w == [thread[t] EXCEPT !.task = "READ", !.known = account,
                                  !.opted = consent[Customer], !.signup = signup]
<1>1. /\ thread[t] # None /\ thread[t].task = "TAKEN" /\ thread' = [thread EXCEPT ![t] = w]
      /\ UNCHANGED <<wrote, copies, informed, restarted, queued, seen, account, signup, prompted,
                     handled, missed, consent>>
  BY DEF Look, Doing, meta
<1>2. /\ thread[t] \in Working /\ thread[t].message \in Messages
      /\ Busy(t, thread[t].message)
  BY <1>1, ThreadsAreBusy DEF Patience
<1>3. PICK m \in Messages : m = thread[t].message
  BY <1>2
<1>4. w.task = "READ" /\ w.message = m /\ w.known = account /\ w.opted = consent[Customer]
      /\ w.signup = signup
  BY <1>2, <1>3 DEF Working
<1> HIDE DEF w
<1>5. \A u \in Threads : thread'[u] = IF u = t THEN w ELSE thread[u]
  BY <1>1 DEF Patience, IInv, InboxTypeOK
<1>6. Turns'
  BY <1>1, <1>3, <1>4, <1>5, SameTurns DEF Patience, Busy
<1>7. Words' = Words /\ Sure' = Sure /\ Calm' = Calm /\ \A v : Stands(v)' = Stands(v)
  BY <1>1 DEF Words, Sure, Calm, Stands
<1>8. Answers'
  BY <1>1, <1>4, <1>5, <1>7 DEF Patience, Answers, NoAccount, AsRead, LastWord, Doing
<1>9. ASSUME Calm PROVE Untold' /\ Asked' /\ ReadUntold'
  <2>1. t \in Holding(m)
    BY <1>1, <1>3 DEF Holding
  <2>2. \A k \in Messages : Holding(k)' \subseteq Holding(k)
    BY <1>1, <1>3, <1>4, <1>5, <2>1 DEF Holding
  <2>3. Untold'
    BY <1>1, <1>9, <2>2 DEF Patience, Prompts, Untold, Pending
  <2>4. Asking => Asking'
    BY <1>1, <1>5 DEF Asking, Doing
  <2>5. Asked'
    BY <1>1, <1>9, <2>4 DEF Patience, Prompts, Asked
  <2>6. m \notin informed => signup.step # "CONSENT"
    <3>1. wrote[m] # None
      BY <1>2, <1>3 DEF Patience, Turns, Came
    <3> QED BY <1>9, <2>1, <3>1 DEF Patience, Prompts, Untold, Pending
  <2>7. ReadUntold'
    BY <1>1, <1>4, <1>5, <1>9, <2>6 DEF Patience, Prompts, ReadUntold, Doing
  <2> QED BY <2>3, <2>5, <2>7
<1> QED BY <1>6, <1>7, <1>8, <1>9 DEF Prompts

LEMMA FinishingWaits ==
  ASSUME Patience, NEW t \in Threads, ClearSignup(t) \/ send_reply(t)
  PROVE  Turns' /\ Answers' /\ Prompts'
<1>1. CASE ClearSignup(t)
  <2> DEFINE w == [thread[t] EXCEPT !.task = "REPLY", !.reply = "PLAIN"]
  <2>1. /\ thread[t] # None /\ thread[t].task = "CLEAR" /\ thread' = [thread EXCEPT ![t] = w]
        /\ signup' = At("NONE")
        /\ UNCHANGED <<wrote, copies, informed, restarted, queued, seen, account, prompted,
                       handled, missed, consent>>
    BY <1>1 DEF ClearSignup, GoTo, Doing, meta
  <2>2. thread[t] \in Working
    BY <2>1, ThreadsAreBusy DEF Patience
  <2>3. w.task = "REPLY" /\ w.message = thread[t].message
    BY <2>2 DEF Working
  <2> HIDE DEF w
  <2>4. \A u \in Threads : thread'[u] = IF u = t THEN w ELSE thread[u]
    BY <2>1 DEF Patience, IInv, InboxTypeOK
  <2>5. Turns'
    BY <2>1, <2>3, <2>4, SameTurns DEF Patience, Busy
  <2>6. \A u \in Threads : Doing(u, "READ")' => Doing(u, "READ") /\ thread'[u] = thread[u]
    BY <2>3, <2>4 DEF Doing
  <2>7. Answers'
    BY <2>1, <2>6, SameAnswers DEF Patience
  <2>8. /\ Asking => Asking'
        /\ \A k \in Messages : Holding(k)' \subseteq Holding(k)
    BY <2>1, <2>3, <2>4 DEF Asking, Doing, Holding
  <2>9. Prompts'
    BY <2>1, <2>6, <2>8, SamePrompts DEF Patience
  <2> QED BY <2>5, <2>7, <2>9
<1>2. CASE send_reply(t)
  <2>1. /\ thread[t] # None /\ thread[t].task = "REPLY" /\ thread' = [thread EXCEPT ![t] = None]
        /\ prompted' = (prompted \/ thread[t].reply = "PROMPT")
        /\ UNCHANGED <<wrote, copies, informed, restarted, queued, seen, account, signup, handled,
                       missed, consent>>
    BY <1>2 DEF send_reply, Doing, meta
  <2>2. \A u \in Threads : thread'[u] = IF u = t THEN None ELSE thread[u]
    BY <2>1 DEF Patience, IInv, InboxTypeOK
  <2>3. Turns'
    BY <2>1, <2>2, SameTurns DEF Patience, Busy
  <2>4. \A u \in Threads : Doing(u, "READ")' => Doing(u, "READ") /\ thread'[u] = thread[u]
    BY <2>2 DEF Doing
  <2>5. Answers'
    BY <2>1, <2>4, SameAnswers DEF Patience
  <2>6. ASSUME Calm PROVE Untold' /\ Asked' /\ ReadUntold'
    <3>1. \A k \in Messages : Holding(k)' \subseteq Holding(k)
      BY <2>2 DEF Holding
    <3>2. Untold'
      BY <2>1, <2>6, <3>1 DEF Patience, Prompts, Untold, Pending
    <3>3. Asking => prompted' \/ Asking'
      BY <2>1, <2>2 DEF Asking, Doing
    <3>4. Asked'
      BY <2>1, <2>6, <3>3 DEF Patience, Prompts, Asked
    <3>5. ReadUntold'
      BY <2>1, <2>4, <2>6 DEF Patience, Prompts, ReadUntold, Doing
    <3> QED BY <3>2, <3>4, <3>5
  <2>7. Calm' = Calm
    BY <2>1 DEF Calm, Sure
  <2> QED BY <2>3, <2>5, <2>6, <2>7 DEF Prompts
<1> QED BY <1>1, <1>2

(* Whoever acts is the only one who can, on the last message there is: the *)
(* next thing comes after it.                                              *)
LEMMA ActingWaits ==
  ASSUME Patience, NEW t \in Threads, Doing(t, "READ"), NEW c, NEW a, NEW s,
         NEW task \in {"CLEAR", "REPLY"}, NEW reply \in Replies, Act(t, c, a, s, task, reply),
         ~a => ~account /\ ~c[Customer],
         \/ a = account /\ c = consent /\ Says(t) \notin {"STOP", "START"}
         \/ a = TRUE /\ c[Customer] = TRUE /\ Says(t) = "YES"
         \/ /\ Says(t) \in {"STOP", "START"}
            /\ Sure /\ a => c[Customer] = (Says(t) = "START"),
         s.step = "CONSENT" => signup.step = "CONSENT" \/ (task = "REPLY" /\ reply = "PROMPT")
  PROVE  Turns' /\ Answers' /\ Prompts'
<1> DEFINE w == [thread[t] EXCEPT !.task = task, !.reply = reply]
<1>1. thread[t] # None /\ thread[t].task = "READ"
  BY DEF Doing
<1>2. /\ thread[t] \in Working /\ thread[t].message \in Messages
      /\ Busy(t, thread[t].message)
  BY <1>1, ThreadsAreBusy DEF Patience
<1>3. PICK m \in Messages : m = thread[t].message
  BY <1>2
<1>4. /\ thread' = [thread EXCEPT ![t] = w]
      /\ consent' = c /\ account' = a /\ signup' = s
      /\ handled' = [handled EXCEPT ![m] = @ + 1]
      /\ UNCHANGED <<wrote, copies, informed, restarted, queued, seen, prompted, missed>>
  BY <1>3 DEF Act, GoTo, meta
<1>5. w.task = task /\ w.message = m /\ w.reply = reply
  BY <1>2, <1>3 DEF Working
<1>6. w # None
  BY <1>2, NothingAssumption DEF Working
<1> HIDE DEF w
<1>7. \A u \in Threads : thread'[u] = IF u = t THEN w ELSE thread[u]
  BY <1>4 DEF Patience, IInv, InboxTypeOK
<1>8. t \in Holding(m) /\ Busy(t, m)
  BY <1>1, <1>2, <1>3 DEF Holding
<1>9. Sure' = Sure /\ Calm' = Calm
  BY <1>4 DEF Sure, Calm
<1>10. Turns'
  BY <1>3, <1>4, <1>5, <1>7, <1>8, SameTurns DEF Patience, Busy
<1>11. ASSUME Sure
       PROVE  /\ handled[m] = 0 /\ wrote[m] # None /\ m \in seen
              /\ \A k \in Messages : wrote[k] # None => k <= m
              /\ \A k \in Messages : Open(k) => k = m
              /\ \A k \in Messages : Holding(k)' = {}
              /\ \A u \in Threads : ~Doing(u, "READ")'
  <2>1. handled[m] = 0 /\ Holding(m) = {t}
    BY <1>8, <1>11, OneThread DEF Patience
  <2>2. /\ wrote[m] # None /\ m \in seen
        /\ \A k \in Messages : wrote[k] # None => k <= m
        /\ \A k \in Messages : Open(k) => k = m
    BY <1>8, <1>11, OneMessage DEF Patience
  <2>3. ASSUME NEW u \in Threads, thread'[u] # None
        PROVE  thread'[u].task \notin {"TAKEN", "READ"}
    <3>1. CASE u = t
      BY <1>5, <1>7, <3>1
    <3>2. CASE u # t
      <4>1. thread[u] # None /\ thread'[u] = thread[u]
        BY <1>7, <2>3, <3>2
      <4>2. thread[u].message \in Messages /\ Busy(u, thread[u].message)
        BY <4>1, ThreadsAreBusy DEF Patience
      <4>3. Open(thread[u].message)
        BY <4>2 DEF Open, Patience, Turns, Came
      <4>4. thread[u].message = m
        BY <2>2, <4>2, <4>3
      <4>5. u \notin Holding(m)
        BY <2>1, <3>2
      <4> QED BY <4>1, <4>4, <4>5 DEF Holding
    <3> QED BY <3>1, <3>2
  <2>4. \A k \in Messages : Holding(k)' = {}
    BY <2>3 DEF Holding
  <2>5. \A u \in Threads : ~Doing(u, "READ")'
    BY <2>3 DEF Doing
  <2> QED BY <2>1, <2>2, <2>4, <2>5
<1>12. Answers'
  <2>1. NoAccount'
    <3>1. \A u \in Threads : Doing(u, "READ")' => u # t /\ thread'[u] = thread[u]
      BY <1>5, <1>7 DEF Doing
    <3> QED BY <1>4, <3>1 DEF Patience, Answers, NoAccount, Doing
  <2>2. ASSUME Sure PROVE AsRead' /\ LastWord'
    <3>1. AsRead'
      BY <1>11, <2>2 DEF AsRead
    <3>2. handled \in [Messages -> Nat]
      BY DEF Patience, IInv, InboxTypeOK
    <3>3. /\ \A k \in Messages : handled'[k] > 0 <=> handled[k] > 0 \/ k = m
      BY <1>4, <3>2
    <3>4. m \notin Words /\ \A k \in Words : k \in Messages /\ k < m /\ wrote[k] # None
      <4>1. m \notin Words
        BY <1>11, <2>2 DEF Words
      <4>2. \A k \in Words : k \in Messages /\ wrote[k] # None
        BY NothingAssumption DEF Words, Texts
      <4> QED BY <1>11, <2>2, <4>1, <4>2, MessagesAreNumbers
    <3>5. CASE Says(t) \in {"STOP", "START"}
      <4>1. Words' = Words \cup {m}
        BY <1>3, <1>4, <3>3, <3>5 DEF Words, Says
      <4>2. account' => Stands(m)'
        BY <1>3, <1>4, <2>2, <3>5 DEF Stands, Says
      <4>3. \A k \in Words' : k <= m
        BY <3>4, <4>1, MessagesAreNumbers
      <4> QED BY <3>1, <4>1, <4>2, <4>3 DEF LastWord
    <3>6. CASE Says(t) \notin {"STOP", "START"}
      <4>1. Words' = Words
        BY <1>3, <1>4, <3>3, <3>6 DEF Words, Says
      <4>2. ASSUME NEW k \in Words, account => Stands(k) PROVE account' => Stands(k)'
        <5>1. CASE a = account /\ c = consent
          BY <1>4, <4>2, <5>1 DEF Stands
        <5>2. CASE Says(t) = "YES"
          <6>1. m > k /\ wrote'[m] = "YES"
            BY <1>3, <1>4, <3>4, <5>2, MessagesAreNumbers DEF Says
          <6> QED BY <6>1 DEF Stands
        <5> QED BY <3>6, <5>1, <5>2
      <4>3. LastWord'
        BY <2>2, <4>1, <4>2 DEF Patience, Answers, LastWord
      <4> QED BY <3>1, <4>3
    <3> QED BY <3>5, <3>6
  <2> QED BY <1>9, <2>1, <2>2 DEF Answers
<1>13. ASSUME Calm PROVE Untold' /\ Asked' /\ ReadUntold'
  <2>1. Sure
    BY <1>13 DEF Calm
  <2>2. Untold' /\ ReadUntold'
    <3>1. ASSUME NEW k \in Messages PROVE ~Pending(k)'
      BY <1>4, <1>11, <2>1 DEF Pending, Open
    <3> QED BY <1>11, <2>1, <3>1 DEF Untold, ReadUntold
  <2>3. Asked'
    <3>1. CASE task = "REPLY" /\ reply = "PROMPT"
      BY <1>5, <1>7, <3>1, <1>6 DEF Asked, Asking, Doing
    <3>2. CASE signup.step = "CONSENT" \/ s.step # "CONSENT"
      <4>1. Asking => Asking'
        BY <1>1, <1>7 DEF Asking, Doing
      <4> QED BY <1>4, <1>13, <3>2, <4>1 DEF Patience, Prompts, Asked
    <3> QED BY <3>1, <3>2
  <2> QED BY <2>2, <2>3
<1> QED BY <1>9, <1>10, <1>12, <1>13 DEF Prompts

LEMMA HandlingWaits ==
  ASSUME Patience, NEW t \in Threads, HandleMessage(t)
  PROVE  Turns' /\ Answers' /\ Prompts'
<1>1. ASSUME Doing(t, "READ")
      PROVE  /\ thread[t].known \in BOOLEAN /\ thread[t].opted \in BOOLEAN
             /\ Sure => thread[t].known = account /\ thread[t].opted = consent[Customer]
  <2>1. thread[t] \in Working
    BY <1>1, ThreadsAreBusy DEF Doing, Patience
  <2> QED BY <1>1, <2>1 DEF Working, Patience, Answers, AsRead
<1>2. /\ consent \in [People -> BOOLEAN] /\ account \in BOOLEAN /\ Customer \in People
      /\ ~account => ~consent[Customer]
      /\ {"PLAIN", "PROMPT"} \subseteq Replies
      /\ signup \in Signups
  BY DEF Patience, IInv, InboxTypeOK, Answers, NoAccount, People, Replies
<1>3. CASE OptOutByText(t)
  <2>1. StopConsent(t)[Customer] = (consent[Customer] /\ ~(thread[t].known /\ thread[t].opted))
    BY <1>2 DEF StopConsent
  <2>2. ~account => ~StopConsent(t)[Customer]
    BY <1>2, <2>1
  <2>3. Sure /\ account => ~StopConsent(t)[Customer]
    BY <1>1, <1>3, <2>1 DEF OptOutByText
  <2>4. StopConsent(t)[Customer] \in BOOLEAN
    BY <2>1
  <2> QED BY <1>2, <1>3, <2>2, <2>3, <2>4, ActingWaits DEF OptOutByText
<1>4. CASE OptInByText(t)
  <2>1. StartConsent(t)[Customer] = (consent[Customer] \/ ~thread[t].opted)
    BY <1>2 DEF StartConsent
  <2>2. CASE account
    <3>1. Sure => StartConsent(t)[Customer] = TRUE
      BY <1>1, <1>2, <1>4, <2>1 DEF OptInByText
    <3> QED BY <1>2, <1>4, <2>2, <3>1, ActingWaits DEF OptInByText
  <2>3. CASE ~account
    BY <1>4, <2>3 DEF OptInByText, Patience, Answers, NoAccount
  <2> QED BY <2>2, <2>3
<1>5. CASE ToConversation(t)
  BY <1>2, <1>5, ActingWaits DEF ToConversation
<1>6. CASE Agree(t)
  <2>1. [consent EXCEPT ![Customer] = TRUE][Customer] = TRUE
    BY <1>2
  <2> QED BY <1>2, <1>6, <2>1, ActingWaits DEF Agree, AtStep, SigningUp
<1>7. CASE AgreeTwice(t) \/ Decline(t) \/ AskConsentAgain(t) \/ AskName(t) \/ GiveName(t)
           \/ AskNameAgain(t)
  <2>1. PICK s \in Signups, reply \in Replies :
          /\ Doing(t, "READ") /\ Act(t, consent, account, s, "REPLY", reply)
          /\ Says(t) # "STOP" /\ ~thread[t].known
          /\ s.step = "CONSENT" => signup.step = "CONSENT" \/ reply = "PROMPT"
    <3>1. CASE AgreeTwice(t)
      BY <1>2, <3>1 DEF AgreeTwice, AtStep, SigningUp
    <3>2. CASE Decline(t)
      BY <1>2, <3>2, StepsOfASignup DEF Decline, AtStep, SigningUp
    <3>3. CASE AskConsentAgain(t)
      BY <1>2, <3>3 DEF AskConsentAgain, AtStep, SigningUp
    <3>4. CASE AskName(t)
      BY <1>2, <3>4, StepsOfASignup DEF AskName, AtStep, SigningUp
    <3>5. CASE GiveName(t)
      BY <1>2, <3>5, StepsOfASignup DEF GiveName, AtStep, SigningUp
    <3>6. CASE AskNameAgain(t)
      <4>1. thread[t] \in Working /\ thread[t].signup.tries < 1
        BY <3>6 DEF AskNameAgain, AtStep, SigningUp, Doing, Patience, IInv, InboxTypeOK
      <4>2. OneMoreTry(t) \in Signups /\ OneMoreTry(t).step # "CONSENT"
        BY <3>6, <4>1, OneMoreIsAStep DEF AskNameAgain, AtStep
      <4> QED BY <1>2, <3>6, <4>2 DEF AskNameAgain, AtStep, SigningUp
    <3> QED BY <1>7, <3>1, <3>2, <3>3, <3>4, <3>5, <3>6
  <2>2. CASE Says(t) = "START"
    <3>1. Sure => ~account
      BY <1>1, <2>1
    <3> QED BY <1>2, <2>1, <2>2, <3>1, ActingWaits
  <2>3. CASE Says(t) # "START"
    BY <1>2, <2>1, <2>3, ActingWaits
  <2> QED BY <2>2, <2>3
<1> QED BY <1>3, <1>4, <1>5, <1>6, <1>7, ClaimWaits, FailureWaits, LookingWaits, FinishingWaits
        DEF HandleMessage

LEMMA PatienceHolds ==
  /\ OutboxInit /\ InboxInit => Patience
  /\ Patience /\ [InboxNext]_<<outboxVars, inboxVars>> => Patience'
<1>1. ASSUME OutboxInit, InboxInit PROVE Patience
  <2>1. /\ IInv /\ wrote = [m \in Messages |-> None] /\ copies = [m \in Messages |-> 0]
        /\ handled = [m \in Messages |-> 0] /\ seen = {} /\ account \in BOOLEAN /\ signup = At("NONE")
        /\ thread = [t \in Threads |-> None]
        /\ account \/ ~consent[Customer]
    BY <1>1, FromTheStart DEF InboxInit
  <2>2. /\ \A m \in Messages : wrote[m] = None /\ ~(copies[m] > 0) /\ ~(handled[m] > 0)
        /\ \A t \in Threads : thread[t] = None
    BY <2>1
  <2>3. Turns
    <3>1. \A t \in Threads, m \in Messages : ~Busy(t, m)
      BY <2>2 DEF Busy
    <3>2. InOrder /\ Came
      BY <2>1, <2>2, <3>1 DEF InOrder, Came
    <3>3. LastOpen /\ Claimed
      BY <2>2, <3>1 DEF LastOpen, Open, Claimed
    <3> QED BY <3>2, <3>3 DEF Turns
  <2>4. Words = {}
    BY <2>2 DEF Words
  <2>5. Answers
    BY <2>1, <2>2, <2>4 DEF Answers, NoAccount, AsRead, LastWord, Doing
  <2>6. Prompts
    BY <2>1, <2>2, StepsOfASignup DEF Prompts, Untold, Asked, ReadUntold, Doing
  <2> QED BY <2>1, <2>3, <2>5, <2>6 DEF Patience
<1>2. ASSUME Patience, InboxNext PROVE Patience'
  <2>1. IInv'
    BY <1>2, OutsideIsSound, HandlingIsSound DEF InboxNext, Patience
  <2>2. Turns' /\ Answers' /\ Prompts'
    BY <1>2, DeliveryWaits, WritingWaits, StoppingWaits, HandlingWaits DEF InboxNext
  <2> QED BY <2>1, <2>2 DEF Patience
<1>3. ASSUME Patience, UNCHANGED <<outboxVars, inboxVars>> PROVE Patience'
  <2>1. UNCHANGED <<consent, wrote, copies, queued, seen, account, signup, thread, prompted,
                    informed, handled, missed, restarted>>
    BY <1>3 DEF outboxVars, inboxVars
  <2>2. IInv'
    BY <1>3, <2>1 DEF Patience, IInv, InboxTypeOK, Queued, Spent, Holding, Claims
  <2>3. Turns'
    BY <1>3, <2>1, SameTurns DEF Patience, Busy
  <2>4. Answers'
    BY <1>3, <2>1, SameAnswers DEF Patience, Doing
  <2>5. Prompts'
    BY <1>3, <2>1, SamePrompts DEF Patience, Doing, Asking, Holding
  <2> QED BY <2>2, <2>3, <2>4, <2>5 DEF Patience
<1> QED BY <1>1, <1>2, <1>3

(* What a customer who waits for replies can rely on is inductive, for any *)
(* number of messages, copies, threads and restarts (webhook.py:113-377).  *)
THEOREM PatienceInvariance == InboxSpec => []Patience
<1> QED BY PatienceHolds, PTL DEF InboxSpec

(* When nothing is left to handle, the last word on being messaged that    *)
(* was handled stands (record_opt_in and record_opt_out), for a customer   *)
(* who waits.                                                              *)
THEOREM LastWordStands ==
  ASSUME Patient
  PROVE  InboxSpec => []LastWordCounts
<1>1. Patience => LastWordCounts
  <2> SUFFICES ASSUME Patience, account, Words # {}, \A m \in Messages : missed[m] = 0
               PROVE  Stands(Max(Words))
    BY DEF LastWordCounts, Stands
  <2>1. PICK w \in Words : (\A k \in Words : k <= w) /\ Stands(w)
    BY DEF Patience, Answers, Sure, LastWord
  <2>2. Words \subseteq Messages
    BY DEF Words
  <2>3. /\ \E v \in Words : \A k \in Words : v >= k
        /\ Max(Words) = CHOOSE v \in Words : \A k \in Words : v >= k
    BY <2>1, <2>2, MessagesAreNumbers DEF Max
  <2>4. Max(Words) \in Words /\ \A k \in Words : Max(Words) >= k
    BY <2>3
  <2>5. Max(Words) = w
    BY <2>1, <2>2, <2>4, MessagesAreNumbers
  <2> QED BY <2>1, <2>5
<1> QED BY <1>1, PatienceInvariance, PTL

(* The YES that makes an account and its opt-in was written after the      *)
(* consent text was sent (_handle_new_user), by a customer who waits.      *)
THEOREM ConsentWasAskedFor ==
  ASSUME Patient
  PROVE  InboxSpec => ConsentIsInformed
<1> DEFINE Step == \A t \in Threads :
      account' /\ ~account /\ Doing(t, "READ") /\ thread'[t] # thread[t]
        => thread[t].message \in informed \/ restarted \/ \E m \in Messages : missed[m] > 0
<1>1. Patience /\ [InboxNext]_<<outboxVars, inboxVars>> => [Step]_<<outboxVars, inboxVars>>
  <2> SUFFICES ASSUME Patience, InboxNext, NEW t \in Threads, account', ~account,
                      Doing(t, "READ"), thread'[t] # thread[t], ~restarted,
                      \A m \in Messages : ~(missed[m] > 0)
               PROVE  thread[t].message \in informed
    OBVIOUS
  <2>1. PICK u \in Threads : Agree(u)
    <3>1. PICK u \in Threads : HandleMessage(u)
      BY DEF InboxNext, receive_whatsapp, Write, SignupExpires, Restart
    <3>2. \A m \in Messages : ~Claim(u, m) /\ ~Duplicate(u, m) /\ ~ClaimFails(u, m)
      BY DEF Claim, Duplicate, ClaimFails
    <3>3. ~Look(u) /\ ~ClearSignup(u) /\ ~send_reply(u)
      BY DEF Look, ClearSignup, send_reply
    <3>4. ~OptOutByText(u) /\ ~OptInByText(u) /\ ~ToConversation(u)
      BY DEF OptOutByText, OptInByText, ToConversation, Act
    <3>5. ~AskName(u) /\ ~GiveName(u) /\ ~AskNameAgain(u)
      BY DEF AskName, GiveName, AskNameAgain, Act
    <3>6. ~AgreeTwice(u) /\ ~Decline(u) /\ ~AskConsentAgain(u)
      BY DEF AgreeTwice, Decline, AskConsentAgain, Act
    <3> QED BY <3>1, <3>2, <3>3, <3>4, <3>5, <3>6 DEF HandleMessage
  <2>2. u = t
    BY <2>1 DEF Agree, Act, GoTo, Patience, IInv, InboxTypeOK
  <2>3. Calm
    BY DEF Calm, Sure, Patience, IInv, InboxTypeOK
  <2>4. thread[t].signup.step = "CONSENT"
    BY <2>1, <2>2 DEF Agree, AtStep
  <2> QED BY <2>3, <2>4 DEF Patience, Prompts, ReadUntold
<1> QED BY <1>1, PatienceInvariance, PTL DEF InboxSpec, ConsentIsInformed
=============================================================================

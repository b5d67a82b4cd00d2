------------------------------- MODULE Inbox -------------------------------
(***************************************************************************)
(* What a customer writes to the shop: the webhook, the claim on a message *)
(* that keeps Meta's retries out, opting out and in, and signing up.       *)
(*                                                                         *)
(* Meta is answered first and a message is handled afterwards, on a        *)
(* thread.  The thread claims the message's id in Redis, looks the sender  *)
(* up, reads how far a signup has come, writes, and replies last.  An      *)
(* account is committed before the signup is cleared; a second one for the *)
(* number is refused by the table.                                         *)
(*                                                                         *)
(* The number is the Customer's of the outbox, and consent is the account's*)
(* opt-in.                                                                 *)
(***************************************************************************)
EXTENDS Outbox

CONSTANTS
  Messages,     \* 1 .. n: what the customer writes, in this order
  Threads,
  MaxCopies,    \* bound: times Meta delivers a message; one comes twice
  Patient,      \* whether the customer waits for a reply before the next
  MaxMissed     \* bound: claims of one message that fail with Redis

VARIABLES
  wrote,     \* what each message says, None for one not written yet
  copies,    \* how often each was delivered
  queued,    \* background tasks: the messages delivered and not begun
  seen,      \* Redis: ids that are claimed
  account,   \* whether the number has an account
  signup,    \* Redis: how far signing up has come
  thread,    \* what each thread is doing
  prompted,  \* history: the consent text was sent
  informed,  \* history: messages written after that
  handled,   \* history: how often each message was acted on
  missed,    \* history: claims that failed with Redis
  restarted  \* history: the process was restarted; bound: once, and not
             \* after Redis failed

inboxVars == <<wrote, copies, queued, seen, account, signup, thread, prompted, informed,
               handled, missed, restarted>>
meta == <<wrote, copies, informed, restarted>>
notOutbox == <<outbox, sending, histories>>

ASSUME InboxBounds == /\ IsFiniteSet(Messages) /\ Messages = 1 .. Cardinality(Messages)
                      /\ MaxCopies \in Nat \ {0} /\ IsFiniteSet(Threads)
                      /\ Patient \in BOOLEAN /\ MaxMissed \in Nat

(* OTHER is neither a name nor an answer; a START is taken for a name by   *)
(* who asks for one, no such word being among those a name is not.         *)
Texts     == {"STOP", "START", "YES", "NO", "NAME", "OTHER"}
NameTexts == {"NAME", "START"}

(* tries: the answers that were no name.  known, opted: whether the number *)
(* had an account, and its opt-in, as read.                                *)
Signups == [step : {"NONE", "NAME", "CONSENT"}, tries : 0 .. 1]
At(step) == [step |-> step, tries |-> 0]
Replies == {"NONE", "PLAIN", "PROMPT"}
Working == [task : {"TAKEN", "READ", "CLEAR", "REPLY"}, message : Messages,
            known : BOOLEAN, opted : BOOLEAN, signup : Signups, reply : Replies]

ASSUME NothingAssumption == None \notin Texts \cup Working

(* Every variable has its type, and a signup is at one of the steps of     *)
(* _handle_new_user: a name is asked for twice at most.                    *)
InboxTypeOK ==
  /\ wrote \in [Messages -> Texts \cup {None}]
  /\ copies \in [Messages -> 0 .. MaxCopies] /\ queued \in [Messages -> 0 .. MaxCopies]
  /\ seen \subseteq Messages
  /\ account \in BOOLEAN /\ signup \in Signups
  /\ thread \in [Threads -> Working \cup {None}]
  /\ prompted \in BOOLEAN /\ informed \subseteq Messages
  /\ handled \in [Messages -> Nat] /\ missed \in [Messages -> Nat] /\ restarted \in BOOLEAN

InboxInit ==
  /\ wrote = [m \in Messages |-> None]
  /\ copies = [m \in Messages |-> 0] /\ queued = copies
  /\ seen = {}
  /\ account \in BOOLEAN /\ signup = At("NONE")
  /\ account \/ ~consent[Customer]
  /\ thread = [t \in Threads |-> None]
  /\ prompted = FALSE /\ informed = {}
  /\ handled = copies /\ missed = copies /\ restarted = FALSE
-----------------------------------------------------------------------------
(* The customer and Meta. *)

InHand == {thread[t].message : t \in {u \in Threads : thread[u] # None}}
(* A message that was claimed and lost is one the customer gives up on.    *)
Waiting == \E m \in Messages : wrote[m] # None /\ m \notin seen /\ handled[m] = 0

Write(m, text) ==
  /\ wrote[m] = None /\ \A k \in 1 .. m - 1 : wrote[k] # None
  /\ Patient => ~Waiting /\ InHand = {}
  /\ wrote' = [wrote EXCEPT ![m] = text]
  /\ informed' = IF prompted THEN informed \cup {m} ELSE informed
  /\ UNCHANGED <<copies, queued, seen, account, signup, thread, prompted, handled, missed>>
  /\ UNCHANGED <<restarted, consent, notOutbox>>

(* receive_whatsapp: the task is queued, and Meta is answered; it may come *)
(* again all the same.                                                     *)
receive_whatsapp(m) ==
  /\ wrote[m] # None /\ copies[m] < MaxCopies
  /\ copies[m] > 0 => \A k \in Messages \ {m} : copies[k] <= 1
  /\ copies' = [copies EXCEPT ![m] = @ + 1]
  /\ queued' = [queued EXCEPT ![m] = @ + 1]
  /\ UNCHANGED <<wrote, seen, account, signup, thread, prompted, informed, handled, missed>>
  /\ UNCHANGED <<restarted, consent, notOutbox>>
-----------------------------------------------------------------------------
(* A thread handles a message. *)

Take(m) == queued[m] > 0 /\ queued' = [queued EXCEPT ![m] = @ - 1]

Begin(t, m) ==
  thread' = [thread EXCEPT ![t] = [task |-> "TAKEN", message |-> m, known |-> FALSE,
                                   opted |-> FALSE, signup |-> At("NONE"), reply |-> "NONE"]]

(* Mutant: the id is looked up and not claimed. *)
LookUp(t, m) ==
  /\ thread[t] = None /\ Take(m)
  /\ m \notin seen
  /\ Begin(t, m)
  /\ UNCHANGED <<meta, seen, account, signup, prompted, handled, missed, consent, notOutbox>>

(* A claim is kept; in the code it lasts a day, and what Meta delivers a    *)
(* second time later than that is handled again.                           *)
Claim(t, m) ==
  /\ thread[t] = None /\ Take(m)
  /\ m \notin seen
  /\ seen' = seen \cup {m}
  /\ Begin(t, m)
  /\ UNCHANGED <<meta, account, signup, prompted, handled, missed, consent, notOutbox>>

Duplicate(t, m) ==
  /\ thread[t] = None /\ Take(m)
  /\ m \in seen
  /\ UNCHANGED <<meta, seen, account, signup, thread, prompted, handled, missed>>
  /\ UNCHANGED <<consent, notOutbox>>

(* Redis is down: better a duplicate than a message dropped. *)
ClaimFails(t, m) ==
  /\ missed[m] < MaxMissed /\ ~restarted /\ \A k \in Messages \ {m} : missed[k] = 0
  /\ thread[t] = None /\ Take(m)
  /\ missed' = [missed EXCEPT ![m] = @ + 1]
  /\ Begin(t, m)
  /\ UNCHANGED <<meta, seen, account, signup, prompted, handled, consent, notOutbox>>

Doing(t, task) == thread[t] # None /\ thread[t].task = task
GoTo(t, task, reply) == thread' = [thread EXCEPT ![t].task = task, ![t].reply = reply]

Look(t) ==
  /\ Doing(t, "TAKEN")
  /\ thread' = [thread EXCEPT ![t].task = "READ", ![t].known = account,
                            ![t].opted = consent[Customer], ![t].signup = signup]
  /\ UNCHANGED <<meta, queued, seen, account, signup, prompted, handled, missed>>
  /\ UNCHANGED <<consent, notOutbox>>

Says(t) == wrote[thread[t].message]

(* Only a change to what was read is written.                              *)
StopConsent(t)  == [consent EXCEPT ![Customer] = @ /\ ~(thread[t].known /\ thread[t].opted)]
StartConsent(t) == [consent EXCEPT ![Customer] = @ \/ ~thread[t].opted]

(* What an action does to the consent, the account and the signup, and     *)
(* what is left to be done.                                                *)
Act(t, newConsent, newAccount, newSignup, task, reply) ==
  /\ consent' = newConsent /\ account' = newAccount /\ signup' = newSignup
  /\ handled' = [handled EXCEPT ![thread[t].message] = @ + 1]
  /\ GoTo(t, task, reply)
  /\ UNCHANGED <<meta, queued, seen, prompted, missed, notOutbox>>

(* Mutant: an opt-out is answered and not recorded. *)
OnlyAnswer(t) ==
  /\ Doing(t, "READ") /\ Says(t) = "STOP"
  /\ Act(t, consent, account, signup, "REPLY", "PLAIN")

OptOutByText(t) ==
  /\ Doing(t, "READ") /\ Says(t) = "STOP"
  /\ Act(t, StopConsent(t), account, signup, "REPLY", "PLAIN")

OptInByText(t) ==
  /\ Doing(t, "READ") /\ Says(t) = "START" /\ thread[t].known
  /\ Act(t, StartConsent(t), account, signup, "REPLY", "PLAIN")

(* Anything else from somebody with an account is for the order flow. *)
ToConversation(t) ==
  /\ Doing(t, "READ") /\ Says(t) \notin {"STOP", "START"} /\ thread[t].known
  /\ Act(t, consent, account, signup, "REPLY", "PLAIN")

SigningUp(t) == Doing(t, "READ") /\ Says(t) # "STOP" /\ ~thread[t].known
AtStep(t, step) == SigningUp(t) /\ thread[t].signup.step = step

AskName(t) ==
  /\ AtStep(t, "NONE")
  /\ Act(t, consent, account, At("NAME"), "REPLY", "PLAIN")

(* Two goes are enough: after that an account goes by "WhatsApp Customer". *)
GiveName(t) ==
  /\ AtStep(t, "NAME")
  /\ Says(t) \in NameTexts \/ thread[t].signup.tries >= 1
  /\ Act(t, consent, account, At("CONSENT"), "REPLY", "PROMPT")

OneMoreTry(t) == [thread[t].signup EXCEPT !.tries = @ + 1]

(* Mutant: whoever gives no name is asked for one, however often. *)
AskNameForEver(t) ==
  /\ AtStep(t, "NAME") /\ Says(t) \notin NameTexts
  /\ Act(t, consent, account, OneMoreTry(t), "REPLY", "PLAIN")

AskNameAgain(t) ==
  /\ AtStep(t, "NAME") /\ Says(t) \notin NameTexts /\ thread[t].signup.tries < 1
  /\ Act(t, consent, account, OneMoreTry(t), "REPLY", "PLAIN")

Agree(t) ==
  /\ AtStep(t, "CONSENT") /\ Says(t) = "YES"
  /\ ~account
  /\ Act(t, [consent EXCEPT ![Customer] = TRUE], TRUE, signup, "CLEAR", "PLAIN")

(* The number got an account in the meantime: User.phone is unique. *)
AgreeTwice(t) ==
  /\ AtStep(t, "CONSENT") /\ Says(t) = "YES"
  /\ account
  /\ Act(t, consent, account, signup, "REPLY", "PLAIN")

Decline(t) ==
  /\ AtStep(t, "CONSENT") /\ Says(t) = "NO"
  /\ Act(t, consent, account, At("NONE"), "REPLY", "PLAIN")

AskConsentAgain(t) ==
  /\ AtStep(t, "CONSENT") /\ Says(t) \notin {"YES", "NO"}
  /\ Act(t, consent, account, signup, "REPLY", "PROMPT")

ClearSignup(t) ==
  /\ Doing(t, "CLEAR")
  /\ signup' = At("NONE")
  /\ GoTo(t, "REPLY", "PLAIN")
  /\ UNCHANGED <<meta, queued, seen, account, prompted, handled, missed, consent, notOutbox>>

send_reply(t) ==
  /\ Doing(t, "REPLY")
  /\ prompted' = (prompted \/ thread[t].reply = "PROMPT")
  /\ thread' = [thread EXCEPT ![t] = None]
  /\ UNCHANGED <<meta, queued, seen, account, signup, handled, missed, consent, notOutbox>>

(* A signup not answered for ten minutes is forgotten. *)
SignupExpires ==
  /\ signup # At("NONE") /\ signup' = At("NONE")
  /\ UNCHANGED <<meta, queued, seen, account, thread, prompted, handled, missed>>
  /\ UNCHANGED <<consent, notOutbox>>

(* Losing what is queued is the trade for answering Meta first. *)
Restart ==
  /\ ~restarted /\ restarted' = TRUE /\ \A m \in Messages : missed[m] = 0
  /\ InHand # {} \/ \E m \in Messages : queued[m] > 0
  /\ queued' = [m \in Messages |-> 0]
  /\ thread' = [t \in Threads |-> None]
  /\ UNCHANGED <<wrote, copies, informed, seen, account, signup, prompted, handled, missed>>
  /\ UNCHANGED <<consent, notOutbox>>

HandleMessage(t) ==
  \/ \E m \in Messages : Claim(t, m) \/ Duplicate(t, m) \/ ClaimFails(t, m)
  \/ Look(t) \/ OptOutByText(t) \/ OptInByText(t) \/ ToConversation(t)
  \/ AskName(t) \/ GiveName(t) \/ AskNameAgain(t) \/ Agree(t) \/ AgreeTwice(t)
  \/ Decline(t) \/ AskConsentAgain(t) \/ ClearSignup(t) \/ send_reply(t)

InboxNext ==
  \/ \E m \in Messages : receive_whatsapp(m) \/ \E text \in Texts : Write(m, text)
  \/ \E t \in Threads : HandleMessage(t)
  \/ SignupExpires \/ Restart

InboxSpec == OutboxInit /\ InboxInit /\ [][InboxNext]_<<outboxVars, inboxVars>>
-----------------------------------------------------------------------------
(* However often Meta delivers a message, and on however many threads, it  *)
(* is acted on once, but for the times Redis could not be asked:           *)
(* _already_processed.                                                     *)
HandledOnce == \A m \in Messages : handled[m] <= 1 + missed[m]

(* An opt-in is somebody's answer to the text that asks for it: the YES    *)
(* that made an account was written after the text was sent, by a customer *)
(* who waits for replies, unless Redis let a message in twice or a         *)
(* restart lost the reply.                                                 *)
ConsentIsInformed ==
  [][\A t \in Threads :
       account' /\ ~account /\ Doing(t, "READ") /\ thread'[t] # thread[t]
         => thread[t].message \in informed \/ restarted \/ \E m \in Messages : missed[m] > 0]_<<outboxVars, inboxVars>>

(* When nothing is left to handle, the last word on being messaged that    *)
(* was handled stands, whatever is delivered again later, unless Redis let *)
(* a message in twice: record_opt_in and record_opt_out.                   *)
Words == {m \in Messages : wrote[m] \in {"STOP", "START"} /\ handled[m] > 0}
LastWordCounts ==
  account /\ Words # {} /\ ~Waiting /\ InHand = {} /\ (\A m \in Messages : missed[m] = 0)
    => \/ consent[Customer] = (wrote[Max(Words)] = "START")
       \/ \E m \in Messages : m > Max(Words) /\ wrote[m] = "YES"
=============================================================================

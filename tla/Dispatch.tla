------------------------------ MODULE Dispatch ------------------------------
(***************************************************************************)
(* One channel job and the providers that try to deliver it                *)
(* (src/src/providers/).  An attempt finds an adapter, the app's own or the *)
(* server's, which turns the user into recipients and makes one request for *)
(* each of them or one for all; what came back becomes the result the       *)
(* worker acts on: sent, rejected for good, or tried again.  Delivery.tla   *)
(* knows the result only; here are the requests behind it.                  *)
(*                                                                         *)
(* A recipient is a number (a mailbox, a device), which the user's fields   *)
(* may spell in more than one way.                                          *)
(***************************************************************************)
EXTENDS Naturals, FiniteSets

CONSTANTS
    Numbers,        \* recipients as the providers know them
    Myself,         \* the user as OneSignal knows it, by player or external id
    Setups,         \* channel, chosen adapter, adapter of the server, addresses of the user
    MaxSends,       \* attempts of a job
    MaxLosses       \* bound: workers lost and lookups of credentials failed

NoAdapter == "none"
Addresses == [number : Numbers, spelling : 1..2, valid : BOOLEAN]

ASSUME DispatchAssumption ==
    /\ Myself \in Numbers
    /\ {MaxSends, MaxLosses} \subseteq Nat
    /\ \A s \in Setups : /\ s.channel \in {"push", "email", "sms", "whatsapp", "call", "inapp"}
                          /\ s.user \subseteq Addresses /\ IsFiniteSet(s.user)

VARIABLES
    setup,      \* what does not change: an element of Setups
    phase,      \* of the job: waiting, sending, answered, or how it ended
    via,        \* the adapter of this attempt
    recipients, \* whom it sends to
    todo,       \* those it has not sent to yet
    ids,        \* those for whom the provider answered with a message id
    failures,   \* those for whom it answered with an error, or not at all
    result,     \* success, rejected (retryable: false) or failure
    attempt,    \* job.attemptsMade
    copies,     \* history: the messages a number got
    silent,     \* history: attempts that confirmed no recipient
    losses      \* workers and results lost, and failed lookups

dispatchVars == <<setup, phase, via, recipients, todo, ids, failures, result, attempt,
                  copies, silent, losses>>

DispatchInit ==
    /\ setup \in Setups
    /\ phase = "waiting" /\ via = [name |-> NoAdapter, own |-> FALSE]
    /\ recipients = {} /\ todo = {} /\ ids = {} /\ failures = {} /\ result = "none"
    /\ attempt = 0 /\ copies = [n \in Numbers |-> 0] /\ silent = 0 /\ losses = 0

-----------------------------------------------------------------------------
(* Recipients *)

\* Phone numbers are told apart by their spelling, mail addresses and device
\* tokens only by what is left when case, blanks and the URL are removed.
PhoneNumbers(user) == user
OneSpelling(user) == {CHOOSE a \in user : a.number = n : n \in {a.number : a \in user}}
MailAddresses(user) == OneSpelling({a \in user : a.valid})
PushTokens(user) == OneSpelling(user)

\* user.email, user.phone or the first token found: the adapters of an app that
\* know no lists.
Single(user) == IF user = {} THEN {} ELSE {CHOOSE a \in user : TRUE}

Recipients(adapter) ==
    LET user == setup.user
        phone == IF adapter.own /\ adapter.name = "onesignal" THEN Single(user) ELSE PhoneNumbers(user)
        mail == IF adapter.name = "onesignal" \/ (adapter.own /\ adapter.name = "resend")
                THEN Single(user) ELSE MailAddresses(user)
        device == CASE adapter.name = "onesignal" -> {[number |-> Myself, spelling |-> 1, valid |-> TRUE]}
                    [] adapter.own /\ adapter.name # "onesignal" -> Single(user)
                    [] OTHER -> PushTokens(user)
    IN  CASE setup.channel = "push" -> device
          [] setup.channel = "email" -> mail
          [] setup.channel = "inapp" -> {[number |-> Myself, spelling |-> 1, valid |-> TRUE]}
          [] OTHER -> phone

\* Without recipients or credentials nothing is sent; only some adapters say that
\* trying again is of no use, and msg91 forgets it between several mailboxes.
NothingToSend(adapter) ==
    LET mailboxes == setup.channel = "email" /\ Cardinality(Recipients(adapter)) > 1
    IN  IF \/ adapter.name \in {"twilio", "firebase"}
           \/ adapter.name = "msg91" /\ ~mailboxes
        THEN "rejected" ELSE "failure"

-----------------------------------------------------------------------------
(* The attempt *)

UseAdapter(adapter) ==
    /\ via' = adapter /\ recipients' = Recipients(adapter)
    /\ ids' = {} /\ failures' = {}
    /\ IF Recipients(adapter) = {} \/ (~adapter.own /\ ~setup.configured)
       THEN phase' = "answered" /\ todo' = {} /\ result' = NothingToSend(adapter)
       ELSE phase' = "sending" /\ todo' = Recipients(adapter) /\ result' = "none"
    /\ UNCHANGED <<setup, attempt, copies, silent>>

OwnAdapter == [name |-> setup.own, own |-> TRUE]
ServerAdapter == [name |-> setup.server, own |-> FALSE]

\* getAppProvider, or registry.send where there is no choice to look up.
FindAdapter ==
    /\ phase = "waiting"
    /\ UseAdapter(IF setup.own = NoAdapter THEN ServerAdapter ELSE OwnAdapter)
    /\ UNCHANGED losses

\* The lookup throws: base.worker falls back to the registry for this attempt,
\* the whatsapp worker gives the attempt up.
LookupFails ==
    /\ phase = "waiting" /\ losses < MaxLosses /\ setup.channel # "inapp"
    /\ losses' = losses + 1
    /\ IF setup.channel # "whatsapp" THEN UseAdapter(ServerAdapter)
       ELSE /\ phase' = "answered" /\ result' = "failure"
            /\ via' = ServerAdapter /\ recipients' = {} /\ todo' = {} /\ ids' = {} /\ failures' = {}
            /\ UNCHANGED <<setup, attempt, copies, silent>>

Reach(R) == copies' = [n \in Numbers |-> copies[n] + Cardinality({a \in R : a.number = n})]
NobodyReached == UNCHANGED copies
SameJob == UNCHANGED <<setup, via, recipients, attempt, silent, losses>>

\* What one of several requests leaves behind.
Accepted(a) == Reach({a}) /\ ids' = ids \cup {a} /\ UNCHANGED failures
AcceptedUnnamed(a) == Reach({a}) /\ UNCHANGED <<ids, failures>>
Refused(a) == NobodyReached /\ failures' = failures \cup {a} /\ UNCHANGED ids
NoAnswer(a) == Reach({a}) /\ failures' = failures \cup {a} /\ UNCHANGED ids

\* With one recipient a request without an error is a success; with several, one
\* that brought back an id.  Were all of them needed, those reached would be sent
\* to again with the rest.
AllNeeded == IF failures' = {} THEN "success" ELSE "failure"
EachResult ==
    LET good == IF Cardinality(recipients) = 1 THEN failures' = {} ELSE ids' # {}
    IN IF good THEN "success" ELSE "failure"

PostTo(a, sendable) ==
    /\ phase = "sending" /\ todo' = todo \ {a}
    /\ \/ Refused(a)
       \/ sendable /\ (Accepted(a) \/ AcceptedUnnamed(a) \/ NoAnswer(a))
    /\ IF todo' = {} THEN phase' = "answered" /\ result' = EachResult
       ELSE UNCHANGED <<phase, result>>
    /\ SameJob

\* A number too short is not sent to at all.
PostMeta == via.name = "meta" /\ \E a \in todo : PostTo(a, a.valid)

PostTwilio == via.name = "twilio" /\ \E a \in todo : PostTo(a, TRUE)
PostMsg91WhatsApp == via.name = "msg91" /\ setup.channel = "whatsapp" /\ \E a \in todo : PostTo(a, TRUE)
PostMsg91Email == via.name = "msg91" /\ setup.channel = "email" /\ \E a \in todo : PostTo(a, TRUE)

\* One request for all recipients: it is answered, refused, or neither.
PostToAll ==
    /\ phase = "sending" /\ phase' = "answered" /\ todo' = {}
    /\ \/ Reach(recipients) /\ ids' = recipients /\ failures' = {} /\ result' = "success"
       \/ NobodyReached /\ ids' = {} /\ failures' = recipients /\ result' = "failure"
       \/ Reach(recipients) /\ ids' = {} /\ failures' = recipients /\ result' = "failure"
    /\ SameJob

PostFlow == via.name = "msg91" /\ setup.channel \in {"sms", "call"} /\ PostToAll
PostOneSignal == via.name = "onesignal" /\ ~via.own /\ PostToAll
PostOwnOneSignal == via.name = "onesignal" /\ via.own /\ PostToAll
PostResend == via.name = "resend" /\ ~via.own /\ PostToAll
PostOwnResend == via.name = "resend" /\ via.own /\ PostToAll

\* Firebase answers for each token.  If it took none, the first error decides
\* whether the job is tried again: a token it no longer knows rejects it.
PostFirebase ==
    /\ via.name = "firebase" /\ ~via.own /\ phase = "sending" /\ phase' = "answered" /\ todo' = {}
    /\ \/ \E good \in SUBSET recipients :
            /\ Reach(good) /\ ids' = good /\ failures' = recipients \ good
            /\ IF good # {} THEN result' = "success" ELSE result' \in {"rejected", "failure"}
       \/ Reach(recipients) /\ ids' = {} /\ failures' = recipients /\ result' = "failure"
    /\ SameJob

\* The app's own Firebase knows one token.
PostOwnFirebase ==
    /\ via.name = "firebase" /\ via.own /\ phase = "sending" /\ phase' = "answered" /\ todo' = {}
    /\ \/ Reach(recipients) /\ ids' = recipients /\ failures' = {} /\ result' = "success"
       \/ NobodyReached /\ ids' = {} /\ failures' = recipients /\ result' \in {"rejected", "failure"}
       \/ Reach(recipients) /\ ids' = {} /\ failures' = recipients /\ result' = "failure"
    /\ SameJob

\* The bell shows the stored row; that the browsers are told of it may fail.
PostInApp ==
    /\ via.name = "inapp" /\ phase = "sending" /\ phase' = "answered" /\ todo' = {}
    /\ Reach(recipients) /\ ids' = recipients /\ failures' = {} /\ result' = "success"
    /\ SameJob

-----------------------------------------------------------------------------
(* The worker *)

\* A result that is not known to be final is thrown, and BullMQ tries again.
Settle ==
    /\ phase = "answered"
    /\ silent' = IF ids = {} THEN silent + 1 ELSE silent
    /\ attempt' = attempt + 1
    /\ phase' = CASE result = "success" -> "sent"
                  [] result = "rejected" -> "rejected"
                  [] result = "failure" /\ attempt + 1 < MaxSends -> "waiting"
                  [] OTHER -> "dead"
    /\ UNCHANGED <<setup, via, recipients, todo, ids, failures, result, copies, losses>>

\* The worker dies before the result is written, and BullMQ finds the job stalled;
\* or the database fails to write it, which counts as an attempt.
WorkerLost ==
    /\ losses < MaxLosses /\ losses' = losses + 1
    /\ \/ phase \in {"sending", "answered"} /\ phase' = "waiting" /\ UNCHANGED attempt
       \/ /\ phase = "answered" /\ attempt' = attempt + 1
          /\ phase' = IF attempt + 1 < MaxSends THEN "waiting" ELSE "dead"
    /\ UNCHANGED <<setup, via, recipients, todo, ids, failures, result, copies, silent>>

Post ==
    \/ PostMeta \/ PostTwilio \/ PostMsg91WhatsApp \/ PostMsg91Email
    \/ PostFlow \/ PostOneSignal \/ PostOwnOneSignal \/ PostResend \/ PostOwnResend
    \/ PostFirebase \/ PostOwnFirebase \/ PostInApp

DispatchNext == FindAdapter \/ LookupFails \/ Post \/ Settle \/ WorkerLost

DispatchSpec == DispatchInit /\ [][DispatchNext]_dispatchVars

-----------------------------------------------------------------------------

DispatchTypeOK ==
    /\ setup \in Setups
    /\ phase \in {"waiting", "sending", "answered", "sent", "rejected", "dead"}
    /\ {recipients, todo, ids, failures} \subseteq SUBSET Addresses
    /\ todo \cup ids \cup failures \subseteq recipients
    /\ result \in {"none", "success", "rejected", "failure"}
    /\ attempt \in 0..MaxSends /\ silent \in 0..attempt /\ losses \in 0..MaxLosses
    /\ copies \in [Numbers -> Nat]

Spellings(n) ==
    IF setup.channel \in {"sms", "whatsapp", "call"}
    THEN Cardinality({a \in setup.user : a.number = n}) ELSE 1

\* A recipient gets a message once, or for each way a phone number is spelled, and
\* again only for a worker or a result that was lost and for an earlier attempt in which the
\* provider confirmed no recipient at all: however many recipients fail beside
\* one that was reached, the job is not tried again (the results of the adapters
\* and base.worker.js:153-215 together).
RepeatsAreExplained ==
    \A n \in Numbers : copies[n] <= Spellings(n) * (1 + silent + losses)
=============================================================================

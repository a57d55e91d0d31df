---------------------------- MODULE Accounts ----------------------------
(***************************************************************************)
(* Registration and login with one-time codes (auth.js) and registration   *)
(* by the service's owner (apps.js).  Every statement is a step; several   *)
(* visitors act at once, for the same addresses and the same app ids.      *)
(*                                                                         *)
(* A code is named by its row, a key by the registration that made it: the *)
(* code draws both at random.                                              *)
(***************************************************************************)
EXTENDS Naturals, Sequences, FiniteSets

CONSTANTS
  Visitors,  \* requests under way at the same time
  Emails,
  AppIds,
  MaxCodes,  \* bound: rows of otps
  MaxKeys,   \* bound: keys made
  MaxMistakes \* bound: statements or e-mails that fail

ASSUME AccountsAssumption == {MaxCodes, MaxKeys, MaxMistakes} \subseteq Nat

VARIABLES
  otps,       \* rows of otps, oldest first
  apps,       \* rows of apps, at most one per app id
  mailed,     \* codes that reached their address
  visit,      \* [Visitors -> request under way]
  keys,       \* keys made so far
  admits,     \* history: [codes -> requests answered with a key for it]
  overlapped, \* history: codes that two requests held before one marked it
  mistakes    \* statements or e-mails that failed

accountsVars == <<otps, apps, mailed, visit, keys, admits, overlapped, mistakes>>

Purposes == {"register", "login"}
NoVisit  == [pc |-> "idle"]

AccountsInit ==
  /\ otps = << >> /\ apps = {} /\ mailed = {}
  /\ visit = [v \in Visitors |-> NoVisit]
  /\ keys = 0 /\ admits = [c \in 1 .. MaxCodes |-> 0] /\ overlapped = {} /\ mistakes = 0

Registered(app) == \E a \in apps : a.id = app
OfEmail(email)  == {a \in apps : a.email = email}
Pending(email, purpose) ==
  {c \in DOMAIN otps : otps[c].live /\ otps[c].email = email /\ otps[c].purpose = purpose}

\* INSERT INTO apps .. ON CONFLICT (app_id) DO NOTHING
InsertApp(app, email, key) ==
  apps' = IF Registered(app) THEN apps ELSE apps \cup {[id |-> app, email |-> email, key |-> key]}

End(v) == visit' = [visit EXCEPT ![v] = NoVisit]

\* POST /auth/register/send-otp and /auth/login/send-otp: refused when the app
\* exists already, or when the address has none.
AskForCode(v, email, purpose, app) ==
  /\ visit[v] = NoVisit
  /\ IF purpose = "register" THEN ~ Registered(app) ELSE OfEmail(email) # {}
  /\ visit' = [visit EXCEPT ![v] = [pc |-> "invalidate", email |-> email, purpose |-> purpose, app |-> app]]
  /\ UNCHANGED <<otps, apps, mailed, keys, admits, overlapped, mistakes>>

\* UPDATE otps SET verified = true: the earlier codes of the address.
Invalidate(v) ==
  /\ visit[v].pc = "invalidate"
  /\ otps' = [c \in DOMAIN otps |->
               IF c \in Pending(visit[v].email, visit[v].purpose) THEN [otps[c] EXCEPT !.live = FALSE] ELSE otps[c]]
  /\ visit' = [visit EXCEPT ![v].pc = "insert"]
  /\ UNCHANGED <<apps, mailed, keys, admits, overlapped, mistakes>>

InsertCode(v) ==
  /\ visit[v].pc = "insert" /\ Len(otps) < MaxCodes
  /\ otps' = Append(otps, [email |-> visit[v].email, purpose |-> visit[v].purpose, app |-> visit[v].app,
                           live |-> TRUE, expired |-> FALSE])
  /\ visit' = [visit EXCEPT ![v] = [pc |-> "mail", code |-> Len(otps) + 1]]
  /\ UNCHANGED <<apps, mailed, keys, admits, overlapped, mistakes>>

\* sendOTPEmail; the row stays when it fails.
Mail(v) ==
  /\ visit[v].pc = "mail"
  /\ mailed' = mailed \cup {visit[v].code}
  /\ End(v)
  /\ UNCHANGED <<otps, apps, keys, admits, overlapped, mistakes>>

Expires(c) ==
  /\ c \in DOMAIN otps /\ otps[c].live /\ ~ otps[c].expired
  /\ otps' = [otps EXCEPT ![c].expired = TRUE]
  /\ UNCHANGED <<apps, mailed, visit, keys, admits, overlapped, mistakes>>

----------------------------------------------------------------------------
\* verify-otp looks only at the newest code that is still unused.
Newest(email, purpose, code) ==
  code \in Pending(email, purpose) /\ \A d \in Pending(email, purpose) : d <= code

\* Somebody enters a code that was mailed to the address.
CheckCode(v, email, purpose, code) ==
  /\ visit[v] = NoVisit /\ code \in mailed
  /\ Newest(email, purpose, code)
  /\ ~ otps[code].expired
  /\ visit' = [visit EXCEPT ![v] = [pc |-> "mark", email |-> email, purpose |-> purpose, code |-> code]]
  /\ overlapped' = IF \E u \in Visitors : visit[u].pc = "mark" /\ visit[u].code = code
                     THEN overlapped \cup {code} ELSE overlapped
  /\ UNCHANGED <<otps, apps, mailed, keys, admits, mistakes>>

\* UPDATE otps SET verified = true WHERE id: without looking whether it was.
MarkNone(v) == UNCHANGED otps
Mark(v) == otps' = [otps EXCEPT ![visit[v].code].live = FALSE]

MarkCode(v) ==
  /\ visit[v].pc = "mark"
  /\ Mark(v)
  /\ visit' = [visit EXCEPT ![v].pc = visit[v].purpose]
  /\ UNCHANGED <<apps, mailed, keys, admits, overlapped, mistakes>>

\* A new key is made, offered to the table, and answered in any case.
CreateApp(v) ==
  /\ visit[v].pc = "register" /\ keys < MaxKeys
  /\ keys' = keys + 1
  /\ InsertApp(otps[visit[v].code].app, visit[v].email, keys')
  /\ admits' = [admits EXCEPT ![visit[v].code] = @ + 1]
  /\ End(v)
  /\ UNCHANGED <<otps, mailed, overlapped, mistakes>>

\* Any app of the address is answered.
FetchApp(v) ==
  /\ visit[v].pc = "login"
  /\ admits' = [admits EXCEPT ![visit[v].code] = @ + IF OfEmail(visit[v].email) = {} THEN 0 ELSE 1]
  /\ End(v)
  /\ UNCHANGED <<otps, apps, mailed, keys, overlapped, mistakes>>

\* POST /apps/register with the service secret.
RegisterApp(app) ==
  /\ keys < MaxKeys
  /\ keys' = keys + 1
  /\ InsertApp(app, "none", keys')
  /\ UNCHANGED <<otps, mailed, visit, admits, overlapped, mistakes>>

\* A statement or the e-mail fails: the request is answered 500, what it wrote stays.
RequestFails(v) ==
  /\ visit[v] # NoVisit /\ mistakes < MaxMistakes
  /\ End(v)
  /\ mistakes' = mistakes + 1
  /\ UNCHANGED <<otps, apps, mailed, keys, admits, overlapped>>

AccountsNext ==
  \/ \E v \in Visitors :
       \/ \E e \in Emails, p \in Purposes, a \in AppIds : AskForCode(v, e, p, a)
       \/ \E e \in Emails, p \in Purposes, c \in 1 .. MaxCodes : CheckCode(v, e, p, c)
       \/ Invalidate(v) \/ InsertCode(v) \/ Mail(v) \/ MarkCode(v) \/ CreateApp(v) \/ FetchApp(v)
       \/ RequestFails(v)
  \/ \E a \in AppIds : RegisterApp(a)
  \/ \E c \in 1 .. MaxCodes : Expires(c)

AccountsSpec == AccountsInit /\ [][AccountsNext]_accountsVars

----------------------------------------------------------------------------
(* Properties *)

\* A code is good for one answer, however registrations, logins, new codes and
\* failures interleave, unless two requests had read it before the first of
\* them marked it (verify-otp reads and marks in two statements).
CodesAdmitOnce == \A c \in 1 .. MaxCodes : admits[c] > 1 => c \in overlapped
========================================================================

---------------------------- MODULE CitizenDesk ----------------------------
(***************************************************************************)
(* A citizen at the web client: RegisterPage, LoginPage, ComplaintFormPage *)
(* and the notification bell, in front of the gateway's rate limiter and   *)
(* the services.  The bell polls, a click on an item marks it read, and    *)
(* every request but a registration spends from the same limit.            *)
(*                                                                         *)
(* A complaint is named by the request that files it, a row of the         *)
(* citizen's NotificationLog by its place in the order of sentAt, whatever *)
(* the order in which rows are saved.  complaint-service, its events and   *)
(* notification-service take one step each here; ComplaintService,         *)
(* EventPipeline and NotificationService say what that step consists of.   *)
(***************************************************************************)
EXTENDS Accounts, RateLimiter, FiniteSets

CONSTANTS
  Citizen,     \* the e-mail address of the user at the desk
  Polls,       \* fetches of the bell under way at a time
  Take,        \* rows in an answer to a fetch
  Slice,       \* rows that the bell lists
  MaxRows,     \* bound: rows in the log
  MaxFaults    \* bound: deaths of the gateway and failures in the services

ASSUME CallersAssumption == Callers = Requests \cup Polls /\ Requests \cap Polls = {}
ASSUME CitizenAssumption == Citizen \in Emails
ASSUME NoPollAssumption == None \notin Polls
ASSUME BellAssumption == MaxRows \in Nat /\ Slice \in Nat \ {0} /\ Take \in Nat /\ Slice <= Take

VARIABLES
  page,      \* the page shown and its pending request
  errand,    \* what a request of the desk is for, and which row
  waiting,   \* requests whose answer the browser waits for
  attempts,  \* history: submissions of the form shown ...
  told,      \* history: ... and those whose failure it has shown
  filed,     \* complaint-service: the complaints
  missed,    \* history: complaints of which no row could be saved first
  about,     \* NotificationLog: the complaint a row tells of, or the citizen
  inbox,     \* NotificationLog: the rows, read and unread
  fetch,     \* the fetch whose answer the bell waits for, or None
  answer,    \* what notification-service has answered to a fetch
  shown,     \* the rows in the last answer
  behind,    \* the last fetch of the bell failed
  acked,     \* history: rows known to be marked
  faults

pageVars == <<page, errand, waiting, attempts, told>>
bellVars == <<fetch, answer, shown, behind>>
logVars == <<missed, about, inbox>>
vars == <<accountVars, limiterVars, pageVars, filed, logVars, bellVars, acked, faults>>

-----------------------------------------------------------------------------
Times == 1 .. MaxRows

Nothing == [t \in Times |-> "none"]

NoAnswer == [t \in {} |-> "none"]

(* the k latest of the rows *)
Newest(k, rows) ==
  [t \in Times |->
     IF Cardinality({u \in Times : u > t /\ rows[u] # "none"}) < k THEN rows[t] ELSE "none"]

NoErrand == [kind |-> "none", item |-> None]

Init ==
  /\ AccountsInit /\ LimiterInit
  /\ page = [name |-> "register", request |-> None]
  /\ errand = [r \in Requests |-> NoErrand]
  /\ waiting = {} /\ attempts = {} /\ told = {} /\ filed = {}
  /\ missed = {} /\ about = [t \in Times |-> None]
  /\ inbox = Nothing /\ shown = Nothing
  /\ fetch = None /\ answer = [p \in Polls |-> NoAnswer] /\ behind = FALSE
  /\ acked = {}
  /\ faults = 0

(* the form, or another page behind ProtectedRoute *)
SignedIn == page.name \in {"form", "other"}

(* every page starts afresh *)
GoToPage(name) ==
  /\ page' = [name |-> name, request |-> None]
  /\ attempts' = {} /\ told' = {}

Unused(r) == at[r] = "idle" /\ gate[r] = "out" /\ errand[r] = NoErrand

(* a request leaves for the gateway *)
Ask(r, kind, item) ==
  /\ Unused(r) /\ Arrive(r)
  /\ errand' = [errand EXCEPT ![r] = [kind |-> kind, item |-> item]]

Came(r, kind, outcome) == errand[r].kind = kind /\ gate[r] = "past" /\ at[r] = outcome

Failed(r) == gate[r] \in {"over", "lost"} \/ at[r] = "failed"

-----------------------------------------------------------------------------
(* The pages.                                                              *)

(* RegisterPage: the button is disabled while the form is submitted *)
Register(r) ==
  /\ page.name = "register" /\ page.request = None
  /\ Unused(r) /\ CallRegister(r, Citizen)
  /\ page' = [page EXCEPT !.request = r]
  /\ UNCHANGED <<limiterVars, errand, waiting, attempts, told, filed, logVars, bellVars, acked, faults>>

(* the toast and /login, or an error on the page *)
Registered(r) ==
  /\ page.name = "register" /\ page.request = r
  /\ \/ at[r] = "registered" /\ GoToPage("login")
     \/ at[r] \in {"conflict", "failed"} /\ GoToPage("register")
  /\ UNCHANGED <<accountVars, limiterVars, errand, waiting, filed, logVars, bellVars, acked, faults>>

(* the links between the two pages; LoginPage, see WebSession; the menu *)
Navigate(name) ==
  /\ \/ page.name = "register" /\ name = "login"
     \/ page.name = "login" /\ (name = "register" \/ (name = "other" /\ account[Citizen] # None))
     \/ SignedIn /\ name \in {"form", "other"} \ {page.name}
  /\ GoToPage(name)
  /\ UNCHANGED <<accountVars, limiterVars, errand, waiting, filed, logVars, bellVars, acked, faults>>

(* ComplaintFormPage: the button is disabled while the mutation is pending *)
Submit(r) ==
  /\ page.name = "form" /\ page.request = None
  /\ Ask(r, "submit", None)
  /\ page' = [page EXCEPT !.request = r]
  /\ waiting' = waiting \cup {r} /\ attempts' = attempts \cup {r}
  /\ UNCHANGED <<accountVars, told, filed, logVars, bellVars, acked, faults>>

(* navigate, whatever page is shown by then *)
Submitted(r) ==
  /\ r \in waiting /\ Came(r, "submit", "filed")
  /\ waiting' = waiting \ {r}
  /\ GoToPage("other")
  /\ UNCHANGED <<accountVars, limiterVars, errand, filed, logVars, bellVars, acked, faults>>

(* setError, which shows on the page that submitted if it is still there *)
SubmitFailed(r) ==
  /\ r \in waiting /\ errand[r].kind = "submit" /\ Failed(r)
  /\ waiting' = waiting \ {r}
  /\ IF page.request = r
       THEN page' = [page EXCEPT !.request = None] /\ told' = told \cup {r}
       ELSE UNCHANGED <<page, told>>
  /\ UNCHANGED <<accountVars, limiterVars, errand, attempts, filed, logVars, bellVars, acked, faults>>

-----------------------------------------------------------------------------
(* The bell.                                                               *)

(* a new fetch; which of the free names it gets makes no difference *)
StartFetch(p) ==
  /\ Arrive(p) /\ p = CHOOSE q \in Polls : gate[q] = "out"
  /\ fetch' = p

(* Mutant: a failed fetch ends the polling. *)
PollUntilError(p) ==
  /\ SignedIn /\ fetch = None /\ ~behind
  /\ StartFetch(p)
  /\ UNCHANGED <<accountVars, pageVars, filed, logVars, answer, shown, behind, acked, faults>>

(* refetchInterval *)
Poll(p) ==
  /\ SignedIn /\ fetch = None
  /\ StartFetch(p)
  /\ UNCHANGED <<accountVars, pageVars, filed, logVars, answer, shown, behind, acked, faults>>

(* an answer to a fetch that was given up is dropped *)
PollEnds(p) ==
  /\ GoOut(p)
  /\ gate[p] = "past" => answer[p] # NoAnswer
  /\ answer' = [answer EXCEPT ![p] = NoAnswer]
  /\ IF fetch # p THEN UNCHANGED <<fetch, shown, behind>>
     ELSE /\ fetch' = None
          /\ behind' = (gate[p] # "past")
          /\ shown' = IF gate[p] = "past" THEN answer[p] ELSE shown
  /\ UNCHANGED <<accountVars, pageVars, filed, logVars, acked, faults>>

(* notifications.slice: the rest of the answer only counts in the badge *)
Listed == Newest(Slice, shown)

(* navigate to the complaint; a welcome mail has no href *)
GoToComplaint(t) ==
  IF about[t] \in Requests THEN GoToPage("other") ELSE UNCHANGED <<page, attempts, told>>

(* NotificationItem: markRead unless it is read *)
Click(r, t) ==
  /\ SignedIn /\ Listed[t] = "unread"
  /\ Ask(r, "mark", t)
  /\ waiting' = waiting \cup {r}
  /\ GoToComplaint(t)
  /\ UNCHANGED <<accountVars, filed, logVars, bellVars, acked, faults>>

Follow(t) ==
  /\ SignedIn /\ Listed[t] = "read" /\ page.name = "form"
  /\ GoToComplaint(t)
  /\ UNCHANGED <<accountVars, limiterVars, errand, waiting, filed, logVars, bellVars, acked, faults>>

(* Mutant: a fetch under way is good enough. *)
JoinFetch(p) == IF fetch = None THEN StartFetch(p) ELSE UNCHANGED <<limiterVars, fetch>>

(* invalidateQueries gives up the fetch under way and starts another *)
Refetch(p) == StartFetch(p)

Marked(r, p) ==
  /\ r \in waiting /\ Came(r, "mark", "marked")
  /\ waiting' = waiting \ {r} /\ acked' = acked \cup {errand[r].item}
  /\ Refetch(p)
  /\ UNCHANGED <<accountVars, page, errand, attempts, told, filed, logVars, answer, shown, behind, faults>>

MarkFailed(r) ==
  /\ r \in waiting /\ errand[r].kind = "mark" /\ Failed(r)
  /\ waiting' = waiting \ {r}
  /\ UNCHANGED <<accountVars, limiterVars, page, errand, attempts, told, filed, logVars, bellVars, acked, faults>>

-----------------------------------------------------------------------------
(* The gateway and the services.                                           *)
Fault == faults < MaxFaults /\ faults' = faults + 1

LimiterStep ==
  /\ \/ \E c \in Callers : Incr(c) \/ SetExpiry(c)
     \/ WindowEnds
  /\ UNCHANGED <<accountVars, pageVars, filed, logVars, bellVars, acked, faults>>

Die ==
  /\ GatewayDies /\ Fault
  /\ UNCHANGED <<accountVars, pageVars, filed, logVars, bellVars, acked>>

Reply(r, outcome) ==
  /\ GoTo(r, outcome)
  /\ IF outcome = "failed" THEN Fault ELSE UNCHANGED faults
  /\ UNCHANGED <<tables, cached, seen, overtaken, unsafe, asked, limiterVars, pageVars, bellVars, acked>>

(* POST /complaints *)
File(r, outcome) ==
  /\ Came(r, "submit", "idle") /\ Reply(r, outcome)
  /\ filed' \in {filed \cup {r}} \cup (IF outcome = "failed" THEN {filed} ELSE {})
  /\ UNCHANGED logVars

Told(n) == \E t \in Times : about[t] = n

Untold == {n \in Requests : n \notin missed /\ ~Told(n)}

Free == {t \in Times : inbox[t] = "none"}

SaveRow(t, n) ==
  /\ t \in Free
  /\ about' = [about EXCEPT ![t] = n] /\ inbox' = [inbox EXCEPT ![t] = "unread"]

(* complaint.created reaches notification-service *)
Notify(n) ==
  /\ n \in filed \cap Untold
  /\ \E t \in Times : SaveRow(t, n)
  /\ UNCHANGED <<accountVars, limiterVars, pageVars, filed, missed, bellVars, acked, faults>>

(* ... or is lost on its way, or its row is *)
NotifyFails(n) ==
  /\ n \in filed \cap Untold
  /\ missed' = missed \cup {n} /\ Fault
  /\ UNCHANGED <<accountVars, limiterVars, pageVars, filed, about, inbox, bellVars, acked>>

(* its mail, what becomes of the complaint, a welcome mail *)
NotifyMore(n) ==
  /\ n \in filed \ Untold \/ (n = Citizen /\ account[Citizen] # None)
  /\ Cardinality(Free) > Cardinality(Untold)
  /\ \E t \in Times : SaveRow(t, n)
  /\ UNCHANGED <<accountVars, limiterVars, pageVars, filed, missed, bellVars, acked, faults>>

(* PATCH /notifications/:id/read *)
Mark(r, outcome) ==
  /\ Came(r, "mark", "idle") /\ Reply(r, outcome)
  /\ \/ inbox' = [inbox EXCEPT ![errand[r].item] = "read"]
     \/ outcome = "failed" /\ UNCHANGED inbox
  /\ UNCHANGED <<filed, missed, about>>

(* GET /notifications/me *)
ReadInbox(p) ==
  /\ gate[p] = "past" /\ answer[p] = NoAnswer
  /\ answer' = [answer EXCEPT ![p] = Newest(Take, inbox)]
  /\ UNCHANGED <<accountVars, limiterVars, pageVars, filed, logVars, fetch, shown, behind, acked, faults>>

(* any client of the API asks for the profile or changes it *)
AskProfile(r) ==
  /\ Ask(r, "profile", None)
  /\ UNCHANGED <<accountVars, page, waiting, attempts, told, filed, logVars, bellVars, acked, faults>>

(* ... or somebody else registers with the address *)
Profile(r) ==
  /\ \/ /\ Came(r, "profile", "idle")
        /\ \/ CallProfile(r, Citizen) \/ RefuseUpdate(r, Citizen)
           \/ \E fields \in SUBSET Fields : CallUpdate(r, Citizen, fields)
     \/ Unused(r) /\ CallRegister(r, Citizen)
  /\ UNCHANGED <<limiterVars, pageVars, filed, logVars, bellVars, acked, faults>>

UserService ==
  /\ \/ \E r \in Requests :
          /\ AccountsStep(r)
          /\ IF at'[r] = "failed" THEN Fault ELSE UNCHANGED faults
     \/ \E e \in Emails : EntryExpires(e) /\ UNCHANGED faults
  /\ UNCHANGED <<limiterVars, pageVars, filed, logVars, bellVars, acked>>

Next ==
  \/ \E r \in Requests :
       \/ Register(r) \/ Registered(r) \/ Submit(r) \/ Submitted(r) \/ SubmitFailed(r)
       \/ MarkFailed(r) \/ AskProfile(r) \/ Profile(r)
       \/ \E t \in Times : Click(r, t)
       \/ \E p \in Polls : Marked(r, p)
       \/ \E outcome \in {"filed", "failed"} : File(r, outcome)
       \/ \E outcome \in {"marked", "failed"} : Mark(r, outcome)
       \/ Notify(r) \/ NotifyFails(r)
  \/ \E n \in Requests \cup {Citizen} : NotifyMore(n)
  \/ \E t \in Times : Follow(t)
  \/ \E p \in Polls : Poll(p) \/ PollEnds(p) \/ ReadInbox(p)
  \/ \E name \in {"register", "login", "form", "other"} : Navigate(name)
  \/ LimiterStep \/ Die \/ UserService

Spec == Init /\ [][Next]_vars

(* The interval fires for ever, the gateway and notification-service       *)
(* answer, Redis drops keys in time and events arrive.                     *)
Fairness ==
  /\ WF_vars(LimiterStep /\ WindowEnds)
  /\ WF_vars(\E p \in Polls : Poll(p))
  /\ \A p \in Polls :
       /\ WF_vars(LimiterStep /\ (Incr(p) \/ SetExpiry(p)))
       /\ WF_vars(ReadInbox(p)) /\ WF_vars(PollEnds(p))
  /\ \A n \in Requests : WF_vars(Notify(n))

FairSpec == Spec /\ Fairness

-----------------------------------------------------------------------------
(* The form shown has one submission at most that it has not reported as   *)
(* failed, so that a second complaint is filed from it only after an error *)
(* (ComplaintFormPage.tsx:42-70).                                          *)
OneComplaintPerForm == Cardinality(attempts \ told) <= 1

(* What was marked stays read in the bell, whatever fetches were under way *)
(* or failed, but for the time of a fetch and after a failed one           *)
(* (useNotifications.ts:27-38).                                            *)
MarkedShownRead ==
  \A t \in acked : shown[t] = "unread" => fetch # None \/ behind

(* The bell tells only of complaints that were filed, and of the citizen's *)
(* own account, and shows as read only what somebody has marked            *)
(* (notification.controller.ts:23-72).                                     *)
ShownIsTrue ==
  \A t \in Times :
    /\ shown[t] # "none" => about[t] \in filed \cup {Citizen}
    /\ shown[t] = "read" => inbox[t] = "read"

(* The pages of the citizen do not contradict what the services know.      *)
DeskTellsTheTruth == OneComplaintPerForm /\ MarkedShownRead /\ ShownIsTrue

LockedOut == counter > Limit /\ ~expiring

(* Every complaint filed gets a row, unless that is lost in the services,  *)
(* and the bell of a citizen who is signed in comes to show the latest     *)
(* rows as they are: no number of requests that the limiter refuses,       *)
(* fetches given up and gateways that die keeps them from the citizen, but *)
(* for the lock-out of ratelimit.middleware.ts:21.  The bell lists five of *)
(* the fifty it asks for: an older row is not to be seen                   *)
(* (notification.controller.ts:30-34, NotificationBell.tsx:53).            *)
ToldEventually ==
  []<>(/\ filed \cap Untold = {}
       /\ SignedIn /\ ~LockedOut => shown = Newest(Take, inbox))

=============================================================================

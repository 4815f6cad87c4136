------------------------ MODULE NotificationService ------------------------
(***************************************************************************)
(* notification-service: what it does with the events of its two consumer  *)
(* loops (services/notification.service.ts, consumers/user.consumer.ts),   *)
(* and the preferences and the notification log that its routes serve.     *)
(*                                                                         *)
(* A handler reads the preferences, writes an in-app row, sends a message  *)
(* on each channel the user wants and logs what became of it; a failure    *)
(* after the first step is logged and swallowed, a failure of the first    *)
(* step is thrown, and the event is left to the consumer group.  The       *)
(* events may arrive more than once (StreamConsumer, EventPipeline).  The  *)
(* two loops and the requests of the users run at the same time.           *)
(*                                                                         *)
(* pushEnabled is stored and never read: only e-mail and SMS are here.     *)
(***************************************************************************)
EXTENDS Naturals, Bags

CONSTANTS
  Users,
  Events,          \* the events that may arrive, see EventType
  MaxDeliveries,   \* bound: how often each of them does
  FaultBudget      \* bound: how often each kind of fault may happen

Kinds == {"registered", "created", "changed", "resolved", "assigned"}

EventType == [kind : Kinds, user : Users]

(* "prefs": the first database access of a handler fails; "mail": sendMail *)
(* rejects; "log": a row of the notification log cannot be written         *)
Faults == {"prefs", "mail", "log", "crash"}

ASSUME EventsAssumption == Events \subseteq EventType
ASSUME DeliveriesAssumption == MaxDeliveries \in [Events -> Nat]
ASSUME FaultBudgetAssumption == FaultBudget \in [Faults -> Nat]

Channels == {"EMAIL", "SMS"}

Loops == {"complaints:events", "user:events"}

VARIABLES
  pref,        \* NotificationPreference row of a user, or NoRow
  log,         \* NotificationLog, a bag of rows
  sent,        \* the outside world: messages sent about an event on a channel
  handler,     \* the handler each loop is running
  deliveries,  \* history: how often an event was given to its handler
  owed,        \* history: handlers that returned, by event and channel
  faults

vars == <<pref, log, sent, handler, deliveries, owed, faults>>

-----------------------------------------------------------------------------
NoRow == [c \in {} |-> TRUE]

Default == [EMAIL |-> TRUE, SMS |-> FALSE]

(* getPreferences: the row, or the defaults *)
Preferences(row) == IF row = NoRow THEN Default ELSE row

Upserted(row, data) ==
  [c \in Channels |-> IF c \in DOMAIN data THEN data[c]
                      ELSE IF row # NoRow THEN row[c]
                      ELSE Default[c]]

Idle == [pc |-> "idle"]

Loop(e) == IF e.kind = "registered" THEN "user:events" ELSE "complaints:events"

(* the switch of handleComplaintEvent: the channels it sends on *)
Plan(e, prefs) ==
  {c \in Channels :
     /\ prefs[c]
     /\ \/ c = "EMAIL" /\ e.kind \in {"created", "changed", "resolved"}
        \/ c = "SMS" /\ e.kind = "resolved"}

Init ==
  /\ pref = [u \in Users |-> NoRow]
  /\ log = EmptyBag
  /\ sent = [e \in Events |-> [c \in Channels |-> 0]]
  /\ handler = [l \in Loops |-> Idle]
  /\ deliveries = [e \in Events |-> 0]
  /\ owed = [e \in Events |-> [c \in Channels \cup {"IN_APP"} |-> 0]]
  /\ faults = FaultBudget

Happens(f) == faults[f] > 0 /\ faults' = [faults EXCEPT ![f] = @ - 1]

At(l, pc) == handler[l].pc = pc

Event(l) == handler[l].event

(* the channel whose turn it is: e-mail before SMS *)
Channel(l) == IF "EMAIL" \in handler[l].todo THEN "EMAIL" ELSE "SMS"

Row(e, channel, status, read) ==
  [event |-> e, channel |-> channel, status |-> status, read |-> read]

GoTo(l, pc) == handler' = [handler EXCEPT ![l].pc = pc]

(* a channel is dealt with *)
NextChannel(l) ==
  handler' = [handler EXCEPT ![l].pc = "next", ![l].todo = @ \ {Channel(l)}]

-----------------------------------------------------------------------------
(* the consumer loop calls its handler *)
Deliver(e) ==
  /\ handler[Loop(e)] = Idle
  /\ deliveries[e] < MaxDeliveries[e]
  /\ deliveries' = [deliveries EXCEPT ![e] = @ + 1]
  /\ handler' = [handler EXCEPT ![Loop(e)] =
                   [pc |-> "prefs", event |-> e, plan |-> {}, todo |-> {}]]
  /\ UNCHANGED <<pref, log, sent, owed, faults>>

(* handleComplaintEvent: getPreferences *)
ReadPreferences(l) ==
  /\ At(l, "prefs") /\ Event(l).kind # "registered"
  /\ LET plan == Plan(Event(l), Preferences(pref[Event(l).user])) IN
     handler' = [handler EXCEPT ![l] =
                   [pc |-> "inApp", event |-> Event(l), plan |-> plan \cup {"IN_APP"}, todo |-> plan]]
  /\ UNCHANGED <<pref, log, sent, deliveries, owed, faults>>

(* Mutant: the row of a new user is reset to the defaults. *)
RegisterResets(l) ==
  /\ At(l, "prefs") /\ Event(l).kind = "registered"
  /\ pref' = [pref EXCEPT ![Event(l).user] = Default]
  /\ handler' = [handler EXCEPT ![l].pc = "next", ![l].plan = {"EMAIL"}, ![l].todo = {"EMAIL"}]
  /\ UNCHANGED <<log, sent, deliveries, owed, faults>>

(* user.registered: upsertPreferences(user, {}), and then a welcome mail   *)
(* whatever the preferences say                                            *)
Register(l) ==
  /\ At(l, "prefs") /\ Event(l).kind = "registered"
  /\ pref' = [pref EXCEPT ![Event(l).user] = Upserted(@, NoRow)]
  /\ handler' = [handler EXCEPT ![l].pc = "next", ![l].plan = {"EMAIL"}, ![l].todo = {"EMAIL"}]
  /\ UNCHANGED <<log, sent, deliveries, owed, faults>>

(* either of the two throws: so does the handler *)
HandlerThrows(l) ==
  /\ At(l, "prefs")
  /\ Happens("prefs")
  /\ handler' = [handler EXCEPT ![l] = Idle]
  /\ UNCHANGED <<pref, log, sent, deliveries, owed>>

SaveInApp(l) ==
  /\ At(l, "inApp")
  /\ log' = log (+) SetToBag({Row(Event(l), "IN_APP", "SENT", FALSE)})
  /\ GoTo(l, "next")
  /\ UNCHANGED <<pref, sent, deliveries, owed, faults>>

SaveInAppFails(l) ==
  /\ At(l, "inApp")
  /\ Happens("log")
  /\ GoTo(l, "next")
  /\ UNCHANGED <<pref, log, sent, deliveries, owed>>

(* sendMail resolves; sendSms, a line on the console, always does *)
Send(l) ==
  /\ At(l, "next") /\ handler[l].todo # {}
  /\ sent' = [sent EXCEPT ![Event(l)][Channel(l)] = @ + 1]
  /\ GoTo(l, "sent")
  /\ UNCHANGED <<pref, log, deliveries, owed, faults>>

(* getTransporter or sendMail rejects; the server may have taken the mail *)
SendFails(l) ==
  /\ At(l, "next") /\ "EMAIL" \in handler[l].todo
  /\ Happens("mail")
  /\ \/ UNCHANGED sent
     \/ sent' = [sent EXCEPT ![Event(l)]["EMAIL"] = @ + 1]
  /\ GoTo(l, "failed")
  /\ UNCHANGED <<pref, log, deliveries, owed>>

LogSent(l) ==
  /\ At(l, "sent")
  /\ log' = log (+) SetToBag({Row(Event(l), Channel(l), "SENT", FALSE)})
  /\ NextChannel(l)
  /\ UNCHANGED <<pref, sent, deliveries, owed, faults>>

(* Mutant: a SENT row that cannot be written is not followed by another. *)
LogSentGivesUp(l) ==
  /\ At(l, "sent")
  /\ Happens("log")
  /\ NextChannel(l)
  /\ UNCHANGED <<pref, log, sent, deliveries, owed>>

(* the catch is the same as for a message that was not sent *)
LogSentFails(l) ==
  /\ At(l, "sent")
  /\ Happens("log")
  /\ GoTo(l, "failed")
  /\ UNCHANGED <<pref, log, sent, deliveries, owed>>

LogFailed(l) ==
  /\ At(l, "failed")
  /\ log' = log (+) SetToBag({Row(Event(l), Channel(l), "FAILED", FALSE)})
  /\ NextChannel(l)
  /\ UNCHANGED <<pref, sent, deliveries, owed, faults>>

(* Mutant: the error of the second log call leaves the handler. *)
LogFailedThrows(l) ==
  /\ At(l, "failed")
  /\ Happens("log")
  /\ handler' = [handler EXCEPT ![l] = Idle]
  /\ UNCHANGED <<pref, log, sent, deliveries, owed>>

LogFailedFails(l) ==
  /\ At(l, "failed")
  /\ Happens("log")
  /\ NextChannel(l)
  /\ UNCHANGED <<pref, log, sent, deliveries, owed>>

(* the handler returns, and the loop may record and acknowledge the event *)
Return(l) ==
  /\ At(l, "next") /\ handler[l].todo = {}
  /\ owed' = [owed EXCEPT ![Event(l)] =
                [c \in DOMAIN @ |-> IF c \in handler[l].plan THEN @[c] + 1 ELSE @[c]]]
  /\ handler' = [handler EXCEPT ![l] = Idle]
  /\ UNCHANGED <<pref, log, sent, deliveries, faults>>

(* the pod dies and is restarted *)
Crash ==
  /\ \E l \in Loops : handler[l] # Idle
  /\ Happens("crash")
  /\ handler' = [l \in Loops |-> Idle]
  /\ UNCHANGED <<pref, log, sent, deliveries, owed>>

(* PATCH /preferences with some of the fields *)
UpdatePreferences(u, data) ==
  /\ pref' = [pref EXCEPT ![u] = Upserted(@, data)]
  /\ UNCHANGED <<log, sent, handler, deliveries, owed, faults>>

(* PATCH /:id/read by the owner of the row; anybody else gets 403 *)
MarkRead(u, row) ==
  /\ row.event.user = u
  /\ log' = (log (-) SetToBag({row})) (+) SetToBag({[row EXCEPT !.read = TRUE]})
  /\ UNCHANGED <<pref, sent, handler, deliveries, owed, faults>>

PreferenceData == UNION {[C -> BOOLEAN] : C \in SUBSET Channels}

Next ==
  \/ \E e \in Events : Deliver(e)
  \/ \E l \in Loops :
       \/ ReadPreferences(l) \/ Register(l) \/ HandlerThrows(l)
       \/ SaveInApp(l) \/ SaveInAppFails(l)
       \/ Send(l) \/ SendFails(l) \/ LogSent(l) \/ LogSentFails(l)
       \/ LogFailed(l) \/ LogFailedFails(l) \/ Return(l)
  \/ Crash
  \/ \E u \in Users :
       \/ \E data \in PreferenceData : UpdatePreferences(u, data)
       \/ \E row \in BagToSet(log) : MarkRead(u, row)

Spec == Init /\ [][Next]_vars

-----------------------------------------------------------------------------
Copies(row) == IF BagIn(row, log) THEN log[row] ELSE 0

Rows(e, channel, status) ==
  Copies(Row(e, channel, status, FALSE)) + Copies(Row(e, channel, status, TRUE))

Spent(f) == FaultBudget[f] - faults[f]

(* 1 while a handler is working on the event *)
Running(e) == IF handler[Loop(e)] # Idle /\ handler[Loop(e)].event = e THEN 1 ELSE 0

(* No outcome is lost in the nested catches: a handler that has returned   *)
(* has left a row for each channel it was to use, SENT or FAILED, unless   *)
(* two failures hit the same message, or one the in-app row.               *)
OutcomeRecorded ==
  \A e \in Events :
    /\ owed[e]["IN_APP"] <= Rows(e, "IN_APP", "SENT") + Spent("log")
    /\ \A c \in Channels :
         2 * owed[e][c] <=
           2 * (Rows(e, c, "SENT") + Rows(e, c, "FAILED")) + Spent("log") + Spent("mail")

(* A row that says SENT stands for a message of its own.                   *)
SentMeansSent ==
  \A e \in Events, c \in Channels : Rows(e, c, "SENT") <= sent[e][c]

(* The notification log can be trusted, whatever fails under it: every     *)
(* outcome has left a row, and no row claims what did not happen           *)
(* (notification.service.ts:36-108, email.dispatcher.ts:34-80).            *)
LogTellsOutcome == OutcomeRecorded /\ SentMeansSent

(* What makes it safe to leave an event whose handler threw to be handled  *)
(* again: the handler throws only before it has done anything, so that the *)
(* user hears of the event at most once for every handler that returned,   *)
(* is running or died with its pod.                                        *)
ThrowingHasNoEffect ==
  \A e \in Events :
    /\ Rows(e, "IN_APP", "SENT") <= owed[e]["IN_APP"] + Running(e) + Spent("crash")
    /\ \A c \in Channels : sent[e][c] <= owed[e][c] + Running(e) + Spent("crash")

(* The defaults of a user without a row and those of the row the event     *)
(* user.registered creates agree, and the event, late or repeated, never   *)
(* overrides a choice: what applies to a user changes only when the user   *)
(* asks for it.                                                            *)
OnlyTheUserChangesPreferences ==
  [][\A u \in Users : Preferences(pref'[u]) # Preferences(pref[u]) =>
       \E data \in PreferenceData : UpdatePreferences(u, data)]_vars

=============================================================================

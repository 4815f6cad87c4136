--------------------- MODULE NotificationServiceProofs ----------------------
(***************************************************************************)
(* Proofs about NotificationService, for any users and events, any number  *)
(* of deliveries and any number of faults of every kind.                   *)
(*                                                                         *)
(* What the log and the outside world know of an event on a channel is set *)
(* against the handlers that have returned; in between, it depends on how  *)
(* far the handler at work has come with that channel (Stage).             *)
(***************************************************************************)
EXTENDS NotificationService, Integers, TLAPS

AllChannels == Channels \cup {"IN_APP"}

Handling ==
  [pc : {"prefs", "inApp", "next", "sent", "failed"}, event : Events,
   plan : SUBSET AllChannels, todo : SUBSET Channels]

LogRow ==
  [event : Events, channel : AllChannels, status : {"SENT", "FAILED"}, read : BOOLEAN]

TypeInv ==
  /\ pref \in [Users -> {NoRow} \cup [Channels -> BOOLEAN]]
  /\ IsABag(log) /\ DOMAIN log \subseteq LogRow
  /\ sent \in [Events -> [Channels -> Nat]]
  /\ handler \in [Loops -> {Idle} \cup Handling]
  /\ owed \in [Events -> [AllChannels -> Nat]]
  /\ faults \in [Faults -> Nat]

Busy(l) == handler[l] # Idle

(* A handler has a message in hand only while one is left to do, and the   *)
(* in-app row comes before all of them.                                    *)
Sane(l, h) ==
  /\ Loop(h.event) = l
  /\ h.todo \subseteq h.plan
  /\ h.pc = "prefs" => h.plan = {}
  /\ h.pc = "inApp" => h.todo = h.plan \cap Channels /\ "IN_APP" \in h.plan
  /\ h.pc \in {"sent", "failed"} => h.todo # {}

HandlerInv == \A l \in Loops : Busy(l) => Sane(l, handler[l])

(* How far the handler at work on e has come with channel c: nowhere, a    *)
(* message "sent" or "failed" that the log does not tell yet, or "done".   *)
Stage(e, c) ==
  LET l == Loop(e) IN
  IF ~Busy(l) \/ Event(l) # e \/ c \notin handler[l].plan \/ At(l, "inApp") THEN "none"
  ELSE IF c \notin handler[l].todo THEN "done"
  ELSE IF c = Channel(l) /\ handler[l].pc \in {"sent", "failed"} THEN handler[l].pc
  ELSE "none"

Is(e, c, stage) == IF Stage(e, c) = stage THEN 1 ELSE 0

(* The in-app row: one for each handler that returned or has passed it,    *)
(* but for the rows that failed, and for the handlers that crashed.        *)
InAppLedger(e) ==
  /\ owed[e]["IN_APP"] + Is(e, "IN_APP", "done") <= Rows(e, "IN_APP", "SENT") + Spent("log")
  /\ Rows(e, "IN_APP", "SENT") <=
       owed[e]["IN_APP"] + Is(e, "IN_APP", "done") + Spent("crash")

(* A message: the log claims no more than what was sent, no more is sent   *)
(* than there are handlers to answer for it, and each of them leaves a row *)
(* unless two faults hit it, of which a failed message has met the first.  *)
MessageLedger(e, c) ==
  /\ Rows(e, c, "SENT") + Is(e, c, "sent") <= sent[e][c]
  /\ sent[e][c] <=
       owed[e][c] + Is(e, c, "done") + Is(e, c, "sent") + Is(e, c, "failed") + Spent("crash")
  /\ 2 * owed[e][c] + 2 * Is(e, c, "done") + Is(e, c, "failed") <=
       2 * (Rows(e, c, "SENT") + Rows(e, c, "FAILED")) + Spent("log") + Spent("mail")

Ledgers ==
  \A e \in Events : InAppLedger(e) /\ \A c \in Channels : MessageLedger(e, c)

ServiceInv == TypeInv /\ HandlerInv /\ Ledgers

-----------------------------------------------------------------------------
(* What a step adds to the log, and what it costs in faults.               *)
LogGains(e, c, s, n) ==
  /\ IsABag(log') /\ DOMAIN log' \subseteq LogRow
  /\ \A f, d, t :
       Rows(f, d, t)' = Rows(f, d, t) + IF f = e /\ d = c /\ t = s THEN n ELSE 0

LogUnmoved ==
  /\ IsABag(log') /\ DOMAIN log' \subseteq LogRow
  /\ \A f, d, t : Rows(f, d, t)' = Rows(f, d, t)

Costs(f, n) ==
  /\ faults' \in [Faults -> Nat]
  /\ \A g \in Faults : Spent(g)' = Spent(g) + IF g = f THEN n ELSE 0

Writes(e, c, s) == log' = log (+) SetToBag({Row(e, c, s, FALSE)})

(* What a bag holds is counted from one.                                   *)
LEMMA BagCounts ==
  ASSUME NEW B, IsABag(B), NEW x \in DOMAIN B
  PROVE  B[x] \in Nat /\ B[x] > 0
BY DEF IsABag

LEMMA CopiesType ==
  ASSUME IsABag(log), NEW x
  PROVE  Copies(x) \in Nat
BY BagCounts DEF Copies, BagIn, BagToSet

LEMMA RowsType ==
  ASSUME IsABag(log), NEW e, NEW c, NEW s
  PROVE  Rows(e, c, s) \in Nat
BY CopiesType DEF Rows, Row

(* C is B with one more y, or with one less.                               *)
OneMore(B, C, y) ==
  /\ IsABag(C) /\ DOMAIN C = DOMAIN B \cup {y}
  /\ \A x \in DOMAIN C :
       C[x] = (IF x \in DOMAIN B THEN B[x] ELSE 0) + IF x = y THEN 1 ELSE 0

OneLess(B, C, y) ==
  /\ IsABag(C) /\ DOMAIN C \subseteq DOMAIN B
  /\ \A x \in DOMAIN B :
       B[x] = (IF x \in DOMAIN C THEN C[x] ELSE 0) + IF x = y THEN 1 ELSE 0

LEMMA BagPlusOne ==
  ASSUME NEW B, IsABag(B), NEW y, NEW C, C = B (+) SetToBag({y})
  PROVE  OneMore(B, C, y)
<1>1. /\ DOMAIN C = DOMAIN B \cup {y}
      /\ \A x \in DOMAIN C :
           C[x] = (IF x \in DOMAIN B THEN B[x] ELSE 0) + IF x = y THEN 1 ELSE 0
  BY DEF (+), SetToBag
<1>2. C = [x \in DOMAIN C |-> C[x]]
  BY DEF (+)
<1>3. \A x \in DOMAIN C : C[x] \in Nat /\ C[x] > 0
  BY <1>1, BagCounts
<1>4. IsABag(C)
  BY <1>2, <1>3 DEF IsABag
<1> QED
  BY <1>1, <1>4 DEF OneMore

LEMMA BagMinusOne ==
  ASSUME NEW B, IsABag(B), NEW y \in DOMAIN B, NEW C, C = B (-) SetToBag({y})
  PROVE  OneLess(B, C, y)
<1> DEFINE Left(x) == IF x = y THEN B[x] - 1 ELSE B[x]
<1>1. C = [x \in {d \in DOMAIN B : Left(d) > 0} |-> Left(x)]
  BY DEF (-), SetToBag
<1>2. \A x \in DOMAIN B : B[x] \in Nat /\ B[x] > 0
  BY BagCounts
<1>3. /\ DOMAIN C = {x \in DOMAIN B : Left(x) > 0}
      /\ \A x \in DOMAIN C : C[x] = Left(x)
  BY <1>1
<1>4. ASSUME NEW x \in DOMAIN C PROVE C[x] \in Nat /\ C[x] > 0
  <2>1. x \in DOMAIN B /\ C[x] = Left(x) /\ Left(x) > 0
    BY <1>3
  <2> QED
    BY <1>2, <2>1
<1>5. C = [x \in DOMAIN C |-> C[x]]
  BY <1>1
<1>6. IsABag(C)
  BY <1>4, <1>5 DEF IsABag
<1>7. ASSUME NEW x \in DOMAIN B
      PROVE  B[x] = (IF x \in DOMAIN C THEN C[x] ELSE 0) + IF x = y THEN 1 ELSE 0
  BY <1>2, <1>3
<1> QED
  BY <1>3, <1>6, <1>7 DEF OneLess

LEMMA CopiesAdded ==
  ASSUME IsABag(log), NEW new, log' = log (+) SetToBag({new})
  PROVE  /\ IsABag(log') /\ DOMAIN log' = DOMAIN log \cup {new}
         /\ \A x : Copies(x)' = Copies(x) + IF x = new THEN 1 ELSE 0
<1>1. OneMore(log, log', new)
  BY BagPlusOne
<1>2. \A y \in DOMAIN log : log[y] \in Nat
  BY BagCounts
<1>3. ASSUME NEW x PROVE Copies(x)' = Copies(x) + IF x = new THEN 1 ELSE 0
  <2>1. /\ Copies(x) = IF x \in DOMAIN log THEN log[x] ELSE 0
        /\ Copies(x)' = IF x \in DOMAIN log' THEN log'[x] ELSE 0
    BY DEF Copies, BagIn, BagToSet
  <2> QED
    BY <1>1, <1>2, <2>1 DEF OneMore
<1> QED
  BY <1>1, <1>3 DEF OneMore

(* A row that is written counts once, for its event and its channel.       *)
LEMMA WrittenRow ==
  ASSUME TypeInv, NEW e \in Events, NEW c \in AllChannels, NEW s \in {"SENT", "FAILED"},
         Writes(e, c, s)
  PROVE  LogGains(e, c, s, 1)
<1>1. /\ IsABag(log') /\ DOMAIN log' = DOMAIN log \cup {Row(e, c, s, FALSE)}
      /\ \A x : Copies(x)' = Copies(x) + IF x = Row(e, c, s, FALSE) THEN 1 ELSE 0
  BY CopiesAdded, Zenon DEF Writes, TypeInv
<1>2. ASSUME NEW f, NEW d, NEW t
      PROVE  Rows(f, d, t)' = Rows(f, d, t) + IF f = e /\ d = c /\ t = s THEN 1 ELSE 0
  BY <1>1, CopiesType DEF Rows, Row, TypeInv
<1>3. DOMAIN log' \subseteq LogRow
  <2>1. Row(e, c, s, FALSE) \in LogRow
    BY DEF LogRow, Row
  <2> QED
    BY <1>1, <2>1, Zenon DEF TypeInv
<1> QED
  BY <1>1, <1>2, <1>3, Zenon DEF LogGains

(* Reading a row only moves it between the two that Rows counts.           *)
LEMMA ReadRow ==
  ASSUME TypeInv, NEW u \in Users, NEW row \in BagToSet(log), MarkRead(u, row)
  PROVE  LogUnmoved
<1> DEFINE new == [row EXCEPT !.read = TRUE]
           rest == log (-) SetToBag({row})
<1>1. row \in LogRow /\ new \in LogRow /\ row \in DOMAIN log
  BY DEF TypeInv, BagToSet, LogRow
<1>2. /\ new.event = row.event /\ new.channel = row.channel /\ new.status = row.status
      /\ new.read = TRUE
  BY <1>1 DEF LogRow
<1>3. IsABag(log)
  BY DEF TypeInv
<1>4. log' = rest (+) SetToBag({new})
  BY DEF MarkRead
<1>5. OneLess(log, rest, row)
  BY <1>1, <1>3, BagMinusOne
<1> HIDE DEF new, rest
<1>6. OneMore(rest, log', new)
  BY <1>4, <1>5, BagPlusOne DEF OneLess
<1>7. IsABag(log') /\ DOMAIN log' \subseteq LogRow
  BY <1>1, <1>5, <1>6 DEF TypeInv, OneLess, OneMore
<1>8. ASSUME NEW x
      PROVE  Copies(x)' = Copies(x) - (IF x = row THEN 1 ELSE 0) + IF x = new THEN 1 ELSE 0
  <2>1. \A y \in DOMAIN log : log[y] \in Nat
    BY <1>3, BagCounts
  <2>2. \A y \in DOMAIN rest : rest[y] \in Nat
    BY <1>5, BagCounts DEF OneLess
  <2>3. /\ Copies(x) = IF x \in DOMAIN log THEN log[x] ELSE 0
        /\ Copies(x)' = IF x \in DOMAIN log' THEN log'[x] ELSE 0
    BY DEF Copies, BagIn, BagToSet
  <2> QED
    BY <2>1, <2>2, <2>3, <1>1, <1>5, <1>6 DEF OneLess, OneMore
<1>9. ASSUME NEW f, NEW d, NEW t
      PROVE  Rows(f, d, t)' = Rows(f, d, t)
  <2> DEFINE fresh == [event |-> f, channel |-> d, status |-> t, read |-> FALSE]
             read == [event |-> f, channel |-> d, status |-> t, read |-> TRUE]
  <2>1. Rows(f, d, t) = Copies(fresh) + Copies(read)
    BY DEF Rows, Row
  <2>2. Rows(f, d, t)' = Copies(fresh)' + Copies(read)'
    BY DEF Rows, Row
  <2>3. fresh # read
    OBVIOUS
  <2>4. \/ new = row
        \/ row = fresh /\ new = read
        \/ row \notin {fresh, read} /\ new \notin {fresh, read}
    <3>1. \A r \in LogRow :
            /\ r = fresh <=> r.event = f /\ r.channel = d /\ r.status = t /\ r.read = FALSE
            /\ r = read <=> r.event = f /\ r.channel = d /\ r.status = t /\ r.read = TRUE
      BY DEF LogRow
    <3>2. row.read \in BOOLEAN
      BY <1>1 DEF LogRow
    <3>3. CASE row.read = TRUE
      <4>1. new = row
        BY <1>1, <1>2, <3>3 DEF LogRow
      <4> QED
        BY <4>1
    <3>4. CASE row.read = FALSE
      BY <1>1, <1>2, <3>1, <3>4
    <3> QED
      BY <3>2, <3>3, <3>4
  <2> HIDE DEF fresh, read
  <2>5. Copies(fresh) \in Nat /\ Copies(read) \in Nat
    BY <1>3, CopiesType
  <2> QED
    BY <1>8, <2>1, <2>2, <2>3, <2>4, <2>5
<1> QED
  BY <1>7, <1>9, Zenon DEF LogUnmoved

-----------------------------------------------------------------------------
(* Faults only run out.                                                    *)
LEMMA SpentType ==
  ASSUME TypeInv, NEW f \in Faults
  PROVE  Spent(f) \in Int
BY FaultBudgetAssumption DEF FaultBudgetAssumption, TypeInv, Spent

LEMMA FaultSpent ==
  ASSUME TypeInv, NEW f \in Faults, Happens(f)
  PROVE  Costs(f, 1)
<1>1. faults[f] \in Nat /\ faults[f] > 0 /\ faults' = [faults EXCEPT ![f] = faults[f] - 1]
  BY DEF TypeInv, Happens
<1>2. faults' \in [Faults -> Nat]
  BY <1>1 DEF TypeInv
<1>3. ASSUME NEW g \in Faults
      PROVE  Spent(g)' = Spent(g) + IF g = f THEN 1 ELSE 0
  <2>1. faults[g] \in Nat /\ faults'[g] = IF g = f THEN faults[f] - 1 ELSE faults[g]
    BY <1>1 DEF TypeInv
  <2>2. FaultBudget[g] \in Nat
    BY FaultBudgetAssumption DEF FaultBudgetAssumption
  <2> QED
    BY <1>1, <2>1, <2>2 DEF Spent
<1> QED
  BY <1>2, <1>3 DEF Costs

LEMMA NoFault ==
  ASSUME TypeInv, UNCHANGED faults, NEW f
  PROVE  Costs(f, 0)
BY SpentType DEF Costs, Spent, TypeInv

(* What is not touched keeps its count.                                    *)
LEMMA SameLog ==
  ASSUME TypeInv, UNCHANGED log
  PROVE  LogUnmoved
<1>1. \A f, d, t : Rows(f, d, t)' = Rows(f, d, t)
  BY DEF Rows, Copies, Row
<1> QED
  BY <1>1 DEF LogUnmoved, TypeInv

LEMMA GainsNothing ==
  ASSUME TypeInv, LogUnmoved, NEW e, NEW c, NEW s
  PROVE  LogGains(e, c, s, 0)
BY RowsType DEF LogUnmoved, LogGains, TypeInv

SameStages == \A e \in Events, c \in AllChannels : Stage(e, c)' = Stage(e, c)

(* One channel of the event that loop l handles comes from one stage to    *)
(* the next.                                                               *)
Moves(l, d, from, to) ==
  \A e \in Events, c \in AllChannels :
    IF e = Event(l) /\ c = d THEN Stage(e, c) = from /\ Stage(e, c)' = to
                            ELSE Stage(e, c)' = Stage(e, c)

(* The handler at work on an event is the one that its stages tell of.     *)
LEMMA HandlerAtWork ==
  ASSUME TypeInv, HandlerInv, NEW l \in Loops, Busy(l)
  PROVE  /\ handler[l] \in Handling /\ Event(l) \in Events /\ Loop(Event(l)) = l
         /\ At(l, "sent") \/ At(l, "failed") \/ (At(l, "next") /\ handler[l].todo # {})
              => /\ Channel(l) \in handler[l].todo /\ Channel(l) \in Channels
<1>1. handler[l] \in Handling /\ Loop(Event(l)) = l
  BY DEF TypeInv, HandlerInv, Sane, Busy, Event
<1>2. Event(l) \in Events /\ handler[l].todo \subseteq Channels
  BY <1>1 DEF Handling, Event
<1>3. ASSUME handler[l].todo # {}
      PROVE  Channel(l) \in handler[l].todo
  BY <1>2, <1>3 DEF Channel, Channels
<1> QED
  BY <1>1, <1>2, <1>3 DEF HandlerInv, Sane, Busy, At

LEMMA LoopType ==
  ASSUME NEW e PROVE Loop(e) \in Loops
BY DEF Loop, Loops

(* A step of the handler of loop l leaves the other events alone.          *)
LEMMA OtherStages ==
  ASSUME TypeInv, HandlerInv, NEW l \in Loops, Busy(l), NEW h,
         handler' = [handler EXCEPT ![l] = h], h = Idle \/ h.event = Event(l),
         NEW e \in Events, e # Event(l), NEW c
  PROVE  Stage(e, c)' = Stage(e, c)
<1>1. CASE Loop(e) = l
  <2>1. handler'[l] = h
    BY DEF TypeInv
  <2>2. Stage(e, c) = "none"
    BY <1>1 DEF Stage
  <2>3. Stage(e, c)' = "none"
    BY <1>1, <2>1 DEF Stage, Busy, Event
  <2> QED
    BY <2>2, <2>3
<1>2. CASE Loop(e) # l
  <2>1. handler'[Loop(e)] = handler[Loop(e)]
    BY <1>2, LoopType DEF TypeInv
  <2> QED
    BY <2>1 DEF Stage, Busy, At, Event, Channel
<1> QED
  BY <1>1, <1>2

LEMMA HandlerStep ==
  ASSUME TypeInv, HandlerInv, NEW l \in Loops, NEW h \in {Idle} \cup Handling,
         handler' = [handler EXCEPT ![l] = h], h # Idle => Sane(l, h)
  PROVE  handler' \in [Loops -> {Idle} \cup Handling] /\ HandlerInv'
<1>1. handler' \in [Loops -> {Idle} \cup Handling]
  BY DEF TypeInv
<1>2. \A m \in Loops : handler'[m] = IF m = l THEN h ELSE handler[m]
  BY DEF TypeInv
<1>3. ASSUME NEW m \in Loops, handler'[m] # Idle PROVE Sane(m, handler'[m])
  BY <1>2, <1>3 DEF HandlerInv, Busy
<1> QED
  BY <1>1, <1>3 DEF HandlerInv, Busy

(* The handler of loop l goes on with h.                                   *)
Becomes(l, h) == handler' = [handler EXCEPT ![l] = h]

Goes(l, pc, todo) ==
  Becomes(l, [pc |-> pc, event |-> Event(l), plan |-> handler[l].plan, todo |-> todo])

LEMMA HandlerSet ==
  ASSUME NEW h \in Handling, NEW pc, NEW todo
  PROVE  /\ [h EXCEPT !.pc = pc] =
              [pc |-> pc, event |-> h.event, plan |-> h.plan, todo |-> h.todo]
         /\ [h EXCEPT !.pc = pc, !.todo = todo] =
              [pc |-> pc, event |-> h.event, plan |-> h.plan, todo |-> todo]
<1> DEFINE g == [h EXCEPT !.pc = pc]
<1>1. g = [pc |-> pc, event |-> h.event, plan |-> h.plan, todo |-> h.todo]
  BY DEF Handling
<1>2. [h EXCEPT !.pc = pc, !.todo = todo] = [g EXCEPT !.todo = todo]
  OBVIOUS
<1> HIDE DEF g
<1>3. [g EXCEPT !.todo = todo] = [pc |-> pc, event |-> h.event, plan |-> h.plan, todo |-> todo]
  BY <1>1
<1> QED
  BY <1>1, <1>2, <1>3 DEF g

LEMMA GoToGoes ==
  ASSUME TypeInv, NEW l \in Loops, Busy(l), NEW pc, GoTo(l, pc)
  PROVE  Goes(l, pc, handler[l].todo)
<1>1. handler[l] \in Handling
  BY DEF TypeInv, Busy
<1>2. [handler[l] EXCEPT !.pc = pc] =
        [pc |-> pc, event |-> Event(l), plan |-> handler[l].plan, todo |-> handler[l].todo]
  BY <1>1, HandlerSet DEF Event
<1>3. handler' = [handler EXCEPT ![l] = [handler[l] EXCEPT !.pc = pc]]
  BY DEF GoTo
<1> QED
  BY <1>2, <1>3 DEF Goes, Becomes

LEMMA NextChannelGoes ==
  ASSUME TypeInv, NEW l \in Loops, Busy(l), NextChannel(l)
  PROVE  Goes(l, "next", handler[l].todo \ {Channel(l)})
<1>1. handler[l] \in Handling
  BY DEF TypeInv, Busy
<1>2. ASSUME NEW todo
      PROVE  [handler[l] EXCEPT !.pc = "next", !.todo = todo] =
               [pc |-> "next", event |-> Event(l), plan |-> handler[l].plan, todo |-> todo]
  BY <1>1, HandlerSet DEF Event
<1> DEFINE rest == handler[l].todo \ {Channel(l)}
<1>3. handler' = [handler EXCEPT ![l] = [@ EXCEPT !.pc = "next", !.todo = rest]]
  BY DEF NextChannel
<1> HIDE DEF rest
<1>4. Goes(l, "next", rest)
  BY <1>2, <1>3 DEF Goes, Becomes
<1> QED
  BY <1>4 DEF rest

(* What a handler that goes on leaves behind, stage by stage.              *)
LEMMA GoesStages ==
  ASSUME TypeInv, HandlerInv, NEW l \in Loops, Busy(l),
         NEW pc \in {"inApp", "next", "sent", "failed"}, NEW todo \in SUBSET handler[l].todo,
         pc \in {"sent", "failed"} => todo # {},
         pc = "inApp" => At(l, "inApp") /\ todo = handler[l].todo,
         Goes(l, pc, todo)
  PROVE  /\ handler' \in [Loops -> {Idle} \cup Handling] /\ HandlerInv'
         /\ \A e \in Events, c \in AllChannels : e # Event(l) => Stage(e, c)' = Stage(e, c)
         /\ \A e \in Events, c \in AllChannels : e = Event(l) =>
              Stage(e, c)' =
                IF c \notin handler[l].plan \/ pc = "inApp" THEN "none"
                ELSE IF c \notin todo THEN "done"
                ELSE IF /\ c = IF "EMAIL" \in todo THEN "EMAIL" ELSE "SMS"
                        /\ pc \in {"sent", "failed"}
                     THEN pc
                ELSE "none"
<1> DEFINE h == [pc |-> pc, event |-> Event(l), plan |-> handler[l].plan, todo |-> todo]
<1>1. /\ handler[l] \in Handling /\ Event(l) \in Events /\ Loop(Event(l)) = l
      /\ Sane(l, handler[l])
  BY HandlerAtWork DEF HandlerInv
<1>2. h \in Handling
  BY <1>1 DEF Handling
<1>3. h # Idle
  BY DEF Idle
<1>4. Sane(l, h)
  BY <1>1 DEF Sane, Event, At
<1>5. Becomes(l, h)
  BY DEF Goes
<1>6. h.event = Event(l) /\ h.pc = pc /\ h.plan = handler[l].plan /\ h.todo = todo
  OBVIOUS
<1> HIDE DEF h
<1>7. handler' \in [Loops -> {Idle} \cup Handling] /\ HandlerInv'
  BY <1>2, <1>4, <1>5, HandlerStep DEF Becomes
<1>8. \A e \in Events, c \in AllChannels : e # Event(l) => Stage(e, c)' = Stage(e, c)
  BY <1>5, <1>6, OtherStages DEF Becomes
<1>9. handler'[l] = h
  BY <1>5 DEF TypeInv, Becomes
<1>10. ASSUME NEW e \in Events, NEW c \in AllChannels, e = Event(l)
       PROVE  Stage(e, c)' =
                IF c \notin handler[l].plan \/ pc = "inApp" THEN "none"
                ELSE IF c \notin todo THEN "done"
                ELSE IF /\ c = IF "EMAIL" \in todo THEN "EMAIL" ELSE "SMS"
                        /\ pc \in {"sent", "failed"}
                     THEN pc
                ELSE "none"
  <2>1. Loop(e) = l
    BY <1>1, <1>10
  <2> QED
    BY <2>1, <1>3, <1>6, <1>9, <1>10 DEF Stage, Busy, Event, At, Channel
<1> QED
  BY <1>7, <1>8, <1>10

HandlerType == handler' \in [Loops -> {Idle} \cup Handling] /\ HandlerInv'

(* The steps before the first message change no stage but that of the      *)
(* in-app row.                                                             *)
LEMMA DeliverStages ==
  ASSUME TypeInv, HandlerInv, NEW e \in Events, Deliver(e)
  PROVE  HandlerType /\ SameStages
<1> DEFINE h == [pc |-> "prefs", event |-> e, plan |-> {}, todo |-> {}]
           l == Loop(e)
<1>1. l \in Loops /\ h \in Handling /\ Sane(l, h)
  BY LoopType DEF Handling, Sane
<1>2. h.event = e /\ h.plan = {}
  OBVIOUS
<1>3. handler[l] = Idle /\ handler' = [handler EXCEPT ![l] = h]
  BY DEF Deliver
<1> HIDE DEF h
<1>4. HandlerType
  BY <1>1, <1>3, HandlerStep DEF HandlerType
<1>5. \A m \in Loops : handler'[m] = IF m = l THEN h ELSE handler[m]
  BY <1>3 DEF TypeInv
<1>6. ASSUME NEW f \in Events, NEW c \in AllChannels
      PROVE  Stage(f, c)' = Stage(f, c)
  <2>1. CASE Loop(f) = l
    <3>1. Stage(f, c) = "none"
      BY <1>3, <2>1 DEF Stage, Busy
    <3>2. Stage(f, c)' = "none"
      BY <1>2, <1>5, <1>1, <2>1 DEF Stage, Busy
    <3> QED
      BY <3>1, <3>2
  <2>2. CASE Loop(f) # l
    <3>1. handler'[Loop(f)] = handler[Loop(f)]
      BY <1>5, <2>2, LoopType
    <3> QED
      BY <3>1 DEF Stage, Busy, At, Event, Channel
  <2> QED
    BY <2>1, <2>2
<1> QED
  BY <1>4, <1>6 DEF SameStages

LEMMA PlanStages ==
  ASSUME TypeInv, HandlerInv, NEW l \in Loops, At(l, "prefs"), Busy(l),
         NEW h \in Handling, Becomes(l, h), Sane(l, h), h.event = Event(l),
         h.pc = "inApp" \/ (h.pc = "next" /\ h.plan = h.todo)
  PROVE  HandlerType /\ SameStages
<1>1. HandlerType
  BY HandlerStep DEF HandlerType, Becomes
<1>2. handler'[l] = h /\ h # Idle
  BY DEF Becomes, TypeInv, Idle
<1>3. Loop(Event(l)) = l /\ handler[l].plan = {}
  BY DEF HandlerInv, Sane, Busy, At, Event
<1>4. ASSUME NEW e \in Events, NEW c \in AllChannels
      PROVE  Stage(e, c)' = Stage(e, c)
  <2>1. CASE e # Event(l)
    BY <2>1, OtherStages DEF Becomes
  <2>2. CASE e = Event(l)
    <3>1. Stage(e, c) = "none"
      BY <1>3, <2>2 DEF Stage
    <3>2. Stage(e, c)' = "none"
      BY <1>2, <1>3, <2>2 DEF Stage, Busy, At, Event
    <3> QED
      BY <3>1, <3>2
  <2> QED
    BY <2>1, <2>2
<1> QED
  BY <1>1, <1>4 DEF SameStages

LEMMA IdleStages ==
  ASSUME TypeInv, HandlerInv, NEW l \in Loops, Busy(l), Becomes(l, Idle)
  PROVE  /\ HandlerType
         /\ \A e \in Events, c \in AllChannels :
              Stage(e, c)' = IF e = Event(l) THEN "none" ELSE Stage(e, c)
<1>1. HandlerType
  BY HandlerStep DEF HandlerType, Becomes
<1>2. handler'[l] = Idle
  BY DEF Becomes, TypeInv
<1>3. Loop(Event(l)) = l
  BY HandlerAtWork
<1>4. ASSUME NEW e \in Events, NEW c \in AllChannels
      PROVE  Stage(e, c)' = IF e = Event(l) THEN "none" ELSE Stage(e, c)
  <2>1. CASE e # Event(l)
    BY <2>1, OtherStages DEF Becomes
  <2>2. CASE e = Event(l)
    BY <1>2, <1>3, <2>2 DEF Stage, Busy
  <2> QED
    BY <2>1, <2>2
<1> QED
  BY <1>1, <1>4

(* A message on the channel whose turn it is, and the in-app row.          *)
LEMMA MessageStages ==
  ASSUME TypeInv, HandlerInv, NEW l \in Loops, Busy(l), handler[l].todo # {},
         At(l, "next") \/ At(l, "sent") \/ At(l, "failed")
  PROVE  /\ \A pc \in {"sent", "failed"} :
              GoTo(l, pc) => /\ HandlerType
                             /\ Moves(l, Channel(l), Stage(Event(l), Channel(l)), pc)
         /\ NextChannel(l) => /\ HandlerType
                              /\ Moves(l, Channel(l), Stage(Event(l), Channel(l)), "done")
         /\ Stage(Event(l), Channel(l)) = IF At(l, "next") THEN "none" ELSE handler[l].pc
<1> DEFINE h == handler[l]
<1>1. /\ Channel(l) \in h.todo /\ Channel(l) \in Channels
      /\ h \in Handling /\ Event(l) \in Events /\ Loop(Event(l)) = l /\ Sane(l, h)
  BY HandlerAtWork DEF HandlerInv
<1>2. ASSUME NEW e \in Events, NEW c \in AllChannels, e = Event(l)
      PROVE  Stage(e, c) = IF c \notin h.plan THEN "none"
                           ELSE IF c \notin h.todo THEN "done"
                           ELSE IF c = Channel(l) /\ ~At(l, "next") THEN h.pc
                           ELSE "none"
  BY <1>1, <1>2 DEF Stage, At
<1>3. Channel(l) \in h.plan /\ Channel(l) \in AllChannels
  BY <1>1 DEF Sane, AllChannels
<1>4. Stage(Event(l), Channel(l)) = IF At(l, "next") THEN "none" ELSE h.pc
  BY <1>1, <1>2, <1>3
<1>5. ASSUME NEW pc \in {"sent", "failed"}, GoTo(l, pc)
      PROVE  HandlerType /\ Moves(l, Channel(l), Stage(Event(l), Channel(l)), pc)
  <2>1. Goes(l, pc, h.todo)
    BY <1>5, GoToGoes
  <2>2. /\ HandlerType
        /\ \A e \in Events, c \in AllChannels : e # Event(l) => Stage(e, c)' = Stage(e, c)
        /\ \A e \in Events, c \in AllChannels : e = Event(l) =>
             Stage(e, c)' = IF c \notin h.plan THEN "none"
                            ELSE IF c \notin h.todo THEN "done"
                            ELSE IF c = Channel(l) THEN pc
                            ELSE "none"
    BY <2>1, GoesStages DEF HandlerType, Channel
  <2> QED
    BY <2>2, <1>1, <1>2, <1>3 DEF Moves
<1>6. ASSUME NextChannel(l)
      PROVE  HandlerType /\ Moves(l, Channel(l), Stage(Event(l), Channel(l)), "done")
  <2>1. Goes(l, "next", h.todo \ {Channel(l)})
    BY <1>6, NextChannelGoes
  <2>2. /\ HandlerType
        /\ \A e \in Events, c \in AllChannels : e # Event(l) => Stage(e, c)' = Stage(e, c)
        /\ \A e \in Events, c \in AllChannels : e = Event(l) =>
             Stage(e, c)' = IF c \notin h.plan THEN "none"
                            ELSE IF c \notin h.todo \ {Channel(l)} THEN "done"
                            ELSE "none"
    BY <2>1, GoesStages DEF HandlerType
  <2> QED
    BY <2>2, <1>1, <1>2, <1>3 DEF Moves
<1> QED
  BY <1>4, <1>5, <1>6

LEMMA InAppStages ==
  ASSUME TypeInv, HandlerInv, NEW l \in Loops, At(l, "inApp"), Busy(l), GoTo(l, "next")
  PROVE  HandlerType /\ Moves(l, "IN_APP", "none", "done")
<1>1. Goes(l, "next", handler[l].todo)
  BY GoToGoes
<1>2. /\ handler[l] \in Handling /\ Loop(Event(l)) = l /\ "IN_APP" \in handler[l].plan
      /\ handler[l].todo = handler[l].plan \cap Channels
  BY HandlerAtWork DEF HandlerInv, Sane, At
<1>3. HandlerType
  BY <1>1, GoesStages DEF HandlerType
<1>4. ASSUME NEW e \in Events, NEW c \in AllChannels
      PROVE  IF e = Event(l) /\ c = "IN_APP"
             THEN Stage(e, c) = "none" /\ Stage(e, c)' = "done"
             ELSE Stage(e, c)' = Stage(e, c)
  <2>1. /\ e # Event(l) => Stage(e, c)' = Stage(e, c)
        /\ e = Event(l) => Stage(e, c)' = IF c \notin handler[l].plan THEN "none"
                                           ELSE IF c \notin handler[l].todo THEN "done"
                                           ELSE "none"
    BY <1>1, GoesStages
  <2>2. e = Event(l) => Stage(e, c) = "none"
    BY <1>2 DEF Stage
  <2>3. c = "IN_APP" <=> c \notin Channels
    BY DEF AllChannels, Channels
  <2> QED
    BY <1>2, <2>1, <2>2, <2>3
<1> QED
  BY <1>3, <1>4 DEF Moves

-----------------------------------------------------------------------------
(* The ledgers balance                                                     *)
LEMMA CountTypes ==
  ASSUME TypeInv, NEW e \in Events
  PROVE  /\ \A c, s : Rows(e, c, s) \in Nat
         /\ \A c \in AllChannels : owed[e][c] \in Nat
         /\ \A c \in Channels : sent[e][c] \in Nat
         /\ \A f \in Faults : Spent(f) \in Int
<1>1. \A c, s : Rows(e, c, s) \in Nat
  BY RowsType DEF TypeInv
<1>2. /\ \A c \in AllChannels : owed[e][c] \in Nat
      /\ \A c \in Channels : sent[e][c] \in Nat
  BY DEF TypeInv
<1>3. \A f \in Faults : Spent(f) \in Int
  BY SpentType
<1> QED
  BY <1>1, <1>2, <1>3

(* Faults alone do not disturb them, nor does what changes no stage.       *)
LEMMA QuietLedgers ==
  ASSUME ServiceInv, SameStages, UNCHANGED <<sent, owed>>,
         LogUnmoved, NEW g, NEW n \in 0 .. 1, Costs(g, n)
  PROVE  Ledgers'
<1> SUFFICES ASSUME NEW e \in Events
             PROVE  InAppLedger(e)' /\ \A c \in Channels : MessageLedger(e, c)'
  BY DEF Ledgers
<1> USE CountTypes DEF Faults
<1>1. TypeInv /\ InAppLedger(e) /\ \A c \in Channels : MessageLedger(e, c)
  BY DEF ServiceInv, Ledgers
<1>2. \A c, s : Rows(e, c, s)' = Rows(e, c, s)
  BY DEF LogUnmoved
<1>3. \A f \in Faults : Spent(f)' \in Int /\ Spent(f)' >= Spent(f)
  BY <1>1 DEF Costs
<1>4. InAppLedger(e)'
  BY <1>1, <1>2, <1>3 DEF InAppLedger, Is, SameStages, AllChannels
<1>5. ASSUME NEW c \in Channels PROVE MessageLedger(e, c)'
  BY <1>1, <1>2, <1>3 DEF MessageLedger, Is, SameStages, AllChannels
<1> QED
  BY <1>4, <1>5

(* The in-app row, written or lost to a fault.                             *)
LEMMA InAppLedgers ==
  ASSUME ServiceInv, NEW l \in Loops, UNCHANGED <<sent, owed>>,
         Moves(l, "IN_APP", "none", "done"),
         NEW n \in 0 .. 1, LogGains(Event(l), "IN_APP", "SENT", n), Costs("log", 1 - n)
  PROVE  Ledgers'
<1> SUFFICES ASSUME NEW e \in Events
             PROVE  InAppLedger(e)' /\ \A c \in Channels : MessageLedger(e, c)'
  BY DEF Ledgers
<1> USE CountTypes DEF Faults
<1>1. TypeInv /\ InAppLedger(e) /\ \A c \in Channels : MessageLedger(e, c)
  BY DEF ServiceInv, Ledgers
<1>2. "IN_APP" \in AllChannels /\ "IN_APP" \notin Channels /\ Channels \subseteq AllChannels
  BY DEF Channels, AllChannels
<1>3. /\ Spent("log")' = Spent("log") + 1 - n /\ Spent("mail")' = Spent("mail")
      /\ Spent("crash")' = Spent("crash")
  BY <1>1 DEF Costs
<1>4. InAppLedger(e)'
  BY <1>1, <1>2, <1>3 DEF InAppLedger, Is, Moves, LogGains
<1>5. ASSUME NEW c \in Channels PROVE MessageLedger(e, c)'
  <2>1. Stage(e, c)' = Stage(e, c)
    BY <1>2 DEF Moves
  <2>2. \A s : Rows(e, c, s)' = Rows(e, c, s)
    BY <1>1, <1>2 DEF LogGains
  <2> QED
    BY <1>1, <1>2, <1>3, <2>1, <2>2 DEF MessageLedger, Is
<1> QED
  BY <1>4, <1>5

One(x, y) == IF x = y THEN 1 ELSE 0

(* A message that goes from one stage to the next, with m more sent, n more *)
(* rows of a status and k more faults.                                     *)
LEMMA MessageLedgers ==
  ASSUME ServiceInv, NEW l \in Loops, NEW d \in Channels, UNCHANGED owed,
         NEW from \in {"none", "sent", "failed"}, NEW to \in {"done", "sent", "failed"},
         Moves(l, d, from, to),
         NEW m \in 0 .. 1, NEW status \in {"SENT", "FAILED"}, NEW n \in 0 .. 1,
         NEW g \in {"log", "mail"}, NEW k \in 0 .. 1,
         \A e \in Events, c \in Channels :
            sent'[e][c] = sent[e][c] + IF e = Event(l) /\ c = d THEN m ELSE 0,
         LogGains(Event(l), d, status, n), Costs(g, k),
         (IF status = "SENT" THEN n ELSE 0) + One(to, "sent") <= m + One(from, "sent"),
         from = "none" \/ m = 0,
         2 * One(to, "done") + One(to, "failed") <= One(from, "failed") + 2 * n + k
  PROVE  Ledgers'
<1> SUFFICES ASSUME NEW e \in Events
             PROVE  InAppLedger(e)' /\ \A c \in Channels : MessageLedger(e, c)'
  BY DEF Ledgers
<1> USE CountTypes DEF Faults
<1>1. TypeInv /\ InAppLedger(e) /\ \A c \in Channels : MessageLedger(e, c)
  BY DEF ServiceInv, Ledgers
<1>2. "IN_APP" \in AllChannels /\ "IN_APP" \notin Channels /\ Channels \subseteq AllChannels
  BY DEF Channels, AllChannels
<1>3. /\ Spent("crash")' = Spent("crash")
      /\ Spent("log")' >= Spent("log") /\ Spent("log")' \in Int
      /\ Spent("log")' + Spent("mail")' = Spent("log") + Spent("mail") + k
      /\ Spent("mail")' \in Int
  BY <1>1 DEF Costs
<1>4. InAppLedger(e)'
  <2>1. Stage(e, "IN_APP")' = Stage(e, "IN_APP")
    BY <1>2 DEF Moves
  <2>2. Rows(e, "IN_APP", "SENT")' = Rows(e, "IN_APP", "SENT")
    BY <1>1, <1>2 DEF LogGains
  <2> QED
    BY <1>1, <1>2, <1>3, <2>1, <2>2 DEF InAppLedger, Is
<1>5. ASSUME NEW c \in Channels PROVE MessageLedger(e, c)'
  <2>1. CASE e = Event(l) /\ c = d
    <3>1. Stage(e, c) = from /\ Stage(e, c)' = to
      BY <1>2, <2>1 DEF Moves
    <3>2. /\ Rows(e, c, "SENT")' = Rows(e, c, "SENT") + IF status = "SENT" THEN n ELSE 0
          /\ Rows(e, c, "FAILED")' = Rows(e, c, "FAILED") + IF status = "SENT" THEN 0 ELSE n
      BY <1>1, <2>1 DEF LogGains
    <3>3. sent'[e][c] = sent[e][c] + m
      BY <2>1
    <3> QED
      BY <1>1, <1>2, <1>3, <3>1, <3>2, <3>3 DEF MessageLedger, Is, One
  <2>2. CASE ~(e = Event(l) /\ c = d)
    <3>1. Stage(e, c)' = Stage(e, c)
      BY <1>2, <2>2 DEF Moves
    <3>2. /\ sent'[e][c] = sent[e][c] /\ Rows(e, c, "SENT")' = Rows(e, c, "SENT")
          /\ Rows(e, c, "FAILED")' = Rows(e, c, "FAILED")
      BY <1>1, <2>2 DEF LogGains
    <3> QED
      BY <1>1, <1>2, <1>3, <3>1, <3>2 DEF MessageLedger, Is
  <2> QED
    BY <2>1, <2>2
<1> QED
  BY <1>4, <1>5

-----------------------------------------------------------------------------
(* The steps                                                               *)
LEMMA ServiceInvInit == Init => ServiceInv
<1> SUFFICES ASSUME Init PROVE ServiceInv
  OBVIOUS
<1>1. IsABag(log) /\ DOMAIN log = {}
  BY DEF Init, EmptyBag, SetToBag, IsABag
<1>2. TypeInv
  BY <1>1, FaultBudgetAssumption
     DEF FaultBudgetAssumption, Init, TypeInv, AllChannels
<1>3. \A l \in Loops : ~Busy(l)
  BY DEF Init, Busy
<1>4. ASSUME NEW e \in Events
      PROVE  InAppLedger(e) /\ \A c \in Channels : MessageLedger(e, c)
  <2>1. \A c, s : Rows(e, c, s) = 0
    BY <1>1 DEF Rows, Row, Copies, BagIn, BagToSet
  <2>2. \A c \in AllChannels, s \in {"done", "sent", "failed"} : Is(e, c, s) = 0
    BY <1>3, LoopType DEF Is, Stage
  <2>3. \A f \in Faults : Spent(f) = 0
    BY FaultBudgetAssumption DEF FaultBudgetAssumption, Init, Spent
  <2>4. /\ \A c \in AllChannels : owed[e][c] = 0
        /\ \A c \in Channels : sent[e][c] = 0
    BY DEF Init, AllChannels
  <2> QED
    BY <2>1, <2>2, <2>3, <2>4 DEF InAppLedger, MessageLedger, Faults, AllChannels
<1> QED
  BY <1>2, <1>3, <1>4 DEF ServiceInv, HandlerInv, Ledgers

(* The steps of a handler before it has done anything, and of the users.   *)
LEMMA QuietStep ==
  ASSUME ServiceInv, HandlerType, SameStages, UNCHANGED <<sent, owed>>, LogUnmoved,
         pref' \in [Users -> {NoRow} \cup [Channels -> BOOLEAN]],
         UNCHANGED faults \/ \E f \in Faults : Happens(f)
  PROVE  ServiceInv'
<1>1. TypeInv
  BY DEF ServiceInv
<1>2. PICK f \in Faults, n \in 0 .. 1 : Costs(f, n)
  BY <1>1, NoFault, FaultSpent DEF Faults
<1>3. TypeInv'
  BY <1>1, <1>2 DEF TypeInv, HandlerType, Costs, LogUnmoved
<1>4. Ledgers'
  BY <1>2, QuietLedgers
<1> QED
  BY <1>3, <1>4 DEF ServiceInv, HandlerType

LEMMA DeliverInv ==
  ASSUME ServiceInv, NEW e \in Events, Deliver(e)
  PROVE  ServiceInv'
<1>1. HandlerType /\ SameStages
  BY DeliverStages DEF ServiceInv
<1>2. UNCHANGED <<pref, log, sent, owed, faults>>
  BY DEF Deliver
<1> QED
  BY <1>1, <1>2, SameLog, QuietStep DEF ServiceInv, TypeInv

LEMMA EventsKnown == \A e \in Events : e.user \in Users /\ e.kind \in Kinds
BY EventsAssumption DEF EventsAssumption, EventType

LEMMA BusyAt ==
  ASSUME TypeInv, NEW l \in Loops, NEW pc \in {"prefs", "inApp", "next", "sent", "failed"},
         At(l, pc)
  PROVE  Busy(l)
BY DEF At, Busy, Idle

LEMMA ReadPreferencesInv ==
  ASSUME ServiceInv, NEW l \in Loops, ReadPreferences(l)
  PROVE  ServiceInv'
<1> DEFINE plan == Plan(Event(l), Preferences(pref[Event(l).user]))
           h == [pc |-> "inApp", event |-> Event(l), plan |-> plan \cup {"IN_APP"}, todo |-> plan]
<1>1. TypeInv /\ HandlerInv /\ At(l, "prefs") /\ Busy(l)
  BY BusyAt DEF ServiceInv, ReadPreferences
<1>2. Event(l) \in Events /\ Loop(Event(l)) = l
  BY <1>1, HandlerAtWork
<1>3. plan \subseteq Channels
  BY DEF Plan
<1>4. Becomes(l, h)
  BY DEF ReadPreferences, Becomes
<1> HIDE DEF plan
<1>5. h \in Handling
  BY <1>2, <1>3 DEF Handling, AllChannels
<1>6. Sane(l, h) /\ h.event = Event(l) /\ h.pc = "inApp"
  BY <1>2, <1>3 DEF Sane, Channels
<1>7. HandlerType /\ SameStages
  BY <1>1, <1>4, <1>5, <1>6, PlanStages
<1>8. UNCHANGED <<pref, log, sent, owed, faults>>
  BY DEF ReadPreferences
<1> QED
  BY <1>1, <1>7, <1>8, SameLog, QuietStep DEF TypeInv

LEMMA UpsertedType ==
  ASSUME NEW row \in {NoRow} \cup [Channels -> BOOLEAN], NEW data \in PreferenceData
  PROVE  Upserted(row, data) \in [Channels -> BOOLEAN]
<1>1. \A c \in DOMAIN data : data[c] \in BOOLEAN
  BY DEF PreferenceData
<1>2. \A c \in Channels : Default[c] \in BOOLEAN
  <2>1. Default["EMAIL"] \in BOOLEAN
    BY DEF Default
  <2>2. Default["SMS"] \in BOOLEAN
    BY DEF Default
  <2> QED
    BY <2>1, <2>2 DEF Channels
<1> QED
  BY <1>1, <1>2 DEF Upserted

LEMMA NoRowIsData == NoRow \in PreferenceData
<1>1. NoRow \in [{} -> BOOLEAN]
  BY DEF NoRow
<1> QED
  BY <1>1 DEF PreferenceData

LEMMA RegisterInv ==
  ASSUME ServiceInv, NEW l \in Loops, Register(l)
  PROVE  ServiceInv'
<1> DEFINE h == [pc |-> "next", event |-> Event(l), plan |-> {"EMAIL"}, todo |-> {"EMAIL"}]
<1>1. TypeInv /\ HandlerInv /\ At(l, "prefs") /\ Busy(l)
  BY BusyAt DEF ServiceInv, Register
<1>2. handler[l] \in Handling /\ Event(l) \in Events /\ Loop(Event(l)) = l
  BY <1>1, HandlerAtWork
<1>3. Becomes(l, h)
  <2> DEFINE g == [handler[l] EXCEPT !.pc = "next", !.todo = {"EMAIL"}]
  <2>1. g = [pc |-> "next", event |-> Event(l), plan |-> handler[l].plan, todo |-> {"EMAIL"}]
    BY <1>2, HandlerSet DEF Event
  <2>2. [handler[l] EXCEPT !.pc = "next", !.plan = {"EMAIL"}, !.todo = {"EMAIL"}] =
          [g EXCEPT !.plan = {"EMAIL"}]
    BY <1>2 DEF Handling
  <2> HIDE DEF g
  <2>3. [g EXCEPT !.plan = {"EMAIL"}] = h
    BY <2>1
  <2>4. handler' = [handler EXCEPT ![l] =
                      [@ EXCEPT !.pc = "next", !.plan = {"EMAIL"}, !.todo = {"EMAIL"}]]
    BY DEF Register
  <2> QED
    BY <2>2, <2>3, <2>4 DEF Becomes
<1>4. h \in Handling
  BY <1>2 DEF Handling, AllChannels, Channels
<1>5. Sane(l, h) /\ h.event = Event(l) /\ h.pc = "next" /\ h.plan = h.todo
  BY <1>2 DEF Sane
<1> HIDE DEF h
<1>6. HandlerType /\ SameStages
  BY <1>1, <1>3, <1>4, <1>5, PlanStages
<1>7. pref' \in [Users -> {NoRow} \cup [Channels -> BOOLEAN]]
  <2>1. Event(l).user \in Users
    BY <1>2, EventsKnown
  <2>2. Upserted(pref[Event(l).user], NoRow) \in [Channels -> BOOLEAN]
    BY <1>1, <2>1, UpsertedType, NoRowIsData DEF TypeInv
  <2> QED
    BY <1>1, <2>2 DEF TypeInv, Register
<1>8. UNCHANGED <<log, sent, owed, faults>>
  BY DEF Register
<1> QED
  BY <1>1, <1>6, <1>7, <1>8, SameLog, QuietStep

LEMMA UpdatePreferencesInv ==
  ASSUME ServiceInv, NEW u \in Users, NEW data \in PreferenceData, UpdatePreferences(u, data)
  PROVE  ServiceInv'
<1>1. UNCHANGED <<log, sent, handler, owed, faults>>
  BY DEF UpdatePreferences
<1>2. HandlerType /\ SameStages
  BY <1>1 DEF ServiceInv, TypeInv, HandlerType, HandlerInv, Busy,
              SameStages, Stage, At, Event, Channel
<1>3. pref' \in [Users -> {NoRow} \cup [Channels -> BOOLEAN]]
  <2>1. Upserted(pref[u], data) \in [Channels -> BOOLEAN]
    BY UpsertedType DEF ServiceInv, TypeInv
  <2> QED
    BY <2>1 DEF ServiceInv, TypeInv, UpdatePreferences
<1> QED
  BY <1>1, <1>2, <1>3, SameLog, QuietStep DEF ServiceInv

LEMMA MarkReadInv ==
  ASSUME ServiceInv, NEW u \in Users, NEW row \in BagToSet(log), MarkRead(u, row)
  PROVE  ServiceInv'
<1>1. UNCHANGED <<pref, sent, handler, owed, faults>>
  BY DEF MarkRead
<1>2. HandlerType /\ SameStages
  BY <1>1 DEF ServiceInv, TypeInv, HandlerType, HandlerInv, Busy,
              SameStages, Stage, At, Event, Channel
<1>3. LogUnmoved
  BY ReadRow DEF ServiceInv
<1> QED
  BY <1>1, <1>2, <1>3, QuietStep DEF ServiceInv, TypeInv

(* A handler that has not begun can be given up.                           *)
LEMMA HandlerThrowsInv ==
  ASSUME ServiceInv, NEW l \in Loops, HandlerThrows(l)
  PROVE  ServiceInv'
<1>1. TypeInv /\ HandlerInv /\ At(l, "prefs") /\ Busy(l)
  BY BusyAt DEF ServiceInv, HandlerThrows
<1>2. Becomes(l, Idle)
  BY DEF HandlerThrows, Becomes
<1>3. \A e \in Events, c \in AllChannels : e = Event(l) => Stage(e, c) = "none"
  BY <1>1, HandlerAtWork DEF HandlerInv, Sane, Stage, At
<1>4. HandlerType /\ SameStages
  BY <1>1, <1>2, <1>3, IdleStages DEF SameStages
<1>5. UNCHANGED <<pref, log, sent, owed>> /\ Happens("prefs")
  BY DEF HandlerThrows
<1> QED
  BY <1>1, <1>4, <1>5, SameLog, QuietStep DEF TypeInv, Faults

(* The in-app row, written or not.                                         *)
LEMMA SaveInAppInv ==
  ASSUME ServiceInv, NEW l \in Loops, SaveInApp(l) \/ SaveInAppFails(l)
  PROVE  ServiceInv'
<1>1. TypeInv /\ HandlerInv /\ At(l, "inApp") /\ Busy(l) /\ GoTo(l, "next")
  BY BusyAt DEF ServiceInv, SaveInApp, SaveInAppFails
<1>2. Event(l) \in Events
  BY <1>1, HandlerAtWork
<1>3. HandlerType /\ Moves(l, "IN_APP", "none", "done")
  BY <1>1, InAppStages
<1>4. UNCHANGED <<pref, sent, owed>>
  BY DEF SaveInApp, SaveInAppFails
<1>5. PICK n \in 0 .. 1 : LogGains(Event(l), "IN_APP", "SENT", n) /\ Costs("log", 1 - n)
  <2>1. CASE SaveInApp(l)
    <3>1. Writes(Event(l), "IN_APP", "SENT") /\ UNCHANGED faults
      BY <2>1, Zenon DEF SaveInApp, Writes
    <3>2. LogGains(Event(l), "IN_APP", "SENT", 1)
      BY <1>1, <1>2, <3>1, WrittenRow DEF AllChannels
    <3>3. Costs("log", 0)
      BY <1>1, <3>1, NoFault
    <3> QED
      BY <3>2, <3>3
  <2>2. CASE SaveInAppFails(l)
    <3>1. LogGains(Event(l), "IN_APP", "SENT", 0)
      BY <1>1, <2>2, SameLog, GainsNothing DEF SaveInAppFails
    <3>2. Costs("log", 1)
      BY <1>1, <2>2, FaultSpent DEF SaveInAppFails, Faults
    <3> QED
      BY <3>1, <3>2
  <2> QED
    BY <2>1, <2>2
<1>6. TypeInv'
  BY <1>1, <1>3, <1>4, <1>5 DEF TypeInv, HandlerType, LogGains, Costs
<1>7. Ledgers'
  BY <1>3, <1>4, <1>5, InAppLedgers
<1> QED
  BY <1>3, <1>6, <1>7 DEF ServiceInv, HandlerType

Sends(e, d) == sent' = [sent EXCEPT ![e][d] = @ + 1]

(* What is sent about an event on a channel is a count.                    *)
LEMMA SentMore ==
  ASSUME TypeInv, NEW e \in Events, NEW d \in Channels, Sends(e, d)
  PROVE  /\ sent' \in [Events -> [Channels -> Nat]]
         /\ \A f \in Events, c \in Channels :
              sent'[f][c] = sent[f][c] + IF f = e /\ c = d THEN 1 ELSE 0
<1> DEFINE row == [sent[e] EXCEPT ![d] = @ + 1]
<1>1. sent[e] \in [Channels -> Nat]
  BY DEF TypeInv
<1>2. row \in [Channels -> Nat] /\ \A c \in Channels : row[c] = sent[e][c] + IF c = d THEN 1 ELSE 0
  BY <1>1
<1>3. sent' = [sent EXCEPT ![e] = row]
  BY DEF Sends
<1> HIDE DEF row
<1>4. \A f \in Events : sent'[f] = IF f = e THEN row ELSE sent[f]
  BY <1>3 DEF TypeInv
<1> QED
  BY <1>1, <1>2, <1>3, <1>4 DEF TypeInv

(* A step on a message: the handler, its stage, the log, the faults.       *)
LEMMA MessageStep ==
  ASSUME ServiceInv, NEW l \in Loops, Busy(l), HandlerType, UNCHANGED <<pref, owed>>,
         Event(l) \in Events, NEW d \in Channels,
         NEW from \in {"none", "sent", "failed"}, NEW to \in {"done", "sent", "failed"},
         Moves(l, d, from, to),
         NEW m \in 0 .. 1, IF m = 0 THEN UNCHANGED sent ELSE Sends(Event(l), d),
         NEW status \in {"SENT", "FAILED"}, NEW n \in 0 .. 1, LogGains(Event(l), d, status, n),
         NEW g \in {"log", "mail"}, NEW k \in 0 .. 1, Costs(g, k),
         (IF status = "SENT" THEN n ELSE 0) + One(to, "sent") <= m + One(from, "sent"),
         from = "none" \/ m = 0,
         2 * One(to, "done") + One(to, "failed") <= One(from, "failed") + 2 * n + k
  PROVE  ServiceInv'
<1>1. TypeInv
  BY DEF ServiceInv
<1>2. /\ sent' \in [Events -> [Channels -> Nat]]
      /\ \A e \in Events, c \in Channels :
           sent'[e][c] = sent[e][c] + IF e = Event(l) /\ c = d THEN m ELSE 0
  <2>1. CASE m = 0
    BY <1>1, <2>1, CountTypes DEF TypeInv
  <2>2. CASE m = 1
    BY <1>1, <2>2, SentMore
  <2> QED
    BY <2>1, <2>2
<1>3. TypeInv'
  BY <1>1, <1>2 DEF TypeInv, HandlerType, LogGains, Costs
<1>4. Ledgers'
  BY <1>2, MessageLedgers
<1> QED
  BY <1>3, <1>4 DEF ServiceInv, HandlerType

LEMMA SendInv ==
  ASSUME ServiceInv, NEW l \in Loops, Send(l)
  PROVE  ServiceInv'
<1>1. TypeInv /\ HandlerInv /\ At(l, "next") /\ Busy(l) /\ GoTo(l, "sent") /\ handler[l].todo # {}
  BY BusyAt DEF ServiceInv, Send
<1>2. Event(l) \in Events /\ Channel(l) \in Channels
  BY <1>1, HandlerAtWork
<1>3. HandlerType /\ Moves(l, Channel(l), "none", "sent")
  BY <1>1, MessageStages
<1>4. UNCHANGED <<pref, log, owed, faults>> /\ Sends(Event(l), Channel(l))
  BY DEF Send, Sends
<1>5. LogGains(Event(l), Channel(l), "FAILED", 0) /\ Costs("log", 0)
  BY <1>1, <1>4, SameLog, GainsNothing, NoFault
<1> QED
  BY <1>1, <1>2, <1>3, <1>4, <1>5, MessageStep DEF One

LEMMA SendFailsInv ==
  ASSUME ServiceInv, NEW l \in Loops, SendFails(l)
  PROVE  ServiceInv'
<1>1. /\ TypeInv /\ HandlerInv /\ At(l, "next") /\ Busy(l) /\ GoTo(l, "failed")
      /\ handler[l].todo # {} /\ Channel(l) = "EMAIL"
  BY BusyAt DEF ServiceInv, SendFails, Channel
<1>2. Event(l) \in Events /\ Channel(l) \in Channels
  BY <1>1, HandlerAtWork
<1>3. HandlerType /\ Moves(l, Channel(l), "none", "failed")
  BY <1>1, MessageStages
<1>4. UNCHANGED <<pref, log, owed>> /\ Happens("mail")
  BY DEF SendFails
<1>5. LogGains(Event(l), Channel(l), "FAILED", 0) /\ Costs("mail", 1)
  BY <1>1, <1>4, SameLog, GainsNothing, FaultSpent DEF Faults
<1>6. CASE UNCHANGED sent
  BY <1>1, <1>2, <1>3, <1>4, <1>5, <1>6, MessageStep DEF One
<1>7. CASE Sends(Event(l), "EMAIL")
  BY <1>1, <1>2, <1>3, <1>4, <1>5, <1>7, MessageStep DEF One
<1> QED
  BY <1>6, <1>7 DEF SendFails, Sends

LEMMA LogSentInv ==
  ASSUME ServiceInv, NEW l \in Loops, LogSent(l)
  PROVE  ServiceInv'
<1>1. TypeInv /\ HandlerInv /\ At(l, "sent") /\ Busy(l) /\ NextChannel(l)
  BY BusyAt DEF ServiceInv, LogSent
<1>2. /\ Event(l) \in Events /\ Channel(l) \in Channels /\ Channel(l) \in AllChannels
      /\ handler[l].todo # {}
  BY <1>1, HandlerAtWork DEF AllChannels
<1>3. HandlerType /\ Moves(l, Channel(l), "sent", "done")
  BY <1>1, <1>2, MessageStages DEF At
<1>4. UNCHANGED <<pref, sent, owed, faults>>
  BY DEF LogSent
<1>5. Writes(Event(l), Channel(l), "SENT")
  BY Zenon DEF LogSent, Writes
<1>6. LogGains(Event(l), Channel(l), "SENT", 1) /\ Costs("log", 0)
  BY <1>1, <1>2, <1>4, <1>5, WrittenRow, NoFault
<1> QED
  BY <1>1, <1>2, <1>3, <1>4, <1>6, MessageStep DEF One

LEMMA LogSentFailsInv ==
  ASSUME ServiceInv, NEW l \in Loops, LogSentFails(l)
  PROVE  ServiceInv'
<1>1. TypeInv /\ HandlerInv /\ At(l, "sent") /\ Busy(l) /\ GoTo(l, "failed")
  BY BusyAt DEF ServiceInv, LogSentFails
<1>2. Event(l) \in Events /\ Channel(l) \in Channels /\ handler[l].todo # {}
  BY <1>1, HandlerAtWork
<1>3. HandlerType /\ Moves(l, Channel(l), "sent", "failed")
  BY <1>1, <1>2, MessageStages DEF At
<1>4. UNCHANGED <<pref, log, sent, owed>> /\ Happens("log")
  BY DEF LogSentFails
<1>5. LogGains(Event(l), Channel(l), "FAILED", 0) /\ Costs("log", 1)
  BY <1>1, <1>4, SameLog, GainsNothing, FaultSpent DEF Faults
<1> QED
  BY <1>1, <1>2, <1>3, <1>4, <1>5, MessageStep DEF One

LEMMA LogFailedInv ==
  ASSUME ServiceInv, NEW l \in Loops, LogFailed(l) \/ LogFailedFails(l)
  PROVE  ServiceInv'
<1>1. TypeInv /\ HandlerInv /\ At(l, "failed") /\ Busy(l) /\ NextChannel(l)
  BY BusyAt DEF ServiceInv, LogFailed, LogFailedFails
<1>2. /\ Event(l) \in Events /\ Channel(l) \in Channels /\ Channel(l) \in AllChannels
      /\ handler[l].todo # {}
  BY <1>1, HandlerAtWork DEF AllChannels
<1>3. HandlerType /\ Moves(l, Channel(l), "failed", "done")
  BY <1>1, <1>2, MessageStages DEF At
<1>4. CASE LogFailed(l)
  <2>1. UNCHANGED <<pref, sent, owed, faults>>
    BY <1>4 DEF LogFailed
  <2>2. Writes(Event(l), Channel(l), "FAILED")
    BY <1>4, Zenon DEF LogFailed, Writes
  <2>3. LogGains(Event(l), Channel(l), "FAILED", 1) /\ Costs("log", 0)
    BY <1>1, <1>2, <2>1, <2>2, WrittenRow, NoFault
  <2> QED
    BY <1>1, <1>2, <1>3, <2>1, <2>3, MessageStep DEF One
<1>5. CASE LogFailedFails(l)
  <2>1. UNCHANGED <<pref, log, sent, owed>> /\ Happens("log")
    BY <1>5 DEF LogFailedFails
  <2>2. LogGains(Event(l), Channel(l), "FAILED", 0) /\ Costs("log", 1)
    BY <1>1, <2>1, SameLog, GainsNothing, FaultSpent DEF Faults
  <2> QED
    BY <1>1, <1>2, <1>3, <2>1, <2>2, MessageStep DEF One
<1> QED
  BY <1>4, <1>5

(* The handlers that return, die or are not concerned.                     *)
LEMMA ReturnInv ==
  ASSUME ServiceInv, NEW l \in Loops, Return(l)
  PROVE  ServiceInv'
<1> DEFINE plan == handler[l].plan
           counts == [c \in DOMAIN owed[Event(l)] |->
                        IF c \in plan THEN owed[Event(l)][c] + 1 ELSE owed[Event(l)][c]]
<1>1. TypeInv /\ HandlerInv /\ At(l, "next") /\ Busy(l) /\ handler[l].todo = {}
  BY BusyAt DEF ServiceInv, Return
<1>2. Event(l) \in Events /\ Loop(Event(l)) = l
  BY <1>1, HandlerAtWork
<1>3. /\ HandlerType
      /\ \A e \in Events, c \in AllChannels :
           Stage(e, c)' = IF e = Event(l) THEN "none" ELSE Stage(e, c)
  BY <1>1, IdleStages DEF Return, Becomes
<1>4. \A e \in Events, c \in AllChannels : e = Event(l) =>
        Stage(e, c) = IF c \in plan THEN "done" ELSE "none"
  BY <1>1, <1>2 DEF Stage, At
<1>5. UNCHANGED <<pref, log, sent, faults>> /\ owed' = [owed EXCEPT ![Event(l)] = counts]
  BY DEF Return
<1>6. /\ counts \in [AllChannels -> Nat]
      /\ \A c \in AllChannels : counts[c] = owed[Event(l)][c] + IF c \in plan THEN 1 ELSE 0
  BY <1>1, <1>2 DEF TypeInv
<1> HIDE DEF counts, plan
<1>7. /\ owed' \in [Events -> [AllChannels -> Nat]]
      /\ \A e \in Events, c \in AllChannels :
           owed'[e][c] = owed[e][c] + IF e = Event(l) /\ c \in plan THEN 1 ELSE 0
  <2>1. \A e \in Events : owed'[e] = IF e = Event(l) THEN counts ELSE owed[e]
    BY <1>1, <1>5 DEF TypeInv
  <2>2. owed' \in [Events -> [AllChannels -> Nat]]
    BY <1>1, <1>5, <1>6 DEF TypeInv
  <2> QED
    BY <1>1, <1>6, <2>1, <2>2 DEF TypeInv
<1>8. LogUnmoved /\ Costs("log", 0)
  BY <1>1, <1>5, SameLog, NoFault
<1>9. TypeInv'
  BY <1>1, <1>3, <1>5, <1>7, <1>8 DEF TypeInv, HandlerType, LogUnmoved, Costs
<1>10. ASSUME NEW e \in Events
       PROVE  InAppLedger(e)' /\ \A c \in Channels : MessageLedger(e, c)'
  <2> USE CountTypes DEF Faults
  <2>1. InAppLedger(e) /\ \A c \in Channels : MessageLedger(e, c)
    BY DEF ServiceInv, Ledgers
  <2>2. "IN_APP" \in AllChannels /\ Channels \subseteq AllChannels
    BY DEF AllChannels
  <2>3. \A c \in AllChannels :
          /\ owed'[e][c] + Is(e, c, "done")' = owed[e][c] + Is(e, c, "done")
          /\ Is(e, c, "sent")' = Is(e, c, "sent") /\ Is(e, c, "failed")' = Is(e, c, "failed")
          /\ Is(e, c, "done") \in 0 .. 1 /\ Is(e, c, "done")' \in 0 .. 1
          /\ owed'[e][c] \in Nat
    BY <1>1, <1>3, <1>4, <1>7 DEF Is
  <2>4. /\ \A c, s : Rows(e, c, s)' = Rows(e, c, s)
        /\ \A f \in Faults : Spent(f)' = Spent(f)
    BY <1>1, <1>8 DEF LogUnmoved, Costs
  <2>5. InAppLedger(e)'
    BY <1>1, <2>1, <2>2, <2>3, <2>4 DEF InAppLedger
  <2>6. ASSUME NEW c \in Channels PROVE MessageLedger(e, c)'
    <3>1. Is(e, c, "sent") \in 0 .. 1 /\ Is(e, c, "failed") \in 0 .. 1
      BY DEF Is
    <3>2. sent'[e][c] = sent[e][c]
      BY <1>5
    <3> QED
      BY <1>1, <2>1, <2>2, <2>3, <2>4, <3>1, <3>2 DEF MessageLedger
  <2> QED
    BY <2>5, <2>6
<1> QED
  BY <1>3, <1>9, <1>10 DEF ServiceInv, HandlerType, Ledgers

LEMMA CrashInv ==
  ASSUME ServiceInv, Crash
  PROVE  ServiceInv'
<1>1. TypeInv /\ UNCHANGED <<pref, log, sent, owed>> /\ handler' = [l \in Loops |-> Idle]
  BY DEF ServiceInv, Crash
<1>2. HandlerType
  BY <1>1 DEF HandlerType, HandlerInv, Busy
<1>3. LogUnmoved /\ Costs("crash", 1)
  BY <1>1, SameLog, FaultSpent DEF Crash, Faults
<1>4. TypeInv'
  BY <1>1, <1>2, <1>3 DEF TypeInv, HandlerType, LogUnmoved, Costs
<1>5. ASSUME NEW e \in Events
      PROVE  InAppLedger(e)' /\ \A c \in Channels : MessageLedger(e, c)'
  <2> USE CountTypes DEF Faults
  <2>1. InAppLedger(e) /\ \A c \in Channels : MessageLedger(e, c)
    BY DEF ServiceInv, Ledgers
  <2>2. "IN_APP" \in AllChannels /\ Channels \subseteq AllChannels
    BY DEF AllChannels
  <2>3. \A c : Stage(e, c)' = "none"
    BY <1>1, LoopType DEF Stage, Busy
  <2>4. /\ \A c, s : Rows(e, c, s)' = Rows(e, c, s)
        /\ Spent("log")' = Spent("log") /\ Spent("mail")' = Spent("mail")
        /\ Spent("crash")' = Spent("crash") + 1
    BY <1>1, <1>3 DEF LogUnmoved, Costs
  <2>5. InAppLedger(e)'
    BY <1>1, <2>1, <2>2, <2>3, <2>4 DEF InAppLedger, Is
  <2>6. ASSUME NEW c \in Channels PROVE MessageLedger(e, c)'
    BY <1>1, <2>1, <2>2, <2>3, <2>4 DEF MessageLedger, Is
  <2> QED
    BY <2>5, <2>6
<1> QED
  BY <1>2, <1>4, <1>5 DEF ServiceInv, HandlerType, Ledgers

LEMMA StutterInv ==
  ASSUME ServiceInv, UNCHANGED vars
  PROVE  ServiceInv'
<1>1. UNCHANGED <<pref, log, sent, handler, owed, faults>>
  BY DEF vars
<1>2. HandlerType /\ SameStages
  BY <1>1 DEF ServiceInv, TypeInv, HandlerType, HandlerInv, Busy,
              SameStages, Stage, At, Event, Channel
<1> QED
  BY <1>1, <1>2, SameLog, QuietStep DEF ServiceInv, TypeInv

LEMMA ServiceInvNext ==
  ASSUME ServiceInv, [Next]_vars
  PROVE  ServiceInv'
<1>1. ASSUME NEW e \in Events, Deliver(e) PROVE ServiceInv'
  BY <1>1, DeliverInv
<1>2. ASSUME NEW l \in Loops, ReadPreferences(l) \/ Register(l) \/ HandlerThrows(l)
      PROVE  ServiceInv'
  BY <1>2, ReadPreferencesInv, RegisterInv, HandlerThrowsInv
<1>3. ASSUME NEW l \in Loops, SaveInApp(l) \/ SaveInAppFails(l) PROVE ServiceInv'
  BY <1>3, SaveInAppInv
<1>4. ASSUME NEW l \in Loops, Send(l) \/ SendFails(l) PROVE ServiceInv'
  BY <1>4, SendInv, SendFailsInv
<1>5. ASSUME NEW l \in Loops,
             LogSent(l) \/ LogSentFails(l) \/ LogFailed(l) \/ LogFailedFails(l)
      PROVE  ServiceInv'
  BY <1>5, LogSentInv, LogSentFailsInv, LogFailedInv
<1>6. ASSUME NEW l \in Loops, Return(l) PROVE ServiceInv'
  BY <1>6, ReturnInv
<1>7. CASE Crash
  BY <1>7, CrashInv
<1>8. ASSUME NEW u \in Users, NEW data \in PreferenceData, UpdatePreferences(u, data)
      PROVE  ServiceInv'
  BY <1>8, UpdatePreferencesInv
<1>9. ASSUME NEW u \in Users, NEW row \in BagToSet(log), MarkRead(u, row)
      PROVE  ServiceInv'
  BY <1>9, MarkReadInv
<1>10. CASE UNCHANGED vars
  BY <1>10, StutterInv
<1> QED
  BY <1>1, <1>2, <1>3, <1>4, <1>5, <1>6, <1>7, <1>8, <1>9, <1>10 DEF Next

-----------------------------------------------------------------------------
(* The ledgers balance in every state of every run                         *)
(* (notification.service.ts:24-116, user.consumer.ts:16-25).               *)
THEOREM ServiceInvariant == Spec => []ServiceInv
<1>1. Init => ServiceInv
  BY ServiceInvInit
<1>2. ServiceInv /\ [Next]_vars => ServiceInv'
  BY ServiceInvNext
<1> QED
  BY <1>1, <1>2, PTL DEF Spec

(* Every handler that returned has left a row for each channel it was to   *)
(* use unless two faults hit one message or one its in-app row, and no row *)
(* says SENT of a message that was not sent, whatever fails and however    *)
(* often (notification.service.ts:36-108, email.dispatcher.ts:34-80).      *)
THEOREM LogCanBeTrusted == Spec => []LogTellsOutcome
<1>1. ServiceInv => LogTellsOutcome
  <2> SUFFICES ASSUME ServiceInv PROVE LogTellsOutcome
    OBVIOUS
  <2> USE CountTypes DEF Faults
  <2>1. TypeInv /\ \A e \in Events : InAppLedger(e) /\ \A c \in Channels : MessageLedger(e, c)
    BY DEF ServiceInv, Ledgers
  <2>2. "IN_APP" \in AllChannels /\ Channels \subseteq AllChannels
    BY DEF AllChannels
  <2>3. OutcomeRecorded
    BY <2>1, <2>2 DEF OutcomeRecorded, InAppLedger, MessageLedger, Is
  <2>4. SentMeansSent
    BY <2>1, <2>2 DEF SentMeansSent, MessageLedger, Is
  <2> QED
    BY <2>3, <2>4 DEF LogTellsOutcome
<1> QED
  BY <1>1, ServiceInvariant, PTL

(* An event is announced no more often than by the handlers that returned, *)
(* are at work or died with their pod: one that threw has said nothing, so *)
(* that the event may be handled again                                     *)
(* (notification.service.ts:24-116, user.consumer.ts:16-25).               *)
THEOREM RetryRepeatsNothing == Spec => []ThrowingHasNoEffect
<1>1. ServiceInv => ThrowingHasNoEffect
  <2> SUFFICES ASSUME ServiceInv, NEW e \in Events
               PROVE  /\ Rows(e, "IN_APP", "SENT") <=
                           owed[e]["IN_APP"] + Running(e) + Spent("crash")
                      /\ \A c \in Channels : sent[e][c] <= owed[e][c] + Running(e) + Spent("crash")
    BY DEF ThrowingHasNoEffect
  <2> USE CountTypes DEF Faults
  <2>1. TypeInv /\ InAppLedger(e) /\ \A c \in Channels : MessageLedger(e, c)
    BY DEF ServiceInv, Ledgers
  <2>2. "IN_APP" \in AllChannels /\ Channels \subseteq AllChannels
    BY DEF AllChannels
  <2>3. \A c : Is(e, c, "done") + Is(e, c, "sent") + Is(e, c, "failed") <= Running(e)
    <3>1. \A c : Running(e) = 0 => Stage(e, c) = "none"
      BY DEF Stage, Running, Busy, Event
    <3>2. Running(e) \in 0 .. 1
      BY DEF Running
    <3> QED
      BY <3>1, <3>2 DEF Is
  <2>4. \A c : /\ Is(e, c, "done") \in 0 .. 1 /\ Is(e, c, "sent") \in 0 .. 1
               /\ Is(e, c, "failed") \in 0 .. 1
    BY DEF Is
  <2>5. Running(e) \in 0 .. 1
    BY DEF Running
  <2> QED
    BY <2>1, <2>2, <2>3, <2>4, <2>5 DEF InAppLedger, MessageLedger
<1> QED
  BY <1>1, ServiceInvariant, PTL

(* What applies to a user changes only when the user asks: neither the     *)
(* defaults nor the event user.registered, late or repeated, override a    *)
(* choice (preference.service.ts:4-37, user.consumer.ts:16-25).            *)
THEOREM PreferencesAreTheUsers == Spec => OnlyTheUserChangesPreferences
<1> DEFINE Asked ==
      \A u \in Users : Preferences(pref'[u]) # Preferences(pref[u]) =>
        \E data \in PreferenceData : UpdatePreferences(u, data)
<1>1. ASSUME ServiceInv, Next PROVE Asked
  <2>1. CASE UNCHANGED pref
    BY <2>1
  <2>2. ASSUME NEW l \in Loops, Register(l) PROVE Asked
    <3> DEFINE v == Event(l).user
    <3>1. v \in Users /\ pref[v] \in {NoRow} \cup [Channels -> BOOLEAN]
      BY <1>1, <2>2, BusyAt, HandlerAtWork, EventsKnown DEF Register, ServiceInv, TypeInv
    <3>2. \A u \in Users : pref'[u] = IF u = v THEN Upserted(pref[v], NoRow) ELSE pref[u]
      BY <1>1, <2>2 DEF Register, ServiceInv, TypeInv
    <3>3. Preferences(Upserted(pref[v], NoRow)) = Preferences(pref[v])
      <4>1. CASE pref[v] = NoRow
        <5>1. Upserted(NoRow, NoRow) = Default
          BY DEF Upserted, NoRow, Default, Channels
        <5> QED
          BY <4>1, <5>1 DEF Preferences
      <4>2. CASE pref[v] # NoRow
        <5>1. Upserted(pref[v], NoRow) = pref[v]
          BY <3>1, <4>2 DEF Upserted, NoRow
        <5> QED
          BY <5>1
      <4> QED
        BY <4>1, <4>2
    <3> QED
      BY <3>2, <3>3
  <2>3. ASSUME NEW u \in Users, NEW data \in PreferenceData, UpdatePreferences(u, data)
        PROVE  Asked
    <3>1. \A w \in Users : w # u => pref'[w] = pref[w]
      BY <1>1, <2>3 DEF UpdatePreferences, ServiceInv, TypeInv
    <3> QED
      BY <2>3, <3>1
  <2> QED
    BY <1>1, <2>1, <2>2, <2>3
       DEF Next, Deliver, ReadPreferences, HandlerThrows, SaveInApp, SaveInAppFails, Send,
           SendFails, LogSent, LogSentFails, LogFailed, LogFailedFails, Return, Crash, MarkRead
<1>2. ASSUME ServiceInv, [Next]_vars PROVE [Asked]_vars
  BY <1>1, <1>2
<1> QED
  BY <1>2, ServiceInvariant, PTL DEF Spec, OnlyTheUserChangesPreferences

=============================================================================

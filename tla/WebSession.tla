----------------------------- MODULE WebSession -----------------------------
(***************************************************************************)
(* The browser's side of sessions, in front of AuthService: the response   *)
(* interceptor of apps/web/src/api/client.ts, which turns a 401 into a     *)
(* refresh and a retry, the store of stores/auth.store.ts and the hook     *)
(* hooks/useAuth.ts.                                                       *)
(*                                                                         *)
(* The tabs of a browser share the cookie and the persisted store; each    *)
(* has a store of its own, filled from the persisted one when the page is  *)
(* loaded, and an isRefreshing flag and a queue of its own.                *)
(***************************************************************************)
EXTENDS AuthService

CONSTANTS
  Tabs,
  MaxSends,   \* bound: requests the user makes
  MaxFaults,  \* bound: failed calls, connections lost and pages reloaded at will
  Requests,   \* requests of the pages under way at the same time
  Refreshes,  \* refresh calls under way at the same time
  NoTab,      \* marks a call no page waits for
  NoRequest   \* marks a call that is not a refresh

ASSUME CallsAssumption ==
  /\ Calls = Requests \cup Refreshes
  /\ Requests \cap Refreshes = {}
ASSUME NoTabAssumption == NoTab \notin Tabs
ASSUME NoRequestAssumption == NoRequest \notin Requests

VARIABLES
  page,          \* what a page knows of each call
  store,         \* useAuthStore of each tab: its access token, 0 when logged out
  saved,         \* the store as persisted in localStorage
  cookie,        \* the refreshToken cookie
  isRefreshing,
  leaving,       \* tabs on their way to a full load of /login
  disturbed,     \* history: families with a logout, a fault, an answer lost
                 \* or two refreshes at once
  faults,        \* faults so far
  sends          \* requests made

pageVars == <<page, store, saved, cookie, isRefreshing, leaving, disturbed, faults, sends>>
vars == <<serverVars, pageVars>>

-----------------------------------------------------------------------------
(* st: "waiting" for the server, "queued" in failedQueue, or "refreshing", *)
(* the request whose 401 started the refresh.  of is that request, for the *)
(* refresh call.                                                           *)
NoPage == [tab |-> NoTab, st |-> "none", kind |-> "none", retry |-> FALSE, of |-> NoRequest]

Waiting(c) == page[c].st = "waiting"

Free(c) == page[c] = NoPage /\ call[c] = Idle

Queue(t) == {r \in Requests : page[r].tab = t /\ page[r].st = "queued"}

Init ==
  /\ InitServer
  /\ page = [c \in Calls |-> NoPage]
  /\ store = [t \in Tabs |-> 0]
  /\ saved = 0
  /\ cookie = 0
  /\ isRefreshing = [t \in Tabs |-> FALSE]
  /\ leaving = {}
  /\ disturbed = {}
  /\ faults = 0
  /\ sends = 0

(* setAuth and clearAuth write through to localStorage.                    *)
SetStore(t, jti) ==
  /\ store' = [store EXCEPT ![t] = jti]
  /\ saved' = jti

KeepStore == UNCHANGED <<store, saved>>

Disturb(families) == disturbed' = disturbed \cup (families \ {0})

CountFault == faults < MaxFaults /\ faults' = faults + 1

-----------------------------------------------------------------------------
(* A page sends a request.  Data is asked for and logout offered only where*)
(* ProtectedRoute lets the user through.                                   *)
Send(t, r, kind) ==
  /\ t \notin leaving
  /\ sends < MaxSends
  /\ sends' = sends + 1
  /\ Free(r)
  /\ kind # "login" => store[t] # 0
  /\ page' = [page EXCEPT ![r] = [NoPage EXCEPT !.tab = t, !.st = "waiting", !.kind = kind]]
  /\ call' = [call EXCEPT ![r] = Sent(kind, store[t], cookie)]
  /\ Disturb(IF kind = "logout" THEN {Family(cookie)} ELSE {})
  /\ UNCHANGED <<tokens, revokedJti, store, saved, cookie, isRefreshing, leaving, faults>>

(* An answer of 2xx to a request: data, login, logout.                     *)
Accept(r) ==
  /\ r \in Requests /\ Waiting(r)
  /\ call[r].pc = "ok"
  /\ page' = [page EXCEPT ![r] = NoPage]
  /\ call' = [call EXCEPT ![r] = Idle]
  /\ LET t == page[r].tab IN
       CASE page[r].kind = "data" -> KeepStore /\ UNCHANGED cookie
         [] page[r].kind = "login" -> /\ cookie' = call[r].issued
                                      /\ SetStore(t, call[r].issued)
         [] page[r].kind = "logout" -> cookie' = 0 /\ SetStore(t, 0)
  /\ UNCHANGED <<tokens, revokedJti, isRefreshing, leaving, disturbed, faults, sends>>

-----------------------------------------------------------------------------
(* 401: wait for the refresh under way ...                                 *)
Enqueue(r) ==
  /\ r \in Requests /\ Waiting(r)
  /\ call[r].pc = "unauthorized"
  /\ ~page[r].retry
  /\ isRefreshing[page[r].tab]
  /\ page' = [page EXCEPT ![r].st = "queued"]
  /\ call' = [call EXCEPT ![r] = Idle]
  /\ UNCHANGED <<tokens, revokedJti, store, saved, cookie, isRefreshing, leaving, disturbed, faults, sends>>

(* Mutant: isRefreshing is not looked at.                                  *)
MayRefreshAlways(r) == ~page[r].retry

MayRefresh(r) == ~page[r].retry /\ ~isRefreshing[page[r].tab]

Retrying(r) == [page[r] EXCEPT !.st = "refreshing", !.retry = TRUE]

(* ... or start one.                                                       *)
StartRefresh(r, f) ==
  /\ r \in Requests /\ Waiting(r)
  /\ f \in Refreshes /\ Free(f)
  /\ call[r].pc = "unauthorized"
  /\ MayRefresh(r)
  /\ LET t == page[r].tab
         elsewhere == {g \in Refreshes : ~Free(g) /\ page[g].tab # t} IN
       /\ page' = [page EXCEPT
            ![r] = Retrying(r),
            ![f] = [NoPage EXCEPT !.tab = t, !.st = "waiting", !.kind = "refresh", !.of = r]]
       /\ call' = [call EXCEPT ![r] = Idle, ![f] = Sent("refresh", 0, cookie)]
       /\ isRefreshing' = [isRefreshing EXCEPT ![t] = TRUE]
       /\ Disturb({Family(cookie)} \cap {Family(call[g].cookie) : g \in elsewhere})
  /\ UNCHANGED <<tokens, revokedJti, store, saved, cookie, leaving, faults, sends>>

(* Mutant: the queue is left as it is.                                     *)
ReplayedAlone(f) == {page[f].of}

Replayed(f) == Queue(page[f].tab) \cup {page[f].of}

(* The refresh succeeds: the store gets the new token (the user stays),    *)
(* and the request and the queue are sent again, with the token and cookie *)
(* just got.  A queued request is not marked as retried.                   *)
FinishRefresh(f) ==
  /\ f \in Refreshes /\ Waiting(f)
  /\ call[f].pc = "ok"
  /\ LET t == page[f].tab
         n == call[f].issued
         again == Replayed(f) IN
       /\ page' = [c \in Calls |->
            IF c \in again THEN [page[c] EXCEPT !.st = "waiting"]
            ELSE IF c = f THEN NoPage ELSE page[c]]
       /\ call' = [c \in Calls |->
            IF c \in again THEN Sent(page[c].kind, n, n)
            ELSE IF c = f THEN Idle ELSE call[c]]
       /\ SetStore(t, n)
       /\ cookie' = n
       /\ isRefreshing' = [isRefreshing EXCEPT ![t] = FALSE]
       /\ Disturb(IF \E r \in again : page[r].kind = "logout" THEN {Family(n)} ELSE {})
  /\ UNCHANGED <<tokens, revokedJti, leaving, faults, sends>>

(* The refresh fails: so do the request and the queue, the store is        *)
(* cleared and the page is left for /login.                                *)
AbandonRefresh(f) ==
  LET t == page[f].tab
      over == Replayed(f) \cup {f} IN
  /\ page' = [c \in Calls |-> IF c \in over THEN NoPage ELSE page[c]]
  /\ SetStore(t, 0)
  /\ isRefreshing' = [isRefreshing EXCEPT ![t] = FALSE]
  /\ leaving' = leaving \cup {t}
  /\ UNCHANGED cookie

(* A request fails in the page; logout clears the store all the same.      *)
RejectRequest(r) ==
  /\ page' = [page EXCEPT ![r] = NoPage]
  /\ IF page[r].kind = "logout" THEN SetStore(page[r].tab, 0) ELSE KeepStore
  /\ UNCHANGED <<cookie, isRefreshing, leaving>>

Reject(c) ==
  /\ Waiting(c)
  /\ \/ /\ c \in Requests
        /\ call[c].pc = "failed" \/ (call[c].pc = "unauthorized" /\ page[c].retry)
        /\ RejectRequest(c)
     \/ /\ c \in Refreshes
        /\ call[c].pc \in {"failed", "unauthorized"}
        /\ AbandonRefresh(c)
  /\ call' = [call EXCEPT ![c] = Idle]
  /\ UNCHANGED <<tokens, revokedJti, disturbed, faults, sends>>

-----------------------------------------------------------------------------
(* The connection is lost: the page gets an error, the server goes on with *)
(* a call nobody waits for.                                                *)
Cut(c) ==
  /\ Waiting(c)
  /\ CountFault
  /\ \/ c \in Requests /\ RejectRequest(c)
     \/ c \in Refreshes /\ AbandonRefresh(c)
  /\ Disturb(IF page[c].kind = "refresh" THEN {Family(call[c].cookie)} ELSE {})
  /\ UNCHANGED <<serverVars, sends>>

Discard(c) ==
  /\ page[c] = NoPage
  /\ call[c].pc \in Answered
  /\ call' = [call EXCEPT ![c] = Idle]
  /\ UNCHANGED <<tokens, revokedJti, pageVars>>

(* A full load of the page, for /login or at the user's wish, starts from  *)
(* localStorage and forgets every call of the page before.                 *)
Reload(t) ==
  LET Forgotten == {c \in Calls : page[c].tab = t} IN
  /\ IF t \in leaving THEN UNCHANGED faults ELSE CountFault
  /\ page' = [c \in Calls |-> IF c \in Forgotten THEN NoPage ELSE page[c]]
  /\ store' = [store EXCEPT ![t] = saved]
  /\ isRefreshing' = [isRefreshing EXCEPT ![t] = FALSE]
  /\ leaving' = leaving \ {t}
  /\ Disturb({Family(call[f].cookie) : f \in Forgotten \cap Refreshes})
  /\ UNCHANGED <<serverVars, saved, cookie, sends>>

Serve(c) == ServerStep(c) /\ UNCHANGED pageVars

(* Redis does not answer the gateway.                                      *)
RedisFault(c) ==
  /\ RefuseUnchecked(c)
  /\ CountFault
  /\ UNCHANGED <<page, store, saved, cookie, isRefreshing, leaving, disturbed, sends>>

(* A rotation stopped by the bound on tokens fails without being counted.  *)
Fault(c) ==
  /\ Fail(c)
  /\ IF call[c].pc = "rotating" /\ Len(tokens) = MaxTokens
     THEN UNCHANGED faults ELSE CountFault
  /\ Disturb(IF call[c].kind = "refresh" THEN {Family(call[c].cookie)} ELSE {})
  /\ UNCHANGED <<page, store, saved, cookie, isRefreshing, leaving, sends>>

TimePasses == \E n \in Issued : Expire(n) /\ UNCHANGED pageVars

(* Every request of the bound is made and no call is under way.            *)
Rest ==
  /\ sends = MaxSends
  /\ \A c \in Calls : call[c] = Idle
  /\ leaving = {}
  /\ UNCHANGED vars

Deliver(c) ==
  \/ Accept(c) \/ Enqueue(c) \/ FinishRefresh(c) \/ Reject(c) \/ Discard(c)
  \/ \E f \in Refreshes : StartRefresh(c, f)

Next ==
  \/ \E t \in Tabs, r \in Requests, kind \in {"data", "login", "logout"} : Send(t, r, kind)
  \/ \E c \in Calls : Serve(c) \/ Fault(c) \/ RedisFault(c) \/ Deliver(c) \/ Cut(c)
  \/ \E t \in Tabs : Reload(t)
  \/ TimePasses
  \/ Rest

Spec == Init /\ [][Next]_vars

(* The servers answer every call, well or not (a failed handler and an     *)
(* unreachable service are answered by the gateway), the browser runs the  *)
(* callback of every answer, and a navigation is carried out.              *)
FairSpec ==
  /\ Spec
  /\ \A c \in Calls : WF_vars(Serve(c) \/ Fault(c)) /\ WF_vars(Deliver(c))
  /\ \A t \in Tabs : WF_vars(t \in leaving /\ Reload(t))

-----------------------------------------------------------------------------
(* The detection of reuse never strikes an honest browser: a revoked       *)
(* refresh token is presented only in a session that has seen a logout, a  *)
(* fault, an answer lost, or two tabs refreshing at once (auth.service.ts: *)
(* 125-132 against client.ts:38-49).                                       *)
NoFalseReuse ==
  \A f \in Refreshes :
    call[f].pc = "reused" => Family(call[f].cookie) \in disturbed

LiveTokens(family) == {n \in Issued : tokens[n].family = family /\ ~tokens[n].revoked}

Siblings(n, m) == n < m /\ tokens[m].parent # 0 /\ tokens[n].parent = tokens[m].parent

(* Tokens given for one that another had been given for before. *)
Forks(family) ==
  {m \in Issued : tokens[m].family = family /\ \E n \in Issued : Siblings(n, m)}

(* Two tokens are given for one only to refreshes that overlap, the later  *)
(* sent before the earlier had its token, and in a session disturbed by    *)
(* two tabs or by a refresh whose page had gone (auth.service.ts:108-145,  *)
(* client.ts:38-49).                                                       *)
ForkedOnlyAtOnce ==
  \A n, m \in Issued :
    Siblings(n, m) => tokens[m].since < n /\ tokens[m].family \in disturbed

(* Such a fork leaves two live refresh tokens, and nothing else does.      *)
OneLiveTokenAndForks ==
  \A family \in Issued : Cardinality(LiveTokens(family)) <= 1 + Cardinality(Forks(family))

(* Rotation, however refreshes overlap or fail half-way: the token a new   *)
(* one was given for is revoked, and of the same family, so that a later   *)
(* reuse of it reaches the new one.                                        *)
ReplacedIsRevoked ==
  \A n \in Issued :
    LET old == tokens[n].parent IN
      IF old = 0 THEN tokens[n].family = n
      ELSE tokens[old].revoked /\ tokens[n].family = tokens[old].family

(* The live tokens of a session, in every interleaving of refreshes,       *)
(* logouts and failures: one, and one more for each refresh that passed    *)
(* the check beside another of the same token.  The browser keeps one of   *)
(* them; the others live on until they expire or their family is revoked.  *)
LiveTokensAccounted == OneLiveTokenAndForks /\ ForkedOnlyAtOnce /\ ReplacedIsRevoked

(* When logout has answered, neither of the tokens it came with works any  *)
(* more, whatever ran beside it (auth.service.ts:152-172,                  *)
(* users.routes.ts:22-40).                                                 *)
LogoutRevokes ==
  \A r \in Requests :
    At(r, "logout", "ok") =>
      /\ ~AccessValid(call[r].jti)
      /\ Usable(call[r].cookie) => tokens[call[r].cookie].revoked

(* A request put in the queue of a refresh leaves it: it is sent again or  *)
(* rejected, or its page is gone (client.ts:22-31).                        *)
QueuedIsSettled ==
  \A r \in Requests : page[r].st = "queued" ~> page[r].st # "queued"
=============================================================================

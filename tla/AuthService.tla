----------------------------- MODULE AuthService -----------------------------
(***************************************************************************)
(* The server side of sessions: the gateway's authentication               *)
(* (middleware/auth.middleware.ts, routes/users.routes.ts) in front of     *)
(* user-service (services/auth.service.ts, controllers/auth.controller.ts).*)
(*                                                                         *)
(* Calls are handled at the same time; every step below is what a call     *)
(* does between two awaits.  issueTokens makes an access token (known by   *)
(* its jti) and a refresh token (known to the server by its hash) at once, *)
(* so a pair is known by one number, in the order of issue; 0 is no token. *)
(* There is one account: tokens of different accounts do not meet.         *)
(***************************************************************************)
EXTENDS Integers, Sequences, FiniteSets, Functions

CONSTANTS
  Calls,      \* HTTP calls under way at the same time
  MaxTokens,  \* bound: token pairs issued
  MaxAge      \* bound: expiries, of all tokens together

VARIABLES
  tokens,      \* the pairs issued: rows of refresh_tokens, and the age of both
  revokedJti,  \* access tokens with a `jti:` key in Redis
  call         \* what the servers are doing for each call

serverVars == <<tokens, revokedJti, call>>

-----------------------------------------------------------------------------
(* age counts what has expired: 1 the access token (15 minutes), 2 the     *)
(* refresh token as well (7 days).  Two history fields: parent, the token  *)
(* this one was given for, or 0, and since, the tokens there were when the *)
(* refresh that got it was sent.                                           *)
Issued == 1 .. Len(tokens)

Family(n) == IF n = 0 THEN 0 ELSE tokens[n].family

AccessValid(jti) == jti # 0 /\ tokens[jti].age = 0 /\ jti \notin revokedJti

Usable(n) == n # 0 /\ tokens[n].age < 2

Idle == [kind |-> "none", pc |-> "idle", jti |-> 0, cookie |-> 0, issued |-> 0, since |-> 0]

(* A call carries the Authorization header and the cookie of the moment it *)
(* is sent, kept here where its handler reads them.  The cookie stands for *)
(* the row whose hash it matches.                                          *)
Sent(kind, jti, jar) ==
  [Idle EXCEPT !.kind = kind, !.pc = "sent",
               !.jti = IF kind \in {"data", "logout"} THEN jti ELSE 0,
               !.cookie = IF kind \in {"refresh", "logout"} THEN jar ELSE 0,
               !.since = IF kind = "refresh" THEN Len(tokens) ELSE 0]

Answered == {"ok", "unauthorized", "failed"}

Becomes(c, pc) == call' = [call EXCEPT ![c].pc = pc]

(* An answer that is all there is to know of the call from now on.         *)
Answers(c, pc) == call' = [call EXCEPT ![c] = [Idle EXCEPT !.pc = pc]]

At(c, kind, pc) == call[c].kind = kind /\ call[c].pc = pc

Pair(family, parent, since) ==
  [family |-> family, parent |-> parent, since |-> since, revoked |-> FALSE, age |-> 0]

InitServer ==
  /\ tokens = <<>>
  /\ revokedJti = {}
  /\ call = [c \in Calls |-> Idle]

-----------------------------------------------------------------------------
(* The gateway.  Data calls and logout carry an access token; what is      *)
(* behind the gateway for a data call is in the other modules.             *)
Protected(c) == call[c].kind \in {"data", "logout"} /\ call[c].pc = "sent"

Admit(c) ==
  /\ Protected(c)
  /\ AccessValid(call[c].jti)
  /\ IF call[c].kind = "data" THEN Answers(c, "ok") ELSE Becomes(c, "admitted")
  /\ UNCHANGED <<tokens, revokedJti>>

Refuse(c) ==
  /\ Protected(c)
  /\ ~AccessValid(call[c].jti)
  /\ Answers(c, "unauthorized")
  /\ UNCHANGED <<tokens, revokedJti>>

(* The catch of the middleware answers 401 when Redis does not answer, to  *)
(* a good token too.                                                       *)
RefuseUnchecked(c) ==
  /\ Protected(c)
  /\ AccessValid(call[c].jti)
  /\ Answers(c, "unauthorized")
  /\ UNCHANGED <<tokens, revokedJti>>

(* On the way to logout: the key lives as long as the token, so that it    *)
(* need not be removed here.                                               *)
RevokeAccessToken(c) ==
  /\ At(c, "logout", "admitted")
  /\ revokedJti' = revokedJti \cup {call[c].jti}
  /\ Becomes(c, "forwarded")
  /\ UNCHANGED tokens

-----------------------------------------------------------------------------
(* user-service: login.                                                    *)
IssueTokens(c, family, parent) ==
  /\ Len(tokens) < MaxTokens
  /\ tokens' = Append(tokens, Pair(family, parent, call[c].since))
  /\ call' = [call EXCEPT ![c].pc = "ok", ![c].issued = Len(tokens) + 1]
  /\ UNCHANGED revokedJti

Login(c) ==
  /\ At(c, "login", "sent")
  /\ IssueTokens(c, Len(tokens) + 1, 0)

BadCredentials(c) ==
  /\ At(c, "login", "sent")
  /\ Answers(c, "unauthorized")
  /\ UNCHANGED <<tokens, revokedJti>>

-----------------------------------------------------------------------------
(* user-service: refresh.  The scan reads the row; what it has read decides*)
(* what is done, whatever becomes of the row meanwhile.                    *)
FindToken(c) ==
  /\ At(c, "refresh", "sent")
  /\ IF Usable(call[c].cookie)
     THEN Becomes(c, IF tokens[call[c].cookie].revoked THEN "reused" ELSE "found")
     ELSE Answers(c, "unauthorized")
  /\ UNCHANGED <<tokens, revokedJti>>

RevokeFamily(c) ==
  /\ At(c, "refresh", "reused")
  /\ tokens' = [n \in Issued |->
                 IF tokens[n].family = Family(call[c].cookie)
                 THEN [tokens[n] EXCEPT !.revoked = TRUE] ELSE tokens[n]]
  /\ Answers(c, "unauthorized")
  /\ UNCHANGED revokedJti

ExpiredMeanwhile(c) ==
  /\ At(c, "refresh", "found")
  /\ ~Usable(call[c].cookie)
  /\ Answers(c, "unauthorized")
  /\ UNCHANGED <<tokens, revokedJti>>

(* Mutant: a rotation that leaves the old token alone.                     *)
KeepOld(c) ==
  /\ At(c, "refresh", "found")
  /\ Usable(call[c].cookie)
  /\ Becomes(c, "rotating")
  /\ UNCHANGED <<tokens, revokedJti>>

RevokeOld(c) ==
  /\ At(c, "refresh", "found")
  /\ Usable(call[c].cookie)
  /\ tokens' = [tokens EXCEPT ![call[c].cookie].revoked = TRUE]
  /\ Becomes(c, "rotating")
  /\ UNCHANGED revokedJti

IssueNext(c) ==
  /\ At(c, "refresh", "rotating")
  /\ IssueTokens(c, Family(call[c].cookie), call[c].cookie)

-----------------------------------------------------------------------------
(* user-service: logout.  The scan sees only rows that are not revoked; a  *)
(* logout without a match goes on.                                         *)
(* Mutant: the cookie is not read.                                         *)
ScanNothing(c) ==
  /\ At(c, "logout", "forwarded")
  /\ Becomes(c, "scanned")
  /\ UNCHANGED <<tokens, revokedJti>>

ScanForLogout(c) ==
  /\ At(c, "logout", "forwarded")
  /\ Becomes(c, IF Usable(call[c].cookie) /\ ~tokens[call[c].cookie].revoked
                THEN "matched" ELSE "scanned")
  /\ UNCHANGED <<tokens, revokedJti>>

RevokeOwn(c) ==
  /\ At(c, "logout", "matched")
  /\ tokens' = [tokens EXCEPT ![call[c].cookie].revoked = TRUE]
  /\ Becomes(c, "scanned")
  /\ UNCHANGED revokedJti

FinishLogout(c) ==
  /\ At(c, "logout", "scanned")
  /\ revokedJti' = revokedJti \cup {call[c].jti}
  /\ Becomes(c, "ok")
  /\ UNCHANGED tokens

-----------------------------------------------------------------------------
(* A statement or a command fails, a process dies, or the proxy cannot     *)
(* reach the service: an answer that is neither success nor 401, with what *)
(* was done left done.                                                     *)
Fail(c) ==
  /\ call[c].pc \notin {"idle"} \cup Answered
  /\ Answers(c, "failed")
  /\ UNCHANGED <<tokens, revokedJti>>

ServerStep(c) ==
  \/ Admit(c) \/ Refuse(c) \/ RevokeAccessToken(c)
  \/ Login(c) \/ BadCredentials(c)
  \/ FindToken(c) \/ RevokeFamily(c) \/ ExpiredMeanwhile(c)
  \/ RevokeOld(c) \/ IssueNext(c)
  \/ ScanForLogout(c) \/ RevokeOwn(c) \/ FinishLogout(c)

(* Time passes: what was issued first expires first.                       *)
Expire(n) ==
  /\ n \in Issued
  /\ tokens[n].age < 2
  /\ SumFunction([m \in Issued |-> tokens[m].age]) < MaxAge
  /\ \A m \in 1 .. n - 1 : tokens[m].age > tokens[n].age
  /\ tokens' = [tokens EXCEPT ![n].age = @ + 1]
  /\ UNCHANGED <<revokedJti, call>>

=============================================================================

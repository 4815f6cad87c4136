---------------------------- MODULE RateLimiter ----------------------------
(***************************************************************************)
(* The rate limiter of the gateway (middleware/ratelimit.middleware.ts):   *)
(* one counter in Redis for each user, here of one user.  INCR and EXPIRE  *)
(* are two commands of a request, other requests come between them, and    *)
(* the gateway may die there: nothing catches a rejected command either.   *)
(***************************************************************************)
EXTENDS Naturals

CONSTANTS
  Callers,   \* requests of the user that may be in the gateway at a time
  Limit      \* requests admitted in a window

ASSUME LimitAssumption == Limit \in Nat \ {0}

VARIABLES
  counter,   \* the value of the key, 0 when there is none; Limit + 1 is any above
  expiring,  \* the key has a time to live
  gate,      \* where a request is in the middleware, or how it left it
  admitted,  \* history: requests admitted since the key was made
  orphaned   \* history: a gateway died when it had made the key

limiterVars == <<counter, expiring, gate, admitted, orphaned>>

-----------------------------------------------------------------------------
LimiterInit ==
  /\ counter = 0 /\ expiring = FALSE
  /\ gate = [c \in Callers |-> "out"]
  /\ admitted = 0 /\ orphaned = FALSE

(* behind authMiddleware *)
Arrive(c) ==
  /\ gate[c] = "out"
  /\ gate' = [gate EXCEPT ![c] = "incr"]
  /\ UNCHANGED <<counter, expiring, admitted, orphaned>>

(* Mutant: the limit is reached a request too late. *)
LateVerdict(n) == IF n > Limit + 1 THEN "over" ELSE "past"

(* next(), or 429 *)
Verdict(n) == IF n > Limit THEN "over" ELSE "past"

Judge(c, n) ==
  /\ gate' = [gate EXCEPT ![c] = Verdict(n)]
  /\ admitted' = IF Verdict(n) = "past" THEN admitted + 1 ELSE admitted

(* Mutant: the answer of INCR is taken for the value before. *)
IsFirstFromZero(n) == n = 0

IsFirst(n) == n = 1

Incr(c) ==
  LET n == counter + 1 IN
  /\ gate[c] = "incr"
  /\ counter' = IF counter > Limit THEN counter ELSE n
  /\ IF IsFirst(n) THEN gate' = [gate EXCEPT ![c] = "expire"] /\ UNCHANGED admitted
                   ELSE Judge(c, n)
  /\ UNCHANGED <<expiring, orphaned>>

SetExpiry(c) ==
  /\ gate[c] = "expire"
  /\ expiring' = (counter # 0)
  /\ Judge(c, 1)
  /\ UNCHANGED <<counter, orphaned>>

(* the caller has its answer *)
GoOut(c) ==
  /\ gate[c] \in {"past", "over", "lost"}
  /\ gate' = [gate EXCEPT ![c] = "out"]
  /\ UNCHANGED <<counter, expiring, admitted, orphaned>>

(* Redis drops the key *)
WindowEnds ==
  /\ expiring
  /\ counter' = 0 /\ expiring' = FALSE /\ admitted' = 0 /\ orphaned' = FALSE
  /\ UNCHANGED gate

(* ... or a command of the limiter is rejected *)
GatewayDies ==
  /\ gate' = [c \in Callers |-> IF gate[c] \in {"incr", "expire", "past"} THEN "lost" ELSE gate[c]]
  /\ orphaned' = (orphaned \/ \E c \in Callers : gate[c] = "expire")
  /\ UNCHANGED <<counter, expiring, admitted>>

LimiterNext ==
  \/ \E c \in Callers : Arrive(c) \/ Incr(c) \/ SetExpiry(c) \/ GoOut(c)
  \/ WindowEnds \/ GatewayDies

LimiterSpec == LimiterInit /\ [][LimiterNext]_limiterVars

-----------------------------------------------------------------------------
(* However the commands of concurrent requests interleave and wherever the *)
(* gateway dies, no more requests than the limit pass on one key           *)
(* (ratelimit.middleware.ts:20-31).                                        *)
LimitKept == admitted <= Limit

(* A key without a time to live blocks its user for ever once it is at the *)
(* limit.  There is one only while the request that made it is about to    *)
(* set it, or where a gateway died at that point; what died later or       *)
(* earlier, and what came in between, does no such harm.                   *)
LockedOutOnlyByCrash ==
  counter > 0 /\ ~expiring => orphaned \/ \E c \in Callers : gate[c] = "expire"

=============================================================================

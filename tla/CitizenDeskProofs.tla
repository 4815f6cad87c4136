------------------------- MODULE CitizenDeskProofs -------------------------
(***************************************************************************)
(* Proofs about CitizenDesk and the two parts it is built on, RateLimiter  *)
(* and Accounts, for any number of users and requests and any limit.       *)
(*                                                                         *)
(* LimitKept is not inductive: the request that made the key has not been  *)
(* counted yet while it sets the time to live, so that room must be left   *)
(* for it; and there is room only because there is one such request, which *)
(* in turn is so because the key has no time to live until it is set.      *)
(*                                                                         *)
(* StaleOnlyByLateFill says nothing of a row that a reader has read and    *)
(* not yet written to the cache.  ReadersFollow does: unless an update has *)
(* ended since, that row is the present one or an update is at work.       *)
(* RegistrationTells says nothing of a request between its steps:          *)
(* MadeByPublisher does.                                                   *)
(*                                                                         *)
(* What the bell shows comes from an answer to a fetch, and that from the  *)
(* log: DeskInv says of the answers on their way what DeskTellsTheTruth    *)
(* says of what is shown.                                                  *)
(***************************************************************************)
EXTENDS CitizenDesk, FiniteSetTheorems, TLAPS

-----------------------------------------------------------------------------
(* RateLimiter. *)

Setting(c) == gate[c] = "expire"

LimiterTypes ==
  /\ counter \in 0 .. Limit + 1
  /\ expiring \in BOOLEAN
  /\ gate \in [Callers -> {"out", "incr", "expire", "past", "over", "lost"}]
  /\ admitted \in Nat

(* The request between INCR and EXPIRE is alone there. *)
OneSetter ==
  \A c \in Callers : Setting(c) =>
    /\ counter > 0 /\ ~expiring
    /\ \A d \in Callers : Setting(d) => d = c

(* Every request admitted was counted, with room for the one at EXPIRE. *)
Counted ==
  /\ admitted <= counter /\ admitted <= Limit
  /\ (\E c \in Callers : Setting(c)) => admitted < counter /\ admitted < Limit

NoKey == counter = 0 => ~expiring

LimiterInv == LimiterTypes /\ OneSetter /\ Counted /\ NoKey /\ LockedOutOnlyByCrash

-----------------------------------------------------------------------------
(* Without a key there is nothing to show. *)
LEMMA LimiterInvInit == LimiterInit => LimiterInv
<1> SUFFICES ASSUME LimiterInit PROVE LimiterInv
  OBVIOUS
<1>1. LimiterTypes
  <2>1. counter \in 0 .. Limit + 1 /\ admitted \in Nat
    BY LimitAssumption DEF LimitAssumption, LimiterInit
  <2>2. /\ expiring \in BOOLEAN
        /\ gate \in [Callers -> {"out", "incr", "expire", "past", "over", "lost"}]
    BY DEF LimiterInit
  <2> QED
    BY <2>1, <2>2 DEF LimiterTypes
<1>2. \A c \in Callers : ~Setting(c)
  BY DEF LimiterInit, Setting
<1> QED
  BY <1>1, <1>2, LimitAssumption
     DEF LimitAssumption, LimiterInit, LimiterInv, OneSetter, Counted, NoKey, LockedOutOnlyByCrash

(* Requests that come and go touch neither the key nor its maker. *)
LEMMA ComeAndGoInv ==
  ASSUME LimiterInv, NEW c \in Callers, Arrive(c) \/ GoOut(c)
  PROVE  LimiterInv'
<1>1. \A d \in Callers : Setting(d)' <=> Setting(d)
  BY DEF Arrive, GoOut, Setting, LimiterInv, LimiterTypes
<1>2. UNCHANGED <<counter, expiring, admitted, orphaned>>
  BY DEF Arrive, GoOut
<1>3. LimiterTypes'
  BY DEF Arrive, GoOut, LimiterInv, LimiterTypes
<1> QED
  BY <1>1, <1>2, <1>3 DEF LimiterInv, OneSetter, Counted, NoKey, LockedOutOnlyByCrash, Setting

(* The first INCR makes its caller the one at EXPIRE; a later one admits   *)
(* its caller only while the value is within the limit.                    *)
LEMMA IncrInv ==
  ASSUME LimiterInv, NEW c \in Callers, Incr(c)
  PROVE  LimiterInv'
<1> USE LimitAssumption DEF LimitAssumption, LimiterInv, LimiterTypes
<1>1. CASE counter = 0
  <2>1. /\ counter' = 1 /\ admitted' = admitted /\ admitted = 0 /\ ~expiring
        /\ UNCHANGED <<expiring, orphaned>>
        /\ gate' = [gate EXCEPT ![c] = "expire"]
    BY <1>1 DEF Incr, IsFirst, Counted, NoKey
  <2>2. \A d \in Callers : Setting(d)' <=> d = c
    BY <1>1, <2>1 DEF Setting, OneSetter
  <2> QED
    BY <2>1, <2>2 DEF OneSetter, Counted, NoKey, LockedOutOnlyByCrash, Setting
<1>2. CASE counter # 0
  <2>1. /\ gate' = [gate EXCEPT ![c] = Verdict(counter + 1)]
        /\ admitted' = IF Verdict(counter + 1) = "past" THEN admitted + 1 ELSE admitted
        /\ counter' = IF counter > Limit THEN counter ELSE counter + 1
        /\ UNCHANGED <<expiring, orphaned>>
    BY <1>2 DEF Incr, IsFirst, Judge
  <2>2. Verdict(counter + 1) \in {"past", "over"} /\ gate[c] = "incr"
    BY DEF Verdict, Incr
  <2>3. \A d \in Callers : Setting(d)' <=> Setting(d)
    BY <2>1, <2>2 DEF Setting
  <2>4. LimiterTypes'
    BY <2>1, <2>2
  <2>5. Counted'
    BY <2>1, <2>3, <1>2 DEF Counted, Verdict
  <2>6. counter' > 0
    BY <1>2, <2>1
  <2> QED
    BY <1>2, <2>1, <2>3, <2>4, <2>5, <2>6 DEF OneSetter, NoKey, LockedOutOnlyByCrash, Setting
<1> QED
  BY <1>1, <1>2

(* EXPIRE: the one request is counted, and the key will go. *)
LEMMA SetExpiryInv ==
  ASSUME LimiterInv, NEW c \in Callers, SetExpiry(c)
  PROVE  LimiterInv'
<1> USE LimitAssumption DEF LimitAssumption, LimiterInv, LimiterTypes
<1>1. Setting(c) /\ counter > 0
  BY DEF SetExpiry, Setting, OneSetter
<1>2. /\ expiring' = TRUE /\ admitted' = admitted + 1
      /\ UNCHANGED <<counter, orphaned>>
      /\ gate' = [gate EXCEPT ![c] = "past"]
  <2>1. Verdict(1) = "past"
    BY DEF Verdict
  <2>2. expiring' = (counter # 0) /\ Judge(c, 1) /\ UNCHANGED <<counter, orphaned>>
    BY DEF SetExpiry
  <2>3. (counter # 0) = TRUE
    BY <1>1
  <2> QED
    BY <2>1, <2>2, <2>3 DEF Judge
<1>3. \A d \in Callers : ~Setting(d)'
  BY <1>1, <1>2 DEF Setting, OneSetter
<1>4. Counted'
  BY <1>1, <1>2, <1>3 DEF Counted
<1> QED
  BY <1>1, <1>2, <1>3, <1>4 DEF OneSetter, NoKey, LockedOutOnlyByCrash, Setting

(* A key that Redis drops has a time to live: nobody is at EXPIRE. *)
LEMMA WindowEndsInv ==
  ASSUME LimiterInv, WindowEnds
  PROVE  LimiterInv'
<1> USE LimitAssumption DEF LimitAssumption, LimiterInv, LimiterTypes
<1>1. \A c \in Callers : ~Setting(c)
  BY DEF WindowEnds, OneSetter
<1>2. \A c \in Callers : ~Setting(c)'
  BY <1>1 DEF WindowEnds, Setting
<1>3. counter' = 0 /\ admitted' = 0 /\ UNCHANGED gate
  BY DEF WindowEnds
<1>4. expiring' = FALSE
  BY DEF WindowEnds
<1>5. LimiterTypes'
  <2>1. counter' \in 0 .. Limit + 1 /\ admitted' \in Nat /\ UNCHANGED gate
    BY <1>3
  <2>2. expiring' \in BOOLEAN
    BY <1>4
  <2> QED
    BY <2>1, <2>2
<1>6. Counted' /\ OneSetter'
  BY <1>2, <1>3 DEF Counted, OneSetter
<1>7. NoKey' /\ LockedOutOnlyByCrash'
  BY <1>3, <1>4 DEF NoKey, LockedOutOnlyByCrash
<1> QED
  BY <1>5, <1>6, <1>7

(* The death of the gateway at EXPIRE is what orphaned records. *)
LEMMA GatewayDiesInv ==
  ASSUME LimiterInv, GatewayDies
  PROVE  LimiterInv'
<1> USE DEF LimiterInv, LimiterTypes
<1>1. \A d \in Callers : ~Setting(d)'
  BY DEF GatewayDies, Setting
<1>2. LimiterTypes'
  BY DEF GatewayDies
<1>3. orphaned' = (orphaned \/ \E d \in Callers : Setting(d))
  BY DEF GatewayDies, Setting
<1>4. UNCHANGED <<counter, expiring, admitted>>
  BY DEF GatewayDies
<1> QED
  BY <1>1, <1>2, <1>3, <1>4 DEF OneSetter, Counted, NoKey, LockedOutOnlyByCrash, Setting

(* The invariant of the rate limiter. *)
THEOREM LimiterInvariance == LimiterSpec => []LimiterInv
<1>1. ASSUME LimiterInv, [LimiterNext]_limiterVars PROVE LimiterInv'
  <2>1. CASE UNCHANGED limiterVars
    BY <1>1, <2>1 DEF limiterVars, LimiterInv, LimiterTypes, OneSetter, Counted, NoKey,
       LockedOutOnlyByCrash, Setting
  <2>2. CASE LimiterNext
    BY <1>1, <2>2, ComeAndGoInv, IncrInv, SetExpiryInv, WindowEndsInv, GatewayDiesInv
       DEF LimiterNext
  <2> QED
    BY <1>1, <2>1, <2>2
<1> QED
  BY <1>1, LimiterInvInit, PTL DEF LimiterSpec

(* No interleaving of INCR and EXPIRE and no death of the gateway admits   *)
(* more than the limit on one key (ratelimit.middleware.ts:20-31).         *)
THEOREM LimitHolds == LimiterSpec => []LimitKept
<1>1. LimiterInv => LimitKept
  BY DEF LimiterInv, Counted, LimitKept
<1> QED
  BY <1>1, LimiterInvariance, PTL

(* A user is locked out only by a gateway that died between the two        *)
(* commands (ratelimit.middleware.ts:20-24).                               *)
THEOREM NoOtherLockOut == LimiterSpec => []LockedOutOnlyByCrash
<1>1. LimiterInv => LockedOutOnlyByCrash
  BY DEF LimiterInv
<1> QED
  BY <1>1, LimiterInvariance, PTL

-----------------------------------------------------------------------------
(* Accounts. *)

Ended ==
  {"registered", "conflict", "served", "notFound", "updated", "forbidden", "failed", "filed", "marked"}

Steps == {"idle"} \cup Working \cup Ended

Writers == Requests \cup {Earlier}

Rows == [Fields -> Requests \cup {None}]

AccountTypes ==
  /\ account \in [Emails -> Writers \cup {None}]
  /\ welcomed \subseteq Requests
  /\ row \in [Emails -> Rows]
  /\ cached \in [Emails -> Rows \cup {NoEntry}]
  /\ asked \in [Requests -> [email : Emails \cup {None}, fields : SUBSET Fields]]
  /\ at \in [Requests -> Steps]
  /\ seen \in [Requests -> Rows]
  /\ overtaken \subseteq Requests
  /\ unsafe \subseteq Emails

(* A request of user-service has named a user; others of CitizenDesk are   *)
(* for the services behind it, or have failed there.                       *)
Named == \A r \in Requests : at[r] \notin {"idle", "filed", "marked", "failed"} => Email(r) \in Emails

(* An account made by a request is its user's, a request at PUBLISH has    *)
(* made one, and events come from requests that are over.                  *)
MadeByPublisher ==
  /\ \A r \in Requests, e \in Emails :
       account[e] = r => at[r] \in {"publish", "registered", "failed"} /\ Email(r) = e
  /\ \A r \in Requests : at[r] = "publish" => account[Email(r)] = r
  /\ \A r \in welcomed : at[r] \in {"registered", "failed"} /\ Email(r) \in Emails

(* r is between the first write of an update and its end. *)
Updating(r) == at[r] \in {"savePreferences", "purge"}

(* What a reader is about to cache. *)
ReadersFollow ==
  \A r \in Requests :
    at[r] = "fill" /\ r \notin overtaken =>
      seen[r] = row[Email(r)] \/ \E q \in Requests : Email(q) = Email(r) /\ Updating(q)

Basics == AccountTypes /\ Named

RegistrationInv == MadeByPublisher /\ RegistrationTells

ProfileInv == ReadersFollow /\ StaleOnlyByLateFill

AccountsInv == Basics /\ RegistrationInv /\ ProfileInv

-----------------------------------------------------------------------------
(* Nothing has been asked yet, and nothing is cached. *)
LEMMA AccountsInvInit == AccountsInit => AccountsInv
<1> SUFFICES ASSUME AccountsInit PROVE AccountsInv
  OBVIOUS
<1>1. AccountTypes
  BY DEF AccountsInit, AccountTypes, Writers, Rows, Steps, NoRow, NoArguments, NoEntry
<1>2. \A r \in Requests : at[r] = "idle"
  BY DEF AccountsInit
<1>3. \A e \in Emails : account[e] \in {None, Earlier} /\ cached[e] = NoEntry
  BY DEF AccountsInit
<1>4. welcomed = {}
  BY DEF AccountsInit
<1>5. Named /\ ReadersFollow /\ StaleOnlyByLateFill
  BY <1>2, <1>3 DEF Named, ReadersFollow, StaleOnlyByLateFill
<1>6. MadeByPublisher /\ RegistrationTells
  BY <1>2, <1>3, <1>4, NoneAssumption DEF NoneAssumption, MadeByPublisher, RegistrationTells
<1> QED
  BY <1>1, <1>5, <1>6 DEF AccountsInv, Basics, RegistrationInv, ProfileInv

-----------------------------------------------------------------------------
(* A request that moves and leaves the accounts alone. *)
LEMMA RegisteredKept ==
  ASSUME Basics, RegistrationInv, NEW r \in Requests, NEW step,
         at' = [at EXCEPT ![r] = step],
         step \notin {"publish", "registered", "conflict"},
         at[r] \notin {"registered", "failed"},
         at[r] = "publish" => step = "failed",
         \A q \in Requests : at[q] # "idle" => Email(q)' = Email(q),
         UNCHANGED <<account, welcomed>>
  PROVE  RegistrationInv'
<1> USE DEF Basics, AccountTypes
<1>1. \A q \in Requests : at'[q] = IF q = r THEN step ELSE at[q]
  OBVIOUS
<1>2. MadeByPublisher'
  BY <1>1 DEF RegistrationInv, MadeByPublisher
<1>3. RegistrationTells'
  <2>1. ASSUME NEW q \in Requests
        PROVE  /\ at'[q] = "registered" => q \in welcomed'
               /\ at'[q] = "conflict" => q \notin welcomed' /\ account'[Email(q)'] \notin {None, q}
               /\ q \in welcomed' => account'[Email(q)'] = q
    <3>1. at[q] = "idle" => q \notin welcomed
      BY DEF RegistrationInv, RegistrationTells, MadeByPublisher, Named
    <3> QED
      BY <1>1, <3>1 DEF RegistrationInv, RegistrationTells
  <2>2. ASSUME NEW e \in Emails, account[e] \notin {None, Earlier} \cup welcomed
        PROVE  at'[account[e]] \in {"publish", "failed"}
    BY <1>1, <2>2 DEF RegistrationInv, RegistrationTells, Writers
  <2> QED
    BY <2>1, <2>2 DEF RegistrationTells
<1> QED
  BY <1>2, <1>3 DEF RegistrationInv

(* A request that moves and leaves the profiles alone. *)
LEMMA CachedKept ==
  ASSUME Basics, ProfileInv, NEW r \in Requests, NEW step,
         at' = [at EXCEPT ![r] = step],
         step # "fill", ~Updating(r),
         \A q \in Requests : at[q] # "idle" => Email(q)' = Email(q),
         UNCHANGED <<row, cached, seen, overtaken, unsafe>>
  PROVE  ProfileInv'
<1> USE DEF Basics, AccountTypes, Updating
<1>1. \A q \in Requests : at'[q] = IF q = r THEN step ELSE at[q]
  OBVIOUS
<1>2. ASSUME NEW e \in Emails, NEW q \in Requests, Email(q) = e, Updating(q)
      PROVE  Email(q)' = e /\ Updating(q)'
  BY <1>1, <1>2
<1>3. ReadersFollow'
  <2> SUFFICES ASSUME NEW p \in Requests, at'[p] = "fill", p \notin overtaken'
               PROVE  \/ seen'[p] = row'[Email(p)']
                      \/ \E q \in Requests : Email(q)' = Email(p)' /\ Updating(q)'
    BY DEF ReadersFollow
  <2>1. at[p] = "fill" /\ Email(p)' = Email(p) /\ Email(p) \in Emails
    BY <1>1 DEF Named
  <2> QED
    BY <1>2, <2>1 DEF ProfileInv, ReadersFollow
<1>4. StaleOnlyByLateFill'
  BY <1>2 DEF ProfileInv, StaleOnlyByLateFill
<1> QED
  BY <1>3, <1>4 DEF ProfileInv

-----------------------------------------------------------------------------
(* Calls: a request that has done nothing names its user. *)
LEMMA BeginInv ==
  ASSUME AccountsInv, NEW r \in Requests, NEW e \in Emails, NEW fields \in SUBSET Fields,
         NEW step \in {"checkEmail", "lookUp", "saveUser", "forbidden"},
         Begin(r, e, fields, step)
  PROVE  AccountsInv'
<1> USE DEF AccountsInv
<1>1. /\ at[r] = "idle" /\ at' = [at EXCEPT ![r] = step]
      /\ asked' = [asked EXCEPT ![r] = [email |-> e, fields |-> fields]]
      /\ UNCHANGED <<account, welcomed, row, cached, seen, overtaken, unsafe>>
  BY DEF Begin, GoTo, tables
<1>2. \A q \in Requests : at[q] # "idle" => Email(q)' = Email(q)
  BY <1>1 DEF Email, Basics, AccountTypes
<1>3. Basics'
  <2>1. AccountTypes'
    BY <1>1 DEF Basics, AccountTypes, Steps, Working, Ended
  <2>2. Email(r)' = e
    BY <1>1 DEF Email, Basics, AccountTypes
  <2> QED
    BY <1>1, <1>2, <2>1, <2>2 DEF Basics, Named, AccountTypes
<1>4. RegistrationInv'
  BY <1>1, <1>2, RegisteredKept
<1>5. ProfileInv'
  BY <1>1, <1>2, CachedKept DEF Updating
<1> QED
  BY <1>3, <1>4, <1>5

(* A step that moves a request already made. *)
LEMMA NamedKept ==
  ASSUME Named, AccountTypes, NEW r \in Requests, NEW step,
         at[r] \notin {"idle", "filed", "marked", "failed"},
         at' = [at EXCEPT ![r] = step], UNCHANGED asked
  PROVE  Named' /\ \A q \in Requests : Email(q)' = Email(q)
BY DEF Named, Email, AccountTypes

(* The look-up of a registration: an account that is there is not the      *)
(* request's own.                                                          *)
LEMMA CheckEmailInv ==
  ASSUME AccountsInv, NEW r \in Requests, CheckEmail(r)
  PROVE  AccountsInv'
<1> USE DEF AccountsInv
<1>1. PICK step \in {"createUser", "conflict"} :
        /\ at' = [at EXCEPT ![r] = step]
        /\ step = "conflict" => account[Email(r)] # None
  BY DEF CheckEmail, GoTo
<1>2. /\ at[r] = "checkEmail"
      /\ UNCHANGED <<account, welcomed, row, cached, seen, overtaken, unsafe, asked>>
  BY DEF CheckEmail, profiles
<1>3. Named' /\ \A q \in Requests : Email(q)' = Email(q)
  BY <1>1, <1>2, NamedKept DEF Basics
<1>4. Basics'
  BY <1>1, <1>2, <1>3 DEF Basics, AccountTypes, Steps, Working, Ended
<1>5. ProfileInv'
  BY <1>1, <1>2, <1>3, CachedKept DEF Updating
<1>6. RegistrationInv'
  <2>1. \A q \in Requests : at'[q] = IF q = r THEN step ELSE at[q]
    BY <1>1 DEF Basics, AccountTypes
  <2>2. Email(r) \in Emails /\ r \notin welcomed /\ account[Email(r)] # r
    BY <1>2 DEF Basics, Named, RegistrationInv, MadeByPublisher, RegistrationTells
  <2>3. MadeByPublisher'
    BY <1>2, <1>3, <2>1 DEF RegistrationInv, MadeByPublisher, Basics, AccountTypes
  <2>4. RegistrationTells'
    BY <1>1, <1>2, <1>3, <2>1, <2>2 DEF RegistrationInv, RegistrationTells, Basics, AccountTypes, Writers
  <2> QED
    BY <2>3, <2>4 DEF RegistrationInv
<1> QED
  BY <1>4, <1>5, <1>6

(* The INSERT: nobody else has the address, and nobody will. *)
LEMMA CreateUserInv ==
  ASSUME AccountsInv, NEW r \in Requests, CreateUser(r)
  PROVE  AccountsInv'
<1> USE DEF AccountsInv
<1>1. /\ at[r] = "createUser" /\ at' = [at EXCEPT ![r] = "publish"]
      /\ account[Email(r)] = None /\ account' = [account EXCEPT ![Email(r)] = r]
      /\ UNCHANGED <<welcomed, row, cached, seen, overtaken, unsafe, asked>>
  BY DEF CreateUser, GoTo, profiles
<1>2. Named' /\ \A q \in Requests : Email(q)' = Email(q)
  BY <1>1, NamedKept DEF Basics
<1>3. Basics'
  BY <1>1, <1>2 DEF Basics, AccountTypes, Steps, Working, Writers
<1>4. ProfileInv'
  BY <1>1, <1>2, CachedKept DEF Updating
<1>5. RegistrationInv'
  <2>1. \A q \in Requests : at'[q] = IF q = r THEN "publish" ELSE at[q]
    BY <1>1 DEF Basics, AccountTypes
  <2>2. Email(r) \in Emails /\ r # None
    BY <1>1, NoneAssumption DEF NoneAssumption, Basics, Named
  <2>3. \A e \in Emails : account'[e] = IF e = Email(r) THEN r ELSE account[e]
    BY <1>1 DEF Basics, AccountTypes
  <2>4. MadeByPublisher'
    <3>1. ASSUME NEW q \in Requests, at'[q] = "publish" PROVE account'[Email(q)'] = q
      <4>1. CASE q = r
        BY <1>2, <2>2, <2>3, <4>1
      <4>2. CASE q # r
        <5>1. at[q] = "publish" /\ account[Email(q)] = q /\ Email(q) \in Emails
          BY <2>1, <3>1, <4>2 DEF RegistrationInv, MadeByPublisher, Basics, Named
        <5>2. Email(q) # Email(r)
          BY <1>1, <5>1, NoneAssumption DEF NoneAssumption
        <5> QED
          BY <1>2, <2>3, <5>1, <5>2
      <4> QED
        BY <4>1, <4>2
    <3>2. ASSUME NEW q \in Requests, NEW e \in Emails, account'[e] = q
          PROVE  at'[q] \in {"publish", "registered", "failed"} /\ Email(q)' = e
      <4>1. CASE e = Email(r)
        BY <1>2, <2>1, <2>3, <3>2, <4>1
      <4>2. CASE e # Email(r)
        <5>1. account[e] = q
          BY <2>3, <3>2, <4>2
        <5>2. at[q] \in {"publish", "registered", "failed"} /\ Email(q) = e
          BY <5>1 DEF RegistrationInv, MadeByPublisher
        <5> QED
          BY <1>2, <2>1, <5>2
      <4> QED
        BY <4>1, <4>2
    <3>3. \A q \in welcomed' : at'[q] \in {"registered", "failed"} /\ Email(q)' \in Emails
      BY <1>1, <1>2, <2>1 DEF RegistrationInv, MadeByPublisher, Basics, AccountTypes
    <3> QED
      BY <3>1, <3>2, <3>3 DEF MadeByPublisher
  <2>5. RegistrationTells'
    <3>1. ASSUME NEW q \in Requests
          PROVE  /\ at'[q] = "registered" => q \in welcomed'
                 /\ at'[q] = "conflict" => q \notin welcomed' /\ account'[Email(q)'] \notin {None, q}
                 /\ q \in welcomed' => account'[Email(q)'] = q
      <4>1. q \in welcomed \/ at[q] = "conflict" => Email(q) # Email(r) /\ Email(q) \in Emails
        <5>1. ASSUME q \in welcomed PROVE account[Email(q)] = q
          BY <5>1 DEF RegistrationInv, RegistrationTells
        <5>2. ASSUME q \in welcomed PROVE Email(q) \in Emails
          BY <5>2 DEF RegistrationInv, MadeByPublisher
        <5>3. ASSUME at[q] = "conflict" PROVE account[Email(q)] # None
          BY <5>3 DEF RegistrationInv, RegistrationTells
        <5>4. q # None
          BY NoneAssumption DEF NoneAssumption
        <5> QED
          BY <1>1, <5>1, <5>2, <5>3, <5>4 DEF Basics, Named
      <4> QED
        BY <1>1, <1>2, <2>1, <2>3, <4>1 DEF RegistrationInv, RegistrationTells
    <3>2. ASSUME NEW e \in Emails, account'[e] \notin {None, Earlier} \cup welcomed'
          PROVE  at'[account'[e]] \in {"publish", "failed"}
      BY <1>1, <2>1, <2>3, <3>2 DEF RegistrationInv, RegistrationTells, Basics, AccountTypes, Writers
    <3> QED
      BY <3>1, <3>2 DEF RegistrationTells
  <2> QED
    BY <2>4, <2>5 DEF RegistrationInv
<1> QED
  BY <1>3, <1>4, <1>5

(* The event of an account that is the request's own. *)
LEMMA PublishRegisteredInv ==
  ASSUME AccountsInv, NEW r \in Requests, NEW outcome \in {"registered", "failed"},
         PublishRegistered(r, outcome)
  PROVE  AccountsInv'
<1> USE DEF AccountsInv
<1>1. /\ at[r] = "publish" /\ at' = [at EXCEPT ![r] = outcome]
      /\ welcomed' = welcomed \cup {r}
      /\ UNCHANGED <<account, row, cached, seen, overtaken, unsafe, asked>>
  BY DEF PublishRegistered, GoTo, profiles
<1>2. Named' /\ \A q \in Requests : Email(q)' = Email(q)
  BY <1>1, NamedKept DEF Basics
<1>3. Basics'
  BY <1>1, <1>2 DEF Basics, AccountTypes, Steps, Ended
<1>4. ProfileInv'
  BY <1>1, <1>2, CachedKept DEF Updating
<1>5. \A q \in Requests : at'[q] = IF q = r THEN outcome ELSE at[q]
  BY <1>1 DEF Basics, AccountTypes
<1>6. MadeByPublisher'
  BY <1>1, <1>2, <1>5 DEF RegistrationInv, MadeByPublisher, Basics, AccountTypes, Named
<1>7. RegistrationTells'
  <2>1. ASSUME NEW q \in Requests
        PROVE  /\ at'[q] = "registered" => q \in welcomed'
               /\ at'[q] = "conflict" => q \notin welcomed' /\ account'[Email(q)'] \notin {None, q}
               /\ q \in welcomed' => account'[Email(q)'] = q
    BY <1>1, <1>2, <1>5 DEF RegistrationInv, RegistrationTells, MadeByPublisher
  <2>2. ASSUME NEW e \in Emails, account[e] \notin {None, Earlier} \cup welcomed'
        PROVE  at'[account[e]] \in {"publish", "failed"}
    BY <1>1, <1>5, <2>2 DEF RegistrationInv, RegistrationTells, Basics, AccountTypes, Writers
  <2> QED
    BY <1>1, <2>1, <2>2 DEF RegistrationTells
<1> QED
  BY <1>3, <1>4, <1>6, <1>7 DEF RegistrationInv

-----------------------------------------------------------------------------
(* A look-up in the cache, and a query that finds no user. *)
LEMMA LookUpInv ==
  ASSUME AccountsInv, NEW r \in Requests, NEW step \in {"query", "served", "notFound"},
         at[r] \in {"lookUp", "query"}, at' = [at EXCEPT ![r] = step],
         UNCHANGED <<account, welcomed, row, cached, seen, overtaken, unsafe, asked>>
  PROVE  AccountsInv'
<1> USE DEF AccountsInv
<1>1. Named' /\ \A q \in Requests : Email(q)' = Email(q)
  BY NamedKept DEF Basics
<1>2. Basics'
  BY <1>1 DEF Basics, AccountTypes, Steps, Working, Ended
<1>3. RegistrationInv'
  BY <1>1, RegisteredKept
<1>4. ProfileInv'
  BY <1>1, CachedKept DEF Updating
<1> QED
  BY <1>2, <1>3, <1>4

(* The query reads the present row. *)
LEMMA QueryInv ==
  ASSUME AccountsInv, NEW r \in Requests, Query(r)
  PROVE  AccountsInv'
<1> USE DEF AccountsInv
<1>1. /\ at[r] = "query"
      /\ UNCHANGED <<account, welcomed, row, cached, overtaken, unsafe, asked>>
  BY DEF Query, tables
<1>2. CASE account[Email(r)] = None
  BY <1>1, <1>2, LookUpInv DEF Query, GoTo
<1>3. CASE account[Email(r)] # None
  <2>1. at' = [at EXCEPT ![r] = "fill"] /\ seen' = [seen EXCEPT ![r] = row[Email(r)]]
    BY <1>3 DEF Query, GoTo
  <2>2. Named' /\ \A q \in Requests : Email(q)' = Email(q)
    BY <1>1, <2>1, NamedKept DEF Basics
  <2>3. Basics'
    <3>1. row[Email(r)] \in Rows
      BY <1>1 DEF Basics, AccountTypes, Named
    <3>2. seen' \in [Requests -> Rows]
      BY <2>1, <3>1 DEF Basics, AccountTypes
    <3>3. at' \in [Requests -> Steps]
      BY <2>1 DEF Basics, AccountTypes, Steps, Working
    <3> QED
      BY <1>1, <2>2, <3>2, <3>3 DEF Basics, AccountTypes
  <2>4. RegistrationInv'
    BY <1>1, <2>1, <2>2, RegisteredKept
  <2>5. \A q \in Requests :
          /\ at'[q] = IF q = r THEN "fill" ELSE at[q]
          /\ seen'[q] = IF q = r THEN row[Email(r)] ELSE seen[q]
    BY <2>1 DEF Basics, AccountTypes
  <2>6. \A q \in Requests : Updating(q)' <=> Updating(q)
    BY <1>1, <2>5 DEF Updating
  <2>7. ReadersFollow'
    BY <1>1, <2>2, <2>5, <2>6 DEF ProfileInv, ReadersFollow
  <2>8. StaleOnlyByLateFill'
    BY <1>1, <2>2, <2>6 DEF ProfileInv, StaleOnlyByLateFill, Updating
  <2> QED
    BY <2>3, <2>4, <2>7, <2>8 DEF ProfileInv
<1> QED
  BY <1>2, <1>3

(* The fill: what a reader brings that no update has overtaken is right.   *)
LEMMA FillInv ==
  ASSUME AccountsInv, NEW r \in Requests, NEW outcome \in {"served", "failed"}, Fill(r, outcome)
  PROVE  AccountsInv'
<1> USE DEF AccountsInv
<1>1. /\ at[r] = "fill" /\ at' = [at EXCEPT ![r] = outcome]
      /\ cached' = [cached EXCEPT ![Email(r)] = seen[r]]
      /\ seen' = [seen EXCEPT ![r] = NoRow]
      /\ unsafe' = IF r \in overtaken THEN unsafe \cup {Email(r)} ELSE unsafe \ {Email(r)}
      /\ overtaken' = overtaken \ {r}
      /\ UNCHANGED <<account, welcomed, row, asked>>
  BY DEF Fill, GoTo, tables
<1>2. Named' /\ \A q \in Requests : Email(q)' = Email(q)
  BY <1>1, NamedKept DEF Basics
<1>3. Email(r) \in Emails
  BY <1>1 DEF Basics, Named
<1>4. Basics'
  <2>1. NoRow \in Rows /\ seen[r] \in Rows
    BY DEF NoRow, Rows, Basics, AccountTypes
  <2>2. cached' \in [Emails -> Rows \cup {NoEntry}] /\ seen' \in [Requests -> Rows]
    BY <1>1, <1>3, <2>1 DEF Basics, AccountTypes
  <2>3. at' \in [Requests -> Steps]
    BY <1>1 DEF Basics, AccountTypes, Steps, Ended
  <2>4. overtaken' \subseteq Requests /\ unsafe' \subseteq Emails
    BY <1>1, <1>3 DEF Basics, AccountTypes
  <2> QED
    BY <1>1, <1>2, <2>2, <2>3, <2>4 DEF Basics, AccountTypes
<1>5. RegistrationInv'
  BY <1>1, <1>2, RegisteredKept
<1>6. \A q \in Requests :
        /\ at'[q] = IF q = r THEN outcome ELSE at[q]
        /\ q # r => seen'[q] = seen[q]
  BY <1>1 DEF Basics, AccountTypes
<1>7. \A q \in Requests : Updating(q)' <=> Updating(q)
  BY <1>1, <1>6 DEF Updating
<1>8. ReadersFollow'
  BY <1>1, <1>2, <1>6, <1>7 DEF ProfileInv, ReadersFollow
<1>9. StaleOnlyByLateFill'
  <2> SUFFICES ASSUME NEW e \in Emails, cached'[e] \notin {NoEntry, row'[e]}, e \notin unsafe'
               PROVE  \E q \in Requests : Email(q)' = e /\ Updating(q)'
    BY DEF StaleOnlyByLateFill, Updating
  <2>1. CASE e = Email(r)
    <3>1. r \notin overtaken /\ seen[r] # row[Email(r)]
      BY <1>1, <1>3, <2>1 DEF Basics, AccountTypes
    <3> QED
      BY <1>1, <1>2, <1>7, <2>1, <3>1 DEF ProfileInv, ReadersFollow
  <2>2. CASE e # Email(r)
    <3>1. cached[e] \notin {NoEntry, row[e]} /\ e \notin unsafe
      BY <1>1, <2>2 DEF Basics, AccountTypes
    <3> QED
      BY <1>2, <1>7, <3>1 DEF ProfileInv, StaleOnlyByLateFill, Updating
  <2> QED
    BY <2>1, <2>2
<1> QED
  BY <1>4, <1>5, <1>8, <1>9 DEF ProfileInv

(* An entry that expires is not stale. *)
LEMMA EntryExpiresInv ==
  ASSUME AccountsInv, NEW e \in Emails, EntryExpires(e)
  PROVE  AccountsInv'
<1> USE DEF AccountsInv
<1>1. /\ cached' = [cached EXCEPT ![e] = NoEntry] /\ unsafe' = unsafe \ {e}
      /\ UNCHANGED <<account, welcomed, row, asked, at, seen, overtaken>>
  BY DEF EntryExpires, tables
<1>2. Basics'
  BY <1>1 DEF Basics, AccountTypes, Named, Email
<1>3. RegistrationInv'
  BY <1>1 DEF RegistrationInv, MadeByPublisher, RegistrationTells, Email
<1>4. ReadersFollow'
  BY <1>1 DEF ProfileInv, ReadersFollow, Updating, Email
<1>5. StaleOnlyByLateFill'
  <2>1. \A d \in Emails : cached'[d] = IF d = e THEN NoEntry ELSE cached[d]
    BY <1>1 DEF Basics, AccountTypes
  <2> QED
    BY <1>1, <2>1 DEF ProfileInv, StaleOnlyByLateFill, Email
<1> QED
  BY <1>2, <1>3, <1>4, <1>5 DEF ProfileInv

-----------------------------------------------------------------------------
(* A write of an update: from then on the update is at work. *)
LEMMA SaveInv ==
  ASSUME AccountsInv, NEW r \in Requests, NEW f \in Fields,
         NEW step \in {"savePreferences", "purge"},
         at[r] \in {"saveUser", "savePreferences"}, at' = [at EXCEPT ![r] = step],
         Save(r, f),
         UNCHANGED <<account, welcomed, cached, seen, overtaken, unsafe, asked>>
  PROVE  AccountsInv'
<1> USE DEF AccountsInv
<1>1. Named' /\ \A q \in Requests : Email(q)' = Email(q)
  BY NamedKept DEF Basics
<1>2. Email(r) \in Emails
  BY DEF Basics, Named
<1>3. row' \in [Emails -> Rows] /\ \A e \in Emails : e # Email(r) => row'[e] = row[e]
  <2> DEFINE saved == [row[Email(r)] EXCEPT ![f] = r]
  <2>1. row[Email(r)] \in Rows
    BY <1>2 DEF Basics, AccountTypes
  <2>2. saved \in Rows
    BY <2>1 DEF Rows
  <2>3. row' = [row EXCEPT ![Email(r)] = saved] \/ row' = row
    BY DEF Save
  <2> HIDE DEF saved
  <2> QED
    BY <2>2, <2>3 DEF Basics, AccountTypes
<1>4. Basics'
  BY <1>1, <1>3 DEF Basics, AccountTypes, Steps, Working
<1>5. RegistrationInv'
  BY <1>1, RegisteredKept
<1>6. \A q \in Requests : at'[q] = IF q = r THEN step ELSE at[q]
  BY DEF Basics, AccountTypes
<1>7. Updating(r)' /\ \A q \in Requests : Updating(q) => Updating(q)'
  BY <1>6 DEF Updating
<1>8. ReadersFollow'
  <2> SUFFICES ASSUME NEW p \in Requests, at'[p] = "fill", p \notin overtaken'
               PROVE  \/ seen'[p] = row'[Email(p)']
                      \/ \E q \in Requests : Email(q)' = Email(p)' /\ Updating(q)'
    BY DEF ReadersFollow
  <2>1. CASE Email(p) = Email(r)
    BY <1>1, <1>7, <2>1
  <2>2. CASE Email(p) # Email(r)
    BY <1>1, <1>3, <1>6, <1>7, <2>2 DEF ProfileInv, ReadersFollow, Basics, Named
  <2> QED
    BY <2>1, <2>2
<1>9. StaleOnlyByLateFill'
  <2> SUFFICES ASSUME NEW e \in Emails, cached'[e] \notin {NoEntry, row'[e]}, e \notin unsafe'
               PROVE  \E q \in Requests : Email(q)' = e /\ Updating(q)'
    BY DEF StaleOnlyByLateFill, Updating
  <2>1. CASE e = Email(r)
    BY <1>1, <1>7, <2>1
  <2>2. CASE e # Email(r)
    BY <1>1, <1>3, <1>7, <2>2 DEF ProfileInv, StaleOnlyByLateFill, Updating
  <2> QED
    BY <2>1, <2>2
<1> QED
  BY <1>4, <1>5, <1>8, <1>9 DEF ProfileInv

(* An update that ends, well or not: the readers on their way are          *)
(* overtaken, and the entry is gone or known to be unsafe.                 *)
LEMMA UpdateEndsInv ==
  ASSUME AccountsInv, NEW r \in Requests, NEW outcome \in {"updated", "failed"},
         Updating(r), at' = [at EXCEPT ![r] = outcome],
         overtaken' = overtaken \cup Readers(Email(r)),
         \/ /\ cached' = [cached EXCEPT ![Email(r)] = NoEntry]
            /\ unsafe' = unsafe \ {Email(r)}
         \/ cached' = cached /\ unsafe' = unsafe \cup {Email(r)},
         UNCHANGED <<account, welcomed, row, seen, asked>>
  PROVE  AccountsInv'
<1> USE DEF AccountsInv
<1>1. Named' /\ \A q \in Requests : Email(q)' = Email(q)
  BY NamedKept DEF Basics, Updating
<1>2. Email(r) \in Emails
  BY DEF Basics, Named, Updating
<1>3. Basics'
  <2>1. at' \in [Requests -> Steps] /\ overtaken' \subseteq Requests
    BY DEF Basics, AccountTypes, Steps, Ended, Readers
  <2>2. cached' \in [Emails -> Rows \cup {NoEntry}] /\ unsafe' \subseteq Emails
    BY <1>2 DEF Basics, AccountTypes
  <2> QED
    BY <1>1, <2>1, <2>2 DEF Basics, AccountTypes
<1>4. RegistrationInv'
  BY <1>1, RegisteredKept DEF Updating
<1>5. \A q \in Requests : at'[q] = IF q = r THEN outcome ELSE at[q]
  BY DEF Basics, AccountTypes
<1>6. \A q \in Requests : q # r => (Updating(q)' <=> Updating(q))
  BY <1>5 DEF Updating
<1>7. ReadersFollow'
  <2> SUFFICES ASSUME NEW p \in Requests, at'[p] = "fill", p \notin overtaken'
               PROVE  \/ seen'[p] = row'[Email(p)']
                      \/ \E q \in Requests : Email(q)' = Email(p)' /\ Updating(q)'
    BY DEF ReadersFollow
  <2>1. at[p] = "fill" /\ p \notin overtaken /\ Email(p) # Email(r)
    BY <1>5 DEF Readers
  <2>2. seen[p] = row[Email(p)] \/ \E q \in Requests : Email(q) = Email(p) /\ Updating(q)
    BY <2>1 DEF ProfileInv, ReadersFollow
  <2> QED
    BY <1>1, <1>6, <2>1, <2>2
<1>8. StaleOnlyByLateFill'
  <2> SUFFICES ASSUME NEW e \in Emails, cached'[e] \notin {NoEntry, row'[e]}, e \notin unsafe'
               PROVE  \E q \in Requests : Email(q)' = e /\ Updating(q)'
    BY DEF StaleOnlyByLateFill, Updating
  <2>1. e # Email(r) /\ cached'[e] = cached[e] /\ e \notin unsafe
    BY <1>2 DEF Basics, AccountTypes
  <2>2. \E q \in Requests : Email(q) = e /\ Updating(q)
    BY <2>1 DEF ProfileInv, StaleOnlyByLateFill, Updating
  <2> QED
    BY <1>1, <1>6, <2>1, <2>2
<1> QED
  BY <1>3, <1>4, <1>7, <1>8 DEF ProfileInv

(* A failure anywhere else. *)
LEMMA FailInv ==
  ASSUME AccountsInv, NEW r \in Requests, Fail(r)
  PROVE  AccountsInv'
<1> USE DEF AccountsInv
<1>1. /\ at[r] \in Working /\ at' = [at EXCEPT ![r] = "failed"]
      /\ UNCHANGED <<account, welcomed, row, cached, seen, asked>>
  BY DEF Fail, GoTo, tables
<1>2. CASE Updating(r)
  BY <1>1, <1>2, UpdateEndsInv DEF Fail, Updating
<1>3. CASE ~Updating(r)
  <2>1. UNCHANGED <<overtaken, unsafe>>
    BY <1>3 DEF Fail, Updating
  <2>2. at[r] \notin {"idle", "filed", "marked", "registered", "failed"}
    BY <1>1 DEF Working
  <2>3. Named' /\ \A q \in Requests : Email(q)' = Email(q)
    BY <1>1, <2>2, NamedKept DEF Basics
  <2>4. Basics'
    BY <1>1, <2>1, <2>3 DEF Basics, AccountTypes, Steps, Ended
  <2>5. RegistrationInv'
    BY <1>1, <2>2, <2>3, RegisteredKept
  <2>6. ProfileInv'
    BY <1>1, <1>3, <2>1, <2>3, CachedKept
  <2> QED
    BY <2>4, <2>5, <2>6
<1> QED
  BY <1>2, <1>3

-----------------------------------------------------------------------------
(* Every step of a request. *)
LEMMA StepInv ==
  ASSUME AccountsInv, NEW r \in Requests, AccountsStep(r)
  PROVE  AccountsInv'
<1>1. ASSUME LookUp(r) PROVE AccountsInv'
  <2>1. PICK step \in {"query", "served"} : at' = [at EXCEPT ![r] = step]
    BY <1>1 DEF LookUp, GoTo
  <2> QED
    BY <1>1, <2>1, LookUpInv DEF LookUp, profiles
<1>2. ASSUME SaveUser(r) PROVE AccountsInv'
  <2>1. PICK step \in {"savePreferences", "purge"} : at' = [at EXCEPT ![r] = step]
    BY <1>2 DEF SaveUser, GoTo
  <2>2. "phone" \in Fields
    BY DEF Fields
  <2> QED
    BY <1>2, <2>1, <2>2, SaveInv DEF SaveUser
<1>3. ASSUME SavePreferences(r) PROVE AccountsInv'
  <2>1. "preferences" \in Fields
    BY DEF Fields
  <2> QED
    BY <1>3, <2>1, SaveInv DEF SavePreferences, GoTo
<1>4. ASSUME NEW outcome \in {"updated", "failed"}, Purge(r, outcome) PROVE AccountsInv'
  BY <1>4, UpdateEndsInv DEF Purge, GoTo, tables, Updating
<1> QED
  BY <1>1, <1>2, <1>3, <1>4, CheckEmailInv, CreateUserInv, PublishRegisteredInv, QueryInv,
     FillInv, FailInv DEF AccountsStep

(* A request that is for another service. *)
LEMMA ElsewhereInv ==
  ASSUME AccountsInv, NEW r \in Requests, at[r] = "idle",
         NEW outcome \in {"filed", "marked", "failed"}, GoTo(r, outcome),
         UNCHANGED <<tables, cached, seen, overtaken, unsafe, asked>>
  PROVE  AccountsInv'
<1> USE DEF AccountsInv
<1>1. /\ at' = [at EXCEPT ![r] = outcome]
      /\ UNCHANGED <<account, welcomed, row, cached, seen, overtaken, unsafe, asked>>
  BY DEF GoTo, tables
<1>2. \A q \in Requests : Email(q)' = Email(q)
  BY <1>1 DEF Email
<1>3. Basics'
  BY <1>1, <1>2 DEF Basics, AccountTypes, Steps, Ended, Named
<1>4. RegistrationInv'
  BY <1>1, <1>2, RegisteredKept
<1>5. ProfileInv'
  BY <1>1, <1>2, CachedKept DEF Updating
<1> QED
  BY <1>3, <1>4, <1>5

(* The invariant of registration and profiles. *)
THEOREM AccountsInvariance == AccountsSpec => []AccountsInv
<1>1. ASSUME AccountsInv, [AccountsNext]_accountVars PROVE AccountsInv'
  <2>1. CASE UNCHANGED accountVars
    BY <1>1, <2>1 DEF accountVars, AccountsInv, Basics, AccountTypes, Named, RegistrationInv,
       MadeByPublisher, RegistrationTells, ProfileInv, ReadersFollow, StaleOnlyByLateFill,
       Updating, Email
  <2>2. ASSUME NEW r \in Requests, NEW e \in Emails,
               \/ CallRegister(r, e) \/ CallProfile(r, e) \/ RefuseUpdate(r, e)
               \/ \E fields \in SUBSET Fields : CallUpdate(r, e, fields)
        PROVE  AccountsInv'
    <3>1. {} \in SUBSET Fields
      OBVIOUS
    <3> QED
      BY <1>1, <2>2, <3>1, BeginInv DEF CallRegister, CallProfile, RefuseUpdate, CallUpdate
  <2> QED
    BY <1>1, <2>1, <2>2, StepInv, EntryExpiresInv DEF AccountsNext
<1> QED
  BY <1>1, AccountsInvInit, PTL DEF AccountsSpec

(* What an answer to a registration is worth, for any number of requests   *)
(* for any addresses (auth.controller.ts:24-49).                           *)
THEOREM RegistrationAnswersAreTrue == AccountsSpec => []RegistrationTells
<1>1. AccountsInv => RegistrationTells
  BY DEF AccountsInv, RegistrationInv
<1> QED
  BY <1>1, AccountsInvariance, PTL

(* Where a stale profile can come from, for any number of readers and      *)
(* updates (user.service.ts:15-41, 56-91).                                 *)
THEOREM ProfilesAreFresh == AccountsSpec => []StaleOnlyByLateFill
<1>1. AccountsInv => StaleOnlyByLateFill
  BY DEF AccountsInv, ProfileInv
<1> QED
  BY <1>1, AccountsInvariance, PTL

-----------------------------------------------------------------------------
(* CitizenDesk. *)

Inboxes == [Times -> {"none", "unread", "read"}]

Errands == [kind : {"none", "submit", "mark", "profile"}, item : Times \cup {None}]

DeskTypes ==
  /\ page \in [name : {"register", "login", "form", "other"}, request : Requests \cup {None}]
  /\ errand \in [Requests -> Errands]
  /\ attempts \subseteq Requests /\ filed \subseteq Requests /\ acked \subseteq Times
  /\ DOMAIN about = Times /\ inbox \in Inboxes /\ shown \in Inboxes
  /\ fetch \in Polls \cup {None}
  /\ answer \in [Polls -> Inboxes \cup {NoAnswer}]
  /\ DOMAIN gate = Callers /\ DOMAIN at = Requests

(* The only submission not reported as failed is the pending one. *)
OnePending == attempts \ told \subseteq {page.request}

(* Rows shown are rows of the log, and those shown as read have been read. *)
Backed(rows) ==
  \A t \in Times :
    /\ rows[t] # "none" => inbox[t] # "none"
    /\ rows[t] = "read" => inbox[t] = "read"

(* Nothing tells of a complaint that was not filed. *)
NewsIsTrue ==
  /\ \A t \in Times : inbox[t] # "none" => about[t] \in filed \cup {Citizen}
  /\ Backed(shown)
  /\ \A p \in Polls : answer[p] # NoAnswer => Backed(answer[p])

(* A fetch is answered once it is past the limiter. *)
AnswersPast == \A p \in Polls : answer[p] # NoAnswer => gate[p] \in {"past", "lost"}

(* The marking of a row that exists, and whether it is done. *)
MarksTell ==
  \A r \in Requests :
    errand[r].kind = "mark" =>
      /\ errand[r].item \in Times /\ inbox[errand[r].item] # "none"
      /\ at[r] = "marked" => inbox[errand[r].item] = "read"

(* What was marked is read in the log, and in the answer that the bell     *)
(* waits for.                                                              *)
AcksTell ==
  \A t \in acked :
    /\ inbox[t] = "read"
    /\ fetch # None /\ answer[fetch] # NoAnswer => answer[fetch][t] # "unread"

DeskInv ==
  /\ DeskTypes /\ OnePending /\ NewsIsTrue /\ AnswersPast /\ MarksTell /\ AcksTell
  /\ MarkedShownRead

LEMMA DeskInvInit == Init => DeskInv
<1> SUFFICES ASSUME Init PROVE DeskInv
  OBVIOUS
<1>1. DeskTypes
  BY DEF Init, DeskTypes, Errands, Inboxes, NoErrand, Nothing, LimiterInit, AccountsInit
<1>2. OnePending /\ AnswersPast /\ AcksTell /\ MarkedShownRead
  BY DEF Init, OnePending, AnswersPast, AcksTell, MarkedShownRead
<1>3. NewsIsTrue
  BY DEF Init, NewsIsTrue, Backed, Nothing
<1>4. MarksTell
  BY DEF Init, MarksTell, NoErrand
<1> QED
  BY <1>1, <1>2, <1>3, <1>4 DEF DeskInv

(* No step but the end of a fetch takes a request back from the limiter. *)
GatesStay ==
  /\ DOMAIN gate' = Callers
  /\ \A p \in Polls : gate[p] \in {"past", "lost"} => gate'[p] \in {"past", "lost"}

(* The bell and the services rest; a request may begin an errand other     *)
(* than a mark.                                                            *)
LEMMA BellRests ==
  ASSUME DeskInv, DeskTypes', OnePending', GatesStay,
         UNCHANGED <<filed, logVars, bellVars, acked>>,
         \A r \in Requests : errand'[r] = errand[r] \/ errand'[r].kind # "mark",
         \A r \in Requests : at'[r] = "marked" => at[r] = "marked"
  PROVE  DeskInv'
<1>1. UNCHANGED <<filed, about, inbox, fetch, answer, shown, behind, acked>>
  BY DEF bellVars, logVars
<1>2. AnswersPast'
  BY <1>1 DEF DeskInv, AnswersPast, GatesStay
<1>3. MarksTell'
  BY <1>1 DEF DeskInv, MarksTell
<1>4. NewsIsTrue' /\ AcksTell' /\ MarkedShownRead'
  BY <1>1 DEF DeskInv, NewsIsTrue, Backed, AcksTell, MarkedShownRead
<1> QED
  BY <1>2, <1>3, <1>4 DEF DeskInv

(* The page moves on. *)
LEMMA FreshPage ==
  ASSUME NEW name \in {"register", "login", "form", "other"}, GoToPage(name)
  PROVE  /\ page' \in [name : {"register", "login", "form", "other"}, request : Requests \cup {None}]
         /\ attempts' \subseteq Requests /\ OnePending'
BY DEF GoToPage, OnePending

LEMMA CallerFacts ==
  /\ Requests \subseteq Callers /\ Polls \subseteq Callers
  /\ \A r \in Requests : r \notin Polls
  /\ None \notin Requests /\ None \notin Polls
BY CallersAssumption, NoPollAssumption, NoneAssumption
DEF CallersAssumption, NoPollAssumption, NoneAssumption

LEMMA ArriveGates ==
  ASSUME DeskTypes, NEW c \in Callers, Arrive(c)
  PROVE  /\ GatesStay /\ gate[c] = "out" /\ gate'[c] = "incr"
         /\ \A d \in Callers : d # c => gate'[d] = gate[d]
BY CallerFacts DEF Arrive, DeskTypes, GatesStay

(* A request that begins an errand. *)
LEMMA AskFacts ==
  ASSUME DeskTypes, NEW r \in Requests, NEW kind \in {"submit", "mark", "profile"},
         NEW item \in Times \cup {None}, Ask(r, kind, item)
  PROVE  /\ errand' \in [Requests -> Errands] /\ GatesStay
         /\ errand'[r].kind = kind /\ errand'[r].item = item
         /\ \A q \in Requests : q # r => errand'[q] = errand[q]
         /\ at[r] = "idle"
<1>1. /\ errand' = [errand EXCEPT ![r] = [kind |-> kind, item |-> item]]
      /\ Arrive(r) /\ at[r] = "idle"
  BY DEF Ask, Unused
<1>2. GatesStay
  BY <1>1, ArriveGates, CallerFacts
<1> QED
  BY <1>1, <1>2 DEF DeskTypes, Errands

(* A step of user-service answers no mark. *)
LEMMA AccountsLeaveMarks ==
  ASSUME DOMAIN at = Requests, NEW r \in Requests,
         AccountsStep(r) \/ \E e, fields, step : Begin(r, e, fields, step) /\ step # "marked"
  PROVE  DOMAIN at' = Requests /\ \A q \in Requests : at'[q] = "marked" => at[q] = "marked"
<1>1. ASSUME NEW step, GoTo(r, step), step # "marked"
      PROVE  DOMAIN at' = Requests /\ \A q \in Requests : at'[q] = "marked" => at[q] = "marked"
  BY <1>1 DEF GoTo
<1>2. CASE AccountsStep(r)
  <2>1. \E step : GoTo(r, step) /\ step # "marked"
    BY <1>2 DEF AccountsStep, CheckEmail, CreateUser, LookUp, Query, SaveUser, SavePreferences,
                Fail, PublishRegistered, Fill, Purge
  <2> QED
    BY <1>1, <2>1
<1> QED
  BY <1>1, <1>2 DEF Begin

LEMMA PagesInv ==
  ASSUME DeskInv, NEW r \in Requests,
         \/ Register(r) \/ Registered(r) \/ Submit(r) \/ Submitted(r) \/ SubmitFailed(r)
         \/ MarkFailed(r) \/ AskProfile(r)
  PROVE  DeskInv'
<1> USE DEF DeskInv
<1>1. UNCHANGED <<filed, logVars, bellVars, acked>>
  BY DEF Register, Registered, Submit, Submitted, SubmitFailed, MarkFailed, AskProfile
<1>2. UNCHANGED gate => GatesStay
  BY DEF GatesStay, DeskTypes
<1>3. CASE Register(r)
  <2>1. Begin(r, Citizen, {}, "checkEmail") /\ UNCHANGED <<gate, errand, attempts, told>>
    BY <1>3 DEF Register, CallRegister, limiterVars
  <2>2. DOMAIN at' = Requests /\ \A q \in Requests : at'[q] = "marked" => at[q] = "marked"
    BY <2>1, AccountsLeaveMarks DEF DeskTypes
  <2>3. page.request = None /\ page' = [page EXCEPT !.request = r]
    BY <1>3 DEF Register
  <2>4. OnePending'
    BY <2>1, <2>3, CallerFacts DEF OnePending, DeskTypes
  <2>5. DeskTypes'
    BY <1>1, <2>1, <2>2, <2>3 DEF DeskTypes, bellVars, logVars
  <2> QED
    BY <1>1, <1>2, <2>1, <2>2, <2>4, <2>5, BellRests
<1>4. CASE Submit(r)
  <2>1. /\ page.request = None /\ page' = [page EXCEPT !.request = r]
        /\ Ask(r, "submit", None) /\ attempts' = attempts \cup {r} /\ UNCHANGED <<at, told>>
    BY <1>4 DEF Submit, accountVars
  <2>2. OnePending'
    BY <2>1, CallerFacts DEF OnePending, DeskTypes
  <2>3. errand' \in [Requests -> Errands] /\ GatesStay /\ errand'[r].kind = "submit"
        /\ \A q \in Requests : q # r => errand'[q] = errand[q]
    BY <2>1, AskFacts
  <2>4. DeskTypes'
    BY <1>1, <2>1, <2>3 DEF DeskTypes, bellVars, logVars, GatesStay
  <2> QED
    BY <1>1, <2>1, <2>2, <2>3, <2>4, BellRests
<1>5. CASE AskProfile(r)
  <2>1. Ask(r, "profile", None) /\ UNCHANGED <<at, page, attempts, told>>
    BY <1>5 DEF AskProfile, accountVars
  <2>2. errand' \in [Requests -> Errands] /\ GatesStay /\ errand'[r].kind = "profile"
        /\ \A q \in Requests : q # r => errand'[q] = errand[q]
    BY <2>1, AskFacts
  <2>3. DeskTypes' /\ OnePending'
    BY <1>1, <2>1, <2>2 DEF DeskTypes, bellVars, logVars, GatesStay, OnePending
  <2> QED
    BY <1>1, <2>1, <2>2, <2>3, BellRests
<1>6. CASE Registered(r) \/ Submitted(r)
  <2>1. UNCHANGED <<at, gate, errand>>
    BY <1>6 DEF Registered, Submitted, accountVars, limiterVars
  <2>2. PICK name \in {"register", "login", "form", "other"} : GoToPage(name)
    BY <1>6 DEF Registered, Submitted
  <2>3. DeskTypes' /\ OnePending'
    BY <1>1, <2>1, <2>2, FreshPage DEF DeskTypes, bellVars, logVars
  <2> QED
    BY <1>1, <1>2, <2>1, <2>3, BellRests
<1>7. CASE SubmitFailed(r) \/ MarkFailed(r)
  <2>1. UNCHANGED <<at, gate, errand, attempts>>
    BY <1>7 DEF SubmitFailed, MarkFailed, accountVars, limiterVars
  <2>2. \/ UNCHANGED <<page, told>>
        \/ page.request = r /\ page' = [page EXCEPT !.request = None] /\ told' = told \cup {r}
    BY <1>7 DEF SubmitFailed, MarkFailed
  <2>3. DeskTypes' /\ OnePending'
    BY <1>1, <2>1, <2>2 DEF DeskTypes, bellVars, logVars, OnePending
  <2> QED
    BY <1>1, <1>2, <2>1, <2>3, BellRests
<1> QED
  BY <1>3, <1>4, <1>5, <1>6, <1>7

(* The menu, and an item of the bell that is read already. *)
LEMMA WalkInv ==
  ASSUME DeskInv,
         \/ \E name \in {"register", "login", "form", "other"} : Navigate(name)
         \/ \E t \in Times : Follow(t)
  PROVE  DeskInv'
<1> USE DEF DeskInv
<1>1. UNCHANGED <<filed, logVars, bellVars, acked>>
  BY DEF Navigate, Follow
<1>2. UNCHANGED <<at, gate, errand>>
  BY DEF Navigate, Follow, accountVars, limiterVars
<1>3. \/ UNCHANGED <<page, attempts, told>>
      \/ \E name \in {"register", "login", "form", "other"} : GoToPage(name)
  BY DEF Navigate, Follow, GoToComplaint
<1>4. OnePending'
  BY <1>3, FreshPage DEF OnePending
<1>5. DeskTypes'
  BY <1>1, <1>2, <1>3, FreshPage DEF DeskTypes, bellVars, logVars
<1>6. GatesStay
  BY <1>2 DEF GatesStay, DeskTypes
<1> QED
  BY <1>1, <1>2, <1>4, <1>5, <1>6, BellRests

(* The limiter and user-service work on. *)
LEMMA ServersInv ==
  ASSUME DeskInv, LimiterStep \/ Die \/ UserService \/ \E r \in Requests : Profile(r)
  PROVE  DeskInv'
<1> USE DEF DeskInv
<1>1. UNCHANGED <<filed, logVars, bellVars, acked, pageVars>>
  BY DEF LimiterStep, Die, UserService, Profile
<1>2. UNCHANGED <<page, errand, attempts, told>>
  BY <1>1 DEF pageVars
<1>3. GatesStay
  <2>1. CASE LimiterStep
    BY <2>1, CallerFacts DEF LimiterStep, Incr, SetExpiry, WindowEnds, Judge, Verdict, IsFirst,
                GatesStay, DeskTypes
  <2>2. CASE Die
    BY <2>2, CallerFacts DEF Die, GatewayDies, GatesStay, DeskTypes
  <2>3. CASE UNCHANGED gate
    BY <2>3 DEF GatesStay, DeskTypes
  <2> QED
    BY <2>1, <2>2, <2>3 DEF UserService, Profile, limiterVars
<1>4. DOMAIN at' = Requests /\ \A q \in Requests : at'[q] = "marked" => at[q] = "marked"
  <2>1. CASE UNCHANGED at
    BY <2>1 DEF DeskTypes
  <2>2. ASSUME NEW r \in Requests, AccountsStep(r)
        PROVE  DOMAIN at' = Requests /\ \A q \in Requests : at'[q] = "marked" => at[q] = "marked"
    BY <2>2, AccountsLeaveMarks DEF DeskTypes
  <2>3. ASSUME NEW r \in Requests, Profile(r)
        PROVE  DOMAIN at' = Requests /\ \A q \in Requests : at'[q] = "marked" => at[q] = "marked"
    <3>1. \E e, fields, step : Begin(r, e, fields, step) /\ step # "marked"
      BY <2>3 DEF Profile, CallProfile, RefuseUpdate, CallUpdate, CallRegister
    <3> QED
      BY <3>1, AccountsLeaveMarks DEF DeskTypes
  <2> QED
    BY <2>1, <2>2, <2>3 DEF LimiterStep, Die, UserService, EntryExpires, accountVars
<1>5. DeskTypes' /\ OnePending'
  BY <1>1, <1>2, <1>3, <1>4 DEF DeskTypes, OnePending, bellVars, logVars, GatesStay
<1> QED
  BY <1>1, <1>2, <1>3, <1>4, <1>5, BellRests

(* complaint-service and notification-service: what they file, notify and  *)
(* mark only adds to what the bell may tell.                               *)
LEMMA LogGrows ==
  ASSUME DeskInv, UNCHANGED <<limiterVars, pageVars, bellVars, acked>>,
         filed \subseteq filed', filed' \subseteq Requests,
         DOMAIN about' = Times, inbox' \in Inboxes,
         DOMAIN at' = Requests,
         \A t \in Times : inbox'[t] # "none" => about'[t] \in filed' \cup {Citizen},
         \A t \in Times : inbox[t] # "none" => inbox'[t] # "none",
         \A t \in Times : inbox[t] = "read" => inbox'[t] = "read",
         \A r \in Requests : errand[r].kind = "mark" /\ at'[r] = "marked" =>
           at[r] = "marked" \/ inbox'[errand[r].item] = "read"
  PROVE  DeskInv'
<1> USE DEF DeskInv
<1>1. UNCHANGED <<gate, page, errand, attempts, told, fetch, answer, shown, behind, acked>>
  BY DEF limiterVars, pageVars, bellVars
<1>2. DeskTypes' /\ OnePending' /\ AnswersPast' /\ MarkedShownRead'
  BY <1>1 DEF DeskTypes, OnePending, AnswersPast, MarkedShownRead
<1>3. NewsIsTrue'
  BY <1>1 DEF NewsIsTrue, Backed
<1>4. MarksTell'
  BY <1>1 DEF MarksTell, DeskTypes
<1>5. AcksTell'
  BY <1>1 DEF AcksTell, DeskTypes
<1> QED
  BY <1>2, <1>3, <1>4, <1>5

(* A row for a complaint filed, or for the citizen's account. *)
LEMMA SaveRowInv ==
  ASSUME DeskInv, UNCHANGED <<at, filed, limiterVars, pageVars, bellVars, acked>>,
         NEW n \in filed \cup {Citizen}, NEW t \in Times, SaveRow(t, n)
  PROVE  DeskInv'
<1> USE DEF DeskInv
<1>1. /\ inbox[t] = "none"
      /\ about' = [about EXCEPT ![t] = n] /\ inbox' = [inbox EXCEPT ![t] = "unread"]
  BY DEF SaveRow, Free
<1>2. /\ inbox' \in Inboxes /\ DOMAIN about' = Times
      /\ \A u \in Times : u # t => inbox'[u] = inbox[u] /\ about'[u] = about[u]
      /\ inbox'[t] = "unread" /\ about'[t] = n
  BY <1>1 DEF DeskTypes, Inboxes
<1>3. /\ \A u \in Times : inbox'[u] # "none" => about'[u] \in filed' \cup {Citizen}
      /\ \A u \in Times : inbox[u] # "none" => inbox'[u] # "none"
      /\ \A u \in Times : inbox[u] = "read" => inbox'[u] = "read"
  BY <1>1, <1>2 DEF NewsIsTrue
<1> QED
  BY <1>2, <1>3, LogGrows DEF DeskTypes

LEMMA ServicesInv ==
  ASSUME DeskInv, NEW r \in Requests,
         \/ \E outcome \in {"filed", "failed"} : File(r, outcome)
         \/ \E outcome \in {"marked", "failed"} : Mark(r, outcome)
  PROVE  DeskInv'
<1> USE DEF DeskInv
<1>1. UNCHANGED <<limiterVars, pageVars, bellVars, acked>>
  BY DEF File, Mark, Reply
<1>2. ASSUME NEW outcome, Reply(r, outcome)
      PROVE  /\ DOMAIN at' = Requests /\ at'[r] = outcome
             /\ \A q \in Requests : q # r => at'[q] = at[q]
  BY <1>2 DEF Reply, GoTo, DeskTypes
<1>3. ASSUME NEW outcome \in {"filed", "failed"}, File(r, outcome) PROVE DeskInv'
  <2>1. /\ Reply(r, outcome) /\ UNCHANGED <<about, inbox>> /\ errand[r].kind = "submit"
        /\ filed' \in {filed \cup {r}, filed}
    BY <1>3 DEF File, Came, logVars
  <2> QED
    BY <1>1, <1>2, <2>1, LogGrows DEF DeskTypes, NewsIsTrue
<1>4. ASSUME NEW outcome \in {"marked", "failed"}, Mark(r, outcome) PROVE DeskInv'
  <2>1. /\ Reply(r, outcome) /\ UNCHANGED <<filed, about>> /\ errand[r].kind = "mark"
        /\ \/ inbox' = [inbox EXCEPT ![errand[r].item] = "read"]
           \/ outcome = "failed" /\ UNCHANGED inbox
    BY <1>4 DEF Mark, Came
  <2>2. errand[r].item \in Times /\ inbox[errand[r].item] # "none"
    BY <2>1 DEF MarksTell
  <2>3. /\ inbox' \in Inboxes
        /\ \A t \in Times : inbox'[t] # "none" => inbox[t] # "none"
        /\ \A t \in Times : inbox[t] # "none" => inbox'[t] # "none"
        /\ \A t \in Times : inbox[t] = "read" => inbox'[t] = "read"
        /\ outcome = "marked" => inbox'[errand[r].item] = "read"
    BY <2>1, <2>2 DEF DeskTypes, Inboxes
  <2>4. \A q \in Requests : errand[q].kind = "mark" /\ at'[q] = "marked" =>
          at[q] = "marked" \/ inbox'[errand[q].item] = "read"
    BY <1>2, <2>1, <2>3
  <2>5. \A t \in Times : inbox'[t] # "none" => about'[t] \in filed' \cup {Citizen}
    BY <2>1, <2>3 DEF NewsIsTrue
  <2> QED
    BY <1>1, <1>2, <2>1, <2>3, <2>4, <2>5, LogGrows DEF DeskTypes
<1> QED
  BY <1>3, <1>4

(* Events reach notification-service, or are lost. *)
LEMMA NoticesInv ==
  ASSUME DeskInv,
         \/ \E n \in Requests : Notify(n) \/ NotifyFails(n)
         \/ \E n \in Requests \cup {Citizen} : NotifyMore(n)
  PROVE  DeskInv'
<1>1. UNCHANGED <<at, filed, limiterVars, pageVars, bellVars, acked>>
  BY DEF Notify, NotifyFails, NotifyMore, accountVars
<1>2. CASE UNCHANGED <<about, inbox>>
  BY <1>1, <1>2, LogGrows DEF DeskInv, DeskTypes, NewsIsTrue
<1>3. ASSUME NEW n \in filed \cup {Citizen}, NEW t \in Times, SaveRow(t, n) PROVE DeskInv'
  BY <1>1, <1>3, SaveRowInv
<1> QED
  BY <1>2, <1>3 DEF Notify, NotifyFails, NotifyMore

LEMMA ClickInv ==
  ASSUME DeskInv, NEW r \in Requests, NEW t \in Times, Click(r, t)
  PROVE  DeskInv'
<1> USE DEF DeskInv
<1>1. /\ UNCHANGED <<at, filed, about, inbox, fetch, answer, shown, behind, acked>>
      /\ Ask(r, "mark", t)
      /\ GoToPage("other") \/ UNCHANGED <<page, attempts, told>>
  BY DEF Click, GoToComplaint, accountVars, bellVars, logVars
<1>2. inbox[t] # "none"
  BY DEF Click, Listed, Newest, NewsIsTrue, Backed
<1>3. /\ errand' \in [Requests -> Errands] /\ GatesStay /\ at[r] = "idle"
      /\ errand'[r].kind = "mark" /\ errand'[r].item = t
      /\ \A q \in Requests : q # r => errand'[q] = errand[q]
  BY <1>1, AskFacts
<1>4. OnePending'
  BY <1>1, FreshPage DEF OnePending
<1>5. DeskTypes'
  BY <1>1, <1>3, FreshPage DEF DeskTypes, GatesStay
<1>6. AnswersPast' /\ NewsIsTrue' /\ AcksTell' /\ MarkedShownRead'
  BY <1>1, <1>3 DEF AnswersPast, GatesStay, NewsIsTrue, Backed, AcksTell, MarkedShownRead
<1>7. MarksTell'
  BY <1>1, <1>2, <1>3 DEF MarksTell
<1> QED
  BY <1>4, <1>5, <1>6, <1>7

(* A fetch leaves; it has no answer yet. *)
LEMMA PollInv ==
  ASSUME DeskInv, NEW p \in Polls, Poll(p)
  PROVE  DeskInv'
<1> USE DEF DeskInv
<1>1. /\ UNCHANGED <<at, page, errand, attempts, told, filed, about, inbox, answer, shown, behind, acked>>
      /\ Arrive(p) /\ fetch' = p
  BY DEF Poll, StartFetch, accountVars, pageVars, logVars
<1>2. GatesStay /\ answer[p] = NoAnswer
  BY <1>1, ArriveGates, CallerFacts DEF AnswersPast
<1>3. DeskTypes' /\ OnePending'
  BY <1>1, <1>2 DEF DeskTypes, OnePending, GatesStay
<1>4. AnswersPast' /\ NewsIsTrue' /\ MarksTell' /\ AcksTell' /\ MarkedShownRead'
  BY <1>1, <1>2, CallerFacts
  DEF AnswersPast, GatesStay, NewsIsTrue, Backed, MarksTell, AcksTell, MarkedShownRead
<1> QED
  BY <1>3, <1>4

LEMMA MarkedInv ==
  ASSUME DeskInv, NEW r \in Requests, NEW p \in Polls, Marked(r, p)
  PROVE  DeskInv'
<1> USE DEF DeskInv
<1>1. /\ UNCHANGED <<at, page, errand, attempts, told, filed, about, inbox, answer, shown, behind>>
      /\ errand[r].kind = "mark" /\ at[r] = "marked"
      /\ acked' = acked \cup {errand[r].item} /\ Arrive(p) /\ fetch' = p
  BY DEF Marked, Came, Refetch, StartFetch, accountVars, logVars
<1>2. GatesStay /\ answer[p] = NoAnswer
  BY <1>1, ArriveGates, CallerFacts DEF AnswersPast
<1>3. errand[r].item \in Times /\ inbox[errand[r].item] = "read"
  BY <1>1 DEF MarksTell, DeskTypes
<1>4. DeskTypes' /\ OnePending'
  BY <1>1, <1>2, <1>3 DEF DeskTypes, OnePending, GatesStay
<1>5. AnswersPast' /\ NewsIsTrue' /\ MarksTell' /\ AcksTell' /\ MarkedShownRead'
  BY <1>1, <1>2, <1>3, CallerFacts
  DEF AnswersPast, GatesStay, NewsIsTrue, Backed, MarksTell, AcksTell, MarkedShownRead
<1> QED
  BY <1>4, <1>5

(* The answer of a fetch is the latest of the log at that moment. *)
LEMMA ReadInboxInv ==
  ASSUME DeskInv, NEW p \in Polls, ReadInbox(p)
  PROVE  DeskInv'
<1> USE DEF DeskInv
<1> DEFINE rows == Newest(Take, inbox)
<1>1. /\ UNCHANGED <<at, gate, page, errand, attempts, told, filed, about, inbox, fetch, shown,
                     behind, acked>>
      /\ gate[p] = "past" /\ answer' = [answer EXCEPT ![p] = rows]
  BY DEF ReadInbox, accountVars, limiterVars, pageVars, logVars
<1>2. rows \in Inboxes /\ \A t \in Times : rows[t] \in {inbox[t], "none"}
  BY DEF Newest, DeskTypes, Inboxes
<1> HIDE DEF rows
<1>3. answer'[p] = rows /\ \A q \in Polls : q # p => answer'[q] = answer[q]
  BY <1>1 DEF DeskTypes
<1>4. DeskTypes' /\ OnePending' /\ MarksTell' /\ MarkedShownRead'
  BY <1>1, <1>2 DEF DeskTypes, OnePending, MarksTell, MarkedShownRead
<1>5. AnswersPast'
  BY <1>1, <1>3 DEF AnswersPast
<1>6. NewsIsTrue'
  <2>1. Backed(rows)'
    BY <1>1, <1>2 DEF Backed, Newest, rows
  <2> QED
    BY <1>1, <1>2, <1>3, <2>1 DEF NewsIsTrue, Backed
<1>7. AcksTell'
  BY <1>1, <1>2, <1>3 DEF AcksTell, DeskTypes
<1> QED
  BY <1>4, <1>5, <1>6, <1>7

(* The bell shows the answer it has waited for, or knows that it is behind.*)
LEMMA PollEndsInv ==
  ASSUME DeskInv, NEW p \in Polls, PollEnds(p)
  PROVE  DeskInv'
<1> USE DEF DeskInv
<1>1. /\ UNCHANGED <<at, page, errand, attempts, told, filed, about, inbox, acked>>
      /\ answer' = [answer EXCEPT ![p] = NoAnswer]
      /\ gate' = [gate EXCEPT ![p] = "out"]
      /\ gate[p] = "past" => answer[p] # NoAnswer
  BY DEF PollEnds, GoOut, accountVars, pageVars, logVars
<1>2. /\ answer'[p] = NoAnswer /\ \A q \in Polls : q # p => answer'[q] = answer[q]
      /\ \A q \in Polls : q # p => gate'[q] = gate[q]
  BY <1>1, CallerFacts DEF DeskTypes
<1>3. OnePending' /\ MarksTell'
  BY <1>1 DEF OnePending, MarksTell
<1>4. AnswersPast'
  BY <1>2 DEF AnswersPast
<1>5. CASE fetch # p
  <2>1. UNCHANGED <<fetch, shown, behind>>
    BY <1>5 DEF PollEnds
  <2>2. DeskTypes' /\ NewsIsTrue' /\ MarkedShownRead'
    BY <1>1, <1>2, <2>1 DEF DeskTypes, NewsIsTrue, Backed, MarkedShownRead
  <2>3. AcksTell'
    BY <1>1, <1>2, <2>1 DEF AcksTell, DeskTypes
  <2> QED
    BY <1>3, <1>4, <2>2, <2>3
<1>6. CASE fetch = p
  <2>1. /\ fetch' = None /\ behind' = (gate[p] # "past")
        /\ shown' = IF gate[p] = "past" THEN answer[p] ELSE shown
    BY <1>6 DEF PollEnds
  <2>2. gate[p] = "past" => answer[p] \in Inboxes
    BY <1>1 DEF DeskTypes
  <2>3. DeskTypes'
    BY <1>1, <2>1, <2>2 DEF DeskTypes
  <2>4. NewsIsTrue'
    BY <1>1, <1>2, <2>1 DEF NewsIsTrue, Backed
  <2>5. AcksTell'
    BY <1>1, <2>1 DEF AcksTell
  <2>6. MarkedShownRead'
    BY <1>1, <1>6, <2>1, CallerFacts DEF MarkedShownRead, AcksTell
  <2> QED
    BY <1>3, <1>4, <2>3, <2>4, <2>5, <2>6
<1> QED
  BY <1>5, <1>6

LEMMA DeskNextInv ==
  ASSUME DeskInv, [Next]_vars
  PROVE  DeskInv'
<1>1. CASE UNCHANGED vars
  <2>1. UNCHANGED <<at, gate, page, errand, attempts, told, filed, about, inbox, fetch, answer, shown,
                    behind, acked>>
    BY <1>1 DEF vars, accountVars, limiterVars, pageVars, logVars, bellVars
  <2> QED
    BY <2>1 DEF DeskInv, DeskTypes, OnePending, NewsIsTrue, Backed, AnswersPast, MarksTell, AcksTell,
                MarkedShownRead
<1>2. CASE Next
  <2>1. CASE \/ \E name \in {"register", "login", "form", "other"} : Navigate(name)
             \/ \E t \in Times : Follow(t)
    BY <2>1, WalkInv
  <2>2. CASE \E r \in Requests :
               \/ Register(r) \/ Registered(r) \/ Submit(r) \/ Submitted(r) \/ SubmitFailed(r)
               \/ MarkFailed(r) \/ AskProfile(r)
    BY <2>2, PagesInv
  <2>3. CASE \E p \in Polls : Poll(p) \/ PollEnds(p) \/ ReadInbox(p)
    BY <2>3, PollInv, PollEndsInv, ReadInboxInv
  <2>4. CASE \E r \in Requests : \/ \E t \in Times : Click(r, t)
                                 \/ \E p \in Polls : Marked(r, p)
    BY <2>4, ClickInv, MarkedInv
  <2>5. CASE \E r \in Requests :
               \/ \E outcome \in {"filed", "failed"} : File(r, outcome)
               \/ \E outcome \in {"marked", "failed"} : Mark(r, outcome)
    BY <2>5, ServicesInv
  <2>6. CASE LimiterStep \/ Die \/ UserService \/ \E r \in Requests : Profile(r)
    BY <2>6, ServersInv
  <2>7. CASE \/ \E n \in Requests : Notify(n) \/ NotifyFails(n)
             \/ \E n \in Requests \cup {Citizen} : NotifyMore(n)
    BY <2>7, NoticesInv
  <2> QED
    BY <1>2, <2>1, <2>2, <2>3, <2>4, <2>5, <2>6, <2>7 DEF Next
<1> QED
  BY <1>1, <1>2

(* A set within a singleton has one element at most. *)
LEMMA WithinOne ==
  ASSUME NEW S, NEW x, S \subseteq {x}
  PROVE  Cardinality(S) <= 1
<1>1. CASE S = {}
  BY <1>1, FS_EmptySet
<1>2. CASE S # {}
  <2>1. S = {x}
    BY <1>2
  <2>2. Cardinality({x}) = 1
    BY FS_Singleton
  <2> QED
    BY <2>1, <2>2
<1> QED
  BY <1>1, <1>2

(* The pages of the citizen do not contradict what the services know: a    *)
(* form files one complaint, what was marked is shown as read and nothing  *)
(* else is, and no row tells of a complaint that was not filed, for any    *)
(* number of requests, fetches and rows, and any length of the list and of *)
(* the answers (ComplaintFormPage.tsx:42-70, useNotifications.ts:11-38).   *)
THEOREM TheDeskIsTruthful == Spec => []DeskTellsTheTruth
<1>1. DeskInv => DeskTellsTheTruth
  <2> SUFFICES ASSUME DeskInv PROVE DeskTellsTheTruth
    OBVIOUS
  <2>1. OneComplaintPerForm
    BY WithinOne DEF DeskInv, OnePending, OneComplaintPerForm
  <2>2. ShownIsTrue
    BY DEF DeskInv, NewsIsTrue, Backed, ShownIsTrue
  <2> QED
    BY <2>1, <2>2 DEF DeskInv, DeskTellsTheTruth
<1>2. Init => DeskInv
  BY DeskInvInit
<1>3. DeskInv /\ [Next]_vars => DeskInv'
  BY DeskNextInv
<1> QED
  BY <1>1, <1>2, <1>3, PTL DEF Spec

(* The desk uses the limiter as its own specification says, so that what   *)
(* is proved of it holds here.                                             *)
THEOREM TheDeskIsLimited == Spec => LimiterSpec
<1>1. Init => LimiterInit
  BY DEF Init
<1>2. [Next]_vars => [LimiterNext]_limiterVars
  <2> SUFFICES ASSUME [Next]_vars PROVE LimiterNext \/ UNCHANGED limiterVars
    OBVIOUS
  <2>1. ASSUME NEW r \in Requests, NEW kind, NEW item, Ask(r, kind, item) PROVE LimiterNext
    BY <2>1, CallerFacts DEF Ask, LimiterNext
  <2>2. ASSUME NEW p \in Polls, Poll(p) \/ PollEnds(p) \/ ReadInbox(p) \/ \E r \in Requests : Marked(r, p)
        PROVE  LimiterNext \/ UNCHANGED limiterVars
    BY <2>2, CallerFacts DEF Poll, PollEnds, ReadInbox, Marked, Refetch, StartFetch, LimiterNext
  <2>3. CASE LimiterStep \/ Die \/ UserService
    BY <2>3 DEF LimiterStep, Die, UserService, LimiterNext
  <2>4. ASSUME NEW r \in Requests,
               \/ Register(r) \/ Registered(r) \/ Submit(r) \/ Submitted(r) \/ SubmitFailed(r)
               \/ MarkFailed(r) \/ AskProfile(r) \/ Profile(r)
               \/ \E t \in Times : Click(r, t)
               \/ \E outcome \in {"filed", "failed"} : File(r, outcome)
               \/ \E outcome \in {"marked", "failed"} : Mark(r, outcome)
               \/ Notify(r) \/ NotifyFails(r)
        PROVE  LimiterNext \/ UNCHANGED limiterVars
    BY <2>1, <2>4 DEF Register, Registered, Submit, Submitted, SubmitFailed, MarkFailed,
       AskProfile, Profile, Click, File, Mark, Notify, NotifyFails, Reply
  <2>5. CASE \/ \E name \in {"register", "login", "form", "other"} : Navigate(name)
             \/ \E t \in Times : Follow(t)
             \/ \E n \in Requests \cup {Citizen} : NotifyMore(n)
    BY <2>5 DEF Navigate, Follow, NotifyMore
  <2>6. CASE UNCHANGED vars
    BY <2>6 DEF vars
  <2> QED
    BY <2>2, <2>3, <2>4, <2>5, <2>6 DEF Next
<1> QED
  BY <1>1, <1>2, PTL DEF Spec, LimiterSpec

(* The limit, and the only way to be locked out, with everything the desk  *)
(* does around them (ratelimit.middleware.ts:16-34).                       *)
THEOREM LimitsHoldAtTheDesk == Spec => [](LimitKept /\ LockedOutOnlyByCrash)
BY TheDeskIsLimited, LimitHolds, NoOtherLockOut, PTL

(* user-service at the desk, where some requests are for other services:   *)
(* the invariant of Accounts holds all the same, whatever they do.         *)
THEOREM AccountsAtTheDesk == Spec => []AccountsInv
<1>1. ASSUME AccountsInv, [Next]_vars PROVE AccountsInv'
  <2>1. CASE UNCHANGED accountVars
    BY <1>1, <2>1 DEF accountVars, AccountsInv, Basics, AccountTypes, Named, RegistrationInv,
       MadeByPublisher, RegistrationTells, ProfileInv, ReadersFollow, StaleOnlyByLateFill,
       Updating, Email
  <2>2. ASSUME NEW r \in Requests, NEW fields \in SUBSET Fields,
               NEW step \in {"checkEmail", "lookUp", "saveUser", "forbidden"},
               Begin(r, Citizen, fields, step)
        PROVE  AccountsInv'
    BY <1>1, <2>2, BeginInv, CitizenAssumption DEF CitizenAssumption
  <2>3. ASSUME NEW r \in Requests, Register(r) \/ Profile(r) PROVE AccountsInv'
    <3>1. {} \in SUBSET Fields
      OBVIOUS
    <3> QED
      BY <2>2, <2>3, <3>1 DEF Register, Profile, CallRegister, CallProfile, CallUpdate, RefuseUpdate
  <2>4. ASSUME NEW r \in Requests, NEW outcome \in {"filed", "marked", "failed"},
               File(r, outcome) \/ Mark(r, outcome)
        PROVE  AccountsInv'
    <3>1. at[r] = "idle" /\ GoTo(r, outcome)
          /\ UNCHANGED <<tables, cached, seen, overtaken, unsafe, asked>>
      BY <2>4 DEF File, Mark, Reply, Came
    <3> QED
      BY <1>1, <3>1, ElsewhereInv
  <2>5. CASE UserService
    BY <1>1, <2>5, StepInv, EntryExpiresInv DEF UserService
  <2>6. CASE UNCHANGED vars
    BY <2>1, <2>6 DEF vars
  <2>7. ASSUME NEW r \in Requests,
               \/ Registered(r) \/ Submit(r) \/ Submitted(r) \/ SubmitFailed(r)
               \/ MarkFailed(r) \/ AskProfile(r) \/ Notify(r) \/ NotifyFails(r)
               \/ \E t \in Times : Click(r, t)
               \/ \E p \in Polls : Marked(r, p)
        PROVE  AccountsInv'
    BY <2>1, <2>7 DEF Registered, Submit, Submitted, SubmitFailed, MarkFailed, AskProfile, Notify,
       NotifyFails, Click, Marked
  <2>8. CASE \/ \E p \in Polls : Poll(p) \/ PollEnds(p) \/ ReadInbox(p)
             \/ \E name \in {"register", "login", "form", "other"} : Navigate(name)
             \/ \E t \in Times : Follow(t)
             \/ \E n \in Requests \cup {Citizen} : NotifyMore(n)
             \/ LimiterStep \/ Die
    BY <2>1, <2>8 DEF Poll, StartFetch, PollEnds, ReadInbox, Navigate, Follow, NotifyMore, LimiterStep, Die
  <2> QED
    BY <1>1, <2>3, <2>4, <2>5, <2>6, <2>7, <2>8 DEF Next
<1>2. Init => AccountsInv
  BY AccountsInvInit DEF Init
<1> QED
  BY <1>1, <1>2, PTL DEF Spec

(* What registrations are worth, and where a stale profile comes from, at  *)
(* the citizen's desk, with the other requests that go by                  *)
(* (auth.controller.ts:24-49, user.service.ts:15-91).                      *)
THEOREM AccountsHoldAtTheDesk == Spec => [](RegistrationTells /\ StaleOnlyByLateFill)
<1>1. AccountsInv => RegistrationTells /\ StaleOnlyByLateFill
  BY DEF AccountsInv, RegistrationInv, ProfileInv
<1> QED
  BY <1>1, AccountsAtTheDesk, PTL

=============================================================================

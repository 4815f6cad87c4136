------------------------------ MODULE Accounts ------------------------------
(***************************************************************************)
(* user-service apart from sessions: registration (auth.controller.ts) and *)
(* profiles with their cache in Redis (user.service.ts).  There is neither *)
(* a transaction nor an outbox: every await is a step, other requests come *)
(* in between, and a request may fail before a step or after it.           *)
(*                                                                         *)
(* A user is named by the unique e-mail address; values written are named  *)
(* by the request that writes them.                                        *)
(***************************************************************************)
CONSTANTS
  Emails,
  Requests,   \* HTTP requests
  Earlier,    \* made the accounts that are there at first
  None

ASSUME NoneAssumption == None \notin Requests \cup {Earlier} /\ Earlier \notin Requests

VARIABLES
  account,    \* table User: the request that made the account, or None
  welcomed,   \* the requests whose user.registered is in the stream
  row,        \* phone and preferences of each user
  cached,     \* users:profile: of each user, or NoEntry
  asked,      \* what each request asks for
  at,         \* the step a request is at, or how it was answered
  seen,       \* the row a reader has read and not yet written to the cache
  overtaken,  \* history: readers whose row is older than the end of an update
  unsafe      \* history: users whose entry may outlive an update

accountVars == <<account, welcomed, row, cached, asked, at, seen, overtaken, unsafe>>

-----------------------------------------------------------------------------
Fields == {"phone", "preferences"}

NoRow == [f \in Fields |-> None]

NoEntry == [f \in {} |-> None]

NoArguments == [email |-> None, fields |-> {}]

Working == {"checkEmail", "createUser", "publish", "lookUp", "query", "fill",
            "saveUser", "savePreferences", "purge"}

AccountsInit ==
  /\ account \in [Emails -> {None, Earlier}]
  /\ welcomed = {}
  /\ row = [e \in Emails |-> NoRow]
  /\ cached = [e \in Emails |-> NoEntry]
  /\ asked = [r \in Requests |-> NoArguments]
  /\ at = [r \in Requests |-> "idle"]
  /\ seen = [r \in Requests |-> NoRow]
  /\ overtaken = {} /\ unsafe = {}

GoTo(r, step) == at' = [at EXCEPT ![r] = step]

tables == <<account, welcomed, row>>
profiles == <<row, cached, seen, overtaken, unsafe>>

Begin(r, e, fields, step) ==
  /\ at[r] = "idle" /\ GoTo(r, step)
  /\ asked' = [asked EXCEPT ![r] = [email |-> e, fields |-> fields]]
  /\ UNCHANGED <<tables, cached, seen, overtaken, unsafe>>

CallRegister(r, e) == Begin(r, e, {}, "checkEmail")

CallProfile(r, e) == Begin(r, e, {}, "lookUp")

(* PATCH with the fields given, by the user ... *)
CallUpdate(r, e, fields) == fields # {} /\ Begin(r, e, fields, "saveUser")

(* ... or by anybody else, who gets 403 *)
RefuseUpdate(r, e) == Begin(r, e, {}, "forbidden")

Email(r) == asked[r].email

-----------------------------------------------------------------------------
(* register: findUnique, hashPassword, create, publish *)
CheckEmail(r) ==
  /\ at[r] = "checkEmail"
  /\ GoTo(r, IF account[Email(r)] = None THEN "createUser" ELSE "conflict")
  /\ UNCHANGED <<account, welcomed, profiles, asked>>

(* Mutant: the address is not unique in the table. *)
CreateUserAgain(r) ==
  /\ at[r] = "createUser" /\ GoTo(r, "publish")
  /\ account' = [account EXCEPT ![Email(r)] = r]
  /\ UNCHANGED <<welcomed, profiles, asked>>

(* the unique index refuses a second account, and the request fails *)
CreateUser(r) ==
  /\ at[r] = "createUser" /\ account[Email(r)] = None /\ GoTo(r, "publish")
  /\ account' = [account EXCEPT ![Email(r)] = r]
  /\ UNCHANGED <<welcomed, profiles, asked>>

(* publishUserRegistered, then 201; the answer may be lost, here and below *)
PublishRegistered(r, answer) ==
  /\ at[r] = "publish" /\ GoTo(r, answer)
  /\ welcomed' = welcomed \cup {r}
  /\ UNCHANGED <<account, profiles, asked>>

-----------------------------------------------------------------------------
(* getProfile *)
LookUp(r) ==
  /\ at[r] = "lookUp"
  /\ GoTo(r, IF cached[Email(r)] = NoEntry THEN "query" ELSE "served")
  /\ UNCHANGED <<account, welcomed, profiles, asked>>

Query(r) ==
  /\ at[r] = "query"
  /\ IF account[Email(r)] = None
       THEN GoTo(r, "notFound") /\ UNCHANGED seen
       ELSE GoTo(r, "fill") /\ seen' = [seen EXCEPT ![r] = row[Email(r)]]
  /\ UNCHANGED <<tables, cached, overtaken, unsafe, asked>>

Fill(r, answer) ==
  /\ at[r] = "fill" /\ GoTo(r, answer)
  /\ cached' = [cached EXCEPT ![Email(r)] = seen[r]]
  /\ seen' = [seen EXCEPT ![r] = NoRow]
  /\ unsafe' = IF r \in overtaken THEN unsafe \cup {Email(r)} ELSE unsafe \ {Email(r)}
  /\ overtaken' = overtaken \ {r}
  /\ UNCHANGED <<tables, asked>>

(* the entry lives for five minutes *)
EntryExpires(e) ==
  /\ cached[e] # NoEntry
  /\ cached' = [cached EXCEPT ![e] = NoEntry]
  /\ unsafe' = unsafe \ {e}
  /\ UNCHANGED <<tables, asked, at, seen, overtaken>>

-----------------------------------------------------------------------------
(* updateProfile.  An update is over when it has purged the entry or has   *)
(* failed; what was read before that is old.                               *)
Readers(e) == {q \in Requests : at[q] = "fill" /\ Email(q) = e}

Save(r, f) ==
  row' = IF f \in asked[r].fields THEN [row EXCEPT ![Email(r)][f] = r] ELSE row

SaveUser(r) ==
  /\ at[r] = "saveUser" /\ account[Email(r)] # None
  /\ Save(r, "phone")
  /\ GoTo(r, IF "preferences" \in asked[r].fields THEN "savePreferences" ELSE "purge")
  /\ UNCHANGED <<account, welcomed, cached, seen, overtaken, unsafe, asked>>

SavePreferences(r) ==
  /\ at[r] = "savePreferences" /\ GoTo(r, "purge")
  /\ Save(r, "preferences")
  /\ UNCHANGED <<account, welcomed, cached, seen, overtaken, unsafe, asked>>

(* Mutant: the entry is not deleted. *)
PurgeForgotten(r, answer) ==
  /\ at[r] = "purge" /\ GoTo(r, answer)
  /\ UNCHANGED <<tables, cached, overtaken, unsafe, seen, asked>>

Purge(r, answer) ==
  /\ at[r] = "purge" /\ GoTo(r, answer)
  /\ cached' = [cached EXCEPT ![Email(r)] = NoEntry]
  /\ unsafe' = unsafe \ {Email(r)}
  /\ overtaken' = overtaken \cup Readers(Email(r))
  /\ UNCHANGED <<tables, seen, asked>>

(* a step rejects or the process dies, after a first write or before *)
Fail(r) ==
  LET e == Email(r) IN
  /\ at[r] \in Working /\ GoTo(r, "failed")
  /\ IF at[r] \in {"savePreferences", "purge"}
       THEN unsafe' = unsafe \cup {e} /\ overtaken' = overtaken \cup Readers(e)
       ELSE UNCHANGED <<unsafe, overtaken>>
  /\ UNCHANGED <<tables, cached, seen, asked>>

AccountsStep(r) ==
  \/ CheckEmail(r) \/ CreateUser(r) \/ LookUp(r) \/ Query(r)
  \/ SaveUser(r) \/ SavePreferences(r) \/ Fail(r)
  \/ \E answer \in {"registered", "failed"} : PublishRegistered(r, answer)
  \/ \E answer \in {"served", "failed"} : Fill(r, answer)
  \/ \E answer \in {"updated", "failed"} : Purge(r, answer)

AccountsNext ==
  \/ \E r \in Requests :
       \/ AccountsStep(r)
       \/ \E e \in Emails :
            \/ CallRegister(r, e) \/ CallProfile(r, e)
            \/ RefuseUpdate(r, e)
            \/ \E fields \in SUBSET Fields : CallUpdate(r, e, fields)
  \/ \E e \in Emails : EntryExpires(e)

AccountsSpec == AccountsInit /\ [][AccountsNext]_accountVars

-----------------------------------------------------------------------------
(* What the answer to a registration is worth: 201 means that the account  *)
(* is this request's and its event is out; 409 that it is not; no event    *)
(* goes out for an account of somebody else; and an account whose event is *)
(* missing belongs to a request that got an error, so that no welcome is   *)
(* missing that was promised (auth.controller.ts:28-45).                   *)
RegistrationTells ==
  /\ \A r \in Requests :
       /\ at[r] = "registered" => r \in welcomed
       /\ at[r] = "conflict" => r \notin welcomed /\ account[Email(r)] \notin {None, r}
       /\ r \in welcomed => account[Email(r)] = r
  /\ \A e \in Emails :
       account[e] \notin {None, Earlier} \cup welcomed => at[account[e]] \in {"publish", "failed"}

(* A cached profile differs from the row only while an update is between   *)
(* its first write and its DEL, or where an update failed there, or where  *)
(* a reader filled the entry with a row older than the DEL; an entry       *)
(* filled by any other reader follows the row (user.service.ts:19-39,      *)
(* 62-82).                                                                 *)
StaleOnlyByLateFill ==
  \A e \in Emails :
    cached[e] \notin {NoEntry, row[e]} =>
      \/ e \in unsafe
      \/ \E r \in Requests : Email(r) = e /\ at[r] \in {"savePreferences", "purge"}

=============================================================================

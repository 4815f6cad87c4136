--------------------------- MODULE ComplaintCache ---------------------------
(***************************************************************************)
(* The read side of complaint-service: the handlers of                     *)
(* controllers/complaint.controller.ts and the Redis cache they read       *)
(* through (cache/complaint.cache.ts).                                     *)
(*                                                                         *)
(* A GET looks in the cache, asks the database on a miss and fills the     *)
(* cache with what it got, in three steps; a PATCH commits the new status  *)
(* (one step here; ComplaintService has its inside) and then deletes the   *)
(* detail entry and, key by key as SCAN finds them, every list entry; a    *)
(* POST deletes nothing.  Handlers of all kinds run at the same time.      *)
(*                                                                         *)
(* Complaints are numbered by createdAt, which the INSERT of a POST fixes; *)
(* its COMMIT comes later, and those of two POSTs in any order.  Lists are *)
(* first pages without a category, keyed by their status filter.           *)
(***************************************************************************)
EXTENDS ComplaintStatus, Naturals, FiniteSets

CONSTANTS
  MaxComplaints,  \* bound: complaints inserted
  MaxChanges,     \* bound: changes of status
  MaxFailures,    \* bound: invalidations that fail
  Handlers,       \* requests being handled at the same time
  Filters,        \* status filters of list requests
  Limits          \* page sizes asked for

All == "ALL"    \* the filter of a list without one

Complaints == 1 .. MaxComplaints

ASSUME ComplaintsAssumption == MaxComplaints \in Nat
ASSUME FiltersAssumption == Filters \subseteq Status \cup {All}
ASSUME LimitsAssumption == Limits \subseteq Nat \ {0}

VARIABLES
  row,        \* committed status of each complaint
  detail,     \* cached detail of each complaint, or Nothing
  list,       \* cached list of each filter, or Nothing
  handler,    \* what each handler is doing
  last,       \* the complaint inserted last
  changes,    \* changes of status made
  failures    \* invalidations that failed

vars == <<row, detail, list, handler, last, changes, failures>>

-----------------------------------------------------------------------------
Nothing == [empty |-> TRUE]

Idle == [pc |-> "idle"]

(* A cached value, with whether it was up to date when it was cached: the  *)
(* latter is a history field, not part of the cached JSON.                 *)
Entry(value, current) == [empty |-> FALSE, value |-> value, current |-> current]

Init ==
  /\ row = [c \in Complaints |-> NoRow]
  /\ detail = [c \in Complaints |-> Nothing]
  /\ list = [f \in Filters |-> Nothing]
  /\ handler = [h \in Handlers |-> Idle]
  /\ last = 0
  /\ changes = 0
  /\ failures = 0

Becomes(h, state) == handler' = [handler EXCEPT ![h] = state]

Committed == {c \in Complaints : row[c] # NoRow}

Matching(f) == {c \in Committed : f = All \/ row[c] = f}

(* listComplaints: the limit newest rows that match, newest first, among   *)
(* the complaints the page knows of (a history field)                      *)
Page(f, limit, known) ==
  LET candidates == Matching(f) \cap known
      shown == {c \in candidates : Cardinality({d \in candidates : d > c}) < limit}
  IN  [rows |-> [c \in shown |-> row[c]], limit |-> limit, known |-> known]

-----------------------------------------------------------------------------
(* POST /complaints, createComplaint: no cached list is invalidated *)
InsertComplaint(h) ==
  /\ handler[h] = Idle
  /\ last < MaxComplaints
  /\ last' = last + 1
  /\ Becomes(h, [pc |-> "create", cid |-> last + 1])
  /\ UNCHANGED <<row, detail, list, changes, failures>>

(* the outbox row is written and the transaction committed ...             *)
CommitComplaint(h) ==
  /\ handler[h].pc = "create"
  /\ row' = [row EXCEPT ![handler[h].cid] = "OPEN"]
  /\ Becomes(h, Idle)
  /\ UNCHANGED <<detail, list, last, changes, failures>>

(* ... or rolled back *)
RollBackComplaint(h) ==
  /\ handler[h].pc = "create"
  /\ Becomes(h, Idle)
  /\ UNCHANGED <<row, detail, list, last, changes, failures>>

(* GET /complaints/:id, getCachedDetail: on a hit the answer is the entry *)
LookUpDetail(h, c) ==
  /\ handler[h] = Idle
  /\ detail[c] = Nothing
  /\ Becomes(h, [pc |-> "queryDetail", cid |-> c])
  /\ UNCHANGED <<row, detail, list, last, changes, failures>>

(* getComplaintById; a complaint that is not there is 404 and not cached *)
QueryDetail(h) ==
  /\ handler[h].pc = "queryDetail"
  /\ LET c == handler[h].cid IN
     Becomes(h, IF row[c] = NoRow THEN Idle
                ELSE [pc |-> "fillDetail", cid |-> c, value |-> row[c]])
  /\ UNCHANGED <<row, detail, list, last, changes, failures>>

(* setCachedDetail, and the answer *)
FillDetail(h) ==
  /\ handler[h].pc = "fillDetail"
  /\ LET c == handler[h].cid  v == handler[h].value IN
     detail' = [detail EXCEPT ![c] = Entry(v, v = row[c])]
  /\ Becomes(h, Idle)
  /\ UNCHANGED <<row, list, last, changes, failures>>

(* GET /complaints, getCachedList under buildListCacheKey(status, category, *)
(* page): the limit is not part of the key, so on a hit the answer may be a *)
(* page of another size                                                     *)
LookUpList(h, f, limit) ==
  /\ handler[h] = Idle
  /\ list[f] = Nothing
  /\ Becomes(h, [pc |-> "queryList", filter |-> f, limit |-> limit])
  /\ UNCHANGED <<row, detail, list, last, changes, failures>>

QueryList(h) ==
  /\ handler[h].pc = "queryList"
  /\ Becomes(h, [pc |-> "fillList", filter |-> handler[h].filter,
                 value |-> Page(handler[h].filter, handler[h].limit, Committed)])
  /\ UNCHANGED <<row, detail, list, last, changes, failures>>

(* setCachedList, and the answer *)
FillList(h) ==
  /\ handler[h].pc = "fillList"
  /\ LET f == handler[h].filter  v == handler[h].value IN
     list' = [list EXCEPT ![f] = Entry(v, v = Page(f, v.limit, v.known))]
  /\ Becomes(h, Idle)
  /\ UNCHANGED <<row, detail, last, changes, failures>>

(* Mutant: only the list of the new status is invalidated. *)
ChangePurgesNewStatusOnly(h, c, to) ==
  /\ handler[h] = Idle
  /\ changes < MaxChanges
  /\ row[c] # NoRow
  /\ ValidTransition(row[c], to)
  /\ row' = [row EXCEPT ![c] = to]
  /\ changes' = changes + 1
  /\ Becomes(h, [pc |-> "invalidate", cid |-> c, detail |-> TRUE, keys |-> Filters \cap {to, All}])
  /\ UNCHANGED <<detail, list, last, failures>>

(* PATCH /complaints/:id/status: changeStatus has committed.  Promise.all   *)
(* then runs the two invalidations side by side.                            *)
Change(h, c, to) ==
  /\ handler[h] = Idle
  /\ changes < MaxChanges
  /\ row[c] # NoRow
  /\ ValidTransition(row[c], to)
  /\ row' = [row EXCEPT ![c] = to]
  /\ changes' = changes + 1
  /\ Becomes(h, [pc |-> "invalidate", cid |-> c, detail |-> TRUE, keys |-> Filters])
  /\ UNCHANGED <<detail, list, last, failures>>

(* Mutant: the detail of some other complaint is deleted. *)
InvalidateDetailOfOther(h) ==
  /\ handler[h].pc = "invalidate" /\ handler[h].detail
  /\ \E c \in Complaints \ {handler[h].cid} : detail' = [detail EXCEPT ![c] = Nothing]
  /\ Becomes(h, [handler[h] EXCEPT !.detail = FALSE])
  /\ UNCHANGED <<row, list, last, changes, failures>>

(* invalidateDetail *)
InvalidateDetail(h) ==
  /\ handler[h].pc = "invalidate" /\ handler[h].detail
  /\ detail' = [detail EXCEPT ![handler[h].cid] = Nothing]
  /\ Becomes(h, [handler[h] EXCEPT !.detail = FALSE])
  /\ UNCHANGED <<row, list, last, changes, failures>>

(* invalidateListKeys: SCAN reaches the slot of one more key, and DEL *)
InvalidateList(h, f) ==
  /\ handler[h].pc = "invalidate" /\ f \in handler[h].keys
  /\ list' = [list EXCEPT ![f] = Nothing]
  /\ Becomes(h, [handler[h] EXCEPT !.keys = @ \ {f}])
  /\ UNCHANGED <<row, detail, last, changes, failures>>

(* One of the two throws; the answer is an error although the change is    *)
(* committed, and what the other has to do is still done.                  *)
InvalidationFails(h) ==
  /\ handler[h].pc = "invalidate"
  /\ failures < MaxFailures
  /\ failures' = failures + 1
  /\ \/ handler[h].detail /\ Becomes(h, [handler[h] EXCEPT !.detail = FALSE])
     \/ handler[h].keys # {} /\ Becomes(h, [handler[h] EXCEPT !.keys = {}])
  /\ UNCHANGED <<row, detail, list, last, changes>>

Invalidated(h) ==
  /\ handler[h].pc = "invalidate"
  /\ ~handler[h].detail /\ handler[h].keys = {}
  /\ Becomes(h, Idle)
  /\ UNCHANGED <<row, detail, list, last, changes, failures>>

(* EX DETAIL_TTL and EX LIST_TTL *)
ExpireDetail(c) ==
  /\ detail[c] # Nothing
  /\ detail' = [detail EXCEPT ![c] = Nothing]
  /\ UNCHANGED <<row, list, handler, last, changes, failures>>

ExpireList(f) ==
  /\ list[f] # Nothing
  /\ list' = [list EXCEPT ![f] = Nothing]
  /\ UNCHANGED <<row, detail, handler, last, changes, failures>>

Next ==
  \/ \E h \in Handlers :
       \/ InsertComplaint(h) \/ CommitComplaint(h) \/ RollBackComplaint(h)
       \/ \E c \in Complaints : LookUpDetail(h, c) \/ \E to \in Status : Change(h, c, to)
       \/ QueryDetail(h) \/ FillDetail(h)
       \/ \E f \in Filters : InvalidateList(h, f) \/ \E n \in Limits : LookUpList(h, f, n)
       \/ QueryList(h) \/ FillList(h)
       \/ InvalidateDetail(h) \/ InvalidationFails(h) \/ Invalidated(h)
  \/ \E c \in Complaints : ExpireDetail(c)
  \/ \E f \in Filters : ExpireList(f)

Spec == Init /\ [][Next]_vars

-----------------------------------------------------------------------------
DetailBeingPurged(c) ==
  \E h \in Handlers : /\ handler[h].pc = "invalidate"
                      /\ handler[h].cid = c /\ handler[h].detail

ListBeingPurged(f) ==
  \E h \in Handlers : handler[h].pc = "invalidate" /\ f \in handler[h].keys

(* A detail entry that was up to date when it was cached is up to date, or *)
(* the handler of the change it missed is about to delete it: stale        *)
(* details come from a reader that fills late, never from an invalidation  *)
(* that misses an entry.                                                   *)
DetailIsCurrentOrPurged ==
  \A c \in Complaints :
    failures = 0 /\ detail[c] # Nothing /\ detail[c].value # row[c]
      => ~detail[c].current \/ DetailBeingPurged(c)

(* A page shows its complaints with their status and under the right       *)
(* filter, and what it leaves out was committed after the page was read,   *)
(* or is older than a full page.                                           *)
LacksOnlyLater(f, page) ==
  LET shown == DOMAIN page.rows IN
  /\ \A c \in shown : page.rows[c] = row[c] /\ c \in Matching(f)
  /\ \A c \in Matching(f) \ shown :
       \/ c \notin page.known
       \/ Cardinality(shown) = page.limit /\ \A d \in shown : c < d

(* The same for lists, which no POST invalidates: a list whose rows had    *)
(* not changed between its query and its caching lacks only complaints     *)
(* committed since the query, or is about to be deleted.  Those need not   *)
(* be newer than what it shows: the gap may be in the middle of the page   *)
(* (complaint.service.ts:39-97, complaint.controller.ts:46).               *)
ListLacksOnlyLaterCommits ==
  \A f \in Filters :
    failures = 0 /\ list[f] # Nothing =>
      ~list[f].current \/ ListBeingPurged(f) \/ LacksOnlyLater(f, list[f].value)

=============================================================================

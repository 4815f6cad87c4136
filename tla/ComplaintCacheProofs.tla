------------------------ MODULE ComplaintCacheProofs ------------------------
(***************************************************************************)
(* Proofs about ComplaintCache, for any number of handlers, complaints and *)
(* changes, and any page sizes.                                            *)
(*                                                                         *)
(* That a page once right goes stale only by what is committed later needs *)
(* that a complaint is committed once (Numbered) and that no page knows of *)
(* it before (KnownIsCommitted), and a fact about pages that is no         *)
(* invariant at all: the newest rows of a set, limit of them at most, are  *)
(* all of the set or exactly limit (FullPage).                             *)
(***************************************************************************)
EXTENDS ComplaintCache, Integers, FiniteSetTheorems, WellFoundedInduction, TLAPS

Pages == [rows : UNION {[S -> Status] : S \in SUBSET Complaints},
          limit : Limits, known : SUBSET Complaints]

Entries(V) == [empty : {FALSE}, value : V, current : BOOLEAN]

HandlerStates ==
  {Idle}
  \cup [pc : {"create"}, cid : Complaints]
  \cup [pc : {"queryDetail"}, cid : Complaints]
  \cup [pc : {"fillDetail"}, cid : Complaints, value : Status]
  \cup [pc : {"queryList"}, filter : Filters, limit : Limits]
  \cup [pc : {"fillList"}, filter : Filters, value : Pages]
  \cup [pc : {"invalidate"}, cid : Complaints, detail : BOOLEAN, keys : SUBSET Filters]

TypeInv ==
  /\ row \in [Complaints -> Status \cup {NoRow}]
  /\ detail \in [Complaints -> Entries(Status) \cup {Nothing}]
  /\ list \in [Filters -> Entries(Pages) \cup {Nothing}]
  /\ handler \in [Handlers -> HandlerStates]
  /\ last \in 0 .. MaxComplaints
  /\ failures \in Nat

(* A complaint not inserted yet has no row, nor has one whose transaction  *)
(* is open; and no two transactions insert the same.                       *)
Numbered ==
  /\ \A c \in Complaints : c > last => row[c] = NoRow
  /\ \A h \in Handlers : handler[h].pc = "create" =>
       /\ handler[h].cid <= last /\ row[handler[h].cid] = NoRow
       /\ \A g \in Handlers \ {h} : handler[g].pc = "create" => handler[g].cid # handler[h].cid

(* A page, cached or about to be, knows of committed complaints only. *)
KnownIsCommitted ==
  /\ \A f \in Filters : list[f] # Nothing => list[f].value.known \subseteq Committed
  /\ \A h \in Handlers : handler[h].pc = "fillList" => handler[h].value.known \subseteq Committed

IInv ==
  /\ TypeInv
  /\ Numbered
  /\ KnownIsCommitted
  /\ DetailIsCurrentOrPurged
  /\ ListLacksOnlyLaterCommits

-----------------------------------------------------------------------------
(* Finite sets of complaints, and their newest elements.                   *)

Newer(S, c) == {d \in S : d > c}

Newest(S, n) == {c \in S : Cardinality(Newer(S, c)) < n}

LEMMA FiniteComplaints ==
  ASSUME NEW S \in SUBSET Complaints
  PROVE  IsFiniteSet(S) /\ Cardinality(S) \in Nat
<1>1. MaxComplaints \in Int
  BY ComplaintsAssumption DEF ComplaintsAssumption
<1>2. IsFiniteSet(Complaints)
  BY <1>1, FS_Interval DEF Complaints
<1>3. IsFiniteSet(S)
  BY <1>2, FS_Subset
<1> QED
  BY <1>3, FS_CardinalityType

(* A set of complaints that is not empty has an oldest and a newest one. *)
LEMMA Oldest ==
  ASSUME NEW S \in SUBSET Complaints, S # {}
  PROVE  \E c \in S : \A d \in S : c <= d
<1>1. S \subseteq Nat
  BY DEF Complaints
<1> DEFINE Less == OpToRel(<, Nat)
<1>2. PICK c \in S : \A d \in S : <<d, c>> \notin Less
  <2> HIDE DEF Less
  <2> QED
    BY <1>1, NatLessThanWellFounded, WFMin DEF Less
<1>3. \A d \in S : ~(d < c)
  BY <1>1, <1>2 DEF OpToRel
<1> QED
  BY <1>1, <1>3

LEMMA Latest ==
  ASSUME NEW S \in SUBSET Complaints, S # {}
  PROVE  \E c \in S : \A d \in S : d <= c
<1> DEFINE R == {MaxComplaints + 1 - c : c \in S}
<1>1. R \in SUBSET Complaints /\ R # {}
  BY ComplaintsAssumption DEF Complaints, ComplaintsAssumption
<1>2. PICK a \in R : \A b \in R : a <= b
  BY <1>1, Oldest
<1>3. PICK c \in S : a = MaxComplaints + 1 - c
  OBVIOUS
<1>4. ASSUME NEW d \in S PROVE d <= c
  <2>1. a <= MaxComplaints + 1 - d
    BY <1>2
  <2> QED
    BY ComplaintsAssumption, <1>3, <2>1 DEF Complaints, ComplaintsAssumption
<1> QED
  BY <1>4

(* The newest n of a set are above the rest of it, and if there is a rest  *)
(* they are n: that many are newer than the newest of the rest, and fewer  *)
(* than that many are newer than the oldest of them.                       *)
LEMMA FullPage ==
  ASSUME NEW S \in SUBSET Complaints, NEW n \in Nat \ {0}, NEW c \in S \ Newest(S, n)
  PROVE  Cardinality(Newest(S, n)) = n /\ \A d \in Newest(S, n) : c < d
<1> DEFINE shown == Newest(S, n)
           rest == S \ Newest(S, n)
<1>1. \A d \in S : Newer(S, d) \in SUBSET Complaints
  BY DEF Newer
<1>2. shown \in SUBSET Complaints /\ rest \in SUBSET Complaints /\ rest # {}
  BY DEF Newest
<1>3. ASSUME NEW d \in shown, NEW e \in rest PROVE e < d
  <2>1. SUFFICES ASSUME d < e PROVE FALSE
    BY <1>2, <1>3 DEF Complaints, Newest
  <2>2. d \in S /\ e \in S
    BY DEF Newest
  <2>3. ASSUME NEW x \in S, x > e PROVE x > d
    BY <2>1, <2>2, <2>3 DEF Complaints
  <2>31. Newer(S, e) \subseteq Newer(S, d)
    BY <2>3 DEF Newer
  <2>4. Cardinality(Newer(S, e)) <= Cardinality(Newer(S, d))
    BY <1>1, <2>2, <2>31, FiniteComplaints, FS_Subset
  <2>5. Cardinality(Newer(S, e)) \in Nat /\ Cardinality(Newer(S, d)) \in Nat
    BY <1>1, <2>2, FiniteComplaints
  <2>6. Cardinality(Newer(S, d)) < n /\ ~(Cardinality(Newer(S, e)) < n)
    BY <1>3 DEF Newest
  <2> QED
    BY <2>4, <2>5, <2>6
<1>4. PICK b \in rest : \A e \in rest : e <= b
  BY <1>2, Latest
<1>5. Newer(S, b) = shown
  <2>1. ASSUME NEW d \in S PROVE d > b <=> d \in shown
    BY <1>2, <1>3, <1>4 DEF Complaints
  <2>2. shown \subseteq S
    BY DEF Newest
  <2> QED
    BY <2>1, <2>2 DEF Newer
<1>6. Cardinality(shown) \in Nat /\ Cardinality(shown) >= n
  <2>1. ~(Cardinality(Newer(S, b)) < n)
    BY DEF Newest
  <2> QED
    BY <1>2, <1>5, <2>1, FiniteComplaints
<1>7. shown # {}
  <2>1. shown = {} => Cardinality(shown) = 0
    BY FS_EmptySet
  <2> QED
    BY <1>6, <2>1
<1>8. PICK a \in shown : \A d \in shown : a <= d
  BY <1>2, <1>7, Oldest
<1>9. Newer(S, a) = shown \ {a}
  <2>1. ASSUME NEW d \in S PROVE d > a <=> d \in shown \ {a}
    <3>1. CASE d \in shown
      BY <1>2, <1>8, <3>1 DEF Complaints
    <3>2. CASE d \in rest
      BY <1>2, <1>3, <3>2 DEF Complaints
    <3> QED
      BY <3>1, <3>2
  <2>2. shown \subseteq S
    BY DEF Newest
  <2> QED
    BY <2>1, <2>2 DEF Newer
<1>10. Cardinality(shown \ {a}) = Cardinality(shown) - 1
  BY <1>2, FiniteComplaints, FS_RemoveElement
<1>11. Cardinality(shown) - 1 < n
  BY <1>9, <1>10 DEF Newest
<1>12. Cardinality(shown) = n
  BY <1>6, <1>11
<1>13. \A d \in shown : c < d
  BY <1>3
<1> QED
  BY <1>12, <1>13

-----------------------------------------------------------------------------
(* A page just made is a page, and lacks only what the limit cuts off.     *)
LEMMA PageIsRight ==
  ASSUME TypeInv, NEW f \in Filters, NEW limit \in Limits, NEW known \in SUBSET Complaints
  PROVE  Page(f, limit, known) \in Pages /\ LacksOnlyLater(f, Page(f, limit, known))
<1> DEFINE S == Matching(f) \cap known
           shown == Newest(S, limit)
           page == Page(f, limit, known)
<1>1. S \in SUBSET Complaints /\ \A c \in S : row[c] \in Status
  BY DEF TypeInv, Matching, Committed
<1>2. limit \in Nat \ {0}
  BY LimitsAssumption DEF LimitsAssumption
<1>3. page = [rows |-> [c \in shown |-> row[c]], limit |-> limit, known |-> known]
  BY DEF Page, Newest, Newer
<1>4. shown \in SUBSET Complaints /\ shown \subseteq S
  BY <1>1 DEF Newest
<1>5. page.rows = [c \in shown |-> row[c]] /\ page.limit = limit /\ page.known = known
  BY <1>3
<1>6. page.rows \in [shown -> Status]
  BY <1>1, <1>4, <1>5
<1>7. page \in Pages
  <2> HIDE DEF shown
  <2> QED
    BY <1>3, <1>4, <1>5, <1>6 DEF Pages
<1>8. DOMAIN page.rows = shown
  BY <1>5
<1>9. ASSUME NEW c \in S \ shown
      PROVE  Cardinality(shown) = limit /\ \A d \in shown : c < d
  BY <1>1, <1>2, FullPage
<1>10. \A c \in shown : page.rows[c] = row[c] /\ c \in Matching(f)
  BY <1>4, <1>5
<1>11. \A c \in Matching(f) \ shown : c \in S \ shown \/ c \notin known
  OBVIOUS
<1> QED
  <2> HIDE DEF shown, page, S
  <2>1. LacksOnlyLater(f, page)
    BY <1>5, <1>8, <1>9, <1>10, <1>11 DEF LacksOnlyLater
  <2> QED
    BY <1>7, <2>1 DEF page

-----------------------------------------------------------------------------
(* The purges go on as long as their handler has not come to them.         *)

(* A step of a handler that is not purging, nor will be. *)
LEMMA PurgesUnmoved ==
  ASSUME TypeInv, NEW h \in Handlers, NEW s, Becomes(h, s),
         handler[h].pc # "invalidate"
  PROVE  /\ \A c \in Complaints : DetailBeingPurged(c) => DetailBeingPurged(c)'
         /\ \A f \in Filters : ListBeingPurged(f) => ListBeingPurged(f)'
BY DEF TypeInv, Becomes, DetailBeingPurged, ListBeingPurged

(* A step of a handler that inserts nothing, and after which it holds no   *)
(* page that knows of what is not committed.                               *)
LEMMA NumberedKept ==
  ASSUME TypeInv, Numbered, NEW h \in Handlers, NEW s, Becomes(h, s), s.pc # "create",
         UNCHANGED <<row, last>>
  PROVE  Numbered'
BY DEF TypeInv, Numbered, Becomes

LEMMA KnownKept ==
  ASSUME TypeInv, KnownIsCommitted, NEW h \in Handlers, NEW s, Becomes(h, s),
         s.pc = "fillList" => s.value.known \subseteq Committed,
         UNCHANGED <<row, list>>
  PROVE  KnownIsCommitted'
BY DEF TypeInv, KnownIsCommitted, Committed, Becomes

(* A step that leaves the entries and the rows alone, and no purge behind. *)
LEMMA CacheUnmoved ==
  ASSUME IInv, UNCHANGED <<row, detail, list, failures>>,
         \A c \in Complaints : DetailBeingPurged(c) => DetailBeingPurged(c)',
         \A f \in Filters : ListBeingPurged(f) => ListBeingPurged(f)'
  PROVE  DetailIsCurrentOrPurged' /\ ListLacksOnlyLaterCommits'
<1>2. DetailIsCurrentOrPurged'
  BY DEF IInv, DetailIsCurrentOrPurged
<1>3. \A f \in Filters : LacksOnlyLater(f, list[f].value) => LacksOnlyLater(f, list[f].value)'
  BY DEF LacksOnlyLater, Matching, Committed
<1>4. ListLacksOnlyLaterCommits'
  BY <1>3 DEF IInv, ListLacksOnlyLaterCommits
<1> QED
  BY <1>2, <1>4

-----------------------------------------------------------------------------
(* The readers. *)
LEMMA LookUpDetailStep ==
  ASSUME IInv, NEW h \in Handlers, NEW c \in Complaints, LookUpDetail(h, c)
  PROVE  IInv'
<1> DEFINE s == [pc |-> "queryDetail", cid |-> c]
<1>1. s \in HandlerStates /\ Becomes(h, s) /\ UNCHANGED <<row, detail, list, last, failures>>
  BY DEF LookUpDetail, HandlerStates
<1>2. handler[h].pc # "invalidate"
  BY DEF LookUpDetail, Idle
<1>3. TypeInv'
  BY <1>1 DEF IInv, TypeInv, Becomes
<1>4. s.pc # "create" /\ s.pc # "fillList"
  OBVIOUS
<1> QED
  <2> HIDE DEF s
  <2> QED
    BY <1>1, <1>2, <1>3, <1>4, PurgesUnmoved, CacheUnmoved, NumberedKept, KnownKept DEF IInv

LEMMA QueryDetailStep ==
  ASSUME IInv, NEW h \in Handlers, QueryDetail(h)
  PROVE  IInv'
<1> DEFINE c == handler[h].cid
           s == IF row[c] = NoRow THEN Idle
                ELSE [pc |-> "fillDetail", cid |-> c, value |-> row[c]]
<1>1. c \in Complaints
  BY DEF IInv, TypeInv, HandlerStates, QueryDetail, Idle
<1>2. s \in HandlerStates
  BY <1>1 DEF IInv, TypeInv, HandlerStates
<1>3. /\ Becomes(h, s) /\ UNCHANGED <<row, detail, list, last, failures>>
      /\ handler[h].pc # "invalidate"
  BY DEF QueryDetail
<1>4. TypeInv'
  BY <1>2, <1>3 DEF IInv, TypeInv, Becomes
<1>5. s.pc # "create" /\ s.pc # "fillList"
  BY DEF Idle
<1> QED
  <2> HIDE DEF s
  <2> QED
    BY <1>3, <1>4, <1>5, PurgesUnmoved, CacheUnmoved, NumberedKept, KnownKept DEF IInv

LEMMA LookUpListStep ==
  ASSUME IInv, NEW h \in Handlers, NEW f \in Filters, NEW n \in Limits, LookUpList(h, f, n)
  PROVE  IInv'
<1> DEFINE s == [pc |-> "queryList", filter |-> f, limit |-> n]
<1>1. s \in HandlerStates /\ Becomes(h, s) /\ UNCHANGED <<row, detail, list, last, failures>>
  BY DEF LookUpList, HandlerStates
<1>2. handler[h].pc # "invalidate"
  BY DEF LookUpList, Idle
<1>3. TypeInv'
  BY <1>1 DEF IInv, TypeInv, Becomes
<1>4. s.pc # "create" /\ s.pc # "fillList"
  OBVIOUS
<1> QED
  <2> HIDE DEF s
  <2> QED
    BY <1>1, <1>2, <1>3, <1>4, PurgesUnmoved, CacheUnmoved, NumberedKept, KnownKept DEF IInv

LEMMA QueryListStep ==
  ASSUME IInv, NEW h \in Handlers, QueryList(h)
  PROVE  IInv'
<1> DEFINE page == Page(handler[h].filter, handler[h].limit, Committed)
           s == [pc |-> "fillList", filter |-> handler[h].filter, value |-> page]
<1>1. handler[h].filter \in Filters /\ handler[h].limit \in Limits
  BY DEF IInv, TypeInv, HandlerStates, QueryList, Idle
<1>2. page \in Pages /\ page.known = Committed
  <2>1. Committed \in SUBSET Complaints
    BY DEF Committed
  <2> QED
    BY <1>1, <2>1, PageIsRight DEF IInv, Page
<1>3. s \in HandlerStates
  <2> HIDE DEF page
  <2> QED
    BY <1>1, <1>2 DEF HandlerStates
<1>4. /\ Becomes(h, s) /\ UNCHANGED <<row, detail, list, last, failures>>
      /\ handler[h].pc # "invalidate"
  BY DEF QueryList
<1>5. TypeInv'
  BY <1>3, <1>4 DEF IInv, TypeInv, Becomes
<1>6. s.pc # "create" /\ s.value.known = Committed
  BY <1>2
<1> QED
  <2> HIDE DEF s
  <2> QED
    BY <1>4, <1>5, <1>6, PurgesUnmoved, CacheUnmoved, NumberedKept, KnownKept DEF IInv

(* The last invalidation is over, and the handler idle. *)
LEMMA InvalidatedStep ==
  ASSUME IInv, NEW h \in Handlers, Invalidated(h)
  PROVE  IInv'
<1>1. TypeInv'
  BY DEF IInv, TypeInv, Invalidated, Becomes, HandlerStates
<1>2. /\ \A c \in Complaints : DetailBeingPurged(c) => DetailBeingPurged(c)'
      /\ \A f \in Filters : ListBeingPurged(f) => ListBeingPurged(f)'
  BY DEF IInv, TypeInv, Invalidated, Becomes, DetailBeingPurged, ListBeingPurged
<1>3. UNCHANGED <<row, detail, list, last, failures>> /\ Becomes(h, Idle)
  BY DEF Invalidated
<1>4. Idle.pc # "create" /\ Idle.pc # "fillList"
  BY DEF Idle
<1> QED
  BY <1>1, <1>2, <1>3, <1>4, CacheUnmoved, NumberedKept, KnownKept DEF IInv

(* A detail is filled with the row as it was read; if the row has not      *)
(* changed since, the entry is current.                                    *)
LEMMA FillDetailStep ==
  ASSUME IInv, NEW h \in Handlers, FillDetail(h)
  PROVE  IInv'
<1> DEFINE c == handler[h].cid
           v == handler[h].value
           e == Entry(v, v = row[c])
<1>1. c \in Complaints /\ v \in Status
  BY DEF IInv, TypeInv, HandlerStates, FillDetail, Idle
<1>2. e \in Entries(Status) /\ e.value = v /\ e.current = (v = row[c])
  BY <1>1 DEF Entry, Entries
<1>3. /\ detail' = [detail EXCEPT ![c] = e] /\ Becomes(h, Idle)
      /\ UNCHANGED <<row, list, last, failures>>
      /\ handler[h].pc # "invalidate"
  BY DEF FillDetail
<1>4. TypeInv'
  <2> HIDE DEF c, e
  <2> QED
    BY <1>1, <1>2, <1>3 DEF IInv, TypeInv, Becomes, HandlerStates
<1>5. /\ \A d \in Complaints : DetailBeingPurged(d) => DetailBeingPurged(d)'
      /\ \A f \in Filters : ListBeingPurged(f) => ListBeingPurged(f)'
  BY <1>3, PurgesUnmoved DEF IInv
<1>6. DetailIsCurrentOrPurged'
  <2> SUFFICES ASSUME NEW d \in Complaints, failures = 0, detail'[d] # Nothing,
                      detail'[d].value # row[d], detail'[d].current
               PROVE  DetailBeingPurged(d)'
    BY <1>3 DEF DetailIsCurrentOrPurged
  <2> HIDE DEF c, v, e
  <2>1. d # c /\ detail'[d] = detail[d]
    BY <1>1, <1>2, <1>3 DEF IInv, TypeInv
  <2> QED
    BY <1>5, <2>1 DEF IInv, DetailIsCurrentOrPurged
<1>7. Numbered' /\ KnownIsCommitted'
  <2>1. Idle.pc # "create" /\ Idle.pc # "fillList"
    BY DEF Idle
  <2> QED
    BY <1>3, <2>1, NumberedKept, KnownKept DEF IInv
<1>8. ListLacksOnlyLaterCommits'
  <2>1. \A f \in Filters : LacksOnlyLater(f, list[f].value) => LacksOnlyLater(f, list[f].value)'
    BY <1>3 DEF LacksOnlyLater, Matching, Committed
  <2> QED
    BY <1>3, <1>5, <2>1 DEF IInv, ListLacksOnlyLaterCommits
<1> QED
  BY <1>4, <1>6, <1>7, <1>8 DEF IInv

(* The same for a list: if the page is the one the database would give,    *)
(* PageIsRight says what it lacks.                                         *)
LEMMA FillListStep ==
  ASSUME IInv, NEW h \in Handlers, FillList(h)
  PROVE  IInv'
<1> DEFINE f == handler[h].filter
           v == handler[h].value
           e == Entry(v, v = Page(f, v.limit, v.known))
<1>1. f \in Filters /\ v \in Pages /\ v.limit \in Limits /\ v.known \in SUBSET Complaints
  BY DEF IInv, TypeInv, HandlerStates, FillList, Idle, Pages
<1>2. e \in Entries(Pages) /\ e.value = v /\ e.current = (v = Page(f, v.limit, v.known))
  BY <1>1 DEF Entry, Entries
<1>3. /\ list' = [list EXCEPT ![f] = e] /\ Becomes(h, Idle)
      /\ UNCHANGED <<row, detail, last, failures>>
      /\ handler[h].pc # "invalidate"
  BY DEF FillList
<1>4. TypeInv'
  <2> HIDE DEF f, e
  <2> QED
    BY <1>1, <1>2, <1>3 DEF IInv, TypeInv, Becomes, HandlerStates
<1>5. /\ \A d \in Complaints : DetailBeingPurged(d) => DetailBeingPurged(d)'
      /\ \A g \in Filters : ListBeingPurged(g) => ListBeingPurged(g)'
  BY <1>3, PurgesUnmoved DEF IInv
<1>6. e.current => LacksOnlyLater(f, v)
  BY <1>1, <1>2, PageIsRight DEF IInv
<1>7. \A g \in Filters : \A page : LacksOnlyLater(g, page) => LacksOnlyLater(g, page)'
  BY <1>3 DEF LacksOnlyLater, Matching, Committed
<1>8. ListLacksOnlyLaterCommits'
  <2> SUFFICES ASSUME NEW g \in Filters, failures = 0, list'[g] # Nothing, list'[g].current
               PROVE  ListBeingPurged(g)' \/ LacksOnlyLater(g, list[g].value)'
    BY <1>3 DEF ListLacksOnlyLaterCommits
  <2> HIDE DEF f, v, e
  <2>1. CASE g = f
    <3>1. list'[g] = e
      BY <1>1, <1>3, <2>1 DEF IInv, TypeInv
    <3>2. LacksOnlyLater(g, e.value)
      BY <1>2, <1>6, <2>1, <3>1
    <3>3. PICK page : page = e.value
      OBVIOUS
    <3> QED
      BY <1>7, <3>1, <3>2, <3>3
  <2>2. CASE g # f
    <3>1. list'[g] = list[g]
      BY <1>3, <2>2 DEF IInv, TypeInv
    <3>2. ListBeingPurged(g) \/ LacksOnlyLater(g, list[g].value)
      BY <3>1 DEF IInv, ListLacksOnlyLaterCommits
    <3>3. PICK page : page = list[g].value
      OBVIOUS
    <3> QED
      BY <1>5, <1>7, <3>1, <3>2, <3>3
  <2> QED
    BY <2>1, <2>2
<1>9. DetailIsCurrentOrPurged'
  BY <1>3, <1>5 DEF IInv, DetailIsCurrentOrPurged
<1>10. Numbered'
  <2>1. Idle.pc # "create"
    BY DEF Idle
  <2> QED
    BY <1>3, <2>1, NumberedKept DEF IInv
<1>11. KnownIsCommitted'
  <2> HIDE DEF f, e
  <2>1. v.known \subseteq Committed
    BY DEF IInv, KnownIsCommitted, FillList
  <2>2. Committed' = Committed
    BY <1>3 DEF Committed
  <2> HIDE DEF v
  <2>3. \A g \in Filters : list'[g] = IF g = f THEN e ELSE list[g]
    BY <1>3 DEF IInv, TypeInv
  <2>4. \A g \in Handlers : handler'[g] = IF g = h THEN Idle ELSE handler[g]
    BY <1>3 DEF IInv, TypeInv, Becomes
  <2>5. Idle.pc # "fillList"
    BY DEF Idle
  <2> QED
    BY <1>2, <2>1, <2>2, <2>3, <2>4, <2>5 DEF IInv, KnownIsCommitted
<1> QED
  BY <1>4, <1>8, <1>9, <1>10, <1>11 DEF IInv

-----------------------------------------------------------------------------
(* The writers. *)

(* The insertion takes a number above all that have been given. *)
LEMMA InsertComplaintStep ==
  ASSUME IInv, NEW h \in Handlers, InsertComplaint(h)
  PROVE  IInv'
<1> DEFINE c == last + 1
           s == [pc |-> "create", cid |-> c]
<1>1. /\ last' = c /\ Becomes(h, s) /\ UNCHANGED <<row, detail, list, failures>>
      /\ handler[h].pc # "invalidate" /\ last < MaxComplaints
  BY DEF InsertComplaint, Idle
<1>2. c \in Complaints /\ c \in 0 .. MaxComplaints /\ c > last
  BY <1>1, ComplaintsAssumption DEF ComplaintsAssumption, IInv, TypeInv, Complaints
<1>3. s \in HandlerStates /\ s.pc = "create" /\ s.cid = c
  BY <1>2 DEF HandlerStates
<1>4. TypeInv'
  <2> HIDE DEF c, s
  <2> QED
    BY <1>1, <1>2, <1>3 DEF IInv, TypeInv, Becomes
<1>5. \A g \in Handlers : handler'[g] = IF g = h THEN s ELSE handler[g]
  BY <1>1 DEF IInv, TypeInv, Becomes
<1>6. \A d \in Complaints : d > c => d > last
  BY DEF IInv, TypeInv, Complaints
<1>7. \A d \in Complaints : d <= last => d <= c /\ d # c
  BY DEF IInv, TypeInv, Complaints
<1>8. \A g \in Handlers : handler[g].pc = "create" => handler[g].cid \in Complaints
  BY DEF IInv, TypeInv, HandlerStates, Idle
<1>9. c <= c
  BY <1>2 DEF Complaints
<1> HIDE DEF c, s
<1>10. Numbered'
  <2>1. \A d \in Complaints : d > last' => row'[d] = NoRow
    BY <1>1, <1>6 DEF IInv, Numbered
  <2>2. ASSUME NEW g \in Handlers, handler'[g].pc = "create"
        PROVE  /\ handler'[g].cid <= last' /\ row'[handler'[g].cid] = NoRow
               /\ \A k \in Handlers \ {g} :
                    handler'[k].pc = "create" => handler'[k].cid # handler'[g].cid
    <3>1. CASE g = h
      BY <1>1, <1>2, <1>3, <1>5, <1>7, <1>8, <1>9, <3>1 DEF IInv, Numbered
    <3>2. CASE g # h
      BY <1>1, <1>2, <1>3, <1>5, <1>7, <1>8, <2>2, <3>2 DEF IInv, Numbered
    <3> QED
      BY <3>1, <3>2
  <2> QED
    BY <2>1, <2>2 DEF Numbered
<1>11. KnownIsCommitted'
  BY <1>1, <1>3, KnownKept DEF IInv
<1>12. DetailIsCurrentOrPurged' /\ ListLacksOnlyLaterCommits'
  BY <1>1, PurgesUnmoved, CacheUnmoved DEF IInv
<1> QED
  BY <1>4, <1>10, <1>11, <1>12 DEF IInv

(* A complaint just committed had no row, and no page knows of it. *)
LEMMA CommitComplaintStep ==
  ASSUME IInv, NEW h \in Handlers, CommitComplaint(h)
  PROVE  IInv'
<1> DEFINE c == handler[h].cid
<1>1. /\ handler[h].pc = "create"
      /\ row' = [row EXCEPT ![c] = "OPEN"] /\ Becomes(h, Idle)
      /\ UNCHANGED <<detail, list, last, failures>>
  BY DEF CommitComplaint
<1>2. c \in Complaints
  BY <1>1 DEF IInv, TypeInv, HandlerStates, Idle
<1>3. row[c] = NoRow /\ c <= last
  BY <1>1 DEF IInv, Numbered
<1>4. "OPEN" \in Status /\ NoRow \notin Status
  BY DEF Status, NoRow
<1>5. Idle \in HandlerStates /\ Idle.pc # "create" /\ Idle.pc # "fillList" /\ Idle.pc # "invalidate"
  BY DEF Idle, HandlerStates
<1>6. \A d \in Complaints : row'[d] = IF d = c THEN "OPEN" ELSE row[d]
  BY <1>1 DEF IInv, TypeInv
<1>7. \A g \in Handlers : handler'[g] = IF g = h THEN Idle ELSE handler[g]
  BY <1>1 DEF IInv, TypeInv, Becomes
<1>8. TypeInv'
  <2> HIDE DEF c
  <2> QED
    BY <1>1, <1>2, <1>4, <1>5 DEF IInv, TypeInv, Becomes
<1>9. /\ \A d \in Complaints : DetailBeingPurged(d) => DetailBeingPurged(d)'
      /\ \A f \in Filters : ListBeingPurged(f) => ListBeingPurged(f)'
  BY <1>1, PurgesUnmoved DEF IInv
<1>10. \A d \in Complaints : row[d] # NoRow => d # c /\ row'[d] = row[d]
  BY <1>3, <1>6
<1>11. c \notin Committed /\ Committed \subseteq Committed'
  BY <1>3, <1>10 DEF Committed
<1>12. \A g \in Handlers : handler[g].pc = "create" => handler[g].cid \in Complaints
  BY DEF IInv, TypeInv, HandlerStates, Idle
<1>13. Numbered'
  <2>1. \A d \in Complaints : d > last => d # c
    BY <1>2, <1>3 DEF IInv, TypeInv, Complaints
  <2>2. \A g \in Handlers : handler'[g].pc = "create" =>
           /\ g # h /\ handler'[g] = handler[g] /\ handler[g].cid # c
           /\ row'[handler[g].cid] = row[handler[g].cid]
    BY <1>1, <1>5, <1>6, <1>7, <1>12 DEF IInv, Numbered
  <2> HIDE DEF c
  <2> QED
    BY <1>1, <1>6, <2>1, <2>2 DEF IInv, Numbered
<1> HIDE DEF c
<1>14. KnownIsCommitted'
  BY <1>1, <1>5, <1>7, <1>11 DEF IInv, KnownIsCommitted
<1>15. DetailIsCurrentOrPurged'
  <2> SUFFICES ASSUME NEW d \in Complaints, failures = 0, detail[d] # Nothing,
                      detail[d].value # row'[d], detail[d].current
               PROVE  DetailBeingPurged(d)
    BY <1>1, <1>9 DEF DetailIsCurrentOrPurged
  <2>1. detail[d].value \in Status
    BY DEF IInv, TypeInv, Entries
  <2>2. detail[d].value # row[d]
    BY <1>3, <1>4, <1>6, <2>1
  <2> QED
    BY <2>2 DEF IInv, DetailIsCurrentOrPurged
<1>16. ASSUME NEW f \in Filters, NEW page, page.known \subseteq Committed, LacksOnlyLater(f, page)
       PROVE  LacksOnlyLater(f, page)'
  <2>1. \A d \in Matching(f) : d \in Matching(f)' /\ row'[d] = row[d]
    BY <1>10, <1>11 DEF Matching, Committed
  <2>2. \A d \in Matching(f)' : d = c \/ d \in Matching(f)
    BY <1>6 DEF Matching, Committed
  <2>3. c \notin page.known
    BY <1>11, <1>16
  <2> QED
    BY <1>16, <2>1, <2>2, <2>3 DEF LacksOnlyLater
<1>17. ListLacksOnlyLaterCommits'
  <2> SUFFICES ASSUME NEW f \in Filters, failures = 0, list[f] # Nothing, list[f].current
               PROVE  ListBeingPurged(f)' \/ LacksOnlyLater(f, list[f].value)'
    BY <1>1 DEF ListLacksOnlyLaterCommits
  <2>1. PICK page : page = list[f].value
    OBVIOUS
  <2>2. ListBeingPurged(f) \/ LacksOnlyLater(f, page)
    BY <2>1 DEF IInv, ListLacksOnlyLaterCommits
  <2>3. page.known \subseteq Committed
    BY <2>1 DEF IInv, KnownIsCommitted
  <2> QED
    BY <1>1, <1>9, <1>16, <2>1, <2>2, <2>3
<1> QED
  BY <1>8, <1>13, <1>14, <1>15, <1>17 DEF IInv

LEMMA RollBackComplaintStep ==
  ASSUME IInv, NEW h \in Handlers, RollBackComplaint(h)
  PROVE  IInv'
<1>1. /\ Becomes(h, Idle) /\ UNCHANGED <<row, detail, list, last, failures>>
      /\ handler[h].pc # "invalidate"
  BY DEF RollBackComplaint
<1>2. Idle \in HandlerStates /\ Idle.pc # "create" /\ Idle.pc # "fillList"
  BY DEF Idle, HandlerStates
<1>3. TypeInv'
  BY <1>1, <1>2 DEF IInv, TypeInv, Becomes
<1> QED
  BY <1>1, <1>2, <1>3, PurgesUnmoved, CacheUnmoved, NumberedKept, KnownKept DEF IInv

(* A change that is committed has its handler purge the detail of the      *)
(* complaint and every list.                                               *)
LEMMA ChangeStep ==
  ASSUME IInv, NEW h \in Handlers, NEW c \in Complaints, NEW to \in Status, Change(h, c, to)
  PROVE  IInv'
<1> DEFINE s == [pc |-> "invalidate", cid |-> c, detail |-> TRUE, keys |-> Filters]
<1>1. /\ row[c] # NoRow /\ row' = [row EXCEPT ![c] = to]
      /\ Becomes(h, s) /\ UNCHANGED <<detail, list, last, failures>>
      /\ handler[h].pc # "invalidate"
  BY DEF Change, Idle
<1>2. s \in HandlerStates
  BY DEF HandlerStates
<1>3. TypeInv'
  <2> HIDE DEF s
  <2> QED
    BY <1>1, <1>2 DEF IInv, TypeInv, Becomes
<1>4. handler'[h] = s
  BY <1>1 DEF IInv, TypeInv, Becomes
<1>5. DetailBeingPurged(c)' /\ \A f \in Filters : ListBeingPurged(f)'
  BY <1>4 DEF DetailBeingPurged, ListBeingPurged
<1>6. \A d \in Complaints : DetailBeingPurged(d) => DetailBeingPurged(d)'
  <2> HIDE DEF s
  <2> QED
    BY <1>1, PurgesUnmoved DEF IInv
<1>7. \A d \in Complaints : d # c => row'[d] = row[d]
  BY <1>1 DEF IInv, TypeInv
<1>8. DetailIsCurrentOrPurged'
  BY <1>1, <1>5, <1>6, <1>7 DEF IInv, DetailIsCurrentOrPurged
<1>9. ListLacksOnlyLaterCommits'
  BY <1>5 DEF ListLacksOnlyLaterCommits
<1>10. \A d \in Complaints : row'[d] = NoRow <=> row[d] = NoRow
  <2>1. to # NoRow
    BY DEF Status, NoRow
  <2> QED
    BY <1>1, <1>7, <2>1 DEF IInv, TypeInv
<1>11. \A g \in Handlers : handler'[g] = IF g = h THEN s ELSE handler[g]
  BY <1>1 DEF IInv, TypeInv, Becomes
<1>12. s.pc # "create" /\ s.pc # "fillList"
  OBVIOUS
<1>13. \A g \in Handlers : handler[g].pc = "create" => handler[g].cid \in Complaints
  BY DEF IInv, TypeInv, HandlerStates, Idle
<1> HIDE DEF s
<1>14. Numbered'
  BY <1>1, <1>10, <1>11, <1>12, <1>13 DEF IInv, Numbered
<1>15. KnownIsCommitted'
  <2>1. Committed' = Committed
    BY <1>10 DEF Committed
  <2> QED
    BY <1>1, <1>11, <1>12, <2>1 DEF IInv, KnownIsCommitted
<1> QED
  BY <1>3, <1>8, <1>9, <1>14, <1>15 DEF IInv

-----------------------------------------------------------------------------
(* The invalidations: what a handler stops purging, it has purged.         *)
LEMMA InvalidateDetailStep ==
  ASSUME IInv, NEW h \in Handlers, InvalidateDetail(h)
  PROVE  IInv'
<1> DEFINE c == handler[h].cid
           s == [handler[h] EXCEPT !.detail = FALSE]
<1>1. /\ handler[h].pc = "invalidate"
      /\ detail' = [detail EXCEPT ![c] = Nothing] /\ Becomes(h, s)
      /\ UNCHANGED <<row, list, last, failures>>
  BY DEF InvalidateDetail
<1>2. handler[h] \in [pc : {"invalidate"}, cid : Complaints, detail : BOOLEAN, keys : SUBSET Filters]
  BY <1>1 DEF IInv, TypeInv, HandlerStates, Idle
<1>3. c \in Complaints /\ s \in HandlerStates /\ s.pc = "invalidate" /\ s.keys = handler[h].keys
  BY <1>2 DEF HandlerStates
<1>4. TypeInv'
  <2> HIDE DEF s, c
  <2> QED
    BY <1>1, <1>3 DEF IInv, TypeInv, Becomes
<1>5. handler' \in [Handlers -> HandlerStates] /\ handler'[h] = s
      /\ \A g \in Handlers : g # h => handler'[g] = handler[g]
  <2> HIDE DEF s, c
  <2> QED
    BY <1>1, <1>4 DEF IInv, TypeInv, Becomes
<1>6. \A d \in Complaints : d # c /\ DetailBeingPurged(d) => DetailBeingPurged(d)'
  <2> HIDE DEF s
  <2> QED
    BY <1>5 DEF DetailBeingPurged
<1>7. \A f \in Filters : ListBeingPurged(f) => ListBeingPurged(f)'
  <2> HIDE DEF s, c
  <2> QED
    BY <1>3, <1>5 DEF ListBeingPurged
<1> HIDE DEF s, c
<1>8. DetailIsCurrentOrPurged'
  BY <1>1, <1>3, <1>6 DEF IInv, TypeInv, DetailIsCurrentOrPurged
<1>9. ListLacksOnlyLaterCommits'
  <2>1. \A f \in Filters : LacksOnlyLater(f, list[f].value) => LacksOnlyLater(f, list[f].value)'
    BY <1>1 DEF LacksOnlyLater, Matching, Committed
  <2> QED
    BY <1>1, <1>7, <2>1 DEF IInv, ListLacksOnlyLaterCommits
<1>10. Numbered' /\ KnownIsCommitted'
  BY <1>1, <1>3, NumberedKept, KnownKept DEF IInv
<1> QED
  BY <1>4, <1>8, <1>9, <1>10 DEF IInv

LEMMA InvalidateListStep ==
  ASSUME IInv, NEW h \in Handlers, NEW f \in Filters, InvalidateList(h, f)
  PROVE  IInv'
<1> DEFINE s == [handler[h] EXCEPT !.keys = @ \ {f}]
<1>1. /\ handler[h].pc = "invalidate"
      /\ list' = [list EXCEPT ![f] = Nothing] /\ Becomes(h, s)
      /\ UNCHANGED <<row, detail, last, failures>>
  BY DEF InvalidateList
<1>2. handler[h] \in [pc : {"invalidate"}, cid : Complaints, detail : BOOLEAN, keys : SUBSET Filters]
  BY <1>1 DEF IInv, TypeInv, HandlerStates, Idle
<1>3. /\ s \in HandlerStates /\ s.pc = "invalidate" /\ s.keys = handler[h].keys \ {f}
      /\ s.cid = handler[h].cid /\ s.detail = handler[h].detail
  BY <1>2 DEF HandlerStates
<1> HIDE DEF s
<1>4. TypeInv'
  BY <1>1, <1>3 DEF IInv, TypeInv, Becomes
<1>5. handler'[h] = s /\ \A g \in Handlers : g # h => handler'[g] = handler[g]
  BY <1>1 DEF IInv, TypeInv, Becomes
<1>6. \A d \in Complaints : DetailBeingPurged(d) => DetailBeingPurged(d)'
  BY <1>3, <1>5 DEF DetailBeingPurged
<1>7. \A g \in Filters : g # f /\ ListBeingPurged(g) => ListBeingPurged(g)'
  BY <1>3, <1>5 DEF ListBeingPurged
<1>8. list'[f] = Nothing /\ \A g \in Filters : g # f => list'[g] = list[g]
  BY <1>1 DEF IInv, TypeInv
<1>9. \A g \in Filters : \A page : LacksOnlyLater(g, page) => LacksOnlyLater(g, page)'
  BY <1>1 DEF LacksOnlyLater, Matching, Committed
<1>10. ListLacksOnlyLaterCommits'
  <2> SUFFICES ASSUME NEW g \in Filters, failures = 0, list'[g] # Nothing, list'[g].current
               PROVE  ListBeingPurged(g)' \/ LacksOnlyLater(g, list[g].value)'
    BY <1>1 DEF ListLacksOnlyLaterCommits
  <2>1. PICK page : page = list[g].value
    OBVIOUS
  <2>2. g # f /\ list'[g] = list[g]
    BY <1>8
  <2>3. ListBeingPurged(g) \/ LacksOnlyLater(g, page)
    BY <2>1, <2>2 DEF IInv, ListLacksOnlyLaterCommits
  <2> QED
    BY <1>7, <1>9, <2>1, <2>2, <2>3
<1>11. DetailIsCurrentOrPurged'
  BY <1>1, <1>6 DEF IInv, DetailIsCurrentOrPurged
<1>12. Numbered'
  BY <1>1, <1>3, NumberedKept DEF IInv
<1>13. KnownIsCommitted'
  <2>1. Committed' = Committed
    BY <1>1 DEF Committed
  <2> QED
    BY <1>3, <1>5, <1>8, <2>1 DEF IInv, KnownIsCommitted
<1> QED
  BY <1>4, <1>10, <1>11, <1>12, <1>13 DEF IInv

(* Once an invalidation has failed, nothing more is claimed. *)
LEMMA InvalidationFailsStep ==
  ASSUME IInv, NEW h \in Handlers, InvalidationFails(h)
  PROVE  IInv'
<1>1. PICK s \in {[handler[h] EXCEPT !.detail = FALSE], [handler[h] EXCEPT !.keys = {}]} :
        Becomes(h, s)
  BY DEF InvalidationFails
<1>2. handler[h] \in [pc : {"invalidate"}, cid : Complaints, detail : BOOLEAN, keys : SUBSET Filters]
  BY DEF IInv, TypeInv, HandlerStates, Idle, InvalidationFails
<1>3. s \in HandlerStates /\ s.pc = "invalidate"
  BY <1>2 DEF HandlerStates
<1>4. failures' = failures + 1 /\ UNCHANGED <<row, detail, list, last>>
  BY DEF InvalidationFails
<1>5. TypeInv'
  BY <1>1, <1>3, <1>4 DEF IInv, TypeInv, Becomes
<1>6. failures' # 0
  BY <1>4 DEF IInv, TypeInv
<1>7. Numbered' /\ KnownIsCommitted'
  BY <1>1, <1>3, <1>4, NumberedKept, KnownKept DEF IInv
<1> QED
  BY <1>4, <1>5, <1>6, <1>7 DEF IInv, DetailIsCurrentOrPurged, ListLacksOnlyLaterCommits

(* The times to live. *)
LEMMA ExpireDetailStep ==
  ASSUME IInv, NEW c \in Complaints, ExpireDetail(c)
  PROVE  IInv'
<1>1. detail' = [detail EXCEPT ![c] = Nothing] /\ UNCHANGED <<row, list, handler, last, failures>>
  BY DEF ExpireDetail
<1>2. TypeInv'
  BY <1>1 DEF IInv, TypeInv
<1>3. Numbered' /\ KnownIsCommitted' /\ DetailIsCurrentOrPurged'
  BY <1>1
  DEF IInv, TypeInv, Numbered, KnownIsCommitted, Committed, DetailIsCurrentOrPurged, DetailBeingPurged
<1>4. \A f \in Filters : LacksOnlyLater(f, list[f].value) => LacksOnlyLater(f, list[f].value)'
  BY <1>1 DEF LacksOnlyLater, Matching, Committed
<1>5. ListLacksOnlyLaterCommits'
  BY <1>1, <1>4 DEF IInv, ListLacksOnlyLaterCommits, ListBeingPurged
<1> QED
  BY <1>2, <1>3, <1>5 DEF IInv

LEMMA ExpireListStep ==
  ASSUME IInv, NEW f \in Filters, ExpireList(f)
  PROVE  IInv'
<1>1. list' = [list EXCEPT ![f] = Nothing] /\ UNCHANGED <<row, detail, handler, last, failures>>
  BY DEF ExpireList
<1>2. TypeInv'
  BY <1>1 DEF IInv, TypeInv
<1>3. Numbered' /\ DetailIsCurrentOrPurged'
  BY <1>1 DEF IInv, Numbered, DetailIsCurrentOrPurged, DetailBeingPurged
<1>4. \A g \in Filters : g # f => list'[g] = list[g]
  BY <1>1 DEF IInv, TypeInv
<1>5. list'[f] = Nothing
  BY <1>1 DEF IInv, TypeInv
<1>6. \A g \in Filters : \A page : LacksOnlyLater(g, page) => LacksOnlyLater(g, page)'
  BY <1>1 DEF LacksOnlyLater, Matching, Committed
<1>7. ListLacksOnlyLaterCommits'
  <2> SUFFICES ASSUME NEW g \in Filters, failures = 0, list'[g] # Nothing, list'[g].current
               PROVE  ListBeingPurged(g)' \/ LacksOnlyLater(g, list[g].value)'
    BY <1>1 DEF ListLacksOnlyLaterCommits
  <2>1. PICK page : page = list[g].value
    OBVIOUS
  <2>2. list'[g] = list[g]
    BY <1>4, <1>5
  <2>3. ListBeingPurged(g) \/ LacksOnlyLater(g, page)
    BY <2>1, <2>2 DEF IInv, ListLacksOnlyLaterCommits
  <2>4. ListBeingPurged(g) => ListBeingPurged(g)'
    BY <1>1 DEF ListBeingPurged
  <2> QED
    BY <1>6, <2>1, <2>2, <2>3, <2>4
<1>8. KnownIsCommitted'
  BY <1>1, <1>4, <1>5 DEF IInv, KnownIsCommitted, Committed
<1> QED
  BY <1>2, <1>3, <1>7, <1>8 DEF IInv

-----------------------------------------------------------------------------
LEMMA InitInv == Init => IInv
<1> SUFFICES ASSUME Init PROVE IInv
  OBVIOUS
<1>1. TypeInv
  BY ComplaintsAssumption DEF Init, TypeInv, HandlerStates, ComplaintsAssumption
<1>2. Numbered /\ KnownIsCommitted /\ DetailIsCurrentOrPurged /\ ListLacksOnlyLaterCommits
  BY DEF Init, Numbered, KnownIsCommitted, Idle, DetailIsCurrentOrPurged, ListLacksOnlyLaterCommits
<1> QED
  BY <1>1, <1>2 DEF IInv

LEMMA NextInv == IInv /\ [Next]_vars => IInv'
<1> SUFFICES ASSUME IInv, [Next]_vars PROVE IInv'
  OBVIOUS
<1>1. ASSUME NEW h \in Handlers,
             InsertComplaint(h) \/ CommitComplaint(h) \/ RollBackComplaint(h)
      PROVE  IInv'
  BY <1>1, InsertComplaintStep, CommitComplaintStep, RollBackComplaintStep
<1>2. ASSUME NEW h \in Handlers, NEW c \in Complaints, LookUpDetail(h, c) PROVE IInv'
  BY <1>2, LookUpDetailStep
<1>3. ASSUME NEW h \in Handlers, NEW c \in Complaints, NEW to \in Status, Change(h, c, to)
      PROVE IInv'
  BY <1>3, ChangeStep
<1>4. ASSUME NEW h \in Handlers,
             QueryDetail(h) \/ FillDetail(h) \/ QueryList(h) \/ FillList(h)
      PROVE  IInv'
  BY <1>4, QueryDetailStep, FillDetailStep, QueryListStep, FillListStep
<1>5. ASSUME NEW h \in Handlers, NEW f \in Filters, NEW n \in Limits, LookUpList(h, f, n)
      PROVE  IInv'
  BY <1>5, LookUpListStep
<1>6. ASSUME NEW h \in Handlers, NEW f \in Filters, InvalidateList(h, f) PROVE IInv'
  BY <1>6, InvalidateListStep
<1>7. ASSUME NEW h \in Handlers,
             InvalidateDetail(h) \/ InvalidationFails(h) \/ Invalidated(h)
      PROVE  IInv'
  BY <1>7, InvalidateDetailStep, InvalidationFailsStep, InvalidatedStep
<1>8. ASSUME NEW c \in Complaints, ExpireDetail(c) PROVE IInv'
  BY <1>8, ExpireDetailStep
<1>9. ASSUME NEW f \in Filters, ExpireList(f) PROVE IInv'
  BY <1>9, ExpireListStep
<1>10. CASE UNCHANGED vars
  BY <1>10
  DEF IInv, vars, TypeInv, Numbered, KnownIsCommitted, Committed, DetailIsCurrentOrPurged,
      DetailBeingPurged, ListLacksOnlyLaterCommits, ListBeingPurged, LacksOnlyLater, Matching
<1> QED
  BY <1>1, <1>2, <1>3, <1>4, <1>5, <1>6, <1>7, <1>8, <1>9, <1>10 DEF Next

(* The values of the cache, of the handlers and of the database are those  *)
(* the code can put there (complaint.cache.ts, complaint.controller.ts).   *)
THEOREM CacheTypes == Spec => []TypeInv
<1>1. Spec => []IInv
  BY InitInv, NextInv, PTL DEF Spec
<1> QED
  BY <1>1, PTL DEF IInv

(* As long as no invalidation has thrown, a detail entry that was right    *)
(* when it was set (setCachedDetail) stays right or is about to be deleted *)
(* by invalidateDetail: a stale one was set late by a reader.              *)
THEOREM DetailsCurrentOrPurged == Spec => []DetailIsCurrentOrPurged
<1>1. Spec => []IInv
  BY InitInv, NextInv, PTL DEF Spec
<1> QED
  BY <1>1, PTL DEF IInv

(* The same for the first pages that listComplaints caches and             *)
(* invalidateListKeys deletes, whatever the page sizes that share a key    *)
(* and in whatever order the POSTs commit: what such a page lacks was      *)
(* committed after the query, or is older than the full page.              *)
THEOREM ListsLackOnlyLaterCommits == Spec => []ListLacksOnlyLaterCommits
<1>1. Spec => []IInv
  BY InitInv, NextInv, PTL DEF Spec
<1> QED
  BY <1>1, PTL DEF IInv

=============================================================================

------------------------- MODULE AdminDeskProofs -------------------------
(***************************************************************************)
(* Proofs about AdminService, for any number of concurrent requests,       *)
(* complaints and departments, with a failure possible at every step; and  *)
(* about what stands on top of it: the pages of AdminDesk, and the seed    *)
(* scripts and the report of DemoSeed.                                     *)
(*                                                                         *)
(* AnswersTell says nothing of a request at an earlier step than the       *)
(* answer, OneCreatorOfAName nothing of the name a request has inserted:   *)
(* Progress and NamesKept fill these gaps.  ToastMeansListed speaks of the *)
(* end of a mutation and of what is shown: ToldWhenAssigned and            *)
(* FetchedAfter speak of it from its answer on, and of what a fetch that   *)
(* is still under way has read.                                            *)
(* RerunConverges and DemoShowsViolations speak of the end of a script and *)
(* of a report: ComplaintsSeeded, AdminSeeded and Reported speak of them   *)
(* at every statement, and at every row of the list.                       *)
(***************************************************************************)
EXTENDS AdminDesk, DemoSeed, SequenceTheorems, TLAPS

Answered == {"assigned", "created", "notFound", "exists", "failed"}

Steps == {"idle"} \cup Working \cup Answered

Row == [request : Requests, complaint : Complaints, department : Departments]

TypeInv ==
  /\ department \in SUBSET Departments
  /\ assignment \in Seq(Row)
  /\ asked \in [Requests -> [complaint : Complaints \cup {None}, department : Departments \cup {None}]]
  /\ at \in [Requests -> Steps]

(* CallAssign names a complaint and a department, CallCreate a department. *)
Named ==
  \A r \in Requests :
    /\ at[r] \in {"lookUp", "findDepartment", "insert"} => asked[r].complaint \in Complaints
    /\ at[r] \in {"lookUp", "findDepartment", "insert", "checkName", "insertName"} =>
         asked[r].department \in Departments

(* A request has a row from its INSERT on, and never a second one. *)
Progress ==
  \A r \in Requests :
    /\ RowsOf(r) # {} => at[r] \in {"publish", "assigned", "failed"}
    /\ at[r] \in {"publish", "assigned"} => RowsOf(r) # {}

(* Names are never removed: the one a request was told 201 for is there. *)
NamesKept == \A r \in Requests : at[r] = "created" => asked[r].department \in department

ServiceInv == TypeInv /\ Named /\ Progress /\ NamesKept /\ AnswersTell /\ OneCreatorOfAName

-----------------------------------------------------------------------------
(* The steps are told apart by their names. *)
LEMMA StepFacts ==
  /\ Working \subseteq Steps /\ Answered \subseteq Steps
  /\ "created" \notin Working /\ "idle" \notin Working /\ "assigned" \notin Working
BY DEF Steps, Working, Answered

(* What depends on the tables alone outlives a step that leaves them. *)
LEMMA RowsUnchanged ==
  ASSUME UNCHANGED assignment, NEW r \in Requests
  PROVE  RowsOf(r)' = RowsOf(r)
BY DEF RowsOf

(* Every row names the request that made it. *)
LEMMA RowFacts ==
  ASSUME TypeInv, NEW i \in DOMAIN assignment
  PROVE  assignment[i].request \in Requests /\ i \in RowsOf(assignment[i].request)
<1>1. DOMAIN assignment = 1 .. Len(assignment) /\ assignment \in Seq(Row)
  BY DEF TypeInv
<1>2. assignment[i] \in Row
  BY <1>1, ElementOfSeq
<1> QED
  BY <1>2 DEF Row, RowsOf

(* Empty tables. *)
LEMMA ServiceInvInit == ServiceInit => ServiceInv
<1> SUFFICES ASSUME ServiceInit PROVE ServiceInv
  OBVIOUS
<1>1. \A r \in Requests : at[r] = "idle" /\ RowsOf(r) = {}
  BY DEF ServiceInit, RowsOf
<1>2. TypeInv
  BY DEF ServiceInit, TypeInv, Steps, NoArguments
<1>3. Named /\ Progress /\ NamesKept
  BY <1>1 DEF Named, Progress, NamesKept
<1>4. AnswersTell /\ OneCreatorOfAName
  BY <1>1 DEF ServiceInit, AnswersTell, OneCreatorOfAName
<1> QED
  BY <1>2, <1>3, <1>4 DEF ServiceInv

(* A step that moves one request between two places before the INSERT, or  *)
(* to an answer that promises nothing, leaves the rest as it is.           *)
LEMMA MoveInv ==
  ASSUME ServiceInv, NEW r \in Requests, NEW step \in Steps \ {"publish", "assigned", "created"},
         at[r] # "failed", at[r] # "assigned",
         at[r] = "publish" => step = "failed",
         at' = [at EXCEPT ![r] = step],
         UNCHANGED <<department, assignment, announced>>,
         \A q \in Requests : q # r => asked'[q] = asked[q],
         asked' \in [Requests -> [complaint : Complaints \cup {None}, department : Departments \cup {None}]],
         step \in {"lookUp", "findDepartment", "insert"} => asked'[r].complaint \in Complaints,
         step \in {"lookUp", "findDepartment", "insert", "checkName", "insertName"} =>
           asked'[r].department \in Departments
  PROVE  ServiceInv'
<1> USE DEF ServiceInv, TypeInv
<1>1. TypeInv'
  OBVIOUS
<1>2. \A q \in Requests : RowsOf(q)' = RowsOf(q)
  BY RowsUnchanged
<1>3. \A q \in Requests : at'[q] = IF q = r THEN step ELSE at[q]
  OBVIOUS
<1>4. Named'
  BY <1>3 DEF Named
<1>5. Progress'
  BY <1>2, <1>3 DEF Progress
<1>6. NamesKept'
  BY <1>3 DEF NamesKept
<1>7. AnswersTell'
  <2>1. ASSUME NEW q \in Requests
        PROVE  /\ at'[q] = "assigned" => RowsOf(q)' # {} /\ q \in announced'
               /\ at'[q] \in {"notFound", "created", "exists"} => RowsOf(q)' = {}
               /\ q \in announced' => RowsOf(q)' # {}
               /\ \A i, j \in RowsOf(q)' : i = j
    BY <1>2, <1>3 DEF AnswersTell, Progress
  <2>2. ASSUME NEW i \in DOMAIN assignment
        PROVE  assignment[i].request \in announced \/ at'[assignment[i].request] \in {"publish", "failed"}
    <3>1. assignment[i].request \in Requests
      BY RowFacts
    <3>2. i \in RowsOf(assignment[i].request)
      BY RowFacts
    <3>3. at[r] = "publish" \/ assignment[i].request # r
      BY <3>1, <3>2 DEF Progress
    <3> QED
      BY <1>3, <3>1, <3>3 DEF AnswersTell
  <2> QED
    BY <2>1, <2>2 DEF AnswersTell
<1>8. OneCreatorOfAName'
  BY <1>3 DEF OneCreatorOfAName
<1> QED
  BY <1>1, <1>4, <1>5, <1>6, <1>7, <1>8

(* The INSERT: the first row of the request, in a department that exists.  *)
LEMMA InsertAssignmentInv ==
  ASSUME ServiceInv, NEW r \in Requests, NEW next \in {"publish", "failed"},
         InsertAssignment(r, next)
  PROVE  ServiceInv'
<1> USE DEF ServiceInv, TypeInv
<1>1. at[r] = "insert" /\ UNCHANGED <<department, announced, asked>>
  BY DEF InsertAssignment
<1>2. NewRow(r) \in Row
  BY <1>1 DEF NewRow, Row, Named
<1>3. /\ assignment' \in Seq(Row)
      /\ DOMAIN assignment' = DOMAIN assignment \cup {Len(assignment) + 1}
      /\ Len(assignment) + 1 \notin DOMAIN assignment
      /\ \A i \in DOMAIN assignment : assignment'[i] = assignment[i]
      /\ assignment'[Len(assignment) + 1] = NewRow(r)
  BY <1>2, AppendProperties DEF InsertAssignment
<1>4. \A q \in Requests : at'[q] = IF q = r THEN next ELSE at[q]
  BY DEF InsertAssignment, GoTo
<1>5. TypeInv'
  BY <1>1, <1>3 DEF InsertAssignment, GoTo, Steps, Working, Answered
<1>6. NewRow(r).request = r /\ NewRow(r).department \in department
  BY DEF NewRow, InsertAssignment
<1>7. RowsOf(r) = {}
  BY <1>1 DEF Progress
<1>8. RowsOf(r)' = {Len(assignment) + 1}
  BY <1>3, <1>6, <1>7 DEF RowsOf
<1>9. \A q \in Requests : q # r => RowsOf(q)' = RowsOf(q)
  BY <1>3, <1>6 DEF RowsOf
<1>10. Named' /\ NamesKept'
  BY <1>1, <1>4 DEF Named, NamesKept
<1>11. Progress'
  BY <1>4, <1>8, <1>9 DEF Progress
<1>12. AnswersTell'
  <2>1. ASSUME NEW q \in Requests
        PROVE  /\ at'[q] = "assigned" => RowsOf(q)' # {} /\ q \in announced'
               /\ at'[q] \in {"notFound", "created", "exists"} => RowsOf(q)' = {}
               /\ q \in announced' => RowsOf(q)' # {}
               /\ \A i, j \in RowsOf(q)' : i = j
    <3>1. CASE q = r
      BY <1>4, <1>8, <3>1
    <3>2. CASE q # r
      BY <1>1, <1>4, <1>9, <3>2 DEF AnswersTell
    <3> QED
      BY <3>1, <3>2
  <2>2. ASSUME NEW i \in DOMAIN assignment'
        PROVE  assignment'[i].request \in announced' \/ at'[assignment'[i].request] \in {"publish", "failed"}
    <3>1. CASE i \in DOMAIN assignment
      <4>1. assignment[i].request \in Requests /\ assignment[i].request # r
        BY <1>7, <3>1, RowFacts
      <4> QED
        BY <1>1, <1>3, <1>4, <3>1, <4>1 DEF AnswersTell
    <3>2. CASE i = Len(assignment) + 1
      BY <1>3, <1>4, <1>6, <3>2
    <3> QED
      BY <1>3, <2>2, <3>1, <3>2
  <2> QED
    BY <2>1, <2>2 DEF AnswersTell
<1>13. OneCreatorOfAName'
  BY <1>1, <1>3, <1>4, <1>6 DEF OneCreatorOfAName
<1> QED
  BY <1>5, <1>10, <1>11, <1>12, <1>13

(* The event follows its row. *)
LEMMA PublishAssignedInv ==
  ASSUME ServiceInv, NEW r \in Requests, NEW next \in {"assigned", "failed"},
         PublishAssigned(r, next)
  PROVE  ServiceInv'
<1> USE DEF ServiceInv, TypeInv
<1>1. /\ at[r] = "publish" /\ announced' = announced \cup {r}
      /\ UNCHANGED <<department, assignment, asked>>
  BY DEF PublishAssigned
<1>2. \A q \in Requests : at'[q] = IF q = r THEN next ELSE at[q]
  BY DEF PublishAssigned, GoTo
<1>3. \A q \in Requests : RowsOf(q)' = RowsOf(q)
  BY <1>1, RowsUnchanged
<1>4. TypeInv'
  BY <1>1 DEF PublishAssigned, GoTo, Steps, Working, Answered
<1>5. Named' /\ NamesKept'
  BY <1>1, <1>2 DEF Named, NamesKept
<1>6. RowsOf(r) # {}
  BY <1>1 DEF Progress
<1>7. Progress'
  BY <1>2, <1>3, <1>6 DEF Progress
<1>8. AnswersTell'
  <2>1. ASSUME NEW q \in Requests
        PROVE  /\ at'[q] = "assigned" => RowsOf(q)' # {} /\ q \in announced'
               /\ at'[q] \in {"notFound", "created", "exists"} => RowsOf(q)' = {}
               /\ q \in announced' => RowsOf(q)' # {}
               /\ \A i, j \in RowsOf(q)' : i = j
    BY <1>1, <1>2, <1>3, <1>6 DEF AnswersTell
  <2>2. ASSUME NEW i \in DOMAIN assignment
        PROVE  assignment[i].request \in announced' \/ at'[assignment[i].request] \in {"publish", "failed"}
    <3>1. assignment[i].request \in Requests
      BY RowFacts
    <3> QED
      BY <1>1, <1>2, <3>1 DEF AnswersTell
  <2> QED
    BY <1>1, <2>1, <2>2 DEF AnswersTell
<1>9. OneCreatorOfAName'
  BY <1>1, <1>2 DEF OneCreatorOfAName
<1> QED
  BY <1>4, <1>5, <1>7, <1>8, <1>9

(* The unique index lets the name in once. *)
LEMMA InsertNameInv ==
  ASSUME ServiceInv, NEW r \in Requests, NEW next \in {"created", "failed"},
         InsertName(r, next)
  PROVE  ServiceInv'
<1> USE DEF ServiceInv, TypeInv
<1>1. /\ at[r] = "insertName" /\ asked[r].department \notin department
      /\ department' = department \cup {asked[r].department}
      /\ UNCHANGED <<assignment, announced, asked>>
  BY DEF InsertName
<1>2. \A q \in Requests : at'[q] = IF q = r THEN next ELSE at[q]
  BY DEF InsertName, GoTo
<1>3. \A q \in Requests : RowsOf(q)' = RowsOf(q)
  BY <1>1, RowsUnchanged
<1>4. TypeInv'
  <2>1. asked[r].department \in Departments
    BY <1>1 DEF Named
  <2> QED
    BY <1>1, <2>1 DEF InsertName, GoTo, Steps, Working, Answered
<1>5. Named' /\ NamesKept'
  BY <1>1, <1>2 DEF Named, NamesKept
<1>6. RowsOf(r) = {}
  BY <1>1 DEF Progress
<1>7. Progress'
  BY <1>2, <1>3, <1>6 DEF Progress
<1>8. AnswersTell'
  <2>1. ASSUME NEW q \in Requests
        PROVE  /\ at'[q] = "assigned" => RowsOf(q)' # {} /\ q \in announced'
               /\ at'[q] \in {"notFound", "created", "exists"} => RowsOf(q)' = {}
               /\ q \in announced' => RowsOf(q)' # {}
               /\ \A i, j \in RowsOf(q)' : i = j
    BY <1>1, <1>2, <1>3, <1>6 DEF AnswersTell
  <2>2. ASSUME NEW i \in DOMAIN assignment
        PROVE  assignment[i].request \in announced \/ at'[assignment[i].request] \in {"publish", "failed"}
    <3>1. assignment[i].request \in Requests /\ assignment[i].request # r
      BY <1>6, RowFacts
    <3> QED
      BY <1>2, <3>1 DEF AnswersTell
  <2> QED
    BY <1>1, <2>1, <2>2 DEF AnswersTell
<1>9. OneCreatorOfAName'
  BY <1>1, <1>2 DEF OneCreatorOfAName, NamesKept
<1> QED
  BY <1>4, <1>5, <1>7, <1>8, <1>9

(* Every other step of a request, its call and its failure among them.     *)
LEMMA OtherStepsInv ==
  ASSUME ServiceInv, NEW r \in Requests,
         \/ \E k \in Complaints, d \in Departments : CallAssign(r, k, d)
         \/ \E d \in Departments : CallCreate(r, d)
         \/ LookUpComplaint(r, complaint[asked[r].complaint])
         \/ FindDepartment(r) \/ CheckName(r) \/ Fail(r)
  PROVE  ServiceInv'
<1> USE DEF GoTo, ServiceInv, TypeInv
<1>1. ASSUME NEW k \in Complaints, NEW d \in Departments, CallAssign(r, k, d) PROVE ServiceInv'
  BY <1>1, MoveInv DEF CallAssign, Steps, Working, Answered
<1>2. ASSUME NEW d \in Departments, CallCreate(r, d) PROVE ServiceInv'
  BY <1>2, MoveInv DEF CallCreate, Steps, Working, Answered
<1>3. ASSUME LookUpComplaint(r, complaint[asked[r].complaint]) PROVE ServiceInv'
  <2>1. PICK step \in {"notFound", "findDepartment"} : at' = [at EXCEPT ![r] = step]
    BY <1>3 DEF LookUpComplaint
  <2> QED
    BY <1>3, <2>1, MoveInv DEF LookUpComplaint, Steps, Working, Answered, Named
<1>4. ASSUME FindDepartment(r) PROVE ServiceInv'
  <2>1. PICK step \in {"notFound", "insert"} : at' = [at EXCEPT ![r] = step]
    BY <1>4 DEF FindDepartment
  <2> QED
    BY <1>4, <2>1, MoveInv DEF FindDepartment, Steps, Working, Answered, Named
<1>5. ASSUME CheckName(r) PROVE ServiceInv'
  <2>1. PICK step \in {"exists", "insertName"} : at' = [at EXCEPT ![r] = step]
    BY <1>5 DEF CheckName
  <2> QED
    BY <1>5, <2>1, MoveInv DEF CheckName, Steps, Working, Answered, Named
<1>6. ASSUME Fail(r) PROVE ServiceInv'
  BY <1>6, MoveInv DEF Fail, Steps, Working, Answered
<1> QED
  BY <1>1, <1>2, <1>3, <1>4, <1>5, <1>6

LEMMA ServiceStepInv ==
  ASSUME ServiceInv, [ServiceNext]_serviceVars
  PROVE  ServiceInv'
<1>1. CASE UNCHANGED <<department, assignment, announced, asked, at>>
  BY <1>1 DEF ServiceInv, TypeInv, Named, Progress, NamesKept, AnswersTell,
     OneCreatorOfAName, RowsOf
<1>2. ASSUME NEW r \in Requests, ServiceStep(r) PROVE ServiceInv'
  BY <1>2, OtherStepsInv, InsertAssignmentInv, PublishAssignedInv, InsertNameInv DEF ServiceStep
<1>3. ASSUME NEW k \in Complaints, NEW to \in Status, ChangeStatus(k, to) PROVE ServiceInv'
  BY <1>1, <1>3 DEF ChangeStatus
<1>4. CASE UNCHANGED serviceVars
  BY <1>1, <1>4 DEF serviceVars
<1> QED
  BY <1>2, <1>3, <1>4, OtherStepsInv DEF ServiceNext

(* The invariant of admin-service. *)
THEOREM ServiceInvariance == ServiceSpec => []ServiceInv
BY ServiceStepInv, ServiceInvInit, PTL DEF ServiceSpec

(* What an answer of POST /assign is worth, for any number of requests     *)
(* (assignment.service.ts:72-104).                                         *)
THEOREM AnswersAreTrue == ServiceSpec => []AnswersTell
<1>1. ServiceInv => AnswersTell
  BY DEF ServiceInv
<1> QED
  BY <1>1, ServiceInvariance, PTL

(* One request at most is told that it created a department, and every     *)
(* assignment is to a department that exists (department.service.ts:11-21).*)
THEOREM NamesAreCreatedOnce == ServiceSpec => []OneCreatorOfAName
<1>1. ServiceInv => OneCreatorOfAName
  BY DEF ServiceInv
<1> QED
  BY <1>1, ServiceInvariance, PTL

-----------------------------------------------------------------------------
(* The two pages.  The properties of the page speak of what is on the      *)
(* screen; the invariant also says of a mutation what its page, its answer *)
(* and the query of the assignments have to do with each other.            *)

(* A choice made in a dialog of the list page. *)
Choices(S) == {NoChoice} \cup [value : S, shown : Complaints]

(* The steps a mutation is at once its answer has arrived. *)
Told == {"invalidated", "refetched", "settled"}

DialogTypes ==
  dialog \in [selected : Complaints \cup {None}, assignOpen : BOOLEAN, statusOpen : BOOLEAN,
              departmentId : Choices(Departments), next : Choices(Targets)]

MutationTypes ==
  mutation \in [Requests -> [page : {"none", "list", "form"}, step : {"none", "sent"} \cup Told,
                             mounted : BOOLEAN]]

PatchTypes == patch \in {NoPatch} \cup [complaint : Complaints, to : Targets]

Fetch == [step : {"none", "sent", "read"}, read : Nat, by : SUBSET Requests]

(* Rows are only added: what was once read is still in the table. *)
RowsTypes ==
  /\ rows \in [shown : Nat, loaded : BOOLEAN, invalid : BOOLEAN, fetch : Fetch]
  /\ rows.fetch = NoFetch \/ rows.fetch.step # "none"
  /\ rows.shown <= Len(assignment)
  /\ rows.fetch.step = "read" => rows.fetch.read <= Len(assignment)

DeskTypes == DialogTypes /\ MutationTypes /\ PatchTypes /\ RowsTypes

(* One dialog at a time, and what is chosen in the one that is open was    *)
(* chosen for the complaint it shows, if a late answer has not taken that  *)
(* away.                                                                   *)
OneDialog ==
  /\ ~(dialog.assignOpen /\ dialog.statusOpen)
  /\ dialog.selected # None /\ dialog.assignOpen /\ dialog.departmentId # NoChoice =>
       dialog.departmentId.shown = dialog.selected
  /\ dialog.selected # None /\ dialog.statusOpen /\ dialog.next # NoChoice =>
       dialog.next.shown = dialog.selected

(* Of the page instance on the screen, or of one that is gone. *)
OnItsPage ==
  \A r \in Requests : mutation[r].page = "list" /\ mutation[r].mounted => view = "list"

(* onSuccess is called with the answer to this request's POST /assign. *)
ToldWhenAssigned ==
  \A r \in Requests : mutation[r].step \in Told => mutation[r].page = "list" /\ at[r] = "assigned"

(* A fetch that has read has read the row of the request. *)
Reads(r) == rows.fetch.step = "read" => ListsIt(r, rows.fetch.read)

(* A first fetch that somebody has joined is not given up for another. *)
Joined(r) == ~rows.loaded /\ r \in rows.fetch.by

Waits(r) == Reads(r) \/ Joined(r)

Current(r) == ListsIt(r, rows.shown) \/ rows.invalid \/ rows.fetch.step # "none"

Has(r) == Reads(r) /\ Current(r)

(* Between its two fetches a mutation may still wait for one that began    *)
(* before its answer; from the second on the fetch that is under way, and  *)
(* every later one, began after it.                                        *)
FetchedAfter ==
  \A r \in Requests : mutation[r].mounted =>
    /\ mutation[r].step = "invalidated" => Waits(r)
    /\ mutation[r].step \in {"refetched", "settled"} => Has(r)

(* What a step may not take from a request. *)
Keeps(r) == (Waits(r) => Waits(r)') /\ (Has(r) => Has(r)')

DeskInv == DeskTypes /\ OneDialog /\ OnItsPage /\ ToldWhenAssigned /\ FetchedAfter

-----------------------------------------------------------------------------
(* Every step of the desk is a step of admin-service or leaves it alone.   *)
LEMMA DeskStepIsServiceStep ==
  ASSUME DeskInv, [Next]_vars
  PROVE  [ServiceNext]_serviceVars
<1>1. ASSUME NEW r \in Requests, SubmitAssign(r) PROVE ServiceNext
  <2>1. dialog.selected \in Complaints
    BY <1>1 DEF DeskInv, DeskTypes, DialogTypes, SubmitAssign, AssignShown
  <2>2. dialog.departmentId \in Choices(Departments) /\ dialog.departmentId # NoChoice
    BY <1>1 DEF DeskInv, DeskTypes, DialogTypes, SubmitAssign
  <2>3. dialog.departmentId.value \in Departments
    BY <2>2 DEF Choices
  <2>4. CallAssign(r, dialog.selected, dialog.departmentId.value)
    BY <1>1 DEF SubmitAssign
  <2> QED
    BY <2>1, <2>3, <2>4 DEF ServiceNext
<1>2. ASSUME NEW r \in Requests, NEW k \in Complaints, NEW d \in Departments, SubmitForm(r, k, d)
      PROVE  ServiceNext
  BY <1>2 DEF SubmitForm, ServiceNext
<1>3. ASSUME NEW r \in Requests, NEW d \in Departments, CreateDepartment(r, d) PROVE ServiceNext
  BY <1>3 DEF CreateDepartment, ServiceNext
<1>4. ASSUME NEW r \in Requests, Serve(r) PROVE ServiceNext
  BY <1>4 DEF Serve, ServiceNext
<1>5. ASSUME StatusAnswered PROVE [ServiceNext]_serviceVars
  <2>1. patch.complaint \in Complaints /\ patch.to \in Status
    BY <1>5, TargetsAssumption DEF DeskInv, DeskTypes, PatchTypes, StatusAnswered
  <2>2. ChangeStatus(patch.complaint, patch.to) \/ UNCHANGED serviceVars
    BY <1>5 DEF StatusAnswered
  <2> QED
    BY <2>1, <2>2 DEF ServiceNext
<1>6. ASSUME NEW k \in Complaints, OpenAssignModal(k) \/ OpenStatusModal(k) PROVE UNCHANGED serviceVars
  BY <1>6 DEF OpenAssignModal, OpenStatusModal
<1>7. ASSUME \/ CancelModal \/ Choose \/ SubmitStatus \/ Refetch \/ ServeFetch \/ FetchEnds \/ Leave
      PROVE  UNCHANGED serviceVars
  BY <1>7 DEF CancelModal, Choose, SubmitStatus, Refetch, ServeFetch, FetchEnds, Leave
<1>8. ASSUME NEW r \in Requests,
             \/ Assigned(r) \/ RefetchAfter(r) \/ Settle(r) \/ Rejected(r) \/ FormAssigned(r)
      PROVE  UNCHANGED serviceVars
  BY <1>8 DEF Assigned, RefetchAfter, Settle, Rejected, FormAssigned
<1>9. CASE UNCHANGED vars
  BY <1>9 DEF vars
<1> QED
  BY <1>1, <1>2, <1>3, <1>4, <1>5, <1>6, <1>7, <1>8, <1>9 DEF Next

(* Rows are added at the end, and an answer is final. *)
Grows ==
  /\ Len(assignment) <= Len(assignment)'
  /\ \A i \in 1 .. Len(assignment) : assignment'[i] = assignment[i]
  /\ \A r \in Requests : at[r] = "assigned" => at'[r] = "assigned"

LEMMA ServiceGrows ==
  ASSUME ServiceInv, [ServiceNext]_serviceVars
  PROVE  Grows
<1> USE DEF ServiceInv, TypeInv
<1>0. assignment \in Seq(Row) /\ Len(assignment) \in Nat
  OBVIOUS
<1>1. ASSUME UNCHANGED assignment,
             \A q \in Requests : at[q] = "assigned" => at'[q] = "assigned"
      PROVE  Grows
  BY <1>0, <1>1 DEF Grows
<1>2. ASSUME NEW r \in Requests, NEW next, InsertAssignment(r, next) PROVE Grows
  <2>1. assignment' = Append(assignment, NewRow(r))
    BY <1>2 DEF InsertAssignment
  <2>2. Len(assignment') = Len(assignment) + 1 /\ \A i \in 1 .. Len(assignment) : assignment'[i] = assignment[i]
    BY <1>0, <2>1
  <2>3. \A q \in Requests : at[q] = "assigned" => at'[q] = "assigned"
    BY <1>2 DEF InsertAssignment, GoTo
  <2> QED
    BY <1>0, <2>2, <2>3 DEF Grows
<1>3. ASSUME NEW r \in Requests, NEW next, PublishAssigned(r, next) \/ InsertName(r, next) PROVE Grows
  BY <1>1, <1>3 DEF PublishAssigned, InsertName, GoTo
<1>4. ASSUME NEW r \in Requests, FindDepartment(r) \/ CheckName(r) \/ Fail(r) PROVE Grows
  BY <1>1, <1>4 DEF FindDepartment, CheckName, Fail, GoTo, Working
<1>5. ASSUME NEW r \in Requests, LookUpComplaint(r, complaint[asked[r].complaint]) PROVE Grows
  BY <1>1, <1>5 DEF LookUpComplaint, GoTo
<1>6. ASSUME NEW r \in Requests, NEW k, NEW d, CallAssign(r, k, d) \/ CallCreate(r, d) PROVE Grows
  BY <1>1, <1>6 DEF CallAssign, CallCreate, GoTo
<1>7. ASSUME NEW k, NEW to, ChangeStatus(k, to) PROVE Grows
  BY <1>1, <1>7 DEF ChangeStatus
<1>8. CASE UNCHANGED serviceVars
  BY <1>1, <1>8 DEF serviceVars
<1> QED
  BY <1>2, <1>3, <1>4, <1>5, <1>6, <1>7, <1>8 DEF ServiceNext, ServiceStep

(* What was listed stays listed. *)
LEMMA ListingGrows ==
  ASSUME Grows, NEW n \in Nat, n <= Len(assignment), Len(assignment) \in Nat, NEW r, ListsIt(r, n)
  PROVE  ListsIt(r, n)'
BY DEF Grows, ListsIt

(* A row of a request that was told 200 is there to be read. *)
LEMMA AssignedListed ==
  ASSUME ServiceInv, NEW r \in Requests, at[r] = "assigned"
  PROVE  ListsIt(r, Len(assignment))
<1>1. RowsOf(r) # {}
  BY DEF ServiceInv, Progress
<1>2. assignment \in Seq(Row)
  BY DEF ServiceInv, TypeInv
<1> QED
  BY <1>1, <1>2 DEF RowsOf, ListsIt

-----------------------------------------------------------------------------
(* What a step leaves alone. *)
LEMMA DialogRests ==
  ASSUME DeskInv, UNCHANGED dialog
  PROVE  DialogTypes' /\ OneDialog'
BY DEF DeskInv, DeskTypes, DialogTypes, OneDialog

LEMMA RowsRest ==
  ASSUME ServiceInv, ServiceInv', DeskInv, Grows, UNCHANGED rows
  PROVE  RowsTypes' /\ \A r \in Requests : Keeps(r)
<1>1. Len(assignment) \in Nat /\ Len(assignment)' \in Nat
  BY DEF ServiceInv, TypeInv
<1>2. RowsTypes
  BY DEF DeskInv, DeskTypes
<1>3. RowsTypes'
  BY <1>1, <1>2 DEF RowsTypes, Grows, Fetch
<1>4. ASSUME NEW r \in Requests PROVE Keeps(r)
  <2>1. PICK n \in Nat : n = rows.shown /\ n <= Len(assignment)
    BY <1>2 DEF RowsTypes
  <2>2. ListsIt(r, rows.shown) => ListsIt(r, n)'
    BY <1>1, <2>1, ListingGrows
  <2>3. PICK m \in Nat : m = rows.fetch.read
    BY <1>2 DEF RowsTypes, Fetch
  <2>4. rows.fetch.step = "read" /\ ListsIt(r, rows.fetch.read) => ListsIt(r, m)'
    BY <1>1, <1>2, <2>3, ListingGrows DEF RowsTypes
  <2>5. rows'.shown = n /\ rows'.fetch.read = m
    BY <2>1, <2>3
  <2>6. ListsIt(r, n)' => ListsIt(r, rows.shown)'
    BY <2>5 DEF ListsIt
  <2>7. ListsIt(r, m)' => ListsIt(r, rows.fetch.read)'
    BY <2>5 DEF ListsIt
  <2>8. (Reads(r) => Reads(r)') /\ (Current(r) => Current(r)') /\ (Joined(r) => Joined(r)')
    BY <2>2, <2>4, <2>6, <2>7 DEF Reads, Current, Joined
  <2> QED
    BY <2>8 DEF Keeps, Waits, Has
<1> QED
  BY <1>3, <1>4

(* A step that leaves the mutations, the page and the query alone. *)
LEMMA MutationsRest ==
  ASSUME ServiceInv, ServiceInv', DeskInv, Grows, UNCHANGED <<view, mutation, rows>>
  PROVE  MutationTypes' /\ RowsTypes' /\ OnItsPage' /\ ToldWhenAssigned' /\ FetchedAfter'
<1>1. MutationTypes'
  BY DEF DeskInv, DeskTypes, MutationTypes
<1>2. RowsTypes' /\ FetchedAfter'
  BY RowsRest DEF DeskInv, FetchedAfter, Keeps
<1>3. OnItsPage' /\ ToldWhenAssigned'
  BY DEF DeskInv, OnItsPage, ToldWhenAssigned, Grows
<1> QED
  BY <1>1, <1>2, <1>3

(* A step of the query for one page: the mutations stay. *)
LEMMA RowsStep ==
  ASSUME ServiceInv, DeskInv, UNCHANGED <<serviceVars, view, dialog, mutation, patch>>,
         RowsTypes',
         \A r \in Requests : mutation[r].step \in Told => Keeps(r)
  PROVE  DeskInv'
<1>1. DialogTypes' /\ OneDialog'
  BY DialogRests
<1>2. MutationTypes' /\ PatchTypes'
  BY DEF DeskInv, DeskTypes, MutationTypes, PatchTypes
<1>3. OnItsPage' /\ ToldWhenAssigned' /\ FetchedAfter'
  BY DEF DeskInv, OnItsPage, ToldWhenAssigned, FetchedAfter, Keeps, Told, serviceVars
<1> QED
  BY <1>1, <1>2, <1>3 DEF DeskInv, DeskTypes

(* A step of the dialogs, of the status or of admin-service. *)
LEMMA DialogStep ==
  ASSUME ServiceInv, ServiceInv', DeskInv, Grows, UNCHANGED <<view, mutation, rows>>,
         PatchTypes', DialogTypes', OneDialog'
  PROVE  DeskInv'
BY MutationsRest DEF DeskInv, DeskTypes

-----------------------------------------------------------------------------
(* The dialogs.                                                            *)
LEMMA NoChoiceIsAChoice == \A S : NoChoice \in Choices(S)
BY DEF Choices

LEMMA ClosedDialogs ==
  ASSUME DeskInv,
         \/ dialog' = AssignModalClosed \/ dialog' = StatusModalClosed \/ dialog' = Closed
  PROVE  DialogTypes' /\ OneDialog'
<1>1. DialogTypes /\ OneDialog
  BY DEF DeskInv, DeskTypes
<1>2. CASE dialog' = AssignModalClosed
  <2>1. /\ dialog'.selected = None /\ dialog'.assignOpen = FALSE /\ dialog'.statusOpen = dialog.statusOpen
        /\ DialogTypes'
    BY <1>1, <1>2, NoChoiceIsAChoice DEF AssignModalClosed, DialogTypes
  <2> QED
    BY <2>1 DEF OneDialog
<1>3. CASE dialog' = StatusModalClosed
  <2>1. /\ dialog'.selected = None /\ dialog'.statusOpen = FALSE
        /\ DialogTypes'
    BY <1>1, <1>3, NoChoiceIsAChoice DEF StatusModalClosed, DialogTypes
  <2> QED
    BY <2>1 DEF OneDialog
<1>4. CASE dialog' = Closed
  <2>1. dialog'.selected = None /\ dialog'.statusOpen = FALSE /\ DialogTypes'
    BY <1>4, NoChoiceIsAChoice DEF Closed, DialogTypes
  <2> QED
    BY <2>1 DEF OneDialog
<1> QED
  BY <1>2, <1>3, <1>4

LEMMA OpenDialogs ==
  ASSUME DeskInv, NEW k \in Complaints, OpenAssignModal(k) \/ OpenStatusModal(k)
  PROVE  DialogTypes' /\ OneDialog'
<1>1. DialogTypes
  BY DEF DeskInv, DeskTypes
<1>2. CASE OpenAssignModal(k)
  <2>1. /\ dialog'.departmentId = NoChoice /\ dialog'.statusOpen = FALSE
        /\ DialogTypes'
    BY <1>1, <1>2, NoChoiceIsAChoice DEF OpenAssignModal, DialogTypes
  <2> QED
    BY <2>1 DEF OneDialog
<1>3. CASE OpenStatusModal(k)
  <2>1. /\ dialog'.next = NoChoice /\ dialog'.assignOpen = FALSE
        /\ DialogTypes'
    BY <1>1, <1>3, NoChoiceIsAChoice DEF OpenStatusModal, DialogTypes
  <2> QED
    BY <2>1 DEF OneDialog
<1> QED
  BY <1>2, <1>3

(* A choice is kept with the complaint its dialog shows. *)
LEMMA ChoosesForTheShown ==
  ASSUME ServiceInv, DeskInv, Choose
  PROVE  DialogTypes' /\ OneDialog'
<1>1. DialogTypes /\ OneDialog
  BY DEF DeskInv, DeskTypes
<1>2. ASSUME AssignShown, NEW d \in department,
             dialog' = [dialog EXCEPT !.departmentId = [value |-> d, shown |-> dialog.selected]]
      PROVE  DialogTypes' /\ OneDialog'
  <2>1. dialog.selected \in Complaints /\ d \in Departments
    BY <1>1, <1>2 DEF AssignShown, DialogTypes, ServiceInv, TypeInv
  <2>2. [value |-> d, shown |-> dialog.selected] \in Choices(Departments)
    BY <2>1 DEF Choices
  <2>3. DialogTypes'
    BY <1>1, <1>2, <2>2 DEF DialogTypes
  <2>4. /\ dialog'.departmentId.shown = dialog'.selected
        /\ dialog.assignOpen /\ dialog'.assignOpen = dialog.assignOpen
        /\ dialog'.statusOpen = dialog.statusOpen
    BY <1>1, <1>2 DEF DialogTypes, AssignShown
  <2> QED
    BY <1>1, <2>3, <2>4 DEF OneDialog
<1>3. ASSUME StatusShown, NEW s \in Targets,
             dialog' = [dialog EXCEPT !.next = [value |-> s, shown |-> dialog.selected]]
      PROVE  DialogTypes' /\ OneDialog'
  <2>1. dialog.selected \in Complaints
    BY <1>1, <1>3 DEF StatusShown, DialogTypes
  <2>2. [value |-> s, shown |-> dialog.selected] \in Choices(Targets)
    BY <2>1 DEF Choices
  <2>3. DialogTypes'
    BY <1>1, <1>3, <2>2 DEF DialogTypes
  <2>4. /\ dialog'.next.shown = dialog'.selected
        /\ dialog.statusOpen /\ dialog'.statusOpen = dialog.statusOpen
        /\ dialog'.assignOpen = dialog.assignOpen
    BY <1>1, <1>3 DEF DialogTypes, StatusShown
  <2> QED
    BY <1>1, <2>3, <2>4 DEF OneDialog
<1> QED
  BY <1>2, <1>3 DEF Choose

(* The actions that touch a dialog or the status only. *)
LEMMA DialogActions ==
  ASSUME ServiceInv, ServiceInv', DeskInv, Grows,
         \/ \E k \in Complaints : OpenAssignModal(k) \/ OpenStatusModal(k)
         \/ CancelModal \/ Choose \/ SubmitStatus \/ StatusAnswered
  PROVE  DeskInv'
<1>1. PatchTypes
  BY DEF DeskInv, DeskTypes
<1>2. ASSUME \/ \E k \in Complaints : OpenAssignModal(k) \/ OpenStatusModal(k)
             \/ CancelModal \/ Choose
      PROVE  DeskInv'
  <2>1. PatchTypes' /\ UNCHANGED <<view, mutation, rows>>
    BY <1>1, <1>2 DEF PatchTypes, OpenAssignModal, OpenStatusModal, CancelModal, Choose
  <2>2. DialogTypes' /\ OneDialog'
    BY <1>2, OpenDialogs, ChoosesForTheShown, ClosedDialogs DEF CancelModal
  <2> QED
    BY <2>1, <2>2, DialogStep
<1>3. ASSUME SubmitStatus PROVE DeskInv'
  <2>1. dialog.selected \in Complaints /\ dialog.next \in Choices(Targets) /\ dialog.next # NoChoice
    BY <1>3 DEF SubmitStatus, StatusShown, DeskInv, DeskTypes, DialogTypes
  <2>2. dialog.next.value \in Targets
    BY <2>1 DEF Choices
  <2>3. PatchTypes'
    BY <1>3, <2>1, <2>2 DEF SubmitStatus, PatchTypes
  <2>4. UNCHANGED <<view, dialog, mutation, rows>>
    BY <1>3 DEF SubmitStatus
  <2> QED
    BY <2>3, <2>4, DialogRests, DialogStep
<1>4. ASSUME StatusAnswered PROVE DeskInv'
  <2>1. PatchTypes' /\ UNCHANGED <<view, mutation, rows>>
    BY <1>4 DEF StatusAnswered, PatchTypes
  <2>2. UNCHANGED dialog \/ dialog' = StatusModalClosed
    BY <1>4 DEF StatusAnswered
  <2> QED
    BY <2>1, <2>2, DialogRests, ClosedDialogs, DialogStep
<1> QED
  BY <1>2, <1>3, <1>4

-----------------------------------------------------------------------------
(* The query of the assignments.                                           *)

(* The first fetch goes on for one more request, or another one begins,    *)
(* which has read nothing yet.                                             *)
LEMMA FetchingFacts ==
  ASSUME RowsTypes, NEW by \in SUBSET Requests, NEW q, rows' = Fetching(q, by),
         UNCHANGED assignment,
         q = rows \/ q = [rows EXCEPT !.invalid = TRUE]
  PROVE  /\ RowsTypes'
         /\ rows'.shown = rows.shown /\ rows'.invalid = q.invalid /\ rows'.loaded = rows.loaded
         /\ view = "list" =>
              /\ rows'.fetch.step # "none"
              /\ \/ rows'.fetch.step = "sent"
                 \/ /\ ~rows.loaded
                    /\ rows'.fetch.step = rows.fetch.step /\ rows'.fetch.read = rows.fetch.read
                    /\ rows'.fetch.by = rows.fetch.by \cup by
<1>1. /\ q \in [shown : Nat, loaded : BOOLEAN, invalid : BOOLEAN, fetch : Fetch]
      /\ q.shown = rows.shown /\ q.fetch = rows.fetch /\ q.loaded = rows.loaded
  BY DEF RowsTypes
<1>2. CASE view = "list" /\ ~(q.fetch # NoFetch /\ ~q.loaded)
  <2>1. rows' = [q EXCEPT !.fetch = [step |-> "sent", read |-> 0, by |-> by]]
    BY <1>2 DEF Fetching
  <2>2. [step |-> "sent", read |-> 0, by |-> by] \in Fetch
    BY DEF Fetch
  <2>3. /\ rows' \in [shown : Nat, loaded : BOOLEAN, invalid : BOOLEAN, fetch : Fetch]
        /\ rows'.shown = rows.shown /\ rows'.invalid = q.invalid /\ rows'.loaded = rows.loaded
        /\ rows'.fetch.step = "sent"
    BY <1>1, <2>1, <2>2
  <2> QED
    BY <1>2, <2>3 DEF RowsTypes
<1>3. CASE view # "list"
  <2>1. rows' = q
    BY <1>3 DEF Fetching
  <2> QED
    BY <1>1, <1>3, <2>1 DEF RowsTypes
<1>4. CASE view = "list" /\ q.fetch # NoFetch /\ ~q.loaded
  <2>1. PICK f : f = [rows.fetch EXCEPT !.by = rows.fetch.by \cup by]
    OBVIOUS
  <2>2. rows.fetch \in Fetch
    BY DEF RowsTypes
  <2>3. /\ f \in Fetch /\ f.step = rows.fetch.step /\ f.read = rows.fetch.read
        /\ f.by = rows.fetch.by \cup by
    BY <2>1, <2>2 DEF Fetch
  <2>4. rows' = [q EXCEPT !.fetch = f]
    BY <1>1, <1>4, <2>1 DEF Fetching
  <2>5. /\ rows' \in [shown : Nat, loaded : BOOLEAN, invalid : BOOLEAN, fetch : Fetch]
        /\ rows'.shown = rows.shown /\ rows'.invalid = q.invalid /\ rows'.loaded = rows.loaded
        /\ rows'.fetch = f
    BY <1>1, <2>3, <2>4
  <2> QED
    BY <1>1, <1>4, <2>3, <2>5 DEF RowsTypes
<1> QED
  BY <1>2, <1>3, <1>4

(* A fetch reads the whole table, and is shown or lost. *)
LEMMA QueryActions ==
  ASSUME ServiceInv, DeskInv, Refetch \/ ServeFetch \/ FetchEnds
  PROVE  DeskInv'
<1>1. RowsTypes /\ assignment \in Seq(Row) /\ Len(assignment) \in Nat
  BY DEF DeskInv, DeskTypes, ServiceInv, TypeInv
<1>2. UNCHANGED <<serviceVars, view, dialog, mutation, patch>> /\ UNCHANGED assignment
  BY DEF Refetch, ServeFetch, FetchEnds, serviceVars
<1>3. CASE Refetch
  <2>1. rows' = Fetching(rows, {}) /\ rows.fetch = NoFetch /\ rows' # rows
    BY <1>3 DEF Refetch
  <2>2. view = "list"
    BY <2>1 DEF Fetching
  <2>3. RowsTypes' /\ rows'.fetch.step # "none" /\ rows'.fetch.step # "read"
    BY <1>1, <1>2, <2>1, <2>2, FetchingFacts DEF NoFetch
  <2>4. \A r \in Requests : Keeps(r)
    BY <2>3 DEF Keeps, Waits, Has, Reads, Current
  <2> QED
    BY <1>2, <2>3, <2>4, RowsStep
<1>4. CASE ServeFetch
  <2>1. RowsTypes' /\ rows'.fetch.step = "read" /\ rows'.fetch.read = Len(assignment)
    <3>1. PICK f : f = [[rows.fetch EXCEPT !.step = "read"] EXCEPT !.read = Len(assignment)]
      OBVIOUS
    <3>2. f \in Fetch /\ f.read = Len(assignment) /\ f.step = "read"
      BY <1>1, <3>1 DEF RowsTypes, Fetch
    <3>3. rows' = [rows EXCEPT !.fetch = f]
      BY <1>1, <1>4, <3>1 DEF ServeFetch, RowsTypes
    <3> QED
      BY <1>1, <1>2, <3>2, <3>3 DEF RowsTypes
  <2>2. ASSUME NEW r \in Requests, mutation[r].step \in Told
        PROVE  Keeps(r)
    <3>1. at[r] = "assigned"
      BY <2>2 DEF DeskInv, ToldWhenAssigned
    <3>2. ListsIt(r, Len(assignment))
      BY <3>1, AssignedListed
    <3>3. ListsIt(r, rows.fetch.read)'
      BY <1>2, <2>1, <3>2 DEF ListsIt
    <3>4. Reads(r)' /\ Current(r)'
      BY <2>1, <3>3 DEF Reads, Current
    <3> QED
      BY <3>4 DEF Keeps, Waits, Has
  <2> QED
    BY <1>2, <2>1, <2>2, RowsStep
<1>5. CASE FetchEnds
  <2>1. /\ RowsTypes' /\ rows'.fetch.step = "none"
        /\ \/ rows.fetch.step = "read" /\ rows'.shown = rows.fetch.read
           \/ rows'.invalid
    <3>1. NoFetch \in Fetch /\ NoFetch.step = "none"
      BY DEF NoFetch, Fetch
    <3>2. CASE /\ rows.fetch.step = "read"
               /\ rows' = [shown |-> rows.fetch.read, loaded |-> TRUE, invalid |-> FALSE, fetch |-> NoFetch]
      <4>1. rows.fetch.read \in Nat /\ rows.fetch.read <= Len(assignment)
        BY <1>1, <3>2 DEF RowsTypes, Fetch
      <4> QED
        BY <1>2, <3>1, <3>2, <4>1 DEF RowsTypes
    <3>3. CASE rows' = [rows EXCEPT !.invalid = TRUE, !.fetch = NoFetch]
      BY <1>1, <1>2, <3>1, <3>3 DEF RowsTypes
    <3> QED
      BY <1>5, <3>2, <3>3 DEF FetchEnds
  <2>2. ASSUME NEW r \in Requests PROVE Keeps(r)
    <3>1. Reads(r)'
      BY <2>1 DEF Reads
    <3>2. Reads(r) => Current(r)'
      BY <1>2, <2>1 DEF Reads, Current, ListsIt
    <3> QED
      BY <3>1, <3>2 DEF Keeps, Waits, Has
  <2> QED
    BY <1>2, <2>1, <2>2, RowsStep
<1> QED
  BY <1>3, <1>4, <1>5

-----------------------------------------------------------------------------
(* The mutations.                                                          *)

(* A mutation that is sent or gone claims nothing. *)
LEMMA MutationStarts ==
  ASSUME ServiceInv, ServiceInv', DeskInv, Grows, NEW r \in Requests, UNCHANGED <<view, dialog, patch, rows>>,
         NEW m \in [page : {"none", "list", "form"}, step : {"none", "sent"}, mounted : BOOLEAN],
         mutation' = [mutation EXCEPT ![r] = m],
         m.page = "list" => view = "list"
  PROVE  DeskInv'
<1>1. MutationTypes
  BY DEF DeskInv, DeskTypes
<1>2. mutation'[r] = m /\ \A q \in Requests : q # r => mutation'[q] = mutation[q]
  BY <1>1 DEF MutationTypes
<1>3. m.step \notin Told
  BY DEF Told
<1>4. MutationTypes'
  BY <1>1 DEF MutationTypes
<1>5. DialogTypes' /\ OneDialog'
  BY DialogRests
<1>6. PatchTypes'
  BY DEF DeskInv, DeskTypes, PatchTypes
<1>7. RowsTypes' /\ FetchedAfter'
  BY <1>2, <1>3, RowsRest DEF DeskInv, FetchedAfter, Keeps, Told
<1>8. OnItsPage'
  BY <1>2 DEF DeskInv, OnItsPage
<1>9. ToldWhenAssigned'
  BY <1>2, <1>3 DEF DeskInv, ToldWhenAssigned, Grows
<1> QED
  BY <1>4, <1>5, <1>6, <1>7, <1>8, <1>9 DEF DeskInv, DeskTypes

LEMMA SubmitActions ==
  ASSUME ServiceInv, ServiceInv', DeskInv, Grows, NEW r \in Requests,
         \/ SubmitAssign(r) \/ Rejected(r)
         \/ \E k \in Complaints, d \in Departments : SubmitForm(r, k, d)
  PROVE  DeskInv'
<1>1. CASE SubmitAssign(r)
  BY <1>1, MutationStarts DEF SubmitAssign, AssignShown, Mutate
<1>2. CASE \E k \in Complaints, d \in Departments : SubmitForm(r, k, d)
  BY <1>2, MutationStarts DEF SubmitForm, Mutate
<1>3. CASE Rejected(r)
  BY <1>3, MutationStarts DEF Rejected, NoMutation
<1> QED
  BY <1>1, <1>2, <1>3

(* A mutation that goes on to a step of an answered one.                   *)
LEMMA MutationGoesOn ==
  ASSUME ServiceInv, DeskInv, NEW r \in Requests, UNCHANGED <<serviceVars, view, patch>>,
         NEW step \in Told, Step(r, step),
         mutation[r].page = "list", at[r] = "assigned",
         RowsTypes', DialogTypes', OneDialog',
         mutation[r].mounted => IF step = "invalidated" THEN Waits(r)' ELSE Has(r)',
         \A q \in Requests : mutation[q].page = "list" /\ mutation[q].mounted => Keeps(q)
  PROVE  DeskInv'
<1>1. MutationTypes
  BY DEF DeskInv, DeskTypes
<1>2. /\ mutation'[r] \in [page : {"none", "list", "form"}, step : {"none", "sent"} \cup Told,
                           mounted : BOOLEAN]
      /\ mutation'[r].page = "list" /\ mutation'[r].mounted = mutation[r].mounted
      /\ \A q \in Requests : q # r => mutation'[q] = mutation[q]
  BY <1>1 DEF Step, MutationTypes
<1>3. MutationTypes'
  BY <1>1, <1>2 DEF MutationTypes, Step
<1>4. PatchTypes'
  BY DEF DeskInv, DeskTypes, PatchTypes
<1>5. OnItsPage'
  BY <1>2 DEF DeskInv, OnItsPage
<1>6. ToldWhenAssigned'
  BY <1>2 DEF DeskInv, ToldWhenAssigned, serviceVars
<1>7. mutation'[r].step = step
  BY <1>1 DEF Step, MutationTypes
<1>8. FetchedAfter'
  <2>1. ASSUME NEW q \in Requests, q # r, mutation[q].mounted, mutation[q].step \in Told
        PROVE  Keeps(q)
    BY <2>1 DEF DeskInv, ToldWhenAssigned
  <2> QED
    BY <1>2, <1>7, <2>1 DEF DeskInv, FetchedAfter, Keeps, Told
<1> QED
  BY <1>3, <1>4, <1>5, <1>6, <1>8 DEF DeskInv, DeskTypes

(* Fetching for a request that has been told leaves the others what they   *)
(* have, and gives it what it waits for.                                   *)
LEMMA FetchesAgain ==
  ASSUME ServiceInv, DeskInv, NEW r \in Requests, UNCHANGED <<serviceVars, view>>,
         NEW q, q = rows \/ q = [rows EXCEPT !.invalid = TRUE], rows' = Fetching(q, {r}),
         NEW s \in Requests, mutation[s].page = "list", mutation[s].mounted
  PROVE  Keeps(s) /\ (s = r => Waits(s)') /\ (Reads(s) => Has(s)')
<1>1. view = "list"
  BY DEF DeskInv, OnItsPage
<1>2. UNCHANGED assignment /\ RowsTypes
  BY DEF serviceVars, DeskInv, DeskTypes
<1>3. /\ rows'.fetch.step # "none" /\ rows'.loaded = rows.loaded
      /\ \/ rows'.fetch.step = "sent"
         \/ /\ ~rows.loaded
            /\ rows'.fetch.step = rows.fetch.step /\ rows'.fetch.read = rows.fetch.read
            /\ rows'.fetch.by = rows.fetch.by \cup {r}
  BY <1>1, <1>2, FetchingFacts
<1>4. Current(s)' /\ (Reads(s) => Reads(s)')
  BY <1>2, <1>3 DEF Current, Reads, ListsIt
<1>5. (Joined(s) \/ s = r) => Waits(s)'
  BY <1>3 DEF Joined, Waits, Reads
<1> QED
  BY <1>4, <1>5 DEF Keeps, Waits, Has

LEMMA AnswerActions ==
  ASSUME ServiceInv, ServiceInv', DeskInv, Grows, NEW r \in Requests,
         Assigned(r) \/ RefetchAfter(r) \/ Settle(r)
  PROVE  DeskInv'
<1>1. RowsTypes /\ DialogTypes
  BY DEF DeskInv, DeskTypes
<1>2. CASE Assigned(r)
  <2>1. /\ UNCHANGED <<serviceVars, view, dialog, patch>> /\ Step(r, "invalidated")
        /\ mutation[r].page = "list" /\ at[r] = "assigned"
    BY <1>2 DEF Assigned
  <2>2. PICK q : q = [rows EXCEPT !.invalid = TRUE] /\ rows' = Fetching(q, {r})
    BY <1>2 DEF Assigned
  <2>3. RowsTypes'
    BY <1>1, <2>1, <2>2, FetchingFacts DEF serviceVars
  <2>4. \A s \in Requests : mutation[s].page = "list" /\ mutation[s].mounted =>
          Keeps(s) /\ (s = r => Waits(s)')
    BY <2>1, <2>2, FetchesAgain
  <2>5. "invalidated" \in Told
    BY DEF Told
  <2>6. DialogTypes' /\ OneDialog'
    BY <2>1, DialogRests
  <2> QED
    BY <2>1, <2>3, <2>4, <2>5, <2>6, MutationGoesOn
<1>3. CASE RefetchAfter(r)
  <2>1. /\ UNCHANGED <<serviceVars, view, dialog, patch>> /\ Step(r, "refetched")
        /\ mutation[r].step = "invalidated" /\ r \notin rows.fetch.by /\ rows' = Fetching(rows, {r})
    BY <1>3 DEF RefetchAfter, Awaited
  <2>2. mutation[r].page = "list" /\ at[r] = "assigned"
    BY <2>1 DEF DeskInv, ToldWhenAssigned, Told
  <2>3. RowsTypes'
    BY <1>1, <2>1, FetchingFacts DEF serviceVars
  <2>4. \A s \in Requests : mutation[s].page = "list" /\ mutation[s].mounted =>
          Keeps(s) /\ (Reads(s) => Has(s)')
    BY <2>1, FetchesAgain
  <2>5. mutation[r].mounted => Reads(r)
    BY <2>1 DEF DeskInv, FetchedAfter, Waits, Joined
  <2>6. "refetched" \in Told /\ "refetched" # "invalidated"
    BY DEF Told
  <2>7. DialogTypes' /\ OneDialog'
    BY <2>1, DialogRests
  <2> QED
    BY <2>1, <2>2, <2>3, <2>4, <2>5, <2>6, <2>7, MutationGoesOn
<1>4. CASE Settle(r)
  <2>1. /\ UNCHANGED <<serviceVars, view, patch, rows>> /\ Step(r, "settled")
        /\ mutation[r].step = "refetched"
        /\ UNCHANGED dialog \/ dialog' = AssignModalClosed
    BY <1>4 DEF Settle
  <2>2. mutation[r].page = "list" /\ at[r] = "assigned"
    BY <2>1 DEF DeskInv, ToldWhenAssigned, Told
  <2>3. RowsTypes' /\ \A s \in Requests : Keeps(s)
    BY <2>1, RowsRest
  <2>4. mutation[r].mounted => Has(r)'
    BY <2>1, <2>3 DEF DeskInv, FetchedAfter, Keeps
  <2>5. "settled" \in Told /\ "settled" # "invalidated"
    BY DEF Told
  <2>6. DialogTypes' /\ OneDialog'
    BY <2>1, DialogRests, ClosedDialogs
  <2> QED
    BY <2>1, <2>2, <2>3, <2>4, <2>5, <2>6, MutationGoesOn
<1> QED
  BY <1>2, <1>3, <1>4

-----------------------------------------------------------------------------
(* Navigation.                                                             *)

(* What has gone with its page shows nothing any more. *)
LEMMA DetachedFacts ==
  ASSUME DeskInv, NEW r \in Requests
  PROVE  /\ Detached(mutation)[r] \in [page : {"none", "list", "form"}, step : {"none", "sent"} \cup Told,
                                       mounted : BOOLEAN]
         /\ Detached(mutation)[r].mounted = FALSE
         /\ \/ Detached(mutation)[r] = NoMutation
            \/ /\ Detached(mutation)[r].page = mutation[r].page
               /\ Detached(mutation)[r].step = mutation[r].step
<1>1. mutation[r] \in [page : {"none", "list", "form"}, step : {"none", "sent"} \cup Told, mounted : BOOLEAN]
  BY DEF DeskInv, DeskTypes, MutationTypes
<1>2. Detached(mutation)[r] = IF mutation[r].step = "settled" THEN NoMutation
                              ELSE [mutation[r] EXCEPT !.mounted = FALSE]
  BY DEF Detached
<1>3. NoMutation \in [page : {"none", "list", "form"}, step : {"none", "sent"} \cup Told, mounted : BOOLEAN]
  BY DEF NoMutation
<1> QED
  BY <1>1, <1>2, <1>3 DEF NoMutation

(* A mutation of which each is gone, or as it was and without its page.    *)
LEMMA LeavesBehind ==
  ASSUME ServiceInv, ServiceInv', DeskInv, Grows, UNCHANGED <<patch, rows>>,
         DialogTypes', OneDialog', MutationTypes',
         \A r \in Requests :
           \/ mutation'[r] = NoMutation
           \/ /\ mutation'[r].page = mutation[r].page /\ mutation'[r].step = mutation[r].step
              /\ ~mutation'[r].mounted
           \/ mutation'[r] = mutation[r] /\ view' = "list"
  PROVE  DeskInv'
<1>1. PatchTypes'
  BY DEF DeskInv, DeskTypes, PatchTypes
<1>2. NoMutation.page = "none" /\ NoMutation.step \notin Told
  BY DEF NoMutation, Told
<1>3. OnItsPage'
  BY <1>2 DEF DeskInv, OnItsPage
<1>4. ToldWhenAssigned'
  BY <1>2 DEF DeskInv, ToldWhenAssigned, Grows
<1>5. RowsTypes' /\ FetchedAfter'
  BY <1>2, RowsRest DEF DeskInv, FetchedAfter, Keeps, Told
<1> QED
  BY <1>1, <1>3, <1>4, <1>5 DEF DeskInv, DeskTypes

LEMMA NavigationActions ==
  ASSUME ServiceInv, ServiceInv', DeskInv, Grows, Leave \/ \E r \in Requests : FormAssigned(r)
  PROVE  DeskInv'
<1>0. MutationTypes
  BY DEF DeskInv, DeskTypes
<1>1. CASE Leave
  <2>1. mutation' = Detached(mutation) /\ dialog' = Closed /\ UNCHANGED <<patch, rows>>
    BY <1>1 DEF Leave
  <2>2. DOMAIN mutation' = Requests /\ mutation' = [r \in Requests |-> mutation'[r]]
    BY <2>1 DEF Detached
  <2>3. MutationTypes'
    BY <2>1, <2>2, DetachedFacts DEF MutationTypes
  <2>4. \A r \in Requests :
          \/ mutation'[r] = NoMutation
          \/ /\ mutation'[r].page = mutation[r].page /\ mutation'[r].step = mutation[r].step
             /\ ~mutation'[r].mounted
    BY <2>1, DetachedFacts
  <2> QED
    BY <2>1, <2>3, <2>4, ClosedDialogs, LeavesBehind
<1>2. ASSUME NEW r \in Requests, FormAssigned(r) PROVE DeskInv'
  <2>1. UNCHANGED <<dialog, patch, rows>> /\ view' = "list"
    BY <1>2 DEF FormAssigned
  <2>2. NoMutation \in [page : {"none", "list", "form"}, step : {"none", "sent"} \cup Told, mounted : BOOLEAN]
    BY DEF NoMutation
  <2>3. CASE view = "form"
    <3>1. mutation' = [Detached(mutation) EXCEPT ![r] = NoMutation]
      BY <1>2, <2>3 DEF FormAssigned
    <3>2. DOMAIN Detached(mutation) = Requests
      BY DEF Detached
    <3>3. /\ mutation' = [q \in Requests |-> mutation'[q]]
          /\ mutation'[r] = NoMutation
          /\ \A q \in Requests : q # r => mutation'[q] = Detached(mutation)[q]
      BY <3>1, <3>2
    <3>4. MutationTypes'
      BY <2>2, <3>3, DetachedFacts DEF MutationTypes
    <3>5. \A q \in Requests :
            \/ mutation'[q] = NoMutation
            \/ /\ mutation'[q].page = mutation[q].page /\ mutation'[q].step = mutation[q].step
               /\ ~mutation'[q].mounted
      BY <3>3, DetachedFacts
    <3> QED
      BY <2>1, <3>4, <3>5, DialogRests, LeavesBehind
  <2>4. CASE view # "form"
    <3>1. mutation' = [mutation EXCEPT ![r] = NoMutation]
      BY <1>2, <2>4 DEF FormAssigned
    <3>2. MutationTypes' /\ \A q \in Requests : mutation'[q] = NoMutation \/ mutation'[q] = mutation[q]
      BY <1>0, <2>2, <3>1 DEF MutationTypes
    <3> QED
      BY <2>1, <2>4, <3>2, DialogRests, LeavesBehind
  <2> QED
    BY <2>3, <2>4
<1> QED
  BY <1>1, <1>2

-----------------------------------------------------------------------------
LEMMA DeskInvInit == Init => DeskInv
<1> SUFFICES ASSUME Init PROVE DeskInv
  OBVIOUS
<1>1. mutation = [r \in Requests |-> NoMutation] /\ Len(assignment) = 0
  BY DEF Init, ServiceInit
<1>2. MutationTypes /\ \A r \in Requests : mutation[r].page = "none" /\ mutation[r].step \notin Told
  BY <1>1 DEF NoMutation, MutationTypes, Told
<1>3. DialogTypes
  BY NoChoiceIsAChoice DEF Init, Closed, DialogTypes
<1>4. OneDialog
  BY DEF Init, Closed, OneDialog
<1>5. PatchTypes /\ RowsTypes
  BY <1>1 DEF Init, PatchTypes, RowsTypes, NoFetch, Fetch
<1>6. OnItsPage /\ ToldWhenAssigned /\ FetchedAfter
  BY <1>2 DEF OnItsPage, ToldWhenAssigned, FetchedAfter, Told
<1> QED
  BY <1>2, <1>3, <1>4, <1>5, <1>6 DEF DeskInv, DeskTypes

(* The steps of admin-service that the pages do not see. *)
LEMMA UnseenActions ==
  ASSUME ServiceInv, ServiceInv', DeskInv, Grows, UNCHANGED deskVars
  PROVE  DeskInv'
<1>1. UNCHANGED <<view, dialog, mutation, patch, rows>>
  BY DEF deskVars
<1>2. PatchTypes'
  BY <1>1 DEF DeskInv, DeskTypes, PatchTypes
<1> QED
  BY <1>1, <1>2, DialogRests, DialogStep

LEMMA DeskInvNext ==
  ASSUME ServiceInv, ServiceInv', DeskInv, [Next]_vars
  PROVE  DeskInv'
<1>1. Grows
  BY DeskStepIsServiceStep, ServiceGrows
<1>2. ASSUME NEW r \in Requests,
             \/ SubmitAssign(r) \/ Assigned(r) \/ RefetchAfter(r) \/ Settle(r) \/ Rejected(r)
             \/ \E k \in Complaints, d \in Departments : SubmitForm(r, k, d)
             \/ FormAssigned(r) \/ Serve(r)
             \/ \E d \in Departments : CreateDepartment(r, d)
      PROVE  DeskInv'
  <2>1. Serve(r) \/ (\E d \in Departments : CreateDepartment(r, d)) => UNCHANGED deskVars
    BY DEF Serve, CreateDepartment
  <2> QED
    BY <1>1, <1>2, <2>1, SubmitActions, AnswerActions, NavigationActions, UnseenActions
<1>3. UNCHANGED vars => UNCHANGED deskVars
  BY DEF vars
<1> QED
  BY <1>1, <1>2, <1>3, DialogActions, QueryActions, NavigationActions, UnseenActions DEF Next

(* The administrator's pages, composed with admin-service, implement the   *)
(* specification of admin-service: every assignment they submit is a call  *)
(* it may get, and nothing else they do changes its tables.                *)
THEOREM DeskCallsTheService == Spec => ServiceSpec
<1>1. ASSUME DeskInv, ServiceInv, [Next]_vars PROVE DeskInv' /\ ServiceInv' /\ [ServiceNext]_serviceVars
  BY <1>1, DeskStepIsServiceStep, ServiceStepInv, DeskInvNext
<1>2. Init => ServiceInit /\ DeskInv /\ ServiceInv
  BY ServiceInvInit, DeskInvInit DEF Init
<1> QED
  BY <1>1, <1>2, PTL DEF Spec, ServiceSpec

(* The invariant of the administrator's pages. *)
THEOREM DeskInvariance == Spec => [](ServiceInv /\ DeskInv)
<1>1. Init => ServiceInv /\ DeskInv
  BY ServiceInvInit, DeskInvInit DEF Init
<1>2. ASSUME DeskInv, ServiceInv, [Next]_vars PROVE DeskInv' /\ ServiceInv'
  BY <1>2, DeskStepIsServiceStep, ServiceStepInv, DeskInvNext
<1> QED
  BY <1>1, <1>2, PTL DEF Spec

(* What admin-service promises it promises to the pages.                   *)
THEOREM AnswersHoldAtTheDesk == Spec => [](AnswersTell /\ OneCreatorOfAName)
BY DeskCallsTheService, AnswersAreTrue, NamesAreCreatedOnce, PTL

(* A department or a status can be submitted only in the dialog that shows *)
(* the complaint for which it was chosen, for any number of complaints,    *)
(* departments and assignments under way                                   *)
(* (AdminComplaintListPage.tsx:109-159).                                  *)
THEOREM DialogsSubmitWhatTheyShow == Spec => []SubmitsWhatIsShown
<1>1. DeskInv => SubmitsWhatIsShown
  BY DEF DeskInv, OneDialog, SubmitsWhatIsShown, AssignShown, StatusShown
<1> QED
  BY <1>1, DeskInvariance, PTL

(* "Complaint assigned." is said when the assignment is listed, or a fetch *)
(* that has it is under way, or the list is marked as out of date, for any *)
(* number of fetches and assignments under way                             *)
(* (AdminComplaintListPage.tsx:68-75).                                     *)
THEOREM ToastsAreTrue == Spec => []ToastMeansListed
<1>1. DeskInv => ToastMeansListed
  <2>1. NoFetch.step = "none"
    BY DEF NoFetch
  <2>2. ASSUME DeskInv, NEW r \in Requests, mutation[r].step = "settled", mutation[r].mounted
        PROVE  Reads(r) /\ Current(r)
    BY <2>2 DEF DeskInv, FetchedAfter, Has
  <2> QED
    BY <2>1, <2>2 DEF ToastMeansListed, Reads, Current
<1> QED
  BY <1>1, DeskInvariance, PTL

-----------------------------------------------------------------------------
(* The seed scripts and the report.  A script says how far it has come by  *)
(* the statement it is at and by what its loop has left to do; what a      *)
(* later statement or a foreign key relies on has to be said for every one *)
(* of them (ComplaintsSeeded, AdminSeeded).  A report is followed from its *)
(* reads to its end (Reported), as long as nothing disturbs it.            *)
Statements ==
  {"delHistory", "delOutbox", "delComplaints", "create", "log", "rules", "delSeeded", "delAssigned",
   "delDepartments", "departments", "assign"}

DemoRow == [request : Requests \cup {None}, complaint : Complaints, department : Departments]

DemoTypes ==
  /\ asked \in [Requests -> [complaint : Complaints \cup {None}, department : Departments \cup {None}]]
  /\ at \in [Requests -> Steps]
  /\ complaint \in [Complaints -> Status \cup {NoRow}]
  /\ history \in [Complaints -> Nat] /\ outbox \in [Complaints -> Nat]
  /\ detail \in [Complaints -> Status \cup {NoRow}]
  /\ rule \subseteq Complaints
  /\ seed \in [Scripts -> Over \cup Statements]
  /\ todo \in [Scripts -> SUBSET Complaints]
  /\ seed["admin"] \in {"delDepartments", "departments", "assign", "done"} => assignment \in Seq(DemoRow)

ComplaintsSeeded ==
  LET s == seed["complaints"]
      left == todo["complaints"]
  IN
  ~touched =>
    /\ s # "refused"
    /\ s \in {"delOutbox", "delComplaints"} => \A k \in Complaints : history[k] = 0
    /\ s = "delComplaints" => \A k \in Complaints : outbox[k] = 0
    /\ s \in {"create", "log", "done"} =>
         \A k \in Complaints :
           /\ outbox[k] = 0
           /\ IF k \in left THEN history[k] = 0 /\ complaint[k] \in {NoRow, "IN_PROGRESS"}
                            ELSE history[k] = 1 /\ complaint[k] = "IN_PROGRESS"
    /\ s = "done" => left = {}

(* complaint k has a back-dated row in a list of assignments *)
Listed(k, list) == \E i \in DOMAIN list : list[i].complaint = k /\ list[i].request = None

AdminSeeded ==
  LET s == seed["admin"]
      left == todo["admin"]
  IN
  /\ s = "rules" => Complaints \ left \subseteq rule
  /\ s \in {"delSeeded", "delAssigned", "delDepartments", "departments", "assign", "done"} =>
       rule = Complaints
  /\ s \in {"assign", "done"} => \A k \in Complaints \ left : Listed(k, assignment)
  /\ s = "done" => left = {}

IsReport ==
  report = [step |-> report.step, rules |-> report.rules, rows |-> report.rows,
            known |-> report.known, violations |-> report.violations]

Reported ==
  calm =>
    /\ seed["complaints"] = "done" /\ seed["admin"] = "done" /\ ~touched
    /\ \A k \in Complaints : Answer(k) = complaint[k]
    /\ report.violations \subseteq Complaints
    /\ report.step \in {"rowsRead", "judge"} => report.rows \in Seq(DemoRow)
    /\ report.step \in {"rulesRead", "judge"} => report.rules = Complaints
    /\ report.step = "rowsRead" => \A k \in Complaints : Listed(k, report.rows)
    /\ report.step = "judge" => \A k \in Complaints : k \in report.violations \/ Listed(k, report.rows)
    /\ \A k \in DOMAIN report.known : report.known[k] = "IN_PROGRESS"
    /\ report.step = "done" => report.violations = Complaints

DemoInv == DemoTypes /\ Named /\ ComplaintsSeeded /\ AdminSeeded /\ IsReport /\ Reported

(* Tables left by earlier runs are none at the start. *)
LEMMA DemoInvInit == DemoInit => DemoInv
<1> SUFFICES ASSUME DemoInit PROVE DemoInv
  OBVIOUS
<1>1. \A r \in Requests : at[r] = "idle"
  BY DEF DemoInit, ServiceInit
<1>2. seed["complaints"] = "never" /\ seed["admin"] = "never"
  BY DEF DemoInit, Scripts
<1>3. report = NoReport /\ calm = FALSE
  BY DEF DemoInit, InitReport
<1>4. DemoTypes
  BY <1>2 DEF DemoTypes, DemoInit, ServiceInit, InitReport, Scripts, Over, Steps, NoArguments
<1>5. Named
  BY <1>1 DEF Named
<1>6. ComplaintsSeeded /\ AdminSeeded
  BY <1>2 DEF ComplaintsSeeded, AdminSeeded
<1>7. IsReport /\ Reported
  BY <1>3 DEF IsReport, Reported, NoReport
<1> QED
  BY <1>4, <1>5, <1>6, <1>7 DEF DemoInv

-----------------------------------------------------------------------------
(* A statement of a script: its outcome is said by the script's part of    *)
(* the invariant, and the report it disturbs promises nothing any more.    *)
LEMMA ScriptStep ==
  ASSUME DemoInv, NEW s \in Scripts, NEW step \in Over \cup Statements, NEW left \in SUBSET Complaints,
         GoOn(s, step, left),
         complaint' \in [Complaints -> Status \cup {NoRow}],
         history' \in [Complaints -> Nat], outbox' \in [Complaints -> Nat],
         rule' \subseteq Complaints,
         seed'["admin"] \in {"delDepartments", "departments", "assign", "done"} =>
           assignment' \in Seq(DemoRow),
         ComplaintsSeeded', AdminSeeded'
  PROVE  DemoInv'
<1> USE DEF DemoInv
<1>1. UNCHANGED <<asked, at, detail, report>> /\ calm' = FALSE
  BY DEF GoOn
<1>2. seed' \in [Scripts -> Over \cup Statements] /\ todo' \in [Scripts -> SUBSET Complaints]
  BY DEF GoOn, DemoTypes
<1>3. DemoTypes'
  BY <1>1, <1>2 DEF DemoTypes
<1>4. Named' /\ IsReport' /\ Reported'
  BY <1>1 DEF Named, IsReport, Reported
<1> QED
  BY <1>3, <1>4

LEMMA ScriptFacts ==
  ASSUME DemoTypes, NEW s \in Scripts, NEW step, NEW left, GoOn(s, step, left)
  PROVE  /\ seed'[s] = step /\ todo'[s] = left
         /\ \A t \in Scripts : t # s => seed'[t] = seed[t] /\ todo'[t] = todo[t]
         /\ "complaints" \in Scripts /\ "admin" \in Scripts
BY DEF GoOn, DemoTypes, Scripts

(* The script that does not run keeps its part. *)
LEMMA ComplaintsKept ==
  ASSUME ComplaintsSeeded, UNCHANGED <<complaint, history, outbox, touched>>,
         seed'["complaints"] = seed["complaints"], todo'["complaints"] = todo["complaints"]
  PROVE  ComplaintsSeeded'
BY DEF ComplaintsSeeded

LEMMA AdminKept ==
  ASSUME AdminSeeded, UNCHANGED <<rule>>,
         \A k \in Complaints : Listed(k, assignment) => Listed(k, assignment'),
         seed'["admin"] = seed["admin"], todo'["admin"] = todo["admin"]
  PROVE  AdminSeeded'
BY DEF AdminSeeded

LEMMA StartInv ==
  ASSUME DemoInv, NEW s \in Scripts, Start(s)
  PROVE  DemoInv'
<1> USE DEF DemoInv
<1>1. /\ UNCHANGED <<complaint, department, assignment, announced, asked, at, rule, detail, history, outbox>>
      /\ report' = NoReport /\ calm' = FALSE
      /\ todo' = [todo EXCEPT ![s] = Complaints]
  BY DEF Start, serviceVars
<1>2. PICK step \in {"delHistory", "rules", "failed"} :
        /\ seed' = [seed EXCEPT ![s] = step]
        /\ IF s = "complaints" THEN step = "delHistory" ELSE step # "delHistory" /\ UNCHANGED touched
  BY DEF Start, Scripts
<1>3. seed' \in [Scripts -> Over \cup Statements] /\ todo' \in [Scripts -> SUBSET Complaints]
  BY <1>1, <1>2 DEF DemoTypes, Over, Statements
<1>4. DemoTypes'
  BY <1>1, <1>2, <1>3 DEF DemoTypes, Scripts
<1>5. Named' /\ IsReport' /\ Reported'
  BY <1>1 DEF Named, IsReport, Reported, NoReport
<1>6. ComplaintsSeeded'
  BY <1>1, <1>2 DEF ComplaintsSeeded, DemoTypes, Scripts
<1>7. AdminSeeded'
  BY <1>1, <1>2 DEF AdminSeeded, DemoTypes, Scripts, Listed
<1> QED
  BY <1>4, <1>5, <1>6, <1>7

LEMMA StopInv ==
  ASSUME DemoInv, NEW s \in Scripts, Stop(s)
  PROVE  DemoInv'
<1> USE DEF DemoInv
<1>1. /\ UNCHANGED <<complaint, history, outbox, department, assignment, rule, touched>>
      /\ GoOn(s, "failed", {})
  BY DEF Stop, complaintTables, adminTables
<1>2. /\ seed'[s] = "failed" /\ todo'[s] = {}
      /\ \A t \in Scripts : t # s => seed'[t] = seed[t] /\ todo'[t] = todo[t]
      /\ "complaints" \in Scripts /\ "admin" \in Scripts
  BY <1>1, ScriptFacts
<1>3. ComplaintsSeeded'
  BY <1>1, <1>2, ComplaintsKept DEF ComplaintsSeeded
<1>4. AdminSeeded'
  BY <1>1, <1>2, AdminKept DEF AdminSeeded
<1>5. seed'["admin"] \in {"delDepartments", "departments", "assign", "done"} => assignment' \in Seq(DemoRow)
  BY <1>1, <1>2 DEF DemoTypes
<1>6. /\ complaint' \in [Complaints -> Status \cup {NoRow}]
      /\ history' \in [Complaints -> Nat] /\ outbox' \in [Complaints -> Nat] /\ rule' \subseteq Complaints
      /\ "failed" \in Over \cup Statements /\ {} \in SUBSET Complaints
  BY <1>1 DEF DemoTypes, Over
<1> QED
  BY <1>1, <1>3, <1>4, <1>5, <1>6, ScriptStep

-----------------------------------------------------------------------------
(* What every statement of the two scripts has in common. *)
LEMMA ComplaintScriptInv ==
  ASSUME DemoInv, NEW step, NEW next \in Over \cup Statements, NEW left \in SUBSET Complaints,
         ComplaintScript(step, next, left),
         complaint' \in [Complaints -> Status \cup {NoRow}],
         history' \in [Complaints -> Nat], outbox' \in [Complaints -> Nat],
         seed'["complaints"] = next /\ todo'["complaints"] = left => ComplaintsSeeded'
  PROVE  DemoInv'
<1> USE DEF DemoInv
<1>1. /\ GoOn("complaints", next, left) /\ UNCHANGED <<department, assignment, rule, touched>>
      /\ "complaints" \in Scripts
  BY DEF ComplaintScript, adminTables, Scripts
<1>2. /\ seed'["complaints"] = next /\ todo'["complaints"] = left
      /\ seed'["admin"] = seed["admin"] /\ todo'["admin"] = todo["admin"]
  BY <1>1, ScriptFacts
<1>3. AdminSeeded'
  BY <1>1, <1>2, AdminKept
<1>4. seed'["admin"] \in {"delDepartments", "departments", "assign", "done"} => assignment' \in Seq(DemoRow)
  BY <1>1, <1>2 DEF DemoTypes
<1>5. rule' \subseteq Complaints
  BY <1>1 DEF DemoTypes
<1> QED
  BY <1>1, <1>2, <1>3, <1>4, <1>5, ScriptStep

LEMMA AdminScriptInv ==
  ASSUME DemoInv, NEW step, NEW next \in Over \cup Statements, NEW left \in SUBSET Complaints,
         AdminScript(step, next, left), rule' \subseteq Complaints,
         next \in {"delDepartments", "departments", "assign", "done"} => assignment' \in Seq(DemoRow),
         seed'["admin"] = next /\ todo'["admin"] = left => AdminSeeded'
  PROVE  DemoInv'
<1> USE DEF DemoInv
<1>1. /\ GoOn("admin", next, left) /\ UNCHANGED <<complaint, history, outbox, touched>>
      /\ "admin" \in Scripts
  BY DEF AdminScript, complaintTables, Scripts
<1>2. /\ seed'["admin"] = next /\ todo'["admin"] = left
      /\ seed'["complaints"] = seed["complaints"] /\ todo'["complaints"] = todo["complaints"]
  BY <1>1, ScriptFacts
<1>3. ComplaintsSeeded'
  BY <1>1, <1>2, ComplaintsKept
<1>4. complaint' \in [Complaints -> Status \cup {NoRow}] /\ history' \in [Complaints -> Nat]
      /\ outbox' \in [Complaints -> Nat]
  BY <1>1 DEF DemoTypes
<1> QED
  BY <1>1, <1>2, <1>3, <1>4, ScriptStep

(* The three deletes: the foreign keys of the history and of the outbox    *)
(* refuse the last one only if a row has been added since the first two.   *)
LEMMA ComplaintDeletes ==
  ASSUME DemoInv, DeleteHistory \/ DeleteOutbox \/ DeleteComplaints
  PROVE  DemoInv'
<1> USE DEF DemoInv
<1>1. {"delOutbox", "delComplaints", "create", "refused"} \subseteq Over \cup Statements
      /\ Complaints \in SUBSET Complaints
  BY DEF Over, Statements
<1>2. CASE DeleteHistory
  <2>1. /\ ComplaintScript("delHistory", "delOutbox", Complaints)
        /\ history' = [k \in Complaints |-> 0] /\ UNCHANGED <<complaint, outbox>>
    BY <1>2 DEF DeleteHistory
  <2>2. seed'["complaints"] = "delOutbox" => ComplaintsSeeded'
    BY <2>1 DEF ComplaintsSeeded
  <2>3. history' \in [Complaints -> Nat] /\ outbox' \in [Complaints -> Nat]
        /\ complaint' \in [Complaints -> Status \cup {NoRow}]
    BY <2>1 DEF DemoTypes
  <2> QED
    BY <1>1, <2>1, <2>2, <2>3, ComplaintScriptInv
<1>3. CASE DeleteOutbox
  <2>1. /\ ComplaintScript("delOutbox", "delComplaints", Complaints)
        /\ outbox' = [k \in Complaints |-> 0] /\ UNCHANGED <<complaint, history, touched>>
        /\ seed["complaints"] = "delOutbox"
    BY <1>3 DEF DeleteOutbox, ComplaintScript, At
  <2>2. seed'["complaints"] = "delComplaints" => ComplaintsSeeded'
    BY <2>1 DEF ComplaintsSeeded
  <2>3. history' \in [Complaints -> Nat] /\ outbox' \in [Complaints -> Nat]
        /\ complaint' \in [Complaints -> Status \cup {NoRow}]
    BY <2>1 DEF DemoTypes
  <2> QED
    BY <1>1, <2>1, <2>2, <2>3, ComplaintScriptInv
<1>4. CASE DeleteComplaints
  <2> DEFINE referred == \E k \in Complaints : history[k] + outbox[k] > 0
             after == IF referred THEN "refused" ELSE "create"
  <2>1. /\ ComplaintScript("delComplaints", after, Complaints)
        /\ complaint' = IF referred THEN complaint ELSE [k \in Complaints |-> NoRow]
        /\ UNCHANGED <<history, outbox, touched>> /\ seed["complaints"] = "delComplaints"
    BY <1>4 DEF DeleteComplaints, ComplaintScript, At
  <2>2. ~touched => ~referred /\ \A k \in Complaints : history[k] = 0 /\ outbox[k] = 0
    BY <2>1 DEF ComplaintsSeeded
  <2>3. seed'["complaints"] = after /\ todo'["complaints"] = Complaints => ComplaintsSeeded'
    BY <2>1, <2>2 DEF ComplaintsSeeded
  <2>4. history' \in [Complaints -> Nat] /\ outbox' \in [Complaints -> Nat]
        /\ complaint' \in [Complaints -> Status \cup {NoRow}]
    BY <2>1 DEF DemoTypes
  <2>5. after \in Over \cup Statements
    BY <1>1
  <2> HIDE DEF after
  <2> QED
    BY <1>1, <2>1, <2>3, <2>4, <2>5, ComplaintScriptInv
<1> QED
  BY <1>2, <1>3, <1>4

LEMMA CreateComplaintInv ==
  ASSUME DemoInv, NEW k \in Complaints, CreateComplaint(k)
  PROVE  DemoInv'
<1> USE DEF DemoInv
<1> DEFINE left == todo["complaints"]
<1>1. /\ ComplaintScript("create", "log", left) /\ k \in left
      /\ complaint' = [complaint EXCEPT ![k] = "IN_PROGRESS"]
      /\ UNCHANGED <<history, outbox, touched>> /\ seed["complaints"] = "create"
  BY DEF CreateComplaint, ComplaintScript, At
<1>2. history' \in [Complaints -> Nat] /\ outbox' \in [Complaints -> Nat]
      /\ complaint' \in [Complaints -> Status \cup {NoRow}]
  BY <1>1 DEF DemoTypes, Status
<1>3. seed'["complaints"] = "log" /\ todo'["complaints"] = left => ComplaintsSeeded'
  BY <1>1 DEF ComplaintsSeeded, DemoTypes
<1>4. "log" \in Over \cup Statements /\ left \in SUBSET Complaints
  BY DEF Statements, DemoTypes, Scripts
<1> QED
  BY <1>1, <1>2, <1>3, <1>4, ComplaintScriptInv

LEMMA CreateHistoryInv ==
  ASSUME DemoInv, NEW k \in Complaints, CreateHistory(k)
  PROVE  DemoInv'
<1> USE DEF DemoInv
<1> DEFINE left == todo["complaints"]
           after == IF left = {k} THEN "done" ELSE "create"
<1>1. /\ ComplaintScript("log", after, left \ {k}) /\ k \in left /\ complaint[k] # NoRow
      /\ history' = [history EXCEPT ![k] = @ + 1]
      /\ UNCHANGED <<complaint, outbox, touched>> /\ seed["complaints"] = "log"
  BY DEF CreateHistory, ComplaintScript, At
<1>2. history' \in [Complaints -> Nat] /\ outbox' \in [Complaints -> Nat]
      /\ complaint' \in [Complaints -> Status \cup {NoRow}]
  BY <1>1 DEF DemoTypes
<1>3. after \in {"done", "create"} /\ (after = "done" => left \ {k} = {})
  OBVIOUS
<1>4. after \in Over \cup Statements /\ left \ {k} \in SUBSET Complaints
  BY DEF Statements, Over, DemoTypes, Scripts
<1> HIDE DEF after
<1>5. seed'["complaints"] = after /\ todo'["complaints"] = left \ {k} => ComplaintsSeeded'
  BY <1>1, <1>3 DEF ComplaintsSeeded, DemoTypes
<1> QED
  BY <1>1, <1>2, <1>4, <1>5, ComplaintScriptInv

-----------------------------------------------------------------------------
LEMMA UpsertRuleInv ==
  ASSUME DemoInv, NEW k \in Complaints, UpsertRule(k)
  PROVE  DemoInv'
<1> USE DEF DemoInv
<1> DEFINE left == todo["admin"]
           after == IF left = {k} THEN "delSeeded" ELSE "rules"
<1>1. /\ AdminScript("rules", after, left \ {k}) /\ k \in left
      /\ rule' = rule \cup {k} /\ seed["admin"] = "rules"
  BY DEF UpsertRule, AdminScript, At
<1>2. after \in {"delSeeded", "rules"} /\ (after = "delSeeded" => left = {k})
  OBVIOUS
<1>3. after \in Over \cup Statements /\ left \ {k} \in SUBSET Complaints /\ rule' \subseteq Complaints
  BY <1>1 DEF Statements, DemoTypes, Scripts
<1> HIDE DEF after
<1>4. seed'["admin"] = after /\ todo'["admin"] = left \ {k} => AdminSeeded'
  BY <1>1, <1>2, <1>3 DEF AdminSeeded
<1> QED
  BY <1>1, <1>2, <1>3, <1>4, AdminScriptInv

LEMMA AdminDeletes ==
  ASSUME DemoInv, DeleteSeeded \/ DeleteAssigned \/ DeleteDepartments \/ UpsertDepartments
  PROVE  DemoInv'
<1> USE DEF DemoInv
<1>1. {"delAssigned", "delDepartments", "departments", "refused", "assign"} \subseteq Over \cup Statements
      /\ {} \in SUBSET Complaints /\ Complaints \in SUBSET Complaints
  BY DEF Over, Statements
<1>2. CASE DeleteSeeded
  <2>1. AdminScript("delSeeded", "delAssigned", {}) /\ UNCHANGED rule /\ seed["admin"] = "delSeeded"
    BY <1>2 DEF DeleteSeeded, AdminScript, At
  <2>2. (seed'["admin"] = "delAssigned" => AdminSeeded') /\ rule' \subseteq Complaints
    BY <2>1 DEF AdminSeeded, DemoTypes
  <2> QED
    BY <1>1, <2>1, <2>2, AdminScriptInv
<1>3. CASE DeleteAssigned
  <2>1. /\ AdminScript("delAssigned", "delDepartments", {}) /\ UNCHANGED rule /\ assignment' = <<>>
        /\ seed["admin"] = "delAssigned"
    BY <1>3 DEF DeleteAssigned, AdminScript, At
  <2>2. (seed'["admin"] = "delDepartments" => AdminSeeded') /\ rule' \subseteq Complaints
    BY <2>1 DEF AdminSeeded, DemoTypes
  <2> QED
    BY <1>1, <2>1, <2>2, AdminScriptInv
<1>4. CASE DeleteDepartments
  <2>1. PICK after \in {"refused", "departments"} : AdminScript("delDepartments", after, {})
    BY <1>4 DEF DeleteDepartments
  <2>2. UNCHANGED <<rule, assignment>> /\ seed["admin"] = "delDepartments"
    BY <1>4 DEF DeleteDepartments, AdminScript, At
  <2>3. /\ seed'["admin"] = after => AdminSeeded'
        /\ rule' \subseteq Complaints /\ assignment' \in Seq(DemoRow)
    BY <2>2 DEF AdminSeeded, DemoTypes
  <2> QED
    BY <1>1, <2>1, <2>3, AdminScriptInv
<1>5. CASE UpsertDepartments
  <2>1. AdminScript("departments", "assign", Complaints) /\ UNCHANGED <<rule, assignment>>
        /\ seed["admin"] = "departments"
    BY <1>5 DEF UpsertDepartments, AdminScript, At
  <2>2. /\ seed'["admin"] = "assign" /\ todo'["admin"] = Complaints => AdminSeeded'
        /\ rule' \subseteq Complaints /\ assignment' \in Seq(DemoRow)
    BY <2>1 DEF AdminSeeded, DemoTypes
  <2> QED
    BY <1>1, <2>1, <2>2, AdminScriptInv
<1> QED
  BY <1>2, <1>3, <1>4, <1>5

(* Rows are added at the end. *)
LEMMA ListedMore ==
  ASSUME NEW list \in Seq(DemoRow), NEW row \in DemoRow
  PROVE  /\ Append(list, row) \in Seq(DemoRow)
         /\ \A k \in Complaints : Listed(k, list) => Listed(k, Append(list, row))
         /\ \A k \in Complaints : row.complaint = k /\ row.request = None => Listed(k, Append(list, row))
<1>1. /\ Append(list, row) \in Seq(DemoRow) /\ Len(Append(list, row)) = Len(list) + 1 /\ Len(list) \in Nat
      /\ DOMAIN Append(list, row) = 1 .. Len(list) + 1 /\ DOMAIN list = 1 .. Len(list)
      /\ \A i \in 1 .. Len(list) : Append(list, row)[i] = list[i]
      /\ Append(list, row)[Len(list) + 1] = row
  BY AppendProperties
<1>2. Len(list) + 1 \in DOMAIN Append(list, row) /\ DOMAIN list \subseteq DOMAIN Append(list, row)
  BY <1>1
<1> QED
  BY <1>1, <1>2 DEF Listed

LEMMA UpsertAssignmentInv ==
  ASSUME DemoInv, NEW k \in Complaints, UpsertAssignment(k)
  PROVE  DemoInv'
<1> USE DEF DemoInv
<1> DEFINE left == todo["admin"]
           after == IF left = {k} THEN "done" ELSE "assign"
<1>0. PICK row : row = [request |-> None, complaint |-> k, department |-> Home]
  OBVIOUS
<1>1. /\ AdminScript("assign", after, left \ {k}) /\ k \in left
      /\ assignment' = Append(assignment, row) /\ UNCHANGED rule /\ seed["admin"] = "assign"
  BY <1>0 DEF UpsertAssignment, AdminScript, At
<1>2. after \in {"done", "assign"} /\ (after = "done" => left \ {k} = {})
  OBVIOUS
<1>3. after \in Over \cup Statements /\ left \ {k} \in SUBSET Complaints /\ rule' \subseteq Complaints
  BY <1>1 DEF Over, Statements, DemoTypes, Scripts
<1> HIDE DEF after
<1>4. row \in DemoRow /\ assignment \in Seq(DemoRow)
  BY <1>0, <1>1, DemoAssumption DEF DemoAssumption, DemoRow, DemoTypes
<1>5. /\ assignment' \in Seq(DemoRow)
      /\ \A c \in Complaints : Listed(c, assignment) \/ c = k => Listed(c, assignment')
  BY <1>0, <1>1, <1>4, ListedMore
<1>6. seed'["admin"] = after /\ todo'["admin"] = left \ {k} => AdminSeeded'
  BY <1>1, <1>2, <1>5 DEF AdminSeeded
<1> QED
  BY <1>1, <1>3, <1>5, <1>6, AdminScriptInv

-----------------------------------------------------------------------------
(* The services meanwhile: a status change is no rerun's fault any more    *)
(* (touched), an assignment only adds to the table.                        *)
LEMMA PatchInv ==
  ASSUME DemoInv, NEW k \in Complaints, NEW to \in Status, Patch(k, to)
  PROVE  DemoInv'
<1> USE DEF DemoInv
<1>1. /\ UNCHANGED <<assignment, asked, at, rule, report, seed, todo>>
      /\ complaint' = [complaint EXCEPT ![k] = to] /\ detail' = [detail EXCEPT ![k] = NoRow]
      /\ history' = [history EXCEPT ![k] = @ + 1] /\ outbox' = [outbox EXCEPT ![k] = @ + 1]
      /\ touched' = TRUE /\ calm' = FALSE
  BY DEF Patch, ChangeStatus
<1>2. DemoTypes'
  BY <1>1 DEF DemoTypes
<1>3. Named' /\ ComplaintsSeeded' /\ IsReport' /\ Reported'
  BY <1>1 DEF Named, ComplaintsSeeded, IsReport, Reported
<1>4. AdminSeeded'
  BY <1>1, AdminKept
<1> QED
  BY <1>2, <1>3, <1>4

(* A step of a request that leaves the table alone. *)
LEMMA RequestMoves ==
  ASSUME DemoInv, UNCHANGED <<complaint, assignment, rule, report, seedVars>>,
         asked' \in [Requests -> [complaint : Complaints \cup {None}, department : Departments \cup {None}]],
         at' \in [Requests -> Steps], Named',
         \A k \in Complaints : detail'[k] \in {detail[k], Answer(k)},
         detail' \in [Complaints -> Status \cup {NoRow}]
  PROVE  DemoInv'
<1> USE DEF DemoInv
<1>1. UNCHANGED <<history, outbox, seed, todo, touched, calm>>
  BY DEF seedVars
<1>2. DemoTypes'
  BY <1>1 DEF DemoTypes
<1>3. ComplaintsSeeded' /\ AdminSeeded' /\ IsReport'
  BY <1>1 DEF ComplaintsSeeded, AdminSeeded, IsReport, Listed
<1>4. \A k \in Complaints : Answer(k) = complaint[k] => Answer(k)' = complaint'[k]
  BY DEF Answer
<1>5. Reported'
  BY <1>1, <1>4 DEF Reported, Listed
<1> QED
  BY <1>2, <1>3, <1>5

LEMMA ServeAssignInv ==
  ASSUME DemoInv, NEW r \in Requests, ServeAssign(r)
  PROVE  DemoInv'
<1> USE DEF DemoInv
<1>1. /\ at \in [Requests -> Steps]
      /\ asked \in [Requests -> [complaint : Complaints \cup {None}, department : Departments \cup {None}]]
      /\ detail \in [Complaints -> Status \cup {NoRow}] /\ complaint \in [Complaints -> Status \cup {NoRow}]
  BY DEF DemoTypes
<1>2. UNCHANGED seedVars
  BY DEF ServeAssign
<1>3. ASSUME NEW k \in Complaints, NEW d \in Departments, CallAssign(r, k, d), UNCHANGED reportVars
      PROVE  DemoInv'
  <2>1. /\ UNCHANGED <<complaint, assignment, rule, report, detail>>
        /\ at' = [at EXCEPT ![r] = "lookUp"]
        /\ asked' = [asked EXCEPT ![r] = [complaint |-> k, department |-> d]]
    BY <1>3 DEF CallAssign, GoTo, reportVars
  <2>2. /\ at' \in [Requests -> Steps]
        /\ asked' \in [Requests -> [complaint : Complaints \cup {None}, department : Departments \cup {None}]]
    BY <1>1, <2>1 DEF Steps, Working, Answered
  <2>3. Named'
    BY <1>1, <2>1 DEF Named
  <2> QED
    BY <1>1, <1>2, <2>1, <2>2, <2>3, RequestMoves
<1>4. ASSUME NEW step, GoTo(r, step), UNCHANGED <<complaint, asked, reportVars, assignment>>,
             step \in Steps, at[r] # "lookUp",
             step = "insert" => at[r] = "findDepartment", step = "insertName" => at[r] = "checkName",
             step \notin {"lookUp", "findDepartment", "checkName"}
      PROVE  DemoInv'
  <2>1. UNCHANGED <<complaint, assignment, rule, report, detail, asked>> /\ at' = [at EXCEPT ![r] = step]
    BY <1>4 DEF GoTo, reportVars
  <2>2. at' \in [Requests -> Steps] /\ Named'
    BY <1>1, <1>4, <2>1 DEF Named
  <2> QED
    BY <1>1, <1>2, <2>1, <2>2, RequestMoves
<1>5. CASE ServiceStep(r) /\ UNCHANGED reportVars
  <2>1. CASE FindDepartment(r)
    <3>1. PICK step \in {"insert", "notFound"} : GoTo(r, step)
      BY <2>1 DEF FindDepartment
    <3>2. at[r] = "findDepartment" /\ UNCHANGED <<complaint, asked, reportVars, assignment>> /\ step \in Steps
      BY <1>5, <2>1 DEF FindDepartment, Steps, Working, Answered
    <3> QED
      BY <1>4, <3>1, <3>2
  <2>2. CASE CheckName(r)
    <3>1. PICK step \in {"exists", "insertName"} : GoTo(r, step)
      BY <2>2 DEF CheckName
    <3>2. at[r] = "checkName" /\ UNCHANGED <<complaint, asked, reportVars, assignment>> /\ step \in Steps
      BY <1>5, <2>2 DEF CheckName, Steps, Working, Answered
    <3> QED
      BY <1>4, <3>1, <3>2
  <2>3. CASE Fail(r)
    <3>1. /\ UNCHANGED <<complaint, assignment, rule, report, detail, asked>>
          /\ at' = [at EXCEPT ![r] = "failed"]
      BY <1>5, <2>3 DEF Fail, GoTo, reportVars
    <3>2. at' \in [Requests -> Steps] /\ Named'
      BY <1>1, <3>1 DEF Named, Steps, Working, Answered
    <3> QED
      BY <1>1, <1>2, <3>1, <3>2, RequestMoves
  <2>4. ASSUME NEW next \in {"publish", "failed"}, InsertAssignment(r, next)
        PROVE  DemoInv'
    <3>1. PICK row : row = NewRow(r)
      OBVIOUS
    <3>2. /\ UNCHANGED <<complaint, rule, report, detail, asked, history, outbox, seed, todo, touched, calm>>
          /\ at[r] = "insert" /\ at' = [at EXCEPT ![r] = next]
          /\ assignment' = Append(assignment, row)
      BY <1>2, <1>5, <2>4, <3>1 DEF InsertAssignment, GoTo, reportVars, seedVars
    <3>3. row \in DemoRow
      BY <1>1, <3>1, <3>2 DEF NewRow, DemoRow, Named
    <3>4. at' \in [Requests -> Steps] /\ Named'
      BY <1>1, <3>2 DEF Named, Steps, Working, Answered
    <3>5. ASSUME assignment \in Seq(DemoRow)
          PROVE  /\ assignment' \in Seq(DemoRow)
                 /\ \A k \in Complaints : Listed(k, assignment) => Listed(k, assignment')
      BY <3>2, <3>3, <3>5, ListedMore
    <3>6. DemoTypes'
      BY <3>2, <3>4, <3>5 DEF DemoTypes
    <3>7. AdminSeeded'
      BY <3>2, <3>5 DEF AdminSeeded, DemoTypes
    <3>8. ComplaintsSeeded' /\ IsReport' /\ Reported'
      BY <3>2 DEF ComplaintsSeeded, IsReport, Reported, Listed, Answer
    <3> QED
      BY <3>4, <3>6, <3>7, <3>8
  <2>5. ASSUME NEW next \in {"assigned", "failed"}, PublishAssigned(r, next)
        PROVE  DemoInv'
    <3>1. GoTo(r, next) /\ at[r] = "publish" /\ UNCHANGED <<complaint, asked, reportVars, assignment>>
          /\ next \in Steps
      BY <1>5, <2>5 DEF PublishAssigned, Steps, Working, Answered
    <3> QED
      BY <1>4, <3>1
  <2>6. ASSUME NEW next \in {"created", "failed"}, InsertName(r, next)
        PROVE  DemoInv'
    <3>1. GoTo(r, next) /\ at[r] = "insertName" /\ UNCHANGED <<complaint, asked, reportVars, assignment>>
          /\ next \in Steps
      BY <1>5, <2>6 DEF InsertName, Steps, Working, Answered
    <3> QED
      BY <1>4, <3>1
  <2> QED
    BY <1>5, <2>1, <2>2, <2>3, <2>4, <2>5, <2>6 DEF ServiceStep
<1>6. CASE /\ LookUpComplaint(r, Answer(asked[r].complaint)) /\ Cached(asked[r].complaint)
           /\ UNCHANGED <<rule, report>>
  <2>1. PICK step \in {"notFound", "findDepartment"} : at' = [at EXCEPT ![r] = step]
    BY <1>6 DEF LookUpComplaint, GoTo
  <2>2. UNCHANGED <<complaint, assignment, asked, rule, report>> /\ at[r] = "lookUp"
        /\ asked[r].complaint \in Complaints
    BY <1>6 DEF LookUpComplaint, Named
  <2>3. at' \in [Requests -> Steps] /\ Named'
    BY <1>1, <2>1, <2>2 DEF Named, Steps, Working, Answered
  <2>4. /\ \A k \in Complaints : detail'[k] \in {detail[k], Answer(k)}
        /\ detail' \in [Complaints -> Status \cup {NoRow}]
    BY <1>1, <1>6, <2>2 DEF Cached, Answer
  <2> QED
    BY <1>1, <1>2, <2>2, <2>3, <2>4, RequestMoves
<1> QED
  BY <1>3, <1>5, <1>6 DEF ServeAssign

-----------------------------------------------------------------------------
(* The report.  What it has read it keeps; a row leaves the list when it   *)
(* has been judged, and every demo complaint is still in the list or       *)
(* already a violation.                                                    *)
LEMMA ReportRests ==
  ASSUME DemoInv, Report, IsReport', Reported', detail' \in [Complaints -> Status \cup {NoRow}]
  PROVE  DemoInv'
<1> USE DEF DemoInv
<1>1. UNCHANGED <<complaint, assignment, asked, at, history, outbox, seed, todo, touched, rule>>
  BY DEF Report, ReportStep, serviceVars, StartReport, ReadRules, ReadRows, JudgeKnown, JudgeFetched,
         EndReport, ExpireDetail
<1>2. DemoTypes'
  BY <1>1 DEF DemoTypes
<1>3. Named' /\ ComplaintsSeeded' /\ AdminSeeded'
  BY <1>1 DEF Named, ComplaintsSeeded, AdminSeeded, Listed
<1> QED
  BY <1>2, <1>3

(* What holds of the rest during a report that nothing disturbs. *)
LEMMA CalmFacts ==
  ASSUME DemoInv, calm
  PROVE  /\ rule = Complaints /\ assignment \in Seq(DemoRow)
         /\ \A k \in Complaints : Listed(k, assignment)
         /\ \A k \in Complaints : complaint[k] = "IN_PROGRESS" /\ Answer(k) = "IN_PROGRESS"
<1>1. seed["complaints"] = "done" /\ seed["admin"] = "done" /\ ~touched
      /\ \A k \in Complaints : Answer(k) = complaint[k]
  BY DEF DemoInv, Reported
<1>2. todo["complaints"] = {} /\ \A k \in Complaints : complaint[k] = "IN_PROGRESS"
  BY <1>1 DEF DemoInv, ComplaintsSeeded
<1>3. rule = Complaints /\ \A k \in Complaints : Listed(k, assignment)
  BY <1>1 DEF DemoInv, AdminSeeded
<1> QED
  BY <1>1, <1>2, <1>3 DEF DemoInv, DemoTypes

LEMMA ReportWith ==
  ASSUME IsReport, NEW list, NEW known, NEW violations
  PROVE  [report EXCEPT !.rows = list, !.known = known, !.violations = violations] =
         [step |-> report.step, rules |-> report.rules, rows |-> list, known |-> known,
          violations |-> violations]
<1>1. PICK one : one = [report EXCEPT !.rows = list]
  OBVIOUS
<1>2. PICK step, rules, seen, found :
        /\ step = report.step /\ rules = report.rules
        /\ one = [step |-> step, rules |-> rules, rows |-> list, known |-> seen, violations |-> found]
  BY <1>1 DEF IsReport
<1>3. PICK two : two = [one EXCEPT !.known = known]
  OBVIOUS
<1>4. two = [step |-> step, rules |-> rules, rows |-> list, known |-> known, violations |-> found]
  BY <1>2, <1>3
<1>5. [two EXCEPT !.violations = violations] =
      [step |-> step, rules |-> rules, rows |-> list, known |-> known, violations |-> violations]
  BY <1>4
<1>6. [report EXCEPT !.rows = list, !.known = known, !.violations = violations] =
      [two EXCEPT !.violations = violations]
  BY <1>1, <1>3
<1> QED
  BY <1>2, <1>5, <1>6

LEMMA JudgedFacts ==
  ASSUME IsReport, calm => report.rows \in Seq(DemoRow) /\ report.rules = Complaints,
         report.rows # <<>>, NEW status, NEW row, row = Newest, calm => status = "IN_PROGRESS"
  PROVE  LET after == Judged(row, status) IN
         /\ after = [step |-> after.step, rules |-> after.rules, rows |-> after.rows,
                     known |-> after.known, violations |-> after.violations]
         /\ after.step = report.step /\ after.rules = report.rules
         /\ calm =>
              /\ after.rows \in Seq(DemoRow)
              /\ DOMAIN after.known = DOMAIN report.known \cup {row.complaint}
              /\ \A k \in DOMAIN after.known : after.known[k] \in {report.known[k], "IN_PROGRESS"}
                    /\ (k \notin DOMAIN report.known => after.known[k] = "IN_PROGRESS")
              /\ report.violations \subseteq after.violations
              /\ after.violations \subseteq report.violations \cup Complaints
              /\ \A k \in Complaints :
                   Listed(k, report.rows) => Listed(k, after.rows) \/ k \in after.violations
<1> DEFINE list == SubSeq(report.rows, 1, Len(report.rows) - 1)
           known == [k \in DOMAIN report.known \cup {row.complaint} |->
                       IF k = row.complaint THEN status ELSE report.known[k]]
           violations == IF status = "IN_PROGRESS" /\ row.complaint \in report.rules /\ Overdue(row)
                           THEN report.violations \cup {row.complaint} ELSE report.violations
           after == Judged(row, status)
<1>1. after = [report EXCEPT !.rows = list, !.known = known, !.violations = violations]
  BY DEF Judged
<1>2. after = [step |-> report.step, rules |-> report.rules, rows |-> list, known |-> known,
               violations |-> violations]
  <2> HIDE DEF list, known, violations, after
  <2> QED
    BY <1>1, ReportWith
<1>3. ASSUME calm
      PROVE  /\ list \in Seq(DemoRow)
             /\ \A k \in Complaints :
                  Listed(k, report.rows) => Listed(k, list) \/ (k = row.complaint /\ row.request = None)
             /\ row \in DemoRow
  <2>1. report.rows \in Seq(DemoRow) /\ Len(report.rows) \in Nat \ {0}
        /\ DOMAIN report.rows = 1 .. Len(report.rows) /\ row = report.rows[Len(report.rows)]
    BY <1>3 DEF Newest
  <2>2. /\ list \in Seq(DemoRow) /\ DOMAIN list = 1 .. Len(report.rows) - 1
        /\ \A i \in 1 .. Len(report.rows) - 1 : list[i] = report.rows[i]
    BY <2>1
  <2>3. row \in DemoRow
    BY <2>1
  <2> HIDE DEF list
  <2>4. \A i \in DOMAIN report.rows : i \in DOMAIN list \/ i = Len(report.rows)
    BY <2>1, <2>2
  <2> QED
    BY <2>1, <2>2, <2>3, <2>4 DEF Listed
<1>4. DOMAIN known = DOMAIN report.known \cup {row.complaint}
      /\ \A k \in DOMAIN known : known[k] = IF k = row.complaint THEN status ELSE report.known[k]
  OBVIOUS
<1>5. /\ report.violations \subseteq violations
      /\ calm => violations \subseteq report.violations \cup Complaints
      /\ calm /\ row.request = None => row.complaint \in violations
  BY <1>3 DEF Overdue, DemoRow
<1> HIDE DEF list, known, violations, after
<1>6. after.step = report.step /\ after.rules = report.rules /\ after.rows = list /\ after.known = known
      /\ after.violations = violations
  BY <1>2
<1>7. after = [step |-> after.step, rules |-> after.rules, rows |-> after.rows,
               known |-> after.known, violations |-> after.violations]
  BY <1>2, <1>6
<1>8. ASSUME calm
      PROVE  \A k \in DOMAIN known : known[k] \in {report.known[k], "IN_PROGRESS"}
                    /\ (k \notin DOMAIN report.known => known[k] = "IN_PROGRESS")
  BY <1>4, <1>8
<1>9. ASSUME calm, NEW k \in Complaints, Listed(k, report.rows)
       PROVE  Listed(k, list) \/ k \in violations
  BY <1>3, <1>5, <1>9
<1>10. /\ after.step = report.step /\ after.rules = report.rules
       /\ calm =>
            /\ after.rows \in Seq(DemoRow)
            /\ DOMAIN after.known = DOMAIN report.known \cup {row.complaint}
            /\ \A k \in DOMAIN after.known : after.known[k] \in {report.known[k], "IN_PROGRESS"}
                  /\ (k \notin DOMAIN report.known => after.known[k] = "IN_PROGRESS")
            /\ report.violations \subseteq after.violations
            /\ after.violations \subseteq report.violations \cup Complaints
            /\ \A k \in Complaints :
                 Listed(k, report.rows) => Listed(k, after.rows) \/ k \in after.violations
  BY <1>3, <1>4, <1>5, <1>6, <1>8, <1>9
<1> QED
  BY <1>7, <1>10 DEF after

LEMMA ReportInv ==
  ASSUME DemoInv, Report
  PROVE  DemoInv'
<1> USE DEF DemoInv
<1>1. /\ UNCHANGED <<complaint, assignment, seed, todo, touched, rule>>
      /\ detail \in [Complaints -> Status \cup {NoRow}] /\ complaint \in [Complaints -> Status \cup {NoRow}]
  BY DEF Report, ReportStep, serviceVars, StartReport, ReadRules, ReadRows, JudgeKnown, JudgeFetched,
         EndReport, ExpireDetail, DemoTypes
<1>2. report.step = "read" \/ report'.step # "read" => calm' = calm
  BY DEF Report
<1>3. CASE StartReport
  <2>1. /\ report' = [NoReport EXCEPT !.step = "read"] /\ UNCHANGED detail
    BY <1>3 DEF StartReport
  <2>2. report' = [step |-> "read", rules |-> {}, rows |-> <<>>, known |-> <<>>, violations |-> {}]
    BY <2>1 DEF NoReport
  <2>3. calm' => /\ seed["complaints"] = "done" /\ seed["admin"] = "done" /\ ~touched
                 /\ \A k \in Complaints : Answer(k) = complaint[k]
    BY <1>3, <2>2 DEF Report, StartReport, Scripts
  <2>4. report'.step = "read" /\ report'.violations = {} /\ DOMAIN report'.known = {}
    BY <2>2
  <2>5. IsReport'
    BY <2>2 DEF IsReport
  <2>6. Reported'
    BY <1>1, <2>1, <2>3, <2>4 DEF Reported, Answer
  <2> QED
    BY <1>1, <2>1, <2>5, <2>6, ReportRests
<1>4. CASE ReadRules
  <2>1. PICK step \in {"rulesRead", "judge"} :
          step = IF report.step = "read" THEN "rulesRead" ELSE "judge"
    OBVIOUS
  <2>2. /\ report' = [report EXCEPT !.rules = rule, !.step = step] /\ UNCHANGED detail
        /\ report.step \in {"read", "rowsRead"}
    BY <1>4, <2>1 DEF ReadRules
  <2>3. report' = [step |-> step, rules |-> rule, rows |-> report.rows, known |-> report.known,
                   violations |-> report.violations]
    BY <2>2 DEF IsReport
  <2>4. calm' = calm
    BY <1>2, <2>1, <2>3
  <2>5. IsReport'
    BY <2>3 DEF IsReport
  <2>6. calm => Reported'
    BY <1>1, <2>1, <2>2, <2>3, <2>4, CalmFacts DEF Reported, Answer
  <2> QED
    BY <1>1, <2>2, <2>4, <2>5, <2>6, ReportRests DEF Reported
<1>5. CASE ReadRows
  <2>1. PICK step \in {"rowsRead", "judge"} :
          step = IF report.step = "read" THEN "rowsRead" ELSE "judge"
    OBVIOUS
  <2>2. /\ report' = [report EXCEPT !.rows = assignment, !.step = step] /\ UNCHANGED detail
        /\ report.step \in {"read", "rulesRead"}
    BY <1>5, <2>1 DEF ReadRows
  <2>3. report' = [step |-> step, rules |-> report.rules, rows |-> assignment, known |-> report.known,
                   violations |-> report.violations]
    BY <2>2 DEF IsReport
  <2>4. calm' = calm
    BY <1>2, <2>1, <2>3
  <2>5. IsReport'
    BY <2>3 DEF IsReport
  <2>6. calm => Reported'
    BY <1>1, <2>1, <2>2, <2>3, <2>4, CalmFacts DEF Reported, Answer
  <2> QED
    BY <1>1, <2>2, <2>4, <2>5, <2>6, ReportRests DEF Reported
<1>6. ASSUME NEW status, NEW row, row = Newest, report.step = "judge", report.rows # <<>>,
             calm => status = "IN_PROGRESS", report' = Judged(row, status),
             \A k \in Complaints : detail'[k] \in {detail[k], Answer(k)},
             detail' \in [Complaints -> Status \cup {NoRow}]
      PROVE  DemoInv'
  <2>1. IsReport /\ (calm => report.rows \in Seq(DemoRow) /\ report.rules = Complaints)
    BY <1>6 DEF Reported
  <2>2. PICK after : after = report'
    OBVIOUS
  <2>3. /\ after = [step |-> after.step, rules |-> after.rules, rows |-> after.rows,
                    known |-> after.known, violations |-> after.violations]
        /\ after.step = "judge" /\ after.rules = report.rules
        /\ calm =>
             /\ after.rows \in Seq(DemoRow)
             /\ DOMAIN after.known = DOMAIN report.known \cup {row.complaint}
             /\ \A k \in DOMAIN after.known : after.known[k] \in {report.known[k], "IN_PROGRESS"}
                   /\ (k \notin DOMAIN report.known => after.known[k] = "IN_PROGRESS")
             /\ report.violations \subseteq after.violations
             /\ after.violations \subseteq report.violations \cup Complaints
             /\ \A k \in Complaints :
                  Listed(k, report.rows) => Listed(k, after.rows) \/ k \in after.violations
    BY <1>6, <2>1, <2>2, JudgedFacts
  <2>4. calm' = calm /\ IsReport'
    BY <1>2, <2>2, <2>3 DEF IsReport
  <2>5. \A k \in Complaints : Answer(k) = complaint[k] => Answer(k)' = complaint'[k]
    BY <1>1, <1>6 DEF Answer
  <2>6. calm => \A k \in DOMAIN after.known : after.known[k] = "IN_PROGRESS"
    BY <2>3 DEF Reported
  <2>7. calm => Reported'
    BY <1>1, <1>6, <2>2, <2>3, <2>4, <2>5, <2>6 DEF Reported
  <2> QED
    BY <1>6, <2>4, <2>7, ReportRests DEF Reported
<1>7. CASE JudgeKnown
  <2>1. PICK row : row = Newest
    OBVIOUS
  <2>2. /\ report.step = "judge" /\ report.rows # <<>> /\ row.complaint \in DOMAIN report.known
        /\ report' = Judged(row, report.known[row.complaint]) /\ UNCHANGED detail
    BY <1>7, <2>1 DEF JudgeKnown
  <2>3. calm => report.known[row.complaint] = "IN_PROGRESS"
    BY <2>2 DEF Reported
  <2> QED
    BY <1>1, <1>6, <2>1, <2>2, <2>3
<1>8. CASE JudgeFetched
  <2>1. PICK row : row = Newest
    OBVIOUS
  <2>2. /\ report.step = "judge" /\ report.rows # <<>> /\ Cached(row.complaint)
        /\ report' = IF Answer(row.complaint) = NoRow THEN [NoReport EXCEPT !.step = "failed"]
                                                      ELSE Judged(row, Answer(row.complaint))
    BY <1>8, <2>1 DEF JudgeFetched
  <2>3. calm => row.complaint \in Complaints
    <3>1. calm => report.rows \in Seq(DemoRow)
      BY <2>2 DEF Reported
    <3> QED
      <4>1. calm => row \in DemoRow
        <5>1. ASSUME calm PROVE Len(report.rows) \in 1 .. Len(report.rows)
          BY <2>2, <3>1, <5>1
        <5> QED
          BY <2>1, <3>1, <5>1 DEF Newest
      <4> QED
        BY <4>1 DEF DemoRow
  <2>4. /\ \A k \in Complaints : detail'[k] \in {detail[k], Answer(k)}
        /\ detail' \in [Complaints -> Status \cup {NoRow}]
    BY <1>1, <2>2 DEF Cached, Answer
  <2>5. calm => Answer(row.complaint) = "IN_PROGRESS"
    BY <2>3, CalmFacts
  <2>6. CASE Answer(row.complaint) = NoRow
    <3>1. ~calm
      BY <2>5, <2>6 DEF NoRow
    <3>2. report' = [step |-> "failed", rules |-> {}, rows |-> <<>>, known |-> <<>>, violations |-> {}]
      BY <2>2, <2>6 DEF NoReport
    <3>3. IsReport' /\ Reported'
      BY <1>2, <3>1, <3>2 DEF IsReport, Reported
    <3> QED
      BY <2>4, <3>3, ReportRests
  <2>7. CASE Answer(row.complaint) # NoRow
    BY <1>6, <2>1, <2>2, <2>4, <2>5, <2>7
  <2> QED
    BY <2>6, <2>7
<1>9. CASE EndReport
  <2>1. UNCHANGED detail
    BY <1>9 DEF EndReport
  <2>2. CASE /\ report.step = "judge" /\ report.rows = <<>>
             /\ report' = [report EXCEPT !.step = "done", !.rules = {}, !.known = <<>>]
    <3>1. report' = [step |-> "done", rules |-> {}, rows |-> <<>>, known |-> <<>>,
                     violations |-> report.violations]
      BY <2>2 DEF IsReport
    <3>2. calm' = calm /\ IsReport'
      BY <1>2, <3>1 DEF IsReport
    <3>3. calm => \A k \in Complaints : k \in report.violations
      BY <2>2 DEF Reported, Listed
    <3>4. calm => Reported'
      BY <1>1, <2>1, <3>1, <3>2, <3>3 DEF Reported, Answer
    <3> QED
      BY <1>1, <2>1, <3>2, <3>4, ReportRests DEF Reported
  <2>3. CASE report' = [NoReport EXCEPT !.step = "failed"]
    <3>1. report' = [step |-> "failed", rules |-> {}, rows |-> <<>>, known |-> <<>>, violations |-> {}]
      BY <2>3 DEF NoReport
    <3>2. calm' = calm /\ IsReport'
      BY <1>2, <3>1 DEF IsReport
    <3>3. calm => Reported'
      BY <1>1, <2>1, <3>1, <3>2 DEF Reported, Answer
    <3> QED
      BY <1>1, <2>1, <3>2, <3>3, ReportRests DEF Reported
  <2> QED
    BY <1>9, <2>2, <2>3 DEF EndReport
<1>10. ASSUME NEW k \in Complaints, ExpireDetail(k)
       PROVE  DemoInv'
  <2>1. detail' = [detail EXCEPT ![k] = NoRow] /\ UNCHANGED report
    BY <1>10 DEF ExpireDetail
  <2>2. /\ detail' \in [Complaints -> Status \cup {NoRow}] /\ calm' = calm
        /\ \A c \in Complaints : Answer(c) = complaint[c] => Answer(c)' = complaint'[c]
    BY <1>1, <1>2, <2>1 DEF Answer
  <2>3. IsReport' /\ Reported'
    BY <1>1, <2>1, <2>2 DEF IsReport, Reported
  <2> QED
    BY <2>2, <2>3, ReportRests
<1> QED
  BY <1>3, <1>4, <1>5, <1>7, <1>8, <1>9, <1>10 DEF Report, ReportStep

-----------------------------------------------------------------------------
LEMMA DemoInvNext == DemoInv /\ [DemoNext]_demoVars => DemoInv'
<1> SUFFICES ASSUME DemoInv, [DemoNext]_demoVars PROVE DemoInv'
  OBVIOUS
<1>1. CASE UNCHANGED demoVars
  <2>1. UNCHANGED <<complaint, assignment, asked, at, rule, detail, report, history, outbox, seed, todo,
                    touched, calm>>
    BY <1>1 DEF demoVars, serviceVars, reportVars, seedVars
  <2>2. DemoTypes' /\ Named'
    BY <2>1 DEF DemoInv, DemoTypes, Named
  <2>3. ComplaintsSeeded' /\ AdminSeeded' /\ IsReport' /\ Reported'
    BY <2>1 DEF DemoInv, ComplaintsSeeded, AdminSeeded, IsReport, Reported, Answer, Listed
  <2> QED
    BY <2>2, <2>3 DEF DemoInv
<1>2. CASE DemoNext
  BY <1>2, StartInv, StopInv, ComplaintDeletes, AdminDeletes, CreateComplaintInv, CreateHistoryInv,
     UpsertRuleInv, UpsertAssignmentInv, PatchInv, ServeAssignInv, ReportInv DEF DemoNext
<1> QED
  BY <1>1, <1>2

(* The inductive invariant of the demonstration: how far each seed script  *)
(* of complaint-service and of admin-service has come, and what a report   *)
(* of getSlaViolations has read, holds in every reachable state, for any   *)
(* number of complaints, requests, runs and status changes.                *)
THEOREM DemoInvariance == DemoSpec => []DemoInv
<1> QED
  BY DemoInvInit, DemoInvNext, PTL DEF DemoSpec

(* The seed of complaint-service (main in prisma/seed.ts) can be run again *)
(* whatever earlier runs and the services left behind: unless a status     *)
(* changes under it no foreign key refuses its deletes, and when it is     *)
(* done every demo complaint is in progress with one history row and no    *)
(* event.                                                                  *)
THEOREM RerunsConverge == DemoSpec => []RerunConverges
<1>1. DemoInv => RerunConverges
  BY DEF DemoInv, ComplaintsSeeded, RerunConverges
<1> QED
  BY <1>1, DemoInvariance, PTL

(* A report of the SLA violations (getSlaViolations) that nothing disturbs *)
(* and that is asked for after both seeds have been run to their end shows *)
(* every demo complaint, whatever assignments and failed runs there were.  *)
THEOREM DemoIsShown == DemoSpec => []DemoShowsViolations
<1>1. DemoInv => DemoShowsViolations
  BY DEF DemoInv, Reported, DemoShowsViolations
<1> QED
  BY <1>1, DemoInvariance, PTL

=============================================================================

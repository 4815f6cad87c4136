---------------------------- MODULE AdminService ----------------------------
(***************************************************************************)
(* admin-service: the assignment of a complaint to a department, the       *)
(* departments, and what it asks of complaint-service on the way.  It has  *)
(* tables of its own, no transaction around its statements and no outbox:  *)
(* every await is a step, other calls run in between, and a call may fail  *)
(* before a statement or after it has had its effect.                      *)
(*                                                                         *)
(* A department is named by its unique name.  A row of Assignment keeps    *)
(* the request that made it; rows are in the order of assignedAt.          *)
(***************************************************************************)
EXTENDS Naturals, Sequences, ComplaintStatus

CONSTANTS
  Complaints,    \* ids a request may name
  Departments,   \* names a request may give
  Requests,      \* calls of POST /complaints/:id/assign and POST /departments
  None           \* no complaint, no department

ASSUME NoneAssumption == None \notin Complaints \cup Departments

VARIABLES
  complaint,     \* complaint-service: status of each complaint, or NoRow
  department,    \* the names in the table Department
  assignment,    \* the rows of the table Assignment
  announced,     \* the requests whose complaint.assigned is in the stream
  asked,         \* what each request asks for
  at             \* the statement a request is at, or how it was answered

serviceVars == <<complaint, department, assignment, announced, asked, at>>

-----------------------------------------------------------------------------
NoArguments == [complaint |-> None, department |-> None]

Working == {"lookUp", "findDepartment", "insert", "publish", "checkName", "insertName"}

ServiceInit ==
  /\ complaint \in [Complaints -> {NoRow, "OPEN"}]
  /\ department \in SUBSET Departments
  /\ assignment = <<>>
  /\ announced = {}
  /\ asked = [r \in Requests |-> NoArguments]
  /\ at = [r \in Requests |-> "idle"]

GoTo(r, step) == at' = [at EXCEPT ![r] = step]

(* assignComplaintHandler, behind internalAuth and adminGuard *)
CallAssign(r, k, d) ==
  /\ at[r] = "idle" /\ GoTo(r, "lookUp")
  /\ asked' = [asked EXCEPT ![r] = [complaint |-> k, department |-> d]]
  /\ UNCHANGED <<complaint, department, assignment, announced>>

(* createDepartmentHandler *)
CallCreate(r, d) ==
  /\ at[r] = "idle" /\ GoTo(r, "checkName")
  /\ asked' = [asked EXCEPT ![r] = [complaint |-> None, department |-> d]]
  /\ UNCHANGED <<complaint, department, assignment, announced>>

-----------------------------------------------------------------------------
(* fetchComplaintDetails: complaint-service answers with a row or with 404 *)
LookUpComplaint(r, answer) ==
  /\ at[r] = "lookUp"
  /\ GoTo(r, IF answer = NoRow THEN "notFound" ELSE "findDepartment")
  /\ UNCHANGED <<complaint, department, assignment, announced, asked>>

FindDepartment(r) ==
  /\ at[r] = "findDepartment"
  /\ GoTo(r, IF asked[r].department \in department THEN "insert" ELSE "notFound")
  /\ UNCHANGED <<complaint, department, assignment, announced, asked>>

NewRow(r) ==
  [request |-> r, complaint |-> asked[r].complaint, department |-> asked[r].department]

(* prisma.assignment.create, which the foreign key allows; a statement is  *)
(* followed by next, the step after it or the failure to learn its outcome *)
InsertAssignment(r, next) ==
  /\ at[r] = "insert" /\ asked[r].department \in department
  /\ assignment' = Append(assignment, NewRow(r))
  /\ GoTo(r, next)
  /\ UNCHANGED <<complaint, department, announced, asked>>

(* Mutant: the event goes out before the row is there. *)
PublishesFirst(r, next) ==
  /\ at[r] \in {"insert", "publish"}
  /\ announced' = announced \cup {r}
  /\ GoTo(r, IF at[r] = "insert" THEN "insert" ELSE next)
  /\ UNCHANGED <<complaint, department, assignment, asked>>

(* publishComplaintAssigned; then 200 *)
PublishAssigned(r, next) ==
  /\ at[r] = "publish"
  /\ announced' = announced \cup {r}
  /\ GoTo(r, next)
  /\ UNCHANGED <<complaint, department, assignment, asked>>

CheckName(r) ==
  /\ at[r] = "checkName"
  /\ GoTo(r, IF asked[r].department \in department THEN "exists" ELSE "insertName")
  /\ UNCHANGED <<complaint, department, assignment, announced, asked>>

(* Mutant: the name is not unique in the table. *)
InsertsAgain(r, next) ==
  /\ at[r] = "insertName"
  /\ department' = department \cup {asked[r].department}
  /\ GoTo(r, next)
  /\ UNCHANGED <<complaint, assignment, announced, asked>>

(* prisma.department.create, which the unique index allows once a name;    *)
(* otherwise it throws, and nobody maps that to 409                        *)
InsertName(r, next) ==
  /\ at[r] = "insertName" /\ asked[r].department \notin department
  /\ department' = department \cup {asked[r].department}
  /\ GoTo(r, next)
  /\ UNCHANGED <<complaint, assignment, announced, asked>>

(* complaint-service, the database or Redis does not do what it is asked,  *)
(* or the process dies: 500 or 502                                         *)
Fail(r) ==
  /\ at[r] \in Working /\ GoTo(r, "failed")
  /\ UNCHANGED <<complaint, department, assignment, announced, asked>>

(* complaint-service changes a status, see ComplaintService *)
ChangeStatus(k, to) ==
  /\ complaint[k] # NoRow /\ ValidTransition(complaint[k], to)
  /\ complaint' = [complaint EXCEPT ![k] = to]
  /\ UNCHANGED <<department, assignment, announced, asked, at>>

ServiceStep(r) ==
  \/ FindDepartment(r) \/ CheckName(r) \/ Fail(r)
  \/ \E next \in {"publish", "failed"} : InsertAssignment(r, next)
  \/ \E next \in {"assigned", "failed"} : PublishAssigned(r, next)
  \/ \E next \in {"created", "failed"} : InsertName(r, next)

ServiceNext ==
  \/ \E r \in Requests :
       \/ \E k \in Complaints, d \in Departments : CallAssign(r, k, d)
       \/ \E d \in Departments : CallCreate(r, d)
       \/ LookUpComplaint(r, complaint[asked[r].complaint])
       \/ ServiceStep(r)
  \/ \E k \in Complaints, to \in Status : ChangeStatus(k, to)

ServiceSpec == ServiceInit /\ [][ServiceNext]_serviceVars

-----------------------------------------------------------------------------
RowsOf(r) == {i \in DOMAIN assignment : assignment[i].request = r}

(* Without a transaction and without an outbox this is what an answer of   *)
(* POST /assign is worth, other calls and failures in between: 200 means   *)
(* that the row is there and its event is out; 404 that neither is; a row  *)
(* whose event is missing belongs to a request that was answered with an   *)
(* error or is still at it; a request never makes two rows, and no event   *)
(* goes out before its row.                                                *)
AnswersTell ==
  /\ \A r \in Requests :
       /\ at[r] = "assigned" => RowsOf(r) # {} /\ r \in announced
       /\ at[r] \in {"notFound", "created", "exists"} => RowsOf(r) = {}
       /\ r \in announced => RowsOf(r) # {}
       /\ \A i, j \in RowsOf(r) : i = j
  /\ \A i \in DOMAIN assignment :
       assignment[i].request \in announced \/ at[assignment[i].request] \in {"publish", "failed"}

(* createDepartment looks for the name and inserts it in two steps: of all *)
(* the requests for one name, at the same time or one after the other, at  *)
(* most one is told 201, and no request for a complaint's assignment was   *)
(* given a department that does not exist.                                 *)
OneCreatorOfAName ==
  /\ \A r, s \in Requests :
       at[r] = "created" /\ at[s] = "created" /\ asked[r].department = asked[s].department => r = s
  /\ \A i \in DOMAIN assignment : assignment[i].department \in department

=============================================================================

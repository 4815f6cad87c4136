------------------------------ MODULE DemoSeed ------------------------------
(***************************************************************************)
(* The two seed scripts that set up the SLA demonstration, run by hand in  *)
(* any order, again after a failure, and while the services run:           *)
(* complaint-service/prisma/seed.ts writes complaints in progress into the *)
(* tables of complaint-service, admin-service/prisma/seed.ts rules,        *)
(* departments and back-dated assignments into those of admin-service.     *)
(* No statement shares a transaction with another: a run may end between   *)
(* any two, and a foreign key may refuse a DELETE.  Bound: the scripts are *)
(* not run at the same time.  Seeded assignments are back-dated; as the    *)
(* report lists them all, their place in the table does not matter.        *)
(*                                                                         *)
(* All complaints here are seeded ones.  What both scripts call legacy     *)
(* departments, "Operations..." and "Ops ...", is the set Legacy.          *)
(***************************************************************************)
EXTENDS SlaReport

CONSTANTS
  Legacy,       \* the departments the seed of admin-service removes
  Home,         \* the department a seeded complaint is assigned to
  MaxRuns,      \* bound: runs of the two scripts
  MaxChanges    \* bound: status changes by the running complaint-service

ASSUME DemoAssumption == Home \in Departments \ Legacy

VARIABLES
  idsFile,      \* scripts/seed-data/sla-demo-ids.json is there
  history,      \* complaint-service: rows of StatusHistory for each complaint
  outbox,       \* complaint-service: rows of Outbox
  seed,         \* [complaints, admin]: the statement each script is at
  todo,         \* what the loop each script is in has left to do
  runs,         \* how often a script was started
  changes,      \* status changes so far
  touched,      \* history: one since the seed of complaint-service was started
  calm          \* history: nothing happened beside the report since it was started

seedVars == <<idsFile, history, outbox, seed, todo, runs, changes, touched, calm>>
demoVars == <<serviceVars, reportVars, seedVars>>

Scripts == {"complaints", "admin"}

Over == {"never", "done", "failed", "refused"}

DemoInit ==
  /\ ServiceInit /\ complaint = [k \in Complaints |-> NoRow] /\ department = Legacy
  /\ InitReport
  /\ idsFile \in BOOLEAN
  /\ history = [k \in Complaints |-> 0] /\ outbox = [k \in Complaints |-> 0]
  /\ seed = [s \in Scripts |-> "never"]
  /\ todo = [s \in Scripts |-> {}]
  /\ runs = 0
  /\ changes = 0 /\ touched = FALSE /\ calm = FALSE

-----------------------------------------------------------------------------
(* Script s, at a step, goes on to another; within a loop with what is     *)
(* left to do, entering one with everything.                               *)
At(s, step) == seed[s] = step

GoOn(s, step, left) ==
  /\ seed' = [seed EXCEPT ![s] = step] /\ todo' = [todo EXCEPT ![s] = left]
  /\ calm' = FALSE
  /\ UNCHANGED <<runs, changes, detail, report, announced, asked, at>>

complaintTables == <<complaint, history, outbox>>
adminTables     == <<department, assignment, rule>>

(* main: the reporter, the ids; seed of admin-service: the ids or ENOENT *)
Start(s) ==
  /\ \A t \in Scripts : seed[t] \in Over
  /\ runs < MaxRuns /\ runs' = runs + 1
  /\ \/ s = "complaints" /\ idsFile' = TRUE /\ touched' = FALSE
        /\ seed' = [seed EXCEPT ![s] = "delHistory"]
     \/ s = "admin" /\ UNCHANGED <<idsFile, touched>>
        /\ seed' = [seed EXCEPT ![s] = IF idsFile THEN "rules" ELSE "failed"]
  /\ todo' = [todo EXCEPT ![s] = Complaints]
  /\ report' = NoReport /\ calm' = FALSE
  /\ UNCHANGED <<serviceVars, rule, detail, history, outbox, changes>>

(* a statement fails or the script is stopped *)
Stop(s) ==
  /\ seed[s] \notin Over
  /\ GoOn(s, "failed", {})
  /\ UNCHANGED <<complaintTables, adminTables, idsFile, touched>>

-----------------------------------------------------------------------------
(* The script of complaint-service.                                        *)
ComplaintScript(step, next, left) ==
  /\ At("complaints", step) /\ GoOn("complaints", next, left)
  /\ UNCHANGED <<adminTables, idsFile, touched>>

DeleteHistory ==
  /\ ComplaintScript("delHistory", "delOutbox", Complaints)
  /\ history' = [k \in Complaints |-> 0]
  /\ UNCHANGED <<complaint, outbox>>

(* Mutant: the outbox is not emptied. *)
KeepOutbox ==
  /\ ComplaintScript("delOutbox", "delComplaints", Complaints)
  /\ UNCHANGED complaintTables

DeleteOutbox ==
  /\ ComplaintScript("delOutbox", "delComplaints", Complaints)
  /\ outbox' = [k \in Complaints |-> 0]
  /\ UNCHANGED <<complaint, history>>

(* history and outbox rows refer to the complaint *)
DeleteComplaints ==
  LET referred == \E k \in Complaints : history[k] + outbox[k] > 0 IN
  /\ ComplaintScript("delComplaints", IF referred THEN "refused" ELSE "create", Complaints)
  /\ complaint' = IF referred THEN complaint ELSE [k \in Complaints |-> NoRow]
  /\ UNCHANGED <<history, outbox>>

CreateComplaint(k) ==
  /\ k \in todo["complaints"]
  /\ ComplaintScript("create", "log", todo["complaints"])
  /\ complaint' = [complaint EXCEPT ![k] = "IN_PROGRESS"]
  /\ UNCHANGED <<history, outbox>>

(* the StatusHistory row of the complaint just created *)
CreateHistory(k) ==
  /\ k \in todo["complaints"] /\ complaint[k] # NoRow
  /\ ComplaintScript("log", IF todo["complaints"] = {k} THEN "done" ELSE "create", todo["complaints"] \ {k})
  /\ history' = [history EXCEPT ![k] = @ + 1]
  /\ UNCHANGED <<complaint, outbox>>

-----------------------------------------------------------------------------
(* The script of admin-service.                                            *)
AdminScript(step, next, left) ==
  /\ At("admin", step) /\ GoOn("admin", next, left)
  /\ UNCHANGED <<complaintTables, idsFile, touched>>

UpsertRule(k) ==
  /\ k \in todo["admin"]
  /\ AdminScript("rules", IF todo["admin"] = {k} THEN "delSeeded" ELSE "rules", todo["admin"] \ {k})
  /\ rule' = rule \cup {k}
  /\ UNCHANGED <<department, assignment>>

Kept(row) == row.request # None /\ row.department \notin Legacy

(* by the ids of the seeded rows and the legacy departments *)
DeleteSeeded ==
  /\ AdminScript("delSeeded", "delAssigned", {})
  /\ assignment' = SelectSeq(assignment, Kept)
  /\ UNCHANGED <<department, rule>>

(* of the seeded complaints: every assignment of theirs *)
DeleteAssigned ==
  /\ AdminScript("delAssigned", "delDepartments", {})
  /\ assignment' = <<>>
  /\ UNCHANGED <<department, rule>>

(* an assignment made since then refers to its department *)
DeleteDepartments ==
  LET referred == \E i \in DOMAIN assignment : assignment[i].department \in Legacy IN
  /\ AdminScript("delDepartments", IF referred THEN "refused" ELSE "departments", {})
  /\ department' = IF referred THEN department ELSE department \ Legacy
  /\ UNCHANGED <<assignment, rule>>

UpsertDepartments ==
  /\ AdminScript("departments", "assign", Complaints)
  /\ department' = department \cup {Home}
  /\ UNCHANGED <<assignment, rule>>

(* Mutant: the loop ends after the first of the assignments. *)
UpsertFirstAssignment(k) ==
  /\ k \in todo["admin"]
  /\ AdminScript("assign", "done", todo["admin"] \ {k})
  /\ assignment' = Append(assignment, [request |-> None, complaint |-> k, department |-> Home])
  /\ UNCHANGED <<department, rule>>

(* by a fixed id, which DeleteSeeded has removed *)
UpsertAssignment(k) ==
  /\ k \in todo["admin"]
  /\ AdminScript("assign", IF todo["admin"] = {k} THEN "done" ELSE "assign", todo["admin"] \ {k})
  /\ assignment' = Append(assignment, [request |-> None, complaint |-> k, department |-> Home])
  /\ UNCHANGED <<department, rule>>

-----------------------------------------------------------------------------
(* The services meanwhile.                                                 *)

(* PATCH /complaints/:id/status: see ComplaintService and ComplaintCache *)
Patch(k, to) ==
  /\ changes < MaxChanges /\ changes' = changes + 1
  /\ ChangeStatus(k, to)
  /\ history' = [history EXCEPT ![k] = @ + 1]
  /\ outbox' = [outbox EXCEPT ![k] = @ + 1]
  /\ detail' = [detail EXCEPT ![k] = NoRow]
  /\ touched' = TRUE /\ calm' = FALSE
  /\ UNCHANGED <<rule, report, idsFile, seed, todo, runs>>

ServeAssign(r) ==
  /\ \/ \E k \in Complaints, d \in Departments : CallAssign(r, k, d) /\ UNCHANGED reportVars
     \/ ServiceStep(r) /\ UNCHANGED reportVars
     \/ /\ LookUpComplaint(r, Answer(asked[r].complaint)) /\ Cached(asked[r].complaint)
        /\ UNCHANGED <<rule, report>>
  /\ UNCHANGED seedVars

(* a report is calm if both scripts are done and nothing stale is cached;   *)
(* bound: reports are asked for, and followed, between runs                *)
Report ==
  /\ ReportStep
  /\ report.step # "read" /\ report'.step = "read" => \A s \in Scripts : seed[s] \in Over
  /\ calm' = IF report.step # "read" /\ report'.step = "read"
               THEN /\ \A s \in Scripts : seed[s] = "done"
                    /\ ~touched
                    /\ \A k \in Complaints : Answer(k) = complaint[k]
               ELSE calm
  /\ UNCHANGED <<serviceVars, idsFile, history, outbox, seed, todo, runs, changes, touched>>

DemoNext ==
  \/ \E s \in Scripts : Start(s) \/ Stop(s)
  \/ DeleteHistory \/ DeleteOutbox \/ DeleteComplaints
  \/ DeleteSeeded \/ DeleteAssigned \/ DeleteDepartments \/ UpsertDepartments
  \/ \E k \in Complaints :
       \/ CreateComplaint(k) \/ CreateHistory(k) \/ UpsertRule(k) \/ UpsertAssignment(k)
       \/ \E to \in Status : Patch(k, to)
  \/ \E r \in Requests : ServeAssign(r)
  \/ Report

DemoSpec == DemoInit /\ [][DemoNext]_demoVars

-----------------------------------------------------------------------------
(* The seed of complaint-service can be run again whatever earlier runs,   *)
(* finished or not, and the service have left behind: unless a status      *)
(* changes under it no foreign key refuses its deletes, and when it is     *)
(* done every demo complaint is in progress with one history row and no    *)
(* event.                                                                  *)
RerunConverges ==
  ~touched =>
    /\ seed["complaints"] # "refused"
    /\ seed["complaints"] = "done" =>
         \A k \in Complaints : complaint[k] = "IN_PROGRESS" /\ history[k] = 1 /\ outbox[k] = 0

(* What the scripts are for: after both have been run to their end, in     *)
(* either order and after any failed runs, a report of the violations that *)
(* nothing disturbs shows every demo complaint, whatever assignments were  *)
(* made before, between and after.                                         *)
DemoShowsViolations ==
  calm /\ report.step = "done" => report.violations = Complaints

=============================================================================

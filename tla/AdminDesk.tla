------------------------------ MODULE AdminDesk ------------------------------
(***************************************************************************)
(* The two pages of the web client on which an administrator assigns       *)
(* complaints, in one browser, on top of admin-service: the list with its  *)
(* two dialogs (AdminComplaintListPage) and the form (AssignmentPage).     *)
(* Both dialogs of the list work on one selectedComplaintId; cancelling a  *)
(* dialog or leaving a page stops no mutation.                             *)
(*                                                                         *)
(* The query cache holds GET /admin/assignments.  Rows are only added, so  *)
(* what it shows is a number of rows.  Of the other queries only the time  *)
(* they take matters: between any two steps of a mutation.                 *)
(* A choice in a dialog is kept with the complaint the dialog showed then. *)
(***************************************************************************)
EXTENDS AdminService

CONSTANT Targets    \* statuses the administrator may choose

ASSUME TargetsAssumption == Targets \subseteq Status

VARIABLES
  view,        \* the page on the screen
  dialog,      \* state of the list page
  mutation,    \* assignments made in this browser, by request
  patch,       \* the status mutation of the list page
  rows         \* query ['admin', 'assignments']

deskVars == <<view, dialog, mutation, patch, rows>>
vars == <<serviceVars, deskVars>>

-----------------------------------------------------------------------------
NoChoice == [value |-> None, shown |-> None]

Closed ==
  [selected |-> None, assignOpen |-> FALSE, statusOpen |-> FALSE,
   departmentId |-> NoChoice, next |-> NoChoice]

NoMutation == [page |-> "none", step |-> "none", mounted |-> FALSE]

NoPatch == [complaint |-> None, to |-> None]

NoFetch == [step |-> "none", read |-> 0, by |-> {}]

Init ==
  /\ ServiceInit /\ complaint = [k \in Complaints |-> "OPEN"]
  /\ department # {} /\ department # Departments
  /\ view = "list"
  /\ dialog = Closed
  /\ mutation = [r \in Requests |-> NoMutation]
  /\ patch = NoPatch
  /\ rows = [shown |-> 0, loaded |-> FALSE, invalid |-> TRUE, fetch |-> NoFetch]

(* a dialog is on the screen: <Modal open={... && !!selectedComplaint}> *)
AssignShown == view = "list" /\ dialog.assignOpen /\ dialog.selected # None
StatusShown == view = "list" /\ dialog.statusOpen /\ dialog.selected # None

(* isPending of the mutation of the page instance on the screen *)
Pending(page) ==
  \E r \in Requests : mutation[r].page = page /\ mutation[r].mounted
                      /\ mutation[r].step # "settled"

-----------------------------------------------------------------------------
(* The list page and its dialogs.                                          *)

(* Mutant: the department of the last time is still chosen. *)
OpenAssignModalAgain(k) ==
  /\ view = "list" /\ ~AssignShown /\ ~StatusShown
  /\ dialog' = [dialog EXCEPT !.selected = k, !.statusOpen = FALSE, !.assignOpen = TRUE]
  /\ UNCHANGED <<serviceVars, view, mutation, patch, rows>>

OpenAssignModal(k) ==
  /\ view = "list" /\ ~AssignShown /\ ~StatusShown
  /\ dialog' = [dialog EXCEPT !.selected = k, !.departmentId = NoChoice,
                              !.statusOpen = FALSE, !.assignOpen = TRUE]
  /\ UNCHANGED <<serviceVars, view, mutation, patch, rows>>

OpenStatusModal(k) ==
  /\ view = "list" /\ ~AssignShown /\ ~StatusShown
  /\ dialog' = [dialog EXCEPT !.selected = k, !.next = NoChoice,
                              !.assignOpen = FALSE, !.statusOpen = TRUE]
  /\ UNCHANGED <<serviceVars, view, mutation, patch, rows>>

AssignModalClosed == [dialog EXCEPT !.assignOpen = FALSE, !.selected = None, !.departmentId = NoChoice]

StatusModalClosed == [dialog EXCEPT !.statusOpen = FALSE, !.selected = None, !.next = NoChoice]

(* Cancel, Escape or a click beside the dialog: also while it submits *)
CancelModal ==
  /\ \/ AssignShown /\ dialog' = AssignModalClosed
     \/ StatusShown /\ dialog' = StatusModalClosed
  /\ UNCHANGED <<serviceVars, view, mutation, patch, rows>>

Choose ==
  /\ \/ AssignShown /\ \E d \in department :
          dialog' = [dialog EXCEPT !.departmentId = [value |-> d, shown |-> dialog.selected]]
     \/ StatusShown /\ \E s \in Targets :
          dialog' = [dialog EXCEPT !.next = [value |-> s, shown |-> dialog.selected]]
  /\ UNCHANGED <<serviceVars, view, mutation, patch, rows>>

Mutate(r, page) ==
  /\ mutation' = [mutation EXCEPT ![r] = [page |-> page, step |-> "sent", mounted |-> TRUE]]
  /\ UNCHANGED <<view, dialog, patch, rows>>

(* handleAssignSubmit *)
SubmitAssign(r) ==
  /\ AssignShown /\ dialog.departmentId # NoChoice /\ ~Pending("list")
  /\ CallAssign(r, dialog.selected, dialog.departmentId.value)
  /\ Mutate(r, "list")

(* handleStatusSubmit *)
SubmitStatus ==
  /\ StatusShown /\ dialog.next # NoChoice /\ patch = NoPatch
  /\ patch' = [complaint |-> dialog.selected, to |-> dialog.next.value]
  /\ UNCHANGED <<serviceVars, view, dialog, mutation, rows>>

(* complaint-service changes the status, and the success closes the status *)
(* dialog and what it selects; or it refuses, or the answer is lost        *)
StatusAnswered ==
  /\ patch # NoPatch /\ patch' = NoPatch
  /\ \/ ChangeStatus(patch.complaint, patch.to) /\ dialog' = StatusModalClosed
     \/ ChangeStatus(patch.complaint, patch.to) /\ UNCHANGED dialog
     \/ UNCHANGED <<serviceVars, dialog>>
  /\ UNCHANGED <<view, mutation, rows>>

-----------------------------------------------------------------------------
(* The query of the assignments.                                           *)

(* A fetch, if somebody watches the query, for which the requests in by    *)
(* wait.  As long as there are no data it joins the one under way; else it *)
(* gives that one up, and those who waited for that one are free to go on  *)
(* (the library lets some of them wait for the new one).                   *)
Fetching(q, by) ==
  IF view # "list" THEN q
  ELSE IF q.fetch # NoFetch /\ ~q.loaded THEN [q EXCEPT !.fetch.by = @ \cup by]
  ELSE [q EXCEPT !.fetch = [step |-> "sent", read |-> 0, by |-> by]]

(* on mount, on focus: the data are stale, or called so *)
Refetch ==
  /\ rows.fetch = NoFetch /\ rows' = Fetching(rows, {}) /\ rows' # rows
  /\ UNCHANGED <<serviceVars, view, dialog, mutation, patch>>

(* listAssignments *)
ServeFetch ==
  /\ rows.fetch.step = "sent"
  /\ rows' = [rows EXCEPT !.fetch.step = "read", !.fetch.read = Len(assignment)]
  /\ UNCHANGED <<serviceVars, view, dialog, mutation, patch>>

FetchEnds ==
  /\ rows.fetch # NoFetch
  /\ \/ /\ rows.fetch.step = "read"
        /\ rows' = [shown |-> rows.fetch.read, loaded |-> TRUE, invalid |-> FALSE, fetch |-> NoFetch]
     \/ rows' = [rows EXCEPT !.invalid = TRUE, !.fetch = NoFetch]
  /\ UNCHANGED <<serviceVars, view, dialog, mutation, patch>>

-----------------------------------------------------------------------------
(* The mutation.                                                           *)
Step(r, step) == mutation' = [mutation EXCEPT ![r].step = step]

Awaited(r) == r \notin rows.fetch.by

(* Mutant: only the complaints are invalidated. *)
AssignedUnnoticed(r) ==
  /\ mutation[r].page = "list" /\ mutation[r].step = "sent" /\ at[r] = "assigned"
  /\ Step(r, "refetched")
  /\ UNCHANGED <<serviceVars, view, dialog, patch, rows>>

(* onSuccess: invalidateQueries marks the query and fetches it again *)
Assigned(r) ==
  /\ mutation[r].page = "list" /\ mutation[r].step = "sent" /\ at[r] = "assigned"
  /\ Step(r, "invalidated")
  /\ rows' = Fetching([rows EXCEPT !.invalid = TRUE], {r})
  /\ UNCHANGED <<serviceVars, view, dialog, patch>>

(* refetchQueries *)
RefetchAfter(r) ==
  /\ mutation[r].step = "invalidated" /\ Awaited(r)
  /\ Step(r, "refetched")
  /\ rows' = Fetching(rows, {r})
  /\ UNCHANGED <<serviceVars, view, dialog, patch>>

(* "Complaint assigned.", and closeAssignModal closes whatever is selected *)
Settle(r) ==
  /\ mutation[r].step = "refetched" /\ Awaited(r)
  /\ Step(r, "settled")
  /\ dialog' = IF mutation[r].mounted THEN AssignModalClosed ELSE dialog
  /\ UNCHANGED <<serviceVars, view, patch, rows>>

Rejected(r) ==
  /\ mutation[r].step = "sent" /\ at[r] \in {"notFound", "failed"}
  /\ mutation' = [mutation EXCEPT ![r] = NoMutation]
  /\ UNCHANGED <<serviceVars, view, dialog, patch, rows>>

-----------------------------------------------------------------------------
(* Navigation: the instance of a page goes, its mutations go on.           *)
Detached(m) ==
  [r \in Requests |->
     IF m[r].step = "settled" THEN NoMutation ELSE [m[r] EXCEPT !.mounted = FALSE]]

Leave ==
  /\ view' = (IF view = "list" THEN "form" ELSE "list")
  /\ dialog' = Closed
  /\ mutation' = Detached(mutation)
  /\ UNCHANGED <<serviceVars, patch, rows>>

(* AssignmentPage: onSubmit *)
SubmitForm(r, k, d) ==
  /\ view = "form" /\ d \in department /\ ~Pending("form")
  /\ CallAssign(r, k, d)
  /\ Mutate(r, "form")

(* its onSuccess invalidates the complaints only, and goes to the list,    *)
(* wherever the administrator is by then                                   *)
FormAssigned(r) ==
  /\ mutation[r].page = "form" /\ mutation[r].step = "sent" /\ at[r] = "assigned"
  /\ view' = "list"
  /\ mutation' = [IF view = "form" THEN Detached(mutation) ELSE mutation EXCEPT ![r] = NoMutation]
  /\ UNCHANGED <<serviceVars, dialog, patch, rows>>

-----------------------------------------------------------------------------
(* POST /admin/departments, for which there is no page yet *)
CreateDepartment(r, d) == CallCreate(r, d) /\ UNCHANGED deskVars

Serve(r) ==
  /\ LookUpComplaint(r, complaint[asked[r].complaint]) \/ ServiceStep(r)
  /\ UNCHANGED deskVars

Next ==
  \/ \E k \in Complaints : OpenAssignModal(k) \/ OpenStatusModal(k)
  \/ CancelModal \/ Choose \/ SubmitStatus \/ StatusAnswered
  \/ Refetch \/ ServeFetch \/ FetchEnds \/ Leave
  \/ \E r \in Requests :
       \/ SubmitAssign(r) \/ Assigned(r) \/ RefetchAfter(r) \/ Settle(r) \/ Rejected(r)
       \/ \E k \in Complaints, d \in Departments : SubmitForm(r, k, d)
       \/ FormAssigned(r) \/ Serve(r)
       \/ \E d \in Departments : CreateDepartment(r, d)

Spec == Init /\ [][Next]_vars

-----------------------------------------------------------------------------
(* Both dialogs share the selected complaint, are opened, cancelled and    *)
(* closed by late answers in any order, and keep their choices apart: a    *)
(* department or a status is on offer for submission only in a dialog that *)
(* shows the complaint for which it was chosen, and never in two dialogs   *)
(* at once.                                                                *)
SubmitsWhatIsShown ==
  /\ AssignShown /\ dialog.departmentId # NoChoice => dialog.departmentId.shown = dialog.selected
  /\ StatusShown /\ dialog.next # NoChoice => dialog.next.shown = dialog.selected
  /\ ~(AssignShown /\ StatusShown)

ListsIt(r, n) == \E i \in 1 .. n : assignment[i].request = r

(* When the list page says "Complaint assigned." it lists the assignment,  *)
(* although fetches sent before the assignment may be answered after it:   *)
(* it shows the row, or waits for a fetch that has it, or the query is     *)
(* marked as out of date since that fetch failed.  (Only for the page on   *)
(* which it was submitted: a page left and entered again can show an older *)
(* answer.)                                                                *)
ToastMeansListed ==
  \A r \in Requests :
    mutation[r].page = "list" /\ mutation[r].step = "settled" /\ mutation[r].mounted =>
      \/ ListsIt(r, rows.shown) \/ rows.invalid
      \/ rows.fetch # NoFetch /\ (rows.fetch.step = "read" => ListsIt(r, rows.fetch.read))

=============================================================================

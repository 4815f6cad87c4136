----------------------------- MODULE SlaReport ------------------------------
(***************************************************************************)
(* GET /admin/sla/violations of admin-service: the report of the           *)
(* complaints in progress whose department has had them for too long.      *)
(* Rules and assignments are read in parallel, the complaints one after    *)
(* the other from complaint-service, which answers from its cache for up   *)
(* to thirty seconds.  One report at a time.                               *)
(*                                                                         *)
(* A complaint stands for its category and priority too.  The model spans  *)
(* less time than the shortest rule: overdue are the assignments that were *)
(* back-dated when they were written, which is what the seed does.         *)
(***************************************************************************)
EXTENDS AdminService

VARIABLES
  rule,      \* complaints for whose category and priority a row of SlaRule exists
  detail,    \* complaint:detail:<id> in Redis: a status, or NoRow
  report     \* getSlaViolations

reportVars == <<rule, detail, report>>

-----------------------------------------------------------------------------
NoReport == [step |-> "idle", rules |-> {}, rows |-> <<>>, known |-> <<>>, violations |-> {}]

InitReport == rule = {} /\ detail = [k \in Complaints |-> NoRow] /\ report = NoReport

Overdue(row) == row.request = None

(* GET /complaints/:id: from the cache, or from the table into the cache *)
Answer(k) == IF detail[k] # NoRow THEN detail[k] ELSE complaint[k]

Cached(k) == detail' = [detail EXCEPT ![k] = Answer(k)]

StartReport ==
  /\ report.step \in {"idle", "done", "failed"}
  /\ report' = [NoReport EXCEPT !.step = "read"]
  /\ UNCHANGED <<rule, detail>>

(* the two findMany of the Promise.all, in either order *)
ReadRules ==
  /\ report.step \in {"read", "rowsRead"}
  /\ report' = [report EXCEPT !.rules = rule,
                              !.step = IF @ = "read" THEN "rulesRead" ELSE "judge"]
  /\ UNCHANGED <<rule, detail>>

ReadRows ==
  /\ report.step \in {"read", "rulesRead"}
  /\ report' = [report EXCEPT !.rows = assignment,
                              !.step = IF @ = "read" THEN "rowsRead" ELSE "judge"]
  /\ UNCHANGED <<rule, detail>>

Newest == report.rows[Len(report.rows)]

(* status, rule and time of the newest row that is left *)
Judged(row, status) ==
  [report EXCEPT
     !.rows = SubSeq(@, 1, Len(@) - 1),
     !.known = [k \in DOMAIN @ \cup {row.complaint} |-> IF k = row.complaint THEN status ELSE @[k]],
     !.violations = IF status = "IN_PROGRESS" /\ row.complaint \in report.rules /\ Overdue(row)
                      THEN @ \cup {row.complaint} ELSE @]

JudgeKnown ==
  /\ report.step = "judge" /\ report.rows # <<>> /\ Newest.complaint \in DOMAIN report.known
  /\ report' = Judged(Newest, report.known[Newest.complaint])
  /\ UNCHANGED <<rule, detail>>

(* fetchComplaintDetails; a 404 ends the whole report *)
JudgeFetched ==
  /\ report.step = "judge" /\ report.rows # <<>> /\ Newest.complaint \notin DOMAIN report.known
  /\ report' = IF Answer(Newest.complaint) = NoRow
                 THEN [NoReport EXCEPT !.step = "failed"]
                 ELSE Judged(Newest, Answer(Newest.complaint))
  /\ Cached(Newest.complaint)
  /\ UNCHANGED rule

(* 200, or an error on the way *)
EndReport ==
  /\ \/ /\ report.step = "judge" /\ report.rows = <<>>
        /\ report' = [report EXCEPT !.step = "done", !.rules = {}, !.known = <<>>]
     \/ /\ report.step \in {"read", "rulesRead", "rowsRead", "judge"}
        /\ report' = [NoReport EXCEPT !.step = "failed"]
  /\ UNCHANGED <<rule, detail>>

(* DETAIL_TTL; a status change deletes the entry too *)
ExpireDetail(k) ==
  /\ detail[k] # NoRow /\ detail' = [detail EXCEPT ![k] = NoRow]
  /\ UNCHANGED <<rule, report>>

ReportStep ==
  \/ StartReport \/ ReadRules \/ ReadRows \/ JudgeKnown \/ JudgeFetched \/ EndReport
  \/ \E k \in Complaints : ExpireDetail(k)

=============================================================================

------------------------------- MODULE Report -------------------------------
(***************************************************************************)
(* Reports: a user reports a floor, again and again if need be, an admin   *)
(* deals with the report.  AddReport looks the user's report on the floor  *)
(* up, adds the reason to it or creates it, and picks the next admin with  *)
(* a counter that all handlers of a process share; DeleteReport reads the  *)
(* report and saves all its columns.  Nothing here is in a transaction.    *)
(*                                                                         *)
(* adminList is shuffled in place every minute: any element read from it   *)
(* is an admin, so only the index matters here.                            *)
(***************************************************************************)
EXTENDS Integers, Sequences

CONSTANTS
    Requests,   \* AddReport handlers; each stands for the reason it brings
    Dealers,    \* DeleteReport handlers
    Users,
    Floors,
    Admins,     \* len(adminList.data)
    MaxInt      \* the largest int32

ASSUME SetsAssumption == Users # {} /\ Floors # {}

ASSUME AdminsAssumption == MaxInt \in Nat /\ Admins \in 0..MaxInt

VARIABLES
    report,     \* the rows of the table, by id
    counter,    \* adminCounter
    add,        \* request |-> where it is and its locals
    deal,       \* dealer |-> where it is and its locals
    seen,       \* history: id |-> the reasons its dealer saw, last
    outdated,   \* history: a handler saved what had changed since it read it
    overlapped  \* history: two handlers were between increment and reset

vars == <<report, counter, add, deal, seen, outdated, overlapped>>

Row == [user : Users, floor : Floors, reasons : SUBSET Requests, dealt : BOOLEAN]

NoId == 0

AddLocals ==
    [step : {"new", "found", "failed", "saved", "counted", "picking", "done",
             "panicked"},
     user : Users, floor : Floors, id : Nat, read : SUBSET Requests,
     index : (-MaxInt - 1)..MaxInt]

DealLocals ==
    [step : {"new", "read", "done"}, id : Nat, reasons : SUBSET Requests]

ReportsOf(u, f) ==
    {i \in DOMAIN report : report[i].user = u /\ report[i].floor = f}

\* The first report of a user on a floor, NoId if there is none.
FirstReport(u, f) ==
    LET ids == ReportsOf(u, f)
    IN IF ids = {} THEN NoId ELSE CHOOSE i \in ids : \A j \in ids : i <= j

-----------------------------------------------------------------------------
(* AddReport *)

\* report.Create reads the user's earlier report on this floor.
FindReport(r, u, f) ==
    /\ add[r].step = "new"
    /\ LET i == FirstReport(u, f)
       IN add' = [add EXCEPT ![r] =
                    [step |-> "found", user |-> u, floor |-> f, id |-> i,
                     read |-> IF i = NoId THEN {} ELSE report[i].reasons,
                     index |-> 0]]
    /\ UNCHANGED <<report, counter, deal, seen, outdated, overlapped>>

\* Mutant: another reason for a report that was dealt with does not reopen it.
AgainDealt(row, reasons) == [row EXCEPT !.reasons = reasons]

\* Mutant: another reason takes the place of the earlier ones.
AgainOnly(row, reasons) ==
    [row EXCEPT !.reasons = reasons \ row.reasons, !.dealt = FALSE]

\* The reason is added and the report is open again.
Again(row, reasons) == [row EXCEPT !.reasons = reasons, !.dealt = FALSE]

\* It creates the report or updates reason and dealt of the one it read; without
\* admins to notify the handler is done.
SaveReport(r) ==
    LET l == add[r]
        reasons == l.read \cup {r}
    IN /\ l.step = "found"
       /\ IF l.id = NoId
          THEN /\ report' = Append(report, [user |-> l.user, floor |-> l.floor,
                                            reasons |-> reasons, dealt |-> FALSE])
               /\ seen' = Append(seen, {})
               /\ outdated' = (outdated \/ ReportsOf(l.user, l.floor) # {})
          ELSE /\ report' = [report EXCEPT ![l.id] = Again(@, reasons)]
               /\ outdated' = (outdated \/ report[l.id].reasons # l.read)
               /\ UNCHANGED seen
       /\ add' = [add EXCEPT ![r].step = IF Admins = 0 THEN "done" ELSE "saved"]
       /\ UNCHANGED <<counter, deal, overlapped>>

\* A query fails: the report is not saved, or it is created and its floor cannot
\* be loaded.  (The floor of an updated report is loaded in a hook, within the
\* transaction of the update.)
FailReport(r) ==
    /\ \/ add[r].step = "found"
       \/ add[r].step = "saved" /\ add[r].id = NoId
    /\ add' = [add EXCEPT ![r].step = "failed"]
    /\ UNCHANGED <<report, counter, deal, seen, outdated, overlapped>>

\* int32 arithmetic.
Successor(n) == IF n = MaxInt THEN -MaxInt - 1 ELSE n + 1

\* SendCreate: atomic.AddInt32 ...
Increment(r) ==
    /\ add[r].step = "saved"
    /\ counter' = Successor(counter)
    /\ add' = [add EXCEPT ![r].step = "counted", ![r].index = Successor(counter)]
    /\ overlapped' = (overlapped \/ \E q \in Requests : add[q].step = "counted")
    /\ UNCHANGED <<report, deal, seen, outdated>>

\* Mutant: the counter starts again one too late.
ResetLate(n) == IF n = Admins + 1 THEN 0 ELSE n

\* ... and atomic.CompareAndSwapInt32.
ResetAt(n) == IF n = Admins THEN 0 ELSE n

Reset(r) ==
    /\ add[r].step = "counted"
    /\ counter' = ResetAt(counter)
    /\ add' = [add EXCEPT ![r].step = "picking"]
    /\ UNCHANGED <<report, deal, seen, outdated, overlapped>>

\* adminList.data[currentCounter-1]; an index out of range panics, which ends
\* the handler and nothing else.
PickAdmin(r) ==
    /\ add[r].step = "picking"
    /\ add' = [add EXCEPT ![r].step =
                 IF add[r].index \in 1..Admins THEN "done" ELSE "panicked"]
    /\ UNCHANGED <<report, counter, deal, seen, outdated, overlapped>>

-----------------------------------------------------------------------------
(* DeleteReport *)

ReadReport(d, i) ==
    /\ deal[d].step = "new"
    /\ i \in DOMAIN report
    /\ deal' = [deal EXCEPT ![d] = [step |-> "read", id |-> i,
                                    reasons |-> report[i].reasons]]
    /\ UNCHANGED <<report, counter, add, seen, outdated, overlapped>>

\* All columns are saved, the reasons as they were read.
Dealt(row, reasons) == [row EXCEPT !.dealt = TRUE, !.reasons = reasons]

SaveDealt(d) ==
    LET l == deal[d]
    IN /\ l.step = "read"
       /\ report' = [report EXCEPT ![l.id] = Dealt(@, l.reasons)]
       /\ seen' = [seen EXCEPT ![l.id] = l.reasons]
       /\ outdated' = (outdated \/ report[l.id].reasons # l.reasons)
       /\ deal' = [deal EXCEPT ![d].step = "done"]
       /\ UNCHANGED <<counter, add, overlapped>>

-----------------------------------------------------------------------------
Init ==
    /\ report = <<>>
    /\ counter = 0
    /\ add = [r \in Requests |->
                [step |-> "new", user |-> CHOOSE u \in Users : TRUE,
                 floor |-> CHOOSE f \in Floors : TRUE, id |-> NoId,
                 read |-> {}, index |-> 0]]
    /\ deal = [d \in Dealers |-> [step |-> "new", id |-> NoId, reasons |-> {}]]
    /\ seen = <<>>
    /\ outdated = FALSE
    /\ overlapped = FALSE

Next ==
    \/ \E r \in Requests :
         \/ \E u \in Users, f \in Floors : FindReport(r, u, f)
         \/ SaveReport(r) \/ FailReport(r)
         \/ Increment(r) \/ Reset(r) \/ PickAdmin(r)
    \/ \E d \in Dealers : (\E i \in DOMAIN report : ReadReport(d, i)) \/ SaveDealt(d)

Spec == Init /\ [][Next]_vars

-----------------------------------------------------------------------------
(* Properties *)

\* Rows and locals keep their types; the counter is an int32.
TypeOK ==
    /\ report \in Seq(Row)
    /\ counter \in (-MaxInt - 1)..MaxInt
    /\ add \in [Requests -> AddLocals]
    /\ deal \in [Dealers -> DealLocals]
    /\ seen \in Seq(SUBSET Requests)
    /\ Len(seen) = Len(report)
    /\ outdated \in BOOLEAN
    /\ overlapped \in BOOLEAN

\* A report marked as dealt holds no reason that its dealer did not see, though
\* reasons may be added while an admin decides.
DealtSeen ==
    \A i \in DOMAIN report : report[i].dealt => report[i].reasons \subseteq seen[i]

\* The reason of every request that was answered is in the report, unless a
\* handler saved the report after another had changed it.
NoReasonLost ==
    ~ outdated =>
        \A r \in Requests :
            add[r].step \notin {"new", "found", "failed"} =>
                \E i \in ReportsOf(add[r].user, add[r].floor) :
                    r \in report[i].reasons

\* A user has one report on a floor, under the same condition.
OneReport ==
    ~ outdated =>
        \A i, j \in DOMAIN report :
            report[i].user = report[j].user /\ report[i].floor = report[j].floor
            => i = j

\* No handler misses the list of admins, unless two of them increment the
\* counter before one of them resets it.
AdminPicked == ~ overlapped => \A r \in Requests : add[r].step # "panicked"

\* AddReport: "Add a report and send notification to admins".
AdminNotified == \A r \in Requests : add[r].step # "panicked"

-----------------------------------------------------------------------------
(* The inductive invariant *)

\* The report a handler found is the user's report on that floor; a handler past
\* its save had admins to notify; the report an admin read exists.
LocalsInv ==
    /\ \A r \in Requests :
         /\ add[r].step = "found" /\ add[r].id # NoId =>
              add[r].id \in ReportsOf(add[r].user, add[r].floor)
         /\ add[r].step \in {"saved", "counted", "picking"} => Admins > 0
    /\ \A d \in Dealers : deal[d].step = "read" => deal[d].id \in DOMAIN report

\* Without overlap the counter is an index of the list, one past it between an
\* increment and its reset, and every index taken is in range.
DispatchInv ==
    ~ overlapped =>
        /\ counter \in 0..Admins
        /\ counter = Admins /\ Admins # 0 =>
             \E r \in Requests : add[r].step = "counted"
        /\ \A r, q \in Requests :
             add[r].step = "counted" /\ add[q].step = "counted" => r = q
        /\ \A r \in Requests :
             add[r].step \in {"counted", "picking"} => add[r].index \in 1..Admins

IInv ==
    /\ TypeOK
    /\ LocalsInv
    /\ DispatchInv
    /\ AdminPicked
    /\ DealtSeen
    /\ NoReasonLost
    /\ OneReport

=============================================================================

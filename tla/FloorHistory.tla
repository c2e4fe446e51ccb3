---------------------------- MODULE FloorHistory ----------------------------
(***************************************************************************)
(* The text of a floor through editing, deletion, review and restoration,  *)
(* the versions kept in floor_history, and the likes counted beside them.  *)
(*                                                                         *)
(* All handlers but RestoreFloor work in a transaction that holds the lock *)
(* of the row from its first read to its commit: they are one step.        *)
(* RestoreFloor reads the row without a lock or transaction, backs up what *)
(* it read and saves all columns: three steps others may come between.     *)
(***************************************************************************)
EXTENDS Integers, FiniteSets

CONSTANTS
    Floors,
    Users,      \* who may like
    Restorers,  \* handlers of RestoreFloor that may run at the same time
    Texts,
    Suspect,    \* the texts the automatic check does not pass
    Notice,     \* the text that replaces a deleted one
    Keep,       \* a request that leaves the text, or the likes, alone
    MaxVersions \* bound: different versions kept of one floor

ASSUME TextsAssumption ==
    /\ Suspect \subseteq Texts
    /\ Notice \notin Texts /\ Keep \notin Texts

ASSUME FloorsAssumption == Floors # {}

ASSUME UsersAssumption == IsFiniteSet(Users)

ASSUME BoundAssumption == MaxVersions \in Nat

VARIABLES
    row,        \* floor |-> its row
    history,    \* floor |-> the versions in floor_history
    vote,       \* floor |-> user |-> like_data of the floor_like row, 0 if none
    restore,    \* restorer |-> where its handler is and what it read
    approved,   \* history: floors an admin found not sensitive, with their texts
    written,    \* history: floor |-> the texts users stored
    overwritten \* history: the floors a restore saved from an outdated read

vars == <<row, history, vote, restore, approved, written, overwritten>>

Marks == {"none", "true", "false"}

Version == [text : Texts \cup {Notice}, auto : BOOLEAN, actual : Marks]

Row == [exists : BOOLEAN, deleted : BOOLEAN, text : Texts \cup {Notice},
        auto : BOOLEAN, actual : Marks, like : Nat, dislike : Nat]

VersionOf(r) == [text |-> r.text, auto |-> r.auto, actual |-> r.actual]

\* floor.Sensitive: an admin's mark, else the automatic one.
Sensitive(r) == IF r.actual # "none" THEN r.actual = "true" ELSE r.auto

NoRow == [exists |-> FALSE, deleted |-> FALSE, text |-> Notice, auto |-> FALSE,
          actual |-> "none", like |-> 0, dislike |-> 0]

Idle == [step |-> "idle", floor |-> CHOOSE f \in Floors : TRUE,
         row |-> NoRow, version |-> VersionOf(NoRow)]

\* floor.Backup
Backup(f, r) ==
    /\ Cardinality(history[f] \cup {VersionOf(r)}) <= MaxVersions
    /\ history' = [history EXCEPT ![f] = @ \cup {VersionOf(r)}]

Deleted(r) == [r EXCEPT !.deleted = TRUE, !.text = Notice]

Count(votes, data) == Cardinality({u \in Users : votes[u] = data})

-----------------------------------------------------------------------------
(* Writing and editing *)

CreateFloor(f, x) ==
    /\ ~ row[f].exists
    /\ row' = [row EXCEPT ![f].exists = TRUE, ![f].text = x,
                          ![f].auto = x \in Suspect]
    /\ written' = [written EXCEPT ![f] = @ \cup {x}]
    /\ UNCHANGED <<history, vote, restore, approved, overwritten>>

\* A new text is checked again and loses the admin's mark.
Edited(r, x) ==
    IF x = Keep THEN r
    ELSE [r EXCEPT !.text = x, !.auto = x \in Suspect, !.actual = "none"]

\* ModifyFloor selects the column "DisLike", which the row does not have: only
\* the likes are saved.
Liked(r, votes, like) ==
    IF like = Keep THEN r ELSE [r EXCEPT !.like = Count(votes, 1)]

\* ModifyFloor with a new text x, a <<user, 1 or 0>> who likes or cancels, or
\* both: the text by the author, or by an admin even if it is deleted.
ModifyFloor(f, x, like) ==
    /\ row[f].exists
    /\ x # Keep \/ like # Keep
    /\ vote' = IF like = Keep THEN vote
               ELSE [vote EXCEPT ![f][like[1]] = like[2]]
    /\ row' = [row EXCEPT ![f] = Liked(Edited(@, x), vote'[f], like)]
    /\ IF x = Keep
       THEN UNCHANGED <<history, written>>
       ELSE /\ Backup(f, row[f])
            /\ written' = [written EXCEPT ![f] = @ \cup {x}]
    /\ UNCHANGED <<restore, approved, overwritten>>

\* Mutant: a withdrawn vote is not counted again.
ModifyFloorLikeUncounted(f, u, data) ==
    /\ row[f].exists
    /\ vote' = [vote EXCEPT ![f][u] = data]
    /\ row' = IF data = 0 THEN row
              ELSE [row EXCEPT ![f].like = Count(vote'[f], 1),
                               ![f].dislike = Count(vote'[f], -1)]
    /\ UNCHANGED <<history, restore, approved, written, overwritten>>

ModifyFloorLike(f, u, data) ==
    /\ row[f].exists
    /\ vote' = [vote EXCEPT ![f][u] = data]
    /\ row' = [row EXCEPT ![f].like = Count(vote'[f], 1),
                          ![f].dislike = Count(vote'[f], -1)]
    /\ UNCHANGED <<history, restore, approved, written, overwritten>>

-----------------------------------------------------------------------------
(* Deletion and review *)

\* Mutant: a deletion keeps no version.
DeleteFloorForever(f) ==
    /\ row[f].exists
    /\ row' = [row EXCEPT ![f] = Deleted(@)]
    /\ UNCHANGED <<history, vote, restore, approved, written, overwritten>>

\* DeleteFloor, and purgeHole for each floor of its holes: a floor that is
\* deleted already is backed up and deleted again.
DeleteFloor(f) ==
    /\ row[f].exists
    /\ Backup(f, row[f])
    /\ row' = [row EXCEPT ![f] = Deleted(@)]
    /\ UNCHANGED <<vote, restore, approved, written, overwritten>>

\* ModifyFloorSensitive with false.
Approve(f) ==
    /\ row[f].exists
    /\ row' = [row EXCEPT ![f].actual = "false"]
    /\ approved' = approved \cup {<<f, row[f].text>>}
    /\ UNCHANGED <<history, vote, restore, written, overwritten>>

\* ModifyFloorSensitive with true: the version kept carries the mark.
Reject(f) ==
    /\ row[f].exists
    /\ LET marked == [row[f] EXCEPT !.actual = "true"]
       IN /\ Backup(f, marked)
          /\ row' = [row EXCEPT ![f] = Deleted(marked)]
    /\ UNCHANGED <<vote, restore, approved, written, overwritten>>

-----------------------------------------------------------------------------
(* RestoreFloor *)

ReadFloor(r, f) ==
    /\ restore[r].step = "idle"
    /\ row[f].exists
    /\ restore' = [restore EXCEPT ![r] =
                     [Idle EXCEPT !.step = "read", !.floor = f, !.row = row[f]]]
    /\ UNCHANGED <<row, history, vote, approved, written, overwritten>>

\* The version is one of this floor; what was read is backed up.
BackupFloor(r, v) ==
    /\ restore[r].step = "read"
    /\ v \in history[restore[r].floor]
    /\ Backup(restore[r].floor, restore[r].row)
    /\ restore' = [restore EXCEPT ![r].step = "backed_up", ![r].version = v]
    /\ UNCHANGED <<row, vote, approved, written, overwritten>>

\* Mutant: the text comes back without the marks of its version.
RestoredUnmarked(r, v) == [r EXCEPT !.deleted = FALSE, !.text = v.text]

Restored(r, v) ==
    [r EXCEPT !.deleted = FALSE, !.text = v.text, !.auto = v.auto,
              !.actual = v.actual]

\* DB.Save writes all columns as they were read, the changed ones excepted.
SaveFloor(r) ==
    LET f == restore[r].floor
    IN /\ restore[r].step = "backed_up"
       /\ row' = [row EXCEPT ![f] = Restored(restore[r].row, restore[r].version)]
       /\ overwritten' = IF row[f] = restore[r].row THEN overwritten
                         ELSE overwritten \cup {f}
       /\ restore' = [restore EXCEPT ![r] = Idle]
       /\ UNCHANGED <<history, vote, approved, written>>

\* A lookup or a write fails; the error of the last one is ignored.
FailRestore(r) ==
    /\ restore[r].step # "idle"
    /\ restore' = [restore EXCEPT ![r] = Idle]
    /\ UNCHANGED <<row, history, vote, approved, written, overwritten>>

-----------------------------------------------------------------------------
Init ==
    /\ row = [f \in Floors |-> NoRow]
    /\ history = [f \in Floors |-> {}]
    /\ vote = [f \in Floors |-> [u \in Users |-> 0]]
    /\ restore = [r \in Restorers |-> Idle]
    /\ approved = {}
    /\ written = [f \in Floors |-> {}]
    /\ overwritten = {}

Restore(r) ==
    \/ \E f \in Floors : ReadFloor(r, f)
    \/ \E v \in history[restore[r].floor] : BackupFloor(r, v)
    \/ SaveFloor(r)
    \/ FailRestore(r)

Next ==
    \/ \E f \in Floors :
         \/ \E x \in Texts : CreateFloor(f, x)
         \/ \E x \in Texts \cup {Keep}, like \in Users \X {0, 1} \cup {Keep} :
              ModifyFloor(f, x, like)
         \/ \E u \in Users, data \in {-1, 0, 1} : ModifyFloorLike(f, u, data)
         \/ DeleteFloor(f)
         \/ Approve(f)
         \/ Reject(f)
    \/ \E r \in Restorers : Restore(r)

Spec == Init /\ [][Next]_vars

-----------------------------------------------------------------------------
(* Properties *)

\* Rows, versions, votes and the locals of RestoreFloor keep their types;
\* like numbers are not negative.
TypeOK ==
    /\ row \in [Floors -> Row]
    /\ history \in [Floors -> SUBSET Version]
    /\ vote \in [Floors -> [Users -> {-1, 0, 1}]]
    /\ restore \in [Restorers -> [step : {"idle", "read", "backed_up"},
                                  floor : Floors, row : Row, version : Version]]
    /\ approved \subseteq Floors \X (Texts \cup {Notice})
    /\ written \in [Floors -> SUBSET Texts]
    /\ overwritten \subseteq Floors

\* What a text and its marks may be together: the automatic mark is the one of
\* this text, and an admin set the mark "false" while the row had this text.  The
\* request names the floor only, so he may have been shown an earlier one.
Earned(f, v) ==
    v.text # Notice => /\ v.auto <=> v.text \in Suspect
                       /\ v.actual = "false" => <<f, v.text>> \in approved

\* The marks of rows and versions belong to the texts they stand beside,
\* through every edit, deletion, review and (outdated) restoration.
MarksEarned ==
    \A f \in Floors : /\ Earned(f, VersionOf(row[f]))
                      /\ \A v \in history[f] : Earned(f, v)

\* SetDefaults shows a text to others unless the floor is Sensitive.  No text
\* is shown that the automatic check stopped and no admin approved.
ShownTextChecked ==
    \A f \in Floors :
        /\ row[f].exists /\ ~ row[f].deleted /\ ~ Sensitive(row[f])
        /\ row[f].text \in Suspect
        => <<f, row[f].text>> \in approved

\* Every text ever stored in a floor is its text or in its history, unless a
\* restore saved the floor after someone else had changed it.
HistoryComplete ==
    \A f \in Floors \ overwritten :
        written[f] \subseteq {v.text : v \in history[f]} \cup {row[f].text}

\* A row with these votes.
CountsOK(r, votes) ==
    /\ r.like = Count(votes, 1)
    /\ r.dislike >= Count(votes, -1)

\* The like number is the number of likes, and the dislike number at least the
\* number of dislikes, unless a restore saved the floor after someone else had
\* changed it.  At least: ModifyFloor means to save the dislike number as well,
\* but misspells its column.
LikesCounted ==
    \A f \in Floors \ overwritten : CountsOK(row[f], vote[f])

-----------------------------------------------------------------------------
(* The inductive invariant *)

AbsentRows == \A f \in Floors : ~ row[f].exists => row[f] = NoRow

\* A restore carries earned marks only, and past its backup what it read is in
\* the history.
RestoreOK(r) ==
    LET l == restore[r]
    IN /\ l.step # "idle" => l.row.exists /\ Earned(l.floor, VersionOf(l.row))
       /\ l.step = "backed_up" => /\ Earned(l.floor, l.version)
                                  /\ VersionOf(l.row) \in history[l.floor]

RestoresOK == \A r \in Restorers : RestoreOK(r)

\* Everything the theorems need at once.
IInv ==
    /\ TypeOK
    /\ AbsentRows
    /\ MarksEarned
    /\ RestoresOK
    /\ HistoryComplete
    /\ LikesCounted

=============================================================================

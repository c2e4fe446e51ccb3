---------------------------- MODULE SearchIndex ----------------------------
(***************************************************************************)
(* The search index beside the tables.  Whoever writes a floor or a hole   *)
(* starts a goroutine that writes the Elasticsearch index, and answers     *)
(* without waiting for it.  Nothing orders these goroutines: a task is     *)
(* applied some time later, in any order, or is lost in an error that is   *)
(* only logged.  What a task will write is fixed when the handler read the *)
(* rows; some handlers launch theirs before their transaction ends.        *)
(*                                                                         *)
(* A read outside a transaction goes to any replica of the database, which *)
(* follows the source some time later.  The floors of a hole are looked up *)
(* that way, also while the row of the hole is locked, so a copy of the    *)
(* floors per replica is part of the state.  With no replica configured    *)
(* the source answers; here it always may, as a replica that has caught up *)
(* does.  A replica that applies its changes one by one gives a sequence   *)
(* of reads what several of these copies give, each read from once.        *)
(*                                                                         *)
(* A transaction that launches its task when it is over changes the rows   *)
(* in one step here: Posting and FloorHistory model what happens inside.   *)
(***************************************************************************)
EXTENDS Naturals

CONSTANTS
    HoleIds,    \* hole ids, existing or not
    Floors,     \* floor ids, existing or not
    First,      \* those that are the first floor of their hole
    HoleOf,     \* floor |-> hole
    Texts,      \* what users write
    Suspect,    \* the texts the automatic check does not pass
    Notice,     \* the text that replaces a deleted one
    NoDoc,      \* no document for a floor in the index; its deletion in a task
    Replicas,   \* the databases that follow the source
    MaxTasks    \* bound: tasks launched in one behaviour

ASSUME FloorsAssumption ==
    /\ HoleOf \in [Floors -> HoleIds]
    /\ First \subseteq Floors

ASSUME TextsAssumption ==
    /\ Suspect \subseteq Texts
    /\ Notice \notin Texts
    /\ NoDoc \notin Texts \cup {Notice}

ASSUME BoundAssumption == MaxTasks \in Nat

VARIABLES
    hole,       \* hole |-> "absent", "open", "hidden" or "deleted"
    floor,      \* floor |-> its row
    replica,    \* replica |-> the rows of the floors as far as it has them
    history,    \* floor |-> the versions kept in floor_history
    index,      \* floor |-> the text of its document, or NoDoc
    tasks,      \* the goroutines that have not reached the index yet
    launched,   \* how many tasks were launched, the id of the next one
    disturbed   \* history: something happened that lets the index drift

indexVars == <<hole, floor, replica, history, index, tasks, launched, disturbed>>

Row == [state : {"absent", "live", "deleted"}, text : Texts \cup {Notice},
        sensitive : BOOLEAN]

Version == [text : Texts \cup {Notice}, sensitive : BOOLEAN]

VersionOf(f) == [text |-> floor[f].text, sensitive |-> floor[f].sensitive]

Docs == Texts \cup {Notice, NoDoc}

States == {"absent", "open", "hidden", "deleted"}

\* Functions on some of the keys.
Partly(K, V) == UNION {[S -> V] : S \in SUBSET K}

\* docs is what the task will write, found whether it has looked the floors up,
\* waiting whether the index has it before it; open and change are about the
\* transaction it belongs to.
Task ==
    [id : Nat, docs : Partly(Floors, Docs), found : BOOLEAN, waiting : BOOLEAN,
     open : BOOLEAN, change : [hole : Partly(HoleIds, States), floor : Partly(Floors, Row)]]

\* The floors of a hole among the rows of a database.
In(h, rows) == {f \in Floors : HoleOf[f] = h /\ rows[f].state # "absent"}
Existing(h) == In(h, floor)

\* What a read outside a transaction may be answered from.
Copies == {floor} \cup {replica[s] : s \in Replicas}

\* A replica has applied all that the source committed.
CatchUp(s) ==
    /\ replica' = [replica EXCEPT ![s] = floor]
    /\ UNCHANGED <<hole, floor, history, index, tasks, launched, disturbed>>

\* What a search by a user should find of a floor, by the state of its hole and
\* its row.
Findable(state, row) ==
    IF state = "open" /\ row.state = "live" /\ ~ row.sensitive THEN row.text ELSE NoDoc

Wanted(f) == Findable(hole[HoleOf[f]], floor[f])

-----------------------------------------------------------------------------
(* Launching a task *)

\* What a transaction will change: hole |-> state, floor |-> row.
NoChange == LET none == [k \in {} |-> NoDoc] IN [hole |-> none, floor |-> none]

\* The rows after the change.
After(rows, change) ==
    [k \in DOMAIN rows |-> IF k \in DOMAIN change THEN change[k] ELSE rows[k]]

\* A transaction still open holds the locks of the rows it changes.
HoleFree(h) == \A t \in tasks : h \notin DOMAIN t.change.hole
FloorFree(f) == \A t \in tasks : f \notin DOMAIN t.change.floor

Overlaps(F) == \E t \in tasks : DOMAIN t.docs \cap F # {}

\* Start a goroutine that writes docs[f] for every f in its domain; if open,
\* the transaction it belongs to still has to commit its change.  The task is
\* blind if it writes something else than what should be found.
LaunchTask(docs, found, open, change, blind) ==
    /\ launched < MaxTasks
    /\ tasks' = tasks \cup {[id |-> launched, docs |-> docs, found |-> found,
                             waiting |-> TRUE, open |-> open, change |-> change]}
    /\ launched' = launched + 1
    /\ disturbed' = (disturbed \/ blind \/ Overlaps(DOMAIN docs))
    /\ UNCHANGED <<index, replica>>

Launch(docs, blind) == LaunchTask(docs, TRUE, FALSE, NoChange, blind)
LaunchFirst(docs, change, blind) == LaunchTask(docs, TRUE, TRUE, change, blind)

\* FloorIndex and FloorDelete: one document.
Put(f, text) == [g \in {f} |-> text]
Drop(f) == Put(f, NoDoc)

\* BulkDelete: the documents of all floors of a hole.
DropAll(F) == [f \in F |-> NoDoc]

Backup(f) == history' = [history EXCEPT ![f] = @ \cup {VersionOf(f)}]

NewRow(state, text, sensitive) ==
    [state |-> state, text |-> text, sensitive |-> sensitive]

SetFloor(f, state, text, sensitive) ==
    /\ FloorFree(f)
    /\ floor' = [floor EXCEPT ![f] = NewRow(state, text, sensitive)]

-----------------------------------------------------------------------------
(* Writing floors *)

\* hole.Create; a first floor under review is not indexed.
CreateHole(h, f, x) ==
    /\ f \in First /\ HoleOf[f] = h
    /\ hole[h] = "absent"
    /\ hole' = [hole EXCEPT ![h] = "open"]
    /\ SetFloor(f, "live", x, x \in Suspect)
    /\ IF x \in Suspect THEN UNCHANGED <<replica, index, tasks, launched, disturbed>>
                        ELSE Launch(Put(f, x), FALSE)
    /\ UNCHANGED history

\* Mutant: a text under review is indexed all the same.
DocOfUnchecked(f, x) ==
    IF hole[HoleOf[f]] = "open" THEN Put(f, x) ELSE Drop(f)

\* What floor.Create and ModifyFloor index of a text in a hole.
DocOf(f, x) ==
    IF hole[HoleOf[f]] = "open" /\ x \notin Suspect THEN Put(f, x) ELSE Drop(f)

\* Mutant: the row of the hole is not locked before its state is read.
CreateFloorUnlocked(f, x) ==
    /\ f \notin First
    /\ floor[f].state = "absent"
    /\ hole[HoleOf[f]] \in {"open", "hidden"}
    /\ SetFloor(f, "live", x, x \in Suspect)
    /\ Launch(DocOf(f, x), FALSE)
    /\ UNCHANGED <<hole, history>>

\* floor.Create, under the lock of the hole; admins reply in hidden holes too.
CreateFloor(f, x) ==
    /\ f \notin First
    /\ floor[f].state = "absent"
    /\ hole[HoleOf[f]] \in {"open", "hidden"}
    /\ HoleFree(HoleOf[f])
    /\ SetFloor(f, "live", x, x \in Suspect)
    /\ Launch(DocOf(f, x), FALSE)
    /\ UNCHANGED <<hole, history>>

\* ModifyFloor launches its task inside its transaction, which holds the rows
\* of the floor and of its hole.  Admins may edit a deleted floor; it stays
\* deleted.
ModifyFloor(f, x) ==
    /\ floor[f].state # "absent"
    /\ hole[HoleOf[f]] \in {"open", "hidden"}
    /\ FloorFree(f) /\ HoleFree(HoleOf[f])
    /\ LaunchFirst(DocOf(f, x),
                   [hole |-> [h \in {HoleOf[f]} |-> hole[h]],
                    floor |-> [g \in {f} |-> NewRow(floor[f].state, x, x \in Suspect)]],
                   floor[f].state = "deleted" /\ DocOf(f, x) # Drop(f))
    /\ UNCHANGED <<hole, floor, history>>

\* DeleteFloor: by the author or an admin, whatever became of the hole.
DeleteFloor(f) ==
    /\ floor[f].state # "absent"
    /\ SetFloor(f, "deleted", Notice, floor[f].sensitive)
    /\ Backup(f)
    /\ Launch(Drop(f), FALSE)
    /\ UNCHANGED hole

\* ModifyFloorSensitive with false: indexed whatever became of floor and hole.
ApproveFloor(f) ==
    /\ floor[f].state # "absent"
    /\ f \in First => hole[HoleOf[f]] # "deleted"
    /\ SetFloor(f, floor[f].state, floor[f].text, FALSE)
    /\ Launch(Put(f, floor[f].text),
              hole[HoleOf[f]] # "open" \/ floor[f].state = "deleted")
    /\ UNCHANGED <<hole, history>>

\* ModifyFloorSensitive with true.
RejectFloor(f) ==
    /\ floor[f].state # "absent"
    /\ SetFloor(f, "deleted", Notice, TRUE)
    /\ history' = [history EXCEPT ![f] =
                     @ \cup {[text |-> floor[f].text, sensitive |-> TRUE]}]
    /\ Launch(Drop(f), FALSE)
    /\ UNCHANGED hole

\* RestoreFloor: indexed whatever the version and the hole are.
RestoreFloor(f, v) ==
    /\ v \in history[f]
    /\ SetFloor(f, "live", v.text, v.sensitive)
    /\ Backup(f)
    /\ Launch(Put(f, v.text), hole[HoleOf[f]] # "open" \/ v.sensitive)
    /\ UNCHANGED hole

-----------------------------------------------------------------------------
(* Writing holes *)

\* HideHole and DeleteHole: the row first, then the floors are looked up.
CloseHole(h, state) ==
    /\ hole[h] \in IF state = "hidden" THEN {"open"} ELSE {"open", "hidden"}
    /\ HoleFree(h)
    /\ hole' = [hole EXCEPT ![h] = state]
    /\ LaunchTask(DropAll({f \in Floors : HoleOf[f] = h}), FALSE, FALSE,
                  NoChange, FALSE)
    /\ UNCHANGED <<floor, history>>

\* ... and only those found are dropped from the index, not one the replica asked
\* has yet to hear of, and only some if the query of HideHole fails.
FindFloors(t) ==
    /\ ~ t.found
    /\ \E rows \in Copies : \E F \in SUBSET {f \in DOMAIN t.docs : rows[f].state # "absent"} :
          /\ tasks' = (tasks \ {t}) \cup {[t EXCEPT !.docs = DropAll(F), !.found = TRUE]}
          /\ disturbed' = (disturbed \/ \E f \in DOMAIN t.docs \ F :
                                           floor[f].state # "absent")
    /\ UNCHANGED <<hole, floor, replica, history, index, launched>>

\* ModifyHole, hiding: the floors are dropped inside its transaction, but looked
\* up outside it, in any copy; a query that fails finds only some or none.
ModifyHoleHide(h) ==
    /\ hole[h] = "open"
    /\ HoleFree(h)
    /\ \E rows \in Copies : \E F \in SUBSET In(h, rows) :
          LaunchFirst(DropAll(F), [NoChange EXCEPT !.hole = [g \in {h} |-> "hidden"]],
                      F # Existing(h))
    /\ UNCHANGED <<hole, floor, history>>

\* ModifyHole, showing again: every floor found is indexed with the text read,
\* those that are deleted or under review included.
ModifyHoleUnhide(h) ==
    /\ hole[h] = "hidden"
    /\ HoleFree(h)
    /\ \E rows \in Copies : \E F \in SUBSET In(h, rows) :
          LaunchFirst([f \in F |-> rows[f].text],
                      [NoChange EXCEPT !.hole = [g \in {h} |-> "open"]],
                      \E f \in Existing(h) :
                         \/ f \notin F \/ rows[f].text # floor[f].text
                         \/ floor[f].state = "deleted" \/ floor[f].sensitive)
    /\ UNCHANGED <<hole, floor, history>>

\* purgeHole: the last thing its transaction does before it commits.
PurgeHole(h) ==
    /\ hole[h] \in {"open", "hidden"}
    /\ HoleFree(h)
    /\ \A f \in Existing(h) : FloorFree(f)
    /\ LaunchFirst(DropAll(Existing(h)),
                   [hole |-> [g \in {h} |-> "deleted"],
                    floor |-> [f \in Existing(h) |->
                                 NewRow("deleted", Notice, floor[f].sensitive)]],
                   FALSE)
    /\ UNCHANGED <<hole, floor, history>>

-----------------------------------------------------------------------------
(* The goroutines, and the transactions that launched theirs early *)

\* A task is over when it reached the index and its transaction has ended.
Becomes(t, u) ==
    tasks' = (tasks \ {t}) \cup IF u.waiting \/ u.open THEN {u} ELSE {}

\* The transaction commits: its rows change, floors are backed up first.
Commit(t) ==
    /\ t.open
    /\ hole' = After(hole, t.change.hole)
    /\ floor' = After(floor, t.change.floor)
    /\ history' = [f \in Floors |-> IF f \in DOMAIN t.change.floor
                                    THEN history[f] \cup {VersionOf(f)}
                                    ELSE history[f]]
    /\ Becomes(t, [t EXCEPT !.open = FALSE, !.change = NoChange])
    /\ UNCHANGED <<replica, index, launched, disturbed>>

\* It is rolled back, and its task is not called back.
Rollback(t) ==
    /\ t.open
    /\ Becomes(t, [t EXCEPT !.open = FALSE, !.change = NoChange])
    /\ disturbed' = TRUE
    /\ UNCHANGED <<hole, floor, replica, history, index, launched>>

\* The index takes the task: a document is inserted, replaced or deleted.
Apply(t) ==
    /\ t.waiting /\ t.found
    /\ index' = After(index, t.docs)
    /\ Becomes(t, [t EXCEPT !.waiting = FALSE])
    /\ UNCHANGED <<hole, floor, replica, history, launched, disturbed>>

\* The request fails; it is logged and never repeated.
Lose(t) ==
    /\ t.waiting
    /\ Becomes(t, [t EXCEPT !.waiting = FALSE])
    /\ disturbed' = TRUE
    /\ UNCHANGED <<hole, floor, replica, history, index, launched>>

-----------------------------------------------------------------------------
IndexInit ==
    /\ hole = [h \in HoleIds |-> "absent"]
    /\ floor = [f \in Floors |-> [state |-> "absent", text |-> Notice,
                                  sensitive |-> FALSE]]
    /\ replica = [s \in Replicas |-> floor]
    /\ history = [f \in Floors |-> {}]
    /\ index = [f \in Floors |-> NoDoc]
    /\ tasks = {}
    /\ launched = 0
    /\ disturbed = FALSE

FloorStep(f) ==
    \/ \E x \in Texts : \/ CreateHole(HoleOf[f], f, x)
                        \/ CreateFloor(f, x)
                        \/ ModifyFloor(f, x)
    \/ DeleteFloor(f)
    \/ ApproveFloor(f)
    \/ RejectFloor(f)
    \/ \E v \in history[f] : RestoreFloor(f, v)

HoleStep(h) ==
    \/ \E state \in {"hidden", "deleted"} : CloseHole(h, state)
    \/ ModifyHoleHide(h)
    \/ ModifyHoleUnhide(h)
    \/ PurgeHole(h)

TaskStep(t) ==
    \/ FindFloors(t) \/ Apply(t) \/ Lose(t)
    \/ Commit(t) \/ Rollback(t)

IndexNext ==
    \/ \E f \in Floors : FloorStep(f)
    \/ \E h \in HoleIds : HoleStep(h)
    \/ \E t \in tasks : TaskStep(t)
    \/ \E s \in Replicas : CatchUp(s)

IndexSpec == IndexInit /\ [][IndexNext]_indexVars

-----------------------------------------------------------------------------
(* Properties *)

\* Rows, versions, documents and tasks have the types models.Floor,
\* models.FloorHistory and models.FloorModel give them.
IndexTypeOK ==
    /\ hole \in [HoleIds -> States]
    /\ floor \in [Floors -> Row]
    /\ replica \in [Replicas -> [Floors -> Row]]
    /\ history \in [Floors -> SUBSET Version]
    /\ index \in [Floors -> Docs]
    /\ tasks \subseteq Task /\ \A t \in tasks : t.id < launched
    /\ launched \in Nat
    /\ disturbed \in BOOLEAN

\* Once its goroutines have run, the index holds exactly the floors a user may
\* find, with their current texts, unless one of these happened: two tasks for
\* one floor ran at the same time, a task was lost, a transaction was rolled
\* back after launching one, an admin edited or approved a deleted floor,
\* approved or restored a floor in a closed hole, restored a version under
\* review, or showed a hole that has deleted floors or floors under review, or
\* the floors of a hole were looked up in a replica that lacked one or had an
\* older text, or in a query that failed.
IndexExact == tasks = {} /\ ~ disturbed => \A f \in Floors : index[f] = Wanted(f)

-----------------------------------------------------------------------------
(* The inductive invariant *)

\* Floors are in holes that exist, documents and versions are of floors that exist.
AbsentInv ==
    \A f \in Floors :
        /\ hole[HoleOf[f]] = "absent" => floor[f].state = "absent"
        /\ floor[f].state = "absent" =>
             /\ index[f] = NoDoc /\ history[f] = {}
             /\ \A t \in tasks : f \in DOMAIN t.docs => t.docs[f] = NoDoc

\* A replica has no floor the source has not.
ReplicaInv ==
    \A f \in Floors : floor[f].state = "absent" =>
                        \A s \in Replicas : replica[s][f].state = "absent"

\* A task that has still to look the floors up only deletes documents and has no
\* transaction; one whose transaction is over has nothing to change.
OpenInv ==
    \A t \in tasks :
        /\ ~ t.found => /\ t.waiting /\ ~ t.open
                        /\ \A f \in DOMAIN t.docs : t.docs[f] = NoDoc
        /\ t.waiting \/ t.open
        /\ ~ t.open => DOMAIN t.change.hole = {} /\ DOMAIN t.change.floor = {}

\* A row is locked by one transaction, which has read it, and writes the documents
\* of all floors it makes a user find or lose, if it saw them all.
LockInv ==
    /\ \A s, t \in tasks :
          s # t => /\ DOMAIN s.change.hole \cap DOMAIN t.change.hole = {}
                   /\ DOMAIN s.change.floor \cap DOMAIN t.change.floor = {}
    /\ \A t \in tasks :
          /\ \A h \in DOMAIN t.change.hole :
                /\ hole[h] # "absent" /\ t.change.hole[h] # "absent"
                /\ \/ t.change.hole[h] = hole[h]
                   \/ Existing(h) \subseteq DOMAIN t.docs \/ disturbed
          /\ \A f \in DOMAIN t.change.floor :
                /\ f \in DOMAIN t.docs
                /\ floor[f].state # "absent" /\ t.change.floor[f].state # "absent"

\* What should be found of a floor when the transaction of t has committed.
WantedAfter(t, f) ==
    Findable(After(hole, t.change.hole)[HoleOf[f]], After(floor, t.change.floor)[f])

\* While nothing lets the index drift, one task at most writes the document of a
\* floor, and it writes what should be found then; all other documents are exact.
DocInv ==
    ~ disturbed =>
      /\ \A s, t \in tasks : s # t => DOMAIN s.docs \cap DOMAIN t.docs = {}
      /\ \A t \in tasks : \A f \in DOMAIN t.docs :
            /\ t.docs[f] = WantedAfter(t, f)
            /\ ~ t.waiting => index[f] = t.docs[f]
      /\ \A f \in Floors :
            (\A t \in tasks : f \notin DOMAIN t.docs) => index[f] = Wanted(f)

IndexIInv == IndexTypeOK /\ AbsentInv /\ ReplicaInv /\ OpenInv /\ LockInv /\ DocInv
=============================================================================

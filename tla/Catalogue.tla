----------------------------- MODULE Catalogue -----------------------------
(***************************************************************************)
(* Holes are filed under tags and divisions.  A tag is made by whoever     *)
(* first names it, after a remote check of its name; it keeps a            *)
(* temperature, the number of its holes, by hand.  Admins edit tags, merge *)
(* one into another, and delete a division after moving its holes.         *)
(*                                                                         *)
(* A request that finds no new tag and one that makes one differ by the    *)
(* wait for the check; each transaction that follows is one step.  A tag   *)
(* is its name and temperature; whether it is sensitive and who may use it *)
(* is decided from a request alone and left out, as are the names and pins *)
(* of divisions.                                                           *)
(***************************************************************************)
EXTENDS Integers, FiniteSets

CONSTANTS
    Names,       \* of tags; names that differ in case only are one name
    MaxTag,      \* bound: the largest id of a tag
    Holes,
    Divisions,
    Handlers,    \* each serves one request
    Temps,       \* temperatures that an admin sets
    FirstTag,    \* the tags at the start: id |-> name or None
    FirstTags,   \* hole |-> ids of its tags at the start, {} for no hole
    FirstDivision, \* the division of all holes at the start
    None

TagIds == 1..MaxTag

TagRow == [name : Names, temperature : Int]

ASSUME NoneAssumption ==
    /\ None \notin Names \cup Holes \cup Divisions
    /\ None \notin TagRow

ASSUME StartAssumption ==
    /\ FirstTag \in [TagIds -> Names \cup {None}]
    /\ FirstTags \in [Holes -> SUBSET {t \in TagIds : FirstTag[t] # None}]
    /\ FirstDivision \in Divisions

ASSUME FiniteAssumption == IsFiniteSet(Holes) /\ IsFiniteSet(Handlers)

\* A request makes one tag at most: there is an id for it.
ASSUME BoundAssumption ==
    /\ MaxTag \in Nat /\ Temps \subseteq Int
    /\ Cardinality({t \in TagIds : FirstTag[t] # None}) + Cardinality(Handlers) <= MaxTag

VARIABLES
    tag,       \* table tag
    nextTag,   \* AUTO_INCREMENT of tag
    hole,      \* hole.division_id, None for no row
    holeTags,  \* table hole_tags, by hole
    division,  \* table division: ids not given yet, live, deleted
    req,       \* handler |-> where it is, and its locals
    drifted,   \* history: tags whose temperature was set, or added up wrongly
    renamed,   \* history: tags whose name was changed
    stripped,  \* history: holes whose only tag was merged into itself
    removed,   \* history: tags deleted at some time
    resaved \* history: tags deleted while a ModifyTag was changing them

history == <<drifted, renamed, stripped, removed, resaved>>

catalogueVars == <<tag, nextTag, hole, holeTags, division, req, history>>

Live == {t \in TagIds : tag[t] # None}

Taken(n) == \E t \in Live : tag[t].name = n

HolesOf(t) == {h \in Holes : t \in holeTags[h]}

LiveDivision(d) == division[d] = "live"

New == [step |-> "new"]

Done == [step |-> "done"]

Request ==
    [step : {"new", "done"}]
      \cup
    [step : {"check", "store", "stuck"}, hole : Holes \cup {None},
     division : Divisions \cup {None}, names : SUBSET Names,
     ids : SUBSET (TagIds \cup {0}), new : SUBSET Names]
      \cup
    [step : {"edit"}, id : TagIds \cup {0}, row : TagRow]
      \cup
    [step : {"source"}, from : TagIds, fromRow : TagRow]
      \cup
    [step : {"merge"}, from : TagIds, fromRow : TagRow, to : TagIds, toRow : TagRow]
      \cup
    [step : {"moved"}, division : Divisions]

Filing(r) == req[r].step \in {"check", "store", "stuck"}

Creating(r) == Filing(r) /\ req[r].hole = None

\* ModifyHole locks the row of its hole before it looks for tags.
Locked(h) == \E r \in Handlers : Filing(r) /\ req[r].hole = h

To(r, q) == req' = [req EXCEPT ![r] = q]

-----------------------------------------------------------------------------
(* Finding and making tags *)

\* FindOrCreateTags up to its wait: what is found, and the names that are not.
\* A handler here makes one new tag at most.
Find(h, d, S) ==
    LET found == {t \in Live : tag[t].name \in S}
        new == S \ {tag[t].name : t \in found}
    IN [step |-> IF new = {} THEN "store" ELSE "check",
        hole |-> h, division |-> d, names |-> S, ids |-> found, new |-> new]

FoundOne(q) == \A m, n \in q.new : m = n

\* CreateHole, its body checked.  A hole without tags is not stored (its update
\* of temperatures has no condition, which gorm refuses).
CreateHole(r, d, S) ==
    /\ req[r].step = "new"
    /\ S # {}
    /\ Cardinality({h \in Holes : hole[h] = None})
         > Cardinality({q \in Handlers : Creating(q)})
    /\ FoundOne(Find(None, d, S))
    /\ To(r, Find(None, d, S))
    /\ UNCHANGED <<tag, nextTag, hole, holeTags, division, history>>

\* ModifyHole with tags, by an admin, under the lock of the row.
ModifyHole(r, h, S) ==
    /\ req[r].step = "new"
    /\ S # {}
    /\ hole[h] # None
    /\ ~ Locked(h)
    /\ FoundOne(Find(h, None, S))
    /\ To(r, Find(h, None, S))
    /\ UNCHANGED <<tag, nextTag, hole, holeTags, division, history>>

\* The check of a new name fails: its goroutine returns without wg.Done().
CheckFails(r) ==
    /\ req[r].step = "check"
    /\ To(r, [req[r] EXCEPT !.step = "stuck"])
    /\ UNCHANGED <<tag, nextTag, hole, holeTags, division, history>>

\* INSERT of a name that is not there.
Insert(n) ==
    /\ tag' = [tag EXCEPT ![nextTag] = [name |-> n, temperature |-> 0]]
    /\ nextTag' = nextTag + 1

\* Mutant: the last id inserted by anyone is taken for the id of the new tag.
CreateTagsLastId(r) ==
    /\ req[r].step = "check"
    /\ Creating(r)
    /\ \E n \in req[r].new :
         \/ ~ Taken(n) /\ Insert(n)
         \/ Taken(n) /\ UNCHANGED <<tag, nextTag>>
    /\ To(r, [req[r] EXCEPT !.step = "store", !.ids = @ \cup {nextTag' - 1}])
    /\ UNCHANGED <<hole, holeTags, division, history>>

\* The checks are done; the new tag is inserted, before and apart from the
\* hole.  If another request has made it meanwhile nothing is inserted and the
\* tag in hand keeps the id 0.
CreateTags(r) ==
    /\ req[r].step = "check"
    /\ Creating(r)
    /\ \E n \in req[r].new :
         \/ /\ ~ Taken(n)
            /\ Insert(n)
            /\ To(r, [req[r] EXCEPT !.step = "store", !.ids = @ \cup {nextTag}])
         \/ /\ Taken(n)
            /\ To(r, [req[r] EXCEPT !.step = "store", !.ids = @ \cup {0}])
            /\ UNCHANGED <<tag, nextTag>>
    /\ UNCHANGED <<hole, holeTags, division, history>>

-----------------------------------------------------------------------------
(* Filing holes *)

\* Mutant: the temperatures of the tags a hole loses are left.
RetaggedUp(table, old, ids) ==
    [t \in TagIds |->
        IF table[t] = None \/ t \notin ids THEN table[t]
        ELSE [table[t] EXCEPT !.temperature = @ + 1]]

\* The table after a hole changed its tags from old to ids.
Retagged(table, old, ids) ==
    [t \in TagIds |->
        IF table[t] = None THEN None
        ELSE [table[t] EXCEPT !.temperature =
                @ - (IF t \in old THEN 1 ELSE 0) + (IF t \in ids THEN 1 ELSE 0)]]

\* The foreign key of hole_tags; there is no tag 0.
TagsExist(ids) == ids \subseteq Live

\* The transaction of Hole.Create.
StoreHole(r) ==
    LET q == req[r]
    IN /\ q.step = "store"
       /\ Creating(r)
       /\ TagsExist(q.ids)
       /\ LiveDivision(q.division)
       /\ \E h \in Holes :
            /\ hole[h] = None
            /\ hole' = [hole EXCEPT ![h] = q.division]
            /\ holeTags' = [holeTags EXCEPT ![h] = q.ids]
       /\ tag' = Retagged(tag, {}, q.ids)
       /\ To(r, Done)
       /\ UNCHANGED <<nextTag, division, history>>

\* The rest of ModifyHole: a new tag, the temperatures and the rows of
\* hole_tags are committed together.
ModifyTags(r) ==
    LET q == req[r]
        h == q.hole
    IN /\ q.step \in {"check", "store"}
       /\ ~ Creating(r)
       /\ TagsExist(q.ids)
       /\ \/ /\ q.new = {}
             /\ tag' = Retagged(tag, holeTags[h], q.ids)
             /\ holeTags' = [holeTags EXCEPT ![h] = q.ids]
             /\ UNCHANGED nextTag
          \/ \E n \in q.new :
             /\ ~ Taken(n)
             /\ LET ids == q.ids \cup {nextTag}
                    table == [tag EXCEPT ![nextTag] = [name |-> n, temperature |-> 0]]
                IN /\ tag' = Retagged(table, holeTags[h], ids)
                   /\ holeTags' = [holeTags EXCEPT ![h] = ids]
             /\ nextTag' = nextTag + 1
       /\ To(r, Done)
       /\ UNCHANGED <<hole, division, history>>

\* Any statement fails, a foreign key among them; ModifyHole also rolls back
\* the tag it made.
FailFiling(r) ==
    /\ \/ req[r].step = "store"
       \/ req[r].step = "check" /\ ~ Creating(r)
    /\ To(r, Done)
    /\ UNCHANGED <<tag, nextTag, hole, holeTags, division, history>>

\* ModifyHole with a division, in one transaction.
ModifyDivision(h, d) ==
    /\ hole[h] \notin {None, d}
    /\ ~ Locked(h)
    /\ LiveDivision(d)
    /\ hole' = [hole EXCEPT ![h] = d]
    /\ UNCHANGED <<tag, nextTag, holeTags, division, req, history>>

-----------------------------------------------------------------------------
(* Editing tags *)

\* CreateTag after its check: FirstOrCreate, whose insert the key refuses if
\* another was faster.
CreateTag(r, n) ==
    /\ req[r].step = "new"
    /\ \/ ~ Taken(n) /\ Insert(n)
       \/ Taken(n) /\ UNCHANGED <<tag, nextTag>>
    /\ To(r, Done)
    /\ UNCHANGED <<hole, holeTags, division, history>>

\* ModifyTag reads the tag and sends the new name to the check.  A tag that is
\* not found is a tag without an id.
ReadTag(r, t, n, temp) ==
    /\ req[r].step = "new"
    /\ To(r, [step |-> "edit", id |-> IF t \in Live THEN t ELSE 0,
              row |-> [name |-> n, temperature |-> temp]])
    /\ UNCHANGED <<tag, nextTag, hole, holeTags, division, history>>

\* Other tags that have the name a request wants for its own.
Namesakes(q) == {t \in Live \ {q.id} : tag[t].name = q.row.name}

\* DB.Save.  Without an id an INSERT; with one an UPDATE of all columns, and if that
\* matches nothing an INSERT with the id in hand that, where a key is taken, writes
\* all columns of the row that has it: the tag is back, or its namesake changes.
SaveTag(r) ==
    LET q == req[r]
    IN /\ q.step = "edit"
       /\ \/ /\ q.id # 0 /\ Namesakes(q) = {}
             /\ tag' = [tag EXCEPT ![q.id] = q.row]
             /\ drifted' = drifted \cup {q.id}
             /\ renamed' = renamed \cup {q.id}
             /\ UNCHANGED nextTag
          \/ /\ q.id # 0 /\ q.id \notin Live
             /\ \E u \in Namesakes(q) : /\ tag' = [tag EXCEPT ![u] = q.row]
                                        /\ drifted' = drifted \cup {u}
             /\ UNCHANGED <<nextTag, renamed>>
          \/ /\ q.id = 0 /\ Namesakes(q) = {}
             /\ tag' = [tag EXCEPT ![nextTag] = q.row]
             /\ drifted' = drifted \cup {nextTag}
             /\ nextTag' = nextTag + 1
             /\ UNCHANGED renamed
       /\ To(r, Done)
       /\ UNCHANGED <<hole, holeTags, division, stripped, removed, resaved>>

\* The check fails, or the key refuses the name; the error of Save is not looked at.
FailEdit(r) ==
    /\ req[r].step = "edit"
    /\ To(r, Done)
    /\ UNCHANGED <<tag, nextTag, hole, holeTags, division, history>>

\* DeleteTag reads the tag to go.
ReadSource(r, t) ==
    /\ req[r].step = "new"
    /\ t \in Live
    /\ To(r, [step |-> "source", from |-> t, fromRow |-> tag[t]])
    /\ UNCHANGED <<tag, nextTag, hole, holeTags, division, history>>

\* ... and the one its holes go to.  Nothing keeps them apart.
ReadTarget(r, u) ==
    /\ req[r].step = "source"
    /\ u \in Live
    /\ To(r, [step |-> "merge", from |-> req[r].from, fromRow |-> req[r].fromRow,
              to |-> u, toRow |-> tag[u]])
    /\ UNCHANGED <<tag, nextTag, hole, holeTags, division, history>>

\* hole_tags after the rows of t are moved to u; rows of t in holes that have u
\* are deleted, all of them if t is u.
Relinked(t, u) ==
    [h \in Holes |-> IF t \notin holeTags[h] THEN holeTags[h]
                     ELSE IF u \in holeTags[h] THEN holeTags[h] \ {t}
                     ELSE (holeTags[h] \ {t}) \cup {u}]

\* newTag.Temperature += tag.Temperature
Sum(a, b) == a + b

\* The table after the merge: Updates writes the target as it was read, but a
\* temperature of zero not at all; the row of t is deleted.
Merged(t, fromRow, u, toRow) ==
    LET sum == Sum(fromRow.temperature, toRow.temperature)
    IN [v \in TagIds |->
          IF v = t \/ tag[v] = None THEN None
          ELSE IF v = u THEN [name |-> toRow.name,
                              temperature |-> IF sum = 0 THEN tag[u].temperature ELSE sum]
          ELSE tag[v]]

\* The transaction of DeleteTag.
MergeTags(r) ==
    LET q == req[r]
        t == q.from
        u == q.to
        asRead == tag[t] = q.fromRow /\ tag[u] = q.toRow
    IN /\ q.step = "merge"
       /\ HolesOf(t) \subseteq HolesOf(u) \/ u \in Live
       /\ u \in Live => \A v \in Live \ {u} : tag[v].name # q.toRow.name
       /\ holeTags' = Relinked(t, u)
       /\ tag' = Merged(t, q.fromRow, u, q.toRow)
       /\ drifted' = IF ~ asRead \/ t \in drifted \/ HolesOf(t) \cap HolesOf(u) # {}
                     THEN drifted \cup {u} ELSE drifted
       /\ renamed' = IF u \in Live /\ tag[u].name # q.toRow.name
                     THEN renamed \cup {u} ELSE renamed
       /\ stripped' = IF t = u THEN stripped \cup {h \in Holes : holeTags[h] = {t}}
                      ELSE stripped
       /\ removed' = removed \cup {t}
       /\ resaved' = resaved \cup
            {v \in {t} : \E p \in Handlers : req[p].step = "edit" /\ req[p].id = v}
       /\ To(r, Done)
       /\ UNCHANGED <<nextTag, hole, division>>

\* There is no such target, a key refuses a statement, or an error ends the
\* transaction.
FailMerge(r) ==
    /\ req[r].step \in {"source", "merge"}
    /\ To(r, Done)
    /\ UNCHANGED <<tag, nextTag, hole, holeTags, division, history>>

-----------------------------------------------------------------------------
(* Divisions *)

\* AddDivision of a name that is not there yet.
AddDivision(d) ==
    /\ division[d] = "unused"
    /\ division' = [division EXCEPT ![d] = "live"]
    /\ UNCHANGED <<tag, nextTag, hole, holeTags, req, history>>

\* DeleteDivision, first statement.  It waits for locked holes, and the foreign
\* key refuses a target that is not there.
MoveHoles(r, d, e) ==
    /\ req[r].step = "new"
    /\ d # e
    /\ \A h \in Holes : hole[h] = d => LiveDivision(e) /\ ~ Locked(h)
    /\ hole' = [h \in Holes |-> IF hole[h] = d THEN e ELSE hole[h]]
    /\ To(r, [step |-> "moved", division |-> d])
    /\ UNCHANGED <<tag, nextTag, holeTags, division, history>>

\* Mutant: no foreign key of hole.division_id.
DivisionUnusedUnchecked(d) == TRUE

\* The foreign key of hole.division_id.
DivisionUnused(d) == \A h \in Holes : hole[h] # d

\* DeleteDivision, second statement: refused while a hole has come since.
DropDivision(r) ==
    LET d == req[r].division
    IN /\ req[r].step = "moved"
       /\ DivisionUnused(d)
       /\ division' = [division EXCEPT ![d] = IF @ = "live" THEN "deleted" ELSE @]
       /\ To(r, Done)
       /\ UNCHANGED <<tag, nextTag, hole, holeTags, history>>

FailDrop(r) ==
    /\ req[r].step = "moved"
    /\ To(r, Done)
    /\ UNCHANGED <<tag, nextTag, hole, holeTags, division, history>>

-----------------------------------------------------------------------------

CatalogueInit ==
    /\ tag = [t \in TagIds |->
                IF FirstTag[t] = None THEN None
                ELSE [name |-> FirstTag[t],
                      temperature |-> Cardinality({h \in Holes : t \in FirstTags[h]})]]
    /\ nextTag \in {n \in 1..(MaxTag + 1) :
                      \A t \in TagIds : FirstTag[t] # None <=> t < n}
    /\ hole = [h \in Holes |-> IF FirstTags[h] = {} THEN None ELSE FirstDivision]
    /\ holeTags = FirstTags
    /\ division \in [Divisions -> {"unused", "live"}]
    /\ division[FirstDivision] = "live"
    /\ req = [r \in Handlers |-> New]
    /\ drifted = {} /\ renamed = {} /\ stripped = {} /\ removed = {} /\ resaved = {}

\* The steps of a handler that has begun, but for a failed check.
Continue(r) ==
    \/ CreateTags(r) \/ StoreHole(r) \/ ModifyTags(r) \/ FailFiling(r)
    \/ SaveTag(r) \/ FailEdit(r)
    \/ \E u \in TagIds : ReadTarget(r, u)
    \/ MergeTags(r) \/ FailMerge(r)
    \/ DropDivision(r) \/ FailDrop(r)

CatalogueNext ==
    \/ \E r \in Handlers, S \in SUBSET Names :
         \/ \E d \in Divisions : CreateHole(r, d, S)
         \/ \E h \in Holes : ModifyHole(r, h, S)
    \/ \E r \in Handlers, n \in Names :
         \/ CreateTag(r, n)
         \/ \E t \in TagIds, temp \in Temps : ReadTag(r, t, n, temp)
    \/ \E r \in Handlers, t \in TagIds : ReadSource(r, t)
    \/ \E r \in Handlers, d, e \in Divisions : MoveHoles(r, d, e)
    \/ \E r \in Handlers : CheckFails(r) \/ Continue(r)
    \/ \E h \in Holes, d \in Divisions : ModifyDivision(h, d)
    \/ \E d \in Divisions : AddDivision(d)

CatalogueSpec == CatalogueInit /\ [][CatalogueNext]_catalogueVars

-----------------------------------------------------------------------------
(* Properties *)

\* Types; the next id is above every id in use.
CatalogueTypeOK ==
    /\ tag \in [TagIds -> TagRow \cup {None}]
    /\ nextTag \in 1..(MaxTag + 1)
    /\ \A t \in Live \cup removed : t < nextTag
    /\ hole \in [Holes -> Divisions \cup {None}]
    /\ holeTags \in [Holes -> SUBSET TagIds]
    /\ division \in [Divisions -> {"unused", "live", "deleted"}]
    /\ req \in [Handlers -> Request]
    /\ drifted \cup renamed \cup removed \cup resaved \subseteq TagIds
    /\ stripped \subseteq Holes

\* A hole is in a division that is there and has tags that are there, whatever
\* overlaps with DeleteTag's and DeleteDivision's several statements.
ReferencesHold ==
    \A h \in Holes :
        /\ hole[h] # None => LiveDivision(hole[h])
        /\ holeTags[h] \subseteq Live

\* A tag's temperature is the number of its holes, unless an admin has set it, it
\* was merged from tags one of which was not as DeleteTag had read it, had drifted,
\* or shared a hole with the other, or it has the name an admin gave to a tag that
\* was deleted meanwhile: the Save of that one writes over it.
TemperatureExact ==
    \A t \in Live \ drifted : tag[t].temperature = Cardinality(HolesOf(t))

\* A stored hole keeps at least one tag through all merges and edits, unless its
\* only tag was merged into itself.
HolesKeepTags ==
    \A h \in Holes : hole[h] # None => holeTags[h] # {} \/ h \in stripped

\* A deleted tag stays deleted, unless ModifyTag was changing it at that moment:
\* its Save inserts the row again.
DeletedTagsGone == removed \cap Live \subseteq resaved

\* What the tables promise each other.
TablesOK == CatalogueTypeOK /\ ReferencesHold /\ HolesKeepTags /\ DeletedTagsGone

\* A new hole, and one whose tags are changed, gets the tags that were asked for: a
\* request that lost the race for a new name stores nothing.  Tags renamed
\* meanwhile excepted.
TagsAsAsked ==
    [][\A r \in Handlers, h \in Holes :
         /\ Filing(r)
         /\ holeTags'[h] # holeTags[h]
         /\ req'[r] # req[r]
         => \/ {tag'[t].name : t \in holeTags'[h]} = req[r].names
            \/ holeTags'[h] \cap renamed # {}]_catalogueVars

-----------------------------------------------------------------------------
(* The inductive invariant *)

\* Every handler that may still insert a tag will find an id for it.
Pending == {r \in Handlers : req[r].step \in {"new", "check", "edit"}}

IdsInv == nextTag + Cardinality(Pending) <= MaxTag + 1

\* What a handler that files a hole has in hand: ids given before, one new name at
\* most; a handler that stores has a tag, and if it changes a hole it waited for no
\* check.
FilingInv ==
    \A r \in Handlers : Filing(r) =>
        LET q == req[r]
        IN  /\ q.ids \subseteq 0..(nextTag - 1)
            /\ q.new \subseteq q.names /\ FoundOne(q)
            /\ q.step = "check" => q.new # {}
            /\ q.step = "store" => q.ids # {}
            /\ q.hole = None => q.division # None
            /\ q.hole # None => hole[q.hole] # None /\ (q.step = "store" => q.new = {})

\* Its tags have the names it asked for, unless one was renamed or is gone; those
\* it has still to make excepted.
AskedInv ==
    \A r \in Handlers : Filing(r) =>
        LET q == req[r]
        IN  \/ q.ids \cap renamed # {}
            \/ ~ TagsExist(q.ids)
            \/ {tag[t].name : t \in q.ids} =
                 IF q.step = "store" THEN q.names ELSE q.names \ q.new

\* A handler that edits or merges tags has ids that were given; what it saves was
\* not deleted before it read it.
EditInv ==
    \A r \in Handlers :
        /\ req[r].step = "edit" => /\ req[r].id < nextTag
                                   /\ req[r].id \in removed => req[r].id \in resaved
        /\ req[r].step \in {"source", "merge"} => req[r].from < nextTag
        /\ req[r].step = "merge" => req[r].to < nextTag

\* A hole that is not there has no tags.
FreshInv == \A h \in Holes : hole[h] = None => holeTags[h] = {}

CatalogueIInv ==
    /\ TablesOK /\ TemperatureExact
    /\ IdsInv /\ FilingInv /\ AskedInv /\ EditInv /\ FreshInv
=============================================================================

---------------------------- MODULE ContentCheck ----------------------------
(***************************************************************************)
(* The check of what users write (utils/sensitive): the links to pictures  *)
(* are taken out of a text, every picture is fetched and shown to the      *)
(* service, then the links that remain and at last the words.  What the    *)
(* service objects to is put into words with a table of labels, which a    *)
(* task of its own replaces every hour while checks read it.               *)
(*                                                                         *)
(* One check of Checks is one call of CheckSensitive; it may be asked      *)
(* again and again.  A text is a record: pictures, how many pictures of an *)
(* allowed host it shows; foreign, whether it shows one of another host;   *)
(* listed, whether its rest links to a host of the blacklist; words,       *)
(* whether the rest has words other than the numbers of holes and floors.  *)
(* The rest is what remains when the links to pictures are taken out: what *)
(* they are called stays, and so does a link that is no address.  The      *)
(* types the callers give are all known to checkType, whose error is left  *)
(* out, and so are answers of the service the code cannot dereference.     *)
(***************************************************************************)
EXTENDS Naturals, Sequences

CONSTANTS
  Checks,    \* calls of CheckSensitive that run beside each other
  Texts,     \* the texts they are given
  Findings,  \* what the service may object to: sequences of hits
  Tables,    \* tables of labels the service has
  Labels,    \* numbers of labels
  Knows,     \* [Tables -> SUBSET Labels]: the labels a table names
  Length,    \* [Tables -> Nat]: the length of a table as JSON
  Unset      \* no table

ASSUME TablesAssumption ==
  /\ Knows \in [Tables -> SUBSET Labels]
  /\ Length \in [Tables -> Nat \ {0}]
  /\ Unset \notin Tables

\* A hit: its label, the level of the code that comes with it, and whether
\* the service quotes the words it means.
Hits == [label : Labels, code : {"none", "second", "third"}, quoted : BOOLEAN]

\* What findImagesInMarkdownContent and the code after it read out of a text.
AllTexts == [pictures : Nat, foreign : BOOLEAN, listed : BOOLEAN, words : BOOLEAN]

ASSUME TextsAssumption ==
  /\ Texts \subseteq AllTexts
  /\ Unset \notin Texts
  /\ Findings \subseteq Seq(Hits)

VARIABLES
  served,    \* the table the service has now
  labels,    \* sensitiveLabelMap: names, by label the table they are from; length
  refresher, \* UpdateSensitiveLabelMap: where it is, the table it was sent
  check      \* [Checks -> a check and what it found]

vars == <<served, labels, refresher, check>>

-----------------------------------------------------------------------------
(* The names of what was found.                                            *)

\* The codes under a label: those of the third level are never stored, the
\* loop over them stores the name of the second level again.
CodeName(h, t) == IF h.code = "second" THEN t ELSE Unset

\* The words of one hit, by the table t its label has names from (Unset: the
\* label is in no table).  A hit on a picture needs a code to be described.
\* Words and faces seen in a picture are added without the table: left out.
DescribeHit(place, h, t) ==
  IF place = "picture" /\ h.code = "none" THEN {}
  ELSE (IF t = Unset THEN {} ELSE {<<h.label, "label", t>>})
       \cup (IF t = Unset \/ h.code = "none" THEN {} ELSE {<<h.label, h.code, CodeName(h, t)>>})
       \cup (IF h.quoted /\ h.code # "none" THEN {<<h.label, "quoted", Unset>>} ELSE {})

\* The table a label has its names from while the table is t.
NamedBy(l, t) == IF t # Unset /\ l \in Knows[t] THEN t ELSE Unset

\* The words for all that was found, by one table.
Describe(place, found, t) ==
  UNION {DescribeHit(place, found[i], NamedBy(found[i].label, t)) : i \in DOMAIN found}

\* What stands for no words at all.
UnknownReason == {<<"unknown reason">>}

-----------------------------------------------------------------------------
(* States.                                                                 *)

\* The table as InitSensitiveLabelMap leaves it when it took t.
Built(t) ==
  IF t = Unset THEN [names |-> [l \in Labels |-> Unset], length |-> 0]
  ELSE [names |-> [l \in Labels |-> NamedBy(l, t)], length |-> Length[t]]

\* Nothing asked.  seen and cleared are there for the properties: the table
\* in force when the check got the lock, the parts the service let pass.
NoCheck == [at |-> "idle", text |-> Unset, picture |-> 0, found |-> <<>>,
            described |-> 0, detail |-> {}, pass |-> FALSE, failed |-> FALSE, seen |-> {}, cleared |-> {}]

\* The table in force: what the map was built from, unless it is being built.
InForce(m) == {t \in Tables \cup {Unset} : m = Built(t)}

\* bootstrap.Init has asked for the labels once, perhaps in vain.
Init ==
  /\ served \in Tables
  /\ labels \in {Built(served), Built(Unset)}
  /\ refresher = [at |-> "idle", table |-> Unset]
  /\ check = [c \in Checks |-> NoCheck]

\* The lock of the map is Go's: who waits to write keeps new readers out.
\* Mutant: the read lock is taken before the service is asked.
ReadersAsking == {c \in Checks : check[c].at \in {"picture", "words", "naming"}}
Readers == {c \in Checks : check[c].at = "naming"}
MayRead == refresher.at \notin {"waiting", "building"}
\* Mutant: the map is replaced without waiting for the readers.
MayWriteAnyway == TRUE
MayWrite == Readers = {}

-----------------------------------------------------------------------------
(* A check.                                                                *)

\* The check ends with an error (failed) or with a verdict and its words.
Answer(k, pass, failed, detail) ==
  [k EXCEPT !.at = "done", !.pass = pass, !.failed = failed, !.detail = detail]

\* The pictures are through: the links, then nothing to check, then the words.
AfterPictures(k) ==
  IF k.text.listed THEN Answer(k, FALSE, FALSE, {<<"listed">>})
  ELSE IF ~k.text.words THEN Answer(k, TRUE, FALSE, {})
  ELSE [k EXCEPT !.at = "words"]

\* On to the next picture, or to the text.
Onward(k) ==
  IF k.picture < k.text.pictures
  THEN [k EXCEPT !.at = "fetch", !.picture = @ + 1]
  ELSE AfterPictures(k)

\* CheckSensitive is called.
Begin(c, x) ==
  /\ check[c].at = "idle"
  /\ LET k == [NoCheck EXCEPT !.text = x]
     IN  check' = [check EXCEPT ![c] =
                    IF x.foreign THEN Answer(k, FALSE, TRUE, {}) ELSE Onward(k)]
  /\ UNCHANGED <<served, labels, refresher>>

\* getImageBase64FromURL: the picture, or an error.
Fetch(c) ==
  /\ check[c].at = "fetch"
  /\ \E got \in BOOLEAN :
       check' = [check EXCEPT ![c] =
                  IF got THEN [@ EXCEPT !.at = "picture"] ELSE Answer(@, FALSE, TRUE, {})]
  /\ UNCHANGED <<served, labels, refresher>>

\* What was found has to be put into words first.
Objected(k, found) == [k EXCEPT !.at = "objected", !.found = found]

\* Where the service was asked: about a picture, then it has a number.
PlaceOf(k) == IF k.picture = 0 \/ k.picture \in k.cleared THEN "words" ELSE "picture"

\* The service lets the part pass: the next picture, or the end.
Passed(k) ==
  IF k.at = "picture" THEN Onward([k EXCEPT !.cleared = @ \cup {k.picture}])
  ELSE Answer([k EXCEPT !.cleared = @ \cup {0}], TRUE, FALSE, {})

\* Mutant: a service that is down stops nobody.
UnansweredPasses(k, how) == Answer(k, how = "down", FALSE, {})

\* No answer of the service, or one that reports a fault of its own.
Unanswered(k, how) ==
  Answer(k, FALSE, FALSE, IF k.at = "picture" /\ how = "down" THEN {} ELSE {<<how>>})

\* CheckSensitiveText: the service is asked about the words.
AskWords(c) ==
  /\ check[c].at = "words"
  /\ \/ check' = [check EXCEPT ![c] = Passed(@)]
     \/ \E how \in {"down", "refused"} : check' = [check EXCEPT ![c] = Unanswered(@, how)]
     \/ \E found \in Findings : check' = [check EXCEPT ![c] = Objected(@, found)]
  /\ UNCHANGED <<served, labels, refresher>>

\* checkSensitiveImage: the service is asked about a picture; its list of
\* results may be empty.
AskPicture(c) ==
  /\ check[c].at = "picture"
  /\ \/ check' = [check EXCEPT ![c] = Passed(@)]
     \/ \E how \in {"down", "refused"} : check' = [check EXCEPT ![c] = Unanswered(@, how)]
     \/ \E found \in Findings : check' = [check EXCEPT ![c] = Objected(@, found)]
     \/ check' = [check EXCEPT ![c] = Answer(@, FALSE, TRUE, {})]
  /\ UNCHANGED <<served, labels, refresher>>

\* sensitiveLabelMap.RLock.
ReadLock(c) ==
  /\ check[c].at = "objected"
  /\ MayRead
  /\ check' = [check EXCEPT ![c].at = "naming", ![c].seen = InForce(labels)]
  /\ UNCHANGED <<served, labels, refresher>>

\* The next hit is described by the map as it is.  Under the read lock.
NameHit(c) ==
  LET k == check[c]
      h == k.found[k.described + 1]
  IN  /\ k.at = "naming"
      /\ k.described < Len(k.found)
      /\ check' = [check EXCEPT ![c].described = @ + 1,
                                ![c].detail = @ \cup DescribeHit(PlaceOf(k), h, labels.names[h.label])]
      /\ UNCHANGED <<served, labels, refresher>>

\* Everything is described; the lock is released on return.
EndNaming(c) ==
  LET k == check[c]
  IN  /\ k.at = "naming"
      /\ k.described = Len(k.found)
      /\ check' = [check EXCEPT ![c] =
           Answer(@, FALSE, FALSE, IF k.detail = {} THEN UnknownReason ELSE k.detail)]
      /\ UNCHANGED <<served, labels, refresher>>

\* The caller has the answer.
Leave(c) ==
  /\ check[c].at = "done"
  /\ check' = [check EXCEPT ![c] = NoCheck]
  /\ UNCHANGED <<served, labels, refresher>>

-----------------------------------------------------------------------------
(* The labels.                                                             *)

\* The service has another table of labels.
ServiceChanges(t) ==
  /\ t # served
  /\ served' = t
  /\ UNCHANGED <<labels, refresher, check>>

\* An hour has passed.
Tick ==
  /\ refresher.at = "idle"
  /\ refresher' = [refresher EXCEPT !.at = "asking"]
  /\ UNCHANGED <<served, labels, check>>

\* The table is another one if it has another length.
Changed(t) == Length[t] # labels.length

\* InitSensitiveLabelMap: no answer, or the table; a new one waits for the lock.
AskLabels ==
  /\ refresher.at = "asking"
  /\ \/ refresher' = [at |-> "idle", table |-> Unset]
     \/ refresher' = IF Changed(served) THEN [at |-> "waiting", table |-> served]
                     ELSE [at |-> "idle", table |-> Unset]
  /\ UNCHANGED <<served, labels, check>>

\* Mutant: the old labels stay.
EmptiedNot(m, t) == [m EXCEPT !.length = Length[t]]

\* The maps are made anew.
Emptied(m, t) == [names |-> Built(Unset).names, length |-> Length[t]]

\* sensitiveLabelMap.Lock, and the maps are empty.
WriteLock ==
  /\ refresher.at = "waiting"
  /\ MayWrite
  /\ labels' = Emptied(labels, refresher.table)
  /\ refresher' = [refresher EXCEPT !.at = "building"]
  /\ UNCHANGED <<served, check>>

\* The labels the map has no names for yet.
Missing == {l \in Knows[refresher.table] : labels.names[l] # refresher.table}

\* One label and the codes under it.
AddLabel(l) ==
  /\ refresher.at = "building"
  /\ l \in Missing
  /\ labels' = [labels EXCEPT !.names[l] = refresher.table]
  /\ UNCHANGED <<served, refresher, check>>

\* The table is complete; the lock is released on return.
WriteUnlock ==
  /\ refresher.at = "building"
  /\ Missing = {}
  /\ refresher' = [at |-> "idle", table |-> Unset]
  /\ UNCHANGED <<served, labels, check>>

\* The program ends: the context of the task is cancelled.
StopRefresher ==
  /\ refresher.at = "idle"
  /\ refresher' = [refresher EXCEPT !.at = "stopped"]
  /\ UNCHANGED <<served, labels, check>>

-----------------------------------------------------------------------------

CheckNext(c) ==
  \/ \E x \in Texts : Begin(c, x)
  \/ Fetch(c) \/ AskPicture(c) \/ AskWords(c)
  \/ ReadLock(c) \/ NameHit(c) \/ EndNaming(c)
  \/ Leave(c)

RefresherNext ==
  \/ Tick \/ AskLabels \/ WriteLock \/ WriteUnlock \/ StopRefresher
  \/ \E l \in Labels : AddLabel(l)

Next ==
  \/ \E c \in Checks : CheckNext(c)
  \/ RefresherNext
  \/ \E t \in Tables : ServiceChanges(t)

Spec == Init /\ [][Next]_vars

\* Go runs what waits for nothing but the processor, lets the writer in when
\* the readers have gone, and on Unlock lets the waiting readers in before the
\* next writer.  Nothing is assumed of the service: it may never answer.
FairSpec ==
  /\ Spec
  /\ \A c \in Checks : SF_vars(ReadLock(c)) /\ WF_vars(NameHit(c)) /\ WF_vars(EndNaming(c))
  /\ WF_vars(WriteLock) /\ WF_vars(WriteUnlock) /\ WF_vars(\E l \in Labels : AddLabel(l))

-----------------------------------------------------------------------------
(* Properties.                                                             *)

Places == {"idle", "fetch", "picture", "words", "objected", "naming", "done"}

\* What a description is made of.
Words ==
  (Labels \X {"label", "second", "third", "quoted"} \X (Tables \cup {Unset}))
  \cup {<<w>> : w \in {"down", "refused", "listed", "unknown reason"}}

Check ==
  [at : Places, text : Texts \cup {Unset}, picture : Nat, found : Seq(Hits),
   described : Nat, detail : SUBSET Words, pass : BOOLEAN, failed : BOOLEAN,
   seen : SUBSET (Tables \cup {Unset}), cleared : SUBSET Nat]

\* The map, the task and the checks have the fields their step uses.
TypeOK ==
  /\ served \in Tables
  /\ labels \in [names : [Labels -> Tables \cup {Unset}], length : Nat]
  /\ refresher \in [at : {"idle", "asking", "waiting", "building", "stopped"},
                    table : Tables \cup {Unset}]
  /\ (refresher.table # Unset) <=> (refresher.at \in {"waiting", "building"})
  /\ check \in [Checks -> Check]
  /\ \A c \in Checks : check[c].at # "idle" => check[c].text \in Texts

\* What passes was let pass in every part: each picture by the service, the
\* words by the service unless there are none, and there is no picture of a
\* foreign host and no link of the blacklist.  No fault of the service, of the
\* fetching or of the order of the parts lets a text through unread.
PassedInEveryPart ==
  \A c \in Checks : LET k == check[c] IN
    (k.at = "done" /\ k.pass) =>
      /\ ~k.failed
      /\ 1..k.text.pictures \subseteq k.cleared
      /\ k.text.words => 0 \in k.cleared
      /\ ~k.text.foreign /\ ~k.text.listed

\* Once the service objects to a part, the check neither passes nor asks about
\* what comes after it.
ObjectionIsFinal ==
  \A c \in Checks : LET k == check[c] IN
    k.found # <<>> =>
      /\ ~k.pass
      /\ 0 \notin k.cleared
      /\ k.cleared \subseteq 1..k.picture

\* What was found is described by one whole table, the one in force when the
\* description began, never by two of them or by one half built, and always
\* by something.
DescribedByOneTable ==
  \A c \in Checks : LET k == check[c] IN
    (k.at = "done" /\ k.found # <<>>) =>
      \E t \in k.seen :
        LET d == Describe(PlaceOf(k), k.found, t)
        IN  k.detail = IF d = {} THEN UnknownReason ELSE d

\* While nobody builds it, the map is one table as the service sent it, or
\* empty, and its length is the length of that table: a table that is gone
\* leaves no label behind.
LabelsWhole == refresher.at # "building" => InForce(labels) # {}

\* The new table gets in and the readers get in, however long the service
\* takes and however many checks there are: no one asks it under the lock.
LockServed ==
  /\ refresher.at = "waiting" ~> refresher.at \notin {"waiting", "building"}
  /\ \A c \in Checks : check[c].at = "objected" ~> check[c].at = "done"

-----------------------------------------------------------------------------
(* The inductive invariant.                                                *)

\* Where a check is, the parts before it have been let pass.
PartsInv(k) ==
  /\ k.at \in {"fetch", "picture", "words"} =>
       /\ k.found = <<>> /\ ~k.pass /\ ~k.failed /\ ~k.text.foreign
       /\ k.described = 0 /\ k.detail = {}
  /\ k.at \in {"fetch", "picture"} =>
       /\ k.picture \in 1..k.text.pictures
       /\ k.cleared = 1..(k.picture - 1)
  /\ k.at = "words" =>
       /\ k.picture = k.text.pictures /\ k.cleared = 1..k.picture
       /\ k.text.words /\ ~k.text.listed
  /\ k.at \in {"objected", "naming"} =>
       /\ ~k.pass /\ 0 \notin k.cleared /\ k.cleared \subseteq 1..k.picture

\* What is described so far.
Described(k, t) ==
  UNION {DescribeHit(PlaceOf(k), k.found[i], NamedBy(k.found[i].label, t)) : i \in 1..k.described}

\* The map m does not change while a check describes what was found.
NamingInv(k, m) ==
  /\ k.at = "objected" => k.described = 0 /\ k.detail = {}
  /\ k.at = "naming" =>
       /\ k.described <= Len(k.found)
       /\ k.seen # {}
       /\ \A t \in k.seen : m = Built(t) /\ k.detail = Described(k, t)

\* Nobody reads while the map is built, and what is built is of one table.
BuildingInv ==
  refresher.at = "building" =>
    /\ Readers = {}
    /\ labels.length = Length[refresher.table]
    /\ \A l \in Labels : labels.names[l] \in {Unset, NamedBy(l, refresher.table)}

IInv ==
  /\ TypeOK
  /\ PassedInEveryPart /\ ObjectionIsFinal /\ DescribedByOneTable /\ LabelsWhole
  /\ \A c \in Checks : PartsInv(check[c]) /\ NamingInv(check[c], labels)
  /\ BuildingInv
=============================================================================

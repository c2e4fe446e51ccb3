------------------------------ MODULE Mailbox ------------------------------
(***************************************************************************)
(* Who hears of a floor.  A new floor is announced to the author of its    *)
(* hole, to the authors of the floors it mentions and to the users who     *)
(* subscribed to the hole; an admin who deletes or edits a floor tells its *)
(* author.  Every announcement is stored as a message with its recipients  *)
(* and then posted to another service.  Removing a floor removes its       *)
(* messages.  Users choose what they are told and mark what they have read.*)
(*                                                                         *)
(* There is one hole, which stays.  A transaction that reads without locks *)
(* and then writes has a step for each; the transaction that stores a      *)
(* floor is one step, and so are those that store one message.  Texts and  *)
(* the posts to the other service are left out, but not that they fail.    *)
(***************************************************************************)
EXTENDS Integers, FiniteSets, Sequences, Bags

CONSTANTS
    Users,
    Admins,
    AdminList,   \* config.NotifiableAdminIds
    Owner,       \* the author of the hole
    OldFloors,
    OldAuthor,   \* old floor |-> its author
    Posts,       \* CreateFloor handlers; a floor is named after its handler
    Tasks,       \* handlers that delete, review or edit a floor or send a mail
    Follows,     \* handlers that add or remove a subscription
    Settings,    \* ModifyUser handlers
    Followers,   \* bound: users who subscribe
    Setters,     \* bound: users who change their settings
    Readers,     \* bound: users who read what they are sent
    Mails,       \* bound: the recipients of mails
    Changes,     \* the changes they ask for
    FirstConfig, \* user |-> settings at the start
    Keep, None

Floors == OldFloors \cup Posts

Senders == Posts \cup Tasks

\* defaultUserConfig.Notify: what a user may switch off.  The other types of
\* message cannot be switched off.
Switchable == {"mention", "favorite", "report"}

Config == [notify : SUBSET Switchable, folded : {"hide", "show"}]

ASSUME UsersAssumption ==
    /\ Owner \in Users /\ Admins \subseteq Users /\ AdminList \subseteq Users
    /\ OldAuthor \in [OldFloors -> Users] /\ FirstConfig \in [Users -> Config]
    /\ Mails \subseteq SUBSET Users /\ IsFiniteSet(Users) /\ None \notin Users \cup Floors
    /\ Followers \subseteq Users /\ Setters \subseteq Users

ASSUME ChangesAssumption ==
    Changes \subseteq [notify : (SUBSET Switchable) \cup {Keep},
                       folded : {"hide", "show", Keep}]

ASSUME HandlersAssumption ==
    /\ OldFloors \cap Posts = {} /\ Posts \cap Tasks = {}
    /\ IsFiniteSet(Follows) /\ IsFiniteSet(OldFloors)

VARIABLES
    floor,             \* floor |-> row, with the floors it mentions
    subscribed,        \* user_subscription: the users
    replica,           \* the subscribers as a replica of the database has them
    subscriptionCount, \* hole.subscription_count
    config,            \* user |-> user.config
    message,           \* table message
    inbox,             \* table message_user: <<message, user>>
    read,              \* the rows of inbox that have has_read
    sender,            \* Senders |-> where a handler is and its locals
    follow,            \* Follows |-> the same
    setting,           \* Settings |-> the same
    recipients,        \* history: post |-> the users its queries found
    broken,            \* history: posts one of whose steps of sending failed
    removal,           \* history: floors a removal of messages has begun for
    late,              \* history: messages stored after that
    purged,            \* history: there was a purge of messages
    overlaps,          \* history: subscriptions changed beside one another
    asked,             \* history: user |-> the settings asked for last
    changed,           \* history: users whose settings were written
    raced              \* history: users whose settings were changed twice at once

tables == <<floor, subscribed, replica, subscriptionCount, config, message, inbox, read>>

history == <<recipients, broken, removal, late, purged, overlaps, asked, changed,
             raced>>

vars == <<tables, sender, follow, setting, history>>

\* What a post found of the author of the hole and of the subscribers.
Recipients == [author : SUBSET {Owner}, subscribers : SUBSET Users]

NoFloor == [state |-> "none", by |-> None, mention |-> {}, sensitive |-> FALSE]

Row == [state : {"none", "live", "deleted"}, by : Users \cup {None},
        mention : SUBSET Floors, sensitive : BOOLEAN]

Types == {"reply", "mention", "favorite", "modify", "sensitive", "mail"}

Message == [about : Floors \cup {None}, type : Types, from : Senders]

New == [step |-> "new"]

Done == [step |-> "done"]

\* A handler with messages to send; the head of its queue may be checked.
Sending(f, queue) == [step |-> "send", floor |-> f, queue |-> queue]

\* A handler that changes a subscription or settings: what it has read, and
\* whether another one of the same user wrote since.
Follow ==
    [step : {"new", "done"}]
    \cup [step : {"write"}, user : Followers, add : BOOLEAN, exists : BOOLEAN,
          beside : BOOLEAN]

Setting ==
    [step : {"new", "done"}]
    \cup [step : {"write"}, user : Setters, change : Changes, config : Config,
          beside : BOOLEAN]

At(h, step) == sender[h].step = step

To(h, q) == sender' = [sender EXCEPT ![h] = q]

Note(type, to) == [type |-> type, to |-> to]

-----------------------------------------------------------------------------
(* A new floor *)

\* Floor.Create: the transaction.  The authors of the floors it mentions were
\* read before it and do not change.
CreateFloor(p, u, S, sensitive) ==
    /\ At(p, "new")
    /\ \A f \in S : floor[f].state # "none"
    /\ floor' = [floor EXCEPT ![p] = [state |-> "live", by |-> u, mention |-> S,
                                      sensitive |-> sensitive]]
    /\ To(p, [step |-> "created"])
    /\ UNCHANGED <<subscribed, replica, subscriptionCount, config, message, inbox, read,
                   follow, setting, history>>

\* How often the floor p mentions floors of user u.
Mentions(p, u) == Cardinality({f \in floor[p].mention : floor[f].by = u})

\* SendReply, SendMention and SendSubscription leave the poster out: A is the
\* author of the hole and S its subscribers, as the queries found them.
SendReply(p, A) == Note("reply", SetToBag(A \ {floor[p].by}))

SendMention(p) ==
    LET users == {floor[f].by : f \in floor[p].mention} \ {floor[p].by}
    IN Note("mention", [u \in users |-> Mentions(p, u)])

SendSubscription(p, S) == Note("favorite", SetToBag(S \ {floor[p].by}))

\* How often a user is among the recipients of a message.
Copies(u, to) == IF u \in BagToSet(to) THEN to[u] ELSE 0

\* The places at which a user stands in the lists of recipients.
Places(messages, u) ==
    UNION {{i} \X (1..Copies(u, messages[i].to)) : i \in DOMAIN messages}

\* Mutant: recipients of earlier messages are kept.
MergeAll(messages, note) ==
    IF BagToSet(note.to) = {} THEN messages ELSE Append(messages, note)

\* Notifications.Merge: every recipient of an earlier message takes one
\* occurrence of the user from the new one.
Merge(messages, note) ==
    LET left(u) == Copies(u, note.to) - Cardinality(Places(messages, u))
        users == {u \in BagToSet(note.to) : left(u) > 0}
    IN IF users = {} THEN messages
       ELSE Append(messages, [note EXCEPT !.to = [u \in users |-> left(u)]])

\* Mutant: subscribers come before mentions.
AnnouncementsSwapped(p, A, S) ==
    Merge(Merge(Merge(<<>>, SendReply(p, A)), SendSubscription(p, S)), SendMention(p))

\* What Create has to send for a floor that the check let pass.
Announcements(p, A, S) ==
    Merge(Merge(Merge(<<>>, SendReply(p, A)), SendMention(p)), SendSubscription(p, S))

\* A floor that was stopped is shown to the admins instead.  A query that fails,
\* or a replica that lacks the row of the hole, leaves a post without those
\* recipients, and it goes on.
Collect(p) ==
    /\ At(p, "created")
    /\ \/ /\ floor[p].sensitive
          /\ To(p, Sending(p, Merge(<<>>, Note("sensitive", SetToBag(AdminList)))))
          /\ UNCHANGED <<recipients, broken>>
       \/ /\ ~ floor[p].sensitive
          /\ \E A \in {{Owner}, {}}, S \in {subscribed, replica, {}} :
                /\ To(p, Sending(p, Announcements(p, A, S)))
                /\ recipients' = [recipients EXCEPT ![p] = [author |-> A, subscribers |-> S]]
                /\ broken' = IF A = {Owner} /\ S \in {subscribed, replica} THEN broken
                             ELSE broken \cup {p}
    /\ UNCHANGED <<tables, follow, setting, removal, late, purged, overlaps, asked,
                   changed, raced>>

-----------------------------------------------------------------------------
(* Sending *)

\* checkConfig: a list of distinct users; what has no switch is always sent.
Wanting(note) ==
    {u \in BagToSet(note.to) :
        note.type \in Switchable => note.type \in config[u].notify}

\* The handler goes on with the messages after the first.
Next1(h) ==
    IF Len(sender[h].queue) = 1 THEN Done
    ELSE Sending(sender[h].floor, Tail(sender[h].queue))

\* Nothing to send, or the first message is for nobody who wants it, or its
\* recipients could not be read.
Skip(h) ==
    /\ At(h, "send")
    /\ \/ /\ sender[h].queue = <<>>
          /\ To(h, Done)
          /\ UNCHANGED broken
       \/ /\ sender[h].queue # <<>>
          /\ To(h, Next1(h))
          /\ \/ /\ Wanting(Head(sender[h].queue)) = {}
                /\ UNCHANGED broken
             \/ broken' = broken \cup {h}
    /\ UNCHANGED <<tables, follow, setting, recipients, removal, late, purged,
                   overlaps, asked, changed, raced>>

CheckConfig(h) ==
    /\ At(h, "send")
    /\ sender[h].queue # <<>>
    /\ Wanting(Head(sender[h].queue)) # {}
    /\ To(h, [step |-> "store", floor |-> sender[h].floor, queue |-> sender[h].queue,
              to |-> Wanting(Head(sender[h].queue))])
    /\ UNCHANGED <<tables, follow, setting, history>>

\* Create and its hook AfterCreate, in one transaction.
Stored(m, S) ==
    /\ message' = message \cup {m}
    /\ inbox' = inbox \cup ({m} \X S)

\* A message is stored, and then posted or not: an error ends the list.
Store(h) ==
    LET m == [about |-> sender[h].floor, type |-> Head(sender[h].queue).type,
              from |-> h]
    IN /\ At(h, "store")
       /\ Stored(m, sender[h].to)
       /\ late' = IF m.about \in removal THEN late \cup {m} ELSE late
       /\ \/ /\ To(h, Next1(h))
             /\ UNCHANGED broken
          \/ /\ To(h, Done)
             /\ broken' = broken \cup {h}
       /\ UNCHANGED <<floor, subscribed, replica, subscriptionCount, config, read, follow,
                      setting, recipients, removal, purged, overlaps, asked,
                      changed, raced>>

\* The message cannot be stored.
FailStore(h) ==
    /\ At(h, "store")
    /\ To(h, Done)
    /\ broken' = broken \cup {h}
    /\ UNCHANGED <<tables, follow, setting, recipients, removal, late, purged,
                   overlaps, asked, changed, raced>>

-----------------------------------------------------------------------------
(* Removing and editing floors; mails *)

\* The row of the floor is locked.
Locked(f) == \E x \in Tasks : At(x, "remove") /\ sender[x].floor = f

\* Up to the ids of the messages, in DeleteFloor by the author or an admin, or
\* in ModifyFloorSensitive when an admin finds against the floor.
PluckMessages(x, u, f, review) ==
    /\ At(x, "new")
    /\ floor[f].state # "none" /\ ~ Locked(f)
    /\ \/ u \in Admins
       \/ ~ review /\ u = floor[f].by /\ floor[f].state = "live"
    /\ To(x, [step |-> "remove", floor |-> f, tell |-> ~ review /\ u # floor[f].by,
              found |-> {m \in message : m.about = f}])
    /\ removal' = removal \cup {f}
    /\ UNCHANGED <<tables, follow, setting, recipients, broken, late, purged,
                   overlaps, asked, changed, raced>>

\* deleteMessagesByCondition, the two deletes; they cascade.
Dropped(M) ==
    /\ message' = message \ M
    /\ inbox' = {i \in inbox : i[1] \notin M}
    /\ read' = {i \in read : i[1] \notin M}

\* Mutant: the messages of the floor are left.
RemoveFloorOnly(x) ==
    /\ At(x, "remove")
    /\ UNCHANGED <<message, inbox, read>>
    /\ floor' = [floor EXCEPT ![sender[x].floor].state = "deleted"]
    /\ To(x, Done)
    /\ UNCHANGED <<subscribed, replica, subscriptionCount, config, follow, setting, history>>

\* The commit; DeleteFloor by an admin goes on with SendModify.
RemoveFloor(x) ==
    LET f == sender[x].floor
    IN /\ At(x, "remove")
       /\ Dropped(sender[x].found)
       /\ floor' = [floor EXCEPT ![f].state = "deleted"]
       /\ To(x, IF sender[x].tell
                THEN Sending(f, <<Note("modify", SetToBag({floor[f].by}))>>)
                ELSE Done)
       /\ UNCHANGED <<subscribed, replica, subscriptionCount, config, follow, setting,
                      history>>

\* The transaction is rolled back.
FailRemove(x) ==
    /\ At(x, "remove")
    /\ To(x, Done)
    /\ UNCHANGED <<tables, follow, setting, history>>

\* ModifyFloor by an admin who is not the author.
EditFloor(x, u, f) ==
    /\ At(x, "new")
    /\ u \in Admins /\ floor[f].state # "none" /\ u # floor[f].by /\ ~ Locked(f)
    /\ To(x, Sending(f, <<Note("modify", SetToBag({floor[f].by}))>>))
    /\ UNCHANGED <<tables, follow, setting, history>>

\* SendMail by an admin.
SendMail(x, S) ==
    /\ At(x, "new")
    /\ To(x, Sending(None, <<Note("mail", SetToBag(S))>>))
    /\ UNCHANGED <<tables, follow, setting, history>>

-----------------------------------------------------------------------------
(* Reading and purging *)

\* DeleteMessage marks one message as read, ClearMessages all of the user's.
DeleteMessage(u, m) ==
    /\ <<m, u>> \in inbox
    /\ read' = read \cup {<<m, u>>}
    /\ UNCHANGED <<floor, subscribed, replica, subscriptionCount, config, message, inbox,
                   sender, follow, setting, history>>

ClearMessages(u) ==
    /\ read' = read \cup {i \in inbox : i[2] = u}
    /\ UNCHANGED <<floor, subscribed, replica, subscriptionCount, config, message, inbox,
                   sender, follow, setting, history>>

\* purgeMessage: messages grown old, those of finished handlers.
PurgeMessage ==
    \E M \in SUBSET {m \in message : At(m.from, "done")} :
        /\ M # {}
        /\ Dropped(M)
        /\ purged' = TRUE
        /\ UNCHANGED <<floor, subscribed, replica, subscriptionCount, config, sender, follow,
                       setting, recipients, broken, removal, late, overlaps, asked,
                       changed, raced>>

-----------------------------------------------------------------------------
(* Subscriptions *)

\* AddUserSubscription and RemoveUserSubscription: the count of rows.
CheckSubscription(s, u, add) ==
    /\ follow[s].step = "new"
    /\ follow' = [follow EXCEPT ![s] = [step |-> "write", user |-> u, add |-> add,
                                        exists |-> u \in subscribed, beside |-> FALSE]]
    /\ UNCHANGED <<tables, sender, setting, history>>

\* The others of the user that have read what s is about to change.
Beside(s) == {t \in Follows \ {s} : /\ follow[t].step = "write"
                                    /\ follow[t].user = follow[s].user}

\* s has written: those beside it go on with what they read.
Passed(s) == [t \in Follows |->
                IF t = s THEN Done
                ELSE IF t \in Beside(s) THEN [follow[t] EXCEPT !.beside = TRUE]
                ELSE follow[t]]

Overlapped(s) == IF follow[s].beside THEN 1 ELSE 0

\* Mutant: a repeated subscription is counted.
AddUserSubscriptionAgain(s) ==
    /\ follow[s].step = "write" /\ follow[s].add
    /\ subscribed' = subscribed \cup {follow[s].user}
    /\ subscriptionCount' = subscriptionCount + 1
    /\ follow' = Passed(s)
    /\ overlaps' = overlaps + Overlapped(s)
    /\ UNCHANGED <<floor, replica, config, message, inbox, read, sender, setting,
                   recipients, broken, removal, late, purged, asked, changed, raced>>

\* The row is inserted or has its time refreshed.
AddUserSubscription(s) ==
    /\ follow[s].step = "write" /\ follow[s].add
    /\ subscribed' = subscribed \cup {follow[s].user}
    /\ subscriptionCount' = subscriptionCount + (IF follow[s].exists THEN 0 ELSE 1)
    /\ follow' = Passed(s)
    /\ overlaps' = overlaps + Overlapped(s)
    /\ UNCHANGED <<floor, replica, config, message, inbox, read, sender, setting,
                   recipients, broken, removal, late, purged, asked, changed, raced>>

RemoveUserSubscription(s) ==
    /\ follow[s].step = "write" /\ ~ follow[s].add
    /\ IF follow[s].exists
       THEN /\ subscribed' = subscribed \ {follow[s].user}
            /\ subscriptionCount' = subscriptionCount - 1
            /\ follow' = Passed(s)
       ELSE /\ follow' = [follow EXCEPT ![s] = Done]
            /\ UNCHANGED <<subscribed, subscriptionCount>>
    /\ overlaps' = overlaps + Overlapped(s)
    /\ UNCHANGED <<floor, replica, config, message, inbox, read, sender, setting,
                   recipients, broken, removal, late, purged, asked, changed, raced>>

\* The transaction fails; DeleteSubscription answers as if it had not.
FailSubscription(s) ==
    /\ follow[s].step = "write"
    /\ follow' = [follow EXCEPT ![s] = Done]
    /\ UNCHANGED <<tables, sender, setting, history>>

\* The replica has applied what was committed on the primary.
CatchUp ==
    /\ replica' = subscribed
    /\ UNCHANGED <<floor, subscribed, subscriptionCount, config, message, inbox, read,
                   sender, follow, setting, history>>

-----------------------------------------------------------------------------
(* Settings *)

\* The settings with the fields that a body gives.
With(old, change) ==
    [notify |-> IF change.notify = Keep THEN old.notify ELSE change.notify,
     folded |-> IF change.folded = Keep THEN old.folded ELSE change.folded]

\* modifyUser: the column is read ...
ReadConfig(c, u, change) ==
    /\ setting[c].step = "new"
    /\ setting' = [setting EXCEPT ![c] =
                     [step |-> "write", user |-> u, change |-> change,
                      config |-> With(config[u], change), beside |-> FALSE]]
    /\ UNCHANGED <<tables, sender, follow, history>>

\* ... and written as a whole.
Written(c) == setting[c].config

WriteConfig(c) ==
    LET u == setting[c].user
    IN /\ setting[c].step = "write"
       /\ config' = [config EXCEPT ![u] = Written(c)]
       /\ setting' = [d \in Settings |->
                        IF d = c THEN Done
                        ELSE IF setting[d].step = "write" /\ setting[d].user = u
                             THEN [setting[d] EXCEPT !.beside = TRUE]
                        ELSE setting[d]]
       /\ asked' = [asked EXCEPT ![u] = With(asked[u], setting[c].change)]
       /\ changed' = changed \cup {u}
       /\ raced' = IF setting[c].beside THEN raced \cup {u} ELSE raced
       /\ UNCHANGED <<floor, subscribed, replica, subscriptionCount, message, inbox, read,
                      sender, follow, recipients, broken, removal, late, purged,
                      overlaps>>

-----------------------------------------------------------------------------
Init ==
    /\ floor = [f \in Floors |->
                  IF f \in OldFloors
                  THEN [state |-> "live", by |-> OldAuthor[f], mention |-> {},
                        sensitive |-> FALSE]
                  ELSE NoFloor]
    /\ subscribed = {} /\ replica = {} /\ subscriptionCount = 0
    /\ config = FirstConfig
    /\ message = {} /\ inbox = {} /\ read = {}
    /\ sender = [h \in Senders |-> New]
    /\ follow = [s \in Follows |-> New]
    /\ setting = [c \in Settings |-> New]
    /\ recipients = [p \in Posts |-> [author |-> {}, subscribers |-> {}]]
    /\ broken = {} /\ removal = {} /\ late = {} /\ purged = FALSE
    /\ overlaps = 0
    /\ asked = FirstConfig /\ changed = {} /\ raced = {}

Send(h) == Skip(h) \/ CheckConfig(h) \/ Store(h) \/ FailStore(h)

Post(p) ==
    \/ \E u \in Users, S \in SUBSET OldFloors, b \in BOOLEAN : CreateFloor(p, u, S, b)
    \/ Collect(p)

Task(x) ==
    \/ \E u \in Users, f \in Floors :
          \/ \E review \in BOOLEAN : PluckMessages(x, u, f, review)
          \/ EditFloor(x, u, f)
    \/ RemoveFloor(x) \/ FailRemove(x)
    \/ \E S \in Mails : SendMail(x, S)

Subscribe(s) ==
    \/ \E u \in Followers, add \in BOOLEAN : CheckSubscription(s, u, add)
    \/ AddUserSubscription(s) \/ RemoveUserSubscription(s) \/ FailSubscription(s)

ModifyUser(c) ==
    \/ \E u \in Setters, change \in Changes : ReadConfig(c, u, change)
    \/ WriteConfig(c)

Read(u) == ClearMessages(u) \/ \E m \in message : DeleteMessage(u, m)

Next ==
    \/ \E h \in Senders : Send(h)
    \/ \E p \in Posts : Post(p)
    \/ \E x \in Tasks : Task(x)
    \/ \E s \in Follows : Subscribe(s)
    \/ \E c \in Settings : ModifyUser(c)
    \/ \E u \in Readers : Read(u)
    \/ CatchUp
    \/ PurgeMessage

Spec == Init /\ [][Next]_vars

-----------------------------------------------------------------------------
(* Properties *)

\* Messages to send: a sequence of them, for users.
IsNote(n) == n.type \in Types /\ BagToSet(n.to) \subseteq Users

IsQueue(q) ==
    /\ q \in Seq({q[i] : i \in DOMAIN q})
    /\ \A i \in 1..Len(q) : IsNote(q[i])

SenderOK(h) ==
    /\ sender[h].step \in {"new", "created", "remove", "send", "store", "done"}
    /\ At(h, "created") => h \in Posts
    /\ At(h, "remove") => sender[h].floor \in Floors /\ floor[sender[h].floor].state # "none"
    /\ At(h, "send") \/ At(h, "store") =>
          sender[h].floor \in Floors \cup {None} /\ IsQueue(sender[h].queue)
    /\ At(h, "store") => sender[h].queue # <<>> /\ sender[h].to \in (SUBSET Users) \ {{}}

\* A floor that is there has an author, and so have those it mentions.
FloorsOK ==
    \A f \in Floors :
        /\ floor[f].state # "none" => floor[f].by \in Users
        /\ \A g \in floor[f].mention : floor[g].state # "none"

\* Rows, settings and what the handlers hold have the types of their columns.
TypeOK ==
    /\ floor \in [Floors -> Row] /\ FloorsOK
    /\ subscribed \subseteq Users /\ replica \subseteq Users /\ subscriptionCount \in Int
    /\ config \in [Users -> Config] /\ asked \in [Users -> Config]
    /\ message \subseteq Message
    /\ DOMAIN sender = Senders /\ \A h \in Senders : SenderOK(h)
    /\ follow \in [Follows -> Follow]
    /\ setting \in [Settings -> Setting]
    /\ overlaps \in Nat
    /\ recipients \in [Posts -> Recipients]

\* What of the floor p the user u was told by its announcement.
Told(p, u) == {m.type : m \in {n \in message : n.from = p /\ <<n, u>> \in inbox}}

\* A floor is announced to a user once, under one type: only the author of the
\* hole, who hears of a reply, hears of it again if it mentions two of his floors
\* (Merge takes one occurrence per earlier message); the poster hears nothing.
HeardOnce ==
    \A p \in Posts, u \in Users :
        /\ Cardinality(Told(p, u)) > 1 =>
              u = Owner /\ Mentions(p, u) > 1 /\ Told(p, u) = {"reply", "mention"}
        /\ u = floor[p].by /\ u \notin AdminList => Told(p, u) = {}

\* When the handler of a floor that was let pass is done and no step of sending
\* failed, the queries for the recipients included, everybody has been told under
\* the first of reply, mention and subscription that fits - unless that type is
\* switched off: a subscriber who is mentioned and has switched off mentions is
\* not told at all.  The subscribers are those the query found.
EveryoneTold ==
    \A p \in Posts, u \in Users :
        /\ At(p, "done") /\ p \notin broken /\ p \notin removal /\ ~ purged
        /\ ~ floor[p].sensitive /\ u \notin changed /\ u # floor[p].by
        => Told(p, u) =
             IF u = Owner
             THEN {"reply"} \cup {t \in {"mention"} : /\ Mentions(p, u) > 1
                                                      /\ t \in config[u].notify}
             ELSE IF Mentions(p, u) > 0 THEN {"mention"} \cap config[u].notify
             ELSE IF u \in recipients[p].subscribers THEN {"favorite"} \cap config[u].notify
             ELSE {}

\* A message and its recipients come and go together, none is without the
\* other, and only what was received is read.
InboxWhole ==
    /\ \A m \in message : \E u \in Users : <<m, u>> \in inbox
    /\ inbox \subseteq message \X Users
    /\ read \subseteq inbox

\* Once a floor is deleted there are no messages about it, but those stored
\* after its removal had looked for them: the notice to its author, and the
\* announcements of a handler still at work.
DeletedFloorsForgotten ==
    \A m \in message : m.about \in Floors /\ floor[m.about].state = "deleted" => m \in late

\* The number of subscriptions is wrong by at most the number of requests that
\* went on with what they had read before another of the same user wrote.
SubscriptionsCounted ==
    subscriptionCount - Cardinality(subscribed) \in (- overlaps) .. overlaps

\* A user has the settings asked for last, field by field, unless two requests
\* changed them at the same time and one wrote back what it had read.
SettingsKept == \A u \in Users : config[u] # asked[u] => u \in raced

-----------------------------------------------------------------------------
(* The inductive invariant *)

\* What a request has read is so until another of the same user writes.
FollowInv ==
    \A s \in Follows : follow[s].step = "write" /\ ~ follow[s].beside =>
        (follow[s].exists <=> follow[s].user \in subscribed)

SettingInv ==
    \A c \in Settings : setting[c].step = "write" /\ ~ setting[c].beside =>
        setting[c].config = With(config[setting[c].user], setting[c].change)

\* A removal knows every message of its floor but those that came late.
RemovalInv ==
    /\ \A f \in Floors : floor[f].state = "deleted" => f \in removal
    /\ \A x \in Senders : At(x, "remove") =>
          /\ sender[x].floor \in removal
          /\ \A m \in sender[x].found : m.about = sender[x].floor
          /\ \A m \in message : m.about = sender[x].floor =>
                 m \in sender[x].found \cup late

\* The types under which the floor p is to be announced to the user u, whatever
\* the user has switched off.
Hears(p, u) ==
    IF floor[p].sensitive THEN {t \in {"sensitive"} : u \in AdminList}
    ELSE IF u = floor[p].by THEN {}
    ELSE IF u \in recipients[p].author
         THEN {"reply"} \cup {t \in {"mention"} : Mentions(p, u) > 1}
    ELSE IF Mentions(p, u) > 0 THEN {"mention"}
    ELSE {t \in {"favorite"} : u \in recipients[p].subscribers}

Wants(u, t) == t \in Switchable => t \in config[u].notify

\* The types a handler has still to send.
TypesOf(queue) == {queue[i].type : i \in DOMAIN queue}

Pending(p) ==
    IF At(p, "send") \/ At(p, "store") THEN TypesOf(sender[p].queue) ELSE {}

\* Each type of message is queued once, for those who are to hear of it.
QueueInv(p) ==
    LET queue == sender[p].queue
    IN /\ sender[p].floor = p
       /\ \A i, j \in 1..Len(queue) : queue[i].type = queue[j].type => i = j
       /\ \A i \in 1..Len(queue), u \in Users :
             u \in BagToSet(queue[i].to) <=> queue[i].type \in Hears(p, u)

\* So far a user was told, of what there is to hear, what is no longer queued -
\* nothing else, and no less if every step went well.
ToldInv(p, u) ==
    LET told == Told(p, u)
        due == Hears(p, u) \ Pending(p)
    IN /\ told \subseteq due
       /\ At(p, "new") \/ At(p, "created") => told = {}
       /\ u \notin changed => \A t \in told : Wants(u, t)
       /\ ~ (At(p, "new") \/ At(p, "created") \/ p \in broken \cup removal \/ purged
             \/ u \in changed)
          => \A t \in due : Wants(u, t) => t \in told

\* A message about to be stored is for those of its recipients who want it.
ToInv(p, u) ==
    LET n == Head(sender[p].queue)
    IN /\ u \in sender[p].to => u \in BagToSet(n.to)
       /\ u \notin changed => (u \in sender[p].to <=> u \in BagToSet(n.to) /\ Wants(u, n.type))

\* A post that sends, of which no step failed, has found the author of the hole.
AuthorInv(p) ==
    \/ At(p, "new") \/ At(p, "created") \/ p \in broken \/ floor[p].sensitive
    \/ recipients[p].author = {Owner}

PostInv(p) ==
    /\ ~ At(p, "remove") /\ AuthorInv(p)
    /\ floor[p].mention \subseteq OldFloors
    /\ \A m \in message : m.from = p => m.about = p
    /\ At(p, "send") \/ At(p, "store") => QueueInv(p)
    /\ \A u \in Users : ToldInv(p, u) /\ (At(p, "store") => ToInv(p, u))

IInv ==
    /\ TypeOK
    /\ InboxWhole /\ DeletedFloorsForgotten /\ RemovalInv
    /\ SubscriptionsCounted /\ FollowInv
    /\ SettingsKept /\ SettingInv
    /\ \A p \in Posts : PostInv(p)
=============================================================================

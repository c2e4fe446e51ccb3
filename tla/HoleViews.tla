----------------------------- MODULE HoleViews -----------------------------
(***************************************************************************)
(* Views of holes.  A PatchHole handler puts the id into a bounded channel *)
(* and answers.  One task per process takes the ids out, adds them up in a *)
(* map, and each minute turns the map into one UPDATE, emptying it before  *)
(* it knows whether the statement succeeds.  At the end main waits for the *)
(* handlers, cancels the task and returns: the last flush of the task runs *)
(* against the end of the process.                                         *)
(***************************************************************************)
EXTENDS Integers, Sequences, FiniteSets

CONSTANTS
    Holes,     \* ids that requests name
    Rows,      \* those of them that are in the table
    Requests,  \* PatchHole handlers, each for one view
    MaxChan,   \* capacity of holeViewsChan, 1000 in the code
    None

ASSUME ChanAssumption == MaxChan \in Nat \ {0}

ASSUME RowsAssumption == Rows \subseteq Holes

ASSUME NoneAssumption == None \notin Holes

VARIABLES
    view,       \* hole.view
    channel,    \* holeViewsChan
    holeViews,  \* the map: views counted and not yet in a statement
    task,       \* where UpdateHoleViews is
    statement,  \* views in the UPDATE that is running
    ticked,     \* whether ticker.C holds a tick; it holds one at most
    server,     \* where main is
    patch,      \* handler |-> where it is, and its hole
    seen,       \* history: views the channel accepted
    nowhere,    \* history: views stored for a hole that does not exist
    failed,     \* history: views in statements that failed
    dropped     \* history: views in memory when the process ended

lost == <<nowhere, failed, dropped>>

vars == <<view, channel, holeViews, task, statement, ticked, server,
          patch, seen, lost>>

Counts == [Holes -> Nat]

Zero == [h \in Holes |-> 0]

Handler == [step : {"new", "sending", "answered", "broken"},
            hole : Holes \cup {None}]

InChannel(h) == Cardinality({i \in DOMAIN channel : channel[i] = h})

\* Pointwise sum.
Plus(f, g) == [h \in Holes |-> f[h] + g[h]]

Only(S, f) == [h \in Holes |-> IF h \in S THEN f[h] ELSE 0]

Running == server # "down"

-----------------------------------------------------------------------------
(* Handlers *)

\* PatchHole parses the id; it does not ask whether the hole exists.
PatchHole(r, h) ==
    /\ server = "up"
    /\ patch[r].step = "new"
    /\ patch' = [patch EXCEPT ![r] = [step |-> "sending", hole |-> h]]
    /\ UNCHANGED <<view, channel, holeViews, task, statement, ticked,
                   server, seen, lost>>

\* holeViewsChan <- holeID, which waits while the channel is full.
Send(r) ==
    LET h == patch[r].hole
    IN /\ Running
       /\ patch[r].step = "sending"
       /\ Len(channel) < MaxChan
       /\ channel' = Append(channel, h)
       /\ patch' = [patch EXCEPT ![r].step = "answered"]
       /\ seen' = [seen EXCEPT ![h] = @ + 1]
       /\ UNCHANGED <<view, holeViews, task, statement, ticked, server, lost>>

-----------------------------------------------------------------------------
(* The task *)

\* A tick that comes while the last one waits is dropped.
Tick ==
    /\ Running
    /\ ticked' = TRUE
    /\ UNCHANGED <<view, channel, holeViews, task, statement, server,
                   patch, seen, lost>>

\* case holeID := <-holeViewsChan
Take ==
    /\ Running
    /\ task = "select"
    /\ channel # << >>
    /\ holeViews' = [holeViews EXCEPT ![Head(channel)] = @ + 1]
    /\ channel' = Tail(channel)
    /\ UNCHANGED <<view, task, statement, ticked, server, patch, seen, lost>>

\* Mutant: the keys are not deleted while the statement is built.
BuildKeeping(busy, idle) ==
    /\ task' = IF holeViews = Zero THEN idle ELSE busy
    /\ statement' = holeViews
    /\ UNCHANGED holeViews

\* Mutant: length <= 1 instead of length == 0.
BuildUnlessOne(busy, idle) ==
    IF Cardinality({h \in Holes : holeViews[h] > 0}) <= 1
    THEN task' = idle /\ UNCHANGED <<statement, holeViews>>
    ELSE task' = busy /\ statement' = holeViews /\ holeViews' = Zero

\* updateHoleViews up to its Exec: the map moves into the statement.
Build(busy, idle) ==
    /\ task' = IF holeViews = Zero THEN idle ELSE busy
    /\ statement' = holeViews
    /\ holeViews' = Zero

\* case <-ticker.C
Flush ==
    /\ Running
    /\ task = "select"
    /\ ticked
    /\ ticked' = FALSE
    /\ Build("writing", "select")
    /\ UNCHANGED <<view, channel, server, patch, seen, lost>>

\* case <-ctx.Done(): what is still in the channel is not looked at.
Done ==
    /\ server = "cancelled"
    /\ task = "select"
    /\ Build("last", "stopped")
    /\ UNCHANGED <<view, channel, ticked, server, patch, seen, lost>>

\* Where the task goes on after the statement, an error is only logged.
Resumed(error) == IF task = "writing" THEN "select" ELSE "stopped"

\* The UPDATE adds what it was built with, to the rows that are there.
Execute ==
    /\ view' = Plus(view, Only(Rows, statement))
    /\ nowhere' = Plus(nowhere, Only(Holes \ Rows, statement))

\* The statement is executed.  If its answer is lost the task logs an error
\* and goes on in the same way.
Store ==
    /\ Running
    /\ task \in {"writing", "last"}
    /\ Execute
    /\ statement' = Zero
    /\ task' = Resumed(FALSE)
    /\ UNCHANGED <<channel, holeViews, ticked, server, patch, seen,
                   failed, dropped>>

\* The statement fails and is not tried again.
FailStore ==
    /\ Running
    /\ task \in {"writing", "last"}
    /\ failed' = Plus(failed, statement)
    /\ statement' = Zero
    /\ task' = Resumed(TRUE)
    /\ UNCHANGED <<view, channel, holeViews, ticked, server, patch, seen,
                   nowhere, dropped>>

-----------------------------------------------------------------------------
(* The process *)

\* A signal: app.Shutdown() refuses new requests from here on.
Shutdown ==
    /\ server = "up"
    /\ server' = "closing"
    /\ UNCHANGED <<view, channel, holeViews, task, statement, ticked,
                   patch, seen, lost>>

\* app.Shutdown() returns once every handler has answered; cancel().
Cancel ==
    /\ server = "closing"
    /\ \A r \in Requests : patch[r].step # "sending"
    /\ server' = "cancelled"
    /\ UNCHANGED <<view, channel, holeViews, task, statement, ticked,
                   patch, seen, lost>>

\* app.Shutdown() fails, which is logged; cancel().
FailShutdown ==
    /\ server = "closing"
    /\ server' = "cancelled"
    /\ UNCHANGED <<view, channel, holeViews, task, statement, ticked,
                   patch, seen, lost>>

\* The process ends: memory is gone, and handlers that have not answered
\* break off.  A statement on its way is executed or not.
End(executed) ==
    /\ server' = "down"
    /\ \/ /\ executed
          /\ Execute
          /\ dropped' = [h \in Holes |-> dropped[h] + holeViews[h] + InChannel(h)]
       \/ /\ ~ executed
          /\ dropped' = [h \in Holes |-> dropped[h] + holeViews[h] + InChannel(h)
                                           + statement[h]]
          /\ UNCHANGED <<view, nowhere>>
    /\ channel' = << >>
    /\ holeViews' = Zero
    /\ statement' = Zero
    /\ ticked' = FALSE
    /\ task' = "stopped"
    /\ patch' = [r \in Requests |->
                   IF patch[r].step = "sending" THEN [patch[r] EXCEPT !.step = "broken"]
                   ELSE patch[r]]
    /\ UNCHANGED <<seen, failed>>

\* main returns after cancel(), whether the task has stopped or not.
Exit(executed) ==
    /\ server = "cancelled"
    /\ End(executed)

\* Killed, or log.Fatal.
Crash(executed) ==
    /\ server \in {"up", "closing"}
    /\ End(executed)

\* main, with the task started by startTasks.
Start ==
    /\ server = "down"
    /\ server' = "up"
    /\ task' = "select"
    /\ UNCHANGED <<view, channel, holeViews, statement, ticked, patch,
                   seen, lost>>

-----------------------------------------------------------------------------

Init ==
    /\ view = Zero
    /\ channel = << >>
    /\ holeViews = Zero
    /\ task = "stopped"
    /\ statement = Zero
    /\ ticked = FALSE
    /\ server = "down"
    /\ patch = [r \in Requests |-> [step |-> "new", hole |-> None]]
    /\ seen = Zero
    /\ nowhere = Zero
    /\ failed = Zero
    /\ dropped = Zero

Next ==
    \/ \E r \in Requests, h \in Holes : PatchHole(r, h)
    \/ \E r \in Requests : Send(r)
    \/ Tick \/ Take \/ Flush \/ Done \/ Store \/ FailStore
    \/ Shutdown \/ Cancel \/ FailShutdown
    \/ \E executed \in BOOLEAN : Exit(executed) \/ Crash(executed)
    \/ Start

Spec == Init /\ [][Next]_vars

\* The Go runtime runs the task and picks among what is ready at random, so
\* nothing that stays ready is passed over for ever; senders wait in a queue;
\* the ticker ticks; the database answers or the connection breaks; main goes
\* on.  Nothing is assumed of requests, signals, crashes and restarts.
Fairness ==
    /\ \A r \in Requests : SF_vars(Send(r))
    /\ WF_vars(Tick) /\ WF_vars(Take) /\ WF_vars(Flush) /\ WF_vars(Done)
    /\ WF_vars(Store \/ FailStore)
    /\ WF_vars(Cancel)
    /\ WF_vars(\E executed \in BOOLEAN : Exit(executed))

FairSpec == Spec /\ Fairness

-----------------------------------------------------------------------------
(* Properties *)

\* Types; the channel holds no more than it has room for.
TypeOK ==
    /\ channel \in Seq(Holes)
    /\ Len(channel) <= MaxChan
    /\ {view, holeViews, statement, seen, nowhere, failed, dropped} \subseteq Counts
    /\ task \in {"select", "writing", "last", "stopped"}
    /\ ticked \in BOOLEAN
    /\ server \in {"up", "closing", "cancelled", "down"}
    /\ patch \in [Requests -> Handler]
    /\ \A r \in Requests : patch[r].step = "sending" => patch[r].hole \in Holes

\* Every view a handler was told is counted is in exactly one place: stored, in
\* the channel, in the map, in a running statement, or lost in one of three ways:
\* its hole does not exist, its statement failed, the process ended.  In
\* particular it is stored once at most, whatever fails.
ViewsAccounted ==
    \A h \in Holes :
        seen[h] = view[h] + nowhere[h] + failed[h] + dropped[h]
                    + statement[h] + holeViews[h] + InChannel(h)

\* A task that has stopped while the process still runs leaves nothing in the map: only
\* the channel is dropped.  A statement is in flight only while the task waits for it.
StopFlushes ==
    /\ task \in {"select", "stopped"} => statement = Zero
    /\ task \in {"last", "stopped"} => holeViews = Zero
    /\ task \in {"last", "stopped"} => server \in {"cancelled", "down"}
    /\ server = "down" => task = "stopped"

\* PatchHole comes to an end although it may wait for a full channel: the
\* failure of a flush does not stop the task.
HandlersAnswer ==
    \A r \in Requests : patch[r].step = "sending" ~> patch[r].step # "sending"

\* Views do not stay in memory: they are stored or lost in the ways above.
ViewsLeaveMemory ==
    \A h \in Holes : holeViews[h] + statement[h] > 0 ~> holeViews[h] + statement[h] = 0

\* A server told to stop does stop, though it waits for handlers that wait for
\* the channel that the task empties.
ShutdownEnds == server = "closing" ~> server = "down"

\* Handlers, the task and main wait for one another, but never for ever.
NothingWaitsForEver == HandlersAnswer /\ ViewsLeaveMemory /\ ShutdownEnds

\* The inductive invariant.
IInv == TypeOK /\ ViewsAccounted /\ StopFlushes

-----------------------------------------------------------------------------
(* The promise to readers of the number *)

VC == INSTANCE ViewCounter WITH
        waiting <- [h \in Holes |-> holeViews[h] + InChannel(h)],
        batch <- statement,
        lost <- [h \in Holes |-> nowhere[h] + failed[h] + dropped[h]]

\* Whatever the task, the database and the process do, the number of a hole grows
\* by whole batches of accepted views, each view in one batch at most.
ImplementsCounter == VC!Spec
=============================================================================

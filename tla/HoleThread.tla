---------------------------- MODULE HoleThread -----------------------------
(***************************************************************************)
(* What a hole promises its readers: a thread that is opened once, grows   *)
(* by one floor at its end per reply, and is closed for good.  Locks,      *)
(* handlers, transactions and the name table do not appear here.           *)
(***************************************************************************)
EXTENDS Naturals, Sequences

CONSTANTS Users, Holes, Names

VARIABLES
    thread,     \* hole |-> its floors, first to last
    state       \* hole |-> "absent", "live" or "deleted"

vars == <<thread, state>>

Floor == [user : Users, name : Names, deleted : BOOLEAN]

\* The floors a user has written in a thread, and those under a name.
By(t, u) == {i \in DOMAIN t : t[i].user = u}
Under(t, n) == {i \in DOMAIN t : t[i].name = n}

\* Within a hole a name stands for one user and a user for one name.
Consistent(t, u, n) == By(t, u) = Under(t, n)

Init ==
    /\ thread = [h \in Holes |-> <<>>]
    /\ state = [h \in Holes |-> "absent"]

Open(h, u, n) ==
    /\ state[h] = "absent"
    /\ state' = [state EXCEPT ![h] = "live"]
    /\ thread' = [thread EXCEPT ![h] =
                    <<[user |-> u, name |-> n, deleted |-> FALSE]>>]

Reply(h, u, n) ==
    /\ state[h] = "live"
    /\ Consistent(thread[h], u, n)
    /\ thread' = [thread EXCEPT ![h] =
                    Append(@, [user |-> u, name |-> n, deleted |-> FALSE])]
    /\ UNCHANGED state

Close(h) ==
    /\ state[h] = "live"
    /\ state' = [state EXCEPT ![h] = "deleted"]
    /\ UNCHANGED thread

\* A purge closes several threads at once and blanks every floor in them.
Purge(H) ==
    /\ \A h \in H : state[h] = "live"
    /\ state' = [h \in Holes |-> IF h \in H THEN "deleted" ELSE state[h]]
    /\ thread' = [h \in Holes |->
                    IF h \in H
                    THEN [i \in DOMAIN thread[h] |->
                            [thread[h][i] EXCEPT !.deleted = TRUE]]
                    ELSE thread[h]]

Next ==
    \/ \E h \in Holes, u \in Users, n \in Names : Open(h, u, n) \/ Reply(h, u, n)
    \/ \E h \in Holes : Close(h)
    \/ \E H \in SUBSET Holes : Purge(H)

Spec == Init /\ [][Next]_vars
=============================================================================

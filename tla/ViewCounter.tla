---------------------------- MODULE ViewCounter -----------------------------
(***************************************************************************)
(* What counting views promises: a view that was accepted waits, goes into *)
(* one batch, and the batch is added to its holes as a whole or lost as a  *)
(* whole, once.  The channel, the ticker, the task and the states of the   *)
(* process do not appear here.                                             *)
(***************************************************************************)
EXTENDS Naturals

CONSTANTS
    Holes,
    Rows    \* those of them that are there

VARIABLES
    view,       \* hole |-> its number of views
    waiting,    \* hole |-> views accepted, and in no batch yet
    batch,      \* hole |-> views in the batch that is being stored
    lost        \* hole |-> views that will never be counted

vars == <<view, waiting, batch, lost>>

Zero == [h \in Holes |-> 0]

Init == view = Zero /\ waiting = Zero /\ batch = Zero /\ lost = Zero

Accept(h) ==
    /\ waiting' = [waiting EXCEPT ![h] = @ + 1]
    /\ UNCHANGED <<view, batch, lost>>

\* A batch is made of views that wait, when the last one is settled.
Collect ==
    /\ batch = Zero
    /\ batch' \in [Holes -> Nat]
    /\ \A h \in Holes : batch'[h] <= waiting[h]
    /\ waiting' = [h \in Holes |-> waiting[h] - batch'[h]]
    /\ UNCHANGED <<view, lost>>

\* The batch is stored, for the holes that are there, or not; with it other views
\* that wait may be lost.
Settle(stored, others) ==
    LET kept == IF stored THEN Rows ELSE {}
    IN /\ view' = [h \in Holes |-> view[h] + (IF h \in kept THEN batch[h] ELSE 0)]
       /\ lost' = [h \in Holes |-> lost[h] + others[h]
                                     + (IF h \in kept THEN 0 ELSE batch[h])]
       /\ batch' = Zero
       /\ waiting' = [h \in Holes |-> waiting[h] - others[h]]

\* Its end leaves alone what waits; the end of the process loses all of it.
Next ==
    \/ \E h \in Holes : Accept(h)
    \/ Collect
    \/ \E stored \in BOOLEAN : Settle(stored, Zero) \/ Settle(stored, waiting)

Spec == Init /\ [][Next]_vars
=============================================================================

----------------------------- MODULE BanLedger ------------------------------
(***************************************************************************)
(* What punishing promises admins: a ledger of verdicts.  A verdict is one *)
(* step that finds the ledger as it is and leaves a record, the offence    *)
(* and the end of the ban together.  Handlers, the copies of rows they     *)
(* make, the lock, and where holes are do not appear here.                 *)
(***************************************************************************)
EXTENDS Integers, Sequences, FiniteSets

CONSTANTS Users, Divisions, Excluded, Floors, Author, Reports, Reporter,
          Durations, Forever, None

VARIABLES
    now,
    ends,       \* user |-> division |-> when the ban ends, or None
    offences,   \* user |-> how often the user was punished
    record,     \* floor |-> the verdict for it, or None
    forever,    \* user |-> verdicts of forever, one for each division
    silences,   \* user |-> bans from reporting, in the order of the verdicts
    silent      \* user |-> [until, count] of those bans

vars == <<now, ends, offences, record, forever, silences, silent>>

Init ==
    /\ now = 0
    /\ ends = [u \in Users |-> [d \in Divisions |-> None]]
    /\ offences = [u \in Users |-> 0]
    /\ record = [f \in Floors |-> None]
    /\ forever = [u \in Users |-> 0]
    /\ silences = [u \in Users |-> << >>]
    /\ silent = [u \in Users |-> [until |-> None, count |-> 0]]

\* The first verdict for a floor starts a ban, or adds its days to one.
Convict(f, d, n) ==
    LET u == Author[f]
    IN /\ record[f] = None
       /\ record' = [record EXCEPT ![f] =
            [start |-> now, end |-> now + n, days |-> n, division |-> d]]
       /\ offences' = [offences EXCEPT ![u] = @ + 1]
       /\ ends' = [ends EXCEPT ![u][d] = (IF @ = None THEN now ELSE @) + n]
       /\ UNCHANGED <<now, forever, silences, silent>>

\* A later one changes the record, whichever admin made it, and the ban by the
\* difference; it is no offence.  A ban of no days keeps the days on record.  The
\* comment on models.Punishment says that a record can not be modified if other
\* admins punish on the same floor; Punishment.Create does modify it, and the
\* ledger promises what Create does.
Amend(f, d, n) ==
    LET u == Author[f]
        old == record[f]
    IN /\ old # None
       /\ record' = [record EXCEPT ![f] =
            [start |-> old.start, end |-> old.start + n,
             days |-> IF n = 0 THEN old.days ELSE n, division |-> d]]
       /\ ends' = [ends EXCEPT ![u][d] =
                     IF @ = None THEN old.start + n ELSE @ + (n - old.days)]
       /\ UNCHANGED <<now, offences, forever, silences, silent>>

\* Forever, in every division that may be banned so; each counts.
Exile(u) ==
    LET all == Divisions \ Excluded
    IN /\ offences' = [offences EXCEPT ![u] = @ + Cardinality(all)]
       /\ forever' = [forever EXCEPT ![u] = @ + Cardinality(all)]
       /\ ends' = [ends EXCEPT ![u] =
                     [d \in Divisions |-> IF d \in all THEN now + Forever ELSE @[d]]]
       /\ UNCHANGED <<now, record, silences, silent>>

\* A ban from reporting, once for a report, starts when the last one ends.
Silence(p, n) ==
    LET u == Reporter[p]
        until == silent[u].until
        start == IF until # None /\ until >= now THEN until ELSE now
    IN /\ \A i \in DOMAIN silences[u] : silences[u][i].report # p
       /\ silences' = [silences EXCEPT ![u] =
            Append(@, [report |-> p, start |-> start, end |-> start + n])]
       /\ silent' = [silent EXCEPT ![u] = [until |-> start + n, count |-> @.count + 1]]
       /\ UNCHANGED <<now, ends, offences, record, forever>>

\* Bans from divisions that are over are dropped, all those of a user at once.
Lift(u) ==
    /\ ends' = [ends EXCEPT ![u] =
         [d \in Divisions |-> IF @[d] # None /\ @[d] < now THEN None ELSE @[d]]]
    /\ UNCHANGED <<now, offences, record, forever, silences, silent>>

Pass ==
    /\ now' = now + 1
    /\ UNCHANGED <<ends, offences, record, forever, silences, silent>>

Next ==
    \/ \E f \in Floors, d \in Divisions, n \in Durations :
          Convict(f, d, n) \/ Amend(f, d, n)
    \/ \E p \in Reports, n \in Durations : Silence(p, n)
    \/ \E u \in Users : Exile(u) \/ Lift(u)
    \/ Pass

Spec == Init /\ [][Next]_vars
=============================================================================

----------------------------- MODULE FeedMirror -----------------------------
(***************************************************************************)
(* What a mirror of osv.dev promises of each record, whatever its tables,  *)
(* jobs and downloads: it holds content that was published, moves only to  *)
(* newer content, and catches up with every record that it has not given   *)
(* up.  Of each feed it may give up a few records until they change, and   *)
(* take them up again.                                                     *)
(***************************************************************************)
EXTENDS Integers, FiniteSets

CONSTANTS Osv, Feeds, MaxClock,
    MaxGiven    \* records of one feed that may be given up at a time

VARIABLES
    published,  \* date of the current content of each record
    clock,      \* date of the last publication
    stored,     \* date of the content the mirror has, 0 for none
    given       \* given[f]: records whose current content is given up in feed f

vars == <<published, clock, stored, given>>

Init ==
    /\ published = [v \in Osv |-> 1]
    /\ clock = 1
    /\ stored = [v \in Osv |-> 0]
    /\ given = [f \in Feeds |-> {}]

Publish(v) ==
    /\ clock < MaxClock
    /\ clock' = clock + 1
    /\ published' = [published EXCEPT ![v] = clock']
    /\ given' = [f \in Feeds |-> given[f] \ {v}]
    /\ UNCHANGED stored

\* The mirror moves the records of a set forward, at most to what is published.
Move(batch) ==
    /\ stored' \in [Osv -> 0..clock]
    /\ \A v \in Osv : IF v \in batch
                      THEN stored[v] < stored'[v] /\ stored'[v] <= published[v]
                      ELSE stored'[v] = stored[v]
    /\ given' = [f \in Feeds |-> given[f] \ batch]
    /\ UNCHANGED <<published, clock>>

\* From now on the records of lot, which it lacks, are those given up in feed f.
GiveUp(f, lot) ==
    /\ \A v \in lot : stored[v] < published[v]
    /\ Cardinality(lot) <= MaxGiven
    /\ given' = [given EXCEPT ![f] = lot]
    /\ UNCHANGED <<published, clock, stored>>

Next ==
    \/ \E v \in Osv : Publish(v)
    \/ \E batch \in SUBSET Osv : Move(batch)
    \/ \E f \in Feeds, lot \in SUBSET Osv : GiveUp(f, lot)

Spec == Init /\ [][Next]_vars

\* A record that is given up in no feed is moved, unless it is given up for ever
\* from some time on.
CatchUp(v) ==
    /\ \A f \in Feeds : v \notin given[f]
    /\ \E batch \in SUBSET Osv : v \in batch /\ Move(batch)

FairSpec == Spec /\ \A v \in Osv : WF_vars(CatchUp(v))
=============================================================================

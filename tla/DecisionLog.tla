----------------------------- MODULE DecisionLog -----------------------------
(***************************************************************************)
(* The proxy's bounded decision log (internal/decisions/log.go) as a value *)
(* and its operations.  An entry is its id and its verdict; the package it *)
(* names, and the counts by ecosystem, are display data and left out.      *)
(***************************************************************************)
EXTENDS Integers, Sequences

CONSTANTS
    MaxSize,        \* entries kept; main.go gives 2000
    DeniedLimit     \* the 50 denied entries of GetStats

ASSUME LogAssumption == MaxSize \in Nat \ {0} /\ DeniedLimit \in Nat

Entry == [id : Nat, allowed : BOOLEAN]
Log == [entries : Seq(Entry), nextID : Nat, total : [BOOLEAN -> Nat]]

NewLog == [entries |-> <<>>, nextID |-> 0, total |-> [a \in BOOLEAN |-> 0]]

\* A full log gives up its oldest entry.
Record(l, allowed) ==
    LET entry == [id |-> l.nextID + 1, allowed |-> allowed]
        kept == IF Len(l.entries) >= MaxSize THEN Tail(l.entries) ELSE l.entries
    IN  [entries |-> Append(kept, entry), nextID |-> entry.id,
         total |-> [l.total EXCEPT ![allowed] = @ + 1]]

\* The latest n entries, newest first; 0 asks for all of them.
Recent(l, n) ==
    LET total == Len(l.entries)
    IN  [i \in 1..(IF n = 0 \/ n > total THEN total ELSE n) |-> l.entries[total + 1 - i]]

Denied(entries) == SelectSeq(entries, LAMBDA e : ~e.allowed)
FirstOf(s, n) == SubSeq(s, 1, IF Len(s) < n THEN Len(s) ELSE n)

\* The latest denied entries of the whole log, and the totals.
GetStats(l) ==
    [denied |-> FirstOf(Denied(Recent(l, 0)), DeniedLimit), total |-> l.total]
=============================================================================

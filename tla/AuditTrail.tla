---------------------------- MODULE AuditTrail ----------------------------
(***************************************************************************)
(* What the ticket history promises to its readers (the history endpoint,   *)
(* and the SLA clocks that rebuild each field's timeline from it): every    *)
(* change of a tracked field is one entry that holds the value it replaced  *)
(* and the value it set.  Only before the first entry may a value be set     *)
(* without one, since a timeline starts with the old value of that entry.    *)
(***************************************************************************)
EXTENDS Integers, Sequences

CONSTANTS Cell,     \* the rows that are audited
          Field,    \* the tracked fields of a row
          Value,    \* what a field can hold
          Absent    \* the value of a row that is not there yet

VARIABLES current,  \* current[c]: Absent, or the value of each field
          log       \* log[c][f]: the entries of field f, oldest first

Tracked == [Field -> Value]

Blank == [f \in Field |-> <<>>]

Init ==
    /\ current = [c \in Cell |-> Absent]
    /\ log = [c \in Cell |-> Blank]

\* Cell c comes to hold these values, and its fields these entries.
Becomes(c, values, entries) ==
    /\ values \in Tracked
    /\ current' = [current EXCEPT ![c] = values]
    /\ log' = [log EXCEPT ![c] = entries]

\* The row appears, or its first values are corrected before anything is logged.
Open(c) == log[c] = Blank /\ Becomes(c, current'[c], Blank)

Entries(l, old, new) == IF new = old THEN l ELSE Append(l, [old |-> old, new |-> new])

\* Any of the fields change together, each with its entry.
Record(c) ==
    /\ current[c] # Absent
    /\ Becomes(c, current'[c], [f \in Field |-> Entries(log[c][f], current[c][f], current'[c][f])])

Next == \E c \in Cell : Open(c) \/ Record(c)

Spec == Init /\ [][Next]_<<current, log>>

\* Each entry starts from the value the one before it set, and the last entry of
\* a field is its current value.
Continuous ==
    \A c \in Cell, f \in Field :
        /\ \A i \in 2..Len(log[c][f]) : log[c][f][i].old = log[c][f][i - 1].new
        /\ log[c][f] # <<>> => current[c][f] = log[c][f][Len(log[c][f])].new
===========================================================================

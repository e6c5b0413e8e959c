----------------------------- MODULE VLHistory -----------------------------
(***************************************************************************)
(* What the VL sequence register promises, with no stages, failures or     *)
(* locks: an append-only history in which list number n is the n-th entry, *)
(* the rounds publish in increasing order and at most once each, and the   *)
(* list being served is always the last entry.                             *)
(***************************************************************************)
EXTENDS Integers

CONSTANT Rounds   \* the round numbers

VARIABLES
    latest,      \* the sequence number of the last published list
    publisher,   \* publisher[n] is the round that published list number n
    current      \* the round and the sequence number of the list being served

historyVars == <<latest, publisher, current>>

HistoryInit ==
    /\ latest = 0
    /\ publisher = [n \in 1..0 |-> 0]
    /\ current = [round |-> 0, seq |-> 0]

\* Round r publishes the next list and the list is served from then on.
Publish(r) ==
    /\ \A n \in 1..latest : publisher[n] < r
    /\ latest' = latest + 1
    /\ publisher' = [n \in 1..(latest + 1) |->
                        IF n = latest + 1 THEN r ELSE publisher[n]]
    /\ current' = [round |-> r, seq |-> latest + 1]

HistoryNext == \E r \in Rounds : Publish(r)

HistorySpec == HistoryInit /\ [][HistoryNext]_historyVars
=============================================================================

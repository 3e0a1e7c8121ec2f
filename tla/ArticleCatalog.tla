--------------------------- MODULE ArticleCatalog ---------------------------
(***************************************************************************)
(* What ingestion promises to the rest of the service, without runs,       *)
(* batches or retries: a catalogue of articles that only grows, in which   *)
(* an article appears once, dated by the day it appeared, and no source    *)
(* gets more than Quota articles on one day.                               *)
(***************************************************************************)
EXTENDS Integers, FiniteSets

CONSTANTS Sources, Ids, Quota, MaxDay

Articles == Sources \X Ids
Days     == 1..MaxDay
Absent   == 0

VARIABLES today, catalog

vars == <<today, catalog>>

PublishedOn(s, d) == {a \in Articles : a[1] = s /\ catalog[a] = d}

Init ==
    /\ today = 1
    /\ catalog = [a \in Articles |-> Absent]

Publish(a) ==
    /\ catalog[a] = Absent
    /\ Cardinality(PublishedOn(a[1], today)) < Quota
    /\ catalog' = [catalog EXCEPT ![a] = today]
    /\ UNCHANGED today

Tomorrow ==
    /\ today < MaxDay
    /\ today' = today + 1
    /\ UNCHANGED catalog

Next == Tomorrow \/ \E a \in Articles : Publish(a)

Spec == Init /\ [][Next]_vars
=============================================================================

------------------------------ MODULE LeaseLock ------------------------------
(***************************************************************************)
(* What a board lease promises to the tasks that use it (the docstring of   *)
(* boards/leases.py): a claim that lapses by itself, held by one holder at  *)
(* a time.  held[h] is the time h's claim still has to run, 0 when h has    *)
(* none.                                                                    *)
(***************************************************************************)
EXTENDS Integers

CONSTANTS Holders, TTL

VARIABLE held

Init == held = [h \in Holders |-> 0]

\* A claim is given only while nobody else has one.
Grant(h) ==
  /\ \A g \in Holders \ {h} : held[g] = 0
  /\ \E n \in 0..TTL : held' = [held EXCEPT ![h] = n]

\* Claims end early by release, refusal, renewal or the death of a process.
Drop(G) == held' = [h \in Holders |-> IF h \in G THEN 0 ELSE held[h]]

Tick == held' = [h \in Holders |-> IF held[h] = 0 THEN 0 ELSE held[h] - 1]

Next ==
  \/ \E h \in Holders : Grant(h)
  \/ \E G \in SUBSET Holders : Drop(G)
  \/ Tick

Spec == Init /\ [][Next]_held
=============================================================================

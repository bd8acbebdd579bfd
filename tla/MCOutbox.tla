------------------------------- MODULE MCOutbox -------------------------------
(* Outbox on small instances, a dead endpoint next to one that works: two    *)
(* events and changes of the endpoints; or three events, one more than a     *)
(* batch takes, for endpoints that do not change.                            *)
EXTENDS Outbox

Within == Len(event) <= 2 \/ changes = 0

MCNext == Next /\ Within'

MCSpec == Init /\ [][MCNext]_vars /\ Fairness
==============================================================================

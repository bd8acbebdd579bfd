--------------------------- MODULE MCReplenishment ---------------------------
(* Replenishment on small instances, one for each scene:                    *)
(*  supply: two orders of one item, one recalculation at a time;            *)
(*  shipping: one order and two shipments of it;                            *)
(*  overlap: the worker and the button recalculate one item at a time, one  *)
(*    of them may break off, and its policy changes;                        *)
(*  rivals: the worker and the button while an order is placed and arrives; *)
(*  policies: an item with a minimum order under every policy.              *)
EXTENDS Replenishment

CONSTANTS k1, k2, p1, button,
          MaxKnown  \* bound: of a history counter, above every position there can be

VARIABLE scene

MCTerms == [k \in Items |-> IF k = k1 THEN [pack |-> 1, minimum |-> 0, quoted |-> 1]
                                      ELSE [pack |-> 2, minimum |-> 3, quoted |-> 1]]

Rule(demand, lead, safety, safetyDays) ==
  [enabled |-> TRUE, demand |-> demand, lead |-> lead, safety |-> safety,
   safetyDays |-> safetyDays, review |-> 1]
Usual == Rule({1}, {}, 0, 0)
Off == [Usual EXCEPT !.enabled = FALSE]
MCPolicies ==
  [k \in Items |-> IF k = k1 THEN {Off, Usual}
                  ELSE { Off, Rule({}, {}, 1, 0), Rule({}, {2}, 0, 1), Rule({2}, {2}, 0, 1),
                         Rule({2}, {0}, 1, 0) }]
MCForecasts == {0, 1}
MCLeadTimes == {1}

Scene(s, item, rules, orders, ships, runs) ==
  /\ scene = s
  /\ \A k \in Items : /\ policy[k] \in IF k = item THEN rules ELSE {Off}
                      /\ k # item => free[k] = 0
  /\ \A p \in Orders \ orders : po[p] = NoOrder
  /\ \A h \in Shipments \ ships : ~shipment[h].open
  /\ \A w \in Runs \ runs : calc[w] = Idle
  /\ \A w \in Runs : calc[w].step = "STOCK_READ" => calc[w].known <= MaxKnown

Within ==
  \/ Scene("supply", k1, {Usual}, Orders, {}, {Worker}) /\ aborts = 0 /\ free[k1] <= 1
  \/ Scene("shipping", k1, {Usual}, {p1}, Shipments, {Worker}) /\ aborts = 0 /\ free[k1] <= 1
     /\ doubled = {} /\ \A h \in Shipments : shipment[h].due <= 1
  \/ Scene("overlap", k1, MCPolicies[k1], {}, {}, Runs)
  \/ Scene("rivals", k1, {Usual}, {p1}, {}, Runs) /\ aborts = 0 /\ free[k1] <= 1 /\ doubled = {}
  \/ Scene("policies", k2, MCPolicies[k2], {p1}, {}, {Worker}) /\ aborts = 0

MCInit == Init /\ Within

MCNext ==
  /\ \/ scene = "overlap" /\ policy' \in [Items -> MCPolicies[k1]]
     \/ scene # "overlap" /\ policy' = policy
  /\ Next
  /\ UNCHANGED scene
  /\ Within'

\* WF_vars(RunStep(Worker)), with its ENABLED written out.
WorkerGoesOn ==
  \/ []<>(calc[Worker] = Idle /\ \A k \in Items : ~policy[k].enabled)
  \/ []<><<calc'[Worker].step # calc[Worker].step /\ aborts' = aborts>>_calc

MCSpec == MCInit /\ [][MCNext]_<< vars, scene >> /\ WorkerGoesOn
==============================================================================

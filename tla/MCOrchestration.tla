--------------------------- MODULE MCOrchestration ---------------------------
(* Constant values for model checking Orchestration. *)
EXTENDS OrchestrationBoard

CONSTANTS lead, w1, w2, w3, p1, p1moved, p2, leaf1

\* w1 and w2 are two handles of one pane, before and after its tab was moved;
\* the pane of any other handle cannot be resolved.
TwinPaneOf == [h \in Handles |-> CASE h = w1 -> p1 [] h = w2 -> p1moved [] OTHER -> NoPane]
TwinLeafOf == [p \in Panes |-> leaf1]

\* Two workers in panes of their own, one of them with a legacy pane key.
PairPaneOf == [h \in Handles |-> CASE h = w1 -> p1 [] h = w2 -> p2 [] OTHER -> NoPane]
PairLeafOf == [p \in Panes |-> IF p = p1 THEN leaf1 ELSE NoLeaf]

NoDeps == {{}}
ChainDeps == {{}, {1}}
JoinDeps == {{}, {1, 2}}
NoFilters == {}
AnyFilter == {MessageTypes}
MailFilters == {MessageTypes, {"worker_done", "escalation"}}
=============================================================================

---------------------------- MODULE MCJiraImport ----------------------------
EXTENDS JiraImport

CONSTANTS t1, t2

(* Jira spells t2 so that it may stand for t1 as well: "t1 (t2)". *)
MCAliases == [t \in Teams |-> IF t = t2 THEN {t1, t2} ELSE {t}]

(* The two in either order, and each of them alone. *)
MCRosters ==
    {[t \in {t1, t2} |-> IF t = t1 THEN 1 ELSE 2],
     [t \in {t1, t2} |-> IF t = t1 THEN 2 ELSE 1],
     [t \in {t1} |-> 1], [t \in {t2} |-> 1]}
=============================================================================

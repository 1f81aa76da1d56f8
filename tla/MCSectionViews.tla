--------------------------- MODULE MCSectionViews ---------------------------
EXTENDS SectionViews

(* A section that moves the version of the PI data and one that does not,  *)
(* which a command of the PI data tab reads in parallel; two that a        *)
(* dispatch leaves apart, without the PI data; two that re-read each other. *)
MCRoles ==
    {{"data", "prePi", "capacity"},
     {"prePi", "goals", "backlog"},
     {"boards", "program"}}
=============================================================================

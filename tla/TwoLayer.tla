------------------------------ MODULE TwoLayer ------------------------------
(***************************************************************************)
(* What the pair of commands p10_ha_apply / p10_ha_start promises about    *)
(* the Zigbee2MQTT add-on, with no mention of SSH, Supervisor or files.    *)
(*                                                                         *)
(* The add-on's configuration (YAML plus Supervisor options) is seen as    *)
(* one cell: a coordinator ("source", "target") when both layers agree,    *)
(* "changing" while a command is between its two writes or a Supervisor    *)
(* request is still in flight, "broken" when the layers disagree and       *)
(* nobody is working on them.  A command may take a whole configuration    *)
(* into a change, and may start the add-on on a whole configuration only.  *)
(***************************************************************************)

VARIABLES
    cfg,    \* the configuration cell, in Cells
    up,     \* the add-on's container runs
    busy    \* a command of the tool is in progress

vars == <<cfg, up, busy>>

Whole == {"source", "target"}
Cells == Whole \cup {"changing", "broken"}

TypeOK == cfg \in Cells /\ up \in BOOLEAN /\ busy \in BOOLEAN

Init == cfg = "source" /\ up \in BOOLEAN /\ busy = FALSE

-----------------------------------------------------------------------------
\* A command begins only when no other one is in progress, and may end at once.
Begin == ~busy /\ busy' = TRUE /\ UNCHANGED <<cfg, up>>
End   == busy /\ busy' = FALSE /\ UNCHANGED <<cfg, up>>

\* The first write: only from a whole configuration, only under a stopped add-on.
StartChange == /\ busy /\ ~up /\ cfg \in Whole
               /\ cfg' = "changing"
               /\ UNCHANGED <<up, busy>>

\* The change settles, on one of the two configurations or half done.
EndChange == /\ busy /\ ~up /\ cfg = "changing"
             /\ cfg' \in Whole \cup {"broken"}
             /\ busy' \in BOOLEAN
             /\ UNCHANGED up

\* The tool starts the add-on, only on a whole configuration.
Start == /\ busy /\ ~up /\ cfg \in Whole
         /\ up' = TRUE
         /\ busy' \in BOOLEAN
         /\ UNCHANGED cfg

\* The add-on stops or crashes.
Down == up /\ up' = FALSE /\ UNCHANGED <<cfg, busy>>

\* The running add-on rewrites its own YAML.
Drift == up /\ cfg # "changing" /\ cfg' = "broken" /\ UNCHANGED <<up, busy>>

\* Somebody else acts on the add-on, between two commands only.
Outside == /\ ~busy /\ cfg # "changing"
           /\ cfg' \in Whole \cup {"broken"}
           /\ up' \in BOOLEAN
           /\ UNCHANGED busy

Next == Begin \/ End \/ StartChange \/ EndChange \/ Start \/ Down \/ Drift \/ Outside

Spec == Init /\ [][Next]_vars
=============================================================================

--------------------------- MODULE MCObservation ---------------------------
(* Small instances of what is concluded from the network, for TLC: one of  *)
(* the two parts is at work, and the other stays where it begins.          *)
EXTENDS NeighborPagination, Acceptance, TLC

CONSTANTS n1, n2, n3, m1, m2

VARIABLE part         \* "neighbors" or "acceptance"

NoNeighbors == Init /\ table = <<>>
NoAcceptance == AcceptanceInit /\ known = [d \in Members |-> Gone]

ObservationInit == \/ part = "neighbors" /\ Init /\ NoAcceptance
                   \/ part = "acceptance" /\ AcceptanceInit /\ NoNeighbors

ObservationNext == /\ UNCHANGED part
                   /\ \/ part = "neighbors" /\ Next /\ UNCHANGED acceptanceVars
                      \/ part = "acceptance" /\ AcceptanceNext /\ UNCHANGED vars

ObservationSpec == ObservationInit /\ [][ObservationNext]_<<part, vars, acceptanceVars>>

Symmetry == Permutations(Routers)
=============================================================================

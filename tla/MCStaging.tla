----------------------------- MODULE MCStaging -----------------------------
(* Small instances of what is staged on the workstation, for TLC: one of   *)
(* the three parts is at work, and the others stay where they begin.       *)
EXTENDS Staging, PrivateSnapshot, SerialConfig, TLC

CONSTANTS c1, c2, p1, p2, cold1, cold2, hot

VARIABLE part         \* "stage", "snapshot" or "serial"

MCRequired == <<Config>>
MCOptional == <<"state.json">>

\* The usual configuration with at most one line taken out, and up to two put in anywhere.
Line(k, v) == [key |-> k, value |-> v]
Usual == <<Line("serial", ""), Line("port", Old.port), Line("adapter", Old.adapter),
           Line("baudrate", "115200"), Line("rtscts", "false")>>
Lines == {Line("serial", ""), Line("other", ""), Line("comment", ""), Line("more", ""),
          Line("port", Old.port), Line("adapter", Old.adapter), Line("rtscts", "true")}
With(l) == {SubSeq(l, 1, i) \o <<x>> \o SubSeq(l, i + 1, Len(l)) : i \in 0 .. Len(l), x \in Lines}
Without(l) == {SubSeq(l, 1, i - 1) \o SubSeq(l, i + 1, Len(l)) : i \in DOMAIN l}
Disturbed == {Usual} \cup With(Usual) \cup Without(Usual)
MCSources == Disturbed \cup UNION {With(l) : l \in Disturbed}

NoStage == /\ pc = [c \in Commands |-> "idle"] /\ todo = [c \in Commands |-> <<>>]
           /\ mode = [c \in Commands |-> "source"] /\ bundle = [c \in Commands |-> hot]
           /\ dir = FALSE /\ file = Empty /\ state = Absent /\ owner = c1 /\ intact = TRUE
           /\ rpc = "idle" /\ saw = Absent /\ got = Unread

NoSnapshot == SnapshotInit /\ there = {}

NoSerial == /\ yaml = Usual /\ options = [k \in Keys |-> "none"] /\ layer = "usb"
            /\ staged = [is |-> "nothing"]

StagingInit == \/ part = "stage" /\ Init /\ NoSnapshot /\ NoSerial
               \/ part = "snapshot" /\ SnapshotInit /\ NoStage /\ NoSerial
               \/ part = "serial" /\ SerialInit /\ NoStage /\ NoSnapshot

StagingNext == /\ UNCHANGED part
               /\ \/ part = "stage" /\ Next /\ UNCHANGED <<snapshotVars, serialVars>>
                  \/ part = "snapshot" /\ SnapshotNext /\ UNCHANGED <<vars, serialVars>>
                  \/ part = "serial" /\ StageSerial /\ UNCHANGED <<vars, snapshotVars>>

StagingSpec == StagingInit /\ [][StagingNext]_<<part, vars, snapshotVars, serialVars>>

Symmetry == Permutations(Commands) \cup Permutations(Cold) \cup Permutations(Captures)
=============================================================================

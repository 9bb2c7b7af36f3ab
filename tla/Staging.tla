------------------------------ MODULE Staging ------------------------------
(***************************************************************************)
(* The private stage directory on the workstation.                         *)
(* p10_migration_workflow.stage and p10_usb_cutover.stage_usb write it     *)
(* file by file out of a bundle; p10_ha_apply.stage_files reads it, before *)
(* every apply and start.  There is no lock, nothing is flushed, and a     *)
(* command may die, or the power fail, between any two steps.              *)
(*                                                                         *)
(* The content of a file is the bundle it was made from; a hash tells      *)
(* bundles, and files that are cut off, apart.                             *)
(***************************************************************************)
EXTENDS Sequences

CONSTANTS Commands,   \* runs of stage and stage_usb with one --out
          Bundles,    \* verified bundles
          Cold        \* those that were captured cold

ASSUME ColdAssumption == Cold \subseteq Bundles

VARIABLES
    pc, todo,         \* per command: where it is, files still to be written
    mode, bundle,     \* per command: which stage of which bundle
    dir,              \* does the stage directory exist?
    file, state,      \* the data files and cutover_state.private.json
    owner, intact,    \* history: who made the directory, no power failure since
    rpc, saw, got     \* stage_files: where it is, what it has read

command == <<mode, bundle>>
disk == <<dir, file, state>>
reader == <<rpc, saw, got>>
vars == <<pc, todo, command, disk, owner, intact, reader>>

Rollback == {"rollback_yaml", "rollback_options"}
Target == {"target_yaml", "target_options"}
Files == Rollback \cup Target \cup {"baseline"}

Absent == [made |-> "absent"]
Torn == [made |-> "torn"]
Of(b) == [made |-> "whole", of |-> b]
Contents == {Absent, Torn} \cup {Of(b) : b \in Bundles}

\* The state names the bundle of the rollback files and, once the P10 has been verified,
\* that of the target files, by their hashes.
State(b, t) == [made |-> "whole", of |-> b, target |-> t]
States == {Absent, Torn} \cup {State(b, t) : b \in Bundles, t \in {Absent} \cup {Of(b) : b \in Bundles}}

Modes == {"source", "tcp", "usb"}
Working == {"check", "probe", "mkdir", "write", "open"}

TypeOK == /\ pc \in [Commands -> {"idle", "done", "failed"} \cup Working]
          /\ todo \in [Commands -> Seq(Files \cup {"state", "restate"})]
          /\ \A c \in Commands : pc[c] \in {"write", "open"} => todo[c] # <<>>
          /\ mode \in [Commands -> Modes] /\ bundle \in [Commands -> Bundles]
          /\ dir \in BOOLEAN /\ intact \in BOOLEAN /\ owner \in Commands
          /\ file \in [Files -> Contents] /\ state \in States
          /\ rpc \in {"idle", "accepted", "refused"} \cup {"state"} \cup Rollback \cup Target \cup {"verify"}
          /\ saw \in States
          /\ got \in [Rollback \cup Target -> Contents]

Empty == [f \in Files |-> Absent]
Unread == [f \in Rollback \cup Target |-> Absent]

Init == /\ pc = [c \in Commands |-> "idle"] /\ todo = [c \in Commands |-> <<>>]
        /\ mode \in [Commands -> Modes] /\ bundle \in [Commands -> Bundles]
        /\ dir = FALSE /\ file = Empty /\ state = Absent
        /\ owner \in Commands /\ intact = TRUE
        /\ rpc = "idle" /\ saw = Absent /\ got = Unread

-----------------------------------------------------------------------------
(* stage and stage_usb. *)

\* The order of the calls of _write, and the last write_text of stage_usb.
Plan == [source |-> <<"rollback_yaml", "rollback_options", "baseline", "state">>,
         tcp |-> <<"rollback_yaml", "rollback_options", "target_yaml", "target_options", "baseline", "state">>,
         usb |-> <<"rollback_yaml", "rollback_options", "baseline", "state",
                   "target_yaml", "target_options", "restate">>]

Goto(c, from, to) == /\ pc[c] = from /\ pc' = [pc EXCEPT ![c] = to]
                     /\ UNCHANGED <<command, reader>>

\* stage_usb looks at the bundle and at the P10 before stage looks at the directory;
\* with a TCP address, stage looks at the P10 after.
Begin(c) == /\ Goto(c, "idle", IF mode[c] # "usb" THEN "check"
                               ELSE IF bundle[c] \in Cold THEN "probe" ELSE "failed")
            /\ UNCHANGED <<todo, disk, owner, intact>>

Check(c) == /\ Goto(c, "check", IF dir THEN "failed" ELSE IF mode[c] = "tcp" THEN "probe" ELSE "mkdir")
            /\ UNCHANGED <<todo, disk, owner, intact>>

\* discover or verify_endpoint; a probe that fails is a command that raises.
Probe(c) == /\ Goto(c, "probe", IF mode[c] = "usb" THEN "check" ELSE "mkdir")
            /\ UNCHANGED <<todo, disk, owner, intact>>

Mkdir(c) == IF dir
            THEN Goto(c, "mkdir", "failed") /\ UNCHANGED <<todo, disk, owner, intact>>
            ELSE /\ Goto(c, "mkdir", "write")
                 /\ dir' = TRUE /\ owner' = c /\ intact' = TRUE
                 /\ todo' = [todo EXCEPT ![c] = Plan[mode[c]]]
                 /\ UNCHANGED <<file, state>>

\* open(path, 'xb'), or the truncation of write_text after the state has been read.
Open(c) == LET f == Head(todo[c]) IN
           /\ Goto(c, "write", "open")
           /\ \/ f \in Files /\ file[f] = Absent /\ file' = [file EXCEPT ![f] = Torn] /\ UNCHANGED state
              \/ f = "state" /\ state = Absent /\ state' = Torn /\ UNCHANGED file
              \/ f = "restate" /\ state.made = "whole" /\ state' = Torn /\ UNCHANGED file
           /\ UNCHANGED <<todo, dir, owner, intact>>

\* Faulty variant: the new hashes are not put into the state.
CloseStale(c) == LET f == Head(todo[c]) IN
    /\ Goto(c, "open", IF Len(todo[c]) = 1 THEN "done" ELSE "write")
    /\ todo' = [todo EXCEPT ![c] = Tail(@)]
    /\ IF f \in Files
       THEN file' = [file EXCEPT ![f] = Of(bundle[c])] /\ UNCHANGED state
       ELSE /\ state' = State(bundle[c], IF mode[c] = "tcp" THEN Of(bundle[c]) ELSE Absent)
            /\ UNCHANGED file
    /\ UNCHANGED <<dir, owner, intact>>

\* The file is whole; stage without an endpoint writes no target into the state.
Close(c) == LET f == Head(todo[c]) IN
    /\ Goto(c, "open", IF Len(todo[c]) = 1 THEN "done" ELSE "write")
    /\ todo' = [todo EXCEPT ![c] = Tail(@)]
    /\ IF f \in Files
       THEN file' = [file EXCEPT ![f] = Of(bundle[c])] /\ UNCHANGED state
       ELSE /\ state' = State(bundle[c], IF mode[c] = "tcp" \/ f = "restate" THEN Of(bundle[c]) ELSE Absent)
            /\ UNCHANGED file
    /\ UNCHANGED <<dir, owner, intact>>

\* A command raises or is killed: what it has written stays.
Dies(c) == \E at \in Working : Goto(c, at, "failed") /\ UNCHANGED <<todo, disk, owner, intact>>

Stage(c) == Begin(c) \/ Check(c) \/ Probe(c) \/ Mkdir(c) \/ Open(c) \/ Close(c)

-----------------------------------------------------------------------------
(* stage_files. *)

Read(from, to) == rpc = from /\ rpc' = to /\ UNCHANGED <<pc, todo, command, disk, owner, intact>>

ReadAgain == rpc \in {"idle", "accepted", "refused"} /\ Read(rpc, "state") /\ saw' = Absent /\ got' = Unread

\* Faulty variant: a hot bundle will do.
ReadStateHot == /\ saw' = state
                /\ Read("state", IF state.made = "whole" /\ state.target # Absent
                                 THEN "rollback_yaml" ELSE "refused")
                /\ UNCHANGED got

\* A cold bundle and a verified target, or the stage is refused.
ReadState == /\ saw' = state
             /\ Read("state", IF /\ state.made = "whole"
                                 /\ state.of \in Cold
                                 /\ state.target # Absent
                              THEN "rollback_yaml" ELSE "refused")
             /\ UNCHANGED got

After == [rollback_yaml |-> "target_yaml", target_yaml |-> "rollback_options",
          rollback_options |-> "target_options", target_options |-> "verify"]

ReadFile == \E f \in Rollback \cup Target :
    /\ Read(f, IF file[f] = Absent THEN "refused" ELSE After[f])
    /\ got' = [got EXCEPT ![f] = file[f]]
    /\ UNCHANGED saw

\* Faulty variant: only the target files are compared with their hashes.
VerifyTarget == /\ Read("verify", IF \A f \in Target : got[f] = saw.target THEN "accepted" ELSE "refused")
                /\ UNCHANGED <<saw, got>>

Verify == /\ Read("verify", IF /\ \A f \in Rollback : got[f] = Of(saw.of)
                               /\ \A f \in Target : got[f] = saw.target
                            THEN "accepted" ELSE "refused")
          /\ UNCHANGED <<saw, got>>

StageFiles == ReadAgain \/ ReadState \/ ReadFile \/ Verify

-----------------------------------------------------------------------------
(* The workstation, and people. *)

\* What has not reached the disk is lost: a file is cut off or empty (two, as if it failed twice).
PowerFails == /\ pc' = [c \in Commands |-> IF pc[c] \in Working THEN "failed" ELSE pc[c]]
              /\ \/ UNCHANGED <<file, state>>
                 \/ state # Absent /\ state' = Torn /\ UNCHANGED file
                 \/ /\ \E f \in Files : file[f] # Absent /\ file' = [file EXCEPT ![f] = Torn]
                    /\ UNCHANGED state
              /\ intact' = FALSE /\ rpc' = "refused"
              /\ UNCHANGED <<todo, command, dir, owner, saw, got>>

\* People remove what a dead command has left; a reader may be in the middle of it.
Removed == /\ \A c \in Commands : pc[c] \notin Working
           /\ dir /\ dir' = FALSE /\ file' = Empty /\ state' = Absent
           /\ UNCHANGED <<pc, todo, command, owner, intact, reader>>

Next == \/ \E c \in Commands : Stage(c) \/ Dies(c)
        \/ StageFiles
        \/ PowerFails \/ Removed

Spec == Init /\ [][Next]_vars

-----------------------------------------------------------------------------
(* Properties. *)

\* stage_files: what an apply or a start goes by is whole, and both configurations come from
\* one cold bundle, whatever died, failed or was removed and staged again while it was read.
AcceptedIsWhole == rpc = "accepted" => \E b \in Cold : \A f \in Rollback \cup Target : got[f] = Of(b)

\* stage, stage_usb: the directory of a command that has ended well holds what stage_files
\* accepts, if it has been asked for a target and its bundle is cold.
DoneIsUsable == \A c \in Commands :
    pc[c] = "done" /\ owner = c /\ dir /\ intact /\ mode[c] # "source" /\ bundle[c] \in Cold
        => /\ state = State(bundle[c], Of(bundle[c]))
           /\ \A f \in Rollback \cup Target : file[f] = Of(bundle[c])

\* A state that can be read names one bundle; a reader that goes on has seen a cold one.
OneBundle(s) == \E b \in Bundles : s \in {State(b, Absent), State(b, Of(b))}

StageInv == /\ TypeOK
            /\ state \in {Absent, Torn} \/ OneBundle(state)
            /\ rpc \in Rollback \cup Target \cup {"verify"}
                 => \E b \in Cold : saw = State(b, Of(b))
            /\ AcceptedIsWhole
=============================================================================

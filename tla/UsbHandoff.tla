----------------------------- MODULE UsbHandoff -----------------------------
(***************************************************************************)
(* p10_usb_handoff.begin: stop the production add-on (p10_outage_freeze),  *)
(* take the cold bundle (DataBundle), stage the way back                   *)
(* (p10_migration_workflow.stage), and only then tell the operator that    *)
(* the SONOFF coordinator may be disconnected.                             *)
(*                                                                         *)
(* The command waits for the capture it calls; Supervisor, the add-on and  *)
(* other people act at any time.                                           *)
(***************************************************************************)
EXTENDS DataBundle

CONSTANT Yaml    \* the file configuration.yaml

ASSUME YamlAssumption == Yaml \in Required

VARIABLES
    step,             \* where begin is
    staged,           \* version of the YAML in the stage directory, or Nothing
    boot, watchdog    \* the add-on's restart policy

Nothing == -1

policy == <<boot, watchdog>>
capture == <<pc, mode, seen, listed, mark, todo, cur, got, out>>
allVars == <<vars, step, staged, policy>>

Pending == {"prepare_info", "prepare_yaml", "freeze_info", "freeze_yaml", "refetch",
            "stop", "stopped", "begin", "capture", "verify", "stage", "final"}

HandoffTypeOK == /\ TypeOK
                 /\ step \in {"idle", "ready", "failed"} \cup Pending
                 /\ staged \in Versions \cup {Nothing}
                 /\ boot \in {"auto", "manual"} /\ watchdog \in BOOLEAN

HandoffInit == /\ Init
               /\ step = "idle" /\ staged = Nothing
               /\ boot \in {"auto", "manual"} /\ watchdog \in BOOLEAN

-----------------------------------------------------------------------------
(* begin. *)

\* A step that reads and goes on, or ends the command.
Check(at, ok, to) == /\ step = at
                     /\ step' = IF ok THEN to ELSE "failed"
                     /\ UNCHANGED <<vars, staged, policy>>

\* The staged source: the YAML the earlier, hot bundle holds (version 0).
SourceYaml == Yaml \in there /\ version[Yaml] = 0

\* Faulty variant: wait until the add-on is stopped.
StopAddonWaits == /\ step = "stop" /\ step' = "stopped"
                  /\ Stopped
                  /\ UNCHANGED <<capture, ran, atWalkEnd, staged, policy>>

\* `ha apps stop', whose exit status is not looked at.
StopAddon == /\ step = "stop" /\ step' = "stopped"
             /\ \/ Stopped
                \/ UNCHANGED <<host, blurred>>
             /\ UNCHANGED <<capture, ran, atWalkEnd, staged, policy>>

\* Faulty variant: the bundle is taken as a hot one.
StartCaptureHot == /\ step = "begin" /\ step' = "capture"
                   /\ Begin("hot")
                   /\ UNCHANGED <<staged, policy>>

StartCapture == /\ step = "begin" /\ step' = "capture"
                /\ Begin("cold")
                /\ UNCHANGED <<staged, policy>>

\* The steps of the capture, which begin waits for.
Capture == step = "capture" /\ Step /\ UNCHANGED <<step, staged, policy>>

\* stage_source: its identity and serial checks may refuse the bundle.
StageSource == /\ step = "stage"
               /\ \/ step' = "final" /\ staged' = got[Yaml].first
                  \/ step' = "failed" /\ UNCHANGED staged
               /\ UNCHANGED <<vars, policy>>

\* Faulty variant: the restart policy is not looked at.
ReadyNoPolicy == Check("final", sup = "stopped", "ready")

\* The add-on is still stopped and nothing will restart it: one addon_info.
Ready == Check("final", sup = "stopped" /\ boot = "manual" /\ ~watchdog, "ready")

HandoffFails == \E at \in Pending : Check(at, FALSE, at)

Handoff == \/ Check("idle", out = "none" /\ staged = Nothing, "prepare_info")
           \/ Check("prepare_info", sup = "started", "prepare_yaml")
           \/ Check("prepare_yaml", SourceYaml, "freeze_info")
           \/ Check("freeze_info", sup = "started", "freeze_yaml")
           \/ Check("freeze_yaml", SourceYaml, "refetch")
           \/ Check("refetch", sup = "started", "stop")
           \/ StopAddon
           \/ Check("stopped", sup = "stopped", "begin")
           \/ StartCapture
           \/ Capture
           \/ pc \in {"done", "failed"} /\ Check("capture", pc = "done", "verify")
           \/ Check("verify", out = "complete" /\ mode = "cold", "stage")
           \/ StageSource
           \/ Ready

-----------------------------------------------------------------------------
(* Supervisor and other people. *)

\* Supervisor starts the add-on when it restarts itself, or revives it.
Automatic == boot = "auto" \/ (watchdog /\ sup = "error")

\* People start the add-on or change its policy until the command says ready.
Others == \/ /\ Addon
             /\ ~running /\ running' => step # "ready" \/ Automatic
             /\ UNCHANGED <<step, staged, policy>>
          \/ /\ step # "ready"
             /\ boot' \in {"auto", "manual"} /\ watchdog' \in BOOLEAN
             /\ UNCHANGED <<vars, step, staged>>

HandoffNext == Handoff \/ HandoffFails \/ Others

HandoffSpec == HandoffInit /\ [][HandoffNext]_allVars

\* Every call of begin has an answer; nothing is assumed of the environment.
FairHandoff == HandoffSpec /\ WF_allVars(Handoff)

-----------------------------------------------------------------------------
(* Properties. *)

\* begin: READY_TO_DISCONNECT_SONOFF is said, and stays true, only when the add-on
\* is down, the cold bundle holds exactly what the data directory holds, and the
\* staged way back is that bundle's YAML, although the add-on was looked at five
\* times only and may have been started in between.
ReadyIsSafe == step = "ready" => ~running /\ Current /\ staged = version[Yaml]

\* begin: a command that has begun is answered.
Answered == step # "idle" ~> step \in {"ready", "failed"}
=============================================================================

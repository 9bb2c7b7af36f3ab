---------------------------- MODULE ConfigApply ----------------------------
(***************************************************************************)
(* p10_ha_apply.py and p10_ha_start.py: changing the two configuration     *)
(* layers of a stopped Zigbee2MQTT add-on over SSH, and starting it.       *)
(*                                                                         *)
(* An invocation of a command (a member of Procs) is two processes: the    *)
(* CLI on the operator's host (pc) and the program it runs on the Home     *)
(* Assistant host (rpc: REMOTE_APPLY, or `ha apps start').  The second one *)
(* outlives the first when the SSH link drops.  Every HTTP call, docker    *)
(* call and file access is a step of its own.                              *)
(***************************************************************************)
EXTENDS Integers

CONSTANTS
    Procs,      \* identities of the command invocations (each used once)
    NumRoots,   \* number of candidate data roots, in the order they are tried
    Files,      \* the configuration.yaml files there may be on the host
    FileOf      \* FileOf[r]: the file seen under root r (roots may be aliases)

ASSUME RootsAssumption ==
    /\ NumRoots \in Nat \ {0}
    /\ FileOf \in [1..NumRoots -> Files]

Configs  == {"source", "target"}
Contents == Configs \cup {"edited", "saved"}  \* not staged: by a person, by the add-on
NoFile   == "no file"
Roots    == 1..NumRoots
Quiescent == {"stopped", "error"}

Jobs == [kind : {"apply", "start"}, phase : {"target", "rollback"}]
NoJob == [kind |-> "none", phase |-> "none"]

VARIABLES
    sup,      \* the add-on's state as Supervisor reports it
    running,  \* its container runs (docker inspect)
    opts,     \* the add-on options Supervisor holds
    yaml,     \* yaml[f]: content of file f
    late,     \* options requests given up by their sender, still in flight
    tmps,     \* invocations whose candidate file exists next to the YAML
    job,      \* job[p]: what invocation p was asked to do
    pc,       \* pc[p]: where its local process is
    rpc,      \* rpc[p]: where its remote program is
    saw       \* saw[p]: what p has read of the live state

addon  == <<sup, running>>
layers == <<opts, yaml, late, tmps>>
vars   == <<sup, running, opts, yaml, late, tmps, job, pc, rpc, saw>>

PlanLabels  == {"plan_info", "plan_docker", "plan_yaml"}
CheckLabels == {"check_info", "check_docker", "check_yaml"}
StartLabels == {"start_info", "start_docker", "start_check"}
Active == PlanLabels \cup CheckLabels \cup StartLabels \cup {"wait"}
Ended  == {"succeeded", "failed"}

BeforeTry == {"read", "info1", "docker1"}
InTry     == {"reread", "info2", "docker2", "replace"}  \* options updated
AfterTry  == {"info3", "docker3", "final"}
Alive == BeforeTry \cup {"create", "write", "post"} \cup InTry
            \cup {"unlink", "undo", "restore"} \cup AfterTry \cup {"starting"}
Fallible == BeforeTry \cup InTry \cup AfterTry \cup {"create", "write", "unlink", "undo"}
Over  == {"none", "exit0", "exit1"}

-----------------------------------------------------------------------------
(* What is staged and what is read. *)

OldCfg(phase) == IF phase = "target" THEN "source" ELSE "target"
NewCfg(phase) == IF phase = "target" THEN "target" ELSE "source"
Old(p) == OldCfg(job[p].phase)
New(p) == NewCfg(job[p].phase)

\* Faulty variant: a start plans its own phase, like an apply.
ExpectedSamePhase(p) == IF pc[p] \in PlanLabels THEN Old(p) ELSE New(p)

\* The configuration a plan compares with: p10_ha_start and the check after an
\* apply plan the opposite phase, whose expected side is this phase's new one.
Expected(p) == IF job[p].kind = "apply" /\ pc[p] \in PlanLabels THEN Old(p) ELSE New(p)

YamlAt(r) == yaml[FileOf[r]]

\* data_root: the first root that matched.
Root(s) == CHOOSE r \in s.match : \A q \in s.match : r <= q
Target(p) == FileOf[Root(saw[p])]

\* Both layers hold c, in every root there is.
AllLayers(c) == /\ opts = c
                /\ \E r \in Roots : YamlAt(r) = c
                /\ \A r \in Roots : YamlAt(r) \in {c, NoFile}

\* What a plan reads: the options, then root after root (next), which match what
\* is expected, hold something else, or are not there.
Saw == [opts : Contents, next : 1..NumRoots + 1, match : SUBSET Roots, clash : SUBSET Roots]
Fresh(value) == [opts |-> value, next |-> 1, match |-> {}, clash |-> {}]

AllRead(p) == saw[p].next = NumRoots + 1

\* Faulty variants: one matching root is enough; the options are not compared.
SafeAnyRoot(p) == saw[p].opts = Expected(p) /\ saw[p].match # {}
SafeYamlOnly(p) == saw[p].match # {} /\ saw[p].clash = {}

\* safe_to_apply_config: the options, and every root there is, are as expected.
Safe(p) == saw[p].opts = Expected(p) /\ saw[p].match # {} /\ saw[p].clash = {}

Quiet == /\ late = {}
         /\ \A p \in Procs : pc[p] \notin Active /\ rpc[p] \notin Alive

TypeOK == /\ sup \in {"started"} \cup Quiescent
          /\ running \in BOOLEAN
          /\ opts \in Contents
          /\ yaml \in [Files -> Contents \cup {NoFile}]
          /\ late \subseteq Configs
          /\ tmps \subseteq Procs
          /\ job \in [Procs -> Jobs \cup {NoJob}]
          /\ pc \in [Procs -> {"new"} \cup Active \cup Ended]
          /\ rpc \in [Procs -> Alive \cup Over]
          /\ saw \in [Procs -> Saw]

Init == /\ \/ sup = "started" /\ running = TRUE
           \/ sup = "stopped" /\ running = FALSE
        /\ opts = "source"
        /\ yaml \in [Files -> {"source", NoFile}]
        /\ \E r \in Roots : YamlAt(r) = "source"
        /\ late = {} /\ tmps = {}
        /\ job = [p \in Procs |-> NoJob]
        /\ pc = [p \in Procs |-> "new"]
        /\ rpc = [p \in Procs |-> "none"]
        /\ saw = [p \in Procs |-> Fresh("source")]

-----------------------------------------------------------------------------
(* The local process. *)

Goto(p, label) == pc' = [pc EXCEPT ![p] = label]

\* A step that reads and decides where to go.
LocalTest(p, from, to) == /\ pc[p] = from /\ Goto(p, to)
                          /\ UNCHANGED <<addon, layers, job, rpc, saw>>

\* The phrase and the acknowledgements were given and stage_files accepted the stage.
Begin(p, j) == /\ pc[p] = "new" /\ Goto(p, "plan_info")
               /\ job' = [job EXCEPT ![p] = j]
               /\ UNCHANGED <<addon, layers, rpc, saw>>

\* live_plan: addon_info, whose options are compared when the plan is reported,
PlanInfo(p, from, to) ==
    /\ pc[p] = from /\ Goto(p, IF sup \in Quiescent THEN to ELSE "failed")
    /\ saw' = [saw EXCEPT ![p] = Fresh(opts)]
    /\ UNCHANGED <<addon, layers, job, rpc>>

\* then the container (addon_quiescent),
PlanDocker(p, from, to) == LocalTest(p, from, IF running THEN "failed" ELSE to)

\* then the YAML of one root after the other.
PlanRoot(p, at) ==
    LET s == saw[p]
        here(S) == {r \in {s.next} : YamlAt(r) \in S}
    IN  /\ pc[p] = at /\ s.next \in Roots
        /\ saw' = [saw EXCEPT ![p] =
              [s EXCEPT !.next  = s.next + 1,
                        !.match = s.match \cup here({Expected(p)}),
                        !.clash = s.clash \cup here(Contents \ {Expected(p)})]]
        /\ UNCHANGED <<addon, layers, job, pc, rpc>>

\* Hands the work to a program on the Home Assistant host, or fails.
Launch(p, from, ok, program) ==
    /\ pc[p] = from
    /\ IF ok THEN Goto(p, "wait") /\ rpc' = [rpc EXCEPT ![p] = program]
             ELSE Goto(p, "failed") /\ UNCHANGED rpc
    /\ UNCHANGED <<addon, layers, job, saw>>

\* Faulty variant: the verdict of the plan is not looked at.
LaunchAnyway(p) == /\ AllRead(p) /\ job[p].kind = "apply"
                   /\ Launch(p, "plan_yaml", TRUE, "read")

\* apply: a safe plan is carried out by REMOTE_APPLY.
LaunchApply(p) == /\ AllRead(p) /\ job[p].kind = "apply"
                  /\ Launch(p, "plan_yaml", Safe(p), "read")

\* start: after prestart, a second look at the add-on but not at its layers.
Prestarted(p) == /\ AllRead(p) /\ job[p].kind = "start"
                 /\ LocalTest(p, "plan_yaml", IF Safe(p) THEN "start_info" ELSE "failed")

StartInfo(p) == LocalTest(p, "start_info", IF sup \in Quiescent THEN "start_docker" ELSE "failed")

StartDocker(p) == Launch(p, "start_docker", ~running, "starting")

\* Faulty variant: only a success is waited for.
WaitSuccess(p) == /\ rpc[p] = "exit0"
                  /\ LocalTest(p, "wait", IF job[p].kind = "apply" THEN "check_info" ELSE "start_check")

\* recv_exit_status, with no timeout.
Wait(p) == /\ rpc[p] \in {"exit0", "exit1"}
           /\ LocalTest(p, "wait", IF rpc[p] = "exit1" THEN "failed"
                                   ELSE IF job[p].kind = "apply" THEN "check_info"
                                   ELSE "start_check")

\* The plan of the opposite phase after an apply, and the state after a start.
Checked(p) == /\ AllRead(p)
              /\ LocalTest(p, "check_yaml", IF Safe(p) THEN "succeeded" ELSE "failed")

StartCheck(p) == LocalTest(p, "start_check", IF sup = "started" THEN "succeeded" ELSE "failed")

\* The link drops, or the operator interrupts: what runs remotely goes on.
LocalFails(p) == \E at \in Active : LocalTest(p, at, "failed")

Local(p) == \/ PlanInfo(p, "plan_info", "plan_docker")
            \/ PlanDocker(p, "plan_docker", "plan_yaml")
            \/ PlanRoot(p, "plan_yaml")
            \/ LaunchApply(p)
            \/ Prestarted(p)
            \/ StartInfo(p)
            \/ StartDocker(p)
            \/ Wait(p)
            \/ PlanInfo(p, "check_info", "check_docker")
            \/ PlanDocker(p, "check_docker", "check_yaml")
            \/ PlanRoot(p, "check_yaml")
            \/ Checked(p)
            \/ StartCheck(p)

-----------------------------------------------------------------------------
(* REMOTE_APPLY.  Its try block begins after the candidate file was created; *)
(* its finally clause unlinks the candidate, then, if updated_options, posts *)
(* the old options again ("undo", "restore").                                *)

RGoto(p, label) == rpc' = [rpc EXCEPT ![p] = label]

OnRaise(at) == IF at = "write" THEN "unlink" ELSE IF at \in InTry THEN "undo" ELSE "exit1"

\* Faulty variants: the file is not read again, docker not asked again, before the
\* replacement.
RemoteTestNoReread(p, at, ok, to) ==
    /\ rpc[p] = at
    /\ RGoto(p, IF ok \/ at = "reread" THEN to ELSE OnRaise(at))
    /\ UNCHANGED <<addon, layers, job, pc, saw>>

RemoteTestNoDocker(p, at, ok, to) ==
    /\ rpc[p] = at
    /\ RGoto(p, IF ok \/ at = "docker2" THEN to ELSE OnRaise(at))
    /\ UNCHANGED <<addon, layers, job, pc, saw>>

\* A step that only reads: the next one, or the handler of this one.
RemoteTest(p, at, ok, to) ==
    /\ rpc[p] = at
    /\ RGoto(p, IF ok THEN to ELSE OnRaise(at))
    /\ UNCHANGED <<addon, layers, job, pc, saw>>

\* GET /info: the state decides now, the options once docker has answered.
RemoteInfo(p, at, to) ==
    /\ rpc[p] = at /\ RGoto(p, IF sup \in Quiescent THEN to ELSE OnRaise(at))
    /\ saw' = [saw EXCEPT ![p].opts = opts]
    /\ UNCHANGED <<addon, layers, job, pc>>

\* Any call of these steps may raise: an HTTP error or timeout, docker, a file.
RemoteRaises(p) == \E at \in Fallible : RemoteTest(p, at, FALSE, at)

\* os.open(O_EXCL); reading and copying the metadata comes before the try.
CreateTmp(p) == /\ rpc[p] = "create"
                /\ tmps' = tmps \cup {p}
                /\ rpc' \in {[rpc EXCEPT ![p] = "write"], [rpc EXCEPT ![p] = "exit1"]}
                /\ UNCHANGED <<addon, opts, yaml, late, job, pc, saw>>

\* One POST of the options.  answered: applied and confirmed; otherwise it was
\* rejected, or its answer did not come within the timeout and it is in flight.
Post(p, at, value, answered, otherwise) ==
    /\ rpc[p] = at
    /\ \/ opts' = value /\ RGoto(p, answered) /\ UNCHANGED late
       \/ late' \in {late, late \cup {value}} /\ RGoto(p, otherwise) /\ UNCHANGED opts
    /\ UNCHANGED <<addon, yaml, tmps, job, pc, saw>>

\* Faulty variant: the candidate is copied over the YAML instead of renamed.
ReplaceByCopy(p) == /\ rpc[p] = "replace"
                    /\ yaml' = [yaml EXCEPT ![Target(p)] = New(p)]
                    /\ RGoto(p, "info3")
                    /\ UNCHANGED <<addon, opts, late, tmps, job, pc, saw>>

\* os.replace: the YAML is the candidate from now on.
Replace(p) == /\ rpc[p] = "replace"
              /\ yaml' = [yaml EXCEPT ![Target(p)] = New(p)]
              /\ tmps' = tmps \ {p}
              /\ RGoto(p, "info3")
              /\ UNCHANGED <<addon, opts, late, job, pc, saw>>

\* The finally clause, without and with options to put back.
Unlink(p, at, to) == /\ rpc[p] = at
                     /\ tmps' = tmps \ {p}
                     /\ RGoto(p, to)
                     /\ UNCHANGED <<addon, opts, yaml, late, job, pc, saw>>

\* The host reboots or the process is killed; a request it made may be in flight.
Asked(p) == IF rpc[p] = "post" THEN {New(p)} ELSE IF rpc[p] = "restore" THEN {Old(p)} ELSE {}

Kill(p) == /\ rpc[p] \in Alive \ {"starting"}
           /\ late' \in {late, late \cup Asked(p)}
           /\ RGoto(p, "exit1")
           /\ UNCHANGED <<addon, opts, yaml, tmps, job, pc, saw>>

Apply(p) == \/ RemoteTest(p, "read", yaml[Target(p)] = Old(p), "info1")
            \/ RemoteInfo(p, "info1", "docker1")
            \/ RemoteTest(p, "docker1", ~running /\ saw[p].opts = Old(p), "create")
            \/ CreateTmp(p)
            \/ RemoteTest(p, "write", TRUE, "post")
            \/ Post(p, "post", New(p), "reread", "unlink")
            \/ RemoteTest(p, "reread", yaml[Target(p)] = Old(p), "info2")
            \/ RemoteTest(p, "info2", sup \in Quiescent, "docker2")
            \/ RemoteTest(p, "docker2", ~running, "replace")
            \/ Replace(p)
            \/ Unlink(p, "unlink", "exit1")
            \/ Unlink(p, "undo", "restore")
            \/ Post(p, "restore", Old(p), "exit1", "exit1")
            \/ RemoteInfo(p, "info3", "docker3")
            \/ RemoteTest(p, "docker3", ~running /\ saw[p].opts = New(p), "final")
            \/ RemoteTest(p, "final", yaml[Target(p)] = New(p), "exit0")

\* `ha apps start', carried out by Supervisor whether or not the CLI still waits.
SupStart(p) == /\ rpc[p] = "starting"
               /\ \/ running' = TRUE /\ sup' = "started" /\ RGoto(p, "exit0")
                  \/ sup' = "error" /\ RGoto(p, "exit1") /\ UNCHANGED running
                  \/ RGoto(p, "exit1") /\ UNCHANGED addon
               /\ UNCHANGED <<layers, job, pc, saw>>

Remote(p) == Apply(p) \/ SupStart(p)

-----------------------------------------------------------------------------
(* Supervisor, the add-on and other people. *)

\* A request given up by its sender is carried out after all, or never.
LateRequest == \E c \in late :
                 /\ late' = late \ {c}
                 /\ opts' \in {c, opts}
                 /\ UNCHANGED <<addon, yaml, tmps, job, pc, rpc, saw>>

\* The container is stopped, or exits; Supervisor may misreport it for a while.
AddonDown == /\ running
             /\ running' = FALSE
             /\ sup' \in {sup, "stopped"}
             /\ UNCHANGED <<layers, job, pc, rpc, saw>>

SupNotices == /\ \/ ~running /\ sup = "started" /\ sup' \in Quiescent
                 \/ running /\ sup' \in {"started", "error"}
              /\ UNCHANGED <<running, layers, job, pc, rpc, saw>>

\* Zigbee2MQTT saves its settings while it runs.
AddonSaves == /\ running
              /\ \E f \in Files : yaml[f] # NoFile /\ yaml' = [yaml EXCEPT ![f] = "saved"]
              /\ UNCHANGED <<addon, opts, late, tmps, job, pc, rpc, saw>>

Environment == LateRequest \/ AddonDown \/ SupNotices \/ AddonSaves

\* Home Assistant's user interface: an edit of a layer, a start, or a repair by
\* hand that makes the layers agree on c again.
Foreign ==
    /\ \/ opts' = "edited" /\ UNCHANGED <<addon, yaml>>
       \/ \E f \in Files : /\ yaml[f] # NoFile
                           /\ yaml' = [yaml EXCEPT ![f] = "edited"]
                           /\ UNCHANGED <<addon, opts>>
       \/ ~running /\ running' = TRUE /\ sup' = "started" /\ UNCHANGED <<opts, yaml>>
       \/ \E c \in Configs : /\ ~running
                             /\ opts' = c
                             /\ yaml' = [f \in Files |-> IF yaml[f] = NoFile THEN NoFile ELSE c]
                             /\ UNCHANGED addon
    /\ UNCHANGED <<late, tmps, job, pc, rpc, saw>>

-----------------------------------------------------------------------------
(* The specifications. *)

Step(p) == Local(p) \/ LocalFails(p) \/ Remote(p) \/ RemoteRaises(p) \/ Kill(p)

\* One command at a time: the next one begins when nothing of the previous ones
\* is left running and in-flight requests have settled; other people touch the
\* add-on between commands only.
Next == \/ \E p \in Procs, j \in Jobs : Quiet /\ Begin(p, j)
        \/ \E p \in Procs : Step(p)
        \/ Environment
        \/ Quiet /\ Foreign

Spec == Init /\ [][Next]_vars

\* A command is retried, or the next one given, while an earlier one whose
\* local process has ended may still be at work on the host.
OverlapNext == \/ \E p \in Procs, j \in Jobs :
                    /\ \A q \in Procs : pc[q] \notin Active
                    /\ Begin(p, j)
               \/ \E p \in Procs : Step(p)
               \/ Environment

OverlapSpec == Init /\ [][OverlapNext]_vars

\* One command at a time, and other people act while it works, except between
\* the last checks and the write or the start they are for.
Exposed(p) == rpc[p] \in {"info2", "docker2", "replace", "starting"}

MeddledNext == \/ \E p \in Procs, j \in Jobs : Quiet /\ Begin(p, j)
               \/ \E p \in Procs : Step(p)
               \/ Environment
               \/ (\A p \in Procs : ~Exposed(p)) /\ Foreign

MeddledSpec == Init /\ [][MeddledNext]_vars

\* One command at a time, nothing is killed and no local call raises: the
\* remote program runs to its end, whatever Supervisor answers.
UnkilledNext == \/ \E p \in Procs, j \in Jobs : Quiet /\ Begin(p, j)
                \/ \E p \in Procs : Local(p) \/ Remote(p)
                \/ Environment

UnkilledSpec == Init /\ [][UnkilledNext]_vars

\* Every call has a timeout or an answer, except the wait for the remote
\* program; no fairness for the faults, the begin of a command or other people.
Fairness == \A p \in Procs : WF_vars(Local(p)) /\ WF_vars(Remote(p))

FairSpec == MeddledSpec /\ Fairness

-----------------------------------------------------------------------------
(* Properties. *)

\* The staged contents are the only ones there are, and the layers disagree.
Mixed == /\ opts \in Configs
         /\ \A r \in Roots : YamlAt(r) \in Configs \cup {NoFile}
         /\ \A c \in Configs : ~AllLayers(c)

\* p10_ha_start.start: when `ha apps start' brings the container up, both layers
\* hold, at that instant, the configuration the operator approved; the code read
\* them four remote calls earlier.
CleanStart ==
    [][\A p \in Procs : rpc[p] = "starting" /\ ~running /\ running' => AllLayers(New(p))]_vars

\* p10_ha_apply.apply: when it reports two_layer_config_applied, both layers hold
\* the new configuration in every root at that instant and the add-on is down,
\* although it read its options, container and files one after the other.
TruthfulSuccess ==
    [][\A p \in Procs : /\ pc[p] = "check_yaml" /\ pc'[p] = "succeeded"
                       => AllLayers(New(p)) /\ ~running]_vars

\* REMOTE_APPLY: once everything has settled, layers left half changed, or a
\* candidate file left behind, were reported as a failure to some operator.
ResidueReported ==
    Quiet => /\ Mixed => \E p \in Procs : /\ job[p].kind = "apply"
                                          /\ pc[p] = "failed" /\ rpc[p] # "none"
             /\ \A p \in tmps : pc[p] = "failed"

\* REMOTE_APPLY: content somebody put into the YAML by hand after the plan, and
\* before the second read of the file, is never replaced by a command.
ForeignEditKept ==
    [][rpc' # rpc => \A f \in Files : yaml[f] = "edited" => yaml'[f] = "edited"]_vars

\* REMOTE_APPLY: the YAML is never replaced under a running container.
NeverUnderRunning == [][rpc' # rpc /\ yaml' # yaml => ~running]_vars

\* main: a command that was begun ends, on both hosts, whatever other people do meanwhile.
CommandEnds ==
    \A p \in Procs : pc[p] # "new" ~> pc[p] \in Ended /\ rpc[p] \in Over

\* The comment above REMOTE_APPLY's two-layer update: "On failure before replace
\* restore old options."  (One invocation; nobody else writes.)
RestoredOnFailure ==
    Quiet => \A p \in Procs :
               /\ job[p].kind = "apply" /\ rpc[p] = "exit1"
               /\ \A r \in Roots : YamlAt(r) \in {Old(p), NoFile}
               => opts = Old(p)

\* The abstract specification: the layers are one cell, a change is under way
\* from the first request that may alter the options until the second write or
\* the last request has settled.
InFlight == \/ late # {}
            \/ \E p \in Procs : rpc[p] \in InTry \cup {"undo", "restore"}

CellOf == IF InFlight THEN "changing"
          ELSE IF \E c \in Configs : AllLayers(c)
               THEN CHOOSE c \in Configs : AllLayers(c)
               ELSE "broken"

TL == INSTANCE TwoLayer WITH cfg <- CellOf, up <- running, busy <- ~Quiet

\* p10_ha_apply and p10_ha_start, one command at a time, keep the promise of
\* TwoLayer: change whole configurations under a stopped add-on, start whole ones.
KeepsPromise == TL!Spec
=============================================================================

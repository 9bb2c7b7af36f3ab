----------------------------- MODULE RadioReset -----------------------------
(***************************************************************************)
(* p10_radio_reset: restart the P10 radio of an MR4U that has stopped to   *)
(* answer.  The radio is looked at over the USB port of Home Assistant,    *)
(* the reset is asked for over the HTTP interface of the device, and the   *)
(* radio is looked at again, a few times, while it boots.                  *)
(*                                                                         *)
(* A request whose answer is lost may still be carried out, later, while   *)
(* the command has ended and is perhaps given again.                       *)
(***************************************************************************)
EXTENDS Naturals

CONSTANTS Runs,       \* the runs of the command
          Devices,    \* MR4U devices
          Probes      \* looks at the radio after the reset (6 in the code)

ASSUME ProbesAssumption == Probes \in Nat \ {0}

VARIABLES
    pc, mode, n,     \* per run: where recover is, --execute or not, looks so far
    host, usb,       \* per run: the devices --host and --usb-device name; nothing
                     \* compares them
    listed,          \* devices whose /ha_info is that of the expected P10
    fw,              \* the revision that runs on the radio, per device
    legible,         \* devices whose answers happen to have a zero check byte
    radio,           \* what the radio does, per device
    up,              \* is the Zigbee2MQTT add-on running?
    asked,           \* runs whose reset request is on its way
    carried,         \* how often the reset of a run was carried out
    overtaken        \* history, which only properties read: runs that found the
                     \* add-on stopped and are still to reset when it is started

arguments == <<mode, host, usb>>
device == <<listed, fw, legible, radio, asked, carried>>
world == <<device, up, overtaken>>
vars == <<pc, n, arguments, world>>

Working == {"info", "z2m", "identity", "pre", "reset", "sent", "post"}
Ended == {"preflight", "verified", "unverified", "failed"}

TypeOK == /\ pc \in [Runs -> {"idle"} \cup Working \cup Ended]
          /\ mode \in [Runs -> {"preflight", "execute"}]
          /\ n \in [Runs -> 0 .. Probes]
          /\ host \in [Runs -> Devices] /\ usb \in [Runs -> Devices]
          /\ listed \subseteq Devices
          /\ fw \in [Devices -> {"expected", "other"}]
          /\ radio \in [Devices -> {"dead", "booting", "alive"}]
          /\ up \in BOOLEAN
          /\ legible \subseteq Devices
          /\ asked \subseteq Runs /\ carried \in [Runs -> Nat] /\ overtaken \subseteq Runs

Init == /\ pc = [r \in Runs |-> "idle"]
        /\ n = [r \in Runs |-> 0]
        /\ mode \in [Runs -> {"preflight", "execute"}]
        /\ host \in [Runs -> Devices] /\ usb \in [Runs -> Devices]
        /\ listed \in SUBSET Devices /\ legible \in SUBSET Devices
        /\ fw \in [Devices -> {"expected", "other"}]
        /\ radio \in [Devices -> {"dead", "alive"}]
        /\ up \in BOOLEAN
        /\ asked = {} /\ carried = [r \in Runs |-> 0] /\ overtaken = {}

Goto(r, from, to) == pc[r] = from /\ pc' = [pc EXCEPT ![r] = to]

-----------------------------------------------------------------------------
(* recover. *)

\* A run is given at any time, whatever has become of the requests of others.
Begin(r) == Goto(r, "idle", "info") /\ UNCHANGED <<n, arguments, world>>

\* One step that reads and goes on, or ends the run.
Look(r, at, ok, to) == /\ Goto(r, at, IF ok THEN to ELSE "failed")
                       /\ UNCHANGED <<n, arguments, world>>

ValidateTarget(r) == Look(r, "info", host[r] \in listed, "z2m")

\* Faulty variant: the add-on is not looked at.
QuiescentUnread(r) == Look(r, "z2m", TRUE, "identity")

Quiescent(r) == Look(r, "z2m", ~up, "identity")

Identity(r) == Look(r, "identity", TRUE, "pre")

\* What a ping and a version request bring.  The add-on may read the answer of the radio, and
\* REMOTE_PROBE takes no frame but one with a zero check byte: it sums up a frame without
\* that byte and wants zero.
Answers(d) == IF radio[d] = "alive" /\ d \in legible THEN {fw[d]} \cup {a \in {"silent"} : up}
                                                     ELSE {"silent"}

\* A radio that answers is not reset.
PreProbe(r) == \E a \in Answers(usb[r]) :
    IF mode[r] = "preflight" THEN Look(r, "pre", TRUE, "preflight")
                             ELSE Look(r, "pre", a = "silent", "reset")

ResetOnce(r) == /\ Goto(r, "reset", "sent")
                /\ asked' = asked \cup {r}
                /\ UNCHANGED <<n, arguments, listed, fw, legible, radio, carried, up, overtaken>>

\* The device says "ok" once the reset is carried out.
Acknowledged(r) == carried[r] > 0 /\ Look(r, "sent", TRUE, "post")

\* Faulty variant: any answer will do.
PostProbeAnyRevision(r) ==
    /\ n' = [n EXCEPT ![r] = @ + 1]
    /\ \E a \in Answers(usb[r]) :
          Goto(r, "post", IF a # "silent" THEN "verified"
                          ELSE IF n'[r] < Probes THEN "post" ELSE "unverified")
    /\ UNCHANGED <<arguments, world>>

\* Faulty variant: another reset when the radio stays silent.
PostProbeResets(r) ==
    /\ n' = [n EXCEPT ![r] = (@ + 1) % Probes]
    /\ \E a \in Answers(usb[r]) :
          Goto(r, "post", CASE a = "expected" -> "verified"
                            [] a = "other" -> "failed"
                            [] a = "silent" -> IF n'[r] # 0 THEN "post" ELSE "reset")
    /\ UNCHANGED <<arguments, world>>

\* The loop over post_probe: the first answer decides, and the last look ends it.
PostProbe(r) ==
    /\ n' = [n EXCEPT ![r] = @ + 1]
    /\ \E a \in Answers(usb[r]) :
          Goto(r, "post", CASE a = "expected" -> "verified"
                            [] a = "other" -> "failed"
                            [] a = "silent" -> IF n'[r] < Probes THEN "post" ELSE "unverified")
    /\ UNCHANGED <<arguments, world>>

\* A call raises: bad arguments, SSH or HTTP time out, the device does not say "ok".
Raises(r) == \E at \in Working : Look(r, at, FALSE, at)

Recover(r) == \/ ValidateTarget(r) \/ Quiescent(r) \/ Identity(r) \/ PreProbe(r)
              \/ ResetOnce(r) \/ Acknowledged(r) \/ PostProbe(r)

-----------------------------------------------------------------------------
(* The device, and people. *)

\* The device carries a request out, or loses it.
Handle(r) == /\ r \in asked /\ asked' = asked \ {r}
             /\ \/ /\ radio' = [radio EXCEPT ![host[r]] = "booting"]
                   /\ carried' = [carried EXCEPT ![r] = @ + 1]
                \/ UNCHANGED <<radio, carried>>
             /\ UNCHANGED <<pc, n, arguments, listed, fw, legible, up, overtaken>>

\* A radio comes up, or not; one that worked stops to answer.
RadioMoves(d) == /\ \/ radio[d] = "booting" /\ radio' \in {[radio EXCEPT ![d] = s] : s \in {"alive", "dead"}}
                    \/ radio[d] = "alive" /\ radio' = [radio EXCEPT ![d] = "dead"]
                 /\ UNCHANGED <<pc, n, arguments, listed, fw, legible, up, asked, carried, overtaken>>

\* A run that found the add-on stopped, and whose reset may still be carried out.
Resetting(r) == pc[r] \in {"identity", "pre", "reset"} \/ r \in asked

\* People start and stop the add-on, or power a device off and on.
People == /\ \/ /\ up' = ~up /\ UNCHANGED radio
                /\ overtaken' = overtaken \cup {r \in Runs : up' /\ Resetting(r)}
             \/ /\ \E d \in Devices : radio[d] = "dead" /\ radio' = [radio EXCEPT ![d] = "alive"]
                /\ UNCHANGED <<up, overtaken>>
          /\ UNCHANGED <<pc, n, arguments, listed, fw, legible, asked, carried>>

Next == \/ \E r \in Runs : Begin(r) \/ Recover(r) \/ Raises(r) \/ Handle(r)
        \/ \E d \in Devices : RadioMoves(d)
        \/ People

Spec == Init /\ [][Next]_vars

\* Every call has a timeout; nothing is assumed of devices and people.
FairSpec == Spec /\ \A r \in Runs : WF_vars(Recover(r) \/ Raises(r))

-----------------------------------------------------------------------------
(* Properties. *)

\* recover, single-shot: however it ends and however late its request meets the device,
\* a run resets a radio at most once, and only when it was given with --execute.
SingleShot == \A r \in Runs : /\ carried[r] <= 1 /\ (r \in asked => carried[r] = 0)
                              /\ carried[r] > 0 \/ r \in asked => mode[r] = "execute"

\* require_z2m_quiescent: no reset is carried out while the add-on uses the radio, except
\* the late one of a run after whose look the add-on was started.
NotUnderNetwork == [][\A r \in Runs : carried'[r] # carried[r] => ~up \/ r \in overtaken]_vars

\* recover: "verified" is said after the reset of this run, the only one it asks for, and
\* of a radio that answers with the revision that was expected, whoever else acts
\* meanwhile; that radio is the one of --usb-device, which need not be the one of --host.
VerifiedTrue == [][\A r \in Runs : pc[r] # "verified" /\ pc'[r] = "verified"
                     => carried[r] = 1 /\ radio[usb[r]] = "alive" /\ fw[usb[r]] = "expected"]_vars

\* "P10 already answers raw USB ZNP; refusing recovery reset": no run goes on to reset the
\* radio it looks at while that radio is answering and nobody else reads its answers.
HealthyRefused == [][\A r \in Runs : pc[r] = "pre" /\ pc'[r] = "reset" /\ radio[usb[r]] = "alive" => up]_vars

\* recover: a run ends, also when the radio never answers again.
Answered == \A r \in Runs : pc[r] # "idle" ~> pc[r] \in Ended

\* Where a run stands tells what has become of its request.
Requested(r) ==
    /\ r \in asked => carried[r] = 0 /\ pc[r] \in {"sent", "failed"}
    /\ pc[r] \in {"idle", "info", "z2m", "identity", "pre", "reset", "preflight"} => carried[r] = 0
    /\ pc[r] \in {"post", "verified", "unverified"} => carried[r] = 1
    /\ carried[r] <= 1
    /\ pc[r] \in {"reset", "sent", "post"} \/ r \in asked \/ carried[r] > 0 => mode[r] = "execute"

ResetInv == /\ TypeOK
            /\ \A r \in Runs : Requested(r)
            /\ \A r \in Runs : Resetting(r) => ~up \/ r \in overtaken
            /\ \A r \in Runs : pc[r] \in {"idle"} \cup Working => n[r] < Probes
=============================================================================

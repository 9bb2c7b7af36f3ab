# TLA+ models of the P10 coordinator migration tools

The repository holds command-line tools (`src/deploy`, Python) with which an operator moves a
Zigbee2MQTT network from a SONOFF coordinator to an SMLIGHT MR4U P10, from a workstation, over
SSH to a Home Assistant host.  The tools are short programs, but every one of them acts on a
system that goes on by itself: Supervisor, the Zigbee2MQTT add-on, the radio, other people.  They
read remote state with one call, decide, and write with another; links drop; programs started on
the host outlive the SSH session; answers arrive after the tool that asked has gone.  The models
here are about that.

## Inventory

| component | state | operations | hard part | what makes it correct |
|---|---|---|---|---|
| `p10_ha_apply` two-layer change | add-on options (Supervisor), `configuration.yaml`, a candidate file, SSH session, remote program | `live_plan`, `apply`, the embedded `REMOTE_APPLY` | two writes that cannot be atomic, lost answers, orphaned remote program, two names of the data root | success is true; whole configurations only; failures reported; hand edits of the YAML kept |
| `p10_ha_start` | add-on state, container | `prestart`, `start` | check and act four calls apart | the add-on comes up on the approved configuration |
| `p10_ha_state` | – | `addon_quiescent` | Supervisor and docker may disagree | both must say "down" |
| `p10_data_bundle` | archive, data directory | `capture`, `walk`, `_read_to_archive`, `verify` | copying files that are being written, stamps of one-second resolution | the archive is a snapshot as far as stamps tell; a cold one is current |
| `p10_outage_freeze` | add-on state | `source_state`, `freeze` | `ha apps stop` may fail silently | the capture is taken under a stopped add-on |
| `p10_usb_handoff` | the two above, stage directory, restart policy | `prepare`, `begin` | anything may change between five looks at the add-on | READY is said over a stopped add-on with a current bundle and stage |
| `p10_migration_workflow` | stage directory | `stage`, `assess` | files written one by one | a stage is complete or refused |
| `p10_usb_cutover` | stage directory, serial port | `discover`, `stage_usb` | state file rewritten in place, ZNP frames with deadline | as above; the probe believes valid frames only |
| `p10_cutover_prepare` | snapshot directory | `capture`, `stable_remote_file`, `offline` | files that are written while they are copied, two captures with one target | a snapshot with a manifest is whole |
| `p10_config_stage` | snapshot and stage directories | `stage`, `render` | what is staged is read three times, people edit between | the plan speaks of the file the manifest was made from; only the serial block changes |
| `p10_radio_reset` | radio, HTTP management API | `recover` | lost answer of the reset, retries of the probe | one reset a run, under a stopped add-on; a radio that answers is not reset; "verified" is true |
| `p10_native_ha_backup` | Supervisor's backups and jobs | `perform` | check and create apart, endless poll | no duplicate unless runs race, a backup reported is the run's own |
| `p10_target_endpoint`, `p10_readonly`, `p10_nv_lengths` | byte stream over TCP or a serial port | ZNP requests | split, noisy, late frames; answers that name no request | what is taken for an answer was sent as one; a scan is of one firmware |
| `p10_neighbor_capacity` | – | `decode_capture`, `snapshot_report`, `macro_report` | pages of a table that changes while it is read | a population that is reported was real; a table that was still is reported as it is; routers in all captures were there that often |
| `p10_device_acceptance` | – | `baseline`, `compare` | a database that is older than what it speaks of | a device listed as seen has reported since the cutover |
| `p10_migration_backup`, `p10_capacity_gate`, `p10_firmware_audit`, `p10_postflash_quarantine_preflight` | – | verdicts over recorded documents | boundaries, combinations of evidence | a verdict of success implies its evidence |

How they interact: `begin` calls `freeze` (which calls `capture`), `verify` and `stage`;
`stage_usb` calls `stage` and `discover`; `config_stage.stage` calls `offline` on what
`cutover_prepare.capture` wrote and `verify_endpoint`; `apply` and `start` read the stage directory
and call `live_plan`, `addon_info` and `addon_quiescent`; `nv_lengths` uses the frame reader of
`readonly`.  All of them share the add-on, its data directory and its options with Supervisor, Home
Assistant's user interface and the add-on itself, without any lock; those that talk to the radio
share its serial port, without numbering what they ask.

The list of hazards, each at its line and with the properties that cover it, is in
`PROJECT.json`; a hazard no property covers has a note that says why.

## Modules

| module | models |
|---|---|
| `TwoLayer` | abstract promise of apply and start: one configuration cell, an add-on that is up or down |
| `ConfigApply` | `p10_ha_apply.py`, `p10_ha_start.py`, `p10_ha_state.py` |
| `ConfigApplyProofs` | proofs of its invariants, of its action properties and of the refinement of `TwoLayer` |
| `DataBundle` | `p10_data_bundle.py` against a writing add-on |
| `DataBundleProofs` | proofs of `Snapshot`, `ColdIsCurrent` and `StoppedThroughout` |
| `UsbHandoff` | `p10_usb_handoff.py`, `p10_outage_freeze.py`, `stage` as one step; it extends `DataBundle`, whose actions are the capture it waits for |
| `UsbHandoffProofs` | proofs of `ReadyIsSafe`, and that it implements `DataBundle` |
| `Staging` | `stage`, `stage_usb` and `stage_files` around the stage directory |
| `PrivateSnapshot` | `p10_cutover_prepare.capture` and `p10_config_stage.stage` around the snapshot directory |
| `SerialConfig` | what both stages make of the serial block: `render`, `render_minimal`, `usb_yaml`, the agreement of file and options |
| `StagingProofs` | proofs about all three: `AcceptedIsWhole`, `DoneIsUsable`, `SnapshotIsWhole`, `PlanIsTrue` and `TargetIsMinimal` |
| `NativeBackup` | `p10_native_ha_backup.py` against Supervisor's requests and jobs |
| `NativeBackupProofs` | proofs of `Unique` and `OwnBackup` |
| `RadioReset` | `p10_radio_reset.py` against devices, radios and the add-on |
| `RadioResetProofs` | proofs of `SingleShot`, `NotUnderNetwork` and `VerifiedTrue` |
| `ZnpReader` | the four readers of ZNP frames, byte by byte |
| `ZnpSession` | the tools' conversations with a radio: USB and TCP probe, read-only inventory, scan of NV lengths |
| `ZnpProofs` | proofs about both: `TakenIsFrame`, `FirstAnswer`, `OwnAnswers` and `ScanIsTrue` |
| `NeighborPagination` | `decode_capture` and `snapshot_report` of `p10_neighbor_capacity.py` against a table that changes |
| `Acceptance` | `p10_device_acceptance.py` and `assess` against a Zigbee2MQTT that saves and is killed |
| `ObservationProofs` | proofs about both: `PaginationInv`, `PopulationWasReal`, `WholeWhenStill`, `ReportIsTrue` and `AssessIsTrue` |
| `MCConfigApply`, `MCDataBundle`, `MCUsbHandoff`, `MCNativeBackup`, `MCRadioReset` | constants and symmetry for TLC |
| `MCStaging`, `MCRadio`, `MCObservation` | the same for several modules that share no variable: in a behaviour one part is at work (`part`) and the others stay where they begin |

Definitions marked "Faulty variant" are programs with a plausible mistake; each is told apart
from the real one by a property (`PROJECT.json`, `mutants`).  No specification uses them.

### ConfigApply

An invocation `p` is a local process (`pc[p]`) and a program on the host (`rpc[p]`), because the
second one outlives the first when the link drops (`LocalFails` leaves `rpc` alone).  The layers are
`opts` (what Supervisor holds), `yaml[f]` per file and `FileOf`, which says which file each
candidate root shows: `/config` and `/homeassistant` may be one directory or two.  A
configuration is `"source"`, `"target"`, `"edited"` (by a person) or `"saved"` (by the running
add-on); the hashes the code compares tell exactly these apart.

Every SSH, HTTP, docker and file call is a step.  `PlanInfo`, `PlanDocker` and `PlanRoot` are
`live_plan`; `PlanRoot` reads one root per step into `saw[p]`.  `Launch` hands over to
`REMOTE_APPLY` (`Apply`, whose labels follow the program text: read, info1, docker1, create,
write, post, reread, info2, docker2, replace, info3, docker3, final, and unlink, undo, restore
for the finally clause) or to `ha apps start` (`SupStart`).  Any call may raise (`RemoteRaises`,
`OnRaise`), the process may be killed (`Kill`), a POST may be rejected, or carried out later
though its sender has given up (`late`, `LateRequest`).  Supervisor's state may lag behind
the container (`AddonDown`, `SupNotices`).

Four next-state relations ask different questions:

- `Spec`: commands one at a time, and other people act between commands only.  This is the
  operator's procedure; under it the strong properties hold.
- `OverlapSpec`: the next command may be given as soon as the CLI has returned, which is all an
  operator sees.
- `MeddledSpec`: other people act during a command, except between the last check and the
  write or start it is for (a gap no client of Supervisor can close).
- `UnkilledSpec`: nothing is killed and no call raises but the POSTs.

`FairSpec` is `MeddledSpec` with fairness.

### DataBundle

The content of a file is the number of times it was written.  Its stamp is the pair of size and time that `lstat` returns;
as `st_mtime` counts whole seconds and a size may come back, a write sets any stamp, also the one there was.  A file is
read in two parts.  `Spec` lets anybody start the add-on and lets it crash during
a capture, but nobody stops it then; `OpenSpec` lets it be stopped as well.  `ran`, `atWalkEnd` and `blurred` are history
variables for the properties: `blurred` names the files that were written, before their copy was done, with the very stamp that the walk had
noted.  Of those, and of no others, may an archive hold something else than `Snapshot` promises.
The add-on options and the symbolic links in the archive are left out.

### UsbHandoff

`step` is the position in `begin`; while it is `"capture"` the steps are those of `DataBundle`.
`Check` is a read followed by a decision.  The hot bundle given to the command holds version 0
of the YAML.  `Others` are people who start the add-on or change `boot` and `watchdog`, until the
command says it is ready; `Automatic` restarts by Supervisor go on afterwards.  Supervisor's state is
taken to follow the container without delay here; the lag is part of `ConfigApply`.

### Staging

The content of a file is the bundle it was made from, or that it is cut off; the state file
carries hashes, that is, the bundle of the rollback files and the bundle of the target files once
they are there.  `Plan` is the order of the writes of the three ways to stage (source only, TCP
endpoint, USB); `Open` and `Close` are the two halves of every write, the last of which, for USB,
truncates the state that is already complete.  A command may die between any two (`Dies`), the power may fail
(`PowerFails`, nothing is flushed), people may remove the directory and stage again (`Removed`), while
`stage_files` reads state and files one by one.  `owner` and `intact` are history variables.  The checks of
identity and serial settings, and the probe of the P10, are commands that go on or raise; what they check of the
serial settings is in `SerialConfig`, what the probe does in `ZnpReader` and `ZnpSession`.

### PrivateSnapshot

Every `stat`, `open`, read, `mkdir`, and both halves of every write are steps.  A content is the sequence of
the halves it was read or written in, so a file that was cut off, one that was read while it was replaced, and one
that was edited afterwards are different from every version of the live file.  Two captures may have
one `--out`; `capture` asks at its beginning whether the directory is there, and `mkdir` asks again.
The `stamp` of a live file is its size and its time in whole seconds, all that `stable_remote_file` compares: a write sets any stamp, so a
copy may be torn although both looks agree.  The history variable `blurred` names the files that were written, while a capture read them, with the stamp
it had noted; `SnapshotIsWhole` excepts their halves, and nothing else.
`stage` reads the copies three times (`Offline`, `Hashes`, `ReadOriginal`), the last two being a comparison with the manifest and the text that is
staged.  People edit and remove the snapshot between any two of them; they wait only for a capture to end
(`Quiet`), which writes what they would edit.  A power failure ends whatever is at work.  `exchanged` says that `configuration.yaml` was edited or removed between its hash
and the last read, where the code compares nothing any more; `PlanIsTrue` holds but for that.
What `inspect`, `verify_endpoint` and `render` ask for is a reason to raise (`StageDies`, `CaptureDies`).

### SerialConfig

A line is a key with a value: the head of the serial block, one of its keys, the head of another block, a comment, or
the continuation of a value.  `Parsed` is what `yaml.safe_load` makes of the lines (the last of two equal keys counts,
continuations belong to the value before them); `RenderMinimal` is the rewriting by lines, which sees none of this, and
`Render` the comparison of the two.  The serial options of the add-on (`options`) are rewritten apart from the file.
Both are in two ways to stage: `"tcp"`, which also wants the baud rate and flow control of the P10, and `"usb"`,
which wants the Sonoff as the source.  TCP staging is always refused when the options lack `rtscts`.

### NativeBackup

Only backups with the name of the command matter; `saved` says which runs have one.  `asked`,
`running` and `status` are a request, a job and its exit status, which outlive a run that loses
its link (`Lost`).  Backups with other names (`others`) block a run but are no duplicates.
Runs are given at any time and may overlap.  The history variable `raced` says that a run got past both of its lists although another of the name had been asked for:
the other's job ended between the two lists, its request was not a job yet, or it was to be made by a run that was past its lists itself; or that
a run asked while another waited for its answer.  `BackupInv` and `Unique` show that there is no other way to a second backup.

### RadioReset

A run names a device for HTTP (`host`) and one for USB (`usb`).  `asked` and `carried` are reset
requests on their way and carried out; a request may be carried out after its run has given
up.  `Answers` is what the probe over USB gets: nothing from a dead or booting radio, and possibly
nothing from a live one whose port the add-on reads too; and nothing from one whose answers have another check byte than zero (`legible` has
those that have zero; finding 3).  The recorded inventory (`listed`) and the firmware that runs (`fw`) are independent.
Runs overlap, `--host` and `--usb-device` may name different devices, and people start the add-on at any time.  `overtaken` is a history variable: the
runs that found the add-on stopped and were still to reset, or had a request on its way, when it was started.  The device is external; its contract here is that it
says "ok" only when the reset has been carried out.

### ZnpReader

Four tools have a reader of their own.  Two gather what `select` and `os.read` bring, any number of bytes at a time,
in a buffer (`Select`, `TakeFrame`); two read start byte, head and tail one after the other (`ReadStart`, `ReadHead`,
`ReadTail`), and a read that is short makes one of them raise and the other begin anew.  `sent` is what the radio
sends after one request: answers, frames for somebody else, frames too large, damaged ones, frames without a start byte and
noise, in any order.  The checksum is a real XOR of bytes of three bits (a bit of it is the parity of that bit in all bytes), so that SOF, lengths, commands and data can be mistaken
for each other, as in the code.  What the models show of the code, and no test of it does:

- The reader of `p10_usb_cutover` looks for the start byte only when bytes arrive, so of two frames that come in one read
  the second is taken whatever its first byte is; `TakenIsFrame` says so.
- Stray bytes behind a frame make that reader lose a following answer; `FirstAnswer` therefore has `Clean`.
- A frame whose length is above the limit makes the buffered readers go back to `select`; a following answer that is already
  in the buffer waits for the next byte, or is lost at the deadline (`hurried`).

### ZnpSession

A tool gives the commands of its `Script` and takes the first frame that names the command (`Listen`); no frame says
which request it answers.  Up to `MaxLate` answers to tools that gave up are still on their way at the beginning;
requests and answers are lost (`Serves`), the radio is given another firmware (`Flashed`, `MaxFlashed` times) or forms a
network (`Commissioned`).  `Acceptable` is all that a tool asks of its answers, `Contiguous` the rule of
`scan_lengths`.  `trail` is a history variable: whose answers they were.

### NeighborPagination

The radio's `table` is a sequence that neighbors leave, join and replace each other in.  The collector that
reads it is not in the repository: it asks for any start index, and what it has read (`held`) may be lost,
recorded late, or recorded twice; what is typed in by hand may be wrong.  `decode_capture` takes the recorded
pages in their order and sees nothing else, so the model decodes a page when it is recorded.  A failed response
or a damaged frame refuses the capture (`Refuse`); the XOR checksum is taken to find every damage.  A report is made of captures in any
selection and order that `Chronological` lets pass, and says how many they are (`count`), the greatest population of routers (`peak`) and the
routers that are in all of them (`stable`).  `during`, `sizes`, `changes`, `most`, and `still` and `there` of an accepted capture are history.

### Acceptance

Zigbee2MQTT keeps its records in memory (`known`), saves them (`saved`) when it likes, and may be killed in between;
devices report, join and leave.  `baseline` is `parse_database` before the cutover, `Assess` compares it with the
database afterwards.  `heard` and `left` are history variables: what really happened.  Groups, which are compared
in the same way, and counts are left out; so is a `--cutover-utc` that was typed in from another clock.

## Runs

| run | question | bounds | result |
|---|---|---|---|
| `apply_serial` | do success, start and the two layers agree when commands are given one at a time? | 2 invocations, 2 roots on 2 files | holds |
| `apply_overlap` | is half-done work always reported when commands overlap? | 3 invocations, 2 aliased roots | holds |
| `apply_meddled` | are hand edits of the YAML and a running container respected, and does the command end? | 1 invocation, 2 aliased roots | holds |
| `apply_orphan_start` | does a start come up on what it verified when commands overlap? | 2 invocations | **violated** |
| `apply_restore` | are old options restored on every failure before the replacement? | 1 invocation | **violated** |
| `bundle_snapshot` | is an accepted archive a snapshot, whoever starts, stops or writes? | 2 files, 2 writes each, 3 stamps | holds |
| `handoff_ready` | is READY safe and the cold bundle current, was the add-on down throughout, is the command answered? | 2 files, 1 write each, 2 stamps | holds |
| `staging_crash` | is what is written on the workstation whole when it is accepted, and is only the serial block rewritten? | 2 commands, 2 cold bundles and a hot one; 2 captures of 2 files with 2 versions and 2 stamps; 5 lines, at most 1 out and 2 in | holds |
| `backup_unique` | is there one backup per name unless runs race, does a run report its own, and end? | 3 runs | holds |
| `radio_link` | does a run reset at most once, under a stopped add-on, is "verified" true, does a run end; was what is taken sent as one piece, as an answer with the sum the reader wants, and is the first one taken; is a scan of one firmware? | 2 runs, 2 devices, 2 looks; 4 readers, 3 items of 3-bit bytes; 3 tools, 3 late answers, 1 flash, 3 NV items | holds |
| `reset_healthy` | does a run refuse to reset a radio that answers? | 2 runs, 2 devices, 6 looks | **violated** |
| `observation` | is a reported population real, a still table reported as it is, and a report of captures true; has a device that is listed as seen reported? | 3 neighbors, 1 entry a page, 2 changes a capture, 2 pages held, 2 captures; 2 devices, 2 times | holds |

Bounds.  Two invocations are a command and its retry, a command and the opposite phase, or an
apply and a start; three give an orphan of an orphan.  Two roots are what the code tries
(`REMOTE_ROOTS`); they are checked as two names of one directory and as two directories.  Two
files are one that a capture requires and one that may come and go; two writes make a file change both before and
after it is noted.  Two looks are a silent one and the last (the code has six, and `reset_healthy` too); of the two runs in `radio_link` one has `--execute`, the other is given with
either and names one device for both arguments, and the radio of a device that is not legible has one revision, as nobody ever reads it (`ResetInit`).
In `handoff_ready` one write with any stamp is enough for a started add-on to make an archive stale unseen.  For the reader of `p10_radio_reset` the sum is the program's own, which is wrong (finding 3).  Two changes let a neighbor leave and come back at
another place, which is what puts one address on two pages; two held pages can be recorded in the wrong order.
Three items put an unwanted, a damaged or a stray item both before and between answers, in every splitting of the
bytes.  Three late answers are the number of different commands at the beginning of a scan; a fourth one could be taken for
an own one, which is why `OwnAnswers` has `Distinct`.  Three NV items are the fewest with a gap between two that are there.
One line out and two in make keys missing, doubled, continued, commented and moved out of their block.
Two times are before and after the cutover.  The proofs below have none of these bounds but that of `ScanIsTrue`,
which is in its statement.

The inductive invariants that the runs check (`IInv`, `SnapInv`, `HandoffInv`, `StageInv`, `SnapshotInv`, `BackupInv`,
`ResetInv`, `PaginationInv`) contain the type invariants of their modules.

Fairness.  `apply_meddled` assumes weak fairness of both processes of an invocation: every HTTP
call, docker call and SSH command has a timeout, except the wait for the remote program
(`timeout=None`), for which the fairness says that the remote program runs on or is killed and that SSH reports the
end.  Nothing is assumed of other people, Supervisor's late requests or the next command.
`handoff_ready` assumes the same of `begin`.  `radio_link` assumes it of `recover`, whose calls all have
timeouts, and nothing of devices.  `backup_unique` assumes in addition that Supervisor ends what it was
asked for: the loop over `exit_status_ready` has no other end.

Findings (see `PROJECT.json`):

1. `apply_orphan_start`: two commands overlap at the host.  The link of the first drops while its remote program goes on, and the operator gives the second.
   If the first is an apply, prestart of the second sees whole layers, the orphan posts the other options, and the add-on starts
   on layers that disagree.  If the first is a start, it has verified the layers, the apply finds the add-on still down and posts, and then the orphan's `ha apps start` is
   carried out.  TLC prints one of the two, they are equally long.  Under `Spec` neither can happen (`StartsClean`), so waiting for the remote
   program, or a lock on the host, closes it.
2. `apply_restore`: `updated_options` is set after the POST has returned, so a POST that was carried out but whose answer was
   lost is not undone.
3. `reset_healthy`: the probe embedded in `p10_radio_reset` leaves the check byte out of the sum that must be zero, so it
   drops every valid answer whose check byte is not zero by chance.  A radio that answers is then silent to it: the refusal to reset
   a healthy radio does not happen, and after the reset the radio is not recognised either.  `radio_link` therefore checks what the sequence around the
   probe promises with legible and illegible radios alike: `SingleShot`, `NotUnderNetwork`, `VerifiedTrue`.

One assumption under which properties hold is the operator's, not the code's: `StoppedThroughout` and `ColdIsCurrent` hold because nobody but the operator
stops the add-on during a cold capture.  The code looks at it twice; if somebody
else starts and stops it between the two looks, `app_stopped_throughout_capture` is written although it ran.

Where the code cannot keep a promise in some window, the property names the window, by a history variable or a condition on what was sent, instead of assuming it away, and says that
there is no other: `blurred` (a write with the size and the second that were noted, in `DataBundle` and `PrivateSnapshot`), `exchanged`
(`configuration.yaml` after its hash), `raced` (requests and jobs between two lists), `overtaken` (the add-on started after a run has looked),
`hurried` and `Clean` (the readers of ZNP frames), `Distinct` (late answers to the same command).  No program reads them.

## Proofs

All theorems hold for every value of the constants, from the named assumptions
(`RootsAssumption`, `FilesAssumption`, `YamlAssumption`, `ColdAssumption`, `SnapshotAssumption`, `ProbesAssumption`,
`ProgramsAssumption`, `ScanAssumption`, `NeighborsAssumption`, `SizesAssumption`, `SourcesAssumption`, `ToolsAssumption`), which say what kind of values the constants are; no
theorem assumes anything of the operator but those about a cold capture, whose specification `Spec` lets nobody stop the add-on.

- `ConfigApplyProofs`.  `TypeCorrect` by cases over the actions.  `CleanStart` is not inductive: it says
  nothing of a command that has read half of what it needs.  `IInv` adds that busy commands are alone
  (`Alone`, including that a late request excludes further work), how far the two processes can
  be apart (`InStep`), that a container seen down stays down (`Down`) and that what a plan has read is
  still so (`StillSo`).  `Inductive` proves it, one lemma per kind of step and one step per
  conjunct; `StartsClean` and `SuccessIsTrue` follow, the second with a lemma that only its own verdict
  brings an invocation to success.  `Refinement` maps the layers to the cell of `TwoLayer`: "changing"
  from the first request until the second write or the last request has settled.
  `NeverReplacesUnderRunning` and `EditsAreKept` are about `MeddledSpec`, where people act during a command and `IInv` does not
  hold; `MeddledInv` says what the last looks of the remote program still guarantee when it writes (`Rechecked`).  `apply_meddled`
  checks the same two under `FairSpec`, which is `MeddledSpec` with fairness.
  `ResidueIsReported` is about `OverlapSpec`, where any number of orphans are about.  `ResidueReported` speaks of the end only;
  `OverlapInv` says of every moment before the first reported failure (`Untold`) that the layers agree, or that the one command at
  work has changed them and its checks will see what is wrong (`CheckedSoFar`), and whose a candidate file is.
- `DataBundleProofs`.  `SnapshotTaken`: a file that was not blurred and bears, after its copy, the stamp the walk noted has not been written
  since the walk ended (`SnapInv`), so both halves of the copy are what it held then; this holds for `OpenSpec`, whoever starts and stops the add-on.  `ColdCapture`: while
  Supervisor says "stopped" nothing has moved since the capture began (`ColdInv`), because nobody
  stops an add-on that was started meanwhile.  `ManifestIsTrue`: an add-on that was started in between goes down
  again only into "error", so a second look that finds "stopped" finds one that has not run (`Unstarted`).
- `UsbHandoffProofs`.  `HandoffIsSafe`: `ColdInv` carried through the steps of `begin`, with what is known
  of the archive once it is accepted (`Complete`) and of the restart policy once READY is said.  `CallsTheCapture` shows that
  `HandoffSpec` implements the `Spec` of `DataBundle`, that is, that the command keeps the assumption under which the capture is right;
  what is proved of the capture holds of the handoff's bundle too (`HandoffBundleIsCurrent`, `HandoffManifestIsTrue`).
- `StagingProofs`.  `AcceptsWhole`: a state that can be read names one bundle (`OneBundle`), and a reader past it
  holds a cold one (`StageInv`), whatever has become of the directory since; the hashes do the rest.
  `StagesUsable`: `UseInv` adds to `StageInv` how far the writer of a directory has come in its `Plan` (`Progress`): what is behind
  it is written and stays so while the directory is its own, whatever other commands do, die of or remove.
  `SnapshotKept`: neither `SnapshotIsWhole` nor `PlanIsTrue` is inductive, because a manifest is written from what a capture holds in
  memory.  `SnapshotInv` adds that what a capture has dealt with is sound (one version of the file, unless it is blurred), that what it has read of the file at hand is
  what the file is now as long as that bears the noted stamp (`Found`), that at most one capture
  writes and has written what it holds (`Copied`), and that `stage` goes on only with copies that are what the manifest it has
  read lists, unless they were exchanged (`Checked`); `SnapshotWhole` and `PlanTrue` follow.
  `TargetMinimal` (`TargetIsMinimal`) is about files of any length: a line is rewritten as a line, so what the parser sees before and after
  differs in the two keys only, if the check after the rewriting passes.
- `NativeBackupProofs`.  `NeverTwo` and `AnswersWithOwn` from `BackupInv`: until something raced, requests, jobs and backups of the
  name and runs that are about to ask are at most one altogether, there is no backup while a run is between its lists, and what there is while a run waits is its own.
- `RadioResetProofs`.  `ResetsOnce`, `NetworkIsDown` and `VerifiedIsTrue` from `ResetInv`: where a run stands tells what has become of its request (`Requested`), and
  an add-on that is up although a run found it stopped was started meanwhile (`Resetting`).  Nothing is assumed of when runs are given, of their
  arguments or of the people who start the add-on.
- `ZnpProofs`.  `TakesOwn` (`OwnAnswers`): what is on its way is in the order it was asked for, behind at most so many late answers as
  have not been passed; a late answer that is taken for an own one leaves the own one to be taken for the next command, and
  only if that has the same name.  So different commands shake the late answers off.  `ScanTrue` (`ScanIsTrue`) adds that between
  two own answers with the same version the firmware has not changed, or has changed away and back, which takes two flashes.
  `TakenFrame` (`TakenIsFrame`) and `FirstTaken` (`FirstAnswer`) are about the readers, for any number of items and any splitting.
  `ReaderInv`: what a reader holds is what was sent up to where it has read (`Upto`).  `FirstInv`: as long as a reader was not
  hurried, the place where what it holds begins is the beginning of an item, or inside one that it may leave out (`At`), and no item before it
  is one that it should take or stop at (`Passed`).  The hard case is the check byte of a frame too large for `command`, which may be a
  SOF: the byte after it is then read as a length, and is above the limit because it is the SOF of the next frame.  That needs `Clean`.
- `ObservationProofs`.  `PopulationReal` and `WholeTable` from `PaginationInv` and `Cleared`: a page that is held was true of
  this capture (nothing is held over from the one before), and while the table has not changed, what was decoded
  is its first part, so a cursor that has reached the total has read all of it.  `ReportTrue`: each capture of a still table that is kept names a population that
  was there, so the greatest is at most the greatest the table ever had (`PeakInv`); and the captures of a document are different ones (`StableIsLasting`), so a
  router in all of them was there during as many as are counted.
  `AssessTrue`: `AssessIsTrue` compares two databases and what really happened in between; `RecordsInv` carries it through memory, file and
  kills: what is read later is of the same role unless the device has left (`StillThere`), and no record is later than the last report (`HeardOf`).

What a recursive function computes (`FlattenSeq` of any number of items) is proved without the induction theorems of the library, whose
parameter is an operator: the set of numbers for which the claim fails has a least element (`Least`, from `WFMin`), which leads to a
contradiction.

Every safety and action property of the passing runs is stated by a theorem.  Model-checked only: the liveness properties `CommandEnds` and `Answered`, which
rest on fairness and are beyond the prover, and the three properties that are violated.

## Not modelled

- `p10_migration_backup`, `p10_firmware_audit`: pure readings of one archive or of firmware images, line by line
  conditions without state, which tests reach.
- `p10_capacity_gate`, `p10_postflash_quarantine_preflight`: verdicts over documents the operator gives; they have no state, no order and
  no second actor.  The populations that the capacity gate reads are those of `NeighborPagination`.
- `identity_checks` of the migration workflow, `macro_report` of the neighbor capacity, groups and counts of the device acceptance, and the
  USB identity the inventory tools look at first: comparisons of values that are there.
- Three readings of the stage directory by one command: `ConfigApply` takes the stage as unchanged while a command is at work, `Staging` shows that each reading
  by itself is of a whole stage.  The command reads it for its plan, again for what it sends (p10_ha_apply.py:171), and for the check afterwards; the remote program compares the
  live layers with what was sent.
- Argument parsing, printing, the SSH helper, the YAML syntax beyond the serial block, the zip container's own checks; cryptographic hashes
  are taken to be injective.

What would come next is the cutover as a whole: handoff, staging, apply and start with the two radios and the operator's
acknowledgements, composed from `TwoLayer`, `AcceptsWhole` and `ReadyIsSafe`: never two coordinators on the air, one owner
of the serial port.

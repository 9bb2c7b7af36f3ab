-------------------------- MODULE PrivateSnapshot --------------------------
(***************************************************************************)
(* The private migration snapshot: p10_cutover_prepare.capture copies the  *)
(* live files, p10_config_stage.stage checks the copy and makes the        *)
(* rollback and target configuration out of it.                            *)
(*                                                                         *)
(* A content is the sequence of the halves it was read in: <<>> is no      *)
(* file, <<v>> one that is cut off, <<v, v>> what the file was in its      *)
(* version v, <<v, w>> a mixture.  The stamp of a file is its st_size and  *)
(* its st_mtime in whole seconds: a write may leave it as it was, or bring *)
(* back an earlier one.                                                    *)
(***************************************************************************)
EXTENDS Naturals, Sequences

CONSTANTS Captures,             \* runs of capture with one --out
          Required, Optional,   \* the names, in the order they are read
          MaxVersion            \* bound on the versions of a live file

Named(s) == {s[i] : i \in DOMAIN s}
Names == Named(Required) \cup Named(Optional)
Config == "configuration.yaml"

ASSUME SnapshotAssumption == /\ Required \in Seq(Names) /\ Optional \in Seq(Names)
                             /\ Config \in Named(Required) /\ MaxVersion \in Nat

VARIABLES
    there, version, stamp,     \* the live files
    cpc, ctodo, noted, held,   \* per capture: where it is, names left, stamp, what it has read
    made, copy, manifest,      \* the snapshot directory, its files, manifest.private.json
    spc, target,               \* stage: where it is, was a host given?
    listed, original,          \* stage: the manifest it has read, the configuration it has read
    outDir, out, plan,         \* its directory, the configurations and the plan in it
    \* history, which only properties read:
    untouched,                 \* no edit of the snapshot and no power failure
    blurred,                   \* live files a write gave the stamp noted by a capture that
                               \* had begun, and not ended, to read them
    exchanged                  \* stage: configuration.yaml was edited or removed after its
                               \* hash was compared and before its text was read

live     == <<there, version, stamp, blurred>>
reading  == <<ctodo, noted, held>>
snapshot == <<made, copy, manifest>>
memory   == <<target, listed, original, exchanged>>
output   == <<outDir, out, plan>>
snapshotVars == <<live, cpc, reading, snapshot, spc, memory, output, untouched>>

None == [is |-> "absent"]
Cut  == [is |-> "cut"]
Written(v) == [is |-> "whole", of |-> v]
NoFiles == [f \in Names |-> <<>>]
NoOutput == [f \in {"rollback", "target"} |-> <<>>]

Edited == <<0, 0>>

SnapshotInit ==
    /\ there \in SUBSET Names /\ version = [f \in Names |-> 1] /\ stamp = version
    /\ cpc = [c \in Captures |-> "idle"] /\ ctodo = [c \in Captures |-> <<>>]
    /\ noted = [c \in Captures |-> 0] /\ held = [c \in Captures |-> NoFiles]
    /\ made = FALSE /\ copy = NoFiles /\ manifest = None
    /\ spc = "idle" /\ target = FALSE /\ listed = NoFiles /\ original = <<>>
    /\ outDir = FALSE /\ out = NoOutput /\ plan = None
    /\ untouched = TRUE /\ blurred = {} /\ exchanged = FALSE

-----------------------------------------------------------------------------
(* capture. *)

Capturing == {"stat", "read", "rest", "again", "mkdir", "write", "close", "manifest", "end"}

CaptureStep(c, from, to) == /\ cpc[c] = from /\ cpc' = [cpc EXCEPT ![c] = to]
                            /\ UNCHANGED <<live, spc, memory, output>>

\* A refusal, or the end: what is written stays, what was read is gone.
Ends(c) == /\ CaptureStep(c, cpc[c], "ended")
           /\ ctodo' = [ctodo EXCEPT ![c] = <<>>] /\ noted' = [noted EXCEPT ![c] = 0]
           /\ held' = [held EXCEPT ![c] = NoFiles]
Refuses(c) == Ends(c) /\ UNCHANGED <<snapshot, untouched>>

BeginCapture(c) == cpc[c] = "idle" /\
    \/ made /\ Refuses(c)
    \/ /\ ~made /\ CaptureStep(c, "idle", "stat")
       /\ ctodo' = [ctodo EXCEPT ![c] = Required \o Optional]
       /\ UNCHANGED <<noted, held, snapshot, untouched>>

\* One name is dealt with: the next one, or the directory.
NextName(c, from) == /\ CaptureStep(c, from, IF Len(ctodo[c]) = 1 THEN "mkdir" ELSE "stat")
                     /\ ctodo' = [ctodo EXCEPT ![c] = Tail(@)] /\ noted' = [noted EXCEPT ![c] = 0]
                     /\ UNCHANGED <<held, snapshot, untouched>>

\* stable_remote_file: stat, open and read, read on, stat.
Stat(c) == cpc[c] = "stat" /\ LET f == Head(ctodo[c]) IN
    \/ /\ f \in there /\ CaptureStep(c, "stat", "read")
       /\ noted' = [noted EXCEPT ![c] = stamp[f]] /\ UNCHANGED <<ctodo, held, snapshot, untouched>>
    \/ f \notin there /\ f \in Named(Required) /\ Refuses(c)
    \/ f \notin there /\ f \notin Named(Required) /\ NextName(c, "stat")

OpenAndRead(c) == cpc[c] = "read" /\ LET f == Head(ctodo[c]) IN
    \/ /\ f \in there /\ CaptureStep(c, "read", "rest")
       /\ held' = [held EXCEPT ![c][f] = <<version[f]>>] /\ UNCHANGED <<ctodo, noted, snapshot, untouched>>
    \/ f \notin there /\ Refuses(c)

\* The open file was written over, or replaced by another.
ReadRest(c) == LET f == Head(ctodo[c]) IN
    /\ CaptureStep(c, "rest", "again")
    /\ \E v \in {held[c][f][1], version[f]} : held' = [held EXCEPT ![c][f] = Append(@, v)]
    /\ UNCHANGED <<ctodo, noted, snapshot, untouched>>

\* Faulty variant: the second stat only looks whether there is a file.
StatAgainBlind(c) == cpc[c] = "again" /\ LET f == Head(ctodo[c]) IN
    \/ f \in there /\ NextName(c, "again")
    \/ f \notin there /\ Refuses(c)

\* The stamp is the one that was noted; that the length read must be the noted size too is
\* one more refusal.
StatAgain(c) == cpc[c] = "again" /\ LET f == Head(ctodo[c])  same == f \in there /\ stamp[f] = noted[c] IN
    \/ same /\ NextName(c, "again")
    \/ ~same /\ Refuses(c)

\* The directory must be new, whatever was found when the command began.
MakeDirectory(c) == cpc[c] = "mkdir" /\
    \/ made /\ Refuses(c)
    \/ /\ ~made /\ CaptureStep(c, "mkdir", "write") /\ made' = TRUE /\ untouched' = TRUE
       /\ ctodo' = [ctodo EXCEPT ![c] = Required \o Optional]
       /\ UNCHANGED <<noted, held, copy, manifest>>

NextCopy(c, from) == /\ CaptureStep(c, from, IF Len(ctodo[c]) = 1 THEN "manifest" ELSE "write")
                     /\ ctodo' = [ctodo EXCEPT ![c] = Tail(@)]

\* A file is created, then it is whole; there is none for a name that was not found.
WriteCopy(c) == cpc[c] = "write" /\ LET f == Head(ctodo[c]) IN
    /\ \/ /\ held[c][f] # <<>> /\ copy[f] = <<>>
          /\ CaptureStep(c, "write", "close")
          /\ copy' = [copy EXCEPT ![f] = <<held[c][f][1]>>] /\ UNCHANGED ctodo
       \/ held[c][f] = <<>> /\ NextCopy(c, "write") /\ UNCHANGED copy
    /\ UNCHANGED <<noted, held, made, manifest, untouched>>

CloseCopy(c) == LET f == Head(ctodo[c]) IN
    /\ NextCopy(c, "close")
    /\ copy' = [copy EXCEPT ![f] = held[c][f]]
    /\ UNCHANGED <<noted, held, made, manifest, untouched>>

\* The manifest lists the hashes of what was read, and comes last.
WriteManifest(c) == /\ \/ CaptureStep(c, "manifest", "end") /\ manifest' = Cut /\ UNCHANGED reading
                       \/ cpc[c] = "end" /\ Ends(c) /\ manifest' = Written(held[c])
                    /\ UNCHANGED <<made, copy, untouched>>

\* inspect raises, a file is empty, too long or of another length, the connection breaks, or
\* the command is killed.
CaptureDies(c) == cpc[c] \in Capturing /\ Refuses(c)

Capture(c) == \/ BeginCapture(c) \/ Stat(c) \/ OpenAndRead(c) \/ ReadRest(c) \/ StatAgain(c)
              \/ MakeDirectory(c) \/ WriteCopy(c) \/ CloseCopy(c) \/ WriteManifest(c) \/ CaptureDies(c)

-----------------------------------------------------------------------------
(* stage, and offline in it. *)

Staging == {"offline", "manifest", "hashes", "original", "mkdir", "rollback", "target", "plan"}

StageStep(from, to) == spc = from /\ spc' = to /\ UNCHANGED <<live, cpc, reading, snapshot, untouched>>

\* A refusal, or the end.
StageEnds == /\ StageStep(spc, "ended") /\ target' = FALSE /\ listed' = NoFiles /\ original' = <<>>
             /\ UNCHANGED exchanged
StageRefuses == StageEnds /\ UNCHANGED output

BeginStage == spc \in {"idle", "ended"} /\
    \/ (~made \/ outDir) /\ StageRefuses
    \/ /\ made /\ ~outDir /\ StageStep(spc, "offline")
       /\ target' \in BOOLEAN /\ exchanged' = FALSE
       /\ UNCHANGED <<listed, original, output>>

\* A check that passes, or ends the command.
StageCheck(at, ok, to) == spc = at /\
    \/ ok /\ StageStep(at, to) /\ UNCHANGED <<memory, output>>
    \/ ~ok /\ StageRefuses

\* The required files are read and inspected; a cut one may pass, its end being a whole line.
Offline == StageCheck("offline", \A f \in Named(Required) : copy[f] # <<>>, "manifest")

\* No manifest is a refusal, a cut one cannot be parsed.
ReadManifest == spc = "manifest" /\
    \/ /\ manifest.is = "whole" /\ StageStep("manifest", "hashes") /\ listed' = manifest.of
       /\ UNCHANGED <<target, original, exchanged, output>>
    \/ manifest.is # "whole" /\ StageRefuses

\* Faulty variant: the files need only be there.
HashesExist == StageCheck("hashes", \A f \in Names : listed[f] # <<>> => copy[f] # <<>>, "original")

\* captured_files_sha256: every file listed is read again.  One after the other: what befalls
\* configuration.yaml while the others are hashed befalls it here before the last read.
Hashes == StageCheck("hashes", \A f \in Names : listed[f] # <<>> => copy[f] = listed[f], "original")

\* configuration.yaml is read a third time.
ReadOriginal == spc = "original" /\
    \/ /\ copy[Config] # <<>> /\ StageStep("original", "mkdir") /\ original' = copy[Config]
       /\ UNCHANGED <<target, listed, exchanged, output>>
    \/ copy[Config] = <<>> /\ StageRefuses

MakeOutput == spc = "mkdir" /\
    \/ ~outDir /\ StageStep("mkdir", "rollback") /\ outDir' = TRUE /\ UNCHANGED <<memory, out, plan>>
    \/ outDir /\ StageRefuses

WriteConfig(f, to) == /\ \/ StageStep(f, f) /\ out[f] = <<>> /\ out' = [out EXCEPT ![f] = <<original[1]>>]
                         \/ StageStep(f, to) /\ out[f] # <<>> /\ out' = [out EXCEPT ![f] = original]
                      /\ UNCHANGED <<memory, outDir, plan>>

\* The plan has the hash of the source, and that of the rollback file as it is on the disk.
WritePlan == /\ \/ StageStep("plan", "plan") /\ plan = None /\ plan' = Cut /\ UNCHANGED memory
                \/ /\ spc = "plan" /\ plan = Cut /\ StageEnds
                   /\ plan' = Written([source |-> original, rollback |-> out["rollback"],
                                       target |-> IF target THEN original ELSE <<>>,
                                       manifest |-> listed[Config]])
             /\ UNCHANGED <<outDir, out>>

\* inspect, verify_endpoint or render raises, or the command is killed.
StageDies == spc \in Staging /\ StageRefuses

StageConfig == \/ BeginStage \/ Offline \/ ReadManifest \/ Hashes \/ ReadOriginal \/ MakeOutput
               \/ WriteConfig("rollback", IF target THEN "target" ELSE "plan")
               \/ WriteConfig("target", "plan") \/ WritePlan \/ StageDies

-----------------------------------------------------------------------------
(* Zigbee2MQTT, people, and the power. *)

\* A file that is being read, and whose stamp was noted as s.
HalfRead(f, s) == \E c \in Captures : cpc[c] \in {"rest", "again"} /\ Head(ctodo[c]) = f /\ noted[c] = s

LiveWrite(f) == /\ version[f] < MaxVersion
                /\ version' = [version EXCEPT ![f] = @ + 1] /\ there' = there \cup {f}
                /\ \E s \in 1 .. MaxVersion :
                      /\ stamp' = [stamp EXCEPT ![f] = s]
                      /\ blurred' = IF HalfRead(f, s) THEN blurred \cup {f} ELSE blurred
                /\ UNCHANGED <<cpc, reading, snapshot, spc, memory, output, untouched>>

LiveRemove(f) == /\ f \in there /\ there' = there \ {f}
                 /\ UNCHANGED <<version, stamp, blurred, cpc, reading, snapshot, spc, memory, output, untouched>>

\* People wait until a capture has ended; they do not wait for stage, which only reads.
Quiet == \A c \in Captures : cpc[c] \notin Capturing

Edit(f) == /\ Quiet /\ copy[f] # <<>> /\ copy' = [copy EXCEPT ![f] = Edited] /\ untouched' = FALSE
           /\ exchanged' = (exchanged \/ (spc = "original" /\ f = Config))
           /\ UNCHANGED <<live, cpc, reading, made, manifest, spc, target, listed, original, output>>

RemoveSnapshot == /\ Quiet /\ made /\ made' = FALSE /\ copy' = NoFiles /\ manifest' = None
                  /\ exchanged' = (exchanged \/ spc = "original")
                  /\ UNCHANGED <<live, cpc, reading, spc, target, listed, original, output, untouched>>

RemoveOutput == /\ spc \notin Staging /\ outDir /\ outDir' = FALSE /\ out' = NoOutput /\ plan' = None
                /\ UNCHANGED <<live, cpc, reading, snapshot, spc, memory, untouched>>

\* Nothing is flushed: a file of a command that has ended may be cut off all the same.
Snip(c) == IF c = <<>> THEN c ELSE <<c[1]>>
PowerCut == /\ cpc' = [c \in Captures |-> IF cpc[c] \in Capturing THEN "ended" ELSE cpc[c]]
            /\ spc' = IF spc \in Staging THEN "ended" ELSE spc
            /\ \/ \E f \in Names : copy' = [copy EXCEPT ![f] = Snip(@)] /\ UNCHANGED <<manifest, out, plan>>
               \/ manifest # None /\ manifest' = Cut /\ UNCHANGED <<copy, out, plan>>
               \/ \E f \in DOMAIN out : out' = [out EXCEPT ![f] = Snip(@)] /\ UNCHANGED <<copy, manifest, plan>>
               \/ plan # None /\ plan' = Cut /\ UNCHANGED <<copy, manifest, out>>
            /\ ctodo' = [c \in Captures |-> <<>>] /\ noted' = [c \in Captures |-> 0]
            /\ held' = [c \in Captures |-> NoFiles]
            /\ target' = FALSE /\ listed' = NoFiles /\ original' = <<>>
            /\ untouched' = FALSE
            /\ UNCHANGED <<live, made, outDir, exchanged>>

SnapshotNext == \/ \E c \in Captures : Capture(c)
                \/ StageConfig
                \/ \E f \in Names : LiveWrite(f) \/ Edit(f)
                \/ \E f \in Named(Optional) : LiveRemove(f)
                \/ RemoveSnapshot \/ RemoveOutput \/ PowerCut

SnapshotSpec == SnapshotInit /\ [][SnapshotNext]_snapshotVars

-----------------------------------------------------------------------------
(* Properties. *)

\* Content that came from the live file, is not cut off, and is what the file was at one time
\* unless it is blurred.
Sound(f, c) == Len(c) = 2 /\ c # Edited /\ (f \in blurred \/ c[1] = c[2])

\* Every file is there and sound, but for optional ones that are missing.
Whole(files) == \A f \in Names : IF files[f] = <<>> THEN f \notin Named(Required) ELSE Sound(f, files[f])

\* capture: a snapshot with a whole manifest holds exactly what the manifest lists, all that
\* is required, and every file as it was at one time, although Zigbee2MQTT was writing, other
\* captures had the same target, and any of them may have been killed.  Only a file written
\* while it was read, and with the size and the second that were noted, may be a mixture.
SnapshotIsWhole == manifest.is = "whole" /\ untouched => copy = manifest.of /\ Whole(copy)

\* stage: the configurations a finished plan speaks of are the one source it names; and that is
\* the live configuration.yaml the manifest was made from, whoever edited, cut off or replaced
\* the snapshot before and while it was read, but not between the hash and the last read.
PlanIsTrue == plan.is = "whole" =>
    /\ plan.of.rollback = plan.of.source
    /\ plan.of.target \in {<<>>, plan.of.source}
    /\ ~exchanged => plan.of.source = plan.of.manifest /\ Sound(Config, plan.of.source)

Snapshots == [Names -> Seq(Nat)]

SnapshotTypeOK ==
    /\ there \subseteq Names /\ version \in [Names -> Nat \ {0}] /\ stamp \in [Names -> Nat]
    /\ blurred \subseteq Names /\ exchanged \in BOOLEAN
    /\ cpc \in [Captures -> {"idle", "ended"} \cup Capturing]
    /\ ctodo \in [Captures -> Seq(Names)]
    /\ noted \in [Captures -> Nat] /\ held \in [Captures -> Snapshots]
    /\ made \in BOOLEAN /\ copy \in Snapshots /\ untouched \in BOOLEAN
    /\ manifest \in {None, Cut} \/ (manifest.of \in Snapshots /\ manifest = Written(manifest.of))
    /\ spc \in {"idle", "ended"} \cup Staging
    /\ target \in BOOLEAN /\ listed \in Snapshots /\ original \in Seq(Nat)
    /\ outDir \in BOOLEAN /\ out \in [{"rollback", "target"} -> Seq(Nat)]
    /\ plan \in {None, Cut} \/ plan = Written(plan.of)

Finding == {"stat", "read", "rest", "again"}
Writing == {"write", "close", "manifest", "end"}

\* What has been dealt with is sound, or was not there; what has been read of the file at hand
\* is what it is now, as long as it bears the stamp that was noted.
Found(c) ==
    LET this == Head(ctodo[c])  read == held[c][this]
        Same == this \notin blurred /\ stamp[this] = noted[c] IN
    /\ cpc[c] = "idle" => held[c] = NoFiles
    /\ cpc[c] \in Finding =>
         /\ ctodo[c] # <<>>
         /\ \A f \in Names : \/ held[c][f] = <<>> /\ (f \in Named(Required) => f \in Named(ctodo[c]))
                             \/ Sound(f, held[c][f])
                             \/ f = this /\ cpc[c] \in {"rest", "again"}
    /\ cpc[c] = "rest" => Len(read) = 1 /\ read[1] # 0 /\ (Same => read[1] = version[this])
    /\ cpc[c] = "again" => Len(read) = 2 /\ read[1] # 0 /\ (Same => read[1] = version[this] /\ read[2] = version[this])

\* There is one writer at most, and what it has dealt with is what it has read.
Copied(c) == /\ cpc[c] \in {"mkdir"} \cup Writing => Whole(held[c])
             /\ cpc[c] \in {"write", "close"} => ctodo[c] # <<>>
             /\ cpc[c] = "close" => Len(copy[Head(ctodo[c])]) = 1
             /\ cpc[c] \in {"manifest", "end"} => ctodo[c] = <<>>
             /\ cpc[c] \in Writing =>
                  /\ made /\ manifest = IF cpc[c] = "end" THEN Cut ELSE None
                  /\ \A f \in Names : f \notin Named(ctodo[c]) \/ held[c][f] = <<>> => copy[f] = held[c][f]
                  /\ \A d \in Captures : cpc[d] \in Writing => d = c

\* A manifest lists a whole snapshot.
Listed == /\ ~made => copy = NoFiles /\ manifest = None
          /\ manifest.is = "whole" => Whole(manifest.of) /\ (untouched => copy = manifest.of)

\* What stage goes on with is what the manifest lists, unless it was exchanged.
Checked == /\ spc \in Staging \ {"offline", "manifest"} => Whole(listed)
           /\ spc = "original" /\ ~exchanged => copy[Config] = listed[Config]
           /\ spc \in {"mkdir", "rollback", "target", "plan"} =>
                original # <<>> /\ (~exchanged => original = listed[Config])
           /\ ~outDir => out = NoOutput /\ plan = None /\ spc \notin {"rollback", "target", "plan"}
           /\ spc = "rollback" => out["target"] = <<>>
           /\ spc \in {"target", "plan"} => out["rollback"] = original
           /\ spc = "plan" => out["target"] \in {<<>>, original}

SnapshotInv == /\ SnapshotTypeOK
               /\ \A c \in Captures : Found(c) /\ Copied(c)
               /\ Listed /\ Checked /\ PlanIsTrue
=============================================================================

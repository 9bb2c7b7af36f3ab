----------------------------- MODULE DataBundle -----------------------------
(***************************************************************************)
(* p10_data_bundle.capture: copying the Zigbee2MQTT data directory over    *)
(* SFTP into a private archive, while the add-on may be writing it.        *)
(*                                                                         *)
(* The content of a file is the number of times it was written; its stamp  *)
(* is the (st_size, st_mtime) pair lstat returns.  st_mtime counts whole   *)
(* seconds, so a write may leave the pair as it was or bring back one it   *)
(* had before: a write sets any pair.                                      *)
(* A file is read in two parts, between which it may be written.           *)
(***************************************************************************)
EXTENDS Integers

CONSTANTS
    Files,       \* the paths the data directory may hold
    Required,    \* those a capture must find
    MaxVersion   \* bound on the number of writes of one file

ASSUME FilesAssumption == Required \subseteq Files /\ MaxVersion \in Nat

None == "no file"

VARIABLES
    sup, running,            \* Supervisor's state of the add-on; its container
    there, version, stamp,   \* the files that exist, their contents and stamps
    pc, mode,                \* the capture: where it is, "hot" or "cold"
    seen, listed, mark,      \* the walk: entries visited, files listed, stamps noted
    todo, cur, got,          \* the copy: files to do, the one open, versions read
    out,                     \* the archive file
    \* history, which only properties read:
    ran,                     \* the add-on was started since the capture began
    atWalkEnd,               \* contents when the walk ended
    blurred                  \* files not yet copied whose stamp a write left, or
                             \* made, the one the walk noted

host    == <<sup, running, there, version, stamp>>
walking == <<seen, listed, mark>>
copying == <<todo, cur, got>>
history == <<ran, atWalkEnd, blurred>>
vars == <<sup, running, there, version, stamp, pc, mode, seen, listed, mark,
          todo, cur, got, out, ran, atWalkEnd, blurred>>

Versions == 0..MaxVersion
Reading == pc \in {"first", "last", "after"}
Active == {"root", "walk", "next", "first", "last", "after", "manifest", "verify"}

TypeOK == /\ sup \in {"started", "stopped", "error"} /\ running \in BOOLEAN
          /\ there \subseteq Files
          /\ version \in [Files -> Versions] /\ stamp \in [Files -> Versions]
          /\ pc \in {"idle", "done", "failed"} \cup Active
          /\ mode \in {"hot", "cold"}
          /\ seen \subseteq Files /\ listed \subseteq Files /\ mark \in [Files -> Versions]
          /\ todo \subseteq Files /\ cur \in Files \cup {None}
          /\ got \in [Files -> [first : Versions, last : Versions]]
          /\ out \in {"none", "partial", "complete"}
          /\ ran \in BOOLEAN /\ atWalkEnd \in [Files -> Versions] /\ blurred \subseteq Files

Init == /\ \/ sup = "started" /\ running = TRUE
           \/ sup = "stopped" /\ running = FALSE
        /\ there \in SUBSET Files
        /\ version = [f \in Files |-> 0] /\ stamp = version
        /\ pc = "idle" /\ mode = "hot"
        /\ seen = {} /\ listed = {} /\ mark = version
        /\ todo = {} /\ cur = None
        /\ got = [f \in Files |-> [first |-> 0, last |-> 0]]
        /\ out = "none"
        /\ ran = FALSE /\ atWalkEnd = version /\ blurred = {}

-----------------------------------------------------------------------------
(* The capture. *)

\* The next label when a check passes; a failed one ends the capture.
Proceed(ok, to) == pc' = IF ok THEN to ELSE "failed"

\* A new path is required; a cold capture begins under a stopped add-on.
Begin(m) == /\ pc = "idle" /\ out = "none"
            /\ mode' = m
            /\ Proceed(m = "cold" => sup = "stopped", "root")
            /\ ran' = FALSE
            /\ UNCHANGED <<host, walking, copying, out, atWalkEnd, blurred>>

FindRoot == /\ pc = "root"
            /\ Proceed(Required \subseteq there, "walk")
            /\ UNCHANGED <<host, mode, walking, copying, out, history>>

\* walk: the entries of the directory tree, one after the other.
Visit(f) == /\ pc = "walk" /\ f \notin seen
            /\ seen' = seen \cup {f}
            /\ listed' = listed \cup ({f} \cap there)
            /\ mark' = [mark EXCEPT ![f] = stamp[f]]
            /\ UNCHANGED <<host, pc, mode, copying, out, history>>

\* All visited: the archive is created (open 'xb') and filled file by file.
WalkEnd == /\ pc = "walk" /\ seen = Files
           /\ Proceed(Required \subseteq listed, "next")
           /\ todo' = listed
           /\ out' = IF Required \subseteq listed THEN "partial" ELSE out
           /\ atWalkEnd' = version
           /\ UNCHANGED <<host, mode, walking, cur, got, ran, blurred>>

\* lstat finds the file as the walk saw it.
Same(f) == f \in there /\ stamp[f] = mark[f]

\* Faulty variant: a file is compared with itself, not with what the walk noted.
BeforeAnew(f) == /\ pc = "next" /\ f \in todo
                 /\ cur' = f
                 /\ Proceed(f \in there, "first")
                 /\ mark' = [mark EXCEPT ![f] = stamp[f]]
                 /\ UNCHANGED <<host, mode, seen, listed, todo, got, out, history>>

\* _read_to_archive: lstat before, open and read, read on, lstat after.
Before(f) == /\ pc = "next" /\ f \in todo
             /\ cur' = f
             /\ Proceed(Same(f), "first")
             /\ UNCHANGED <<host, mode, walking, todo, got, out, history>>

ReadFirst == /\ pc = "first"
             /\ Proceed(cur \in there, "last")
             /\ got' = [got EXCEPT ![cur].first = version[cur]]
             /\ UNCHANGED <<host, mode, walking, todo, cur, out, history>>

\* The open file still is the one under that name, or was replaced by another.
ReadLast == /\ pc = "last"
            /\ Proceed(TRUE, "after")
            /\ \E v \in {got[cur].first, version[cur]} : got' = [got EXCEPT ![cur].last = v]
            /\ UNCHANGED <<host, mode, walking, todo, cur, out, history>>

\* Faulty variant: no second look at the file.
AfterBlind == /\ pc = "after"
              /\ Proceed(TRUE, "next")
              /\ todo' = todo \ {cur} /\ cur' = None
              /\ UNCHANGED <<host, mode, walking, got, out, history>>

After == /\ pc = "after"
         /\ Proceed(Same(cur), "next")
         /\ todo' = todo \ {cur} /\ cur' = None
         /\ UNCHANGED <<host, mode, walking, got, out, history>>

\* Faulty variants: no second look at the add-on, or one that accepts "error".
RecheckNothing == /\ pc = "next" /\ todo = {}
                  /\ Proceed(TRUE, "manifest")
                  /\ UNCHANGED <<host, mode, walking, copying, out, history>>

RecheckDown == /\ pc = "next" /\ todo = {}
               /\ Proceed(mode = "cold" => sup # "started", "manifest")
               /\ UNCHANGED <<host, mode, walking, copying, out, history>>

\* Everything is copied; a cold capture looks at the add-on a second time.
Recheck == /\ pc = "next" /\ todo = {}
           /\ Proceed(mode = "cold" => sup = "stopped", "manifest")
           /\ UNCHANGED <<host, mode, walking, copying, out, history>>

\* The manifest comes last; a cold one says app_stopped_throughout_capture.
Manifest == /\ pc = "manifest"
            /\ Proceed(TRUE, "verify")
            /\ out' = "complete"
            /\ UNCHANGED <<host, mode, walking, copying, history>>

\* verify: digests always match what was read; the preflight of a required file
\* that was read half old, half new may reject it.
Torn(f) == got[f].first # got[f].last

Verify == /\ pc = "verify"
          /\ \E ok \in BOOLEAN : /\ ok \/ \E f \in Required : Torn(f)
                                 /\ Proceed(ok, "done")
          /\ UNCHANGED <<host, mode, walking, copying, out, history>>

\* The link drops, a limit is exceeded, an entry is refused, the process is killed.
Fails == /\ pc \in Active
         /\ pc' = "failed"
         /\ UNCHANGED <<host, mode, walking, copying, out, history>>

Step == \/ FindRoot
        \/ \E f \in Files : Visit(f)
        \/ WalkEnd
        \/ \E f \in Files : Before(f)
        \/ ReadFirst \/ ReadLast \/ After
        \/ Recheck \/ Manifest \/ Verify
        \/ Fails

-----------------------------------------------------------------------------
(* The add-on. *)

Writes(f) == /\ running /\ version[f] < MaxVersion
             /\ version' = [version EXCEPT ![f] = @ + 1]
             /\ \E s \in Versions :
                   /\ stamp' = [stamp EXCEPT ![f] = s]
                   /\ blurred' = blurred \cup {g \in {f} \cap todo : s = mark[g]}
             /\ there' = there \cup {f}
             /\ UNCHANGED <<sup, running>>

Removes(f) == /\ running /\ f \in there
              /\ there' = there \ {f}
              /\ UNCHANGED <<sup, running, version, stamp, blurred>>

Crashes == /\ running
           /\ running' = FALSE /\ sup' = "error"
           /\ UNCHANGED <<there, version, stamp, blurred>>

Started == /\ ~running
           /\ running' = TRUE /\ sup' = "started"
           /\ UNCHANGED <<there, version, stamp, blurred>>

Stopped == /\ running
           /\ running' = FALSE /\ sup' = "stopped"
           /\ UNCHANGED <<there, version, stamp, blurred>>

capturing == <<pc, mode, seen, listed, mark, todo, cur, got, out, atWalkEnd>>

\* Anybody may start the add-on, and it may crash.
Addon == /\ \/ \E f \in Files : Writes(f) \/ Removes(f)
            \/ Crashes \/ Started
         /\ ran' = (ran \/ running')
         /\ UNCHANGED capturing

StoppedByOthers == Stopped /\ UNCHANGED <<ran, capturing>>

\* Nobody stops the add-on while the capture is at work.
Next == \/ \E m \in {"hot", "cold"} : Begin(m)
        \/ Step
        \/ Addon
        \/ pc = "idle" /\ StoppedByOthers

Spec == Init /\ [][Next]_vars

\* The add-on may be started and stopped again while a capture is at work.
OpenSpec == Init /\ [][Next \/ StoppedByOthers]_vars

-----------------------------------------------------------------------------
(* Properties. *)

\* capture, either mode: the archive is a snapshot.  Every accepted copy is what the
\* file held at one common instant, the end of the walk, whoever wrote, removed or
\* re-created files while they were copied one by one; only of a file that was
\* written before its copy was done with the size and the second the walk had noted
\* may the copy be another, or be torn.
Snapshot ==
    pc \in {"manifest", "verify", "done"} =>
        \A f \in listed \ blurred : got[f].first = atWalkEnd[f] /\ got[f].last = atWalkEnd[f]

\* What the archive holds is what the data directory holds.
Current == /\ listed = there
           /\ \A f \in listed : got[f].first = version[f] /\ got[f].last = version[f]

\* capture, cold: when the second look finds the add-on stopped, the archive is
\* complete and current, whatever the stamps say, as long as nobody but the
\* operator stops the add-on: one that was started meanwhile is not found stopped.
ColdIsCurrent == [][mode = "cold" /\ pc = "next" /\ pc' = "manifest" => Current /\ ~running]_vars

\* The manifest of a cold bundle says app_stopped_throughout_capture.
StoppedThroughout == [][mode = "cold" /\ pc = "next" /\ pc' = "manifest" => ~ran]_vars
=============================================================================

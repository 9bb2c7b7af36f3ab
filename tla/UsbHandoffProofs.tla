-------------------------- MODULE UsbHandoffProofs --------------------------
(***************************************************************************)
(* Proof that READY_TO_DISCONNECT_SONOFF is safe, for any set of files,    *)
(* any bound on the writes and stamps of any resolution.  It builds on the *)
(* cold capture of DataBundleProofs.                                       *)
(***************************************************************************)
EXTENDS UsbHandoff, DataBundleProofs

Before0 == {"idle", "prepare_info", "prepare_yaml", "freeze_info", "freeze_yaml", "refetch",
            "stop", "stopped", "begin"}
Accepted == {"verify", "stage", "final", "ready"}

\* The capture runs inside step "capture", and has succeeded behind it.
Nested == /\ step \in Before0 => pc = "idle"
          /\ step \in {"capture"} \cup Accepted => mode = "cold"
          /\ step \in Accepted => pc = "done"

\* An archive in which everything was found again is current while Supervisor
\* says "stopped".
Complete == pc \in {"manifest", "verify", "done"} /\ mode = "cold" =>
              /\ Required \subseteq listed
              /\ sup = "stopped" => Current

Listing == pc \in Copying => Required \subseteq listed

\* The stage holds what the archive holds; behind the last check nothing but an
\* operator can start the add-on.
Staged == /\ step \in {"final", "ready"} => staged = got[Yaml].first
          /\ step = "ready" => sup = "stopped" /\ boot = "manual" /\ ~watchdog

\* The inductive invariant of HandoffSpec: the capture is over when the archive is
\* used, and a data directory that Supervisor calls stopped has not moved since.
HandoffInv == /\ ColdInv /\ HandoffTypeOK
              /\ Nested /\ Listing /\ Complete /\ Staged
-----------------------------------------------------------------------------
(* Each kind of step. *)

USE DEF host, walking, copying, Versions, Active, Reading, Copying, Proceed, Before0, Accepted

\* begin's own steps between the calls of the capture, and those of others that
\* change the restart policy only.
LEMMA OutsideStep ==
    ASSUME HandoffInv, UNCHANGED vars, HandoffNext
    PROVE  HandoffInv'
  <1> USE YamlAssumption, FilesAssumption DEF HandoffInv
  <1>1. ColdInv' /\ Listing' /\ Complete' /\ TypeOK'
    BY DEF ColdInv, TypeOK, Down, Unmoved, Untouched, Listing, Complete, Current, vars
  <1>2. ASSUME NEW at \in Pending \cup {"idle"}, NEW ok, NEW to \in Before0 \cup Accepted \cup {"failed"},
               to \in Before0 => at \in Before0,
               to \in Accepted => at \in Accepted \/ (at = "capture" /\ (ok => pc = "done")),
               to = "final" => at = "final",
               to = "ready" /\ ok => sup = "stopped" /\ boot = "manual" /\ ~watchdog,
               to = "ready" => at = "final",
               Check(at, ok, to)
        PROVE  HandoffInv'
    BY <1>1, <1>2 DEF Check, HandoffTypeOK, Nested, Staged, Pending, policy, vars
  <1>3. CASE StageSource
    <2>1. staged' \in Versions \cup {Nothing}
      BY <1>3 DEF StageSource, ColdInv, TypeOK, HandoffTypeOK
    <2> QED BY <1>1, <1>3, <2>1 DEF StageSource, HandoffTypeOK, Nested, Staged, policy, vars, Pending
  <1>4. CASE StopAddon \/ StartCapture \/ Capture
    <2>1. HandoffTypeOK'
      BY <1>1, <1>4 DEF StopAddon, StartCapture, Capture, HandoffTypeOK, Pending, policy
    <2>2. Nested' /\ Staged'
      BY <1>4 DEF StopAddon, StartCapture, Capture, Begin, Nested, Staged, policy, vars
    <2> QED BY <1>1, <2>1, <2>2
  <1>5. CASE HandoffFails
    BY <1>1, <1>5 DEF HandoffFails, Check, HandoffTypeOK, Nested, Staged, policy, vars
  <1>6. CASE Others
    BY <1>1, <1>6 DEF Others, HandoffTypeOK, Nested, Staged, policy, vars
  <1>7. CASE Handoff /\ ~(StageSource \/ StopAddon \/ StartCapture \/ Capture)
    BY <1>2, <1>7 DEF Handoff, Ready, Pending
  <1> QED BY <1>3, <1>4, <1>5, <1>6, <1>7 DEF HandoffNext

\* The capture's steps.
LEMMA CaptureStep ==
    ASSUME HandoffInv, Capture
    PROVE  HandoffInv'
  <1> USE FilesAssumption DEF HandoffInv
  <1>1. step = "capture" /\ Step /\ UNCHANGED <<step, staged, policy>>
    BY DEF Capture
  <1>2. ColdInv'
    BY <1>1, ColdStep DEF Next
  <1>3. HandoffTypeOK'
    BY <1>1, <1>2 DEF ColdInv, HandoffTypeOK, policy
  <1>4. mode' = mode /\ sup' = sup
    BY <1>1 DEF Step, FindRoot, Visit, WalkEnd, Before, ReadFirst, ReadLast, After, Recheck,
                Manifest, Verify, Fails
  <1>5. Nested' /\ Staged'
    BY <1>1, <1>4 DEF Nested, Staged, policy
  <1>6. Listing'
    BY <1>1 DEF Listing, Step, FindRoot, Visit, WalkEnd, Before, ReadFirst, ReadLast, After,
                Recheck, Manifest, Verify, Fails
  <1>7. Complete'
    <2> SUFFICES ASSUME pc' \in {"manifest", "verify", "done"} PROVE Complete'
      BY DEF Complete
    <2>1. Recheck \/ Manifest \/ Verify
      BY <1>1 DEF Step, FindRoot, Visit, WalkEnd, Before, ReadFirst, ReadLast, After, Fails
    <2>2. UNCHANGED <<host, listed, got>>
      BY <2>1 DEF Recheck, Manifest, Verify
    <2>3. CASE Recheck
      <3>1. pc = "next" /\ todo = {} /\ mode = "cold"
        BY <1>1, <2>3 DEF Recheck, Nested
      <3>2. sup = "stopped" => Current
        BY <3>1 DEF ColdInv, Unmoved, TypeOK, Current
      <3> QED BY <1>4, <2>2, <3>1, <3>2 DEF Complete, Listing, Current
    <2>4. CASE Manifest \/ Verify
      BY <1>4, <2>2, <2>4 DEF Manifest, Verify, Complete, Current
    <2> QED BY <2>1, <2>3, <2>4
  <1> QED BY <1>2, <1>3, <1>5, <1>6, <1>7

\* The add-on, and its start by Supervisor or by people.
LEMMA AddonStep ==
    ASSUME HandoffInv, Addon, UNCHANGED <<step, staged, policy>>,
           ~running /\ running' => step # "ready" \/ Automatic
    PROVE  HandoffInv'
  <1> USE DEF HandoffInv
  <1>1. ColdInv'
    BY ColdStep DEF Next
  <1>2. UNCHANGED capturing
    BY DEF Addon
  <1>3. sup = "stopped" => /\ UNCHANGED host \/ (running' /\ ~running)
                           /\ ~running
    BY DEF ColdInv, Down, Addon, Writes, Removes, Crashes, Started
  <1>4. sup' = "stopped" => UNCHANGED host
    BY DEF ColdInv, Down, Addon, Writes, Removes, Crashes, Started
  <1>5. HandoffTypeOK'
    BY <1>1 DEF ColdInv, HandoffTypeOK, policy
  <1>6. Nested' /\ Listing'
    BY <1>2 DEF Nested, Listing, capturing, Before0, Accepted, policy
  <1>7. Complete'
    BY <1>2, <1>4 DEF Complete, Current, capturing
  <1>8. Staged'
    <2>1. step = "ready" => UNCHANGED host
      <3> SUFFICES ASSUME step = "ready" PROVE UNCHANGED host
        OBVIOUS
      <3>1. sup = "stopped" /\ boot = "manual" /\ ~watchdog
        BY DEF Staged
      <3>2. ~Automatic
        BY <3>1 DEF Automatic
      <3> QED BY <1>3, <3>1, <3>2
    <2> QED BY <1>2, <2>1 DEF Staged, capturing, policy
  <1> QED BY <1>1, <1>5, <1>6, <1>7, <1>8

\* The two steps that touch both the command and the capture or the container.
LEMMA EntryStep ==
    ASSUME HandoffInv, StopAddon \/ StartCapture, ~UNCHANGED vars
    PROVE  HandoffInv'
  <1> USE DEF HandoffInv
  <1>1. CASE StopAddon
    <2>1. Stopped /\ UNCHANGED <<capture, ran, atWalkEnd, staged, policy>> /\ step = "stop" /\ step' = "stopped"
      BY <1>1 DEF StopAddon, capture, history, vars
    <2>2. pc = "idle" /\ TypeOK' /\ Down'
      BY <2>1 DEF Nested, ColdInv, TypeOK, Stopped, Down, capture, history
    <2>3. ColdInv'
      BY <2>1, <2>2 DEF ColdInv, Unmoved, Untouched, capture
    <2>4. HandoffTypeOK' /\ Nested' /\ Staged'
      BY <2>1, <2>2 DEF HandoffTypeOK, Nested, Staged, Pending, capture, policy
    <2>5. Listing' /\ Complete'
      BY <2>1, <2>2 DEF Listing, Complete, capture
    <2> QED BY <2>3, <2>4, <2>5
  <1>2. CASE StartCapture
    <2>1. Begin("cold") /\ step' = "capture" /\ UNCHANGED <<staged, policy>>
      BY <1>2 DEF StartCapture
    <2>2. ColdInv'
      BY <2>1, ColdStep DEF Next
    <2>3. pc' \in {"root", "failed"} /\ mode' = "cold"
      BY <2>1 DEF Begin
    <2>4. HandoffTypeOK' /\ Nested' /\ Staged' /\ Listing' /\ Complete'
      BY <2>1, <2>2, <2>3 DEF ColdInv, HandoffTypeOK, Nested, Staged, Listing, Complete, Pending, policy
    <2> QED BY <2>2, <2>4
  <1> QED BY <1>1, <1>2

LEMMA HandoffStep ==
    ASSUME HandoffInv, [HandoffNext]_allVars
    PROVE  HandoffInv'
  <1>1. CASE UNCHANGED allVars
    <2>1. UNCHANGED vars /\ UNCHANGED <<step, staged, policy>>
      BY <1>1 DEF allVars
    <2>2. ColdInv'
      BY <2>1, ColdStep DEF HandoffInv
    <2> QED BY <2>1, <2>2 DEF HandoffInv, HandoffTypeOK, ColdInv, Nested, Listing, Complete, Current,
                              Staged, policy, vars
  <1>2. CASE HandoffNext /\ UNCHANGED vars
    BY <1>2, OutsideStep
  <1>3. CASE HandoffNext /\ ~UNCHANGED vars
    <2>1. \/ Capture
          \/ StopAddon \/ StartCapture
          \/ /\ Addon /\ UNCHANGED <<step, staged, policy>>
             /\ ~running /\ running' => step # "ready" \/ Automatic
      BY <1>3 DEF HandoffNext, Handoff, HandoffFails, Others, Check, StageSource, Ready
    <2> QED BY <1>3, <2>1, CaptureStep, EntryStep, AddonStep
  <1> QED BY <1>1, <1>2, <1>3

LEMMA HandoffInitially == HandoffInit => HandoffInv
  <1> SUFFICES ASSUME HandoffInit PROVE HandoffInv
    OBVIOUS
  <1>1. TypeOK /\ ColdInv
    BY InitType DEF HandoffInit, Init, ColdInv, Down, Unmoved, Untouched
  <1> QED BY <1>1 DEF HandoffInit, HandoffInv, HandoffTypeOK, Nested, Listing, Complete, Staged,
                      Init, Before0, Accepted

\* HandoffInv: the cold capture inside begin keeps its invariant, and from the moment the archive
\* is accepted it is whole, current and what the stage was made from.
THEOREM Inductive == HandoffSpec => [](HandoffInv /\ ColdInv)
  <1>1. HandoffInv => ColdInv
    BY DEF HandoffInv
  <1> QED BY HandoffInitially, HandoffStep, <1>1, PTL DEF HandoffSpec

\* ReadyIsSafe: when begin says READY_TO_DISCONNECT_SONOFF the add-on is down and
\* the cold bundle and the staged YAML are what the data directory holds, and
\* this stays so, although other people may act while the command works.
THEOREM HandoffIsSafe == HandoffSpec => []ReadyIsSafe
  <1>1. HandoffInv => ReadyIsSafe
    <2> SUFFICES ASSUME HandoffInv, step = "ready" PROVE ~running /\ Current /\ staged = version[Yaml]
      BY DEF ReadyIsSafe
    <2>1. sup = "stopped" /\ ~running /\ pc = "done" /\ mode = "cold" /\ staged = got[Yaml].first
      BY DEF HandoffInv, Staged, ColdInv, Down, Nested, Accepted
    <2>2. Current /\ Yaml \in listed
      BY <2>1, YamlAssumption DEF HandoffInv, Complete
    <2> QED BY <2>1, <2>2 DEF Current
  <1> QED BY Inductive, <1>1, PTL

\* Every variable of UsbHandoff keeps its type.
THEOREM HandoffTypes == HandoffSpec => []HandoffTypeOK
  <1>1. HandoffInv => HandoffTypeOK
    BY DEF HandoffInv
  <1> QED BY Inductive, <1>1, PTL

-----------------------------------------------------------------------------
(* begin calls the capture the way Spec of DataBundle allows it.            *)

\* The add-on is stopped by begin before the capture it waits for, never during it.
LEMMA CaptureMaps ==
    ASSUME HandoffInv, [HandoffNext]_allVars
    PROVE  [Next]_vars
  <1>1. CASE StopAddon
    <2>1. pc = "idle"
      BY <1>1 DEF StopAddon, HandoffInv, Nested
    <2> QED
      BY <1>1, <2>1 DEF StopAddon, capture, history, capturing, vars, Next, StoppedByOthers
  <1>2. CASE StartCapture \/ Capture
    BY <1>2 DEF StartCapture, Capture, Next
  <1>3. CASE Others
    BY <1>3 DEF Others, Next
  <1>4. CASE UNCHANGED vars
    BY <1>4
  <1> QED
    BY <1>1, <1>2, <1>3, <1>4
    DEF HandoffNext, Handoff, HandoffFails, Check, StageSource, Ready, allVars

\* UsbHandoff keeps the assumption under which DataBundle's cold capture is proved:
\* nobody stops the add-on while the capture is at work.
THEOREM CallsTheCapture == HandoffSpec => Spec
  <1>1. HandoffInit => Init
    BY DEF HandoffInit
  <1>2. HandoffInv /\ [HandoffNext]_allVars => [Next]_vars
    BY CaptureMaps
  <1> QED BY <1>1, <1>2, Inductive, PTL DEF HandoffSpec, Spec

\* ColdIsCurrent, of the bundle begin takes: what it holds is what the data directory
\* holds when the add-on is found stopped for the second time.
THEOREM HandoffBundleIsCurrent == HandoffSpec => ColdIsCurrent
  BY CallsTheCapture, ColdCapture, PTL

\* StoppedThroughout, of the bundle begin takes: its manifest tells the truth.
THEOREM HandoffManifestIsTrue == HandoffSpec => StoppedThroughout
  BY CallsTheCapture, ManifestIsTrue, PTL
=============================================================================

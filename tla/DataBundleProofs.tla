-------------------------- MODULE DataBundleProofs --------------------------
(***************************************************************************)
(* Proofs about DataBundle, for any set of files and any bound: an         *)
(* accepted archive is a snapshot of every file whose writes showed in its *)
(* size or its second, and a cold one is current when nobody else stops    *)
(* the add-on.                                                             *)
(***************************************************************************)
EXTENDS DataBundle, TLAPS

OpenNext == Next \/ StoppedByOthers

-----------------------------------------------------------------------------
(* The snapshot.  A stamp is noted while walking and found again after the  *)
(* copy.  As long as a file to be copied bears the stamp that was noted, it *)
(* has not been written since the walk ended, or it is blurred.             *)

Copying == {"next", "first", "last", "after", "manifest", "verify", "done"}

Noted == /\ pc \in Copying =>
              /\ todo \subseteq listed
              /\ \A f \in Files : atWalkEnd[f] <= version[f]
              /\ \A f \in todo \ blurred : stamp[f] = mark[f] => version[f] = atWalkEnd[f]
         /\ Reading => cur \in todo
         /\ pc \in {"manifest", "verify", "done"} => todo = {}

Copied == /\ pc \in Copying =>
               \A f \in (listed \ todo) \ blurred : /\ got[f].first = atWalkEnd[f]
                                                    /\ got[f].last = atWalkEnd[f]
          /\ pc \in {"last", "after"} => /\ atWalkEnd[cur] <= got[cur].first
                                         /\ got[cur].first <= version[cur]
          /\ pc = "after" => /\ atWalkEnd[cur] <= got[cur].last
                             /\ got[cur].last <= version[cur]

SnapInv == TypeOK /\ Noted /\ Copied

-----------------------------------------------------------------------------
(* The cold capture.  While Supervisor says "stopped" nothing has moved. *)

Down == sup = "stopped" => ~running

Unmoved == mode = "cold" /\ pc \in Active /\ sup = "stopped" =>
             /\ listed \subseteq seen
             /\ pc = "root" => seen = {}
             /\ \A f \in seen : f \in listed <=> f \in there
             /\ pc \notin {"root", "walk"} =>
                  /\ seen = Files
                  /\ \A f \in listed \ todo : got[f].first = version[f] /\ got[f].last = version[f]
             /\ Reading => cur \in todo
             /\ pc \in {"last", "after"} => got[cur].first = version[cur]
             /\ pc = "after" => got[cur].last = version[cur]

Untouched == pc = "idle" => seen = {} /\ listed = {}

ColdInv == TypeOK /\ Down /\ Unmoved /\ Untouched

-----------------------------------------------------------------------------
(* Types. *)

USE DEF host, walking, copying, history, Versions, Active, Reading, Copying, Proceed

LEMMA TypeStep ==
    ASSUME TypeOK, [OpenNext]_vars
    PROVE  TypeOK'
  <1> USE FilesAssumption DEF TypeOK
  <1>1. CASE FindRoot
    BY <1>1 DEF FindRoot
  <1>2. ASSUME NEW f \in Files, Visit(f) PROVE TypeOK'
    BY <1>2 DEF Visit
  <1>3. CASE WalkEnd
    BY <1>3 DEF WalkEnd
  <1>4. ASSUME NEW f \in Files, Before(f) PROVE TypeOK'
    BY <1>4 DEF Before, Same
  <1>5. CASE ReadFirst
    BY <1>5 DEF ReadFirst
  <1>6. CASE ReadLast
    BY <1>6 DEF ReadLast
  <1>7. CASE After
    BY <1>7 DEF After, Same
  <1>8. CASE Recheck
    BY <1>8 DEF Recheck
  <1>9. CASE Manifest
    BY <1>9 DEF Manifest
  <1>10. CASE Verify
    BY <1>10 DEF Verify
  <1>11. CASE Fails
    BY <1>11 DEF Fails
  <1>12. ASSUME NEW m \in {"hot", "cold"}, Begin(m) PROVE TypeOK'
    BY <1>12 DEF Begin
  <1>13. CASE Addon
    <2> USE <1>13 DEF capturing
    <2>1. ran' \in BOOLEAN /\ UNCHANGED capturing
      BY DEF Addon, Writes, Removes, Crashes, Started
    <2>2. ASSUME NEW f \in Files, Writes(f) PROVE TypeOK'
      <3>1. version[f] + 1 \in Versions
        BY <2>2 DEF Writes
      <3> QED BY <2>1, <2>2, <3>1 DEF Writes
    <2>3. ASSUME NEW f \in Files, Removes(f) PROVE TypeOK'
      BY <2>1, <2>3 DEF Removes
    <2>4. CASE Crashes \/ Started
      BY <2>1, <2>4 DEF Crashes, Started
    <2> QED BY <2>2, <2>3, <2>4 DEF Addon
  <1>14. CASE StoppedByOthers
    BY <1>14 DEF StoppedByOthers, Stopped, capturing
  <1>15. CASE UNCHANGED vars
    BY <1>15 DEF vars
  <1> QED
    BY <1>1, <1>2, <1>3, <1>4, <1>5, <1>6, <1>7, <1>8, <1>9, <1>10, <1>11, <1>12, <1>13, <1>14, <1>15 DEF OpenNext, Next, Step

LEMMA InitType == Init => TypeOK
  <1> SUFFICES ASSUME Init PROVE TypeOK
    OBVIOUS
  <1>1. 0 \in Versions
    BY FilesAssumption
  <1>2. version \in [Files -> Versions] /\ got \in [Files -> [first : Versions, last : Versions]]
    BY <1>1 DEF Init
  <1> QED BY <1>2 DEF Init, TypeOK

-----------------------------------------------------------------------------
(* The snapshot. *)

LEMMA SnapStep ==
    ASSUME SnapInv, [OpenNext]_vars
    PROVE  SnapInv'
  <1> USE FilesAssumption DEF SnapInv, TypeOK, Noted, Copied
  <1>0. TypeOK'
    BY TypeStep
  <1>1. CASE FindRoot
    BY <1>1 DEF FindRoot
  <1>2. ASSUME NEW f \in Files, Visit(f) PROVE (Noted /\ Copied)'
    BY <1>2 DEF Visit
  <1>3. CASE WalkEnd
    BY <1>3 DEF WalkEnd
  <1>4. ASSUME NEW f \in Files, Before(f) PROVE (Noted /\ Copied)'
    BY <1>4 DEF Before, Same
  <1>5. CASE ReadFirst
    BY <1>5 DEF ReadFirst
  <1>6. CASE ReadLast
    BY <1>6 DEF ReadLast
  <1>7. CASE After
    BY <1>7 DEF After, Same
  <1>8. CASE Recheck
    BY <1>8 DEF Recheck
  <1>9. CASE Manifest
    BY <1>9 DEF Manifest
  <1>10. CASE Verify
    BY <1>10 DEF Verify
  <1>11. CASE Fails
    BY <1>11 DEF Fails
  <1>12. ASSUME NEW m \in {"hot", "cold"}, Begin(m) PROVE (Noted /\ Copied)'
    BY <1>12 DEF Begin
  <1>13. CASE Addon
    <2> USE <1>13 DEF capturing
    <2>1. UNCHANGED capturing
      BY DEF Addon
    <2>2. ASSUME NEW f \in Files, Writes(f) PROVE (Noted /\ Copied)'
      <3>1. PICK s \in Versions :
                 /\ stamp' = [stamp EXCEPT ![f] = s]
                 /\ blurred' = blurred \cup {g \in {f} \cap todo : s = mark[g]}
        BY <2>2 DEF Writes
      <3>2. version' = [version EXCEPT ![f] = version[f] + 1]
        BY <2>2 DEF Writes
      <3>3. \A g \in todo \ blurred' : stamp'[g] = mark[g] => g # f
        BY <3>1
      <3>4. Noted'
        BY <2>1, <3>1, <3>2, <3>3
      <3>5. Copied'
        BY <2>1, <3>1, <3>2
      <3> QED BY <3>4, <3>5
    <2>3. ASSUME NEW f \in Files, Removes(f) PROVE (Noted /\ Copied)'
      BY <2>1, <2>3 DEF Removes
    <2>4. CASE Crashes \/ Started
      BY <1>0, <2>1, <2>4 DEF Crashes, Started
    <2> QED BY <1>0, <2>2, <2>3, <2>4 DEF Addon
  <1>14. CASE StoppedByOthers
    BY <1>14 DEF StoppedByOthers, Stopped, capturing
  <1>15. CASE UNCHANGED vars
    BY <1>15 DEF vars
  <1> QED
    BY <1>0, <1>1, <1>2, <1>3, <1>4, <1>5, <1>6, <1>7, <1>8, <1>9, <1>10, <1>11, <1>12, <1>13, <1>14, <1>15 DEF OpenNext, Next, Step

\* SnapInv: a file that still bears the stamp the walk noted holds what it held when
\* the walk ended, and so does every accepted copy, except of a blurred file.
THEOREM SnapshotInductive == OpenSpec => []SnapInv
  <1>1. Init => SnapInv
    BY InitType DEF Init, SnapInv, Noted, Copied
  <1>2. SnapInv /\ [OpenNext]_vars => SnapInv'
    BY SnapStep
  <1> QED BY <1>1, <1>2, PTL DEF OpenSpec, OpenNext

\* Snapshot: an accepted archive, hot or cold, is what the files held when the walk
\* ended, whoever starts, stops or writes meanwhile, except of the files that a write
\* left with the size and the second the walk had noted before they were copied.
THEOREM SnapshotTaken == OpenSpec => []Snapshot
  <1>1. SnapInv => Snapshot
    BY DEF SnapInv, Noted, Copied, Snapshot
  <1> QED BY SnapshotInductive, <1>1, PTL

\* Every variable of DataBundle keeps its type.
THEOREM TypeCorrect == OpenSpec => []TypeOK
  <1>1. TypeOK /\ [OpenNext]_vars => TypeOK'
    BY TypeStep
  <1> QED BY InitType, <1>1, PTL DEF OpenSpec, OpenNext

-----------------------------------------------------------------------------
(* The cold capture. *)

LEMMA ColdStep ==
    ASSUME ColdInv, [Next]_vars
    PROVE  ColdInv'
  <1> USE FilesAssumption DEF ColdInv, TypeOK, Down, Unmoved, Untouched
  <1>0. TypeOK'
    BY TypeStep DEF OpenNext
  <1>1. CASE FindRoot
    BY <1>1 DEF FindRoot
  <1>2. ASSUME NEW f \in Files, Visit(f) PROVE (Down /\ Unmoved /\ Untouched)'
    BY <1>2 DEF Visit
  <1>3. CASE WalkEnd
    BY <1>3 DEF WalkEnd
  <1>4. ASSUME NEW f \in Files, Before(f) PROVE (Down /\ Unmoved /\ Untouched)'
    BY <1>4 DEF Before, Same
  <1>5. CASE ReadFirst
    BY <1>5 DEF ReadFirst
  <1>6. CASE ReadLast
    <2>1. PICK v \in {got[cur].first, version[cur]} : got' = [got EXCEPT ![cur].last = v]
      BY <1>6 DEF ReadLast
    <2>2. \A f \in Files : f # cur => got'[f] = got[f]
      BY <2>1
    <2>3. cur \in Files => got'[cur].first = got[cur].first /\ got'[cur].last = v
      BY <2>1
    <2>4. pc = "last" /\ pc' = "after" /\ UNCHANGED <<host, mode, walking, todo, cur>>
      BY <1>6 DEF ReadLast
    <2>5. CASE mode = "cold" /\ sup = "stopped"
      <3>1. cur \in todo /\ cur \in Files
        BY <2>4, <2>5
      <3>2. \A f \in listed \ todo : got'[f] = got[f]
        BY <2>2, <3>1
      <3>3. got'[cur].first = version[cur] /\ got'[cur].last = version[cur]
        BY <2>1, <2>3, <2>4, <2>5, <3>1
      <3>4. /\ listed \subseteq seen /\ seen = Files
            /\ \A f \in seen : f \in listed <=> f \in there
            /\ \A f \in listed \ todo : got[f].first = version[f] /\ got[f].last = version[f]
        BY <2>4, <2>5
      <3> HIDE DEF ColdInv, TypeOK
      <3>5. Unmoved'
        BY <2>4, <3>1, <3>2, <3>3, <3>4
      <3> QED BY <1>0, <2>4, <3>5 DEF ColdInv, TypeOK
    <2>6. CASE ~(mode = "cold" /\ sup = "stopped")
      BY <1>0, <2>4, <2>6
    <2> QED BY <2>5, <2>6
  <1>7. CASE After
    BY <1>7 DEF After, Same
  <1>8. CASE Recheck
    BY <1>8 DEF Recheck
  <1>9. CASE Manifest
    BY <1>9 DEF Manifest
  <1>10. CASE Verify
    BY <1>10 DEF Verify
  <1>11. CASE Fails
    BY <1>11 DEF Fails
  <1>12. ASSUME NEW m \in {"hot", "cold"}, Begin(m) PROVE (Down /\ Unmoved /\ Untouched)'
    BY <1>12 DEF Begin
  <1>13. CASE Addon
    <2> USE <1>13 DEF capturing
    <2>1. UNCHANGED capturing
      BY DEF Addon
    <2>2. ASSUME NEW f \in Files, Writes(f) \/ Removes(f) PROVE (Down /\ Unmoved /\ Untouched)'
      BY <2>1, <2>2 DEF Writes, Removes
    <2>3. CASE Crashes \/ Started
      BY <1>0, <2>1, <2>3 DEF Crashes, Started
    <2> QED BY <1>0, <2>2, <2>3 DEF Addon
  <1>14. CASE UNCHANGED vars
    BY <1>14 DEF vars
  <1>15. CASE pc = "idle" /\ StoppedByOthers
    BY <1>0, <1>15 DEF StoppedByOthers, Stopped, capturing
  <1> QED
    BY <1>0, <1>1, <1>2, <1>3, <1>4, <1>5, <1>6, <1>7, <1>8, <1>9, <1>10, <1>11, <1>12, <1>13, <1>14, <1>15 DEF Next, Step

\* ColdIsCurrent: a cold archive is complete and current when the capture finds the
\* add-on stopped again, whatever the stamps say, if nobody else stops it.
THEOREM ColdCapture == Spec => ColdIsCurrent
  <1>1. Init => ColdInv
    BY InitType DEF Init, ColdInv, Down, Unmoved, Untouched
  <1>2. ColdInv /\ [Next]_vars => ColdInv'
    BY ColdStep
  <1>3. ASSUME ColdInv, [Next]_vars
        PROVE  mode = "cold" /\ pc = "next" /\ pc' = "manifest" => Current /\ ~running
    <2> SUFFICES ASSUME mode = "cold", pc = "next", pc' = "manifest" PROVE Current /\ ~running
      OBVIOUS
    <2>1. Recheck
      BY <1>3 DEF Next, Step, FindRoot, Visit, WalkEnd, Before, ReadFirst, ReadLast, After,
                  Manifest, Verify, Fails, Begin, Addon, StoppedByOthers, capturing, vars
    <2>2. todo = {} /\ sup = "stopped"
      BY <2>1 DEF Recheck
    <2> QED BY <1>3, <2>2 DEF ColdInv, TypeOK, Down, Unmoved, Current
  <1> QED BY <1>1, <1>2, <1>3, PTL DEF Spec, ColdIsCurrent

-----------------------------------------------------------------------------
(* The claim of the manifest.  An add-on that was started during a cold     *)
(* capture may go down again, but only into "error": nobody stops it.       *)

Unstarted == mode = "cold" /\ pc \in Active /\ sup = "stopped" => ~ran

LEMMA UnstartedStep ==
    ASSUME ColdInv, Unstarted, [Next]_vars
    PROVE  Unstarted'
  <1> USE DEF ColdInv, TypeOK, Down, Unstarted
  <1>1. ASSUME NEW m \in {"hot", "cold"}, Begin(m) PROVE Unstarted'
    BY <1>1 DEF Begin
  <1>2. CASE Step
    BY <1>2 DEF Step, FindRoot, Visit, WalkEnd, Before, ReadFirst, ReadLast, After, Recheck,
                Manifest, Verify, Fails
  <1>3. CASE Addon
    <2>1. sup' = "stopped" => sup = "stopped" /\ ~running'
      BY <1>3 DEF Addon, Writes, Removes, Crashes, Started
    <2> QED BY <1>3, <2>1 DEF Addon, capturing
  <1>4. CASE pc = "idle" /\ StoppedByOthers
    BY <1>4 DEF StoppedByOthers, Stopped, capturing
  <1>5. CASE UNCHANGED vars
    BY <1>5 DEF vars
  <1> QED BY <1>1, <1>2, <1>3, <1>4, <1>5 DEF Next

\* StoppedThroughout: app_stopped_throughout_capture is true when the manifest says
\* it, from two looks at the add-on, if nobody else stops it during the capture.
THEOREM ManifestIsTrue == Spec => StoppedThroughout
  <1>1. Init => ColdInv /\ Unstarted
    BY InitType DEF Init, ColdInv, Down, Unmoved, Untouched, Unstarted
  <1>2. ColdInv /\ Unstarted /\ [Next]_vars => (ColdInv /\ Unstarted)'
    BY ColdStep, UnstartedStep
  <1>3. ASSUME ColdInv /\ Unstarted, [Next]_vars
        PROVE  mode = "cold" /\ pc = "next" /\ pc' = "manifest" => ~ran
    <2> SUFFICES ASSUME mode = "cold", pc = "next", pc' = "manifest" PROVE ~ran
      OBVIOUS
    <2>1. Recheck
      BY <1>3 DEF Next, Step, FindRoot, Visit, WalkEnd, Before, ReadFirst, ReadLast, After,
                  Manifest, Verify, Fails, Begin, Addon, StoppedByOthers, capturing, vars
    <2> QED BY <1>3, <2>1 DEF Recheck, Unstarted
  <1> QED BY <1>1, <1>2, <1>3, PTL DEF Spec, StoppedThroughout
=============================================================================

--------------------------- MODULE StagingProofs ---------------------------
(* Proofs that stage_files accepts only whole stages of one cold bundle, that a stage that  *)
(* ended well is accepted, that a private snapshot with a whole manifest, and a plan made    *)
(* from it, are what was live, and that a staged target differs from its source in the port  *)
(* and the adapter only.                                                                     *)
EXTENDS Staging, PrivateSnapshot, SerialConfig, SequenceTheorems, TLAPS

USE DEF command, disk, reader, Rollback, Target, Files
USE DEF live, reading, snapshot, memory, output

LEMMA NothingStaged == Init => StageInv
  <1> SUFFICES ASSUME Init PROVE StageInv
    OBVIOUS
  <1>1. pc \in [Commands -> {"idle", "done", "failed"} \cup Working] /\ \A c \in Commands : pc[c] = "idle"
    BY DEF Init
  <1>2. todo \in [Commands -> Seq(Files \cup {"state", "restate"})]
    BY DEF Init
  <1>3. file \in [Files -> Contents] /\ state \in States /\ saw \in States /\ got \in [Rollback \cup Target -> Contents]
    BY DEF Init, Empty, Unread, Contents, States
  <1>4. TypeOK
    BY <1>1, <1>2, <1>3 DEF Init, TypeOK
  <1> QED BY <1>4 DEF Init, StageInv, AcceptedIsWhole

Items == Files \cup {"state", "restate"}

LEMMA PlanTyped == ASSUME NEW m \in Modes PROVE Plan[m] \in Seq(Items) /\ Plan[m] # <<>>
  <1>1. /\ Plan.source \in Seq(Items) /\ Plan.source # <<>>
        /\ Plan.tcp \in Seq(Items) /\ Plan.tcp # <<>>
        /\ Plan.usb \in Seq(Items) /\ Plan.usb # <<>>
    BY DEF Plan, Items
  <1> QED BY <1>1 DEF Modes

LEMMA GotoTyped == ASSUME TypeOK, NEW c \in Commands, NEW from, NEW to \in {"idle", "done", "failed"} \cup Working,
                          Goto(c, from, to)
                   PROVE  /\ pc' \in [Commands -> {"idle", "done", "failed"} \cup Working]
                          /\ pc[c] = from /\ pc'[c] = to /\ \A d \in Commands \ {c} : pc'[d] = pc[d]
                          /\ UNCHANGED <<mode, bundle, rpc, saw, got>>
  BY DEF TypeOK, Goto

\* A step that only moves a command, and not into the writing.
LEMMA MovesTyped == ASSUME TypeOK, NEW c \in Commands, NEW from, NEW to \in {"check", "probe", "mkdir", "failed"},
                           Goto(c, from, to), UNCHANGED <<todo, disk, owner, intact>>
                    PROVE  TypeOK'
  BY GotoTyped DEF TypeOK, Working

LEMMA StageTyped == ASSUME TypeOK, NEW c \in Commands, Stage(c) \/ Dies(c)
                    PROVE  TypeOK'
  <1>1. CASE Begin(c)
    BY <1>1, MovesTyped DEF Begin
  <1>2. CASE Check(c)
    BY <1>2, MovesTyped DEF Check
  <1>3. CASE Probe(c)
    BY <1>3, MovesTyped DEF Probe
  <1>4. CASE Mkdir(c)
    <2>1. CASE dir
      BY <1>4, <2>1, MovesTyped DEF Mkdir
    <2>2. CASE ~dir
      <3>1. Goto(c, "mkdir", "write") /\ dir' = TRUE /\ owner' = c /\ intact' = TRUE
            /\ todo' = [todo EXCEPT ![c] = Plan[mode[c]]] /\ UNCHANGED <<file, state>>
        BY <1>4, <2>2 DEF Mkdir
      <3>2. Plan[mode[c]] \in Seq(Items) /\ Plan[mode[c]] # <<>>
        BY PlanTyped DEF TypeOK
      <3> QED BY <3>1, <3>2, GotoTyped DEF TypeOK, Working, Items
    <2> QED BY <2>1, <2>2
  <1>5. CASE Open(c)
    <2>1. Goto(c, "write", "open") /\ UNCHANGED <<todo, dir, owner, intact>>
      BY <1>5 DEF Open
    <2>2. file' \in [Files -> Contents] /\ state' \in States
      BY <1>5 DEF Open, TypeOK, Contents, States
    <2> QED BY <2>1, <2>2, GotoTyped DEF TypeOK, Working
  <1>6. CASE Close(c)
    <2>1. PICK to \in {"done", "write"} : Goto(c, "open", to) /\ (to = "write" => Len(todo[c]) # 1)
      BY <1>6 DEF Close
    <2>2. todo' = [todo EXCEPT ![c] = Tail(todo[c])] /\ UNCHANGED <<dir, owner, intact>>
      BY <1>6 DEF Close
    <2>3. todo[c] \in Seq(Items) /\ todo[c] # <<>>
      BY <2>1 DEF TypeOK, Goto, Items
    <2>4. Tail(todo[c]) \in Seq(Items) /\ (Len(todo[c]) # 1 => Tail(todo[c]) # <<>>)
      <3>1. Tail(todo[c]) \in Seq(Items) /\ Len(Tail(todo[c])) = Len(todo[c]) - 1
        BY <2>3, HeadTailProperties
      <3>2. Len(todo[c]) \in Nat /\ Len(todo[c]) # 0
        BY <2>3, EmptySeq
      <3>3. Len(<<>>) = 0
        BY EmptySeq
      <3>4. Len(todo[c]) # 1 => Len(Tail(todo[c])) # 0
        BY <3>1, <3>2
      <3> QED BY <3>1, <3>3, <3>4
    <2>5. file' \in [Files -> Contents] /\ state' \in States
      BY <1>6 DEF Close, TypeOK, Contents, States
    <2> QED BY <2>1, <2>2, <2>4, <2>5, GotoTyped DEF TypeOK, Working, Items
  <1>7. CASE Dies(c)
    BY <1>7, MovesTyped DEF Dies
  <1> QED BY <1>1, <1>2, <1>3, <1>4, <1>5, <1>6, <1>7 DEF Stage

\* The writers touch the state, never what a reader holds.
LEMMA StageStepInv == ASSUME StageInv, NEW c \in Commands, Stage(c) \/ Dies(c)
                      PROVE  StageInv'
  <1>1. UNCHANGED reader
    BY DEF Stage, Dies, Begin, Check, Probe, Mkdir, Open, Close, Goto
  <1>2. UNCHANGED state \/ state' = Torn \/ OneBundle(state')
    <2>1. CASE Close(c)
      BY <2>1 DEF Close, OneBundle, StageInv, TypeOK
    <2>2. CASE Stage(c) /\ ~Close(c)
      BY <2>2 DEF Stage, Begin, Check, Probe, Mkdir, Open
    <2>3. CASE Dies(c)
      BY <2>3 DEF Dies
    <2> QED BY <2>1, <2>2, <2>3
  <1>3. TypeOK'
    BY StageTyped DEF StageInv
  <1> QED BY <1>1, <1>2, <1>3 DEF StageInv, OneBundle, AcceptedIsWhole

LEMMA ReaderTyped == ASSUME TypeOK, StageFiles
                     PROVE  TypeOK'
  <1>1. UNCHANGED <<pc, todo, mode, bundle, dir, file, state, owner, intact>>
    BY DEF StageFiles, ReadAgain, ReadState, ReadFile, Verify, Read
  <1>2. /\ rpc' \in {"idle", "accepted", "refused"} \cup {"state"} \cup Rollback \cup Target \cup {"verify"}
        /\ saw' \in States /\ got' \in [Rollback \cup Target -> Contents]
    <2>1. CASE ReadAgain
      BY <2>1 DEF ReadAgain, Read, TypeOK, States, Contents, Unread
    <2>2. CASE ReadState
      BY <2>2 DEF ReadState, Read, TypeOK
    <2>3. CASE ReadFile
      BY <2>3 DEF ReadFile, Read, TypeOK, After
    <2>4. CASE Verify
      BY <2>4 DEF Verify, Read, TypeOK
    <2> QED BY <2>1, <2>2, <2>3, <2>4 DEF StageFiles
  <1> QED BY <1>1, <1>2 DEF TypeOK

\* The reader: what passes ReadState is a cold bundle, what passes Verify is its files.
LEMMA StageFilesInv == ASSUME StageInv, StageFiles
                       PROVE  StageInv'
  <1>0. TypeOK' /\ Cold \subseteq Bundles
    BY ReaderTyped, ColdAssumption DEF StageInv
  <1>1. UNCHANGED state
    BY DEF StageFiles, ReadAgain, ReadState, ReadFile, Verify, Read
  <1>2. CASE ReadAgain
    BY <1>0, <1>1, <1>2 DEF ReadAgain, Read, StageInv, OneBundle, AcceptedIsWhole
  <1>3. CASE ReadState
    <2>1. saw' = state /\ rpc' \in {"rollback_yaml", "refused"}
      BY <1>3 DEF ReadState, Read
    <2>2. rpc' = "rollback_yaml" => state.made = "whole" /\ state.of \in Cold /\ state.target # Absent
      BY <1>3 DEF ReadState, Read
    <2>3. rpc' = "rollback_yaml" => \E b \in Cold : state = State(b, Of(b))
      BY <2>2 DEF StageInv, OneBundle, State, Of, Absent, Torn
    <2> QED BY <1>0, <1>1, <2>1, <2>3 DEF StageInv, OneBundle, AcceptedIsWhole
  <1>4. CASE ReadFile
    <2>1. rpc \in Rollback \cup Target /\ UNCHANGED saw
      BY <1>4 DEF ReadFile, Read
    <2>2. rpc' \in Rollback \cup Target \cup {"verify", "refused"}
      BY <1>4 DEF ReadFile, Read, After
    <2> QED BY <1>0, <1>1, <2>1, <2>2 DEF StageInv, OneBundle, AcceptedIsWhole
  <1>5. CASE Verify
    <2>1. PICK b \in Cold : saw = State(b, Of(b))
      BY <1>5 DEF Verify, Read, StageInv
    <2>2. UNCHANGED <<saw, got>> /\ rpc' \in {"accepted", "refused"}
      BY <1>5 DEF Verify, Read
    <2>3. rpc' = "accepted" => /\ \A f \in Rollback : got[f] = Of(saw.of)
                              /\ \A f \in Target : got[f] = saw.target
      BY <1>5 DEF Verify, Read
    <2>4. saw.of = b /\ saw.target = Of(b)
      BY <2>1 DEF State
    <2>5. rpc' = "accepted" => \A f \in Rollback \cup Target : got'[f] = Of(b)
      BY <2>2, <2>3, <2>4
    <2> QED BY <1>0, <1>1, <2>2, <2>5 DEF StageInv, OneBundle, AcceptedIsWhole
  <1> QED BY <1>2, <1>3, <1>4, <1>5, <1>1 DEF StageFiles

LEMMA OthersInv == ASSUME StageInv, PowerFails \/ Removed \/ UNCHANGED vars
                   PROVE  StageInv'
  <1>1. CASE PowerFails
    <2>1. file' \in [Files -> Contents] /\ state' \in {state, Torn}
      BY <1>1 DEF PowerFails, StageInv, TypeOK, Contents
    <2>2. /\ pc' \in [Commands -> {"idle", "done", "failed"} \cup Working]
          /\ \A c \in Commands : pc'[c] \notin {"write", "open"}
      BY <1>1 DEF PowerFails, StageInv, TypeOK, Working
    <2>3. state' \in States /\ intact' = FALSE /\ rpc' = "refused"
          /\ UNCHANGED <<todo, mode, bundle, dir, owner, saw, got>>
      <3>1. state \in States /\ Torn \in States
        BY DEF StageInv, TypeOK, States
      <3> QED BY <1>1, <2>1, <3>1 DEF PowerFails
    <2>4. TypeOK'
      BY <2>1, <2>2, <2>3 DEF StageInv, TypeOK
    <2> QED BY <2>1, <2>3, <2>4 DEF StageInv, OneBundle, AcceptedIsWhole
  <1>2. CASE Removed
    <2>1. TypeOK'
      <3>1. file' = Empty /\ state' = Absent /\ dir' = FALSE
            /\ UNCHANGED <<pc, todo, mode, bundle, owner, intact, rpc, saw, got>>
        BY <1>2 DEF Removed
      <3>2. Empty \in [Files -> Contents] /\ Absent \in States
        BY DEF Contents, States, Empty
      <3> QED BY <3>1, <3>2 DEF StageInv, TypeOK
    <2> QED BY <1>2, <2>1 DEF Removed, StageInv, OneBundle, AcceptedIsWhole
  <1>3. CASE UNCHANGED vars
    BY <1>3 DEF vars, StageInv, TypeOK, OneBundle, AcceptedIsWhole
  <1> QED BY <1>1, <1>2, <1>3

\* StageInv: the state that can be read names one bundle, and a reader that is past it holds a cold one.
THEOREM Inductive == Spec => []StageInv
  <1>1. StageInv /\ [Next]_vars => StageInv'
    BY StageStepInv, StageFilesInv, OthersInv DEF Next
  <1> QED BY NothingStaged, <1>1, PTL DEF Spec

\* stage_files: whatever is accepted is whole and comes from one cold bundle.
THEOREM AcceptsWhole == Spec => []AcceptedIsWhole
  <1>1. StageInv => AcceptedIsWhole
    BY DEF StageInv
  <1> QED BY Inductive, <1>1, PTL

-----------------------------------------------------------------------------
(* What a command leaves behind.  One command writes at a time: it made the directory that is   *)
(* there, and neither a power failure nor a removal has come between.                           *)

\* The number of items of its plan a command has written.
Behind(c) == Len(Plan[mode[c]]) - Len(todo[c])

\* The directory is the one c made, and no power failure has come since.
Kept(c) == owner = c /\ dir /\ intact

\* A writer has its directory for itself, and what it has written is whole.
Progress(c) == pc[c] \in {"write", "open"} =>
    /\ Kept(c)
    /\ Len(todo[c]) <= Len(Plan[mode[c]])
    /\ \A i \in 1 .. Len(todo[c]) : todo[c][i] = Plan[mode[c]][Behind(c) + i]
    /\ \A i \in 1 .. Behind(c) :
         Plan[mode[c]][i] \in Files => file[Plan[mode[c]][i]] = Of(bundle[c])

Usable(c) == pc[c] = "done" /\ Kept(c) =>
    /\ mode[c] # "source" => state = State(bundle[c], Of(bundle[c]))
    /\ \A i \in 1 .. Len(Plan[mode[c]]) :
         Plan[mode[c]][i] \in Files => file[Plan[mode[c]][i]] = Of(bundle[c])

UseInv == StageInv /\ \A c \in Commands : Progress(c) /\ Usable(c)

\* The plans with a target hold every file stage_files reads, and end with the state that names it.
LEMMA PlanEnds == ASSUME NEW m \in {"tcp", "usb"}
                  PROVE  /\ Plan[m][Len(Plan[m])] = IF m = "usb" THEN "restate" ELSE "state"
                         /\ \A f \in Rollback \cup Target : \E i \in 1 .. Len(Plan[m]) : Plan[m][i] = f
  <1>1. CASE m = "tcp"
    <2>1. /\ Len(Plan[m]) = 6 /\ Plan[m][1] = "rollback_yaml" /\ Plan[m][2] = "rollback_options"
          /\ Plan[m][3] = "target_yaml" /\ Plan[m][4] = "target_options" /\ Plan[m][6] = "state"
      BY <1>1 DEF Plan
    <2> QED BY <1>1, <2>1
  <1>2. CASE m = "usb"
    <2>1. /\ Len(Plan[m]) = 7 /\ Plan[m][1] = "rollback_yaml" /\ Plan[m][2] = "rollback_options"
          /\ Plan[m][5] = "target_yaml" /\ Plan[m][6] = "target_options" /\ Plan[m][7] = "restate"
      BY <1>2 DEF Plan
    <2> QED BY <1>2, <2>1
  <1> QED BY <1>1, <1>2

LEMMA MovesUse == ASSUME UseInv, NEW c \in Commands, NEW from, NEW to \in {"check", "probe", "mkdir", "failed"},
                         Goto(c, from, to), UNCHANGED <<todo, disk, owner, intact>>
                  PROVE  \A d \in Commands : Progress(d)' /\ Usable(d)'
  <1>1. /\ pc'[c] = to /\ UNCHANGED <<mode, bundle>>
        /\ \A d \in Commands \ {c} : pc'[d] = pc[d]
    BY GotoTyped DEF UseInv, StageInv, Working
  <1>2. \A d \in Commands : Kept(d)' = Kept(d) /\ Behind(d)' = Behind(d)
    BY <1>1 DEF Kept, Behind
  <1> QED BY <1>1, <1>2 DEF UseInv, Progress, Usable

LEMMA MkdirUse == ASSUME UseInv, NEW c \in Commands, Mkdir(c)
                  PROVE  \A d \in Commands : Progress(d)' /\ Usable(d)'
  <1>1. CASE dir
    BY <1>1, MovesUse DEF Mkdir
  <1>2. CASE ~dir
    <2>1. /\ Goto(c, "mkdir", "write") /\ owner' = c /\ dir' /\ intact'
          /\ todo' = [todo EXCEPT ![c] = Plan[mode[c]]]
      BY <1>2 DEF Mkdir
    <2>2. \A d \in Commands : pc[d] \notin {"write", "open"}
      BY <1>2 DEF UseInv, Progress, Kept
    <2>3. /\ pc'[c] = "write" /\ UNCHANGED <<mode, bundle>> /\ todo'[c] = Plan[mode[c]]
          /\ \A d \in Commands \ {c} : pc'[d] = pc[d]
      BY <2>1, GotoTyped DEF UseInv, StageInv, TypeOK, Working
    <2>4. Kept(c)' /\ \A d \in Commands \ {c} : ~Kept(d)'
      BY <2>1 DEF Kept
    <2>5. Len(Plan[mode[c]]) \in Nat
      <3>1. Plan[mode[c]] \in Seq(Items)
        BY PlanTyped DEF UseInv, StageInv, TypeOK
      <3> QED BY <3>1, LenProperties
    <2>6. Behind(c)' = 0
      BY <2>3, <2>5 DEF Behind
    <2>7. Progress(c)' /\ Usable(c)'
      BY <2>3, <2>4, <2>5, <2>6 DEF Progress, Usable
    <2> QED BY <2>2, <2>3, <2>4, <2>7 DEF Progress, Usable
  <1> QED BY <1>1, <1>2

\* Whoever is not writing has nothing to lose while c is.
LEMMA OthersUse == ASSUME UseInv, NEW c \in Commands, NEW from \in {"write", "open"}, NEW to,
                          Goto(c, from, to), UNCHANGED <<dir, owner, intact>>,
                          \A d \in Commands \ {c} : todo'[d] = todo[d]
                   PROVE  \A d \in Commands \ {c} : Progress(d)' /\ Usable(d)'
  <1>1. UNCHANGED <<mode, bundle>> /\ \A d \in Commands \ {c} : pc'[d] = pc[d]
    BY DEF Goto, UseInv, StageInv, TypeOK
  <1>2. \A d \in Commands \ {c} : ~Kept(d) /\ ~Kept(d)'
    BY DEF Goto, UseInv, Progress, Kept
  <1> QED BY <1>1, <1>2 DEF UseInv, Progress, Usable

LEMMA OpenUse == ASSUME UseInv, NEW c \in Commands, Open(c)
                 PROVE  \A d \in Commands : Progress(d)' /\ Usable(d)'
  <1>1. /\ Goto(c, "write", "open") /\ UNCHANGED <<todo, dir, owner, intact>>
        /\ pc[c] = "write" /\ pc'[c] = "open" /\ UNCHANGED <<mode, bundle>>
    BY GotoTyped DEF Open, UseInv, StageInv, Working
  <1>2. \A f \in Files : \A b \in Bundles : file[f] = Of(b) => file'[f] = Of(b)
    BY DEF Open, UseInv, StageInv, TypeOK, Of, Absent
  <1>3. Kept(c)' = Kept(c) /\ Behind(c)' = Behind(c)
    BY <1>1 DEF Kept, Behind
  <1>4. bundle[c] \in Bundles
    BY DEF UseInv, StageInv, TypeOK
  <1>5. Progress(c)' /\ Usable(c)'
    BY <1>1, <1>2, <1>3, <1>4 DEF UseInv, Progress, Usable
  <1> QED BY <1>1, <1>5, OthersUse

LEMMA CloseUse == ASSUME UseInv, NEW c \in Commands, Close(c)
                  PROVE  \A d \in Commands : Progress(d)' /\ Usable(d)'
  <1> DEFINE P == Plan[mode[c]]
             s == todo[c]
             b == bundle[c]
             n == Behind(c)
  <1>1. PICK to \in {"done", "write"} : Goto(c, "open", to) /\ (to = "done" <=> Len(s) = 1)
    BY DEF Close
  <1>2. /\ pc[c] = "open" /\ pc'[c] = to /\ UNCHANGED <<mode, bundle, dir, owner, intact>>
        /\ todo' = [todo EXCEPT ![c] = Tail(s)] /\ Kept(c)' = Kept(c)
    BY <1>1, GotoTyped DEF Close, UseInv, StageInv, Working, Kept
  <1>3. s \in Seq(Items) /\ s # <<>> /\ mode[c] \in Modes /\ todo \in [Commands -> Seq(Items)]
    BY <1>2 DEF UseInv, StageInv, TypeOK, Items
  <1>4. P \in Seq(Items) /\ Len(P) \in Nat
    BY <1>3, PlanTyped, LenProperties
  <1>5. Len(s) \in Nat \ {0} /\ Len(Tail(s)) = Len(s) - 1
    BY <1>3, EmptySeq, LenProperties, HeadTailProperties
  <1>6. /\ todo'[c] = Tail(s) /\ Head(s) = s[1]
        /\ \A i \in 1 .. Len(Tail(s)) : Tail(s)[i] = s[i + 1]
        /\ \A d \in Commands \ {c} : todo'[d] = todo[d]
    BY <1>2, <1>3, HeadTailProperties
  <1>7. Kept(c) /\ Len(s) <= Len(P)
    BY <1>2 DEF UseInv, Progress
  <1>8. /\ \A i \in 1 .. Len(s) : s[i] = P[n + i]
        /\ \A i \in 1 .. n : P[i] \in Files => file[P[i]] = Of(b)
    BY <1>2 DEF UseInv, Progress
  <1>9. n = Len(P) - Len(s) /\ Behind(c)' = Len(P) - Len(Tail(s))
    BY <1>2, <1>6 DEF Behind
  <1> HIDE DEF n, P, s, b
  <1>10. n \in Nat /\ Behind(c)' = n + 1
    <2>1. Len(s) <= Len(P)
      BY <1>7
    <2> QED BY <1>4, <1>5, <1>9, <2>1
  <1>11. Head(s) = P[n + 1]
    <2>1. 1 \in 1 .. Len(s)
      BY <1>5
    <2> QED BY <1>6, <1>8, <2>1
  <1>12. \A i \in 1 .. n + 1 : P[i] \in Files => file'[P[i]] = Of(b)
    <2>1. \A f \in Files : file'[f] = file[f] \/ file'[f] = Of(b)
      BY DEF Close, UseInv, StageInv, TypeOK, b
    <2>2. Head(s) \in Files => file'[Head(s)] = Of(b)
      BY DEF Close, UseInv, StageInv, TypeOK, b, s
    <2>3. \A i \in 1 .. n + 1 : i \in 1 .. n \/ i = n + 1
      BY <1>10
    <2> QED BY <1>8, <1>11, <2>1, <2>2, <2>3
  <1>13. Progress(c)'
    <2>1. \A i \in 1 .. Len(Tail(s)) : Tail(s)[i] = P[(n + 1) + i]
      <3> SUFFICES ASSUME NEW i \in 1 .. Len(Tail(s)) PROVE Tail(s)[i] = P[(n + 1) + i]
        OBVIOUS
      <3>1. i + 1 \in 1 .. Len(s) /\ n + (i + 1) = (n + 1) + i
        BY <1>5, <1>10
      <3>2. s[i + 1] = P[n + (i + 1)]
        BY <1>8, <3>1
      <3> QED BY <1>6, <3>1, <3>2
    <2>2. Len(Tail(s)) <= Len(P)
      <3>1. Len(s) <= Len(P)
        BY <1>7
      <3> QED BY <1>4, <1>5, <3>1
    <2>3. mode'[c] = mode[c] /\ bundle'[c] = bundle[c] /\ Kept(c)'
      BY <1>2, <1>7
    <2> QED BY <1>6, <1>10, <1>12, <2>1, <2>2, <2>3 DEF Progress, P, b
  <1>14. Usable(c)'
    <2> SUFFICES ASSUME to = "done"
                 PROVE  /\ mode[c] # "source" => state' = State(b, Of(b))
                        /\ \A i \in 1 .. Len(P) : P[i] \in Files => file'[P[i]] = Of(b)
      BY <1>2 DEF Usable, P, b
    <2>1. Len(s) = 1
      BY <1>1
    <2>2. Len(P) = n + 1
      BY <1>4, <1>9, <2>1
    <2>3. CASE mode[c] # "source"
      <3>1. Head(s) = IF mode[c] = "usb" THEN "restate" ELSE "state"
        BY <1>3, <1>11, <2>2, <2>3, PlanEnds DEF Modes, P
      <3> QED BY <1>3, <1>12, <2>2, <2>3, <3>1 DEF Close, Modes, b, s
    <2> QED BY <1>12, <2>2, <2>3
  <1> QED BY <1>1, <1>2, <1>6, <1>13, <1>14, OthersUse

LEMMA PeopleUse == ASSUME UseInv, StageFiles \/ PowerFails \/ Removed \/ UNCHANGED vars
                   PROVE  \A d \in Commands : Progress(d)' /\ Usable(d)'
  <1>1. CASE StageFiles \/ UNCHANGED vars
    <2>1. UNCHANGED <<pc, todo, mode, bundle, dir, file, state, owner, intact>>
      BY <1>1 DEF StageFiles, ReadAgain, ReadState, ReadFile, Verify, Read, vars
    <2>2. \A d \in Commands : Kept(d)' = Kept(d) /\ Behind(d)' = Behind(d)
      BY <2>1 DEF Kept, Behind
    <2> QED BY <2>1, <2>2 DEF UseInv, Progress, Usable
  <1>2. CASE PowerFails
    <2>1. \A d \in Commands : pc'[d] \notin {"write", "open"} /\ ~Kept(d)'
      BY <1>2 DEF PowerFails, UseInv, StageInv, TypeOK, Working, Kept
    <2> QED BY <2>1 DEF Progress, Usable
  <1>3. CASE Removed
    <2>1. \A d \in Commands : pc'[d] \notin {"write", "open"} /\ ~Kept(d)'
      BY <1>3 DEF Removed, Working, Kept
    <2> QED BY <2>1 DEF Progress, Usable
  <1> QED BY <1>1, <1>2, <1>3

\* UseInv: the one writer there is has written what its plan says, and a plan that is done is written.
THEOREM StageProgress == Spec => []UseInv
  <1>1. Init => UseInv
    BY NothingStaged DEF Init, UseInv, Progress, Usable
  <1>2. ASSUME UseInv, [Next]_vars PROVE UseInv'
    <2>1. StageInv'
      BY <1>2, StageStepInv, StageFilesInv, OthersInv DEF Next, UseInv
    <2>2. ASSUME NEW c \in Commands, Stage(c) \/ Dies(c)
          PROVE  \A d \in Commands : Progress(d)' /\ Usable(d)'
      BY <1>2, <2>2, MovesUse, MkdirUse, OpenUse, CloseUse DEF Stage, Begin, Check, Probe, Dies
    <2>3. \A d \in Commands : Progress(d)' /\ Usable(d)'
      BY <1>2, <2>2, PeopleUse DEF Next
    <2> QED BY <2>1, <2>3 DEF UseInv
  <1> QED BY <1>1, <1>2, PTL DEF Spec

\* stage, stage_usb: the directory of a command that was asked for a target and ended well holds
\* what stage_files accepts, whatever other commands, deaths and removals there were.
THEOREM StagesUsable == Spec => []DoneIsUsable
  <1>1. ASSUME UseInv PROVE DoneIsUsable
    <2> SUFFICES ASSUME NEW c \in Commands, pc[c] = "done", Kept(c), mode[c] # "source"
                 PROVE  /\ state = State(bundle[c], Of(bundle[c]))
                        /\ \A f \in Rollback \cup Target : file[f] = Of(bundle[c])
      BY DEF DoneIsUsable, Kept
    <2>1. mode[c] \in {"tcp", "usb"}
      BY <1>1 DEF UseInv, StageInv, TypeOK, Modes
    <2>2. /\ state = State(bundle[c], Of(bundle[c]))
          /\ \A i \in 1 .. Len(Plan[mode[c]]) :
               Plan[mode[c]][i] \in Files => file[Plan[mode[c]][i]] = Of(bundle[c])
      BY <1>1 DEF UseInv, Usable
    <2>3. \A f \in Rollback \cup Target : \E i \in 1 .. Len(Plan[mode[c]]) : Plan[mode[c]][i] = f
      BY <2>1, PlanEnds
    <2> QED BY <2>2, <2>3
  <1> QED BY StageProgress, <1>1, PTL

-----------------------------------------------------------------------------
(* Names and contents. *)

LEMMA InNamed == ASSUME NEW s \in Seq(Names), NEW i \in 1 .. Len(s)
                 PROVE  s[i] \in Named(s)
  BY DEF Named

LEMMA FirstAndRest == ASSUME NEW s \in Seq(Names), s # <<>>
                      PROVE  /\ Head(s) \in Names /\ Tail(s) \in Seq(Names)
                             /\ (Len(s) = 1) <=> (Tail(s) = <<>>)
                             /\ \A f \in Named(s) : f = Head(s) \/ f \in Named(Tail(s))
  <1>1. /\ Head(s) \in Names /\ Tail(s) \in Seq(Names) /\ Len(Tail(s)) = Len(s) - 1
        /\ \A i \in 1 .. Len(Tail(s)) : Tail(s)[i] = s[i + 1]
    BY HeadTailProperties
  <1>2. Len(s) \in Nat /\ Len(s) # 0 /\ Head(s) = s[1]
    BY EmptySeq
  <1>3. (Len(s) = 1) <=> (Tail(s) = <<>>)
    BY <1>1, <1>2, EmptySeq
  <1>4. ASSUME NEW f \in Named(s), f # Head(s)
        PROVE  f \in Named(Tail(s))
    <2>1. PICK i \in 1 .. Len(s) : f = s[i]
      BY DEF Named
    <2>2. i - 1 \in 1 .. Len(Tail(s)) /\ Tail(s)[i - 1] = f
      BY <1>1, <1>2, <1>4, <2>1
    <2> QED BY <1>1, <2>2, InNamed
  <1> QED BY <1>1, <1>3, <1>4

LEMMA AllNames == /\ Required \o Optional \in Seq(Names) /\ Required \o Optional # <<>>
                  /\ \A f \in Names : f \in Named(Required \o Optional)
                  /\ Named(<<>>) = {} /\ Config \in Names
  <1>1. Required \in Seq(Names) /\ Optional \in Seq(Names) /\ Config \in Named(Required)
    BY SnapshotAssumption
  <1>2. Required \o Optional \in Seq(Names) /\ Len(Required \o Optional) = Len(Required) + Len(Optional)
        /\ \A i \in 1 .. Len(Required) + Len(Optional) :
              (Required \o Optional)[i] = IF i <= Len(Required) THEN Required[i] ELSE Optional[i - Len(Required)]
    BY <1>1, ConcatProperties
  <1>3. Len(Required) \in Nat /\ Len(Optional) \in Nat
        /\ DOMAIN Required = 1 .. Len(Required) /\ DOMAIN Optional = 1 .. Len(Optional)
        /\ DOMAIN (Required \o Optional) = 1 .. Len(Required) + Len(Optional)
    BY <1>1, <1>2
  <1>4. ASSUME NEW f \in Names
        PROVE  f \in Named(Required \o Optional)
    <2>1. CASE f \in Named(Required)
      <3>1. PICK i \in 1 .. Len(Required) : f = Required[i]
        BY <1>3, <2>1 DEF Named
      <3>2. i \in 1 .. Len(Required) + Len(Optional) /\ (Required \o Optional)[i] = f
        BY <1>2, <1>3, <3>1
      <3> QED BY <1>2, <3>2, InNamed
    <2>2. CASE f \in Named(Optional)
      <3>1. PICK i \in 1 .. Len(Optional) : f = Optional[i]
        BY <1>3, <2>2 DEF Named
      <3>2. i + Len(Required) \in 1 .. Len(Required) + Len(Optional)
            /\ (Required \o Optional)[i + Len(Required)] = f
        BY <1>2, <1>3, <3>1
      <3> QED BY <1>2, <3>2, InNamed
    <2> QED BY <2>1, <2>2 DEF Names
  <1>5. Named(<<>>) = {} /\ Config \in Names
    BY <1>1 DEF Named, Names
  <1>6. Required \o Optional # <<>>
    BY <1>1, <1>4, <1>5
  <1> QED BY <1>2, <1>4, <1>5, <1>6

-----------------------------------------------------------------------------
(* capture: looking for the files. *)

LEMMA CaptureMoves == ASSUME SnapshotTypeOK, NEW c \in Captures, NEW from, NEW to \in {"ended"} \cup Capturing,
                             CaptureStep(c, from, to)
                      PROVE  /\ cpc[c] = from /\ cpc'[c] = to /\ \A d \in Captures \ {c} : cpc'[d] = cpc[d]
                             /\ cpc' \in [Captures -> {"idle", "ended"} \cup Capturing]
                             /\ UNCHANGED <<there, version, stamp, blurred, spc, target, listed, original,
                                            exchanged, outDir, out, plan>>
  BY DEF SnapshotTypeOK, CaptureStep, live, memory, output

\* Where this capture stands, and nothing of the others and of the directory.
Local(c) == /\ UNCHANGED <<made, copy, manifest, untouched>>
            /\ ctodo' \in [Captures -> Seq(Names)] /\ noted' \in [Captures -> Nat]
            /\ held' \in [Captures -> Snapshots]
            /\ \A d \in Captures \ {c} : UNCHANGED <<ctodo[d], noted[d], held[d]>>

LEMMA LocalInv == ASSUME SnapshotInv, NEW c \in Captures, NEW from, NEW to \in {"ended", "mkdir"} \cup Finding,
                         CaptureStep(c, from, to), Local(c), Found(c)', to = "mkdir" => Whole(held'[c])
                  PROVE  SnapshotInv'
  <1>1. /\ SnapshotTypeOK /\ Listed /\ Checked /\ PlanIsTrue
        /\ \A d \in Captures : Found(d) /\ Copied(d)
    BY DEF SnapshotInv
  <1>2. /\ cpc[c] = from /\ cpc'[c] = to /\ \A d \in Captures \ {c} : cpc'[d] = cpc[d]
        /\ cpc' \in [Captures -> {"idle", "ended"} \cup Capturing]
        /\ UNCHANGED <<there, version, stamp, blurred, spc, target, listed, original, exchanged, outDir, out, plan>>
    BY <1>1, CaptureMoves DEF Capturing, Finding
  <1>3. SnapshotTypeOK'
    BY <1>1, <1>2 DEF Local, SnapshotTypeOK
  <1>4. Listed' /\ Checked' /\ PlanIsTrue'
    BY <1>1, <1>2 DEF Local, Listed, Checked, PlanIsTrue, Whole, Sound
  <1>5. ASSUME NEW d \in Captures
        PROVE  Found(d)' /\ Copied(d)'
    <2>1. to \notin Writing
      BY DEF Finding, Writing
    <2>2. CASE d = c
      <3>1. cpc'[c] = "mkdir" => Whole(held[c])'
        BY <1>2 DEF Whole, Sound
      <3> QED BY <1>2, <2>1, <2>2, <3>1 DEF Copied, Writing
    <2>3. CASE d # c
      <3>1. Found(d) /\ Copied(d)
        BY <1>1
      <3>2. UNCHANGED <<cpc[d], ctodo[d], noted[d], held[d], version, stamp, blurred, made, manifest, copy>>
        BY <1>2, <2>3 DEF Local
      <3>3. \A e \in Captures : cpc'[e] \in Writing => cpc[e] \in Writing
        BY <1>2, <2>1
      <3>4. Found(d)'
        BY <3>1, <3>2 DEF Found, Sound
      <3>5. Copied(d)'
        BY <3>1, <3>2, <3>3 DEF Copied, Whole, Sound
      <3> QED BY <3>4, <3>5
    <2> QED BY <2>2, <2>3
  <1> QED BY <1>3, <1>4, <1>5 DEF SnapshotInv

LEMMA RefusesInv == ASSUME SnapshotInv, NEW c \in Captures, Refuses(c)
                    PROVE  SnapshotInv'
  <1>1. SnapshotTypeOK /\ NoFiles \in Snapshots /\ <<>> \in Seq(Names) /\ CaptureStep(c, cpc[c], "ended")
    BY DEF SnapshotInv, NoFiles, Snapshots, Refuses, Ends
  <1>2. cpc'[c] = "ended"
    BY <1>1, CaptureMoves
  <1>3. Local(c)
    BY <1>1 DEF Refuses, Ends, snapshot, Local, SnapshotTypeOK
  <1>4. Found(c)'
    BY <1>2 DEF Found, Finding
  <1> QED BY <1>1, <1>3, <1>4, LocalInv DEF Finding

LEMMA BeginInv == ASSUME SnapshotInv, NEW c \in Captures, BeginCapture(c)
                  PROVE  SnapshotInv'
  <1>1. CASE Refuses(c)
    BY <1>1, RefusesInv
  <1>2. CASE /\ CaptureStep(c, "idle", "stat") /\ ctodo' = [ctodo EXCEPT ![c] = Required \o Optional]
             /\ UNCHANGED <<noted, held, snapshot, untouched>>
    <2>1. SnapshotTypeOK /\ Found(c) /\ UNCHANGED <<made, copy, manifest>>
      BY <1>2 DEF SnapshotInv, snapshot
    <2>2. cpc[c] = "idle" /\ cpc'[c] = "stat"
      BY <1>2, <2>1, CaptureMoves DEF Capturing
    <2>3. Local(c) /\ ctodo'[c] = Required \o Optional
      BY <1>2, <2>1, AllNames DEF Local, SnapshotTypeOK
    <2>4. \A f \in Names : held'[c][f] = <<>> /\ f \in Named(ctodo'[c])
      BY <1>2, <2>1, <2>2, <2>3, AllNames DEF Found, NoFiles
    <2>5. ctodo'[c] # <<>>
      BY <2>3, AllNames
    <2>6. Found(c)'
      BY <2>2, <2>4, <2>5 DEF Found, Finding
    <2> QED BY <1>2, <2>3, <2>6, LocalInv DEF Finding
  <1> QED BY <1>1, <1>2 DEF BeginCapture

\* The name at hand is dealt with.
LEMMA NextInv == ASSUME SnapshotInv, NEW c \in Captures, NEW from \in {"stat", "again"}, NextName(c, from),
                        \/ held[c][Head(ctodo[c])] = <<>> /\ Head(ctodo[c]) \notin Named(Required)
                        \/ Sound(Head(ctodo[c]), held[c][Head(ctodo[c])])
                 PROVE  SnapshotInv'
  <1> DEFINE to == IF Len(ctodo[c]) = 1 THEN "mkdir" ELSE "stat"
             this == Head(ctodo[c])
  <1>1. CaptureStep(c, from, to) /\ ctodo' = [ctodo EXCEPT ![c] = Tail(ctodo[c])]
        /\ noted' = [noted EXCEPT ![c] = 0]
        /\ UNCHANGED <<held, made, copy, manifest, untouched>>
    BY DEF NextName, snapshot
  <1>2. SnapshotTypeOK /\ Found(c)
    BY DEF SnapshotInv
  <1>3. cpc[c] = from /\ cpc'[c] = to /\ UNCHANGED blurred
    BY <1>1, <1>2, CaptureMoves DEF Capturing
  <1>4. ctodo[c] \in Seq(Names) /\ ctodo[c] # <<>>
    BY <1>2, <1>3 DEF SnapshotTypeOK, Found, Finding
  <1>5. /\ Tail(ctodo[c]) \in Seq(Names) /\ (to = "mkdir" <=> Tail(ctodo[c]) = <<>>)
        /\ \A f \in Named(ctodo[c]) : f = this \/ f \in Named(Tail(ctodo[c]))
    BY <1>4, FirstAndRest
  <1>6. Local(c) /\ ctodo'[c] = Tail(ctodo[c])
    BY <1>1, <1>2, <1>5 DEF Local, SnapshotTypeOK
  <1>7. \A f \in Names : \/ held[c][f] = <<>> /\ (f \in Named(Required) => f \in Named(Tail(ctodo[c])))
                         \/ Sound(f, held[c][f])
    <2> SUFFICES ASSUME NEW f \in Names
                 PROVE  \/ held[c][f] = <<>> /\ (f \in Named(Required) => f \in Named(Tail(ctodo[c])))
                        \/ Sound(f, held[c][f])
      OBVIOUS
    <2>1. CASE f = this
      BY <2>1
    <2>2. CASE f # this
      <3>1. \/ held[c][f] = <<>> /\ (f \in Named(Required) => f \in Named(ctodo[c]))
            \/ Sound(f, held[c][f])
        BY <1>2, <1>3, <2>2 DEF Found, Finding
      <3> QED BY <1>5, <2>2, <3>1
    <2> QED BY <2>1, <2>2
  <1>8. Found(c)'
    <2>1. CASE to = "mkdir"
      BY <1>3, <2>1 DEF Found, Finding
    <2>2. CASE to = "stat"
      <3>1. cpc'[c] = "stat" /\ ctodo'[c] # <<>> /\ UNCHANGED held[c]
        BY <1>1, <1>3, <1>5, <1>6, <2>2
      <3>2. \A f \in Names : \/ held'[c][f] = <<>> /\ (f \in Named(Required) => f \in Named(ctodo'[c]))
                             \/ Sound(f, held[c][f])'
        BY <1>3, <1>6, <1>7, <3>1 DEF Sound
      <3> HIDE DEF to, this
      <3> QED BY <3>1, <3>2 DEF Found, Finding
    <2> QED BY <2>1, <2>2
  <1>9. to = "mkdir" => Whole(held'[c])
    <2>1. \A f \in Names : Sound(f, held[c][f]) => held[c][f] # <<>>
      <3>1. \A f \in Names : held[c][f] \in Seq(Nat)
        BY <1>2 DEF SnapshotTypeOK, Snapshots
      <3> QED BY <3>1, EmptySeq DEF Sound
    <2> QED BY <1>1, <1>5, <1>7, <2>1, AllNames DEF Whole
  <1> QED BY <1>1, <1>6, <1>8, <1>9, LocalInv DEF Finding

LEMMA StatInv == ASSUME SnapshotInv, NEW c \in Captures, Stat(c)
                 PROVE  SnapshotInv'
  <1> DEFINE this == Head(ctodo[c])
  <1>1. SnapshotTypeOK /\ Found(c) /\ cpc[c] = "stat"
    BY DEF SnapshotInv, Stat
  <1>2. ctodo[c] \in Seq(Names) /\ ctodo[c] # <<>> /\ this \in Names
    BY <1>1, FirstAndRest DEF SnapshotTypeOK, Found, Finding
  <1>3. CASE /\ CaptureStep(c, "stat", "read") /\ noted' = [noted EXCEPT ![c] = stamp[this]]
             /\ UNCHANGED <<ctodo, held, snapshot, untouched>>
    <2>1. Local(c)
      BY <1>1, <1>2, <1>3 DEF Local, SnapshotTypeOK, snapshot
    <2>2. cpc'[c] = "read" /\ UNCHANGED blurred
      BY <1>1, <1>3, CaptureMoves DEF Capturing
    <2>3. Found(c)'
      BY <1>1, <1>2, <1>3, <2>2 DEF Found, Finding, Sound
    <2> QED BY <1>3, <2>1, <2>3, LocalInv DEF Finding
  <1>4. CASE this \notin Named(Required) /\ NextName(c, "stat")
    <2>1. held[c][this] = <<>> \/ Sound(this, held[c][this])
      BY <1>1, <1>2 DEF Found, Finding
    <2> QED BY <1>1, <1>4, <2>1, NextInv
  <1> QED BY <1>3, <1>4, RefusesInv DEF Stat

LEMMA ReadInv == ASSUME SnapshotInv, NEW c \in Captures, OpenAndRead(c) \/ ReadRest(c) \/ StatAgain(c)
                 PROVE  SnapshotInv'
  <1> DEFINE this == Head(ctodo[c])
             read == held[c][this]
             Same == this \notin blurred /\ stamp[this] = noted[c]
  <1>1. SnapshotTypeOK /\ Found(c)
    BY DEF SnapshotInv
  <1>2. ASSUME cpc[c] \in Finding
        PROVE  /\ ctodo[c] \in Seq(Names) /\ ctodo[c] # <<>> /\ this \in Names
               /\ version[this] \in Nat \ {0} /\ read \in Seq(Nat)
    BY <1>1, <1>2, FirstAndRest DEF SnapshotTypeOK, Found, Snapshots
  <1>3. CASE /\ CaptureStep(c, "read", "rest") /\ held' = [held EXCEPT ![c][this] = <<version[this]>>]
             /\ UNCHANGED <<ctodo, noted, snapshot, untouched>>
    <2>1. cpc[c] = "read" /\ cpc'[c] = "rest" /\ UNCHANGED <<version, stamp, blurred>>
      BY <1>1, <1>3, CaptureMoves DEF Capturing
    <2>2. <<version[this]>> \in Seq(Nat) /\ Len(<<version[this]>>) = 1 /\ <<version[this]>>[1] = version[this]
      BY <1>2, <2>1 DEF Finding
    <2>3. Local(c) /\ held'[c] = [held[c] EXCEPT ![this] = <<version[this]>>]
      BY <1>1, <1>3, <2>2 DEF Local, SnapshotTypeOK, Snapshots, snapshot
    <2>4. held'[c][this] = <<version[this]>> /\ \A f \in Names \ {this} : held'[c][f] = held[c][f]
      BY <1>1, <1>2, <2>1, <2>3 DEF Finding, SnapshotTypeOK, Snapshots
    <2>5. \A f \in Names : \/ held'[c][f] = <<>> /\ (f \in Named(Required) => f \in Named(ctodo[c]))
                           \/ Sound(f, held[c][f])'
                           \/ f = this
      BY <1>1, <2>1, <2>4 DEF Found, Finding, Sound
    <2>6. ctodo[c] # <<>> /\ version[this] # 0
      BY <1>2, <2>1 DEF Finding
    <2>7. Found(c)'
      BY <1>3, <2>1, <2>2, <2>4, <2>5, <2>6 DEF Found, Finding
    <2> QED BY <1>3, <2>3, <2>7, LocalInv DEF Finding
  <1>4. CASE ReadRest(c)
    <2>1. PICK v \in {read[1], version[this]} : held' = [held EXCEPT ![c][this] = Append(read, v)]
      BY <1>4 DEF ReadRest
    <2>2. CaptureStep(c, "rest", "again") /\ UNCHANGED <<ctodo, noted, made, copy, manifest, untouched>>
      BY <1>4 DEF ReadRest, snapshot
    <2>3. cpc[c] = "rest" /\ cpc'[c] = "again" /\ UNCHANGED <<version, stamp, blurred>>
      BY <1>1, <2>2, CaptureMoves DEF Capturing
    <2>4. Len(read) = 1 /\ read[1] # 0 /\ read[1] \in Nat /\ (Same => read[1] = version[this])
      BY <1>1, <1>2, <2>3 DEF Found, Finding
    <2>5. /\ Append(read, v) \in Seq(Nat) /\ Len(Append(read, v)) = 2
          /\ Append(read, v)[1] = read[1] /\ Append(read, v)[2] = v /\ v \in Nat
      <3>1. v \in Nat /\ read \in Seq(Nat)
        BY <1>2, <2>1, <2>3, <2>4 DEF Finding
      <3> HIDE DEF read
      <3>2. /\ Append(read, v) \in Seq(Nat) /\ Len(Append(read, v)) = Len(read) + 1
            /\ \A i \in 1 .. Len(read) : Append(read, v)[i] = read[i]
            /\ Append(read, v)[Len(read) + 1] = v
        BY <3>1, AppendProperties
      <3> QED BY <2>4, <3>1, <3>2
    <2>6. Local(c) /\ held'[c] = [held[c] EXCEPT ![this] = Append(read, v)]
      BY <1>1, <2>1, <2>2, <2>5 DEF Local, SnapshotTypeOK, Snapshots
    <2>7. held'[c][this] = Append(read, v) /\ \A f \in Names \ {this} : held'[c][f] = held[c][f]
      BY <1>1, <1>2, <2>3, <2>6 DEF Finding, SnapshotTypeOK, Snapshots
    <2>8. \A f \in Names : \/ held'[c][f] = <<>> /\ (f \in Named(Required) => f \in Named(ctodo[c]))
                           \/ Sound(f, held[c][f])'
                           \/ f = this
      BY <1>1, <2>3, <2>7 DEF Found, Finding, Sound
    <2>9. ctodo[c] # <<>> /\ (Same => read[1] = version[this] /\ v = version[this])
      BY <1>2, <2>1, <2>3, <2>4 DEF Finding
    <2>10. /\ Len(held'[c][this]) = 2 /\ held'[c][this][1] # 0
           /\ Same => held'[c][this][1] = version[this] /\ held'[c][this][2] = version[this]
      BY <2>4, <2>5, <2>7, <2>9
    <2>11. Found(c)'
      <3> HIDE DEF read
      <3> QED BY <2>2, <2>3, <2>8, <2>9, <2>10 DEF Found, Finding
    <2> QED BY <2>2, <2>6, <2>11, LocalInv DEF Finding
  <1>5. CASE cpc[c] = "again" /\ stamp[this] = noted[c] /\ NextName(c, "again")
    <2>1. Len(read) = 2 /\ read[1] # 0 /\ (this \notin blurred => read[1] = read[2])
      BY <1>1, <1>5 DEF Found, Finding
    <2>2. Sound(this, read)
      BY <2>1 DEF Sound, Edited
    <2> QED BY <1>5, <2>2, NextInv
  <1>6. CASE Refuses(c)
    BY <1>6, RefusesInv
  <1> QED BY <1>3, <1>4, <1>5, <1>6 DEF OpenAndRead, StatAgain

-----------------------------------------------------------------------------
(* capture: writing the directory. *)

\* The configuration stage has checked is not one that is being written.
LEMMA OriginalWritten == ASSUME SnapshotInv, spc = "original", ~exchanged
                         PROVE  Len(copy[Config]) = 2
  <1>1. Whole(listed) /\ copy[Config] = listed[Config]
    BY DEF SnapshotInv, Checked, Staging
  <1>2. listed[Config] # <<>> /\ Sound(Config, listed[Config])
    BY <1>1, AllNames, SnapshotAssumption DEF Whole
  <1> QED BY <1>1, <1>2 DEF Sound

\* A writer stays the only one.
LEMMA WriterInv == ASSUME SnapshotInv, NEW c \in Captures, NEW from \in {"mkdir"} \cup Writing,
                          NEW to \in Writing, CaptureStep(c, from, to),
                          from = "mkdir" => ~made,
                          UNCHANGED <<noted, held>>, made' = TRUE, untouched' \in BOOLEAN,
                          ctodo' \in [Captures -> Seq(Names)], \A d \in Captures \ {c} : UNCHANGED ctodo[d],
                          to \in {"write", "close"} => ctodo'[c] # <<>>,
                          to \in {"manifest", "end"} => ctodo'[c] = <<>>,
                          copy' \in Snapshots, manifest' = IF to = "end" THEN Cut ELSE None,
                          to = "close" => Len(copy'[Head(ctodo'[c])]) = 1,
                          spc = "original" /\ ~exchanged => UNCHANGED copy[Config],
                          \A f \in Names : f \notin Named(ctodo'[c]) \/ held[c][f] = <<>> => copy'[f] = held[c][f]
                   PROVE  SnapshotInv'
  <1>1. /\ SnapshotTypeOK /\ Checked /\ PlanIsTrue
        /\ \A d \in Captures : Found(d) /\ Copied(d)
    BY DEF SnapshotInv
  <1>2. /\ cpc[c] = from /\ cpc'[c] = to /\ \A d \in Captures \ {c} : cpc'[d] = cpc[d]
        /\ cpc' \in [Captures -> {"idle", "ended"} \cup Capturing]
        /\ UNCHANGED <<there, version, stamp, blurred, spc, target, listed, original, exchanged, outDir, out, plan>>
    BY <1>1, CaptureMoves DEF Capturing, Writing
  <1>3. manifest' \in {None, Cut} /\ manifest'.is # "whole"
    BY DEF None, Cut
  <1>4. SnapshotTypeOK' /\ Listed'
    BY <1>1, <1>2, <1>3 DEF SnapshotTypeOK, Listed
  <1>5. \A d \in Captures \ {c} : cpc[d] \notin Writing
    <2>1. CASE from \in Writing
      BY <1>1, <1>2, <2>1 DEF Copied
    <2>2. CASE from = "mkdir"
      BY <1>1, <2>2 DEF Copied
    <2> QED BY <2>1, <2>2
  <1>7. Checked' /\ PlanIsTrue'
    BY <1>1, <1>2 DEF Checked, PlanIsTrue, Whole, Sound
  <1>8. Found(c)' /\ Copied(c)'
    <2>1. Whole(held[c])
      BY <1>1, <1>2 DEF Copied
    <2>2. UNCHANGED held[c] /\ \A d \in Captures : cpc'[d] \in Writing => d = c
      BY <1>2, <1>5
    <2>3. to \in {"write", "close", "manifest", "end"}
      BY DEF Writing
    <2>4. Found(c)'
      BY <1>2, <2>3 DEF Found, Finding
    <2>5. Whole(held[c])'
      BY <1>2, <2>1, <2>2 DEF Whole, Sound
    <2> QED BY <1>2, <2>1, <2>2, <2>3, <2>4, <2>5 DEF Copied
  <1>9. ASSUME NEW d \in Captures \ {c}
        PROVE  Found(d)' /\ Copied(d)'
    <2>1. Found(d) /\ Copied(d) /\ cpc[d] \notin Writing
      BY <1>1, <1>5
    <2>2. UNCHANGED <<cpc[d], ctodo[d], noted[d], held[d], version, stamp, blurred>>
      BY <1>2
    <2>3. Found(d)'
      BY <2>1, <2>2 DEF Found, Sound
    <2> QED BY <2>1, <2>2, <2>3 DEF Copied, Writing, Whole, Sound
  <1> QED BY <1>4, <1>7, <1>8, <1>9 DEF SnapshotInv

LEMMA WriteInv == ASSUME SnapshotInv, NEW c \in Captures, MakeDirectory(c) \/ WriteCopy(c) \/ CloseCopy(c)
                  PROVE  SnapshotInv'
  <1> DEFINE this == Head(ctodo[c])
             next == IF Len(ctodo[c]) = 1 THEN "manifest" ELSE "write"
  <1>1. SnapshotTypeOK /\ Found(c) /\ Copied(c) /\ Listed
    BY DEF SnapshotInv
  <1>2. ASSUME cpc[c] \in {"write", "close"}
        PROVE  /\ this \in Names /\ Tail(ctodo[c]) \in Seq(Names)
               /\ (next = "manifest" <=> Tail(ctodo[c]) = <<>>)
               /\ \A f \in Named(ctodo[c]) : f = this \/ f \in Named(Tail(ctodo[c]))
               /\ made /\ manifest = None
               /\ \A f \in Names : f \notin Named(ctodo[c]) \/ held[c][f] = <<>> => copy[f] = held[c][f]
               /\ cpc[c] = "close" => Len(copy[this]) = 1
    BY <1>1, <1>2, FirstAndRest DEF SnapshotTypeOK, Copied, Writing
  <1>3. CASE MakeDirectory(c)
    <2>1. CASE Refuses(c)
      BY <2>1, RefusesInv
    <2>2. CASE /\ ~made /\ CaptureStep(c, "mkdir", "write") /\ made' = TRUE /\ untouched' = TRUE
               /\ ctodo' = [ctodo EXCEPT ![c] = Required \o Optional]
               /\ UNCHANGED <<noted, held, copy, manifest>>
      <3>1. UNCHANGED <<noted, held, copy, manifest>> /\ copy = NoFiles /\ manifest = None
        BY <1>1, <2>2 DEF Listed
      <3>2. ctodo' \in [Captures -> Seq(Names)] /\ ctodo'[c] = Required \o Optional
            /\ \A d \in Captures \ {c} : UNCHANGED ctodo[d]
        BY <1>1, <2>2, AllNames DEF SnapshotTypeOK
      <3>3. copy' \in Snapshots /\ \A f \in Names : copy'[f] = <<>> /\ f \in Named(ctodo'[c])
        BY <1>1, <3>1, <3>2, AllNames DEF SnapshotTypeOK, NoFiles
      <3> QED BY <2>2, <3>1, <3>2, <3>3, AllNames, WriterInv DEF Writing
    <2> QED BY <1>3, <2>1, <2>2 DEF MakeDirectory
  <1>4. CASE CloseCopy(c)
    <2>1. CaptureStep(c, "close", next) /\ ctodo' = [ctodo EXCEPT ![c] = Tail(ctodo[c])]
          /\ copy' = [copy EXCEPT ![this] = held[c][this]] /\ UNCHANGED <<noted, held, made, manifest, untouched>>
      BY <1>4 DEF CloseCopy, NextCopy
    <2>2. cpc[c] = "close"
      BY <1>1, <2>1, CaptureMoves DEF Capturing
    <2>3. ctodo' \in [Captures -> Seq(Names)] /\ ctodo'[c] = Tail(ctodo[c])
          /\ \A d \in Captures \ {c} : UNCHANGED ctodo[d]
      BY <1>1, <1>2, <2>1, <2>2 DEF SnapshotTypeOK
    <2>4. copy' \in Snapshots /\ copy'[this] = held[c][this] /\ \A f \in Names \ {this} : copy'[f] = copy[f]
      BY <1>1, <1>2, <2>1, <2>2 DEF SnapshotTypeOK, Snapshots
    <2>5. \A f \in Names : f \notin Named(ctodo'[c]) \/ held[c][f] = <<>> => copy'[f] = held[c][f]
      BY <1>2, <2>2, <2>3, <2>4
    <2>6. untouched' \in BOOLEAN /\ manifest' = None /\ made' = TRUE
      BY <1>1, <1>2, <2>1, <2>2 DEF SnapshotTypeOK
    <2>7. spc = "original" /\ ~exchanged => UNCHANGED copy[Config]
      <3>1. Len(copy[this]) = 1
        BY <1>2, <2>2
      <3>2. spc = "original" /\ ~exchanged => Len(copy[Config]) = 2
        BY OriginalWritten
      <3>3. spc = "original" /\ ~exchanged => copy[this] # copy[Config]
        BY <3>1, <3>2
      <3> QED BY <2>4, <3>3, AllNames
    <2> HIDE DEF this
    <2> QED BY <1>2, <2>1, <2>2, <2>3, <2>4, <2>5, <2>6, <2>7, WriterInv DEF Writing
  <1>5. CASE WriteCopy(c)
    <2>1. cpc[c] = "write" /\ UNCHANGED <<noted, held, made, manifest, untouched>>
      BY <1>5 DEF WriteCopy
    <2>2. untouched' \in BOOLEAN /\ manifest' = None /\ made' = TRUE
      BY <1>1, <1>2, <2>1 DEF SnapshotTypeOK
    <2>3. CASE /\ held[c][this] # <<>> /\ copy[this] = <<>> /\ CaptureStep(c, "write", "close")
               /\ copy' = [copy EXCEPT ![this] = <<held[c][this][1]>>] /\ UNCHANGED ctodo
      <3>1. ctodo[c] \in Seq(Names) /\ ctodo[c] # <<>> /\ held[c][this] \in Seq(Nat)
        BY <1>1, <1>2, <2>1 DEF SnapshotTypeOK, Copied, Snapshots
      <3>2. <<held[c][this][1]>> \in Seq(Nat) /\ this = ctodo[c][1] /\ 1 \in DOMAIN ctodo[c]
        BY <2>3, <3>1, EmptySeq
      <3>3. /\ copy' \in Snapshots /\ \A f \in Names \ {this} : copy'[f] = copy[f]
            /\ copy'[this] = <<held[c][this][1]>>
        BY <1>1, <1>2, <2>1, <2>3, <3>2 DEF SnapshotTypeOK, Snapshots
      <3>4. this \in Named(ctodo[c])
        BY <3>2 DEF Named
      <3>5. \A f \in Names : f \notin Named(ctodo'[c]) \/ held[c][f] = <<>> => copy'[f] = held[c][f]
        BY <1>2, <2>1, <2>3, <3>3, <3>4
      <3>6. ctodo' \in [Captures -> Seq(Names)]
        BY <1>1, <2>3 DEF SnapshotTypeOK
      <3>7. spc = "original" /\ ~exchanged => UNCHANGED copy[Config]
        <4>1. spc = "original" /\ ~exchanged => copy[Config] # <<>>
          BY OriginalWritten, EmptySeq
        <4> QED BY <2>3, <3>3, <4>1, AllNames
      <3>8. Len(copy'[Head(ctodo'[c])]) = 1
        BY <2>3, <3>3
      <3> HIDE DEF this
      <3> QED BY <2>1, <2>2, <2>3, <3>1, <3>3, <3>5, <3>6, <3>7, <3>8, WriterInv DEF Writing
    <2>4. CASE held[c][this] = <<>> /\ NextCopy(c, "write") /\ UNCHANGED copy
      <3>1. CaptureStep(c, "write", next) /\ ctodo' = [ctodo EXCEPT ![c] = Tail(ctodo[c])]
        BY <2>4 DEF NextCopy
      <3>2. ctodo' \in [Captures -> Seq(Names)] /\ ctodo'[c] = Tail(ctodo[c])
            /\ \A d \in Captures \ {c} : UNCHANGED ctodo[d]
        BY <1>1, <1>2, <2>1, <3>1 DEF SnapshotTypeOK
      <3>3. \A f \in Names : f \notin Named(ctodo'[c]) \/ held[c][f] = <<>> => copy'[f] = held[c][f]
        BY <1>2, <2>1, <2>4, <3>2
      <3>4. copy' \in Snapshots /\ next \in {"manifest", "write"} /\ UNCHANGED copy[Config]
        BY <1>1, <2>4 DEF SnapshotTypeOK
      <3> HIDE DEF this
      <3> QED BY <1>2, <2>1, <2>2, <3>1, <3>2, <3>3, <3>4, WriterInv DEF Writing
    <2> QED BY <1>5, <2>3, <2>4 DEF WriteCopy
  <1> QED BY <1>3, <1>4, <1>5

LEMMA ManifestInv == ASSUME SnapshotInv, NEW c \in Captures, WriteManifest(c)
                     PROVE  SnapshotInv'
  <1>1. /\ SnapshotTypeOK /\ Copied(c) /\ Checked /\ PlanIsTrue
        /\ \A d \in Captures : Found(d) /\ Copied(d)
    BY DEF SnapshotInv
  <1>2. UNCHANGED <<made, copy, untouched>>
    BY DEF WriteManifest
  <1>3. CASE CaptureStep(c, "manifest", "end") /\ manifest' = Cut /\ UNCHANGED reading
    <2>1. cpc[c] = "manifest" /\ UNCHANGED <<ctodo, noted, held>>
      BY <1>1, <1>3, CaptureMoves DEF Capturing, reading
    <2>2. ctodo[c] = <<>> /\ made
          /\ \A f \in Names : f \notin Named(ctodo[c]) \/ held[c][f] = <<>> => copy[f] = held[c][f]
      BY <1>1, <2>1 DEF Copied, Writing
    <2>3. ctodo' \in [Captures -> Seq(Names)] /\ untouched' \in BOOLEAN /\ copy' \in Snapshots
          /\ \A d \in Captures \ {c} : UNCHANGED ctodo[d]
      BY <1>1, <1>2, <2>1 DEF SnapshotTypeOK
    <2> QED BY <1>2, <1>3, <2>1, <2>2, <2>3, WriterInv DEF Writing
  <1>4. CASE cpc[c] = "end" /\ Ends(c) /\ manifest' = Written(held[c])
    <2>1. /\ cpc'[c] = "ended" /\ \A d \in Captures \ {c} : cpc'[d] = cpc[d]
          /\ cpc' \in [Captures -> {"idle", "ended"} \cup Capturing]
          /\ UNCHANGED <<there, version, stamp, blurred, spc, target, listed, original, exchanged, outDir, out, plan>>
      BY <1>1, <1>4, CaptureMoves DEF Ends, Capturing
    <2>2. /\ ctodo[c] = <<>> /\ made /\ Whole(held[c]) /\ manifest = Cut
          /\ \A f \in Names : f \notin Named(ctodo[c]) \/ held[c][f] = <<>> => copy[f] = held[c][f]
          /\ \A d \in Captures \ {c} : cpc[d] \notin Writing
      BY <1>1, <1>4, <2>1 DEF Copied, Writing
    <2>3. manifest'.is = "whole" /\ manifest'.of = held[c]
      BY <1>4 DEF Written
    <2>4. held[c] \in Snapshots /\ copy \in Snapshots /\ copy = held[c]
      <3>1. held[c] \in Snapshots /\ copy \in Snapshots
        BY <1>1 DEF SnapshotTypeOK
      <3>2. \A f \in Names : copy[f] = held[c][f]
        BY <2>2, AllNames
      <3> QED BY <3>1, <3>2 DEF Snapshots
    <2>5. /\ ctodo' \in [Captures -> Seq(Names)] /\ noted' \in [Captures -> Nat] /\ held' \in [Captures -> Snapshots]
          /\ \A d \in Captures \ {c} : UNCHANGED <<ctodo[d], noted[d], held[d]>>
      <3>1. NoFiles \in Snapshots /\ <<>> \in Seq(Names)
        BY DEF NoFiles, Snapshots
      <3> QED BY <1>1, <1>4, <3>1 DEF Ends, SnapshotTypeOK
    <2>6. SnapshotTypeOK'
      BY <1>1, <1>2, <1>4, <2>1, <2>3, <2>4, <2>5 DEF SnapshotTypeOK
    <2>7. Listed'
      BY <1>2, <2>1, <2>2, <2>3, <2>4 DEF Listed, Whole, Sound
    <2>8. Checked' /\ PlanIsTrue'
      BY <1>1, <1>2, <2>1 DEF Checked, PlanIsTrue, Whole, Sound
    <2>9. ASSUME NEW d \in Captures
          PROVE  Found(d)' /\ Copied(d)'
      <3>1. Found(d) /\ Copied(d) /\ cpc'[d] \notin Writing
        BY <1>1, <2>1, <2>2 DEF Writing
      <3>2. CASE d = c
        BY <2>1, <3>2 DEF Found, Copied, Finding, Writing
      <3>3. CASE d # c
        <4>1. UNCHANGED <<cpc[d], ctodo[d], noted[d], held[d], version, stamp, blurred>>
          BY <2>1, <2>5, <3>3
        <4>2. Found(d)'
          BY <3>1, <4>1 DEF Found, Sound
        <4> QED BY <3>1, <4>1, <4>2 DEF Copied, Writing, Whole, Sound
      <3> QED BY <3>2, <3>3
    <2> QED BY <2>6, <2>7, <2>8, <2>9 DEF SnapshotInv
  <1> QED BY <1>3, <1>4 DEF WriteManifest

-----------------------------------------------------------------------------
(* stage. *)

LEMMA StageStepMoves == ASSUME SnapshotInv, NEW from, NEW to \in {"idle", "ended"} \cup Staging, StageStep(from, to),
                               target' \in BOOLEAN, listed' \in Snapshots, original' \in Seq(Nat),
                               exchanged' \in BOOLEAN,
                               outDir' \in BOOLEAN, out' \in [{"rollback", "target"} -> Seq(Nat)],
                               plan' \in {None, Cut} \/ plan' = Written(plan'.of),
                               Checked', PlanIsTrue'
                        PROVE  SnapshotInv'
  <1>1. /\ SnapshotTypeOK /\ Listed /\ \A c \in Captures : Found(c) /\ Copied(c)
        /\ spc' = to /\ UNCHANGED <<there, version, stamp, blurred, cpc, ctodo, noted, held,
                                    made, copy, manifest, untouched>>
    BY DEF SnapshotInv, StageStep, live, reading, snapshot
  <1>2. SnapshotTypeOK' /\ Listed'
    BY <1>1 DEF SnapshotTypeOK, Listed, Whole, Sound
  <1>3. \A c \in Captures : Found(c)' /\ Copied(c)'
    BY <1>1 DEF Found, Copied, Whole, Sound
  <1> QED BY <1>2, <1>3 DEF SnapshotInv

LEMMA StageEndsInv == ASSUME SnapshotInv, StageRefuses
                      PROVE  SnapshotInv'
  <1>1. SnapshotTypeOK /\ Checked /\ PlanIsTrue /\ NoFiles \in Snapshots /\ <<>> \in Seq(Nat)
    BY DEF SnapshotInv, NoFiles, Snapshots
  <1>2. /\ StageStep(spc, "ended") /\ spc' = "ended" /\ target' = FALSE /\ listed' = NoFiles /\ original' = <<>>
        /\ UNCHANGED <<exchanged, outDir, out, plan, blurred>>
    BY DEF StageRefuses, StageEnds, StageStep, output, live
  <1>3. Checked' /\ PlanIsTrue'
    BY <1>1, <1>2 DEF Checked, PlanIsTrue, Staging, Sound
  <1>4. target' \in BOOLEAN /\ listed' \in Snapshots /\ original' \in Seq(Nat) /\ exchanged' \in BOOLEAN
    BY <1>1, <1>2 DEF SnapshotTypeOK
  <1>5. /\ outDir' \in BOOLEAN /\ out' \in [{"rollback", "target"} -> Seq(Nat)]
        /\ plan' \in {None, Cut} \/ plan' = Written(plan'.of)
    BY <1>1, <1>2 DEF SnapshotTypeOK
  <1> QED BY <1>2, <1>3, <1>4, <1>5, StageStepMoves

\* Up to the directory: what is read, and compared with the manifest.
LEMMA StageReadInv == ASSUME SnapshotInv, BeginStage \/ Offline \/ ReadManifest \/ Hashes \/ ReadOriginal \/ StageDies
                      PROVE  SnapshotInv'
  <1>1. SnapshotTypeOK /\ Checked /\ PlanIsTrue /\ Listed
    BY DEF SnapshotInv
  <1>2. ASSUME NEW from, NEW to \in Staging, StageStep(from, to), UNCHANGED output,
               target' \in BOOLEAN, listed' \in Snapshots, original' \in Seq(Nat), exchanged' \in BOOLEAN,
               Checked', UNCHANGED exchanged \/ plan = None
        PROVE  SnapshotInv'
    <2>1. UNCHANGED <<outDir, out, plan, blurred>>
      BY <1>2 DEF StageStep, output, live
    <2>2. /\ PlanIsTrue' /\ outDir' \in BOOLEAN /\ out' \in [{"rollback", "target"} -> Seq(Nat)]
          /\ plan' \in {None, Cut} \/ plan' = Written(plan'.of)
      BY <1>1, <1>2, <2>1 DEF PlanIsTrue, SnapshotTypeOK, Sound, None
    <2> QED BY <1>2, <2>2, StageStepMoves
  <1>3. ASSUME StageStep(spc, "offline"), made, ~outDir, target' \in BOOLEAN, exchanged' = FALSE,
               UNCHANGED <<listed, original, output>>
        PROVE  SnapshotInv'
    <2>1. spc' = "offline" /\ UNCHANGED <<outDir, out, plan, copy>> /\ plan = None
      BY <1>1, <1>3 DEF StageStep, output, snapshot, Checked
    <2>2. Checked' /\ listed' \in Snapshots /\ original' \in Seq(Nat)
      BY <1>1, <1>3, <2>1 DEF Checked, Staging, SnapshotTypeOK
    <2> QED BY <1>2, <1>3, <2>1, <2>2 DEF Staging
  <1>4. ASSUME StageStep("offline", "manifest"), UNCHANGED <<memory, output>>
        PROVE  SnapshotInv'
    <2>1. spc = "offline" /\ spc' = "manifest"
          /\ UNCHANGED <<target, listed, original, exchanged, outDir, out, plan, copy, blurred>>
      BY <1>4 DEF StageStep, memory, output, snapshot, live
    <2>2. Checked' /\ target' \in BOOLEAN /\ listed' \in Snapshots /\ original' \in Seq(Nat) /\ exchanged' \in BOOLEAN
      BY <1>1, <2>1 DEF Checked, Staging, SnapshotTypeOK
    <2> QED BY <1>2, <1>4, <2>1, <2>2 DEF Staging
  <1>5. ASSUME manifest.is = "whole", StageStep("manifest", "hashes"), listed' = manifest.of,
               UNCHANGED <<target, original, exchanged, output>>
        PROVE  SnapshotInv'
    <2>1. spc = "manifest" /\ spc' = "hashes"
          /\ UNCHANGED <<target, original, exchanged, outDir, out, plan, copy, blurred>>
      BY <1>5 DEF StageStep, output, snapshot, live
    <2>2. manifest.of \in Snapshots /\ Whole(manifest.of)
      BY <1>1, <1>5 DEF SnapshotTypeOK, Listed, None, Cut
    <2>3. Whole(listed)'
      BY <1>5, <2>1, <2>2 DEF Whole, Sound
    <2>4. Checked' /\ target' \in BOOLEAN /\ listed' \in Snapshots /\ original' \in Seq(Nat) /\ exchanged' \in BOOLEAN
      BY <1>1, <1>5, <2>1, <2>2, <2>3 DEF Checked, Staging, SnapshotTypeOK
    <2> QED BY <1>2, <1>5, <2>1, <2>4 DEF Staging
  <1>6. ASSUME StageStep("hashes", "original"), UNCHANGED <<memory, output>>,
               \A f \in Names : listed[f] # <<>> => copy[f] = listed[f]
        PROVE  SnapshotInv'
    <2>1. spc = "hashes" /\ spc' = "original"
          /\ UNCHANGED <<target, listed, original, exchanged, outDir, out, plan, copy, blurred>>
      BY <1>6 DEF StageStep, memory, output, snapshot, live
    <2>2. Whole(listed) /\ listed[Config] # <<>>
      BY <1>1, <2>1, AllNames, SnapshotAssumption DEF Checked, Staging, Whole
    <2>3. Whole(listed)' /\ copy[Config] = listed[Config]
      BY <1>6, <2>1, <2>2, AllNames DEF Whole, Sound
    <2>4. Checked' /\ target' \in BOOLEAN /\ listed' \in Snapshots /\ original' \in Seq(Nat) /\ exchanged' \in BOOLEAN
      BY <1>1, <2>1, <2>3 DEF Checked, Staging, SnapshotTypeOK
    <2> QED BY <1>2, <1>6, <2>1, <2>4 DEF Staging
  <1>7. ASSUME copy[Config] # <<>>, StageStep("original", "mkdir"), original' = copy[Config],
               UNCHANGED <<target, listed, exchanged, output>>
        PROVE  SnapshotInv'
    <2>1. spc = "original" /\ spc' = "mkdir"
          /\ UNCHANGED <<target, listed, exchanged, outDir, out, plan, copy, blurred>>
      BY <1>7 DEF StageStep, output, snapshot, live
    <2>2. Whole(listed) /\ (~exchanged => copy[Config] = listed[Config])
      BY <1>1, <2>1 DEF Checked, Staging
    <2>3. original' \in Seq(Nat) /\ Whole(listed)'
      BY <1>1, <1>7, <2>1, <2>2, AllNames DEF SnapshotTypeOK, Snapshots, Whole, Sound
    <2>4. Checked' /\ target' \in BOOLEAN /\ listed' \in Snapshots /\ exchanged' \in BOOLEAN
      BY <1>1, <1>7, <2>1, <2>2, <2>3 DEF Checked, Staging, SnapshotTypeOK
    <2> QED BY <1>2, <1>7, <2>1, <2>3, <2>4 DEF Staging
  <1>8. CASE StageRefuses
    BY <1>8, StageEndsInv
  <1> QED BY <1>3, <1>4, <1>5, <1>6, <1>7, <1>8
          DEF BeginStage, Offline, ReadManifest, Hashes, ReadOriginal, StageDies, StageCheck

\* From there on: what is written.
LEMMA StageWriteInv == ASSUME SnapshotInv, MakeOutput \/ WriteConfig("rollback", IF target THEN "target" ELSE "plan")
                                           \/ WriteConfig("target", "plan") \/ WritePlan
                       PROVE  SnapshotInv'
  <1>1. SnapshotTypeOK /\ Checked /\ PlanIsTrue
    BY DEF SnapshotInv
  <1>2. ASSUME spc \in {"rollback", "target", "plan"}
        PROVE  /\ Whole(listed) /\ outDir /\ original # <<>> /\ <<original[1]>> \in Seq(Nat)
               /\ <<original[1]>> # <<>>
               /\ ~exchanged => original = listed[Config] /\ Sound(Config, original)
    <2>1. Whole(listed) /\ outDir /\ original # <<>> /\ (~exchanged => original = listed[Config])
      BY <1>1, <1>2 DEF Checked, Staging, SnapshotTypeOK
    <2>2. ~exchanged => Sound(Config, original)
      BY <2>1, AllNames, SnapshotAssumption DEF Whole
    <2>3. original[1] \in Nat
      BY <1>1, <2>1, EmptySeq DEF SnapshotTypeOK
    <2> QED BY <2>1, <2>2, <2>3
  <1>3. ASSUME UNCHANGED memory
        PROVE  /\ UNCHANGED <<target, listed, original, exchanged>>
               /\ target' \in BOOLEAN /\ listed' \in Snapshots /\ original' \in Seq(Nat) /\ exchanged' \in BOOLEAN
    BY <1>1, <1>3 DEF SnapshotTypeOK, memory
  <1>4. ASSUME NEW from, NEW to, StageStep(from, to)
        PROVE  spc = from /\ spc' = to /\ UNCHANGED <<copy, blurred>>
    BY <1>4 DEF StageStep, live, snapshot
  <1>5. CASE ~outDir /\ StageStep("mkdir", "rollback") /\ outDir' = TRUE /\ UNCHANGED <<memory, out, plan>>
    <2>1. Whole(listed) /\ original # <<>> /\ (~exchanged => original = listed[Config]) /\ out["target"] = <<>>
      BY <1>1, <1>4, <1>5 DEF Checked, Staging, NoOutput
    <2>2. Checked'
      BY <1>3, <1>4, <1>5, <2>1 DEF Checked, Staging, Whole, Sound
    <2>3. /\ PlanIsTrue' /\ outDir' \in BOOLEAN /\ out' \in [{"rollback", "target"} -> Seq(Nat)]
          /\ plan' \in {None, Cut} \/ plan' = Written(plan'.of)
      BY <1>1, <1>3, <1>4, <1>5 DEF PlanIsTrue, SnapshotTypeOK, Sound
    <2> QED BY <1>3, <1>5, <2>2, <2>3, StageStepMoves DEF Staging
  <1>6. ASSUME NEW f \in {"rollback", "target"}, NEW to \in {"target", "plan"}, f = "target" => to = "plan",
               WriteConfig(f, to)
        PROVE  SnapshotInv'
    <2>1. UNCHANGED <<memory, outDir, plan>> /\ (StageStep(f, f) \/ StageStep(f, to))
      BY <1>6 DEF WriteConfig
    <2>2. spc = f /\ UNCHANGED <<target, listed, original, exchanged, copy, blurred>>
      BY <1>3, <1>4, <2>1
    <2>3. /\ PlanIsTrue' /\ outDir' \in BOOLEAN
          /\ plan' \in {None, Cut} \/ plan' = Written(plan'.of)
      BY <1>1, <2>1, <2>2 DEF PlanIsTrue, SnapshotTypeOK, Sound
    <2>4. Whole(listed)'
      BY <1>2, <2>2 DEF Whole, Sound
    <2>5. CASE StageStep(f, f) /\ out[f] = <<>> /\ out' = [out EXCEPT ![f] = <<original[1]>>]
      <3>1. spc' = f
        BY <1>4, <2>5
      <3>2. out' \in [{"rollback", "target"} -> Seq(Nat)]
            /\ \A g \in {"rollback", "target"} \ {f} : out'[g] = out[g]
        BY <1>1, <1>2, <2>2, <2>5 DEF SnapshotTypeOK
      <3>3. Checked'
        BY <1>1, <1>2, <2>1, <2>2, <2>4, <3>1, <3>2 DEF Checked, Staging
      <3> QED BY <1>3, <2>1, <2>3, <2>5, <3>2, <3>3, StageStepMoves DEF Staging
    <2>6. CASE StageStep(f, to) /\ out[f] # <<>> /\ out' = [out EXCEPT ![f] = original]
      <3>1. spc' = to
        BY <1>4, <2>6
      <3>2. out' \in [{"rollback", "target"} -> Seq(Nat)] /\ out'[f] = original
            /\ \A g \in {"rollback", "target"} \ {f} : out'[g] = out[g]
        BY <1>1, <2>6 DEF SnapshotTypeOK
      <3>3. Checked'
        BY <1>1, <1>2, <1>6, <2>1, <2>2, <2>4, <3>1, <3>2 DEF Checked, Staging
      <3> QED BY <1>3, <2>1, <2>3, <2>6, <3>2, <3>3, StageStepMoves DEF Staging
    <2> QED BY <1>6, <2>5, <2>6 DEF WriteConfig
  <1>7. CASE WritePlan
    <2>1. UNCHANGED <<outDir, out>>
      BY <1>7 DEF WritePlan
    <2>2. outDir' \in BOOLEAN /\ out' \in [{"rollback", "target"} -> Seq(Nat)]
      BY <1>1, <2>1 DEF SnapshotTypeOK
    <2>3. CASE StageStep("plan", "plan") /\ plan' = Cut /\ UNCHANGED memory
      <3>1. spc = "plan" /\ spc' = "plan" /\ plan'.is # "whole" /\ UNCHANGED <<copy, blurred>>
        BY <1>4, <2>3 DEF Cut
      <3>2. Whole(listed)'
        BY <1>2, <1>3, <2>3, <3>1 DEF Whole, Sound
      <3>3. Checked' /\ PlanIsTrue'
        BY <1>1, <1>2, <1>3, <2>1, <2>3, <3>1, <3>2 DEF Checked, Staging, PlanIsTrue
      <3> QED BY <1>3, <2>2, <2>3, <3>3, StageStepMoves DEF Staging
    <2>4. CASE /\ spc = "plan" /\ StageEnds
               /\ plan' = Written([source |-> original, rollback |-> out["rollback"],
                                  target |-> IF target THEN original ELSE <<>>,
                                  manifest |-> listed[Config]])
      <3>1. /\ StageStep("plan", "ended") /\ target' = FALSE /\ listed' = NoFiles /\ original' = <<>>
            /\ UNCHANGED exchanged
        BY <2>4 DEF StageEnds
      <3>2. spc' = "ended" /\ UNCHANGED <<copy, blurred>>
        BY <1>4, <3>1
      <3>3. out["rollback"] = original
        BY <1>1, <2>4 DEF Checked
      <3>4. plan' = Written(plan'.of) /\ PlanIsTrue'
        BY <1>2, <2>4, <3>1, <3>2, <3>3 DEF Written, PlanIsTrue, Sound
      <3>5. Checked'
        BY <1>1, <1>2, <2>1, <2>4, <3>1, <3>2 DEF Checked, Staging
      <3>6. target' \in BOOLEAN /\ listed' \in Snapshots /\ original' \in Seq(Nat) /\ exchanged' \in BOOLEAN
        <4>1. NoFiles \in Snapshots /\ <<>> \in Seq(Nat)
          BY DEF NoFiles, Snapshots
        <4> QED BY <1>1, <3>1, <4>1 DEF SnapshotTypeOK
      <3> QED BY <2>2, <3>1, <3>4, <3>5, <3>6, StageStepMoves
    <2> QED BY <1>7, <2>3, <2>4 DEF WritePlan
  <1>8. CASE StageRefuses
    BY <1>8, StageEndsInv
  <1> QED BY <1>5, <1>6, <1>7, <1>8 DEF MakeOutput

-----------------------------------------------------------------------------
(* Zigbee2MQTT, people, and the power. *)

\* A file that is written does not get less sound, only blurred.
LEMMA LiveInv == ASSUME SnapshotInv, NEW f \in Names, LiveWrite(f) \/ LiveRemove(f)
                 PROVE  SnapshotInv'
  <1>1. /\ SnapshotTypeOK /\ Listed /\ Checked /\ PlanIsTrue
        /\ \A c \in Captures : Found(c) /\ Copied(c)
    BY DEF SnapshotInv
  <1>2. UNCHANGED <<cpc, ctodo, noted, held, made, copy, manifest, spc, target, listed, original, exchanged,
                    outDir, out, plan, untouched>>
    BY DEF LiveWrite, LiveRemove, reading, snapshot, memory, output
  <1>3. /\ there' \subseteq Names /\ version' \in [Names -> Nat \ {0}] /\ stamp' \in [Names -> Nat]
        /\ blurred' \subseteq Names /\ blurred \subseteq blurred'
        /\ \A g \in Names \ {f} : version'[g] = version[g] /\ stamp'[g] = stamp[g]
        /\ HalfRead(f, stamp'[f]) => f \in blurred' \/ (version'[f] = version[f] /\ stamp'[f] = stamp[f])
    <2>1. version \in [Names -> Nat \ {0}] /\ stamp \in [Names -> Nat] /\ there \subseteq Names /\ blurred \subseteq Names
      BY <1>1 DEF SnapshotTypeOK
    <2>2. CASE LiveWrite(f)
      <3>1. version' = [version EXCEPT ![f] = version[f] + 1] /\ there' = there \cup {f}
        BY <2>2 DEF LiveWrite
      <3>2. PICK s \in 1 .. MaxVersion : /\ stamp' = [stamp EXCEPT ![f] = s]
                                         /\ blurred' = IF HalfRead(f, s) THEN blurred \cup {f} ELSE blurred
        BY <2>2 DEF LiveWrite
      <3>3. version[f] + 1 \in Nat \ {0} /\ s \in Nat
        BY <2>1, SnapshotAssumption
      <3>4. stamp'[f] = s /\ \A g \in Names \ {f} : version'[g] = version[g] /\ stamp'[g] = stamp[g]
        BY <2>1, <3>1, <3>2
      <3>5. version' \in [Names -> Nat \ {0}] /\ stamp' \in [Names -> Nat]
        BY <2>1, <3>1, <3>2, <3>3
      <3> HIDE DEF HalfRead
      <3> QED BY <2>1, <3>1, <3>2, <3>4, <3>5
    <2>3. CASE LiveRemove(f)
      BY <2>1, <2>3 DEF LiveRemove
    <2> QED BY <2>2, <2>3
  <1>4. /\ Whole(listed) => Whole(listed)'
        /\ Whole(manifest.of) => Whole(manifest.of)'
        /\ \A c \in Captures : Whole(held[c]) => Whole(held[c])'
        /\ \A c \in Captures, g \in Names : Sound(g, held[c][g]) => Sound(g, held[c][g])'
        /\ Sound(Config, plan.of.source) => Sound(Config, plan.of.source)'
    BY <1>2, <1>3 DEF Whole, Sound
  <1>5. SnapshotTypeOK'
    BY <1>1, <1>2, <1>3 DEF SnapshotTypeOK
  <1>6. Listed' /\ PlanIsTrue'
    BY <1>1, <1>2, <1>4 DEF Listed, PlanIsTrue
  <1>7. Checked'
    BY <1>1, <1>2, <1>4 DEF Checked
  <1>8. ASSUME NEW c \in Captures
        PROVE  Found(c)' /\ Copied(c)'
    <2> DEFINE this == Head(ctodo[c])
               read == held[c][this]
    <2>1. Found(c) /\ Copied(c)
      BY <1>1
    <2>2. Copied(c)'
      <3>1. cpc[c] \in {"mkdir"} \cup Writing => Whole(held[c])'
        BY <1>4, <2>1 DEF Copied
      <3> QED BY <1>2, <2>1, <3>1 DEF Copied
    <2>3. CASE cpc[c] \in Finding
      <3>1. this \in Names
        BY <1>1, <2>1, <2>3, FirstAndRest DEF SnapshotTypeOK, Found
      <3>2. \A g \in Names : \/ held[c][g] = <<>> /\ (g \in Named(Required) => g \in Named(ctodo[c]))
                             \/ Sound(g, held[c][g])'
                             \/ g = this /\ cpc[c] \in {"rest", "again"}
        BY <1>4, <2>1, <2>3 DEF Found
      <3>3. cpc[c] \in {"rest", "again"} /\ this \notin blurred' /\ stamp'[this] = noted[c] =>
              this \notin blurred /\ version'[this] = version[this] /\ stamp'[this] = stamp[this]
        <4>1. cpc[c] \in {"rest", "again"} /\ this = f /\ stamp'[f] = noted[c] => HalfRead(f, stamp'[f])
          BY DEF HalfRead
        <4> HIDE DEF this
        <4> QED BY <1>3, <3>1, <4>1
      <3>4. /\ cpc[c] = "rest" => /\ Len(read) = 1 /\ read[1] # 0
                                  /\ (this \notin blurred /\ stamp[this] = noted[c]) => read[1] = version[this]
            /\ cpc[c] = "again" => /\ Len(read) = 2 /\ read[1] # 0
                                   /\ (this \notin blurred /\ stamp[this] = noted[c]) =>
                                        (read[1] = version[this] /\ read[2] = version[this])
        BY <2>1 DEF Found
      <3>5. /\ cpc[c] = "rest" => /\ Len(read) = 1 /\ read[1] # 0
                                  /\ (this \notin blurred' /\ stamp'[this] = noted[c]) => read[1] = version'[this]
            /\ cpc[c] = "again" => /\ Len(read) = 2 /\ read[1] # 0
                                   /\ (this \notin blurred' /\ stamp'[this] = noted[c]) =>
                                        (read[1] = version'[this] /\ read[2] = version'[this])
        BY <3>3, <3>4
      <3>6. cpc[c] # "idle" /\ ctodo[c] # <<>>
        BY <2>1, <2>3 DEF Found, Finding
      <3> QED BY <1>2, <2>2, <2>3, <3>2, <3>5, <3>6 DEF Found
    <2>4. CASE cpc[c] \notin Finding
      BY <1>2, <2>1, <2>2, <2>4 DEF Found, Finding
    <2> QED BY <2>2, <2>3, <2>4
  <1> QED BY <1>5, <1>6, <1>7, <1>8 DEF SnapshotInv

LEMMA PeopleInv == ASSUME SnapshotInv, (\E f \in Names : Edit(f)) \/ RemoveSnapshot \/ RemoveOutput
                   PROVE  SnapshotInv'
  <1>1. /\ SnapshotTypeOK /\ Listed /\ Checked /\ PlanIsTrue
        /\ \A c \in Captures : Found(c) /\ Copied(c)
    BY DEF SnapshotInv
  <1>2. UNCHANGED <<there, version, stamp, blurred, cpc, ctodo, noted, held, spc, target, listed, original>>
    BY DEF Edit, RemoveSnapshot, RemoveOutput, live, reading, memory
  <1>3. ASSUME Quiet, NEW c \in Captures PROVE Found(c)' /\ Copied(c)'
    <2>1. cpc[c] \notin Capturing
      BY <1>3 DEF Quiet
    <2> QED BY <1>1, <1>2, <2>1 DEF Found, Copied, Finding, Writing, Capturing
  <1>4. Whole(listed) => Whole(listed)'
    BY <1>2 DEF Whole, Sound
  <1>5. ASSUME NEW f \in Names, Edit(f)
        PROVE  SnapshotInv'
    <2>1. /\ Quiet /\ copy[f] # <<>> /\ copy' = [copy EXCEPT ![f] = Edited] /\ untouched' = FALSE
          /\ exchanged' = (exchanged \/ (spc = "original" /\ f = Config))
          /\ UNCHANGED <<made, manifest, outDir, out, plan>>
      BY <1>5 DEF Edit, output
    <2>2. copy' \in Snapshots /\ made /\ (f # Config => copy'[Config] = copy[Config])
      <3>1. Edited \in Seq(Nat) /\ copy \in Snapshots
        BY <1>1 DEF Edited, SnapshotTypeOK
      <3>2. made
        BY <1>1, <2>1 DEF Listed, NoFiles, SnapshotTypeOK
      <3> QED BY <2>1, <3>1, <3>2, AllNames DEF Snapshots
    <2>3. exchanged' \in BOOLEAN /\ (exchanged => exchanged')
      BY <1>1, <2>1 DEF SnapshotTypeOK
    <2>4. SnapshotTypeOK'
      BY <1>1, <1>2, <2>1, <2>2, <2>3 DEF SnapshotTypeOK
    <2>5. Listed'
      BY <1>1, <1>2, <2>1, <2>2 DEF Listed, Whole, Sound
    <2>6. Checked'
      BY <1>1, <1>2, <1>4, <2>1, <2>2, <2>3 DEF Checked
    <2>7. PlanIsTrue'
      BY <1>1, <1>2, <2>1, <2>3 DEF PlanIsTrue, Sound
    <2> QED BY <1>3, <2>1, <2>4, <2>5, <2>6, <2>7 DEF SnapshotInv
  <1>6. CASE RemoveSnapshot
    <2>1. /\ Quiet /\ made' = FALSE /\ copy' = NoFiles /\ manifest' = None
          /\ exchanged' = (exchanged \/ spc = "original")
          /\ UNCHANGED <<outDir, out, plan, untouched>>
      BY <1>6 DEF RemoveSnapshot, output
    <2>2. copy' \in Snapshots /\ manifest'.is # "whole"
      BY <2>1 DEF Snapshots, NoFiles, None
    <2>3. exchanged' \in BOOLEAN /\ (exchanged => exchanged')
      BY <1>1, <2>1 DEF SnapshotTypeOK
    <2>4. SnapshotTypeOK'
      BY <1>1, <1>2, <2>1, <2>2, <2>3 DEF SnapshotTypeOK
    <2>5. Listed'
      BY <2>1, <2>2 DEF Listed
    <2>6. Checked'
      BY <1>1, <1>2, <1>4, <2>1, <2>3 DEF Checked
    <2>7. PlanIsTrue'
      BY <1>1, <1>2, <2>1, <2>3 DEF PlanIsTrue, Sound
    <2> QED BY <1>3, <2>1, <2>4, <2>5, <2>6, <2>7 DEF SnapshotInv
  <1>7. CASE RemoveOutput
    <2>1. /\ spc \notin Staging /\ outDir' = FALSE /\ out' = NoOutput /\ plan' = None
          /\ UNCHANGED <<made, copy, manifest, untouched, exchanged>>
      BY <1>7 DEF RemoveOutput, snapshot, memory
    <2>2. out' \in [{"rollback", "target"} -> Seq(Nat)] /\ plan'.is # "whole"
      BY <2>1 DEF NoOutput, None
    <2>3. SnapshotTypeOK'
      BY <1>1, <1>2, <2>1, <2>2 DEF SnapshotTypeOK
    <2>4. Listed' /\ Checked' /\ PlanIsTrue'
      BY <1>1, <1>2, <2>1, <2>2 DEF Listed, Checked, PlanIsTrue, Staging, Whole, Sound
    <2>5. \A c \in Captures : Found(c)' /\ Copied(c)'
      BY <1>1, <1>2, <2>1 DEF Found, Copied, Whole, Sound
    <2> QED BY <2>3, <2>4, <2>5 DEF SnapshotInv
  <1> QED BY <1>5, <1>6, <1>7

LEMMA SnipTyped == ASSUME NEW s \in Seq(Nat)
                   PROVE  Snip(s) \in Seq(Nat) /\ (s = <<>> => Snip(s) = <<>>)
  <1>1. s # <<>> => <<s[1]>> \in Seq(Nat)
    BY EmptySeq
  <1> QED BY <1>1 DEF Snip

LEMMA PowerInv == ASSUME SnapshotInv, PowerCut
                  PROVE  SnapshotInv'
  <1>1. SnapshotTypeOK /\ Listed /\ Checked /\ PlanIsTrue /\ NoFiles \in Snapshots
    BY DEF SnapshotInv, NoFiles, Snapshots
  <1>2. /\ cpc' = [c \in Captures |-> IF cpc[c] \in Capturing THEN "ended" ELSE cpc[c]]
        /\ spc' = IF spc \in Staging THEN "ended" ELSE spc
        /\ ctodo' = [c \in Captures |-> <<>>] /\ noted' = [c \in Captures |-> 0]
        /\ held' = [c \in Captures |-> NoFiles] /\ target' = FALSE /\ listed' = NoFiles /\ original' = <<>>
        /\ untouched' = FALSE /\ UNCHANGED <<there, version, stamp, blurred, exchanged, made, outDir>>
    BY DEF PowerCut, live
  <1>3. /\ cpc' \in [Captures -> {"idle", "ended"}] /\ spc' \in {"idle", "ended"}
    BY <1>1, <1>2 DEF SnapshotTypeOK
  <1>4. \A c \in Captures : Found(c)' /\ Copied(c)'
    BY <1>2, <1>3 DEF Found, Copied, Finding, Writing
  <1> DEFINE CutOff == /\ copy' \in Snapshots /\ out' \in [{"rollback", "target"} -> Seq(Nat)]
                       /\ manifest' \in {manifest, Cut} /\ plan' \in {plan, Cut}
                       /\ copy = NoFiles => copy' = NoFiles
                       /\ out = NoOutput => out' = NoOutput
                       /\ manifest = None => manifest' = None
                       /\ plan = None => plan' = None
  <1>5. CutOff
    <2>1. ASSUME NEW f \in Names, copy' = [copy EXCEPT ![f] = Snip(copy[f])], UNCHANGED <<manifest, out, plan>>
          PROVE  CutOff
      <3>1. copy[f] \in Seq(Nat)
        BY <1>1 DEF SnapshotTypeOK, Snapshots
      <3>2. copy' \in Snapshots
        BY <1>1, <2>1, <3>1, SnipTyped DEF SnapshotTypeOK, Snapshots
      <3>3. copy = NoFiles => copy' = NoFiles
        BY <2>1, <3>1, SnipTyped DEF NoFiles
      <3> QED BY <1>1, <2>1, <3>2, <3>3 DEF SnapshotTypeOK
    <2>2. ASSUME NEW f \in DOMAIN out, out' = [out EXCEPT ![f] = Snip(out[f])], UNCHANGED <<copy, manifest, plan>>
          PROVE  CutOff
      <3>1. out[f] \in Seq(Nat)
        BY <1>1 DEF SnapshotTypeOK
      <3>2. out' \in [{"rollback", "target"} -> Seq(Nat)]
        BY <1>1, <2>2, <3>1, SnipTyped DEF SnapshotTypeOK
      <3>3. out = NoOutput => out' = NoOutput
        BY <2>2, <3>1, SnipTyped DEF NoOutput
      <3> QED BY <1>1, <2>2, <3>2, <3>3 DEF SnapshotTypeOK
    <2>3. ASSUME UNCHANGED <<copy, out>>,
                 \/ manifest # None /\ manifest' = Cut /\ UNCHANGED plan
                 \/ plan # None /\ plan' = Cut /\ UNCHANGED manifest
          PROVE  CutOff
      BY <1>1, <2>3 DEF SnapshotTypeOK
    <2> QED BY <2>1, <2>2, <2>3 DEF PowerCut
  <1>6. Cut.is # "whole"
    BY DEF Cut
  <1>7. SnapshotTypeOK'
    <2>1. /\ ctodo' \in [Captures -> Seq(Names)] /\ noted' \in [Captures -> Nat] /\ held' \in [Captures -> Snapshots]
          /\ target' \in BOOLEAN /\ listed' \in Snapshots /\ untouched' \in BOOLEAN
      <3>1. <<>> \in Seq(Names) /\ 0 \in Nat
        OBVIOUS
      <3> QED BY <1>1, <1>2, <3>1
    <2>2. original' \in Seq(Nat)
      BY <1>2
    <2>3. /\ manifest' \in {None, Cut} \/ (manifest'.of \in Snapshots /\ manifest' = Written(manifest'.of))
          /\ plan' \in {None, Cut} \/ plan' = Written(plan'.of)
      BY <1>1, <1>5 DEF SnapshotTypeOK
    <2> QED BY <1>1, <1>2, <1>3, <1>5, <2>1, <2>2, <2>3 DEF SnapshotTypeOK
  <1>8. Listed'
    BY <1>1, <1>2, <1>5, <1>6 DEF Listed, Whole, Sound
  <1>9. Checked' /\ PlanIsTrue'
    BY <1>1, <1>2, <1>3, <1>5, <1>6 DEF Checked, PlanIsTrue, Staging, Sound
  <1> QED BY <1>4, <1>7, <1>8, <1>9 DEF SnapshotInv

LEMMA NothingHappens == ASSUME SnapshotInv, UNCHANGED snapshotVars
                        PROVE  SnapshotInv'
  <1>1. UNCHANGED <<there, version, stamp, blurred, cpc, ctodo, noted, held, made, copy, manifest, spc, target,
                    listed, original, exchanged, outDir, out, plan, untouched>>
    BY DEF snapshotVars, live, reading, snapshot, memory, output
  <1>2. SnapshotTypeOK' /\ Listed' /\ Checked' /\ PlanIsTrue'
    BY <1>1 DEF SnapshotInv, SnapshotTypeOK, Listed, Checked, PlanIsTrue, Whole, Sound
  <1>3. \A c \in Captures : Found(c)' /\ Copied(c)'
    BY <1>1 DEF SnapshotInv, Found, Copied, Whole, Sound
  <1> QED BY <1>2, <1>3 DEF SnapshotInv

LEMMA NothingYet == SnapshotInit => SnapshotInv
  <1> SUFFICES ASSUME SnapshotInit PROVE SnapshotInv
    OBVIOUS
  <1>1. NoFiles \in Snapshots /\ NoOutput \in [{"rollback", "target"} -> Seq(Nat)]
        /\ None.is # "whole"
    <2>1. <<>> \in Seq(Nat)
      OBVIOUS
    <2>2. NoFiles \in Snapshots /\ NoOutput \in [{"rollback", "target"} -> Seq(Nat)]
      BY <2>1 DEF NoFiles, Snapshots, NoOutput
    <2> QED BY <2>2 DEF None
  <1>2. SnapshotTypeOK
    <2>1. <<>> \in Seq(Names) /\ <<>> \in Seq(Nat) /\ 0 \in Nat /\ 1 \in Nat \ {0}
      OBVIOUS
    <2>2. /\ ctodo \in [Captures -> Seq(Names)] /\ original \in Seq(Nat)
          /\ noted \in [Captures -> Nat] /\ held \in [Captures -> Snapshots]
          /\ version \in [Names -> Nat \ {0}] /\ stamp \in [Names -> Nat] /\ cpc \in [Captures -> {"idle", "ended"} \cup Capturing]
      BY <1>1, <2>1 DEF SnapshotInit
    <2>3. /\ manifest \in {None, Cut} /\ plan \in {None, Cut} /\ spc \in {"idle", "ended"} \cup Staging
          /\ copy \in Snapshots /\ listed \in Snapshots /\ out \in [{"rollback", "target"} -> Seq(Nat)]
          /\ there \subseteq Names /\ blurred \subseteq Names
      BY <1>1 DEF SnapshotInit
    <2>4. made \in BOOLEAN /\ untouched \in BOOLEAN /\ target \in BOOLEAN /\ outDir \in BOOLEAN /\ exchanged \in BOOLEAN
      BY DEF SnapshotInit
    <2> QED BY <2>2, <2>3, <2>4 DEF SnapshotTypeOK
  <1>3. \A c \in Captures : Found(c) /\ Copied(c)
    BY DEF SnapshotInit, Found, Copied, Finding, Writing
  <1>4. Listed /\ Checked /\ PlanIsTrue
    BY <1>1 DEF SnapshotInit, Listed, Checked, PlanIsTrue, Staging
  <1> QED BY <1>2, <1>3, <1>4 DEF SnapshotInv

\* SnapshotInv: what a capture has found is true of the live files, what it has written is what
\* it has found, and stage goes on only with what the manifest lists.
THEOREM SnapshotKept == SnapshotSpec => []SnapshotInv
  <1>1. SnapshotInv /\ [SnapshotNext]_snapshotVars => SnapshotInv'
    <2> SUFFICES ASSUME SnapshotInv, [SnapshotNext]_snapshotVars PROVE SnapshotInv'
      OBVIOUS
    <2>1. ASSUME NEW c \in Captures, Capture(c) PROVE SnapshotInv'
      BY <2>1, BeginInv, StatInv, ReadInv, WriteInv, ManifestInv, RefusesInv DEF Capture, CaptureDies
    <2>2. CASE StageConfig
      BY <2>2, StageReadInv, StageWriteInv DEF StageConfig
    <2>3. ASSUME NEW f \in Names, LiveWrite(f) \/ Edit(f) PROVE SnapshotInv'
      BY <2>3, LiveInv, PeopleInv
    <2>4. ASSUME NEW f \in Named(Optional), LiveRemove(f) PROVE SnapshotInv'
      BY <2>4, LiveInv DEF Names
    <2> QED BY <2>1, <2>2, <2>3, <2>4, PeopleInv, PowerInv, NothingHappens DEF SnapshotNext
  <1> QED BY NothingYet, <1>1, PTL DEF SnapshotSpec

\* capture: a snapshot that has a whole manifest is what the manifest lists, each file as it was
\* at one time unless a write that the stamp did not show came between the two halves.
THEOREM SnapshotWhole == SnapshotSpec => []SnapshotIsWhole
  <1>1. SnapshotInv => SnapshotIsWhole
    BY DEF SnapshotInv, Listed, SnapshotIsWhole
  <1> QED BY SnapshotKept, <1>1, PTL

\* stage: a finished plan speaks of one source, and of the configuration.yaml the manifest was
\* made from unless that was exchanged after its hash had been compared.
THEOREM PlanTrue == SnapshotSpec => []PlanIsTrue
  <1>1. SnapshotInv => PlanIsTrue
    BY DEF SnapshotInv
  <1> QED BY SnapshotKept, <1>1, PTL

-----------------------------------------------------------------------------
(* The target configuration.                                                                    *)

\* What the command looked at before it staged a target; yaml and options stay as they are.
StagedInv == /\ yaml \in Sources /\ options \in Settings /\ layer \in {"tcp", "usb"}
             /\ staged.is = "target" =>
                  /\ staged.yaml = Render(yaml, layer) /\ staged.yaml # <<>>
                  /\ staged.options = RenderOptions(options)
                  /\ SourceAgrees /\ LayersAgree(staged.yaml, staged.options)

LEMMA StagedHolds == SerialSpec => []StagedInv
  <1>1. SerialInit => StagedInv
    BY DEF SerialInit, StagedInv
  <1>2. ASSUME StagedInv, [StageSerial]_serialVars PROVE StagedInv'
    <2>1. CASE StageSerial
      <3>1. UNCHANGED <<yaml, options, layer>>
        BY <2>1 DEF StageSerial
      <3>2. CASE /\ SourceAgrees /\ Render(yaml, layer) # <<>>
                 /\ LayersAgree(Render(yaml, layer), RenderOptions(options))
        <4>1. staged' = [is |-> "target", yaml |-> Render(yaml, layer), options |-> RenderOptions(options)]
          BY <2>1, <3>2 DEF StageSerial
        <4>2. staged'.yaml = Render(yaml, layer) /\ staged'.options = RenderOptions(options)
          BY <4>1
        <4>3. SourceAgrees'
          BY <3>1, <3>2 DEF SourceAgrees
        <4> QED BY <1>2, <3>1, <3>2, <4>2, <4>3 DEF StagedInv
      <3>3. CASE ~(/\ SourceAgrees /\ Render(yaml, layer) # <<>>
                   /\ LayersAgree(Render(yaml, layer), RenderOptions(options)))
        <4>1. staged' = [is |-> "refused"]
          BY <2>1, <3>3 DEF StageSerial
        <4> QED BY <1>2, <3>1, <4>1 DEF StagedInv
      <3> QED BY <3>2, <3>3
    <2>2. CASE UNCHANGED serialVars
      BY <1>2, <2>2 DEF StagedInv, serialVars, SourceAgrees
    <2> QED BY <1>2, <2>1, <2>2
  <1> QED BY <1>1, <1>2, PTL DEF SerialSpec

\* What the regular expressions leave alone: every line but the port and the adapter.
LEMMA RenderLines ==
    ASSUME NEW l \in Sources, RenderMinimal(l) # <<>>, NEW i \in DOMAIN l, l[i] # RenderMinimal(l)[i]
    PROVE  RenderMinimal(l)[i].key = l[i].key /\ l[i].key \in {"port", "adapter"}
  <1> DEFINE Content == [key : Keys \cup Heads \cup {"more", "comment"}, value : STRING]
  <1>1. l[i] \in Content
    <2>1. l \in Seq(Content)
      BY SourcesAssumption
    <2> HIDE DEF Content
    <2> QED BY <2>1, LenProperties, ElementOfSeq
  <1>2. RenderMinimal(l)[i] = IF i \in Direct(l, "port") THEN [l[i] EXCEPT !.value = New.port]
                              ELSE IF i \in Direct(l, "adapter") THEN [l[i] EXCEPT !.value = New.adapter]
                              ELSE l[i]
    BY DEF RenderMinimal
  <1>3. i \in Direct(l, "port") \/ i \in Direct(l, "adapter")
    BY <1>2
  <1>4. l[i].key \in {"port", "adapter"}
    BY <1>3 DEF Direct
  <1> QED BY <1>1, <1>2, <1>3, <1>4

\* The values YAML reads from a block that is there.
LEMMA SerialFields == ASSUME NEW l, Loads(l)
                      PROVE  /\ \A k \in Keys : Wanted(l, "usb")[k] =
                                  IF k = "port" THEN Plain(New.port)
                                  ELSE IF k = "adapter" THEN Plain(New.adapter) ELSE Serial(l)[k]
                             /\ Wanted(l, "tcp")["rtscts"] = Plain("false")
  <1>1. DOMAIN Serial(l) = Keys /\ Serial(l) = [k \in Keys |-> Serial(l)[k]]
    BY DEF Serial, Loads, Parsed, Heads, Block
  <1> QED BY <1>1 DEF Wanted, Keys

\* render, stage, stage_usb: the staged target is the source but for the port and the adapter, in both
\* layers, whatever the file looks like.
THEOREM TargetMinimal == SerialSpec => []TargetIsMinimal
  <1>1. ASSUME StagedInv PROVE TargetIsMinimal
    <2> SUFFICES ASSUME staged.is = "target" PROVE TargetIsMinimal
      BY DEF TargetIsMinimal
    <2> DEFINE new == staged.yaml
               o == staged.options
    <2>1. /\ yaml \in Sources /\ options \in Settings /\ layer \in {"tcp", "usb"}
          /\ new = Render(yaml, layer) /\ new # <<>> /\ o = RenderOptions(options)
          /\ SourceAgrees /\ LayersAgree(new, o)
      BY <1>1 DEF StagedInv
    <2>2. /\ new = RenderMinimal(yaml) /\ Loads(new)
          /\ Parsed(new) = [Parsed(yaml) EXCEPT !["serial"] = Wanted(yaml, layer)]
      BY <2>1 DEF Render
    <2>3. Loads(yaml) /\ EffectiveSerial(yaml, options)
      BY <2>1 DEF SourceAgrees
    <2>4. Parsed(new)["other"] = Parsed(yaml)["other"] /\ Serial(new) = Wanted(yaml, layer)
      BY <2>2 DEF Parsed, Heads, Serial
    <2>5. \A k \in Keys : Serial(new)[k] = Plain(o[k])
      BY <2>1 DEF LayersAgree
    <2>6. /\ o["port"] = New.port /\ o["adapter"] = New.adapter
          /\ \A k \in {"baudrate", "rtscts"} : o[k] = options[k]
      BY <2>1 DEF RenderOptions, Settings, Keys
    <2>7. Serial(new)["baudrate"] = Serial(yaml)["baudrate"]
      BY <2>3, <2>5, <2>6 DEF EffectiveSerial, Keys
    <2>8. Serial(new)["rtscts"] = Serial(yaml)["rtscts"]
      <3>1. CASE options["rtscts"] # "none"
        BY <2>3, <2>5, <2>6, <3>1 DEF EffectiveSerial, Keys
      <3>2. CASE options["rtscts"] = "none"
        <4>1. Serial(new)["rtscts"] = Plain("none")
          BY <2>5, <2>6, <3>2 DEF Keys
        <4>2. layer = "usb"
          BY <2>1, <2>3, <2>4, <4>1, SerialFields DEF Plain
        <4> QED BY <2>3, <2>4, <4>2, SerialFields DEF Keys
      <3> QED BY <3>1, <3>2
    <2>9. \A i \in DOMAIN yaml : yaml[i] # new[i] =>
              new[i].key = yaml[i].key /\ yaml[i].key \in {"port", "adapter"}
      BY <2>1, <2>2, RenderLines
    <2> QED BY <2>2, <2>4, <2>5, <2>6, <2>7, <2>8, <2>9 DEF TargetIsMinimal
  <1> QED BY StagedHolds, <1>1, PTL
=============================================================================

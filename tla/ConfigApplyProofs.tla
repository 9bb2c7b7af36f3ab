------------------------- MODULE ConfigApplyProofs -------------------------
(***************************************************************************)
(* Proofs about ConfigApply, for any set of invocations, roots and files:  *)
(* the inductive invariant of Spec, and from it CleanStart,                *)
(* TruthfulSuccess and the steps of the refinement of TwoLayer; that of    *)
(* MeddledSpec for NeverUnderRunning and ForeignEditKept; and that of      *)
(* OverlapSpec for ResidueReported.                                        *)
(***************************************************************************)
EXTENDS ConfigApply, TLAPS

-----------------------------------------------------------------------------
(* The inductive invariant. *)

Busy(p) == pc[p] \in Active \/ rpc[p] \in Alive

\* One command at a time; a request is in flight only when the remote program
\* that gave it up has nothing left to do but to remove its candidate file.
Alone == /\ \A p, q \in Procs : Busy(p) /\ Busy(q) => p = q
         /\ late # {} => \A p \in Procs : /\ rpc[p] \in Alive => rpc[p] = "unlink"
                                          /\ pc[p] \in Active =>
                                               pc[p] = "wait" /\ rpc[p] \in {"unlink", "exit1"}

\* How far the two processes of an invocation can be from each other.
InStep == \A p \in Procs :
            /\ pc[p] # "new" => job[p] \in Jobs
            /\ pc[p] \in {"new", "start_info", "start_docker"} \cup PlanLabels => rpc[p] = "none"
            /\ pc[p] \in CheckLabels \cup {"start_check"} => rpc[p] \in Over
            /\ pc[p] \in CheckLabels => job[p].kind = "apply"
            /\ pc[p] \in {"start_info", "start_docker"} => job[p].kind = "start"
            /\ rpc[p] \in Alive \ {"starting"} => job[p].kind = "apply"

\* Where the container has been seen down, it stays down.
SeenDown(p) == \/ pc[p] \in {"plan_yaml", "start_info", "start_docker", "check_yaml"}
               \/ rpc[p] \in Alive
Down == /\ \A p \in Procs : SeenDown(p) => ~running
        /\ late # {} => ~running

\* What a plan has read so far is still so.
ReadSoFar(p) ==
    LET s == saw[p] IN
    /\ opts = s.opts
    /\ \A r \in 1..(s.next - 1) : r \in s.clash \/ YamlAt(r) \in {Expected(p), NoFile}
    /\ \A r \in s.match : YamlAt(r) = Expected(p)

StillSo == \A p \in Procs :
             /\ pc[p] \in {"plan_docker", "check_docker"} => saw[p] = Fresh(opts)
             /\ pc[p] \in {"plan_yaml", "check_yaml"} => ReadSoFar(p)
             /\ rpc[p] \in BeforeTry \cup {"create", "write", "post"} => AllLayers(Old(p))
             /\ pc[p] \in {"start_info", "start_docker"} \/ rpc[p] = "starting"
                  => AllLayers(New(p))

\* The inductive invariant of Spec: a command acts on what it has read because it
\* works alone, under a container it has seen down, on layers nobody else writes.
IInv == TypeOK /\ Alone /\ InStep /\ Down /\ StillSo

-----------------------------------------------------------------------------
(* The labels, contents and phases are expanded everywhere below. *)

USE DEF PlanLabels, CheckLabels, StartLabels, Active, Ended, BeforeTry, InTry,
        AfterTry, Alive, Over, Fallible, Configs, Contents, Quiescent, Jobs, NoJob,
        Roots, Saw, Fresh, addon, layers, Goto, RGoto, OnRaise

\* OldCfg and NewCfg: the configurations of a phase are staged ones.
LEMMA PhaseType == \A p \in Procs : Old(p) \in Configs /\ New(p) \in Configs
  BY DEF Old, New, OldCfg, NewCfg

\* Local steps: every step of the CLI preserves the types.
LEMMA LocalType ==
    ASSUME TypeOK, NEW p \in Procs, Local(p) \/ LocalFails(p)
    PROVE  TypeOK'
  <1> USE DEF TypeOK
  <1>1. ASSUME NEW at, PlanRoot(p, at) PROVE TypeOK'
    <2> DEFINE s == saw[p]
               here(S) == {r \in {s.next} : YamlAt(r) \in S}
               t == [s EXCEPT !.next  = s.next + 1,
                              !.match = s.match \cup here({Expected(p)}),
                              !.clash = s.clash \cup here(Contents \ {Expected(p)})]
    <2>1. s \in Saw /\ s.next \in 1..NumRoots
      BY <1>1 DEF PlanRoot
    <2>2. \A S : here(S) \subseteq 1..NumRoots
      BY <2>1
    <2>3. s.next + 1 \in 1..NumRoots + 1
      BY <2>1, RootsAssumption
    <2>4. t \in Saw
      BY <2>1, <2>2, <2>3
    <2>5. saw' = [saw EXCEPT ![p] = t] /\ UNCHANGED <<addon, layers, job, pc, rpc>>
      BY <1>1 DEF PlanRoot
    <2> QED BY <2>4, <2>5
  <1>2. ASSUME NEW from, NEW to \in {"plan_docker", "check_docker"}, PlanInfo(p, from, to)
        PROVE  TypeOK'
    <2>1. Fresh(opts) \in Saw
      BY RootsAssumption
    <2> QED BY <1>2, <2>1 DEF PlanInfo
  <1>3. ASSUME NEW from, NEW ok, NEW program \in Alive, Launch(p, from, ok, program)
        PROVE  TypeOK'
    <2>1. CASE ok
      BY <1>3, <2>1 DEF Launch
    <2>2. CASE ~ok
      BY <1>3, <2>2 DEF Launch
    <2> QED BY <2>1, <2>2
  <1>4. ASSUME NEW from, NEW to \in Active \cup Ended, LocalTest(p, from, to)
        PROVE  TypeOK'
    BY <1>4 DEF LocalTest
  <1> QED
    BY <1>1, <1>2, <1>3, <1>4
    DEF Local, LocalFails, PlanDocker, LaunchApply, Prestarted, StartInfo, StartDocker,
        Wait, Checked, StartCheck

\* Remote steps, and the faults of the remote program.
LEMMA RemoteType ==
    ASSUME TypeOK, NEW p \in Procs, Remote(p) \/ RemoteRaises(p) \/ Kill(p)
    PROVE  TypeOK'
  <1> USE PhaseType DEF TypeOK
  <1>1. ASSUME NEW at \in Alive, NEW ok, NEW to \in Alive \cup Over, RemoteTest(p, at, ok, to)
        PROVE  TypeOK'
    BY <1>1 DEF RemoteTest
  <1>2. ASSUME NEW at, NEW to \in Alive, RemoteInfo(p, at, to) PROVE TypeOK'
    <2>1. [saw[p] EXCEPT !.opts = opts] \in Saw
      OBVIOUS
    <2>2. saw' = [saw EXCEPT ![p] = [saw[p] EXCEPT !.opts = opts]]
      BY <1>2 DEF RemoteInfo
    <2> QED BY <1>2, <2>1, <2>2 DEF RemoteInfo
  <1>3. CASE CreateTmp(p)
    <2>1. rpc' \in [Procs -> Alive \cup Over]
      BY <1>3 DEF CreateTmp
    <2> QED BY <1>3, <2>1 DEF CreateTmp
  <1>4. ASSUME NEW at, NEW value \in Configs, NEW answered \in Alive \cup Over,
               NEW otherwise \in Alive \cup Over, Post(p, at, value, answered, otherwise)
        PROVE  TypeOK'
    <2>1. opts' \in Contents /\ late' \subseteq Configs
      BY <1>4 DEF Post
    <2>2. rpc' \in [Procs -> Alive \cup Over]
      BY <1>4 DEF Post
    <2> QED BY <1>4, <2>1, <2>2 DEF Post
  <1>5. CASE Replace(p)
    BY <1>5 DEF Replace
  <1>6. ASSUME NEW at, NEW to \in Alive \cup Over, Unlink(p, at, to) PROVE TypeOK'
    BY <1>6 DEF Unlink
  <1>7. CASE SupStart(p)
    <2>1. sup' \in {"started"} \cup Quiescent /\ running' \in BOOLEAN
      BY <1>7 DEF SupStart
    <2>2. rpc' \in [Procs -> Alive \cup Over]
      BY <1>7 DEF SupStart
    <2> QED BY <1>7, <2>1, <2>2 DEF SupStart
  <1>8. CASE Kill(p)
    BY <1>8 DEF Kill, Asked
  <1>9. CASE RemoteRaises(p)
    BY <1>1, <1>9 DEF RemoteRaises
  <1> QED
    BY <1>1, <1>2, <1>3, <1>4, <1>5, <1>6, <1>7, <1>8, <1>9 DEF Remote, Apply

\* Supervisor, the add-on and other people.
LEMMA OtherType ==
    ASSUME TypeOK, Environment \/ Foreign
    PROVE  TypeOK'
  <1> USE DEF TypeOK
  <1>1. CASE LateRequest   BY <1>1 DEF LateRequest
  <1>2. CASE AddonDown     BY <1>2 DEF AddonDown
  <1>3. CASE SupNotices    BY <1>3 DEF SupNotices
  <1>4. CASE AddonSaves    BY <1>4 DEF AddonSaves
  <1>5. CASE Foreign
    <2>1. opts' \in Contents /\ yaml' \in [Files -> Contents \cup {NoFile}]
      BY <1>5 DEF Foreign
    <2>2. sup' \in {"started"} \cup Quiescent /\ running' \in BOOLEAN
      BY <1>5 DEF Foreign
    <2> QED BY <1>5, <2>1, <2>2 DEF Foreign
  <1> QED BY <1>1, <1>2, <1>3, <1>4, <1>5 DEF Environment

LEMMA BeginType ==
    ASSUME TypeOK, NEW p \in Procs, NEW j \in Jobs, Begin(p, j)
    PROVE  TypeOK'
  BY DEF TypeOK, Begin

LEMMA InitType == Init => TypeOK
  <1> SUFFICES ASSUME Init PROVE TypeOK
    OBVIOUS
  <1>1. Fresh("source") \in Saw
    BY RootsAssumption
  <1> QED BY <1>1 DEF Init, TypeOK

\* Every variable of ConfigApply keeps its type under Spec.
THEOREM TypeCorrect == Spec => []TypeOK
  <1>1. ASSUME TypeOK, [Next]_vars PROVE TypeOK'
    <2>1. CASE Next
      BY <1>1, <2>1, BeginType, LocalType, RemoteType, OtherType DEF Next, Step
    <2>2. CASE UNCHANGED vars
      BY <1>1, <2>2 DEF TypeOK, vars
    <2> QED BY <1>1, <2>1, <2>2
  <1> QED BY InitType, <1>1, PTL DEF Spec

-----------------------------------------------------------------------------
(* Inductiveness of IInv.  Every case has one step per conjunct. *)

Working == Alone /\ InStep /\ Down /\ StillSo

\* What ReadSoFar says of a plan that has read every root and found it safe.
LEMMA SafePlan ==
    ASSUME TypeOK, NEW p \in Procs, ReadSoFar(p), AllRead(p), Safe(p)
    PROVE  AllLayers(Expected(p))
  <1>1. opts = Expected(p)
    BY DEF ReadSoFar, Safe
  <1>2. \E r \in Roots : YamlAt(r) = Expected(p)
    BY DEF TypeOK, ReadSoFar, Safe
  <1>3. \A r \in Roots : YamlAt(r) \in {Expected(p), NoFile}
    BY RootsAssumption DEF ReadSoFar, Safe, AllRead
  <1> QED BY <1>1, <1>2, <1>3 DEF AllLayers

\* A plan step of one invocation.
LEMMA PlanInv ==
    ASSUME IInv, NEW p \in Procs,
           \/ PlanInfo(p, "plan_info", "plan_docker") \/ PlanInfo(p, "check_info", "check_docker")
           \/ PlanDocker(p, "plan_docker", "plan_yaml") \/ PlanDocker(p, "check_docker", "check_yaml")
           \/ PlanRoot(p, "plan_yaml") \/ PlanRoot(p, "check_yaml")
    PROVE  Working'
  <1> USE DEF IInv, TypeOK, Busy, SeenDown, Expected, AllLayers, YamlAt, Old, New
  <1>0. ASSUME NEW at \in {"plan_yaml", "check_yaml"}, PlanRoot(p, at) PROVE StillSo'
    <2>1. \A q \in Procs : q # p => pc[q] \notin Active /\ rpc[q] \notin Alive
      BY <1>0 DEF PlanRoot, Alone
    <2>2. rpc[p] \notin Alive
      BY <1>0 DEF PlanRoot, InStep
    <2>3. ReadSoFar(p)
      BY <1>0 DEF PlanRoot, StillSo
    <2>4. /\ saw'[p].next = saw[p].next + 1
          /\ saw'[p].opts = saw[p].opts
          /\ saw'[p].match = saw[p].match \cup {r \in {saw[p].next} : YamlAt(r) \in {Expected(p)}}
          /\ saw'[p].clash = saw[p].clash
                \cup {r \in {saw[p].next} : YamlAt(r) \in Contents \ {Expected(p)}}
      BY <1>0 DEF PlanRoot
    <2>5. /\ UNCHANGED <<opts, yaml, pc, rpc, job>>
          /\ saw[p].next \in Roots
          /\ YamlAt(saw[p].next) \in Contents \cup {NoFile}
      BY <1>0, RootsAssumption DEF PlanRoot
    <2>6. \A r \in 1..(saw'[p].next - 1) : r \in 1..(saw[p].next - 1) \/ r = saw[p].next
      <3>1. saw[p].next \in Int /\ saw'[p].next = saw[p].next + 1
        BY <2>4, <2>5, RootsAssumption
      <3> HIDE DEF TypeOK, IInv
      <3> QED BY <3>1
    <2>7. ReadSoFar(p)'
      BY <2>3, <2>4, <2>5, <2>6 DEF ReadSoFar
    <2> QED BY <1>0, <2>1, <2>2, <2>5, <2>7 DEF StillSo, PlanRoot
  <1>1. CASE PlanInfo(p, "plan_info", "plan_docker")
    <2>1. Alone'   BY <1>1 DEF Alone, PlanInfo
    <2>2. InStep'   BY <1>1 DEF InStep, PlanInfo
    <2>3. Down'   BY <1>1 DEF Down, PlanInfo
    <2>4. StillSo'   BY <1>1 DEF StillSo, PlanInfo, ReadSoFar, Alone
    <2> QED BY <2>1, <2>2, <2>3, <2>4 DEF Working
  <1>2. CASE PlanInfo(p, "check_info", "check_docker")
    <2>1. Alone'   BY <1>2 DEF Alone, PlanInfo
    <2>2. InStep'   BY <1>2 DEF InStep, PlanInfo
    <2>3. Down'   BY <1>2 DEF Down, PlanInfo
    <2>4. StillSo'   BY <1>2 DEF StillSo, PlanInfo, ReadSoFar, Alone
    <2> QED BY <2>1, <2>2, <2>3, <2>4 DEF Working
  <1>3. CASE PlanDocker(p, "plan_docker", "plan_yaml")
    <2>1. Alone'   BY <1>3 DEF Alone, PlanDocker, LocalTest, ReadSoFar
    <2>2. InStep'   BY <1>3 DEF InStep, PlanDocker, LocalTest, ReadSoFar
    <2>3. Down'   BY <1>3 DEF Down, PlanDocker, LocalTest, ReadSoFar
    <2>4. StillSo'   BY <1>3 DEF StillSo, PlanDocker, LocalTest, ReadSoFar
    <2> QED BY <2>1, <2>2, <2>3, <2>4 DEF Working
  <1>4. CASE PlanDocker(p, "check_docker", "check_yaml")
    <2>1. Alone'   BY <1>4 DEF Alone, PlanDocker, LocalTest, ReadSoFar
    <2>2. InStep'   BY <1>4 DEF InStep, PlanDocker, LocalTest, ReadSoFar
    <2>3. Down'   BY <1>4 DEF Down, PlanDocker, LocalTest, ReadSoFar
    <2>4. StillSo'   BY <1>4 DEF StillSo, PlanDocker, LocalTest, ReadSoFar
    <2> QED BY <2>1, <2>2, <2>3, <2>4 DEF Working
  <1>5. CASE PlanRoot(p, "plan_yaml")
    <2>1. Alone'   BY <1>5 DEF Alone, PlanRoot, ReadSoFar
    <2>2. InStep'   BY <1>5 DEF InStep, PlanRoot, ReadSoFar
    <2>3. Down'   BY <1>5 DEF Down, PlanRoot, ReadSoFar
    <2>4. StillSo'   BY <1>0, <1>5
    <2> QED BY <2>1, <2>2, <2>3, <2>4 DEF Working
  <1>6. CASE PlanRoot(p, "check_yaml")
    <2>1. Alone'   BY <1>6 DEF Alone, PlanRoot, ReadSoFar
    <2>2. InStep'   BY <1>6 DEF InStep, PlanRoot, ReadSoFar
    <2>3. Down'   BY <1>6 DEF Down, PlanRoot, ReadSoFar
    <2>4. StillSo'   BY <1>0, <1>6
    <2> QED BY <2>1, <2>2, <2>3, <2>4 DEF Working
  <1> QED BY <1>1, <1>2, <1>3, <1>4, <1>5, <1>6

\* Every other step of the CLI.
LEMMA LocalInv ==
    ASSUME IInv, NEW p \in Procs, Local(p) \/ LocalFails(p)
    PROVE  Working'
  <1> USE DEF IInv, TypeOK, Busy, SeenDown, Expected, AllLayers, YamlAt, Old, New, ReadSoFar
  <1>1. CASE LaunchApply(p)
    <2>1. Alone'   BY <1>1 DEF Alone, LaunchApply, Launch
    <2>2. InStep'   BY <1>1 DEF InStep, LaunchApply, Launch
    <2>3. Down'   BY <1>1 DEF Down, LaunchApply, Launch
    <2>4. StillSo'
      <3>1. CASE Safe(p)
        <4>1. AllLayers(Expected(p))
          BY <1>1, <3>1, SafePlan DEF LaunchApply, Launch, StillSo
        <4> QED BY <1>1, <3>1, <4>1 DEF StillSo, LaunchApply, Launch, Alone, InStep
      <3>2. CASE ~Safe(p)
        BY <1>1, <3>2 DEF StillSo, LaunchApply, Launch
      <3> QED BY <3>1, <3>2
    <2> QED BY <2>1, <2>2, <2>3, <2>4 DEF Working
  <1>2. CASE Prestarted(p)
    <2>1. Alone'   BY <1>2 DEF Alone, Prestarted, LocalTest
    <2>2. InStep'   BY <1>2 DEF InStep, Prestarted, LocalTest
    <2>3. Down'   BY <1>2 DEF Down, Prestarted, LocalTest
    <2>4. StillSo'
      <3>1. CASE Safe(p)
        <4>1. AllLayers(Expected(p))
          BY <1>2, <3>1, SafePlan DEF Prestarted, LocalTest, StillSo
        <4> QED BY <1>2, <3>1, <4>1 DEF StillSo, Prestarted, LocalTest, Alone, InStep
      <3>2. CASE ~Safe(p)
        BY <1>2, <3>2 DEF StillSo, Prestarted, LocalTest
      <3> QED BY <3>1, <3>2
    <2> QED BY <2>1, <2>2, <2>3, <2>4 DEF Working
  <1>3. CASE StartInfo(p)
    <2>1. Alone'   BY <1>3 DEF Alone, StartInfo, LocalTest
    <2>2. InStep'   BY <1>3 DEF InStep, StartInfo, LocalTest
    <2>3. Down'   BY <1>3 DEF Down, StartInfo, LocalTest
    <2>4. StillSo'   BY <1>3 DEF StillSo, StartInfo, LocalTest
    <2> QED BY <2>1, <2>2, <2>3, <2>4 DEF Working
  <1>4. CASE StartDocker(p)
    <2>1. Alone'   BY <1>4 DEF Alone, StartDocker, Launch
    <2>2. InStep'   BY <1>4 DEF InStep, StartDocker, Launch
    <2>3. Down'   BY <1>4 DEF Down, StartDocker, Launch
    <2>4. StillSo'   BY <1>4 DEF StillSo, StartDocker, Launch
    <2> QED BY <2>1, <2>2, <2>3, <2>4 DEF Working
  <1>5. CASE Wait(p)
    <2>1. Alone'   BY <1>5 DEF Alone, Wait, LocalTest
    <2>2. InStep'   BY <1>5 DEF InStep, Wait, LocalTest
    <2>3. Down'   BY <1>5 DEF Down, Wait, LocalTest
    <2>4. StillSo'   BY <1>5 DEF StillSo, Wait, LocalTest
    <2> QED BY <2>1, <2>2, <2>3, <2>4 DEF Working
  <1>6. CASE Checked(p)
    <2>1. Alone'   BY <1>6 DEF Alone, Checked, LocalTest
    <2>2. InStep'   BY <1>6 DEF InStep, Checked, LocalTest
    <2>3. Down'   BY <1>6 DEF Down, Checked, LocalTest
    <2>4. StillSo'   BY <1>6 DEF StillSo, Checked, LocalTest
    <2> QED BY <2>1, <2>2, <2>3, <2>4 DEF Working
  <1>7. CASE StartCheck(p)
    <2>1. Alone'   BY <1>7 DEF Alone, StartCheck, LocalTest
    <2>2. InStep'   BY <1>7 DEF InStep, StartCheck, LocalTest
    <2>3. Down'   BY <1>7 DEF Down, StartCheck, LocalTest
    <2>4. StillSo'   BY <1>7 DEF StillSo, StartCheck, LocalTest
    <2> QED BY <2>1, <2>2, <2>3, <2>4 DEF Working
  <1>8. CASE LocalFails(p)
    <2>1. Alone'   BY <1>8 DEF Alone, LocalFails, LocalTest
    <2>2. InStep'   BY <1>8 DEF InStep, LocalFails, LocalTest
    <2>3. Down'   BY <1>8 DEF Down, LocalFails, LocalTest
    <2>4. StillSo'   BY <1>8 DEF StillSo, LocalFails, LocalTest
    <2> QED BY <2>1, <2>2, <2>3, <2>4 DEF Working
  <1> QED BY PlanInv, <1>1, <1>2, <1>3, <1>4, <1>5, <1>6, <1>7, <1>8 DEF Local

\* The remote program up to its first write.
LEMMA ReadingInv ==
    ASSUME IInv, NEW p \in Procs, \/ RemoteTest(p, "read", yaml[Target(p)] = Old(p), "info1")
                               \/ RemoteInfo(p, "info1", "docker1")
                               \/ RemoteTest(p, "docker1", ~running /\ saw[p].opts = Old(p), "create")
                               \/ CreateTmp(p)
                               \/ RemoteTest(p, "write", TRUE, "post")
    PROVE  Working'
  <1> USE DEF IInv, TypeOK, Busy, SeenDown, Expected, AllLayers, YamlAt, Old, New, ReadSoFar, Alone, InStep, RemoteTest
  <1>1. CASE RemoteTest(p, "read", yaml[Target(p)] = Old(p), "info1")
    <2>1. Alone'   BY <1>1 DEF Alone, RemoteTest
    <2>2. InStep'   BY <1>1 DEF InStep, RemoteTest
    <2>3. Down'   BY <1>1 DEF Down, RemoteTest
    <2>4. StillSo'   BY <1>1 DEF StillSo, RemoteTest
    <2> QED BY <2>1, <2>2, <2>3, <2>4 DEF Working
  <1>2. CASE RemoteInfo(p, "info1", "docker1")
    <2>1. Alone'   BY <1>2 DEF Alone, RemoteInfo
    <2>2. InStep'   BY <1>2 DEF InStep, RemoteInfo
    <2>3. Down'   BY <1>2 DEF Down, RemoteInfo
    <2>4. StillSo'   BY <1>2 DEF StillSo, RemoteInfo
    <2> QED BY <2>1, <2>2, <2>3, <2>4 DEF Working
  <1>3. CASE RemoteTest(p, "docker1", ~running /\ saw[p].opts = Old(p), "create")
    <2>1. Alone'   BY <1>3 DEF Alone, RemoteTest
    <2>2. InStep'   BY <1>3 DEF InStep, RemoteTest
    <2>3. Down'   BY <1>3 DEF Down, RemoteTest
    <2>4. StillSo'   BY <1>3 DEF StillSo, RemoteTest
    <2> QED BY <2>1, <2>2, <2>3, <2>4 DEF Working
  <1>4. CASE CreateTmp(p)
    <2>1. Alone'   BY <1>4 DEF Alone, CreateTmp
    <2>2. InStep'   BY <1>4 DEF InStep, CreateTmp
    <2>3. Down'   BY <1>4 DEF Down, CreateTmp
    <2>4. StillSo'   BY <1>4 DEF StillSo, CreateTmp
    <2> QED BY <2>1, <2>2, <2>3, <2>4 DEF Working
  <1>5. CASE RemoteTest(p, "write", TRUE, "post")
    <2>1. Alone'   BY <1>5 DEF Alone, RemoteTest
    <2>2. InStep'   BY <1>5 DEF InStep, RemoteTest
    <2>3. Down'   BY <1>5 DEF Down, RemoteTest
    <2>4. StillSo'   BY <1>5 DEF StillSo, RemoteTest
    <2> QED BY <2>1, <2>2, <2>3, <2>4 DEF Working
  <1> QED BY <1>1, <1>2, <1>3, <1>4, <1>5

\* The remote program from its first write on, and its faults.
LEMMA WritingInv ==
    ASSUME IInv, NEW p \in Procs, Remote(p) \/ RemoteRaises(p) \/ Kill(p)
    PROVE  Working'
  <1> USE DEF IInv, TypeOK, Busy, SeenDown, Expected, AllLayers, YamlAt, Old, New, ReadSoFar, Alone, InStep
  <1>1. CASE Post(p, "post", New(p), "reread", "unlink")
    <2>1. Alone'   BY <1>1 DEF Alone, Post
    <2>2. InStep'   BY <1>1 DEF InStep, Post
    <2>3. Down'   BY <1>1 DEF Down, Post
    <2>4. StillSo'   BY <1>1 DEF StillSo, Post
    <2> QED BY <2>1, <2>2, <2>3, <2>4 DEF Working
  <1>2. CASE RemoteTest(p, "reread", yaml[Target(p)] = Old(p), "info2")
    <2>1. Alone'   BY <1>2 DEF Alone, RemoteTest
    <2>2. InStep'   BY <1>2 DEF InStep, RemoteTest
    <2>3. Down'   BY <1>2 DEF Down, RemoteTest
    <2>4. StillSo'   BY <1>2 DEF StillSo, RemoteTest
    <2> QED BY <2>1, <2>2, <2>3, <2>4 DEF Working
  <1>3. CASE RemoteTest(p, "info2", sup \in Quiescent, "docker2")
    <2>1. Alone'   BY <1>3 DEF Alone, RemoteTest
    <2>2. InStep'   BY <1>3 DEF InStep, RemoteTest
    <2>3. Down'   BY <1>3 DEF Down, RemoteTest
    <2>4. StillSo'   BY <1>3 DEF StillSo, RemoteTest
    <2> QED BY <2>1, <2>2, <2>3, <2>4 DEF Working
  <1>4. CASE RemoteTest(p, "docker2", ~running, "replace")
    <2>1. Alone'   BY <1>4 DEF Alone, RemoteTest
    <2>2. InStep'   BY <1>4 DEF InStep, RemoteTest
    <2>3. Down'   BY <1>4 DEF Down, RemoteTest
    <2>4. StillSo'   BY <1>4 DEF StillSo, RemoteTest
    <2> QED BY <2>1, <2>2, <2>3, <2>4 DEF Working
  <1>5. CASE Replace(p)
    <2>1. Alone'   BY <1>5 DEF Alone, Replace
    <2>2. InStep'   BY <1>5 DEF InStep, Replace
    <2>3. Down'   BY <1>5 DEF Down, Replace
    <2>4. StillSo'   BY <1>5 DEF StillSo, Replace
    <2> QED BY <2>1, <2>2, <2>3, <2>4 DEF Working
  <1>6. CASE Unlink(p, "unlink", "exit1")
    <2>1. Alone'   BY <1>6 DEF Alone, Unlink
    <2>2. InStep'   BY <1>6 DEF InStep, Unlink
    <2>3. Down'   BY <1>6 DEF Down, Unlink
    <2>4. StillSo'   BY <1>6 DEF StillSo, Unlink
    <2> QED BY <2>1, <2>2, <2>3, <2>4 DEF Working
  <1>7. CASE Unlink(p, "undo", "restore")
    <2>1. Alone'   BY <1>7 DEF Alone, Unlink
    <2>2. InStep'   BY <1>7 DEF InStep, Unlink
    <2>3. Down'   BY <1>7 DEF Down, Unlink
    <2>4. StillSo'   BY <1>7 DEF StillSo, Unlink
    <2> QED BY <2>1, <2>2, <2>3, <2>4 DEF Working
  <1>8. CASE Post(p, "restore", Old(p), "exit1", "exit1")
    <2>1. Alone'   BY <1>8 DEF Alone, Post
    <2>2. InStep'   BY <1>8 DEF InStep, Post
    <2>3. Down'   BY <1>8 DEF Down, Post
    <2>4. StillSo'   BY <1>8 DEF StillSo, Post
    <2> QED BY <2>1, <2>2, <2>3, <2>4 DEF Working
  <1>9. CASE RemoteInfo(p, "info3", "docker3")
    <2>1. Alone'   BY <1>9 DEF Alone, RemoteInfo
    <2>2. InStep'   BY <1>9 DEF InStep, RemoteInfo
    <2>3. Down'   BY <1>9 DEF Down, RemoteInfo
    <2>4. StillSo'   BY <1>9 DEF StillSo, RemoteInfo
    <2> QED BY <2>1, <2>2, <2>3, <2>4 DEF Working
  <1>10. CASE RemoteTest(p, "docker3", ~running /\ saw[p].opts = New(p), "final")
    <2>1. Alone'   BY <1>10 DEF Alone, RemoteTest
    <2>2. InStep'   BY <1>10 DEF InStep, RemoteTest
    <2>3. Down'   BY <1>10 DEF Down, RemoteTest
    <2>4. StillSo'   BY <1>10 DEF StillSo, RemoteTest
    <2> QED BY <2>1, <2>2, <2>3, <2>4 DEF Working
  <1>11. CASE RemoteTest(p, "final", yaml[Target(p)] = New(p), "exit0")
    <2>1. Alone'   BY <1>11 DEF Alone, RemoteTest
    <2>2. InStep'   BY <1>11 DEF InStep, RemoteTest
    <2>3. Down'   BY <1>11 DEF Down, RemoteTest
    <2>4. StillSo'   BY <1>11 DEF StillSo, RemoteTest
    <2> QED BY <2>1, <2>2, <2>3, <2>4 DEF Working
  <1>12. CASE SupStart(p)
    <2>1. Alone'   BY <1>12 DEF Alone, SupStart
    <2>2. InStep'   BY <1>12 DEF InStep, SupStart
    <2>3. Down'   BY <1>12 DEF Down, SupStart
    <2>4. StillSo'   BY <1>12 DEF StillSo, SupStart
    <2> QED BY <2>1, <2>2, <2>3, <2>4 DEF Working
  <1>13. CASE RemoteRaises(p)
    <2>1. Alone'   BY <1>13 DEF Alone, RemoteRaises, RemoteTest
    <2>2. InStep'   BY <1>13 DEF InStep, RemoteRaises, RemoteTest
    <2>3. Down'   BY <1>13 DEF Down, RemoteRaises, RemoteTest
    <2>4. StillSo'   BY <1>13 DEF StillSo, RemoteRaises, RemoteTest
    <2> QED BY <2>1, <2>2, <2>3, <2>4 DEF Working
  <1>14. CASE Kill(p)
    <2>1. Alone'   BY <1>14 DEF Alone, Kill, Asked
    <2>2. InStep'   BY <1>14 DEF InStep, Kill, Asked
    <2>3. Down'   BY <1>14 DEF Down, Kill, Asked
    <2>4. StillSo'   BY <1>14 DEF StillSo, Kill, Asked
    <2> QED BY <2>1, <2>2, <2>3, <2>4 DEF Working
  <1> QED
    BY ReadingInv, <1>1, <1>2, <1>3, <1>4, <1>5, <1>6, <1>7, <1>8, <1>9, <1>10, <1>11, <1>12, <1>13, <1>14
    DEF Remote, Apply

\* Supervisor and the add-on at any time, other people between two commands.
LEMMA OtherInv ==
    ASSUME IInv, Environment \/ (Quiet /\ Foreign)
    PROVE  Working'
  <1> USE DEF IInv, TypeOK, Busy, SeenDown, Expected, AllLayers, YamlAt, Old, New, ReadSoFar, Alone, InStep
  <1>1. CASE LateRequest
    <2>1. Alone'   BY <1>1 DEF Alone, LateRequest
    <2>2. InStep'   BY <1>1 DEF InStep, LateRequest
    <2>3. Down'   BY <1>1 DEF Down, LateRequest
    <2>4. StillSo'   BY <1>1 DEF StillSo, LateRequest
    <2> QED BY <2>1, <2>2, <2>3, <2>4 DEF Working
  <1>2. CASE AddonDown
    <2>1. Alone'   BY <1>2 DEF Alone, AddonDown
    <2>2. InStep'   BY <1>2 DEF InStep, AddonDown
    <2>3. Down'   BY <1>2 DEF Down, AddonDown
    <2>4. StillSo'   BY <1>2 DEF StillSo, AddonDown
    <2> QED BY <2>1, <2>2, <2>3, <2>4 DEF Working
  <1>3. CASE SupNotices
    <2>1. Alone'   BY <1>3 DEF Alone, SupNotices
    <2>2. InStep'   BY <1>3 DEF InStep, SupNotices
    <2>3. Down'   BY <1>3 DEF Down, SupNotices
    <2>4. StillSo'   BY <1>3 DEF StillSo, SupNotices
    <2> QED BY <2>1, <2>2, <2>3, <2>4 DEF Working
  <1>4. CASE AddonSaves
    <2>1. Alone'   BY <1>4 DEF Alone, AddonSaves
    <2>2. InStep'   BY <1>4 DEF InStep, AddonSaves
    <2>3. Down'   BY <1>4 DEF Down, AddonSaves
    <2>4. StillSo'
      <3>1. \A q \in Procs : ~SeenDown(q)
        BY <1>4 DEF AddonSaves, Down
      <3> QED BY <1>4, <3>1 DEF StillSo, AddonSaves
    <2> QED BY <2>1, <2>2, <2>3, <2>4 DEF Working
  <1>5. CASE Quiet /\ Foreign
    <2>1. Alone'   BY <1>5 DEF Alone, Quiet, Foreign
    <2>2. InStep'   BY <1>5 DEF InStep, Quiet, Foreign
    <2>3. Down'   BY <1>5 DEF Down, Quiet, Foreign
    <2>4. StillSo'   BY <1>5 DEF StillSo, Quiet, Foreign
    <2> QED BY <2>1, <2>2, <2>3, <2>4 DEF Working
  <1> QED BY <1>1, <1>2, <1>3, <1>4, <1>5 DEF Environment

LEMMA BeginInv ==
    ASSUME IInv, NEW p \in Procs, NEW j \in Jobs, Quiet, Begin(p, j)
    PROVE  Working'
  <1> USE DEF IInv, TypeOK, Busy, SeenDown, Expected, AllLayers, YamlAt, Old, New, ReadSoFar, Alone, InStep, Quiet
  <1>1. Alone'   BY DEF Alone, Begin
  <1>2. InStep'   BY DEF InStep, Begin
  <1>3. Down'   BY DEF Down, Begin
  <1>4. StillSo'   BY DEF StillSo, Begin
  <1> QED BY <1>1, <1>2, <1>3, <1>4 DEF Working

\* IInv holds in every behaviour of Spec.
THEOREM Inductive == Spec => []IInv
  <1>1. Init => IInv
    <2> SUFFICES ASSUME Init PROVE IInv
      OBVIOUS
    <2> QED BY InitType DEF Init, IInv, Alone, InStep, Down, StillSo, Busy, SeenDown
  <1>2. ASSUME IInv, [Next]_vars PROVE IInv'
    <2>1. TypeOK'
      <3>1. CASE Next
        BY <1>2, <3>1, BeginType, LocalType, RemoteType, OtherType DEF Next, Step, IInv
      <3>2. CASE UNCHANGED vars
        BY <1>2, <3>2 DEF IInv, TypeOK, vars
      <3> QED BY <1>2, <3>1, <3>2
    <2>2. Working'
      <3>1. CASE Next
        BY <1>2, <3>1, BeginInv, LocalInv, WritingInv, OtherInv DEF Next, Step
      <3>2. CASE UNCHANGED vars
        <4> USE <1>2, <3>2 DEF vars, IInv
        <4>1. Alone'   BY DEF Alone, Busy
        <4>2. InStep'  BY DEF InStep
        <4>3. Down'    BY DEF Down, SeenDown
        <4>4. StillSo'
          BY DEF StillSo, ReadSoFar, Expected, AllLayers, YamlAt, Old, New
        <4> QED BY <4>1, <4>2, <4>3, <4>4 DEF Working
      <3> QED BY <1>2, <3>1, <3>2
    <2> QED BY <2>1, <2>2 DEF IInv, Working
  <1> QED BY <1>1, <1>2, PTL DEF Spec

-----------------------------------------------------------------------------
(* The action properties. *)

\* CleanStart: the tool brings the container up on two layers that agree, although
\* it last read them four remote calls earlier.
THEOREM StartsClean == Spec => CleanStart
  <1>1. ASSUME IInv, [Next]_vars
        PROVE  \A p \in Procs : rpc[p] = "starting" /\ ~running /\ running' => AllLayers(New(p))
    BY <1>1 DEF IInv, StillSo
  <1> QED BY <1>1, Inductive, PTL DEF Spec, CleanStart

\* Only its own verdict takes an invocation from its last check to success.
LEMMA VerdictStep ==
    ASSUME TypeOK, NEW p \in Procs, Next, pc[p] = "check_yaml", pc'[p] = "succeeded"
    PROVE  AllRead(p) /\ Safe(p)
  <1> USE DEF TypeOK
  <1>1. ASSUME NEW q \in Procs, NEW from, NEW to, LocalTest(q, from, to), q # p PROVE FALSE
    BY <1>1 DEF LocalTest
  <1>2. ASSUME NEW q \in Procs, NEW from, NEW to, PlanInfo(q, from, to),
               to \in {"plan_docker", "check_docker"}
        PROVE  FALSE
    BY <1>2 DEF PlanInfo
  <1>3. ASSUME NEW q \in Procs, NEW from, NEW ok, NEW program, Launch(q, from, ok, program)
        PROVE  FALSE
    BY <1>3 DEF Launch
  <1>4. ASSUME NEW q \in Procs, Local(q) \/ LocalFails(q) PROVE AllRead(p) /\ Safe(p)
    <2>1. CASE Checked(q)
      BY <1>1, <2>1 DEF Checked, LocalTest
    <2>2. CASE LocalFails(q) \/ Wait(q) \/ StartCheck(q) \/ StartInfo(q) \/ Prestarted(q)
               \/ PlanDocker(q, "plan_docker", "plan_yaml")
               \/ PlanDocker(q, "check_docker", "check_yaml")
      BY <2>2 DEF LocalFails, Wait, StartCheck, StartInfo, Prestarted, PlanDocker, LocalTest
    <2>3. CASE PlanRoot(q, "plan_yaml") \/ PlanRoot(q, "check_yaml")
      BY <2>3 DEF PlanRoot
    <2> QED BY <1>2, <1>3, <1>4, <2>1, <2>2, <2>3 DEF Local, LaunchApply, StartDocker
  <1>5. ASSUME NEW q \in Procs, Remote(q) \/ RemoteRaises(q) \/ Kill(q) PROVE FALSE
    BY <1>5 DEF Remote, Apply, RemoteRaises, RemoteTest, RemoteInfo, CreateTmp, Post, Replace,
                Unlink, Kill, SupStart
  <1>6. ASSUME NEW q \in Procs, NEW j, Begin(q, j) PROVE FALSE
    BY <1>6 DEF Begin
  <1>7. ASSUME Environment \/ Foreign PROVE FALSE
    BY <1>7 DEF Environment, LateRequest, AddonDown, SupNotices, AddonSaves, Foreign
  <1> QED BY <1>4, <1>5, <1>6, <1>7 DEF Next, Step

\* TruthfulSuccess: an apply that reports success leaves both layers new, in every
\* root, under a stopped add-on, although it read them one after the other.
THEOREM SuccessIsTrue == Spec => TruthfulSuccess
  <1>1. ASSUME IInv, [Next]_vars
        PROVE  \A p \in Procs : /\ pc[p] = "check_yaml" /\ pc'[p] = "succeeded"
                                => AllLayers(New(p)) /\ ~running
    <2> SUFFICES ASSUME NEW p \in Procs, pc[p] = "check_yaml", pc'[p] = "succeeded"
                 PROVE  AllLayers(New(p)) /\ ~running
      OBVIOUS
    <2>1. Next
      BY <1>1 DEF vars
    <2>2. AllRead(p) /\ Safe(p) /\ ReadSoFar(p)
      BY <1>1, <2>1, VerdictStep DEF IInv, StillSo
    <2>3. AllLayers(Expected(p))
      BY <1>1, <2>2, SafePlan DEF IInv
    <2> QED BY <1>1, <2>3 DEF Expected, IInv, Down, SeenDown
  <1> QED BY <1>1, Inductive, PTL DEF Spec, TruthfulSuccess

-----------------------------------------------------------------------------
(* ConfigApply implements TwoLayer. *)

\* The cell in its three kinds of state.
LEMMA CellValue ==
    /\ InFlight => CellOf = "changing"
    /\ ~InFlight => CellOf \in TL!Whole \cup {"broken"}
    /\ ~InFlight /\ (\E c \in Configs : AllLayers(c)) => CellOf \in TL!Whole
  BY DEF CellOf, TL!Whole

LEMMA CellValueNext ==
    /\ InFlight' => CellOf' = "changing"
    /\ ~InFlight' => CellOf' \in TL!Whole \cup {"broken"}
  BY DEF CellOf, TL!Whole

\* A step that leaves the layers and the container alone and opens or closes no
\* change ends a command at most.
LEMMA QuietStep ==
    ASSUME ~Quiet, InFlight' <=> InFlight, UNCHANGED <<opts, yaml, running>>
    PROVE  [TL!Next]_TL!vars
  <1>1. CellOf' = CellOf
    BY DEF CellOf, AllLayers, YamlAt
  <1> QED BY <1>1 DEF TL!Next, TL!End, TL!vars, Quiet

\* A step inside a change.
LEMMA ChangingStep ==
    ASSUME ~Quiet, InFlight, ~running, UNCHANGED running
    PROVE  [TL!Next]_TL!vars
  <1>1. CASE InFlight'
    <2>1. ~Quiet' /\ CellOf = "changing" /\ CellOf' = "changing"
      BY <1>1, CellValue, CellValueNext DEF InFlight, Quiet, InTry, Alive
    <2> QED BY <2>1 DEF TL!vars
  <1>2. CASE ~InFlight'
    <2>1. CellOf = "changing" /\ CellOf' \in TL!Whole \cup {"broken"}
      BY <1>2, CellValue, CellValueNext
    <2> QED BY <2>1 DEF TL!Next, TL!EndChange, TL!Whole, Quiet
  <1> QED BY <1>1, <1>2

\* The first write of a command.
LEMMA FirstWrite ==
    ASSUME IInv, NEW p \in Procs, ~Quiet, ~InFlight, InFlight', ~running, UNCHANGED running,
           \E c \in Configs : AllLayers(c)
    PROVE  [TL!Next]_TL!vars
  <1>1. ~Quiet' /\ CellOf \in TL!Whole /\ CellOf' = "changing"
    BY CellValue, CellValueNext DEF InFlight, Quiet
  <1> QED BY <1>1 DEF TL!Next, TL!StartChange, TL!Whole

LEMMA BeginMaps ==
    ASSUME IInv, NEW p \in Procs, NEW j \in Jobs, Quiet, Begin(p, j)
    PROVE  [TL!Next]_TL!vars
  <1>1. ~Quiet' /\ UNCHANGED running
    BY DEF Quiet, Begin, IInv, TypeOK
  <1>2. CellOf' = CellOf
    BY DEF CellOf, InFlight, AllLayers, YamlAt, Begin
  <1> QED BY <1>1, <1>2 DEF TL!Next, TL!Begin

LEMMA LocalMaps ==
    ASSUME IInv, NEW p \in Procs, Local(p) \/ LocalFails(p)
    PROVE  [TL!Next]_TL!vars
  <1>1. ~Quiet
    BY DEF Quiet, Local, LocalFails, PlanInfo, PlanDocker, PlanRoot, LaunchApply, Launch,
           Prestarted, StartInfo, StartDocker, Wait, Checked, StartCheck, LocalTest
  <1>2. UNCHANGED <<opts, yaml, running, late>>
    BY DEF Local, LocalFails, PlanInfo, PlanDocker, PlanRoot, LaunchApply, Launch,
           Prestarted, StartInfo, StartDocker, Wait, Checked, StartCheck, LocalTest
  <1>3. \/ rpc' = rpc
        \/ /\ rpc[p] = "none"
           /\ \E program \in {"read", "starting"} : rpc' = [rpc EXCEPT ![p] = program]
    BY DEF Local, LocalFails, PlanInfo, PlanDocker, PlanRoot, LaunchApply, Launch, IInv, InStep,
           Prestarted, StartInfo, StartDocker, Wait, Checked, StartCheck, LocalTest
  <1>4. InFlight' <=> InFlight
    BY <1>2, <1>3 DEF InFlight, IInv, TypeOK
  <1> QED BY <1>1, <1>2, <1>4, QuietStep

LEMMA RemoteMaps ==
    ASSUME IInv, NEW p \in Procs, Remote(p) \/ RemoteRaises(p) \/ Kill(p)
    PROVE  [TL!Next]_TL!vars
  <1>1. rpc[p] \in Alive /\ ~Quiet /\ ~running
    <2>1. rpc[p] \in Alive
      BY DEF Remote, Apply, RemoteRaises, RemoteTest, RemoteInfo, CreateTmp, Post, Replace,
             Unlink, Kill, SupStart
    <2> QED BY <2>1 DEF Quiet, IInv, Down, SeenDown
  <1>2. \A q \in Procs : q # p => rpc[q] \notin Alive
    BY <1>1 DEF IInv, Alone, Busy
  <1>3. CASE SupStart(p)
    <2>1. ~InFlight
      BY <1>2, <1>3 DEF InFlight, SupStart, IInv, Alone
    <2>2. ~InFlight' /\ UNCHANGED <<opts, yaml>>
      BY <1>3, <2>1 DEF InFlight, SupStart, IInv, TypeOK
    <2>3. CellOf' = CellOf
      BY <2>1, <2>2 DEF CellOf, AllLayers, YamlAt
    <2>4. CellOf \in TL!Whole
      BY <1>3, <2>1, CellValue, PhaseType DEF SupStart, IInv, StillSo
    <2>5. CASE running' = running
      BY <1>1, <2>1, <2>2, <2>5, QuietStep
    <2>6. CASE running' # running
      BY <1>1, <1>3, <2>3, <2>4, <2>6 DEF TL!Next, TL!Start, SupStart, Quiet
    <2> QED BY <2>5, <2>6
  <1>4. CASE InFlight /\ ~SupStart(p)
    <2>1. UNCHANGED running
      BY <1>4 DEF Remote, Apply, RemoteRaises, RemoteTest, RemoteInfo, CreateTmp, Post, Replace,
                  Unlink, Kill
    <2> QED BY <1>1, <1>4, <2>1, ChangingStep
  <1>5. CASE ~InFlight /\ rpc[p] = "post" /\ ~SupStart(p)
    <2>1. AllLayers(Old(p)) /\ Old(p) \in Configs
      BY <1>5, PhaseType DEF IInv, StillSo
    <2>2. UNCHANGED <<running, yaml>>
      BY <1>5 DEF Remote, Apply, RemoteRaises, RemoteTest, RemoteInfo, CreateTmp, Post, Replace,
                  Unlink, Kill
    <2>3. CASE InFlight'
      BY <1>1, <1>5, <2>1, <2>2, <2>3, FirstWrite
    <2>4. CASE ~InFlight'
      <3>1. opts' = opts
        BY <1>5, <2>4 DEF InFlight, Remote, Apply, RemoteRaises, RemoteTest, RemoteInfo, CreateTmp,
                          Post, Replace, Unlink, Kill, IInv, TypeOK
      <3> QED BY <1>1, <1>5, <2>2, <2>4, <3>1, QuietStep
    <2> QED BY <2>3, <2>4
  <1>6. CASE ~InFlight /\ rpc[p] # "post" /\ ~SupStart(p)
    <2>1. rpc[p] \notin InTry \cup {"undo", "restore"} /\ late = {}
      BY <1>6 DEF InFlight
    <2>2. UNCHANGED <<opts, yaml, running, late>>
      BY <1>6, <2>1 DEF Remote, Apply, RemoteRaises, RemoteTest, RemoteInfo, CreateTmp, Post,
                        Replace, Unlink, Kill, Asked
    <2>3. \E to \in (Alive \cup Over) \ (InTry \cup {"undo", "restore"}) : rpc' = [rpc EXCEPT ![p] = to]
      BY <1>6, <2>1 DEF Remote, Apply, RemoteRaises, RemoteTest, RemoteInfo, CreateTmp, Post,
                        Replace, Unlink, Kill
    <2>4. ~InFlight'
      BY <1>6, <2>2, <2>3 DEF InFlight, IInv, TypeOK
    <2> QED BY <1>1, <1>6, <2>2, <2>4, QuietStep
  <1> QED BY <1>3, <1>4, <1>5, <1>6

LEMMA EnvironmentMaps ==
    ASSUME IInv, Environment
    PROVE  [TL!Next]_TL!vars
  <1>1. CASE LateRequest
    <2>1. InFlight /\ ~Quiet /\ ~running /\ UNCHANGED running
      BY <1>1 DEF LateRequest, InFlight, Quiet, IInv, Down
    <2> QED BY <2>1, ChangingStep
  <1>2. CASE AddonDown
    <2>1. CellOf' = CellOf /\ Quiet' = Quiet
      BY <1>2 DEF AddonDown, CellOf, InFlight, AllLayers, YamlAt, Quiet
    <2> QED BY <1>2, <2>1 DEF AddonDown, TL!Next, TL!Down
  <1>3. CASE SupNotices
    <2>1. CellOf' = CellOf /\ Quiet' = Quiet /\ UNCHANGED running
      BY <1>3 DEF SupNotices, CellOf, InFlight, AllLayers, YamlAt, Quiet
    <2> QED BY <2>1 DEF TL!vars
  <1>4. CASE AddonSaves
    <2>1. ~InFlight /\ ~InFlight'
      BY <1>4 DEF AddonSaves, InFlight, IInv, Down, SeenDown
    <2>2. Quiet' = Quiet /\ UNCHANGED <<running, opts>> /\ running
      BY <1>4 DEF AddonSaves, Quiet
    <2>3. CASE \E r \in Roots : YamlAt(r)' # YamlAt(r)
      <3>1. \E r \in Roots : YamlAt(r)' = "saved"
        BY <1>4, <2>3 DEF AddonSaves, YamlAt, IInv, TypeOK
      <3>2. \A c \in Configs : ~AllLayers(c)'
        BY <3>1 DEF AllLayers, NoFile
      <3>3. CellOf' = "broken"
        BY <2>1, <3>2 DEF CellOf
      <3> QED BY <2>1, <2>2, <3>3, CellValue DEF TL!Next, TL!Drift, TL!Whole
    <2>4. CASE \A r \in Roots : YamlAt(r)' = YamlAt(r)
      <3>1. CellOf' = CellOf
        BY <2>1, <2>2, <2>4 DEF CellOf, AllLayers
      <3> QED BY <2>2, <3>1 DEF TL!vars
    <2> QED BY <2>3, <2>4
  <1> QED BY <1>1, <1>2, <1>3, <1>4 DEF Environment

LEMMA ForeignMaps ==
    ASSUME IInv, Quiet, Foreign
    PROVE  [TL!Next]_TL!vars
  <1>1. ~InFlight /\ ~InFlight' /\ Quiet'
    BY DEF Foreign, InFlight, Quiet, InTry, Alive
  <1>2. CellOf # "changing" /\ CellOf' \in TL!Whole \cup {"broken"}
    BY <1>1, CellValue, CellValueNext DEF TL!Whole
  <1>3. running' \in BOOLEAN
    BY OtherType DEF IInv, TypeOK
  <1> QED BY <1>1, <1>2, <1>3 DEF TL!Next, TL!Outside

\* KeepsPromise: ConfigApply, one command at a time, implements TwoLayer.
THEOREM Refinement == Spec => KeepsPromise
  <1>1. ASSUME Init PROVE TL!Init
    <2>1. Quiet /\ ~InFlight /\ AllLayers("source")
      BY <1>1, RootsAssumption DEF Init, Quiet, InFlight, AllLayers, YamlAt
    <2>2. CellOf = "source"
      BY <2>1 DEF CellOf, AllLayers
    <2> QED BY <1>1, <2>1, <2>2 DEF Init, TL!Init
  <1>2. ASSUME IInv, [Next]_vars PROVE [TL!Next]_TL!vars
    <2>1. CASE Next
      BY <1>2, <2>1, BeginMaps, LocalMaps, RemoteMaps, EnvironmentMaps, ForeignMaps DEF Next, Step
    <2>2. CASE UNCHANGED vars
      BY <2>2 DEF vars, TL!vars, CellOf, InFlight, AllLayers, YamlAt, Quiet
    <2> QED BY <1>2, <2>1, <2>2
  <1> QED BY <1>1, <1>2, Inductive, PTL DEF Spec, KeepsPromise, TL!Spec

-----------------------------------------------------------------------------
(* What holds whoever else acts: the steps of one invocation alone. *)

\* A step of the CLI of p touches nothing but p, and the layers not at all.
LEMMA LocalFrame ==
    ASSUME TypeOK, NEW p \in Procs, Local(p) \/ LocalFails(p)
    PROVE  /\ pc[p] \in Active
           /\ UNCHANGED <<addon, layers, job>>
           /\ \A q \in Procs : q # p => /\ pc'[q] = pc[q] /\ rpc'[q] = rpc[q]
                                        /\ saw'[q] = saw[q]
           /\ \/ rpc' = rpc
              \/ pc'[p] = "wait" /\ rpc'[p] \in {"read", "starting"}
  <1>0. pc \in [Procs -> {"new"} \cup Active \cup Ended] /\ rpc \in [Procs -> Alive \cup Over]
        /\ saw \in [Procs -> Saw]
    BY DEF TypeOK
  <1>1. CASE LocalFails(p)
    BY <1>0, <1>1 DEF LocalFails, LocalTest
  <1>2. CASE \/ Wait(p) \/ StartCheck(p) \/ StartInfo(p) \/ Prestarted(p) \/ Checked(p)
             \/ PlanDocker(p, "plan_docker", "plan_yaml")
             \/ PlanDocker(p, "check_docker", "check_yaml")
    BY <1>0, <1>2 DEF LocalTest, Wait, StartCheck, StartInfo, Prestarted, Checked, PlanDocker
  <1>3. CASE \/ PlanRoot(p, "plan_yaml") \/ PlanRoot(p, "check_yaml")
    BY <1>0, <1>3 DEF PlanRoot
  <1>4. CASE \/ PlanInfo(p, "plan_info", "plan_docker") \/ PlanInfo(p, "check_info", "check_docker")
    BY <1>0, <1>4 DEF PlanInfo
  <1>5. CASE LaunchApply(p) \/ StartDocker(p)
    BY <1>0, <1>5 DEF LaunchApply, StartDocker, Launch
  <1> QED BY <1>1, <1>2, <1>3, <1>4, <1>5 DEF Local

\* A step of the remote program of p leaves what its CLI is doing alone.
LEMMA RemoteFrame ==
    ASSUME TypeOK, NEW p \in Procs, Remote(p) \/ RemoteRaises(p) \/ Kill(p)
    PROVE  /\ rpc[p] \in Alive /\ UNCHANGED <<job, pc>>
           /\ \A q \in Procs : q # p => rpc'[q] = rpc[q] /\ saw'[q] = saw[q]
           /\ rpc'[p] \in (Alive \cup {"exit0", "exit1"}) \ {"read", "starting"}
           /\ saw'[p].match = saw[p].match
  <1>0. rpc \in [Procs -> Alive \cup Over] /\ saw \in [Procs -> Saw]
    BY DEF TypeOK
  <1>1. CASE RemoteRaises(p)
    BY <1>0, <1>1 DEF RemoteRaises, RemoteTest
  <1>2. CASE \/ RemoteInfo(p, "info1", "docker1") \/ RemoteInfo(p, "info3", "docker3")
    BY <1>0, <1>2 DEF RemoteInfo
  <1>3. CASE \/ CreateTmp(p) \/ Replace(p) \/ Unlink(p, "unlink", "exit1")
             \/ Unlink(p, "undo", "restore")
    BY <1>0, <1>3 DEF CreateTmp, Replace, Unlink
  <1>4. CASE \/ Post(p, "post", New(p), "reread", "unlink")
             \/ Post(p, "restore", Old(p), "exit1", "exit1")
    BY <1>0, <1>4 DEF Post
  <1>5. CASE SupStart(p) \/ Kill(p)
    BY <1>0, <1>5 DEF SupStart, Kill
  <1>6. CASE \/ RemoteTest(p, "read", yaml[Target(p)] = Old(p), "info1")
             \/ RemoteTest(p, "docker1", ~running /\ saw[p].opts = Old(p), "create")
             \/ RemoteTest(p, "write", TRUE, "post")
             \/ RemoteTest(p, "reread", yaml[Target(p)] = Old(p), "info2")
             \/ RemoteTest(p, "info2", sup \in Quiescent, "docker2")
             \/ RemoteTest(p, "docker2", ~running, "replace")
             \/ RemoteTest(p, "docker3", ~running /\ saw[p].opts = New(p), "final")
             \/ RemoteTest(p, "final", yaml[Target(p)] = New(p), "exit0")
    BY <1>0, <1>6 DEF RemoteTest
  <1> QED BY <1>1, <1>2, <1>3, <1>4, <1>5, <1>6 DEF Remote, Apply

\* The environment and other people touch no invocation.
LEMMA OtherFrame ==
    ASSUME Environment \/ Foreign
    PROVE  UNCHANGED <<job, pc, rpc, saw, tmps>>
  BY DEF Environment, Foreign, LateRequest, AddonDown, SupNotices, AddonSaves

\* The two processes of an invocation stay in step, whatever the others do.
LEMMA InStepKept ==
    ASSUME TypeOK, InStep,
           \/ \E p \in Procs, j \in Jobs : Begin(p, j)
           \/ \E p \in Procs : Step(p)
           \/ Environment \/ Foreign
    PROVE  InStep'
  <1> USE DEF TypeOK
  <1>1. ASSUME NEW p \in Procs, NEW j \in Jobs, Begin(p, j) PROVE InStep'
    BY <1>1 DEF InStep, Begin
  <1>2. ASSUME NEW p \in Procs, Local(p) \/ LocalFails(p) PROVE InStep'
    <2>1. CASE \/ LocalFails(p) \/ Wait(p) \/ StartCheck(p) \/ StartInfo(p) \/ Prestarted(p)
               \/ Checked(p) \/ PlanDocker(p, "plan_docker", "plan_yaml")
               \/ PlanDocker(p, "check_docker", "check_yaml")
      BY <2>1 DEF InStep, LocalTest, LocalFails, Wait, StartCheck, StartInfo, Prestarted, Checked,
                  PlanDocker
    <2>2. CASE \/ PlanRoot(p, "plan_yaml") \/ PlanRoot(p, "check_yaml")
      BY <2>2 DEF InStep, PlanRoot
    <2>3. CASE \/ PlanInfo(p, "plan_info", "plan_docker")
               \/ PlanInfo(p, "check_info", "check_docker")
      BY <2>3 DEF InStep, PlanInfo
    <2>4. CASE LaunchApply(p) \/ StartDocker(p)
      BY <2>4 DEF InStep, LaunchApply, StartDocker, Launch
    <2> QED BY <1>2, <2>1, <2>2, <2>3, <2>4 DEF Local
  <1>3. ASSUME NEW p \in Procs, Remote(p) \/ RemoteRaises(p) \/ Kill(p) PROVE InStep'
    <2>1. /\ UNCHANGED <<job, pc>> /\ rpc[p] \in Alive
          /\ \A q \in Procs : q # p => rpc'[q] = rpc[q]
          /\ rpc'[p] \in (Alive \cup {"exit0", "exit1"}) \ {"read", "starting"}
      BY <1>3, RemoteFrame
    <2>2. pc[p] \notin {"new"} \cup PlanLabels \cup CheckLabels
                          \cup {"start_info", "start_docker", "start_check"}
      BY <2>1 DEF InStep
    <2>3. rpc'[p] \in Alive => job[p].kind = "apply"
      <3>1. CASE SupStart(p)
        BY <3>1 DEF SupStart
      <3>2. CASE rpc[p] # "starting"
        BY <2>1, <3>2 DEF InStep
      <3>3. rpc[p] = "starting" => SupStart(p)
        BY <1>3 DEF Remote, Apply, RemoteTest, RemoteInfo, CreateTmp, Post, Replace, Unlink,
                    RemoteRaises, Kill
      <3> QED BY <3>1, <3>2, <3>3
    <2> QED BY <2>1, <2>2, <2>3 DEF InStep
  <1>4. ASSUME Environment \/ Foreign PROVE InStep'
    BY <1>4, OtherFrame DEF InStep
  <1> QED BY <1>1, <1>2, <1>3, <1>4 DEF Step

-----------------------------------------------------------------------------
(* One command at a time among other people: MeddledSpec. *)

\* The second look of REMOTE_APPLY at the container and at the file holds until
\* the replacement: nobody acts between the two, and only one command works.
OneBusy == \A p, q \in Procs : Busy(p) /\ Busy(q) => p = q

Rechecked ==
    \A p \in Procs : /\ rpc[p] = "replace" => ~running
                     /\ rpc[p] \in {"info2", "docker2", "replace"} => yaml[Target(p)] # "edited"

MeddledInv == TypeOK /\ InStep /\ OneBusy /\ Rechecked

LEMMA OneBusyKept ==
    ASSUME MeddledInv, MeddledNext
    PROVE  OneBusy'
  <1> USE DEF MeddledInv, OneBusy, Busy
  <1>1. ASSUME NEW p \in Procs, Step(p) PROVE OneBusy'
    <2>1. Busy(p) /\ \A q \in Procs : q # p => pc'[q] = pc[q] /\ rpc'[q] = rpc[q]
      BY <1>1, LocalFrame, RemoteFrame DEF Step
    <2> QED BY <2>1
  <1>2. ASSUME NEW p \in Procs, NEW j \in Jobs, Quiet, Begin(p, j) PROVE OneBusy'
    BY <1>2 DEF Quiet, Begin, TypeOK
  <1> QED BY <1>1, <1>2, OtherFrame DEF MeddledNext

\* A step of p itself: its tests, while nobody else writes.
LEMMA RecheckedByRemote ==
    ASSUME MeddledInv, NEW p \in Procs, Remote(p) \/ RemoteRaises(p) \/ Kill(p)
    PROVE  Rechecked'
  <1>1. /\ rpc[p] \in Alive /\ saw'[p].match = saw[p].match
        /\ \A q \in Procs : q # p => rpc'[q] = rpc[q] /\ rpc[q] \notin Alive
    BY RemoteFrame DEF MeddledInv, OneBusy, Busy
  <1>2. Target(p)' = Target(p)
    BY <1>1 DEF Target, Root
  <1>3. \A q \in Procs : q # p => rpc'[q] \notin Alive
    BY <1>1
  <1>4. rpc \in [Procs -> Alive \cup Over] /\ yaml \in [Files -> Contents \cup {NoFile}]
    BY DEF MeddledInv, TypeOK
  <1>5. /\ rpc'[p] = "replace" => ~running'
        /\ rpc'[p] \in {"info2", "docker2", "replace"} => yaml'[Target(p)] # "edited"
    <2>1. CASE \/ RemoteTest(p, "reread", yaml[Target(p)] = Old(p), "info2")
               \/ RemoteTest(p, "info2", sup \in Quiescent, "docker2")
               \/ RemoteTest(p, "docker2", ~running, "replace")
      BY <1>4, <2>1, PhaseType DEF RemoteTest, MeddledInv, Rechecked
    <2>2. CASE ~ \/ RemoteTest(p, "reread", yaml[Target(p)] = Old(p), "info2")
                 \/ RemoteTest(p, "info2", sup \in Quiescent, "docker2")
                 \/ RemoteTest(p, "docker2", ~running, "replace")
      <3>1. rpc'[p] \notin {"info2", "docker2", "replace"}
        BY <1>4, <2>2 DEF Remote, Apply, RemoteRaises, RemoteTest, RemoteInfo, CreateTmp, Post,
                          Replace, Unlink, Kill, SupStart
      <3> QED BY <3>1
    <2> QED BY <2>1, <2>2
  <1> QED BY <1>2, <1>3, <1>5 DEF Rechecked

LEMMA RecheckedKept ==
    ASSUME MeddledInv, MeddledNext
    PROVE  Rechecked'
  <1>1. ASSUME NEW p \in Procs, Local(p) \/ LocalFails(p) PROVE Rechecked'
    <2>1. /\ pc[p] \in Active /\ UNCHANGED <<running, yaml>>
          /\ \A q \in Procs : q # p => rpc'[q] = rpc[q] /\ saw'[q] = saw[q]
          /\ rpc' = rpc \/ rpc'[p] \in {"read", "starting"}
      BY <1>1, LocalFrame DEF MeddledInv
    <2>2. \A q \in Procs : q # p => Target(q)' = Target(q)
      BY <2>1 DEF Target, Root
    <2>3. rpc'[p] \in {"info2", "docker2", "replace"} => saw' = saw /\ rpc' = rpc
      BY <1>1, <2>1
      DEF Local, LocalFails, PlanInfo, PlanDocker, PlanRoot, LaunchApply, Launch, Prestarted,
          StartInfo, StartDocker, Wait, Checked, StartCheck, LocalTest, MeddledInv, InStep
    <2>4. rpc'[p] \in {"info2", "docker2", "replace"} => Target(p)' = Target(p)
      BY <2>3 DEF Target, Root
    <2> QED BY <2>1, <2>2, <2>3, <2>4 DEF MeddledInv, Rechecked
  <1>2. ASSUME NEW p \in Procs, NEW j \in Jobs, Begin(p, j) PROVE Rechecked'
    BY <1>2 DEF Begin, MeddledInv, Rechecked, Target, Root
  <1>3. CASE Environment
    <2>1. \A q \in Procs : Target(q)' = Target(q)
      BY <1>3 DEF Environment, LateRequest, AddonDown, SupNotices, AddonSaves, Target, Root
    <2>2. running' => running
      BY <1>3 DEF Environment, LateRequest, AddonDown, SupNotices, AddonSaves
    <2>3. ASSUME NEW f, yaml'[f] = "edited" PROVE yaml[f] = "edited"
      <3>1. CASE AddonSaves
        BY <2>3, <3>1 DEF AddonSaves, MeddledInv, TypeOK
      <3>2. CASE UNCHANGED yaml
        BY <2>3, <3>2
      <3> QED
        BY <1>3, <3>1, <3>2 DEF Environment, LateRequest, AddonDown, SupNotices
    <2> QED BY <1>3, <2>1, <2>2, <2>3, OtherFrame DEF MeddledInv, Rechecked
  <1>4. CASE (\A p \in Procs : ~Exposed(p)) /\ Foreign
    BY <1>4, OtherFrame DEF Exposed, Rechecked
  <1> QED BY <1>1, <1>2, <1>3, <1>4, RecheckedByRemote DEF MeddledNext, Step

\* MeddledInv holds in every behaviour of MeddledSpec.
THEOREM MeddledInductive == MeddledSpec => []MeddledInv
  <1>1. Init => MeddledInv
    BY InitType DEF Init, MeddledInv, InStep, OneBusy, Busy, Rechecked
  <1>2. ASSUME MeddledInv, [MeddledNext]_vars PROVE MeddledInv'
    <2>1. CASE MeddledNext
      <3>1. TypeOK'
        BY <1>2, <2>1, BeginType, LocalType, RemoteType, OtherType DEF MeddledNext, Step, MeddledInv
      <3>2. InStep'
        BY <1>2, <2>1, InStepKept DEF MeddledNext, MeddledInv
      <3> QED BY <1>2, <2>1, <3>1, <3>2, OneBusyKept, RecheckedKept DEF MeddledInv
    <2>2. CASE UNCHANGED vars
      BY <1>2, <2>2 DEF vars, MeddledInv, TypeOK, InStep, OneBusy, Busy, Rechecked, Target, Root
    <2> QED BY <1>2, <2>1, <2>2
  <1> QED BY <1>1, <1>2, PTL DEF MeddledSpec

\* Of the steps that move a remote program only the replacement writes the YAML.
LEMMA OnlyReplaceWrites ==
    ASSUME TypeOK, MeddledNext, rpc' # rpc, yaml' # yaml
    PROVE  \E p \in Procs : Replace(p)
  <1>1. PICK p \in Procs : Step(p)
    BY OtherFrame DEF MeddledNext, Begin
  <1>2. Remote(p) \/ RemoteRaises(p) \/ Kill(p)
    BY <1>1, LocalFrame DEF Step
  <1> QED BY <1>2 DEF Remote, Apply, RemoteRaises, RemoteTest, RemoteInfo, CreateTmp, Post, Unlink,
                      Kill, SupStart

\* NeverUnderRunning: the YAML is not replaced under a running container, although
\* somebody may start the add-on at any other moment of the command.
THEOREM NeverReplacesUnderRunning == MeddledSpec => NeverUnderRunning
  <1>1. ASSUME MeddledInv, [MeddledNext]_vars PROVE rpc' # rpc /\ yaml' # yaml => ~running
    BY <1>1, OnlyReplaceWrites DEF vars, MeddledInv, Rechecked, Replace
  <1> QED BY <1>1, MeddledInductive, PTL DEF MeddledSpec, NeverUnderRunning

\* ForeignEditKept: an edit made by hand before the second read of the file is not
\* replaced by any command.
THEOREM EditsAreKept == MeddledSpec => ForeignEditKept
  <1>1. ASSUME MeddledInv, [MeddledNext]_vars
        PROVE  rpc' # rpc => \A f \in Files : yaml[f] = "edited" => yaml'[f] = "edited"
    BY <1>1, OnlyReplaceWrites DEF vars, MeddledInv, TypeOK, Rechecked, Replace
  <1> QED BY <1>1, MeddledInductive, PTL DEF MeddledSpec, ForeignEditKept

-----------------------------------------------------------------------------
(* A command given while an earlier one is still at work: OverlapSpec. *)

\* What a CLI concludes from its remote program.
Follows ==
    \A p \in Procs :
      /\ pc[p] \in CheckLabels \cup {"start_check", "succeeded"} => rpc[p] = "exit0"
      /\ pc[p] = "start_check" \/ rpc[p] = "starting" => job[p].kind = "start"

OneActive == \A p, q \in Procs : pc[p] \in Active /\ pc[q] \in Active => p = q

\* A candidate file belongs to a program that will still remove it, or that died.
Candidates ==
    \A p \in tmps : /\ job[p].kind = "apply"
                    /\ rpc[p] \in InTry \cup {"write", "post", "unlink", "undo", "exit1"}

\* An apply whose program was started; one of them was reported as a failure; its
\* operator still waits for the verdict.
Launched(p) == job[p].kind = "apply" /\ rpc[p] # "none"
Told        == \E p \in Procs : Launched(p) /\ pc[p] = "failed"
AtWork(p)   == Launched(p) /\ pc[p] \in Active

\* The layers hold one configuration, but for what Zigbee2MQTT saved itself.
Agree(c) == /\ opts = c
            /\ \A r \in Roots : YamlAt(r) \in {c, NoFile, "saved"}
            /\ \E r \in Roots : YamlAt(r) # NoFile
Settled == late = {} /\ \E c \in Configs : Agree(c)

\* What the check after an apply has read so far is still so.
CheckedSoFar(p) ==
    LET s == saw[p] IN
    /\ s.opts = opts
    /\ \A r \in 1..(s.next - 1) : r \in s.clash \/ YamlAt(r) \in {New(p), NoFile, "saved"}
    /\ \A r \in s.match : YamlAt(r) # NoFile

\* As long as no failure was reported the layers are settled, or the one command at
\* work has changed them and will see it.
Untold ==
    /\ (\A p \in Procs : ~AtWork(p)) => Settled
    /\ \A p \in Procs : AtWork(p) =>
         /\ rpc[p] \in BeforeTry \cup {"create", "write", "post"} => Settled
         /\ rpc[p] \in InTry \cup AfterTry \cup {"exit0"} => late = {}
         /\ pc[p] = "check_docker" => saw[p] = Fresh(opts)
         /\ pc[p] = "check_yaml" => CheckedSoFar(p)

OverlapInv == TypeOK /\ InStep /\ Follows /\ OneActive /\ Candidates /\ (~Told => Untold)

LEMMA FollowsKept ==
    ASSUME OverlapInv, OverlapNext
    PROVE  Follows' /\ OneActive'
  <1> USE DEF OverlapInv, Follows, OneActive
  <1>0. pc \in [Procs -> {"new"} \cup Active \cup Ended] /\ rpc \in [Procs -> Alive \cup Over]
        /\ job \in [Procs -> Jobs \cup {NoJob}]
    BY DEF TypeOK
  <1>1. ASSUME NEW p \in Procs, Local(p) \/ LocalFails(p) PROVE Follows' /\ OneActive'
    <2>1. /\ pc[p] \in Active /\ UNCHANGED job
          /\ \A q \in Procs : q # p => pc'[q] = pc[q] /\ rpc'[q] = rpc[q]
      BY <1>1, LocalFrame
    <2>2. /\ pc'[p] \in CheckLabels \cup {"start_check", "succeeded"} => rpc'[p] = "exit0"
          /\ pc'[p] = "start_check" \/ rpc'[p] = "starting" => job[p].kind = "start"
      <3>1. CASE LaunchApply(p) \/ StartDocker(p)
        BY <1>0, <3>1 DEF LaunchApply, StartDocker, Launch, InStep
      <3>2. CASE UNCHANGED rpc
        BY <1>0, <1>1, <3>2
        DEF Local, LocalFails, PlanInfo, PlanDocker, PlanRoot, LaunchApply, Launch, Prestarted,
            StartInfo, StartDocker, Wait, Checked, StartCheck, LocalTest, InStep
      <3> QED
        BY <1>1, <3>1, <3>2
        DEF Local, LocalFails, PlanInfo, PlanDocker, PlanRoot, Prestarted, StartInfo, Wait,
            Checked, StartCheck, LocalTest
    <2> QED BY <2>1, <2>2
  <1>2. ASSUME NEW p \in Procs, Remote(p) \/ RemoteRaises(p) \/ Kill(p)
        PROVE  Follows' /\ OneActive'
    BY <1>2, RemoteFrame
  <1>3. ASSUME NEW p \in Procs, NEW j \in Jobs, \A q \in Procs : pc[q] \notin Active, Begin(p, j)
        PROVE  Follows' /\ OneActive'
    BY <1>0, <1>3 DEF Begin, InStep
  <1>4. CASE Environment
    BY <1>4, OtherFrame
  <1> QED BY <1>1, <1>2, <1>3, <1>4 DEF OverlapNext, Step

LEMMA CandidatesKept ==
    ASSUME OverlapInv, OverlapNext
    PROVE  Candidates'
  <1> USE DEF OverlapInv, Candidates
  <1>0. rpc \in [Procs -> Alive \cup Over] /\ tmps \subseteq Procs
        /\ job \in [Procs -> Jobs \cup {NoJob}]
    BY DEF TypeOK
  <1>1. ASSUME NEW p \in Procs, Local(p) \/ LocalFails(p) PROVE Candidates'
    <2>1. /\ UNCHANGED <<job, tmps>> /\ pc[p] \in Active
          /\ \A q \in Procs : q # p => rpc'[q] = rpc[q]
      BY <1>1, LocalFrame
    <2>2. p \in tmps => rpc'[p] = rpc[p]
      <3>1. CASE LaunchApply(p) \/ StartDocker(p)
        BY <3>1 DEF LaunchApply, StartDocker, Launch, InStep
      <3> QED
        BY <1>1, <3>1
        DEF Local, LocalFails, PlanInfo, PlanDocker, PlanRoot, Prestarted, StartInfo, Wait,
            Checked, StartCheck, LocalTest
    <2> QED BY <1>0, <2>1, <2>2
  <1>2. ASSUME NEW p \in Procs, Remote(p) \/ RemoteRaises(p) \/ Kill(p) PROVE Candidates'
    <2>1. /\ UNCHANGED job /\ rpc[p] \in Alive
          /\ \A q \in Procs : q # p => rpc'[q] = rpc[q]
      BY <1>2, RemoteFrame
    <2>2. \A q \in tmps' : q # p => q \in tmps
      BY <1>0, <1>2 DEF Remote, Apply, RemoteRaises, RemoteTest, RemoteInfo, CreateTmp, Post,
                        Replace, Unlink, Kill, SupStart
    <2>3. p \in tmps' => /\ job[p].kind = "apply"
                         /\ rpc'[p] \in InTry \cup {"write", "post", "unlink", "undo", "exit1"}
      <3>1. CASE CreateTmp(p)
        BY <1>0, <3>1 DEF CreateTmp, InStep
      <3>2. CASE Replace(p) \/ Unlink(p, "unlink", "exit1") \/ Unlink(p, "undo", "restore")
        BY <3>2 DEF Replace, Unlink
      <3>3. CASE UNCHANGED tmps
        BY <1>0, <1>2, <3>3
        DEF Remote, Apply, RemoteRaises, RemoteTest, RemoteInfo, CreateTmp, Post, Replace, Unlink,
            Kill, SupStart
      <3> QED
        BY <1>2, <3>1, <3>2, <3>3 DEF Remote, Apply, RemoteRaises, RemoteTest, RemoteInfo, Post,
                                      Kill, SupStart
    <2> QED BY <1>0, <2>1, <2>2, <2>3
  <1>3. ASSUME NEW p \in Procs, NEW j \in Jobs, Begin(p, j) PROVE Candidates'
    BY <1>0, <1>3 DEF Begin, InStep
  <1>4. CASE Environment
    BY <1>4, OtherFrame
  <1> QED BY <1>1, <1>2, <1>3, <1>4 DEF OverlapNext, Step

\* A reported failure stays reported.
LEMMA ToldKept ==
    ASSUME OverlapInv, OverlapNext, Told
    PROVE  Told'
  <1> PICK p \in Procs : Launched(p) /\ pc[p] = "failed"
    BY DEF Told
  <1> USE DEF OverlapInv, Launched
  <1>1. ASSUME NEW q \in Procs, Local(q) \/ LocalFails(q) PROVE Launched(p)' /\ pc'[p] = "failed"
    BY <1>1, LocalFrame
  <1>2. ASSUME NEW q \in Procs, Remote(q) \/ RemoteRaises(q) \/ Kill(q)
        PROVE  Launched(p)' /\ pc'[p] = "failed"
    BY <1>2, RemoteFrame
  <1>3. ASSUME NEW q \in Procs, NEW j \in Jobs, Begin(q, j)
        PROVE  Launched(p)' /\ pc'[p] = "failed"
    BY <1>3 DEF Begin, TypeOK
  <1>4. ASSUME Environment PROVE Launched(p)' /\ pc'[p] = "failed"
    BY <1>4, OtherFrame
  <1>5. Launched(p)' /\ pc'[p] = "failed"
    BY <1>1, <1>2, <1>3, <1>4 DEF OverlapNext, Step
  <1> QED BY <1>5 DEF Told

\* The program of an apply that nobody was told about works for a waiting operator.
LEMMA AliveIsAtWork ==
    ASSUME OverlapInv, ~Told, NEW p \in Procs, rpc[p] \in Alive \ {"starting"}
    PROVE  /\ AtWork(p) /\ pc[p] = "wait"
           /\ \A q \in Procs : q # p => ~AtWork(q)
  <1>1. job[p].kind = "apply" /\ pc[p] \in {"wait", "failed"}
    BY DEF OverlapInv, TypeOK, InStep, Follows
  <1> QED BY <1>1 DEF AtWork, Launched, Told, OverlapInv, OneActive

LEMMA UntoldByRemote ==
    ASSUME OverlapInv, Untold, ~Told, NEW p \in Procs, Remote(p) \/ RemoteRaises(p) \/ Kill(p)
    PROVE  Untold'
  <1>1. CASE rpc[p] = "starting"
    <2>1. SupStart(p)
      BY <1>1 DEF Remote, Apply, RemoteRaises, RemoteTest, RemoteInfo, CreateTmp, Post, Replace,
                  Unlink, Kill
    <2>2. UNCHANGED <<opts, yaml, late, job, pc, saw>> /\ ~AtWork(p) /\ ~AtWork(p)'
      BY <1>1, <2>1 DEF SupStart, OverlapInv, Follows, AtWork, Launched
    <2>3. \A q \in Procs : q # p => rpc'[q] = rpc[q] /\ AtWork(q)' = AtWork(q)
      BY <2>2, RemoteFrame DEF OverlapInv, AtWork, Launched
    <2> QED BY <2>2, <2>3 DEF Untold, Settled, Agree, YamlAt, CheckedSoFar, New
  <1>2. CASE rpc[p] # "starting"
    <2>1. /\ rpc[p] \in Alive \ {"starting"} /\ UNCHANGED <<job, pc>>
          /\ \A q \in Procs : q # p => rpc'[q] = rpc[q]
          /\ rpc'[p] # "none"
      BY <1>2, RemoteFrame DEF OverlapInv
    <2>2. /\ AtWork(p) /\ pc[p] = "wait"
          /\ \A q \in Procs : q # p => ~AtWork(q)
      BY <2>1, AliveIsAtWork
    <2>3. /\ AtWork(p)' /\ pc'[p] = "wait"
          /\ \A q \in Procs : q # p => ~AtWork(q)'
      BY <2>1, <2>2 DEF AtWork, Launched
    <2>4. rpc \in [Procs -> Alive \cup Over]
      BY DEF OverlapInv, TypeOK
    <2>5. rpc'[p] \in BeforeTry \cup {"create", "write", "post"} => Settled'
      <3>1. rpc'[p] \in BeforeTry \cup {"create", "write", "post"} =>
                /\ rpc[p] \in BeforeTry \cup {"create", "write"} /\ UNCHANGED <<opts, yaml, late>>
        BY <1>2, <2>4 DEF Remote, Apply, RemoteRaises, RemoteTest, RemoteInfo, CreateTmp, Post,
                          Replace, Unlink, Kill, SupStart
      <3> QED BY <2>2, <3>1 DEF Untold, Settled, Agree, YamlAt
    <2>6. rpc'[p] \in InTry \cup AfterTry \cup {"exit0"} => late' = {}
      <3>1. rpc'[p] \in InTry \cup AfterTry \cup {"exit0"} =>
                /\ rpc[p] \in InTry \cup AfterTry \cup {"post"} /\ UNCHANGED late
        BY <1>2, <2>4 DEF Remote, Apply, RemoteRaises, RemoteTest, RemoteInfo, CreateTmp, Post,
                          Replace, Unlink, Kill, SupStart
      <3> QED BY <2>2, <3>1 DEF Untold, Settled
    <2> QED BY <2>3, <2>5, <2>6 DEF Untold
  <1> QED BY <1>1, <1>2

\* The verdict of the check after an apply: what it has read settles the matter.
LEMMA CheckedSettles ==
    ASSUME OverlapInv, NEW p \in Procs, pc[p] = "check_yaml", CheckedSoFar(p), late = {},
           AllRead(p), Safe(p)
    PROVE  Settled
  <1>1. opts = New(p) /\ New(p) \in Configs
    BY PhaseType DEF Safe, Expected, CheckedSoFar
  <1>2. \A r \in Roots : YamlAt(r) \in {New(p), NoFile, "saved"}
    BY RootsAssumption DEF CheckedSoFar, Safe, AllRead
  <1>3. \E r \in Roots : YamlAt(r) # NoFile
    BY DEF CheckedSoFar, Safe, OverlapInv, TypeOK
  <1> QED BY <1>1, <1>2, <1>3 DEF Settled, Agree

LEMMA UntoldByLocal ==
    ASSUME OverlapInv, Untold, ~Told', NEW p \in Procs, Local(p) \/ LocalFails(p)
    PROVE  Untold'
  <1>1. /\ pc[p] \in Active /\ UNCHANGED <<opts, yaml, late, job>>
        /\ \A q \in Procs : q # p => pc'[q] = pc[q] /\ rpc'[q] = rpc[q]
        /\ \/ rpc' = rpc
           \/ pc'[p] = "wait" /\ rpc'[p] \in {"read", "starting"}
    BY LocalFrame DEF OverlapInv
  <1>2. \A q \in Procs : q # p => ~AtWork(q) /\ ~AtWork(q)'
    BY <1>1 DEF AtWork, OverlapInv, OneActive
  <1>3. Settled' = Settled
    BY <1>1 DEF Settled, Agree, YamlAt
  <1>4. CASE ~AtWork(p)
    <2>1. AtWork(p)' => pc'[p] = "wait"
      BY <1>1, <1>4 DEF AtWork, Launched
    <2>2. Settled /\ late = {}
      BY <1>2, <1>4 DEF Untold, Settled
    <2> QED BY <1>1, <1>2, <1>3, <2>1, <2>2 DEF Untold
  <1>5. CASE AtWork(p)
    <2>0. /\ pc[p] \in CheckLabels \cup {"wait"} /\ rpc[p] # "none" /\ job[p].kind = "apply"
          /\ pc[p] # "wait" => rpc[p] = "exit0" /\ late = {}
      BY <1>1, <1>5 DEF AtWork, Launched, OverlapInv, InStep, Follows, Untold
    <2>1. pc'[p] # "failed" /\ pc \in [Procs -> {"new"} \cup Active \cup Ended]
      BY <1>1, <2>0 DEF Told, Launched, OverlapInv, TypeOK
    <2>2. CASE Wait(p)
      <3>1. rpc' = rpc /\ rpc[p] = "exit0" /\ pc'[p] = "check_info" /\ late = {}
        BY <1>5, <2>0, <2>1, <2>2 DEF Wait, LocalTest, Untold
      <3> QED BY <1>1, <1>2, <1>5, <3>1 DEF Untold, AtWork, Launched
    <2>3. CASE PlanInfo(p, "check_info", "check_docker")
      <3>1. rpc' = rpc /\ pc'[p] = "check_docker" /\ saw'[p] = Fresh(opts)
        BY <2>1, <2>3 DEF PlanInfo, OverlapInv, TypeOK
      <3>2. rpc[p] = "exit0" /\ late = {}
        BY <2>0, <2>3 DEF PlanInfo
      <3> QED BY <1>1, <1>2, <1>5, <3>1, <3>2 DEF Untold, AtWork, Launched
    <2>4. CASE PlanDocker(p, "check_docker", "check_yaml")
      <3>1. rpc' = rpc /\ pc'[p] = "check_yaml" /\ saw' = saw /\ saw[p] = Fresh(opts)
        BY <1>5, <2>1, <2>4 DEF PlanDocker, LocalTest, Untold
      <3>2. rpc[p] = "exit0" /\ late = {}
        BY <2>0, <2>4 DEF PlanDocker, LocalTest
      <3>3. CheckedSoFar(p)'
        BY <1>1, <3>1 DEF CheckedSoFar
      <3> QED BY <1>1, <1>2, <1>5, <3>1, <3>2, <3>3 DEF Untold, AtWork, Launched
    <2>5. CASE PlanRoot(p, "check_yaml")
      <3>1. UNCHANGED <<opts, yaml, job, pc, rpc>> /\ pc[p] = "check_yaml" /\ CheckedSoFar(p)
        BY <1>5, <2>5 DEF PlanRoot, Untold
      <3>2. rpc[p] = "exit0" /\ late = {}
        BY <2>0, <3>1
      <3>3. /\ saw'[p].next = saw[p].next + 1
            /\ saw'[p].opts = saw[p].opts
            /\ saw'[p].match = saw[p].match \cup {r \in {saw[p].next} : YamlAt(r) \in {New(p)}}
            /\ saw'[p].clash = saw[p].clash
                  \cup {r \in {saw[p].next} : YamlAt(r) \in Contents \ {New(p)}}
        BY <2>5 DEF PlanRoot, Expected, OverlapInv, TypeOK
      <3>4. saw[p].next \in Roots /\ YamlAt(saw[p].next) \in Contents \cup {NoFile}
        BY <2>5, RootsAssumption DEF PlanRoot, YamlAt, OverlapInv, TypeOK
      <3>5. \A r \in 1..(saw'[p].next - 1) : r \in 1..(saw[p].next - 1) \/ r = saw[p].next
        BY <3>3, <3>4, RootsAssumption
      <3>6. \A r : YamlAt(r)' = YamlAt(r) /\ New(p)' = New(p)
        BY <3>1 DEF YamlAt, New
      <3>7. New(p) # NoFile
        BY PhaseType DEF NoFile
      <3>8. CheckedSoFar(p)'
        BY <3>1, <3>3, <3>4, <3>5, <3>6, <3>7 DEF CheckedSoFar
      <3> QED BY <1>1, <1>2, <1>5, <3>1, <3>2, <3>8 DEF Untold, AtWork, Launched
    <2>6. CASE Checked(p)
      <3>1. AllRead(p) /\ Safe(p) /\ pc[p] = "check_yaml" /\ pc'[p] = "succeeded"
        BY <2>1, <2>6 DEF Checked, LocalTest
      <3>2. Settled
        BY <1>5, <2>0, <3>1, CheckedSettles DEF Untold
      <3>3. ~AtWork(p)'
        BY <3>1 DEF AtWork
      <3> QED BY <1>2, <1>3, <3>2, <3>3 DEF Untold
    <2> QED
      BY <2>0, <2>1, <2>2, <2>3, <2>4, <2>5, <2>6
      DEF Local, LocalFails, PlanInfo, PlanDocker, PlanRoot, LaunchApply, Launch, Prestarted,
          StartInfo, StartDocker, StartCheck, LocalTest
  <1> QED BY <1>4, <1>5

LEMMA UntoldByOthers ==
    ASSUME OverlapInv, Untold, Environment
    PROVE  Untold'
  <1>1. UNCHANGED <<job, pc, rpc, saw>> /\ \A q \in Procs : AtWork(q)' = AtWork(q)
    BY OtherFrame DEF AtWork, Launched
  <1>2. \A q \in Procs : New(q)' = New(q)
    BY <1>1 DEF New
  <1>3. CASE LateRequest
    <2>1. PICK p \in Procs : AtWork(p) /\ ~Settled
      BY <1>3 DEF LateRequest, Untold, Settled
    <2>2. /\ rpc[p] \notin BeforeTry \cup {"create", "write", "post"} \cup InTry
                             \cup AfterTry \cup {"exit0"}
          /\ pc[p] \notin CheckLabels
          /\ \A q \in Procs : q # p => ~AtWork(q)
      BY <1>3, <2>1 DEF LateRequest, Untold, OverlapInv, Follows, OneActive, AtWork
    <2> QED BY <1>1, <2>1, <2>2 DEF Untold
  <1>4. CASE AddonDown \/ SupNotices
    BY <1>1, <1>2, <1>4 DEF AddonDown, SupNotices, Untold, Settled, Agree, YamlAt, CheckedSoFar
  <1>5. CASE AddonSaves
    <2>1. /\ UNCHANGED <<opts, late>>
          /\ \A r \in Roots : \/ YamlAt(r)' = YamlAt(r)
                              \/ YamlAt(r)' = "saved" /\ YamlAt(r) # NoFile
      BY <1>5 DEF AddonSaves, YamlAt, OverlapInv, TypeOK
    <2>2. Settled => Settled'
      BY <2>1 DEF Settled, Agree, NoFile
    <2>3. ASSUME NEW q \in Procs, CheckedSoFar(q) PROVE CheckedSoFar(q)'
      <3>1. saw[q].match \subseteq Roots /\ 1..(saw[q].next - 1) \subseteq Roots
        BY RootsAssumption DEF OverlapInv, TypeOK
      <3> QED BY <1>1, <1>2, <2>1, <2>3, <3>1 DEF CheckedSoFar, NoFile
    <2> QED BY <1>1, <2>1, <2>2, <2>3 DEF Untold
  <1> QED BY <1>3, <1>4, <1>5 DEF Environment

LEMMA UntoldByBegin ==
    ASSUME OverlapInv, Untold, NEW p \in Procs, NEW j \in Jobs,
           \A q \in Procs : pc[q] \notin Active, Begin(p, j)
    PROVE  Untold'
  <1>1. Settled /\ Settled'
    BY DEF Untold, AtWork, Settled, Agree, YamlAt, Begin
  <1>2. \A q \in Procs : ~AtWork(q)'
    BY DEF AtWork, Launched, Begin, OverlapInv, InStep, TypeOK
  <1> QED BY <1>1, <1>2 DEF Untold

\* OverlapInv holds in every behaviour of OverlapSpec.
THEOREM OverlapInductive == OverlapSpec => []OverlapInv
  <1>1. Init => OverlapInv
    <2> SUFFICES ASSUME Init PROVE OverlapInv
      OBVIOUS
    <2>1. Settled
      BY RootsAssumption DEF Init, Settled, Agree, YamlAt, NoFile
    <2> QED
      BY <2>1, InitType DEF Init, OverlapInv, InStep, Follows, OneActive, Candidates, Untold,
                            AtWork, Launched
  <1>2. ASSUME OverlapInv, [OverlapNext]_vars PROVE OverlapInv'
    <2>1. CASE OverlapNext
      <3>1. TypeOK'
        BY <1>2, <2>1, BeginType, LocalType, RemoteType, OtherType DEF OverlapNext, Step, OverlapInv
      <3>2. InStep'
        BY <1>2, <2>1, InStepKept DEF OverlapNext, OverlapInv
      <3>3. ~Told' => Untold'
        BY <1>2, <2>1, ToldKept, UntoldByLocal, UntoldByRemote, UntoldByOthers, UntoldByBegin
        DEF OverlapNext, Step, OverlapInv
      <3> QED BY <1>2, <2>1, <3>1, <3>2, <3>3, FollowsKept, CandidatesKept DEF OverlapInv
    <2>2. CASE UNCHANGED vars
      BY <1>2, <2>2 DEF vars, OverlapInv, TypeOK, InStep, Follows, OneActive, Candidates, Told,
                        Untold, AtWork, Launched, Settled, Agree, YamlAt, CheckedSoFar, New
    <2> QED BY <1>2, <2>1, <2>2
  <1> QED BY <1>1, <1>2, PTL DEF OverlapSpec

\* ResidueReported: once everything has settled, layers that disagree, or a candidate
\* file left behind, were reported as a failure, even when commands overlapped.
THEOREM ResidueIsReported == OverlapSpec => []ResidueReported
  <1>1. ASSUME OverlapInv PROVE ResidueReported
    <2> SUFFICES ASSUME Quiet
                 PROVE  /\ Mixed => Told
                        /\ \A p \in tmps : pc[p] = "failed"
      BY DEF ResidueReported, Told, Launched
    <2>1. ASSUME Mixed, ~Told PROVE FALSE
      <3>1. PICK c \in Configs : Agree(c)
        BY <1>1, <2>1 DEF OverlapInv, Untold, AtWork, Quiet, Settled
      <3>2. AllLayers(c)
        BY <2>1, <3>1 DEF Mixed, Agree, AllLayers
      <3> QED BY <2>1, <3>2 DEF Mixed
    <2>2. ASSUME NEW p \in tmps PROVE pc[p] = "failed"
      <3>1. p \in Procs /\ rpc[p] = "exit1" /\ pc[p] \notin Active
        BY <1>1, <2>2 DEF OverlapInv, TypeOK, Candidates, Quiet
      <3> QED BY <1>1, <3>1 DEF OverlapInv, TypeOK, InStep, Follows
    <2> QED BY <2>1, <2>2
  <1> QED BY <1>1, OverlapInductive, PTL

=============================================================================

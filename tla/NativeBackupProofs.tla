------------------------- MODULE NativeBackupProofs -------------------------
(* Proof that, as long as no request slips past both lists of a run, there *)
(* is never a second backup of the name and a run answers with its own.    *)
EXTENDS NativeBackup, TLAPS

USE DEF Working, Ended, supervisor, Alone

\* What one step of Goto does to the other runs.
LEMMA OneMoves == ASSUME TypeOK, NEW r \in Runs, NEW from, NEW to, Goto(r, from, to)
                  PROVE  /\ pc[r] = from /\ pc'[r] = to
                         /\ \A s \in Runs \ {r} : pc'[s] = pc[s]
  BY DEF TypeOK, Goto

LEMMA InitInv == Init => BackupInv
  BY DEF Init, BackupInv, TypeOK

\* A run that goes on, or ends, without asking for anything and without passing the jobs.
LEMMA QuietInv == ASSUME BackupInv, NEW r \in Runs, NEW from, NEW to, Goto(r, from, to),
                         UNCHANGED <<supervisor, raced>>,
                         to \in {"list"} \cup Ended \/ from = "list" \/ (from = "poll" /\ to = "relist"),
                         to \in Working \cup Ended, to # "create",
                         to = "jobs" => saved = {},
                         to \in {"poll", "relist"} => from = "poll"
                  PROVE  BackupInv'
  <1>1. TypeOK
    BY DEF BackupInv
  <1>2. pc[r] = from /\ pc'[r] = to /\ \A s \in Runs \ {r} : pc'[s] = pc[s]
    BY <1>1, OneMoves
  <1>3. TypeOK'
    BY <1>1, <1>2 DEF TypeOK, Goto
  <1>4. {s \in Runs : pc'[s] = "create"} \subseteq {s \in Runs : pc[s] = "create"}
    BY <1>2
  <1> QED BY <1>2, <1>3, <1>4 DEF BackupInv

LEMMA JobsInv == ASSUME BackupInv, NEW r \in Runs, Jobs(r)
                 PROVE  BackupInv'
  <1>1. TypeOK
    BY DEF BackupInv
  <1>2. pc[r] = "jobs" /\ pc'[r] \in {"create", "failed"} /\ \A s \in Runs \ {r} : pc'[s] = pc[s]
    BY <1>1, OneMoves DEF Jobs
  <1>3. TypeOK'
    BY <1>1, <1>2 DEF TypeOK, Jobs, Goto
  <1>4. pc'[r] = "create" => running = {}
    BY <1>1, OneMoves DEF Jobs
  <1>5. CASE pc'[r] = "create" /\ ~raced'
    <2>1. ~raced /\ asked = {} /\ \A s \in Runs \ {r} : pc[s] # "create"
      BY <1>5, <1>1 DEF Jobs, Unlisted, TypeOK
    <2>2. saved = {} /\ running = {}
      BY <1>2, <1>4, <1>5, <2>1 DEF BackupInv
    <2>3. {s \in Runs : pc'[s] = "create"} = {r}
      BY <1>2, <1>5, <2>1
    <2>4. UNCHANGED supervisor
      BY DEF Jobs
    <2> QED BY <1>2, <1>3, <2>1, <2>2, <2>3, <2>4 DEF BackupInv
  <1>6. CASE pc'[r] # "create"
    <2>1. {s \in Runs : pc'[s] = "create"} = {s \in Runs : pc[s] = "create"}
      BY <1>2, <1>6
    <2>2. UNCHANGED supervisor /\ (~raced' => ~raced)
      BY DEF Jobs
    <2> QED BY <1>2, <1>3, <1>6, <2>1, <2>2 DEF BackupInv
  <1> QED BY <1>3, <1>5, <1>6 DEF BackupInv

LEMMA CreateInv == ASSUME BackupInv, NEW r \in Runs, Create(r)
                   PROVE  BackupInv'
  <1>1. TypeOK
    BY DEF BackupInv
  <1>2. pc[r] = "create" /\ pc'[r] = "poll" /\ \A s \in Runs \ {r} : pc'[s] = pc[s]
    BY <1>1, OneMoves DEF Create
  <1>3. TypeOK'
    BY <1>1, <1>2 DEF TypeOK, Create, Goto
  <1>4. CASE ~raced'
    <2>1. ~raced /\ \A s \in Runs : pc[s] \notin {"poll", "relist"}
      BY <1>4 DEF Create
    <2>2. asked = {} /\ running = {} /\ saved = {} /\ \A s \in Runs \ {r} : pc[s] # "create"
      BY <1>2, <2>1 DEF BackupInv
    <2>3. asked' = {r} /\ running' = {} /\ saved' = {}
      BY <2>2 DEF Create
    <2>4. {s \in Runs : pc'[s] = "create"} = {}
      BY <1>2, <2>2
    <2> QED BY <1>2, <1>3, <2>1, <2>2, <2>3, <2>4 DEF BackupInv
  <1> QED BY <1>3, <1>4 DEF BackupInv

LEMMA PerformInv == ASSUME BackupInv, NEW r \in Runs, Begin(r) \/ Perform(r) \/ Lost(r)
                    PROVE  BackupInv'
  <1>1. CASE Begin(r)
    BY <1>1, QuietInv DEF Begin
  <1>2. CASE List(r)
    <2>1. PICK to \in {"jobs", "existed", "failed"} :
             Goto(r, "list", to) /\ (to = "jobs" => saved = {})
      BY <1>2 DEF List
    <2> QED BY <1>2, <2>1, QuietInv DEF List
  <1>3. CASE Jobs(r)
    BY <1>3, JobsInv
  <1>4. CASE Create(r)
    BY <1>4, CreateInv
  <1>5. CASE Poll(r)
    <2>1. PICK to \in {"relist", "failed"} : Goto(r, "poll", to)
      BY <1>5 DEF Poll
    <2> QED BY <1>5, <2>1, QuietInv DEF Poll
  <1>6. CASE Relist(r)
    <2>1. PICK to \in {"created", "failed"} : Goto(r, "relist", to)
      BY <1>6 DEF Relist
    <2> QED BY <1>6, <2>1, QuietInv DEF Relist
  <1>7. CASE Lost(r)
    <2>1. PICK at \in Working : Goto(r, at, "failed")
      BY <1>7 DEF Lost
    <2> QED BY <1>7, <2>1, QuietInv DEF Lost
  <1> QED BY <1>1, <1>2, <1>3, <1>4, <1>5, <1>6, <1>7 DEF Perform

LEMMA SuperviseInv == ASSUME BackupInv, NEW r \in Runs, Supervise(r)
                      PROVE  BackupInv'
  <1>1. CASE Accept(r)
    <2>1. TypeOK'
      BY <1>1 DEF Accept, BackupInv, TypeOK
    <2>2. r \in asked /\ asked' = asked \ {r} /\ UNCHANGED <<pc, saved, raced>>
      BY <1>1 DEF Accept
    <2>3. asked' \cup running' \cup saved' \subseteq asked \cup running \cup saved
      BY <1>1 DEF Accept
    <2> QED BY <2>1, <2>2, <2>3 DEF BackupInv
  <1>2. CASE Finish(r)
    <2>1. TypeOK'
      BY <1>2 DEF Finish, BackupInv, TypeOK
    <2>2. saved' = saved \/ (saved' = saved \cup {r} /\ (~raced' => \A s \in Runs : pc[s] # "jobs"))
      BY <1>2 DEF Finish, BackupInv, TypeOK
    <2>3. r \in running /\ running' = running \ {r} /\ UNCHANGED <<pc, asked>> /\ (~raced' => ~raced)
      BY <1>2 DEF Finish, BackupInv, TypeOK
    <2>4. asked' \cup running' \cup saved' \subseteq asked \cup running \cup saved
      BY <2>2, <2>3
    <2> QED BY <2>1, <2>2, <2>3, <2>4 DEF BackupInv
  <1> QED BY <1>1, <1>2 DEF Supervise

LEMMA OthersInv == BackupInv /\ Others => BackupInv'
  BY DEF Others, BackupInv, TypeOK

LEMMA NextInv == ASSUME BackupInv, [Next]_vars
                 PROVE  BackupInv'
  <1>1. CASE UNCHANGED vars
    BY <1>1 DEF vars, BackupInv, TypeOK
  <1> QED BY <1>1, PerformInv, SuperviseInv, OthersInv DEF Next

\* BackupInv: a run that gets past both lists is the only one with a request, a job or a
\* backup of the name, as long as nothing slipped past the two lists of a run.
THEOREM Inductive == Spec => []BackupInv
  <1>1. BackupInv /\ [Next]_vars => BackupInv'
    BY NextInv
  <1> QED BY InitInv, <1>1, PTL DEF Spec

\* perform: however many runs are given, repeated after a lost link or at the same time,
\* there is no second backup of the name unless one slipped past the two lists of another.
THEOREM NeverTwo == Spec => []Unique
  <1>1. BackupInv => Unique
    BY DEF BackupInv, Unique
  <1> QED BY Inductive, <1>1, PTL

\* perform: a run that says it has created a backup has, and it is the only one of the
\* name, unless a request slipped past the two lists of a run or before its answer.
THEOREM AnswersWithOwn == Spec => OwnBackup
  <1>1. ASSUME BackupInv, [Next]_vars, NEW r \in Runs, ~raced, pc[r] # "created", pc'[r] = "created"
        PROVE  saved = {r}
    <2>0. TypeOK
      BY <1>1 DEF BackupInv
    <2>1. PICK s \in Runs : Begin(s) \/ Perform(s) \/ Lost(s) \/ Supervise(s)
      BY <1>1 DEF Next, Others, vars
    <2>2. Relist(r)
      BY <1>1, <2>0, <2>1 DEF TypeOK, Begin, Perform, List, Jobs, Create, Poll, Relist, Lost,
                               Supervise, Accept, Finish, Goto
    <2>3. pc[r] = "relist" /\ saved # {}
      BY <1>1, <2>0, <2>2 DEF TypeOK, Relist, Goto
    <2> QED BY <1>1, <2>3 DEF BackupInv, TypeOK
  <1>2. BackupInv /\ [Next]_vars
          => [\A r \in Runs : ~raced /\ pc[r] # "created" /\ pc'[r] = "created" => saved = {r}]_vars
    BY <1>1
  <1> QED BY Inductive, <1>2, PTL DEF Spec, OwnBackup
=============================================================================

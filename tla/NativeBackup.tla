---------------------------- MODULE NativeBackup ----------------------------
(***************************************************************************)
(* p10_native_ha_backup: ask Supervisor for a full backup under a name     *)
(* that no backup has yet.  Backups have no unique names in Supervisor, so *)
(* perform lists the backups, then the jobs, and then creates.             *)
(*                                                                         *)
(* The runs of the command share one name.  A run may lose its link; what  *)
(* it has asked of Supervisor goes on.                                     *)
(***************************************************************************)
EXTENDS FiniteSets

CONSTANT Runs       \* the runs of the command with --create

VARIABLES
    pc,         \* where perform is, per run
    asked,      \* the runs whose `ha backups new' Supervisor has not begun yet
    running,    \* the runs whose job is at work
    others,     \* is a backup of another name being made?
    saved,      \* the runs whose backup Supervisor lists
    status,     \* exit status of `ha backups new', per run
    raced       \* history, which only properties read: did a run pass unseen
                \* between the two lists of another, or before its answer?

supervisor == <<asked, running, others, saved, status>>
vars == <<pc, supervisor, raced>>

Working == {"list", "jobs", "create", "poll", "relist"}
Ended == {"created", "existed", "failed"}

TypeOK == /\ pc \in [Runs -> {"idle"} \cup Working \cup Ended]
          /\ asked \subseteq Runs /\ running \subseteq Runs /\ saved \subseteq Runs
          /\ others \in BOOLEAN
          /\ status \in [Runs -> {"none", "ok", "error"}]
          /\ raced \in BOOLEAN

Init == /\ pc = [r \in Runs |-> "idle"]
        /\ asked = {} /\ running = {} /\ saved = {}
        /\ others \in BOOLEAN
        /\ status = [r \in Runs |-> "none"]
        /\ raced = FALSE

Goto(r, from, to) == pc[r] = from /\ pc' = [pc EXCEPT ![r] = to]

Alone(S) == \A r, s \in S : r = s

-----------------------------------------------------------------------------
(* perform. *)

\* A run is given at any time, whatever is left of earlier ones.
Begin(r) == Goto(r, "idle", "list") /\ UNCHANGED <<supervisor, raced>>

\* Faulty variant: only an ambiguous name is refused.
ListAmbiguous(r) == /\ Goto(r, "list", IF Alone(saved) THEN "jobs" ELSE "failed")
                    /\ UNCHANGED <<supervisor, raced>>

\* The name is there: its summary is the answer; two of them are refused.
List(r) == /\ Goto(r, "list", IF saved = {} THEN "jobs"
                              ELSE IF Alone(saved) THEN "existed" ELSE "failed")
           /\ UNCHANGED <<supervisor, raced>>

\* A request that is not a job yet is in neither list.
Unlisted(r) == asked # {} \/ \E s \in Runs \ {r} : pc[s] = "create"

\* Faulty variant: the jobs are listed, and not looked at.
JobsUnread(r) == /\ Goto(r, "jobs", "create")
                 /\ raced' = (raced \/ Unlisted(r))
                 /\ UNCHANGED supervisor

\* No job with "backup" in its name may be undone.
Jobs(r) == /\ Goto(r, "jobs", IF running = {} /\ ~others THEN "create" ELSE "failed")
           /\ raced' = (raced \/ (pc'[r] = "create" /\ Unlisted(r)))
           /\ UNCHANGED supervisor

\* Another run may still wait for the answer to its own request.
Create(r) == /\ Goto(r, "create", "poll")
             /\ asked' = asked \cup {r}
             /\ raced' = (raced \/ \E s \in Runs : pc[s] \in {"poll", "relist"})
             /\ UNCHANGED <<running, others, saved, status>>

\* Faulty variant: the loop looks for success only.
PollSuccess(r) == status[r] = "ok" /\ Goto(r, "poll", "relist") /\ UNCHANGED <<supervisor, raced>>

\* The loop over exit_status_ready, without end until there is a status.
Poll(r) == /\ status[r] # "none"
           /\ Goto(r, "poll", IF status[r] = "ok" THEN "relist" ELSE "failed")
           /\ UNCHANGED <<supervisor, raced>>

Relist(r) == /\ Goto(r, "relist", IF saved # {} /\ Alone(saved) THEN "created" ELSE "failed")
             /\ UNCHANGED <<supervisor, raced>>

\* A query fails or takes more than 25 s, or the link is lost.
Lost(r) == \E at \in Working : Goto(r, at, "failed") /\ UNCHANGED <<supervisor, raced>>

Perform(r) == List(r) \/ Jobs(r) \/ Create(r) \/ Poll(r) \/ Relist(r)

-----------------------------------------------------------------------------
(* Supervisor, and the people who use it. *)

\* A request becomes a job, or is refused; another job need not be in its way.
Accept(r) == /\ r \in asked /\ asked' = asked \ {r}
             /\ \/ running' = running \cup {r} /\ UNCHANGED status
                \/ status' = [status EXCEPT ![r] = "error"] /\ UNCHANGED running
             /\ UNCHANGED <<pc, others, saved, raced>>

\* The answer of a job that fails may be empty, with exit status 0.  A job that ends
\* between the two lists of a run is in neither.
Finish(r) == /\ r \in running /\ running' = running \ {r}
             /\ \/ /\ saved' = saved \cup {r} /\ status' = [status EXCEPT ![r] = "ok"]
                   /\ raced' = (raced \/ \E s \in Runs : pc[s] = "jobs")
                \/ /\ UNCHANGED <<saved, raced>>
                   /\ \E s \in {"ok", "error"} : status' = [status EXCEPT ![r] = s]
             /\ UNCHANGED <<pc, asked, others>>

\* Automatic backups come and go; a saved backup may be deleted by hand.
Others == \/ others' = ~others /\ UNCHANGED <<pc, asked, running, saved, status, raced>>
          \/ /\ \E r \in saved : saved' = saved \ {r}
             /\ UNCHANGED <<pc, asked, running, others, status, raced>>

Supervise(r) == Accept(r) \/ Finish(r)

Next == \/ \E r \in Runs : Begin(r) \/ Perform(r) \/ Lost(r) \/ Supervise(r)
        \/ Others

Spec == Init /\ [][Next]_vars

\* Queries time out, and Supervisor ends what it was asked; nothing bounds the wait otherwise.
FairSpec == Spec /\ \A r \in Runs : WF_vars(Perform(r)) /\ WF_vars(Supervise(r))

-----------------------------------------------------------------------------
(* Properties. *)

\* perform: there is never more than one backup of the name, although a run that lost
\* its link is repeated while nobody knows whether its backup was made; only when a
\* request or a job slipped past both lists of a run may there be a second.
Unique == ~raced => Alone(saved)

\* perform: a run that reports a new backup has made it itself, unless requests raced:
\* what an earlier run had asked for is never taken for its own, even when its own job
\* failed without a word.
OwnBackup == [][\A r \in Runs : ~raced /\ pc[r] # "created" /\ pc'[r] = "created" => saved = {r}]_vars

\* perform: a run that was given ends.
Answered == \A r \in Runs : pc[r] # "idle" ~> pc[r] \in Ended

\* What makes Unique hold: a run gets past both lists only when no other backup of the
\* name is there, is being made or is about to be asked for, unless it raced.
BackupInv ==
    /\ TypeOK
    /\ ~raced =>
         /\ Alone(asked \cup running \cup saved \cup {r \in Runs : pc[r] = "create"})
         /\ \A r \in Runs : pc[r] = "jobs" => saved = {}
         /\ \A r \in Runs : pc[r] = "create" => asked \cup running \cup saved = {}
         /\ \A r \in Runs : pc[r] \in {"poll", "relist"} => asked \cup running \cup saved \subseteq {r}
=============================================================================

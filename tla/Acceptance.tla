----------------------------- MODULE Acceptance ----------------------------
(***************************************************************************)
(* p10_device_acceptance: which devices have been heard since the cutover, *)
(* concluded from two copies of database.db.  Zigbee2MQTT keeps the        *)
(* records in its memory, saves them from time to time, and may be killed  *)
(* in between; devices join, report and leave all the time.                *)
(***************************************************************************)
EXTENDS Integers

CONSTANTS Members,   \* routers and end devices, by their IEEE address
          MaxTime    \* bound on the clock

ASSUME AcceptanceAssumption == MaxTime \in Nat

VARIABLES
    known, saved,     \* the records in Zigbee2MQTT's memory and in database.db
    radio,            \* the coordinator's record in each: the old one or the P10
    clock, since,     \* the host's clock, and its time at the cutover
    baseline,         \* the records of the baseline
    result,           \* what compare says
    heard, left       \* history: the last report of a device, and those that have left

acceptanceVars == <<known, saved, radio, clock, since, baseline, result, heard, left>>

Never == -1
Gone == [role |-> "gone", seen |-> Never]
Roles == {"Router", "EndDevice"}
NoResult == [done |-> FALSE]
Coordinators == {"sonoff", "p10"}

AcceptanceInit ==
    /\ known \in [Members -> {[role |-> r, seen |-> s] : r \in Roles, s \in {Never, 0}} \cup {Gone}]
    /\ saved = known /\ radio = [known |-> "sonoff", saved |-> "sonoff"]
    /\ clock = 0 /\ since = Never
    /\ baseline = [d \in Members \cup Coordinators |-> Gone] /\ result = NoResult
    /\ heard = [d \in Members |-> known[d].seen] /\ left = {}

-----------------------------------------------------------------------------
(* Zigbee2MQTT and its network. *)

Tick == /\ clock < MaxTime /\ clock' = clock + 1
        /\ UNCHANGED <<known, saved, radio, since, baseline, result, heard, left>>

Report(d) == /\ known[d] # Gone
             /\ known' = [known EXCEPT ![d].seen = clock] /\ heard' = [heard EXCEPT ![d] = clock]
             /\ UNCHANGED <<saved, radio, clock, since, baseline, result, left>>

\* A record without a report: the interview is not over.
Join(d, role) == /\ known[d] = Gone /\ known' = [known EXCEPT ![d] = [role |-> role, seen |-> Never]]
                 /\ UNCHANGED <<saved, radio, clock, since, baseline, result, heard, left>>

Leave(d) == /\ known[d] # Gone /\ d \notin left   \* bound: once each
            /\ known' = [known EXCEPT ![d] = Gone] /\ left' = left \cup {d}
            /\ UNCHANGED <<saved, radio, clock, since, baseline, result, heard>>

Save == /\ saved' = known /\ radio' = [radio EXCEPT !.saved = radio.known]
        /\ UNCHANGED <<known, clock, since, baseline, result, heard, left>>

Killed == /\ known' = saved /\ radio' = [radio EXCEPT !.known = radio.saved]
          /\ UNCHANGED <<saved, clock, since, baseline, result, heard, left>>

\* The add-on saves when it stops, and comes back with the P10.
Cutover == /\ since = Never /\ since' = clock
           /\ saved' = known /\ radio' = [known |-> "p10", saved |-> "p10"]
           /\ UNCHANGED <<known, clock, baseline, result, heard, left>>

-----------------------------------------------------------------------------
(* The tool. *)

\* parse_database: a record for each device and for one coordinator.
ParseDatabase == [d \in Members \cup Coordinators |->
                     IF d \in Members THEN saved[d]
                     ELSE IF d = radio.saved THEN [role |-> "Coordinator", seen |-> Never] ELSE Gone]

Records(db) == {d \in DOMAIN db : db[d] # Gone}

\* baseline, and the one that stage makes of a bundle, before the cutover.
Baseline == /\ since = Never /\ baseline' = ParseDatabase
            /\ UNCHANGED <<known, saved, radio, clock, since, result, heard, left>>

Ordinary(before) == {d \in Records(before) : before[d].role # "Coordinator"}
Seen(before, now, threshold) == {d \in Ordinary(before) \cap Records(now) :
                                    now[d].seen # Never /\ now[d].seen >= threshold}

\* Faulty variant: a device that is in the database has reported.
CompareStale(before, now, threshold) ==
    LET missing == Ordinary(before) \ Records(now)
        seen == {d \in Ordinary(before) \cap Records(now) : now[d].seen # Never}
    IN  [done |-> TRUE, missing |-> missing, seen |-> seen,
         unseen |-> (Ordinary(before) \ seen) \ missing,
         reclassified |-> {d \in Ordinary(before) \cap Records(now) : now[d].role # before[d].role}]

\* compare: a record is not a report, and a coordinator is none of the devices.
Compare(before, now, threshold) ==
    LET missing == Ordinary(before) \ Records(now)
        seen == Seen(before, now, threshold)
    IN  [done |-> TRUE, missing |-> missing, seen |-> seen,
         unseen |-> (Ordinary(before) \ seen) \ missing,
         reclassified |-> {d \in Ordinary(before) \cap Records(now) : now[d].role # before[d].role}]

\* assess, on a bundle taken after the cutover.
Assess == /\ since # Never /\ Records(baseline) # {}
          /\ result' = Compare(baseline, ParseDatabase, since)
          /\ UNCHANGED <<known, saved, radio, clock, since, baseline, heard, left>>

AcceptanceNext == \/ Tick \/ Save \/ Killed \/ Cutover \/ Baseline \/ Assess
                  \/ \E d \in Members : Report(d) \/ Leave(d) \/ \E role \in Roles : Join(d, role)

AcceptanceSpec == AcceptanceInit /\ [][AcceptanceNext]_acceptanceVars

-----------------------------------------------------------------------------
(* Properties. *)

\* compare: a device it lists as seen has reported since the cutover, one that is missing or
\* has another role has left the network, and the exchange of the coordinator loses nobody,
\* however old the database is and whatever was lost when Zigbee2MQTT was killed.
AssessIsTrue == result.done =>
    /\ \A d \in result.seen : heard[d] >= since
    /\ result.missing \cup result.reclassified \subseteq left
    /\ result.seen \cup result.unseen \cup result.missing \subseteq Members
=============================================================================

------------------------------ MODULE MCRadio ------------------------------
(* Small instances of the tools that talk to a radio, for TLC: one of them *)
(* is at work, and the others stay where they begin.                       *)
EXTENDS RadioReset, ZnpReader, ZnpSession

CONSTANTS r1, r2, d1, d2, i1, i2

VARIABLE part         \* "reset", "reader" or "session"

Lists(a, b, c) == [i \in 0 .. 2 |-> <<a, b, c>>[i + 1]]

\* Lengths of three items in the two images: contiguous or not.
MCTables == {[i \in {i1, i2} |-> IF i = i1 THEN one ELSE other] :
                one \in {Lists("present", "present", "absent"), Lists("present", "absent", "present"),
                         Lists("absent", "absent", "absent"), Lists("present", "odd", "absent")},
                other \in {Lists("present", "absent", "absent"), Lists("present", "present", "present")}}

NoReset == /\ pc = [r \in Runs |-> "idle"] /\ n = [r \in Runs |-> 0] /\ mode = [r \in Runs |-> "preflight"]
           /\ host = [r \in Runs |-> d1] /\ usb = host /\ listed = {} /\ legible = {}
           /\ asked = {} /\ carried = [r \in Runs |-> 0] /\ overtaken = {} /\ up = FALSE
           /\ fw = [d \in Devices |-> "other"] /\ radio = [d \in Devices |-> "dead"]

NoReader == /\ tool = "usb" /\ want = 1 /\ sent = <<>> /\ seen = 0 /\ buffer = <<>> /\ phase = "select"
            /\ answer = <<>> /\ hurried = FALSE

NoSession == /\ program = "probe" /\ image = i1 /\ slots = (CHOOSE t \in MCTables : TRUE) /\ network = "idle"
             /\ Begins(<<>>)

\* One device stands for either, and a revision that nothing reads for both; one of the two
\* runs is given with --execute, and the other names one device.
ResetInit == /\ Init /\ \A d \in Devices \ legible : fw[d] = "other"
             /\ host[r1] = d1 /\ mode[r1] = "execute" /\ host[r2] = usb[r2]

RadioInit == \/ part = "reset" /\ ResetInit /\ NoReader /\ NoSession
             \/ part = "reader" /\ ReaderInit /\ NoReset /\ NoSession
             \/ part = "session" /\ SessionInit /\ NoReset /\ NoReader

RadioNext == /\ UNCHANGED part
             /\ \/ part = "reset" /\ Next /\ UNCHANGED <<readerVars, sessionVars>>
                \/ part = "reader" /\ ReaderNext /\ UNCHANGED <<vars, sessionVars>>
                \/ part = "session" /\ SessionNext /\ UNCHANGED <<vars, readerVars>>

\* The fairness of FairSpec.
RadioSpec == /\ RadioInit /\ [][RadioNext]_<<part, vars, readerVars, sessionVars>>
             /\ \A r \in Runs : WF_vars(part = "reset" /\ (Recover(r) \/ Raises(r)))
=============================================================================

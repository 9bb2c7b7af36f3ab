----------------------------- MODULE ZnpSession -----------------------------
(***************************************************************************)
(* A tool and the radio behind a serial port or a TCP socket.  Every tool  *)
(* sends a request, skips what is no answer to it, takes the first answer  *)
(* and goes on; it raises when none comes in time.                         *)
(*                                                                         *)
(*   probe    p10_usb_cutover.REMOTE and p10_target_endpoint.REMOTE        *)
(*   inspect  p10_readonly.inspect                                         *)
(*   nv       p10_nv_lengths.inspect                                       *)
(*                                                                         *)
(* An answer names its command and nothing else: not the request, and not  *)
(* the index of the NV item whose length it gives.  An earlier tool that   *)
(* gave up has left an answer that is still to come, and each of them one. *)
(* What the readers make of the bytes is in ZnpReader.                     *)
(***************************************************************************)
EXTENDS Naturals, Sequences

CONSTANTS Programs,   \* the tools that are looked at
          Images,     \* firmware images, told apart by their revision
          Expected,   \* the revision that the operator names
          End,        \* the last index of an NV item whose length is asked for
          Tables,     \* what the lengths may be, per image: "present", "absent" or "odd"
          MaxLate,    \* answers to earlier tools that are still to come
          MaxFlashed  \* times the radio is given another image during a session

ASSUME ProgramsAssumption == Programs \subseteq {"probe", "inspect", "nv"}
ASSUME ScanAssumption == /\ Expected \in Images /\ End \in Nat /\ MaxLate \in Nat
                         /\ Tables \subseteq [Images -> [0 .. End -> {"present", "absent", "odd"}]]

VARIABLES
    program,          \* the tool
    step, pending,    \* the command it is at, and whether it waits for the answer
    requests,         \* what the radio has still to answer
    incoming,         \* answers on their way
    heard, trail,     \* the answers that were taken; history: whose answers they were
    verdict,          \* of the tool
    image, slots,     \* the radio: its firmware, and the lengths of its NV items per image
    network,          \* is it in a network?
    late, flashed     \* history: answers of earlier tools at the start, changes of the image

toolState == <<program, step, pending, heard, trail, verdict>>
radioState == <<image, slots, network, flashed>>
sessionVars == <<toolState, requests, incoming, radioState, late>>

-----------------------------------------------------------------------------
(* What the tools ask. *)

Lengths == [i \in 1 .. End + 1 |-> "length"]

Script == [probe |-> <<"ping", "version">>,
           inspect |-> <<"ping", "version">>,
           nv |-> <<"ping", "version", "info">> \o Lengths \o <<"info", "version">>]

Asked == Script[program]

\* The lengths that were heard.
Scan(answers) == SubSeq(answers, 4, End + 4)

Count(lengths) == Len(SelectSeq(lengths, LAMBDA v : v = "present"))

\* scan_lengths: known lengths only, and the items that are there come first.
Contiguous(lengths) == \A i \in DOMAIN lengths :
    lengths[i] = IF i <= Count(lengths) THEN "present" ELSE "absent"

\* Faulty variant: the version is not compared with that before the scan.
AcceptableOnce(answers) ==
    LET k == Len(answers) IN
    /\ program # "inspect" /\ k = 2 => answers[2] = Expected
    /\ program = "nv" => /\ Asked[k] = "info" => answers[k] = "idle"
                         /\ k = End + 4 => Contiguous(Scan(answers))

\* What a tool wants of the answers so far; it raises when it does not get it.
Acceptable(answers) ==
    LET k == Len(answers) IN
    /\ program # "inspect" /\ k = 2 => answers[2] = Expected
    /\ program = "nv" => /\ Asked[k] = "info" => answers[k] = "idle"
                         /\ k = End + 4 => Contiguous(Scan(answers))
                         /\ k = Len(Asked) => answers[k] = answers[2]

-----------------------------------------------------------------------------

\* An answer that was not waited for: nobody's.
Stale == {[cmd |-> "ping", val |-> "pong"]}
         \cup {[cmd |-> "version", val |-> i] : i \in Images}
         \cup {[cmd |-> "info", val |-> v] : v \in {"idle", "network"}}
         \cup {[cmd |-> "length", val |-> v] : v \in {"present", "absent"}}

Begins(stale) == /\ step = 1 /\ pending = FALSE /\ requests = <<>>
                 /\ incoming = [i \in DOMAIN stale |-> [cmd |-> stale[i].cmd, val |-> stale[i].val, nr |-> 0]]
                 /\ late = Len(stale)
                 /\ heard = <<>> /\ trail = <<>> /\ verdict = "none" /\ flashed = 0

SessionInit == /\ program \in Programs
               /\ image \in Images /\ slots \in Tables /\ network \in {"idle", "network"}
               /\ \E n \in 0 .. MaxLate : \E stale \in [1 .. n -> Stale] : Begins(stale)

-----------------------------------------------------------------------------
(* The tool. *)

\* write and flush, or sendall.
Ask == /\ verdict = "none" /\ ~pending /\ pending' = TRUE
       /\ requests' = Append(requests, step)
       /\ UNCHANGED <<program, step, heard, trail, verdict, incoming, radioState, late>>

\* The next frame is an answer to this command, or it is skipped.
Listen == /\ pending /\ incoming # <<>> /\ incoming' = Tail(incoming)
          /\ IF Head(incoming).cmd # Asked[step]
             THEN UNCHANGED toolState
             ELSE LET answers == Append(heard, Head(incoming).val) IN
                  /\ heard' = answers /\ trail' = Append(trail, Head(incoming).nr)
                  /\ step' = step + 1 /\ pending' = FALSE
                  /\ verdict' = IF ~Acceptable(answers) THEN "refused"
                                ELSE IF step = Len(Asked) THEN "reported" ELSE "none"
                  /\ UNCHANGED program
          /\ UNCHANGED <<requests, radioState, late>>

\* Faulty variant: a command whose answer is late is given again.
AsksAgain == /\ pending /\ requests' = Append(requests, step) /\ Len(requests) < 3
             /\ UNCHANGED <<toolState, incoming, radioState, late>>

\* TimeoutError: no command is given twice.
GivesUp == /\ pending /\ verdict' = "refused" /\ pending' = FALSE
           /\ UNCHANGED <<program, step, heard, trail, requests, incoming, radioState, late>>

-----------------------------------------------------------------------------
(* The radio, and people. *)

\* What the radio says to the k-th command of the script.
Says(k) == CASE Asked[k] = "ping" -> "pong"
             [] Asked[k] = "version" -> image
             [] Asked[k] = "info" -> network
             [] Asked[k] = "length" -> slots[image][k - 4]

\* A request is answered, or it or its answer is lost.
Serves == /\ requests # <<>> /\ requests' = Tail(requests)
          /\ LET k == Head(requests) IN
             \/ incoming' = Append(incoming, [cmd |-> Asked[k], val |-> Says(k), nr |-> k])
             \/ UNCHANGED incoming
          /\ UNCHANGED <<toolState, radioState, late>>

\* The radio is given another image, and starts again.
Flashed == /\ flashed < MaxFlashed /\ flashed' = flashed + 1
           /\ image' \in Images \ {image} /\ requests' = <<>>
           /\ UNCHANGED <<slots, network, toolState, incoming, late>>

\* The radio forms a network, or leaves it.
Commissioned == /\ network' = IF network = "idle" THEN "network" ELSE "idle"
                /\ UNCHANGED <<image, slots, flashed, toolState, requests, incoming, late>>

SessionNext == Ask \/ Listen \/ GivesUp \/ Serves \/ Flashed \/ Commissioned

SessionSpec == SessionInit /\ [][SessionNext]_sessionVars

-----------------------------------------------------------------------------
(* Properties. *)

\* The first n commands of the script can be told apart by their answers.
Distinct(n) == \A i, j \in DOMAIN Asked : i <= n /\ j <= n /\ Asked[i] = Asked[j] => i = j

\* The tools number nothing and do not empty the line.  Still the k-th answer that a tool takes is
\* the answer to its k-th command, once there have been more commands than late answers, if
\* these commands are different ones: for nv this is so for up to three late answers.
OwnAnswers == Distinct(late + 1) => \A k \in DOMAIN trail : k > late => trail[k] = k

\* inspect of p10_nv_lengths: the number of slots that is reported is that of the firmware that is
\* reported, with up to three late answers, or one and a change of the firmware during the scan.
ScanIsTrue ==
    program = "nv" /\ verdict = "reported" /\ late + 2 * flashed <= 3
        => \A i \in 1 .. End + 1 :
              slots[heard[2]][i - 1] = IF i <= Count(Scan(heard)) THEN "present" ELSE "absent"
=============================================================================

----------------------------- MODULE ZnpProofs -----------------------------
(* Proofs that a tool takes its own answers, that the number of NV slots it *)
(* reports is true, and that what each of the four readers takes for an     *)
(* answer is a frame that was sent, the first answer if it waits for it.    *)
EXTENDS ZnpReader, ZnpSession, SequenceTheorems, FiniteSetTheorems, WellFoundedInduction, TLAPS

USE DEF toolState, radioState

Names == {"ping", "version", "info", "length"}
Values == {"pong", "idle", "network", "present", "absent", "odd"} \cup Images
Messages == [cmd : Names, val : Values, nr : Nat]

SessionTypeOK ==
    /\ program \in {"probe", "inspect", "nv"}
    /\ step \in Nat /\ pending \in BOOLEAN
    /\ requests \in Seq(DOMAIN Asked) /\ incoming \in Seq(Messages)
    /\ heard \in Seq(Values) /\ trail \in Seq(Nat)
    /\ Len(heard) = Len(trail) /\ step = Len(trail) + 1
    /\ verdict \in {"none", "refused", "reported"}
    /\ image \in Images /\ slots \in Tables /\ network \in {"idle", "network"}
    /\ late \in Nat /\ flashed \in Nat
    /\ verdict = "none" => step \in DOMAIN Asked
    /\ pending => verdict = "none"

\* Numbers of requests that were taken, are answered or are still to be answered grow along the
\* line; answers that are nobody's come first.
InLine ==
    /\ \A i, j \in DOMAIN requests : i < j => requests[i] < requests[j]
    /\ \A i, j \in DOMAIN incoming : i < j => incoming[i].nr = 0 \/ incoming[i].nr < incoming[j].nr
    /\ \A i \in DOMAIN incoming, j \in DOMAIN requests : incoming[i].nr < requests[j]
    /\ \A k \in DOMAIN trail : /\ \A i \in DOMAIN incoming : trail[k] = 0 \/ trail[k] < incoming[i].nr
                               /\ \A j \in DOMAIN requests : trail[k] < requests[j]

\* What is on the line has been asked for, by this command or one before it.
OfThisRun ==
    /\ \A j \in DOMAIN requests : requests[j] <= step /\ (verdict = "none" /\ ~pending => requests[j] < step)
    /\ \A i \in DOMAIN incoming : incoming[i].nr # 0 =>
          /\ incoming[i].nr \in DOMAIN Asked /\ incoming[i].cmd = Asked[incoming[i].nr]
          /\ incoming[i].nr <= step /\ (verdict = "none" /\ ~pending => incoming[i].nr < step)

\* A late answer that is still to come leaves room for the answers that were taken.
LateFirst ==
    /\ \A i \in DOMAIN incoming : incoming[i].nr = 0 => i + Len(trail) <= late
    /\ \A k \in DOMAIN trail : trail[k] = 0 => k <= late

TrailBound == \A k \in DOMAIN trail : trail[k] < step

Owned == Distinct(late + 1) => \A k \in DOMAIN trail : trail[k] \in {0, k}

LineInv == SessionTypeOK /\ InLine /\ OfThisRun /\ TrailBound /\ LateFirst /\ Owned

-----------------------------------------------------------------------------
(* Sequences. *)

LEMMA TailOf == ASSUME NEW S, NEW s \in Seq(S), s # <<>>
                PROVE  /\ Tail(s) \in Seq(S) /\ Len(Tail(s)) = Len(s) - 1 /\ Len(s) \in Nat \ {0}
                       /\ Head(s) = s[1] /\ s[1] \in S /\ 1 \in DOMAIN s
                       /\ DOMAIN Tail(s) = 1 .. Len(s) - 1 /\ DOMAIN s = 1 .. Len(s)
                       /\ \A i \in DOMAIN Tail(s) : Tail(s)[i] = s[i + 1] /\ i + 1 \in DOMAIN s
  <1>1. Len(s) \in Nat /\ Len(s) # 0
    BY EmptySeq
  <1>2. Tail(s) \in Seq(S) /\ Len(Tail(s)) = Len(s) - 1
    BY HeadTailProperties
  <1> QED BY <1>1, <1>2

LEMMA AppendTo == ASSUME NEW S, NEW s \in Seq(S), NEW e \in S
                  PROVE  /\ Append(s, e) \in Seq(S) /\ Len(Append(s, e)) = Len(s) + 1 /\ Len(s) \in Nat
                         /\ DOMAIN Append(s, e) = 1 .. Len(s) + 1 /\ DOMAIN s = 1 .. Len(s)
                         /\ \A i \in DOMAIN s : Append(s, e)[i] = s[i]
                         /\ Append(s, e)[Len(s) + 1] = e
  OBVIOUS

\* Every script asks for things that have a name, and for ping first.
LEMMA Scripts == ASSUME NEW p \in {"probe", "inspect", "nv"}
                 PROVE  /\ Script[p] \in Seq(Names) /\ DOMAIN Script[p] = 1 .. Len(Script[p])
                        /\ Len(Script[p]) \in Nat /\ 1 \in DOMAIN Script[p]
                        /\ p = "nv" => /\ Len(Script[p]) = End + 6
                                       /\ Script[p][1] = "ping" /\ Script[p][2] = "version" /\ Script[p][3] = "info"
                                       /\ \A i \in 0 .. End : Script[p][i + 4] = "length"
                                       /\ Script[p][End + 5] = "info" /\ Script[p][End + 6] = "version"
  <1>1. End \in Nat BY ScanAssumption
  <1>2. Lengths \in Seq(Names) /\ Len(Lengths) = End + 1 /\ \A i \in 1 .. End + 1 : Lengths[i] = "length"
    BY <1>1 DEF Lengths, Names
  <1>3. DEFINE front == <<"ping", "version", "info">>
               back == <<"info", "version">>
               middle == front \o Lengths
  <1>4. front \in Seq(Names) /\ Len(front) = 3 /\ back \in Seq(Names) /\ Len(back) = 2
    BY DEF Names
  <1> HIDE DEF front, back
  <1>5. /\ middle \in Seq(Names) /\ Len(middle) = End + 4
        /\ \A i \in 1 .. 3 : middle[i] = front[i]
        /\ \A i \in 0 .. End : middle[i + 4] = Lengths[i + 1]
    <2>1. middle \in Seq(Names) /\ Len(middle) = Len(front) + Len(Lengths)
          /\ \A i \in 1 .. Len(front) + Len(Lengths) :
                middle[i] = IF i <= Len(front) THEN front[i] ELSE Lengths[i - Len(front)]
      BY <1>2, <1>4, ConcatProperties
    <2>2. \A i \in 0 .. End : i + 4 \in 1 .. Len(front) + Len(Lengths) /\ ~(i + 4 <= Len(front)) /\ (i + 4) - Len(front) = i + 1
      BY <1>1, <1>2, <1>4
    <2>3. \A i \in 0 .. End : middle[i + 4] = Lengths[i + 1]
      BY <2>1, <2>2
    <2>4. \A i \in 1 .. 3 : i \in 1 .. Len(front) + Len(Lengths) /\ i <= Len(front)
      BY <1>1, <1>2, <1>4
    <2>5. \A i \in 1 .. 3 : middle[i] = front[i]
      BY <2>1, <2>4
    <2>6. Len(middle) = End + 4
      BY <1>1, <1>2, <1>4, <2>1
    <2> QED BY <2>1, <2>3, <2>5, <2>6
  <1> HIDE DEF middle
  <1>6. /\ middle \o back \in Seq(Names) /\ Len(middle \o back) = End + 6
        /\ \A i \in 1 .. End + 4 : (middle \o back)[i] = middle[i]
        /\ (middle \o back)[End + 5] = back[1] /\ (middle \o back)[End + 6] = back[2]
    <2>1. middle \o back \in Seq(Names) /\ Len(middle \o back) = Len(middle) + Len(back)
          /\ \A i \in 1 .. Len(middle) + Len(back) :
                (middle \o back)[i] = IF i <= Len(middle) THEN middle[i] ELSE back[i - Len(middle)]
      BY <1>4, <1>5, ConcatProperties
    <2>2. Len(middle) + Len(back) = End + 6
      BY <1>1, <1>4, <1>5
    <2>3. \A i \in 1 .. End + 4 : i \in 1 .. Len(middle) + Len(back) /\ i <= Len(middle)
      BY <1>1, <1>5, <2>2
    <2>4. /\ End + 5 \in 1 .. Len(middle) + Len(back) /\ ~(End + 5 <= Len(middle)) /\ (End + 5) - Len(middle) = 1
          /\ End + 6 \in 1 .. Len(middle) + Len(back) /\ ~(End + 6 <= Len(middle)) /\ (End + 6) - Len(middle) = 2
      BY <1>1, <1>5, <2>2
    <2>5. \A i \in 1 .. End + 4 : (middle \o back)[i] = middle[i]
      BY <2>1, <2>3
    <2>6. (middle \o back)[End + 5] = back[1] /\ (middle \o back)[End + 6] = back[2]
      BY <2>1, <2>4
    <2> QED BY <2>1, <2>2, <2>5, <2>6
  <1>7. CASE p = "nv"
    <2>1. Script[p] = middle \o back
      BY <1>7 DEF Script, middle, front, back
    <2>2. front[1] = "ping" /\ front[2] = "version" /\ front[3] = "info" /\ back[1] = "info" /\ back[2] = "version"
      BY DEF front, back
    <2>3. Script[p] \in Seq(Names) /\ Len(Script[p]) = End + 6
      BY <1>6, <2>1
    <2>4. \A i \in 1 .. 3 : Script[p][i] = front[i]
      BY <1>1, <1>5, <1>6, <2>1
    <2>5. \A i \in 0 .. End : Script[p][i + 4] = "length"
      <3> SUFFICES ASSUME NEW i \in 0 .. End PROVE Script[p][i + 4] = "length"
        OBVIOUS
      <3>1. i + 4 \in 1 .. End + 4 /\ i + 1 \in 1 .. End + 1
        BY <1>1
      <3> QED BY <1>2, <1>5, <1>6, <2>1, <3>1
    <2>6. Script[p][End + 5] = "info" /\ Script[p][End + 6] = "version"
      BY <1>6, <2>1, <2>2
    <2>7. DOMAIN Script[p] = 1 .. End + 6 /\ End + 6 \in Nat /\ 1 \in 1 .. End + 6
      BY <1>1, <2>3
    <2> QED BY <2>2, <2>3, <2>4, <2>5, <2>6, <2>7
  <1>8. CASE p # "nv"
    <2>1. Script[p] = <<"ping", "version">>
      BY <1>8 DEF Script
    <2>2. <<"ping", "version">> \in Seq(Names) /\ Len(<<"ping", "version">>) = 2
      BY DEF Names
    <2> QED BY <1>8, <2>1, <2>2
  <1> QED BY <1>7, <1>8

LEMMA AskedIs == ASSUME SessionTypeOK
                 PROVE  Asked \in Seq(Names) /\ DOMAIN Asked = 1 .. Len(Asked) /\ Len(Asked) \in Nat
  BY Scripts DEF SessionTypeOK, Asked

-----------------------------------------------------------------------------
(* A tool takes its own answers. *)

LEMMA LineInitially == SessionInit => LineInv
  <1> SUFFICES ASSUME SessionInit PROVE LineInv
    OBVIOUS
  <1>0. PICK n \in 0 .. MaxLate : \E stale \in [1 .. n -> Stale] : Begins(stale)
    BY DEF SessionInit
  <1>1. PICK stale \in [1 .. n -> Stale] : Begins(stale)
    BY <1>0
  <1>2. n \in Nat /\ DOMAIN stale = 1 .. n /\ stale \in Seq(Stale) /\ Len(stale) = n
    BY <1>1, ScanAssumption
  <1>3. \A i \in 1 .. n : stale[i].cmd \in Names /\ stale[i].val \in Values
    BY <1>1 DEF Stale, Names, Values
  <1>4. \A i \in 1 .. n : [cmd |-> stale[i].cmd, val |-> stale[i].val, nr |-> 0] \in Messages
    BY <1>3 DEF Messages
  <1>5. incoming = [i \in 1 .. n |-> [cmd |-> stale[i].cmd, val |-> stale[i].val, nr |-> 0]] /\ late = n
    BY <1>1, <1>2 DEF Begins
  <1>6. incoming \in Seq(Messages) /\ DOMAIN incoming = 1 .. n /\ \A i \in DOMAIN incoming : incoming[i].nr = 0
    BY <1>2, <1>4, <1>5
  <1>7. program \in {"probe", "inspect", "nv"}
    BY ProgramsAssumption DEF SessionInit
  <1>8. 1 \in DOMAIN Asked
    BY <1>7, Scripts DEF Asked
  <1>9. /\ step = 1 /\ pending = FALSE /\ requests = <<>> /\ heard = <<>> /\ trail = <<>>
        /\ verdict = "none" /\ flashed = 0 /\ image \in Images /\ slots \in Tables /\ network \in {"idle", "network"}
    BY <1>1 DEF SessionInit, Begins
  <1>10. requests \in Seq(DOMAIN Asked) /\ heard \in Seq(Values) /\ trail \in Seq(Nat) /\ Len(heard) = 0 /\ Len(trail) = 0
         /\ DOMAIN requests = {} /\ DOMAIN trail = {}
    BY <1>9
  <1>11. SessionTypeOK
    <2>0. pending \in BOOLEAN
      BY <1>9
    <2>1. step \in Nat /\ Len(heard) = Len(trail) /\ step = Len(trail) + 1
      <3>1. Len(heard) = 0 /\ Len(trail) = 0
        BY <1>10
      <3>2. step = 1
        BY <1>9
      <3> QED BY <3>1, <3>2
    <2>2. late \in Nat /\ flashed \in Nat /\ verdict \in {"none", "refused", "reported"}
      BY <1>2, <1>5, <1>9
    <2>3. (verdict = "none" => step \in DOMAIN Asked) /\ (pending => verdict = "none")
      BY <1>8, <1>9
    <2> QED BY <1>6, <1>7, <1>9, <1>10, <2>0, <2>1, <2>2, <2>3 DEF SessionTypeOK
  <1>12. InLine
    BY <1>6, <1>10 DEF InLine
  <1>13. OfThisRun /\ TrailBound /\ LateFirst /\ Owned
    BY <1>2, <1>5, <1>6, <1>10 DEF OfThisRun, TrailBound, LateFirst, Owned
  <1> QED BY <1>11, <1>12, <1>13 DEF LineInv

\* A request is put behind everything.
LEMMA AskLine == ASSUME LineInv, Ask PROVE LineInv'
  <1>0. /\ verdict = "none" /\ ~pending /\ pending' = TRUE /\ requests' = Append(requests, step)
        /\ UNCHANGED <<program, step, heard, trail, verdict, incoming, image, slots, network, flashed, late>>
    BY DEF Ask
  <1>1. step \in DOMAIN Asked /\ requests \in Seq(DOMAIN Asked) /\ Asked' = Asked
    BY <1>0 DEF LineInv, SessionTypeOK, Asked
  <1>2. /\ requests' \in Seq(DOMAIN Asked) /\ DOMAIN requests = 1 .. Len(requests) /\ Len(requests) \in Nat
        /\ DOMAIN requests' = 1 .. Len(requests) + 1
        /\ \A i \in DOMAIN requests : requests'[i] = requests[i]
        /\ requests'[Len(requests) + 1] = step
    BY <1>0, <1>1, AppendTo
  <1>3. SessionTypeOK'
    BY <1>0, <1>1, <1>2 DEF LineInv, SessionTypeOK
  <1>4. \A j \in DOMAIN requests' : j \in DOMAIN requests \/ j = Len(requests) + 1
    BY <1>2
  <1>5. step \in Nat /\ Len(trail) \in Nat /\ step = Len(trail) + 1 /\ DOMAIN trail = 1 .. Len(trail)
    BY DEF LineInv, SessionTypeOK
  <1>6. \A i \in DOMAIN requests : requests[i] < step
    BY <1>0 DEF LineInv, OfThisRun
  <1>7. \A i \in DOMAIN incoming : incoming[i].nr < step
    <2>1. incoming \in Seq(Messages)
      BY DEF LineInv, SessionTypeOK
    <2> QED BY <1>0, <1>5, <2>1 DEF LineInv, OfThisRun
  <1>8. \A k \in DOMAIN trail : trail[k] < step
    BY <1>5 DEF LineInv, TrailBound
  <1>9. InLine'
    BY <1>0, <1>2, <1>4, <1>6, <1>7, <1>8 DEF LineInv, InLine
  <1>10. OfThisRun'
    BY <1>0, <1>1, <1>2, <1>4, <1>5 DEF LineInv, OfThisRun
  <1>11. TrailBound' /\ LateFirst' /\ Owned'
    BY <1>0, <1>1 DEF LineInv, TrailBound, LateFirst, Owned, Distinct
  <1> QED BY <1>3, <1>9, <1>10, <1>11 DEF LineInv

\* The first answer on the line is taken or skipped.
LEMMA ListenTyped == ASSUME LineInv, Listen
                     PROVE  /\ SessionTypeOK' /\ verdict = "none" /\ step \in DOMAIN Asked
                            /\ incoming # <<>> /\ incoming' = Tail(incoming)
                            /\ UNCHANGED <<program, requests, late, image, slots, flashed>>
                            /\ \/ UNCHANGED toolState
                               \/ /\ Head(incoming).cmd = Asked[step]
                                  /\ trail' = Append(trail, Head(incoming).nr)
                                  /\ heard' = Append(heard, Head(incoming).val)
                                  /\ step' = step + 1 /\ pending' = FALSE
                                  /\ verdict' = IF ~Acceptable(heard') THEN "refused"
                                                ELSE IF step = Len(Asked) THEN "reported" ELSE "none"
  <1>0. /\ pending /\ incoming # <<>> /\ incoming' = Tail(incoming)
        /\ UNCHANGED <<program, requests, late, image, slots, network, flashed>>
    BY DEF Listen
  <1>1. SessionTypeOK /\ verdict = "none" /\ step \in DOMAIN Asked /\ Asked' = Asked
    BY <1>0 DEF LineInv, SessionTypeOK, Asked
  <1>2. incoming \in Seq(Messages) /\ incoming' \in Seq(Messages) /\ Head(incoming) \in Messages
    BY <1>0, <1>1, TailOf DEF SessionTypeOK
  <1>3. CASE Head(incoming).cmd # Asked[step]
    BY <1>0, <1>1, <1>2, <1>3 DEF Listen, SessionTypeOK
  <1>4. CASE Head(incoming).cmd = Asked[step]
    <2>1. /\ trail' = Append(trail, Head(incoming).nr) /\ heard' = Append(heard, Head(incoming).val)
          /\ step' = step + 1 /\ pending' = FALSE
          /\ verdict' = IF ~Acceptable(heard') THEN "refused" ELSE IF step = Len(Asked) THEN "reported" ELSE "none"
      BY <1>0, <1>4 DEF Listen
    <2>2. Head(incoming).nr \in Nat /\ Head(incoming).val \in Values
      BY <1>2 DEF Messages
    <2>3. /\ trail' \in Seq(Nat) /\ Len(trail') = Len(trail) + 1
          /\ heard' \in Seq(Values) /\ Len(heard') = Len(heard) + 1
      BY <1>1, <2>1, <2>2, AppendTo DEF SessionTypeOK
    <2>4. verdict' = "none" => step' \in DOMAIN Asked
      BY <1>1, <2>1, AskedIs DEF SessionTypeOK
    <2>5. verdict' \in {"none", "refused", "reported"}
      BY <2>1
    <2>6. step' \in Nat /\ Len(heard') = Len(trail') /\ step' = Len(trail') + 1
      BY <1>1, <2>1, <2>3 DEF SessionTypeOK
    <2>7. SessionTypeOK'
      BY <1>0, <1>1, <1>2, <2>1, <2>3, <2>4, <2>5, <2>6 DEF SessionTypeOK
    <2> QED BY <1>0, <1>1, <1>4, <2>1, <2>7
  <1> QED BY <1>3, <1>4

\* An answer that is taken is nobody's, while late ones are still to come, or that of the command.
LEMMA Taken == ASSUME LineInv, pending, incoming # <<>>, Head(incoming).cmd = Asked[step]
               PROVE  LET nr == Head(incoming).nr IN
                      /\ nr \in Nat /\ nr <= step
                      /\ nr = 0 => step <= late
                      /\ Distinct(late + 1) => nr \in {0, step}
  <1>0. SessionTypeOK /\ verdict = "none" /\ step \in DOMAIN Asked
    BY DEF LineInv, SessionTypeOK
  <1>1. /\ incoming \in Seq(Messages) /\ 1 \in DOMAIN incoming /\ Head(incoming) = incoming[1] /\ incoming[1].nr \in Nat
    <2>1. incoming \in Seq(Messages)
      BY <1>0 DEF SessionTypeOK
    <2>2. 1 \in DOMAIN incoming /\ Head(incoming) = incoming[1] /\ incoming[1] \in Messages
      BY <2>1, TailOf
    <2> QED BY <2>1, <2>2 DEF Messages
  <1>2. /\ step \in Nat /\ step = Len(trail) + 1 /\ late \in Nat /\ Len(trail) \in Nat /\ trail \in Seq(Nat)
        /\ DOMAIN trail = 1 .. Len(trail)
    BY <1>0 DEF SessionTypeOK
  <1>3. incoming[1].nr <= step
    BY <1>1, <1>2 DEF LineInv, OfThisRun
  <1>4. incoming[1].nr = 0 => step <= late
    <2>1. incoming[1].nr = 0 => 1 + Len(trail) <= late
      BY <1>1 DEF LineInv, LateFirst
    <2> QED BY <1>2, <2>1
  <1>5. ASSUME Distinct(late + 1), incoming[1].nr # 0
        PROVE  incoming[1].nr = step
    <2>1. /\ incoming[1].nr \in DOMAIN Asked
          /\ Asked[incoming[1].nr] = Asked[step]
      BY <1>1, <1>5 DEF LineInv, OfThisRun
    <2>2. CASE step <= late + 1
      BY <1>0, <1>1, <1>2, <1>3, <1>5, <2>1, <2>2 DEF Distinct
    <2>3. CASE step > late + 1
      <3>1. Len(trail) \in DOMAIN trail /\ Len(trail) > late
        BY <1>2, <2>3
      <3>2. trail[Len(trail)] \in {0, Len(trail)}
        BY <1>5, <3>1 DEF LineInv, Owned
      <3>3. trail[Len(trail)] # 0
        BY <1>2, <3>1 DEF LineInv, LateFirst
      <3>4. trail[Len(trail)] < incoming[1].nr
        BY <1>1, <3>1, <3>3 DEF LineInv, InLine
      <3> QED BY <1>1, <1>2, <1>3, <3>1, <3>2, <3>3, <3>4
    <2> QED BY <1>2, <2>2, <2>3
  <1> QED BY <1>1, <1>3, <1>4, <1>5

LEMMA ListenLine == ASSUME LineInv, Listen PROVE LineInv'
  <1>0. SessionTypeOK' /\ SessionTypeOK /\ Asked' = Asked /\ DOMAIN Asked' = DOMAIN Asked
    BY ListenTyped DEF LineInv, Asked
  <1>1. /\ incoming # <<>> /\ incoming' = Tail(incoming) /\ incoming \in Seq(Messages)
        /\ UNCHANGED <<requests, late>> /\ pending
    BY ListenTyped DEF LineInv, SessionTypeOK, Listen
  <1>2. /\ Len(incoming) \in Nat \ {0} /\ Head(incoming) = incoming[1] /\ 1 \in DOMAIN incoming
        /\ DOMAIN incoming' = 1 .. Len(incoming) - 1 /\ DOMAIN incoming = 1 .. Len(incoming)
        /\ \A i \in DOMAIN incoming' : incoming'[i] = incoming[i + 1] /\ i + 1 \in DOMAIN incoming
    BY <1>1, TailOf
  <1>3. \A i, j \in DOMAIN incoming' : i < j => incoming'[i].nr = 0 \/ incoming'[i].nr < incoming'[j].nr
    <2> SUFFICES ASSUME NEW i \in DOMAIN incoming', NEW j \in DOMAIN incoming', i < j
                 PROVE  incoming'[i].nr = 0 \/ incoming'[i].nr < incoming'[j].nr
      OBVIOUS
    <2>1. i + 1 \in DOMAIN incoming /\ j + 1 \in DOMAIN incoming /\ i + 1 < j + 1
      BY <1>2
    <2> QED BY <1>2, <2>1 DEF LineInv, InLine
  <1>4. \A i \in DOMAIN incoming', j \in DOMAIN requests' : incoming'[i].nr < requests'[j]
    BY <1>1, <1>2 DEF LineInv, InLine
  <1>5. CASE UNCHANGED toolState
    <2>1. UNCHANGED <<trail, step, pending, verdict>>
      BY <1>5
    <2>2. InLine'
      BY <1>1, <1>2, <1>3, <1>4, <2>1 DEF LineInv, InLine
    <2>3. OfThisRun'
      BY <1>0, <1>1, <1>2, <2>1 DEF LineInv, OfThisRun
    <2>4. LateFirst'
      <3>1. Len(trail) \in Nat /\ late \in Nat
        BY <1>0 DEF SessionTypeOK
      <3>2. \A i \in DOMAIN incoming' : incoming'[i].nr = 0 => (i + 1) + Len(trail) <= late
        BY <1>2 DEF LineInv, LateFirst
      <3>3. \A i \in DOMAIN incoming' : incoming'[i].nr = 0 => i + Len(trail) <= late
        BY <1>2, <3>1, <3>2
      <3> QED BY <1>1, <2>1, <3>3 DEF LineInv, LateFirst
    <2>5. TrailBound' /\ Owned'
      BY <1>0, <1>1, <2>1 DEF LineInv, TrailBound, Owned, Distinct
    <2> QED BY <1>0, <2>2, <2>3, <2>4, <2>5 DEF LineInv
  <1>6. CASE ~UNCHANGED toolState
    <2> DEFINE taken == Head(incoming).nr
    <2>1. /\ Head(incoming).cmd = Asked[step] /\ trail' = Append(trail, taken) /\ step' = step + 1 /\ pending' = FALSE
      BY <1>6, ListenTyped
    <2>2. taken \in Nat /\ taken <= step /\ (taken = 0 => step <= late) /\ (Distinct(late + 1) => taken \in {0, step})
      BY <1>1, <2>1, Taken
    <2> HIDE DEF taken
    <2>3. trail \in Seq(Nat) /\ step \in Nat /\ step = Len(trail) + 1 /\ late \in Nat /\ Len(trail) \in Nat
      BY <1>0 DEF SessionTypeOK
    <2>4. /\ DOMAIN trail = 1 .. Len(trail) /\ DOMAIN trail' = 1 .. step /\ Len(trail') = step
          /\ \A k \in DOMAIN trail : trail'[k] = trail[k]
          /\ trail'[step] = taken
      BY <2>1, <2>2, <2>3, AppendTo
    <2>5. \A k \in DOMAIN trail' : k \in DOMAIN trail \/ k = step
      BY <2>3, <2>4
    <2>6. InLine'
      <3>1. \A i \in DOMAIN incoming' : taken = 0 \/ taken < incoming'[i].nr
        <4> SUFFICES ASSUME NEW i \in DOMAIN incoming' PROVE taken = 0 \/ taken < incoming[i + 1].nr
          BY <1>2
        <4>1. i + 1 \in DOMAIN incoming /\ 1 < i + 1
          BY <1>2
        <4> QED BY <1>2, <4>1 DEF LineInv, InLine, taken
      <3>2. \A j \in DOMAIN requests' : taken < requests'[j]
        BY <1>1, <1>2 DEF LineInv, InLine, taken
      <3>3. \A k \in DOMAIN trail : /\ \A i \in DOMAIN incoming' : trail[k] = 0 \/ trail[k] < incoming'[i].nr
                                    /\ \A j \in DOMAIN requests' : trail[k] < requests'[j]
        BY <1>1, <1>2 DEF LineInv, InLine
      <3>4. \A k \in DOMAIN trail' : /\ \A i \in DOMAIN incoming' : trail'[k] = 0 \/ trail'[k] < incoming'[i].nr
                                     /\ \A j \in DOMAIN requests' : trail'[k] < requests'[j]
        BY <2>4, <2>5, <3>1, <3>2, <3>3
      <3>5. \A i, j \in DOMAIN requests' : i < j => requests'[i] < requests'[j]
        BY <1>1 DEF LineInv, InLine
      <3> QED BY <1>3, <1>4, <3>4, <3>5 DEF InLine
    <2>7. OfThisRun'
      <3>1. requests \in Seq(DOMAIN Asked) /\ DOMAIN Asked = 1 .. Len(Asked) /\ Len(Asked) \in Nat
        BY <1>0, AskedIs DEF SessionTypeOK
      <3>2. \A j \in DOMAIN requests : requests[j] \in Nat /\ requests[j] <= step
        BY <3>1 DEF LineInv, OfThisRun
      <3>3. \A j \in DOMAIN requests' : requests'[j] < step'
        BY <1>1, <2>1, <2>3, <3>2
      <3>4. \A i \in DOMAIN incoming' : incoming'[i].nr # 0 =>
               /\ incoming'[i].nr \in DOMAIN Asked /\ incoming'[i].cmd = Asked[incoming'[i].nr]
               /\ incoming'[i].nr <= step
        BY <1>2 DEF LineInv, OfThisRun
      <3>5. \A i \in DOMAIN incoming' : incoming'[i].nr # 0 => incoming'[i].nr < step'
        BY <2>1, <2>3, <3>1, <3>4
      <3>6. \A i \in DOMAIN incoming' : incoming'[i].nr # 0 => incoming'[i].nr <= step'
        BY <2>1, <2>3, <3>1, <3>4
      <3>7. \A j \in DOMAIN requests' : requests'[j] <= step'
        BY <1>1, <2>1, <2>3, <3>2
      <3> QED BY <1>0, <3>3, <3>4, <3>5, <3>6, <3>7 DEF OfThisRun
    <2>8. TrailBound'
      <3>1. \A k \in DOMAIN trail : trail[k] \in Nat /\ trail[k] < step
        BY <2>3 DEF LineInv, TrailBound
      <3> QED BY <2>1, <2>2, <2>3, <2>4, <2>5, <3>1 DEF TrailBound
    <2>9. LateFirst'
      <3>1. \A i \in DOMAIN incoming' : incoming'[i].nr = 0 => (i + 1) + Len(trail) <= late
        BY <1>2 DEF LineInv, LateFirst
      <3>2. \A i \in DOMAIN incoming' : incoming'[i].nr = 0 => i + Len(trail') <= late'
        BY <1>1, <1>2, <2>3, <2>4, <3>1
      <3>3. \A k \in DOMAIN trail' : trail'[k] = 0 => k <= late'
        BY <1>1, <2>2, <2>4, <2>5 DEF LineInv, LateFirst
      <3> QED BY <3>2, <3>3 DEF LateFirst
    <2>10. Owned'
      <3>1. Distinct(late + 1)' <=> Distinct(late + 1)
        BY <1>0, <1>1 DEF Distinct
      <3> QED BY <2>2, <2>4, <2>5, <3>1 DEF LineInv, Owned
    <2> QED BY <1>0, <2>6, <2>7, <2>8, <2>9, <2>10 DEF LineInv
  <1> QED BY <1>5, <1>6

\* The first request is answered, behind everything that is on its way, or lost.
LEMMA ServesLine == ASSUME LineInv, Serves PROVE LineInv'
  <1>0. /\ SessionTypeOK /\ Asked' = Asked /\ requests # <<>> /\ requests' = Tail(requests)
        /\ UNCHANGED <<program, step, pending, heard, trail, verdict, image, slots, network, late, flashed>>
    BY DEF LineInv, Serves, Asked
  <1>1. /\ requests \in Seq(DOMAIN Asked) /\ incoming \in Seq(Messages) /\ Asked \in Seq(Names)
        /\ DOMAIN Asked = 1 .. Len(Asked) /\ Len(Asked) \in Nat /\ Len(trail) \in Nat /\ late \in Nat /\ step \in Nat
        /\ trail \in Seq(Nat) /\ DOMAIN trail = 1 .. Len(trail)
    BY <1>0, AskedIs DEF SessionTypeOK
  <1>2. /\ requests' \in Seq(DOMAIN Asked) /\ Len(requests) \in Nat \ {0}
        /\ Head(requests) = requests[1] /\ 1 \in DOMAIN requests /\ requests[1] \in DOMAIN Asked
        /\ DOMAIN requests' = 1 .. Len(requests) - 1 /\ DOMAIN requests = 1 .. Len(requests)
        /\ \A i \in DOMAIN requests' : requests'[i] = requests[i + 1] /\ i + 1 \in DOMAIN requests
    BY <1>0, <1>1, TailOf
  <1>3. \A j \in DOMAIN requests' : requests[1] < requests'[j]
    <2> SUFFICES ASSUME NEW j \in DOMAIN requests' PROVE requests[1] < requests[j + 1]
      BY <1>2
    <2>1. j + 1 \in DOMAIN requests /\ 1 < j + 1
      BY <1>2
    <2> QED BY <1>2, <2>1 DEF LineInv, InLine
  <1>4. \A i, j \in DOMAIN requests' : i < j => requests'[i] < requests'[j]
    <2> SUFFICES ASSUME NEW i \in DOMAIN requests', NEW j \in DOMAIN requests', i < j
                 PROVE  requests[i + 1] < requests[j + 1]
      BY <1>2
    <2>1. i + 1 \in DOMAIN requests /\ j + 1 \in DOMAIN requests /\ i + 1 < j + 1
      BY <1>2
    <2> QED BY <2>1 DEF LineInv, InLine
  <1>5. /\ \A i \in DOMAIN incoming, j \in DOMAIN requests' : incoming[i].nr < requests'[j]
        /\ \A k \in DOMAIN trail, j \in DOMAIN requests' : trail[k] < requests'[j]
    BY <1>2 DEF LineInv, InLine
  <1>6. /\ \A j \in DOMAIN requests' : requests'[j] <= step
        /\ \A j \in DOMAIN requests' : verdict = "none" /\ ~pending => requests'[j] < step
    BY <1>2 DEF LineInv, OfThisRun
  <1>7. CASE UNCHANGED incoming
    <2>1. SessionTypeOK'
      BY <1>0, <1>1, <1>2, <1>7 DEF SessionTypeOK
    <2>2. InLine'
      BY <1>0, <1>4, <1>5, <1>7 DEF LineInv, InLine
    <2>3. OfThisRun'
      BY <1>0, <1>6, <1>7 DEF LineInv, OfThisRun
    <2>4. TrailBound' /\ LateFirst' /\ Owned'
      BY <1>0, <1>7 DEF LineInv, TrailBound, LateFirst, Owned, Distinct
    <2> QED BY <2>1, <2>2, <2>3, <2>4 DEF LineInv
  <1>8. CASE ~UNCHANGED incoming
    <2> DEFINE k == requests[1]
               reply == [cmd |-> Asked[k], val |-> Says(k), nr |-> k]
    <2>1. incoming' = Append(incoming, reply)
      BY <1>0, <1>2, <1>8 DEF Serves
    <2>2. k \in DOMAIN Asked /\ k \in Nat /\ k # 0 /\ Asked[k] \in Names
      BY <1>1, <1>2
    <2>3. Says(k) \in Values
      <3>1. CASE Asked[k] = "length"
        <4>1. program = "nv" /\ k \in 4 .. End + 4
          <5>1. program \in {"probe", "inspect", "nv"} /\ End \in Nat
            BY <1>0, ScanAssumption DEF SessionTypeOK
          <5>2. program = "nv"
            <6> SUFFICES ASSUME program # "nv" PROVE FALSE
              OBVIOUS
            <6>1. Asked = <<"ping", "version">>
              BY <5>1 DEF Asked, Script
            <6>2. k = 1 \/ k = 2
              BY <1>2, <6>1
            <6> QED BY <3>1, <6>1, <6>2
          <5>3. /\ DOMAIN Asked = 1 .. Len(Asked) /\ Len(Asked) = End + 6 /\ Asked[1] = "ping" /\ Asked[2] = "version"
                /\ Asked[3] = "info" /\ Asked[End + 5] = "info" /\ Asked[End + 6] = "version"
            BY <5>2, Scripts DEF Asked
          <5>4. k # 1 /\ k # 2 /\ k # 3 /\ k # End + 5 /\ k # End + 6
            BY <3>1, <5>3
          <5> QED BY <2>2, <5>1, <5>2, <5>3, <5>4
        <4>2. k - 4 \in 0 .. End
          BY <2>2, <4>1, ScanAssumption
        <4>3. slots[image] \in [0 .. End -> {"present", "absent", "odd"}]
          BY <1>0, ScanAssumption DEF SessionTypeOK
        <4>4. slots[image][k - 4] \in {"present", "absent", "odd"}
          BY <4>2, <4>3
        <4>5. Says(k) = slots[image][k - 4]
          BY <3>1 DEF Says
        <4> QED BY <4>4, <4>5 DEF Values
      <3>2. CASE Asked[k] # "length"
        BY <1>0, <2>2, <3>2 DEF Says, Values, Names, SessionTypeOK
      <3> QED BY <3>1, <3>2
    <2>4. reply \in Messages
      BY <2>2, <2>3 DEF Messages
    <2>5. reply.nr = k /\ reply.cmd = Asked[k]
      OBVIOUS
    <2> HIDE DEF reply
    <2>6. /\ incoming' \in Seq(Messages) /\ Len(incoming) \in Nat /\ DOMAIN incoming = 1 .. Len(incoming)
          /\ DOMAIN incoming' = 1 .. Len(incoming) + 1
          /\ \A i \in DOMAIN incoming : incoming'[i] = incoming[i] /\ incoming'[i].nr \in Nat
          /\ incoming'[Len(incoming) + 1] = reply
      <3>1. /\ incoming' \in Seq(Messages) /\ Len(incoming) \in Nat /\ DOMAIN incoming = 1 .. Len(incoming)
            /\ DOMAIN incoming' = 1 .. Len(incoming) + 1
            /\ \A i \in DOMAIN incoming : incoming'[i] = incoming[i]
            /\ incoming'[Len(incoming) + 1] = reply
        BY <1>1, <2>1, <2>4, AppendTo
      <3>2. \A i \in DOMAIN incoming : incoming[i] \in Messages
        BY <1>1
      <3> QED BY <3>1, <3>2 DEF Messages
    <2>7. \A i \in DOMAIN incoming' : i \in DOMAIN incoming \/ i = Len(incoming) + 1
      BY <2>6
    <2>8. SessionTypeOK'
      BY <1>0, <1>1, <1>2, <2>6 DEF SessionTypeOK
    <2>9. InLine'
      <3>1. \A i \in DOMAIN incoming : incoming[i].nr < k
        BY <1>2 DEF LineInv, InLine
      <3>2. \A i, j \in DOMAIN incoming' : i < j => incoming'[i].nr = 0 \/ incoming'[i].nr < incoming'[j].nr
        BY <2>5, <2>6, <2>7, <3>1 DEF LineInv, InLine
      <3>3. \A i \in DOMAIN incoming', j \in DOMAIN requests' : incoming'[i].nr < requests'[j]
        BY <1>3, <1>5, <2>5, <2>6, <2>7
      <3>4. \A t \in DOMAIN trail : trail[t] < k
        BY <1>2 DEF LineInv, InLine
      <3>5. \A t \in DOMAIN trail, i \in DOMAIN incoming' : trail[t] = 0 \/ trail[t] < incoming'[i].nr
        BY <2>5, <2>6, <2>7, <3>4 DEF LineInv, InLine
      <3> QED BY <1>0, <1>4, <1>5, <3>2, <3>3, <3>5 DEF InLine
    <2>10. OfThisRun'
      <3>1. k <= step /\ (verdict = "none" /\ ~pending => k < step)
        BY <1>2 DEF LineInv, OfThisRun
      <3>2. \A i \in DOMAIN incoming' : incoming'[i].nr # 0 =>
               /\ incoming'[i].nr \in DOMAIN Asked /\ incoming'[i].cmd = Asked[incoming'[i].nr]
               /\ incoming'[i].nr <= step /\ (verdict = "none" /\ ~pending => incoming'[i].nr < step)
        BY <2>2, <2>5, <2>6, <2>7, <3>1 DEF LineInv, OfThisRun
      <3> QED BY <1>0, <1>6, <3>2 DEF OfThisRun
    <2>11. LateFirst'
      <3>1. \A i \in DOMAIN incoming' : incoming'[i].nr = 0 => i \in DOMAIN incoming /\ incoming[i].nr = 0
        BY <2>2, <2>5, <2>6, <2>7
      <3> QED BY <1>0, <3>1 DEF LineInv, LateFirst
    <2>12. TrailBound' /\ Owned'
      BY <1>0 DEF LineInv, TrailBound, Owned, Distinct
    <2> QED BY <2>8, <2>9, <2>10, <2>11, <2>12 DEF LineInv
  <1> QED BY <1>7, <1>8

\* What a tool that gives up, people, or nobody does leaves the line as it is, or clears it.
LEMMA OtherLine == ASSUME LineInv, GivesUp \/ Flashed \/ Commissioned \/ UNCHANGED sessionVars PROVE LineInv'
  <1>1. /\ UNCHANGED <<program, step, heard, trail, incoming, late>> /\ Asked' = Asked
        /\ requests' = requests \/ requests' = <<>>
    BY DEF GivesUp, Flashed, Commissioned, sessionVars, Asked
  <1>2. \/ UNCHANGED <<pending, verdict>>
        \/ pending' = FALSE /\ verdict' = "refused"
    BY DEF GivesUp, Flashed, Commissioned, sessionVars
  <1>3. image' \in Images /\ slots' \in Tables /\ network' \in {"idle", "network"} /\ flashed' \in Nat
    BY DEF LineInv, SessionTypeOK, GivesUp, Flashed, Commissioned, sessionVars
  <1>4. /\ requests' \in Seq(DOMAIN Asked)
        /\ \A j \in DOMAIN requests' : j \in DOMAIN requests /\ requests'[j] = requests[j]
    <2>1. requests \in Seq(DOMAIN Asked)
      BY DEF LineInv, SessionTypeOK
    <2>2. <<>> \in Seq(DOMAIN Asked) /\ DOMAIN <<>> = {}
      OBVIOUS
    <2> QED BY <1>1, <2>1, <2>2
  <1>5. SessionTypeOK'
    <2>1. /\ SessionTypeOK /\ pending' \in BOOLEAN /\ verdict' \in {"none", "refused", "reported"}
          /\ (verdict' = "none" => verdict = "none") /\ (pending' => verdict' = "none")
      <3>1. SessionTypeOK
        BY DEF LineInv
      <3>2. pending \in BOOLEAN /\ verdict \in {"none", "refused", "reported"} /\ (pending => verdict = "none")
        BY <3>1 DEF SessionTypeOK
      <3>3. CASE pending' = pending /\ verdict' = verdict
        BY <3>1, <3>2, <3>3
      <3>4. CASE pending' = FALSE /\ verdict' = "refused"
        BY <3>1, <3>4
      <3> QED BY <1>2, <3>3, <3>4
    <2>2. requests' \in Seq(DOMAIN Asked')
      BY <1>1, <1>4
    <2>3. verdict' = "none" => step \in DOMAIN Asked
      BY <2>1 DEF SessionTypeOK
    <2>4. /\ program \in {"probe", "inspect", "nv"} /\ step \in Nat /\ incoming \in Seq(Messages)
          /\ heard \in Seq(Values) /\ trail \in Seq(Nat) /\ Len(heard) = Len(trail) /\ step = Len(trail) + 1 /\ late \in Nat
      BY <2>1 DEF SessionTypeOK
    <2> QED BY <1>1, <1>3, <2>1, <2>2, <2>3, <2>4 DEF SessionTypeOK
  <1>6. InLine'
    BY <1>1, <1>4 DEF LineInv, InLine
  <1>7. OfThisRun'
    BY <1>1, <1>2, <1>4 DEF LineInv, OfThisRun
  <1>8. TrailBound' /\ LateFirst' /\ Owned'
    BY <1>1 DEF LineInv, TrailBound, LateFirst, Owned, Distinct
  <1> QED BY <1>5, <1>6, <1>7, <1>8 DEF LineInv

LEMMA LineStep == ASSUME LineInv, [SessionNext]_sessionVars PROVE LineInv'
  BY AskLine, ListenLine, ServesLine, OtherLine DEF SessionNext

\* The line keeps its order, and leaves no room for a late answer behind the late ones.
THEOREM LineInductive == SessionSpec => []LineInv
  BY LineInitially, LineStep, PTL DEF SessionSpec

\* Tools that neither number their requests nor empty the line before they begin take, once there
\* have been more commands than late answers, their own answers only.
THEOREM TakesOwn == SessionSpec => []OwnAnswers
  <1>1. LineInv => OwnAnswers
    <2> SUFFICES ASSUME LineInv, Distinct(late + 1), NEW k \in DOMAIN trail, k > late
                 PROVE  trail[k] = k
      BY DEF OwnAnswers
    <2>1. trail[k] \in {0, k}
      BY DEF LineInv, Owned
    <2>2. k \in Nat /\ late \in Nat
      BY DEF LineInv, SessionTypeOK
    <2>3. trail[k] = 0 => k <= late
      BY DEF LineInv, LateFirst
    <2> QED BY <2>1, <2>2, <2>3
  <1> QED BY <1>1, LineInductive, PTL

-----------------------------------------------------------------------------
(* The number of slots that is reported is true. *)

\* What the radio says of its firmware when that is i.
Said(i, k) == IF Asked[k] = "version" THEN i ELSE slots[i][k - 4]

Told == {k \in DOMAIN Asked : Asked[k] \in {"version", "length"}}

\* Answers to the commands before cut are those of the firmware at the start, the others of
\* the firmware now.
Split(first, cut) ==
    LET From(k) == IF k < cut THEN first ELSE image IN
    /\ flashed = 0 => first = image
    /\ flashed # 0 => first # image
    /\ cut <= step + 1 /\ (verdict = "none" /\ ~pending => cut <= step)
    /\ \A j \in DOMAIN requests : requests[j] >= cut
    /\ \A i \in DOMAIN incoming : incoming[i].nr \in Told => incoming[i].val = Said(From(incoming[i].nr), incoming[i].nr)
    /\ \A k \in DOMAIN trail : trail[k] \in Told /\ trail[k] = k => heard[k] = Said(From(k), k)

OneChange == flashed <= 1 => \E first \in Images, cut \in Nat : Split(first, cut)

\* What the tool has not refused was as it wants it.
Checked == program = "nv" /\ verdict # "refused" =>
              /\ Len(heard) >= End + 4 => \A lengths : lengths = Scan(heard) => Contiguous(lengths)
              /\ Len(heard) = End + 6 => heard[End + 6] = heard[2]
              /\ verdict = "reported" => Len(heard) = End + 6

LEMMA SplitInitially == SessionInit => OneChange /\ Checked
  <1> SUFFICES ASSUME SessionInit PROVE OneChange /\ Checked
    OBVIOUS
  <1>1. LineInv
    BY LineInitially
  <1>2. /\ step = 1 /\ requests = <<>> /\ heard = <<>> /\ trail = <<>> /\ flashed = 0
        /\ verdict = "none" /\ \A i \in DOMAIN incoming : incoming[i].nr = 0
    BY DEF SessionInit, Begins
  <1>3. 0 \notin Told
    BY <1>1, AskedIs DEF LineInv, Told
  <1>4. Split(image, 0)
    BY <1>2, <1>3 DEF Split
  <1>5. OneChange
    BY <1>1, <1>4 DEF OneChange, LineInv, SessionTypeOK
  <1>6. Len(heard) = 0 /\ End \in Nat
    BY <1>2, ScanAssumption
  <1> QED BY <1>2, <1>5, <1>6 DEF Checked

\* Ask, Serves, GivesUp, Commissioned: the firmware stays, and so do the answers that were taken.
LEMMA SplitKept == ASSUME LineInv, LineInv', OneChange, Ask \/ Serves \/ GivesUp \/ Commissioned \/ UNCHANGED sessionVars
                   PROVE  OneChange'
  <1>0. /\ UNCHANGED <<program, step, heard, trail, image, slots, flashed>> /\ Asked' = Asked /\ Told' = Told
        /\ \A i, k : Said(i, k)' = Said(i, k)
    BY DEF Ask, Serves, GivesUp, Commissioned, sessionVars, Asked, Told, Said
  <1> SUFFICES ASSUME flashed <= 1 PROVE OneChange'
    BY <1>0 DEF OneChange
  <1>1. PICK first \in Images, cut \in Nat : Split(first, cut)
    BY DEF OneChange
  <1>2. step \in Nat /\ requests \in Seq(DOMAIN Asked) /\ incoming \in Seq(Messages) /\ DOMAIN Asked = 1 .. Len(Asked)
        /\ Len(Asked) \in Nat /\ Asked \in Seq(Names)
    BY AskedIs DEF LineInv, SessionTypeOK
  <1>3. cut <= step' + 1 /\ (verdict' = "none" /\ ~pending' => cut <= step')
    BY <1>0, <1>1 DEF Split, Ask, Serves, GivesUp, Commissioned, sessionVars
  <1>4. \A j \in DOMAIN requests' : requests'[j] >= cut
    <2>1. CASE Ask
      <3>1. requests' = Append(requests, step) /\ step \in DOMAIN Asked /\ cut <= step
        BY <1>1, <2>1 DEF Ask, Split, LineInv, SessionTypeOK
      <3> QED BY <1>1, <1>2, <3>1, AppendTo DEF Split
    <2>2. CASE Serves
      <3>1. requests # <<>> /\ requests' = Tail(requests)
        BY <2>2 DEF Serves
      <3> QED BY <1>1, <1>2, <3>1, TailOf DEF Split
    <2>3. CASE GivesUp \/ Commissioned \/ UNCHANGED sessionVars
      BY <1>1, <2>3 DEF GivesUp, Commissioned, sessionVars, Split
    <2> QED BY <2>1, <2>2, <2>3
  <1> DEFINE From(k) == IF k < cut THEN first ELSE image
             Fits(message) == message.nr \in Told => message.val = Said(From(message.nr), message.nr)
  <1>5. \A i \in DOMAIN incoming : Fits(incoming[i])
    BY <1>1 DEF Split
  <1>6. \A i \in DOMAIN incoming' : Fits(incoming'[i])
    <2>1. CASE Serves /\ ~UNCHANGED incoming
      <3> DEFINE k == Head(requests)
                 reply == [cmd |-> Asked[k], val |-> Says(k), nr |-> k]
      <3>1. incoming' = Append(incoming, reply) /\ requests # <<>>
        BY <2>1 DEF Serves
      <3>2. k \in DOMAIN Asked /\ k \in Nat /\ k >= cut
        BY <1>1, <1>2, <3>1, TailOf DEF Split
      <3>3. k \in Told => Says(k) = Said(image, k)
        BY DEF Told, Says, Said
      <3>4. Fits(reply)
        BY <3>2, <3>3
      <3>5. \A i \in DOMAIN incoming' : incoming'[i] = reply \/ (i \in DOMAIN incoming /\ incoming'[i] = incoming[i])
        BY <1>2, <3>1
      <3> HIDE DEF Fits, reply
      <3> QED BY <1>5, <3>4, <3>5
    <2>2. CASE UNCHANGED incoming
      BY <1>5, <2>2
    <2>3. UNCHANGED incoming \/ Serves
      BY DEF Ask, GivesUp, Commissioned, sessionVars
    <2> QED BY <2>1, <2>2, <2>3
  <1>7. Split(first, cut)'
    BY <1>0, <1>1, <1>3, <1>4, <1>6 DEF Split
  <1> QED BY <1>1, <1>7 DEF OneChange

\* The first change of the firmware: all that has been answered is from before it.
LEMMA SplitFlashed == ASSUME LineInv, OneChange, Flashed PROVE OneChange'
  <1>0. /\ UNCHANGED <<program, step, pending, verdict, heard, trail, incoming, slots>> /\ Asked' = Asked /\ Told' = Told
        /\ \A i, k : Said(i, k)' = Said(i, k)
        /\ requests' = <<>> /\ flashed' = flashed + 1 /\ image' \in Images \ {image}
    BY DEF Flashed, Asked, Told, Said
  <1>1. SessionTypeOK /\ step \in Nat /\ flashed \in Nat /\ image \in Images /\ incoming \in Seq(Messages)
    BY DEF LineInv, SessionTypeOK
  <1> SUFFICES ASSUME flashed = 0 PROVE OneChange'
    BY <1>0, <1>1 DEF OneChange
  <1>2. PICK first \in Images, before \in Nat : Split(first, before)
    BY DEF OneChange
  <1>3. first = image
    BY <1>2 DEF Split
  <1>4. PICK cut \in Nat : cut = IF verdict = "none" /\ ~pending THEN step ELSE step + 1
    BY <1>1
  <1>5. \A i \in DOMAIN incoming : incoming[i].nr \in Told => incoming[i].nr < cut
    <2>1. \A i \in DOMAIN incoming : incoming[i].nr \in Nat
      <3>1. \A i \in DOMAIN incoming : incoming[i] \in Messages
        BY <1>1
      <3> QED BY <3>1 DEF Messages
    <2>2. 0 \notin Told
      BY <1>1, AskedIs DEF Told
    <2> QED BY <1>1, <1>4, <2>1, <2>2 DEF LineInv, OfThisRun
  <1>6. \A k \in DOMAIN trail : trail[k] = k => k < cut
    <2>1. \A k \in DOMAIN trail : k \in Nat /\ trail[k] < step
      BY <1>1 DEF LineInv, TrailBound, SessionTypeOK
    <2> QED BY <1>1, <1>4, <2>1
  <1>7. \A i \in DOMAIN incoming : incoming[i].nr \in Told => incoming[i].val = Said(first, incoming[i].nr)
    BY <1>2, <1>3 DEF Split
  <1>8. \A k \in DOMAIN trail : trail[k] \in Told /\ trail[k] = k => heard[k] = Said(first, k)
    BY <1>2, <1>3 DEF Split
  <1>9. DOMAIN requests' = {}
    BY <1>0
  <1>10. Split(first, cut)'
    BY <1>0, <1>1, <1>3, <1>4, <1>5, <1>6, <1>7, <1>8, <1>9 DEF Split
  <1> QED BY <1>10 DEF OneChange

LEMMA SplitListen == ASSUME LineInv, LineInv', OneChange, Listen PROVE OneChange'
  <1>0. /\ UNCHANGED <<program, requests, slots, image, flashed>> /\ Asked' = Asked /\ Told' = Told
        /\ \A i, k : Said(i, k)' = Said(i, k)
        /\ incoming # <<>> /\ incoming' = Tail(incoming) /\ pending
    BY ListenTyped DEF Asked, Told, Said, Listen
  <1>1. /\ SessionTypeOK /\ step \in Nat /\ incoming \in Seq(Messages) /\ heard \in Seq(Values) /\ trail \in Seq(Nat)
        /\ Len(heard) = Len(trail) /\ step = Len(trail) + 1 /\ Len(trail) \in Nat /\ DOMAIN trail = 1 .. Len(trail)
    BY DEF LineInv, SessionTypeOK
  <1> SUFFICES ASSUME flashed <= 1 PROVE OneChange'
    BY <1>0 DEF OneChange
  <1>2. PICK first \in Images, cut \in Nat : Split(first, cut)
    BY DEF OneChange
  <1> DEFINE From(k) == IF k < cut THEN first ELSE image
  <1>3. /\ Head(incoming) = incoming[1] /\ 1 \in DOMAIN incoming /\ Head(incoming) \in Messages
        /\ \A i \in DOMAIN incoming' : incoming'[i] = incoming[i + 1] /\ i + 1 \in DOMAIN incoming
    BY <1>0, <1>1, TailOf
  <1>4. \A i \in DOMAIN incoming' : incoming'[i].nr \in Told => incoming'[i].val = Said(From(incoming'[i].nr), incoming'[i].nr)
    BY <1>2, <1>3 DEF Split
  <1>5. CASE UNCHANGED toolState
    <2>1. Split(first, cut)'
      BY <1>0, <1>2, <1>4, <1>5 DEF Split
    <2> QED BY <1>2, <2>1 DEF OneChange
  <1>6. CASE ~UNCHANGED toolState
    <2>1. /\ trail' = Append(trail, Head(incoming).nr) /\ heard' = Append(heard, Head(incoming).val)
          /\ step' = step + 1
      BY <1>6, ListenTyped
    <2>2. Head(incoming).nr \in Nat /\ Head(incoming).val \in Values
      BY <1>3 DEF Messages
    <2>3. /\ DOMAIN trail' = 1 .. Len(trail) + 1
          /\ \A k \in DOMAIN trail : trail'[k] = trail[k] /\ heard'[k] = heard[k]
          /\ trail'[Len(trail) + 1] = Head(incoming).nr /\ heard'[Len(trail) + 1] = Head(incoming).val
      <3>1. /\ DOMAIN trail' = 1 .. Len(trail) + 1 /\ \A k \in DOMAIN trail : trail'[k] = trail[k]
            /\ trail'[Len(trail) + 1] = Head(incoming).nr
        BY <1>1, <2>1, <2>2, AppendTo
      <3>2. /\ \A k \in DOMAIN heard : heard'[k] = heard[k] /\ heard'[Len(heard) + 1] = Head(incoming).val
            /\ DOMAIN heard = 1 .. Len(heard)
        BY <1>1, <2>1, <2>2, AppendTo
      <3>3. heard'[Len(heard) + 1] = Head(incoming).val
        BY <1>1, <2>1, <2>2, AppendTo
      <3> QED BY <1>1, <3>1, <3>2, <3>3
    <2>4. \A k \in DOMAIN trail' : k \in DOMAIN trail \/ k = Len(trail) + 1
      BY <1>1, <2>3
    <2>5. \A k \in DOMAIN trail' : trail'[k] \in Told /\ trail'[k] = k => heard'[k] = Said(From(k), k)
      <3>1. Head(incoming).nr \in Told => Head(incoming).val = Said(From(Head(incoming).nr), Head(incoming).nr)
        BY <1>2, <1>3 DEF Split
      <3>2. \A k \in DOMAIN trail : trail[k] \in Told /\ trail[k] = k => heard[k] = Said(From(k), k)
        BY <1>2 DEF Split
      <3> HIDE DEF From
      <3> QED BY <2>3, <2>4, <3>1, <3>2
    <2>6. cut <= step + 1
      BY <1>2 DEF Split
    <2>7. cut <= step' + 1 /\ cut <= step'
      BY <1>1, <2>1, <2>6
    <2>8. Split(first, cut)'
      BY <1>0, <1>2, <1>4, <2>5, <2>7 DEF Split
    <2> QED BY <1>2, <2>8 DEF OneChange
  <1> QED BY <1>5, <1>6

\* Later answers leave the scan that was checked as it is.
LEMMA CheckedKept == ASSUME LineInv, LineInv', Checked, [SessionNext]_sessionVars PROVE Checked'
  <1>0. program' = program /\ Asked' = Asked /\ SessionTypeOK /\ End \in Nat
    BY ScanAssumption DEF LineInv, SessionNext, Ask, Listen, GivesUp, Serves, Flashed, Commissioned, sessionVars, Asked
  <1> SUFFICES ASSUME program = "nv", verdict' # "refused" PROVE Checked'
    BY <1>0 DEF Checked
  <1>1. heard \in Seq(Values) /\ step = Len(heard) + 1 /\ Len(heard) \in Nat /\ (verdict = "none" => step \in DOMAIN Asked)
    BY <1>0 DEF SessionTypeOK
  <1>2. /\ Len(Asked) = End + 6 /\ DOMAIN Asked = 1 .. End + 6
    BY <1>0, Scripts DEF Asked
  <1>3. CASE UNCHANGED <<heard, verdict>>
    BY <1>0, <1>3 DEF Checked, Scan
  <1>4. CASE Listen /\ ~UNCHANGED toolState
    <2>1. /\ verdict = "none" /\ step \in DOMAIN Asked /\ Acceptable(heard')
          /\ heard' = Append(heard, Head(incoming).val) /\ verdict' = IF step = Len(Asked) THEN "reported" ELSE "none"
      BY <1>4, ListenTyped
    <2>2. Head(incoming).val \in Values
      <3>1. incoming \in Seq(Messages) /\ incoming # <<>>
        BY <1>0, <1>4 DEF SessionTypeOK, Listen
      <3>2. Head(incoming) \in Messages
        BY <3>1, TailOf
      <3> QED BY <3>2 DEF Messages
    <2>3. /\ heard' \in Seq(Values) /\ Len(heard') = Len(heard) + 1
          /\ \A i \in 1 .. Len(heard) : heard'[i] = heard[i]
      BY <1>1, <2>1, <2>2, AppendTo
    <2>4. Len(heard') = End + 4 => Contiguous(Scan(heard'))
      BY <2>1 DEF Acceptable
    <2>5. Len(heard') = End + 6 => heard'[End + 6] = heard'[2]
      BY <1>2, <2>1 DEF Acceptable
    <2>6. Len(heard) >= End + 4 => Scan(heard') = Scan(heard)
      BY <1>0, <1>1, <2>3 DEF Scan
    <2>7. Len(heard) >= End + 4 => Contiguous(Scan(heard))
      BY <2>1 DEF Checked
    <2>8. Len(heard') >= End + 4 => Contiguous(Scan(heard'))
      BY <1>0, <1>1, <2>3, <2>4, <2>6, <2>7
    <2>9. verdict' = "reported" => Len(heard') = End + 6
      BY <1>0, <1>1, <1>2, <2>1, <2>3
    <2>10. Scan(heard)' = Scan(heard')
      BY DEF Scan
    <2> QED BY <2>5, <2>8, <2>9, <2>10 DEF Checked
  <1>5. UNCHANGED <<heard, verdict>> \/ (Listen /\ ~UNCHANGED toolState)
    BY DEF SessionNext, Ask, Listen, GivesUp, Serves, Flashed, Commissioned, sessionVars
  <1> QED BY <1>3, <1>4, <1>5

LEMMA ScanReported == ASSUME LineInv, OneChange, Checked PROVE ScanIsTrue
  <1> SUFFICES ASSUME program = "nv", verdict = "reported", late + 2 * flashed <= 3, NEW i \in 1 .. End + 1
               PROVE  slots[heard[2]][i - 1] = IF i <= Count(Scan(heard)) THEN "present" ELSE "absent"
    BY DEF ScanIsTrue
  <1>1. /\ late \in Nat /\ flashed \in Nat /\ End \in Nat /\ heard \in Seq(Values) /\ Len(heard) = Len(trail)
        /\ trail \in Seq(Nat) /\ Len(heard) = End + 6
    BY ScanAssumption DEF LineInv, SessionTypeOK, Checked
  <1>2. /\ DOMAIN Asked = 1 .. End + 6 /\ Asked[1] = "ping" /\ Asked[2] = "version" /\ Asked[3] = "info"
        /\ Asked[End + 6] = "version" /\ \A j \in 0 .. End : Asked[j + 4] = "length"
    BY <1>1, Scripts DEF Asked
  <1>3. Asked[4] = "length"
    <2>1. 0 \in 0 .. End /\ 0 + 4 = 4
      BY <1>1
    <2> QED BY <1>2, <2>1
  <1>4. DOMAIN trail = 1 .. End + 6
    <2>1. DOMAIN trail = 1 .. Len(trail)
      BY DEF LineInv, SessionTypeOK
    <2>2. Len(trail) = End + 6
      BY DEF LineInv, SessionTypeOK, Checked
    <2> QED BY <2>1, <2>2
  <1>5. \A k \in DOMAIN trail : k > late => trail[k] = k
    <2>1. late <= 3
      BY <1>1
    <2>2. Distinct(late + 1)
      <3> SUFFICES ASSUME NEW p \in DOMAIN Asked, NEW q \in DOMAIN Asked, p <= late + 1, q <= late + 1, Asked[p] = Asked[q]
                   PROVE  p = q
        BY DEF Distinct
      <3>1. p \in 1 .. 4 /\ q \in 1 .. 4
        BY <1>1, <1>2, <2>1
      <3> QED BY <1>2, <1>3, <3>1
    <2>3. \A k \in DOMAIN trail : trail[k] \in {0, k} /\ (trail[k] = 0 => k <= late)
      BY <2>2 DEF LineInv, Owned, LateFirst
    <2> QED BY <1>1, <1>4, <2>3
  <1>6. PICK first \in Images, cut \in Nat : Split(first, cut)
    BY <1>1 DEF OneChange
  <1> DEFINE From(k) == IF k < cut THEN first ELSE image
  <1>7. \A k \in DOMAIN trail : k > late /\ k \in Told => heard[k] = Said(From(k), k)
    BY <1>5, <1>6 DEF Split
  <1> HIDE DEF From
  <1>8. End + 6 \in Told /\ 2 \in Told /\ i + 3 \in Told /\ Asked[i + 3] = "length"
    <2>1. i - 1 \in 0 .. End /\ (i - 1) + 4 = i + 3 /\ i + 3 \in 1 .. End + 6 /\ 2 \in 1 .. End + 6 /\ End + 6 \in 1 .. End + 6
      BY <1>1
    <2>2. Asked[i + 3] = "length"
      BY <1>2, <2>1
    <2> QED BY <1>2, <2>1, <2>2 DEF Told
  <1>9. heard[2] = From(End + 6)
    <2>1. heard[2] = heard[End + 6]
      BY <1>1 DEF Checked
    <2>2. End + 6 \in DOMAIN trail /\ End + 6 > late
      BY <1>1, <1>4
    <2>3. heard[End + 6] = Said(From(End + 6), End + 6)
      BY <1>7, <1>8, <2>2
    <2> QED BY <1>2, <2>1, <2>3 DEF Said
  <1>10. From(i + 3) = heard[2]
    <2>1. CASE flashed = 0
      BY <1>6, <1>9, <2>1 DEF Split, From
    <2>2. CASE flashed # 0
      <3>1. first # image /\ late <= 1 /\ 2 \in DOMAIN trail /\ 2 > late
        BY <1>1, <1>4, <1>6, <2>2 DEF Split
      <3>2. heard[2] = From(2)
        <4>1. heard[2] = Said(From(2), 2)
          BY <1>7, <1>8, <3>1
        <4> QED BY <1>2, <4>1 DEF Said
      <3>3. 2 < cut <=> End + 6 < cut
        BY <1>9, <3>1, <3>2 DEF From
      <3>4. i + 3 < cut <=> End + 6 < cut
        BY <1>1, <3>3
      <3> QED BY <1>9, <3>4 DEF From
    <2> QED BY <2>1, <2>2
  <1>11. heard[i + 3] = slots[heard[2]][i - 1]
    <2>1. i + 3 \in DOMAIN trail /\ i + 3 > late /\ (i + 3) - 4 = i - 1
      BY <1>1, <1>4
    <2>2. heard[i + 3] = Said(From(i + 3), i + 3)
      BY <1>7, <1>8, <2>1
    <2> QED BY <1>8, <1>10, <2>1, <2>2 DEF Said
  <1>12. Contiguous(Scan(heard))
    BY <1>1 DEF Checked
  <1>13. i \in DOMAIN Scan(heard) /\ Scan(heard)[i] = heard[i + 3]
    BY <1>1 DEF Scan
  <1> QED BY <1>11, <1>12, <1>13 DEF Contiguous

\* p10_nv_lengths numbers nothing, and asks for the version only before and after the scan.  Still
\* the number of slots it reports is true of the firmware it reports, for every length of the scan
\* and every table, with up to three late answers, or one and a change of the firmware on the way.
THEOREM ScanTrue == SessionSpec => []ScanIsTrue
  <1>1. SessionInit => OneChange /\ Checked
    BY SplitInitially
  <1>2. LineInv /\ LineInv' /\ OneChange /\ Checked /\ [SessionNext]_sessionVars => (OneChange /\ Checked)'
    BY SplitKept, SplitFlashed, SplitListen, CheckedKept DEF SessionNext
  <1>3. LineInv /\ OneChange /\ Checked => ScanIsTrue
    BY ScanReported
  <1> QED BY <1>1, <1>2, <1>3, LineInductive, PTL DEF SessionSpec

-----------------------------------------------------------------------------
(* The readers: what is read is a part of what was sent. *)

LEMMA Least == ASSUME NEW T \in SUBSET Nat, T # {}
               PROVE  \E x \in T : \A y \in T : x <= y
  <1>1. IsWellFoundedOn(OpToRel(<, Nat), Nat)
    BY NatLessThanWellFounded
  <1>2. PICK x \in T : \A y \in T : ~ (<<y, x>> \in OpToRel(<, Nat))
    BY <1>1, WFMin
  <1>3. \A y \in T : ~ (y < x)
    BY <1>2 DEF OpToRel
  <1> QED BY <1>3

\* What the first n of some sequences make when they are put together, for every n.
Chain(f, ss, S) == /\ f \in [0 .. Len(ss) -> Seq(S)] /\ f[0] = <<>>
                   /\ \A i \in 1 .. Len(ss) : f[i] = f[i - 1] \o ss[i]

\* The recursive function of FlattenSeq on the first n sequences.
Flattens(g, ss, n) == g = [i \in 1 .. n |-> IF i = 1 THEN ss[i] ELSE g[i - 1] \o ss[i]]

LEMMA FlattenExists == ASSUME NEW ss, NEW n \in Nat
                       PROVE  \E g : Flattens(g, ss, n)
  <1> DEFINE Without == {k \in Nat : ~ \E g : Flattens(g, ss, k)}
  <1> SUFFICES ASSUME Without # {} PROVE FALSE
    OBVIOUS
  <1>1. PICK k \in Without : \A m \in Without : k <= m
    BY Least
  <1>2. k # 0
    <2>1. Flattens([i \in 1 .. 0 |-> <<>>], ss, 0)
      BY DEF Flattens
    <2> QED BY <2>1
  <1>3. PICK g : Flattens(g, ss, k - 1)
    BY <1>1, <1>2
  <1> DEFINE h == [i \in 1 .. k |-> IF i = k THEN IF i = 1 THEN ss[i] ELSE g[i - 1] \o ss[i] ELSE g[i]]
  <1>4. ASSUME NEW i \in 1 .. k
        PROVE  h[i] = IF i = 1 THEN ss[i] ELSE h[i - 1] \o ss[i]
    <2>1. CASE i = k
      BY <2>1
    <2>2. CASE i # k
      <3>1. i \in 1 .. k - 1 /\ h[i] = g[i]
        BY <2>2
      <3>2. g[i] = IF i = 1 THEN ss[i] ELSE g[i - 1] \o ss[i]
        BY <1>3, <3>1 DEF Flattens
      <3>3. i # 1 => h[i - 1] = g[i - 1]
        BY <3>1
      <3> QED BY <3>1, <3>2, <3>3
    <2> QED BY <2>1, <2>2
  <1>5. h = [i \in 1 .. k |-> IF i = 1 THEN ss[i] ELSE h[i - 1] \o ss[i]]
    <2>1. h = [i \in 1 .. k |-> h[i]]
      OBVIOUS
    <2> HIDE DEF h
    <2> QED BY <1>4, <2>1
  <1>6. Flattens(h, ss, k)
    <2> HIDE DEF h
    <2> QED BY <1>5 DEF Flattens
  <1> QED BY <1>6

LEMMA FlattenChain == ASSUME NEW S, NEW ss \in Seq(Seq(S))
                      PROVE  \E f : Chain(f, ss, S) /\ FlattenSeq(ss) = f[Len(ss)]
  <1>1. Len(ss) \in Nat /\ \A i \in 1 .. Len(ss) : ss[i] \in Seq(S)
    BY LenProperties, ElementOfSeq
  <1> DEFINE g == CHOOSE g : Flattens(g, ss, Len(ss))
             f == [i \in 0 .. Len(ss) |-> IF i = 0 THEN <<>> ELSE g[i]]
  <1>2. Flattens(g, ss, Len(ss))
    BY <1>1, FlattenExists
  <1>3. FlattenSeq(ss) = f[Len(ss)]
    <2>1. CASE Len(ss) = 0
      <3>1. ss = <<>>
        BY <2>1, EmptySeq
      <3> QED BY <2>1, <3>1 DEF FlattenSeq
    <2>2. CASE Len(ss) # 0
      <3>1. FlattenSeq(ss) = g[Len(ss)]
        BY <2>2 DEF FlattenSeq, Flattens
      <3> QED BY <1>1, <2>2, <3>1
    <2> QED BY <2>1, <2>2
  <1> HIDE DEF g
  <1>4. \A i \in 1 .. Len(ss) : g[i] = IF i = 1 THEN ss[i] ELSE g[i - 1] \o ss[i]
    BY <1>2 DEF Flattens
  <1>5. \A i \in 1 .. Len(ss) : g[i] \in Seq(S)
    <2> DEFINE Odd == {i \in 1 .. Len(ss) : g[i] \notin Seq(S)}
    <2> SUFFICES ASSUME Odd # {} PROVE FALSE
      OBVIOUS
    <2>1. PICK k \in Odd : \A m \in Odd : k <= m
      <3>1. Odd \in SUBSET Nat
        OBVIOUS
      <3> HIDE DEF Odd
      <3> QED BY <3>1, Least
    <2>2. k # 1 => k - 1 \in 1 .. Len(ss) /\ g[k - 1] \in Seq(S)
      BY <1>1, <2>1
    <2>3. k \in 1 .. Len(ss) /\ ss[k] \in Seq(S) /\ g[k] \notin Seq(S)
      BY <1>1, <2>1
    <2>4. g[k] = IF k = 1 THEN ss[k] ELSE g[k - 1] \o ss[k]
      BY <1>4, <2>3
    <2>5. k # 1
      BY <2>3, <2>4
    <2>6. g[k - 1] \o ss[k] \in Seq(S)
      BY <2>2, <2>3, <2>5, ConcatProperties
    <2> QED BY <2>3, <2>4, <2>5, <2>6
  <1>6. f \in [0 .. Len(ss) -> Seq(S)]
    BY <1>1, <1>5
  <1>7. ASSUME NEW i \in 1 .. Len(ss)
        PROVE  f[i] = f[i - 1] \o ss[i]
    <2>1. f[i] = g[i] /\ ss[i] \in Seq(S)
      BY <1>1
    <2>2. CASE i = 1
      <3>1. f[i - 1] = <<>>
        BY <1>1, <2>2
      <3> QED BY <1>4, <2>1, <2>2, <3>1, ConcatEmptySeq
    <2>3. CASE i # 1
      <3>1. f[i - 1] = g[i - 1]
        BY <1>1, <2>3
      <3> QED BY <1>4, <2>1, <2>3, <3>1
    <2> QED BY <2>2, <2>3
  <1>8. f[0] = <<>>
    BY <1>1
  <1> HIDE DEF f
  <1> QED BY <1>3, <1>6, <1>7, <1>8 DEF Chain

\* b is what s holds up to e.
Upto(b, s, e) == /\ b \in Seq(Nat) /\ Len(b) <= e /\ e <= Len(s)
                 /\ \A i \in 1 .. Len(b) : b[i] = s[e - Len(b) + i]

LEMMA UptoRest == ASSUME NEW s \in Seq(Nat), NEW e \in Nat, NEW b, Upto(b, s, e),
                         NEW k \in 1 .. Len(b) + 1
                  PROVE  /\ Upto(SubSeq(b, k, Len(b)), s, e)
                         /\ Len(SubSeq(b, k, Len(b))) = Len(b) - k + 1
                         /\ k <= Len(b) => SubSeq(b, k, Len(b))[1] = b[k]
  <1>1. b \in Seq(Nat) /\ Len(b) \in Nat /\ Len(s) \in Nat /\ k \in Nat /\ k >= 1
    BY LenProperties DEF Upto
  <1>2. PICK c : c = SubSeq(b, k, Len(b))
    OBVIOUS
  <1>3. /\ c \in Seq(Nat) /\ Len(c) = Len(b) - k + 1
        /\ \A i \in 1 .. Len(c) : c[i] = b[k + i - 1]
    <2>1. \A i \in k .. Len(b) : b[i] \in Nat
      BY <1>1, ElementOfSeq
    <2>2. /\ c \in Seq(Nat) /\ Len(c) = IF k <= Len(b) THEN Len(b) - k + 1 ELSE 0
          /\ \A i \in 1 .. Len(b) - k + 1 : c[i] = b[k + i - 1]
      BY <1>1, <1>2, <2>1, SubSeqProperties
    <2> QED BY <1>1, <2>2
  <1>4. ASSUME NEW i \in 1 .. Len(c)
        PROVE  c[i] = s[e - Len(c) + i]
    <2>1. k + i - 1 \in 1 .. Len(b) /\ e - Len(b) + (k + i - 1) = e - Len(c) + i
      BY <1>1, <1>3
    <2> QED BY <1>3, <2>1 DEF Upto
  <1>5. Len(c) <= e /\ e <= Len(s)
    BY <1>1, <1>3 DEF Upto
  <1>6. k <= Len(b) => c[1] = b[k]
    BY <1>1, <1>3
  <1> QED BY <1>2, <1>3, <1>4, <1>5, <1>6 DEF Upto

LEMMA UptoMore == ASSUME NEW s \in Seq(Nat), NEW e \in Nat, NEW b, Upto(b, s, e),
                         NEW u \in e .. Len(s)
                  PROVE  /\ Upto(b \o SubSeq(s, e + 1, u), s, u)
                         /\ Len(b \o SubSeq(s, e + 1, u)) = Len(b) + (u - e)
                         /\ \A i \in 1 .. Len(b) : (b \o SubSeq(s, e + 1, u))[i] = b[i]
  <1>1. b \in Seq(Nat) /\ Len(b) \in Nat /\ Len(s) \in Nat /\ u \in Nat /\ Len(b) <= e /\ e <= u /\ u <= Len(s)
    BY LenProperties DEF Upto
  <1>2. PICK c : c = SubSeq(s, e + 1, u)
    OBVIOUS
  <1>3. c \in Seq(Nat) /\ Len(c) = u - e /\ \A i \in 1 .. Len(c) : c[i] = s[e + i]
    <2>1. \A i \in e + 1 .. u : s[i] \in Nat
      BY <1>1, ElementOfSeq
    <2>2. /\ c \in Seq(Nat) /\ Len(c) = IF e + 1 <= u THEN u - (e + 1) + 1 ELSE 0
          /\ \A i \in 1 .. u - (e + 1) + 1 : c[i] = s[e + 1 + i - 1]
      BY <1>1, <1>2, <2>1, SubSeqProperties
    <2> QED BY <1>1, <2>2
  <1>4. PICK d : d = b \o c
    OBVIOUS
  <1>5. /\ d \in Seq(Nat) /\ Len(d) = Len(b) + (u - e)
        /\ \A i \in 1 .. Len(d) : d[i] = IF i <= Len(b) THEN b[i] ELSE c[i - Len(b)]
    <2>1. /\ d \in Seq(Nat) /\ Len(d) = Len(b) + Len(c)
          /\ \A i \in 1 .. Len(b) + Len(c) : d[i] = IF i <= Len(b) THEN b[i] ELSE c[i - Len(b)]
      BY <1>1, <1>3, <1>4, ConcatProperties
    <2> QED BY <1>1, <1>3, <2>1
  <1>6. ASSUME NEW i \in 1 .. Len(d)
        PROVE  d[i] = s[u - Len(d) + i]
    <2>1. CASE i <= Len(b)
      <3>1. i \in 1 .. Len(b) /\ u - Len(d) + i = e - Len(b) + i
        BY <1>1, <1>5, <2>1
      <3>2. d[i] = b[i] /\ b[i] = s[e - Len(b) + i]
        BY <1>5, <2>1, <3>1 DEF Upto
      <3> QED BY <3>1, <3>2
    <2>2. CASE ~(i <= Len(b))
      <3>1. i - Len(b) \in 1 .. Len(c) /\ e + (i - Len(b)) = u - Len(d) + i
        BY <1>1, <1>3, <1>5, <2>2
      <3>2. d[i] = c[i - Len(b)] /\ c[i - Len(b)] = s[e + (i - Len(b))]
        BY <1>3, <1>5, <2>2, <3>1
      <3> QED BY <3>1, <3>2
    <2> QED BY <2>1, <2>2
  <1>7. Len(d) <= u /\ \A i \in 1 .. Len(b) : d[i] = b[i]
    BY <1>1, <1>5
  <1> QED BY <1>1, <1>2, <1>4, <1>5, <1>6, <1>7 DEF Upto

\* A frame at the beginning of what is held, up to e, of what was sent.
LEMMA FrameOf == ASSUME NEW s \in Seq(Nat), NEW e \in Nat, NEW b, Upto(b, s, e),
                        Len(b) >= 5, Len(b) >= b[2] + 5
                 PROVE  \E i \in 1 .. e - 4 : /\ i + s[i + 1] + 4 <= e
                                              /\ SubSeq(s, i, i + s[i + 1] + 4) = SubSeq(b, 1, b[2] + 5)
                                              /\ SubSeq(b, 1, b[2] + 5)[1] = b[1]
  <1>1. b \in Seq(Nat) /\ Len(b) \in Nat /\ Len(s) \in Nat /\ Len(b) <= e /\ e <= Len(s)
    BY LenProperties DEF Upto
  <1>2. b[2] \in Nat
    <2>1. 2 \in 1 .. Len(b)
      BY <1>1
    <2> QED BY <1>1, <2>1, ElementOfSeq
  <1>3. PICK n \in Nat : n = b[2] /\ n + 5 <= Len(b)
    BY <1>1, <1>2
  <1>4. PICK i \in Nat : i = e - Len(b) + 1
    <2>1. e - Len(b) + 1 \in Nat
      BY <1>1
    <2> QED BY <2>1
  <1>5. s[i + 1] = n
    <2>1. 2 \in 1 .. Len(b) /\ e - Len(b) + 2 = i + 1
      BY <1>1, <1>4
    <2>2. b[2] = s[e - Len(b) + 2]
      BY <2>1 DEF Upto
    <2> QED BY <1>3, <2>1, <2>2
  <1>6. i \in 1 .. e - 4 /\ i + n + 4 <= e
    <2>1. PICK m \in Nat : m = Len(b)
      BY <1>1
    <2>2. m <= e /\ n + 5 <= m /\ i = e - m + 1
      BY <1>1, <1>3, <1>4, <2>1
    <2>3. 1 <= i /\ i <= e - 4 /\ i + n + 4 <= e
      BY <2>2
    <2> QED BY <2>3
  <1>7. PICK c : c = SubSeq(b, 1, n + 5)
    OBVIOUS
  <1>8. c \in Seq(Nat) /\ Len(c) = n + 5 /\ \A j \in 1 .. n + 5 : c[j] = b[j]
    <2>1. ASSUME NEW j \in 1 .. n + 5
          PROVE  b[j] \in Nat
      <3>1. j \in 1 .. Len(b)
        BY <1>1, <1>3
      <3> QED BY <1>1, <3>1, ElementOfSeq
    <2>2. c \in Seq(Nat) /\ Len(c) = n + 5 /\ \A j \in 1 .. n + 5 - 1 + 1 : c[j] = b[1 + j - 1]
      BY <1>7, <2>1, SubSeqProperties
    <2> QED BY <2>2
  <1>9. PICK d : d = SubSeq(s, i, i + n + 4)
    OBVIOUS
  <1>10. d \in Seq(Nat) /\ Len(d) = n + 5 /\ \A j \in 1 .. n + 5 : d[j] = s[i + j - 1]
    <2>1. \A j \in i .. i + n + 4 : s[j] \in Nat
      BY <1>1, <1>6, ElementOfSeq
    <2>2. /\ d \in Seq(Nat) /\ Len(d) = i + n + 4 - i + 1
          /\ \A j \in 1 .. i + n + 4 - i + 1 : d[j] = s[i + j - 1]
      BY <1>9, <2>1, SubSeqProperties
    <2> QED BY <2>2
  <1>11. ASSUME NEW j \in 1 .. n + 5
         PROVE  c[j] = d[j]
    <2>1. j \in 1 .. Len(b) /\ e - Len(b) + j = i + j - 1
      BY <1>1, <1>3, <1>4
    <2>2. b[j] = s[e - Len(b) + j]
      BY <2>1 DEF Upto
    <2> QED BY <1>8, <1>10, <2>1, <2>2
  <1>12. c = d
    BY <1>8, <1>10, <1>11, SeqEqual
  <1>13. c[1] = b[1]
    BY <1>8
  <1> QED BY <1>3, <1>5, <1>6, <1>7, <1>9, <1>12, <1>13

\* What begins with the first SOF.
LEMMA FromSofOf == ASSUME NEW b \in Seq(Nat)
                   PROVE  \/ FromSof(b) = <<>> /\ \A i \in 1 .. Len(b) : b[i] # Sof
                          \/ \E k \in 1 .. Len(b) : /\ FromSof(b) = SubSeq(b, k, Len(b)) /\ b[k] = Sof
                                                    /\ \A i \in 1 .. k - 1 : b[i] # Sof
  <1> DEFINE I == {i \in 1 .. Len(b) : b[i] = Sof}
  <1>1. Len(b) \in Nat
    BY LenProperties
  <1>2. CASE I = {}
    <2>1. FromSof(b) = <<>>
      BY <1>2 DEF FromSof, SelectInSeq
    <2> QED BY <1>2, <2>1
  <1>3. CASE I # {}
    <2>1. I \in SUBSET Nat
      OBVIOUS
    <2>2. \E x \in I : \A y \in I : x <= y
      <3> HIDE DEF I
      <3> QED BY <1>3, <2>1, Least
    <2>3. Min(I) \in I /\ \A y \in I : Min(I) <= y
      BY <2>2 DEF Min
    <2>4. PICK k \in 1 .. Len(b) : k = Min(I)
      BY <2>3
    <2>5. k # 0
      BY <1>1
    <2>6. FromSof(b) = SubSeq(b, k, Len(b))
      BY <1>3, <2>4, <2>5 DEF FromSof, SelectInSeq
    <2>7. b[k] = Sof
      BY <2>3, <2>4
    <2>8. ASSUME NEW i \in 1 .. k - 1
          PROVE  b[i] # Sof
      <3>1. i \in 1 .. Len(b) /\ ~(k <= i)
        BY <1>1
      <3>2. \A y \in I : k <= y
        BY <2>3, <2>4
      <3> QED BY <3>1, <3>2
    <2> QED BY <2>6, <2>7, <2>8
  <1> QED BY <1>2, <1>3

LEMMA FromSofUpto == ASSUME NEW s \in Seq(Nat), NEW e \in Nat, NEW b, Upto(b, s, e)
                     PROVE  /\ Upto(FromSof(b), s, e)
                            /\ FromSof(b) # <<>> => FromSof(b)[1] = Sof
  <1>1. b \in Seq(Nat) /\ Len(b) \in Nat /\ Len(b) <= e /\ e <= Len(s)
    BY LenProperties DEF Upto
  <1>2. CASE FromSof(b) = <<>>
    <2>1. <<>> \in Seq(Nat) /\ Len(<<>>) = 0
      OBVIOUS
    <2>2. Upto(<<>>, s, e)
      BY <1>1, <2>1 DEF Upto
    <2> QED BY <1>2, <2>2
  <1>3. ASSUME NEW k \in 1 .. Len(b), FromSof(b) = SubSeq(b, k, Len(b)), b[k] = Sof
        PROVE  Upto(FromSof(b), s, e) /\ FromSof(b)[1] = Sof
    <2>1. k \in 1 .. Len(b) + 1 /\ k <= Len(b)
      BY <1>1
    <2>2. Upto(SubSeq(b, k, Len(b)), s, e) /\ SubSeq(b, k, Len(b))[1] = b[k]
      BY <2>1, UptoRest
    <2> QED BY <1>3, <2>2
  <1> QED BY <1>1, <1>2, <1>3, FromSofOf

-----------------------------------------------------------------------------
(* What a radio sends. *)

LEMMA CheckType == ASSUME NEW s \in Seq(Nat)
                   PROVE  Check(s) \in Nat
  <1>1. IsFiniteSet(DOMAIN s)
    <2>1. Len(s) \in Nat /\ DOMAIN s = 1 .. Len(s)
      BY LenProperties
    <2> QED BY <2>1, FS_Interval
  <1> DEFINE Card(w) == Cardinality({i \in DOMAIN s : (s[i] \div w) % 2 = 1})
  <1>2. \A w \in {1, 2, 4} : Card(w) \in Nat
    <2> SUFFICES ASSUME NEW w \in {1, 2, 4} PROVE Card(w) \in Nat
      OBVIOUS
    <2>1. {i \in DOMAIN s : (s[i] \div w) % 2 = 1} \in SUBSET DOMAIN s
      OBVIOUS
    <2>2. IsFiniteSet({i \in DOMAIN s : (s[i] \div w) % 2 = 1})
      BY <1>1, <2>1, FS_Subset
    <2> QED BY <2>2, FS_CardinalityType
  <1>3. Card(1) \in Nat /\ Card(2) \in Nat /\ Card(4) \in Nat
    BY <1>2
  <1>4. Check(s) = (Card(1) % 2) + 2 * (Card(2) % 2) + 4 * (Card(4) % 2)
    BY DEF Check
  <1> HIDE DEF Card
  <1> QED BY <1>3, <1>4

LEMMA Single == ASSUME NEW x \in Nat
                PROVE  <<x>> \in Seq(Nat) /\ Len(<<x>>) = 1 /\ <<x>>[1] = x
  OBVIOUS

IsFrame(f, c0, c1, data, x) == f = <<Sof>> \o Body(c0, c1, data) \o <<x>>

\* Between SOF and the last byte a frame is its length, its command and its data.
LEMMA Framed == ASSUME NEW c0 \in Nat, NEW c1 \in Nat, NEW data \in Seq(Nat), NEW x \in Nat,
                       NEW f, IsFrame(f, c0, c1, data, x)
                PROVE  /\ f \in Seq(Nat) /\ Len(f) = Len(data) + 5
                       /\ f[1] = Sof /\ f[2] = Len(data) /\ f[3] = c0 /\ f[4] = c1
                       /\ \A i \in 1 .. Len(data) : f[i + 4] = data[i]
                       /\ f[Len(data) + 5] = x
  <1>1. PICK n \in Nat : n = Len(data)
    BY LenProperties
  <1>2. PICK h : h = <<Len(data), c0, c1>>
    OBVIOUS
  <1>3. h \in Seq(Nat) /\ Len(h) = 3 /\ h[1] = n /\ h[2] = c0 /\ h[3] = c1
    BY <1>1, <1>2
  <1>4. PICK b : b = h \o data
    OBVIOUS
  <1>5. /\ b \in Seq(Nat) /\ Len(b) = 3 + n
        /\ \A i \in 1 .. 3 : b[i] = h[i]
        /\ \A i \in 1 .. n : b[3 + i] = data[i]
    <2>1. /\ b \in Seq(Nat) /\ Len(b) = Len(h) + Len(data)
          /\ \A i \in 1 .. Len(h) + Len(data) : b[i] = IF i <= Len(h) THEN h[i] ELSE data[i - Len(h)]
      BY <1>3, <1>4, ConcatProperties
    <2> QED BY <1>1, <1>3, <2>1
  <1>6. PICK sof : sof = <<Sof>>
    OBVIOUS
  <1>7. sof \in Seq(Nat) /\ Len(sof) = 1 /\ sof[1] = Sof
    BY <1>6, Single DEF Sof
  <1>8. PICK a : a = sof \o b
    OBVIOUS
  <1>9. /\ a \in Seq(Nat) /\ Len(a) = 1 + (3 + n)
        /\ \A i \in 1 .. 1 : a[i] = sof[i]
        /\ \A i \in 1 .. 3 + n : a[1 + i] = b[i]
    <2>1. /\ a \in Seq(Nat) /\ Len(a) = Len(sof) + Len(b)
          /\ \A i \in 1 .. Len(sof) + Len(b) : a[i] = IF i <= Len(sof) THEN sof[i] ELSE b[i - Len(sof)]
      BY <1>5, <1>7, <1>8, ConcatProperties
    <2> QED BY <1>5, <1>7, <2>1
  <1>10. PICK l : l = <<x>>
    OBVIOUS
  <1>11. l \in Seq(Nat) /\ Len(l) = 1 /\ l[1] = x
    BY <1>10, Single
  <1>12. f = a \o l
    BY <1>2, <1>4, <1>6, <1>8, <1>10 DEF Body, IsFrame
  <1>13. /\ f \in Seq(Nat) /\ Len(f) = (4 + n) + 1
         /\ \A i \in 1 .. 4 + n : f[i] = a[i]
         /\ \A i \in 1 .. 1 : f[(4 + n) + i] = l[i]
    <2>1. /\ f \in Seq(Nat) /\ Len(f) = Len(a) + Len(l)
          /\ \A i \in 1 .. Len(a) + Len(l) : f[i] = IF i <= Len(a) THEN a[i] ELSE l[i - Len(a)]
      BY <1>9, <1>11, <1>12, ConcatProperties
    <2>2. Len(a) = 4 + n
      BY <1>9
    <2> QED BY <1>11, <2>1, <2>2
  <1>14. f[1] = Sof
    <2>1. a[1] = sof[1]
      BY <1>9
    <2>2. f[1] = a[1]
      BY <1>13
    <2> QED BY <1>7, <2>1, <2>2
  <1>15. ASSUME NEW i \in 1 .. 3 + n
         PROVE  f[1 + i] = b[i]
    <2>1. 1 + i \in 1 .. 4 + n
      OBVIOUS
    <2> QED BY <1>9, <1>13, <2>1
  <1>16. f[2] = n /\ f[3] = c0 /\ f[4] = c1
    <2>1. \A i \in 1 .. 3 : f[1 + i] = h[i]
      BY <1>5, <1>15
    <2>2. f[1 + 1] = h[1] /\ f[1 + 2] = h[2] /\ f[1 + 3] = h[3]
      BY <2>1
    <2> QED BY <1>3, <2>2
  <1>17. ASSUME NEW i \in 1 .. n
         PROVE  f[i + 4] = data[i]
    <2>1. 3 + i \in 1 .. 3 + n /\ 1 + (3 + i) = i + 4
      OBVIOUS
    <2> QED BY <1>5, <1>15, <2>1
  <1>18. f[n + 5] = x
    <2>1. (4 + n) + 1 = n + 5
      OBVIOUS
    <2> QED BY <1>11, <1>13, <2>1
  <1>19. Len(f) = n + 5
    BY <1>13
  <1> QED BY <1>1, <1>13, <1>14, <1>16, <1>17, <1>18, <1>19

LEMMA FrameIsFramed == ASSUME NEW c0 \in Nat, NEW c1 \in Nat, NEW data \in Seq(Nat)
                       PROVE  /\ Check(Body(c0, c1, data)) \in Nat
                              /\ IsFrame(Frame(c0, c1, data), c0, c1, data, Check(Body(c0, c1, data)))
  <1>1. <<Len(data), c0, c1>> \in Seq(Nat)
    BY LenProperties
  <1>2. Body(c0, c1, data) \in Seq(Nat)
    BY <1>1, ConcatProperties DEF Body
  <1> QED BY <1>2, CheckType DEF Frame, IsFrame

\* An item with SOF, a length and as many bytes as that calls for.
IsFramed(item) == item \in Seq(Nat) /\ Len(item) = item[2] + 5 /\ item[1] = Sof /\ item[2] \in Nat

LEMMA FramesAre == ASSUME NEW c \in Commands, NEW item \in Frames(c)
                   PROVE  /\ IsFramed(item)
                          /\ item[2] <= 1 \/ item \in Large(c)
  <1>1. c \in Nat /\ 3 - c \in Nat /\ Resp \in Nat /\ 2 \in Nat /\ Sof \in Nat
    BY DEF Commands, Resp, Sof
  <1>2. \A x \in Nat : <<x>> \in Seq(Nat) /\ Len(<<x>>) = 1
    OBVIOUS
  <1>3. ASSUME NEW c0 \in Nat, NEW c1 \in Nat, NEW data \in Seq(Nat), NEW x \in Nat, IsFrame(item, c0, c1, data, x)
        PROVE  IsFramed(item) /\ item[2] = Len(data)
    <2>1. /\ item \in Seq(Nat) /\ Len(item) = Len(data) + 5
          /\ item[1] = Sof /\ item[2] = Len(data)
      BY <1>3, Framed
    <2> QED BY <2>1, LenProperties DEF IsFramed
  <1>4. CASE item \in Replies(c)
    <2>1. PICK x \in Nat : item = Frame(Resp, c, <<x>>)
      BY <1>1, <1>4 DEF Replies
    <2>2. /\ Check(Body(Resp, c, <<x>>)) \in Nat
          /\ IsFrame(item, Resp, c, <<x>>, Check(Body(Resp, c, <<x>>)))
      BY <1>1, <1>2, <2>1, FrameIsFramed
    <2>3. IsFramed(item) /\ item[2] = Len(<<x>>)
      BY <1>1, <1>2, <1>3, <2>2
    <2> QED BY <1>2, <2>3
  <1>5. CASE item \in Others(c)
    <2>1. CASE item = Frame(Resp, 3 - c, <<3 - c>>)
      <3>1. /\ Check(Body(Resp, 3 - c, <<3 - c>>)) \in Nat
            /\ IsFrame(item, Resp, 3 - c, <<3 - c>>, Check(Body(Resp, 3 - c, <<3 - c>>)))
        BY <1>1, <1>2, <2>1, FrameIsFramed
      <3>2. IsFramed(item) /\ item[2] = Len(<<3 - c>>)
        BY <1>1, <1>2, <1>3, <3>1
      <3> QED BY <1>1, <1>2, <3>2
    <2>2. CASE item = Frame(2, c, <<>>)
      <3>1. <<>> \in Seq(Nat) /\ Len(<<>>) = 0
        OBVIOUS
      <3>2. /\ Check(Body(2, c, <<>>)) \in Nat
            /\ IsFrame(item, 2, c, <<>>, Check(Body(2, c, <<>>)))
        BY <1>1, <2>2, <3>1, FrameIsFramed
      <3>3. IsFramed(item) /\ item[2] = Len(<<>>)
        BY <1>1, <1>3, <3>1, <3>2
      <3> QED BY <3>1, <3>3
    <2> QED BY <1>5, <2>1, <2>2 DEF Others
  <1>6. CASE item \in Large(c)
    <2>1. <<0, 0, 0, 0>> \in Seq(Nat)
      OBVIOUS
    <2>2. item = Frame(2, c, <<0, 0, 0, 0>>)
      BY <1>6 DEF Large
    <2>3. /\ Check(Body(2, c, <<0, 0, 0, 0>>)) \in Nat
          /\ IsFrame(item, 2, c, <<0, 0, 0, 0>>, Check(Body(2, c, <<0, 0, 0, 0>>)))
      BY <1>1, <2>1, <2>2, FrameIsFramed
    <2>4. IsFramed(item)
      BY <1>1, <1>3, <2>1, <2>3
    <2> QED BY <1>6, <2>4
  <1>7. CASE item \in BadCheck(c)
    <2>1. PICK d \in Nat, x \in Nat : IsFrame(item, Resp, c, <<d>>, x)
      BY <1>1, <1>7 DEF BadCheck, IsFrame
    <2>2. IsFramed(item) /\ item[2] = Len(<<d>>)
      BY <1>1, <1>2, <1>3, <2>1
    <2> QED BY <1>2, <2>2
  <1> QED BY <1>4, <1>5, <1>6, <1>7 DEF Frames

LEMMA ItemsAre == ASSUME NEW c \in Commands, NEW item \in Items(c)
                  PROVE  item \in Seq(Nat)
  <1>1. CASE item \in Frames(c)
    BY <1>1, FramesAre DEF IsFramed
  <1>2. CASE item \in NoStart(c)
    <2>1. PICK f : f = Frame(Resp, c, <<4>>)
      OBVIOUS
    <2>2. f \in Frames(c)
      BY <2>1 DEF Frames, Replies
    <2>3. f \in Seq(Nat) /\ f # <<>>
      <3>1. f \in Seq(Nat) /\ Len(f) = f[2] + 5 /\ f[2] \in Nat
        BY <2>2, FramesAre DEF IsFramed
      <3>2. Len(f) # 0
        BY <3>1
      <3> QED BY <3>1, <3>2, EmptySeq
    <2>4. Tail(f) \in Seq(Nat) /\ <<0>> \in Seq(Nat)
      BY <2>3, HeadTailProperties, Single
    <2>5. item = <<0>> \o Tail(f)
      BY <1>2, <2>1 DEF NoStart
    <2> QED BY <2>4, <2>5, ConcatProperties
  <1>3. CASE item \in Noise \cup CutOff
    <2>1. 0 \in Nat /\ 1 \in Nat /\ Sof \in Nat /\ Resp \in Nat
      BY DEF Sof, Resp
    <2>2. <<0>> \in Seq(Nat) /\ <<0, 1>> \in Seq(Nat)
      OBVIOUS
    <2>3. <<Sof, 1, Resp>> \in Seq(Nat)
      BY <2>1
    <2>4. item = <<0>> \/ item = <<0, 1>> \/ item = <<Sof, 1, Resp>>
      BY <1>3 DEF Noise, CutOff
    <2> QED BY <2>2, <2>3, <2>4, Zenon
  <1> QED BY <1>1, <1>2, <1>3 DEF Items

\* What is sent once is a sequence of bytes, which nothing changes.
LEMMA SentType == ReaderInit => sent \in Seq(Seq(Nat))
  <1> SUFFICES ASSUME ReaderInit PROVE sent \in Seq(Seq(Nat))
    OBVIOUS
  <1>1. want \in Commands /\ sent \in BoundedSeq(Items(want), MaxItems)
    BY DEF ReaderInit
  <1>2. PICK k \in 0 .. MaxItems : sent \in [1 .. k -> Items(want)]
    BY <1>1 DEF BoundedSeq, SeqOf
  <1>3. \A i \in 1 .. k : sent[i] \in Seq(Nat)
    BY <1>1, <1>2, ItemsAre
  <1>4. k \in Nat
    BY <1>2, ToolsAssumption
  <1>5. sent \in [1 .. k -> Seq(Nat)]
    BY <1>2, <1>3
  <1> QED BY <1>4, <1>5

LEMMA StreamType == ASSUME sent \in Seq(Seq(Nat))
                    PROVE  Stream \in Seq(Nat) /\ Len(Stream) \in Nat
  <1>1. PICK f : Chain(f, sent, Nat) /\ FlattenSeq(sent) = f[Len(sent)]
    BY FlattenChain
  <1>2. Len(sent) \in 0 .. Len(sent)
    BY LenProperties
  <1>3. Stream \in Seq(Nat)
    BY <1>1, <1>2 DEF Chain, Stream
  <1> QED BY <1>3, LenProperties

-----------------------------------------------------------------------------
(* What is taken for an answer. *)

\* What is in the buffer is what was sent up to where one has read; readers without a buffer keep
\* only what they have read of a frame.
ReaderInv ==
    /\ tool \in DOMAIN Limit /\ want \in Commands /\ sent \in Seq(Seq(Nat)) /\ seen \in Nat
    /\ Upto(buffer, Stream, seen)
    /\ phase \in {"select", "frames", "start", "head", "tail", "done"}
    /\ phase \in {"select", "frames"} => tool \in Buffered
    /\ phase \in {"start", "head", "tail"} => tool \notin Buffered
    /\ phase = "start" => buffer = <<>>
    /\ phase = "head" => Len(buffer) = 1 /\ buffer[1] = Sof
    /\ phase = "tail" => Len(buffer) = 4 /\ buffer[1] = Sof /\ buffer[2] <= Limit[tool]
    /\ phase # "done" => answer = <<>>
    /\ TakenIsFrame

\* A frame at the beginning of what is held is one that was sent.
LEMMA TakesFrame == ASSUME sent \in Seq(Seq(Nat)), UNCHANGED <<tool, want, sent>>,
                           seen' \in Nat, NEW b, Upto(b, Stream, seen'), Len(b) >= 5, Len(b) >= b[2] + 5,
                           NEW frame, frame = SubSeq(b, 1, b[2] + 5), Accepts(tool, want, frame),
                           b[1] = Sof \/ tool = "usb", answer' = <<Data(frame)>>
                    PROVE  TakenIsFrame'
  <1>1. Stream \in Seq(Nat) /\ Stream' = Stream
    BY StreamType DEF Stream
  <1>2. PICK i \in 1 .. seen' - 4 :
               /\ i + Stream[i + 1] + 4 <= seen'
               /\ SubSeq(Stream, i, i + Stream[i + 1] + 4) = SubSeq(b, 1, b[2] + 5)
               /\ SubSeq(b, 1, b[2] + 5)[1] = b[1]
    BY <1>1, FrameOf
  <1>3. frame = SubSeq(Stream, i, i + Stream[i + 1] + 4) /\ frame[1] = b[1]
    BY <1>2
  <1>4. /\ Check(IF tool = "reset" THEN SubSeq(frame, 2, Len(frame) - 1) ELSE Tail(frame)) = 0
        /\ frame[3] = Resp /\ frame[4] = want
    BY DEF Accepts
  <1>5. /\ i + Stream'[i + 1] + 4 <= seen'
        /\ LET f == SubSeq(Stream', i, i + Stream'[i + 1] + 4) IN
             /\ f[1] = Sof \/ tool' = "usb"
             /\ Check(IF tool' = "reset" THEN SubSeq(f, 2, Len(f) - 1) ELSE Tail(f)) = 0
             /\ f[3] = Resp /\ f[4] = want'
             /\ answer' = <<Data(f)>>
    BY <1>1, <1>2, <1>3, <1>4, Zenon
  <1> QED BY <1>5, Zenon DEF TakenIsFrame

LEMMA ReaderInitially == ReaderInit => ReaderInv
  <1> SUFFICES ASSUME ReaderInit PROVE ReaderInv
    OBVIOUS
  <1>1. /\ tool \in {"usb", "reset", "endpoint", "readonly"} /\ want \in Commands
        /\ seen = 0 /\ buffer = <<>> /\ phase = IF tool \in Buffered THEN "select" ELSE "start"
        /\ answer = <<>>
    BY ToolsAssumption DEF ReaderInit
  <1>2. sent \in Seq(Seq(Nat))
    BY SentType
  <1>3. Stream \in Seq(Nat) /\ Len(Stream) \in Nat
    BY <1>2, StreamType
  <1>4. <<>> \in Seq(Nat) /\ Len(<<>>) = 0
    OBVIOUS
  <1>5. Upto(buffer, Stream, seen)
    <2>1. Upto(<<>>, Stream, 0)
      BY <1>3, <1>4 DEF Upto
    <2> QED BY <1>1, <2>1
  <1> QED BY <1>1, <1>2, <1>5 DEF ReaderInv, Limit, TakenIsFrame

LEMMA SelectReads == ASSUME ReaderInv, Select
                     PROVE  ReaderInv'
  <1>1. PICK upto \in seen .. Len(Stream) :
          LET all == buffer \o SubSeq(Stream, seen + 1, upto) IN
          seen' = upto /\ buffer' = IF tool = "usb" THEN FromSof(all) ELSE all
    BY DEF Select
  <1>2. PICK all : all = buffer \o SubSeq(Stream, seen + 1, upto)
    OBVIOUS
  <1>3. seen' = upto /\ buffer' = IF tool = "usb" THEN FromSof(all) ELSE all
    BY <1>1, <1>2
  <1>4. phase = "select" /\ phase' = "frames" /\ UNCHANGED <<tool, want, sent, answer>>
    BY DEF Select, To
  <1>5. Stream \in Seq(Nat) /\ Len(Stream) \in Nat /\ Stream' = Stream /\ seen \in Nat
    BY <1>4, StreamType DEF ReaderInv, Stream
  <1>6. Upto(all, Stream, upto) /\ upto \in Nat
    <2>1. Upto(buffer, Stream, seen)
      BY DEF ReaderInv
    <2> QED BY <1>2, <1>5, <2>1, UptoMore
  <1>7. Upto(FromSof(all), Stream, upto)
    BY <1>5, <1>6, FromSofUpto
  <1>8. Upto(buffer, Stream, seen)'
    BY <1>3, <1>5, <1>6, <1>7
  <1>9. answer' = <<>> /\ tool \in Buffered
    BY <1>4 DEF ReaderInv
  <1>10. seen' \in Nat
    BY <1>3, <1>6
  <1> QED BY <1>4, <1>8, <1>9, <1>10 DEF ReaderInv, TakenIsFrame

LEMMA TakeFrameReads == ASSUME ReaderInv, TakeFrame
                        PROVE  ReaderInv'
  <1>1. PICK all : all = IF tool = "reset" THEN FromSof(buffer) ELSE buffer
    OBVIOUS
  <1>2. /\ phase = "frames" /\ UNCHANGED <<seen, hurried>>
        /\ \/ Incomplete(all) /\ buffer' = all /\ To("select") /\ UNCHANGED answer
           \/ ~Incomplete(all) /\ all[2] > Limit[tool] /\ buffer' = Tail(all) /\ To("select") /\ UNCHANGED answer
           \/ /\ ~Incomplete(all) /\ all[2] <= Limit[tool]
              /\ LET frame == SubSeq(all, 1, all[2] + 5) IN
                 IF Accepts(tool, want, frame) THEN Ends(<<Data(frame)>>) ELSE To("frames") /\ UNCHANGED answer
              /\ buffer' = SubSeq(all, all[2] + 6, Len(all))
    BY <1>1 DEF TakeFrame
  <1>3. UNCHANGED <<tool, want, sent>>
    BY <1>2 DEF To, Ends
  <1>4. Stream \in Seq(Nat) /\ Len(Stream) \in Nat /\ Stream' = Stream /\ seen \in Nat /\ sent \in Seq(Seq(Nat))
    BY <1>3, StreamType DEF ReaderInv, Stream
  <1>5. Upto(all, Stream, seen) /\ (all # <<>> => all[1] = Sof \/ tool # "reset")
    BY <1>1, <1>4, FromSofUpto DEF ReaderInv
  <1>6. all \in Seq(Nat) /\ Len(all) \in Nat
    BY <1>5, LenProperties DEF Upto
  <1>7. tool \in DOMAIN Limit /\ Limit[tool] \in Nat
    BY DEF ReaderInv, Limit
  <1>8. ~Incomplete(all) => Len(all) >= 5 /\ all[2] \in Nat /\ (all[2] <= Limit[tool] => Len(all) >= all[2] + 5)
    <2> SUFFICES ASSUME ~Incomplete(all)
                 PROVE  Len(all) >= 5 /\ all[2] \in Nat /\ (all[2] <= Limit[tool] => Len(all) >= all[2] + 5)
      OBVIOUS
    <2>1. CASE Len(all) < 5
      BY <1>6, <2>1 DEF Incomplete
    <2>2. CASE Len(all) >= 5
      <3>1. 2 \in 1 .. Len(all)
        BY <1>6, <2>2
      <3>2. all[2] \in Nat
        BY <1>6, <3>1, ElementOfSeq
      <3> QED BY <1>6, <2>2, <3>2 DEF Incomplete
    <2> QED BY <1>6, <2>1, <2>2
  <1>9. answer = <<>> /\ tool \in Buffered /\ (tool = "reset" \/ tool = "usb")
    BY <1>2 DEF ReaderInv, Buffered
  <1>10. CASE Incomplete(all) /\ buffer' = all /\ To("select") /\ UNCHANGED answer
    BY <1>2, <1>3, <1>4, <1>5, <1>9, <1>10 DEF ReaderInv, TakenIsFrame, To
  <1>11. CASE ~Incomplete(all) /\ buffer' = Tail(all) /\ To("select") /\ UNCHANGED answer
    <2>1. Len(all) >= 5
      BY <1>8, <1>11
    <2>2. all # <<>>
      BY <1>6, <2>1, EmptySeq
    <2>3. Tail(all) = SubSeq(all, 2, Len(all))
      BY <1>6, <2>2, TailIsSubSeq
    <2>4. 2 \in 1 .. Len(all) + 1
      BY <1>6, <2>1
    <2>5. Upto(Tail(all), Stream, seen)
      BY <1>4, <1>5, <2>3, <2>4, UptoRest
    <2> QED BY <1>2, <1>3, <1>4, <1>9, <1>11, <2>5 DEF ReaderInv, TakenIsFrame, To
  <1>12. ASSUME ~Incomplete(all), all[2] <= Limit[tool],
                LET frame == SubSeq(all, 1, all[2] + 5) IN
                IF Accepts(tool, want, frame) THEN Ends(<<Data(frame)>>) ELSE To("frames") /\ UNCHANGED answer,
                buffer' = SubSeq(all, all[2] + 6, Len(all))
         PROVE  ReaderInv'
    <2>1. Len(all) >= 5 /\ all[2] \in Nat /\ Len(all) >= all[2] + 5
      BY <1>8, <1>12
    <2>2. all[2] + 6 \in 1 .. Len(all) + 1
      BY <1>6, <2>1
    <2>3. Upto(buffer', Stream, seen)
      BY <1>4, <1>5, <1>12, <2>2, UptoRest
    <2>4. PICK frame : frame = SubSeq(all, 1, all[2] + 5)
      OBVIOUS
    <2>5. CASE Accepts(tool, want, frame)
      <3>1. To("done") /\ answer' = <<Data(frame)>>
        BY <1>12, <2>4, <2>5 DEF Ends
      <3>2. all[1] = Sof \/ tool = "usb"
        <4>1. all # <<>>
          BY <1>6, <2>1, EmptySeq
        <4> QED BY <1>5, <1>9, <4>1
      <3>3. TakenIsFrame'
        <4>1. seen' = seen /\ seen' \in Nat /\ Upto(all, Stream, seen')
          BY <1>2, <1>4, <1>5
        <4> QED BY <1>3, <1>4, <2>1, <2>4, <2>5, <3>1, <3>2, <4>1, TakesFrame
      <3> QED BY <1>2, <1>3, <1>4, <1>7, <2>3, <3>1, <3>3 DEF ReaderInv, To
    <2>6. CASE ~Accepts(tool, want, frame)
      <3>1. To("frames") /\ UNCHANGED answer
        BY <1>12, <2>4, <2>6
      <3> QED BY <1>2, <1>3, <1>4, <1>7, <1>9, <2>3, <3>1 DEF ReaderInv, TakenIsFrame, To
    <2> QED BY <2>5, <2>6
  <1> QED BY <1>2, <1>10, <1>11, <1>12

\* The next bytes of what was sent.
LEMMA NextBytes == ASSUME ReaderInv, NEW n \in Nat, seen + n <= Len(Stream)
                   PROVE  /\ Upto(buffer \o SubSeq(Stream, seen + 1, seen + n), Stream, seen + n)
                          /\ Len(buffer \o SubSeq(Stream, seen + 1, seen + n)) = Len(buffer) + n
                          /\ \A i \in 1 .. Len(buffer) : (buffer \o SubSeq(Stream, seen + 1, seen + n))[i] = buffer[i]
                          /\ seen + n \in Nat
  <1>1. Stream \in Seq(Nat) /\ Len(Stream) \in Nat /\ seen \in Nat /\ Upto(buffer, Stream, seen)
    BY StreamType DEF ReaderInv
  <1>2. seen + n \in seen .. Len(Stream) /\ (seen + n) - seen = n
    BY <1>1
  <1>3. PICK u : u = seen + n
    OBVIOUS
  <1>4. /\ Upto(buffer \o SubSeq(Stream, seen + 1, u), Stream, u)
        /\ Len(buffer \o SubSeq(Stream, seen + 1, u)) = Len(buffer) + (u - seen)
        /\ \A i \in 1 .. Len(buffer) : (buffer \o SubSeq(Stream, seen + 1, u))[i] = buffer[i]
    BY <1>1, <1>2, <1>3, UptoMore
  <1>5. u - seen = n /\ seen + n \in Nat
    BY <1>1, <1>2, <1>3
  <1> QED BY <1>3, <1>4, <1>5, Zenon

LEMMA ShortReads == ASSUME ReaderInv, NEW n \in Nat, ReadsShort(n), phase \in {"start", "head", "tail"}
                    PROVE  ReaderInv'
  <1>1. PICK got \in 0 .. n - 1 : seen + got <= Len(Stream) /\ seen' = seen + got
    BY DEF ReadsShort
  <1>2. /\ buffer' = <<>>
        /\ \/ phase' = "start" /\ answer' = answer /\ tool \notin Buffered
           \/ phase' = "done" /\ answer' = <<>>
        /\ UNCHANGED <<tool, want, sent>>
    BY DEF ReadsShort, To, Ends, ReaderInv
  <1>3. Stream \in Seq(Nat) /\ Len(Stream) \in Nat /\ Stream' = Stream /\ seen \in Nat
    BY <1>2, StreamType DEF ReaderInv, Stream
  <1>4. seen' \in Nat /\ seen' <= Len(Stream)
    BY <1>1, <1>3
  <1>5. Upto(<<>>, Stream, seen')
    <2>1. <<>> \in Seq(Nat) /\ Len(<<>>) = 0
      OBVIOUS
    <2> QED BY <1>3, <1>4, <2>1 DEF Upto
  <1>6. answer' = <<>>
    BY <1>2 DEF ReaderInv
  <1> QED BY <1>2, <1>3, <1>4, <1>5, <1>6 DEF ReaderInv, TakenIsFrame

LEMMA StartReads == ASSUME ReaderInv, ReadStart
                    PROVE  ReaderInv'
  <1>1. phase = "start" /\ tool \notin Buffered /\ buffer = <<>> /\ answer = <<>>
    BY DEF ReadStart, ReaderInv
  <1>2. Stream \in Seq(Nat) /\ Len(Stream) \in Nat /\ seen \in Nat
    BY StreamType DEF ReaderInv
  <1>3. Len(buffer) = 0
    BY <1>1
  <1>4. CASE Reads(1) /\ Stream[seen'] = Sof /\ To("head") /\ UNCHANGED answer
    <2>1. /\ seen' = seen + 1 /\ buffer' = buffer \o SubSeq(Stream, seen + 1, seen + 1)
          /\ seen + 1 <= Len(Stream)
          /\ phase' = "head" /\ UNCHANGED <<tool, want, sent, answer>>
      BY <1>4 DEF Reads, To
    <2>2. Upto(buffer', Stream, seen') /\ Len(buffer') = Len(buffer) + 1 /\ seen' \in Nat
      BY <2>1, NextBytes
    <2>3. Len(buffer') = 1 /\ buffer'[1] = Stream[seen']
      <3>1. Len(buffer') = 1
        BY <1>3, <2>2
      <3>2. 1 \in 1 .. Len(buffer')
        BY <3>1
      <3>3. buffer'[1] = Stream[seen' - Len(buffer') + 1]
        BY <2>2, <3>2 DEF Upto
      <3>4. seen' - 1 + 1 = seen'
        <4>1. \A x \in Nat : x - 1 + 1 = x
          OBVIOUS
        <4>2. seen' \in Nat
          BY <2>2
        <4> QED BY <4>1, <4>2
      <3> QED BY <3>1, <3>3, <3>4
    <2>4. Stream' = Stream
      BY <2>1 DEF Stream
    <2> QED BY <1>1, <1>4, <2>1, <2>2, <2>3, <2>4 DEF ReaderInv, TakenIsFrame
  <1>5. CASE /\ seen < Len(Stream) /\ seen' = seen + 1 /\ To("start") /\ UNCHANGED <<buffer, answer, hurried>>
    <2>1. phase' = "start" /\ UNCHANGED <<tool, want, sent, answer, buffer>>
      BY <1>5 DEF To
    <2>2. Stream' = Stream
      BY <2>1 DEF Stream
    <2>3. Upto(<<>>, Stream, seen + 1) /\ seen + 1 \in Nat
      <3>1. <<>> \in Seq(Nat) /\ Len(<<>>) = 0
        OBVIOUS
      <3> QED BY <1>2, <1>5, <3>1 DEF Upto
    <2> QED BY <1>1, <1>5, <2>1, <2>2, <2>3 DEF ReaderInv, TakenIsFrame
  <1>6. CASE ReadsShort(1)
    BY <1>1, <1>6, ShortReads
  <1> QED BY <1>4, <1>5, <1>6 DEF ReadStart

LEMMA HeadReads == ASSUME ReaderInv, ReadHead
                   PROVE  ReaderInv'
  <1>1. phase = "head" /\ tool \notin Buffered /\ Len(buffer) = 1 /\ buffer[1] = Sof /\ answer = <<>>
    BY DEF ReadHead, ReaderInv
  <1>2. CASE Reads(3) /\ IF buffer'[2] > Limit[tool] THEN Ends(<<>>) ELSE To("tail") /\ UNCHANGED answer
    <2>1. /\ seen' = seen + 3 /\ buffer' = buffer \o SubSeq(Stream, seen + 1, seen + 3)
          /\ seen + 3 <= Len(Stream)
          /\ UNCHANGED <<tool, want, sent>>
      BY <1>2 DEF Reads, To, Ends
    <2>2. /\ Upto(buffer', Stream, seen') /\ Len(buffer') = Len(buffer) + 3 /\ seen' \in Nat
          /\ \A i \in 1 .. Len(buffer) : buffer'[i] = buffer[i]
      BY <2>1, NextBytes
    <2>3. Len(buffer') = 4 /\ buffer'[1] = Sof
      BY <1>1, <2>2
    <2>4. Stream' = Stream
      BY <2>1 DEF Stream
    <2>5. CASE buffer'[2] > Limit[tool]
      BY <1>2, <2>1, <2>2, <2>4, <2>5 DEF ReaderInv, TakenIsFrame, To, Ends
    <2>6. CASE ~(buffer'[2] > Limit[tool])
      <3>1. buffer'[2] <= Limit[tool]
        <4>1. buffer' \in Seq(Nat) /\ 2 \in 1 .. Len(buffer')
          BY <2>2, <2>3 DEF Upto
        <4>2. buffer'[2] \in Nat
          BY <4>1, ElementOfSeq
        <4>3. Limit[tool] \in Nat
          BY DEF ReaderInv, Limit
        <4> QED BY <2>6, <4>2, <4>3
      <3>2. phase' = "tail" /\ UNCHANGED answer
        BY <1>2, <2>6 DEF To
      <3> QED BY <1>1, <2>1, <2>2, <2>3, <2>4, <3>1, <3>2 DEF ReaderInv, TakenIsFrame
    <2> QED BY <2>5, <2>6
  <1>3. CASE ReadsShort(3)
    BY <1>1, <1>3, ShortReads
  <1> QED BY <1>2, <1>3 DEF ReadHead

LEMMA TailReads == ASSUME ReaderInv, ReadTail
                   PROVE  ReaderInv'
  <1>1. /\ phase = "tail" /\ tool \notin Buffered /\ Len(buffer) = 4 /\ buffer[1] = Sof /\ answer = <<>>
        /\ buffer \in Seq(Nat)
    BY DEF ReadTail, ReaderInv, Upto
  <1>2. PICK n \in Nat : n = buffer[2] + 1 /\ buffer[2] \in Nat
    <2>1. 2 \in 1 .. Len(buffer)
      BY <1>1
    <2>2. buffer[2] \in Nat
      BY <1>1, <2>1, ElementOfSeq
    <2> QED BY <2>2
  <1>3. CASE ReadsShort(n)
    BY <1>1, <1>3, ShortReads
  <1>4. PICK frame : frame = buffer \o SubSeq(Stream, seen + 1, seen + n)
    OBVIOUS
  <1>5. CASE /\ seen + n <= Len(Stream) /\ seen' = seen + n /\ buffer' = <<>>
             /\ \/ Accepts(tool, want, frame) /\ Ends(<<Data(frame)>>)
                \/ /\ ~Accepts(tool, want, frame)
                   /\ IF tool = "endpoint" /\ Check(Tail(frame)) # 0
                      THEN Ends(<<>>)
                      ELSE To("start") /\ UNCHANGED answer
    <2>1. UNCHANGED <<tool, want, sent>>
      BY <1>5 DEF Ends, To
    <2>2. /\ Upto(frame, Stream, seen') /\ Len(frame) = Len(buffer) + n /\ seen' \in Nat
          /\ \A i \in 1 .. Len(buffer) : frame[i] = buffer[i]
      BY <1>4, <1>5, NextBytes
    <2>3. Len(frame) = frame[2] + 5 /\ frame[1] = Sof /\ frame[2] \in Nat /\ Len(frame) >= 5
      <3>1. frame[1] = buffer[1] /\ frame[2] = buffer[2] /\ Len(frame) = 4 + n
        BY <1>1, <2>2
      <3>2. buffer[2] \in Nat
        <4>1. 2 \in 1 .. Len(buffer)
          BY <1>1
        <4> QED BY <1>1, <4>1, ElementOfSeq
      <3> QED BY <1>1, <1>2, <3>1, <3>2
    <2>4. Stream \in Seq(Nat) /\ Len(Stream) \in Nat /\ Stream' = Stream /\ sent \in Seq(Seq(Nat))
      BY <2>1, StreamType DEF ReaderInv, Stream
    <2>5. Upto(<<>>, Stream, seen')
      <3>1. <<>> \in Seq(Nat) /\ Len(<<>>) = 0
        OBVIOUS
      <3>2. seen' <= Len(Stream)
        BY <1>5
      <3> QED BY <2>2, <2>4, <3>1, <3>2 DEF Upto
    <2>6. CASE Accepts(tool, want, frame) /\ Ends(<<Data(frame)>>)
      <3>1. frame = SubSeq(frame, 1, frame[2] + 5)
        <4>1. frame \in Seq(Nat)
          BY <2>2 DEF Upto
        <4> QED BY <2>3, <4>1, SubSeqFull
      <3>2. answer' = <<Data(frame)>> /\ phase' = "done"
        BY <2>6 DEF Ends, To
      <3>3. Len(frame) >= frame[2] + 5
        BY <2>3
      <3>4. TakenIsFrame'
        BY <2>1, <2>2, <2>3, <2>4, <2>6, <3>1, <3>2, <3>3, TakesFrame
      <3> QED BY <1>5, <2>1, <2>2, <2>4, <2>5, <3>2, <3>4 DEF ReaderInv
    <2>7. CASE answer' = <<>> /\ (phase' = "start" \/ phase' = "done")
      BY <1>1, <1>5, <2>1, <2>2, <2>4, <2>5, <2>7 DEF ReaderInv, TakenIsFrame
    <2>8. Ends(<<>>) \/ (To("start") /\ UNCHANGED answer) => answer' = <<>> /\ (phase' = "start" \/ phase' = "done")
      BY <1>1 DEF Ends, To
    <2> QED BY <1>5, <2>6, <2>7, <2>8
  <1>6. seen + buffer[2] + 1 = seen + n
    <2>1. seen \in Nat
      BY DEF ReaderInv
    <2> QED BY <1>2, <2>1
  <1> QED BY <1>2, <1>3, <1>4, <1>5, <1>6 DEF ReadTail

LEMMA ReaderStep == ASSUME ReaderInv, [ReaderNext]_readerVars
                    PROVE  ReaderInv'
  <1>1. CASE Deadline
    <2>1. phase' = "done" /\ answer' = <<>> /\ UNCHANGED <<tool, want, sent, seen, buffer>>
      BY <1>1 DEF Deadline, Ends, To
    <2>2. Stream' = Stream
      BY <2>1 DEF Stream
    <2> QED BY <2>1, <2>2 DEF ReaderInv, TakenIsFrame
  <1>2. CASE UNCHANGED readerVars
    <2>1. UNCHANGED <<tool, want, sent, seen, buffer, phase, answer>>
      BY <1>2 DEF readerVars
    <2>2. Stream' = Stream
      BY <2>1 DEF Stream
    <2> QED BY <2>1, <2>2 DEF ReaderInv, TakenIsFrame
  <1> QED BY <1>1, <1>2, SelectReads, TakeFrameReads, StartReads, HeadReads, TailReads DEF ReaderNext

\* ReaderInv: what a reader holds is what was sent up to where it has read, for anything that is
\* sent of these items, however it is split.
THEOREM ReaderInductive == ReaderSpec => []ReaderInv
  BY ReaderInitially, ReaderStep, PTL DEF ReaderSpec

\* The four readers: what is taken for an answer was sent in one piece, as an answer to the command
\* that was given, and sums up to what the reader wants, for any number of items.
THEOREM TakenFrame == ReaderSpec => []TakenIsFrame
  <1>1. ReaderInv => TakenIsFrame
    BY DEF ReaderInv
  <1> QED BY ReaderInductive, <1>1, PTL

-----------------------------------------------------------------------------
(* Where each item begins in what is sent. *)

Parts(ss) == CHOOSE f : Chain(f, ss, Nat) /\ FlattenSeq(ss) = f[Len(ss)]
Off(ss, k) == Len(Parts(ss)[k])

LEMMA PartsAre == ASSUME NEW ss \in Seq(Seq(Nat))
                  PROVE  Chain(Parts(ss), ss, Nat) /\ FlattenSeq(ss) = Parts(ss)[Len(ss)]
  BY FlattenChain DEF Parts

\* The items follow one another without a gap.
LEMMA OffsetsStep == ASSUME NEW ss \in Seq(Seq(Nat))
                     PROVE  /\ Len(ss) \in Nat /\ Off(ss, 0) = 0
                            /\ \A k \in 0 .. Len(ss) : Off(ss, k) \in Nat
                            /\ \A k \in 1 .. Len(ss) : /\ Off(ss, k) = Off(ss, k - 1) + Len(ss[k])
                                                       /\ Len(ss[k]) \in Nat
                            /\ Off(ss, Len(ss)) = Len(FlattenSeq(ss))
  <1> DEFINE f == Parts(ss)
  <1>1. /\ f \in [0 .. Len(ss) -> Seq(Nat)] /\ f[0] = <<>>
        /\ \A i \in 1 .. Len(ss) : f[i] = f[i - 1] \o ss[i]
        /\ FlattenSeq(ss) = f[Len(ss)]
    BY PartsAre DEF Chain
  <1> HIDE DEF f
  <1>2. Len(ss) \in Nat
    BY LenProperties
  <1>3. \A k \in 0 .. Len(ss) : Len(f[k]) \in Nat
    BY <1>1, LenProperties
  <1>4. ASSUME NEW k \in 1 .. Len(ss)
        PROVE  Len(f[k]) = Len(f[k - 1]) + Len(ss[k]) /\ Len(ss[k]) \in Nat
    <2>1. ss[k] \in Seq(Nat)
      BY ElementOfSeq
    <2>2. k - 1 \in 0 .. Len(ss)
      BY <1>2
    <2>3. f[k - 1] \in Seq(Nat)
      BY <1>1, <2>2
    <2>4. f[k] = f[k - 1] \o ss[k]
      BY <1>1
    <2>5. Len(ss[k]) \in Nat
      BY <2>1, LenProperties
    <2>6. Len(f[k - 1] \o ss[k]) = Len(f[k - 1]) + Len(ss[k])
      BY <2>1, <2>3, ConcatProperties
    <2> QED BY <2>4, <2>5, <2>6
  <1>5. Len(f[0]) = 0
    BY <1>1, EmptySeq
  <1> QED BY <1>1, <1>2, <1>3, <1>4, <1>5 DEF Off, f

Filled(ss) == \A k \in 1 .. Len(ss) : Len(ss[k]) >= 1

LEMMA OffsetsGrow == ASSUME NEW ss \in Seq(Seq(Nat)), Filled(ss),
                            NEW i \in 0 .. Len(ss), NEW k \in 0 .. Len(ss), i < k
                     PROVE  Off(ss, i) < Off(ss, k)
  <1> DEFINE Bad == {n \in Nat : i < n /\ n <= Len(ss) /\ ~(Off(ss, i) < Off(ss, n))}
  <1>1. Len(ss) \in Nat /\ i \in Nat /\ k \in Nat
    BY OffsetsStep
  <1>2. Bad = {}
    <2> SUFFICES ASSUME Bad # {} PROVE FALSE
      OBVIOUS
    <2>1. PICK n \in Bad : \A x \in Bad : n <= x
      <3>1. Bad \in SUBSET Nat
        OBVIOUS
      <3> HIDE DEF Bad
      <3> QED BY <3>1, Least
    <2>2. n \in 1 .. Len(ss) /\ n - 1 \in 0 .. Len(ss) /\ n - 1 \in Nat /\ ~(n <= n - 1)
      BY <1>1
    <2>3. n - 1 \notin Bad
      <3> HIDE DEF Bad
      <3> QED BY <2>1, <2>2
    <2>4. Off(ss, n) = Off(ss, n - 1) + Len(ss[n]) /\ Len(ss[n]) \in Nat /\ Len(ss[n]) >= 1
      BY <2>2, OffsetsStep DEF Filled
    <2>5. Off(ss, n - 1) \in Nat /\ Off(ss, i) \in Nat
      BY <2>2, OffsetsStep
    <2>6. n - 1 = i \/ (i < n - 1 /\ n - 1 <= Len(ss))
      BY <1>1, <2>2
    <2>7. n - 1 = i \/ Off(ss, i) < Off(ss, n - 1)
      BY <2>2, <2>3, <2>6
    <2>8. Off(ss, i) <= Off(ss, n - 1)
      <3> HIDE DEF Bad
      <3>1. CASE n - 1 = i
        <4>1. Off(ss, n - 1) = Off(ss, i)
          BY <3>1
        <4> QED BY <4>1, <2>5
      <3> QED BY <2>5, <2>7, <3>1
    <2>9. Off(ss, i) < Off(ss, n)
      <3> HIDE DEF Bad
      <3> QED BY <2>4, <2>5, <2>8
    <2>10. ~(Off(ss, i) < Off(ss, n))
      BY <2>1
    <2> QED BY <2>9, <2>10
  <1>3. k \notin Bad
    <2> HIDE DEF Bad
    <2> QED BY <1>2
  <1>4. ~(~(Off(ss, i) < Off(ss, k)))
    BY <1>1, <1>3
  <1> QED BY <1>4

\* The first items are the beginning of everything.
LEMMA PartsKept == ASSUME NEW ss \in Seq(Seq(Nat)), NEW i \in 0 .. Len(ss), NEW j \in 1 .. Off(ss, i)
                   PROVE  FlattenSeq(ss)[j] = Parts(ss)[i][j]
  <1> DEFINE f == Parts(ss)
             Bad == {n \in Nat : i <= n /\ n <= Len(ss) /\ ~(f[n][j] = f[i][j] /\ j <= Off(ss, n))}
  <1>1. Len(ss) \in Nat /\ i \in Nat /\ Off(ss, i) \in Nat
    BY OffsetsStep
  <1>j. j \in Nat /\ 1 <= j /\ j <= Off(ss, i)
    BY <1>1
  <1>2. /\ f \in [0 .. Len(ss) -> Seq(Nat)]
        /\ \A k \in 1 .. Len(ss) : f[k] = f[k - 1] \o ss[k]
        /\ FlattenSeq(ss) = f[Len(ss)]
    BY PartsAre DEF Chain
  <1>3. \A k \in 0 .. Len(ss) : Off(ss, k) = Len(f[k])
    BY DEF Off
  <1> HIDE DEF f
  <1>4. Bad = {}
    <2> SUFFICES ASSUME Bad # {} PROVE FALSE
      OBVIOUS
    <2>1. PICK n \in Bad : \A x \in Bad : n <= x
      <3>1. Bad \in SUBSET Nat
        OBVIOUS
      <3> HIDE DEF Bad
      <3> QED BY <3>1, Least
    <2>2. n # i /\ n \in Nat /\ i <= n /\ n <= Len(ss) /\ ~(f[n][j] = f[i][j] /\ j <= Off(ss, n))
      BY <1>j
    <2>3. n \in 1 .. Len(ss) /\ n \in 0 .. Len(ss) /\ n - 1 \in 0 .. Len(ss) /\ n - 1 \in Nat /\ i <= n - 1 /\ n - 1 <= Len(ss)
          /\ ~(n <= n - 1)
      BY <1>1, <2>2
    <2>4. n - 1 \notin Bad
      <3> HIDE DEF Bad
      <3> QED BY <2>1, <2>3
    <2>5. f[n - 1][j] = f[i][j] /\ j <= Off(ss, n - 1)
      BY <2>3, <2>4
    <2>6. f[n - 1] \in Seq(Nat) /\ ss[n] \in Seq(Nat)
      BY <1>2, <2>3, ElementOfSeq
    <2>7. PICK a \in Nat, b \in Nat : a = Len(f[n - 1]) /\ b = Len(ss[n])
      BY <2>6, LenProperties
    <2>8. PICK g : g = f[n - 1] \o ss[n]
      OBVIOUS
    <2>9. Len(g) = a + b /\ \A x \in 1 .. a + b : g[x] = IF x <= a THEN f[n - 1][x] ELSE ss[n][x - a]
      <3>1. /\ Len(f[n - 1] \o ss[n]) = Len(f[n - 1]) + Len(ss[n])
            /\ \A x \in 1 .. Len(f[n - 1]) + Len(ss[n]) :
                 (f[n - 1] \o ss[n])[x] = IF x <= Len(f[n - 1]) THEN f[n - 1][x] ELSE ss[n][x - Len(f[n - 1])]
        BY <2>6, ConcatProperties
      <3> QED BY <3>1, <2>7, <2>8
    <2>10. j <= a
      BY <1>3, <2>3, <2>5, <2>7
    <2>11. j \in 1 .. a + b
      BY <1>j, <2>10
    <2>12. g[j] = f[n - 1][j] /\ j <= Len(g)
      BY <1>j, <2>9, <2>10, <2>11
    <2>13. f[n] = g
      BY <1>2, <2>3, <2>8
    <2>14. Off(ss, n) = Len(g)
      BY <1>3, <2>3, <2>13
    <2> QED BY <2>2, <2>5, <2>12, <2>13, <2>14
  <1>5. i <= Len(ss) /\ Len(ss) \notin Bad
    BY <1>1, <1>4
  <1>6. f[Len(ss)][j] = f[i][j]
    BY <1>1, <1>5
  <1> QED BY <1>2, <1>6 DEF f

\* Each item is where it begins.
LEMMA ItemBytes == ASSUME NEW ss \in Seq(Seq(Nat)), NEW k \in 1 .. Len(ss), NEW j \in 1 .. Len(ss[k])
                   PROVE  FlattenSeq(ss)[Off(ss, k - 1) + j] = ss[k][j]
  <1> DEFINE f == Parts(ss)
  <1>1. k \in 0 .. Len(ss) /\ k - 1 \in 0 .. Len(ss) /\ Len(ss[k]) \in Nat
    BY OffsetsStep
  <1>2. PICK a \in Nat, b \in Nat : a = Off(ss, k - 1) /\ b = Len(ss[k])
    BY <1>1, OffsetsStep
  <1>3. Off(ss, k) = a + b
    BY <1>2, OffsetsStep
  <1>4. j \in 1 .. b
    BY <1>2
  <1>5. PICK x \in 1 .. a + b : x = a + j /\ ~(x <= a) /\ x - a = j
    BY <1>4
  <1>6. FlattenSeq(ss)[x] = f[k][x]
    BY <1>1, <1>3, PartsKept
  <1>7. f[k] = f[k - 1] \o ss[k] /\ f[k - 1] \in Seq(Nat) /\ ss[k] \in Seq(Nat)
    BY <1>1, PartsAre, ElementOfSeq DEF Chain
  <1>8. a = Len(f[k - 1])
    BY <1>2 DEF Off
  <1> HIDE DEF f
  <1>9. PICK g : g = f[k - 1] \o ss[k]
    OBVIOUS
  <1>10. \A y \in 1 .. a + b : g[y] = IF y <= a THEN f[k - 1][y] ELSE ss[k][y - a]
    <2>1. \A y \in 1 .. Len(f[k - 1]) + Len(ss[k]) :
             (f[k - 1] \o ss[k])[y] = IF y <= Len(f[k - 1]) THEN f[k - 1][y] ELSE ss[k][y - Len(f[k - 1])]
      BY <1>7, ConcatProperties
    <2> QED BY <2>1, <1>2, <1>8, <1>9
  <1>11. g[x] = ss[k][j]
    BY <1>5, <1>10
  <1> QED BY <1>2, <1>5, <1>6, <1>7, <1>9, <1>11

-----------------------------------------------------------------------------
(* The first answer. *)

\* Clean, Decides and First, for any ss, t and c.
Tidy(ss, t, c) == \A i \in 1 .. Len(ss) : \/ ss[i] \in Frames(c)
                                          \/ ss[i] \in Noise /\ (t = "usb" => i = 1)
Stops(t, c, item) ==
    /\ item \in Frames(c)
    /\ \/ item[2] <= Limit[t] /\ Accepts(t, c, item)
       \/ t = "endpoint" /\ (item[2] > Limit[t] \/ Check(Tail(item)) # 0)
Best(ss, t, c) == LET at == SelectInSeq(ss, LAMBDA item : Stops(t, c, item))
                  IN IF at = 0 \/ ~Accepts(t, c, ss[at]) THEN <<>> ELSE <<Data(ss[at])>>

\* What can be looked for, in which order, without anything being missed.
Sendable(ss, t, c) == ss \in Seq(Seq(Nat)) /\ t \in DOMAIN Limit /\ c \in Commands /\ Tidy(ss, t, c)

\* A reader may have read a part of such an item and still be before the next one.
Hops(t, c, item) == item \in Noise \/ (t = "usb" /\ item \in Large(c))

\* What was read before p are the first k items, and maybe a part of one more.
At(ss, t, c, k, p) ==
    /\ k \in 0 .. Len(ss)
    /\ \/ p = Off(ss, k)
       \/ /\ k < Len(ss) /\ Hops(t, c, ss[k + 1])
          /\ p \in Nat /\ Off(ss, k) < p /\ p < Off(ss, k + 1)

Passed(ss, t, c, k) == \A i \in 1 .. k : ~Stops(t, c, ss[i])

\* Nothing that a reader should take or stop at begins before p.
Before(ss, t, c, p) == \E k \in 0 .. Len(ss) : Passed(ss, t, c, k) /\ At(ss, t, c, k, p)

LEMMA NoiseIs == ASSUME NEW item \in Noise
                 PROVE  /\ item \in Seq(Nat) /\ Len(item) \in 1 .. 2
                        /\ \A j \in 1 .. Len(item) : item[j] # Sof
  <1>1. CASE item = <<0>>
    BY <1>1 DEF Sof
  <1>2. CASE item = <<0, 1>>
    BY <1>2 DEF Sof
  <1> QED BY <1>1, <1>2 DEF Noise

LEMMA LargeIs == ASSUME NEW c \in Commands, NEW item \in Large(c)
                 PROVE  /\ IsFramed(item) /\ item[2] = 4 /\ item[3] = 2
                        /\ \A j \in 2 .. 8 : item[j] # Sof
  <1>1. c \in Nat /\ c # Sof /\ 2 \in Nat
    BY DEF Commands, Sof
  <1>2. PICK data : data = <<0, 0, 0, 0>>
    OBVIOUS
  <1>3. data \in Seq(Nat) /\ Len(data) = 4 /\ \A i \in 1 .. 4 : data[i] = 0
    BY <1>2
  <1>4. item = Frame(2, c, data)
    BY <1>2 DEF Large
  <1>5. PICK x \in Nat : IsFrame(item, 2, c, data, x)
    BY <1>1, <1>3, <1>4, FrameIsFramed
  <1> HIDE <1>2
  <1>6. /\ item \in Seq(Nat) /\ Len(item) = Len(data) + 5
        /\ item[1] = Sof /\ item[2] = Len(data) /\ item[3] = 2 /\ item[4] = c
        /\ \A i \in 1 .. Len(data) : item[i + 4] = data[i]
    <2>1. ASSUME NEW c0 \in Nat, NEW c1 \in Nat, NEW d \in Seq(Nat), NEW y \in Nat, IsFrame(item, c0, c1, d, y)
          PROVE  /\ item \in Seq(Nat) /\ Len(item) = Len(d) + 5
                 /\ item[1] = Sof /\ item[2] = Len(d) /\ item[3] = c0 /\ item[4] = c1
                 /\ \A i \in 1 .. Len(d) : item[i + 4] = d[i]
      BY <2>1, Framed
    <2>2. data \in Seq(Nat) /\ c \in Nat /\ 2 \in Nat /\ x \in Nat
      BY <1>1, <1>3, <1>5
    <2> QED BY <1>5, <2>1, <2>2
  <1>7. ASSUME NEW j \in 5 .. 8
        PROVE  item[j] = 0
    <2>1. j - 4 \in 1 .. 4 /\ (j - 4) + 4 = j
      OBVIOUS
    <2>2. item[(j - 4) + 4] = data[j - 4]
      BY <1>3, <1>6, <2>1
    <2> QED BY <1>3, <2>1, <2>2
  <1>8. ASSUME NEW j \in 2 .. 8
        PROVE  item[j] # Sof
    <2>1. j = 2 \/ j = 3 \/ j = 4 \/ j \in 5 .. 8
      OBVIOUS
    <2> QED BY <1>1, <1>3, <1>6, <1>7, <2>1 DEF Sof
  <1> QED BY <1>3, <1>6, <1>8 DEF IsFramed

\* What is sent is frames and noise; noise decides nothing, nor does what is too large for command.
LEMMA SentItems == ASSUME NEW ss, NEW t, NEW c, Sendable(ss, t, c)
                   PROVE  /\ ss \in Seq(Seq(Nat)) /\ Len(ss) \in Nat /\ Filled(ss) /\ c \in Commands
                          /\ \A k \in 1 .. Len(ss) :
                                /\ \/ ss[k] \in Frames(c) /\ IsFramed(ss[k])
                                   \/ ss[k] \in Noise /\ (t = "usb" => k = 1)
                                /\ Hops(t, c, ss[k]) => ~Stops(t, c, ss[k])
  <1>1. ss \in Seq(Seq(Nat)) /\ Len(ss) \in Nat /\ c \in Commands /\ Tidy(ss, t, c)
    BY LenProperties DEF Sendable
  <1>2. ASSUME NEW k \in 1 .. Len(ss)
        PROVE  /\ \/ ss[k] \in Frames(c) /\ IsFramed(ss[k])
                  \/ ss[k] \in Noise /\ (t = "usb" => k = 1)
               /\ Len(ss[k]) >= 1
    <2>1. CASE ss[k] \in Frames(c)
      <3>1. IsFramed(ss[k])
        BY <1>1, <2>1, FramesAre
      <3>2. Len(ss[k]) >= 1
        <4>1. PICK n \in Nat : n = ss[k][2] /\ Len(ss[k]) = ss[k][2] + 5
          BY <3>1 DEF IsFramed
        <4> QED BY <4>1
      <3> QED BY <2>1, <3>1, <3>2
    <2>2. CASE ss[k] \in Noise /\ (t = "usb" => k = 1)
      <3>1. Len(ss[k]) \in 1 .. 2
        BY <2>2, NoiseIs
      <3> QED BY <2>2, <3>1
    <2> QED BY <1>1, <2>1, <2>2 DEF Tidy
  <1>3. ASSUME NEW k \in 1 .. Len(ss), ss[k] \in Noise
        PROVE  ~Stops(t, c, ss[k])
    <2>1. ss[k][1] # Sof
      BY <1>3, NoiseIs
    <2>2. ss[k] \notin Frames(c)
      BY <1>1, <2>1, FramesAre DEF IsFramed
    <2> QED BY <2>2 DEF Stops
  <1>4. ASSUME NEW k \in 1 .. Len(ss), t = "usb", ss[k] \in Large(c)
        PROVE  ~Stops(t, c, ss[k])
    <2>1. ss[k][2] = 4 /\ Limit[t] = 2
      BY <1>1, <1>4, LargeIs DEF Limit
    <2> QED BY <1>4, <2>1 DEF Stops
  <1> QED BY <1>1, <1>2, <1>3, <1>4 DEF Filled, Hops

\* The k-th item begins after Off(k - 1) bytes, is where it is and ends before the end.
LEMMA ItemAt == ASSUME NEW ss, NEW t, NEW c, Sendable(ss, t, c), NEW k \in 0 .. Len(ss), k < Len(ss)
                PROVE  /\ k + 1 \in 1 .. Len(ss) /\ k + 1 \in 0 .. Len(ss) /\ ss[k + 1] \in Seq(Nat)
                       /\ Off(ss, k) \in Nat /\ Len(ss[k + 1]) \in Nat \ {0}
                       /\ Off(ss, k + 1) = Off(ss, k) + Len(ss[k + 1])
                       /\ Off(ss, k + 1) <= Len(FlattenSeq(ss))
                       /\ \A j \in 1 .. Len(ss[k + 1]) : FlattenSeq(ss)[Off(ss, k) + j] = ss[k + 1][j]
  <1>1. ss \in Seq(Seq(Nat)) /\ Len(ss) \in Nat /\ Filled(ss)
    BY SentItems
  <1>2. PICK i \in 1 .. Len(ss) : i = k + 1 /\ i - 1 = k /\ i \in 0 .. Len(ss)
    BY <1>1
  <1>3. /\ \A j \in 0 .. Len(ss) : Off(ss, j) \in Nat
        /\ Off(ss, i) = Off(ss, i - 1) + Len(ss[i]) /\ Len(ss[i]) \in Nat
        /\ Off(ss, Len(ss)) = Len(FlattenSeq(ss))
    BY <1>1, OffsetsStep
  <1>4. Len(ss[i]) # 0
    BY <1>1, <1>3 DEF Filled
  <1>5. Off(ss, i) <= Len(FlattenSeq(ss))
    <2>1. Off(ss, i) \in Nat /\ Len(ss) \in 0 .. Len(ss)
      BY <1>1, <1>2, <1>3
    <2>2. CASE i = Len(ss)
      <3>1. Off(ss, i) = Len(FlattenSeq(ss))
        BY <1>3, <2>2
      <3> QED BY <2>1, <3>1
    <2>3. CASE i < Len(ss)
      <3>1. Off(ss, i) < Off(ss, Len(ss))
        BY <1>1, <1>2, <2>1, <2>3, OffsetsGrow
      <3>2. Off(ss, Len(ss)) \in Nat
        BY <1>3, <2>1
      <3> QED BY <1>3, <2>1, <3>1, <3>2
    <2>4. i = Len(ss) \/ i < Len(ss)
      BY <1>1
    <2> QED BY <2>2, <2>3, <2>4
  <1>6. \A j \in 1 .. Len(ss[i]) : FlattenSeq(ss)[Off(ss, i - 1) + j] = ss[i][j]
    BY <1>1, ItemBytes
  <1>7. ss[i] \in Seq(Nat)
    BY <1>1, ElementOfSeq
  <1>8. Off(ss, k) \in Nat
    BY <1>3
  <1> QED BY <1>2, <1>3, <1>4, <1>5, <1>6, <1>7, <1>8

\* At the end all items have been passed.
LEMMA AtEnd == ASSUME NEW ss, NEW t, NEW c, Sendable(ss, t, c), NEW k, NEW p, At(ss, t, c, k, p),
                      Len(FlattenSeq(ss)) <= p
               PROVE  k = Len(ss) /\ p = Len(FlattenSeq(ss))
  <1>1. ss \in Seq(Seq(Nat)) /\ Len(ss) \in Nat
    BY SentItems
  <1>2. k \in 0 .. Len(ss)
    BY DEF At
  <1>3. Off(ss, Len(ss)) = Len(FlattenSeq(ss))
    BY <1>1, OffsetsStep
  <1>4. CASE k < Len(ss)
    <2>1. /\ Off(ss, k) \in Nat /\ Len(ss[k + 1]) \in Nat \ {0}
          /\ Off(ss, k + 1) = Off(ss, k) + Len(ss[k + 1])
          /\ Off(ss, k + 1) <= Len(FlattenSeq(ss))
      BY <1>2, <1>4, ItemAt
    <2>2. PICK a \in Nat, b \in Nat \ {0}, e \in Nat :
              a = Off(ss, k) /\ b = Len(ss[k + 1]) /\ e = Off(ss, k + 1) /\ e = a + b
      BY <2>1
    <2>3. Len(FlattenSeq(ss)) \in Nat
      <3>1. Len(ss) \in 0 .. Len(ss)
        BY <1>1
      <3> QED BY <1>1, <1>3, <3>1, OffsetsStep
    <2>4. p \in Nat /\ p < e
      BY <2>2 DEF At
    <2> QED BY <2>1, <2>2, <2>3, <2>4
  <1>5. CASE k = Len(ss)
    <2>1. ~(k < Len(ss))
      BY <1>1, <1>5
    <2>2. p = Off(ss, k)
      BY <2>1 DEF At
    <2> QED BY <1>3, <1>5, <2>2
  <1> QED BY <1>1, <1>2, <1>4, <1>5

\* A byte that is no SOF can be left out.
LEMMA HopOne == ASSUME NEW ss, NEW t, NEW c, Sendable(ss, t, c), NEW k, NEW p, At(ss, t, c, k, p),
                       Passed(ss, t, c, k), k < Len(ss), Hops(t, c, ss[k + 1]),
                       Off(ss, k) <= p, p < Off(ss, k + 1), p \in Nat
                PROVE  /\ Before(ss, t, c, p + 1)
                       /\ p + 1 = Off(ss, k + 1) => Passed(ss, t, c, k + 1) /\ At(ss, t, c, k + 1, p + 1)
  <1>1. k \in 0 .. Len(ss) /\ Len(ss) \in Nat
    BY SentItems DEF At
  <1>2. k + 1 \in 1 .. Len(ss) /\ k + 1 \in 0 .. Len(ss) /\ Off(ss, k) \in Nat /\ Off(ss, k + 1) \in Nat
    <2>1. Off(ss, k + 1) = Off(ss, k) + Len(ss[k + 1]) /\ Off(ss, k) \in Nat /\ Len(ss[k + 1]) \in Nat
          /\ k + 1 \in 1 .. Len(ss) /\ k + 1 \in 0 .. Len(ss)
      BY <1>1, ItemAt
    <2> QED BY <2>1
  <1>3. Passed(ss, t, c, k + 1)
    <2>1. ~Stops(t, c, ss[k + 1])
      BY <1>2, SentItems
    <2>2. \A i \in 1 .. k + 1 : i \in 1 .. k \/ i = k + 1
      BY <1>1
    <2> QED BY <2>1, <2>2 DEF Passed
  <1>4. CASE p + 1 = Off(ss, k + 1)
    <2>1. At(ss, t, c, k + 1, p + 1)
      BY <1>2, <1>4 DEF At
    <2> QED BY <1>2, <1>3, <2>1 DEF Before
  <1>5. CASE p + 1 # Off(ss, k + 1)
    <2>1. p + 1 \in Nat /\ Off(ss, k) < p + 1 /\ p + 1 < Off(ss, k + 1)
      BY <1>2, <1>5
    <2>2. At(ss, t, c, k, p + 1)
      BY <1>1, <2>1 DEF At
    <2> QED BY <1>1, <1>5, <2>2 DEF Before
  <1> QED BY <1>4, <1>5

LEMMA SkipOne == ASSUME NEW ss, NEW t, NEW c, Sendable(ss, t, c), NEW p \in Nat, Before(ss, t, c, p),
                        p < Len(FlattenSeq(ss)), FlattenSeq(ss)[p + 1] # Sof
                 PROVE  Before(ss, t, c, p + 1)
  <1>1. PICK k \in 0 .. Len(ss) : Passed(ss, t, c, k) /\ At(ss, t, c, k, p)
    BY DEF Before
  <1>2. ss \in Seq(Seq(Nat)) /\ Len(ss) \in Nat /\ Off(ss, Len(ss)) = Len(FlattenSeq(ss))
    BY SentItems, OffsetsStep
  <1>3. CASE p = Off(ss, k)
    <2>1. k < Len(ss)
      <3>1. k = Len(ss) => Off(ss, k) = Len(FlattenSeq(ss))
        BY <1>2
      <3>2. k # Len(ss)
        BY <1>3, <3>1
      <3> QED BY <1>2, <3>2
    <2>2. /\ k + 1 \in 1 .. Len(ss)
          /\ Off(ss, k) \in Nat /\ Len(ss[k + 1]) \in Nat \ {0}
          /\ Off(ss, k + 1) = Off(ss, k) + Len(ss[k + 1])
          /\ \A j \in 1 .. Len(ss[k + 1]) : FlattenSeq(ss)[Off(ss, k) + j] = ss[k + 1][j]
      BY <2>1, ItemAt
    <2>3. 1 \in 1 .. Len(ss[k + 1]) /\ p < Off(ss, k + 1) /\ Off(ss, k) <= p
      BY <1>3, <2>2
    <2>4. ss[k + 1][1] # Sof
      BY <1>3, <2>2, <2>3
    <2>5. ss[k + 1] \in Noise
      BY <2>2, <2>4, SentItems DEF IsFramed
    <2>6. Hops(t, c, ss[k + 1])
      BY <2>5 DEF Hops
    <2> QED BY <1>1, <2>1, <2>3, <2>6, HopOne
  <1>4. CASE /\ k < Len(ss) /\ Hops(t, c, ss[k + 1])
             /\ p \in Nat /\ Off(ss, k) < p /\ p < Off(ss, k + 1)
    <2>1. Off(ss, k) \in Nat
      BY <1>4, ItemAt
    <2>2. Off(ss, k) <= p
      BY <1>4, <2>1
    <2> QED BY <1>1, <1>4, <2>2, HopOne
  <1> QED BY <1>1, <1>3, <1>4 DEF At

LEMMA Skip == ASSUME NEW ss, NEW t, NEW c, Sendable(ss, t, c), NEW p \in Nat, Before(ss, t, c, p),
                     NEW r \in Nat, p <= r, r <= Len(FlattenSeq(ss)),
                     \A j \in p + 1 .. r : FlattenSeq(ss)[j] # Sof
              PROVE  Before(ss, t, c, r)
  <1> DEFINE Bad == {n \in Nat : p <= n /\ n <= r /\ ~Before(ss, t, c, n)}
  <1>1. ASSUME Bad # {} PROVE FALSE
    <2>1. PICK n \in Bad : \A x \in Bad : n <= x
      <3>1. Bad \in SUBSET Nat
        OBVIOUS
      <3> HIDE DEF Bad
      <3> QED BY <1>1, <3>1, Least
    <2>2. n \in Nat /\ p <= n /\ n <= r /\ ~Before(ss, t, c, n)
      BY <2>1
    <2>3. n # p
      BY <2>2
    <2>4. PICK m \in Nat : m = n - 1 /\ n = m + 1 /\ p <= m /\ m <= r /\ ~(n <= m)
      BY <2>2, <2>3
    <2>5. m \notin Bad
      <3> HIDE DEF Bad
      <3> QED BY <2>1, <2>4
    <2>6. Before(ss, t, c, m)
      BY <2>4, <2>5
    <2>7. Len(FlattenSeq(ss)) \in Nat
      <3>1. ss \in Seq(Seq(Nat)) /\ Len(ss) \in 0 .. Len(ss)
        BY SentItems
      <3> QED BY <3>1, OffsetsStep
    <2>8. m < Len(FlattenSeq(ss)) /\ m + 1 \in p + 1 .. r
      <3> HIDE DEF Bad
      <3> QED BY <2>2, <2>4, <2>7
    <2>9. FlattenSeq(ss)[m + 1] # Sof
      BY <2>8
    <2>10. Before(ss, t, c, m + 1)
      BY <2>6, <2>8, <2>9, SkipOne
    <2> QED BY <2>2, <2>4, <2>10
  <1>2. r \notin Bad
    <2> HIDE DEF Bad
    <2> QED BY <1>1
  <1>3. r <= r
    OBVIOUS
  <1> QED BY <1>2, <1>3

\* Where a SOF is found, a frame begins, or one that is too large for command ends.
LEMMA AtSof == ASSUME NEW ss, NEW t, NEW c, Sendable(ss, t, c), NEW k, NEW p \in Nat, At(ss, t, c, k, p),
                      p < Len(FlattenSeq(ss)), FlattenSeq(ss)[p + 1] = Sof
               PROVE  /\ k \in 0 .. Len(ss) /\ k < Len(ss)
                      /\ \/ p = Off(ss, k) /\ ss[k + 1] \in Frames(c)
                         \/ t = "usb" /\ ss[k + 1] \in Large(c) /\ p + 1 = Off(ss, k + 1) /\ Off(ss, k) < p
  <1>1. k \in 0 .. Len(ss)
    BY DEF At
  <1>2. ss \in Seq(Seq(Nat)) /\ Len(ss) \in Nat /\ Off(ss, Len(ss)) = Len(FlattenSeq(ss)) /\ c \in Commands
    BY SentItems, OffsetsStep
  <1>3. k < Len(ss)
    <2>1. CASE p = Off(ss, k)
      <3>1. k = Len(ss) => Off(ss, k) = Len(FlattenSeq(ss))
        BY <1>2
      <3>2. k # Len(ss)
        BY <2>1, <3>1
      <3> QED BY <1>1, <1>2, <3>2
    <2> QED BY <2>1 DEF At
  <1>4. /\ k + 1 \in 1 .. Len(ss)
        /\ Off(ss, k) \in Nat /\ Len(ss[k + 1]) \in Nat \ {0}
        /\ Off(ss, k + 1) = Off(ss, k) + Len(ss[k + 1])
        /\ \A j \in 1 .. Len(ss[k + 1]) : FlattenSeq(ss)[Off(ss, k) + j] = ss[k + 1][j]
    BY <1>1, <1>3, ItemAt
  <1>5. PICK item : item = ss[k + 1]
    OBVIOUS
  <1>6. PICK a \in Nat, n \in Nat \ {0} : a = Off(ss, k) /\ n = Len(item)
    BY <1>4, <1>5
  <1>7. Off(ss, k + 1) = a + n /\ \A j \in 1 .. n : FlattenSeq(ss)[a + j] = item[j]
    BY <1>4, <1>5, <1>6
  <1>8. ASSUME a <= p, p < a + n
        PROVE  item \notin Noise
    <2>1. PICK j \in 1 .. n : p + 1 = a + j
      <3>1. p + 1 - a \in 1 .. n /\ p + 1 = a + (p + 1 - a)
        BY <1>8
      <3> QED BY <3>1
    <2>2. item[j] = Sof
      BY <1>7, <2>1
    <2> QED BY <1>6, <2>1, <2>2, NoiseIs
  <1>9. CASE p = a
    <2>1. item \notin Noise
      BY <1>8, <1>9
    <2>2. item \in Frames(c)
      BY <1>4, <1>5, <2>1, SentItems
    <2> QED BY <1>1, <1>3, <1>5, <1>6, <1>9, <2>2
  <1>10. CASE Hops(t, c, item) /\ a < p /\ p < a + n
    <2>1. t = "usb" /\ item \in Large(c)
      BY <1>8, <1>10 DEF Hops
    <2>2. Len(item) = item[2] + 5 /\ item[2] = 4 /\ \A j \in 2 .. 8 : item[j] # Sof
      BY <1>2, <2>1, LargeIs DEF IsFramed
    <2>3. n = 9
      BY <1>6, <2>2
    <2>4. PICK j \in 2 .. 9 : p + 1 = a + j
      <3>1. p + 1 - a \in 2 .. 9 /\ p + 1 = a + (p + 1 - a)
        BY <1>10, <2>3
      <3> QED BY <3>1
    <2>5. item[j] = Sof
      <3>1. j \in 1 .. n
        BY <2>3, <2>4
      <3> QED BY <1>7, <2>4, <3>1
    <2>6. j \notin 2 .. 8
      BY <2>2, <2>5
    <2>7. j = 9
      BY <2>4, <2>6
    <2>8. p + 1 = Off(ss, k + 1) /\ Off(ss, k) < p
      BY <1>6, <1>7, <1>10, <2>3, <2>4, <2>7
    <2> QED BY <1>1, <1>3, <1>5, <2>1, <2>8
  <1> QED BY <1>5, <1>6, <1>7, <1>9, <1>10 DEF At

\* What is taken is decided by the first item that decides.
LEMMA BestIs == ASSUME NEW ss, NEW t, NEW c, NEW n \in Nat, n = Len(ss)
                PROVE  /\ Passed(ss, t, c, n) => Best(ss, t, c) = <<>>
                       /\ \A k \in 0 .. n : k < n /\ Passed(ss, t, c, k) /\ Stops(t, c, ss[k + 1]) =>
                             Best(ss, t, c) = IF Accepts(t, c, ss[k + 1]) THEN <<Data(ss[k + 1])>> ELSE <<>>
  <1> DEFINE I == {i \in 1 .. Len(ss) : Stops(t, c, ss[i])}
             at == IF I # {} THEN Min(I) ELSE 0
  <1>1. Best(ss, t, c) = IF at = 0 \/ ~Accepts(t, c, ss[at]) THEN <<>> ELSE <<Data(ss[at])>>
    BY DEF Best, SelectInSeq
  <1>2. CASE Passed(ss, t, c, n)
    <2>1. I = {}
      BY <1>2 DEF Passed
    <2>2. at = 0
      BY <2>1
    <2>3. ASSUME NEW k \in 0 .. n, k < n
          PROVE  ~Stops(t, c, ss[k + 1])
      <3>1. k + 1 \in 1 .. n
        BY <2>3
      <3> QED BY <1>2, <3>1 DEF Passed
    <2> HIDE DEF at
    <2> QED BY <1>1, <2>2, <2>3
  <1>3. ASSUME NEW k \in 0 .. n, k < n, Passed(ss, t, c, k), Stops(t, c, ss[k + 1])
        PROVE  at = k + 1 /\ at # 0
    <2>1. k + 1 \in I /\ k + 1 \in Nat /\ k + 1 # 0
      BY <1>3
    <2>2. \A i \in I : k + 1 <= i
      <3> SUFFICES ASSUME NEW i \in I PROVE k + 1 <= i
        OBVIOUS
      <3>1. i \in 1 .. n /\ Stops(t, c, ss[i])
        OBVIOUS
      <3>2. i \notin 1 .. k
        BY <1>3, <3>1 DEF Passed
      <3> HIDE DEF I
      <3> QED BY <3>1, <3>2
    <2>3. I \in SUBSET Nat
      OBVIOUS
    <2>4. Min(I) \in I /\ \A y \in I : Min(I) <= y
      <3> HIDE DEF I
      <3>1. \E x \in I : \A y \in I : x <= y
        BY <2>1, <2>2
      <3> QED BY <3>1 DEF Min
    <2>5. Min(I) = k + 1
      <3> HIDE DEF I
      <3>1. Min(I) \in Nat /\ Min(I) <= k + 1 /\ k + 1 <= Min(I)
        BY <2>1, <2>2, <2>3, <2>4
      <3> QED BY <2>1, <3>1
    <2> HIDE DEF I
    <2> QED BY <2>1, <2>5
  <1>4. ASSUME NEW k \in 0 .. n, k < n, Passed(ss, t, c, k), Stops(t, c, ss[k + 1])
        PROVE  Best(ss, t, c) = IF Accepts(t, c, ss[k + 1]) THEN <<Data(ss[k + 1])>> ELSE <<>>
    <2>1. at = k + 1 /\ at # 0
      BY <1>3, <1>4
    <2> HIDE DEF at
    <2> QED BY <1>1, <2>1
  <1>5. Passed(ss, t, c, n) => Best(ss, t, c) = <<>>
    <2> SUFFICES ASSUME Passed(ss, t, c, n) PROVE Best(ss, t, c) = <<>>
      OBVIOUS
    <2>1. I = {}
      BY DEF Passed
    <2>2. at = 0
      BY <2>1
    <2> HIDE DEF at
    <2> QED BY <1>1, <2>2
  <1> HIDE DEF at, I
  <1> QED BY <1>4, <1>5

\* One more item has been passed.
LEMMA PassOne == ASSUME NEW ss, NEW t, NEW c, Sendable(ss, t, c), NEW k \in 0 .. Len(ss), k < Len(ss),
                        Passed(ss, t, c, k), ~Stops(t, c, ss[k + 1])
                 PROVE  /\ k + 1 \in 0 .. Len(ss) /\ Passed(ss, t, c, k + 1)
                        /\ At(ss, t, c, k + 1, Off(ss, k + 1)) /\ Before(ss, t, c, Off(ss, k + 1))
  <1>1. k + 1 \in 0 .. Len(ss)
    BY ItemAt
  <1>2. \A i \in 1 .. k + 1 : i \in 1 .. k \/ i = k + 1
    OBVIOUS
  <1>3. Passed(ss, t, c, k + 1)
    BY <1>2 DEF Passed
  <1>4. At(ss, t, c, k + 1, Off(ss, k + 1))
    BY <1>1 DEF At
  <1> QED BY <1>1, <1>3, <1>4 DEF Before

\* What is held begins with a frame.
LEMMA Here == ASSUME NEW ss, NEW t, NEW c, Sendable(ss, t, c), NEW k \in 0 .. Len(ss), k < Len(ss),
                     ss[k + 1] \in Frames(c),
                     NEW e \in Nat, NEW b, Upto(b, FlattenSeq(ss), e), e - Len(b) = Off(ss, k)
              PROVE  /\ IsFramed(ss[k + 1]) /\ Off(ss, k + 1) = Off(ss, k) + ss[k + 1][2] + 5
                     /\ Off(ss, k + 1) <= Len(FlattenSeq(ss))
                     /\ Len(b) >= 2 => b[2] = ss[k + 1][2]
                     /\ Len(b) >= ss[k + 1][2] + 5 => SubSeq(b, 1, ss[k + 1][2] + 5) = ss[k + 1]
  <1>1. PICK item : item = ss[k + 1]
    OBVIOUS
  <1>2. IsFramed(item)
    BY <1>1, FramesAre DEF Sendable
  <1>3. PICK n \in Nat : n = item[2] /\ Len(item) = n + 5 /\ item \in Seq(Nat)
    BY <1>2 DEF IsFramed
  <1>4. PICK a \in Nat : a = Off(ss, k)
    BY ItemAt
  <1>5. /\ Off(ss, k + 1) = a + n + 5 /\ Off(ss, k + 1) <= Len(FlattenSeq(ss))
        /\ \A j \in 1 .. n + 5 : FlattenSeq(ss)[a + j] = item[j]
    <2>1. /\ Off(ss, k + 1) = a + Len(item) /\ Off(ss, k + 1) <= Len(FlattenSeq(ss))
          /\ \A j \in 1 .. Len(item) : FlattenSeq(ss)[a + j] = item[j]
      BY <1>1, <1>4, ItemAt
    <2>2. a + (n + 5) = a + n + 5
      OBVIOUS
    <2> QED BY <1>3, <2>1, <2>2
  <1>6. PICK m \in Nat : m = Len(b) /\ e - m = a
    BY <1>4, LenProperties DEF Upto
  <1>7. \A j \in 1 .. m : b[j] = FlattenSeq(ss)[a + j]
    BY <1>6 DEF Upto
  <1>8. \A j \in 1 .. m : j <= n + 5 => b[j] = item[j]
    BY <1>5, <1>7
  <1>9. m >= 2 => b[2] = n
    <2>1. m >= 2 => 2 \in 1 .. m /\ 2 <= n + 5
      OBVIOUS
    <2> QED BY <1>3, <1>8, <2>1
  <1>10. ASSUME m >= n + 5
         PROVE  SubSeq(b, 1, n + 5) = item
    <2>1. b \in Seq(Nat)
      BY DEF Upto
    <2>2. \A j \in 1 .. n + 5 : b[j] \in Nat
      <3>1. \A j \in 1 .. n + 5 : j \in 1 .. m
        BY <1>10
      <3> QED BY <1>6, <2>1, <3>1, ElementOfSeq
    <2>3. PICK g : g = SubSeq(b, 1, n + 5)
      OBVIOUS
    <2>4. /\ g \in Seq(Nat) /\ Len(g) = IF 1 <= n + 5 THEN n + 5 - 1 + 1 ELSE 0
          /\ \A i \in 1 .. n + 5 - 1 + 1 : g[i] = b[1 + i - 1]
      BY <2>2, <2>3, SubSeqProperties
    <2>5. Len(g) = n + 5
      BY <2>4
    <2>6. ASSUME NEW i \in 1 .. n + 5
          PROVE  g[i] = item[i]
      <3>1. i \in 1 .. n + 5 - 1 + 1 /\ 1 + i - 1 = i /\ i \in 1 .. m /\ i <= n + 5
        BY <1>10
      <3>2. g[i] = b[i]
        BY <2>4, <3>1
      <3> QED BY <1>8, <3>1, <3>2
    <2>7. g = item
      BY <1>3, <2>4, <2>5, <2>6, SeqEqual
    <2> QED BY <2>3, <2>7
  <1> QED BY <1>1, <1>2, <1>3, <1>4, <1>5, <1>6, <1>9, <1>10

\* What is too large for a reader is wanted by none.
LEMMA TooLarge == ASSUME NEW t \in DOMAIN Limit, NEW c \in Commands, NEW item \in Frames(c), item[2] > Limit[t]
                  PROVE  /\ item \in Large(c) /\ ~Accepts(t, c, item)
                         /\ t = "usb" \/ t = "endpoint"
  <1>1. item[2] \in Nat /\ Limit[t] >= 2 /\ (t # "usb" /\ t # "endpoint" => Limit[t] = 7) /\ Limit[t] \in Nat
    BY FramesAre DEF IsFramed, Limit
  <1>2. ~(item[2] <= 1)
    BY <1>1
  <1>3. item \in Large(c)
    BY <1>2, FramesAre
  <1>4. item[2] = 4 /\ item[3] = 2
    BY <1>3, LargeIs
  <1>5. ~Accepts(t, c, item)
    BY <1>4 DEF Accepts, Resp
  <1>6. t = "usb" \/ t = "endpoint"
    BY <1>1, <1>4
  <1> QED BY <1>3, <1>5, <1>6

\* A reader that gathers what arrives, when it holds a SOF and what follows: what it leaves out is
\* not wanted, what it takes is wanted, and if nothing more comes there is nothing to be taken.
Waits(t, b) == Len(b) < IF Len(b) >= 5 /\ b[2] <= Limit[t] THEN b[2] + 5 ELSE 5

LEMMA HoldsFrame == ASSUME NEW ss, NEW t \in Buffered, NEW c, Sendable(ss, t, c),
                           NEW e \in Nat, NEW b, Upto(b, FlattenSeq(ss), e), b # <<>>, b[1] = Sof,
                           NEW k \in 0 .. Len(ss), k < Len(ss), Passed(ss, t, c, k),
                           e - Len(b) = Off(ss, k), ss[k + 1] \in Frames(c)
                    PROVE  /\ ~Waits(t, b) /\ b[2] > Limit[t] => Before(ss, t, c, e - Len(b) + 1)
                           /\ ~Waits(t, b) /\ b[2] <= Limit[t] =>
                                 /\ SubSeq(b, 1, b[2] + 5) = ss[k + 1]
                                 /\ IF Accepts(t, c, ss[k + 1])
                                    THEN Best(ss, t, c) = <<Data(ss[k + 1])>>
                                    ELSE Before(ss, t, c, e - Len(b) + (b[2] + 5))
                           /\ e # Len(FlattenSeq(ss)) \/ ~Waits(t, b)
  <1>1. t \in DOMAIN Limit /\ c \in Commands /\ Limit[t] \in Nat /\ t # "endpoint"
    BY DEF Sendable, Limit, Buffered
  <1>2. PICK item : item = ss[k + 1]
    OBVIOUS
  <1>3. PICK n \in Nat : n = item[2] /\ Len(item) = n + 5
    BY <1>2, Here DEF IsFramed
  <1>4. PICK a \in Nat : a = Off(ss, k) /\ Off(ss, k + 1) = a + n + 5 /\ a + n + 5 <= Len(FlattenSeq(ss))
    BY <1>2, <1>3, Here, ItemAt
  <1>5. PICK m \in Nat : m = Len(b) /\ e - m = a /\ (m >= 2 => b[2] = n)
                         /\ (m >= n + 5 => SubSeq(b, 1, n + 5) = item)
    <2>1. Len(b) \in Nat
      BY LenProperties DEF Upto
    <2> QED BY <1>2, <1>3, <1>4, <2>1, Here
  <1>6. ~Waits(t, b) => m >= 5 /\ b[2] = n /\ (n <= Limit[t] => m >= n + 5)
    <2> SUFFICES ASSUME ~Waits(t, b) PROVE m >= 5 /\ b[2] = n /\ (n <= Limit[t] => m >= n + 5)
      OBVIOUS
    <2>1. CASE m < 5
      BY <1>5, <2>1 DEF Waits
    <2>2. CASE m >= 5
      BY <1>5, <2>2 DEF Waits
    <2> QED BY <2>1, <2>2
  <1>7. ASSUME ~Waits(t, b), b[2] > Limit[t]
        PROVE  Before(ss, t, c, e - Len(b) + 1)
    <2>1. item[2] > Limit[t] /\ item \in Frames(c)
      BY <1>2, <1>3, <1>6, <1>7
    <2>2. item \in Large(c) /\ t = "usb"
      BY <1>1, <2>1, TooLarge
    <2>3. Hops(t, c, ss[k + 1])
      BY <1>2, <2>2 DEF Hops
    <2>4. At(ss, t, c, k, a)
      BY <1>4 DEF At
    <2>5. Off(ss, k) <= a /\ a < Off(ss, k + 1)
      BY <1>4
    <2>6. Before(ss, t, c, a + 1)
      BY <2>3, <2>4, <2>5, HopOne
    <2> QED BY <1>5, <2>6
  <1>8. ASSUME ~Waits(t, b), b[2] <= Limit[t]
        PROVE  /\ SubSeq(b, 1, b[2] + 5) = item
               /\ IF Accepts(t, c, item)
                  THEN Best(ss, t, c) = <<Data(item)>>
                  ELSE Before(ss, t, c, e - Len(b) + (b[2] + 5))
    <2>1. b[2] = n /\ n <= Limit[t] /\ SubSeq(b, 1, n + 5) = item
      BY <1>5, <1>6, <1>8
    <2>2. CASE Accepts(t, c, item)
      <3>1. Stops(t, c, ss[k + 1])
        BY <1>2, <1>3, <2>1, <2>2 DEF Stops
      <3>2. Len(ss) \in Nat
        BY SentItems
      <3>3. Best(ss, t, c) = <<Data(item)>>
        BY <1>2, <2>2, <3>1, <3>2, BestIs
      <3> QED BY <2>1, <2>2, <3>3
    <2>3. CASE ~Accepts(t, c, item)
      <3>1. ~Stops(t, c, ss[k + 1])
        BY <1>1, <1>2, <2>3 DEF Stops
      <3>2. Before(ss, t, c, a + n + 5)
        BY <1>4, <3>1, PassOne
      <3>3. e - Len(b) + (b[2] + 5) = a + n + 5
        BY <1>5, <2>1
      <3> QED BY <2>1, <2>3, <3>2, <3>3
    <2> QED BY <2>2, <2>3
  <1>9. ASSUME e = Len(FlattenSeq(ss))
        PROVE  ~Waits(t, b)
    <2>1. m >= n + 5 /\ m >= 5 /\ b[2] = n
      BY <1>4, <1>5, <1>9
    <2>2. Len(b) = m /\ (IF m >= 5 /\ n <= Limit[t] THEN n + 5 ELSE 5) <= m
      BY <1>5, <2>1
    <2> QED BY <2>1, <2>2 DEF Waits
  <1> QED BY <1>2, <1>7, <1>8, <1>9

LEMMA HoldsEnd == ASSUME NEW ss, NEW c, Sendable(ss, "usb", c),
                         NEW e \in Nat, NEW b, Upto(b, FlattenSeq(ss), e), b # <<>>,
                         NEW k \in 0 .. Len(ss), k < Len(ss), Passed(ss, "usb", c, k),
                         ss[k + 1] \in Large(c), e - Len(b) + 1 = Off(ss, k + 1), Off(ss, k) < e - Len(b)
                  PROVE  /\ ~Waits("usb", b) => b[2] > Limit["usb"]
                         /\ Before(ss, "usb", c, e - Len(b) + 1)
                         /\ e = Len(FlattenSeq(ss)) /\ Waits("usb", b) => Best(ss, "usb", c) = <<>>
  <1>1. c \in Commands /\ Limit["usb"] = 2 /\ Len(ss) \in Nat
    BY SentItems DEF Limit
  <1>2. k + 1 \in 1 .. Len(ss) /\ k + 1 \in 0 .. Len(ss)
    BY ItemAt
  <1>3. ~Stops("usb", c, ss[k + 1])
    BY <1>2, SentItems DEF Hops
  <1>4. Passed(ss, "usb", c, k + 1) /\ At(ss, "usb", c, k + 1, Off(ss, k + 1)) /\ Before(ss, "usb", c, Off(ss, k + 1))
    BY <1>3, PassOne
  <1>5. PICK i \in 0 .. Len(ss) : i = k + 1 /\ i >= 1 /\ i - 1 = k
    BY <1>2
  <1>6. PICK m \in Nat : m = Len(b) /\ m <= e /\ e <= Len(FlattenSeq(ss)) /\ m # 0
    BY LenProperties, EmptySeq DEF Upto
  <1>7. \A j \in 1 .. m : b[j] = FlattenSeq(ss)[e - m + j]
    BY <1>6 DEF Upto
  <1>8. PICK o \in Nat : o = Off(ss, i) /\ e - m + 1 = o
    <2>1. Off(ss, i) \in Nat
      BY <1>1, <1>5, OffsetsStep DEF Sendable
    <2> QED BY <1>5, <1>6, <2>1
  <1>9. Len(FlattenSeq(ss)) \in Nat
    <2>1. ss \in Seq(Seq(Nat)) /\ Len(ss) \in 0 .. Len(ss)
      BY SentItems
    <2> QED BY <2>1, OffsetsStep
  <1>10. ASSUME i < Len(ss)
         PROVE  (m >= 2 => b[2] = Sof) /\ o + 5 <= Len(FlattenSeq(ss))
    <2>1. i + 1 \in 1 .. Len(ss) /\ i + 1 # 1
      BY <1>1, <1>5, <1>10
    <2>2. ss[i + 1] \in Frames(c) /\ IsFramed(ss[i + 1])
      BY <2>1, SentItems
    <2>3. PICK n \in Nat : Len(ss[i + 1]) = n + 5
      BY <2>2 DEF IsFramed
    <2>4. /\ Off(ss, i + 1) = o + (n + 5) /\ Off(ss, i + 1) <= Len(FlattenSeq(ss))
          /\ \A j \in 1 .. n + 5 : FlattenSeq(ss)[o + j] = ss[i + 1][j]
      <3>1. /\ Off(ss, i + 1) = Off(ss, i) + Len(ss[i + 1])
            /\ Off(ss, i + 1) <= Len(FlattenSeq(ss))
            /\ \A j \in 1 .. Len(ss[i + 1]) : FlattenSeq(ss)[Off(ss, i) + j] = ss[i + 1][j]
        BY <1>10, ItemAt
      <3> QED BY <1>8, <2>3, <3>1
    <2>5. o + 5 <= Len(FlattenSeq(ss))
      <3>1. PICK q \in Nat : q = Len(FlattenSeq(ss)) /\ o + (n + 5) <= q
        BY <1>9, <2>4
      <3>2. o + 5 <= q
        BY <3>1
      <3> QED BY <3>1, <3>2
    <2>6. FlattenSeq(ss)[o + 1] = Sof
      <3>1. 1 \in 1 .. n + 5
        OBVIOUS
      <3> QED BY <2>2, <2>4, <3>1 DEF IsFramed
    <2>7. m >= 2 => b[2] = FlattenSeq(ss)[o + 1]
      <3> SUFFICES ASSUME m >= 2 PROVE b[2] = FlattenSeq(ss)[o + 1]
        OBVIOUS
      <3>1. 2 \in 1 .. m /\ e - m + 2 = o + 1
        BY <1>8
      <3> QED BY <1>7, <3>1
    <2> QED BY <2>5, <2>6, <2>7
  <1>11. ASSUME i = Len(ss)
         PROVE  m = 1 /\ Best(ss, "usb", c) = <<>>
    <2>1. o = Len(FlattenSeq(ss))
      BY <1>8, <1>11, OffsetsStep DEF Sendable
    <2>2. m = 1
      BY <1>6, <1>8, <1>9, <2>1
    <2>3. Passed(ss, "usb", c, Len(ss))
      BY <1>4, <1>5, <1>11
    <2> QED BY <1>1, <2>2, <2>3, BestIs
  <1>12. i < Len(ss) \/ i = Len(ss)
    BY <1>1, <1>5
  <1>13. ASSUME ~Waits("usb", b)
         PROVE  b[2] > Limit["usb"]
    <2>1. m >= 5
      <3>1. CASE m < 5
        BY <1>6, <1>13, <3>1 DEF Waits
      <3> QED BY <3>1
    <2>2. i < Len(ss)
      BY <1>11, <1>12, <2>1
    <2>3. b[2] = 7
      BY <1>10, <2>1, <2>2 DEF Sof
    <2> QED BY <1>1, <2>3
  <1>14. ASSUME e = Len(FlattenSeq(ss)), Waits("usb", b)
         PROVE  Best(ss, "usb", c) = <<>>
    <2>1. CASE i < Len(ss)
      <3>1. b[2] = 7 /\ m >= 5
        BY <1>6, <1>8, <1>10, <1>14, <2>1 DEF Sof
      <3>2. ~Waits("usb", b)
        BY <1>1, <1>6, <3>1 DEF Waits
      <3> QED BY <1>14, <3>2
    <2> QED BY <1>11, <1>12, <2>1
  <1>15. Before(ss, "usb", c, e - Len(b) + 1)
    BY <1>4
  <1> QED BY <1>13, <1>14, <1>15

\* For command, a frame is followed by a frame.
LEMMA SofAfter == ASSUME NEW ss, NEW c, Sendable(ss, "usb", c), NEW k \in 0 .. Len(ss), k < Len(ss),
                         Off(ss, k + 1) < Len(FlattenSeq(ss))
                  PROVE  FlattenSeq(ss)[Off(ss, k + 1) + 1] = Sof
  <1>1. PICK i \in 0 .. Len(ss) : i = k + 1
    BY ItemAt
  <1>2. Len(ss) \in Nat /\ Off(ss, Len(ss)) = Len(FlattenSeq(ss)) /\ Off(ss, i) \in Nat
    BY SentItems, OffsetsStep
  <1>3. i # Len(ss)
    <2>1. i = Len(ss) => Off(ss, i) = Len(FlattenSeq(ss))
      BY <1>2
    <2>2. Off(ss, i) < Len(FlattenSeq(ss))
      BY <1>1
    <2>3. Off(ss, i) # Len(FlattenSeq(ss))
      BY <1>2, <2>2
    <2> QED BY <2>1, <2>3
  <1>4. i < Len(ss) /\ i + 1 \in 1 .. Len(ss) /\ i + 1 # 1
    BY <1>1, <1>2, <1>3
  <1>5. IsFramed(ss[i + 1])
    BY <1>4, SentItems
  <1>6. 1 \in 1 .. Len(ss[i + 1])
    BY <1>4, ItemAt
  <1>7. FlattenSeq(ss)[Off(ss, i) + 1] = ss[i + 1][1]
    BY <1>4, <1>6, ItemAt
  <1> QED BY <1>1, <1>5, <1>7 DEF IsFramed

LEMMA Gathers == ASSUME NEW ss, NEW t \in Buffered, NEW c, Sendable(ss, t, c),
                        NEW e \in Nat, NEW b, Upto(b, FlattenSeq(ss), e), b # <<>>, b[1] = Sof,
                        Before(ss, t, c, e - Len(b))
                 PROVE  /\ ~Waits(t, b) /\ b[2] > Limit[t] => Before(ss, t, c, e - Len(b) + 1)
                        /\ ~Waits(t, b) /\ b[2] <= Limit[t] =>
                              IF Accepts(t, c, SubSeq(b, 1, b[2] + 5))
                              THEN Best(ss, t, c) = <<Data(SubSeq(b, 1, b[2] + 5))>>
                              ELSE /\ Before(ss, t, c, e - Len(b) + (b[2] + 5))
                                   /\ t = "usb" /\ b[2] + 6 <= Len(b) => b[b[2] + 6] = Sof
                        /\ e = Len(FlattenSeq(ss)) /\ Waits(t, b) => Best(ss, t, c) = <<>>
  <1>1. PICK m \in Nat, p \in Nat : m = Len(b) /\ p = e - m /\ m # 0 /\ m <= e /\ e <= Len(FlattenSeq(ss))
    <2>1. Len(b) \in Nat /\ Len(b) # 0 /\ Len(b) <= e /\ e <= Len(FlattenSeq(ss))
      BY LenProperties, EmptySeq DEF Upto
    <2>2. e - Len(b) \in Nat
      BY <2>1
    <2> QED BY <2>1, <2>2
  <1>2. PICK k \in 0 .. Len(ss) : Passed(ss, t, c, k) /\ At(ss, t, c, k, p)
    BY <1>1 DEF Before
  <1>3. \A j \in 1 .. m : b[j] = FlattenSeq(ss)[p + j]
    BY <1>1 DEF Upto
  <1>4. ss \in Seq(Seq(Nat)) /\ Len(ss) \in Nat /\ Len(FlattenSeq(ss)) \in Nat
    <2>1. ss \in Seq(Seq(Nat)) /\ Len(ss) \in Nat /\ Len(ss) \in 0 .. Len(ss)
      BY SentItems
    <2> QED BY <2>1, OffsetsStep
  <1>5. FlattenSeq(ss)[p + 1] = Sof /\ p < Len(FlattenSeq(ss))
    <2>1. 1 \in 1 .. m
      BY <1>1
    <2>2. p < Len(FlattenSeq(ss))
      BY <1>1, <1>4
    <2> QED BY <1>3, <2>1, <2>2
  <1>6. k < Len(ss) /\ \/ p = Off(ss, k) /\ ss[k + 1] \in Frames(c)
                       \/ t = "usb" /\ ss[k + 1] \in Large(c) /\ p + 1 = Off(ss, k + 1) /\ Off(ss, k) < p
    BY <1>2, <1>5, AtSof
  <1>7. CASE p = Off(ss, k) /\ ss[k + 1] \in Frames(c)
    <2>1. e - Len(b) = Off(ss, k)
      BY <1>1, <1>7
    <2>2. /\ ~Waits(t, b) /\ b[2] > Limit[t] => Before(ss, t, c, e - Len(b) + 1)
          /\ ~Waits(t, b) /\ b[2] <= Limit[t] =>
                /\ SubSeq(b, 1, b[2] + 5) = ss[k + 1]
                /\ IF Accepts(t, c, ss[k + 1])
                   THEN Best(ss, t, c) = <<Data(ss[k + 1])>>
                   ELSE Before(ss, t, c, e - Len(b) + (b[2] + 5))
          /\ e # Len(FlattenSeq(ss)) \/ ~Waits(t, b)
      BY <1>2, <1>6, <1>7, <2>1, HoldsFrame
    <2>3. ASSUME ~Waits(t, b), t = "usb", b[2] + 6 <= Len(b)
          PROVE  b[b[2] + 6] = Sof
      <3>1. m >= 5
        <4>1. CASE m < 5
          BY <1>1, <2>3, <4>1 DEF Waits
        <4> QED BY <4>1
      <3>2. PICK n \in Nat : n = b[2]
        <4>1. 2 \in 1 .. Len(b)
          BY <1>1, <3>1
        <4>2. b[2] \in Nat
          BY <4>1, ElementOfSeq DEF Upto
        <4> QED BY <4>2
      <3>3. Off(ss, k + 1) = Off(ss, k) + ss[k + 1][2] + 5 /\ b[2] = ss[k + 1][2]
        BY <1>1, <1>6, <1>7, <2>1, <3>1, Here
      <3>4. Off(ss, k + 1) = p + n + 5
        BY <1>7, <3>2, <3>3
      <3>5. n + 6 \in 1 .. m /\ p + (n + 6) = (p + n + 5) + 1
        BY <1>1, <2>3, <3>2
      <3>6. p + n + 5 < Len(FlattenSeq(ss))
        BY <1>1, <1>4, <2>3, <3>2
      <3>7. FlattenSeq(ss)[Off(ss, k + 1) + 1] = Sof
        BY <1>6, <2>3, <3>4, <3>6, SofAfter
      <3> QED BY <1>3, <3>2, <3>4, <3>5, <3>7
    <2> QED BY <2>2, <2>3
  <1>8. CASE t = "usb" /\ ss[k + 1] \in Large(c) /\ p + 1 = Off(ss, k + 1) /\ Off(ss, k) < p
    <2>1. e - Len(b) + 1 = Off(ss, k + 1) /\ Off(ss, k) < e - Len(b)
      BY <1>1, <1>8
    <2>2. Sendable(ss, "usb", c) /\ Passed(ss, "usb", c, k)
      BY <1>2, <1>8
    <2>3. /\ ~Waits("usb", b) => b[2] > Limit["usb"]
          /\ Before(ss, "usb", c, e - Len(b) + 1)
          /\ e = Len(FlattenSeq(ss)) /\ Waits("usb", b) => Best(ss, "usb", c) = <<>>
      BY <1>6, <1>8, <2>1, <2>2, HoldsEnd
    <2>4. ~Waits("usb", b) => ~(b[2] <= Limit["usb"])
      <3> SUFFICES ASSUME ~Waits("usb", b) PROVE ~(b[2] <= Limit["usb"])
        OBVIOUS
      <3>1. m >= 5
        <4>1. CASE m < 5
          BY <1>1, <4>1 DEF Waits
        <4> QED BY <4>1
      <3>2. b[2] \in Nat
        <4>1. 2 \in 1 .. Len(b)
          BY <1>1, <3>1
        <4> QED BY <4>1, ElementOfSeq DEF Upto
      <3>3. b[2] > Limit["usb"] /\ Limit["usb"] = 2
        BY <2>3 DEF Limit
      <3> QED BY <3>2, <3>3
    <2> QED BY <1>8, <2>3, <2>4
  <1> QED BY <1>6, <1>7, <1>8

\* Nothing is missed by looking for the first SOF.
LEMMA LooksForSof == ASSUME NEW ss, NEW t, NEW c, Sendable(ss, t, c), NEW e \in Nat, NEW b, Upto(b, FlattenSeq(ss), e),
                            Before(ss, t, c, e - Len(b))
                     PROVE  Before(ss, t, c, e - Len(FromSof(b)))
  <1>1. b \in Seq(Nat) /\ FlattenSeq(ss) \in Seq(Nat)
    <2>1. ss \in Seq(Seq(Nat)) /\ Len(ss) \in 0 .. Len(ss) /\ b \in Seq(Nat)
      BY SentItems DEF Upto
    <2>2. PICK f : Chain(f, ss, Nat) /\ FlattenSeq(ss) = f[Len(ss)]
      BY <2>1, FlattenChain
    <2> QED BY <2>1, <2>2 DEF Chain
  <1>2. PICK m \in Nat, p \in Nat : m = Len(b) /\ p = e - m /\ m <= e /\ e <= Len(FlattenSeq(ss))
    <2>1. Len(b) \in Nat /\ Len(b) <= e /\ e <= Len(FlattenSeq(ss))
      BY LenProperties DEF Upto
    <2>2. e - Len(b) \in Nat
      BY <2>1
    <2> QED BY <2>1, <2>2
  <1>3. \A j \in 1 .. m : b[j] = FlattenSeq(ss)[p + j]
    BY <1>2 DEF Upto
  <1>4. Len(FlattenSeq(ss)) \in Nat
    BY <1>1, LenProperties
  <1>5. ASSUME NEW r \in Nat, r <= m, \A i \in 1 .. r : b[i] # Sof
        PROVE  Before(ss, t, c, p + r)
    <2>1. ASSUME NEW j \in p + 1 .. p + r
          PROVE  FlattenSeq(ss)[j] # Sof
      <3>1. j - p \in 1 .. r /\ j - p \in 1 .. m /\ p + (j - p) = j
        BY <1>5
      <3> QED BY <1>3, <1>5, <3>1
    <2>2. p + r \in Nat /\ p <= p + r /\ p + r <= Len(FlattenSeq(ss))
      BY <1>2, <1>4, <1>5
    <2>3. Before(ss, t, c, p)
      BY <1>2
    <2> QED BY <2>1, <2>2, <2>3, Skip
  <1>6. CASE FromSof(b) = <<>> /\ \A i \in 1 .. Len(b) : b[i] # Sof
    <2>1. Before(ss, t, c, p + m)
      BY <1>2, <1>5, <1>6
    <2>2. Len(FromSof(b)) = 0 /\ e - 0 = p + m
      BY <1>2, <1>6
    <2> QED BY <2>1, <2>2
  <1>7. ASSUME NEW k \in 1 .. Len(b), FromSof(b) = SubSeq(b, k, Len(b)), \A i \in 1 .. k - 1 : b[i] # Sof
        PROVE  Before(ss, t, c, e - Len(FromSof(b)))
    <2>1. k \in 1 .. Len(b) + 1 /\ k - 1 \in Nat /\ k - 1 <= m
      BY <1>2
    <2>2. Len(SubSeq(b, k, Len(b))) = Len(b) - k + 1
      BY <1>1, <2>1, UptoRest
    <2>3. Before(ss, t, c, p + (k - 1))
      BY <1>5, <1>7, <2>1
    <2>4. e - (m - k + 1) = p + (k - 1)
      BY <1>2
    <2> QED BY <1>2, <1>7, <2>2, <2>3, <2>4
  <1> QED BY <1>1, <1>6, <1>7, FromSofOf

LEMMA EndsWithNone == ASSUME NEW ss, NEW t, NEW c, Sendable(ss, t, c), NEW p, Before(ss, t, c, p),
                             Len(FlattenSeq(ss)) <= p
                      PROVE  Best(ss, t, c) = <<>>
  <1>1. PICK k \in 0 .. Len(ss) : Passed(ss, t, c, k) /\ At(ss, t, c, k, p)
    BY DEF Before
  <1>2. k = Len(ss)
    BY <1>1, AtEnd
  <1>3. Len(ss) \in Nat
    BY SentItems
  <1> QED BY <1>1, <1>2, <1>3, BestIs

\* As long as nothing was hurried, what the reader has not yet used holds the first answer.
FirstInv ==
    Tidy(sent, tool, want) /\ ~hurried =>
        /\ phase = "done" => answer = Best(sent, tool, want)
        /\ phase # "done" => Before(sent, tool, want, seen - Len(buffer))
        /\ phase = "frames" /\ tool = "usb" /\ buffer # <<>> => buffer[1] = Sof

LEMMA ReaderSends == ASSUME ReaderInv, Tidy(sent, tool, want)
                     PROVE  /\ Sendable(sent, tool, want) /\ Upto(buffer, FlattenSeq(sent), seen) /\ seen \in Nat
                            /\ FlattenSeq(sent) \in Seq(Nat) /\ Len(FlattenSeq(sent)) \in Nat
  BY StreamType DEF ReaderInv, Sendable, Stream

LEMMA FirstInitially == ReaderInit => FirstInv
  <1> SUFFICES ASSUME ReaderInit, Tidy(sent, tool, want) PROVE FirstInv
    BY DEF FirstInv
  <1>1. Sendable(sent, tool, want)
    BY ReaderInitially, ReaderSends
  <1>2. seen = 0 /\ buffer = <<>> /\ phase # "done" /\ phase # "frames"
    BY DEF ReaderInit
  <1>3. Len(sent) \in Nat /\ Off(sent, 0) = 0
    BY <1>1, SentItems, OffsetsStep
  <1>4. At(sent, tool, want, 0, 0) /\ Passed(sent, tool, want, 0)
    BY <1>3 DEF At, Passed
  <1>5. Before(sent, tool, want, 0)
    BY <1>3, <1>4 DEF Before
  <1>6. seen - Len(buffer) = 0
    <2>1. Len(buffer) = 0
      BY <1>2, EmptySeq
    <2>2. seen = 0
      BY <1>2
    <2> QED BY <2>1, <2>2
  <1> QED BY <1>2, <1>5, <1>6 DEF FirstInv

LEMMA SelectFirst == ASSUME ReaderInv, FirstInv, Select, Tidy(sent, tool, want), ~hurried
                     PROVE  FirstInv'
  <1>1. PICK upto \in seen .. Len(Stream) :
          LET all == buffer \o SubSeq(Stream, seen + 1, upto) IN
          seen' = upto /\ buffer' = IF tool = "usb" THEN FromSof(all) ELSE all
    BY DEF Select
  <1>2. PICK all : all = buffer \o SubSeq(FlattenSeq(sent), seen + 1, upto)
    OBVIOUS
  <1>3. seen' = upto /\ buffer' = IF tool = "usb" THEN FromSof(all) ELSE all
    BY <1>1, <1>2 DEF Stream
  <1>4. phase = "select" /\ phase' = "frames" /\ UNCHANGED <<tool, want, sent>>
    BY DEF Select, To
  <1>5. /\ Sendable(sent, tool, want) /\ Upto(buffer, FlattenSeq(sent), seen) /\ seen \in Nat
        /\ FlattenSeq(sent) \in Seq(Nat) /\ Len(FlattenSeq(sent)) \in Nat
    BY ReaderSends
  <1>6. upto \in Nat /\ upto \in seen .. Len(FlattenSeq(sent))
    BY <1>5 DEF Stream
  <1>7. Upto(all, FlattenSeq(sent), upto) /\ Len(all) = Len(buffer) + (upto - seen) /\ Len(buffer) \in Nat
    <2>1. Len(buffer) \in Nat
      BY <1>5, LenProperties DEF Upto
    <2>2. /\ Upto(buffer \o SubSeq(FlattenSeq(sent), seen + 1, upto), FlattenSeq(sent), upto)
          /\ Len(buffer \o SubSeq(FlattenSeq(sent), seen + 1, upto)) = Len(buffer) + (upto - seen)
      BY <1>5, <1>6, UptoMore
    <2> QED BY <1>2, <2>1, <2>2
  <1>8. upto - Len(all) = seen - Len(buffer)
    BY <1>5, <1>6, <1>7
  <1>9. Before(sent, tool, want, upto - Len(all))
    BY <1>4, <1>8 DEF FirstInv
  <1>10. Before(sent, tool, want, upto - Len(FromSof(all)))
    BY <1>5, <1>6, <1>7, <1>9, LooksForSof
  <1>11. FromSof(all) # <<>> => FromSof(all)[1] = Sof
    BY <1>5, <1>6, <1>7, FromSofUpto
  <1>12. Before(sent, tool, want, seen' - Len(buffer'))
    BY <1>3, <1>9, <1>10
  <1>13. tool = "usb" /\ buffer' # <<>> => buffer'[1] = Sof
    BY <1>3, <1>11
  <1> QED BY <1>4, <1>12, <1>13 DEF FirstInv

LEMMA TakeFrameFirst == ASSUME ReaderInv, FirstInv, TakeFrame, Tidy(sent, tool, want), ~hurried
                        PROVE  FirstInv'
  <1>1. PICK all : all = IF tool = "reset" THEN FromSof(buffer) ELSE buffer
    OBVIOUS
  <1>2. /\ phase = "frames" /\ UNCHANGED <<seen, hurried>>
        /\ \/ Incomplete(all) /\ buffer' = all /\ To("select") /\ UNCHANGED answer
           \/ ~Incomplete(all) /\ all[2] > Limit[tool] /\ buffer' = Tail(all) /\ To("select") /\ UNCHANGED answer
           \/ /\ ~Incomplete(all) /\ all[2] <= Limit[tool]
              /\ LET frame == SubSeq(all, 1, all[2] + 5) IN
                 IF Accepts(tool, want, frame) THEN Ends(<<Data(frame)>>) ELSE To("frames") /\ UNCHANGED answer
              /\ buffer' = SubSeq(all, all[2] + 6, Len(all))
    BY <1>1 DEF TakeFrame
  <1>3. UNCHANGED <<tool, want, sent>>
    BY <1>2 DEF To, Ends
  <1>4. /\ Sendable(sent, tool, want) /\ Upto(buffer, FlattenSeq(sent), seen) /\ seen \in Nat
        /\ FlattenSeq(sent) \in Seq(Nat) /\ Len(FlattenSeq(sent)) \in Nat
    BY ReaderSends
  <1>5. Before(sent, tool, want, seen - Len(buffer)) /\ (tool = "usb" /\ buffer # <<>> => buffer[1] = Sof)
    BY <1>2 DEF FirstInv
  <1>6. tool \in Buffered /\ (tool = "reset" \/ tool = "usb")
    BY <1>2 DEF ReaderInv, Buffered
  <1>7. Upto(all, FlattenSeq(sent), seen) /\ (all # <<>> => all[1] = Sof) /\ Before(sent, tool, want, seen - Len(all))
    BY <1>1, <1>4, <1>5, <1>6, FromSofUpto, LooksForSof
  <1>8. Incomplete(all) <=> Waits(tool, all)
    BY DEF Incomplete, Waits
  <1>9. all \in Seq(Nat) /\ Len(all) \in Nat
    BY <1>7, LenProperties DEF Upto
  <1>10. ~Waits(tool, all) => all # <<>> /\ Len(all) >= 5 /\ all[2] \in Nat /\ (all[2] <= Limit[tool] => Len(all) >= all[2] + 5)
    <2> SUFFICES ASSUME ~Waits(tool, all)
                 PROVE  all # <<>> /\ Len(all) >= 5 /\ all[2] \in Nat /\ (all[2] <= Limit[tool] => Len(all) >= all[2] + 5)
      OBVIOUS
    <2>1. Len(all) >= 5
      <3>1. CASE Len(all) < 5
        BY <1>9, <3>1 DEF Waits
      <3> QED BY <1>9, <3>1
    <2>2. all # <<>>
      BY <1>9, <2>1, EmptySeq
    <2>3. 2 \in 1 .. Len(all)
      BY <1>9, <2>1
    <2>4. all[2] \in Nat
      BY <1>9, <2>3, ElementOfSeq
    <2>5. all[2] <= Limit[tool] => Len(all) >= all[2] + 5
      BY <1>9, <2>1, <2>4 DEF Waits
    <2> QED BY <2>1, <2>2, <2>4, <2>5
  <1>11. CASE Incomplete(all) /\ buffer' = all /\ To("select") /\ UNCHANGED answer
    <2>1. phase' = "select" /\ seen' - Len(buffer') = seen - Len(all)
      BY <1>2, <1>11 DEF To
    <2> QED BY <1>3, <1>7, <2>1 DEF FirstInv
  <1>12. CASE ~Incomplete(all) /\ all[2] > Limit[tool] /\ buffer' = Tail(all) /\ To("select") /\ UNCHANGED answer
    <2>1. all # <<>> /\ ~Waits(tool, all) /\ all[2] > Limit[tool]
      BY <1>8, <1>10, <1>12
    <2>2. Before(sent, tool, want, seen - Len(all) + 1)
      BY <1>4, <1>6, <1>7, <2>1, Gathers
    <2>3. Len(Tail(all)) = Len(all) - 1
      BY <1>9, <2>1, HeadTailProperties
    <2>4. seen - Len(Tail(all)) = seen - Len(all) + 1
      <3>1. \A x, y, z \in Nat : z = y - 1 => x - z = x - y + 1
        OBVIOUS
      <3>2. seen \in Nat /\ Len(all) \in Nat /\ Len(Tail(all)) \in Nat
        <4>1. Tail(all) \in Seq(Nat)
          BY <1>9, <2>1, HeadTailProperties
        <4> QED BY <1>4, <1>9, <4>1, LenProperties
      <3> QED BY <2>3, <3>1, <3>2, Zenon
    <2>5. phase' = "select" /\ buffer' = Tail(all) /\ seen' = seen
      BY <1>2, <1>12 DEF To
    <2> QED BY <1>3, <2>2, <2>4, <2>5 DEF FirstInv
  <1>13. ASSUME ~Incomplete(all), all[2] <= Limit[tool],
                LET frame == SubSeq(all, 1, all[2] + 5) IN
                IF Accepts(tool, want, frame) THEN Ends(<<Data(frame)>>) ELSE To("frames") /\ UNCHANGED answer,
                buffer' = SubSeq(all, all[2] + 6, Len(all))
         PROVE  FirstInv'
    <2>1. all # <<>> /\ ~Waits(tool, all) /\ Len(all) >= 5 /\ all[2] \in Nat /\ Len(all) >= all[2] + 5
      BY <1>8, <1>10, <1>13
    <2>2. PICK n \in Nat : n = all[2] /\ n + 6 \in 1 .. Len(all) + 1
      BY <1>9, <2>1
    <2>3. PICK frame : frame = SubSeq(all, 1, n + 5)
      OBVIOUS
    <2>4. IF Accepts(tool, want, frame)
          THEN Best(sent, tool, want) = <<Data(frame)>>
          ELSE /\ Before(sent, tool, want, seen - Len(all) + (n + 5))
               /\ tool = "usb" /\ n + 6 <= Len(all) => all[n + 6] = Sof
      <3>1. ~Waits(tool, all) /\ all[2] <= Limit[tool] =>
              IF Accepts(tool, want, SubSeq(all, 1, all[2] + 5))
              THEN Best(sent, tool, want) = <<Data(SubSeq(all, 1, all[2] + 5))>>
              ELSE /\ Before(sent, tool, want, seen - Len(all) + (all[2] + 5))
                   /\ tool = "usb" /\ all[2] + 6 <= Len(all) => all[all[2] + 6] = Sof
        BY <1>4, <1>6, <1>7, <2>1, Gathers
      <3> QED BY <1>13, <2>1, <2>2, <2>3, <3>1
    <2>5. CASE Accepts(tool, want, frame)
      <3>1. phase' = "done" /\ answer' = <<Data(frame)>>
        BY <1>13, <2>2, <2>3, <2>5 DEF Ends, To
      <3>2. answer' = Best(sent, tool, want)
        BY <2>4, <2>5, <3>1
      <3> QED BY <1>3, <3>1, <3>2 DEF FirstInv
    <2>6. CASE ~Accepts(tool, want, frame)
      <3>1. phase' = "frames"
        BY <1>13, <2>2, <2>3, <2>6 DEF To
      <3>2. buffer' = SubSeq(all, n + 6, Len(all))
        BY <1>13, <2>2
      <3>3. /\ Len(buffer') = Len(all) - (n + 6) + 1
            /\ n + 6 <= Len(all) => buffer'[1] = all[n + 6]
        BY <1>4, <1>7, <2>2, <3>2, UptoRest
      <3>4. seen - Len(buffer') = seen - Len(all) + (n + 5)
        BY <1>4, <1>9, <3>3
      <3>5. buffer' # <<>> => n + 6 <= Len(all)
        <4>1. CASE ~(n + 6 <= Len(all))
          <5>1. Len(buffer') = 0
            BY <1>9, <2>2, <3>3, <4>1
          <5>2. buffer' \in Seq(Nat)
            BY <1>4, <1>7, <2>2, <3>2, UptoRest DEF Upto
          <5> QED BY <5>1, <5>2, EmptySeq
        <4> QED BY <4>1
      <3>6. tool = "usb" /\ buffer' # <<>> => buffer'[1] = Sof
        BY <2>4, <2>6, <3>3, <3>5
      <3>7. Before(sent, tool, want, seen' - Len(buffer'))
        BY <1>2, <2>4, <2>6, <3>4
      <3> QED BY <1>3, <3>1, <3>6, <3>7 DEF FirstInv
    <2> QED BY <2>5, <2>6
  <1> QED BY <1>2, <1>11, <1>12, <1>13

\* Where a reader without a buffer reads on from a SOF, a frame begins.
LEMMA PieceOfFrame == ASSUME ReaderInv, FirstInv, Tidy(sent, tool, want), ~hurried, phase \in {"head", "tail"}
                      PROVE  \E k \in 0 .. Len(sent) : /\ k < Len(sent) /\ Passed(sent, tool, want, k)
                                                       /\ sent[k + 1] \in Frames(want)
                                                       /\ seen - Len(buffer) = Off(sent, k)
  <1>1. /\ Sendable(sent, tool, want) /\ Upto(buffer, FlattenSeq(sent), seen) /\ seen \in Nat
        /\ FlattenSeq(sent) \in Seq(Nat) /\ Len(FlattenSeq(sent)) \in Nat
    BY ReaderSends
  <1>2. tool # "usb" /\ buffer[1] = Sof /\ (Len(buffer) = 1 \/ Len(buffer) = 4)
    BY DEF ReaderInv, Buffered
  <1>3. Before(sent, tool, want, seen - Len(buffer))
    BY DEF FirstInv
  <1>4. PICK m \in Nat, p \in Nat : m = Len(buffer) /\ p = seen - m /\ p < Len(FlattenSeq(sent)) /\ 1 \in 1 .. m
                                    /\ seen - Len(buffer) = p
    <2>1. Len(buffer) \in Nat /\ Len(buffer) <= seen /\ seen <= Len(FlattenSeq(sent))
      BY <1>1, <1>2 DEF Upto
    <2>2. seen - Len(buffer) \in Nat /\ seen - Len(buffer) < Len(FlattenSeq(sent)) /\ 1 \in 1 .. Len(buffer)
      BY <1>1, <1>2, <2>1
    <2> QED BY <2>1, <2>2
  <1>5. FlattenSeq(sent)[p + 1] = Sof
    BY <1>1, <1>2, <1>4 DEF Upto
  <1>6. PICK k \in 0 .. Len(sent) : Passed(sent, tool, want, k) /\ At(sent, tool, want, k, p)
    BY <1>3, <1>4 DEF Before
  <1>7. k < Len(sent) /\ p = Off(sent, k) /\ sent[k + 1] \in Frames(want)
    BY <1>1, <1>2, <1>4, <1>5, <1>6, AtSof
  <1> QED BY <1>4, <1>6, <1>7

LEMMA StartFirst == ASSUME ReaderInv, FirstInv, ReadStart, Tidy(sent, tool, want), ~hurried, ~hurried'
                    PROVE  FirstInv'
  <1>1. phase = "start" /\ tool \notin Buffered /\ tool # "usb" /\ buffer = <<>>
    BY DEF ReadStart, ReaderInv, Buffered
  <1>2. /\ Sendable(sent, tool, want) /\ seen \in Nat /\ seen <= Len(FlattenSeq(sent))
        /\ FlattenSeq(sent) \in Seq(Nat) /\ Len(FlattenSeq(sent)) \in Nat
    BY ReaderSends DEF Upto
  <1>3. Before(sent, tool, want, seen)
    <2>1. Len(buffer) = 0
      BY <1>1, EmptySeq
    <2>2. seen - Len(buffer) = seen
      BY <1>2, <2>1
    <2> QED BY <1>1, <2>2 DEF FirstInv
  <1>4. CASE Reads(1) /\ Stream[seen'] = Sof /\ To("head") /\ UNCHANGED answer
    <2>1. /\ seen' = seen + 1 /\ buffer' = buffer \o SubSeq(Stream, seen + 1, seen + 1)
          /\ seen + 1 <= Len(Stream)
          /\ phase' = "head" /\ UNCHANGED <<tool, want, sent, answer>>
      BY <1>4 DEF Reads, To
    <2>2. Len(buffer') = Len(buffer) + 1
      BY <2>1, NextBytes
    <2>3. Len(buffer') = 1
      <3>1. Len(buffer) = 0
        BY <1>1, EmptySeq
      <3> QED BY <2>2, <3>1
    <2>4. seen' - Len(buffer') = seen
      BY <1>2, <2>1, <2>3
    <2> QED BY <1>1, <1>3, <2>1, <2>4 DEF FirstInv
  <1>5. CASE /\ seen < Len(Stream) /\ Stream[seen + 1] # Sof
             /\ seen' = seen + 1 /\ To("start") /\ UNCHANGED <<buffer, answer, hurried>>
    <2>1. phase' = "start" /\ buffer' = <<>> /\ UNCHANGED <<tool, want, sent>>
      BY <1>1, <1>5 DEF To
    <2>2. Before(sent, tool, want, seen + 1)
      BY <1>2, <1>3, <1>5, SkipOne DEF Stream
    <2>3. seen' - Len(buffer') = seen + 1
      <3>1. Len(buffer') = 0
        BY <2>1, EmptySeq
      <3> QED BY <1>2, <1>5, <3>1
    <2> QED BY <1>1, <2>1, <2>2, <2>3 DEF FirstInv
  <1>6. CASE ReadsShort(1)
    <2>1. PICK got \in 0 .. 1 - 1 : seen + got <= Len(Stream) /\ seen' = seen + got
      BY <1>6 DEF ReadsShort
    <2>2. /\ buffer' = <<>> /\ seen >= Len(FlattenSeq(sent)) /\ UNCHANGED <<tool, want, sent>>
          /\ \/ phase' = "start"
             \/ phase' = "done" /\ answer' = <<>>
      <3>1. ~(seen < Len(FlattenSeq(sent)))
        BY <1>6 DEF ReadsShort, Stream
      <3> QED BY <1>2, <1>6, <3>1 DEF ReadsShort, Ends, To
    <2>3. seen' - Len(buffer') = seen
      <3>1. Len(buffer') = 0
        BY <2>2, EmptySeq
      <3>2. got = 0
        BY <2>1
      <3> QED BY <1>2, <2>1, <3>1, <3>2
    <2>4. Best(sent, tool, want) = <<>>
      BY <1>2, <1>3, <2>2, EndsWithNone
    <2> QED BY <1>1, <1>3, <2>2, <2>3, <2>4 DEF FirstInv
  <1> QED BY <1>4, <1>5, <1>6 DEF ReadStart

LEMMA HeadFirst == ASSUME ReaderInv, FirstInv, ReadHead, Tidy(sent, tool, want), ~hurried, ~hurried'
                   PROVE  FirstInv'
  <1>1. phase = "head" /\ tool \notin Buffered /\ tool # "usb" /\ Len(buffer) = 1
    BY DEF ReadHead, ReaderInv, Buffered
  <1>2. /\ Sendable(sent, tool, want) /\ seen \in Nat
        /\ FlattenSeq(sent) \in Seq(Nat) /\ Len(FlattenSeq(sent)) \in Nat
    BY ReaderSends
  <1>3. ~ReadsShort(3)
    <2> SUFFICES ASSUME ReadsShort(3) PROVE hurried'
      OBVIOUS
    <2>1. hurried' = (hurried \/ 3 > 1 \/ seen < Len(Stream))
      BY DEF ReadsShort
    <2>2. 3 > 1
      OBVIOUS
    <2> QED BY <2>1, <2>2, Zenon
  <1>4. Reads(3) /\ IF buffer'[2] > Limit[tool] THEN Ends(<<>>) ELSE To("tail") /\ UNCHANGED answer
    BY <1>3 DEF ReadHead
  <1>5. /\ seen' = seen + 3 /\ buffer' = buffer \o SubSeq(Stream, seen + 1, seen + 3)
        /\ seen + 3 <= Len(Stream)
        /\ UNCHANGED <<tool, want, sent>>
    BY <1>4 DEF Reads, To, Ends
  <1>6. Upto(buffer', FlattenSeq(sent), seen') /\ Len(buffer') = 4 /\ seen' \in Nat
    <2>1. Upto(buffer', Stream, seen') /\ Len(buffer') = Len(buffer) + 3 /\ seen' \in Nat
      BY <1>5, NextBytes
    <2>2. Len(buffer') = 4
      BY <1>1, <2>1
    <2> QED BY <2>1, <2>2 DEF Stream
  <1>7. seen' - Len(buffer') = seen - Len(buffer)
    BY <1>1, <1>2, <1>5, <1>6
  <1>8. CASE ~(buffer'[2] > Limit[tool])
    <2>1. phase' = "tail"
      BY <1>4, <1>8 DEF To
    <2>2. Before(sent, tool, want, seen - Len(buffer))
      BY <1>1 DEF FirstInv
    <2> QED BY <1>5, <1>7, <2>1, <2>2 DEF FirstInv
  <1>9. CASE buffer'[2] > Limit[tool]
    <2>1. phase' = "done" /\ answer' = <<>>
      BY <1>4, <1>9 DEF To, Ends
    <2>2. PICK k \in 0 .. Len(sent) : /\ k < Len(sent) /\ Passed(sent, tool, want, k)
                                      /\ sent[k + 1] \in Frames(want)
                                      /\ seen - Len(buffer) = Off(sent, k)
      BY <1>1, PieceOfFrame
    <2>3. buffer'[2] = sent[k + 1][2]
      <3>1. seen' - Len(buffer') = Off(sent, k) /\ Len(buffer') >= 2
        BY <1>6, <1>7, <2>2
      <3>2. Len(buffer') >= 2 => buffer'[2] = sent[k + 1][2]
        BY <1>2, <1>6, <2>2, <3>1, Here
      <3> QED BY <3>1, <3>2
    <2>4. sent[k + 1][2] > Limit[tool] /\ tool \in DOMAIN Limit /\ want \in Commands
      BY <1>2, <1>9, <2>3 DEF Sendable
    <2>5. ~Accepts(tool, want, sent[k + 1]) /\ tool = "endpoint"
      BY <1>1, <2>2, <2>4, TooLarge
    <2>6. Stops(tool, want, sent[k + 1])
      BY <2>2, <2>4, <2>5 DEF Stops
    <2>7. Best(sent, tool, want) = <<>>
      <3>1. Len(sent) \in Nat
        BY <1>2, SentItems
      <3> QED BY <2>2, <2>5, <2>6, <3>1, BestIs
    <2> QED BY <1>5, <2>1, <2>7 DEF FirstInv
  <1> QED BY <1>8, <1>9

LEMMA TailFirst == ASSUME ReaderInv, FirstInv, ReadTail, Tidy(sent, tool, want), ~hurried, ~hurried'
                   PROVE  FirstInv'
  <1>1. /\ phase = "tail" /\ tool \notin Buffered /\ tool # "usb" /\ Len(buffer) = 4
        /\ buffer \in Seq(Nat) /\ buffer[2] <= Limit[tool]
    BY DEF ReadTail, ReaderInv, Buffered, Upto
  <1>2. /\ Sendable(sent, tool, want) /\ Upto(buffer, FlattenSeq(sent), seen) /\ seen \in Nat
        /\ FlattenSeq(sent) \in Seq(Nat) /\ Len(FlattenSeq(sent)) \in Nat
    BY ReaderSends
  <1>3. PICK l \in Nat : l = buffer[2] /\ seen + buffer[2] + 1 = seen + (l + 1)
    <2>1. 2 \in 1 .. Len(buffer)
      BY <1>1
    <2>2. buffer[2] \in Nat
      BY <1>1, <2>1, ElementOfSeq
    <2> QED BY <1>2, <2>2
  <1>4. PICK k \in 0 .. Len(sent) : /\ k < Len(sent) /\ Passed(sent, tool, want, k)
                                    /\ sent[k + 1] \in Frames(want)
                                    /\ seen - Len(buffer) = Off(sent, k)
    BY <1>1, PieceOfFrame
  <1>5. /\ buffer[2] = sent[k + 1][2] /\ Off(sent, k + 1) = Off(sent, k) + sent[k + 1][2] + 5
        /\ Off(sent, k + 1) <= Len(FlattenSeq(sent))
    <2>1. Len(buffer) >= 2
      BY <1>1
    <2> QED BY <1>2, <1>4, <2>1, Here
  <1>6. Off(sent, k + 1) = seen + (l + 1) /\ seen + (l + 1) <= Len(FlattenSeq(sent))
    <2>1. Off(sent, k) = seen - 4
      BY <1>1, <1>4
    <2>2. Off(sent, k + 1) = Off(sent, k) + l + 5
      BY <1>3, <1>5
    <2>3. \A x \in Nat : (seen - 4) + x + 5 = seen + (x + 1)
      BY <1>2
    <2>4. Off(sent, k + 1) = seen + (l + 1)
      BY <2>1, <2>2, <2>3
    <2> QED BY <1>5, <2>4
  <1>7. ~ReadsShort(l + 1)
    <2> SUFFICES ASSUME ReadsShort(l + 1) PROVE hurried'
      OBVIOUS
    <2>1. hurried' = (hurried \/ l + 1 > 1 \/ seen < Len(Stream))
      BY DEF ReadsShort
    <2>2. seen < Len(Stream)
      <3>1. PICK x \in Nat : x = Len(FlattenSeq(sent)) /\ seen + (l + 1) <= x
        BY <1>2, <1>6
      <3>2. seen < x
        BY <1>2, <3>1
      <3> QED BY <3>1, <3>2 DEF Stream
    <2> QED BY <2>1, <2>2, Zenon
  <1>8. PICK frame : frame = buffer \o SubSeq(Stream, seen + 1, seen + (l + 1))
    OBVIOUS
  <1>9. /\ seen + (l + 1) <= Len(Stream) /\ seen' = seen + (l + 1) /\ buffer' = <<>>
        /\ \/ Accepts(tool, want, frame) /\ Ends(<<Data(frame)>>)
           \/ /\ ~Accepts(tool, want, frame)
              /\ IF tool = "endpoint" /\ Check(Tail(frame)) # 0
                 THEN Ends(<<>>)
                 ELSE To("start") /\ UNCHANGED answer
    BY <1>3, <1>7, <1>8 DEF ReadTail
  <1>10. UNCHANGED <<tool, want, sent>>
    BY <1>9 DEF To, Ends
  <1>11. /\ Upto(frame, FlattenSeq(sent), seen') /\ Len(frame) = l + 5 /\ seen' \in Nat /\ frame \in Seq(Nat)
         /\ frame[2] = l
    <2>1. /\ Upto(frame, Stream, seen') /\ Len(frame) = Len(buffer) + (l + 1) /\ seen' \in Nat
          /\ \A i \in 1 .. Len(buffer) : frame[i] = buffer[i]
      <3>1. l + 1 \in Nat /\ seen + (l + 1) <= Len(Stream)
        BY <1>9
      <3>2. /\ Upto(buffer \o SubSeq(Stream, seen + 1, seen + (l + 1)), Stream, seen + (l + 1))
            /\ Len(buffer \o SubSeq(Stream, seen + 1, seen + (l + 1))) = Len(buffer) + (l + 1)
            /\ \A i \in 1 .. Len(buffer) :
                 (buffer \o SubSeq(Stream, seen + 1, seen + (l + 1)))[i] = buffer[i]
            /\ seen + (l + 1) \in Nat
        BY <3>1, NextBytes
      <3>3. seen' = seen + (l + 1)
        BY <1>9
      <3> QED BY <1>8, <3>2, <3>3
    <2>2. 2 \in 1 .. Len(buffer) /\ 4 + (l + 1) = l + 5
      BY <1>1
    <2> QED BY <1>1, <1>3, <2>1, <2>2 DEF Stream, Upto
  <1>12. frame = sent[k + 1]
    <2>1. seen' - Len(frame) = Off(sent, k)
      <3>1. Off(sent, k) = seen - 4
        BY <1>1, <1>4
      <3>2. (seen + (l + 1)) - (l + 5) = seen - 4
        BY <1>2
      <3> QED BY <1>9, <1>11, <3>1, <3>2
    <2>2. Len(frame) >= sent[k + 1][2] + 5 /\ sent[k + 1][2] = l
      <3>1. sent[k + 1][2] = l /\ Len(frame) = l + 5
        BY <1>3, <1>5, <1>11
      <3>2. l + 5 >= l + 5
        OBVIOUS
      <3> QED BY <3>1, <3>2
    <2>3. SubSeq(frame, 1, sent[k + 1][2] + 5) = sent[k + 1]
      BY <1>2, <1>4, <1>11, <2>1, <2>2, Here
    <2>4. SubSeq(frame, 1, Len(frame)) = frame
      BY <1>11, SubSeqFull
    <2> QED BY <1>11, <2>2, <2>3, <2>4
  <1>13. Len(sent) \in Nat /\ tool \in DOMAIN Limit /\ Limit[tool] \in Nat /\ sent[k + 1][2] <= Limit[tool]
         /\ ~(sent[k + 1][2] > Limit[tool])
    <2>1. Len(sent) \in Nat /\ tool \in DOMAIN Limit /\ Limit[tool] \in Nat
      BY <1>2, SentItems DEF Sendable, Limit
    <2>2. sent[k + 1][2] = l /\ l <= Limit[tool]
      BY <1>1, <1>3, <1>5
    <2> QED BY <2>1, <2>2
  <1>14. CASE Accepts(tool, want, frame) /\ Ends(<<Data(frame)>>)
    <2>1. Stops(tool, want, sent[k + 1])
      BY <1>4, <1>12, <1>13, <1>14 DEF Stops
    <2>2. Best(sent, tool, want) = <<Data(frame)>>
      BY <1>4, <1>12, <1>13, <1>14, <2>1, BestIs
    <2>3. phase' = "done" /\ answer' = <<Data(frame)>>
      BY <1>14 DEF Ends, To
    <2> QED BY <1>10, <2>2, <2>3 DEF FirstInv
  <1>15. CASE ~Accepts(tool, want, frame) /\ (tool = "endpoint" /\ Check(Tail(frame)) # 0) /\ Ends(<<>>)
    <2>1. Stops(tool, want, sent[k + 1])
      BY <1>4, <1>12, <1>15 DEF Stops
    <2>2. Best(sent, tool, want) = <<>>
      BY <1>4, <1>12, <1>13, <1>15, <2>1, BestIs
    <2>3. phase' = "done" /\ answer' = <<>>
      BY <1>15 DEF Ends, To
    <2> QED BY <1>10, <2>2, <2>3 DEF FirstInv
  <1>16. CASE ~Accepts(tool, want, frame) /\ ~(tool = "endpoint" /\ Check(Tail(frame)) # 0) /\ To("start")
    <2>1. ~Stops(tool, want, sent[k + 1])
      BY <1>12, <1>13, <1>16 DEF Stops
    <2>2. Before(sent, tool, want, Off(sent, k + 1))
      BY <1>2, <1>4, <2>1, PassOne
    <2>3. phase' = "start"
      BY <1>16 DEF To
    <2>4. seen' - Len(buffer') = Off(sent, k + 1)
      <3>1. Len(buffer') = 0
        BY <1>9, EmptySeq
      <3>2. seen' - 0 = seen'
        <4>1. \A x \in Nat : x - 0 = x
          OBVIOUS
        <4>2. seen' \in Nat
          BY <1>11
        <4> QED BY <4>1, <4>2
      <3> QED BY <1>6, <1>9, <3>1, <3>2
    <2> QED BY <1>10, <2>2, <2>3, <2>4 DEF FirstInv
  <1> QED BY <1>9, <1>14, <1>15, <1>16

LEMMA DeadlineFirst == ASSUME ReaderInv, FirstInv, Deadline, Tidy(sent, tool, want), ~hurried, ~hurried'
                       PROVE  FirstInv'
  <1>1. phase \in {"select", "start"} /\ phase' = "done" /\ answer' = <<>> /\ UNCHANGED <<tool, want, sent>>
    BY DEF Deadline, Ends, To
  <1>2. /\ Sendable(sent, tool, want) /\ Upto(buffer, FlattenSeq(sent), seen) /\ seen \in Nat
        /\ FlattenSeq(sent) \in Seq(Nat) /\ Len(FlattenSeq(sent)) \in Nat
    BY ReaderSends
  <1>3. Exhausted
    <2>1. hurried' = (hurried \/ ~Exhausted)
      BY DEF Deadline
    <2> QED BY <2>1, Zenon
  <1>4. seen = Len(FlattenSeq(sent)) /\ (tool \in Buffered => Waits(tool, FromSof(buffer)))
    BY <1>3 DEF Exhausted, Incomplete, Waits, Stream
  <1>5. Before(sent, tool, want, seen - Len(buffer))
    BY <1>1 DEF FirstInv
  <1>6. CASE phase = "start"
    <2>1. Len(buffer) = 0
      BY <1>6, EmptySeq DEF ReaderInv
    <2>2. seen - Len(buffer) = seen
      BY <1>2, <2>1
    <2>3. Best(sent, tool, want) = <<>>
      BY <1>2, <1>4, <1>5, <2>2, EndsWithNone
    <2> QED BY <1>1, <2>3 DEF FirstInv
  <1>7. CASE phase = "select"
    <2>1. tool \in Buffered
      BY <1>7 DEF ReaderInv
    <2>2. PICK all : all = FromSof(buffer)
      OBVIOUS
    <2>3. /\ Upto(all, FlattenSeq(sent), seen) /\ (all # <<>> => all[1] = Sof)
          /\ Before(sent, tool, want, seen - Len(all)) /\ Waits(tool, all)
      BY <1>2, <1>4, <1>5, <2>1, <2>2, FromSofUpto, LooksForSof
    <2>4. CASE all = <<>>
      <3>1. Len(all) = 0
        BY <2>4, EmptySeq
      <3>2. seen - Len(all) = seen
        BY <1>2, <3>1
      <3>3. Best(sent, tool, want) = <<>>
        BY <1>2, <1>4, <2>3, <3>2, EndsWithNone
      <3> QED BY <1>1, <3>3 DEF FirstInv
    <2>5. CASE all # <<>>
      <3>1. Best(sent, tool, want) = <<>>
        BY <1>2, <1>4, <2>1, <2>3, <2>5, Gathers
      <3> QED BY <1>1, <3>1 DEF FirstInv
    <2> QED BY <2>4, <2>5
  <1> QED BY <1>1, <1>6, <1>7

LEMMA FirstStep == ASSUME ReaderInv, FirstInv, [ReaderNext]_readerVars
                   PROVE  FirstInv'
  <1>1. UNCHANGED <<tool, want, sent>> /\ (hurried => hurried')
    <2>1. CASE Deadline
      BY <2>1, Zenon DEF Deadline, Ends, To
    <2>2. CASE UNCHANGED readerVars
      BY <2>2 DEF readerVars
    <2>3. CASE Select
      BY <2>3 DEF Select, To
    <2>4. CASE TakeFrame
      BY <2>4 DEF TakeFrame, To, Ends
    <2>5. ASSUME NEW n, ReadsShort(n) PROVE UNCHANGED <<tool, want, sent>> /\ (hurried => hurried')
      BY <2>5, Zenon DEF ReadsShort, Ends, To
    <2>6. CASE ReadStart
      BY <2>5, <2>6 DEF ReadStart, Reads, To
    <2>7. CASE ReadHead
      BY <2>5, <2>7 DEF ReadHead, Reads, To, Ends
    <2>8. CASE ReadTail
      BY <2>5, <2>8 DEF ReadTail, To, Ends
    <2> QED BY <2>1, <2>2, <2>3, <2>4, <2>6, <2>7, <2>8 DEF ReaderNext
  <1>2. CASE ~(Tidy(sent, tool, want) /\ ~hurried')
    BY <1>1, <1>2 DEF FirstInv
  <1>3. CASE Tidy(sent, tool, want) /\ ~hurried'
    <2>1. Tidy(sent, tool, want) /\ ~hurried /\ ~hurried'
      BY <1>1, <1>3
    <2>2. CASE UNCHANGED readerVars
      BY <2>2 DEF readerVars, FirstInv
    <2> QED BY <2>1, <2>2, SelectFirst, TakeFrameFirst, StartFirst, HeadFirst, TailFirst, DeadlineFirst DEF ReaderNext
  <1> QED BY <1>2, <1>3

\* FirstInv: however the bytes of any number of items are split over reads, a reader that is not
\* hurried has before it everything from the first item on that it should take or stop at.
THEOREM FirstInductive == ReaderSpec => []FirstInv
  BY ReaderInductive, FirstInitially, FirstStep, PTL DEF ReaderSpec

\* The four readers: the first answer that was sent is the one that is taken, for any number of
\* frames before it, if the reader waits for it.
THEOREM FirstTaken == ReaderSpec => []FirstAnswer
  <1>1. FirstInv => FirstAnswer
    <2> SUFFICES ASSUME FirstInv, phase = "done", ~hurried, Clean PROVE answer = First
      BY DEF FirstAnswer
    <2>1. Tidy(sent, tool, want)
      BY DEF Clean, Tidy
    <2>2. answer = Best(sent, tool, want)
      BY <2>1 DEF FirstInv
    <2>3. \A item : Decides(item) <=> Stops(tool, want, item)
      BY DEF Decides, Stops
    <2>4. {i \in 1 .. Len(sent) : Decides(sent[i])} = {i \in 1 .. Len(sent) : Stops(tool, want, sent[i])}
      BY <2>3
    <2>5. First = Best(sent, tool, want)
      BY <2>4, Zenon DEF First, Best, SelectInSeq
    <2> QED BY <2>2, <2>5
  <1> QED BY FirstInductive, <1>1, PTL
=============================================================================

-------------------------- MODULE RadioResetProofs --------------------------
(* Proof that a run resets a radio at most once, under a stopped add-on    *)
(* unless it was started after the run had looked, and that "verified" is  *)
(* said of a radio that answers after that reset.                          *)
EXTENDS RadioReset, TLAPS

USE DEF Working, Ended, arguments, device, world

\* What one step of Goto does to the other runs.
LEMMA OneMoves == ASSUME TypeOK, NEW r \in Runs, NEW from, NEW to, Goto(r, from, to)
                  PROVE  pc[r] = from /\ pc'[r] = to /\ \A s \in Runs \ {r} : pc'[s] = pc[s]
  BY DEF TypeOK, Goto

\* What the invariant says of one run.
Stands(r) == /\ Requested(r)
             /\ Resetting(r) => ~up \/ r \in overtaken
             /\ pc[r] \in {"idle"} \cup Working => n[r] < Probes

\* The invariant speaks of every run alone.
LEMMA EveryRun == TypeOK => (ResetInv <=> \A r \in Runs : Stands(r))
  BY DEF ResetInv, Stands

LEMMA EveryRunNext == ASSUME TypeOK', \A r \in Runs : Stands(r)'
                      PROVE  ResetInv'
  BY DEF ResetInv, Stands

\* A run of which nothing changes that the invariant reads.
LEMMA OthersStand == ASSUME NEW s \in Runs, Stands(s), pc'[s] = pc[s], n'[s] = n[s],
                            s \in asked' <=> s \in asked, UNCHANGED <<mode, up, overtaken>>,
                            carried'[s] = carried[s]
                     PROVE  Stands(s)'
  BY DEF Stands, Requested, Resetting

LEMMA InitInv == Init => ResetInv
  BY ProbesAssumption DEF Init, ResetInv, TypeOK, Requested, Resetting

\* A step that only moves a run keeps the invariant if its new position fits its request.
LEMMA MovesInv == ASSUME ResetInv, NEW r \in Runs, NEW at, NEW to \in Working \cup Ended,
                         Goto(r, at, to), UNCHANGED <<n, arguments, world>>,
                         at \in {"idle"} \cup Working,
                         r \in asked => to \in {"sent", "failed"},
                         to \in {"info", "z2m", "identity", "pre", "reset", "preflight"}
                            => at \in {"idle", "info", "z2m", "identity", "pre"},
                         to \in {"identity", "pre", "reset"} => ~up \/ r \in overtaken,
                         to = "reset" => mode[r] = "execute",
                         to = "sent" => at = "sent",
                         to = "post" => at = "sent" /\ carried[r] > 0,
                         to \notin {"verified", "unverified"}
                  PROVE  ResetInv'
  <1>1. TypeOK /\ \A s \in Runs : Stands(s)
    BY EveryRun DEF ResetInv
  <1>2. pc[r] = at /\ pc'[r] = to /\ \A s \in Runs \ {r} : pc'[s] = pc[s]
    BY <1>1, OneMoves
  <1>3. TypeOK'
    BY <1>1 DEF TypeOK, Goto
  <1>4. carried[r] \in Nat
    BY <1>1 DEF TypeOK
  <1>5. Requested(r)'
    BY <1>1, <1>2, <1>4 DEF Stands, Requested
  <1>6. Stands(r)'
    BY <1>1, <1>2, <1>5 DEF Stands, Resetting
  <1>7. \A s \in Runs \ {r} : Stands(s)'
    BY <1>1, <1>2, OthersStand
  <1>8. \A s \in Runs : Stands(s)'
    BY <1>6, <1>7
  <1> QED BY <1>3, <1>8, EveryRunNext

LEMMA RecoverInv == ASSUME ResetInv, NEW r \in Runs, Begin(r) \/ Recover(r) \/ Raises(r)
                    PROVE  ResetInv'
  <1>0. TypeOK /\ \A s \in Runs : Stands(s)
    BY EveryRun DEF ResetInv
  <1>1. CASE Begin(r)
    <2>1. Goto(r, "idle", "info") /\ pc[r] = "idle" /\ UNCHANGED <<n, arguments, world>>
      BY <1>1 DEF Begin, Goto
    <2>2. r \notin asked
      BY <1>0, <2>1 DEF Stands, Requested
    <2> QED BY <2>1, <2>2, MovesInv
  <1>2. CASE ValidateTarget(r)
    <2>1. PICK to \in {"z2m", "failed"} : Goto(r, "info", to) /\ UNCHANGED <<n, arguments, world>>
      BY <1>2 DEF ValidateTarget, Look
    <2>2. pc[r] = "info" /\ r \notin asked
      BY <1>0, <2>1 DEF Stands, Requested, Goto
    <2> QED BY <2>1, <2>2, MovesInv
  <1>3. CASE Quiescent(r)
    <2>1. PICK to \in {"identity", "failed"} :
             /\ Goto(r, "z2m", to) /\ UNCHANGED <<n, arguments, world>>
             /\ to = "identity" => ~up
      BY <1>3 DEF Quiescent, Look
    <2>2. pc[r] = "z2m" /\ r \notin asked
      BY <1>0, <2>1 DEF Stands, Requested, Goto
    <2> QED BY <2>1, <2>2, MovesInv
  <1>4. CASE Identity(r)
    <2>1. Goto(r, "identity", "pre") /\ UNCHANGED <<n, arguments, world>>
      BY <1>4 DEF Identity, Look
    <2>2. r \notin asked /\ (~up \/ r \in overtaken)
      BY <1>0, <2>1 DEF Stands, Requested, Resetting, Goto
    <2> QED BY <2>1, <2>2, MovesInv
  <1>5. CASE PreProbe(r)
    <2>1. PICK to \in {"preflight", "reset", "failed"} :
             /\ Goto(r, "pre", to) /\ UNCHANGED <<n, arguments, world>>
             /\ to = "reset" => mode[r] # "preflight"
      BY <1>5 DEF PreProbe, Look
    <2>2. r \notin asked /\ (~up \/ r \in overtaken)
      BY <1>0, <2>1 DEF Stands, Requested, Resetting, Goto
    <2>3. to = "reset" => mode[r] = "execute"
      BY <1>0, <2>1 DEF TypeOK
    <2> QED BY <2>1, <2>2, <2>3, MovesInv
  <1>6. CASE ResetOnce(r)
    <2>1. TypeOK'
      BY <1>0, <1>6 DEF TypeOK, ResetOnce, Goto
    <2>2. pc[r] = "reset" /\ pc'[r] = "sent" /\ \A s \in Runs \ {r} : pc'[s] = pc[s]
      BY <1>0, <1>6, OneMoves DEF ResetOnce
    <2>3. asked' = asked \cup {r} /\ UNCHANGED <<n, mode, carried, up, overtaken>>
      BY <1>6 DEF ResetOnce
    <2>4. Stands(r)'
      BY <1>0, <2>2, <2>3 DEF Stands, Requested, Resetting
    <2>5. \A s \in Runs \ {r} : Stands(s)'
      BY <1>0, <2>2, <2>3, OthersStand
    <2>6. \A s \in Runs : Stands(s)'
      BY <2>4, <2>5
    <2> QED BY <2>1, <2>6, EveryRunNext
  <1>7. CASE Acknowledged(r)
    <2>1. Goto(r, "sent", "post") /\ carried[r] > 0 /\ UNCHANGED <<n, arguments, world>>
      BY <1>7 DEF Acknowledged, Look
    <2>2. r \notin asked
      BY <1>0, <2>1 DEF Stands, Requested
    <2> QED BY <2>1, <2>2, MovesInv
  <1>8. CASE PostProbe(r)
    <2>1. PICK a \in Answers(usb[r]) :
             Goto(r, "post", CASE a = "expected" -> "verified"
                               [] a = "other" -> "failed"
                               [] a = "silent" -> IF n'[r] < Probes THEN "post" ELSE "unverified")
      BY <1>8 DEF PostProbe
    <2>2. a \in {"expected", "other", "silent"}
      BY <1>0 DEF TypeOK, Answers
    <2>3. /\ pc[r] = "post" /\ \A s \in Runs \ {r} : pc'[s] = pc[s]
          /\ pc'[r] \in {"verified", "failed", "post", "unverified"}
          /\ pc'[r] = "post" => n'[r] < Probes
      BY <1>0, <2>1, <2>2, OneMoves
    <2>4. n[r] < Probes /\ n[r] \in Nat
      BY <1>0, <2>3, ProbesAssumption DEF Stands, TypeOK
    <2>5. n' = [n EXCEPT ![r] = n[r] + 1] /\ UNCHANGED <<arguments, world>>
      BY <1>8 DEF PostProbe
    <2>6. n'[r] \in 0 .. Probes /\ (\A s \in Runs \ {r} : n'[s] = n[s]) /\ n' \in [Runs -> 0 .. Probes]
      BY <1>0, <2>4, <2>5, ProbesAssumption DEF TypeOK
    <2>7. pc' \in [Runs -> {"idle"} \cup Working \cup Ended]
      BY <1>0, <2>1, <2>3 DEF Goto, TypeOK
    <2>8. TypeOK'
      BY <1>0, <2>5, <2>6, <2>7 DEF TypeOK
    <2>9. Stands(r)'
      <3>1. r \notin asked /\ carried[r] = 1 /\ mode[r] = "execute"
        BY <1>0, <2>3 DEF Stands, Requested
      <3> QED BY <2>3, <2>5, <3>1 DEF Stands, Requested, Resetting
    <2>10. \A s \in Runs \ {r} : Stands(s)'
      BY <1>0, <2>3, <2>5, <2>6, OthersStand
    <2>11. \A s \in Runs : Stands(s)'
      BY <2>9, <2>10
    <2> QED BY <2>8, <2>11, EveryRunNext
  <1>9. CASE Raises(r)
    <2>1. PICK at \in Working : Goto(r, at, "failed") /\ UNCHANGED <<n, arguments, world>>
      BY <1>9 DEF Raises, Look
    <2> QED BY <2>1, MovesInv
  <1> QED BY <1>1, <1>2, <1>3, <1>4, <1>5, <1>6, <1>7, <1>8, <1>9 DEF Recover

LEMMA HandleInv == ASSUME ResetInv, NEW r \in Runs, Handle(r)
                   PROVE  ResetInv'
  <1>0. TypeOK /\ \A s \in Runs : Stands(s)
    BY EveryRun DEF ResetInv
  <1>1. /\ r \in asked /\ asked' = asked \ {r}
        /\ UNCHANGED <<pc, n, arguments, listed, fw, legible, up, overtaken>>
        /\ carried' \in {carried, [carried EXCEPT ![r] = carried[r] + 1]}
        /\ radio' \in {radio, [radio EXCEPT ![host[r]] = "booting"]}
    BY DEF Handle
  <1>2. TypeOK'
    <2>1. carried' \in [Runs -> Nat]
      BY <1>0, <1>1 DEF TypeOK
    <2>2. radio' \in [Devices -> {"dead", "booting", "alive"}]
      BY <1>0, <1>1 DEF TypeOK
    <2> QED BY <1>0, <1>1, <2>1, <2>2 DEF TypeOK
  <1>3. carried[r] = 0 /\ pc[r] \in {"sent", "failed"} /\ mode[r] = "execute"
    BY <1>0, <1>1 DEF Stands, Requested
  <1>4. carried'[r] \in {0, 1} /\ \A s \in Runs \ {r} : carried'[s] = carried[s]
    BY <1>0, <1>1, <1>3 DEF TypeOK
  <1>5. Stands(r)'
    BY <1>0, <1>1, <1>3, <1>4 DEF Stands, Requested, Resetting
  <1>6. \A s \in Runs \ {r} : Stands(s)'
    BY <1>0, <1>1, <1>4, OthersStand
  <1>7. \A s \in Runs : Stands(s)'
    BY <1>5, <1>6
  <1> QED BY <1>2, <1>7, EveryRunNext

LEMMA RadioMovesInv == ASSUME ResetInv, NEW d \in Devices, RadioMoves(d)
                       PROVE  ResetInv'
  <1>1. /\ UNCHANGED <<pc, n, arguments, listed, fw, legible, up, asked, carried, overtaken>>
        /\ \E s \in {"alive", "dead"} : radio' = [radio EXCEPT ![d] = s]
    BY DEF RadioMoves
  <1> QED BY <1>1 DEF ResetInv, Requested, Resetting, TypeOK

\* An add-on that is started overtakes every run that is to reset and found it stopped.
LEMMA PeopleInv == ASSUME ResetInv, People
                   PROVE  ResetInv'
  <1>1. UNCHANGED <<pc, n, arguments, listed, fw, legible, asked, carried>>
    BY DEF People
  <1>2. TypeOK'
    BY <1>1 DEF People, ResetInv, TypeOK
  <1>3. \A r \in Runs : Resetting(r)' => (~up \/ r \in overtaken)'
    BY <1>1 DEF People, ResetInv, Resetting
  <1> QED BY <1>1, <1>2, <1>3 DEF ResetInv, Requested

LEMMA NextInv == ASSUME ResetInv, [Next]_vars
                 PROVE  ResetInv'
  <1>1. CASE UNCHANGED vars
    BY <1>1 DEF vars, ResetInv, TypeOK, Requested, Resetting
  <1> QED BY <1>1, RecoverInv, HandleInv, RadioMovesInv, PeopleInv DEF Next

\* ResetInv: where a run stands tells what has become of its request, and an add-on that
\* runs although a run found it stopped was started meanwhile.
THEOREM Inductive == Spec => []ResetInv
  <1>1. ResetInv /\ [Next]_vars => ResetInv'
    BY NextInv
  <1> QED BY InitInv, <1>1, PTL DEF Spec

\* recover, single-shot: no run resets a radio twice, whatever is lost, late or repeated.
THEOREM ResetsOnce == Spec => []SingleShot
  <1>1. ResetInv => SingleShot
    BY DEF ResetInv, Requested, SingleShot
  <1> QED BY Inductive, <1>1, PTL

\* Only a request that meets the device carries a reset out.
LEMMA OnlyHandled == ASSUME TypeOK, [Next]_vars, NEW r \in Runs, carried'[r] # carried[r]
                     PROVE  Handle(r)
  <1>1. PICK s \in Runs : Handle(s)
    BY DEF Next, vars, Begin, Recover, Raises, Look, ValidateTarget, Quiescent, Identity, PreProbe, ResetOnce,
           Acknowledged, PostProbe, RadioMoves, People
  <1> QED BY <1>1 DEF Handle, TypeOK

\* require_z2m_quiescent: a reset that is carried out under a running add-on is one of a run
\* after whose look the add-on was started, whoever else acts.
THEOREM NetworkIsDown == Spec => NotUnderNetwork
  <1>1. ASSUME ResetInv, [Next]_vars, NEW r \in Runs, carried'[r] # carried[r]
        PROVE  ~up \/ r \in overtaken
    <2>1. r \in asked
      BY <1>1, OnlyHandled DEF Handle, ResetInv
    <2> QED BY <1>1, <2>1 DEF ResetInv, Resetting
  <1>2. ResetInv /\ [Next]_vars
          => [\A r \in Runs : carried'[r] # carried[r] => ~up \/ r \in overtaken]_vars
    BY <1>1
  <1> QED BY Inductive, <1>2, PTL DEF Spec, NotUnderNetwork

\* Only a look at the radio ends a run as verified.
LEMMA OnlyPostProbe == ASSUME TypeOK, [Next]_vars, NEW r \in Runs, pc[r] # "verified", pc'[r] = "verified"
                       PROVE  PostProbe(r)
  <1>1. pc' # pc
    OBVIOUS
  <1>2. PICK s \in Runs : Begin(s) \/ Recover(s) \/ Raises(s)
    BY <1>1 DEF Next, vars, Handle, RadioMoves, People
  <1>3. CASE Begin(s) \/ Raises(s) \/ ValidateTarget(s) \/ Quiescent(s) \/ Identity(s) \/ PreProbe(s)
             \/ ResetOnce(s) \/ Acknowledged(s)
    <2>1. PICK to \in {"info", "z2m", "identity", "pre", "preflight", "reset", "sent", "post", "failed"} :
             pc' = [pc EXCEPT ![s] = to]
      BY <1>3 DEF Begin, Raises, ValidateTarget, Quiescent, Identity, PreProbe, ResetOnce, Acknowledged, Look, Goto
    <2> QED BY <2>1 DEF TypeOK
  <1>4. CASE PostProbe(s)
    <2>1. \E to : pc' = [pc EXCEPT ![s] = to]
      BY <1>4 DEF PostProbe, Goto
    <2> QED BY <1>4, <2>1 DEF TypeOK
  <1> QED BY <1>2, <1>3, <1>4 DEF Recover

\* recover: "verified" is true of the radio of --usb-device, and is said after the only reset
\* the run asked for, whoever does what meanwhile.
THEOREM VerifiedIsTrue == Spec => VerifiedTrue
  <1>1. ASSUME ResetInv, [Next]_vars, NEW r \in Runs, pc[r] # "verified", pc'[r] = "verified"
        PROVE  carried[r] = 1 /\ radio[usb[r]] = "alive" /\ fw[usb[r]] = "expected"
    <2>0. TypeOK
      BY <1>1 DEF ResetInv
    <2>1. PostProbe(r)
      BY <1>1, <2>0, OnlyPostProbe
    <2>2. PICK a \in Answers(usb[r]) :
             Goto(r, "post", CASE a = "expected" -> "verified"
                               [] a = "other" -> "failed"
                               [] a = "silent" -> IF n'[r] < Probes THEN "post" ELSE "unverified")
      BY <2>1 DEF PostProbe
    <2>3. a \in {"expected", "other", "silent"}
      BY <2>0 DEF Answers, TypeOK
    <2>4. pc[r] = "post" /\ a = "expected"
      BY <1>1, <2>0, <2>2, <2>3 DEF Goto, TypeOK
    <2>5. radio[usb[r]] = "alive" /\ fw[usb[r]] = "expected"
      BY <2>4 DEF Answers
    <2> QED BY <1>1, <2>4, <2>5 DEF ResetInv, Requested
  <1>2. ResetInv /\ [Next]_vars
          => [\A r \in Runs : pc[r] # "verified" /\ pc'[r] = "verified"
                => carried[r] = 1 /\ radio[usb[r]] = "alive" /\ fw[usb[r]] = "expected"]_vars
    BY <1>1
  <1> QED BY Inductive, <1>2, PTL DEF Spec, VerifiedTrue
=============================================================================

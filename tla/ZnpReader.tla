----------------------------- MODULE ZnpReader -----------------------------
(***************************************************************************)
(* How one answer is found in the bytes that a radio sends.  The tools     *)
(* have four readers of their own for ZNP frames                           *)
(*                                                                         *)
(*     SOF  length  command0  command1  data ...  check byte               *)
(*                                                                         *)
(*   usb       command  in p10_usb_cutover.REMOTE                          *)
(*   reset     req      in p10_radio_reset.REMOTE_PROBE                    *)
(*   endpoint  transact in p10_target_endpoint.REMOTE                      *)
(*   readonly  receive  in p10_readonly, which p10_nv_lengths uses too     *)
(*                                                                         *)
(* The first two gather what has arrived, in pieces of any size, in a      *)
(* buffer; the others read a frame piece by piece and wait for each.       *)
(* A byte has three bits, which is enough for lengths, commands and SOF to *)
(* be told apart and to be mistaken for each other.                        *)
(***************************************************************************)
EXTENDS Integers, Sequences, FiniteSets, SequencesExt

CONSTANTS Tools,      \* the readers that are looked at
          MaxItems    \* what a radio sends after one request, at most

ASSUME ToolsAssumption == Tools \subseteq {"usb", "reset", "endpoint", "readonly"} /\ MaxItems \in Nat

Sof == 7
Resp == 1             \* command0 of every answer to ping and version
Commands == {1, 2}    \* command1: SYS_PING, SYS_VERSION
Buffered == {"usb", "reset"}

\* The length above which a frame is not read (64 and 80 in the code, or no such length).
Limit == [usb |-> 2, endpoint |-> 3, reset |-> 7, readonly |-> 7]

VARIABLES
    tool, want,       \* the reader, and the command whose answer it waits for
    sent,             \* what the radio sends
    seen,             \* bytes of it that have been read
    buffer,           \* bytes that have been read and not been used
    phase,            \* where the reader is
    answer,           \* <<>>, or <<data of the frame that was taken>>
    hurried           \* history: the reader did not wait for a byte that came

readerVars == <<tool, want, sent, seen, buffer, phase, answer, hurried>>

Stream == FlattenSeq(sent)

\* The exclusive or of bytes: a bit of it is set if an odd number of them have that bit.
Check(s) == LET Bit(w) == Cardinality({i \in DOMAIN s : (s[i] \div w) % 2 = 1}) % 2
            IN Bit(1) + 2 * Bit(2) + 4 * Bit(4)

Body(c0, c1, data) == <<Len(data), c0, c1>> \o data
Frame(c0, c1, data) == <<Sof>> \o Body(c0, c1, data) \o <<Check(Body(c0, c1, data))>>

-----------------------------------------------------------------------------
(* What a radio sends: frames, frames that are damaged on the way, and bytes *)
(* that are no frame.                                                        *)

Replies(c) == {Frame(Resp, c, d) : d \in {<<c>>, <<4>>, <<Sof>>}}
Others(c) == {Frame(Resp, 3 - c, <<3 - c>>), Frame(2, c, <<>>)}
Large(c) == {Frame(2, c, <<0, 0, 0, 0>>)}
BadCheck(c) == {<<Sof>> \o Body(Resp, c, <<4>>) \o <<0>>, <<Sof>> \o Body(Resp, c, <<c>>) \o <<5>>}
NoStart(c) == {<<0>> \o Tail(Frame(Resp, c, <<4>>))}
Noise == {<<0>>, <<0, 1>>}
CutOff == {<<Sof, 1, Resp>>}
Frames(c) == Replies(c) \cup Others(c) \cup Large(c) \cup BadCheck(c)
Items(c) == Frames(c) \cup NoStart(c) \cup Noise \cup CutOff

ReaderInit == /\ tool \in Tools /\ want \in Commands
              /\ sent \in BoundedSeq(Items(want), MaxItems)
              /\ seen = 0 /\ buffer = <<>>
              /\ phase = IF tool \in Buffered THEN "select" ELSE "start"
              /\ answer = <<>> /\ hurried = FALSE

-----------------------------------------------------------------------------
(* What the readers share. *)

\* Faulty variant: damaged frames are answers too.
AcceptsDamaged(t, c, frame) == frame[3] = Resp /\ frame[4] = c

\* A frame is an answer when its bytes sum up to zero; req leaves out the check byte.
Accepts(t, c, frame) ==
    LET summed == IF t = "reset" THEN SubSeq(frame, 2, Len(frame) - 1) ELSE Tail(frame)
    IN Check(summed) = 0 /\ frame[3] = Resp /\ frame[4] = c

Data(frame) == SubSeq(frame, 5, Len(frame) - 1)

FromSof(s) == LET at == SelectInSeq(s, LAMBDA b : b = Sof)
              IN IF at = 0 THEN <<>> ELSE SubSeq(s, at, Len(s))

To(next) == phase' = next /\ UNCHANGED <<tool, want, sent>>

Ends(with) == To("done") /\ answer' = with

-----------------------------------------------------------------------------
(* command and req: a buffer. *)

\* A frame is not all there yet; a length above the limit is not waited for.
Incomplete(s) == Len(s) < IF Len(s) >= 5 /\ s[2] <= Limit[tool] THEN s[2] + 5 ELSE 5

\* select and os.read: any number of bytes, none too.  command looks for SOF here only.
Select == /\ phase = "select" /\ To("frames")
          /\ \E upto \in seen .. Len(Stream) :
                LET all == buffer \o SubSeq(Stream, seen + 1, upto) IN
                seen' = upto /\ buffer' = IF tool = "usb" THEN FromSof(all) ELSE all
          /\ UNCHANGED <<answer, hurried>>

\* Faulty variant: what follows an unwanted frame is thrown away with it.
TakeFrameClears ==
    LET all == IF tool = "reset" THEN FromSof(buffer) ELSE buffer IN
    /\ phase = "frames" /\ UNCHANGED <<seen, hurried>>
    /\ \/ Incomplete(all) /\ buffer' = all /\ To("select") /\ UNCHANGED answer
       \/ ~Incomplete(all) /\ all[2] > Limit[tool] /\ buffer' = Tail(all) /\ To("select") /\ UNCHANGED answer
       \/ /\ ~Incomplete(all) /\ all[2] <= Limit[tool]
          /\ LET frame == SubSeq(all, 1, all[2] + 5) IN
             IF Accepts(tool, want, frame) THEN Ends(<<Data(frame)>>) ELSE To("frames") /\ UNCHANGED answer
          /\ buffer' = <<>>

\* One round of the inner loop; req looks for SOF in every round.
TakeFrame ==
    LET all == IF tool = "reset" THEN FromSof(buffer) ELSE buffer IN
    /\ phase = "frames" /\ UNCHANGED <<seen, hurried>>
    /\ \/ Incomplete(all) /\ buffer' = all /\ To("select") /\ UNCHANGED answer
       \/ ~Incomplete(all) /\ all[2] > Limit[tool] /\ buffer' = Tail(all) /\ To("select") /\ UNCHANGED answer
       \/ /\ ~Incomplete(all) /\ all[2] <= Limit[tool]
          /\ LET frame == SubSeq(all, 1, all[2] + 5) IN
             IF Accepts(tool, want, frame) THEN Ends(<<Data(frame)>>) ELSE To("frames") /\ UNCHANGED answer
          /\ buffer' = SubSeq(all, all[2] + 6, Len(all))

-----------------------------------------------------------------------------
(* transact and receive: piece by piece.  What is kept of a frame is in buffer. *)

\* The next n bytes are there.
Reads(n) == /\ seen + n <= Len(Stream)
            /\ seen' = seen + n /\ buffer' = buffer \o SubSeq(Stream, seen + 1, seen + n)
            /\ UNCHANGED hurried

\* A read of n bytes that comes back with fewer: receive starts again, transact raises.
ReadsShort(n) == /\ \E got \in 0 .. n - 1 : seen + got <= Len(Stream) /\ seen' = seen + got
                 /\ buffer' = <<>>
                 /\ hurried' = (hurried \/ n > 1 \/ seen < Len(Stream))
                 /\ IF tool = "readonly" THEN To("start") /\ UNCHANGED answer ELSE Ends(<<>>)

ReadStart == /\ phase = "start"
             /\ \/ /\ Reads(1) /\ Stream[seen'] = Sof /\ To("head") /\ UNCHANGED answer
                \/ /\ seen < Len(Stream) /\ Stream[seen + 1] # Sof
                   /\ seen' = seen + 1 /\ To("start") /\ UNCHANGED <<buffer, answer, hurried>>
                \/ ReadsShort(1)

ReadHead == /\ phase = "head"
            /\ \/ /\ Reads(3)
                  /\ IF buffer'[2] > Limit[tool] THEN Ends(<<>>) ELSE To("tail") /\ UNCHANGED answer
               \/ ReadsShort(3)

\* A frame with a wrong check byte is left out by receive, and ends transact.
ReadTail == /\ phase = "tail"
            /\ \/ /\ seen + buffer[2] + 1 <= Len(Stream)
                  /\ LET frame == buffer \o SubSeq(Stream, seen + 1, seen + buffer[2] + 1) IN
                     \/ Accepts(tool, want, frame) /\ Ends(<<Data(frame)>>)
                     \/ /\ ~Accepts(tool, want, frame)
                        /\ IF tool = "endpoint" /\ Check(Tail(frame)) # 0
                           THEN Ends(<<>>)
                           ELSE To("start") /\ UNCHANGED answer
                  /\ seen' = seen + buffer[2] + 1 /\ buffer' = <<>> /\ UNCHANGED hurried
               \/ ReadsShort(buffer[2] + 1)

-----------------------------------------------------------------------------

\* Everything has been read and nothing that has been read waits to be used.
Exhausted == seen = Len(Stream) /\ (tool \in Buffered => Incomplete(FromSof(buffer)))

\* The deadline is looked at where a reader starts again.
Deadline == /\ phase \in {"select", "start"} /\ Ends(<<>>)
            /\ hurried' = (hurried \/ ~Exhausted)
            /\ UNCHANGED <<seen, buffer>>

ReaderNext == Select \/ TakeFrame \/ ReadStart \/ ReadHead \/ ReadTail \/ Deadline

ReaderSpec == ReaderInit /\ [][ReaderNext]_readerVars

-----------------------------------------------------------------------------
(* Properties. *)

\* What is taken for an answer was sent, in one piece, as an answer to this command, and
\* sums up to what the reader wants; only command does not insist on the SOF before it.
TakenIsFrame == answer # <<>> =>
    \E i \in 1 .. seen - 4 : LET frame == SubSeq(Stream, i, i + Stream[i + 1] + 4) IN
        /\ i + Stream[i + 1] + 4 <= seen
        /\ frame[1] = Sof \/ tool = "usb"
        /\ Check(IF tool = "reset" THEN SubSeq(frame, 2, Len(frame) - 1) ELSE Tail(frame)) = 0
        /\ frame[3] = Resp /\ frame[4] = want
        /\ answer = <<Data(frame)>>

\* Where one frame ends the next one begins; other bytes hold no SOF, and for command, which
\* does not look for SOF between two frames of one read, come first only.
Clean == \A i \in 1 .. Len(sent) :
            \/ sent[i] \in Frames(want)
            \/ sent[i] \in Noise /\ (tool = "usb" => i = 1)

\* What a reader should take: the first answer, but transact stops at what it cannot read.
Decides(item) ==
    /\ item \in Frames(want)
    /\ \/ item[2] <= Limit[tool] /\ Accepts(tool, want, item)
       \/ tool = "endpoint" /\ (item[2] > Limit[tool] \/ Check(Tail(item)) # 0)
First == LET at == SelectInSeq(sent, Decides)
         IN IF at = 0 \/ ~Accepts(tool, want, sent[at]) THEN <<>> ELSE <<Data(sent[at])>>

\* However the bytes are split over reads, and whatever frames come before it, the first
\* answer is the one that is taken, if the reader waits for it.
FirstAnswer == phase = "done" /\ ~hurried /\ Clean => answer = First
=============================================================================

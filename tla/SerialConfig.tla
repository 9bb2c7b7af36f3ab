---------------------------- MODULE SerialConfig ---------------------------
(***************************************************************************)
(* The target configuration in both layers: render and render_minimal      *)
(* rewrite two lines of configuration.yaml with regular expressions, and   *)
(* render_addon_options, or stage_usb, the add-on options.                 *)
(*                                                                         *)
(* A line is a key and a value.  "serial" and "other" are keys of the root *)
(* whose block follows; port, adapter, baudrate and rtscts are indented    *)
(* and belong to the block they are in; a line "more" continues the value  *)
(* above it; a "comment" says nothing, but nothing can be continued after  *)
(* it.  Values are taken to be strings of their own.                       *)
(***************************************************************************)
EXTENDS Naturals, Sequences, FiniteSets

CONSTANTS Sources    \* the contents of configuration.yaml, sequences of lines

Keys == {"port", "adapter", "baudrate", "rtscts"}
Heads == {"serial", "other"}

ASSUME SourcesAssumption ==
    Sources \subseteq Seq([key : Keys \cup Heads \cup {"more", "comment"}, value : STRING])

Old == [port |-> "usb sonoff", adapter |-> "ember"]
New == [port |-> "p10", adapter |-> "zstack"]

\* What an option may be; "none" is an option that is not there.
Values == [port |-> {"usb sonoff", "usb other"}, adapter |-> {"ember", "zstack"},
           baudrate |-> {"115200", "57600"}, rtscts |-> {"false", "true", "none"}]
Settings == {o \in [Keys -> UNION {Values[k] : k \in Keys}] : \A k \in Keys : o[k] \in Values[k]}

VARIABLES yaml, options,   \* configuration.yaml and the add-on's serial options in the bundle
          layer,           \* the interface: "tcp" or "usb"
          staged           \* what the command has made of them: nothing yet, a refusal, or both layers

serialVars == <<yaml, options, layer, staged>>

SerialInit == /\ yaml \in Sources /\ options \in Settings
              /\ layer \in {"tcp", "usb"} /\ staged = [is |-> "nothing"]

-----------------------------------------------------------------------------
(* yaml.safe_load. *)

HeadsOf(l) == {i \in DOMAIN l : l[i].key \in Heads}
BlockOf(l, i) == {j \in DOMAIN l : j > i /\ l[j].key \in Keys /\ \A h \in HeadsOf(l) : h < j => h <= i}

WellFormed(l) == \A i \in DOMAIN l :
    /\ l[i].key \in Keys => \E h \in HeadsOf(l) : h < i
    /\ l[i].key = "more" => i > 1 /\ l[i - 1].key \in Keys \cup {"more"}

Last(s) == CHOOSE i \in s : \A j \in s : j <= i

\* The value that begins on line i, and the number of lines it goes on for.
Plain(v) == <<v, 0>>
Scalar(l, i) == <<l[i].value, Cardinality({j \in i + 1 .. Len(l) : \A k \in i + 1 .. j : l[k].key = "more"})>>

\* A key that is there twice has its last value.
Block(l, i) == [k \in Keys |-> LET at == {j \in BlockOf(l, i) : l[j].key = k}
                               IN  IF at = {} THEN Plain("none") ELSE Scalar(l, Last(at))]

Root(l, h) == {i \in HeadsOf(l) : l[i].key = h}

\* Each block of the root, or no mapping.
Parsed(l) == [h \in Heads |-> IF Root(l, h) = {} \/ BlockOf(l, Last(Root(l, h))) = {} THEN <<>>
                              ELSE Block(l, Last(Root(l, h)))]

Loads(l) == WellFormed(l) /\ Parsed(l)["serial"] # <<>>
Serial(l) == Parsed(l)["serial"]

-----------------------------------------------------------------------------
(* The rewriting. *)

\* The lines from the serial head to the next line that is not indented.
Region(l, i) == {j \in DOMAIN l : j > i /\ \A h \in HeadsOf(l) : h <= j => h <= i}
Direct(l, k) == {j \in Region(l, Last(Root(l, "serial"))) : l[j].key = k}
OneOf(s) == \E i \in s : s = {i}

\* render_minimal; one plain head and one line for each key, or it raises.
RenderMinimal(l) ==
    IF OneOf(Root(l, "serial")) /\ OneOf(Direct(l, "port")) /\ OneOf(Direct(l, "adapter"))
    THEN [j \in DOMAIN l |-> IF j \in Direct(l, "port") THEN [l[j] EXCEPT !.value = New.port]
                             ELSE IF j \in Direct(l, "adapter") THEN [l[j] EXCEPT !.value = New.adapter]
                             ELSE l[j]]
    ELSE <<>>

\* The fields render and usb_yaml ask for: TCP also fixes baudrate and flow control.
Wanted(l, kind) == [Serial(l) EXCEPT !["port"] = Plain(New.port), !["adapter"] = Plain(New.adapter),
                                     !["baudrate"] = IF kind = "tcp" THEN Plain("115200") ELSE @,
                                     !["rtscts"] = IF kind = "tcp" THEN Plain("false") ELSE @]

\* render, usb_yaml: the new lines must load as the fields that are wanted, and all else as before.
Render(l, kind) ==
    LET new == RenderMinimal(l) IN
    IF Loads(new) /\ Parsed(new) = [Parsed(l) EXCEPT !["serial"] = Wanted(l, kind)] THEN new ELSE <<>>

\* render_addon_options, stage_usb.
RenderOptions(o) == [o EXCEPT !["port"] = New.port, !["adapter"] = New.adapter]

\* inspect_effective_serial: the options override the file, so both must say the same.
EffectiveSerial(l, o) ==
    /\ \A k \in {"port", "adapter", "baudrate"} : Serial(l)[k] = Plain(o[k])
    /\ o["rtscts"] # "none" => Serial(l)["rtscts"] = Plain(o["rtscts"])
    /\ Serial(l)["adapter"] = Plain(Old.adapter)

\* What both stages ask of the bundle before they render; stage_usb wants the Sonoff itself.
SourceAgrees == /\ Loads(yaml) /\ EffectiveSerial(yaml, options)
                /\ layer = "usb" => Serial(yaml)["port"] = Plain(Old.port)

\* Faulty variant: a field that one of them lacks is not compared.
LayersAgreePresent(l, o) == \A k \in Keys : Serial(l)[k] # Plain("none") /\ o[k] # "none"
                                              => Serial(l)[k] = Plain(o[k])

\* The fields of both targets must be the same, and absent from both if they are from one.
LayersAgree(l, o) == \A k \in Keys : Serial(l)[k] = Plain(o[k])

\* stage, stage_usb: all that comes before the directory is made.
StageSerial ==
    /\ staged.is = "nothing"
    /\ LET new == Render(yaml, layer) IN
       staged' = IF SourceAgrees /\ new # <<>> /\ LayersAgree(new, RenderOptions(options))
                 THEN [is |-> "target", yaml |-> new, options |-> RenderOptions(options)]
                 ELSE [is |-> "refused"]
    /\ UNCHANGED <<yaml, options, layer>>

SerialSpec == SerialInit /\ [][StageSerial]_serialVars

-----------------------------------------------------------------------------
(* Properties. *)

\* render, stage, stage_usb: in the staged target both layers name the P10 and agree in every
\* field, and nothing else has changed: no other line, no other value YAML reads.
TargetIsMinimal == staged.is = "target" =>
    LET new == staged.yaml  o == staged.options IN
    /\ Loads(new) /\ \A k \in Keys : Serial(new)[k] = Plain(o[k])
    /\ o["port"] = New.port /\ o["adapter"] = New.adapter
    /\ \A k \in {"baudrate", "rtscts"} : Serial(new)[k] = Serial(yaml)[k] /\ o[k] = options[k]
    /\ Parsed(new)["other"] = Parsed(yaml)["other"]
    /\ \A i \in DOMAIN yaml : yaml[i] # new[i] => new[i].key = yaml[i].key /\ yaml[i].key \in {"port", "adapter"}
=============================================================================

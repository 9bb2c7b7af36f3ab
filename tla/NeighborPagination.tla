------------------------- MODULE NeighborPagination -------------------------
(***************************************************************************)
(* p10_neighbor_capacity: what can be concluded from a neighbor table that *)
(* was read page by page (Mgmt_Lqi) while routers came and went.           *)
(*                                                                         *)
(* decode_capture takes the recorded pages in their order and looks at     *)
(* nothing else, so a page is decoded here when it is recorded; it may     *)
(* have been read from the radio earlier (held).  A collector is not part  *)
(* of the repository: it asks for any page, and pages may be lost,         *)
(* recorded twice or out of order.                                         *)
(***************************************************************************)
EXTENDS Integers, Sequences, FiniteSets

CONSTANTS Neighbors,
          Routers,       \* those with device type 1 that keep their receiver on
          PageSize,      \* entries in a response
          Minimum,       \* --min-neighbor
          MaxChanges,    \* bound: changes of the table during a capture
          MaxHeld,       \* bound: pages read but not recorded yet
          MaxCaptures    \* bound: captures

ASSUME NeighborsAssumption == Routers \subseteq Neighbors /\ IsFiniteSet(Neighbors)
ASSUME SizesAssumption == PageSize \in Nat \ {0} /\ Minimum \in Nat

VARIABLES
    table,      \* the radio's neighbor table
    pc,         \* "idle" or "taking" a capture
    held,       \* pages read in this capture that may be recorded
    raw,        \* are the recorded pages ZNP frames or typed in by hand?
    cursor, total, seen,      \* decode_capture: entries so far, population, addresses
    parsed,     \* the captures that were accepted (history: still, the table did not change;
                \* there, of frames: the routers that were in it meanwhile)
    report,     \* what snapshot_report says of the captures so far
    changes, during, sizes,   \* history of the capture: changes of the table, addresses
                              \* that were in it, its populations
    most        \* history: the largest number of routers there ever were at once

capture == <<during, sizes>>
world == <<table, changes, capture, most>>
decoder == <<raw, cursor, total, seen>>
vars == <<world, decoder, pc, held, parsed, report>>

Unknown == -1
Kinds == {"frames", "typed"}
Entries(s) == {s[i] : i \in DOMAIN s}
Distinct(s) == \A i, j \in DOMAIN s : s[i] = s[j] => i = j
RoutersIn(t) == Cardinality(Entries(t) \cap Routers)

\* The Mgmt_Lqi response to a start index.
Page(t, start, kind) == [kind |-> kind, total |-> Len(t), start |-> start,
                         entries |-> SubSeq(t, start + 1, IF start + PageSize < Len(t)
                                                          THEN start + PageSize ELSE Len(t))]

NoReport == [peak |-> Unknown]

Init == /\ table \in {t \in UNION {[1 .. n -> Neighbors] : n \in 0 .. Cardinality(Neighbors)} : Distinct(t)}
        /\ pc = "idle" /\ held = {}
        /\ raw = "none" /\ cursor = 0 /\ total = Unknown /\ seen = {}
        /\ parsed = <<>> /\ report = NoReport
        /\ changes = 0 /\ during = {} /\ sizes = {}
        /\ most = RoutersIn(table)

-----------------------------------------------------------------------------
(* The radio and the collector. *)

\* A neighbor is dropped, added, or takes the place of another one.
TableChanges ==
    /\ changes < MaxChanges
    /\ \/ \E i \in DOMAIN table : table' = SubSeq(table, 1, i - 1) \o SubSeq(table, i + 1, Len(table))
       \/ \E a \in Neighbors \ Entries(table) :
             \/ table' = Append(table, a)
             \/ \E i \in DOMAIN table : table' = [table EXCEPT ![i] = a]
    /\ changes' = changes + 1
    /\ IF pc = "taking" THEN during' = during \cup Entries(table') /\ sizes' = sizes \cup {Len(table')}
                        ELSE UNCHANGED capture
    /\ most' = IF RoutersIn(table') > most THEN RoutersIn(table') ELSE most
    /\ UNCHANGED <<decoder, pc, held, parsed, report>>

BeginCapture == /\ pc = "idle" /\ Len(parsed) < MaxCaptures
                /\ pc' = "taking"
                /\ changes' = 0 /\ during' = Entries(table) /\ sizes' = {Len(table)}
                /\ report' = NoReport
                /\ UNCHANGED <<table, most, decoder, held, parsed>>

\* A response arrives; what is typed in may have a wrong address in it.
ReadPage == /\ pc = "taking" /\ Cardinality(held) < MaxHeld
            /\ \E start \in 0 .. Len(table), kind \in Kinds :
                 LET p == Page(table, start, kind) IN
                 \/ held' = held \cup {p}
                 \/ /\ kind = "typed"
                    /\ \E i \in DOMAIN p.entries, a \in Neighbors :
                          held' = held \cup {[p EXCEPT !.entries[i] = a]}
            /\ UNCHANGED <<world, decoder, pc, parsed, report>>

LosePage == /\ \E p \in held : held' = held \ {p}
            /\ UNCHANGED <<world, decoder, pc, parsed, report>>

-----------------------------------------------------------------------------
(* decode_capture. *)

\* Faulty variant: the start index is not compared.
CoherentAnyStart(p) == /\ raw \in {"none", p.kind}
                       /\ total \in {Unknown, p.total}
                       /\ p.entries = <<>> => p.total <= cursor
                       /\ cursor + Len(p.entries) <= p.total
                       /\ Distinct(p.entries) /\ Entries(p.entries) \cap seen = {}

\* Faulty variant: an address may be repeated.
CoherentRepeats(p) == /\ raw \in {"none", p.kind}
                      /\ p.start = cursor /\ total \in {Unknown, p.total}
                      /\ p.entries = <<>> => p.total <= cursor
                      /\ cursor + Len(p.entries) <= p.total

\* No gap, no churn of the total, no empty page before the end, no more entries
\* than announced, no address twice, and pages of one kind.
Coherent(p) == /\ raw \in {"none", p.kind}
               /\ p.start = cursor /\ total \in {Unknown, p.total}
               /\ p.entries = <<>> => p.total <= cursor
               /\ cursor + Len(p.entries) <= p.total
               /\ Distinct(p.entries) /\ Entries(p.entries) \cap seen = {}

\* The next page of the document; it may be recorded again later.
RecordPage == /\ pc = "taking"
              /\ \E p \in held :
                   /\ Coherent(p)
                   /\ raw' = p.kind /\ total' = p.total
                   /\ cursor' = cursor + Len(p.entries)
                   /\ seen' = seen \cup Entries(p.entries)
                   /\ held' \in {held, held \ {p}}
              /\ UNCHANGED <<world, pc, parsed, report>>

\* decode_capture returns: what it keeps in local variables is gone.
Return == /\ pc = "taking" /\ pc' = "idle" /\ held' = {}
          /\ raw' = "none" /\ cursor' = 0 /\ total' = Unknown /\ seen' = {}
          /\ during' = {} /\ sizes' = {}
          /\ UNCHANGED <<table, changes, most, report>>

\* An incoherent page, a failed response, a frame with a wrong checksum, or no page at all.
Refuse == Return /\ UNCHANGED parsed

Parsed == [routers |-> seen \cap Routers, checked |-> raw = "frames",
           still |-> changes = 0, there |-> IF raw = "frames" THEN during \cap Routers ELSE {}]

\* Faulty variant: what was announced need not have come.
AcceptShort == total # Unknown /\ Return /\ parsed' = Append(parsed, Parsed)

\* All the announced entries have come.
Accept == total = cursor /\ Return /\ parsed' = Append(parsed, Parsed)

-----------------------------------------------------------------------------
(* snapshot_report. *)

Largest(S) == CHOOSE n \in S : \A m \in S : m <= n

\* The capture with the most routers.
Peak(doc) == Largest({Cardinality(parsed[i].routers) : i \in Entries(doc)})

\* A document may hold the captures in any order, or twice.
Documents == UNION {[1 .. n -> 1 .. Len(parsed)] : n \in 1 .. Len(parsed)}

\* Faulty variant: sorted, but not unique.
ChronologicalOrSame(doc) == \A i, j \in DOMAIN doc : i < j => doc[i] <= doc[j]

\* The timestamps are what is left of them when they are sorted and made unique.
Chronological(doc) == \A i, j \in DOMAIN doc : i < j => doc[i] < doc[j]

SnapshotReport ==
    /\ pc = "idle"
    /\ \E doc \in Documents :
         /\ Chronological(doc)
         /\ report' = [count |-> Len(doc), peak |-> Peak(doc),
                       stable |-> Cardinality({a \in Routers : \A i \in Entries(doc) : a \in parsed[i].routers}),
                       met |-> Peak(doc) >= Minimum,
                       checked |-> \A i \in Entries(doc) : parsed[i].checked,
                       still |-> \A i \in Entries(doc) : parsed[i].still]
    /\ UNCHANGED <<world, decoder, pc, held, parsed>>

Next == \/ TableChanges \/ BeginCapture \/ ReadPage \/ LosePage
        \/ RecordPage \/ Refuse \/ Accept \/ SnapshotReport

Spec == Init /\ [][Next]_vars

-----------------------------------------------------------------------------
(* Properties. *)

Accepted == parsed' # parsed /\ raw = "frames"

\* decode_capture: if the table did not change, an accepted capture of ZNP frames is the
\* table, whatever the collector lost, repeated or put in another order.
WholeWhenStill == [][Accepted /\ changes = 0 => seen = Entries(table)]_vars

\* decode_capture: whatever came and went, every address of an accepted capture of ZNP frames
\* was in the table during the capture, and the population it reports was one the table had.
PopulationWasReal ==
    [][Accepted => seen \subseteq during /\ Cardinality(seen) = cursor /\ cursor \in sizes]_vars

\* The routers that were in the table during n captures at least.
Lasting(n) == {a \in Routers : Cardinality({i \in DOMAIN parsed : a \in parsed[i].there}) >= n}

\* snapshot_report, when all it has are frames: target_router_entries_in_complete_pagination
\* means of tables that did not change that there were that many routers at one instant; and
\* router_identifiers_present_in_all_captures are routers that were there during capture_count
\* different captures, in whatever order, and however often, the captures were put together.
ReportIsTrue == report # NoReport /\ report.checked =>
    /\ report.met /\ report.still => most >= Minimum
    /\ report.stable <= Cardinality(Lasting(report.count))

Pages == [kind : Kinds, total : Nat, start : Nat, entries : Seq(Neighbors)]

TypeOK == /\ table \in Seq(Neighbors) /\ changes \in Nat
          /\ pc \in {"idle", "taking"} /\ held \subseteq Pages
          /\ raw \in {"none"} \cup Kinds /\ cursor \in Nat /\ total \in Nat \cup {Unknown}
          /\ seen \subseteq Neighbors /\ during \subseteq Neighbors /\ sizes \subseteq Nat

\* What a frame says was so during this capture, and is so if nothing has changed.
TruePage(p) == p.kind = "frames" =>
    /\ Entries(p.entries) \subseteq during /\ p.total \in sizes /\ p.start <= p.total
    /\ changes = 0 => p = Page(table, p.start, "frames")

\* What has been decoded is a part of what the table held, its first part if nothing has changed.
TrueDecoder == raw = "frames" =>
    /\ seen \subseteq during /\ total \in sizes
    /\ changes = 0 => cursor <= Len(table) /\ seen = {table[i] : i \in 1 .. cursor}

PaginationInv ==
    /\ TypeOK
    /\ Cardinality(seen) = cursor
    /\ total = Unknown => raw = "none"
    /\ raw = "none" => cursor = 0
    /\ pc = "taking" =>
         /\ Entries(table) \subseteq during /\ Len(table) \in sizes
         /\ changes = 0 => sizes = {Len(table)}
         /\ \A p \in held : TruePage(p)
         /\ TrueDecoder
=============================================================================

-------------------------- MODULE ObservationProofs --------------------------
(* Proofs of what is concluded from the network: that an accepted capture  *)
(* of frames reports a population the table had, and is the table if that  *)
(* did not change; that a report of captures is true of the table; and     *)
(* that assess tells the truth of every device.                            *)
EXTENDS NeighborPagination, Acceptance, FiniteSetTheorems, SequenceTheorems, WellFoundedInduction, TLAPS

USE NeighborsAssumption, SizesAssumption DEF Unknown, Kinds, world, capture, decoder

-----------------------------------------------------------------------------
(* Sequences without repetition, and pages of them. *)

LEMMA EntriesOf == ASSUME NEW S, NEW s \in Seq(S)
                   PROVE  /\ Len(s) \in Nat /\ Entries(s) \subseteq S
                          /\ Entries(s) = {s[i] : i \in 1 .. Len(s)}
  BY LenProperties, ElementOfSeq DEF Entries

LEMMA CardinalityOfDistinct == ASSUME NEW S, NEW s \in Seq(S), Distinct(s)
                               PROVE  IsFiniteSet(Entries(s)) /\ Cardinality(Entries(s)) = Len(s)
  <1> DEFINE f == [i \in 1 .. Len(s) |-> s[i]]
  <1>1. Len(s) \in Nat /\ DOMAIN s = 1 .. Len(s) /\ Entries(s) = {s[i] : i \in 1 .. Len(s)}
    BY LenProperties, EntriesOf
  <1>2. f \in Bijection(1 .. Len(s), Entries(s))
    BY <1>1 DEF Bijection, Injection, IsInjective, Surjection, Distinct
  <1>3. ExistsBijection(1 .. Len(s), Entries(s))
    BY <1>2 DEF ExistsBijection
  <1>4. IsFiniteSet(1 .. Len(s)) /\ Cardinality(1 .. Len(s)) = Len(s)
    BY <1>1, FS_Interval
  <1> QED BY <1>3, <1>4, FS_Bijection

\* What t holds from a to b.
Span(t, a, b) == {t[i] : i \in a .. b}

LEMMA PartOf == ASSUME NEW S, NEW t \in Seq(S), NEW a \in Nat, NEW b \in Nat, a <= b, b <= Len(t)
                PROVE  /\ SubSeq(t, a + 1, b) \in Seq(S) /\ Len(SubSeq(t, a + 1, b)) = b - a
                       /\ Entries(SubSeq(t, a + 1, b)) = {t[i] : i \in a + 1 .. b}
  <1>1. Len(t) \in Nat /\ \A i \in a + 1 .. b : t[i] \in S
    BY LenProperties, ElementOfSeq
  <1>2. PICK e : e = SubSeq(t, a + 1, b)
    OBVIOUS
  <1>3. e \in Seq(S) /\ Len(e) = b - a /\ \A i \in 1 .. b - a : e[i] = t[a + i]
    <2>1. /\ e \in Seq(S)
          /\ Len(e) = IF a + 1 <= b THEN b - (a + 1) + 1 ELSE 0
          /\ \A i \in 1 .. b - (a + 1) + 1 : e[i] = t[a + 1 + i - 1]
      BY <1>1, <1>2, SubSeqProperties
    <2> QED BY <2>1
  <1>4. Entries(e) = {e[i] : i \in 1 .. Len(e)}
    BY <1>3, EntriesOf
  <1>5. {e[i] : i \in 1 .. Len(e)} = {t[i] : i \in a + 1 .. b}
    <2>1. ASSUME NEW i \in 1 .. Len(e)
          PROVE  e[i] \in {t[j] : j \in a + 1 .. b}
      <3>1. a + i \in a + 1 .. b /\ e[i] = t[a + i]
        BY <1>3
      <3> QED BY <3>1
    <2>2. ASSUME NEW j \in a + 1 .. b
          PROVE  t[j] \in {e[i] : i \in 1 .. Len(e)}
      <3>1. j - a \in 1 .. Len(e) /\ a + (j - a) = j
        BY <1>3
      <3>2. e[j - a] = t[j]
        BY <1>3, <3>1
      <3> QED BY <3>1, <3>2
    <2> QED BY <2>1, <2>2
  <1> QED BY <1>2, <1>3, <1>4, <1>5

\* A page that begins where one has read to adds exactly its entries.
LEMMA PageOf == ASSUME NEW t \in Seq(Neighbors), NEW start \in 0 .. Len(t), NEW kind \in Kinds, NEW p,
                       p = Page(t, start, kind)
                PROVE  /\ p \in Pages /\ p.kind = kind /\ p.total = Len(t) /\ p.start = start
                       /\ start + Len(p.entries) <= Len(t)
                       /\ Entries(p.entries) = Span(t, start + 1, start + Len(p.entries))
                       /\ Entries(p.entries) \subseteq Entries(t)
  <1>1. Len(t) \in Nat /\ Entries(t) = {t[i] : i \in 1 .. Len(t)}
    BY EntriesOf
  <1>2. PICK last \in Nat : /\ last = IF start + PageSize < Len(t) THEN start + PageSize ELSE Len(t)
                            /\ start <= last /\ last <= Len(t)
    BY <1>1
  <1>3. PICK e : e = SubSeq(t, start + 1, last)
    OBVIOUS
  <1>s. start \in Nat
    BY <1>1
  <1>4. e \in Seq(Neighbors) /\ Len(e) = last - start /\ Entries(e) = {t[i] : i \in start + 1 .. last}
    <2>1. start <= last /\ last <= Len(t)
      BY <1>2
    <2>2. /\ SubSeq(t, start + 1, last) \in Seq(Neighbors) /\ Len(SubSeq(t, start + 1, last)) = last - start
          /\ Entries(SubSeq(t, start + 1, last)) = {t[i] : i \in start + 1 .. last}
      BY <1>s, <2>1, PartOf
    <2> QED BY <1>3, <2>2
  <1>5. start + Len(e) = last
    BY <1>s, <1>2, <1>4
  <1>6. p = [kind |-> kind, total |-> Len(t), start |-> start, entries |-> e]
    BY <1>2, <1>3 DEF Page
  <1>7. p \in Pages /\ p.kind = kind /\ p.total = Len(t) /\ p.start = start /\ p.entries = e
    BY <1>1, <1>4, <1>6 DEF Pages
  <1>8. \A i \in start + 1 .. last : i \in 1 .. Len(t)
    BY <1>s, <1>1, <1>2
  <1>9. Entries(e) \subseteq Entries(t)
    BY <1>1, <1>4, <1>8
  <1> QED BY <1>2, <1>4, <1>5, <1>7, <1>9 DEF Span

-----------------------------------------------------------------------------
(* The inductive invariant, one lemma per action. *)

LEMMA InitInv == Init => PaginationInv
  <1> SUFFICES ASSUME Init PROVE PaginationInv
    OBVIOUS
  <1>1. table \in Seq(Neighbors)
    <2>1. PICK n \in 0 .. Cardinality(Neighbors) : table \in [1 .. n -> Neighbors]
      BY DEF Init
    <2>2. n \in Nat
      BY FS_CardinalityType
    <2> QED BY <2>1, <2>2
  <1>2. Cardinality({}) = 0
    BY FS_EmptySet
  <1> QED BY <1>1, <1>2 DEF Init, PaginationInv, TypeOK

LEMMA TableChangesInv == ASSUME PaginationInv, TableChanges
                         PROVE  PaginationInv'
  <1>1. table \in Seq(Neighbors) /\ Len(table) \in Nat
    BY LenProperties DEF PaginationInv, TypeOK
  <1>2. table' \in Seq(Neighbors)
    <2>1. ASSUME NEW i \in DOMAIN table,
                 table' = SubSeq(table, 1, i - 1) \o SubSeq(table, i + 1, Len(table))
          PROVE  table' \in Seq(Neighbors)
      <3>1. i \in 1 .. Len(table)
        BY <1>1, LenProperties
      <3>2. SubSeq(table, 1, i - 1) \in Seq(Neighbors)
        <4>1. \A j \in 1 .. i - 1 : table[j] \in Neighbors
          BY <1>1, <3>1, ElementOfSeq
        <4> QED BY <3>1, <4>1, SubSeqProperties
      <3>3. SubSeq(table, i + 1, Len(table)) \in Seq(Neighbors)
        <4>1. \A j \in i + 1 .. Len(table) : table[j] \in Neighbors
          BY <1>1, <3>1, ElementOfSeq
        <4> QED BY <1>1, <3>1, <4>1, SubSeqProperties
      <3> QED BY <2>1, <3>2, <3>3, ConcatProperties
    <2>2. ASSUME NEW a \in Neighbors, table' = Append(table, a)
          PROVE  table' \in Seq(Neighbors)
      BY <1>1, <2>2
    <2>3. ASSUME NEW a \in Neighbors, NEW i \in DOMAIN table, table' = [table EXCEPT ![i] = a]
          PROVE  table' \in Seq(Neighbors)
      BY <1>1, <2>3, LenProperties, ExceptSeq
    <2> QED BY <2>1, <2>2, <2>3 DEF TableChanges
  <1>3. Len(table') \in Nat /\ Entries(table') \subseteq Neighbors
    BY <1>2, EntriesOf
  <1>4. /\ changes' = changes + 1 /\ changes' \in Nat /\ changes' # 0
        /\ UNCHANGED <<decoder, pc, held>>
        /\ IF pc = "taking" THEN during' = during \cup Entries(table') /\ sizes' = sizes \cup {Len(table')}
                            ELSE UNCHANGED capture
    BY DEF TableChanges, PaginationInv, TypeOK
  <1>5. TypeOK'
    BY <1>2, <1>3, <1>4 DEF PaginationInv, TypeOK
  <1>6. ASSUME pc = "taking"
        PROVE  /\ Entries(table') \subseteq during' /\ Len(table') \in sizes'
               /\ \A p \in held : TruePage(p)'
               /\ TrueDecoder'
    BY <1>4, <1>6 DEF PaginationInv, TruePage, TrueDecoder
  <1> QED BY <1>4, <1>5, <1>6 DEF PaginationInv

LEMMA BeginCaptureInv == ASSUME PaginationInv, BeginCapture, pc = "idle" => raw = "none" /\ held = {}
                         PROVE  PaginationInv'
  <1>1. Len(table) \in Nat /\ Entries(table) \subseteq Neighbors
    BY EntriesOf DEF PaginationInv, TypeOK
  <1> QED BY <1>1 DEF BeginCapture, PaginationInv, TypeOK, TrueDecoder

LEMMA ReadPageInv == ASSUME PaginationInv, ReadPage
                     PROVE  PaginationInv'
  <1> PICK start \in 0 .. Len(table), kind \in Kinds : LET p == Page(table, start, kind) IN
          \/ held' = held \cup {p}
          \/ /\ kind = "typed"
             /\ \E i \in DOMAIN p.entries, a \in Neighbors : held' = held \cup {[p EXCEPT !.entries[i] = a]}
    BY DEF ReadPage
  <1> PICK p : p = Page(table, start, kind)
    OBVIOUS
  <1>1. /\ p = Page(table, start, kind)
        /\ \/ held' = held \cup {p}
           \/ /\ kind = "typed"
              /\ \E i \in DOMAIN p.entries, a \in Neighbors : held' = held \cup {[p EXCEPT !.entries[i] = a]}
    OBVIOUS
  <1>2. /\ p \in Pages /\ p.kind = kind /\ p.total = Len(table) /\ p.start = start
        /\ Entries(p.entries) \subseteq Entries(table)
    BY <1>1, PageOf DEF PaginationInv, TypeOK
  <1>3. PICK q \in Pages : held' = held \cup {q} /\ (q = p \/ q.kind = "typed")
    <2>1. CASE held' = held \cup {p}
      BY <1>2, <2>1
    <2>2. ASSUME NEW i \in DOMAIN p.entries, NEW a \in Neighbors, kind = "typed",
                 held' = held \cup {[p EXCEPT !.entries[i] = a]}
          PROVE  \E q \in Pages : held' = held \cup {q} /\ q.kind = "typed"
      <3>1. p.entries \in Seq(Neighbors)
        BY <1>2 DEF Pages
      <3>2. [p.entries EXCEPT ![i] = a] \in Seq(Neighbors)
        BY <2>2, <3>1, LenProperties, ExceptSeq
      <3>3. [p EXCEPT !.entries[i] = a] \in Pages /\ [p EXCEPT !.entries[i] = a].kind = "typed"
        BY <1>2, <2>2, <3>2 DEF Pages
      <3> QED BY <2>2, <3>3
    <2> QED BY <1>1, <2>1, <2>2
  <1>4. pc = "taking" /\ UNCHANGED <<world, decoder, pc>>
    BY DEF ReadPage
  <1>5. Len(table) \in Nat /\ p.start <= p.total
    BY <1>2, LenProperties DEF PaginationInv, TypeOK
  <1>6. TruePage(q)
    BY <1>1, <1>2, <1>3, <1>4, <1>5 DEF TruePage, PaginationInv
  <1>7. \A r \in held' : TruePage(r)'
    BY <1>3, <1>4, <1>6 DEF TruePage, PaginationInv
  <1>8. TypeOK'
    BY <1>3, <1>4 DEF PaginationInv, TypeOK
  <1> QED BY <1>4, <1>7, <1>8 DEF PaginationInv, TrueDecoder

LEMMA RecordPageInv == ASSUME PaginationInv, RecordPage
                       PROVE  PaginationInv'
  <1>1. PICK p \in held : /\ Coherent(p)
                          /\ raw' = p.kind /\ total' = p.total
                          /\ cursor' = cursor + Len(p.entries)
                          /\ seen' = seen \cup Entries(p.entries)
                          /\ held' \in {held, held \ {p}}
    BY DEF RecordPage
  <1>2. pc = "taking" /\ UNCHANGED <<world, pc>>
    BY DEF RecordPage
  <1>3. /\ p.kind \in Kinds /\ p.total \in Nat /\ p.entries \in Seq(Neighbors) /\ TruePage(p)
    BY <1>2 DEF PaginationInv, TypeOK, Pages
  <1>4. Len(p.entries) \in Nat /\ Entries(p.entries) \subseteq Neighbors
    BY <1>3, EntriesOf
  <1>5. TypeOK'
    BY <1>1, <1>2, <1>3, <1>4 DEF PaginationInv, TypeOK
  <1>6. Cardinality(seen') = cursor'
    <2>1. Distinct(p.entries) /\ Entries(p.entries) \cap seen = {}
      BY <1>1 DEF Coherent
    <2>2. IsFiniteSet(Entries(p.entries)) /\ Cardinality(Entries(p.entries)) = Len(p.entries)
      BY <1>3, <2>1, CardinalityOfDistinct
    <2>3. IsFiniteSet(seen) /\ Cardinality(seen) = cursor /\ cursor \in Nat
      BY FS_Subset DEF PaginationInv, TypeOK
    <2>4. Cardinality(seen \cap Entries(p.entries)) = 0
      BY <2>1, FS_EmptySet
    <2>5. Cardinality(seen \cup Entries(p.entries)) = Cardinality(seen) + Cardinality(Entries(p.entries)) - 0
      BY <2>2, <2>3, <2>4, FS_Union
    <2> QED BY <1>1, <1>4, <2>2, <2>3, <2>5
  <1>7. \A q \in held' : TruePage(q)'
    BY <1>1, <1>2 DEF PaginationInv, TruePage
  <1>8. TrueDecoder'
    <2> SUFFICES ASSUME p.kind = "frames" PROVE TrueDecoder'
      BY <1>1 DEF TrueDecoder
    <2>1. raw \in {"none", "frames"} /\ p.start = cursor
      BY <1>1 DEF Coherent
    <2>2. /\ Entries(p.entries) \subseteq during /\ p.total \in sizes /\ p.start <= p.total
          /\ changes = 0 => p = Page(table, p.start, "frames")
      BY <1>3 DEF TruePage
    <2>3. seen = {} \/ raw = "frames"
      <3>1. IsFiniteSet(seen)
        BY FS_Subset DEF PaginationInv, TypeOK
      <3>2. raw = "none" => Cardinality(seen) = 0
        BY DEF PaginationInv
      <3> QED BY <2>1, <3>1, <3>2, FS_EmptySet
    <2>4. seen' \subseteq during /\ total' \in sizes
      BY <1>1, <1>2, <2>2, <2>3 DEF PaginationInv, TrueDecoder
    <2>5. ASSUME changes = 0
          PROVE  cursor' <= Len(table) /\ seen' = {table[i] : i \in 1 .. cursor'}
      <3>1. Len(table) \in Nat /\ cursor \in Nat /\ table \in Seq(Neighbors)
        BY LenProperties DEF PaginationInv, TypeOK
      <3>2. cursor \in 0 .. Len(table)
        <4>1. p.total = Len(table)
          BY <1>2, <2>2, <2>5 DEF PaginationInv
        <4> QED BY <2>1, <2>2, <3>1, <4>1
      <3>3. /\ cursor + Len(p.entries) <= Len(table)
            /\ Entries(p.entries) = Span(table, cursor + 1, cursor + Len(p.entries))
        <4>1. p = Page(table, cursor, "frames") /\ "frames" \in Kinds
          BY <2>1, <2>2, <2>5
        <4> QED BY <3>1, <3>2, <4>1, PageOf
      <3>4. seen = {table[i] : i \in 1 .. cursor}
        <4>1. raw = "none" => cursor = 0
          BY DEF PaginationInv
        <4>2. raw = "frames" => seen = {table[i] : i \in 1 .. cursor}
          BY <1>2, <2>5 DEF PaginationInv, TrueDecoder
        <4>3. 1 .. 0 = {}
          OBVIOUS
        <4> QED BY <2>1, <2>3, <4>1, <4>2, <4>3
      <3>5. 1 .. cursor + Len(p.entries) = (1 .. cursor) \cup (cursor + 1 .. cursor + Len(p.entries))
        BY <1>4, <3>1
      <3> QED BY <1>1, <3>3, <3>4, <3>5 DEF Span
    <2> QED BY <1>2, <2>4, <2>5 DEF TrueDecoder
  <1>9. total' # Unknown /\ raw' # "none"
    BY <1>1, <1>3
  <1> QED BY <1>1, <1>2, <1>5, <1>6, <1>7, <1>8, <1>9 DEF PaginationInv

LEMMA ReturnInv == ASSUME PaginationInv, Return
                   PROVE  PaginationInv'
  BY FS_EmptySet DEF Return, PaginationInv, TypeOK

\* Between captures nothing is left of the last one.
Cleared == pc = "idle" => raw = "none" /\ held = {}

LEMMA NextInv == ASSUME PaginationInv, Cleared, [Next]_vars
                 PROVE  PaginationInv' /\ Cleared'
  <1>1. CASE TableChanges
    <2>1. Cleared' BY <1>1 DEF TableChanges, Cleared
    <2> QED BY <1>1, <2>1, TableChangesInv
  <1>2. CASE BeginCapture
    <2>1. Cleared' BY <1>2 DEF BeginCapture, Cleared
    <2> QED BY <1>2, <2>1, BeginCaptureInv DEF Cleared
  <1>3. CASE ReadPage
    <2>1. Cleared' BY <1>3 DEF ReadPage, Cleared
    <2> QED BY <1>3, <2>1, ReadPageInv
  <1>4. CASE RecordPage
    <2>1. Cleared' BY <1>4 DEF RecordPage, Cleared
    <2> QED BY <1>4, <2>1, RecordPageInv
  <1>5. CASE Return
    <2>1. Cleared' BY <1>5 DEF Return, Cleared
    <2> QED BY <1>5, <2>1, ReturnInv
  <1>6. CASE LosePage
    <2>1. PICK p \in held : held' = held \ {p} /\ UNCHANGED <<world, decoder, pc>>
      BY <1>6 DEF LosePage
    <2> QED BY <2>1 DEF Cleared, PaginationInv, TypeOK, TruePage, TrueDecoder
  <1>7. CASE SnapshotReport \/ UNCHANGED vars
    <2>1. UNCHANGED <<world, decoder, pc, held>>
      BY <1>7 DEF SnapshotReport, vars
    <2> QED BY <2>1 DEF Cleared, PaginationInv, TypeOK, TruePage, TrueDecoder
  <1> QED BY <1>1, <1>2, <1>3, <1>4, <1>5, <1>6, <1>7 DEF Next, Refuse, Accept

\* PaginationInv: a page that is held was true of this capture, and what was decoded of frames
\* was in the table, for any table, page size and number of changes.
THEOREM Inductive == Spec => [](PaginationInv /\ Cleared)
  <1>1. Init => PaginationInv /\ Cleared
    BY InitInv DEF Init, Cleared
  <1>2. PaginationInv /\ Cleared /\ [Next]_vars => (PaginationInv /\ Cleared)'
    BY NextInv
  <1> QED BY <1>1, <1>2, PTL DEF Spec

-----------------------------------------------------------------------------
(* What an accepted capture says. *)

LEMMA OnlyAccept == ASSUME [Next]_vars, parsed' # parsed
                    PROVE  Accept
  BY DEF Next, vars, TableChanges, BeginCapture, ReadPage, LosePage, RecordPage, Refuse, SnapshotReport

\* decode_capture: a reported population is one the table had, and all its addresses were there.
THEOREM PopulationReal == Spec => PopulationWasReal
  <1>1. ASSUME PaginationInv, [Next]_vars, Accepted
        PROVE  seen \subseteq during /\ Cardinality(seen) = cursor /\ cursor \in sizes
    <2>1. Accept
      BY <1>1, OnlyAccept DEF Accepted
    <2> QED BY <1>1, <2>1 DEF Accepted, Accept, Return, PaginationInv, TrueDecoder
  <1>2. PaginationInv /\ [Next]_vars
          => [Accepted => seen \subseteq during /\ Cardinality(seen) = cursor /\ cursor \in sizes]_vars
    BY <1>1
  <1> QED BY Inductive, <1>2, PTL DEF Spec, PopulationWasReal

\* decode_capture: an accepted capture of a table that did not change is the table.
THEOREM WholeTable == Spec => WholeWhenStill
  <1>1. ASSUME PaginationInv, [Next]_vars, Accepted, changes = 0
        PROVE  seen = Entries(table)
    <2>1. Accept
      BY <1>1, OnlyAccept DEF Accepted
    <2>2. pc = "taking" /\ raw = "frames" /\ total = cursor
      BY <1>1, <2>1 DEF Accepted, Accept, Return
    <2>3. cursor = Len(table) /\ seen = {table[i] : i \in 1 .. cursor}
      BY <1>1, <2>2 DEF PaginationInv, TrueDecoder
    <2> QED BY <1>1, <2>3, EntriesOf DEF PaginationInv, TypeOK
  <1>2. PaginationInv /\ [Next]_vars => [Accepted /\ changes = 0 => seen = Entries(table)]_vars
    BY <1>1
  <1> QED BY Inductive, <1>2, PTL DEF Spec, WholeWhenStill

-----------------------------------------------------------------------------
(* What snapshot_report says. *)

LEMMA Least == ASSUME NEW T \in SUBSET Nat, T # {}
               PROVE  \E x \in T : \A y \in T : x <= y
  <1>1. IsWellFoundedOn(OpToRel(<, Nat), Nat)
    BY NatLessThanWellFounded
  <1>2. PICK x \in T : \A y \in T : ~ (<<y, x>> \in OpToRel(<, Nat))
    BY <1>1, WFMin
  <1>3. \A y \in T : ~ (y < x)
    BY <1>2 DEF OpToRel
  <1> QED BY <1>3

\* A set of numbers with a bound has a largest one.
LEMMA LargestOf == ASSUME NEW S \in SUBSET Nat, S # {}, NEW n \in Nat, \A m \in S : m <= n
                   PROVE  Largest(S) \in S
  <1> DEFINE Bounds == {b \in Nat : \A m \in S : m <= b}
  <1>1. PICK b \in Bounds : \A c \in Bounds : b <= c
    <2>1. n \in Bounds
      OBVIOUS
    <2> QED BY <2>1, Least
  <1>2. b \in S
    <2> SUFFICES ASSUME b \notin S PROVE FALSE
      OBVIOUS
    <2>1. \A m \in S : m <= b - 1
      BY <1>1
    <2>2. b - 1 \in Nat
      <3>1. PICK m \in S : m \in Nat
        OBVIOUS
      <3>2. m <= b - 1 /\ b \in Nat
        BY <2>1, <3>1
      <3> QED BY <3>1, <3>2
    <2> QED BY <1>1, <2>1, <2>2
  <1>3. \E k \in S : \A m \in S : m <= k
    BY <1>1, <1>2
  <1> QED BY <1>3 DEF Largest

\* What a capture says that was accepted before there were n routers at once: no more than n, if
\* it is one of frames of a table that did not change.
Reached(c, n) == c.checked /\ c.still => Cardinality(c.routers) <= n

\* Frames tell only of routers that were there meanwhile.
Witnessed(c) == c.checked => c.routers \subseteq c.there

Captures == [routers : SUBSET Routers, checked : BOOLEAN, still : BOOLEAN, there : SUBSET Routers]

\* Every capture of a table that did not change was the table at one time, so no more routers are
\* in it than there ever were; nor are there more in the table.  A report is of all captures.
PeakInv == /\ most \in Nat /\ RoutersIn(table) <= most
           /\ parsed \in Seq(Captures)
           /\ \A i \in DOMAIN parsed : Reached(parsed[i], most) /\ Witnessed(parsed[i])
           /\ pc = "taking" => report = NoReport
           /\ ReportIsTrue

LEMMA RoutersCounted == ASSUME NEW S \in SUBSET Routers
                        PROVE  IsFiniteSet(S) /\ Cardinality(S) \in Nat /\ Cardinality(S) <= Cardinality(Neighbors)
  <1>1. S \in SUBSET Neighbors
    OBVIOUS
  <1>2. IsFiniteSet(S) /\ Cardinality(S) <= Cardinality(Neighbors)
    BY <1>1, FS_Subset
  <1> QED BY <1>2, FS_CardinalityType

LEMMA PeakInitially == Init => PeakInv
  <1> SUFFICES ASSUME Init PROVE PeakInv
    OBVIOUS
  <1>1. Entries(table) \cap Routers \subseteq Routers
    OBVIOUS
  <1>2. RoutersIn(table) \in Nat
    BY <1>1, RoutersCounted DEF RoutersIn
  <1>3. parsed = <<>> /\ report = NoReport /\ pc = "idle" /\ most = RoutersIn(table)
    BY DEF Init
  <1>4. <<>> \in Seq(Captures) /\ DOMAIN <<>> = {}
    OBVIOUS
  <1> QED BY <1>2, <1>3, <1>4 DEF PeakInv, ReportIsTrue

\* A history that grows keeps what was said.
LEMMA ReachedGrows == ASSUME NEW c \in Captures, NEW m \in Nat, NEW n \in Nat, m <= n, Reached(c, m)
                      PROVE  Reached(c, n)
  <1>1. c.routers \in SUBSET Routers
    BY DEF Captures
  <1>2. Cardinality(c.routers) \in Nat
    BY <1>1, RoutersCounted
  <1>3. Cardinality(c.routers) <= m => Cardinality(c.routers) <= n
    BY <1>2
  <1> QED BY <1>3, Zenon DEF Reached

\* A target that was met is met if there have been more routers.
LEMMA ReportStays == ASSUME ReportIsTrue, most \in Nat, most' \in Nat, most <= most', report' = report,
                            parsed' = parsed
                     PROVE  ReportIsTrue'
  <1>1. most >= Minimum => most' >= Minimum
    OBVIOUS
  <1>2. \A n : Lasting(n)' = Lasting(n)
    BY DEF Lasting
  <1>3. Lasting(report.count)' = Lasting(report.count)
    BY DEF Lasting
  <1> HIDE DEF Lasting
  <1> QED BY <1>1, <1>3, Zenon DEF ReportIsTrue

LEMMA ChangesKeepPeak == ASSUME PeakInv, TableChanges
                         PROVE  PeakInv'
  <1>1. Entries(table') \cap Routers \subseteq Routers
    OBVIOUS
  <1>2. RoutersIn(table') \in Nat
    BY <1>1, RoutersCounted DEF RoutersIn
  <1>3. /\ most' = IF RoutersIn(table') > most THEN RoutersIn(table') ELSE most
        /\ parsed' = parsed /\ report' = report /\ pc' = pc
    BY DEF TableChanges
  <1>4. most \in Nat
    BY DEF PeakInv
  <1>5. most' \in Nat /\ RoutersIn(table') <= most' /\ most <= most'
    BY <1>2, <1>3, <1>4
  <1>6. RoutersIn(table)' = RoutersIn(table')
    BY DEF RoutersIn, Entries
  <1>7. \A i \in DOMAIN parsed' : Reached(parsed'[i], most') /\ Witnessed(parsed'[i])
    <2> SUFFICES ASSUME NEW i \in DOMAIN parsed PROVE Reached(parsed[i], most') /\ Witnessed(parsed[i])
      BY <1>3
    <2>1. parsed[i] \in Captures /\ Reached(parsed[i], most) /\ Witnessed(parsed[i])
      BY ElementOfSeq, LenProperties DEF PeakInv
    <2> QED BY <1>4, <1>5, <2>1, ReachedGrows
  <1>8. ReportIsTrue'
    BY <1>3, <1>4, <1>5, ReportStays DEF PeakInv
  <1> QED BY <1>3, <1>5, <1>6, <1>7, <1>8 DEF PeakInv

\* The table as it is now has no more routers than there ever were.
LEMMA AcceptKeepsPeak == ASSUME PeakInv, PaginationInv, Accept
                         PROVE  PeakInv'
  <1>1. /\ parsed' = Append(parsed, Parsed)
        /\ pc = "taking" /\ pc' = "idle" /\ total = cursor /\ UNCHANGED <<table, most, report>>
    BY DEF Accept, Return
  <1>2. seen \cap Routers \in SUBSET Routers
    OBVIOUS
  <1>3. Parsed \in Captures
    BY <1>2 DEF Parsed, Captures, PaginationInv, TypeOK
  <1>4. Reached(Parsed, most)
    <2> SUFFICES ASSUME Parsed.checked, Parsed.still PROVE Cardinality(Parsed.routers) <= most
      BY Zenon DEF Reached
    <2>1. raw = "frames" /\ changes = 0
      BY DEF Parsed
    <2>2. cursor = Len(table) /\ seen = {table[i] : i \in 1 .. cursor}
      BY <1>1, <2>1 DEF PaginationInv, TrueDecoder
    <2>3. seen = Entries(table)
      BY <2>2, EntriesOf DEF PaginationInv, TypeOK
    <2>4. Parsed.routers = Entries(table) \cap Routers
      BY <2>3 DEF Parsed
    <2> QED BY <2>4 DEF PeakInv, RoutersIn
  <1>10. Witnessed(Parsed)
    BY <1>1 DEF Witnessed, Parsed, PaginationInv, TrueDecoder
  <1>5. parsed \in Seq(Captures)
    BY DEF PeakInv
  <1>6. /\ parsed' \in Seq(Captures) /\ Len(parsed') = Len(parsed) + 1
        /\ \A i \in 1 .. Len(parsed) : parsed'[i] = parsed[i]
        /\ parsed'[Len(parsed) + 1] = Parsed
    BY <1>1, <1>3, <1>5, AppendProperties
  <1>7. ASSUME NEW i \in DOMAIN parsed'
        PROVE  Reached(parsed'[i], most) /\ Witnessed(parsed'[i])
    <2>1. Len(parsed) \in Nat /\ DOMAIN parsed = 1 .. Len(parsed) /\ DOMAIN parsed' = 1 .. Len(parsed) + 1
      BY <1>5, <1>6, LenProperties
    <2>2. i \in 1 .. Len(parsed) \/ i = Len(parsed) + 1
      BY <2>1
    <2>3. \A k \in 1 .. Len(parsed) : Reached(parsed[k], most) /\ Witnessed(parsed[k])
      BY <2>1 DEF PeakInv
    <2>4. CASE i = Len(parsed) + 1
      BY <1>4, <1>10, <1>6, <2>4
    <2>5. CASE i \in 1 .. Len(parsed)
      BY <1>6, <2>3, <2>5
    <2> QED BY <2>2, <2>4, <2>5
  <1>8. ReportIsTrue'
    BY <1>1 DEF PeakInv, ReportIsTrue
  <1>9. RoutersIn(table)' <= most' /\ most' \in Nat
    BY <1>1 DEF PeakInv, RoutersIn, Entries
  <1> QED BY <1>1, <1>6, <1>7, <1>8, <1>9 DEF PeakInv

\* The peak of a document is the number of routers in one of its captures.
LEMMA PeakIsOne == ASSUME PeakInv, NEW doc \in Documents
                   PROVE  \E i \in Entries(doc) : i \in DOMAIN parsed /\ Peak(doc) = Cardinality(parsed[i].routers)
  <1> DEFINE Sizes == {Cardinality(parsed[i].routers) : i \in Entries(doc)}
  <1>1. parsed \in Seq(Captures) /\ Len(parsed) \in Nat /\ DOMAIN parsed = 1 .. Len(parsed)
    BY LenProperties DEF PeakInv
  <1>2. PICK n \in 1 .. Len(parsed) : doc \in [1 .. n -> 1 .. Len(parsed)]
    BY DEF Documents
  <1>3. Entries(doc) \subseteq DOMAIN parsed /\ Entries(doc) # {}
    <2>1. doc[1] \in Entries(doc)
      BY <1>1, <1>2 DEF Entries
    <2> QED BY <1>1, <1>2, <2>1 DEF Entries
  <1>4. ASSUME NEW i \in Entries(doc)
        PROVE  parsed[i].routers \in SUBSET Routers
    <2>1. i \in 1 .. Len(parsed)
      BY <1>1, <1>3
    <2>2. parsed[i] \in Captures
      BY <1>1, <2>1, ElementOfSeq
    <2> QED BY <2>2 DEF Captures
  <1>5. \A i \in Entries(doc) : /\ Cardinality(parsed[i].routers) \in Nat
                                /\ Cardinality(parsed[i].routers) <= Cardinality(Neighbors)
    BY <1>4, RoutersCounted
  <1>6. Sizes \in SUBSET Nat /\ Sizes # {} /\ \A m \in Sizes : m <= Cardinality(Neighbors)
    BY <1>3, <1>5
  <1>7. Cardinality(Neighbors) \in Nat
    BY FS_CardinalityType
  <1>8. Largest(Sizes) \in Sizes
    <2> HIDE DEF Sizes
    <2> QED BY <1>6, <1>7, LargestOf
  <1> QED BY <1>3, <1>8 DEF Peak

\* The captures of a document are different ones, so a router in all of them was there that often.
LEMMA StableIsLasting == ASSUME PeakInv, NEW doc \in Documents, Chronological(doc),
                                \A i \in Entries(doc) : parsed[i].checked
                         PROVE  Cardinality({a \in Routers : \A i \in Entries(doc) : a \in parsed[i].routers})
                                  <= Cardinality(Lasting(Len(doc)))
  <1> DEFINE Stable == {a \in Routers : \A i \in Entries(doc) : a \in parsed[i].routers}
             During(a) == {i \in DOMAIN parsed : a \in parsed[i].there}
  <1>1. parsed \in Seq(Captures) /\ Len(parsed) \in Nat /\ DOMAIN parsed = 1 .. Len(parsed)
    BY LenProperties DEF PeakInv
  <1>2. PICK n \in 1 .. Len(parsed) : doc \in [1 .. n -> 1 .. Len(parsed)]
    BY DEF Documents
  <1>3. doc \in Seq(1 .. Len(parsed)) /\ DOMAIN doc = 1 .. n
    BY <1>1, <1>2, IsASeq
  <1>4. Distinct(doc)
    BY <1>1, <1>2, <1>3 DEF Chronological, Distinct
  <1>5. Cardinality(Entries(doc)) = Len(doc) /\ Len(doc) \in Nat
    BY <1>3, <1>4, CardinalityOfDistinct, LenProperties
  <1>6. Entries(doc) \subseteq DOMAIN parsed
    BY <1>1, <1>2 DEF Entries
  <1>7. ASSUME NEW a \in Stable
        PROVE  a \in Lasting(Len(doc))
    <2>1. \A i \in Entries(doc) : i \in DOMAIN parsed /\ a \in parsed[i].there
      BY <1>6 DEF PeakInv, Witnessed
    <2>2. Entries(doc) \subseteq During(a)
      BY <2>1
    <2>3. IsFiniteSet(DOMAIN parsed) /\ During(a) \subseteq DOMAIN parsed
      BY <1>1, FS_Interval
    <2>4. IsFiniteSet(During(a)) /\ Cardinality(During(a)) \in Nat
      BY <2>3, FS_Subset, FS_CardinalityType
    <2>5. Cardinality(Entries(doc)) <= Cardinality(During(a))
      BY <2>2, <2>4, FS_Subset
    <2> QED BY <1>5, <2>4, <2>5 DEF Lasting
  <1>8. Lasting(Len(doc)) \in SUBSET Routers
    BY DEF Lasting
  <1>9. IsFiniteSet(Lasting(Len(doc)))
    BY <1>8, RoutersCounted
  <1> QED BY <1>7, <1>9, FS_Subset

LEMMA ReportKeepsPeak == ASSUME PeakInv, SnapshotReport
                         PROVE  PeakInv'
  <1>0. PICK doc \in Documents :
          /\ Chronological(doc)
          /\ report' = [count |-> Len(doc), peak |-> Peak(doc),
                        stable |-> Cardinality({a \in Routers : \A i \in Entries(doc) : a \in parsed[i].routers}),
                        met |-> Peak(doc) >= Minimum,
                        checked |-> \A i \in Entries(doc) : parsed[i].checked,
                        still |-> \A i \in Entries(doc) : parsed[i].still]
    BY Zenon DEF SnapshotReport
  <1>1. /\ report'.count = Len(doc)
        /\ report'.stable = Cardinality({a \in Routers : \A i \in Entries(doc) : a \in parsed[i].routers})
        /\ report'.met = (Peak(doc) >= Minimum)
        /\ report'.checked = (\A i \in Entries(doc) : parsed[i].checked)
        /\ report'.still = (\A i \in Entries(doc) : parsed[i].still)
    BY <1>0, Zenon
  <1>2. PICK i \in Entries(doc) : i \in DOMAIN parsed /\ Peak(doc) = Cardinality(parsed[i].routers)
    BY PeakIsOne
  <1>3. UNCHANGED <<table, most, parsed, pc>> /\ pc = "idle"
    BY DEF SnapshotReport, world
  <1>4. Reached(parsed[i], most) /\ parsed[i] \in Captures
    BY <1>2, ElementOfSeq, LenProperties DEF PeakInv
  <1>5. ASSUME report'.met, report'.checked, report'.still
        PROVE  most >= Minimum
    <2>1. parsed[i].checked /\ parsed[i].still
      BY <1>1, <1>5, Zenon
    <2>2. Cardinality(parsed[i].routers) <= most
      BY <1>4, <2>1, Zenon DEF Reached
    <2>3. Peak(doc) >= Minimum
      BY <1>1, <1>5, Zenon
    <2>4. Cardinality(parsed[i].routers) \in Nat /\ most \in Nat
      BY <1>4, RoutersCounted DEF Captures, PeakInv
    <2> QED BY <1>2, <2>2, <2>3, <2>4
  <1>6. report'.checked => report'.stable <= Cardinality(Lasting(report'.count))
    BY <1>0, <1>1, StableIsLasting
  <1>7. ReportIsTrue'
    <2>1. Lasting(report.count)' = Lasting(report'.count)
      BY <1>3 DEF Lasting
    <2> HIDE DEF Lasting
    <2> QED BY <1>3, <1>5, <1>6, <2>1, Zenon DEF ReportIsTrue
  <1> QED BY <1>3, <1>7 DEF PeakInv, RoutersIn, Entries

LEMMA PeakStep == ASSUME PeakInv, PaginationInv, [Next]_vars
                  PROVE  PeakInv'
  <1>1. ASSUME UNCHANGED <<table, most, parsed>>, report' \in {report, NoReport},
               pc' = "taking" => report' = NoReport
        PROVE  PeakInv'
    BY <1>1 DEF PeakInv, RoutersIn, Entries, ReportIsTrue, Lasting
  <1>2. CASE TableChanges
    BY <1>2, ChangesKeepPeak
  <1>3. CASE BeginCapture
    BY <1>1, <1>3 DEF BeginCapture
  <1>4. CASE ReadPage \/ LosePage \/ RecordPage
    BY <1>1, <1>4 DEF ReadPage, LosePage, RecordPage, PeakInv
  <1>5. CASE Refuse
    BY <1>1, <1>5 DEF Refuse, Return
  <1>6. CASE Accept
    BY <1>6, AcceptKeepsPeak
  <1>7. CASE SnapshotReport
    BY <1>7, ReportKeepsPeak
  <1>8. CASE UNCHANGED vars
    BY <1>1, <1>8 DEF vars, PeakInv
  <1> QED BY <1>2, <1>3, <1>4, <1>5, <1>6, <1>7, <1>8 DEF Next

\* snapshot_report, of frames: a target that is said to be met by tables that did not change was
\* met by the routers that were in the table at one instant, and identifiers said to be in all
\* captures were there during as many different captures as the report counts.
THEOREM ReportTrue == Spec => []ReportIsTrue
  <1>1. PeakInv => ReportIsTrue
    BY DEF PeakInv
  <1> QED BY Inductive, PeakInitially, PeakStep, <1>1, PTL DEF Spec

-----------------------------------------------------------------------------
(* What assess says. *)

DeviceRecords == [role : Roles, seen : Nat \cup {Never}] \cup {Gone}

AcceptanceTypeOK ==
    /\ known \in [Members -> DeviceRecords] /\ saved \in [Members -> DeviceRecords]
    /\ DOMAIN baseline = Members \cup Coordinators
    /\ \A d \in Members : baseline[d] \in DeviceRecords
    /\ \A d \in Coordinators \ Members : baseline[d] \in {Gone, [role |-> "Coordinator", seen |-> Never]}
    /\ clock \in Nat /\ since \in Int /\ heard \in [Members -> Int]
    /\ left \subseteq Members

\* A record of a device that has not left is in everything that was read or saved later.
StillThere(old, new) == \A d \in Members \ left : old[d] # Gone => new[d] # Gone /\ new[d].role = old[d].role

\* A record is never later than the last report.
HeardOf(records) == \A d \in Members : records[d].seen <= heard[d]

RecordsInv == /\ AcceptanceTypeOK
              /\ StillThere(baseline, saved) /\ StillThere(saved, known)
              /\ HeardOf(known) /\ HeardOf(saved)
              /\ \A d \in Members : heard[d] <= clock
              /\ result.done => since # Never
              /\ AssessIsTrue

LEMMA RecordsInitially == AcceptanceInit => RecordsInv
  <1> SUFFICES ASSUME AcceptanceInit PROVE RecordsInv
    OBVIOUS
  <1>1. known \in [Members -> DeviceRecords] /\ saved = known
    BY DEF AcceptanceInit, DeviceRecords, Gone, Never
  <1>2. \A d \in Members : known[d].seen \in Int /\ known[d].seen <= 0
    BY DEF AcceptanceInit, Gone, Never
  <1>3. AcceptanceTypeOK
    BY <1>1, <1>2 DEF AcceptanceInit, AcceptanceTypeOK, DeviceRecords, Never
  <1> QED BY <1>1, <1>2, <1>3 DEF AcceptanceInit, RecordsInv, StillThere, HeardOf, AssessIsTrue, NoResult

\* What the program and the network do leaves what has been concluded true.
LEMMA ConclusionKept == ASSUME AcceptanceTypeOK, AssessIsTrue, UNCHANGED <<since, result>>, left \subseteq left',
                               heard' \in [Members -> Int], \A d \in Members : heard[d] <= heard'[d]
                        PROVE  AssessIsTrue'
  BY DEF AcceptanceTypeOK, AssessIsTrue

LEMMA ReportKeeps == ASSUME RecordsInv, NEW d \in Members, Report(d)
                     PROVE  RecordsInv'
  <1>1. /\ known[d] # Gone
        /\ known' = [known EXCEPT ![d].seen = clock] /\ heard' = [heard EXCEPT ![d] = clock]
        /\ UNCHANGED <<saved, radio, clock, since, baseline, result, left>>
    BY DEF Report
  <1>2. /\ known \in [Members -> DeviceRecords] /\ saved \in [Members -> DeviceRecords]
        /\ heard \in [Members -> Int] /\ clock \in Nat /\ \A e \in Members : heard[e] <= clock
    BY DEF RecordsInv, AcceptanceTypeOK
  <1>3. /\ known'[d].role = known[d].role /\ known'[d].seen = clock /\ known'[d] \in DeviceRecords
        /\ known'[d] # Gone
        /\ \A e \in Members \ {d} : known'[e] = known[e]
    BY <1>1, <1>2 DEF DeviceRecords, Gone, Roles
  <1>4. heard' \in [Members -> Int] /\ \A e \in Members : heard[e] <= heard'[e] /\ heard'[e] <= clock
    BY <1>1, <1>2
  <1>5. known' \in [Members -> DeviceRecords]
    BY <1>1, <1>2, <1>3
  <1>6. AcceptanceTypeOK'
    BY <1>1, <1>4, <1>5 DEF RecordsInv, AcceptanceTypeOK
  <1>7. HeardOf(known)'
    BY <1>1, <1>2, <1>3, <1>4 DEF RecordsInv, HeardOf
  <1>8. HeardOf(saved)'
    <2> SUFFICES ASSUME NEW e \in Members PROVE saved[e].seen <= heard'[e]
      BY <1>1 DEF HeardOf
    <2>1. saved[e].seen \in Int
      BY <1>2 DEF DeviceRecords, Gone, Never
    <2> QED BY <1>2, <1>4, <2>1 DEF RecordsInv, HeardOf
  <1>9. StillThere(saved, known)' /\ StillThere(baseline, saved)'
    BY <1>1, <1>3 DEF RecordsInv, StillThere
  <1>10. AssessIsTrue'
    BY <1>1, <1>4, ConclusionKept DEF RecordsInv
  <1> QED BY <1>1, <1>4, <1>6, <1>7, <1>8, <1>9, <1>10 DEF RecordsInv

LEMMA JoinKeeps == ASSUME RecordsInv, NEW d \in Members, NEW role \in Roles, Join(d, role)
                   PROVE  RecordsInv'
  <1>1. /\ known[d] = Gone /\ known' = [known EXCEPT ![d] = [role |-> role, seen |-> Never]]
        /\ UNCHANGED <<saved, radio, clock, since, baseline, result, heard, left>>
    BY DEF Join
  <1>2. known \in [Members -> DeviceRecords] /\ heard \in [Members -> Int]
    BY DEF RecordsInv, AcceptanceTypeOK
  <1>3. /\ known' \in [Members -> DeviceRecords] /\ known'[d].seen = Never
        /\ \A e \in Members \ {d} : known'[e] = known[e]
    BY <1>1, <1>2 DEF DeviceRecords, Never
  <1>4. HeardOf(known)'
    BY <1>1, <1>2, <1>3 DEF RecordsInv, HeardOf, Gone
  <1>5. StillThere(saved, known)'
    BY <1>1, <1>3 DEF RecordsInv, StillThere
  <1> QED BY <1>1, <1>3, <1>4, <1>5 DEF RecordsInv, AcceptanceTypeOK, StillThere, HeardOf, AssessIsTrue

LEMMA LeaveKeeps == ASSUME RecordsInv, NEW d \in Members, Leave(d)
                    PROVE  RecordsInv'
  <1>1. /\ known' = [known EXCEPT ![d] = Gone] /\ left' = left \cup {d}
        /\ UNCHANGED <<saved, radio, clock, since, baseline, result, heard>>
    BY DEF Leave
  <1>2. /\ known \in [Members -> DeviceRecords] /\ saved \in [Members -> DeviceRecords]
        /\ heard \in [Members -> Int]
    BY DEF RecordsInv, AcceptanceTypeOK
  <1>3. /\ known' \in [Members -> DeviceRecords] /\ known'[d] = Gone
        /\ \A e \in Members \ {d} : known'[e] = known[e]
    BY <1>1, <1>2 DEF DeviceRecords
  <1>5. Never <= heard[d]
    <2>1. known[d].seen <= heard[d] /\ known[d].seen \in Nat \cup {Never}
      BY <1>2 DEF RecordsInv, HeardOf, DeviceRecords, Gone
    <2> QED BY <1>2, <2>1 DEF Never
  <1>6. HeardOf(known)'
    BY <1>1, <1>2, <1>3, <1>5 DEF RecordsInv, HeardOf, Gone
  <1>7. StillThere(saved, known)' /\ StillThere(baseline, saved)'
    BY <1>1, <1>3 DEF RecordsInv, StillThere
  <1> QED BY <1>1, <1>3, <1>6, <1>7 DEF RecordsInv, AcceptanceTypeOK, HeardOf, AssessIsTrue

\* Saving, being killed and the cutover move records that are the same ones.
LEMMA FilesKeep == ASSUME RecordsInv, Save \/ Killed \/ Cutover
                   PROVE  RecordsInv'
  <1>1. UNCHANGED <<clock, baseline, result, heard, left>>
    BY DEF Save, Killed, Cutover
  <1>2. \/ saved' = known /\ known' = known
        \/ known' = saved /\ saved' = saved
    BY DEF Save, Killed, Cutover
  <1>3. \/ since' = since
        \/ since = Never /\ since' = clock
    BY DEF Save, Killed, Cutover
  <1>4. AcceptanceTypeOK'
    BY <1>1, <1>2, <1>3 DEF RecordsInv, AcceptanceTypeOK
  <1>5. StillThere(baseline, saved)' /\ StillThere(saved, known)'
    BY <1>1, <1>2 DEF RecordsInv, StillThere
  <1>6. HeardOf(known)' /\ HeardOf(saved)'
    BY <1>1, <1>2 DEF RecordsInv, HeardOf
  <1>7. AssessIsTrue' /\ (result.done => since # Never)'
    BY <1>1, <1>3 DEF RecordsInv, AcceptanceTypeOK, AssessIsTrue, Never
  <1> QED BY <1>1, <1>4, <1>5, <1>6, <1>7 DEF RecordsInv

LEMMA BaselineKeeps == ASSUME RecordsInv, Baseline
                       PROVE  RecordsInv'
  <1>1. baseline' = ParseDatabase /\ UNCHANGED <<known, saved, radio, clock, since, result, heard, left>>
    BY DEF Baseline
  <1>2. /\ DOMAIN baseline' = Members \cup Coordinators
        /\ \A d \in Members : baseline'[d] = saved[d]
        /\ \A d \in Coordinators \ Members : baseline'[d] \in {Gone, [role |-> "Coordinator", seen |-> Never]}
    BY <1>1 DEF ParseDatabase
  <1>3. \A d \in Members : saved[d] \in DeviceRecords
    BY DEF RecordsInv, AcceptanceTypeOK
  <1>4. AcceptanceTypeOK'
    BY <1>1, <1>2, <1>3 DEF RecordsInv, AcceptanceTypeOK
  <1>5. StillThere(baseline, saved)'
    BY <1>1, <1>2 DEF StillThere
  <1> QED BY <1>1, <1>4, <1>5 DEF RecordsInv, StillThere, HeardOf, AssessIsTrue

\* What compare concludes is so when it is concluded.
LEMMA AssessKeeps == ASSUME RecordsInv, Assess
                     PROVE  RecordsInv'
  <1> DEFINE db == ParseDatabase
  <1>1. /\ since # Never /\ result' = Compare(baseline, db, since)
        /\ UNCHANGED <<known, saved, radio, clock, since, baseline, heard, left>>
    BY DEF Assess
  <1>2. DOMAIN db = Members \cup Coordinators /\ \A d \in Members : db[d] = saved[d]
    BY DEF ParseDatabase
  <1> HIDE DEF db
  <1>3. Ordinary(baseline) \subseteq Members /\ \A d \in Ordinary(baseline) : baseline[d] # Gone
    BY DEF RecordsInv, AcceptanceTypeOK, Ordinary, Records
  <1>4. Ordinary(baseline) \cap Records(db) = {d \in Ordinary(baseline) : saved[d] # Gone}
    BY <1>2, <1>3 DEF Records
  <1>5. \A d \in Seen(baseline, db, since) : d \in Members /\ saved[d].seen >= since
    BY <1>2, <1>3 DEF Seen
  <1>6. /\ result'.seen = Seen(baseline, db, since)
        /\ result'.missing = Ordinary(baseline) \ Records(db)
        /\ result'.unseen \subseteq Ordinary(baseline)
        /\ result'.reclassified = {d \in Ordinary(baseline) \cap Records(db) : db[d].role # baseline[d].role}
    BY <1>1 DEF Compare
  <1>7. ASSUME NEW d \in result'.seen
        PROVE  heard'[d] >= since'
    <2>1. d \in Members /\ saved[d].seen >= since /\ saved[d].seen <= heard[d]
      BY <1>5, <1>6 DEF RecordsInv, HeardOf
    <2>2. saved[d].seen \in Int /\ heard[d] \in Int /\ since \in Int
      BY <2>1 DEF RecordsInv, AcceptanceTypeOK, DeviceRecords, Gone, Never
    <2> QED BY <1>1, <2>1, <2>2
  <1>8. result'.missing \subseteq left
    BY <1>2, <1>3, <1>6 DEF RecordsInv, StillThere, Records
  <1>9. result'.reclassified \subseteq left
    BY <1>2, <1>3, <1>6 DEF RecordsInv, StillThere, Records
  <1>10. result'.seen \cup result'.unseen \cup result'.missing \subseteq Members
    BY <1>3, <1>5, <1>6
  <1>11. AssessIsTrue'
    BY <1>1, <1>7, <1>8, <1>9, <1>10 DEF AssessIsTrue
  <1> QED BY <1>1, <1>11 DEF RecordsInv, AcceptanceTypeOK, StillThere, HeardOf

LEMMA RecordsStep == ASSUME RecordsInv, [AcceptanceNext]_acceptanceVars
                     PROVE  RecordsInv'
  <1>1. ASSUME NEW d \in Members, Report(d) \/ Leave(d) \/ \E role \in Roles : Join(d, role)
        PROVE  RecordsInv'
    BY <1>1, ReportKeeps, LeaveKeeps, JoinKeeps
  <1>2. CASE Tick
    <2>1. clock' = clock + 1 /\ UNCHANGED <<known, saved, radio, since, baseline, result, heard, left>>
      BY <1>2 DEF Tick
    <2>2. clock' \in Nat /\ \A d \in Members : heard[d] <= clock'
      BY <2>1 DEF RecordsInv, AcceptanceTypeOK
    <2> QED BY <2>1, <2>2 DEF RecordsInv, AcceptanceTypeOK, StillThere, HeardOf, AssessIsTrue
  <1>3. CASE UNCHANGED acceptanceVars
    BY <1>3 DEF acceptanceVars, RecordsInv, AcceptanceTypeOK, StillThere, HeardOf, AssessIsTrue
  <1> QED BY <1>1, <1>2, <1>3, FilesKeep, BaselineKeeps, AssessKeeps DEF AcceptanceNext

\* RecordsInv: a record that is read later, saved later or brought back by a kill is of the same
\* role, unless the device has left, and is never later than the device's last report.
THEOREM RecordsInductive == AcceptanceSpec => []RecordsInv
  BY RecordsInitially, RecordsStep, PTL DEF AcceptanceSpec

\* compare: a device that is listed as seen has reported since the cutover, and nobody is missed
\* or given another role who has not left, for any number of devices, reports, saves and kills.
THEOREM AssessTrue == AcceptanceSpec => []AssessIsTrue
  <1>1. RecordsInv => AssessIsTrue
    BY DEF RecordsInv
  <1> QED BY RecordsInductive, <1>1, PTL
=============================================================================

------------------------ MODULE KnowledgeBaseProofs ------------------------
(***************************************************************************)
(* What robots share can be relied on, crashes and all: KnowledgeHolds is  *)
(* an invariant of KbSpec for any robots, templates, models and bounds.    *)
(*                                                                         *)
(* A crash that leaves a line open may spoil the next record, so that the  *)
(* loss is only seen later: the induction counts an open line as a record  *)
(* lost already.                                                           *)
(***************************************************************************)
EXTENDS KnowledgeBase, FiniteSetTheorems, SequenceTheorems, TLAPS

KbRecs == [type : {"partial", "event", "inherited", "exported", "tuned"},
           robot : KbRobots \cup {"none"}, template : Templates \cup {"none"},
           end : {"returned", "cut"}]

\* The lines of a file that hold a record whose append has returned.
WholeOf(lines) == {i \in Readable(lines) : lines[i][1].end = "returned"}
\* What Written leaves of the lines of a file that is open or not.
After(lines, open, r) ==
  IF open THEN [lines EXCEPT ![Len(lines)] = Append(@, r)] ELSE Append(lines, <<r>>)
\* The last line of an open file holds something, but no record that was kept.
OpenLine(lines) == /\ lines # <<>> /\ lines[Len(lines)] # <<>>
                   /\ Len(lines) \notin WholeOf(lines)

FilesTyped ==
  /\ kbLines \in [JsonFiles -> Seq(Seq(KbRecs))] /\ kbOpen \in [JsonFiles -> BOOLEAN]
  /\ kbKept \in [JsonFiles -> Nat] /\ kbCrashes \in Nat
OpenEndsCut == \A f \in JsonFiles : kbOpen[f] => OpenLine(kbLines[f])
\* The loss, an open line counted.
Owed(f) == IF kbOpen[f] THEN 1 ELSE 0
LossIsPaid ==
  \A f \in JsonFiles : kbKept[f] - Cardinality(WholeOf(kbLines[f])) + Owed(f) <= kbCrashes
ClosedBeforeCrash == kbCrashes = 0 => \A f \in JsonFiles : ~kbOpen[f]

FilesInv == FilesTyped /\ OpenEndsCut /\ LossIsPaid /\ ClosedBeforeCrash

\* Without a crash, what waits for its adaptation was written as inherited.
InheritedTold(r, t) ==
  \E k \in Trace(r) : /\ RecordAt("lineage", k).type = "inherited"
                      /\ RecordAt("lineage", k).template = t
TasksAreTold ==
  /\ kbTask \subseteq KbRobots \X Templates
  /\ kbCrashes = 0 => \A r \in KbRobots, t \in Templates :
                        <<r, t>> \in kbTask => InheritedTold(r, t)
ExportsAreKnown ==
  \A i \in Found("lineage") :
    RecordAt("lineage", i).type = "exported" => RecordAt("lineage", i).template \in Templates
StoreTyped ==
  /\ kbTemplate \in [Templates -> {"none", "torn", "whole"}]
  /\ kbBin \in [Models -> {0, 1, 2, Cut}] /\ kbMeta \in [Models -> {0, 1, 2, Cut}]

KbInv ==
  /\ FilesInv /\ TasksAreTold /\ ExportsAreKnown /\ StoreTyped
  /\ InheritedFirst /\ ExportedIsThere /\ ListedIsWhole
-----------------------------------------------------------------------------
(***************************************************************************)
(* One write                                                               *)
(***************************************************************************)
\* Which lines are found, and which hold a record that was kept.
LEMMA ReadableIs ==
  ASSUME NEW L \in Seq(Seq(KbRecs)), NEW i
  PROVE  /\ i \in Readable(L) <=> i \in 1..Len(L) /\ IsRecord(L[i])
         /\ i \in WholeOf(L) <=>
              i \in 1..Len(L) /\ IsRecord(L[i]) /\ L[i][1].end = "returned"
<1>1. DOMAIN L = 1..Len(L)
  OBVIOUS
<1> QED BY <1>1, Zenon DEF Readable, WholeOf

\* A record written to a closed file gets a line of its own.
LEMMA ClosedWrite ==
  ASSUME NEW L \in Seq(Seq(KbRecs)), NEW r \in KbRecs,
         NEW M, M = After(L, FALSE, r)
  PROVE
    /\ M \in Seq(Seq(KbRecs)) /\ Len(M) = Len(L) + 1
    /\ \A i \in 1..Len(L) : M[i] = L[i]
    /\ M[Len(L) + 1] = <<r>>
BY DEF After

\* One written to an open file joins its last line.
LEMMA OpenWrite ==
  ASSUME NEW L \in Seq(Seq(KbRecs)), NEW r \in KbRecs, L # <<>>, L[Len(L)] # <<>>,
         NEW M, M = After(L, TRUE, r)
  PROVE
    /\ M \in Seq(Seq(KbRecs)) /\ Len(M) = Len(L)
    /\ \A i \in 1..Len(L) : i # Len(L) => M[i] = L[i]
    /\ ~IsRecord(M[Len(L)]) /\ M # <<>> /\ M[Len(L)] # <<>>
<1>1. Len(L) \in Nat /\ Len(L) >= 1 /\ L[Len(L)] \in Seq(KbRecs)
  OBVIOUS
<1>2. M = [L EXCEPT ![Len(L)] = Append(L[Len(L)], r)]
  BY DEF After
<1>3. Append(L[Len(L)], r) \in Seq(KbRecs) /\ Len(Append(L[Len(L)], r)) = Len(L[Len(L)]) + 1
  BY <1>1
<1>4. Len(L[Len(L)]) >= 1
  BY <1>1
<1>5. Len(L) \in 1..Len(L)
  BY <1>1
<1> DEFINE line == Append(L[Len(L)], r)
<1>6. line \in Seq(KbRecs) /\ Len(line) > 1 /\ Len(line) # 1
  BY <1>1, <1>3, <1>4
<1>7. M = [L EXCEPT ![Len(L)] = line]
  BY <1>2
<1> HIDE DEF line
<1>8. /\ M \in Seq(Seq(KbRecs)) /\ Len(M) = Len(L)
      /\ \A j \in 1..Len(L) : M[j] = IF j = Len(L) THEN line ELSE L[j]
  <2>1. [L EXCEPT ![Len(L)] = line] \in Seq(Seq(KbRecs))
        /\ Len([L EXCEPT ![Len(L)] = line]) = Len(L)
        /\ \A j \in 1..Len(L) :
             [L EXCEPT ![Len(L)] = line][j] = IF j = Len(L) THEN line ELSE L[j]
    BY <1>5, <1>6, ExceptSeq
  <2> QED BY <1>7, <2>1
<1>9. \A i \in 1..Len(L) : i # Len(L) => M[i] = L[i]
  BY <1>8
<1>10. M[Len(L)] = line
  BY <1>5, <1>8
<1>11. ~IsRecord(line) /\ line # <<>>
  <2>1. ~IsRecord(line)
    <3>1. Len(line) # 1
      BY <1>6
    <3> QED BY <3>1, Zenon DEF IsRecord
  <2>2. line # <<>>
    BY <1>6
  <2> QED BY <2>1, <2>2
<1>12. M # <<>>
  <2>1. Len(L) # 0
    BY <1>1
  <2>2. Len(M) # 0
    BY <1>8, <2>1
  <2> QED BY <2>2
<1> QED BY <1>8, <1>9, <1>10, <1>11, <1>12

\* What a reader finds after a write: what was found before, and the record
\* written, if it has a line of its own and is not a part of one.
LEMMA ReadableAfter ==
  ASSUME NEW L \in Seq(Seq(KbRecs)), NEW o \in BOOLEAN, NEW r \in KbRecs,
         o => OpenLine(L)
  PROVE  LET M == After(L, o, r) IN
    \A i \in Readable(M) :
      \/ i \in Readable(L) /\ M[i] = L[i]
      \/ ~o /\ i = Len(L) + 1 /\ M[i] = <<r>> /\ r.type # "partial"
<1> DEFINE M == After(L, o, r)
<1> SUFFICES ASSUME NEW i \in Readable(M)
             PROVE  \/ i \in Readable(L) /\ M[i] = L[i]
                    \/ ~o /\ i = Len(L) + 1 /\ M[i] = <<r>> /\ r.type # "partial"
  OBVIOUS
<1>2. CASE o
  <2> HIDE DEF M
  <2>1. M = After(L, TRUE, r) /\ L # <<>> /\ L[Len(L)] # <<>>
    BY <1>2 DEF OpenLine, M
  <2>2. Len(M) = Len(L) /\ M \in Seq(Seq(KbRecs)) /\ ~IsRecord(M[Len(L)])
        /\ M # <<>> /\ M[Len(L)] # <<>>
        /\ \A k \in 1..Len(L) : k # Len(L) => M[k] = L[k]
    BY <2>1, OpenWrite
  <2>3. i \in 1..Len(L) /\ IsRecord(M[i])
    BY <2>2, ReadableIs
  <2>4. i # Len(L)
    BY <2>2, <2>3
  <2>5. M[i] = L[i]
    BY <2>2, <2>3, <2>4
  <2> QED BY <2>3, <2>5, ReadableIs
<1>3. CASE ~o
  <2> HIDE DEF M
  <2>1. M = After(L, FALSE, r)
    BY <1>3 DEF M
  <2>2. M \in Seq(Seq(KbRecs)) /\ Len(M) = Len(L) + 1 /\ M[Len(L) + 1] = <<r>>
        /\ \A k \in 1..Len(L) : M[k] = L[k]
    BY <2>1, ClosedWrite
  <2>3. i \in 1..Len(M) /\ IsRecord(M[i])
    BY <2>2, ReadableIs
  <2>4. CASE i \in 1..Len(L)
    BY <2>2, <2>3, <2>4, ReadableIs
  <2>5. CASE i = Len(L) + 1
    <3>1. Len(<<r>>) = 1 /\ <<r>>[1] = r
      OBVIOUS
    <3>2. r.type # "partial"
      BY <2>2, <2>3, <2>5, <3>1 DEF IsRecord
    <3> QED BY <1>3, <2>2, <2>5, <3>2
  <2> QED BY <2>2, <2>3, <2>4, <2>5
<1> QED BY <1>2, <1>3

\* A write to a closed file spoils nothing a reader found.
LEMMA ReadableStays ==
  ASSUME NEW L \in Seq(Seq(KbRecs)), NEW r \in KbRecs
  PROVE  LET M == After(L, FALSE, r) IN
    /\ \A i \in Readable(L) : i \in 1..Len(L) /\ i \in Readable(M) /\ M[i] = L[i]
    /\ r.type # "partial" => Len(L) + 1 \in Readable(M)
<1> DEFINE M == After(L, FALSE, r)
<1>1. M \in Seq(Seq(KbRecs)) /\ Len(M) = Len(L) + 1 /\ M[Len(L) + 1] = <<r>>
      /\ \A k \in 1..Len(L) : M[k] = L[k]
  BY ClosedWrite, ZenonT(30)
<1> HIDE DEF M
<1>2. ASSUME NEW i \in Readable(L)
      PROVE  i \in 1..Len(L) /\ i \in Readable(M) /\ M[i] = L[i]
  <2>1. i \in 1..Len(L) /\ IsRecord(L[i])
    BY ReadableIs
  <2>2. M[i] = L[i] /\ i \in 1..Len(M)
    BY <1>1, <2>1
  <2> QED BY <1>1, <2>1, <2>2, ReadableIs
<1>3. Len(<<r>>) = 1 /\ <<r>>[1] = r
  OBVIOUS
<1>4. ASSUME r.type # "partial" PROVE Len(L) + 1 \in Readable(M)
  <2>1. Len(L) + 1 \in 1..Len(M)
    BY <1>1
  <2>2. IsRecord(M[Len(L) + 1])
    BY <1>1, <1>3, <1>4 DEF IsRecord
  <2> QED BY <1>1, <2>1, <2>2, ReadableIs
<1> QED BY <1>2, <1>4 DEF M

\* The records kept are among the lines, so they can be counted.
LEMMA WholeIsFinite ==
  ASSUME NEW L \in Seq(Seq(KbRecs))
  PROVE  /\ IsFiniteSet(WholeOf(L)) /\ Cardinality(WholeOf(L)) \in Nat
         /\ Len(L) + 1 \notin WholeOf(L)
<1>1. WholeOf(L) \subseteq 1..Len(L) /\ Len(L) \in Nat
  BY ReadableIs
<1>2. IsFiniteSet(1..Len(L))
  BY <1>1, FS_Interval
<1>3. IsFiniteSet(WholeOf(L))
  BY <1>1, <1>2, FS_Subset
<1> QED BY <1>1, <1>3, FS_CardinalityType

\* A whole record written to a closed file counts; any other write changes
\* nothing in the count.
LEMMA WholeAfter ==
  ASSUME NEW L \in Seq(Seq(KbRecs)), NEW o \in BOOLEAN, NEW r \in KbRecs,
         o => OpenLine(L)
  PROVE  LET M == After(L, o, r) IN
    /\ M \in Seq(Seq(KbRecs))
    /\ o \/ r.end = "cut" => WholeOf(M) = WholeOf(L)
    /\ ~o /\ r.end = "returned" /\ r.type # "partial" =>
         WholeOf(M) = WholeOf(L) \cup {Len(L) + 1}
    /\ r.end = "cut" => OpenLine(M)
<1> DEFINE M == After(L, o, r)
<1>1. CASE o
  <2> HIDE DEF M
  <2>1. M = After(L, TRUE, r) /\ L # <<>> /\ L[Len(L)] # <<>> /\ Len(L) \notin WholeOf(L)
    BY <1>1 DEF OpenLine, M
  <2>2. Len(M) = Len(L) /\ M \in Seq(Seq(KbRecs)) /\ ~IsRecord(M[Len(L)])
        /\ M # <<>> /\ M[Len(L)] # <<>>
        /\ \A k \in 1..Len(L) : k # Len(L) => M[k] = L[k]
    BY <2>1, OpenWrite
  <2>3. ASSUME NEW i PROVE i \in WholeOf(M) <=> i \in WholeOf(L)
    <3>1. CASE i \in 1..Len(L) /\ i # Len(L)
      <4>1. M[i] = L[i]
        BY <2>2, <3>1
      <4>2. i \in WholeOf(M) <=> IsRecord(M[i]) /\ M[i][1].end = "returned"
        BY <2>2, <3>1, ReadableIs
      <4>3. i \in WholeOf(L) <=> IsRecord(L[i]) /\ L[i][1].end = "returned"
        BY <3>1, ReadableIs
      <4> QED BY <4>1, <4>2, <4>3
    <3>2. CASE i = Len(L)
      <4>1. ~IsRecord(M[i])
        BY <2>2, <3>2
      <4> QED BY <2>1, <2>2, <3>2, <4>1, ReadableIs
    <3>3. CASE i \notin 1..Len(L)
      BY <2>2, <3>3, ReadableIs
    <3> QED BY <3>1, <3>2, <3>3
  <2>4. WholeOf(M) = WholeOf(L)
    BY <2>3
  <2>5. OpenLine(M)
    <3>1. M # <<>> /\ M[Len(M)] # <<>>
      BY <2>1, <2>2
    <3>2. Len(M) \notin WholeOf(M)
      BY <2>1, <2>2, <2>4
    <3> QED BY <3>1, <3>2 DEF OpenLine
  <2> QED BY <1>1, <2>2, <2>4, <2>5 DEF M
<1>2. CASE ~o
  <2> HIDE DEF M
  <2>1. M = After(L, FALSE, r)
    BY <1>2 DEF M
  <2>2. M \in Seq(Seq(KbRecs)) /\ Len(M) = Len(L) + 1 /\ M[Len(L) + 1] = <<r>>
        /\ \A k \in 1..Len(L) : M[k] = L[k]
    BY <2>1, ClosedWrite
  <2>3. Len(<<r>>) = 1 /\ <<r>>[1] = r
    OBVIOUS
  <2>4. ASSUME NEW i \in 1..Len(L) PROVE i \in WholeOf(M) <=> i \in WholeOf(L)
    <3>1. M[i] = L[i] /\ i \in 1..Len(M)
      BY <2>2
    <3>2. i \in WholeOf(M) <=> IsRecord(M[i]) /\ M[i][1].end = "returned"
      BY <2>2, <3>1, ReadableIs
    <3>3. i \in WholeOf(L) <=> IsRecord(L[i]) /\ L[i][1].end = "returned"
      BY ReadableIs
    <3> QED BY <3>1, <3>2, <3>3
  <2>5. Len(L) + 1 \in WholeOf(M) <=> r.end = "returned" /\ r.type # "partial"
    <3>1. Len(L) + 1 \in 1..Len(M)
      BY <2>2
    <3>2. IsRecord(M[Len(L) + 1]) <=> r.type # "partial"
      BY <2>2, <2>3 DEF IsRecord
    <3>3. M[Len(L) + 1][1].end = r.end
      BY <2>2, <2>3
    <3> QED BY <2>2, <3>1, <3>2, <3>3, ReadableIs
  <2>6. WholeOf(M) \subseteq 1..(Len(L) + 1) /\ WholeOf(L) \subseteq 1..Len(L)
    BY <2>2, ReadableIs
  <2>7. Len(L) \in Nat /\ 1..(Len(L) + 1) = 1..Len(L) \cup {Len(L) + 1}
    OBVIOUS
  <2>8. r.end = "cut" => WholeOf(M) = WholeOf(L)
    BY <2>4, <2>5, <2>6, <2>7
  <2>9. r.end = "returned" /\ r.type # "partial" => WholeOf(M) = WholeOf(L) \cup {Len(L) + 1}
    BY <2>4, <2>5, <2>6, <2>7
  <2>10. r.end = "cut" => OpenLine(M)
    <3>1. M # <<>> /\ M[Len(M)] # <<>>
      BY <2>2, <2>3
    <3>2. r.end = "cut" => Len(M) \notin WholeOf(M)
      BY <2>2, <2>5
    <3> QED BY <3>1, <3>2 DEF OpenLine
  <2> QED BY <1>2, <2>2, <2>8, <2>9, <2>10 DEF M
<1> QED BY <1>1, <1>2
-----------------------------------------------------------------------------
(***************************************************************************)
(* The files                                                               *)
(***************************************************************************)
\* The records the operations write.
Told(r) == r \in KbRecs /\ r.type # "partial" /\ r.end = "returned"

LEMMA CutRecords ==
  ASSUME NEW r, Told(r)
  PROVE  /\ CutRec(r) \in KbRecs /\ CutRec(r).end = "cut"
         /\ CutRec(r).type = r.type /\ CutRec(r).robot = r.robot
         /\ CutRec(r).template = r.template
         /\ Partial \in KbRecs /\ Partial.end = "cut" /\ Partial.type = "partial"
BY DEF Told, CutRec, Partial, Rec, KbRecs

LEMMA RecordsAreTold ==
  ASSUME NEW r \in KbRobots, NEW t \in Templates
  PROVE  /\ Told(Rec("event", "none", "none"))
         /\ Told(Rec("exported", r, t)) /\ Told(FirstLine(r, t)) /\ Told(Rec("tuned", r, t))
BY DEF Told, Rec, FirstLine, KbRecs

\* What Written does to the lines of a file.
LEMMA WrittenIs ==
  ASSUME NEW f, NEW r
  PROVE  Written(f, r) = After(kbLines[f], kbOpen[f], r)
BY DEF Written, After

\* An append that returns.
LEMMA AppendKeepsFiles ==
  ASSUME FilesInv, NEW f \in JsonFiles, NEW r, Told(r), Appends(f, r), UNCHANGED kbCrashes
  PROVE  FilesInv'
<1> DEFINE L == kbLines[f]
           M == After(L, kbOpen[f], r)
<1>1. L \in Seq(Seq(KbRecs)) /\ kbOpen[f] \in BOOLEAN /\ kbKept[f] \in Nat /\ kbCrashes \in Nat
  BY DEF FilesInv, FilesTyped
<1>2. kbOpen[f] => OpenLine(L)
  BY DEF FilesInv, OpenEndsCut
<1>3. r \in KbRecs /\ r.type # "partial" /\ r.end = "returned"
  BY DEF Told
<1>4. /\ kbLines' = [kbLines EXCEPT ![f] = M] /\ kbOpen' = [kbOpen EXCEPT ![f] = FALSE]
      /\ kbKept' = [kbKept EXCEPT ![f] = @ + 1] /\ kbCrashes' = kbCrashes
  BY WrittenIs DEF Appends
<1> HIDE DEF M, L
<1>5. /\ M \in Seq(Seq(KbRecs))
      /\ kbOpen[f] => WholeOf(M) = WholeOf(L)
      /\ ~kbOpen[f] => WholeOf(M) = WholeOf(L) \cup {Len(L) + 1}
  BY <1>1, <1>2, <1>3, WholeAfter DEF M
<1>6. FilesTyped'
  BY <1>1, <1>4, <1>5 DEF FilesInv, FilesTyped
<1>7. \A g \in JsonFiles : g # f => /\ kbLines'[g] = kbLines[g] /\ kbOpen'[g] = kbOpen[g]
                                    /\ kbKept'[g] = kbKept[g]
  BY <1>4 DEF FilesInv, FilesTyped
<1>8. kbLines'[f] = M /\ ~kbOpen'[f] /\ kbKept'[f] = kbKept[f] + 1
  BY <1>4 DEF FilesInv, FilesTyped
<1>9. OpenEndsCut'
  BY <1>7, <1>8 DEF FilesInv, OpenEndsCut
<1>10. LossIsPaid'
  <2>1. IsFiniteSet(WholeOf(L)) /\ Cardinality(WholeOf(L)) \in Nat /\ Len(L) + 1 \notin WholeOf(L)
    BY <1>1, WholeIsFinite
  <2>2. kbKept[f] - Cardinality(WholeOf(L)) + Owed(f) <= kbCrashes
    BY DEF FilesInv, LossIsPaid, L
  <2>3. Cardinality(WholeOf(M)) = Cardinality(WholeOf(L)) + (1 - Owed(f)) /\ Owed(f) \in {0, 1}
    <3>1. CASE kbOpen[f]
      BY <1>5, <2>1, <3>1 DEF Owed
    <3>2. CASE ~kbOpen[f]
      <4>1. Cardinality(WholeOf(L) \cup {Len(L) + 1}) = Cardinality(WholeOf(L)) + 1
        BY <2>1, FS_AddElement
      <4>2. WholeOf(M) = WholeOf(L) \cup {Len(L) + 1}
        BY <1>5, <3>2
      <4>3. Owed(f) = 0
        BY <3>2 DEF Owed
      <4> QED BY <2>1, <4>1, <4>2, <4>3
    <3> QED BY <3>1, <3>2
  <2>4. kbKept[f] + 1 - Cardinality(WholeOf(M)) + 0 <= kbCrashes
    BY <1>1, <2>1, <2>2, <2>3
  <2>5. ASSUME NEW g \in JsonFiles, g # f
        PROVE  kbKept'[g] - Cardinality(WholeOf(kbLines'[g])) + Owed(g)' <= kbCrashes'
    <3>1. kbKept[g] - Cardinality(WholeOf(kbLines[g])) + Owed(g) <= kbCrashes
      BY DEF FilesInv, LossIsPaid
    <3>2. Owed(g)' = Owed(g)
      BY <1>7, <2>5 DEF Owed
    <3> QED BY <1>4, <1>7, <2>5, <3>1, <3>2
  <2>6. Owed(f)' = 0
    BY <1>8 DEF Owed
  <2>7. kbKept'[f] - Cardinality(WholeOf(kbLines'[f])) + Owed(f)' <= kbCrashes'
    <3>1. Cardinality(WholeOf(kbLines'[f])) = Cardinality(WholeOf(M)) /\ kbKept'[f] = kbKept[f] + 1
      BY <1>8
    <3>2. Cardinality(WholeOf(M)) \in Nat
      BY <1>5, WholeIsFinite
    <3> QED BY <1>1, <1>4, <2>4, <2>6, <3>1, <3>2
  <2>8. \A g \in JsonFiles :
          kbKept'[g] - Cardinality(WholeOf(kbLines'[g])) + Owed(g)' <= kbCrashes'
    BY <2>5, <2>7
  <2> QED BY <2>8 DEF LossIsPaid
<1>11. ClosedBeforeCrash'
  BY <1>4, <1>7, <1>8 DEF FilesInv, ClosedBeforeCrash
<1> QED BY <1>6, <1>9, <1>10, <1>11 DEF FilesInv

\* One that a crash cuts off.
LEMMA CutKeepsFiles ==
  ASSUME FilesInv, NEW f \in JsonFiles, NEW r, Told(r), NEW own, CutShort(own), CutOff(f, r)
  PROVE  FilesInv'
<1>1. kbLines[f] \in Seq(Seq(KbRecs)) /\ kbOpen[f] \in BOOLEAN /\ kbKept[f] \in Nat
      /\ kbCrashes \in Nat
  BY DEF FilesInv, FilesTyped
<1>2. kbCrashes' = kbCrashes + 1 /\ kbKept' = kbKept
  BY DEF CutShort
<1>3. ClosedBeforeCrash'
  BY <1>1, <1>2 DEF ClosedBeforeCrash
<1>4. \A g \in JsonFiles : /\ kbKept[g] \in Nat /\ Cardinality(WholeOf(kbLines[g])) \in Nat
                           /\ kbKept[g] - Cardinality(WholeOf(kbLines[g])) + Owed(g) <= kbCrashes
                           /\ Owed(g) \in {0, 1}
  BY WholeIsFinite DEF FilesInv, LossIsPaid, FilesTyped, Owed
<1>5. CASE UNCHANGED <<kbLines, kbOpen>>
  <2>1. FilesTyped' /\ OpenEndsCut'
    BY <1>1, <1>2, <1>5 DEF FilesInv, FilesTyped, OpenEndsCut
  <2>2. \A g \in JsonFiles : Owed(g)' = Owed(g)
    BY <1>5 DEF Owed
  <2>3. LossIsPaid'
    <3> SUFFICES ASSUME NEW g \in JsonFiles
                 PROVE  kbKept'[g] - Cardinality(WholeOf(kbLines'[g])) + Owed(g)' <= kbCrashes'
      BY DEF LossIsPaid
    <3>1. kbLines'[g] = kbLines[g] /\ kbKept'[g] = kbKept[g]
      BY <1>2, <1>5
    <3> QED BY <1>1, <1>2, <1>4, <2>2, <3>1
  <2> QED BY <1>3, <2>1, <2>3 DEF FilesInv
<1>6. ASSUME NEW x \in {Partial, CutRec(r)},
             kbLines' = [kbLines EXCEPT ![f] = Written(f, x)],
             kbOpen' = [kbOpen EXCEPT ![f] = TRUE]
      PROVE  FilesInv'
  <2> DEFINE L == kbLines[f]
             M == After(L, kbOpen[f], x)
  <2>1. x \in KbRecs /\ x.end = "cut"
    BY CutRecords
  <2>2. kbOpen[f] => OpenLine(L)
    BY DEF FilesInv, OpenEndsCut
  <2>3. kbLines' = [kbLines EXCEPT ![f] = M]
    BY <1>6, WrittenIs
  <2>4. L \in Seq(Seq(KbRecs))
    BY <1>1
  <2> HIDE DEF M, L
  <2>5. M \in Seq(Seq(KbRecs)) /\ WholeOf(M) = WholeOf(L) /\ OpenLine(M)
    BY <1>1, <2>1, <2>2, <2>4, WholeAfter DEF M
  <2>6. FilesTyped'
    BY <1>1, <1>2, <1>6, <2>3, <2>5 DEF FilesInv, FilesTyped
  <2>7. \A g \in JsonFiles : g # f => kbLines'[g] = kbLines[g] /\ kbOpen'[g] = kbOpen[g]
    BY <1>6, <2>3 DEF FilesInv, FilesTyped
  <2>8. kbLines'[f] = M /\ kbOpen'[f]
    BY <1>6, <2>3 DEF FilesInv, FilesTyped
  <2>9. OpenEndsCut'
    BY <2>5, <2>7, <2>8 DEF FilesInv, OpenEndsCut
  <2>10. WholeOf(kbLines'[f]) = WholeOf(kbLines[f])
    BY <2>5, <2>8 DEF L
  <2>11. \A g \in JsonFiles : WholeOf(kbLines'[g]) = WholeOf(kbLines[g])
    BY <2>7, <2>10
  <2>12. \A g \in JsonFiles : Owed(g)' \in {Owed(g), 1}
    BY <2>7, <2>8 DEF Owed
  <2>13. LossIsPaid'
    <3> SUFFICES ASSUME NEW g \in JsonFiles
                 PROVE  kbKept'[g] - Cardinality(WholeOf(kbLines'[g])) + Owed(g)' <= kbCrashes'
      BY DEF LossIsPaid
    <3>1. Owed(g)' <= Owed(g) + 1 /\ Owed(g)' \in {0, 1}
      BY <1>4, <2>12
    <3>2. Cardinality(WholeOf(kbLines'[g])) = Cardinality(WholeOf(kbLines[g]))
      BY <2>11
    <3> QED BY <1>1, <1>2, <1>4, <3>1, <3>2
  <2> QED BY <1>3, <2>6, <2>9, <2>13 DEF FilesInv
<1> QED BY <1>5, <1>6 DEF CutOff

\* No write at all, and perhaps a crash.
LEMMA FilesStay ==
  ASSUME FilesInv, UNCHANGED <<kbLines, kbOpen, kbKept>>,
         kbCrashes' = kbCrashes \/ kbCrashes' = kbCrashes + 1
  PROVE  FilesInv'
<1>1. kbCrashes \in Nat /\ kbCrashes' \in Nat /\ kbCrashes <= kbCrashes'
  BY DEF FilesInv, FilesTyped
<1>2. \A g \in JsonFiles : /\ kbKept[g] \in Nat /\ Cardinality(WholeOf(kbLines[g])) \in Nat
                           /\ kbKept[g] - Cardinality(WholeOf(kbLines[g])) + Owed(g) <= kbCrashes
                           /\ Owed(g) \in {0, 1} /\ Owed(g)' = Owed(g)
  BY WholeIsFinite DEF FilesInv, LossIsPaid, FilesTyped, Owed
<1>3. FilesTyped' /\ OpenEndsCut' /\ ClosedBeforeCrash'
  BY <1>1 DEF FilesInv, FilesTyped, OpenEndsCut, ClosedBeforeCrash
<1>4. LossIsPaid'
  BY <1>1, <1>2 DEF LossIsPaid
<1> QED BY <1>3, <1>4 DEF FilesInv
-----------------------------------------------------------------------------
(***************************************************************************)
(* What a reader is told                                                   *)
(***************************************************************************)
\* After an append a reader finds what was found before, and no more than
\* the new record.
LEMMA FoundAfterAppend ==
  ASSUME FilesInv, NEW f \in JsonFiles, NEW r, Told(r), Appends(f, r),
         NEW g \in JsonFiles, NEW i \in Found(g)'
  PROVE  \/ i \in Found(g) /\ RecordAt(g, i)' = RecordAt(g, i)
         \/ g = f /\ RecordAt(g, i)' = r
<1>1. kbLines[f] \in Seq(Seq(KbRecs)) /\ kbOpen[f] \in BOOLEAN /\ r \in KbRecs
  BY DEF FilesInv, FilesTyped, Told
<1>2. kbOpen[f] => OpenLine(kbLines[f])
  BY DEF FilesInv, OpenEndsCut
<1>3. kbLines' = [kbLines EXCEPT ![f] = After(kbLines[f], kbOpen[f], r)]
  BY WrittenIs DEF Appends
<1>4. CASE g # f
  <2>1. kbLines'[g] = kbLines[g]
    BY <1>3, <1>4 DEF FilesInv, FilesTyped
  <2> QED BY <2>1 DEF Found, RecordAt
<1>5. CASE g = f
  <2>1. kbLines'[f] = After(kbLines[f], kbOpen[f], r)
    BY <1>3 DEF FilesInv, FilesTyped
  <2>2. i \in Readable(After(kbLines[f], kbOpen[f], r))
    BY <1>5, <2>1 DEF Found
  <2>3. \/ i \in Readable(kbLines[f]) /\ kbLines'[f][i] = kbLines[f][i]
        \/ kbLines'[f][i] = <<r>>
    BY <1>1, <1>2, <2>1, <2>2, ReadableAfter
  <2> QED BY <1>5, <2>3 DEF Found, RecordAt
<1> QED BY <1>4, <1>5

LEMMA FoundAfterCut ==
  ASSUME FilesInv, NEW f \in JsonFiles, NEW r, Told(r), CutOff(f, r),
         NEW g \in JsonFiles, NEW i \in Found(g)'
  PROVE  \/ i \in Found(g) /\ RecordAt(g, i)' = RecordAt(g, i)
         \/ /\ g = f /\ RecordAt(g, i)'.type = r.type
            /\ RecordAt(g, i)'.template = r.template
<1>1. CASE UNCHANGED <<kbLines, kbOpen>>
  BY <1>1 DEF Found, RecordAt
<1>2. ASSUME NEW x \in {Partial, CutRec(r)}, kbLines' = [kbLines EXCEPT ![f] = Written(f, x)]
      PROVE  \/ i \in Found(g) /\ RecordAt(g, i)' = RecordAt(g, i)
             \/ /\ g = f /\ RecordAt(g, i)'.type = r.type
                /\ RecordAt(g, i)'.template = r.template
  <2>1. kbLines[f] \in Seq(Seq(KbRecs)) /\ kbOpen[f] \in BOOLEAN /\ x \in KbRecs
    BY CutRecords DEF FilesInv, FilesTyped
  <2>2. kbOpen[f] => OpenLine(kbLines[f])
    BY DEF FilesInv, OpenEndsCut
  <2>3. kbLines' = [kbLines EXCEPT ![f] = After(kbLines[f], kbOpen[f], x)]
    BY <1>2, WrittenIs
  <2>4. CASE g # f
    <3>1. kbLines'[g] = kbLines[g]
      BY <2>3, <2>4 DEF FilesInv, FilesTyped
    <3> QED BY <3>1 DEF Found, RecordAt
  <2>5. CASE g = f
    <3>1. kbLines'[f] = After(kbLines[f], kbOpen[f], x)
      BY <2>3 DEF FilesInv, FilesTyped
    <3>2. i \in Readable(After(kbLines[f], kbOpen[f], x))
      BY <2>5, <3>1 DEF Found
    <3>3. \/ i \in Readable(kbLines[f]) /\ kbLines'[f][i] = kbLines[f][i]
          \/ kbLines'[f][i] = <<x>> /\ x.type # "partial"
      BY <2>1, <2>2, <3>1, <3>2, ReadableAfter
    <3>4. x.type # "partial" => x.type = r.type /\ x.template = r.template
      BY CutRecords
    <3> QED BY <2>5, <3>3, <3>4 DEF Found, RecordAt
  <2> QED BY <2>4, <2>5
<1> QED BY <1>1, <1>2 DEF CutOff

\* Before any crash an append hides nothing and comes last.
LEMMA AppendedBeforeCrash ==
  ASSUME FilesInv, kbCrashes = 0, NEW f \in JsonFiles, NEW r, Told(r), Appends(f, r)
  PROVE  /\ \A g \in JsonFiles : \A i \in Found(g) :
              i \in Found(g)' /\ RecordAt(g, i)' = RecordAt(g, i)
         /\ \E n \in Found(f)' : /\ RecordAt(f, n)' = r
                                 /\ \A i \in Found(f) : i < n
                                 /\ \A i \in Found(f)' : i \in Found(f) \/ i = n
<1> DEFINE L == kbLines[f]
           M == After(L, FALSE, r)
<1>1. L \in Seq(Seq(KbRecs)) /\ kbOpen[f] = FALSE /\ r \in KbRecs /\ r.type # "partial"
  BY DEF FilesInv, FilesTyped, ClosedBeforeCrash, Told
<1>2. kbLines' = [kbLines EXCEPT ![f] = M]
  BY <1>1, WrittenIs DEF Appends
<1>3. kbLines'[f] = M /\ \A g \in JsonFiles : g # f => kbLines'[g] = kbLines[g]
  BY <1>2 DEF FilesInv, FilesTyped
<1> HIDE DEF L
<1>4. /\ \A i \in Readable(L) : i \in 1..Len(L) /\ i \in Readable(M) /\ M[i] = L[i]
      /\ Len(L) + 1 \in Readable(M)
  BY <1>1, ReadableStays
<1>5. \A i \in Readable(M) : i \in Readable(L) \/ (i = Len(L) + 1 /\ M[i] = <<r>>)
  BY <1>1, ReadableAfter
<1>6. M = After(L, FALSE, r)
  OBVIOUS
<1> HIDE DEF M
<1>7. PICK last : last = Len(L) + 1
  OBVIOUS
<1>8. M[last] = <<r>> /\ <<r>>[1] = r
  <2>1. M[last] = <<r>>
    BY <1>1, <1>6, <1>7, ClosedWrite, Zenon
  <2> QED BY <2>1
<1>9. /\ \A i \in Readable(L) : i < last
      /\ \A i \in Readable(M) : i \in Readable(L) \/ i = last
      /\ last \in Readable(M)
  BY <1>1, <1>4, <1>5, <1>7
<1>10. Found(f)' = Readable(M) /\ Found(f) = Readable(L)
  BY <1>3 DEF Found, L
<1>11. RecordAt(f, last)' = r
  BY <1>3, <1>8, Zenon DEF RecordAt
<1>12. ASSUME NEW g \in JsonFiles, NEW i \in Found(g)
       PROVE  i \in Found(g)' /\ RecordAt(g, i)' = RecordAt(g, i)
  <2>1. CASE g # f
    BY <1>3, <2>1 DEF Found, RecordAt
  <2>2. CASE g = f
    BY <1>3, <1>4, <2>2 DEF Found, RecordAt, L
  <2> QED BY <2>1, <2>2
<1>13. \E n \in Found(f)' : /\ RecordAt(f, n)' = r /\ \A i \in Found(f) : i < n
                            /\ \A i \in Found(f)' : i \in Found(f) \/ i = n
  BY <1>9, <1>10, <1>11
<1> QED BY <1>12, <1>13
-----------------------------------------------------------------------------
(***************************************************************************)
(* The steps                                                               *)
(***************************************************************************)
\* Exported templates, when the store changes for t only.
Vouched(r) == /\ r.template \in Templates
              /\ kbTemplate[r.template] = "whole" \/ <<"template", r.template>> \in kbBroken

\* The two invariants of exported records as one.
LEMMA ExportsAreVouched ==
  (ExportsAreKnown /\ ExportedIsThere) <=>
    \A i \in Found("lineage") :
      RecordAt("lineage", i).type = "exported" => Vouched(RecordAt("lineage", i))
BY DEF ExportsAreKnown, ExportedIsThere, Vouched

\* An append to the lineage of a record that is no export, or of one that is
\* there, with everything vouched for as before.
LEMMA AppendVouched ==
  ASSUME FilesInv, ExportsAreKnown, ExportedIsThere,
         NEW f \in JsonFiles, NEW r, Told(r), Appends(f, r),
         f = "lineage" /\ r.type = "exported" => Vouched(r)',
         \A x : Vouched(x) => Vouched(x)'
  PROVE  (ExportsAreKnown /\ ExportedIsThere)'
<1>1. ASSUME NEW i \in Found("lineage")', RecordAt("lineage", i)'.type = "exported"
      PROVE  Vouched(RecordAt("lineage", i))'
  <2>1. \/ i \in Found("lineage") /\ RecordAt("lineage", i)' = RecordAt("lineage", i)
        \/ f = "lineage" /\ RecordAt("lineage", i)' = r
    BY FoundAfterAppend DEF JsonFiles
  <2> QED BY <1>1, <2>1 DEF ExportsAreKnown, ExportedIsThere, Vouched
<1> QED BY <1>1 DEF ExportsAreKnown, ExportedIsThere, Vouched

LEMMA CutVouched ==
  ASSUME FilesInv, ExportsAreKnown, ExportedIsThere,
         NEW f \in JsonFiles, NEW r, Told(r), CutOff(f, r),
         f = "lineage" /\ r.type = "exported" => Vouched(r)',
         \A x : Vouched(x) => Vouched(x)'
  PROVE  (ExportsAreKnown /\ ExportedIsThere)'
<1>1. ASSUME NEW i \in Found("lineage")', RecordAt("lineage", i)'.type = "exported"
      PROVE  Vouched(RecordAt("lineage", i))'
  <2>1. \/ i \in Found("lineage") /\ RecordAt("lineage", i)' = RecordAt("lineage", i)
        \/ /\ f = "lineage" /\ RecordAt("lineage", i)'.type = r.type
           /\ RecordAt("lineage", i)'.template = r.template
    BY FoundAfterCut DEF JsonFiles
  <2> QED BY <1>1, <2>1 DEF ExportsAreKnown, ExportedIsThere, Vouched
<1> QED BY <1>1 DEF ExportsAreKnown, ExportedIsThere, Vouched

\* What was told to wait is still told after another append, and an
\* adaptation is only told after its inheritance.
LEMMA AppendTold ==
  ASSUME FilesInv, TasksAreTold, InheritedFirst, UNCHANGED kbCrashes,
         NEW f \in JsonFiles, NEW r, Told(r), Appends(f, r),
         f = "lineage" /\ r.type = "tuned" => <<r.robot, r.template>> \in kbTask
  PROVE  /\ InheritedFirst'
         /\ kbCrashes = 0 => \A o \in KbRobots, t \in Templates :
              InheritedTold(o, t) => InheritedTold(o, t)'
<1> SUFFICES ASSUME kbCrashes = 0
             PROVE  /\ InheritedFirst'
                    /\ \A o \in KbRobots, t \in Templates :
                         InheritedTold(o, t) => InheritedTold(o, t)'
  BY DEF InheritedFirst
<1>1. \A i \in Found("lineage") :
        i \in Found("lineage")' /\ RecordAt("lineage", i)' = RecordAt("lineage", i)
  BY AppendedBeforeCrash DEF JsonFiles
<1>2. \A o \in KbRobots : \A i \in Trace(o) :
        i \in Trace(o)' /\ RecordAt("lineage", i)' = RecordAt("lineage", i)
  BY <1>1 DEF Trace
<1>3. \A o \in KbRobots, t \in Templates : InheritedTold(o, t) => InheritedTold(o, t)'
  BY <1>2 DEF InheritedTold
<1>4. ASSUME NEW o \in KbRobots, NEW i \in Trace(o)', RecordAt("lineage", i)'.type = "tuned"
      PROVE  \E k \in Trace(o)' :
               /\ k < i /\ RecordAt("lineage", k)'.type = "inherited"
               /\ RecordAt("lineage", k)'.template = RecordAt("lineage", i)'.template
  <2>1. CASE i \in Found("lineage")
    <3>1. i \in Trace(o) /\ RecordAt("lineage", i)' = RecordAt("lineage", i)
      BY <1>1, <1>4, <2>1 DEF Trace
    <3>2. PICK k \in Trace(o) :
            /\ k < i /\ RecordAt("lineage", k).type = "inherited"
            /\ RecordAt("lineage", k).template = RecordAt("lineage", i).template
      BY <1>4, <3>1 DEF InheritedFirst
    <3> QED BY <1>2, <3>1, <3>2
  <2>2. CASE i \notin Found("lineage")
    <3>1. i \in Found("lineage")'
      BY DEF Trace
    <3>2. f = "lineage" /\ RecordAt("lineage", i)' = r
      BY <2>2, <3>1, FoundAfterAppend DEF JsonFiles
    <3>3. \A j \in Found("lineage") : j < i
      BY <2>2, <3>1, <3>2, AppendedBeforeCrash
    <3>4. r.robot = o /\ r.type = "tuned"
      BY <1>4, <3>2 DEF Trace
    <3>5. <<o, r.template>> \in kbTask
      BY <3>2, <3>4
    <3>6. InheritedTold(o, r.template)
      <4>1. o \in KbRobots /\ r.template \in Templates
        BY <3>5 DEF TasksAreTold
      <4> QED BY <3>5, <4>1 DEF TasksAreTold
    <3>7. PICK k \in Trace(o) : /\ RecordAt("lineage", k).type = "inherited"
                                /\ RecordAt("lineage", k).template = r.template
      BY <3>6 DEF InheritedTold
    <3>8. k < i
      BY <3>3 DEF Trace
    <3> QED BY <1>2, <3>2, <3>7, <3>8
  <2> QED BY <2>1, <2>2
<1>5. InheritedFirst'
  BY <1>4 DEF InheritedFirst
<1> QED BY <1>3, <1>5
-----------------------------------------------------------------------------
(***************************************************************************)
(* Each operation keeps KbInv.  Its files, what is told of exports, and    *)
(* what is told of inheritances are the subject of the lemmas above.       *)
(***************************************************************************)
LEMMA KbStarts == KbInit => KbInv
<1> SUFFICES ASSUME KbInit PROVE KbInv
  OBVIOUS
<1>1. \A f \in JsonFiles : kbLines[f] = <<>> /\ kbOpen[f] = FALSE /\ kbKept[f] = 0
  BY DEF KbInit
<1>2. Readable(<<>>) = {} /\ WholeOf(<<>>) = {}
  BY DEF Readable, WholeOf
<1>3. FilesTyped /\ OpenEndsCut /\ ClosedBeforeCrash
  BY DEF KbInit, FilesTyped, OpenEndsCut, ClosedBeforeCrash
<1>4. LossIsPaid
  <2>1. Cardinality({}) = 0
    BY FS_EmptySet
  <2>2. \A f \in JsonFiles : Owed(f) = 0 /\ WholeOf(kbLines[f]) = {}
    BY <1>1, <1>2 DEF Owed
  <2>3. ASSUME NEW f \in JsonFiles
        PROVE  kbKept[f] - Cardinality(WholeOf(kbLines[f])) + Owed(f) <= kbCrashes
    <3>1. kbKept[f] = 0 /\ Cardinality(WholeOf(kbLines[f])) = 0 /\ Owed(f) = 0 /\ kbCrashes = 0
      BY <1>1, <2>1, <2>2 DEF KbInit
    <3> QED BY <3>1
  <2> QED BY <2>3 DEF LossIsPaid
<1>5. Found("lineage") = {}
  BY <1>1, <1>2 DEF Found, JsonFiles
<1>6. \A r : Trace(r) = {}
  BY <1>5 DEF Trace
<1>7. TasksAreTold /\ ExportsAreKnown /\ InheritedFirst /\ ExportedIsThere
  BY <1>5, <1>6 DEF KbInit, TasksAreTold, ExportsAreKnown, InheritedFirst, ExportedIsThere
<1>8. StoreTyped /\ ListedIsWhole
  BY DEF KbInit, StoreTyped, ListedIsWhole, Cut
<1> QED BY <1>3, <1>4, <1>7, <1>8 DEF KbInv, FilesInv

\* After a crash or an error nothing is promised of inheritances.
LEMMA CrashForgets ==
  ASSUME FilesInv, TasksAreTold, NEW own, CutShort(own)
  PROVE  InheritedFirst' /\ TasksAreTold'
<1>1. kbCrashes' # 0 /\ kbTask' \subseteq kbTask
  BY DEF CutShort, FilesInv, FilesTyped
<1> QED BY <1>1 DEF InheritedFirst, TasksAreTold

\* The zoo, when no model is published.
LEMMA ZooStays ==
  ASSUME StoreTyped, ListedIsWhole, UNCHANGED <<kbBin, kbMeta>>,
         \A m \in Models : <<"model", m>> \in kbBroken => <<"model", m>> \in kbBroken'
  PROVE  ListedIsWhole'
BY DEF StoreTyped, ListedIsWhole

\* Appends that leave templates, models and the broken alone.
LEMMA PlainAppend ==
  ASSUME KbInv, NEW f \in JsonFiles, NEW r, Told(r), Appends(f, r),
         f = "lineage" => r.type # "exported",
         f = "lineage" /\ r.type = "tuned" => <<r.robot, r.template>> \in kbTask,
         UNCHANGED <<kbTemplate, kbBin, kbMeta, kbCrashes, kbBroken>>
  PROVE  /\ FilesInv' /\ ExportsAreKnown' /\ StoreTyped'
         /\ InheritedFirst' /\ ExportedIsThere' /\ ListedIsWhole'
<1>1. FilesInv'
  BY AppendKeepsFiles DEF KbInv
<1>2. (ExportsAreKnown /\ ExportedIsThere)'
  <2>1. \A x : Vouched(x) => Vouched(x)'
    BY DEF Vouched
  <2> QED BY <2>1, AppendVouched DEF KbInv
<1>3. InheritedFirst'
  BY AppendTold DEF KbInv
<1>4. StoreTyped' /\ ListedIsWhole'
  BY ZooStays DEF KbInv, StoreTyped
<1> QED BY <1>1, <1>2, <1>3, <1>4

\* Cut-off writes that leave them alone.
LEMMA PlainCut ==
  ASSUME KbInv, NEW f \in JsonFiles, NEW r, Told(r), NEW own, CutShort(own), CutOff(f, r),
         f = "lineage" => r.type # "exported",
         UNCHANGED <<kbTemplate, kbBin, kbMeta, kbBroken>>
  PROVE  KbInv'
<1>1. FilesInv'
  BY CutKeepsFiles DEF KbInv
<1>2. (ExportsAreKnown /\ ExportedIsThere)'
  <2>1. \A x : Vouched(x) => Vouched(x)'
    BY DEF Vouched
  <2> QED BY <2>1, CutVouched DEF KbInv
<1>3. InheritedFirst' /\ TasksAreTold'
  BY CrashForgets DEF KbInv
<1>4. StoreTyped' /\ ListedIsWhole'
  BY ZooStays DEF KbInv, StoreTyped
<1> QED BY <1>1, <1>2, <1>3, <1>4 DEF KbInv

LEMMA EmitKeeps == KbInv /\ Emit => KbInv'
<1> SUFFICES ASSUME KbInv, Emit PROVE KbInv'
  OBVIOUS
<1> DEFINE r == Rec("event", "none", "none")
<1>1. Told(r)
  BY DEF Told, Rec, KbRecs
<1>2. /\ Appends("stream", r) /\ "stream" \in JsonFiles /\ "stream" # "lineage"
      /\ UNCHANGED <<kbTemplate, kbBin, kbMeta, kbTask, kbCrashes, kbBroken>>
  BY DEF Emit, JsonFiles
<1> HIDE DEF r
<1>3. /\ FilesInv' /\ ExportsAreKnown' /\ StoreTyped'
      /\ InheritedFirst' /\ ExportedIsThere' /\ ListedIsWhole'
  BY <1>1, <1>2, PlainAppend
<1>4. kbCrashes = 0 => \A o \in KbRobots, t \in Templates :
        InheritedTold(o, t) => InheritedTold(o, t)'
  BY <1>1, <1>2, AppendTold DEF KbInv
<1>5. TasksAreTold'
  BY <1>2, <1>4 DEF KbInv, TasksAreTold
<1> QED BY <1>3, <1>5 DEF KbInv

LEMMA EmitCutOffKeeps == KbInv /\ EmitCutOff => KbInv'
<1>1. Told(Rec("event", "none", "none")) /\ "stream" \in JsonFiles /\ "stream" # "lineage"
  BY DEF Told, Rec, KbRecs, JsonFiles
<1> QED BY <1>1, PlainCut DEF EmitCutOff

LEMMA ExportKeeps ==
  ASSUME KbInv, NEW robot \in KbRobots, NEW t \in Templates, Export_(robot, t)
  PROVE  KbInv'
<1> DEFINE r == Rec("exported", robot, t)
<1>1. Told(r) /\ r.type = "exported" /\ r.template = t
  BY DEF Told, Rec, KbRecs
<1>2. /\ Appends("lineage", r) /\ "lineage" \in JsonFiles
      /\ kbTemplate' = [kbTemplate EXCEPT ![t] = "whole"]
      /\ kbBroken' = kbBroken \ {<<"template", t>>}
      /\ UNCHANGED <<kbBin, kbMeta, kbTask, kbCrashes>>
  BY DEF Export_, JsonFiles
<1> HIDE DEF r
<1>3. FilesInv'
  BY <1>1, <1>2, AppendKeepsFiles DEF KbInv
<1>4. (ExportsAreKnown /\ ExportedIsThere)'
  <2>1. kbTemplate'[t] = "whole" /\ \A x \in Templates : x # t => kbTemplate'[x] = kbTemplate[x]
    BY <1>2 DEF KbInv, StoreTyped
  <2>2. \A x : x # t /\ <<"template", x>> \in kbBroken => <<"template", x>> \in kbBroken'
    BY <1>2
  <2>3. \A x : Vouched(x) => Vouched(x)'
    BY <2>1, <2>2 DEF Vouched
  <2>4. Vouched(r)'
    BY <1>1, <2>1 DEF Vouched
  <2> QED BY <1>1, <1>2, <2>3, <2>4, AppendVouched DEF KbInv
<1>5. /\ InheritedFirst'
      /\ kbCrashes = 0 => \A o \in KbRobots, u \in Templates :
           InheritedTold(o, u) => InheritedTold(o, u)'
  BY <1>1, <1>2, AppendTold DEF KbInv
<1>6. TasksAreTold'
  BY <1>2, <1>5 DEF KbInv, TasksAreTold
<1>7. StoreTyped' /\ ListedIsWhole'
  <2>1. \A m \in Models : <<"model", m>> \in kbBroken => <<"model", m>> \in kbBroken'
    BY <1>2
  <2> QED BY <1>2, <2>1, ZooStays DEF KbInv, StoreTyped
<1> QED BY <1>3, <1>4, <1>5, <1>6, <1>7 DEF KbInv

LEMMA ExportTornKeeps ==
  ASSUME KbInv, NEW t \in Templates, ExportTorn(t)
  PROVE  KbInv'
<1>1. FilesInv'
  <2>1. UNCHANGED <<kbLines, kbOpen, kbKept>> /\ kbCrashes' = kbCrashes + 1
    BY DEF ExportTorn, CutShort
  <2> QED BY <2>1, FilesStay DEF KbInv
<1>2. (ExportsAreKnown /\ ExportedIsThere)'
  <2>1. /\ kbTemplate' = [kbTemplate EXCEPT ![t] = "torn"]
        /\ kbBroken' = kbBroken \cup {<<"template", t>>} /\ kbLines' = kbLines
    BY DEF ExportTorn
  <2>2. \A x \in Templates : x # t => kbTemplate'[x] = kbTemplate[x]
    BY <2>1 DEF KbInv, StoreTyped
  <2>3. <<"template", t>> \in kbBroken' /\ kbBroken \subseteq kbBroken'
    BY <2>1
  <2>4. \A x : Vouched(x) => Vouched(x)'
    BY <2>2, <2>3 DEF Vouched
  <2>5. Found("lineage")' = Found("lineage")
        /\ \A i : RecordAt("lineage", i)' = RecordAt("lineage", i)
    BY <2>1 DEF Found, RecordAt
  <2>6. \A i \in Found("lineage") :
          RecordAt("lineage", i).type = "exported" => Vouched(RecordAt("lineage", i))
    BY DEF KbInv, ExportsAreKnown, ExportedIsThere, Vouched
  <2>7. \A i \in Found("lineage")' :
          RecordAt("lineage", i)'.type = "exported" => Vouched(RecordAt("lineage", i))'
    <3> SUFFICES ASSUME NEW i \in Found("lineage"), RecordAt("lineage", i).type = "exported"
                 PROVE  Vouched(RecordAt("lineage", i))'
      BY <2>5
    <3>1. Vouched(RecordAt("lineage", i))
      BY <2>6
    <3> QED BY <2>2, <2>3, <2>5, <3>1 DEF Vouched
  <2> QED BY <2>7 DEF ExportsAreKnown, ExportedIsThere, Vouched
<1>3. InheritedFirst' /\ TasksAreTold'
  BY CrashForgets DEF KbInv, ExportTorn
<1>4. StoreTyped' /\ ListedIsWhole'
  <2>1. \A m \in Models : <<"model", m>> \in kbBroken => <<"model", m>> \in kbBroken'
    BY DEF ExportTorn
  <2> QED BY <2>1, ZooStays DEF KbInv, StoreTyped, ExportTorn
<1> QED BY <1>1, <1>2, <1>3, <1>4 DEF KbInv

LEMMA ExportCutOffKeeps ==
  ASSUME KbInv, NEW robot \in KbRobots, NEW t \in Templates, ExportCutOff(robot, t)
  PROVE  KbInv'
<1> DEFINE r == Rec("exported", robot, t)
<1>1. Told(r) /\ r.type = "exported" /\ r.template = t
  BY DEF Told, Rec, KbRecs
<1>2. /\ CutShort({}) /\ CutOff("lineage", r) /\ "lineage" \in JsonFiles
      /\ kbTemplate' = [kbTemplate EXCEPT ![t] = "whole"]
      /\ UNCHANGED <<kbBin, kbMeta, kbBroken>>
  BY DEF ExportCutOff, TemplateAtLine, JsonFiles
<1> HIDE DEF r
<1>3. FilesInv'
  BY <1>1, <1>2, CutKeepsFiles DEF KbInv
<1>4. (ExportsAreKnown /\ ExportedIsThere)'
  <2>1. kbTemplate'[t] = "whole" /\ \A x \in Templates : x # t => kbTemplate'[x] = kbTemplate[x]
    BY <1>2 DEF KbInv, StoreTyped
  <2>2. \A x : Vouched(x) => Vouched(x)'
    BY <1>2, <2>1 DEF Vouched
  <2>3. Vouched(r)'
    BY <1>1, <2>1 DEF Vouched
  <2> QED BY <1>1, <1>2, <2>2, <2>3, CutVouched DEF KbInv
<1>5. InheritedFirst' /\ TasksAreTold'
  BY <1>2, CrashForgets DEF KbInv
<1>6. StoreTyped' /\ ListedIsWhole'
  BY <1>2, ZooStays DEF KbInv, StoreTyped
<1> QED BY <1>3, <1>4, <1>5, <1>6 DEF KbInv

LEMMA InheritKeeps ==
  ASSUME KbInv, NEW robot \in KbRobots, NEW t \in Templates, Inherit(robot, t)
  PROVE  KbInv'
<1> DEFINE r == FirstLine(robot, t)
<1>1. Told(r) /\ r.type = "inherited" /\ r.template = t /\ r.robot = robot
  BY DEF Told, Rec, KbRecs, FirstLine
<1>2. /\ Appends("lineage", r) /\ "lineage" \in JsonFiles
      /\ kbTask' = kbTask \cup {<<robot, t>>}
      /\ UNCHANGED <<kbTemplate, kbBin, kbMeta, kbCrashes, kbBroken>>
  BY DEF Inherit, JsonFiles
<1> HIDE DEF r
<1>3. /\ FilesInv' /\ ExportsAreKnown' /\ StoreTyped'
      /\ InheritedFirst' /\ ExportedIsThere' /\ ListedIsWhole'
  BY <1>1, <1>2, PlainAppend
<1>4. kbCrashes = 0 => \A o \in KbRobots, u \in Templates :
        InheritedTold(o, u) => InheritedTold(o, u)'
  BY <1>1, <1>2, AppendTold DEF KbInv
<1>5. kbCrashes = 0 => InheritedTold(robot, t)'
  <2> SUFFICES ASSUME kbCrashes = 0 PROVE InheritedTold(robot, t)'
    OBVIOUS
  <2>1. PICK n \in Found("lineage")' : RecordAt("lineage", n)' = r
    BY <1>1, <1>2, AppendedBeforeCrash DEF KbInv
  <2>2. n \in Trace(robot)'
    BY <1>1, <2>1 DEF Trace
  <2> QED BY <1>1, <2>1, <2>2 DEF InheritedTold
<1>6. TasksAreTold'
  BY <1>2, <1>4, <1>5 DEF KbInv, TasksAreTold
<1> QED BY <1>3, <1>6 DEF KbInv

LEMMA InheritCutOffKeeps ==
  ASSUME KbInv, NEW robot \in KbRobots, NEW t \in Templates, InheritCutOff(robot, t)
  PROVE  KbInv'
<1>1. Told(FirstLine(robot, t)) /\ FirstLine(robot, t).type = "inherited"
      /\ "lineage" \in JsonFiles
  BY DEF Told, Rec, KbRecs, FirstLine, JsonFiles
<1> QED BY <1>1, PlainCut DEF InheritCutOff

LEMMA AdaptedKeeps ==
  ASSUME KbInv, NEW robot \in KbRobots, NEW t \in Templates, Adapted(robot, t)
  PROVE  KbInv'
<1> DEFINE r == Rec("tuned", robot, t)
<1>1. Told(r) /\ r.type = "tuned" /\ r.template = t /\ r.robot = robot
  BY DEF Told, Rec, KbRecs
<1>2. /\ Appends("lineage", r) /\ "lineage" \in JsonFiles
      /\ <<robot, t>> \in kbTask /\ kbTask' \subseteq kbTask
      /\ UNCHANGED <<kbTemplate, kbBin, kbMeta, kbCrashes, kbBroken>>
  BY DEF Adapted, JsonFiles
<1> HIDE DEF r
<1>3. /\ FilesInv' /\ ExportsAreKnown' /\ StoreTyped'
      /\ InheritedFirst' /\ ExportedIsThere' /\ ListedIsWhole'
  BY <1>1, <1>2, PlainAppend
<1>4. kbCrashes = 0 => \A o \in KbRobots, u \in Templates :
        InheritedTold(o, u) => InheritedTold(o, u)'
  BY <1>1, <1>2, AppendTold DEF KbInv
<1>5. TasksAreTold'
  BY <1>2, <1>4 DEF KbInv, TasksAreTold
<1> QED BY <1>3, <1>5 DEF KbInv

LEMMA AdaptedCutOffKeeps ==
  ASSUME KbInv, NEW robot \in KbRobots, NEW t \in Templates, AdaptedCutOff(robot, t)
  PROVE  KbInv'
<1>1. Told(Rec("tuned", robot, t)) /\ Rec("tuned", robot, t).type = "tuned"
      /\ "lineage" \in JsonFiles
  BY DEF Told, Rec, KbRecs, JsonFiles
<1> QED BY <1>1, PlainCut DEF AdaptedCutOff

\* The lineage tells what it told, as no line and no template changes.
LEMMA LineageStays ==
  ASSUME ExportsAreKnown, ExportedIsThere, UNCHANGED <<kbLines, kbTemplate>>,
         \A t \in Templates : <<"template", t>> \in kbBroken => <<"template", t>> \in kbBroken'
  PROVE  (ExportsAreKnown /\ ExportedIsThere)'
<1>1. Found("lineage")' = Found("lineage")
      /\ \A i : RecordAt("lineage", i)' = RecordAt("lineage", i)
  BY DEF Found, RecordAt
<1> QED BY <1>1 DEF ExportsAreKnown, ExportedIsThere

LEMMA PublishKeeps ==
  ASSUME KbInv, NEW m \in Models, NEW v \in {1, 2}, Publish(m, v)
  PROVE  KbInv'
<1>1. PublishSteps(m, v)[4] = <<v, v>>
  BY DEF PublishSteps
<1>2. /\ kbBin' = [kbBin EXCEPT ![m] = v] /\ kbMeta' = [kbMeta EXCEPT ![m] = v]
      /\ kbBroken' = kbBroken \ {<<"model", m>>}
      /\ UNCHANGED <<kbLines, kbOpen, kbTemplate, kbTask, kbKept, kbCrashes>>
  BY <1>1 DEF Publish, Stored
<1>3. FilesInv'
  BY <1>2, FilesStay DEF KbInv
<1>4. (ExportsAreKnown /\ ExportedIsThere)'
  BY <1>2, LineageStays DEF KbInv
<1>5. InheritedFirst' /\ TasksAreTold'
  <2>1. \A o : Trace(o)' = Trace(o) /\ \A i : RecordAt("lineage", i)' = RecordAt("lineage", i)
    BY <1>2 DEF Trace, Found, RecordAt
  <2> QED BY <1>2, <2>1 DEF KbInv, InheritedFirst, TasksAreTold, InheritedTold
<1>6. StoreTyped'
  BY <1>2 DEF KbInv, StoreTyped
<1>7. ListedIsWhole'
  BY <1>2 DEF KbInv, StoreTyped, ListedIsWhole
<1> QED BY <1>3, <1>4, <1>5, <1>6, <1>7 DEF KbInv

LEMMA PublishCutOffKeeps ==
  ASSUME KbInv, NEW m \in Models, NEW v \in {1, 2}, NEW k \in 1..3, PublishCutOff(m, v, k)
  PROVE  KbInv'
<1>1. kbMeta[m] \in {0, 1, 2, Cut} /\ v > 0
  BY DEF KbInv, StoreTyped
<1>2. PICK b \in {0, 1, 2, Cut}, c \in {kbMeta[m], Cut} :
        kbBin' = [kbBin EXCEPT ![m] = b] /\ kbMeta' = [kbMeta EXCEPT ![m] = c]
  <2>1. /\ PublishSteps(m, v)[1] = <<Cut, kbMeta[m]>>
        /\ PublishSteps(m, v)[2] = <<v, kbMeta[m]>>
        /\ PublishSteps(m, v)[3] = <<v, Cut>>
    BY DEF PublishSteps
  <2>2. PublishSteps(m, v)[k] \in {<<Cut, kbMeta[m]>>, <<v, kbMeta[m]>>, <<v, Cut>>}
    <3>1. k = 1 \/ k = 2 \/ k = 3
      OBVIOUS
    <3> QED BY <2>1, <3>1
  <2>3. PICK s : /\ s \in {<<Cut, kbMeta[m]>>, <<v, kbMeta[m]>>, <<v, Cut>>}
                 /\ Stored(m, s)
    BY <2>2 DEF PublishCutOff
  <2>4. s[1] \in {0, 1, 2, Cut} /\ s[2] \in {kbMeta[m], Cut}
    BY <2>3
  <2> QED BY <2>3, <2>4, Zenon DEF Stored
<1>3. /\ CutShort({}) /\ kbBroken \subseteq kbBroken'
      /\ kbMeta[m] > 0 => <<"model", m>> \in kbBroken'
      /\ UNCHANGED <<kbLines, kbOpen, kbTemplate>>
  BY DEF PublishCutOff
<1>4. FilesInv'
  BY <1>3, FilesStay DEF KbInv, CutShort
<1>5. (ExportsAreKnown /\ ExportedIsThere)'
  BY <1>3, LineageStays DEF KbInv
<1>6. InheritedFirst' /\ TasksAreTold'
  BY <1>3, CrashForgets DEF KbInv
<1>7. StoreTyped'
  BY <1>1, <1>2, <1>3 DEF KbInv, StoreTyped
<1>8. ListedIsWhole'
  <2> SUFFICES ASSUME NEW n \in Models, kbMeta'[n] > 0
               PROVE  kbBin'[n] = kbMeta'[n] \/ <<"model", n>> \in kbBroken'
    BY DEF ListedIsWhole
  <2>1. CASE n = m
    <3>1. kbMeta'[m] \in {kbMeta[m], Cut}
      BY <1>2 DEF KbInv, StoreTyped
    <3>2. kbMeta[m] > 0
      BY <2>1, <3>1 DEF Cut
    <3> QED BY <1>3, <2>1, <3>2
  <2>2. CASE n # m
    <3>1. kbMeta'[n] = kbMeta[n] /\ kbBin'[n] = kbBin[n]
      BY <1>2, <2>2 DEF KbInv, StoreTyped
    <3> QED BY <1>3, <3>1 DEF KbInv, ListedIsWhole
  <2> QED BY <2>1, <2>2
<1> QED BY <1>4, <1>5, <1>6, <1>7, <1>8 DEF KbInv

LEMMA KbStep == KbInv /\ [KbNext]_kbVars => KbInv'
<1> SUFFICES ASSUME KbInv, [KbNext]_kbVars PROVE KbInv'
  OBVIOUS
<1>1. CASE UNCHANGED kbVars
  <2>1. FilesInv' /\ (ExportsAreKnown /\ ExportedIsThere)'
    BY <1>1, FilesStay, LineageStays DEF KbInv, kbVars
  <2>2. \A o : Trace(o)' = Trace(o) /\ \A i : RecordAt("lineage", i)' = RecordAt("lineage", i)
    BY <1>1 DEF Trace, Found, RecordAt, kbVars
  <2>3. InheritedFirst' /\ TasksAreTold'
    BY <1>1, <2>2 DEF KbInv, InheritedFirst, TasksAreTold, InheritedTold, kbVars
  <2>4. StoreTyped' /\ ListedIsWhole'
    BY <1>1 DEF KbInv, StoreTyped, ListedIsWhole, kbVars
  <2> QED BY <2>1, <2>3, <2>4 DEF KbInv
<1>2. CASE Emit \/ EmitCutOff
  BY <1>2, EmitKeeps, EmitCutOffKeeps
<1>3. ASSUME NEW t \in Templates, ExportTorn(t) PROVE KbInv'
  BY <1>3, ExportTornKeeps
<1>4. ASSUME NEW r \in KbRobots, NEW t \in Templates,
             \/ Export_(r, t) \/ ExportCutOff(r, t) \/ Inherit(r, t) \/ InheritCutOff(r, t)
             \/ Adapted(r, t) \/ AdaptedCutOff(r, t)
      PROVE  KbInv'
  BY <1>4, ExportKeeps, ExportCutOffKeeps, InheritKeeps, InheritCutOffKeeps,
     AdaptedKeeps, AdaptedCutOffKeeps
<1>5. ASSUME NEW m \in Models, NEW v \in {1, 2},
             Publish(m, v) \/ \E k \in 1..3 : PublishCutOff(m, v, k)
      PROVE  KbInv'
  BY <1>5, PublishKeeps, PublishCutOffKeeps
<1> QED BY <1>1, <1>2, <1>3, <1>4, <1>5 DEF KbNext

\* What the invariant says of the records a reader has lost.
LEMMA KbImplies == KbInv => KnowledgeHolds
<1> SUFFICES ASSUME KbInv PROVE OneLostPerCrash
  BY DEF KbInv, KnowledgeHolds
<1> SUFFICES ASSUME NEW f \in JsonFiles PROVE Lost(f) <= kbCrashes
  BY DEF OneLostPerCrash
<1>1. Whole(f) = WholeOf(kbLines[f])
  BY DEF Whole, WholeOf, Found, RecordAt
<1>2. Cardinality(WholeOf(kbLines[f])) \in Nat /\ kbKept[f] \in Nat /\ kbCrashes \in Nat
  BY WholeIsFinite DEF KbInv, FilesInv, FilesTyped
<1>3. kbKept[f] - Cardinality(WholeOf(kbLines[f])) + Owed(f) <= kbCrashes /\ Owed(f) \in {0, 1}
  BY DEF KbInv, FilesInv, LossIsPaid, Owed
<1> QED BY <1>1, <1>2, <1>3 DEF Lost

\* Crashes and all: a reader loses no more records than there were crashes,
\* no robot is told to have tuned what it did not inherit, an exported
\* template and a listed model are there unless a later write of the same
\* name was cut off (lineage.py, stream.py, model_zoo.py, transfer.py).
THEOREM KnowledgeKept == KbSpec => []KnowledgeHolds
<1>1. KbSpec => []KbInv
  BY KbStarts, KbStep, PTL DEF KbSpec
<1> QED BY <1>1, KbImplies, PTL
=============================================================================

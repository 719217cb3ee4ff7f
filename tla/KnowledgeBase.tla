---------------------------- MODULE KnowledgeBase ----------------------------
(***************************************************************************)
(* The files robots share and tell of themselves: parameter templates, the *)
(* lineage of parameters and the lifecycle stream (one JSON record a line, *)
(* appended), and the model zoo (a binary and its metadata).               *)
(*                                                                         *)
(* Nothing is written atomically: a crash, or a write that raises, leaves  *)
(* a file in part, and of a line a beginning without its newline, which    *)
(* the next record continues.                                              *)
(***************************************************************************)
EXTENDS Integers, Sequences, FiniteSets

CONSTANTS
  KbRobots,     \* robots that export and inherit
  Templates,    \* template ids
  Models,       \* file names of the zoo
  KbMaxRecords, \* bound: records appended
  KbMaxCrashes  \* bound: crashes and writes that raise

ASSUME KnowledgeBaseAssumption ==
  KbMaxRecords \in Nat /\ KbMaxCrashes \in Nat

VARIABLES
  kbLines,    \* the lines of each JSONL file: the records in a line, in order
  kbOpen,     \* the last line of the file has no newline
  kbTemplate, \* each template: "none", "torn", "whole"
  kbBin,      \* the binary of each model: 0, Cut or its version
  kbMeta,     \* the version its metadata tells of
  kbTask,     \* inheritances waiting for their adaptation
  kbKept,     \* number of appends to each file that have returned
  kbCrashes,  \* history: number of crashes and of writes that raised
  kbBroken    \* history: templates and models with a write cut off later

kbVars == <<kbLines, kbOpen, kbTemplate, kbBin, kbMeta, kbTask, kbKept,
            kbCrashes, kbBroken>>
-----------------------------------------------------------------------------
JsonFiles == {"lineage", "stream"}
Cut == -1
\* `end`: whether its append returned or was cut off (history).
Rec(type, robot, template) ==
  [type |-> type, robot |-> robot, template |-> template, end |-> "returned"]
CutRec(r) == [r EXCEPT !.end = "cut"]

KbInit ==
  /\ kbLines = [f \in JsonFiles |-> <<>>] /\ kbOpen = [f \in JsonFiles |-> FALSE]
  /\ kbTemplate = [t \in Templates |-> "none"]
  /\ kbBin = [m \in Models |-> 0] /\ kbMeta = [m \in Models |-> 0]
  /\ kbTask = {} /\ kbKept = [f \in JsonFiles |-> 0]
  /\ kbCrashes = 0 /\ kbBroken = {}

(***************************************************************************)
(* JSONL files                                                             *)
(***************************************************************************)
Partial == CutRec(Rec("partial", "none", "none"))

\* The lines after r was written to f, at the end of an open line or in a
\* new one.
Written(f, r) ==
  IF kbOpen[f] THEN [kbLines[f] EXCEPT ![Len(kbLines[f])] = Append(@, r)]
               ELSE Append(kbLines[f], <<r>>)

Room(f) == kbKept[f] < KbMaxRecords

\* _append and emit
Appends(f, r) ==
  /\ Room(f)
  /\ kbLines' = [kbLines EXCEPT ![f] = Written(f, r)]
  /\ kbOpen' = [kbOpen EXCEPT ![f] = FALSE]
  /\ kbKept' = [kbKept EXCEPT ![f] = @ + 1]

\* An append cut short: nothing, a part, or all but the newline is written.
CutOff(f, r) ==
  \/ UNCHANGED <<kbLines, kbOpen>>
  \/ \E x \in {Partial, CutRec(r)} :
       /\ kbLines' = [kbLines EXCEPT ![f] = Written(f, x)]
       /\ kbOpen' = [kbOpen EXCEPT ![f] = TRUE]

IsRecord(line) == Len(line) = 1 /\ line[1].type # "partial"

Readable_ToFirstBad(lines) ==   \* mutant: break in place of continue
  {i \in DOMAIN lines : \A k \in 1..i : IsRecord(lines[k])}
\* trace and query: lines that are no JSON are passed over.
Readable(lines) == {i \in DOMAIN lines : IsRecord(lines[i])}

\* What a reader finds: the numbers of the lines, and the record in each.
Found(f) == Readable(kbLines[f])
RecordAt(f, i) == kbLines[f][i][1]
Trace(robot) == {i \in Found("lineage") : RecordAt("lineage", i).robot = robot}

(***************************************************************************)
(* The operations.  CutShort is what they share when the process ends, or  *)
(* when a write raises, which ends the operation alone, with the           *)
(* inheritances in `own` if it was theirs.                                 *)
(***************************************************************************)
CutShort(own) == /\ kbCrashes < KbMaxCrashes /\ kbCrashes' = kbCrashes + 1
                 /\ kbTask' \in {{}, kbTask \ own} /\ UNCHANGED kbKept

Emit ==
  /\ Appends("stream", Rec("event", "none", "none"))
  /\ UNCHANGED <<kbTemplate, kbBin, kbMeta, kbTask, kbCrashes, kbBroken>>
EmitCutOff ==
  /\ CutShort({}) /\ CutOff("stream", Rec("event", "none", "none"))
  /\ UNCHANGED <<kbTemplate, kbBin, kbMeta, kbBroken>>

\* export_template: the template, then its line.
TemplateAtLine(t) == "whole"

Export_(robot, t) ==
  /\ Appends("lineage", Rec("exported", robot, t))
  /\ kbTemplate' = [kbTemplate EXCEPT ![t] = "whole"] /\ kbBroken' = kbBroken \ {<<"template", t>>}
  /\ UNCHANGED <<kbBin, kbMeta, kbTask, kbCrashes>>
ExportTorn(t) ==
  /\ CutShort({})
  /\ kbTemplate' = [kbTemplate EXCEPT ![t] = "torn"]
  /\ kbBroken' = kbBroken \cup {<<"template", t>>}
  /\ UNCHANGED <<kbLines, kbOpen, kbBin, kbMeta>>
ExportCutOff(robot, t) ==
  /\ CutShort({})
  /\ kbTemplate' = [kbTemplate EXCEPT ![t] = TemplateAtLine(t)]
  /\ CutOff("lineage", Rec("exported", robot, t))
  /\ UNCHANGED <<kbBin, kbMeta, kbBroken>>

\* inherit_template: a missing or a torn template raises before the line.
FirstLine(robot, t) == Rec("inherited", robot, t)

Inherit(robot, t) ==
  /\ kbTemplate[t] = "whole" /\ <<robot, t>> \notin kbTask
  /\ Appends("lineage", FirstLine(robot, t))
  /\ kbTask' = kbTask \cup {<<robot, t>>}
  /\ UNCHANGED <<kbTemplate, kbBin, kbMeta, kbCrashes, kbBroken>>
InheritCutOff(robot, t) ==
  /\ CutShort({}) /\ kbTemplate[t] = "whole"
  /\ CutOff("lineage", FirstLine(robot, t))
  /\ UNCHANGED <<kbTemplate, kbBin, kbMeta, kbBroken>>

\* The end of the adaptation (at once in strict mode).
Adapted(robot, t) ==
  /\ <<robot, t>> \in kbTask /\ kbTask' = kbTask \ {<<robot, t>>}
  /\ Appends("lineage", Rec("tuned", robot, t))
  /\ UNCHANGED <<kbTemplate, kbBin, kbMeta, kbCrashes, kbBroken>>
AdaptedCutOff(robot, t) ==
  /\ CutShort({<<robot, t>>}) /\ <<robot, t>> \in kbTask
  /\ CutOff("lineage", Rec("tuned", robot, t))
  /\ UNCHANGED <<kbTemplate, kbBin, kbMeta, kbBroken>>

\* publish: the states it may be cut off in and, last, its result.
PublishSteps(m, v) ==
  << <<Cut, kbMeta[m]>>, <<v, kbMeta[m]>>, <<v, Cut>>, <<v, v>> >>

Stored(m, s) == /\ kbBin' = [kbBin EXCEPT ![m] = s[1]]
                /\ kbMeta' = [kbMeta EXCEPT ![m] = s[2]]

Publish(m, v) ==
  /\ Stored(m, PublishSteps(m, v)[4]) /\ kbBroken' = kbBroken \ {<<"model", m>>}
  /\ UNCHANGED <<kbLines, kbOpen, kbTemplate, kbTask, kbKept, kbCrashes>>
PublishCutOff(m, v, k) ==
  /\ CutShort({}) /\ Stored(m, PublishSteps(m, v)[k])
  /\ kbBroken' = IF kbMeta[m] > 0 THEN kbBroken \cup {<<"model", m>>}
                                ELSE kbBroken
  /\ UNCHANGED <<kbLines, kbOpen, kbTemplate>>

KbNext ==
  \/ Emit \/ EmitCutOff
  \/ \E t \in Templates : ExportTorn(t)
  \/ \E r \in KbRobots, t \in Templates :
       Export_(r, t) \/ ExportCutOff(r, t) \/ Inherit(r, t) \/ InheritCutOff(r, t)
       \/ Adapted(r, t) \/ AdaptedCutOff(r, t)
  \/ \E m \in Models, v \in {1, 2} :
       Publish(m, v) \/ \E k \in 1..3 : PublishCutOff(m, v, k)

KbSpec == KbInit /\ [][KbNext]_kbVars
-----------------------------------------------------------------------------
KbTypeOK ==
  /\ kbTemplate \in [Templates -> {"none", "torn", "whole"}]
  /\ kbBin \in [Models -> {0, 1, 2, Cut}] /\ kbMeta \in [Models -> {0, 1, 2, Cut}]
  /\ kbTask \subseteq KbRobots \X Templates /\ kbCrashes \in 0..KbMaxCrashes
  /\ \A f \in JsonFiles : kbKept[f] <= KbMaxRecords /\ Len(kbLines[f]) <= kbKept[f] + kbCrashes

\* Records an append has returned for and a reader no longer finds.
Whole(f) == {i \in Found(f) : RecordAt(f, i).end = "returned"}
Lost(f) == kbKept[f] - Cardinality(Whole(f))

\* An append cut short by a crash or an error costs the records before and
\* after it no more than one: a reader passes over the line it has spoilt and goes on.
OneLostPerCrash == \A f \in JsonFiles : Lost(f) <= kbCrashes

\* Not kept by the code (see OneLostPerCrash): all records whose append has
\* returned are found.
AllFound == \A f \in JsonFiles : Lost(f) = 0

\* The trace of a robot tells of no adaptation of a template before its
\* inheritance, however inheritances by several robots interleave; only a
\* crash or an error can spoil the first line of the two.
InheritedFirst ==
  kbCrashes = 0 =>
    \A r \in KbRobots : \A i \in Trace(r) :
      RecordAt("lineage", i).type = "tuned" =>
        \E k \in Trace(r) :
          /\ k < i /\ RecordAt("lineage", k).type = "inherited"
          /\ RecordAt("lineage", k).template = RecordAt("lineage", i).template

\* A template the lineage says was exported can be loaded, unless a later
\* export of the same id was cut off.
ExportedIsThere ==
  \A i \in Found("lineage") :
    LET r == RecordAt("lineage", i)
    IN  r.type = "exported" =>
          kbTemplate[r.template] = "whole" \/ <<"template", r.template>> \in kbBroken

\* A model the zoo lists has its binary, of the version listed, unless it was
\* published again under the same name and that was cut off.
ListedIsWhole ==
  \A m \in Models : kbMeta[m] > 0 => kbBin[m] = kbMeta[m] \/ <<"model", m>> \in kbBroken

\* What is listed and told can be relied on, crashes and all.
KnowledgeHolds ==
  OneLostPerCrash /\ InheritedFirst /\ ExportedIsThere /\ ListedIsWhole
=============================================================================

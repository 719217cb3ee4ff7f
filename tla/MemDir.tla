------------------------------- MODULE MemDir -------------------------------
(***************************************************************************)
(* The file memories of the agent: Markdown files in one directory, their  *)
(* index MEMORY.md, the write plans of the LLM and recall.                 *)
(*                                                                         *)
(* A start of the agent and a consolidation at the end of a cycle are      *)
(* sequences of file operations.  Each of them may fail, which the agent   *)
(* swallows: a start or the refresh of a cycle ends there, a plan goes on  *)
(* with its next item.  A crash may end them after any operation.  Both    *)
(* may happen within one, since write_text empties a file before it fills  *)
(* it.  A person may edit the safety file between two operations, also     *)
(* while the answer of the LLM is awaited.                                 *)
(***************************************************************************)
EXTENDS Integers, Sequences, FiniteSets

CONSTANTS
  MaxName,           \* file names, in their sorted order, are 1..MaxName
  Identity, Safety,  \* robot_identity.md and safety_gotcha.md
  MaxIndexLines,     \* MAX_INDEX_LINES
  MaxIndexBytes,     \* MAX_INDEX_BYTES, in short index entries
  ScanLimit,         \* headers scan_memory_headers reads at most
  Extra,             \* files recalled beside the pinned ones, 3
  RecallBudget,      \* max_chars of a recall, in units of about 600
  PlanKinds,         \* bound: kinds of files in a plan
  MaxItems,          \* bound: deletes and upserts of a plan
  MaxFailures        \* bound: operations that fail, or that a crash ends

ASSUME MemDirAssumption ==
  /\ MaxName \in Nat /\ Identity \in 1..MaxName /\ Safety \in 1..MaxName
  /\ Identity < Safety
  /\ MaxIndexLines \in Nat /\ MaxIndexLines >= 8
  /\ MaxIndexBytes \in Nat /\ MaxIndexBytes >= 4
  /\ ScanLimit \in Nat /\ Extra \in Nat /\ RecallBudget \in Nat
  /\ PlanKinds \subseteq {"llm", "llm_long", "llm_bracket"}
  /\ MaxItems \in Nat /\ MaxFailures \in Nat

VARIABLES
  files,    \* who wrote what each file holds; "absent", "torn"
  index,    \* entries of MEMORY.md in order
  agentUp,  \* the agent has started, or is starting
  ops,      \* the file operations of the start, cycle or plan in progress
  done,     \* how many of them are done
  plan,     \* history: the plan the LLM answered the last cycle with
  failures, \* operations that have not come to their end
  missed,   \* history: files whose last write or delete has failed
  order     \* history: "kept"; "short" when a failure has left the index
            \* without one of its first two entries; "lost" when a plan put
            \* an entry into such an index

mdVars == <<files, index, agentUp, ops, done, plan, failures, missed, order>>
-----------------------------------------------------------------------------
Names  == 1..MaxName
Pinned == {Identity, Safety}

\* "llm_long": a plan's file with a description and a hook of 1200 characters
\* and more, which nothing but the answer's 500 tokens limits; "llm_bracket":
\* one with a closing bracket in its title.
PlanContents == {"llm", "llm_long", "llm_bracket"}
Contents == {"absent", "torn", "generated", "template", "human"} \cup PlanContents
NoPlan == [deletes |-> <<>>, upserts |-> <<>>]

MdInit == /\ files = [n \in Names |-> "absent"] /\ index = <<>>
          /\ agentUp = FALSE /\ ops = <<>> /\ done = 0 /\ plan = NoPlan
          /\ failures = 0 /\ missed = {} /\ order = "kept"

\* A header of five lines (counted also when a crash has torn it), then
\* entries with a blank line between them.
LinesOf(s) == IF s = <<>> THEN 5 ELSE 4 + 2 * Len(s)
BytesOf(s) == Len(s) + Cardinality({i \in DOMAIN s : s[i].long})

\* _truncate_index: whole entries are cut from the end.
Fits(s) == LinesOf(s) <= MaxIndexLines /\ BytesOf(s) <= MaxIndexBytes
Truncate(s) ==
  SubSeq(s, 1, CHOOSE k \in 0..Len(s) :
    Fits(SubSeq(s, 1, k)) /\ \A j \in (k + 1)..Len(s) : ~Fits(SubSeq(s, 1, j)))

\* The pattern an entry is found by allows no closing bracket in a title.
Matches(e, name) == e.name = name /\ ~e.bracket

UpsertEntry_Appends(s, e) == Truncate(Append(s, e))   \* mutant

\* upsert_index_entry: in place if an entry of the file is found, else at the
\* end.
UpsertEntry(s, e) ==
  Truncate(IF \E i \in DOMAIN s : Matches(s[i], e.name)
             THEN [i \in DOMAIN s |-> IF Matches(s[i], e.name) THEN e ELSE s[i]]
             ELSE Append(s, e))

(* File operations                                                         *)
WriteOp(n, c)   == [op |-> "write", name |-> n, content |-> c]
CreateOp(n, c)  == [op |-> "create", name |-> n, content |-> c]
DeleteOp(n)     == [op |-> "delete", name |-> n, content |-> "absent"]
IndexOp(n, c)   == [op |-> "index", name |-> n, content |-> c]
SkipOp          == [op |-> "skip", name |-> Identity, content |-> "absent"]
AskOp           == [op |-> "ask", name |-> Identity, content |-> "absent"]

EntryOf(o) == [name |-> o.name, long |-> o.content = "llm_long",
               bracket |-> o.content = "llm_bracket"]

\* What an operation makes of the files and of the index.
FilesAfter(o) ==
  IF o.op \in {"write", "delete"} \/ (o.op = "create" /\ files[o.name] = "absent")
    THEN [files EXCEPT ![o.name] = o.content] ELSE files
IndexAfter(o) == IF o.op = "index" THEN UpsertEntry(index, EntryOf(o)) ELSE index

\* What an operation that fails, or that a crash ends, may leave of them: the
\* file it writes empty, or the first lines of the index.
FilesTornBy(o) ==
  IF o.op = "write" \/ (o.op = "create" /\ files[o.name] = "absent")
    THEN [files EXCEPT ![o.name] = "torn"] ELSE files
IndexesTornBy(o) ==
  IF o.op = "index" THEN {SubSeq(IndexAfter(o), 1, k) : k \in 0..Len(IndexAfter(o))}
                    ELSE {index}

\* ensure_robot_identity_memory and ensure_safety_gotcha_memory
SafetyOps_Overwrites ==   \* mutant
  <<WriteOp(Safety, "template"), IndexOp(Safety, "template")>>
IdentityOps == <<WriteOp(Identity, "generated"), IndexOp(Identity, "generated")>>
SafetyOps == <<CreateOp(Safety, "template"), IndexOp(Safety, "template")>>
EnsureOps == IdentityOps \o SafetyOps

\* Plans of the LLM: names are sanitized to Names, so different titles may
\* mean one file; an upsert without a title or a body is skipped.
Blank   == [name |-> Identity, content |-> "blank"]
Upserts == [name : Names, content : PlanKinds] \cup {Blank}
UpTo(S, n) == UNION {[1..k -> S] : k \in 0..n}
Plans ==
  UNION {[deletes : UpTo(Names, k), upserts : UpTo(Upserts, MaxItems - k)] :
         k \in 0..MaxItems}

DeleteOps(p) == [i \in DOMAIN p.deletes |-> DeleteOp(p.deletes[i])]

\* Two operations for each upsert.
UpsertOp(u, first) ==
  IF u.content = "blank" THEN SkipOp
  ELSE IF first THEN WriteOp(u.name, u.content) ELSE IndexOp(u.name, u.content)
UpsertOps(p) ==
  [i \in 1..(2 * Len(p.upserts)) |->
     UpsertOp(p.upserts[(i + 1) \div 2], i % 2 = 1)]

\* extract_and_apply
PlanOps(p) == DeleteOps(p) \o UpsertOps(p)
-----------------------------------------------------------------------------
AtRest == done = Len(ops)

Run(seq) == ops' = seq /\ done' = 0 /\ missed' = {}

StartAgent == /\ ~agentUp /\ agentUp' = TRUE
              /\ Run(EnsureOps) /\ plan' = NoPlan
              /\ UNCHANGED <<files, index, failures, order>>

Consolidate == /\ agentUp /\ AtRest
               /\ Run(EnsureOps \o <<AskOp>>) /\ plan' = NoPlan
               /\ UNCHANGED <<files, index, agentUp, failures, order>>

NextOp == ops[done + 1]
Ensures(o) == o.content \in {"generated", "template"}

\* The history of the index, when it becomes s.
OrderAfter(s, failed) ==
  CASE order = "lost" -> "lost"
    [] order = "short" /\ NextOp.op = "index" /\ ~Ensures(NextOp) -> "lost"
    [] OTHER -> IF Len(s) >= 2 THEN "kept" ELSE IF failed THEN "short" ELSE order

DoOp == /\ ~AtRest /\ NextOp.op # "ask"
        /\ files' = FilesAfter(NextOp) /\ index' = IndexAfter(NextOp)
        /\ done' = done + 1
        /\ missed' = IF NextOp.op \in {"write", "delete"}
                       THEN missed \ {NextOp.name} ELSE missed
        /\ order' = OrderAfter(index', FALSE)
        /\ UNCHANGED <<agentUp, ops, plan, failures>>

\* Files and index where the next operation does not come to its end.
Interrupted == /\ failures < MaxFailures /\ failures' = failures + 1
               /\ \/ UNCHANGED <<files, index>>
                  \/ /\ files' = FilesTornBy(NextOp)
                     /\ index' \in IndexesTornBy(NextOp)

\* The operation after one that has failed: a start is over, a cycle asks the
\* LLM, and a plan goes on, without the index entry of a file not written.
AfterFailure(o) ==
  IF Ensures(o) THEN Len(EnsureOps)
  ELSE IF o.op = "write" THEN done + 2 ELSE done + 1

FailOp == /\ ~AtRest /\ NextOp.op \notin {"ask", "skip"}
          /\ Interrupted
          /\ done' = AfterFailure(NextOp)
          /\ missed' = IF NextOp.op \in {"write", "delete"}
                         THEN missed \cup {NextOp.name} ELSE missed
          /\ order' = OrderAfter(index', TRUE)
          /\ UNCHANGED <<agentUp, ops, plan>>

\* An unavailable LLM, or one whose answer fails, changes no file: it is as
\* one that answers with NoPlan.
Answer(p) == /\ ~AtRest /\ NextOp.op = "ask"
             /\ Run(PlanOps(p)) /\ plan' = p
             /\ UNCHANGED <<files, index, agentUp, failures, order>>

CrashAgent ==
  /\ agentUp /\ agentUp' = FALSE /\ Run(<<>>) /\ plan' = NoPlan
  /\ \/ UNCHANGED <<files, index, failures, order>>
     \/ /\ ~AtRest /\ Interrupted
        /\ order' = OrderAfter(index', FALSE)

\* A person writes the safety boundaries.
EditSafety == /\ files[Safety] # "human"
              /\ files' = [files EXCEPT ![Safety] = "human"]
              /\ UNCHANGED <<index, agentUp, ops, done, plan, failures, missed, order>>

MdNext == \/ StartAgent \/ Consolidate \/ DoOp \/ FailOp \/ \E p \in Plans : Answer(p)
          \/ CrashAgent \/ EditSafety

MdSpec == MdInit /\ [][MdNext]_mdVars
-----------------------------------------------------------------------------
(* build_recall_context                                                    *)
Present == {n \in Names : files[n] # "absent"}
Scanned == {n \in Present : Cardinality({m \in Present : m < n}) < ScanLimit}

\* The other files a query may select, and the units of text before the
\* excerpt of the safety file: long descriptions, then the identity record.
Selections ==
  LET others == Scanned \ Pinned
  IN  {s \in SUBSET others :
         Cardinality(s) = IF Cardinality(others) <= Extra
                            THEN Cardinality(others) ELSE Extra}
TextBefore(sel) ==
  2 * Cardinality({n \in sel \cup (Scanned \cap Pinned) : files[n] = "llm_long"})
  + (IF Identity \in Scanned /\ files[Identity] # "torn" THEN 2 ELSE 0)

SafetyRecalled == /\ Safety \in Scanned
                  /\ \A sel \in Selections : TextBefore(sel) < RecallBudget
-----------------------------------------------------------------------------
(* Properties                                                              *)

MdTypeOK ==
  /\ files \in [Names -> Contents]
  /\ index \in Seq([name : Names, long : BOOLEAN, bracket : BOOLEAN])
  /\ Fits(index)
  /\ agentUp \in BOOLEAN /\ done \in 0..Len(ops)
  /\ failures \in 0..MaxFailures /\ missed \subseteq Names
  /\ order \in {"kept", "short", "lost"}

\* The index holds at most one entry of a file that it is found by, whatever
\* failed or crashed.  While the agent runs and no operation is in progress,
\* the two pinned files come first, so no later entry, however long or however
\* many, pushes them out, whatever a crash left of the index before; unless a
\* plan has given the identity file a title that its entry is not found by.
\* When a failure has kept them out, a later start or cycle puts them there
\* again, unless a plan has put another entry into the index before.
PinnedStayIndexed ==
  /\ \A i, j \in DOMAIN index :
       i < j /\ ~index[i].bracket => ~Matches(index[j], index[i].name)
  /\ agentUp /\ AtRest /\ order = "kept" =>
       /\ Len(index) >= 2 /\ index[1].name = Identity
       /\ ~index[1].bracket => index[2].name = Safety

\* The last upsert of a file that a plan does not skip.
LastUpsert(p, u) ==
  /\ p.upserts[u].content # "blank"
  /\ \A v \in DOMAIN p.upserts :
       p.upserts[v].name = p.upserts[u].name /\ p.upserts[v].content # "blank" =>
         v <= u

\* When a plan is done, each file it names holds what its last upsert of that
\* file says, also when the plan deletes the file, the way a plan renames or
\* replaces a memory, and also when other items of the plan have failed; a
\* file that it only deletes is gone.  (A person may write the safety file
\* meanwhile.)
PlanIsApplied ==
  agentUp /\ AtRest =>
    /\ \A u \in DOMAIN plan.upserts :
         LastUpsert(plan, u) /\ plan.upserts[u].name \notin missed \cup {Safety} =>
           files[plan.upserts[u].name] = plan.upserts[u].content
    /\ \A d \in DOMAIN plan.deletes :
         \/ plan.deletes[d] \in missed \cup {Safety}
         \/ \E u \in DOMAIN plan.upserts :
              /\ plan.upserts[u].name = plan.deletes[d]
              /\ plan.upserts[u].content # "blank"
         \/ files[plan.deletes[d]] = "absent"

\* No memory is missing that a start or a plan has put there.
MemoriesStay == PinnedStayIndexed /\ PlanIsApplied

\* memdir.py:345: starts, restarts after a crash and consolidations leave a
\* safety file written by a person alone, crashes included, unless the plan
\* that is applied names it.
OnlyPlansTouchSafety ==
  [][files[Safety] = "human" /\ files'[Safety] # "human" =>
       \/ \E i \in DOMAIN plan.deletes : plan.deletes[i] = Safety
       \/ \E i \in DOMAIN plan.upserts : plan.upserts[i].name = Safety]_mdVars

\* Not kept by the code (an entry whose title has a bracket is never found):
\* memdir.py:128 "Upsert a one-line entry for filename in MEMORY.md."
OneEntryPerFile ==
  \A i, j \in DOMAIN index : index[i].name = index[j].name => i = j

\* Not kept by the code (the scan and the text are cut off):
\* docs/memory-system-design.md:149 "Always includes safety_gotcha.md if present."
SafetyAlwaysRecalled == agentUp /\ Safety \in Present => SafetyRecalled

\* Not kept by the code (a plan may name the file):
\* docs/memory-system-design.md:64 "The file is human-maintained thereafter
\* (the program does not overwrite it)".
HumanSafetyKept == [][files[Safety] = "human" => files'[Safety] = "human"]_mdVars
=============================================================================

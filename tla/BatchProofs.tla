---------------------------- MODULE BatchProofs ----------------------------
(***************************************************************************)
(* Theorems about module OltpBatch, for every set of tables, any number of *)
(* rows, retries and crashes, any life of a row, and every lookback that   *)
(* covers the longest transaction.                                         *)
(***************************************************************************)
EXTENDS OltpBatch, FiniteSetTheorems, WellFoundedInduction, TLAPS

-----------------------------------------------------------------------------
(***************************************************************************)
(* Least and greatest numbers of a set.                                    *)
(***************************************************************************)

\* Every nonempty set of natural numbers has a least member.
LEMMA LeastNatural ==
    ASSUME NEW T \in SUBSET Nat, T # {}
    PROVE  \E x \in T : \A y \in T : x <= y
<1> DEFINE R == {ss \in Nat \X Nat : ss[1] < ss[2]}
<1>1. IsWellFoundedOn(R, Nat)
  BY NatLessThanWellFounded DEF OpToRel
<1>2. PICK x \in T : \A y \in T : <<y, x>> \notin R
  <2> HIDE DEF R
  <2> QED BY <1>1, WFMin
<1>3. ASSUME NEW y \in T PROVE x <= y
  <2>1. <<y, x>> \in Nat \X Nat /\ <<y, x>>[1] = y /\ <<y, x>>[2] = x
    OBVIOUS
  <2>2. ~(y < x)
    BY <1>2, <2>1
  <2> QED BY <2>2
<1> QED BY <1>3

\* A bounded one has a greatest.
LEMMA GreatestNatural ==
    ASSUME NEW T \in SUBSET Nat, T # {},
           NEW b \in Nat, \A x \in T : x <= b
    PROVE  \E x \in T : \A y \in T : y <= x
<1> DEFINE Gaps == {b - x : x \in T}
<1>1. Gaps \in SUBSET Nat /\ Gaps # {}
  <2>1. \A x \in T : b - x \in Nat
    OBVIOUS
  <2>2. PICK x \in T : TRUE
    OBVIOUS
  <2>3. b - x \in Gaps
    OBVIOUS
  <2> QED BY <2>1, <2>3
<1>2. PICK g \in Gaps : \A h \in Gaps : g <= h
  <2> HIDE DEF Gaps
  <2> QED BY <1>1, LeastNatural
<1>3. PICK x \in T : g = b - x
  OBVIOUS
<1>4. ASSUME NEW y \in T PROVE y <= x
  <2>1. b - x <= b - y
    BY <1>2, <1>3
  <2>2. x \in Nat /\ y \in Nat
    OBVIOUS
  <2> HIDE DEF Gaps
  <2> QED BY <2>1, <2>2
<1> QED BY <1>4

-----------------------------------------------------------------------------
(***************************************************************************)
(* Types.                                                                  *)
(***************************************************************************)

\* The rows of a table, and those a layer holds, are finitely many.
LEMMA RowsFinite == IsFiniteSet(Rows)
<1>1. PICK last \in Rows : \A r \in Rows : r <= last
  BY BatchAssumption
<1>2. Rows \subseteq 1 .. last /\ IsFiniteSet(1 .. last)
  BY <1>1, BatchAssumption, FS_Interval
<1> QED BY <1>2, FS_Subset

\* Their number is a natural number.
LEMMA HeldCount == \A content : Cardinality(Held(content)) \in Nat
BY RowsFinite, FS_Subset, FS_CardinalityType DEF Held

\* What stands for nothing has its type.
LEMMA AbsentType ==
    /\ Absent \in Versions
    /\ NoMark \in Marks
    /\ NoRows \in [Tables -> Contents]
    /\ NoFiles \in [rows : Contents, listed : Nat, empty : BOOLEAN]
BY BatchAssumption DEF Absent, NoMark, NoRows, NoFiles, Versions, Marks, Contents

\* The watermark of a table that has rows is one of its rows, and none is newer.
LEMMA HighWatermarkRow ==
    ASSUME TypeOK, NEW t \in Tables, Held(source[t]) # {}
    PROVE  \E last \in Held(source[t]) :
              /\ HighWatermark(t) = [at |-> source[t][last].at, pk |-> last]
              /\ \A u \in Held(source[t]) : source[t][u].at <= source[t][last].at
<1> DEFINE H == Held(source[t])
           Newest == {r \in H : \A u \in H : source[t][u].at <= source[t][r].at}
           Ats == {source[t][r].at : r \in H}
<1>1. /\ H \subseteq Rows
      /\ \A r \in H : source[t][r].at \in 0 .. MaxClock
  BY DEF TypeOK, Contents, Versions, Held
<1>2. \E x \in Ats : \A y \in Ats : y <= x
  <2>1. Ats \in SUBSET Nat /\ \A x \in Ats : x <= MaxClock
    BY <1>1, BatchAssumption
  <2>2. PICK r \in H : TRUE
    OBVIOUS
  <2>3. source[t][r].at \in Ats
    OBVIOUS
  <2>4. Ats # {}
    BY <2>3
  <2> HIDE DEF Ats
  <2> QED BY <2>1, <2>4, BatchAssumption, GreatestNatural
<1>3. Newest \in SUBSET Nat /\ Newest # {}
  BY <1>1, <1>2, BatchAssumption
<1>4. PICK b \in Rows : \A r \in Newest : r <= b
  BY <1>1, BatchAssumption
<1>5. \E last \in Newest : \A u \in Newest : u <= last
  <2> HIDE DEF Newest
  <2> QED BY <1>3, <1>4, BatchAssumption, GreatestNatural
<1> DEFINE last == CHOOSE r \in Newest : \A u \in Newest : u <= r
<1>6. last \in Newest
  <2> HIDE DEF Newest
  <2> QED BY <1>5
<1>7. HighWatermark(t) = [at |-> source[t][last].at, pk |-> last]
  BY DEF HighWatermark
<1> QED
  <2> HIDE DEF last
  <2> QED BY <1>6, <1>7

\* A watermark is a mark.
LEMMA HighWatermarkType ==
    ASSUME TypeOK, NEW t \in Tables
    PROVE  HighWatermark(t) \in Marks
<1>1. CASE Held(source[t]) = {}
  BY <1>1, AbsentType DEF HighWatermark
<1>2. CASE Held(source[t]) # {}
  BY <1>2, HighWatermarkRow DEF Held, TypeOK, Contents, Versions, Marks
<1> QED BY <1>1, <1>2

\* What an extraction reads is typed, ...
LEMMA ExtractedType ==
    ASSUME TypeOK, NEW t \in Tables
    PROVE  Extracted(t) \in Contents
BY AbsentType DEF Extracted, TypeOK, Contents

\* ... what deduplication leaves of two copies of a table, ...
LEMMA DedupType ==
    ASSUME NEW a \in Contents, NEW b \in Contents
    PROVE  Dedup(a, b) \in Contents
BY DEF Dedup, Contents

\* ... and what passes validation.
LEMMA ValidType ==
    ASSUME NEW t \in Tables, NEW a \in Contents
    PROVE  Valid(t, a) \in Contents
BY AbsentType DEF Valid, Contents

\* The initial state is typed.
LEMMA InitType == Init => TypeOK
BY AbsentType, BatchAssumption DEF Init, TypeOK, NotStarted, Tasks

\* Entering a task, and starting one over or giving up.
LEMMA EnterType ==
    ASSUME NEW next \in Tasks, Enter(next)
    PROVE  /\ task' \in Tasks
           /\ step' \in [Tables -> {"todo", "bounded", "written", "loaded", "done"}]
           /\ tries' \in 1 .. MaxTries
BY BatchAssumption DEF Enter, NotStarted

\* A failed task starts over or ends the run.
LEMMA RetryType ==
    ASSUME TypeOK, RetryOrFail
    PROVE  /\ task' \in Tasks
           /\ step' \in [Tables -> {"todo", "bounded", "written", "loaded", "done"}]
           /\ tries' \in 1 .. MaxTries
<1>1. CASE tries < MaxTries
  BY <1>1, BatchAssumption DEF RetryOrFail, TypeOK, NotStarted
<1>2. CASE ~(tries < MaxTries)
  BY <1>2, EnterType DEF RetryOrFail, Tasks
<1> QED BY <1>1, <1>2

\* The shop writes the database only.
LEMMA ShopStepType == TypeOK /\ ShopStep => TypeOK'
<1> SUFFICES ASSUME TypeOK, ShopStep PROVE TypeOK'
  OBVIOUS
<1>1. CASE Tick
  BY <1>1, BatchAssumption DEF Tick, TypeOK, lake
<1>2. ASSUME NEW t \in Tables, NEW r \in Rows, Write(t, r) PROVE TypeOK'
  <2> DEFINE written == [at  |-> IF Stamps(t, r) THEN clock ELSE source[t][r].at,
                         rev |-> source[t][r].rev + 1]
  <2>2. source[t][r] \in Versions /\ clock \in 0 .. MaxClock
    BY BatchAssumption DEF TypeOK, Contents
  <2>3. written \in Versions
    BY <2>2 DEF Versions
  <2>4. pending' = [pending EXCEPT ![t][r] = written]
    BY <1>2 DEF Write
  <2>1. pending' \in [Tables -> Contents]
    <3> HIDE DEF written
    <3> QED BY <2>3, <2>4 DEF TypeOK, Contents
  <2> QED BY <1>2, <2>1 DEF Write, TypeOK, lake
<1>3. ASSUME NEW t \in Tables, NEW r \in Rows, Commit(t, r) PROVE TypeOK'
  <2>1. /\ pending' \in [Tables -> Contents]
        /\ source' \in [Tables -> Contents]
    BY <1>3, AbsentType DEF Commit, TypeOK, Contents
  <2> QED BY <1>3, <2>1 DEF Commit, TypeOK, lake
<1>4. ASSUME NEW t \in Tables, NEW r \in Rows, Rollback(t, r) PROVE TypeOK'
  <2>1. pending' \in [Tables -> Contents]
    BY <1>4, AbsentType DEF Rollback, TypeOK, Contents
  <2> QED BY <1>4, <2>1 DEF Rollback, TypeOK, lake
<1> QED BY <1>1, <1>2, <1>3, <1>4 DEF ShopStep

\* The end of a task, well or badly, and the start of a run.
LEMMA TaskEndType ==
    ASSUME TypeOK,
           \/ BeginRun \/ TaskSucceeds \/ TaskCrashes \/ ValidateLandingManifests
           \/ ManifestRejected \/ BronzeMissing \/ ReconciliationFails
    PROVE  TypeOK'
<1>1. CASE BeginRun
  <2>1. "capture" \in Tasks
    BY DEF Tasks
  <2>2. /\ marks' \in [Tables -> Marks]
        /\ landing' \in [Tables -> [rows : Contents, listed : Nat, empty : BOOLEAN]]
    BY <1>1, AbsentType DEF BeginRun
  <2> QED BY <1>1, <2>1, <2>2, EnterType DEF BeginRun, TypeOK, db, lake
<1>2. CASE TaskSucceeds
  <2>1. After[task] \in Tasks
    BY <1>2 DEF TaskSucceeds, After, Tasks
  <2> QED BY <1>2, <2>1, EnterType DEF TaskSucceeds, TypeOK, db, lake
<1>3. CASE TaskCrashes
  BY <1>3, RetryType, BatchAssumption DEF TaskCrashes, TypeOK, db, lake
<1>4. CASE ValidateLandingManifests
  <2>1. "bronze" \in Tasks
    BY DEF Tasks
  <2> QED BY <1>4, <2>1, EnterType DEF ValidateLandingManifests, TypeOK, db, lake
<1>5. CASE \E running \in Tasks : Raises(running)
  BY <1>5, RetryType DEF Raises, TypeOK, db, lake
<1>6. ManifestRejected \/ BronzeMissing \/ ReconciliationFails
          => \E running \in Tasks : Raises(running)
  BY DEF ManifestRejected, BronzeMissing, ReconciliationFails, Tasks
<1> QED BY <1>1, <1>2, <1>3, <1>4, <1>5, <1>6

\* A task's work on one table.
LEMMA DoesType ==
    ASSUME TypeOK, NEW running, NEW t \in Tables, NEW from,
           NEW to \in {"todo", "bounded", "written", "loaded", "done"},
           Does(running, t, from, to)
    PROVE  /\ step' \in [Tables -> {"todo", "bounded", "written", "loaded", "done"}]
           /\ UNCHANGED <<clock, pending, source, task, tries, failures>>
BY DEF Does, TypeOK, db

\* The workers of the extraction keep the types, ...
LEMMA ExtractType ==
    ASSUME TypeOK, NEW t \in Tables,
           ExtractBounds(t) \/ WriteFiles(t) \/ WriteManifest(t)
    PROVE  TypeOK'
<1> DEFINE Files == [rows : Contents, listed : Nat, empty : BOOLEAN]
<1>1. /\ step' \in [Tables -> {"todo", "bounded", "written", "loaded", "done"}]
      /\ UNCHANGED <<clock, pending, source, task, tries, failures>>
      /\ UNCHANGED <<cursor, marks, lake>>
  BY DoesType DEF ExtractBounds, WriteFiles, WriteManifest
<1>2. landing \in [Tables -> Files]
  BY DEF TypeOK
<1>3. CASE ExtractBounds(t)
  <2>1. landing' \in [Tables -> Files]
    BY <1>2, <1>3, AbsentType DEF ExtractBounds
  <2> QED BY <1>1, <2>1 DEF TypeOK, lake
<1>4. CASE WriteFiles(t)
  <2>1. landing' \in [Tables -> Files]
    BY <1>2, <1>4, ExtractedType DEF WriteFiles
  <2> QED BY <1>1, <2>1 DEF TypeOK, lake
<1>5. CASE WriteManifest(t)
  <2>1. landing' \in [Tables -> Files]
    BY <1>2, <1>5, HeldCount DEF WriteManifest
  <2> QED BY <1>1, <2>1 DEF TypeOK, lake
<1> QED BY <1>3, <1>4, <1>5

\* ... and so do the loops over the tables, ...
LEMMA LoadType ==
    ASSUME TypeOK, NEW t \in Tables,
           \/ IngestToBronze(t) \/ MarkBronzeComplete(t) \/ CommitCursor(t)
           \/ MergeSilver(t) \/ ReconcileTable(t) \/ PublishGold(t)
    PROVE  TypeOK'
<1>1. /\ step' \in [Tables -> {"todo", "bounded", "written", "loaded", "done"}]
      /\ UNCHANGED <<clock, pending, source, task, tries, failures, marks, landing>>
  BY DoesType DEF IngestToBronze, MarkBronzeComplete, CommitCursor, MergeSilver,
                  ReconcileTable, PublishGold
<1>2. CASE IngestToBronze(t)
  <2>1. Dedup(bronze[t], landing[t].rows) \in Contents
    BY DedupType DEF TypeOK
  <2> QED BY <1>1, <1>2, <2>1 DEF IngestToBronze, TypeOK
<1>3. CASE MarkBronzeComplete(t) \/ ReconcileTable(t)
  BY <1>1, <1>3 DEF MarkBronzeComplete, ReconcileTable, TypeOK, lake
<1>4. CASE CommitCursor(t)
  <2>1. cursor' \in [Tables -> Marks]
    BY <1>4 DEF CommitCursor, TypeOK
  <2> QED BY <1>1, <1>4, <2>1 DEF CommitCursor, TypeOK, lake
<1>5. CASE MergeSilver(t)
  <2>1. Dedup(silver[t], Valid(t, bronze[t])) \in Contents
    BY DedupType, ValidType DEF TypeOK
  <2> QED BY <1>1, <1>5, <2>1 DEF MergeSilver, TypeOK
<1>6. CASE PublishGold(t)
  BY <1>1, <1>6 DEF PublishGold, TypeOK
<1> QED BY <1>2, <1>3, <1>4, <1>5, <1>6

\* ... and the capture of the watermarks.
LEMMA CaptureType == TypeOK /\ CaptureHighWatermarks => TypeOK'
<1> SUFFICES ASSUME TypeOK, CaptureHighWatermarks PROVE TypeOK'
  OBVIOUS
<1>1. marks' \in [Tables -> Marks]
  BY HighWatermarkType DEF CaptureHighWatermarks
<1>2. "extract" \in Tasks
  BY DEF Tasks
<1> QED BY <1>1, <1>2, EnterType DEF CaptureHighWatermarks, TypeOK, db, lake

\* Every step keeps the types.
LEMMA StepType == TypeOK /\ [Next]_vars => TypeOK'
<1> SUFFICES ASSUME TypeOK, [Next]_vars PROVE TypeOK'
  OBVIOUS
<1>1. CASE UNCHANGED vars
  BY <1>1 DEF vars, TypeOK
<1> QED BY <1>1, ShopStepType, TaskEndType, ExtractType, LoadType, CaptureType
        DEF Next, PipelineStep

\* Every table, file and layer keeps its type (extract.py, bronze.py, writer.py).
THEOREM BatchTypeCorrect == Spec => []TypeOK
<1>1. TypeOK /\ [Next]_vars => TypeOK'
  BY StepType
<1> QED BY InitType, <1>1, PTL DEF Spec

-----------------------------------------------------------------------------
(***************************************************************************)
(* The inductive invariant.                                                *)
(***************************************************************************)

\* What a layer holds is Absent or has a stamp.
Proper(v) == v.at = 0 => v = Absent

\* Version v of a row is w or was written before it.
Precedes(v, w) == v.at <= w.at /\ v.rev <= w.rev

\* Committed versions are not of the future, revisions are stamped in their
\* order, and a transaction that stamps ends within MaxDelay.
StampsInv ==
    \A t \in Tables, r \in Rows :
        /\ Proper(source[t][r])
        /\ source[t][r].at <= clock
        /\ pending[t][r] # Absent =>
              /\ pending[t][r].at \in 1 .. clock
              /\ pending[t][r].rev = source[t][r].rev + 1
              /\ Precedes(source[t][r], pending[t][r])
              /\ t \in Restamped => clock <= pending[t][r].at + MaxDelay

\* No layer is ahead of the one it is filled from.
LayersInv ==
    \A t \in Tables, r \in Rows :
        /\ Precedes(bronze[t][r], source[t][r])
        /\ Precedes(silver[t][r], bronze[t][r])
        /\ Precedes(gold[t][r], silver[t][r])
        /\ Proper(bronze[t][r]) /\ Proper(silver[t][r])

\* The files of the run hold versions between Bronze's and the source's.
FilesInv ==
    \A t \in Tables, r \in Rows :
        /\ Proper(landing[t].rows[r])
        /\ Precedes(landing[t].rows[r], source[t][r])
        /\ landing[t].rows[r] # Absent => Precedes(bronze[t][r], landing[t].rows[r])

\* A table that has a mark has, from then on, a row at least as new.
Reached(t, mark) ==
    mark # NoMark => \E r \in Rows : source[t][r].at >= mark.at

MarksInv ==
    \A t \in Tables :
        /\ marks[t].at <= clock
        /\ Reached(t, cursor[t]) /\ Reached(t, marks[t])
        /\ marks[t] # NoMark => cursor[t].at <= marks[t].at

\* A version that Bronze does not hold and that the run's mark, once it becomes
\* the cursor, leaves behind: this run has to bring it.
Due(t, r) ==
    /\ source[t][r].rev > bronze[t][r].rev
    /\ source[t][r].at + Lookback < marks[t].at

\* The extraction has read table t, and has listed what it read.
FilesRead(t) ==
    \/ task = "extract" /\ step[t] \in {"written", "done"}
    \/ task \in {"validate", "bronze"}
FilesListed(t) ==
    \/ task = "extract" /\ step[t] = "done"
    \/ task \in {"validate", "bronze"}

DueInv ==
    \A t \in Restamped, r \in Rows :
        Due(t, r) =>
            /\ FilesRead(t) => landing[t].rows[r] = source[t][r]
            /\ FilesListed(t) => ~landing[t].empty
            /\ task = "bronze" => step[t] = "todo"
            /\ task # "commit"

MergedInv ==
    \A t \in Tables, r \in Rows :
        task \in {"reconcile", "gold"} \/ (task = "silver" /\ step[t] = "done")
            => Valid(t, bronze[t])[r].rev <= silver[t][r].rev

BatchInv ==
    /\ TypeOK /\ StampsInv /\ LayersInv /\ FilesInv /\ MarksInv
    /\ DueInv /\ NothingSkipped /\ MergedInv

-----------------------------------------------------------------------------
(***************************************************************************)
(* What the steps leave alone.                                             *)
(***************************************************************************)

\* The bounds are numbers, and the lookback covers every transaction.
LEMMA Bounds ==
    Lookback \in Nat /\ MaxDelay \in Nat /\ MaxClock \in Nat /\ MaxDelay <= Lookback
BY BatchAssumption, LookbackCoversCommits

\* Cursor values and revisions are natural numbers.
LEMMA Numbers ==
    ASSUME TypeOK, NEW t \in Tables, NEW r \in Rows
    PROVE  /\ clock \in Nat
           /\ source[t][r].at \in Nat /\ source[t][r].rev \in Nat
           /\ pending[t][r].at \in Nat /\ pending[t][r].rev \in Nat
           /\ bronze[t][r].at \in Nat /\ bronze[t][r].rev \in Nat
           /\ silver[t][r].at \in Nat /\ silver[t][r].rev \in Nat
           /\ gold[t][r].at \in Nat /\ gold[t][r].rev \in Nat
           /\ landing[t].rows[r].at \in Nat /\ landing[t].rows[r].rev \in Nat
           /\ cursor[t].at \in Nat /\ marks[t].at \in Nat
<1>1. /\ source[t][r] \in Versions /\ pending[t][r] \in Versions
      /\ bronze[t][r] \in Versions /\ silver[t][r] \in Versions
      /\ gold[t][r] \in Versions /\ landing[t].rows[r] \in Versions
  BY DEF TypeOK, Contents
<1>2. cursor[t] \in Marks /\ marks[t] \in Marks /\ clock \in Nat
  BY Bounds DEF TypeOK
<1>3. \A v \in Versions : v.at \in Nat /\ v.rev \in Nat
  BY Bounds DEF Versions
<1>4. \A m \in Marks : m.at \in Nat
  BY Bounds DEF Marks
<1> QED BY <1>1, <1>2, <1>3, <1>4

\* The shop writes nothing of the lake.
LEMMA ShopFrame ==
    ShopStep => UNCHANGED <<cursor, task, step, tries, failures, marks, landing,
                            bronze, silver, gold>>
BY DEF ShopStep, Tick, Write, Commit, Rollback, lake

\* The pipeline writes nothing of the shop.
LEMMA PipelineFrame == PipelineStep \/ TaskCrashes => UNCHANGED db
<1>1. ASSUME NEW running, Raises(running) PROVE UNCHANGED db
  BY <1>1 DEF Raises
<1>2. ASSUME NEW running, NEW t, NEW from, NEW to, Does(running, t, from, to)
      PROVE  UNCHANGED db
  BY <1>2 DEF Does
<1>3. ManifestRejected \/ BronzeMissing \/ ReconciliationFails => UNCHANGED db
  BY <1>1 DEF ManifestRejected, BronzeMissing, ReconciliationFails
<1>4. ASSUME NEW t \in Tables,
             \/ ExtractBounds(t) \/ WriteFiles(t) \/ WriteManifest(t)
             \/ IngestToBronze(t) \/ MarkBronzeComplete(t) \/ CommitCursor(t)
             \/ MergeSilver(t) \/ ReconcileTable(t) \/ PublishGold(t)
      PROVE  UNCHANGED db
  BY <1>2, <1>4 DEF ExtractBounds, WriteFiles, WriteManifest, IngestToBronze,
                    MarkBronzeComplete, CommitCursor, MergeSilver, ReconcileTable,
                    PublishGold
<1>5. BeginRun \/ CaptureHighWatermarks \/ ValidateLandingManifests
          \/ TaskSucceeds \/ TaskCrashes => UNCHANGED db
  BY DEF BeginRun, CaptureHighWatermarks, ValidateLandingManifests, TaskSucceeds,
         TaskCrashes
<1> QED BY <1>3, <1>4, <1>5 DEF PipelineStep

\* The end of a task leaves the lake alone.
TaskEnd ==
    \/ TaskSucceeds \/ TaskCrashes \/ ValidateLandingManifests
    \/ ManifestRejected \/ BronzeMissing \/ ReconciliationFails

\* The end of a task writes neither.
LEMMA TaskEndFrame ==
    TaskEnd => UNCHANGED <<clock, pending, source, cursor, marks, landing,
                           bronze, silver, gold>>
BY DEF TaskEnd, TaskSucceeds, TaskCrashes, ValidateLandingManifests,
       ManifestRejected, BronzeMissing, ReconciliationFails, Raises, db, lake

\* A row of the source stays or becomes the pending version.
LEMMA SourceMoves ==
    ASSUME TypeOK, Next, NEW t \in Tables, NEW r \in Rows
    PROVE  \/ source'[t][r] = source[t][r]
           \/ /\ pending[t][r] # Absent
              /\ source'[t][r] = pending[t][r]
              /\ clock' = clock
<1>1. CASE PipelineStep \/ TaskCrashes
  BY <1>1, PipelineFrame DEF db
<1>2. CASE Tick
  BY <1>2 DEF Tick
<1>3. CASE \E u \in Tables, s \in Rows : Write(u, s) \/ Rollback(u, s)
  BY <1>3 DEF Write, Rollback
<1>4. ASSUME NEW u \in Tables, NEW s \in Rows, Commit(u, s)
      PROVE  \/ source'[t][r] = source[t][r]
             \/ /\ pending[t][r] # Absent
                /\ source'[t][r] = pending[t][r]
                /\ clock' = clock
  BY <1>4 DEF Commit, TypeOK, Contents
<1> QED BY <1>1, <1>2, <1>3, <1>4 DEF Next, ShopStep

-----------------------------------------------------------------------------
(***************************************************************************)
(* The parts of the invariant, one after another.                          *)
(***************************************************************************)

\* Writes, commits and the clock keep the stamps in order.
LEMMA StepStamps == BatchInv /\ Next => StampsInv'
<1> SUFFICES ASSUME BatchInv, Next, NEW t \in Tables, NEW r \in Rows
             PROVE  /\ Proper(source'[t][r])
                    /\ source'[t][r].at <= clock'
                    /\ pending'[t][r] # Absent =>
                          /\ pending'[t][r].at \in 1 .. clock'
                          /\ pending'[t][r].rev = source'[t][r].rev + 1
                          /\ Precedes(source'[t][r], pending'[t][r])
                          /\ t \in Restamped => clock' <= pending'[t][r].at + MaxDelay
  BY DEF StampsInv
<1> USE Bounds
<1>0. TypeOK /\ StampsInv
  BY DEF BatchInv
<1>n. clock \in Nat /\ clock >= 1 /\ source[t][r].at \in Nat /\ source[t][r].rev \in Nat
      /\ pending[t][r].at \in Nat /\ pending[t][r].rev \in Nat
  BY <1>0, Numbers DEF TypeOK
<1>s. /\ Proper(source[t][r])
      /\ source[t][r].at <= clock
      /\ pending[t][r] # Absent =>
            /\ pending[t][r].at \in 1 .. clock
            /\ pending[t][r].rev = source[t][r].rev + 1
            /\ Precedes(source[t][r], pending[t][r])
            /\ t \in Restamped => clock <= pending[t][r].at + MaxDelay
  BY <1>0 DEF StampsInv
<1>1. CASE PipelineStep \/ TaskCrashes
  BY <1>1, <1>s, PipelineFrame DEF db
<1>2. CASE Tick
  <2>1. pending[t][r] # Absent /\ t \in Restamped => clock + 1 <= pending[t][r].at + MaxDelay
    BY <1>2 DEF Tick, Stamps
  <2> QED BY <1>2, <1>n, <1>s, <2>1 DEF Tick
<1>3. ASSUME NEW u \in Tables, NEW w \in Rows, Write(u, w), pending'[t][r] # pending[t][r]
      PROVE  /\ t = u /\ r = w
             /\ pending'[t][r].at = IF Stamps(t, r) THEN clock ELSE source[t][r].at
             /\ pending'[t][r].rev = source[t][r].rev + 1
  BY <1>0, <1>3 DEF Write, TypeOK, Contents
<1>4. ASSUME NEW u \in Tables, NEW w \in Rows, Write(u, w), pending'[t][r] # pending[t][r]
      PROVE  /\ pending'[t][r].at \in 1 .. clock
             /\ Precedes(source[t][r], pending'[t][r])
             /\ t \in Restamped => clock <= pending'[t][r].at + MaxDelay
  <2>1. CASE Stamps(t, r)
    BY <1>3, <1>4, <1>n, <1>s, <2>1 DEF Precedes
  <2>2. CASE ~Stamps(t, r)
    BY <1>3, <1>4, <1>n, <1>s, <2>2 DEF Precedes, Stamps, Proper
  <2> QED BY <2>1, <2>2
<1>5. CASE \E u \in Tables, w \in Rows : Write(u, w)
  <2>1. clock' = clock /\ source' = source
    BY <1>5 DEF Write
  <2>2. CASE pending'[t][r] = pending[t][r]
    BY <1>s, <2>1, <2>2
  <2>3. CASE pending'[t][r] # pending[t][r]
    BY <1>3, <1>4, <1>5, <1>s, <2>1, <2>3
  <2> QED BY <2>2, <2>3
<1>6. ASSUME NEW u \in Tables, NEW w \in Rows, Commit(u, w)
      PROVE  /\ clock' = clock
             /\ \/ /\ source'[t][r] = source[t][r]
                   /\ pending'[t][r] = pending[t][r]
                \/ /\ pending[t][r] # Absent
                   /\ source'[t][r] = pending[t][r]
                   /\ pending'[t][r] = Absent
  BY <1>0, <1>6 DEF Commit, TypeOK, Contents
<1>7. CASE \E u \in Tables, w \in Rows : Commit(u, w)
  <2>1. CASE pending'[t][r] = pending[t][r] /\ source'[t][r] = source[t][r]
    BY <1>6, <1>7, <1>s, <2>1
  <2>2. CASE pending'[t][r] = Absent /\ source'[t][r] = pending[t][r]
    BY <1>6, <1>7, <1>s, <1>n, <2>2 DEF Proper
  <2> QED BY <1>6, <1>7, <2>1, <2>2
<1>8. ASSUME NEW u \in Tables, NEW w \in Rows, Rollback(u, w)
      PROVE  /\ clock' = clock /\ source' = source
             /\ pending'[t][r] = pending[t][r] \/ pending'[t][r] = Absent
  BY <1>0, <1>8 DEF Rollback, TypeOK, Contents
<1>9. CASE \E u \in Tables, w \in Rows : Rollback(u, w)
  BY <1>8, <1>9, <1>s
<1> QED BY <1>1, <1>2, <1>5, <1>7, <1>9 DEF Next, ShopStep

\* Commits are in the order of the stamps: a row of the source never goes back.
LEMMA SourceGrows ==
    ASSUME BatchInv, Next, NEW t \in Tables, NEW r \in Rows
    PROVE  Precedes(source[t][r], source'[t][r])
<1>1. TypeOK /\ StampsInv
  BY DEF BatchInv
<1>2. source[t][r].at \in Nat /\ source[t][r].rev \in Nat
  BY <1>1, Numbers
<1>3. pending[t][r] # Absent => Precedes(source[t][r], pending[t][r])
  BY <1>1 DEF StampsInv
<1>4. CASE source'[t][r] = source[t][r]
  BY <1>2, <1>4 DEF Precedes
<1>5. CASE pending[t][r] # Absent /\ source'[t][r] = pending[t][r]
  BY <1>3, <1>5 DEF Precedes
<1> QED BY <1>1, <1>4, <1>5, SourceMoves

\* Loading newer copies of rows, or none, keeps what was there or takes the copy.
LEMMA DedupNewer ==
    ASSUME NEW a \in Contents, NEW b \in Contents, NEW r \in Rows,
           Proper(a[r]), b[r] # Absent => Precedes(a[r], b[r])
    PROVE  Dedup(a, b)[r] = IF b[r] = Absent THEN a[r] ELSE b[r]
<1>1. a[r].at \in Nat /\ b[r].at \in Nat
  BY Bounds DEF Contents, Versions
<1>2. Dedup(a, b)[r] = IF a[r].at > b[r].at THEN a[r] ELSE b[r]
  BY DEF Dedup
<1> QED BY <1>1, <1>2 DEF Proper, Precedes, Absent

\* Validation drops a row or keeps it.
LEMMA ValidRow ==
    ASSUME NEW t \in Tables, NEW r \in Rows, NEW a \in Contents
    PROVE  Valid(t, a)[r] = Absent \/ Valid(t, a)[r] = a[r]
BY DEF Valid

\* The order of versions.
LEMMA PrecedesOrder ==
    ASSUME NEW u \in Versions, NEW v \in Versions, NEW w \in Versions
    PROVE  /\ Precedes(u, u) /\ Precedes(Absent, u)
           /\ Precedes(u, v) /\ Precedes(v, w) => Precedes(u, w)
BY Bounds DEF Precedes, Versions, Absent

\* Every row of every layer is a version.
LEMMA RowTypes ==
    ASSUME TypeOK, NEW t \in Tables, NEW r \in Rows
    PROVE  /\ source[t][r] \in Versions /\ pending[t][r] \in Versions
           /\ bronze[t][r] \in Versions /\ silver[t][r] \in Versions
           /\ gold[t][r] \in Versions /\ landing[t].rows[r] \in Versions
           /\ bronze[t] \in Contents /\ silver[t] \in Contents
           /\ landing[t].rows \in Contents
BY DEF TypeOK, Contents

\* What each step does to the files of a run.
LEMMA FilesMove ==
    ASSUME TypeOK, Next, NEW t \in Tables, NEW r \in Rows
    PROVE  \/ landing'[t].rows[r] = landing[t].rows[r]
           \/ landing'[t].rows[r] = Absent
           \/ landing'[t].rows[r] = source[t][r] /\ bronze' = bronze
<1> DEFINE Goal == \/ landing'[t].rows[r] = landing[t].rows[r]
                   \/ landing'[t].rows[r] = Absent
                   \/ landing'[t].rows[r] = source[t][r] /\ bronze' = bronze
<1>1. CASE landing' = landing
  BY <1>1
<1>2. CASE BeginRun
  BY <1>2 DEF BeginRun, NoFiles
<1>3. ASSUME NEW u \in Tables, ExtractBounds(u) PROVE Goal
  BY <1>3 DEF ExtractBounds, NoFiles, TypeOK
<1>4. ASSUME NEW u \in Tables, WriteFiles(u) PROVE Goal
  BY <1>4 DEF WriteFiles, Extracted, TypeOK, lake
<1>5. ASSUME NEW u \in Tables, WriteManifest(u) PROVE Goal
  BY <1>5 DEF WriteManifest, TypeOK
<1>6. \/ landing' = landing
      \/ BeginRun
      \/ \E u \in Tables : ExtractBounds(u) \/ WriteFiles(u) \/ WriteManifest(u)
  <2>1. CASE ShopStep
    BY <2>1, ShopFrame
  <2>2. CASE TaskEnd
    BY <2>2, TaskEndFrame
  <2>3. CASE CaptureHighWatermarks
    BY <2>3 DEF CaptureHighWatermarks
  <2>4. ASSUME NEW u \in Tables,
               \/ IngestToBronze(u) \/ MarkBronzeComplete(u) \/ CommitCursor(u)
               \/ MergeSilver(u) \/ ReconcileTable(u) \/ PublishGold(u)
        PROVE  landing' = landing
    BY <2>4 DEF IngestToBronze, MarkBronzeComplete, CommitCursor, MergeSilver,
                ReconcileTable, PublishGold
  <2> QED BY <2>1, <2>2, <2>3, <2>4 DEF Next, PipelineStep, TaskEnd
<1> QED BY <1>1, <1>2, <1>3, <1>4, <1>5, <1>6

\* Bronze keeps a row or takes the run's copy.
LEMMA BronzeMoves ==
    ASSUME BatchInv, Next, NEW t \in Tables, NEW r \in Rows
    PROVE  \/ bronze'[t][r] = bronze[t][r]
           \/ /\ bronze'[t][r] = landing[t].rows[r]
              /\ landing[t].rows[r] # Absent
              /\ landing' = landing
<1>0. TypeOK /\ LayersInv /\ FilesInv
  BY DEF BatchInv
<1>1. bronze' = bronze \/ \E u \in Tables : IngestToBronze(u)
  <2>1. CASE ShopStep
    BY <2>1, ShopFrame
  <2>2. CASE TaskEnd
    BY <2>2, TaskEndFrame
  <2>3. CASE CaptureHighWatermarks \/ BeginRun
    BY <2>3 DEF CaptureHighWatermarks, BeginRun, lake
  <2>4. ASSUME NEW u \in Tables,
               \/ ExtractBounds(u) \/ WriteFiles(u) \/ WriteManifest(u)
               \/ MarkBronzeComplete(u) \/ CommitCursor(u)
               \/ MergeSilver(u) \/ ReconcileTable(u) \/ PublishGold(u)
        PROVE  bronze' = bronze
    BY <2>4 DEF ExtractBounds, WriteFiles, WriteManifest, MarkBronzeComplete,
                CommitCursor, MergeSilver, ReconcileTable, PublishGold, lake
  <2> QED BY <2>1, <2>2, <2>3, <2>4 DEF Next, PipelineStep, TaskEnd
<1>2. ASSUME NEW u \in Tables, IngestToBronze(u), bronze'[t][r] # bronze[t][r]
      PROVE  /\ bronze'[t][r] = landing[t].rows[r]
             /\ landing[t].rows[r] # Absent
             /\ landing' = landing
  <2>1. /\ landing' = landing
        /\ bronze'[t][r] = Dedup(bronze[t], landing[t].rows)[r]
    BY <1>0, <1>2 DEF IngestToBronze, TypeOK
  <2>2. /\ Proper(bronze[t][r])
        /\ landing[t].rows[r] # Absent => Precedes(bronze[t][r], landing[t].rows[r])
    BY <1>0 DEF LayersInv, FilesInv
  <2> QED BY <1>0, <1>2, <2>1, <2>2, RowTypes, DedupNewer
<1> QED BY <1>1, <1>2

\* Silver keeps a row or takes Bronze's, and Gold keeps it or takes Silver's.
LEMMA SilverMoves ==
    ASSUME BatchInv, Next, NEW t \in Tables, NEW r \in Rows
    PROVE  /\ \/ silver'[t][r] = silver[t][r]
              \/ silver'[t][r] = bronze[t][r] /\ bronze' = bronze
           /\ \/ gold'[t][r] = gold[t][r]
              \/ gold'[t][r] = silver[t][r] /\ silver' = silver
<1>0. TypeOK /\ LayersInv
  BY DEF BatchInv
<1>1. \/ silver' = silver /\ gold' = gold
      \/ \E u \in Tables : MergeSilver(u) \/ PublishGold(u)
  <2>1. CASE ShopStep
    BY <2>1, ShopFrame
  <2>2. CASE TaskEnd
    BY <2>2, TaskEndFrame
  <2>3. CASE CaptureHighWatermarks \/ BeginRun
    BY <2>3 DEF CaptureHighWatermarks, BeginRun, lake
  <2>4. ASSUME NEW u \in Tables,
               \/ ExtractBounds(u) \/ WriteFiles(u) \/ WriteManifest(u)
               \/ IngestToBronze(u) \/ MarkBronzeComplete(u) \/ CommitCursor(u)
               \/ ReconcileTable(u)
        PROVE  silver' = silver /\ gold' = gold
    BY <2>4 DEF ExtractBounds, WriteFiles, WriteManifest, IngestToBronze,
                MarkBronzeComplete, CommitCursor, ReconcileTable, lake
  <2> QED BY <2>1, <2>2, <2>3, <2>4 DEF Next, PipelineStep, TaskEnd
<1>2. ASSUME NEW u \in Tables, PublishGold(u)
      PROVE  /\ silver' = silver
             /\ gold'[t][r] = gold[t][r] \/ gold'[t][r] = silver[t][r]
  BY <1>0, <1>2 DEF PublishGold, TypeOK
<1>3. ASSUME NEW u \in Tables, MergeSilver(u)
      PROVE  /\ bronze' = bronze /\ gold' = gold
             /\ silver'[t][r] = silver[t][r] \/ silver'[t][r] = bronze[t][r]
  <2>1. /\ bronze' = bronze /\ gold' = gold
        /\ \/ silver'[t][r] = silver[t][r]
           \/ silver'[t][r] = Dedup(silver[t], Valid(t, bronze[t]))[r]
    BY <1>0, <1>3 DEF MergeSilver, TypeOK
  <2>2. /\ Proper(silver[t][r])
        /\ Precedes(silver[t][r], bronze[t][r])
    BY <1>0 DEF LayersInv
  <2>3. Valid(t, bronze[t]) \in Contents
    BY <1>0, RowTypes, ValidType
  <2> QED BY <1>0, <2>1, <2>2, <2>3, RowTypes, ValidRow, DedupNewer
<1> QED BY <1>1, <1>2, <1>3

\* No step takes a layer ahead of the one before it.
LEMMA StepLayers == BatchInv /\ Next => LayersInv'
<1> SUFFICES ASSUME BatchInv, Next, NEW t \in Tables, NEW r \in Rows
             PROVE  /\ Precedes(bronze'[t][r], source'[t][r])
                    /\ Precedes(silver'[t][r], bronze'[t][r])
                    /\ Precedes(gold'[t][r], silver'[t][r])
                    /\ Proper(bronze'[t][r]) /\ Proper(silver'[t][r])
  BY DEF LayersInv
<1>1. TypeOK /\ TypeOK' /\ LayersInv /\ FilesInv
  BY StepType DEF BatchInv
<1>2. /\ Precedes(bronze[t][r], source[t][r])
      /\ Precedes(silver[t][r], bronze[t][r])
      /\ Precedes(gold[t][r], silver[t][r])
      /\ Proper(bronze[t][r]) /\ Proper(silver[t][r])
      /\ Proper(landing[t].rows[r])
      /\ Precedes(landing[t].rows[r], source[t][r])
      /\ landing[t].rows[r] # Absent => Precedes(bronze[t][r], landing[t].rows[r])
  BY <1>1 DEF LayersInv, FilesInv
<1>3. /\ source[t][r] \in Versions /\ source'[t][r] \in Versions
      /\ bronze[t][r] \in Versions /\ bronze'[t][r] \in Versions
      /\ silver[t][r] \in Versions /\ silver'[t][r] \in Versions
      /\ gold[t][r] \in Versions /\ landing[t].rows[r] \in Versions
  BY <1>1 DEF TypeOK, Contents
<1>4. Precedes(source[t][r], source'[t][r])
  BY SourceGrows
<1>5. Precedes(bronze[t][r], bronze'[t][r])
  BY <1>2, <1>3, BronzeMoves, PrecedesOrder
<1>6. Precedes(bronze'[t][r], source'[t][r]) /\ Proper(bronze'[t][r])
  BY <1>2, <1>3, <1>4, BronzeMoves, PrecedesOrder
<1>7. Precedes(silver[t][r], silver'[t][r])
  BY <1>2, <1>3, SilverMoves, PrecedesOrder
<1>8. Precedes(silver'[t][r], bronze'[t][r]) /\ Proper(silver'[t][r])
  <2>1. CASE silver'[t][r] = silver[t][r]
    BY <1>2, <1>3, <1>5, <2>1, PrecedesOrder
  <2>2. CASE silver'[t][r] = bronze[t][r] /\ bronze' = bronze
    BY <1>2, <1>3, <2>2, PrecedesOrder
  <2> QED BY <2>1, <2>2, SilverMoves
<1>9. Precedes(gold'[t][r], silver'[t][r])
  <2>1. CASE gold'[t][r] = gold[t][r]
    BY <1>2, <1>3, <1>7, <2>1, PrecedesOrder
  <2>2. CASE gold'[t][r] = silver[t][r] /\ silver' = silver
    BY <1>3, <2>2, PrecedesOrder
  <2> QED BY <2>1, <2>2, SilverMoves
<1> QED BY <1>6, <1>8, <1>9

\* The files stay between Bronze and the source.
LEMMA StepFiles == BatchInv /\ Next => FilesInv'
<1> SUFFICES ASSUME BatchInv, Next, NEW t \in Tables, NEW r \in Rows
             PROVE  /\ Proper(landing'[t].rows[r])
                    /\ Precedes(landing'[t].rows[r], source'[t][r])
                    /\ landing'[t].rows[r] # Absent
                          => Precedes(bronze'[t][r], landing'[t].rows[r])
  BY DEF FilesInv
<1>1. TypeOK /\ TypeOK' /\ LayersInv /\ FilesInv /\ StampsInv
  BY StepType DEF BatchInv
<1>2. /\ Precedes(bronze[t][r], source[t][r])
      /\ Proper(source[t][r])
      /\ Proper(landing[t].rows[r])
      /\ Precedes(landing[t].rows[r], source[t][r])
      /\ landing[t].rows[r] # Absent => Precedes(bronze[t][r], landing[t].rows[r])
  BY <1>1 DEF LayersInv, FilesInv, StampsInv
<1>3. /\ source[t][r] \in Versions /\ source'[t][r] \in Versions
      /\ bronze[t][r] \in Versions /\ landing[t].rows[r] \in Versions
  BY <1>1 DEF TypeOK, Contents
<1>4. Precedes(source[t][r], source'[t][r])
  BY SourceGrows
<1>5. CASE landing'[t].rows[r] = landing[t].rows[r]
  BY <1>2, <1>3, <1>4, <1>5, BronzeMoves, PrecedesOrder
<1>6. CASE landing'[t].rows[r] = Absent
  BY <1>3, <1>6, PrecedesOrder DEF Proper
<1>7. CASE landing'[t].rows[r] = source[t][r] /\ bronze' = bronze
  BY <1>2, <1>4, <1>7
<1> QED BY <1>1, <1>5, <1>6, <1>7, FilesMove

-----------------------------------------------------------------------------
(***************************************************************************)
(* Marks and cursors.                                                      *)
(***************************************************************************)

\* A mark that was reached stays so.
LEMMA ReachedStays ==
    ASSUME BatchInv, Next, NEW t \in Tables, NEW mark \in Marks, Reached(t, mark)
    PROVE  Reached(t, mark)'
<1> SUFFICES ASSUME mark # NoMark
             PROVE  \E r \in Rows : source'[t][r].at >= mark.at
  BY DEF Reached
<1>1. PICK r \in Rows : source[t][r].at >= mark.at
  BY DEF Reached
<1>2. TypeOK /\ TypeOK'
  BY StepType DEF BatchInv
<1>3. source[t][r].at \in Nat /\ source'[t][r].at \in Nat /\ mark.at \in Nat
  BY <1>2, Bounds DEF TypeOK, Contents, Versions, Marks
<1>4. source[t][r].at <= source'[t][r].at
  BY SourceGrows DEF Precedes
<1> QED BY <1>1, <1>3, <1>4

\* A watermark read now is reached, is not of the future and is not before the
\* cursor.
LEMMA HighWatermarkIsNew ==
    ASSUME BatchInv, NEW t \in Tables
    PROVE  /\ HighWatermark(t).at <= clock
           /\ Reached(t, HighWatermark(t))
           /\ HighWatermark(t) # NoMark => cursor[t].at <= HighWatermark(t).at
<1>1. TypeOK /\ StampsInv /\ Reached(t, cursor[t])
  BY DEF BatchInv, MarksInv
<1>2. clock \in Nat /\ cursor[t].at \in Nat
      /\ \A r \in Rows : source[t][r].at \in Nat
  BY <1>1, Bounds DEF TypeOK, Contents, Versions, Marks
<1>3. CASE Held(source[t]) = {}
  BY <1>2, <1>3 DEF HighWatermark, Reached, NoMark
<1>4. CASE Held(source[t]) # {}
  <2>1. PICK last \in Held(source[t]) :
            /\ HighWatermark(t) = [at |-> source[t][last].at, pk |-> last]
            /\ \A u \in Held(source[t]) : source[t][u].at <= source[t][last].at
    BY <1>1, <1>4, HighWatermarkRow
  <2>2. last \in Rows /\ HighWatermark(t).at = source[t][last].at
    BY <2>1 DEF Held
  <2>3. HighWatermark(t).at <= clock /\ Reached(t, HighWatermark(t))
    BY <1>1, <1>2, <2>2 DEF StampsInv, Reached
  <2>4. \A r \in Rows : source[t][r].at <= source[t][last].at
    BY <1>2, <2>1, <2>2 DEF Held, Absent
  <2>5. cursor[t].at <= HighWatermark(t).at
    <3>1. CASE cursor[t] = NoMark
      BY <1>2, <2>2, <3>1 DEF NoMark
    <3>2. CASE cursor[t] # NoMark
      BY <1>1, <1>2, <2>2, <2>4, <3>2 DEF Reached
    <3> QED BY <3>1, <3>2
  <2> QED BY <2>3, <2>5
<1> QED BY <1>3, <1>4

\* Marks and cursors change when a run starts, captures and commits.
LEMMA MarksMove ==
    ASSUME TypeOK, Next, NEW t \in Tables
    PROVE  /\ \/ marks'[t] = marks[t]
              \/ cursor' = cursor /\ marks'[t] = NoMark
              \/ cursor' = cursor /\ marks'[t] = HighWatermark(t) /\ source' = source
           /\ \/ cursor'[t] = cursor[t]
              \/ /\ task = "commit"
                 /\ marks[t] # NoMark
                 /\ cursor'[t] = marks[t]
                 /\ UNCHANGED <<clock, source, bronze, marks>>
<1>1. CASE ShopStep
  BY <1>1, ShopFrame
<1>2. CASE TaskEnd
  BY <1>2, TaskEndFrame
<1>3. CASE BeginRun
  BY <1>3 DEF BeginRun
<1>4. CASE CaptureHighWatermarks
  BY <1>4 DEF CaptureHighWatermarks, db
<1>5. ASSUME NEW u \in Tables,
             \/ ExtractBounds(u) \/ WriteFiles(u) \/ WriteManifest(u)
             \/ IngestToBronze(u) \/ MarkBronzeComplete(u)
             \/ MergeSilver(u) \/ ReconcileTable(u) \/ PublishGold(u)
      PROVE  marks' = marks /\ cursor' = cursor
  BY <1>5 DEF ExtractBounds, WriteFiles, WriteManifest, IngestToBronze,
              MarkBronzeComplete, MergeSilver, ReconcileTable, PublishGold
<1>6. ASSUME NEW u \in Tables, CommitCursor(u)
      PROVE  /\ UNCHANGED <<clock, source, bronze, marks>>
             /\ \/ cursor'[t] = cursor[t]
                \/ task = "commit" /\ marks[t] # NoMark /\ cursor'[t] = marks[t]
  BY <1>6 DEF CommitCursor, Does, TypeOK, db, lake
<1> QED BY <1>1, <1>2, <1>3, <1>4, <1>5, <1>6 DEF Next, PipelineStep, TaskEnd

\* The clock does not go back.
LEMMA ClockGrows ==
    ASSUME TypeOK, Next
    PROVE  clock \in Nat /\ clock' \in Nat /\ clock <= clock'
<1>1. clock \in Nat
  BY Bounds DEF TypeOK
<1>2. clock' = clock \/ clock' = clock + 1
  <2>1. CASE ShopStep
    BY <2>1 DEF ShopStep, Tick, Write, Commit, Rollback
  <2>2. CASE PipelineStep \/ TaskCrashes
    BY <2>2, PipelineFrame DEF db
  <2> QED BY <2>1, <2>2 DEF Next
<1> QED BY <1>1, <1>2

\* Every step keeps marks and cursors in their order.
LEMMA StepMarks == BatchInv /\ Next => MarksInv'
<1> SUFFICES ASSUME BatchInv, Next, NEW t \in Tables
             PROVE  /\ marks'[t].at <= clock'
                    /\ Reached(t, cursor[t])' /\ Reached(t, marks[t])'
                    /\ marks'[t] # NoMark => cursor'[t].at <= marks'[t].at
  BY DEF MarksInv
<1>1. /\ TypeOK
      /\ marks[t].at <= clock
      /\ Reached(t, cursor[t]) /\ Reached(t, marks[t])
      /\ marks[t] # NoMark => cursor[t].at <= marks[t].at
  BY DEF BatchInv, MarksInv
<1>2. /\ marks[t] \in Marks /\ cursor[t] \in Marks /\ HighWatermark(t) \in Marks
      /\ marks[t].at \in Nat /\ cursor[t].at \in Nat /\ HighWatermark(t).at \in Nat
      /\ clock \in Nat /\ clock' \in Nat /\ clock <= clock'
  <2>1. marks[t] \in Marks /\ cursor[t] \in Marks /\ HighWatermark(t) \in Marks
    BY <1>1, HighWatermarkType DEF TypeOK
  <2>2. \A m \in Marks : m.at \in Nat
    BY Bounds DEF Marks
  <2> QED BY <1>1, <2>1, <2>2, ClockGrows
<1>3. /\ HighWatermark(t).at <= clock
      /\ Reached(t, HighWatermark(t))
      /\ HighWatermark(t) # NoMark => cursor[t].at <= HighWatermark(t).at
  BY HighWatermarkIsNew
<1>4. \A m \in Marks : Reached(t, m) /\ ~(m = NoMark)
          => \E r \in Rows : source'[t][r].at >= m.at
  BY ReachedStays DEF Reached
<1>5. /\ \/ marks'[t] = marks[t]
         \/ cursor' = cursor /\ marks'[t] = NoMark
         \/ cursor' = cursor /\ marks'[t] = HighWatermark(t) /\ source' = source
      /\ \/ cursor'[t] = cursor[t]
         \/ /\ task = "commit"
            /\ marks[t] # NoMark
            /\ cursor'[t] = marks[t]
            /\ UNCHANGED <<clock, source, bronze, marks>>
  BY <1>1, MarksMove
<1>6. marks'[t].at <= clock'
  BY <1>1, <1>2, <1>3, <1>5 DEF NoMark
<1>7. Reached(t, cursor[t])'
  BY <1>1, <1>2, <1>4, <1>5 DEF Reached
<1>8. Reached(t, marks[t])'
  BY <1>1, <1>2, <1>3, <1>4, <1>5 DEF Reached
<1>9. marks'[t] # NoMark => cursor'[t].at <= marks'[t].at
  BY <1>1, <1>2, <1>3, <1>5
<1> QED BY <1>6, <1>7, <1>8, <1>9

-----------------------------------------------------------------------------
(***************************************************************************)
(* What a run has to bring.                                                *)
(***************************************************************************)

\* A version committed now is within the lookback of everything seen so far.
LEMMA CommittedIsRecent ==
    ASSUME BatchInv, Next, NEW t \in Restamped, NEW r \in Rows,
           source'[t][r] # source[t][r]
    PROVE  clock <= source'[t][r].at + Lookback
<1>1. TypeOK /\ StampsInv /\ t \in Tables
  BY BatchAssumption DEF BatchInv
<1>2. pending[t][r] # Absent /\ source'[t][r] = pending[t][r]
  BY <1>1, SourceMoves
<1>3. clock \in Nat /\ pending[t][r].at \in Nat
  BY <1>1, Numbers
<1>4. clock <= pending[t][r].at + MaxDelay
  BY <1>1, <1>2 DEF StampsInv
<1> QED BY <1>2, <1>3, <1>4, Bounds

\* Bronze never goes back to an older revision.
LEMMA RevisionsMove ==
    ASSUME BatchInv, Next, NEW t \in Tables, NEW r \in Rows
    PROVE  /\ source[t][r].rev \in Nat /\ bronze[t][r].rev \in Nat
           /\ source'[t][r].rev \in Nat /\ bronze'[t][r].rev \in Nat
           /\ source[t][r].at \in Nat /\ source'[t][r].at \in Nat
           /\ bronze[t][r].rev <= bronze'[t][r].rev
<1>1. TypeOK /\ TypeOK' /\ FilesInv
  BY StepType DEF BatchInv
<1>2. /\ source[t][r] \in Versions /\ bronze[t][r] \in Versions
      /\ source'[t][r] \in Versions /\ bronze'[t][r] \in Versions
  BY <1>1 DEF TypeOK, Contents
<1>3. \A v \in Versions : v.at \in Nat /\ v.rev \in Nat
  BY Bounds DEF Versions
<1>4. bronze[t][r].rev <= bronze'[t][r].rev
  BY <1>1, <1>2, <1>3, BronzeMoves DEF FilesInv, Precedes
<1> QED BY <1>2, <1>3, <1>4

\* While the marks stay, nothing becomes due.
LEMMA DueStays ==
    ASSUME BatchInv, Next, NEW t \in Restamped, NEW r \in Rows,
           marks' = marks, Due(t, r)'
    PROVE  Due(t, r) /\ source'[t][r] = source[t][r]
<1>1. TypeOK /\ marks[t].at <= clock /\ t \in Tables
  BY BatchAssumption DEF BatchInv, MarksInv
<1>2. marks[t].at \in Nat /\ clock \in Nat
  BY <1>1, Numbers
<1>3. /\ source'[t][r].rev > bronze'[t][r].rev
      /\ source'[t][r].at + Lookback < marks[t].at
  BY DEF Due
<1>4. source'[t][r] = source[t][r]
  BY <1>1, <1>2, <1>3, CommittedIsRecent, RevisionsMove, Bounds
<1>5. Due(t, r)
  BY <1>1, <1>3, <1>4, RevisionsMove DEF Due
<1> QED BY <1>4, <1>5

\* What is due is in the window of the extraction.
LEMMA DueInRange ==
    ASSUME BatchInv, NEW t \in Restamped, NEW r \in Rows, Due(t, r)
    PROVE  InRange(t, r)
<1>1. TypeOK /\ NothingSkipped /\ t \in Tables
  BY BatchAssumption DEF BatchInv
<1>2. /\ source[t][r].rev \in Nat /\ bronze[t][r].rev \in Nat
      /\ source[t][r].at \in Nat /\ marks[t].at \in Nat /\ cursor[t].at \in Nat
  BY <1>1, Numbers
<1>3. source[t][r] # Absent
  BY <1>2 DEF Due, Absent
<1>4. AfterLookback(source[t][r], cursor[t])
  BY <1>1, <1>2, Bounds DEF NothingSkipped, StillAhead, Due, AfterLookback
<1>5. UpToMark(r, source[t][r], marks[t])
  BY <1>2, Bounds DEF Due, UpToMark
<1> QED BY <1>3, <1>4, <1>5 DEF InRange

\* What DueInv says of one row.
DueRow(t, r) ==
    /\ FilesRead(t) => landing[t].rows[r] = source[t][r]
    /\ FilesListed(t) => ~landing[t].empty
    /\ task = "bronze" => step[t] = "todo"
    /\ task # "commit"

\* Retries and the next task keep what was read.
LEMMA TaskEndDue ==
    ASSUME BatchInv, TaskEnd, NEW t \in Restamped, NEW r \in Rows, DueRow(t, r)
    PROVE  DueRow(t, r)'
<1>0. /\ UNCHANGED <<source, landing>>
      /\ t \in Tables
  BY TaskEndFrame, BatchAssumption
<1>1. ASSUME Enter("idle") PROVE DueRow(t, r)'
  BY <1>1 DEF Enter, DueRow, FilesRead, FilesListed
<1>2. ASSUME RetryOrFail PROVE DueRow(t, r)'
  <2>1. CASE tries < MaxTries
    <3>1. task' = task /\ step'[t] = "todo"
      BY <1>0, <1>2, <2>1 DEF RetryOrFail, NotStarted
    <3> QED BY <1>0, <3>1 DEF DueRow, FilesRead, FilesListed
  <2>2. CASE ~(tries < MaxTries)
    BY <1>1, <1>2, <2>2 DEF RetryOrFail
  <2> QED BY <2>1, <2>2
<1>3. CASE TaskCrashes \/ ManifestRejected \/ BronzeMissing \/ ReconciliationFails
  BY <1>2, <1>3 DEF TaskCrashes, ManifestRejected, BronzeMissing,
                    ReconciliationFails, Raises
<1>4. CASE ValidateLandingManifests
  <2>1. task = "validate" /\ task' = "bronze" /\ step'[t] = "todo"
    BY <1>0, <1>4 DEF ValidateLandingManifests, Enter, NotStarted
  <2> QED BY <1>0, <2>1 DEF DueRow, FilesRead, FilesListed
<1>5. CASE TaskSucceeds
  <2>1. step[t] = "done" /\ task' = After[task] /\ step'[t] = "todo"
    BY <1>0, <1>5 DEF TaskSucceeds, Enter, NotStarted
  <2>2. CASE task = "extract"
    <3>1. task' = "validate"
      BY <2>1, <2>2 DEF After
    <3> QED BY <1>0, <2>1, <2>2, <3>1 DEF DueRow, FilesRead, FilesListed
  <2>3. task # "bronze" /\ task # "commit"
    BY <2>1 DEF DueRow
  <2>4. CASE task \in {"silver", "reconcile", "gold"}
    <3>1. task' \in {"reconcile", "gold", "idle"}
      BY <2>1, <2>4 DEF After
    <3> QED BY <3>1 DEF DueRow, FilesRead, FilesListed
  <2> QED BY <1>5, <2>2, <2>3, <2>4 DEF TaskSucceeds
<1> QED BY <1>3, <1>4, <1>5 DEF TaskEnd

\* A worker reads what is due and lists it.
LEMMA ExtractDue ==
    ASSUME BatchInv, NEW u \in Tables,
           ExtractBounds(u) \/ WriteFiles(u) \/ WriteManifest(u),
           NEW t \in Restamped, NEW r \in Rows, Due(t, r), DueRow(t, r)
    PROVE  DueRow(t, r)'
<1>0. TypeOK /\ t \in Tables /\ InRange(t, r)
  BY DueInRange, BatchAssumption DEF BatchInv
<1>1. task = "extract" /\ task' = "extract" /\ source' = source
  BY DEF ExtractBounds, WriteFiles, WriteManifest, Does, db
<1>2. CASE u # t
  <2>1. step'[t] = step[t] /\ landing'[t] = landing[t]
    BY <1>0, <1>2 DEF ExtractBounds, WriteFiles, WriteManifest, Does, TypeOK
  <2> QED BY <1>0, <1>1, <2>1 DEF DueRow, FilesRead, FilesListed
<1>3. CASE u = t /\ ExtractBounds(t)
  <2>1. Extracted(t)[r] # Absent
    BY <1>0 DEF Extracted, InRange
  <2>2. step'[t] = "bounded"
    BY <1>0, <1>3, <2>1 DEF ExtractBounds, Does, Held, TypeOK
  <2> QED BY <1>1, <2>2 DEF DueRow, FilesRead, FilesListed
<1>4. CASE u = t /\ WriteFiles(t)
  <2>1. step'[t] = "written" /\ landing'[t].rows[r] = source[t][r]
    BY <1>0, <1>4 DEF WriteFiles, Does, Extracted, TypeOK
  <2> QED BY <1>1, <2>1 DEF DueRow, FilesRead, FilesListed
<1>5. CASE u = t /\ WriteManifest(t)
  <2>1. /\ step[t] = "written" /\ step'[t] = "done"
        /\ landing'[t].rows = landing[t].rows /\ ~landing'[t].empty
    BY <1>0, <1>5 DEF WriteManifest, Does, TypeOK
  <2> QED BY <1>1, <2>1 DEF DueRow, FilesRead, FilesListed
<1> QED BY <1>2, <1>3, <1>4, <1>5

\* Loading a table's files leaves nothing of it due.
LEMMA IngestBringsDue ==
    ASSUME BatchInv, NEW t \in Restamped, NEW r \in Rows,
           IngestToBronze(t), Due(t, r), DueRow(t, r)
    PROVE  bronze'[t][r] = source[t][r]
<1>1. TypeOK /\ LayersInv /\ FilesInv /\ t \in Tables
  BY BatchAssumption DEF BatchInv
<1>2. landing[t].rows[r] = source[t][r] /\ ~landing[t].empty
  BY DEF IngestToBronze, Does, DueRow, FilesRead, FilesListed
<1>3. source[t][r] # Absent
  BY DueInRange DEF InRange
<1>4. bronze'[t][r] = Dedup(bronze[t], landing[t].rows)[r]
  BY <1>1, <1>2 DEF IngestToBronze, TypeOK
<1>5. Proper(bronze[t][r]) /\ Precedes(bronze[t][r], landing[t].rows[r])
  BY <1>1, <1>2, <1>3 DEF LayersInv, FilesInv
<1> QED BY <1>1, <1>2, <1>3, <1>4, <1>5, RowTypes, DedupNewer

\* The other tasks keep it, and Bronze does not finish a table without it.
LEMMA LoadDue ==
    ASSUME BatchInv, NEW u \in Tables,
           \/ IngestToBronze(u) \/ MarkBronzeComplete(u) \/ CommitCursor(u)
           \/ MergeSilver(u) \/ ReconcileTable(u) \/ PublishGold(u),
           NEW t \in Restamped, NEW r \in Rows, Due(t, r), Due(t, r)', DueRow(t, r)
    PROVE  DueRow(t, r)'
<1>0. TypeOK /\ t \in Tables
  BY BatchAssumption DEF BatchInv
<1>1. task' = task /\ source' = source /\ landing' = landing
  BY DEF IngestToBronze, MarkBronzeComplete, CommitCursor, MergeSilver,
         ReconcileTable, PublishGold, Does, db
<1>2. CASE task \in {"silver", "reconcile", "gold", "commit"}
  BY <1>1, <1>2 DEF DueRow, FilesRead, FilesListed
<1>3. CASE IngestToBronze(u)
  <2>1. task = "bronze"
    BY <1>3 DEF IngestToBronze, Does
  <2>2. u # t
    BY <1>0, <1>1, <1>3, IngestBringsDue, Numbers DEF Due
  <2>3. step'[t] = step[t]
    BY <1>0, <1>3, <2>2 DEF IngestToBronze, Does, TypeOK
  <2> QED BY <1>1, <2>1, <2>3 DEF DueRow, FilesRead, FilesListed
<1>4. CASE MarkBronzeComplete(u)
  <2>1. task = "bronze" /\ step[u] = "loaded"
    BY <1>4 DEF MarkBronzeComplete, Does
  <2>2. step[t] = "todo"
    BY <2>1 DEF DueRow
  <2>3. step'[t] = step[t]
    BY <1>0, <1>4, <2>1, <2>2 DEF MarkBronzeComplete, Does, TypeOK
  <2> QED BY <1>1, <2>1, <2>3 DEF DueRow, FilesRead, FilesListed
<1> QED BY <1>2, <1>3, <1>4 DEF CommitCursor, MergeSilver, ReconcileTable,
                               PublishGold, Does

\* Every step leaves what is due with the run that has to bring it.
LEMMA StepDue == BatchInv /\ Next => DueInv'
<1> SUFFICES ASSUME BatchInv, Next, NEW t \in Restamped, NEW r \in Rows, Due(t, r)'
             PROVE  DueRow(t, r)'
  BY DEF DueInv, DueRow
<1>0. TypeOK /\ TypeOK' /\ t \in Tables
  BY StepType, BatchAssumption DEF BatchInv
<1>1. CASE BeginRun
  <2>1. marks'[t].at = 0
    BY <1>0, <1>1 DEF BeginRun, NoMark
  <2> QED BY <1>0, <2>1, RevisionsMove, Bounds DEF Due
<1>2. CASE CaptureHighWatermarks
  <2>1. task' = "extract" /\ step'[t] = "todo"
    BY <1>0, <1>2 DEF CaptureHighWatermarks, Enter, NotStarted
  <2> QED BY <2>1 DEF DueRow, FilesRead, FilesListed
<1>3. ASSUME marks' = marks
      PROVE  Due(t, r) /\ DueRow(t, r) /\ source'[t][r] = source[t][r]
  <2>1. Due(t, r) /\ source'[t][r] = source[t][r]
    BY <1>3, DueStays
  <2> QED BY <2>1 DEF BatchInv, DueInv, DueRow
<1>4. CASE ShopStep
  BY <1>3, <1>4, ShopFrame DEF DueRow, FilesRead, FilesListed
<1>5. CASE TaskEnd
  BY <1>3, <1>5, TaskEndFrame, TaskEndDue
<1>6. ASSUME NEW u \in Tables, ExtractBounds(u) \/ WriteFiles(u) \/ WriteManifest(u)
      PROVE  DueRow(t, r)'
  <2>1. marks' = marks
    BY <1>6 DEF ExtractBounds, WriteFiles, WriteManifest
  <2> QED BY <1>3, <1>6, <2>1, ExtractDue
<1>7. ASSUME NEW u \in Tables,
             \/ IngestToBronze(u) \/ MarkBronzeComplete(u) \/ CommitCursor(u)
             \/ MergeSilver(u) \/ ReconcileTable(u) \/ PublishGold(u)
      PROVE  DueRow(t, r)'
  <2>1. marks' = marks
    BY <1>7 DEF IngestToBronze, MarkBronzeComplete, CommitCursor, MergeSilver,
                ReconcileTable, PublishGold
  <2> QED BY <1>3, <1>7, <2>1, LoadDue
<1> QED BY <1>1, <1>2, <1>4, <1>5, <1>6, <1>7 DEF Next, PipelineStep, TaskEnd

\* A cursor passes no version that Bronze lacks.
LEMMA StepNothingSkipped == BatchInv /\ Next => NothingSkipped'
<1> SUFFICES ASSUME BatchInv, Next, NEW t \in Restamped, NEW r \in Rows,
                    source'[t][r].rev > bronze'[t][r].rev, cursor'[t] # NoMark
             PROVE  source'[t][r].at + Lookback >= cursor'[t].at
  BY DEF NothingSkipped, StillAhead
<1>0. TypeOK /\ TypeOK' /\ t \in Tables /\ StampsInv /\ Reached(t, cursor[t])
  BY StepType, BatchAssumption DEF BatchInv, MarksInv
<1>1. /\ cursor[t].at \in Nat /\ marks[t].at \in Nat /\ clock \in Nat
      /\ \A s \in Rows : source[t][s].at \in Nat
  BY <1>0, Numbers
<1>2. CASE cursor'[t] = cursor[t]
  <2>1. CASE source'[t][r] = source[t][r]
    <3>1. source[t][r].rev > bronze[t][r].rev
      BY <1>0, <2>1, RevisionsMove
    <3> QED BY <1>2, <2>1, <3>1 DEF BatchInv, NothingSkipped, StillAhead
  <2>2. CASE source'[t][r] # source[t][r]
    <3>1. clock <= source'[t][r].at + Lookback
      BY <2>2, CommittedIsRecent
    <3>2. cursor[t].at <= clock
      BY <1>0, <1>1, <1>2 DEF Reached, StampsInv
    <3> QED BY <1>0, <1>1, <1>2, <3>1, <3>2, RevisionsMove, Bounds
  <2> QED BY <2>1, <2>2
<1>3. CASE /\ task = "commit"
           /\ cursor'[t] = marks[t]
           /\ UNCHANGED <<source, bronze>>
  <2>1. ~Due(t, r)
    BY <1>3 DEF BatchInv, DueInv
  <2> QED BY <1>0, <1>1, <1>3, <2>1, RevisionsMove, Bounds DEF Due
<1> QED BY <1>0, <1>2, <1>3, MarksMove

-----------------------------------------------------------------------------
(***************************************************************************)
(* Silver after its merge, and the theorems.                               *)
(***************************************************************************)

\* The run is past the merge of table t.
Merged(t) == task \in {"reconcile", "gold"} \/ (task = "silver" /\ step[t] = "done")

\* One merge is enough, whatever earlier runs left out.
LEMMA MergeCatchesUp ==
    ASSUME BatchInv, NEW t \in Tables, NEW r \in Rows, MergeSilver(t)
    PROVE  /\ bronze' = bronze
           /\ Valid(t, bronze[t])[r].rev <= silver'[t][r].rev
<1>1. TypeOK /\ LayersInv
  BY DEF BatchInv
<1>2. /\ bronze' = bronze
      /\ silver'[t][r] = Dedup(silver[t], Valid(t, bronze[t]))[r]
  BY <1>1 DEF MergeSilver, TypeOK
<1>3. Proper(silver[t][r]) /\ Precedes(silver[t][r], bronze[t][r])
  BY <1>1 DEF LayersInv
<1>4. Valid(t, bronze[t]) \in Contents
  BY <1>1, RowTypes, ValidType
<1>5. silver'[t][r] = IF Valid(t, bronze[t])[r] = Absent THEN silver[t][r]
                      ELSE Valid(t, bronze[t])[r]
  BY <1>1, <1>2, <1>3, <1>4, RowTypes, ValidRow, DedupNewer
<1>6. silver[t][r].rev \in Nat /\ bronze[t][r].rev \in Nat
  BY <1>1, Numbers
<1> QED BY <1>1, <1>2, <1>5, <1>6, RowTypes, ValidRow DEF Absent

\* Silver stays caught up to the end of the run.
LEMMA StepMerged == BatchInv /\ Next => MergedInv'
<1> SUFFICES ASSUME BatchInv, Next, NEW t \in Tables, NEW r \in Rows, Merged(t)'
             PROVE  (Valid(t, bronze[t])[r].rev)' <= silver'[t][r].rev
  BY DEF MergedInv, Merged
<1>0. TypeOK
  BY DEF BatchInv
<1>1. ASSUME Merged(t), bronze' = bronze, silver'[t] = silver[t]
      PROVE  (Valid(t, bronze[t])[r].rev)' <= silver'[t][r].rev
  BY <1>1 DEF BatchInv, MergedInv, Merged, Valid, Status
<1>2. CASE ShopStep
  BY <1>1, <1>2, ShopFrame DEF Merged
<1>3. CASE BeginRun \/ CaptureHighWatermarks
  BY <1>3 DEF BeginRun, CaptureHighWatermarks, Enter, Merged
<1>4. CASE TaskEnd
  <2>1. ASSUME RetryOrFail PROVE Merged(t)
    BY <2>1 DEF RetryOrFail, Enter, NotStarted, Merged
  <2>2. CASE TaskCrashes \/ ManifestRejected \/ BronzeMissing \/ ReconciliationFails
    BY <1>1, <1>4, <2>1, <2>2, TaskEndFrame
       DEF TaskCrashes, ManifestRejected, BronzeMissing, ReconciliationFails, Raises
  <2>3. CASE ValidateLandingManifests
    BY <2>3 DEF ValidateLandingManifests, Enter, Merged
  <2>4. CASE TaskSucceeds
    <3>1. task' = After[task] /\ step[t] = "done" /\ step'[t] = "todo"
      BY <2>4 DEF TaskSucceeds, Enter, NotStarted
    <3>2. task \in {"extract", "bronze", "commit", "silver", "reconcile", "gold"}
      BY <2>4 DEF TaskSucceeds
    <3>3. Merged(t)
      BY <3>1, <3>2 DEF Merged, After
    <3> QED BY <1>1, <1>4, <3>3, TaskEndFrame
  <2> QED BY <1>4, <2>2, <2>3, <2>4 DEF TaskEnd
<1>5. ASSUME NEW u \in Tables,
             \/ ExtractBounds(u) \/ WriteFiles(u) \/ WriteManifest(u)
             \/ IngestToBronze(u) \/ MarkBronzeComplete(u) \/ CommitCursor(u)
      PROVE  FALSE
  BY <1>5 DEF ExtractBounds, WriteFiles, WriteManifest, IngestToBronze,
              MarkBronzeComplete, CommitCursor, Does, Merged
<1>6. ASSUME NEW u \in Tables, ReconcileTable(u) \/ PublishGold(u)
      PROVE  (Valid(t, bronze[t])[r].rev)' <= silver'[t][r].rev
  <2>1. Merged(t) /\ bronze' = bronze /\ silver' = silver
    BY <1>6 DEF ReconcileTable, PublishGold, Does, Merged, lake
  <2> QED BY <1>1, <2>1
<1>7. ASSUME NEW u \in Tables, MergeSilver(u)
      PROVE  (Valid(t, bronze[t])[r].rev)' <= silver'[t][r].rev
  <2>1. CASE u = t
    BY <1>7, <2>1, MergeCatchesUp DEF Valid, Status
  <2>2. CASE u # t
    <3>1. /\ task' = task /\ step'[t] = step[t]
          /\ bronze' = bronze /\ silver'[t] = silver[t]
      BY <1>0, <1>7, <2>2 DEF MergeSilver, Does, TypeOK
    <3> QED BY <1>1, <3>1 DEF Merged
  <2> QED BY <2>1, <2>2
<1> QED BY <1>2, <1>3, <1>4, <1>5, <1>6, <1>7 DEF Next, PipelineStep, TaskEnd

\* The invariant holds at the start ...
LEMMA InitBatchInv == Init => BatchInv
<1> SUFFICES ASSUME Init PROVE BatchInv
  OBVIOUS
<1>0. TypeOK
  BY InitType
<1>1. \A t \in Tables, r \in Rows :
          /\ pending[t][r] = Absent /\ source[t][r] = Absent /\ bronze[t][r] = Absent
          /\ silver[t][r] = Absent /\ gold[t][r] = Absent
          /\ landing[t].rows[r] = Absent
  BY DEF Init, NoRows, NoFiles
<1>2. /\ task = "idle" /\ clock = 1
      /\ \A t \in Tables : cursor[t] = NoMark /\ marks[t] = NoMark
  BY DEF Init
<1>3. StampsInv
  BY <1>1, <1>2 DEF StampsInv, Proper, Absent
<1>4. LayersInv /\ FilesInv
  BY <1>1 DEF LayersInv, FilesInv, Proper, Precedes, Absent
<1>5. MarksInv
  BY <1>2 DEF MarksInv, Reached, NoMark
<1>6. DueInv /\ NothingSkipped
  BY <1>1, BatchAssumption DEF DueInv, NothingSkipped, StillAhead, Due, Absent
<1>7. MergedInv
  BY <1>2 DEF MergedInv
<1> QED BY <1>0, <1>3, <1>4, <1>5, <1>6, <1>7 DEF BatchInv

\* ... and every step keeps it.
LEMMA StepBatchInv == BatchInv /\ [Next]_vars => BatchInv'
<1>1. BatchInv /\ UNCHANGED vars => BatchInv'
  BY DEF vars, BatchInv, TypeOK, StampsInv, LayersInv, FilesInv, MarksInv, Reached,
         DueInv, Due, FilesRead, FilesListed, NothingSkipped, StillAhead, MergedInv,
         Valid, Status
<1>2. BatchInv /\ Next => BatchInv'
  BY StepType, StepStamps, StepLayers, StepFiles, StepMarks, StepDue,
     StepNothingSkipped, StepMerged DEF BatchInv
<1> QED BY <1>1, <1>2

\* The invariant of the batch: what a run has to bring is brought before the
\* cursors move (the tasks of lakehouse_oltp_pipeline).
THEOREM BatchInvariant == Spec => []BatchInv
BY InitBatchInv, StepBatchInv, PTL DEF Spec

\* However late transactions commit and wherever runs crash, the cursor of a
\* table extracted by updated_at leaves no version behind that Bronze lacks, if
\* the lookback covers the longest transaction (build_range_predicate).
THEOREM BatchSkipsNothing == Spec => []NothingSkipped
<1>1. BatchInv => NothingSkipped
  BY DEF BatchInv
<1> QED BY BatchInvariant, <1>1, PTL

\* Past its merge, Silver holds every accepted row of Bronze, also those of runs
\* that failed after their cursors were committed (merge_oltp_table).
THEOREM BatchCatchesUpSilver == Spec => []SilverCaughtUp
<1>1. BatchInv => SilverCaughtUp
  BY DEF BatchInv, MergedInv, SilverCaughtUp
<1> QED BY BatchInvariant, <1>1, PTL

\* Cursors only move forward (capture_high_watermarks, build_cursor_advancements).
THEOREM BatchCursorsAdvance == Spec => CursorNeverRetreats
<1>1. BatchInv /\ [Next]_vars => [\A t \in Tables : cursor'[t].at >= cursor[t].at]_vars
  <2>1. BatchInv /\ UNCHANGED vars
            => [\A t \in Tables : cursor'[t].at >= cursor[t].at]_vars
    OBVIOUS
  <2>2. ASSUME BatchInv, Next, NEW t \in Tables
        PROVE  cursor'[t].at >= cursor[t].at
    <3>1. TypeOK /\ MarksInv
      BY <2>2 DEF BatchInv
    <3>2. cursor[t].at \in Nat /\ marks[t].at \in Nat
      <4>1. cursor[t] \in Marks /\ marks[t] \in Marks
        BY <3>1 DEF TypeOK
      <4> QED BY <4>1, Bounds DEF Marks
    <3> QED BY <2>2, <3>1, <3>2, MarksMove DEF MarksInv
  <2> QED BY <2>1, <2>2
<1> QED BY BatchInvariant, <1>1, PTL DEF Spec, CursorNeverRetreats

\* No retry, crash or repeated window puts an older revision of a row back into
\* Silver or Gold (_dedup_by_pk, merge_oltp_table).
THEOREM BatchNeverRegresses == Spec => LayersNeverRegress
<1> DEFINE Forward == \A t \in Tables, r \in Rows :
               /\ silver'[t][r].rev >= silver[t][r].rev
               /\ gold'[t][r].rev >= gold[t][r].rev
<1>1. BatchInv /\ [Next]_vars => [Forward]_vars
  <2>1. BatchInv /\ UNCHANGED vars => [Forward]_vars
    OBVIOUS
  <2>2. ASSUME BatchInv, Next, NEW t \in Tables, NEW r \in Rows
        PROVE  /\ silver'[t][r].rev >= silver[t][r].rev
               /\ gold'[t][r].rev >= gold[t][r].rev
    <3>1. TypeOK /\ LayersInv
      BY <2>2 DEF BatchInv
    <3>2. /\ bronze[t][r].rev \in Nat /\ silver[t][r].rev \in Nat
          /\ gold[t][r].rev \in Nat
      BY <3>1, Numbers
    <3>3. silver[t][r].rev <= bronze[t][r].rev /\ gold[t][r].rev <= silver[t][r].rev
      BY <3>1 DEF LayersInv, Precedes
    <3> QED BY <2>2, <3>2, <3>3, SilverMoves
  <2> QED BY <2>1, <2>2
<1> QED BY BatchInvariant, <1>1, PTL DEF Spec, LayersNeverRegress
=============================================================================

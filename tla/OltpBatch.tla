------------------------------ MODULE OltpBatch ------------------------------
(***************************************************************************)
(* The daily OLTP batch: MySQL -> Landing -> Bronze -> cursors -> Silver   *)
(* -> reconciliation gate -> Gold, run by Airflow with retries while the   *)
(* shop keeps writing.                                                     *)
(*                                                                         *)
(* Row r of table t goes through the revisions Life[t][r], a sequence of   *)
(* statuses; when each revision is written and committed is free.  What a  *)
(* layer holds of a row is its version: the cursor field's value and the   *)
(* number of the revision.                                                 *)
(***************************************************************************)
EXTENDS Integers, FiniteSets, Sequences

CONSTANTS
    Tables,       \* the configured source tables
    Rows,         \* primary keys, in the order they are assigned
    Restamped,    \* tables whose cursor field is updated_at
    Life,         \* the statuses row r of table t goes through
    Accepted,     \* the statuses Silver's row validation lets through
    Counted,      \* per table, the statuses its financial metric adds up
    Lookback,     \* lookback_minutes
    MaxDelay,     \* the longest a transaction stays open after its stamp
    MaxClock,     \* bound on the clock
    MaxTries,     \* 1 + the retries Airflow gives a task
    MaxFailures   \* bound on the crashes of a behaviour

ASSUME BatchAssumption ==
    /\ Restamped \subseteq Tables
    /\ Rows \subseteq Nat \ {0}
    /\ \E last \in Rows : \A r \in Rows : r <= last
    /\ Life \in [Tables -> [Rows -> Seq(STRING)]]
    /\ Lookback \in Nat /\ MaxDelay \in Nat
    /\ MaxClock \in Nat \ {0} /\ MaxTries \in Nat \ {0}
    /\ MaxFailures \in Nat

\* What the lookback is configured for: no transaction outlives it.
ASSUME LookbackCoversCommits == MaxDelay <= Lookback

VARIABLES
    clock,      \* the database clock
    pending,    \* written, not yet committed versions
    source,     \* the committed rows of MySQL
    cursor,     \* state/cursor/<table>.json
    task,       \* the Airflow task of the run, "idle" between runs
    step,       \* how far the task is with each table
    tries,      \* attempts of the task so far
    failures,   \* crashes so far
    marks,      \* the high watermarks the run captured
    landing,    \* the run's files and manifest of each table
    bronze,     \* what deduplicating all of Bronze yields
    silver,
    gold

vars == <<clock, pending, source, cursor, task, step, tries, failures,
          marks, landing, bronze, silver, gold>>
db == <<clock, pending, source>>
lake == <<bronze, silver, gold>>

Absent == [at |-> 0, rev |-> 0]
NoMark == [at |-> 0, pk |-> 0]
NoFiles == [rows |-> [r \in Rows |-> Absent], listed |-> 0, empty |-> TRUE]

Versions == [at : 0..MaxClock, rev : Nat]
Marks == [at : 0..MaxClock, pk : Rows \cup {0}]
Contents == [Rows -> Versions]

Tasks == {"idle", "capture", "extract", "validate", "bronze", "commit",
          "silver", "reconcile", "gold"}

After ==
    [capture |-> "extract", extract |-> "validate", validate |-> "bronze",
     bronze |-> "commit", commit |-> "silver", silver |-> "reconcile",
     reconcile |-> "gold", gold |-> "idle"]

Held(content) == {r \in Rows : content[r] # Absent}
Status(t, r, version) == Life[t][r][version.rev]
NotStarted == [t \in Tables |-> "todo"]
-----------------------------------------------------------------------------
(* The shop's transactions                                                 *)

\* A write stamps the cursor field: created_at once, updated_at every time.
Stamps(t, r) == t \in Restamped \/ source[t][r] = Absent

\* The next revision of a row is written.
Write(t, r) ==
    /\ pending[t][r] = Absent
    /\ source[t][r].rev < Len(Life[t][r])
    /\ pending' = [pending EXCEPT ![t][r] =
           [at  |-> IF Stamps(t, r) THEN clock ELSE source[t][r].at,
            rev |-> source[t][r].rev + 1]]
    /\ UNCHANGED <<clock, source, cursor, task, step, tries, failures,
                   marks, landing, lake>>

Commit(t, r) ==
    /\ pending[t][r] # Absent
    /\ source' = [source EXCEPT ![t][r] = pending[t][r]]
    /\ pending' = [pending EXCEPT ![t][r] = Absent]
    /\ UNCHANGED <<clock, cursor, task, step, tries, failures,
                   marks, landing, lake>>

Rollback(t, r) ==
    /\ pending[t][r] # Absent
    /\ pending' = [pending EXCEPT ![t][r] = Absent]
    /\ UNCHANGED <<clock, source, cursor, task, step, tries, failures,
                   marks, landing, lake>>

\* Time passes; a transaction ends within MaxDelay of its stamp.
Tick ==
    /\ clock < MaxClock
    /\ \A t \in Tables, r \in Rows :
           pending[t][r] # Absent /\ Stamps(t, r)
               => clock + 1 <= pending[t][r].at + MaxDelay
    /\ clock' = clock + 1
    /\ UNCHANGED <<source, pending, cursor, task, step, tries, failures,
                   marks, landing, lake>>

ShopStep ==
    \/ Tick
    \/ \E t \in Tables, r \in Rows : Write(t, r) \/ Commit(t, r) \/ Rollback(t, r)
-----------------------------------------------------------------------------
(* Airflow                                                                 *)

Enter(next) ==
    /\ task' = next
    /\ step' = NotStarted
    /\ tries' = 1

\* max_active_runs is 1: a run starts when the last one has ended, with a run
\* id, hence Landing paths, of its own.
BeginRun ==
    /\ task = "idle"
    /\ Enter("capture")
    /\ marks' = [t \in Tables |-> NoMark]
    /\ landing' = [t \in Tables |-> NoFiles]
    /\ UNCHANGED <<db, cursor, failures, lake>>

TaskSucceeds ==
    /\ task \in {"extract", "bronze", "commit", "silver", "reconcile", "gold"}
    /\ \A t \in Tables : step[t] = "done"
    /\ Enter(After[task])
    /\ UNCHANGED <<db, cursor, failures, marks, landing, lake>>

\* Mutant: one retry more than configured.
RetryOnceMore ==
    IF tries <= MaxTries
    THEN /\ tries' = tries + 1
         /\ step' = NotStarted
         /\ UNCHANGED task
    ELSE Enter("idle")

\* A failed task starts over, and fails the run when it has no retry left.
RetryOrFail ==
    IF tries < MaxTries
    THEN /\ tries' = tries + 1
         /\ step' = NotStarted
         /\ UNCHANGED task
    ELSE Enter("idle")

TaskCrashes ==
    /\ task # "idle"
    /\ failures < MaxFailures
    /\ failures' = failures + 1
    /\ RetryOrFail
    /\ UNCHANGED <<db, cursor, marks, landing, lake>>

\* The running task takes table t from one point of its work to another.
Does(running, t, from, to) ==
    /\ task = running
    /\ step[t] = from
    /\ step' = [step EXCEPT ![t] = to]
    /\ UNCHANGED <<db, task, tries, failures>>

\* The running task raises an exception of its own.
Raises(running) ==
    /\ task = running
    /\ RetryOrFail
    /\ UNCHANGED <<db, cursor, failures, marks, landing, lake>>
-----------------------------------------------------------------------------
(* Landing                                                                 *)

\* Mutant: the row with the highest key, not one with the newest cursor value.
WatermarkOfLastKey(t) ==
    IF Held(source[t]) = {} THEN NoMark
    ELSE LET last == CHOOSE r \in Held(source[t]) :
                         \A u \in Held(source[t]) : u <= r
         IN  [at |-> source[t][last].at, pk |-> last]

\* The newest cursor value of a table and the highest key that has it.
HighWatermark(t) ==
    IF Held(source[t]) = {} THEN NoMark
    ELSE LET Newest == {r \in Held(source[t]) : \A u \in Held(source[t]) :
                            source[t][u].at <= source[t][r].at}
             last == CHOOSE r \in Newest : \A u \in Newest : u <= r
         IN  [at |-> source[t][last].at, pk |-> last]

\* One connection reads all watermarks, in one repeatable-read transaction.
CaptureHighWatermarks ==
    /\ task = "capture"
    /\ marks' = [t \in Tables |-> HighWatermark(t)]
    /\ Enter("extract")
    /\ UNCHANGED <<db, cursor, failures, landing, lake>>

\* Mutant: the lower bound of the window is the cursor itself.
AfterCursor(version, committed) ==
    committed = NoMark \/ version.at >= committed.at

AfterLookback(version, committed) ==
    committed = NoMark \/ version.at >= committed.at - Lookback

UpToMark(r, version, mark) ==
    \/ mark = NoMark
    \/ version.at < mark.at
    \/ version.at = mark.at /\ r <= mark.pk

InRange(t, r) ==
    /\ source[t][r] # Absent
    /\ AfterLookback(source[t][r], cursor[t])
    /\ UpToMark(r, source[t][r], marks[t])

Extracted(t) == [r \in Rows |-> IF InRange(t, r) THEN source[t][r] ELSE Absent]

\* The three queries a worker makes of its table, each of the live source.
ExtractBounds(t) ==
    LET nothing == Held(Extracted(t)) = {}
    IN  /\ Does("extract", t, "todo", IF nothing THEN "done" ELSE "bounded")
        /\ landing' = IF nothing THEN [landing EXCEPT ![t] = NoFiles]
                                 ELSE landing
        /\ UNCHANGED <<cursor, marks, lake>>

WriteFiles(t) ==
    /\ Does("extract", t, "bounded", "written")
    /\ landing' = [landing EXCEPT ![t].rows = Extracted(t)]
    /\ UNCHANGED <<cursor, marks, lake>>

WriteManifest(t) ==
    /\ Does("extract", t, "written", "done")
    /\ landing' = [landing EXCEPT ![t].listed = Cardinality(Held(Extracted(t))),
                                  ![t].empty = FALSE]
    /\ UNCHANGED <<cursor, marks, lake>>

\* What validate_manifest can find wrong while only the pipeline writes the
\* bucket: the manifest counts other rows than the files hold, or none.
ManifestValid(t) ==
    \/ landing[t].empty
    \/ /\ landing[t].listed = Cardinality(Held(landing[t].rows))
       /\ landing[t].listed > 0

ValidateLandingManifests ==
    /\ task = "validate"
    /\ \A t \in Tables : ManifestValid(t)
    /\ Enter("bronze")
    /\ UNCHANGED <<db, cursor, failures, marks, landing, lake>>

ManifestRejected ==
    /\ \E t \in Tables : ~ManifestValid(t)
    /\ Raises("validate")
-----------------------------------------------------------------------------
(* Bronze and the cursors                                                  *)

\* Mutant: the rows held so far are left out of the union.
DedupOfBatch(ingestedFirst, ingestedLater) == ingestedLater

\* Mutant: among copies with the same cursor value the first ingested wins.
DedupKeepsFirst(ingestedFirst, ingestedLater) ==
    [r \in Rows |-> IF ingestedFirst[r].at >= ingestedLater[r].at
                    THEN ingestedFirst[r] ELSE ingestedLater[r]]

\* Of two copies of a row the newer cursor value wins, then the one ingested
\* later.
Dedup(ingestedFirst, ingestedLater) ==
    [r \in Rows |-> IF ingestedFirst[r].at > ingestedLater[r].at
                    THEN ingestedFirst[r] ELSE ingestedLater[r]]

\* The loop takes one table at a time: the run's rows replace those of an
\* earlier attempt of the same run ...
IngestToBronze(t) ==
    /\ \A u \in Tables : step[u] # "loaded"
    /\ Does("bronze", t, "todo", "loaded")
    /\ bronze' = IF landing[t].empty THEN bronze
                 ELSE [bronze EXCEPT ![t] = Dedup(bronze[t], landing[t].rows)]
    /\ UNCHANGED <<cursor, marks, landing, silver, gold>>

\* ... and then the table's completion marker is written.
MarkBronzeComplete(t) ==
    /\ Does("bronze", t, "loaded", "done")
    /\ UNCHANGED <<cursor, marks, landing, lake>>

\* Every table's marker matches its watermark once the Bronze task succeeded;
\* a table that was empty keeps its cursor.
CommitCursor(t) ==
    /\ Does("commit", t, "todo", "done")
    /\ cursor' = IF marks[t] = NoMark THEN cursor
                 ELSE [cursor EXCEPT ![t] = marks[t]]
    /\ UNCHANGED <<marks, landing, lake>>
-----------------------------------------------------------------------------
(* Silver, the gate and Gold                                               *)

\* A row that fails validation goes to the quarantine; an older copy of it that
\* would pass has lost to it already.
Valid(t, content) ==
    [r \in Rows |-> IF /\ content[r] # Absent
                       /\ Status(t, r, content[r]) \in Accepted
                    THEN content[r] ELSE Absent]

\* A table may lack its Bronze table only if it never had a row.
BronzeAsExpected(t) ==
    \/ Held(bronze[t]) # {}
    \/ landing[t].empty /\ marks[t] = NoMark

\* Mutant: Silver merges the run's files instead of all of Bronze.
MergeLanding(t) ==
    /\ BronzeAsExpected(t)
    /\ Does("silver", t, "todo", "done")
    /\ silver' = [silver EXCEPT
                     ![t] = Dedup(silver[t], Valid(t, landing[t].rows))]
    /\ UNCHANGED <<cursor, marks, landing, bronze, gold>>

MergeSilver(t) ==
    /\ BronzeAsExpected(t)
    /\ Does("silver", t, "todo", "done")
    /\ silver' = [silver EXCEPT ![t] = Dedup(silver[t], Valid(t, bronze[t]))]
    /\ UNCHANGED <<cursor, marks, landing, bronze, gold>>

BronzeMissing ==
    /\ \E t \in Tables : step[t] = "todo" /\ ~BronzeAsExpected(t)
    /\ Raises("silver")

\* The rows whose amounts the table's financial metric adds up.
CountedRows(t, content) ==
    {r \in Held(content) : Status(t, r, content[r]) \in Counted[t]}

\* The live source and Silver agree.
Reconciles(t) ==
    /\ Cardinality(Held(source[t])) = Cardinality(Held(silver[t]))
    /\ Cardinality(CountedRows(t, source[t]))
           = Cardinality(CountedRows(t, silver[t]))

ReconcileTable(t) ==
    /\ Reconciles(t)
    /\ Does("reconcile", t, "todo", "done")
    /\ UNCHANGED <<cursor, marks, landing, lake>>

ReconciliationFails ==
    /\ \E t \in Tables : step[t] = "todo" /\ ~Reconciles(t)
    /\ Raises("reconcile")

\* Dimensions, facts and marts are rebuilt from Silver.  The quality gate
\* after them writes its audit only.
PublishGold(t) ==
    /\ Does("gold", t, "todo", "done")
    /\ gold' = [gold EXCEPT ![t] = silver[t]]
    /\ UNCHANGED <<cursor, marks, landing, bronze, silver>>
-----------------------------------------------------------------------------
NoRows == [t \in Tables |-> [r \in Rows |-> Absent]]

Init ==
    /\ clock = 1
    /\ pending = NoRows
    /\ source = NoRows
    /\ cursor = [t \in Tables |-> NoMark]
    /\ task = "idle"
    /\ step = NotStarted
    /\ tries = 1
    /\ failures = 0
    /\ marks = [t \in Tables |-> NoMark]
    /\ landing = [t \in Tables |-> NoFiles]
    /\ bronze = NoRows
    /\ silver = NoRows
    /\ gold = NoRows

PipelineStep ==
    \/ BeginRun
    \/ CaptureHighWatermarks
    \/ ValidateLandingManifests
    \/ ManifestRejected
    \/ BronzeMissing
    \/ ReconciliationFails
    \/ TaskSucceeds
    \/ \E t \in Tables :
           \/ ExtractBounds(t)
           \/ WriteFiles(t)
           \/ WriteManifest(t)
           \/ IngestToBronze(t)
           \/ MarkBronzeComplete(t)
           \/ CommitCursor(t)
           \/ MergeSilver(t)
           \/ ReconcileTable(t)
           \/ PublishGold(t)

Next == ShopStep \/ PipelineStep \/ TaskCrashes

Spec == Init /\ [][Next]_vars

\* The scheduler starts every run and lets every task go on; nothing obliges
\* the shop to write, to commit or to let time pass.
FairSpec == Spec /\ WF_vars(PipelineStep)
-----------------------------------------------------------------------------
(* Properties                                                              *)

TypeOK ==
    /\ clock \in 1..MaxClock
    /\ pending \in [Tables -> Contents]
    /\ source \in [Tables -> Contents]
    /\ cursor \in [Tables -> Marks]
    /\ task \in Tasks
    /\ step \in [Tables -> {"todo", "bounded", "written", "loaded", "done"}]
    /\ tries \in 1..MaxTries
    /\ failures \in 0..MaxFailures
    /\ marks \in [Tables -> Marks]
    /\ landing \in [Tables -> [rows : Contents, listed : Nat, empty : BOOLEAN]]
    /\ bronze \in [Tables -> Contents]
    /\ silver \in [Tables -> Contents]
    /\ gold \in [Tables -> Contents]

\* A committed version that Bronze does not hold is no older than what the
\* lookback makes the next extraction read.
StillAhead(t, r) ==
    source[t][r].rev > bronze[t][r].rev /\ cursor[t] # NoMark
        => source[t][r].at + Lookback >= cursor[t].at

\* However late a transaction commits and wherever a run crashes, the cursor
\* leaves no version of a row behind whose cursor field is updated_at
\* (build_range_predicate, verified_cursor_advancements).
NothingSkipped == \A t \in Restamped, r \in Rows : StillAhead(t, r)

\* The same of every table, created_at or updated_at.
EveryChangeExtracted == \A t \in Tables, r \in Rows : StillAhead(t, r)

\* A committed cursor never moves back, whatever was crashed, retried or found
\* empty in between (capture_high_watermarks, build_cursor_advancements).
CursorNeverRetreats ==
    [][\A t \in Tables : cursor'[t].at >= cursor[t].at]_vars

\* Reading the lookback window again and retrying tasks never put an older
\* revision of a row back into Silver or Gold (_dedup_by_pk, merge_oltp_table).
LayersNeverRegress ==
    [][\A t \in Tables, r \in Rows :
           /\ silver'[t][r].rev >= silver[t][r].rev
           /\ gold'[t][r].rev >= gold[t][r].rev]_vars

\* Once a run is past Silver, Silver has every row that Bronze holds and
\* validation accepts, also those of an earlier run that failed between its
\* cursors and Silver (merge_oltp_table reads all of Bronze).
SilverCaughtUp ==
    task \in {"reconcile", "gold"} =>
        \A t \in Tables, r \in Rows :
            Valid(t, bronze[t])[r].rev <= silver[t][r].rev

\* Once the shop is quiet and the crashes stop, Gold comes to show what MySQL
\* holds (the DAG of lakehouse_oltp_pipeline.py).
GoldCatchesUp == <>[](gold = source)
=============================================================================

----------------------------- MODULE RunStorage -----------------------------
(***************************************************************************)
(* The station's records: data/storage.py (DataStorage), data/rotation.py, *)
(* data/raw_hardware_log.py, test_control/storage_session.py and           *)
(* scripts/backfill_run_sequence.py. Several sessions (one DataStorage per *)
(* GroupRuntime or cycle phase) share a permanent index database and one   *)
(* telemetry database per month.                                           *)
(*                                                                         *)
(* SQLite is external: one writer per file; a second one waits and then    *)
(* raises OperationalError ("busy"); what a transaction wrote is seen by   *)
(* the others at its commit; a commit that raises leaves its transaction   *)
(* rolled back or still open; readers that pass immutable=1 see only what  *)
(* has been moved from the write-ahead log into the file itself.           *)
(***************************************************************************)
EXTENDS Integers, Sequences, FiniteSets

CONSTANTS NumSessions,  \* DataStorage instances
          MaxRetries,   \* _OPEN_MAX_RETRIES and _SEQUENCE_ALLOCATION_MAX_RETRIES
          NumLegacy,    \* run_summary rows of the schema before the run counter
          MaxMonth,     \* months the run lasts
          MaxCalls,     \* bound: calls of open() and begin_new_run_id()
          MaxFaults     \* bound: errors of the database and crashes

ASSUME RunStorageAssumption ==
    /\ NumSessions \in Nat \ {0} /\ MaxRetries \in Nat \ {0}
    /\ NumLegacy \in Nat /\ MaxMonth \in Nat \ {0}
    /\ MaxCalls \in Nat /\ MaxFaults \in Nat

Sessions == 1..NumSessions
Months == 1..MaxMonth
Legacy == (-NumLegacy)..(-1)   \* run ids made from a timestamp
NoRun == 0                     \* run_id is None

VARIABLES
  index,    \* committed content of the index database
  work,     \* content as its open write transaction sees it
  writer,   \* the session holding that transaction, 0 for none
  merged,   \* the index as the last checkpoint has moved it into its file
  tele,     \* committed content of each telemetry database
  staged,   \* staged[s]: runs with rows in session s's open telemetry transaction
  pc,       \* pc[s]: where session s is
  tries,    \* open()'s attempt, 0 outside open()
  atry,     \* _allocate_sequence_number()'s failed attempts
  file,     \* the month of _telemetry_db_name
  lacks,    \* PRAGMA table_info() of measurements showed missing columns
  run,      \* self.run_id, by its number
  begun,    \* start_run_summary() was called for run
  backfill, \* where scripts/backfill_run_sequence.py is
  base,     \* its next_value, read before it writes
  care,     \* history: "kept" while no session met the script, "half" when
            \* moreover the rows have numbers and the counter was not raised;
            \* "late" once a session was opened after it died there, "beside"
            \* once one was open while it ran
  month,    \* the calendar
  calls, faults,  \* used up of MaxCalls and MaxFaults
  issued,   \* history: numbers returned by _allocate_sequence_number()
  acked     \* history: rows whose write returned normally

dbVars == <<index, work, writer, merged>>
teleVars == <<tele, staged>>
callVars == <<tries, atry, lacks>>
script == <<backfill, base, care>>
bounds == <<month, calls, faults>>
vars == <<dbVars, teleVars, pc, callVars, file, run, begun, script,
          bounds, issued, acked>>

\* run_summary and run_sequence. next is 0 while run_sequence has no row;
\* columns says that run_summary is there with the columns of the schema.
\* number 0 and telemetry 0 are NULL.
Row(r, n, m) == [run |-> r, number |-> n, telemetry |-> m, finished |-> FALSE]
FreshIndex == [next |-> 0, columns |-> FALSE, rows |-> {}]
LegacyIndex == [next |-> 0, columns |-> FALSE, rows |-> {Row(r, 0, 0) : r \in Legacy}]

Init ==
    /\ index \in {FreshIndex, LegacyIndex}
    /\ work = index /\ writer = 0 /\ merged = index
    /\ tele = [m \in Months |-> [columns |-> index = FreshIndex \/ m # 1, rows |-> {}]]
    /\ staged = [s \in Sessions |-> {}]
    /\ pc = [s \in Sessions |-> "closed"]
    /\ tries = [s \in Sessions |-> 0] /\ atry = [s \in Sessions |-> 0]
    /\ file = [s \in Sessions |-> 0] /\ lacks = [s \in Sessions |-> FALSE]
    /\ run = [s \in Sessions |-> NoRun]
    /\ begun = [s \in Sessions |-> FALSE]
    /\ backfill = "idle" /\ base = 0 /\ care = "kept"
    /\ month = 1 /\ calls = 0 /\ faults = 0
    /\ issued = <<>> /\ acked = {}

Set(f, s, v) == [f EXCEPT ![s] = v]
Goto(s, to) == pc' = Set(pc, s, to)
Connected == {s \in Sessions : pc[s] # "closed"}

---------------------------------------------------------------------------
(* SQLite (external) *)

\* Something goes wrong, within the bound.
Fault == faults < MaxFaults /\ faults' = faults + 1

\* The write lock of the index: taken, or refused while another transaction
\* (the connection's own one included, for BEGIN) has it.
TakeLock(s) == writer = 0 /\ writer' = s
Busy(s) == writer \notin {0, s}

\* A commit makes the work visible, from the write-ahead log.
CommitOk(new) ==
    /\ index' = new /\ work' = new /\ writer' = 0
    /\ UNCHANGED merged

\* A commit that raises: rolled back, or the transaction is still open.
CommitRaises(s, new) ==
    /\ \/ writer' = 0 /\ work' = index
       \/ writer' = s /\ work' = new
    /\ UNCHANGED <<index, merged>>

\* Closing a connection drops its open transactions; closing the last one
\* cleanly moves the log into the file, the table definitions in it included.
Drop(s) ==
    /\ staged' = Set(staged, s, {})
    /\ writer' = (IF writer = s THEN 0 ELSE writer)
    /\ work' = (IF writer = s THEN index ELSE work)
    /\ merged' = (IF Connected = {s} /\ backfill = "idle" THEN index ELSE merged)
    /\ UNCHANGED <<index, tele>>

\* The instance is as new: nothing is left of what it was opened with.
Forget(s) ==
    /\ Drop(s)
    /\ run' = Set(run, s, NoRun) /\ file' = Set(file, s, 0)
    /\ lacks' = Set(lacks, s, FALSE) /\ atry' = Set(atry, s, 0)

---------------------------------------------------------------------------
(* DataStorage.open() *)

\* open() retrying without counting.
OpenFailsUncounted(s) ==
    /\ Forget(s)
    /\ Goto(s, "attempt") /\ UNCHANGED tries

\* OperationalError in an attempt: _close_partial(), then the next attempt or
\* the exception.
OpenFails(s) ==
    /\ Forget(s)
    /\ IF tries[s] >= MaxRetries THEN Goto(s, "closed") /\ tries' = Set(tries, s, 0)
                                 ELSE Goto(s, "attempt") /\ tries' = Set(tries, s, tries[s] + 1)

\* Any other OSError or sqlite3.Error, at any step, is raised at once.
OpenAborts(s) ==
    /\ tries[s] # 0
    /\ Fault /\ Forget(s)
    /\ Goto(s, "closed") /\ tries' = Set(tries, s, 0)
    /\ UNCHANGED <<begun, script, month, calls, issued, acked>>

\* open_storage_guarded() -> open(), whatever the backfill script is doing or
\* has left behind.
OpenStorage(s) ==
    /\ pc[s] = "closed" /\ calls < MaxCalls
    /\ Goto(s, "attempt") /\ tries' = Set(tries, s, 1)
    /\ calls' = calls + 1
    /\ care' = CASE backfill # "idle" -> "beside"
                 [] backfill = "idle" /\ care = "half" -> "late"
                 [] OTHER -> care
    /\ UNCHANGED <<dbVars, teleVars, atry, lacks, file, run, begun,
                   backfill, base, month, faults, issued, acked>>

\* _open_once(), index part: the telemetry path is resolved now; the seed
\* INSERT opens the transaction in which the columns are added.
Attempt(s) ==
    /\ pc[s] = "attempt"
    /\ \/ /\ TakeLock(s)
          /\ work' = [index EXCEPT !.next = IF @ = 0 THEN 1 ELSE @, !.columns = TRUE]
          /\ file' = Set(file, s, month)
          /\ Goto(s, "seeded")
          /\ UNCHANGED <<index, merged, teleVars, callVars, run, faults>>
       \/ Busy(s) /\ OpenFails(s) /\ UNCHANGED faults
    /\ UNCHANGED <<begun, script, month, calls, issued, acked>>

SeedCommits(s) ==
    /\ pc[s] = "seeded"
    /\ \/ CommitOk(work) /\ Goto(s, "tables") /\ UNCHANGED <<teleVars, callVars, file, run, faults>>
       \/ Fault /\ OpenFails(s)
    /\ UNCHANGED <<begun, script, month, calls, issued, acked>>

\* Telemetry part: the tables, each statement a transaction of its own, and
\* PRAGMA table_info().
ReadColumns(s) ==
    /\ pc[s] = "tables"
    /\ \/ lacks' = Set(lacks, s, ~tele[file[s]].columns) /\ Goto(s, "alter")
          /\ UNCHANGED <<dbVars, teleVars, tries, atry, file, run, faults>>
       \/ Fault /\ OpenFails(s)
    /\ UNCHANGED <<begun, script, month, calls, issued, acked>>

\* ALTER TABLE for what was missing. A column that another session has added
\* since is "duplicate column", an OperationalError.
Alter(s) ==
    LET late == lacks[s] /\ tele[file[s]].columns
    IN /\ pc[s] = "alter"
       /\ \/ ~late /\ tele' = [tele EXCEPT ![file[s]].columns = TRUE]
             /\ Goto(s, "alloc")
             /\ UNCHANGED <<dbVars, staged, callVars, file, run, faults>>
          \/ late /\ OpenFails(s) /\ UNCHANGED faults
          \/ Fault /\ OpenFails(s)
       /\ UNCHANGED <<begun, script, month, calls, issued, acked>>

---------------------------------------------------------------------------
(* _allocate_sequence_number(), _new_run_id(), begin_new_run_id() *)

\* An OperationalError that leaves the index as "left" says: another try, or
\* the exception reaches open(), which closes and tries again, or the caller
\* of begin_new_run_id().
AllocRetry(s, left) ==
    \/ /\ atry[s] + 1 < MaxRetries /\ left
       /\ atry' = Set(atry, s, atry[s] + 1) /\ Goto(s, "alloc")
       /\ UNCHANGED <<teleVars, tries, lacks, file, run>>
    \/ /\ atry[s] + 1 >= MaxRetries /\ tries[s] # 0
       /\ OpenFails(s)
    \/ /\ atry[s] + 1 >= MaxRetries /\ tries[s] = 0 /\ left
       /\ atry' = Set(atry, s, 0) /\ Goto(s, "open")
       /\ UNCHANGED <<teleVars, tries, lacks, file, run>>

BeginNewRunId(s) ==
    /\ pc[s] = "open" /\ calls < MaxCalls
    /\ Goto(s, "alloc") /\ calls' = calls + 1
    /\ UNCHANGED <<dbVars, teleVars, callVars, file, run, begun, script,
                   month, faults, issued, acked>>

\* BEGIN IMMEDIATE: refused while another session writes, and inside a
\* transaction that a failed commit left open on this very connection.
AllocBegin(s) ==
    /\ pc[s] = "alloc"
    /\ \/ TakeLock(s) /\ work' = index /\ Goto(s, "update")
          /\ UNCHANGED <<index, merged, teleVars, callVars, file, run>>
       \/ writer # 0 /\ AllocRetry(s, UNCHANGED dbVars)
    /\ UNCHANGED <<begun, script, bounds, issued, acked>>

\* The number is the caller's.
Allocated(s, n) ==
    /\ run' = Set(run, s, n) /\ issued' = Append(issued, n) /\ begun' = Set(begun, s, FALSE)
    /\ tries' = Set(tries, s, 0) /\ atry' = Set(atry, s, 0) /\ lacks' = Set(lacks, s, FALSE)
    /\ Goto(s, "open")
    /\ UNCHANGED <<teleVars, file>>

\* The number returned although its commit failed.
AllocCommitUnchecked(s) ==
    LET new == [index EXCEPT !.next = @ + 1]
    IN /\ pc[s] = "update"
       /\ \/ CommitOk(new) /\ UNCHANGED faults
          \/ Fault /\ CommitRaises(s, new)
       /\ Allocated(s, index.next)
       /\ UNCHANGED <<script, month, calls, acked>>

\* SELECT, UPDATE and commit() under the lock. An error of the first two is
\* rolled back; commit() stands outside that try, and what it leaves open
\* nobody rolls back.
AllocCommit(s) ==
    LET new == [index EXCEPT !.next = @ + 1]
    IN /\ pc[s] = "update"
       /\ \/ CommitOk(new) /\ Allocated(s, index.next) /\ UNCHANGED faults
          \/ /\ Fault /\ UNCHANGED <<issued, begun>>
             /\ \/ AllocRetry(s, writer' = 0 /\ work' = index /\ UNCHANGED <<index, merged>>)
                \/ AllocRetry(s, CommitRaises(s, new))
       /\ UNCHANGED <<script, month, calls, acked>>

---------------------------------------------------------------------------
(* Records. A write to the index joins a transaction left open, or opens one. *)

\* A write that does not commit.
WriteIndexUncommitted(s, new, ack) ==
    \/ /\ writer \in {0, s} /\ writer' = s /\ work' = new
       /\ acked' = acked \cup ack /\ UNCHANGED <<index, merged, faults>>
    \/ /\ Busy(s) /\ UNCHANGED <<dbVars, faults, acked>>

\* One statement and its commit on the index: done, refused, or raised.
WriteIndex(s, new, ack) ==
    \/ /\ writer \in {0, s} /\ CommitOk(new)
       /\ acked' = acked \cup ack /\ UNCHANGED faults
    \/ /\ writer \in {0, s} /\ Fault /\ CommitRaises(s, new) /\ UNCHANGED acked
    \/ /\ Busy(s) /\ UNCHANGED <<dbVars, faults, acked>>

\* What the connection of s works on.
Sees(s) == IF writer = s THEN work ELSE index

\* A row that names the current month's file.
StartRunSummaryByMonth(s) ==
    LET new == [Sees(s) EXCEPT !.rows = @ \cup {Row(run[s], run[s], month)}]
    IN /\ pc[s] = "open" /\ ~begun[s]
       /\ begun' = Set(begun, s, TRUE)
       /\ WriteIndex(s, new, {<<run[s], "row">>})
       /\ UNCHANGED <<teleVars, pc, callVars, file, run, script, month, calls, issued>>

\* start_run_summary(), once per run id; start_run_summary_guarded() catches.
StartRunSummary(s) ==
    LET new == [Sees(s) EXCEPT !.rows = @ \cup {Row(run[s], run[s], file[s])}]
    IN /\ pc[s] = "open" /\ ~begun[s]
       /\ begun' = Set(begun, s, TRUE)
       /\ WriteIndex(s, new, {<<run[s], "row">>})
       /\ UNCHANGED <<teleVars, pc, callVars, file, run, script, month, calls, issued>>

\* The end of a run: without its row the UPDATE changes nothing.
FinishRunSummary(s) ==
    LET mine == {r \in Sees(s).rows : r.run = run[s]}
        new == [Sees(s) EXCEPT !.rows = (@ \ mine) \cup {[r EXCEPT !.finished = TRUE] : r \in mine}]
    IN /\ pc[s] = "open" /\ begun[s]
       /\ WriteIndex(s, new, IF mine = {} THEN {} ELSE {<<run[s], "row">>, <<run[s], "end">>})
       /\ UNCHANGED <<teleVars, pc, callVars, file, run, begun, script, month, calls, issued>>

\* record_execution_state(): a row nobody's property needs, and a commit that
\* carries whatever an earlier one left open.
RecordExecutionState(s) ==
    /\ pc[s] = "open"
    /\ WriteIndex(s, Sees(s), {})
    /\ UNCHANGED <<teleVars, pc, callVars, file, run, begun, script, month, calls, issued>>

\* record_measurement(), record(), log_event() on the telemetry database; the
\* lock of that file is held by whoever a failed commit left with staged rows.
RecordTelemetry(s) ==
    LET m == file[s]
        rows == staged[s] \cup {run[s]}
        locked == \E t \in Sessions \ {s} : staged[t] # {} /\ file[t] = m
    IN /\ pc[s] = "open"
       /\ \/ /\ ~locked /\ tele' = [tele EXCEPT ![m].rows = @ \cup rows]
             /\ staged' = Set(staged, s, {}) /\ UNCHANGED faults
          \/ /\ ~locked /\ Fault /\ staged' \in {Set(staged, s, {}), Set(staged, s, rows)}
             /\ UNCHANGED tele
          \/ locked /\ UNCHANGED <<teleVars, faults>>
       /\ UNCHANGED <<dbVars, pc, callVars, file, run, begun, script, month, calls, issued, acked>>

---------------------------------------------------------------------------
(* close(), crash, calendar, backfill *)

\* close(), in the finally of every caller.
CloseStorage(s) ==
    /\ pc[s] = "open"
    /\ Forget(s) /\ Goto(s, "closed")
    /\ begun' = Set(begun, s, FALSE)
    /\ UNCHANGED <<tries, script, bounds, issued, acked>>

\* The process dies: every connection is gone without a checkpoint.
Crash ==
    /\ Connected # {} /\ Fault
    /\ writer' = 0 /\ work' = index
    /\ staged' = [s \in Sessions |-> {}] /\ pc' = [s \in Sessions |-> "closed"]
    /\ tries' = [s \in Sessions |-> 0] /\ atry' = [s \in Sessions |-> 0]
    /\ run' = [s \in Sessions |-> NoRun] /\ begun' = [s \in Sessions |-> FALSE]
    /\ file' = [s \in Sessions |-> 0]
    /\ lacks' = [s \in Sessions |-> FALSE]
    /\ UNCHANGED <<index, merged, tele, script, month, calls,
                   issued, acked>>

\* telemetry_database_file() resolves to another file from now on.
NextMonth ==
    /\ month < MaxMonth /\ month' = month + 1
    /\ UNCHANGED <<dbVars, teleVars, pc, callVars, file, run, begun, script,
                   calls, faults, issued, acked>>

MaxOf(S) == CHOOSE n \in S : \A k \in S : k <= n
LastNumber(rows) == MaxOf({0} \cup {r.number : r \in rows})

\* What the backfill script never touches.
sessionVars == <<teleVars, pc, callVars, file, run, begun, month, issued, acked>>

\* backfill(), by hand, as often as the operator likes and whoever has the
\* index open: the largest number is read, in no transaction. Without the
\* columns the SELECT raises.
BackfillReads ==
    /\ backfill = "idle" /\ index.columns
    /\ backfill' = "read" /\ base' = LastNumber(index.rows) + 1
    /\ care' = IF Connected # {} THEN "beside" ELSE care
    /\ UNCHANGED <<dbVars, calls, faults, sessionVars>>

\* Every row without a number gets one, in insertion order, from what was
\* read; the first commit.
BackfillRows ==
    LET Numbered(r) ==
            IF r.number # 0 THEN r ELSE [r EXCEPT !.number = base + r.run + NumLegacy]
        new == [index EXCEPT !.rows = {Numbered(r) : r \in @}]
    IN /\ backfill = "read" /\ writer = 0
       /\ backfill' = "rows" /\ base' = 0
       /\ care' = IF care = "kept" THEN "half" ELSE care
       /\ index' = new /\ work' = new
       /\ UNCHANGED <<writer, merged, calls, faults, sessionVars>>

\* The script's connection closes; the last one moves the log into the file.
ScriptCloses(new) == merged' = (IF Connected = {} THEN new ELSE merged)

\* The seed ignoring what is there.
BackfillSeedBlind ==
    /\ backfill = "rows" /\ writer = 0
    /\ backfill' = "idle" /\ care' = IF care = "half" THEN "kept" ELSE care
    /\ index' = [index EXCEPT !.next = IF @ = 0 THEN 1 ELSE @] /\ work' = index'
    /\ ScriptCloses(index')
    /\ UNCHANGED <<writer, base, calls, faults, sessionVars>>

\* Then run_sequence is raised above them, never lowered; the second commit.
BackfillSeed ==
    LET n == LastNumber(index.rows) + 1
    IN /\ backfill = "rows" /\ writer = 0
       /\ backfill' = "idle" /\ care' = IF care = "half" THEN "kept" ELSE care
       /\ index' = [index EXCEPT !.next = IF n > @ THEN n ELSE @] /\ work' = index'
       /\ ScriptCloses(index')
       /\ UNCHANGED <<writer, base, calls, faults, sessionVars>>

\* The script ends before that: a session holds the lock for longer than it
\* waits, a statement or a commit raises, or its process is killed.
BackfillFails ==
    /\ backfill # "idle"
    /\ \/ writer # 0 /\ UNCHANGED faults /\ ScriptCloses(index)
       \/ Fault /\ (ScriptCloses(index) \/ UNCHANGED merged)
    /\ backfill' = "idle" /\ base' = 0
    /\ UNCHANGED <<index, work, writer, care, calls, sessionVars>>

---------------------------------------------------------------------------

Session(s) ==
    \/ Attempt(s) \/ SeedCommits(s) \/ ReadColumns(s) \/ Alter(s) \/ OpenAborts(s)
    \/ AllocBegin(s) \/ AllocCommit(s)

Caller(s) ==
    \/ OpenStorage(s) \/ BeginNewRunId(s) \/ StartRunSummary(s) \/ FinishRunSummary(s)
    \/ RecordExecutionState(s) \/ RecordTelemetry(s) \/ CloseStorage(s)

Next ==
    \/ \E s \in Sessions : Session(s) \/ Caller(s)
    \/ Crash \/ NextMonth
    \/ BackfillReads \/ BackfillRows \/ BackfillSeed \/ BackfillFails

Spec == Init /\ [][Next]_vars

\* A call of open() or begin_new_run_id() goes on; nobody has to call.
FairSpec == Spec /\ \A s \in Sessions : WF_vars(Session(s))

---------------------------------------------------------------------------
(* Properties *)

Issuer == INSTANCE SequenceIssuer WITH counter <- index.next

\* The allocator over several connections, with retries, failed commits,
\* crashes, restarts and the backfill, implements the global run sequence.
ImplementsIssuer == Issuer!Spec

\* No two runs in the index carry the same sequence number.
Unique(rows) == \A a, b \in rows : a.number = b.number /\ a.number # 0 => a.run = b.run

\* As long as no session was open beside the backfill script, nor opened
\* between its two commits or after it died there, sequence numbers are unique:
\* however often the script died on the way and was run again, and whatever
\* sessions did before and after it.
QuietBackfillIsUnique == care \in {"kept", "half"} => Unique(index.rows)

\* "a freshly-allocated sequence number is unique by construction on every
\* call" and a backfill re-run "after a partial pass ... never reassigns or
\* collides" (docs/architecture.md:8691, 8703): uniqueness with no session
\* beside the running script. The code does not keep it: the script commits
\* the rows' numbers before it raises the counter, and a session opened after
\* it died in between is given one of them.
PartialBackfillIsUnique == care # "beside" => Unique(index.rows)

\* open_for_forensic_export(run_id): the row as read from the file alone. With
\* the columns still in the log only, the SELECT raises and there is no answer.
ExportAnswers(r) ==
    CASE ~merged.columns -> "raises"
      [] merged.columns /\ (\E row \in merged.rows : row.run = r) -> "found"
      [] OTHER -> "not found"

\* The telemetry file a run's row names holds every measurement and event
\* recorded under that run id, whatever the month was (storage.py,
\* telemetry_db).
TelemetryWhereRecorded ==
    \A row \in index.rows, m \in Months :
        row.telemetry # 0 /\ row.run \in tele[m].rows => m = row.telemetry

\* What a write reported as done is there for good: through failed commits of
\* later writes, transactions left open, closed sessions and crashes.
AcknowledgedSurvives ==
    \A a \in acked :
        \/ a[2] = "row" /\ \E row \in index.rows : row.run = a[1]
        \/ a[2] = "end" /\ \E row \in index.rows : row.run = a[1] /\ row.finished

\* open() and begin_new_run_id() return or raise, whoever holds the lock: the
\* nested retries are bounded.
CallsReturn == \A s \in Sessions : pc[s] \notin {"open", "closed"} ~> pc[s] \in {"open", "closed"}

\* storage.py:1325-1327: once nobody has the index open, a forensic export
\* answers that a run is not there only when it is not in the index.
NotFoundMeansAbsent ==
    Connected = {} /\ backfill = "idle" =>
        \A row \in index.rows : ExportAnswers(row.run) # "not found"
=============================================================================

-------------------------- MODULE RunStorageProofs --------------------------
(***************************************************************************)
(* Proofs about RunStorage, for every number of sessions, retries, legacy  *)
(* rows and months and without the bounds on calls and faults mattering:   *)
(* the run sequence is handed out as SequenceIssuer says, numbers are      *)
(* unique while no session meets the backfill script, telemetry is found   *)
(* in the file its run names, and an acknowledged row is never lost.       *)
(***************************************************************************)
EXTENDS RunStorage, WellFoundedInduction, TLAPS

USE DEF dbVars, teleVars, callVars, bounds, script, sessionVars

---------------------------------------------------------------------------
(* The largest number of the index *)

\* A bounded set of naturals has a largest element, and MaxOf() is it: SELECT
\* MAX(sequence_number) of the backfill is defined.
LEMMA MaxOfIsMax ==
    ASSUME NEW S \in SUBSET Nat, S # {}, NEW B \in Nat, \A k \in S : k <= B
    PROVE  MaxOf(S) \in S /\ \A k \in S : k <= MaxOf(S)
<1> DEFINE T == {B - k : k \in S}
           R == {p \in Nat \X Nat : p[1] < p[2]}
<1>1. IsWellFoundedOn(R, Nat)
  BY NatLessThanWellFounded DEF OpToRel
<1>2. T \subseteq Nat /\ T # {}
  <2>1. \A k \in S : B - k \in Nat
    OBVIOUS
  <2>2. PICK k \in S : TRUE
    OBVIOUS
  <2>3. B - k \in T
    BY <2>2
  <2> QED
    BY <2>1, <2>3
<1>3. \E x \in T : \A y \in T : ~(<<y, x>> \in R)
  <2> HIDE DEF T, R
  <2> QED BY <1>1, <1>2, WFMin
<1>4. PICK x \in T : \A y \in T : ~(y < x)
  BY <1>2, <1>3
<1>5. PICK n \in S : x = B - n
  BY <1>4
<1>6. \A k \in S : k <= n
  BY <1>4, <1>5
<1> QED
  BY <1>5, <1>6 DEF MaxOf

---------------------------------------------------------------------------
(* Who writes, and where a session is *)

\* The fields of an index that the proofs read.
IndexOK(d) ==
    /\ "next" \in DOMAIN d /\ "columns" \in DOMAIN d /\ "rows" \in DOMAIN d
    /\ d.next \in Nat

\* One writer at a time, whose session is not closed; a session that is about
\* to commit is the writer; without a writer there is no uncommitted work; and
\* a transaction never lowers the counter.
LockInv ==
    /\ IndexOK(index) /\ IndexOK(work) /\ index.next <= work.next
    /\ writer \in {0} \cup Sessions
    /\ writer = 0 => work = index
    /\ writer # 0 => pc[writer] # "closed"
    /\ \A s \in Sessions : pc[s] \in {"seeded", "update"} => writer = s
    /\ \A s \in Sessions : pc[s] = "seeded" => work.next > 0
    /\ \A s \in Sessions : pc[s] \in {"tables", "alter", "alloc", "update", "open"} => index.next > 0

PCs == {"closed", "attempt", "seeded", "tables", "alter", "alloc", "update", "open"}

\* The script runs, or has left its work half done, and no session has come
\* near it.
Alone == care \in {"kept", "half"} /\ (care = "half" \/ backfill # "idle")

\* What a session holds at each step of open() and begin_new_run_id(): no run
\* id and no staged rows before the first number, a run id once it is open.
SessionInv ==
    /\ pc \in [Sessions -> PCs] /\ tries \in [Sessions -> Nat]
    /\ run \in [Sessions -> Nat]
    /\ file \in [Sessions -> Nat] /\ month \in Nat
    /\ DOMAIN staged = Sessions
    /\ \A s \in Sessions : pc[s] \in {"closed", "attempt"} => run[s] = 0 /\ staged[s] = {}
    /\ \A s \in Sessions : pc[s] \in {"attempt", "seeded", "tables", "alter"} => tries[s] # 0
    /\ \A s \in Sessions : pc[s] \in {"closed", "open"} => tries[s] = 0
    /\ \A s \in Sessions : pc[s] \in {"alloc", "update"} /\ tries[s] = 0 => run[s] # 0
    /\ \A s \in Sessions : pc[s] = "open" => run[s] # 0
    /\ Alone => \A s \in Sessions : pc[s] = "closed"

---------------------------------------------------------------------------
(* The invariants of the records *)

\* Committed and uncommitted rows of run_summary.
Rows == index.rows \cup work.rows

\* A row is a legacy one, or its number is its run id.
RowOK(r) ==
    /\ "run" \in DOMAIN r /\ "number" \in DOMAIN r
    /\ "telemetry" \in DOMAIN r /\ "finished" \in DOMAIN r
    /\ r.number \in Nat
    /\ \/ r.run \in Legacy /\ r.telemetry = 0
       \/ r.run \in Nat /\ r.run # 0 /\ r.number = r.run
    /\ r.run < index.next

\* While nobody has come near the script, the numbers are different; they lie
\* below the counter except where it has left its work half done, and below what
\* it has read before it writes; a run id that a session holds is no other
\* run's number.
QuietInv ==
    /\ care = "kept" => \A r \in Rows : r.number = 0 \/ r.number < index.next
    /\ backfill = "read" => \A r \in Rows : r.number < base
    /\ Unique(index.rows) /\ Unique(work.rows)
    /\ \A s \in Sessions : run[s] # 0 => \A r \in Rows : r.number = run[s] => r.run = run[s]

\* What holds of the numbers whatever the script and the sessions do to each
\* other: they are bounded, and a run id held by a session was handed out.
NumberInv ==
    /\ \A r \in Rows : RowOK(r)
    /\ \E B \in Nat : \A r \in Rows : r.number <= B
    /\ base \in Nat /\ (backfill = "read" => base > 0)
    /\ care \in {"kept", "half", "late", "beside"}
    /\ \A s \in Sessions : run[s] # 0 => run[s] < index.next
    /\ care \in {"kept", "half"} => QuietInv

\* The run ids under which session s has recorded or may still record.
Own(s) == staged[s] \cup ({run[s]} \ {0})

\* Everything under a run id goes to one file, the one its row names, and no
\* two sessions share a run id.
TelemetryInv ==
    /\ DOMAIN tele = Months
    /\ \A m \in Months : "rows" \in DOMAIN tele[m] /\ "columns" \in DOMAIN tele[m]
    /\ \A m \in Months : \A x \in tele[m].rows : x \in Nat /\ x < index.next
    /\ \A s \in Sessions : \A x \in Own(s) : x \in Nat /\ x < index.next
    /\ \A r \in Rows, m \in Months : r.telemetry # 0 /\ r.run \in tele[m].rows => m = r.telemetry
    /\ \A s \in Sessions : \A x \in Own(s) :
         /\ \A m \in Months : x \in tele[m].rows => m = file[s]
         /\ \A r \in Rows : r.run = x /\ r.telemetry # 0 => r.telemetry = file[s]
    /\ \A s, t \in Sessions : \A x \in Own(s) : x \in Own(t) => s = t

\* An acknowledged write is in a set of rows.
Holds(rows, a) ==
    \/ a[2] = "row" /\ \E row \in rows : row.run = a[1]
    \/ a[2] = "end" /\ \E row \in rows : row.run = a[1] /\ row.finished

\* Whatever happens to the open transaction, an acknowledged write is in what
\* remains.
AckInv == \A a \in acked : Holds(index.rows, a) /\ Holds(work.rows, a)

---------------------------------------------------------------------------
(* The steps by what they do *)

\* A session gives up what it had open: close(), a failed attempt of open(),
\* or open() raising.
Leaves(s) ==
    /\ pc[s] # "closed" /\ Forget(s)
    /\ \/ Goto(s, "closed") /\ tries' = Set(tries, s, 0)
       \/ pc[s] = "open" /\ Goto(s, "closed") /\ tries' = tries
       \/ Goto(s, "attempt") /\ tries' = Set(tries, s, tries[s] + 1)
    /\ UNCHANGED <<script, month, issued, acked>>

\* An allocation tries again, or gives up and leaves begin_new_run_id().
Retries(s) ==
    /\ \/ Goto(s, "alloc")
       \/ Goto(s, "open") /\ tries[s] = 0
    /\ UNCHANGED <<teleVars, tries, file, run, script, month, issued, acked>>

\* What an allocation that did not commit leaves of its transaction.
Undone(s) ==
    /\ UNCHANGED index
    /\ \/ writer' = 0 /\ work' = index
       \/ writer' = s /\ work' = [index EXCEPT !.next = @ + 1]

\* The write of a record, and what the open transaction holds afterwards.
Writes(s, new, ack) ==
    /\ \/ /\ writer \in {0, s}
          /\ index' = new /\ work' = new /\ writer' = 0 /\ acked' = acked \cup ack
       \/ /\ writer \in {0, s} /\ UNCHANGED <<index, acked>>
          /\ \/ writer' = 0 /\ work' = index
             \/ writer' = s /\ work' = new
       \/ UNCHANGED <<index, work, writer, acked>>
    /\ pc[s] = "open"
    /\ UNCHANGED <<pc, tries, file, run, teleVars, script, month, issued>>

\* An attempt of open() takes the lock, or is given up.
LEMMA AttemptKinds ==
    ASSUME NEW s \in Sessions, Attempt(s)
    PROVE  \/ Leaves(s)
           \/ /\ pc[s] = "attempt" /\ TakeLock(s) /\ Goto(s, "seeded")
              /\ work' = [index EXCEPT !.next = IF @ = 0 THEN 1 ELSE @, !.columns = TRUE]
              /\ file' = Set(file, s, month)
              /\ UNCHANGED <<index, teleVars, tries, run, script, month, issued, acked>>
  BY DEF Attempt, OpenFails, Leaves, Goto

\* The seed of the counter is committed, or the attempt is given up.
LEMMA SeedKinds ==
    ASSUME NEW s \in Sessions, SeedCommits(s)
    PROVE  \/ Leaves(s)
           \/ /\ pc[s] = "seeded" /\ CommitOk(work) /\ Goto(s, "tables")
              /\ UNCHANGED <<teleVars, tries, file, run, script, month, issued, acked>>
  BY DEF SeedCommits, OpenFails, Leaves, Goto

\* The telemetry part of open() reads before it changes anything.
LEMMA ReadKinds ==
    ASSUME NEW s \in Sessions, ReadColumns(s)
    PROVE  \/ Leaves(s)
           \/ /\ pc[s] = "tables" /\ Goto(s, "alter")
              /\ UNCHANGED <<dbVars, teleVars, tries, file, run, script, month, issued, acked>>
  BY DEF ReadColumns, OpenFails, Leaves, Goto

\* It adds the missing columns.
LEMMA AlterKinds ==
    ASSUME NEW s \in Sessions, Alter(s)
    PROVE  \/ Leaves(s)
           \/ /\ pc[s] = "alter" /\ Goto(s, "alloc")
              /\ tele' = [tele EXCEPT ![file[s]].columns = TRUE]
              /\ UNCHANGED <<dbVars, staged, tries, file, run, script, month, issued, acked>>
  BY DEF Alter, OpenFails, Leaves, Goto

\* BEGIN IMMEDIATE takes the lock, or is refused.
LEMMA BeginKinds ==
    ASSUME NEW s \in Sessions, AllocBegin(s)
    PROVE  \/ Leaves(s)
           \/ /\ pc[s] = "alloc" /\ TakeLock(s) /\ Goto(s, "update") /\ work' = index
              /\ UNCHANGED <<index, teleVars, tries, file, run, script, month, issued, acked>>
           \/ pc[s] = "alloc" /\ Retries(s) /\ UNCHANGED dbVars
  BY DEF AllocBegin, AllocRetry, OpenFails, Leaves, Retries, Goto

\* The commit of an allocation hands its number out, or it does not.
LEMMA CommitKinds ==
    ASSUME NEW s \in Sessions, AllocCommit(s)
    PROVE  \/ Leaves(s)
           \/ /\ pc[s] = "update" /\ CommitOk([index EXCEPT !.next = @ + 1])
              /\ Allocated(s, index.next)
              /\ UNCHANGED <<script, month, acked>>
           \/ pc[s] = "update" /\ Retries(s) /\ Undone(s)
  BY DEF AllocCommit, AllocRetry, CommitRaises, OpenFails, Leaves, Retries, Undone, Goto

\* close() and an open() that raises give everything up.
LEMMA OtherLeaves ==
    ASSUME NEW s \in Sessions, CloseStorage(s) \/ (OpenAborts(s) /\ pc[s] # "closed")
    PROVE  Leaves(s)
  BY DEF CloseStorage, OpenAborts, Leaves, Goto

\* The three writers of records.
StartRow(s) == [Sees(s) EXCEPT !.rows = @ \cup {Row(run[s], run[s], file[s])}]
Mine(s) == {r \in Sees(s).rows : r.run = run[s]}
FinishRow(s) ==
    [Sees(s) EXCEPT !.rows = (@ \ Mine(s)) \cup {[r EXCEPT !.finished = TRUE] : r \in Mine(s)}]

\* Each writes through WriteIndex().
LEMMA WriteKinds ==
    ASSUME NEW s \in Sessions
    PROVE  /\ StartRunSummary(s) => Writes(s, StartRow(s), {<<run[s], "row">>})
           /\ FinishRunSummary(s) =>
                Writes(s, FinishRow(s),
                       IF Mine(s) = {} THEN {} ELSE {<<run[s], "row">>, <<run[s], "end">>})
           /\ RecordExecutionState(s) => Writes(s, Sees(s), {})
<1> USE DEF WriteIndex, CommitOk, CommitRaises, Writes
<1>1. StartRunSummary(s) => Writes(s, StartRow(s), {<<run[s], "row">>})
  BY DEF StartRunSummary, StartRow
<1>2. FinishRunSummary(s) =>
        Writes(s, FinishRow(s),
               IF Mine(s) = {} THEN {} ELSE {<<run[s], "row">>, <<run[s], "end">>})
  BY DEF FinishRunSummary, FinishRow, Mine
<1>3. RecordExecutionState(s) => Writes(s, Sees(s), {})
  BY DEF RecordExecutionState
<1> QED
  BY <1>1, <1>2, <1>3

---------------------------------------------------------------------------
(* Locks and sessions are inductive *)

\* What the writes of records do to the counter: nothing beyond what an
\* allocation left in the open transaction.
LEMMA WrittenNext ==
    ASSUME LockInv, NEW s \in Sessions,
           NEW new \in {StartRow(s), FinishRow(s), Sees(s)}
    PROVE  IndexOK(new) /\ index.next <= new.next
<1>1. IndexOK(Sees(s)) /\ index.next <= Sees(s).next
  BY DEF Sees, LockInv, IndexOK
<1>2. StartRow(s).next = Sees(s).next /\ FinishRow(s).next = Sees(s).next
  BY <1>1 DEF StartRow, FinishRow, IndexOK
<1>3. DOMAIN StartRow(s) = DOMAIN Sees(s) /\ DOMAIN FinishRow(s) = DOMAIN Sees(s)
  BY DEF StartRow, FinishRow
<1> HIDE DEF StartRow, FinishRow, Sees
<1> QED
  BY <1>1, <1>2, <1>3 DEF IndexOK

\* Every step of a session keeps both.
LEMMA BaseSession ==
    ASSUME LockInv, SessionInv, NEW s \in Sessions, Session(s) \/ Caller(s)
    PROVE  LockInv' /\ SessionInv'
<1> USE DEF LockInv, SessionInv, Alone, Goto, Set, PCs, TakeLock
<1>0. 0 \notin Sessions /\ writer \in Nat
  BY RunStorageAssumption DEF Sessions
<1>1. CASE Leaves(s)
  <2>1. /\ UNCHANGED index /\ IndexOK(index)
        /\ \/ writer = s /\ writer' = 0 /\ work' = index
           \/ writer # s /\ UNCHANGED <<writer, work>>
    BY <1>1 DEF Leaves, Forget, Drop
  <2>2. pc' \in {[pc EXCEPT ![s] = "closed"], [pc EXCEPT ![s] = "attempt"]} /\ pc[s] # "closed"
    BY <1>1 DEF Leaves
  <2>3. LockInv'
    BY <1>0, <2>1, <2>2 DEF IndexOK
  <2>4. SessionInv'
    BY <1>1 DEF Leaves, Forget, Drop, NoRun
  <2> QED
    BY <2>3, <2>4
<1>2. CASE Attempt(s)
  <2>1. CASE ~Leaves(s)
    <3> DEFINE first == IF index.next = 0 THEN 1 ELSE index.next
               new == [index EXCEPT !.next = first, !.columns = TRUE]
    <3>2. new.next = first /\ DOMAIN new = DOMAIN index /\ index.next \in Nat
      BY DEF IndexOK
    <3>3. work' = new
      BY <1>2, <2>1, AttemptKinds
    <3>1. IndexOK(work)' /\ work'.next > 0 /\ index.next <= work'.next
      <4> HIDE DEF new
      <4> QED BY <3>2, <3>3 DEF IndexOK
    <3> QED
      BY <1>0, <1>2, <2>1, <3>1, AttemptKinds
  <2> QED BY <1>1, <2>1
<1>3. CASE SeedCommits(s)
  BY <1>0, <1>1, <1>3, SeedKinds DEF CommitOk, IndexOK
<1>4. CASE ReadColumns(s)
  BY <1>0, <1>1, <1>4, ReadKinds
<1>5. CASE Alter(s)
  BY <1>0, <1>1, <1>5, AlterKinds
<1>6. CASE OpenAborts(s)
  BY <1>1, <1>6, OtherLeaves DEF OpenAborts
<1>7. CASE AllocBegin(s)
  BY <1>0, <1>1, <1>7, BeginKinds DEF Retries
<1>8. CASE AllocCommit(s)
  <2>1. /\ IndexOK([index EXCEPT !.next = @ + 1])
        /\ [index EXCEPT !.next = @ + 1].next = index.next + 1
    BY DEF IndexOK
  <2> DEFINE new == [index EXCEPT !.next = @ + 1]
  <2> HIDE DEF new
  <2>2. CASE /\ pc[s] = "update" /\ CommitOk(new)
             /\ Allocated(s, index.next) /\ UNCHANGED <<script, month, acked>>
    BY <1>0, <2>1, <2>2 DEF CommitOk, Allocated, IndexOK, new
  <2>3. CASE pc[s] = "update" /\ Retries(s) /\ Undone(s)
    BY <1>0, <2>1, <2>3 DEF Retries, Undone, IndexOK
  <2> QED
    BY <1>1, <1>8, <2>2, <2>3, CommitKinds DEF new
<1>9. CASE OpenStorage(s)
  BY <1>0, <1>9 DEF OpenStorage
<1>10. CASE BeginNewRunId(s)
  BY <1>0, <1>10 DEF BeginNewRunId
<1>11. ASSUME NEW new \in {StartRow(s), FinishRow(s), Sees(s)}, NEW ack, Writes(s, new, ack)
       PROVE  LockInv' /\ SessionInv'
  <2>1. IndexOK(new) /\ index.next <= new.next
    BY <1>11, WrittenNext
  <2> QED
    BY <1>0, <1>11, <2>1 DEF Writes, IndexOK
<1>12. CASE StartRunSummary(s) \/ FinishRunSummary(s) \/ RecordExecutionState(s)
  BY <1>11, <1>12, WriteKinds
<1>13. CASE RecordTelemetry(s)
  BY <1>0, <1>13 DEF RecordTelemetry
<1>14. CASE CloseStorage(s)
  BY <1>1, <1>14, OtherLeaves
<1> QED
  BY <1>2, <1>3, <1>4, <1>5, <1>6, <1>7, <1>8, <1>9, <1>10, <1>12, <1>13, <1>14
     DEF Session, Caller

---------------------------------------------------------------------------
(* What a step means for the records *)

\* No record is written: committed and uncommitted rows are two of those there
\* were, and a session keeps what it has or gives it all up.
Keep ==
    /\ index'.rows \in {index.rows, work.rows} /\ work'.rows \in {index.rows, work.rows}
    /\ index'.next >= index.next
    /\ \A t \in Sessions :
         \/ run'[t] = run[t] /\ file'[t] = file[t] /\ staged'[t] = staged[t]
         \/ run'[t] = 0 /\ staged'[t] = {}
    /\ \/ UNCHANGED tele
       \/ \E m \in Nat : tele' = [tele EXCEPT ![m].columns = TRUE]
    /\ UNCHANGED <<acked, backfill, base, issued>>
    /\ care' = care \/ care' \in {"late", "beside"}

\* A session gets the next number.
Take(s) ==
    /\ index'.rows = index.rows /\ work'.rows = index.rows
    /\ index.next > 0 /\ index'.next = index.next + 1
    /\ run' = [run EXCEPT ![s] = index.next] /\ issued' = Append(issued, index.next)
    /\ pc[s] = "update" /\ UNCHANGED <<file, teleVars, acked, script>>

\* start_run_summary() and finish_run_summary().
Starts(s) == Writes(s, StartRow(s), {<<run[s], "row">>})
Finishes(s) ==
    Writes(s, FinishRow(s), IF Mine(s) = {} THEN {} ELSE {<<run[s], "row">>, <<run[s], "end">>})

\* Every step of a session is one of these.
LEMMA SessionKinds ==
    ASSUME LockInv, SessionInv, NEW s \in Sessions, Session(s) \/ Caller(s)
    PROVE  Keep \/ Take(s) \/ Starts(s) \/ Finishes(s) \/ RecordTelemetry(s)
<1> USE DEF LockInv, SessionInv, Goto, Set, TakeLock, Keep
<1>0. 0 \notin Sessions /\ index.next \in Nat /\ work.next \in Nat
  BY RunStorageAssumption DEF Sessions, IndexOK
<1>1. CASE Leaves(s)
  BY <1>0, <1>1 DEF Leaves, Forget, Drop, NoRun
<1>2. CASE Attempt(s)
  <2>1. CASE ~Leaves(s)
    <3>1. work'.rows = index.rows
      BY <1>2, <2>1, AttemptKinds DEF IndexOK
    <3> QED
      BY <1>0, <1>2, <2>1, <3>1, AttemptKinds
  <2> QED BY <1>1, <2>1
<1>3. CASE SeedCommits(s)
  BY <1>0, <1>1, <1>3, SeedKinds DEF CommitOk
<1>4. CASE ReadColumns(s)
  BY <1>0, <1>1, <1>4, ReadKinds
<1>5. CASE Alter(s)
  BY <1>0, <1>1, <1>5, AlterKinds
<1>6. CASE OpenAborts(s)
  BY <1>1, <1>6, OtherLeaves DEF OpenAborts
<1>7. CASE AllocBegin(s)
  BY <1>0, <1>1, <1>7, BeginKinds DEF Retries
<1>8. CASE AllocCommit(s)
  <2> DEFINE new == [index EXCEPT !.next = @ + 1]
  <2>1. new.next = index.next + 1 /\ new.rows = index.rows
    BY DEF IndexOK
  <2> HIDE DEF new
  <2>2. CASE /\ pc[s] = "update" /\ CommitOk(new)
             /\ Allocated(s, index.next) /\ UNCHANGED <<script, month, acked>>
    <3>1. Take(s)
      BY <2>1, <2>2 DEF CommitOk, Allocated, Take
    <3> QED BY <3>1
  <2>3. CASE pc[s] = "update" /\ Retries(s) /\ Undone(s)
    <3>1. UNCHANGED index /\ work' \in {index, new}
      BY <2>3 DEF Undone, new
    <3>2. work'.rows = index.rows
      BY <2>1, <3>1
    <3> QED
      BY <1>0, <2>3, <3>1, <3>2 DEF Retries
  <2> QED
    BY <1>1, <1>8, <2>2, <2>3, CommitKinds DEF new
<1>9. CASE OpenStorage(s)
  BY <1>0, <1>9 DEF OpenStorage
<1>10. CASE BeginNewRunId(s)
  BY <1>0, <1>10 DEF BeginNewRunId
<1>11. CASE StartRunSummary(s)
  BY <1>11, WriteKinds DEF Starts
<1>12. CASE FinishRunSummary(s)
  BY <1>12, WriteKinds DEF Finishes
<1>13. CASE RecordExecutionState(s)
  BY <1>0, <1>13, WriteKinds DEF Writes, Sees
<1>14. CASE RecordTelemetry(s)
  BY <1>14
<1>15. CASE CloseStorage(s)
  BY <1>1, <1>15, OtherLeaves
<1> QED
  BY <1>2, <1>3, <1>4, <1>5, <1>6, <1>7, <1>8, <1>9, <1>10, <1>11, <1>12, <1>13,
     <1>14, <1>15 DEF Session, Caller

\* So is every step of the system, the backfill script apart.
LEMMA Kinds ==
    ASSUME LockInv, SessionInv, [Next]_vars
    PROVE  \/ Keep
           \/ \E s \in Sessions : Take(s) \/ Starts(s) \/ Finishes(s) \/ RecordTelemetry(s)
           \/ BackfillReads \/ BackfillFails \/ BackfillRows \/ BackfillSeed
<1> USE DEF LockInv, SessionInv, Keep
<1>0. index.next \in Nat
  BY DEF IndexOK
<1>1. CASE \E s \in Sessions : Session(s) \/ Caller(s)
  BY <1>1, SessionKinds
<1>2. CASE Crash
  BY <1>0, <1>2 DEF Crash, NoRun
<1>3. CASE NextMonth
  BY <1>0, <1>3 DEF NextMonth
<1>4. CASE UNCHANGED vars
  BY <1>0, <1>4 DEF vars
<1> QED
  BY <1>1, <1>2, <1>3, <1>4 DEF Next

---------------------------------------------------------------------------
(* Numbers *)

\* The same row but for its end.
Same(q, r) ==
    /\ DOMAIN q = DOMAIN r
    /\ q.run = r.run /\ q.number = r.number /\ q.telemetry = r.telemetry

\* What a new row of run_summary holds.
LEMMA RowFields ==
    ASSUME NEW r, NEW n, NEW m
    PROVE  /\ Row(r, n, m).run = r /\ Row(r, n, m).number = n /\ Row(r, n, m).telemetry = m
           /\ DOMAIN Row(r, n, m) = {"run", "number", "telemetry", "finished"}
  BY DEF Row

\* The rows after start_run_summary().
LEMMA StartRowRows ==
    ASSUME LockInv, NEW s \in Sessions
    PROVE  StartRow(s).rows = Sees(s).rows \cup {Row(run[s], run[s], file[s])}
<1>1. "rows" \in DOMAIN Sees(s)
  BY DEF LockInv, IndexOK, Sees
<1> QED
  BY <1>1 DEF StartRow

\* The rows after finish_run_summary(): those there were, but for their end.
LEMMA FinishRowRows ==
    ASSUME LockInv, NumberInv, NEW s \in Sessions
    PROVE  \A q \in FinishRow(s).rows : \E r \in Sees(s).rows : Same(q, r)
<1>1. "rows" \in DOMAIN Sees(s) /\ Sees(s).rows \in {index.rows, work.rows}
  BY DEF LockInv, IndexOK, Sees
<1>2. FinishRow(s).rows =
        (Sees(s).rows \ Mine(s)) \cup {[r EXCEPT !.finished = TRUE] : r \in Mine(s)}
  BY <1>1 DEF FinishRow
<1>3. \A r \in Sees(s).rows : Same(r, r)
  BY DEF Same
<1>4. \A r \in Mine(s) : r \in Sees(s).rows /\ Same([r EXCEPT !.finished = TRUE], r)
  <2> SUFFICES ASSUME NEW r \in Mine(s)
               PROVE  r \in Sees(s).rows /\ Same([r EXCEPT !.finished = TRUE], r)
    OBVIOUS
  <2>1. r \in Sees(s).rows /\ r \in Rows
    BY <1>1 DEF Mine, Rows
  <2>2. "run" \in DOMAIN r /\ "number" \in DOMAIN r /\ "telemetry" \in DOMAIN r
    BY <2>1 DEF NumberInv, RowOK
  <2> QED
    BY <2>1, <2>2 DEF Same
<1> QED
  BY <1>2, <1>3, <1>4

\* The largest number in the index bounds them all.
LEMMA LastNumberBounds ==
    ASSUME LockInv, NumberInv
    PROVE  /\ LastNumber(index.rows) \in Nat
           /\ \A r \in index.rows : r.number \in Nat /\ r.number <= LastNumber(index.rows)
<1> DEFINE S == {0} \cup {r.number : r \in index.rows}
<1>1. PICK B \in Nat : \A r \in index.rows : r.number <= B
  BY DEF NumberInv, Rows
<1>2. \A r \in index.rows : r.number \in Nat
  BY DEF NumberInv, RowOK, Rows
<1>3. S \in SUBSET Nat /\ S # {} /\ \A k \in S : k <= B
  BY <1>1, <1>2
<1>4. MaxOf(S) \in S /\ \A k \in S : k <= MaxOf(S)
  <2> HIDE DEF S
  <2> QED BY <1>3, MaxOfIsMax
<1>5. LastNumber(index.rows) = MaxOf(S)
  BY DEF LastNumber
<1> QED
  BY <1>2, <1>3, <1>4, <1>5

\* A session that is not closed has met no script at work, or care is gone.
LEMMA QuietSession ==
    ASSUME SessionInv, NEW s \in Sessions, pc[s] # "closed", care \in {"kept", "half"}
    PROVE  care = "kept" /\ backfill = "idle"
  BY DEF SessionInv, Alone

\* A step that writes no record changes no number.
LEMMA NumberKeep == LockInv /\ SessionInv /\ NumberInv /\ LockInv' /\ Keep => NumberInv'
<1> SUFFICES ASSUME LockInv, SessionInv, NumberInv, LockInv', Keep PROVE NumberInv'
  OBVIOUS
<1>0. index.next \in Nat /\ index'.next \in Nat /\ index.next <= index'.next
  BY DEF LockInv, IndexOK, Keep
<1>1. Rows' \subseteq Rows /\ UNCHANGED <<backfill, base>>
  BY DEF Rows, Keep
<1>2. \A r \in Rows : r.number \in Nat /\ r.run \in Int
  BY RunStorageAssumption DEF NumberInv, RowOK, Legacy
<1>3. \A r \in Rows' : RowOK(r)'
  BY <1>0, <1>1, <1>2 DEF NumberInv, RowOK
<1>4. \A t \in Sessions : run'[t] # 0 => run'[t] = run[t] /\ run[t] \in Nat
  BY DEF Keep, SessionInv
<1>5. \A t \in Sessions : run'[t] # 0 => run'[t] < index'.next
  BY <1>0, <1>4 DEF NumberInv
<1>6. ASSUME care' \in {"kept", "half"} PROVE QuietInv'
  <2>1. QuietInv /\ care' = care
    BY <1>6 DEF Keep, NumberInv
  <2>2. Unique(index.rows)' /\ Unique(work.rows)'
    BY <2>1 DEF QuietInv, Keep, Unique
  <2>3. \A t \in Sessions : run'[t] # 0 => \A r \in Rows' : r.number = run'[t] => r.run = run'[t]
    BY <1>1, <1>4, <2>1 DEF QuietInv
  <2>4. care = "kept" => \A r \in Rows' : r.number = 0 \/ r.number < index'.next
    BY <1>0, <1>1, <1>2, <2>1 DEF QuietInv
  <2> QED
    BY <1>1, <2>1, <2>2, <2>3, <2>4 DEF QuietInv
<1>7. \E B \in Nat : \A r \in Rows' : r.number <= B
  BY <1>1 DEF NumberInv
<1>8. care' \in {"kept", "half", "late", "beside"}
  BY DEF Keep, NumberInv
<1> QED
  BY <1>1, <1>3, <1>5, <1>6, <1>7, <1>8 DEF NumberInv

\* Neither does a measurement or an event.
LEMMA NumberTelemetry ==
    ASSUME LockInv, SessionInv, NumberInv, NEW s \in Sessions, RecordTelemetry(s)
    PROVE  NumberInv'
  BY DEF RecordTelemetry, NumberInv, QuietInv, RowOK, Rows, Unique

\* The number taken is nobody's yet.
LEMMA NumberTake ==
    ASSUME LockInv, SessionInv, NumberInv, LockInv', NEW s \in Sessions, Take(s)
    PROVE  NumberInv'
<1>0. index.next \in Nat /\ index'.next = index.next + 1 /\ index.next > 0
  BY DEF LockInv, IndexOK, Take
<1>1. Rows' = index.rows /\ UNCHANGED script /\ Rows' \subseteq Rows /\ pc[s] # "closed"
  BY DEF Rows, Take
<1>2. \A r \in Rows : r.number \in Nat /\ r.run \in Int
  BY RunStorageAssumption DEF NumberInv, RowOK, Legacy
<1>3. \A r \in Rows' : RowOK(r)'
  BY <1>0, <1>1, <1>2 DEF NumberInv, RowOK
<1>4. \A t \in Sessions : run[t] \in Nat /\ run'[t] = IF t = s THEN index.next ELSE run[t]
  BY DEF Take, SessionInv
<1>5. \A t \in Sessions : run'[t] # 0 => run'[t] < index'.next
  BY <1>0, <1>4 DEF NumberInv
<1>6. ASSUME care' \in {"kept", "half"} PROVE QuietInv'
  <2>1. QuietInv /\ care = "kept" /\ backfill = "idle"
    BY <1>1, <1>6, QuietSession DEF NumberInv
  <2>2. Unique(index.rows)' /\ Unique(work.rows)'
    BY <2>1 DEF QuietInv, Take, Unique
  <2>3. \A t \in Sessions : run'[t] # 0 => \A r \in Rows' : r.number = run'[t] => r.run = run'[t]
    BY <1>0, <1>1, <1>2, <1>4, <2>1 DEF QuietInv
  <2>4. \A r \in Rows' : r.number = 0 \/ r.number < index'.next
    BY <1>0, <1>1, <1>2, <2>1 DEF QuietInv
  <2> QED
    BY <1>1, <2>1, <2>2, <2>3, <2>4 DEF QuietInv
<1>7. \E B \in Nat : \A r \in Rows' : r.number <= B
  BY <1>1 DEF NumberInv
<1> QED
  BY <1>1, <1>3, <1>5, <1>6, <1>7 DEF NumberInv

\* What a write of a record does to the rows and leaves alone.
LEMMA WritesRows ==
    ASSUME LockInv, NEW s \in Sessions, NEW new \in {StartRow(s), FinishRow(s)}, NEW ack,
           Writes(s, new, ack)
    PROVE  /\ index'.rows \in {index.rows, new.rows}
           /\ work'.rows \in {index.rows, work.rows, new.rows}
           /\ index.next \in Nat /\ index'.next \in Nat /\ index.next <= index'.next
           /\ UNCHANGED <<script, run, file, staged, tele, issued>>
           /\ pc[s] = "open"
<1>1. IndexOK(new) /\ index.next <= new.next
  BY WrittenNext
<1> QED
  BY <1>1 DEF Writes, IndexOK, LockInv

\* The row a run begins with carries a number that no other run has, unless the
\* script has given it away.
LEMMA NumberStarts ==
    ASSUME LockInv, SessionInv, NumberInv, NEW s \in Sessions, Starts(s)
    PROVE  NumberInv'
<1> DEFINE row == Row(run[s], run[s], file[s])
           new == StartRow(s)
<1>1. /\ index'.rows \in {index.rows, new.rows}
      /\ work'.rows \in {index.rows, work.rows, new.rows}
      /\ index.next \in Nat /\ index'.next \in Nat /\ index.next <= index'.next
      /\ UNCHANGED <<script, run>> /\ pc[s] = "open"
  BY WritesRows DEF Starts
<1>2. new.rows = Sees(s).rows \cup {row} /\ Sees(s).rows \in {index.rows, work.rows}
  BY StartRowRows DEF Sees
<1>3. /\ row.run = run[s] /\ row.number = run[s]
      /\ DOMAIN row = {"run", "number", "telemetry", "finished"}
  BY RowFields
<1>4. run[s] \in Nat /\ run[s] # 0 /\ run[s] < index.next
  BY <1>1 DEF SessionInv, NumberInv
<1>5. Rows' \subseteq Rows \cup {row}
  BY <1>1, <1>2 DEF Rows
<1> HIDE DEF row, new
<1>6. \A r \in Rows : r.number \in Nat /\ r.run \in Int
  BY RunStorageAssumption DEF NumberInv, RowOK, Legacy
<1>7. \A r : r = row => RowOK(r)'
  BY <1>1, <1>3, <1>4 DEF RowOK
<1>8. \A r \in Rows : RowOK(r)'
  BY <1>1, <1>6 DEF NumberInv, RowOK
<1>9. \E B \in Nat : \A r \in Rows' : r.number <= B
  <2>1. PICK B \in Nat : \A r \in Rows : r.number <= B
    BY DEF NumberInv
  <2>2. B + run[s] \in Nat /\ \A r \in Rows' : r.number <= B + run[s]
    BY <1>3, <1>4, <1>5, <1>6, <2>1
  <2> QED
    BY <2>2
<1>10. \A t \in Sessions : run[t] # 0 => run[t] < index'.next
  BY <1>1 DEF NumberInv, SessionInv
<1>11. ASSUME care' \in {"kept", "half"} PROVE QuietInv'
  <2>1. QuietInv /\ care = "kept" /\ backfill = "idle"
    BY <1>1, <1>11, QuietSession DEF NumberInv
  <2>2. Unique(new.rows)
    <3>1. Unique(Sees(s).rows)
      BY <1>2, <2>1 DEF QuietInv
    <3>2. \A r \in Sees(s).rows : r.number = run[s] => r.run = run[s]
      BY <1>2, <1>4, <2>1 DEF QuietInv, Rows
    <3> QED
      BY <1>2, <1>3, <3>1, <3>2 DEF Unique
  <2>3. Unique(index.rows)' /\ Unique(work.rows)'
    BY <1>1, <2>1, <2>2 DEF QuietInv, Unique
  <2>4. \A t \in Sessions : run[t] # 0 => \A r \in Rows' : r.number = run[t] => r.run = run[t]
    BY <1>3, <1>5, <2>1 DEF QuietInv
  <2>5. \A r \in Rows' : r.number = 0 \/ r.number < index'.next
    BY <1>1, <1>3, <1>4, <1>5, <1>6, <2>1 DEF QuietInv
  <2> QED
    BY <1>1, <2>1, <2>3, <2>4, <2>5 DEF QuietInv
<1> QED
  BY <1>1, <1>5, <1>7, <1>8, <1>9, <1>10, <1>11 DEF NumberInv

\* The end of a run changes no number.
LEMMA NumberFinishes ==
    ASSUME LockInv, SessionInv, NumberInv, NEW s \in Sessions, Finishes(s)
    PROVE  NumberInv'
<1> DEFINE new == FinishRow(s)
<1>1. /\ index'.rows \in {index.rows, new.rows}
      /\ work'.rows \in {index.rows, work.rows, new.rows}
      /\ index.next \in Nat /\ index'.next \in Nat /\ index.next <= index'.next
      /\ UNCHANGED <<script, run>>
  BY WritesRows DEF Finishes
<1>2. /\ \A q \in new.rows : \E r \in Sees(s).rows : Same(q, r)
      /\ Sees(s).rows \in {index.rows, work.rows}
  BY FinishRowRows DEF Sees
<1> HIDE DEF new
<1>3. \A q \in Rows' : \E r \in Rows : Same(q, r)
  <2>1. \A r \in Rows : Same(r, r)
    BY DEF Same
  <2> QED
    BY <1>1, <1>2, <2>1 DEF Rows
<1>4. \A r \in Rows : r.number \in Nat /\ r.run \in Int
  BY RunStorageAssumption DEF NumberInv, RowOK, Legacy
<1>5. \A q \in Rows' : RowOK(q)'
  <2> SUFFICES ASSUME NEW q \in Rows' PROVE RowOK(q)'
    OBVIOUS
  <2>1. PICK r \in Rows : Same(q, r)
    BY <1>3
  <2>2. RowOK(r)
    BY DEF NumberInv
  <2> QED
    BY <1>1, <1>4, <2>1, <2>2 DEF RowOK, Same
<1>6. \E B \in Nat : \A q \in Rows' : q.number <= B
  BY <1>3 DEF NumberInv, Same
<1>7. \A t \in Sessions : run[t] # 0 => run[t] < index'.next
  BY <1>1 DEF NumberInv, SessionInv
<1>8. ASSUME care' \in {"kept", "half"} PROVE QuietInv'
  <2>1. QuietInv
    BY <1>1, <1>8 DEF NumberInv
  <2>2. Unique(new.rows)
    <3>1. Unique(Sees(s).rows)
      BY <1>2, <2>1 DEF QuietInv
    <3> QED
      BY <1>2, <3>1 DEF Unique, Same
  <2>3. Unique(index.rows)' /\ Unique(work.rows)'
    BY <1>1, <2>1, <2>2 DEF QuietInv, Unique
  <2>4. \A t \in Sessions : run[t] # 0 => \A r \in Rows' : r.number = run[t] => r.run = run[t]
    BY <1>3, <2>1 DEF QuietInv, Same
  <2>5. /\ care = "kept" => \A r \in Rows' : r.number = 0 \/ r.number < index'.next
        /\ backfill = "read" => \A r \in Rows' : r.number < base
    BY <1>1, <1>3, <1>4, <2>1 DEF QuietInv, Same
  <2> QED
    BY <1>1, <2>3, <2>4, <2>5 DEF QuietInv
<1> QED
  BY <1>1, <1>5, <1>6, <1>7, <1>8 DEF NumberInv

\* The script reads the largest number, or gives up: no number changes.
LEMMA NumberScript ==
    ASSUME LockInv, SessionInv, NumberInv, BackfillReads \/ BackfillFails
    PROVE  NumberInv'
<1>1. UNCHANGED <<index, work, run>> /\ Rows' = Rows
  BY DEF BackfillReads, BackfillFails, Rows
<1>2. /\ care' \in {"kept", "half"} => care' = care
      /\ care' \in {"kept", "half", "late", "beside"}
  BY DEF BackfillReads, BackfillFails, NumberInv
<1>3. LastNumber(index.rows) \in Nat /\ \A r \in index.rows : r.number <= LastNumber(index.rows)
  BY LastNumberBounds
<1>4. base' \in Nat /\ (backfill' = "read" => base' > 0)
  BY <1>3 DEF BackfillReads, BackfillFails
<1>5. ASSUME care' \in {"kept", "half"}, backfill' = "read"
      PROVE  \A r \in Rows : r.number < base'
  <2>1. base' = LastNumber(index.rows) + 1 /\ Connected = {}
    BY <1>5 DEF BackfillReads, BackfillFails
  <2>2. work = index
    BY <2>1 DEF LockInv, Connected
  <2>3. \A r \in index.rows : r.number \in Nat
    BY DEF NumberInv, RowOK, Rows
  <2> QED
    BY <1>3, <2>1, <2>2, <2>3 DEF Rows
<1>6. \A r \in Rows : RowOK(r)'
  BY <1>1 DEF NumberInv, RowOK
<1>7. care' \in {"kept", "half"} => QuietInv'
  BY <1>1, <1>2, <1>5 DEF NumberInv, QuietInv, Unique
<1> QED
  BY <1>1, <1>2, <1>4, <1>6, <1>7 DEF NumberInv

\* The backfill gives the unnumbered rows the numbers from the one it has read,
\* each its own.
LEMMA NumberBackfillRows ==
    ASSUME LockInv, SessionInv, NumberInv, BackfillRows
    PROVE  NumberInv'
<1> DEFINE Numbered(r) == IF r.number # 0 THEN r
                          ELSE [r EXCEPT !.number = base + r.run + NumLegacy]
<1>0. /\ backfill = "read" /\ backfill' = "rows" /\ base' = 0 /\ UNCHANGED run
      /\ care' \in {care, "half"} /\ (care' \in {"kept", "half"} => care' = "half" /\ care \in {"kept", "half"})
  BY DEF BackfillRows, NumberInv
<1>1. index.next \in Nat /\ NumLegacy \in Nat /\ base \in Nat /\ base > 0
  BY <1>0, RunStorageAssumption DEF LockInv, IndexOK, NumberInv
<1>2. /\ index'.next = index.next /\ index'.rows = {Numbered(r) : r \in index.rows}
      /\ work' = index'
  BY DEF BackfillRows, LockInv, IndexOK
<1>4. \A n \in Legacy : n \in Int /\ n < 0 /\ 0 <= n + NumLegacy
  BY <1>1 DEF Legacy
<1>3. ASSUME NEW r \in index.rows
      PROVE  /\ Numbered(r).run = r.run /\ Numbered(r).telemetry = r.telemetry
             /\ DOMAIN Numbered(r) = DOMAIN r /\ RowOK(r) /\ r \in Rows
             /\ \/ r.number # 0 /\ Numbered(r).number = r.number
                \/ r.run \in Legacy /\ Numbered(r).number = base + r.run + NumLegacy
  <2>1. RowOK(r) /\ r \in Rows
    BY <1>0 DEF NumberInv, Rows
  <2> QED
    BY <2>1 DEF RowOK
<1> HIDE DEF Numbered
<1>5. Rows' = {Numbered(r) : r \in index.rows}
  BY <1>2 DEF Rows
<1>6. \A q \in Rows' : RowOK(q)'
  <2> SUFFICES ASSUME NEW r \in index.rows PROVE \A q : q = Numbered(r) => RowOK(q)'
    BY <1>5
  <2>1. Numbered(r).number \in Nat /\ (r.run \notin Legacy => Numbered(r).number = r.number)
    BY <1>1, <1>3, <1>4 DEF RowOK
  <2>2. r.run \in Nat => r.run \notin Legacy
    BY <1>4
  <2> QED
    BY <1>2, <1>3, <2>1, <2>2 DEF RowOK
<1>7. \E B \in Nat : \A q \in Rows' : q.number <= B
  <2>1. PICK B \in Nat : \A r \in Rows : r.number <= B
    BY DEF NumberInv
  <2>2. B + base + NumLegacy \in Nat /\ \A r \in index.rows : Numbered(r).number <= B + base + NumLegacy
    BY <1>1, <1>3, <1>4, <2>1 DEF RowOK
  <2> QED
    BY <1>5, <2>2
<1>8. ASSUME care' \in {"kept", "half"}, NEW a \in index.rows, NEW b \in index.rows,
             Numbered(a).number = Numbered(b).number, Numbered(a).number # 0
      PROVE  a.run = b.run
  <2>0. Unique(index.rows) /\ a.number < base /\ b.number < base
    BY <1>0, <1>3, <1>8 DEF NumberInv, QuietInv
  <2>1. a.number \in Nat /\ b.number \in Nat
    BY <1>3 DEF RowOK
  <2>2. CASE a.number # 0 /\ Numbered(a).number = a.number /\ b.number # 0 /\ Numbered(b).number = b.number
    BY <1>8, <2>0, <2>2 DEF Unique
  <2>3. CASE /\ a.run \in Legacy /\ Numbered(a).number = base + a.run + NumLegacy
             /\ b.run \in Legacy /\ Numbered(b).number = base + b.run + NumLegacy
    <3>1. a.run \in Int /\ b.run \in Int /\ base + a.run + NumLegacy = base + b.run + NumLegacy
      BY <1>4, <1>8, <2>3
    <3> QED
      BY <1>1, <3>1
  <2>4. CASE \/ Numbered(a).number = a.number /\ b.run \in Legacy /\ Numbered(b).number = base + b.run + NumLegacy
             \/ Numbered(b).number = b.number /\ a.run \in Legacy /\ Numbered(a).number = base + a.run + NumLegacy
    BY <1>1, <1>4, <1>8, <2>0, <2>1, <2>4
  <2> QED
    BY <1>3, <2>2, <2>3, <2>4
<1>9. care' \in {"kept", "half"} => Unique(index.rows)' /\ Unique(work.rows)'
  BY <1>2, <1>3, <1>8 DEF Unique
<1>10. care' \in {"kept", "half"} => \A s \in Sessions : run[s] = 0
  BY <1>0 DEF SessionInv, Alone
<1>11. care' \in {"kept", "half"} => QuietInv'
  BY <1>0, <1>9, <1>10 DEF QuietInv
<1>12. \A s \in Sessions : run'[s] # 0 => run'[s] < index'.next
  BY <1>0, <1>2 DEF NumberInv
<1>13. care' \in {"kept", "half", "late", "beside"}
  BY <1>0 DEF NumberInv
<1> QED
  BY <1>0, <1>6, <1>7, <1>11, <1>12, <1>13 DEF NumberInv

\* Its second half puts the counter above them all.
LEMMA NumberBackfillSeed ==
    ASSUME LockInv, SessionInv, NumberInv, BackfillSeed
    PROVE  /\ NumberInv' /\ UNCHANGED issued
           /\ IndexOK(index)' /\ index.next <= index'.next
<1> DEFINE n == LastNumber(index.rows) + 1
<1>0. /\ backfill = "rows" /\ backfill' = "idle" /\ UNCHANGED <<run, issued, base>>
      /\ care' \in {care, "kept"} /\ (care' = "kept" => care \in {"kept", "half"})
  BY DEF BackfillSeed
<1>1. n \in Nat /\ index.next \in Nat /\ \A r \in index.rows : r.number < n
  BY LastNumberBounds DEF LockInv, IndexOK
<1>2. /\ index'.next = (IF n > index.next THEN n ELSE index.next)
      /\ index'.rows = index.rows /\ DOMAIN index' = DOMAIN index /\ work' = index'
  BY DEF BackfillSeed, LockInv, IndexOK
<1> HIDE DEF n
<1>3. index'.next \in Nat /\ index.next <= index'.next /\ n <= index'.next
  BY <1>1, <1>2
<1>4. Rows' = index.rows /\ Rows' \subseteq Rows
  BY <1>2 DEF Rows
<1>5. \A r \in index.rows : r.number \in Nat /\ r.run \in Int /\ RowOK(r)
  BY RunStorageAssumption DEF NumberInv, RowOK, Legacy, Rows
<1>6. \A r \in Rows' : RowOK(r)'
  BY <1>1, <1>3, <1>4, <1>5 DEF RowOK
<1>7. \A r \in Rows' : r.number < index'.next
  BY <1>1, <1>3, <1>4, <1>5
<1>8. \A s \in Sessions : run'[s] # 0 => run'[s] < index'.next
  BY <1>0, <1>1, <1>3 DEF NumberInv, SessionInv
<1>9. ASSUME care' \in {"kept", "half"} PROVE QuietInv'
  <2>1. QuietInv /\ Unique(index.rows)
    BY <1>0, <1>9 DEF NumberInv, QuietInv
  <2>2. Unique(index.rows)' /\ Unique(work.rows)'
    BY <1>2, <2>1 DEF Unique
  <2> QED
    BY <1>0, <1>4, <1>7, <2>1, <2>2 DEF QuietInv
<1>10. \E B \in Nat : \A r \in Rows' : r.number <= B
  BY <1>4 DEF NumberInv
<1>11. care' \in {"kept", "half", "late", "beside"}
  BY <1>0 DEF NumberInv
<1>12. NumberInv'
  BY <1>0, <1>6, <1>8, <1>9, <1>10, <1>11 DEF NumberInv
<1>13. IndexOK(index)'
  BY <1>2, <1>3 DEF LockInv, IndexOK
<1> QED
  BY <1>0, <1>3, <1>12, <1>13

---------------------------------------------------------------------------
(* The three together are inductive *)

BaseInv == LockInv /\ SessionInv /\ NumberInv

\* The steps of nobody's session keep the locks and the sessions.
LEMMA BaseOther ==
    ASSUME BaseInv,
           Crash \/ NextMonth \/ BackfillReads \/ BackfillFails \/ BackfillRows \/ BackfillSeed
    PROVE  LockInv' /\ SessionInv'
<1> USE DEF BaseInv, LockInv, SessionInv
<1>0. 0 \notin Sessions /\ writer \in Nat
  BY RunStorageAssumption DEF Sessions
<1>1. CASE Crash
  BY <1>0, <1>1 DEF Crash, PCs, NoRun, IndexOK
<1>2. CASE NextMonth
  BY <1>0, <1>2 DEF NextMonth, Alone
<1>3. ASSUME UNCHANGED <<writer, pc, tries, run, file, month, staged>>,
             Alone' => \A s \in Sessions : pc[s] = "closed"
      PROVE  SessionInv'
  BY <1>3
<1>4. ASSUME IndexOK(index)', index.next <= index'.next, work' = index', writer = 0,
             UNCHANGED <<writer, pc>>
      PROVE  LockInv'
  BY <1>0, <1>4 DEF IndexOK
<1>5. CASE BackfillReads
  <2>1. Alone' => \A s \in Sessions : pc[s] = "closed"
    BY <1>5 DEF BackfillReads, Alone, Connected
  <2> QED
    BY <1>0, <1>3, <1>5, <2>1 DEF BackfillReads, IndexOK
<1>6. CASE BackfillFails
  <2>1. Alone' => \A s \in Sessions : pc[s] = "closed"
    BY <1>6 DEF BackfillFails, Alone
  <2> QED
    BY <1>0, <1>3, <1>6, <2>1 DEF BackfillFails, IndexOK
<1>7. CASE BackfillRows
  <2>1. index'.next = index.next /\ DOMAIN index' = DOMAIN index /\ work' = index'
    BY <1>7 DEF BackfillRows, IndexOK
  <2>2. IndexOK(index)' /\ index.next <= index'.next
    BY <2>1 DEF IndexOK
  <2>3. Alone' => \A s \in Sessions : pc[s] = "closed"
    BY <1>7 DEF BackfillRows, Alone
  <2> QED
    BY <1>3, <1>4, <1>7, <2>1, <2>2, <2>3 DEF BackfillRows
<1>8. CASE BackfillSeed
  <2>1. IndexOK(index)' /\ index.next <= index'.next
    BY <1>8, NumberBackfillSeed
  <2>2. Alone' => \A s \in Sessions : pc[s] = "closed"
    BY <1>8 DEF BackfillSeed, Alone
  <2> QED
    BY <1>3, <1>4, <1>8, <2>1, <2>2 DEF BackfillSeed
<1> QED
  BY <1>1, <1>2, <1>5, <1>6, <1>7, <1>8

\* The legacy index as a new process finds it.
LEMMA BaseInit == Init => BaseInv
<1> SUFFICES ASSUME Init PROVE BaseInv
  OBVIOUS
<1>0. 0 \notin Sessions
  BY RunStorageAssumption DEF Sessions
<1>1. IndexOK(index) /\ index.next = 0 /\ work = index /\ writer = 0
  BY DEF Init, FreshIndex, LegacyIndex, IndexOK
<1>2. LockInv
  BY <1>0, <1>1 DEF LockInv, Init
<1>3. SessionInv
  BY DEF Init, SessionInv, PCs, NoRun, Alone
<1>4. ASSUME NEW r \in index.rows
      PROVE  RowOK(r) /\ r.number = 0 /\ r.run \in Int /\ r.run < 0
  <2>1. PICK n \in Legacy : r = Row(n, 0, 0)
    BY DEF Init, FreshIndex, LegacyIndex
  <2>2. n \in Int /\ n < 0
    BY <2>1, RunStorageAssumption DEF Legacy
  <2> QED
    BY <1>1, <2>1, <2>2, RowFields DEF RowOK
<1>5. Rows = index.rows /\ backfill = "idle" /\ base = 0 /\ care = "kept" /\ \A s \in Sessions : run[s] = 0
  BY <1>1 DEF Rows, Init, NoRun
<1>6. NumberInv
  BY <1>1, <1>4, <1>5 DEF NumberInv, QuietInv, Unique
<1> QED
  BY <1>2, <1>3, <1>6 DEF BaseInv

\* Every step keeps the three.
LEMMA BaseStep == BaseInv /\ [Next]_vars => BaseInv'
<1> SUFFICES ASSUME BaseInv, [Next]_vars PROVE BaseInv'
  OBVIOUS
<1>1. LockInv' /\ SessionInv'
  <2>1. CASE \E s \in Sessions : Session(s) \/ Caller(s)
    BY <2>1, BaseSession DEF BaseInv
  <2>2. CASE Crash \/ NextMonth \/ BackfillReads \/ BackfillFails \/ BackfillRows \/ BackfillSeed
    BY <2>2, BaseOther
  <2>3. CASE UNCHANGED vars
    BY <2>3 DEF vars, BaseInv, LockInv, SessionInv, Alone, IndexOK
  <2> QED
    BY <2>1, <2>2, <2>3 DEF Next
<1>2. NumberInv'
  BY <1>1, Kinds, NumberKeep, NumberTake, NumberStarts, NumberFinishes,
     NumberScript, NumberBackfillRows, NumberBackfillSeed, NumberTelemetry DEF BaseInv
<1> QED
  BY <1>1, <1>2 DEF BaseInv

\* The invariant in every reachable state.
LEMMA BaseAlways == Spec => []BaseInv
  BY BaseInit, BaseStep, PTL DEF Spec

\* No two runs of the index carry the same sequence number, whatever sessions
\* write, fail, crash and restart, and however often the backfill script ran,
\* died and ran again, as long as no session was open beside it and none was
\* opened before the next full pass after it died between its two commits
\* (storage.py, backfill_run_sequence.py, neither of which sees to that).
THEOREM NumbersAreUnique == Spec => []QuietBackfillIsUnique
<1>1. BaseInv => QuietBackfillIsUnique
  BY DEF BaseInv, NumberInv, QuietInv, QuietBackfillIsUnique
<1> QED
  BY <1>1, BaseAlways, PTL

---------------------------------------------------------------------------
(* The refinement of SequenceIssuer *)

\* Every step hands out the number of the counter, raises the counter, or
\* does neither.
LEMMA IssuerStep == BaseInv /\ [Next]_vars => [Issuer!Next]_(Issuer!vars)
<1> SUFFICES ASSUME BaseInv, [Next]_vars PROVE [Issuer!Next]_(Issuer!vars)
  OBVIOUS
<1>0. BaseInv' /\ index.next \in Nat /\ index'.next \in Nat
  BY BaseStep DEF BaseInv, LockInv, IndexOK
<1>1. ASSUME UNCHANGED issued, index.next <= index'.next PROVE [Issuer!Next]_(Issuer!vars)
  BY <1>0, <1>1 DEF Issuer!Next, Issuer!Skip, Issuer!vars
<1>2. CASE Keep
  BY <1>0, <1>1, <1>2 DEF Keep
<1>3. ASSUME NEW s \in Sessions, Take(s) PROVE [Issuer!Next]_(Issuer!vars)
  BY <1>3 DEF Take, Issuer!Next, Issuer!Issue
<1>4. ASSUME NEW s \in Sessions, Starts(s) \/ Finishes(s) PROVE [Issuer!Next]_(Issuer!vars)
  <2>1. UNCHANGED issued /\ index.next <= index'.next
    BY <1>4, WritesRows DEF Starts, Finishes, BaseInv
  <2> QED
    BY <1>1, <2>1
<1>5. ASSUME NEW s \in Sessions, RecordTelemetry(s) PROVE [Issuer!Next]_(Issuer!vars)
  BY <1>0, <1>1, <1>5 DEF RecordTelemetry
<1>6. CASE BackfillRows
  <2>1. index'.next = index.next /\ UNCHANGED issued
    BY <1>6 DEF BackfillRows, BaseInv, LockInv, IndexOK
  <2> QED
    BY <1>0, <1>1, <2>1
<1>7. CASE BackfillSeed
  BY <1>1, <1>7, NumberBackfillSeed DEF BaseInv
<1>8. CASE BackfillReads \/ BackfillFails
  BY <1>0, <1>1, <1>8 DEF BackfillReads, BackfillFails
<1> QED
  BY <1>2, <1>3, <1>4, <1>5, <1>6, <1>7, <1>8, Kinds DEF BaseInv

\* The allocator over several connections, with its retries, failed commits,
\* crashes, restarts and the backfill, implements the global run sequence
\* (storage.py, _allocate_sequence_number(); docs/architecture.md).
THEOREM StorageImplementsIssuer == Spec => ImplementsIssuer
<1>1. Init => Issuer!Init
  BY DEF Init, Issuer!Init, FreshIndex, LegacyIndex
<1> QED
  BY <1>1, IssuerStep, BaseAlways, PTL DEF Spec, ImplementsIssuer, Issuer!Spec

\* Every number handed out lies below the counter, which is why the next one is
\* larger than all of them.
BelowCounter == \A k \in DOMAIN issued : issued[k] < index.next

IssuerInv == Issuer!TypeOK /\ BelowCounter /\ Issuer!StrictlyIncreasing

\* Handing out the counter keeps the numbers increasing.
LEMMA IssueKeepsInv == IssuerInv /\ Issuer!Issue => IssuerInv'
<1> SUFFICES ASSUME IssuerInv, Issuer!Issue PROVE IssuerInv'
  OBVIOUS
<1>1. index.next \in Nat /\ issued \in Seq(Nat)
  BY DEF IssuerInv, Issuer!TypeOK
<1>2. issued' = Append(issued, index.next) /\ index'.next = index.next + 1
  BY DEF Issuer!Issue
<1>3. Issuer!TypeOK'
  BY <1>1, <1>2 DEF Issuer!TypeOK
<1>4. \A k \in DOMAIN issued' :
        \/ k \in DOMAIN issued /\ issued'[k] = issued[k]
        \/ k = Len(issued) + 1 /\ issued'[k] = index.next
  BY <1>1, <1>2
<1>5. DOMAIN issued = 1..Len(issued) /\ Len(issued) \in Nat
  BY <1>1
<1>6. \A k \in DOMAIN issued : issued[k] \in Nat /\ issued[k] < index.next
  BY <1>1 DEF IssuerInv, BelowCounter
<1>7. BelowCounter'
  <2> SUFFICES ASSUME NEW k \in DOMAIN issued' PROVE issued'[k] < index'.next
    BY DEF BelowCounter
  <2> QED BY <1>1, <1>2, <1>4, <1>6
<1>8. Issuer!StrictlyIncreasing'
  <2> SUFFICES ASSUME NEW i \in DOMAIN issued', NEW j \in DOMAIN issued', i < j
                 PROVE  issued'[i] < issued'[j]
    BY DEF Issuer!StrictlyIncreasing
  <2>1. CASE j \in DOMAIN issued /\ issued'[j] = issued[j]
    <3>1. i \in DOMAIN issued /\ issued'[i] = issued[i]
      BY <1>4, <1>5, <2>1
    <3> QED BY <2>1, <3>1 DEF IssuerInv, Issuer!StrictlyIncreasing
  <2>2. CASE j = Len(issued) + 1 /\ issued'[j] = index.next
    <3>1. i \in DOMAIN issued /\ issued'[i] = issued[i]
      BY <1>4, <1>5, <2>2
    <3> QED BY <1>6, <2>2, <3>1
  <2> QED BY <1>4, <2>1, <2>2
<1> QED BY <1>3, <1>7, <1>8 DEF IssuerInv

\* Passing numbers over keeps them increasing.
LEMMA SkipKeepsInv == IssuerInv /\ Issuer!Skip => IssuerInv'
<1> SUFFICES ASSUME IssuerInv, Issuer!Skip PROVE IssuerInv'
  OBVIOUS
<1>1. /\ index.next \in Nat /\ index'.next \in Nat /\ index.next < index'.next
      /\ issued' = issued /\ issued \in Seq(Nat)
  BY DEF IssuerInv, Issuer!TypeOK, Issuer!Skip
<1>2. \A k \in DOMAIN issued : issued[k] \in Nat /\ issued[k] < index.next
  BY <1>1 DEF IssuerInv, BelowCounter
<1>3. BelowCounter'
  BY <1>1, <1>2 DEF BelowCounter
<1> QED BY <1>1, <1>3 DEF IssuerInv, Issuer!TypeOK, Issuer!StrictlyIncreasing

\* What docs/architecture.md promises of the run sequence is enough: whoever
\* follows SequenceIssuer hands out larger numbers from caller to caller,
\* whatever is lost in between (storage.py, _allocate_sequence_number()).
THEOREM NumbersGrow == Issuer!Spec => []Issuer!StrictlyIncreasing
<1>1. Issuer!Init => IssuerInv
  BY DEF Issuer!Init, IssuerInv, Issuer!TypeOK, BelowCounter, Issuer!StrictlyIncreasing
<1>2. IssuerInv /\ [Issuer!Next]_(Issuer!vars) => IssuerInv'
  <2> SUFFICES ASSUME IssuerInv, [Issuer!Next]_(Issuer!vars) PROVE IssuerInv'
    OBVIOUS
  <2>1. CASE Issuer!Issue
    BY <2>1, IssueKeepsInv
  <2>2. CASE Issuer!Skip
    BY <2>2, SkipKeepsInv
  <2>3. CASE UNCHANGED (Issuer!vars)
    BY <2>3 DEF Issuer!vars, IssuerInv, Issuer!TypeOK, BelowCounter, Issuer!StrictlyIncreasing
  <2> QED BY <2>1, <2>2, <2>3 DEF Issuer!Next
<1>3. IssuerInv => Issuer!StrictlyIncreasing
  BY DEF IssuerInv
<1> QED BY <1>1, <1>2, <1>3, PTL DEF Issuer!Spec

\* So no two callers of _allocate_sequence_number() ever get the same number,
\* and a later one gets a larger one.
THEOREM IssuedNumbersGrow == Spec => []Issuer!StrictlyIncreasing
BY NumbersGrow, StorageImplementsIssuer, PTL DEF ImplementsIssuer

---------------------------------------------------------------------------
(* Telemetry *)

USE DEF Own

\* A step that writes no record moves no measurement.
LEMMA TelemetryKeep ==
    ASSUME BaseInv, BaseInv', TelemetryInv, Keep
    PROVE  TelemetryInv'
<1>0. index.next \in Nat /\ index'.next \in Nat /\ index.next <= index'.next
  BY DEF BaseInv, LockInv, IndexOK, Keep
<1>1. Rows' \subseteq Rows
  BY DEF Rows, Keep
<1>2. /\ DOMAIN tele' = Months
      /\ \A m \in Months : /\ "rows" \in DOMAIN tele'[m] /\ "columns" \in DOMAIN tele'[m]
                           /\ tele'[m].rows = tele[m].rows
  BY DEF TelemetryInv, Keep
<1>3. \A t \in Sessions : \/ Own(t)' = Own(t) /\ file'[t] = file[t]
                          \/ Own(t)' = {}
  BY DEF Keep
<1> HIDE DEF Own
<1>4. \A m \in Months : \A x \in tele'[m].rows : x \in Nat /\ x < index'.next
  BY <1>0, <1>2 DEF TelemetryInv
<1>5. \A t \in Sessions : \A x \in Own(t)' : x \in Own(t) /\ file'[t] = file[t]
  BY <1>3
<1>6. \A t \in Sessions : \A x \in Own(t)' : x \in Nat /\ x < index'.next
  BY <1>0, <1>5 DEF TelemetryInv
<1>7. \A r \in Rows', m \in Months : r.telemetry # 0 /\ r.run \in tele'[m].rows => m = r.telemetry
  BY <1>1, <1>2 DEF TelemetryInv
<1>8. \A t \in Sessions : \A x \in Own(t)' :
        /\ \A m \in Months : x \in tele'[m].rows => m = file'[t]
        /\ \A r \in Rows' : r.run = x /\ r.telemetry # 0 => r.telemetry = file'[t]
  BY <1>1, <1>2, <1>5 DEF TelemetryInv
<1>9. \A t, u \in Sessions : \A x \in Own(t)' : x \in Own(u)' => t = u
  BY <1>5 DEF TelemetryInv
<1> QED
  BY <1>2, <1>4, <1>6, <1>7, <1>8, <1>9 DEF TelemetryInv

\* Nothing has been recorded under a number that is only now handed out.
LEMMA TelemetryTake ==
    ASSUME BaseInv, BaseInv', TelemetryInv, NEW s \in Sessions, Take(s)
    PROVE  TelemetryInv'
<1> DEFINE n == index.next
<1>0. n \in Nat /\ index'.next = n + 1
  BY DEF BaseInv, LockInv, IndexOK, Take
<1>1. Rows' \subseteq Rows /\ UNCHANGED <<tele, file>>
  BY DEF Rows, Take
<1>2. /\ \A t \in Sessions : t # s => Own(t)' = Own(t)
      /\ Own(s)' \subseteq Own(s) \cup {n}
  BY DEF BaseInv, SessionInv, Take
<1> HIDE DEF Own, n
<1>3. \A r \in Rows : r.run # n
  BY <1>0, RunStorageAssumption DEF BaseInv, NumberInv, RowOK, Legacy, n
<1>4. \A m \in Months : \A x \in tele[m].rows : x \in Nat /\ x < n
  BY DEF TelemetryInv, n
<1>5. \A t \in Sessions : \A x \in Own(t) : x \in Nat /\ x < n
  BY DEF TelemetryInv, n
<1>6. \A t \in Sessions : \A x \in Own(t)' : x \in Own(t) \/ (t = s /\ x = n)
  BY <1>2
<1>7. \A t \in Sessions : \A x \in Own(t)' : x \in Nat /\ x < index'.next
  BY <1>0, <1>5, <1>6
<1>8. \A m \in Months : \A x \in tele[m].rows : x \in Nat /\ x < index'.next
  BY <1>0, <1>4
<1>9. \A t \in Sessions : \A x \in Own(t)' :
        /\ \A m \in Months : x \in tele[m].rows => m = file[t]
        /\ \A r \in Rows' : r.run = x /\ r.telemetry # 0 => r.telemetry = file[t]
  BY <1>0, <1>1, <1>3, <1>4, <1>6 DEF TelemetryInv
<1>10. \A t, u \in Sessions : \A x \in Own(t)' : x \in Own(u)' => t = u
  BY <1>0, <1>5, <1>6 DEF TelemetryInv
<1> QED
  BY <1>1, <1>7, <1>8, <1>9, <1>10 DEF TelemetryInv

\* The row of a run names the file its session writes to.
LEMMA TelemetryStarts ==
    ASSUME BaseInv, BaseInv', TelemetryInv, NEW s \in Sessions, Starts(s)
    PROVE  TelemetryInv'
<1> DEFINE row == Row(run[s], run[s], file[s])
           new == StartRow(s)
<1>1. /\ index'.rows \in {index.rows, new.rows}
      /\ work'.rows \in {index.rows, work.rows, new.rows}
      /\ index.next \in Nat /\ index'.next \in Nat /\ index.next <= index'.next
      /\ UNCHANGED <<run, file, staged, tele>> /\ pc[s] = "open"
  BY WritesRows DEF Starts, BaseInv
<1>2. new.rows = Sees(s).rows \cup {row} /\ Sees(s).rows \in {index.rows, work.rows}
  BY StartRowRows DEF Sees, BaseInv
<1>3. row.run = run[s] /\ row.telemetry = file[s]
  BY RowFields
<1>4. run[s] \in Own(s)
  BY <1>1 DEF BaseInv, SessionInv
<1>5. \A t \in Sessions : Own(t)' = Own(t)
  BY <1>1
<1>6. Rows' \subseteq Rows \cup {row}
  BY <1>1, <1>2 DEF Rows
<1> HIDE DEF row, new, Own
<1>7. \A r \in Rows', m \in Months : r.telemetry # 0 /\ r.run \in tele[m].rows => m = r.telemetry
  BY <1>3, <1>4, <1>6 DEF TelemetryInv
<1>8. \A t \in Sessions : \A x \in Own(t) :
        \A r \in Rows' : r.run = x /\ r.telemetry # 0 => r.telemetry = file[t]
  BY <1>3, <1>4, <1>6 DEF TelemetryInv
<1>9. /\ \A m \in Months : \A x \in tele[m].rows : x \in Nat /\ x < index'.next
      /\ \A t \in Sessions : \A x \in Own(t) : x \in Nat /\ x < index'.next
  BY <1>1 DEF TelemetryInv
<1> QED
  BY <1>1, <1>5, <1>7, <1>8, <1>9 DEF TelemetryInv

\* Rows that differ from older ones in number or end only, and a counter that
\* does not fall, are no matter for the telemetry.
LEMMA TelemetryRowsKept ==
    ASSUME BaseInv, BaseInv', TelemetryInv, index.next <= index'.next,
           UNCHANGED <<tele, staged, run, file>>,
           \A q \in Rows' : \E r \in Rows : q.run = r.run /\ q.telemetry = r.telemetry
    PROVE  TelemetryInv'
<1>0. index.next \in Nat /\ index'.next \in Nat
  BY DEF BaseInv, LockInv, IndexOK
<1>1. \A t \in Sessions : Own(t)' = Own(t)
  OBVIOUS
<1> HIDE DEF Own
<1>2. \A r \in Rows', m \in Months : r.telemetry # 0 /\ r.run \in tele[m].rows => m = r.telemetry
  BY DEF TelemetryInv
<1>3. \A t \in Sessions : \A x \in Own(t) :
        \A r \in Rows' : r.run = x /\ r.telemetry # 0 => r.telemetry = file[t]
  BY DEF TelemetryInv
<1>4. /\ \A m \in Months : \A x \in tele[m].rows : x \in Nat /\ x < index'.next
      /\ \A t \in Sessions : \A x \in Own(t) : x \in Nat /\ x < index'.next
  BY <1>0 DEF TelemetryInv
<1> QED
  BY <1>1, <1>2, <1>3, <1>4 DEF TelemetryInv

\* The end of a run moves no measurement.
LEMMA TelemetryFinishes ==
    ASSUME BaseInv, BaseInv', TelemetryInv, NEW s \in Sessions, Finishes(s)
    PROVE  TelemetryInv'
<1> DEFINE new == FinishRow(s)
<1>1. /\ index'.rows \in {index.rows, new.rows}
      /\ work'.rows \in {index.rows, work.rows, new.rows}
      /\ index.next <= index'.next
      /\ UNCHANGED <<run, file, staged, tele>>
  BY WritesRows DEF Finishes, BaseInv
<1>2. /\ \A q \in new.rows : \E r \in Sees(s).rows : Same(q, r)
      /\ Sees(s).rows \in {index.rows, work.rows}
  BY FinishRowRows DEF Sees, BaseInv
<1> HIDE DEF new
<1>3. \A q \in Rows' : \E r \in Rows : q.run = r.run /\ q.telemetry = r.telemetry
  BY <1>1, <1>2 DEF Rows, Same
<1> QED
  BY <1>1, <1>3, TelemetryRowsKept

\* Nor does the backfill.
LEMMA TelemetryBackfill ==
    ASSUME BaseInv, BaseInv', TelemetryInv,
           BackfillReads \/ BackfillFails \/ BackfillRows \/ BackfillSeed
    PROVE  TelemetryInv'
<1>1. CASE BackfillRows
  <2> DEFINE Numbered(r) == IF r.number # 0 THEN r
                            ELSE [r EXCEPT !.number = base + r.run + NumLegacy]
  <2>1. /\ index'.next = index.next /\ index'.rows = {Numbered(r) : r \in index.rows}
        /\ work' = index'
    BY <1>1 DEF BackfillRows, BaseInv, LockInv, IndexOK
  <2>2. \A r \in index.rows : Numbered(r).run = r.run /\ Numbered(r).telemetry = r.telemetry
    BY DEF BaseInv, NumberInv, RowOK, Rows
  <2>3. index.next <= index'.next
    BY <2>1 DEF BaseInv, LockInv, IndexOK
  <2>4. UNCHANGED <<tele, staged, run, file>>
    BY <1>1 DEF BackfillRows
  <2> HIDE DEF Numbered
  <2>5. \A q \in Rows' : \E r \in Rows : q.run = r.run /\ q.telemetry = r.telemetry
    BY <2>1, <2>2 DEF Rows
  <2> QED
    BY <2>3, <2>4, <2>5, TelemetryRowsKept
<1>2. CASE BackfillSeed
  <2>1. /\ index'.rows = index.rows /\ work' = index'
        /\ UNCHANGED <<tele, staged, run, file>>
    BY <1>2 DEF BackfillSeed, BaseInv, LockInv, IndexOK
  <2>2. index.next <= index'.next
    BY <1>2, NumberBackfillSeed DEF BaseInv
  <2>3. \A q \in Rows' : \E r \in Rows : q.run = r.run /\ q.telemetry = r.telemetry
    BY <2>1 DEF Rows
  <2> QED
    BY <2>1, <2>2, <2>3, TelemetryRowsKept
<1>3. CASE BackfillReads \/ BackfillFails
  <2>1. UNCHANGED <<index, work, tele, staged, run, file>>
    BY <1>3 DEF BackfillReads, BackfillFails
  <2>2. index.next <= index'.next /\ Rows' = Rows
    BY <2>1 DEF BaseInv, LockInv, IndexOK, Rows
  <2> QED
    BY <2>1, <2>2, TelemetryRowsKept
<1> QED
  BY <1>1, <1>2, <1>3

\* A measurement, and whatever an earlier failed commit left staged, goes to
\* the session's own file.
LEMMA TelemetryRecords ==
    ASSUME BaseInv, BaseInv', TelemetryInv, NEW s \in Sessions, RecordTelemetry(s)
    PROVE  TelemetryInv'
<1> DEFINE rows == staged[s] \cup {run[s]}
<1>0. run[s] # 0 /\ rows = Own(s) /\ UNCHANGED <<dbVars, run, file>> /\ DOMAIN staged = Sessions
  BY DEF RecordTelemetry, BaseInv, SessionInv
<1>1. /\ \A t \in Sessions : t # s => staged'[t] = staged[t]
      /\ staged'[s] \subseteq rows
  BY <1>0 DEF RecordTelemetry, Set
<1>2. \A t \in Sessions : Own(t)' \subseteq Own(t)
  BY <1>0, <1>1
<1>3. /\ DOMAIN tele' = Months
      /\ \A m \in Months : /\ "rows" \in DOMAIN tele'[m] /\ "columns" \in DOMAIN tele'[m]
                           /\ tele'[m].rows \subseteq tele[m].rows \cup rows
                           /\ m # file[s] => tele'[m].rows = tele[m].rows
  <2>1. CASE UNCHANGED tele
    BY <2>1 DEF TelemetryInv
  <2>2. CASE tele' = [tele EXCEPT ![file[s]].rows = @ \cup rows]
    BY <2>2 DEF TelemetryInv
  <2> QED
    BY <2>1, <2>2 DEF RecordTelemetry
<1>4. Rows' = Rows
  BY <1>0 DEF Rows
<1> HIDE DEF Own, rows
<1>5. \A m \in Months : \A x \in tele'[m].rows :
        x \in tele[m].rows \/ (x \in Own(s) /\ m = file[s])
  BY <1>0, <1>3
<1>6. \A m \in Months : \A x \in tele'[m].rows : x \in Nat /\ x < index.next
  BY <1>5 DEF TelemetryInv
<1>7. \A t \in Sessions : \A x \in Own(t)' : x \in Nat /\ x < index.next
  BY <1>2 DEF TelemetryInv
<1>8. \A r \in Rows, m \in Months : r.telemetry # 0 /\ r.run \in tele'[m].rows => m = r.telemetry
  BY <1>5 DEF TelemetryInv
<1>9. \A t \in Sessions : \A x \in Own(t)' :
        /\ \A m \in Months : x \in tele'[m].rows => m = file[t]
        /\ \A r \in Rows : r.run = x /\ r.telemetry # 0 => r.telemetry = file[t]
  BY <1>2, <1>5 DEF TelemetryInv
<1>10. \A t, u \in Sessions : \A x \in Own(t)' : x \in Own(u)' => t = u
  BY <1>2 DEF TelemetryInv
<1> QED
  BY <1>0, <1>3, <1>4, <1>6, <1>7, <1>8, <1>9, <1>10 DEF TelemetryInv

\* The telemetry database that a run's row names holds everything recorded
\* under that run id, however months, sessions and failed commits interleave
\* (storage.py, _open_once() and start_run_summary()).
THEOREM TelemetryIsFound == Spec => []TelemetryWhereRecorded
<1>1. Init => TelemetryInv
  <2> SUFFICES ASSUME Init PROVE TelemetryInv
    OBVIOUS
  <2>1. /\ DOMAIN tele = Months
        /\ \A m \in Months : /\ "rows" \in DOMAIN tele[m] /\ "columns" \in DOMAIN tele[m]
                             /\ tele[m].rows = {}
    BY DEF Init
  <2>2. \A s \in Sessions : Own(s) = {}
    BY DEF Init, NoRun
  <2> QED
    BY <2>1, <2>2 DEF TelemetryInv
<1>2. BaseInv /\ BaseInv' /\ TelemetryInv /\ [Next]_vars => TelemetryInv'
  BY Kinds, TelemetryKeep, TelemetryTake, TelemetryStarts, TelemetryFinishes,
     TelemetryBackfill, TelemetryRecords DEF BaseInv
<1>3. TelemetryInv => TelemetryWhereRecorded
  BY DEF TelemetryInv, TelemetryWhereRecorded, Rows
<1> QED
  BY <1>1, <1>2, <1>3, BaseAlways, PTL DEF Spec

---------------------------------------------------------------------------
(* Acknowledged writes *)

\* More rows, or rows with an end, hold no less.
LEMMA HoldsMore ==
    ASSUME NEW A, NEW B, NEW a, Holds(A, a),
           \A r \in A : \E q \in B : q.run = r.run /\ (r.finished => q.finished)
    PROVE  Holds(B, a)
  BY DEF Holds

\* start_run_summary() adds a row and leaves the others.
LEMMA AckStarts ==
    ASSUME BaseInv, AckInv, NEW s \in Sessions, Starts(s)
    PROVE  AckInv'
<1> DEFINE row == Row(run[s], run[s], file[s])
           new == StartRow(s)
<1>1. new.rows = Sees(s).rows \cup {row} /\ Sees(s).rows \in {index.rows, work.rows}
  BY StartRowRows DEF Sees, BaseInv
<1>2. row.run = run[s]
  BY RowFields
<1>3. \/ index' = new /\ work' = new /\ acked' = acked \cup {<<run[s], "row">>}
      \/ UNCHANGED <<index, acked>> /\ work' \in {index, new}
      \/ UNCHANGED <<index, work, acked>>
  BY DEF Starts, Writes
<1> HIDE DEF row, new
<1>4. \A a \in acked : Holds(new.rows, a)
  <2>1. \A a \in acked : Holds(Sees(s).rows, a)
    BY <1>1 DEF AckInv
  <2> QED
    BY <1>1, <2>1, HoldsMore
<1>5. Holds(new.rows, <<run[s], "row">>)
  BY <1>1, <1>2 DEF Holds
<1> QED
  BY <1>3, <1>4, <1>5 DEF AckInv

\* finish_run_summary() ends the rows of its run and leaves the others.
LEMMA AckFinishes ==
    ASSUME BaseInv, AckInv, NEW s \in Sessions, Finishes(s)
    PROVE  AckInv'
<1> DEFINE new == FinishRow(s)
           Ended(r) == [r EXCEPT !.finished = TRUE]
           ends == {Ended(r) : r \in Mine(s)}
           ack == IF Mine(s) = {} THEN {} ELSE {<<run[s], "row">>, <<run[s], "end">>}
<1>1. "rows" \in DOMAIN Sees(s) /\ Sees(s).rows \in {index.rows, work.rows}
  BY DEF BaseInv, LockInv, IndexOK, Sees
<1>2. new.rows = (Sees(s).rows \ Mine(s)) \cup ends
  BY <1>1 DEF FinishRow
<1>3. \A r \in Mine(s) : /\ r \in Sees(s).rows /\ r.run = run[s]
                         /\ Ended(r).run = r.run /\ Ended(r).finished
                         /\ Ended(r) \in ends
  BY <1>1 DEF Mine, BaseInv, NumberInv, RowOK, Rows
<1>4. \/ index' = new /\ work' = new /\ acked' = acked \cup ack
      \/ UNCHANGED <<index, acked>> /\ work' \in {index, new}
      \/ UNCHANGED <<index, work, acked>>
  BY DEF Finishes, Writes
<1>5. \A r \in Sees(s).rows : \E q \in new.rows : q.run = r.run /\ (r.finished => q.finished)
  <2> HIDE DEF Ended, ends, new
  <2> SUFFICES ASSUME NEW r \in Sees(s).rows
               PROVE  \E q \in new.rows : q.run = r.run /\ (r.finished => q.finished)
    OBVIOUS
  <2>1. CASE r \in Mine(s)
    BY <1>2, <1>3, <2>1, Zenon
  <2>2. CASE r \notin Mine(s)
    BY <1>2, <2>2, Zenon
  <2> QED
    BY <2>1, <2>2
<1>6. \A a \in ack : Holds(new.rows, a)
  <2> SUFFICES ASSUME NEW a \in ack PROVE Holds(new.rows, a)
    OBVIOUS
  <2>1. PICK r \in Mine(s) : TRUE
    OBVIOUS
  <2>2. \E q \in new.rows : q.run = run[s] /\ q.finished
    <3> HIDE DEF Ended, ends, new
    <3> QED BY <1>2, <1>3, <2>1, Zenon
  <2>3. a = <<run[s], "row">> \/ a = <<run[s], "end">>
    OBVIOUS
  <2> HIDE DEF ack, new
  <2> QED
    BY <2>2, <2>3 DEF Holds
<1> HIDE DEF new, ack
<1>7. \A a \in acked : Holds(new.rows, a)
  <2>1. \A a \in acked : Holds(Sees(s).rows, a)
    BY <1>1 DEF AckInv
  <2> QED
    BY <1>5, <2>1, HoldsMore
<1> QED
  BY <1>4, <1>6, <1>7 DEF AckInv

\* The backfill keeps every row and its end.
LEMMA AckBackfill ==
    ASSUME BaseInv, AckInv,
           BackfillReads \/ BackfillFails \/ BackfillRows \/ BackfillSeed
    PROVE  AckInv'
<1>1. CASE BackfillRows
  <2> DEFINE Numbered(r) == IF r.number # 0 THEN r
                            ELSE [r EXCEPT !.number = base + r.run + NumLegacy]
  <2>1. index'.rows = {Numbered(r) : r \in index.rows} /\ work' = index' /\ UNCHANGED acked
    BY <1>1 DEF BackfillRows, BaseInv, LockInv, IndexOK
  <2>2. \A r \in index.rows : Numbered(r).run = r.run /\ (r.finished => Numbered(r).finished)
    BY DEF BaseInv, NumberInv, RowOK, Rows
  <2> HIDE DEF Numbered
  <2>3. \A a \in acked : Holds(index'.rows, a)
    BY <2>1, <2>2, HoldsMore DEF AckInv
  <2> QED
    BY <2>1, <2>3 DEF AckInv
<1>2. CASE BackfillSeed
  <2>1. index'.rows = index.rows /\ work' = index' /\ UNCHANGED acked
    BY <1>2 DEF BackfillSeed, BaseInv, LockInv, IndexOK
  <2> QED
    BY <2>1 DEF AckInv
<1>3. CASE BackfillReads \/ BackfillFails
  BY <1>3 DEF BackfillReads, BackfillFails, AckInv
<1> QED
  BY <1>1, <1>2, <1>3

\* A row that start_run_summary() or finish_run_summary() reported as written
\* is there for good, through failed commits of later writes, transactions
\* left open, closed sessions, crashes and the backfill (storage.py).
THEOREM AcknowledgedIsKept == Spec => []AcknowledgedSurvives
<1>1. Init => AckInv
  BY DEF Init, AckInv
<1>2. BaseInv /\ AckInv /\ [Next]_vars => AckInv'
  <2> SUFFICES ASSUME BaseInv, AckInv, [Next]_vars PROVE AckInv'
    OBVIOUS
  <2>1. CASE Keep
    BY <2>1 DEF Keep, AckInv
  <2>2. ASSUME NEW s \in Sessions, Take(s) \/ RecordTelemetry(s) PROVE AckInv'
    BY <2>2 DEF Take, RecordTelemetry, AckInv
  <2> QED
    BY <2>1, <2>2, Kinds, AckStarts, AckFinishes, AckBackfill DEF BaseInv
<1>3. AckInv => AcknowledgedSurvives
  BY DEF AckInv, Holds, AcknowledgedSurvives
<1> QED
  BY <1>1, <1>2, <1>3, BaseAlways, PTL DEF Spec
=============================================================================

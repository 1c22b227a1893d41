----------------------------- MODULE CacheWriter -----------------------------
(***************************************************************************)
(* lnp_cache: the queue of resolved numbers and the thread that writes     *)
(* them to the database (cache.cpp), with the part of thread.cpp that      *)
(* starts and stops that thread.                                           *)
(*                                                                         *)
(* Three threads meet here.  The dispatcher calls sync() for every tagged  *)
(* result; the writer runs _cache::run(); a thread that received SIGTERM   *)
(* or SIGINT calls stop().  The steps are cut where a mutex or a condition *)
(* is released, so that every order the locks allow is a behaviour.        *)
(*                                                                         *)
(* Entries are numbered in the order sync() pushes them.  The database is  *)
(* up or down; libpqxx reopens a connection that was lost as soon as it is *)
(* used again, and throws when it cannot.                                  *)
(***************************************************************************)
EXTENDS Integers, Sequences

CONSTANTS
  MaxSync,       \* bound on the entries pushed
  MaxDbFail,     \* bound on the times the database goes down
  PrepareFault,  \* exceptions prepare_queries may throw
  EarlyStop      \* stop() may be called before the writer has set its name

ASSUME BoundAssumption == MaxSync \in Nat /\ MaxDbFail \in Nat

\* broken: pqxx::broken_connection; undefined: pqxx::undefined_function;
\* other: anything else.
ASSUME FaultAssumption == PrepareFault \subseteq {"broken", "undefined", "other"}

ASSUME StopAssumption == EarlyStop \in BOOLEAN

VARIABLES
  q,         \* entries pushed and not taken yet
  q_run,     \* condition<bool> q_run
  stopped,   \* condition<bool> stopped
  gotostop,
  c,         \* the connection: "null", "ready", "unprepared" or "freed"
  db_err,    \* local of run()
  qrun,      \* local of run(): q_run was set when the wait ended
  entry,     \* local of run(): the entry taken, 0 when there is none
  writer,    \* where the writer thread is
  syncer,    \* where the dispatcher thread is in sync()
  stopper,   \* where the signal handler's thread is in stop()
  db_up,     \* the database accepts connections
  db_fails,  \* times it went down
  pushed,    \* entries pushed so far
  written,   \* entries the database has, in the order it got them
  lost       \* entries taken from the queue and deleted unwritten

writerVars == <<db_err, qrun, entry, writer>>
dbVars == <<db_up, db_fails>>
historyVars == <<pushed, written, lost>>
vars == <<q, q_run, stopped, gotostop, c, writerVars, syncer, stopper, dbVars, historyVars>>

Entry == 1 .. MaxSync

Connection == {"null", "ready", "unprepared", "freed"}

\* "aborted": an exception left the thread and std::terminate ended the process;
\* "undefined": the program used a connection object it had deleted.
WriterAt == {"start", "connect", "wait", "check_stop", "check_db", "renew", "process_queue",
             "update_cache", "returned", "aborted", "undefined"}
SyncerAt == {"idle", "pushed"}
StopperAt == {"idle", "locked", "flagged", "waiting", "done"}

\* thread::start() has created the thread.
Init ==
  /\ q = <<>>
  /\ q_run = FALSE
  /\ stopped = FALSE
  /\ gotostop = FALSE
  /\ c = "null"
  /\ db_err = FALSE
  /\ qrun = FALSE
  /\ entry = 0
  /\ writer = "start"
  /\ syncer = "idle"
  /\ stopper = "idle"
  /\ db_up = TRUE
  /\ db_fails = 0
  /\ pushed = 0
  /\ written = <<>>
  /\ lost = {}

\* Nothing runs in a process that has ended.
alive == writer \notin {"aborted", "undefined"}

-----------------------------------------------------------------------------
(***************************************************************************)
(* sync(), on the dispatcher thread: push under q_m, then q_run.set.       *)
(***************************************************************************)
\* Mutant: the entry pushed is the one after e.
push_back_next(e) == Append(q, e + 1)

push_back(e) == Append(q, e)

sync_push ==
  /\ alive
  /\ syncer = "idle"
  /\ pushed < MaxSync
  /\ q' = push_back(pushed + 1)
  /\ pushed' = pushed + 1
  /\ syncer' = "pushed"
  /\ UNCHANGED <<q_run, stopped, gotostop, c, writerVars, stopper, dbVars, written, lost>>

sync_set ==
  /\ alive
  /\ syncer = "pushed"
  /\ q_run' = TRUE
  /\ syncer' = "idle"
  /\ UNCHANGED <<q, stopped, gotostop, c, writerVars, stopper, dbVars, historyVars>>

-----------------------------------------------------------------------------
(***************************************************************************)
(* The connection.                                                         *)
(***************************************************************************)

\* _connect_db: the connection it leaves behind and what the caller gets.  A
\* broken_connection while the statement is prepared deletes the connection
\* and still stores the pointer; any other exception keeps it, unprepared.
connect_result(conn, ret) ==
  \/ ~db_up /\ conn = "null" /\ ret = "0"
  \/ db_up /\ conn = "ready" /\ ret = "1"
  \/ db_up /\ "broken" \in PrepareFault /\ conn = "freed" /\ ret = "0"
  \/ db_up /\ "other" \in PrepareFault /\ conn = "unprepared" /\ ret = "0"
  \/ db_up /\ "undefined" \in PrepareFault /\ conn = c /\ ret = "throw"

\* set_name() takes the mutex stop() holds while it waits.
set_name ==
  /\ writer = "start"
  /\ stopper \in {"idle", "done"}
  /\ writer' = "connect"
  /\ UNCHANGED <<q, q_run, stopped, gotostop, c, db_err, qrun, entry, syncer, stopper,
                 dbVars, historyVars>>

\* The first connection: a failure ends the process.
connect_db ==
  /\ writer = "connect"
  /\ \E conn \in Connection, ret \in {"0", "1", "throw"} :
       /\ connect_result(conn, ret)
       /\ c' = conn
       /\ writer' = IF ret = "1" THEN "wait" ELSE "aborted"
  /\ UNCHANGED <<q, q_run, stopped, gotostop, db_err, qrun, entry, syncer, stopper,
                 dbVars, historyVars>>

-----------------------------------------------------------------------------
(***************************************************************************)
(* The loop of run().                                                      *)
(***************************************************************************)

\* wait_for_to: the condition is set, or the check interval is over.
wait_for_to ==
  /\ writer = "wait"
  /\ qrun' = q_run
  /\ writer' = "check_stop"
  /\ UNCHANGED <<q, q_run, stopped, gotostop, c, db_err, entry, syncer, stopper,
                 dbVars, historyVars>>

\* Mutant: the thread returns without telling on_stop().
check_gotostop_silent ==
  /\ writer = "check_stop"
  /\ writer' = IF gotostop THEN "returned" ELSE "check_db"
  /\ UNCHANGED <<q, q_run, stopped, gotostop, c, db_err, qrun, entry, syncer, stopper,
                 dbVars, historyVars>>

check_gotostop ==
  /\ writer = "check_stop"
  /\ writer' = IF gotostop THEN "returned" ELSE "check_db"
  /\ stopped' = (stopped \/ gotostop)
  /\ UNCHANGED <<q, q_run, gotostop, c, db_err, qrun, entry, syncer, stopper,
                 dbVars, historyVars>>

\* Mutant: the loop starts again when there is no error.
after_check_swapped(err) == IF err THEN "process_queue" ELSE "wait"

\* Where the loop goes once the connection was looked at.  With db_err it
\* sleeps and starts again.
after_check(err) == IF err THEN "wait" ELSE "process_queue"

connection_not_checked ==
  /\ writer = "check_db"
  /\ ~db_err /\ qrun
  /\ writer' = after_check(db_err)
  /\ UNCHANGED <<q, q_run, stopped, gotostop, c, db_err, qrun, entry, syncer, stopper,
                 dbVars, historyVars>>

\* Mutant: the connection is taken to be good after a failed attempt to renew it.
err_cleared(ret) == FALSE

\* db_err after an attempt to renew the connection.
err_after_connect(ret) == IF ret = "1" THEN FALSE ELSE db_err

\* A transaction on the connection succeeds.
connection_checked ==
  /\ writer = "check_db"
  /\ db_err \/ ~qrun
  /\ c \in {"ready", "unprepared"}
  /\ db_up
  /\ db_err' = FALSE
  /\ writer' = after_check(FALSE)
  /\ UNCHANGED <<q, q_run, stopped, gotostop, c, qrun, entry, syncer, stopper,
                 dbVars, historyVars>>

\* The transaction throws: db_err is set and the connection deleted, then
\* _connect_db is called.
connection_lost ==
  /\ writer = "check_db"
  /\ db_err \/ ~qrun
  /\ c \in {"ready", "unprepared"}
  /\ ~db_up
  /\ db_err' = TRUE
  /\ c' = "freed"
  /\ writer' = "renew"
  /\ UNCHANGED <<q, q_run, stopped, gotostop, qrun, entry, syncer, stopper,
                 dbVars, historyVars>>

\* A new connection in place of the one deleted, or of none.
connection_renewed ==
  /\ \/ writer = "renew"
     \/ writer = "check_db" /\ (db_err \/ ~qrun) /\ c = "null"
  /\ \E conn \in Connection, ret \in {"0", "1", "throw"} :
       /\ connect_result(conn, ret)
       /\ c' = conn
       /\ db_err' = err_after_connect(ret)
       /\ writer' = IF ret = "throw" THEN "aborted" ELSE after_check(db_err')
  /\ UNCHANGED <<q, q_run, stopped, gotostop, qrun, entry, syncer, stopper,
                 dbVars, historyVars>>

\* The pointer is not NULL but what it points to was deleted.
freed_connection_used ==
  /\ writer = "check_db"
  /\ db_err \/ ~qrun
  /\ c = "freed"
  /\ writer' = "undefined"
  /\ UNCHANGED <<q, q_run, stopped, gotostop, c, db_err, qrun, entry, syncer, stopper,
                 dbVars, historyVars>>

\* Mutant: the condition is cleared whatever is left in the queue.
q_run_cleared(rest) == FALSE

\* q_run once the queue is rest: cleared, under q_m, when nothing is left.
q_run_after(rest) == IF rest = <<>> THEN FALSE ELSE q_run

\* Mutant: the newest entry is taken first.
back_first == q[Len(q)]

front == Head(q)

process_queue ==
  /\ writer = "process_queue"
  /\ IF q = <<>>
       THEN /\ q_run' = q_run_after(q)
            /\ writer' = "wait"
            /\ UNCHANGED <<q, entry>>
       ELSE /\ entry' = front
            /\ q' = Tail(q)
            /\ q_run' = q_run_after(Tail(q))
            /\ writer' = "update_cache"
  /\ UNCHANGED <<stopped, gotostop, c, db_err, qrun, syncer, stopper, dbVars, historyVars>>

\* The statement ran: the entry is in the database.  A statement that is known
\* but could not be prepared when the connection was made is prepared again,
\* and it is for the server to refuse it.
update_cache_done ==
  /\ writer = "update_cache"
  /\ c \in {"ready", "unprepared"} /\ db_up
  /\ written' = Append(written, entry)
  /\ entry' = 0
  /\ writer' = "wait"
  /\ UNCHANGED <<q, q_run, stopped, gotostop, c, db_err, qrun, syncer, stopper, dbVars,
                 pushed, lost>>

\* No statement, a lost connection or an SQL error: the entry is deleted all
\* the same.
update_cache_failed ==
  /\ writer = "update_cache"
  /\ c \in {"ready", "unprepared"}
  /\ lost' = lost \cup {entry}
  /\ db_err' = TRUE
  /\ entry' = 0
  /\ writer' = "wait"
  /\ UNCHANGED <<q, q_run, stopped, gotostop, c, qrun, syncer, stopper, dbVars,
                 pushed, written>>

-----------------------------------------------------------------------------
(***************************************************************************)
(* thread::stop() and on_stop().                                           *)
(***************************************************************************)

\* stop() holds _m_td from here until on_stop() has returned.
stop ==
  /\ alive
  /\ stopper = "idle"
  /\ EarlyStop \/ writer # "start"
  /\ stopper' = "locked"
  /\ UNCHANGED <<q, q_run, stopped, gotostop, c, writerVars, syncer, dbVars, historyVars>>

stop_set_flag ==
  /\ alive
  /\ stopper = "locked"
  /\ gotostop' = TRUE
  /\ stopper' = "flagged"
  /\ UNCHANGED <<q, q_run, stopped, c, writerVars, syncer, dbVars, historyVars>>

stop_wake_writer ==
  /\ alive
  /\ stopper = "flagged"
  /\ q_run' = TRUE
  /\ stopper' = "waiting"
  /\ UNCHANGED <<q, stopped, gotostop, c, writerVars, syncer, dbVars, historyVars>>

\* Mutant: on_stop() does not wait for the thread.
not_awaited == TRUE

stopped_awaited == stopped

\* The connection is closed, if the pointer is not NULL, and the thread detached.
stop_done ==
  /\ alive
  /\ stopper = "waiting"
  /\ stopped_awaited
  /\ stopper' = "done"
  /\ writer' = IF c = "freed" THEN "undefined" ELSE writer
  /\ UNCHANGED <<q, q_run, stopped, gotostop, c, db_err, qrun, entry, syncer, dbVars,
                 historyVars>>

-----------------------------------------------------------------------------
db_down ==
  /\ db_up
  /\ db_fails < MaxDbFail
  /\ db_up' = FALSE
  /\ db_fails' = db_fails + 1
  /\ UNCHANGED <<q, q_run, stopped, gotostop, c, writerVars, syncer, stopper, historyVars>>

db_back ==
  /\ ~db_up
  /\ db_up' = TRUE
  /\ UNCHANGED <<q, q_run, stopped, gotostop, c, writerVars, syncer, stopper, db_fails,
                 historyVars>>

run ==
  \/ set_name
  \/ connect_db
  \/ wait_for_to
  \/ check_gotostop
  \/ connection_not_checked
  \/ connection_checked
  \/ connection_lost
  \/ connection_renewed
  \/ freed_connection_used
  \/ process_queue
  \/ update_cache_done
  \/ update_cache_failed

on_stop == stop_set_flag \/ stop_wake_writer \/ stop_done

Next ==
  \/ sync_push
  \/ sync_set
  \/ run
  \/ stop
  \/ on_stop
  \/ db_down
  \/ db_back

Spec == Init /\ [][Next]_vars

-----------------------------------------------------------------------------
(***************************************************************************)
(* Fairness.  Every thread is scheduled; the writer never waits without a  *)
(* timeout (check_interval, the 5 s delay, the connection's timeout), and  *)
(* the conditions it shares are held for an instant only.  The database    *)
(* owes nothing.                                                           *)
(***************************************************************************)
Fairness == WF_vars(run) /\ WF_vars(sync_set) /\ WF_vars(on_stop)

FairSpec == Spec /\ Fairness

-----------------------------------------------------------------------------
(***************************************************************************)
(* Properties.                                                             *)
(***************************************************************************)
TypeOK ==
  /\ q \in Seq(Entry)
  /\ q_run \in BOOLEAN
  /\ stopped \in BOOLEAN
  /\ gotostop \in BOOLEAN
  /\ c \in Connection
  /\ db_err \in BOOLEAN
  /\ qrun \in BOOLEAN
  /\ entry \in Entry \cup {0}
  /\ writer \in WriterAt
  /\ syncer \in SyncerAt
  /\ stopper \in StopperAt
  /\ db_up \in BOOLEAN
  /\ db_fails \in 0 .. MaxDbFail
  /\ pushed \in 0 .. MaxSync
  /\ written \in Seq(Entry)
  /\ lost \subseteq Entry

\* An entry that sync() has finished pushing is announced for as long as it is
\* queued: run() clears q_run under q_m and with the queue empty only, so a
\* push that races it sets q_run afterwards.
NoLostWakeup == q # <<>> /\ syncer = "idle" => q_run

\* Entries leave the queue in the order they were pushed and one at a time:
\* the queue holds the newest ones, the one being written and all that were
\* written or dropped are older, and none is written twice or after it was
\* dropped (run() deletes an entry it could not write instead of retrying it).
TakenInOrder ==
  /\ \A k \in 1 .. Len(q) : q[k] = pushed - Len(q) + k
  /\ entry <= pushed - Len(q)
  /\ \A k \in 1 .. Len(written) :
       /\ written[k] <= pushed - Len(q)
       /\ entry # 0 => written[k] < entry
       /\ written[k] \notin lost
  /\ \A j, k \in 1 .. Len(written) : j < k => written[j] < written[k]
  /\ \A e \in lost : e <= pushed - Len(q) /\ (entry # 0 => e < entry)

\* update_cache() dereferences c without a check: there is a connection
\* whenever it runs, because a renewal that failed leaves db_err set.
UpdateHasConnection == writer = "update_cache" => c \in {"ready", "unprepared"}

\* run() and on_stop() never use a connection object that was deleted.
NoFreedConnectionUsed == writer # "undefined"

\* Once stop() has returned the writer touches neither the connection nor the
\* database: on_stop() waits until run() is past its last use of them.
QuietAfterStop ==
  [][stopper = "done" => UNCHANGED <<c, written, lost, entry>>]_vars

\* Entry n was taken from the queue and written or dropped.
Taken(n) == n \in lost \/ \E k \in 1 .. Len(written) : written[k] = n

\* When the database stays up in the end, every entry pushed is taken, unless
\* the program is being stopped.
EveryEntryTaken ==
  (<>[]db_up) =>
    \A n \in 1 .. MaxSync : (pushed >= n) ~> (Taken(n) \/ stopper # "idle" \/ ~alive)

\* stop() returns, whatever the database does.
StopReturns == (stopper = "locked") ~> (stopper = "done" \/ ~alive)
=============================================================================

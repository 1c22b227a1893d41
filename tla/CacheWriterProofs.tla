-------------------------- MODULE CacheWriterProofs --------------------------
(***************************************************************************)
(* Theorems about CacheWriter, for any number of entries and of database   *)
(* failures, with every fault of prepare_queries and a stop at any time.   *)
(***************************************************************************)
EXTENDS CacheWriter, TLAPS

\* What a queue becomes when an entry is pushed (sync) or taken (run).
LEMMA QueueChanges ==
  ASSUME NEW S, NEW s \in Seq(S), NEW e \in S
  PROVE  /\ Append(s, e) \in Seq(S)
         /\ Len(Append(s, e)) = Len(s) + 1
         /\ Append(s, e)[Len(s) + 1] = e
         /\ \A k \in 1 .. Len(s) : Append(s, e)[k] = s[k]
         /\ s # <<>> =>
              /\ Head(s) \in S
              /\ Head(s) = s[1]
              /\ Len(s) >= 1
              /\ Tail(s) \in Seq(S)
              /\ Len(Tail(s)) = Len(s) - 1
              /\ \A k \in 1 .. Len(Tail(s)) : Tail(s)[k] = s[k + 1]
  OBVIOUS

-----------------------------------------------------------------------------
(***************************************************************************)
(* Types.  That update_cache has an entry to write is part of them: without *)
(* it the 0 that stands for no entry could reach the database.             *)
(***************************************************************************)
EntryHeld == writer = "update_cache" => entry \in Entry

TypeInv == TypeOK /\ EntryHeld

\* The steps of sync() keep the types.
LEMMA SyncKeepsTypes ==
  ASSUME TypeInv, sync_push \/ sync_set
  PROVE  TypeInv'
<1>1. CASE sync_push
  <2>1. pushed + 1 \in Entry /\ pushed' \in 0 .. MaxSync
    BY <1>1, BoundAssumption DEF sync_push, TypeOK, TypeInv, Entry
  <2>2. q' \in Seq(Entry)
    BY <1>1, <2>1, QueueChanges DEF sync_push, push_back, TypeOK, TypeInv
  <2> QED
    BY <1>1, <2>1, <2>2
    DEF sync_push, TypeOK, TypeInv, EntryHeld, SyncerAt, writerVars, dbVars
<1>2. CASE sync_set
  BY <1>2 DEF sync_set, TypeOK, TypeInv, EntryHeld, SyncerAt, writerVars, dbVars, historyVars
<1> QED
  BY <1>1, <1>2

\* The steps of run() keep the types.
LEMMA RunKeepsTypes ==
  ASSUME TypeInv, run
  PROVE  TypeInv'
<1> USE DEF TypeInv, EntryHeld, TypeOK, WriterAt, dbVars, historyVars
<1>1. CASE set_name
  BY <1>1 DEF set_name
<1>2. CASE connect_db
  BY <1>2 DEF connect_db
<1>3. CASE wait_for_to
  BY <1>3 DEF wait_for_to
<1>4. CASE check_gotostop
  BY <1>4 DEF check_gotostop
<1>5. CASE connection_not_checked
  BY <1>5 DEF connection_not_checked, after_check
<1>6. CASE connection_checked
  BY <1>6 DEF connection_checked, after_check
<1>7. CASE connection_lost
  BY <1>7 DEF connection_lost, Connection
<1>8. CASE connection_renewed
  BY <1>8 DEF connection_renewed, after_check, err_after_connect
<1>9. CASE freed_connection_used
  BY <1>9 DEF freed_connection_used
<1>10. CASE process_queue
  <2>1. CASE q = <<>>
    BY <1>10, <2>1 DEF process_queue, q_run_after
  <2>2. CASE q # <<>>
    <3>1. Head(q) \in Entry /\ Tail(q) \in Seq(Entry)
      BY <2>2, QueueChanges
    <3> QED
      BY <1>10, <2>2, <3>1 DEF process_queue, front, q_run_after
  <2> QED
    BY <2>1, <2>2
<1>11. CASE update_cache_done
  <2>1. written' \in Seq(Entry)
    BY <1>11, QueueChanges DEF update_cache_done
  <2> QED
    BY <1>11, <2>1 DEF update_cache_done
<1>12. CASE update_cache_failed
  BY <1>12 DEF update_cache_failed
<1> QED
  BY <1>1, <1>2, <1>3, <1>4, <1>5, <1>6, <1>7, <1>8, <1>9, <1>10, <1>11, <1>12 DEF run

\* stop(), the database and stuttering keep the types.
LEMMA OtherStepsKeepTypes ==
  ASSUME TypeInv, stop \/ on_stop \/ db_down \/ db_back \/ UNCHANGED vars
  PROVE  TypeInv'
<1> USE DEF TypeInv, EntryHeld, TypeOK, historyVars
<1>1. CASE stop
  BY <1>1 DEF stop, StopperAt, writerVars, dbVars
<1>2. CASE stop_set_flag
  BY <1>2 DEF stop_set_flag, StopperAt, writerVars, dbVars
<1>3. CASE stop_wake_writer
  BY <1>3 DEF stop_wake_writer, StopperAt, writerVars, dbVars
<1>4. CASE stop_done
  BY <1>4 DEF stop_done, StopperAt, WriterAt, dbVars
<1>5. CASE db_down
  <2>1. db_fails' \in 0 .. MaxDbFail
    BY <1>5, BoundAssumption DEF db_down
  <2>2. db_up' \in BOOLEAN
    BY <1>5 DEF db_down
  <2> QED
    BY <1>5, <2>1, <2>2 DEF db_down, writerVars
<1>6. CASE db_back
  BY <1>6 DEF db_back, writerVars
<1>7. CASE UNCHANGED vars
  BY <1>7 DEF vars, writerVars, dbVars
<1> QED
  BY <1>1, <1>2, <1>3, <1>4, <1>5, <1>6, <1>7 DEF on_stop

\* The types hold at start-up.
LEMMA TypesInitially ==
  ASSUME Init
  PROVE  TypeInv
<1>1. /\ pushed \in 0 .. MaxSync
      /\ db_fails \in 0 .. MaxDbFail
  BY BoundAssumption DEF Init
<1>2. /\ q \in Seq(Entry)
      /\ written \in Seq(Entry)
      /\ lost \subseteq Entry
      /\ entry \in Entry \cup {0}
  BY DEF Init
<1>3. /\ q_run \in BOOLEAN
      /\ stopped \in BOOLEAN
      /\ gotostop \in BOOLEAN
      /\ db_err \in BOOLEAN
      /\ qrun \in BOOLEAN
      /\ db_up \in BOOLEAN
  BY DEF Init
<1>4. /\ c \in Connection
      /\ writer \in WriterAt
      /\ writer # "update_cache"
      /\ syncer \in SyncerAt
      /\ stopper \in StopperAt
  BY DEF Init, Connection, WriterAt, SyncerAt, StopperAt
<1> QED
  BY <1>1, <1>2, <1>3, <1>4 DEF TypeInv, TypeOK, EntryHeld


\* Every step keeps them.
LEMMA TypesKept == TypeInv /\ [Next]_vars => TypeInv'
  BY SyncKeepsTypes, RunKeepsTypes, OtherStepsKeepTypes DEF Next

\* Every variable of the cache writer keeps its type.
THEOREM TypeCorrect == Spec => []TypeOK
<1>1. TypeInv => TypeOK
  BY DEF TypeInv
<1> QED
  BY <1>1, TypesInitially, TypesKept, PTL DEF Spec

-----------------------------------------------------------------------------
(***************************************************************************)
(* The queue's condition.                                                  *)
(***************************************************************************)

\* An entry that is queued and announced keeps q_run set until it is taken.
THEOREM WakeupsAreNotLost == Spec => []NoLostWakeup
<1>1. Init => NoLostWakeup
  BY DEF Init, NoLostWakeup
<1>2. ASSUME TypeInv, NoLostWakeup, [Next]_vars
      PROVE  NoLostWakeup'
  <2> USE <1>2 DEF NoLostWakeup
  <2>1. CASE sync_push
    BY <2>1 DEF sync_push
  <2>2. CASE sync_set
    BY <2>2 DEF sync_set
  <2>3. CASE process_queue
    BY <2>3 DEF process_queue, q_run_after
  <2>4. CASE stop_wake_writer
    BY <2>4 DEF stop_wake_writer
  <2>5. CASE UNCHANGED <<q, q_run, syncer>>
    BY <2>5
  <2>6. CASE run /\ ~process_queue
    BY <2>5, <2>6 DEF run, set_name, connect_db, wait_for_to, check_gotostop,
       connection_not_checked, connection_checked, connection_lost, connection_renewed,
       freed_connection_used, update_cache_done, update_cache_failed
  <2>7. CASE stop \/ stop_set_flag \/ stop_done \/ db_down \/ db_back \/ UNCHANGED vars
    BY <2>5, <2>7 DEF stop, stop_set_flag, stop_done, db_down, db_back, vars
  <2> QED
    BY <2>1, <2>2, <2>3, <2>4, <2>6, <2>7 DEF Next, on_stop
<1>3. TypeInv /\ NoLostWakeup /\ [Next]_vars => NoLostWakeup'
  BY <1>2
<1> QED
  BY <1>1, <1>3, TypesInitially, TypesKept, PTL DEF Spec

-----------------------------------------------------------------------------
(***************************************************************************)
(* The connection under update_cache.  A connection that is NULL or was    *)
(* deleted comes with db_err, and with db_err the loop does not reach the  *)
(* queue before a check or a renewal has succeeded.                        *)
(***************************************************************************)
Usable == {"ready", "unprepared"}

ErrorIsRemembered ==
  /\ writer \in {"wait", "check_stop", "check_db"} /\ ~db_err => c \in Usable
  /\ writer \in {"process_queue", "update_cache"} => c \in Usable
  /\ writer = "renew" => db_err

\* update_cache never dereferences a NULL or deleted connection, whatever the
\* database and prepare_queries do.
THEOREM UpdatesHaveAConnection == Spec => []UpdateHasConnection
<1>1. Init => ErrorIsRemembered
  BY DEF Init, ErrorIsRemembered
<1>2. ASSUME TypeInv, ErrorIsRemembered, [Next]_vars
      PROVE  ErrorIsRemembered'
  <2> USE <1>2 DEF ErrorIsRemembered, Usable
  <2>1. CASE UNCHANGED <<writer, db_err, c>>
    BY <2>1
  <2>2. CASE set_name
    BY <2>2 DEF set_name
  <2>3. CASE connect_db
    BY <2>3 DEF connect_db, connect_result
  <2>4. CASE wait_for_to
    BY <2>4 DEF wait_for_to
  <2>5. CASE check_gotostop
    BY <2>5 DEF check_gotostop
  <2>6. CASE connection_not_checked
    BY <2>6 DEF connection_not_checked, after_check
  <2>7. CASE connection_checked
    BY <2>7 DEF connection_checked, after_check
  <2>8. CASE connection_lost
    BY <2>8 DEF connection_lost
  <2>9. CASE connection_renewed
    <3>1. db_err
      BY <2>9 DEF connection_renewed
    <3>2. PICK conn \in Connection, ret \in {"0", "1", "throw"} :
             /\ connect_result(conn, ret)
             /\ c' = conn
             /\ db_err' = err_after_connect(ret)
             /\ writer' = IF ret = "throw" THEN "aborted" ELSE after_check(db_err')
      BY <2>9 DEF connection_renewed
    <3>3. CASE ret = "1"
      BY <3>2, <3>3 DEF connect_result, err_after_connect, after_check
    <3>4. CASE ret # "1"
      BY <3>1, <3>2, <3>4 DEF err_after_connect, after_check
    <3> QED
      BY <3>3, <3>4
  <2>10. CASE freed_connection_used
    BY <2>10 DEF freed_connection_used
  <2>11. CASE process_queue
    BY <2>11 DEF process_queue
  <2>12. CASE update_cache_done
    BY <2>12 DEF update_cache_done
  <2>13. CASE update_cache_failed
    BY <2>13 DEF update_cache_failed
  <2>14. CASE stop_done
    BY <2>14 DEF stop_done
  <2>15. CASE \/ sync_push \/ sync_set \/ stop \/ stop_set_flag \/ stop_wake_writer
              \/ db_down \/ db_back \/ UNCHANGED vars
    BY <2>1, <2>15 DEF sync_push, sync_set, stop, stop_set_flag, stop_wake_writer,
       db_down, db_back, vars, writerVars
  <2> QED
    BY <2>2, <2>3, <2>4, <2>5, <2>6, <2>7, <2>8, <2>9, <2>10, <2>11, <2>12, <2>13, <2>14,
       <2>15 DEF Next, run, on_stop
<1>3. TypeInv /\ ErrorIsRemembered /\ [Next]_vars => ErrorIsRemembered'
  BY <1>2
<1>4. ErrorIsRemembered => UpdateHasConnection
  BY DEF ErrorIsRemembered, UpdateHasConnection, Usable
<1> QED
  BY <1>1, <1>3, <1>4, TypesInitially, TypesKept, PTL DEF Spec

-----------------------------------------------------------------------------
(***************************************************************************)
(* Stopping.  stopped is set by the step that leaves the loop, and         *)
(* on_stop() waits for it.                                                 *)
(***************************************************************************)
StoppedIsOver ==
  /\ stopped => writer \in {"returned", "undefined"}
  /\ stopper = "done" => stopped

\* Once stop() has returned the writer stays out of its loop.
LEMMA StoppedIsOverKept ==
  ASSUME TypeInv, StoppedIsOver, [Next]_vars
  PROVE  StoppedIsOver'
<1> USE DEF StoppedIsOver
<1>1. CASE run
  <2>1. CASE check_gotostop
    BY <2>1 DEF check_gotostop
  <2>2. CASE ~check_gotostop
    <3>1. writer \notin {"returned", "undefined"} /\ UNCHANGED <<stopped, stopper>>
      BY <1>1, <2>2 DEF run, set_name, connect_db, wait_for_to,
         connection_not_checked, connection_checked, connection_lost, connection_renewed,
         freed_connection_used, process_queue, update_cache_done, update_cache_failed
    <3> QED
      BY <3>1
  <2> QED
    BY <2>1, <2>2
<1>2. CASE stop_done
  BY <1>2 DEF stop_done, stopped_awaited
<1>3. CASE stop \/ stop_set_flag \/ stop_wake_writer
  BY <1>3 DEF stop, stop_set_flag, stop_wake_writer, writerVars
<1>4. CASE sync_push \/ sync_set \/ db_down \/ db_back \/ UNCHANGED vars
  BY <1>4 DEF sync_push, sync_set, db_down, db_back, vars, writerVars
<1> QED
  BY <1>1, <1>2, <1>3, <1>4 DEF Next, on_stop

\* After stop() has returned the writer leaves the connection, the database
\* and its entry alone.
THEOREM QuietOnceStopped == Spec => QuietAfterStop
<1>1. Init => StoppedIsOver
  BY DEF Init, StoppedIsOver
<1>2. TypeInv /\ StoppedIsOver /\ [Next]_vars => StoppedIsOver'
  BY StoppedIsOverKept
<1>3. TypeInv /\ StoppedIsOver /\ [Next]_vars
        => [stopper = "done" => UNCHANGED <<c, written, lost, entry>>]_vars
  <2> SUFFICES ASSUME TypeInv, StoppedIsOver, Next, stopper = "done"
               PROVE  UNCHANGED <<c, written, lost, entry>>
    OBVIOUS
  <2>1. writer \in {"returned", "undefined"}
    BY DEF StoppedIsOver
  <2>2. ~run
    BY <2>1 DEF run, set_name, connect_db, wait_for_to, check_gotostop,
       connection_not_checked, connection_checked, connection_lost, connection_renewed,
       freed_connection_used, process_queue, update_cache_done, update_cache_failed
  <2> QED
    BY <2>2 DEF Next, on_stop, sync_push, sync_set, stop, stop_set_flag, stop_wake_writer,
       stop_done, db_down, db_back, writerVars, historyVars
<1> QED
  BY <1>1, <1>2, <1>3, TypesInitially, TypesKept, PTL DEF Spec, QuietAfterStop

-----------------------------------------------------------------------------
(***************************************************************************)
(* Deleted connections.  connection_lost deletes the connection, and       *)
(* _connect_db replaces it before anybody looks at it again.  The one way  *)
(* to keep a deleted connection is a broken_connection that prepare_queries *)
(* throws inside _connect_db.                                              *)
(***************************************************************************)
FreedIsReplaced == c = "freed" => writer \in {"renew", "aborted"}

FreedInv == NoFreedConnectionUsed /\ StoppedIsOver /\ FreedIsReplaced

\* No deleted connection is used when no connection breaks while its
\* statement is prepared.
THEOREM FreedConnectionsAreNotUsed ==
  ASSUME "broken" \notin PrepareFault
  PROVE  Spec => []NoFreedConnectionUsed
<1>1. Init => FreedInv
  BY DEF Init, FreedInv, NoFreedConnectionUsed, StoppedIsOver, FreedIsReplaced
<1>2. ASSUME TypeInv, FreedInv, [Next]_vars
      PROVE  FreedInv'
  <2> USE <1>2
  <2>1. StoppedIsOver'
    BY StoppedIsOverKept DEF FreedInv
  <2> USE DEF FreedInv, NoFreedConnectionUsed, FreedIsReplaced
  <2>2. CASE connect_db \/ connection_renewed
    BY <2>1, <2>2 DEF connect_db, connection_renewed, connect_result, after_check
  <2>3. CASE connection_lost \/ connection_checked \/ connection_not_checked
    BY <2>1, <2>3 DEF connection_lost, connection_checked, connection_not_checked, after_check
  <2>4. CASE \/ set_name \/ wait_for_to \/ check_gotostop \/ freed_connection_used
             \/ process_queue \/ update_cache_done \/ update_cache_failed
    BY <2>1, <2>4 DEF set_name, wait_for_to, check_gotostop, freed_connection_used,
       process_queue, update_cache_done, update_cache_failed
  <2>5. CASE stop_done
    BY <2>1, <2>5 DEF stop_done, stopped_awaited, StoppedIsOver, alive
  <2>6. CASE \/ sync_push \/ sync_set \/ stop \/ stop_set_flag \/ stop_wake_writer
             \/ db_down \/ db_back \/ UNCHANGED vars
    BY <2>1, <2>6 DEF sync_push, sync_set, stop, stop_set_flag, stop_wake_writer,
       db_down, db_back, vars, writerVars
  <2> QED
    BY <2>2, <2>3, <2>4, <2>5, <2>6 DEF Next, run, on_stop
<1>3. TypeInv /\ FreedInv /\ [Next]_vars => FreedInv'
  BY <1>2
<1>4. FreedInv => NoFreedConnectionUsed
  BY DEF FreedInv
<1> QED
  BY <1>1, <1>3, <1>4, TypesInitially, TypesKept, PTL DEF Spec

-----------------------------------------------------------------------------
(***************************************************************************)
(* Order.  The proof follows the number of entries taken so far.           *)
(***************************************************************************)
OrderInv == TypeInv /\ TakenInOrder

\* Entries are positive numbers, so they can be compared.
LEMMA EntriesAreNumbers ==
  ASSUME TypeInv
  PROVE  /\ \A e \in Entry : e \in Int /\ e > 0
         /\ \A k \in 1 .. Len(written) : written[k] \in Int
         /\ \A e \in lost : e \in Int
         /\ pushed \in Int
         /\ q \in Seq(Entry)
         /\ written \in Seq(Entry)
         /\ Len(q) \in Nat
         /\ Len(written) \in Nat
<1>1. \A e \in Entry : e \in Int /\ e > 0
  BY DEF Entry
<1>2. written \in Seq(Entry) /\ lost \subseteq Entry /\ q \in Seq(Entry)
  BY DEF TypeInv, TypeOK
<1>3. \A k \in 1 .. Len(written) : written[k] \in Entry
  BY <1>2
<1>4. pushed \in Int
  BY DEF TypeInv, TypeOK
<1> QED
  BY <1>1, <1>2, <1>3, <1>4

\* A push (sync) leaves what was taken as it is.
LEMMA PushKeepsOrder ==
  ASSUME OrderInv, sync_push
  PROVE  TakenInOrder'
<1>1. pushed \in Int /\ Len(q) \in Nat /\ pushed + 1 \in Entry
  BY BoundAssumption DEF OrderInv, TypeInv, TypeOK, sync_push, Entry
<1>2. /\ Len(q') = Len(q) + 1
      /\ q'[Len(q) + 1] = pushed + 1
      /\ \A k \in 1 .. Len(q) : q'[k] = q[k]
  BY <1>1, QueueChanges DEF OrderInv, TypeInv, TypeOK, sync_push, push_back
<1>3. pushed' = pushed + 1 /\ pushed' - Len(q') = pushed - Len(q)
  BY <1>1, <1>2 DEF sync_push
<1>4. \A k \in 1 .. Len(q') : q'[k] = pushed' - Len(q') + k
  <2> TAKE k \in 1 .. Len(q')
  <2>1. CASE k \in 1 .. Len(q)
    BY <1>1, <1>2, <1>3, <2>1 DEF OrderInv, TakenInOrder
  <2>2. CASE k = Len(q) + 1
    BY <1>1, <1>2, <1>3, <2>2
  <2> QED
    BY <1>1, <1>2, <2>1, <2>2
<1>5. UNCHANGED <<entry, written, lost>>
  BY DEF sync_push, writerVars
<1> QED
  BY <1>3, <1>4, <1>5 DEF OrderInv, TakenInOrder

\* The entry run() takes is newer than all that were written or dropped.
LEMMA TakeKeepsOrder ==
  ASSUME OrderInv, process_queue
  PROVE  TakenInOrder'
<1>1. UNCHANGED <<pushed, written, lost>>
  BY DEF process_queue, historyVars
<1>2. CASE q = <<>>
  BY <1>1, <1>2 DEF OrderInv, TakenInOrder, process_queue
<1>3. CASE q # <<>>
  <2>1. /\ pushed \in Int
        /\ q \in Seq(Entry)
        /\ Len(q) \in Nat
    BY EntriesAreNumbers DEF OrderInv
  <2>2. /\ Len(q) >= 1
        /\ Len(Tail(q)) = Len(q) - 1
        /\ Head(q) = q[1]
        /\ \A k \in 1 .. Len(Tail(q)) : Tail(q)[k] = q[k + 1]
    BY <1>3, <2>1, QueueChanges
  <2>3. q' = Tail(q) /\ entry' = Head(q)
    BY <1>3 DEF process_queue, front
  <2>4. entry' = pushed - Len(q) + 1
    BY <2>1, <2>2, <2>3 DEF OrderInv, TakenInOrder
  <2>5. pushed' - Len(q') = entry'
    BY <1>1, <2>1, <2>2, <2>3, <2>4
  <2>6. \A k \in 1 .. Len(q') : q'[k] = pushed' - Len(q') + k
    <3> TAKE k \in 1 .. Len(q')
    <3>1. k + 1 \in 1 .. Len(q) /\ q'[k] = q[k + 1]
      BY <2>1, <2>2, <2>3
    <3>2. q[k + 1] = pushed - Len(q) + (k + 1)
      BY <3>1 DEF OrderInv, TakenInOrder
    <3>3. Len(q') = Len(q) - 1 /\ pushed' = pushed /\ k \in Int
      BY <1>1, <2>2, <2>3
    <3> QED
      BY <2>1, <3>1, <3>2, <3>3
  <2>7. /\ \A k \in 1 .. Len(written) : written[k] \in Int
        /\ \A e \in lost : e \in Int
    BY EntriesAreNumbers DEF OrderInv
  <2>8. /\ \A k \in 1 .. Len(written) : written[k] < entry' /\ written[k] <= entry'
        /\ \A e \in lost : e < entry' /\ e <= entry'
    BY <2>1, <2>4, <2>7 DEF OrderInv, TakenInOrder
  <2>9. entry' <= pushed' - Len(q')
    BY <2>1, <2>4, <2>5
  <2>10. /\ \A j, k \in 1 .. Len(written) : j < k => written[j] < written[k]
         /\ \A k \in 1 .. Len(written) : written[k] \notin lost
    BY DEF OrderInv, TakenInOrder
  <2> QED
    BY <1>1, <2>5, <2>6, <2>8, <2>9, <2>10 DEF TakenInOrder
<1> QED
  BY <1>2, <1>3

\* Writing the entry puts the newest of those taken last.
LEMMA WriteKeepsOrder ==
  ASSUME OrderInv, update_cache_done
  PROVE  TakenInOrder'
<1>1. UNCHANGED <<q, pushed, lost>> /\ written' = Append(written, entry) /\ entry' = 0
  BY DEF update_cache_done
<1>2. /\ entry \in Entry
      /\ entry # 0
      /\ written \in Seq(Entry)
      /\ pushed \in Int
      /\ Len(q) \in Nat
      /\ Len(written) \in Nat
      /\ \A k \in 1 .. Len(written) : written[k] \in Int
  <2>1. entry \in Entry
    BY DEF OrderInv, TypeInv, EntryHeld, update_cache_done
  <2> QED
    BY <2>1, EntriesAreNumbers DEF OrderInv
<1>3. /\ Len(written') = Len(written) + 1
      /\ written'[Len(written) + 1] = entry
      /\ \A k \in 1 .. Len(written) : written'[k] = written[k]
  BY <1>1, <1>2, QueueChanges
<1>4. \A k \in 1 .. Len(written) : written[k] < entry
  BY <1>2 DEF OrderInv, TakenInOrder
<1>5. entry \notin lost /\ entry <= pushed - Len(q)
  <2>1. \A e \in lost : e < entry
    BY <1>2 DEF OrderInv, TakenInOrder
  <2>2. entry \in Int
    BY <1>2 DEF Entry
  <2> QED
    BY <2>1, <2>2 DEF OrderInv, TakenInOrder
<1>6. ASSUME NEW k \in 1 .. Len(written')
      PROVE  written'[k] <= pushed' - Len(q') /\ written'[k] \notin lost'
  <2>1. CASE k \in 1 .. Len(written)
    BY <1>1, <1>3, <2>1 DEF OrderInv, TakenInOrder
  <2>2. CASE k = Len(written) + 1
    BY <1>1, <1>3, <1>5, <2>2
  <2> QED
    BY <1>2, <1>3, <2>1, <2>2
<1>7. ASSUME NEW j \in 1 .. Len(written'), NEW k \in 1 .. Len(written'), j < k
      PROVE  written'[j] < written'[k]
  <2>1. CASE k \in 1 .. Len(written)
    <3>1. j \in 1 .. Len(written)
      BY <1>2, <1>7, <2>1
    <3> QED
      BY <1>3, <1>7, <2>1, <3>1 DEF OrderInv, TakenInOrder
  <2>2. CASE k = Len(written) + 1
    <3>1. j \in 1 .. Len(written)
      BY <1>2, <1>3, <1>7, <2>2
    <3> QED
      BY <1>3, <1>4, <2>2, <3>1
  <2> QED
    BY <1>2, <1>3, <2>1, <2>2
<1>8. entry' <= pushed' - Len(q')
  BY <1>1, <1>2, <1>5 DEF Entry
<1> QED
  BY <1>1, <1>6, <1>7, <1>8 DEF OrderInv, TakenInOrder

\* Dropping the entry adds one that was not written.
LEMMA DropKeepsOrder ==
  ASSUME OrderInv, update_cache_failed
  PROVE  TakenInOrder'
<1>1. UNCHANGED <<q, pushed, written>> /\ lost' = lost \cup {entry} /\ entry' = 0
  BY DEF update_cache_failed
<1>2. /\ entry # 0
      /\ entry \in Int
      /\ entry > 0
      /\ pushed \in Int
      /\ Len(q) \in Nat
      /\ \A k \in 1 .. Len(written) : written[k] \in Int
  BY BoundAssumption DEF OrderInv, TypeInv, TypeOK, EntryHeld, update_cache_failed, Entry
<1>3. \A k \in 1 .. Len(written) : written[k] < entry
  BY <1>2 DEF OrderInv, TakenInOrder
<1>4. \A k \in 1 .. Len(written) : written[k] \notin lost'
  BY <1>1, <1>2, <1>3 DEF OrderInv, TakenInOrder
<1>5. entry' <= pushed' - Len(q')
  BY <1>1, <1>2 DEF OrderInv, TakenInOrder
<1> QED
  BY <1>1, <1>4, <1>5 DEF OrderInv, TakenInOrder

\* Entries are written in the order they were resolved, none twice and none
\* after it was dropped.
THEOREM EntriesAreTakenInOrder == Spec => []TakenInOrder
<1>1. Init => OrderInv
  <2> SUFFICES ASSUME Init PROVE OrderInv
    OBVIOUS
  <2>1. q = <<>> /\ written = <<>> /\ entry = 0 /\ pushed = 0 /\ lost = {}
    BY DEF Init
  <2>2. Len(q) = 0 /\ Len(written) = 0
    BY <2>1
  <2>3. entry <= pushed - Len(q)
    BY <2>1, <2>2
  <2> QED
    BY <2>1, <2>2, <2>3, TypesInitially DEF OrderInv, TakenInOrder
<1>2. ASSUME OrderInv, [Next]_vars
      PROVE  OrderInv'
  <2>1. TypeInv'
    BY <1>2, TypesKept DEF OrderInv
  <2>2. CASE UNCHANGED <<q, pushed, entry, written, lost>>
    BY <1>2, <2>1, <2>2 DEF OrderInv, TakenInOrder
  <2>3. CASE \/ set_name \/ connect_db \/ wait_for_to \/ check_gotostop
             \/ connection_not_checked \/ connection_checked \/ connection_lost
             \/ connection_renewed \/ freed_connection_used
    BY <2>2, <2>3 DEF set_name, connect_db, wait_for_to, check_gotostop,
       connection_not_checked, connection_checked, connection_lost, connection_renewed,
       freed_connection_used, historyVars
  <2>4. CASE \/ sync_set \/ stop \/ on_stop \/ db_down \/ db_back \/ UNCHANGED vars
    BY <2>2, <2>4 DEF sync_set, stop, on_stop, stop_set_flag, stop_wake_writer, stop_done,
       db_down, db_back, vars, writerVars, historyVars
  <2> QED
    BY <1>2, <2>1, <2>3, <2>4, PushKeepsOrder, TakeKeepsOrder, WriteKeepsOrder,
       DropKeepsOrder DEF Next, run, OrderInv
<1>3. OrderInv /\ [Next]_vars => OrderInv'
  BY <1>2
<1>4. OrderInv => TakenInOrder
  BY DEF OrderInv
<1> QED
  BY <1>1, <1>3, <1>4, PTL DEF Spec
=============================================================================

------------------------ MODULE TransactionTracker ------------------------
(***************************************************************************)
(* TransactionTracker (transaction_tracker.rs): which transactions and     *)
(* savepoints are live, and so which freed pages have to be kept.  Every   *)
(* method holds the tracker's mutex from beginning to end and is therefore *)
(* a function of the tracker's State here; deallocate_savepoint(), which   *)
(* takes the mutex twice, is two.                                          *)
(***************************************************************************)
EXTENDS Integers, FiniteSets

CONSTANTS
  MaxId,          \* bound: transaction ids (u64 in the code)
  MaxSavepoint    \* bound: savepoint ids (u64 in the code)

ASSUME TrackerBounds == MaxId \in Nat /\ MaxSavepoint \in Nat

None == -1
Ids == 0..MaxId
SavepointIds == 1..MaxSavepoint
IdOrNone == Ids \cup {None}

\* A map of the code is a function here, with None for a key that is not in it;
\* a reference count of zero is a key that is not in live_read_transactions.
Tracker == [next_savepoint_id : 0..(MaxSavepoint + 1),
            live_read_transactions : [Ids -> Nat],
            next_transaction_id : Ids,
            valid_savepoints : [SavepointIds -> IdOrNone],
            pending_non_durable_commits : [Ids -> IdOrNone],
            unprocessed_freed_non_durable_commits : SUBSET Ids]

NewTracker(next_transaction_id) ==
  [next_savepoint_id |-> 0,
   live_read_transactions |-> [id \in Ids |-> 0],
   next_transaction_id |-> next_transaction_id,
   valid_savepoints |-> [s \in SavepointIds |-> None],
   pending_non_durable_commits |-> [id \in Ids |-> None],
   unprocessed_freed_non_durable_commits |-> {}]

\* The first key of an ordered map, or None.
First(keys) == IF keys = {} THEN None ELSE CHOOSE k \in keys : \A j \in keys : k <= j

start_write_transaction(t) == [t EXCEPT !.next_transaction_id = @ + 1]

register_read_transaction(t, id) ==
  [t EXCEPT !.live_read_transactions[id] = @ + 1]

deallocate_read_transaction(t, id) ==
  [t EXCEPT !.live_read_transactions[id] = @ - 1]

\* Every pending commit holds a reference on its durable ancestor; the ids stay
\* in the unprocessed set.
clear_pending_non_durable_commits(t) ==
  [t EXCEPT !.pending_non_durable_commits = [id \in Ids |-> None],
            !.live_read_transactions = [id \in Ids |->
               @[id] - Cardinality({k \in Ids : t.pending_non_durable_commits[k] = id})]]

register_non_durable_commit_Self(t, id, durable_ancestor) ==  \* faulty: wrong id
  [register_read_transaction(t, id) EXCEPT
     !.pending_non_durable_commits[id] = id,
     !.unprocessed_freed_non_durable_commits = @ \cup {id}]

register_non_durable_commit(t, id, durable_ancestor) ==
  [register_read_transaction(t, durable_ancestor) EXCEPT
     !.pending_non_durable_commits[id] = durable_ancestor,
     !.unprocessed_freed_non_durable_commits = @ \cup {id}]

\* The method's name notwithstanding, the commits are no longer unprocessed.
mark_unprocessed_non_durable_commit(t, ids) ==
  [t EXCEPT !.unprocessed_freed_non_durable_commits = @ \ ids]

restore_savepoint_counter_state(t, next_savepoint) ==
  [t EXCEPT !.next_savepoint_id = next_savepoint]

\* register_persistent_savepoint() of every savepoint s that ids maps to an id.
register_persistent_savepoints(t, ids) ==
  [t EXCEPT !.valid_savepoints = ids,
            !.live_read_transactions = [id \in Ids |->
               @[id] + Cardinality({s \in SavepointIds : ids[s] = id})]]

any_savepoint_exists(t) == \E s \in SavepointIds : t.valid_savepoints[s] # None

is_valid_savepoint(t, s) == t.valid_savepoints[s] # None

allocate_savepoint(t, id) ==
  [t EXCEPT !.next_savepoint_id = @ + 1,
            !.valid_savepoints[t.next_savepoint_id + 1] = id]

\* The first half of deallocate_savepoint(); deallocate_read_transaction() is
\* the second.
remove_savepoint(t, s) == [t EXCEPT !.valid_savepoints[s] = None]

deallocate_savepoints_OnlyInvalid(t, ids) ==  \* faulty: the references stay
  [t EXCEPT !.valid_savepoints = [s \in SavepointIds |->
               IF ids[s] # None THEN None ELSE @[s]]]

\* deallocate_savepoint() of every savepoint s that ids maps to a transaction id.
deallocate_savepoints(t, ids) ==
  [t EXCEPT !.valid_savepoints = [s \in SavepointIds |->
               IF ids[s] # None THEN None ELSE @[s]],
            !.live_read_transactions = [id \in Ids |->
               @[id] - Cardinality({s \in SavepointIds : ids[s] = id})]]

invalidate_savepoints_after(t, s) ==
  [t EXCEPT !.valid_savepoints =
     [x \in SavepointIds |-> IF x <= s THEN @[x] ELSE None]]

\* The transaction id of the oldest savepoint, or None.
oldest_savepoint(t) ==
  LET s == First({x \in SavepointIds : t.valid_savepoints[x] # None})
  IN  IF s = None THEN None ELSE t.valid_savepoints[s]

oldest_live_read_transaction(t) ==
  First({id \in Ids : t.live_read_transactions[id] > 0})

oldest_live_read_nondurable_transaction_Unprocessed(t) ==  \* faulty: wrong set
  First({id \in t.unprocessed_freed_non_durable_commits :
           t.live_read_transactions[id] > 0})

oldest_live_read_nondurable_transaction(t) ==
  First({id \in Ids : /\ t.live_read_transactions[id] > 0
                      /\ t.pending_non_durable_commits[id] # None})
=============================================================================

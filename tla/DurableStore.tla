---------------------------- MODULE DurableStore ----------------------------
(***************************************************************************)
(* What the documentation of Durability promises the user of a database,   *)
(* without a word about slots, checksums or repair: a durable commit       *)
(* persists once commit() has returned; one that was cut short happened    *)
(* completely or not at all, and opening the database settles which; a     *)
(* non-durable commit is visible, but a crash undoes it.                   *)
(***************************************************************************)
CONSTANTS
  Contents,   \* what the user's tables can hold
  Empty       \* what they hold in a new database

VARIABLES
  up,         \* is the database open?
  visible,    \* what a transaction that begins now sees
  persisted,  \* the last durable commit
  inflight    \* the durable commit whose outcome is unknown, if any

dsVars == <<up, visible, persisted, inflight>>

DSInit ==
  /\ up = FALSE
  /\ visible = Empty
  /\ persisted = Empty
  /\ inflight = {}

\* Opening settles what became of a commit that a crash cut short.
Open ==
  /\ ~up
  /\ up' = TRUE
  /\ persisted' \in {persisted} \cup inflight
  /\ visible' = persisted'
  /\ inflight' = {}

BeginDurable(c) ==
  /\ up /\ inflight = {}
  /\ inflight' = {c}
  /\ UNCHANGED <<up, visible, persisted>>

EndDurable ==
  /\ up
  /\ inflight = {visible'}
  /\ persisted' = visible'
  /\ inflight' = {}
  /\ UNCHANGED up

NonDurable(c) ==
  /\ up /\ inflight = {}
  /\ visible' = c
  /\ UNCHANGED <<up, persisted, inflight>>

\* A crash, or closing the database.
Down ==
  /\ up
  /\ up' = FALSE
  /\ visible' = Empty
  /\ UNCHANGED <<persisted, inflight>>

DSNext ==
  \/ Open
  \/ \E c \in Contents : BeginDurable(c) \/ NonDurable(c)
  \/ EndDurable
  \/ Down

DSSpec == DSInit /\ [][DSNext]_dsVars
=============================================================================

------------------------- MODULE DurableStoreProofs -------------------------
(***************************************************************************)
(* With 2-phase commits only, CommitRecovery implements DurableStore: a    *)
(* lemma for each action, or group of actions, shows that it keeps         *)
(* RefinementInv and is, seen from outside, a step of DurableStore or none.*)
(***************************************************************************)
EXTENDS CommitRecoveryProofs

\* What an action has to show besides TwoPhaseInv'.
Unseen == UNCHANGED <<Up, Visible, durable.data, Inflight>>
Refines == (JobSafe /\ TryingSafe)' /\ (Abstract!DSNext \/ Unseen)

\* As long as the database is not open, nobody sees anything.
LEMMA UnseenClosed ==
  ASSUME ~Up, ~Up', UNCHANGED history
  PROVE  Unseen
BY DEF Unseen, Up, Visible, Inflight, history

\* In an open database nothing is seen as long as the current data root stays.
LEMMA UnseenOpen ==
  ASSUME Up, Up', Current(header)'.data = Current(header).data, UNCHANGED history
  PROVE  Unseen
BY DEF Unseen, Up, Visible, Inflight, history

\* Creating and opening a file, up to the repair: the file is not open yet.
LEMMA OpeningRefines ==
  ASSUME RefinementInv,
         \/ CreateFile \/ CreateFlush \/ CreateMagic \/ OpenClean \/ OpenPick
         \/ OpenPickFlush \/ LoadAllocatorState \/ AbortRepair
  PROVE  Refines
<1>1. /\ pc \in {"closed", "creating", "created", "picking", "loaded"}
      /\ job.for \in {"none", "open"}
  BY DEF RefinementInv, JobSafe, CreateFile, CreateFlush, CreateMagic, OpenClean,
       OpenPick, OpenPickFlush, LoadAllocatorState, AbortRepair
<1>2. \/ /\ pc' \in {"creating", "created", "picking", "loaded", "ready"}
         /\ job'.for = "open"
      \/ pc' = "closed" /\ job'.for = "none"
  BY DEF RefinementInv, JobSafe, CreateFile, CreateFlush, CreateMagic, OpenClean,
       OpenPick, OpenPickFlush, LoadAllocatorState, AbortRepair, Forget, NoJob, Job,
       memory
<1>3. UNCHANGED history
  BY DEF CreateFile, CreateFlush, CreateMagic, OpenClean, OpenPick, OpenPickFlush,
       LoadAllocatorState, AbortRepair
<1>4. ~Up /\ ~Up'
  BY <1>1, <1>2 DEF Up
<1>5. (JobSafe /\ TryingSafe)'
  BY <1>2 DEF JobSafe, TryingSafe
<1> QED
  BY <1>3, <1>4, <1>5, UnseenClosed DEF Refines

\* do_repair() keeps the primary; in check_integrity() the database is open.
LEMMA DoRepairRefines ==
  ASSUME TwoPhaseOnly, RefinementInv, DoRepair
  PROVE  Refines
<1>1. /\ UNCHANGED <<job, read_from_secondary, history>>
      /\ pc' \in {"repaired", "ready"}
      /\ pc \in {"loaded", "checking"}
  BY DEF DoRepair
<1>2. /\ pc = "loaded" => job.for = "open"
      /\ pc = "checking" => job.for = "check" /\ trying = {}
      /\ header \in Header
  BY DEF RefinementInv, JobSafe, TryingSafe, TwoPhaseInv, TypeOK
<1>3. header' = [header EXCEPT !.recovery = FALSE]
  BY RepairKeepsPrimary DEF RefinementInv
<1>4. Current(header)' = Current(header)
  BY <1>1, <1>2, <1>3 DEF Current, primary_slot, secondary_slot, Header
<1>5. (JobSafe /\ TryingSafe)'
  BY <1>1, <1>2 DEF JobSafe, TryingSafe, history
<1>6. CASE pc = "loaded"
  BY <1>1, <1>2, <1>5, <1>6, UnseenClosed DEF Refines, Up
<1>7. CASE pc = "checking"
  BY <1>1, <1>2, <1>4, <1>5, <1>7, UnseenOpen DEF Refines, Up
<1> QED
  BY <1>1, <1>6, <1>7

\* A failed repair ends the opening, or leaves an open database that is broken.
LEMMA DoRepairFailsRefines ==
  ASSUME RefinementInv, DoRepairFails
  PROVE  Refines
<1>1. CASE pc = "loaded"
  <2>1. job.for = "open" /\ pc' = "closed" /\ job'.for = "none" /\ UNCHANGED history
    BY <1>1 DEF RefinementInv, JobSafe, DoRepairFails, Forget, NoJob
  <2>2. (JobSafe /\ TryingSafe)'
    BY <2>1 DEF JobSafe, TryingSafe
  <2> QED
    BY <1>1, <2>1, <2>2, UnseenClosed DEF Refines, Up
<1>2. CASE pc = "checking"
  <2>1. job.for = "check" /\ pc' = "failed" /\ UNCHANGED <<memory, history>>
    BY <1>2 DEF RefinementInv, JobSafe, DoRepairFails
  <2>2. (JobSafe /\ TryingSafe)'
    BY <2>1 DEF JobSafe, TryingSafe
  <2>3. Current(header)' = Current(header)
    BY <2>1 DEF memory, Current
  <2> QED
    BY <1>2, <2>1, <2>2, <2>3, UnseenOpen DEF Refines, Up
<1> QED
  BY <1>1, <1>2 DEF DoRepairFails

\* The commit after a repair starts; it installs the roots of the primary.
LEMMA CommitRepairedRefines ==
  ASSUME RefinementInv, CommitRepaired
  PROVE  Refines
<1> DEFINE slot == primary_slot(header)
           new == [id |-> slot.id + 1, data |-> slot.data, sys |-> slot.sys,
                   ok |-> TRUE]
<1>1. /\ header \in Header /\ slot \in Slot /\ job \in Jobs
      /\ read_from_secondary = FALSE
      /\ pc = "repaired" /\ job.for \in {"open", "check"}
      /\ job.for = "check" => trying = {}
  BY DEF RefinementInv, TwoPhaseInv, TypeOK, TreesSafe, JobSafe, TryingSafe,
       CommitRepaired, Header, primary_slot
<1>2. new \in Slot
  BY <1>1 DEF Slot
<1>3. /\ next_header' = secondary_slot_mut(header, new)
      /\ pc' = "flush" /\ job' = [for |-> job.for, two_phase |-> TRUE]
      /\ UNCHANGED <<header, read_from_secondary, history>>
  BY <1>1 DEF CommitRepaired, Current, CommitStart
<1>4. PairOf(secondary_slot(next_header')) = PairOf(slot)
  BY <1>1, <1>2, <1>3, SecondarySlotMut DEF PairOf
<1>5. job'.for = job.for
  BY <1>3
<1>6. (JobSafe /\ TryingSafe)'
  BY <1>1, <1>3, <1>4, <1>5 DEF JobSafe, TryingSafe, history
<1>7. CASE job.for = "open"
  BY <1>1, <1>3, <1>5, <1>6, <1>7, UnseenClosed DEF Refines, Up
<1>8. CASE job.for = "check"
  <2>1. Current(header)' = Current(header)
    BY <1>3 DEF Current
  <2> QED
    BY <1>3, <1>5, <1>6, <1>8, <2>1, UnseenOpen DEF Refines, Up
<1> QED
  BY <1>1, <1>7, <1>8

\* begin_writable() opens the database and settles which commit it holds: the
\* primary of the header.  After check_integrity() it changes nothing.
LEMMA BeginWritableRefines ==
  ASSUME RefinementInv, BeginWritable
  PROVE  Refines
<1>1. /\ header \in Header /\ SafeGod(disk) /\ SamePrimary(header, disk)
      /\ read_from_secondary = FALSE /\ pc = "ready"
      /\ job.for \in {"open", "check"}
      /\ job.for = "check" => trying = {}
  BY DEF RefinementInv, TwoPhaseInv, TypeOK, FileSafe, CreationSafe, MemorySafe,
       TreesSafe, JobSafe, TryingSafe, BeginWritable
<1>2. /\ pc' = "open" /\ job'.for = "none" /\ read_from_secondary' = FALSE
      /\ header' = [header EXCEPT !.recovery = TRUE]
  BY <1>1 DEF BeginWritable, NoJob
<1>3. primary_slot(header') = primary_slot(header)
  BY <1>1, <1>2 DEF primary_slot, Header
<1>4. Current(header)' = primary_slot(header) /\ Current(header) = primary_slot(header)
  BY <1>1, <1>2, <1>3 DEF Current
<1>5. CASE job.for = "open"
  <2>1. /\ durable' = PairOf(primary_slot(header)) /\ trying' = {}
        /\ PairOf(primary_slot(header)) \in {durable} \cup trying
    BY <1>1, <1>5 DEF BeginWritable, SafeGod, SamePrimary, PairOf, primary_slot
  <2>2. durable.data' \in {durable.data} \cup Inflight
    BY <2>1 DEF Inflight
  <2>3. durable.data' = primary_slot(header).data
    BY <2>1 DEF PairOf
  <2>4. ~Up /\ Up' /\ Visible' = durable.data' /\ Inflight' = {}
    BY <1>1, <1>2, <1>4, <1>5, <2>1, <2>3 DEF Up, Visible, Inflight
  <2>5. Abstract!Open
    BY <2>2, <2>4 DEF Abstract!Open
  <2>6. (JobSafe /\ TryingSafe)'
    BY <1>2, <2>1 DEF JobSafe, TryingSafe
  <2> QED
    BY <2>5, <2>6 DEF Refines, Abstract!DSNext
<1>6. CASE job.for = "check"
  <2>1. UNCHANGED history
    BY <1>6 DEF BeginWritable
  <2>2. (JobSafe /\ TryingSafe)'
    BY <1>1, <1>2, <1>6, <2>1 DEF JobSafe, TryingSafe, history
  <2> QED
    BY <1>2, <1>4, <1>6, <2>1, <2>2, UnseenOpen DEF Refines, Up
<1> QED
  BY <1>1, <1>5, <1>6

\* begin_write(), the writes of a transaction and an abort show nothing.
LEMMA WritingRefines ==
  ASSUME RefinementInv, BeginWrite \/ (\E root \in Roots : ReusePages(root)) \/ Abort
  PROVE  Refines
<1>1. /\ pc = "open" /\ pc' = "open" /\ job' = job
      /\ header' = header /\ read_from_secondary' = read_from_secondary
      /\ UNCHANGED history
  BY DEF BeginWrite, ReusePages, Abort, memory
<1>2. Current(header)' = Current(header)
  BY <1>1 DEF Current
<1>3. (JobSafe /\ TryingSafe)'
  BY <1>1 DEF RefinementInv, JobSafe, TryingSafe, history
<1> QED
  BY <1>1, <1>2, <1>3, UnseenOpen DEF Refines, Up

\* A durable commit, of a user's transaction or on closing, starts.
LEMMA CommitStarts ==
  ASSUME RefinementInv, pc = "open",
         NEW for \in {"user", "close"}, NEW id \in Nat, NEW data \in Roots, NEW sys \in Roots,
         CommitStart(for, id, data, sys, TRUE),
         trying' = trying \cup {[data |-> data, sys |-> sys]},
         UNCHANGED <<header, read_from_secondary, durable>>
  PROVE  Refines
<1> DEFINE new == [id |-> id, data |-> data, sys |-> sys, ok |-> TRUE]
<1>1. header \in Header /\ trying = {} /\ job.for = "none"
  BY DEF RefinementInv, TwoPhaseInv, TypeOK, JobSafe, TryingSafe
<1>2. new \in Slot
  BY DEF Slot
<1>3. /\ next_header' = secondary_slot_mut(header, new)
      /\ pc' = "flush" /\ job' = [for |-> for, two_phase |-> TRUE]
  BY DEF CommitStart
<1>4. trying' = {PairOf(secondary_slot(next_header'))}
  BY <1>1, <1>2, <1>3, SecondarySlotMut DEF PairOf
<1>5. job'.for = for
  BY <1>3
<1>6. (JobSafe /\ TryingSafe)'
  BY <1>3, <1>4, <1>5 DEF JobSafe, TryingSafe
<1>7. Current(header)' = Current(header)
  BY DEF Current
<1>8. Up /\ Up' /\ Visible' = Visible /\ Inflight = {} /\ Inflight' = {data}
  BY <1>1, <1>5, <1>7 DEF Up, Visible, Inflight
<1>9. Abstract!BeginDurable(data)
  BY <1>8 DEF Abstract!BeginDurable
<1> QED
  BY <1>6, <1>9 DEF Refines, Abstract!DSNext

\* durable_commit() of a user's transaction, with a 2-phase commit.
LEMMA CommitDurableRefines ==
  ASSUME TwoPhaseOnly, RefinementInv, NEW kind \in CommitKinds, CommitDurable(kind)
  PROVE  Refines
<1>1. kind # "one_phase" /\ pc = "open"
  BY DEF TwoPhaseOnly, CommitDurable
<1>2. txn.id \in Nat /\ txn.root \in Roots
  BY DEF RefinementInv, TwoPhaseInv, TypeOK, Txns, CommitDurable
<1>3. CommitStart("user", txn.id, txn.root, txn.root, TRUE)
  BY <1>1 DEF CommitDurable
<1>4. /\ trying' = trying \cup {[data |-> txn.root, sys |-> txn.root]}
      /\ UNCHANGED <<header, read_from_secondary, durable>>
  BY DEF CommitDurable
<1> QED
  BY <1>1, <1>2, <1>3, <1>4, CommitStarts

\* Closing the database commits the data root it has.
LEMMA CloseRefines ==
  ASSUME RefinementInv, Close
  PROVE  Refines
<1>1. /\ pc = "open" /\ next_id + 1 \in Nat /\ next_root \in Roots
      /\ Current(header).data \in Roots
  <2>1. pc = "open" /\ next_id + 1 \in Nat /\ next_root \in Roots
    BY BoundsAssumption DEF RefinementInv, TwoPhaseInv, TypeOK, Roots, Close
  <2>2. Current(header).data \in Roots
    BY <2>1, Zenon DEF RefinementInv, TwoPhaseInv, TypeOK, TreesSafe, Verifies
  <2> QED
    BY <2>1, <2>2
<1>2. CommitStart("close", next_id + 1, Current(header).data, next_root, TRUE)
  BY DEF Close
<1>3. /\ trying' = trying \cup {[data |-> Current(header).data, sys |-> next_root]}
      /\ UNCHANGED <<header, read_from_secondary, durable>>
  BY DEF Close
<1> QED
  BY <1>1, <1>2, <1>3, CommitStarts

\* The steps of commit() between its start and its end show nothing.
LEMMA CommittingRefines ==
  ASSUME RefinementInv, CommitFlush \/ CommitSwap \/ CommitSync
  PROVE  Refines
<1>1. /\ pc \in {"flush", "swap", "sync"} /\ pc' \in {"swap", "sync", "publish"}
      /\ UNCHANGED <<header, job, read_from_secondary, history>>
  BY DEF CommitFlush, CommitSwap, CommitSync, memory
<1>2. job.for \in {"open", "check", "user", "close"} /\ next_header \in Header
  BY <1>1 DEF RefinementInv, TwoPhaseInv, TypeOK, Jobs, JobSafe
<1>3. JobSafe'
  BY <1>1, <1>2 DEF JobSafe
<1>4. TryingSafe'
  <2>1. CASE CommitFlush \/ CommitSync
    BY <1>1, <2>1 DEF RefinementInv, TryingSafe, CommitFlush, CommitSync, memory, history
  <2>2. CASE CommitSwap
    <3>1. primary_slot(next_header') = secondary_slot(next_header)
      BY <1>2, <2>2 DEF CommitSwap, swap_primary_slot, primary_slot, secondary_slot,
           Header
    <3> QED
      BY <1>1, <2>2, <3>1 DEF RefinementInv, TryingSafe, CommitSwap, history
  <2> QED
    BY <2>1, <2>2
<1>5. CASE job.for = "open"
  BY <1>1, <1>3, <1>4, <1>5, UnseenClosed DEF Refines, Up
<1>6. CASE job.for \in {"check", "user", "close"}
  <2>1. Current(header)' = Current(header)
    BY <1>1 DEF Current
  <2> QED
    BY <1>1, <1>3, <1>4, <1>6, <2>1, UnseenOpen DEF Refines, Up
<1> QED
  BY <1>2, <1>5, <1>6

\* commit() returns: what it tried is durable and visible, both at once.
LEMMA CommitPublishRefines ==
  ASSUME RefinementInv, CommitPublish
  PROVE  Refines
<1>1. /\ pc = "publish" /\ header' = next_header /\ read_from_secondary' = FALSE
      /\ job.for \in {"open", "check", "user", "close"}
      /\ job' = IF job.for = "user" THEN NoJob ELSE job
      /\ pc' = CASE job.for = "user"  -> "open"
                 [] job.for = "close" -> "closing"
                 [] OTHER -> "ready"
  BY DEF RefinementInv, TwoPhaseInv, TypeOK, Jobs, JobSafe, CommitPublish
<1>2. Current(header)' = primary_slot(next_header)
  BY <1>1 DEF Current
<1>3. CASE job.for \in {"user", "close"}
  <2>1. /\ trying = {PairOf(primary_slot(next_header))} /\ trying' = {}
        /\ durable' = PairOf(primary_slot(next_header))
    BY <1>1, <1>3 DEF RefinementInv, TryingSafe, CommitPublish
  <2>2. \/ pc' = "open" /\ job'.for = "none"
        \/ pc' = "closing" /\ job'.for = "close"
    BY <1>1, <1>3 DEF NoJob
  <2>3. (JobSafe /\ TryingSafe)'
    BY <2>1, <2>2 DEF JobSafe, TryingSafe
  <2>4. Up /\ Up' /\ Visible' = primary_slot(next_header).data
    BY <1>2, <1>3, <2>2 DEF Up, Visible
  <2>5. /\ Inflight = {primary_slot(next_header).data} /\ Inflight' = {}
        /\ durable.data' = primary_slot(next_header).data
    BY <2>1 DEF Inflight, PairOf
  <2>6. Abstract!EndDurable
    BY <2>4, <2>5 DEF Abstract!EndDurable
  <2> QED
    BY <2>3, <2>6 DEF Refines, Abstract!DSNext
<1>4. CASE job.for \in {"open", "check"}
  <2>1. pc' = "ready" /\ job' = job /\ UNCHANGED history
    BY <1>1, <1>4 DEF CommitPublish
  <2>2. (JobSafe /\ TryingSafe)'
    BY <1>1, <1>4, <2>1 DEF RefinementInv, JobSafe, TryingSafe, history
  <2>3. CASE job.for = "open"
    BY <1>1, <2>1, <2>2, <2>3, UnseenClosed DEF Refines, Up
  <2>4. CASE job.for = "check"
    <3>1. /\ PairOf(primary_slot(next_header)) = PairOf(primary_slot(header))
          /\ read_from_secondary = FALSE
      BY <1>1, <2>4 DEF RefinementInv, TwoPhaseInv, TypeOK, TreesSafe, TryingSafe
    <3>2. Current(header)'.data = Current(header).data
      BY <1>2, <3>1 DEF Current, PairOf
    <3> QED
      BY <2>1, <2>2, <2>4, <3>2, UnseenOpen DEF Refines, Up
  <2> QED
    BY <1>4, <2>3, <2>4
<1> QED
  BY <1>1, <1>3, <1>4

\* A non-durable commit is visible and leaves what is durable alone.
LEMMA CommitNonDurableRefines ==
  ASSUME RefinementInv, CommitNonDurable
  PROVE  Refines
<1> DEFINE new == [id |-> txn.id, data |-> txn.root, sys |-> txn.root, ok |-> TRUE]
<1>1. /\ header \in Header /\ txn.id \in Nat /\ txn.root \in Roots
      /\ pc = "open" /\ trying = {}
  BY DEF RefinementInv, TwoPhaseInv, TypeOK, Txns, TryingSafe, CommitNonDurable
<1>2. new \in Slot
  BY <1>1 DEF Slot
<1>3. /\ header' = secondary_slot_mut(header, new) /\ read_from_secondary' = TRUE
      /\ UNCHANGED <<pc, job, history>>
  BY DEF CommitNonDurable
<1>4. Current(header)' = new
  BY <1>1, <1>2, <1>3, SecondarySlotMut DEF Current
<1>5. Up /\ Up' /\ Inflight = {} /\ Inflight' = {} /\ Visible' = txn.root
  BY <1>1, <1>3, <1>4 DEF Up, Inflight, Visible, history
<1>6. Abstract!NonDurable(txn.root)
  BY <1>3, <1>5 DEF Abstract!NonDurable, history
<1>7. (JobSafe /\ TryingSafe)'
  BY <1>1, <1>3 DEF RefinementInv, JobSafe, TryingSafe, history
<1> QED
  BY <1>1, <1>6, <1>7 DEF Refines, Abstract!DSNext

\* check_integrity() reads the header again, and finds the same primary.
LEMMA CheckIntegrityRefines ==
  ASSUME TwoPhaseOnly, RefinementInv, CheckIntegrity
  PROVE  Refines
<1>1. /\ pc = "open" /\ read_from_secondary = FALSE /\ trying = {}
      /\ header \in Header /\ disk \in Header
      /\ SafeGod(disk) /\ SamePrimary(header, disk)
  BY DEF TwoPhaseOnly, RefinementInv, TwoPhaseInv, TypeOK, FileSafe, CreationSafe,
       MemorySafe, TryingSafe, CheckIntegrity
<1>2. /\ header' = to_bytes(disk) /\ pc' = "checking" /\ job'.for = "check"
      /\ UNCHANGED <<read_from_secondary, history>>
  BY <1>1 DEF CheckIntegrity, SafeGod, pick_primary_for_repair, PickSwaps, Job
<1>3. Current(header)' = Current(header)
  BY <1>1, <1>2, ToBytes DEF Current, SafeGod, SamePrimary, primary_slot, Header
<1>4. (JobSafe /\ TryingSafe)'
  BY <1>1, <1>2 DEF JobSafe, TryingSafe, history
<1> QED
  BY <1>1, <1>2, <1>3, <1>4, UnseenOpen DEF Refines, Up

\* A failed operation of an open database leaves it open, and useless.
LEMMA IoErrorRefines ==
  ASSUME RefinementInv, IoError
  PROVE  Refines
<1>1. /\ pc' = "failed" /\ UNCHANGED <<header, job, read_from_secondary, history>>
      /\ \/ pc = "open"
         \/ /\ pc \in {"checking", "repaired", "ready", "flush", "swap", "sync", "publish"}
            /\ job.for # "open"
  BY DEF IoError
<1>2. Up /\ Up'
  BY <1>1 DEF RefinementInv, TwoPhaseInv, TypeOK, Jobs, JobSafe, Up
<1>3. Current(header)' = Current(header)
  BY <1>1 DEF Current
<1>4. (JobSafe /\ TryingSafe)'
  BY <1>1 DEF JobSafe, TryingSafe
<1> QED
  BY <1>1, <1>2, <1>3, <1>4, UnseenOpen DEF Refines

\* Closing the database and a crash forget what is not durable, and leave it
\* open what became of a commit that was cut short.
LEMMA DownRefines ==
  ASSUME RefinementInv, CloseFinish \/ Crash
  PROVE  Refines
<1>1. pc' = "closed" /\ job'.for = "none" /\ UNCHANGED history
  BY DEF CloseFinish, Crash, Forget, NoJob
<1>2. ~Up'
  BY <1>1 DEF Up
<1>3. (JobSafe /\ TryingSafe)'
  BY <1>1 DEF JobSafe, TryingSafe
<1>4. CASE Up
  <2>1. Abstract!Down
    BY <1>1, <1>2, <1>4 DEF Abstract!Down, Visible, Inflight, history
  <2> QED
    BY <1>3, <2>1 DEF Refines, Abstract!DSNext
<1>5. CASE ~Up
  BY <1>1, <1>2, <1>3, <1>5, UnseenClosed DEF Refines
<1> QED
  BY <1>4, <1>5

\* A new file satisfies the invariant and is an empty store.
LEMMA InitRefines == Init => RefinementInv /\ Abstract!DSInit
<1> SUFFICES ASSUME Init PROVE RefinementInv /\ Abstract!DSInit
  OBVIOUS
<1>1. TwoPhaseInv
  BY InitInv
<1>2. pc = "closed" /\ job.for = "none" /\ durable.data = 0 /\ trying = {}
  BY DEF Init, NoJob
<1>3. JobSafe /\ TryingSafe
  BY <1>2 DEF JobSafe, TryingSafe
<1>4. Abstract!DSInit
  BY <1>2 DEF Abstract!DSInit, Up, Visible, Inflight
<1> QED
  BY <1>1, <1>3, <1>4 DEF RefinementInv

\* Every step keeps the invariant, and is a step of DurableStore or unseen.
LEMMA NextRefines ==
  ASSUME TwoPhaseOnly, RefinementInv, [Next]_vars
  PROVE  RefinementInv' /\ [Abstract!DSNext]_(Abstract!dsVars)
<1>1. TwoPhaseInv'
  BY NextInv DEF RefinementInv
<1>2. CASE Next
  BY <1>2, OpeningRefines, DoRepairRefines, DoRepairFailsRefines,
     CommitRepairedRefines, BeginWritableRefines, WritingRefines,
     CommitDurableRefines, CommittingRefines, CommitPublishRefines,
     CommitNonDurableRefines, CloseRefines, CheckIntegrityRefines,
     IoErrorRefines, DownRefines, <1>1, Zenon
     DEF Next, Refines, RefinementInv, Unseen, Abstract!dsVars
<1>3. CASE UNCHANGED vars
  <2>1. UNCHANGED <<pc, header, next_header, job, read_from_secondary, history>>
    BY <1>3 DEF vars, memory
  <2>2. (JobSafe /\ TryingSafe)'
    BY <2>1 DEF RefinementInv, JobSafe, TryingSafe, history
  <2>3. Unseen
    BY <2>1 DEF Unseen, Up, Visible, Inflight, Current, history
  <2> QED
    BY <1>1, <2>2, <2>3 DEF RefinementInv, Unseen, Abstract!dsVars
<1> QED
  BY <1>2, <1>3

\* The promise of Durability, for every number of roots and ids, with torn header
\* writes and crashes at any point: with 2-phase commits only, commit(), repair,
\* closing, check_integrity() and crashes show the user nothing but the atomic,
\* durable commits of DurableStore.
THEOREM TwoPhaseImplements == TwoPhaseOnly => (Spec => ImplementsDurableStore)
<1>1. TwoPhaseOnly =>
        (RefinementInv /\ [Next]_vars =>
           RefinementInv' /\ [Abstract!DSNext]_(Abstract!dsVars))
  BY NextRefines
<1>2. QED
  <2> SUFFICES ASSUME TwoPhaseOnly PROVE Spec => ImplementsDurableStore
    OBVIOUS
  <2> QED
    BY <1>1, InitRefines, PTL DEF Spec, ImplementsDurableStore, Abstract!DSSpec
=============================================================================

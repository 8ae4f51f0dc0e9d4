----------------------------- MODULE WarehouseETL -----------------------------
(***************************************************************************)
(* The copy of operational tables into the warehouse every fifteen minutes *)
(* (warehouse/etl-runner.ts).  A cycle copies one batch of each table in   *)
(* turn: read the checkpoint, read the lines behind it, insert them, write *)
(* the checkpoint, each a statement of its own.  A row is one line, but an *)
(* order joined with its payments is one for each method and status of     *)
(* theirs.  Nothing keeps a cycle from starting while another one runs.    *)
(***************************************************************************)
EXTENDS Naturals, Sequences, FiniteSets, FiniteSetsExt

CONSTANTS Kind,       \* for each table of a cycle: its id is a "number" the
                      \* checkpoint can hold (message_log, token_usage), one
                      \* "joined" with payments (orders), or a "uuid"
                      \* (media_assets, whose checkpoint stays 0)
          MaxRows,    \* rows of each table (bound)
          MaxLines,   \* methods and statuses of an order's payments (bound)
          Batch,      \* BATCH_SIZE
          Cycles,     \* cycles that may run at one time
          MaxFaults   \* rejected statements and restarts (bound)

Tables == 1..Len(Kind)
Rows == 1..MaxRows
Lines == Rows \X (1..MaxLines)
Keyed(k) == Kind[k] # "uuid"

ASSUME WarehouseAssumption ==
  /\ Kind \in Seq({"number", "joined", "uuid"}) /\ Kind # <<>>
  /\ MaxRows \in Nat /\ MaxLines \in Nat \ {0} /\ Batch \in Nat \ {0} /\ MaxFaults \in Nat

VARIABLES row,         \* the operational rows a statement sees
          checkpoint,  \* wh_etl_checkpoints.last_id
          facts,       \* copies of each line in the fact tables, up to Most
          cycle,       \* where each cycle stands
          faults,
          seen,        \* the largest id a cycle has read (history)
          late,        \* rows that were committed behind it (history)
          disturbed    \* two cycles overlapped, or one stopped after its INSERT (history)

vars == <<row, checkpoint, facts, cycle, faults, seen, late, disturbed>>
history == <<seen, late>>

Cycle == [at : {"idle", "read", "select", "insert", "save"}, table : Tables,
          from : 0..MaxRows, batch : SUBSET Lines]
NoCycle == [at |-> "idle", table |-> 1, from |-> 0, batch |-> {}]

\* An unplaced row is older than the partitions that ensurePartitions makes.
TypeOK ==
  /\ row \in [Tables -> [Rows -> {"none", "placed", "unplaced"}]]
  /\ checkpoint \in [Tables -> 0..MaxRows]
  /\ facts \in [Tables -> [Lines -> 0..2]]
  /\ cycle \in [Cycles -> Cycle]
  /\ faults \in 0..MaxFaults
  /\ seen \in [Tables -> 0..MaxRows]
  /\ late \subseteq Tables \X Rows
  /\ disturbed \in BOOLEAN

Init ==
  /\ row = [k \in Tables |-> [r \in Rows |-> "none"]]
  /\ checkpoint = [k \in Tables |-> 0]
  /\ facts = [k \in Tables |-> [l \in Lines |-> 0]]
  /\ cycle = [x \in Cycles |-> NoCycle]
  /\ faults = 0
  /\ seen = [k \in Tables |-> 0]
  /\ late = {}
  /\ disturbed = FALSE

There(k) == {r \in Rows : row[k][r] # "none"}
\* A second copy is counted where CopiedOnce asks for it.
Most(k) == IF Keyed(k) /\ ~disturbed THEN 2 ELSE 1
Copied(k, r) == \E l \in Lines : l[1] = r /\ facts[k][l] > 0

\* ORDER BY id LIMIT batch, which may cut between the lines of one order.
Chunks(S) ==
  {B \in SUBSET S : /\ Cardinality(B) = IF Cardinality(S) < Batch THEN Cardinality(S) ELSE Batch
                    /\ \A b \in B, l \in S \ B : b[1] <= l[1]}
Ids(B) == {l[1] : l \in B}
Last(S) == Max(S)

-----------------------------------------------------------------------------
\* A transaction of the application commits a row; ids are drawn from a
\* sequence before, so rows become visible in any order.
Commit(k, r, place) ==
  /\ row[k][r] = "none"
  /\ row' = [row EXCEPT ![k][r] = place]
  /\ late' = IF r < seen[k] THEN late \cup {<<k, r>>} ELSE late
  /\ UNCHANGED <<checkpoint, facts, cycle, faults, seen, disturbed>>

\* setInterval and the first setTimeout.
StartCycle(x) ==
  /\ cycle[x].at = "idle"
  /\ cycle' = [cycle EXCEPT ![x] = [NoCycle EXCEPT !.at = "read"]]
  /\ disturbed' = (disturbed \/ \E y \in Cycles : cycle[y].at # "idle")
  /\ UNCHANGED <<row, checkpoint, facts, faults, history>>

ReadCheckpoint(x) ==
  /\ cycle[x].at = "read"
  /\ cycle' = [cycle EXCEPT ![x].at = "select", ![x].from = checkpoint[cycle[x].table]]
  /\ UNCHANGED <<row, checkpoint, facts, faults, history, disturbed>>

\* Mutant: a table without new rows ends the cycle.
NextTableIfRows(x) ==
  cycle' = [cycle EXCEPT ![x] = IF cycle[x].table = Len(Kind) \/ cycle[x].batch = {} THEN NoCycle
                                ELSE [NoCycle EXCEPT !.at = "read", !.table = cycle[x].table + 1]]

\* The next table; after the last, the customers and the views are rebuilt
\* from the source and the cycle is over.
NextTable(x) ==
  cycle' = [cycle EXCEPT ![x] = IF cycle[x].table = Len(Kind) THEN NoCycle
                                ELSE [NoCycle EXCEPT !.at = "read", !.table = cycle[x].table + 1]]

\* The lines that a query makes of the rows; the payments of an order change
\* at any time, so each query finds its own.
Widths(k) == [Rows -> IF Kind[k] = "joined" THEN 1..MaxLines ELSE {1}]
Unread(k, from, width) == {l \in Lines : l[1] \in There(k) /\ l[1] > from /\ l[2] <= width[l[1]]}

\* Mutant: rows are read in the order they were committed, not by id.
SelectAnyOrder(x) ==
  /\ cycle[x].at = "select"
  /\ LET k == cycle[x].table IN
     \E width \in Widths(k) :
       LET S == Unread(k, cycle[x].from, width) IN
       IF S = {} THEN NextTable(x) /\ UNCHANGED seen
         ELSE \E B \in SUBSET S :
                /\ Cardinality(B) = IF Cardinality(S) < Batch THEN Cardinality(S) ELSE Batch
                /\ cycle' = [cycle EXCEPT ![x].at = "insert", ![x].batch = B]
                /\ seen' = [seen EXCEPT ![k] = Max({seen[k]} \cup Ids(B))]
  /\ UNCHANGED <<row, checkpoint, facts, faults, late, disturbed>>

\* The query of a table.
Select(x) ==
  /\ cycle[x].at = "select"
  /\ LET k == cycle[x].table IN
     \E width \in Widths(k) :
       LET S == Unread(k, cycle[x].from, width) IN
       IF S = {} THEN NextTable(x) /\ UNCHANGED seen
         ELSE \E B \in Chunks(S) :
                /\ cycle' = [cycle EXCEPT ![x].at = "insert", ![x].batch = B]
                /\ seen' = [seen EXCEPT ![k] = Max({seen[k]} \cup Ids(B))]
  /\ UNCHANGED <<row, checkpoint, facts, faults, late, disturbed>>

\* One INSERT of the batch.  The fact tables have no key a copy could conflict
\* with; a row without a partition makes the statement, and the cycle, fail.
Insert(x) ==
  /\ cycle[x].at = "insert"
  /\ LET k == cycle[x].table IN
     IF \E r \in Ids(cycle[x].batch) : row[k][r] = "unplaced"
       THEN cycle' = [cycle EXCEPT ![x] = NoCycle] /\ UNCHANGED facts
       ELSE /\ facts' = [facts EXCEPT ![k] = [l \in Lines |->
                  IF l \in cycle[x].batch /\ facts[k][l] < Most(k) THEN facts[k][l] + 1 ELSE facts[k][l]]]
            /\ cycle' = [cycle EXCEPT ![x].at = "save"]
  /\ UNCHANGED <<row, checkpoint, faults, history, disturbed>>

\* Mutant: the checkpoint is the first id of the batch.
SaveFirst(x) ==
  /\ cycle[x].at = "save"
  /\ checkpoint' = [checkpoint EXCEPT ![cycle[x].table] =
       IF Keyed(cycle[x].table) THEN Min(Ids(cycle[x].batch)) ELSE 0]
  /\ NextTable(x)
  /\ UNCHANGED <<row, facts, faults, history, disturbed>>

Save(x) ==
  /\ cycle[x].at = "save"
  /\ checkpoint' = [checkpoint EXCEPT ![cycle[x].table] =
       IF Keyed(cycle[x].table) THEN Last(Ids(cycle[x].batch)) ELSE 0]
  /\ NextTable(x)
  /\ UNCHANGED <<row, facts, faults, history, disturbed>>

\* runETL catches and logs; what was inserted stays without its checkpoint.
Fault(x) ==
  /\ cycle[x].at # "idle" /\ faults < MaxFaults
  /\ faults' = faults + 1
  /\ cycle' = [cycle EXCEPT ![x] = NoCycle]
  /\ disturbed' = (disturbed \/ cycle[x].at = "save")
  /\ UNCHANGED <<row, checkpoint, facts, history>>

Step(x) == ReadCheckpoint(x) \/ Select(x) \/ Insert(x) \/ Save(x)

Next ==
  \/ \E k \in Tables, r \in Rows, place \in {"placed", "unplaced"} : Commit(k, r, place)
  \/ \E x \in Cycles : StartCycle(x) \/ Step(x) \/ Fault(x)

Spec == Init /\ [][Next]_vars

\* The interval timer keeps firing and PostgreSQL answers.
FairSpec == Spec /\ \A x \in Cycles : WF_vars(StartCycle(x) \/ Step(x))

-----------------------------------------------------------------------------
\* No row behind the checkpoint is missing from the warehouse, whatever
\* overlaps or fails, except those whose transaction committed after a row
\* with a larger id had been read (etl-runner.ts:48).  Of an order it asks for
\* one line: those a batch cut off are never copied (:145-158, :192).
NoneSkipped ==
  \A k \in Tables : \A r \in There(k) :
    r <= checkpoint[k] => Copied(k, r) \/ <<k, r>> \in late

\* A line of a table with numeric ids is copied twice only after a cycle stopped
\* between its INSERT and its checkpoint, or ran beside another
\* (:77-85; ON CONFLICT DO NOTHING has no key to conflict on).
CopiedOnce ==
  ~disturbed => \A k \in Tables : Keyed(k) => \A l \in Lines : facts[k][l] <= 1

\* A table of which every row can be inserted, as those before it in the
\* cycle, is copied: each row comes to the warehouse, unless it committed late
\* or (UUID ids) is not among the first Batch of its table.  Placed, copied and
\* not due are for good, so infinitely often is from some time on.
Insertable(k) == \A j \in 1..k : \A r \in Rows : row[j][r] # "unplaced"
First(S) == {r \in S : Cardinality({q \in S : q <= r}) <= Batch}
Due(k, r) == Insertable(k) /\ IF Keyed(k) THEN <<k, r>> \notin late ELSE r \in First(There(k))
EventuallyCopied ==
  \A k \in Tables, r \in Rows : []<>(row[k][r] = "placed" => Copied(k, r) \/ ~Due(k, r))
=============================================================================

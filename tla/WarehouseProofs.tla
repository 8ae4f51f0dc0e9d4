---------------------------- MODULE WarehouseProofs ----------------------------
(***************************************************************************)
(* Theorems about WarehouseETL, for any number of tables, rows and cycles  *)
(* that run at one time.  Inv is inductive.  It says of every cycle what   *)
(* it may rely on between two of its statements, although the checkpoint   *)
(* it read may have been moved, in either direction, by another.           *)
(***************************************************************************)
EXTENDS WarehouseETL, FiniteSetTheorems, WellFoundedInduction, TLAPS

Settled(k, r) == Copied(k, r) \/ <<k, r>> \in late
Behind(k, m) == \A r \in There(k) : r <= m => Settled(k, r)

\* What a cycle relies on.
Relies(x) ==
  LET c == cycle[x]
      k == c.table
  IN  /\ c.at \in {"select", "insert", "save"} => c.from <= seen[k] /\ Behind(k, c.from)
      /\ c.at \in {"insert", "save"} => Ids(c.batch) # {} /\ \A r \in Ids(c.batch) : c.from < r /\ r <= seen[k]
      /\ c.at = "insert" => \A r \in There(k) : r <= Last(Ids(c.batch)) => r \in Ids(c.batch) \/ Settled(k, r)
      /\ c.at = "save" => Behind(k, Last(Ids(c.batch)))

SeenRows ==
  \A k \in Tables : checkpoint[k] <= seen[k] /\ (seen[k] = 0 \/ seen[k] \in There(k))

\* While no two cycles ran at one time and none stopped before its checkpoint.
Undisturbed ==
  ~disturbed =>
    /\ \A x, y \in Cycles : cycle[x].at # "idle" /\ cycle[y].at # "idle" => x = y
    /\ \A x \in Cycles : cycle[x].at \in {"select", "insert", "save"} =>
         cycle[x].from = checkpoint[cycle[x].table]
    /\ \A k \in Tables : Keyed(k) => \A l \in Lines :
         /\ facts[k][l] <= 1
         /\ facts[k][l] = 0 \/ l[1] <= checkpoint[k]
              \/ \E x \in Cycles : cycle[x].at = "save" /\ cycle[x].table = k /\ l \in cycle[x].batch

Inv ==
  /\ TypeOK /\ SeenRows /\ NoneSkipped /\ Undisturbed
  /\ \A x \in Cycles : Relies(x)

-----------------------------------------------------------------------------
(* Batches *)

LEMMA Bounds ==
  /\ Tables \subseteq Nat /\ Rows \subseteq Nat /\ IsFiniteSet(Lines) /\ 1 \in Tables
  /\ MaxRows \in Nat /\ Len(Kind) \in Nat
<1>1. Len(Kind) \in Nat /\ Len(Kind) # 0
  BY WarehouseAssumption
<1>2. IsFiniteSet(Rows) /\ IsFiniteSet(1..MaxLines)
  BY WarehouseAssumption, FS_Interval DEF Rows
<1>3. IsFiniteSet(Lines)
  BY <1>2, FS_Product DEF Lines
<1>. QED BY <1>1, <1>3, WarehouseAssumption DEF Tables, Rows

LEMMA IdsAreRows ==
  ASSUME NEW B \in SUBSET Lines
  PROVE  Ids(B) \subseteq Rows /\ Ids(B) \in SUBSET (0..MaxRows) /\ (B # {} => Ids(B) # {})
         /\ \A l \in B : l[1] \in Ids(B)
BY WarehouseAssumption DEF Ids, Lines, Rows

LEMMA FartherIsLess ==
  ASSUME NEW n \in Nat, NEW q \in Nat, NEW r \in Nat, ~ (n - q < n - r)
  PROVE  q <= r
OBVIOUS

\* A batch has a last row.
LEMMA LastRow ==
  ASSUME NEW S \in SUBSET (0..MaxRows), S # {}
  PROVE  Last(S) \in S /\ \A r \in S : r <= Last(S)
<1>. DEFINE T == {MaxRows - r : r \in S}
            Less == OpToRel(<, Nat)
<1>0. MaxRows \in Nat /\ \A r \in S : r \in Nat /\ r <= MaxRows /\ MaxRows - r \in Nat
  BY WarehouseAssumption
<1>1. T \in SUBSET Nat /\ T # {}
  BY <1>0
<1>2. PICK m \in T : \A y \in T : ~ (<<y, m>> \in Less)
  BY <1>1, NatLessThanWellFounded, WFMin, Zenon
<1>3. \A y \in T : ~ (y < m)
  BY <1>1, <1>2 DEF OpToRel
<1>4. PICK r \in S : m = MaxRows - r
  BY <1>2
<1>5. \A q \in S : q <= r
  <2>. SUFFICES ASSUME NEW q \in S PROVE q <= r
    OBVIOUS
  <2>1. ~ (MaxRows - q < MaxRows - r)
    BY <1>3, <1>4
  <2>2. MaxRows \in Nat /\ q \in Nat /\ r \in Nat
    BY <1>0, Zenon
  <2>. HIDE DEF T, Less
  <2>. QED BY <2>1, <2>2, FartherIsLess
<1>6. \E q \in S : \A y \in S : q >= y
  BY <1>0, <1>4, <1>5
<1>. QED BY <1>0, <1>6 DEF Last, Max

\* A batch is not empty, and the rows it leaves out altogether come behind it.
LEMMA ChunkRows ==
  ASSUME NEW S \in SUBSET Lines, S # {}, NEW B \in Chunks(S)
  PROVE  /\ B # {} /\ B \subseteq S
         /\ \A l \in S : l[1] <= Last(Ids(B)) => l[1] \in Ids(B)
<1>1. B \subseteq S /\ \A b \in B, l \in S \ B : b[1] <= l[1]
  BY DEF Chunks
<1>2. B # {}
  <2>1. IsFiniteSet(S) /\ Cardinality(S) # 0
    BY Bounds, FS_Subset, FS_EmptySet
  <2>2. Cardinality(B) # 0
    BY <2>1, WarehouseAssumption DEF Chunks
  <2>. QED BY <2>2, FS_EmptySet
<1>3. ASSUME NEW l \in S, l[1] <= Last(Ids(B)), l \notin B
      PROVE  l[1] \in Ids(B)
  <2>1. Ids(B) \in SUBSET (0..MaxRows) /\ Ids(B) # {}
    BY <1>1, <1>2, IdsAreRows
  <2>2. Last(Ids(B)) \in Ids(B) /\ Last(Ids(B)) \in Nat
    BY <2>1, LastRow, WarehouseAssumption
  <2>3. PICK b \in B : Last(Ids(B)) = b[1]
    BY <2>2 DEF Ids
  <2>4. b[1] <= l[1] /\ l[1] \in Nat
    BY <1>1, <1>3, <2>3 DEF Lines, Rows
  <2>5. l[1] = Last(Ids(B))
    BY <1>3, <2>2, <2>3, <2>4
  <2>. QED BY <2>2, <2>5
<1>. QED BY <1>1, <1>2, <1>3 DEF Ids

\* Every row behind a checkpoint makes at least one line.
LEMMA UnreadRows ==
  ASSUME NEW k \in Tables, NEW width \in Widths(k), NEW from \in 0..MaxRows
  PROVE  /\ Unread(k, from, width) \in SUBSET Lines
         /\ \A l \in Unread(k, from, width) : l[1] \in There(k) /\ l[1] > from
         /\ \A r \in There(k) : r > from => \E l \in Unread(k, from, width) : l[1] = r
<1>1. \A r \in Rows : width[r] \in Nat /\ 1 <= width[r]
  BY WarehouseAssumption DEF Widths
<1>2. ASSUME NEW r \in There(k), r > from
      PROVE  \E l \in Unread(k, from, width) : l[1] = r
  <2>1. <<r, 1>> \in Lines
    BY WarehouseAssumption DEF Lines, There
  <2>2. <<r, 1>> \in Unread(k, from, width)
    BY <1>1, <1>2, <2>1 DEF Unread, There
  <2>. QED BY <2>2
<1>. QED BY <1>2 DEF Unread

-----------------------------------------------------------------------------
(* What every step of one cycle leaves to the others *)

\* Copies are never taken back, and rows come in behind what was read, or late.
Grows ==
  /\ late \subseteq late'
  /\ \A k \in Tables :
       /\ seen[k] <= seen'[k]
       /\ \A r \in Rows : Copied(k, r) => Copied(k, r)'
       /\ There(k) \subseteq There(k)'
       /\ \A r \in There(k)' \ There(k) : r > seen[k] \/ <<k, r>> \in late'

LEMMA Fields ==
  ASSUME TypeOK, NEW x \in Cycles
  PROVE  /\ cycle[x] \in Cycle /\ cycle[x].table \in Tables /\ cycle[x].from \in 0..MaxRows
         /\ cycle[x].batch \in SUBSET Lines /\ Ids(cycle[x].batch) \subseteq Rows
         /\ \A k \in Tables : seen[k] \in 0..MaxRows /\ checkpoint[k] \in 0..MaxRows
BY IdsAreRows DEF TypeOK, Cycle

LEMMA Moves ==
  ASSUME TypeOK, NEW x \in Cycles, NEW c \in Cycle, cycle' = [cycle EXCEPT ![x] = c]
  PROVE  cycle' \in [Cycles -> Cycle] /\ cycle'[x] = c /\ \A y \in Cycles \ {x} : cycle'[y] = cycle[y]
BY DEF TypeOK

LEMMA BehindStays ==
  ASSUME TypeOK, Grows, NEW k \in Tables, NEW m \in 0..MaxRows, m <= seen[k], Behind(k, m)
  PROVE  Behind(k, m)'
<1>. SUFFICES ASSUME NEW r \in There(k)', r <= m PROVE Settled(k, r)'
  BY DEF Behind
<1>1. r \in Rows /\ r \in Nat /\ m \in Nat /\ seen[k] \in Nat
  BY Bounds, WarehouseAssumption DEF There, TypeOK
<1>2. CASE r \in There(k)
  BY <1>1, <1>2 DEF Behind, Settled, Grows
<1>3. CASE r \notin There(k)
  BY <1>1, <1>3 DEF Settled, Grows
<1>. QED BY <1>2, <1>3

\* The last row of a batch was seen.
LEMMA LastSeen ==
  ASSUME TypeOK, NEW x \in Cycles, Relies(x), cycle[x].at \in {"insert", "save"}
  PROVE  /\ Last(Ids(cycle[x].batch)) \in Ids(cycle[x].batch) /\ Last(Ids(cycle[x].batch)) \in Rows
         /\ Last(Ids(cycle[x].batch)) \in 0..MaxRows /\ Last(Ids(cycle[x].batch)) <= seen[cycle[x].table]
         /\ cycle[x].from < Last(Ids(cycle[x].batch))
         /\ \A r \in Ids(cycle[x].batch) : r <= Last(Ids(cycle[x].batch))
<1>1. Ids(cycle[x].batch) \in SUBSET (0..MaxRows) /\ Ids(cycle[x].batch) # {} /\ Ids(cycle[x].batch) \subseteq Rows
  BY Fields, Bounds DEF Relies, Rows
<1>2. Last(Ids(cycle[x].batch)) \in Ids(cycle[x].batch) /\ \A r \in Ids(cycle[x].batch) : r <= Last(Ids(cycle[x].batch))
  BY <1>1, LastRow
<1>. QED BY <1>1, <1>2 DEF Relies

LEMMA OthersRely ==
  ASSUME TypeOK, TypeOK', Grows, NEW y \in Cycles, Relies(y), cycle'[y] = cycle[y]
  PROVE  Relies(y)'
<1>. DEFINE c == cycle[y]
<1>. SUFFICES ASSUME NEW k \in Tables, k = c.table, c.at \in {"select", "insert", "save"} PROVE Relies(y)'
  BY Fields DEF Relies
<1>1. /\ c.from \in 0..MaxRows /\ c.from <= seen[k] /\ Behind(k, c.from) /\ seen[k] \in Nat /\ seen'[k] \in Nat
      /\ seen[k] <= seen'[k]
  <2>1. c.from \in 0..MaxRows /\ c.from <= seen[k] /\ Behind(k, c.from)
    BY Fields DEF Relies
  <2>2. seen[k] \in Nat /\ seen'[k] \in Nat
    BY WarehouseAssumption DEF TypeOK
  <2>. QED BY <2>1, <2>2 DEF Grows
<1>2. c.from <= seen'[k] /\ Behind(k, cycle[y].from)'
  BY <1>1, BehindStays, WarehouseAssumption
<1>3. ASSUME c.at \in {"insert", "save"}
      PROVE  Ids(c.batch) # {} /\ \A r \in Ids(c.batch) : c.from < r /\ r <= seen'[k]
  <2>1. Ids(c.batch) # {} /\ \A r \in Ids(c.batch) : c.from < r /\ r <= seen[k] /\ r \in Nat
    BY <1>3, Fields, Bounds DEF Relies
  <2>. QED BY <1>1, <2>1
<1>4. ASSUME c.at = "insert", NEW r \in There(k)', r <= Last(Ids(c.batch)), r \notin Ids(c.batch)
      PROVE  Settled(k, r)'
  <2>1. Last(Ids(c.batch)) \in Nat /\ Last(Ids(c.batch)) <= seen[k] /\ r \in Nat /\ r \in Rows
    BY <1>4, LastSeen, Bounds DEF There
  <2>2. CASE r \in There(k)
    BY <1>4, <2>1, <2>2 DEF Relies, Settled, Grows
  <2>3. CASE r \notin There(k)
    BY <1>1, <1>4, <2>1, <2>3 DEF Settled, Grows
  <2>. QED BY <2>2, <2>3
<1>5. ASSUME c.at = "save"
      PROVE  Behind(k, Last(Ids(cycle[y].batch)))'
  <2>1. Last(Ids(c.batch)) \in 0..MaxRows /\ Last(Ids(c.batch)) <= seen[k] /\ Behind(k, Last(Ids(c.batch)))
    BY <1>5, LastSeen DEF Relies
  <2>. QED BY <2>1, BehindStays
<1>. QED BY <1>1, <1>2, <1>3, <1>4, <1>5 DEF Relies

-----------------------------------------------------------------------------
(* One lemma for each action *)

LEMMA InitInv == Init => Inv
<1>. SUFFICES ASSUME Init PROVE Inv
  OBVIOUS
<1>1. NoCycle \in Cycle /\ NoCycle.at = "idle"
  BY Bounds DEF NoCycle, Cycle
<1>2. TypeOK
  <2>1. 0 \in 0..MaxRows /\ 0 \in 0..MaxFaults
    BY WarehouseAssumption
  <2>5. disturbed \in BOOLEAN
    BY Zenon DEF Init
  <2>2. /\ row \in [Tables -> [Rows -> {"none", "placed", "unplaced"}]]
        /\ facts \in [Tables -> [Lines -> 0..2]] /\ late \subseteq Tables \X Rows
    BY DEF Init
  <2>3. cycle \in [Cycles -> Cycle]
    BY <1>1 DEF Init
  <2>4. checkpoint \in [Tables -> 0..MaxRows] /\ seen \in [Tables -> 0..MaxRows] /\ faults \in 0..MaxFaults
    BY <2>1 DEF Init
  <2>. QED BY <2>2, <2>3, <2>4, <2>5 DEF TypeOK
<1>3. SeenRows /\ NoneSkipped /\ Undisturbed /\ \A x \in Cycles : Relies(x)
  BY <1>1 DEF Init, SeenRows, NoneSkipped, There, Undisturbed, Relies
<1>. QED BY <1>2, <1>3 DEF Inv

LEMMA CommitKeeps ==
  ASSUME Inv, NEW k \in Tables, NEW r \in Rows, NEW place \in {"placed", "unplaced"}, Commit(k, r, place)
  PROVE  Inv'
<1>1. /\ row[k][r] = "none" /\ row' = [row EXCEPT ![k][r] = place]
      /\ late' = IF r < seen[k] THEN late \cup {<<k, r>>} ELSE late
      /\ UNCHANGED <<checkpoint, facts, cycle, faults, seen, disturbed>>
  BY DEF Commit
<1>2. TypeOK'
  BY <1>1 DEF Inv, TypeOK
<1>3. \A j \in Tables : There(j)' = IF j = k THEN There(k) \cup {r} ELSE There(j)
  BY <1>1 DEF Inv, TypeOK, There
<1>4. r # seen[k] /\ r \in Nat /\ seen[k] \in Nat
  BY <1>1, Bounds, WarehouseAssumption DEF Inv, SeenRows, There, TypeOK, Rows
<1>5. Grows
  BY <1>1, <1>3, <1>4 DEF Grows, Copied, Inv, TypeOK
<1>6. \A x \in Cycles : Relies(x)'
  BY <1>1, <1>2, <1>5, OthersRely DEF Inv
<1>7. SeenRows'
  BY <1>1, <1>3 DEF Inv, SeenRows
<1>8. \A j \in Tables : Behind(j, checkpoint[j])'
  <2>. SUFFICES ASSUME NEW j \in Tables PROVE Behind(j, checkpoint[j])'
    OBVIOUS
  <2>1. checkpoint[j] \in 0..MaxRows /\ checkpoint[j] <= seen[j] /\ Behind(j, checkpoint[j])
    BY DEF Inv, SeenRows, NoneSkipped, Behind, Settled, Copied, TypeOK
  <2>. QED BY <1>1, <1>5, <2>1, BehindStays DEF Inv
<1>9. NoneSkipped' /\ Undisturbed'
  BY <1>1, <1>8 DEF Inv, NoneSkipped, Behind, Settled, Copied, Undisturbed
<1>. QED BY <1>2, <1>6, <1>7, <1>9 DEF Inv

\* A step of x that leaves the tables and the history alone.
LEMMA CycleOnly ==
  ASSUME Inv, NEW x \in Cycles, NEW c \in Cycle, cycle' = [cycle EXCEPT ![x] = c],
         UNCHANGED <<row, checkpoint, facts, history>>, faults' \in 0..MaxFaults, disturbed' \in BOOLEAN,
         Relies(x)', Undisturbed'
  PROVE  Inv'
<1>1. TypeOK' /\ \A y \in Cycles \ {x} : cycle'[y] = cycle[y]
  BY Moves DEF Inv, TypeOK, history
<1>2. Grows
  BY WarehouseAssumption DEF Grows, There, Copied, history, Inv, TypeOK
<1>3. \A y \in Cycles : Relies(y)'
  BY <1>1, <1>2, OthersRely DEF Inv
<1>4. SeenRows' /\ NoneSkipped'
  BY DEF Inv, SeenRows, NoneSkipped, Copied, There, history
<1>. QED BY <1>1, <1>3, <1>4 DEF Inv

\* Nothing is relied upon outside of the three places.
LEMMA RestedRely ==
  ASSUME NEW x \in Cycles, cycle'[x].at \in {"idle", "read"}
  PROVE  Relies(x)'
BY DEF Relies

LEMMA StartKeeps ==
  ASSUME Inv, NEW x \in Cycles, StartCycle(x)
  PROVE  Inv'
<1>. DEFINE c == [NoCycle EXCEPT !.at = "read"]
<1>1. c \in Cycle /\ c.at = "read"
  BY Bounds DEF NoCycle, Cycle
<1>2. /\ cycle[x].at = "idle" /\ cycle' = [cycle EXCEPT ![x] = c]
      /\ disturbed' = (disturbed \/ \E y \in Cycles : cycle[y].at # "idle")
      /\ UNCHANGED <<row, checkpoint, facts, faults, history>>
  BY DEF StartCycle
<1>. HIDE DEF c
<1>3. cycle'[x] = c /\ \A y \in Cycles \ {x} : cycle'[y] = cycle[y]
  BY <1>1, <1>2, Moves DEF Inv
<1>4. Undisturbed'
  <2>. SUFFICES ASSUME ~disturbed' PROVE Undisturbed'
    BY DEF Undisturbed
  <2>1. ~disturbed /\ \A y \in Cycles : cycle[y].at = "idle"
    BY <1>2
  <2>2. \A y \in Cycles \ {x} : cycle'[y].at = "idle"
    BY <1>3, <2>1
  <2>3. \A k \in Tables : Keyed(k) => \A l \in Lines :
          facts'[k][l] <= 1 /\ (facts'[k][l] = 0 \/ l[1] <= checkpoint'[k])
    BY <1>2, <2>1 DEF Inv, Undisturbed
  <2>. QED BY <1>1, <1>3, <2>2, <2>3 DEF Undisturbed
<1>5. disturbed' \in BOOLEAN
  BY <1>2 DEF Inv, TypeOK
<1>6. faults' \in 0..MaxFaults
  BY <1>2 DEF Inv, TypeOK
<1>. QED BY <1>1, <1>2, <1>3, <1>4, <1>5, <1>6, RestedRely, CycleOnly

LEMMA ReadCheckpointKeeps ==
  ASSUME Inv, NEW x \in Cycles, ReadCheckpoint(x)
  PROVE  Inv'
<1>. DEFINE k == cycle[x].table
            c == [cycle[x] EXCEPT !.at = "select", !.from = checkpoint[k]]
<1>1. /\ c \in Cycle /\ c.at = "select" /\ c.table = k /\ c.from = checkpoint[k] /\ k \in Tables
      /\ checkpoint[k] <= seen[k]
  BY Fields DEF Inv, Cycle, SeenRows
<1>2. cycle[x].at = "read" /\ UNCHANGED <<row, checkpoint, facts, faults, history, disturbed>>
  BY DEF ReadCheckpoint
<1>3. cycle' = [cycle EXCEPT ![x] = c]
  BY DEF ReadCheckpoint, Inv, TypeOK
<1>. HIDE DEF c
<1>4. cycle'[x] = c /\ \A y \in Cycles \ {x} : cycle'[y] = cycle[y]
  BY <1>1, <1>3, Moves DEF Inv
<1>5. Relies(x)'
  <2>1. \A r \in There(k) : r <= checkpoint[k] => Settled(k, r)
    BY <1>1 DEF Inv, NoneSkipped, Settled, Copied
  <2>. QED BY <1>1, <1>2, <1>4, <2>1 DEF Relies, Behind, Settled, Copied, There, history
<1>6. Undisturbed'
  BY <1>1, <1>2, <1>4 DEF Inv, Undisturbed
<1>7. disturbed' \in BOOLEAN
  BY <1>2 DEF Inv, TypeOK
<1>8. faults' \in 0..MaxFaults
  BY <1>2 DEF Inv, TypeOK
<1>. QED BY <1>1, <1>2, <1>3, <1>5, <1>6, <1>7, <1>8, CycleOnly

LEMMA FaultKeeps ==
  ASSUME Inv, NEW x \in Cycles, Fault(x)
  PROVE  Inv'
<1>1. NoCycle \in Cycle /\ NoCycle.at = "idle"
  BY Bounds DEF NoCycle, Cycle
<1>2. /\ cycle' = [cycle EXCEPT ![x] = NoCycle] /\ disturbed' = (disturbed \/ cycle[x].at = "save")
      /\ UNCHANGED <<row, checkpoint, facts, history>> /\ faults < MaxFaults /\ faults' = faults + 1
  BY DEF Fault
<1>3. cycle'[x] = NoCycle /\ \A y \in Cycles \ {x} : cycle'[y] = cycle[y]
  BY <1>1, <1>2, Moves DEF Inv
<1>4. Undisturbed'
  <2>. SUFFICES ASSUME ~disturbed' PROVE Undisturbed'
    BY DEF Undisturbed
  <2>1. ~disturbed /\ cycle[x].at # "save"
    BY <1>2
  <2>2. \A k \in Tables : Keyed(k) => \A l \in Lines :
          /\ facts'[k][l] <= 1
          /\ facts'[k][l] = 0 \/ l[1] <= checkpoint'[k]
               \/ \E y \in Cycles : cycle'[y].at = "save" /\ cycle'[y].table = k /\ l \in cycle'[y].batch
    BY <1>2, <1>3, <2>1 DEF Inv, Undisturbed
  <2>3. \A y, z \in Cycles : cycle'[y].at # "idle" /\ cycle'[z].at # "idle" => y = z
    BY <1>1, <1>3, <2>1 DEF Inv, Undisturbed
  <2>4. \A y \in Cycles : cycle'[y].at \in {"select", "insert", "save"} =>
          cycle'[y].from = checkpoint'[cycle'[y].table]
    BY <1>1, <1>2, <1>3, <2>1 DEF Inv, Undisturbed
  <2>. QED BY <2>2, <2>3, <2>4 DEF Undisturbed
<1>5. disturbed' \in BOOLEAN
  BY <1>2 DEF Inv, TypeOK
<1>6. faults' \in 0..MaxFaults
  BY <1>2, WarehouseAssumption DEF Inv, TypeOK
<1>. QED BY <1>1, <1>2, <1>3, <1>4, <1>5, <1>6, RestedRely, CycleOnly


\* Where a cycle goes from a table.
After(k) == IF k = Len(Kind) THEN NoCycle ELSE [NoCycle EXCEPT !.at = "read", !.table = k + 1]

LEMMA AfterTable ==
  ASSUME NEW k \in Tables
  PROVE  After(k) \in Cycle /\ After(k).at \in {"idle", "read"}
<1>1. k # Len(Kind) => k + 1 \in Tables
  BY Bounds DEF Tables
<1>2. NoCycle \in Cycle /\ NoCycle.at = "idle"
  BY Bounds DEF NoCycle, Cycle
<1>3. \A j \in Tables : [NoCycle EXCEPT !.at = "read", !.table = j] \in Cycle
  BY <1>2 DEF Cycle
<1>4. [NoCycle EXCEPT !.at = "read", !.table = k + 1].at = "read"
  BY DEF NoCycle
<1>. QED BY <1>1, <1>2, <1>3, <1>4 DEF After

\* Reading rows changes what was seen, and nothing else that others rely on.
LEMMA SelectKeeps ==
  ASSUME Inv, NEW x \in Cycles, Select(x)
  PROVE  Inv'
<1>. DEFINE k == cycle[x].table
<1>1. /\ cycle[x].at = "select" /\ k \in Tables /\ cycle[x] \in Cycle
      /\ cycle[x].from \in 0..MaxRows /\ Behind(k, cycle[x].from) /\ cycle[x].from <= seen[k]
      /\ UNCHANGED <<row, checkpoint, facts, faults, late, disturbed>>
  BY Fields DEF Inv, Select, Relies
<1>2. TypeOK /\ faults' \in 0..MaxFaults /\ disturbed' \in BOOLEAN
  BY <1>1 DEF Inv, TypeOK
<1>3. CASE NextTable(x) /\ UNCHANGED seen
  <2>1. cycle' = [cycle EXCEPT ![x] = After(k)] /\ UNCHANGED seen
    BY <1>3 DEF NextTable, After
  <2>2. After(k) \in Cycle /\ After(k).at \in {"idle", "read"}
    BY <1>1, AfterTable
  <2>3. cycle'[x] = After(k) /\ \A y \in Cycles \ {x} : cycle'[y] = cycle[y]
    BY <1>2, <2>1, <2>2, Moves
  <2>4. Undisturbed'
    BY <1>1, <2>2, <2>3 DEF Inv, Undisturbed
  <2>5. Relies(x)'
    BY <2>2, <2>3, RestedRely
  <2>6. UNCHANGED <<row, checkpoint, facts, history>>
    BY <1>1, <2>1 DEF history
  <2>. QED BY <1>2, <2>1, <2>2, <2>4, <2>5, <2>6, CycleOnly
<1>4. ASSUME NEW width \in Widths(k), Unread(k, cycle[x].from, width) # {},
             NEW Q \in Chunks(Unread(k, cycle[x].from, width)),
             cycle' = [cycle EXCEPT ![x].at = "insert", ![x].batch = Q],
             seen' = [seen EXCEPT ![k] = Max({seen[k]} \cup Ids(Q))]
      PROVE  Inv'
  <2>. DEFINE S == Unread(k, cycle[x].from, width)
              B == Ids(Q)
              c == [cycle[x] EXCEPT !.at = "insert", !.batch = Q]
              n == Max({seen[k]} \cup B)
  <2>0. /\ S \in SUBSET Lines /\ Q # {} /\ Q \subseteq S /\ B # {} /\ B \subseteq There(k) /\ B \subseteq Rows
        /\ \A l \in S : l[1] <= Last(B) => l[1] \in B
        /\ \A r \in B : r > cycle[x].from
        /\ \A r \in There(k) : r > cycle[x].from => \E l \in S : l[1] = r
    <3>1. /\ S \in SUBSET Lines /\ \A l \in S : l[1] \in There(k) /\ l[1] > cycle[x].from
          /\ \A r \in There(k) : r > cycle[x].from => \E l \in S : l[1] = r
      BY <1>1, UnreadRows
    <3>2. Q # {} /\ Q \subseteq S /\ \A l \in S : l[1] <= Last(B) => l[1] \in B
      BY <1>4, <3>1, ChunkRows
    <3>3. B # {} /\ B \subseteq Rows /\ \A r \in B : \E l \in S : r = l[1]
      BY <3>1, <3>2, IdsAreRows DEF Ids
    <3>. QED BY <3>1, <3>2, <3>3
  <2>. HIDE DEF S
  <2>1. cycle' = [cycle EXCEPT ![x] = c] /\ seen' = [seen EXCEPT ![k] = n]
    <3>1. /\ cycle' = [cycle EXCEPT ![x].at = "insert", ![x].batch = Q]
          /\ seen' = [seen EXCEPT ![k] = n]
      BY <1>4
    <3>2. cycle' = [cycle EXCEPT ![x] = c]
      BY <1>2, <3>1 DEF TypeOK
    <3>. QED BY <3>1, <3>2
  <2>2. c \in Cycle /\ c.at = "insert" /\ c.table = k /\ c.from = cycle[x].from /\ c.batch = Q
    BY <1>1, <2>0 DEF Cycle
  <2>3. n \in {seen[k]} \cup B /\ \A r \in {seen[k]} \cup B : r <= n
    <3>1. \A r \in Rows : r \in 0..MaxRows
      BY WarehouseAssumption DEF Rows
    <3>2. seen[k] \in 0..MaxRows /\ B \subseteq Rows
      BY <1>1, <1>2, <2>0, Fields
    <3>3. {seen[k]} \cup B \in SUBSET (0..MaxRows) /\ {seen[k]} \cup B # {}
      BY <3>1, <3>2
    <3>. HIDE DEF B
    <3>4. Last({seen[k]} \cup B) = n
      BY DEF Last
    <3>. QED BY <3>3, <3>4, LastRow
  <2>4. \A r \in B : r \in There(k) /\ cycle[x].from < r /\ r \in Rows /\ r \in Nat
    BY <1>1, <2>0, Bounds, WarehouseAssumption
  <2>5. \A j \in Tables : seen[j] \in 0..MaxRows /\ seen[j] \in Nat /\ checkpoint[j] \in Nat
    BY <1>2, Fields, WarehouseAssumption
  <2>6. n \in 0..MaxRows /\ n \in Nat /\ seen[k] <= n
    <3>1. \A r \in Rows : r \in 0..MaxRows
      BY WarehouseAssumption DEF Rows
    <3>2. seen[k] \in 0..MaxRows
      BY <1>1, <2>5
    <3>. HIDE DEF n, B
    <3>3. n \in 0..MaxRows /\ seen[k] <= n
      BY <2>3, <2>4, <3>1, <3>2
    <3>. QED BY <3>3, WarehouseAssumption
  <2>. HIDE DEF c, n
  <2>7. cycle'[x] = c /\ \A y \in Cycles \ {x} : cycle'[y] = cycle[y]
    BY <1>2, <2>1, <2>2, Moves
  <2>8. TypeOK'
    <3>1. cycle' \in [Cycles -> Cycle]
      BY <1>2, <2>1, <2>2, Moves
    <3>2. seen' \in [Tables -> 0..MaxRows]
      BY <1>1, <1>2, <2>1, <2>6 DEF TypeOK
    <3>. QED BY <1>1, <1>2, <3>1, <3>2 DEF TypeOK
  <2>9. \A j \in Tables : seen[j] <= seen'[j] /\ seen'[j] \in Nat
    BY <1>1, <1>2, <2>1, <2>5, <2>6 DEF TypeOK
  <2>10. Grows
    BY <1>1, <2>9 DEF Grows, There, Copied
  <2>11. \A y \in Cycles \ {x} : Relies(y)'
    BY <1>2, <2>7, <2>8, <2>10, OthersRely DEF Inv
  <2>12. Relies(x)'
    <3>1. seen'[k] = n /\ cycle[x].from <= seen'[k]
      BY <1>1, <1>2, <2>1, <2>5, <2>6 DEF TypeOK
    <3>2. \A r \in B : cycle[x].from < r /\ r <= seen'[k]
      BY <2>3, <2>4, <3>1
    <3>3. ASSUME NEW r \in There(k), r <= Last(B), r \notin B
          PROVE  Settled(k, r)
      <4>1. r \in Nat /\ cycle[x].from \in Nat
        BY <1>1, Bounds, WarehouseAssumption DEF There
      <4>2. ~ (r > cycle[x].from)
        BY <2>0, <3>3
      <4>. QED BY <1>1, <4>1, <4>2 DEF Behind
    <3>6. cycle'[x].at = "insert" /\ cycle'[x].table = k /\ cycle'[x].from = cycle[x].from /\ Ids(cycle'[x].batch) = B
      BY <2>2, <2>7
    <3>7. Behind(k, cycle[x].from)
      BY <1>1
    <3>. HIDE DEF B
    <3>. QED BY <1>1, <2>0, <3>1, <3>2, <3>3, <3>6, <3>7 DEF Relies, Behind, There, Settled, Copied
  <2>13. SeenRows'
    BY <1>1, <1>2, <2>1, <2>3, <2>4, <2>5, <2>6, <2>9 DEF Inv, SeenRows, There, TypeOK
  <2>14. Undisturbed'
    BY <1>1, <2>2, <2>7 DEF Inv, Undisturbed
  <2>15. NoneSkipped'
    BY <1>1 DEF Inv, NoneSkipped, There, Copied
  <2>. QED BY <2>7, <2>8, <2>11, <2>12, <2>13, <2>14, <2>15 DEF Inv
<1>5. PICK width \in Widths(k) :
        LET S == Unread(k, cycle[x].from, width) IN
        IF S = {} THEN NextTable(x) /\ UNCHANGED seen
        ELSE \E B \in Chunks(S) :
               /\ cycle' = [cycle EXCEPT ![x].at = "insert", ![x].batch = B]
               /\ seen' = [seen EXCEPT ![k] = Max({seen[k]} \cup Ids(B))]
  BY DEF Select
<1>. QED BY <1>3, <1>4, <1>5


LEMMA InsertKeeps ==
  ASSUME Inv, NEW x \in Cycles, Insert(x)
  PROVE  Inv'
<1>. DEFINE k == cycle[x].table
            B == cycle[x].batch
            m == Last(Ids(B))
<1>1. /\ cycle[x].at = "insert" /\ k \in Tables /\ cycle[x] \in Cycle /\ B \subseteq Lines /\ TypeOK /\ Relies(x)
      /\ UNCHANGED <<row, checkpoint, faults, history, disturbed>>
  BY Fields DEF Inv, Insert
<1>2. faults' \in 0..MaxFaults /\ disturbed' \in BOOLEAN
  BY <1>1 DEF TypeOK
<1>3. CASE \E r \in Ids(B) : row[k][r] = "unplaced"
  <2>1. cycle' = [cycle EXCEPT ![x] = NoCycle] /\ UNCHANGED facts
    BY <1>3 DEF Insert
  <2>2. NoCycle \in Cycle /\ NoCycle.at = "idle"
    BY Bounds DEF NoCycle, Cycle
  <2>3. cycle'[x] = NoCycle /\ \A y \in Cycles \ {x} : cycle'[y] = cycle[y]
    BY <1>1, <2>1, <2>2, Moves
  <2>4. Undisturbed'
    BY <1>1, <2>1, <2>2, <2>3 DEF Inv, Undisturbed
  <2>5. Relies(x)'
    BY <2>2, <2>3, RestedRely
  <2>. QED BY <1>1, <1>2, <2>1, <2>2, <2>4, <2>5, CycleOnly
<1>4. CASE ~ \E r \in Ids(B) : row[k][r] = "unplaced"
  <2>. DEFINE c == [cycle[x] EXCEPT !.at = "save"]
  <2>1. facts' = [facts EXCEPT ![k] = [l \in Lines |->
          IF l \in B /\ facts[k][l] < Most(k) THEN facts[k][l] + 1 ELSE facts[k][l]]]
    BY <1>4 DEF Insert
  <2>2. cycle' = [cycle EXCEPT ![x] = c]
    BY <1>1, <1>4 DEF Insert, TypeOK
  <2>3. c \in Cycle /\ c.at = "save" /\ c.table = k /\ c.from = cycle[x].from /\ c.batch = B
    BY <1>1 DEF Cycle
  <2>. HIDE DEF c
  <2>4. cycle' \in [Cycles -> Cycle] /\ cycle'[x] = c /\ \A y \in Cycles \ {x} : cycle'[y] = cycle[y]
    BY <1>1, <2>2, <2>3, Moves
  <2>5. Most(k) \in {1, 2} /\ \A j \in Tables, l \in Lines : facts[j][l] \in 0..2
    BY <1>1 DEF TypeOK, Most
  <2>6. facts' \in [Tables -> [Lines -> 0..2]]
    BY <1>1, <2>1, <2>5 DEF TypeOK
  <2>7. \A j \in Tables, l \in Lines : facts'[j][l] =
          IF j = k /\ l \in B /\ facts[j][l] < Most(k) THEN facts[j][l] + 1 ELSE facts[j][l]
    BY <1>1, <2>1 DEF TypeOK
  <2>8. TypeOK'
    BY <1>1, <1>2, <2>4, <2>6 DEF TypeOK, history
  <2>9. \A j \in Tables, r \in Rows : Copied(j, r) => Copied(j, r)'
    <3>1. \A j \in Tables, l \in Lines : facts[j][l] > 0 => facts'[j][l] > 0
      BY <2>5, <2>7
    <3>. QED BY <3>1 DEF Copied
  <2>10. Grows
    BY <1>1, <2>9, WarehouseAssumption DEF Grows, There, history, TypeOK
  <2>11. \A y \in Cycles \ {x} : Relies(y)'
    BY <1>1, <2>4, <2>8, <2>10, OthersRely DEF Inv
  <2>12. Relies(x)'
    <3>0. PICK j \in Tables : j = k
      BY <1>1
    <3>1. \A r \in Ids(B) : Copied(j, r)'
      <4>1. \A l \in B : facts'[j][l] > 0
        BY <1>1, <2>5, <2>7, <3>0
      <4>. QED BY <1>1, <4>1 DEF Copied, Ids
    <3>2. \A r \in There(j) : r <= m => Copied(j, r)' \/ <<j, r>> \in late
      BY <1>1, <2>9, <3>0, <3>1 DEF Relies, Settled, There
    <3>3. cycle[x].from <= seen[k] /\ Behind(k, cycle[x].from) /\ Ids(B) # {}
          /\ \A r \in Ids(B) : cycle[x].from < r /\ r <= seen[k]
      BY <1>1 DEF Relies
    <3>4. \A r \in There(j) : r <= cycle[x].from => Copied(j, r)' \/ <<j, r>> \in late
      BY <1>1, <2>9, <3>0, <3>3 DEF Behind, Settled, There
    <3>5. cycle'[x].at = "save" /\ cycle'[x].table = k /\ cycle'[x].from = cycle[x].from /\ cycle'[x].batch = B
      BY <2>3, <2>4
    <3>6. row' = row /\ seen' = seen /\ late' = late
      BY <1>1 DEF history
    <3>. QED BY <3>0, <3>2, <3>3, <3>4, <3>5, <3>6 DEF Relies, Behind, Settled, There
  <2>13. SeenRows' /\ NoneSkipped'
    BY <1>1, <2>9 DEF Inv, SeenRows, NoneSkipped, There, history
  <2>14. Undisturbed'
    <3>. SUFFICES ASSUME ~disturbed' PROVE Undisturbed'
      BY DEF Undisturbed
    <3>1. ~disturbed /\ \A y \in Cycles \ {x} : cycle[y].at = "idle"
      BY <1>1 DEF Inv, Undisturbed
    <3>2. cycle[x].from = checkpoint[k]
      BY <1>1, <3>1 DEF Inv, Undisturbed
    <3>3. ASSUME NEW j \in Tables, Keyed(j), NEW l \in Lines
          PROVE  facts[j][l] <= 1 /\ (facts[j][l] = 0 \/ l[1] <= checkpoint[j])
      BY <1>1, <3>1, <3>3 DEF Inv, Undisturbed
    <3>4. ASSUME NEW j \in Tables, Keyed(j), NEW l \in Lines
          PROVE  /\ facts'[j][l] <= 1
                 /\ facts'[j][l] = 0 \/ l[1] <= checkpoint'[j] \/ (j = k /\ l \in B)
      <4>1. CASE j = k /\ l \in B
        <5>1. checkpoint[k] < l[1] /\ checkpoint[k] \in Nat /\ l[1] \in Nat
          BY <1>1, <3>2, <4>1, Fields, IdsAreRows, WarehouseAssumption DEF Relies, Lines, Rows
        <5>2. facts[j][l] = 0
          BY <3>3, <3>4, <4>1, <5>1
        <5>3. facts'[j][l] = 1
          BY <2>5, <2>7, <4>1, <5>2
        <5>. QED BY <4>1, <5>3
      <4>2. CASE ~ (j = k /\ l \in B)
        <5>1. facts'[j][l] = facts[j][l] /\ checkpoint' = checkpoint
          BY <1>1, <2>7, <4>2
        <5>. QED BY <3>3, <3>4, <5>1
      <4>. QED BY <4>1, <4>2
    <3>5. \A y \in Cycles \ {x} : cycle'[y].at = "idle"
      BY <2>4, <3>1
    <3>6. cycle'[x].at = "save" /\ cycle'[x].table = k /\ cycle'[x].from = checkpoint'[k] /\ cycle'[x].batch = B
      BY <1>1, <2>3, <2>4, <3>2
    <3>. QED BY <3>4, <3>5, <3>6 DEF Undisturbed
  <2>. QED BY <2>8, <2>11, <2>12, <2>13, <2>14 DEF Inv
<1>. QED BY <1>3, <1>4

LEMMA SaveKeeps ==
  ASSUME Inv, NEW x \in Cycles, Save(x)
  PROVE  Inv'
<1>. DEFINE k == cycle[x].table
            B == cycle[x].batch
            n == IF Keyed(k) THEN Last(Ids(B)) ELSE 0
<1>1. /\ cycle[x].at = "save" /\ k \in Tables /\ B \subseteq Lines /\ TypeOK /\ Relies(x)
      /\ checkpoint' = [checkpoint EXCEPT ![k] = n] /\ cycle' = [cycle EXCEPT ![x] = After(k)]
      /\ UNCHANGED <<row, facts, faults, history, disturbed>>
  BY Fields DEF Inv, Save, NextTable, After
<1>2. /\ Last(Ids(B)) \in Ids(B) /\ Last(Ids(B)) \in 0..MaxRows /\ Last(Ids(B)) <= seen[k] /\ cycle[x].from < Last(Ids(B))
      /\ \A r \in Ids(B) : r <= Last(Ids(B))
  BY <1>1, LastSeen
<1>3. After(k) \in Cycle /\ After(k).at \in {"idle", "read"}
  BY <1>1, AfterTable
<1>4. cycle' \in [Cycles -> Cycle] /\ cycle'[x] = After(k) /\ \A y \in Cycles \ {x} : cycle'[y] = cycle[y]
  BY <1>1, <1>3, Moves
<1>5. \A j \in Tables : seen[j] \in Nat /\ checkpoint[j] \in 0..MaxRows
  BY <1>1, WarehouseAssumption DEF TypeOK
<1>6. n \in 0..MaxRows /\ n <= seen[k] /\ Behind(k, n)
  <2>1. CASE Keyed(k)
    BY <1>1, <1>2, <2>1 DEF Relies
  <2>2. CASE ~Keyed(k)
    <3>1. n = 0 /\ 0 <= seen[k] /\ 0 \in 0..MaxRows
      BY <1>1, <1>5, <2>2, WarehouseAssumption
    <3>2. \A r \in There(k) : ~ (r <= 0)
      BY DEF There, Rows
    <3>. QED BY <3>1, <3>2 DEF Behind
  <2>. QED BY <2>1, <2>2
<1>. HIDE DEF n
<1>7. \A j \in Tables : checkpoint'[j] = IF j = k THEN n ELSE checkpoint[j]
  BY <1>1 DEF TypeOK
<1>8. TypeOK'
  <2>1. checkpoint' \in [Tables -> 0..MaxRows]
    BY <1>1, <1>6 DEF TypeOK
  <2>. QED BY <1>1, <1>4, <2>1 DEF TypeOK, history
<1>9. Grows
  BY <1>1, <1>5 DEF Grows, Copied, There, history
<1>10. \A y \in Cycles : Relies(y)'
  <2>1. Relies(x)'
    BY <1>3, <1>4, RestedRely
  <2>. QED BY <1>1, <1>4, <1>8, <1>9, <2>1, OthersRely DEF Inv
<1>11. SeenRows'
  BY <1>1, <1>6, <1>7 DEF Inv, SeenRows, There, history
<1>12. NoneSkipped'
  BY <1>1, <1>6, <1>7 DEF Inv, NoneSkipped, Behind, Settled, Copied, There, history
<1>13. Undisturbed'
  <2>. SUFFICES ASSUME ~disturbed' PROVE Undisturbed'
    BY DEF Undisturbed
  <2>1. ~disturbed /\ \A y \in Cycles \ {x} : cycle[y].at = "idle"
    BY <1>1 DEF Inv, Undisturbed
  <2>2. ASSUME NEW j \in Tables, Keyed(j), NEW l \in Lines
        PROVE  facts[j][l] <= 1 /\ (facts[j][l] = 0 \/ l[1] <= checkpoint[j] \/ (j = k /\ l \in B))
    BY <1>1, <2>1, <2>2 DEF Inv, Undisturbed
  <2>3. ASSUME NEW j \in Tables, Keyed(j), NEW l \in Lines
        PROVE  facts'[j][l] <= 1 /\ (facts'[j][l] = 0 \/ l[1] <= checkpoint'[j])
    <3>1. CASE j # k
      BY <1>1, <1>7, <2>2, <2>3, <3>1
    <3>2. CASE j = k
      <4>1. cycle[x].from = checkpoint[k] /\ n = Last(Ids(B)) /\ l[1] \in Nat /\ n \in Nat /\ checkpoint[k] \in Nat
        BY <1>1, <1>2, <1>5, <2>1, <2>3, <3>2, Bounds, WarehouseAssumption DEF Inv, Undisturbed, n, Lines, Rows
      <4>2. l \in B \/ l[1] <= checkpoint[k] => l[1] <= n
        BY <1>1, <1>2, <4>1, IdsAreRows
      <4>. QED BY <1>1, <1>7, <2>2, <2>3, <3>2, <4>2
    <3>. QED BY <3>1, <3>2
  <2>4. \A y \in Cycles \ {x} : cycle'[y].at = "idle"
    BY <1>4, <2>1
  <2>. QED BY <1>3, <1>4, <2>3, <2>4 DEF Undisturbed
<1>. QED BY <1>8, <1>10, <1>11, <1>12, <1>13 DEF Inv

-----------------------------------------------------------------------------
LEMMA NextInv == Inv /\ [Next]_vars => Inv'
<1>. SUFFICES ASSUME Inv, [Next]_vars PROVE Inv'
  OBVIOUS
<1>1. CASE UNCHANGED vars
  BY <1>1 DEF Inv, TypeOK, SeenRows, NoneSkipped, Undisturbed, Relies, Behind, Settled, Copied, There, vars
<1>2. ASSUME NEW k \in Tables, NEW r \in Rows, NEW place \in {"placed", "unplaced"}, Commit(k, r, place)
      PROVE  Inv'
  BY <1>2, CommitKeeps
<1>3. ASSUME NEW x \in Cycles, StartCycle(x) \/ Step(x) \/ Fault(x)
      PROVE  Inv'
  BY <1>3, StartKeeps, ReadCheckpointKeeps, SelectKeeps, InsertKeeps, SaveKeeps, FaultKeeps DEF Step
<1>. QED BY <1>1, <1>2, <1>3 DEF Next

THEOREM Invariance == Spec => []Inv
BY InitInv, NextInv, PTL DEF Spec

\* The tables, the checkpoints and the cycles have their types.
THEOREM TypeCorrect == Spec => []TypeOK
BY Invariance, PTL DEF Inv

\* However many cycles overlap, fail or restart between any two statements,
\* and although a slow one may move the checkpoint back, no row behind it is
\* missing from the warehouse but one that was committed late.
THEOREM NothingSkipped == Spec => []NoneSkipped
BY Invariance, PTL DEF Inv

\* Second copies come only of overlapping cycles and of those that stop
\* between INSERT and checkpoint.
THEOREM CopiesOnce == Spec => []CopiedOnce
<1>1. Inv => CopiedOnce
  BY DEF Inv, Undisturbed, CopiedOnce
<1>. QED BY <1>1, Invariance, PTL
=============================================================================

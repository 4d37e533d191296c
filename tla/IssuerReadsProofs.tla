-------------------------- MODULE IssuerReadsProofs --------------------------
(***************************************************************************)
(* Proofs about the read handlers: what their answers say, for every       *)
(* number of issuers and of concurrent requests, every tree depth and      *)
(* every pool size.                                                        *)
(***************************************************************************)
EXTENDS IssuerReads, IssuerApiProofs

-----------------------------------------------------------------------------
(* What a step of the write requests does to the tables. *)

(* A published root is that of a tree the issuer has had. *)
RootOf(root, trees) == \E tree \in trees : root = Root(tree)

RootsStored ==
  \A i \in Issuers :
    publishedRoot[i] # NoRoot => RootOf(publishedRoot[i], PastTrees[i])

(* No such root is NULL. *)
LEMMA PastTreesHaveRoots ==
  ASSUME PInv, NEW i \in Issuers, NEW tree \in PastTrees[i]
  PROVE  Root(tree) # NoRoot
<1>1. PICK n \in 1..LeafCount(i) : tree = SubSeq(Leaves(i), 1, n)
  BY DEF PastTrees
<1>2. /\ LeafCount(i) \in Nat
      /\ Leaves(i) = [k \in 1..LeafCount(i) |-> leafRows[i][k - 1]]
      /\ DOMAIN leafRows[i] = 0..(LeafCount(i) - 1)
  BY IInvRows, LeavesByPosition DEF PInv, RowsContiguous, LeavesSorted
<1>3. LeafCount(i) <= Capacity
  BY DEF PInv, IInv, PositionsContiguous
<1>4. \A p \in DOMAIN leafRows[i] : leafRows[i][p] \in Commitments
  BY DEF PInv, IInv, TypeOK
<1>5. tree = [k \in 1..n |-> leafRows[i][k - 1]]
  <2>1. SubSeq(Leaves(i), 1, n) = [k \in 1..n |-> Leaves(i)[k]]
    BY <1>2
  <2>2. \A k \in 1..n : Leaves(i)[k] = leafRows[i][k - 1]
    BY <1>2
  <2> QED BY <1>1, <2>1, <2>2
<1>6. \A k \in 1..n : leafRows[i][k - 1] \in Commitments
  BY <1>2, <1>4
<1>7. tree \in [1..n -> Commitments]
  BY <1>5, <1>6
<1>8. n \in 1..Capacity
  BY <1>2, <1>3, CapacityType
<1> QED BY <1>7, <1>8, NullAssumption

(* Issuers stay, counts and past trees grow, and a root is replaced only   *)
(* by that of a past tree.                                                 *)
TablesGrow ==
  /\ issuers \subseteq issuers'
  /\ \A i \in Issuers :
       /\ Counts[i] <= Counts'[i]
       /\ PastTrees[i] \subseteq PastTrees'[i]
       /\ publishedRoot'[i] # publishedRoot[i] =>
            publishedRoot'[i] # NoRoot /\ RootOf(publishedRoot'[i], PastTrees[i])

LEMMA WritesGrowTables ==
  ASSUME PInv, [Next]_vars
  PROVE  TablesGrow
<1>1. RowsContiguous /\ RowsContiguous'
  <2>1. IInv'
    BY NextIInv DEF PInv
  <2>2. RowsContiguous'
    BY <2>1, PositionCountType
    DEF IInv, TypeOK, PositionsContiguous, RowsContiguous, LeafCount
  <2> QED BY <2>2, IInvRows DEF PInv
<1>2. RowsKept
  BY StepKeepsRows DEF PInv, RowsKept
<1>3. /\ \A i \in Issuers : Counts[i] <= Counts'[i]
      /\ \A i \in Issuers : PastTrees[i] \subseteq PastTrees'[i]
  BY <1>1, <1>2, CountsGrow, PastTreesGrow
<1>4. \/ UNCHANGED <<issuers, publishedRoot>>
      \/ \E i \in Issuers : issuers' = issuers \cup {i} /\ UNCHANGED publishedRoot
      \/ \E i \in issuers : \E n \in 1..Len(Trees[i]) :
           /\ publishedRoot' = [publishedRoot EXCEPT ![i] = Root(SubSeq(Trees[i], 1, n))]
           /\ UNCHANGED issuers
  BY TreesChange, RootsAndIssuersChange
<1>5. ASSUME NEW i \in issuers, NEW n \in 1..Len(Trees[i]),
             publishedRoot' = [publishedRoot EXCEPT ![i] = Root(SubSeq(Trees[i], 1, n))],
             NEW j \in Issuers, publishedRoot'[j] # publishedRoot[j]
      PROVE  publishedRoot'[j] # NoRoot /\ RootOf(publishedRoot'[j], PastTrees[j])
  <2>1. i = j
    BY <1>5
  <2>2. DOMAIN publishedRoot = Issuers
    BY DEF PInv, IInv, TypeOK
  <2>3. publishedRoot'[j] = Root(SubSeq(Trees[j], 1, n))
    BY <1>5, <2>1, <2>2
  <2>4. SubSeq(Trees[j], 1, n) \in PastTrees[j]
    <3>1. /\ LeafCount(j) \in Nat
          /\ Leaves(j) = [k \in 1..LeafCount(j) |-> leafRows[j][k - 1]]
      BY <1>1, LeavesByPosition DEF RowsContiguous, LeavesSorted
    <3>2. Trees[j] = Leaves(j) /\ Len(Trees[j]) = LeafCount(j)
      BY <3>1 DEF Trees
    <3>3. n \in 1..LeafCount(j)
      BY <2>1, <3>2
    <3> QED BY <3>2, <3>3 DEF PastTrees
  <2> QED BY <2>3, <2>4, PastTreesHaveRoots DEF RootOf
<1> QED BY <1>3, <1>4, <1>5 DEF TablesGrow

LEMMA RootsStayStored ==
  ASSUME RootsStored, TablesGrow
  PROVE  RootsStored'
<1> SUFFICES ASSUME NEW i \in Issuers, publishedRoot'[i] # NoRoot
             PROVE  RootOf(publishedRoot'[i], PastTrees'[i])
  BY DEF RootsStored, RootOf
<1>1. RootOf(publishedRoot'[i], PastTrees[i])
  BY DEF RootsStored, TablesGrow
<1>2. PastTrees[i] \subseteq PastTrees'[i]
  BY DEF TablesGrow
<1> QED BY <1>1, <1>2 DEF RootOf

-----------------------------------------------------------------------------
(* The inductive invariant: at each statement a read still knows what it   *)
(* must cover, and what it has found is stored.                            *)

ReadsTyped ==
  /\ DOMAIN read = Readers
  /\ \A r \in Readers :
       /\ read[r] = [pc    |-> read[r].pc,    issuer |-> read[r].issuer,
                     since |-> read[r].since, names  |-> read[r].names,
                     count |-> read[r].count, root   |-> read[r].root]
       /\ read[r].issuer \in Issuers
       /\ read[r].count \in Nat
       /\ read[r].since.leaves \in Nat

(* What was there when the request arrived is in the tables until it is    *)
(* read, and then in the answer.                                           *)
Covers(q, known, counts, roots) ==
  /\ q.pc \in {"listIssuers", "exists"} => q.since.known \subseteq known
  /\ q.pc = "list" => q.since.known \subseteq q.names
  /\ q.pc = "noIssuer" => q.issuer \notin q.since.known
  /\ q.pc = "getRoot" /\ q.since.published => roots[q.issuer] # NoRoot
  /\ q.pc = "noRoot" => ~q.since.published
  /\ q.pc \in {"exists", "count"} => q.since.leaves <= counts[q.issuer]
  /\ q.pc \in {"infoRoot", "info"} => q.since.leaves <= q.count

(* What was read is in the tables.                                         *)
Found(q, known, counts, trees) ==
  /\ q.names \subseteq known
  /\ q.count <= counts[q.issuer]
  /\ q.root # NoRoot => RootOf(q.root, trees[q.issuer])

ReadsCover == \A r \in Readers : Covers(read[r], issuers, Counts, publishedRoot)
ReadsFound == \A r \in Readers : Found(read[r], issuers, Counts, PastTrees)

ReadInv ==
  /\ PInv
  /\ RootsStored
  /\ ReadsTyped
  /\ ReadsCover
  /\ ReadsFound

LEMMA CountsAreNat == PInv => \A i \in Issuers : Counts[i] = LeafCount(i) /\ Counts[i] \in Nat
BY IInvRows DEF PInv, RowsContiguous, Counts

(* A request that has just arrived, or has no answer. *)
LEMMA NewRequest ==
  ASSUME NEW pc, NEW i, NEW since
  PROVE  LET q == Request(pc, i, since)
         IN  /\ q = [pc    |-> q.pc,    issuer |-> q.issuer, since |-> q.since,
                     names |-> q.names, count  |-> q.count,  root  |-> q.root]
             /\ q.pc = pc /\ q.issuer = i /\ q.since = since
             /\ q.names = {} /\ q.count = 0 /\ q.root = NoRoot
BY DEF Request

LEMMA InitReadInv == ReadsInit => ReadInv
<1> SUFFICES ASSUME ReadsInit PROVE ReadInv
  OBVIOUS
<1>1. PInv
  BY InitPInv DEF ReadsInit
<1>2. RootsStored
  BY DEF ReadsInit, Init, DbInit, RootsStored
<1>3. PICK i \in Issuers : read = [r \in Readers |-> Request("idle", i, Nothing)]
  BY DEF ReadsInit
<1>4. ReadsTyped
  BY <1>3, NewRequest DEF ReadsTyped, Nothing, Seen
<1>5. ReadsCover
  BY <1>3, NewRequest DEF ReadsCover, Covers
<1>6. ReadsFound
  <2> SUFFICES ASSUME NEW r \in Readers
               PROVE  Found(read[r], issuers, Counts, PastTrees)
    BY DEF ReadsFound
  <2>1. read[r].issuer = i /\ read[r].names = {} /\ read[r].count = 0 /\ read[r].root = NoRoot
    BY <1>3, NewRequest
  <2> QED BY <1>1, <2>1, CountsAreNat DEF Found
<1> QED BY <1>1, <1>2, <1>4, <1>5, <1>6 DEF ReadInv

(* A step of the write requests leaves every read as it is. *)
LEMMA WriteStepReadInv ==
  ASSUME ReadInv, [Next]_vars, UNCHANGED read
  PROVE  ReadInv'
<1>1. PInv' /\ TablesGrow
  BY NextPInv, WritesGrowTables DEF ReadInv
<1>2. RootsStored'
  BY <1>1, RootsStayStored DEF ReadInv
<1>3. ReadsTyped'
  BY DEF ReadInv, ReadsTyped
<1>4. /\ \A i \in Issuers : Counts[i] \in Nat
      /\ \A i \in Issuers : Counts'[i] \in Nat
  <2>1. (\A i \in Issuers : Counts[i] = LeafCount(i) /\ Counts[i] \in Nat)'
    BY <1>1, CountsAreNat, PTL
  <2> QED BY <2>1, CountsAreNat DEF ReadInv
<1>5. ReadsFound'
  <2> SUFFICES ASSUME NEW r \in Readers
               PROVE  Found(read[r], issuers', Counts', PastTrees')
    BY DEF ReadsFound
  <2>1. read[r].issuer \in Issuers /\ read[r].count \in Nat
    BY DEF ReadInv, ReadsTyped
  <2>2. Found(read[r], issuers, Counts, PastTrees)
    BY DEF ReadInv, ReadsFound
  <2> QED BY <1>1, <1>4, <2>1, <2>2 DEF Found, TablesGrow, RootOf
<1>6. ReadsCover'
  <2> SUFFICES ASSUME NEW r \in Readers
               PROVE  Covers(read[r], issuers', Counts', publishedRoot')
    BY DEF ReadsCover
  <2> DEFINE q == read[r]
  <2>1. q.issuer \in Issuers /\ q.since.leaves \in Nat
    BY DEF ReadInv, ReadsTyped
  <2>2. Covers(q, issuers, Counts, publishedRoot)
    BY DEF ReadInv, ReadsCover
  <2>3. publishedRoot[q.issuer] # NoRoot => publishedRoot'[q.issuer] # NoRoot
    BY <1>1, <2>1 DEF TablesGrow
  <2> HIDE DEF q
  <2>4. q.pc \in {"listIssuers", "exists"} => q.since.known \subseteq issuers'
    BY <1>1, <2>2 DEF Covers, TablesGrow
  <2>5. q.pc \in {"exists", "count"} => q.since.leaves <= Counts'[q.issuer]
    BY <1>1, <1>4, <2>1, <2>2 DEF Covers, TablesGrow
  <2>6. Covers(q, issuers', Counts', publishedRoot')
    BY <2>2, <2>3, <2>4, <2>5 DEF Covers
  <2> QED BY <2>6 DEF q
<1> QED BY <1>1, <1>2, <1>3, <1>5, <1>6 DEF ReadInv

(* A request that satisfies the invariant with the tables as they are. *)
GoodRequest(q) ==
  /\ q = [pc    |-> q.pc,    issuer |-> q.issuer, since |-> q.since,
          names |-> q.names, count  |-> q.count,  root  |-> q.root]
  /\ q.issuer \in Issuers
  /\ q.count \in Nat
  /\ q.since.leaves \in Nat
  /\ Covers(q, issuers, Counts, publishedRoot)
  /\ Found(q, issuers, Counts, PastTrees)

LEMMA RequestsAreGood == ReadInv => \A r \in Readers : GoodRequest(read[r])
BY DEF ReadInv, ReadsTyped, ReadsCover, ReadsFound, GoodRequest

(* A step that leaves the tables alone and every request good. *)
LEMMA ReadersStep ==
  ASSUME ReadInv, [Next]_vars, UNCHANGED dbVars,
         DOMAIN read' = Readers, \A r \in Readers : GoodRequest(read'[r])
  PROVE  ReadInv'
<1>1. PInv'
  BY NextPInv DEF ReadInv
<1>2. /\ issuers' = issuers
      /\ publishedRoot' = publishedRoot
      /\ Counts' = Counts
      /\ PastTrees' = PastTrees
  BY DEF dbVars, Counts, LeafCount, PastTrees, Leaves, Rank
<1>3. RootsStored'
  BY <1>2 DEF ReadInv, RootsStored
<1>4. ReadsTyped'
  BY DEF ReadsTyped, GoodRequest
<1>5. ReadsCover'
  BY <1>2 DEF ReadsCover, GoodRequest
<1>6. ReadsFound'
  BY <1>2 DEF ReadsFound, GoodRequest
<1> QED BY <1>1, <1>3, <1>4, <1>5, <1>6 DEF ReadInv

(* The same when one request changes. *)
LEMMA ReaderStep ==
  ASSUME ReadInv, UNCHANGED vars, NEW r \in Readers, NEW q, GoodRequest(q),
         read' = [read EXCEPT ![r] = q]
  PROVE  ReadInv'
<1>1. UNCHANGED dbVars /\ [Next]_vars
  BY DEF vars
<1>2. DOMAIN read = Readers
  BY DEF ReadInv, ReadsTyped
<1>3. DOMAIN read' = Readers
  BY <1>2
<1>4. \A s \in Readers : read'[s] = IF s = r THEN q ELSE read[s]
  BY <1>2
<1>5. \A s \in Readers : GoodRequest(read'[s])
  BY <1>4, RequestsAreGood
<1> QED BY <1>1, <1>3, <1>5, ReadersStep

(* A request without an answer asks for nothing that is not there. *)
LEMMA IdleIsGood ==
  ASSUME PInv, NEW i \in Issuers, NEW pc \in {"idle", "error"}
  PROVE  GoodRequest(Request(pc, i, Nothing))
<1> DEFINE q == Request(pc, i, Nothing)
<1>1. /\ q = [pc    |-> q.pc,    issuer |-> q.issuer, since |-> q.since,
              names |-> q.names, count  |-> q.count,  root  |-> q.root]
      /\ q.pc = pc /\ q.issuer = i /\ q.since = Nothing
      /\ q.names = {} /\ q.count = 0 /\ q.root = NoRoot
  BY NewRequest
<1> HIDE DEF q
<1>2. q.since.leaves = 0
  BY <1>1 DEF Nothing, Seen
<1>3. Covers(q, issuers, Counts, publishedRoot)
  BY <1>1 DEF Covers
<1>4. Found(q, issuers, Counts, PastTrees)
  BY <1>1, CountsAreNat DEF Found
<1>5. GoodRequest(q)
  BY <1>1, <1>2, <1>3, <1>4 DEF GoodRequest
<1> QED BY <1>5 DEF q

LEMMA SendReadsReadInv ==
  ASSUME ReadInv, NEW r \in Readers, SendReads(r)
  PROVE  ReadInv'
<1>0. \A i \in Issuers : Counts[i] = LeafCount(i) /\ Counts[i] \in Nat
  BY CountsAreNat DEF ReadInv
<1>1. ASSUME NEW i \in Issuers, NEW pc, NEW known, NEW leaves, NEW published,
             SendRead(r, pc, i, Seen(known, leaves, published)),
             leaves \in Nat,
             pc \in {"listIssuers", "getRoot", "exists"},
             pc \in {"listIssuers", "exists"} => known \subseteq issuers,
             pc = "getRoot" => (published <=> publishedRoot[i] # NoRoot),
             pc = "exists" => leaves <= Counts[i]
      PROVE  ReadInv'
  <2> DEFINE q == Request(pc, i, Seen(known, leaves, published))
  <2>1. UNCHANGED vars /\ read' = [read EXCEPT ![r] = q]
    BY <1>1 DEF SendRead
  <2>2. /\ q = [pc    |-> q.pc,    issuer |-> q.issuer, since |-> q.since,
                names |-> q.names, count  |-> q.count,  root  |-> q.root]
        /\ q.pc = pc /\ q.issuer = i
        /\ q.since = Seen(known, leaves, published)
        /\ q.names = {} /\ q.count = 0 /\ q.root = NoRoot
    BY NewRequest
  <2> HIDE DEF q
  <2>3. q.since.known = known /\ q.since.leaves = leaves /\ q.since.published = published
    BY <2>2 DEF Seen
  <2>4. Covers(q, issuers, Counts, publishedRoot)
    BY <1>1, <2>2, <2>3 DEF Covers
  <2>5. Found(q, issuers, Counts, PastTrees)
    BY <1>0, <2>2 DEF Found
  <2>6. GoodRequest(q)
    BY <1>1, <2>2, <2>3, <2>4, <2>5 DEF GoodRequest
  <2> QED BY <2>1, <2>6, ReaderStep
<1>2. PICK i \in Issuers :
        \/ SendRead(r, "listIssuers", i, Seen(issuers, 0, FALSE))
        \/ SendRead(r, "getRoot", i, Seen({}, 0, publishedRoot[i] # NoRoot))
        \/ SendRead(r, "exists", i, Seen(issuers \cap {i}, LeafCount(i), FALSE))
  BY DEF SendReads
<1>3. CASE SendRead(r, "listIssuers", i, Seen(issuers, 0, FALSE))
  BY <1>1, <1>3
<1>4. CASE SendRead(r, "getRoot", i, Seen({}, 0, publishedRoot[i] # NoRoot))
  BY <1>1, <1>4
<1>5. CASE SendRead(r, "exists", i, Seen(issuers \cap {i}, LeafCount(i), FALSE))
  <2> DEFINE known == issuers \cap {i}
             leaves == LeafCount(i)
  <2>1. SendRead(r, "exists", i, Seen(known, leaves, FALSE))
    BY <1>5
  <2>2. known \subseteq issuers /\ leaves \in Nat /\ leaves <= Counts[i]
    BY <1>0
  <2> HIDE DEF known, leaves
  <2> QED BY <1>1, <2>1, <2>2
<1> QED BY <1>2, <1>3, <1>4, <1>5

(* A request after a statement: its next stand and what it has found. *)
After(q, pc, names, count, root) ==
  [pc |-> pc, issuer |-> q.issuer, since |-> q.since,
   names |-> names, count |-> count, root |-> root]

LEMMA SelectsChanges ==
  ASSUME ReadInv, NEW r \in Readers, NEW pc, NEW value, NEW next,
         NEW field \in {"names", "count", "root"}, Selects(r, pc, field, value, next)
  PROVE  /\ read[r].pc = pc
         /\ UNCHANGED vars
         /\ read' = [read EXCEPT ![r] =
                       After(read[r], next,
                             IF field = "names" THEN value ELSE read[r].names,
                             IF field = "count" THEN value ELSE read[r].count,
                             IF field = "root" THEN value ELSE read[r].root)]
<1>1. /\ DOMAIN read = Readers
      /\ read' = [read EXCEPT ![r].pc = next, ![r][field] = value]
  BY DEF Selects, ReadInv, ReadsTyped
<1>2. PICK pc0, i, since, names, count, root :
        read[r] = [pc |-> pc0, issuer |-> i, since |-> since,
                   names |-> names, count |-> count, root |-> root]
  BY DEF ReadInv, ReadsTyped
<1> DEFINE new == After(read[r], next,
                        IF field = "names" THEN value ELSE names,
                        IF field = "count" THEN value ELSE count,
                        IF field = "root" THEN value ELSE root)
<1>3. read'[r] = [read[r] EXCEPT !.pc = next, ![field] = value]
  BY <1>1
<1>4. read'[r] = new
  <2>1. PICK old, got : old = read[r] /\ got = read'[r]
    OBVIOUS
  <2>2. old = [pc |-> pc0, issuer |-> i, since |-> since,
               names |-> names, count |-> count, root |-> root]
    BY <1>2, <2>1
  <2>3. got = [old EXCEPT !.pc = next, ![field] = value]
    BY <1>3, <2>1
  <2>4. CASE field = "names"
    <3>1. got = [pc |-> next, issuer |-> i, since |-> since,
                 names |-> value, count |-> count, root |-> root]
      BY <2>2, <2>3, <2>4
    <3> QED BY <1>2, <2>1, <2>4, <3>1 DEF After
  <2>5. CASE field = "count"
    <3>1. got = [pc |-> next, issuer |-> i, since |-> since,
                 names |-> names, count |-> value, root |-> root]
      BY <2>2, <2>3, <2>5
    <3> QED BY <1>2, <2>1, <2>5, <3>1 DEF After
  <2>6. CASE field = "root"
    <3>1. got = [pc |-> next, issuer |-> i, since |-> since,
                 names |-> names, count |-> count, root |-> value]
      BY <2>2, <2>3, <2>6
    <3> QED BY <1>2, <2>1, <2>6, <3>1 DEF After
  <2> QED BY <2>4, <2>5, <2>6
<1>5. read' = [read EXCEPT ![r] = new]
  <2> HIDE DEF new
  <2>1. DOMAIN read' = Readers /\ \A s \in Readers \ {r} : read'[s] = read[s]
    BY <1>1
  <2> QED BY <1>1, <1>4, <2>1
<1>6. names = read[r].names /\ count = read[r].count /\ root = read[r].root
  BY <1>2
<1> QED BY <1>5, <1>6 DEF Selects

LEMMA AfterIsGood ==
  ASSUME ReadInv, NEW r \in Readers, NEW pc, NEW names, NEW count, NEW root,
         names \subseteq issuers,
         count \in Nat, count <= Counts[read[r].issuer],
         root # NoRoot => RootOf(root, PastTrees[read[r].issuer]),
         Covers(After(read[r], pc, names, count, root), issuers, Counts, publishedRoot),
         UNCHANGED vars,
         read' = [read EXCEPT ![r] = After(read[r], pc, names, count, root)]
  PROVE  ReadInv'
<1> DEFINE q == After(read[r], pc, names, count, root)
<1>1. /\ q = [pc    |-> q.pc,    issuer |-> q.issuer, since |-> q.since,
              names |-> q.names, count  |-> q.count,  root  |-> q.root]
      /\ q.issuer = read[r].issuer /\ q.since = read[r].since
      /\ q.names = names /\ q.count = count /\ q.root = root
  BY DEF After
<1>2. read[r].issuer \in Issuers /\ read[r].since.leaves \in Nat
  BY DEF ReadInv, ReadsTyped
<1>3. Covers(q, issuers, Counts, publishedRoot) /\ read' = [read EXCEPT ![r] = q]
  OBVIOUS
<1> HIDE DEF q
<1>4. Found(q, issuers, Counts, PastTrees)
  BY <1>1 DEF Found
<1>5. GoodRequest(q)
  BY <1>1, <1>2, <1>3, <1>4 DEF GoodRequest
<1> QED BY <1>3, <1>5, ReaderStep

LEMMA ReadProceedsReadInv ==
  ASSUME ReadInv, NEW r \in Readers, ReadProceeds(r)
  PROVE  ReadInv'
<1> DEFINE q == read[r]
           i == q.issuer
<1>1. /\ i \in Issuers /\ q.count \in Nat /\ q.since.leaves \in Nat
      /\ Covers(q, issuers, Counts, publishedRoot)
      /\ q.names \subseteq issuers
      /\ q.count <= Counts[i]
      /\ q.root # NoRoot => RootOf(q.root, PastTrees[i])
  BY RequestsAreGood DEF GoodRequest, Found
<1>2. Counts[i] = LeafCount(i) /\ Counts[i] \in Nat
  BY <1>1, CountsAreNat DEF ReadInv
<1>3. publishedRoot[i] # NoRoot => RootOf(publishedRoot[i], PastTrees[i])
  BY <1>1 DEF ReadInv, RootsStored
<1>4. ASSUME NEW pc, NEW names, NEW count, NEW root
      PROVE  LET new == After(q, pc, names, count, root)
             IN  /\ new.pc = pc /\ new.issuer = i /\ new.since = q.since
                 /\ new.names = names /\ new.count = count /\ new.root = root
  BY DEF After
<1>5. CASE ListIssuers(r)
  <2> DEFINE new == After(q, "list", issuers, q.count, q.root)
  <2>1. /\ q.pc = "listIssuers"
        /\ UNCHANGED vars /\ read' = [read EXCEPT ![r] = new]
    BY <1>5, SelectsChanges DEF ListIssuers
  <2>2. new.pc = "list" /\ new.since = q.since /\ new.names = issuers
    BY <1>4
  <2>3. Covers(new, issuers, Counts, publishedRoot)
    <3> HIDE DEF new, q, i
    <3> QED BY <1>1, <2>1, <2>2 DEF Covers
  <2> QED BY <1>1, <2>1, <2>3, AfterIsGood
<1>6. CASE GetRoot(r)
  <2> DEFINE pc == IF publishedRoot[i] = NoRoot THEN "noRoot" ELSE "root"
             new == After(q, pc, q.names, q.count, publishedRoot[i])
  <2>1. /\ q.pc = "getRoot"
        /\ UNCHANGED vars /\ read' = [read EXCEPT ![r] = new]
    BY <1>6, SelectsChanges DEF GetRoot
  <2>2. new.pc = pc /\ new.issuer = i /\ new.since = q.since
    BY <1>4
  <2>3. Covers(new, issuers, Counts, publishedRoot)
    <3>1. q.since.published => publishedRoot[i] # NoRoot
      BY <1>1, <2>1 DEF Covers
    <3> HIDE DEF new, q, i
    <3> QED BY <2>2, <3>1 DEF Covers
  <2> QED BY <1>1, <1>3, <2>1, <2>3, AfterIsGood
<1>7. CASE Selects(r, "exists", "names", {}, IF i \in issuers THEN "count" ELSE "noIssuer")
  <2> DEFINE pc == IF i \in issuers THEN "count" ELSE "noIssuer"
             names == {}
             new == After(q, pc, names, q.count, q.root)
  <2>1. /\ q.pc = "exists"
        /\ UNCHANGED vars /\ read' = [read EXCEPT ![r] = new]
    BY <1>7, SelectsChanges
  <2>2. new.pc = pc /\ new.issuer = i /\ new.since = q.since
    BY <1>4
  <2>3. Covers(new, issuers, Counts, publishedRoot)
    <3> HIDE DEF new, q, i
    <3>1. q.since.known \subseteq issuers /\ q.since.leaves <= Counts[i]
      BY <1>1, <2>1 DEF Covers, i
    <3> QED BY <2>2, <3>1 DEF Covers
  <2>4. names \subseteq issuers
    OBVIOUS
  <2> HIDE DEF pc, names
  <2> QED BY <1>1, <2>1, <2>3, <2>4, AfterIsGood
<1>8. CASE Selects(r, "count", "count", LeafCount(i), "infoRoot")
  <2> DEFINE count == LeafCount(i)
             new == After(q, "infoRoot", q.names, count, q.root)
  <2>1. /\ q.pc = "count"
        /\ UNCHANGED vars /\ read' = [read EXCEPT ![r] = new]
    BY <1>8, SelectsChanges
  <2>2. new.pc = "infoRoot" /\ new.since = q.since /\ new.count = count
    BY <1>4
  <2>3. Covers(new, issuers, Counts, publishedRoot)
    <3> HIDE DEF new, q, i
    <3>1. q.since.leaves <= count
      BY <1>1, <1>2, <2>1 DEF Covers, i
    <3> QED BY <2>2, <3>1 DEF Covers
  <2>4. count \in Nat /\ count <= Counts[i]
    BY <1>2
  <2> HIDE DEF count
  <2> QED BY <1>1, <2>1, <2>3, <2>4, AfterIsGood
<1>9. CASE Selects(r, "infoRoot", "root", publishedRoot[i], "info")
  <2> DEFINE new == After(q, "info", q.names, q.count, publishedRoot[i])
  <2>1. /\ q.pc = "infoRoot"
        /\ UNCHANGED vars /\ read' = [read EXCEPT ![r] = new]
    BY <1>9, SelectsChanges
  <2>2. new.pc = "info" /\ new.since = q.since /\ new.count = q.count
    BY <1>4
  <2>3. Covers(new, issuers, Counts, publishedRoot)
    <3> HIDE DEF new, q, i
    <3> QED BY <1>1, <2>1, <2>2 DEF Covers
  <2> QED BY <1>1, <1>3, <2>1, <2>3, AfterIsGood
<1> QED BY <1>5, <1>6, <1>7, <1>8, <1>9 DEF ReadProceeds, InfoReads

LEMMA ReadEndsReadInv ==
  ASSUME ReadInv, NEW r \in Readers, ReadEnds(r)
  PROVE  ReadInv'
<1>1. PICK pc \in {"error", "idle"} :
        /\ read' = [read EXCEPT ![r] = Request(pc, read[r].issuer, Nothing)]
        /\ UNCHANGED vars
  BY DEF ReadEnds
<1>2. read[r].issuer \in Issuers
  BY DEF ReadInv, ReadsTyped
<1>3. GoodRequest(Request(pc, read[r].issuer, Nothing))
  BY <1>2, IdleIsGood DEF ReadInv
<1> QED BY <1>1, <1>3, ReaderStep

LEMMA CrashReadInv ==
  ASSUME ReadInv, CrashOfAll
  PROVE  ReadInv'
<1>1. [Next]_vars /\ UNCHANGED dbVars
  BY DEF CrashOfAll, Crash, Next
<1>2. read' = [r \in Readers |-> Request("idle", read[r].issuer, Nothing)]
  BY DEF CrashOfAll
<1>3. ASSUME NEW r \in Readers
      PROVE  GoodRequest(read'[r])
  <2>1. read[r].issuer \in Issuers
    BY DEF ReadInv, ReadsTyped
  <2>2. GoodRequest(Request("idle", read[r].issuer, Nothing))
    BY <2>1, IdleIsGood DEF ReadInv
  <2> QED BY <1>2, <2>2
<1> QED BY <1>1, <1>2, <1>3, ReadersStep

LEMMA NextReadInv == ReadInv /\ [ReadsNext]_readsVars => ReadInv'
<1> SUFFICES ASSUME ReadInv, [ReadsNext]_readsVars PROVE ReadInv'
  OBVIOUS
<1>1. CASE WriteStep
  BY <1>1, WriteStepReadInv DEF WriteStep, Next
<1>2. ASSUME NEW r \in Readers, SendReads(r) \/ ReadProceeds(r) \/ ReadEnds(r)
      PROVE  ReadInv'
  BY <1>2, SendReadsReadInv, ReadProceedsReadInv, ReadEndsReadInv
<1>3. CASE CrashOfAll
  BY <1>3, CrashReadInv
<1>4. CASE UNCHANGED readsVars
  <2>1. [Next]_vars /\ UNCHANGED read
    BY <1>4 DEF readsVars
  <2> QED BY <2>1, WriteStepReadInv
<1> QED BY <1>1, <1>2, <1>3, <1>4 DEF ReadsNext, ReadStep

LEMMA SpecReadInv == ReadsSpec => []ReadInv
<1>1. ReadsInit => ReadInv
  BY InitReadInv
<1>2. ReadInv /\ [ReadsNext]_readsVars => ReadInv'
  BY NextReadInv
<1> QED BY <1>1, <1>2, PTL DEF ReadsSpec

-----------------------------------------------------------------------------
(* The reads take nothing from the writes: beside them IssuerApi behaves   *)
(* as it does alone, so all that is proved of it holds here.               *)
THEOREM ReadsDisturbNoWrites == ReadsSpec => Spec
<1>1. ReadsInit => Init
  BY DEF ReadsInit
<1>2. [ReadsNext]_readsVars => [Next]_vars
  BY DEF ReadsNext, readsVars, WriteStep, Next, ReadStep, SendReads, SendRead,
         ReadProceeds, ListIssuers, GetRoot, InfoReads, Selects, ReadEnds, CrashOfAll
<1> QED BY <1>1, <1>2, PTL DEF ReadsSpec, Spec

(* No answer misses what was there when its request arrived, whatever runs *)
(* between the statements it is made of.                                   *)
THEOREM ReadsCoverEarlierWrites == ReadsSpec => []ReadsSeeEarlierWrites
<1>1. ReadInv => ReadsSeeEarlierWrites
  BY DEF ReadInv, ReadsCover, Covers, ReadsSeeEarlierWrites
<1> QED BY <1>1, SpecReadInv, PTL

(* Every answer speaks only of what is stored, then and ever after.        *)
THEOREM ReadsAreStored == ReadsSpec => []ReadsReportOnlyStored
<1>1. ASSUME ReadInv, NEW r \in Readers
      PROVE  LET q == read[r]
             IN  /\ q.names \subseteq issuers
                 /\ q.count <= LeafCount(q.issuer)
                 /\ q.root # NoRoot =>
                      \E n \in 1..LeafCount(q.issuer) :
                        q.root = Root(SubSeq(Leaves(q.issuer), 1, n))
  <2>1. read[r].issuer \in Issuers
    BY <1>1 DEF ReadInv, ReadsTyped
  <2>2. Found(read[r], issuers, Counts, PastTrees)
    BY <1>1 DEF ReadInv, ReadsFound
  <2>3. Counts[read[r].issuer] = LeafCount(read[r].issuer)
    BY <1>1, <2>1, CountsAreNat DEF ReadInv
  <2> QED BY <2>1, <2>2, <2>3 DEF Found, RootOf, PastTrees
<1>2. ReadInv => ReadsReportOnlyStored
  BY <1>1 DEF ReadsReportOnlyStored
<1> QED BY <1>2, SpecReadInv, PTL

(* Only the last statement of issuer_info makes its answer. *)
LEMMA InfoAnswers ==
  ASSUME ReadInv, [ReadsNext]_readsVars, NEW r \in Readers,
         read[r].pc = "infoRoot", read'[r].pc = "info"
  PROVE  /\ read'[r].root = publishedRoot[read[r].issuer]
         /\ read'[r].count = read[r].count
<1>1. DOMAIN read = Readers
  BY DEF ReadInv, ReadsTyped
<1>2. read' # read
  OBVIOUS
<1>3. ~WriteStep /\ ~UNCHANGED readsVars
  BY <1>2 DEF WriteStep, readsVars
<1>4. ~CrashOfAll
  BY NewRequest DEF CrashOfAll
<1>5. PICK s \in Readers : SendReads(s) \/ ReadProceeds(s) \/ ReadEnds(s)
  BY <1>3, <1>4 DEF ReadsNext, ReadStep
<1>6. \A q \in Readers \ {s} : read'[q] = read[q]
  BY <1>1, <1>5
  DEF SendReads, SendRead, ReadEnds, ReadProceeds, ListIssuers, GetRoot, InfoReads, Selects
<1>7. s = r
  BY <1>6
<1>8. ~SendReads(r)
  BY DEF SendReads, SendRead, ReadAnswered
<1>9. ~ReadEnds(r)
  <2> SUFFICES ASSUME ReadEnds(r) PROVE FALSE
    OBVIOUS
  <2>1. PICK pc \in {"error", "idle"} :
          read' = [read EXCEPT ![r] = Request(pc, read[r].issuer, Nothing)]
    BY DEF ReadEnds
  <2> QED BY <1>1, <2>1, NewRequest
<1>10. Selects(r, "infoRoot", "root", publishedRoot[read[r].issuer], "info")
  BY <1>5, <1>7, <1>8, <1>9 DEF ReadProceeds, ListIssuers, GetRoot, InfoReads, Selects
<1>11. read' = [read EXCEPT ![r] =
                  After(read[r], "info", read[r].names, read[r].count,
                        publishedRoot[read[r].issuer])]
  BY <1>10, SelectsChanges
<1> QED BY <1>1, <1>11 DEF After

(* The count is taken before the root, and what is counted stays: so when  *)
(* the root read covers less than the count, it is out of date.            *)
THEOREM InfoIsNeverFalselyStale == ReadsSpec => InfoNeverFalselyStale
<1>1. ReadInv /\ [ReadsNext]_readsVars => InfoStaleOnlyIfStale
  <2> SUFFICES ASSUME ReadInv, [ReadsNext]_readsVars, NEW r \in Readers,
                      read[r].pc = "infoRoot", read'[r].pc = "info",
                      \A n \in read'[r].count..LeafCount(read[r].issuer) :
                        read'[r].root # RootOfFirst(read[r].issuer, n)
               PROVE  publishedRoot[read[r].issuer]
                        # RootOfFirst(read[r].issuer, LeafCount(read[r].issuer))
    BY DEF InfoStaleOnlyIfStale
  <2> DEFINE i == read[r].issuer
  <2>1. i \in Issuers /\ read[r].count \in Nat /\ read[r].count <= Counts[i]
    BY DEF ReadInv, ReadsTyped, ReadsFound, Found
  <2>2. Counts[i] = LeafCount(i) /\ Counts[i] \in Nat
    BY <2>1, CountsAreNat DEF ReadInv
  <2>3. read'[r].root = publishedRoot[i] /\ read'[r].count = read[r].count
    BY InfoAnswers
  <2>4. LeafCount(i) \in read'[r].count..LeafCount(i)
    BY <2>1, <2>2, <2>3
  <2> QED BY <2>3, <2>4
<1> QED BY <1>1, SpecReadInv, PTL DEF ReadsSpec, InfoNeverFalselyStale
=============================================================================

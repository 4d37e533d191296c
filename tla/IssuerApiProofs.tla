--------------------------- MODULE IssuerApiProofs ---------------------------
(***************************************************************************)
(* Proofs about IssuerApi, for every number of issuers and of concurrent   *)
(* requests, every tree depth and every pool size: first the leaves, then  *)
(* which roots publish persists and answers, and that the tables implement *)
(* CredentialTree.                                                         *)
(***************************************************************************)
EXTENDS IssuerApi, DatabaseProofs

-----------------------------------------------------------------------------
(* A set of positions below the capacity is finite, so its count is a      *)
(* natural number.                                                         *)
LEMMA PositionCountType ==
  ASSUME NEW D, D \subseteq 0..(Capacity - 1)
  PROVE  Cardinality(D) \in Nat
<1>1. IsFiniteSet(0..(Capacity - 1))
  BY FS_Interval, CapacityType, Capacity - 1 \in Int, 0 \in Int
<1> QED BY <1>1, FS_Subset, FS_CardinalityType

-----------------------------------------------------------------------------
(* The inductive invariant.  PositionsContiguous is not inductive by       *)
(* itself: it needs to know which position a request that has read its     *)
(* count will insert, and that no other open transaction has that row.     *)

(* The publish requests are records; TypeOK leaves the root untyped. *)
PubShape ==
  \A r \in Publishers :
    pub[r] = [pc     |-> pub[r].pc,   issuer |-> pub[r].issuer,
              root   |-> pub[r].root, since  |-> pub[r].since]

(* Only a well-formed commitment gets past the parser. *)
CommitmentsParsed ==
  \A r \in Adders :
    add[r].pc \in AddRunning \cup {"ok"} => add[r].commitment \in Commitments

(* A request that has read its count aims at a position up to the count of *)
(* now (which only grows), and below the capacity.                         *)
PositionsReserved ==
  \A r \in Adders : add[r].pc \in {"insert", "commit"} =>
    /\ add[r].position < Capacity
    /\ add[r].position <= LeafCount(add[r].issuer)

(* A row about to be committed has no competitor, stored or uncommitted.   *)
UncommittedUnique ==
  \A r \in Adders : add[r].pc = "commit" =>
    /\ add[r].position \notin DOMAIN leafRows[add[r].issuer]
    /\ \A s \in Adders \ {r} :
         add[s].pc = "commit" /\ add[s].issuer = add[r].issuer
           => add[s].position # add[r].position

IInv ==
  /\ TypeOK
  /\ PubShape
  /\ PositionsContiguous
  /\ CommitmentsParsed
  /\ PositionsReserved
  /\ UncommittedUnique
  /\ AcknowledgedLeafDurable

-----------------------------------------------------------------------------
(* The initial states satisfy it. *)
LEMMA InitIInv == Init => IInv
<1> SUFFICES ASSUME Init PROVE IInv
  OBVIOUS
<1> USE DEF Init, DbInit
<1>1. \A i \in Issuers : LeafCount(i) = 0
  BY FS_EmptySet DEF LeafCount
<1>2. \A r \in Adders : /\ add[r].pc = "idle" /\ add[r].position = 0
                        /\ add[r].issuer \in Issuers /\ add[r].commitment \in Commitments
  BY DEF NewAdd
<1>3. TypeOK
  <2>1. add \in [Adders -> AddRequests]
    BY CapacityType DEF NewAdd, AddRequests, AddAnswered
  <2>2. \A r \in Publishers : /\ pub[r].pc \in PubRunning \cup PubAnswered
                              /\ pub[r].issuer \in Issuers
                              /\ pub[r].since \in 0..Capacity
    BY CapacityType DEF NewPub, PubAnswered
  <2> QED BY <2>1, <2>2 DEF TypeOK
<1>4. PubShape
  BY DEF PubShape, NewPub
<1>5. PositionsContiguous
  BY <1>1, CapacityType DEF PositionsContiguous
<1> QED
  BY <1>2, <1>3, <1>4, <1>5
  DEF IInv, CommitmentsParsed, AddRunning, PositionsReserved, UncommittedUnique,
      AcknowledgedLeafDurable

-----------------------------------------------------------------------------
(* Steps of add_leaf that commit nothing: one request moves on to a state  *)
(* that meets the invariant's conditions on a single request.              *)
LEMMA RequestStep ==
  ASSUME IInv,
         NEW r \in Adders, NEW req \in AddRequests,
         add' = [add EXCEPT ![r] = req],
         UNCHANGED <<leafRows, publishedRoot, generatedNullifiers, pub>>,
         issuers' \subseteq Issuers,
         req.pc # "ok",
         req.pc \in AddRunning => req.commitment \in Commitments,
         req.pc \in {"insert", "commit"} =>
           /\ req.position < Capacity
           /\ req.position <= LeafCount(req.issuer),
         req.pc = "commit" =>
           /\ req.position \notin DOMAIN leafRows[req.issuer]
           /\ \A s \in Adders \ {r} :
                add[s].pc = "commit" /\ add[s].issuer = req.issuer
                  => add[s].position # req.position
  PROVE  IInv'
<1> USE DEF IInv
<1>1. \A s \in Adders : add'[s] = IF s = r THEN req ELSE add[s]
  BY DEF TypeOK
<1>2. TypeOK'
  BY DEF TypeOK
<1>3. PubShape'
  BY DEF PubShape
<1>4. PositionsContiguous'
  BY DEF PositionsContiguous, LeafCount
<1>5. CommitmentsParsed'
  BY <1>1 DEF CommitmentsParsed
<1>6. PositionsReserved'
  BY <1>1 DEF PositionsReserved, LeafCount
<1>7. UncommittedUnique'
  BY <1>1 DEF UncommittedUnique
<1>8. AcknowledgedLeafDurable'
  BY <1>1 DEF AcknowledgedLeafDurable
<1> QED BY <1>2, <1>3, <1>4, <1>5, <1>6, <1>7, <1>8

(* The same for the steps of publish, none of which touches the leaves. *)
LEMMA PublisherStep ==
  ASSUME IInv,
         NEW r \in Publishers, NEW pc \in PubRunning \cup PubAnswered,
         NEW i \in Issuers, NEW root, NEW since \in 0..Capacity,
         pub' = [pub EXCEPT ![r] =
                   [pc |-> pc, issuer |-> i, root |-> root, since |-> since]],
         UNCHANGED <<leafRows, generatedNullifiers, add>>,
         issuers' \subseteq Issuers,
         DOMAIN publishedRoot' = Issuers
  PROVE  IInv'
<1> USE DEF IInv
<1>1. \A s \in Publishers :
        pub'[s] = IF s = r
                  THEN [pc |-> pc, issuer |-> i, root |-> root, since |-> since]
                  ELSE pub[s]
  BY DEF TypeOK
<1>2. TypeOK'
  BY <1>1 DEF TypeOK
<1>3. PubShape'
  BY <1>1 DEF PubShape
<1>4. PositionsContiguous' /\ PositionsReserved'
  BY DEF PositionsContiguous, PositionsReserved, LeafCount
<1>5. CommitmentsParsed' /\ UncommittedUnique' /\ AcknowledgedLeafDurable'
  BY DEF CommitmentsParsed, UncommittedUnique, AcknowledgedLeafDurable
<1> QED BY <1>2, <1>3, <1>4, <1>5

(* A row that is committed continues its issuer's positions. *)
LEMMA CommittedRow ==
  ASSUME IInv,
         NEW r \in Adders, add[r].pc = "commit",
         NEW i \in Issuers, add[r].issuer = i,
         InsertLeaf(add[r].issuer, add[r].position, add[r].commitment)
  PROVE  LET n == LeafCount(i)
         IN  /\ n \in Nat /\ n < Capacity
             /\ add[r].position = n
             /\ DOMAIN leafRows[i] = 0..(n - 1)
             /\ DOMAIN leafRows' = Issuers
             /\ DOMAIN leafRows'[i] = 0..n
             /\ LeafCount(i)' = n + 1
             /\ \A p \in 0..(n - 1) : leafRows'[i][p] = leafRows[i][p]
             /\ leafRows'[i][n] = add[r].commitment
             /\ \A j \in Issuers \ {i} : leafRows'[j] = leafRows[j]
<1> USE DEF IInv
<1> DEFINE n == LeafCount(i)
<1>1. i \in Issuers /\ add[r].position \in 0..Capacity
  BY DEF TypeOK, AddRequests
<1>2. n \in Nat
  BY <1>1, PositionCountType DEF TypeOK, LeafCount
<1>3. DOMAIN leafRows[i] = 0..(n - 1)
  BY <1>1 DEF PositionsContiguous
<1>4. add[r].position = n /\ n < Capacity
  <2>1. add[r].position < Capacity /\ add[r].position <= n
    BY DEF PositionsReserved
  <2>2. add[r].position \notin 0..(n - 1)
    BY <1>3 DEF UncommittedUnique
  <2> QED BY <1>1, <1>2, <2>1, <2>2, CapacityType
<1>5. /\ DOMAIN leafRows' = Issuers
      /\ leafRows'[i] = [q \in DOMAIN leafRows[i] \cup {n} |->
                           IF q = n THEN add[r].commitment ELSE leafRows[i][q]]
      /\ \A j \in Issuers \ {i} : leafRows'[j] = leafRows[j]
  BY <1>1, <1>4 DEF TypeOK, InsertLeaf
<1>6. (0..(n - 1)) \cup {n} = 0..n
  BY <1>2
<1>7. DOMAIN leafRows'[i] = 0..n
  BY <1>3, <1>5, <1>6
<1>8. Cardinality(0..n) = n + 1
  BY <1>2, IntervalCount, n + 1 \in Nat, (n + 1) - 1 = n
<1>9. LeafCount(i)' = n + 1
  BY <1>7, <1>8 DEF LeafCount
<1>10. \A p \in 0..(n - 1) : leafRows'[i][p] = leafRows[i][p]
  BY <1>2, <1>3, <1>5
<1>11. leafRows'[i][n] = add[r].commitment
  BY <1>5
<1> QED BY <1>2, <1>3, <1>4, <1>5, <1>7, <1>9, <1>10, <1>11

(* COMMIT, whatever the client hears of it. *)
LEMMA CommitStep ==
  ASSUME IInv,
         NEW r \in Adders, add[r].pc = "commit",
         InsertLeaf(add[r].issuer, add[r].position, add[r].commitment),
         NEW req \in AddRequests,
         add' = [add EXCEPT ![r] = req],
         req.pc \in {"ok", "error", "idle"},
         req.pc = "ok" => /\ req.issuer = add[r].issuer
                          /\ req.position = add[r].position
                          /\ req.commitment = add[r].commitment,
         UNCHANGED <<issuers, publishedRoot, generatedNullifiers, pub>>
  PROVE  IInv'
<1> USE DEF IInv
<1>1. PICK i \in Issuers : i = add[r].issuer
  BY DEF TypeOK, AddRequests
<1>2. PICK n \in Nat : n = LeafCount(i)
  BY <1>1, CommittedRow
<1>3. /\ n < Capacity
      /\ add[r].position = n
      /\ DOMAIN leafRows[i] = 0..(n - 1)
      /\ DOMAIN leafRows' = Issuers
      /\ DOMAIN leafRows'[i] = 0..n
      /\ LeafCount(i)' = n + 1
      /\ \A p \in 0..(n - 1) : leafRows'[i][p] = leafRows[i][p]
      /\ leafRows'[i][n] = add[r].commitment
      /\ \A j \in Issuers \ {i} : leafRows'[j] = leafRows[j]
  BY <1>1, <1>2, CommittedRow
<1>4. \A j \in Issuers \ {i} : LeafCount(j)' = LeafCount(j)
  BY <1>3 DEF LeafCount
<1>5. /\ add'[r] = req
      /\ \A s \in Adders \ {r} : add'[s] = add[s]
  BY DEF TypeOK
<1>6. /\ add'[r].pc \in {"ok", "error", "idle"}
      /\ add'[r].pc = "ok" => /\ add'[r].issuer = i
                              /\ add'[r].position = n
                              /\ add'[r].commitment = add[r].commitment
      /\ add[r].commitment \in Commitments
  BY <1>1, <1>3, <1>5 DEF TypeOK, AddRequests, CommitmentsParsed, AddRunning
<1>7. TypeOK'
  <2>1. add' \in [Adders -> AddRequests]
    BY DEF TypeOK
  <2>2. \A j \in Issuers : /\ DOMAIN leafRows'[j] \subseteq 0..(Capacity - 1)
                           /\ \A p \in DOMAIN leafRows'[j] : leafRows'[j][p] \in Commitments
    <3>1. \A j \in Issuers \ {i} : /\ DOMAIN leafRows'[j] \subseteq 0..(Capacity - 1)
                                   /\ \A p \in DOMAIN leafRows'[j] : leafRows'[j][p] \in Commitments
      BY <1>3 DEF TypeOK
    <3>2. 0..n \subseteq 0..(Capacity - 1)
      BY <1>3, CapacityType
    <3>3. \A p \in 0..(n - 1) : leafRows[i][p] \in Commitments
      BY <1>3 DEF TypeOK
    <3>4. \A p \in 0..n : p \in 0..(n - 1) \/ p = n
      OBVIOUS
    <3>5. \A p \in 0..n : leafRows'[i][p] \in Commitments
      BY <1>3, <1>6, <3>3, <3>4
    <3>6. /\ DOMAIN leafRows'[i] \subseteq 0..(Capacity - 1)
          /\ \A p \in DOMAIN leafRows'[i] : leafRows'[i][p] \in Commitments
      BY <1>3, <3>2, <3>5
    <3> QED BY <3>1, <3>6
  <2> QED BY <1>3, <2>1, <2>2 DEF TypeOK
<1>8. PubShape'
  BY DEF PubShape
<1>9. PositionsContiguous'
  <2>1. n + 1 <= Capacity /\ (n + 1) - 1 = n
    BY <1>3, CapacityType
  <2>2. \A j \in Issuers \ {i} :
          /\ LeafCount(j)' <= Capacity
          /\ DOMAIN leafRows'[j] = 0..(LeafCount(j)' - 1)
    BY <1>3, <1>4 DEF PositionsContiguous
  <2> QED BY <1>3, <2>1, <2>2 DEF PositionsContiguous
<1>10. CommitmentsParsed'
  BY <1>5, <1>6 DEF CommitmentsParsed, AddRunning
<1>11. PositionsReserved'
  <2> SUFFICES ASSUME NEW s \in Adders, add'[s].pc \in {"insert", "commit"}
               PROVE  /\ add'[s].position < Capacity
                      /\ add'[s].position <= Cardinality(DOMAIN leafRows'[add'[s].issuer])
    BY DEF PositionsReserved, LeafCount
  <2>1. s # r /\ add'[s] = add[s]
    BY <1>5, <1>6
  <2>2. /\ add[s].position < Capacity
        /\ add[s].position <= LeafCount(add[s].issuer)
        /\ add[s].position \in Int
        /\ add[s].issuer \in Issuers
    BY <2>1 DEF PositionsReserved, TypeOK, AddRequests
  <2>3. CASE add[s].issuer = i
    <3>1. add[s].position <= n
      BY <1>2, <2>2, <2>3
    <3>2. Cardinality(DOMAIN leafRows'[i]) = n + 1
      BY <1>3 DEF LeafCount
    <3> QED BY <2>1, <2>2, <2>3, <3>1, <3>2
  <2>4. CASE add[s].issuer # i
    BY <1>4, <2>1, <2>2, <2>4 DEF LeafCount
  <2> QED BY <2>3, <2>4
<1>12. UncommittedUnique'
  <2> SUFFICES ASSUME NEW s \in Adders, add'[s].pc = "commit"
               PROVE  /\ add'[s].position \notin DOMAIN leafRows'[add'[s].issuer]
                      /\ \A t \in Adders \ {s} :
                           add'[t].pc = "commit" /\ add'[t].issuer = add'[s].issuer
                             => add'[t].position # add'[s].position
    BY DEF UncommittedUnique
  <2>1. s # r /\ add'[s] = add[s]
    BY <1>5, <1>6
  <2>2. /\ add[s].position \notin DOMAIN leafRows[add[s].issuer]
        /\ add[s].position <= LeafCount(add[s].issuer)
        /\ add[s].position \in Nat
        /\ add[s].issuer \in Issuers
        /\ add[s].issuer = i => add[s].position # n
    BY <1>1, <1>3, <2>1 DEF UncommittedUnique, PositionsReserved, TypeOK, AddRequests
  <2>3. add[s].issuer # i
    BY <1>2, <1>3, <2>2
  <2>4. \A t \in Adders \ {s} :
          add'[t].pc = "commit" /\ add'[t].issuer = add'[s].issuer
            => add'[t].position # add'[s].position
    <3> SUFFICES ASSUME NEW t \in Adders \ {s}, add'[t].pc = "commit",
                        add'[t].issuer = add'[s].issuer
                 PROVE  add'[t].position # add'[s].position
      OBVIOUS
    <3>1. t # r /\ add'[t] = add[t]
      BY <1>5, <1>6
    <3> QED BY <2>1, <3>1 DEF UncommittedUnique
  <2> QED BY <1>3, <2>1, <2>2, <2>3, <2>4
<1>13. AcknowledgedLeafDurable'
  <2>1. \A s \in Adders \ {r} : add[s].pc = "ok" =>
          /\ add[s].issuer \in Issuers
          /\ add[s].position \in DOMAIN leafRows[add[s].issuer]
          /\ leafRows[add[s].issuer][add[s].position] = add[s].commitment
          /\ add[s].issuer = i => add[s].position \in 0..(n - 1)
    BY <1>3 DEF AcknowledgedLeafDurable, TypeOK, AddRequests
  <2>2. \A j \in Issuers : \A p \in DOMAIN leafRows[j] :
          p \in DOMAIN leafRows'[j] /\ leafRows'[j][p] = leafRows[j][p]
    BY <1>3
  <2>3. n \in DOMAIN leafRows'[i] /\ n \notin 0..(n - 1)
    BY <1>3
  <2>4. ASSUME NEW s \in Adders, add'[s].pc = "ok"
        PROVE  /\ add'[s].position \in DOMAIN leafRows'[add'[s].issuer]
               /\ leafRows'[add'[s].issuer][add'[s].position] = add'[s].commitment
    <3>1. CASE s = r
      BY <1>6, <1>3, <2>3, <2>4, <3>1
    <3>2. CASE s # r
      <4>1. add'[s] = add[s]
        BY <1>5, <3>2
      <4> QED BY <2>1, <2>2, <2>4, <3>2, <4>1
    <3> QED BY <3>1, <3>2
  <2>5. ASSUME NEW s \in Adders, NEW t \in Adders \ {s},
               add'[s].pc = "ok", add'[t].pc = "ok", add'[t].issuer = add'[s].issuer
        PROVE  add'[t].position # add'[s].position
    <3>1. CASE s = r
      <4>1. add'[t] = add[t]
        BY <1>5, <3>1
      <4> QED BY <1>6, <2>1, <2>3, <2>5, <3>1, <4>1
    <3>2. CASE t = r
      <4>1. add'[s] = add[s]
        BY <1>5, <3>2
      <4> QED BY <1>6, <2>1, <2>3, <2>5, <3>2, <4>1
    <3>3. CASE s # r /\ t # r
      <4>1. add'[s] = add[s] /\ add'[t] = add[t]
        BY <1>5, <3>3
      <4> QED BY <2>5, <4>1 DEF AcknowledgedLeafDurable
    <3> QED BY <3>1, <3>2, <3>3
  <2> QED BY <2>4, <2>5 DEF AcknowledgedLeafDurable
<1> QED
  BY <1>7, <1>8, <1>9, <1>10, <1>11, <1>12, <1>13

-----------------------------------------------------------------------------
(* The process dies: no request is left that the invariant speaks of. *)
LEMMA CrashStep == IInv /\ Crash => IInv'
<1> SUFFICES ASSUME IInv, Crash PROVE IInv'
  OBVIOUS
<1>1. UNCHANGED <<issuers, leafRows, publishedRoot, generatedNullifiers>>
  BY DEF Crash, dbVars
<1>2. add' \in [Adders -> AddRequests] /\ \A r \in Adders : add'[r].pc = "idle"
  <2>1. \A r \in Adders : NewAdd("idle", add[r].issuer, add[r].commitment) \in AddRequests
    BY CapacityType DEF NewAdd, IInv, TypeOK, AddRequests, AddAnswered
  <2>2. \A r \in Adders : NewAdd("idle", add[r].issuer, add[r].commitment).pc = "idle"
    BY DEF NewAdd
  <2> QED BY <2>1, <2>2 DEF Crash
<1>3. DOMAIN pub' = Publishers
  BY DEF Crash
<1>4. ASSUME NEW r \in Publishers
      PROVE  /\ pub'[r] = [pc     |-> pub'[r].pc,   issuer |-> pub'[r].issuer,
                           root   |-> pub'[r].root, since  |-> pub'[r].since]
             /\ pub'[r].pc = "idle"
             /\ pub'[r].issuer = pub[r].issuer
             /\ pub'[r].since = 0
  BY DEF Crash, NewPub
<1>5. \A r \in Publishers :
        /\ pub'[r].pc \in PubRunning \cup PubAnswered
        /\ pub'[r].issuer \in Issuers
        /\ pub'[r].since \in 0..Capacity
  <2>1. 0 \in 0..Capacity
    BY CapacityType
  <2>2. \A r \in Publishers : pub[r].issuer \in Issuers
    BY DEF IInv, TypeOK
  <2> QED BY <1>4, <2>1, <2>2 DEF PubAnswered
<1>6. TypeOK'
  BY <1>1, <1>2, <1>3, <1>5 DEF IInv, TypeOK
<1>7. PubShape'
  BY <1>4 DEF PubShape
<1>8. PositionsContiguous'
  BY <1>1 DEF IInv, PositionsContiguous, LeafCount
<1>9. /\ CommitmentsParsed' /\ PositionsReserved'
      /\ UncommittedUnique' /\ AcknowledgedLeafDurable'
  BY <1>2 DEF CommitmentsParsed, AddRunning, PositionsReserved, UncommittedUnique,
              AcknowledgedLeafDurable
<1> QED BY <1>6, <1>7, <1>8, <1>9 DEF IInv

(* Every step preserves the invariant. *)
LEMMA NextIInv == IInv /\ [Next]_vars => IInv'
<1> SUFFICES ASSUME IInv, [Next]_vars PROVE IInv'
  OBVIOUS
<1> USE DEF dbVars
<1>1. ASSUME NEW r \in Adders, NEW i \in Issuers, NEW c \in Commitments \cup {Malformed},
             SendAddLeaf(r, i, c)
      PROVE  IInv'
  <2> DEFINE req == [pc         |-> IF c = Malformed THEN "badRequest" ELSE "ensure",
                     issuer     |-> i,
                     commitment |-> c,
                     position   |-> 0]
  <2>1. req \in AddRequests
    BY CapacityType DEF AddRequests, AddRunning, AddAnswered
  <2>2. /\ req.pc \notin {"ok", "insert", "commit"}
        /\ req.pc \in AddRunning => req.commitment \in Commitments
    BY DEF AddRunning
  <2>3. add' = [add EXCEPT ![r] = req]
    BY <1>1 DEF SendAddLeaf, NewAdd
  <2>4. UNCHANGED <<leafRows, publishedRoot, generatedNullifiers, pub>> /\ issuers' \subseteq Issuers
    BY <1>1 DEF SendAddLeaf, IInv, TypeOK
  <2> HIDE DEF req
  <2> QED BY <2>1, <2>2, <2>3, <2>4, RequestStep
<1>2. ASSUME NEW r \in Adders,
             AddEnsureIssuer(r) \/ BeginAndCount(r) \/ InsertRow(r)
               \/ AddFails(r) \/ AddCancelled(r)
      PROVE  IInv'
  <2>1. /\ add[r] \in AddRequests
        /\ add[r].pc \in AddRunning
        /\ add[r].commitment \in Commitments
        /\ add[r].issuer \in Issuers
        /\ add[r].position \in 0..Capacity
    BY <1>2 DEF AddEnsureIssuer, BeginAndCount, InsertRow, AddFails, AddCancelled,
                IInv, TypeOK, AddRequests, CommitmentsParsed, AddRunning
  <2>2. CASE AddEnsureIssuer(r)
    <3> DEFINE req == [add[r] EXCEPT !.pc = "count"]
    <3>1. /\ req \in AddRequests
          /\ req.pc = "count"
          /\ req.commitment \in Commitments
      BY <2>1 DEF AddRequests, AddRunning
    <3>2. add' = [add EXCEPT ![r] = req]
      BY <2>2 DEF AddEnsureIssuer, AddSteps, IInv, TypeOK
    <3>3. UNCHANGED <<leafRows, publishedRoot, generatedNullifiers, pub>> /\ issuers' \subseteq Issuers
      BY <2>1, <2>2 DEF AddEnsureIssuer, EnsureIssuer, IInv, TypeOK
    <3> HIDE DEF req
    <3> QED BY <3>1, <3>2, <3>3, RequestStep
  <2>3. CASE BeginAndCount(r)
    <3> DEFINE n == LeafCount(add[r].issuer)
               req == [add[r] EXCEPT !.pc = IF n >= Capacity THEN "full" ELSE "insert",
                                     !.position = n]
    <3>1. n \in Nat /\ n <= Capacity
      BY <2>1, PositionCountType DEF IInv, TypeOK, PositionsContiguous, LeafCount
    <3>2. /\ req \in AddRequests
          /\ req.pc = IF n >= Capacity THEN "full" ELSE "insert"
          /\ req.position = n
          /\ req.issuer = add[r].issuer
          /\ req.commitment \in Commitments
      <4>1. n \in 0..Capacity
        BY <3>1, CapacityType
      <4> HIDE DEF n
      <4> QED BY <2>1, <4>1 DEF AddRequests, AddRunning, AddAnswered
    <3>3. add' = [add EXCEPT ![r] = req]
      BY <2>1, <2>3 DEF BeginAndCount, NextPosition, TreeIsFull, IInv, TypeOK
    <3>4. UNCHANGED <<leafRows, publishedRoot, generatedNullifiers, pub>> /\ issuers' \subseteq Issuers
      BY <2>3 DEF BeginAndCount, IInv, TypeOK
    <3>5. req.pc \in {"insert", "commit"} =>
            req.position < Capacity /\ req.position <= LeafCount(req.issuer)
      BY <3>1, <3>2, CapacityType
    <3>6. req.pc \notin {"ok", "commit"}
      BY <3>2
    <3> HIDE DEF req
    <3> QED BY <3>2, <3>3, <3>4, <3>5, <3>6, RequestStep
  <2>4. CASE InsertRow(r)
    <3> DEFINE i == add[r].issuer
               p == add[r].position
               req == [add[r] EXCEPT !.pc = IF InsertRefused(i, p) THEN "error" ELSE "commit"]
    <3>1. /\ req \in AddRequests
          /\ req.pc = IF InsertRefused(i, p) THEN "error" ELSE "commit"
          /\ req.position = p
          /\ req.issuer = i
          /\ req.commitment \in Commitments
      BY <2>1 DEF AddRequests, AddRunning, AddAnswered
    <3>2. add' = [add EXCEPT ![r] = req]
      BY <2>4 DEF InsertRow, AddSteps, IInv, TypeOK
    <3>3. UNCHANGED <<leafRows, publishedRoot, generatedNullifiers, pub>> /\ issuers' \subseteq Issuers
      BY <2>4 DEF InsertRow, IInv, TypeOK
    <3>4. p < Capacity /\ p <= LeafCount(i)
      BY <2>4 DEF InsertRow, IInv, PositionsReserved
    <3>5. req.pc = "commit" =>
            /\ p \notin DOMAIN leafRows[i]
            /\ \A s \in Adders \ {r} :
                 add[s].pc = "commit" /\ add[s].issuer = i => add[s].position # p
      BY <2>4, <3>1 DEF InsertRow, InsertRefused, Uncommitted
    <3>6. req.pc # "ok"
      BY <3>1
    <3> HIDE DEF req
    <3> QED BY <3>1, <3>2, <3>3, <3>4, <3>5, <3>6, RequestStep
  <2>5. CASE AddFails(r) \/ AddCancelled(r)
    <3>1. PICK pc \in {"error", "idle"} : AddEnds(r, pc)
      BY <2>5 DEF AddFails, AddCancelled
    <3> DEFINE req == NewAdd(pc, add[r].issuer, add[r].commitment)
    <3>2. /\ req \in AddRequests
          /\ req.pc \in {"error", "idle"}
      BY <2>1, CapacityType DEF NewAdd, AddRequests, AddAnswered
    <3>3. add' = [add EXCEPT ![r] = req]
      BY <3>1 DEF AddEnds
    <3>4. UNCHANGED <<leafRows, publishedRoot, generatedNullifiers, pub>> /\ issuers' \subseteq Issuers
      BY <2>5 DEF AddFails, AddCancelled, IInv, TypeOK
    <3>5. req.pc \notin AddRunning \cup {"ok"}
      BY <3>2 DEF AddRunning
    <3>6. req.pc \notin {"insert", "commit"}
      BY <3>2
    <3> HIDE DEF req
    <3> QED BY <3>2, <3>3, <3>4, <3>5, <3>6, RequestStep
  <2> QED BY <1>2, <2>2, <2>3, <2>4, <2>5
<1>3. ASSUME NEW r \in Adders, CommitRow(r) \/ AddCancelledLate(r)
      PROVE  IInv'
  <2>1. /\ add[r] \in AddRequests
        /\ add[r].pc = "commit"
        /\ InsertLeaf(add[r].issuer, add[r].position, add[r].commitment)
        /\ UNCHANGED <<issuers, publishedRoot, generatedNullifiers, pub>>
    BY <1>3 DEF CommitRow, AddCancelledLate, IInv, TypeOK
  <2>2. CASE AddSteps(r, "ok")
    <3> DEFINE req == [add[r] EXCEPT !.pc = "ok"]
    <3>1. /\ req \in AddRequests
          /\ req.pc = "ok"
          /\ req.issuer = add[r].issuer
          /\ req.position = add[r].position
          /\ req.commitment = add[r].commitment
      BY <2>1 DEF AddRequests, AddAnswered
    <3>2. add' = [add EXCEPT ![r] = req]
      BY <2>2 DEF AddSteps
    <3> HIDE DEF req
    <3> QED BY <2>1, <3>1, <3>2, CommitStep
  <2>3. ASSUME NEW pc \in {"error", "idle"}, AddEnds(r, pc)
        PROVE  IInv'
    <3> DEFINE req == NewAdd(pc, add[r].issuer, add[r].commitment)
    <3>1. req \in AddRequests /\ req.pc \in {"error", "idle"}
      BY <2>1, CapacityType DEF NewAdd, AddRequests, AddAnswered
    <3>2. add' = [add EXCEPT ![r] = req]
      BY <2>3 DEF AddEnds
    <3> HIDE DEF req
    <3> QED BY <2>1, <3>1, <3>2, CommitStep
  <2> QED BY <1>3, <2>2, <2>3 DEF CommitRow, AddCancelledLate
<1>4. ASSUME NEW r \in Publishers, NEW i \in Issuers, SendPublish(r, i)
      PROVE  IInv'
  <2>1. LeafCount(i) \in 0..Capacity
    BY PositionCountType, CapacityType DEF IInv, TypeOK, PositionsContiguous, LeafCount
  <2> QED
    BY <1>4, <2>1, PublisherStep DEF SendPublish, NewPub, PubRunning, IInv, TypeOK
<1>5. ASSUME NEW r \in Publishers,
             ReadLeaves(r) \/ PubEnsureIssuer(r) \/ UpdateRoot(r)
               \/ PubFails(r) \/ PubCancelled(r)
      PROVE  IInv'
  <2> DEFINE i == pub[r].issuer
             since == pub[r].since
  <2>1. /\ i \in Issuers /\ since \in 0..Capacity
        /\ pub[r] = [pc |-> pub[r].pc, issuer |-> i, root |-> pub[r].root, since |-> since]
    BY DEF IInv, TypeOK, PubShape
  <2>2. PICK pc, root, n :
          /\ pc \in PubRunning \cup PubAnswered
          /\ n \in 0..Capacity
          /\ pub' = [pub EXCEPT ![r] = [pc |-> pc, issuer |-> i, root |-> root, since |-> n]]
    <3> DEFINE root0 == pub[r].root
               pc0 == pub[r].pc
    <3> HIDE DEF i, since, root0, pc0
    <3>0. pub[r] = [pc |-> pc0, issuer |-> i, root |-> root0, since |-> since]
      BY <2>1 DEF root0, pc0
    <3>1. ASSUME NEW pc, pub' = [pub EXCEPT ![r].pc = pc]
          PROVE  pub' = [pub EXCEPT ![r] = [pc |-> pc, issuer |-> i,
                                            root |-> root0, since |-> since]]
      <4>1. PICK new : new = [pub[r] EXCEPT !.pc = pc]
        OBVIOUS
      <4>2. new = [pc |-> pc, issuer |-> i, root |-> root0, since |-> since]
        BY <3>0, <4>1
      <4>3. pub' = [pub EXCEPT ![r] = new]
        BY <3>1, <4>1
      <4> QED BY <4>2, <4>3
    <3>2. CASE ReadLeaves(r)
      <4>0. PICK pc \in {"empty", "full", "ensure"} :
              \E root : pub' = [pub EXCEPT ![r].pc = pc, ![r].root = root]
        BY <3>2 DEF ReadLeaves
      <4>1. PICK root : pub' = [pub EXCEPT ![r].pc = pc, ![r].root = root]
        BY <4>0
      <4>2. PICK new : new = [pub[r] EXCEPT !.pc = pc, !.root = root]
        OBVIOUS
      <4>3. new = [pc |-> pc, issuer |-> i, root |-> root, since |-> since]
        <5>1. PICK req : req = pub[r]
          OBVIOUS
        <5>2. req = [pc |-> pc0, issuer |-> i, root |-> root0, since |-> since]
          BY <3>0, <5>1
        <5>3. new = [req EXCEPT !.pc = pc, !.root = root]
          BY <4>2, <5>1
        <5> QED BY <5>2, <5>3
      <4>4. pc \in PubRunning \cup PubAnswered
        BY <4>0 DEF PubRunning, PubAnswered
      <4>5. pub' = [pub EXCEPT ![r] = [pc |-> pc, issuer |-> i, root |-> root, since |-> since]]
        BY <4>1, <4>2, <4>3
      <4> QED BY <2>1, <4>4, <4>5 DEF since
    <3>3. ASSUME NEW pc \in {"update", "ok"}, PubSteps(r, pc)
          PROVE  \E p, root, n :
                   /\ p \in PubRunning \cup PubAnswered
                   /\ n \in 0..Capacity
                   /\ pub' = [pub EXCEPT ![r] = [pc |-> p, issuer |-> i, root |-> root, since |-> n]]
      <4>1. pc \in PubRunning \cup PubAnswered
        BY DEF PubRunning, PubAnswered
      <4>2. pub' = [pub EXCEPT ![r] = [pc |-> pc, issuer |-> i, root |-> root0, since |-> since]]
        BY <3>1, <3>3 DEF PubSteps
      <4>3. since \in 0..Capacity
        BY <2>1
      <4> QED BY <4>1, <4>2, <4>3
    <3>4. ASSUME NEW pc \in {"error", "idle"}, PubEnds(r, pc)
          PROVE  \E p, root, n :
                   /\ p \in PubRunning \cup PubAnswered
                   /\ n \in 0..Capacity
                   /\ pub' = [pub EXCEPT ![r] = [pc |-> p, issuer |-> i, root |-> root, since |-> n]]
      <4>1. pc \in PubRunning \cup PubAnswered /\ 0 \in 0..Capacity
        BY CapacityType DEF PubAnswered
      <4> QED BY <3>4, <4>1 DEF PubEnds, NewPub, i
    <3> QED BY <1>5, <3>2, <3>3, <3>4 DEF PubEnsureIssuer, UpdateRoot, PubFails, PubCancelled
  <2>3. UNCHANGED <<leafRows, generatedNullifiers, add>>
    BY <1>5 DEF ReadLeaves, PubEnsureIssuer, UpdateRoot, PubFails, PubCancelled
  <2>4. issuers' \subseteq Issuers /\ DOMAIN publishedRoot' = Issuers
    BY <1>5, <2>1
    DEF ReadLeaves, PubEnsureIssuer, UpdateRoot, PubFails, PubCancelled,
        EnsureIssuer, SetPublishedRoot, IInv, TypeOK
  <2> HIDE DEF i, since
  <2> QED BY <2>1, <2>2, <2>3, <2>4, PublisherStep
<1>6. CASE Crash
  BY <1>6, CrashStep
<1>7. CASE UNCHANGED vars
  BY <1>7
  DEF vars, apiVars, IInv, TypeOK, PubShape, PositionsContiguous, CommitmentsParsed,
      PositionsReserved, UncommittedUnique, AcknowledgedLeafDurable, LeafCount
<1> QED
  BY <1>1, <1>2, <1>3, <1>4, <1>5, <1>6, <1>7 DEF Next, Arrivals, RequestSteps, AddProceeds, PubProceeds

-----------------------------------------------------------------------------
(* The invariant holds in every behaviour. *)
LEMMA SpecIInv == Spec => []IInv
<1>1. Init => IInv
  BY InitIInv
<1>2. IInv /\ [Next]_vars => IInv'
  BY NextIInv
<1> QED BY <1>1, <1>2, PTL DEF Spec

(* Tables and requests always have their types, whatever requests race,    *)
(* fail, are cancelled or die with the process.                            *)
THEOREM TypeCorrect == Spec => []TypeOK
<1>1. IInv => TypeOK
  BY DEF IInv
<1> QED BY <1>1, SpecIInv, PTL

(* store.rs, add_leaf: COUNT, INSERT and the primary key together keep the *)
(* positions of every issuer gap-free and below the capacity.              *)
THEOREM PositionsAreContiguous == Spec => []PositionsContiguous
<1>1. IInv => PositionsContiguous
  BY DEF IInv
<1> QED BY <1>1, SpecIInv, PTL

(* A leaf that add_leaf acknowledged is stored where the answer says, and  *)
(* no two answers name the same position.                                  *)
THEOREM AcknowledgedLeavesAreDurable == Spec => []AcknowledgedLeafDurable
<1>1. IInv => AcknowledgedLeafDurable
  BY DEF IInv
<1> QED BY <1>1, SpecIInv, PTL

(* Nothing but a COMMIT touches the leaves. *)
LEMMA LeavesChangeOnCommit ==
  ASSUME IInv, [Next]_vars, leafRows' # leafRows
  PROVE  \E r \in Adders :
           /\ add[r].pc = "commit"
           /\ InsertLeaf(add[r].issuer, add[r].position, add[r].commitment)
           /\ UNCHANGED <<issuers, publishedRoot, generatedNullifiers, pub>>
BY DEF Next, Arrivals, RequestSteps, vars, apiVars, dbVars, AddProceeds, PubProceeds,
       SendAddLeaf, AddEnsureIssuer, BeginAndCount, InsertRow, CommitRow,
       AddFails, AddCancelled, AddCancelledLate,
       SendPublish, ReadLeaves, PubEnsureIssuer, UpdateRoot, PubFails, PubCancelled, Crash

(* A commit adds a row after the others, and every other step keeps them. *)
LEMMA StepKeepsRows ==
  ASSUME IInv, [Next]_vars
  PROVE  RowsKept
<1>1. CASE leafRows' = leafRows
  BY <1>1 DEF RowsKept
<1>2. CASE leafRows' # leafRows
  <2>1. PICK r \in Adders :
          /\ add[r].pc = "commit"
          /\ InsertLeaf(add[r].issuer, add[r].position, add[r].commitment)
    BY <1>2, LeavesChangeOnCommit
  <2>2. PICK i \in Issuers : i = add[r].issuer
    BY DEF IInv, TypeOK, AddRequests
  <2>3. PICK n \in Nat : n = LeafCount(i)
    BY <2>1, <2>2, CommittedRow
  <2>4. /\ DOMAIN leafRows[i] = 0..(n - 1)
        /\ DOMAIN leafRows'[i] = 0..n
        /\ \A p \in 0..(n - 1) : leafRows'[i][p] = leafRows[i][p]
        /\ \A j \in Issuers \ {i} : leafRows'[j] = leafRows[j]
    BY <2>1, <2>2, <2>3, CommittedRow
  <2> QED BY <2>4 DEF RowsKept
<1> QED BY <1>1, <1>2

(* Stored leaves are never changed, moved or removed. *)
THEOREM LeavesAreAppendOnly == Spec => LeavesAppendOnly
<1>1. IInv /\ [Next]_vars => RowsKept
  BY StepKeepsRows
<1>2. RowsKept => [\A i \in Issuers :
                     \A p \in DOMAIN leafRows[i] :
                       /\ p \in DOMAIN leafRows'[i]
                       /\ leafRows'[i][p] = leafRows[i][p]]_vars
  BY DEF RowsKept
<1> QED BY <1>1, <1>2, SpecIInv, PTL DEF Spec, LeavesAppendOnly

-----------------------------------------------------------------------------
(* Publish.  Its inductive invariant, on top of IInv. *)

(* A publish that has not read yet remembers a count of the past. *)
SinceStored ==
  \A r \in Publishers : pub[r].pc = "read" =>
    pub[r].since <= Counts[pub[r].issuer]

(* Afterwards its root is that of a tree its issuer has had, with every    *)
(* leaf that was stored when the request arrived.                          *)
RootOfPastTree(root, since, trees) ==
  \E tree \in trees : Len(tree) >= since /\ root = Root(tree)

RootsRead ==
  \A r \in Publishers : pub[r].pc \in {"ensure", "update", "ok"} =>
    RootOfPastTree(pub[r].root, pub[r].since, PastTrees[pub[r].issuer])

(* ensure_issuer comes first, and rows of issuers are never deleted. *)
IssuersExist ==
  /\ \A i \in Issuers : DOMAIN leafRows[i] # {} => i \in issuers
  /\ \A r \in Adders :
       add[r].pc \in {"count", "insert", "commit"} => add[r].issuer \in issuers

PInv ==
  /\ IInv
  /\ SinceStored
  /\ RootsRead
  /\ IssuersExist

LEMMA IInvRows == IInv => RowsContiguous
BY PositionCountType DEF IInv, TypeOK, PositionsContiguous, RowsContiguous, LeafCount

LEMMA InitPInv == Init => PInv
<1> SUFFICES ASSUME Init PROVE PInv
  OBVIOUS
<1>1. \A r \in Publishers : pub[r].pc = "idle"
  BY DEF Init, NewPub
<1>2. \A r \in Adders : add[r].pc = "idle"
  BY DEF Init, NewAdd
<1>3. IssuersExist
  BY <1>2 DEF Init, DbInit, IssuersExist
<1> QED BY <1>1, <1>3, InitIInv DEF PInv, SinceStored, RootsRead

-----------------------------------------------------------------------------
(* How one publish request can change in a step. *)

LEMMA OnlyPcChanges ==
  ASSUME IInv, NEW r \in Publishers, NEW pc,
         pub' = [pub EXCEPT ![r].pc = pc]
  PROVE  /\ pub'[r].pc = pc
         /\ pub'[r].issuer = pub[r].issuer
         /\ pub'[r].root = pub[r].root
         /\ pub'[r].since = pub[r].since
<1>1. PICK pc0, i, root, since :
        pub[r] = [pc |-> pc0, issuer |-> i, root |-> root, since |-> since]
  BY DEF IInv, PubShape
<1>2. pub'[r] = [pub[r] EXCEPT !.pc = pc]
  BY DEF IInv, TypeOK
<1>3. pub'[r] = [pc |-> pc, issuer |-> i, root |-> root, since |-> since]
  BY <1>1, <1>2
<1> QED BY <1>1, <1>3

LEMMA ReadLeavesChanges ==
  ASSUME IInv, NEW r \in Publishers, ReadLeaves(r)
  PROVE  LET leaves == Leaves(pub[r].issuer)
         IN  /\ pub[r].pc = "read"
             /\ \/ pub'[r].pc \in {"empty", "full"}
                \/ leaves # <<>> /\ pub'[r].pc = "ensure" /\ pub'[r].root = Root(leaves)
             /\ pub'[r].issuer = pub[r].issuer
             /\ pub'[r].since = pub[r].since
             /\ \A p \in Publishers \ {r} : pub'[p] = pub[p]
             /\ UNCHANGED <<dbVars, add>>
<1> DEFINE leaves == Leaves(pub[r].issuer)
<1>1. PICK pc0, i, root0, since :
        pub[r] = [pc |-> pc0, issuer |-> i, root |-> root0, since |-> since]
  BY DEF IInv, PubShape
<1>2. PICK pc, root :
        /\ \/ pc \in {"empty", "full"}
           \/ leaves # <<>> /\ pc = "ensure" /\ root = Root(leaves)
        /\ pub' = [pub EXCEPT ![r].pc = pc, ![r].root = root]
  <2>1. CASE leaves = <<>> \/ ~Fits(leaves)
    <3>1. PICK pc \in {"empty", "full"} :
            pub' = [pub EXCEPT ![r].pc = pc, ![r].root = NoRoot]
      BY <2>1 DEF ReadLeaves
    <3> QED BY <3>1
  <2>2. CASE leaves # <<>> /\ Fits(leaves)
    <3>1. pub' = [pub EXCEPT ![r].pc = "ensure", ![r].root = Root(leaves)]
      BY <2>2 DEF ReadLeaves
    <3> QED BY <2>2, <3>1
  <2> QED BY <2>1, <2>2
<1>3. pub'[r] = [pub[r] EXCEPT !.pc = pc, !.root = root]
  BY <1>2 DEF IInv, TypeOK
<1>4. pub'[r] = [pc |-> pc, issuer |-> i, root |-> root, since |-> since]
  <2>1. PICK old, new : old = pub[r] /\ new = pub'[r]
    OBVIOUS
  <2>2. old = [pc |-> pc0, issuer |-> i, root |-> root0, since |-> since]
    BY <1>1, <2>1
  <2>3. new = [old EXCEPT !.pc = pc, !.root = root]
    BY <1>3, <2>1
  <2>4. new = [pc |-> pc, issuer |-> i, root |-> root, since |-> since]
    BY <2>2, <2>3
  <2> QED BY <2>1, <2>4
<1>5. \A p \in Publishers \ {r} : pub'[p] = pub[p]
  BY <1>2 DEF IInv, TypeOK
<1>6. pub[r].pc = "read" /\ UNCHANGED <<dbVars, add>>
  BY DEF ReadLeaves
<1> HIDE DEF leaves
<1>7. \/ pub'[r].pc \in {"empty", "full"}
      \/ leaves # <<>> /\ pub'[r].pc = "ensure" /\ pub'[r].root = Root(leaves)
  BY <1>2, <1>4
<1>8. pub'[r].issuer = pub[r].issuer /\ pub'[r].since = pub[r].since
  BY <1>1, <1>4
<1> QED BY <1>5, <1>6, <1>7, <1>8 DEF leaves

(* A request that ends without a root keeps none. *)
LEMMA PublishEnds ==
  ASSUME IInv, NEW r \in Publishers, NEW p \in Publishers,
         NEW pc \in {"error", "idle"}, PubEnds(p, pc)
  PROVE  pub'[r] = pub[r] \/ pub'[r].pc \notin {"read", "ensure", "update", "ok"}
BY DEF PubEnds, NewPub, IInv, TypeOK

(* A request stays, ends without a root, arrives, reads, or goes on with   *)
(* the root it has read.                                                   *)
LEMMA PublishChanges ==
  ASSUME IInv, [Next]_vars, NEW r \in Publishers
  PROVE  \/ pub'[r] = pub[r]
         \/ pub'[r].pc \notin {"read", "ensure", "update", "ok"}
         \/ /\ pub'[r].pc = "read"
            /\ pub'[r].since = LeafCount(pub'[r].issuer)
            /\ leafRows' = leafRows
         \/ /\ pub[r].pc = "read" /\ pub'[r].pc = "ensure"
            /\ Leaves(pub[r].issuer) # <<>>
            /\ pub'[r].root = Root(Leaves(pub[r].issuer))
            /\ pub'[r].issuer = pub[r].issuer /\ pub'[r].since = pub[r].since
         \/ /\ pub[r].pc \in {"ensure", "update"} /\ pub'[r].pc \in {"update", "ok"}
            /\ pub'[r].issuer = pub[r].issuer /\ pub'[r].since = pub[r].since
            /\ pub'[r].root = pub[r].root
<1>1. ASSUME NEW p \in Publishers, NEW i \in Issuers, SendPublish(p, i)
      PROVE  \/ pub'[r] = pub[r]
             \/ /\ pub'[r].pc = "read"
                /\ pub'[r].since = LeafCount(pub'[r].issuer)
                /\ leafRows' = leafRows
  <2>1. leafRows' = leafRows /\ DOMAIN pub = Publishers
        /\ pub' = [pub EXCEPT ![p] = [pc |-> "read", issuer |-> i, root |-> NoRoot,
                                       since |-> LeafCount(i)]]
    BY <1>1 DEF SendPublish, NewPub, dbVars, IInv, TypeOK
  <2>2. CASE p = r
    <3>1. pub'[r] = [pc |-> "read", issuer |-> i, root |-> NoRoot, since |-> LeafCount(i)]
      BY <2>1, <2>2
    <3>2. pub'[r].issuer = i /\ pub'[r].since = LeafCount(i) /\ pub'[r].pc = "read"
      BY <3>1
    <3> QED BY <2>1, <3>2
  <2>3. CASE p # r
    BY <2>1, <2>3
  <2> QED BY <2>2, <2>3
<1>2. ASSUME NEW p \in Publishers, ReadLeaves(p)
      PROVE  \/ pub'[r] = pub[r]
             \/ pub'[r].pc \notin {"read", "ensure", "update", "ok"}
             \/ /\ pub[r].pc = "read" /\ pub'[r].pc = "ensure"
                /\ Leaves(pub[r].issuer) # <<>>
                /\ pub'[r].root = Root(Leaves(pub[r].issuer))
                /\ pub'[r].issuer = pub[r].issuer /\ pub'[r].since = pub[r].since
  BY <1>2, ReadLeavesChanges
<1>3. ASSUME NEW p \in Publishers, PubEnsureIssuer(p) \/ UpdateRoot(p)
      PROVE  \/ pub'[r] = pub[r]
             \/ pub'[r].pc \notin {"read", "ensure", "update", "ok"}
             \/ /\ pub[r].pc \in {"ensure", "update"} /\ pub'[r].pc \in {"update", "ok"}
                /\ pub'[r].issuer = pub[r].issuer /\ pub'[r].since = pub[r].since
                /\ pub'[r].root = pub[r].root
  <2>1. CASE PubEnds(p, "error")
    BY <2>1, PublishEnds
  <2>2. ASSUME NEW pc \in {"update", "ok"}, PubSteps(p, pc)
        PROVE  \/ pub'[r] = pub[r]
               \/ /\ pub[r].pc \in {"ensure", "update"} /\ pub'[r].pc \in {"update", "ok"}
                  /\ pub'[r].issuer = pub[r].issuer /\ pub'[r].since = pub[r].since
                  /\ pub'[r].root = pub[r].root
    <3>1. pub' = [pub EXCEPT ![p].pc = pc] /\ pub[p].pc \in {"ensure", "update"}
      BY <1>3, <2>2 DEF PubEnsureIssuer, UpdateRoot, PubSteps
    <3>2. CASE p = r
      BY <3>1, <3>2, OnlyPcChanges
    <3>3. CASE p # r
      BY <3>1, <3>3
    <3> QED BY <3>2, <3>3
  <2> QED BY <1>3, <2>1, <2>2 DEF PubEnsureIssuer, UpdateRoot
<1>4. ASSUME NEW p \in Publishers, PubFails(p) \/ PubCancelled(p)
      PROVE  pub'[r] = pub[r] \/ pub'[r].pc \notin {"read", "ensure", "update", "ok"}
  BY <1>4, PublishEnds DEF PubFails, PubCancelled
<1>5. CASE Crash
  <2>1. pub'[r].pc = "idle"
    BY <1>5 DEF Crash, NewPub
  <2> QED BY <2>1
<1>6. CASE UNCHANGED pub
  BY <1>6
<1>7. ASSUME NEW p \in Adders,
             \/ \E i \in Issuers, c \in Commitments \cup {Malformed} : SendAddLeaf(p, i, c)
             \/ AddProceeds(p) \/ AddFails(p) \/ AddCancelled(p) \/ AddCancelledLate(p)
      PROVE  UNCHANGED pub
  BY <1>7 DEF SendAddLeaf, AddProceeds, AddEnsureIssuer, BeginAndCount, InsertRow,
              CommitRow, AddFails, AddCancelled, AddCancelledLate
<1>8. CASE UNCHANGED vars
  BY <1>6, <1>8 DEF vars, apiVars
<1> QED
  BY <1>1, <1>2, <1>3, <1>4, <1>5, <1>6, <1>7, <1>8 DEF Next, Arrivals, RequestSteps, PubProceeds

(* How one add_leaf request can change in a step, and what it finds. *)
LEMMA AddChanges ==
  ASSUME IInv, IssuersExist, [Next]_vars, NEW r \in Adders,
         add'[r].pc \in {"count", "insert", "commit"}
  PROVE  add'[r].issuer \in issuers'
<1>1. issuers \subseteq issuers'
  BY DEF Next, Arrivals, RequestSteps, vars, apiVars, dbVars, AddProceeds, PubProceeds,
         SendAddLeaf, AddEnsureIssuer, BeginAndCount, InsertRow, CommitRow,
         AddFails, AddCancelled, AddCancelledLate, EnsureIssuer,
         SendPublish, ReadLeaves, PubEnsureIssuer, UpdateRoot, PubFails, PubCancelled, Crash
<1>2. DOMAIN add = Adders /\ \A p \in Adders : add[p] \in AddRequests
  BY DEF IInv, TypeOK
<1>3. CASE add'[r] = add[r]
  BY <1>1, <1>3 DEF IssuersExist
<1>4. ASSUME NEW i \in Issuers, NEW c \in Commitments \cup {Malformed},
             NEW p \in Adders, SendAddLeaf(p, i, c)
      PROVE  add'[r].issuer \in issuers'
  <2>1. add' = [add EXCEPT ![p] =
                  [pc         |-> IF c = Malformed THEN "badRequest" ELSE "ensure",
                   issuer     |-> i,
                   commitment |-> c,
                   position   |-> 0]]
    BY <1>4 DEF SendAddLeaf, NewAdd
  <2> QED BY <1>2, <1>3, <2>1
<1>5. ASSUME NEW p \in Adders, AddEnsureIssuer(p)
      PROVE  add'[r].issuer \in issuers'
  <2>1. /\ add' = [add EXCEPT ![p].pc = "count"]
        /\ issuers' = issuers \cup {add[p].issuer}
    BY <1>5 DEF AddEnsureIssuer, AddSteps, EnsureIssuer
  <2>2. CASE p = r
    BY <1>2, <2>1, <2>2 DEF AddRequests
  <2> QED BY <1>2, <1>3, <2>1, <2>2
<1>6. ASSUME NEW p \in Adders, BeginAndCount(p)
      PROVE  add'[r].issuer \in issuers'
  <2> DEFINE count == NextPosition(add[p].issuer)
             pc == IF TreeIsFull(count) THEN "full" ELSE "insert"
  <2>1. add' = [add EXCEPT ![p].pc = pc, ![p].position = count] /\ add[p].pc = "count"
    BY <1>6 DEF BeginAndCount
  <2> HIDE DEF count, pc
  <2>2. CASE p = r
    BY <1>1, <1>2, <2>1, <2>2 DEF AddRequests, IssuersExist
  <2> QED BY <1>2, <1>3, <2>1, <2>2
<1>7. ASSUME NEW p \in Adders, InsertRow(p)
      PROVE  add'[r].issuer \in issuers'
  <2>1. PICK pc : add' = [add EXCEPT ![p].pc = pc] /\ add[p].pc = "insert"
    BY <1>7 DEF InsertRow, AddSteps
  <2>2. CASE p = r
    BY <1>1, <1>2, <2>1, <2>2 DEF AddRequests, IssuersExist
  <2> QED BY <1>2, <1>3, <2>1, <2>2
<1>8. ASSUME NEW p \in Adders,
             CommitRow(p) \/ AddFails(p) \/ AddCancelled(p) \/ AddCancelledLate(p)
      PROVE  add'[r].issuer \in issuers'
  <2>1. CASE AddSteps(p, "ok")
    BY <1>2, <1>3, <2>1 DEF AddSteps, AddRequests
  <2>2. ASSUME NEW pc \in {"error", "idle"}, AddEnds(p, pc)
        PROVE  add'[r].issuer \in issuers'
    BY <1>2, <1>3, <2>2 DEF AddEnds, NewAdd
  <2> QED BY <1>8, <2>1, <2>2 DEF CommitRow, AddFails, AddCancelled, AddCancelledLate
<1>9. CASE Crash
  <2>1. add'[r].pc = "idle"
    BY <1>9 DEF Crash, NewAdd
  <2> QED BY <2>1
<1>10. CASE UNCHANGED add
  BY <1>3, <1>10
<1>11. ASSUME NEW p \in Publishers,
              \/ \E i \in Issuers : SendPublish(p, i)
              \/ PubProceeds(p) \/ PubFails(p) \/ PubCancelled(p)
       PROVE  UNCHANGED add
  BY <1>11 DEF SendPublish, PubProceeds, ReadLeaves, PubEnsureIssuer, UpdateRoot,
               PubFails, PubCancelled
<1>12. CASE UNCHANGED vars
  BY <1>10, <1>12 DEF vars, apiVars
<1> QED
  BY <1>4, <1>5, <1>6, <1>7, <1>8, <1>9, <1>10, <1>11, <1>12 DEF Next, Arrivals, RequestSteps, AddProceeds

(* Every step preserves the invariant. *)
LEMMA NextPInv == PInv /\ [Next]_vars => PInv'
<1> SUFFICES ASSUME PInv, [Next]_vars PROVE PInv'
  OBVIOUS
<1>1. IInv /\ IInv'
  BY NextIInv DEF PInv
<1>2. RowsContiguous /\ RowsContiguous'
  <2>1. IInv' => RowsContiguous'
    BY PositionCountType DEF IInv, TypeOK, PositionsContiguous, RowsContiguous, LeafCount
  <2> QED BY <1>1, <2>1, IInvRows
<1>3. RowsKept
  BY <1>1, StepKeepsRows
<1>4. /\ \A i \in Issuers : Counts[i] <= Counts'[i]
      /\ \A i \in Issuers : PastTrees[i] \subseteq PastTrees'[i]
  BY <1>2, <1>3, CountsGrow, PastTreesGrow
<1>5. \A i \in Issuers : Counts[i] \in Nat /\ Counts'[i] \in Nat
  BY <1>2 DEF RowsContiguous, Counts
<1>6. \A r \in Publishers : /\ pub[r].issuer \in Issuers /\ pub[r].since \in Nat
                            /\ pub'[r].issuer \in Issuers /\ pub'[r].since \in Nat
  BY <1>1, CapacityType DEF IInv, TypeOK
<1>7. SinceStored'
  <2> SUFFICES ASSUME NEW r \in Publishers, pub'[r].pc = "read"
               PROVE  pub'[r].since <= Counts'[pub'[r].issuer]
    BY DEF SinceStored
  <2>1. CASE pub'[r] = pub[r]
    <3>1. pub[r].since <= Counts[pub[r].issuer]
      BY <2>1 DEF PInv, SinceStored
    <3>2. Counts[pub[r].issuer] <= Counts'[pub[r].issuer]
      BY <1>4, <1>6
    <3> QED BY <1>5, <1>6, <2>1, <3>1, <3>2
  <2>2. CASE pub'[r].since = LeafCount(pub'[r].issuer) /\ leafRows' = leafRows
    <3>1. PICK i \in Issuers : i = pub'[r].issuer
      BY <1>6
    <3>2. Counts' = Counts
      BY <2>2 DEF Counts, LeafCount
    <3>3. pub'[r].since = Counts'[i]
      BY <2>2, <3>1, <3>2 DEF Counts
    <3> QED BY <1>5, <3>1, <3>3
  <2> QED BY <1>1, <2>1, <2>2, PublishChanges
<1>8. RootsRead'
  <2> SUFFICES ASSUME NEW r \in Publishers, pub'[r].pc \in {"ensure", "update", "ok"}
               PROVE  RootOfPastTree(pub'[r].root, pub'[r].since,
                                     PastTrees'[pub'[r].issuer])
    BY DEF RootsRead
  <2>1. PICK i \in Issuers : i = pub[r].issuer
    BY <1>6
  <2>2. PastTrees[i] \subseteq PastTrees'[i]
    BY <1>4
  <2>3. ASSUME pub[r].pc \in {"ensure", "update", "ok"},
               pub'[r].issuer = pub[r].issuer, pub'[r].since = pub[r].since,
               pub'[r].root = pub[r].root
        PROVE  RootOfPastTree(pub'[r].root, pub'[r].since, PastTrees'[pub'[r].issuer])
    <3>1. RootOfPastTree(pub[r].root, pub[r].since, PastTrees[i])
      BY <2>1, <2>3 DEF PInv, RootsRead
    <3> QED BY <2>1, <2>2, <2>3, <3>1 DEF RootOfPastTree
  <2>4. ASSUME pub[r].pc = "read", Leaves(i) # <<>>,
               pub'[r].root = Root(Leaves(i)),
               pub'[r].issuer = i, pub'[r].since = pub[r].since
        PROVE  RootOfPastTree(pub'[r].root, pub'[r].since, PastTrees'[pub'[r].issuer])
    <3>1. Leaves(i) \in PastTrees'[i]
      BY <1>2, <2>2, <2>4, CurrentTreeIsPast
    <3>2. pub[r].since <= Counts[i]
      BY <2>1, <2>4 DEF PInv, SinceStored
    <3>3. Len(Leaves(i)) = Counts[i]
      <4>1. Leaves(i) = [k \in 1..LeafCount(i) |-> leafRows[i][k - 1]]
        BY <1>2, LeavesByPosition DEF LeavesSorted
      <4>2. LeafCount(i) \in Nat /\ Counts[i] = LeafCount(i)
        BY <1>2 DEF RowsContiguous, Counts
      <4> QED BY <4>1, <4>2
    <3>4. Len(Leaves(i)) >= pub'[r].since
      BY <1>5, <1>6, <2>4, <3>2, <3>3
    <3> QED BY <2>4, <3>1, <3>4 DEF RootOfPastTree
  <2> QED BY <1>1, <2>1, <2>3, <2>4, PublishChanges
<1>9. IssuersExist'
  <2>1. \A r \in Adders : add'[r].pc \in {"count", "insert", "commit"}
          => add'[r].issuer \in issuers'
    BY <1>1, AddChanges DEF PInv
  <2>2. \A i \in Issuers : DOMAIN leafRows'[i] # {} => i \in issuers'
    <3>1. CASE leafRows' = leafRows
      <4>1. issuers \subseteq issuers'
        BY DEF Next, Arrivals, RequestSteps, vars, apiVars, dbVars, AddProceeds, PubProceeds,
               SendAddLeaf, AddEnsureIssuer, BeginAndCount, InsertRow, CommitRow,
               AddFails, AddCancelled, AddCancelledLate, EnsureIssuer,
               SendPublish, ReadLeaves, PubEnsureIssuer, UpdateRoot, PubFails,
               PubCancelled, Crash
      <4> QED BY <3>1, <4>1 DEF PInv, IssuersExist
    <3>2. CASE leafRows' # leafRows
      <4>1. PICK r \in Adders :
              /\ add[r].pc = "commit"
              /\ InsertLeaf(add[r].issuer, add[r].position, add[r].commitment)
              /\ issuers' = issuers
        BY <1>1, <3>2, LeavesChangeOnCommit
      <4>2. add[r].issuer \in issuers
        BY <4>1 DEF PInv, IssuersExist
      <4>3. \A i \in Issuers : i # add[r].issuer => leafRows'[i] = leafRows[i]
        BY <1>1, <4>1 DEF InsertLeaf, IInv, TypeOK
      <4> QED BY <4>1, <4>2, <4>3 DEF PInv, IssuersExist
    <3> QED BY <3>1, <3>2
  <2> QED BY <2>1, <2>2 DEF IssuersExist
<1> QED BY <1>1, <1>7, <1>8, <1>9 DEF PInv

(* The invariant holds in every behaviour. *)
LEMMA SpecPInv == Spec => []PInv
<1>1. Init => PInv
  BY InitPInv
<1>2. PInv /\ [Next]_vars => PInv'
  BY NextPInv
<1> QED BY <1>1, <1>2, PTL DEF Spec

-----------------------------------------------------------------------------
(* What the invariant says of a publish that has read its tree. *)
LEMMA InvariantCovers == PInv => PublishCoversEarlierLeaves
<1> SUFFICES ASSUME PInv, NEW r \in Publishers, pub[r].pc \in {"ensure", "update", "ok"}
             PROVE  \E n \in pub[r].since..LeafCount(pub[r].issuer) :
                      /\ n > 0
                      /\ pub[r].root = Root(SubSeq(Leaves(pub[r].issuer), 1, n))
  BY DEF PublishCoversEarlierLeaves
<1> DEFINE i == pub[r].issuer
           since == pub[r].since
<1>1. i \in Issuers /\ since \in Nat
  BY CapacityType DEF PInv, IInv, TypeOK
<1>2. RowsContiguous
  BY IInvRows DEF PInv
<1>3. /\ LeafCount(i) \in Nat
      /\ Leaves(i) = [k \in 1..LeafCount(i) |-> leafRows[i][k - 1]]
  BY <1>1, <1>2, LeavesByPosition DEF RowsContiguous, LeavesSorted
<1>4. PICK n \in 1..LeafCount(i) :
        /\ Len(SubSeq(Leaves(i), 1, n)) >= since
        /\ pub[r].root = Root(SubSeq(Leaves(i), 1, n))
  BY <1>1 DEF PInv, RootsRead, RootOfPastTree, PastTrees
<1> HIDE DEF i, since
<1>5. Len(SubSeq(Leaves(i), 1, n)) = n
  BY <1>3
<1>6. n \in since..LeafCount(i) /\ n > 0
  BY <1>1, <1>3, <1>4, <1>5
<1> QED BY <1>4, <1>6 DEF i, since

(* What the invariant says of the statements that name an issuer. *)
LEMMA InvariantFindsIssuers == PInv => StatementsFindTheirIssuer
<1> SUFFICES ASSUME PInv PROVE StatementsFindTheirIssuer
  OBVIOUS
<1>1. ASSUME NEW r \in Publishers, pub[r].pc \in {"ensure", "update"}
      PROVE  pub[r].issuer \in issuers
  <2>1. PICK i \in Issuers : i = pub[r].issuer
    BY DEF PInv, IInv, TypeOK
  <2>2. PastTrees[i] # {}
    BY <1>1, <2>1 DEF PInv, RootsRead, RootOfPastTree
  <2>3. LeafCount(i) # 0
    BY <2>2 DEF PastTrees
  <2>4. DOMAIN leafRows[i] # {}
    BY <2>3, FS_EmptySet DEF LeafCount
  <2> QED BY <2>1, <2>4 DEF PInv, IssuersExist
<1> QED BY <1>1 DEF StatementsFindTheirIssuer, PInv, IssuersExist

(* The root a publish persists and answers is that of a prefix of the      *)
(* stored leaves with every leaf stored when the request arrived.          *)
THEOREM PublishesCoverEarlierLeaves == Spec => []PublishCoversEarlierLeaves
BY InvariantCovers, SpecPInv, PTL

(* No INSERT and no UPDATE ever misses its issuer's row.                   *)
THEOREM IssuersAreFound == Spec => []StatementsFindTheirIssuer
BY InvariantFindsIssuers, SpecPInv, PTL

-----------------------------------------------------------------------------
(* The refinement. *)

(* The abstract root is the concrete one: both modules extend Merkle. *)
LEMMA SameRoot ==
  ASSUME NEW leaves
  PROVE  Tree!Root(leaves) = Root(leaves)
BY DEF Tree!Root, Root, Tree!Levels, Levels, Tree!Parents, Parents,
       Tree!Padded, Padded, Tree!Hash2, Hash2, Tree!Capacity, Capacity

Trees == [i \in Issuers |-> Leaves(i)]

LEMMA InitRefines == Init => Tree!Init
<1> SUFFICES ASSUME Init PROVE Tree!Init
  OBVIOUS
<1>1. \A i \in Issuers : Leaves(i) = <<>>
  <2>1. \A i \in Issuers : LeafCount(i) = 0
    BY FS_EmptySet DEF Init, DbInit, LeafCount
  <2> QED BY <2>1 DEF Leaves
<1> QED BY <1>1 DEF Init, DbInit, Tree!Init

(* Without a commit the trees stay; with one, one tree has one leaf more.  *)
LEMMA TreesChange ==
  ASSUME PInv, [Next]_vars
  PROVE  \/ Trees' = Trees
         \/ /\ UNCHANGED <<issuers, publishedRoot>>
            /\ \E i \in issuers, c \in Commitments :
                 /\ Len(Trees[i]) < Capacity
                 /\ Trees' = [Trees EXCEPT ![i] = Append(@, c)]
<1>1. CASE leafRows' = leafRows
  BY <1>1 DEF Trees, Leaves, LeafCount, Rank
<1>2. CASE leafRows' # leafRows
  <2>1. PICK r \in Adders :
          /\ add[r].pc = "commit"
          /\ InsertLeaf(add[r].issuer, add[r].position, add[r].commitment)
          /\ UNCHANGED <<issuers, publishedRoot>>
    BY <1>2, LeavesChangeOnCommit DEF PInv
  <2>2. PICK i \in Issuers : i = add[r].issuer
    BY DEF PInv, IInv, TypeOK, AddRequests
  <2>3. PICK c \in Commitments : c = add[r].commitment
    BY <2>1 DEF PInv, IInv, CommitmentsParsed, AddRunning
  <2>4. PICK n \in Nat : n = LeafCount(i)
    BY <2>1, <2>2, CommittedRow DEF PInv
  <2>5. /\ n < Capacity
        /\ LeafCount(i)' = n + 1
        /\ \A p \in 0..(n - 1) : leafRows'[i][p] = leafRows[i][p]
        /\ leafRows'[i][n] = c
        /\ \A j \in Issuers \ {i} : leafRows'[j] = leafRows[j]
    BY <2>1, <2>2, <2>3, <2>4, CommittedRow DEF PInv
  <2>6. i \in issuers
    BY <2>1, <2>2 DEF PInv, IssuersExist
  <2>7. RowsContiguous /\ RowsContiguous'
    <3>1. IInv'
      BY NextIInv DEF PInv
    <3>2. RowsContiguous'
      BY <3>1, PositionCountType
      DEF IInv, TypeOK, PositionsContiguous, RowsContiguous, LeafCount
    <3> QED BY <3>2, IInvRows DEF PInv
  <2>8. Leaves(i) = [k \in 1..n |-> leafRows[i][k - 1]]
    BY <2>4, <2>7, LeavesByPosition DEF LeavesSorted
  <2>9. Leaves(i)' = [k \in 1..(n + 1) |-> leafRows'[i][k - 1]]
    BY <2>5, <2>7, LeavesByPositionNext DEF LeavesSorted
  <2>10. Leaves(i)' = Append(Leaves(i), c)
    <3> DEFINE more == [k \in 1..(n + 1) |-> leafRows'[i][k - 1]]
               less == [k \in 1..n |-> leafRows[i][k - 1]]
    <3>1. Append(less, c) = [k \in 1..(n + 1) |-> IF k = n + 1 THEN c ELSE less[k]]
      OBVIOUS
    <3>2. ASSUME NEW k \in 1..(n + 1)
          PROVE  more[k] = IF k = n + 1 THEN c ELSE less[k]
      <4>1. CASE k = n + 1
        BY <2>5, <4>1
      <4>2. CASE k # n + 1
        <5>1. k \in 1..n /\ k - 1 \in 0..(n - 1)
          BY <4>2
        <5> QED BY <2>5, <4>2, <5>1
      <4> QED BY <4>1, <4>2
    <3>3. more = Append(less, c)
      BY <3>1, <3>2
    <3> QED BY <2>8, <2>9, <3>3
  <2>11. \A j \in Issuers \ {i} : Leaves(j)' = Leaves(j)
    <3> SUFFICES ASSUME NEW j \in Issuers \ {i} PROVE Leaves(j)' = Leaves(j)
      OBVIOUS
    <3>1. LeafCount(j)' = LeafCount(j)
      BY <2>5 DEF LeafCount
    <3>2. /\ Leaves(j) = [k \in 1..LeafCount(j) |-> leafRows[j][k - 1]]
          /\ Leaves(j)' = [k \in 1..LeafCount(j)' |-> leafRows'[j][k - 1]]
      BY <2>7, LeavesByPosition, LeavesByPositionNext DEF LeavesSorted
    <3> QED BY <2>5, <3>1, <3>2
  <2>12. Trees' = [Trees EXCEPT ![i] = Append(@, c)]
    BY <2>10, <2>11 DEF Trees
  <2>13. Len(Trees[i]) < Capacity
    <3>1. Len(Leaves(i)) = n
      BY <2>8
    <3> QED BY <2>5, <3>1 DEF Trees
  <2> QED BY <2>1, <2>6, <2>12, <2>13
<1> QED BY <1>1, <1>2

(* The published root changes only in UpdateRoot, the issuers only in      *)
(* ensure_issuer.                                                          *)
LEMMA RootsAndIssuersChange ==
  ASSUME PInv, [Next]_vars, Trees' = Trees
  PROVE  \/ UNCHANGED <<issuers, publishedRoot>>
         \/ \E i \in Issuers : issuers' = issuers \cup {i} /\ UNCHANGED publishedRoot
         \/ \E i \in issuers : \E n \in 1..Len(Trees[i]) :
              /\ publishedRoot' = [publishedRoot EXCEPT ![i] = Root(SubSeq(Trees[i], 1, n))]
              /\ UNCHANGED issuers
<1>1. ASSUME NEW r \in Adders, AddEnsureIssuer(r)
      PROVE  \E i \in Issuers : issuers' = issuers \cup {i} /\ UNCHANGED publishedRoot
  BY <1>1 DEF AddEnsureIssuer, EnsureIssuer, PInv, IInv, TypeOK, AddRequests
<1>2. ASSUME NEW r \in Publishers, PubEnsureIssuer(r)
      PROVE  \E i \in Issuers : issuers' = issuers \cup {i} /\ UNCHANGED publishedRoot
  BY <1>2 DEF PubEnsureIssuer, EnsureIssuer, PInv, IInv, TypeOK
<1>3. ASSUME NEW r \in Publishers, UpdateRoot(r)
      PROVE  \E i \in issuers : \E n \in 1..Len(Trees[i]) :
               /\ publishedRoot' = [publishedRoot EXCEPT ![i] = Root(SubSeq(Trees[i], 1, n))]
               /\ UNCHANGED issuers
  <2>1. PICK i \in Issuers : i = pub[r].issuer
    BY DEF PInv, IInv, TypeOK
  <2>2. RootOfPastTree(pub[r].root, pub[r].since, PastTrees[i])
    BY <1>3, <2>1 DEF UpdateRoot, PInv, RootsRead
  <2>3. PICK n \in 1..LeafCount(i) : pub[r].root = Root(SubSeq(Leaves(i), 1, n))
    BY <2>2 DEF RootOfPastTree, PastTrees
  <2>4. Len(Trees[i]) = LeafCount(i)
    <3>1. RowsContiguous
      BY IInvRows DEF PInv
    <3>2. /\ LeafCount(i) \in Nat
          /\ Leaves(i) = [k \in 1..LeafCount(i) |-> leafRows[i][k - 1]]
      BY <3>1, LeavesByPosition DEF RowsContiguous, LeavesSorted
    <3> QED BY <3>2 DEF Trees
  <2>5. UNCHANGED issuers /\ SetPublishedRoot(i, pub[r].root)
    BY <1>3, <2>1 DEF UpdateRoot
  <2>6. i \in issuers
    <3>1. DOMAIN leafRows[i] # {}
      BY <2>3, FS_EmptySet DEF LeafCount
    <3> QED BY <3>1 DEF PInv, IssuersExist
  <2>7. publishedRoot' = [publishedRoot EXCEPT ![i] = pub[r].root]
    BY <2>5, <2>6 DEF SetPublishedRoot
  <2>8. Trees[i] = Leaves(i) /\ n \in 1..Len(Trees[i])
    BY <2>4 DEF Trees
  <2>9. pub[r].root = Root(SubSeq(Trees[i], 1, n))
    BY <2>3, <2>8
  <2>10. publishedRoot' = [publishedRoot EXCEPT ![i] = Root(SubSeq(Trees[i], 1, n))]
    BY <2>7, <2>9
  <2> QED BY <2>5, <2>6, <2>8, <2>10
<1> QED
  BY <1>1, <1>2, <1>3
  DEF Next, Arrivals, RequestSteps, vars, apiVars, dbVars, AddProceeds, PubProceeds,
      SendAddLeaf, BeginAndCount, InsertRow, CommitRow, AddFails, AddCancelled,
      AddCancelledLate, SendPublish, ReadLeaves, PubFails, PubCancelled, Crash

(* Every step is one of CredentialTree's, or changes nothing it can see. *)
LEMMA StepRefines == PInv /\ [Next]_vars => [Tree!Next]_(Tree!vars)
<1> SUFFICES ASSUME PInv, [Next]_vars PROVE [Tree!Next]_(Tree!vars)
  OBVIOUS
<1>1. Tree!vars = <<issuers, Trees, publishedRoot>>
  BY DEF Tree!vars, Trees
<1>2. Tree!vars' = <<issuers', Trees', publishedRoot'>>
  BY DEF Tree!vars, Trees
<1>3. CASE Trees' # Trees
  <2>1. PICK i \in issuers, c \in Commitments :
          /\ Len(Trees[i]) < Capacity
          /\ Trees' = [Trees EXCEPT ![i] = Append(@, c)]
          /\ UNCHANGED <<issuers, publishedRoot>>
    BY <1>3, TreesChange
  <2>2. i \in Issuers
    BY DEF PInv, IInv, TypeOK
  <2>3. Tree!Capacity = Capacity
    BY DEF Tree!Capacity, Capacity
  <2>4. Tree!AddLeaf(i, c)
    BY <2>1, <2>3 DEF Tree!AddLeaf, Trees
  <2> QED BY <2>2, <2>4 DEF Tree!Next
<1>4. CASE Trees' = Trees /\ UNCHANGED <<issuers, publishedRoot>>
  BY <1>1, <1>2, <1>4
<1>5. ASSUME Trees' = Trees, NEW i \in Issuers,
             issuers' = issuers \cup {i}, UNCHANGED publishedRoot
      PROVE  [Tree!Next]_(Tree!vars)
  <2>1. CASE i \in issuers
    <3>1. issuers' = issuers
      BY <1>5, <2>1
    <3> QED BY <1>1, <1>2, <1>5, <3>1
  <2>2. CASE i \notin issuers
    <3>1. Tree!CreateIssuer(i)
      BY <1>5, <2>2 DEF Tree!CreateIssuer, Trees
    <3> QED BY <3>1 DEF Tree!Next
  <2> QED BY <2>1, <2>2
<1>6. ASSUME Trees' = Trees, NEW i \in issuers, NEW n \in 1..Len(Trees[i]),
             publishedRoot' = [publishedRoot EXCEPT ![i] = Root(SubSeq(Trees[i], 1, n))],
             UNCHANGED issuers
      PROVE  [Tree!Next]_(Tree!vars)
  <2>1. i \in Issuers
    BY DEF PInv, IInv, TypeOK
  <2>2. Tree!Root(SubSeq(Trees[i], 1, n)) = Root(SubSeq(Trees[i], 1, n))
    BY SameRoot
  <2>3. Tree!Publish(i, n)
    BY <1>6, <2>2 DEF Tree!Publish, Trees
  <2>4. n \in 1..Len([j \in Issuers |-> Leaves(j)][i])
    BY <1>6 DEF Trees
  <2> QED BY <2>1, <2>3, <2>4 DEF Tree!Next
<1> QED BY <1>3, <1>4, <1>5, <1>6, RootsAndIssuersChange

(* Behind all requests, transactions and crashes the tables are            *)
(* append-only leaf sequences and roots of their prefixes.                 *)
THEOREM ImplementsTree == Spec => ImplementsCredentialTree
<1>1. Init => Tree!Init
  BY InitRefines
<1>2. PInv /\ [Next]_vars => [Tree!Next]_(Tree!vars)
  BY StepRefines
<1> QED BY <1>1, <1>2, SpecPInv, PTL DEF Spec, ImplementsCredentialTree, Tree!Spec
=============================================================================

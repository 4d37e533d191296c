---------------------------- MODULE HolderApiProofs ----------------------------
(***************************************************************************)
(* Proofs about HolderApi, for every number of concurrent prove requests,  *)
(* every proof budget, every tree depth and every pair of key files.       *)
(***************************************************************************)
EXTENDS HolderApi, DatabaseProofs

-----------------------------------------------------------------------------
(* The inductive invariant.  A proof is about what its request read        *)
(* earlier, so the invariant speaks of the trees an issuer has had         *)
(* (PastTrees), a set that only grows.                                     *)

(* The requests are records; TypeOK leaves the tree and the proof untyped. *)
ProveShape ==
  \A r \in Provers :
    prove[r] = [pc      |-> prove[r].pc,      issuer |-> prove[r].issuer,
                secret  |-> prove[r].secret,  address |-> prove[r].address,
                leaves  |-> prove[r].leaves,  proof  |-> prove[r].proof]

TablesOK ==
  /\ DOMAIN leafRows = Issuers
  /\ RowsContiguous
  /\ \A i \in Issuers : LeafCount(i) <= Capacity

PermitsHeld ==
  /\ permits \in Nat
  /\ IsFiniteSet(Running)
  /\ PermitsConserved

(* The tree a request carries is one its issuer has had. *)
TreesRead ==
  \A r \in Provers : prove[r].pc \in {"readRoot", "proving"} =>
    prove[r].leaves \in PastTrees[prove[r].issuer]

(* A proof that verifies for the request's holder, of membership in one of *)
(* `trees`.                                                                *)
SoundProof(vk, trees, secret, address, proof) ==
  LET inputs == [root      |-> proof.inputs.root,
                 nullifier |-> Nullifier(secret),
                 addr      |-> AddressField(address)]
  IN  /\ Groth16Verify(vk, inputs, proof)
      /\ \E tree \in trees : inputs.root = Root(tree) /\ IsMember(tree, secret)

ProofsSound ==
  \A r \in Provers : prove[r].pc \in {"record", "ok"} =>
    SoundProof(keys.vk, PastTrees[prove[r].issuer],
               prove[r].secret, prove[r].address, prove[r].proof)

IInv ==
  /\ TypeOK
  /\ ProveShape
  /\ TablesOK
  /\ PermitsHeld
  /\ TreesRead
  /\ ProofsSound

-----------------------------------------------------------------------------
(* The initial states satisfy it. *)
LEMMA InitIInv == Init => IInv
<1> SUFFICES ASSUME Init PROVE IInv
  OBVIOUS
<1>1. \A r \in Provers :
        /\ prove[r].pc = "idle"
        /\ prove[r].issuer \in Issuers /\ prove[r].secret \in Secrets
        /\ prove[r].address \in Addresses
  BY DEF Init, NewRequest
<1>2. TypeOK
  BY <1>1, BudgetAssumption, DetachedAssumption
  DEF Init, DbInit, TypeOK, ProveAnswered
<1>3. ProveShape
  BY DEF Init, ProveShape, NewRequest
<1>4. TablesOK
  <2>1. \A i \in Issuers : LeafCount(i) = 0
    BY FS_EmptySet DEF Init, DbInit, LeafCount
  <2> QED BY <2>1, CapacityType DEF Init, DbInit, TablesOK, RowsContiguous
<1>5. PermitsHeld
  <2>1. Running = {}
    BY <1>1 DEF Running, ProveRunning
  <2> QED
    BY <2>1, FS_EmptySet, BudgetAssumption DEF Init, PermitsHeld, PermitsConserved
<1>6. TreesRead /\ ProofsSound
  BY <1>1 DEF TreesRead, ProofsSound
<1> QED BY <1>2, <1>3, <1>4, <1>5, <1>6 DEF IInv

-----------------------------------------------------------------------------
(* A request takes a permit when it starts running, gives it back when it  *)
(* stops, and keeps it in between.                                         *)
PermitsFollow(r) ==
  \/ /\ r \in Running <=> r \in Running'
     /\ permits' = permits
  \/ /\ r \notin Running /\ r \in Running'
     /\ permits > 0 /\ permits' = permits - 1
  \/ /\ r \in Running /\ r \notin Running'
     /\ permits' = permits + 1

LEMMA PermitsStep ==
  ASSUME PermitsHeld, NEW r \in Provers,
         \A s \in Provers \ {r} : prove'[s].pc = prove[s].pc,
         PermitsFollow(r)
  PROVE  PermitsHeld'
<1> DEFINE now == Running
           then == Running'
<1>1. IsFiniteSet(now) /\ Cardinality(now) \in Nat /\ permits \in Nat
      /\ permits + Cardinality(now) = ProofBudget
  BY FS_CardinalityType DEF PermitsHeld, PermitsConserved
<1>2. \A s \in Provers \ {r} : s \in now <=> s \in then
  BY DEF Running
<1>3. now \subseteq Provers /\ then \subseteq Provers
  BY DEF Running
<1>4. SUFFICES permits' \in Nat /\ IsFiniteSet(then)
               /\ permits' + Cardinality(then) = ProofBudget
  BY DEF PermitsHeld, PermitsConserved
<1> HIDE DEF now, then
<1>5. CASE (r \in now <=> r \in then) /\ permits' = permits
  <2>1. then = now
    BY <1>2, <1>3, <1>5
  <2> QED BY <1>1, <1>5, <2>1
<1>6. CASE r \notin now /\ r \in then /\ permits > 0 /\ permits' = permits - 1
  <2>1. then = now \cup {r}
    BY <1>2, <1>3, <1>6
  <2>2. IsFiniteSet(then) /\ Cardinality(then) = Cardinality(now) + 1
    BY <1>1, <1>6, <2>1, FS_AddElement
  <2> QED BY <1>1, <1>6, <2>2
<1>7. CASE r \in now /\ r \notin then /\ permits' = permits + 1
  <2>1. then = now \ {r}
    BY <1>2, <1>3, <1>7
  <2>2. IsFiniteSet(then) /\ Cardinality(then) = Cardinality(now) - 1
    BY <1>1, <1>7, <2>1, FS_RemoveElement
  <2> QED BY <1>1, <1>7, <2>2
<1> QED BY <1>5, <1>6, <1>7 DEF PermitsFollow, now, then

-----------------------------------------------------------------------------
(* One request moves on: what the invariant asks of its new state.         *)
Becomes(r, pc, i, s, a, leaves, proof) ==
  prove' = [prove EXCEPT ![r] =
              [pc |-> pc, issuer |-> i, secret |-> s, address |-> a,
               leaves |-> leaves, proof |-> proof]]

PermitMoves(was, is) ==
  \/ (was \in ProveRunning <=> is \in ProveRunning) /\ permits' = permits
  \/ /\ was \notin ProveRunning /\ is \in ProveRunning
     /\ permits > 0 /\ permits' = permits - 1
  \/ /\ was \in ProveRunning /\ is \notin ProveRunning
     /\ permits' = permits + 1

OthersUnchanged ==
  /\ leafRows' = leafRows
  /\ keys' = keys
  /\ detached' \in 0..MaxDetached
  /\ generatedNullifiers' \subseteq Issuers \X Nullifiers

LEMMA RequestStep ==
  ASSUME IInv, NEW r \in Provers,
         NEW pc \in ProveRunning \cup ProveAnswered,
         NEW i \in Issuers, NEW s \in Secrets, NEW a \in Addresses,
         NEW leaves, NEW proof,
         Becomes(r, pc, i, s, a, leaves, proof),
         PermitMoves(prove[r].pc, pc),
         OthersUnchanged,
         pc \in {"readRoot", "proving"} => leaves \in PastTrees[i],
         pc \in {"record", "ok"} => SoundProof(keys.vk, PastTrees[i], s, a, proof)
  PROVE  IInv'
<1> DEFINE req == [pc |-> pc, issuer |-> i, secret |-> s, address |-> a,
                   leaves |-> leaves, proof |-> proof]
<1>1. /\ req.pc = pc /\ req.issuer = i /\ req.secret = s /\ req.address = a
      /\ req.leaves = leaves /\ req.proof = proof
  OBVIOUS
<1>2. /\ prove'[r] = req
      /\ \A q \in Provers \ {r} : prove'[q] = prove[q]
      /\ DOMAIN prove' = Provers
  BY DEF IInv, TypeOK, Becomes
<1>3. PastTrees' = PastTrees /\ TablesOK'
  BY DEF OthersUnchanged, IInv, TablesOK, RowsContiguous, PastTrees, Leaves, LeafCount, Rank
<1>4. ProveShape'
  <2> SUFFICES ASSUME NEW q \in Provers
               PROVE  prove'[q] = [pc      |-> prove'[q].pc,      issuer  |-> prove'[q].issuer,
                                   secret  |-> prove'[q].secret,  address |-> prove'[q].address,
                                   leaves  |-> prove'[q].leaves,  proof   |-> prove'[q].proof]
    BY DEF ProveShape
  <2>1. CASE q = r
    BY <1>1, <1>2, <2>1
  <2>2. CASE q # r
    BY <1>2, <2>2 DEF IInv, ProveShape
  <2> QED BY <2>1, <2>2
<1> HIDE DEF req
<1>5. PermitsHeld'
  <2>1. PermitsFollow(r)
    BY <1>1, <1>2 DEF PermitMoves, PermitsFollow, Running
  <2> QED BY <1>2, <2>1, PermitsStep DEF IInv
<1>6. TypeOK'
  <2>1. permits' \in 0..ProofBudget
    BY <1>5, FS_CardinalityType, BudgetAssumption DEF PermitsHeld, PermitsConserved
  <2> QED BY <1>1, <1>2, <2>1 DEF OthersUnchanged, IInv, TypeOK
<1>7. TreesRead'
  BY <1>1, <1>2, <1>3 DEF IInv, TreesRead
<1>8. ProofsSound'
  BY <1>1, <1>2, <1>3 DEF OthersUnchanged, IInv, ProofsSound
<1> QED BY <1>3, <1>4, <1>5, <1>6, <1>7, <1>8 DEF IInv

(* Only pc changes: the rest of the request satisfies the invariant.       *)
LEMMA PcStep ==
  ASSUME IInv, NEW r \in Provers,
         NEW pc \in ProveRunning \cup ProveAnswered,
         prove' = [prove EXCEPT ![r].pc = pc],
         PermitMoves(prove[r].pc, pc),
         OthersUnchanged,
         pc \in {"readRoot", "proving"} => prove[r].pc \in {"readRoot", "proving"},
         pc \in {"record", "ok"} => prove[r].pc \in {"record", "ok"}
  PROVE  IInv'
<1> DEFINE pc0 == prove[r].pc        i == prove[r].issuer
           s == prove[r].secret      a == prove[r].address
           leaves == prove[r].leaves proof == prove[r].proof
<1>1. /\ i \in Issuers /\ s \in Secrets /\ a \in Addresses
      /\ prove[r] = [pc |-> pc0, issuer |-> i, secret |-> s, address |-> a,
                     leaves |-> leaves, proof |-> proof]
  BY DEF IInv, TypeOK, ProveShape
<1>2. /\ pc0 \in {"readRoot", "proving"} => leaves \in PastTrees[i]
      /\ pc0 \in {"record", "ok"} => SoundProof(keys.vk, PastTrees[i], s, a, proof)
  BY DEF IInv, TreesRead, ProofsSound
<1>3. /\ pc \in {"readRoot", "proving"} => leaves \in PastTrees[i]
      /\ pc \in {"record", "ok"} => SoundProof(keys.vk, PastTrees[i], s, a, proof)
  BY <1>2
<1>4. Becomes(r, pc, i, s, a, leaves, proof)
  <2> HIDE DEF pc0, i, s, a, leaves, proof
  <2>1. PICK new : new = [prove[r] EXCEPT !.pc = pc]
    OBVIOUS
  <2>2. PICK old : old = prove[r]
    OBVIOUS
  <2>3. new = [old EXCEPT !.pc = pc]
    BY <2>1, <2>2
  <2>4. new = [pc |-> pc, issuer |-> i, secret |-> s, address |-> a,
               leaves |-> leaves, proof |-> proof]
    BY <1>1, <2>2, <2>3
  <2>5. prove' = [prove EXCEPT ![r] = new]
    BY <2>1
  <2> QED BY <2>4, <2>5 DEF Becomes
<1> HIDE DEF i, s, a, leaves, proof
<1> QED BY <1>1, <1>3, <1>4, RequestStep

(* The tables change as CredentialTree allows: no tree is forgotten.       *)
LEMMA TablesStep ==
  ASSUME IInv, TablesOK',
         \A i \in Issuers : PastTrees[i] \subseteq PastTrees'[i],
         UNCHANGED <<generatedNullifiers, holderVars>>
  PROVE  IInv'
<1> USE DEF holderVars
<1>1. TypeOK' /\ ProveShape'
  BY DEF IInv, TypeOK, ProveShape
<1>2. PermitsHeld'
  BY DEF IInv, PermitsHeld, PermitsConserved, Running
<1>3. TreesRead'
  BY DEF IInv, TypeOK, TreesRead
<1>4. ProofsSound'
  <2> SUFFICES ASSUME NEW r \in Provers, prove[r].pc \in {"record", "ok"}
               PROVE  SoundProof(keys.vk, PastTrees'[prove[r].issuer],
                                 prove[r].secret, prove[r].address, prove[r].proof)
    BY DEF ProofsSound
  <2>1. PastTrees[prove[r].issuer] \subseteq PastTrees'[prove[r].issuer]
    BY DEF IInv, TypeOK
  <2> QED BY <2>1 DEF IInv, ProofsSound, SoundProof
<1> QED BY <1>1, <1>2, <1>3, <1>4 DEF IInv

-----------------------------------------------------------------------------
(* The environment: an issuer appears, a leaf is appended or a root is     *)
(* published.                                                              *)
LEMMA EnvironmentStep ==
  ASSUME IInv, Environment
  PROVE  IInv'
<1>1. UNCHANGED <<generatedNullifiers, holderVars>>
  BY DEF Environment
<1>2. PICK i \in Issuers : \/ CreateIssuer(i)
                           \/ \E c \in Commitments : AddLeaf(i, c)
                           \/ \E n \in 1..LeafCount(i) : Publish(i, n)
  BY DEF Environment
<1>3. CASE UNCHANGED leafRows
  <2>1. TablesOK' /\ PastTrees' = PastTrees
    BY <1>3 DEF IInv, TablesOK, RowsContiguous, PastTrees, Leaves, LeafCount, Rank
  <2> QED BY <1>1, <2>1, TablesStep
<1>4. ASSUME NEW c \in Commitments, AddLeaf(i, c)
      PROVE  IInv'
  <2> DEFINE n == LeafCount(i)
  <2>1. /\ n \in Nat /\ DOMAIN leafRows[i] = 0..(n - 1)
        /\ DOMAIN leafRows = Issuers
    BY DEF IInv, TablesOK, RowsContiguous
  <2>2. leafRows' = [leafRows EXCEPT ![i] =
                       [q \in DOMAIN leafRows[i] \cup {n} |->
                          IF q = n THEN c ELSE leafRows[i][q]]]
    BY <1>4 DEF AddLeaf, InsertLeaf
  <2> HIDE DEF n
  <2>3. DOMAIN leafRows'[i] = 0..n
    BY <2>1, <2>2
  <2>4. \A j \in Issuers \ {i} : leafRows'[j] = leafRows[j]
    BY <2>1, <2>2
  <2>5. TablesOK'
    <3>1. LeafCount(i)' = n + 1
      <4>1. Cardinality(0..n) = n + 1
        BY <2>1, IntervalCount, n + 1 \in Nat, (n + 1) - 1 = n
      <4> QED BY <2>3, <4>1 DEF LeafCount
    <3>2. LeafCount(i)' \in Nat /\ DOMAIN leafRows'[i] = 0..(LeafCount(i)' - 1)
      BY <2>1, <2>3, <3>1
    <3>3. \A j \in Issuers \ {i} :
            LeafCount(j)' \in Nat /\ DOMAIN leafRows'[j] = 0..(LeafCount(j)' - 1)
      BY <2>4 DEF IInv, TablesOK, RowsContiguous, LeafCount
    <3>4. DOMAIN leafRows' = Issuers
      BY <2>1, <2>2
    <3>5. \A j \in Issuers : LeafCount(j)' <= Capacity
      <4>1. n < Capacity
        BY <1>4 DEF AddLeaf, n
      <4>2. LeafCount(i)' <= Capacity
        BY <2>1, <3>1, <4>1, CapacityType
      <4> QED BY <2>4, <4>2 DEF IInv, TablesOK, LeafCount
    <3> QED BY <3>2, <3>3, <3>4, <3>5 DEF TablesOK, RowsContiguous
  <2>6. RowsKept
    <3> SUFFICES ASSUME NEW p \in DOMAIN leafRows[i]
                 PROVE  p \in DOMAIN leafRows'[i] /\ leafRows'[i][p] = leafRows[i][p]
      BY <2>4 DEF RowsKept
    <3>1. p \in 0..(n - 1)
      BY <2>1
    <3> QED BY <2>1, <2>2, <2>3, <3>1
  <2>7. \A j \in Issuers : PastTrees[j] \subseteq PastTrees'[j]
    BY <2>5, <2>6, PastTreesGrow DEF IInv, TablesOK
  <2> QED BY <1>1, <2>5, <2>7, TablesStep
<1> QED BY <1>2, <1>3, <1>4 DEF CreateIssuer, Publish

(* A restart forgets every request and frees every permit. *)
LEMMA RestartStep ==
  ASSUME IInv, Restart
  PROVE  IInv'
<1>1. ASSUME NEW r \in Provers
      PROVE  /\ prove'[r] = [pc      |-> prove'[r].pc,      issuer  |-> prove'[r].issuer,
                             secret  |-> prove'[r].secret,  address |-> prove'[r].address,
                             leaves  |-> prove'[r].leaves,  proof   |-> prove'[r].proof]
             /\ prove'[r].pc = "idle"
             /\ prove'[r].issuer = prove[r].issuer
             /\ prove'[r].secret = prove[r].secret
             /\ prove'[r].address = prove[r].address
  <2>1. prove'[r] = NewRequest("idle", prove[r].issuer, prove[r].secret, prove[r].address)
    BY DEF Restart
  <2> QED BY <2>1 DEF NewRequest
<1>2. ProveShape'
  BY <1>1 DEF ProveShape
<1>3. UNCHANGED dbVars /\ DOMAIN prove' = Provers
  BY DEF Restart
<1>4. TypeOK'
  <2>1. /\ keys' \in KeyPairs
        /\ detached' \in 0..MaxDetached
        /\ permits' \in 0..ProofBudget
    BY BudgetAssumption, DetachedAssumption DEF Restart
  <2>2. generatedNullifiers' \subseteq Issuers \X Nullifiers
    BY <1>3 DEF dbVars, IInv, TypeOK
  <2>3. \A r \in Provers :
          /\ prove'[r].pc \in ProveRunning \cup ProveAnswered
          /\ prove'[r].issuer \in Issuers
          /\ prove'[r].secret \in Secrets
          /\ prove'[r].address \in Addresses
    BY <1>1 DEF IInv, TypeOK, ProveAnswered
  <2> QED BY <1>3, <2>1, <2>2, <2>3 DEF TypeOK
<1>5. PermitsHeld'
  <2>1. Running' = {}
    BY <1>1 DEF Running, ProveRunning
  <2> QED
    BY <2>1, FS_EmptySet, BudgetAssumption DEF Restart, PermitsHeld, PermitsConserved
<1>6. TreesRead' /\ ProofsSound'
  BY <1>1 DEF TreesRead, ProofsSound
<1>7. TablesOK' /\ PastTrees' = PastTrees
  BY <1>3 DEF dbVars, IInv, TablesOK, RowsContiguous, PastTrees, Leaves, LeafCount, Rank
<1> QED BY <1>2, <1>4, <1>5, <1>6, <1>7 DEF IInv

-----------------------------------------------------------------------------
(* The steps of one request. *)

(* The exits without a result, whichever state they leave. *)
LEMMA ExitStep ==
  ASSUME IInv, NEW r \in Provers, NEW pc \in ProveAnswered \ {"ok"},
         prove[r].pc \in ProveRunning,
         Answer(r, pc),
         OthersUnchanged
  PROVE  IInv'
<1>1. pc \notin ProveRunning /\ pc \notin {"readRoot", "proving", "record", "ok"}
  BY DEF ProveRunning, ProveAnswered
<1>2. PermitMoves(prove[r].pc, pc)
  BY <1>1 DEF PermitMoves, Answer
<1>3. PICK i \in Issuers, s \in Secrets, a \in Addresses :
        i = prove[r].issuer /\ s = prove[r].secret /\ a = prove[r].address
  BY DEF IInv, TypeOK
<1>4. Becomes(r, pc, i, s, a, <<>>, NoRoot)
  BY <1>3 DEF Answer, NewRequest, Becomes
<1>5. pc \in ProveRunning \cup ProveAnswered
  OBVIOUS
<1> QED BY <1>1, <1>2, <1>4, <1>5, RequestStep

(* A step that leaves the tables and the keys alone. *)
LEMMA NothingElse ==
  ASSUME IInv, UNCHANGED <<dbVars, keys>>, detached' \in 0..MaxDetached
  PROVE  OthersUnchanged
BY DEF dbVars, OthersUnchanged, IInv, TypeOK

(* limit_concurrent_proofs. *)
LEMMA AdmissionStep ==
  ASSUME IInv, NEW r \in Provers,
         NEW i \in Issuers, NEW s \in Secrets, NEW a \in Addresses,
         Admit(r, i, s, a) \/ RefuseBusy(r, i, s, a)
  PROVE  IInv'
<1>1. OthersUnchanged
  <2>1. UNCHANGED <<dbVars, keys>> /\ detached' = detached
    BY DEF Admit, RefuseBusy
  <2> QED BY <2>1, NothingElse DEF IInv, TypeOK
<1>2. prove[r].pc \notin ProveRunning
  BY DEF Admit, RefuseBusy, ProveRunning, ProveAnswered
<1>3. CASE Admit(r, i, s, a)
  <2>1. Becomes(r, "body", i, s, a, <<>>, NoRoot)
    BY <1>3 DEF Admit, Becomes, NewRequest
  <2>2. "body" \in ProveRunning
    BY DEF ProveRunning
  <2>3. PermitMoves(prove[r].pc, "body")
    BY <1>2, <1>3, <2>2 DEF PermitMoves, Admit
  <2> QED BY <1>1, <2>1, <2>2, <2>3, RequestStep
<1>4. CASE RefuseBusy(r, i, s, a)
  <2>1. Becomes(r, "busy", i, s, a, <<>>, NoRoot)
    BY <1>4 DEF RefuseBusy, Becomes, NewRequest
  <2>2. "busy" \in ProveAnswered /\ "busy" \notin ProveRunning
    BY DEF ProveRunning, ProveAnswered
  <2>3. PermitMoves(prove[r].pc, "busy")
    BY <1>2, <1>4, <2>2 DEF PermitMoves, RefuseBusy
  <2> QED BY <1>1, <2>1, <2>2, <2>3, RequestStep
<1> QED BY <1>3, <1>4

(* The statements before the proof. *)
LEMMA ReadsStep ==
  ASSUME IInv, NEW r \in Provers,
         BodyArrives(r) \/ ReadTree(r) \/ CompareRoot(r)
  PROVE  IInv'
<1>1. OthersUnchanged
  <2>1. UNCHANGED <<dbVars, keys>> /\ detached' = detached
    BY DEF BodyArrives, ReadTree, CompareRoot
  <2> QED BY <2>1, NothingElse DEF IInv, TypeOK
<1>2. prove[r].pc \in {"body", "readLeaves", "readRoot"}
  BY DEF BodyArrives, ReadTree, CompareRoot
<1>3. prove[r].pc \in ProveRunning
  BY <1>2 DEF ProveRunning
<1>4. ASSUME NEW pc \in {"badRequest", "empty", "full", "stale"}, Answer(r, pc)
      PROVE  IInv'
  <2>1. pc \in ProveAnswered \ {"ok"}
    BY DEF ProveAnswered
  <2> QED BY <1>1, <1>3, <1>4, <2>1, ExitStep
<1>5. CASE BodyArrives(r)
  <2>1. SUFFICES ASSUME Continue(r, "readLeaves") PROVE IInv'
    BY <1>4, <1>5 DEF BodyArrives
  <2>2. PermitMoves(prove[r].pc, "readLeaves") /\ "readLeaves" \in ProveRunning
    BY <1>3, <2>1 DEF PermitMoves, Continue, ProveRunning
  <2>3. prove' = [prove EXCEPT ![r].pc = "readLeaves"]
    BY <2>1 DEF Continue
  <2> QED BY <1>1, <2>2, <2>3, PcStep
<1>6. CASE CompareRoot(r)
  <2>1. SUFFICES ASSUME Continue(r, "proving") PROVE IInv'
    BY <1>4, <1>6 DEF CompareRoot
  <2>2. PermitMoves(prove[r].pc, "proving") /\ "proving" \in ProveRunning
    BY <1>3, <2>1 DEF PermitMoves, Continue, ProveRunning
  <2>3. prove' = [prove EXCEPT ![r].pc = "proving"] /\ prove[r].pc = "readRoot"
    BY <1>6, <2>1 DEF Continue, CompareRoot
  <2> QED BY <1>1, <2>2, <2>3, PcStep
<1>7. CASE ReadTree(r)
  <2> DEFINE read == Leaves(prove[r].issuer)
  <2>1. CASE read = <<>> \/ ~Fits(read)
    BY <1>4, <1>7, <2>1 DEF ReadTree
  <2>2. CASE read # <<>> /\ Fits(read)
    <3>1. PICK i, s, a, leaves, proof :
            /\ i = prove[r].issuer /\ s = prove[r].secret /\ a = prove[r].address
            /\ prove[r] = [pc |-> prove[r].pc, issuer |-> i, secret |-> s,
                           address |-> a, leaves |-> leaves, proof |-> proof]
      BY DEF IInv, ProveShape
    <3>2. i \in Issuers /\ s \in Secrets /\ a \in Addresses
      BY <3>1 DEF IInv, TypeOK
    <3>3. read \in PastTrees[i]
      BY <2>2, <3>1, <3>2, CurrentTreeIsPast DEF IInv, TablesOK
    <3>4. /\ prove' = [prove EXCEPT ![r].pc = "readRoot", ![r].leaves = read]
          /\ permits' = permits
      BY <1>7, <2>2 DEF ReadTree
    <3> HIDE DEF read
    <3>5. Becomes(r, "readRoot", i, s, a, read, proof)
      <4>1. PICK old, pc : old = prove[r] /\ pc = prove[r].pc
        OBVIOUS
      <4>2. old = [pc |-> pc, issuer |-> i, secret |-> s,
                   address |-> a, leaves |-> leaves, proof |-> proof]
        BY <3>1, <4>1
      <4>3. PICK new : new = [prove[r] EXCEPT !.pc = "readRoot", !.leaves = read]
        OBVIOUS
      <4>4. new = [old EXCEPT !.pc = "readRoot", !.leaves = read]
        BY <4>1, <4>3
      <4>5. new = [pc |-> "readRoot", issuer |-> i, secret |-> s,
                   address |-> a, leaves |-> read, proof |-> proof]
        BY <4>2, <4>4
      <4>6. prove' = [prove EXCEPT ![r] = new]
        BY <3>4, <4>3
      <4> QED BY <4>5, <4>6 DEF Becomes
    <3>6. PermitMoves(prove[r].pc, "readRoot") /\ "readRoot" \in ProveRunning
      BY <1>3, <3>4 DEF PermitMoves, ProveRunning
    <3> QED BY <1>1, <3>2, <3>3, <3>5, <3>6, RequestStep
  <2> QED BY <2>1, <2>2
<1> QED BY <1>5, <1>6, <1>7

(* What the self-check lets through is sound, whatever the two keys are.   *)
LEMMA CheckedProofIsSound ==
  ASSUME NEW k, NEW trees, NEW leaves \in trees, NEW s, NEW a,
         ProofResult(k, leaves, s, a) = "proof"
  PROVE  SoundProof(k.vk, trees, s, a, MembershipProof(k, leaves, s, a))
<1> DEFINE proof == MembershipProof(k, leaves, s, a)
           inputs == PublicInputs(leaves, s, a)
<1>1. IsMember(leaves, s) /\ Groth16Verify(k.vk, inputs, proof)
  BY DEF ProofResult, SelfCheckPasses
<1>2. proof.inputs = inputs
  BY <1>1 DEF Groth16Verify
<1>3. inputs.root = Root(leaves)
  BY DEF PublicInputs
<1>4. inputs = [root      |-> proof.inputs.root,
                nullifier |-> Nullifier(s),
                addr      |-> AddressField(a)]
  BY <1>2, <1>3 DEF PublicInputs
<1> HIDE DEF proof, inputs
<1>5. SoundProof(k.vk, trees, s, a, proof)
  BY <1>1, <1>2, <1>3, <1>4 DEF SoundProof
<1> QED BY <1>5 DEF proof

(* crypto::prove ends. *)
LEMMA ProveStep ==
  ASSUME IInv, NEW r \in Provers, Prove(r)
  PROVE  IInv'
<1> DEFINE i == prove[r].issuer      s == prove[r].secret
           a == prove[r].address     leaves == prove[r].leaves
           result == ProofResult(keys, leaves, s, a)
           proof == MembershipProof(keys, leaves, s, a)
<1>1. OthersUnchanged
  <2>1. UNCHANGED <<dbVars, keys>> /\ detached' = detached
    BY DEF Prove
  <2> QED BY <2>1, NothingElse DEF IInv, TypeOK
<1>2. prove[r].pc = "proving" /\ prove[r].pc \in ProveRunning
  BY DEF Prove, ProveRunning
<1>3. CASE result # "proof"
  <2>1. result \in ProveAnswered \ {"ok"}
    BY <1>3 DEF ProofResult, ProveAnswered
  <2>2. Answer(r, result)
    BY <1>3 DEF Prove
  <2> HIDE DEF result
  <2> QED BY <1>1, <1>2, <2>1, <2>2, ExitStep
<1>4. CASE result = "proof"
  <2>1. /\ prove' = [prove EXCEPT ![r].pc = "record", ![r].leaves = <<>>,
                                   ![r].proof = proof]
        /\ permits' = permits
    BY <1>4 DEF Prove
  <2>2. i \in Issuers /\ s \in Secrets /\ a \in Addresses
    BY DEF IInv, TypeOK
  <2>3. SoundProof(keys.vk, PastTrees[i], s, a, proof)
    <3>1. leaves \in PastTrees[i]
      BY <1>2 DEF IInv, TreesRead
    <3> QED BY <1>4, <3>1, CheckedProofIsSound
  <2>4. PICK old, pc, proof0 : old = prove[r] /\ pc = prove[r].pc /\ proof0 = prove[r].proof
    OBVIOUS
  <2>5. old = [pc |-> pc, issuer |-> i, secret |-> s,
               address |-> a, leaves |-> leaves, proof |-> proof0]
    BY <2>4 DEF IInv, ProveShape
  <2> HIDE DEF i, s, a, leaves, proof
  <2>6. Becomes(r, "record", i, s, a, <<>>, proof)
    <3>1. PICK new : new = [prove[r] EXCEPT !.pc = "record", !.leaves = <<>>, !.proof = proof]
      OBVIOUS
    <3>2. new = [old EXCEPT !.pc = "record", !.leaves = <<>>, !.proof = proof]
      BY <2>4, <3>1
    <3>3. new = [pc |-> "record", issuer |-> i, secret |-> s,
                 address |-> a, leaves |-> <<>>, proof |-> proof]
      BY <2>5, <3>2
    <3>4. prove' = [prove EXCEPT ![r] = new]
      BY <2>1, <3>1
    <3> QED BY <3>3, <3>4 DEF Becomes
  <2>7. PermitMoves(prove[r].pc, "record") /\ "record" \in ProveRunning
    BY <1>2, <2>1 DEF PermitMoves, ProveRunning
  <2> QED BY <1>1, <2>2, <2>3, <2>6, <2>7, RequestStep
<1> QED BY <1>3, <1>4

(* The bookkeeping, whether its INSERT succeeds or fails. *)
LEMMA RecordStep ==
  ASSUME IInv, NEW r \in Provers, Record(r) \/ RecordFails(r)
  PROVE  IInv'
<1>1. prove[r].pc = "record" /\ AnswerProof(r)
  BY DEF Record, RecordFails
<1>2. OthersUnchanged
  <2>1. <<prove[r].issuer, Nullifier(prove[r].secret)>> \in Issuers \X Nullifiers
    BY NullifiersAssumption DEF IInv, TypeOK
  <2>2. generatedNullifiers' \subseteq Issuers \X Nullifiers
    BY <2>1 DEF Record, RecordFails, RecordNullifier, dbVars, IInv, TypeOK
  <2>3. leafRows' = leafRows /\ keys' = keys /\ detached' \in 0..MaxDetached
    BY DEF Record, RecordFails, dbVars, IInv, TypeOK
  <2> QED BY <2>2, <2>3 DEF OthersUnchanged
<1>3. prove' = [prove EXCEPT ![r].pc = "ok"] /\ permits' = permits + 1
  BY <1>1 DEF AnswerProof
<1>4. PermitMoves(prove[r].pc, "ok") /\ "ok" \in ProveAnswered
  BY <1>1, <1>3 DEF PermitMoves, ProveRunning, ProveAnswered
<1> QED BY <1>1, <1>2, <1>3, <1>4, PcStep

-----------------------------------------------------------------------------
(* Every step preserves the invariant. *)
LEMMA NextIInv == IInv /\ [Next]_vars => IInv'
<1> SUFFICES ASSUME IInv, [Next]_vars PROVE IInv'
  OBVIOUS
<1>1. ASSUME NEW r \in Provers, ProveFails(r)
      PROVE  IInv'
  <2>1. OthersUnchanged
    BY <1>1, NothingElse DEF ProveFails, IInv, TypeOK
  <2>2. prove[r].pc \in ProveRunning /\ "error" \in ProveAnswered \ {"ok"}
    BY <1>1 DEF ProveFails, ProveRunning, ProveAnswered
  <2> QED BY <1>1, <2>1, <2>2, ExitStep DEF ProveFails
<1>2. ASSUME NEW r \in Provers, ProveCancelled(r) \/ ProofDetached(r)
      PROVE  IInv'
  <2>1. detached' \in 0..MaxDetached
    BY <1>2, DetachedAssumption DEF ProveCancelled, ProofDetached, IInv, TypeOK
  <2>2. UNCHANGED <<dbVars, keys>>
    BY <1>2 DEF ProveCancelled, ProofDetached
  <2>3. OthersUnchanged
    BY <2>1, <2>2, NothingElse
  <2>4. prove[r].pc \in ProveRunning /\ "idle" \in ProveAnswered \ {"ok"}
    BY <1>2 DEF ProveCancelled, ProofDetached, ProveRunning, ProveAnswered
  <2>5. Answer(r, "idle")
    BY <1>2 DEF ProveCancelled, ProofDetached
  <2> QED BY <2>3, <2>4, <2>5, ExitStep
<1>3. CASE DetachedEnds
  <2>1. detached' \in 0..MaxDetached
    BY <1>3, DetachedAssumption DEF DetachedEnds, IInv, TypeOK
  <2>2. UNCHANGED <<dbVars, prove, permits, keys>>
    BY <1>3 DEF DetachedEnds
  <2>3. TablesOK' /\ PastTrees' = PastTrees
    BY <2>2 DEF dbVars, IInv, TablesOK, RowsContiguous, PastTrees, Leaves, LeafCount, Rank
  <2>4. TypeOK' /\ ProveShape'
    BY <2>1, <2>2 DEF dbVars, IInv, TypeOK, ProveShape
  <2>5. PermitsHeld'
    BY <2>2 DEF IInv, PermitsHeld, PermitsConserved, Running
  <2>6. TreesRead' /\ ProofsSound'
    BY <2>2, <2>3 DEF dbVars, IInv, TreesRead, ProofsSound
  <2> QED BY <2>3, <2>4, <2>5, <2>6 DEF IInv
<1>4. CASE UNCHANGED vars
  <2>1. TablesOK' /\ PastTrees' = PastTrees
    BY <1>4 DEF vars, dbVars, IInv, TablesOK, RowsContiguous, PastTrees, Leaves,
                LeafCount, Rank
  <2>2. UNCHANGED <<generatedNullifiers, holderVars>>
    BY <1>4 DEF vars, dbVars
  <2> QED BY <2>1, <2>2, TablesStep
<1>5. CASE HolderNext
  BY <1>1, <1>2, <1>3, <1>5, AdmissionStep, ReadsStep, ProveStep, RecordStep, RestartStep
  DEF HolderNext, ProveArrives, ProveQueries, ProveOther
<1> QED BY <1>4, <1>5, EnvironmentStep DEF Next

(* The invariant holds in every behaviour. *)
LEMMA SpecIInv == Spec => []IInv
<1>1. Init => IInv
  BY InitIInv
<1>2. IInv /\ [Next]_vars => IInv'
  BY NextIInv
<1> QED BY <1>1, <1>2, PTL DEF Spec

-----------------------------------------------------------------------------
(* Requests, permits, detached proofs and booked nullifiers always have    *)
(* their types: in particular there are never more permits than the budget.*)
THEOREM TypeCorrect == Spec => []TypeOK
<1>1. IInv => TypeOK
  BY DEF IInv
<1> QED BY <1>1, SpecIInv, PTL

(* No permit is ever lost or made up, for any number of requests and any   *)
(* budget, on whichever of its exits a request leaves                      *)
(* limit_concurrent_proofs.                                                *)
THEOREM NoPermitLeaks == Spec => []PermitsConserved
<1>1. IInv => PermitsConserved
  BY DEF IInv, PermitsHeld
<1> QED BY <1>1, SpecIInv, PTL

(* A request that has its proof has a sound one, by the stored leaves. *)
HeldProofsSound ==
  \A r \in Provers : prove[r].pc \in {"record", "ok"} => ProofIsSound(prove[r])

LEMMA HeldProofsAreSound == IInv => HeldProofsSound
<1> SUFFICES ASSUME IInv, NEW r \in Provers, prove[r].pc \in {"record", "ok"}
             PROVE  ProofIsSound(prove[r])
  BY DEF HeldProofsSound
<1> DEFINE p == prove[r]
           inputs == [root      |-> p.proof.inputs.root,
                      nullifier |-> Nullifier(p.secret),
                      addr      |-> AddressField(p.address)]
<1>1. /\ Groth16Verify(keys.vk, inputs, p.proof)
      /\ \E tree \in PastTrees[p.issuer] :
           inputs.root = Root(tree) /\ IsMember(tree, p.secret)
  BY DEF IInv, ProofsSound, SoundProof
<1>2. p.issuer \in Issuers
  BY DEF IInv, TypeOK
<1>3. PastTrees[p.issuer] = {SubSeq(Leaves(p.issuer), 1, n) : n \in 1..LeafCount(p.issuer)}
  BY <1>2 DEF PastTrees
<1> HIDE DEF p, inputs
<1>4. \E n \in 1..LeafCount(p.issuer) :
        LET prefix == SubSeq(Leaves(p.issuer), 1, n)
        IN  inputs.root = Root(prefix) /\ IsMember(prefix, p.secret)
  BY <1>1, <1>3
<1> QED BY <1>1, <1>4 DEF p, inputs, ProofIsSound

(* Every proof that prove answers verifies for the holder who asked, and   *)
(* shows membership in a prefix of the issuer's leaves, whatever happened  *)
(* between its statements and whichever key files were loaded.             *)
THEOREM ServedProofsAreSound == Spec => []ServedProofIsSound
<1>1. IInv => ServedProofIsSound
  BY HeldProofsAreSound DEF HeldProofsSound, ServedProofIsSound
<1> QED BY <1>1, SpecIInv, PTL

(* Only the bookkeeping adds a row to generated_nullifiers. *)
LEMMA OnlyRecordBooks ==
  ASSUME [Next]_vars, NEW row \in generatedNullifiers' \ generatedNullifiers
  PROVE  \E r \in Provers : Record(r)
<1>1. generatedNullifiers' # generatedNullifiers
  OBVIOUS
<1>2. ~Environment /\ ~UNCHANGED vars /\ ~DetachedEnds /\ ~Restart
  BY <1>1 DEF Environment, vars, dbVars, DetachedEnds, Restart
<1>3. ASSUME NEW r \in Provers, ProveArrives(r) \/ Prove(r) \/ ProveOther(r)
      PROVE  FALSE
  BY <1>1, <1>3
  DEF ProveArrives, Admit, RefuseBusy, Prove, ProveOther, BodyArrives, ProveFails,
      RecordFails, ProveCancelled, ProofDetached, dbVars
<1>4. ASSUME NEW r \in Provers, ReadTree(r) \/ CompareRoot(r)
      PROVE  FALSE
  BY <1>1, <1>4 DEF ReadTree, CompareRoot, dbVars
<1> QED BY <1>2, <1>3, <1>4 DEF Next, HolderNext, ProveQueries

(* 0001_init.sql:24.  A row is added only for a sound proof: one that its  *)
(* request then has in hand, for the holder and issuer of the row.         *)
THEOREM BookedNullifiersHaveProofs == Spec => RowsMeanProofs
<1> DEFINE A == \A row \in generatedNullifiers' \ generatedNullifiers : ProofMadeFor(row)'
<1>1. IInv /\ HeldProofsSound' /\ [Next]_vars => [A]_vars
  <2> SUFFICES ASSUME IInv, HeldProofsSound', [Next]_vars,
                      NEW row \in generatedNullifiers' \ generatedNullifiers
               PROVE  ProofMadeFor(row)'
    OBVIOUS
  <2>1. PICK r \in Provers : Record(r)
    BY OnlyRecordBooks
  <2>2. /\ prove'[r].pc = "ok"
        /\ prove'[r].issuer = prove[r].issuer
        /\ prove'[r].secret = prove[r].secret
    <3>1. PICK pc, i, s, a, leaves, proof :
            /\ i = prove[r].issuer /\ s = prove[r].secret
            /\ prove[r] = [pc |-> pc, issuer |-> i, secret |-> s, address |-> a,
                           leaves |-> leaves, proof |-> proof]
      BY DEF IInv, ProveShape
    <3>2. PICK old : old = prove[r]
      OBVIOUS
    <3>3. prove'[r] = [old EXCEPT !.pc = "ok"]
      BY <2>1, <3>2 DEF Record, AnswerProof, IInv, TypeOK
    <3>4. prove'[r] = [pc |-> "ok", issuer |-> i, secret |-> s, address |-> a,
                       leaves |-> leaves, proof |-> proof]
      BY <3>1, <3>2, <3>3
    <3> QED BY <3>1, <3>4
  <2>3. row = <<prove[r].issuer, Nullifier(prove[r].secret)>>
    BY <2>1 DEF Record, RecordNullifier
  <2>4. ProofIsSound(prove[r])'
    BY <2>2 DEF HeldProofsSound
  <2> QED BY <2>2, <2>3, <2>4 DEF ProofMadeFor
<1> QED BY <1>1, HeldProofsAreSound, SpecIInv, PTL DEF Spec, RowsMeanProofs

-----------------------------------------------------------------------------
(* A tree that a request has read fits its padded layer. *)
LEMMA ReadTreesFit ==
  ASSUME TablesOK, NEW i \in Issuers, NEW leaves \in PastTrees[i]
  PROVE  Len(leaves) \in Nat /\ Len(leaves) <= Capacity
<1>1. LeafCount(i) \in Nat /\ LeafCount(i) <= Capacity
  BY DEF TablesOK, RowsContiguous
<1>2. Leaves(i) = [k \in 1..LeafCount(i) |-> leafRows[i][k - 1]]
  BY LeavesByPosition DEF TablesOK, LeavesSorted
<1>3. PICK n \in 1..LeafCount(i) : leaves = SubSeq(Leaves(i), 1, n)
  BY DEF PastTrees
<1>4. leaves = [k \in 1..n |-> Leaves(i)[k]]
  BY <1>1, <1>2, <1>3
<1>5. Len(leaves) = n
  BY <1>1, <1>3, <1>4
<1> QED BY <1>1, <1>3, <1>5, CapacityType

(* A proof comes out for members and keys of one setup, for them always:   *)
(* the witness of a leaf folds to the root of the tree that was read.      *)
THEOREM MembersAreGivenProofs == Spec => MembersGetProofs
<1> DEFINE A == \A r \in Provers : Prove(r) =>
                  (prove'[r].pc = "record" <=>
                     /\ keys.pk = keys.vk
                     /\ IsMember(prove[r].leaves, prove[r].secret))
<1>1. IInv /\ [Next]_vars => [A]_vars
  <2> SUFFICES ASSUME IInv, NEW r \in Provers, Prove(r)
               PROVE  prove'[r].pc = "record" <=>
                        /\ keys.pk = keys.vk
                        /\ IsMember(prove[r].leaves, prove[r].secret)
    OBVIOUS
  <2> DEFINE p == prove[r]
             result == ProofResult(keys, p.leaves, p.secret, p.address)
  <2>1. p.leaves \in PastTrees[p.issuer] /\ p.issuer \in Issuers /\ TablesOK
    BY DEF Prove, IInv, TypeOK, TreesRead
  <2>2. Len(p.leaves) \in Nat /\ Len(p.leaves) <= Capacity
    BY <2>1, ReadTreesFit
  <2>3. IsMember(p.leaves, p.secret) =>
          (SelfCheckPasses(keys, p.leaves, p.secret, p.address) <=> keys.pk = keys.vk)
    BY <2>2, MemberSelfCheck
  <2>4. result = "proof" <=> keys.pk = keys.vk /\ IsMember(p.leaves, p.secret)
    BY <2>3 DEF ProofResult
  <2>5. result \in {"proof", "notMember", "error"}
    BY DEF ProofResult
  <2>6. /\ result = "proof" => prove'[r].pc = "record"
        /\ result # "proof" => prove'[r].pc = result
    BY DEF Prove, Answer, NewRequest, IInv, TypeOK, ProveShape
  <2> HIDE DEF result
  <2> QED BY <2>4, <2>5, <2>6
<1>2. Spec => []IInv
  BY SpecIInv
<1> QED BY <1>1, <1>2, PTL DEF Spec, MembersGetProofs
=============================================================================

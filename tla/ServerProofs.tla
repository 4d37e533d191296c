---------------------------- MODULE ServerProofs ----------------------------
(***************************************************************************)
(* Proof that the issuers' requests do to the tables only what HolderApi   *)
(* assumes of its environment, for every number of requests of each kind,  *)
(* every pool size and every number of workers.                            *)
(*                                                                         *)
(* The server and HolderApi extend the same modules, so the operators that *)
(* the server and the instance Holder see are the same; the first lemmas   *)
(* say so by expanding both.                                               *)
(***************************************************************************)
EXTENDS VeilproofServer, IssuerApiProofs

-----------------------------------------------------------------------------
(* The queries of the two modules. *)

LEMMA SameQueries ==
  ASSUME NEW i
  PROVE  Holder!LeafCount(i) = LeafCount(i) /\ Holder!Leaves(i) = Leaves(i)
BY DEF Holder!LeafCount, LeafCount, Holder!Leaves, Leaves, Holder!Rank, Rank,
       Holder!Cardinality, Cardinality

LEMMA SameRootInHolder ==
  ASSUME NEW leaves
  PROVE  Holder!Root(leaves) = Root(leaves)
BY DEF Holder!Root, Root, Holder!Levels, Levels, Holder!Parents, Parents,
       Holder!Padded, Padded, Holder!Hash2, Hash2, Holder!Capacity, Capacity

-----------------------------------------------------------------------------
(* A step of the issuers' requests is one of HolderApi's environment, or   *)
(* changes nothing a prove request can see.                                *)

(* The table of booked nullifiers is not the issuers'. *)
LEMMA IssuersBookNothing ==
  [Next]_vars => UNCHANGED generatedNullifiers
BY DEF Next, Arrivals, RequestSteps, vars, apiVars, dbVars, AddProceeds, PubProceeds,
       SendAddLeaf, AddEnsureIssuer, BeginAndCount, InsertRow, CommitRow,
       AddFails, AddCancelled, AddCancelledLate, EnsureIssuer,
       SendPublish, ReadLeaves, PubEnsureIssuer, UpdateRoot, PubFails, PubCancelled, Crash

(* A commit appends its leaf at the position of the count. *)
LEMMA CommitIsAddLeaf ==
  ASSUME PInv, [Next]_vars, leafRows' # leafRows
  PROVE  \E i \in Issuers, c \in Commitments : Holder!AddLeaf(i, c)
<1>1. PICK r \in Adders :
        /\ add[r].pc = "commit"
        /\ InsertLeaf(add[r].issuer, add[r].position, add[r].commitment)
        /\ UNCHANGED <<issuers, publishedRoot>>
  BY LeavesChangeOnCommit DEF PInv
<1>2. PICK i \in Issuers : i = add[r].issuer
  BY DEF PInv, IInv, TypeOK, AddRequests
<1>3. PICK c \in Commitments : c = add[r].commitment
  BY <1>1 DEF PInv, IInv, CommitmentsParsed, AddRunning
<1>4. add[r].position = LeafCount(i) /\ LeafCount(i) < Capacity
  BY <1>1, <1>2, CommittedRow DEF PInv
<1>5. InsertLeaf(i, LeafCount(i), c)
  BY <1>1, <1>2, <1>3, <1>4
<1>6. Holder!InsertLeaf(i, Holder!LeafCount(i), c)
  <2>1. PICK n : n = LeafCount(i)
    OBVIOUS
  <2>2. n = Holder!LeafCount(i)
    BY <2>1, SameQueries
  <2>3. Holder!InsertLeaf(i, n, c)
    BY <1>5, <2>1 DEF InsertLeaf, Holder!InsertLeaf
  <2> QED BY <2>2, <2>3
<1>7. Holder!LeafCount(i) < Holder!Capacity
  BY <1>4, SameQueries DEF Capacity, Holder!Capacity
<1>8. i \in issuers
  BY <1>1, <1>2 DEF PInv, IssuersExist
<1> QED BY <1>1, <1>6, <1>7, <1>8 DEF Holder!AddLeaf

(* The other steps create an issuer, publish the root of a prefix, or      *)
(* leave the tables alone.                                                 *)
LEMMA IssuersStep ==
  ASSUME PInv, [Next]_vars, UNCHANGED holderVars
  PROVE  [Holder!Next]_(Holder!vars)
<1> USE IssuersBookNothing
<1>1. UNCHANGED <<generatedNullifiers, Holder!holderVars>>
  BY DEF holderVars, Holder!holderVars
<1>2. CASE leafRows' # leafRows
  <2>1. Holder!Environment
    BY <1>1, <1>2, CommitIsAddLeaf DEF Holder!Environment
  <2> QED BY <2>1 DEF Holder!Next
<1>3. CASE leafRows' = leafRows
  <2>1. Trees' = Trees
    BY <1>3 DEF Trees, Leaves, LeafCount, Rank
  <2>2. CASE UNCHANGED <<issuers, publishedRoot>>
    BY <1>1, <1>3, <2>2 DEF Holder!vars, Holder!dbVars
  <2>3. ASSUME NEW i \in Issuers, issuers' = issuers \cup {i}, UNCHANGED publishedRoot
        PROVE  [Holder!Next]_(Holder!vars)
    <3>1. CASE i \in issuers
      BY <1>1, <1>3, <2>3, <3>1 DEF Holder!vars, Holder!dbVars
    <3>2. CASE i \notin issuers
      <4>1. Holder!CreateIssuer(i)
        BY <1>3, <2>3, <3>2 DEF Holder!CreateIssuer, Holder!EnsureIssuer
      <4>2. Holder!Environment
        BY <1>1, <4>1 DEF Holder!Environment
      <4> QED BY <4>2 DEF Holder!Next
    <3> QED BY <3>1, <3>2
  <2>4. ASSUME NEW i \in issuers, NEW n \in 1..Len(Trees[i]),
               publishedRoot' = [publishedRoot EXCEPT ![i] = Root(SubSeq(Trees[i], 1, n))],
               UNCHANGED issuers
        PROVE  [Holder!Next]_(Holder!vars)
    <3>1. i \in Issuers
      BY DEF PInv, IInv, TypeOK
    <3>2. Trees[i] = Leaves(i)
      BY <3>1 DEF Trees
    <3>3. Len(Trees[i]) = LeafCount(i)
      <4>1. /\ LeafCount(i) \in Nat
            /\ Leaves(i) = [k \in 1..LeafCount(i) |-> leafRows[i][k - 1]]
        BY <3>1, IInvRows, LeavesByPosition DEF PInv, RowsContiguous, LeavesSorted
      <4> QED BY <3>2, <4>1
    <3>4. Holder!Root(SubSeq(Holder!Leaves(i), 1, n)) = Root(SubSeq(Trees[i], 1, n))
      BY <3>2, SameQueries, SameRootInHolder
    <3>5. Holder!Publish(i, n)
      BY <1>3, <2>4, <3>4 DEF Holder!Publish, Holder!SetPublishedRoot
    <3>6. n \in 1..Holder!LeafCount(i)
      BY <3>3, SameQueries
    <3>7. Holder!Environment
      BY <1>1, <3>1, <3>5, <3>6 DEF Holder!Environment
    <3> QED BY <3>7 DEF Holder!Next
  <2> QED BY <2>1, <2>2, <2>3, <2>4, RootsAndIssuersChange
<1> QED BY <1>2, <1>3

-----------------------------------------------------------------------------
(* The issuers' invariant says nothing of what the other requests change.  *)

LEMMA OthersKeepPInv ==
  ASSUME PInv, UNCHANGED <<issuers, leafRows, publishedRoot, add, pub>>
  PROVE  PInv'
<1>1. Counts' = Counts /\ PastTrees' = PastTrees
  BY DEF Counts, PastTrees, LeafCount, Leaves, Rank
<1>2. TypeOK' /\ PubShape' /\ CommitmentsParsed'
  BY DEF PInv, IInv, TypeOK, PubShape, CommitmentsParsed
<1>3. PositionsContiguous' /\ AcknowledgedLeafDurable'
  BY DEF PInv, IInv, PositionsContiguous, AcknowledgedLeafDurable, LeafCount
<1>4. PositionsReserved' /\ UncommittedUnique'
  BY DEF PInv, IInv, PositionsReserved, UncommittedUnique, LeafCount
<1>5. SinceStored' /\ RootsRead' /\ IssuersExist'
  BY <1>1 DEF PInv, SinceStored, RootsRead, IssuersExist
<1> QED BY <1>2, <1>3, <1>4, <1>5 DEF PInv, IInv

(* A step of the server is one of the issuers' requests or leaves their    *)
(* state alone; to a prove request it is a step of HolderApi, and behind   *)
(* both it is one of CredentialTree.                                       *)
LEMMA ServerStep ==
  ASSUME PInv, [ServerNext]_serverVars
  PROVE  PInv' /\ [Holder!Next]_(Holder!vars) /\ [Tree!Next]_(Tree!vars)
<1>1. ASSUME [Next]_vars, UNCHANGED holderVars
      PROVE  PInv' /\ [Holder!Next]_(Holder!vars) /\ [Tree!Next]_(Tree!vars)
  BY <1>1, IssuersStep, NextPInv, StepRefines
<1>2. ASSUME Holder!HolderNext, UNCHANGED <<issuers, leafRows, publishedRoot, add, pub>>
      PROVE  PInv' /\ [Holder!Next]_(Holder!vars) /\ [Tree!Next]_(Tree!vars)
  <2>1. UNCHANGED Tree!vars
    BY <1>2 DEF Tree!vars, Leaves, LeafCount, Rank
  <2> QED BY <1>2, <2>1, OthersKeepPInv DEF Holder!Next
<1>3. CASE IssuerStep
  BY <1>1, <1>3 DEF IssuerStep, OfIssuers, Next
<1>4. CASE HealthStep
  BY <1>1, <1>4 DEF HealthStep, ProbeArrives, HealthAnswers, HealthFails, ProbeEnds
<1>5. CASE Signal \/ UnreadGone
  BY <1>1, <1>5 DEF Signal, UnreadGone
<1>6. CASE UNCHANGED serverVars
  BY <1>1, <1>6 DEF serverVars
<1>7. CASE HolderStep \/ ProofStep
  <2>1. Holder!HolderNext /\ UNCHANGED apiVars
    BY <1>7 DEF HolderStep, HolderQueries, ProofStep, ProofEnds, DetachedEnds, OfHolders,
                Holder!HolderNext
  <2>2. UNCHANGED <<issuers, leafRows, publishedRoot>>
    <3>1. CASE HolderStep
      BY <3>1
      DEF HolderStep, HolderQueries, OfHolders, Holder!ProveArrives, Holder!ProveQueries,
          Holder!ProveOther, Holder!RecordFails, Holder!Admit, Holder!RefuseBusy, Holder!ReadTree,
          Holder!CompareRoot, Holder!Record, Holder!BodyArrives, Holder!ProveFails,
          Holder!ProveCancelled, Holder!ProofDetached, Holder!dbVars
    <3>2. CASE ProofStep
      BY <3>2 DEF ProofStep, ProofEnds, DetachedEnds, Holder!Prove, Holder!DetachedEnds,
                  Holder!dbVars
    <3> QED BY <1>7, <3>1, <3>2
  <2> QED BY <1>2, <2>1, <2>2 DEF apiVars
<1>8. CASE Restart \/ Exit
  <2>1. Crash /\ Holder!Restart
    BY <1>8 DEF Exit, Restart
  <2>2. PInv' /\ [Tree!Next]_(Tree!vars)
    BY <2>1, NextPInv, StepRefines DEF Next
  <2>3. Holder!Next
    BY <2>1 DEF Holder!Next, Holder!HolderNext
  <2> QED BY <2>2, <2>3
<1> QED BY <1>3, <1>4, <1>5, <1>6, <1>7, <1>8 DEF ServerNext

(* The server starts as both of its halves do. *)
LEMMA ServerStarts == ServerInit => PInv /\ Holder!Init
BY InitPInv DEF ServerInit

(* In the server, too, the issuers' requests keep their invariant. *)
LEMMA ServerPInv == ServerSpec => []PInv
<1>1. PInv /\ [ServerNext]_serverVars => PInv'
  BY ServerStep
<1> QED BY <1>1, ServerStarts, PTL DEF ServerSpec

(* What the issuers are promised holds in the composed server as well:     *)
(* positions stay gap-free, acknowledged leaves stay where the answer said *)
(* (store.rs, add_leaf), no statement misses its issuer's row and a        *)
(* published root has every leaf stored before the publish arrived         *)
(* (issuer.rs, publish), through prove requests, graceful shutdowns and    *)
(* restarts.                                                               *)
THEOREM ServerKeepsPromises ==
  ServerSpec => [](/\ PositionsContiguous
                   /\ AcknowledgedLeafDurable
                   /\ StatementsFindTheirIssuer
                   /\ PublishCoversEarlierLeaves)
<1>1. PInv => PositionsContiguous /\ AcknowledgedLeafDurable
  BY DEF PInv, IInv
<1> QED BY <1>1, InvariantCovers, InvariantFindsIssuers, ServerPInv, PTL

(* Whatever the issuers' requests do to the tables, in any interleaving    *)
(* with the prove requests, and whatever fails or dies, is what HolderApi  *)
(* assumes of its environment.                                             *)
THEOREM IssuersAreTheEnvironment == ServerSpec => IssuersMeetHoldersAssumption
<1>1. PInv /\ [ServerNext]_serverVars => [Holder!Next]_(Holder!vars)
  BY ServerStep
<1> QED
  BY <1>1, ServerPInv, ServerStarts, PTL
  DEF ServerSpec, IssuersMeetHoldersAssumption, Holder!Spec

(* Behind requests of every kind, graceful shutdowns and restarts, the     *)
(* tables are append-only leaf sequences and roots of their prefixes.      *)
THEOREM ServerImplementsTree == ServerSpec => ImplementsCredentialTree
<1>1. ServerInit => Tree!Init
  BY InitRefines DEF ServerInit
<1>2. PInv /\ [ServerNext]_serverVars => [Tree!Next]_(Tree!vars)
  BY ServerStep
<1> QED
  BY <1>1, <1>2, ServerPInv, PTL DEF ServerSpec, ImplementsCredentialTree, Tree!Spec
=============================================================================

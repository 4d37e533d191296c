------------------------------ MODULE HolderApi ------------------------------
(***************************************************************************)
(* POST /issuers/{name}/prove: the middleware limit_concurrent_proofs of   *)
(* src/api/mod.rs around the handler of src/api/holder.rs and              *)
(* crypto::prove.                                                          *)
(*                                                                         *)
(* Each concurrent request is a process that takes one action per await    *)
(* point: the permit, the rest of its body, the two reads, the blocking    *)
(* proof, the bookkeeping.  The proof runs on tokio's blocking pool, where *)
(* it cannot be cancelled: when a client disconnects the handler's future  *)
(* is dropped, and its permit with it, but the proof runs on.              *)
(*                                                                         *)
(* What the issuer's requests do to the tables meanwhile is Environment:   *)
(* the steps CredentialTree allows.  VeilproofServer replaces them by      *)
(* IssuerApi.                                                              *)
(***************************************************************************)
EXTENDS Database

CONSTANTS
  Provers,      \* concurrent POST /prove requests
  Secrets,      \* holders' secrets
  Addresses,    \* holders' addresses
  ProofBudget,  \* the middleware's semaphore (2 unless configured)
  MaxDetached   \* model bound: proofs that outlive their request, at once

ASSUME BudgetAssumption == ProofBudget \in Nat \ {0}
ASSUME DetachedAssumption == MaxDetached \in Nat
ASSUME NullifiersAssumption == \A s \in Secrets : Nullifier(s) \in Nullifiers

VARIABLES
  prove,      \* the prove requests, by process
  permits,    \* Semaphore::available_permits
  detached,   \* proofs still running whose request is gone
  keys        \* AppState.keys: loaded once, at boot

holderVars == <<prove, permits, detached, keys>>
vars == <<dbVars, holderVars>>

-----------------------------------------------------------------------------
(* The control state of a request.  Until its last statement it holds the  *)
(* permit it was admitted with.                                            *)

ProveRunning == {"body", "readLeaves", "readRoot", "proving", "record"}
ProveAnswered ==
  {"idle", "busy", "badRequest", "empty", "full", "stale", "notMember", "error", "ok"}

Running == {r \in Provers : prove[r].pc \in ProveRunning}

NewRequest(pc, i, s, a) ==
  [pc |-> pc, issuer |-> i, secret |-> s, address |-> a,
   leaves |-> <<>>, proof |-> NoRoot]

Init ==
  /\ DbInit
  /\ keys \in KeyPairs
  /\ permits = ProofBudget
  /\ detached = 0
  /\ \E i \in Issuers, s \in Secrets, a \in Addresses :
       prove = [r \in Provers |-> NewRequest("idle", i, s, a)]

-----------------------------------------------------------------------------
(* limit_concurrent_proofs: try_acquire, and 503 when the budget is spent. *)

(* Mutant: admits without a free permit. *)
AdmitAlways(r, i, s, a) ==
  /\ prove[r].pc \in ProveAnswered
  /\ permits' = permits - 1
  /\ prove' = [prove EXCEPT ![r] = NewRequest("body", i, s, a)]
  /\ UNCHANGED <<dbVars, detached, keys>>

Admit(r, i, s, a) ==
  /\ prove[r].pc \in ProveAnswered
  /\ permits > 0
  /\ permits' = permits - 1
  /\ prove' = [prove EXCEPT ![r] = NewRequest("body", i, s, a)]
  /\ UNCHANGED <<dbVars, detached, keys>>

RefuseBusy(r, i, s, a) ==
  /\ prove[r].pc \in ProveAnswered
  /\ permits = 0
  /\ prove' = [prove EXCEPT ![r] = NewRequest("busy", i, s, a)]
  /\ UNCHANGED <<dbVars, permits, detached, keys>>

(* Producing the response drops the permit, and with the handler's future  *)
(* goes what the request had read.                                         *)
Answer(r, pc) ==
  /\ prove' = [prove EXCEPT ![r] =
                 NewRequest(pc, prove[r].issuer, prove[r].secret, prove[r].address)]
  /\ permits' = permits + 1

AnswerProof(r) ==
  /\ prove' = [prove EXCEPT ![r].pc = "ok"]
  /\ permits' = permits + 1

Continue(r, pc) ==
  /\ prove' = [prove EXCEPT ![r].pc = pc]
  /\ permits' = permits

(* The Json extractor has the whole body: it parses and the secret is 32   *)
(* bytes of hex, or the request is refused.                                *)
BodyArrives(r) ==
  /\ prove[r].pc = "body"
  /\ Continue(r, "readLeaves") \/ Answer(r, "badRequest")
  /\ UNCHANGED <<dbVars, detached, keys>>

(* Store::leaves; 404 for an unknown issuer or an empty tree, 409 for one  *)
(* that does not fit (there is none: HolderApiProofs!ReadTreesFit).        *)
ReadTree(r) ==
  LET leaves == Leaves(prove[r].issuer)
  IN  /\ prove[r].pc = "readLeaves"
      /\ IF leaves = <<>>
         THEN Answer(r, "empty")
         ELSE IF ~Fits(leaves)
         THEN Answer(r, "full")
         ELSE /\ prove' = [prove EXCEPT ![r].pc = "readRoot", ![r].leaves = leaves]
              /\ permits' = permits
      /\ UNCHANGED <<dbVars, detached, keys>>

(* The refusal to prove against a tree that is not the published one. *)
MatchesPublished(leaves, i) == publishedRoot[i] = Root(leaves)

(* Mutant: waits until the tree it read is the published one. *)
CompareRootWaits(r) ==
  /\ prove[r].pc = "readRoot"
  /\ MatchesPublished(prove[r].leaves, prove[r].issuer)
  /\ Continue(r, "proving")
  /\ UNCHANGED <<dbVars, detached, keys>>

(* Store::published_root; 409 unless it is the root of what was read. *)
CompareRoot(r) ==
  /\ prove[r].pc = "readRoot"
  /\ IF MatchesPublished(prove[r].leaves, prove[r].issuer)
     THEN Continue(r, "proving")
     ELSE Answer(r, "stale")
  /\ UNCHANGED <<dbVars, detached, keys>>

(* Mutant: no self-check. *)
ProofResultUnchecked(k, leaves, s, a) ==
  IF IsMember(leaves, s) THEN "proof" ELSE "notMember"

(* What crypto::prove returns for the tree, on the blocking pool. *)
ProofResult(k, leaves, s, a) ==
  IF ~IsMember(leaves, s) THEN "notMember"
  ELSE IF ~SelfCheckPasses(k, leaves, s, a) THEN "error"
  ELSE "proof"

(* Mutant: books the nullifier without waiting for the proof. *)
ProveBooksFirst(r) ==
  LET p == prove[r]
      result == ProofResult(keys, p.leaves, p.secret, p.address)
  IN  /\ p.pc = "proving"
      /\ IF result = "proof"
         THEN /\ prove' = [prove EXCEPT
                    ![r].pc = "record", ![r].leaves = <<>>,
                    ![r].proof = MembershipProof(keys, p.leaves, p.secret, p.address)]
              /\ permits' = permits
         ELSE Answer(r, result)
      /\ RecordNullifier(p.issuer, Nullifier(p.secret))
      /\ UNCHANGED <<issuers, leafRows, publishedRoot, detached, keys>>

(* Mutant: reads the leaves again to prove with them. *)
ProveRereads(r) ==
  LET p == prove[r]
      leaves == Leaves(p.issuer)
      result == ProofResult(keys, leaves, p.secret, p.address)
  IN  /\ p.pc = "proving"
      /\ IF result = "proof"
         THEN /\ prove' = [prove EXCEPT
                    ![r].pc = "record", ![r].leaves = <<>>,
                    ![r].proof = MembershipProof(keys, leaves, p.secret, p.address)]
              /\ permits' = permits
         ELSE Answer(r, result)
      /\ UNCHANGED <<dbVars, detached, keys>>

(* crypto::prove ends, and the tree that was moved to it is dropped. *)
Prove(r) ==
  LET p == prove[r]
      result == ProofResult(keys, p.leaves, p.secret, p.address)
  IN  /\ p.pc = "proving"
      /\ IF result = "proof"
         THEN /\ prove' = [prove EXCEPT
                    ![r].pc = "record", ![r].leaves = <<>>,
                    ![r].proof = MembershipProof(keys, p.leaves, p.secret, p.address)]
              /\ permits' = permits
         ELSE Answer(r, result)
      /\ UNCHANGED <<dbVars, detached, keys>>

(* Store::record_nullifier, and the proof is answered.  (A client that     *)
(* leaves after the INSERT was sent is one who does not see this answer.)  *)
Record(r) ==
  /\ prove[r].pc = "record"
  /\ RecordNullifier(prove[r].issuer, Nullifier(prove[r].secret))
  /\ AnswerProof(r)
  /\ UNCHANGED <<issuers, leafRows, publishedRoot, detached, keys>>

(* Its failure, were it for want of a connection, is logged and the proof  *)
(* answered all the same.                                                  *)
RecordFails(r) ==
  /\ prove[r].pc = "record"
  /\ AnswerProof(r)
  /\ UNCHANGED <<dbVars, detached, keys>>

(* Mutant: a failure does not give the permit back. *)
ProveFailsLeaking(r) ==
  /\ prove[r].pc \in {"readLeaves", "readRoot", "proving"}
  /\ Continue(r, "error")
  /\ UNCHANGED <<dbVars, detached, keys>>

(* A read fails, or the proving task panics: 500. *)
ProveFails(r) ==
  /\ prove[r].pc \in {"readLeaves", "readRoot", "proving"}
  /\ Answer(r, "error")
  /\ UNCHANGED <<dbVars, detached, keys>>

(* The client disconnects: the handler's future is dropped.  A proof that  *)
(* has started is not, and runs on without its permit.                     *)
ProveCancelled(r) ==
  /\ prove[r].pc \in ProveRunning \ {"proving"}
  /\ Answer(r, "idle")
  /\ UNCHANGED <<dbVars, detached, keys>>

ProofDetached(r) ==
  /\ prove[r].pc = "proving"
  /\ detached < MaxDetached
  /\ detached' = detached + 1
  /\ Answer(r, "idle")
  /\ UNCHANGED <<dbVars, keys>>

(* The result of a proof nobody awaits is dropped. *)
DetachedEnds ==
  /\ detached > 0
  /\ detached' = detached - 1
  /\ UNCHANGED <<dbVars, prove, permits, keys>>

-----------------------------------------------------------------------------
(* The process dies and boots again, perhaps with other key files. *)
Restart ==
  /\ prove' = [r \in Provers |->
                 NewRequest("idle", prove[r].issuer, prove[r].secret, prove[r].address)]
  /\ permits' = ProofBudget
  /\ detached' = 0
  /\ keys' \in KeyPairs
  /\ UNCHANGED dbVars

(* The steps of CredentialTree on the tables. *)
CreateIssuer(i) ==
  /\ i \notin issuers
  /\ EnsureIssuer(i)
  /\ UNCHANGED <<leafRows, publishedRoot>>

AddLeaf(i, c) ==
  /\ i \in issuers
  /\ LeafCount(i) < Capacity
  /\ InsertLeaf(i, LeafCount(i), c)
  /\ UNCHANGED <<issuers, publishedRoot>>

Publish(i, n) ==
  /\ i \in issuers
  /\ SetPublishedRoot(i, Root(SubSeq(Leaves(i), 1, n)))
  /\ UNCHANGED <<issuers, leafRows>>

Environment ==
  /\ \E i \in Issuers :
       \/ CreateIssuer(i)
       \/ \E c \in Commitments : AddLeaf(i, c)
       \/ \E n \in 1..LeafCount(i) : Publish(i, n)
  /\ UNCHANGED <<generatedNullifiers, holderVars>>

ProveArrives(r) ==
  \E i \in Issuers, s \in Secrets, a \in Addresses :
    Admit(r, i, s, a) \/ RefuseBusy(r, i, s, a)

(* The steps of one request that need a pooled connection, and the others  *)
(* but the proof, which runs on the blocking pool.                         *)
ProveQueries(r) == ReadTree(r) \/ CompareRoot(r) \/ Record(r)

ProveOther(r) ==
  \/ BodyArrives(r)
  \/ ProveFails(r)
  \/ RecordFails(r)
  \/ ProveCancelled(r)
  \/ ProofDetached(r)

HolderNext ==
  \/ \E r \in Provers :
       ProveArrives(r) \/ ProveQueries(r) \/ Prove(r) \/ ProveOther(r)
  \/ DetachedEnds
  \/ Restart

Next == HolderNext \/ Environment

Spec == Init /\ [][Next]_vars

-----------------------------------------------------------------------------
(* Type invariant.  The types of the tables are IssuerApi's. *)
TypeOK ==
  /\ keys \in KeyPairs
  /\ detached \in 0..MaxDetached
  /\ permits \in 0..ProofBudget
  /\ generatedNullifiers \subseteq Issuers \X Nullifiers
  /\ DOMAIN prove = Provers
  /\ \A r \in Provers :
       /\ prove[r].pc \in ProveRunning \cup ProveAnswered
       /\ prove[r].issuer \in Issuers
       /\ prove[r].secret \in Secrets
       /\ prove[r].address \in Addresses

(* Safety *)

(* No permit is lost and none is made up: every one is either free or held *)
(* by exactly one running request, whichever of its exits a request took   *)
(* (answered, refused, failed, panicked, disconnected).  A leak would turn *)
(* /prove into 503 for good; the opposite would unbound the proofs.        *)
PermitsConserved == permits + Cardinality(Running) = ProofBudget

(* What a holder is owed: the proof verifies under this server's verifying *)
(* key for the holder's own address and nullifier, its root is the root of *)
(* a prefix of the issuer's leaves as they are stored now, and the         *)
(* holder's commitment is in that prefix.                                  *)
ProofIsSound(p) ==
  LET inputs == [root      |-> p.proof.inputs.root,
                 nullifier |-> Nullifier(p.secret),
                 addr      |-> AddressField(p.address)]
  IN  /\ Groth16Verify(keys.vk, inputs, p.proof)
      /\ \E n \in 1..LeafCount(p.issuer) :
           LET prefix == SubSeq(Leaves(p.issuer), 1, n)
           IN  inputs.root = Root(prefix) /\ IsMember(prefix, p.secret)

(* The credential a holder is handed is sound, whatever was added or       *)
(* published meanwhile and whichever key files were loaded.                *)
ServedProofIsSound ==
  \A r \in Provers : prove[r].pc = "ok" => ProofIsSound(prove[r])

(* Some request has a proof that row <<issuer, nullifier>> can stand for.  *)
ProofMadeFor(row) ==
  \E r \in Provers :
    /\ prove[r].pc \in {"record", "ok"}
    /\ row = <<prove[r].issuer, Nullifier(prove[r].secret)>>
    /\ ProofIsSound(prove[r])

(* 0001_init.sql:24: a row of generated_nullifiers means "a proof was      *)
(* generated by this server for this nullifier".  Rows are never changed,  *)
(* so this is about the step that adds one: there is then a request of     *)
(* this issuer that has a sound proof with this nullifier.  It is not      *)
(* enough that the holder is a member: a proof that failed (mismatched     *)
(* keys, a panic) or that nobody awaited is not booked.                    *)
RowsMeanProofs ==
  [][\A row \in generatedNullifiers' \ generatedNullifiers : ProofMadeFor(row)']_vars

(* crypto::prove refuses no one it should serve: over whatever tree the    *)
(* request read, however full and wherever the holder's commitment stands  *)
(* in it, the proof comes out exactly if that commitment is in the tree    *)
(* and the two key files are of one setup.                                 *)
MembersGetProofs ==
  [][\A r \in Provers : Prove(r) =>
       (prove'[r].pc = "record" <=>
          /\ keys.pk = keys.vk
          /\ IsMember(prove[r].leaves, prove[r].secret))]_vars

-----------------------------------------------------------------------------
(* Liveness *)

(* A prove request whose body has arrived is answered (or its client       *)
(* leaves), and so gives its permit back.  A client that never finishes    *)
(* its body keeps its permit for ever: no timeout in the code ends it.     *)
ProveSettles ==
  \A r \in Provers :
    prove[r].pc \in ProveRunning \ {"body"} ~> prove[r].pc \in ProveAnswered

-----------------------------------------------------------------------------
(* What comments of the code say and the code does not keep. *)

(* api/mod.rs:97: "The permit lives until the response is produced, which  *)
(* is what bounds the number of proofs actually running."  A disconnect    *)
(* drops the permit while the proof runs on, and another one is admitted.  *)
RunningProofsWithinBudget ==
  Cardinality({r \in Provers : prove[r].pc = "proving"}) + detached <= ProofBudget

(* holder.rs:63: "Refuse to prove against a tree that has changed since    *)
(* the last publish, so we never hand back a proof the contract will       *)
(* reject."  The root of an answer is the published root at the time of    *)
(* the answer.  Seconds of proving lie between the comparison and the      *)
(* answer, and a publish in between makes the root an old one.             *)
HandsBackOnlyCurrentRoot ==
  [][\A r \in Provers :
       prove[r].pc = "record" /\ prove'[r].pc = "ok"
         => prove[r].proof.inputs.root = publishedRoot[prove[r].issuer]]_vars
=============================================================================

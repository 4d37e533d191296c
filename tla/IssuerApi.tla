------------------------------ MODULE IssuerApi ------------------------------
(***************************************************************************)
(* The write handlers of src/api/issuer.rs over src/store.rs:              *)
(*   POST /issuers/{name}/leaves    issuer::add_leaf -> Store::add_leaf    *)
(*   POST /issuers/{name}/publish   issuer::publish  -> leaves,            *)
(*                                  MerkleTree::root, set_published_root   *)
(*                                                                         *)
(* Each concurrent request is a process; it takes one action per await     *)
(* point, that is per SQL statement.  The statements run under Postgres'   *)
(* default isolation, READ COMMITTED: COUNT sees committed rows only, and  *)
(* an INSERT of a key another open transaction has inserted waits for that *)
(* transaction to end.  A request may fail at any statement, its client    *)
(* may disconnect at any await (the handler's future is dropped), and the  *)
(* server may crash.                                                       *)
(***************************************************************************)
EXTENDS Database

CONSTANTS
  Adders,          \* concurrent POST /leaves requests
  Publishers,      \* concurrent POST /publish requests
  MaxConnections,  \* PgPoolOptions::max_connections (5 in the code)
  Malformed        \* a commitment parse_fr_hex refuses

ASSUME PoolAssumption == MaxConnections \in Nat \ {0}

VARIABLES
  add,   \* the add_leaf requests, by process
  pub    \* the publish requests, by process

apiVars == <<add, pub>>
vars == <<dbVars, apiVars>>

-----------------------------------------------------------------------------
(* The control state of a request: where its handler stands, or the answer *)
(* its client got.                                                         *)

AddRunning == {"ensure", "count", "insert", "commit"}
AddAnswered == {"idle", "ok", "full", "error", "badRequest"}
PubRunning == {"read", "ensure", "update"}
PubAnswered == {"idle", "ok", "empty", "full", "error"}

NewAdd(pc, i, c) == [pc |-> pc, issuer |-> i, commitment |-> c, position |-> 0]
NewPub(pc, i, n) == [pc |-> pc, issuer |-> i, root |-> NoRoot, since |-> n]

(* Mutant: BEGIN before ensure_issuer, which then needs a second connection. *)
HoldsConnectionWhileEnsuring(r) == add[r].pc \in {"ensure", "insert", "commit"}

(* Mutant: the early return for a full tree forgets its transaction. *)
HoldsConnectionWhenFull(r) == add[r].pc \in {"insert", "commit", "full"}

(* add_leaf's transaction keeps a pooled connection from BEGIN until it    *)
(* commits or rolls back; every other statement of the server borrows one  *)
(* for that statement alone.                                               *)
HoldsConnection(r) == add[r].pc \in {"insert", "commit"}
FreeConnection ==
  Cardinality({r \in Adders : HoldsConnection(r)}) < MaxConnections

(* The rows that open transactions have inserted and not committed. *)
Uncommitted(i, p) ==
  {r \in Adders : /\ add[r].pc = "commit"
                  /\ add[r].issuer = i
                  /\ add[r].position = p}

Init ==
  /\ DbInit
  /\ \E i \in Issuers, c \in Commitments : add = [r \in Adders |-> NewAdd("idle", i, c)]
  /\ \E i \in Issuers : pub = [r \in Publishers |-> NewPub("idle", i, 0)]

-----------------------------------------------------------------------------
(* POST /issuers/{name}/leaves *)

AddSteps(r, pc) == add' = [add EXCEPT ![r].pc = pc]
AddEnds(r, pc) == add' = [add EXCEPT ![r] = NewAdd(pc, add[r].issuer, add[r].commitment)]

(* A request arrives; a commitment that is not 32 bytes of hex is refused  *)
(* before the store is called.                                             *)
SendAddLeaf(r, i, c) ==
  /\ add[r].pc \in AddAnswered
  /\ add' = [add EXCEPT ![r] =
               NewAdd(IF c = Malformed THEN "badRequest" ELSE "ensure", i, c)]
  /\ UNCHANGED <<dbVars, pub>>

(* Mutant: add_leaf does not create the issuer. *)
AddWithoutEnsuring(r) ==
  /\ add[r].pc = "ensure"
  /\ AddSteps(r, "count")
  /\ UNCHANGED <<dbVars, pub>>

(* Store::ensure_issuer, committed on its own before the transaction. *)
AddEnsureIssuer(r) ==
  /\ add[r].pc = "ensure"
  /\ FreeConnection
  /\ EnsureIssuer(add[r].issuer)
  /\ AddSteps(r, "count")
  /\ UNCHANGED <<leafRows, publishedRoot, generatedNullifiers, pub>>

(* Mutant: COUNT without WHERE issuer_name. *)
NextPositionOverall(i) ==
  Cardinality({row \in Issuers \X (0..Capacity) : row[2] \in DOMAIN leafRows[row[1]]})

(* The position a new leaf gets: the number of leaves committed so far. *)
NextPosition(i) == LeafCount(i)

(* Mutant: off by one. *)
TreeIsOverfull(count) == count > Capacity

TreeIsFull(count) == count >= Capacity

(* BEGIN, and SELECT COUNT to choose the position.  A full tree is refused *)
(* and the transaction rolled back by being dropped.                       *)
BeginAndCount(r) ==
  LET count == NextPosition(add[r].issuer)
  IN  /\ add[r].pc = "count"
      /\ FreeConnection
      /\ add' = [add EXCEPT
                   ![r].pc = IF TreeIsFull(count) THEN "full" ELSE "insert",
                   ![r].position = count]
      /\ UNCHANGED <<dbVars, pub>>

(* Mutant: ON CONFLICT DO UPDATE. *)
InsertRefusedUpsert(i, p) == i \notin issuers

(* What INSERT INTO leaves runs into: the primary key of a committed row,  *)
(* or an issuer the foreign key does not find.                             *)
InsertRefused(i, p) == p \in DOMAIN leafRows[i] \/ i \notin issuers

(* Mutant: ON CONFLICT DO NOTHING, and the handler answers ok. *)
InsertRowOrNothing(r) ==
  /\ add[r].pc = "insert"
  /\ Uncommitted(add[r].issuer, add[r].position) = {}
  /\ AddSteps(r, IF InsertRefused(add[r].issuer, add[r].position)
                 THEN "ok" ELSE "commit")
  /\ UNCHANGED <<dbVars, pub>>

(* INSERT INTO leaves.  It waits while another open transaction has the    *)
(* same key; when it is refused, the `?` rolls back.                       *)
InsertRow(r) ==
  /\ add[r].pc = "insert"
  /\ Uncommitted(add[r].issuer, add[r].position) = {}
  /\ AddSteps(r, IF InsertRefused(add[r].issuer, add[r].position)
                 THEN "error" ELSE "commit")
  /\ UNCHANGED <<dbVars, pub>>

(* COMMIT makes the row visible.  The answer of the database may be lost   *)
(* after it took effect: the client then gets an error for a stored leaf.  *)
CommitRow(r) ==
  /\ add[r].pc = "commit"
  /\ InsertLeaf(add[r].issuer, add[r].position, add[r].commitment)
  /\ AddSteps(r, "ok") \/ AddEnds(r, "error")
  /\ UNCHANGED <<issuers, publishedRoot, generatedNullifiers, pub>>

(* Any statement may fail, or no connection be free within the pool's      *)
(* timeout; an open transaction is rolled back.                            *)
AddFails(r) ==
  /\ add[r].pc \in AddRunning
  /\ AddEnds(r, "error")
  /\ UNCHANGED <<dbVars, pub>>

(* The client disconnects: the handler's future is dropped at its await,   *)
(* and its transaction, if any, rolled back ...                            *)
AddCancelled(r) ==
  /\ add[r].pc \in AddRunning
  /\ AddEnds(r, "idle")
  /\ UNCHANGED <<dbVars, pub>>

(* ... unless the COMMIT had already been sent. *)
AddCancelledLate(r) ==
  /\ add[r].pc = "commit"
  /\ InsertLeaf(add[r].issuer, add[r].position, add[r].commitment)
  /\ AddEnds(r, "idle")
  /\ UNCHANGED <<issuers, publishedRoot, generatedNullifiers, pub>>

-----------------------------------------------------------------------------
(* POST /issuers/{name}/publish *)

PubSteps(r, pc) == pub' = [pub EXCEPT ![r].pc = pc]
PubEnds(r, pc) == pub' = [pub EXCEPT ![r] = NewPub(pc, pub[r].issuer, 0)]

(* A request arrives.  `since` is an observer: the number of leaves stored *)
(* when it did.                                                            *)
SendPublish(r, i) ==
  /\ pub[r].pc \in PubAnswered
  /\ pub' = [pub EXCEPT ![r] = NewPub("read", i, LeafCount(i))]
  /\ UNCHANGED <<dbVars, add>>

(* Mutant: takes the published root, where there is one, for the current. *)
ReadLeavesCached(r) ==
  LET i == pub[r].issuer
  IN  /\ pub[r].pc = "read"
      /\ FreeConnection
      /\ pub' = [pub EXCEPT
                   ![r].pc   = IF Leaves(i) = <<>> THEN "empty" ELSE "ensure",
                   ![r].root = IF publishedRoot[i] # NoRoot THEN publishedRoot[i]
                               ELSE IF Leaves(i) = <<>> THEN NoRoot
                               ELSE Root(Leaves(i))]
      /\ UNCHANGED <<dbVars, add>>

(* Mutant: publishes the empty tree. *)
ReadLeavesOrNone(r) ==
  /\ pub[r].pc = "read"
  /\ FreeConnection
  /\ pub' = [pub EXCEPT ![r].pc = "ensure", ![r].root = Root(Leaves(pub[r].issuer))]
  /\ UNCHANGED <<dbVars, add>>

(* Store::leaves, then the root is computed from what was read; an empty   *)
(* tree is refused, and one that does not fit (there is none:              *)
(* PositionsContiguous).                                                   *)
ReadLeaves(r) ==
  LET leaves == Leaves(pub[r].issuer)
      pc == IF leaves = <<>> THEN "empty" ELSE IF Fits(leaves) THEN "ensure" ELSE "full"
  IN  /\ pub[r].pc = "read"
      /\ FreeConnection
      /\ pub' = [pub EXCEPT
                   ![r].pc   = pc,
                   ![r].root = IF pc = "ensure" THEN Root(leaves) ELSE NoRoot]
      /\ UNCHANGED <<dbVars, add>>

(* Store::set_published_root, first statement. *)
PubEnsureIssuer(r) ==
  /\ pub[r].pc = "ensure"
  /\ FreeConnection
  /\ EnsureIssuer(pub[r].issuer)
  /\ PubSteps(r, "update")
  /\ UNCHANGED <<leafRows, publishedRoot, generatedNullifiers, add>>

(* Store::set_published_root, second statement; its answer may be lost. *)
UpdateRoot(r) ==
  /\ pub[r].pc = "update"
  /\ FreeConnection
  /\ SetPublishedRoot(pub[r].issuer, pub[r].root)
  /\ PubSteps(r, "ok") \/ PubEnds(r, "error")
  /\ UNCHANGED <<issuers, leafRows, generatedNullifiers, add>>

PubFails(r) ==
  /\ pub[r].pc \in PubRunning
  /\ PubEnds(r, "error")
  /\ UNCHANGED <<dbVars, add>>

PubCancelled(r) ==
  /\ pub[r].pc \in PubRunning
  /\ PubEnds(r, "idle")
  /\ UNCHANGED <<dbVars, add>>

-----------------------------------------------------------------------------
(* The process dies: every request is gone and every open transaction      *)
(* rolled back; the tables survive.                                        *)
Crash ==
  /\ add' = [r \in Adders |-> NewAdd("idle", add[r].issuer, add[r].commitment)]
  /\ pub' = [r \in Publishers |-> NewPub("idle", pub[r].issuer, 0)]
  /\ UNCHANGED dbVars

AddProceeds(r) ==
  AddEnsureIssuer(r) \/ BeginAndCount(r) \/ InsertRow(r) \/ CommitRow(r)

PubProceeds(r) ==
  ReadLeaves(r) \/ PubEnsureIssuer(r) \/ UpdateRoot(r)

Arrivals ==
  \/ \E r \in Adders, i \in Issuers, c \in Commitments \cup {Malformed} : SendAddLeaf(r, i, c)
  \/ \E r \in Publishers, i \in Issuers : SendPublish(r, i)

(* One request takes a step, or fails, or loses its client. *)
RequestSteps ==
  \/ \E r \in Adders :
       \/ AddProceeds(r)
       \/ AddFails(r)
       \/ AddCancelled(r)
       \/ AddCancelledLate(r)
  \/ \E r \in Publishers :
       \/ PubProceeds(r)
       \/ PubFails(r)
       \/ PubCancelled(r)

Next == Arrivals \/ RequestSteps \/ Crash

Spec == Init /\ [][Next]_vars

(* tokio polls every ready task, Postgres answers every statement or fails *)
(* it, and the pool hands out connections in the order they were asked for *)
(* (strong fairness: a connection need not stay free).  Nothing is assumed *)
(* of clients, failures or crashes.                                        *)
Fairness ==
  /\ \A r \in Adders : SF_vars(AddProceeds(r))
  /\ \A r \in Publishers : SF_vars(PubProceeds(r))

FairSpec == Spec /\ Fairness

-----------------------------------------------------------------------------
(* Type invariant *)

AddRequests ==
  [pc         : AddRunning \cup AddAnswered,
   issuer     : Issuers,
   commitment : Commitments \cup {Malformed},
   position   : 0..Capacity]

(* Every variable has its type: the rows of an issuer are a function from  *)
(* a finite set of positions to commitments, a request is a record, and a  *)
(* root is whatever some request computed (its value is constrained by     *)
(* PublishCoversEarlierLeaves and ImplementsCredentialTree).  The rows of  *)
(* generated_nullifiers are HolderApi's.                                   *)
TypeOK ==
  /\ issuers \subseteq Issuers
  /\ DOMAIN leafRows = Issuers
  /\ \A i \in Issuers :
       /\ DOMAIN leafRows[i] \subseteq 0..(Capacity - 1)
       /\ \A p \in DOMAIN leafRows[i] : leafRows[i][p] \in Commitments
  /\ DOMAIN publishedRoot = Issuers
  /\ add \in [Adders -> AddRequests]
  /\ DOMAIN pub = Publishers
  /\ \A r \in Publishers :
       /\ pub[r].pc \in PubRunning \cup PubAnswered
       /\ pub[r].issuer \in Issuers
       /\ pub[r].since \in 0..Capacity

(* Safety *)

(* The positions of an issuer's leaves are 0, 1, 2, ... without a gap, and *)
(* there are never more than the tree holds, whatever add_leaf requests    *)
(* race, fail, are cancelled or die: the count one transaction reads is    *)
(* the position it inserts, and the primary key stops two from using it.   *)
(* Store::leaves relies on it (it drops the positions) and so does every   *)
(* caller of from_leaves.                                                  *)
PositionsContiguous ==
  \A i \in Issuers :
    /\ LeafCount(i) <= Capacity
    /\ DOMAIN leafRows[i] = 0..(LeafCount(i) - 1)

(* A leaf whose request was answered ok is stored at the position the      *)
(* answer names, with the commitment that was sent, and no two answers     *)
(* name the same position of one issuer.                                   *)
AcknowledgedLeafDurable ==
  \A r \in Adders : add[r].pc = "ok" =>
    /\ add[r].position \in DOMAIN leafRows[add[r].issuer]
    /\ leafRows[add[r].issuer][add[r].position] = add[r].commitment
    /\ \A s \in Adders \ {r} :
         add[s].pc = "ok" /\ add[s].issuer = add[r].issuer
           => add[s].position # add[r].position

(* No statement is ever refused for want of its issuer, and no UPDATE of   *)
(* published_root is lost on a missing row: ensure_issuer committed first. *)
StatementsFindTheirIssuer ==
  /\ \A r \in Adders :
       add[r].pc \in {"count", "insert", "commit"} => add[r].issuer \in issuers
  /\ \A r \in Publishers :
       pub[r].pc \in {"ensure", "update"} => pub[r].issuer \in issuers

(* The root a publish persists and answers with is the root of a prefix of *)
(* the stored leaves that has every leaf stored when the request arrived.  *)
(* (It need not have the leaves added while the request ran.)              *)
PublishCoversEarlierLeaves ==
  \A r \in Publishers : pub[r].pc \in {"ensure", "update", "ok"} =>
    \E n \in pub[r].since..LeafCount(pub[r].issuer) :
      /\ n > 0
      /\ pub[r].root = Root(SubSeq(Leaves(pub[r].issuer), 1, n))

-----------------------------------------------------------------------------
(* Action properties *)

(* Stored leaves never change position or value and never go away, not     *)
(* even in a crash: a witness built from a prefix stays right.             *)
LeavesAppendOnly ==
  [][\A i \in Issuers :
       \A p \in DOMAIN leafRows[i] :
         /\ p \in DOMAIN leafRows'[i]
         /\ leafRows'[i][p] = leafRows[i][p]]_vars

-----------------------------------------------------------------------------
(* Refinement: the tables are the abstract credential trees. *)

Tree == INSTANCE CredentialTree WITH
          known <- issuers,
          tree  <- [i \in Issuers |-> Leaves(i)],
          root  <- publishedRoot

(* Requests, transactions and crashes all disappear behind CredentialTree: *)
(* each step creates an issuer, appends one leaf, publishes the root of a  *)
(* prefix, or changes nothing the tables show.                             *)
ImplementsCredentialTree == Tree!Spec

-----------------------------------------------------------------------------
(* Liveness *)

(* Every add_leaf request is answered or its client leaves: no cycle of    *)
(* waits for pooled connections and row locks holds it up for ever, so it  *)
(* never takes a timeout to get out of one.                                *)
AddSettles ==
  \A r \in Adders : add[r].pc \in AddRunning ~> add[r].pc \in AddAnswered

(* The same for publish. *)
PublishSettles ==
  \A r \in Publishers : pub[r].pc \in PubRunning ~> pub[r].pc \in PubAnswered

-----------------------------------------------------------------------------
(* What the documentation of publish says (issuer.rs:41): "recompute the   *)
(* current root, persist it, and return it".  When a publish is answered,  *)
(* the root it persisted is the root of the leaves stored at that moment.  *)
(* The code does not keep this: leaves may be added between the read and   *)
(* the update.                                                             *)
PublishPersistsCurrentRoot ==
  [][\A r \in Publishers :
       pub[r].pc = "update" /\ pub'[r].pc = "ok"
         => publishedRoot'[pub[r].issuer] = Root(Leaves(pub[r].issuer))]_vars
=============================================================================

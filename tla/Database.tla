------------------------------ MODULE Database ------------------------------
(***************************************************************************)
(* The Postgres schema of migrations/0001_init.sql and the statements of   *)
(* src/store.rs.  Every statement outside add_leaf's transaction runs in   *)
(* its own implicit transaction, so it is one atomic read or write of the  *)
(* tables; add_leaf's transaction is spread over the handler's steps in    *)
(* IssuerApi.  Tables hold only committed rows.                            *)
(*                                                                         *)
(* Stored values are the canonical hex of a field element, which from_hex  *)
(* reads back to the same element, so tables hold the elements themselves. *)
(***************************************************************************)
EXTENDS Crypto, FiniteSets

CONSTANTS
  Issuers,      \* issuer names clients use
  Commitments,  \* field elements a client may add as a leaf
  Nullifiers,   \* field elements that are nullifiers of holders' secrets
  NoRoot        \* SQL NULL in issuers.published_root

VARIABLES
  issuers,              \* rows of table issuers: the names known
  leafRows,             \* table leaves: issuer -> (position -> commitment)
  publishedRoot,        \* column issuers.published_root
  generatedNullifiers   \* table generated_nullifiers

dbVars == <<issuers, leafRows, publishedRoot, generatedNullifiers>>

DbInit ==
  /\ issuers = {}
  /\ leafRows = [i \in Issuers |-> <<>>]
  /\ publishedRoot = [i \in Issuers |-> NoRoot]
  /\ generatedNullifiers = {}

(* SELECT COUNT( * ) FROM leaves WHERE issuer_name = i *)
LeafCount(i) == Cardinality(DOMAIN leafRows[i])

(* How many rows of issuer i sort before position p. *)
Rank(i, p) == Cardinality({q \in DOMAIN leafRows[i] : q < p})

(* SELECT commitment FROM leaves WHERE issuer_name = i ORDER BY position   *)
Leaves(i) ==
  [k \in 1..LeafCount(i) |->
     leafRows[i][CHOOSE p \in DOMAIN leafRows[i] : Rank(i, p) = k - 1]]

(* INSERT INTO issuers ... ON CONFLICT DO NOTHING *)
EnsureIssuer(i) == issuers' = issuers \cup {i}

(* The committed effect of INSERT INTO leaves.  The primary key            *)
(* (issuer_name, position) is enforced by the caller's guard.              *)
InsertLeaf(i, p, c) ==
  leafRows' = [leafRows EXCEPT ![i] =
                 [q \in DOMAIN leafRows[i] \cup {p} |->
                    IF q = p THEN c ELSE leafRows[i][q]]]

(* UPDATE issuers SET published_root ... WHERE name = i; without the row   *)
(* it updates nothing and still succeeds.                                  *)
SetPublishedRoot(i, root) ==
  publishedRoot' = [publishedRoot EXCEPT ![i] = IF i \in issuers THEN root ELSE @]

(* INSERT INTO generated_nullifiers ... ON CONFLICT DO NOTHING *)
RecordNullifier(i, n) ==
  generatedNullifiers' = generatedNullifiers \cup {<<i, n>>}
=============================================================================

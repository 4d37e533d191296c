----------------------------- MODULE IssuerReads -----------------------------
(***************************************************************************)
(* The read handlers of src/api/issuer.rs beside the write handlers        *)
(* (IssuerApi), over one database and one pool:                            *)
(*   GET /issuers              issuer::list_issuers   one statement        *)
(*   GET /issuers/{name}/root  issuer::get_root       one statement        *)
(*   GET /issuers/{name}       issuer::issuer_info    three statements,    *)
(*                                                    no transaction       *)
(* The fields `since` of a request are observers: what its issuer's tables *)
(* held when it arrived.  The step of a write request is IssuerApi!Next.   *)
(***************************************************************************)
EXTENDS IssuerApi

CONSTANT Readers   \* concurrent GET requests

VARIABLE read      \* the reads, by process

readsVars == <<vars, read>>

(* A tree never hashes to what stands for SQL's NULL. *)
ASSUME NullAssumption ==
  \A n \in 1..Capacity : \A leaves \in [1..n -> Commitments] : Root(leaves) # NoRoot

-----------------------------------------------------------------------------
(* Where a read stands: the statement it is about to make, or its answer.  *)

ReadRunning == {"listIssuers", "getRoot", "exists", "count", "infoRoot"}
ReadAnswered == {"idle", "list", "root", "noRoot", "info", "noIssuer", "error"}

Request(pc, i, since) ==
  [pc |-> pc, issuer |-> i, since |-> since,
   names |-> {}, count |-> 0, root |-> NoRoot]

Seen(known, leaves, published) ==
  [known |-> known, leaves |-> leaves, published |-> published]

Nothing == Seen({}, 0, FALSE)

ReadsInit ==
  /\ Init
  /\ \E i \in Issuers : read = [r \in Readers |-> Request("idle", i, Nothing)]

SendRead(r, pc, i, since) ==
  /\ read[r].pc \in ReadAnswered
  /\ read' = [read EXCEPT ![r] = Request(pc, i, since)]
  /\ UNCHANGED vars

(* A request arrives: GET /issuers, /issuers/{name}/root, /issuers/{name}. *)
SendReads(r) ==
  \E i \in Issuers :
    \/ SendRead(r, "listIssuers", i, Seen(issuers, 0, FALSE))
    \/ SendRead(r, "getRoot", i, Seen({}, 0, publishedRoot[i] # NoRoot))
    \/ SendRead(r, "exists", i, Seen(issuers \cap {i}, LeafCount(i), FALSE))

(* One statement on a connection of the pool: its result goes to a field,  *)
(* and the handler stands at the next statement, or has its answer.        *)
Selects(r, pc, field, value, next) ==
  /\ read[r].pc = pc
  /\ FreeConnection
  /\ read' = [read EXCEPT ![r].pc = next, ![r][field] = value]
  /\ UNCHANGED vars

(* Store::list_issuers *)
ListIssuers(r) == Selects(r, "listIssuers", "names", issuers, "list")

(* Mutant: 404 unless the published root is that of the leaves. *)
GetRootIfCurrent(r) ==
  LET root == publishedRoot[read[r].issuer]
  IN  Selects(r, "getRoot", "root", root,
              IF root = Root(Leaves(read[r].issuer)) THEN "root" ELSE "noRoot")

(* Store::published_root; no row and NULL are both 404. *)
GetRoot(r) ==
  LET root == publishedRoot[read[r].issuer]
  IN  Selects(r, "getRoot", "root", root, IF root = NoRoot THEN "noRoot" ELSE "root")

(* Mutant: the root is read before the leaves are counted. *)
InfoReadsRootFirst(r) ==
  LET i == read[r].issuer
  IN  \/ Selects(r, "exists", "names", {}, IF i \in issuers THEN "count" ELSE "noIssuer")
      \/ Selects(r, "count", "root", publishedRoot[i], "infoRoot")
      \/ Selects(r, "infoRoot", "count", LeafCount(i), "info")

(* Store::issuer_exists (404 if not), then leaf_count, then published_root. *)
InfoReads(r) ==
  LET i == read[r].issuer
  IN  \/ Selects(r, "exists", "names", {}, IF i \in issuers THEN "count" ELSE "noIssuer")
      \/ Selects(r, "count", "count", LeafCount(i), "infoRoot")
      \/ Selects(r, "infoRoot", "root", publishedRoot[i], "info")

ReadProceeds(r) == ListIssuers(r) \/ GetRoot(r) \/ InfoReads(r)

(* A statement fails, or its connection times out; the client disconnects. *)
ReadEnds(r) ==
  /\ read[r].pc \in ReadRunning
  /\ \E pc \in {"error", "idle"} :
       read' = [read EXCEPT ![r] = Request(pc, read[r].issuer, Nothing)]
  /\ UNCHANGED vars

WriteStep == (Arrivals \/ RequestSteps) /\ UNCHANGED read

ReadStep ==
  \E r \in Readers :
    \/ SendReads(r)
    \/ ReadProceeds(r)
    \/ ReadEnds(r)

(* The process dies with every request in it. *)
CrashOfAll ==
  /\ Crash
  /\ read' = [r \in Readers |-> Request("idle", read[r].issuer, Nothing)]

ReadsNext == WriteStep \/ ReadStep \/ CrashOfAll

ReadsSpec == ReadsInit /\ [][ReadsNext]_readsVars

(* IssuerApi's fairness for add_leaf: the pool serves those who wait in    *)
(* the order they came, and statements are answered.  Whoever keeps a      *)
(* connection between two statements is an add_leaf, so nothing need be    *)
(* assumed of the others.                                                  *)
ReadsFairness == \A r \in Adders : SF_readsVars(AddProceeds(r) /\ UNCHANGED read)

ReadsFairSpec == ReadsSpec /\ ReadsFairness

-----------------------------------------------------------------------------
(* Safety *)

(* Nothing an answer says was missing or smaller had been there before the *)
(* request was made: a 404 means no published root, or no such issuer,     *)
(* when the client asked; a list has every issuer known by then, a summary *)
(* every leaf stored by then.  So a client reads its own completed writes, *)
(* although no read shares a transaction with another.                     *)
ReadsSeeEarlierWrites ==
  \A r \in Readers :
    LET q == read[r]
    IN  /\ q.pc = "list" => q.since.known \subseteq q.names
        /\ q.pc = "noIssuer" => q.issuer \notin q.since.known
        /\ q.pc = "noRoot" => ~q.since.published
        /\ q.pc = "info" => q.since.leaves <= q.count

(* What an answer says was there is there still: its issuers exist, it     *)
(* counts no leaf that is not stored, and its root is that of a prefix of  *)
(* the leaves.  No answer shows a row whose transaction has not committed. *)
ReadsReportOnlyStored ==
  \A r \in Readers :
    LET q == read[r]
    IN  /\ q.names \subseteq issuers
        /\ q.count <= LeafCount(q.issuer)
        /\ q.root # NoRoot =>
             \E n \in 1..LeafCount(q.issuer) :
               q.root = Root(SubSeq(Leaves(q.issuer), 1, n))

-----------------------------------------------------------------------------
(* Action properties *)

(* The root of the first n of the leaves; none is published for n = 0. *)
RootOfFirst(i, n) == IF n = 0 THEN NoRoot ELSE Root(SubSeq(Leaves(i), 1, n))

(* issuer_info counts the leaves before it reads the root, so its answer   *)
(* errs to one side only: when its root covers fewer leaves than its count *)
(* the published root really does lag behind the leaves at that moment,    *)
(* however many add_leafs and publishes ran between the two statements.    *)
(* (The other way round a current root could be reported as out of date.)  *)
InfoStaleOnlyIfStale ==
  \A r \in Readers :
    LET i == read[r].issuer
        q == read'[r]
    IN  /\ read[r].pc = "infoRoot"
        /\ q.pc = "info"
        /\ \A n \in q.count..LeafCount(i) : q.root # RootOfFirst(i, n)
        => publishedRoot[i] # RootOfFirst(i, LeafCount(i))

InfoNeverFalselyStale == [][InfoStaleOnlyIfStale]_readsVars
=============================================================================

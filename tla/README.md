# VeilProof server: a TLA+ model

`veilproof-server` keeps, for every issuer, a fixed-depth Merkle tree of
credential commitments in Postgres, publishes its root, and makes Groth16
membership proofs for holders. This directory models the server's own logic
(its handlers, its tables, its proof budget, its Merkle tree and the relation its
circuit enforces, where its keys come from, and how the process starts, serves and
stops), checks it with TLC on small instances, and proves most of the safety
properties for every instance with TLAPS.

File and line references are to the repository as it stands beside this project.

## The system

| Part | Code | State | Operations |
| --- | --- | --- | --- |
| Merkle tree | `src/merkle.rs` | `leaves` | `from_leaves`, `push`, `root`, `witness` |
| Circuit | `src/crypto/circuit.rs`, `mimc.rs` | none | leaf and nullifier derivation, folding a witness to the root |
| Crypto core | `src/crypto/mod.rs` | `Keys` (pk, vk) | `prove` with its self-check, `setup`, `save`/`load`, `vk_digest` |
| Store | `src/store.rs`, `migrations/0001_init.sql` | tables `issuers`, `leaves`, `generated_nullifiers`; a pool of 5 connections | `add_leaf` (a transaction), and single statements |
| Issuer API | `src/api/issuer.rs` | none of its own | `add_leaf`, `publish`; reads: `get_root`, `issuer_info`, `list_issuers` |
| Holder API | `src/api/holder.rs`, `src/api/mod.rs` | the semaphore of the proof budget, running blocking tasks | `prove` behind `limit_concurrent_proofs` |
| Router, health | `src/api/mod.rs`, `src/main.rs` | `AppState` (store, keys) | routes, `/health`, `/version` |
| Key source, boot | `src/keysource.rs`, `src/main.rs` | key files or URLs, the vk pin | `load_from_env`, connect, serve, graceful shutdown |
| Tools | `src/bin/*.rs` | key files | `keygen`, `vk`, `commit` |
| Encodings | `src/crypto/encoding.rs` | none | Soroban's byte layout, reduction mod r |
| Registry contract | external | on-chain roots, used nullifiers | `publish_root`, `verify_credential` |

**Interaction.** The handlers share nothing in memory but the connection pool,
the keys (immutable after boot) and the semaphore. Everything else they say to
each other goes through the tables, one SQL statement at a time; only
`Store::add_leaf` groups two statements into a transaction. So every handler is
a sequence of atomic statements with an `await` at each, and any other request
may run in between, the client may disconnect (axum drops the handler's future),
the statement may fail, or the process may die.

**What is hard.** Two `add_leaf` transactions read the same `COUNT` under READ
COMMITTED; `publish` reads leaves and writes the root without a transaction;
`prove` reads the leaves, then the published root, then proves for seconds; a
blocking proof cannot be cancelled although its request can; a transaction keeps
a pooled connection while it waits for a row lock; the answer to a COMMIT can be
lost; `issuer_info` answers from three reads of three moments; key files are written,
copied and read one after the other with nothing to lock them; a graceful shutdown
waits for everything that is still running. `PROJECT.json` lists these under `hazards`, each at its line.

**What makes each part correct.**

- *Merkle tree and circuit*: root, witness and folding are three separate
  pieces of code that must agree on every position; a witness opens one leaf only; no
  path, honest or made up, leads from a non-member's secret to the root.
- *Store and issuer API*: positions of an issuer's leaves are `0..n-1` with
  `n <= 2^DEPTH`; stored leaves never change; an acknowledged leaf is stored where
  the answer says; a published root is the root of a prefix that has every leaf
  stored before the publish was asked for; every request is answered.
- *Holder API*: permits are conserved on every exit; a served proof verifies, for
  this holder and address, against a root of a prefix of the stored leaves; a member of the tree
  that was read is given one; every
  request whose body has arrived is answered.
- *Reads*: an answer misses nothing that was written before it was asked for, shows
  nothing that is not stored, and does not report a current root as out of date.
- *Key source*: a pinned server answers only proofs the registry accepts; the
  development setup never stands in for a source that fails; a restart over whole
  files ends a mismatch.
- *Server*: with all kinds of request over one pool, each still finds what it
  assumes of the others, and none starves; `/health` answers while proofs run; after
  a signal the process ends.

## The modules

| Module | Models | Extends / uses |
| --- | --- | --- |
| `Merkle` | `merkle.rs` and the circuit's loop, as operators | |
| `Crypto` | derivations, the circuit's relation, `prove` and its self-check | `Merkle` |
| `MerkleTree` | the tree as an object, with the properties of both | `Crypto` |
| `Database` | the tables and the statements on them | `Crypto` |
| `CredentialTree` | abstract: one append-only leaf sequence and one root per issuer | `Merkle` |
| `IssuerApi` | `add_leaf` and `publish` requests, statement by statement | `Database`, `CredentialTree` |
| `IssuerReads` | `list_issuers`, `get_root`, `issuer_info` beside the writes | `IssuerApi` |
| `HolderApi` | `prove` requests, the budget, detached proofs | `Database` |
| `VeilproofServer` | issuer, prove and health requests over one database, one pool and the worker threads; signal, exit, death | `IssuerApi`, an instance of `HolderApi` |
| `KeySource` | `keygen`, uploads, boots, and the proofs a server with those keys answers | `Crypto` |
| `MerkleProofs` | TLAPS: induction, powers of two, and what the operators of `Merkle` and `Crypto` compute | `Crypto` |
| `MerkleTreeProofs`, `DatabaseProofs`, `IssuerApiProofs`, `IssuerReadsProofs`, `HolderApiProofs`, `ServerProofs`, `KeySourceProofs` | TLAPS proofs | the modules they name, `MerkleProofs` |
| `MC*` | constants for TLC | |

A module holds, beside each definition that a run mutates, the mutant (marked
"Mutant:"). No specification uses a mutant: they are there to show that each
property can be broken by a plausible bug in the code.

### How the code became state and actions

**Values.** A field element is a model value or a hash of others. `Hash2` is the
ordered pair of its arguments: MiMC is taken to be collision-free. A stored value
is the canonical hex of a field element and reads back as itself, so tables hold
field elements. The padding value (`EmptyLeaf`, the field element 0) is an
ordinary commitment that clients can add. Groth16 is idealised: a proof records
its setup, its public inputs and whether the witness satisfied the circuit, and
verifies exactly when all three are right.

**Tables.** `leafRows[i]` is the function from positions to commitments that the
primary key `(issuer_name, position)` makes of table `leaves`; `Leaves(i)` is the
`SELECT ... ORDER BY position`. Only committed rows are in it. The row that an
open transaction has inserted is the control state `"commit"` of its request.

**`add_leaf`** (`store.rs:73-97`). `AddEnsureIssuer`; `BeginAndCount` (BEGIN and
COUNT, 409 when full); `InsertRow`, which waits while another open transaction has
inserted the same key and turns into an error (500) when that row is committed;
`CommitRow`, whose answer may be lost. `AddFails` is any statement failing or the
pool timing out; `AddCancelled` and `AddCancelledLate` are the client leaving
before and after COMMIT was sent. A statement already sent by a request whose
client leaves or whose process dies may still take effect: that is the step itself
followed by the cancellation, so it needs no further action.

**`publish`** (`issuer.rs:50-67`). `ReadLeaves` (400 when empty, 409 when
`from_leaves` says the tree does not fit), `PubEnsureIssuer`, `UpdateRoot`. No run takes
the 409, because of `PositionsContiguous`; nor the one of `prove`. The field `since`
is an observer: the leaf count when the request arrived.

**`prove`** (`holder.rs:49-110`, `mod.rs:91-115`). `Admit`/`RefuseBusy` are
`try_acquire_owned`; `BodyArrives` is the `Json` extractor, which runs *inside* the
permit; `ReadTree`, `CompareRoot`, `Prove`, `Record` follow the handler, and
`RecordFails` is its last branch: the nullifier is not booked, for want of a connection
perhaps, and the proof is answered all the same. Every exit goes through `Answer` or, with a
proof, `AnswerProof`: the drop of `_permit` and of whatever else the handler had read.
`ProveCancelled` drops the future; when the blocking proof has started it is `ProofDetached`: the permit comes
back, the proof runs on and is counted by `detached`. `Restart` may load any pair of
key files, matching or not.

**The reads** (`issuer.rs:69-126`). One `Selects` per statement: `list_issuers` and
`get_root` make one, `issuer_info` makes three (`issuer_exists`, `leaf_count`,
`published_root`) on a connection borrowed each time. `since` is an observer: what the
tables held of the asked-for when the request arrived. Reads write nothing, so
`IssuerReads` is `IssuerApi` with one variable more.

**The pool.** Only `add_leaf`'s transaction keeps a connection across steps; every
other statement, `/health`'s ping included, needs one to be free (`FreeConnection`).

**Workers.** A step of a handler needs a worker thread for its moment only; what runs
for seconds is the proof, and `spawn_blocking` moves it off the workers
(`OffWorkers`, `holder.rs:80-93`). Proofs end whether a worker is free or not. With the
code's `OffWorkers` no worker is ever kept, so `FreeWorker` is true throughout the run; it is
there for the mutant that proves on the worker, the outage `holder.rs:81` describes.

**Trees** (`merkle.rs:47-76`). `Fits` is the check in `from_leaves`: a caller whose list does
not pass it gets no tree, so `FromLeaves` describes the trees there are to begin with.
`Witness` is for indices of stored leaves: its other answer, `IndexOutOfRange`, needs an index
that its one caller, `crypto::prove`, does not pass (`FirstIndexOfMember`).

**Shutdown** (`main.rs:38-66`). `Signal` is SIGTERM or Ctrl-C. From then on no connection is
accepted, but a request that a client has half sent is still waited for and, once read,
answered: `stage` is `"unread"` while there may be one whose head, or an issuer's request whose
body, is not all read; requests then still arrive (`Arrives`), and the last one to arrive or to
be given up (`UnreadGone`) ends it. A `prove` request whose head is read is admitted at once and
reads its body inside the permit: that is its own state `"body"`. In stage `"stopping"` nothing
arrives any more (`TakesRequests`). `Exit` needs every request answered and, because returning
from `main` drops the runtime and that waits for its blocking threads, every detached
proof done. `Restart` is a death at any moment; both are followed by a new process. The probe's
answers, 200 or 503, are not kept: nothing depends on them.

**Key files** (`keysource.rs`, `crypto/mod.rs:37-84`, `bin/keygen.rs`). Per place (a
directory, a URL) and file: missing, truncated by `fs::write` and not yet filled
(`Partial`), or the key of one setup. `keygen` writes `pk.bin` and then `vk.bin`, each in
two steps, and may die at any of them; `Upload` copies one file as it is. A boot reads
one file after the other (`Read`), parses both and compares the pin (`CheckKeys`), and
connects and binds (`Listen`); any of it may fail. `Prove` answers a proof of a member only
if the self-check passes. The digest is idealised as injective.

**`Environment`** of `HolderApi` is what issuers may do to the tables: the steps of
`CredentialTree`. `VeilproofServer` replaces it by `IssuerApi`; that `IssuerApi` does no more
is proved (`IssuersAreTheEnvironment`) and checked by the run `server`, so what holds of
`HolderApi` holds in the server.

## What is checked

| Run | Instance | Shows |
| --- | --- | --- |
| `merkle_tree` | depth 3, 3 leaf values, 2 setups | `WitnessFoldsToRoot`, `WitnessBindsLeaf`, `RootIsBalancedHash` (against a definition by halves), `MemberProvesWithMatchingKeys`, `OnlyMembersSatisfyCircuit`, `PushOfRealLeafChangesRoot` |
| `add_leaf` | 3 adders, 2 issuers, capacity 2, 2 connections | `PositionsContiguous`, `AcknowledgedLeafDurable`, `LeavesAppendOnly` |
| `publish` | 2 adders, 2 publishers, capacity 2 | `StatementsFindTheirIssuer`, `PublishCoversEarlierLeaves`, `ImplementsCredentialTree` |
| `issuer_reads` | 2 adders, 1 publisher, 1 reader, 2 connections | `ReadsSeeEarlierWrites`, `ReadsReportOnlyStored`, `InfoNeverFalselyStale`, `AddSettles` |
| `prove` | 3 provers, 2 addresses, budget 2, 2 setups | `PermitsConserved`, `ServedProofIsSound`, `RowsMeanProofs`, `MembersGetProofs` |
| `server` | 1 request of each kind, 1 connection, 1 worker, budget 1 | `IssuersMeetHoldersAssumption`, `PublishSettles`, `ProveSettles`, `HealthSettles`, `ShutdownCompletes` |
| `boot` | the development setup and 2 others, both places | `PinnedProofsAccepted`, `DevKeysOnlyUnconfigured`, `RestartHeals` |

Five runs show where the code and its documentation part (`findings`):

- `merkle_padding`: the padding value is called "Distinct" (`merkle.rs:22`) and
  `prove` is said to refuse a changed tree (`README.md:123`), but 0 can be added as a
  commitment and leaves the root as it was.
- `publish_not_current`: `publish` is said to persist "the current root"
  (`issuer.rs:41`); a leaf committed between its read and its update is not in it.
- `prove_detached`: the permit is said to bound "the number of proofs actually
  running" (`api/mod.rs:97`); a disconnect frees the permit but not the proof.
- `prove_not_current`: `prove` is said never to "hand back a proof the contract will
  reject" (`holder.rs:63`) because of a check made seconds earlier; a publish in
  between makes the answer's root an old one.
- `boot_pin`: with the pin set the server is said to refuse to start "unless its setup is
  the one the on-chain circuit was registered with" (`.env.example:21`); the pin is on
  `vk.bin` alone (`keysource.rs:108`), and a `pk.bin` of another setup beside it boots,
  serves, and refuses every proof with a 500.

The runs `merkle_tree`, `add_leaf`, `prove` and `boot` also check their module's `TypeOK`.

**Bounds.** Depth 1 (capacity 2) in the runs with requests: two positions are
enough for two requests to want the same one, for the boundary at the capacity, for a
root to be older than another, and for a prefix to be proper. Three adders are enough
for two uncommitted rows and a third request that sees one of them committed.
The Merkle properties are about index arithmetic and are checked at depth 3, on every tree.
`OnlyMembersSatisfyCircuit` lets a prover make up paths from the nodes in `PathNodes`: leaves
and the roots of empty subtrees, so that some made-up paths are right and most are wrong (the
theorem is for every `PathNodes`).
Two provers would do for the budget; three let one be refused while two run. `MaxDetached`
is 1: it bounds how many abandoned proofs are counted, and one is enough for the next
request to exceed the budget. Two addresses let a proof be made for the wrong one. `issuer_reads` has one issuer and one commitment: what a read
could mix up are moments, not issuers, and two adders and a publisher move the tables between
any two of its statements; two adders on two connections are also the smallest case in which
a wait for a row lock and a wait for a connection could close a cycle. `server` has one
connection and one worker, where anything that keeps either would stop everybody else. `boot`
has two setups beside the development one: one registered, and one to be mixed up with it.
`keygen` never draws a setup twice, and this is what ends it in the model (`drawn`). Request slots are reused, so behaviours are infinite; the only
counters, positions, are bounded by the capacity as in the code. Symmetry is used only in
runs without liveness, on request names and addresses.

**Fairness.** `IssuerApi!Fairness` and `VeilproofServer!ServerFairness`: tokio polls ready
tasks, Postgres answers statements, and connections and row locks are handed out in the order
they were asked for (strong: sqlx's pool is fair by default, and a connection or a worker does
not stay free while one waits). `Exit` is weakly fair: once nothing is left to wait for, `main`
returns. `issuer_reads` assumes it of `add_leaf` only: no one else keeps a connection, so no one
else can be in its way. Nothing is assumed of how long proofs take, of clients, failures,
disconnects, deaths or timeouts. That proofs end (`ProofsEnd`) is a premise of `ProveSettles`
and `ShutdownCompletes` alone; `HealthSettles` and `PublishSettles` hold with proofs that never
end. A client that never finishes its body keeps its permit for ever: `ProveSettles` speaks of
requests whose body arrived. `ShutdownCompletes` has a second premise, `[]<>~Withheld`: there
are always moments again at which no client is holding back the rest of a request. Without it
the code's shutdown need not end, since nothing in it times such a client out. `RestartHeals` needs no fairness: its premise is that the files come to
rest whole and that the server keeps being restarted.

## What is proved

Every theorem is for all values of the constants, under the assumptions that the modules
declare of them and name: `Depth` is a positive natural, the two hash domains differ, and so
on. The one idealisation the cryptographic results rest on is that of the model itself:
`Hash2` is a pair, so it is injective.

`MerkleTreeProofs`, for any depth, any leaves, secrets and paths:

- `TypeCorrect`: `Spec => []TypeOK`
- `WitnessesFoldToRoot`: `Spec => []WitnessFoldsToRoot`
- `WitnessesBindLeaf`: `Spec => []WitnessBindsLeaf`
- `OnlyMembersProve`: `Spec => []OnlyMembersSatisfyCircuit`
- `RootsAreBalancedHashes`: `Spec => []RootIsBalancedHash`
- `MembersProve`: `Spec => []MemberProvesWithMatchingKeys`
- `RealLeavesChangeRoot`: `Spec => PushOfRealLeafChangesRoot`

They follow from `TypeOK` and from lemmas of `MerkleProofs` about the tree's operators, each of
which is an induction on the level. The library's induction theorems take an operator as a
parameter, which the provers cannot instantiate, so `MerkleProofs` starts from an induction over
*sets*, which is first-order: a set with 0 and the successors of its members has all naturals
(`NatSetInduction`, from the pigeonhole theorem of `FiniteSetTheorems`). The provers do not know
powers either: 2^n is a natural and doubles with n because it counts the subsets of 1..n
(`PowerType`, `PowerStep`, from the library's `FS_SUBSET`). On these rest

- `LevelsRecursion`, `FoldSteps`: the recursive functions in `Merkle` satisfy their equations;
- `LevelWidth`, `NodeAt`: level `h` has 2^(Depth - h) nodes, each the hash of two below it;
- `PathIndex`: halving an index `h` times walks up the tree (`DivHalves`);
- `FoldOfWitness`: folding a leaf up its witness visits the nodes of its path, up to the root;
- `FoldInjective`: with one witness, different leaves fold to different values;
- `FoldStartsAtLeaf`: *whatever* path leads to the root, each node on it is a node of the tree,
  and it starts from a slot of the padded layer (induction downwards, from the root);
- `RootInjective`: trees with the same root have the same padded layer, so a root changes
  with a real leaf, and does not with a padding one, which is the finding `merkle_padding`;
- `MemberSelfCheck`: a member's proof passes the self-check exactly with matching keys.

`OnlyMembersProve` has a second disjunct: in a tree with room, a secret whose commitment *is* the
padding value would count as a member. No such secret is known for the code's hash and value, and
in a model with `EmptyLeaf` a model value there is none; for arbitrary constants the theorem has
to say so.

`IssuerApiProofs`, for any set of issuers, requests and commitments, any depth and any pool
size. The first four are about `add_leaf`:

- `TypeCorrect`: `Spec => []TypeOK`
- `PositionsAreContiguous`: `Spec => []PositionsContiguous`
- `AcknowledgedLeavesAreDurable`: `Spec => []AcknowledgedLeafDurable`
- `LeavesAreAppendOnly`: `Spec => LeavesAppendOnly`

`PositionsContiguous` is not inductive: a commit could leave a gap if the request
aimed beyond the count, or fill a used position. The inductive invariant `IInv` adds what
the transaction knows: a request that has read its count aims at a position at most the
count of now and below the capacity (`PositionsReserved`); a row about to be committed is
neither stored nor inserted by another open transaction (`UncommittedUnique`, which is
what the wait and the unique violation of `InsertRow` are for); only parsed commitments
are inserted (`CommitmentsParsed`). Together they force the committed row to the position
`n` after `0..n-1` (`CommittedRow`). The step lemmas treat the requests that commit nothing
(`RequestStep`, `PublisherStep`), the commit (`CommitStep`) and the crash (`CrashStep`).

The other three are about `publish` and the tables as a whole:

- `PublishesCoverEarlierLeaves`: `Spec => []PublishCoversEarlierLeaves`
- `IssuersAreFound`: `Spec => []StatementsFindTheirIssuer`
- `ImplementsTree`: `Spec => ImplementsCredentialTree`, the refinement of `CredentialTree`

A publish acts on leaves it read earlier, so its invariant `PInv` speaks of the trees an
issuer has had: `PastTrees[i]` is the set of non-empty prefixes of the leaves, and it only
grows (`PastTreesGrow`, which needs `RowsContiguous`: with a gap in the positions, a new
row would shift the leaves `ORDER BY position` returns). A request that has not read
yet remembers a count no greater than the one of now (`SinceStored`); once it has, its
root is that of a past tree of at least that length (`RootsRead`), and the issuer exists
because it has leaves (`IssuersExist`). For the refinement, `TreesChange` shows that a step
leaves all sequences alone or appends one leaf to one of them, and
`RootsAndIssuersChange` that a root is replaced only by the root of a prefix.

`HolderApiProofs`, for any set of requests, holders and issuers, any budget and depth, and
any pair of key files:

- `TypeCorrect`: `Spec => []TypeOK`
- `NoPermitLeaks`: `Spec => []PermitsConserved`
- `ServedProofsAreSound`: `Spec => []ServedProofIsSound`
- `BookedNullifiersHaveProofs`: `Spec => RowsMeanProofs`
- `MembersAreGivenProofs`: `Spec => MembersGetProofs`

Here too a request acts on what it read several steps ago: between its read and its proof
it carries a member of `PastTrees` (`TreesRead`), the self-check turns it into a
sound proof of membership in that member (`CheckedProofIsSound`, `ProofsSound`,
`HeldProofsAreSound`). `RowsMeanProofs` is about the step that adds a row, for rows are never
changed: only `Record` adds one (`OnlyRecordBooks`), and its request then answers the proof it
has. That the holder is a member would not be enough, since a member's proof can fail. None of this looks inside `Root` or
`Witness`: the self-check is what makes the answer right. That there *is* an answer for a member
is another matter (`MembersAreGivenProofs`): it needs `MemberSelfCheck`, and that the tree the
request read fits its padded layer, for which the invariant carries that no issuer has more
leaves than the capacity (`TablesOK`, `ReadTreesFit`). `PermitsStep` treats all
exits alike: a request takes a permit when it enters `ProveRunning` and returns it when it
leaves. The assumptions are the constants' (`BudgetAssumption`, `DetachedAssumption`, and
`NullifiersAssumption`: `Nullifiers` has the nullifiers of the secrets). The environment
is `HolderApi!Environment`; that the issuers' requests do no more is the theorem
`IssuersAreTheEnvironment` below.

`IssuerReadsProofs`, for any number of reads beside them:

- `ReadsDisturbNoWrites`: `ReadsSpec => Spec`, so all of `IssuerApi`'s theorems stay true
- `ReadsCoverEarlierWrites`: `ReadsSpec => []ReadsSeeEarlierWrites`
- `ReadsAreStored`: `ReadsSpec => []ReadsReportOnlyStored`
- `InfoIsNeverFalselyStale`: `ReadsSpec => InfoNeverFalselyStale`

What makes them hold is that the tables grow (`TablesGrow`, a consequence of `PInv`): issuers
stay, counts do not fall, past trees remain, and a root is only replaced by that of a past
tree, so never by NULL again (`RootsStored`). The invariant `ReadInv` says at each of a
read's statements what it must still cover (`Covers`) and that what it has found is in the
tables (`Found`). One more assumption, `NullAssumption`: the root of a non-empty tree is not
what stands for SQL's NULL.

`ServerProofs`, for any number of requests of each kind, any pool and any number of workers:

- `IssuersAreTheEnvironment`: `ServerSpec => IssuersMeetHoldersAssumption`, that is
  `HolderApi!Spec`
- `ServerImplementsTree`: `ServerSpec => ImplementsCredentialTree`
- `ServerKeepsPromises`: `ServerSpec => []` of `PositionsContiguous`, `AcknowledgedLeafDurable`,
  `StatementsFindTheirIssuer` and `PublishCoversEarlierLeaves`

The issuers' invariant `PInv` mentions nothing that prove requests, probes or the shutdown
change, so it holds in the server (`OthersKeepPInv`, `ServerPInv`). Under it a commit is
`HolderApi!AddLeaf`, since the committed position is the count (`CommitIsAddLeaf`, from
`CommittedRow`), and every other step of the issuers creates an issuer, publishes the root of
a prefix or changes no table (`IssuersStep`). Server and `HolderApi` extend the same
modules; that their operators agree is shown by expanding both (`SameQueries`,
`SameRootInHolder`). With the theorems of `HolderApiProofs`, which are about
`HolderApi!Spec`, it follows that no permit leaks and every served proof is sound in the
server; the prover cannot cite theorems through an instance, so this last step is not
machine-checked.

`KeySourceProofs`, for any set of setups, from `SetupsAssumption`, `FilesAssumption` and
`PinsAssumption` (the constants are what their names say and not each other):

- `TypeCorrect`: `Spec => []TypeOK`
- `PinnedProofsAreAccepted`: `Spec => []PinnedProofsAccepted`
- `DevKeysAreOnlyUnconfigured`: `Spec => []DevKeysOnlyUnconfigured`
- `OnlyMatchingKeysServe`: `Serves(keys) <=> keys.pk = keys.vk`, what `RestartHeals` turns on

The pin says which `vk.bin` a process has, the self-check that a proof verifies under it:
`PinnedProofsAccepted` needs both to be remembered until the proof is answered
(`KeysChecked`, `ProofsChecked`). For the development setup the invariant follows a boot
from file to file (`KeysRead`), over files in which that setup never occurs (`FilesTyped`).

`DatabaseProofs` holds what the proofs about requests share: counts of positions, what `Leaves`
returns, and `PastTrees`. Facts about finite sets and cardinality are cited from the library
(`FiniteSetTheorems`), whose proofs come with it and are not checked again here.

Only model-checked: liveness (`AddSettles`, `PublishSettles`, `ProveSettles`, `HealthSettles`,
`ShutdownCompletes`, `RestartHeals`), which rests on fairness and ENABLED, out of the prover's
reach. Every other property of a passing run is stated by a theorem above. The five properties
that runs refute are of course not theorems.

## Not modelled

- *Encodings* (`crypto/encoding.rs`): Soroban's byte layout of field elements and points.
  Stateless, one pass, and compared with fixed vectors by the repository's tests. The models
  work on the values after parsing; `Malformed` stands for what `parse_fr_hex` refuses.
- *MiMC's rounds and the R1CS gadgets*: tested against vectors in the repository. The models
  take the hash to be collision-free and the circuit to enforce the relation it is built from.
- *Registry contract*: another repository, and the server never calls it. What the server owes
  it, proofs that verify under the registered key, is `PinnedProofsAccepted`; its on-chain root
  and its used nullifiers are its own.
- *`commit` and `vk`*: print one value and end. `keygen`'s writes are in `KeySource`, what it
  prints is not.
- *CORS, tracing, `/version`, the formatting of answers*: no state.
- *Timeouts* appear as failures that may happen at any moment (`AddFails`, `PubFails`,
  `ProveFails`, `ReadEnds`, `BootFails`); their lengths are not modelled.

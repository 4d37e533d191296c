------------------------------ MODULE KeySource ------------------------------
(***************************************************************************)
(* Where the trusted-setup keys come from: keygen writes pk.bin and vk.bin *)
(* one after the other, an operator may upload them, and every boot of the *)
(* server (main.rs, keysource::load_from_env) reads them one after the     *)
(* other, checks the verifying key against the pin and serves with what it *)
(* read until the process ends.  Nothing locks the files: a boot may read  *)
(* between two writes, and keygen may die between them.                    *)
(*                                                                         *)
(* A key file holds the key of one setup, or nothing that parses.  The     *)
(* digest of a verifying key is idealised as injective.  What a server     *)
(* does with its keys is crypto::prove for a holder who is a member.       *)
(***************************************************************************)
EXTENDS Crypto

CONSTANTS
  Dev,               \* the setup of crypto::dev_keys, from a known seed
  Registered,        \* the setup the on-chain circuit was registered with
  Missing, Partial,  \* no file; a file fs::write has truncated, not filled
  NoPin, BadPin,     \* VEILPROOF_VK_SHA256 unset or blank; not 64 hex digits
  Secret, Address    \* a holder in the tree

ASSUME SetupsAssumption == {Dev, Registered} \subseteq Setups
ASSUME FilesAssumption == {Missing, Partial} \cap Setups = {}

VARIABLES
  files,    \* place -> key file -> what it holds
  keygen,   \* veilproof-keygen, writing to the directory
  drawn,    \* setups keygen has drawn: OsRng draws none of them again
  server    \* the server process and its environment

vars == <<files, keygen, drawn, server>>

Places == {"url", "dir"}   \* VEILPROOF_KEYS_URL, VEILPROOF_KEYS_DIR
KeyFiles == {"pk", "vk"}

(* Keys::vk_digest, and its comparison with the pin.                       *)
VkDigest(vk) == [sha256 |-> vk]
Digests == {VkDigest(s) : s \in Setups}
Pins == {NoPin, BadPin} \cup Digests

ASSUME PinsAssumption == {NoPin, BadPin} \cap Digests = {}

(* The environment variables of a process, blank ones counting as unset.   *)
Environments == [url : BOOLEAN, dir : BOOLEAN, pin : Pins]

(* A process that has read no key file and answered no proof.              *)
Process(pc, env) == [pc |-> pc, env |-> env, pk |-> Dev, vk |-> Dev, proofs |-> {}]
Down(env) == Process("down", env)

Init ==
  /\ files = [p \in Places |-> [f \in KeyFiles |-> Missing]]
  /\ keygen = [pc |-> "idle", setup |-> Dev]
  /\ drawn = {}
  /\ server = Down([url |-> FALSE, dir |-> FALSE, pin |-> NoPin])

-----------------------------------------------------------------------------
(* veilproof-keygen: Keys::save writes pk.bin, then vk.bin; each fs::write *)
(* truncates the file before it fills it.                                  *)

KeygenStarts(s) ==
  /\ keygen.pc = "idle"
  /\ s \notin drawn \cup {Dev}
  /\ drawn' = drawn \cup {s}
  /\ keygen' = [pc |-> "openPk", setup |-> s]
  /\ UNCHANGED <<files, server>>

Writes(f, content, pc, next) ==
  /\ keygen.pc = pc
  /\ files' = [files EXCEPT !["dir"][f] = content]
  /\ keygen' = [keygen EXCEPT !.pc = next]
  /\ UNCHANGED <<drawn, server>>

KeygenSaves ==
  \/ Writes("pk", Partial, "openPk", "fillPk")
  \/ Writes("pk", keygen.setup, "fillPk", "openVk")
  \/ Writes("vk", Partial, "openVk", "fillVk")
  \/ Writes("vk", keygen.setup, "fillVk", "idle")

(* An error of the file system, or the end of the process, at any write.   *)
KeygenDies ==
  /\ keygen.pc # "idle"
  /\ keygen' = [keygen EXCEPT !.pc = "idle"]
  /\ UNCHANGED <<files, drawn, server>>

(* The operator puts the files where the URL serves them, one at a time.   *)
Upload(f) ==
  /\ files["dir"][f] # Missing
  /\ files' = [files EXCEPT !["url"][f] = files["dir"][f]]
  /\ UNCHANGED <<keygen, drawn, server>>

-----------------------------------------------------------------------------
(* A boot of the server. *)

(* The precedence of load_from_env: the URL, then the directory. *)
Source(env) == IF env.url THEN "url" ELSE IF env.dir THEN "dir" ELSE "dev"

(* Without a source the keys are the development setup. *)
Start(env) ==
  /\ server.pc = "down"
  /\ server' = Process(IF Source(env) = "dev" THEN "check" ELSE "readPk", env)
  /\ UNCHANGED <<files, keygen, drawn>>

(* Mutant: a file that cannot be had is replaced by the development key.   *)
ReadOrDev(f, pc, next) ==
  LET found == files[Source(server.env)][f]
  IN  /\ server.pc = pc
      /\ server' = [server EXCEPT !.pc = next,
                                  ![f] = IF found = Missing THEN Dev ELSE found]
      /\ UNCHANGED <<files, keygen, drawn>>

(* Mutant: the directory, where there is one, has the say for vk.bin. *)
ReadMixed(f, pc, next) ==
  LET place == IF f = "vk" /\ server.env.dir THEN "dir" ELSE Source(server.env)
  IN  /\ server.pc = pc
      /\ server' = IF files[place][f] = Missing
                   THEN Down(server.env)
                   ELSE [server EXCEPT !.pc = next, ![f] = files[place][f]]
      /\ UNCHANGED <<files, keygen, drawn>>

(* fetch or fs::read of one file; without it the boot ends. *)
Read(f, pc, next) ==
  LET found == files[Source(server.env)][f]
  IN  /\ server.pc = pc
      /\ server' = IF found = Missing
                   THEN Down(server.env)
                   ELSE [server EXCEPT !.pc = next, ![f] = found]
      /\ UNCHANGED <<files, keygen, drawn>>

ReadKeys == Read("pk", "readPk", "readVk") \/ Read("vk", "readVk", "check")

(* Mutant: takes bytes for keys unseen. *)
ParsesUnseen(pk, vk) == TRUE

(* Keys::from_bytes *)
Parses(pk, vk) == pk \in Setups /\ vk \in Setups

(* verify_digest, when the pin is set. *)
PinAllows(pin, vk) == pin = NoPin \/ pin = VkDigest(vk)

(* The keys are parsed, then checked against the pin. *)
CheckKeys ==
  /\ server.pc = "check"
  /\ server' = IF Parses(server.pk, server.vk) /\ PinAllows(server.env.pin, server.vk)
               THEN [server EXCEPT !.pc = "connect"]
               ELSE Down(server.env)
  /\ UNCHANGED <<files, keygen, drawn>>

(* Store::connect, the router, bind. *)
Listen ==
  /\ server.pc = "connect"
  /\ server' = [server EXCEPT !.pc = "serving"]
  /\ UNCHANGED <<files, keygen, drawn>>

Boots == ReadKeys \/ CheckKeys \/ Listen

(* A fetch, the database or the port fails, or the platform gives up.      *)
BootFails ==
  /\ server.pc \in {"readPk", "readVk", "check", "connect"}
  /\ server' = Down(server.env)
  /\ UNCHANGED <<files, keygen, drawn>>

(* The serving process ends, in order or not. *)
Die ==
  /\ server.pc = "serving"
  /\ server' = Down(server.env)
  /\ UNCHANGED <<files, keygen, drawn>>

-----------------------------------------------------------------------------
(* crypto::prove with the keys of this process.                            *)

Keys == [pk |-> server.pk, vk |-> server.vk]
Tree == <<LeafCommitment(Secret)>>

(* Mutant: no self-check. *)
ServesUnchecked(keys) == IsMember(Tree, Secret)

Serves(keys) == SelfCheckPasses(keys, Tree, Secret, Address)

(* A proof that fails its self-check is answered with an error. *)
Prove ==
  /\ server.pc = "serving"
  /\ Serves(Keys)
  /\ server' = [server EXCEPT
                  !.proofs = @ \cup {MembershipProof(Keys, Tree, Secret, Address)}]
  /\ UNCHANGED <<files, keygen, drawn>>

Next ==
  \/ \E s \in Setups : KeygenStarts(s)
  \/ KeygenSaves
  \/ KeygenDies
  \/ \E f \in KeyFiles : Upload(f)
  \/ \E env \in Environments : Start(env)
  \/ Boots
  \/ BootFails
  \/ Die
  \/ Prove

Spec == Init /\ [][Next]_vars

-----------------------------------------------------------------------------
(* Type invariant.  In particular whoever listens has two keys that parse: *)
(* the pair HolderApi boots with is one of its KeyPairs.                   *)
TypeOK ==
  /\ files \in [Places -> [KeyFiles -> Setups \cup {Missing, Partial}]]
  /\ keygen \in [pc    : {"idle", "openPk", "fillPk", "openVk", "fillVk"},
                 setup : Setups]
  /\ drawn \subseteq Setups \ {Dev}
  /\ server.pc \in {"down", "readPk", "readVk", "check", "connect", "serving"}
  /\ server.env \in Environments
  /\ server.pc \in {"connect", "serving"} => Keys \in KeyPairs

(* Safety *)

(* With the digest of the registered verifying key as the pin, every proof *)
(* the server answers is one the registry's verifying key accepts,         *)
(* whatever keygen, uploads and boots interleaved to: the pin is right     *)
(* about vk.bin, and the self-check about pk.bin.                          *)
PinnedProofsAccepted ==
  server.env.pin = VkDigest(Registered) =>
    \A proof \in server.proofs :
      Groth16Verify(Registered, PublicInputs(Tree, Secret, Address), proof)

(* The insecure development setup is used when neither variable is set and *)
(* never instead of a source that fails, is incomplete or half-written.    *)
DevKeysOnlyUnconfigured ==
  server.pc \in {"check", "connect", "serving"} =>
    (Dev \in {server.pk, server.vk} <=> Source(server.env) = "dev")

-----------------------------------------------------------------------------
(* Liveness *)

(* The key files of a place are whole and from one setup. *)
Clean(place) ==
  /\ files[place]["pk"] \in Setups
  /\ files[place]["vk"] = files[place]["pk"]

(* No boot leaves anything behind for the next: once the files of a place  *)
(* are whole, whatever happened to them before, and the server goes on     *)
(* being restarted, mismatched keys from that place are served no more.    *)
RestartHeals ==
  \A place \in Places :
    <>[]Clean(place) /\ []<><<Die>>_vars =>
      <>[](server.pc = "serving" /\ Source(server.env) = place
             => server.pk = server.vk)

-----------------------------------------------------------------------------
(* .env.example:21 of the pin: "When set, the server refuses to start      *)
(* unless its setup is the one the on-chain circuit was registered with."  *)
(* The code does not keep this: the pin is on vk.bin alone, and a pk.bin   *)
(* of another setup beside it boots and serves, refusing every proof.      *)
PinRefusesOtherSetups ==
  server.pc = "serving" /\ server.env.pin = VkDigest(Registered) =>
    server.pk = Registered /\ server.vk = Registered
=============================================================================

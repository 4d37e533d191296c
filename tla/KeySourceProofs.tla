---------------------------- MODULE KeySourceProofs ----------------------------
(***************************************************************************)
(* Proofs about KeySource: for any number of setups, whatever keygen,      *)
(* uploads, boots and deaths interleave to.                                *)
(***************************************************************************)
EXTENDS KeySource, MerkleProofs

-----------------------------------------------------------------------------
(* The inductive invariant. *)

Pcs == {"down", "readPk", "readVk", "check", "connect", "serving"}
Proofs == {MembershipProof(k, Tree, Secret, Address) : k \in KeyPairs}

(* No file ever holds the development setup: keygen does not draw it. *)
FilesTyped ==
  files \in [Places -> [KeyFiles -> (Setups \ {Dev}) \cup {Missing, Partial}]]

KeygenTyped ==
  /\ keygen \in [pc    : {"idle", "openPk", "fillPk", "openVk", "fillVk"},
                 setup : Setups]
  /\ keygen.pc # "idle" => keygen.setup # Dev
  /\ drawn \subseteq Setups \ {Dev}

ServerTyped ==
  server \in [pc : Pcs, env : Environments, pk : Setups \cup {Partial},
              vk : Setups \cup {Partial}, proofs : SUBSET Proofs]

(* How far a boot has read, and from where. *)
KeysRead ==
  IF Source(server.env) = "dev"
  THEN /\ server.pc \notin {"readPk", "readVk"}
       /\ server.pc # "down" => server.pk = Dev /\ server.vk = Dev
  ELSE /\ server.pc \in {"readVk", "check", "connect", "serving"} => server.pk # Dev
       /\ server.pc \in {"check", "connect", "serving"} => server.vk # Dev

(* A process past the check has keys that parse and that the pin allows. *)
KeysChecked ==
  server.pc \in {"connect", "serving"} =>
    Parses(server.pk, server.vk) /\ PinAllows(server.env.pin, server.vk)

(* Every answered proof passed the self-check with this process's keys.    *)
ProofsChecked ==
  \A proof \in server.proofs :
    /\ server.pc = "serving"
    /\ Groth16Verify(server.vk, PublicInputs(Tree, Secret, Address), proof)

IInv ==
  /\ FilesTyped
  /\ KeygenTyped
  /\ ServerTyped
  /\ KeysRead
  /\ KeysChecked
  /\ ProofsChecked

-----------------------------------------------------------------------------
(* The initial states satisfy it. *)

(* A process that has read nothing and answered nothing. *)
LEMMA FreshProcess ==
  ASSUME NEW pc \in Pcs, NEW env \in Environments,
         server' = Process(pc, env),
         pc \in {"down", IF Source(env) = "dev" THEN "check" ELSE "readPk"}
  PROVE  ServerTyped' /\ KeysRead' /\ KeysChecked' /\ ProofsChecked'
<1>1. /\ server'.pc = pc /\ server'.env = env
      /\ server'.pk = Dev /\ server'.vk = Dev /\ server'.proofs = {}
  BY DEF Process
<1>2. ServerTyped'
  BY SetupsAssumption DEF Process, ServerTyped
<1>3. Source(server.env)' = Source(env)
  BY <1>1 DEF Source
<1>4. pc \notin {"connect", "serving"}
  OBVIOUS
<1>5. KeysRead'
  BY <1>1, <1>3 DEF KeysRead
<1> QED BY <1>1, <1>2, <1>4, <1>5 DEF KeysChecked, ProofsChecked

LEMMA InitIInv == Init => IInv
<1> SUFFICES ASSUME Init PROVE IInv
  OBVIOUS
<1> DEFINE env == [url |-> FALSE, dir |-> FALSE, pin |-> NoPin]
<1>1. env \in Environments
  BY DEF Environments, Pins
<1>2. server = [pc |-> "down", env |-> env, pk |-> Dev, vk |-> Dev, proofs |-> {}]
  BY DEF Init, Down, Process
<1> HIDE DEF env
<1>3. FilesTyped
  BY DEF Init, FilesTyped
<1>4. KeygenTyped
  BY SetupsAssumption DEF Init, KeygenTyped
<1>5. ServerTyped
  BY <1>1, <1>2, SetupsAssumption DEF ServerTyped, Pcs
<1>6. KeysRead /\ KeysChecked /\ ProofsChecked
  BY <1>2 DEF KeysRead, KeysChecked, ProofsChecked
<1> QED BY <1>3, <1>4, <1>5, <1>6 DEF IInv

-----------------------------------------------------------------------------
(* keygen and uploads leave the server alone, boots leave the files alone. *)

LEMMA FilesStep ==
  ASSUME IInv, FilesTyped', KeygenTyped', UNCHANGED server
  PROVE  IInv'
BY DEF IInv, ServerTyped, KeysRead, KeysChecked, ProofsChecked

LEMMA ServerStep ==
  ASSUME IInv, UNCHANGED <<files, keygen, drawn>>,
         ServerTyped', KeysRead', KeysChecked', ProofsChecked'
  PROVE  IInv'
BY DEF IInv, FilesTyped, KeygenTyped

(* A process ends, or a boot does: nothing is left of it. *)
LEMMA DownStep ==
  ASSUME IInv, UNCHANGED <<files, keygen, drawn>>, server' = Down(server.env)
  PROVE  IInv'
<1>1. server.env \in Environments
  BY DEF IInv, ServerTyped
<1> QED BY <1>1, FreshProcess, ServerStep DEF Down, Pcs

(* One key file is read.                                                   *)
LEMMA ReadStep == IInv /\ ReadKeys => IInv'
<1> SUFFICES ASSUME IInv, ReadKeys PROVE IInv'
  OBVIOUS
<1> DEFINE place == Source(server.env)
<1>1. ServerTyped /\ KeysRead /\ ProofsChecked
  BY DEF IInv
<1>2. server.pc \in {"readPk", "readVk"} /\ UNCHANGED <<files, keygen, drawn>>
  BY DEF ReadKeys, Read
<1>3. place # "dev" /\ place \in Places
  BY <1>1, <1>2 DEF KeysRead, Source, Places
<1>4. \A f \in KeyFiles : files[place][f] \in (Setups \ {Dev}) \cup {Missing, Partial}
  BY <1>3 DEF IInv, FilesTyped
<1>5. server.proofs = {}
  BY <1>1, <1>2 DEF ProofsChecked
<1>6. CASE server' = Down(server.env)
  BY <1>2, <1>6, DownStep
<1>7. ASSUME NEW key \in (Setups \ {Dev}) \cup {Partial}, server.pc = "readPk",
             server' = [server EXCEPT !.pc = "readVk", !["pk"] = key]
      PROVE  IInv'
  <2>1. /\ server'.pc = "readVk" /\ server'.env = server.env /\ server'.pk = key
        /\ server'.proofs = {}
    BY <1>1, <1>5, <1>7 DEF ServerTyped
  <2>2. ServerTyped'
    BY <1>1, <1>7 DEF ServerTyped, Pcs
  <2>3. key # Dev
    BY SetupsAssumption, FilesAssumption
  <2>4. KeysRead'
    BY <1>3, <2>1, <2>3 DEF KeysRead, Source
  <2>5. KeysChecked' /\ ProofsChecked'
    BY <2>1 DEF KeysChecked, ProofsChecked
  <2> QED BY <1>2, <2>2, <2>4, <2>5, ServerStep
<1>8. ASSUME NEW key \in (Setups \ {Dev}) \cup {Partial}, server.pc = "readVk",
             server' = [server EXCEPT !.pc = "check", !["vk"] = key]
      PROVE  IInv'
  <2>1. /\ server'.pc = "check" /\ server'.env = server.env /\ server'.vk = key
        /\ server'.pk = server.pk /\ server'.proofs = {}
    BY <1>1, <1>5, <1>8 DEF ServerTyped
  <2>2. ServerTyped'
    BY <1>1, <1>8 DEF ServerTyped, Pcs
  <2>3. key # Dev
    BY SetupsAssumption, FilesAssumption
  <2>4. KeysRead'
    BY <1>1, <1>3, <1>8, <2>1, <2>3 DEF KeysRead, Source
  <2>5. KeysChecked' /\ ProofsChecked'
    BY <2>1 DEF KeysChecked, ProofsChecked
  <2> QED BY <1>2, <2>2, <2>4, <2>5, ServerStep
<1>9. CASE Read("pk", "readPk", "readVk")
  BY <1>4, <1>6, <1>7, <1>9 DEF Read, KeyFiles
<1>10. CASE Read("vk", "readVk", "check")
  BY <1>4, <1>6, <1>8, <1>10 DEF Read, KeyFiles
<1> QED BY <1>9, <1>10 DEF ReadKeys

(* A process goes on with the keys it has. *)
LEMMA ProceedStep ==
  ASSUME IInv, UNCHANGED <<files, keygen, drawn>>, NEW pc \in {"connect", "serving"},
         server.pc \in {"check", "connect"},
         Parses(server.pk, server.vk), PinAllows(server.env.pin, server.vk),
         server' = [server EXCEPT !.pc = pc]
  PROVE  IInv'
<1>1. ServerTyped /\ KeysRead /\ ProofsChecked
  BY DEF IInv
<1>2. server.proofs = {}
  BY <1>1 DEF ProofsChecked
<1>3. /\ server'.pc = pc /\ server'.env = server.env /\ server'.proofs = {}
      /\ server'.pk = server.pk /\ server'.vk = server.vk
  BY <1>1, <1>2 DEF ServerTyped
<1>4. ServerTyped'
  BY <1>1 DEF ServerTyped, Pcs
<1>5. KeysRead'
  BY <1>1, <1>3 DEF KeysRead, Source
<1>6. KeysChecked' /\ ProofsChecked'
  BY <1>3 DEF KeysChecked, ProofsChecked, Parses, PinAllows, VkDigest
<1> QED BY <1>4, <1>5, <1>6, ServerStep

(* A proof that passed its self-check is answered. *)
LEMMA ProveStep == IInv /\ Prove => IInv'
<1> SUFFICES ASSUME IInv, Prove PROVE IInv'
  OBVIOUS
<1> DEFINE proof == MembershipProof(Keys, Tree, Secret, Address)
<1>1. ServerTyped /\ KeysRead /\ KeysChecked /\ ProofsChecked
  BY DEF IInv
<1>2. /\ server.pc = "serving" /\ UNCHANGED <<files, keygen, drawn>>
      /\ server' = [server EXCEPT !.proofs = server.proofs \cup {proof}]
  BY DEF Prove
<1>3. Keys \in KeyPairs
  BY <1>1, <1>2 DEF KeysChecked, Parses, Keys, KeyPairs
<1>4. proof \in Proofs
  BY <1>3 DEF Proofs
<1>5. Groth16Verify(server.vk, PublicInputs(Tree, Secret, Address), proof)
  BY DEF Prove, Serves, SelfCheckPasses, Keys
<1> HIDE DEF proof
<1>6. /\ server'.pc = server.pc /\ server'.env = server.env
      /\ server'.pk = server.pk /\ server'.vk = server.vk
      /\ server'.proofs = server.proofs \cup {proof}
  BY <1>1, <1>2 DEF ServerTyped
<1>7. ServerTyped'
  BY <1>1, <1>2, <1>4 DEF ServerTyped
<1>8. KeysRead' /\ KeysChecked'
  BY <1>1, <1>6 DEF KeysRead, KeysChecked, Source, Parses, PinAllows, VkDigest
<1>9. ProofsChecked'
  BY <1>1, <1>2, <1>5, <1>6 DEF ProofsChecked, Groth16Verify, PublicInputs, Tree
<1> QED BY <1>2, <1>7, <1>8, <1>9, ServerStep

(* Every step preserves the invariant. *)
LEMMA NextIInv == IInv /\ [Next]_vars => IInv'
<1> SUFFICES ASSUME IInv, [Next]_vars PROVE IInv'
  OBVIOUS
<1>1. FilesTyped /\ KeygenTyped
  BY DEF IInv
<1>2. ASSUME NEW s \in Setups, KeygenStarts(s) PROVE IInv'
  <2>1. FilesTyped' /\ UNCHANGED server
    BY <1>1, <1>2 DEF KeygenStarts, FilesTyped
  <2>2. KeygenTyped'
    BY <1>1, <1>2 DEF KeygenStarts, KeygenTyped
  <2> QED BY <2>1, <2>2, FilesStep
<1>3. CASE KeygenSaves
  <2>1. PICK f \in KeyFiles, content \in {Partial, keygen.setup} :
          \E pc \in {"openPk", "fillPk", "openVk", "fillVk"},
             next \in {"fillPk", "openVk", "fillVk", "idle"} : Writes(f, content, pc, next)
    BY <1>3 DEF KeygenSaves, KeyFiles
  <2>2. PICK pc \in {"openPk", "fillPk", "openVk", "fillVk"},
             next \in {"fillPk", "openVk", "fillVk", "idle"} : Writes(f, content, pc, next)
    BY <2>1
  <2>3. content \in (Setups \ {Dev}) \cup {Partial}
    BY <1>1, <2>2 DEF Writes, KeygenTyped
  <2>4. FilesTyped'
    BY <1>1, <2>2, <2>3 DEF Writes, FilesTyped, Places
  <2>5. KeygenTyped' /\ UNCHANGED server
    BY <1>1, <2>2 DEF Writes, KeygenTyped
  <2> QED BY <2>4, <2>5, FilesStep
<1>4. CASE KeygenDies
  <2>1. FilesTyped' /\ UNCHANGED server
    BY <1>1, <1>4 DEF KeygenDies, FilesTyped
  <2>2. KeygenTyped'
    BY <1>1, <1>4 DEF KeygenDies, KeygenTyped
  <2> QED BY <2>1, <2>2, FilesStep
<1>5. ASSUME NEW f \in KeyFiles, Upload(f) PROVE IInv'
  <2>1. FilesTyped'
    BY <1>1, <1>5 DEF Upload, FilesTyped, Places
  <2>2. KeygenTyped' /\ UNCHANGED server
    BY <1>1, <1>5 DEF Upload, KeygenTyped
  <2> QED BY <2>1, <2>2, FilesStep
<1>6. ASSUME NEW env \in Environments, Start(env) PROVE IInv'
  BY <1>6, FreshProcess, ServerStep DEF Start, Pcs
<1>7. CASE ReadKeys
  BY <1>7, ReadStep
<1>8. CASE CheckKeys
  BY <1>8, DownStep, ProceedStep DEF CheckKeys
<1>9. CASE Listen
  <2>1. server.pc = "connect" /\ Parses(server.pk, server.vk)
        /\ PinAllows(server.env.pin, server.vk)
    BY <1>9 DEF Listen, IInv, KeysChecked
  <2> QED BY <1>9, <2>1, ProceedStep DEF Listen
<1>10. CASE BootFails \/ Die
  BY <1>10, DownStep DEF BootFails, Die
<1>11. CASE Prove
  BY <1>11, ProveStep
<1>12. CASE UNCHANGED vars
  BY <1>1, <1>12, FilesStep DEF vars, FilesTyped, KeygenTyped
<1> QED
  BY <1>2, <1>3, <1>4, <1>5, <1>6, <1>7, <1>8, <1>9, <1>10, <1>11, <1>12 DEF Next, Boots

LEMMA SpecIInv == Spec => []IInv
<1>1. Init => IInv
  BY InitIInv
<1>2. IInv /\ [Next]_vars => IInv'
  BY NextIInv
<1> QED BY <1>1, <1>2, PTL DEF Spec

-----------------------------------------------------------------------------
(* Files, keygen and the server always have their types; whoever listens   *)
(* has two keys that parse.                                                *)
THEOREM TypeCorrect == Spec => []TypeOK
<1>1. IInv => TypeOK
  <2> SUFFICES ASSUME IInv PROVE TypeOK
    OBVIOUS
  <2>1. files \in [Places -> [KeyFiles -> Setups \cup {Missing, Partial}]]
    BY DEF IInv, FilesTyped
  <2>2. server.pc \in {"connect", "serving"} => Keys \in KeyPairs
    BY DEF IInv, KeysChecked, Parses, Keys, KeyPairs
  <2> QED BY <2>1, <2>2 DEF IInv, KeygenTyped, ServerTyped, Pcs, TypeOK
<1> QED BY <1>1, SpecIInv, PTL

(* keysource.rs, verify_digest, and the self-check of crypto::prove: with  *)
(* the registered digest as the pin, no proof is answered that the         *)
(* registry's verifying key would refuse.                                  *)
THEOREM PinnedProofsAreAccepted == Spec => []PinnedProofsAccepted
<1>1. IInv => PinnedProofsAccepted
  <2> SUFFICES ASSUME IInv, server.env.pin = VkDigest(Registered), NEW proof \in server.proofs
               PROVE  Groth16Verify(Registered, PublicInputs(Tree, Secret, Address), proof)
    BY DEF PinnedProofsAccepted
  <2>1. Groth16Verify(server.vk, PublicInputs(Tree, Secret, Address), proof)
        /\ PinAllows(server.env.pin, server.vk)
    BY DEF IInv, ProofsChecked, KeysChecked
  <2>2. NoPin # VkDigest(Registered)
    BY SetupsAssumption, PinsAssumption DEF Digests
  <2>3. VkDigest(server.vk) = VkDigest(Registered)
    BY <2>1, <2>2 DEF PinAllows
  <2>4. server.vk = Registered
    BY <2>3 DEF VkDigest
  <2> QED BY <2>1, <2>4
<1> QED BY <1>1, SpecIInv, PTL

(* keysource.rs, load_from_env: the development setup is used when no      *)
(* source is configured, and never in place of one that fails.             *)
THEOREM DevKeysAreOnlyUnconfigured == Spec => []DevKeysOnlyUnconfigured
<1>1. IInv => DevKeysOnlyUnconfigured
  BY DEF IInv, KeysRead, DevKeysOnlyUnconfigured
<1> QED BY <1>1, SpecIInv, PTL

-----------------------------------------------------------------------------
(* What a process with two keys can do: it gives a member a proof exactly  *)
(* if they are of one setup, so one that booted with a mismatch serves     *)
(* nobody until it is restarted over whole files (RestartHeals).           *)
THEOREM OnlyMatchingKeysServe ==
  ASSUME NEW keys
  PROVE  Serves(keys) <=> keys.pk = keys.vk
<1>1. Len(Tree) = 1 /\ Tree[1] = LeafCommitment(Secret)
  BY DEF Tree
<1>2. Len(Tree) \in Nat /\ Len(Tree) <= Capacity
  BY <1>1, CapacityType
<1>3. IsMember(Tree, Secret)
  BY <1>1 DEF IsMember
<1> QED BY <1>2, <1>3, MemberSelfCheck DEF Serves
=============================================================================

------------------------------- MODULE Crypto -------------------------------
(***************************************************************************)
(* The trust-critical core of src/crypto: the derivations from a holder's  *)
(* secret, the circuit's relation, and proof generation with its           *)
(* self-check.  Groth16 itself is external and idealised: a proof is the   *)
(* record of the setup it was made with, the public inputs it was made     *)
(* for, and whether the witness satisfied the circuit; it verifies exactly *)
(* when those three are right.                                             *)
(***************************************************************************)
EXTENDS Merkle

CONSTANTS
  LeafDomain,        \* mimc::LEAF_DOMAIN
  NullifierDomain,   \* mimc::NULLIFIER_DOMAIN
  Setups             \* runs of the trusted setup; a key belongs to one

ASSUME DomainsDiffer == LeafDomain # NullifierDomain

(* crypto::Keys: the proving and the verifying key, each named by the      *)
(* setup it came from.  Two files hold them, so they need not agree.       *)
KeyPairs == [pk : Setups, vk : Setups]

(* crypto::leaf_commitment and crypto::nullifier *)
LeafCommitment(secret) == Hash2(secret, LeafDomain)
Nullifier(secret) == Hash2(secret, NullifierDomain)

(* crypto::address_field: SHA-256 of the strkey, idealised as injective.   *)
AddressField(strkey) == [sha256 |-> strkey]

(* Mutant: the nullifier is an input, and constrained by nothing. *)
CircuitSatisfiedAnyNullifier(inputs, secret, witness) ==
  Fold(LeafCommitment(secret), witness) = inputs.root

(* What the circuit enforces about the public inputs; addr is bound to the *)
(* proof but constrained by nothing else.                                  *)
CircuitSatisfied(inputs, secret, witness) ==
  /\ Fold(LeafCommitment(secret), witness) = inputs.root
  /\ Nullifier(secret) = inputs.nullifier

(* Groth16::prove and Groth16::verify *)
Groth16Prove(pk, inputs, secret, witness) ==
  [setup  |-> pk,
   inputs |-> inputs,
   valid  |-> CircuitSatisfied(inputs, secret, witness)]

Groth16Verify(vk, inputs, proof) ==
  /\ proof.valid
  /\ proof.setup = vk
  /\ proof.inputs = inputs

(* crypto::prove looks the commitment up in the tree ...                   *)
IsMember(leaves, secret) ==
  \E k \in 1..Len(leaves) : leaves[k] = LeafCommitment(secret)

(* Mutant: the position counted from 1. *)
FirstIndexFromOne(leaves, secret) ==
  CHOOSE k \in 1..Len(leaves) :
      /\ leaves[k] = LeafCommitment(secret)
      /\ \A j \in 1..(k - 1) : leaves[j] # LeafCommitment(secret)

(* ... at the first position (from 0) that holds it ...                    *)
FirstIndex(leaves, secret) ==
  (CHOOSE k \in 1..Len(leaves) :
      /\ leaves[k] = LeafCommitment(secret)
      /\ \A j \in 1..(k - 1) : leaves[j] # LeafCommitment(secret)) - 1

PublicInputs(leaves, secret, strkey) ==
  [root      |-> Root(leaves),
   nullifier |-> Nullifier(secret),
   addr      |-> AddressField(strkey)]

(* ... and proves with that position's witness.                            *)
MembershipProof(keys, leaves, secret, strkey) ==
  Groth16Prove(keys.pk, PublicInputs(leaves, secret, strkey), secret,
               Witness(leaves, FirstIndex(leaves, secret)))

(* The self-check before the bytes are handed back.                        *)
SelfCheckPasses(keys, leaves, secret, strkey) ==
  Groth16Verify(keys.vk, PublicInputs(leaves, secret, strkey),
                MembershipProof(keys, leaves, secret, strkey))
=============================================================================

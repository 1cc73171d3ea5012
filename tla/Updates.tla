--------------------------------- MODULE Updates ---------------------------------
(***************************************************************************)
(* Signed rule updates (updater.py): the key file and its replacement,      *)
(* signers and verifiers that read it, manifests that are signed, written   *)
(* to a file, damaged there or written only in part, and loaded.  A mac is  *)
(* the key and the payload it was computed from.                            *)
(***************************************************************************)
EXTENDS Naturals, FiniteSets

CONSTANTS Versions,     \* manifest_version, with all that names the manifest
          Contents,     \* of a manifest's entry
          MaxKeys,      \* bound: keys generated
          MaxSigned     \* bound: manifests signed

ASSUME UpdatesAssumption == Versions # {} /\ Contents # {} /\ MaxKeys \in Nat /\ MaxSigned \in Nat

NoKey == 0
TornKey == MaxKeys + 1  \* a key file shorter than 32 bytes

(* sha256 is the content an entry's hash was computed from. *)
Payloads == [version : Versions, content : Contents, sha256 : Contents]
NoPayload == [version |-> "none", content |-> "none", sha256 |-> "none"]
NoMac == <<NoKey, NoPayload>>
NoSignature == [alg |-> "none", hex |-> FALSE, mac |-> NoMac]
Manifest(payload, signature) == [form |-> "manifest", payload |-> payload, signature |-> signature]
NoFile == [form |-> "none", payload |-> NoPayload, signature |-> NoSignature]

NothingLoaded == [how |-> "none", payload |-> NoPayload]

VARIABLES keyFile,      \* NoKey, TornKey or the key in it
          keysMade,     \* the last key generated
          signer, verifier,     \* the keys they were made with
          file,         \* the manifest's file
          signed,       \* the macs that were computed by signers
          loaded        \* how load_verified ended if it came last, and what it returned

updatesVars == <<keyFile, keysMade, signer, verifier, file, signed, loaded>>

UpdatesInit ==
    /\ keyFile = NoKey /\ keysMade = 0
    /\ signer = NoKey /\ verifier = NoKey /\ file = NoFile /\ signed = {}
    /\ loaded = NothingLoaded

Idle == loaded' = NothingLoaded

-----------------------------------------------------------------------------
(* generate_update_key: an existing file is replaced in place, and the write *)
(* may be cut short.  Its mode is set after that, which nothing here reads.  *)
GenerateKey(overwrite) ==
    /\ keysMade < MaxKeys
    /\ keyFile = NoKey \/ overwrite                     \* or FileExistsError
    /\ keysMade' = keysMade + 1 /\ keyFile' \in {keysMade', TornKey}
    /\ Idle /\ UNCHANGED <<signer, verifier, file, signed>>

(* from_key_file, of either; a short key is refused. *)
KeyFromFile == IF keyFile = TornKey THEN NoKey ELSE keyFile
LoadSigner ==
    /\ KeyFromFile # NoKey /\ signer' = KeyFromFile
    /\ Idle /\ UNCHANGED <<keyFile, keysMade, verifier, file, signed>>
LoadVerifier ==
    /\ KeyFromFile # NoKey /\ verifier' = KeyFromFile
    /\ Idle /\ UNCHANGED <<keyFile, keysMade, signer, file, signed>>

(* What the mac is computed from: _canonical_payload has every field but the *)
(* signature.                                                                *)
CanonicalContentsOnly(p) == [p EXCEPT !.version = "any"]
CanonicalPayload(p) == p

(* sign.  make_manifest computes each entry's hash; a manifest put together  *)
(* in another way may have any.  The caller writes the file.                 *)
Sign(p) ==
    /\ signer # NoKey /\ Cardinality(signed) < MaxSigned
    /\ LET mac == <<signer, CanonicalPayload(p)>>
       IN  /\ file' = Manifest(p, [alg |-> "hmac-sha256", hex |-> TRUE, mac |-> mac])
           /\ signed' = signed \cup {<<signer, p>>}
    /\ Idle /\ UNCHANGED <<keyFile, keysMade, signer, verifier>>

(* A field of the file changes: the entries are shared between the signed    *)
(* manifest and the one it was copied from, a write ends halfway, a hand     *)
(* edits the file.                                                           *)
Damage ==
    /\ file.form = "manifest"
    /\ \/ \E p \in Payloads : file' = [file EXCEPT !.payload = p]
       \/ \E alg \in {"none", "hmac-sha512"} : file' = [file EXCEPT !.signature.alg = alg]
       \/ file' = [file EXCEPT !.signature.hex = FALSE]
       \/ \E form \in {"no_json", "no_object", "no_fields", "odd_signature"} :
              file' = [file EXCEPT !.form = form]
    /\ Idle /\ UNCHANGED <<keyFile, keysMade, signer, verifier, signed>>

(* verify, in its order; and load_verified.  JSON that is no object, and a   *)
(* signature that is no string, raise AttributeError instead.                *)
Verdict(f) ==
    CASE f.form \in {"no_object", "odd_signature"} -> "AttributeError"
      [] f.form # "manifest" -> "unparsable"
      [] f.signature.alg = "none" -> "unsigned"
      [] f.signature.alg # "hmac-sha256" -> "algorithm"
      [] ~ f.signature.hex -> "no_hex"
      [] f.signature.mac # <<verifier, CanonicalPayload(f.payload)>> -> "mac"
      [] f.payload.content # f.payload.sha256 -> "hash"
      [] OTHER -> "loaded"
LoadVerified ==
    /\ verifier # NoKey /\ file # NoFile
    /\ loaded' = [how |-> Verdict(file),
                  payload |-> IF Verdict(file) = "loaded" THEN file.payload ELSE NoPayload]
    /\ UNCHANGED <<keyFile, keysMade, signer, verifier, file, signed>>

UpdatesNext ==
    \/ \E overwrite \in BOOLEAN : GenerateKey(overwrite)
    \/ LoadSigner \/ LoadVerifier
    \/ \E p \in Payloads : Sign(p)
    \/ Damage \/ LoadVerified

UpdatesSpec == UpdatesInit /\ [][UpdatesNext]_updatesVars

-----------------------------------------------------------------------------
(* What load_verified returns is, field by field, what somebody signed with  *)
(* the key the verifier was made with, its content the one that was hashed:  *)
(* whatever happened to the file since, and to the key file.                 *)
LoadedWasSigned ==
    loaded.how = "loaded" =>
        <<verifier, loaded.payload>> \in signed /\ loaded.payload.content = loaded.payload.sha256
=============================================================================

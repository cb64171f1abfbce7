----------------------------- MODULE ManifestSigning -----------------------------
(***************************************************************************)
(* platform_core/prod/manifest_signing.py.  RSA is taken to be ideal: a    *)
(* signature is a record of the key that made it and the bytes it covers,  *)
(* and no other value verifies.  What is signed of a manifest is           *)
(*    claim    all of it but the signing section, as canonical JSON        *)
(*    signing  [shape, publisher, signature], shape as in ManifestRules    *)
(***************************************************************************)
EXTENDS Naturals

\* Variant: the whole signing section is left out of what is signed.
CanonicalBytes_NoSigning(m) == [claim |-> m.claim, signing |-> "none"]

\* A signing section that is not a mapping is left out, like a missing one; of
\* a mapping, all but the signature is covered.
CanonicalBytes(m) ==
  [claim   |-> m.claim,
   signing |-> IF m.signing.shape = "map" THEN m.signing.publisher ELSE "none"]

\* sign_manifest and, over the same bytes, kms_sign.
SignManifest(key, m) == [key |-> key, over |-> CanonicalBytes(m)]

VerifyBytes(key, bytes, signature) == signature = [key |-> key, over |-> bytes]

\* A manifest json.dumps cannot serialise, a malformed key or a KMS fault is a
\* plain refusal.
VerifyManifest(key, m, signature, fault) ==
  ~fault /\ VerifyBytes(key, CanonicalBytes(m), signature)
=============================================================================

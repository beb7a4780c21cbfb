------------------------------ MODULE AnyKeys ------------------------------
(***************************************************************************)
(* alg/any.rs: the operations of a key whose type is known only at run     *)
(* time.  Each one selects the implementation of the key's algorithm and   *)
(* answers Unsupported for the algorithms that have none.  JWK export and  *)
(* import of a key of any type are in module Jwk.                          *)
(***************************************************************************)
EXTENDS Jwk

GenerateAny(alg, src) ==
  CASE alg \in AesGcm \union AesCbc \union AesKw -> Ok(AesGenerate(alg, src))
    [] alg \in Chacha  -> Ok(Chacha20Generate(alg, src))
    [] alg \in Bls     -> Ok(BlsGenerate(alg, src))
    [] alg \in EcCurve -> Ok(EcGenerate(alg, src))
    [] alg = "ed25519" -> Ok(Ed25519Generate(src))
    [] alg = "x25519"  -> Ok(X25519Generate(src))

(* Hardware keys need the feature p256_hardware, which is off by default.   *)
GenerateAnyForHardware(alg) == Err("Unsupported")
GetAnyWithId(alg) == Err("Unsupported")

FromPublicBytesAny(alg, b) ==
  CASE alg \in Bls     -> BlsFromPublic(alg, b)
    [] alg \in EcCurve -> EcFromPublic(alg, b)
    [] alg = "ed25519" -> Ed25519FromPublic(b)
    [] alg = "x25519"  -> X25519FromPublic(b)
    [] OTHER -> Err("Unsupported")

FromSecretBytesAny(alg, b) ==
  CASE alg \in AesGcm \union AesCbc \union AesKw -> AesFromSecret(alg, b)
    [] alg \in Chacha  -> Chacha20FromSecret(alg, b)
    [] alg \in Bls     -> BlsFromSecret(alg, b)
    [] alg \in EcCurve -> EcFromSecret(alg, b)
    [] alg = "ed25519" -> Ed25519FromSecret(b)
    [] alg = "x25519"  -> X25519FromSecret(b)

(* match_key_alg!: the key types an operation is implemented for.           *)
KeyToSecret(k) == Ok(k)
KeyToPublic(k) == IF k.alg \in Symmetric THEN Err("Unsupported") ELSE Ok(k)
KeyAsAead(k)   == IF k.alg \in Symmetric THEN Ok(k) ELSE Err("Unsupported")
KeyAsSigner(k) ==
  IF k.alg \in EcCurve \union {"ed25519"} THEN Ok(k) ELSE Err("Unsupported")

ToPublicBytesAny(k) ==
  LET r == KeyToPublic(k) IN IF IsOk(r) THEN WritePublicBytes(r.ok) ELSE r
ToSecretBytesAny(k) ==
  LET r == KeyToSecret(k) IN IF IsOk(r) THEN WriteSecretBytes(r.ok) ELSE r

-----------------------------------------------------------------------------
(* Key agreement.  The shared secret of two keys is the same whichever of   *)
(* the two secrets it is computed from, so it is the set of the publics.    *)

SharedSecret(k, other) ==
  IF k.sec = None THEN Err("MissingSecretKey")
  ELSE Ok(Bytes(KeySize(k.alg), <<"dh", {k.pub, other.pub}>>))
X25519KeyExchange(k, other) == SharedSecret(k, other)
EcKeyExchange(k, other)     == SharedSecret(k, other)

WriteKeyExchangeAny(k, other) ==
  CASE k.alg # other.alg  -> Err("Unsupported")
    [] k.alg = "x25519"   -> X25519KeyExchange(k, other)
    [] k.alg \in EcCurve  -> EcKeyExchange(k, other)
    [] OTHER -> Err("Unsupported")

(* The exchange is written into the secret of a symmetric key, which must   *)
(* have exactly its length.                                                 *)
FromKeyExchangeAny(alg, k, other) ==
  LET xk == WriteKeyExchangeAny(k, other) IN
  CASE alg \notin Symmetric -> Err("Unsupported")
    [] ~IsOk(xk) -> xk
    [] xk.ok.len > KeySize(alg) -> Err("ExceededBuffer")
    [] xk.ok.len < KeySize(alg) -> Err("Usage")
    [] OTHER -> Ok(AesKey(alg, xk.ok.val))

(* derive[n] is n bytes of key material or an error.                        *)
FromKeyDerivationAny(alg, derive) ==
  IF alg \notin Symmetric THEN Err("Unsupported")
  ELSE LET okm == derive[KeySize(alg)] IN
       IF IsOk(okm) THEN Ok(AesKey(alg, okm.ok)) ELSE okm

ConvertKeyAny(k, alg) ==
  CASE k.alg = "bls12381g1g2" /\ alg = "bls12381g1" -> Ok(BlsG1Part(k))
    [] k.alg = "bls12381g1g2" /\ alg = "bls12381g2" -> Ok(BlsG2Part(k))
    [] k.alg = "ed25519" /\ alg = "x25519" -> Ok(ToX25519Keypair(k))
    [] OTHER -> Err("Unsupported")

=============================================================================

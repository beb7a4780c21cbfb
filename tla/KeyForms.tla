------------------------------ MODULE KeyForms ------------------------------
(***************************************************************************)
(* The key types of askar-crypto and the forms a key is exported in and    *)
(* imported from as raw secret and public bytes: one set of operators per  *)
(* key type (ed25519.rs, x25519.rs, bls.rs, the three elliptic curves, the *)
(* symmetric keys).  Module Jwk has the JWK forms, module AnyKeys the      *)
(* dispatch over the types.                                                *)
(*                                                                         *)
(* The arithmetic of the curves is symbolic.  A secret is a term, a tuple  *)
(* whose first element names its origin; the public key of secret s on     *)
(* curve c is the term <<c, s>>, so two secrets have the same public key   *)
(* exactly when they are equal.  A byte string is its length and what it   *)
(* encodes.                                                                *)
(***************************************************************************)
EXTENDS Naturals, Sequences, SequencesExt

CONSTANT
  InRange      \* random sources whose 32 bytes lie below the BLS group order

(* Results: a call returns a value or an error of some kind. *)
Ok(v)   == [ok |-> v]
Err(e)  == [err |-> e]
IsOk(r) == "ok" \in DOMAIN r

(* The absence of a secret or of a public key, and of an optional argument. *)
None    == <<>>
NoAlg   == ""

Bytes(n, v) == [len |-> n, val |-> v]

-----------------------------------------------------------------------------
(* Algorithms *)

AesGcm  == {"a128gcm", "a256gcm"}
AesCbc  == {"a128cbchs256", "a256cbchs512"}
AesKw   == {"a128kw", "a256kw"}
Chacha  == {"c20p", "xc20p"}
Symmetric == AesGcm \union AesCbc \union AesKw \union Chacha
Bls     == {"bls12381g1", "bls12381g2", "bls12381g1g2"}
EcCurve == {"k256", "p256", "p384"}
Algs    == Symmetric \union Bls \union EcCurve \union {"ed25519", "x25519"}

(* The names a caller may give an algorithm, after normalisation has        *)
(* dropped case and separators; every other name is refused.                *)
AlgAliases ==
  [aes128gcm |-> "a128gcm", aes256gcm |-> "a256gcm",
   aes128cbchs256 |-> "a128cbchs256", aes256cbchs512 |-> "a256cbchs512",
   aes128kw |-> "a128kw", aes256kw |-> "a256kw",
   chacha20poly1305 |-> "c20p", xchacha20poly1305 |-> "xc20p",
   secp256k1 |-> "k256", secp256r1 |-> "p256", secp384r1 |-> "p384"]
AlgFromStr(name) ==
  IF name \in Algs THEN Ok(name)
  ELSE IF name \in DOMAIN AlgAliases THEN Ok(AlgAliases[name])
  ELSE Err("Unsupported")

(* Length of the secret bytes (KeyMeta::KeySize) and of the public bytes.   *)
KeySize(alg) ==
  CASE alg \in {"a128gcm", "a128kw"} -> 16
    [] alg = "a256cbchs512" -> 64
    [] alg = "p384" -> 48
    [] OTHER -> 32
PublicSize(alg) ==
  CASE alg \in {"ed25519", "x25519"} -> 32
    [] alg \in {"k256", "p256"} -> 33
    [] alg \in {"p384"} -> 49
    [] alg = "bls12381g1" -> 48
    [] alg = "bls12381g2" -> 96
    [] alg = "bls12381g1g2" -> 144

-----------------------------------------------------------------------------
(* Keys: the algorithm, the public key (None for a symmetric key) and the   *)
(* secret (None for a bare public key).                                     *)

Key(alg, pub, sec) == [alg |-> alg, pub |-> pub, sec |-> sec]

(* A byte string read at the length a type expects.                         *)
Sized(b, n, key) == IF b.len = n THEN Ok(key) ELSE Err("InvalidKeyData")

(* Symmetric keys *)
AesKey(alg, sec)    == Key(alg, None, sec)
AesGenerate(alg, src) == AesKey(alg, <<"okm", src, KeySize(alg)>>)
AesFromSecret(alg, b) == Sized(b, KeySize(alg), AesKey(alg, b.val))
Chacha20Generate(alg, src) == Key(alg, None, <<"okm", src, 32>>)
Chacha20FromSecret(alg, b) == Sized(b, 32, Key(alg, None, b.val))

(* Ed25519 and X25519.  The conversion hashes and clamps a secret; a bare   *)
(* public key is mapped to the other form of the curve, where it is the     *)
(* public key of that same hashed secret.                                   *)
Ed25519FromSecretKey(sec) == Key("ed25519", <<"ed25519", sec>>, sec)
Ed25519Generate(src) == Ed25519FromSecretKey(<<"okm", src, 32>>)
Ed25519FromSecret(b) == Sized(b, 32, Ed25519FromSecretKey(b.val))
Ed25519FromPublic(b) ==
  IF b.val[1] # "ed25519" THEN Err("InvalidKeyData")
  ELSE Sized(b, 32, Key("ed25519", b.val, None))
X25519FromSecretKey(sec) == Key("x25519", <<"x25519", sec>>, sec)
X25519Generate(src) == X25519FromSecretKey(<<"okm", src, 32>>)
X25519FromSecret(b) == Sized(b, 32, X25519FromSecretKey(b.val))
X25519FromPublic(b) == Sized(b, 32, Key("x25519", b.val, None))
ToX25519Keypair(k) ==
  IF k.sec # None THEN X25519FromSecretKey(<<"clamp", k.sec>>)
  ELSE Key("x25519", <<"x25519", <<"clamp", k.pub[2]>>>>, None)

(* The elliptic curves k256, p256 and p384.                                 *)
EcFromSecretKey(alg, sec) == Key(alg, <<alg, sec>>, sec)
EcGenerate(alg, src) == EcFromSecretKey(alg, <<"okm", src, KeySize(alg)>>)
EcFromSecret(alg, b) == Sized(b, KeySize(alg), EcFromSecretKey(alg, b.val))
EcFromPublic(alg, b) ==
  IF b.val[1] # alg THEN Err("InvalidKeyData")
  ELSE Sized(b, PublicSize(alg), Key(alg, b.val, None))

(* BLS12-381.  The public key is a point of G1, of G2 or one of each.  A    *)
(* generated secret reduces 48 bytes of the source to a scalar; 32 bytes    *)
(* from elsewhere may lie above the group order, and are then refused.      *)
BlsPublic(alg, sec) ==
  IF alg = "bls12381g1g2"
  THEN <<"g1g2", <<"bls12381g1", sec>>, <<"bls12381g2", sec>>>>
  ELSE <<alg, sec>>
BlsFromSecretKey(alg, sec) == Key(alg, BlsPublic(alg, sec), sec)
BlsGenerate(alg, src) == BlsFromSecretKey(alg, <<"scalar", src>>)
BlsSecretInRange(sec) ==
  \/ sec[1] = "scalar"
  \/ sec[1] = "okm" /\ sec[2] \in InRange
BlsFromSecret(alg, b) ==
  IF BlsSecretInRange(b.val) THEN Sized(b, 32, BlsFromSecretKey(alg, b.val))
  ELSE Err("InvalidKeyData")
BlsFromPublic(alg, b) ==
  IF b.val[1] # BlsPublic(alg, None)[1] THEN Err("InvalidKeyData")
  ELSE Sized(b, PublicSize(alg), Key(alg, b.val, None))
BlsG1Part(k) == Key("bls12381g1", k.pub[2], k.sec)
BlsG2Part(k) == Key("bls12381g2", k.pub[3], k.sec)

(* The sources made from a seed.  The default one reads the first 32 bytes, *)
(* zero-padded; all seeds are prefixes of one byte string here, so their    *)
(* length tells them apart.  The BLS key generation scheme reads all of a   *)
(* seed of at least 32 bytes.                                               *)
RandomDet(seed) == <<"det", IF seed.len < 32 THEN seed.len ELSE 32>>
BlsKeyGen(seed) ==
  IF seed.len < 32 THEN Err("Usage") ELSE Ok(<<"blsgen", seed.val>>)

(* The raw bytes of a key of any type (repr.rs).                            *)
WriteSecretBytes(k) ==
  IF k.sec = None THEN Err("MissingSecretKey") ELSE Ok(Bytes(KeySize(k.alg), k.sec))
WritePublicBytes(k) == Ok(Bytes(PublicSize(k.alg), k.pub))

=============================================================================

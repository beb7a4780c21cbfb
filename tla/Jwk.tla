-------------------------------- MODULE Jwk --------------------------------
(***************************************************************************)
(* JWK export and import of every key type, and JWK thumbprints.           *)
(*                                                                         *)
(* An encoder writes the members of a JWK in the order the key type adds   *)
(* them; the JSON punctuation and the base64 of a member are left out, its *)
(* byte length is kept, because the parser compares it with the length it  *)
(* expects.  The thumbprint is the hash of the members written in          *)
(* thumbprint mode, so it is modelled as that sequence.                    *)
(***************************************************************************)
EXTENDS KeyForms

Member(name, value) == <<name, value>>

(* What a key type appends in secret mode, when it holds a secret.          *)
SecretMember(k, mode) ==
  IF mode = "secret" /\ k.sec # None
  THEN <<Member("d", Bytes(KeySize(k.alg), k.sec))>> ELSE <<>>

-----------------------------------------------------------------------------
(* Export *)

JwkAlgName(alg) ==
  CASE alg = "a128gcm" -> "A128GCM" [] alg = "a256gcm" -> "A256GCM"
    [] alg = "a128cbchs256" -> "A128CBC-HS256" [] alg = "a256cbchs512" -> "A256CBC-HS512"
    [] alg = "a128kw" -> "A128KW" [] alg = "a256kw" -> "A256KW"
    [] alg = "c20p" -> "C20P" [] alg = "xc20p" -> "XC20P"

(* A symmetric key has no public form; its thumbprint leaves out "alg".     *)
AesEncodeJwk(k, mode) ==
  IF mode = "public" THEN Err("Unsupported")
  ELSE Ok((IF mode = "thumbprint" THEN <<>> ELSE <<Member("alg", JwkAlgName(k.alg))>>)
          \o <<Member("k", Bytes(KeySize(k.alg), k.sec)), Member("kty", "oct")>>)
Chacha20EncodeJwk(k, mode) ==
  IF mode = "public" THEN Err("Unsupported")
  ELSE Ok((IF mode = "thumbprint" THEN <<>> ELSE <<Member("alg", JwkAlgName(k.alg))>>)
          \o <<Member("k", Bytes(32, k.sec)), Member("kty", "oct")>>)

OkpMembers(crv, x) == <<Member("crv", crv), Member("kty", "OKP"), Member("x", x)>>
Ed25519EncodeJwk(k, mode) ==
  Ok(OkpMembers("Ed25519", Bytes(32, k.pub)) \o SecretMember(k, mode))
X25519EncodeJwk(k, mode) ==
  Ok(OkpMembers("X25519", Bytes(32, k.pub)) \o SecretMember(k, mode))

EcJwkCurve(alg) ==
  CASE alg = "k256" -> "secp256k1" [] alg = "p256" -> "P-256" [] alg = "p384" -> "P-384"
EcEncodeJwk(k, mode) ==
  Ok(<<Member("crv", EcJwkCurve(k.alg)), Member("kty", "EC"),
       Member("x", Bytes(KeySize(k.alg), <<"x", k.pub>>)),
       Member("y", Bytes(KeySize(k.alg), <<"y", k.pub>>))>> \o SecretMember(k, mode))

(* A G1G2 key is written as a G1 or a G2 key when the caller asks for that  *)
(* algorithm; every other type ignores the algorithm asked for.             *)
BlsJwkCurve(alg) ==
  CASE alg = "bls12381g1" -> "BLS12381_G1" [] alg = "bls12381g2" -> "BLS12381_G2"
    [] alg = "bls12381g1g2" -> "BLS12381_G1G2"
BlsJwkAlg(k, alg) ==
  IF k.alg = "bls12381g1g2" /\ alg \in {"bls12381g1", "bls12381g2"} THEN alg ELSE k.alg
(* Mutant: the first part is written for either group. *)
BlsPublicBytesFirst(k, alg) ==
  CASE BlsJwkAlg(k, alg) = k.alg -> Bytes(PublicSize(k.alg), k.pub)
    [] OTHER -> Bytes(PublicSize(alg), k.pub[2])
BlsPublicBytes(k, alg) ==
  CASE BlsJwkAlg(k, alg) = k.alg -> Bytes(PublicSize(k.alg), k.pub)
    [] OTHER -> Bytes(PublicSize(alg), k.pub[IF alg = "bls12381g1" THEN 2 ELSE 3])
BlsEncodeJwk(k, mode, alg) ==
  Ok(OkpMembers(BlsJwkCurve(BlsJwkAlg(k, alg)), BlsPublicBytes(k, alg))
     \o SecretMember(k, mode))

(* alg/any.rs: the encoder of the key's own type.                           *)
EncodeJwk(k, mode, alg) ==
  CASE k.alg \in AesGcm \union AesCbc \union AesKw -> AesEncodeJwk(k, mode)
    [] k.alg \in Chacha -> Chacha20EncodeJwk(k, mode)
    [] k.alg = "ed25519" -> Ed25519EncodeJwk(k, mode)
    [] k.alg = "x25519" -> X25519EncodeJwk(k, mode)
    [] k.alg \in EcCurve -> EcEncodeJwk(k, mode)
    [] k.alg \in Bls -> BlsEncodeJwk(k, mode, alg)

ToJwkPublic(k, alg)     == EncodeJwk(k, "public", alg)
ToJwkSecret(k, alg)     == EncodeJwk(k, "secret", alg)
ToJwkThumbprint(k, alg) == EncodeJwk(k, "thumbprint", alg)

-----------------------------------------------------------------------------
(* Import *)

(* The parsed members; a member that occurs twice counts with its last      *)
(* value, and a JWK without "kty" is refused.                               *)
Has(jwk, name) == \E i \in DOMAIN jwk : jwk[i][1] = name
Attr(jwk, name, default) ==
  IF Has(jwk, name) THEN jwk[SelectLastInSeq(jwk, LAMBDA m : m[1] = name)][2] ELSE default
JwkParts(jwk) ==
  IF ~Has(jwk, "kty") THEN Err("Invalid")
  ELSE Ok([kty |-> Attr(jwk, "kty", ""), crv |-> Attr(jwk, "crv", ""),
           x |-> Attr(jwk, "x", None), y |-> Attr(jwk, "y", None),
           d |-> Attr(jwk, "d", None)])

(* OptAttr::decode_base64 into an array of n bytes: a missing member or one *)
(* that is too long is an error, and every caller refuses a shorter one.    *)
DecodeBase64(attr, n) ==
  IF attr = None \/ attr.len > n THEN Err("Invalid")
  ELSE IF attr.len # n THEN Err("InvalidKeyData")
  ELSE Ok(attr)

(* Mutant: the public half is not compared. *)
CheckPublicSkipped(kp, public) ==
  IF ~IsOk(kp) \/ ~IsOk(public) THEN Err("InvalidKeyData") ELSE kp

(* check_public_bytes: the key pair of a secret, if its public half is the  *)
(* given one.                                                               *)
CheckPublic(kp, public) ==
  IF ~IsOk(kp) \/ ~IsOk(public) THEN Err("InvalidKeyData")
  ELSE IF kp.ok.pub # public.ok.pub THEN Err("InvalidKeyData") ELSE kp

(* The public half and, with "d", the key pair whose public half it is.     *)
WithSecret(alg, d, public) ==
  IF d = None THEN public
  ELSE LET sk == DecodeBase64(d, KeySize(alg))
           kp == CASE alg = "ed25519" -> Ed25519FromSecret(sk.ok)
                   [] alg = "x25519"  -> X25519FromSecret(sk.ok)
                   [] alg \in EcCurve -> EcFromSecret(alg, sk.ok)
                   [] alg \in Bls     -> BlsFromSecret(alg, sk.ok)
       IN IF ~IsOk(sk) THEN sk ELSE CheckPublic(kp, public)

Ed25519FromJwk(j) ==
  LET x == DecodeBase64(j.x, 32) IN
  IF ~IsOk(x) THEN x
  ELSE WithSecret("ed25519", j.d, Ed25519FromPublic(x.ok))
X25519FromJwk(j) ==
  LET x == DecodeBase64(j.x, 32) IN
  IF ~IsOk(x) THEN x
  ELSE WithSecret("x25519", j.d, X25519FromPublic(x.ok))

(* The two coordinates must be those of one point of the curve.             *)
EcPoint(alg, x, y) ==
  IF x.val[2] # y.val[2] \/ x.val[1] # "x" \/ y.val[1] # "y" \/ x.val[2][1] # alg
  THEN Err("InvalidKeyData") ELSE Ok(Key(alg, x.val[2], None))
EcFromJwk(alg, j) ==
  LET x == DecodeBase64(j.x, KeySize(alg))
      y == DecodeBase64(j.y, KeySize(alg)) IN
  IF ~IsOk(x) THEN x ELSE IF ~IsOk(y) THEN y
  ELSE LET pk == EcPoint(alg, x.ok, y.ok) IN
       IF ~IsOk(pk) THEN pk
       ELSE WithSecret(alg, j.d, pk)
BlsFromJwk(alg, j) ==
  LET x == DecodeBase64(j.x, PublicSize(alg)) IN
  IF ~IsOk(x) THEN x
  ELSE WithSecret(alg, j.d, BlsFromPublic(alg, x.ok))

(* alg/any.rs: the type is chosen by "kty" and "crv"; "EC" is accepted for  *)
(* the BLS curves for JWKs of earlier versions, and "oct" is not supported. *)
FromJwkAny(j) ==
  CASE j.kty = "OKP" /\ j.crv = "Ed25519" -> Ed25519FromJwk(j)
    [] j.kty = "OKP" /\ j.crv = "X25519" -> X25519FromJwk(j)
    [] j.kty \in {"OKP", "EC"} /\ \E a \in Bls : BlsJwkCurve(a) = j.crv ->
         BlsFromJwk(CHOOSE a \in Bls : BlsJwkCurve(a) = j.crv, j)
    [] j.kty = "EC" /\ \E a \in EcCurve : EcJwkCurve(a) = j.crv ->
         EcFromJwk(CHOOSE a \in EcCurve : EcJwkCurve(a) = j.crv, j)
    [] OTHER -> Err("Unsupported")
FromJwk(jwk) ==
  LET parts == JwkParts(jwk) IN IF IsOk(parts) THEN FromJwkAny(parts.ok) ELSE parts

=============================================================================
